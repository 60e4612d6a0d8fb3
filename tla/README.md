# A verification project for AIProxyAPI

TLA+ modules for the concurrent core of the proxy, TLC configurations that check
them on small instances, and TLAPS proofs that hold for every instance. Source
paths below are relative to `src/`.

AIProxyAPI is a Go server that accepts requests in the dialects of several AI
providers, picks one of many credentials (OAuth logins and API keys) for each
request, translates and forwards it, and retries with other credentials when a
call fails. What is hard in it is not any one function but the state that many
goroutines share: availability records that results of concurrent calls keep
rewriting, a registry of who serves which model, credentials that files and
background refreshes replace at any time, and queues between all of these.

## 1. Inventory

| Component | State | Operations | What is hard |
|---|---|---|---|
| Credential availability records (`sdk/cliproxy/auth/types.go`, the result half of `conductor.go`, the blocking half of `selector.go`) | per credential: disabled, status, unavailable, retry time, quota; the same per model | record a success or failure, aggregate models into the credential, ask if blocked | results of calls in flight arrive in any order; the aggregate is recomputed only then, from entries that have expired meanwhile |
| Credential manager (`sdk/cliproxy/auth/conductor.go`) | map of credentials, provider rotation offsets, selector cursors, one goroutine per request and per refresh | Execute / ExecuteStream, pickNext, MarkResult, Register / Update, refresh loop | concurrent requests, retry after a cooldown, read and write back in two critical sections |
| Model registry (`internal/registry/model_registry.go`) | per model: reference count, per-provider count, quota and suspension marks; per client: its list and provider | RegisterClient, UnregisterClient, marks, counts and listings | reconciliation piece by piece; results reported after the manager's lock is released |
| Locks of the request path | `Manager.mu`, `ModelRegistry.mutex`, selector and store mutexes | every call above | nested locks, read locks taken again, a writer that waits keeps readers out |
| Service (`sdk/cliproxy/service.go`) | update queue, websocket providers | apply updates to the manager and registry, Run, Shutdown | three ways in for an update, which may overtake each other; applying one writes the file it came from |
| File watcher (`internal/watcher/*.go`) | hashes, last known credentials, pending updates, configuration | events, snapshot, diff, coalescing, dispatch, reload, a goroutine per change for the store | snapshot without the lock, delivery outside it, stale configuration in callbacks, goroutines in any order |
| Configuration (`internal/config`, `management/config_*.go`, `management/handler.go`, `Server.UpdateClients`) | the file, one object per load, the last snapshot, the settings in force | edit in place and save, replace the file, reload, hand round | edits and reload share objects without a lock; saving merges into the file; three reads for one reload |
| Credential synthesis (`internal/watcher/synthesizer`, `diff`) | none | files and configuration to credentials | pure data |
| Websocket relay (`internal/wsrelay`) | sessions per provider, pending requests, bounded channels | connect, replace, request, dispatch, cleanup, stop | cleanup races with new requests and with messages; channels of eight; reports outside the lock |
| Stream relay (`sdk/api/handlers/handlers.go`, streams in `conductor.go`) | channels and goroutines of a stream | forward chunks, bootstrap retry before the first payload, cancel | consumer gone, payload must not be repeated |
| API key limits (`internal/limits`, `middleware/limits.go`) | configured quotas | check before a call | the count it compares with is written later, by a queue |
| Usage accounting (`sdk/cliproxy/usage`, `internal/usage`) | queue, statistics, saved file | publish, count, save every five minutes and at the end | crash and stop between counting and saving |
| Login sessions (`management/oauth_sessions.go`, `auth_files.go`) | pending logins with expiry, callback files, forwarders on a port | start, callback, poll, complete | expiry and completion race with the callback; logins share a port and complete each other |
| Management API: credentials (`management/auth_files.go`) | the manager's | upload, disable, delete, log in | read and write back; the watcher sees the same file |
| Stores (`sdk/auth/filestore.go`, `internal/store`) | files; a git repository, objects or rows that mirror them | save, delete, persist what the watcher saw, bootstrap | a save of several steps of which one fails; lost answers; restart on another machine |
| Response translators (`internal/translator`) | per stream: kind and index of the open block, announced items, buffers, call indexes, flags | turn each chunk into events of the client's protocol | parts in any order over any chunks, parallel calls, reasons and usage that come apart, streams cut off |
| Request log (`middleware/response_writer.go`, `logging/request_logger.go`) | a writer per answer, two bounded channels, two goroutines, temporary files | keep or stream what is written, put the log together at the end | a field that one goroutine clears while another reads it; the switch of the log; full channels |
| Signature cache (`internal/cache`) | entries with expiry | get, put, evict | an expired entry deleted under a second lock |
| Access control (`sdk/access`) | list of providers | authenticate, reconcile | little |
| Executors, request translators, provider logins, HTTP server, Amp module, frontend | settings | network, parsing, formatting | not state machines |

Interactions. A handler calls `Manager.Execute`, which rotates the request's
providers, and for each of them picks credentials (asking the registry whether
the credential supports the model and the selector which one to take), calls the
executor, and gives the result to `MarkResult`. MarkResult rewrites the record and saves it
under `Manager.mu`, releases the lock and then reports to the registry in one or two
calls. The watcher turns file changes into updates; the service takes them from a
queue, replaces the credential in the manager and registers its models. A
background loop refreshes tokens: it reads a credential, calls the provider and
writes the whole record back. Usage records go through a queue to the
statistics that the limits read.

What makes each part correct:

- records: status and aggregate say what the models say, whatever the order of
  results; nothing holds a credential back for ever; a quota wait is honoured;
- manager: no credential is called twice in an attempt; every request is
  answered; a disabled credential stays disabled;
- registry: counts equal the registrations; a count of 0 means nobody is
  available; a success lifts a suspension;
- locks: no circular wait, every call gives back what it took;
- watcher and service: the last state of a file is the last one applied, nothing
  is lost or applied out of order;
- relay and streams: every request ends exactly once, no payload is repeated, no
  goroutine stays blocked;
- limits and usage: a quota is exceeded by no more than the calls in flight; no
  request is counted twice; what a stop loses is bounded;
- logins: "ok" is said of a saved credential; a callback is read by its login, and
  every login ends;
- tokens and stores: the last token given out is not lost; what is kept outside
  follows the files, whatever fails or restarts;
- configuration: an edit answered with success stays, and what is in force is
  what the file says;
- translators: the client can place every event, gets all of the answer once, and every answer is ended;
- request log: a log holds the answer in order, and the request does not wait for it for ever.

`PROJECT.json` lists every component with its status and every hazard at its line.

## 2. What is modelled

| Module | Models | Checked by |
|---|---|---|
| `AuthState` | a credential's record and the pure functions on it | through CredentialManager |
| `CredentialManager` | manager, selector, service updates, disabling, refreshes, time | `MCCredentialManager` (`Manager_*.cfg`), `MCSelection` |
| `ModelRegistry` | the registry and the reports of results | `MCSelection`, `MCModelRegistry` |
| `LockOrder` | the four locks and the lock operations of every call | `MCProgress`, `MCLockOrder` |
| `AuthUpdateFeed` | what the way from the watcher to the manager promises | as a property of `AuthUpdates`; inside `TokenRefresh` |
| `AuthUpdates` | file events, debounce, hashes, snapshot, diff, pending list, batches, channel, consumer | `MCWatcher`, itself (`Updates_feed.cfg`) |
| `MirroredStore` | the git, object and Postgres stores, the watcher's goroutines for them, restarts | `MCWatcher` |
| `TokenRefresh` | a token between refreshes, its file, the watcher and the service | `MCServices`, `MCProgress` |
| `ConfigReload` | configuration objects, edits, saving, reload | `MCServices` |
| `RelayRequests` | the calls of a websocket session | `MCServices` |
| `RelaySessions` | the connections of the relay and the credentials made of them | `MCServices` |
| `StreamRelay` | the goroutines of a streamed answer, bootstrap retries | `MCProgress` |
| `UsageLimits` | quotas, usage queue and worker, statistics and their file | `MCServices`, `MCProgress` |
| `LoginSessions` | logins through the management API | `MCServices`, `MCProgress` |
| `RequestLog` | the writer through which a handler answers, its log and goroutines | `MCProgress` |
| `ClaudeEvents` | what a Claude client expects of a stream of events | through the translators to it |
| `GeminiToClaude`, `OpenAIToClaude` | four response translators to Claude | `MCServices` |
| `CodexToClaude` | Codex's to Claude | `MCAnswers`, in `MCProgress` |
| `ResponsesEvents` | what a client of the Responses API expects | through the next |
| `GeminiToResponses`, `ClaudeToResponses`, `OpenAIToResponses` | the translators to it | `MCAnswers` |
| `AnswerChunks` | what a client of chat completions or of Gemini's API reads from chunks | through the next |
| `ClaudeToChat`, `GeminiToChat`, `ClaudeToGemini`, `OpenAIToGemini`, `CodexToChunks` (to both) | the translators to them | `MCAnswers` |
| `Services` | eight components side by side: `UsageLimits`, `LoginSessions`, `RelayRequests`, `RelaySessions`, `TokenRefresh`, `GeminiToClaude`, `OpenAIToClaude`, `ConfigReload` | `MCServices` gives it values; `ServicesProofs` |
| `CredentialManagerProofs`, `RelayRequestsProofs`, `LockOrderProofs`, `GeminiToClaudeProofs`, `SelectionProofs`, `ProgressProofs`, `ServicesProofs`, `WatcherProofs` | theorems, of the module or composition they are named after (`CredentialManagerProofs` has those of `AuthState`; `SelectionProofs` those of `ModelRegistry` and of `MCSelection`; `ProgressProofs` those of `StreamRelay`, `RequestLog`, the translators of `MCAnswers` and all of `MCProgress`; `WatcherProofs` those of `AuthUpdates` and `MirroredStore`) | TLAPS |

Components that share no state are checked side by side: `MCSelection`,
`Services`, `MCProgress` (with `MCAnswers`) and `MCWatcher` hold one component natively and the others
as instances, and a variable `part` says which of them a behaviour is of; the others rest in
an initial state. Nothing is abstracted by this: the state space is the union, not
the product, and each property is the component's own, for its part.
Where components do interact, the interaction is inside a module:
results, refreshes, disabling and requests in `CredentialManager`; results
and registrations in `ModelRegistry`; refresh, file, watcher and service in `TokenRefresh`,
which takes the feed that `AuthUpdates` is shown to implement; connections, their credentials and the three
ways of an update in `RelaySessions`; limits and accounting in `UsageLimits`; handlers, watcher
and stores in `MirroredStore`; management API, file, watcher and server in `ConfigReload`.

### AuthState

A record has `disabled`, `status`, `unavailable`, `next` (NextRetryAfter),
`quota` and one entry per model. `MarkSuccess` and `MarkFailure` are the two
halves of `MarkResult`, each with the aggregation that follows it in the code;
`isAuthBlockedForModel` is what the selector asks. A `time.Time` is represented by the
time *left* until it (`NoTime` for the zero Time, 0 for one that has come). The code only
asks IsZero, "is it after now" and which of two future times is earlier, so all
passed times are alike, no clock has to be bounded, and the state space is finite
without cutting behaviours off.

Left out: results and blocking without a model (`applyAuthFailureState`,
`clearAuthStateOnSuccess`: the request handlers always name one), the error's
text, `LastError` of the credential itself (set and cleared with its status).

### CredentialManager

| Action | Code |
|---|---|
| `Start` | `Execute`, `normalizeProviders`, `rotateProviders` |
| `Pick` | `pickNext` and the two selectors, up to the call |
| `Succeed`, `Fail` | the executor returns, `MarkResult` |
| `NextProvider`, `PassFails` | `executeProvidersOnce` goes on or is at its end |
| `Retry`, `GiveUp` | `shouldRetryAfterError`, `closestCooldownWait` |
| `Wake`, `Cancel` | `waitForCooldown` |
| `ReplaceAuth` | `applyCoreAuthAddOrUpdate`, `registerAuthFromFile` |
| `ReadToDisable`, `WriteBack` | `applyCoreAuthRemoval`, `disableAuth`: two critical sections |
| `CheckRefresh`, `CloneFields`, `CloneModels`, `RefreshFails`, `WriteBack` | `checkRefreshes`, `refreshAuth` |
| `Tick` | time |

One action is one critical section, so a provider call, a wait and a refresh leave the
others free to act. Two points deserve a remark. `refreshAuth` takes the pointer
under the lock and clones the record *after* releasing it; since `MarkResult`
mutates the same record, the clone may be torn, which is modelled by cloning in
two steps, the fields and then the models. The two invariants that relate
the fields to the models therefore exclude the credentials in `Refreshable`. And
a replaced credential loses its model states, as `Update` does in the code.

`Supports` (what the registry says) is a constant here, since the registry has a
module of its own. All credentials are there from the start: registering one is
the same step as replacing it. The refresh schedule (`NextRefreshAfter`) is
abstracted to "a refresh may become due", and the token to nothing. The Go
runtime's abort on a concurrent map access during a torn clone is not modelled.
`calls` is a history variable: the calls of a request on a credential in its
present attempt.

### ModelRegistry

`models`, `clientModels` and `clientProviders` are the three maps; a client's list is a bag,
because the code counts duplicates. `RegisterClient` is the code's reconciliation (moved,
removed, added, cleared) as one function of a model's entry,
`Reconciled`; `UnregisterClient` its removal. A request (`Reporter`) first finds
the model supported, then the manager records its result (`MarkResult`), then it
makes the registry calls one by one (`TellRegistry`), and other goroutines come
between any two of these. `succeeded` and `crossed` are history variables: the pairs whose
result the manager recorded last was a success, and those of which that success was recorded while an
earlier failure of the pair still had to tell the registry (`WillSuspend`). Left out: model metadata and
the listings in API formats, hooks (they run in goroutines of their own), and
`CleanupExpiredQuotas`, which nothing calls.

### AuthUpdates and AuthUpdateFeed

| Action | Code |
|---|---|
| `Change` | someone writes, truncates or removes a file; fsnotify queues an event once the directory is watched |
| `HandleWrite`, `HandleRemove`, `Settle`, `WindowEnds` | `handleEvent`: hash check, debounce window, second look after `replaceCheckDelay`, `addOrUpdateClient`, `removeClient` |
| `Watch`, `Rescan` | `start`, `reloadClients` with a rescan |
| `Reload` | `reloadConfig`, `reloadClients` of the timer goroutine |
| `Snapshot`, `Diff`, `Dispatch` | the three parts of `refreshAuthState`: without a lock, under `clientsMutex`, under `dispatchMu` |
| `TakeBatch`, `Send`, `Apply` | `nextPendingBatch`, `dispatchLoop`, `consumeAuthUpdates` |

`os.WriteFile` truncates and then writes, so a file may be found empty (`Partial`);
the code passes over an empty file. Add and modify are one update, since the consumer treats
them alike, and a delete carries `Missing`. An update leaves `queue` when it has been
applied, so `QueueCap` counts the one in the consumer's hand. A snapshot reads
all files at once; with several files the code reads them one after the other.

`AuthUpdateFeed` knows only a backlog per credential: a publication adds a state or takes
the place of the last one, a delivery applies the oldest. `AuthUpdates` maps
to it by `Backlog`: what of a file is in the channel, the batch and the pending list.

`changed` and `raced` are history variables. `raced` names the files whose
state may be lost, and `QuietFilesApplied` says that no other is. The four ways into it
are real: (1) a file removed between `Manager.Load` and the first scan makes no
difference to the watcher, which never knew it, and its credential stays; (2) a
snapshot taken between a change and its event already has the new state
in `currentAuths` but not in the hashes, or the other way round; (3) two
refreshes overlap and the older snapshot is compared, or published, last; (4) the second
remove within a second is dropped and nothing looks again.

Left out: credentials made from the configuration, a configuration that changes
the auth directory, the callback after a credential file changed (`clients.go:150`), `Stop`. Persisting
is in `MirroredStore`, websocket providers and the inline fallback of
`emitAuthUpdate` in `RelaySessions`, the reload of the configuration in `ConfigReload`.

### LockOrder

A call is the sequence of its lock operations, read off the code (`Steps`);
`RWMutex` is modelled with Go's rule that a waiting writer keeps new readers out.
Locks that are never held while another is taken (the store's directory lock and
others) are left out, since they cannot be part of a circle.

### MirroredStore

| Action | Code |
|---|---|
| `BeginWrite`, `EndWrite` | `UploadAuthFile`, an edit of the configuration or by hand: `os.WriteFile` truncates, then writes |
| `Remove`, `Delete` | `DeleteAuthFile` removes the file and then asks the store; or someone removes it |
| `SaveMetadata`, `SaveToken`, `WriteToken` | `Save` of a refreshed credential (renamed into place) and of a login (`SaveTokenToFile`) |
| `BeginTask`, `Read`, `Send` | `PersistAuthFiles`, `PersistConfig`, and the second half of every save: read the file, then put a row or an object, or commit and push |
| `PullFails` | `EnsureRepository` before a goroutine or a deletion of the git store |
| `HandleWrite`, `HandleRemove`, `WindowEnds`, `BeginReload`, `EndReload`, `Watch`, `Scan` | the watcher, as far as it decides what to send |
| `Restart(moved)` | the program ends at any point and starts on the same or on another machine: `Bootstrap`, `EnsureRepository` |

`backend` says which of the three stores it is; where they differ the operator that
differs says so (`Record`, `Delete`, `Read`, `Send`, `FromRecords`, `FromRepository`). `Send`
has three outcomes: done, lost before it took effect, and unsure (it took effect but the
answer was an error). `answered` remembers what a save or deletion has sent with success, and
`excused` the files that the watcher will not send, with the reason. Left out:
several machines with one store at the same time, `List`, and what a failed
`Bootstrap` leaves (the program ends). A save that mixes with another writer of the same file in
mid-write is simplified to the last writer. A reload that overlaps another one is in
`ConfigReload`, not here.

### TokenRefresh

One credential whose provider gives out a new refresh token for each refresh and
takes each only once, as Codex and Claude do. `Begin`, `ReadToken`, `Trade`, `Refuse`,
`BackOff`, `Update`, `Persist` are the parts of `checkRefreshes` and `refreshAuth`
between which others may act; `Notice` is the watcher, `TakeUpdate`,
`ApplyUpdate`, `PersistUpdate` the service (`applyCoreAuthAddOrUpdate`: reads the old record, replaces
it, and `Update` saves it), `MarkResult` a result that saves the record, `Restart`
a crash, `Republish` a reload of the configuration that hands out every credential as the
watcher knows it (`dispatcher.go:78-127`). Every save may fail, and nobody learns of it: `Update` and
`MarkResult` drop the error of `persist` (`conductor.go:234`), so that the manager goes on
with a token the file lacks. The file is the file store's; a mirrored store that wrote it and failed to send it
has saved it as far as this module goes. The way from the watcher to the service is an instance of
`AuthUpdateFeed`, which `AuthUpdates` implements. Tokens are numbered. Two histories: `excuses`,
refreshes that ran at once, a refresh during an echo, a token lost with its answer, with the process or
with a failed save; and `unsaved`, that the last save failed.

### ConfigReload

Configuration objects are references into `heap`, because the code shares and edits them in
place. `Change`, `BeginSave`, `Write`, `Notify` are a request that edits one setting
(`persist`, `SaveConfigPreserveComments`, `onConfigMutated`); `BeginReplace`, `WriteBody`,
`Swap` are `PutConfigYAML`; `Rewrite` an edit by hand; `Notice`, `Fire`, `Load`, `Install`,
`Take`, `Apply`, `TakeSnapshot`, `Give`, `Rehash` the timer, `reloadConfigIfChanged`,
`reloadConfig`, `reloadClients` and `UpdateClients`. `Merged` is what
`mergeMappingPreserve` writes: the new values over the old file, keys that the new
configuration lacks left in the file (`Unpruned`). Two kinds of settings
tell the paths apart: one that is applied only where it differs from the last snapshot
(`Compared`), one that the API also applies at once (`Direct`).
Left out: defaults, migrations and the hashing of the management key, which rewrite the file
when it is loaded; edits by hand are atomic.

### RelayRequests and RelaySessions

`RelayRequests` are the calls of one session. `Lookup`, `Store`, `Send` are
`Manager.Send` and `session.request`; `Read`, `Dispatch` the reader's goroutine (it loads
the pending request and then sends, `Offer`, dropping the message if the channel
is full); `Take`, `TakeClosed`, `Abandon` the consumers `NonStream` and `Stream`;
`Expire`, `Withdraw` the end of a call's context and the goroutine that waits for it;
`Cleanup`, `Visit`, `FailVisited`, `Detach` the walk over the pending map. A
panic (`crashed`) ends the program. `behind`, `answered` and `lost` are history variables.

`RelaySessions` is the other half: `Accept`, `Replace`, `AfterReplace`,
`ReportConnected` are `handleWebsocket`; `LoseConnection`, `Cleanup`, `Detach`,
`ReportDisconnected` the end of a session; `Stop`, `StopSession` the end of the manager;
`Reconnect` a new connection under any name. `Emit` is `emitAuthUpdate` with its three
ways (`route`), `Apply` the consumer. `Outstanding`, `Unreported` and `raced` record the four
races that `CredentialsMatch` excepts.

### StreamRelay

The goroutines of one streamed answer. `Source(k)` (`HandOver`, `HandOverError`, `Finish`)
is attempt k's executor and relay goroutine in `executeStreamWithProvider`; `Handler` (`Open`,
`TakePayload`, `TakeError`, `Restart`, `Stop`, `CloseErrors`, `CloseData`) is
`ExecuteStreamWithAuthManager` with its bootstrap retries and its deferred closes; `Writer`
(`Write`, `ShowError`, `ShowDone`, `GiveUp`) the HTTP handler: the first peek and then `ForwardStream`.
`Leave` and `Cancel` are the client. A `select` with several ready cases is a free choice.

### UsageLimits

`Accept`, `Reject` are `LimitsMiddleware` with `CheckAccess`; `BeginCall`, `Finish`,
`Publish`, `Signal` a call and its reporter; `Wait`, `TakeRecord`, `Count`, `EndWorker`
the worker of `usage.Manager` (`Wait` is a condition variable: a signal is
lost if nobody waits); `BeginSave`, `EndSave`, `Restart`, `Export`, `Import`,
`Stop`, `Down`, `NextMonth` the rest. Records are told apart, so that counting twice
shows. `EndSave` may fail; a crash comes at any point. Statistics are enabled.

### LoginSessions

A login is a session in the store (`session`, `age`), a handler that starts a forwarder
in steps (`TakePrevious`, `Replace`, `Listen`, `Publish`) and a goroutine (`Check`, `Read`, `Judge`,
`Remove`, `Exchange`, `Complete`, `CompleteAll`, `StopInstance`, `Close`). `Check1`, `Create`,
`Fill` are a callback: the check that its login is pending, the file created empty, the file
written. `Exchange` ends in one of three ways (`Outcome`): nothing saved, saved whole, or saved in
part, where a mirrored store has written the file and then fails to send it
(`postgresstore.go:234` then 273, `gitstore.go:244` then 287, `objectstore.go:187` then 222).
`Tick` is time, as three ages of a session. Logins of `Device` poll instead.

### ClaudeEvents, GeminiToClaude, OpenAIToClaude

`ClaudeEvents` (external: the client of the Messages API) says what a stream of events
means to the one who reads it: a message is started, blocks are opened one at a time under fresh
indices, deltas go to the open block, a message ends once. An event that it cannot place
breaks it. `GeminiToClaude` has the parameters each of the three translators keeps
across chunks and one action per kind of part; the three
share most of their code and differ by `dialect` where they do not. A chunk is
any number of parts and then `EndOfChunk`, with or without a usage. `OpenAIToClaude` has one action
per kind of delta, the finish reason, the usage and `[DONE]`. Texts, ids and counts are left out.
`excuses` names what the properties except; each is needed, TLC finds an answer that breaks
the client without it:

- Gemini's: parts after the last chunk; antigravity's empty text in the midst of an answer, which
  stops the block but keeps its kind (`antigravity_claude_response.go:200`); a signature without a
  thought; and a stream of the other two that is cut off or whose last usage has no
  `candidatesTokenCount`: it gets `message_stop` with the block still open and no `message_delta`;
- OpenAI's: deltas after the finish reason; a call named twice; one never named; usage that comes twice
  (a second `message_delta`, after `message_stop`); and `[DONE]` without a finish
  reason (`message_stop` without `message_delta`).

### CodexToClaude and the translators to the Responses API

`ResponsesEvents` (external: a client of the Responses API) is the same for items: one is added once, gets
deltas while it is open, is done once, and the completed response lists as many pieces of each item as were
streamed. `GeminiToResponses` has an action per part of a chunk and `Finish` for the finish reason, with the flags and buffers
of the translator's state; `ClaudeToResponses` one per Claude event; `OpenAIToResponses` one per kind of
delta and `Finish`. `CodexToClaude` goes the other way, from the events of a Responses API to `ClaudeEvents`.
Items are told apart by their ids; ids, not positions, decide what a delta belongs to. Excepted, each needed:

- Gemini's: parts after the finish reason; a stream that is cut off;
- Claude's: a second text or thought of one answer, since there is one id and buffer for each; a thought without a word;
- OpenAI's: chunks after the finish reason; content that goes on after a call (its item is done already);
  pieces of a call before its id; parallel calls, all of which go under the id of the first
  (`openai_openai-responses_response.go:263` onwards);
- Codex's: items of several parts, whose blocks share the index of the item; responses that fail or are incomplete, after
  which no `message_stop` comes.

### AnswerChunks and the translators to chat completions and Gemini

`AnswerChunks` (external: a client that adds up chunks) counts the texts and thoughts it has read and the pieces of each call
by its index, and takes one finish reason; what comes after it, or a call that is begun twice, breaks it. `Whole` says that it has all
that the provider said. The translators have an action per event of Claude's or Codex's stream, and one
`Chunk` per chunk of Gemini's or OpenAI's, for these say several things in one. Excepted, each needed:

- `GeminiToChat`: of several texts, or thoughts, in one chunk only the last is left; a further call in a later chunk
  takes an index that is taken, and text after the calls comes after a finish reason; a finish reason that comes alone, after the
  calls, overwrites `tool_calls`; MAX_TOKENS becomes `max_tokens`, which chat completions do not know
  (`gemini_openai_response.go:92`);
- `ClaudeToGemini`: every call is sent with a STOP, so that blocks may follow an end; `max_tokens` is mapped and then
  overwritten by an unconditional STOP;
- `CodexToChunks`: a response that fails; and, to Gemini, anything after a call: the chunk stored for it
  (`LastStorageOutput`) is sent again with each later one. A text without calls gets no finish reason there;
- `OpenAIToGemini`: a chunk that says something beside a call or a finish reason, of which only one is kept;
  a chunk with nothing but `finish_reason: null`, taken for a STOP, after which the calls may be split.

### RequestLog

The handler (`WriteHeader`, `Write`, `Finalize`, `BeginClose`, `EndClose`), the goroutine that relays chunks
(`RelayStart` and `RelayRange` are its two reads of `chunkChannel`) and the one that spools them (`Spool`, `SpoolEnd`).
`SetEnabled` is a reload of the configuration at any time. A stream may become one half way, since `c.Status` of an error
calls `WriteHeader` after chunks were written. Files may fail at each step.

## 3. What the runs show

| Run | Instance | Result |
|---|---|---|
| `Manager_models` | 1 credential, 2 models, 2 requests, 429 and errors without a status, replacement, late disabling | `TypeOK`, `StatusTracksErrors`, `AggregateExact` hold |
| `Manager_progress` | 1 refreshed credential, 1 model, 2 requests, 429, round-robin, 1 writer, fairness | `NoLockout`, `RequestAnswered` hold |
| `Selection` | registry, lists: 2 clients, 2 providers, 2 models, one of them listed up to twice, reporters one at a time; registry, results: 2 reporters at once, 1 model; manager: 2 requests, 2 credentials of 2 providers, lists of 1 and 2, with and without an API key's limit, 1 retry | `TypeOK`, `CountsExact`, `ProvidersExact`, `SuccessResumes`; `OneCallPerAttempt` hold; 1.06 million states |
| `Updates` | updates: 1 file with 2 contents, start, event loop and one timer goroutine, 1 unhandled event, room for 1 update; mirror: 1 credential file and the configuration, 2 contents, 3 stores, 3 changes | `FilesTypeOK`, `QuietFilesApplied`, `StoreMirrored` hold |
| `Updates_feed` | updates with 2 unhandled events and no timer, fairness | `UpdatesInOrder` holds |
| `Services` | eight parts, see the bounds | 15 properties hold |
| `Services_progress` | seven parts, those that wait under fairness; 229 thousand states | 11 properties hold |
| `Manager_quota_wait` | 2 requests, errors 0, 429, 500 | `QuotaWaitHonoured` is violated |
| `Registry_available` | 2 clients, 1 model, 1 reporter | `AvailableCounted` is violated |
| `Locks_auto_model` | 2 goroutines, every call | `NoCircularWait` is violated |
| `Relay_panic` | 1 call | `NoSendOnClosed` is violated |
| `Stream_failure_shown` | 1 stream | `FailureShown` is violated |

What `Services` and `Services_progress` check, part by part:

| Part | Module | Properties |
|---|---|---|
| usage | UsageLimits | `QuotaBounded`, `CountedOnce`, `SavedStays`; under fairness, over two months, `QueuedIsCounted` |
| logins | LoginSessions | `OkMeansSaved`, `CallbackReceived`, `ForwarderStays`; `LoginEnds` |
| calls | RelayRequests | `CompleteIsWhole`, `NobodyStranded` |
| connections | RelaySessions | `CredentialsMatch`, `LiveSessionsFound` |
| tokens | TokenRefresh | `TokenKept`; `EchoEnds` |
| gemini, openai | GeminiToClaude, OpenAIToClaude | `GeminiAnswerWellFormed`, `OpenAIAnswerWellFormed` |
| config | ConfigReload | `EditsInForce` |
| locks | LockOrder | `NoCircularWait`; `EveryCallReturns` |
| stream | StreamRelay | `OneAttemptShown`, `DoneIsWhole`; `ResponseEnds` |
| answer | ten translators of `MCAnswers` | `AnswersWellFormed` |
| log | RequestLog | `LogFollowsAnswer`; `ResponseEnds` |

The violations are disagreements between the code and what it says of itself; each is a
finding in `PROJECT.json` with the quoted line:

- **A quota wait is shortened.** Two calls of one credential are in flight; one ends
  with 429, the other with another error, which overwrites the retry time. The
  credential is called before `NextRecoverAt`.
- **A client over quota is subtracted twice** in `GetModelCount`, so it may say 0
  while another client is available.
- **A read lock inside a read lock.** `GetFirstAvailableModel` locks up with a writer
  that asks in between.
- **A send on a closed channel.** A session of the websocket relay is cleaned up while a call has stored its
  request and not yet sent it. The send fails and closes the request's channel; cleanup's walk, which has the
  request at hand, sends the error on it and panics in a goroutine that nobody guards. (The goroutine
  of a call whose context ended closes the channel as well, and then `dispatch` may be the one that panics.)
- **A failed stream ends as complete.** If a stream fails before its first payload, the waiting
  handler finds the error and the closed data channel both ready and may take
  the latter: status 200, `[DONE]`, nothing else.

Properties often except a history: `raced`, `excused`, `excuses`, `races`, `crossed`,
`swept`, `lost`. Each exception is a race or a failure the code does not get over, was found by TLC as a
counterexample of the property without it, and is part of what the run shows:
*nothing else* goes wrong. They are the following, with what else was seen
while reading.

**Credentials and registry.** A refresh under way writes its enabled clone over
a record disabled meanwhile (`conductor.go:1632`; `DisabledStays` of
`CredentialManager` is false; of `Disabled`, `types.go:35` says "the auth is
intentionally disabled by operator"). Results reach the registry in another
order than the manager recorded them, because they are reported after the unlock (`conductor.go:928`): a failure
still on its way when the success was recorded may leave the client suspended, or marked over quota, after it.
`SuccessResumes` says that this is the only way, and that the next success which
meets no failure on its way makes it good, with any number of requests at once. `config.example.yaml`
(line 62) lists the status codes on which a request is retried; `shouldRetryAfterError`
retries on any error, but only if a short enough cooldown is pending, and a 403 or a
500 alone makes one that is too long.

**Tokens.** `TokenKept` fails after two refreshes of one credential at once (a refresh
longer than the pending minute, or an update from the file that puts the earlier
`NextRefreshAfter` back), after a refresh that updates the manager while an older state
of the file is on its way back to it, and after a crash between the provider's answer and the write. A save that fails
(`conductor.go:234` drops the error) leaves the manager with the token and the file with the one before, at rest and with no word of
it, until something saves again; `TokenKept` says so. A restart, or a reload that publishes the file's state, loses the token if it comes first. If a refresh
comes between, the two tokens may go round between file and manager for ever: each
application of an update writes the file, which is noticed and applied again (`service.go:285`). `EchoEnds` excepts this,
and a configuration that is reloaded again and again.

**Watcher.** `QuietFilesApplied` names four races, see AuthUpdates above.

**Stores.** `StoreMirrored` excepts: a failed goroutine or push, which nothing repeats (a later commit
of any file pushes git's whole tree, but an unchanged tree is not pushed again); a change
between bootstrap and first scan, which is known but never sent; a file that got the content back
which the watcher knew, after another one, or an empty one, was sent; a file removed before the
watcher knew it; the second removal within a second; and, for git, what was still to be
sent at a restart. Further: `Save` answers ok without sending when the file has the content already, though by its
comment it "persists authentication metadata to disk and PostgreSQL" (`postgresstore.go:205`): after a
save whose sending failed, the same save again says ok and sends nothing, and only
the watcher's goroutine makes it good. `DeleteAuthFile` removes the file before it calls the store; git's
`Delete` then finds none, commits nothing and answers ok, and if the watcher's goroutine fails
the credential comes back with the next clone. A goroutine that finds the file truncated deletes
the row, or stores an empty configuration. Two machines with one
repository never pull each other's commits, since every commit replaces the history, and
a push overwrites what the other pushed; that is not modelled.

**Configuration.** `EditsInForce` excepts five races: two timer goroutines at once; the hash taken of a newer
content than was loaded (`config_reload.go:67-77`), which is then skipped as unchanged; an object edited while it is
handed round; a request that lags behind the file (`SetConfig` exchanges the object without `Handler.mu`, so that an edit
made before and saved after is lost); and a content that comes back within the debounce. And it excepts deletions: saving merges, and
removes from the file only what it prunes, oauth-excluded-models (`config.go:918,1064`). Clearing
`oauth-model-mappings` or all of the Amp upstream keys through the API answers ok, but the keys stay in the file
and are back with the next reload. A file truncated by a save at the wrong moment loads as a blank
configuration until the next event. A failed save leaves the edit in memory.

**Relay.** A dropped message (channel full) makes `NonStream` report an incomplete answer as
complete. A session lost before its connection was reported leaves a credential
without a connection; so does one that reconnects while the end of the last one is being reported. The goroutine
of `Stream` stays blocked at `http.go:130` when its consumer is gone.

**Streams.** When the client went away the handler stops reading, and the relay goroutine of an
attempt stays blocked on its unbuffered channel (`conductor.go:571`), its result never recorded; `ResponseEnds`
says the contrary of clients that stay.

**Usage.** A quota is exceeded by the calls of the requests under way together
(`docs/API_KEY_LIMITS.md:34` promises a limit); with statistics disabled no quota ever binds; a quota on an alias
counts nothing, since calls are recorded under the upstream name; of two patterns that match, either may decide
(`enforcer.go:75` ranges over a map). `Stop` is said to drain the queue
(`usage/manager.go:81`), but does not wait for it, and the last save may miss records. A load that failed is followed by saves that
replace the file.

**Logins.** `GetAuthStatus` says "ok" of a state that is unknown, was completed by another
login of the provider, or has expired. A callback file may be read while it is
empty, and one that comes too late stays in the directory. A login that is told "error" may have its credential on
disk all the same, where the watcher loads it: the mirrored stores write the file first and send it then, and leave it there when that fails.
`OkMeansSaved` therefore says of "error" only that the credential was not saved whole. If the port cannot be taken the session stays pending until it expires.

**Translators.** The exceptions are listed above. Also seen, and not part of a property: Gemini's translator to the Responses API
keeps only the first piece of a text for the events at its end (`gemini_openai-responses_response.go:196`), Claude's sends an
empty `output_text.done` (`claude_openai-responses_response.go:215`); items of one answer may carry the same `output_index`;
Gemini's final output has reasoning, message and calls in this order whatever the order of the stream; usage that OpenAI
sends after the finish reason never reaches `response.completed`. Claude's calls get their block's
index in chat completions, so that there are gaps, and OpenAI's calls reach a Gemini client in the order of a
map. Empty reasoning items of Codex leave gaps in Claude's block indexes.

**Request log.** `LogFollowsAnswer` and `ResponseEnds` except: a full channel, whose chunk is skipped by design; a stream
that becomes one half way (the part kept in the buffer is lost); chunks written while the log was off; a log switched off under a
writer: `Finalize` returns at once (`response_writer.go:268`), and both goroutines and the temporary files stay;
and a relay that is scheduled after `Finalize`: it returns at its first look (the chunks are lost), or has looked
and ranges over a nil channel (`response_writer.go:235`), for which the handler waits for ever. Streams that succeed never
call `WriteHeader`, so that they are kept in the buffer as a whole and not streamed to the log.

### Bounds, and why they are enough

- *Requests:* two. The properties of records compare one result with another
  of a call in flight; a third adds no new pair. Order among them is free.
- *Models:* two where the aggregate matters (one down, one not; both down with
  different times), else one. *Credentials:* two where selection matters.
- *Times:* backoff 1, 2 (the cap), so a level below and at the cap both occur; the
  other cooldowns keep the code's order. The short `MaxRetryInterval` lets some
  cooldowns be waited for and others not.
- *Retries:* one, so that an attempt with and without one left both occur.
- *Cursor:* `CursorWrap` is the code's 2 147 483 640, made small so that it wraps;
  the code itself resets it the same way. The backoff level needs no bound, its bound is a
  property (`TypeOK`: the level stops at the cap, so the shift by it cannot overflow).
- *Registry:* two clients and two providers are what moving a model between
  providers takes; a list with a duplicate and one without both models make
  every case of `Reconciled` occur. `QuotaWindow` 1 gives marks in force and expired.
  Two reporters, so that a success meets a failure on its way (`crossed`) and later ones meet none; with three, and
  with results that make no call, `SuccessResumes` was checked once (517 thousand states).
- *Locks:* three goroutines, since a circle through a waiting writer takes two and
  the third may keep the writer waiting. `CirclesImpossible` is the same for any number.
- *Updates:* one file, because files meet only in snapshots and lists that keep the
  order of each; two contents, to tell a modification from a repetition and an old
  state from a new one. Changes are not counted, so any number may follow each other. Room for one
  update makes the dispatch loop wait. *Updates_feed* has a second unhandled event instead of the timer.
- *Mirror:* one credential file and the configuration, since git sends one with the other; `MaxChanges` 3 is a
  file, another content, and the first one back or none; one waiting goroutine per file beside the one that has the
  mutex. Four changes and two goroutines were explored without an error as far as memory went.
- *Calls:* one plain and one streamed call; a channel of one is full at the second message. *Connections:* one
  name and three sessions, so that one is replaced, one replaces it and a third comes back.
- *Usage:* two requests of two calls within one month; of one call over two months.
- *Logins:* two on one port and two callbacks; under fairness one with a port and one that polls.
- *Tokens:* two refreshes and two new tokens, so that one may be given out, overtaken and lost; one crash; any save may fail.
- *Streams:* two bootstrap retries and three payloads: a retry after none, one and two.
- *Translators:* four blocks, that is, any kind after any other, twice; two tool calls. To chunks: three chunks of up to
  two parts, so that a call has one before and one after it, in its chunk and in another; two pieces of a text or call.
- *Log:* three chunks and channels of one, so that each of them is full once with one chunk at hand; two switches: off and on again.
- *Configuration:* two settings, two requests, one timer goroutine, two changes, five objects (the code makes no
  more with them). Three changes were checked once (9.5 million states).

Symmetry is used for requests and reporters, for clients and providers, and for file contents, only in runs without liveness.
Deadlock checking is off where the modelled program comes to an end: `Services`, `Services_progress`
(usage ends with the process, logins, streams and logs are finite, a panic stops everything), `Relay_panic` and
`Stream_failure_shown`. It is on in the others.

### Fairness

`CredentialManager!FairSpec` assumes that time passes and that a request's
goroutine that can go on does: a provider call returns, at the latest by its
HTTP timeout. Nothing is assumed of arrivals, cancellations, file changes,
refreshes or write-backs. `LockOrder!FairSpec` assumes strong fairness of each
goroutine in a call, because Go's RWMutex lets the readers it kept out go before the next
writer, and its Mutex in starvation mode is handed to the longest waiter; nothing
makes a goroutine begin a call. `AuthUpdates!FairSpec` assumes that the dispatch loop and
the consumer go on when they can; nothing is assumed of files, events and refreshes. In the other
modules weak fairness stands for goroutines that the Go scheduler runs: the usage worker and a `Publish` between its
unlock and its signal; a login's goroutine, whose exchange with the provider ends by the client's timeout, and time; the
watcher and the service of a token's echo; a stream's source (the provider sends or fails), handler and writer; a log's relay and spooler, and its `Finalize`. Nothing
makes a client, a callback, a save or a refresh come.

## 4. What is proved

For every value of the constants that the assumptions allow:

- `AuthStateAssumption` (`CooldownParameters`): finitely many models, positive cooldowns, and `MaxBackoffLevel` the first level at which the
  backoff reaches its cap; `ManagerAssumption` (`ManagerParameters`): finitely many credentials, provider lists that are not empty and without
  repetition, as `normalizeProviders` makes them; `RegistryAssumption`: finitely many clients and providers, any multiplicity of a
  model in a client's list;
- `ServiceParameters`, the conjunction of the parameters of the eight components of `Services`: finitely many requests under
  quotas (`LimitsParameters`); WebUI and device logins are different ones (`LoginParameters`); no setting is both compared
  with the snapshot and applied by the API itself (`ConfigParameters`: `UpdateClients` compares none of the latter);
  positive room in the queues; that the names for "none" are none of the things; `MaxCalls`, `MaxMonth`, `MaxBlocks`,
  `MaxToken`, `MaxChanges` bound the model and are arbitrary in the proofs;
- `UpdatesAssumption`, `WatcherParameters`: finitely many files, distinct contents and goroutines;
- `SelectionParameters`, `ProgressParameters`: those of the components that `MCSelection` and `MCProgress` hold; of the log, room
  in its channels and any number of chunks and switches (`LogParameters`);
- `RequestsParameters`, `StreamParameters`, `LockParameters`, `GeminiParameters`, each a hypothesis of its theorems.

| Theorem | States | Along |
|---|---|---|
| `TypeCorrect` | `[]TypeOK` of the manager, with the level bound | `IInv`: TypeOK is not inductive alone. `Wake` counts an attempt, so it needs that a request only waits with an attempt left; `WriteBack` needs that a writer at work has a credential |
| `ErrorsTracked` | `[]StatusTracksErrors` | `AuthsOK`: each record *and each writer's clone* is sound, for a clone becomes a record later |
| `AggregateIsExact` | `[]AggregateExact` | `AuthsOK` as well. `CredentialOK` is the two properties, the type, and `UntrackedClean`: a model without an entry carries no error, time or quota, so that the quantifiers over all models and over the tracked ones agree. `Elapse` and `MarkFailure` need a lemma each, since time moves the models and the aggregate apart |
| `CalledOnce` | `[]OneCallPerAttempt` | `PassInv`: the credentials called belong to providers the attempt has passed, or are in the present provider's tried set. That they do not mix rests on `RotatedDistinct` |
| `EachCredentialOnce` | `[]OneCallPerAttempt` of the composition `Selection` | a behaviour of `MCSelection` is one of `CredentialManager`, operator by operator (`ManagerSame`), and `CalledOnce` is about those |
| `RegistryTypeCorrect` | `[]TypeOK` of the registry | inductive; one lemma per operation on an entry (`AddedType`, `RemovedType`, `ReconciledType`, ...) |
| `SuccessLiftsSuspension` | `[]SuccessResumes` of the registry, for any number of requests at once | `ResumeInv`: what a report has left to tell is the rest of what its result calls for (`ReportsResult`); of a pair whose last success met no failure on its way, nobody is about to suspend the client, it is not suspended or will be resumed, and it has no quota mark or will lose it (`ResumedOrWillBe`). Whatever the service registers, moves or removes meanwhile suspends nobody (`ServiceNotMore`) |
| `RegistrationsCounted`, `ProvidersCounted` | `[]CountsExact`, `[]ProvidersExact` of the registry | `ExactInv`. `RegisterClient` goes through the lists entry by entry; each step of it is described by what one client holds (`Holds`: its registrations and those of its provider) while the sum over the others does not change, and `SumStep` takes a client out of a sum |
| `RequestsTypeCorrect` | `[]TypeOK` of RelayRequests | inductive |
| `CompleteAnswersAreWhole` | `[]CompleteIsWhole` | `IInv` adds: what lies in a channel is what its consumer is behind by (`PiecesCounted`); nothing follows a terminal message in a channel (`NothingAfterTheLast`); a channel is closed only for a reason that the consumer can tell (`ClosedForAReason`); what is complete stays so |
| `CleanupFindsAll` | `[]NobodyStranded` | `NobodyPassedBy`: a call that waits on an open channel is in the pending map, the session is not yet detached, and while cleanup walks, the walk has the call still before it or at hand; what is stored behind the walk is taken out by `Send`, which fails on a closed session |
| `StreamTypeCorrect` | `[]TypeOK` of StreamRelay | inductive |
| `OneAttemptIsShown` | `[]OneAttemptShown` | `InOrder`: shown, in the channel, at hand and still to be handed over are consecutive payloads of one attempt, and an attempt with a payload past the handler is not replaced (`sentPayload`) |
| `CompleteStreamsAreWhole` | `[]DoneIsWhole` | `Ended`: an attempt's result is recorded exactly when its upstream is over (`ResultRecorded`), a recorded failure is still in the relay, in the error channel, or the response is over (`FailureReported`), the handler ends for one of three reasons (`EndedForAReason`), the writer ends after it (`WriterEnds`), and a response that ended with done holds everything its attempt produced (`EndedWhole`) |
| `LocksTypeCorrect` | `[]TypeOK` of LockOrder, for every set of calls | `ReadsInv`: a count of readers stays a natural number because what is left of a call gives back, in order, the read locks that its goroutine holds and no others (`ReadPath`); that every call as a whole does (`CallsGiveBack`) follows from how it is put together of locked sections |
| `CirclesImpossible` | `[]` no circular wait, for any set of calls in which none takes a lock for reading that it reads already (`NoNestedRead`, all but `GetFirstAvailableModel`) | `IInv`: nobody reads a lock twice (`ReadsOnce`), what is left of a call gives back what is held (`LeftOver`), and an announced writer waits (`Writers`). Every lock has a rank, the manager's below the others; who waits holds only locks below the one waited for, so a set of waiting goroutines has one with nobody of the set before it |
| `NobodyWaitsInACircle` | `[]NoCircularWait` of the composition `Services_progress`, if `NoNestedRead` | a behaviour of `MCProgress` is one of `LockOrder` (`LocksSame`), and `CirclesImpossible` is about those |
| `LogAlways`, `LogsFollowAnswers` | `[]LogInv`; `[]LogFollowsAnswer` | the file, the channel to the spooler, the relay's hand and the channel from the handler hold, in this order and ascending, what was sent, and all of it unless a chunk was skipped (`InLine`); who has ended has emptied what it reads and everyone before it has ended (`EndInTurn`); without a `streamWriter` the buffer has it all (`Buffered`); and what is kept is what was there when `Close` was through (`LogKept`) |
| `AnswersAlways`, `EveryAnswerIsWellFormed` | `[]AnswersInv`; `[]AnswersWellFormed` | an invariant for each model of a translator, below |
| `ProgressTypeCorrect` | `[]PartTypeOK` of `Services_progress`, for every set of calls that take locks | the type parts of `LogAlways`, `AnswersAlways` and `StreamTypeCorrect`, `LocksTypeCorrect` by the same correspondence, and an invariant each for the others: of the usage part, that a request not let in has no record on its way (`Early`), which keeps `peak` at most the number of requests; of the logins, that only those with a forwarder come to listen; the tokens' types are inductive |
| `GeminiTypeCorrect` | `[]TypeOK` of GeminiToClaude | inductive; the events of `ClaudeEvents` leave a client a client (`EventsType`) |
| `GeminiAnswersAreWellFormed` | `[]AnswerWellFormed` of GeminiToClaude, for the three dialects | `Good`, for answers without an excuse: the block the translator believes open is the only one open at the client and the next index is fresh (`BlockAtHand`), content without an open block has got its final events (`ContentOpen`), antigravity's flag says whether they were sent (`FinalOnce`), and the message is over only after `[DONE]` (`OverWhenDone`). With an excuse nothing is claimed, and excuses are never taken back |
| `UsageAlways`, `CallsCountedOnce` | `[]UsageInv`; `[]CountedOnce` | a record is in the queue once and not also in the worker's hand (`QueueInv`); until it has left them it is counted in no statistics, no snapshot, no file and no export (`WayInv`), so counting it makes one everywhere (`AtMostOnce`) |
| `QuotasBounded` | `[]QuotaBounded`: at most the quota less one, and `MaxCalls` for each request of the largest number under way at once | `QuotaInv` bounds a larger set than the property: the calls of a month *and those that the requests let in may still make* (`Reach`). A request is let in only while the counted calls are below the quota, and every call made and not forgotten is counted, queued or open (`WhenInv`); whoever comes later finds the others under way (`UnderWaySet`, at most `peak`) |
| `FileKeepsRecords` | `SavedStays`, an action property: no save loses what the file had, unless of two that overlap or after a failed load | `SavesInv`: there is one save at a time, and of file, snapshot and statistics the later has what the earlier has |
| `LoginsAlways`, `ForwardersStay`, `StatusTold`, `CallbacksReceived` | `[]LoginsInv`; `[]ForwarderStays`; `[]OkMeansSaved`; `[]CallbackReceived` | `PortInv`: who waits listens unless it was displaced, and nobody else knows a forwarder before it is published; `StatusInv`: for which reason a session is gone, and how far a login at each point has saved its credential; `CallbackInv`: the one callback of a login and its file move in step with the goroutine that waits for it |
| `ConnectionsAlways`, `SessionsFound`, `CredentialsFollow` | `[]ConnectionsInv`; `[]LiveSessionsFound`; `[]CredentialsMatch` | `MapInv`: a live session is the map's, is being stopped, or was just replaced. `MatchOf`: at most one session stands for a provider, and what the provider *will have when all that is queued is applied* (`WillHave`) is what that session reported or what the one unfinished session will report |
| `TokensAlways`, `LastTokenKept` | `[]TokensInv`; `[]TokenKept` | until something is excused, there is one refresh at a time, and whatever is on its way to the manager or the file (the watcher's feed, the service's update) has the manager's token. Only the file may lack it, before the refresh has saved it or when the last save failed, and then the watcher knows that older file and has nothing to tell of it |
| `ConfigAlways`, `EditsComeIntoForce` | `[]ConfigInv`; `[]EditsInForce` | a request is going to write the file (`Behind`), or the file is ahead of every reload and a timer or event will load it (`Ahead`); otherwise what a reload holds is the file's and is, step by step, in force (`LaterInv`; `FirstInv` for the reload at the start, which hands round the handlers' own object); what is compared with the snapshot is in force as the snapshot has it (`ComparedInv`) |
| `OpenAIAlways`, `OpenAIAnswersAreWellFormed` | `[]OpenAIInv`; `[]OpenAIAnswerWellFormed` | the blocks open at the client are the thinking or text at hand and those of the calls that were named, under different indices below the next one (`BlocksAtHand`) |
| `GeminiAnswersFit` | `[]GeminiAnswerWellFormed` of the composition | no invariant of its own: a behaviour of `Services` is one of `GeminiToClaude`, variable by variable, and `GeminiAnswersAreWellFormed` is about those |
| `PartsTypeCorrect` | `[]PartTypeOK` of `Services` | the type parts of the above |
| `FilesReachTheManager` | `[]QuietFilesApplied` | `UpdatesInv`: a file that changed since it was read has an event of the right kind (`Announced`), the hashes are the file's otherwise (`Hashed`), a snapshot under way agrees with the hashes (`Compared`), and where it was compared the last update of the file in pending list, batch and queue, or else the manager, has its state (`Published`, `Latest`). All of it up to `raced`, which two refreshes at once (`OneRefresh`) extend to every file; before the first scan `BeforeScan` takes its place |
| `UpdatesStayInOrder` | `Spec => Feed!InOrder`, the refinement of `AuthUpdateFeed` without its fairness | step by step: `Dispatch` is a `Publish`, `Apply` a `Deliver`, `Send` and `TakeBatch` move updates without changing any credential's backlog, and the rest leaves it alone. What a list has of one credential (`ValuesOf`) is recursive, and each fact about it, above all `ValuesConcat`, is shown by a least counterexample; that a credential is pending at most once makes coalescing replace exactly its last state (`ValuesCoalesced`) |
| `StoreFollowsTheFiles` | `[]StoreMirrored` for the three backends | `MirrorInv`: a save that was answered was the last to touch its file and what is being sent is what the file has (`Answers`); git's commit is what was pushed, is being pushed, or is excused (`TreeKept`); a file is outside as it is, or excused, or something to come has it sent (`Followed`, `Due`: a goroutine, an event, a reload, a write half done, the scan of the start) |
| `FilesTypeCorrect` | `[]FilesTypeOK` | the type parts of the last two |

The translators' invariants all say what the client has seen as a function of what the provider has sent, up to the excuses that
the model names for what a translator has no place for:

- *to the Responses API* (`GeminiInv`, `ClaudeInv`, `OpenAIInv`): the client knows exactly the items that the translator knows, has
  of each the pieces that lie in its buffer, and counts as ended those that the translator takes to be closed (`GeminiGot` and its
  like), until the whole is completed; what no item of the answer has yet has no pieces either. Claude's blocks also need that the
  translator's three flags are the block at hand (`ClaudeBlocks`), chat completions that at most one call has an id (`OpenAIKept`);
- *Codex to Claude* (`CodexInv`): the blocks open at the client are that of the item at hand, and every index used is below it, or
  is its own once the item has a part (`CodexSeen`);
- *Claude to chat completions and to Gemini* (`ClaudeChatInv`, `ClaudeGeminiInv`): the one call that is still kept is that of the
  block at hand, all others are with the client as they came (`ClaudeChatKept`, `ClaudeGeminiKept`), and the client's last word
  follows the reason the provider gave. To Gemini the indexes are the first numbers, and what comes after the reason is excused;
- *Codex to chat completions and to Gemini* (`CodexChunksInv`): the calls done are the first ones; the chat has each of them, and
  Gemini's client none before the end and all of them with it;
- *Gemini to chat completions* (`GeminiChatInv`): calls are numbered as they come, and the client has those, unless it was told
  of them twice; *chat completions to Gemini* (`OpenAIGeminiInv`): calls are kept whole until the provider is at its end, and
  the client's next index is the number of those it has, for which its set of indexes must be known to be finite.

Lemmas about the clients (`ResponsesEvents`, `ClaudeEvents`, `AnswerChunks`) say field by field what one event does, so that the
proof of a step of a translator never opens a client's record.

`PROJECT.json` names for each theorem the property of a run that it states. With these theorems every safety invariant and action
property of `Manager_models`, `Selection`, `Services`, `Updates` and `Services_progress`
(`NoCircularWait` under its hypothesis) holds for every instance that the assumptions allow.

Before an invariant was proved, TLC checked it as an invariant of the run's instance: `ConfigInv` over 2.1 million states, `MirrorInv`
over 2.3 million, `UpdatesInv` over 5.6 million (and over simulated behaviours of two files), `LogInv` over all 8,344 states of the log. Two things came out of the proofs
themselves. The guards of a `CASE` in `MirroredStore!Send` overlapped, so that the value
of the commit after a lost push was TLC's choice of branch and not the definition's; they exclude each other now. And the first form
of `UpdatesInv` was not inductive: a file could be half written and count as read (`Hashed`), or have an
event before anything watched (`BeforeScan`).

Helper lemmas worth knowing of: what each pure function on a record preserves (the first part of `CredentialManagerProofs`); existence
and bounds of the least and greatest element of a finite set; and `SumFunctionOnSet` of the community modules, of which they
state no facts (`SumsExist`, `SumIs`, `SumStep`, `SumSame`, `SumZero` in `SelectionProofs`). The library's
induction rules take an operator, which no installed prover can instantiate; where an induction over the naturals is needed, the
set of its counterexamples is formed and `LeastNatural` gives the least of them.

Only model-checked:

- all liveness (`NoLockout`, `RequestAnswered`, `EveryCallReturns`, `QueuedIsCounted`, `LoginEnds`, `EchoEnds`,
  `ResponseEnds`), which is out of the prover's reach, as is ENABLED;
- the fairness in `UpdatesInOrder`, for the same reason; its safety part is `UpdatesStayInOrder`;
- and every violation.

## 5. Not modelled

- *Executors, request translators and plain answers, provider logins*: network, parsing, pure conversion of payloads. What an
  executor's call may return is chosen freely, and so is the outcome of a login's exchange. Translators that only unwrap a chunk
  for another one (Gemini CLI's, Antigravity's and Codex's own protocol) keep no state.
- *Server, Amp module, other management handlers, command line, frontend*: routing, input and output, presentation.
- *Credential synthesis* is pure data; its results are inputs (`FromFile`: a fresh record, disabled if it is the
  primary of several projects).
- *Access control* replaces its list as a whole under one lock.
- *Of the request log*: a switch between the two looks of `WriteHeader` at it (`response_writer.go:147`, `request_logger.go:283`),
  which gives a writer whose relay reads a field that is being written; and a second `WriteHeader` of one answer, as
  a reverse proxy's informational responses make it.
- *Signature cache* (`internal/cache/signature_cache.go`): an expired entry is found under the read lock and deleted under the
  write lock, so that a fresh entry put in between is lost; a translator then does without a signature. Small, and planned.

## 6. Plan

Built, in this order: AuthState, CredentialManager, ModelRegistry, LockOrder; AuthUpdateFeed, AuthUpdates; RelayRequests,
RelaySessions; StreamRelay; UsageLimits; LoginSessions; TokenRefresh; the Claude translators; ConfigReload;
MirroredStore; the translators to the Responses API, chat completions and Gemini; RequestLog.

What is left, most important first:

1. Two machines that share a git store (`EnsureRepository`'s pull against pushes that replace the history).
2. `AuthUpdates` with two files and a snapshot that reads them one by one; credentials of the configuration; the callback of `clients.go:150`.
3. Composition of manager and registry: reports of results against real `MarkResult`s, with `Supports` a variable.
4. The signature cache.

Theorems worth proving next: those that these models would bring, and of `LockOrder` that a writer has its lock to itself. Of the
safety properties that the runs check none is left without a theorem.

## 7. Running it

    tlc -workers 2 -config Manager_models.cfg MCCredentialManager.tla
    tlc -workers 2 -config Selection.cfg MCSelection.tla
    tlc -workers 2 -config Updates.cfg MCWatcher.tla
    tlc -workers 2 -config Services.cfg MCServices.tla
    tlc -workers 2 -config Services_progress.cfg MCProgress.tla
    tlc -workers 2 -config Relay_panic.cfg RelayRequests.tla
    tlapm CredentialManagerProofs.tla
    tlapm LockOrderProofs.tla
    tlapm GeminiToClaudeProofs.tla
    tlapm SelectionProofs.tla
    tlapm ProgressProofs.tla
    tlapm ServicesProofs.tla
    tlapm WatcherProofs.tla

`PROJECT.json` names for each run its module and configuration, for each definition the lines of code it
translates, and for each property a mutation of the code that breaks it. The
mutated operators (`RotatedSlip`, `MarkSuccessHasty`, `ForgetHere`, ...) stand in
the modules just before the operator they are variants of and are used by nothing else.
