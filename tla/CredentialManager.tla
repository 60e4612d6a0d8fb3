------------------------- MODULE CredentialManager -------------------------
(***************************************************************************)
(* The credential manager (sdk/cliproxy/auth): concurrent client requests   *)
(* pick credentials, call the provider, record the result and decide        *)
(* whether to wait for a cooldown and try again, while the service replaces *)
(* credentials that changed on disk, background goroutines read credentials *)
(* and write them back later, and time passes.                              *)
(***************************************************************************)
EXTENDS AuthState, Sequences

CONSTANTS Auth,             \* credential IDs, ordered as the selector sorts them
          Provider,
          ProviderOf,       \* [Auth -> Provider]
          Supports,         \* the registered (credential, model) pairs
          Request,          \* client requests that may be in flight together
          ProviderLists,    \* the normalized provider lists a request may get
          AllowedSets,      \* credentials an API key may use; {} is no limit
          FailureStatus,    \* HTTP status of a failed call, 0 if it has none
          RetryHint,        \* Retry-After values of a 429
          RequestRetry,     \* request-retry
          MaxRetryInterval, \* max-retry-interval
          FillFirst,        \* the fill-first selector instead of round-robin
          CursorWrap,       \* round-robin cursor value that restarts at 0
          Writer,           \* goroutines that read a credential and write it back
          Refreshable       \* credentials with a token to refresh, no API key

Distinct(s) == \A i, j \in 1 .. Len(s) : s[i] = s[j] => i = j

ManagerParameters ==
  /\ Model # {}
  /\ Auth \subseteq Nat /\ IsFiniteSet(Auth)
  /\ ProviderOf \in [Auth -> Provider]
  /\ Supports \subseteq Auth \X Model
  /\ \A l \in ProviderLists : l \in Seq(Provider) /\ l # <<>> /\ Distinct(l)
  /\ AllowedSets \subseteq SUBSET Auth
  /\ FailureStatus \subseteq Nat
  /\ RetryHint \subseteq Nat
  /\ RequestRetry \in Nat /\ MaxRetryInterval \in Nat
  /\ FillFirst \in BOOLEAN
  /\ CursorWrap \in Nat \ {0}
  /\ Refreshable \subseteq Auth

ASSUME ManagerAssumption == ManagerParameters

VARIABLES auths,    \* Manager.auths
          offsets,  \* Manager.providerOffsets, per model
          cursors,  \* RoundRobinSelector.cursors, per provider and model
          copies,   \* the clone of a credential each writer works on
          req,      \* the goroutine serving each request
          calls     \* history: calls of request r on a in its current attempt

vars == <<auths, offsets, cursors, copies, req, calls>>

NoAuth == -1
NoError == -1
SelectionError == -2    \* no credential could be picked; its status is not 200

\* pi indexes the provider being tried; err is the status of the last failed
\* call on that provider.
RequestState ==
  [pc : {"idle", "pick", "exec", "decide", "wait"}, model : Model,
   providers : Seq(Provider), pi : Nat, allowed : SUBSET Auth,
   tried : SUBSET Auth, cur : Auth \cup {NoAuth}, attempt : 0 .. RequestRetry,
   err : FailureStatus \cup {NoError, SelectionError}, wait : Nat]

Idle == [pc |-> "idle", model |-> CHOOSE m \in Model : TRUE,
         providers |-> <<>>, pi |-> 1, allowed |-> {}, tried |-> {},
         cur |-> NoAuth, attempt |-> 0, err |-> NoError, wait |-> 0]

NoCalls == [a \in Auth |-> 0]

\* pending: a refresh is due; cloning: its clone has the credential's own fields
\* but not yet its models; refreshing and disabling: the clone is complete.
Copy == [phase : {"none", "pending", "cloning", "refreshing", "disabling"},
         auth : Auth \cup {NoAuth}, cred : Credential]
NoCopy == [phase |-> "none", auth |-> NoAuth, cred |-> FreshCredential]

TypeOK ==
  /\ auths \in [Auth -> Credential]
  /\ offsets \in [Model -> Nat]
  /\ cursors \in [Provider \X Model -> 0 .. CursorWrap]
  /\ copies \in [Writer -> Copy]
  /\ req \in [Request -> RequestState]
  /\ calls \in [Request -> [Auth -> Nat]]

Init ==
  /\ auths = [a \in Auth |-> FreshCredential]
  /\ offsets = [m \in Model |-> 0]
  /\ cursors = [k \in Provider \X Model |-> 0]
  /\ copies = [w \in Writer |-> NoCopy]
  /\ req = [r \in Request |-> Idle]
  /\ calls = [r \in Request |-> NoCalls]

-----------------------------------------------------------------------------
(* A request arrives: Execute fixes the order of its providers. *)

\* A slip of one in the wrap-around.
RotatedSlip(l, offset) ==
  [i \in 1 .. Len(l) |-> IF i + offset <= Len(l) THEN l[i + offset] ELSE l[i]]

\* providers[offset:] followed by providers[:offset].
Rotated(l, offset) ==
  [i \in 1 .. Len(l) |-> IF i + offset <= Len(l) THEN l[i + offset]
                                                 ELSE l[i + offset - Len(l)]]

\* The offset is read and advanced under one lock; lists of different lengths
\* share it.
Start(r, m, l, allowed) ==
  /\ req[r].pc = "idle"
  /\ offsets' = [offsets EXCEPT ![m] = (@ + 1) % Len(l)]
  /\ req' = [req EXCEPT ![r] =
       [Idle EXCEPT !.pc = "pick", !.model = m, !.allowed = allowed,
                    !.providers = Rotated(l, offsets[m] % Len(l))]]
  /\ UNCHANGED <<auths, cursors, copies, calls>>

-----------------------------------------------------------------------------
(* executeWithProvider: pick, call, record. *)

ProviderNow(r) == req[r].providers[req[r].pi]

Candidates(r) ==
  {a \in Auth : /\ ProviderOf[a] = ProviderNow(r)
                /\ ~auths[a].disabled
                /\ a \notin req[r].tried
                /\ <<a, req[r].model>> \in Supports
                /\ req[r].allowed = {} \/ a \in req[r].allowed}

Available(r) ==
  {a \in Candidates(r) : ~isAuthBlockedForModel(auths[a], req[r].model)}

\* The position of a in S sorted by ID.
Rank(a, S) == Cardinality({b \in S : b < a})

CursorKey(r) == <<ProviderNow(r), req[r].model>>
Index(r) == IF cursors[CursorKey(r)] >= CursorWrap THEN 0 ELSE cursors[CursorKey(r)]

Chosen(r) == IF FillFirst THEN 0 ELSE Index(r) % Cardinality(Available(r))

Pick(r) ==
  /\ req[r].pc = "pick"
  /\ \E a \in Available(r) :
       /\ Rank(a, Available(r)) = Chosen(r)
       /\ req' = [req EXCEPT ![r].pc = "exec", ![r].cur = a,
                             ![r].tried = @ \cup {a}]
       /\ calls' = [calls EXCEPT ![r][a] = @ + 1]
  /\ cursors' = IF FillFirst THEN cursors
                ELSE [cursors EXCEPT ![CursorKey(r)] = Index(r) + 1]
  /\ UNCHANGED <<auths, offsets, copies>>

Finished(r) == /\ req' = [req EXCEPT ![r] = Idle]
               /\ calls' = [calls EXCEPT ![r] = NoCalls]

Succeed(r) ==
  /\ req[r].pc = "exec"
  /\ auths' = [auths EXCEPT ![req[r].cur] = MarkSuccess(@, req[r].model)]
  /\ Finished(r)
  /\ UNCHANGED <<offsets, cursors, copies>>

\* A Retry-After hint only accompanies a 429.
Fail(r, code, hint) ==
  /\ req[r].pc = "exec"
  /\ hint # NoTime => code = 429
  /\ auths' = [auths EXCEPT ![req[r].cur] =
                 MarkFailure(@, req[r].model, code, hint)]
  /\ req' = [req EXCEPT ![r].pc = "pick", ![r].cur = NoAuth, ![r].err = code]
  /\ UNCHANGED <<offsets, cursors, copies, calls>>

\* executeProvidersOnce: the next provider starts with nothing tried, and its
\* error replaces this one's.
NextProvider(r) ==
  /\ req[r].pc = "pick" /\ Available(r) = {}
  /\ req[r].pi < Len(req[r].providers)
  /\ req' = [req EXCEPT ![r].pi = @ + 1, ![r].tried = {}, ![r].err = NoError]
  /\ UNCHANGED <<auths, offsets, cursors, copies, calls>>

PassFails(r) ==
  /\ req[r].pc = "pick" /\ Available(r) = {}
  /\ req[r].pi = Len(req[r].providers)
  /\ req' = [req EXCEPT ![r].pc = "decide",
                        ![r].err = IF @ = NoError THEN SelectionError ELSE @]
  /\ UNCHANGED <<auths, offsets, cursors, copies, calls>>

\* executeWithProvider finds no credential any more.
ProviderFails(r) ==
  IF req[r].pi < Len(req[r].providers) THEN NextProvider(r) ELSE PassFails(r)

-----------------------------------------------------------------------------
(* Whether and when to try again. *)

\* Every cooling credential of the providers counts, also those the request may
\* not use.
CooldownWaits(r) ==
  {CooldownEnd(auths[a], req[r].model) : a \in
     {x \in Auth : /\ \E i \in 1 .. Len(req[r].providers) :
                        req[r].providers[i] = ProviderOf[x]
                   /\ ~auths[x].disabled /\ auths[x].status # "disabled"
                   /\ CoolingDown(auths[x], req[r].model)}}

shouldRetryAfterError(r) ==
  /\ req[r].attempt < RequestRetry
  /\ req[r].err # 200
  /\ CooldownWaits(r) # {}
  /\ Min(CooldownWaits(r)) <= MaxRetryInterval
  /\ MaxRetryInterval > 0

Retry(r) ==
  /\ req[r].pc = "decide" /\ shouldRetryAfterError(r)
  /\ req' = [req EXCEPT ![r].pc = "wait", ![r].wait = Min(CooldownWaits(r))]
  /\ UNCHANGED <<auths, offsets, cursors, copies, calls>>

GiveUp(r) ==
  /\ req[r].pc = "decide" /\ ~shouldRetryAfterError(r)
  /\ Finished(r)
  /\ UNCHANGED <<auths, offsets, cursors, copies>>

\* The next attempt without counting it.
WakeUncounted(r) ==
  /\ req[r].pc = "wait" /\ req[r].wait = 0
  /\ req' = [req EXCEPT ![r].pc = "pick", ![r].pi = 1,
                        ![r].tried = {}, ![r].err = NoError]
  /\ calls' = [calls EXCEPT ![r] = NoCalls]
  /\ UNCHANGED <<auths, offsets, cursors, copies>>

\* waitForCooldown returns; the next attempt starts from the first provider.
Wake(r) ==
  /\ req[r].pc = "wait" /\ req[r].wait = 0
  /\ req' = [req EXCEPT ![r].pc = "pick", ![r].attempt = @ + 1, ![r].pi = 1,
                        ![r].tried = {}, ![r].err = NoError]
  /\ calls' = [calls EXCEPT ![r] = NoCalls]
  /\ UNCHANGED <<auths, offsets, cursors, copies>>

\* The client went away while the request waited.
Cancel(r) ==
  /\ req[r].pc = "wait"
  /\ Finished(r)
  /\ UNCHANGED <<auths, offsets, cursors, copies>>

-----------------------------------------------------------------------------
(* The credentials change. *)

FromFile(disabled) ==
  [FreshCredential EXCEPT !.disabled = disabled,
                          !.status = IF disabled THEN "disabled" ELSE "active"]

\* The rest of a clone begun outside the lock.
Completed(copy) == [copy EXCEPT !.phase = "refreshing",
                                !.cred.models = auths[copy.auth].models]

\* Update puts the record c in the place of the present one; a clone that is
\* still reading the old record finds its models as they are now.  The writers
\* go on with the copies cs.
Update(a, c, cs) ==
  /\ auths' = [auths EXCEPT ![a] = c]
  /\ copies' = [w \in Writer |-> IF cs[w].phase = "cloning" /\ cs[w].auth = a
                                 THEN Completed(cs[w]) ELSE cs[w]]
  /\ UNCHANGED <<offsets, cursors, req, calls>>

\* applyCoreAuthAddOrUpdate: the entry is replaced by the one built from the
\* file, which has no model states and may be disabled.
ReplaceAuth(a, disabled) == Update(a, FromFile(disabled), copies)

SetCopy(w, copy) == /\ copies' = [copies EXCEPT ![w] = copy]
                    /\ UNCHANGED <<auths, offsets, cursors, req, calls>>

\* applyCoreAuthRemoval, disableAuth: a clone taken under the lock, to be written
\* back disabled.
ReadToDisable(w, a) ==
  /\ copies[w].phase = "none"
  /\ SetCopy(w, [phase |-> "disabling", auth |-> a, cred |-> Disabled(auths[a])])

\* checkRefreshes, markRefreshPending.
CheckRefresh(w, a) ==
  /\ copies[w].phase = "none"
  /\ a \in Refreshable /\ ~auths[a].disabled
  /\ SetCopy(w, [NoCopy EXCEPT !.phase = "pending", !.auth = a])

\* refreshAuth clones the record after it has given the lock back, so results
\* may be recorded in the middle of it: first its own fields, then its models.
CloneFields(w) ==
  /\ copies[w].phase = "pending"
  /\ SetCopy(w, [copies[w] EXCEPT !.phase = "cloning", !.cred = auths[copies[w].auth]])

CloneModels(w) ==
  /\ copies[w].phase = "cloning"
  /\ SetCopy(w, Completed(copies[w]))

RefreshFails(w) == copies[w].phase = "refreshing" /\ SetCopy(w, NoCopy)

\* Update with the writer's clone, whatever happened to the credential since.
WriteBack(w) ==
  /\ copies[w].phase \in {"refreshing", "disabling"}
  /\ Update(copies[w].auth, copies[w].cred, [copies EXCEPT ![w] = NoCopy])

Tick ==
  /\ auths' = [a \in Auth |-> Elapse(auths[a])]
  /\ copies' = [w \in Writer |-> [copies[w] EXCEPT !.cred = Elapse(@)]]
  /\ req' = [r \in Request |-> [req[r] EXCEPT !.wait = Left(@)]]
  /\ UNCHANGED <<offsets, cursors, calls>>

Serve(r) ==
  \/ Pick(r) \/ ProviderFails(r) \/ Succeed(r)
  \/ \E code \in FailureStatus, hint \in RetryHint \cup {NoTime} : Fail(r, code, hint)
  \/ Retry(r) \/ GiveUp(r) \/ Wake(r)

Arrive(r) == \E m \in Model, l \in ProviderLists, s \in AllowedSets : Start(r, m, l, s)

Next ==
  \/ \E r \in Request : Arrive(r) \/ Serve(r) \/ Cancel(r)
  \/ \E a \in Auth, disabled \in BOOLEAN : ReplaceAuth(a, disabled)
  \/ \E w \in Writer :
       \/ \E a \in Auth : ReadToDisable(w, a) \/ CheckRefresh(w, a)
       \/ CloneFields(w) \/ CloneModels(w) \/ RefreshFails(w) \/ WriteBack(w)
  \/ Tick

Spec == Init /\ [][Next]_vars

\* Time passes, and a goroutine that can run does: a provider call returns, if
\* only by its HTTP timeout.
FairSpec == Spec /\ WF_vars(Tick) /\ \A r \in Request : WF_vars(Serve(r))

-----------------------------------------------------------------------------
(* Properties. *)

\* Within one attempt a request calls each credential at most once, whatever the
\* rotation of its providers and the results of concurrent requests: the tried
\* set is emptied at every provider, so this rests on no provider coming twice
\* in the rotated list (normalizeProviders, rotateProviders, executeWithProvider).
OneCallPerAttempt == \A r \in Request, a \in Auth : calls[r][a] <= 1

\* A credential shows an error exactly while one of its models has an uncleared
\* failure, unless it is disabled, across successes of its other models, late
\* results, expired cooldowns and records written back (MarkResult,
\* hasModelError, applyCoreAuthRemoval).  Not for a credential that is refreshed:
\* a clone torn by a result may say otherwise.
StatusTracksErrors == \A a \in Auth \ Refreshable : StatusOK(auths[a])

\* The credential-level cooldown (Unavailable until NextRetryAfter) is in force
\* exactly while every model recorded on it is down, and it ends with the first
\* of them, although it is only recomputed when a result arrives and may be
\* written back late (updateAggregatedAvailability, applyCoreAuthRemoval).  Not
\* for a credential that is refreshed, whose clone may be torn.
AggregateExact == \A a \in Auth \ Refreshable : AggregateOK(auths[a])

\* Held back for the model by a cooldown, not by being disabled.
Held(a, m) == /\ isAuthBlockedForModel(auths[a], m)
              /\ ~auths[a].disabled /\ auths[a].status # "disabled"

\* No result, of whatever status, shuts a credential out of a model for good:
\* nobody calls it while it is held back, the calls already in flight are
\* finitely many, and time passes.
NoLockout == \A a \in Auth, m \in Model : Held(a, m) ~> ~Held(a, m)

\* Every request is answered: it runs out of credentials, of providers, of
\* attempts or of patience (Execute).
RequestAnswered == \A r \in Request : req[r].pc # "idle" ~> req[r].pc = "idle"

\* types.go says that NextRecoverAt is when the credential may become available
\* again: until then it would not be called for that model.  The code asks
\* NextRetryAfter only, which a later failure of another call in flight
\* shortens or clears while NextRecoverAt stays.
QuotaWaitHonoured ==
  [][\A r \in Request, a \in Auth :
       req[r].pc = "pick" /\ req'[r].pc = "exec" /\ req'[r].cur = a =>
         auths[a].models[req[r].model].quota.recover <= 0]_vars

\* types.go says that Disabled marks a credential disabled on purpose by the
\* operator: only the service would bring it back, from its file.  A refresh
\* that was under way writes back the enabled record it started from.
DisabledStays ==
  [][\A a \in Auth : auths[a].disabled /\ ~auths'[a].disabled =>
       auths'[a] = FromFile(FALSE)]_vars

=============================================================================
