---------------------------- MODULE AuthUpdates ----------------------------
(***************************************************************************)
(* How a change of a credential file reaches the credential manager         *)
(* (internal/watcher, sdk/cliproxy/service.go).  File events are handled    *)
(* one after the other; an event that is not skipped, and every reload of   *)
(* the configuration, takes a snapshot of the directory, compares it with   *)
(* the one before and dispatches the differences.  Dispatched updates are   *)
(* coalesced in a pending list, taken from it in batches, sent through a    *)
(* bounded channel and applied.                                             *)
(*                                                                          *)
(* Every action is what a goroutine does between two points where others    *)
(* may come between: reads of the file system, critical sections of          *)
(* clientsMutex and dispatchMu, channel operations.                         *)
(***************************************************************************)
EXTENDS Integers, Sequences, FiniteSets, SequencesExt

CONSTANTS File,      \* credential files, and the credentials made from them
          Content,   \* what a file may hold
          Missing,   \* no file, no hash, no credential, an update of action delete
          Partial,   \* a file that was truncated and is still empty
          Events,    \* the goroutine that handles file events
          Starter,   \* Run, whose start loads everything
          Reloader,  \* goroutines of the configuration timer
          MaxEvents, \* bound: events of the file system not yet handled
          QueueCap   \* room in Service.authUpdates and in the hand of its consumer

Value == Content \cup {Missing}
Goroutine == {Events, Starter} \cup Reloader

ASSUME UpdatesAssumption ==
  /\ IsFiniteSet(File)
  /\ Missing \notin Content /\ Partial \notin Value
  /\ Events # Starter /\ {Events, Starter} \cap Reloader = {}
  /\ MaxEvents \in Nat \ {0} /\ QueueCap \in Nat \ {0}

VARIABLES disk,       \* the files
          events,     \* file events not yet handled
          recent,     \* files whose remove debounce window is open
          hashes,     \* Watcher.lastAuthHashes
          current,    \* Watcher.currentAuths
          pc, file,   \* what each goroutine does, and the file of the event
          work,       \* the snapshot or the updates each goroutine has at hand
          pending,    \* Watcher.pendingUpdates in pendingOrder
          batch,      \* what dispatchLoop has still to send
          queue,      \* Service.authUpdates
          view,       \* the state of each credential in the manager
          changed,    \* history: files changed since an event of theirs was read
          raced       \* history: files of which a change may be lost

watcher == <<recent, hashes, current, pc, file, work>>
feed == <<pending, batch, queue, view>>
vars == <<disk, events, watcher, feed, changed, raced>>

Update == [id : File, value : Value]
NoWork == [f \in {} |-> Missing]

Steps == {"start", "idle", "settle", "rescan", "snapshot", "diff", "dispatch"}

TypeOK ==
  /\ disk \in [File -> Value \cup {Partial}]
  /\ events \in Seq([kind : {"write", "remove"}, file : File])
  /\ recent \subseteq File
  /\ hashes \in [File -> Value] /\ current \in [File -> Value]
  /\ pc \in [Goroutine -> Steps] /\ file \in File
  /\ work \in [Goroutine -> UNION {[S -> Value] : S \in SUBSET File}]
  /\ \A g \in Goroutine : pc[g] = "diff" => DOMAIN work[g] = File
  /\ pending \in Seq(Update) /\ batch \in Seq(Update) /\ queue \in Seq(Update)
  /\ \A i, j \in DOMAIN pending : pending[i].id = pending[j].id => i = j
  /\ Len(queue) <= QueueCap
  /\ view \in [File -> Value]
  /\ changed \subseteq File /\ raced \subseteq File

\* What a reader makes of the file: an empty one is passed over.
Readable(x) == IF x = Partial THEN Missing ELSE x

\* The manager has loaded the files, the watcher is about to.
Init ==
  /\ disk \in [File -> Value]
  /\ events = <<>> /\ recent = {}
  /\ hashes = [f \in File |-> Missing] /\ current = [f \in File |-> Missing]
  /\ pc = [g \in Goroutine |-> IF g = Starter THEN "start" ELSE "idle"]
  /\ file \in File
  /\ work = [g \in Goroutine |-> NoWork]
  /\ pending = <<>> /\ batch = <<>> /\ queue = <<>>
  /\ view = disk
  /\ changed = {} /\ raced = {}

-----------------------------------------------------------------------------
(* The file system.  What changes before the directory is watched makes no event. *)

Watched == pc[Starter] # "start"
Scanned == pc[Starter] \notin {"start", "rescan"}

Change(f, x) ==
  /\ disk[f] # x /\ Len(events) < MaxEvents
  /\ disk' = [disk EXCEPT ![f] = x]
  /\ events' = IF Watched
               THEN Append(events, [file |-> f,
                                    kind |-> IF x = Missing THEN "remove" ELSE "write"])
               ELSE events
  /\ changed' = changed \cup {f}
  /\ raced' = IF Scanned \/ x \in Content THEN raced ELSE raced \cup {f}
  /\ UNCHANGED <<watcher, feed>>

-----------------------------------------------------------------------------
(* Refreshing: snapshot, comparison, dispatch. *)

Refreshing(g) == pc[g] \in {"rescan", "snapshot", "diff", "dispatch"}

\* g begins a refresh.  If another one is under way, either may undo the other.
Begin(g) ==
  /\ pc' = [pc EXCEPT ![g] = "snapshot"]
  /\ raced' = IF \E h \in Goroutine \ {g} : Refreshing(h) THEN File ELSE raced

\* SnapshotCoreAuths reads the directory without a lock.
Snapshot(g) ==
  /\ pc[g] = "snapshot"
  /\ work' = [work EXCEPT ![g] = [f \in File |-> Readable(disk[f])]]
  /\ pc' = [pc EXCEPT ![g] = "diff"]
  /\ raced' = raced \cup changed
  /\ UNCHANGED <<disk, events, recent, hashes, current, file, feed, changed>>

\* prepareAuthUpdatesLocked: force repeats what has not changed.
Diff(g, force) ==
  /\ pc[g] = "diff"
  /\ force => g \in Reloader
  /\ LET new == work[g]
         differ == {f \in File : \/ new[f] # current[f]
                                 \/ (force /\ new[f] # Missing)}
     IN  /\ work' = [work EXCEPT ![g] = [f \in differ |-> new[f]]]
         /\ current' = new
         /\ pc' = [pc EXCEPT ![g] = IF differ = {} THEN "idle" ELSE "dispatch"]
  /\ UNCHANGED <<disk, events, recent, hashes, file, feed, changed, raced>>

Ids(us) == {us[k].id : k \in DOMAIN us}
AsUpdates(ids, us) == [k \in DOMAIN ids |-> [id |-> ids[k], value |-> us[ids[k]]]]

\* An update that is pending gives way to the newer one.
Coalesced(us, ids) ==
  [k \in DOMAIN pending |-> IF pending[k].id \in DOMAIN us
                            THEN [pending[k] EXCEPT !.value = us[pending[k].id]]
                            ELSE pending[k]]
    \o AsUpdates(ids, us)

\* The rest of us, in the order in which a map happens to be walked.
NewIdsAll(us) == DOMAIN us
NewIds(us) == DOMAIN us \ Ids(pending)

Dispatch(g) ==
  /\ pc[g] = "dispatch"
  /\ \E ids \in SetToSeqs(NewIds(work[g])) : pending' = Coalesced(work[g], ids)
  /\ work' = [work EXCEPT ![g] = NoWork]
  /\ pc' = [pc EXCEPT ![g] = "idle"]
  /\ UNCHANGED <<disk, events, recent, hashes, current, file, batch, queue, view,
                 changed, raced>>

-----------------------------------------------------------------------------
(* Handling file events. *)

\* f is read and compared with its hash; it counts as read unless it is gone or
\* empty.
Look(f) ==
  /\ changed' = IF disk[f] \in Content THEN changed \ {f} ELSE changed
  /\ IF disk[f] \in {Missing, Partial, hashes[f]}
     THEN /\ pc' = [pc EXCEPT ![Events] = "idle"]
          /\ UNCHANGED <<hashes, raced>>
     ELSE /\ hashes' = [hashes EXCEPT ![f] = disk[f]]
          /\ Begin(Events)

HandleWrite ==
  /\ pc[Events] = "idle" /\ events # <<>> /\ Head(events).kind = "write"
  /\ events' = Tail(events)
  /\ Look(Head(events).file)
  /\ UNCHANGED <<disk, recent, current, file, work, feed>>

\* A second remove event within the window is dropped.
HandleRemove ==
  /\ pc[Events] = "idle" /\ events # <<>> /\ Head(events).kind = "remove"
  /\ events' = Tail(events)
  /\ LET f == Head(events).file
     IN  IF f \in recent
         THEN /\ raced' = raced \cup {f}
              /\ UNCHANGED <<recent, pc, file>>
         ELSE /\ recent' = recent \cup {f}
              /\ file' = f
              /\ pc' = [pc EXCEPT ![Events] = "settle"]
              /\ UNCHANGED raced
  /\ UNCHANGED <<disk, hashes, current, work, feed, changed>>

\* The hash of a removed file stays.
RemoveClientHashed(f) == Begin(Events) /\ UNCHANGED hashes

\* removeClient.
RemoveClient(f) == Begin(Events) /\ hashes' = [hashes EXCEPT ![f] = Missing]

\* After replaceCheckDelay the file may be there again.
Settle ==
  /\ pc[Events] = "settle"
  /\ \/ /\ disk[file] # Missing
        /\ Look(file)
     \/ /\ disk[file] = Missing
        /\ changed' = changed \ {file}
        /\ IF hashes[file] = Missing
           THEN /\ pc' = [pc EXCEPT ![Events] = "idle"]
                /\ UNCHANGED <<hashes, raced>>
           ELSE RemoveClient(file)
  /\ UNCHANGED <<disk, events, recent, current, file, work, feed>>

WindowEnds(f) ==
  /\ f \in recent
  /\ recent' = recent \ {f}
  /\ UNCHANGED <<disk, events, hashes, current, pc, file, work, feed, changed, raced>>

-----------------------------------------------------------------------------
(* Reloading everything. *)

\* The directory is watched from here on.
Watch ==
  /\ pc[Starter] = "start"
  /\ pc' = [pc EXCEPT ![Starter] = "rescan"]
  /\ UNCHANGED <<disk, events, recent, hashes, current, file, work, feed, changed, raced>>

\* reloadClients with rescanAuth: every file is hashed anew.
Rescan ==
  /\ pc[Starter] = "rescan"
  /\ hashes' = [f \in File |-> Readable(disk[f])]
  /\ changed' = {f \in changed : disk[f] = Partial}
  /\ Begin(Starter)
  /\ UNCHANGED <<disk, events, recent, current, file, work, feed>>

\* reloadConfig: the credentials of providers whose excluded models changed are
\* forgotten, to be dispatched again.
Reload(g, forgotten) ==
  /\ g \in Reloader /\ pc[g] = "idle" /\ Watched
  /\ current' = [f \in File |-> IF f \in forgotten THEN Missing ELSE current[f]]
  /\ Begin(g)
  /\ UNCHANGED <<disk, events, recent, hashes, file, work, feed, changed>>

-----------------------------------------------------------------------------
(* From the pending list to the manager. *)

\* nextPendingBatch.
TakeBatch ==
  /\ batch = <<>> /\ pending # <<>>
  /\ batch' = pending /\ pending' = <<>>
  /\ UNCHANGED <<disk, events, watcher, queue, view, changed, raced>>

\* What finds no room in the channel is dropped.
SendOrDrop ==
  /\ batch # <<>>
  /\ queue' = IF Len(queue) < QueueCap THEN Append(queue, Head(batch)) ELSE queue
  /\ batch' = Tail(batch)
  /\ UNCHANGED <<disk, events, watcher, pending, view, changed, raced>>

\* dispatchLoop blocks on a full channel.
Send ==
  /\ batch # <<>> /\ Len(queue) < QueueCap
  /\ queue' = Append(queue, Head(batch)) /\ batch' = Tail(batch)
  /\ UNCHANGED <<disk, events, watcher, pending, view, changed, raced>>

\* handleAuthUpdate; an update leaves the queue when it has been applied.
Apply ==
  /\ queue # <<>>
  /\ view' = [view EXCEPT ![Head(queue).id] = Head(queue).value]
  /\ queue' = Tail(queue)
  /\ UNCHANGED <<disk, events, watcher, pending, batch, changed, raced>>

Next ==
  \/ \E f \in File : \/ \E x \in Value \cup {Partial} : Change(f, x)
                     \/ WindowEnds(f)
  \/ HandleWrite \/ HandleRemove \/ Settle \/ Watch \/ Rescan
  \/ \E g \in Reloader, forgotten \in SUBSET File : Reload(g, forgotten)
  \/ \E g \in Goroutine : \/ Snapshot(g) \/ Dispatch(g)
                          \/ \E force \in BOOLEAN : Diff(g, force)
  \/ TakeBatch \/ Send \/ Apply

Spec == Init /\ [][Next]_vars

\* The dispatch loop and the consumer go on whenever they can.
FairSpec == Spec /\ WF_vars(TakeBatch) /\ WF_vars(Send) /\ WF_vars(Apply)

-----------------------------------------------------------------------------
(* Properties. *)

\* The values of the updates of f among us, in their order.
ValuesOf(us, f) ==
  LET upTo[n \in 0 .. Len(us)] ==
        IF n = 0 THEN <<>>
        ELSE IF us[n].id = f THEN Append(upTo[n - 1], us[n].value)
        ELSE upTo[n - 1]
  IN  upTo[Len(us)]

\* The states of f on their way to the manager, the oldest first.
Backlog(f) == ValuesOf(queue \o batch \o pending, f)

Feed == INSTANCE AuthUpdateFeed WITH Id <- File, backlog <- [f \in File |-> Backlog(f)]

\* docs/sdk-watcher.md: pending updates of a credential are merged, and the latest
\* one is eventually applied.  Coalescing, batching and the bounded channel keep
\* the order of the updates of each credential and lose none but superseded ones,
\* whatever is dispatched meanwhile (dispatchAuthUpdates, dispatchLoop,
\* consumeAuthUpdates).
UpdatesInOrder == Feed!Spec

\* Nothing is under way, and no file is empty.
Settled ==
  /\ events = <<>> /\ \A g \in Goroutine : pc[g] = "idle"
  /\ pending = <<>> /\ batch = <<>> /\ queue = <<>>
  /\ \A f \in File : disk[f] # Partial

\* When all is quiet the manager has the state of every file, unless one of four
\* things happened to it: it was removed or emptied between Manager.Load and the
\* first scan of the watcher, a snapshot was taken between a change of it and the handling of
\* the event, two refreshes overlapped, or a remove event was dropped by the
\* debounce window (handleEvent, reloadClients, refreshAuthState).  Two readings
\* of a file are compared, with its hash and with its entry in currentAuths, and
\* away from those four the two never drift apart.
QuietFilesApplied ==
  Settled => \A f \in File \ raced : view[f] = disk[f]

=============================================================================
