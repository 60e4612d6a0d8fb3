---------------------------- MODULE RelaySessions ----------------------------
(***************************************************************************)
(* The sessions of the websocket relay (internal/wsrelay/manager.go) and    *)
(* the credentials the service makes of them (sdk/cliproxy/service.go): a   *)
(* session that connects replaces one of the same name, one that ends       *)
(* leaves the map, and both are reported to the service, which adds and     *)
(* deletes a credential of that name through its queue of updates.  What    *)
(* happens to the calls of a session is in RelayRequests.                   *)
(***************************************************************************)
EXTENDS Integers, Sequences, FiniteSets

CONSTANTS Provider,  \* names of providers; with a ProviderFactory one may come back
          Session,   \* connections
          None,      \* no session
          QueueCap,  \* room in Service.authUpdates (256 in the code)
          MaxQueue   \* bound: updates on their way

SessionsParameters ==
  None \notin Session /\ QueueCap \in Nat \ {0} /\ MaxQueue \in Nat

VARIABLES sessions,  \* Manager.sessions
          name,      \* session.provider
          handler,   \* how far handleWebsocket, and then the reader, is
          replaced,  \* the session that a new one replaces
          cleaning,  \* how far session.cleanup is
          cause,     \* what it was called for
          stopping,  \* sessions that Manager.Stop has still to clean up
          route,     \* how an update gets to the credential manager
          queue,     \* updates on their way to the credential manager
          view,      \* providers with an active credential
          raced      \* history: providers whose reports may have crossed

relay == <<sessions, name, handler, replaced, cleaning, cause, stopping>>
vars == <<relay, route, queue, view, raced>>

Update == [action : {"add", "delete"}, id : Provider]

TypeOK ==
  /\ sessions \in [Provider -> Session \cup {None}]
  /\ name \in [Session -> Provider]
  /\ handler \in [Session -> {"free", "replacing", "accepted", "reading"}]
  /\ replaced \in [Session -> Session \cup {None}]
  /\ cleaning \in [Session -> {"no", "detach", "report", "done"}]
  /\ cause \in [Session -> {"replaced", "lost"}]
  /\ stopping \subseteq Session
  /\ route \in {"inline", "channel", "watcher"}
  /\ queue \in Seq(Update)
  /\ view \subseteq Provider /\ raced \subseteq Provider

Init ==
  /\ sessions = [p \in Provider |-> None]
  /\ name \in [Session -> Provider]
  /\ handler = [s \in Session |-> "free"]
  /\ replaced = [s \in Session |-> None]
  /\ cleaning = [s \in Session |-> "no"]
  /\ cause = [s \in Session |-> "lost"]
  /\ stopping = {} /\ route = "inline"
  /\ queue = <<>> /\ view = {} /\ raced = {}

-----------------------------------------------------------------------------
(* The service. *)

\* The credential of p after u was applied.
Applied(u) == IF u.action = "add" THEN view \cup {u.id} ELSE view \ {u.id}

Queued(p) == \E k \in DOMAIN queue : queue[k].id = p

\* emitAuthUpdate: the watcher's pending list has no bound; until the watcher has the
\* channel, an update that finds it full is applied at once and overtakes others; and
\* before there is a channel all are.
Emit(action, p) ==
  LET u == [action |-> action, id |-> p]
  IN  IF route = "watcher" \/ (route = "channel" /\ Len(queue) < QueueCap)
      THEN /\ Len(queue) < MaxQueue
           /\ queue' = Append(queue, u)
           /\ UNCHANGED <<view, raced>>
      ELSE /\ view' = Applied(u)
           /\ raced' = IF Queued(p) THEN raced \cup {p} ELSE raced
           /\ UNCHANGED queue

\* wsOnConnected: an active credential is left as it is, even one to be deleted.
Connected(p) ==
  IF p \in view
  THEN /\ raced' = IF Queued(p) THEN raced \cup {p} ELSE raced
       /\ UNCHANGED <<queue, view>>
  ELSE Emit("add", p)

\* wsOnDisconnected.
Disconnected(p, why) ==
  IF why = "replaced" THEN UNCHANGED <<queue, view, raced>> ELSE Emit("delete", p)

\* What AuthUpdates says of the way to the manager: in order, and nothing is lost.
Apply ==
  /\ queue # <<>>
  /\ view' = Applied(Head(queue))
  /\ queue' = Tail(queue)
  /\ UNCHANGED <<relay, route, raced>>

\* Run serves connections before it makes the channel and gives it to the watcher.
EnsureQueue ==
  /\ route = "inline" /\ route' = "channel"
  /\ UNCHANGED <<relay, queue, view, raced>>

StartWatcher ==
  /\ route = "channel" /\ route' = "watcher"
  /\ UNCHANGED <<relay, queue, view, raced>>

-----------------------------------------------------------------------------
(* Connecting. *)

\* A session of p that is out of the map while a report of it is still to come.
Outstanding(p) ==
  \E t \in Session : /\ name[t] = p /\ handler[t] # "free" /\ sessions[p] # t
                     /\ cleaning[t] # "done" \/ handler[t] # "reading"

\* handleWebsocket, to the end of its critical section.
Accept(s) ==
  /\ handler[s] = "free"
  /\ replaced' = [replaced EXCEPT ![s] = sessions[name[s]]]
  /\ sessions' = [sessions EXCEPT ![name[s]] = s]
  /\ handler' = [handler EXCEPT ![s] = "replacing"]
  /\ raced' = IF Outstanding(name[s]) THEN raced \cup {name[s]} ELSE raced
  /\ UNCHANGED <<name, cleaning, cause, stopping, route, queue, view>>

\* A connection under the name of s is still to be reported, by a handler that does
\* not wait for the end of s.
Unreported(s) ==
  \E t \in Session : /\ name[t] = name[s] /\ handler[t] \in {"replacing", "accepted"}
                     /\ replaced[t] # s

\* session.cleanup, which has effect once; the calls of the session are failed here.
Cleanup(s, why) ==
  /\ cleaning[s] = "no"
  /\ cleaning' = [cleaning EXCEPT ![s] = "detach"]
  /\ cause' = [cause EXCEPT ![s] = why]
  /\ raced' = IF why = "lost" /\ Unreported(s) THEN raced \cup {name[s]} ELSE raced

Replace(s) ==
  /\ handler[s] = "replacing" /\ replaced[s] # None
  /\ Cleanup(replaced[s], "replaced")
  /\ UNCHANGED <<sessions, name, handler, replaced, stopping, route, queue, view>>

\* An atomic flag does not make the handler wait for a cleanup that has begun.
CleanupBegun == {None} \cup {s \in Session : cleaning[s] # "no"}

\* sync.Once makes the handler wait for a cleanup that another has begun.
CleanedUp == {None} \cup {s \in Session : cleaning[s] = "done"}

AfterReplace(s) ==
  /\ handler[s] = "replacing" /\ replaced[s] \in CleanedUp
  /\ handler' = [handler EXCEPT ![s] = "accepted"]
  /\ UNCHANGED <<sessions, name, replaced, cleaning, cause, stopping, route, queue,
                 view, raced>>

\* onConnected; then the reader starts.
ReportConnected(s) ==
  /\ handler[s] = "accepted"
  /\ handler' = [handler EXCEPT ![s] = "reading"]
  /\ Connected(name[s])
  /\ UNCHANGED <<sessions, name, replaced, cleaning, cause, stopping, route>>

-----------------------------------------------------------------------------
(* Ending. *)

\* A read or a heartbeat fails.
LoseConnection(s) ==
  /\ handler[s] # "free"
  /\ Cleanup(s, "lost")
  /\ UNCHANGED <<sessions, name, handler, replaced, stopping, route, queue, view>>

\* Manager.Stop: the service calls it when ws-auth is turned on, too.
Stop ==
  /\ stopping = {} /\ \E p \in Provider : sessions[p] # None
  /\ stopping' = {sessions[p] : p \in Provider} \ {None}
  /\ sessions' = [p \in Provider |-> None]
  /\ UNCHANGED <<name, handler, replaced, cleaning, cause, route, queue, view, raced>>

\* The code cleans them up one after the other; here in any order, or all at once.
StopSession(s) ==
  /\ s \in stopping
  /\ \/ Cleanup(s, "lost") /\ UNCHANGED stopping
     \/ /\ cleaning[s] = "done"
        /\ stopping' = stopping \ {s}
        /\ UNCHANGED <<cleaning, cause, raced>>
  /\ UNCHANGED <<sessions, name, handler, replaced, route, queue, view>>

\* Whoever has the name leaves the map.
WithoutName(s) == [sessions EXCEPT ![name[s]] = None]

\* handleSessionClosed: the session leaves the map unless another took its place.
WithoutSession(s) ==
  [sessions EXCEPT ![name[s]] = IF @ = s THEN None ELSE @]

Detach(s) ==
  /\ cleaning[s] = "detach"
  /\ sessions' = WithoutSession(s)
  /\ cleaning' = [cleaning EXCEPT ![s] = "report"]
  /\ UNCHANGED <<name, handler, replaced, cause, stopping, route, queue, view, raced>>

ReportDisconnected(s) ==
  /\ cleaning[s] = "report"
  /\ cleaning' = [cleaning EXCEPT ![s] = "done"]
  /\ Disconnected(name[s], cause[s])
  /\ UNCHANGED <<sessions, name, handler, replaced, cause, stopping, route>>

\* Another connection takes the place of one of which nothing is left, under any
\* name.  A provider stays raced.
Forgotten(s) ==
  /\ handler[s] = "reading" /\ cleaning[s] = "done" /\ s \notin stopping
  /\ \A t \in Session : replaced[t] = s => handler[t] # "replacing"

Reconnect(s, p) ==
  /\ Forgotten(s)
  /\ handler' = [handler EXCEPT ![s] = "free"]
  /\ name' = [name EXCEPT ![s] = p]
  /\ cleaning' = [cleaning EXCEPT ![s] = "no"]
  /\ cause' = [cause EXCEPT ![s] = "lost"]
  /\ replaced' = [t \in Session |-> IF t = s \/ replaced[t] = s THEN None ELSE replaced[t]]
  /\ UNCHANGED <<sessions, stopping, route, queue, view, raced>>

-----------------------------------------------------------------------------
Next ==
  \/ \E s \in Session :
       \/ Accept(s) \/ Replace(s) \/ AfterReplace(s) \/ ReportConnected(s)
       \/ LoseConnection(s) \/ StopSession(s) \/ Detach(s) \/ ReportDisconnected(s)
       \/ \E p \in Provider : Reconnect(s, p)
  \/ Stop \/ Apply \/ EnsureQueue \/ StartWatcher

Spec == Init /\ [][Next]_vars

-----------------------------------------------------------------------------
(* Properties. *)

\* Nothing of p is under way.
Quiet(p) ==
  /\ ~Queued(p)
  /\ \A s \in Session : name[s] = p =>
       /\ handler[s] \in {"free", "reading"}
       /\ cleaning[s] \in {"no", "done"}
       /\ s \notin stopping

\* When all is quiet a provider has a credential exactly if it is connected, unless
\* one of four things happened: it connected while the end of an earlier session of
\* the name was still being reported; it was lost before its connection, or that of a
\* session it had replaced, was reported; it connected while its credential was
\* queued to be deleted; or an update overtook another before the watcher ran.
\* Replaced sessions, Stop and late cleanups leave the map and the credentials as
\* they should be (handleWebsocket, handleSessionClosed, wsOnConnected,
\* wsOnDisconnected).
CredentialsMatch ==
  \A p \in Provider \ raced : Quiet(p) => (p \in view <=> sessions[p] # None)

\* The map leads to a live session or one that is being cleaned up, and every session
\* that is live, and was not stopped or replaced, can be found.
LiveSessionsFound ==
  \A s \in Session :
    /\ sessions[name[s]] = s => handler[s] # "free" /\ cleaning[s] \in {"no", "detach"}
    /\ handler[s] # "free" /\ cleaning[s] = "no" =>
         \/ sessions[name[s]] = s \/ s \in stopping
         \/ \E t \in Session : replaced[t] = s /\ handler[t] = "replacing"

=============================================================================
