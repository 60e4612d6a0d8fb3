--------------------------- MODULE LoginSessions ---------------------------
(***************************************************************************)
(* Logins started through the management API: each is a session in the      *)
(* store of OAuth states, a goroutine that waits for a callback file, asks   *)
(* the provider for a token and saves it, and, for the web interface, a      *)
(* forwarder that listens on the provider's callback port.  Callbacks write  *)
(* the file, and GetAuthStatus reads the session.                           *)
(*                                                                          *)
(* The logins are of one provider, whose port they share, but for those     *)
(* that poll, which are of another.                                         *)
(***************************************************************************)
EXTENDS Integers

CONSTANTS Login,   \* logins, each with a state of its own
          WebUI,   \* those with a forwarder
          Device,  \* those that poll the provider instead (RequestQwenToken)
          Caller,  \* handlers of callbacks
          Nobody

LoginParameters ==
  /\ WebUI \subseteq Login /\ Device \subseteq Login /\ WebUI \cap Device = {}
  /\ Nobody \notin Login

VARIABLES session,    \* oauthSessionStore.sessions
          age,        \* of a session: fresh, past the wait for a callback, expired
          pc,         \* the handler of each login, and then its goroutine
          prev,       \* the forwarder startCallbackForwarder found
          forwarder,  \* callbackForwarders of the port
          listening,  \* forwarders whose server listens
          file,       \* the callback file of each login
          got,        \* what each login read from it
          caller,     \* what each handler of a callback does, and for which login
          saved,      \* how far each login's credential was saved
          swept,      \* history: logins whose session another login completed
          overdue,    \* history: logins whose session expired
          displaced,  \* history: logins from which another took the port
          crossed     \* history: logins with callbacks that crossed their end or each other

store == <<session, age>>
port == <<prev, forwarder, listening>>
history == <<swept, overdue, displaced, crossed>>
vars == <<store, pc, port, file, got, caller, saved, history>>

Start == {"take", "replace", "listen", "publish"}
Waiting == {"check", "read"}
End == {"stop", "close", "done"}
Text == {"code", "error"}
Outcome == {"no", "partly", "whole"}
NoCall == [step |-> "idle", login |-> Nobody, text |-> "code", open |-> FALSE]

TypeOK ==
  /\ session \in [Login -> {"none", "pending", "error"}]
  /\ age \in [Login -> 0..2]
  /\ pc \in [Login -> {"idle", "remove", "exchange", "complete", "completeAll", "refused"}
                        \cup Start \cup Waiting \cup End]
  /\ prev \in [Login -> Login \cup {Nobody}] /\ forwarder \in Login \cup {Nobody}
  /\ listening \subseteq WebUI
  /\ \A l, m \in listening : l = m
  /\ file \in [Login -> {"none", "empty"} \cup Text]
  /\ got \in [Login -> {"none", "empty"} \cup Text]
  /\ caller \in [Caller -> [step : {"idle", "create", "fill", "ok"}, login : Login \cup {Nobody},
                            text : Text, open : BOOLEAN]]
  /\ saved \in [Login -> Outcome] /\ swept \subseteq Login /\ overdue \subseteq Login
  /\ displaced \subseteq Login /\ crossed \subseteq Login

Init ==
  /\ session = [l \in Login |-> "none"] /\ age = [l \in Login |-> 0]
  /\ pc = [l \in Login |-> "idle"]
  /\ prev = [l \in Login |-> Nobody] /\ forwarder = Nobody /\ listening = {}
  /\ file = [l \in Login |-> "none"] /\ got = [l \in Login |-> "none"]
  /\ caller = [k \in Caller |-> NoCall]
  /\ saved = [l \in Login |-> "no"] /\ swept = {} /\ overdue = {} /\ displaced = {} /\ crossed = {}

Goto(l, step) == pc' = [pc EXCEPT ![l] = step]

-----------------------------------------------------------------------------
(* The store of sessions. *)

\* Get, IsPending: whoever looks first removes what has expired.
Found(l) == session[l] # "none" /\ age[l] < 2
IsPending(l) == Found(l) /\ session[l] = "pending"

RegisterOAuthSession(l) ==
  /\ session' = [session EXCEPT ![l] = "pending"]
  /\ age' = [age EXCEPT ![l] = 0]

\* As if a failed login had nothing left to say.
SetErrorForgets(l) == session' = [session EXCEPT ![l] = "none"] /\ UNCHANGED age

SetOAuthSessionError(l) ==
  IF Found(l)
  THEN /\ session' = [session EXCEPT ![l] = "error"]
       /\ age' = [age EXCEPT ![l] = 0]
  ELSE UNCHANGED store

\* The waiting loop looks every half second, and gives up after 5 minutes; an entry
\* expires after 10.
Tick ==
  /\ \E l \in Login : session[l] # "none" /\ age[l] < 2
  /\ \A l \in Login : age[l] = 1 => pc[l] \notin Waiting \cup Start
  /\ age' = [l \in Login |-> IF session[l] # "none" /\ age[l] < 2 THEN age[l] + 1 ELSE age[l]]
  /\ overdue' = overdue \cup {l \in Login : session[l] # "none" /\ age[l] = 1}
  /\ UNCHANGED <<session, pc, port, file, got, caller, saved, swept, displaced, crossed>>

-----------------------------------------------------------------------------
(* The handler that starts a login. *)

Begin(l) ==
  /\ pc[l] = "idle"
  /\ RegisterOAuthSession(l)
  /\ Goto(l, IF l \in WebUI THEN "take" ELSE IF l \in Device THEN "exchange" ELSE "check")
  /\ UNCHANGED <<port, file, got, caller, saved, history>>

\* startCallbackForwarder takes its predecessor out of the map ...
TakePrevious(l) ==
  /\ pc[l] = "take"
  /\ prev' = [prev EXCEPT ![l] = forwarder]
  /\ forwarder' = Nobody
  /\ displaced' = displaced \cup ({forwarder} \ {Nobody})
  /\ Goto(l, "replace")
  /\ UNCHANGED <<store, listening, file, got, caller, saved, swept, overdue, crossed>>

\* ... stops it ...
Replace(l) ==
  /\ pc[l] = "replace"
  /\ listening' = listening \ {prev[l]}
  /\ Goto(l, "listen")
  /\ UNCHANGED <<store, prev, forwarder, file, got, caller, saved, history>>

\* ... and listens; if the port is taken the request is refused, but its session stays.
Listen(l) ==
  /\ pc[l] = "listen"
  /\ IF listening = {}
     THEN listening' = {l} /\ Goto(l, "publish")
     ELSE UNCHANGED listening /\ Goto(l, "refused")
  /\ UNCHANGED <<store, prev, forwarder, file, got, caller, saved, history>>

Publish(l) ==
  /\ pc[l] = "publish"
  /\ forwarder' = l
  /\ Goto(l, "check")
  /\ UNCHANGED <<store, prev, listening, file, got, caller, saved, history>>

-----------------------------------------------------------------------------
(* The goroutine of a login. *)

Writing(l) == \E k \in Caller : caller[k].login = l /\ caller[k].step \in {"create", "fill"}

\* l stops waiting; callbacks that passed their check come too late, and if it gives
\* up so does what is in the file.
StopsWaiting(l) == crossed' = IF Writing(l) THEN crossed \cup {l} ELSE crossed
GivesUp(l) ==
  IF file[l] = "none" THEN StopsWaiting(l) ELSE crossed' = crossed \cup {l}

\* Without a deadline.
CheckOn(l) ==
  /\ pc[l] = "check"
  /\ IF IsPending(l) THEN Goto(l, "read") /\ UNCHANGED crossed
     ELSE Goto(l, "stop") /\ GivesUp(l)
  /\ UNCHANGED <<store, port, file, got, caller, saved, swept, overdue, displaced>>

Check(l) ==
  /\ pc[l] = "check"
  /\ \/ /\ ~IsPending(l)
        /\ Goto(l, "stop") /\ GivesUp(l) /\ UNCHANGED store
     \/ /\ IsPending(l) /\ age[l] > 0
        /\ SetOAuthSessionError(l)
        /\ Goto(l, "stop") /\ GivesUp(l)
     \/ /\ IsPending(l) /\ age[l] = 0
        /\ Goto(l, "read") /\ UNCHANGED <<store, crossed>>
  /\ UNCHANGED <<port, file, got, caller, saved, swept, overdue, displaced>>

Read(l) ==
  /\ pc[l] = "read"
  /\ IF file[l] = "none"
     THEN /\ Goto(l, "check") /\ UNCHANGED <<got, crossed>>
     ELSE /\ got' = [got EXCEPT ![l] = file[l]]
          /\ Goto(l, "remove") /\ StopsWaiting(l)
  /\ UNCHANGED <<store, port, file, caller, saved, swept, overdue, displaced>>

Judge(l) ==
  IF got[l] = "code"
  THEN Goto(l, "exchange") /\ UNCHANGED store
  ELSE SetOAuthSessionError(l) /\ Goto(l, "stop")

\* The file is left behind.
JudgeOnly(l) ==
  /\ pc[l] = "remove"
  /\ Judge(l)
  /\ UNCHANGED <<port, file, got, caller, saved, history>>

\* Who has the file open goes on writing to what is no longer there.  An empty file
\* has neither a code nor the right state.
Remove(l) ==
  /\ pc[l] = "remove"
  /\ file' = [file EXCEPT ![l] = "none"]
  /\ caller' = [k \in Caller |-> IF caller[k].login = l THEN [caller[k] EXCEPT !.open = FALSE]
                                 ELSE caller[k]]
  /\ Judge(l)
  /\ UNCHANGED <<port, got, saved, history>>

\* The provider's answer, and saveTokenRecord.  A save may fail when the credential's
\* file is there: while it is written, or, with a mirrored store, when it is to be sent.
Exchange(l, outcome) ==
  /\ pc[l] = "exchange"
  /\ saved' = [saved EXCEPT ![l] = outcome]
  /\ IF outcome = "whole"
     THEN Goto(l, "complete") /\ UNCHANGED store
     ELSE Goto(l, "stop") /\ SetOAuthSessionError(l)
  /\ UNCHANGED <<port, file, got, caller, history>>

Complete(l) ==
  /\ pc[l] = "complete"
  /\ session' = [session EXCEPT ![l] = "none"]
  /\ Goto(l, IF l \in Device THEN "stop" ELSE "completeAll")
  /\ UNCHANGED <<age, port, file, got, caller, saved, history>>

\* CompleteOAuthSessionsByProvider: the other logins of the provider end with it.
CompleteAll(l) ==
  /\ pc[l] = "completeAll"
  /\ session' = [m \in Login |-> IF m \in Device THEN session[m] ELSE "none"]
  /\ swept' = swept \cup {m \in Login \ Device : session[m] # "none"}
  /\ Goto(l, "stop")
  /\ UNCHANGED <<age, port, file, got, caller, saved, overdue, displaced, crossed>>

\* stopCallbackForwarder.
Stop(l) ==
  /\ pc[l] = "stop"
  /\ IF l \in WebUI
     THEN /\ listening' = listening \ {forwarder}
          /\ forwarder' = Nobody
     ELSE UNCHANGED <<listening, forwarder>>
  /\ Goto(l, "close")
  /\ UNCHANGED <<store, prev, file, got, caller, saved, history>>

\* The deferred stopCallbackForwarderInstance: out of the map if it is still there ...
StopInstance(l) ==
  /\ pc[l] = "stop"
  /\ forwarder' = IF l \in WebUI /\ forwarder = l THEN Nobody ELSE forwarder
  /\ Goto(l, "close")
  /\ UNCHANGED <<store, prev, listening, file, got, caller, saved, history>>

\* ... and shut down.
Close(l) ==
  /\ pc[l] = "close"
  /\ listening' = listening \ {l}
  /\ Goto(l, "done")
  /\ UNCHANGED <<store, prev, forwarder, file, got, caller, saved, history>>

-----------------------------------------------------------------------------
(* Callbacks: PostOAuthCallback and the routes the forwarders lead to. *)

Others(k, l) == \E j \in Caller \ {k} : caller[j].login = l

Check1(k, l, text) ==
  /\ caller[k].step = "idle" /\ l \notin Device
  /\ IsPending(l)
  /\ caller' = [caller EXCEPT ![k] = [step |-> "create", login |-> l, text |-> text, open |-> FALSE]]
  /\ crossed' = IF Others(k, l) \/ pc[l] \notin Waiting THEN crossed \cup {l} ELSE crossed
  /\ UNCHANGED <<store, pc, port, file, got, saved, swept, overdue, displaced>>

\* os.WriteFile opens an empty file before it writes.
Create(k) ==
  /\ caller[k].step = "create"
  /\ file' = [file EXCEPT ![caller[k].login] = "empty"]
  /\ caller' = [caller EXCEPT ![k].step = "fill", ![k].open = TRUE]
  /\ UNCHANGED <<store, pc, port, got, saved, history>>

Fill(k) ==
  /\ caller[k].step = "fill"
  /\ file' = IF caller[k].open THEN [file EXCEPT ![caller[k].login] = caller[k].text] ELSE file
  /\ caller' = [caller EXCEPT ![k].step = "ok"]
  /\ UNCHANGED <<store, pc, port, got, saved, history>>

-----------------------------------------------------------------------------
Run(l) ==
  \/ TakePrevious(l) \/ Replace(l) \/ Listen(l) \/ Publish(l)
  \/ Check(l) \/ Read(l) \/ Remove(l) \/ \E o \in Outcome : Exchange(l, o)
  \/ Complete(l) \/ CompleteAll(l) \/ StopInstance(l) \/ Close(l)

Next ==
  \/ \E l \in Login : Begin(l) \/ Run(l)
  \/ \E k \in Caller : \/ Create(k) \/ Fill(k)
                       \/ \E l \in Login, text \in Text : Check1(k, l, text)
  \/ Tick

Spec == Init /\ [][Next]_vars

\* Time passes; handlers and goroutines go on, and the provider answers or the HTTP
\* client's timeout does.
FairSpec == Spec /\ WF_vars(Tick) /\ \A l \in Login : WF_vars(Run(l))

-----------------------------------------------------------------------------
(* Properties. *)

\* GetAuthStatus.
Status(l) ==
  IF ~Found(l) THEN "ok" ELSE IF session[l] = "error" THEN "error" ELSE "wait"

\* A login of which the status says "ok" has saved its credential, unless another
\* login of the provider was completed meanwhile or its session has expired: then
\* it also says so of a login that failed, or that was never carried out.  One that
\* says "error" has not saved it whole, but its file may be there and be loaded by the
\* watcher; and one that says "wait" is not over (GetAuthStatus, SetError,
\* CompleteProvider, saveTokenRecord).
OkMeansSaved ==
  \A l \in Login : pc[l] # "idle" =>
    /\ Status(l) = "ok" => saved[l] = "whole" \/ l \in swept \cup overdue
    /\ Status(l) = "error" => saved[l] # "whole"
    /\ Status(l) = "wait" => pc[l] \notin End

\* When a login is over and its callback was answered, it has read what the callback
\* brought and left no file behind, unless callbacks met each other, came before the
\* wait or while it ended: then a file may be read while it is empty, or stay in the
\* directory (the waiting loops, WriteOAuthCallbackFileForPendingSession).
CallbackReceived ==
  \A l \in Login \ crossed : pc[l] = "done" /\ l \notin Device =>
    /\ file[l] = "none"
    /\ \A k \in Caller : caller[k].login = l => caller[k].text = got[l]

\* The forwarder of a login listens as long as it waits, whatever other logins of the
\* provider end, until another one takes the port; and none is left when its login
\* is over (startCallbackForwarder, stopCallbackForwarderInstance).
ForwarderStays ==
  \A l \in WebUI :
    /\ pc[l] \in Waiting /\ l \notin displaced => l \in listening
    /\ pc[l] \in {"refused", "done"} => l \notin listening

\* Every login comes to an end, and its session leaves the store: nothing is left
\* that waits for a callback, or says that it does (the waiting loops, SetError).
LoginEnds ==
  \A l \in Login : pc[l] # "idle" ~> pc[l] \in {"refused", "done"} /\ ~Found(l)

=============================================================================
