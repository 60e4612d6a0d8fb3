----------------------------- MODULE TokenRefresh -----------------------------
(***************************************************************************)
(* The refresh token of one credential that is kept in a file: the manager's *)
(* copy, the background refreshes that trade it for the next one, the file   *)
(* every update and every result writes, the watcher that reads the file and *)
(* the service that applies what it read, which writes the file again.  A     *)
(* save may fail, which nobody looks at.                                     *)
(*                                                                          *)
(* Tokens are numbered in the order in which the provider gives them out; as *)
(* Codex and Claude do it, it takes each only once.  The way from the watcher *)
(* to the service is what AuthUpdateFeed promises of it.                     *)
(***************************************************************************)
EXTENDS Integers, Sequences

CONSTANTS Refresher,   \* goroutines of refreshAuth
          MaxToken,    \* bound: tokens given out
          QueueCap,    \* bound: updates on their way
          MaxRestarts  \* bound: crashes

RefreshParameters == MaxToken \in Nat /\ QueueCap \in Nat \ {0} /\ MaxRestarts \in Nat

Token == 0..MaxToken

VARIABLES issued,   \* the last token the provider gave out
          token,    \* the manager's
          waits,    \* NextRefreshAfter has not come
          pc, held, \* how far each refresh is, and its token
          service,  \* how far the service is with an update
          update,   \* the token it applies, and whether it found that NextRefreshAfter waits
          file,     \* the token in the file
          unsaved,  \* history: the last save of a refreshed token failed
          known,    \* the watcher's last
          feed,     \* tokens on their way to the service, oldest first
          restarts,
          excuses   \* history: what may have cost a token

manager == <<issued, token, waits>>
echo == <<service, update, known, feed>>
saving == <<file, unsaved>>
vars == <<manager, pc, held, echo, saving, restarts, excuses>>

NoUpdate == [token |-> 0, waits |-> FALSE]

TypeOK ==
  /\ issued \in Token /\ token \in Token /\ waits \in BOOLEAN
  /\ pc \in [Refresher -> {"idle", "begun", "call", "failed", "update", "persist"}]
  /\ held \in [Refresher -> Token]
  /\ service \in {"idle", "apply", "persist"}
  /\ update \in [token : Token, waits : BOOLEAN]
  /\ file \in Token /\ unsaved \in BOOLEAN /\ known \in Token
  /\ feed \in Seq(Token) /\ Len(feed) <= QueueCap
  /\ restarts \in 0..MaxRestarts
  /\ excuses \subseteq {"overlap", "echo", "lost"}

Feed == INSTANCE AuthUpdateFeed WITH Id <- {1}, Value <- Token, view <- <<token>>, backlog <- <<feed>>

\* The manager was loaded from the file, and the watcher has published what it found.
Init ==
  /\ issued = 0 /\ token = 0 /\ waits = FALSE
  /\ pc = [w \in Refresher |-> "idle"] /\ held = [w \in Refresher |-> 0]
  /\ service = "idle" /\ update = NoUpdate
  /\ file = 0 /\ unsaved = FALSE /\ known = 0 /\ feed = <<0>>
  /\ restarts = 0 /\ excuses = {}

\* FileTokenStore.Save that takes the refresh token for one of the fields that change
\* with every refresh.
SavedIgnoringToken(t) == file
\* A file that differs in nothing but times and the access token is left alone; else
\* it is written aside and renamed.
Saved(t) == t

-----------------------------------------------------------------------------
(* Background refreshes: checkRefreshes and refreshAuth. *)

Resting == feed = <<>> /\ service = "idle" /\ known = file

\* markRefreshPending: another refresh may still be at it.
Begin(w) ==
  /\ pc[w] = "idle" /\ ~waits
  /\ waits' = TRUE
  /\ pc' = [pc EXCEPT ![w] = "begun"]
  /\ excuses' = excuses \cup (IF \E v \in Refresher : pc[v] # "idle" THEN {"overlap"} ELSE {})
  /\ UNCHANGED <<issued, token, held, echo, saving, restarts>>

\* The backoff of a minute, or of five after a failure, is over.
Elapse ==
  /\ waits /\ waits' = FALSE
  /\ UNCHANGED <<issued, token, pc, held, echo, saving, restarts, excuses>>

ReadToken(w) ==
  /\ pc[w] = "begun"
  /\ held' = [held EXCEPT ![w] = token]
  /\ pc' = [pc EXCEPT ![w] = "call"]
  /\ UNCHANGED <<manager, echo, saving, restarts, excuses>>

\* The provider trades its last token for a new one.  The answer may be lost.
Trade(w, lost) ==
  /\ pc[w] = "call" /\ held[w] = issued /\ issued < MaxToken
  /\ issued' = issued + 1
  /\ held' = [held EXCEPT ![w] = IF lost THEN 0 ELSE issued']
  /\ pc' = [pc EXCEPT ![w] = IF lost THEN "failed" ELSE "update"]
  /\ excuses' = excuses \cup (IF lost THEN {"lost"} ELSE {})
  /\ UNCHANGED <<token, waits, echo, saving, restarts>>

\* It refuses a token it has taken before, or the call fails.
Refuse(w) ==
  /\ pc[w] = "call"
  /\ pc' = [pc EXCEPT ![w] = "failed"]
  /\ held' = [held EXCEPT ![w] = 0]
  /\ UNCHANGED <<manager, echo, saving, restarts, excuses>>

BackOff(w) ==
  /\ pc[w] = "failed"
  /\ waits' = TRUE
  /\ pc' = [pc EXCEPT ![w] = "idle"]
  /\ UNCHANGED <<issued, token, held, echo, saving, restarts, excuses>>

\* Update: the record first, under the lock, then the file.
Update(w) ==
  /\ pc[w] = "update"
  /\ token' = held[w] /\ waits' = FALSE
  /\ pc' = [pc EXCEPT ![w] = "persist"]
  /\ excuses' = excuses \cup (IF Resting THEN {} ELSE {"echo"})
  /\ UNCHANGED <<issued, held, echo, saving, restarts>>

\* A save that fails leaves the file as it was, and Update drops the error: the manager
\* has a token that the file lacks, until something else saves the record.
Persist(w, ok) ==
  /\ pc[w] = "persist"
  /\ file' = IF ok THEN Saved(held[w]) ELSE file
  /\ unsaved' = ~ok
  /\ pc' = [pc EXCEPT ![w] = "idle"]
  /\ held' = [held EXCEPT ![w] = 0]
  /\ UNCHANGED <<manager, echo, restarts, excuses>>

\* A result of a request: the record is saved under the lock, or, if that fails, nothing
\* is changed.
MarkResult ==
  /\ file' = Saved(token) /\ file' # file
  /\ unsaved' = FALSE
  /\ UNCHANGED <<manager, pc, held, echo, restarts, excuses>>

-----------------------------------------------------------------------------
(* The watcher and the service. *)

\* It does not remember what it has published.
NoticeAgain ==
  /\ feed' \in Feed!Grown(feed, file) /\ Len(feed') <= QueueCap
  /\ UNCHANGED <<manager, pc, held, service, update, known, saving, restarts, excuses>>

\* An event of the file, or a scan.
Notice ==
  /\ file # known
  /\ known' = file
  /\ feed' \in Feed!Grown(feed, file) /\ Len(feed') <= QueueCap
  /\ UNCHANGED <<manager, pc, held, service, update, saving, restarts, excuses>>

\* A reload of the configuration that changes what all credentials are made into, or
\* forces their refresh, publishes the file's token whether or not it is new.
Republish ==
  /\ known' = file
  /\ feed' \in Feed!Grown(feed, file) /\ Len(feed') <= QueueCap
  /\ excuses' = excuses \cup (IF file = token THEN {} ELSE {"echo"})
  /\ UNCHANGED <<manager, pc, held, service, update, saving, restarts>>

\* applyCoreAuthAddOrUpdate registers the models and looks the credential up.
TakeUpdate ==
  /\ service = "idle" /\ feed # <<>>
  /\ update' = [token |-> Head(feed), waits |-> waits]
  /\ feed' = Tail(feed)
  /\ service' = "apply"
  /\ UNCHANGED <<manager, pc, held, known, saving, restarts, excuses>>

\* Update again: the token of the file, the NextRefreshAfter found before.
ApplyUpdate ==
  /\ service = "apply"
  /\ token' = update.token /\ waits' = update.waits
  /\ service' = "persist"
  /\ UNCHANGED <<issued, pc, held, update, known, feed, saving, restarts, excuses>>

PersistUpdate(ok) ==
  /\ service = "persist"
  /\ file' = IF ok THEN Saved(update.token) ELSE file
  /\ unsaved' = (unsaved /\ ~ok)
  /\ service' = "idle" /\ update' = NoUpdate
  /\ UNCHANGED <<manager, pc, held, known, feed, restarts, excuses>>

-----------------------------------------------------------------------------
\* A crash and a new start, which knows what the file has (Load).
Restart ==
  /\ restarts < MaxRestarts /\ restarts' = restarts + 1
  /\ token' = file /\ waits' = FALSE
  /\ pc' = [w \in Refresher |-> "idle"] /\ held' = [w \in Refresher |-> 0]
  /\ service' = "idle" /\ update' = NoUpdate
  /\ known' = file /\ feed' = <<file>> /\ unsaved' = FALSE
  /\ excuses' = excuses \cup (IF file # issued THEN {"lost"} ELSE {})
  /\ UNCHANGED <<issued, file>>

Refresh(w) ==
  \/ Begin(w) \/ ReadToken(w) \/ Refuse(w) \/ BackOff(w) \/ Update(w)
  \/ \E lost \in BOOLEAN : Trade(w, lost)
  \/ \E ok \in BOOLEAN : Persist(w, ok)
Service == TakeUpdate \/ ApplyUpdate \/ \E ok \in BOOLEAN : PersistUpdate(ok)

Next ==
  \/ \E w \in Refresher : Refresh(w)
  \/ Elapse \/ MarkResult \/ Notice \/ Republish \/ Service \/ Restart

Spec == Init /\ [][Next]_vars

\* The watcher and the service go on when they can.
FairSpec == Spec /\ WF_vars(Notice) /\ WF_vars(Service)

-----------------------------------------------------------------------------
(* Properties. *)

\* Once refreshes are over and the file, the watcher and the service have come to
\* rest, the manager has the token the provider gave out last, and so has the file,
\* unless the last save failed: the token's loss shuts the account out until someone
\* logs in again.  There are three ways to lose it.  Two refreshes ran at once
\* (markRefreshPending's minute was over, or the service put an earlier NextRefreshAfter
\* back); a refresh updated the manager while an older state of the file was on its way
\* back to it, or such a state was published again before the file had the new token;
\* or the answer or the process was lost before the file was written, be it that a save
\* failed.  A failed save alone loses nothing: the manager goes on with the token, and
\* the next save has it (refreshAuth, Update, applyCoreAuthAddOrUpdate, Save).
TokenKept ==
  (Resting /\ excuses = {} /\ \A w \in Refresher : pc[w] = "idle")
     => token = issued /\ (unsaved \/ file = issued)

\* The file's echo dies out: what the service writes back makes no new update, unless
\* a refresh came between, which may send two tokens round for ever, or the
\* configuration is reloaded again and again (Save, Notice, applyCoreAuthAddOrUpdate).
EchoEnds ==
  <>("echo" \in excuses \/ "overlap" \in excuses) \/ []<>Resting \/ []<><<Republish>>_vars

=============================================================================
