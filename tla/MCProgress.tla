----------------------------- MODULE MCProgress -----------------------------
(***************************************************************************)
(* Small instances of the stream relay, of five other components and of the   *)
(* translators of MCAnswers, each under the fairness its module states,       *)
(* explored side by side like those of MCServices.                           *)
(***************************************************************************)
EXTENDS StreamRelay, FiniteSets, MCAnswers

CONSTANTS Thread, LockCalls,                                    \* LockOrder
          Request, MaxCalls, MaxMonth, r1, m1, m2, pa,          \* UsageLimits
          Login, WebUI, Device, Caller,                         \* LoginSessions
          Refresher, MaxToken, QueueCap, MaxRestarts,           \* TokenRefresh
          LogCapacity, LogChunks, LogSwitches,                  \* RequestLog
          Nobody, None

VARIABLE part

-----------------------------------------------------------------------------
VARIABLES todo, readers, lockWriter, writing
locks == <<todo, readers, lockWriter, writing>>

Locks == INSTANCE LockOrder WITH writer <- lockWriter, Call <- LockCalls

-----------------------------------------------------------------------------
VARIABLES month, usagePc, made, when, life, usageQueue, usageClosed, worker, hand, details,
          saving, disk, exported, peak, forgotten, careless
usage == <<month, usagePc, made, when, life, usageQueue, usageClosed, worker, hand, details,
           saving, disk, exported, peak, forgotten, careless>>

\* One quota for two models, each recorded under its own name.
Models == {m1, m2}
ModelNamed == [r \in Request |-> IF r = r1 THEN m1 ELSE m2]
SameName == [m \in Models |-> m]
OnePattern == {pa}
MatchesAll == OnePattern \X Models
OneCall == [p \in OnePattern |-> 1]

Usage ==
  INSTANCE UsageLimits WITH
    Model <- Models, ModelOf <- ModelNamed, RecordedAs <- SameName, Pattern <- OnePattern,
    Matches <- MatchesAll, Quota <- OneCall,
    pc <- usagePc, queue <- usageQueue, closed <- usageClosed

-----------------------------------------------------------------------------
VARIABLES loginSession, age, loginPc, prev, forwarder, listening, file, got, caller, saved, swept,
          overdue, displaced, crossed
logins == <<loginSession, age, loginPc, prev, forwarder, listening, file, got, caller, saved,
            swept, overdue, displaced, crossed>>

Logins == INSTANCE LoginSessions WITH session <- loginSession, pc <- loginPc

-----------------------------------------------------------------------------
VARIABLES issued, token, waits, refreshPc, held, service, update, tokenFile, unsaved, known, feed,
          restarts, excuses
tokens == <<issued, token, waits, refreshPc, held, service, update, tokenFile, unsaved, known,
            feed, restarts, excuses>>

Tokens == INSTANCE TokenRefresh WITH pc <- refreshPc, file <- tokenFile

-----------------------------------------------------------------------------
VARIABLES logEnabled, switches, onErrorOnly, logPc, status, logSent, body, logWriter, channel,
          logRelay, logHeld, chunkChan, chunkChanClosed, spooler, spool, logOpen, logFailed, temp,
          kept, logged, logExcuses
requestLog == <<logEnabled, switches, onErrorOnly, logPc, status, logSent, body, logWriter, channel,
                logRelay, logHeld, chunkChan, chunkChanClosed, spooler, spool, logOpen, logFailed,
                temp, kept, logged, logExcuses>>

Log ==
  INSTANCE RequestLog WITH
    Capacity <- LogCapacity, MaxChunks <- LogChunks, MaxSwitches <- LogSwitches,
    enabled <- logEnabled, pc <- logPc, sent <- logSent, writer <- logWriter, relay <- logRelay,
    held <- logHeld, open <- logOpen, failed <- logFailed, excuses <- logExcuses

-----------------------------------------------------------------------------
ProgressInit ==
  /\ part \in {"locks", "usage", "logins", "tokens", "log", "stream", "answer"}
  /\ Locks!Init /\ Usage!Init /\ Logins!Init /\ Tokens!Init /\ Log!Init /\ Init
  /\ AnswersInit
  /\ part # "answer" => answer = "gemini"
  /\ part # "log" => logEnabled

others == <<vars, answers>>

ProgressNext ==
  /\ \/ part = "locks" /\ Locks!Next /\ UNCHANGED <<usage, logins, tokens, requestLog, others>>
     \/ part = "usage" /\ Usage!Next /\ UNCHANGED <<locks, logins, tokens, requestLog, others>>
     \/ part = "logins" /\ Logins!Next /\ UNCHANGED <<locks, usage, tokens, requestLog, others>>
     \/ part = "tokens" /\ Tokens!Next /\ UNCHANGED <<locks, usage, logins, requestLog, others>>
     \/ part = "log" /\ Log!Next /\ UNCHANGED <<locks, usage, logins, tokens, others>>
     \/ /\ part = "stream" /\ Next
        /\ UNCHANGED <<locks, usage, logins, tokens, requestLog, answers>>
     \/ /\ part = "answer" /\ AnswersNext
        /\ UNCHANGED <<locks, usage, logins, tokens, requestLog, vars>>
  /\ UNCHANGED part

\* The fairness each component states of itself, while it is the part.
ProgressSpec ==
  /\ ProgressInit /\ [][ProgressNext]_<<part, locks, usage, logins, tokens, requestLog, others>>
  /\ \A t \in Thread : SF_locks(part = "locks" /\ Locks!Proceed(t))
  /\ WF_usage(part = "usage" /\ Usage!Worker)
  /\ \A r \in Request : WF_usage(part = "usage" /\ Usage!Signal(r))
  /\ WF_logins(part = "logins" /\ Logins!Tick)
  /\ \A l \in Login : WF_logins(part = "logins" /\ Logins!Run(l))
  /\ WF_tokens(part = "tokens" /\ Tokens!Notice)
  /\ WF_tokens(part = "tokens" /\ Tokens!Service)
  /\ WF_requestLog(part = "log" /\ Log!InFinalize)
  /\ WF_requestLog(part = "log" /\ Log!Relay)
  /\ WF_requestLog(part = "log" /\ Log!Spooler)
  /\ WF_vars(part = "stream" /\ Handler)
  /\ WF_vars(part = "stream" /\ Writer)
  /\ \A k \in Attempt : WF_vars(part = "stream" /\ Source(k))

ASSUME ProgressParameters ==
  /\ Locks!LockParameters /\ Usage!LimitsParameters /\ Logins!LoginParameters
  /\ Tokens!RefreshParameters /\ Log!LogParameters /\ StreamParameters

-----------------------------------------------------------------------------
(* Properties: those of the component that acts; OneAttemptShown and DoneIsWhole of *)
(* StreamRelay are checked as they stand.                                          *)

\* The state of the component has its type.
PartTypeOK ==
  CASE part = "locks"  -> Locks!TypeOK
    [] part = "usage"  -> Usage!TypeOK
    [] part = "logins" -> Logins!TypeOK
    [] part = "tokens" -> Tokens!TypeOK
    [] part = "log"    -> Log!TypeOK
    [] part = "stream" -> TypeOK
    [] part = "answer" -> AnswersTypeOK

\* LockOrder: no goroutines wait for each other in a circle.
NoCircularWait == part = "locks" => Locks!NoCircularWait
\* LockOrder: every call gives back its locks and returns.
EveryCallReturns == part = "locks" => Locks!EveryCallReturns

\* UsageLimits: every queued record is counted.
QueuedIsCounted == part = "usage" => Usage!QueuedIsCounted

\* The translators of MCAnswers: a client can place all that it gets of an answer, and gets
\* all of it once, with its end.
AnswersWellFormed ==
  part = "answer" => CASE answer = "gemini"       -> Gemini!AnswerWellFormed
                       [] answer = "claude"       -> Claude!AnswerWellFormed
                       [] answer = "openai"       -> OpenAI!AnswerWellFormed
                       [] answer = "codex"        -> Codex!AnswerWellFormed
                       [] answer = "claudeChat"   -> ClaudeChat!AnswerWellFormed
                       [] answer = "claudeGemini" -> ClaudeGemini!AnswerWellFormed
                       [] answer = "codexChunks"  -> CodexChunks!AnswerWellFormed
                       [] answer = "geminiChat"   -> GeminiChat!AnswerWellFormed
                       [] answer = "openaiGemini" -> OpenAIGemini!AnswerWellFormed

\* RequestLog: a log follows the answer that was sent.
LogFollowsAnswer == part = "log" => Log!LogFollowsAnswer

\* LoginSessions: every login comes to an end.
LoginEnds == part = "logins" => Logins!LoginEnds
\* TokenRefresh: the echo of the file dies out.
EchoEnds == part = "tokens" => Tokens!EchoEnds
\* StreamRelay: every response ends, and its goroutines with it; RequestLog: so does the log
\* of one, for which the handler waits.
ResponseEnds == (part = "stream" => StreamEnds) /\ (part = "log" => Log!FinalizeEnds)

=============================================================================
