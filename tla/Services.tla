------------------------------ MODULE Services ------------------------------
(***************************************************************************)
(* The calls of a websocket session and seven modules around them, side by   *)
(* side: the components do not touch each other's state, so a behaviour is    *)
(* one of a single component, the part, while the state of the others stays  *)
(* as it is.  MCServices gives the parameters their values.                  *)
(***************************************************************************)
EXTENDS RelayRequests, FiniteSets

CONSTANTS Request, Model, ModelOf, RecordedAs, Pattern, Matches, Quota, MaxCalls,
          MaxMonth,                                             \* UsageLimits
          Login, WebUI, Device, Caller,                         \* LoginSessions
          Provider, Session, QueueCap, MaxQueue, Nobody,        \* RelaySessions
          Refresher, MaxToken, FeedCap, MaxRestarts,            \* TokenRefresh
          MaxBlocks, ToolIndex, NoBlock,        \* GeminiToClaude, OpenAIToClaude
          Setting, Compared, Direct, Unpruned, Editor, Reloader, Object,
          MaxChanges                                            \* ConfigReload

VARIABLE part

-----------------------------------------------------------------------------
VARIABLES month, usagePc, made, when, life, usageQueue, usageClosed, worker, hand, details,
          saving, disk, exported, peak, forgotten, careless
usage == <<month, usagePc, made, when, life, usageQueue, usageClosed, worker, hand, details,
           saving, disk, exported, peak, forgotten, careless>>

Usage ==
  INSTANCE UsageLimits WITH
    pc <- usagePc, queue <- usageQueue, closed <- usageClosed

-----------------------------------------------------------------------------
VARIABLES loginSession, age, loginPc, prev, forwarder, listening, file, got, caller, saved, swept,
          overdue, displaced, crossed
logins == <<loginSession, age, loginPc, prev, forwarder, listening, file, got, caller, saved,
            swept, overdue, displaced, crossed>>

Logins == INSTANCE LoginSessions WITH session <- loginSession, pc <- loginPc

-----------------------------------------------------------------------------
VARIABLES sessions, name, handler, replaced, cleaning, cause, stopping, route, queue, view, raced
connections == <<sessions, name, handler, replaced, cleaning, cause, stopping, route, queue,
                 view, raced>>

Connections == INSTANCE RelaySessions

-----------------------------------------------------------------------------
VARIABLES issued, token, waits, refreshPc, held, service, update, tokenFile, unsaved, known, feed,
          restarts, excuses
tokens == <<issued, token, waits, refreshPc, held, service, update, tokenFile, unsaved, known,
            feed, restarts, excuses>>

Tokens == INSTANCE TokenRefresh WITH QueueCap <- FeedCap, pc <- refreshPc, file <- tokenFile

-----------------------------------------------------------------------------
VARIABLES dialect, claude, first, type, index, content, finish, counted, sent, last, ended,
          mishaps
gemini == <<dialect, claude, first, type, index, content, finish, counted, sent, last, ended,
            mishaps>>

Gemini ==
  INSTANCE GeminiToClaude WITH
    client <- claude, usage <- counted, done <- ended, excuses <- mishaps

-----------------------------------------------------------------------------
VARIABLES reader, started, thinking, text, tools, called, free, finished, stopped, deltaSent,
          stopSent, over, slips
openai == <<reader, started, thinking, text, tools, called, free, finished, stopped, deltaSent,
            stopSent, over, slips>>

OpenAI ==
  INSTANCE OpenAIToClaude WITH
    client <- reader, finish <- finished, done <- over, excuses <- slips

-----------------------------------------------------------------------------
VARIABLES configFile, heap, mgmtConfig, watched, applied, snapshot, hash, event, armed, reloads,
          edits, changes, edit, races
configuration == <<configFile, heap, mgmtConfig, watched, applied, snapshot, hash, event, armed,
                   reloads, edits, changes, edit, races>>

Config ==
  INSTANCE ConfigReload WITH
    Nothing <- None, file <- configFile, handler <- mgmtConfig, calls <- edits

-----------------------------------------------------------------------------
ServicesInit ==
  /\ part \in {"usage", "logins", "calls", "connections", "tokens", "gemini", "openai",
               "config"}
  /\ Usage!Init /\ Logins!Init /\ Init /\ Connections!Init /\ Tokens!Init
  /\ Gemini!Init /\ OpenAI!Init /\ (part # "gemini" => dialect = "gemini")
  /\ Config!Init /\ configFile = Config!Blank

ServicesNext ==
  \/ /\ part = "usage" /\ Usage!Next
     /\ UNCHANGED <<part, logins, vars, connections, tokens, gemini, openai, configuration>>
  \/ /\ part = "logins" /\ Logins!Next
     /\ UNCHANGED <<part, usage, vars, connections, tokens, gemini, openai, configuration>>
  \/ /\ part = "calls" /\ Next
     /\ UNCHANGED <<part, usage, logins, connections, tokens, gemini, openai, configuration>>
  \/ /\ part = "connections" /\ Connections!Next
     /\ UNCHANGED <<part, usage, logins, vars, tokens, gemini, openai, configuration>>
  \/ /\ part = "tokens" /\ Tokens!Next
     /\ UNCHANGED <<part, usage, logins, vars, connections, gemini, openai, configuration>>
  \/ /\ part = "gemini" /\ Gemini!Next
     /\ UNCHANGED <<part, usage, logins, vars, connections, tokens, openai, configuration>>
  \/ /\ part = "openai" /\ OpenAI!Next
     /\ UNCHANGED <<part, usage, logins, vars, connections, tokens, gemini, configuration>>
  \/ /\ part = "config" /\ Config!Next
     /\ UNCHANGED <<part, usage, logins, vars, connections, tokens, gemini, openai>>

ServicesSpec ==
  ServicesInit /\
  [][ServicesNext]_<<part, usage, logins, vars, connections, tokens, gemini, openai,
                     configuration>>

ASSUME ServiceParameters ==
  /\ Usage!LimitsParameters /\ Logins!LoginParameters
  /\ RequestsParameters /\ Connections!SessionsParameters /\ Tokens!RefreshParameters
  /\ Gemini!GeminiParameters /\ OpenAI!OpenAIParameters /\ Config!ConfigParameters

-----------------------------------------------------------------------------
(* Properties: those of the component that acts; the others rest in their initial *)
(* states.  Those of RelayRequests are checked as they stand.                     *)

\* The state of the component has its type.
PartTypeOK ==
  CASE part = "usage"       -> Usage!TypeOK
    [] part = "logins"      -> Logins!TypeOK
    [] part = "calls"       -> TypeOK
    [] part = "connections" -> Connections!TypeOK
    [] part = "tokens"      -> Tokens!TypeOK
    [] part = "gemini"      -> Gemini!TypeOK
    [] part = "openai"      -> OpenAI!TypeOK
    [] part = "config"      -> Config!TypeOK

\* UsageLimits: a quota is exceeded by the requests under way at most.
QuotaBounded == part = "usage" => Usage!QuotaBounded
\* UsageLimits: no call is counted twice.
CountedOnce == part = "usage" => Usage!CountedOnce
\* UsageLimits: the file forgets no record.
SavedStays == [][careless' \/ \A x \in Usage!Record : disk[x] <= disk'[x]]_usage

\* LoginSessions: who is told "ok" has a saved credential, who is told "error" has none
\* that was saved whole, and who is told "wait" has one to come.
OkMeansSaved == part = "logins" => Logins!OkMeansSaved
\* LoginSessions: the login reads what its callback brought.
CallbackReceived == part = "logins" => Logins!CallbackReceived
\* LoginSessions: the forwarder of a login listens until the login ends.
ForwarderStays == part = "logins" => Logins!ForwarderStays

\* RelaySessions: the credentials agree with the connections.
CredentialsMatch == part = "connections" => Connections!CredentialsMatch
\* RelaySessions: the map leads to every live session.
LiveSessionsFound == part = "connections" => Connections!LiveSessionsFound

\* TokenRefresh: the last token stays.
TokenKept == part = "tokens" => Tokens!TokenKept

\* GeminiToClaude: the client can place every event, and the answer is ended.
GeminiAnswerWellFormed == part = "gemini" => Gemini!AnswerWellFormed
\* OpenAIToClaude: likewise.
OpenAIAnswerWellFormed == part = "openai" => OpenAI!AnswerWellFormed

\* ConfigReload: edits stay, and what the file holds comes into force.
EditsInForce == part = "config" => Config!EditsInForce

=============================================================================
