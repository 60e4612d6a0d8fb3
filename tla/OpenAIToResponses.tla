------------------------- MODULE OpenAIToResponses -------------------------
(***************************************************************************)
(* Streamed chat completions as a client of the Responses API gets them       *)
(* (ConvertOpenAIChatCompletionsResponseToOpenAIResponses), of the one choice *)
(* that a request of this API asks for.  What a chunk carries of content,      *)
(* reasoning, a tool call and the finish reason is translated in this order,   *)
(* each in an action of its own.                                             *)
(***************************************************************************)
EXTENDS ResponsesEvents

CONSTANTS Reasoning, Message,  \* the one reasoning and the one message of an answer
          Calls,               \* ids of its tool calls
          NoCall,              \* the id of a call that has none
          MaxPieces            \* bound: contents, thoughts and pieces of arguments

ChatParameters ==
  /\ {Reasoning, Message, NoCall} \cup Calls = Item /\ Reasoning # Message
  /\ NoCall \notin {Reasoning, Message} \cup Calls
  /\ {Reasoning, Message} \cap Calls = {} /\ MaxPieces \in Nat \ {0}

VARIABLES client,     \* what the client has seen
          started,    \* Started
          reasoning,  \* ReasoningID is set
          message,    \* MsgItemAdded and MsgItemDone
          callId,     \* FuncCallIDs of the choice
          callDone,   \* FuncItemDone
          anyCall,    \* FuncArgsBuf has an entry
          texts,      \* pieces in MsgTextBuf
          thoughts,   \* pieces in ReasoningBuf
          arguments,  \* pieces in FuncArgsBuf
          asked,      \* history: the calls of the provider
          excuses     \* history: what the translator has no place for

call == <<callId, callDone, anyCall, arguments, asked>>
vars == <<client, started, reasoning, message, texts, thoughts, call, excuses>>

TypeOK ==
  /\ client \in Reader /\ {started, reasoning, callDone, anyCall} \subseteq BOOLEAN
  /\ message \in {"none", "open", "done"} /\ callId \in Calls \cup {NoCall}
  /\ {texts, thoughts, arguments} \subseteq Nat /\ asked \subseteq Calls
  /\ excuses \subseteq {"late", "resumed", "parallel", "nameless"}

Init ==
  /\ client = NewReader /\ started = FALSE /\ reasoning = FALSE /\ message = "none"
  /\ callId = NoCall /\ callDone = FALSE /\ anyCall = FALSE
  /\ texts = 0 /\ thoughts = 0 /\ arguments = 0 /\ asked = {} /\ excuses = {}

-----------------------------------------------------------------------------
\* The first chunk creates the response.
Started == IF started THEN client ELSE Created(client)

Translated(reasons) ==
  /\ started' = TRUE
  /\ excuses' = excuses \cup reasons
                        \cup IF client.stage = "completed" THEN {"late"} ELSE {}

Announced(c, known, x) == IF known THEN c ELSE ItemAdded(c, x)

Content ==
  /\ Translated(IF message = "done" THEN {"resumed"} ELSE {}) /\ texts < MaxPieces
  /\ client' = Delta(Announced(Started, message # "none", Message), Message)
  /\ message' = IF message = "none" THEN "open" ELSE message
  /\ texts' = texts + 1
  /\ UNCHANGED <<reasoning, thoughts, call>>

Thought ==
  /\ Translated({}) /\ thoughts < MaxPieces
  /\ client' = Delta(Announced(Started, reasoning, Reasoning), Reasoning)
  /\ reasoning' = TRUE /\ thoughts' = thoughts + 1
  /\ UNCHANGED <<message, texts, call>>

\* The message ends when a call comes.
MessageDone(c) == IF message = "open" THEN ItemDone(c, Message) ELSE c
CloseMessage == message' = IF message = "open" THEN "done" ELSE message

\* A piece of a tool call, with an id (id # NoCall) and with arguments, or without.  The
\* first id of the choice is that of all its calls, and arguments that come before it are
\* kept for the end.
ToolCall(id, bare) ==
  /\ Translated((IF id # NoCall /\ asked \ {id} # {} THEN {"parallel"} ELSE {})
                  \cup IF id = NoCall /\ callId = NoCall THEN {"nameless"} ELSE {})
  /\ callId' = IF callId = NoCall THEN id ELSE callId
  /\ LET c == Announced(MessageDone(Started), callId' = callId, callId')
     IN  IF bare
         THEN client' = c /\ UNCHANGED arguments
         ELSE /\ arguments < MaxPieces /\ arguments' = arguments + 1
              /\ client' = IF callId' = NoCall THEN c ELSE Delta(c, callId')
  /\ anyCall' = TRUE /\ CloseMessage
  /\ asked' = asked \cup ({id} \ {NoCall})
  /\ UNCHANGED <<reasoning, texts, thoughts, callDone>>

\* What response.completed contains.
Collected ==
  Contents((IF thoughts > 0 THEN {Reasoning} ELSE {})
             \cup (IF message # "none" THEN {Message} ELSE {})
             \cup (IF anyCall THEN {callId} ELSE {}),
           [x \in Item |-> CASE x = Reasoning -> thoughts
                             [] x = Message   -> texts
                             [] OTHER         -> arguments])

\* The finish reason ends the message, the reasoning and the call.
Finish ==
  /\ Translated({})
  /\ LET c == MessageDone(Started)
         d == IF reasoning THEN ItemDone(c, Reasoning) ELSE c
         e == IF callId # NoCall /\ ~callDone THEN ItemDone(d, callId) ELSE d
     IN  client' = Completed(e, Collected)
  /\ CloseMessage /\ callDone' = (callDone \/ callId # NoCall)
  /\ UNCHANGED <<reasoning, texts, thoughts, callId, anyCall, arguments, asked>>

Next ==
  \/ Content \/ Thought
  \/ (\E id \in Calls \cup {NoCall}, bare \in BOOLEAN : ToolCall(id, bare))
  \/ Finish

Spec == Init /\ [][Next]_vars

-----------------------------------------------------------------------------
(* Property. *)

\* "Only emit item.added once per tool call and preserve call_id across chunks": the client
\* can place every event, gets the end of every item and every call that the provider asks
\* for, and the completed response says what was streamed
\* (ConvertOpenAIChatCompletionsResponseToOpenAIResponses).  Excepted are chunks after the
\* finish reason, content that goes on after a call, pieces of a call before its id, and
\* parallel calls: all calls of the choice share the id of the first one.
AnswerWellFormed ==
  excuses = {} => /\ ~client.broken
                  /\ \A id \in asked : client.output[id] > 0

=============================================================================
