------------------------- MODULE GeminiToResponses -------------------------
(***************************************************************************)
(* Streamed answers of Gemini, and by it of Gemini CLI and Antigravity, as a  *)
(* client of the Responses API gets them                                     *)
(* (ConvertGeminiResponseToOpenAIResponses).  Every part of a chunk is an      *)
(* action, as is its finish reason, which follows the parts of its chunk.      *)
(***************************************************************************)
EXTENDS ResponsesEvents

CONSTANTS Reasoning, Message,  \* the one reasoning and the one message of an answer
          Calls,               \* its function calls
          MaxPieces            \* bound: texts and thoughts

GeminiParameters ==
  /\ {Reasoning, Message} \cup Calls = Item /\ Reasoning # Message
  /\ {Reasoning, Message} \cap Calls = {} /\ MaxPieces \in Nat \ {0}

VARIABLES client,     \* what the client has seen
          started,    \* Started
          reasoning,  \* ReasoningOpened and ReasoningClosed
          message,    \* MsgOpened
          called,     \* the calls in FuncArgsBuf
          buffers,    \* TextBuf, ReasoningBuf, FuncArgsBuf: the pieces of each item
          done,       \* "[DONE]" has been translated
          excuses     \* history: what the provider did that the translator cannot tell

vars == <<client, started, reasoning, message, called, buffers, done, excuses>>

TypeOK ==
  /\ client \in Reader /\ {started, message, done} \subseteq BOOLEAN
  /\ reasoning \in {"none", "open", "closed"} /\ called \subseteq Calls
  /\ buffers \in [Item -> Nat] /\ excuses \subseteq {"late", "cut"}

Init ==
  /\ client = NewReader /\ started = FALSE /\ reasoning = "none" /\ message = FALSE
  /\ called = {} /\ buffers = [x \in Item |-> 0] /\ done = FALSE /\ excuses = {}

-----------------------------------------------------------------------------
\* The first chunk creates the response.
Started == IF started THEN client ELSE Created(client)

Translated ==
  /\ ~done /\ started' = TRUE
  /\ excuses' = excuses \cup IF client.stage = "completed" THEN {"late"} ELSE {}
  /\ UNCHANGED done

\* Without the end of the reasoning.
ReasoningLeft(c) == c

\* finalizeReasoning.
ReasoningDone(c) == IF reasoning = "open" THEN ItemDone(c, Reasoning) ELSE c
CloseReasoning == reasoning' = IF reasoning = "open" THEN "closed" ELSE reasoning

Announced(c, known, x) == IF known THEN c ELSE ItemAdded(c, x)

\* A piece of item x goes into its buffer.
Buffer(x) ==
  /\ buffers[x] < MaxPieces
  /\ buffers' = [buffers EXCEPT ![x] = @ + 1]

\* A thought, with a text or without one.  Those that come after the reasoning are ignored.
Thought(empty) ==
  /\ Translated
  /\ IF reasoning = "closed"
     THEN client' = Started /\ UNCHANGED <<reasoning, buffers>>
     ELSE LET c == Announced(Started, reasoning = "open", Reasoning)
          IN  /\ reasoning' = "open"
              /\ IF empty THEN client' = c /\ UNCHANGED buffers
                 ELSE client' = Delta(c, Reasoning) /\ Buffer(Reasoning)
  /\ UNCHANGED <<message, called>>

Text ==
  /\ Translated
  /\ client' = Delta(Announced(ReasoningDone(Started), message, Message), Message)
  /\ CloseReasoning /\ message' = TRUE /\ Buffer(Message)
  /\ UNCHANGED called

\* A function call, each of them an item of its own, with its arguments or without.
FunctionCall(x, bare) ==
  /\ Translated /\ x \notin called
  /\ LET c == ItemAdded(ReasoningDone(Started), x)
     IN  IF bare THEN client' = c /\ UNCHANGED buffers
         ELSE client' = Delta(c, x) /\ Buffer(x)
  /\ CloseReasoning /\ called' = called \cup {x}
  /\ UNCHANGED message

\* The items that response.completed contains, with what is in the buffers.
Collected ==
  Contents(called \cup (IF reasoning # "none" THEN {Reasoning} ELSE {})
                  \cup (IF message THEN {Message} ELSE {}),
           buffers)

\* The ends of several items, in any order.
ItemsDone(c, items) ==
  [c EXCEPT !.finished = @ \cup items, !.broken = @ \/ \E x \in items : ~Open(c, x)]

\* A finish reason ends everything.
Finish ==
  /\ Translated
  /\ LET c == ReasoningDone(Started)
         open == called \cup IF message THEN {Message} ELSE {}
     IN  client' = Completed(ItemsDone(c, open), Collected)
  /\ CloseReasoning
  /\ UNCHANGED <<message, called, buffers>>

\* "[DONE]" has neither parts nor a finish reason.
Done ==
  /\ ~done /\ done' = TRUE /\ started' = TRUE /\ client' = Started
  /\ excuses' = excuses \cup IF client.stage = "completed" THEN {} ELSE {"cut"}
  /\ UNCHANGED <<reasoning, message, called, buffers>>

Next ==
  \/ (\E empty \in BOOLEAN : Thought(empty)) \/ Text
  \/ (\E x \in Calls, bare \in BOOLEAN : FunctionCall(x, bare))
  \/ Finish \/ Done

Spec == Init /\ [][Next]_vars

-----------------------------------------------------------------------------
(* Property. *)

\* "Finalize reasoning summary events in correct order", "exactly once": whatever the parts
\* and however they are cut into chunks, the client can place every event, gets the end of
\* every item, and the completed response says what was streamed
\* (ConvertGeminiResponseToOpenAIResponses).  Excepted are parts after the finish reason and
\* a stream that is cut off, of which the client gets no end.
AnswerWellFormed ==
  excuses = {} => ~client.broken /\ (done => client.stage = "completed")

=============================================================================
