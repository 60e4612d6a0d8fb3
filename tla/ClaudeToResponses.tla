------------------------- MODULE ClaudeToResponses -------------------------
(***************************************************************************)
(* Streamed answers of Claude as a client of the Responses API gets them      *)
(* (ConvertClaudeResponseToOpenAIResponses).  An action is an event of         *)
(* Claude's stream, in which blocks follow each other under increasing        *)
(* indexes.                                                                  *)
(***************************************************************************)
EXTENDS ResponsesEvents

CONSTANTS MaxBlocks,  \* bound: blocks of an answer
          MaxPieces   \* bound: deltas of a block

\* All texts go to one message; the ids of the others are made of their block.
Message == 0
Blocks == 1..MaxBlocks

ClaudeParameters ==
  Item = Blocks \cup {Message} /\ MaxBlocks \in Nat \ {0} /\ MaxPieces \in Nat \ {0}

Block == {"text", "tool_use", "thinking", "other"}

VARIABLES client,       \* what the client has seen
          source,       \* the message of Claude: "none", "begun", "over"
          at,           \* the number of its blocks, the last one is at hand
          block,        \* the kind of the block at hand, "none" between blocks
          inText,       \* InTextBlock
          inFunc,       \* InFuncBlock
          thinking,     \* ReasoningActive, and with it ReasoningPartAdded
          reasoningId,  \* ReasoningItemID, 0 if it is empty
          message,      \* CurrentMsgID is set
          called,       \* the calls in FuncArgsBuf
          buffers,      \* TextBuf, ReasoningBuf, FuncArgsBuf: the pieces in each
          excuses       \* history: what the translator has no place for

vars == <<client, source, at, block, inText, inFunc, thinking, reasoningId, message, called,
          buffers, excuses>>

TypeOK ==
  /\ client \in Reader /\ source \in {"none", "begun", "over"} /\ at \in 0..MaxBlocks
  /\ block \in Block \cup {"none"} /\ {inText, inFunc, thinking, message} \subseteq BOOLEAN
  /\ reasoningId \in 0..MaxBlocks /\ called \subseteq Blocks /\ buffers \in [Item -> Nat]
  /\ excuses \subseteq {"texts", "thoughts", "silent"}

Init ==
  /\ client = NewReader /\ source = "none" /\ at = 0 /\ block = "none"
  /\ inText = FALSE /\ inFunc = FALSE /\ thinking = FALSE /\ reasoningId = 0
  /\ message = FALSE /\ called = {} /\ buffers = [x \in Item |-> 0] /\ excuses = {}

-----------------------------------------------------------------------------
MessageStart ==
  /\ source = "none" /\ source' = "begun"
  /\ client' = Created(client)
  /\ UNCHANGED <<at, block, inText, inFunc, thinking, reasoningId, message, called, buffers,
                 excuses>>

\* A block that begins: another text takes the id of the first one, another thought takes
\* the place of the first one.
BlockStart(k) ==
  /\ source = "begun" /\ block = "none" /\ at < MaxBlocks
  /\ at' = at + 1 /\ block' = k
  /\ client' = CASE k = "text"                    -> ItemAdded(client, Message)
                 [] k \in {"tool_use", "thinking"} -> ItemAdded(client, at + 1)
                 [] k = "other"                   -> client
  /\ inText' = (inText \/ k = "text") /\ message' = (message \/ k = "text")
  /\ inFunc' = (inFunc \/ k = "tool_use")
  /\ called' = IF k = "tool_use" THEN called \cup {at + 1} ELSE called
  /\ thinking' = (thinking \/ k = "thinking")
  /\ reasoningId' = IF k = "thinking" THEN at + 1 ELSE reasoningId
  /\ excuses' = excuses
                  \cup (IF k = "text" /\ message THEN {"texts"} ELSE {})
                  \cup (IF k = "thinking" /\ reasoningId # 0 THEN {"thoughts"} ELSE {})
  /\ UNCHANGED <<source, buffers>>

\* A piece of the block at hand.
BlockDelta ==
  /\ source = "begun" /\ block \in {"text", "tool_use", "thinking"}
  /\ LET x == IF block = "text" THEN Message ELSE at
     IN  IF block = "thinking" /\ ~thinking
         THEN UNCHANGED <<client, buffers>>
         ELSE /\ buffers[x] < MaxPieces
              /\ buffers' = [buffers EXCEPT ![x] = @ + 1]
              /\ client' = Delta(client, x)
  /\ UNCHANGED <<source, at, block, inText, inFunc, thinking, reasoningId, message, called,
                 excuses>>

\* The end of a block goes by what the translator takes to be open.
BlockStop ==
  /\ source = "begun" /\ block # "none" /\ block' = "none"
  /\ IF inText
     THEN client' = ItemDone(client, Message) /\ inText' = FALSE /\ UNCHANGED <<inFunc, thinking>>
     ELSE IF inFunc
     THEN client' = ItemDone(client, at) /\ inFunc' = FALSE /\ UNCHANGED <<inText, thinking>>
     ELSE IF thinking
     THEN client' = ItemDone(client, reasoningId) /\ thinking' = FALSE
          /\ UNCHANGED <<inText, inFunc>>
     ELSE UNCHANGED <<client, inText, inFunc, thinking>>
  /\ excuses' = IF block = "thinking" /\ buffers[at] = 0 THEN excuses \cup {"silent"} ELSE excuses
  /\ UNCHANGED <<source, at, reasoningId, message, called, buffers>>

\* What response.completed contains: of the thoughts the last one, if it says something.
Collected ==
  Contents(called
             \cup (IF thinking \/ (reasoningId # 0 /\ buffers[reasoningId] > 0)
                   THEN {reasoningId} ELSE {})
             \cup (IF message THEN {Message} ELSE {}),
           buffers)

MessageStop ==
  /\ source = "begun" /\ block = "none" /\ source' = "over"
  /\ client' = Completed(client, Collected)
  /\ UNCHANGED <<at, block, inText, inFunc, thinking, reasoningId, message, called, buffers,
                 excuses>>

Next ==
  \/ MessageStart \/ (\E k \in Block : BlockStart(k)) \/ BlockDelta \/ BlockStop \/ MessageStop

Spec == Init /\ [][Next]_vars

-----------------------------------------------------------------------------
(* Property. *)

\* "Aggregate text for response.output": the client can place every event, gets the end of
\* every item, and the completed response says what was streamed
\* (ConvertClaudeResponseToOpenAIResponses).  Excepted are answers of more than one text or
\* thought, for which there is one id and one buffer only, and thoughts without a word, which
\* are announced and not in the output.
AnswerWellFormed ==
  excuses = {} => ~client.broken /\ (source = "over" => client.stage = "completed")

=============================================================================
