---------------------------- MODULE ClaudeToChat ----------------------------
(***************************************************************************)
(* Streamed answers of Claude as a client of chat completions gets them       *)
(* (ConvertClaudeResponseToOpenAI).  An action is an event of Claude's stream;  *)
(* a call is kept until its block is at its end.                             *)
(***************************************************************************)
EXTENDS AnswerChunks

CONSTANTS MaxBlocks,  \* bound: blocks of an answer
          MaxPieces   \* bound: deltas of a block

ClaudeChatParameters ==
  0..(MaxBlocks - 1) \subseteq Call /\ MaxBlocks \in Nat \ {0} /\ MaxPieces \in Nat

Block == {"text", "thinking", "tool_use"}
Stop == {"end_turn", "tool_use", "max_tokens"}

VARIABLES client,       \* what the client has seen
          source,       \* the message of Claude: "none", "begun", "told", "over"
          at,           \* the index of the block at hand, or of the next one
          block,        \* its kind, "none" between blocks
          pieces,       \* its deltas
          accumulator,  \* ToolCallsAccumulator: 1 and the pieces of each call that is kept
          texts, calls, \* history: what Claude said
          reason        \* history: why it stopped

vars == <<client, source, at, block, pieces, accumulator, texts, calls, reason>>

TypeOK ==
  /\ client \in Reader /\ source \in {"none", "begun", "told", "over"} /\ at \in 0..MaxBlocks
  /\ block \in Block \cup {"none"} /\ pieces \in 0..MaxPieces
  /\ accumulator \in [Call -> Nat] /\ texts \in [Piece -> Nat] /\ calls \in [Call -> Nat]
  /\ reason \in Stop \cup {"none", "error"}

Init ==
  /\ client = NewReader /\ source = "none" /\ at = 0 /\ block = "none" /\ pieces = 0
  /\ accumulator = NoCalls /\ texts = NoPieces /\ calls = NoCalls /\ reason = "none"

-----------------------------------------------------------------------------
\* message_start: a chunk with the role.
MessageStart ==
  /\ source = "none" /\ source' = "begun"
  /\ UNCHANGED <<client, at, block, pieces, accumulator, texts, calls, reason>>

\* content_block_start tells the client nothing.
BlockStart(k) ==
  /\ source = "begun" /\ block = "none" /\ at < MaxBlocks
  /\ block' = k /\ pieces' = 0
  /\ IF k = "tool_use"
     THEN accumulator' = [accumulator EXCEPT ![at] = 1] /\ calls' = [calls EXCEPT ![at] = 1]
     ELSE UNCHANGED <<accumulator, calls>>
  /\ UNCHANGED <<client, source, at, texts, reason>>

PieceOf(k) == IF k = "thinking" THEN "thought" ELSE "text"

\* content_block_delta: texts and thoughts go on to the client, arguments are kept.
BlockDelta ==
  /\ block # "none" /\ pieces < MaxPieces /\ pieces' = pieces + 1
  /\ IF block = "tool_use"
     THEN /\ accumulator' = [accumulator EXCEPT ![at] = @ + 1]
          /\ calls' = [calls EXCEPT ![at] = @ + 1]
          /\ UNCHANGED <<client, texts>>
     ELSE /\ client' = Read(client, PieceOf(block))
          /\ texts' = [texts EXCEPT ![PieceOf(block)] = @ + 1]
          /\ UNCHANGED <<accumulator, calls>>
  /\ UNCHANGED <<source, at, block, reason>>

\* content_block_stop: the call that is kept for this index, under the index of its block.
BlockStop ==
  /\ block # "none" /\ block' = "none" /\ at' = at + 1
  /\ IF accumulator[at] > 0
     THEN /\ client' = ReadCallAt(client, at, at, accumulator[at] - 1)
          /\ accumulator' = [accumulator EXCEPT ![at] = 0]
     ELSE UNCHANGED <<client, accumulator>>
  /\ UNCHANGED <<source, pieces, texts, calls, reason>>

\* mapAnthropicStopReasonToOpenAI.
ReasonOf(s) ==
  CASE s = "end_turn" -> "stop" [] s = "tool_use" -> "tool_calls" [] s = "max_tokens" -> "length"

\* message_delta: Claude stops to have its tools used, or for another reason.
MessageDelta(s) ==
  /\ source = "begun" /\ block = "none" /\ source' = "told" /\ reason' = s
  /\ s = "tool_use" => calls # NoCalls
  /\ client' = ReadFinish(client, ReasonOf(s))
  /\ UNCHANGED <<at, block, pieces, accumulator, texts, calls>>

MessageStop ==
  /\ source = "told" /\ source' = "over"
  /\ UNCHANGED <<client, at, block, pieces, accumulator, texts, calls, reason>>

\* error: an error in place of everything else.
Error ==
  /\ source \in {"none", "begun"} /\ source' = "over" /\ reason' = "error"
  /\ block' = "none"
  /\ UNCHANGED <<client, at, pieces, accumulator, texts, calls>>

Next ==
  \/ MessageStart \/ (\E k \in Block : BlockStart(k)) \/ BlockDelta \/ BlockStop
  \/ (\E s \in Stop : MessageDelta(s)) \/ MessageStop \/ Error

Spec == Init /\ [][Next]_vars

-----------------------------------------------------------------------------
(* Property. *)

\* "End of content block - output complete tool call if it's a tool_use block": the client
\* can place every chunk, a call comes whole and once, and when Claude's message is over the
\* client has all of it and the reason why it ended (ConvertClaudeResponseToOpenAI).
AnswerWellFormed ==
  /\ ~client.broken
  /\ source = "over" /\ reason # "error" =>
       Whole(client, texts, calls) /\ client.finish = ReasonOf(reason)

=============================================================================
