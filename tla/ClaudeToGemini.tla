--------------------------- MODULE ClaudeToGemini ---------------------------
(***************************************************************************)
(* Streamed answers of Claude as a client of Gemini's API gets them            *)
(* (ConvertClaudeResponseToGemini): the events of ClaudeToChat, translated by  *)
(* another translator.                                                       *)
(***************************************************************************)
EXTENDS AnswerChunks

CONSTANTS MaxBlocks,  \* bound: blocks of an answer
          MaxPieces   \* bound: deltas of a block

ClaudeGeminiParameters ==
  0..(MaxBlocks - 1) \subseteq Call /\ MaxBlocks \in Nat \ {0} /\ MaxPieces \in Nat

Block == {"text", "thinking", "tool_use"}
Stop == {"end_turn", "tool_use", "max_tokens"}

VARIABLES client,       \* what the client has seen
          source,       \* the message of Claude: "none", "begun", "told", "over"
          at,           \* the index of the block at hand, or of the next one
          block,        \* its kind, "none" between blocks
          pieces,       \* its deltas
          toolUseNames, \* the indexes in ToolUseNames
          toolUseArgs,  \* ToolUseArgs: the pieces kept of each call
          texts, calls, \* history: what Claude said
          reason,       \* history: why it stopped
          excuses       \* history: what the translator has no place for

vars == <<client, source, at, block, pieces, toolUseNames, toolUseArgs, texts, calls, reason,
          excuses>>

TypeOK ==
  /\ client \in Reader /\ source \in {"none", "begun", "told", "over"} /\ at \in 0..MaxBlocks
  /\ block \in Block \cup {"none"} /\ pieces \in 0..MaxPieces
  /\ toolUseNames \subseteq Call /\ toolUseArgs \in [Call -> Nat]
  /\ texts \in [Piece -> Nat] /\ calls \in [Call -> Nat] /\ reason \in Stop \cup {"none", "error"}
  /\ excuses \subseteq {"after", "length"}

Init ==
  /\ client = NewReader /\ source = "none" /\ at = 0 /\ block = "none" /\ pieces = 0
  /\ toolUseNames = {} /\ toolUseArgs = NoCalls
  /\ texts = NoPieces /\ calls = NoCalls /\ reason = "none" /\ excuses = {}

-----------------------------------------------------------------------------
MessageStart ==
  /\ source = "none" /\ source' = "begun"
  /\ UNCHANGED <<client, at, block, pieces, toolUseNames, toolUseArgs, texts, calls, reason,
                 excuses>>

\* content_block_start keeps the name of a tool.
BlockStart(k) ==
  /\ source = "begun" /\ block = "none" /\ at < MaxBlocks
  /\ block' = k /\ pieces' = 0
  /\ IF k = "tool_use"
     THEN toolUseNames' = toolUseNames \cup {at} /\ calls' = [calls EXCEPT ![at] = 1]
     ELSE UNCHANGED <<toolUseNames, calls>>
  /\ excuses' = IF calls # NoCalls THEN excuses \cup {"after"} ELSE excuses
  /\ UNCHANGED <<client, source, at, toolUseArgs, texts, reason>>

PieceOf(k) == IF k = "thinking" THEN "thought" ELSE "text"

BlockDelta ==
  /\ block # "none" /\ pieces < MaxPieces /\ pieces' = pieces + 1
  /\ IF block = "tool_use"
     THEN /\ toolUseArgs' = [toolUseArgs EXCEPT ![at] = @ + 1]
          /\ calls' = [calls EXCEPT ![at] = @ + 1]
          /\ UNCHANGED <<client, texts>>
     ELSE /\ client' = Read(client, PieceOf(block))
          /\ texts' = [texts EXCEPT ![PieceOf(block)] = @ + 1]
          /\ UNCHANGED <<toolUseArgs, calls>>
  /\ UNCHANGED <<source, at, block, toolUseNames, reason, excuses>>

\* content_block_stop: a call, if a name or arguments are kept, with a finish reason.
BlockStop ==
  /\ block # "none" /\ block' = "none" /\ at' = at + 1
  /\ IF at \in toolUseNames \/ toolUseArgs[at] > 0
     THEN /\ client' = ReadFinish(ReadCall(client, at, toolUseArgs[at]), "stop")
          /\ toolUseNames' = toolUseNames \ {at} /\ toolUseArgs' = [toolUseArgs EXCEPT ![at] = 0]
     ELSE UNCHANGED <<client, toolUseNames, toolUseArgs>>
  /\ UNCHANGED <<source, pieces, texts, calls, reason, excuses>>

\* message_delta: the finish reason that goes by the stop reason is then set to STOP.
MessageDelta(s) ==
  /\ source = "begun" /\ block = "none" /\ source' = "told" /\ reason' = s
  /\ s = "tool_use" => calls # NoCalls
  /\ client' = ReadFinish(client, "stop")
  /\ excuses' = IF s = "max_tokens" THEN excuses \cup {"length"} ELSE excuses
  /\ UNCHANGED <<at, block, pieces, toolUseNames, toolUseArgs, texts, calls>>

MessageStop ==
  /\ source = "told" /\ source' = "over"
  /\ UNCHANGED <<client, at, block, pieces, toolUseNames, toolUseArgs, texts, calls, reason,
                 excuses>>

\* error: an error in place of everything else.
Error ==
  /\ source \in {"none", "begun"} /\ source' = "over" /\ reason' = "error"
  /\ block' = "none"
  /\ UNCHANGED <<client, at, pieces, toolUseNames, toolUseArgs, texts, calls, excuses>>

Next ==
  \/ MessageStart \/ (\E k \in Block : BlockStart(k)) \/ BlockDelta \/ BlockStop
  \/ (\E s \in Stop : MessageDelta(s)) \/ MessageStop \/ Error

Spec == Init /\ [][Next]_vars

-----------------------------------------------------------------------------
(* Property. *)

\* "Properly assemble multi-part tool calls": when Claude's message is over the client has
\* all of it, every call whole and once, and the reason why it ended, and it can place every
\* chunk (ConvertClaudeResponseToGemini).  Excepted are blocks after a call, as each call comes
\* with a finish reason, and answers that were too long, which are told as ended.
AnswerWellFormed ==
  /\ "after" \notin excuses => ~client.broken
  /\ source = "over" /\ reason # "error" =>
       /\ Whole(client, texts, calls)
       /\ "length" \notin excuses =>
            client.finish = IF reason = "max_tokens" THEN "length" ELSE "stop"

=============================================================================
