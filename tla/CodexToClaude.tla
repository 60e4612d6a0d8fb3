--------------------------- MODULE CodexToClaude ---------------------------
(***************************************************************************)
(* Streamed answers of Codex, in the format of the Responses API, as a client *)
(* of Claude's API gets them (ConvertCodexResponseToClaude).  An action is an  *)
(* event of the provider, whose output items follow each other; reasonings     *)
(* and messages consist of parts, calls do not.  The translator keeps nothing  *)
(* but whether a call came: the index of an item is that of its block.         *)
(***************************************************************************)
EXTENDS ClaudeEvents

CONSTANT MaxItems  \* bound: output items, and parts of each

CodexParameters == MaxItems \in Nat \ {0}

Items == {"reasoning", "message", "call"}

VARIABLES client,       \* what the client has seen
          source,       \* the response: "none", "begun", "over"
          at,           \* the output_index of the item at hand
          item,         \* its kind, "none" between items
          parts,        \* its parts so far, the last one is "open" or not
          open,
          hasToolCall,  \* the translator's state
          stopReason,   \* what message_delta told the client
          called,       \* history: the provider asked for a call
          excuses       \* history: what the translator has no place for

vars == <<client, source, at, item, parts, open, hasToolCall, stopReason, called, excuses>>

TypeOK ==
  /\ client \in Client /\ source \in {"none", "begun", "over"} /\ at \in 0..MaxItems
  /\ item \in Items \cup {"none"} /\ parts \in 0..MaxItems
  /\ {open, hasToolCall, called} \subseteq BOOLEAN
  /\ stopReason \in {"none", "tool_use", "end_turn"} /\ excuses \subseteq {"parts", "failed"}

Init ==
  /\ client = NewClient /\ source = "none" /\ at = 0 /\ item = "none" /\ parts = 0
  /\ open = FALSE /\ hasToolCall = FALSE /\ stopReason = "none" /\ called = FALSE
  /\ excuses = {}

-----------------------------------------------------------------------------
\* response.created.
ResponseCreated ==
  /\ source = "none" /\ source' = "begun" /\ client' = MessageStart(client)
  /\ UNCHANGED <<at, item, parts, open, hasToolCall, stopReason, called, excuses>>

\* response.output_item.added: of calls only, whose block begins with an empty delta.
ItemAdded(k) ==
  /\ source = "begun" /\ item = "none" /\ at < MaxItems
  /\ item' = k /\ parts' = 0 /\ called' = (called \/ k = "call")
  /\ IF k = "call"
     THEN client' = BlockDelta(BlockStart(client, at, "tool"), at, "tool") /\ hasToolCall' = TRUE
     ELSE UNCHANGED <<client, hasToolCall>>
  /\ UNCHANGED <<source, at, open, stopReason, excuses>>

BlockKind == CASE item = "reasoning" -> "thinking" [] item = "message" -> "text" [] OTHER -> "tool"

\* response.reasoning_summary_part.added and response.content_part.added.
PartAdded ==
  /\ item \in {"reasoning", "message"} /\ ~open /\ parts < MaxItems
  /\ open' = TRUE /\ parts' = parts + 1
  /\ client' = BlockStart(client, at, BlockKind)
  /\ excuses' = IF parts > 0 THEN excuses \cup {"parts"} ELSE excuses
  /\ UNCHANGED <<source, at, item, hasToolCall, stopReason, called>>

\* A delta of a summary, a text or arguments.
ItemDelta ==
  /\ open \/ item = "call"
  /\ client' = BlockDelta(client, at, BlockKind)
  /\ UNCHANGED <<source, at, item, parts, open, hasToolCall, stopReason, called, excuses>>

\* response.reasoning_summary_part.done and response.content_part.done.
PartDone ==
  /\ open /\ open' = FALSE /\ client' = BlockStop(client, at)
  /\ UNCHANGED <<source, at, item, parts, hasToolCall, stopReason, called, excuses>>

\* response.output_item.done: of calls only.
ItemDone ==
  /\ item # "none" /\ ~open /\ item' = "none" /\ at' = at + 1
  /\ client' = IF item = "call" THEN BlockStop(client, at) ELSE client
  /\ UNCHANGED <<source, parts, open, hasToolCall, stopReason, called, excuses>>

\* response.completed.
ResponseCompleted ==
  /\ source = "begun" /\ item = "none" /\ source' = "over"
  /\ client' = MessageStop(MessageDelta(client))
  /\ stopReason' = IF hasToolCall THEN "tool_use" ELSE "end_turn"
  /\ UNCHANGED <<at, item, parts, open, hasToolCall, called, excuses>>

\* response.failed and response.incomplete are not translated.
ResponseFailed ==
  /\ source = "begun" /\ source' = "over" /\ excuses' = excuses \cup {"failed"}
  /\ item' = "none" /\ open' = FALSE
  /\ UNCHANGED <<client, at, parts, hasToolCall, stopReason, called>>

Next ==
  \/ ResponseCreated \/ (\E k \in Items : ItemAdded(k)) \/ PartAdded \/ ItemDelta \/ PartDone
  \/ ItemDone \/ ResponseCompleted \/ ResponseFailed

Spec == Init /\ [][Next]_vars

-----------------------------------------------------------------------------
(* Property. *)

\* "It manages different response types and handles state transitions between content
\* blocks": the client can place every event, every block and the message come to an end, and
\* the stop reason tells whether a tool is called (ConvertCodexResponseToClaude).  Excepted
\* are items of several parts, whose blocks would share an index, and responses that fail.
AnswerWellFormed ==
  excuses = {} =>
    /\ ~client.broken
    /\ source = "over" => client.stage = "over" /\ (stopReason = "tool_use" <=> called)

=============================================================================
