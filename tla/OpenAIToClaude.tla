--------------------------- MODULE OpenAIToClaude ---------------------------
(***************************************************************************)
(* Streamed answers of OpenAI's chat completions as a Claude client gets      *)
(* them (ConvertOpenAIResponseToClaude).  Thinking and text are blocks that   *)
(* follow each other; every tool call is a block that stays open until the    *)
(* finish reason comes, when its arguments are sent as one.  What one chunk   *)
(* carries of reasoning, content, tool calls, finish reason and usage is       *)
(* translated in this order, each in an action of its own.                    *)
(***************************************************************************)
EXTENDS ClaudeEvents

CONSTANTS ToolIndex,  \* indexes of the tool calls of an answer
          NoBlock,    \* no block
          MaxBlocks   \* bound: blocks of an answer

OpenAIParameters == NoBlock \notin Nat /\ MaxBlocks \in Nat \ {0}

VARIABLES client,    \* what the client has seen
          started,   \* MessageStarted
          thinking,  \* ThinkingContentBlockIndex while the block is open
          text,      \* TextContentBlockIndex while the block is open
          tools,     \* ToolCallBlockIndexes
          called,    \* the indexes in ToolCallsAccumulator
          free,      \* NextContentBlockIndex
          finish,    \* FinishReason is known
          stopped,   \* ContentBlocksStopped
          deltaSent, \* MessageDeltaSent
          stopSent,  \* MessageStopSent
          done,      \* "[DONE]" has been translated
          excuses    \* history: what the provider did that the translator cannot tell

blocks == <<thinking, text, tools, called, free>>
vars == <<client, started, blocks, finish, stopped, deltaSent, stopSent, done, excuses>>

TypeOK ==
  /\ client \in Client
  /\ thinking \in Nat \cup {NoBlock} /\ text \in Nat \cup {NoBlock}
  /\ tools \in [ToolIndex -> Nat \cup {NoBlock}] /\ called \subseteq ToolIndex /\ free \in Nat
  /\ {started, finish, stopped, deltaSent, stopSent, done} \subseteq BOOLEAN
  /\ excuses \subseteq {"late", "renamed", "unnamed", "cut", "usageAgain"}

Init ==
  /\ client = NewClient /\ started = FALSE
  /\ thinking = NoBlock /\ text = NoBlock
  /\ tools = [i \in ToolIndex |-> NoBlock] /\ called = {} /\ free = 0
  /\ finish = FALSE /\ stopped = FALSE /\ deltaSent = FALSE /\ stopSent = FALSE
  /\ done = FALSE /\ excuses = {}

-----------------------------------------------------------------------------
(* Events. *)

\* The first chunk with a delta starts the message.
Opened == IF started THEN client ELSE MessageStart(client)

StopBlock(c, i) == IF i = NoBlock THEN c ELSE BlockStop(c, i)

\* Only the thinking is stopped.
ThinkingStopped(c) == StopBlock(c, thinking)

\* stopThinkingContentBlock and stopTextContentBlock.
BothStopped(c) == StopBlock(StopBlock(c, thinking), text)

\* The arguments and the stop of every call, in any order.
ToolsStopped(c) ==
  LET open == {tools[i] : i \in called}
  IN  [c EXCEPT !.open = {b \in @ : b[1] \notin open},
                !.broken = @ \/ \E n \in open : <<n, "tool">> \notin c.open]

\* A delta has been translated.
Translated(reasons) ==
  /\ ~done /\ started' = TRUE
  /\ excuses' = excuses \cup reasons \cup IF finish THEN {"late"} ELSE {}
  /\ UNCHANGED <<finish, stopped, deltaSent, stopSent, done>>

-----------------------------------------------------------------------------
(* Deltas. *)

Reasoning ==
  /\ Translated({})
  /\ text' = NoBlock
  /\ IF thinking = NoBlock
     THEN /\ free < MaxBlocks
          /\ thinking' = free /\ free' = free + 1
          /\ client' = BlockDelta(BlockStart(StopBlock(Opened, text), free, "thinking"),
                                  free, "thinking")
     ELSE /\ client' = BlockDelta(StopBlock(Opened, text), thinking, "thinking")
          /\ UNCHANGED <<thinking, free>>
  /\ UNCHANGED <<tools, called>>

Content ==
  /\ Translated({})
  /\ IF text = NoBlock
     THEN /\ free < MaxBlocks
          /\ text' = free /\ free' = free + 1 /\ thinking' = NoBlock
          /\ client' = BlockDelta(BlockStart(StopBlock(Opened, thinking), free, "text"),
                                  free, "text")
     ELSE /\ client' = BlockDelta(Opened, text, "text")
          /\ UNCHANGED <<text, thinking, free>>
  /\ UNCHANGED <<tools, called>>

\* toolContentBlockIndex: an index without a block gets the next one.
HasBlock(i) == tools[i] # NoBlock
BlockOf(i) == IF HasBlock(i) THEN tools[i] ELSE free
TakesBlock(i) ==
  /\ HasBlock(i) \/ free < MaxBlocks
  /\ tools' = [tools EXCEPT ![i] = BlockOf(i)]
  /\ free' = IF HasBlock(i) THEN free ELSE free + 1
  /\ called' = called \cup {i}

\* A piece of a tool call with its name, which is sent once.
NamedCall(i) ==
  /\ Translated(IF HasBlock(i) /\ BlockOf(i) \in client.used THEN {"renamed"} ELSE {})
  /\ TakesBlock(i)
  /\ client' = BlockStart(BothStopped(Opened), BlockOf(i), "tool")
  /\ thinking' = NoBlock /\ text' = NoBlock

\* A piece of its arguments.
CallGoesOn(i) ==
  /\ Translated({}) /\ TakesBlock(i)
  /\ client' = Opened
  /\ UNCHANGED <<thinking, text>>

-----------------------------------------------------------------------------
(* The end. *)

\* Calls whose name never came.
Unnamed == \E i \in called : tools[i] \notin client.used

\* All blocks are stopped.
AllStopped(c) == IF stopped THEN BothStopped(c) ELSE ToolsStopped(BothStopped(c))
StopAll ==
  /\ thinking' = NoBlock /\ text' = NoBlock
  /\ tools' = IF stopped THEN tools
              ELSE [i \in ToolIndex |-> IF i \in called THEN NoBlock ELSE tools[i]]
  /\ stopped' = TRUE
  /\ UNCHANGED <<called, free>>
Unnameable == IF ~stopped /\ Unnamed THEN {"unnamed"} ELSE {}

Finish ==
  /\ ~done /\ started' = TRUE /\ finish' = TRUE
  /\ client' = AllStopped(Opened) /\ StopAll
  /\ excuses' = excuses \cup Unnameable
  /\ UNCHANGED <<deltaSent, stopSent, done>>

\* emitMessageStopIfNeeded.
Ended(c) == IF stopSent THEN c ELSE MessageStop(c)

\* Usage counts once the finish reason is known; it is sent whenever it comes.
UsageComes ==
  /\ ~done /\ finish
  /\ client' = Ended(MessageDelta(client))
  /\ deltaSent' = TRUE /\ stopSent' = TRUE
  /\ excuses' = IF deltaSent THEN excuses \cup {"usageAgain"} ELSE excuses
  /\ UNCHANGED <<started, blocks, finish, stopped, done>>

\* "[DONE]".
Done ==
  /\ ~done /\ done' = TRUE
  /\ LET c == AllStopped(client)
     IN  client' = Ended(IF finish /\ ~deltaSent THEN MessageDelta(c) ELSE c)
  /\ StopAll
  /\ deltaSent' = (deltaSent \/ finish) /\ stopSent' = TRUE
  /\ excuses' = excuses \cup Unnameable \cup IF finish THEN {} ELSE {"cut"}
  /\ UNCHANGED <<started, finish>>

Next ==
  \/ Reasoning \/ Content
  \/ \E i \in ToolIndex : NamedCall(i) \/ CallGoesOn(i)
  \/ Finish \/ UsageComes \/ Done

Spec == Init /\ [][Next]_vars

-----------------------------------------------------------------------------
(* Property. *)

\* Whatever an answer consists of, the client can place every event and the answer is
\* ended (ConvertOpenAIResponseToClaude, "Ensure all content blocks are stopped before
\* final events").  Five things are excepted: deltas after the finish reason, a call
\* named twice, a call without a name, usage that comes twice after the finish reason,
\* and "[DONE]" without one.
AnswerWellFormed ==
  excuses = {} => ~client.broken /\ (done => client.stage = "over")

=============================================================================
