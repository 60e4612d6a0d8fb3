---------------------------- MODULE ClaudeEvents ----------------------------
(***************************************************************************)
(* The events of a streamed answer in the format of Anthropic's API, as a    *)
(* client reads them: message_start, for every content block a start, its    *)
(* deltas and a stop, then message_delta and message_stop.  A client tells   *)
(* blocks apart by their index and by the kind they were started with.      *)
(***************************************************************************)
EXTENDS Naturals

Kind == {"text", "thinking", "tool"}
Stage == {"none", "begun", "closing", "over"}

\* What the client has seen: the stage of the message, the blocks that are open and
\* the indexes used so far, and whether an event came that it cannot place.
Client == [stage : Stage, open : SUBSET (Nat \X Kind), used : SUBSET Nat, broken : BOOLEAN]

NewClient == [stage |-> "none", open |-> {}, used |-> {}, broken |-> FALSE]

MessageStart(c) ==
  [c EXCEPT !.stage = "begun", !.broken = @ \/ c.stage # "none"]

\* content_block_start: an index is used once.
BlockStart(c, i, k) ==
  [c EXCEPT !.open = @ \cup {<<i, k>>}, !.used = @ \cup {i},
            !.broken = @ \/ c.stage # "begun" \/ i \in c.used]

\* content_block_delta of a kind goes to an open block of that kind.
BlockDelta(c, i, k) ==
  [c EXCEPT !.broken = @ \/ c.stage # "begun" \/ <<i, k>> \notin c.open]

\* content_block_stop.
BlockStop(c, i) ==
  [c EXCEPT !.open = {b \in @ : b[1] # i},
            !.broken = @ \/ c.stage # "begun" \/ \A b \in c.open : b[1] # i]

\* message_delta: the stop reason, once all blocks are stopped.
MessageDelta(c) ==
  [c EXCEPT !.stage = "closing", !.broken = @ \/ c.stage # "begun" \/ c.open # {}]

MessageStop(c) ==
  [c EXCEPT !.stage = "over", !.broken = @ \/ c.stage # "closing"]

=============================================================================
