-------------------------- MODULE ResponsesEvents --------------------------
(***************************************************************************)
(* The events of a streamed answer of OpenAI's Responses API, as a client     *)
(* reads them: response.created, for every output item its announcement, its *)
(* deltas and its end, then response.completed with all of the output once   *)
(* more.  This client tells items apart by their id, and takes a reasoning to  *)
(* be at its end when its summary is.                                        *)
(***************************************************************************)
EXTENDS Naturals

CONSTANT Item  \* ids of output items

ItemKind == {"reasoning", "message", "call"}

\* An output is what it contains of every item: 0 for nothing, 1 for the item itself, and
\* one more for every delta of it.
Output == [Item -> Nat]
Nothing == [x \in Item |-> 0]
Contents(items, deltas) == [x \in Item |-> IF x \in items THEN 1 + deltas[x] ELSE 0]

\* What the client has seen: the stage of the response, the items with their deltas, the
\* items at their end, and whether an event came that it cannot place.
Reader == [stage : {"none", "created", "completed"}, output : Output, finished : SUBSET Item,
           broken : BOOLEAN]

NewReader == [stage |-> "none", output |-> Nothing, finished |-> {}, broken |-> FALSE]

Open(c, x) == c.stage = "created" /\ c.output[x] > 0 /\ x \notin c.finished

\* response.created and response.in_progress.
Created(c) == [c EXCEPT !.stage = "created", !.broken = @ \/ c.stage # "none"]

\* response.output_item.added: an id is used once.
ItemAdded(c, x) ==
  [c EXCEPT !.output[x] = 1, !.broken = @ \/ c.stage # "created" \/ c.output[x] > 0]

\* A delta of a text, a summary or the arguments of a call.
Delta(c, x) ==
  [c EXCEPT !.output[x] = @ + 1, !.broken = @ \/ ~Open(c, x)]

\* response.output_item.done, and response.reasoning_summary_part.done of a reasoning.
ItemDone(c, x) == [c EXCEPT !.finished = @ \cup {x}, !.broken = @ \/ ~Open(c, x)]

\* response.completed: every item is at its end, and the output is what was streamed.
Completed(c, output) ==
  [c EXCEPT !.stage = "completed",
            !.broken = \/ @ \/ c.stage # "created" \/ output # c.output
                       \/ \E x \in Item : Open(c, x)]

=============================================================================
