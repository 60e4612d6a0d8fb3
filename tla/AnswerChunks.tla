---------------------------- MODULE AnswerChunks ----------------------------
(***************************************************************************)
(* A streamed answer as clients of chat completions and of Gemini's API read   *)
(* it: chunks with pieces of texts and thoughts, with images, with whole calls *)
(* and at the end with a finish reason.  A client puts the pieces one after   *)
(* the other, tells the calls apart by their index, and stops to read at the  *)
(* finish reason, of which the last one counts.                              *)
(***************************************************************************)
EXTENDS Naturals, FiniteSets

CONSTANT Call  \* the calls of an answer

Piece == {"text", "thought", "image"}
Reason == {"stop", "length", "tool_calls"}
Unknown == "unknown"  \* a reason that the client does not know

\* What was said: how many pieces, and of every call 0 for nothing, or 1 and one more for
\* every piece of its arguments.
NoPieces == [k \in Piece |-> 0]
NoCalls == [x \in Call |-> 0]

\* What the client has seen: the pieces, the calls, the indexes of these, the finish reason,
\* and whether something came that it cannot place.
Reader == [texts : [Piece -> Nat], calls : [Call -> Nat], indexes : SUBSET Nat,
           finish : Reason \cup {"none", Unknown}, broken : BOOLEAN]

NewReader == [texts |-> NoPieces, calls |-> NoCalls, indexes |-> {}, finish |-> "none",
              broken |-> FALSE]

\* A piece of kind k.
Read(c, k) ==
  [c EXCEPT !.texts[k] = @ + 1, !.broken = @ \/ c.finish # "none"]

\* Call x with so many pieces of arguments, under index i.
ReadCallAt(c, i, x, arguments) ==
  [c EXCEPT !.calls[x] = 1 + arguments, !.indexes = @ \cup {i},
            !.broken = @ \/ c.finish # "none" \/ c.calls[x] > 0 \/ i \in c.indexes]

\* Gemini's calls have no index, they are told apart by their order.
ReadCall(c, x, arguments) == ReadCallAt(c, Cardinality(c.indexes), x, arguments)

ReadFinish(c, reason) == [c EXCEPT !.finish = reason]

\* The client has all pieces and calls, and nothing else.
Whole(c, texts, calls) == c.texts = texts /\ c.calls = calls

=============================================================================
