--------------------------- MODULE OpenAIToGemini ---------------------------
(***************************************************************************)
(* Streamed chat completions as a client of Gemini's API gets them             *)
(* (ConvertOpenAIResponseToGemini).  An action is a chunk of the provider; of   *)
(* a thought and a text, a tool call and a finish reason it translates the    *)
(* first that is there.                                                      *)
(***************************************************************************)
EXTENDS AnswerChunks

CONSTANTS Asked,     \* bound: the calls that the provider may ask for
          MaxChunks  \* bound: chunks

OpenAIGeminiParameters == Asked \subseteq Call /\ MaxChunks \in Nat \ {0}

VARIABLES client,       \* what the client has seen
          source,       \* chunks so far
          over,         \* the provider has given its finish reason
          accumulator,  \* ToolCallsAccumulator: 1 and the pieces of each call that is kept
          texts, calls, \* history: what the provider said
          reason,       \* history: why it stopped
          excuses       \* history: what the translator has no place for

vars == <<client, source, over, accumulator, texts, calls, reason, excuses>>

TypeOK ==
  /\ client \in Reader /\ source \in 0..MaxChunks /\ over \in BOOLEAN
  /\ accumulator \in [Call -> Nat] /\ texts \in [Piece -> Nat] /\ calls \in [Call -> Nat]
  /\ reason \in Reason \cup {"none"} /\ excuses \subseteq {"crowded", "early", "split"}

Init ==
  /\ client = NewReader /\ source = 0 /\ over = FALSE /\ accumulator = NoCalls
  /\ texts = NoPieces /\ calls = NoCalls /\ reason = "none" /\ excuses = {}

-----------------------------------------------------------------------------
ReadAll(c, said) ==
  [c EXCEPT !.texts = [k \in Piece |-> @[k] + IF k \in said THEN 1 ELSE 0],
            !.broken = @ \/ (said # {} /\ c.finish # "none")]

Pending == {x \in Call : accumulator[x] > 0}

\* The calls that are kept, in one chunk and in any order.
ReadPending(c) ==
  [c EXCEPT !.calls = [x \in Call |-> IF x \in Pending THEN accumulator[x] ELSE @[x]],
            !.indexes = 0..(Cardinality(c.indexes) + Cardinality(Pending) - 1),
            !.broken = @ \/ \E x \in Pending : c.calls[x] > 0 \/ c.finish # "none"]

\* mapOpenAIFinishReasonToGemini.
ReasonOf(r) == IF r = "length" THEN "length" ELSE "stop"

\* A chunk: what it says, a piece of each of the calls asked, and its finish reason, which may
\* be there and null.
Chunk(said, asked, r) ==
  /\ ~over /\ source < MaxChunks /\ source' = source + 1
  /\ over' = (r \in Reason) /\ reason' = (IF r \in Reason THEN r ELSE "none")
  /\ texts' = [k \in Piece |-> texts[k] + IF k \in said THEN 1 ELSE 0]
  /\ calls' = [x \in Call |-> calls[x] + IF x \in asked THEN 1 ELSE 0]
  /\ IF said # {}
     THEN client' = ReadAll(client, said) /\ UNCHANGED accumulator
     ELSE IF asked # {}
     THEN /\ accumulator' = [x \in Call |-> accumulator[x] + IF x \in asked THEN 1 ELSE 0]
          /\ UNCHANGED client
     ELSE IF r # "absent"
     THEN client' = ReadFinish(ReadPending(client), ReasonOf(r)) /\ accumulator' = NoCalls
     ELSE UNCHANGED <<client, accumulator>>
  /\ excuses' = excuses
       \cup (IF \/ said # {} /\ (asked # {} \/ r \in Reason)
                \/ asked # {} /\ r \in Reason
             THEN {"crowded"} ELSE {})
       \cup (IF said = {} /\ asked = {} /\ r = "null"
             THEN {"early"} \cup (IF Pending # {} THEN {"split"} ELSE {}) ELSE {})

Next ==
  \E said \in SUBSET {"text", "thought"}, asked \in SUBSET Asked,
     r \in Reason \cup {"absent", "null"} : Chunk(said, asked, r)

Spec == Init /\ [][Next]_vars

-----------------------------------------------------------------------------
(* Property. *)

\* "Gemini response template without finishReason; set when known": when the provider is at its
\* end the client has all of its answer, every call once, and the reason why it ended, and it
\* can place every chunk (ConvertOpenAIResponseToGemini).  Excepted are chunks that say
\* something beside a call or a finish reason, of which the rest is lost, and chunks whose only
\* content is a null for a finish reason, which is taken for a STOP.
AnswerWellFormed ==
  excuses \cap {"crowded", "split"} = {} =>
    /\ "early" \notin excuses => ~client.broken
    /\ over => Whole(client, texts, calls) /\ client.finish = ReasonOf(reason)

=============================================================================
