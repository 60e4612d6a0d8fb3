---------------------------- MODULE GeminiToChat ----------------------------
(***************************************************************************)
(* Streamed answers of Gemini, Gemini CLI and Antigravity as a client of chat  *)
(* completions gets them (ConvertGeminiResponseToOpenAI and its copies         *)
(* ConvertCliResponseToOpenAI and ConvertAntigravityResponseToOpenAI).  An       *)
(* action is a chunk of the provider, and makes one chunk for the client.       *)
(***************************************************************************)
EXTENDS AnswerChunks, Sequences

CONSTANTS MaxParts,  \* bound: parts of a chunk
          MaxChunks  \* bound: chunks

\* Calls are numbered as they come.
GeminiChatParameters ==
  0..(MaxParts * MaxChunks - 1) \subseteq Call /\ {MaxParts, MaxChunks} \subseteq Nat \ {0}

Parts == UNION {[1..n -> Piece \cup {"call"}] : n \in 0..MaxParts}

VARIABLES client,         \* what the client has seen
          source,         \* chunks so far
          over,           \* Gemini has given its finish reason
          functionIndex,  \* FunctionIndex
          texts, calls,   \* history: what Gemini said
          reason,         \* history: why it stopped
          excuses         \* history: what the translator has no place for

vars == <<client, source, over, functionIndex, texts, calls, reason, excuses>>

TypeOK ==
  /\ client \in Reader /\ source \in 0..MaxChunks /\ over \in BOOLEAN
  /\ functionIndex \in 0..MaxParts * MaxChunks
  /\ texts \in [Piece -> Nat] /\ calls \in [Call -> Nat] /\ reason \in {"none", "stop", "length"}
  /\ excuses \subseteq {"twice", "again", "apart", "length"}

Init ==
  /\ client = NewReader /\ source = 0 /\ over = FALSE /\ functionIndex = 0
  /\ texts = NoPieces /\ calls = NoCalls /\ reason = "none" /\ excuses = {}

-----------------------------------------------------------------------------
Times(parts, k) == Cardinality({i \in DOMAIN parts : parts[i] = k})

\* The pieces of a chunk: of several texts, and of several thoughts, the last one is left.
ChunkPieces(parts) ==
  [k \in Piece |-> IF k = "image" \/ Times(parts, k) = 0 THEN Times(parts, k) ELSE 1]

\* The n-th call of a chunk, from 0 on: the first has the index of the translator, the others
\* that of their place in the chunk.
CallIndex(n) == IF n = 0 THEN functionIndex ELSE n

\* The chunk of the client, all of it in one delta.
Delta(parts) ==
  LET n == Times(parts, "call")
      pieces == ChunkPieces(parts)
      indexes == {CallIndex(i) : i \in 0..(n - 1)}
      empty == n = 0 /\ pieces = NoPieces
  IN  [client EXCEPT
         !.texts = [k \in Piece |-> @[k] + pieces[k]],
         !.calls = [x \in Call |-> IF x \in functionIndex..(functionIndex + n - 1) THEN 1
                                                                                   ELSE @[x]],
         !.indexes = @ \cup indexes,
         !.broken = \/ @
                    \/ ~empty /\ client.finish # "none"
                    \/ Cardinality(indexes) < n \/ indexes \cap client.indexes # {}]

\* strings.ToLower: STOP becomes stop, but MAX_TOKENS does not become length.
ReasonOf(r) == IF r = "stop" THEN "stop" ELSE Unknown

\* A chunk of Gemini, with a finish reason (r # "none") or without: calls give one of their own.
Chunk(parts, r) ==
  /\ ~over /\ source < MaxChunks /\ source' = source + 1
  /\ over' = (r # "none") /\ reason' = r
  /\ LET n == Times(parts, "call") IN
       /\ client' = IF n > 0 THEN ReadFinish(Delta(parts), "tool_calls")
                    ELSE IF r # "none" THEN ReadFinish(Delta(parts), ReasonOf(r))
                    ELSE Delta(parts)
       /\ functionIndex' = functionIndex + n
       /\ calls' = [x \in Call |-> IF x \in functionIndex..(functionIndex + n - 1) THEN 1
                                                                                 ELSE calls[x]]
       /\ excuses' = excuses
            \cup (IF \E k \in {"text", "thought"} : Times(parts, k) > 1 THEN {"twice"} ELSE {})
            \cup (IF functionIndex > 0 /\ parts # << >> THEN {"again"} ELSE {})
            \cup (IF functionIndex > 0 /\ n = 0 /\ r # "none" THEN {"apart"} ELSE {})
            \cup (IF r = "length" THEN {"length"} ELSE {})
  /\ texts' = [k \in Piece |-> texts[k] + Times(parts, k)]

Next == \E parts \in Parts, r \in {"none", "stop", "length"} : Chunk(parts, r)

Spec == Init /\ [][Next]_vars

-----------------------------------------------------------------------------
(* Property. *)

\* "Handle text content, distinguishing between regular content and reasoning/thoughts": the
\* client can place every chunk, and at the end it has all that Gemini said, under a reason
\* that tells of the calls (ConvertGeminiResponseToOpenAI).  Excepted are chunks with several
\* texts, of which the last one is left, anything that is said after the chunk of the calls,
\* also further calls, a finish reason that comes in a later chunk than the calls and hides them,
\* and answers that were too long, whose reason the client does not know.
AnswerWellFormed ==
  /\ "again" \notin excuses => ~client.broken
  /\ over /\ "twice" \notin excuses => Whole(client, texts, calls)
  /\ over /\ excuses \cap {"apart", "length"} = {} =>
       client.finish = IF calls # NoCalls THEN "tool_calls" ELSE reason

=============================================================================
