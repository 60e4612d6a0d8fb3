--------------------------- MODULE GeminiToClaude ---------------------------
(***************************************************************************)
(* Streamed answers of Gemini's API as a Claude client gets them: the three   *)
(* translators ConvertGeminiResponseToClaude, ConvertGeminiCLIResponseToClaude *)
(* and ConvertAntigravityResponseToClaude.  A chunk carries parts and, when    *)
(* it is the last of an answer, a finish reason and mostly the usage; at the   *)
(* end of the stream, complete or cut off, the executor adds "[DONE]".  Every   *)
(* part is an action of its own, as is the end of a chunk.                      *)
(***************************************************************************)
EXTENDS ClaudeEvents

CONSTANT MaxBlocks  \* bound: blocks of an answer

GeminiParameters == MaxBlocks \in Nat \ {0}

VARIABLES dialect,   \* which of the translators
          client,    \* what the client has seen
          first,     \* HasFirstResponse
          type,      \* ResponseType, the kind of the block at hand
          index,     \* ResponseIndex
          content,   \* HasContent
          finish,    \* HasFinishReason (antigravity)
          usage,     \* HasUsageMetadata (antigravity)
          sent,      \* HasSentFinalEvents (antigravity)
          last,      \* the chunk at hand carries the finish reason
          done,      \* "[DONE]" has been translated
          excuses    \* history: what the provider did that the translator cannot tell

vars == <<dialect, client, first, type, index, content, finish, usage, sent, last, done, excuses>>

Dialect == {"gemini", "gemini-cli", "antigravity"}
Usage == {"none", "counted", "uncounted"}  \* with and without candidatesTokenCount

TypeOK ==
  /\ dialect \in Dialect /\ client \in Client
  /\ type \in Kind \cup {"none"} /\ index \in Nat
  /\ {first, content, finish, usage, sent, last, done} \subseteq BOOLEAN
  /\ excuses \subseteq {"late", "blank", "unsigned", "cut"}

Init ==
  /\ dialect \in Dialect /\ client = NewClient
  /\ first = FALSE /\ type = "none" /\ index = 0 /\ content = FALSE
  /\ finish = FALSE /\ usage = FALSE /\ sent = FALSE /\ last = FALSE /\ done = FALSE
  /\ excuses = {}

-----------------------------------------------------------------------------
(* Events. *)

\* The first chunk starts the message.
Opened == IF first THEN client ELSE MessageStart(client)

\* The next block takes the index of the one before.
FreeStays == index

\* The block at hand is stopped, and the next one has the next index.
Closed(c) == IF type = "none" THEN c ELSE BlockStop(c, index)
Free == IF type = "none" THEN index ELSE index + 1

\* Something that belongs to the answer comes after its end.
Late == client.stage \in {"closing", "over"}
Excused(reasons) == excuses' = excuses \cup reasons \cup IF Late THEN {"late"} ELSE {}

\* A block of kind k is started with its first delta.
Switch(k) ==
  /\ Free < MaxBlocks
  /\ client' = BlockDelta(BlockStart(Closed(Opened), Free, k), Free, k)
  /\ type' = k /\ index' = Free /\ content' = TRUE

Continue ==
  /\ client' = BlockDelta(Opened, index, type)
  /\ content' = TRUE
  /\ UNCHANGED <<type, index>>

\* A part of the chunk has been translated.
Translated ==
  /\ ~done /\ first' = TRUE
  /\ UNCHANGED <<dialect, finish, usage, sent, last, done>>

-----------------------------------------------------------------------------
(* Parts. *)

Thought ==
  /\ Translated
  /\ IF type = "thinking" THEN Continue ELSE Switch("thinking")
  /\ Excused({})

\* Only antigravity looks at the signature of a thought: it goes to the block at hand.
Signature ==
  /\ dialect = "antigravity" /\ Translated
  /\ client' = BlockDelta(Opened, index, "thinking")
  /\ content' = TRUE
  /\ Excused(IF type = "thinking" THEN {} ELSE {"unsigned"})
  /\ UNCHANGED <<type, index>>

Text ==
  /\ Translated
  /\ IF type = "text" THEN Continue ELSE Switch("text")
  /\ Excused({})

\* An empty text.  Antigravity passes over that of a last chunk; of another one it
\* stops the block at hand and starts none, but still takes the kind to be the old one.
BlankText ==
  IF dialect # "antigravity"
  THEN Text
  ELSE /\ Translated
       /\ IF last
          THEN /\ client' = Opened /\ Excused({})
               /\ UNCHANGED <<type, index, content>>
          ELSE IF type = "text"
          THEN Continue /\ Excused({})
          ELSE /\ Free < MaxBlocks
               /\ client' = Closed(Opened) /\ index' = Free
               /\ Excused(IF type = "none" THEN {} ELSE {"blank"})
               /\ UNCHANGED <<type, content>>

\* A function call; each is a block of its own.
FunctionCall == Translated /\ Switch("tool") /\ Excused({})

\* A call without a name continues the one before, for Gemini.
CallGoesOn ==
  /\ Translated
  /\ IF dialect = "gemini" /\ type = "tool"
     THEN client' = BlockDelta(Opened, index, "tool") /\ UNCHANGED <<type, index, content>>
     ELSE Switch("tool")
  /\ Excused({})

-----------------------------------------------------------------------------
(* The end. *)

\* A chunk with a finish reason is at hand.
LastChunk ==
  /\ ~done /\ ~last
  /\ last' = TRUE /\ first' = TRUE /\ client' = Opened
  /\ UNCHANGED <<dialect, type, index, content, finish, usage, sent, done, excuses>>

\* appendFinalEvents.
FinalEvents(c) == MessageDelta(Closed(c))

\* The parts of a chunk have been translated.  Gemini's translators look for both in one
\* chunk, and send the final events for every such chunk; antigravity's remembers either.
EndOfChunk(u) ==
  /\ ~done /\ (last \/ u # "none")
  /\ first' = TRUE /\ last' = FALSE
  /\ IF dialect = "antigravity"
     THEN /\ finish' = (finish \/ last) /\ usage' = (usage \/ u # "none")
          /\ IF finish' /\ usage' /\ ~sent /\ content
             THEN /\ client' = FinalEvents(Opened) /\ sent' = TRUE /\ type' = "none"
             ELSE client' = Opened /\ UNCHANGED <<sent, type>>
          /\ UNCHANGED excuses
     ELSE /\ IF last /\ u = "counted" /\ content
             THEN client' = MessageDelta(BlockStop(Opened, index)) /\ Excused({})
             ELSE client' = Opened /\ UNCHANGED excuses
          /\ UNCHANGED <<finish, usage, sent, type>>
  /\ UNCHANGED <<dialect, index, content, done>>

\* The final events are left to the chunk with the usage.
DoneUnforced ==
  /\ ~done /\ ~last /\ done' = TRUE
  /\ client' = IF content THEN MessageStop(client) ELSE client
  /\ excuses' = IF dialect # "antigravity" /\ content /\ client.stage = "begun"
                THEN excuses \cup {"cut"} ELSE excuses
  /\ UNCHANGED <<dialect, first, type, index, content, finish, usage, sent, last>>

\* "[DONE]": antigravity's translator makes up for final events not yet sent.
Done ==
  /\ ~done /\ ~last /\ done' = TRUE
  /\ IF content
     THEN IF dialect = "antigravity" /\ ~sent
          THEN /\ client' = MessageStop(FinalEvents(client))
               /\ sent' = TRUE /\ type' = "none"
               /\ UNCHANGED excuses
          ELSE /\ client' = MessageStop(client)
               /\ excuses' = IF client.stage = "begun" THEN excuses \cup {"cut"} ELSE excuses
               /\ UNCHANGED <<sent, type>>
     ELSE UNCHANGED <<client, sent, type, excuses>>
  /\ UNCHANGED <<dialect, first, index, content, finish, usage, last>>

Next ==
  \/ Thought \/ Signature \/ Text \/ BlankText \/ FunctionCall \/ CallGoesOn
  \/ LastChunk \/ (\E u \in Usage : EndOfChunk(u)) \/ Done

Spec == Init /\ [][Next]_vars

-----------------------------------------------------------------------------
(* Property. *)

\* The translator's comment: "The function maintains state across multiple calls to
\* ensure proper SSE event sequencing."  Whatever parts an answer has and however it
\* is cut into chunks, the client can place every event, and an answer with content
\* is ended, also by antigravity's translator when the stream is cut off
\* (ConvertGeminiResponseToClaude, ConvertGeminiCLIResponseToClaude,
\* ConvertAntigravityResponseToClaude, appendFinalEvents).  Four things are excepted:
\* parts after the end, an empty text in the midst of an antigravity answer, a
\* signature without its thought, and for the other two a stream without a last chunk
\* that counts tokens.
AnswerWellFormed ==
  excuses = {} => ~client.broken /\ (done /\ content => client.stage = "over")

=============================================================================
