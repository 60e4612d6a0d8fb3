--------------------------- MODULE CodexToChunks ---------------------------
(***************************************************************************)
(* Streamed answers of Codex, in the format of the Responses API, as clients   *)
(* of chat completions (ConvertCodexResponseToOpenAI) and of Gemini's API       *)
(* (ConvertCodexResponseToGemini) get them.  An action is an event of the       *)
(* provider; both translators read a call from the end of its item.           *)
(***************************************************************************)
EXTENDS AnswerChunks

CONSTANT MaxItems  \* bound: events of the provider that say something

CodexChatParameters == 0..(MaxItems - 1) \subseteq Call /\ MaxItems \in Nat \ {0}

VARIABLES chat,               \* what the client of chat completions has seen
          gemini,             \* what the client of Gemini's API has seen
          source,             \* the response: "none", "begun", "over"
          functionCallIndex,  \* FunctionCallIndex + 1, the next index
          lastStorageOutput,  \* the calls in LastStorageOutput
          texts, calls,       \* history: what Codex said
          excuses             \* history: what the translators have no place for

vars == <<chat, gemini, source, functionCallIndex, lastStorageOutput, texts, calls, excuses>>

Said == texts["text"] + texts["thought"] + functionCallIndex

TypeOK ==
  /\ {chat, gemini} \subseteq Reader /\ source \in {"none", "begun", "over"}
  /\ functionCallIndex \in 0..MaxItems /\ lastStorageOutput \subseteq Call
  /\ texts \in [Piece -> Nat] /\ calls \in [Call -> Nat] /\ excuses \subseteq {"failed", "resumed"}

Init ==
  /\ chat = NewReader /\ gemini = NewReader /\ source = "none" /\ functionCallIndex = 0
  /\ lastStorageOutput = {} /\ texts = NoPieces /\ calls = NoCalls /\ excuses = {}

-----------------------------------------------------------------------------
\* LastStorageOutput: all calls so far with a finish reason, sent ahead of every later chunk.
Stored(c) ==
  LET again == \E x \in lastStorageOutput : c.calls[x] > 0
      all == [c EXCEPT !.calls = [x \in Call |-> IF x \in lastStorageOutput THEN 1 ELSE @[x]],
                       !.indexes = @ \cup lastStorageOutput, !.broken = @ \/ again]
  IN  IF lastStorageOutput = {} THEN c ELSE ReadFinish(all, "stop")

\* response.created.
ResponseCreated ==
  /\ source = "none" /\ source' = "begun"
  /\ UNCHANGED <<chat, gemini, functionCallIndex, lastStorageOutput, texts, calls, excuses>>

\* response.output_text.delta and response.reasoning_summary_text.delta.
TextDelta(k) ==
  /\ source = "begun" /\ Said < MaxItems
  /\ texts' = [texts EXCEPT ![k] = @ + 1]
  /\ chat' = Read(chat, k) /\ gemini' = Read(Stored(gemini), k)
  /\ excuses' = IF lastStorageOutput # {} THEN excuses \cup {"resumed"} ELSE excuses
  /\ UNCHANGED <<source, functionCallIndex, lastStorageOutput, calls>>

\* response.reasoning_summary_text.done: an empty line of thought for the chat.
SummaryDone ==
  /\ source = "begun" /\ texts["thought"] > 0
  /\ chat' = [chat EXCEPT !.broken = @ \/ chat.finish # "none"]
  /\ UNCHANGED <<gemini, source, functionCallIndex, lastStorageOutput, texts, calls, excuses>>

\* response.output_item.done of a call: Gemini's client gets it with the next chunk.
CallDone ==
  /\ source = "begun" /\ Said < MaxItems
  /\ functionCallIndex' = functionCallIndex + 1
  /\ calls' = [calls EXCEPT ![functionCallIndex] = 1]
  /\ chat' = ReadCallAt(chat, functionCallIndex, functionCallIndex, 0)
  /\ lastStorageOutput' = lastStorageOutput \cup {functionCallIndex}
  /\ UNCHANGED <<gemini, source, texts, excuses>>

\* response.completed.
ResponseCompleted ==
  /\ source = "begun" /\ source' = "over"
  /\ chat' = ReadFinish(chat, IF functionCallIndex # 0 THEN "tool_calls" ELSE "stop")
  /\ gemini' = Stored(gemini)
  /\ UNCHANGED <<functionCallIndex, lastStorageOutput, texts, calls, excuses>>

\* response.failed and response.incomplete are not translated.
ResponseFailed ==
  /\ source = "begun" /\ source' = "over" /\ excuses' = excuses \cup {"failed"}
  /\ UNCHANGED <<chat, gemini, functionCallIndex, lastStorageOutput, texts, calls>>

Next ==
  \/ ResponseCreated \/ (\E k \in {"text", "thought"} : TextDelta(k)) \/ SummaryDone
  \/ CallDone \/ ResponseCompleted \/ ResponseFailed

Spec == Init /\ [][Next]_vars

-----------------------------------------------------------------------------
(* Property. *)

\* "The function maintains state across multiple calls to ensure proper response sequencing":
\* a response that is over has reached both clients, every call of it once; the one of the
\* chat has the reason why it ended, and the one of Gemini's API a finish reason if there are
\* calls (ConvertCodexResponseToOpenAI, ConvertCodexResponseToGemini).  Excepted are responses
\* that fail, and for Gemini's client those which say something after a call: it gets the call
\* again with every chunk.
AnswerWellFormed ==
  "failed" \notin excuses =>
    /\ ~chat.broken
    /\ source = "over" =>
         /\ Whole(chat, texts, calls)
         /\ chat.finish = IF calls # NoCalls THEN "tool_calls" ELSE "stop"
    /\ "resumed" \notin excuses =>
         /\ ~gemini.broken
         /\ source = "over" =>
              Whole(gemini, texts, calls) /\ (gemini.finish = "stop" <=> calls # NoCalls)

=============================================================================
