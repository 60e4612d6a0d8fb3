----------------------------- MODULE MCAnswers -----------------------------
(***************************************************************************)
(* Small instances of translators, explored side by side: an initial state     *)
(* chooses the answer that is translated, the variables of the others stay as *)
(* they begin.                                                               *)
(***************************************************************************)
EXTENDS Naturals

CONSTANTS ra, me, c1, c2, nc,  \* the reasoning, the message, two calls, a call without an id
          AnswerBlocks, AnswerItems, Pieces, ChunkParts, Chunks

VARIABLE answer

-----------------------------------------------------------------------------
VARIABLES gClient, gStarted, gReasoning, gMessage, gCalled, gBuffers, gDone, gExcuses
gemini == <<gClient, gStarted, gReasoning, gMessage, gCalled, gBuffers, gDone, gExcuses>>

OutputOfGemini == {ra, me, c1, c2}
TwoCalls == {c1, c2}

Gemini ==
  INSTANCE GeminiToResponses WITH
    Item <- OutputOfGemini, Reasoning <- ra, Message <- me, Calls <- TwoCalls,
    MaxPieces <- Pieces,
    client <- gClient, started <- gStarted, reasoning <- gReasoning, message <- gMessage,
    called <- gCalled, buffers <- gBuffers, done <- gDone, excuses <- gExcuses

-----------------------------------------------------------------------------
VARIABLES cClient, cSource, cAt, cBlock, cText, cFunc, cThinking, cReasoning, cMessage, cCalled,
          cBuffers, cExcuses
claude == <<cClient, cSource, cAt, cBlock, cText, cFunc, cThinking, cReasoning, cMessage,
            cCalled, cBuffers, cExcuses>>

OutputOfClaude == 0..AnswerBlocks

Claude ==
  INSTANCE ClaudeToResponses WITH
    Item <- OutputOfClaude, MaxBlocks <- AnswerBlocks, MaxPieces <- Pieces,
    client <- cClient, source <- cSource, at <- cAt, block <- cBlock, inText <- cText,
    inFunc <- cFunc, thinking <- cThinking, reasoningId <- cReasoning, message <- cMessage,
    called <- cCalled, buffers <- cBuffers, excuses <- cExcuses

-----------------------------------------------------------------------------
VARIABLES oClient, oStarted, oReasoning, oMessage, oCallId, oCallDone, oAnyCall, oTexts, oThoughts,
          oArguments, oAsked, oExcuses
openai == <<oClient, oStarted, oReasoning, oMessage, oCallId, oCallDone, oAnyCall, oTexts,
            oThoughts, oArguments, oAsked, oExcuses>>

OutputOfOpenAI == {ra, me, c1, c2, nc}

OpenAI ==
  INSTANCE OpenAIToResponses WITH
    Item <- OutputOfOpenAI, Reasoning <- ra, Message <- me, Calls <- TwoCalls, NoCall <- nc,
    MaxPieces <- Pieces,
    client <- oClient, started <- oStarted, reasoning <- oReasoning, message <- oMessage,
    callId <- oCallId, callDone <- oCallDone, anyCall <- oAnyCall, texts <- oTexts,
    thoughts <- oThoughts, arguments <- oArguments, asked <- oAsked, excuses <- oExcuses

-----------------------------------------------------------------------------
VARIABLES xClient, xSource, xAt, xItem, xParts, xOpen, xToolCall, xStopReason, xCalled, xExcuses
codex == <<xClient, xSource, xAt, xItem, xParts, xOpen, xToolCall, xStopReason, xCalled, xExcuses>>

Codex ==
  INSTANCE CodexToClaude WITH
    MaxItems <- AnswerItems,
    client <- xClient, source <- xSource, at <- xAt, item <- xItem, parts <- xParts,
    open <- xOpen, hasToolCall <- xToolCall, stopReason <- xStopReason, called <- xCalled,
    excuses <- xExcuses

-----------------------------------------------------------------------------
\* The translators to chunks, which have most of their variables in common.
VARIABLES aSeen, aSeenToo, aSource, aAt, aBlock, aPieces, aChunks, aOver, aIndex, aKept, aNames,
          aTexts, aCalls, aReason, aExcuses
claudeChunks == <<aSource, aAt, aBlock, aPieces, aNames>>
geminiChunks == <<aChunks, aOver>>
chunks == <<aSeen, aSeenToo, claudeChunks, geminiChunks, aIndex, aKept, aTexts, aCalls, aReason,
            aExcuses>>

Numbered == 0..(ChunkParts * Chunks - 1)

ClaudeChat ==
  INSTANCE ClaudeToChat WITH
    Call <- Numbered, MaxBlocks <- Chunks, MaxPieces <- Pieces,
    client <- aSeen, source <- aSource, at <- aAt, block <- aBlock, pieces <- aPieces,
    accumulator <- aKept, texts <- aTexts, calls <- aCalls, reason <- aReason

ClaudeGemini ==
  INSTANCE ClaudeToGemini WITH
    Call <- Numbered, MaxBlocks <- Chunks, MaxPieces <- Pieces,
    client <- aSeen, source <- aSource, at <- aAt, block <- aBlock, pieces <- aPieces,
    toolUseNames <- aNames, toolUseArgs <- aKept, texts <- aTexts, calls <- aCalls,
    reason <- aReason, excuses <- aExcuses

CodexChunks ==
  INSTANCE CodexToChunks WITH
    Call <- Numbered, MaxItems <- ChunkParts * Chunks,
    chat <- aSeen, gemini <- aSeenToo, source <- aSource, functionCallIndex <- aIndex,
    lastStorageOutput <- aNames, texts <- aTexts, calls <- aCalls, excuses <- aExcuses

GeminiChat ==
  INSTANCE GeminiToChat WITH
    Call <- Numbered, MaxParts <- ChunkParts, MaxChunks <- Chunks,
    client <- aSeen, source <- aChunks, over <- aOver, functionIndex <- aIndex,
    texts <- aTexts, calls <- aCalls, reason <- aReason, excuses <- aExcuses

TwoAsked == {0, 1}

OpenAIGemini ==
  INSTANCE OpenAIToGemini WITH
    Call <- Numbered, Asked <- TwoAsked, MaxChunks <- Chunks,
    client <- aSeen, source <- aChunks, over <- aOver, accumulator <- aKept,
    texts <- aTexts, calls <- aCalls, reason <- aReason, excuses <- aExcuses

ChunksInit ==
  ClaudeChat!Init /\ ClaudeGemini!Init /\ CodexChunks!Init /\ GeminiChat!Init /\ OpenAIGemini!Init

-----------------------------------------------------------------------------
answers == <<answer, gemini, claude, openai, codex, chunks>>

Answer == {"gemini", "claude", "openai", "codex", "claudeChat", "claudeGemini", "codexChunks",
           "geminiChat", "openaiGemini"}

AnswersInit ==
  /\ answer \in Answer
  /\ Gemini!Init /\ Claude!Init /\ OpenAI!Init /\ Codex!Init /\ ChunksInit

ChunksNext ==
  \/ /\ answer = "claudeChat" /\ ClaudeChat!Next
     /\ UNCHANGED <<aSeenToo, geminiChunks, aIndex, aNames, aExcuses>>
  \/ /\ answer = "claudeGemini" /\ ClaudeGemini!Next
     /\ UNCHANGED <<aSeenToo, geminiChunks, aIndex>>
  \/ /\ answer = "codexChunks" /\ CodexChunks!Next
     /\ UNCHANGED <<aAt, aBlock, aPieces, geminiChunks, aKept, aReason>>
  \/ /\ answer = "geminiChat" /\ GeminiChat!Next
     /\ UNCHANGED <<aSeenToo, claudeChunks, aKept>>
  \/ /\ answer = "openaiGemini" /\ OpenAIGemini!Next
     /\ UNCHANGED <<aSeenToo, claudeChunks, aIndex>>

AnswersNext ==
  /\ \/ answer = "gemini" /\ Gemini!Next /\ UNCHANGED <<claude, openai, codex, chunks>>
     \/ answer = "claude" /\ Claude!Next /\ UNCHANGED <<gemini, openai, codex, chunks>>
     \/ answer = "openai" /\ OpenAI!Next /\ UNCHANGED <<gemini, claude, codex, chunks>>
     \/ answer = "codex" /\ Codex!Next /\ UNCHANGED <<gemini, claude, openai, chunks>>
     \/ ChunksNext /\ UNCHANGED <<gemini, claude, openai, codex>>
  /\ UNCHANGED answer

ASSUME AnswersParameters ==
  /\ Gemini!GeminiParameters /\ Claude!ClaudeParameters /\ OpenAI!ChatParameters
  /\ Codex!CodexParameters /\ ClaudeChat!ClaudeChatParameters
  /\ ClaudeGemini!ClaudeGeminiParameters /\ CodexChunks!CodexChatParameters
  /\ GeminiChat!GeminiChatParameters /\ OpenAIGemini!OpenAIGeminiParameters

AnswersTypeOK ==
  CASE answer = "gemini"       -> Gemini!TypeOK
    [] answer = "claude"       -> Claude!TypeOK
    [] answer = "openai"       -> OpenAI!TypeOK
    [] answer = "codex"        -> Codex!TypeOK
    [] answer = "claudeChat"   -> ClaudeChat!TypeOK
    [] answer = "claudeGemini" -> ClaudeGemini!TypeOK
    [] answer = "codexChunks"  -> CodexChunks!TypeOK
    [] answer = "geminiChat"   -> GeminiChat!TypeOK
    [] answer = "openaiGemini" -> OpenAIGemini!TypeOK

=============================================================================
