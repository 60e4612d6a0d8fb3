----------------------------- MODULE RequestLog -----------------------------
(***************************************************************************)
(* The log of one request: ResponseWriterWrapper, through which the handler    *)
(* answers, and FileStreamingLogWriter, with a goroutine each.  Chunks of a    *)
(* streamed answer go through two channels, and are skipped where one is full; *)
(* other answers are kept in a buffer.  Meanwhile a reload of the              *)
(* configuration may switch the log on and off.                              *)
(***************************************************************************)
EXTENDS Naturals, Sequences

CONSTANTS Capacity,    \* of chunkChannel and of chunkChan, 100 each
          MaxChunks,   \* bound: chunks of the answer
          MaxSwitches  \* bound: switches of the log

LogParameters == {Capacity, MaxChunks} \subseteq Nat \ {0} /\ MaxSwitches \in Nat

VARIABLES enabled, switches,  \* the logger's switch
          onErrorOnly,        \* logOnErrorOnly
          pc,                 \* where the handler is: at the answer, or in Finalize
          status,             \* statusCode
          sent,               \* chunks the client was sent, numbered
          body,               \* the buffer of an answer that is not streamed
          writer,             \* streamWriter is set
          channel, relay, held,           \* chunkChannel, processStreamingChunks, its chunk
          chunkChan, chunkChanClosed,     \* of the streamWriter
          spooler, spool, open, failed,   \* asyncWriter, its file, the error in errorChan
          temp,               \* temporary files
          kept, logged,       \* the log file and its response
          excuses             \* history: why a chunk may be missing, or something be left

wrapper == <<onErrorOnly, status, sent, body, writer>>
stream == <<chunkChan, chunkChanClosed, spooler, spool, open, failed, temp>>
vars == <<enabled, switches, wrapper, pc, channel, relay, held, stream, kept, logged, excuses>>

Chunk == 1..MaxChunks

TypeOK ==
  /\ {enabled, onErrorOnly, writer, chunkChanClosed, open, failed, temp, kept} \subseteq BOOLEAN
  /\ switches \in 0..MaxSwitches /\ pc \in {"serving", "draining", "closing", "over"}
  /\ status \in {"none", "ok", "error"} /\ sent \in 0..MaxChunks
  /\ {body, channel, chunkChan, spool, logged} \subseteq Seq(Chunk)
  /\ Len(channel) <= Capacity /\ Len(chunkChan) <= Capacity
  /\ relay \in {"none", "new", "checked", "running", "stuck", "over"}
  /\ held \in Chunk \cup {0} /\ spooler \in {"none", "running", "over"}
  /\ excuses \subseteq {"full", "switched", "unbuffered", "late", "off", "stuck"}

Init ==
  /\ enabled \in BOOLEAN /\ switches = 0 /\ onErrorOnly = ~enabled
  /\ pc = "serving" /\ status = "none" /\ sent = 0 /\ body = << >> /\ writer = FALSE
  /\ channel = << >> /\ relay = "none" /\ held = 0
  /\ chunkChan = << >> /\ chunkChanClosed = FALSE
  /\ spooler = "none" /\ spool = << >> /\ open = FALSE /\ failed = FALSE /\ temp = FALSE
  /\ kept = FALSE /\ logged = << >> /\ excuses = {}

-----------------------------------------------------------------------------
(* The handler. *)

\* SetEnabled.
SetEnabled ==
  /\ switches < MaxSwitches /\ switches' = switches + 1 /\ enabled' = ~enabled
  /\ UNCHANGED <<wrapper, pc, channel, relay, held, stream, kept, logged, excuses>>

\* WriteHeader, which successful streams of the handlers never call, and failing ones also after
\* chunks: a streamed answer (sse) gets a writer, unless its files cannot be made.
WriteHeader(s, sse, made) ==
  /\ pc = "serving" /\ status = "none" /\ status' = s
  /\ IF sse /\ enabled /\ made
     THEN /\ writer' = TRUE /\ relay' = "new"
          /\ spooler' = "running" /\ open' = TRUE /\ temp' = TRUE
          /\ excuses' = IF sent > 0 THEN excuses \cup {"switched"} ELSE excuses
     ELSE UNCHANGED <<writer, relay, spooler, open, temp, excuses>>
  /\ UNCHANGED <<enabled, switches, onErrorOnly, pc, sent, body, channel, held, chunkChan,
                 chunkChanClosed, spool, failed, kept, logged>>

\* A send that does not wait.
Offer(queue, x) == IF Len(queue) < Capacity THEN Append(queue, x) ELSE queue
Full(queue) == IF Len(queue) < Capacity THEN {} ELSE {"full"}

shouldBufferResponseBody == enabled \/ (onErrorOnly /\ status = "error")

\* Write: first to the client, then to the log.
Write ==
  /\ pc = "serving" /\ sent < MaxChunks /\ sent' = sent + 1
  /\ IF writer
     THEN channel' = Offer(channel, sent + 1) /\ excuses' = excuses \cup Full(channel)
          /\ UNCHANGED body
     ELSE IF shouldBufferResponseBody
     THEN body' = Append(body, sent + 1) /\ UNCHANGED <<channel, excuses>>
     ELSE excuses' = excuses \cup {"unbuffered"} /\ UNCHANGED <<body, channel>>
  /\ UNCHANGED <<enabled, switches, onErrorOnly, pc, status, writer, relay, held, stream, kept,
                 logged>>

\* Finalize: a writer's channel is closed, any other answer is logged at once, if it can be.  An
\* error may also be noted in the context of an answer that began well (apiError).
Finalize(apiError, ok) ==
  LET force == onErrorOnly /\ (apiError \/ status = "error") /\ ~enabled
  IN  /\ pc = "serving"
      /\ IF ~enabled /\ ~force
         THEN /\ pc' = "over" /\ UNCHANGED <<kept, logged>>
              /\ excuses' = IF writer THEN excuses \cup {"off"} ELSE excuses
         ELSE IF writer
         THEN pc' = "draining" /\ UNCHANGED <<kept, logged, excuses>>
         ELSE pc' = "over" /\ kept' = ok /\ logged' = body /\ UNCHANGED excuses
      /\ UNCHANGED <<enabled, switches, wrapper, channel, relay, held, stream>>

\* The relay is over: Close closes the other channel.
BeginClose ==
  /\ pc = "draining" /\ relay = "over"
  /\ pc' = "closing" /\ chunkChanClosed' = TRUE
  /\ UNCHANGED <<enabled, switches, wrapper, channel, relay, held, chunkChan, spooler, spool, open,
                 failed, temp, kept, logged, excuses>>

\* Without waiting.
SpooledSoon == chunkChanClosed

\* Close waits for closeChan.
Spooled == spooler = "over"

\* The end of Close: the log is put together (ok) unless the spooler failed.
EndClose(ok) ==
  /\ pc = "closing" /\ Spooled
  /\ pc' = "over" /\ temp' = FALSE
  /\ IF failed THEN UNCHANGED <<kept, logged>> ELSE kept' = ok /\ logged' = spool
  /\ UNCHANGED <<enabled, switches, wrapper, channel, relay, held, chunkChan, chunkChanClosed,
                 spooler, spool, open, failed, excuses>>

-----------------------------------------------------------------------------
(* processStreamingChunks. *)

\* Finalize closes chunkChannel and sets it to nil.
Closed == pc # "serving" /\ "off" \notin excuses

\* A relay that starts so late has nothing to do.
RelayStart ==
  /\ relay = "new"
  /\ relay' = IF Closed THEN "over" ELSE "checked"
  /\ excuses' = IF Closed THEN excuses \cup {"late"} ELSE excuses
  /\ UNCHANGED <<enabled, switches, wrapper, pc, channel, held, stream, kept, logged>>

\* It reads the field again, and waits for ever on a channel that is nil.
RelayRange ==
  /\ relay = "checked"
  /\ relay' = IF Closed THEN "stuck" ELSE "running"
  /\ excuses' = IF Closed THEN excuses \cup {"stuck"} ELSE excuses
  /\ UNCHANGED <<enabled, switches, wrapper, pc, channel, held, stream, kept, logged>>

RelayTake ==
  /\ relay = "running" /\ held = 0 /\ channel # << >>
  /\ held' = Head(channel) /\ channel' = Tail(channel)
  /\ UNCHANGED <<enabled, switches, wrapper, pc, relay, stream, kept, logged, excuses>>

\* WriteChunkAsync.
RelayGive ==
  /\ held # 0 /\ held' = 0
  /\ chunkChan' = Offer(chunkChan, held) /\ excuses' = excuses \cup Full(chunkChan)
  /\ UNCHANGED <<enabled, switches, wrapper, pc, channel, relay, chunkChanClosed, spooler, spool,
                 open, failed, temp, kept, logged>>

RelayEnd ==
  /\ relay = "running" /\ held = 0 /\ channel = << >> /\ Closed
  /\ relay' = "over"
  /\ UNCHANGED <<enabled, switches, wrapper, pc, channel, held, stream, kept, logged, excuses>>

-----------------------------------------------------------------------------
(* asyncWriter. *)

\* A chunk is appended to the file (ok), or closes it; after that chunks are passed over.
Spool(ok) ==
  /\ spooler = "running" /\ chunkChan # << >>
  /\ chunkChan' = Tail(chunkChan)
  /\ IF open /\ ok THEN spool' = Append(spool, Head(chunkChan)) /\ UNCHANGED <<open, failed>>
     ELSE IF open THEN open' = FALSE /\ failed' = TRUE /\ UNCHANGED spool
     ELSE UNCHANGED <<spool, open, failed>>
  /\ UNCHANGED <<enabled, switches, wrapper, pc, channel, relay, held, chunkChanClosed, spooler,
                 temp, kept, logged, excuses>>

\* The channel is closed and empty; closing the file may fail too.
SpoolEnd(ok) ==
  /\ spooler = "running" /\ chunkChan = << >> /\ chunkChanClosed
  /\ spooler' = "over" /\ open' = FALSE /\ failed' = (failed \/ (open /\ ~ok))
  /\ UNCHANGED <<enabled, switches, wrapper, pc, channel, relay, held, chunkChan, chunkChanClosed,
                 spool, temp, kept, logged, excuses>>

-----------------------------------------------------------------------------
InFinalize == BeginClose \/ \E ok \in BOOLEAN : EndClose(ok)
Relay == RelayStart \/ RelayRange \/ RelayTake \/ RelayGive \/ RelayEnd
Spooler == \E ok \in BOOLEAN : Spool(ok) \/ SpoolEnd(ok)

Next ==
  \/ SetEnabled
  \/ \E s \in {"ok", "error"}, sse \in BOOLEAN, made \in BOOLEAN : WriteHeader(s, sse, made)
  \/ Write \/ \E apiError \in BOOLEAN, ok \in BOOLEAN : Finalize(apiError, ok)
  \/ InFinalize \/ Relay \/ Spooler

\* The goroutines go on while they can.
Spec == Init /\ [][Next]_vars /\ WF_vars(InFinalize) /\ WF_vars(Relay) /\ WF_vars(Spooler)

-----------------------------------------------------------------------------
(* Properties. *)

\* "It writes all buffered data to the file in the correct order": a log holds chunks of the
\* answer in the order the client was sent them, and all of them unless a channel was full, the
\* answer became a stream half way, the log was off when a chunk came, or the relay started
\* after Finalize; and when the request is over its goroutines are, and its temporary files are
\* gone, unless the log was switched off under a writer (Finalize, Close).
LogFollowsAnswer ==
  /\ kept => \A i \in 1..Len(logged) : logged[i] \in 1..sent /\ (i > 1 => logged[i - 1] < logged[i])
  /\ kept /\ excuses \cap {"full", "switched", "unbuffered", "late"} = {} => Len(logged) = sent
  /\ pc = "over" /\ "off" \notin excuses =>
       relay \in {"none", "over"} /\ spooler \in {"none", "over"} /\ ~temp

\* Finalize comes to an end, for which the handler waits, unless the relay looked at the channel
\* before Finalize took it away and ranges over it afterwards (processStreamingChunks).
FinalizeEnds == pc = "draining" ~> (pc = "over" \/ "stuck" \in excuses)

=============================================================================
