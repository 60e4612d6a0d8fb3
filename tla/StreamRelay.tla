----------------------------- MODULE StreamRelay -----------------------------
(***************************************************************************)
(* One streamed answer on its way from an executor to the client: the       *)
(* executor hands chunks to a goroutine of Manager.ExecuteStream, which      *)
(* records the result and hands them to the goroutine of                    *)
(* ExecuteStreamWithAuthManager, which may start another stream before the  *)
(* first payload and hands the payloads to the HTTP handler, which waits    *)
(* for the first and then forwards the rest (ForwardStream).  The channels   *)
(* between them are unbuffered but the one for the error.                    *)
(*                                                                          *)
(* A rendezvous on an unbuffered channel is one action.                     *)
(***************************************************************************)
EXTENDS Integers, Sequences

CONSTANTS MaxRetries,  \* streaming.bootstrap-retries
          MaxPieces    \* bound: payloads of one stream

StreamParameters == MaxRetries \in Nat /\ MaxPieces \in Nat

Attempt == 1..(MaxRetries + 1)

VARIABLES upstream,   \* the executor of each attempt
          produced,   \* payloads each has handed over
          relay,      \* the goroutine of executeStreamWithProvider for each
          mark,       \* the result it recorded
          attempt,    \* the attempt whose channel the handler's goroutine reads
          handler,    \* how far that goroutine is
          payload,    \* what it sends
          sentPayload,
          errors,     \* whether errChan holds a message, and whether it is closed
          writer,     \* the HTTP handler
          shown,      \* what it has written, payloads by attempt and number
          outcome,    \* how it ended the response
          done,       \* cliCtx is cancelled
          gone        \* the client went away

sources == <<upstream, produced, relay, mark>>
vars == <<sources, attempt, handler, payload, sentPayload, errors, writer, shown, outcome, done, gone>>

Nothing == <<>>
Failure == <<"failure">>
Piece(k, i) == <<k, i>>
Item == {Nothing, Failure} \cup {Piece(k, i) : k \in Attempt, i \in 1..MaxPieces}

TypeOK ==
  /\ upstream \in [Attempt -> {"none", "open", "failed", "closed"}]
  /\ produced \in [Attempt -> 0..MaxPieces]
  /\ relay \in [Attempt -> Item]
  /\ mark \in [Attempt -> {"none", "failure", "success"}]
  /\ attempt \in 0..(MaxRetries + 1)
  /\ handler \in {"open", "receive", "send", "return", "closing", "closed"}
  /\ payload \in Item
  /\ sentPayload \in BOOLEAN
  /\ errors \in [message : BOOLEAN, closed : BOOLEAN]
  /\ writer \in {"call", "peek", "forward", "finished"}
  /\ shown \in Seq(Item)
  /\ outcome \in {"none", "done", "error", "abandoned"}
  /\ done \in BOOLEAN /\ gone \in BOOLEAN

Init ==
  /\ upstream = [k \in Attempt |-> "none"]
  /\ produced = [k \in Attempt |-> 0]
  /\ relay = [k \in Attempt |-> Nothing]
  /\ mark = [k \in Attempt |-> "none"]
  /\ attempt = 0 /\ handler = "open" /\ payload = Nothing /\ sentPayload = FALSE
  /\ errors = [message |-> FALSE, closed |-> FALSE]
  /\ writer = "call" /\ shown = <<>> /\ outcome = "none" /\ done = FALSE /\ gone = FALSE

\* The first ExecuteStream returns a stream, or an error: then there is no goroutine
\* and no data channel.  Most handlers wait for the first payload, some do not.
Open(ok, first) ==
  /\ handler = "open"
  /\ IF ok
     THEN /\ attempt' = 1 /\ handler' = "receive"
          /\ upstream' = [upstream EXCEPT ![1] = "open"]
          /\ UNCHANGED errors
     ELSE /\ handler' = "closing" /\ errors' = [message |-> TRUE, closed |-> TRUE]
          /\ UNCHANGED <<attempt, upstream>>
  /\ writer' = first
  /\ UNCHANGED <<produced, relay, mark, payload, sentPayload, shown, outcome, done, gone>>

-----------------------------------------------------------------------------
(* The executor and the goroutine of executeStreamWithProvider. *)

HandOver(k) ==
  /\ upstream[k] = "open" /\ relay[k] = Nothing /\ produced[k] < MaxPieces
  /\ produced' = [produced EXCEPT ![k] = @ + 1]
  /\ relay' = [relay EXCEPT ![k] = Piece(k, produced[k] + 1)]
  /\ UNCHANGED <<upstream, mark, attempt, handler, payload, sentPayload, errors, writer, shown,
                 outcome, done, gone>>

HandOverError(k) ==
  /\ upstream[k] = "open" /\ relay[k] = Nothing
  /\ upstream' = [upstream EXCEPT ![k] = "failed"]
  /\ relay' = [relay EXCEPT ![k] = Failure]
  /\ mark' = [mark EXCEPT ![k] = "failure"]
  /\ UNCHANGED <<produced, attempt, handler, payload, sentPayload, errors, writer, shown,
                 outcome, done, gone>>

\* The executor closes its channel; the relay ends, and closes its own.
Finish(k) ==
  /\ upstream[k] \in {"open", "failed"} /\ relay[k] = Nothing
  /\ upstream' = [upstream EXCEPT ![k] = "closed"]
  /\ mark' = [mark EXCEPT ![k] = IF @ = "none" THEN "success" ELSE @]
  /\ UNCHANGED <<produced, relay, attempt, handler, payload, sentPayload, errors, writer, shown,
                 outcome, done, gone>>

-----------------------------------------------------------------------------
(* The goroutine of ExecuteStreamWithAuthManager. *)

TakePayload ==
  /\ handler = "receive" /\ relay[attempt] \notin {Nothing, Failure}
  /\ relay' = [relay EXCEPT ![attempt] = Nothing]
  /\ payload' = relay[attempt]
  /\ handler' = "send"
  /\ sentPayload' = TRUE
  /\ UNCHANGED <<upstream, produced, mark, attempt, errors, writer, shown, outcome,
                 done, gone>>

\* An error before the first payload may start another stream; then what the old
\* one still has is left to it.
MayRetryAnyTime == attempt <= MaxRetries
MayRetry == ~sentPayload /\ attempt <= MaxRetries

Restart ==
  /\ handler = "receive" /\ relay[attempt] = Failure /\ MayRetry
  /\ relay' = [relay EXCEPT ![attempt] = Nothing]
  /\ attempt' = attempt + 1
  /\ upstream' = [upstream EXCEPT ![attempt + 1] = "open"]
  /\ UNCHANGED <<produced, mark, handler, payload, sentPayload, errors, writer, shown, outcome,
                 done, gone>>

\* The error is not eligible for a retry, there are none left, or ExecuteStream
\* failed.
TakeError ==
  /\ handler = "receive" /\ relay[attempt] = Failure
  /\ relay' = [relay EXCEPT ![attempt] = Nothing]
  /\ errors' = [errors EXCEPT !.message = TRUE]
  /\ handler' = "return"
  /\ UNCHANGED <<upstream, produced, mark, attempt, payload, sentPayload, writer, shown, outcome,
                 done, gone>>

Drained(k) == upstream[k] = "closed" /\ relay[k] = Nothing

\* A closed channel is not told from an empty one.
StopWhenCancelled ==
  /\ handler = "receive" /\ done /\ handler' = "return"
  /\ UNCHANGED <<sources, attempt, payload, sentPayload, errors, writer, shown, outcome, done, gone>>

Stop ==
  /\ handler = "receive"
  /\ done \/ Drained(attempt)
  /\ handler' = "return"
  /\ UNCHANGED <<sources, attempt, payload, sentPayload, errors, writer, shown, outcome, done, gone>>

\* The deferred calls: errChan is closed first, then dataChan.
CloseErrors ==
  /\ handler = "return"
  /\ errors' = [errors EXCEPT !.closed = TRUE]
  /\ handler' = "closing"
  /\ UNCHANGED <<sources, attempt, payload, sentPayload, writer, shown, outcome, done, gone>>

CloseData ==
  /\ handler = "closing" /\ attempt # 0
  /\ handler' = "closed"
  /\ UNCHANGED <<sources, attempt, payload, sentPayload, errors, writer, shown, outcome, done, gone>>

-----------------------------------------------------------------------------
(* The HTTP handler. *)

Reading == writer \in {"peek", "forward"}

End(how) ==
  /\ writer' = "finished" /\ outcome' = how /\ done' = TRUE

\* A payload is written and, if it is the first, the headers of a stream.
Write ==
  /\ Reading /\ handler = "send"
  /\ shown' = Append(shown, payload)
  /\ handler' = "receive"
  /\ writer' = "forward"
  /\ UNCHANGED <<sources, attempt, payload, sentPayload, errors, outcome, done, gone>>

ShowError ==
  /\ Reading /\ errors.message
  /\ errors' = [errors EXCEPT !.message = FALSE]
  /\ End("error")
  /\ UNCHANGED <<sources, attempt, handler, payload, sentPayload, shown, gone>>

\* ForwardStream without its second look at errs.
ShowDoneAtOnce ==
  /\ Reading /\ handler = "closed"
  /\ End("done")
  /\ UNCHANGED <<sources, attempt, handler, payload, sentPayload, errors, shown, gone>>

\* The data channel is closed.  ForwardStream prefers a pending error; the wait for
\* the first payload does not look for one.
ShowDone ==
  /\ Reading /\ handler = "closed"
  /\ writer = "forward" => ~errors.message
  /\ End("done")
  /\ UNCHANGED <<sources, attempt, handler, payload, sentPayload, errors, shown, gone>>

GiveUp ==
  /\ Reading /\ gone
  /\ End("abandoned")
  /\ UNCHANGED <<sources, attempt, handler, payload, sentPayload, errors, shown, gone>>

Leave ==
  /\ ~gone /\ writer # "finished" /\ gone' = TRUE
  /\ UNCHANGED <<sources, attempt, handler, payload, sentPayload, errors, writer, shown, outcome, done>>

\* GetContextWithCancel passes the end of the request on.
Cancel ==
  /\ gone /\ ~done /\ done' = TRUE
  /\ UNCHANGED <<sources, attempt, handler, payload, sentPayload, errors, writer, shown, outcome, gone>>

-----------------------------------------------------------------------------
Source(k) == HandOver(k) \/ HandOverError(k) \/ Finish(k)
Handler ==
  \/ \E ok \in BOOLEAN, first \in {"peek", "forward"} : Open(ok, first)
  \/ TakePayload \/ Restart \/ TakeError \/ Stop \/ CloseErrors \/ CloseData
Writer == Write \/ ShowError \/ ShowDone \/ GiveUp

Next == (\E k \in Attempt : Source(k)) \/ Handler \/ Writer \/ Leave \/ Cancel

Spec == Init /\ [][Next]_vars

\* The goroutines go on when they can, and executors come to an end: they read what
\* the provider sends until it ends or the HTTP client's timeout.
FairSpec ==
  Spec /\ WF_vars(Handler) /\ WF_vars(Writer) /\ \A k \in Attempt : WF_vars(Source(k))

-----------------------------------------------------------------------------
(* Properties. *)

\* What the client is shown is the beginning of the payloads of one attempt, in
\* order and without a gap: a stream that is started again has shown nothing
\* (ExecuteStreamWithAuthManager, ForwardStream).
OneAttemptShown ==
  \A j \in DOMAIN shown : shown[j] = Piece(shown[1][1], j)

\* The last attempt ended without an error and its payloads were all shown.
Whole ==
  /\ attempt > 0 => mark[attempt] = "success" /\ Len(shown) = produced[attempt]
  /\ attempt = 0 => FALSE

\* A response that has begun to stream and is ended as complete shows everything the
\* provider sent, and the provider did not fail: errors reach the client before the
\* end does (the order of the deferred closes, ForwardStream's last look at errs).
\* The end of a stream whose client went away means nothing.
DoneIsWhole == (outcome = "done" /\ shown # <<>> /\ ~gone) => Whole

\* The handlers wait for the first payload "to determine success or failure"
\* (openai_handlers.go:605): a stream that failed is never ended as complete.
FailureShown == (outcome = "done" /\ ~gone) => Whole

\* Every response ends, and unless the client went away so do all goroutines of it,
\* each attempt with its result recorded (executeStreamWithProvider,
\* ExecuteStreamWithAuthManager).
AllEnded ==
  /\ outcome # "none"
  /\ handler = IF attempt = 0 THEN "closing" ELSE "closed"
  /\ \A k \in Attempt : upstream[k] # "none" => Drained(k) /\ mark[k] # "none"

StreamEnds == <>(outcome # "none" /\ (gone \/ AllEnded))

=============================================================================
