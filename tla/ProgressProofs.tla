--------------------------- MODULE ProgressProofs ---------------------------
(***************************************************************************)
(* Theorems about the components of MCProgress.  The way of a streamed answer *)
(* to the client, for every number of bootstrap retries and every length of a *)
(* stream; the log of a request, for every number of chunks and every        *)
(* capacity of its channels; the locks, of which LockOrderProofs has the     *)
(* theorems; what the client of each translator of MCAnswers has been sent,   *)
(* for every answer however long; and the types of the other components.     *)
(*                                                                           *)
(* The translators have a section each, of the same shape: the client's state *)
(* as a function of what the provider sent, the lemmas about what an event    *)
(* does to the client, one lemma per event of the provider, and the           *)
(* invariant.                                                                *)
(***************************************************************************)
EXTENDS MCProgress, FiniteSetTheorems, TLAPS

-----------------------------------------------------------------------------
\* The goroutine of attempt k has a payload at hand.
HasPiece(k) == relay[k] \notin {Nothing, Failure}

\* Attempts that have not begun.
NotBegun ==
  \A k \in Attempt : k > attempt =>
    upstream[k] = "none" /\ produced[k] = 0 /\ relay[k] = Nothing /\ mark[k] = "none"

\* The payloads of the present attempt are shown, sent or at hand, in order, and
\* after the first there is no other attempt.
InOrder ==
  /\ \A k \in Attempt : HasPiece(k) => relay[k] = Piece(k, produced[k])
  /\ handler = "open" => attempt = 0
  /\ handler \in {"receive", "send", "return", "closed"} => attempt > 0
  /\ attempt = 0 => shown = <<>> /\ handler # "send"
  /\ \A j \in 1..Len(shown) : shown[j] = Piece(attempt, j)
  /\ attempt > 0 =>
       produced[attempt] = Len(shown) + (IF handler = "send" THEN 1 ELSE 0)
                                      + (IF HasPiece(attempt) THEN 1 ELSE 0)
  /\ handler = "send" => payload = Piece(attempt, Len(shown) + 1)
  /\ shown # <<>> \/ handler = "send" => sentPayload

\* How the present attempt came to its end, as far as the end of the goroutine, the
\* error channel and the response tell.
ResultRecorded == \A k \in Attempt : mark[k] = "none" <=> upstream[k] \in {"none", "open"}

FailureReported ==
  (attempt > 0 /\ mark[attempt] = "failure" /\ relay[attempt] # Failure) => errors.message \/ done

EndedForAReason ==
  (attempt > 0 /\ handler \in {"return", "closing", "closed"})
     => done \/ errors.message \/ Drained(attempt)

WriterEnds ==
  /\ done => gone \/ writer = "finished"
  /\ (shown # <<>> /\ writer # "finished") => writer = "forward"
  /\ outcome # "none" => writer = "finished"
  /\ writer = "call" <=> handler = "open"

EndedWhole ==
  (outcome = "done" /\ shown # <<>> /\ ~gone)
     => /\ attempt > 0 /\ handler = "closed"
        /\ mark[attempt] = "success" /\ Drained(attempt)
        /\ Len(shown) = produced[attempt]

Ended == ResultRecorded /\ FailureReported /\ EndedForAReason /\ WriterEnds /\ EndedWhole

\* A payload is neither nothing nor the failure.
LEMMA PieceIsNone ==
  ASSUME NEW k, NEW i
  PROVE  Piece(k, i) # Nothing /\ Piece(k, i) # Failure /\ Nothing # Failure
<1>1. Len(<<k, i>>) = 2 /\ Len(<<"failure">>) = 1
  OBVIOUS
<1> DEFINE empty == <<>>
<1>2. Len(empty) = 0
  OBVIOUS
<1>3. QED
  BY <1>1, <1>2 DEF Piece, Nothing, Failure

LEMMA Items ==
  /\ Nothing \in Item /\ Failure \in Item
  /\ \A k \in Attempt, i \in 1..MaxPieces : Piece(k, i) \in Item
BY DEF Item

LEMMA TypeStep ==
  ASSUME StreamParameters, TypeOK, InOrder, Next
  PROVE  TypeOK'
<1>1. ASSUME NEW k \in Attempt, HandOver(k)
      PROVE  TypeOK'
  <2>1. produced[k] \in 0..MaxPieces /\ produced[k] < MaxPieces /\ MaxPieces \in Nat
    BY <1>1 DEF TypeOK, HandOver, StreamParameters
  <2>2. produced[k] + 1 \in 1..MaxPieces /\ produced[k] + 1 \in 0..MaxPieces
    BY <2>1
  <2>3. Piece(k, produced[k] + 1) \in Item
    BY <2>2, Items
  <2>4. QED
    BY <1>1, <2>2, <2>3 DEF TypeOK, HandOver
<1>2. ASSUME NEW k \in Attempt, HandOverError(k) \/ Finish(k)
      PROVE  TypeOK'
  BY <1>2, Items DEF TypeOK, HandOverError, Finish
<1>3. ASSUME NEW ok \in BOOLEAN, NEW first \in {"peek", "forward"}, Open(ok, first)
      PROVE  TypeOK'
  <2>1. 1 \in Attempt /\ 1 \in 0..(MaxRetries + 1)
    BY DEF Attempt, StreamParameters
  <2>2. CASE ok
    BY <1>3, <2>1, <2>2 DEF TypeOK, Open
  <2>3. CASE ~ok
    <3>1. /\ errors' = [message |-> TRUE, closed |-> TRUE] /\ handler' = "closing"
          /\ attempt' = attempt /\ upstream' = upstream
      BY <1>3, <2>3 DEF Open
    <3>2. errors' \in [message : BOOLEAN, closed : BOOLEAN]
      BY <3>1
    <3>3. QED
      BY <1>3, <3>1, <3>2 DEF TypeOK, Open
  <2>4. QED
    BY <2>2, <2>3
<1>4. attempt \in 0..(MaxRetries + 1) /\ MaxRetries \in Nat
  BY DEF TypeOK, StreamParameters
<1>5. handler = "receive" => attempt \in Attempt
  BY <1>4 DEF InOrder, Attempt
<1>6. CASE TakePayload
  BY <1>5, <1>6, Items DEF TypeOK, TakePayload
<1>7. CASE Restart
  <2>1. attempt + 1 \in Attempt /\ attempt + 1 \in 0..(MaxRetries + 1)
    BY <1>4, <1>7 DEF Restart, MayRetry, Attempt
  <2>2. QED
    BY <1>7, <2>1, Items DEF TypeOK, Restart
<1>8. CASE TakeError
  <2>1. errors' \in [message : BOOLEAN, closed : BOOLEAN]
    BY <1>8 DEF TypeOK, TakeError
  <2>2. QED
    BY <1>8, <2>1, Items DEF TypeOK, TakeError
<1>9. CASE Stop \/ CloseErrors \/ CloseData
  BY <1>9 DEF TypeOK, Stop, CloseErrors, CloseData, sources
<1>10. CASE Write
  <2>1. shown \in Seq(Item) /\ payload \in Item
    BY DEF TypeOK
  <2>2. Append(shown, payload) \in Seq(Item)
    BY <2>1
  <2>3. QED
    BY <1>10, <2>2 DEF TypeOK, Write, sources
<1>11. CASE ShowError \/ ShowDone \/ GiveUp
  BY <1>11 DEF TypeOK, ShowError, ShowDone, GiveUp, End, sources
<1>12. CASE Leave \/ Cancel
  BY <1>12 DEF TypeOK, Leave, Cancel, sources
<1>13. QED
  BY <1>1, <1>2, <1>3, <1>6, <1>7, <1>8, <1>9, <1>10, <1>11, <1>12
  DEF Next, Source, Handler, Writer

LEMMA NotBegunStep ==
  ASSUME StreamParameters, TypeOK, NotBegun, InOrder, Next
  PROVE  NotBegun'
<1> SUFFICES ASSUME NEW k \in Attempt, k > attempt'
             PROVE  /\ upstream'[k] = "none" /\ produced'[k] = 0 /\ relay'[k] = Nothing
                    /\ mark'[k] = "none"
  BY DEF NotBegun
<1>1. attempt \in Nat /\ k \in Nat /\ Attempt \subseteq Nat
  BY DEF TypeOK, Attempt, StreamParameters
<1>2. /\ upstream \in [Attempt -> {"none", "open", "failed", "closed"}]
      /\ produced \in [Attempt -> 0..MaxPieces] /\ relay \in [Attempt -> Item]
      /\ mark \in [Attempt -> {"none", "failure", "success"}]
  BY DEF TypeOK
<1>3. k > attempt => /\ upstream[k] = "none" /\ produced[k] = 0 /\ relay[k] = Nothing
                     /\ mark[k] = "none"
  BY DEF NotBegun
<1>4. ASSUME NEW l \in Attempt, Source(l)
      PROVE  /\ attempt' = attempt
             /\ k # l => /\ upstream'[k] = upstream[k] /\ produced'[k] = produced[k]
                         /\ relay'[k] = relay[k] /\ mark'[k] = mark[k]
             /\ upstream[l] # "none"
  BY <1>2, <1>4 DEF Source, HandOver, HandOverError, Finish
<1>5. ASSUME NEW l \in Attempt, Source(l)
      PROVE  /\ upstream'[k] = "none" /\ produced'[k] = 0 /\ relay'[k] = Nothing
             /\ mark'[k] = "none"
  BY <1>3, <1>4, <1>5
<1>6. ASSUME NEW ok \in BOOLEAN, NEW first \in {"peek", "forward"}, Open(ok, first)
      PROVE  /\ upstream'[k] = "none" /\ produced'[k] = 0 /\ relay'[k] = Nothing
             /\ mark'[k] = "none"
  <2>1. 1 \in Attempt /\ UNCHANGED <<produced, relay, mark>> /\ handler = "open"
    BY <1>6 DEF Open, Attempt, StreamParameters
  <2>2. CASE ok
    <3>1. attempt' = 1 /\ upstream' = [upstream EXCEPT ![1] = "open"]
      BY <1>6, <2>2 DEF Open
    <3>2. attempt = 0
      BY <2>1 DEF InOrder
    <3>3. QED
      BY <1>1, <1>2, <1>3, <2>1, <3>1, <3>2
  <2>3. CASE ~ok
    <3>1. UNCHANGED <<attempt, upstream>>
      BY <1>6, <2>3 DEF Open
    <3>2. QED
      BY <1>3, <2>1, <3>1
  <2>4. QED
    BY <2>2, <2>3
<1>7. CASE TakePayload \/ TakeError
  <2>1. attempt' = attempt /\ UNCHANGED <<upstream, produced, mark>>
        /\ relay' = [relay EXCEPT ![attempt] = Nothing]
    BY <1>7 DEF TakePayload, TakeError
  <2>2. QED
    BY <1>2, <1>3, <2>1
<1>8. CASE Restart
  <2>1. attempt' = attempt + 1 /\ UNCHANGED <<produced, mark>>
        /\ relay' = [relay EXCEPT ![attempt] = Nothing]
        /\ upstream' = [upstream EXCEPT ![attempt + 1] = "open"]
    BY <1>8 DEF Restart
  <2>2. k > attempt /\ k # attempt + 1
    BY <1>1, <2>1
  <2>3. QED
    BY <1>2, <1>3, <2>1, <2>2
<1>9. CASE Stop \/ CloseErrors \/ CloseData \/ Writer \/ Leave \/ Cancel
  <2>1. UNCHANGED <<attempt, upstream, produced, relay, mark>>
    BY <1>9 DEF Stop, CloseErrors, CloseData, Writer, Write, ShowError, ShowDone, GiveUp,
                Leave, Cancel, sources
  <2>2. QED
    BY <1>3, <2>1
<1>10. QED
  BY <1>5, <1>6, <1>7, <1>8, <1>9 DEF Next, Handler

LEMMA InOrderStep ==
  ASSUME StreamParameters, TypeOK, NotBegun, InOrder, Next
  PROVE  InOrder'
<1>1. /\ attempt \in Nat /\ Attempt \subseteq Nat \ {0} /\ MaxRetries \in Nat
      /\ produced \in [Attempt -> 0..MaxPieces] /\ relay \in [Attempt -> Item]
      /\ \A k \in Attempt : produced[k] \in Nat
      /\ attempt > 0 => attempt \in Attempt
      /\ shown \in Seq(Item) /\ Len(shown) \in Nat
  BY DEF TypeOK, Attempt, StreamParameters
<1>2. /\ \A k \in Attempt : HasPiece(k) => relay[k] = Piece(k, produced[k])
      /\ handler = "open" => attempt = 0
      /\ handler \in {"receive", "send", "return", "closed"} => attempt > 0
      /\ attempt = 0 => shown = <<>> /\ handler # "send"
      /\ \A j \in 1..Len(shown) : shown[j] = Piece(attempt, j)
      /\ attempt > 0 =>
           produced[attempt] = Len(shown) + (IF handler = "send" THEN 1 ELSE 0)
                                          + (IF HasPiece(attempt) THEN 1 ELSE 0)
      /\ handler = "send" => payload = Piece(attempt, Len(shown) + 1)
      /\ shown # <<>> \/ handler = "send" => sentPayload
  BY DEF InOrder
<1>3. ASSUME NEW k \in Attempt, HandOver(k)
      PROVE  InOrder'
  <2>1. /\ UNCHANGED <<attempt, handler, payload, sentPayload, shown>>
        /\ relay[k] = Nothing /\ ~HasPiece(k)
        /\ produced'[k] = produced[k] + 1 /\ relay'[k] = Piece(k, produced[k] + 1)
        /\ \A l \in Attempt \ {k} : produced'[l] = produced[l] /\ relay'[l] = relay[l]
    BY <1>1, <1>3 DEF HandOver, HasPiece
  <2>2. HasPiece(k)' /\ \A l \in Attempt \ {k} : HasPiece(l)' <=> HasPiece(l)
    BY <2>1, PieceIsNone DEF HasPiece
  <2>3. \A l \in Attempt : HasPiece(l)' => relay'[l] = Piece(l, produced'[l])
    BY <1>2, <2>1, <2>2
  <2>4. ASSUME attempt > 0
        PROVE  produced'[attempt] = Len(shown) + (IF handler = "send" THEN 1 ELSE 0)
                                               + (IF HasPiece(attempt)' THEN 1 ELSE 0)
    <3>1. CASE k = attempt
      BY <1>1, <1>2, <2>1, <2>2, <2>4, <3>1
    <3>2. CASE k # attempt
      BY <1>1, <1>2, <2>1, <2>2, <2>4, <3>2
    <3>3. QED
      BY <3>1, <3>2
  <2>5. QED
    BY <1>2, <2>1, <2>3, <2>4 DEF InOrder
<1>4. ASSUME NEW k \in Attempt, HandOverError(k)
      PROVE  InOrder'
  <2>1. /\ UNCHANGED <<attempt, handler, payload, sentPayload, shown, produced>>
        /\ relay[k] = Nothing /\ relay'[k] = Failure
        /\ \A l \in Attempt \ {k} : relay'[l] = relay[l]
    BY <1>1, <1>4 DEF HandOverError
  <2>2. \A l \in Attempt : HasPiece(l)' <=> HasPiece(l)
    BY <2>1 DEF HasPiece
  <2>3. \A l \in Attempt : HasPiece(l)' => relay'[l] = relay[l]
    BY <2>1, <2>2 DEF HasPiece
  <2>4. attempt > 0 => (HasPiece(attempt)' <=> HasPiece(attempt))
    BY <1>1, <2>1, <2>2 DEF HasPiece
  <2>5. QED
    BY <1>1, <1>2, <2>1, <2>2, <2>3, <2>4 DEF InOrder
<1>5. ASSUME UNCHANGED <<relay, produced, attempt, handler, payload, sentPayload, shown>>
      PROVE  InOrder'
  BY <1>2, <1>5 DEF InOrder, HasPiece
<1>6. ASSUME NEW k \in Attempt, Finish(k)
      PROVE  InOrder'
  BY <1>5, <1>6 DEF Finish
<1>7. ASSUME NEW ok \in BOOLEAN, NEW first \in {"peek", "forward"}, Open(ok, first)
      PROVE  InOrder'
  <2>1. /\ UNCHANGED <<relay, produced, payload, sentPayload, shown>> /\ attempt = 0
        /\ shown = <<>> /\ Len(shown) = 0
    BY <1>2, <1>7 DEF Open
  <2>2. 1 \in Attempt /\ produced[1] = 0 /\ relay[1] = Nothing
    BY <1>1, <2>1 DEF NotBegun, Attempt
  <2>3. (attempt' = 1 /\ handler' = "receive") \/ (attempt' = attempt /\ handler' = "closing")
    BY <1>7 DEF Open
  <2>4. \A l \in Attempt : HasPiece(l)' <=> HasPiece(l)
    BY <2>1 DEF HasPiece
  <2>5. attempt' = 1 => ~HasPiece(attempt)' /\ produced'[attempt'] = 0
    BY <2>1, <2>2 DEF HasPiece
  <2>6. QED
    BY <1>2, <2>1, <2>2, <2>3, <2>4, <2>5 DEF InOrder
<1>8. CASE TakePayload
  <2>1. /\ UNCHANGED <<produced, attempt, shown>> /\ handler = "receive" /\ handler' = "send"
        /\ payload' = relay[attempt] /\ sentPayload' = TRUE
        /\ relay' = [relay EXCEPT ![attempt] = Nothing]
        /\ HasPiece(attempt)
    BY <1>8 DEF TakePayload, HasPiece
  <2>2. /\ attempt > 0 /\ attempt \in Attempt
        /\ relay'[attempt] = Nothing
        /\ \A l \in Attempt \ {attempt} : relay'[l] = relay[l]
    BY <1>1, <1>2, <2>1
  <2>3. produced[attempt] = Len(shown) + 1
    BY <1>1, <1>2, <2>1, <2>2
  <2>4. payload' = Piece(attempt, Len(shown) + 1)
    BY <1>2, <2>1, <2>2, <2>3
  <2>5. \A l \in Attempt : HasPiece(l)' => HasPiece(l) /\ l # attempt
    BY <2>2 DEF HasPiece
  <2>6. ~HasPiece(attempt)'
    BY <2>1, <2>2 DEF HasPiece
  <2>7. QED
    BY <1>1, <1>2, <2>1, <2>2, <2>3, <2>4, <2>5, <2>6 DEF InOrder
<1>9. CASE Restart
  <2>1. /\ UNCHANGED <<produced, handler, payload, sentPayload, shown>> /\ handler = "receive"
        /\ attempt' = attempt + 1 /\ attempt <= MaxRetries /\ ~sentPayload
        /\ relay' = [relay EXCEPT ![attempt] = Nothing]
    BY <1>9 DEF Restart, MayRetry
  <2>2. /\ attempt > 0 /\ attempt \in Attempt /\ attempt + 1 \in Attempt
        /\ shown = <<>> /\ Len(shown) = 0
    BY <1>1, <1>2, <2>1 DEF Attempt
  <2>3. produced[attempt + 1] = 0 /\ relay[attempt + 1] = Nothing
    BY <1>1, <2>2 DEF NotBegun
  <2>4. \A l \in Attempt : HasPiece(l)' => HasPiece(l) /\ relay'[l] = relay[l]
    BY <1>1, <2>1, <2>2 DEF HasPiece
  <2>5. ~HasPiece(attempt)' /\ produced'[attempt'] = 0 /\ attempt' > 0
    BY <1>1, <2>1, <2>2, <2>3 DEF HasPiece
  <2>6. QED
    BY <1>2, <2>1, <2>2, <2>4, <2>5 DEF InOrder
<1>10. CASE TakeError
  <2>1. /\ UNCHANGED <<produced, attempt, payload, sentPayload, shown>>
        /\ handler = "receive" /\ handler' = "return"
        /\ relay' = [relay EXCEPT ![attempt] = Nothing] /\ relay[attempt] = Failure
    BY <1>10 DEF TakeError
  <2>2. attempt > 0 /\ attempt \in Attempt
    BY <1>1, <1>2, <2>1
  <2>3. \A l \in Attempt : /\ HasPiece(l)' <=> HasPiece(l)
                           /\ HasPiece(l) => relay'[l] = relay[l]
    BY <1>1, <2>1, <2>2 DEF HasPiece
  <2>4. HasPiece(attempt)' <=> HasPiece(attempt)
    BY <2>1, <2>2, <2>3 DEF HasPiece
  <2>5. QED
    BY <1>1, <1>2, <2>1, <2>2, <2>3, <2>4 DEF InOrder
<1>11. CASE Stop \/ CloseErrors \/ CloseData
  <2>1. /\ UNCHANGED <<relay, produced, attempt, payload, sentPayload, shown>>
        /\ handler \notin {"send", "open"} /\ handler' \in {"return", "closing", "closed"}
        /\ handler' = "return" => handler = "receive"
        /\ handler' = "closed" => attempt # 0
    BY <1>11 DEF Stop, CloseErrors, CloseData, sources
  <2>2. attempt' > 0 => (HasPiece(attempt)' <=> HasPiece(attempt))
    BY <2>1 DEF HasPiece
  <2>3. \A l \in Attempt : HasPiece(l)' <=> HasPiece(l)
    BY <2>1 DEF HasPiece
  <2>4. handler' # "open" /\ handler' # "send" /\ handler # "send"
    BY <2>1
  <2>5. handler' \in {"receive", "send", "return", "closed"} => attempt' > 0
    BY <1>1, <1>2, <2>1
  <2>6. attempt' > 0 => produced'[attempt'] = Len(shown') + (IF HasPiece(attempt)' THEN 1 ELSE 0)
    BY <1>1, <1>2, <2>1, <2>2, <2>4
  <2>7. \A l \in Attempt : HasPiece(l)' => relay'[l] = Piece(l, produced'[l])
    BY <1>2, <2>1, <2>3
  <2>8. \A j \in 1..Len(shown') : shown'[j] = Piece(attempt', j)
    BY <1>2, <2>1
  <2>9. (attempt' = 0 => shown' = <<>>) /\ (shown' # <<>> => sentPayload')
    BY <1>2, <2>1
  <2>10. attempt' > 0 =>
          produced'[attempt'] = Len(shown') + (IF handler' = "send" THEN 1 ELSE 0)
                                            + (IF HasPiece(attempt)' THEN 1 ELSE 0)
    BY <1>1, <2>1, <2>4, <2>6
  <2>11. QED
    BY <2>4, <2>5, <2>7, <2>8, <2>9, <2>10 DEF InOrder
<1>12. CASE Write
  <2>1. /\ UNCHANGED <<relay, produced, attempt, payload, sentPayload>>
        /\ handler = "send" /\ handler' = "receive" /\ shown' = Append(shown, payload)
    BY <1>12 DEF Write, sources
  <2>2. payload \in Item
    BY DEF TypeOK
  <2>3. /\ Len(shown') = Len(shown) + 1 /\ shown'[Len(shown) + 1] = payload
        /\ \A j \in 1..Len(shown) : shown'[j] = shown[j]
    BY <1>1, <2>1, <2>2
  <2>4. \A j \in 1..Len(shown') : j \in 1..Len(shown) \/ j = Len(shown) + 1
    BY <1>1, <2>3
  <2>5. \A j \in 1..Len(shown') : shown'[j] = Piece(attempt, j)
    BY <1>2, <2>1, <2>3, <2>4
  <2>6. attempt > 0 /\ (HasPiece(attempt)' <=> HasPiece(attempt))
    BY <1>2, <2>1 DEF HasPiece
  <2>7. \A l \in Attempt : HasPiece(l)' <=> HasPiece(l)
    BY <2>1 DEF HasPiece
  <2>8. produced'[attempt'] = Len(shown') + (IF HasPiece(attempt)' THEN 1 ELSE 0)
    BY <1>1, <1>2, <2>1, <2>3, <2>6
  <2>9. sentPayload' /\ attempt' # 0
    BY <1>1, <1>2, <2>1, <2>6
  <2>10. QED
    BY <1>1, <1>2, <2>1, <2>3, <2>5, <2>6, <2>7, <2>8, <2>9 DEF InOrder
<1>13. CASE ShowError \/ ShowDone \/ GiveUp \/ Leave \/ Cancel
  BY <1>5, <1>13 DEF ShowError, ShowDone, GiveUp, Leave, Cancel, sources
<1>14. QED
  BY <1>3, <1>4, <1>6, <1>7, <1>8, <1>9, <1>10, <1>11, <1>12, <1>13
  DEF Next, Source, Handler, Writer

LEMMA Starts ==
  ASSUME StreamParameters, Init
  PROVE  TypeOK /\ NotBegun /\ InOrder /\ Ended
<1>1. TypeOK
  <2>1. /\ 0 \in 0..MaxPieces /\ 0 \in 0..(MaxRetries + 1)
        /\ <<>> \in Seq(Item)
    BY DEF StreamParameters
  <2>2. /\ upstream \in [Attempt -> {"none", "open", "failed", "closed"}]
        /\ produced \in [Attempt -> 0..MaxPieces] /\ relay \in [Attempt -> Item]
        /\ mark \in [Attempt -> {"none", "failure", "success"}]
    BY <2>1, Items DEF Init
  <2>3. errors \in [message : BOOLEAN, closed : BOOLEAN] /\ payload \in Item
    BY Items DEF Init
  <2>4. QED
    BY <2>1, <2>2, <2>3 DEF Init, TypeOK
<1>2. NotBegun /\ InOrder
  BY DEF Init, NotBegun, InOrder, HasPiece
<1>3. Ended
  BY DEF Init, Ended, ResultRecorded, FailureReported, EndedForAReason, WriterEnds, EndedWhole
<1>4. QED
  BY <1>1, <1>2, <1>3

LEMMA RecordedStep ==
  ASSUME StreamParameters, TypeOK, NotBegun, InOrder, ResultRecorded, Next
  PROVE  ResultRecorded'
<1>1. /\ attempt \in Nat /\ MaxRetries \in Nat
      /\ upstream \in [Attempt -> {"none", "open", "failed", "closed"}]
      /\ mark \in [Attempt -> {"none", "failure", "success"}]
      /\ \A k \in Attempt : mark[k] = "none" <=> upstream[k] \in {"none", "open"}
  BY DEF TypeOK, StreamParameters, ResultRecorded
<1>2. ASSUME UNCHANGED <<upstream, mark>>
      PROVE  ResultRecorded'
  BY <1>1, <1>2 DEF ResultRecorded
<1>3. ASSUME NEW k \in Attempt, mark[k] = "none", upstream' = [upstream EXCEPT ![k] = "open"],
             mark' = mark
      PROVE  ResultRecorded'
  BY <1>1, <1>3 DEF ResultRecorded
<1>4. ASSUME NEW k \in Attempt, Source(k)
      PROVE  ResultRecorded'
  <2>1. CASE HandOver(k)
    BY <1>2, <2>1 DEF HandOver
  <2>2. CASE HandOverError(k)
    BY <1>1, <2>2 DEF HandOverError, ResultRecorded
  <2>3. CASE Finish(k)
    BY <1>1, <2>3 DEF Finish, ResultRecorded
  <2>4. QED
    BY <1>4, <2>1, <2>2, <2>3 DEF Source
<1>5. ASSUME NEW ok \in BOOLEAN, NEW first \in {"peek", "forward"}, Open(ok, first)
      PROVE  ResultRecorded'
  <2>1. 1 \in Attempt /\ mark[1] = "none"
    <3>1. attempt = 0 /\ 1 \in Attempt
      BY <1>1, <1>5 DEF Open, InOrder, Attempt
    <3>2. QED
      BY <3>1 DEF NotBegun
  <2>2. mark' = mark /\ (upstream' = upstream \/ upstream' = [upstream EXCEPT ![1] = "open"])
    BY <1>5 DEF Open
  <2>3. QED
    BY <1>2, <1>3, <2>1, <2>2
<1>6. CASE Restart
  <2>1. /\ attempt + 1 \in Attempt /\ mark' = mark
        /\ upstream' = [upstream EXCEPT ![attempt + 1] = "open"]
    BY <1>1, <1>6 DEF Restart, MayRetry, Attempt
  <2>2. mark[attempt + 1] = "none"
    BY <1>1, <2>1 DEF NotBegun
  <2>3. QED
    BY <1>3, <2>1, <2>2
<1>7. CASE TakePayload \/ TakeError \/ Stop \/ CloseErrors \/ CloseData \/ Writer \/ Leave
           \/ Cancel
  BY <1>2, <1>7 DEF TakePayload, TakeError, Stop, CloseErrors, CloseData, Writer, Write,
                    ShowError, ShowDone, GiveUp, Leave, Cancel, sources
<1>8. QED
  BY <1>4, <1>5, <1>6, <1>7 DEF Next, Handler

LEMMA WriterStep ==
  ASSUME StreamParameters, TypeOK, InOrder, WriterEnds, Next
  PROVE  WriterEnds'
<1>1. /\ writer \in {"call", "peek", "forward", "finished"} /\ shown \in Seq(Item)
      /\ done \in BOOLEAN /\ gone \in BOOLEAN
  BY DEF TypeOK
<1>2. /\ done => gone \/ writer = "finished"
      /\ (shown # <<>> /\ writer # "finished") => writer = "forward"
      /\ outcome # "none" => writer = "finished"
      /\ writer = "call" <=> handler = "open"
  BY DEF WriterEnds
<1>3. ASSUME UNCHANGED <<writer, shown, outcome, done>>, gone => gone',
             handler' = "open" <=> handler = "open"
      PROVE  WriterEnds'
  BY <1>2, <1>3 DEF WriterEnds
<1>4. ASSUME NEW k \in Attempt, Source(k)
      PROVE  WriterEnds'
  BY <1>3, <1>4 DEF Source, HandOver, HandOverError, Finish
<1>5. ASSUME NEW ok \in BOOLEAN, NEW first \in {"peek", "forward"}, Open(ok, first)
      PROVE  WriterEnds'
  <2>1. handler = "open" /\ shown = <<>> /\ handler' # "open" /\ writer' = first
        /\ UNCHANGED <<shown, outcome, done, gone>>
    BY <1>5 DEF Open, InOrder
  <2>2. QED
    BY <1>1, <1>2, <2>1 DEF WriterEnds
<1>6. CASE TakePayload \/ Restart \/ TakeError \/ Stop \/ CloseErrors \/ CloseData \/ Leave
  BY <1>3, <1>6 DEF TakePayload, Restart, TakeError, Stop, CloseErrors, CloseData, Leave,
                    sources
<1>7. CASE Write
  BY <1>1, <1>2, <1>7 DEF Write, Reading, WriterEnds, sources
<1>8. CASE ShowError \/ ShowDone \/ GiveUp
  <2>1. writer \in {"peek", "forward"} /\ writer' = "finished" /\ handler' = handler
    BY <1>8 DEF ShowError, ShowDone, GiveUp, End, Reading, sources
  <2>2. QED
    BY <1>2, <2>1 DEF WriterEnds
<1>9. CASE Cancel
  BY <1>1, <1>2, <1>9 DEF Cancel, WriterEnds, sources
<1>10. QED
  BY <1>4, <1>5, <1>6, <1>7, <1>8, <1>9 DEF Next, Handler, Writer

\* The three parts of Ended that speak of the present attempt.
PresentEnds == FailureReported /\ EndedForAReason /\ EndedWhole

LEMMA PresentStep ==
  ASSUME StreamParameters, TypeOK, NotBegun, InOrder, Ended, Next
  PROVE  PresentEnds'
<1>1. /\ attempt \in Nat /\ MaxRetries \in Nat /\ Attempt \subseteq Nat \ {0}
      /\ attempt > 0 => attempt \in Attempt
      /\ upstream \in [Attempt -> {"none", "open", "failed", "closed"}]
      /\ mark \in [Attempt -> {"none", "failure", "success"}]
      /\ relay \in [Attempt -> Item] /\ produced \in [Attempt -> 0..MaxPieces]
      /\ errors \in [message : BOOLEAN, closed : BOOLEAN]
  BY DEF TypeOK, Attempt, StreamParameters
<1>2. /\ \A k \in Attempt : mark[k] = "none" <=> upstream[k] \in {"none", "open"}
      /\ (attempt > 0 /\ mark[attempt] = "failure" /\ relay[attempt] # Failure)
            => errors.message \/ done
      /\ (attempt > 0 /\ handler \in {"return", "closing", "closed"})
            => done \/ errors.message \/ Drained(attempt)
      /\ (outcome = "done" /\ shown # <<>> /\ ~gone)
            => /\ attempt > 0 /\ handler = "closed"
               /\ mark[attempt] = "success" /\ Drained(attempt)
               /\ Len(shown) = produced[attempt]
  BY DEF Ended, ResultRecorded, FailureReported, EndedForAReason, EndedWhole
<1>3. /\ done => gone \/ writer = "finished"
      /\ (shown # <<>> /\ writer # "finished") => writer = "forward"
      /\ outcome # "none" => writer = "finished"
      /\ writer = "call" <=> handler = "open"
  BY DEF Ended, WriterEnds
<1>4. handler = "open" => attempt = 0 /\ shown = <<>>
  BY DEF InOrder
<1>5. ASSUME NEW k \in Attempt, Source(k)
      PROVE  PresentEnds'
  <2>1. /\ UNCHANGED <<attempt, handler, errors, writer, shown, outcome, done, gone>>
        /\ upstream[k] # "closed" \/ relay[k] # Nothing
        /\ upstream' = [upstream EXCEPT ![k] = upstream'[k]]
        /\ mark' = [mark EXCEPT ![k] = mark'[k]]
        /\ relay' = [relay EXCEPT ![k] = relay'[k]]
        /\ produced' = [produced EXCEPT ![k] = produced'[k]]
        /\ ~Drained(k)
    BY <1>1, <1>5 DEF Source, HandOver, HandOverError, Finish, Drained
  <2>2. mark'[k] = "failure" => relay'[k] = Failure \/ (mark[k] = "failure" /\ relay[k] # Failure)
    BY <1>1, <1>2, <1>5, PieceIsNone DEF Source, HandOver, HandOverError, Finish
  <2>3. CASE k = attempt
    <3>1. FailureReported'
      BY <1>1, <1>2, <2>1, <2>2, <2>3 DEF FailureReported
    <3>2. EndedForAReason'
      BY <1>2, <2>1, <2>3 DEF EndedForAReason
    <3>3. EndedWhole'
      BY <1>2, <2>1, <2>3 DEF EndedWhole
    <3>4. QED
      BY <3>1, <3>2, <3>3 DEF PresentEnds
  <2>4. CASE k # attempt
    <3>1. attempt > 0 => /\ mark'[attempt] = mark[attempt] /\ relay'[attempt] = relay[attempt]
                         /\ upstream'[attempt] = upstream[attempt]
                         /\ produced'[attempt] = produced[attempt]
      BY <1>1, <2>1, <2>4
    <3>2. FailureReported'
      BY <1>2, <2>1, <3>1 DEF FailureReported
    <3>3. EndedForAReason'
      BY <1>2, <2>1, <3>1 DEF EndedForAReason, Drained
    <3>4. EndedWhole'
      BY <1>2, <2>1, <3>1 DEF EndedWhole, Drained
    <3>5. QED
      BY <3>2, <3>3, <3>4 DEF PresentEnds
  <2>5. QED
    BY <2>3, <2>4
<1>6. ASSUME NEW ok \in BOOLEAN, NEW first \in {"peek", "forward"}, Open(ok, first)
      PROVE  PresentEnds'
  <2>1. /\ handler = "open" /\ shown = <<>> /\ attempt = 0
        /\ UNCHANGED <<produced, relay, mark, shown, outcome, done, gone>>
        /\ (attempt' = 1 /\ handler' = "receive") \/ (attempt' = 0 /\ handler' = "closing")
    BY <1>4, <1>6 DEF Open
  <2>2. 1 \in Attempt /\ mark[1] = "none"
    BY <1>1, <2>1 DEF NotBegun, Attempt
  <2>3. QED
    BY <2>1, <2>2 DEF PresentEnds, FailureReported, EndedForAReason, EndedWhole
<1>7. CASE TakePayload
  <2>1. /\ UNCHANGED <<upstream, produced, mark, attempt, errors, shown, outcome, done, gone>>
        /\ relay' = [relay EXCEPT ![attempt] = Nothing]
        /\ relay[attempt] # Failure /\ handler = "receive" /\ handler' = "send"
    BY <1>7 DEF TakePayload
  <2>2. QED
    BY <1>1, <1>2, <2>1, PieceIsNone
    DEF PresentEnds, FailureReported, EndedForAReason, EndedWhole
<1>8. CASE Restart
  <2>1. /\ UNCHANGED <<produced, mark, shown, outcome, gone, handler>>
        /\ attempt' = attempt + 1 /\ handler = "receive" /\ attempt + 1 \in Attempt
    BY <1>1, <1>8 DEF Restart, MayRetry, Attempt
  <2>2. mark[attempt + 1] = "none"
    BY <1>1, <2>1 DEF NotBegun
  <2>3. QED
    BY <1>2, <2>1, <2>2 DEF PresentEnds, FailureReported, EndedForAReason, EndedWhole
<1>9. CASE TakeError
  <2>1. /\ UNCHANGED <<upstream, produced, mark, attempt, shown, outcome, done, gone>>
        /\ errors'.message /\ handler = "receive"
    BY <1>1, <1>9 DEF TakeError
  <2>2. QED
    BY <1>2, <2>1 DEF PresentEnds, FailureReported, EndedForAReason, EndedWhole
<1>10. CASE Stop \/ CloseErrors \/ CloseData
  <2>1. /\ UNCHANGED <<sources, attempt, shown, outcome, done, gone>>
        /\ errors'.message <=> errors.message
        /\ handler # "closed"
        /\ handler = "receive" => done \/ Drained(attempt)
        /\ handler \in {"receive", "return", "closing"}
    BY <1>1, <1>10 DEF Stop, CloseErrors, CloseData
  <2>2. QED
    BY <1>2, <2>1
    DEF PresentEnds, FailureReported, EndedForAReason, EndedWhole, Drained, sources
<1>11. CASE Write
  <2>1. /\ UNCHANGED <<sources, attempt, errors, outcome, done, gone>> /\ writer # "finished"
        /\ handler' = "receive"
    BY <1>11 DEF Write, Reading
  <2>2. outcome = "none" /\ outcome' = "none"
    BY <1>3, <2>1
  <2>3. QED
    BY <1>2, <2>1, <2>2
    DEF PresentEnds, FailureReported, EndedForAReason, EndedWhole, sources
<1>12. CASE ShowDone
  <2>1. /\ UNCHANGED <<sources, attempt, handler, errors, shown, gone>> /\ done'
        /\ writer \in {"peek", "forward"} /\ handler = "closed"
        /\ writer = "forward" => ~errors.message
    BY <1>12 DEF ShowDone, End, Reading
  <2>2. ASSUME shown # <<>>, ~gone
        PROVE  /\ attempt > 0 /\ mark[attempt] = "success" /\ Drained(attempt)
               /\ Len(shown) = produced[attempt]
    <3>1. ~done /\ ~errors.message
      BY <1>3, <2>1, <2>2
    <3>2. attempt > 0
      BY <2>1 DEF InOrder
    <3>3. Drained(attempt)
      BY <1>2, <2>1, <3>1, <3>2
    <3>4. mark[attempt] # "none"
      BY <1>1, <1>2, <3>2, <3>3 DEF Drained
    <3>5. mark[attempt] # "failure"
      BY <1>2, <3>1, <3>2, <3>3, PieceIsNone DEF Drained
    <3>6. mark[attempt] = "success"
      BY <1>1, <3>2, <3>4, <3>5
    <3>7. Len(shown) \in Nat /\ ~HasPiece(attempt)
      BY <3>3 DEF TypeOK, HasPiece, Drained
    <3>8. produced[attempt] = Len(shown)
      BY <2>1, <3>2, <3>7 DEF InOrder
    <3>9. QED
      BY <3>2, <3>3, <3>6, <3>8
  <2>3. FailureReported' /\ EndedForAReason'
    BY <2>1 DEF FailureReported, EndedForAReason
  <2>4. EndedWhole'
    BY <2>1, <2>2 DEF EndedWhole, Drained, sources
  <2>5. QED
    BY <2>3, <2>4 DEF PresentEnds
<1>13. CASE ShowError \/ GiveUp
  <2>1. done' /\ outcome' # "done"
    BY <1>13 DEF ShowError, GiveUp, End
  <2>2. QED
    BY <2>1 DEF PresentEnds, FailureReported, EndedForAReason, EndedWhole
<1>14. CASE Leave \/ Cancel
  <2>1. /\ UNCHANGED <<sources, attempt, handler, errors, shown, outcome>>
        /\ done => done'
        /\ gone => gone'
    BY <1>14 DEF Leave, Cancel
  <2>2. QED
    BY <1>2, <2>1
    DEF PresentEnds, FailureReported, EndedForAReason, EndedWhole, Drained, sources
<1>15. QED
  BY <1>5, <1>6, <1>7, <1>8, <1>9, <1>10, <1>11, <1>12, <1>13, <1>14
  DEF Next, Handler, Writer

IInv == TypeOK /\ NotBegun /\ InOrder /\ Ended

LEMMA Goes ==
  ASSUME StreamParameters, IInv, [Next]_vars
  PROVE  IInv'
<1>1. CASE Next
  <2>1. TypeOK' /\ NotBegun' /\ InOrder'
    BY <1>1, TypeStep, NotBegunStep, InOrderStep DEF IInv
  <2>2. ResultRecorded' /\ WriterEnds'
    BY <1>1, RecordedStep, WriterStep DEF IInv, Ended
  <2>3. PresentEnds'
    BY <1>1, PresentStep DEF IInv
  <2>4. QED
    BY <2>1, <2>2, <2>3 DEF IInv, Ended, PresentEnds
<1>2. CASE UNCHANGED vars
  <2>1. TypeOK'
    BY <1>2 DEF IInv, TypeOK, vars, sources
  <2>2. NotBegun' /\ InOrder'
    BY <1>2 DEF IInv, NotBegun, InOrder, HasPiece, vars, sources
  <2>3. ResultRecorded' /\ WriterEnds'
    BY <1>2 DEF IInv, Ended, ResultRecorded, WriterEnds, vars, sources
  <2>4. FailureReported' /\ EndedForAReason' /\ EndedWhole'
    BY <1>2 DEF IInv, Ended, FailureReported, EndedForAReason, EndedWhole, Drained, vars, sources
  <2>5. QED
    BY <2>1, <2>2, <2>3, <2>4 DEF IInv, Ended
<1>3. QED
  BY <1>1, <1>2

LEMMA AlwaysIInv ==
  ASSUME StreamParameters
  PROVE  Spec => []IInv
<1>1. Init => IInv
  BY Starts DEF IInv
<1>2. IInv /\ [Next]_vars => IInv'
  BY Goes
<1>3. QED
  BY <1>1, <1>2, PTL DEF Spec

-----------------------------------------------------------------------------
\* Every reachable state of a streamed answer has its type, for every number of
\* bootstrap retries and every length of a stream (ExecuteStreamWithAuthManager).
THEOREM StreamTypeCorrect ==
  ASSUME StreamParameters
  PROVE  Spec => []TypeOK
<1>1. IInv => TypeOK
  BY DEF IInv
<1>2. QED
  BY <1>1, AlwaysIInv, PTL

\* The client is shown the payloads of one attempt, in order and without a gap, however
\* many bootstrap retries there are (ExecuteStreamWithAuthManager, ForwardStream).
THEOREM OneAttemptIsShown ==
  ASSUME StreamParameters
  PROVE  Spec => []OneAttemptShown
<1>1. ASSUME IInv
      PROVE  OneAttemptShown
  <2>1. shown \in Seq(Item) /\ \A j \in 1..Len(shown) : shown[j] = Piece(attempt, j)
    BY <1>1 DEF IInv, TypeOK, InOrder
  <2>2. DOMAIN shown = 1..Len(shown) /\ Len(shown) \in Nat
    BY <2>1
  <2>3. ASSUME NEW j \in 1..Len(shown)
        PROVE  shown[j] = Piece(shown[1][1], j)
    <3>1. 1 \in 1..Len(shown)
      BY <2>2, <2>3
    <3>2. shown[1][1] = attempt
      BY <2>1, <3>1 DEF Piece
    <3>3. QED
      BY <2>1, <3>2
  <2>4. QED
    BY <2>2, <2>3 DEF OneAttemptShown
<1>2. QED
  BY <1>1, AlwaysIInv, PTL

\* A streamed response ended as complete, to a client that is still there, has shown
\* everything the provider sent, and the provider did not fail (the order of the
\* deferred closes, ForwardStream's last look at errs).
THEOREM CompleteStreamsAreWhole ==
  ASSUME StreamParameters
  PROVE  Spec => []DoneIsWhole
<1>1. ASSUME IInv
      PROVE  DoneIsWhole
  <2>1. attempt \in Nat
    BY <1>1 DEF IInv, TypeOK, StreamParameters
  <2>2. EndedWhole
    BY <1>1 DEF IInv, Ended
  <2>3. QED
    BY <2>1, <2>2 DEF DoneIsWhole, Whole, EndedWhole
<1>2. QED
  BY <1>1, AlwaysIInv, PTL

-----------------------------------------------------------------------------
(* The log of a request. *)

\* The chunks of s are among the first n, in the order they were sent in; and all of s come
\* before all of t.
Rising(s, n) ==
  \A i \in 1..Len(s) : s[i] <= n /\ \A j \in 1..Len(s) : i < j => s[i] < s[j]
Before(s, t) == \A i \in 1..Len(s), j \in 1..Len(t) : s[i] < t[j]

\* No chunk was passed over.
NoneMissing == logExcuses \cap {"full", "switched", "unbuffered", "late"} = {}

\* Without a streamWriter nothing of it is there, and the buffer has what was sent.
Buffered ==
  ~logWriter =>
    /\ channel = <<>> /\ logRelay = "none" /\ logHeld = 0 /\ chunkChan = <<>> /\ ~chunkChanClosed
    /\ spooler = "none" /\ spool = <<>> /\ ~logOpen /\ ~logFailed /\ ~temp
    /\ Rising(body, logSent) /\ (NoneMissing => Len(body) = logSent)

\* What is in the file, in the one channel, at hand and in the other channel is what was
\* sent, in this order, and nothing else, unless the spooler failed.
InLine ==
  /\ Rising(spool, logSent) /\ Rising(chunkChan, logSent) /\ Rising(channel, logSent)
  /\ Before(spool, chunkChan) /\ Before(spool, channel) /\ Before(chunkChan, channel)
  /\ logHeld # 0 => /\ logHeld <= logSent /\ Before(spool, <<logHeld>>)
                    /\ Before(chunkChan, <<logHeld>>) /\ Before(<<logHeld>>, channel)
  /\ logWriter /\ NoneMissing /\ ~logFailed =>
       Len(spool) + Len(chunkChan) + (IF logHeld # 0 THEN 1 ELSE 0) + Len(channel) = logSent

\* Who has ended has left nothing behind, and who was before it has ended too.
EndInTurn ==
  /\ logWriter => status # "none" /\ logRelay # "none" /\ spooler # "none"
  /\ logHeld # 0 => logRelay = "running"
  /\ logRelay = "over" =>
       logPc # "serving" /\ logHeld = 0 /\ ("late" \in logExcuses \/ channel = <<>>)
  /\ spooler = "running" /\ ~logFailed => logOpen
  /\ logPc \in {"draining", "closing"} => logWriter
  /\ logPc = "closing" => chunkChanClosed
  /\ chunkChanClosed => logPc \in {"closing", "over"} /\ logRelay = "over"
  /\ spooler = "over" => chunkChan = <<>> /\ chunkChanClosed
  /\ logPc = "over" /\ logWriter /\ "off" \notin logExcuses =>
       logRelay = "over" /\ spooler = "over" /\ ~temp

\* The log file, once it is there, has what there was.
LogKept ==
  kept => logPc = "over" /\ Rising(logged, logSent) /\ (NoneMissing => Len(logged) = logSent)

LogInv == Log!TypeOK /\ Buffered /\ InLine /\ EndInTurn /\ LogKept

LEMMA RisingMore ==
  ASSUME NEW s \in Seq(Nat), NEW n \in Nat, Rising(s, n)
  PROVE  /\ Rising(s, n + 1) /\ Rising(Append(s, n + 1), n + 1) /\ Before(s, <<n + 1>>)
         /\ Len(Append(s, n + 1)) = Len(s) + 1
<1>1. Len(s) \in Nat /\ \A i \in 1..Len(s) : s[i] \in Nat
  OBVIOUS
<1>2. Rising(s, n + 1) /\ Before(s, <<n + 1>>)
  BY <1>1 DEF Rising, Before
<1>3. /\ Len(Append(s, n + 1)) = Len(s) + 1
      /\ \A i \in 1..Len(s) : Append(s, n + 1)[i] = s[i]
      /\ Append(s, n + 1)[Len(s) + 1] = n + 1
  BY <1>1
<1>4. Rising(Append(s, n + 1), n + 1)
  BY <1>1, <1>3 DEF Rising
<1>. QED
  BY <1>2, <1>3, <1>4

LEMMA RisingTail ==
  ASSUME NEW s \in Seq(Nat), NEW n \in Nat, Rising(s, n), s # <<>>
  PROVE  /\ Head(s) \in Nat /\ Head(s) <= n /\ Rising(Tail(s), n)
         /\ Before(<<Head(s)>>, Tail(s)) /\ Len(Tail(s)) = Len(s) - 1
<1>1. Len(s) \in Nat \ {0} /\ \A i \in 1..Len(s) : s[i] \in Nat
  OBVIOUS
<1>2. /\ Len(Tail(s)) = Len(s) - 1 /\ Head(s) = s[1]
      /\ \A i \in 1..(Len(s) - 1) : Tail(s)[i] = s[i + 1]
  BY <1>1
<1>3. Rising(Tail(s), n)
  BY <1>1, <1>2 DEF Rising
<1>4. Before(<<Head(s)>>, Tail(s))
  BY <1>1, <1>2 DEF Rising, Before
<1>. QED
  BY <1>1, <1>2, <1>3, <1>4 DEF Rising

LEMMA RisingAppend ==
  ASSUME NEW s \in Seq(Nat), NEW n \in Nat, Rising(s, n), NEW x \in Nat, x <= n, Before(s, <<x>>)
  PROVE  Rising(Append(s, x), n) /\ Len(Append(s, x)) = Len(s) + 1
<1>1. Len(s) \in Nat /\ \A i \in 1..Len(s) : s[i] \in Nat
  OBVIOUS
<1>2. /\ Len(Append(s, x)) = Len(s) + 1
      /\ \A i \in 1..Len(s) : Append(s, x)[i] = s[i]
      /\ Append(s, x)[Len(s) + 1] = x
  BY <1>1
<1>3. \A i \in 1..Len(s) : s[i] < x
  BY DEF Before
<1>. QED
  BY <1>1, <1>2, <1>3 DEF Rising

LEMMA BeforeTail ==
  ASSUME NEW s \in Seq(Nat), NEW t \in Seq(Nat), Before(s, t), t # <<>>
  PROVE  Before(s, <<Head(t)>>) /\ Before(s, Tail(t))
<1>1. Len(t) \in Nat \ {0} /\ Len(s) \in Nat
  OBVIOUS
<1>2. /\ Len(Tail(t)) = Len(t) - 1 /\ Head(t) = t[1]
      /\ \A i \in 1..(Len(t) - 1) : Tail(t)[i] = t[i + 1]
  BY <1>1
<1>. QED
  BY <1>1, <1>2 DEF Before

LEMMA TailBefore ==
  ASSUME NEW s \in Seq(Nat), NEW t \in Seq(Nat), Before(s, t), s # <<>>
  PROVE  Before(<<Head(s)>>, t) /\ Before(Tail(s), t)
<1>1. Len(s) \in Nat \ {0} /\ Len(t) \in Nat
  OBVIOUS
<1>2. /\ Len(Tail(s)) = Len(s) - 1 /\ Head(s) = s[1]
      /\ \A i \in 1..(Len(s) - 1) : Tail(s)[i] = s[i + 1]
  BY <1>1
<1>. QED
  BY <1>1, <1>2 DEF Before

LEMMA BeforeAppend ==
  ASSUME NEW s \in Seq(Nat), NEW t \in Seq(Nat), NEW x \in Nat, Before(s, t)
  PROVE  /\ Before(<<x>>, t) => Before(Append(s, x), t)
         /\ Before(s, <<x>>) => Before(s, Append(t, x))
<1>1. Len(s) \in Nat /\ Len(t) \in Nat
  OBVIOUS
<1>2. /\ Len(Append(s, x)) = Len(s) + 1 /\ Append(s, x)[Len(s) + 1] = x
      /\ \A i \in 1..Len(s) : Append(s, x)[i] = s[i]
      /\ Len(Append(t, x)) = Len(t) + 1 /\ Append(t, x)[Len(t) + 1] = x
      /\ \A i \in 1..Len(t) : Append(t, x)[i] = t[i]
  BY <1>1
<1>. QED
  BY <1>1, <1>2 DEF Before

\* What the proofs need of the type.
LEMMA LogTyped ==
  ASSUME Log!LogParameters, Log!TypeOK
  PROVE  /\ logSent \in Nat /\ logHeld \in Nat
         /\ body \in Seq(Nat) /\ channel \in Seq(Nat) /\ chunkChan \in Seq(Nat)
         /\ spool \in Seq(Nat) /\ logged \in Seq(Nat)
<1>1. LogChunks \in Nat /\ logSent \in 0..LogChunks /\ logHeld \in Log!Chunk \cup {0}
  BY DEF Log!LogParameters, Log!TypeOK
<1>2. Log!Chunk \subseteq Nat /\ Seq(Log!Chunk) \subseteq Seq(Nat)
  BY <1>1 DEF Log!Chunk
<1>3. {body, channel, chunkChan, spool, logged} \subseteq Seq(Log!Chunk)
  BY DEF Log!TypeOK
<1>. QED
  BY <1>1, <1>2, <1>3

LEMMA LogTypeNext == ASSUME Log!LogParameters, Log!TypeOK, Log!Next PROVE Log!TypeOK'
<1>. USE DEF Log!TypeOK, Log!LogParameters
<1>0. /\ Log!Chunk \subseteq Nat /\ LogCapacity \in Nat \ {0} /\ LogChunks \in Nat \ {0}
      /\ logSent \in 0..LogChunks
  BY DEF Log!Chunk
<1>1. ASSUME NEW q \in Seq(Log!Chunk), Len(q) <= LogCapacity, NEW x \in Log!Chunk
      PROVE  Log!Offer(q, x) \in Seq(Log!Chunk) /\ Len(Log!Offer(q, x)) <= LogCapacity
  <2>1. Len(Append(q, x)) = Len(q) + 1 /\ Append(q, x) \in Seq(Log!Chunk) /\ Len(q) \in Nat
    BY <1>1
  <2>. QED
    BY <1>0, <1>1, <2>1 DEF Log!Offer
<1>2. ASSUME NEW q \in Seq(Log!Chunk), Len(q) <= LogCapacity, q # <<>>
      PROVE  /\ Tail(q) \in Seq(Log!Chunk) /\ Len(Tail(q)) <= LogCapacity /\ Head(q) \in Log!Chunk
  <2>1. Len(Tail(q)) = Len(q) - 1 /\ Tail(q) \in Seq(Log!Chunk) /\ Len(q) \in Nat
        /\ Head(q) \in Log!Chunk
    BY <1>2
  <2>. QED
    BY <1>0, <1>2, <2>1
<1>3. CASE Log!SetEnabled
  BY <1>3 DEF Log!SetEnabled, Log!wrapper, Log!stream
<1>4. ASSUME NEW s \in {"ok", "error"}, NEW sse \in BOOLEAN, NEW files \in BOOLEAN,
             Log!WriteHeader(s, sse, files)
      PROVE  Log!TypeOK'
  BY <1>4 DEF Log!WriteHeader
<1>5. CASE Log!Write
  <2>1. logSent + 1 \in Log!Chunk /\ logSent' = logSent + 1 /\ logSent' \in 0..LogChunks
    BY <1>0, <1>5 DEF Log!Write, Log!Chunk
  <2>2. Append(body, logSent + 1) \in Seq(Log!Chunk)
    BY <2>1
  <2>3. Log!Offer(channel, logSent + 1) \in Seq(Log!Chunk)
        /\ Len(Log!Offer(channel, logSent + 1)) <= LogCapacity
    BY <1>1, <2>1
  <2>. QED
    BY <1>5, <2>1, <2>2, <2>3 DEF Log!Write, Log!Full, Log!stream
<1>6. ASSUME NEW e \in BOOLEAN, NEW ok \in BOOLEAN, Log!Finalize(e, ok) PROVE Log!TypeOK'
  BY <1>6 DEF Log!Finalize, Log!wrapper, Log!stream
<1>7. ASSUME NEW ok \in BOOLEAN, Log!BeginClose \/ Log!EndClose(ok) PROVE Log!TypeOK'
  BY <1>7 DEF Log!BeginClose, Log!EndClose, Log!wrapper
<1>8. CASE Log!RelayStart \/ Log!RelayRange
  BY <1>8 DEF Log!RelayStart, Log!RelayRange, Log!wrapper, Log!stream
<1>9. CASE Log!RelayTake \/ Log!RelayEnd
  BY <1>2, <1>9 DEF Log!RelayTake, Log!RelayEnd, Log!wrapper, Log!stream
<1>10. CASE Log!RelayGive
  <2>1. logHeld \in Log!Chunk
    BY <1>10 DEF Log!RelayGive
  <2>. QED
    BY <1>1, <1>10, <2>1 DEF Log!RelayGive, Log!Full, Log!wrapper
<1>11. ASSUME NEW ok \in BOOLEAN, Log!Spool(ok) PROVE Log!TypeOK'
  <2>1. Append(spool, Head(chunkChan)) \in Seq(Log!Chunk)
    BY <1>2, <1>11 DEF Log!Spool
  <2>. QED
    BY <1>2, <1>11, <2>1 DEF Log!Spool, Log!wrapper
<1>12. ASSUME NEW ok \in BOOLEAN, Log!SpoolEnd(ok) PROVE Log!TypeOK'
  BY <1>12 DEF Log!SpoolEnd, Log!wrapper
<1>. QED
  BY <1>3, <1>4, <1>5, <1>6, <1>7, <1>8, <1>9, <1>10, <1>11, <1>12
     DEF Log!Next, Log!InFinalize, Log!Relay, Log!Spooler

\* The handler: a chunk is the last of the line, and a log without a writer is the buffer.
LEMMA HandlerKeepsLog ==
  ASSUME Log!LogParameters, LogInv,
         \/ Log!SetEnabled \/ Log!Write \/ Log!InFinalize
         \/ \E s \in {"ok", "error"}, sse \in BOOLEAN, files \in BOOLEAN :
              Log!WriteHeader(s, sse, files)
         \/ \E e \in BOOLEAN, ok \in BOOLEAN : Log!Finalize(e, ok)
  PROVE  (Buffered /\ InLine /\ EndInTurn /\ LogKept)'
<1>. USE DEF NoneMissing
<1>0. /\ logSent \in Nat /\ body \in Seq(Nat) /\ channel \in Seq(Nat) /\ chunkChan \in Seq(Nat)
      /\ spool \in Seq(Nat) /\ logged \in Seq(Nat)
  BY LogTyped DEF LogInv
<1>1. CASE Log!SetEnabled
  BY <1>1 DEF Log!SetEnabled, Log!wrapper, Log!stream, LogInv, Buffered, InLine, EndInTurn, LogKept
<1>2. ASSUME NEW s \in {"ok", "error"}, NEW sse \in BOOLEAN, NEW files \in BOOLEAN,
             Log!WriteHeader(s, sse, files)
      PROVE  (Buffered /\ InLine /\ EndInTurn /\ LogKept)'
  <2>1. /\ logPc = "serving" /\ status = "none" /\ ~logWriter /\ ~kept
    BY <1>2 DEF Log!WriteHeader, LogInv, EndInTurn, LogKept
  <2>2. CASE sse /\ logEnabled /\ files
    <3>1. /\ ~logFailed /\ spool = <<>> /\ chunkChan = <<>> /\ channel = <<>> /\ logHeld = 0
          /\ ~chunkChanClosed
      BY <2>1 DEF LogInv, Buffered
    <3>2. InLine'
      <4>1. /\ UNCHANGED <<spool, chunkChan, channel, logHeld, logSent, logFailed>>
            /\ logSent > 0 => "switched" \in logExcuses'
        BY <1>2, <2>2 DEF Log!WriteHeader
      <4>2. Len(<<>>) = 0 /\ \A n \in Nat : Rising(<<>>, n) /\ Before(<<>>, <<>>)
        BY DEF Rising, Before
      <4>3. NoneMissing' => logSent = 0
        BY <1>0, <4>1
      <4>4. InLine
        BY DEF LogInv
      <4>. QED
        BY <3>1, <4>1, <4>2, <4>3, <4>4 DEF InLine
    <3>. QED
      BY <1>2, <2>1, <2>2, <3>1, <3>2
         DEF Log!WriteHeader, Buffered, EndInTurn, LogKept
  <2>3. CASE ~(sse /\ logEnabled /\ files)
    BY <1>2, <2>1, <2>3 DEF Log!WriteHeader, LogInv, Buffered, InLine, EndInTurn, LogKept
  <2>. QED
    BY <2>2, <2>3
<1>3. CASE Log!Write
  <2>1. logPc = "serving" /\ logSent' = logSent + 1 /\ ~kept
    BY <1>3 DEF Log!Write, LogInv, LogKept
  <2>2. /\ Rising(spool, logSent + 1) /\ Rising(chunkChan, logSent + 1)
        /\ Rising(channel, logSent + 1)
        /\ Before(spool, <<logSent + 1>>) /\ Before(chunkChan, <<logSent + 1>>)
    BY <1>0, RisingMore DEF LogInv, InLine
  <2>3. logHeld # 0 => logHeld \in Nat /\ logHeld <= logSent + 1
                       /\ Before(<<logHeld>>, <<logSent + 1>>)
    BY <1>0, LogTyped DEF LogInv, InLine, Before
  <2>4. CASE logWriter /\ Len(channel) < LogCapacity
    <3>1. channel' = Append(channel, logSent + 1) /\ logExcuses \subseteq logExcuses'
      BY <1>3, <2>4 DEF Log!Write, Log!Offer
    <3>2. /\ Rising(Append(channel, logSent + 1), logSent + 1)
          /\ Len(Append(channel, logSent + 1)) = Len(channel) + 1
      BY <1>0, RisingMore DEF LogInv, InLine
    <3>3. /\ Before(spool, Append(channel, logSent + 1))
          /\ Before(chunkChan, Append(channel, logSent + 1))
          /\ logHeld # 0 => Before(<<logHeld>>, Append(channel, logSent + 1))
      <4>1. logSent + 1 \in Nat /\ Before(spool, channel) /\ Before(chunkChan, channel)
        BY <1>0 DEF LogInv, InLine
      <4>2. logHeld # 0 => <<logHeld>> \in Seq(Nat) /\ Before(<<logHeld>>, channel)
        BY <2>3 DEF LogInv, InLine
      <4>. QED
        BY <1>0, <2>2, <2>3, <4>1, <4>2, BeforeAppend
    <3>4. Len(channel) \in Nat /\ Len(spool) \in Nat /\ Len(chunkChan) \in Nat
      BY <1>0
    <3>5. /\ UNCHANGED <<logHeld, spool, chunkChan, logWriter, logFailed, kept, logPc, status>>
          /\ UNCHANGED <<logRelay, spooler, chunkChanClosed, logOpen, temp, logged>>
      BY <1>3 DEF Log!Write, Log!stream
    <3>6. InLine'
      <4>1. logWriter /\ NoneMissing' /\ ~logFailed =>
              Len(spool) + Len(chunkChan) + (IF logHeld # 0 THEN 1 ELSE 0)
                + (Len(channel) + 1) = logSent + 1
        BY <1>0, <3>1, <3>4 DEF LogInv, InLine
      <4>2. Before(spool, chunkChan)
            /\ (logHeld # 0 => Before(spool, <<logHeld>>) /\ Before(chunkChan, <<logHeld>>))
        BY DEF LogInv, InLine
      <4>. QED
        BY <2>1, <2>2, <2>3, <3>1, <3>2, <3>3, <3>5, <4>1, <4>2 DEF InLine
    <3>. QED
      BY <2>1, <2>4, <3>1, <3>5, <3>6 DEF LogInv, Buffered, EndInTurn, LogKept
  <2>5. CASE logWriter /\ ~(Len(channel) < LogCapacity)
    <3>1. channel' = channel /\ "full" \in logExcuses'  /\ logExcuses \subseteq logExcuses'
      BY <1>3, <2>5 DEF Log!Write, Log!Offer, Log!Full
    <3>2. /\ UNCHANGED <<logHeld, spool, chunkChan, logWriter, logFailed, kept, logPc, status>>
          /\ UNCHANGED <<logRelay, spooler, chunkChanClosed, logOpen, temp, logged>>
      BY <1>3 DEF Log!Write, Log!stream
    <3>. QED
      BY <2>1, <2>2, <2>3, <2>5, <3>1, <3>2 DEF LogInv, Buffered, InLine, EndInTurn, LogKept
  <2>6. CASE ~logWriter
    <3>1. /\ UNCHANGED <<logHeld, spool, chunkChan, logWriter, logFailed, kept, logPc, status>>
          /\ UNCHANGED <<logRelay, spooler, chunkChanClosed, logOpen, temp, logged, channel>>
      BY <1>3, <2>6 DEF Log!Write, Log!stream
    <3>2. \/ body' = Append(body, logSent + 1) /\ UNCHANGED logExcuses
          \/ body' = body /\ "unbuffered" \in logExcuses'
      BY <1>3, <2>6 DEF Log!Write
    <3>3. /\ Rising(body, logSent + 1) /\ Rising(Append(body, logSent + 1), logSent + 1)
          /\ Len(Append(body, logSent + 1)) = Len(body) + 1
      BY <1>0, <2>6, RisingMore DEF LogInv, Buffered
    <3>4. Buffered'
      BY <1>0, <2>1, <2>6, <3>1, <3>2, <3>3 DEF LogInv, Buffered
    <3>. QED
      BY <2>1, <2>2, <2>3, <2>6, <3>1, <3>4 DEF LogInv, InLine, EndInTurn, LogKept
  <2>. QED
    BY <2>4, <2>5, <2>6
<1>4. ASSUME NEW e \in BOOLEAN, NEW ok \in BOOLEAN, Log!Finalize(e, ok)
      PROVE  (Buffered /\ InLine /\ EndInTurn /\ LogKept)'
  <2>1. /\ UNCHANGED <<logHeld, spool, chunkChan, channel, logWriter, logFailed, status, logSent, body>>
        /\ UNCHANGED <<logRelay, spooler, chunkChanClosed, logOpen, temp>>
        /\ logPc = "serving" /\ logPc' \in {"draining", "over"} /\ logExcuses \subseteq logExcuses'
        /\ logPc' = "draining" => logWriter
        /\ logPc' = "over" /\ logWriter => "off" \in logExcuses'
        /\ kept' => (~logWriter /\ logged' = body) \/ kept
    BY <1>4 DEF Log!Finalize, Log!wrapper, Log!stream
  <2>2. ~kept /\ ~chunkChanClosed /\ logRelay # "over"
    BY <2>1 DEF LogInv, LogKept, EndInTurn
  <2>3. Buffered' /\ InLine'
    BY <2>1 DEF LogInv, Buffered, InLine
  <2>4. LogKept'
    BY <2>1, <2>2 DEF LogInv, LogKept, Buffered, Log!Finalize
  <2>5. EndInTurn'
    BY <2>1, <2>2 DEF LogInv, EndInTurn
  <2>. QED
    BY <2>3, <2>4, <2>5
<1>5. CASE Log!BeginClose
  <2>1. ~kept
    BY <1>5 DEF Log!BeginClose, LogInv, LogKept
  <2>. QED
    BY <1>5, <2>1 DEF Log!BeginClose, Log!wrapper, LogInv, Buffered, InLine, EndInTurn, LogKept
<1>6. ASSUME NEW ok \in BOOLEAN, Log!EndClose(ok)
      PROVE  (Buffered /\ InLine /\ EndInTurn /\ LogKept)'
  <2>1. /\ UNCHANGED <<logHeld, spool, chunkChan, channel, logWriter, logFailed, status, logSent, body>>
        /\ UNCHANGED <<logRelay, spooler, chunkChanClosed, logOpen, logExcuses>>
        /\ logPc = "closing" /\ logPc' = "over" /\ ~temp' /\ spooler = "over"
        /\ kept' => (~logFailed /\ logged' = spool) \/ kept
    BY <1>6 DEF Log!EndClose, Log!wrapper, Log!Spooled
  <2>2. /\ ~kept /\ logWriter /\ chunkChanClosed /\ logRelay = "over" /\ logHeld = 0
        /\ chunkChan = <<>> /\ ("late" \in logExcuses \/ channel = <<>>)
    BY <2>1 DEF LogInv, LogKept, EndInTurn
  <2>3. NoneMissing /\ ~logFailed => Len(spool) = logSent
    <3>1. NoneMissing => channel = <<>>
      BY <2>2
    <3>2. Len(<<>>) = 0 /\ Len(spool) \in Nat
      BY <1>0
    <3>. QED
      BY <2>2, <3>1, <3>2 DEF LogInv, InLine
  <2>4. LogKept'
    BY <2>1, <2>2, <2>3 DEF LogInv, LogKept, InLine
  <2>5. EndInTurn'
    BY <2>1, <2>2 DEF LogInv, EndInTurn
  <2>6. Buffered' /\ InLine'
    BY <2>1, <2>2 DEF LogInv, Buffered, InLine
  <2>. QED
    BY <2>4, <2>5, <2>6
<1>. QED
  BY <1>1, <1>2, <1>3, <1>4, <1>5, <1>6 DEF Log!InFinalize

\* The two goroutines hand chunks on in the order of the line.
LEMMA RelayKeepsLog ==
  ASSUME Log!LogParameters, LogInv, Log!Relay
  PROVE  (Buffered /\ InLine /\ EndInTurn /\ LogKept)'
<1>. USE DEF NoneMissing
<1>0. /\ logSent \in Nat /\ channel \in Seq(Nat) /\ chunkChan \in Seq(Nat) /\ spool \in Seq(Nat)
      /\ Len(channel) \in Nat /\ Len(chunkChan) \in Nat /\ Len(spool) \in Nat /\ logHeld \in Nat
  BY LogTyped DEF LogInv
<1>1. logRelay # "none" => logWriter
  BY DEF LogInv, Buffered
<1>2. CASE Log!RelayStart \/ Log!RelayRange
  BY <1>1, <1>2 DEF Log!RelayStart, Log!RelayRange, Log!Closed, Log!wrapper, Log!stream,
                    LogInv, Buffered, InLine, EndInTurn, LogKept
<1>3. CASE Log!RelayEnd
  BY <1>1, <1>3 DEF Log!RelayEnd, Log!Closed, Log!wrapper, Log!stream,
                    LogInv, Buffered, InLine, EndInTurn, LogKept
<1>4. CASE Log!RelayTake
  <2>1. /\ UNCHANGED <<spool, chunkChan, logWriter, logFailed, status, logSent, body, logPc, kept>>
        /\ UNCHANGED <<logRelay, spooler, chunkChanClosed, logOpen, temp, logExcuses, logged>>
        /\ logRelay = "running" /\ logHeld = 0 /\ channel # <<>>
        /\ logHeld' = Head(channel) /\ channel' = Tail(channel)
    BY <1>4 DEF Log!RelayTake, Log!wrapper, Log!stream
  <2>2. /\ Head(channel) <= logSent /\ Rising(Tail(channel), logSent)
        /\ Before(<<Head(channel)>>, Tail(channel)) /\ Len(Tail(channel)) = Len(channel) - 1
    BY <1>0, <2>1, RisingTail DEF LogInv, InLine
  <2>3. /\ Before(spool, <<Head(channel)>>) /\ Before(spool, Tail(channel))
        /\ Before(chunkChan, <<Head(channel)>>) /\ Before(chunkChan, Tail(channel))
    BY <1>0, <2>1, BeforeTail DEF LogInv, InLine
  <2>4. Head(channel) # 0
    <3>1. channel \in Seq(Log!Chunk) /\ LogChunks \in Nat
      BY DEF LogInv, Log!TypeOK, Log!LogParameters
    <3>. QED
      BY <2>1, <3>1 DEF Log!Chunk
  <2>5. logWriter /\ NoneMissing /\ ~logFailed =>
          Len(spool) + Len(chunkChan) + 1 + (Len(channel) - 1) = logSent
    <3>1. logWriter /\ NoneMissing /\ ~logFailed =>
            Len(spool) + Len(chunkChan) + 0 + Len(channel) = logSent
      BY <2>1 DEF LogInv, InLine
    <3>. QED
      BY <1>0, <3>1
  <2>6. InLine'
    BY <2>1, <2>2, <2>3, <2>4, <2>5 DEF LogInv, InLine
  <2>7. Buffered' /\ LogKept'
    BY <1>1, <2>1 DEF LogInv, Buffered, LogKept
  <2>8. EndInTurn'
    BY <1>1, <2>1 DEF LogInv, EndInTurn
  <2>. QED
    BY <2>6, <2>7, <2>8
<1>5. CASE Log!RelayGive
  <2>1. /\ UNCHANGED <<spool, channel, logWriter, logFailed, status, logSent, body, logPc, kept>>
        /\ UNCHANGED <<logRelay, spooler, chunkChanClosed, logOpen, temp, logged>>
        /\ logHeld # 0 /\ logHeld' = 0 /\ logExcuses \subseteq logExcuses'
        /\ \/ chunkChan' = Append(chunkChan, logHeld)
           \/ chunkChan' = chunkChan /\ "full" \in logExcuses'
    BY <1>5 DEF Log!RelayGive, Log!Offer, Log!Full, Log!wrapper
  <2>2. logRelay = "running" /\ spooler # "over"
    BY <2>1 DEF LogInv, EndInTurn
  <2>3. /\ Rising(Append(chunkChan, logHeld), logSent)
        /\ Len(Append(chunkChan, logHeld)) = Len(chunkChan) + 1
    BY <1>0, <2>1, RisingAppend DEF LogInv, InLine
  <2>4. Before(spool, Append(chunkChan, logHeld)) /\ Before(Append(chunkChan, logHeld), channel)
    BY <1>0, <2>1, BeforeAppend DEF LogInv, InLine
  <2>5. logWriter /\ NoneMissing /\ ~logFailed =>
          Len(spool) + (Len(chunkChan) + 1) + 0 + Len(channel) = logSent
    <3>1. logWriter /\ NoneMissing /\ ~logFailed =>
            Len(spool) + Len(chunkChan) + 1 + Len(channel) = logSent
      BY <2>1 DEF LogInv, InLine
    <3>. QED
      BY <1>0, <3>1
  <2>6. InLine'
    BY <2>1, <2>3, <2>4, <2>5 DEF LogInv, InLine
  <2>. QED
    BY <1>1, <2>1, <2>2, <2>6 DEF LogInv, Buffered, EndInTurn, LogKept
<1>. QED
  BY <1>2, <1>3, <1>4, <1>5 DEF Log!Relay

LEMMA SpoolerKeepsLog ==
  ASSUME Log!LogParameters, LogInv, Log!Spooler
  PROVE  (Buffered /\ InLine /\ EndInTurn /\ LogKept)'
<1>. USE DEF NoneMissing
<1>0. /\ logSent \in Nat /\ channel \in Seq(Nat) /\ chunkChan \in Seq(Nat) /\ spool \in Seq(Nat)
      /\ Len(channel) \in Nat /\ Len(chunkChan) \in Nat /\ Len(spool) \in Nat
  BY LogTyped DEF LogInv
<1>1. spooler # "none" => logWriter
  BY DEF LogInv, Buffered
<1>2. ASSUME NEW ok \in BOOLEAN, Log!Spool(ok)
      PROVE  (Buffered /\ InLine /\ EndInTurn /\ LogKept)'
  <2>. DEFINE c == Head(chunkChan)
  <2>1. /\ UNCHANGED <<channel, logHeld, logWriter, status, logSent, body, logPc, kept>>
        /\ UNCHANGED <<logRelay, spooler, chunkChanClosed, temp, logExcuses, logged>>
        /\ spooler = "running" /\ chunkChan # <<>> /\ chunkChan' = Tail(chunkChan)
        /\ \/ spool' = Append(spool, c) /\ UNCHANGED <<logOpen, logFailed>>
           \/ logFailed' /\ spool' = spool
           \/ ~logOpen /\ UNCHANGED <<spool, logOpen, logFailed>>
    BY <1>2 DEF Log!Spool, Log!wrapper
  <2>2. ~logOpen => logFailed
    BY <2>1 DEF LogInv, EndInTurn
  <2>3. /\ c \in Nat /\ c <= logSent /\ Rising(Tail(chunkChan), logSent)
        /\ Before(<<c>>, Tail(chunkChan)) /\ Len(Tail(chunkChan)) = Len(chunkChan) - 1
    BY <1>0, <2>1, RisingTail DEF LogInv, InLine
  <2>4. Before(spool, <<c>>) /\ Before(spool, Tail(chunkChan))
    BY <1>0, <2>1, BeforeTail DEF LogInv, InLine
  <2>5. Before(<<c>>, channel) /\ Before(Tail(chunkChan), channel)
    BY <1>0, <2>1, TailBefore DEF LogInv, InLine
  <2>6. logHeld # 0 => Before(<<c>>, <<logHeld>>) /\ Before(Tail(chunkChan), <<logHeld>>)
    <3>1. logHeld \in Nat /\ <<logHeld>> \in Seq(Nat)
      BY LogTyped DEF LogInv
    <3>. QED
      BY <1>0, <2>1, <3>1, TailBefore DEF LogInv, InLine
  <2>7. Rising(Append(spool, c), logSent) /\ Len(Append(spool, c)) = Len(spool) + 1
    BY <1>0, <2>3, <2>4, RisingAppend DEF LogInv, InLine
  <2>8. Before(Append(spool, c), Tail(chunkChan)) /\ Before(Append(spool, c), channel)
        /\ (logHeld # 0 => Before(Append(spool, c), <<logHeld>>))
    <3>1. logHeld \in Nat /\ <<logHeld>> \in Seq(Nat) /\ Tail(chunkChan) \in Seq(Nat)
      BY <1>0, <2>1, LogTyped DEF LogInv
    <3>2. Before(spool, channel) /\ (logHeld # 0 => Before(spool, <<logHeld>>))
      BY DEF LogInv, InLine
    <3>. HIDE DEF c
    <3>. QED
      BY <1>0, <2>3, <2>4, <2>5, <2>6, <3>1, <3>2, BeforeAppend
  <2>9. logWriter /\ NoneMissing /\ ~logFailed =>
          (Len(spool) + 1) + (Len(chunkChan) - 1) + (IF logHeld # 0 THEN 1 ELSE 0)
            + Len(channel) = logSent
    BY <1>0 DEF LogInv, InLine
  <2>10. logHeld # 0 => logHeld <= logSent /\ Before(spool, <<logHeld>>) /\ Before(<<logHeld>>, channel)
    BY DEF LogInv, InLine
  <2>11. Rising(spool, logSent) /\ Rising(channel, logSent) /\ Before(spool, channel)
    BY DEF LogInv, InLine
  <2>. HIDE DEF c
  <2>12. InLine'
    <3>1. CASE spool' = Append(spool, c) /\ UNCHANGED <<logOpen, logFailed>>
      BY <2>1, <2>3, <2>5, <2>6, <2>7, <2>8, <2>9, <2>10, <2>11, <3>1 DEF InLine
    <3>2. CASE logFailed' /\ spool' = spool
      BY <2>1, <2>3, <2>4, <2>5, <2>6, <2>10, <2>11, <3>2 DEF InLine
    <3>. QED
      BY <2>1, <2>2, <3>1, <3>2
  <2>13. Buffered'
    BY <1>1, <2>1 DEF LogInv, Buffered
  <2>14. LogKept'
    <3>1. ~kept \/ logPc = "over"
      BY DEF LogInv, LogKept
    <3>. QED
      BY <2>1 DEF LogInv, LogKept
  <2>15. EndInTurn'
    BY <1>1, <2>1, <2>2 DEF LogInv, EndInTurn
  <2>. QED
    BY <2>12, <2>13, <2>14, <2>15
<1>3. ASSUME NEW ok \in BOOLEAN, Log!SpoolEnd(ok)
      PROVE  (Buffered /\ InLine /\ EndInTurn /\ LogKept)'
  BY <1>1, <1>3 DEF Log!SpoolEnd, Log!wrapper, LogInv, Buffered, InLine, EndInTurn, LogKept
<1>. QED
  BY <1>2, <1>3 DEF Log!Spooler

LEMMA LogNext == ASSUME Log!LogParameters, LogInv, Log!Next PROVE LogInv'
<1>1. Log!TypeOK'
  BY LogTypeNext DEF LogInv
<1>2. CASE Log!Relay
  BY <1>1, <1>2, RelayKeepsLog DEF LogInv
<1>3. CASE Log!Spooler
  BY <1>1, <1>3, SpoolerKeepsLog DEF LogInv
<1>4. CASE ~Log!Relay /\ ~Log!Spooler
  <2>1. \/ Log!SetEnabled \/ Log!Write \/ Log!InFinalize
        \/ \E s \in {"ok", "error"}, sse \in BOOLEAN, files \in BOOLEAN :
             Log!WriteHeader(s, sse, files)
        \/ \E e \in BOOLEAN, ok \in BOOLEAN : Log!Finalize(e, ok)
    BY <1>4 DEF Log!Next
  <2>. QED
    BY <1>1, <2>1, HandlerKeepsLog DEF LogInv
<1>. QED
  BY <1>2, <1>3, <1>4

LEMMA LogInit == ASSUME Log!LogParameters, Log!Init PROVE LogInv
<1>1. Log!TypeOK
  <2>1. <<>> \in Seq(Log!Chunk) /\ Len(<<>>) = 0
    OBVIOUS
  <2>2. LogCapacity \in Nat /\ LogChunks \in Nat /\ LogSwitches \in Nat
    BY DEF Log!LogParameters
  <2>3. /\ {logEnabled, onErrorOnly, logWriter, chunkChanClosed, logOpen, logFailed, temp, kept}
             \subseteq BOOLEAN
        /\ {body, channel, chunkChan, spool, logged} = {<<>>}
    BY DEF Log!Init
  <2>. QED
    BY <2>1, <2>2, <2>3 DEF Log!Init, Log!TypeOK
<1>2. Len(<<>>) = 0 /\ Before(<<>>, <<>>) /\ \A n \in Nat : Rising(<<>>, n)
  BY DEF Rising, Before
<1>. QED
  BY <1>1, <1>2 DEF Log!Init, LogInv, Buffered, InLine, EndInTurn, LogKept

LEMMA LogStays ==
  ASSUME LogInv, UNCHANGED requestLog
  PROVE  LogInv'
BY DEF requestLog, LogInv, Log!TypeOK, Buffered, InLine, EndInTurn, LogKept, NoneMissing

progressVars == <<part, locks, usage, logins, tokens, requestLog, others>>

LEMMA LogSteps == [ProgressNext]_progressVars => Log!Next \/ UNCHANGED requestLog
BY DEF ProgressNext, progressVars

\* What is sent, on its way and in the file of a log, and who of its goroutines has ended, in
\* every reachable state, for every number of chunks and every capacity of the channels
\* (processStreamingChunks, asyncWriter, Finalize, Close).
THEOREM LogAlways == ProgressSpec => []LogInv
<1>. USE DEF progressVars
<1>1. ProgressInit => LogInv
  BY ProgressParameters, LogInit DEF ProgressInit
<1>2. LogInv /\ [ProgressNext]_progressVars => LogInv'
  BY ProgressParameters, LogSteps, LogNext, LogStays
<1>. QED
  BY <1>1, <1>2, PTL DEF ProgressSpec

\* A log holds the chunks of the answer in the order the client was sent them, and all of
\* them but for the named reasons; and when the request is over its goroutines are, and its
\* temporary files are gone, unless the log was switched off under a writer (Finalize, Close).
THEOREM LogsFollowAnswers == ProgressSpec => []LogFollowsAnswer
<1>1. LogInv => Log!LogFollowsAnswer
  <2>. SUFFICES ASSUME LogInv PROVE Log!LogFollowsAnswer
    OBVIOUS
  <2>1. logged \in Seq(Log!Chunk) /\ Log!Chunk = 1..LogChunks /\ LogChunks \in Nat /\ logSent \in Nat
    BY ProgressParameters, LogTyped DEF LogInv, Log!TypeOK, Log!Chunk, Log!LogParameters
  <2>2. ASSUME kept, NEW i \in 1..Len(logged)
        PROVE  logged[i] \in 1..logSent /\ (i > 1 => logged[i - 1] < logged[i])
    <3>1. Rising(logged, logSent) /\ Len(logged) \in Nat
      BY <2>1, <2>2 DEF LogInv, LogKept
    <3>2. logged[i] \in 1..LogChunks
      BY <2>1, <2>2
    <3>3. i > 1 => i - 1 \in 1..Len(logged) /\ i - 1 < i
      BY <3>1
    <3>. QED
      BY <2>1, <2>2, <3>1, <3>2, <3>3 DEF Rising
  <2>3. kept /\ NoneMissing => Len(logged) = logSent
    BY DEF LogInv, LogKept
  <2>4. logPc = "over" /\ "off" \notin logExcuses =>
          logRelay \in {"none", "over"} /\ spooler \in {"none", "over"} /\ ~temp
    BY DEF LogInv, EndInTurn, Buffered
  <2>. QED
    BY <2>2, <2>3, <2>4 DEF Log!LogFollowsAnswer, NoneMissing
<1>2. LogInv => LogFollowsAnswer
  BY <1>1 DEF LogFollowsAnswer
<1>. QED
  BY <1>2, LogAlways, PTL

-----------------------------------------------------------------------------
(* The locks, of which LockOrderProofs proves the theorems: a behaviour of MCProgress is one *)
(* of theirs.                                                                   *)

LockCircles == INSTANCE LockOrderProofs WITH writer <- lockWriter, Call <- LockCalls

LEMMA LocksSame ==
  /\ Locks!LockParameters <=> LockCircles!LockParameters
  /\ Locks!Init <=> LockCircles!Init
  /\ Locks!Next <=> LockCircles!Next
  /\ Locks!NoCircularWait <=> LockCircles!NoCircularWait
<1>1. \A l : /\ Locks!RLock(l) = LockCircles!RLock(l) /\ Locks!RUnlock(l) = LockCircles!RUnlock(l)
             /\ Locks!WLock(l) = LockCircles!WLock(l) /\ Locks!WUnlock(l) = LockCircles!WUnlock(l)
  BY DEF Locks!RLock, LockCircles!RLock, Locks!RUnlock, LockCircles!RUnlock,
         Locks!WLock, LockCircles!WLock, Locks!WUnlock, LockCircles!WUnlock
<1>2. \A l, b : /\ Locks!ReadLocked(l, b) = LockCircles!ReadLocked(l, b)
                /\ Locks!WriteLocked(l, b) = LockCircles!WriteLocked(l, b)
  BY <1>1 DEF Locks!ReadLocked, LockCircles!ReadLocked, Locks!WriteLocked, LockCircles!WriteLocked
<1>3. /\ Locks!ReadManager = LockCircles!ReadManager
      /\ Locks!WriteManager = LockCircles!WriteManager
      /\ Locks!Update = LockCircles!Update
      /\ Locks!MarkResult = LockCircles!MarkResult
      /\ Locks!ClientSupportsModel = LockCircles!ClientSupportsModel
      /\ Locks!ReadRegistry = LockCircles!ReadRegistry
      /\ Locks!RegisterClient = LockCircles!RegisterClient
  BY <1>2 DEF Locks!ReadManager, LockCircles!ReadManager, Locks!WriteManager,
              LockCircles!WriteManager, Locks!Update, LockCircles!Update, Locks!MarkResult,
              LockCircles!MarkResult, Locks!ClientSupportsModel, LockCircles!ClientSupportsModel,
              Locks!ReadRegistry, LockCircles!ReadRegistry, Locks!RegisterClient,
              LockCircles!RegisterClient
<1>4. /\ Locks!pickNext = LockCircles!pickNext /\ Locks!pickNextNone = LockCircles!pickNextNone
      /\ Locks!GetFirstAvailableModel = LockCircles!GetFirstAvailableModel
  BY <1>2, <1>3 DEF Locks!pickNext, LockCircles!pickNext, Locks!pickNextNone,
                    LockCircles!pickNextNone, Locks!GetFirstAvailableModel,
                    LockCircles!GetFirstAvailableModel
<1>5. Locks!Steps = LockCircles!Steps
  BY <1>3, <1>4 DEF Locks!Steps, LockCircles!Steps
<1>6. Locks!Lock = LockCircles!Lock
  BY DEF Locks!Lock, LockCircles!Lock
<1>7. Locks!LockParameters <=> LockCircles!LockParameters
  BY <1>5 DEF Locks!LockParameters, LockCircles!LockParameters
<1>8. Locks!Init <=> LockCircles!Init
  BY <1>6 DEF Locks!Init, LockCircles!Init
<1>9. \A t, o, l : Locks!At(t, o, l) <=> LockCircles!At(t, o, l)
  BY DEF Locks!At, LockCircles!At
<1>10. \A t, c : Locks!Begin(t, c) <=> LockCircles!Begin(t, c)
  BY <1>5 DEF Locks!Begin, LockCircles!Begin
<1>11. \A t : Locks!Advance(t) <=> LockCircles!Advance(t)
  BY DEF Locks!Advance, LockCircles!Advance
<1>12. \A t, l : /\ Locks!AcquireRead(t, l) <=> LockCircles!AcquireRead(t, l)
                 /\ Locks!ReleaseRead(t, l) <=> LockCircles!ReleaseRead(t, l)
                 /\ Locks!Announce(t, l) <=> LockCircles!Announce(t, l)
                 /\ Locks!AcquireWrite(t, l) <=> LockCircles!AcquireWrite(t, l)
                 /\ Locks!ReleaseWrite(t, l) <=> LockCircles!ReleaseWrite(t, l)
  BY <1>9, <1>11 DEF Locks!AcquireRead, LockCircles!AcquireRead, Locks!ReleaseRead,
                     LockCircles!ReleaseRead, Locks!Announce, LockCircles!Announce,
                     Locks!AcquireWrite, LockCircles!AcquireWrite, Locks!ReleaseWrite,
                     LockCircles!ReleaseWrite
<1>13. Locks!Next <=> LockCircles!Next
  BY <1>6, <1>10, <1>12 DEF Locks!Next, LockCircles!Next, Locks!Proceed, LockCircles!Proceed
<1>14. \A t : Locks!Blockers(t) = LockCircles!Blockers(t)
  BY <1>6, <1>9 DEF Locks!Blockers, LockCircles!Blockers
<1>15. Locks!NoCircularWait <=> LockCircles!NoCircularWait
  BY <1>14 DEF Locks!NoCircularWait, LockCircles!NoCircularWait
<1>. QED
  BY <1>7, <1>8, <1>13, <1>15

LEMMA LocksBehave == ProgressSpec => LockCircles!Spec
<1>1. ProgressInit => LockCircles!Init
  BY LocksSame DEF ProgressInit
<1>2. [ProgressNext]_progressVars => [LockCircles!Next]_(LockCircles!vars)
  BY LocksSame DEF ProgressNext, progressVars, locks, LockCircles!vars
<1>. QED
  BY <1>1, <1>2, PTL DEF ProgressSpec, progressVars, LockCircles!Spec

\* No goroutines wait for each other in a circle, whatever calls run together and however many
\* goroutines there are, if none of the calls takes for reading what it reads already
\* (pickNext, MarkResult, RegisterClient; all but GetFirstAvailableModel).
THEOREM NobodyWaitsInACircle ==
  ASSUME LockCircles!NoNestedRead
  PROVE  ProgressSpec => []NoCircularWait
<1>1. LockCircles!NoCircularWait => NoCircularWait
  BY LocksSame DEF NoCircularWait
<1>2. LockCircles!LockParameters
  BY ProgressParameters, LocksSame
<1>3. LockCircles!Spec => []LockCircles!NoCircularWait
  BY <1>2, LockCircles!CirclesImpossible
<1>. QED
  BY <1>1, <1>3, LocksBehave, PTL

-----------------------------------------------------------------------------
(* GeminiToResponses: Gemini's answers for a client of the Responses API. *)

\* A client of Gemini's translator that can place all so far: what is streamed of the items, and
\* the items at their end.
GeminiGot(c, items, pieces, ended) ==
  /\ c.stage = "created" /\ ~c.broken
  /\ c.output = Gemini!Contents(items, pieces) /\ c.finished = ended

\* What the client has seen after an event, field by field.
LEMMA GeminiCreated ==
  ASSUME NEW c \in Gemini!Reader
  PROVE  /\ Gemini!Created(c) \in Gemini!Reader
         /\ Gemini!Created(c).stage = "created"
         /\ Gemini!Created(c).output = c.output
         /\ Gemini!Created(c).finished = c.finished
         /\ Gemini!Created(c).broken <=> c.broken \/ c.stage # "none"
  BY DEF Gemini!Created, Gemini!Reader

LEMMA GeminiAdded ==
  ASSUME NEW c \in Gemini!Reader, NEW x \in OutputOfGemini
  PROVE  /\ Gemini!ItemAdded(c, x) \in Gemini!Reader
         /\ Gemini!ItemAdded(c, x).stage = c.stage
         /\ Gemini!ItemAdded(c, x).output = [c.output EXCEPT ![x] = 1]
         /\ Gemini!ItemAdded(c, x).finished = c.finished
         /\ Gemini!ItemAdded(c, x).broken <=> c.broken \/ c.stage # "created" \/ c.output[x] > 0
<1>1. [c.output EXCEPT ![x] = 1] \in Gemini!Output
  BY DEF Gemini!Reader, Gemini!Output
<1>2. PICK o \in Gemini!Output : o = [c.output EXCEPT ![x] = 1]
  BY <1>1
<1>3. PICK e \in BOOLEAN : e <=> c.broken \/ c.stage # "created" \/ c.output[x] > 0
  OBVIOUS
<1>4. Gemini!ItemAdded(c, x) = [c EXCEPT !.output = o, !.broken = e]
  BY <1>2, <1>3, Zenon DEF Gemini!ItemAdded
<1>. QED
  BY <1>2, <1>3, <1>4 DEF Gemini!Reader

LEMMA GeminiDelta ==
  ASSUME NEW c \in Gemini!Reader, NEW x \in OutputOfGemini
  PROVE  /\ Gemini!Delta(c, x) \in Gemini!Reader
         /\ Gemini!Delta(c, x).stage = c.stage
         /\ Gemini!Delta(c, x).output = [c.output EXCEPT ![x] = @ + 1]
         /\ Gemini!Delta(c, x).finished = c.finished
         /\ Gemini!Delta(c, x).broken <=> c.broken \/ ~Gemini!Open(c, x)
<1>1. [c.output EXCEPT ![x] = @ + 1] \in Gemini!Output
  BY DEF Gemini!Reader, Gemini!Output
<1>2. PICK o \in Gemini!Output : o = [c.output EXCEPT ![x] = @ + 1]
  BY <1>1
<1>3. PICK e \in BOOLEAN : e <=> c.broken \/ ~Gemini!Open(c, x)
  OBVIOUS
<1>4. Gemini!Delta(c, x) = [c EXCEPT !.output = o, !.broken = e]
  BY <1>2, <1>3, Zenon DEF Gemini!Delta
<1>. QED
  BY <1>2, <1>3, <1>4 DEF Gemini!Reader

LEMMA GeminiItemDone ==
  ASSUME NEW c \in Gemini!Reader, NEW x \in OutputOfGemini
  PROVE  /\ Gemini!ItemDone(c, x) \in Gemini!Reader
         /\ Gemini!ItemDone(c, x).stage = c.stage
         /\ Gemini!ItemDone(c, x).output = c.output
         /\ Gemini!ItemDone(c, x).finished = c.finished \cup {x}
         /\ Gemini!ItemDone(c, x).broken <=> c.broken \/ ~Gemini!Open(c, x)
<1>1. PICK e \in BOOLEAN : e <=> c.broken \/ ~Gemini!Open(c, x)
  OBVIOUS
<1>2. PICK f \in SUBSET OutputOfGemini : f = c.finished \cup {x}
  BY DEF Gemini!Reader
<1>3. Gemini!ItemDone(c, x) = [c EXCEPT !.finished = f, !.broken = e]
  BY <1>1, <1>2, Zenon DEF Gemini!ItemDone
<1>. QED
  BY <1>1, <1>2, <1>3 DEF Gemini!Reader

LEMMA GeminiCompleted ==
  ASSUME NEW c \in Gemini!Reader, NEW output
  PROVE  /\ Gemini!Completed(c, output) \in Gemini!Reader
         /\ Gemini!Completed(c, output).stage = "completed"
         /\ Gemini!Completed(c, output).output = c.output
         /\ Gemini!Completed(c, output).broken
              <=> \/ c.broken \/ c.stage # "created" \/ output # c.output
                  \/ \E x \in OutputOfGemini : Gemini!Open(c, x)
<1>1. PICK e \in BOOLEAN : e <=> \/ c.broken \/ c.stage # "created" \/ output # c.output
                                 \/ \E x \in OutputOfGemini : Gemini!Open(c, x)
  OBVIOUS
<1>2. Gemini!Completed(c, output) = [c EXCEPT !.stage = "completed", !.broken = e]
  BY <1>1, Zenon DEF Gemini!Completed
<1>. QED
  BY <1>1, <1>2 DEF Gemini!Reader

LEMMA GeminiGotAdded ==
  ASSUME NEW c \in Gemini!Reader, NEW items, NEW pieces \in [OutputOfGemini -> Nat], NEW ended,
         NEW x \in OutputOfGemini \ items, GeminiGot(c, items, pieces, ended), pieces[x] = 0
  PROVE  GeminiGot(Gemini!ItemAdded(c, x), items \cup {x}, pieces, ended)
<1>1. c.output \in [OutputOfGemini -> Nat] /\ c.output[x] = 0
  BY DEF GeminiGot, Gemini!Contents
<1>2. [c.output EXCEPT ![x] = 1] = Gemini!Contents(items \cup {x}, pieces)
  BY <1>1 DEF GeminiGot, Gemini!Contents
<1>3. PICK d : d = Gemini!ItemAdded(c, x)
  OBVIOUS
<1>4. /\ d.stage = c.stage /\ d.output = [c.output EXCEPT ![x] = 1] /\ d.finished = c.finished
      /\ d.broken <=> c.broken \/ c.stage # "created" \/ c.output[x] > 0
  BY <1>3, GeminiAdded
<1>5. ~(c.output[x] > 0)
  BY <1>1
<1>6. GeminiGot(d, items \cup {x}, pieces, ended)
  BY <1>2, <1>4, <1>5 DEF GeminiGot
<1>. QED
  BY <1>3, <1>6

LEMMA GeminiGotDelta ==
  ASSUME NEW c \in Gemini!Reader, NEW items, NEW pieces \in [OutputOfGemini -> Nat], NEW ended,
         NEW x \in OutputOfGemini, x \in items, x \notin ended, GeminiGot(c, items, pieces, ended)
  PROVE  GeminiGot(Gemini!Delta(c, x), items, [pieces EXCEPT ![x] = @ + 1], ended)
<1>1. c.output \in [OutputOfGemini -> Nat] /\ c.output[x] = 1 + pieces[x]
  BY DEF GeminiGot, Gemini!Contents
<1>2. [c.output EXCEPT ![x] = @ + 1] = Gemini!Contents(items, [pieces EXCEPT ![x] = @ + 1])
  BY <1>1 DEF GeminiGot, Gemini!Contents
<1>3. Gemini!Open(c, x)
  BY <1>1 DEF Gemini!Open, GeminiGot
<1>. QED
  BY <1>2, <1>3, GeminiDelta DEF GeminiGot

LEMMA GeminiGotItemDone ==
  ASSUME NEW c \in Gemini!Reader, NEW items, NEW pieces \in [OutputOfGemini -> Nat], NEW ended,
         NEW x \in OutputOfGemini, x \in items, x \notin ended, GeminiGot(c, items, pieces, ended)
  PROVE  GeminiGot(Gemini!ItemDone(c, x), items, pieces, ended \cup {x})
<1>1. c.output \in [OutputOfGemini -> Nat] /\ c.output[x] = 1 + pieces[x]
  BY DEF GeminiGot, Gemini!Contents
<1>2. Gemini!Open(c, x)
  BY <1>1 DEF Gemini!Open, GeminiGot
<1>. QED
  BY <1>2, GeminiItemDone DEF GeminiGot

LEMMA GeminiGotCompleted ==
  ASSUME NEW c \in Gemini!Reader, NEW items, NEW pieces \in [OutputOfGemini -> Nat], NEW ended,
         items \subseteq ended, GeminiGot(c, items, pieces, ended)
  PROVE  ~Gemini!Completed(c, Gemini!Contents(items, pieces)).broken
<1>1. ASSUME NEW x \in OutputOfGemini PROVE ~Gemini!Open(c, x)
  <2>1. x \notin items => c.output[x] = 0
    BY DEF GeminiGot, Gemini!Contents
  <2>. QED
    BY <2>1 DEF GeminiGot, Gemini!Open
<1>. QED
  BY <1>1, GeminiCompleted DEF GeminiGot

\* A piece goes into a buffer.
LEMMA GeminiBuffered ==
  ASSUME NEW items, NEW pieces \in [OutputOfGemini -> Nat], NEW x \in OutputOfGemini,
         \A y \in OutputOfGemini \ items : pieces[y] = 0
  PROVE  /\ [pieces EXCEPT ![x] = @ + 1] \in [OutputOfGemini -> Nat]
         /\ \A y \in OutputOfGemini \ (items \cup {x}) : [pieces EXCEPT ![x] = @ + 1][y] = 0
<1>1. [pieces EXCEPT ![x] = @ + 1] \in [OutputOfGemini -> Nat]
  OBVIOUS
<1>2. ASSUME NEW y \in OutputOfGemini \ (items \cup {x}) PROVE [pieces EXCEPT ![x] = @ + 1][y] = 0
  <2>1. y \in OutputOfGemini /\ y # x /\ pieces[y] = 0
    OBVIOUS
  <2>. QED
    BY <2>1
<1>. QED
  BY <1>1, <1>2

\* The items of an answer that Gemini's translator knows.
GeminiKnown ==
  gCalled \cup (IF gReasoning # "none" THEN {ra} ELSE {}) \cup (IF gMessage THEN {me} ELSE {})

GeminiInv ==
  /\ Gemini!TypeOK
  /\ ~gStarted => ~gDone /\ gReasoning = "none" /\ ~gMessage /\ gCalled = {}
  /\ \A x \in OutputOfGemini \ GeminiKnown : gBuffers[x] = 0
  /\ gExcuses = {} =>
       /\ ~gClient.broken
       /\ gStarted \/ gClient = Gemini!NewReader
       /\ gDone => gClient.stage = "completed"
       /\ gStarted /\ gClient.stage # "completed" =>
            GeminiGot(gClient, GeminiKnown, gBuffers, IF gReasoning = "closed" THEN {ra} ELSE {})

LEMMA GeminiItems ==
  /\ ra \in OutputOfGemini /\ me \in OutputOfGemini /\ TwoCalls \subseteq OutputOfGemini
  /\ ra # me /\ ra \notin TwoCalls /\ me \notin TwoCalls
  BY AnswersParameters DEF Gemini!GeminiParameters, OutputOfGemini, TwoCalls

\* The first chunk.
LEMMA GeminiStarted ==
  ASSUME GeminiInv
  PROVE  /\ Gemini!Started \in Gemini!Reader
         /\ gExcuses = {} /\ gClient.stage # "completed" =>
              GeminiGot(Gemini!Started, GeminiKnown, gBuffers,
                        IF gReasoning = "closed" THEN {ra} ELSE {})
<1>1. Gemini!Started \in Gemini!Reader
  BY GeminiCreated DEF Gemini!Started, GeminiInv, Gemini!TypeOK
<1>2. ASSUME ~gStarted, gExcuses = {}
      PROVE  GeminiGot(Gemini!Created(gClient), GeminiKnown, gBuffers, {})
  <2>1. gClient = Gemini!NewReader /\ gClient \in Gemini!Reader /\ GeminiKnown = {}
    BY <1>2 DEF GeminiInv, GeminiKnown, Gemini!TypeOK
  <2>2. gClient.stage = "none" /\ gClient.output = Gemini!Nothing /\ gClient.finished = {}
        /\ ~gClient.broken
    BY <2>1 DEF Gemini!NewReader
  <2>3. Gemini!Nothing = Gemini!Contents({}, gBuffers)
    BY DEF Gemini!Nothing, Gemini!Contents
  <2>. QED
    BY <2>1, <2>2, <2>3, GeminiCreated DEF GeminiGot
<1>. QED
  BY <1>1, <1>2 DEF GeminiInv, Gemini!Started

\* The end of the reasoning, which comes ahead of everything that follows it.
LEMMA GeminiReasoned ==
  ASSUME GeminiInv
  PROVE  /\ Gemini!ReasoningDone(Gemini!Started) \in Gemini!Reader
         /\ gExcuses = {} /\ gClient.stage # "completed" =>
              GeminiGot(Gemini!ReasoningDone(Gemini!Started), GeminiKnown, gBuffers,
                        IF gReasoning # "none" THEN {ra} ELSE {})
<1>. PICK s \in Gemini!Reader : s = Gemini!Started
  BY GeminiStarted
<1>1. Gemini!ReasoningDone(s) \in Gemini!Reader
  BY GeminiItems, GeminiItemDone DEF Gemini!ReasoningDone
<1>2. ASSUME gExcuses = {}, gClient.stage # "completed", gReasoning = "open"
      PROVE  GeminiGot(Gemini!ItemDone(s, ra), GeminiKnown, gBuffers, {ra})
  <2>1. GeminiGot(s, GeminiKnown, gBuffers, {})
    BY <1>2, GeminiStarted
  <2>2. ra \in GeminiKnown /\ gBuffers \in [OutputOfGemini -> Nat]
    BY <1>2 DEF GeminiKnown, GeminiInv, Gemini!TypeOK
  <2>3. GeminiGot(Gemini!ItemDone(s, ra), GeminiKnown, gBuffers, {} \cup {ra})
    BY <2>1, <2>2, GeminiItems, GeminiGotItemDone
  <2>. QED
    BY <2>3
<1>3. gReasoning \in {"none", "open", "closed"}
  BY DEF GeminiInv, Gemini!TypeOK
<1>. QED
  BY <1>1, <1>2, <1>3, GeminiStarted DEF Gemini!ReasoningDone

\* What is to be shown of a part, or of a finish reason.
LEMMA GeminiAfter ==
  ASSUME GeminiInv, Gemini!Translated, gClient' \in Gemini!Reader,
         gReasoning' \in {"none", "open", "closed"}, gMessage' \in BOOLEAN,
         gCalled' \in SUBSET TwoCalls, gBuffers' \in [OutputOfGemini -> Nat],
         \A x \in OutputOfGemini \ GeminiKnown' : gBuffers'[x] = 0,
         gExcuses = {} /\ gClient.stage # "completed" =>
           \/ gClient'.stage = "completed" /\ ~gClient'.broken
           \/ GeminiGot(gClient', GeminiKnown', gBuffers',
                        IF gReasoning' = "closed" THEN {ra} ELSE {})
  PROVE  GeminiInv'
<1>1. gStarted' = TRUE /\ gDone' = FALSE /\ gExcuses' \in SUBSET {"late", "cut"}
  BY DEF Gemini!Translated, GeminiInv, Gemini!TypeOK
<1>2. Gemini!TypeOK'
  BY <1>1 DEF Gemini!TypeOK
<1>3. gExcuses' = {} => gExcuses = {} /\ gClient.stage # "completed"
  BY DEF Gemini!Translated
<1>4. gExcuses' = {} =>
        \/ gClient'.stage = "completed" /\ ~gClient'.broken
        \/ GeminiGot(gClient', GeminiKnown', gBuffers',
                     IF gReasoning' = "closed" THEN {ra} ELSE {})
  BY <1>3
<1>5. (gExcuses = {} =>
        /\ ~gClient.broken
        /\ gStarted \/ gClient = Gemini!NewReader
        /\ gDone => gClient.stage = "completed"
        /\ gStarted /\ gClient.stage # "completed" =>
             GeminiGot(gClient, GeminiKnown, gBuffers,
                       IF gReasoning = "closed" THEN {ra} ELSE {}))'
  BY <1>1, <1>4 DEF GeminiGot
<1>. QED
  BY <1>1, <1>2, <1>5 DEF GeminiInv

LEMMA GeminiThought ==
  ASSUME GeminiInv, NEW empty \in BOOLEAN, Gemini!Thought(empty)
  PROVE  GeminiInv'
<1>. PICK s \in Gemini!Reader : s = Gemini!Started
  BY GeminiStarted
<1>1. Gemini!Translated /\ gMessage' = gMessage /\ gCalled' = gCalled
  BY DEF Gemini!Thought
<1>2. /\ gBuffers \in [OutputOfGemini -> Nat] /\ gReasoning \in {"none", "open", "closed"}
      /\ gMessage \in BOOLEAN /\ gCalled \in SUBSET TwoCalls
      /\ \A x \in OutputOfGemini \ GeminiKnown : gBuffers[x] = 0
  BY DEF GeminiInv, Gemini!TypeOK
<1>3. CASE gReasoning = "closed"
  <2>1. gClient' = s /\ gReasoning' = gReasoning /\ gBuffers' = gBuffers
    BY <1>3 DEF Gemini!Thought
  <2>2. GeminiKnown' = GeminiKnown
    BY <1>1, <2>1 DEF GeminiKnown
  <2>. QED
    BY <1>1, <1>2, <2>1, <2>2, GeminiStarted, GeminiAfter
<1>4. CASE gReasoning # "closed"
  <2>. PICK c : c = Gemini!Announced(s, gReasoning = "open", ra)
    OBVIOUS
  <2>1. c = IF gReasoning = "open" THEN s ELSE Gemini!ItemAdded(s, ra)
    BY DEF Gemini!Announced
  <2>2. c \in Gemini!Reader
    BY <2>1, GeminiItems, GeminiAdded
  <2>3. gReasoning' = "open" /\ GeminiKnown' = GeminiKnown \cup {ra}
    BY <1>1, <1>4 DEF Gemini!Thought, GeminiKnown
  <2>4. ASSUME gExcuses = {}, gClient.stage # "completed"
        PROVE  GeminiGot(c, GeminiKnown', gBuffers, {})
    <3>1. GeminiGot(s, GeminiKnown, gBuffers, {})
      BY <1>4, <2>4, GeminiStarted
    <3>2. CASE gReasoning = "open"
      <4>1. GeminiKnown \cup {ra} = GeminiKnown
        BY <3>2 DEF GeminiKnown
      <4>. QED
        BY <2>1, <2>3, <3>1, <3>2, <4>1
    <3>3. CASE gReasoning = "none"
      <4>1. ra \in OutputOfGemini \ GeminiKnown
        BY <1>2, <3>3, GeminiItems DEF GeminiKnown
      <4>2. GeminiGot(Gemini!ItemAdded(s, ra), GeminiKnown \cup {ra}, gBuffers, {})
        BY <1>2, <3>1, <4>1, GeminiGotAdded
      <4>. QED
        BY <2>1, <2>3, <3>3, <4>2
    <3>. QED
      BY <1>2, <1>4, <3>2, <3>3
  <2>5. CASE empty
    <3>1. gClient' = c /\ gBuffers' = gBuffers
      BY <1>4, <2>5 DEF Gemini!Thought
    <3>. QED
      BY <1>1, <1>2, <2>2, <2>3, <2>4, <3>1, GeminiAfter
  <2>6. CASE ~empty
    <3>1. gClient' = Gemini!Delta(c, ra) /\ gBuffers' = [gBuffers EXCEPT ![ra] = @ + 1]
      BY <1>4, <2>6 DEF Gemini!Thought, Gemini!Buffer
    <3>2. gClient' \in Gemini!Reader
      BY <2>2, <3>1, GeminiItems, GeminiDelta
    <3>3. /\ gBuffers' \in [OutputOfGemini -> Nat]
          /\ \A x \in OutputOfGemini \ GeminiKnown' : gBuffers'[x] = 0
      BY <1>2, <2>3, <3>1, GeminiItems, GeminiBuffered
    <3>4. ASSUME gExcuses = {}, gClient.stage # "completed"
          PROVE  GeminiGot(gClient', GeminiKnown', gBuffers', {})
      <4>1. ra \in GeminiKnown' /\ ra \in OutputOfGemini /\ ra \notin {}
        BY <2>3, GeminiItems
      <4>2. GeminiGot(c, GeminiKnown', gBuffers, {})
        BY <2>4, <3>4
      <4>3. GeminiGot(Gemini!Delta(c, ra), GeminiKnown', [gBuffers EXCEPT ![ra] = @ + 1], {})
        BY <1>2, <2>2, <4>1, <4>2, GeminiGotDelta
      <4>. QED
        BY <3>1, <4>3
    <3>. QED
      BY <1>1, <1>2, <2>3, <3>2, <3>3, <3>4, GeminiAfter
  <2>. QED
    BY <2>5, <2>6
<1>. QED
  BY <1>3, <1>4

LEMMA GeminiText ==
  ASSUME GeminiInv, Gemini!Text
  PROVE  GeminiInv'
<1>. PICK s \in Gemini!Reader : s = Gemini!ReasoningDone(Gemini!Started)
  BY GeminiReasoned
<1>. PICK c : c = Gemini!Announced(s, gMessage, me)
  OBVIOUS
<1>1. /\ Gemini!Translated /\ gMessage' = TRUE /\ gCalled' = gCalled
      /\ gReasoning' = IF gReasoning = "open" THEN "closed" ELSE gReasoning
      /\ gClient' = Gemini!Delta(c, me) /\ gBuffers' = [gBuffers EXCEPT ![me] = @ + 1]
  BY DEF Gemini!Text, Gemini!CloseReasoning, Gemini!Buffer
<1>2. /\ gBuffers \in [OutputOfGemini -> Nat] /\ gReasoning \in {"none", "open", "closed"}
      /\ gMessage \in BOOLEAN /\ gCalled \in SUBSET TwoCalls
      /\ \A x \in OutputOfGemini \ GeminiKnown : gBuffers[x] = 0
  BY DEF GeminiInv, Gemini!TypeOK
<1>3. c = IF gMessage THEN s ELSE Gemini!ItemAdded(s, me)
  BY DEF Gemini!Announced
<1>4. c \in Gemini!Reader
  BY <1>3, GeminiItems, GeminiAdded
<1>5. gClient' \in Gemini!Reader
  BY <1>1, <1>4, GeminiItems, GeminiDelta
<1>6. GeminiKnown' = GeminiKnown \cup {me} /\ gReasoning' \in {"none", "closed"}
  BY <1>1, <1>2 DEF GeminiKnown
<1>7. /\ gBuffers' \in [OutputOfGemini -> Nat]
      /\ \A x \in OutputOfGemini \ GeminiKnown' : gBuffers'[x] = 0
  BY <1>1, <1>2, <1>6, GeminiItems, GeminiBuffered
<1>8. ASSUME gExcuses = {}, gClient.stage # "completed",
             NEW ended, ended = IF gReasoning # "none" THEN {ra} ELSE {}
      PROVE  GeminiGot(gClient', GeminiKnown', gBuffers', ended)
  <2>1. GeminiGot(s, GeminiKnown, gBuffers, ended)
    BY <1>8, GeminiReasoned
  <2>2. GeminiGot(c, GeminiKnown', gBuffers, ended)
    <3>1. CASE gMessage
      <4>1. GeminiKnown \cup {me} = GeminiKnown
        BY <3>1 DEF GeminiKnown
      <4>. QED
        BY <1>3, <1>6, <2>1, <3>1, <4>1
    <3>2. CASE ~gMessage
      <4>1. me \in OutputOfGemini \ GeminiKnown
        BY <1>2, <3>2, GeminiItems DEF GeminiKnown
      <4>2. GeminiGot(Gemini!ItemAdded(s, me), GeminiKnown \cup {me}, gBuffers, ended)
        BY <1>2, <2>1, <4>1, GeminiGotAdded
      <4>. QED
        BY <1>3, <1>6, <3>2, <4>2
    <3>. QED
      BY <3>1, <3>2
  <2>3. me \in GeminiKnown' /\ me \in OutputOfGemini /\ me \notin ended
    BY <1>6, <1>8, GeminiItems
  <2>. QED
    BY <1>1, <1>2, <1>4, <2>2, <2>3, GeminiGotDelta
<1>9. (IF gReasoning' = "closed" THEN {ra} ELSE {}) = (IF gReasoning # "none" THEN {ra} ELSE {})
  BY <1>1, <1>2
<1>10. gExcuses = {} /\ gClient.stage # "completed" =>
         GeminiGot(gClient', GeminiKnown', gBuffers', IF gReasoning' = "closed" THEN {ra} ELSE {})
  BY <1>8, <1>9
<1>. QED
  BY <1>1, <1>2, <1>5, <1>6, <1>7, <1>10, GeminiAfter

LEMMA GeminiFunctionCall ==
  ASSUME GeminiInv, NEW x \in TwoCalls, NEW bare \in BOOLEAN, Gemini!FunctionCall(x, bare)
  PROVE  GeminiInv'
<1>. PICK s \in Gemini!Reader : s = Gemini!ReasoningDone(Gemini!Started)
  BY GeminiReasoned
<1>. PICK c : c = Gemini!ItemAdded(s, x)
  OBVIOUS
<1>1. /\ Gemini!Translated /\ gMessage' = gMessage /\ x \notin gCalled /\ gCalled' = gCalled \cup {x}
      /\ gReasoning' = IF gReasoning = "open" THEN "closed" ELSE gReasoning
  BY DEF Gemini!FunctionCall, Gemini!CloseReasoning
<1>2. /\ gBuffers \in [OutputOfGemini -> Nat] /\ gReasoning \in {"none", "open", "closed"}
      /\ gMessage \in BOOLEAN /\ gCalled \in SUBSET TwoCalls
      /\ \A y \in OutputOfGemini \ GeminiKnown : gBuffers[y] = 0
  BY DEF GeminiInv, Gemini!TypeOK
<1>3. x \in OutputOfGemini /\ x \notin GeminiKnown
  BY <1>1, GeminiItems DEF GeminiKnown
<1>4. c \in Gemini!Reader
  BY <1>3, GeminiAdded
<1>5. GeminiKnown' = GeminiKnown \cup {x} /\ gReasoning' \in {"none", "closed"}
  BY <1>1, <1>2 DEF GeminiKnown
<1>6. (IF gReasoning' = "closed" THEN {ra} ELSE {}) = (IF gReasoning # "none" THEN {ra} ELSE {})
  BY <1>1, <1>2
<1>7. ASSUME gExcuses = {}, gClient.stage # "completed",
             NEW ended, ended = IF gReasoning # "none" THEN {ra} ELSE {}
      PROVE  GeminiGot(c, GeminiKnown', gBuffers, ended)
  <2>1. GeminiGot(s, GeminiKnown, gBuffers, ended)
    BY <1>7, GeminiReasoned
  <2>2. x \in OutputOfGemini \ GeminiKnown /\ gBuffers[x] = 0
    BY <1>2, <1>3
  <2>3. GeminiGot(Gemini!ItemAdded(s, x), GeminiKnown \cup {x}, gBuffers, ended)
    BY <1>2, <2>1, <2>2, GeminiGotAdded
  <2>. QED
    BY <1>5, <2>3
<1>8. CASE bare
  <2>1. gClient' = c /\ gBuffers' = gBuffers
    BY <1>8 DEF Gemini!FunctionCall
  <2>2. gExcuses = {} /\ gClient.stage # "completed" =>
          GeminiGot(gClient', GeminiKnown', gBuffers', IF gReasoning' = "closed" THEN {ra} ELSE {})
    BY <1>6, <1>7, <2>1
  <2>3. gCalled' \in SUBSET TwoCalls
    BY <1>1, <1>2
  <2>4. gClient' \in Gemini!Reader /\ gBuffers' \in [OutputOfGemini -> Nat]
    BY <1>2, <1>4, <2>1
  <2>5. \A y \in OutputOfGemini \ GeminiKnown' : gBuffers'[y] = 0
    BY <1>2, <1>5, <2>1
  <2>. QED
    BY <1>1, <1>2, <1>5, <2>2, <2>3, <2>4, <2>5, GeminiAfter
<1>9. CASE ~bare
  <2>1. gClient' = Gemini!Delta(c, x) /\ gBuffers' = [gBuffers EXCEPT ![x] = @ + 1]
    BY <1>9 DEF Gemini!FunctionCall, Gemini!Buffer
  <2>2. gClient' \in Gemini!Reader
    BY <1>3, <1>4, <2>1, GeminiDelta
  <2>3. /\ gBuffers' \in [OutputOfGemini -> Nat]
        /\ \A y \in OutputOfGemini \ GeminiKnown' : gBuffers'[y] = 0
    BY <1>2, <1>3, <1>5, <2>1, GeminiBuffered
  <2>4. ASSUME gExcuses = {}, gClient.stage # "completed",
               NEW ended, ended = IF gReasoning # "none" THEN {ra} ELSE {}
        PROVE  GeminiGot(gClient', GeminiKnown', gBuffers', ended)
    <3>1. x \in GeminiKnown' /\ x \notin ended
      BY <1>5, <2>4, GeminiItems
    <3>2. GeminiGot(c, GeminiKnown', gBuffers, ended)
      BY <1>7, <2>4
    <3>3. GeminiGot(Gemini!Delta(c, x), GeminiKnown', [gBuffers EXCEPT ![x] = @ + 1], ended)
      BY <1>2, <1>3, <1>4, <3>1, <3>2, GeminiGotDelta
    <3>. QED
      BY <2>1, <3>3
  <2>5. gExcuses = {} /\ gClient.stage # "completed" =>
          GeminiGot(gClient', GeminiKnown', gBuffers', IF gReasoning' = "closed" THEN {ra} ELSE {})
    BY <1>6, <2>4
  <2>6. gCalled' \in SUBSET TwoCalls
    BY <1>1, <1>2
  <2>. QED
    BY <1>1, <1>2, <1>5, <2>2, <2>3, <2>5, <2>6, GeminiAfter
<1>. QED
  BY <1>8, <1>9

\* The ends of several items.
LEMMA GeminiItemsDone ==
  ASSUME NEW c \in Gemini!Reader, NEW items, NEW pieces \in [OutputOfGemini -> Nat], NEW ended,
         NEW left \in SUBSET OutputOfGemini
  PROVE  /\ Gemini!ItemsDone(c, left) \in Gemini!Reader
         /\ GeminiGot(c, items, pieces, ended) /\ left \subseteq items \ ended =>
              GeminiGot(Gemini!ItemsDone(c, left), items, pieces, ended \cup left)
<1>1. PICK e \in BOOLEAN : e <=> c.broken \/ \E x \in left : ~Gemini!Open(c, x)
  OBVIOUS
<1>2. PICK f \in SUBSET OutputOfGemini : f = c.finished \cup left
  BY DEF Gemini!Reader
<1>3. Gemini!ItemsDone(c, left) = [c EXCEPT !.finished = f, !.broken = e]
  BY <1>1, <1>2, Zenon DEF Gemini!ItemsDone
<1>4. PICK d \in Gemini!Reader : d = Gemini!ItemsDone(c, left)
  BY <1>3 DEF Gemini!Reader
<1>5. d.stage = c.stage /\ d.output = c.output /\ d.finished = f /\ (d.broken <=> e)
  BY <1>3, <1>4 DEF Gemini!Reader
<1>6. ASSUME GeminiGot(c, items, pieces, ended), left \subseteq items \ ended, NEW x \in left
      PROVE  Gemini!Open(c, x)
  <2>1. c.output[x] = 1 + pieces[x] /\ pieces[x] \in Nat
    BY <1>6 DEF GeminiGot, Gemini!Contents
  <2>. QED
    BY <1>6, <2>1 DEF GeminiGot, Gemini!Open
<1>. QED
  BY <1>1, <1>2, <1>4, <1>5, <1>6 DEF GeminiGot

LEMMA GeminiFinish ==
  ASSUME GeminiInv, Gemini!Finish
  PROVE  GeminiInv'
<1>. PICK s \in Gemini!Reader : s = Gemini!ReasoningDone(Gemini!Started)
  BY GeminiReasoned
<1>. PICK left : left = gCalled \cup IF gMessage THEN {me} ELSE {}
  OBVIOUS
<1>. PICK d : d = Gemini!ItemsDone(s, left)
  OBVIOUS
<1>1. /\ Gemini!Translated /\ gMessage' = gMessage /\ gCalled' = gCalled /\ gBuffers' = gBuffers
      /\ gReasoning' = IF gReasoning = "open" THEN "closed" ELSE gReasoning
      /\ gClient' = Gemini!Completed(d, Gemini!Collected)
  BY DEF Gemini!Finish, Gemini!CloseReasoning
<1>2. /\ gBuffers \in [OutputOfGemini -> Nat] /\ gReasoning \in {"none", "open", "closed"}
      /\ gMessage \in BOOLEAN /\ gCalled \in SUBSET TwoCalls
      /\ \A y \in OutputOfGemini \ GeminiKnown : gBuffers[y] = 0
  BY DEF GeminiInv, Gemini!TypeOK
<1>3. left \in SUBSET OutputOfGemini
  BY <1>2, GeminiItems
<1>4. d \in Gemini!Reader /\ Gemini!Completed(d, Gemini!Collected) \in Gemini!Reader
  BY <1>2, <1>3, GeminiItemsDone, GeminiCompleted
<1>5. GeminiKnown' = GeminiKnown /\ gReasoning' \in {"none", "closed"}
  BY <1>1, <1>2 DEF GeminiKnown
<1>6. Gemini!Collected = Gemini!Contents(GeminiKnown, gBuffers)
  BY DEF Gemini!Collected, GeminiKnown
<1>7. ASSUME gExcuses = {}, gClient.stage # "completed",
             NEW ended, ended = IF gReasoning # "none" THEN {ra} ELSE {}
      PROVE  ~gClient'.broken
  <2>1. GeminiGot(s, GeminiKnown, gBuffers, ended)
    BY <1>7, GeminiReasoned
  <2>2. left \subseteq GeminiKnown \ ended
    BY <1>2, <1>7, GeminiItems DEF GeminiKnown
  <2>3. GeminiGot(d, GeminiKnown, gBuffers, ended \cup left)
    BY <1>2, <1>3, <2>1, <2>2, GeminiItemsDone
  <2>4. GeminiKnown \subseteq ended \cup left
    BY <1>7 DEF GeminiKnown
  <2>5. ~Gemini!Completed(d, Gemini!Contents(GeminiKnown, gBuffers)).broken
    BY <1>2, <1>4, <2>3, <2>4, GeminiGotCompleted
  <2>. QED
    BY <1>1, <1>6, <2>5
<1>8. gClient'.stage = "completed"
  BY <1>1, <1>4, GeminiCompleted
<1>9. gExcuses = {} /\ gClient.stage # "completed" => ~gClient'.broken
  BY <1>7
<1>. QED
  BY <1>1, <1>2, <1>4, <1>5, <1>8, <1>9, GeminiAfter

LEMMA GeminiDone ==
  ASSUME GeminiInv, Gemini!Done
  PROVE  GeminiInv'
<1>1. /\ gClient' = Gemini!Started /\ gStarted' = TRUE /\ gDone' = TRUE
      /\ gReasoning' = gReasoning /\ gMessage' = gMessage /\ gCalled' = gCalled
      /\ gBuffers' = gBuffers /\ GeminiKnown' = GeminiKnown
  BY DEF Gemini!Done, GeminiKnown
<1>2. gExcuses' = gExcuses \cup IF gClient.stage = "completed" THEN {} ELSE {"cut"}
  BY DEF Gemini!Done
<1>3. Gemini!TypeOK'
  BY <1>1, <1>2, GeminiStarted DEF GeminiInv, Gemini!TypeOK
<1>4. ASSUME gExcuses' = {} PROVE ~gClient'.broken /\ gClient'.stage = "completed"
  <2>1. gExcuses = {} /\ gClient.stage = "completed"
    BY <1>2, <1>4
  <2>2. gStarted
    BY <2>1 DEF GeminiInv, Gemini!NewReader
  <2>. QED
    BY <1>1, <2>1, <2>2 DEF GeminiInv, Gemini!Started
<1>. QED
  BY <1>1, <1>3, <1>4 DEF GeminiInv

LEMMA GeminiNext == ASSUME GeminiInv, Gemini!Next PROVE GeminiInv'
  BY GeminiThought, GeminiText, GeminiFunctionCall, GeminiFinish, GeminiDone DEF Gemini!Next

LEMMA GeminiInit == ASSUME Gemini!Init PROVE GeminiInv
<1>1. Gemini!NewReader \in Gemini!Reader /\ Gemini!NewReader.stage = "none"
      /\ ~Gemini!NewReader.broken
  BY DEF Gemini!NewReader, Gemini!Reader, Gemini!Output, Gemini!Nothing
<1>. QED
  BY <1>1 DEF Gemini!Init, GeminiInv, Gemini!TypeOK, GeminiKnown

LEMMA GeminiWellFormed == ASSUME GeminiInv PROVE Gemini!TypeOK /\ Gemini!AnswerWellFormed
  BY DEF GeminiInv, Gemini!AnswerWellFormed

-----------------------------------------------------------------------------
(* ClaudeToResponses: Claude's answers for a client of the Responses API. *)

\* A client of Claude's translator that can place all so far: what is streamed of the items, and
\* the items at their end.
ClaudeGot(c, items, pieces, ended) ==
  /\ c.stage = "created" /\ ~c.broken
  /\ c.output = Claude!Contents(items, pieces) /\ c.finished = ended

\* What the client has seen after an event, field by field.
LEMMA ClaudeCreated ==
  ASSUME NEW c \in Claude!Reader
  PROVE  /\ Claude!Created(c) \in Claude!Reader
         /\ Claude!Created(c).stage = "created"
         /\ Claude!Created(c).output = c.output
         /\ Claude!Created(c).finished = c.finished
         /\ Claude!Created(c).broken <=> c.broken \/ c.stage # "none"
  BY DEF Claude!Created, Claude!Reader

LEMMA ClaudeAdded ==
  ASSUME NEW c \in Claude!Reader, NEW x \in OutputOfClaude
  PROVE  /\ Claude!ItemAdded(c, x) \in Claude!Reader
         /\ Claude!ItemAdded(c, x).stage = c.stage
         /\ Claude!ItemAdded(c, x).output = [c.output EXCEPT ![x] = 1]
         /\ Claude!ItemAdded(c, x).finished = c.finished
         /\ Claude!ItemAdded(c, x).broken <=> c.broken \/ c.stage # "created" \/ c.output[x] > 0
<1>1. [c.output EXCEPT ![x] = 1] \in Claude!Output
  BY DEF Claude!Reader, Claude!Output
<1>2. PICK o \in Claude!Output : o = [c.output EXCEPT ![x] = 1]
  BY <1>1
<1>3. PICK e \in BOOLEAN : e <=> c.broken \/ c.stage # "created" \/ c.output[x] > 0
  OBVIOUS
<1>4. Claude!ItemAdded(c, x) = [c EXCEPT !.output = o, !.broken = e]
  BY <1>2, <1>3, Zenon DEF Claude!ItemAdded
<1>. QED
  BY <1>2, <1>3, <1>4 DEF Claude!Reader

LEMMA ClaudeDelta ==
  ASSUME NEW c \in Claude!Reader, NEW x \in OutputOfClaude
  PROVE  /\ Claude!Delta(c, x) \in Claude!Reader
         /\ Claude!Delta(c, x).stage = c.stage
         /\ Claude!Delta(c, x).output = [c.output EXCEPT ![x] = @ + 1]
         /\ Claude!Delta(c, x).finished = c.finished
         /\ Claude!Delta(c, x).broken <=> c.broken \/ ~Claude!Open(c, x)
<1>1. [c.output EXCEPT ![x] = @ + 1] \in Claude!Output
  BY DEF Claude!Reader, Claude!Output
<1>2. PICK o \in Claude!Output : o = [c.output EXCEPT ![x] = @ + 1]
  BY <1>1
<1>3. PICK e \in BOOLEAN : e <=> c.broken \/ ~Claude!Open(c, x)
  OBVIOUS
<1>4. Claude!Delta(c, x) = [c EXCEPT !.output = o, !.broken = e]
  BY <1>2, <1>3, Zenon DEF Claude!Delta
<1>. QED
  BY <1>2, <1>3, <1>4 DEF Claude!Reader

LEMMA ClaudeItemDone ==
  ASSUME NEW c \in Claude!Reader, NEW x \in OutputOfClaude
  PROVE  /\ Claude!ItemDone(c, x) \in Claude!Reader
         /\ Claude!ItemDone(c, x).stage = c.stage
         /\ Claude!ItemDone(c, x).output = c.output
         /\ Claude!ItemDone(c, x).finished = c.finished \cup {x}
         /\ Claude!ItemDone(c, x).broken <=> c.broken \/ ~Claude!Open(c, x)
<1>1. PICK e \in BOOLEAN : e <=> c.broken \/ ~Claude!Open(c, x)
  OBVIOUS
<1>2. PICK f \in SUBSET OutputOfClaude : f = c.finished \cup {x}
  BY DEF Claude!Reader
<1>3. Claude!ItemDone(c, x) = [c EXCEPT !.finished = f, !.broken = e]
  BY <1>1, <1>2, Zenon DEF Claude!ItemDone
<1>. QED
  BY <1>1, <1>2, <1>3 DEF Claude!Reader

LEMMA ClaudeCompleted ==
  ASSUME NEW c \in Claude!Reader, NEW output
  PROVE  /\ Claude!Completed(c, output) \in Claude!Reader
         /\ Claude!Completed(c, output).stage = "completed"
         /\ Claude!Completed(c, output).output = c.output
         /\ Claude!Completed(c, output).broken
              <=> \/ c.broken \/ c.stage # "created" \/ output # c.output
                  \/ \E x \in OutputOfClaude : Claude!Open(c, x)
<1>1. PICK e \in BOOLEAN : e <=> \/ c.broken \/ c.stage # "created" \/ output # c.output
                                 \/ \E x \in OutputOfClaude : Claude!Open(c, x)
  OBVIOUS
<1>2. Claude!Completed(c, output) = [c EXCEPT !.stage = "completed", !.broken = e]
  BY <1>1, Zenon DEF Claude!Completed
<1>. QED
  BY <1>1, <1>2 DEF Claude!Reader

LEMMA ClaudeGotAdded ==
  ASSUME NEW c \in Claude!Reader, NEW items, NEW pieces \in [OutputOfClaude -> Nat], NEW ended,
         NEW x \in OutputOfClaude \ items, ClaudeGot(c, items, pieces, ended), pieces[x] = 0
  PROVE  ClaudeGot(Claude!ItemAdded(c, x), items \cup {x}, pieces, ended)
<1>1. c.output \in [OutputOfClaude -> Nat] /\ c.output[x] = 0
  BY DEF ClaudeGot, Claude!Contents
<1>2. [c.output EXCEPT ![x] = 1] = Claude!Contents(items \cup {x}, pieces)
  BY <1>1 DEF ClaudeGot, Claude!Contents
<1>3. PICK d : d = Claude!ItemAdded(c, x)
  OBVIOUS
<1>4. /\ d.stage = c.stage /\ d.output = [c.output EXCEPT ![x] = 1] /\ d.finished = c.finished
      /\ d.broken <=> c.broken \/ c.stage # "created" \/ c.output[x] > 0
  BY <1>3, ClaudeAdded
<1>5. ~(c.output[x] > 0)
  BY <1>1
<1>6. ClaudeGot(d, items \cup {x}, pieces, ended)
  BY <1>2, <1>4, <1>5 DEF ClaudeGot
<1>. QED
  BY <1>3, <1>6

LEMMA ClaudeGotDelta ==
  ASSUME NEW c \in Claude!Reader, NEW items, NEW pieces \in [OutputOfClaude -> Nat], NEW ended,
         NEW x \in OutputOfClaude, x \in items, x \notin ended, ClaudeGot(c, items, pieces, ended)
  PROVE  ClaudeGot(Claude!Delta(c, x), items, [pieces EXCEPT ![x] = @ + 1], ended)
<1>1. c.output \in [OutputOfClaude -> Nat] /\ c.output[x] = 1 + pieces[x]
  BY DEF ClaudeGot, Claude!Contents
<1>2. [c.output EXCEPT ![x] = @ + 1] = Claude!Contents(items, [pieces EXCEPT ![x] = @ + 1])
  BY <1>1 DEF ClaudeGot, Claude!Contents
<1>3. Claude!Open(c, x)
  BY <1>1 DEF Claude!Open, ClaudeGot
<1>. QED
  BY <1>2, <1>3, ClaudeDelta DEF ClaudeGot

LEMMA ClaudeGotItemDone ==
  ASSUME NEW c \in Claude!Reader, NEW items, NEW pieces \in [OutputOfClaude -> Nat], NEW ended,
         NEW x \in OutputOfClaude, x \in items, x \notin ended, ClaudeGot(c, items, pieces, ended)
  PROVE  ClaudeGot(Claude!ItemDone(c, x), items, pieces, ended \cup {x})
<1>1. c.output \in [OutputOfClaude -> Nat] /\ c.output[x] = 1 + pieces[x]
  BY DEF ClaudeGot, Claude!Contents
<1>2. Claude!Open(c, x)
  BY <1>1 DEF Claude!Open, ClaudeGot
<1>. QED
  BY <1>2, ClaudeItemDone DEF ClaudeGot

LEMMA ClaudeGotCompleted ==
  ASSUME NEW c \in Claude!Reader, NEW items, NEW pieces \in [OutputOfClaude -> Nat], NEW ended,
         items \subseteq ended, ClaudeGot(c, items, pieces, ended)
  PROVE  ~Claude!Completed(c, Claude!Contents(items, pieces)).broken
<1>1. ASSUME NEW x \in OutputOfClaude PROVE ~Claude!Open(c, x)
  <2>1. x \notin items => c.output[x] = 0
    BY DEF ClaudeGot, Claude!Contents
  <2>. QED
    BY <2>1 DEF ClaudeGot, Claude!Open
<1>. QED
  BY <1>1, ClaudeCompleted DEF ClaudeGot

\* A piece goes into a buffer.
LEMMA ClaudeBuffered ==
  ASSUME NEW items, NEW pieces \in [OutputOfClaude -> Nat], NEW x \in OutputOfClaude,
         \A y \in OutputOfClaude \ items : pieces[y] = 0
  PROVE  /\ [pieces EXCEPT ![x] = @ + 1] \in [OutputOfClaude -> Nat]
         /\ \A y \in OutputOfClaude \ (items \cup {x}) : [pieces EXCEPT ![x] = @ + 1][y] = 0
<1>1. [pieces EXCEPT ![x] = @ + 1] \in [OutputOfClaude -> Nat]
  OBVIOUS
<1>2. ASSUME NEW y \in OutputOfClaude \ (items \cup {x}) PROVE [pieces EXCEPT ![x] = @ + 1][y] = 0
  <2>1. y \in OutputOfClaude /\ y # x /\ pieces[y] = 0
    OBVIOUS
  <2>. QED
    BY <2>1
<1>. QED
  BY <1>1, <1>2

\* The items of an answer that Claude's translator knows, and the one that is open.
ClaudeKnown ==
  cCalled \cup (IF cReasoning # 0 THEN {cReasoning} ELSE {}) \cup (IF cMessage THEN {0} ELSE {})

ClaudeAtHand ==
  IF cBlock = "text" THEN {0} ELSE IF cBlock \in {"tool_use", "thinking"} THEN {cAt} ELSE {}

\* What the translator takes to be open is the block at hand.
ClaudeBlocks ==
  /\ cText <=> cBlock = "text"
  /\ cFunc <=> cBlock = "tool_use"
  /\ cThinking <=> cBlock = "thinking"
  /\ cBlock = "text" => cMessage
  /\ cBlock = "tool_use" => cAt \in cCalled
  /\ cBlock = "thinking" => cReasoning = cAt
  /\ cBlock # "none" => cSource = "begun" /\ cAt > 0
  /\ cSource = "none" => cAt = 0 /\ ~cMessage
  /\ cReasoning <= cAt /\ cReasoning \notin cCalled
  /\ \A x \in 1..AnswerBlocks : x > cAt => x \notin cCalled /\ cBuffers[x] = 0
  /\ ~cMessage => cBuffers[0] = 0

ClaudeSeen ==
  /\ cSource = "none" => cClient = Claude!NewReader
  /\ cSource = "begun" => ClaudeGot(cClient, ClaudeKnown, cBuffers, ClaudeKnown \ ClaudeAtHand)
  /\ cSource = "over" => cClient.stage = "completed" /\ ~cClient.broken
  /\ cReasoning # 0 /\ cBlock # "thinking" => cBuffers[cReasoning] > 0

ClaudeInv == Claude!TypeOK /\ ClaudeBlocks /\ (cExcuses = {} => ClaudeSeen)

LEMMA ClaudeItems ==
  /\ OutputOfClaude = 0..AnswerBlocks /\ AnswerBlocks \in Nat /\ Claude!Blocks = 1..AnswerBlocks
  /\ Claude!Message = 0 /\ 0 \in OutputOfClaude
  BY AnswersParameters DEF Claude!ClaudeParameters, OutputOfClaude, Claude!Blocks, Claude!Message

LEMMA ClaudeMessageStart == ASSUME ClaudeInv, Claude!MessageStart PROVE ClaudeInv'
<1>1. /\ cSource = "none" /\ cSource' = "begun" /\ cClient' = Claude!Created(cClient)
      /\ cAt' = cAt /\ cBlock' = cBlock /\ cText' = cText /\ cFunc' = cFunc
      /\ cThinking' = cThinking /\ cReasoning' = cReasoning /\ cMessage' = cMessage
      /\ cCalled' = cCalled /\ cBuffers' = cBuffers /\ cExcuses' = cExcuses
  BY DEF Claude!MessageStart
<1>2. Claude!TypeOK'
  BY <1>1, ClaudeCreated DEF ClaudeInv, Claude!TypeOK
<1>3. ClaudeBlocks'
  BY <1>1 DEF ClaudeInv, ClaudeBlocks
<1>4. cBlock = "none" /\ ClaudeKnown = {}
  <2>1. cBlock = "none" /\ cAt = 0 /\ cReasoning = 0 /\ ~cMessage
    BY <1>1 DEF ClaudeInv, ClaudeBlocks, Claude!TypeOK, Claude!Block
  <2>2. cCalled = {}
    BY <2>1, ClaudeItems DEF ClaudeInv, ClaudeBlocks, Claude!TypeOK
  <2>. QED
    BY <2>1, <2>2 DEF ClaudeKnown
<1>5. ASSUME cExcuses = {} PROVE ClaudeSeen'
  <2>1. /\ cClient = Claude!NewReader /\ cClient \in Claude!Reader
        /\ cClient.stage = "none" /\ cClient.output = Claude!Nothing /\ cClient.finished = {}
        /\ ~cClient.broken
    BY <1>1, <1>5 DEF ClaudeInv, ClaudeSeen, Claude!NewReader, Claude!TypeOK
  <2>2. Claude!Nothing = Claude!Contents({}, cBuffers)
    BY DEF Claude!Nothing, Claude!Contents
  <2>3. ClaudeGot(Claude!Created(cClient), {}, cBuffers, {})
    BY <2>1, <2>2, ClaudeCreated DEF ClaudeGot
  <2>4. ClaudeKnown' = {}
    BY <1>1, <1>4 DEF ClaudeKnown
  <2>5. cReasoning = 0
    BY <1>4 DEF ClaudeKnown
  <2>. QED
    BY <1>1, <2>3, <2>4, <2>5 DEF ClaudeSeen
<1>. QED
  BY <1>1, <1>2, <1>3, <1>5 DEF ClaudeInv

LEMMA ClaudeBlockStart ==
  ASSUME ClaudeInv, NEW k \in Claude!Block, Claude!BlockStart(k)
  PROVE  ClaudeInv'
<1>1. /\ cSource = "begun" /\ cBlock = "none" /\ cAt < AnswerBlocks
      /\ cAt' = cAt + 1 /\ cBlock' = k /\ cSource' = cSource /\ cBuffers' = cBuffers
      /\ cText' = (cText \/ k = "text") /\ cMessage' = (cMessage \/ k = "text")
      /\ cFunc' = (cFunc \/ k = "tool_use")
      /\ cCalled' = (IF k = "tool_use" THEN cCalled \cup {cAt + 1} ELSE cCalled)
      /\ cThinking' = (cThinking \/ k = "thinking")
      /\ cReasoning' = (IF k = "thinking" THEN cAt + 1 ELSE cReasoning)
  BY DEF Claude!BlockStart
<1>2. cExcuses' = cExcuses
                  \cup (IF k = "text" /\ cMessage THEN {"texts"} ELSE {})
                  \cup (IF k = "thinking" /\ cReasoning # 0 THEN {"thoughts"} ELSE {})
  BY DEF Claude!BlockStart
<1>3. /\ cAt \in 0..AnswerBlocks /\ cReasoning \in 0..AnswerBlocks /\ cCalled \in SUBSET (1..AnswerBlocks)
      /\ cBuffers \in [OutputOfClaude -> Nat] /\ cClient \in Claude!Reader
      /\ {cText, cFunc, cThinking, cMessage} \subseteq BOOLEAN /\ AnswerBlocks \in Nat
      /\ cAt + 1 \in 1..AnswerBlocks /\ cAt + 1 \in OutputOfClaude /\ cAt + 1 # 0
      /\ k \in {"text", "tool_use", "thinking", "other"}
  BY <1>1, ClaudeItems DEF ClaudeInv, Claude!TypeOK, Claude!Block
<1>4. PICK x \in OutputOfClaude : x = IF k = "text" THEN 0 ELSE cAt + 1
  BY <1>3, ClaudeItems
<1>5. cClient' = IF k = "other" THEN cClient ELSE Claude!ItemAdded(cClient, x)
  <2>1. cClient' = CASE k = "text"                    -> Claude!ItemAdded(cClient, Claude!Message)
                     [] k \in {"tool_use", "thinking"} -> Claude!ItemAdded(cClient, cAt + 1)
                     [] k = "other"                   -> cClient
    BY DEF Claude!BlockStart
  <2>2. CASE k = "text"
    BY <2>1, <2>2, <1>4, ClaudeItems
  <2>3. CASE k \in {"tool_use", "thinking"}
    BY <2>1, <2>3, <1>4
  <2>4. CASE k = "other"
    BY <2>1, <2>4
  <2>. QED
    BY <1>3, <2>2, <2>3, <2>4
<1>6. cClient' \in Claude!Reader
  BY <1>3, <1>5, ClaudeAdded
<1>7. Claude!TypeOK'
  <2>1. cAt' \in 0..AnswerBlocks /\ cReasoning' \in 0..AnswerBlocks
    BY <1>1, <1>3
  <2>2. cCalled' \subseteq 1..AnswerBlocks
    BY <1>1, <1>3
  <2>3. {cText', cFunc', cThinking', cMessage'} \subseteq BOOLEAN
    BY <1>1, <1>3
  <2>. QED
    BY <1>1, <1>2, <1>3, <1>6, <2>1, <2>2, <2>3, ClaudeItems DEF ClaudeInv, Claude!TypeOK, Claude!Block
<1>8. ClaudeBlocks
  BY DEF ClaudeInv
<1>9. ClaudeBlocks'
  <2>1. \A y \in 1..AnswerBlocks : y > cAt' => y \notin cCalled' /\ cBuffers'[y] = 0
    BY <1>1, <1>3, <1>8 DEF ClaudeBlocks
  <2>2. cAt + 1 \notin cCalled /\ 0 \notin cCalled'
    BY <1>1, <1>3, <1>8 DEF ClaudeBlocks
  <2>3. cReasoning' <= cAt' /\ cReasoning' \notin cCalled'
    BY <1>1, <1>3, <1>8, <2>2 DEF ClaudeBlocks
  <2>4. /\ cText' <=> cBlock' = "text"
        /\ cFunc' <=> cBlock' = "tool_use"
        /\ cThinking' <=> cBlock' = "thinking"
    BY <1>1, <1>3, <1>8 DEF ClaudeBlocks
  <2>5. cAt' > 0
    BY <1>1, <1>3
  <2>. QED
    BY <1>1, <1>3, <1>8, <2>1, <2>3, <2>4, <2>5 DEF ClaudeBlocks
<1>10. ASSUME cExcuses' = {} PROVE ClaudeSeen'
  <2>1. /\ cExcuses = {} /\ ClaudeSeen /\ (k = "text" => ~cMessage)
        /\ (k = "thinking" => cReasoning = 0)
    BY <1>2, <1>10 DEF ClaudeInv
  <2>2. ClaudeGot(cClient, ClaudeKnown, cBuffers, ClaudeKnown)
    <3>1. ClaudeAtHand = {}
      BY <1>1 DEF ClaudeAtHand
    <3>2. ClaudeKnown \ ClaudeAtHand = ClaudeKnown
      BY <3>1
    <3>. QED
      BY <1>1, <2>1, <3>2 DEF ClaudeSeen
  <2>3. CASE k = "other"
    <3>1. ClaudeKnown' = ClaudeKnown /\ ClaudeAtHand' = {}
      BY <1>1, <1>3, <2>3 DEF ClaudeKnown, ClaudeAtHand
    <3>2. ClaudeKnown' \ ClaudeAtHand' = ClaudeKnown
      BY <3>1
    <3>3. cClient' = cClient
      BY <1>5, <2>3
    <3>. QED
      BY <1>1, <2>1, <2>2, <2>3, <3>1, <3>2, <3>3 DEF ClaudeSeen
  <2>4. CASE k # "other"
    <3>1. ClaudeKnown' = ClaudeKnown \cup {x}
      <4>1. CASE k = "text"
        BY <1>1, <1>4, <4>1 DEF ClaudeKnown
      <4>2. CASE k = "tool_use"
        BY <1>1, <1>4, <4>2 DEF ClaudeKnown
      <4>3. CASE k = "thinking"
        BY <1>1, <1>3, <1>4, <2>1, <4>3 DEF ClaudeKnown
      <4>. QED
        BY <1>3, <2>4, <4>1, <4>2, <4>3
    <3>2. x \in OutputOfClaude \ ClaudeKnown /\ cBuffers[x] = 0
      <4>1. CASE k = "text"
        BY <1>3, <1>4, <1>8, <2>1, <4>1 DEF ClaudeKnown, ClaudeBlocks
      <4>2. CASE k # "text"
        <5>1. cAt + 1 > cAt /\ cAt + 1 \notin cCalled /\ cBuffers[cAt + 1] = 0 /\ cReasoning # cAt + 1
          BY <1>3, <1>8 DEF ClaudeBlocks
        <5>. QED
          BY <1>3, <1>4, <4>2, <5>1 DEF ClaudeKnown
      <4>. QED
        BY <4>1, <4>2
    <3>3. ClaudeAtHand' = {x}
      BY <1>1, <1>3, <1>4, <2>4 DEF ClaudeAtHand
    <3>4. (ClaudeKnown \cup {x}) \ {x} = ClaudeKnown
      BY <3>2
    <3>5. ClaudeGot(Claude!ItemAdded(cClient, x), ClaudeKnown \cup {x}, cBuffers, ClaudeKnown)
      BY <1>3, <2>2, <3>2, ClaudeGotAdded
    <3>6. ClaudeGot(cClient', ClaudeKnown', cBuffers', ClaudeKnown' \ ClaudeAtHand')
      BY <1>1, <1>5, <2>4, <3>1, <3>3, <3>4, <3>5
    <3>7. cReasoning' # 0 /\ cBlock' # "thinking" => cBuffers'[cReasoning'] > 0
      BY <1>1, <2>1 DEF ClaudeSeen
    <3>. QED
      BY <1>1, <3>6, <3>7 DEF ClaudeSeen
  <2>. QED
    BY <2>3, <2>4
<1>. QED
  BY <1>7, <1>9, <1>10 DEF ClaudeInv

LEMMA ClaudeBlockDelta == ASSUME ClaudeInv, Claude!BlockDelta PROVE ClaudeInv'
<1>1. /\ cSource = "begun" /\ cBlock \in {"text", "tool_use", "thinking"}
      /\ cSource' = cSource /\ cAt' = cAt /\ cBlock' = cBlock /\ cText' = cText /\ cFunc' = cFunc
      /\ cThinking' = cThinking /\ cReasoning' = cReasoning /\ cMessage' = cMessage
      /\ cCalled' = cCalled /\ cExcuses' = cExcuses
  BY DEF Claude!BlockDelta
<1>2. /\ cAt \in 0..AnswerBlocks /\ cBuffers \in [OutputOfClaude -> Nat]
      /\ cClient \in Claude!Reader /\ cReasoning \in 0..AnswerBlocks
  BY DEF ClaudeInv, Claude!TypeOK
<1>3. ClaudeBlocks
  BY DEF ClaudeInv
<1>4. PICK x \in OutputOfClaude : x = IF cBlock = "text" THEN 0 ELSE cAt
  BY <1>2, ClaudeItems
<1>5. cBlock = "thinking" => cThinking
  BY <1>3 DEF ClaudeBlocks
<1>6. cBuffers' = [cBuffers EXCEPT ![x] = @ + 1] /\ cClient' = Claude!Delta(cClient, x)
  BY <1>4, <1>5, ClaudeItems DEF Claude!BlockDelta
<1>7. cClient' \in Claude!Reader /\ cBuffers' \in [OutputOfClaude -> Nat]
  <2>1. cClient' \in Claude!Reader
    BY <1>2, <1>6, ClaudeDelta
  <2>2. cBuffers' \in [OutputOfClaude -> Nat]
    BY <1>2, <1>6
  <2>. QED
    BY <2>1, <2>2
<1>8. Claude!TypeOK'
  BY <1>1, <1>7 DEF ClaudeInv, Claude!TypeOK
<1>9. /\ ClaudeKnown' = ClaudeKnown /\ ClaudeAtHand' = ClaudeAtHand
      /\ ClaudeAtHand = {x} /\ x \in ClaudeKnown
  <2>1. ClaudeKnown' = ClaudeKnown /\ ClaudeAtHand' = ClaudeAtHand
    BY <1>1 DEF ClaudeKnown, ClaudeAtHand
  <2>2. ClaudeAtHand = {x}
    BY <1>1, <1>4 DEF ClaudeAtHand
  <2>3. x \in ClaudeKnown
    BY <1>1, <1>3, <1>4 DEF ClaudeKnown, ClaudeBlocks
  <2>. QED
    BY <2>1, <2>2, <2>3
<1>10. ClaudeBlocks'
  <2>1. \A y \in OutputOfClaude : y # x => cBuffers'[y] = cBuffers[y]
    BY <1>2, <1>6
  <2>2. ASSUME NEW y \in 1..AnswerBlocks, y > cAt PROVE y \notin cCalled /\ cBuffers'[y] = 0
    <3>1. y # x /\ y \in OutputOfClaude
      BY <1>2, <1>4, <2>2, ClaudeItems
    <3>. QED
      BY <1>3, <2>1, <2>2, <3>1 DEF ClaudeBlocks
  <2>3. ~cMessage => cBuffers'[0] = 0
    <3>1. ~cMessage => 0 # x
      BY <1>1, <1>2, <1>3, <1>4 DEF ClaudeBlocks
    <3>. QED
      BY <1>3, <2>1, <3>1, ClaudeItems DEF ClaudeBlocks
  <2>. QED
    BY <1>1, <1>3, <2>2, <2>3 DEF ClaudeBlocks
<1>11. ASSUME cExcuses = {} PROVE ClaudeSeen'
  <2>1. ClaudeSeen /\ ClaudeGot(cClient, ClaudeKnown, cBuffers, ClaudeKnown \ ClaudeAtHand)
    BY <1>1, <1>11 DEF ClaudeInv, ClaudeSeen
  <2>2. x \in OutputOfClaude /\ x \in ClaudeKnown /\ x \notin ClaudeKnown \ ClaudeAtHand
    BY <1>9
  <2>3. ClaudeGot(Claude!Delta(cClient, x), ClaudeKnown, [cBuffers EXCEPT ![x] = @ + 1],
                  ClaudeKnown \ ClaudeAtHand)
    BY <1>2, <2>1, <2>2, ClaudeGotDelta
  <2>4. cReasoning # 0 /\ cBlock # "thinking" => cBuffers'[cReasoning] > 0
    <3>1. ASSUME cReasoning # 0, cBlock # "thinking" PROVE cBuffers'[cReasoning] > 0
      <4>1. cReasoning \in OutputOfClaude /\ cBuffers[cReasoning] > 0
        BY <1>2, <2>1, <3>1, ClaudeItems DEF ClaudeSeen
      <4>2. x # cReasoning
        BY <1>1, <1>3, <1>4, <3>1 DEF ClaudeBlocks
      <4>. QED
        BY <1>2, <1>6, <4>1, <4>2
    <3>. QED
      BY <3>1
  <2>. QED
    BY <1>1, <1>6, <1>9, <2>3, <2>4 DEF ClaudeSeen
<1>. QED
  BY <1>1, <1>8, <1>10, <1>11 DEF ClaudeInv

LEMMA ClaudeBlockStop == ASSUME ClaudeInv, Claude!BlockStop PROVE ClaudeInv'
<1>1. /\ cSource = "begun" /\ cBlock # "none" /\ cBlock' = "none"
      /\ cSource' = cSource /\ cAt' = cAt /\ cReasoning' = cReasoning /\ cMessage' = cMessage
      /\ cCalled' = cCalled /\ cBuffers' = cBuffers
      /\ cExcuses' = IF cBlock = "thinking" /\ cBuffers[cAt] = 0 THEN cExcuses \cup {"silent"}
                                                                 ELSE cExcuses
  BY DEF Claude!BlockStop
<1>2. /\ cAt \in 0..AnswerBlocks /\ cBuffers \in [OutputOfClaude -> Nat] /\ cClient \in Claude!Reader
      /\ cBlock \in {"text", "tool_use", "thinking", "other"}
      /\ {cText, cFunc, cThinking, cMessage} \subseteq BOOLEAN
  BY <1>1 DEF ClaudeInv, Claude!TypeOK, Claude!Block
<1>3. ClaudeBlocks
  BY DEF ClaudeInv
<1>4. PICK x \in OutputOfClaude : x = IF cBlock = "text" THEN 0 ELSE cAt
  BY <1>2, ClaudeItems
<1>5. /\ ~cText' /\ ~cFunc' /\ ~cThinking'
      /\ cClient' = IF cBlock = "other" THEN cClient ELSE Claude!ItemDone(cClient, x)
      /\ {cText', cFunc', cThinking'} \subseteq BOOLEAN
  <2>1. CASE cBlock = "text"
    <3>1. cText /\ ~cFunc /\ ~cThinking
      BY <1>3, <2>1 DEF ClaudeBlocks
    <3>. QED
      BY <1>2, <1>4, <2>1, <3>1, ClaudeItems DEF Claude!BlockStop
  <2>2. CASE cBlock = "tool_use"
    <3>1. ~cText /\ cFunc /\ ~cThinking
      BY <1>3, <2>2 DEF ClaudeBlocks
    <3>. QED
      BY <1>2, <1>4, <2>2, <3>1 DEF Claude!BlockStop
  <2>3. CASE cBlock = "thinking"
    <3>1. ~cText /\ ~cFunc /\ cThinking /\ cReasoning = cAt
      BY <1>3, <2>3 DEF ClaudeBlocks
    <3>. QED
      BY <1>2, <1>4, <2>3, <3>1 DEF Claude!BlockStop
  <2>4. CASE cBlock = "other"
    <3>1. ~cText /\ ~cFunc /\ ~cThinking
      BY <1>3, <2>4 DEF ClaudeBlocks
    <3>. QED
      BY <1>2, <1>4, <2>4, <3>1 DEF Claude!BlockStop
  <2>. QED
    BY <1>2, <2>1, <2>2, <2>3, <2>4
<1>6. cClient' \in Claude!Reader
  BY <1>2, <1>5, ClaudeItemDone
<1>7. Claude!TypeOK'
  BY <1>1, <1>2, <1>5, <1>6 DEF ClaudeInv, Claude!TypeOK
<1>8. ClaudeBlocks'
  BY <1>1, <1>3, <1>5 DEF ClaudeBlocks
<1>9. ASSUME cExcuses' = {} PROVE ClaudeSeen'
  <2>1. cExcuses = {} /\ (cBlock = "thinking" => cBuffers[cAt] # 0)
    BY <1>1, <1>9
  <2>2. ClaudeSeen /\ ClaudeGot(cClient, ClaudeKnown, cBuffers, ClaudeKnown \ ClaudeAtHand)
    BY <1>1, <2>1 DEF ClaudeInv, ClaudeSeen
  <2>3. ClaudeKnown' = ClaudeKnown /\ ClaudeAtHand' = {}
    BY <1>1 DEF ClaudeKnown, ClaudeAtHand
  <2>4. ClaudeGot(cClient', ClaudeKnown, cBuffers, ClaudeKnown)
    <3>1. CASE cBlock = "other"
      <4>1. ClaudeKnown \ ClaudeAtHand = ClaudeKnown
        BY <3>1 DEF ClaudeAtHand
      <4>. QED
        BY <1>5, <2>2, <3>1, <4>1
    <3>2. CASE cBlock # "other"
      <4>1. ClaudeAtHand = {x}
        BY <1>2, <1>4, <3>2 DEF ClaudeAtHand
      <4>2. x \in ClaudeKnown
        BY <1>2, <1>3, <1>4, <3>2 DEF ClaudeKnown, ClaudeBlocks
      <4>3. x \notin ClaudeKnown \ ClaudeAtHand
        BY <4>1
      <4>4. (ClaudeKnown \ ClaudeAtHand) \cup {x} = ClaudeKnown
        BY <4>1, <4>2
      <4>5. ClaudeGot(Claude!ItemDone(cClient, x), ClaudeKnown, cBuffers,
                      (ClaudeKnown \ ClaudeAtHand) \cup {x})
        BY <1>2, <2>2, <4>2, <4>3, ClaudeGotItemDone
      <4>. QED
        BY <1>5, <3>2, <4>4, <4>5
    <3>. QED
      BY <3>1, <3>2
  <2>5. cReasoning # 0 => cBuffers[cReasoning] > 0
    <3>1. CASE cBlock = "thinking"
      <4>1. cReasoning = cAt /\ cBuffers[cAt] \in Nat
        BY <1>2, <1>3, <3>1, ClaudeItems DEF ClaudeBlocks
      <4>. QED
        BY <2>1, <3>1, <4>1
    <3>2. CASE cBlock # "thinking"
      BY <2>2, <3>2 DEF ClaudeSeen
    <3>. QED
      BY <3>1, <3>2
  <2>6. ClaudeKnown \ {} = ClaudeKnown
    OBVIOUS
  <2>. QED
    BY <1>1, <2>3, <2>4, <2>5, <2>6 DEF ClaudeSeen
<1>. QED
  BY <1>7, <1>8, <1>9 DEF ClaudeInv

LEMMA ClaudeMessageStop == ASSUME ClaudeInv, Claude!MessageStop PROVE ClaudeInv'
<1>1. /\ cSource = "begun" /\ cBlock = "none" /\ cSource' = "over"
      /\ cClient' = Claude!Completed(cClient, Claude!Collected)
      /\ cAt' = cAt /\ cBlock' = cBlock /\ cText' = cText /\ cFunc' = cFunc
      /\ cThinking' = cThinking /\ cReasoning' = cReasoning /\ cMessage' = cMessage
      /\ cCalled' = cCalled /\ cBuffers' = cBuffers /\ cExcuses' = cExcuses
  BY DEF Claude!MessageStop
<1>2. cClient \in Claude!Reader /\ cBuffers \in [OutputOfClaude -> Nat]
  BY DEF ClaudeInv, Claude!TypeOK
<1>3. Claude!TypeOK' /\ cClient'.stage = "completed"
  BY <1>1, <1>2, ClaudeCompleted DEF ClaudeInv, Claude!TypeOK
<1>4. ClaudeBlocks'
  BY <1>1 DEF ClaudeInv, ClaudeBlocks
<1>5. ASSUME cExcuses = {} PROVE ClaudeSeen'
  <2>1. ClaudeSeen /\ ClaudeGot(cClient, ClaudeKnown, cBuffers, ClaudeKnown \ ClaudeAtHand)
    BY <1>1, <1>5 DEF ClaudeInv, ClaudeSeen
  <2>2. ClaudeKnown \ ClaudeAtHand = ClaudeKnown
    BY <1>1 DEF ClaudeAtHand
  <2>3. (cThinking \/ (cReasoning # 0 /\ cBuffers[cReasoning] > 0)) <=> cReasoning # 0
    BY <1>1, <2>1 DEF ClaudeSeen, ClaudeInv, ClaudeBlocks
  <2>4. Claude!Collected = Claude!Contents(ClaudeKnown, cBuffers)
    BY <2>3, ClaudeItems DEF Claude!Collected, ClaudeKnown
  <2>5. ClaudeKnown \subseteq ClaudeKnown /\ ClaudeGot(cClient, ClaudeKnown, cBuffers, ClaudeKnown)
    BY <2>1, <2>2
  <2>6. ~Claude!Completed(cClient, Claude!Contents(ClaudeKnown, cBuffers)).broken
    BY <1>2, <2>5, ClaudeGotCompleted
  <2>. QED
    BY <1>1, <1>3, <2>1, <2>4, <2>6 DEF ClaudeSeen
<1>. QED
  BY <1>1, <1>3, <1>4, <1>5 DEF ClaudeInv

LEMMA ClaudeNext == ASSUME ClaudeInv, Claude!Next PROVE ClaudeInv'
  BY ClaudeMessageStart, ClaudeBlockStart, ClaudeBlockDelta, ClaudeBlockStop, ClaudeMessageStop
     DEF Claude!Next

LEMMA ClaudeInit == ASSUME Claude!Init PROVE ClaudeInv
<1>1. Claude!NewReader \in Claude!Reader
  BY DEF Claude!NewReader, Claude!Reader, Claude!Output, Claude!Nothing
<1>2. cBuffers \in [OutputOfClaude -> Nat]
  BY DEF Claude!Init
<1>3. Claude!TypeOK
  BY <1>1, <1>2, ClaudeItems DEF Claude!Init, Claude!TypeOK
<1>4. \A x \in OutputOfClaude : cBuffers[x] = 0
  BY DEF Claude!Init
<1>5. ClaudeBlocks
  BY <1>4, ClaudeItems DEF Claude!Init, ClaudeBlocks
<1>6. ClaudeSeen
  BY DEF Claude!Init, ClaudeSeen
<1>. QED
  BY <1>3, <1>5, <1>6 DEF ClaudeInv

LEMMA ClaudeWellFormed == ASSUME ClaudeInv PROVE Claude!TypeOK /\ Claude!AnswerWellFormed
<1>1. ASSUME ClaudeSeen PROVE ~cClient.broken
  BY <1>1 DEF ClaudeSeen, ClaudeInv, Claude!TypeOK, ClaudeGot, Claude!NewReader
<1>. QED
  BY <1>1 DEF ClaudeInv, ClaudeSeen, Claude!AnswerWellFormed

-----------------------------------------------------------------------------
(* OpenAIToResponses: chat completions for a client of the Responses API. *)

\* A client of OpenAI's translator that can place all so far: what is streamed of the items, and
\* the items at their end.
OpenAIGot(c, items, pieces, ended) ==
  /\ c.stage = "created" /\ ~c.broken
  /\ c.output = OpenAI!Contents(items, pieces) /\ c.finished = ended

\* What the client has seen after an event, field by field.
LEMMA OpenAICreated ==
  ASSUME NEW c \in OpenAI!Reader
  PROVE  /\ OpenAI!Created(c) \in OpenAI!Reader
         /\ OpenAI!Created(c).stage = "created"
         /\ OpenAI!Created(c).output = c.output
         /\ OpenAI!Created(c).finished = c.finished
         /\ OpenAI!Created(c).broken <=> c.broken \/ c.stage # "none"
  BY DEF OpenAI!Created, OpenAI!Reader

LEMMA OpenAIAdded ==
  ASSUME NEW c \in OpenAI!Reader, NEW x \in OutputOfOpenAI
  PROVE  /\ OpenAI!ItemAdded(c, x) \in OpenAI!Reader
         /\ OpenAI!ItemAdded(c, x).stage = c.stage
         /\ OpenAI!ItemAdded(c, x).output = [c.output EXCEPT ![x] = 1]
         /\ OpenAI!ItemAdded(c, x).finished = c.finished
         /\ OpenAI!ItemAdded(c, x).broken <=> c.broken \/ c.stage # "created" \/ c.output[x] > 0
<1>1. [c.output EXCEPT ![x] = 1] \in OpenAI!Output
  BY DEF OpenAI!Reader, OpenAI!Output
<1>2. PICK o \in OpenAI!Output : o = [c.output EXCEPT ![x] = 1]
  BY <1>1
<1>3. PICK e \in BOOLEAN : e <=> c.broken \/ c.stage # "created" \/ c.output[x] > 0
  OBVIOUS
<1>4. OpenAI!ItemAdded(c, x) = [c EXCEPT !.output = o, !.broken = e]
  BY <1>2, <1>3, Zenon DEF OpenAI!ItemAdded
<1>. QED
  BY <1>2, <1>3, <1>4 DEF OpenAI!Reader

LEMMA OpenAIDelta ==
  ASSUME NEW c \in OpenAI!Reader, NEW x \in OutputOfOpenAI
  PROVE  /\ OpenAI!Delta(c, x) \in OpenAI!Reader
         /\ OpenAI!Delta(c, x).stage = c.stage
         /\ OpenAI!Delta(c, x).output = [c.output EXCEPT ![x] = @ + 1]
         /\ OpenAI!Delta(c, x).finished = c.finished
         /\ OpenAI!Delta(c, x).broken <=> c.broken \/ ~OpenAI!Open(c, x)
<1>1. [c.output EXCEPT ![x] = @ + 1] \in OpenAI!Output
  BY DEF OpenAI!Reader, OpenAI!Output
<1>2. PICK o \in OpenAI!Output : o = [c.output EXCEPT ![x] = @ + 1]
  BY <1>1
<1>3. PICK e \in BOOLEAN : e <=> c.broken \/ ~OpenAI!Open(c, x)
  OBVIOUS
<1>4. OpenAI!Delta(c, x) = [c EXCEPT !.output = o, !.broken = e]
  BY <1>2, <1>3, Zenon DEF OpenAI!Delta
<1>. QED
  BY <1>2, <1>3, <1>4 DEF OpenAI!Reader

LEMMA OpenAIItemDone ==
  ASSUME NEW c \in OpenAI!Reader, NEW x \in OutputOfOpenAI
  PROVE  /\ OpenAI!ItemDone(c, x) \in OpenAI!Reader
         /\ OpenAI!ItemDone(c, x).stage = c.stage
         /\ OpenAI!ItemDone(c, x).output = c.output
         /\ OpenAI!ItemDone(c, x).finished = c.finished \cup {x}
         /\ OpenAI!ItemDone(c, x).broken <=> c.broken \/ ~OpenAI!Open(c, x)
<1>1. PICK e \in BOOLEAN : e <=> c.broken \/ ~OpenAI!Open(c, x)
  OBVIOUS
<1>2. PICK f \in SUBSET OutputOfOpenAI : f = c.finished \cup {x}
  BY DEF OpenAI!Reader
<1>3. OpenAI!ItemDone(c, x) = [c EXCEPT !.finished = f, !.broken = e]
  BY <1>1, <1>2, Zenon DEF OpenAI!ItemDone
<1>. QED
  BY <1>1, <1>2, <1>3 DEF OpenAI!Reader

LEMMA OpenAICompleted ==
  ASSUME NEW c \in OpenAI!Reader, NEW output
  PROVE  /\ OpenAI!Completed(c, output) \in OpenAI!Reader
         /\ OpenAI!Completed(c, output).stage = "completed"
         /\ OpenAI!Completed(c, output).output = c.output
         /\ OpenAI!Completed(c, output).broken
              <=> \/ c.broken \/ c.stage # "created" \/ output # c.output
                  \/ \E x \in OutputOfOpenAI : OpenAI!Open(c, x)
<1>1. PICK e \in BOOLEAN : e <=> \/ c.broken \/ c.stage # "created" \/ output # c.output
                                 \/ \E x \in OutputOfOpenAI : OpenAI!Open(c, x)
  OBVIOUS
<1>2. OpenAI!Completed(c, output) = [c EXCEPT !.stage = "completed", !.broken = e]
  BY <1>1, Zenon DEF OpenAI!Completed
<1>. QED
  BY <1>1, <1>2 DEF OpenAI!Reader

LEMMA OpenAIGotAdded ==
  ASSUME NEW c \in OpenAI!Reader, NEW items, NEW pieces \in [OutputOfOpenAI -> Nat], NEW ended,
         NEW x \in OutputOfOpenAI \ items, OpenAIGot(c, items, pieces, ended), pieces[x] = 0
  PROVE  OpenAIGot(OpenAI!ItemAdded(c, x), items \cup {x}, pieces, ended)
<1>1. c.output \in [OutputOfOpenAI -> Nat] /\ c.output[x] = 0
  BY DEF OpenAIGot, OpenAI!Contents
<1>2. [c.output EXCEPT ![x] = 1] = OpenAI!Contents(items \cup {x}, pieces)
  BY <1>1 DEF OpenAIGot, OpenAI!Contents
<1>3. PICK d : d = OpenAI!ItemAdded(c, x)
  OBVIOUS
<1>4. /\ d.stage = c.stage /\ d.output = [c.output EXCEPT ![x] = 1] /\ d.finished = c.finished
      /\ d.broken <=> c.broken \/ c.stage # "created" \/ c.output[x] > 0
  BY <1>3, OpenAIAdded
<1>5. ~(c.output[x] > 0)
  BY <1>1
<1>6. OpenAIGot(d, items \cup {x}, pieces, ended)
  BY <1>2, <1>4, <1>5 DEF OpenAIGot
<1>. QED
  BY <1>3, <1>6

LEMMA OpenAIGotDelta ==
  ASSUME NEW c \in OpenAI!Reader, NEW items, NEW pieces \in [OutputOfOpenAI -> Nat], NEW ended,
         NEW x \in OutputOfOpenAI, x \in items, x \notin ended, OpenAIGot(c, items, pieces, ended)
  PROVE  OpenAIGot(OpenAI!Delta(c, x), items, [pieces EXCEPT ![x] = @ + 1], ended)
<1>1. c.output \in [OutputOfOpenAI -> Nat] /\ c.output[x] = 1 + pieces[x]
  BY DEF OpenAIGot, OpenAI!Contents
<1>2. [c.output EXCEPT ![x] = @ + 1] = OpenAI!Contents(items, [pieces EXCEPT ![x] = @ + 1])
  BY <1>1 DEF OpenAIGot, OpenAI!Contents
<1>3. OpenAI!Open(c, x)
  BY <1>1 DEF OpenAI!Open, OpenAIGot
<1>. QED
  BY <1>2, <1>3, OpenAIDelta DEF OpenAIGot

LEMMA OpenAIGotItemDone ==
  ASSUME NEW c \in OpenAI!Reader, NEW items, NEW pieces \in [OutputOfOpenAI -> Nat], NEW ended,
         NEW x \in OutputOfOpenAI, x \in items, x \notin ended, OpenAIGot(c, items, pieces, ended)
  PROVE  OpenAIGot(OpenAI!ItemDone(c, x), items, pieces, ended \cup {x})
<1>1. c.output \in [OutputOfOpenAI -> Nat] /\ c.output[x] = 1 + pieces[x]
  BY DEF OpenAIGot, OpenAI!Contents
<1>2. OpenAI!Open(c, x)
  BY <1>1 DEF OpenAI!Open, OpenAIGot
<1>. QED
  BY <1>2, OpenAIItemDone DEF OpenAIGot

LEMMA OpenAIGotCompleted ==
  ASSUME NEW c \in OpenAI!Reader, NEW items, NEW pieces \in [OutputOfOpenAI -> Nat], NEW ended,
         items \subseteq ended, OpenAIGot(c, items, pieces, ended)
  PROVE  ~OpenAI!Completed(c, OpenAI!Contents(items, pieces)).broken
<1>1. ASSUME NEW x \in OutputOfOpenAI PROVE ~OpenAI!Open(c, x)
  <2>1. x \notin items => c.output[x] = 0
    BY DEF OpenAIGot, OpenAI!Contents
  <2>. QED
    BY <2>1 DEF OpenAIGot, OpenAI!Open
<1>. QED
  BY <1>1, OpenAICompleted DEF OpenAIGot

\* A piece goes into a buffer.
LEMMA OpenAIBuffered ==
  ASSUME NEW items, NEW pieces \in [OutputOfOpenAI -> Nat], NEW x \in OutputOfOpenAI,
         \A y \in OutputOfOpenAI \ items : pieces[y] = 0
  PROVE  /\ [pieces EXCEPT ![x] = @ + 1] \in [OutputOfOpenAI -> Nat]
         /\ \A y \in OutputOfOpenAI \ (items \cup {x}) : [pieces EXCEPT ![x] = @ + 1][y] = 0
<1>1. [pieces EXCEPT ![x] = @ + 1] \in [OutputOfOpenAI -> Nat]
  OBVIOUS
<1>2. ASSUME NEW y \in OutputOfOpenAI \ (items \cup {x}) PROVE [pieces EXCEPT ![x] = @ + 1][y] = 0
  <2>1. y \in OutputOfOpenAI /\ y # x /\ pieces[y] = 0
    OBVIOUS
  <2>. QED
    BY <2>1
<1>. QED
  BY <1>1, <1>2

\* The items of an answer that the translator of chat completions knows, the pieces of each,
\* and those at their end.
OpenAIKnown ==
  (IF oReasoning THEN {ra} ELSE {}) \cup (IF oMessage # "none" THEN {me} ELSE {})
    \cup (IF oCallId # nc THEN {oCallId} ELSE {})

OpenAIPieces ==
  [x \in OutputOfOpenAI |-> IF x = ra THEN oThoughts ELSE IF x = me THEN oTexts
                            ELSE IF x # nc /\ x = oCallId THEN oArguments ELSE 0]

OpenAIEnded == IF oMessage = "done" THEN {me} ELSE {}

\* What the translator keeps of an answer that it has a place for.
OpenAIKept ==
  /\ oReasoning <=> oThoughts > 0
  /\ oMessage = "none" => oTexts = 0
  /\ oAnyCall <=> oCallId # nc
  /\ oCallId = nc => oArguments = 0
  /\ oAsked = IF oCallId = nc THEN {} ELSE {oCallId}

OpenAISeen ==
  /\ OpenAIKept
  /\ ~oClient.broken
  /\ oStarted \/ oClient = OpenAI!NewReader
  /\ oStarted /\ oClient.stage # "completed" =>
       OpenAIGot(oClient, OpenAIKnown, OpenAIPieces, OpenAIEnded) /\ ~oCallDone
  /\ \A id \in oAsked : oClient.output[id] > 0

OpenAIInv ==
  /\ OpenAI!TypeOK
  /\ ~oStarted => ~oReasoning /\ oMessage = "none" /\ oCallId = nc /\ ~oCallDone
  /\ oExcuses = {} => OpenAISeen

LEMMA OpenAIItems ==
  /\ ra \in OutputOfOpenAI /\ me \in OutputOfOpenAI /\ nc \in OutputOfOpenAI
  /\ TwoCalls \subseteq OutputOfOpenAI
  /\ ra # me /\ ra \notin TwoCalls /\ me \notin TwoCalls /\ nc \notin TwoCalls /\ nc # ra /\ nc # me
  BY AnswersParameters DEF OpenAI!ChatParameters, OutputOfOpenAI, TwoCalls

LEMMA OpenAITyped ==
  ASSUME OpenAI!TypeOK
  PROVE  /\ oClient \in OpenAI!Reader /\ oStarted \in BOOLEAN /\ oReasoning \in BOOLEAN
         /\ oCallDone \in BOOLEAN /\ oAnyCall \in BOOLEAN
         /\ oMessage \in {"none", "open", "done"} /\ oCallId \in TwoCalls \cup {nc}
         /\ oTexts \in Nat /\ oThoughts \in Nat /\ oArguments \in Nat /\ oAsked \in SUBSET TwoCalls
         /\ oExcuses \in SUBSET {"late", "resumed", "parallel", "nameless"}
         /\ OpenAIPieces \in [OutputOfOpenAI -> Nat]
         /\ OpenAIPieces[ra] = oThoughts /\ OpenAIPieces[me] = oTexts
         /\ \A x \in TwoCalls : OpenAIPieces[x] = IF x = oCallId THEN oArguments ELSE 0
  BY OpenAIItems DEF OpenAI!TypeOK, OpenAIPieces

\* The first chunk.
LEMMA OpenAIStarted ==
  ASSUME OpenAIInv
  PROVE  /\ OpenAI!Started \in OpenAI!Reader
         /\ oExcuses = {} /\ oClient.stage # "completed" =>
              OpenAIGot(OpenAI!Started, OpenAIKnown, OpenAIPieces, OpenAIEnded) /\ ~oCallDone
<1>1. OpenAI!Started \in OpenAI!Reader
  BY OpenAICreated DEF OpenAI!Started, OpenAIInv, OpenAI!TypeOK
<1>2. ASSUME ~oStarted, oExcuses = {}
      PROVE  OpenAIGot(OpenAI!Created(oClient), OpenAIKnown, OpenAIPieces, {})
  <2>1. oClient = OpenAI!NewReader /\ oClient \in OpenAI!Reader /\ OpenAIKnown = {}
    BY <1>2 DEF OpenAIInv, OpenAISeen, OpenAIKnown, OpenAI!TypeOK
  <2>2. oClient.stage = "none" /\ oClient.output = OpenAI!Nothing /\ oClient.finished = {}
        /\ ~oClient.broken
    BY <2>1 DEF OpenAI!NewReader
  <2>3. OpenAI!Nothing = OpenAI!Contents({}, OpenAIPieces)
    BY DEF OpenAI!Nothing, OpenAI!Contents
  <2>. QED
    BY <2>1, <2>2, <2>3, OpenAICreated DEF OpenAIGot
<1>3. ~oStarted => OpenAIEnded = {} /\ ~oCallDone
  BY DEF OpenAIInv, OpenAIEnded
<1>4. CASE oStarted
  BY <1>1, <1>4 DEF OpenAIInv, OpenAISeen, OpenAI!Started
<1>5. CASE ~oStarted
  BY <1>1, <1>2, <1>3, <1>5 DEF OpenAI!Started
<1>. QED
  BY <1>4, <1>5

\* The end of the message, which comes ahead of a call and of the finish reason.
LEMMA OpenAIMessaged ==
  ASSUME OpenAIInv
  PROVE  /\ OpenAI!MessageDone(OpenAI!Started) \in OpenAI!Reader
         /\ oExcuses = {} /\ oClient.stage # "completed" =>
              OpenAIGot(OpenAI!MessageDone(OpenAI!Started), OpenAIKnown, OpenAIPieces,
                        IF oMessage # "none" THEN {me} ELSE {})
<1>. PICK s \in OpenAI!Reader : s = OpenAI!Started
  BY OpenAIStarted
<1>1. OpenAI!MessageDone(s) \in OpenAI!Reader
  BY OpenAIItems, OpenAIItemDone DEF OpenAI!MessageDone
<1>2. OpenAIPieces \in [OutputOfOpenAI -> Nat] /\ oMessage \in {"none", "open", "done"}
  BY OpenAITyped DEF OpenAIInv
<1>3. ASSUME oExcuses = {}, oClient.stage # "completed", oMessage = "open"
      PROVE  OpenAIGot(OpenAI!ItemDone(s, me), OpenAIKnown, OpenAIPieces, {me})
  <2>1. OpenAIGot(s, OpenAIKnown, OpenAIPieces, {})
    BY <1>3, OpenAIStarted DEF OpenAIEnded
  <2>2. me \in OpenAIKnown
    BY <1>3 DEF OpenAIKnown
  <2>3. OpenAIGot(OpenAI!ItemDone(s, me), OpenAIKnown, OpenAIPieces, {} \cup {me})
    BY <1>2, <2>1, <2>2, OpenAIItems, OpenAIGotItemDone
  <2>. QED
    BY <2>3
<1>4. ASSUME oExcuses = {}, oClient.stage # "completed", oMessage # "open"
      PROVE  OpenAIGot(s, OpenAIKnown, OpenAIPieces, IF oMessage # "none" THEN {me} ELSE {})
  <2>1. OpenAIEnded = IF oMessage # "none" THEN {me} ELSE {}
    BY <1>2, <1>4 DEF OpenAIEnded
  <2>. QED
    BY <1>4, <2>1, OpenAIStarted
<1>. QED
  BY <1>1, <1>2, <1>3, <1>4 DEF OpenAI!MessageDone

\* What is to be shown of a part, or of a finish reason.
LEMMA OpenAIAfter ==
  ASSUME OpenAIInv, OpenAI!TypeOK', oStarted' = TRUE,
         NEW reasons,
         oExcuses' = oExcuses \cup reasons
                        \cup IF oClient.stage = "completed" THEN {"late"} ELSE {},
         oExcuses = {} /\ reasons = {} /\ oClient.stage # "completed" =>
           /\ OpenAIKept'
           /\ \/ oClient'.stage = "completed" /\ ~oClient'.broken
                 /\ \A id \in oAsked' : oClient'.output[id] > 0
              \/ OpenAIGot(oClient', OpenAIKnown', OpenAIPieces', OpenAIEnded') /\ ~oCallDone'
  PROVE  OpenAIInv'
<1>1. oExcuses' = {} => oExcuses = {} /\ reasons = {} /\ oClient.stage # "completed"
  OBVIOUS
<1>2. ASSUME oExcuses' = {} PROVE OpenAISeen'
  <2>1. /\ OpenAIKept'
        /\ \/ oClient'.stage = "completed" /\ ~oClient'.broken
              /\ \A id \in oAsked' : oClient'.output[id] > 0
           \/ OpenAIGot(oClient', OpenAIKnown', OpenAIPieces', OpenAIEnded') /\ ~oCallDone'
    BY <1>1, <1>2
  <2>2. CASE oClient'.stage = "completed" /\ ~oClient'.broken
             /\ \A id \in oAsked' : oClient'.output[id] > 0
    BY <2>1, <2>2 DEF OpenAISeen
  <2>3. CASE OpenAIGot(oClient', OpenAIKnown', OpenAIPieces', OpenAIEnded') /\ ~oCallDone'
    <3>1. ASSUME NEW id \in oAsked' PROVE oClient'.output[id] > 0
      <4>1. id \in OpenAIKnown' /\ id \in OutputOfOpenAI
        BY <2>1, <3>1, OpenAIItems DEF OpenAIKept, OpenAIKnown, OpenAI!TypeOK
      <4>2. OpenAIPieces' \in [OutputOfOpenAI -> Nat]
        BY DEF OpenAIPieces, OpenAI!TypeOK
      <4>. QED
        BY <2>3, <4>1, <4>2 DEF OpenAIGot, OpenAI!Contents
    <3>2. ~oClient'.broken
      BY <2>3 DEF OpenAIGot
    <3>. QED
      BY <2>1, <2>3, <3>1, <3>2 DEF OpenAISeen
  <2>. QED
    BY <2>1, <2>2, <2>3
<1>. QED
  BY <1>2 DEF OpenAIInv

LEMMA OpenAIContent == ASSUME OpenAIInv, OpenAI!Content PROVE OpenAIInv'
<1>. PICK s \in OpenAI!Reader : s = OpenAI!Started
  BY OpenAIStarted
<1>. PICK c : c = OpenAI!Announced(s, oMessage # "none", me)
  OBVIOUS
<1>. PICK reasons : reasons = IF oMessage = "done" THEN {"resumed"} ELSE {}
  OBVIOUS
<1>1. /\ oStarted' = TRUE
      /\ oExcuses' = oExcuses \cup reasons
                       \cup IF oClient.stage = "completed" THEN {"late"} ELSE {}
      /\ oClient' = OpenAI!Delta(c, me) /\ oTexts' = oTexts + 1
      /\ oMessage' = IF oMessage = "none" THEN "open" ELSE oMessage
      /\ oReasoning' = oReasoning /\ oThoughts' = oThoughts /\ oCallId' = oCallId
      /\ oCallDone' = oCallDone /\ oAnyCall' = oAnyCall /\ oArguments' = oArguments
      /\ oAsked' = oAsked
  BY DEF OpenAI!Content, OpenAI!Translated, OpenAI!call
<1>2. OpenAI!TypeOK
  BY DEF OpenAIInv
<1>3. c = IF oMessage # "none" THEN s ELSE OpenAI!ItemAdded(s, me)
  BY DEF OpenAI!Announced
<1>4. c \in OpenAI!Reader
  BY <1>3, OpenAIItems, OpenAIAdded
<1>5. oClient' \in OpenAI!Reader
  BY <1>1, <1>4, OpenAIItems, OpenAIDelta
<1>6. OpenAI!TypeOK'
  <2>1. oTexts' \in Nat
    BY <1>1, <1>2 DEF OpenAI!TypeOK
  <2>. QED
    BY <1>1, <1>2, <1>5, <2>1 DEF OpenAI!TypeOK
<1>7. ASSUME oExcuses = {}, reasons = {}, oClient.stage # "completed"
      PROVE  /\ OpenAIKept'
             /\ OpenAIGot(oClient', OpenAIKnown', OpenAIPieces', OpenAIEnded') /\ ~oCallDone'
  <2>1. OpenAIKept /\ oMessage \in {"none", "open"} /\ OpenAIEnded = {}
    BY <1>2, <1>7 DEF OpenAIInv, OpenAISeen, OpenAIEnded, OpenAI!TypeOK
  <2>2. OpenAIKept'
    BY <1>1, <2>1 DEF OpenAIKept
  <2>3. OpenAIGot(s, OpenAIKnown, OpenAIPieces, {}) /\ ~oCallDone
    BY <1>7, <2>1, OpenAIStarted
  <2>4. OpenAIKnown' = OpenAIKnown \cup {me} /\ OpenAIEnded' = {}
    BY <1>1, <2>1 DEF OpenAIKnown, OpenAIEnded
  <2>5. OpenAIGot(c, OpenAIKnown', OpenAIPieces, {})
    <3>1. CASE oMessage = "open"
      <4>1. OpenAIKnown \cup {me} = OpenAIKnown
        BY <3>1 DEF OpenAIKnown
      <4>. QED
        BY <1>3, <2>3, <2>4, <3>1, <4>1
    <3>2. CASE oMessage = "none"
      <4>1. me \in OutputOfOpenAI \ OpenAIKnown /\ OpenAIPieces[me] = 0
        BY <1>2, <2>1, <3>2, OpenAIItems, OpenAITyped DEF OpenAIKnown, OpenAIKept
      <4>2. OpenAIPieces \in [OutputOfOpenAI -> Nat]
        BY <1>2, OpenAITyped
      <4>3. OpenAIGot(OpenAI!ItemAdded(s, me), OpenAIKnown \cup {me}, OpenAIPieces, {})
        BY <2>3, <4>1, <4>2, OpenAIGotAdded
      <4>. QED
        BY <1>3, <2>4, <3>2, <4>3
    <3>. QED
      BY <2>1, <3>1, <3>2
  <2>6. OpenAIPieces' = [OpenAIPieces EXCEPT ![me] = @ + 1]
    BY <1>1, <1>2, OpenAIItems DEF OpenAIPieces
  <2>7. OpenAIPieces \in [OutputOfOpenAI -> Nat] /\ me \in OpenAIKnown' /\ me \notin {}
    BY <1>2, <2>4, OpenAITyped
  <2>8. OpenAIGot(OpenAI!Delta(c, me), OpenAIKnown', [OpenAIPieces EXCEPT ![me] = @ + 1], {})
    BY <1>4, <2>5, <2>7, OpenAIItems, OpenAIGotDelta
  <2>. QED
    BY <1>1, <2>2, <2>3, <2>4, <2>6, <2>8
<1>. QED
  BY <1>1, <1>6, <1>7, OpenAIAfter

LEMMA OpenAIThought == ASSUME OpenAIInv, OpenAI!Thought PROVE OpenAIInv'
<1>. PICK s \in OpenAI!Reader : s = OpenAI!Started
  BY OpenAIStarted
<1>. PICK c : c = OpenAI!Announced(s, oReasoning, ra)
  OBVIOUS
<1>1. /\ oStarted' = TRUE
      /\ oExcuses' = oExcuses \cup {}
                       \cup IF oClient.stage = "completed" THEN {"late"} ELSE {}
      /\ oClient' = OpenAI!Delta(c, ra) /\ oThoughts' = oThoughts + 1 /\ oReasoning' = TRUE
      /\ oMessage' = oMessage /\ oTexts' = oTexts /\ oCallId' = oCallId
      /\ oCallDone' = oCallDone /\ oAnyCall' = oAnyCall /\ oArguments' = oArguments
      /\ oAsked' = oAsked
  BY DEF OpenAI!Thought, OpenAI!Translated, OpenAI!call
<1>2. OpenAI!TypeOK
  BY DEF OpenAIInv
<1>3. c = IF oReasoning THEN s ELSE OpenAI!ItemAdded(s, ra)
  BY DEF OpenAI!Announced
<1>4. c \in OpenAI!Reader
  BY <1>3, OpenAIItems, OpenAIAdded
<1>5. oClient' \in OpenAI!Reader
  BY <1>1, <1>4, OpenAIItems, OpenAIDelta
<1>6. OpenAI!TypeOK'
  <2>1. oThoughts' \in Nat
    BY <1>1, <1>2 DEF OpenAI!TypeOK
  <2>. QED
    BY <1>1, <1>2, <1>5, <2>1 DEF OpenAI!TypeOK
<1>7. ASSUME oExcuses = {}, oClient.stage # "completed"
      PROVE  /\ OpenAIKept'
             /\ OpenAIGot(oClient', OpenAIKnown', OpenAIPieces', OpenAIEnded') /\ ~oCallDone'
  <2>1. OpenAIKept /\ oThoughts \in Nat /\ oReasoning \in BOOLEAN
    BY <1>2, <1>7, OpenAITyped DEF OpenAIInv, OpenAISeen
  <2>2. OpenAIKept'
    <3>1. oThoughts' > 0
      BY <1>1, <2>1
    <3>. QED
      BY <1>1, <2>1, <3>1 DEF OpenAIKept
  <2>3. OpenAIGot(s, OpenAIKnown, OpenAIPieces, OpenAIEnded) /\ ~oCallDone
    BY <1>7, OpenAIStarted
  <2>4. OpenAIKnown' = OpenAIKnown \cup {ra} /\ OpenAIEnded' = OpenAIEnded /\ ra \notin OpenAIEnded
    BY <1>1, OpenAIItems DEF OpenAIKnown, OpenAIEnded
  <2>5. OpenAIGot(c, OpenAIKnown', OpenAIPieces, OpenAIEnded)
    <3>1. CASE oReasoning
      <4>1. OpenAIKnown \cup {ra} = OpenAIKnown
        BY <3>1 DEF OpenAIKnown
      <4>. QED
        BY <1>3, <2>3, <2>4, <3>1, <4>1
    <3>2. CASE ~oReasoning
      <4>1. ra \in OutputOfOpenAI \ OpenAIKnown
        BY <1>2, <2>1, <3>2, OpenAIItems, OpenAITyped DEF OpenAIKnown
      <4>2. OpenAIPieces \in [OutputOfOpenAI -> Nat] /\ OpenAIPieces[ra] = 0
        BY <1>2, <2>1, <3>2, OpenAITyped DEF OpenAIKept
      <4>3. OpenAIGot(OpenAI!ItemAdded(s, ra), OpenAIKnown \cup {ra}, OpenAIPieces, OpenAIEnded)
        BY <2>3, <4>1, <4>2, OpenAIGotAdded
      <4>. QED
        BY <1>3, <2>4, <3>2, <4>3
    <3>. QED
      BY <3>1, <3>2
  <2>6. OpenAIPieces' = [OpenAIPieces EXCEPT ![ra] = @ + 1]
    BY <1>1, <1>2, OpenAIItems DEF OpenAIPieces
  <2>7. OpenAIPieces \in [OutputOfOpenAI -> Nat] /\ ra \in OpenAIKnown'
    BY <1>2, <2>4, OpenAITyped
  <2>8. OpenAIGot(OpenAI!Delta(c, ra), OpenAIKnown', [OpenAIPieces EXCEPT ![ra] = @ + 1],
                  OpenAIEnded)
    BY <1>4, <2>4, <2>5, <2>7, OpenAIItems, OpenAIGotDelta
  <2>. QED
    BY <1>1, <2>2, <2>3, <2>4, <2>6, <2>8
<1>. QED
  BY <1>1, <1>6, <1>7, OpenAIAfter

LEMMA OpenAIToolCall ==
  ASSUME OpenAIInv, NEW id \in TwoCalls \cup {nc}, NEW bare \in BOOLEAN, OpenAI!ToolCall(id, bare)
  PROVE  OpenAIInv'
<1>. PICK s \in OpenAI!Reader : s = OpenAI!MessageDone(OpenAI!Started)
  BY OpenAIMessaged
<1>. PICK c : c = IF oCallId' = oCallId THEN s ELSE OpenAI!ItemAdded(s, oCallId')
  OBVIOUS
<1>. PICK reasons : reasons = (IF id # nc /\ oAsked \ {id} # {} THEN {"parallel"} ELSE {})
                               \cup IF id = nc /\ oCallId = nc THEN {"nameless"} ELSE {}
  OBVIOUS
<1>1. /\ oStarted' = TRUE
      /\ oExcuses' = oExcuses \cup reasons
                       \cup IF oClient.stage = "completed" THEN {"late"} ELSE {}
      /\ oCallId' = (IF oCallId = nc THEN id ELSE oCallId) /\ oAnyCall' = TRUE
      /\ oMessage' = (IF oMessage = "open" THEN "done" ELSE oMessage)
      /\ oAsked' = oAsked \cup ({id} \ {nc})
      /\ oReasoning' = oReasoning /\ oThoughts' = oThoughts /\ oTexts' = oTexts
      /\ oCallDone' = oCallDone
  BY DEF OpenAI!ToolCall, OpenAI!Translated, OpenAI!CloseMessage
<1>2. IF bare THEN oClient' = c /\ oArguments' = oArguments
      ELSE /\ oArguments' = oArguments + 1
           /\ oClient' = IF oCallId' = nc THEN c ELSE OpenAI!Delta(c, oCallId')
  BY DEF OpenAI!ToolCall, OpenAI!Announced
<1>3. OpenAI!TypeOK
  BY DEF OpenAIInv
<1>4. /\ oCallId \in TwoCalls \cup {nc} /\ oCallId' \in TwoCalls \cup {nc}
      /\ oCallId' \in OutputOfOpenAI
  BY <1>1, <1>3, OpenAIItems DEF OpenAI!TypeOK
<1>5. c \in OpenAI!Reader
  BY <1>4, OpenAIAdded
<1>6. oClient' \in OpenAI!Reader
  BY <1>2, <1>4, <1>5, OpenAIDelta
<1>7. OpenAI!TypeOK'
  <2>1. oArguments' \in Nat
    BY <1>2, <1>3 DEF OpenAI!TypeOK
  <2>2. oAsked' \subseteq TwoCalls
    BY <1>1, <1>3 DEF OpenAI!TypeOK
  <2>3. oExcuses' \subseteq {"late", "resumed", "parallel", "nameless"}
    BY <1>1, <1>3 DEF OpenAI!TypeOK
  <2>. QED
    BY <1>1, <1>3, <1>4, <1>6, <2>1, <2>2, <2>3 DEF OpenAI!TypeOK
<1>8. ASSUME oExcuses = {}, reasons = {}, oClient.stage # "completed"
      PROVE  /\ OpenAIKept'
             /\ OpenAIGot(oClient', OpenAIKnown', OpenAIPieces', OpenAIEnded') /\ ~oCallDone'
  <2>. PICK ended : ended = IF oMessage # "none" THEN {me} ELSE {}
    OBVIOUS
  <2>. PICK x \in TwoCalls : x = oCallId'
    BY <1>1, <1>4, <1>8
  <2>1. OpenAIKept /\ (id # nc => oAsked \ {id} = {}) /\ (id # nc \/ oCallId # nc)
    BY <1>8 DEF OpenAIInv, OpenAISeen
  <2>2. OpenAIKept'
    <3>1. oAsked' = {oCallId'}
      <4>1. CASE oCallId = nc
        BY <1>1, <2>1, <4>1 DEF OpenAIKept
      <4>2. CASE oCallId # nc
        BY <1>1, <2>1, <4>2 DEF OpenAIKept
      <4>. QED
        BY <4>1, <4>2
    <3>2. oCallId' # nc
      BY OpenAIItems
    <3>3. oMessage' = "none" => oTexts' = 0
      BY <1>1, <2>1 DEF OpenAIKept
    <3>. QED
      BY <1>1, <2>1, <3>1, <3>2, <3>3 DEF OpenAIKept
  <2>3. OpenAIGot(s, OpenAIKnown, OpenAIPieces, ended) /\ ~oCallDone
    BY <1>8, OpenAIMessaged, OpenAIStarted
  <2>4. OpenAIKnown' = OpenAIKnown \cup {x} /\ OpenAIEnded' = ended /\ x \notin ended
    <3>1. oMessage \in {"none", "open", "done"}
      BY <1>3 DEF OpenAI!TypeOK
    <3>2. oMessage' = "done" <=> oMessage # "none"
      BY <1>1, <3>1
    <3>3. oMessage' # "none" <=> oMessage # "none"
      BY <1>1, <3>1
    <3>4. OpenAIKnown' = OpenAIKnown \cup {x}
      BY <1>1, <3>3, OpenAIItems DEF OpenAIKnown
    <3>. QED
      BY <3>2, <3>4, OpenAIItems DEF OpenAIEnded
  <2>5. OpenAIPieces \in [OutputOfOpenAI -> Nat] /\ (oCallId = nc => OpenAIPieces[x] = 0)
        /\ oArguments \in Nat /\ oTexts \in Nat /\ oThoughts \in Nat
    <3>1. oCallId = nc => x # oCallId
      BY OpenAIItems
    <3>. QED
      BY <1>3, <3>1, OpenAITyped
  <2>6. OpenAIGot(c, OpenAIKnown', OpenAIPieces, ended)
    <3>1. CASE oCallId = oCallId'
      <4>1. OpenAIKnown \cup {x} = OpenAIKnown
        BY <3>1, OpenAIItems DEF OpenAIKnown
      <4>. QED
        BY <2>3, <2>4, <3>1, <4>1
    <3>2. CASE oCallId # oCallId'
      <4>1. oCallId = nc
        BY <1>1, <3>2
      <4>2. x \in OutputOfOpenAI \ OpenAIKnown /\ OpenAIPieces[x] = 0
        BY <2>5, <4>1, OpenAIItems DEF OpenAIKnown
      <4>3. OpenAIGot(OpenAI!ItemAdded(s, x), OpenAIKnown \cup {x}, OpenAIPieces, ended)
        BY <2>3, <2>5, <4>2, OpenAIGotAdded
      <4>. QED
        BY <2>4, <3>2, <4>3
    <3>. QED
      BY <3>1, <3>2
  <2>7. CASE bare
    <3>1. OpenAIPieces' = OpenAIPieces
      <4>1. oCallId # oCallId' => oArguments = 0 /\ oCallId = nc
        BY <1>1, <2>1 DEF OpenAIKept
      <4>2. oArguments' = oArguments
        BY <1>2, <2>7
      <4>. QED
        BY <1>1, <4>1, <4>2 DEF OpenAIPieces
    <3>2. oClient' = c
      BY <1>2, <2>7
    <3>. QED
      BY <1>1, <2>2, <2>3, <2>4, <2>6, <3>1, <3>2
  <2>8. CASE ~bare
    <3>1. OpenAIPieces' = [OpenAIPieces EXCEPT ![x] = @ + 1]
      <4>1. oCallId # oCallId' => oArguments = 0 /\ oCallId = nc
        BY <1>1, <2>1 DEF OpenAIKept
      <4>2. oArguments' = oArguments + 1 /\ x # ra /\ x # me /\ x # nc
        BY <1>2, <2>8, OpenAIItems
      <4>3. OpenAIPieces[x] = oArguments
        BY <2>5, <4>1, <1>3, OpenAITyped
      <4>4. ASSUME NEW y \in OutputOfOpenAI
            PROVE  OpenAIPieces'[y] = IF y = x THEN oArguments + 1 ELSE OpenAIPieces[y]
        BY <1>1, <4>1, <4>2 DEF OpenAIPieces
      <4>5. OpenAIPieces' = [y \in OutputOfOpenAI |-> OpenAIPieces'[y]]
        BY DEF OpenAIPieces
      <4>. QED
        BY <2>5, <4>3, <4>4, <4>5
    <3>2. oClient' = OpenAI!Delta(c, x)
      BY <1>2, <2>8, OpenAIItems
    <3>3. x \in OpenAIKnown' /\ x \in OutputOfOpenAI
      BY <2>4, OpenAIItems
    <3>4. OpenAIGot(OpenAI!Delta(c, x), OpenAIKnown', [OpenAIPieces EXCEPT ![x] = @ + 1], ended)
      BY <1>5, <2>4, <2>5, <2>6, <3>3, OpenAIGotDelta
    <3>. QED
      BY <1>1, <2>2, <2>3, <2>4, <3>1, <3>2, <3>4
  <2>. QED
    BY <2>7, <2>8
<1>. QED
  BY <1>1, <1>7, <1>8, OpenAIAfter

LEMMA OpenAIFinish == ASSUME OpenAIInv, OpenAI!Finish PROVE OpenAIInv'
<1>. PICK c \in OpenAI!Reader : c = OpenAI!MessageDone(OpenAI!Started)
  BY OpenAIMessaged
<1>. PICK d : d = IF oReasoning THEN OpenAI!ItemDone(c, ra) ELSE c
  OBVIOUS
<1>. PICK e : e = IF oCallId # nc /\ ~oCallDone THEN OpenAI!ItemDone(d, oCallId) ELSE d
  OBVIOUS
<1>1. /\ oStarted' = TRUE
      /\ oExcuses' = oExcuses \cup {}
                       \cup IF oClient.stage = "completed" THEN {"late"} ELSE {}
      /\ oClient' = OpenAI!Completed(e, OpenAI!Collected)
      /\ oMessage' = (IF oMessage = "open" THEN "done" ELSE oMessage)
      /\ oCallDone' = (oCallDone \/ oCallId # nc)
      /\ oReasoning' = oReasoning /\ oTexts' = oTexts /\ oThoughts' = oThoughts
      /\ oCallId' = oCallId /\ oAnyCall' = oAnyCall /\ oArguments' = oArguments
      /\ oAsked' = oAsked
  BY DEF OpenAI!Finish, OpenAI!Translated, OpenAI!CloseMessage
<1>2. OpenAI!TypeOK /\ oCallId \in OutputOfOpenAI
  BY OpenAIItems DEF OpenAIInv, OpenAI!TypeOK
<1>3. d \in OpenAI!Reader
  BY OpenAIItems, OpenAIItemDone
<1>4. e \in OpenAI!Reader
  BY <1>2, <1>3, OpenAIItemDone
<1>5. oClient' \in OpenAI!Reader /\ oClient'.stage = "completed" /\ oClient'.output = e.output
  BY <1>1, <1>4, OpenAICompleted
<1>6. OpenAI!TypeOK'
  BY <1>1, <1>2, <1>5 DEF OpenAI!TypeOK
<1>7. ASSUME oExcuses = {}, oClient.stage # "completed"
      PROVE  /\ OpenAIKept' /\ ~oClient'.broken
             /\ \A id \in oAsked' : oClient'.output[id] > 0
  <2>. PICK items : items = OpenAIKnown
    OBVIOUS
  <2>1. OpenAIKept
    BY <1>7 DEF OpenAIInv, OpenAISeen
  <2>2. OpenAIKept'
    BY <1>1, <2>1 DEF OpenAIKept
  <2>3. OpenAIGot(c, items, OpenAIPieces, IF oMessage # "none" THEN {me} ELSE {}) /\ ~oCallDone
    BY <1>7, OpenAIMessaged, OpenAIStarted
  <2>4. OpenAIPieces \in [OutputOfOpenAI -> Nat]
    BY <1>2, OpenAITyped
  <2>5. OpenAIGot(d, items, OpenAIPieces,
                  (IF oMessage # "none" THEN {me} ELSE {}) \cup (IF oReasoning THEN {ra} ELSE {}))
    <3>1. CASE oReasoning
      <4>1. ra \in items /\ ra \notin (IF oMessage # "none" THEN {me} ELSE {})
        BY <3>1, OpenAIItems DEF OpenAIKnown
      <4>. QED
        BY <2>3, <2>4, <3>1, <4>1, OpenAIItems, OpenAIGotItemDone
    <3>2. CASE ~oReasoning
      <4>1. (IF oMessage # "none" THEN {me} ELSE {}) \cup {} = IF oMessage # "none" THEN {me} ELSE {}
        OBVIOUS
      <4>. QED
        BY <2>3, <3>2, <4>1
    <3>. QED
      BY <3>1, <3>2
  <2>. PICK ended : ended = (IF oMessage # "none" THEN {me} ELSE {})
                              \cup (IF oReasoning THEN {ra} ELSE {})
    OBVIOUS
  <2>6. /\ OpenAIGot(d, items, OpenAIPieces, ended)
        /\ oCallId # nc => oCallId \in items /\ oCallId \notin ended
        /\ items = ended \cup IF oCallId # nc THEN {oCallId} ELSE {}
    <3>1. oCallId # nc => oCallId # ra /\ oCallId # me
      BY <1>2, OpenAIItems, OpenAITyped
    <3>. QED
      BY <2>5, <3>1 DEF OpenAIKnown
  <2>7. OpenAIGot(e, items, OpenAIPieces, items)
    <3>1. CASE oCallId # nc
      <4>1. OpenAIGot(OpenAI!ItemDone(d, oCallId), items, OpenAIPieces, ended \cup {oCallId})
        BY <1>2, <1>3, <2>4, <2>6, <3>1, OpenAIGotItemDone
      <4>. QED
        BY <2>3, <2>6, <3>1, <4>1
    <3>2. CASE oCallId = nc
      <4>1. ended \cup {} = ended
        OBVIOUS
      <4>. QED
        BY <2>6, <3>2, <4>1
    <3>. QED
      BY <3>1, <3>2
  <2>8. OpenAI!Collected = OpenAI!Contents(items, OpenAIPieces)
    <3>. PICK all : all = (IF oThoughts > 0 THEN {ra} ELSE {})
             \cup (IF oMessage # "none" THEN {me} ELSE {})
             \cup (IF oAnyCall THEN {oCallId} ELSE {})
      OBVIOUS
    <3>. PICK pieces_ : pieces_ = [x \in OutputOfOpenAI |-> CASE x = ra -> oThoughts
                                                         [] x = me   -> oTexts
                                                         [] OTHER    -> oArguments]
      OBVIOUS
    <3>1. OpenAI!Collected = OpenAI!Contents(all, pieces_)
      BY DEF OpenAI!Collected
    <3>2. all = items
      BY <2>1 DEF OpenAIKept, OpenAIKnown
    <3>3. ASSUME NEW x \in OutputOfOpenAI, x \in items PROVE pieces_[x] = OpenAIPieces[x]
      <4>1. CASE x = ra
        BY <4>1, OpenAIItems DEF OpenAIPieces
      <4>2. CASE x = me
        BY <4>2, OpenAIItems DEF OpenAIPieces
      <4>3. CASE x # ra /\ x # me
        <5>1. x = oCallId /\ x # nc
          BY <3>3, <4>3 DEF OpenAIKnown
        <5>. QED
          BY <4>3, <5>1 DEF OpenAIPieces
      <4>. QED
        BY <4>1, <4>2, <4>3
    <3>. QED
      BY <3>1, <3>2, <3>3 DEF OpenAI!Contents
  <2>9. ~OpenAI!Completed(e, OpenAI!Contents(items, OpenAIPieces)).broken
    <3>1. items \subseteq items
      OBVIOUS
    <3>. QED
      BY <1>4, <2>4, <2>7, <3>1, OpenAIGotCompleted
  <2>10. ASSUME NEW id \in oAsked' PROVE oClient'.output[id] > 0
    <3>1. id \in items /\ id \in OutputOfOpenAI
      BY <1>1, <1>2, <2>1, <2>10, OpenAIItems DEF OpenAIKept, OpenAIKnown, OpenAI!TypeOK
    <3>. QED
      BY <1>5, <2>4, <2>7, <3>1 DEF OpenAIGot, OpenAI!Contents
  <2>. QED
    BY <1>1, <2>2, <2>8, <2>9, <2>10
<1>. QED
  BY <1>1, <1>5, <1>6, <1>7, OpenAIAfter

LEMMA OpenAINext == ASSUME OpenAIInv, OpenAI!Next PROVE OpenAIInv'
  BY OpenAIContent, OpenAIThought, OpenAIToolCall, OpenAIFinish DEF OpenAI!Next

LEMMA OpenAIInit == ASSUME OpenAI!Init PROVE OpenAIInv
<1>1. OpenAI!NewReader \in OpenAI!Reader /\ ~OpenAI!NewReader.broken
  BY DEF OpenAI!NewReader, OpenAI!Reader, OpenAI!Output, OpenAI!Nothing
<1>2. OpenAI!TypeOK
  <2>1. oClient \in OpenAI!Reader /\ oCallId \in TwoCalls \cup {nc}
    BY <1>1 DEF OpenAI!Init
  <2>2. {oStarted, oReasoning, oCallDone, oAnyCall} \subseteq BOOLEAN
    BY DEF OpenAI!Init
  <2>3. {oTexts, oThoughts, oArguments} \subseteq Nat
    BY DEF OpenAI!Init
  <2>. QED
    BY <2>1, <2>2, <2>3 DEF OpenAI!Init, OpenAI!TypeOK
<1>3. OpenAISeen
  BY <1>1 DEF OpenAI!Init, OpenAISeen, OpenAIKept
<1>. QED
  BY <1>2, <1>3 DEF OpenAI!Init, OpenAIInv

LEMMA OpenAIWellFormed == ASSUME OpenAIInv PROVE OpenAI!TypeOK /\ OpenAI!AnswerWellFormed
  BY DEF OpenAIInv, OpenAISeen, OpenAI!AnswerWellFormed

-----------------------------------------------------------------------------
(* CodexToClaude: Codex's answers for a client of Claude's API. *)

\* What the client has seen after an event, field by field.
LEMMA CodexBlockStarted ==
  ASSUME NEW c \in Codex!Client, NEW i \in Nat, NEW k \in Codex!Kind
  PROVE  /\ Codex!BlockStart(c, i, k) \in Codex!Client
         /\ Codex!BlockStart(c, i, k).stage = c.stage
         /\ Codex!BlockStart(c, i, k).open = c.open \cup {<<i, k>>}
         /\ Codex!BlockStart(c, i, k).used = c.used \cup {i}
         /\ Codex!BlockStart(c, i, k).broken <=> c.broken \/ c.stage # "begun" \/ i \in c.used
<1>1. PICK e \in BOOLEAN : e <=> c.broken \/ c.stage # "begun" \/ i \in c.used
  OBVIOUS
<1>2. PICK o \in SUBSET (Nat \X Codex!Kind) : o = c.open \cup {<<i, k>>}
  <2>1. <<i, k>> \in Nat \X Codex!Kind /\ c.open \in SUBSET (Nat \X Codex!Kind)
    BY DEF Codex!Client
  <2>. QED
    BY <2>1
<1>3. PICK u \in SUBSET Nat : u = c.used \cup {i}
  BY DEF Codex!Client
<1>4. Codex!BlockStart(c, i, k) = [c EXCEPT !.open = o, !.used = u, !.broken = e]
  BY <1>1, <1>2, <1>3, Zenon DEF Codex!BlockStart
<1>. QED
  BY <1>1, <1>2, <1>3, <1>4 DEF Codex!Client

LEMMA CodexBlockDelta ==
  ASSUME NEW c \in Codex!Client, NEW i, NEW k
  PROVE  /\ Codex!BlockDelta(c, i, k) \in Codex!Client
         /\ Codex!BlockDelta(c, i, k).stage = c.stage
         /\ Codex!BlockDelta(c, i, k).open = c.open
         /\ Codex!BlockDelta(c, i, k).used = c.used
         /\ Codex!BlockDelta(c, i, k).broken
              <=> c.broken \/ c.stage # "begun" \/ <<i, k>> \notin c.open
<1>1. PICK e \in BOOLEAN : e <=> c.broken \/ c.stage # "begun" \/ <<i, k>> \notin c.open
  OBVIOUS
<1>2. Codex!BlockDelta(c, i, k) = [c EXCEPT !.broken = e]
  BY <1>1, Zenon DEF Codex!BlockDelta
<1>. QED
  BY <1>1, <1>2 DEF Codex!Client

LEMMA CodexBlockStopped ==
  ASSUME NEW c \in Codex!Client, NEW i \in Nat
  PROVE  /\ Codex!BlockStop(c, i) \in Codex!Client
         /\ Codex!BlockStop(c, i).stage = c.stage
         /\ Codex!BlockStop(c, i).open = {b \in c.open : b[1] # i}
         /\ Codex!BlockStop(c, i).used = c.used
         /\ Codex!BlockStop(c, i).broken
              <=> c.broken \/ c.stage # "begun" \/ \A b \in c.open : b[1] # i
<1>1. PICK e \in BOOLEAN : e <=> c.broken \/ c.stage # "begun" \/ \A b \in c.open : b[1] # i
  OBVIOUS
<1>2. PICK o \in SUBSET (Nat \X Codex!Kind) : o = {b \in c.open : b[1] # i}
  BY DEF Codex!Client
<1>3. Codex!BlockStop(c, i) = [c EXCEPT !.open = o, !.broken = e]
  BY <1>1, <1>2, Zenon DEF Codex!BlockStop
<1>. QED
  BY <1>1, <1>2, <1>3 DEF Codex!Client

\* The blocks that are open: that of the item at hand.
CodexOpen ==
  IF xItem = "call" THEN {<<xAt, "tool">>} ELSE IF xOpen THEN {<<xAt, Codex!BlockKind>>} ELSE {}

CodexSeen ==
  /\ ~xClient.broken
  /\ xClient.stage = xSource
  /\ xClient.open = CodexOpen
  /\ \A i \in xClient.used :
       i < xAt \/ (i = xAt /\ xItem # "none" /\ (xItem = "call" \/ xParts > 0))
  /\ xSource = "over" => (xStopReason = "tool_use" <=> xCalled)

CodexInv ==
  /\ Codex!TypeOK
  /\ xItem # "none" => xSource = "begun" /\ xAt < AnswerItems
  /\ xOpen => xItem \in {"reasoning", "message"}
  /\ xToolCall = xCalled
  /\ xExcuses = {} => CodexSeen

LEMMA CodexTyped ==
  ASSUME CodexInv
  PROVE  /\ xClient \in Codex!Client /\ xSource \in {"none", "begun", "over"}
         /\ AnswerItems \in Nat /\ xAt \in 0..AnswerItems /\ xAt \in Nat /\ xParts \in 0..AnswerItems
         /\ xItem \in {"reasoning", "message", "call", "none"}
         /\ xOpen \in BOOLEAN /\ xToolCall \in BOOLEAN /\ xCalled \in BOOLEAN
         /\ xStopReason \in {"none", "tool_use", "end_turn"}
         /\ xExcuses \in SUBSET {"parts", "failed"}
  BY AnswersParameters DEF CodexInv, Codex!TypeOK, Codex!CodexParameters, Codex!Items

LEMMA CodexResponseCreated == ASSUME CodexInv, Codex!ResponseCreated PROVE CodexInv'
<1>1. /\ xSource = "none" /\ xSource' = "begun" /\ xClient' = Codex!MessageStart(xClient)
      /\ xAt' = xAt /\ xItem' = xItem /\ xParts' = xParts /\ xOpen' = xOpen
      /\ xToolCall' = xToolCall /\ xStopReason' = xStopReason /\ xCalled' = xCalled
      /\ xExcuses' = xExcuses /\ CodexOpen' = CodexOpen
  BY DEF Codex!ResponseCreated, CodexOpen, Codex!BlockKind
<1>2. /\ xClient' \in Codex!Client /\ xClient'.stage = "begun" /\ xClient'.open = xClient.open
      /\ xClient'.used = xClient.used
      /\ xClient'.broken <=> xClient.broken \/ xClient.stage # "none"
  BY <1>1, CodexTyped DEF Codex!MessageStart, Codex!Client, Codex!Stage
<1>3. Codex!TypeOK'
  BY <1>1, <1>2 DEF CodexInv, Codex!TypeOK
<1>4. xExcuses' = {} => CodexSeen'
  BY <1>1, <1>2 DEF CodexInv, CodexSeen
<1>. QED
  BY <1>1, <1>3, <1>4 DEF CodexInv

LEMMA CodexItemAdded ==
  ASSUME CodexInv, NEW k \in Codex!Items, Codex!ItemAdded(k)
  PROVE  CodexInv'
<1>. PICK c : c = Codex!BlockStart(xClient, xAt, "tool")
  OBVIOUS
<1>1. /\ xSource = "begun" /\ xItem = "none" /\ xAt < AnswerItems
      /\ xItem' = k /\ xParts' = 0 /\ xCalled' = (xCalled \/ k = "call")
      /\ xSource' = xSource /\ xAt' = xAt /\ xOpen' = xOpen /\ xStopReason' = xStopReason
      /\ xExcuses' = xExcuses
      /\ IF k = "call" THEN xClient' = Codex!BlockDelta(c, xAt, "tool") /\ xToolCall' = TRUE
         ELSE xClient' = xClient /\ xToolCall' = xToolCall
  BY DEF Codex!ItemAdded
<1>2. ~xOpen /\ k \in {"reasoning", "message", "call"} /\ "tool" \in Codex!Kind
  BY <1>1, CodexTyped DEF CodexInv, Codex!Items, Codex!Kind
<1>3. /\ c \in Codex!Client /\ c.stage = xClient.stage
      /\ c.open = xClient.open \cup {<<xAt, "tool">>} /\ c.used = xClient.used \cup {xAt}
      /\ c.broken <=> xClient.broken \/ xClient.stage # "begun" \/ xAt \in xClient.used
  BY <1>2, CodexTyped, CodexBlockStarted
<1>. PICK d : d = Codex!BlockDelta(c, xAt, "tool")
  OBVIOUS
<1>9. /\ d \in Codex!Client /\ d.stage = c.stage /\ d.open = c.open /\ d.used = c.used
      /\ d.broken <=> c.broken \/ c.stage # "begun" \/ <<xAt, "tool">> \notin c.open
  BY <1>3, CodexBlockDelta, Zenon
<1>4. xClient' \in Codex!Client /\ (k = "call" => xClient' = d) /\ (k # "call" => xClient' = xClient)
  BY <1>1, <1>9, CodexTyped
<1>5. xToolCall' = xCalled' /\ xCalled' \in BOOLEAN
  BY <1>1, CodexTyped DEF CodexInv
<1>6. Codex!TypeOK'
  <2>1. xParts' \in 0..AnswerItems
    BY <1>1, CodexTyped
  <2>. QED
    BY <1>1, <1>4, <1>5, <2>1 DEF CodexInv, Codex!TypeOK
<1>7. ASSUME xExcuses = {} PROVE CodexSeen'
  <2>1. /\ ~xClient.broken /\ xClient.stage = "begun" /\ xClient.open = {}
        /\ \A i \in xClient.used : i < xAt
    BY <1>1, <1>2, <1>7 DEF CodexInv, CodexSeen, CodexOpen
  <2>2. CASE k = "call"
    <3>1. xAt \notin xClient.used
      BY <2>1, CodexTyped
    <3>2. ~c.broken /\ c.stage = "begun" /\ c.open = {<<xAt, "tool">>}
      BY <1>3, <2>1, <3>1
    <3>3. /\ ~xClient'.broken /\ xClient'.stage = "begun" /\ xClient'.open = {<<xAt, "tool">>}
          /\ xClient'.used = xClient.used \cup {xAt}
      BY <1>3, <1>4, <1>9, <2>2, <3>2
    <3>4. CodexOpen' = {<<xAt, "tool">>}
      BY <1>1, <2>2 DEF CodexOpen
    <3>. QED
      BY <1>1, <2>1, <2>2, <3>3, <3>4 DEF CodexSeen
  <2>3. CASE k # "call"
    <3>1. CodexOpen' = {}
      BY <1>1, <1>2, <2>3 DEF CodexOpen
    <3>2. xClient' = xClient
      BY <1>4, <2>3
    <3>3. xClient'.stage = xSource' /\ ~xClient'.broken /\ xClient'.open = CodexOpen'
      BY <1>1, <2>1, <3>1, <3>2
    <3>4. xSource' # "over" /\ \A i \in xClient'.used : i < xAt'
      BY <1>1, <2>1, <3>2
    <3>. QED
      BY <3>3, <3>4 DEF CodexSeen
  <2>. QED
    BY <2>2, <2>3
<1>. QED
  BY <1>1, <1>2, <1>5, <1>6, <1>7 DEF CodexInv

LEMMA CodexPartAdded == ASSUME CodexInv, Codex!PartAdded PROVE CodexInv'
<1>1. /\ xItem \in {"reasoning", "message"} /\ ~xOpen /\ xParts < AnswerItems
      /\ xOpen' = TRUE /\ xParts' = xParts + 1
      /\ xClient' = Codex!BlockStart(xClient, xAt, Codex!BlockKind)
      /\ xExcuses' = (IF xParts > 0 THEN xExcuses \cup {"parts"} ELSE xExcuses)
      /\ xSource' = xSource /\ xAt' = xAt /\ xItem' = xItem /\ xToolCall' = xToolCall
      /\ xStopReason' = xStopReason /\ xCalled' = xCalled
  BY DEF Codex!PartAdded
<1>2. Codex!BlockKind \in Codex!Kind /\ Codex!BlockKind' = Codex!BlockKind
  BY <1>1 DEF Codex!BlockKind, Codex!Kind
<1>3. /\ xClient' \in Codex!Client /\ xClient'.stage = xClient.stage
      /\ xClient'.open = xClient.open \cup {<<xAt, Codex!BlockKind>>}
      /\ xClient'.used = xClient.used \cup {xAt}
      /\ xClient'.broken <=> xClient.broken \/ xClient.stage # "begun" \/ xAt \in xClient.used
  BY <1>1, <1>2, CodexTyped, CodexBlockStarted
<1>4. Codex!TypeOK'
  <2>1. xParts' \in 0..AnswerItems
    BY <1>1, CodexTyped
  <2>. QED
    BY <1>1, <1>3, <2>1 DEF CodexInv, Codex!TypeOK
<1>5. ASSUME xExcuses' = {} PROVE CodexSeen'
  <2>1. xExcuses = {} /\ xParts = 0 /\ xParts' > 0
    BY <1>1, <1>5, CodexTyped
  <2>2. /\ ~xClient.broken /\ xClient.stage = "begun" /\ xClient.open = {}
        /\ \A i \in xClient.used : i < xAt
    BY <1>1, <2>1 DEF CodexInv, CodexSeen, CodexOpen
  <2>3. xAt \notin xClient.used
    BY <2>2, CodexTyped
  <2>4. CodexOpen' = {<<xAt, Codex!BlockKind>>}
    BY <1>1, <1>2 DEF CodexOpen
  <2>5. xClient'.open = {<<xAt, Codex!BlockKind>>}
    BY <1>3, <2>2
  <2>6. xSource' = "begun"
    BY <1>1 DEF CodexInv
  <2>7. xClient'.stage = "begun" /\ ~xClient'.broken
    BY <1>3, <2>2, <2>3
  <2>8. \A i \in xClient'.used : i < xAt' \/ (i = xAt' /\ xItem' # "none" /\ xParts' > 0)
    BY <1>1, <1>3, <2>1, <2>2
  <2>. QED
    BY <2>4, <2>5, <2>6, <2>7, <2>8 DEF CodexSeen
<1>. QED
  BY <1>1, <1>4, <1>5 DEF CodexInv

LEMMA CodexItemDelta == ASSUME CodexInv, Codex!ItemDelta PROVE CodexInv'
<1>1. /\ xOpen \/ xItem = "call"
      /\ xClient' = Codex!BlockDelta(xClient, xAt, Codex!BlockKind)
      /\ xSource' = xSource /\ xAt' = xAt /\ xItem' = xItem /\ xParts' = xParts /\ xOpen' = xOpen
      /\ xToolCall' = xToolCall /\ xStopReason' = xStopReason /\ xCalled' = xCalled
      /\ xExcuses' = xExcuses /\ CodexOpen' = CodexOpen
  BY DEF Codex!ItemDelta, CodexOpen, Codex!BlockKind
<1>2. /\ xClient' \in Codex!Client /\ xClient'.stage = xClient.stage
      /\ xClient'.open = xClient.open /\ xClient'.used = xClient.used
      /\ xClient'.broken <=> \/ xClient.broken \/ xClient.stage # "begun"
                             \/ <<xAt, Codex!BlockKind>> \notin xClient.open
  BY <1>1, CodexTyped, CodexBlockDelta
<1>3. Codex!TypeOK'
  BY <1>1, <1>2 DEF CodexInv, Codex!TypeOK
<1>4. ASSUME xExcuses = {} PROVE CodexSeen'
  <2>1. xClient.stage = "begun" /\ ~xClient.broken /\ xClient.open = CodexOpen /\ CodexSeen
    BY <1>1, <1>4 DEF CodexInv, CodexSeen
  <2>2. <<xAt, Codex!BlockKind>> \in CodexOpen
    BY <1>1 DEF CodexOpen, Codex!BlockKind
  <2>. QED
    BY <1>1, <1>2, <2>1, <2>2 DEF CodexSeen
<1>. QED
  BY <1>1, <1>3, <1>4 DEF CodexInv

\* A block that stops is the only one that is open.
LEMMA CodexStopped ==
  ASSUME CodexInv, xExcuses = {}, NEW k, CodexOpen = {<<xAt, k>>}, xItem # "none"
  PROVE  /\ ~Codex!BlockStop(xClient, xAt).broken
         /\ Codex!BlockStop(xClient, xAt).open = {}
<1>1. ~xClient.broken /\ xClient.stage = "begun" /\ xClient.open = {<<xAt, k>>}
  BY DEF CodexInv, CodexSeen
<1>2. <<xAt, k>>[1] = xAt
  OBVIOUS
<1>3. \A b \in xClient.open : b[1] = xAt
  BY <1>1, <1>2
<1>4. {b \in xClient.open : b[1] # xAt} = {} /\ ~(\A b \in xClient.open : b[1] # xAt)
  BY <1>1, <1>3
<1>. QED
  BY <1>1, <1>4, CodexTyped, CodexBlockStopped

LEMMA CodexPartDone == ASSUME CodexInv, Codex!PartDone PROVE CodexInv'
<1>1. /\ xOpen /\ xOpen' = FALSE /\ xClient' = Codex!BlockStop(xClient, xAt)
      /\ xSource' = xSource /\ xAt' = xAt /\ xItem' = xItem /\ xParts' = xParts
      /\ xToolCall' = xToolCall /\ xStopReason' = xStopReason /\ xCalled' = xCalled
      /\ xExcuses' = xExcuses
  BY DEF Codex!PartDone
<1>2. xItem \in {"reasoning", "message"}
  BY <1>1 DEF CodexInv
<1>3. /\ xClient' \in Codex!Client /\ xClient'.stage = xClient.stage
      /\ xClient'.used = xClient.used
  BY <1>1, CodexTyped, CodexBlockStopped
<1>4. Codex!TypeOK'
  BY <1>1, <1>3 DEF CodexInv, Codex!TypeOK
<1>5. ASSUME xExcuses = {} PROVE CodexSeen'
  <2>1. CodexOpen = {<<xAt, Codex!BlockKind>>} /\ CodexOpen' = {}
    BY <1>1, <1>2 DEF CodexOpen
  <2>2. ~xClient'.broken /\ xClient'.open = {}
    BY <1>1, <1>2, <1>5, <2>1, CodexStopped
  <2>. QED
    BY <1>1, <1>3, <1>5, <2>1, <2>2 DEF CodexInv, CodexSeen
<1>. QED
  BY <1>1, <1>4, <1>5 DEF CodexInv

LEMMA CodexItemDone == ASSUME CodexInv, Codex!ItemDone PROVE CodexInv'
<1>1. /\ xItem # "none" /\ ~xOpen /\ xItem' = "none" /\ xAt' = xAt + 1
      /\ xClient' = (IF xItem = "call" THEN Codex!BlockStop(xClient, xAt) ELSE xClient)
      /\ xSource' = xSource /\ xParts' = xParts /\ xOpen' = xOpen
      /\ xToolCall' = xToolCall /\ xStopReason' = xStopReason /\ xCalled' = xCalled
      /\ xExcuses' = xExcuses
  BY DEF Codex!ItemDone
<1>2. /\ xClient' \in Codex!Client /\ xClient'.stage = xClient.stage
      /\ xClient'.used = xClient.used
  BY <1>1, CodexTyped, CodexBlockStopped
<1>3. Codex!TypeOK'
  <2>1. xAt' \in 0..AnswerItems
    BY <1>1, CodexTyped DEF CodexInv
  <2>. QED
    BY <1>1, <1>2, <2>1 DEF CodexInv, Codex!TypeOK
<1>4. ASSUME xExcuses = {} PROVE CodexSeen'
  <2>1. CodexOpen' = {}
    BY <1>1 DEF CodexOpen
  <2>2. ~xClient'.broken /\ xClient'.open = {}
    <3>1. CASE xItem = "call"
      <4>1. CodexOpen = {<<xAt, "tool">>}
        BY <3>1 DEF CodexOpen
      <4>. QED
        BY <1>1, <1>4, <3>1, <4>1, CodexStopped
    <3>2. CASE xItem # "call"
      BY <1>1, <1>4, <3>2 DEF CodexInv, CodexSeen, CodexOpen
    <3>. QED
      BY <3>1, <3>2
  <2>3. \A i \in xClient'.used : i < xAt'
    <3>1. \A i \in xClient.used : i \in Nat /\ (i < xAt \/ i = xAt)
      BY <1>4, CodexTyped DEF CodexInv, CodexSeen, Codex!Client
    <3>. QED
      BY <1>1, <1>2, <3>1, CodexTyped
  <2>4. xClient'.stage = xSource' /\ (xSource' = "over" => (xStopReason' = "tool_use" <=> xCalled'))
    BY <1>1, <1>2, <1>4 DEF CodexInv, CodexSeen
  <2>5. xClient'.open = CodexOpen'
    BY <2>1, <2>2
  <2>. QED
    BY <2>2, <2>3, <2>4, <2>5 DEF CodexSeen
<1>. QED
  BY <1>1, <1>3, <1>4 DEF CodexInv

LEMMA CodexResponseCompleted == ASSUME CodexInv, Codex!ResponseCompleted PROVE CodexInv'
<1>. PICK c : c = Codex!MessageDelta(xClient)
  OBVIOUS
<1>1. /\ xSource = "begun" /\ xItem = "none" /\ xSource' = "over"
      /\ xClient' = Codex!MessageStop(c)
      /\ xStopReason' = (IF xToolCall THEN "tool_use" ELSE "end_turn")
      /\ xAt' = xAt /\ xItem' = xItem /\ xParts' = xParts /\ xOpen' = xOpen
      /\ xToolCall' = xToolCall /\ xCalled' = xCalled /\ xExcuses' = xExcuses
  BY DEF Codex!ResponseCompleted
<1>2. /\ c \in Codex!Client /\ c.stage = "closing" /\ c.open = xClient.open
      /\ c.used = xClient.used
      /\ c.broken <=> xClient.broken \/ xClient.stage # "begun" \/ xClient.open # {}
  BY CodexTyped DEF Codex!MessageDelta, Codex!Client, Codex!Stage
<1>3. /\ xClient' \in Codex!Client /\ xClient'.stage = "over" /\ xClient'.open = c.open
      /\ xClient'.used = c.used
      /\ xClient'.broken <=> c.broken \/ c.stage # "closing"
  BY <1>1, <1>2 DEF Codex!MessageStop, Codex!Client, Codex!Stage
<1>4. Codex!TypeOK'
  BY <1>1, <1>3 DEF CodexInv, Codex!TypeOK
<1>5. ASSUME xExcuses = {} PROVE CodexSeen'
  <2>1. ~xOpen /\ CodexOpen = {} /\ CodexOpen' = {}
    BY <1>1 DEF CodexInv, CodexOpen
  <2>2. xStopReason' = "tool_use" <=> xCalled'
    BY <1>1, CodexTyped DEF CodexInv
  <2>. QED
    BY <1>1, <1>2, <1>3, <1>5, <2>1, <2>2 DEF CodexInv, CodexSeen
<1>. QED
  BY <1>1, <1>4, <1>5 DEF CodexInv

LEMMA CodexResponseFailed == ASSUME CodexInv, Codex!ResponseFailed PROVE CodexInv'
<1>1. Codex!TypeOK'
  BY DEF Codex!ResponseFailed, CodexInv, Codex!TypeOK
<1>. QED
  BY <1>1 DEF Codex!ResponseFailed, CodexInv

LEMMA CodexNext == ASSUME CodexInv, Codex!Next PROVE CodexInv'
  BY CodexResponseCreated, CodexItemAdded, CodexPartAdded, CodexItemDelta, CodexPartDone,
     CodexItemDone, CodexResponseCompleted, CodexResponseFailed
     DEF Codex!Next

LEMMA CodexInit == ASSUME Codex!Init PROVE CodexInv
<1>1. /\ Codex!NewClient \in Codex!Client /\ Codex!NewClient.stage = "none"
      /\ ~Codex!NewClient.broken /\ Codex!NewClient.open = {} /\ Codex!NewClient.used = {}
  BY DEF Codex!NewClient, Codex!Client, Codex!Stage
<1>2. xAt \in 0..AnswerItems /\ xParts \in 0..AnswerItems
  BY AnswersParameters DEF Codex!Init, Codex!CodexParameters
<1>3. Codex!TypeOK
  BY <1>1, <1>2 DEF Codex!Init, Codex!TypeOK
<1>4. CodexOpen = {}
  BY DEF Codex!Init, CodexOpen
<1>5. CodexSeen
  BY <1>1, <1>4 DEF Codex!Init, CodexSeen
<1>. QED
  BY <1>3, <1>5 DEF Codex!Init, CodexInv

LEMMA CodexWellFormed == ASSUME CodexInv PROVE Codex!TypeOK /\ Codex!AnswerWellFormed
  BY DEF CodexInv, CodexSeen, Codex!AnswerWellFormed

-----------------------------------------------------------------------------
(* ClaudeToChat: Claude's answers for a client of chat completions. *)

\* The bounds of the answers that come in chunks.
LEMMA NumberedCalls ==
  /\ Chunks \in Nat \ {0} /\ ChunkParts \in Nat \ {0} /\ Pieces \in Nat /\ ChunkParts * Chunks \in Nat
  /\ Numbered \subseteq Nat /\ 0..(Chunks - 1) \subseteq Numbered
<1>1. Chunks \in Nat \ {0} /\ ChunkParts \in Nat \ {0} /\ Pieces \in Nat
  BY AnswersParameters DEF ClaudeChat!ClaudeChatParameters, GeminiChat!GeminiChatParameters
<1>2. ChunkParts * Chunks \in Nat
  BY <1>1
<1>3. 0..(Chunks - 1) \subseteq Numbered
  BY AnswersParameters DEF ClaudeChat!ClaudeChatParameters
<1>. QED
  BY <1>1, <1>2, <1>3 DEF Numbered

\* What the client has seen after a chunk, field by field.
LEMMA ClaudeChatRead ==
  ASSUME NEW c \in ClaudeChat!Reader, NEW k \in ClaudeChat!Piece
  PROVE  /\ ClaudeChat!Read(c, k) \in ClaudeChat!Reader
         /\ ClaudeChat!Read(c, k).texts = [c.texts EXCEPT ![k] = @ + 1]
         /\ ClaudeChat!Read(c, k).calls = c.calls
         /\ ClaudeChat!Read(c, k).indexes = c.indexes
         /\ ClaudeChat!Read(c, k).finish = c.finish
         /\ ClaudeChat!Read(c, k).broken <=> c.broken \/ c.finish # "none"
<1>1. [c.texts EXCEPT ![k] = @ + 1] \in [ClaudeChat!Piece -> Nat]
  BY DEF ClaudeChat!Reader
<1>2. PICK t \in [ClaudeChat!Piece -> Nat] : t = [c.texts EXCEPT ![k] = @ + 1]
  BY <1>1
<1>3. PICK e \in BOOLEAN : e <=> c.broken \/ c.finish # "none"
  OBVIOUS
<1>4. ClaudeChat!Read(c, k) = [c EXCEPT !.texts = t, !.broken = e]
  BY <1>2, <1>3, Zenon DEF ClaudeChat!Read
<1>. QED
  BY <1>2, <1>3, <1>4 DEF ClaudeChat!Reader

LEMMA ClaudeChatReadFinish ==
  ASSUME NEW c \in ClaudeChat!Reader, NEW reason \in ClaudeChat!Reason \cup {"none", ClaudeChat!Unknown}
  PROVE  /\ ClaudeChat!ReadFinish(c, reason) \in ClaudeChat!Reader
         /\ ClaudeChat!ReadFinish(c, reason).texts = c.texts
         /\ ClaudeChat!ReadFinish(c, reason).calls = c.calls
         /\ ClaudeChat!ReadFinish(c, reason).indexes = c.indexes
         /\ ClaudeChat!ReadFinish(c, reason).finish = reason
         /\ ClaudeChat!ReadFinish(c, reason).broken <=> c.broken
  BY DEF ClaudeChat!ReadFinish, ClaudeChat!Reader

LEMMA ClaudeChatReadCallAt ==
  ASSUME NEW c \in ClaudeChat!Reader, NEW i \in Nat, NEW x \in Numbered, NEW args \in Nat
  PROVE  /\ ClaudeChat!ReadCallAt(c, i, x, args) \in ClaudeChat!Reader
         /\ ClaudeChat!ReadCallAt(c, i, x, args).texts = c.texts
         /\ ClaudeChat!ReadCallAt(c, i, x, args).calls = [c.calls EXCEPT ![x] = 1 + args]
         /\ ClaudeChat!ReadCallAt(c, i, x, args).indexes = c.indexes \cup {i}
         /\ ClaudeChat!ReadCallAt(c, i, x, args).finish = c.finish
         /\ ClaudeChat!ReadCallAt(c, i, x, args).broken
              <=> c.broken \/ c.finish # "none" \/ c.calls[x] > 0 \/ i \in c.indexes
<1>1. [c.calls EXCEPT ![x] = 1 + args] \in [Numbered -> Nat]
  BY DEF ClaudeChat!Reader
<1>2. PICK s \in [Numbered -> Nat] : s = [c.calls EXCEPT ![x] = 1 + args]
  BY <1>1
<1>3. PICK e \in BOOLEAN :
        e <=> c.broken \/ c.finish # "none" \/ c.calls[x] > 0 \/ i \in c.indexes
  OBVIOUS
<1>4. PICK u \in SUBSET Nat : u = c.indexes \cup {i}
  BY DEF ClaudeChat!Reader
<1>5. ClaudeChat!ReadCallAt(c, i, x, args) = [c EXCEPT !.calls = s, !.indexes = u, !.broken = e]
  BY <1>2, <1>3, <1>4, Zenon DEF ClaudeChat!ReadCallAt
<1>. QED
  BY <1>2, <1>3, <1>4, <1>5 DEF ClaudeChat!Reader

\* The call that is kept is that of the block at hand.
ClaudeChatKept ==
  /\ \A x \in Numbered : aSeen.calls[x] = IF aKept[x] > 0 THEN 0 ELSE aCalls[x]
  /\ \A x \in Numbered : aKept[x] > 0 =>
       x = aAt /\ aKept[x] = aCalls[x] /\ (aBlock = "tool_use" \/ aReason = "error")
  /\ \A x \in Numbered : aCalls[x] > 0 => x < aAt \/ aKept[x] > 0
  /\ aBlock = "tool_use" => aKept[aAt] > 0
  /\ \A i \in aSeen.indexes : i < aAt

ClaudeChatInv ==
  /\ ClaudeChat!TypeOK
  /\ ~aSeen.broken /\ aSeen.texts = aTexts
  /\ ClaudeChatKept
  /\ aBlock # "none" => aSource = "begun" /\ aAt < Chunks
  /\ aSource \in {"none", "begun"} => aReason = "none" /\ aSeen.finish = "none"
  /\ aSource \in {"told", "over"} =>
       aReason # "none" /\ (aReason # "error" => aSeen.finish = ClaudeChat!ReasonOf(aReason))
  /\ aReason = "error" => aSource = "over"

LEMMA ClaudeChatTyped ==
  ASSUME ClaudeChatInv
  PROVE  /\ aSeen \in ClaudeChat!Reader /\ aSource \in {"none", "begun", "told", "over"}
         /\ aAt \in 0..Chunks /\ aAt \in Nat /\ (aAt < Chunks => aAt \in Numbered)
         /\ aBlock \in {"text", "thinking", "tool_use", "none"} /\ aPieces \in 0..Pieces
         /\ aKept \in [Numbered -> Nat] /\ aTexts \in [ClaudeChat!Piece -> Nat]
         /\ aCalls \in [Numbered -> Nat]
         /\ aReason \in {"end_turn", "tool_use", "max_tokens", "none", "error"}
         /\ aSeen.calls \in [Numbered -> Nat] /\ aSeen.indexes \in SUBSET Nat
<1>1. ClaudeChat!TypeOK
  BY DEF ClaudeChatInv
<1>2. aAt \in 0..Chunks /\ aAt \in Nat
  BY <1>1, NumberedCalls DEF ClaudeChat!TypeOK
<1>3. aAt < Chunks => aAt \in 0..(Chunks - 1)
  BY <1>2, NumberedCalls
<1>4. aSeen.calls \in [Numbered -> Nat] /\ aSeen.indexes \in SUBSET Nat
  BY <1>1 DEF ClaudeChat!TypeOK, ClaudeChat!Reader
<1>. QED
  BY <1>1, <1>2, <1>3, <1>4, NumberedCalls
     DEF ClaudeChat!TypeOK, ClaudeChat!Block, ClaudeChat!Stop

LEMMA ClaudeChatMessageStart == ASSUME ClaudeChatInv, ClaudeChat!MessageStart PROVE ClaudeChatInv'
<1>1. /\ aSource = "none" /\ aSource' = "begun"
      /\ aSeen' = aSeen /\ aAt' = aAt /\ aBlock' = aBlock /\ aPieces' = aPieces /\ aKept' = aKept
      /\ aTexts' = aTexts /\ aCalls' = aCalls /\ aReason' = aReason
  BY DEF ClaudeChat!MessageStart
<1>2. ClaudeChat!TypeOK' /\ ClaudeChatKept'
  BY <1>1 DEF ClaudeChatInv, ClaudeChat!TypeOK, ClaudeChatKept
<1>. QED
  BY <1>1, <1>2 DEF ClaudeChatInv

LEMMA ClaudeChatBlockStart ==
  ASSUME ClaudeChatInv, NEW k \in ClaudeChat!Block, ClaudeChat!BlockStart(k)
  PROVE  ClaudeChatInv'
<1>1. /\ aSource = "begun" /\ aBlock = "none" /\ aAt < Chunks /\ aBlock' = k /\ aPieces' = 0
      /\ aSeen' = aSeen /\ aSource' = aSource /\ aAt' = aAt /\ aTexts' = aTexts
      /\ aReason' = aReason
      /\ IF k = "tool_use"
         THEN aKept' = [aKept EXCEPT ![aAt] = 1] /\ aCalls' = [aCalls EXCEPT ![aAt] = 1]
         ELSE aKept' = aKept /\ aCalls' = aCalls
  BY DEF ClaudeChat!BlockStart
<1>2. aReason = "none" /\ ClaudeChatKept /\ aAt \in Numbered
  BY <1>1, ClaudeChatTyped DEF ClaudeChatInv
<1>3. aKept' \in [Numbered -> Nat] /\ aCalls' \in [Numbered -> Nat]
  BY <1>1, <1>2, ClaudeChatTyped
<1>4. aPieces' \in 0..Pieces
  BY <1>1, NumberedCalls
<1>5. ClaudeChat!TypeOK'
  BY <1>1, <1>3, <1>4 DEF ClaudeChatInv, ClaudeChat!TypeOK
<1>6. ASSUME NEW x \in Numbered
      PROVE  aKept[x] = 0 /\ (aCalls[x] > 0 => x < aAt) /\ aSeen.calls[x] = aCalls[x]
  <2>1. aKept[x] \in Nat /\ ~(aKept[x] > 0)
    BY <1>1, <1>2, <1>6, ClaudeChatTyped DEF ClaudeChatKept
  <2>. QED
    BY <1>2, <2>1 DEF ClaudeChatKept
<1>7. ClaudeChatKept'
  <2>1. CASE k # "tool_use"
    BY <1>1, <1>2, <1>6, <2>1 DEF ClaudeChatKept
  <2>2. CASE k = "tool_use"
    <3>1. /\ aKept'[aAt] = 1 /\ aCalls'[aAt] = 1
          /\ \A x \in Numbered : x # aAt => aKept'[x] = 0 /\ aCalls'[x] = aCalls[x]
      BY <1>1, <1>2, <1>6, <2>2, ClaudeChatTyped
    <3>2. aSeen.calls[aAt] = 0
      <4>1. aCalls[aAt] \in Nat /\ aSeen.calls[aAt] = aCalls[aAt] /\ ~(aAt < aAt)
        BY <1>2, <1>6, ClaudeChatTyped
      <4>2. ~(aCalls[aAt] > 0)
        BY <1>2, <1>6, <4>1
      <4>. QED
        BY <4>1, <4>2
    <3>3. ASSUME NEW x \in Numbered
          PROVE  /\ aSeen'.calls[x] = IF aKept'[x] > 0 THEN 0 ELSE aCalls'[x]
                 /\ aKept'[x] > 0 => x = aAt' /\ aKept'[x] = aCalls'[x] /\ aBlock' = "tool_use"
                 /\ aCalls'[x] > 0 => x < aAt' \/ aKept'[x] > 0
      <4>1. CASE x = aAt
        BY <1>1, <2>2, <3>1, <3>2, <4>1
      <4>2. CASE x # aAt
        BY <1>1, <1>6, <3>1, <4>2
      <4>. QED
        BY <4>1, <4>2
    <3>4. aKept'[aAt'] > 0 /\ \A i \in aSeen'.indexes : i < aAt'
      BY <1>1, <1>2, <3>1 DEF ClaudeChatKept
    <3>. QED
      BY <3>3, <3>4 DEF ClaudeChatKept
  <2>. QED
    BY <2>1, <2>2
<1>. QED
  BY <1>1, <1>5, <1>7 DEF ClaudeChatInv

LEMMA ClaudeChatBlockDelta == ASSUME ClaudeChatInv, ClaudeChat!BlockDelta PROVE ClaudeChatInv'
<1>1. /\ aBlock # "none" /\ aPieces < Pieces /\ aPieces' = aPieces + 1
      /\ aSource' = aSource /\ aAt' = aAt /\ aBlock' = aBlock /\ aReason' = aReason
      /\ IF aBlock = "tool_use"
         THEN /\ aKept' = [aKept EXCEPT ![aAt] = @ + 1]
              /\ aCalls' = [aCalls EXCEPT ![aAt] = @ + 1]
              /\ aSeen' = aSeen /\ aTexts' = aTexts
         ELSE /\ aSeen' = ClaudeChat!Read(aSeen, ClaudeChat!PieceOf(aBlock))
              /\ aTexts' = [aTexts EXCEPT ![ClaudeChat!PieceOf(aBlock)] = @ + 1]
              /\ aKept' = aKept /\ aCalls' = aCalls
  BY DEF ClaudeChat!BlockDelta
<1>2. aSource = "begun" /\ aAt \in Numbered /\ ClaudeChatKept /\ aSeen.finish = "none"
  BY <1>1, ClaudeChatTyped DEF ClaudeChatInv
<1>3. aPieces' \in 0..Pieces
  BY <1>1, NumberedCalls, ClaudeChatTyped
<1>4. CASE aBlock = "tool_use"
  <2>1. aKept' \in [Numbered -> Nat] /\ aCalls' \in [Numbered -> Nat]
    BY <1>1, <1>2, <1>4, ClaudeChatTyped
  <2>2. ClaudeChat!TypeOK'
    BY <1>1, <1>3, <1>4, <2>1 DEF ClaudeChatInv, ClaudeChat!TypeOK
  <2>3. /\ aKept'[aAt] = aKept[aAt] + 1 /\ aCalls'[aAt] = aCalls[aAt] + 1
        /\ \A x \in Numbered : x # aAt => aKept'[x] = aKept[x] /\ aCalls'[x] = aCalls[x]
    BY <1>1, <1>2, <1>4, ClaudeChatTyped
  <2>4. aKept[aAt] \in Nat /\ aKept[aAt] > 0 /\ aKept[aAt] = aCalls[aAt] /\ aSeen.calls[aAt] = 0
    BY <1>2, <1>4, ClaudeChatTyped DEF ClaudeChatKept
  <2>5. ASSUME NEW x \in Numbered
        PROVE  /\ aSeen'.calls[x] = IF aKept'[x] > 0 THEN 0 ELSE aCalls'[x]
               /\ aKept'[x] > 0 => x = aAt' /\ aKept'[x] = aCalls'[x] /\ aBlock' = "tool_use"
               /\ aCalls'[x] > 0 => x < aAt' \/ aKept'[x] > 0
    <3>1. CASE x = aAt
      BY <1>1, <1>4, <2>3, <2>4, <3>1
    <3>2. CASE x # aAt
      BY <1>1, <1>2, <1>4, <2>3, <3>2 DEF ClaudeChatKept
    <3>. QED
      BY <3>1, <3>2
  <2>6. aKept'[aAt'] > 0 /\ \A i \in aSeen'.indexes : i < aAt'
    BY <1>1, <1>2, <1>4, <2>3, <2>4 DEF ClaudeChatKept
  <2>7. ClaudeChatKept'
    BY <2>5, <2>6 DEF ClaudeChatKept
  <2>. QED
    BY <1>1, <1>2, <1>4, <2>2, <2>7 DEF ClaudeChatInv
<1>5. CASE aBlock # "tool_use"
  <2>. PICK k \in ClaudeChat!Piece : k = ClaudeChat!PieceOf(aBlock)
    BY DEF ClaudeChat!PieceOf, ClaudeChat!Piece
  <2>6. aSeen' = ClaudeChat!Read(aSeen, k)
    BY <1>1, <1>5
  <2>7. /\ aSeen' \in ClaudeChat!Reader /\ aSeen'.texts = [aSeen.texts EXCEPT ![k] = @ + 1]
        /\ aSeen'.calls = aSeen.calls /\ aSeen'.indexes = aSeen.indexes
        /\ aSeen'.finish = aSeen.finish
        /\ aSeen'.broken <=> aSeen.broken \/ aSeen.finish # "none"
    BY <2>6, ClaudeChatTyped, ClaudeChatRead
  <2>1. /\ aSeen' \in ClaudeChat!Reader /\ aSeen'.texts = [aSeen.texts EXCEPT ![k] = @ + 1]
        /\ aSeen'.calls = aSeen.calls /\ aSeen'.indexes = aSeen.indexes
        /\ aSeen'.finish = aSeen.finish /\ ~aSeen'.broken
    BY <1>2, <2>7 DEF ClaudeChatInv
  <2>2. aTexts' = [aTexts EXCEPT ![k] = @ + 1] /\ aKept' = aKept /\ aCalls' = aCalls
    BY <1>1, <1>5
  <2>3. aTexts' \in [ClaudeChat!Piece -> Nat]
    BY <2>2, ClaudeChatTyped
  <2>4. ClaudeChat!TypeOK'
    BY <1>1, <1>3, <2>1, <2>2, <2>3 DEF ClaudeChatInv, ClaudeChat!TypeOK
  <2>5. ClaudeChatKept'
    BY <1>1, <1>2, <2>1, <2>2 DEF ClaudeChatKept
  <2>. QED
    BY <1>1, <1>2, <2>1, <2>2, <2>4, <2>5 DEF ClaudeChatInv
<1>. QED
  BY <1>4, <1>5

LEMMA ClaudeChatBlockStop == ASSUME ClaudeChatInv, ClaudeChat!BlockStop PROVE ClaudeChatInv'
<1>1. /\ aBlock # "none" /\ aBlock' = "none" /\ aAt' = aAt + 1
      /\ aSource' = aSource /\ aPieces' = aPieces /\ aTexts' = aTexts /\ aCalls' = aCalls
      /\ aReason' = aReason
      /\ IF aKept[aAt] > 0
         THEN /\ aSeen' = ClaudeChat!ReadCallAt(aSeen, aAt, aAt, aKept[aAt] - 1)
              /\ aKept' = [aKept EXCEPT ![aAt] = 0]
         ELSE aSeen' = aSeen /\ aKept' = aKept
  BY DEF ClaudeChat!BlockStop
<1>2. /\ aSource = "begun" /\ aAt < Chunks /\ aAt \in Numbered /\ aAt \in Nat /\ ClaudeChatKept
      /\ aSeen.finish = "none" /\ aReason = "none"
  BY <1>1, ClaudeChatTyped DEF ClaudeChatInv
<1>3. aAt' \in 0..Chunks
  BY <1>1, <1>2, NumberedCalls
<1>4. aKept' \in [Numbered -> Nat]
  BY <1>1, <1>2, ClaudeChatTyped
<1>5. \A x \in Numbered : aKept'[x] = 0
  <2>1. ASSUME NEW x \in Numbered PROVE aKept'[x] = 0
    <3>1. CASE x = aAt
      BY <1>1, <1>2, <3>1, ClaudeChatTyped
    <3>2. CASE x # aAt
      <4>1. aKept'[x] = aKept[x] /\ aKept[x] \in Nat
        BY <1>1, <1>2, <3>2, ClaudeChatTyped
      <4>. QED
        BY <1>2, <3>2, <4>1 DEF ClaudeChatKept
    <3>. QED
      BY <3>1, <3>2
  <2>. QED
    BY <2>1
<1>6. CASE aKept[aAt] > 0
  <2>1. aKept[aAt] - 1 \in Nat /\ aKept[aAt] = aCalls[aAt] /\ aSeen.calls[aAt] = 0
    BY <1>2, <1>6, ClaudeChatTyped DEF ClaudeChatKept
  <2>2. aAt \notin aSeen.indexes
    BY <1>2 DEF ClaudeChatKept
  <2>. PICK n \in Nat : n = aKept[aAt] - 1
    BY <2>1
  <2>3. aSeen' = ClaudeChat!ReadCallAt(aSeen, aAt, aAt, n)
    BY <1>1, <1>6
  <2>4. /\ aSeen' \in ClaudeChat!Reader /\ aSeen'.texts = aSeen.texts
        /\ aSeen'.calls = [aSeen.calls EXCEPT ![aAt] = 1 + n]
        /\ aSeen'.indexes = aSeen.indexes \cup {aAt} /\ aSeen'.finish = aSeen.finish
        /\ aSeen'.broken <=> aSeen.broken \/ aSeen.finish # "none" \/ aSeen.calls[aAt] > 0
                             \/ aAt \in aSeen.indexes
    BY <1>2, <2>3, ClaudeChatTyped, ClaudeChatReadCallAt
  <2>5. ~aSeen'.broken
    BY <1>2, <2>1, <2>2, <2>4 DEF ClaudeChatInv
  <2>6. ASSUME NEW x \in Numbered
        PROVE  aSeen'.calls[x] = aCalls[x] /\ (aCalls[x] > 0 => x < aAt + 1)
    <3>1. CASE x = aAt
      <4>1. aSeen'.calls[aAt] = 1 + n
        BY <1>2, <2>4, ClaudeChatTyped
      <4>2. 1 + n = aCalls[aAt]
        <5>1. aKept[aAt] \in Nat
          BY <1>2, ClaudeChatTyped
        <5>2. 1 + n = aKept[aAt]
          BY <5>1
        <5>. QED
          BY <2>1, <5>2
      <4>3. aAt < aAt + 1
        BY <1>2
      <4>. QED
        BY <3>1, <4>1, <4>2, <4>3
    <3>2. CASE x # aAt
      <4>1. aSeen'.calls[x] = aSeen.calls[x] /\ aKept[x] \in Nat /\ x \in Nat
        BY <2>4, <3>2, ClaudeChatTyped, NumberedCalls
      <4>2. ~(aKept[x] > 0)
        BY <1>2, <3>2 DEF ClaudeChatKept
      <4>3. aSeen.calls[x] = aCalls[x] /\ (aCalls[x] > 0 => x < aAt)
        BY <1>2, <4>2 DEF ClaudeChatKept
      <4>. QED
        BY <1>2, <4>1, <4>3
    <3>. QED
      BY <3>1, <3>2
  <2>7. \A i \in aSeen'.indexes : i < aAt + 1
    <3>1. \A i \in aSeen.indexes : i \in Nat /\ i < aAt
      BY <1>2, ClaudeChatTyped DEF ClaudeChatKept
    <3>. QED
      BY <1>2, <2>4, <3>1
  <2>8. ClaudeChatKept'
    BY <1>1, <1>5, <2>6, <2>7 DEF ClaudeChatKept
  <2>9. ClaudeChat!TypeOK'
    BY <1>1, <1>3, <1>4, <2>4 DEF ClaudeChatInv, ClaudeChat!TypeOK
  <2>. QED
    BY <1>1, <1>2, <2>4, <2>5, <2>8, <2>9 DEF ClaudeChatInv
<1>7. CASE ~(aKept[aAt] > 0)
  <2>1. aSeen' = aSeen /\ aKept' = aKept
    BY <1>1, <1>7
  <2>2. \A x \in Numbered : aCalls[x] > 0 => x < aAt + 1
    <3>1. \A x \in Numbered : x \in Nat /\ (aCalls[x] > 0 => x < aAt)
      BY <1>2, <1>5, <2>1, NumberedCalls DEF ClaudeChatKept
    <3>. QED
      BY <1>2, <3>1
  <2>3. \A i \in aSeen.indexes : i < aAt + 1
    <3>1. \A i \in aSeen.indexes : i \in Nat /\ i < aAt
      BY <1>2, ClaudeChatTyped DEF ClaudeChatKept
    <3>. QED
      BY <1>2, <3>1
  <2>4. ClaudeChatKept'
    BY <1>1, <1>2, <1>5, <2>1, <2>2, <2>3 DEF ClaudeChatKept
  <2>5. ClaudeChat!TypeOK'
    BY <1>1, <1>3, <1>4, <2>1 DEF ClaudeChatInv, ClaudeChat!TypeOK
  <2>. QED
    BY <1>1, <1>2, <2>1, <2>4, <2>5 DEF ClaudeChatInv
<1>. QED
  BY <1>6, <1>7

LEMMA ClaudeChatMessageDelta ==
  ASSUME ClaudeChatInv, NEW s \in ClaudeChat!Stop, ClaudeChat!MessageDelta(s)
  PROVE  ClaudeChatInv'
<1>1. /\ aSource = "begun" /\ aBlock = "none" /\ aSource' = "told" /\ aReason' = s
      /\ aSeen' = ClaudeChat!ReadFinish(aSeen, ClaudeChat!ReasonOf(s))
      /\ aAt' = aAt /\ aBlock' = aBlock /\ aPieces' = aPieces /\ aKept' = aKept
      /\ aTexts' = aTexts /\ aCalls' = aCalls
  BY DEF ClaudeChat!MessageDelta
<1>2. ClaudeChat!ReasonOf(s) \in ClaudeChat!Reason /\ s \notin {"none", "error"}
  BY DEF ClaudeChat!ReasonOf, ClaudeChat!Stop, ClaudeChat!Reason
<1>3. /\ aSeen' \in ClaudeChat!Reader /\ aSeen'.texts = aSeen.texts /\ aSeen'.calls = aSeen.calls
      /\ aSeen'.indexes = aSeen.indexes /\ aSeen'.finish = ClaudeChat!ReasonOf(s)
      /\ aSeen'.broken <=> aSeen.broken
  BY <1>1, <1>2, ClaudeChatTyped, ClaudeChatReadFinish
<1>4. aReason = "none" /\ ClaudeChatKept
  BY <1>1 DEF ClaudeChatInv
<1>5. ClaudeChatKept'
  BY <1>1, <1>3, <1>4 DEF ClaudeChatKept
<1>6. ClaudeChat!TypeOK'
  BY <1>1, <1>3 DEF ClaudeChatInv, ClaudeChat!TypeOK
<1>7. ClaudeChat!ReasonOf(aReason)' = ClaudeChat!ReasonOf(s)
  BY <1>1 DEF ClaudeChat!ReasonOf
<1>. QED
  BY <1>1, <1>2, <1>3, <1>5, <1>6, <1>7 DEF ClaudeChatInv

LEMMA ClaudeChatMessageStop == ASSUME ClaudeChatInv, ClaudeChat!MessageStop PROVE ClaudeChatInv'
<1>1. /\ aSource = "told" /\ aSource' = "over"
      /\ aSeen' = aSeen /\ aAt' = aAt /\ aBlock' = aBlock /\ aPieces' = aPieces /\ aKept' = aKept
      /\ aTexts' = aTexts /\ aCalls' = aCalls /\ aReason' = aReason
  BY DEF ClaudeChat!MessageStop
<1>2. ClaudeChat!TypeOK' /\ ClaudeChatKept'
  BY <1>1 DEF ClaudeChatInv, ClaudeChat!TypeOK, ClaudeChatKept
<1>3. ClaudeChat!ReasonOf(aReason)' = ClaudeChat!ReasonOf(aReason)
  BY <1>1 DEF ClaudeChat!ReasonOf
<1>. QED
  BY <1>1, <1>2, <1>3 DEF ClaudeChatInv

LEMMA ClaudeChatError == ASSUME ClaudeChatInv, ClaudeChat!Error PROVE ClaudeChatInv'
<1>1. /\ aSource \in {"none", "begun"} /\ aSource' = "over" /\ aReason' = "error"
      /\ aBlock' = "none" /\ aSeen' = aSeen /\ aAt' = aAt /\ aPieces' = aPieces
      /\ aKept' = aKept /\ aTexts' = aTexts /\ aCalls' = aCalls
  BY DEF ClaudeChat!Error
<1>2. ClaudeChat!TypeOK' /\ ClaudeChatKept'
  BY <1>1 DEF ClaudeChatInv, ClaudeChat!TypeOK, ClaudeChatKept
<1>. QED
  BY <1>1, <1>2 DEF ClaudeChatInv

LEMMA ClaudeChatNext == ASSUME ClaudeChatInv, ClaudeChat!Next PROVE ClaudeChatInv'
  BY ClaudeChatMessageStart, ClaudeChatBlockStart, ClaudeChatBlockDelta, ClaudeChatBlockStop,
     ClaudeChatMessageDelta, ClaudeChatMessageStop, ClaudeChatError
     DEF ClaudeChat!Next

LEMMA ClaudeChatInit == ASSUME ClaudeChat!Init PROVE ClaudeChatInv
<1>1. ClaudeChat!NewReader \in ClaudeChat!Reader
  BY DEF ClaudeChat!NewReader, ClaudeChat!Reader, ClaudeChat!NoPieces, ClaudeChat!NoCalls
<1>2. ClaudeChat!NoPieces \in [ClaudeChat!Piece -> Nat] /\ ClaudeChat!NoCalls \in [Numbered -> Nat]
      /\ \A x \in Numbered : ClaudeChat!NoCalls[x] = 0
  BY DEF ClaudeChat!NoPieces, ClaudeChat!NoCalls
<1>3. /\ ClaudeChat!NewReader.texts = ClaudeChat!NoPieces /\ ~ClaudeChat!NewReader.broken
      /\ ClaudeChat!NewReader.calls = ClaudeChat!NoCalls /\ ClaudeChat!NewReader.indexes = {}
      /\ ClaudeChat!NewReader.finish = "none"
  BY DEF ClaudeChat!NewReader
<1>4. aAt \in 0..Chunks /\ aPieces \in 0..Pieces
  BY NumberedCalls DEF ClaudeChat!Init
<1>5. ClaudeChat!TypeOK
  BY <1>1, <1>2, <1>4 DEF ClaudeChat!Init, ClaudeChat!TypeOK
<1>6. ClaudeChatKept
  BY <1>2, <1>3 DEF ClaudeChat!Init, ClaudeChatKept
<1>. QED
  BY <1>3, <1>5, <1>6 DEF ClaudeChat!Init, ClaudeChatInv

LEMMA ClaudeChatWellFormed ==
  ASSUME ClaudeChatInv
  PROVE  ClaudeChat!TypeOK /\ ClaudeChat!AnswerWellFormed
<1>1. ASSUME aSource = "over", aReason # "error" PROVE aSeen.calls = aCalls
  <2>1. aBlock = "none"
    BY <1>1 DEF ClaudeChatInv
  <2>2. \A x \in Numbered : aSeen.calls[x] = aCalls[x]
    BY <1>1, <2>1 DEF ClaudeChatInv, ClaudeChatKept
  <2>. QED
    BY <2>2, ClaudeChatTyped
<1>. QED
  BY <1>1 DEF ClaudeChatInv, ClaudeChat!AnswerWellFormed, ClaudeChat!Whole

-----------------------------------------------------------------------------
(* ClaudeToGemini: Claude's answers for a client of Gemini's API. *)

\* The instances have the operators of the library under names of their own.
LEMMA ClaudeGeminiSets ==
  /\ \A S : ClaudeGemini!IsFiniteSet(S) <=> IsFiniteSet(S)
  /\ \A S : ClaudeGemini!Cardinality(S) = Cardinality(S)
<1>1. \A S : ClaudeGemini!IsFiniteSet(S) <=> IsFiniteSet(S)
  BY DEF ClaudeGemini!IsFiniteSet, IsFiniteSet
<1>2. \A S : ClaudeGemini!Cardinality(S) = Cardinality(S)
  BY DEF ClaudeGemini!Cardinality, Cardinality
<1>. QED
  BY <1>1, <1>2

\* What the client has seen after a chunk, field by field.
LEMMA ClaudeGeminiRead ==
  ASSUME NEW c \in ClaudeGemini!Reader, NEW k \in ClaudeGemini!Piece
  PROVE  /\ ClaudeGemini!Read(c, k) \in ClaudeGemini!Reader
         /\ ClaudeGemini!Read(c, k).texts = [c.texts EXCEPT ![k] = @ + 1]
         /\ ClaudeGemini!Read(c, k).calls = c.calls
         /\ ClaudeGemini!Read(c, k).indexes = c.indexes
         /\ ClaudeGemini!Read(c, k).finish = c.finish
         /\ ClaudeGemini!Read(c, k).broken <=> c.broken \/ c.finish # "none"
<1>1. [c.texts EXCEPT ![k] = @ + 1] \in [ClaudeGemini!Piece -> Nat]
  BY DEF ClaudeGemini!Reader
<1>2. PICK t \in [ClaudeGemini!Piece -> Nat] : t = [c.texts EXCEPT ![k] = @ + 1]
  BY <1>1
<1>3. PICK e \in BOOLEAN : e <=> c.broken \/ c.finish # "none"
  OBVIOUS
<1>4. ClaudeGemini!Read(c, k) = [c EXCEPT !.texts = t, !.broken = e]
  BY <1>2, <1>3, Zenon DEF ClaudeGemini!Read
<1>. QED
  BY <1>2, <1>3, <1>4 DEF ClaudeGemini!Reader

LEMMA ClaudeGeminiReadFinish ==
  ASSUME NEW c \in ClaudeGemini!Reader, NEW reason \in ClaudeGemini!Reason \cup {"none", ClaudeGemini!Unknown}
  PROVE  /\ ClaudeGemini!ReadFinish(c, reason) \in ClaudeGemini!Reader
         /\ ClaudeGemini!ReadFinish(c, reason).texts = c.texts
         /\ ClaudeGemini!ReadFinish(c, reason).calls = c.calls
         /\ ClaudeGemini!ReadFinish(c, reason).indexes = c.indexes
         /\ ClaudeGemini!ReadFinish(c, reason).finish = reason
         /\ ClaudeGemini!ReadFinish(c, reason).broken <=> c.broken
  BY DEF ClaudeGemini!ReadFinish, ClaudeGemini!Reader

LEMMA ClaudeGeminiReadCallAt ==
  ASSUME NEW c \in ClaudeGemini!Reader, NEW i \in Nat, NEW x \in Numbered, NEW args \in Nat
  PROVE  /\ ClaudeGemini!ReadCallAt(c, i, x, args) \in ClaudeGemini!Reader
         /\ ClaudeGemini!ReadCallAt(c, i, x, args).texts = c.texts
         /\ ClaudeGemini!ReadCallAt(c, i, x, args).calls = [c.calls EXCEPT ![x] = 1 + args]
         /\ ClaudeGemini!ReadCallAt(c, i, x, args).indexes = c.indexes \cup {i}
         /\ ClaudeGemini!ReadCallAt(c, i, x, args).finish = c.finish
         /\ ClaudeGemini!ReadCallAt(c, i, x, args).broken
              <=> c.broken \/ c.finish # "none" \/ c.calls[x] > 0 \/ i \in c.indexes
<1>1. [c.calls EXCEPT ![x] = 1 + args] \in [Numbered -> Nat]
  BY DEF ClaudeGemini!Reader
<1>2. PICK s \in [Numbered -> Nat] : s = [c.calls EXCEPT ![x] = 1 + args]
  BY <1>1
<1>3. PICK e \in BOOLEAN :
        e <=> c.broken \/ c.finish # "none" \/ c.calls[x] > 0 \/ i \in c.indexes
  OBVIOUS
<1>4. PICK u \in SUBSET Nat : u = c.indexes \cup {i}
  BY DEF ClaudeGemini!Reader
<1>5. ClaudeGemini!ReadCallAt(c, i, x, args) = [c EXCEPT !.calls = s, !.indexes = u, !.broken = e]
  BY <1>2, <1>3, <1>4, Zenon DEF ClaudeGemini!ReadCallAt
<1>. QED
  BY <1>2, <1>3, <1>4, <1>5 DEF ClaudeGemini!Reader

\* The call that is kept is that of the block at hand, and calls have the indexes of their order.
ClaudeGeminiKept ==
  /\ \A x \in Numbered : aSeen.calls[x] = IF x \in aNames THEN 0 ELSE aCalls[x]
  /\ \A x \in Numbered : aKept[x] = IF x \in aNames THEN aCalls[x] - 1 ELSE 0
  /\ \A x \in aNames : aCalls[x] > 0 /\ x = aAt /\ (aBlock = "tool_use" \/ aReason = "error")
  /\ \A x \in Numbered : aCalls[x] > 0 => x < aAt \/ x \in aNames
  /\ aBlock = "tool_use" => aAt \in aNames

ClaudeGeminiInv ==
  /\ ClaudeGemini!TypeOK
  /\ aSeen.texts = aTexts
  /\ ClaudeGeminiKept
  /\ \E k \in Nat : aSeen.indexes = 0..(k - 1)
  /\ "after" \notin aExcuses => ~aSeen.broken
  /\ "after" \notin aExcuses /\ aBlock # "none" => aSeen.finish = "none"
  /\ aBlock # "none" => aSource = "begun" /\ aAt < Chunks
  /\ aSource \in {"none", "begun"} => aReason = "none"
  /\ aSource \in {"none", "begun"} /\ aCalls = ClaudeGemini!NoCalls => aSeen.finish = "none"
  /\ aSource \in {"told", "over"} /\ aReason # "error" => aSeen.finish = "stop"
  /\ aReason = "max_tokens" => "length" \in aExcuses
  /\ aReason = "error" => aSource = "over"

LEMMA ClaudeGeminiTyped ==
  ASSUME ClaudeGeminiInv
  PROVE  /\ aSeen \in ClaudeGemini!Reader /\ aSource \in {"none", "begun", "told", "over"}
         /\ aAt \in 0..Chunks /\ aAt \in Nat /\ (aAt < Chunks => aAt \in Numbered)
         /\ aBlock \in {"text", "thinking", "tool_use", "none"} /\ aPieces \in 0..Pieces
         /\ aNames \subseteq Numbered
         /\ aKept \in [Numbered -> Nat] /\ aTexts \in [ClaudeGemini!Piece -> Nat]
         /\ aCalls \in [Numbered -> Nat]
         /\ aReason \in {"end_turn", "tool_use", "max_tokens", "none", "error"}
         /\ aExcuses \subseteq {"after", "length"}
         /\ aSeen.calls \in [Numbered -> Nat] /\ aSeen.indexes \in SUBSET Nat
<1>1. ClaudeGemini!TypeOK
  BY DEF ClaudeGeminiInv
<1>2. aAt \in 0..Chunks /\ aAt \in Nat
  BY <1>1, NumberedCalls DEF ClaudeGemini!TypeOK
<1>3. aAt < Chunks => aAt \in 0..(Chunks - 1)
  BY <1>2, NumberedCalls
<1>4. aSeen.calls \in [Numbered -> Nat] /\ aSeen.indexes \in SUBSET Nat
  BY <1>1 DEF ClaudeGemini!TypeOK, ClaudeGemini!Reader
<1>. QED
  BY <1>1, <1>2, <1>3, <1>4, NumberedCalls
     DEF ClaudeGemini!TypeOK, ClaudeGemini!Block, ClaudeGemini!Stop

LEMMA ClaudeGeminiMessageStart ==
  ASSUME ClaudeGeminiInv, ClaudeGemini!MessageStart
  PROVE  ClaudeGeminiInv'
<1>1. /\ aSource = "none" /\ aSource' = "begun"
      /\ aSeen' = aSeen /\ aAt' = aAt /\ aBlock' = aBlock /\ aPieces' = aPieces
      /\ aNames' = aNames /\ aKept' = aKept /\ aTexts' = aTexts /\ aCalls' = aCalls
      /\ aReason' = aReason /\ aExcuses' = aExcuses
  BY DEF ClaudeGemini!MessageStart
<1>2. ClaudeGemini!TypeOK' /\ ClaudeGeminiKept'
  BY <1>1 DEF ClaudeGeminiInv, ClaudeGemini!TypeOK, ClaudeGeminiKept
<1>. QED
  BY <1>1, <1>2 DEF ClaudeGeminiInv

LEMMA ClaudeGeminiBlockStart ==
  ASSUME ClaudeGeminiInv, NEW k \in ClaudeGemini!Block, ClaudeGemini!BlockStart(k)
  PROVE  ClaudeGeminiInv'
<1>1. /\ aSource = "begun" /\ aBlock = "none" /\ aAt < Chunks /\ aBlock' = k /\ aPieces' = 0
      /\ aSeen' = aSeen /\ aSource' = aSource /\ aAt' = aAt /\ aKept' = aKept /\ aTexts' = aTexts
      /\ aReason' = aReason
      /\ IF k = "tool_use"
         THEN aNames' = aNames \cup {aAt} /\ aCalls' = [aCalls EXCEPT ![aAt] = 1]
         ELSE aNames' = aNames /\ aCalls' = aCalls
      /\ aExcuses' = IF aCalls # ClaudeGemini!NoCalls THEN aExcuses \cup {"after"} ELSE aExcuses
  BY DEF ClaudeGemini!BlockStart
<1>2. aReason = "none" /\ ClaudeGeminiKept /\ aAt \in Numbered /\ aAt \in Nat
  BY <1>1, ClaudeGeminiTyped DEF ClaudeGeminiInv
<1>3. aNames' \subseteq Numbered /\ aCalls' \in [Numbered -> Nat]
  BY <1>1, <1>2, ClaudeGeminiTyped
<1>4. aPieces' \in 0..Pieces /\ aExcuses' \subseteq {"after", "length"} /\ k \in {"text", "thinking", "tool_use"}
  BY <1>1, NumberedCalls, ClaudeGeminiTyped DEF ClaudeGemini!Block
<1>5. ClaudeGemini!TypeOK'
  BY <1>1, <1>3, <1>4 DEF ClaudeGeminiInv, ClaudeGemini!TypeOK, ClaudeGemini!Block
<1>6. aNames = {}
  BY <1>1, <1>2 DEF ClaudeGeminiKept
<1>7. ASSUME NEW x \in Numbered
      PROVE  aKept[x] = 0 /\ (aCalls[x] > 0 => x < aAt) /\ aSeen.calls[x] = aCalls[x]
  BY <1>2, <1>6 DEF ClaudeGeminiKept
<1>8. ClaudeGeminiKept'
  <2>1. CASE k # "tool_use"
    BY <1>1, <1>2, <1>6, <2>1 DEF ClaudeGeminiKept
  <2>2. CASE k = "tool_use"
    <3>1. /\ aNames' = {aAt} /\ aCalls'[aAt] = 1
          /\ \A x \in Numbered : x # aAt => aCalls'[x] = aCalls[x]
      BY <1>1, <1>2, <1>6, <2>2, ClaudeGeminiTyped
    <3>2. aSeen.calls[aAt] = 0
      <4>1. aCalls[aAt] \in Nat /\ aSeen.calls[aAt] = aCalls[aAt] /\ ~(aAt < aAt)
        BY <1>2, <1>7, ClaudeGeminiTyped
      <4>2. ~(aCalls[aAt] > 0)
        BY <1>2, <1>7, <4>1
      <4>. QED
        BY <4>1, <4>2
    <3>3. ASSUME NEW x \in Numbered
          PROVE  /\ aSeen'.calls[x] = IF x \in aNames' THEN 0 ELSE aCalls'[x]
                 /\ aKept'[x] = IF x \in aNames' THEN aCalls'[x] - 1 ELSE 0
                 /\ aCalls'[x] > 0 => x < aAt' \/ x \in aNames'
      <4>1. CASE x = aAt
        BY <1>1, <1>7, <3>1, <3>2, <4>1
      <4>2. CASE x # aAt
        BY <1>1, <1>7, <3>1, <4>2
      <4>. QED
        BY <4>1, <4>2
    <3>. QED
      BY <1>1, <2>2, <3>1, <3>3 DEF ClaudeGeminiKept
  <2>. QED
    BY <2>1, <2>2
<1>9. "after" \notin aExcuses' =>
        "after" \notin aExcuses /\ aCalls = ClaudeGemini!NoCalls /\ aSeen.finish = "none"
  BY <1>1 DEF ClaudeGeminiInv
<1>10. aCalls' = ClaudeGemini!NoCalls => aCalls = ClaudeGemini!NoCalls
  <2>1. CASE k = "tool_use"
    <3>1. aCalls'[aAt] = 1 /\ ClaudeGemini!NoCalls[aAt] = 0
      BY <1>1, <1>2, <2>1, ClaudeGeminiTyped DEF ClaudeGemini!NoCalls
    <3>. QED
      BY <3>1
  <2>. QED
    BY <1>1, <2>1
<1>11. ClaudeGemini!NoCalls' = ClaudeGemini!NoCalls
  BY DEF ClaudeGemini!NoCalls
<1>. QED
  BY <1>1, <1>2, <1>4, <1>5, <1>8, <1>9, <1>10, <1>11 DEF ClaudeGeminiInv

LEMMA ClaudeGeminiBlockDelta ==
  ASSUME ClaudeGeminiInv, ClaudeGemini!BlockDelta
  PROVE  ClaudeGeminiInv'
<1>1. /\ aBlock # "none" /\ aPieces < Pieces /\ aPieces' = aPieces + 1
      /\ aSource' = aSource /\ aAt' = aAt /\ aBlock' = aBlock /\ aNames' = aNames
      /\ aReason' = aReason /\ aExcuses' = aExcuses
      /\ IF aBlock = "tool_use"
         THEN /\ aKept' = [aKept EXCEPT ![aAt] = @ + 1]
              /\ aCalls' = [aCalls EXCEPT ![aAt] = @ + 1]
              /\ aSeen' = aSeen /\ aTexts' = aTexts
         ELSE /\ aSeen' = ClaudeGemini!Read(aSeen, ClaudeGemini!PieceOf(aBlock))
              /\ aTexts' = [aTexts EXCEPT ![ClaudeGemini!PieceOf(aBlock)] = @ + 1]
              /\ aKept' = aKept /\ aCalls' = aCalls
  BY DEF ClaudeGemini!BlockDelta
<1>2. /\ aSource = "begun" /\ aAt \in Numbered /\ ClaudeGeminiKept /\ aReason = "none"
      /\ "after" \notin aExcuses => ~aSeen.broken /\ aSeen.finish = "none"
  BY <1>1, ClaudeGeminiTyped DEF ClaudeGeminiInv
<1>3. aPieces' \in 0..Pieces
  BY <1>1, NumberedCalls, ClaudeGeminiTyped
<1>0. ClaudeGemini!NoCalls' = ClaudeGemini!NoCalls
  BY DEF ClaudeGemini!NoCalls
<1>4. CASE aBlock = "tool_use"
  <2>1. aKept' \in [Numbered -> Nat] /\ aCalls' \in [Numbered -> Nat]
    BY <1>1, <1>2, <1>4, ClaudeGeminiTyped
  <2>2. ClaudeGemini!TypeOK'
    BY <1>1, <1>3, <1>4, <2>1 DEF ClaudeGeminiInv, ClaudeGemini!TypeOK
  <2>3. /\ aKept'[aAt] = aKept[aAt] + 1 /\ aCalls'[aAt] = aCalls[aAt] + 1
        /\ \A x \in Numbered : x # aAt => aKept'[x] = aKept[x] /\ aCalls'[x] = aCalls[x]
    BY <1>1, <1>2, <1>4, ClaudeGeminiTyped
  <2>4. /\ aCalls[aAt] \in Nat /\ aCalls[aAt] > 0 /\ aKept[aAt] = aCalls[aAt] - 1
        /\ aAt \in aNames /\ aSeen.calls[aAt] = 0
    BY <1>2, <1>4, ClaudeGeminiTyped DEF ClaudeGeminiKept
  <2>5. aKept'[aAt] = aCalls'[aAt] - 1 /\ aCalls'[aAt] > 0
    BY <2>3, <2>4
  <2>6. ASSUME NEW x \in Numbered
        PROVE  /\ aSeen'.calls[x] = IF x \in aNames' THEN 0 ELSE aCalls'[x]
               /\ aKept'[x] = IF x \in aNames' THEN aCalls'[x] - 1 ELSE 0
               /\ aCalls'[x] > 0 => x < aAt' \/ x \in aNames'
    <3>1. CASE x = aAt
      BY <1>1, <1>4, <2>4, <2>5, <3>1
    <3>2. CASE x # aAt
      BY <1>1, <1>2, <1>4, <2>3, <3>2 DEF ClaudeGeminiKept
    <3>. QED
      BY <3>1, <3>2
  <2>7. \A x \in aNames' : aCalls'[x] > 0 /\ x = aAt' /\ aBlock' = "tool_use"
    BY <1>1, <1>2, <1>4, <2>5 DEF ClaudeGeminiKept
  <2>8. ClaudeGeminiKept'
    BY <1>1, <2>4, <2>6, <2>7 DEF ClaudeGeminiKept
  <2>9. aCalls' # ClaudeGemini!NoCalls
    BY <1>2, <2>5 DEF ClaudeGemini!NoCalls
  <2>. QED
    BY <1>0, <1>1, <1>2, <1>4, <2>2, <2>8, <2>9 DEF ClaudeGeminiInv
<1>5. CASE aBlock # "tool_use"
  <2>. PICK k \in ClaudeGemini!Piece : k = ClaudeGemini!PieceOf(aBlock)
    BY DEF ClaudeGemini!PieceOf, ClaudeGemini!Piece
  <2>6. aSeen' = ClaudeGemini!Read(aSeen, k)
    BY <1>1, <1>5
  <2>1. /\ aSeen' \in ClaudeGemini!Reader /\ aSeen'.texts = [aSeen.texts EXCEPT ![k] = @ + 1]
        /\ aSeen'.calls = aSeen.calls /\ aSeen'.indexes = aSeen.indexes
        /\ aSeen'.finish = aSeen.finish
        /\ aSeen'.broken <=> aSeen.broken \/ aSeen.finish # "none"
    BY <2>6, ClaudeGeminiTyped, ClaudeGeminiRead
  <2>7. "after" \notin aExcuses => ~aSeen'.broken
    BY <1>2, <2>1
  <2>2. aTexts' = [aTexts EXCEPT ![k] = @ + 1] /\ aKept' = aKept /\ aCalls' = aCalls
    BY <1>1, <1>5
  <2>3. aTexts' \in [ClaudeGemini!Piece -> Nat]
    BY <2>2, ClaudeGeminiTyped
  <2>4. ClaudeGemini!TypeOK'
    BY <1>1, <1>3, <2>1, <2>2, <2>3 DEF ClaudeGeminiInv, ClaudeGemini!TypeOK
  <2>5. ClaudeGeminiKept'
    BY <1>1, <1>2, <2>1, <2>2 DEF ClaudeGeminiKept
  <2>. QED
    BY <1>0, <1>1, <1>2, <2>1, <2>2, <2>4, <2>5, <2>7 DEF ClaudeGeminiInv
<1>. QED
  BY <1>4, <1>5

LEMMA ClaudeGeminiBlockStop ==
  ASSUME ClaudeGeminiInv, ClaudeGemini!BlockStop
  PROVE  ClaudeGeminiInv'
<1>1. /\ aBlock # "none" /\ aBlock' = "none" /\ aAt' = aAt + 1
      /\ aSource' = aSource /\ aPieces' = aPieces /\ aTexts' = aTexts /\ aCalls' = aCalls
      /\ aReason' = aReason /\ aExcuses' = aExcuses
      /\ IF aAt \in aNames \/ aKept[aAt] > 0
         THEN /\ aSeen' = ClaudeGemini!ReadFinish(
                            ClaudeGemini!ReadCall(aSeen, aAt, aKept[aAt]), "stop")
              /\ aNames' = aNames \ {aAt} /\ aKept' = [aKept EXCEPT ![aAt] = 0]
         ELSE aSeen' = aSeen /\ aNames' = aNames /\ aKept' = aKept
  BY DEF ClaudeGemini!BlockStop
<1>2. /\ aSource = "begun" /\ aAt < Chunks /\ aAt \in Numbered /\ aAt \in Nat
      /\ ClaudeGeminiKept /\ aReason = "none"
      /\ "after" \notin aExcuses => ~aSeen.broken /\ aSeen.finish = "none"
  BY <1>1, ClaudeGeminiTyped DEF ClaudeGeminiInv
<1>3. aAt' \in 0..Chunks
  BY <1>1, <1>2, NumberedCalls
<1>4. aKept' \in [Numbered -> Nat] /\ aNames' \subseteq Numbered
  BY <1>1, <1>2, ClaudeGeminiTyped
<1>5. aNames' = {} /\ \A x \in Numbered : aKept'[x] = 0
  <2>1. aNames' = {}
    BY <1>1, <1>2 DEF ClaudeGeminiKept
  <2>2. ASSUME NEW x \in Numbered PROVE aKept'[x] = 0
    <3>1. CASE x = aAt
      <4>1. aKept[aAt] \in Nat
        BY <1>2, ClaudeGeminiTyped
      <4>. QED
        BY <1>1, <1>2, <3>1, <4>1, ClaudeGeminiTyped
    <3>2. CASE x # aAt
      BY <1>1, <1>2, <3>2, ClaudeGeminiTyped DEF ClaudeGeminiKept
    <3>. QED
      BY <3>1, <3>2
  <2>. QED
    BY <2>1, <2>2
<1>6. CASE aAt \in aNames
  <2>1. aKept[aAt] \in Nat /\ aCalls[aAt] \in Nat /\ aKept[aAt] = aCalls[aAt] - 1 /\ aCalls[aAt] > 0
        /\ aSeen.calls[aAt] = 0
    BY <1>2, <1>6, ClaudeGeminiTyped DEF ClaudeGeminiKept
  <2>. PICK m \in Nat : m = aKept[aAt]
    BY <2>1
  <2>. PICK k \in Nat : aSeen.indexes = 0..(k - 1)
    BY DEF ClaudeGeminiInv
  <2>2. Cardinality(aSeen.indexes) = k /\ k \notin aSeen.indexes
        /\ aSeen.indexes \cup {k} = 0..((k + 1) - 1)
    <3>1. 0 \in Int /\ k - 1 \in Int
      OBVIOUS
    <3>2. Cardinality(0..(k - 1)) = IF 0 > k - 1 THEN 0 ELSE (k - 1) - 0 + 1
      BY <3>1, FS_Interval
    <3>3. Cardinality(0..(k - 1)) = k
      BY <3>2
    <3>. QED
      BY <3>3
  <2>. PICK d \in ClaudeGemini!Reader : d = ClaudeGemini!ReadCallAt(aSeen, k, aAt, m)
    BY <1>2, ClaudeGeminiTyped, ClaudeGeminiReadCallAt
  <2>3. /\ d.texts = aSeen.texts /\ d.calls = [aSeen.calls EXCEPT ![aAt] = 1 + m]
        /\ d.indexes = aSeen.indexes \cup {k}
        /\ d.broken <=> aSeen.broken \/ aSeen.finish # "none" \/ aSeen.calls[aAt] > 0
                        \/ k \in aSeen.indexes
    BY <1>2, ClaudeGeminiTyped, ClaudeGeminiReadCallAt
  <2>4. aSeen' = ClaudeGemini!ReadFinish(d, "stop")
    <3>1. aSeen' = ClaudeGemini!ReadFinish(
                     ClaudeGemini!ReadCall(aSeen, aAt, aKept[aAt]), "stop")
      BY <1>1, <1>6
    <3>2. ClaudeGemini!ReadCall(aSeen, aAt, m) = ClaudeGemini!ReadCallAt(aSeen, k, aAt, m)
      BY <2>2, ClaudeGeminiSets, Zenon DEF ClaudeGemini!ReadCall
    <3>. QED
      BY <3>1, <3>2, Zenon
  <2>5. "stop" \in ClaudeGemini!Reason \cup {"none", ClaudeGemini!Unknown}
    BY DEF ClaudeGemini!Reason
  <2>6. /\ aSeen' \in ClaudeGemini!Reader /\ aSeen'.texts = d.texts /\ aSeen'.calls = d.calls
        /\ aSeen'.indexes = d.indexes /\ aSeen'.finish = "stop" /\ (aSeen'.broken <=> d.broken)
    BY <2>4, <2>5, ClaudeGeminiReadFinish
  <2>7. "after" \notin aExcuses => ~aSeen'.broken
    BY <1>2, <2>1, <2>2, <2>3, <2>6
  <2>8. ASSUME NEW x \in Numbered
        PROVE  aSeen'.calls[x] = aCalls[x] /\ (aCalls[x] > 0 => x < aAt + 1)
    <3>1. CASE x = aAt
      <4>1. aSeen'.calls[aAt] = 1 + m
        BY <1>2, <2>3, <2>6, ClaudeGeminiTyped
      <4>2. 1 + m = aCalls[aAt]
        BY <2>1
      <4>3. aAt < aAt + 1
        BY <1>2
      <4>. QED
        BY <3>1, <4>1, <4>2, <4>3
    <3>2. CASE x # aAt
      <4>1. aSeen'.calls[x] = aSeen.calls[x] /\ x \in Nat
        BY <2>3, <2>6, <3>2, ClaudeGeminiTyped, NumberedCalls
      <4>2. x \notin aNames
        BY <1>2, <3>2 DEF ClaudeGeminiKept
      <4>3. aSeen.calls[x] = aCalls[x] /\ (aCalls[x] > 0 => x < aAt)
        BY <1>2, <4>2 DEF ClaudeGeminiKept
      <4>. QED
        BY <1>2, <4>1, <4>3
    <3>. QED
      BY <3>1, <3>2
  <2>9. ClaudeGeminiKept'
    BY <1>1, <1>5, <2>8 DEF ClaudeGeminiKept
  <2>10. ClaudeGemini!TypeOK'
    BY <1>1, <1>3, <1>4, <2>6 DEF ClaudeGeminiInv, ClaudeGemini!TypeOK
  <2>11. aCalls # ClaudeGemini!NoCalls /\ ClaudeGemini!NoCalls' = ClaudeGemini!NoCalls
    BY <1>2, <2>1 DEF ClaudeGemini!NoCalls
  <2>12. \E n \in Nat : aSeen'.indexes = 0..(n - 1)
    <3>1. aSeen'.indexes = 0..((k + 1) - 1) /\ k + 1 \in Nat
      BY <2>2, <2>3, <2>6
    <3>. QED
      BY <3>1
  <2>. QED
    BY <1>1, <1>2, <2>3, <2>6, <2>7, <2>9, <2>10, <2>11, <2>12 DEF ClaudeGeminiInv
<1>7. CASE aAt \notin aNames
  <2>0. ~(aKept[aAt] > 0)
    BY <1>2, <1>7 DEF ClaudeGeminiKept
  <2>1. aSeen' = aSeen /\ aNames' = aNames /\ aKept' = aKept
    BY <1>1, <1>7, <2>0
  <2>2. \A x \in Numbered : aCalls[x] > 0 => x < aAt + 1
    <3>1. \A x \in Numbered : x \in Nat /\ (aCalls[x] > 0 => x < aAt)
      BY <1>2, <1>5, <2>1, NumberedCalls DEF ClaudeGeminiKept
    <3>. QED
      BY <1>2, <3>1
  <2>3. ClaudeGeminiKept'
    BY <1>1, <1>2, <1>5, <2>1, <2>2 DEF ClaudeGeminiKept
  <2>4. ClaudeGemini!TypeOK'
    BY <1>1, <1>3, <1>4, <2>1 DEF ClaudeGeminiInv, ClaudeGemini!TypeOK
  <2>5. ClaudeGemini!NoCalls' = ClaudeGemini!NoCalls
    BY DEF ClaudeGemini!NoCalls
  <2>. QED
    BY <1>1, <1>2, <2>1, <2>3, <2>4, <2>5 DEF ClaudeGeminiInv
<1>. QED
  BY <1>6, <1>7

LEMMA ClaudeGeminiMessageDelta ==
  ASSUME ClaudeGeminiInv, NEW s \in ClaudeGemini!Stop, ClaudeGemini!MessageDelta(s)
  PROVE  ClaudeGeminiInv'
<1>1. /\ aSource = "begun" /\ aBlock = "none" /\ aSource' = "told" /\ aReason' = s
      /\ aSeen' = ClaudeGemini!ReadFinish(aSeen, "stop")
      /\ aExcuses' = IF s = "max_tokens" THEN aExcuses \cup {"length"} ELSE aExcuses
      /\ aAt' = aAt /\ aBlock' = aBlock /\ aPieces' = aPieces /\ aNames' = aNames
      /\ aKept' = aKept /\ aTexts' = aTexts /\ aCalls' = aCalls
  BY DEF ClaudeGemini!MessageDelta
<1>2. s \notin {"none", "error"} /\ "stop" \in ClaudeGemini!Reason \cup {"none", ClaudeGemini!Unknown}
  BY DEF ClaudeGemini!Stop, ClaudeGemini!Reason
<1>3. /\ aSeen' \in ClaudeGemini!Reader /\ aSeen'.texts = aSeen.texts
      /\ aSeen'.calls = aSeen.calls /\ aSeen'.indexes = aSeen.indexes /\ aSeen'.finish = "stop"
      /\ aSeen'.broken <=> aSeen.broken
  BY <1>1, <1>2, ClaudeGeminiTyped, ClaudeGeminiReadFinish
<1>4. aReason = "none" /\ ClaudeGeminiKept
  BY <1>1 DEF ClaudeGeminiInv
<1>5. ClaudeGeminiKept'
  BY <1>1, <1>3, <1>4 DEF ClaudeGeminiKept
<1>6. aExcuses' \subseteq {"after", "length"} /\ aExcuses \subseteq aExcuses'
      /\ ("after" \notin aExcuses' => "after" \notin aExcuses)
      /\ (s = "max_tokens" => "length" \in aExcuses')
  BY <1>1, ClaudeGeminiTyped
<1>7. ClaudeGemini!TypeOK'
  BY <1>1, <1>3, <1>6 DEF ClaudeGeminiInv, ClaudeGemini!TypeOK
<1>. QED
  BY <1>1, <1>2, <1>3, <1>5, <1>6, <1>7 DEF ClaudeGeminiInv

LEMMA ClaudeGeminiMessageStop ==
  ASSUME ClaudeGeminiInv, ClaudeGemini!MessageStop
  PROVE  ClaudeGeminiInv'
<1>1. /\ aSource = "told" /\ aSource' = "over"
      /\ aSeen' = aSeen /\ aAt' = aAt /\ aBlock' = aBlock /\ aPieces' = aPieces
      /\ aNames' = aNames /\ aKept' = aKept /\ aTexts' = aTexts /\ aCalls' = aCalls
      /\ aReason' = aReason /\ aExcuses' = aExcuses
  BY DEF ClaudeGemini!MessageStop
<1>2. ClaudeGemini!TypeOK' /\ ClaudeGeminiKept'
  BY <1>1 DEF ClaudeGeminiInv, ClaudeGemini!TypeOK, ClaudeGeminiKept
<1>. QED
  BY <1>1, <1>2 DEF ClaudeGeminiInv

LEMMA ClaudeGeminiError == ASSUME ClaudeGeminiInv, ClaudeGemini!Error PROVE ClaudeGeminiInv'
<1>1. /\ aSource \in {"none", "begun"} /\ aSource' = "over" /\ aReason' = "error"
      /\ aBlock' = "none" /\ aSeen' = aSeen /\ aAt' = aAt /\ aPieces' = aPieces
      /\ aNames' = aNames /\ aKept' = aKept /\ aTexts' = aTexts /\ aCalls' = aCalls
      /\ aExcuses' = aExcuses
  BY DEF ClaudeGemini!Error
<1>2. ClaudeGemini!TypeOK' /\ ClaudeGeminiKept'
  BY <1>1 DEF ClaudeGeminiInv, ClaudeGemini!TypeOK, ClaudeGeminiKept
<1>. QED
  BY <1>1, <1>2 DEF ClaudeGeminiInv

LEMMA ClaudeGeminiNext == ASSUME ClaudeGeminiInv, ClaudeGemini!Next PROVE ClaudeGeminiInv'
  BY ClaudeGeminiMessageStart, ClaudeGeminiBlockStart, ClaudeGeminiBlockDelta,
     ClaudeGeminiBlockStop, ClaudeGeminiMessageDelta, ClaudeGeminiMessageStop, ClaudeGeminiError
     DEF ClaudeGemini!Next

LEMMA ClaudeGeminiInit == ASSUME ClaudeGemini!Init PROVE ClaudeGeminiInv
<1>1. ClaudeGemini!NewReader \in ClaudeGemini!Reader
  BY DEF ClaudeGemini!NewReader, ClaudeGemini!Reader, ClaudeGemini!NoPieces, ClaudeGemini!NoCalls
<1>2. /\ ClaudeGemini!NoPieces \in [ClaudeGemini!Piece -> Nat]
      /\ ClaudeGemini!NoCalls \in [Numbered -> Nat]
      /\ \A x \in Numbered : ClaudeGemini!NoCalls[x] = 0
  BY DEF ClaudeGemini!NoPieces, ClaudeGemini!NoCalls
<1>3. /\ ClaudeGemini!NewReader.texts = ClaudeGemini!NoPieces /\ ~ClaudeGemini!NewReader.broken
      /\ ClaudeGemini!NewReader.calls = ClaudeGemini!NoCalls
      /\ ClaudeGemini!NewReader.indexes = {} /\ ClaudeGemini!NewReader.finish = "none"
  BY DEF ClaudeGemini!NewReader
<1>4. aAt \in 0..Chunks /\ aPieces \in 0..Pieces
  BY NumberedCalls DEF ClaudeGemini!Init
<1>5. ClaudeGemini!TypeOK
  BY <1>1, <1>2, <1>4 DEF ClaudeGemini!Init, ClaudeGemini!TypeOK
<1>6. ClaudeGeminiKept
  BY <1>2, <1>3 DEF ClaudeGemini!Init, ClaudeGeminiKept
<1>7. \E k \in Nat : aSeen.indexes = 0..(k - 1)
  <2>1. 0..(0 - 1) = {}
    OBVIOUS
  <2>2. aSeen.indexes = 0..(0 - 1)
    BY <1>3, <2>1 DEF ClaudeGemini!Init
  <2>. QED
    BY <2>2
<1>. QED
  BY <1>3, <1>5, <1>6, <1>7 DEF ClaudeGemini!Init, ClaudeGeminiInv

LEMMA ClaudeGeminiWellFormed ==
  ASSUME ClaudeGeminiInv
  PROVE  ClaudeGemini!TypeOK /\ ClaudeGemini!AnswerWellFormed
<1>1. ASSUME aSource = "over", aReason # "error" PROVE aSeen.calls = aCalls
  <2>1. aBlock = "none"
    BY <1>1 DEF ClaudeGeminiInv
  <2>2. \A x \in Numbered : aSeen.calls[x] = aCalls[x]
    BY <1>1, <2>1 DEF ClaudeGeminiInv, ClaudeGeminiKept
  <2>. QED
    BY <2>2, ClaudeGeminiTyped
<1>. QED
  BY <1>1 DEF ClaudeGeminiInv, ClaudeGemini!AnswerWellFormed, ClaudeGemini!Whole

-----------------------------------------------------------------------------
(* CodexToChunks: Codex's answers for clients of chat completions and of Gemini's API. *)

\* What the client has seen after a chunk, field by field.
LEMMA CodexChunksRead ==
  ASSUME NEW c \in CodexChunks!Reader, NEW k \in CodexChunks!Piece
  PROVE  /\ CodexChunks!Read(c, k) \in CodexChunks!Reader
         /\ CodexChunks!Read(c, k).texts = [c.texts EXCEPT ![k] = @ + 1]
         /\ CodexChunks!Read(c, k).calls = c.calls
         /\ CodexChunks!Read(c, k).indexes = c.indexes
         /\ CodexChunks!Read(c, k).finish = c.finish
         /\ CodexChunks!Read(c, k).broken <=> c.broken \/ c.finish # "none"
<1>1. [c.texts EXCEPT ![k] = @ + 1] \in [CodexChunks!Piece -> Nat]
  BY DEF CodexChunks!Reader
<1>2. PICK t \in [CodexChunks!Piece -> Nat] : t = [c.texts EXCEPT ![k] = @ + 1]
  BY <1>1
<1>3. PICK e \in BOOLEAN : e <=> c.broken \/ c.finish # "none"
  OBVIOUS
<1>4. CodexChunks!Read(c, k) = [c EXCEPT !.texts = t, !.broken = e]
  BY <1>2, <1>3, Zenon DEF CodexChunks!Read
<1>. QED
  BY <1>2, <1>3, <1>4 DEF CodexChunks!Reader

LEMMA CodexChunksReadFinish ==
  ASSUME NEW c \in CodexChunks!Reader, NEW reason \in CodexChunks!Reason \cup {"none", CodexChunks!Unknown}
  PROVE  /\ CodexChunks!ReadFinish(c, reason) \in CodexChunks!Reader
         /\ CodexChunks!ReadFinish(c, reason).texts = c.texts
         /\ CodexChunks!ReadFinish(c, reason).calls = c.calls
         /\ CodexChunks!ReadFinish(c, reason).indexes = c.indexes
         /\ CodexChunks!ReadFinish(c, reason).finish = reason
         /\ CodexChunks!ReadFinish(c, reason).broken <=> c.broken
  BY DEF CodexChunks!ReadFinish, CodexChunks!Reader

LEMMA CodexChunksReadCallAt ==
  ASSUME NEW c \in CodexChunks!Reader, NEW i \in Nat, NEW x \in Numbered, NEW args \in Nat
  PROVE  /\ CodexChunks!ReadCallAt(c, i, x, args) \in CodexChunks!Reader
         /\ CodexChunks!ReadCallAt(c, i, x, args).texts = c.texts
         /\ CodexChunks!ReadCallAt(c, i, x, args).calls = [c.calls EXCEPT ![x] = 1 + args]
         /\ CodexChunks!ReadCallAt(c, i, x, args).indexes = c.indexes \cup {i}
         /\ CodexChunks!ReadCallAt(c, i, x, args).finish = c.finish
         /\ CodexChunks!ReadCallAt(c, i, x, args).broken
              <=> c.broken \/ c.finish # "none" \/ c.calls[x] > 0 \/ i \in c.indexes
<1>1. [c.calls EXCEPT ![x] = 1 + args] \in [Numbered -> Nat]
  BY DEF CodexChunks!Reader
<1>2. PICK s \in [Numbered -> Nat] : s = [c.calls EXCEPT ![x] = 1 + args]
  BY <1>1
<1>3. PICK e \in BOOLEAN :
        e <=> c.broken \/ c.finish # "none" \/ c.calls[x] > 0 \/ i \in c.indexes
  OBVIOUS
<1>4. PICK u \in SUBSET Nat : u = c.indexes \cup {i}
  BY DEF CodexChunks!Reader
<1>5. CodexChunks!ReadCallAt(c, i, x, args) = [c EXCEPT !.calls = s, !.indexes = u, !.broken = e]
  BY <1>2, <1>3, <1>4, Zenon DEF CodexChunks!ReadCallAt
<1>. QED
  BY <1>2, <1>3, <1>4, <1>5 DEF CodexChunks!Reader

\* The first calls are done, each of them once; so the chat has them, and Gemini's client has
\* none of them before the end.
CodexChunksChat ==
  /\ aNames = 0..(aIndex - 1)
  /\ \A x \in Numbered : aCalls[x] = IF x \in aNames THEN 1 ELSE 0
  /\ ~aSeen.broken /\ aSeen.texts = aTexts /\ aSeen.calls = aCalls /\ aSeen.indexes = aNames
  /\ aSource # "over" => aSeen.finish = "none"
  /\ aSource = "over" /\ "failed" \notin aExcuses =>
       aSeen.finish = IF aIndex # 0 THEN "tool_calls" ELSE "stop"

CodexChunksGemini ==
  "resumed" \notin aExcuses =>
    /\ ~aSeenToo.broken /\ aSeenToo.texts = aTexts
    /\ aSource # "over" => aSeenToo.calls = CodexChunks!NoCalls /\ aSeenToo.finish = "none"
    /\ aSource = "over" /\ "failed" \notin aExcuses =>
         aSeenToo.calls = aCalls /\ (aSeenToo.finish = "stop" <=> aNames # {})

CodexChunksInv == CodexChunks!TypeOK /\ CodexChunksChat /\ CodexChunksGemini

LEMMA CodexChunksTyped ==
  ASSUME CodexChunksInv
  PROVE  /\ aSeen \in CodexChunks!Reader /\ aSeenToo \in CodexChunks!Reader
         /\ aSource \in {"none", "begun", "over"}
         /\ aIndex \in 0..(ChunkParts * Chunks) /\ aIndex \in Nat /\ aNames \subseteq Numbered
         /\ aTexts \in [CodexChunks!Piece -> Nat] /\ aCalls \in [Numbered -> Nat]
         /\ aExcuses \subseteq {"failed", "resumed"}
         /\ (CodexChunks!Said < ChunkParts * Chunks => aIndex \in Numbered)
<1>1. CodexChunks!TypeOK
  BY DEF CodexChunksInv
<1>2. aIndex \in 0..(ChunkParts * Chunks) /\ aIndex \in Nat
  BY <1>1, NumberedCalls DEF CodexChunks!TypeOK
<1>3. aTexts["text"] \in Nat /\ aTexts["thought"] \in Nat
  BY <1>1 DEF CodexChunks!TypeOK, CodexChunks!Piece
<1>4. CodexChunks!Said < ChunkParts * Chunks => aIndex < ChunkParts * Chunks
  BY <1>2, <1>3, NumberedCalls DEF CodexChunks!Said
<1>5. CodexChunks!Said < ChunkParts * Chunks => aIndex \in Numbered
  BY <1>2, <1>4, NumberedCalls DEF Numbered
<1>. QED
  BY <1>1, <1>2, <1>5 DEF CodexChunks!TypeOK

\* The calls in LastStorageOutput, which Gemini's client gets.
LEMMA CodexChunksStored ==
  ASSUME NEW c \in CodexChunks!Reader, aNames \subseteq Numbered
  PROVE  /\ CodexChunks!Stored(c) \in CodexChunks!Reader
         /\ aNames = {} => CodexChunks!Stored(c) = c
         /\ aNames # {} =>
              /\ CodexChunks!Stored(c).texts = c.texts
              /\ CodexChunks!Stored(c).calls
                   = [x \in Numbered |-> IF x \in aNames THEN 1 ELSE c.calls[x]]
              /\ CodexChunks!Stored(c).finish = "stop"
              /\ CodexChunks!Stored(c).broken
                   <=> c.broken \/ \E x \in aNames : c.calls[x] > 0
<1>1. CASE aNames = {}
  BY <1>1 DEF CodexChunks!Stored
<1>2. CASE aNames # {}
  <2>1. [x \in Numbered |-> IF x \in aNames THEN 1 ELSE c.calls[x]] \in [Numbered -> Nat]
    BY DEF CodexChunks!Reader
  <2>. PICK s \in [Numbered -> Nat] :
         s = [x \in Numbered |-> IF x \in aNames THEN 1 ELSE c.calls[x]]
    BY <2>1
  <2>2. c.indexes \cup aNames \in SUBSET Nat
    BY NumberedCalls DEF CodexChunks!Reader
  <2>. PICK u \in SUBSET Nat : u = c.indexes \cup aNames
    BY <2>2
  <2>. PICK e \in BOOLEAN : e <=> c.broken \/ \E x \in aNames : c.calls[x] > 0
    OBVIOUS
  <2>3. PICK d : d = [c EXCEPT !.calls = s, !.indexes = u, !.broken = e]
    OBVIOUS
  <2>4. /\ d \in CodexChunks!Reader /\ d.texts = c.texts /\ d.calls = s /\ (d.broken <=> e)
    BY <2>3 DEF CodexChunks!Reader
  <2>5. c.broken \in BOOLEAN
    BY DEF CodexChunks!Reader
  <2>6. [c EXCEPT !.calls = [x \in Numbered |-> IF x \in aNames THEN 1 ELSE @[x]],
                  !.indexes = @ \cup aNames,
                  !.broken = @ \/ \E x \in aNames : c.calls[x] > 0] = d
    BY <2>3, <2>5 DEF CodexChunks!Reader
  <2>7. CodexChunks!Stored(c) = CodexChunks!ReadFinish(d, "stop")
    BY <1>2, <2>6, Zenon DEF CodexChunks!Stored
  <2>8. "stop" \in CodexChunks!Reason \cup {"none", CodexChunks!Unknown}
    BY DEF CodexChunks!Reason
  <2>. QED
    BY <1>2, <2>4, <2>7, <2>8, CodexChunksReadFinish
<1>. QED
  BY <1>1, <1>2

LEMMA CodexChunksResponseCreated ==
  ASSUME CodexChunksInv, CodexChunks!ResponseCreated
  PROVE  CodexChunksInv'
<1>1. /\ aSource = "none" /\ aSource' = "begun" /\ aSeen' = aSeen /\ aSeenToo' = aSeenToo
      /\ aIndex' = aIndex /\ aNames' = aNames /\ aTexts' = aTexts /\ aCalls' = aCalls
      /\ aExcuses' = aExcuses
  BY DEF CodexChunks!ResponseCreated
<1>2. CodexChunks!NoCalls' = CodexChunks!NoCalls
  BY DEF CodexChunks!NoCalls
<1>3. CodexChunks!TypeOK'
  BY <1>1 DEF CodexChunksInv, CodexChunks!TypeOK
<1>. QED
  BY <1>1, <1>2, <1>3 DEF CodexChunksInv, CodexChunksChat, CodexChunksGemini

LEMMA CodexChunksTextDelta ==
  ASSUME CodexChunksInv, NEW k \in {"text", "thought"}, CodexChunks!TextDelta(k)
  PROVE  CodexChunksInv'
<1>1. /\ aSource = "begun" /\ aTexts' = [aTexts EXCEPT ![k] = @ + 1]
      /\ aSeen' = CodexChunks!Read(aSeen, k)
      /\ aSeenToo' = CodexChunks!Read(CodexChunks!Stored(aSeenToo), k)
      /\ aExcuses' = IF aNames # {} THEN aExcuses \cup {"resumed"} ELSE aExcuses
      /\ aSource' = aSource /\ aIndex' = aIndex /\ aNames' = aNames /\ aCalls' = aCalls
  BY DEF CodexChunks!TextDelta
<1>2. k \in CodexChunks!Piece
  BY DEF CodexChunks!Piece
<1>3. /\ aSeen' \in CodexChunks!Reader /\ aSeen'.texts = [aSeen.texts EXCEPT ![k] = @ + 1]
      /\ aSeen'.calls = aSeen.calls /\ aSeen'.indexes = aSeen.indexes
      /\ aSeen'.finish = aSeen.finish
      /\ aSeen'.broken <=> aSeen.broken \/ aSeen.finish # "none"
  BY <1>1, <1>2, CodexChunksTyped, CodexChunksRead
<1>4. PICK d \in CodexChunks!Reader : d = CodexChunks!Stored(aSeenToo)
  BY CodexChunksTyped, CodexChunksStored
<1>5. aSeenToo' = CodexChunks!Read(d, k)
  BY <1>1, <1>4
<1>6. /\ aSeenToo' \in CodexChunks!Reader /\ aSeenToo'.texts = [d.texts EXCEPT ![k] = @ + 1]
      /\ aSeenToo'.calls = d.calls /\ aSeenToo'.finish = d.finish
      /\ aSeenToo'.broken <=> d.broken \/ d.finish # "none"
  BY <1>2, <1>5, CodexChunksRead
<1>7. aTexts' \in [CodexChunks!Piece -> Nat] /\ aExcuses' \subseteq {"failed", "resumed"}
  BY <1>1, <1>2, CodexChunksTyped
<1>8. CodexChunks!TypeOK'
  BY <1>1, <1>3, <1>6, <1>7 DEF CodexChunksInv, CodexChunks!TypeOK
<1>9. CodexChunksChat'
  BY <1>1, <1>3 DEF CodexChunksInv, CodexChunksChat
<1>10. CodexChunks!NoCalls' = CodexChunks!NoCalls
  BY DEF CodexChunks!NoCalls
<1>11. ASSUME "resumed" \notin aExcuses' PROVE d = aSeenToo /\ "resumed" \notin aExcuses
  <2>1. aNames = {} /\ "resumed" \notin aExcuses
    BY <1>1, <1>11
  <2>. QED
    BY <1>4, <2>1, CodexChunksTyped, CodexChunksStored
<1>12. CodexChunksGemini'
  BY <1>1, <1>6, <1>10, <1>11 DEF CodexChunksInv, CodexChunksGemini
<1>. QED
  BY <1>8, <1>9, <1>12 DEF CodexChunksInv

LEMMA CodexChunksSummaryDone ==
  ASSUME CodexChunksInv, CodexChunks!SummaryDone
  PROVE  CodexChunksInv'
<1>1. /\ aSource = "begun"
      /\ aSeen' = [aSeen EXCEPT !.broken = @ \/ aSeen.finish # "none"]
      /\ aSeenToo' = aSeenToo /\ aSource' = aSource /\ aIndex' = aIndex /\ aNames' = aNames
      /\ aTexts' = aTexts /\ aCalls' = aCalls /\ aExcuses' = aExcuses
  BY DEF CodexChunks!SummaryDone
<1>2. ~aSeen.broken /\ aSeen.finish = "none" /\ aSeen \in CodexChunks!Reader
  BY <1>1, CodexChunksTyped DEF CodexChunksInv, CodexChunksChat
<1>3. /\ aSeen' \in CodexChunks!Reader /\ aSeen'.texts = aSeen.texts
      /\ aSeen'.calls = aSeen.calls /\ aSeen'.indexes = aSeen.indexes
      /\ aSeen'.finish = aSeen.finish /\ ~aSeen'.broken
  BY <1>1, <1>2 DEF CodexChunks!Reader
<1>4. CodexChunks!NoCalls' = CodexChunks!NoCalls
  BY DEF CodexChunks!NoCalls
<1>5. CodexChunks!TypeOK'
  BY <1>1, <1>3 DEF CodexChunksInv, CodexChunks!TypeOK
<1>6. CodexChunksChat'
  BY <1>1, <1>3 DEF CodexChunksInv, CodexChunksChat
<1>7. CodexChunksGemini'
  BY <1>1, <1>4 DEF CodexChunksInv, CodexChunksGemini
<1>. QED
  BY <1>5, <1>6, <1>7 DEF CodexChunksInv

LEMMA CodexChunksCallDone == ASSUME CodexChunksInv, CodexChunks!CallDone PROVE CodexChunksInv'
<1>1. /\ aSource = "begun" /\ CodexChunks!Said < ChunkParts * Chunks
      /\ aIndex' = aIndex + 1 /\ aCalls' = [aCalls EXCEPT ![aIndex] = 1]
      /\ aSeen' = CodexChunks!ReadCallAt(aSeen, aIndex, aIndex, 0)
      /\ aNames' = aNames \cup {aIndex}
      /\ aSeenToo' = aSeenToo /\ aSource' = aSource /\ aTexts' = aTexts
      /\ aExcuses' = aExcuses
  BY DEF CodexChunks!CallDone
<1>2. aIndex \in Numbered /\ aIndex \in Nat /\ CodexChunksChat
  BY <1>1, CodexChunksTyped DEF CodexChunksInv
<1>3. /\ aSeen' \in CodexChunks!Reader /\ aSeen'.texts = aSeen.texts
      /\ aSeen'.calls = [aSeen.calls EXCEPT ![aIndex] = 1 + 0]
      /\ aSeen'.indexes = aSeen.indexes \cup {aIndex} /\ aSeen'.finish = aSeen.finish
      /\ aSeen'.broken <=> aSeen.broken \/ aSeen.finish # "none" \/ aSeen.calls[aIndex] > 0
                           \/ aIndex \in aSeen.indexes
  BY <1>1, <1>2, CodexChunksTyped, CodexChunksReadCallAt
<1>4. aIndex \notin aNames /\ aNames' = 0..((aIndex + 1) - 1)
  BY <1>1, <1>2 DEF CodexChunksChat
<1>5. ~aSeen'.broken
  <2>1. aSeen.calls[aIndex] = 0
    BY <1>2, <1>4 DEF CodexChunksChat
  <2>. QED
    BY <1>1, <1>2, <1>3, <1>4, <2>1 DEF CodexChunksChat
<1>6. aCalls' \in [Numbered -> Nat] /\ aNames' \subseteq Numbered
  BY <1>1, <1>2, CodexChunksTyped
<1>7. aIndex' \in 0..(ChunkParts * Chunks)
  <2>1. aIndex < ChunkParts * Chunks
    BY <1>2, NumberedCalls DEF Numbered
  <2>. QED
    BY <1>1, <1>2, <2>1, NumberedCalls
<1>8. CodexChunks!TypeOK'
  BY <1>1, <1>3, <1>6, <1>7 DEF CodexChunksInv, CodexChunks!TypeOK
<1>9. \A x \in Numbered : aCalls'[x] = IF x \in aNames' THEN 1 ELSE 0
  BY <1>1, <1>2, <1>6, CodexChunksTyped DEF CodexChunksChat
<1>10. aSeen'.calls = aCalls'
  BY <1>1, <1>2, <1>3 DEF CodexChunksChat
<1>11. CodexChunksChat'
  BY <1>1, <1>2, <1>3, <1>4, <1>5, <1>9, <1>10 DEF CodexChunksChat
<1>12. CodexChunks!NoCalls' = CodexChunks!NoCalls
  BY DEF CodexChunks!NoCalls
<1>13. CodexChunksGemini'
  BY <1>1, <1>12 DEF CodexChunksInv, CodexChunksGemini
<1>. QED
  BY <1>8, <1>11, <1>13 DEF CodexChunksInv

LEMMA CodexChunksResponseCompleted ==
  ASSUME CodexChunksInv, CodexChunks!ResponseCompleted
  PROVE  CodexChunksInv'
<1>1. /\ aSource = "begun" /\ aSource' = "over"
      /\ aSeen' = CodexChunks!ReadFinish(aSeen, IF aIndex # 0 THEN "tool_calls" ELSE "stop")
      /\ aSeenToo' = CodexChunks!Stored(aSeenToo)
      /\ aIndex' = aIndex /\ aNames' = aNames /\ aTexts' = aTexts /\ aCalls' = aCalls
      /\ aExcuses' = aExcuses
  BY DEF CodexChunks!ResponseCompleted
<1>2. PICK r \in CodexChunks!Reason \cup {"none", CodexChunks!Unknown} :
        r = IF aIndex # 0 THEN "tool_calls" ELSE "stop"
  BY DEF CodexChunks!Reason
<1>3. /\ aSeen' \in CodexChunks!Reader /\ aSeen'.texts = aSeen.texts
      /\ aSeen'.calls = aSeen.calls /\ aSeen'.indexes = aSeen.indexes /\ aSeen'.finish = r
      /\ aSeen'.broken <=> aSeen.broken
  BY <1>1, <1>2, CodexChunksTyped, CodexChunksReadFinish
<1>4. aSeenToo' \in CodexChunks!Reader
  BY <1>1, CodexChunksTyped, CodexChunksStored
<1>5. CodexChunks!TypeOK'
  BY <1>1, <1>3, <1>4 DEF CodexChunksInv, CodexChunks!TypeOK
<1>6. CodexChunksChat'
  BY <1>1, <1>2, <1>3 DEF CodexChunksInv, CodexChunksChat
<1>7. ASSUME "resumed" \notin aExcuses
      PROVE  /\ ~aSeenToo'.broken /\ aSeenToo'.texts = aTexts /\ aSeenToo'.calls = aCalls
             /\ (aSeenToo'.finish = "stop" <=> aNames # {})
  <2>1. /\ ~aSeenToo.broken /\ aSeenToo.texts = aTexts
        /\ aSeenToo.calls = CodexChunks!NoCalls /\ aSeenToo.finish = "none"
    BY <1>1, <1>7 DEF CodexChunksInv, CodexChunksGemini
  <2>2. \A x \in Numbered : aSeenToo.calls[x] = 0
    BY <2>1 DEF CodexChunks!NoCalls
  <2>3. [x \in Numbered |-> IF x \in aNames THEN 1 ELSE aSeenToo.calls[x]] = aCalls
    <3>1. \A x \in Numbered : (IF x \in aNames THEN 1 ELSE aSeenToo.calls[x]) = aCalls[x]
      BY <2>2 DEF CodexChunksInv, CodexChunksChat
    <3>. QED
      BY <3>1, CodexChunksTyped
  <2>4. CASE aNames = {}
    <3>1. aSeenToo' = aSeenToo
      BY <1>1, <2>4, CodexChunksTyped, CodexChunksStored
    <3>2. aSeenToo.calls = aCalls
      <4>1. aSeenToo.calls \in [Numbered -> Nat]
        BY CodexChunksTyped DEF CodexChunks!Reader
      <4>2. \A x \in Numbered : aSeenToo.calls[x] = aCalls[x]
        BY <2>2, <2>4 DEF CodexChunksInv, CodexChunksChat
      <4>. QED
        BY <4>1, <4>2, CodexChunksTyped
    <3>. QED
      BY <2>1, <2>4, <3>1, <3>2
  <2>5. CASE aNames # {}
    <3>1. /\ aSeenToo'.texts = aSeenToo.texts
          /\ aSeenToo'.calls = [x \in Numbered |-> IF x \in aNames THEN 1 ELSE aSeenToo.calls[x]]
          /\ aSeenToo'.finish = "stop"
          /\ aSeenToo'.broken <=> aSeenToo.broken \/ \E x \in aNames : aSeenToo.calls[x] > 0
      BY <1>1, <2>5, CodexChunksTyped, CodexChunksStored
    <3>2. ~\E x \in aNames : aSeenToo.calls[x] > 0
      BY <2>2, CodexChunksTyped
    <3>. QED
      BY <2>1, <2>3, <2>5, <3>1, <3>2
  <2>. QED
    BY <2>4, <2>5
<1>8. CodexChunksGemini'
  BY <1>1, <1>7 DEF CodexChunksGemini
<1>. QED
  BY <1>5, <1>6, <1>8 DEF CodexChunksInv

LEMMA CodexChunksResponseFailed ==
  ASSUME CodexChunksInv, CodexChunks!ResponseFailed
  PROVE  CodexChunksInv'
<1>1. /\ aSource = "begun" /\ aSource' = "over" /\ aExcuses' = aExcuses \cup {"failed"}
      /\ aSeen' = aSeen /\ aSeenToo' = aSeenToo /\ aIndex' = aIndex /\ aNames' = aNames
      /\ aTexts' = aTexts /\ aCalls' = aCalls
  BY DEF CodexChunks!ResponseFailed
<1>2. CodexChunks!TypeOK'
  BY <1>1 DEF CodexChunksInv, CodexChunks!TypeOK
<1>. QED
  BY <1>1, <1>2 DEF CodexChunksInv, CodexChunksChat, CodexChunksGemini

LEMMA CodexChunksNext == ASSUME CodexChunksInv, CodexChunks!Next PROVE CodexChunksInv'
  BY CodexChunksResponseCreated, CodexChunksTextDelta, CodexChunksSummaryDone,
     CodexChunksCallDone, CodexChunksResponseCompleted, CodexChunksResponseFailed
     DEF CodexChunks!Next

LEMMA CodexChunksInit == ASSUME CodexChunks!Init PROVE CodexChunksInv
<1>1. CodexChunks!NewReader \in CodexChunks!Reader
  BY DEF CodexChunks!NewReader, CodexChunks!Reader, CodexChunks!NoPieces, CodexChunks!NoCalls
<1>2. /\ CodexChunks!NoPieces \in [CodexChunks!Piece -> Nat]
      /\ CodexChunks!NoCalls \in [Numbered -> Nat]
      /\ \A x \in Numbered : CodexChunks!NoCalls[x] = 0
  BY DEF CodexChunks!NoPieces, CodexChunks!NoCalls
<1>3. /\ CodexChunks!NewReader.texts = CodexChunks!NoPieces /\ ~CodexChunks!NewReader.broken
      /\ CodexChunks!NewReader.calls = CodexChunks!NoCalls
      /\ CodexChunks!NewReader.indexes = {} /\ CodexChunks!NewReader.finish = "none"
  BY DEF CodexChunks!NewReader
<1>4. aIndex \in 0..(ChunkParts * Chunks) /\ aNames = 0..(aIndex - 1)
  BY NumberedCalls DEF CodexChunks!Init
<1>5. CodexChunks!TypeOK
  BY <1>1, <1>2, <1>4 DEF CodexChunks!Init, CodexChunks!TypeOK
<1>6. CodexChunksChat
  BY <1>2, <1>3, <1>4 DEF CodexChunks!Init, CodexChunksChat
<1>7. CodexChunksGemini
  BY <1>3 DEF CodexChunks!Init, CodexChunksGemini
<1>. QED
  BY <1>5, <1>6, <1>7 DEF CodexChunksInv

LEMMA CodexChunksWellFormed ==
  ASSUME CodexChunksInv
  PROVE  CodexChunks!TypeOK /\ CodexChunks!AnswerWellFormed
<1>1. aCalls # CodexChunks!NoCalls <=> aNames # {}
  <2>1. CASE aNames = {}
    <3>1. \A x \in Numbered : aCalls[x] = 0
      BY <2>1 DEF CodexChunksInv, CodexChunksChat
    <3>. QED
      BY <2>1, <3>1, CodexChunksTyped DEF CodexChunks!NoCalls
  <2>2. ASSUME NEW x \in aNames PROVE aCalls # CodexChunks!NoCalls
    <3>1. x \in Numbered /\ aCalls[x] = 1
      BY <2>2, CodexChunksTyped DEF CodexChunksInv, CodexChunksChat
    <3>. QED
      BY <3>1 DEF CodexChunks!NoCalls
  <2>. QED
    BY <2>1, <2>2
<1>2. aIndex # 0 <=> aNames # {}
  <2>1. aIndex \in Nat /\ aNames = 0..(aIndex - 1)
    BY CodexChunksTyped DEF CodexChunksInv, CodexChunksChat
  <2>2. CASE aIndex = 0
    <3>1. aNames = 0..(0 - 1)
      BY <2>1, <2>2
    <3>2. 0..(0 - 1) = {}
      OBVIOUS
    <3>. QED
      BY <2>2, <3>1, <3>2
  <2>3. CASE aIndex # 0
    <3>1. 0 \in 0..(aIndex - 1)
      BY <2>1, <2>3
    <3>. QED
      BY <2>1, <2>3, <3>1
  <2>. QED
    BY <2>2, <2>3
<1>. QED
  BY <1>1, <1>2 DEF CodexChunksInv, CodexChunksChat, CodexChunksGemini,
                    CodexChunks!AnswerWellFormed, CodexChunks!Whole

-----------------------------------------------------------------------------
(* GeminiToChat: Gemini's answers for a client of chat completions. *)

\* The instances have the operators of the library under names of their own.
LEMMA GeminiChatSets ==
  /\ \A S : GeminiChat!IsFiniteSet(S) <=> IsFiniteSet(S)
  /\ \A S : GeminiChat!Cardinality(S) = Cardinality(S)
<1>1. \A S : GeminiChat!IsFiniteSet(S) <=> IsFiniteSet(S)
  BY DEF GeminiChat!IsFiniteSet, IsFiniteSet
<1>2. \A S : GeminiChat!Cardinality(S) = Cardinality(S)
  BY DEF GeminiChat!Cardinality, Cardinality
<1>. QED
  BY <1>1, <1>2

\* What the client has seen after a chunk, field by field.
LEMMA GeminiChatRead ==
  ASSUME NEW c \in GeminiChat!Reader, NEW k \in GeminiChat!Piece
  PROVE  /\ GeminiChat!Read(c, k) \in GeminiChat!Reader
         /\ GeminiChat!Read(c, k).texts = [c.texts EXCEPT ![k] = @ + 1]
         /\ GeminiChat!Read(c, k).calls = c.calls
         /\ GeminiChat!Read(c, k).indexes = c.indexes
         /\ GeminiChat!Read(c, k).finish = c.finish
         /\ GeminiChat!Read(c, k).broken <=> c.broken \/ c.finish # "none"
<1>1. [c.texts EXCEPT ![k] = @ + 1] \in [GeminiChat!Piece -> Nat]
  BY DEF GeminiChat!Reader
<1>2. PICK t \in [GeminiChat!Piece -> Nat] : t = [c.texts EXCEPT ![k] = @ + 1]
  BY <1>1
<1>3. PICK e \in BOOLEAN : e <=> c.broken \/ c.finish # "none"
  OBVIOUS
<1>4. GeminiChat!Read(c, k) = [c EXCEPT !.texts = t, !.broken = e]
  BY <1>2, <1>3, Zenon DEF GeminiChat!Read
<1>. QED
  BY <1>2, <1>3, <1>4 DEF GeminiChat!Reader

LEMMA GeminiChatReadFinish ==
  ASSUME NEW c \in GeminiChat!Reader, NEW reason \in GeminiChat!Reason \cup {"none", GeminiChat!Unknown}
  PROVE  /\ GeminiChat!ReadFinish(c, reason) \in GeminiChat!Reader
         /\ GeminiChat!ReadFinish(c, reason).texts = c.texts
         /\ GeminiChat!ReadFinish(c, reason).calls = c.calls
         /\ GeminiChat!ReadFinish(c, reason).indexes = c.indexes
         /\ GeminiChat!ReadFinish(c, reason).finish = reason
         /\ GeminiChat!ReadFinish(c, reason).broken <=> c.broken
  BY DEF GeminiChat!ReadFinish, GeminiChat!Reader

LEMMA GeminiChatTimes ==
  ASSUME NEW parts \in GeminiChat!Parts, NEW k
  PROVE  /\ GeminiChat!Times(parts, k) \in 0..ChunkParts
         /\ GeminiChat!Times(parts, k) \in Nat
         /\ parts = << >> => GeminiChat!Times(parts, k) = 0
<1>. PICK n \in 0..ChunkParts : parts \in [1..n -> GeminiChat!Piece \cup {"call"}]
  BY DEF GeminiChat!Parts
<1>. PICK S : S = {i \in DOMAIN parts : parts[i] = k}
  OBVIOUS
<1>1. GeminiChat!Times(parts, k) = Cardinality(S)
  BY GeminiChatSets, Zenon DEF GeminiChat!Times
<1>2. n \in Nat /\ n <= ChunkParts /\ ChunkParts \in Nat
  BY NumberedCalls
<1>3. IsFiniteSet(1..n) /\ Cardinality(1..n) = n
  <2>1. Cardinality(1..n) = IF 1 > n THEN 0 ELSE n - 1 + 1
    BY <1>2, FS_Interval
  <2>2. IsFiniteSet(1..n)
    BY <1>2, FS_Interval
  <2>. QED
    BY <1>2, <2>1, <2>2
<1>4. S \subseteq 1..n
  OBVIOUS
<1>5. Cardinality(S) <= n /\ Cardinality(S) \in Nat
  BY <1>3, <1>4, FS_Subset, FS_CardinalityType
<1>6. ASSUME parts = << >> PROVE Cardinality(S) = 0
  <2>1. DOMAIN parts = {}
    BY <1>6
  <2>2. S = {}
    BY <2>1
  <2>. QED
    BY <2>2, FS_EmptySet
<1>. QED
  BY <1>1, <1>2, <1>5, <1>6

LEMMA GeminiChatPieces ==
  ASSUME NEW parts \in GeminiChat!Parts
  PROVE  /\ GeminiChat!ChunkPieces(parts) \in [GeminiChat!Piece -> Nat]
         /\ parts = << >> => GeminiChat!ChunkPieces(parts) = GeminiChat!NoPieces
         /\ (~\E k \in {"text", "thought"} : GeminiChat!Times(parts, k) > 1)
              => \A k \in GeminiChat!Piece :
                   GeminiChat!ChunkPieces(parts)[k] = GeminiChat!Times(parts, k)
<1>1. \A k \in GeminiChat!Piece :
        /\ GeminiChat!Times(parts, k) \in Nat
        /\ parts = << >> => GeminiChat!Times(parts, k) = 0
  BY GeminiChatTimes
<1>2. GeminiChat!ChunkPieces(parts) \in [GeminiChat!Piece -> Nat]
  BY <1>1 DEF GeminiChat!ChunkPieces
<1>3. \A k \in GeminiChat!Piece :
        GeminiChat!ChunkPieces(parts)[k]
          = IF k = "image" \/ GeminiChat!Times(parts, k) = 0 THEN GeminiChat!Times(parts, k) ELSE 1
  BY DEF GeminiChat!ChunkPieces
<1>4. ASSUME parts = << >> PROVE GeminiChat!ChunkPieces(parts) = GeminiChat!NoPieces
  <2>1. \A k \in GeminiChat!Piece : GeminiChat!ChunkPieces(parts)[k] = 0
    BY <1>1, <1>3, <1>4
  <2>. QED
    BY <1>2, <2>1 DEF GeminiChat!NoPieces
<1>5. ASSUME ~\E k \in {"text", "thought"} : GeminiChat!Times(parts, k) > 1,
             NEW k \in GeminiChat!Piece
      PROVE  GeminiChat!ChunkPieces(parts)[k] = GeminiChat!Times(parts, k)
  <2>1. CASE k = "image"
    BY <1>3, <2>1
  <2>2. CASE k \in {"text", "thought"}
    BY <1>1, <1>3, <1>5, <2>2
  <2>. QED
    BY <2>1, <2>2 DEF GeminiChat!Piece
<1>. QED
  BY <1>2, <1>4, <1>5

\* The indexes of the first n calls of a chunk.
GeminiChatIndexes(n) == {GeminiChat!CallIndex(i) : i \in 0..(n - 1)}

\* What the client has seen after a chunk, field by field.
LEMMA GeminiChatDelta ==
  ASSUME NEW parts \in GeminiChat!Parts, aSeen \in GeminiChat!Reader, aIndex \in Nat,
         NEW n, n = GeminiChat!Times(parts, "call"), NEW I, I = GeminiChatIndexes(n)
  PROVE  /\ GeminiChat!Delta(parts) \in GeminiChat!Reader
         /\ GeminiChat!Delta(parts).texts
              = [k \in GeminiChat!Piece |-> aSeen.texts[k] + GeminiChat!ChunkPieces(parts)[k]]
         /\ GeminiChat!Delta(parts).calls
              = [x \in Numbered |-> IF x \in aIndex..(aIndex + n - 1) THEN 1 ELSE aSeen.calls[x]]
         /\ GeminiChat!Delta(parts).indexes = aSeen.indexes \cup I
         /\ GeminiChat!Delta(parts).finish = aSeen.finish
         /\ GeminiChat!Delta(parts).broken
              <=> \/ aSeen.broken
                  \/ ~(n = 0 /\ GeminiChat!ChunkPieces(parts) = GeminiChat!NoPieces)
                     /\ aSeen.finish # "none"
                  \/ Cardinality(I) < n \/ I \cap aSeen.indexes # {}
<1>. PICK p \in [GeminiChat!Piece -> Nat] : p = GeminiChat!ChunkPieces(parts)
  BY GeminiChatPieces
<1>1. n \in Nat
  BY GeminiChatTimes
<1>2. I \subseteq Nat
  BY <1>1 DEF GeminiChat!CallIndex, GeminiChatIndexes
<1>3. [k \in GeminiChat!Piece |-> aSeen.texts[k] + p[k]] \in [GeminiChat!Piece -> Nat]
  BY DEF GeminiChat!Reader
<1>. PICK t \in [GeminiChat!Piece -> Nat] : t = [k \in GeminiChat!Piece |-> aSeen.texts[k] + p[k]]
  BY <1>3
<1>4. [x \in Numbered |-> IF x \in aIndex..(aIndex + n - 1) THEN 1 ELSE aSeen.calls[x]]
        \in [Numbered -> Nat]
  BY DEF GeminiChat!Reader
<1>. PICK s \in [Numbered -> Nat] :
       s = [x \in Numbered |-> IF x \in aIndex..(aIndex + n - 1) THEN 1 ELSE aSeen.calls[x]]
  BY <1>4
<1>5. aSeen.indexes \cup I \in SUBSET Nat
  BY <1>2 DEF GeminiChat!Reader
<1>. PICK u \in SUBSET Nat : u = aSeen.indexes \cup I
  BY <1>5
<1>. PICK e \in BOOLEAN :
       e <=> \/ aSeen.broken \/ (~(n = 0 /\ p = GeminiChat!NoPieces) /\ aSeen.finish # "none")
             \/ Cardinality(I) < n \/ I \cap aSeen.indexes # {}
  OBVIOUS
<1>6. GeminiChat!Delta(parts)
        = [aSeen EXCEPT
             !.texts = [k \in GeminiChat!Piece |-> @[k] + p[k]],
             !.calls = [x \in Numbered |-> IF x \in aIndex..(aIndex + n - 1) THEN 1 ELSE @[x]],
             !.indexes = @ \cup I,
             !.broken = \/ @
                        \/ ~(n = 0 /\ p = GeminiChat!NoPieces) /\ aSeen.finish # "none"
                        \/ Cardinality(I) < n \/ I \cap aSeen.indexes # {}]
  BY GeminiChatSets, Zenon DEF GeminiChat!Delta, GeminiChatIndexes
<1>7. PICK d : d = [aSeen EXCEPT !.texts = t, !.calls = s, !.indexes = u, !.broken = e]
  OBVIOUS
<1>8. /\ d \in GeminiChat!Reader /\ d.texts = t /\ d.calls = s /\ d.indexes = u
      /\ d.finish = aSeen.finish /\ (d.broken <=> e)
  BY <1>7 DEF GeminiChat!Reader
<1>9. aSeen.broken \in BOOLEAN
  BY DEF GeminiChat!Reader
<1>10. GeminiChat!Delta(parts) = d
  BY <1>6, <1>7, <1>9 DEF GeminiChat!Reader
<1>. QED
  BY <1>8, <1>10

\* So many calls have come, and the client has the same; it can place them as long as nothing
\* comes after the chunk with the calls.
GeminiChatCalled ==
  /\ aIndex <= ChunkParts * aChunks
  /\ \A x \in Numbered : aCalls[x] = IF x < aIndex THEN 1 ELSE 0
  /\ aSeen.calls = aCalls
  /\ aIndex = 0 => aSeen.indexes = {}

GeminiChatInv ==
  /\ GeminiChat!TypeOK
  /\ GeminiChatCalled
  /\ "again" \notin aExcuses => ~aSeen.broken
  /\ "twice" \notin aExcuses => aSeen.texts = aTexts
  /\ ~aOver => aSeen.finish = IF aIndex > 0 THEN "tool_calls" ELSE "none"
  /\ aOver /\ aExcuses \cap {"apart", "length"} = {} =>
       aSeen.finish = IF aIndex > 0 THEN "tool_calls" ELSE aReason

LEMMA GeminiChatTyped ==
  ASSUME GeminiChatInv
  PROVE  /\ aSeen \in GeminiChat!Reader /\ aChunks \in 0..Chunks /\ aChunks \in Nat
         /\ aOver \in BOOLEAN /\ aIndex \in 0..(ChunkParts * Chunks) /\ aIndex \in Nat
         /\ aTexts \in [GeminiChat!Piece -> Nat] /\ aCalls \in [Numbered -> Nat]
         /\ aReason \in {"none", "stop", "length"}
         /\ aExcuses \subseteq {"twice", "again", "apart", "length"}
<1>1. GeminiChat!TypeOK
  BY DEF GeminiChatInv
<1>2. aChunks \in 0..Chunks /\ aIndex \in 0..(ChunkParts * Chunks)
  BY <1>1 DEF GeminiChat!TypeOK
<1>3. aChunks \in Nat /\ aIndex \in Nat
  BY <1>2, NumberedCalls
<1>. QED
  BY <1>1, <1>2, <1>3 DEF GeminiChat!TypeOK

LEMMA PartsOfChunks ==
  ASSUME NEW a \in Nat, NEW b \in Nat, NEW c \in Nat, b < c
  PROVE  a * (b + 1) = a * b + a /\ a * (b + 1) <= a * c
<1>1. a * (b + 1) = a * b + a
  OBVIOUS
<1>. PICK d \in Nat : c = (b + 1) + d
  <2>1. c - (b + 1) \in Nat /\ c = (b + 1) + (c - (b + 1))
    OBVIOUS
  <2>. QED
    BY <2>1
<1>2. a * c = a * (b + 1) + a * d
  OBVIOUS
<1>3. a * d \in Nat /\ a * (b + 1) \in Nat
  OBVIOUS
<1>. QED
  BY <1>1, <1>2, <1>3

\* The indexes of the calls of a chunk, as long as there have been none before.
LEMMA GeminiChatNumbered ==
  ASSUME aIndex = 0, NEW n \in Nat, NEW I, I = GeminiChatIndexes(n)
  PROVE  ~(Cardinality(I) < n)
<1>1. I = 0..(n - 1)
  BY DEF GeminiChat!CallIndex, GeminiChatIndexes
<1>2. Cardinality(0..(n - 1)) = IF 0 > n - 1 THEN 0 ELSE (n - 1) - 0 + 1
  <2>1. 0 \in Int /\ n - 1 \in Int
    OBVIOUS
  <2>. QED
    BY <2>1, FS_Interval
<1>3. Cardinality(0..(n - 1)) = n
  BY <1>2
<1>4. Cardinality(I) = n
  BY <1>1, <1>3, Zenon
<1>. QED
  BY <1>4

LEMMA GeminiChatChunk ==
  ASSUME GeminiChatInv, NEW parts \in GeminiChat!Parts, NEW r \in {"none", "stop", "length"},
         GeminiChat!Chunk(parts, r)
  PROVE  GeminiChatInv'
<1>. PICK n \in Nat : n = GeminiChat!Times(parts, "call")
  BY GeminiChatTimes
<1>. PICK I : I = GeminiChatIndexes(n)
  OBVIOUS
<1>. PICK d \in GeminiChat!Reader : d = GeminiChat!Delta(parts)
  BY GeminiChatTyped, GeminiChatDelta
<1>. PICK twice \in BOOLEAN : twice <=> \E k \in {"text", "thought"} : GeminiChat!Times(parts, k) > 1
  OBVIOUS
<1>1. /\ ~aOver /\ aChunks < Chunks /\ aChunks' = aChunks + 1
      /\ aOver' = (r # "none") /\ aReason' = r
      /\ aSeen' = IF n > 0 THEN GeminiChat!ReadFinish(d, "tool_calls")
                  ELSE IF r # "none" THEN GeminiChat!ReadFinish(d, GeminiChat!ReasonOf(r))
                  ELSE d
      /\ aIndex' = aIndex + n
      /\ aCalls' = [x \in Numbered |-> IF x \in aIndex..(aIndex + n - 1) THEN 1 ELSE aCalls[x]]
      /\ aTexts' = [k \in GeminiChat!Piece |-> aTexts[k] + GeminiChat!Times(parts, k)]
  BY DEF GeminiChat!Chunk
<1>2. aExcuses' = aExcuses
            \cup (IF twice THEN {"twice"} ELSE {})
            \cup (IF aIndex > 0 /\ parts # << >> THEN {"again"} ELSE {})
            \cup (IF aIndex > 0 /\ n = 0 /\ r # "none" THEN {"apart"} ELSE {})
            \cup (IF r = "length" THEN {"length"} ELSE {})
  BY DEF GeminiChat!Chunk
<1>3. /\ d.texts = [k \in GeminiChat!Piece |-> aSeen.texts[k] + GeminiChat!ChunkPieces(parts)[k]]
      /\ d.calls
           = [x \in Numbered |-> IF x \in aIndex..(aIndex + n - 1) THEN 1 ELSE aSeen.calls[x]]
      /\ d.indexes = aSeen.indexes \cup I /\ d.finish = aSeen.finish
      /\ d.broken
           <=> \/ aSeen.broken
               \/ (~(n = 0 /\ GeminiChat!ChunkPieces(parts) = GeminiChat!NoPieces)
                  /\ aSeen.finish # "none")
               \/ Cardinality(I) < n \/ I \cap aSeen.indexes # {}
  <2>1. aSeen \in GeminiChat!Reader /\ aIndex \in Nat
    BY GeminiChatTyped
  <2>. QED
    BY ONLY <2>1, GeminiChatDelta, parts \in GeminiChat!Parts, d = GeminiChat!Delta(parts),
            n = GeminiChat!Times(parts, "call"), I = GeminiChatIndexes(n)
<1>. PICK f \in GeminiChat!Reason \cup {"none", GeminiChat!Unknown} :
       f = IF n > 0 THEN "tool_calls" ELSE IF r # "none" THEN GeminiChat!ReasonOf(r)
           ELSE aSeen.finish
  BY GeminiChatTyped DEF GeminiChat!ReasonOf, GeminiChat!Reason, GeminiChat!Reader
<1>4. /\ aSeen' \in GeminiChat!Reader /\ aSeen'.texts = d.texts /\ aSeen'.calls = d.calls
      /\ aSeen'.indexes = d.indexes /\ aSeen'.finish = f /\ (aSeen'.broken <=> d.broken)
  <2>1. CASE n > 0
    <3>1. aSeen' = GeminiChat!ReadFinish(d, f)
      BY <1>1, <2>1
    <3>. QED
      BY <3>1, GeminiChatReadFinish
  <2>2. CASE ~(n > 0) /\ r # "none"
    <3>1. aSeen' = GeminiChat!ReadFinish(d, f)
      BY <1>1, <2>2
    <3>. QED
      BY <3>1, GeminiChatReadFinish
  <2>3. CASE ~(n > 0) /\ r = "none"
    <3>1. aSeen' = d /\ f = d.finish
      BY <1>1, <1>3, <2>3
    <3>. QED
      BY <3>1
  <2>. QED
    BY <2>1, <2>2, <2>3
<1>5. /\ aChunks \in Nat /\ aChunks + 1 \in 0..Chunks /\ aIndex \in Nat
      /\ aIndex + n <= ChunkParts * (aChunks + 1) /\ aIndex + n \in 0..(ChunkParts * Chunks)
  <2>1. /\ aChunks \in Nat /\ Chunks \in Nat /\ aIndex \in Nat /\ ChunkParts \in Nat
        /\ aIndex <= ChunkParts * aChunks /\ n <= ChunkParts
    BY NumberedCalls, GeminiChatTyped, GeminiChatTimes DEF GeminiChatInv, GeminiChatCalled
  <2>2. /\ ChunkParts * (aChunks + 1) = ChunkParts * aChunks + ChunkParts
        /\ ChunkParts * (aChunks + 1) <= ChunkParts * Chunks
    BY <1>1, <2>1, PartsOfChunks
  <2>3. ChunkParts * aChunks \in Nat /\ ChunkParts * Chunks \in Nat
    BY <2>1
  <2>4. aIndex + n <= ChunkParts * (aChunks + 1) /\ aIndex + n <= ChunkParts * Chunks
    BY <2>1, <2>2, <2>3
  <2>. QED
    BY <1>1, <2>1, <2>3, <2>4
<1>6. aCalls' \in [Numbered -> Nat] /\ aTexts' \in [GeminiChat!Piece -> Nat]
  <2>1. \A k \in GeminiChat!Piece : aTexts[k] + GeminiChat!Times(parts, k) \in Nat
    BY GeminiChatTyped, GeminiChatTimes
  <2>2. aTexts' \in [GeminiChat!Piece -> Nat]
    BY <1>1, <2>1
  <2>3. aCalls' \in [Numbered -> Nat]
    BY <1>1, GeminiChatTyped
  <2>. QED
    BY <2>2, <2>3
<1>7. aExcuses' \subseteq {"twice", "again", "apart", "length"}
  BY <1>2, GeminiChatTyped
<1>8. GeminiChat!TypeOK'
  BY <1>1, <1>4, <1>5, <1>6, <1>7 DEF GeminiChat!TypeOK
<1>9. aSeen'.calls = aCalls'
  BY <1>1, <1>3, <1>4 DEF GeminiChatInv, GeminiChatCalled
<1>10. \A x \in Numbered : aCalls'[x] = IF x < aIndex + n THEN 1 ELSE 0
  <2>1. ASSUME NEW x \in Numbered PROVE aCalls'[x] = IF x < aIndex + n THEN 1 ELSE 0
    <3>1. x \in Nat /\ aIndex \in Nat
      BY <1>5, NumberedCalls
    <3>2. aCalls[x] = IF x < aIndex THEN 1 ELSE 0
      BY DEF GeminiChatInv, GeminiChatCalled
    <3>3. aCalls'[x] = IF x \in aIndex..(aIndex + n - 1) THEN 1 ELSE aCalls[x]
      BY <1>1
    <3>. QED
      BY <3>1, <3>2, <3>3
  <2>. QED
    BY <2>1
<1>11. aIndex + n = 0 => aSeen'.indexes = {}
  <2>1. ASSUME aIndex + n = 0 PROVE aSeen.indexes = {} /\ I = {}
    <3>1. aIndex = 0 /\ n = 0
      BY <1>5, <2>1
    <3>2. 0..(n - 1) = {}
      BY <3>1
    <3>. QED
      BY <3>1, <3>2 DEF GeminiChatInv, GeminiChatCalled, GeminiChatIndexes
  <2>. QED
    BY <1>3, <1>4, <2>1
<1>12. GeminiChatCalled'
  BY <1>1, <1>5, <1>9, <1>10, <1>11 DEF GeminiChatCalled
<1>13. ASSUME "again" \notin aExcuses' PROVE ~aSeen'.broken
  <2>1. ~aSeen.broken /\ (~(aIndex > 0) \/ parts = << >>)
    BY <1>2, <1>13 DEF GeminiChatInv
  <2>2. CASE parts = << >>
    <3>1. n = 0 /\ GeminiChat!ChunkPieces(parts) = GeminiChat!NoPieces
      BY <2>2, GeminiChatTimes, GeminiChatPieces
    <3>2. I = {}
      <4>1. 0..(n - 1) = {}
        BY <3>1
      <4>. QED
        BY <4>1 DEF GeminiChatIndexes
    <3>3. ~(Cardinality(I) < n)
      BY <3>1, <3>2, FS_EmptySet
    <3>. QED
      BY <1>3, <1>4, <2>1, <3>1, <3>2, <3>3
  <2>3. CASE ~(aIndex > 0)
    <3>1. aIndex = 0
      BY <1>5, <2>3
    <3>2. ~(Cardinality(I) < n)
      BY <3>1, GeminiChatNumbered
    <3>3. aSeen.indexes = {} /\ aSeen.finish = "none"
      BY <1>1, <2>3, <3>1 DEF GeminiChatInv, GeminiChatCalled
    <3>. QED
      BY <1>3, <1>4, <2>1, <3>2, <3>3
  <2>. QED
    BY <2>1, <2>2, <2>3
<1>14. ASSUME "twice" \notin aExcuses' PROVE aSeen'.texts = aTexts'
  <2>1. aSeen.texts = aTexts /\ ~twice
    BY <1>2, <1>14 DEF GeminiChatInv
  <2>2. \A k \in GeminiChat!Piece :
          GeminiChat!ChunkPieces(parts)[k] = GeminiChat!Times(parts, k)
    BY <2>1, GeminiChatPieces
  <2>. QED
    BY <1>1, <1>3, <1>4, <2>1, <2>2
<1>15. ~aOver' => aSeen'.finish = IF aIndex' > 0 THEN "tool_calls" ELSE "none"
  <2>1. ASSUME r = "none" PROVE f = IF aIndex + n > 0 THEN "tool_calls" ELSE "none"
    <3>1. aSeen.finish = IF aIndex > 0 THEN "tool_calls" ELSE "none"
      BY <1>1 DEF GeminiChatInv
    <3>2. n > 0 => aIndex + n > 0
      BY <1>5
    <3>3. ~(n > 0) => aIndex + n = aIndex
      BY <1>5
    <3>. QED
      BY <2>1, <3>1, <3>2, <3>3
  <2>. QED
    BY <1>1, <1>4, <2>1
<1>16. aOver' /\ aExcuses' \cap {"apart", "length"} = {} =>
         aSeen'.finish = IF aIndex' > 0 THEN "tool_calls" ELSE aReason'
  <2>1. ASSUME r # "none", aExcuses' \cap {"apart", "length"} = {}
        PROVE  f = IF aIndex + n > 0 THEN "tool_calls" ELSE r
    <3>1. r = "stop" /\ ~(aIndex > 0 /\ n = 0)
      BY <1>2, <2>1
    <3>2. CASE n > 0
      <4>1. aIndex + n > 0
        BY <1>5, <3>2
      <4>. QED
        BY <3>2, <4>1
    <3>3. CASE ~(n > 0)
      <4>1. n = 0
        BY <3>3
      <4>2. ~(aIndex + n > 0)
        BY <1>5, <3>1, <4>1
      <4>. QED
        BY <3>1, <3>3, <4>2 DEF GeminiChat!ReasonOf
    <3>. QED
      BY <3>2, <3>3
  <2>. QED
    BY <1>1, <1>4, <2>1
<1>. QED
  BY <1>8, <1>12, <1>13, <1>14, <1>15, <1>16 DEF GeminiChatInv

LEMMA GeminiChatNext == ASSUME GeminiChatInv, GeminiChat!Next PROVE GeminiChatInv'
  BY GeminiChatChunk DEF GeminiChat!Next

LEMMA GeminiChatInit == ASSUME GeminiChat!Init PROVE GeminiChatInv
<1>1. GeminiChat!NewReader \in GeminiChat!Reader
  BY DEF GeminiChat!NewReader, GeminiChat!Reader, GeminiChat!NoPieces, GeminiChat!NoCalls
<1>2. /\ GeminiChat!NoPieces \in [GeminiChat!Piece -> Nat]
      /\ GeminiChat!NoCalls \in [Numbered -> Nat]
      /\ \A x \in Numbered : GeminiChat!NoCalls[x] = 0 /\ ~(x < 0)
  BY NumberedCalls DEF GeminiChat!NoPieces, GeminiChat!NoCalls
<1>3. /\ GeminiChat!NewReader.texts = GeminiChat!NoPieces /\ ~GeminiChat!NewReader.broken
      /\ GeminiChat!NewReader.calls = GeminiChat!NoCalls
      /\ GeminiChat!NewReader.indexes = {} /\ GeminiChat!NewReader.finish = "none"
  BY DEF GeminiChat!NewReader
<1>4. 0 \in 0..Chunks /\ 0 \in 0..(ChunkParts * Chunks) /\ 0 <= ChunkParts * 0 /\ ~(0 > 0)
  BY NumberedCalls
<1>5. GeminiChat!TypeOK
  BY <1>1, <1>2, <1>4 DEF GeminiChat!Init, GeminiChat!TypeOK
<1>6. GeminiChatCalled
  BY <1>2, <1>3, <1>4 DEF GeminiChat!Init, GeminiChatCalled
<1>. QED
  BY <1>3, <1>4, <1>5, <1>6 DEF GeminiChat!Init, GeminiChatInv

LEMMA GeminiChatWellFormed ==
  ASSUME GeminiChatInv
  PROVE  GeminiChat!TypeOK /\ GeminiChat!AnswerWellFormed
<1>1. aCalls # GeminiChat!NoCalls <=> aIndex > 0
  <2>1. CASE aIndex > 0
    <3>1. 0 \in Numbered /\ aCalls[0] = 1
      <4>1. 0 \in 0..(Chunks - 1)
        BY NumberedCalls
      <4>. QED
        BY <2>1, <4>1, NumberedCalls DEF GeminiChatInv, GeminiChatCalled
    <3>. QED
      BY <2>1, <3>1 DEF GeminiChat!NoCalls
  <2>2. CASE ~(aIndex > 0)
    <3>1. \A x \in Numbered : aCalls[x] = 0
      <4>1. \A x \in Numbered : ~(x < aIndex)
        BY <2>2, GeminiChatTyped, NumberedCalls
      <4>. QED
        BY <4>1 DEF GeminiChatInv, GeminiChatCalled
    <3>. QED
      BY <2>2, <3>1, GeminiChatTyped DEF GeminiChat!NoCalls
  <2>. QED
    BY <2>1, <2>2
<1>2. aSeen.calls = aCalls
  BY DEF GeminiChatInv, GeminiChatCalled
<1>. QED
  BY <1>1, <1>2 DEF GeminiChatInv, GeminiChat!AnswerWellFormed, GeminiChat!Whole

-----------------------------------------------------------------------------
(* OpenAIToGemini: chat completions for a client of Gemini's API. *)

\* The instances have the operators of the library under names of their own.
LEMMA OpenAIGeminiSets ==
  /\ \A S : OpenAIGemini!IsFiniteSet(S) <=> IsFiniteSet(S)
  /\ \A S : OpenAIGemini!Cardinality(S) = Cardinality(S)
<1>1. \A S : OpenAIGemini!IsFiniteSet(S) <=> IsFiniteSet(S)
  BY DEF OpenAIGemini!IsFiniteSet, IsFiniteSet
<1>2. \A S : OpenAIGemini!Cardinality(S) = Cardinality(S)
  BY DEF OpenAIGemini!Cardinality, Cardinality
<1>. QED
  BY <1>1, <1>2

\* What the client has seen after a chunk, field by field.
LEMMA OpenAIGeminiRead ==
  ASSUME NEW c \in OpenAIGemini!Reader, NEW k \in OpenAIGemini!Piece
  PROVE  /\ OpenAIGemini!Read(c, k) \in OpenAIGemini!Reader
         /\ OpenAIGemini!Read(c, k).texts = [c.texts EXCEPT ![k] = @ + 1]
         /\ OpenAIGemini!Read(c, k).calls = c.calls
         /\ OpenAIGemini!Read(c, k).indexes = c.indexes
         /\ OpenAIGemini!Read(c, k).finish = c.finish
         /\ OpenAIGemini!Read(c, k).broken <=> c.broken \/ c.finish # "none"
<1>1. [c.texts EXCEPT ![k] = @ + 1] \in [OpenAIGemini!Piece -> Nat]
  BY DEF OpenAIGemini!Reader
<1>2. PICK t \in [OpenAIGemini!Piece -> Nat] : t = [c.texts EXCEPT ![k] = @ + 1]
  BY <1>1
<1>3. PICK e \in BOOLEAN : e <=> c.broken \/ c.finish # "none"
  OBVIOUS
<1>4. OpenAIGemini!Read(c, k) = [c EXCEPT !.texts = t, !.broken = e]
  BY <1>2, <1>3, Zenon DEF OpenAIGemini!Read
<1>. QED
  BY <1>2, <1>3, <1>4 DEF OpenAIGemini!Reader

LEMMA OpenAIGeminiReadFinish ==
  ASSUME NEW c \in OpenAIGemini!Reader, NEW reason \in OpenAIGemini!Reason \cup {"none", OpenAIGemini!Unknown}
  PROVE  /\ OpenAIGemini!ReadFinish(c, reason) \in OpenAIGemini!Reader
         /\ OpenAIGemini!ReadFinish(c, reason).texts = c.texts
         /\ OpenAIGemini!ReadFinish(c, reason).calls = c.calls
         /\ OpenAIGemini!ReadFinish(c, reason).indexes = c.indexes
         /\ OpenAIGemini!ReadFinish(c, reason).finish = reason
         /\ OpenAIGemini!ReadFinish(c, reason).broken <=> c.broken
  BY DEF OpenAIGemini!ReadFinish, OpenAIGemini!Reader

LEMMA OpenAIGeminiReadAll ==
  ASSUME NEW c \in OpenAIGemini!Reader, NEW said
  PROVE  /\ OpenAIGemini!ReadAll(c, said) \in OpenAIGemini!Reader
         /\ OpenAIGemini!ReadAll(c, said).texts
              = [k \in OpenAIGemini!Piece |-> c.texts[k] + IF k \in said THEN 1 ELSE 0]
         /\ OpenAIGemini!ReadAll(c, said).calls = c.calls
         /\ OpenAIGemini!ReadAll(c, said).indexes = c.indexes
         /\ OpenAIGemini!ReadAll(c, said).finish = c.finish
         /\ OpenAIGemini!ReadAll(c, said).broken
              <=> c.broken \/ (said # {} /\ c.finish # "none")
<1>1. [k \in OpenAIGemini!Piece |-> c.texts[k] + IF k \in said THEN 1 ELSE 0]
        \in [OpenAIGemini!Piece -> Nat]
  BY DEF OpenAIGemini!Reader
<1>. PICK t \in [OpenAIGemini!Piece -> Nat] :
       t = [k \in OpenAIGemini!Piece |-> c.texts[k] + IF k \in said THEN 1 ELSE 0]
  BY <1>1
<1>. PICK e \in BOOLEAN : e <=> c.broken \/ (said # {} /\ c.finish # "none")
  OBVIOUS
<1>2. PICK d : d = [c EXCEPT !.texts = t, !.broken = e]
  OBVIOUS
<1>3. /\ d \in OpenAIGemini!Reader /\ d.texts = t /\ d.calls = c.calls /\ d.indexes = c.indexes
      /\ d.finish = c.finish /\ (d.broken <=> e)
  BY <1>2 DEF OpenAIGemini!Reader
<1>4. c.broken \in BOOLEAN
  BY DEF OpenAIGemini!Reader
<1>5. OpenAIGemini!ReadAll(c, said) = d
  BY <1>2, <1>4 DEF OpenAIGemini!ReadAll, OpenAIGemini!Reader
<1>. QED
  BY <1>3, <1>5

LEMMA NumberedIsFinite == IsFiniteSet(Numbered)
<1>1. 0 \in Int /\ ChunkParts * Chunks - 1 \in Int
  BY NumberedCalls
<1>. QED
  BY <1>1, FS_Interval DEF Numbered

\* What the client has seen after the calls that are kept, field by field.
LEMMA OpenAIGeminiReadPending ==
  ASSUME NEW c \in OpenAIGemini!Reader, IsFiniteSet(c.indexes), aKept \in [Numbered -> Nat],
         NEW P, P = OpenAIGemini!Pending
  PROVE  /\ OpenAIGemini!ReadPending(c) \in OpenAIGemini!Reader
         /\ OpenAIGemini!ReadPending(c).texts = c.texts
         /\ OpenAIGemini!ReadPending(c).calls
              = [x \in Numbered |-> IF x \in P THEN aKept[x] ELSE c.calls[x]]
         /\ IsFiniteSet(OpenAIGemini!ReadPending(c).indexes)
         /\ OpenAIGemini!ReadPending(c).finish = c.finish
         /\ OpenAIGemini!ReadPending(c).broken
              <=> c.broken \/ \E x \in P : c.calls[x] > 0 \/ c.finish # "none"
<1>1. P \subseteq Numbered
  BY DEF OpenAIGemini!Pending
<1>2. IsFiniteSet(P)
  BY <1>1, NumberedIsFinite, FS_Subset
<1>3. PICK n \in Nat : n = Cardinality(c.indexes)
  BY FS_CardinalityType
<1>4. PICK m \in Nat : m = Cardinality(P)
  BY <1>2, FS_CardinalityType
<1>5. 0..(n + m - 1) \in SUBSET Nat /\ IsFiniteSet(0..(n + m - 1))
  <2>1. 0 \in Int /\ n + m - 1 \in Int
    OBVIOUS
  <2>2. IsFiniteSet(0..(n + m - 1))
    BY <2>1, FS_Interval
  <2>. QED
    BY <2>2
<1>. PICK u \in SUBSET Nat : u = 0..(n + m - 1)
  BY <1>5
<1>6. [x \in Numbered |-> IF x \in P THEN aKept[x] ELSE c.calls[x]] \in [Numbered -> Nat]
  BY DEF OpenAIGemini!Reader
<1>. PICK s \in [Numbered -> Nat] :
       s = [x \in Numbered |-> IF x \in P THEN aKept[x] ELSE c.calls[x]]
  BY <1>6
<1>. PICK e \in BOOLEAN : e <=> c.broken \/ \E x \in P : c.calls[x] > 0 \/ c.finish # "none"
  OBVIOUS
<1>7. OpenAIGemini!ReadPending(c)
        = [c EXCEPT !.calls = [x \in Numbered |-> IF x \in P THEN aKept[x] ELSE @[x]],
                    !.indexes = 0..(n + m - 1),
                    !.broken = @ \/ \E x \in P : c.calls[x] > 0 \/ c.finish # "none"]
  BY <1>3, <1>4, OpenAIGeminiSets, Zenon DEF OpenAIGemini!ReadPending
<1>8. PICK d : d = [c EXCEPT !.calls = s, !.indexes = u, !.broken = e]
  OBVIOUS
<1>9. /\ d \in OpenAIGemini!Reader /\ d.texts = c.texts /\ d.calls = s /\ d.indexes = u
      /\ d.finish = c.finish /\ (d.broken <=> e)
  BY <1>8 DEF OpenAIGemini!Reader
<1>10. c.broken \in BOOLEAN
  BY DEF OpenAIGemini!Reader
<1>11. OpenAIGemini!ReadPending(c) = d
  BY <1>7, <1>8, <1>10 DEF OpenAIGemini!Reader
<1>. QED
  BY <1>5, <1>9, <1>11

\* Without excuse the calls are kept until the provider is at its end, and then sent.
OpenAIGeminiKept ==
  aExcuses \cap {"crowded", "split"} = {} =>
    /\ aSeen.texts = aTexts
    /\ ~aOver => aSeen.calls = OpenAIGemini!NoCalls /\ aKept = aCalls
    /\ aOver => aSeen.calls = aCalls /\ aSeen.finish = OpenAIGemini!ReasonOf(aReason)
    /\ "early" \notin aExcuses => ~aSeen.broken /\ (~aOver => aSeen.finish = "none")

OpenAIGeminiInv == OpenAIGemini!TypeOK /\ IsFiniteSet(aSeen.indexes) /\ OpenAIGeminiKept

LEMMA OpenAIGeminiTyped ==
  ASSUME OpenAIGeminiInv
  PROVE  /\ aSeen \in OpenAIGemini!Reader /\ aChunks \in 0..Chunks /\ aChunks \in Nat
         /\ aOver \in BOOLEAN /\ aKept \in [Numbered -> Nat]
         /\ aTexts \in [OpenAIGemini!Piece -> Nat] /\ aCalls \in [Numbered -> Nat]
         /\ aExcuses \subseteq {"crowded", "early", "split"}
         /\ IsFiniteSet(aSeen.indexes)
<1>1. OpenAIGemini!TypeOK
  BY DEF OpenAIGeminiInv
<1>2. aChunks \in 0..Chunks
  BY <1>1 DEF OpenAIGemini!TypeOK
<1>3. aChunks \in Nat
  BY <1>2, NumberedCalls
<1>. QED
  BY <1>1, <1>2, <1>3 DEF OpenAIGeminiInv, OpenAIGemini!TypeOK

LEMMA OpenAIGeminiChunk ==
  ASSUME OpenAIGeminiInv, NEW said \in SUBSET {"text", "thought"}, NEW asked \in SUBSET TwoAsked,
         NEW r \in OpenAIGemini!Reason \cup {"absent", "null"},
         OpenAIGemini!Chunk(said, asked, r)
  PROVE  OpenAIGeminiInv'
<1>. PICK P : P = OpenAIGemini!Pending
  OBVIOUS
<1>1. /\ ~aOver /\ aChunks < Chunks /\ aChunks' = aChunks + 1
      /\ aOver' = (r \in OpenAIGemini!Reason)
      /\ aReason' = IF r \in OpenAIGemini!Reason THEN r ELSE "none"
      /\ aTexts' = [k \in OpenAIGemini!Piece |-> aTexts[k] + IF k \in said THEN 1 ELSE 0]
      /\ aCalls' = [x \in Numbered |-> aCalls[x] + IF x \in asked THEN 1 ELSE 0]
  BY DEF OpenAIGemini!Chunk
<1>2. IF said # {}
      THEN aSeen' = OpenAIGemini!ReadAll(aSeen, said) /\ aKept' = aKept
      ELSE IF asked # {}
      THEN /\ aKept' = [x \in Numbered |-> aKept[x] + IF x \in asked THEN 1 ELSE 0]
           /\ aSeen' = aSeen
      ELSE IF r # "absent"
      THEN /\ aSeen' = OpenAIGemini!ReadFinish(OpenAIGemini!ReadPending(aSeen),
                                              OpenAIGemini!ReasonOf(r))
           /\ aKept' = OpenAIGemini!NoCalls
      ELSE aSeen' = aSeen /\ aKept' = aKept
  BY DEF OpenAIGemini!Chunk
<1>3. aExcuses' = aExcuses
       \cup (IF \/ said # {} /\ (asked # {} \/ r \in OpenAIGemini!Reason)
                \/ asked # {} /\ r \in OpenAIGemini!Reason
             THEN {"crowded"} ELSE {})
       \cup (IF said = {} /\ asked = {} /\ r = "null"
             THEN {"early"} \cup (IF P # {} THEN {"split"} ELSE {}) ELSE {})
  BY DEF OpenAIGemini!Chunk
<1>4. /\ aChunks' \in 0..Chunks
      /\ aTexts' \in [OpenAIGemini!Piece -> Nat] /\ aCalls' \in [Numbered -> Nat]
      /\ aReason' \in OpenAIGemini!Reason \cup {"none"}
  <2>1. aChunks' \in 0..Chunks
    BY <1>1, NumberedCalls, OpenAIGeminiTyped
  <2>2. aTexts' \in [OpenAIGemini!Piece -> Nat]
    BY <1>1, OpenAIGeminiTyped
  <2>3. aCalls' \in [Numbered -> Nat]
    BY <1>1, OpenAIGeminiTyped
  <2>. QED
    BY <1>1, <2>1, <2>2, <2>3
<1>5. aExcuses' \subseteq {"crowded", "early", "split"} /\ aExcuses \subseteq aExcuses'
  BY <1>3, OpenAIGeminiTyped
<1>6. "null" \notin OpenAIGemini!Reason /\ "absent" \notin OpenAIGemini!Reason
      /\ OpenAIGemini!ReasonOf(r) \in OpenAIGemini!Reason \cup {"none", OpenAIGemini!Unknown}
      /\ OpenAIGemini!NoCalls \in [Numbered -> Nat] /\ OpenAIGemini!NoCalls' = OpenAIGemini!NoCalls
      /\ \A x \in Numbered : OpenAIGemini!NoCalls[x] = 0
  BY DEF OpenAIGemini!Reason, OpenAIGemini!ReasonOf, OpenAIGemini!NoCalls
<1>7. asked = {} => aCalls' = aCalls
  <2>1. ASSUME asked = {} PROVE \A x \in Numbered : aCalls'[x] = aCalls[x]
    BY <1>1, <2>1, OpenAIGeminiTyped
  <2>. QED
    BY <1>4, <2>1, OpenAIGeminiTyped
<1>8. said = {} => aTexts' = aTexts
  <2>1. ASSUME said = {} PROVE \A k \in OpenAIGemini!Piece : aTexts'[k] = aTexts[k]
    BY <1>1, <2>1, OpenAIGeminiTyped
  <2>. QED
    BY <1>4, <2>1, OpenAIGeminiTyped
<1>9. ASSUME aSeen' \in OpenAIGemini!Reader, IsFiniteSet(aSeen'.indexes),
             aKept' \in [Numbered -> Nat], OpenAIGeminiKept'
      PROVE  OpenAIGeminiInv'
  BY <1>1, <1>4, <1>5, <1>9 DEF OpenAIGeminiInv, OpenAIGemini!TypeOK
<1>10. ASSUME aExcuses' \cap {"crowded", "split"} = {}
       PROVE  /\ aExcuses \cap {"crowded", "split"} = {}
              /\ said # {} => asked = {} /\ ~aOver'
              /\ asked # {} => ~aOver'
              /\ said = {} /\ asked = {} /\ r = "null" => P = {}
              /\ aSeen.texts = aTexts /\ aSeen.calls = OpenAIGemini!NoCalls /\ aKept = aCalls
              /\ "early" \notin aExcuses =>
                   ~aSeen.broken /\ aSeen.finish = "none"
  <2>1. aExcuses \cap {"crowded", "split"} = {}
    BY <1>5, <1>10
  <2>2. "crowded" \notin aExcuses' /\ "split" \notin aExcuses'
    BY <1>10
  <2>3. (said # {} => asked = {} /\ ~aOver') /\ (asked # {} => ~aOver')
    BY <1>1, <1>3, <2>2
  <2>4. said = {} /\ asked = {} /\ r = "null" => P = {}
    BY <1>3, <2>2
  <2>. QED
    BY <1>1, <2>1, <2>3, <2>4 DEF OpenAIGeminiInv, OpenAIGeminiKept
<1>11. CASE said # {}
  <2>1. aSeen' = OpenAIGemini!ReadAll(aSeen, said) /\ aKept' = aKept
    BY <1>2, <1>11
  <2>2. /\ aSeen' \in OpenAIGemini!Reader
        /\ aSeen'.texts
             = [k \in OpenAIGemini!Piece |-> aSeen.texts[k] + IF k \in said THEN 1 ELSE 0]
        /\ aSeen'.calls = aSeen.calls /\ aSeen'.indexes = aSeen.indexes
        /\ aSeen'.finish = aSeen.finish
        /\ aSeen'.broken <=> aSeen.broken \/ (said # {} /\ aSeen.finish # "none")
    BY <2>1, OpenAIGeminiTyped, OpenAIGeminiReadAll
  <2>3. ASSUME aExcuses' \cap {"crowded", "split"} = {}
        PROVE  /\ aSeen'.texts = aTexts' /\ aSeen'.calls = OpenAIGemini!NoCalls
               /\ aKept' = aCalls' /\ ~aOver'
               /\ "early" \notin aExcuses' => ~aSeen'.broken /\ aSeen'.finish = "none"
    <3>1. asked = {} /\ ~aOver' /\ aSeen.texts = aTexts /\ aSeen.calls = OpenAIGemini!NoCalls
          /\ aKept = aCalls /\ ("early" \notin aExcuses => ~aSeen.broken /\ aSeen.finish = "none")
      BY <1>10, <1>11, <2>3
    <3>2. aCalls' = aCalls
      BY <1>7, <3>1
    <3>. QED
      BY <1>1, <1>5, <2>1, <2>2, <3>1, <3>2
  <2>4. OpenAIGeminiKept'
    BY <1>6, <2>3 DEF OpenAIGeminiKept
  <2>. QED
    BY <1>9, <2>1, <2>2, <2>4, OpenAIGeminiTyped
<1>12. CASE said = {} /\ asked # {}
  <2>1. /\ aKept' = [x \in Numbered |-> aKept[x] + IF x \in asked THEN 1 ELSE 0]
        /\ aSeen' = aSeen
    BY <1>2, <1>12
  <2>2. aKept' \in [Numbered -> Nat]
    BY <2>1, OpenAIGeminiTyped
  <2>3. ASSUME aExcuses' \cap {"crowded", "split"} = {}
        PROVE  /\ aSeen'.texts = aTexts' /\ aSeen'.calls = OpenAIGemini!NoCalls
               /\ aKept' = aCalls' /\ ~aOver'
               /\ "early" \notin aExcuses' => ~aSeen'.broken /\ aSeen'.finish = "none"
    BY <1>1, <1>5, <1>8, <1>10, <1>12, <2>1, <2>3
  <2>4. OpenAIGeminiKept'
    BY <1>6, <2>3 DEF OpenAIGeminiKept
  <2>. QED
    BY <1>9, <2>1, <2>2, <2>4, OpenAIGeminiTyped
<1>13. CASE said = {} /\ asked = {} /\ r # "absent"
  <2>. PICK d \in OpenAIGemini!Reader : d = OpenAIGemini!ReadPending(aSeen)
    BY OpenAIGeminiTyped, OpenAIGeminiReadPending
  <2>1. aSeen' = OpenAIGemini!ReadFinish(d, OpenAIGemini!ReasonOf(r)) /\ aKept' = OpenAIGemini!NoCalls
    BY <1>2, <1>13
  <2>2. /\ d.texts = aSeen.texts
        /\ d.calls = [x \in Numbered |-> IF x \in P THEN aKept[x] ELSE aSeen.calls[x]]
        /\ IsFiniteSet(d.indexes)
        /\ d.broken <=> aSeen.broken \/ \E x \in P : aSeen.calls[x] > 0 \/ aSeen.finish # "none"
    BY OpenAIGeminiTyped, OpenAIGeminiReadPending
  <2>3. /\ aSeen' \in OpenAIGemini!Reader /\ aSeen'.texts = d.texts /\ aSeen'.calls = d.calls
        /\ aSeen'.indexes = d.indexes /\ aSeen'.finish = OpenAIGemini!ReasonOf(r)
        /\ (aSeen'.broken <=> d.broken)
    BY <1>6, <2>1, OpenAIGeminiReadFinish
  <2>4. \A x \in Numbered : x \in P <=> aKept[x] > 0
    BY DEF OpenAIGemini!Pending
  <2>5. P \subseteq Numbered
    BY DEF OpenAIGemini!Pending
  <2>6. ASSUME aExcuses' \cap {"crowded", "split"} = {}
        PROVE  /\ aSeen'.texts = aTexts' /\ aSeen'.calls = aCalls'
               /\ "early" \notin aExcuses' => ~aSeen'.broken
    <3>1. /\ aSeen.texts = aTexts /\ aSeen.calls = OpenAIGemini!NoCalls /\ aKept = aCalls
          /\ "early" \notin aExcuses => ~aSeen.broken /\ aSeen.finish = "none"
      BY <1>10, <2>6
    <3>2. aTexts' = aTexts /\ aCalls' = aCalls
      BY <1>7, <1>8, <1>13
    <3>3. \A x \in Numbered : d.calls[x] = aCalls[x]
      <4>1. ASSUME NEW x \in Numbered PROVE d.calls[x] = aCalls[x]
        <5>1. aKept[x] \in Nat /\ aSeen.calls[x] = 0 /\ aKept[x] = aCalls[x]
          BY <1>6, <3>1, OpenAIGeminiTyped
        <5>2. d.calls[x] = IF aKept[x] > 0 THEN aKept[x] ELSE aSeen.calls[x]
          BY <2>2, <2>4
        <5>. QED
          BY <5>1, <5>2
      <4>. QED
        BY <4>1
    <3>4. d.calls = aCalls
      <4>1. d.calls \in [Numbered -> Nat]
        BY DEF OpenAIGemini!Reader
      <4>. QED
        BY <3>3, <4>1, OpenAIGeminiTyped
    <3>5. ASSUME "early" \notin aExcuses' PROVE ~d.broken
      <4>1. ~aSeen.broken /\ aSeen.finish = "none"
        BY <1>5, <3>1, <3>5
      <4>2. \A x \in P : ~(aSeen.calls[x] > 0)
        BY <1>6, <2>5, <3>1
      <4>. QED
        BY <2>2, <4>1, <4>2
    <3>. QED
      BY <2>2, <2>3, <3>1, <3>2, <3>4, <3>5
  <2>7. aOver' => OpenAIGemini!ReasonOf(aReason)' = OpenAIGemini!ReasonOf(r)
    BY <1>1 DEF OpenAIGemini!ReasonOf
  <2>8. ASSUME aExcuses' \cap {"crowded", "split"} = {}, ~aOver'
        PROVE  aSeen'.calls = OpenAIGemini!NoCalls /\ aKept' = aCalls' /\ "early" \in aExcuses'
    <3>1. r = "null"
      BY <1>1, <1>13, <2>8
    <3>2. P = {} /\ aKept = aCalls
      BY <1>10, <1>13, <2>8, <3>1
    <3>3. \A x \in Numbered : aCalls[x] = 0
      <4>1. \A x \in Numbered : aKept[x] \in Nat /\ ~(aKept[x] > 0)
        BY <2>4, <3>2, OpenAIGeminiTyped
      <4>. QED
        BY <3>2, <4>1
    <3>4. aCalls = OpenAIGemini!NoCalls
      BY <1>6, <3>3, OpenAIGeminiTyped
    <3>5. aCalls' = aCalls
      BY <1>7, <1>13
    <3>6. "early" \in aExcuses'
      BY <1>3, <1>13, <3>1
    <3>. QED
      BY <2>1, <2>6, <2>8, <3>4, <3>5, <3>6
  <2>9. OpenAIGeminiKept'
    BY <1>6, <2>3, <2>6, <2>7, <2>8 DEF OpenAIGeminiKept
  <2>. QED
    BY <1>6, <1>9, <2>1, <2>2, <2>3, <2>9
<1>14. CASE said = {} /\ asked = {} /\ r = "absent"
  <2>1. aSeen' = aSeen /\ aKept' = aKept /\ aTexts' = aTexts /\ aCalls' = aCalls /\ ~aOver'
    BY <1>1, <1>2, <1>6, <1>7, <1>8, <1>14
  <2>2. OpenAIGeminiKept'
    BY <1>5, <1>6, <1>10, <2>1 DEF OpenAIGeminiKept
  <2>. QED
    BY <1>9, <2>1, <2>2, OpenAIGeminiTyped
<1>. QED
  BY <1>11, <1>12, <1>13, <1>14

LEMMA OpenAIGeminiNext == ASSUME OpenAIGeminiInv, OpenAIGemini!Next PROVE OpenAIGeminiInv'
  BY OpenAIGeminiChunk DEF OpenAIGemini!Next

LEMMA OpenAIGeminiInit == ASSUME OpenAIGemini!Init PROVE OpenAIGeminiInv
<1>1. OpenAIGemini!NewReader \in OpenAIGemini!Reader
  BY DEF OpenAIGemini!NewReader, OpenAIGemini!Reader, OpenAIGemini!NoPieces, OpenAIGemini!NoCalls
<1>2. /\ OpenAIGemini!NoPieces \in [OpenAIGemini!Piece -> Nat]
      /\ OpenAIGemini!NoCalls \in [Numbered -> Nat]
  BY DEF OpenAIGemini!NoPieces, OpenAIGemini!NoCalls
<1>3. /\ OpenAIGemini!NewReader.texts = OpenAIGemini!NoPieces /\ ~OpenAIGemini!NewReader.broken
      /\ OpenAIGemini!NewReader.calls = OpenAIGemini!NoCalls
      /\ OpenAIGemini!NewReader.indexes = {} /\ OpenAIGemini!NewReader.finish = "none"
  BY DEF OpenAIGemini!NewReader
<1>4. 0 \in 0..Chunks
  BY NumberedCalls
<1>5. OpenAIGemini!TypeOK
  BY <1>1, <1>2, <1>4 DEF OpenAIGemini!Init, OpenAIGemini!TypeOK
<1>6. OpenAIGeminiKept
  BY <1>3 DEF OpenAIGemini!Init, OpenAIGeminiKept
<1>. QED
  BY <1>3, <1>5, <1>6, FS_EmptySet DEF OpenAIGemini!Init, OpenAIGeminiInv

LEMMA OpenAIGeminiWellFormed ==
  ASSUME OpenAIGeminiInv
  PROVE  OpenAIGemini!TypeOK /\ OpenAIGemini!AnswerWellFormed
  BY DEF OpenAIGeminiInv, OpenAIGeminiKept, OpenAIGemini!AnswerWellFormed, OpenAIGemini!Whole

-----------------------------------------------------------------------------
(* The answers side by side: the translator that is chosen has its invariant. *)

AnswersInv ==
  /\ answer \in Answer
  /\ answer = "gemini" => GeminiInv
  /\ answer = "claude" => ClaudeInv
  /\ answer = "openai" => OpenAIInv
  /\ answer = "codex" => CodexInv
  /\ answer = "claudeChat" => ClaudeChatInv
  /\ answer = "claudeGemini" => ClaudeGeminiInv
  /\ answer = "codexChunks" => CodexChunksInv
  /\ answer = "geminiChat" => GeminiChatInv
  /\ answer = "openaiGemini" => OpenAIGeminiInv

LEMMA AnswersStart == ASSUME AnswersInit PROVE AnswersInv
  BY GeminiInit, ClaudeInit, OpenAIInit, CodexInit, ClaudeChatInit, ClaudeGeminiInit,
     CodexChunksInit, GeminiChatInit, OpenAIGeminiInit
     DEF AnswersInit, ChunksInit, AnswersInv

LEMMA AnswersStep == ASSUME AnswersInv, AnswersNext PROVE AnswersInv'
<1>1. answer' = answer /\ answer \in Answer
  BY DEF AnswersInv, AnswersNext
<1>2. \/ answer = "gemini" /\ Gemini!Next
      \/ answer = "claude" /\ Claude!Next
      \/ answer = "openai" /\ OpenAI!Next
      \/ answer = "codex" /\ Codex!Next
      \/ answer = "claudeChat" /\ ClaudeChat!Next
      \/ answer = "claudeGemini" /\ ClaudeGemini!Next
      \/ answer = "codexChunks" /\ CodexChunks!Next
      \/ answer = "geminiChat" /\ GeminiChat!Next
      \/ answer = "openaiGemini" /\ OpenAIGemini!Next
  BY DEF AnswersNext, ChunksNext
<1>3. /\ answer = "gemini" => GeminiInv'
      /\ answer = "claude" => ClaudeInv'
      /\ answer = "openai" => OpenAIInv'
      /\ answer = "codex" => CodexInv'
  BY <1>2, GeminiNext, ClaudeNext, OpenAINext, CodexNext DEF AnswersInv
<1>4. /\ answer = "claudeChat" => ClaudeChatInv'
      /\ answer = "claudeGemini" => ClaudeGeminiInv'
      /\ answer = "codexChunks" => CodexChunksInv'
      /\ answer = "geminiChat" => GeminiChatInv'
      /\ answer = "openaiGemini" => OpenAIGeminiInv'
  BY <1>2, ClaudeChatNext, ClaudeGeminiNext, CodexChunksNext, GeminiChatNext, OpenAIGeminiNext
     DEF AnswersInv
<1>. QED
  BY <1>1, <1>3, <1>4 DEF AnswersInv

LEMMA ResponsesStay ==
  ASSUME UNCHANGED <<gemini, claude, openai, codex>>
  PROVE  /\ GeminiInv => GeminiInv'
         /\ ClaudeInv => ClaudeInv'
         /\ OpenAIInv => OpenAIInv'
         /\ CodexInv => CodexInv'
<1>1. ASSUME GeminiInv PROVE GeminiInv'
  BY <1>1 DEF gemini, GeminiInv, GeminiGot, GeminiKnown, Gemini!TypeOK
<1>2. ASSUME ClaudeInv PROVE ClaudeInv'
  BY <1>2 DEF claude, ClaudeInv, ClaudeBlocks, ClaudeSeen, ClaudeGot, ClaudeKnown, ClaudeAtHand,
              Claude!TypeOK
<1>3. ASSUME OpenAIInv PROVE OpenAIInv'
  BY <1>3 DEF openai, OpenAIInv, OpenAISeen, OpenAIKept, OpenAIGot, OpenAIKnown, OpenAIPieces,
              OpenAIEnded, OpenAI!TypeOK
<1>4. ASSUME CodexInv PROVE CodexInv'
  BY <1>4 DEF codex, CodexInv, CodexSeen, CodexOpen, Codex!BlockKind, Codex!TypeOK
<1>. QED
  BY <1>1, <1>2, <1>3, <1>4

LEMMA ChunksStay ==
  ASSUME UNCHANGED chunks
  PROVE  /\ ClaudeChatInv => ClaudeChatInv'
         /\ ClaudeGeminiInv => ClaudeGeminiInv'
         /\ CodexChunksInv => CodexChunksInv'
         /\ GeminiChatInv => GeminiChatInv'
         /\ OpenAIGeminiInv => OpenAIGeminiInv'
<1>. USE DEF chunks, claudeChunks, geminiChunks
<1>1. ASSUME ClaudeChatInv PROVE ClaudeChatInv'
  BY <1>1 DEF ClaudeChatInv, ClaudeChatKept, ClaudeChat!TypeOK, ClaudeChat!ReasonOf
<1>2. ASSUME ClaudeGeminiInv PROVE ClaudeGeminiInv'
  BY <1>2 DEF ClaudeGeminiInv, ClaudeGeminiKept, ClaudeGemini!TypeOK, ClaudeGemini!NoCalls
<1>3. ASSUME CodexChunksInv PROVE CodexChunksInv'
  BY <1>3 DEF CodexChunksInv, CodexChunksChat, CodexChunksGemini, CodexChunks!TypeOK,
              CodexChunks!NoCalls
<1>4. ASSUME GeminiChatInv PROVE GeminiChatInv'
  BY <1>4 DEF GeminiChatInv, GeminiChatCalled, GeminiChat!TypeOK
<1>5. ASSUME OpenAIGeminiInv PROVE OpenAIGeminiInv'
  BY <1>5 DEF OpenAIGeminiInv, OpenAIGeminiKept, OpenAIGemini!TypeOK, OpenAIGemini!NoCalls,
              OpenAIGemini!ReasonOf
<1>. QED
  BY <1>1, <1>2, <1>3, <1>4, <1>5

LEMMA AnswersStay == ASSUME AnswersInv, UNCHANGED answers PROVE AnswersInv'
<1>1. UNCHANGED <<gemini, claude, openai, codex>> /\ UNCHANGED chunks /\ answer' = answer
  BY DEF answers
<1>. QED
  BY <1>1, ResponsesStay, ChunksStay DEF AnswersInv

LEMMA AnswersSteps == [ProgressNext]_progressVars => AnswersNext \/ UNCHANGED answers
BY DEF ProgressNext, progressVars, others

\* What a translator keeps of an answer, and what its client has seen of it, in every
\* reachable state, for every number of events and of pieces
\* (ConvertGeminiResponseToOpenAIResponses, ConvertClaudeResponseToOpenAIResponses,
\* ConvertOpenAIChatCompletionsResponseToOpenAIResponses, ConvertCodexResponseToClaude,
\* ConvertClaudeResponseToOpenAI, ConvertClaudeResponseToGemini, ConvertCodexResponseToOpenAI,
\* ConvertCodexResponseToGemini, ConvertGeminiResponseToOpenAI, ConvertOpenAIResponseToGemini).
THEOREM AnswersAlways == ProgressSpec => []AnswersInv
<1>. USE DEF progressVars
<1>1. ProgressInit => AnswersInv
  BY AnswersStart DEF ProgressInit
<1>2. AnswersInv /\ [ProgressNext]_progressVars => AnswersInv'
  BY AnswersSteps, AnswersStep, AnswersStay
<1>. QED
  BY <1>1, <1>2, PTL DEF ProgressSpec

LEMMA AnswersTyped ==
  ASSUME AnswersInv
  PROVE  AnswersTypeOK /\ AnswersWellFormed
<1>1. /\ answer = "gemini" => Gemini!TypeOK /\ Gemini!AnswerWellFormed
      /\ answer = "claude" => Claude!TypeOK /\ Claude!AnswerWellFormed
      /\ answer = "openai" => OpenAI!TypeOK /\ OpenAI!AnswerWellFormed
      /\ answer = "codex" => Codex!TypeOK /\ Codex!AnswerWellFormed
      /\ answer = "claudeChat" => ClaudeChat!TypeOK /\ ClaudeChat!AnswerWellFormed
      /\ answer = "claudeGemini" => ClaudeGemini!TypeOK /\ ClaudeGemini!AnswerWellFormed
      /\ answer = "codexChunks" => CodexChunks!TypeOK /\ CodexChunks!AnswerWellFormed
      /\ answer = "geminiChat" => GeminiChat!TypeOK /\ GeminiChat!AnswerWellFormed
      /\ answer = "openaiGemini" => OpenAIGemini!TypeOK /\ OpenAIGemini!AnswerWellFormed
  BY GeminiWellFormed, ClaudeWellFormed, OpenAIWellFormed, CodexWellFormed, ClaudeChatWellFormed,
     ClaudeGeminiWellFormed, CodexChunksWellFormed, GeminiChatWellFormed, OpenAIGeminiWellFormed
     DEF AnswersInv
<1>2. CASE answer = "gemini"
  BY <1>1, <1>2 DEF AnswersTypeOK, AnswersWellFormed
<1>3. CASE answer = "claude"
  BY <1>1, <1>3 DEF AnswersTypeOK, AnswersWellFormed
<1>4. CASE answer = "openai"
  BY <1>1, <1>4 DEF AnswersTypeOK, AnswersWellFormed
<1>5. CASE answer = "codex"
  BY <1>1, <1>5 DEF AnswersTypeOK, AnswersWellFormed
<1>6. CASE answer = "claudeChat"
  BY <1>1, <1>6 DEF AnswersTypeOK, AnswersWellFormed
<1>7. CASE answer = "claudeGemini"
  BY <1>1, <1>7 DEF AnswersTypeOK, AnswersWellFormed
<1>8. CASE answer = "codexChunks"
  BY <1>1, <1>8 DEF AnswersTypeOK, AnswersWellFormed
<1>9. CASE answer = "geminiChat"
  BY <1>1, <1>9 DEF AnswersTypeOK, AnswersWellFormed
<1>10. CASE answer = "openaiGemini"
  BY <1>1, <1>10 DEF AnswersTypeOK, AnswersWellFormed
<1>. QED
  BY <1>2, <1>3, <1>4, <1>5, <1>6, <1>7, <1>8, <1>9, <1>10 DEF AnswersInv, Answer

\* A client that gets an answer through one of the translators can place all that it is sent,
\* and when the provider has come to its end it has all of the answer once, under the reason
\* why it ended, but for what each translator has no place for; for every answer, however
\* long it is.
THEOREM EveryAnswerIsWellFormed == ProgressSpec => []AnswersWellFormed
<1>1. AnswersInv => AnswersWellFormed
  BY AnswersTyped
<1>. QED
  BY <1>1, AnswersAlways, PTL

-----------------------------------------------------------------------------
(* UsageLimits: the types. *)

\* The instance has the operators of the library under names of its own.
LEMMA UsageSets ==
  /\ \A S : Usage!IsFiniteSet(S) <=> IsFiniteSet(S)
  /\ \A S : Usage!Cardinality(S) = Cardinality(S)
  /\ \A s : Usage!ToSet(s) = {s[i] : i \in DOMAIN s}
<1>1. \A S : Usage!IsFiniteSet(S) <=> IsFiniteSet(S)
  BY DEF Usage!IsFiniteSet, IsFiniteSet
<1>2. \A S : Usage!Cardinality(S) = Cardinality(S)
  BY DEF Usage!Cardinality, Cardinality
<1>3. QED
  BY <1>1, <1>2 DEF Usage!ToSet

LEMMA UsageRequests ==
  ASSUME Usage!LimitsParameters
  PROVE  /\ IsFiniteSet(Request) /\ Cardinality(Request) \in Nat
         /\ MaxCalls \in Nat \ {0} /\ MaxMonth \in Nat \ {0}
BY UsageSets, FS_CardinalityType DEF Usage!LimitsParameters

\* The types, and that who calls has a call.
UsageTyped ==
  /\ Usage!TypeOK
  /\ \A r \in Request : usagePc[r] = "calling" => made[r] # 0

LEMMA UsageTypeInit == ASSUME Usage!LimitsParameters, Usage!Init PROVE UsageTyped
<1>1. MaxCalls \in Nat \ {0} /\ MaxMonth \in Nat \ {0}
  BY UsageRequests
<1>2. peak \in 0..Usage!Cardinality(Request)
  BY UsageRequests, UsageSets DEF Usage!Init
<1>3. details \in Usage!Counts /\ disk \in Usage!Counts /\ exported \in Usage!Counts
  BY DEF Usage!Init, Usage!Counts, Usage!NoCounts
<1>4. saving \in [Usage!Saver -> Usage!Counts \cup {Usage!NoSnapshot}]
  BY DEF Usage!Init, Usage!NoSaves
<1>5. month \in 1..MaxMonth /\ made \in [Request -> 0..MaxCalls]
      /\ when \in [Usage!Record -> 0..MaxMonth]
  BY <1>1 DEF Usage!Init
<1>6. usagePc \in [Request -> {"idle", "serving", "calling", "signal", "done"}]
      /\ \A r \in Request : usagePc[r] # "calling"
  BY DEF Usage!Init
<1>7. /\ usageQueue \in Seq(Usage!Record) /\ hand \in Usage!Record \cup {Usage!NoRecord}
      /\ forgotten \subseteq Usage!Record
  BY DEF Usage!Init
<1>8. Usage!TypeOK
  BY <1>2, <1>3, <1>4, <1>5, <1>6, <1>7 DEF Usage!Init, Usage!TypeOK
<1>9. QED
  BY <1>6, <1>8 DEF UsageTyped

LEMMA UsageTypeRequests ==
  ASSUME Usage!LimitsParameters, UsageTyped, NEW r \in Request,
         Usage!Accept(r) \/ Usage!Reject(r) \/ Usage!Go(r), peak' \in 0..Usage!Cardinality(Request)
  PROVE  UsageTyped'
<1>1. MaxCalls \in Nat \ {0} /\ MaxMonth \in Nat \ {0}
  BY UsageRequests
<1> USE DEF Usage!requests, Usage!process, UsageTyped
<1>2. CASE Usage!Accept(r)
  <2>1. usagePc' \in [Request -> {"idle", "serving", "calling", "signal", "done"}]
    BY <1>2 DEF Usage!Accept, Usage!TypeOK
  <2>2. QED
    BY <1>2, <2>1 DEF Usage!Accept, Usage!TypeOK
<1>3. CASE Usage!Reject(r)
  BY <1>3 DEF Usage!Reject, Usage!TypeOK
<1>4. CASE Usage!BeginCall(r)
  <2>1. made[r] + 1 \in 1..MaxCalls
    BY <1>1, <1>4 DEF Usage!BeginCall, Usage!TypeOK
  <2>2. usagePc' \in [Request -> {"idle", "serving", "calling", "signal", "done"}]
        /\ made' \in [Request -> 0..MaxCalls]
    BY <1>1, <1>4, <2>1 DEF Usage!BeginCall, Usage!TypeOK
  <2>3. when' \in [Usage!Record -> 0..MaxMonth]
    <3>1. month \in 0..MaxMonth /\ when \in [Usage!Record -> 0..MaxMonth]
      BY <1>1 DEF Usage!TypeOK
    <3>2. QED
      BY <1>4, <3>1 DEF Usage!BeginCall
  <2>4. QED
    BY <1>1, <1>4, <2>1, <2>2, <2>3 DEF Usage!BeginCall, Usage!TypeOK
<1>5. CASE Usage!Publish(r)
  <2>1. <<r, made[r]>> \in Usage!Record
    BY <1>1, <1>5 DEF Usage!Publish, Usage!TypeOK, Usage!Record
  <2>2. QED
    BY <1>5, <2>1 DEF Usage!Publish, Usage!TypeOK
<1>6. CASE Usage!Signal(r)
  BY <1>6 DEF Usage!Signal, Usage!TypeOK
<1>7. CASE Usage!Finish(r)
  BY <1>7 DEF Usage!Finish, Usage!TypeOK
<1>8. QED
  BY <1>2, <1>3, <1>4, <1>5, <1>6, <1>7 DEF Usage!Go

LEMMA UsageTypeWorker ==
  ASSUME UsageTyped, Usage!Worker
  PROVE  UsageTyped'
<1> USE DEF Usage!requests, UsageTyped
<1>1. CASE Usage!Wait \/ Usage!EndWorker
  BY <1>1 DEF Usage!Wait, Usage!EndWorker, Usage!TypeOK
<1>2. CASE Usage!TakeRecord
  BY <1>2 DEF Usage!TakeRecord, Usage!TypeOK
<1>3. CASE Usage!Count
  <2>1. \A n \in 0..2 : Usage!Capped(n + 1) \in 0..2
    BY DEF Usage!Capped
  <2>2. details' \in Usage!Counts
    BY <1>3, <2>1 DEF Usage!Count, Usage!TypeOK, Usage!Counts
  <2>3. QED
    BY <1>3, <2>2 DEF Usage!Count, Usage!TypeOK
<1>4. QED
  BY <1>1, <1>2, <1>3 DEF Usage!Worker

LEMMA UsageTypeSaves ==
  ASSUME UsageTyped, NEW s \in Usage!Saver, NEW stored \in BOOLEAN,
         Usage!BeginSave(s) \/ Usage!EndSave(s, stored)
  PROVE  UsageTyped'
<1> USE DEF Usage!requests, UsageTyped
<1>1. saving' \in [Usage!Saver -> Usage!Counts \cup {Usage!NoSnapshot}]
  BY DEF Usage!BeginSave, Usage!EndSave, Usage!TypeOK
<1>2. disk' \in Usage!Counts
  BY DEF Usage!BeginSave, Usage!EndSave, Usage!TypeOK
<1>3. QED
  BY <1>1, <1>2 DEF Usage!BeginSave, Usage!EndSave, Usage!TypeOK

LEMMA UsageTypeProcess ==
  ASSUME Usage!LimitsParameters, UsageTyped, NEW loaded \in BOOLEAN,
         \/ Usage!Export \/ Usage!Import \/ Usage!Stop \/ Usage!Down \/ Usage!NextMonth
         \/ Usage!Restart(loaded)
  PROVE  UsageTyped'
<1>1. MaxCalls \in Nat \ {0} /\ MaxMonth \in Nat \ {0}
  BY UsageRequests
<1> USE DEF Usage!requests, Usage!process, UsageTyped
<1>2. CASE Usage!Export
  BY <1>2 DEF Usage!Export, Usage!TypeOK
<1>3. CASE Usage!Import
  <2>1. details' \in Usage!Counts
    BY <1>3 DEF Usage!Import, Usage!Merged, Usage!TypeOK, Usage!Counts
  <2>2. QED
    BY <1>3, <2>1 DEF Usage!Import, Usage!TypeOK
<1>4. CASE Usage!Stop
  BY <1>4 DEF Usage!Stop, Usage!TypeOK
<1>5. CASE Usage!Down
  <2>1. details' \in Usage!Counts
    BY <1>5 DEF Usage!Down, Usage!Counts, Usage!NoCounts
  <2>2. saving' \in [Usage!Saver -> Usage!Counts \cup {Usage!NoSnapshot}]
    BY <1>5 DEF Usage!Down, Usage!NoSaves
  <2>3. usagePc' \in [Request -> {"idle", "serving", "calling", "signal", "done"}]
        /\ \A r \in Request : usagePc'[r] # "calling"
    BY <1>5 DEF Usage!Down, Usage!TypeOK
  <2>4. QED
    BY <1>5, <2>1, <2>2, <2>3 DEF Usage!Down, Usage!TypeOK
<1>6. CASE Usage!Restart(loaded)
  <2>1. details' \in Usage!Counts
    BY <1>6 DEF Usage!Restart, Usage!TypeOK, Usage!Counts, Usage!NoCounts
  <2>2. QED
    BY <1>6, <2>1 DEF Usage!Restart, Usage!TypeOK
<1>7. CASE Usage!NextMonth
  BY <1>1, <1>7 DEF Usage!NextMonth, Usage!TypeOK
<1>8. QED
  BY <1>2, <1>3, <1>4, <1>5, <1>6, <1>7

\* A request that was not let in has no record on its way.
Early(r) ==
  /\ hand # Usage!NoRecord => hand[1] # r
  /\ \A i \in 1..Len(usageQueue) : usageQueue[i][1] # r

UsageTypeInv == UsageTyped /\ \A r \in Request : usagePc[r] = "idle" => Early(r)

\* Whoever is let in raises the peak by itself at most.
LEMMA UsagePeak ==
  ASSUME Usage!LimitsParameters, UsageTypeInv, NEW r \in Request, Usage!Accept(r)
  PROVE  peak' \in 0..Usage!Cardinality(Request)
<1> DEFINE Busy == {q \in Request : Usage!UnderWay(q)}
<1>1. usagePc[r] = "idle" /\ Early(r)
  BY DEF Usage!Accept, UsageTypeInv
<1>2. ~Usage!UnderWay(r)
  <2>1. usageQueue \in Seq(Usage!Record) /\ Usage!ToSet(usageQueue) = {usageQueue[i] : i \in 1..Len(usageQueue)}
    BY UsageSets DEF UsageTypeInv, UsageTyped, Usage!TypeOK
  <2>2. \A x \in Usage!ToSet(usageQueue) \cup {hand} : x # Usage!NoRecord => x[1] # r
    BY <1>1, <2>1 DEF Early
  <2>. QED
    BY <1>1, <2>2 DEF Usage!UnderWay
<1>3. Busy \in SUBSET (Request \ {r})
  BY <1>2
<1>4. peak' = IF Cardinality(Busy) + 1 > peak THEN Cardinality(Busy) + 1 ELSE peak
  BY UsageSets DEF Usage!Accept
<1> HIDE DEF Busy
<1>5. IsFiniteSet(Request \ {r}) /\ Cardinality(Request \ {r}) = Cardinality(Request) - 1
  BY UsageRequests, FS_RemoveElement
<1>6. IsFiniteSet(Busy) /\ Cardinality(Busy) <= Cardinality(Request \ {r})
  BY <1>3, <1>5, FS_Subset
<1>7. Cardinality(Busy) \in Nat
  BY <1>6, FS_CardinalityType
<1>8. peak \in 0..Cardinality(Request)
  BY UsageSets DEF UsageTypeInv, UsageTyped, Usage!TypeOK
<1>9. peak' \in 0..Cardinality(Request)
  BY <1>4, <1>5, <1>6, <1>7, <1>8, UsageRequests
<1>. QED
  BY <1>9, UsageSets

LEMMA UsageTypedNext ==
  ASSUME Usage!LimitsParameters, UsageTypeInv, Usage!Next
  PROVE  UsageTyped'
<1>1. UsageTyped
  BY DEF UsageTypeInv
<1>2. ASSUME NEW r \in Request, Usage!Accept(r) \/ Usage!Reject(r) \/ Usage!Go(r)
      PROVE  UsageTyped'
  <2>1. peak' \in 0..Usage!Cardinality(Request)
    <3>1. CASE Usage!Accept(r)
      BY <3>1, UsagePeak
    <3>2. CASE peak' = peak
      BY <1>1, <3>2 DEF UsageTyped, Usage!TypeOK
    <3>. QED
      BY <1>2, <3>1, <3>2 DEF Usage!Reject, Usage!Go, Usage!BeginCall, Usage!Publish,
         Usage!Signal, Usage!Finish, Usage!process
  <2>. QED
    BY <1>1, <1>2, <2>1, UsageTypeRequests
<1>3. CASE Usage!Worker
  BY <1>1, <1>3, UsageTypeWorker
<1>4. ASSUME NEW s \in Usage!Saver, NEW stored \in BOOLEAN,
             Usage!BeginSave(s) \/ Usage!EndSave(s, stored)
      PROVE  UsageTyped'
  BY <1>1, <1>4, UsageTypeSaves
<1>5. ASSUME NEW loaded \in BOOLEAN,
             \/ Usage!Export \/ Usage!Import \/ Usage!Stop \/ Usage!Down \/ Usage!NextMonth
             \/ Usage!Restart(loaded)
      PROVE  UsageTyped'
  BY <1>1, <1>5, UsageTypeProcess
<1>. QED
  BY <1>2, <1>3, <1>4, <1>5 DEF Usage!Next

LEMMA EarlyNext ==
  ASSUME Usage!LimitsParameters, UsageTypeInv, Usage!Next,
         NEW r \in Request, usagePc'[r] = "idle"
  PROVE  Early(r)'
<1>1. /\ usageQueue \in Seq(Usage!Record) /\ Len(usageQueue) \in Nat
      /\ usagePc \in [Request -> {"idle", "serving", "calling", "signal", "done"}]
  BY DEF UsageTypeInv, UsageTyped, Usage!TypeOK
<1>2. usagePc[r] = "idle" => Early(r)
  BY DEF UsageTypeInv
<1>3. ASSUME NEW q \in Request, Usage!Publish(q) PROVE Early(r)'
  <2>1. q # r /\ usagePc[r] = "idle" /\ hand' = hand
    BY <1>1, <1>3 DEF Usage!Publish
  <2>2. CASE usageClosed
    BY <1>2, <1>3, <2>1, <2>2 DEF Usage!Publish, Early
  <2>3. CASE ~usageClosed
    <3>1. usageQueue' = Append(usageQueue, <<q, made[q]>>)
      BY <1>3, <2>3 DEF Usage!Publish
    <3>2. /\ Len(usageQueue') = Len(usageQueue) + 1
          /\ usageQueue'[Len(usageQueue) + 1] = <<q, made[q]>>
          /\ \A i \in 1..Len(usageQueue) : usageQueue'[i] = usageQueue[i]
      BY <1>1, <3>1
    <3>3. \A i \in 1..(Len(usageQueue) + 1) : i = Len(usageQueue) + 1 \/ i \in 1..Len(usageQueue)
      BY <1>1
    <3>4. \A i \in 1..Len(usageQueue') : usageQueue'[i][1] # r
      BY <1>2, <2>1, <3>2, <3>3 DEF Early
    <3>. QED
      BY <1>2, <2>1, <3>4 DEF Early
  <2>. QED
    BY <2>2, <2>3
<1>4. ASSUME NEW q \in Request,
             \/ Usage!Accept(q) \/ Usage!Reject(q) \/ Usage!BeginCall(q) \/ Usage!Signal(q)
             \/ Usage!Finish(q)
      PROVE  Early(r)'
  <2>1. usagePc[r] = "idle" /\ UNCHANGED <<hand, usageQueue>>
    BY <1>1, <1>4 DEF Usage!Accept, Usage!Reject, Usage!BeginCall, Usage!Signal, Usage!Finish,
       Usage!process
  <2>. QED
    BY <1>2, <2>1 DEF Early
<1>5. CASE Usage!TakeRecord
  <2>1. /\ usagePc[r] = "idle" /\ hand' = usageQueue[1] /\ 1 \in 1..Len(usageQueue)
        /\ Len(usageQueue') = Len(usageQueue) - 1
        /\ \A i \in 1..Len(usageQueue') : usageQueue'[i] = usageQueue[i + 1] /\ i + 1 \in 1..Len(usageQueue)
    BY <1>1, <1>5 DEF Usage!TakeRecord, Usage!requests
  <2>. QED
    BY <1>2, <2>1 DEF Early
<1>6. CASE Usage!Down
  <2>1. usageQueue' = <<>> /\ hand' = Usage!NoRecord
    BY <1>6 DEF Usage!Down
  <2>. QED
    BY <2>1 DEF Early
<1>7. CASE Usage!Count
  <2>1. usagePc[r] = "idle" /\ usageQueue' = usageQueue /\ hand' = Usage!NoRecord
    BY <1>7 DEF Usage!Count, Usage!requests
  <2>. QED
    BY <1>2, <2>1 DEF Early
<1>8. CASE UNCHANGED <<usagePc, usageQueue, hand>>
  BY <1>2, <1>8 DEF Early
<1>9. \/ Usage!Wait \/ Usage!EndWorker \/ Usage!Export \/ Usage!Import \/ Usage!Stop
      \/ Usage!NextMonth
      \/ \E s \in Usage!Saver : Usage!BeginSave(s) \/ \E stored \in BOOLEAN : Usage!EndSave(s, stored)
      \/ \E loaded \in BOOLEAN : Usage!Restart(loaded)
      => UNCHANGED <<usagePc, usageQueue, hand>>
  BY DEF Usage!requests, Usage!process, Usage!Wait, Usage!EndWorker, Usage!Export, Usage!Import,
     Usage!Stop, Usage!NextMonth, Usage!BeginSave, Usage!EndSave, Usage!Restart
<1>. QED
  BY <1>3, <1>4, <1>5, <1>6, <1>7, <1>8, <1>9 DEF Usage!Next, Usage!Worker, Usage!Go

LEMMA UsageSteps == [ProgressNext]_progressVars => Usage!Next \/ UNCHANGED usage
BY DEF ProgressNext, progressVars

LEMMA UsageTypeStays ==
  ASSUME UsageTypeInv, UNCHANGED usage
  PROVE  UsageTypeInv'
BY DEF UsageTypeInv, UsageTyped, Usage!TypeOK, Early, usage

\* The requests of a key, the records of their calls and the counts have their types, and the
\* requests under way are no more than there are (CheckAccess, publishWithOutcome, Record).
THEOREM UsageTypeAlways == ProgressSpec => []UsageTypeInv
<1>. USE DEF progressVars
<1>1. ProgressInit => UsageTypeInv
  <2>. SUFFICES ASSUME Usage!Init PROVE UsageTypeInv
    BY DEF ProgressInit
  <2>1. UsageTyped
    BY ProgressParameters, UsageTypeInit
  <2>2. usageQueue = <<>> /\ hand = Usage!NoRecord
    BY DEF Usage!Init
  <2>. QED
    BY <2>1, <2>2 DEF UsageTypeInv, Early
<1>2. UsageTypeInv /\ [ProgressNext]_progressVars => UsageTypeInv'
  <2>1. UsageTypeInv /\ Usage!Next => UsageTypeInv'
    <3>. SUFFICES ASSUME UsageTypeInv, Usage!Next PROVE UsageTypeInv'
      OBVIOUS
    <3>1. UsageTyped'
      BY ProgressParameters, UsageTypedNext
    <3>2. \A r \in Request : usagePc'[r] = "idle" => Early(r)'
      BY ProgressParameters, EarlyNext
    <3>. QED
      BY <3>1, <3>2 DEF UsageTypeInv
  <2>. QED
    BY <2>1, UsageSteps, UsageTypeStays
<1>. QED
  BY <1>1, <1>2, PTL DEF ProgressSpec

-----------------------------------------------------------------------------
(* LoginSessions: the types.  Only a login with a forwarder comes to listen. *)

LoginTypeInv ==
  Logins!TypeOK /\ \A l \in Login : loginPc[l] \in Logins!Start => l \in WebUI

LEMMA LoginTypeInit == ASSUME Logins!LoginParameters, Logins!Init PROVE Logins!TypeOK
<1>1. Logins!NoCall \in [step : {"idle", "create", "fill", "ok"}, login : Login \cup {Nobody},
                         text : Logins!Text, open : BOOLEAN]
  BY DEF Logins!NoCall, Logins!Text
<1>2. caller \in [Caller -> [step : {"idle", "create", "fill", "ok"}, login : Login \cup {Nobody},
                             text : Logins!Text, open : BOOLEAN]]
  BY <1>1 DEF Logins!Init
<1>3. /\ age \in [Login -> 0..2] /\ prev \in [Login -> Login \cup {Nobody}]
      /\ loginPc \in [Login -> {"idle", "remove", "exchange", "complete", "completeAll", "refused"}
                        \cup Logins!Start \cup Logins!Waiting \cup Logins!End]
  BY DEF Logins!Init
<1>4. saved \in [Login -> Logins!Outcome]
  BY DEF Logins!Init, Logins!Outcome
<1>5. QED
  BY <1>2, <1>3, <1>4 DEF Logins!Init, Logins!TypeOK

LEMMA SomeOutcome == "no" \in Logins!Outcome
BY DEF Logins!Outcome

\* The handler that starts a login, and the end of its forwarder.
LEMMA LoginTypeForwarder ==
  ASSUME LoginTypeInv, NEW l \in Login,
         \/ Logins!Begin(l) \/ Logins!TakePrevious(l) \/ Logins!Replace(l) \/ Logins!Listen(l)
         \/ Logins!Publish(l) \/ Logins!StopInstance(l) \/ Logins!Close(l)
  PROVE  Logins!TypeOK'
<1> USE DEF Logins!store, Logins!port, Logins!history, Logins!Goto, LoginTypeInv
<1> DEFINE Steps == {"idle", "remove", "exchange", "complete", "completeAll", "refused"}
                        \cup Logins!Start \cup Logins!Waiting \cup Logins!End
<1>1. \A step \in Steps : [loginPc EXCEPT ![l] = step] \in [Login -> Steps]
  BY DEF Logins!TypeOK
<1>2. /\ {"take", "replace", "listen", "publish"} \subseteq Steps
      /\ {"check", "exchange", "stop", "close", "done", "refused"} \subseteq Steps
  BY DEF Logins!Start, Logins!Waiting, Logins!End
<1> HIDE DEF Steps
<1>3. CASE Logins!Begin(l)
  <2>1. loginPc' \in [Login -> Steps]
    BY <1>1, <1>2, <1>3 DEF Logins!Begin
  <2>2. /\ loginSession' \in [Login -> {"none", "pending", "error"}]
        /\ age' \in [Login -> 0..2]
    BY <1>3 DEF Logins!Begin, Logins!RegisterOAuthSession, Logins!TypeOK
  <2>3. QED
    BY <1>3, <2>1, <2>2 DEF Logins!Begin, Logins!TypeOK, Steps
<1>4. CASE Logins!TakePrevious(l)
  <2>1. loginPc' \in [Login -> Steps]
    BY <1>1, <1>2, <1>4 DEF Logins!TakePrevious
  <2>2. /\ prev' \in [Login -> Login \cup {Nobody}] /\ displaced' \subseteq Login
    BY <1>4 DEF Logins!TakePrevious, Logins!TypeOK
  <2>3. QED
    BY <1>4, <2>1, <2>2 DEF Logins!TakePrevious, Logins!TypeOK, Steps
<1>5. CASE Logins!Replace(l)
  <2>1. loginPc' \in [Login -> Steps]
    BY <1>1, <1>2, <1>5 DEF Logins!Replace
  <2>2. QED
    BY <1>5, <2>1 DEF Logins!Replace, Logins!TypeOK, Steps
<1>6. CASE Logins!Listen(l)
  <2>1. loginPc' \in [Login -> Steps]
    BY <1>1, <1>2, <1>6 DEF Logins!Listen
  <2>2. l \in WebUI
    BY <1>6 DEF Logins!Listen, Logins!Start
  <2>3. QED
    BY <1>6, <2>1, <2>2 DEF Logins!Listen, Logins!TypeOK, Steps
<1>7. CASE Logins!Publish(l)
  <2>1. loginPc' \in [Login -> Steps]
    BY <1>1, <1>2, <1>7 DEF Logins!Publish
  <2>2. QED
    BY <1>7, <2>1 DEF Logins!Publish, Logins!TypeOK, Steps
<1>8. CASE Logins!StopInstance(l)
  <2>1. loginPc' \in [Login -> Steps]
    BY <1>1, <1>2, <1>8 DEF Logins!StopInstance
  <2>2. QED
    BY <1>8, <2>1 DEF Logins!StopInstance, Logins!TypeOK, Steps
<1>9. CASE Logins!Close(l)
  <2>1. loginPc' \in [Login -> Steps]
    BY <1>1, <1>2, <1>9 DEF Logins!Close
  <2>2. QED
    BY <1>9, <2>1 DEF Logins!Close, Logins!TypeOK, Steps
<1>10. QED
  BY <1>3, <1>4, <1>5, <1>6, <1>7, <1>8, <1>9

\* The goroutine of a login.
LEMMA LoginTypeRun ==
  ASSUME Logins!TypeOK, NEW l \in Login, NEW o \in Logins!Outcome,
         \/ Logins!Check(l) \/ Logins!Read(l) \/ Logins!Remove(l) \/ Logins!Exchange(l, o)
         \/ Logins!Complete(l) \/ Logins!CompleteAll(l)
  PROVE  Logins!TypeOK'
<1> USE DEF Logins!store, Logins!port, Logins!history, Logins!Goto
<1> DEFINE Steps == {"idle", "remove", "exchange", "complete", "completeAll", "refused"}
                        \cup Logins!Start \cup Logins!Waiting \cup Logins!End
<1>1. \A step \in Steps : [loginPc EXCEPT ![l] = step] \in [Login -> Steps]
  BY DEF Logins!TypeOK
<1>2. {"stop", "read", "check", "remove", "exchange", "complete", "completeAll"} \subseteq Steps
  BY DEF Logins!Start, Logins!Waiting, Logins!End
<1> HIDE DEF Steps
<1>3. /\ loginSession \in [Login -> {"none", "pending", "error"}] /\ age \in [Login -> 0..2]
      /\ crossed \subseteq Login
  BY DEF Logins!TypeOK
<1>4. Logins!SetOAuthSessionError(l) =>
        /\ loginSession' \in [Login -> {"none", "pending", "error"}] /\ age' \in [Login -> 0..2]
  BY <1>3 DEF Logins!SetOAuthSessionError
<1>5. Logins!GivesUp(l) \/ Logins!StopsWaiting(l) => crossed' \subseteq Login
  BY <1>3 DEF Logins!GivesUp, Logins!StopsWaiting
<1>6. CASE Logins!Check(l)
  <2>1. loginPc' \in [Login -> Steps]
    BY <1>1, <1>2, <1>6 DEF Logins!Check
  <2>2. /\ loginSession' \in [Login -> {"none", "pending", "error"}] /\ age' \in [Login -> 0..2]
        /\ crossed' \subseteq Login
    BY <1>3, <1>4, <1>5, <1>6 DEF Logins!Check
  <2>3. QED
    BY <1>6, <2>1, <2>2 DEF Logins!Check, Logins!TypeOK, Steps
<1>7. CASE Logins!Read(l)
  <2>1. loginPc' \in [Login -> Steps]
    BY <1>1, <1>2, <1>7 DEF Logins!Read
  <2>2. got' \in [Login -> {"none", "empty"} \cup Logins!Text] /\ crossed' \subseteq Login
    BY <1>3, <1>5, <1>7 DEF Logins!Read, Logins!TypeOK
  <2>3. QED
    BY <1>7, <2>1, <2>2 DEF Logins!Read, Logins!TypeOK, Steps
<1>8. CASE Logins!Remove(l)
  <2>1. loginPc' \in [Login -> Steps]
    BY <1>1, <1>2, <1>8 DEF Logins!Remove, Logins!Judge
  <2>2. /\ loginSession' \in [Login -> {"none", "pending", "error"}] /\ age' \in [Login -> 0..2]
    BY <1>3, <1>4, <1>8 DEF Logins!Remove, Logins!Judge
  <2>3. file' \in [Login -> {"none", "empty"} \cup Logins!Text]
    BY <1>8 DEF Logins!Remove, Logins!TypeOK
  <2>4. caller' \in [Caller -> [step : {"idle", "create", "fill", "ok"},
                                login : Login \cup {Nobody}, text : Logins!Text, open : BOOLEAN]]
    <3> DEFINE Form == [step : {"idle", "create", "fill", "ok"}, login : Login \cup {Nobody},
                        text : Logins!Text, open : BOOLEAN]
    <3>1. \A k \in Caller : caller[k] \in Form
      BY DEF Logins!TypeOK
    <3>2. \A k \in Caller : [caller[k] EXCEPT !.open = FALSE] \in Form
      BY <3>1
    <3> HIDE DEF Form
    <3>3. caller' \in [Caller -> Form]
      BY <1>8, <3>1, <3>2 DEF Logins!Remove
    <3>4. QED
      BY <3>3 DEF Form
  <2>5. QED
    BY <1>8, <2>1, <2>2, <2>3, <2>4 DEF Logins!Remove, Logins!TypeOK, Steps
<1>9. CASE Logins!Exchange(l, o)
  <2>1. loginPc' \in [Login -> Steps]
    BY <1>1, <1>2, <1>9 DEF Logins!Exchange
  <2>2. /\ loginSession' \in [Login -> {"none", "pending", "error"}] /\ age' \in [Login -> 0..2]
    BY <1>3, <1>4, <1>9 DEF Logins!Exchange
  <2>3. saved' \in [Login -> Logins!Outcome]
    BY <1>9 DEF Logins!Exchange, Logins!TypeOK
  <2>4. QED
    BY <1>9, <2>1, <2>2, <2>3 DEF Logins!Exchange, Logins!TypeOK, Steps
<1>10. CASE Logins!Complete(l)
  <2>1. loginPc' \in [Login -> Steps]
    BY <1>1, <1>2, <1>10 DEF Logins!Complete
  <2>2. QED
    BY <1>3, <1>10, <2>1 DEF Logins!Complete, Logins!TypeOK, Steps
<1>11. CASE Logins!CompleteAll(l)
  <2>1. loginPc' \in [Login -> Steps]
    BY <1>1, <1>2, <1>11 DEF Logins!CompleteAll
  <2>2. loginSession' \in [Login -> {"none", "pending", "error"}]
    BY <1>3, <1>11 DEF Logins!CompleteAll
  <2>3. QED
    BY <1>11, <2>1, <2>2 DEF Logins!CompleteAll, Logins!TypeOK, Steps
<1>12. QED
  BY <1>6, <1>7, <1>8, <1>9, <1>10, <1>11

\* Callbacks, and time.
LEMMA LoginTypeCallbacks ==
  ASSUME Logins!TypeOK,
         \/ Logins!Tick
         \/ \E k \in Caller : \/ Logins!Create(k) \/ Logins!Fill(k)
                             \/ \E l \in Login, chosen \in Logins!Text : Logins!Check1(k, l, chosen)
  PROVE  Logins!TypeOK'
<1> USE DEF Logins!store, Logins!port, Logins!history
<1> DEFINE Form == [step : {"idle", "create", "fill", "ok"}, login : Login \cup {Nobody},
                    text : Logins!Text, open : BOOLEAN]
<1>1. caller \in [Caller -> Form] /\ file \in [Login -> {"none", "empty"} \cup Logins!Text]
      /\ crossed \subseteq Login
      /\ \A k \in Caller : caller[k] \in Form /\ caller[k].text \in Logins!Text
  BY DEF Logins!TypeOK
<1>2. ASSUME NEW k \in Caller, Logins!Create(k) PROVE Logins!TypeOK'
  <2>1. caller' \in [Caller -> Form]
    BY <1>1, <1>2 DEF Logins!Create
  <2>2. file' \in [Login -> {"none", "empty"} \cup Logins!Text]
    BY <1>1, <1>2 DEF Logins!Create
  <2>3. QED
    BY <1>2, <2>1, <2>2 DEF Logins!Create, Logins!TypeOK
<1>3. ASSUME NEW k \in Caller, Logins!Fill(k) PROVE Logins!TypeOK'
  <2>1. caller' \in [Caller -> Form]
    BY <1>1, <1>3 DEF Logins!Fill
  <2>2. file' \in [Login -> {"none", "empty"} \cup Logins!Text]
    BY <1>1, <1>3 DEF Logins!Fill
  <2>3. QED
    BY <1>3, <2>1, <2>2 DEF Logins!Fill, Logins!TypeOK
<1>4. ASSUME NEW k \in Caller, NEW l \in Login, NEW chosen \in Logins!Text,
             Logins!Check1(k, l, chosen)
      PROVE  Logins!TypeOK'
  <2>1. caller' \in [Caller -> Form]
    BY <1>1, <1>4 DEF Logins!Check1
  <2>2. crossed' \subseteq Login
    BY <1>1, <1>4 DEF Logins!Check1
  <2>3. QED
    BY <1>4, <2>1, <2>2 DEF Logins!Check1, Logins!TypeOK
<1>5. CASE Logins!Tick
  <2>1. age' \in [Login -> 0..2]
    <3>1. \A m \in Login : age[m] < 2 => age[m] \in 0..2 /\ age[m] + 1 \in 0..2
      BY DEF Logins!TypeOK
    <3>2. QED
      BY <1>5, <3>1 DEF Logins!Tick, Logins!TypeOK
  <2>2. overdue' \subseteq Login
    BY <1>5 DEF Logins!Tick, Logins!TypeOK
  <2>3. QED
    BY <1>5, <2>1, <2>2 DEF Logins!Tick, Logins!TypeOK
<1>6. QED
  BY <1>2, <1>3, <1>4, <1>5

LEMMA LoginTypeNext ==
  ASSUME LoginTypeInv, Logins!Next
  PROVE  LoginTypeInv'
<1>1. Logins!TypeOK
  BY DEF LoginTypeInv
<1>2. ASSUME NEW l \in Login,
             \/ Logins!Begin(l) \/ Logins!TakePrevious(l) \/ Logins!Replace(l) \/ Logins!Listen(l)
             \/ Logins!Publish(l) \/ Logins!StopInstance(l) \/ Logins!Close(l)
      PROVE  LoginTypeInv'
  <2>1. Logins!TypeOK'
    BY <1>2, LoginTypeForwarder
  <2>2. \A m \in Login : loginPc'[m] \in Logins!Start => m \in WebUI
    BY <1>2 DEF LoginTypeInv, Logins!TypeOK, Logins!Start, Logins!Goto, Logins!Begin,
       Logins!TakePrevious, Logins!Replace, Logins!Listen, Logins!Publish, Logins!StopInstance,
       Logins!Close
  <2>. QED
    BY <2>1, <2>2 DEF LoginTypeInv
<1>3. ASSUME NEW l \in Login, NEW o \in Logins!Outcome,
             \/ Logins!Check(l) \/ Logins!Read(l) \/ Logins!Remove(l) \/ Logins!Exchange(l, o)
             \/ Logins!Complete(l) \/ Logins!CompleteAll(l)
      PROVE  LoginTypeInv'
  <2>1. Logins!TypeOK'
    BY <1>1, <1>3, LoginTypeRun
  <2>2. \A m \in Login : loginPc'[m] \in Logins!Start => m \in WebUI
    BY <1>3 DEF LoginTypeInv, Logins!TypeOK, Logins!Start, Logins!Goto, Logins!Check,
       Logins!Read, Logins!Remove, Logins!Judge, Logins!Exchange, Logins!Complete,
       Logins!CompleteAll
  <2>. QED
    BY <2>1, <2>2 DEF LoginTypeInv
<1>4. CASE \/ Logins!Tick
           \/ \E k \in Caller : \/ Logins!Create(k) \/ Logins!Fill(k)
                               \/ \E l \in Login, chosen \in Logins!Text : Logins!Check1(k, l, chosen)
  <2>1. Logins!TypeOK'
    BY <1>1, <1>4, LoginTypeCallbacks
  <2>2. loginPc' = loginPc
    BY <1>4 DEF Logins!Tick, Logins!Create, Logins!Fill, Logins!Check1
  <2>. QED
    BY <2>1, <2>2 DEF LoginTypeInv
<1>. QED
  BY <1>2, <1>3, <1>4, SomeOutcome DEF Logins!Next, Logins!Run

LEMMA LoginSteps == [ProgressNext]_progressVars => Logins!Next \/ UNCHANGED logins
BY DEF ProgressNext, progressVars

\* Sessions, callback files, forwarders and the handlers of callbacks have their types, and of
\* the forwarders one listens at most (startCallbackForwarder, PostOAuthCallback).
THEOREM LoginTypeAlways == ProgressSpec => []LoginTypeInv
<1>. USE DEF progressVars
<1>1. ProgressInit => LoginTypeInv
  <2>. SUFFICES ASSUME Logins!Init PROVE LoginTypeInv
    BY DEF ProgressInit
  <2>1. Logins!TypeOK
    BY ProgressParameters, LoginTypeInit
  <2>2. \A l \in Login : loginPc[l] \notin Logins!Start
    BY DEF Logins!Init, Logins!Start
  <2>. QED
    BY <2>1, <2>2 DEF LoginTypeInv
<1>2. LoginTypeInv /\ [ProgressNext]_progressVars => LoginTypeInv'
  <2>1. LoginTypeInv /\ UNCHANGED logins => LoginTypeInv'
    BY DEF LoginTypeInv, Logins!TypeOK, logins
  <2>. QED
    BY <2>1, LoginSteps, LoginTypeNext
<1>. QED
  BY <1>1, <1>2, PTL DEF ProgressSpec

-----------------------------------------------------------------------------
(* TokenRefresh: the types. *)

\* What the watcher publishes is the state of the file, after what is on its way.
LEMMA NoticeFeed ==
  ASSUME Tokens!TypeOK, Tokens!Notice \/ Tokens!Republish
  PROVE  /\ feed' \in Seq(Tokens!Token) /\ Len(feed') <= QueueCap
         /\ \A k \in 1..Len(feed') : feed'[k] = tokenFile \/ \E i \in 1..Len(feed) : feed'[k] = feed[i]
<1>1. feed \in Seq(Tokens!Token) /\ tokenFile \in Tokens!Token /\ Len(feed) \in Nat
  BY DEF Tokens!TypeOK
<1>2. CASE feed' = Append(feed, tokenFile)
  <2>1. /\ Len(feed') = Len(feed) + 1 /\ feed'[Len(feed) + 1] = tokenFile
        /\ \A i \in 1..Len(feed) : feed'[i] = feed[i]
    BY <1>1, <1>2
  <2>2. \A i \in 1..(Len(feed) + 1) : i = Len(feed) + 1 \/ i \in 1..Len(feed)
    BY <1>1
  <2>3. QED
    BY <1>1, <1>2, <2>1, <2>2 DEF Tokens!Notice, Tokens!Republish
<1>3. CASE feed # <<>> /\ feed' = Append(Tokens!Feed!Front(feed), tokenFile)
  <2> DEFINE front == [i \in 1..(Len(feed) - 1) |-> feed[i]]
  <2>1. Tokens!Feed!Front(feed) = front
    BY DEF Tokens!Feed!Front
  <2>2. /\ front \in Seq(Tokens!Token) /\ Len(front) = Len(feed) - 1 /\ Len(front) \in Nat
        /\ \A i \in 1..Len(front) : front[i] = feed[i] /\ i \in 1..Len(feed)
    BY <1>1, <1>3
  <2> HIDE DEF front
  <2>3. /\ Len(feed') = Len(front) + 1 /\ feed'[Len(front) + 1] = tokenFile
        /\ \A i \in 1..Len(front) : feed'[i] = front[i]
        /\ feed' \in Seq(Tokens!Token)
    BY <1>1, <1>3, <2>1, <2>2
  <2>4. \A i \in 1..(Len(front) + 1) : i = Len(front) + 1 \/ i \in 1..Len(front)
    BY <2>2
  <2>5. QED
    BY <2>2, <2>3, <2>4 DEF Tokens!Notice, Tokens!Republish
<1>4. QED
  BY <1>2, <1>3 DEF Tokens!Notice, Tokens!Republish, Tokens!Feed!Grown

LEMMA TokensTypeNext ==
  ASSUME Tokens!RefreshParameters, Tokens!TypeOK, Tokens!Next
  PROVE  Tokens!TypeOK'
<1> USE DEF Tokens!TypeOK, Tokens!manager, Tokens!echo, Tokens!saving, Tokens!Token
<1>1. MaxToken \in Nat /\ QueueCap \in Nat \ {0} /\ MaxRestarts \in Nat
  BY DEF Tokens!RefreshParameters
<1>2. ASSUME NEW w \in Refresher, NEW ok \in BOOLEAN,
             \/ Tokens!Begin(w) \/ Tokens!ReadToken(w) \/ Tokens!Refuse(w) \/ Tokens!BackOff(w)
             \/ Tokens!Update(w) \/ Tokens!Persist(w, ok)
      PROVE  Tokens!TypeOK'
  <2>1. CASE Tokens!Begin(w)
    BY <2>1 DEF Tokens!Begin
  <2>2. CASE Tokens!ReadToken(w)
    BY <2>2 DEF Tokens!ReadToken
  <2>3. CASE Tokens!Refuse(w)
    <3>1. 0 \in 0..MaxToken
      BY <1>1
    <3>2. QED
      BY <2>3, <3>1 DEF Tokens!Refuse
  <2>4. CASE Tokens!BackOff(w)
    BY <2>4 DEF Tokens!BackOff
  <2>5. CASE Tokens!Update(w)
    BY <2>5 DEF Tokens!Update
  <2>6. CASE Tokens!Persist(w, ok)
    <3>1. 0 \in 0..MaxToken
      BY <1>1
    <3>2. QED
      BY <2>6, <3>1 DEF Tokens!Persist, Tokens!Saved
  <2>7. QED
    BY <1>2, <2>1, <2>2, <2>3, <2>4, <2>5, <2>6
<1>3. ASSUME NEW w \in Refresher, NEW missed \in BOOLEAN, Tokens!Trade(w, missed)
      PROVE  Tokens!TypeOK'
  <2>1. issued' \in 0..MaxToken /\ 0 \in 0..MaxToken
    BY <1>1, <1>3 DEF Tokens!Trade
  <2>2. held' \in [Refresher -> 0..MaxToken]
    BY <1>3, <2>1 DEF Tokens!Trade
  <2>3. QED
    BY <1>3, <2>1, <2>2 DEF Tokens!Trade
<1>4. CASE Tokens!Elapse \/ Tokens!MarkResult
  BY <1>4 DEF Tokens!Elapse, Tokens!MarkResult, Tokens!Saved
<1>5. CASE Tokens!Notice \/ Tokens!Republish
  <2>1. feed' \in Seq(0..MaxToken) /\ Len(feed') <= QueueCap
    BY <1>5, NoticeFeed
  <2>2. QED
    BY <1>5, <2>1 DEF Tokens!Notice, Tokens!Republish
<1>6. CASE Tokens!TakeUpdate
  <2>1. /\ Head(feed) \in 0..MaxToken /\ Tail(feed) \in Seq(0..MaxToken)
        /\ Len(Tail(feed)) <= QueueCap
    BY <1>1, <1>6 DEF Tokens!TakeUpdate
  <2>2. QED
    BY <1>6, <2>1 DEF Tokens!TakeUpdate
<1>7. CASE Tokens!ApplyUpdate
  BY <1>7 DEF Tokens!ApplyUpdate
<1>8. ASSUME NEW ok \in BOOLEAN, Tokens!PersistUpdate(ok) PROVE Tokens!TypeOK'
  <2>1. Tokens!NoUpdate \in [token : 0..MaxToken, waits : BOOLEAN]
    BY <1>1 DEF Tokens!NoUpdate
  <2>2. QED
    BY <1>8, <2>1 DEF Tokens!PersistUpdate, Tokens!Saved
<1>9. CASE Tokens!Restart
  <2>1. Tokens!NoUpdate \in [token : 0..MaxToken, waits : BOOLEAN]
    BY <1>1 DEF Tokens!NoUpdate
  <2>2. /\ <<tokenFile>> \in Seq(0..MaxToken) /\ Len(<<tokenFile>>) <= QueueCap
        /\ 0 \in 0..MaxToken /\ restarts + 1 \in 0..MaxRestarts
    BY <1>1, <1>9 DEF Tokens!Restart
  <2>3. QED
    BY <1>9, <2>1, <2>2 DEF Tokens!Restart
<1>10. QED
  BY <1>2, <1>3, <1>4, <1>5, <1>6, <1>7, <1>8, <1>9
     DEF Tokens!Next, Tokens!Refresh, Tokens!Service

LEMMA TokensTypeInit ==
  ASSUME Tokens!RefreshParameters, Tokens!Init
  PROVE  Tokens!TypeOK
<1>1. MaxToken \in Nat /\ QueueCap \in Nat \ {0} /\ MaxRestarts \in Nat
  BY DEF Tokens!RefreshParameters
<1>2. 0 \in Tokens!Token /\ Tokens!NoUpdate \in [token : Tokens!Token, waits : BOOLEAN]
  BY <1>1 DEF Tokens!NoUpdate, Tokens!Token
<1>3. feed \in Seq(Tokens!Token) /\ Len(feed) = 1 /\ Len(feed) <= QueueCap
  BY <1>1, <1>2 DEF Tokens!Init
<1>4. 0 \in 0..MaxRestarts
  BY <1>1
<1>5. /\ refreshPc \in [Refresher -> {"idle", "begun", "call", "failed", "update", "persist"}]
      /\ held \in [Refresher -> Tokens!Token]
  BY <1>2 DEF Tokens!Init
<1>6. /\ issued = 0 /\ token = 0 /\ waits = FALSE /\ service = "idle" /\ tokenFile = 0
      /\ update = Tokens!NoUpdate /\ unsaved = FALSE /\ known = 0 /\ restarts = 0
      /\ excuses = {}
  BY DEF Tokens!Init
<1>. QED
  BY <1>2, <1>3, <1>4, <1>5, <1>6 DEF Tokens!TypeOK

LEMMA TokensSteps == [ProgressNext]_progressVars => Tokens!Next \/ UNCHANGED tokens
BY DEF ProgressNext, progressVars

\* The tokens, the refreshes and the updates on their way have their types, for every number of
\* refreshes, tokens and restarts (refreshAuth, applyCoreAuthAddOrUpdate, Save).
THEOREM TokensTypeAlways == ProgressSpec => []Tokens!TypeOK
<1>. USE DEF progressVars
<1>1. ProgressInit => Tokens!TypeOK
  BY ProgressParameters, TokensTypeInit DEF ProgressInit
<1>2. Tokens!TypeOK /\ [ProgressNext]_progressVars => Tokens!TypeOK'
  <2>1. Tokens!TypeOK /\ UNCHANGED tokens => Tokens!TypeOK'
    BY DEF Tokens!TypeOK, tokens
  <2>2. Tokens!TypeOK /\ Tokens!Next => Tokens!TypeOK'
    BY ProgressParameters, TokensTypeNext
  <2>. QED
    BY <2>1, <2>2, TokensSteps
<1>. QED
  BY <1>1, <1>2, PTL DEF ProgressSpec

-----------------------------------------------------------------------------
(* The types of all the components. *)

LEMMA LocksTypeAlways == ProgressSpec => []Locks!TypeOK
<1>1. LockCircles!TypeOK => Locks!TypeOK
  BY DEF Locks!TypeOK, LockCircles!TypeOK, Locks!Lock, LockCircles!Lock
<1>2. LockCircles!LockParameters
  BY ProgressParameters, LocksSame
<1>3. LockCircles!Spec => []LockCircles!TypeOK
  BY <1>2, LockCircles!LocksTypeCorrect
<1>. QED
  BY <1>1, <1>3, LocksBehave, PTL

LEMMA StreamTypeAlways == ProgressSpec => []TypeOK
<1>1. ProgressInit => Init
  BY DEF ProgressInit
<1>2. [ProgressNext]_progressVars => [Next]_vars
  BY DEF ProgressNext, progressVars, others
<1>3. ProgressSpec => Spec
  BY <1>1, <1>2, PTL DEF ProgressSpec, progressVars, Spec
<1>4. StreamParameters
  BY ProgressParameters
<1>. QED
  BY <1>3, <1>4, StreamTypeCorrect, PTL

\* Of every component that acts, the state has its type, for every value of the constants.
THEOREM ProgressTypeCorrect == ProgressSpec => []PartTypeOK
<1>. DEFINE Types == /\ Locks!TypeOK /\ UsageTypeInv /\ LoginTypeInv /\ Tokens!TypeOK
                     /\ LogInv /\ TypeOK /\ AnswersInv
            Acting == part \in {"locks", "usage", "logins", "tokens", "log", "stream", "answer"}
<1>1. ProgressSpec => []Acting
  <2>1. ProgressInit => Acting
    BY DEF ProgressInit
  <2>2. Acting /\ [ProgressNext]_progressVars => Acting'
    BY DEF ProgressNext, progressVars
  <2>. HIDE DEF Acting
  <2>. QED
    BY <2>1, <2>2, PTL DEF ProgressSpec, progressVars
<1>2. Acting /\ Types => PartTypeOK
  <2>. SUFFICES ASSUME Acting, Types PROVE PartTypeOK
    OBVIOUS
  <2>1. /\ Locks!TypeOK /\ Usage!TypeOK /\ Logins!TypeOK /\ Tokens!TypeOK /\ Log!TypeOK /\ TypeOK
        /\ AnswersTypeOK
    BY AnswersTyped DEF UsageTypeInv, UsageTyped, LoginTypeInv, LogInv
  <2>2. /\ (part = "locks" => (PartTypeOK = Locks!TypeOK))
        /\ (part = "usage" => (PartTypeOK = Usage!TypeOK))
        /\ (part = "logins" => (PartTypeOK = Logins!TypeOK))
        /\ (part = "tokens" => (PartTypeOK = Tokens!TypeOK))
    BY DEF PartTypeOK
  <2>3. /\ (part = "log" => (PartTypeOK = Log!TypeOK))
        /\ (part = "stream" => (PartTypeOK = TypeOK))
        /\ (part = "answer" => (PartTypeOK = AnswersTypeOK))
    BY DEF PartTypeOK
  <2>. QED
    BY <2>1, <2>2, <2>3
<1>3. ProgressSpec => []Types
  <2>. HIDE DEF Acting
  <2>. QED
    BY LocksTypeAlways, UsageTypeAlways, LoginTypeAlways, TokensTypeAlways, LogAlways,
       StreamTypeAlways, AnswersAlways, PTL
<1>. HIDE DEF Types, Acting
<1>. QED
  BY <1>1, <1>2, <1>3, PTL

=============================================================================
