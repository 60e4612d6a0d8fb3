------------------------ MODULE RelayRequestsProofs ------------------------
(***************************************************************************)
(* The calls of a websocket session, for every set of calls, every capacity  *)
(* of the channels and every length of an answer.                           *)
(***************************************************************************)
EXTENDS RelayRequests, FiniteSetTheorems, TLAPS

-----------------------------------------------------------------------------
(* The pieces in a channel. *)

PieceAt(s) == {i \in 1..Len(s) : s[i] = "piece"}

PieceCount(s) == Cardinality(PieceAt(s))

LEMMA CountType ==
  ASSUME NEW s \in Seq(Kind)
  PROVE  IsFiniteSet(PieceAt(s)) /\ PieceCount(s) \in Nat
<1>1. IsFiniteSet(1..Len(s))
  BY FS_Interval
<1>2. IsFiniteSet(PieceAt(s))
  BY <1>1, FS_Subset DEF PieceAt
<1>3. QED
  BY <1>2, FS_CardinalityType DEF PieceCount

LEMMA CountNone ==
  ASSUME NEW s, \A i \in 1..Len(s) : s[i] # "piece"
  PROVE  PieceCount(s) = 0
<1>1. PieceAt(s) = {}
  BY DEF PieceAt
<1>2. QED
  BY <1>1, FS_EmptySet DEF PieceCount

LEMMA CountAppend ==
  ASSUME NEW s \in Seq(Kind), NEW k \in Kind
  PROVE  PieceCount(Append(s, k)) = PieceCount(s) + (IF k = "piece" THEN 1 ELSE 0)
<1> DEFINE n == Len(s) + 1
<1>1. PieceAt(Append(s, k)) = IF k = "piece" THEN PieceAt(s) \cup {n} ELSE PieceAt(s)
  BY DEF PieceAt
<1>2. n \notin PieceAt(s)
  BY DEF PieceAt
<1>3. IsFiniteSet(PieceAt(s)) /\ PieceCount(s) \in Nat
  BY CountType
<1>4. CASE k = "piece"
  <2>1. Cardinality(PieceAt(s) \cup {n}) = Cardinality(PieceAt(s)) + 1
    BY <1>2, <1>3, FS_AddElement
  <2>2. QED
    BY <1>1, <1>4, <2>1 DEF PieceCount
<1>5. CASE k # "piece"
  BY <1>1, <1>3, <1>5 DEF PieceCount
<1>6. QED
  BY <1>4, <1>5

LEMMA CountTail ==
  ASSUME NEW s \in Seq(Kind), s # <<>>
  PROVE  PieceCount(s) = PieceCount(Tail(s)) + (IF Head(s) = "piece" THEN 1 ELSE 0)
<1> DEFINE T == PieceAt(Tail(s))
           S == PieceAt(s) \ {1}
           f == [i \in T |-> i + 1]
<1>1. Len(s) \in Nat \ {0} /\ Tail(s) \in Seq(Kind) /\ Len(Tail(s)) = Len(s) - 1
      /\ \A i \in 1..Len(Tail(s)) : Tail(s)[i] = s[i + 1]
  OBVIOUS
<1>2. f \in Bijection(T, S)
  <2>1. \A i \in T : i \in Nat /\ i + 1 \in S
    BY <1>1 DEF PieceAt
  <2>2. \A j \in S : j - 1 \in T /\ j \in Nat
    BY <1>1 DEF PieceAt
  <2>3. f \in [T -> S]
    BY <2>1
  <2>4. \A i, j \in T : f[i] = f[j] => i = j
    BY <2>1
  <2>5. \A j \in S : \E i \in T : f[i] = j
    <3> TAKE j \in S
    <3>1. j - 1 \in T /\ f[j - 1] = j
      BY <2>2
    <3>2. QED
      BY <3>1
  <2>6. QED
    BY <2>3, <2>4, <2>5 DEF Bijection, Injection, Surjection, IsInjective
<1>3. IsFiniteSet(T) /\ Cardinality(T) \in Nat /\ IsFiniteSet(PieceAt(s))
  BY <1>1, CountType DEF PieceCount
<1>4. Cardinality(S) = Cardinality(T)
  BY <1>2, <1>3, FS_Bijection DEF ExistsBijection
<1>5. Cardinality(S) = IF Head(s) = "piece" THEN PieceCount(s) - 1 ELSE PieceCount(s)
  <2>1. 1 \in PieceAt(s) <=> Head(s) = "piece"
    BY <1>1 DEF PieceAt
  <2>2. QED
    BY <1>3, <2>1, FS_RemoveElement DEF PieceCount
<1>6. PieceCount(s) \in Nat
  BY CountType
<1>7. QED
  BY <1>3, <1>4, <1>5, <1>6 DEF PieceCount

-----------------------------------------------------------------------------
(* Types. *)

\* The piece dispatch has at hand for a call.
AtHand(c) == IF incoming = [call |-> c, kind |-> "piece"] THEN 1 ELSE 0

\* What was read of an answer and not taken lies in the channel or is at hand, or was
\* given up.
PiecesCounted ==
  \A c \in Call :
    /\ behind[c] >= PieceCount(channel[c]) + AtHand(c)
    /\ c \notin lost /\ ~crashed => behind[c] = PieceCount(channel[c]) + AtHand(c)

LEMMA TypeStep ==
  ASSUME RequestsParameters, TypeOK, PiecesCounted, Next
  PROVE  TypeOK'
<1> USE DEF session, history, Kind, Terminal, NoMessage, Over
<1>1. ASSUME NEW c \in Call, Lookup(c) \/ Store(c) \/ Expire(c) \/ Withdraw(c)
                             \/ TakeClosed(c) \/ Abandon(c) \/ Visit(c)
      PROVE  TypeOK'
  BY <1>1 DEF TypeOK, Lookup, Store, Expire, Withdraw, TakeClosed, Abandon, Visit, Goto,
              DeleteAndClose
<1>2. ASSUME NEW c \in Call, Take(c)
      PROVE  TypeOK'
  <2>1. channel[c] \in Seq(Kind) /\ channel[c] # <<>> /\ behind[c] \in 0..MaxBehind
    BY <1>2 DEF TypeOK, Take
  <2>2. Head(channel[c]) \in Kind /\ Tail(channel[c]) \in Seq(Kind)
        /\ Len(Tail(channel[c])) <= Len(channel[c])
    BY <2>1
  <2>3. channel' \in [Call -> Seq(Kind)] /\ \A d \in Call : Len(channel'[d]) <= Cap
    BY <1>2, <2>2 DEF TypeOK, Take, RequestsParameters
  <2>4. ASSUME Head(channel[c]) = "piece" PROVE behind[c] - 1 \in 0..MaxBehind
    <3>1. PieceCount(channel[c]) = PieceCount(Tail(channel[c])) + 1
      BY <2>1, <2>4, CountTail
    <3>2. PieceCount(Tail(channel[c])) \in Nat /\ AtHand(c) \in {0, 1}
      BY <2>2, CountType DEF AtHand
    <3>3. behind[c] >= 1
      BY <2>1, <3>1, <3>2 DEF PiecesCounted
    <3>4. QED
      BY <2>1, <3>3 DEF RequestsParameters
  <2>5. behind' \in [Call -> 0..MaxBehind] /\ begun' \subseteq Call
    BY <1>2, <2>4 DEF TypeOK, Take
  <2>6. QED
    BY <1>2, <2>3, <2>5 DEF TypeOK, Take, Goto
<1>3. ASSUME NEW c \in Call, NEW written \in BOOLEAN, Send(c, written)
      PROVE  TypeOK'
  BY <1>3 DEF TypeOK, Send, Goto, DeleteAndClose
<1>4. ASSUME NEW c \in Call, NEW kind \in Kind, Read(c, kind)
      PROVE  TypeOK'
  <2>1. incoming' \in [call : Call, kind : Kind] /\ answered' \subseteq Call
    BY <1>4 DEF TypeOK, Read
  <2>2. behind' \in [Call -> 0..MaxBehind]
    <3>1. behind[c] \in 0..MaxBehind /\ MaxBehind \in Nat
      BY DEF TypeOK, RequestsParameters
    <3>2. behind[c] < MaxBehind => behind[c] + 1 \in 0..MaxBehind
      BY <3>1
    <3>3. QED
      BY <1>4, <3>2 DEF TypeOK, Read
  <2>3. QED
    BY <1>4, <2>1, <2>2 DEF TypeOK, Read
<1>5. ASSUME NEW c \in Call, NEW k \in Kind, TypeOK, Offer(c, k)
      PROVE  /\ channel' \in [Call -> Seq(Kind)] /\ \A d \in Call : Len(channel'[d]) <= Cap
             /\ crashed' \in BOOLEAN /\ lost' \subseteq Call
  <2>1. channel[c] \in Seq(Kind) /\ Append(channel[c], k) \in Seq(Kind)
        /\ Len(Append(channel[c], k)) = Len(channel[c]) + 1
        /\ Len(channel[c]) \in Nat
    BY <1>5 DEF TypeOK
  <2>2. Len(channel[c]) < Cap => Len(channel[c]) + 1 <= Cap
    BY <2>1 DEF RequestsParameters
  <2>3. QED
    BY <1>5, <2>1, <2>2 DEF TypeOK, Offer
<1>6. CASE Dispatch
  <2>1. incoming.call \in Call /\ incoming.kind \in Kind
    BY <1>6 DEF TypeOK, Dispatch
  <2>2. /\ channel' \in [Call -> Seq(Kind)] /\ \A d \in Call : Len(channel'[d]) <= Cap
        /\ crashed' \in BOOLEAN /\ lost' \subseteq Call
    BY <1>5, <1>6, <2>1 DEF Dispatch
  <2>3. pending' \subseteq Call /\ closed' \subseteq Call
    BY <1>6, <2>1 DEF TypeOK, Dispatch, DeleteAndClose
  <2>4. QED
    BY <1>6, <2>2, <2>3 DEF TypeOK, Dispatch
<1>7. CASE Cleanup
  BY <1>7 DEF TypeOK, Cleanup
<1>8. CASE FailVisited
  BY <1>5, <1>8 DEF TypeOK, FailVisited
<1>9. CASE Detach
  BY <1>9 DEF TypeOK, Detach
<1>10. QED
  BY <1>1, <1>2, <1>3, <1>4, <1>6, <1>7, <1>8, <1>9 DEF Next, Step

\* What Offer does to the channel of the call it is for.
LEMMA OfferCounts ==
  ASSUME TypeOK, NEW c \in Call, NEW k \in Kind, Offer(c, k)
  PROVE  /\ PieceCount(channel'[c]) <= PieceCount(channel[c]) + (IF k = "piece" THEN 1 ELSE 0)
         /\ c \notin lost' /\ ~crashed' =>
              PieceCount(channel'[c])
                = PieceCount(channel[c]) + (IF k = "piece" THEN 1 ELSE 0)
         /\ \A d \in Call \ {c} : channel'[d] = channel[d]
         /\ \A d \in Call \ {c} : d \in lost' <=> d \in lost
         /\ lost \subseteq lost' /\ (crashed => crashed')
<1>1. channel[c] \in Seq(Kind) /\ channel \in [Call -> Seq(Kind)]
  BY DEF TypeOK
<1>2. PieceCount(channel[c]) \in Nat
  BY <1>1, CountType
<1>3. PieceCount(Append(channel[c], k))
        = PieceCount(channel[c]) + (IF k = "piece" THEN 1 ELSE 0)
  BY <1>1, CountAppend
<1>4. channel' = channel \/ channel' = [channel EXCEPT ![c] = Append(@, k)]
  BY DEF Offer
<1>5. channel'[c] = channel[c] \/ channel'[c] = Append(channel[c], k)
  BY <1>1, <1>4
<1>6. c \notin lost' /\ ~crashed' => channel'[c] = Append(channel[c], k)
  BY <1>1 DEF Offer
<1>7. \A d \in Call \ {c} : channel'[d] = channel[d]
  BY <1>1, <1>4
<1>8. (lost' = lost \/ lost' = lost \cup {c}) /\ (crashed => crashed')
  BY DEF Offer
<1>9. PieceCount(channel'[c]) <= PieceCount(channel[c]) + (IF k = "piece" THEN 1 ELSE 0)
  <2> DEFINE more == IF k = "piece" THEN 1 ELSE 0
  <2>1. more \in {0, 1}
    OBVIOUS
  <2>2. PieceCount(Append(channel[c], k)) = PieceCount(channel[c]) + more
    BY <1>3
  <2> HIDE DEF more
  <2>3. PieceCount(channel'[c]) <= PieceCount(channel[c]) + more
    <3>1. CASE channel'[c] = channel[c]
      BY <1>2, <2>1, <3>1
    <3>2. CASE channel'[c] = Append(channel[c], k)
      <4>1. PieceCount(channel'[c]) = PieceCount(Append(channel[c], k))
        BY <3>2
      <4>2. QED
        BY <1>2, <2>1, <2>2, <4>1
    <3>3. QED
      BY <1>5, <3>1, <3>2
  <2>4. QED
    BY <2>3 DEF more
<1>10. c \notin lost' /\ ~crashed' =>
         PieceCount(channel'[c]) = PieceCount(channel[c]) + (IF k = "piece" THEN 1 ELSE 0)
  BY <1>3, <1>6
<1>11. \A d \in Call \ {c} : d \in lost' <=> d \in lost
  BY <1>8
<1>12. QED
  BY <1>7, <1>8, <1>9, <1>10, <1>11

LEMMA CountStep ==
  ASSUME RequestsParameters, TypeOK, PiecesCounted, Next
  PROVE  PiecesCounted'
<1> SUFFICES ASSUME NEW d \in Call
             PROVE  /\ behind'[d] >= PieceCount(channel'[d]) + AtHand(d)'
                    /\ d \notin lost' /\ ~crashed' =>
                         behind'[d] = PieceCount(channel'[d]) + AtHand(d)'
  BY DEF PiecesCounted
<1> USE DEF session, history
<1>1. /\ behind[d] >= PieceCount(channel[d]) + AtHand(d)
      /\ d \notin lost /\ ~crashed => behind[d] = PieceCount(channel[d]) + AtHand(d)
  BY DEF PiecesCounted
<1>2. /\ behind \in [Call -> 0..MaxBehind] /\ behind[d] \in Int
      /\ channel \in [Call -> Seq(Kind)] /\ channel[d] \in Seq(Kind)
      /\ ~crashed /\ d # None
  BY DEF TypeOK, Next, RequestsParameters
<1>3. PieceCount(channel[d]) \in Nat
  BY <1>2, CountType
<1>4. ASSUME NEW c \in Call, Lookup(c) \/ Store(c) \/ Expire(c) \/ Withdraw(c)
                             \/ TakeClosed(c) \/ Abandon(c) \/ Visit(c)
      PROVE  UNCHANGED <<behind, channel, incoming, lost, crashed>>
  BY <1>4 DEF Lookup, Store, Expire, Withdraw, TakeClosed, Abandon, Visit
<1>5. ASSUME NEW c \in Call, NEW written \in BOOLEAN, Send(c, written)
      PROVE  UNCHANGED <<behind, channel, incoming, lost, crashed>>
  BY <1>5 DEF Send
<1>6. Cleanup \/ Detach => UNCHANGED <<behind, channel, incoming, lost, crashed>>
  BY DEF Cleanup, Detach
<1>7. ASSUME UNCHANGED <<behind, channel, incoming, lost, crashed>>
      PROVE  /\ behind'[d] >= PieceCount(channel'[d]) + AtHand(d)'
             /\ d \notin lost' /\ ~crashed' =>
                  behind'[d] = PieceCount(channel'[d]) + AtHand(d)'
  BY <1>1, <1>7 DEF AtHand
<1>8. ASSUME NEW c \in Call, Take(c)
      PROVE  /\ behind'[d] >= PieceCount(channel'[d]) + AtHand(d)'
             /\ d \notin lost' /\ ~crashed' =>
                  behind'[d] = PieceCount(channel'[d]) + AtHand(d)'
  <2>1. AtHand(d)' = AtHand(d) /\ lost' = lost /\ crashed' = crashed /\ AtHand(d) \in {0, 1}
    BY <1>8 DEF Take, AtHand
  <2>2. CASE c # d
    <3>1. behind'[d] = behind[d] /\ channel'[d] = channel[d]
      BY <1>2, <1>8, <2>2 DEF Take
    <3>2. QED
      BY <1>1, <2>1, <3>1
  <2>3. CASE c = d
    <3>1. channel[d] # <<>> /\ channel'[d] = Tail(channel[d])
      BY <1>2, <1>8, <2>3 DEF Take
    <3>2. PieceCount(channel[d])
            = PieceCount(channel'[d]) + (IF Head(channel[d]) = "piece" THEN 1 ELSE 0)
      BY <1>2, <3>1, CountTail
    <3>3. behind'[d] = IF Head(channel[d]) = "piece" THEN behind[d] - 1 ELSE behind[d]
      BY <1>2, <1>8, <2>3 DEF Take
    <3>4. channel'[d] \in Seq(Kind)
      BY <1>2, <3>1
    <3>5. PieceCount(channel'[d]) \in Nat
      BY <3>4, CountType
    <3>6. QED
      BY <1>1, <1>2, <1>3, <2>1, <3>2, <3>3, <3>5
  <2>4. QED
    BY <2>2, <2>3
<1>9. ASSUME NEW c \in Call, NEW kind \in Kind, Read(c, kind)
      PROVE  /\ behind'[d] >= PieceCount(channel'[d]) + AtHand(d)'
             /\ d \notin lost' /\ ~crashed' =>
                  behind'[d] = PieceCount(channel'[d]) + AtHand(d)'
  <2>1. AtHand(d) = 0 /\ channel' = channel /\ lost' = lost /\ crashed' = crashed
    BY <1>2, <1>9 DEF Read, NoMessage, AtHand
  <2>2. behind'[d] = IF d = c /\ kind = "piece" THEN behind[d] + 1 ELSE behind[d]
    BY <1>2, <1>9 DEF Read
  <2>3. AtHand(d)' = IF d = c /\ kind = "piece" THEN 1 ELSE 0
    BY <1>9 DEF Read, AtHand
  <2>4. QED
    BY <1>1, <1>2, <1>3, <2>1, <2>2, <2>3
<1>10. CASE Dispatch
  <2> DEFINE c == incoming.call
  <2>1. c \in Call /\ incoming.kind \in Kind
        /\ incoming = [call |-> c, kind |-> incoming.kind]
    BY <1>10 DEF TypeOK, Dispatch
  <2>2. Offer(c, incoming.kind) /\ behind' = behind
    BY <1>10 DEF Dispatch
  <2>3. AtHand(d)' = 0
    BY <1>2, <1>10 DEF Dispatch, NoMessage, AtHand
  <2>4. AtHand(d) = IF d = c /\ incoming.kind = "piece" THEN 1 ELSE 0
    BY <2>1 DEF AtHand
  <2> HIDE DEF c
  <2>5. /\ PieceCount(channel'[c]) <= PieceCount(channel[c])
                                       + (IF incoming.kind = "piece" THEN 1 ELSE 0)
        /\ c \notin lost' /\ ~crashed' =>
              PieceCount(channel'[c])
                = PieceCount(channel[c]) + (IF incoming.kind = "piece" THEN 1 ELSE 0)
        /\ d # c => channel'[d] = channel[d] /\ (d \in lost' <=> d \in lost)
        /\ lost \subseteq lost'
    BY <2>1, <2>2, OfferCounts
  <2>6. channel'[d] \in Seq(Kind)
    BY TypeStep DEF TypeOK
  <2>7. PieceCount(channel'[d]) \in Nat
    BY <2>6, CountType
  <2>8. CASE d = c
    BY <1>1, <1>2, <1>3, <2>2, <2>3, <2>4, <2>5, <2>7, <2>8
  <2>9. CASE d # c
    BY <1>1, <1>2, <1>3, <2>2, <2>3, <2>4, <2>5, <2>9
  <2>10. QED
    BY <2>8, <2>9
<1>11. CASE FailVisited
  <2>1. visiting \in Call /\ Offer(visiting, "error") /\ behind' = behind
        /\ AtHand(d)' = AtHand(d) /\ "error" \in Kind
    BY <1>11 DEF TypeOK, FailVisited, AtHand, Kind
  <2>2. /\ PieceCount(channel'[visiting]) <= PieceCount(channel[visiting]) + 0
        /\ visiting \notin lost' /\ ~crashed' =>
              PieceCount(channel'[visiting]) = PieceCount(channel[visiting]) + 0
        /\ d # visiting => channel'[d] = channel[d] /\ (d \in lost' <=> d \in lost)
        /\ lost \subseteq lost'
    BY <2>1, OfferCounts
  <2>3. channel'[d] \in Seq(Kind)
    BY TypeStep DEF TypeOK
  <2>4. PieceCount(channel'[d]) \in Nat /\ AtHand(d) \in {0, 1}
    BY <2>3, CountType DEF AtHand
  <2>5. CASE d = visiting
    BY <1>1, <1>2, <1>3, <2>1, <2>2, <2>4, <2>5
  <2>6. CASE d # visiting
    BY <1>1, <1>2, <1>3, <2>1, <2>2, <2>4, <2>6
  <2>7. QED
    BY <2>5, <2>6
<1>12. QED
  BY <1>4, <1>5, <1>6, <1>7, <1>8, <1>9, <1>10, <1>11 DEF Next, Step

-----------------------------------------------------------------------------
(* Complete answers. *)

\* A call that is not sent yet has nothing of an answer, and nobody has closed its
\* channel as long as the session is open.
FreshCall(c) ==
  /\ pc[c] \in {"idle", "store"} =>
       channel[c] = <<>> /\ c \notin pending /\ visiting # c
  /\ pc[c] \in {"idle", "store", "send"} =>
       c \notin waiting /\ incoming.call # c /\ (phase = "open" => c \notin closed)

Fresh ==
  /\ visiting # None => phase = "walk"
  /\ \A c \in Call : FreshCall(c)

\* The provider's last message of an answer.
Last == {"end", "response"}

\* Nothing of an answer comes after its last message.
NothingAfterTheLast ==
  /\ incoming # NoMessage /\ incoming.kind \in Terminal => incoming.call \in answered
  /\ \A c \in Call : \A i \in 1..Len(channel[c]) : channel[c][i] \in Last =>
       /\ c \in answered /\ c \notin pending /\ incoming.call # c
       /\ \A j \in i..Len(channel[c]) : channel[c][j] # "piece"

\* A channel on which a consumer waits is not closed without a reason it can see.
ClosedForAReason ==
  \A c \in closed : pc[c] = "receive" =>
    \/ crashed \/ c \in expired \/ c \in lost
    \/ \E i \in 1..Len(channel[c]) : channel[c][i] # "piece"

\* CompleteIsWhole, and nothing is read of a complete answer any more.
CompleteStays ==
  \A c \in Call : pc[c] = "complete" =>
    \/ c \in answered /\ behind[c] = 0 /\ c \notin pending
    \/ c \in lost
    \/ c \in expired \ Streamed

\* Cleanup passes by no call whose consumer waits.
NobodyPassedBy ==
  \A c \in Call : pc[c] = "receive" /\ c \notin closed =>
    /\ phase # "detached" /\ c \in pending
    /\ phase = "walk" => c \in left \/ visiting = c

IInv ==
  /\ TypeOK /\ PiecesCounted /\ Fresh /\ NothingAfterTheLast /\ ClosedForAReason
  /\ CompleteStays /\ NobodyPassedBy

LEMMA FreshStep ==
  ASSUME RequestsParameters, TypeOK, Fresh, Next
  PROVE  Fresh'
<1> USE DEF session, history, Goto
<1>1. visiting' # None => phase' = "walk"
  BY DEF Fresh, TypeOK, Next, Step, Lookup, Store, Expire, Withdraw, Take, TakeClosed, Abandon,
         Visit, Send, Read, Dispatch, Cleanup, FailVisited, Detach
<1>2. ASSUME NEW d \in Call
      PROVE  FreshCall(d)'
  <2> USE DEF FreshCall
  <2>1. FreshCall(d) /\ (visiting # None => phase = "walk")
    BY DEF Fresh
  <2>2. /\ pc \in [Call -> {"idle", "store", "send", "receive", "complete", "failed",
                            "cancelled"}]
        /\ channel \in [Call -> Seq(Kind)]
        /\ d # None /\ visiting \in Call \cup {None} /\ NoMessage.call = None
    BY DEF TypeOK, RequestsParameters, Over, NoMessage
  <2>3. ASSUME NEW c \in Call, Lookup(c) \/ Store(c) \/ Expire(c) \/ Withdraw(c)
        PROVE  FreshCall(d)'
    BY <2>1, <2>2, <2>3 DEF Lookup, Store, Expire, Withdraw, DeleteAndClose
  <2>4. ASSUME NEW c \in Call, TakeClosed(c) \/ Abandon(c) \/ Visit(c)
        PROVE  FreshCall(d)'
    BY <2>1, <2>2, <2>4 DEF TakeClosed, Abandon, Visit
  <2>5. ASSUME NEW c \in Call, Take(c)
        PROVE  FreshCall(d)'
    BY <2>1, <2>2, <2>5 DEF Take
  <2>6. ASSUME NEW c \in Call, NEW written \in BOOLEAN, Send(c, written)
        PROVE  FreshCall(d)'
    BY <2>1, <2>2, <2>6 DEF Send, DeleteAndClose
  <2>7. ASSUME NEW c \in Call, NEW kind \in Kind, Read(c, kind)
        PROVE  FreshCall(d)'
    <3>1. incoming'.call = c /\ c \in pending /\ pc[c] \notin {"store", "send"}
      BY <2>7 DEF Read
    <3>2. QED
      BY <2>1, <2>2, <2>7, <3>1 DEF Read
  <2>8. ASSUME NEW c \in Call, NEW kind \in Kind, Offer(c, kind), c # d
        PROVE  channel'[d] = channel[d]
    BY <2>2, <2>8 DEF Offer
  <2>9. CASE Dispatch
    <3>1. incoming.call \in Call /\ incoming.kind \in Kind
      BY <2>9 DEF TypeOK, Dispatch
    <3>2. incoming.call # d => channel'[d] = channel[d]
      BY <2>8, <2>9, <3>1 DEF Dispatch
    <3>3. incoming'.call # d
      BY <2>2, <2>9 DEF Dispatch
    <3>4. /\ incoming.call # d => (d \in pending' <=> d \in pending)
          /\ incoming.call # d => (d \in closed' <=> d \in closed)
      BY <2>9 DEF Dispatch, DeleteAndClose
    <3>5. UNCHANGED <<pc, waiting, phase, visiting>>
      BY <2>9 DEF Dispatch
    <3>6. QED
      BY <2>1, <3>2, <3>3, <3>4, <3>5
  <2>10. CASE FailVisited
    <3>1. visiting \in Call /\ "error" \in Kind /\ Offer(visiting, "error")
      BY <2>2, <2>10 DEF FailVisited, Kind
    <3>2. visiting # d => channel'[d] = channel[d]
      BY <2>8, <3>1
    <3>3. visiting' = None /\ phase = "walk" /\ UNCHANGED <<pc, pending, waiting, incoming, phase>>
      BY <2>1, <2>10 DEF FailVisited
    <3>4. QED
      BY <2>1, <2>2, <3>2, <3>3
  <2>11. CASE Cleanup \/ Detach
    BY <2>1, <2>2, <2>11 DEF Cleanup, Detach
  <2>12. QED
    BY <2>3, <2>4, <2>5, <2>6, <2>7, <2>9, <2>10, <2>11 DEF Next, Step
<1>3. QED
  BY <1>1, <1>2 DEF Fresh

-----------------------------------------------------------------------------
\* NothingAfterTheLast for one call.
LastOf(c) ==
  \A i \in 1..Len(channel[c]) : channel[c][i] \in Last =>
    /\ c \in answered /\ c \notin pending /\ incoming.call # c
    /\ \A j \in i..Len(channel[c]) : channel[c][j] # "piece"

LEMMA LastStep ==
  ASSUME RequestsParameters, TypeOK, Fresh, NothingAfterTheLast, Next
  PROVE  NothingAfterTheLast'
<1> USE DEF session, history, Goto
<1>1. (incoming # NoMessage /\ incoming.kind \in Terminal => incoming.call \in answered)'
  BY DEF NothingAfterTheLast, TypeOK, Terminal, NoMessage, Next, Step, Lookup, Store, Expire,
         Withdraw, Take, TakeClosed, Abandon, Visit, Send, Read, Dispatch, Cleanup, FailVisited,
         Detach
<1>2. ASSUME NEW d \in Call
      PROVE  LastOf(d)'
  <2>1. /\ LastOf(d)
        /\ channel \in [Call -> Seq(Kind)] /\ channel[d] \in Seq(Kind)
        /\ d # None /\ NoMessage.call = None
        /\ visiting \in Call \cup {None}
    BY DEF NothingAfterTheLast, LastOf, TypeOK, RequestsParameters, NoMessage
  <2>2. ASSUME UNCHANGED <<channel, answered, incoming>>, pending' \subseteq pending
        PROVE  LastOf(d)'
    BY <2>1, <2>2 DEF LastOf
  <2>3. ASSUME NEW c \in Call, Lookup(c) \/ Expire(c) \/ Withdraw(c) \/ TakeClosed(c)
                               \/ Abandon(c) \/ Visit(c)
        PROVE  LastOf(d)'
    <3>1. UNCHANGED <<channel, answered, incoming>> /\ pending' \subseteq pending
      BY <2>3 DEF Lookup, Expire, Withdraw, DeleteAndClose, TakeClosed, Abandon, Visit
    <3>2. QED
      BY <2>2, <3>1
  <2>4. ASSUME NEW c \in Call, Store(c)
        PROVE  LastOf(d)'
    <3>1. channel[c] = <<>> /\ UNCHANGED <<channel, answered, incoming>>
          /\ pending' = pending \cup {c}
      BY <2>4 DEF Store, Fresh, FreshCall
    <3>2. QED
      BY <2>1, <3>1 DEF LastOf
  <2>5. ASSUME NEW c \in Call, NEW written \in BOOLEAN, Send(c, written)
        PROVE  LastOf(d)'
    <3>1. UNCHANGED <<channel, answered, incoming>> /\ pending' \subseteq pending
      BY <2>5 DEF Send, DeleteAndClose
    <3>2. QED
      BY <2>2, <3>1
  <2>6. ASSUME NEW c \in Call, NEW kind \in Kind, Read(c, kind)
        PROVE  LastOf(d)'
    <3>1. c \in pending /\ incoming'.call = c /\ answered \subseteq answered'
          /\ UNCHANGED <<channel, pending>>
      BY <2>6 DEF Read
    <3>2. QED
      BY <2>1, <3>1 DEF LastOf
  <2>7. ASSUME NEW c \in Call, Take(c)
        PROVE  LastOf(d)'
    <3>1. UNCHANGED <<pending, answered, incoming>>
      BY <2>7 DEF Take
    <3>2. CASE c # d
      <4>1. channel'[d] = channel[d]
        BY <2>1, <2>7, <3>2 DEF Take
      <4>2. QED
        BY <2>1, <3>1, <4>1 DEF LastOf
    <3>3. CASE c = d
      <4>1. channel[d] # <<>> /\ channel'[d] = Tail(channel[d])
        BY <2>1, <2>7, <3>3 DEF Take
      <4>2. /\ Len(channel'[d]) = Len(channel[d]) - 1 /\ Len(channel[d]) \in Nat
            /\ \A i \in 1..Len(channel'[d]) : channel'[d][i] = channel[d][i + 1]
        BY <2>1, <4>1
      <4>3. ASSUME NEW i \in 1..Len(channel'[d]), channel'[d][i] \in Last
            PROVE  /\ d \in answered /\ d \notin pending /\ incoming.call # d
                   /\ \A j \in i..Len(channel'[d]) : channel'[d][j] # "piece"
        <5>1. i + 1 \in 1..Len(channel[d]) /\ channel[d][i + 1] \in Last
          BY <4>2, <4>3
        <5>2. /\ d \in answered /\ d \notin pending /\ incoming.call # d
              /\ \A j \in (i + 1)..Len(channel[d]) : channel[d][j] # "piece"
          BY <2>1, <5>1 DEF LastOf
        <5>3. ASSUME NEW j \in i..Len(channel'[d]) PROVE channel'[d][j] # "piece"
          <6>1. j \in 1..Len(channel'[d]) /\ j + 1 \in (i + 1)..Len(channel[d])
            BY <4>2
          <6>2. QED
            BY <4>2, <5>2, <6>1
        <5>4. QED
          BY <5>2, <5>3
      <4>4. QED
        BY <3>1, <4>3 DEF LastOf
    <3>4. QED
      BY <3>2, <3>3
  <2>8. ASSUME NEW kind \in Kind, channel'[d] = Append(channel[d], kind),
               answered \subseteq answered', pending' \subseteq pending,
               incoming'.call # d,
               kind \in Last => d \in answered' /\ d \notin pending',
               kind = "piece" => incoming.call = d
        PROVE  LastOf(d)'
    <3> DEFINE n == Len(channel[d])
    <3>1. /\ n \in Nat /\ Len(channel'[d]) = n + 1 /\ channel'[d][n + 1] = kind
          /\ \A i \in 1..n : channel'[d][i] = channel[d][i]
      BY <2>1, <2>8
    <3> HIDE DEF n
    <3>2. ASSUME NEW i \in 1..(n + 1), channel'[d][i] \in Last
          PROVE  /\ d \in answered' /\ d \notin pending' /\ incoming'.call # d
                 /\ \A j \in i..(n + 1) : channel'[d][j] # "piece"
      <4>1. CASE i = n + 1
        <5>1. kind \in Last
          BY <3>1, <3>2, <4>1
        <5>2. \A j \in i..(n + 1) : j = n + 1
          BY <3>1, <4>1
        <5>3. kind # "piece"
          BY <5>1 DEF Last
        <5>4. QED
          BY <2>8, <3>1, <5>1, <5>2, <5>3
      <4>2. CASE i # n + 1
        <5>1. i \in 1..n /\ channel[d][i] \in Last
          BY <3>1, <3>2, <4>2
        <5>2. /\ d \in answered /\ d \notin pending /\ incoming.call # d
              /\ \A j \in i..n : channel[d][j] # "piece"
          BY <2>1, <5>1 DEF LastOf, n
        <5>3. kind # "piece"
          BY <2>8, <5>2
        <5>4. \A j \in i..(n + 1) : j = n + 1 \/ (j \in i..n /\ j \in 1..n)
          BY <3>1, <5>1
        <5>5. QED
          BY <2>8, <3>1, <5>2, <5>3, <5>4
      <4>3. QED
        BY <4>1, <4>2
    <3>3. QED
      BY <3>1, <3>2 DEF LastOf
  <2>9. ASSUME channel'[d] = channel[d], answered \subseteq answered',
               pending' \subseteq pending, incoming' = NoMessage \/ incoming' = incoming
        PROVE  LastOf(d)'
    BY <2>1, <2>9 DEF LastOf
  <2>10. CASE Dispatch
    <3>1. /\ incoming.call \in Call /\ incoming.kind \in Kind
          /\ Offer(incoming.call, incoming.kind)
          /\ answered' = answered /\ incoming' = NoMessage
          /\ incoming.kind \in Terminal => incoming.call \in answered
      BY <2>10 DEF TypeOK, Dispatch, NothingAfterTheLast
    <3>2. pending' \subseteq pending
          /\ (incoming.kind \in Terminal => incoming.call \notin pending')
      BY <2>10 DEF Dispatch, DeleteAndClose
    <3>3. CASE channel'[d] = channel[d]
      BY <2>9, <3>1, <3>2, <3>3
    <3>4. CASE channel'[d] # channel[d]
      <4>1. d = incoming.call /\ channel'[d] = Append(channel[d], incoming.kind)
        BY <2>1, <3>1, <3>4 DEF Offer
      <4>2. incoming.kind \in Last => incoming.kind \in Terminal
        BY DEF Last, Terminal
      <4>3. QED
        BY <2>1, <2>8, <3>1, <3>2, <4>1, <4>2
    <3>5. QED
      BY <3>3, <3>4
  <2>11. CASE FailVisited
    <3>1. /\ Offer(visiting, "error") /\ visiting \in Call /\ "error" \in Kind
          /\ UNCHANGED <<pending, answered, incoming>>
      BY <2>1, <2>11 DEF FailVisited, Kind
    <3>2. CASE channel'[d] = channel[d]
      BY <2>9, <3>1, <3>2
    <3>3. CASE channel'[d] # channel[d]
      <4>1. channel'[d] = Append(channel[d], "error")
        BY <2>1, <3>1, <3>3 DEF Offer
      <4>2. Append(channel[d], "error") \in Seq(Kind)
            /\ Len(Append(channel[d], "error")) = Len(channel[d]) + 1
            /\ Len(channel[d]) \in Nat
            /\ Append(channel[d], "error")[Len(channel[d]) + 1] = "error"
            /\ \A i \in 1..Len(channel[d]) : Append(channel[d], "error")[i] = channel[d][i]
        BY <2>1, <3>1
      <4>3. ASSUME NEW i \in 1..Len(channel'[d]), channel'[d][i] \in Last
            PROVE  i \in 1..Len(channel[d]) /\ channel[d][i] \in Last
        BY <4>1, <4>2, <4>3 DEF Last
      <4>4. QED
        <5>1. ASSUME NEW i \in 1..Len(channel'[d]), channel'[d][i] \in Last
              PROVE  /\ d \in answered /\ d \notin pending /\ incoming.call # d
                     /\ \A j \in i..Len(channel'[d]) : channel'[d][j] # "piece"
          <6>1. i \in 1..Len(channel[d]) /\ channel[d][i] \in Last
            BY <4>3, <5>1
          <6>2. /\ d \in answered /\ d \notin pending /\ incoming.call # d
                /\ \A j \in i..Len(channel[d]) : channel[d][j] # "piece"
            BY <2>1, <6>1 DEF LastOf
          <6>3. \A j \in i..Len(channel'[d]) :
                   j = Len(channel[d]) + 1 \/ (j \in i..Len(channel[d]) /\ j \in 1..Len(channel[d]))
            BY <4>1, <4>2, <6>1
          <6>4. QED
            BY <4>1, <4>2, <6>2, <6>3
        <5>2. QED
          BY <3>1, <5>1 DEF LastOf
    <3>4. QED
      BY <3>2, <3>3
  <2>12. CASE Cleanup \/ Detach
    <3>1. UNCHANGED <<channel, answered, incoming>> /\ pending' \subseteq pending
      BY <2>12 DEF Cleanup, Detach
    <3>2. QED
      BY <2>2, <3>1
  <2>13. QED
    BY <2>3, <2>4, <2>5, <2>6, <2>7, <2>10, <2>11, <2>12 DEF Next, Step
<1>3. QED
  BY <1>1, <1>2 DEF NothingAfterTheLast, LastOf

-----------------------------------------------------------------------------
LEMMA ReasonStep ==
  ASSUME RequestsParameters, TypeOK, Fresh, ClosedForAReason, Next
  PROVE  ClosedForAReason'
<1> DEFINE Reason(c) ==
      \/ crashed \/ c \in expired \/ c \in lost
      \/ \E i \in 1..Len(channel[c]) : channel[c][i] # "piece"
<1> USE DEF session, history, Goto
<1> SUFFICES ASSUME NEW d \in Call, d \in closed', pc'[d] = "receive"
             PROVE  Reason(d)'
  <2>1. closed' \subseteq Call
    BY DEF TypeOK, RequestsParameters, Next, Step, Lookup, Store, Expire, Withdraw, Take,
           TakeClosed, Abandon, Visit, Send, Read, Dispatch, Cleanup, FailVisited, Detach,
           DeleteAndClose
  <2>2. QED
    BY <2>1 DEF ClosedForAReason
<1>1. /\ d \in closed /\ pc[d] = "receive" => Reason(d)
      /\ channel \in [Call -> Seq(Kind)] /\ channel[d] \in Seq(Kind)
      /\ pc \in [Call -> {"idle", "store", "send", "receive", "complete", "failed",
                          "cancelled"}]
      /\ visiting \in Call \cup {None}
  BY DEF ClosedForAReason, TypeOK, Over
<1>2. ASSUME d \in closed, pc[d] = "receive", channel'[d] = channel[d],
             expired \subseteq expired', lost \subseteq lost', crashed => crashed'
      PROVE  Reason(d)'
  BY <1>1, <1>2
<1>3. ASSUME NEW c \in Call, Lookup(c) \/ Store(c) \/ Expire(c) \/ TakeClosed(c)
                             \/ Abandon(c) \/ Visit(c)
      PROVE  Reason(d)'
  <2>1. /\ d \in closed /\ pc[d] = "receive" /\ channel' = channel
        /\ expired \subseteq expired' /\ lost' = lost /\ crashed' = crashed
    BY <1>1, <1>3 DEF Lookup, Store, Expire, TakeClosed, Abandon, Visit
  <2>2. QED
    BY <1>2, <2>1
<1>4. ASSUME NEW c \in Call, Withdraw(c)
      PROVE  Reason(d)'
  <2>1. /\ pc' = pc /\ channel' = channel /\ expired' = expired /\ lost' = lost
        /\ crashed' = crashed
        /\ d \in closed \/ d \in expired
    BY <1>4 DEF Withdraw, DeleteAndClose
  <2>2. QED
    BY <1>2, <2>1
<1>5. ASSUME NEW c \in Call, NEW written \in BOOLEAN, Send(c, written)
      PROVE  Reason(d)'
  <2>1. c # d
    <3>1. ASSUME c = d PROVE FALSE
      <4>1. pc[d] = "send" /\ c \in pending /\ phase = "open" /\ closed' = closed
        BY <1>1, <1>5, <3>1 DEF Send
      <4>2. d \notin closed
        BY <4>1 DEF Fresh, FreshCall
      <4>3. QED
        BY <4>1, <4>2
    <3>2. QED
      BY <3>1
  <2>2. /\ d \in closed /\ pc[d] = "receive" /\ channel' = channel
        /\ expired' = expired /\ lost' = lost /\ crashed' = crashed
    BY <1>1, <1>5, <2>1 DEF Send, DeleteAndClose
  <2>3. QED
    BY <1>2, <2>2
<1>6. ASSUME NEW c \in Call, NEW kind \in Kind, Read(c, kind)
      PROVE  Reason(d)'
  <2>1. /\ d \in closed /\ pc[d] = "receive" /\ channel' = channel
        /\ expired' = expired /\ lost' = lost /\ crashed' = crashed
    BY <1>6 DEF Read
  <2>2. QED
    BY <1>2, <2>1
<1>7. ASSUME NEW c \in Call, Take(c)
      PROVE  Reason(d)'
  <2>1. /\ d \in closed /\ expired' = expired /\ lost' = lost /\ crashed' = crashed
    BY <1>7 DEF Take
  <2>2. pc[d] = "receive"
    BY <1>1, <1>7 DEF Take
  <2>3. CASE c # d
    <3>1. channel'[d] = channel[d]
      BY <1>1, <1>7, <2>3 DEF Take
    <3>2. QED
      BY <1>2, <2>1, <2>2, <3>1
  <2>4. CASE c = d
    <3>1. channel[d] # <<>> /\ channel'[d] = Tail(channel[d]) /\ Head(channel[d]) = "piece"
      BY <1>1, <1>7, <2>4 DEF Take
    <3>2. /\ Len(channel'[d]) = Len(channel[d]) - 1 /\ Len(channel[d]) \in Nat
          /\ \A i \in 1..Len(channel'[d]) : channel'[d][i] = channel[d][i + 1]
          /\ channel[d][1] = "piece"
      BY <1>1, <3>1
    <3>3. CASE crashed \/ d \in expired \/ d \in lost
      BY <2>1, <3>3
    <3>4. ASSUME NEW i \in 1..Len(channel[d]), channel[d][i] # "piece"
          PROVE  Reason(d)'
      <4>1. i - 1 \in 1..Len(channel'[d]) /\ channel'[d][i - 1] = channel[d][i]
        BY <3>2, <3>4
      <4>2. QED
        BY <3>4, <4>1
    <3>5. QED
      BY <1>1, <2>1, <2>2, <3>3, <3>4
  <2>5. QED
    BY <2>3, <2>4
<1>8. ASSUME NEW c \in Call, NEW kind \in Kind, Offer(c, kind)
      PROVE  /\ c = d /\ kind # "piece" => \/ crashed' \/ d \in lost'
                                           \/ \E i \in 1..Len(channel'[d]) : channel'[d][i] # "piece"
             /\ Reason(d) /\ expired' = expired => Reason(d)'
  <2>1. CASE channel'[d] = channel[d]
    BY <1>1, <1>8, <2>1 DEF Offer
  <2>2. CASE channel'[d] # channel[d]
    <3>1. /\ c = d /\ channel'[d] = Append(channel[d], kind) /\ lost' = lost
          /\ crashed' = crashed
      BY <1>1, <1>8, <2>2 DEF Offer
    <3>2. /\ Len(channel'[d]) = Len(channel[d]) + 1 /\ Len(channel[d]) \in Nat
          /\ channel'[d][Len(channel[d]) + 1] = kind
          /\ \A i \in 1..Len(channel[d]) : channel'[d][i] = channel[d][i]
      BY <1>1, <3>1
    <3>3. Len(channel[d]) + 1 \in 1..Len(channel'[d])
          /\ \A i \in 1..Len(channel[d]) : i \in 1..Len(channel'[d])
      BY <3>2
    <3>4. QED
      BY <3>1, <3>2, <3>3
  <2>3. QED
    BY <2>1, <2>2
<1>9. CASE Dispatch
  <2>1. /\ incoming.call \in Call /\ incoming.kind \in Kind
        /\ Offer(incoming.call, incoming.kind) /\ pc' = pc /\ expired' = expired
    BY <1>9 DEF TypeOK, Dispatch
  <2>2. d \in closed \/ (incoming.call = d /\ incoming.kind # "piece")
    BY <1>9 DEF Dispatch, DeleteAndClose, Terminal
  <2>3. QED
    BY <1>1, <1>8, <2>1, <2>2
<1>10. CASE FailVisited
  <2>1. /\ Offer(visiting, "error") /\ visiting \in Call /\ "error" \in Kind
        /\ "error" # "piece" /\ pc' = pc /\ expired' = expired
        /\ closed' = closed \cup {visiting}
    BY <1>1, <1>10 DEF FailVisited, Kind
  <2>2. QED
    BY <1>1, <1>8, <2>1
<1>11. CASE Cleanup \/ Detach
  <2>1. /\ d \in closed /\ pc[d] = "receive" /\ channel' = channel
        /\ expired' = expired /\ lost' = lost /\ crashed' = crashed
    BY <1>11 DEF Cleanup, Detach
  <2>2. QED
    BY <1>2, <2>1
<1>12. QED
  BY <1>3, <1>4, <1>5, <1>6, <1>7, <1>9, <1>10, <1>11 DEF Next, Step

-----------------------------------------------------------------------------
\* CompleteStays for one call.
Complete(c) ==
  pc[c] = "complete" =>
    \/ c \in answered /\ behind[c] = 0 /\ c \notin pending
    \/ c \in lost
    \/ c \in expired \ Streamed

LEMMA CompleteStep ==
  ASSUME RequestsParameters, TypeOK, PiecesCounted, NothingAfterTheLast, ClosedForAReason,
         CompleteStays, Next
  PROVE  CompleteStays'
<1> USE DEF session, history, Goto
<1> SUFFICES ASSUME NEW d \in Call
             PROVE  Complete(d)'
  BY DEF CompleteStays, Complete
<1>1. /\ Complete(d) /\ ~crashed
      /\ channel \in [Call -> Seq(Kind)] /\ channel[d] \in Seq(Kind)
      /\ pc \in [Call -> {"idle", "store", "send", "receive", "complete", "failed",
                          "cancelled"}]
      /\ behind \in [Call -> 0..MaxBehind] /\ behind[d] \in Int
  BY DEF CompleteStays, Complete, TypeOK, Over, Next
<1>2. ASSUME pc'[d] = "complete" => pc[d] = "complete",
             behind'[d] = behind[d] \/ d \in pending, answered \subseteq answered',
             lost \subseteq lost', expired \subseteq expired',
             d \in pending' => d \in pending
      PROVE  Complete(d)'
  BY <1>1, <1>2 DEF Complete
<1>3. ASSUME NEW c \in Call, Lookup(c) \/ Expire(c) \/ Withdraw(c) \/ Abandon(c) \/ Visit(c)
      PROVE  Complete(d)'
  <2>1. /\ pc'[d] = "complete" => pc[d] = "complete"
        /\ behind' = behind /\ answered' = answered /\ lost' = lost
        /\ expired \subseteq expired' /\ pending' \subseteq pending
    BY <1>1, <1>3 DEF Lookup, Expire, Withdraw, Abandon, Visit, DeleteAndClose
  <2>2. QED
    BY <1>2, <2>1
<1>4. ASSUME NEW c \in Call, Store(c)
      PROVE  Complete(d)'
  BY <1>1, <1>4 DEF Store, Complete
<1>5. ASSUME NEW c \in Call, NEW written \in BOOLEAN, Send(c, written)
      PROVE  Complete(d)'
  <2>1. /\ pc'[d] = "complete" => pc[d] = "complete"
        /\ behind' = behind /\ answered' = answered /\ lost' = lost
        /\ expired' = expired /\ pending' \subseteq pending
    BY <1>1, <1>5 DEF Send, DeleteAndClose
  <2>2. QED
    BY <1>2, <2>1
<1>6. ASSUME NEW c \in Call, NEW kind \in Kind, Read(c, kind)
      PROVE  Complete(d)'
  <2>1. /\ pc' = pc /\ lost' = lost /\ expired' = expired /\ pending' = pending
        /\ answered \subseteq answered' /\ c \in pending
        /\ c # d => behind'[d] = behind[d]
    BY <1>1, <1>6 DEF Read
  <2>2. QED
    BY <1>2, <2>1
<1>7. ASSUME NEW c \in Call, Take(c)
      PROVE  Complete(d)'
  <2>1. UNCHANGED <<answered, lost, expired, pending>>
    BY <1>7 DEF Take
  <2>2. CASE c # d
    <3>1. pc'[d] = pc[d] /\ behind'[d] = behind[d]
      BY <1>1, <1>7, <2>2 DEF Take
    <3>2. QED
      BY <1>2, <2>1, <3>1
  <2>3. CASE c = d
    <3>1. /\ pc[d] = "receive" /\ channel[d] # <<>>
          /\ Head(channel[d]) = "piece" => pc' = pc
          /\ Head(channel[d]) = "error" => pc'[d] = "failed"
          /\ Head(channel[d]) # "piece" => behind' = behind
      BY <1>1, <1>7, <2>3 DEF Take
    <3>2. CASE Head(channel[d]) \in {"piece", "error"}
      BY <3>1, <3>2 DEF Complete
    <3>3. CASE Head(channel[d]) \notin {"piece", "error"}
      <4>1. /\ Head(channel[d]) \in Last /\ 1 \in 1..Len(channel[d])
            /\ channel[d][1] = Head(channel[d])
        BY <1>1, <3>1, <3>3 DEF Kind, Last
      <4>2. /\ d \in answered /\ d \notin pending /\ incoming.call # d
            /\ \A j \in 1..Len(channel[d]) : channel[d][j] # "piece"
        BY <4>1 DEF NothingAfterTheLast
      <4>3. PieceCount(channel[d]) = 0
        BY <4>2, CountNone
      <4>4. AtHand(d) = 0
        BY <4>2 DEF AtHand
      <4>5. d \notin lost => behind[d] = 0
        BY <1>1, <4>3, <4>4 DEF PiecesCounted
      <4>6. QED
        BY <2>1, <3>1, <3>3, <4>2, <4>5 DEF Complete
    <3>4. QED
      BY <3>2, <3>3
  <2>4. QED
    BY <2>2, <2>3
<1>8. ASSUME NEW c \in Call, TakeClosed(c)
      PROVE  Complete(d)'
  <2>1. UNCHANGED <<answered, lost, expired, pending, behind>>
    BY <1>8 DEF TakeClosed
  <2>2. CASE c # d
    <3>1. pc'[d] = pc[d]
      BY <1>1, <1>8, <2>2 DEF TakeClosed
    <3>2. QED
      BY <1>2, <2>1, <3>1
  <2>3. CASE c = d
    <3>1. /\ pc[d] = "receive" /\ channel[d] = <<>> /\ d \in closed
          /\ pc'[d] = "complete" => d \notin Streamed
      BY <1>1, <1>8, <2>3 DEF TakeClosed
    <3>2. \A i \in 1..Len(channel[d]) : FALSE
      BY <3>1
    <3>3. d \in expired \/ d \in lost
      BY <1>1, <3>1, <3>2 DEF ClosedForAReason
    <3>4. QED
      BY <2>1, <3>1, <3>3 DEF Complete
  <2>4. QED
    BY <2>2, <2>3
<1>9. ASSUME NEW c \in Call, NEW kind \in Kind, Offer(c, kind)
      PROVE  lost \subseteq lost'
  BY <1>9 DEF Offer
<1>10. CASE Dispatch
  <2>1. /\ incoming.call \in Call /\ incoming.kind \in Kind
        /\ Offer(incoming.call, incoming.kind) /\ pending' \subseteq pending
        /\ UNCHANGED <<pc, expired, behind, answered>>
    BY <1>10 DEF TypeOK, Dispatch, DeleteAndClose
  <2>2. QED
    BY <1>2, <1>9, <2>1
<1>11. CASE FailVisited
  <2>1. /\ Offer(visiting, "error") /\ visiting \in Call /\ "error" \in Kind
        /\ UNCHANGED <<pc, expired, behind, answered, pending>>
    BY <1>11 DEF TypeOK, FailVisited, Kind
  <2>2. QED
    BY <1>2, <1>9, <2>1
<1>12. CASE Cleanup \/ Detach
  <2>1. UNCHANGED <<pc, expired, behind, answered, lost>> /\ pending' \subseteq pending
    BY <1>12 DEF Cleanup, Detach
  <2>2. QED
    BY <1>2, <2>1
<1>13. QED
  BY <1>3, <1>4, <1>5, <1>6, <1>7, <1>8, <1>10, <1>11, <1>12 DEF Next, Step

-----------------------------------------------------------------------------
(* The end of the session. *)

LEMMA PassedByStep ==
  ASSUME RequestsParameters, TypeOK, Fresh, NobodyPassedBy, Next
  PROVE  NobodyPassedBy'
<1> DEFINE Found(c) ==
      pc[c] = "receive" /\ c \notin closed =>
        /\ phase # "detached" /\ c \in pending
        /\ phase = "walk" => c \in left \/ visiting = c
<1> USE DEF session, history, Goto
<1> SUFFICES ASSUME NEW d \in Call
             PROVE  Found(d)'
  BY DEF NobodyPassedBy
<1>1. /\ Found(d)
      /\ pc \in [Call -> {"idle", "store", "send", "receive", "complete", "failed",
                          "cancelled"}]
      /\ phase \in {"open", "walk", "detached"}
      /\ visiting # None => phase = "walk"
      /\ d # None
  BY DEF NobodyPassedBy, TypeOK, Over, Fresh, RequestsParameters
<1>2. ASSUME NEW c \in Call, Lookup(c) \/ Store(c) \/ Expire(c) \/ Withdraw(c)
      PROVE  Found(d)'
  BY <1>1, <1>2 DEF Lookup, Store, Expire, Withdraw, DeleteAndClose
<1>3. ASSUME NEW c \in Call, Take(c) \/ TakeClosed(c) \/ Abandon(c) \/ Visit(c)
      PROVE  Found(d)'
  BY <1>1, <1>3 DEF Take, TakeClosed, Abandon, Visit
<1>4. ASSUME NEW c \in Call, NEW written \in BOOLEAN, Send(c, written)
      PROVE  Found(d)'
  BY <1>1, <1>4 DEF Send, DeleteAndClose
<1>5. ASSUME NEW c \in Call, NEW kind \in Kind, Read(c, kind)
      PROVE  Found(d)'
  BY <1>1, <1>5 DEF Read
<1>6. CASE Dispatch
  BY <1>1, <1>6 DEF Dispatch, DeleteAndClose
<1>7. CASE Cleanup
  BY <1>1, <1>7 DEF Cleanup
<1>8. CASE FailVisited
  BY <1>1, <1>8 DEF FailVisited
<1>9. CASE Detach
  BY <1>1, <1>9 DEF Detach
<1>10. QED
  BY <1>2, <1>3, <1>4, <1>5, <1>6, <1>7, <1>8, <1>9 DEF Next, Step

-----------------------------------------------------------------------------
(* The theorems. *)

LEMMA Starts ==
  ASSUME RequestsParameters, Init
  PROVE  IInv
<1>1. \A c \in Call : PieceCount(channel[c]) = 0 /\ AtHand(c) = 0 /\ channel[c] = <<>>
  <2>1. \A c \in Call : channel[c] = <<>> /\ Len(channel[c]) = 0
    BY DEF Init
  <2>2. ASSUME NEW c \in Call PROVE PieceCount(channel[c]) = 0
    <3>1. \A i \in 1..Len(channel[c]) : channel[c][i] # "piece"
      BY <2>1
    <3>2. QED
      BY <3>1, CountNone
  <2>3. \A c \in Call : incoming # [call |-> c, kind |-> "piece"]
    BY DEF Init, NoMessage, RequestsParameters
  <2>4. QED
    BY <2>1, <2>2, <2>3 DEF AtHand
<1>2. TypeOK
  <2> DEFINE empty == <<>>
  <2>0. empty \in Seq(Kind) /\ Len(empty) = 0
    OBVIOUS
  <2> HIDE DEF empty
  <2>1. \A c \in Call : Len(channel[c]) <= Cap
    <3>1. \A c \in Call : channel[c] = empty
      BY <1>1 DEF empty
    <3>2. 0 <= Cap
      BY DEF RequestsParameters
    <3>3. QED
      BY <2>0, <3>1, <3>2
  <2>2. channel \in [Call -> Seq(Kind)]
    BY <2>0 DEF Init, empty
  <2>3. behind \in [Call -> 0..MaxBehind]
    BY DEF Init, RequestsParameters
  <2>4. QED
    BY <2>1, <2>2, <2>3 DEF Init, TypeOK
<1>3. PiecesCounted
  <2>1. \A c \in Call : behind[c] = 0
    BY DEF Init
  <2>2. ASSUME NEW c \in Call
        PROVE  /\ behind[c] >= PieceCount(channel[c]) + AtHand(c)
               /\ behind[c] = PieceCount(channel[c]) + AtHand(c)
    <3>1. behind[c] = 0 /\ PieceCount(channel[c]) = 0 /\ AtHand(c) = 0
      BY <1>1, <2>1
    <3>2. QED
      BY <3>1
  <2>3. QED
    BY <2>2 DEF PiecesCounted
<1>4. Fresh
  BY DEF Init, Fresh, FreshCall, NoMessage, RequestsParameters
<1>5. NothingAfterTheLast
  BY <1>1 DEF Init, NothingAfterTheLast
<1>6. ClosedForAReason /\ CompleteStays /\ NobodyPassedBy
  BY DEF Init, ClosedForAReason, CompleteStays, NobodyPassedBy
<1>7. QED
  BY <1>2, <1>3, <1>4, <1>5, <1>6 DEF IInv

LEMMA Goes ==
  ASSUME RequestsParameters, IInv, [Next]_vars
  PROVE  IInv'
<1>1. CASE Next
  BY <1>1, TypeStep, CountStep, FreshStep, LastStep, ReasonStep, CompleteStep, PassedByStep
  DEF IInv
<1>2. CASE UNCHANGED vars
  BY <1>2 DEF IInv, vars, session, history, TypeOK, PiecesCounted, AtHand, Fresh, FreshCall,
              NothingAfterTheLast, ClosedForAReason, CompleteStays, NobodyPassedBy
<1>3. QED
  BY <1>1, <1>2

\* The state has its type; in particular as many pieces are waited for as were read
\* and not taken, however the reader, cleanup and the contexts come together.
THEOREM RequestsTypeCorrect == ASSUME RequestsParameters PROVE Spec => []TypeOK
<1>1. IInv => TypeOK
  BY DEF IInv
<1>2. QED
  BY <1>1, Starts, Goes, PTL DEF Spec

\* What NonStream or Stream reports as complete is all the provider sent, but for
\* the messages that found the channel full and the calls of NonStream whose context
\* ended (dispatch, cleanup, NonStream, Stream).
THEOREM CompleteAnswersAreWhole == ASSUME RequestsParameters PROVE Spec => []CompleteIsWhole
<1>1. IInv => CompleteIsWhole
  BY DEF IInv, CompleteStays, CompleteIsWhole
<1>2. QED
  BY <1>1, Starts, Goes, PTL DEF Spec

\* When the session is gone every consumer that still waits has a closed channel
\* (request, cleanup).
THEOREM CleanupFindsAll == ASSUME RequestsParameters PROVE Spec => []NobodyStranded
<1>1. IInv => NobodyStranded
  BY DEF IInv, NobodyPassedBy, NobodyStranded
<1>2. QED
  BY <1>1, Starts, Goes, PTL DEF Spec

=============================================================================
