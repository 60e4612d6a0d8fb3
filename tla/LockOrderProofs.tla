--------------------------- MODULE LockOrderProofs ---------------------------
(***************************************************************************)
(* The types of the locks, for every number of goroutines and every set of   *)
(* calls, and no circle of waiting goroutines, for every set of calls without *)
(* GetFirstAvailableModel.  A call leads from holding nothing to holding      *)
(* nothing and, but for the one left out, takes a lock only above those it    *)
(* holds; what a goroutine holds and what is left of its call therefore agree. *)
(***************************************************************************)
EXTENDS LockOrder, TLAPS

\* The calls of which no circle is made.
NoNestedRead == "GetFirstAvailableModel" \notin Call

-----------------------------------------------------------------------------
(* Lawful calls. *)

Operation == [op : {"rlock", "runlock", "lock", "unlock"}, lock : Lock]

\* A lock is above those that may be held when it is taken.
Rank == [l \in Lock |-> IF l = "manager" THEN 0 ELSE 1]

\* The operation that gives back what o takes.
Due(o) == [op |-> IF o.op = "rlock" THEN "runlock" ELSE "unlock", lock |-> o.lock]

Taking(o) == o.op \in {"rlock", "lock"}

\* A goroutine that owes the operations a may do o.
Allowed(a, o) == IF Taking(o) THEN \A d \in a : Rank[d.lock] < Rank[o.lock] ELSE o \in a

After(a, o) == IF Taking(o) THEN a \cup {Due(o)} ELSE a \ {o}

Owed(h, s) ==
  \A i \in 1..Len(s) : Allowed(h[i], s[i]) /\ h[i + 1] = After(h[i], s[i])

\* s may be done by who owes a, and leaves b owed.
Path(s, a, b) ==
  \E h \in [1..(Len(s) + 1) -> SUBSET Operation] : h[1] = a /\ h[Len(s) + 1] = b /\ Owed(h, s)

LEMMA OperationTypes ==
  /\ \A o \in Operation : Due(o) \in Operation
  /\ \A l \in Lock : /\ RLock(l) \in Operation /\ RUnlock(l) \in Operation
                     /\ WLock(l) \in Operation /\ WUnlock(l) \in Operation
BY DEF Operation, Due, RLock, RUnlock, WLock, WUnlock

LEMMA RankType == \A l \in Lock : Rank[l] \in {0, 1}
BY DEF Rank

LEMMA Stay ==
  ASSUME NEW a \in SUBSET Operation
  PROVE  Path(<<>>, a, a)
<1>1. [i \in 1..1 |-> a] \in [1..(Len(<<>>) + 1) -> SUBSET Operation]
  OBVIOUS
<1>2. Owed([i \in 1..1 |-> a], <<>>)
  BY DEF Owed
<1>3. QED
  BY <1>1, <1>2 DEF Path

LEMMA OneStep ==
  ASSUME NEW a \in SUBSET Operation, NEW o \in Operation, Allowed(a, o)
  PROVE  Path(<<o>>, a, After(a, o))
<1> DEFINE h == [i \in 1..2 |-> IF i = 1 THEN a ELSE After(a, o)]
<1>1. After(a, o) \in SUBSET Operation
  BY OperationTypes DEF After
<1>2. Len(<<o>>) = 1 /\ <<o>>[1] = o
  OBVIOUS
<1>3. h \in [1..(Len(<<o>>) + 1) -> SUBSET Operation]
  BY <1>1, <1>2
<1>4. h[1] = a /\ h[Len(<<o>>) + 1] = After(a, o)
  BY <1>2
<1>5. Owed(h, <<o>>)
  BY <1>2, <1>4 DEF Owed
<1>6. QED
  BY <1>3, <1>4, <1>5 DEF Path

LEMMA Joined ==
  ASSUME NEW s \in Seq(Operation), NEW u \in Seq(Operation),
         NEW a, NEW b, NEW c, Path(s, a, b), Path(u, b, c)
  PROVE  Path(s \o u, a, c)
<1>1. PICK h \in [1..(Len(s) + 1) -> SUBSET Operation] :
        h[1] = a /\ h[Len(s) + 1] = b /\ Owed(h, s)
  BY DEF Path
<1>2. PICK k \in [1..(Len(u) + 1) -> SUBSET Operation] :
        k[1] = b /\ k[Len(u) + 1] = c /\ Owed(k, u)
  BY DEF Path
<1> DEFINE j == [i \in 1..(Len(s) + Len(u) + 1) |-> IF i <= Len(s) THEN h[i] ELSE k[i - Len(s)]]
<1>3. /\ Len(s) \in Nat /\ Len(u) \in Nat /\ Len(s \o u) = Len(s) + Len(u)
      /\ \A i \in 1..Len(s) : (s \o u)[i] = s[i]
      /\ \A i \in (Len(s) + 1)..(Len(s) + Len(u)) : (s \o u)[i] = u[i - Len(s)]
  OBVIOUS
<1>4. j \in [1..(Len(s \o u) + 1) -> SUBSET Operation]
  BY <1>3
<1>5. j[1] = a /\ j[Len(s \o u) + 1] = c
  BY <1>1, <1>2, <1>3
<1>6. ASSUME NEW i \in 1..Len(s \o u)
      PROVE  Allowed(j[i], (s \o u)[i]) /\ j[i + 1] = After(j[i], (s \o u)[i])
  <2>1. CASE i < Len(s)
    <3>1. i \in 1..Len(s) /\ j[i] = h[i] /\ j[i + 1] = h[i + 1] /\ (s \o u)[i] = s[i]
      BY <1>3, <2>1
    <3>2. QED
      BY <1>1, <3>1 DEF Owed
  <2>2. CASE i = Len(s)
    <3>1. i \in 1..Len(s) /\ j[i] = h[i] /\ j[i + 1] = k[1] /\ (s \o u)[i] = s[i]
      BY <1>3, <2>2
    <3>2. QED
      BY <1>1, <1>2, <2>2, <3>1 DEF Owed
  <2>3. CASE i > Len(s)
    <3>1. /\ i - Len(s) \in 1..Len(u) /\ (s \o u)[i] = u[i - Len(s)]
          /\ j[i] = k[i - Len(s)] /\ j[i + 1] = k[(i - Len(s)) + 1]
      BY <1>3, <2>3
    <3>2. QED
      BY <1>2, <3>1 DEF Owed
  <2>4. QED
    BY <1>3, <2>1, <2>2, <2>3
<1>7. Owed(j, s \o u)
  BY <1>6 DEF Owed
<1>8. QED
  BY <1>4, <1>5, <1>7 DEF Path

\* What is left of a lawful call after its first operation is lawful.
LEMMA Onward ==
  ASSUME NEW s \in Seq(Operation), s # <<>>, NEW a, NEW b, Path(s, a, b)
  PROVE  Allowed(a, Head(s)) /\ Path(Tail(s), After(a, Head(s)), b)
<1>1. PICK h \in [1..(Len(s) + 1) -> SUBSET Operation] :
        h[1] = a /\ h[Len(s) + 1] = b /\ Owed(h, s)
  BY DEF Path
<1> DEFINE k == [i \in 1..Len(s) |-> h[i + 1]]
<1>2. /\ Len(s) \in Nat \ {0} /\ Head(s) = s[1] /\ Len(Tail(s)) = Len(s) - 1
      /\ \A i \in 1..(Len(s) - 1) : Tail(s)[i] = s[i + 1]
  OBVIOUS
<1>3. Allowed(a, Head(s)) /\ h[2] = After(a, Head(s))
  BY <1>1, <1>2 DEF Owed
<1>4. k \in [1..(Len(Tail(s)) + 1) -> SUBSET Operation]
  BY <1>2
<1>5. k[1] = After(a, Head(s)) /\ k[Len(Tail(s)) + 1] = b
  BY <1>1, <1>2, <1>3
<1>6. ASSUME NEW i \in 1..Len(Tail(s))
      PROVE  Allowed(k[i], Tail(s)[i]) /\ k[i + 1] = After(k[i], Tail(s)[i])
  <2>1. /\ i + 1 \in 1..Len(s) /\ k[i] = h[i + 1] /\ k[i + 1] = h[(i + 1) + 1]
        /\ Tail(s)[i] = s[i + 1]
    BY <1>2
  <2>2. QED
    BY <1>1, <2>1 DEF Owed
<1>7. QED
  BY <1>3, <1>4, <1>5, <1>6 DEF Path, Owed

LEMMA BracketedRead ==
  ASSUME NEW l \in Lock, NEW body \in Seq(Operation), NEW a \in SUBSET Operation,
         \A d \in a : Rank[d.lock] < Rank[l],
         Path(body, a \cup {RUnlock(l)}, a \cup {RUnlock(l)})
  PROVE  ReadLocked(l, body) \in Seq(Operation) /\ Path(ReadLocked(l, body), a, a)
<1>1. RUnlock(l) \notin a
  <2>1. RUnlock(l).lock = l /\ ~(Rank[l] < Rank[l])
    BY RankType DEF RUnlock
  <2>2. QED
    BY <2>1
<1>2. Path(<<RLock(l)>>, a, a \cup {RUnlock(l)})
  <2>1. Allowed(a, RLock(l)) /\ After(a, RLock(l)) = a \cup {RUnlock(l)}
    BY DEF Allowed, After, Taking, Due, RLock, RUnlock
  <2>2. QED
    BY <2>1, OneStep, OperationTypes
<1>3. Path(<<RUnlock(l)>>, a \cup {RUnlock(l)}, a)
  <2>1. /\ Allowed(a \cup {RUnlock(l)}, RUnlock(l))
        /\ After(a \cup {RUnlock(l)}, RUnlock(l)) = a
    BY <1>1 DEF Allowed, After, Taking, RUnlock
  <2>2. QED
    BY <2>1, OneStep, OperationTypes
<1>4. <<RLock(l)>> \in Seq(Operation) /\ <<RUnlock(l)>> \in Seq(Operation)
  BY OperationTypes
<1>5. <<RLock(l)>> \o body \in Seq(Operation)
  BY <1>4
<1>6. Path(<<RLock(l)>> \o body, a, a \cup {RUnlock(l)})
  BY <1>2, <1>4, Joined
<1>7. (<<RLock(l)>> \o body) \o <<RUnlock(l)>> \in Seq(Operation)
  BY <1>4, <1>5
<1>8. Path((<<RLock(l)>> \o body) \o <<RUnlock(l)>>, a, a)
  BY <1>3, <1>4, <1>5, <1>6, Joined
<1>9. QED
  BY <1>7, <1>8 DEF ReadLocked

LEMMA BracketedWrite ==
  ASSUME NEW l \in Lock, NEW body \in Seq(Operation), NEW a \in SUBSET Operation,
         \A d \in a : Rank[d.lock] < Rank[l],
         Path(body, a \cup {WUnlock(l)}, a \cup {WUnlock(l)})
  PROVE  WriteLocked(l, body) \in Seq(Operation) /\ Path(WriteLocked(l, body), a, a)
<1>1. WUnlock(l) \notin a
  <2>1. WUnlock(l).lock = l /\ ~(Rank[l] < Rank[l])
    BY RankType DEF WUnlock
  <2>2. QED
    BY <2>1
<1>2. Path(<<WLock(l)>>, a, a \cup {WUnlock(l)})
  <2>1. Allowed(a, WLock(l)) /\ After(a, WLock(l)) = a \cup {WUnlock(l)}
    BY DEF Allowed, After, Taking, Due, WLock, WUnlock
  <2>2. QED
    BY <2>1, OneStep, OperationTypes
<1>3. Path(<<WUnlock(l)>>, a \cup {WUnlock(l)}, a)
  <2>1. /\ Allowed(a \cup {WUnlock(l)}, WUnlock(l))
        /\ After(a \cup {WUnlock(l)}, WUnlock(l)) = a
    BY <1>1 DEF Allowed, After, Taking, WUnlock
  <2>2. QED
    BY <2>1, OneStep, OperationTypes
<1>4. <<WLock(l)>> \in Seq(Operation) /\ <<WUnlock(l)>> \in Seq(Operation)
  BY OperationTypes
<1>5. <<WLock(l)>> \o body \in Seq(Operation)
  BY <1>4
<1>6. Path(<<WLock(l)>> \o body, a, a \cup {WUnlock(l)})
  BY <1>2, <1>4, Joined
<1>7. (<<WLock(l)>> \o body) \o <<WUnlock(l)>> \in Seq(Operation)
  BY <1>4, <1>5
<1>8. Path((<<WLock(l)>> \o body) \o <<WUnlock(l)>>, a, a)
  BY <1>3, <1>4, <1>5, <1>6, Joined
<1>9. QED
  BY <1>7, <1>8 DEF WriteLocked

Whole(s, a) == s \in Seq(Operation) /\ Path(s, a, a)

\* One lock, read or written, above what is held.
LEMMA Leaf ==
  ASSUME NEW l \in Lock, NEW a \in SUBSET Operation, \A d \in a : Rank[d.lock] < Rank[l]
  PROVE  Whole(ReadLocked(l, <<>>), a) /\ Whole(WriteLocked(l, <<>>), a)
<1>1. a \cup {RUnlock(l)} \in SUBSET Operation /\ a \cup {WUnlock(l)} \in SUBSET Operation
  BY OperationTypes
<1>2. /\ <<>> \in Seq(Operation)
      /\ Path(<<>>, a \cup {RUnlock(l)}, a \cup {RUnlock(l)})
      /\ Path(<<>>, a \cup {WUnlock(l)}, a \cup {WUnlock(l)})
  BY <1>1, Stay
<1>3. Whole(ReadLocked(l, <<>>), a)
  BY <1>2, BracketedRead DEF Whole
<1>4. Whole(WriteLocked(l, <<>>), a)
  BY <1>2, BracketedWrite DEF Whole
<1>5. QED
  BY <1>3, <1>4

LEMMA Joint ==
  ASSUME NEW s, NEW u, NEW a, Whole(s, a), Whole(u, a)
  PROVE  Whole(s \o u, a)
<1>1. s \in Seq(Operation) /\ u \in Seq(Operation) /\ Path(s, a, a) /\ Path(u, a, a)
  BY DEF Whole
<1>2. s \o u \in Seq(Operation)
  BY <1>1
<1>3. Path(s \o u, a, a)
  BY <1>1, Joined
<1>4. QED
  BY <1>2, <1>3 DEF Whole

\* Every call but the one left out takes its locks in order and gives them back.
LEMMA CallsLawful ==
  ASSUME LockParameters, NoNestedRead, NEW c \in Call
  PROVE  Whole(Steps[c], {})
<1> DEFINE none == {}
           read == {RUnlock("manager")}
           written == {WUnlock("manager")}
<1>1. none \in SUBSET Operation /\ read \in SUBSET Operation /\ written \in SUBSET Operation
  BY OperationTypes DEF Lock
<1>2. \A l \in Lock : Whole(ReadLocked(l, <<>>), {}) /\ Whole(WriteLocked(l, <<>>), {})
  BY <1>1, Leaf
<1>3. /\ Whole(ClientSupportsModel, read) /\ Whole(WriteLocked("selector", <<>>), read)
      /\ Whole(WriteLocked("store", <<>>), written)
  <2>1. \A l \in {"registry", "selector", "store"} :
          /\ l \in Lock
          /\ \A d \in read : Rank[d.lock] < Rank[l]
          /\ \A d \in written : Rank[d.lock] < Rank[l]
    BY DEF Rank, Lock, RUnlock, WUnlock
  <2>2. QED
    BY <1>1, <2>1, Leaf DEF ClientSupportsModel
<1>4. Whole(Update, {})
  BY <1>2, Joint DEF Update, Lock
<1>5. Whole(MarkResult, {})
  <2>1. Whole(WriteLocked("manager", WriteLocked("store", <<>>)), {})
    BY <1>1, <1>3, BracketedWrite DEF Whole, Lock
  <2>2. QED
    BY <1>2, <2>1, Joint DEF MarkResult, Lock
<1>6. Whole(pickNext, {})
  <2>1. Whole(ClientSupportsModel \o ClientSupportsModel \o WriteLocked("selector", <<>>), read)
    BY <1>3, Joint
  <2>2. QED
    BY <1>1, <2>1, BracketedRead DEF pickNext, Whole, Lock
<1>7. Whole(pickNextNone, {})
  BY <1>1, <1>3, BracketedRead DEF pickNextNone, Whole, Lock
<1>8. /\ Whole(ReadManager, {}) /\ Whole(WriteManager, {})
      /\ Whole(ReadRegistry, {}) /\ Whole(RegisterClient, {})
  BY <1>2 DEF ReadManager, WriteManager, ReadRegistry, RegisterClient, Lock
<1>9. c \in DOMAIN Steps /\ c # "GetFirstAvailableModel"
  BY DEF LockParameters, NoNestedRead
<1>10. QED
  BY <1>4, <1>5, <1>6, <1>7, <1>8, <1>9 DEF Steps

-----------------------------------------------------------------------------
(* The inductive invariant. *)

\* What t owes: the locks it holds.
Holding(t) ==
  {d \in Operation : \/ d.op = "runlock" /\ readers[d.lock][t] > 0
                     \/ d.op = "unlock" /\ writer[d.lock] = t /\ d.lock \in writing}

\* Nobody holds a read lock twice.
ReadsOnce == \A l \in Lock, t \in Thread : readers[l][t] \in {0, 1}

\* What is left of a call gives back what is held, in order.
LeftOver == \A t \in Thread : Path(todo[t], Holding(t), {})

\* A write lock that is held has a holder; one that is announced, a waiter.
Writers ==
  \A l \in Lock : /\ l \in writing => writer[l] # Nobody
                  /\ writer[l] # Nobody /\ l \notin writing => At(writer[l], "lock", l)

IInv == TypeOK /\ ReadsOnce /\ LeftOver /\ Writers

LEMMA HoldingType == \A t \in Thread : Holding(t) \in SUBSET Operation
BY DEF Holding

LEMMA TodoType ==
  ASSUME TypeOK, NEW t \in Thread
  PROVE  todo[t] \in Seq(Operation)
BY DEF TypeOK, Operation

LEMMA Finished ==
  ASSUME NEW a, NEW b, Path(<<>>, a, b)
  PROVE  a = b
BY DEF Path

LEMMA AtOne ==
  ASSUME TypeOK, NEW t \in Thread, NEW op, NEW l \in Lock, At(t, op, l)
  PROVE  /\ todo[t] # <<>> /\ Head(todo[t]).op = op /\ Head(todo[t]).lock = l
         /\ \A p, k : At(t, p, k) => p = op /\ k = l
<1>1. todo[t] # <<>> /\ Head(todo[t]) = [op |-> op, lock |-> l]
  BY DEF At
<1>2. ASSUME NEW p, NEW k, At(t, p, k)
      PROVE  p = op /\ k = l
  <2>1. [op |-> op, lock |-> l] = [op |-> p, lock |-> k]
    BY <1>1, <1>2 DEF At
  <2>2. [op |-> op, lock |-> l].op = [op |-> p, lock |-> k].op
        /\ [op |-> op, lock |-> l].lock = [op |-> p, lock |-> k].lock
    BY <2>1, Zenon
  <2>3. QED
    BY <2>2
<1>3. QED
  BY <1>1, <1>2

LEMMA InitIInv == ASSUME LockParameters, Init PROVE IInv
<1>1. TypeOK
  BY DEF Init, TypeOK
<1>2. ReadsOnce
  BY DEF Init, ReadsOnce
<1>3. LeftOver
  <2> SUFFICES ASSUME NEW t \in Thread
               PROVE  Path(todo[t], Holding(t), {})
    BY DEF LeftOver
  <2>1. Holding(t) = {}
    BY DEF Init, Holding, LockParameters, Operation
  <2>2. todo[t] = <<>>
    BY DEF Init
  <2>3. QED
    BY <2>1, <2>2, Stay
<1>4. Writers
  BY DEF Init, Writers
<1>5. QED
  BY <1>1, <1>2, <1>3, <1>4 DEF IInv

\* A goroutine that does its next operation, and changes what it holds accordingly,
\* keeps what is left in agreement.
LEMMA LeftOverKept ==
  ASSUME IInv, NEW t \in Thread, todo[t] # <<>>, Advance(t),
         Holding(t)' = After(Holding(t), Head(todo[t])),
         \A u \in Thread \ {t} : Holding(u)' = Holding(u)
  PROVE  LeftOver'
<1>1. /\ todo'[t] = Tail(todo[t])
      /\ \A u \in Thread \ {t} : todo'[u] = todo[u]
  BY DEF Advance, IInv, TypeOK
<1>2. Path(Tail(todo[t]), After(Holding(t), Head(todo[t])), {})
  BY TodoType, Onward DEF IInv, LeftOver
<1>3. Path(todo'[t], Holding(t)', {})
  BY <1>1, <1>2
<1>4. \A u \in Thread \ {t} : Path(todo'[u], Holding(u)', {})
  BY <1>1 DEF IInv, LeftOver
<1>5. \A u \in Thread : Path(todo'[u], Holding(u)', {})
  BY <1>3, <1>4
<1>6. QED
  BY <1>5 DEF LeftOver

LEMMA NextAllowed ==
  ASSUME IInv, NEW t \in Thread, todo[t] # <<>>
  PROVE  Allowed(Holding(t), Head(todo[t]))
BY TodoType, Onward DEF IInv, LeftOver

\* Who is about to take a lock does not hold it.
LEMMA TakesNew ==
  ASSUME IInv, NEW t \in Thread, NEW l \in Lock, At(t, "rlock", l) \/ At(t, "lock", l)
  PROVE  RUnlock(l) \notin Holding(t) /\ WUnlock(l) \notin Holding(t)
<1>1. /\ todo[t] # <<>> /\ Head(todo[t]).lock = l /\ Taking(Head(todo[t]))
  BY AtOne DEF IInv, Taking
<1>2. \A d \in Holding(t) : Rank[d.lock] < Rank[l]
  BY <1>1, NextAllowed DEF Allowed
<1>3. RUnlock(l).lock = l /\ WUnlock(l).lock = l /\ ~(Rank[l] < Rank[l])
  BY RankType DEF RUnlock, WUnlock
<1>4. QED
  BY <1>2, <1>3

\* Who is about to give a lock back holds it.
LEMMA GivesHeld ==
  ASSUME IInv, NEW t \in Thread, NEW op \in {"runlock", "unlock"}, NEW l \in Lock, At(t, op, l)
  PROVE  [op |-> op, lock |-> l] \in Holding(t)
<1>1. todo[t] # <<>> /\ Head(todo[t]) = [op |-> op, lock |-> l] /\ ~Taking(Head(todo[t]))
  BY DEF At, Taking
<1>2. QED
  BY <1>1, NextAllowed DEF Allowed

LEMMA HoldingRead ==
  ASSUME NEW t \in Thread, NEW l \in Lock
  PROVE  RUnlock(l) \in Holding(t) <=> readers[l][t] > 0
BY OperationTypes DEF Holding, RUnlock

LEMMA HoldingWrite ==
  ASSUME NEW t \in Thread, NEW l \in Lock
  PROVE  WUnlock(l) \in Holding(t) <=> writer[l] = t /\ l \in writing
BY OperationTypes DEF Holding, WUnlock

\* What is held consists of these two.
LEMMA HoldingIs ==
  ASSUME NEW t \in Thread, NEW d \in Holding(t)
  PROVE  \E l \in Lock : d = RUnlock(l) \/ d = WUnlock(l)
BY DEF Holding, Operation, RUnlock, WUnlock

\* Who waits with an announced write lock waits on while others act.
LEMMA OthersWait ==
  ASSUME LockParameters, IInv, NEW t \in Thread, NEW op, NEW l \in Lock, At(t, op, l), Advance(t),
         NEW k \in Lock, writer[k] # Nobody, k \notin writing, op # "lock" \/ k # l
  PROVE  /\ writer[k] \in Thread \ {t} /\ todo'[writer[k]] # <<>>
         /\ Head(todo'[writer[k]]) = [op |-> "lock", lock |-> k]
<1>1. At(writer[k], "lock", k) /\ writer[k] \in Thread
  BY DEF IInv, Writers, TypeOK
<1>2. writer[k] # t
  BY <1>1, AtOne DEF IInv
<1>3. todo'[writer[k]] = todo[writer[k]]
  BY <1>1, <1>2 DEF Advance, IInv, TypeOK
<1>4. QED
  BY <1>1, <1>2, <1>3 DEF At

LEMMA WritersKept ==
  ASSUME LockParameters, IInv, NEW t \in Thread, NEW op, NEW l \in Lock, At(t, op, l), Advance(t),
         \A k \in Lock : k \in writing' => writer'[k] # Nobody,
         \A k \in Lock : writer'[k] # Nobody /\ k \notin writing' =>
           writer'[k] = writer[k] /\ k \notin writing /\ (op # "lock" \/ k # l)
  PROVE  Writers'
<1>1. ASSUME NEW k \in Lock, writer'[k] # Nobody, k \notin writing'
      PROVE  todo'[writer'[k]] # <<>> /\ Head(todo'[writer'[k]]) = [op |-> "lock", lock |-> k]
  BY <1>1, OthersWait
<1>2. QED
  BY <1>1 DEF Writers, At

LEMMA AcquireReadIInv ==
  ASSUME LockParameters, IInv, NEW t \in Thread, NEW l \in Lock, AcquireRead(t, l)
  PROVE  IInv'
<1>1. At(t, "rlock", l) /\ todo[t] # <<>> /\ Head(todo[t]) = RLock(l)
  BY DEF AcquireRead, At, RLock
<1>2. readers[l][t] = 0
  BY <1>1, TakesNew, HoldingRead DEF IInv, ReadsOnce
<1>3. /\ readers' = [readers EXCEPT ![l] = [@ EXCEPT ![t] = 1]]
      /\ \A k \in Lock, u \in Thread :
           readers'[k][u] = IF k = l /\ u = t THEN 1 ELSE readers[k][u]
  BY <1>2 DEF AcquireRead, IInv, TypeOK
<1>4. TypeOK'
  BY <1>1, <1>3, TodoType DEF AcquireRead, Advance, IInv, TypeOK
<1>5. ReadsOnce'
  BY <1>3 DEF IInv, ReadsOnce
<1>6. Holding(t)' = After(Holding(t), Head(todo[t]))
  <2>1. After(Holding(t), Head(todo[t])) = Holding(t) \cup {RUnlock(l)}
    BY <1>1 DEF After, Taking, Due, RLock, RUnlock
  <2>2. QED
    BY <1>3, <2>1 DEF AcquireRead, Holding, Operation, RUnlock
<1>7. \A u \in Thread \ {t} : Holding(u)' = Holding(u)
  BY <1>3 DEF AcquireRead, Holding, Operation
<1>8. LeftOver'
  BY <1>1, <1>6, <1>7, LeftOverKept DEF AcquireRead
<1>9. Writers'
  <2>1. \A k \in Lock : k \in writing' => writer'[k] # Nobody
    BY DEF AcquireRead, IInv, Writers
  <2>2. QED
    BY <1>1, <2>1, WritersKept DEF AcquireRead
<1>10. QED
  BY <1>4, <1>5, <1>8, <1>9 DEF IInv

LEMMA ReleaseReadIInv ==
  ASSUME LockParameters, IInv, NEW t \in Thread, NEW l \in Lock, ReleaseRead(t, l)
  PROVE  IInv'
<1>1. At(t, "runlock", l) /\ todo[t] # <<>> /\ Head(todo[t]) = RUnlock(l)
  BY DEF ReleaseRead, At, RUnlock
<1>2. readers[l][t] = 1
  BY <1>1, GivesHeld, HoldingRead DEF IInv, ReadsOnce, RUnlock
<1>3. /\ readers' = [readers EXCEPT ![l] = [@ EXCEPT ![t] = 0]]
      /\ \A k \in Lock, u \in Thread :
           readers'[k][u] = IF k = l /\ u = t THEN 0 ELSE readers[k][u]
  BY <1>2 DEF ReleaseRead, IInv, TypeOK
<1>4. TypeOK'
  BY <1>1, <1>3, TodoType DEF ReleaseRead, Advance, IInv, TypeOK
<1>5. ReadsOnce'
  BY <1>3 DEF IInv, ReadsOnce
<1>6. Holding(t)' = After(Holding(t), Head(todo[t]))
  <2>1. After(Holding(t), Head(todo[t])) = Holding(t) \ {RUnlock(l)}
    BY <1>1 DEF After, Taking, RUnlock
  <2>2. QED
    BY <1>3, <2>1 DEF ReleaseRead, Holding, Operation, RUnlock
<1>7. \A u \in Thread \ {t} : Holding(u)' = Holding(u)
  BY <1>3 DEF ReleaseRead, Holding, Operation
<1>8. LeftOver'
  BY <1>1, <1>6, <1>7, LeftOverKept DEF ReleaseRead
<1>9. Writers'
  <2>1. \A k \in Lock : k \in writing' => writer'[k] # Nobody
    BY DEF ReleaseRead, IInv, Writers
  <2>2. QED
    BY <1>1, <2>1, WritersKept DEF ReleaseRead
<1>10. QED
  BY <1>4, <1>5, <1>8, <1>9 DEF IInv

LEMMA AnnounceIInv ==
  ASSUME LockParameters, IInv, NEW t \in Thread, NEW l \in Lock, Announce(t, l)
  PROVE  IInv'
<1>1. l \notin writing
  BY DEF Announce, IInv, Writers
<1>2. \A k \in Lock : writer'[k] = IF k = l THEN t ELSE writer[k]
  BY DEF Announce, IInv, TypeOK
<1>3. TypeOK' /\ ReadsOnce'
  BY DEF Announce, IInv, TypeOK, ReadsOnce
<1>4. \A u \in Thread : Holding(u)' = Holding(u)
  BY <1>1, <1>2 DEF Announce, Holding, Operation
<1>5. LeftOver'
  BY <1>4 DEF Announce, IInv, LeftOver
<1>6. Writers'
  BY <1>1, <1>2 DEF Announce, IInv, Writers, At, LockParameters
<1>7. QED
  BY <1>3, <1>5, <1>6 DEF IInv

LEMMA AcquireWriteIInv ==
  ASSUME LockParameters, IInv, NEW t \in Thread, NEW l \in Lock, AcquireWrite(t, l)
  PROVE  IInv'
<1>1. At(t, "lock", l) /\ todo[t] # <<>> /\ Head(todo[t]) = WLock(l)
  BY DEF AcquireWrite, At, WLock
<1>2. TypeOK' /\ ReadsOnce'
  <2>1. todo \in [Thread -> Seq(Operation)] /\ Tail(todo[t]) \in Seq(Operation)
    <3>1. todo \in [Thread -> Seq(Operation)]
      BY DEF IInv, TypeOK, Operation
    <3>2. todo[t] \in Seq(Operation) /\ todo[t] # <<>>
      BY <1>1, <3>1
    <3>3. Tail(todo[t]) \in Seq(Operation)
      BY <3>2
    <3>4. QED
      BY <3>1, <3>3
  <2>2. todo' \in [Thread -> Seq(Operation)]
    BY <2>1 DEF AcquireWrite, Advance
  <2>3. readers' = readers /\ writer' = writer /\ writing' = writing \cup {l}
    BY DEF AcquireWrite
  <2>4. QED
    BY <2>2, <2>3 DEF IInv, TypeOK, ReadsOnce, Operation
<1>3. Holding(t)' = After(Holding(t), Head(todo[t]))
  <2>1. After(Holding(t), Head(todo[t])) = Holding(t) \cup {WUnlock(l)}
    BY <1>1 DEF After, Taking, Due, WLock, WUnlock
  <2>2. QED
    BY <2>1 DEF AcquireWrite, Holding, Operation, WUnlock
<1>4. \A u \in Thread \ {t} : Holding(u)' = Holding(u)
  BY DEF AcquireWrite, Holding, Operation
<1>5. LeftOver'
  BY <1>1, <1>3, <1>4, LeftOverKept DEF AcquireWrite
<1>6. Writers'
  <2>1. \A k \in Lock : k \in writing' => writer'[k] # Nobody
    BY DEF AcquireWrite, IInv, Writers, LockParameters
  <2>2. \A k \in Lock : k \notin writing' => k \notin writing /\ k # l
    BY DEF AcquireWrite
  <2>3. QED
    BY <1>1, <2>1, <2>2, WritersKept DEF AcquireWrite
<1>7. QED
  BY <1>2, <1>5, <1>6 DEF IInv

LEMMA ReleaseWriteIInv ==
  ASSUME LockParameters, IInv, NEW t \in Thread, NEW l \in Lock, ReleaseWrite(t, l)
  PROVE  IInv'
<1>1. At(t, "unlock", l) /\ todo[t] # <<>> /\ Head(todo[t]) = WUnlock(l)
  BY DEF ReleaseWrite, At, WUnlock
<1>2. writer[l] = t /\ l \in writing
  BY <1>1, GivesHeld, HoldingWrite DEF WUnlock
<1>3. \A k \in Lock : writer'[k] = IF k = l THEN Nobody ELSE writer[k]
  BY DEF ReleaseWrite, IInv, TypeOK
<1>4. TypeOK' /\ ReadsOnce'
  BY <1>1, TodoType DEF ReleaseWrite, Advance, IInv, TypeOK, ReadsOnce
<1>5. Holding(t)' = After(Holding(t), Head(todo[t]))
  <2>1. After(Holding(t), Head(todo[t])) = Holding(t) \ {WUnlock(l)}
    BY <1>1 DEF After, Taking, WUnlock
  <2>2. QED
    BY <1>3, <2>1 DEF ReleaseWrite, Holding, Operation, WUnlock, LockParameters
<1>6. \A u \in Thread \ {t} : Holding(u)' = Holding(u)
  BY <1>2, <1>3 DEF ReleaseWrite, Holding, Operation, LockParameters
<1>7. LeftOver'
  BY <1>1, <1>5, <1>6, LeftOverKept DEF ReleaseWrite
<1>8. Writers'
  <2>1. \A k \in Lock : k \in writing' => writer'[k] # Nobody
    BY <1>3 DEF ReleaseWrite, IInv, Writers
  <2>2. \A k \in Lock : writer'[k] # Nobody /\ k \notin writing' =>
          writer'[k] = writer[k] /\ k \notin writing
    BY <1>3 DEF ReleaseWrite
  <2>3. QED
    BY <1>1, <2>1, <2>2, WritersKept DEF ReleaseWrite
<1>9. QED
  BY <1>4, <1>7, <1>8 DEF IInv

LEMMA BeginIInv ==
  ASSUME LockParameters, NoNestedRead, IInv, NEW t \in Thread, NEW c \in Call, Begin(t, c)
  PROVE  IInv'
<1>1. Steps[c] \in Seq(Operation) /\ Path(Steps[c], {}, {})
  BY CallsLawful DEF Whole
<1>2. /\ todo'[t] = Steps[c]
      /\ \A u \in Thread \ {t} : todo'[u] = todo[u]
  BY DEF Begin, IInv, TypeOK
<1>3. TypeOK' /\ ReadsOnce'
  BY <1>1 DEF Begin, IInv, TypeOK, ReadsOnce, Operation
<1>4. \A u \in Thread : Holding(u)' = Holding(u)
  BY DEF Begin, Holding
<1>5. Holding(t) = {}
  BY Finished DEF Begin, IInv, LeftOver
<1>6. LeftOver'
  BY <1>1, <1>2, <1>4, <1>5 DEF IInv, LeftOver
<1>7. Writers'
  BY <1>2 DEF Begin, IInv, TypeOK, Writers, At
<1>8. QED
  BY <1>3, <1>6, <1>7 DEF IInv

LEMMA NextIInv ==
  ASSUME LockParameters, NoNestedRead, IInv, [Next]_vars
  PROVE  IInv'
<1>1. CASE UNCHANGED vars
  <2>1. \A t \in Thread : Holding(t)' = Holding(t)
    BY <1>1 DEF vars, Holding
  <2>2. QED
    BY <1>1, <2>1 DEF vars, IInv, TypeOK, ReadsOnce, LeftOver, Writers, At
<1>2. CASE Next
  <2>1. PICK t \in Thread : Proceed(t) \/ \E c \in Call : Begin(t, c)
    BY <1>2 DEF Next
  <2>2. CASE Proceed(t)
    BY <2>2, AcquireReadIInv, ReleaseReadIInv, AnnounceIInv, AcquireWriteIInv,
       ReleaseWriteIInv DEF Proceed
  <2>3. CASE \E c \in Call : Begin(t, c)
    BY <2>3, BeginIInv
  <2>4. QED
    BY <2>1, <2>2, <2>3
<1>3. QED
  BY <1>1, <1>2

-----------------------------------------------------------------------------
(* Why there is no circle. *)

Waits(t, l) == At(t, "rlock", l) \/ At(t, "lock", l)

\* Who waits for another is blocked by one that holds the lock or waits for it with
\* its own announced, and is then blocked by one that reads.
LEMMA BlockedBy ==
  ASSUME LockParameters, IInv, NEW t \in Thread, NEW u \in Blockers(t)
  PROVE  u \in Thread /\ \E l \in Lock :
            Waits(t, l) /\ ((At(u, "lock", l) /\ writer[l] = u) \/ \E d \in Holding(u) : d.lock = l)
<1>1. PICK l \in Lock :
        /\ Waits(t, l)
        /\ u \in IF writer[l] = t THEN {v \in Thread : At(t, "lock", l) /\ readers[l][v] > 0}
                                  ELSE {writer[l]} \ {Nobody}
  BY DEF Blockers, Waits
<1>2. CASE writer[l] = t
  <2>1. u \in Thread /\ readers[l][u] > 0
    BY <1>1, <1>2
  <2>2. RUnlock(l) \in Holding(u) /\ RUnlock(l).lock = l
    BY <2>1, HoldingRead DEF RUnlock
  <2>3. QED
    BY <1>1, <2>1, <2>2
<1>3. CASE writer[l] # t
  <2>1. u = writer[l] /\ u # Nobody /\ u \in Thread
    BY <1>1, <1>3 DEF IInv, TypeOK
  <2>2. CASE l \in writing
    <3>1. WUnlock(l) \in Holding(u) /\ WUnlock(l).lock = l
      BY <2>1, <2>2, HoldingWrite DEF WUnlock
    <3>2. QED
      BY <1>1, <2>1, <3>1
  <2>3. CASE l \notin writing
    BY <1>1, <2>1, <2>3 DEF IInv, Writers
  <2>4. QED
    BY <2>2, <2>3
<1>4. QED
  BY <1>2, <1>3

\* A writer that waits with its lock announced is blocked by readers of that lock.
LEMMA AnnouncedBlockedBy ==
  ASSUME LockParameters, IInv, NEW t \in Thread, NEW l \in Lock,
         At(t, "lock", l), writer[l] = t, NEW u \in Blockers(t)
  PROVE  u \in Thread /\ \E d \in Holding(u) : d.lock = l
<1>1. PICK k \in Lock :
        /\ Waits(t, k)
        /\ u \in IF writer[k] = t THEN {v \in Thread : At(t, "lock", k) /\ readers[k][v] > 0}
                                  ELSE {writer[k]} \ {Nobody}
  BY DEF Blockers, Waits
<1>2. k = l
  BY <1>1, AtOne DEF IInv, Waits
<1>3. u \in Thread /\ readers[l][u] > 0
  BY <1>1, <1>2
<1>4. RUnlock(l) \in Holding(u) /\ RUnlock(l).lock = l
  BY <1>3, HoldingRead DEF RUnlock
<1>5. QED
  BY <1>3, <1>4

\* In a circle, one waits for a lock above any that is waited for.
LEMMA Climbing ==
  ASSUME LockParameters, IInv, NEW S \in SUBSET Thread,
         \A t \in S : Blockers(t) \cap S # {}, NEW t \in S
  PROVE  \E l \in Lock, u \in S, k \in Lock : Waits(t, l) /\ Waits(u, k) /\ Rank[l] < Rank[k]
<1>1. PICK l \in Lock, u \in S :
        Waits(t, l) /\ \E d \in Holding(u) : d.lock = l
  <2>1. PICK v \in Blockers(t) \cap S : TRUE
    OBVIOUS
  <2>2. PICK l \in Lock :
          Waits(t, l) /\ ((At(v, "lock", l) /\ writer[l] = v) \/ \E d \in Holding(v) : d.lock = l)
    BY <2>1, BlockedBy
  <2>3. CASE \E d \in Holding(v) : d.lock = l
    BY <2>1, <2>2, <2>3
  <2>4. CASE At(v, "lock", l) /\ writer[l] = v
    <3>1. PICK w \in Blockers(v) \cap S : TRUE
      BY <2>1
    <3>2. \E d \in Holding(w) : d.lock = l
      BY <2>1, <2>4, <3>1, AnnouncedBlockedBy
    <3>3. QED
      BY <2>2, <3>1, <3>2
  <2>5. QED
    BY <2>2, <2>3, <2>4
<1>2. PICK w \in Blockers(u) \cap S : TRUE
  OBVIOUS
<1>3. PICK k \in Lock : Waits(u, k)
  BY <1>2, BlockedBy
<1>4. /\ todo[u] # <<>> /\ Head(todo[u]).lock = k /\ Taking(Head(todo[u]))
  BY <1>3, AtOne DEF IInv, Taking, Waits
<1>5. \A d \in Holding(u) : Rank[d.lock] < Rank[k]
  BY <1>4, NextAllowed DEF Allowed
<1>6. QED
  BY <1>1, <1>3, <1>5

LEMMA NoCircle == ASSUME LockParameters, IInv PROVE NoCircularWait
<1> SUFFICES ASSUME NEW S \in (SUBSET Thread) \ {{}}, \A t \in S : Blockers(t) \cap S # {}
             PROVE  FALSE
  BY DEF NoCircularWait
<1>1. PICK t \in S : TRUE
  OBVIOUS
<1>2. PICK l \in Lock, u \in S, k \in Lock : Waits(u, k) /\ Rank[l] < Rank[k]
  BY <1>1, Climbing
<1>3. PICK m \in Lock, v \in S, n \in Lock : Waits(u, m) /\ Rank[m] < Rank[n]
  BY <1>2, Climbing
<1>4. m = k
  BY <1>2, <1>3, AtOne DEF IInv, Waits
<1>5. QED
  BY <1>2, <1>3, <1>4, RankType

-----------------------------------------------------------------------------
(* The read locks of any call, GetFirstAvailableModel too, which takes one twice. *)

ReadCounts == [Lock -> Nat]
NoReads == [l \in Lock |-> 0]

\* Who holds the read locks a may do o, and holds then the following.
Gives(a, o) == o.op = "runlock" => a[o.lock] > 0

ReadsAfter(a, o) ==
  [l \in Lock |-> IF l # o.lock THEN a[l]
                  ELSE IF o.op = "rlock" THEN a[l] + 1
                  ELSE IF o.op = "runlock" THEN a[l] - 1 ELSE a[l]]

Counted(h, s) ==
  \A i \in 1..Len(s) : Gives(h[i], s[i]) /\ h[i + 1] = ReadsAfter(h[i], s[i])

\* s may be done by who holds the read locks a, and leaves b held.
ReadPath(s, a, b) ==
  \E h \in [1..(Len(s) + 1) -> ReadCounts] : h[1] = a /\ h[Len(s) + 1] = b /\ Counted(h, s)

\* s gives back the read locks it takes, whatever is held before it.
GivesBack(s) == s \in Seq(Operation) /\ \A a \in ReadCounts : ReadPath(s, a, a)

LEMMA ReadsAfterType ==
  ASSUME NEW a \in ReadCounts, NEW o \in Operation, Gives(a, o)
  PROVE  ReadsAfter(a, o) \in ReadCounts
BY DEF ReadCounts, Gives, ReadsAfter, Operation

LEMMA OneRead ==
  ASSUME NEW a \in ReadCounts, NEW o \in Operation, Gives(a, o)
  PROVE  ReadPath(<<o>>, a, ReadsAfter(a, o))
<1> DEFINE h == [i \in 1..2 |-> IF i = 1 THEN a ELSE ReadsAfter(a, o)]
<1>1. Len(<<o>>) = 1 /\ <<o>>[1] = o
  OBVIOUS
<1>2. h \in [1..(Len(<<o>>) + 1) -> ReadCounts]
  BY <1>1, ReadsAfterType
<1>3. h[1] = a /\ h[Len(<<o>>) + 1] = ReadsAfter(a, o)
  BY <1>1
<1>4. Counted(h, <<o>>)
  BY <1>1, <1>3 DEF Counted
<1>. QED
  BY <1>2, <1>3, <1>4 DEF ReadPath

LEMMA ReadsJoined ==
  ASSUME NEW s \in Seq(Operation), NEW u \in Seq(Operation),
         NEW a, NEW b, NEW c, ReadPath(s, a, b), ReadPath(u, b, c)
  PROVE  ReadPath(s \o u, a, c)
<1>1. PICK h \in [1..(Len(s) + 1) -> ReadCounts] :
        h[1] = a /\ h[Len(s) + 1] = b /\ Counted(h, s)
  BY DEF ReadPath
<1>2. PICK k \in [1..(Len(u) + 1) -> ReadCounts] :
        k[1] = b /\ k[Len(u) + 1] = c /\ Counted(k, u)
  BY DEF ReadPath
<1> DEFINE j == [i \in 1..(Len(s) + Len(u) + 1) |-> IF i <= Len(s) THEN h[i] ELSE k[i - Len(s)]]
<1>3. /\ Len(s) \in Nat /\ Len(u) \in Nat /\ Len(s \o u) = Len(s) + Len(u)
      /\ \A i \in 1..Len(s) : (s \o u)[i] = s[i]
      /\ \A i \in (Len(s) + 1)..(Len(s) + Len(u)) : (s \o u)[i] = u[i - Len(s)]
  OBVIOUS
<1>4. j \in [1..(Len(s \o u) + 1) -> ReadCounts]
  BY <1>3
<1>5. j[1] = a /\ j[Len(s \o u) + 1] = c
  BY <1>1, <1>2, <1>3
<1>6. ASSUME NEW i \in 1..Len(s \o u)
      PROVE  Gives(j[i], (s \o u)[i]) /\ j[i + 1] = ReadsAfter(j[i], (s \o u)[i])
  <2>1. CASE i < Len(s)
    <3>1. i \in 1..Len(s) /\ j[i] = h[i] /\ j[i + 1] = h[i + 1] /\ (s \o u)[i] = s[i]
      BY <1>3, <2>1
    <3>. QED
      BY <1>1, <3>1 DEF Counted
  <2>2. CASE i = Len(s)
    <3>1. i \in 1..Len(s) /\ j[i] = h[i] /\ j[i + 1] = k[1] /\ (s \o u)[i] = s[i]
      BY <1>3, <2>2
    <3>. QED
      BY <1>1, <1>2, <2>2, <3>1 DEF Counted
  <2>3. CASE i > Len(s)
    <3>1. /\ i - Len(s) \in 1..Len(u) /\ (s \o u)[i] = u[i - Len(s)]
          /\ j[i] = k[i - Len(s)] /\ j[i + 1] = k[(i - Len(s)) + 1]
      BY <1>3, <2>3
    <3>. QED
      BY <1>2, <3>1 DEF Counted
  <2>. QED
    BY <1>3, <2>1, <2>2, <2>3
<1>7. Counted(j, s \o u)
  BY <1>6 DEF Counted
<1>. QED
  BY <1>4, <1>5, <1>7 DEF ReadPath

\* What is left of a call after its first operation gives back what is held then.
LEMMA ReadsOnward ==
  ASSUME NEW s \in Seq(Operation), s # <<>>, NEW a, NEW b, ReadPath(s, a, b)
  PROVE  Gives(a, Head(s)) /\ ReadPath(Tail(s), ReadsAfter(a, Head(s)), b)
<1>1. PICK h \in [1..(Len(s) + 1) -> ReadCounts] :
        h[1] = a /\ h[Len(s) + 1] = b /\ Counted(h, s)
  BY DEF ReadPath
<1> DEFINE k == [i \in 1..Len(s) |-> h[i + 1]]
<1>2. /\ Len(s) \in Nat \ {0} /\ Head(s) = s[1] /\ Len(Tail(s)) = Len(s) - 1
      /\ \A i \in 1..(Len(s) - 1) : Tail(s)[i] = s[i + 1]
  OBVIOUS
<1>3. Gives(a, Head(s)) /\ h[2] = ReadsAfter(a, Head(s))
  BY <1>1, <1>2 DEF Counted
<1>4. k \in [1..(Len(Tail(s)) + 1) -> ReadCounts]
  BY <1>2
<1>5. k[1] = ReadsAfter(a, Head(s)) /\ k[Len(Tail(s)) + 1] = b
  BY <1>1, <1>2, <1>3
<1>6. ASSUME NEW i \in 1..Len(Tail(s))
      PROVE  Gives(k[i], Tail(s)[i]) /\ k[i + 1] = ReadsAfter(k[i], Tail(s)[i])
  <2>1. /\ i + 1 \in 1..Len(s) /\ k[i] = h[i + 1] /\ k[i + 1] = h[(i + 1) + 1]
        /\ Tail(s)[i] = s[i + 1]
    BY <1>2
  <2>. QED
    BY <1>1, <2>1 DEF Counted
<1>. QED
  BY <1>3, <1>4, <1>5, <1>6 DEF ReadPath, Counted

LEMMA NothingGivesBack == GivesBack(<<>>)
<1>1. ASSUME NEW a \in ReadCounts PROVE ReadPath(<<>>, a, a)
  <2>1. [i \in 1..1 |-> a] \in [1..(Len(<<>>) + 1) -> ReadCounts]
    OBVIOUS
  <2>2. Counted([i \in 1..1 |-> a], <<>>)
    BY DEF Counted
  <2>. QED
    BY <2>1, <2>2 DEF ReadPath
<1>. QED
  BY <1>1 DEF GivesBack

LEMMA JointGivesBack ==
  ASSUME NEW s, NEW u, GivesBack(s), GivesBack(u)
  PROVE  GivesBack(s \o u)
<1>1. s \in Seq(Operation) /\ u \in Seq(Operation)
  BY DEF GivesBack
<1>2. s \o u \in Seq(Operation)
  BY <1>1
<1>3. \A a \in ReadCounts : ReadPath(s, a, a) /\ ReadPath(u, a, a)
  BY DEF GivesBack
<1>4. \A a \in ReadCounts : ReadPath(s \o u, a, a)
  BY <1>1, <1>3, ReadsJoined
<1>. QED
  BY <1>2, <1>4 DEF GivesBack

LEMMA BracketedGivesBack ==
  ASSUME NEW l \in Lock, NEW body, GivesBack(body)
  PROVE  GivesBack(ReadLocked(l, body)) /\ GivesBack(WriteLocked(l, body))
<1>1. /\ RLock(l) \in Operation /\ RUnlock(l) \in Operation
      /\ WLock(l) \in Operation /\ WUnlock(l) \in Operation
  BY OperationTypes
<1>2. /\ <<RLock(l)>> \in Seq(Operation) /\ <<RUnlock(l)>> \in Seq(Operation)
      /\ <<WLock(l)>> \in Seq(Operation) /\ <<WUnlock(l)>> \in Seq(Operation)
      /\ body \in Seq(Operation)
  BY <1>1 DEF GivesBack
<1>3. /\ <<RLock(l)>> \o body \in Seq(Operation) /\ <<WLock(l)>> \o body \in Seq(Operation)
      /\ (<<RLock(l)>> \o body) \o <<RUnlock(l)>> \in Seq(Operation)
      /\ (<<WLock(l)>> \o body) \o <<WUnlock(l)>> \in Seq(Operation)
  BY <1>2
<1>4. ASSUME NEW a \in ReadCounts
      PROVE  ReadPath((<<RLock(l)>> \o body) \o <<RUnlock(l)>>, a, a)
  <2>1. Gives(a, RLock(l))
    BY DEF Gives, RLock
  <2>2. PICK b \in ReadCounts : b = ReadsAfter(a, RLock(l))
    BY <1>1, <2>1, ReadsAfterType
  <2>3. ReadPath(<<RLock(l)>>, a, b)
    BY <1>1, <2>1, <2>2, OneRead
  <2>4. ReadPath(<<RLock(l)>> \o body, a, b)
    BY <1>2, <2>3, ReadsJoined DEF GivesBack
  <2>5. Gives(b, RUnlock(l)) /\ ReadsAfter(b, RUnlock(l)) = a
    BY <2>2 DEF Gives, ReadsAfter, RLock, RUnlock, ReadCounts
  <2>6. ReadPath(<<RUnlock(l)>>, b, a)
    BY <1>1, <2>5, OneRead
  <2>. QED
    BY <1>2, <1>3, <2>4, <2>6, ReadsJoined
<1>5. ASSUME NEW a \in ReadCounts
      PROVE  ReadPath((<<WLock(l)>> \o body) \o <<WUnlock(l)>>, a, a)
  <2>1. /\ Gives(a, WLock(l)) /\ ReadsAfter(a, WLock(l)) = a
        /\ Gives(a, WUnlock(l)) /\ ReadsAfter(a, WUnlock(l)) = a
    BY DEF Gives, ReadsAfter, WLock, WUnlock, ReadCounts
  <2>2. ReadPath(<<WLock(l)>>, a, a) /\ ReadPath(<<WUnlock(l)>>, a, a)
    BY <1>1, <2>1, OneRead
  <2>3. ReadPath(<<WLock(l)>> \o body, a, a)
    BY <1>2, <2>2, ReadsJoined DEF GivesBack
  <2>. QED
    BY <1>2, <1>3, <2>2, <2>3, ReadsJoined
<1>. QED
  BY <1>3, <1>4, <1>5 DEF GivesBack, ReadLocked, WriteLocked

\* Every call gives back its read locks.
LEMMA CallsGiveBack == \A c \in DOMAIN Steps : GivesBack(Steps[c])
<1>1. \A l \in Lock : GivesBack(ReadLocked(l, <<>>)) /\ GivesBack(WriteLocked(l, <<>>))
  BY NothingGivesBack, BracketedGivesBack
<1>2. GivesBack(ClientSupportsModel) /\ GivesBack(ReadRegistry)
  BY <1>1 DEF ClientSupportsModel, ReadRegistry, Lock
<1>3. GivesBack(Update) /\ GivesBack(RegisterClient)
  BY <1>1, JointGivesBack DEF Update, RegisterClient, Lock
<1>4. GivesBack(MarkResult)
  <2>1. GivesBack(WriteLocked("manager", WriteLocked("store", <<>>)))
    BY <1>1, BracketedGivesBack DEF Lock
  <2>. QED
    BY <1>1, <2>1, JointGivesBack DEF MarkResult, Lock
<1>5. GivesBack(pickNext)
  <2>1. GivesBack(ClientSupportsModel \o ClientSupportsModel \o WriteLocked("selector", <<>>))
    BY <1>1, <1>2, JointGivesBack DEF Lock
  <2>. QED
    BY <2>1, BracketedGivesBack DEF pickNext, Lock
<1>6. GivesBack(pickNextNone)
  BY <1>2, BracketedGivesBack DEF pickNextNone, Lock
<1>7. GivesBack(GetFirstAvailableModel)
  <2>1. GivesBack(ReadRegistry \o ReadRegistry)
    BY <1>2, JointGivesBack
  <2>. QED
    BY <2>1, BracketedGivesBack DEF GetFirstAvailableModel, Lock
<1>8. GivesBack(ReadManager) /\ GivesBack(WriteManager)
  BY <1>1 DEF ReadManager, WriteManager, Lock
<1>. QED
  BY <1>2, <1>3, <1>4, <1>5, <1>6, <1>7, <1>8 DEF Steps

\* The read locks of t, which what is left of its call gives back.
ReadsOf(t) == [l \in Lock |-> readers[l][t]]

ReadsInv == TypeOK /\ \A t \in Thread : ReadPath(todo[t], ReadsOf(t), NoReads)

LEMMA ReadsInvInit == Init => ReadsInv
<1>. SUFFICES ASSUME Init PROVE ReadsInv
  OBVIOUS
<1>1. TypeOK
  BY DEF Init, TypeOK
<1>2. ASSUME NEW t \in Thread PROVE ReadPath(todo[t], ReadsOf(t), NoReads)
  <2>1. todo[t] = <<>> /\ ReadsOf(t) = NoReads /\ NoReads \in ReadCounts
    BY DEF Init, ReadsOf, NoReads, ReadCounts
  <2>. QED
    BY <2>1, NothingGivesBack DEF GivesBack
<1>. QED
  BY <1>1, <1>2 DEF ReadsInv

\* A goroutine does the next operation of its call.
LEMMA ReadsKept ==
  ASSUME ReadsInv, NEW t \in Thread, todo[t] # <<>>, Advance(t),
         ReadsOf(t)' = ReadsAfter(ReadsOf(t), Head(todo[t])),
         \A u \in Thread \ {t} : ReadsOf(u)' = ReadsOf(u)
  PROVE  \A u \in Thread : ReadPath(todo'[u], ReadsOf(u)', NoReads)
<1>1. /\ todo'[t] = Tail(todo[t])
      /\ \A u \in Thread \ {t} : todo'[u] = todo[u]
  BY DEF Advance, ReadsInv, TypeOK
<1>2. ReadPath(Tail(todo[t]), ReadsAfter(ReadsOf(t), Head(todo[t])), NoReads)
  BY TodoType, ReadsOnward DEF ReadsInv
<1>. QED
  BY <1>1, <1>2 DEF ReadsInv

LEMMA ReadsInvProceed ==
  ASSUME ReadsInv, NEW t \in Thread, Proceed(t)
  PROVE  ReadsInv'
<1>1. PICK l \in Lock : \/ AcquireRead(t, l) \/ ReleaseRead(t, l)
                       \/ Announce(t, l) \/ AcquireWrite(t, l) \/ ReleaseWrite(t, l)
  BY DEF Proceed
<1>2. /\ TypeOK /\ todo[t] \in Seq(Operation)
      /\ \A k \in Lock, u \in Thread : readers[k][u] \in Nat
  BY TodoType DEF ReadsInv, TypeOK
<1>3. Advance(t) /\ todo[t] # <<>> =>
        todo' \in [Thread -> Seq([op : {"rlock", "runlock", "lock", "unlock"}, lock : Lock])]
  <2>1. todo[t] # <<>> => Tail(todo[t]) \in Seq(Operation)
    BY <1>2
  <2>2. todo \in [Thread -> Seq(Operation)]
    BY <1>2 DEF TypeOK, Operation
  <2>3. Advance(t) /\ todo[t] # <<>> => todo' \in [Thread -> Seq(Operation)]
    BY <2>1, <2>2 DEF Advance
  <2>. QED
    BY <2>3 DEF Operation
<1>4. CASE AcquireRead(t, l)
  <2>1. todo[t] # <<>> /\ Head(todo[t]) = RLock(l)
    BY <1>4 DEF AcquireRead, At, RLock
  <2>2. /\ readers' \in [Lock -> [Thread -> Nat]]
        /\ \A k \in Lock, u \in Thread :
             readers'[k][u] = IF k = l /\ u = t THEN readers[k][u] + 1 ELSE readers[k][u]
    BY <1>2, <1>4 DEF AcquireRead, TypeOK
  <2>3. TypeOK'
    BY <1>2, <1>3, <1>4, <2>1, <2>2 DEF AcquireRead, TypeOK
  <2>4. ReadsOf(t)' = ReadsAfter(ReadsOf(t), Head(todo[t]))
    BY <2>1, <2>2 DEF ReadsOf, ReadsAfter, RLock
  <2>5. \A u \in Thread \ {t} : ReadsOf(u)' = ReadsOf(u)
    BY <2>2 DEF ReadsOf
  <2>. QED
    BY <1>4, <2>1, <2>3, <2>4, <2>5, ReadsKept DEF AcquireRead, ReadsInv
<1>5. CASE ReleaseRead(t, l)
  <2>1. todo[t] # <<>> /\ Head(todo[t]) = RUnlock(l)
    BY <1>5 DEF ReleaseRead, At, RUnlock
  <2>2. readers[l][t] > 0
    <3>1. Gives(ReadsOf(t), RUnlock(l))
      BY <1>2, <2>1, ReadsOnward DEF ReadsInv
    <3>. QED
      BY <3>1 DEF Gives, RUnlock, ReadsOf
  <2>3. /\ readers' \in [Lock -> [Thread -> Nat]]
        /\ \A k \in Lock, u \in Thread :
             readers'[k][u] = IF k = l /\ u = t THEN readers[k][u] - 1 ELSE readers[k][u]
    <3>1. readers[l][t] - 1 \in Nat
      BY <1>2, <2>2
    <3>. QED
      BY <1>2, <1>5, <3>1 DEF ReleaseRead, TypeOK
  <2>4. TypeOK'
    BY <1>2, <1>3, <1>5, <2>1, <2>3 DEF ReleaseRead, TypeOK
  <2>5. ReadsOf(t)' = ReadsAfter(ReadsOf(t), Head(todo[t]))
    BY <2>1, <2>3 DEF ReadsOf, ReadsAfter, RUnlock
  <2>6. \A u \in Thread \ {t} : ReadsOf(u)' = ReadsOf(u)
    BY <2>3 DEF ReadsOf
  <2>. QED
    BY <1>5, <2>1, <2>4, <2>5, <2>6, ReadsKept DEF ReleaseRead, ReadsInv
<1>6. CASE Announce(t, l)
  BY <1>2, <1>6 DEF Announce, ReadsInv, TypeOK, ReadsOf
<1>7. CASE AcquireWrite(t, l) \/ ReleaseWrite(t, l)
  <2>1. todo[t] # <<>> /\ (Head(todo[t]) = WLock(l) \/ Head(todo[t]) = WUnlock(l))
    BY <1>7 DEF AcquireWrite, ReleaseWrite, At, WLock, WUnlock
  <2>2. readers' = readers /\ Advance(t)
    BY <1>7 DEF AcquireWrite, ReleaseWrite
  <2>3. TypeOK'
    BY <1>2, <1>3, <1>7, <2>1, <2>2 DEF AcquireWrite, ReleaseWrite, TypeOK
  <2>4. ReadsOf(t)' = ReadsAfter(ReadsOf(t), Head(todo[t]))
    BY <2>1, <2>2 DEF ReadsOf, ReadsAfter, WLock, WUnlock
  <2>5. \A u \in Thread \ {t} : ReadsOf(u)' = ReadsOf(u)
    BY <2>2 DEF ReadsOf
  <2>. QED
    BY <2>1, <2>2, <2>3, <2>4, <2>5, ReadsKept DEF ReadsInv
<1>. QED
  BY <1>1, <1>4, <1>5, <1>6, <1>7

LEMMA ReadsInvBegin ==
  ASSUME LockParameters, ReadsInv, NEW t \in Thread, NEW c \in Call, Begin(t, c)
  PROVE  ReadsInv'
<1>1. GivesBack(Steps[c])
  BY CallsGiveBack DEF LockParameters
<1>2. /\ todo'[t] = Steps[c] /\ todo[t] = <<>> /\ readers' = readers
      /\ \A u \in Thread \ {t} : todo'[u] = todo[u]
  BY DEF Begin, ReadsInv, TypeOK
<1>3. TypeOK'
  BY <1>1 DEF Begin, ReadsInv, TypeOK, GivesBack, Operation
<1>4. ReadsOf(t) = NoReads /\ NoReads \in ReadCounts
  BY <1>2 DEF ReadsInv, ReadPath, NoReads, ReadCounts
<1>5. \A u \in Thread : ReadsOf(u)' = ReadsOf(u)
  BY <1>2 DEF ReadsOf
<1>6. ReadPath(todo'[t], ReadsOf(t)', NoReads)
  BY <1>1, <1>2, <1>4, <1>5 DEF GivesBack
<1>. QED
  BY <1>2, <1>3, <1>5, <1>6 DEF ReadsInv

LEMMA ReadsInvNext ==
  ASSUME LockParameters, ReadsInv, [Next]_vars
  PROVE  ReadsInv'
<1>1. CASE UNCHANGED vars
  <2>1. \A t \in Thread : ReadsOf(t)' = ReadsOf(t)
    BY <1>1 DEF vars, ReadsOf
  <2>. QED
    BY <1>1, <2>1 DEF vars, ReadsInv, TypeOK
<1>2. CASE Next
  BY <1>2, ReadsInvProceed, ReadsInvBegin DEF Next
<1>. QED
  BY <1>1, <1>2

-----------------------------------------------------------------------------
\* Calls: the locks and what is left of every call are what the module says, for every
\* number of goroutines and every set of calls; nobody gives back a read lock that it does
\* not hold (pickNext's early returns, GetFirstAvailableModel's second lock).
THEOREM LocksTypeCorrect == ASSUME LockParameters PROVE Spec => []TypeOK
<1>1. Init => ReadsInv
  BY ReadsInvInit
<1>2. ReadsInv /\ [Next]_vars => ReadsInv'
  BY ReadsInvNext
<1>3. ReadsInv => TypeOK
  BY DEF ReadsInv
<1>. QED
  BY <1>1, <1>2, <1>3, PTL DEF Spec

\* Deadlock of the request path: however many goroutines make any of the calls but
\* GetFirstAvailableModel, none of them wait for each other in a circle.
THEOREM CirclesImpossible == ASSUME LockParameters, NoNestedRead PROVE Spec => []NoCircularWait
<1>1. Init => IInv
  BY InitIInv
<1>2. IInv /\ [Next]_vars => IInv'
  BY NextIInv
<1>3. IInv => NoCircularWait
  BY NoCircle
<1>4. QED
  BY <1>1, <1>2, <1>3, PTL DEF Spec

=============================================================================
