--------------------------- MODULE WatcherProofs ---------------------------
(***************************************************************************)
(* Inductive invariants of the two components of MCWatcher.  The first is    *)
(* about the way of a file's state to the manager (AuthUpdates), the second   *)
(* about the store outside (MirroredStore).  Either component rests while    *)
(* the other one acts.  In between, the refinement of AuthUpdateFeed.        *)
(***************************************************************************)
EXTENDS MCWatcher, FiniteSetTheorems, SequenceTheorems, TLAPS

-----------------------------------------------------------------------------
(* What keeps the manager at the state of the files.                          *)

\* The last update of f in a list says x; the list has none of f.
LastIn(s, f, x) ==
  \E k \in 1..Len(s) : /\ s[k].id = f /\ s[k].value = x
                       /\ \A j \in 1..Len(s) : j > k => s[j].id # f
NoneIn(s, f) == \A k \in 1..Len(s) : s[k].id # f

\* The manager has state x of f, or will have it when all that is under way is applied.
Latest(f, x) ==
  \/ LastIn(pending, f, x)
  \/ NoneIn(pending, f) /\ (\/ LastIn(batch, f, x)
                            \/ NoneIn(batch, f) /\ (\/ LastIn(queue, f, x)
                                                    \/ NoneIn(queue, f) /\ view[f] = x))

\* Two refreshes under way have made every file a raced one.
OneRefresh ==
  raced = File \/ \A g, h \in Goroutine : Refreshing(g) /\ Refreshing(h) => g = h

\* Before the first scan nothing is known and nothing under way, and a file the manager
\* has no longer right was changed and is there; before the watch there are no events.
BeforeScan ==
  ~Scanned /\ raced # File =>
    /\ pending = <<>> /\ batch = <<>> /\ queue = <<>>
    /\ \A f \in File : hashes[f] = Missing /\ current[f] = Missing
    /\ \A g \in Goroutine \ {Starter} : ~Refreshing(g)
    /\ \A f \in File \ raced : \/ disk[f] \in Content
                               \/ disk[f] = Missing /\ view[f] = Missing
    /\ \A f \in File \ (raced \cup changed) : view[f] = disk[f]
    /\ ~Watched => events = <<>> /\ pc[Events] = "idle"

\* A file that was read since it changed has the hash of what is in it.
Hashed == \A f \in File \ changed : disk[f] # Partial /\ (Scanned => hashes[f] = disk[f])

\* A file that was not has an event of the right kind.
Announced ==
  Scanned => \A f \in changed \ raced : disk[f] # Partial =>
    \/ \E k \in 1..Len(events) :
         events[k].file = f /\ (disk[f] = Missing => events[k].kind = "remove")
    \/ pc[Events] = "settle" /\ file = f

Comparing == \E g \in Goroutine : pc[g] \in {"snapshot", "diff"}

\* A snapshot agrees with the hashes, and when it was compared so does current.
Compared ==
  raced # File =>
    /\ ~Comparing => \A f \in File \ raced : current[f] = hashes[f]
    /\ \A g \in Goroutine : pc[g] \in {"diff", "dispatch"} =>
         \A f \in DOMAIN work[g] \ raced : work[g][f] = hashes[f]

\* Where current agrees, the update is under way or was applied.
Published ==
  Scanned => \A f \in File \ raced :
    \/ current[f] # hashes[f]
    \/ \E g \in Goroutine : pc[g] = "dispatch" /\ f \in DOMAIN work[g]
    \/ Latest(f, hashes[f])

UpdatesInv ==
  /\ TypeOK /\ OneRefresh /\ BeforeScan /\ Hashed /\ Announced /\ Compared /\ Published

-----------------------------------------------------------------------------
(* What an order of a set lists, and what the pending list becomes. *)

LEMMA OrderOf ==
  ASSUME NEW S, IsFiniteSet(S), NEW ids \in SetToSeqs(S)
  PROVE  /\ ids \in Seq(S) /\ DOMAIN ids = 1..Len(ids) /\ Len(ids) \in Nat
         /\ \A i, j \in 1..Len(ids) : ids[i] = ids[j] => i = j
         /\ \A x \in S : \E i \in 1..Len(ids) : ids[i] = x
<1>. DEFINE n == Cardinality(S)
<1>1. n \in Nat /\ ids \in [1..n -> S] /\ \A i, j \in 1..n : i # j => ids[i] # ids[j]
  BY FS_CardinalityType DEF SetToSeqs
<1>2. IsFiniteSet(1..n) /\ Cardinality(1..n) = n
  BY <1>1, FS_Interval
<1>. HIDE DEF n
<1>3. ids \in Injection(1..n, S)
  BY <1>1 DEF Injection, IsInjective
<1>4. ids \in Surjection(1..n, S)
  BY <1>2, <1>3, FS_Injection DEF n
<1>5. ids \in Seq(S) /\ Len(ids) = n
  BY <1>1
<1>. QED
  BY <1>1, <1>4, <1>5 DEF Surjection

Work == UNION {[S -> Value] : S \in SUBSET File}

LEMMA WorkType ==
  /\ NoWork \in Work
  /\ \A w \in Work : DOMAIN w \subseteq File /\ \A f \in DOMAIN w : w[f] \in Value
  /\ \A S \in SUBSET File : \A w \in [S -> Value] : w \in Work
BY DEF Work, NoWork

LEMMA PendingType ==
  ASSUME TypeOK
  PROVE  /\ pending \in Seq(Update) /\ DOMAIN pending = 1..Len(pending) /\ Len(pending) \in Nat
         /\ \A k \in 1..Len(pending) : /\ pending[k].id \in File /\ pending[k].value \in Value
                                       /\ pending[k] = [id |-> pending[k].id,
                                                        value |-> pending[k].value]
         /\ \A i, j \in 1..Len(pending) : pending[i].id = pending[j].id => i = j
<1>1. /\ pending \in Seq(Update) /\ DOMAIN pending = 1..Len(pending) /\ Len(pending) \in Nat
      /\ \A i, j \in DOMAIN pending : pending[i].id = pending[j].id => i = j
  BY DEF TypeOK
<1>2. \A u \in Update : u.id \in File /\ u.value \in Value /\ u = [id |-> u.id, value |-> u.value]
  BY DEF Update
<1>3. \A k \in 1..Len(pending) : pending[k] \in Update
  BY <1>1
<1>. QED
  BY <1>1, <1>2, <1>3

LEMMA CoalescedIs ==
  ASSUME TypeOK, NEW us \in Work, NEW ids \in SetToSeqs(NewIds(us)), NEW q,
         q = Coalesced(us, ids)
  PROVE  /\ q \in Seq(Update) /\ Len(q) = Len(pending) + Len(ids) /\ Len(ids) \in Nat
         /\ \A k \in 1..Len(pending) :
              /\ q[k].id = pending[k].id
              /\ q[k].value = IF pending[k].id \in DOMAIN us THEN us[pending[k].id]
                              ELSE pending[k].value
         /\ \A k \in 1..Len(ids) :
              /\ q[Len(pending) + k].id = ids[k] /\ q[Len(pending) + k].value = us[ids[k]]
         /\ \A i, j \in 1..Len(ids) : ids[i] = ids[j] => i = j
         /\ \A f \in DOMAIN us :
              \/ \E k \in 1..Len(pending) : pending[k].id = f
              \/ \E k \in 1..Len(ids) : ids[k] = f
         /\ \A k \in 1..Len(ids) : /\ ids[k] \in DOMAIN us
                                   /\ \A i \in 1..Len(pending) : pending[i].id # ids[k]
<1>. DEFINE n == Len(pending)
            old == [k \in DOMAIN pending |-> IF pending[k].id \in DOMAIN us
                                             THEN [pending[k] EXCEPT !.value = us[pending[k].id]]
                                             ELSE pending[k]]
            more == AsUpdates(ids, us)
<1>1. DOMAIN us \subseteq File /\ \A f \in DOMAIN us : us[f] \in Value
  BY WorkType
<1>2. IsFiniteSet(NewIds(us)) /\ NewIds(us) \subseteq DOMAIN us
  BY <1>1, UpdatesAssumption, FS_Subset DEF NewIds
<1>3. /\ ids \in Seq(NewIds(us)) /\ DOMAIN ids = 1..Len(ids) /\ Len(ids) \in Nat
      /\ \A i, j \in 1..Len(ids) : ids[i] = ids[j] => i = j
      /\ \A f \in NewIds(us) : \E i \in 1..Len(ids) : ids[i] = f
  BY <1>2, OrderOf
<1>4. \A k \in 1..Len(ids) : ids[k] \in DOMAIN us /\ ids[k] \in NewIds(us)
  BY <1>2, <1>3
<1>5. more \in [1..Len(ids) -> Update]
      /\ \A k \in 1..Len(ids) : more[k].id = ids[k] /\ more[k].value = us[ids[k]]
  BY <1>1, <1>3, <1>4 DEF AsUpdates, Update
<1>6. /\ old \in [1..n -> Update] /\ n \in Nat
      /\ \A k \in 1..n : /\ old[k].id = pending[k].id
                         /\ old[k].value = IF pending[k].id \in DOMAIN us
                                           THEN us[pending[k].id] ELSE pending[k].value
  BY <1>1, PendingType DEF Update
<1>7. q = old \o more
  BY DEF Coalesced
<1>. HIDE DEF old, more
<1>9. /\ q \in Seq(Update) /\ Len(q) = n + Len(ids)
      /\ \A k \in 1..n : q[k] = old[k]
      /\ \A k \in 1..Len(ids) : q[n + k] = more[k]
  <2>. HIDE DEF n
  <2>1. /\ n \in Nat /\ Len(ids) \in Nat
        /\ old \in [1..n -> Update] /\ more \in [1..Len(ids) -> Update]
    BY <1>3, <1>5, <1>6
  <2>2. old \in Seq(Update) /\ Len(old) = n /\ more \in Seq(Update) /\ Len(more) = Len(ids)
    BY ONLY <2>1
  <2>3. q \in Seq(Update) /\ Len(q) = Len(old) + Len(more)
    <3>1. old \o more \in Seq(Update) /\ Len(old \o more) = Len(old) + Len(more)
      BY ONLY <2>2, ConcatProperties, Zenon
    <3>. QED
      BY ONLY <3>1, <1>7, Zenon
  <2>4. \A k \in 1..n : q[k] = old[k]
    BY ONLY <1>7, <2>1, <2>2
  <2>5. \A k \in 1..Len(ids) : q[n + k] = more[k]
    BY ONLY <1>7, <2>1, <2>2
  <2>. QED
    BY ONLY <2>2, <2>3, <2>4, <2>5, Zenon
<1>10. \A f \in DOMAIN us : \/ \E k \in 1..n : pending[k].id = f
                            \/ \E k \in 1..Len(ids) : ids[k] = f
  BY <1>3, PendingType DEF NewIds, Ids
<1>11. \A k \in 1..Len(ids) : \A i \in 1..n : pending[i].id # ids[k]
  BY <1>4, PendingType DEF NewIds, Ids
<1>. HIDE DEF n
<1>12. \A k \in 1..n : q[k].id = pending[k].id /\ q[k].value = IF pending[k].id \in DOMAIN us
                                                   THEN us[pending[k].id] ELSE pending[k].value
  BY <1>6, <1>9
<1>13. \A k \in 1..Len(ids) : q[n + k].id = ids[k] /\ q[n + k].value = us[ids[k]]
  BY <1>5, <1>9
<1>. QED
  BY <1>3, <1>4, <1>9, <1>10, <1>11, <1>12, <1>13 DEF n

\* Every id is once in the list it becomes.
LEMMA CoalescedOnce ==
  ASSUME TypeOK, NEW us \in Work, NEW ids \in SetToSeqs(NewIds(us)), NEW q,
         q = Coalesced(us, ids)
  PROVE  \A i, j \in 1..Len(q) : q[i].id = q[j].id => i = j
<1>. DEFINE n == Len(pending)
            m == Len(ids)
<1>1. /\ n \in Nat /\ m \in Nat /\ Len(q) = n + m
      /\ \A k \in 1..n : q[k].id = pending[k].id
      /\ \A k \in 1..m : q[n + k].id = ids[k]
      /\ \A i, j \in 1..m : ids[i] = ids[j] => i = j
      /\ \A k \in 1..m : \A i \in 1..n : pending[i].id # ids[k]
      /\ \A i, j \in 1..n : pending[i].id = pending[j].id => i = j
  BY CoalescedIs, PendingType
<1>. HIDE DEF n, m
<1>2. \A i \in 1..(n + m) : i \in 1..n \/ (i - n \in 1..m /\ i = n + (i - n))
  BY <1>1
<1>3. SUFFICES ASSUME NEW i \in 1..Len(q), NEW j \in 1..Len(q), q[i].id = q[j].id PROVE i = j
  OBVIOUS
<1>4. CASE i \in 1..n /\ j \in 1..n
  BY <1>1, <1>3, <1>4
<1>5. CASE i \in 1..n /\ j \notin 1..n
  BY <1>1, <1>2, <1>3, <1>5
<1>6. CASE i \notin 1..n /\ j \in 1..n
  BY <1>1, <1>2, <1>3, <1>6
<1>7. CASE i \notin 1..n /\ j \notin 1..n
  <2>1. i - n \in 1..m /\ j - n \in 1..m /\ i = n + (i - n) /\ j = n + (j - n)
    BY <1>1, <1>2, <1>7
  <2>2. ids[i - n] = ids[j - n]
    BY <1>1, <1>3, <2>1
  <2>3. i - n = j - n
    BY <1>1, <2>1, <2>2
  <2>. QED
    BY <2>1, <2>3
<1>. QED
  BY <1>4, <1>5, <1>6, <1>7

-----------------------------------------------------------------------------
(* The state has its type. *)

Event == [kind : {"write", "remove"}, file : File]

LEMMA UpdateLists ==
  \A s \in Seq(Update) :
    /\ Len(s) \in Nat /\ DOMAIN s = 1..Len(s) /\ \A k \in 1..Len(s) : s[k] \in Update
    /\ s # <<>> => /\ Head(s) \in Update /\ Head(s) = s[1] /\ Tail(s) \in Seq(Update)
                   /\ Len(Tail(s)) = Len(s) - 1 /\ Len(s) \in Nat \ {0}
                   /\ \A k \in 1..(Len(s) - 1) : Tail(s)[k] = s[k + 1]
    /\ \A u \in Update : /\ Append(s, u) \in Seq(Update) /\ Len(Append(s, u)) = Len(s) + 1
                         /\ Append(s, u)[Len(s) + 1] = u
                         /\ \A k \in 1..Len(s) : Append(s, u)[k] = s[k]
OBVIOUS

LEMMA EventLists ==
  \A s \in Seq(Event) :
    /\ Len(s) \in Nat /\ \A k \in 1..Len(s) : s[k] \in Event
    /\ s # <<>> => /\ Head(s) \in Event /\ Head(s) = s[1] /\ Tail(s) \in Seq(Event)
                   /\ Len(Tail(s)) = Len(s) - 1 /\ Len(s) \in Nat \ {0}
                   /\ \A k \in 1..(Len(s) - 1) : Tail(s)[k] = s[k + 1]
    /\ \A e \in Event : /\ Append(s, e) \in Seq(Event) /\ Len(Append(s, e)) = Len(s) + 1
                        /\ Append(s, e)[Len(s) + 1] = e
                        /\ \A k \in 1..Len(s) : Append(s, e)[k] = s[k]
OBVIOUS

\* TypeOK with names for its sets.
Typed ==
  /\ disk \in [File -> Value \cup {Partial}] /\ events \in Seq(Event) /\ recent \subseteq File
  /\ hashes \in [File -> Value] /\ current \in [File -> Value]
  /\ pc \in [Goroutine -> Steps] /\ file \in File /\ work \in [Goroutine -> Work]
  /\ \A g \in Goroutine : pc[g] = "diff" => DOMAIN work[g] = File
  /\ pending \in Seq(Update) /\ batch \in Seq(Update) /\ queue \in Seq(Update)
  /\ \A i, j \in DOMAIN pending : pending[i].id = pending[j].id => i = j
  /\ Len(queue) <= QueueCap /\ view \in [File -> Value]
  /\ changed \subseteq File /\ raced \subseteq File

LEMMA TypeParts == TypeOK <=> Typed
BY DEF TypeOK, Typed, Work, Event

LEMMA TypePartsNext == TypeOK' <=> Typed'
BY DEF TypeOK, Typed, Work, Event

LEMMA UpdateParts ==
  \A u \in Update : u.id \in File /\ u.value \in Value
BY DEF Update

LEMMA EventParts ==
  /\ \A e \in Event : e.file \in File /\ e.kind \in {"write", "remove"}
  /\ \A f \in File : /\ [file |-> f, kind |-> "remove"] \in Event
                     /\ [file |-> f, kind |-> "write"] \in Event
BY DEF Event

LEMMA WhoWorks ==
  Events \in Goroutine /\ Starter \in Goroutine /\ Events # Starter /\ Reloader \subseteq Goroutine
  /\ Events \notin Reloader /\ Starter \notin Reloader
BY UpdatesAssumption DEF Goroutine

\* The refreshing step of an event, a start or a reload.
LEMMA BeginType ==
  ASSUME Typed, NEW g \in Goroutine, Begin(g)
  PROVE  pc' \in [Goroutine -> Steps] /\ raced' \subseteq File
         /\ \A h \in Goroutine : pc'[h] = "diff" => pc[h] = "diff"
BY DEF Typed, Begin, Steps

LEMMA LookType ==
  ASSUME Typed, NEW f \in File, Look(f)
  PROVE  /\ pc' \in [Goroutine -> Steps] /\ raced' \subseteq File /\ changed' \subseteq File
         /\ hashes' \in [File -> Value]
         /\ \A h \in Goroutine : pc'[h] = "diff" => pc[h] = "diff"
<1>1. changed' \subseteq File
  BY DEF Look, Typed
<1>2. CASE disk[f] \in {Missing, Partial, hashes[f]}
  BY <1>1, <1>2, WhoWorks DEF Look, Typed, Steps
<1>3. CASE disk[f] \notin {Missing, Partial, hashes[f]}
  <2>1. Begin(Events) /\ hashes' = [hashes EXCEPT ![f] = disk[f]]
    BY <1>3 DEF Look
  <2>2. hashes' \in [File -> Value]
    BY <1>3, <2>1 DEF Typed
  <2>. QED
    BY <1>1, <2>1, <2>2, BeginType, WhoWorks
<1>. QED
  BY <1>2, <1>3

LEMMA TypeStep ==
  ASSUME TypeOK, Next
  PROVE  TypeOK'
<1>. SUFFICES ASSUME Typed PROVE Typed'
  BY TypeParts, TypePartsNext
<1>1. ASSUME NEW f \in File, NEW x \in Value \cup {Partial}, Change(f, x) PROVE Typed'
  <2>1. events' \in Seq(Event)
    BY <1>1, EventLists, EventParts DEF Change, Typed
  <2>. QED
    BY <1>1, <2>1 DEF Change, Typed, watcher, feed
<1>2. ASSUME NEW f \in File, WindowEnds(f) PROVE Typed'
  BY <1>2 DEF WindowEnds, Typed, feed
<1>3. CASE HandleWrite
  <2>1. events # <<>> /\ events' = Tail(events) /\ Look(Head(events).file)
        /\ UNCHANGED <<disk, recent, current, file, work, feed>>
    BY <1>3 DEF HandleWrite
  <2>2. Head(events).file \in File /\ events' \in Seq(Event)
    BY <2>1, EventLists, EventParts DEF Typed
  <2>. QED
    BY <2>1, <2>2, LookType DEF Typed, feed
<1>4. CASE HandleRemove
  <2>1. Head(events).file \in File /\ events' \in Seq(Event)
    BY <1>4, EventLists, EventParts DEF HandleRemove, Typed
  <2>. QED
    BY <1>4, <2>1, WhoWorks DEF HandleRemove, Typed, feed, Steps
<1>5. CASE Settle
  <2>1. UNCHANGED <<disk, events, recent, current, file, work, feed>> /\ file \in File
    BY <1>5 DEF Settle, Typed
  <2>2. CASE Look(file)
    BY <2>1, <2>2, LookType DEF Typed, feed
  <2>3. CASE ~Look(file)
    <3>1. changed' = changed \ {file}
          /\ \/ pc' = [pc EXCEPT ![Events] = "idle"] /\ UNCHANGED <<hashes, raced>>
             \/ Begin(Events) /\ hashes' = [hashes EXCEPT ![file] = Missing]
      BY <1>5, <2>3 DEF Settle, RemoveClient
    <3>2. /\ pc' \in [Goroutine -> Steps] /\ raced' \subseteq File
          /\ \A h \in Goroutine : pc'[h] = "diff" => pc[h] = "diff"
      BY <3>1, BeginType, WhoWorks DEF Typed, Steps
    <3>3. hashes' \in [File -> Value] /\ changed' \subseteq File
      BY <3>1 DEF Typed, Value
    <3>. QED
      BY <2>1, <3>2, <3>3 DEF Typed, feed
  <2>. QED
    BY <2>2, <2>3
<1>6. CASE Watch
  BY <1>6, WhoWorks DEF Watch, Typed, feed, Steps
<1>7. CASE Rescan
  <2>1. hashes' \in [File -> Value] /\ changed' \subseteq File
    BY <1>7 DEF Rescan, Typed, Readable, Value
  <2>. QED
    BY <1>7, <2>1, BeginType, WhoWorks DEF Rescan, Typed, feed
<1>8. ASSUME NEW g \in Reloader, NEW forgotten \in SUBSET File, Reload(g, forgotten)
      PROVE  Typed'
  <2>1. current' \in [File -> Value]
    BY <1>8 DEF Reload, Typed, Value
  <2>. QED
    BY <1>8, <2>1, BeginType, WhoWorks DEF Reload, Typed, feed
<1>9. ASSUME NEW g \in Goroutine, Snapshot(g) PROVE Typed'
  <2>. DEFINE w == [f \in File |-> Readable(disk[f])]
  <2>1. w \in [File -> Value]
    BY DEF Typed, Readable, Value
  <2>2. w \in Work /\ DOMAIN w = File
    BY <2>1, WorkType
  <2>3. work' = [work EXCEPT ![g] = w]
    BY <1>9 DEF Snapshot
  <2>. HIDE DEF w
  <2>4. /\ work' \in [Goroutine -> Work] /\ pc' \in [Goroutine -> Steps]
        /\ \A h \in Goroutine : pc'[h] = "diff" => DOMAIN work'[h] = File
    BY <1>9, <2>2, <2>3 DEF Snapshot, Typed, Steps
  <2>. QED
    BY <1>9, <2>4 DEF Snapshot, Typed, feed
<1>10. ASSUME NEW g \in Goroutine, NEW force \in BOOLEAN, Diff(g, force) PROVE Typed'
  <2>. DEFINE differ == {f \in File : work[g][f] # current[f] \/ (force /\ work[g][f] # Missing)}
              w == [f \in differ |-> work[g][f]]
  <2>1. DOMAIN work[g] = File /\ work[g] \in Work
    BY <1>10 DEF Diff, Typed
  <2>2. \A f \in File : work[g][f] \in Value
    BY <2>1, WorkType
  <2>3. work[g] \in [File -> Value]
    BY <2>1, <2>2 DEF Work
  <2>4. w \in [differ -> Value]
    BY <2>2
  <2>5. w \in Work
    BY <2>4, WorkType
  <2>6. work' = [work EXCEPT ![g] = w] /\ current' = work[g]
    BY <1>10 DEF Diff
  <2>7. pc' \in [Goroutine -> Steps] /\ pc'[g] # "diff"
        /\ \A h \in Goroutine \ {g} : pc'[h] = pc[h]
    BY <1>10 DEF Diff, Typed, Steps
  <2>. HIDE DEF w, differ
  <2>8. /\ work' \in [Goroutine -> Work]
        /\ \A h \in Goroutine : pc'[h] = "diff" => DOMAIN work'[h] = File
    BY <2>5, <2>6, <2>7 DEF Typed
  <2>. QED
    BY <1>10, <2>3, <2>6, <2>7, <2>8 DEF Diff, Typed, feed
<1>11. ASSUME NEW g \in Goroutine, Dispatch(g) PROVE Typed'
  <2>1. PICK ids \in SetToSeqs(NewIds(work[g])) : pending' = Coalesced(work[g], ids)
    BY <1>11 DEF Dispatch
  <2>2. work[g] \in Work
    BY DEF Typed
  <2>3. pending' \in Seq(Update)
        /\ \A i, j \in 1..Len(pending') : pending'[i].id = pending'[j].id => i = j
    BY <2>1, <2>2, CoalescedIs, CoalescedOnce
  <2>4. \A i, j \in DOMAIN pending' : pending'[i].id = pending'[j].id => i = j
    BY <2>3, UpdateLists
  <2>5. /\ work' \in [Goroutine -> Work] /\ pc' \in [Goroutine -> Steps]
        /\ \A h \in Goroutine : pc'[h] = "diff" => DOMAIN work'[h] = File
    BY <1>11, WorkType DEF Dispatch, Typed, Steps
  <2>. QED
    BY <1>11, <2>3, <2>4, <2>5 DEF Dispatch, Typed
<1>12. CASE TakeBatch
  BY <1>12 DEF TakeBatch, Typed, watcher
<1>13. CASE Send
  <2>1. batch' \in Seq(Update) /\ queue' \in Seq(Update) /\ Len(queue') <= QueueCap
    BY <1>13, UpdateLists, UpdatesAssumption DEF Send, Typed
  <2>. QED
    BY <1>13, <2>1 DEF Send, Typed, watcher
<1>14. CASE Apply
  <2>1. queue' \in Seq(Update) /\ Len(queue') <= QueueCap
    BY <1>14, UpdateLists, UpdatesAssumption DEF Apply, Typed
  <2>2. view' \in [File -> Value]
    BY <1>14, UpdateLists, UpdateParts DEF Apply, Typed
  <2>. QED
    BY <1>14, <2>1, <2>2 DEF Apply, Typed, watcher
<1>. QED
  BY <1>1, <1>2, <1>3, <1>4, <1>5, <1>6, <1>7, <1>8, <1>9, <1>10, <1>11, <1>12, <1>13, <1>14
     DEF Next

-----------------------------------------------------------------------------
(* On the way to the manager the last update of a file stays the last one. *)

LEMMA LastInTail ==
  ASSUME NEW s \in Seq(Update), s # <<>>, NEW f, NEW x
  PROVE  /\ NoneIn(s, f) => NoneIn(Tail(s), f) /\ Head(s).id # f
         /\ LastIn(s, f, x) => \/ LastIn(Tail(s), f, x)
                               \/ NoneIn(Tail(s), f) /\ Head(s).id = f /\ Head(s).value = x
<1>1. /\ Len(s) \in Nat \ {0} /\ Len(Tail(s)) = Len(s) - 1 /\ Head(s) = s[1]
      /\ \A k \in 1..(Len(s) - 1) : Tail(s)[k] = s[k + 1]
  BY UpdateLists
<1>. DEFINE n == Len(s)
            t == Tail(s)
<1>2. /\ n \in Nat \ {0} /\ Len(t) = n - 1 /\ Head(s) = s[1]
      /\ \A k \in 1..(n - 1) : t[k] = s[k + 1]
  BY <1>1
<1>. HIDE DEF t
<1>3. ASSUME NoneIn(s, f) PROVE NoneIn(t, f) /\ Head(s).id # f
  BY <1>2, <1>3 DEF NoneIn
<1>4. ASSUME LastIn(s, f, x)
      PROVE  LastIn(t, f, x) \/ (NoneIn(t, f) /\ Head(s).id = f /\ Head(s).value = x)
  <2>1. PICK k \in 1..n : /\ s[k].id = f /\ s[k].value = x
                          /\ \A j \in 1..n : j > k => s[j].id # f
    BY <1>4 DEF LastIn
  <2>. HIDE DEF n
  <2>2. CASE k = 1
    BY <1>2, <2>1, <2>2 DEF NoneIn
  <2>3. CASE k # 1
    <3>1. k - 1 \in 1..(n - 1) /\ t[k - 1] = s[k]
      BY <1>2, <2>1, <2>3
    <3>2. \A j \in 1..(n - 1) : j > k - 1 => t[j].id # f
      BY <1>2, <2>1
    <3>. QED
      BY <1>2, <2>1, <3>1, <3>2 DEF LastIn
  <2>. QED
    BY <2>2, <2>3
<1>. QED
  BY <1>3, <1>4 DEF t

LEMMA LastInAppend ==
  ASSUME NEW s \in Seq(Update), NEW u \in Update, NEW f, NEW x
  PROVE  /\ u.id # f => /\ NoneIn(s, f) => NoneIn(Append(s, u), f)
                        /\ LastIn(s, f, x) => LastIn(Append(s, u), f, x)
         /\ u.id = f /\ u.value = x => LastIn(Append(s, u), f, x)
<1>. DEFINE n == Len(s)
            t == Append(s, u)
<1>1. /\ n \in Nat /\ Len(t) = n + 1 /\ t[n + 1] = u
      /\ \A k \in 1..n : t[k] = s[k]
  BY UpdateLists
<1>. HIDE DEF t
<1>2. ASSUME u.id # f, NoneIn(s, f) PROVE NoneIn(t, f)
  BY <1>1, <1>2 DEF NoneIn
<1>3. ASSUME u.id # f, LastIn(s, f, x) PROVE LastIn(t, f, x)
  <2>1. PICK k \in 1..n : /\ s[k].id = f /\ s[k].value = x
                          /\ \A j \in 1..n : j > k => s[j].id # f
    BY <1>3 DEF LastIn
  <2>. HIDE DEF n
  <2>2. k \in 1..(n + 1) /\ t[k].id = f /\ t[k].value = x
    BY <1>1, <2>1
  <2>3. \A j \in 1..(n + 1) : j > k => t[j].id # f
    BY <1>1, <1>3, <2>1
  <2>. QED
    BY <1>1, <2>2, <2>3 DEF LastIn
<1>4. ASSUME u.id = f, u.value = x PROVE LastIn(t, f, x)
  <2>. HIDE DEF n
  <2>1. n + 1 \in 1..(n + 1) /\ t[n + 1].id = f /\ t[n + 1].value = x
        /\ \A j \in 1..(n + 1) : j > n + 1 => t[j].id # f
    BY <1>1, <1>4
  <2>. QED
    BY <1>1, <2>1 DEF LastIn
<1>. QED
  BY <1>2, <1>3, <1>4 DEF t

LEMMA LastInNone ==
  \A f, x : NoneIn(<<>>, f) /\ ~LastIn(<<>>, f, x)
BY DEF NoneIn, LastIn

\* What is dispatched is the latest; what is not stays as it was.
LEMMA LastInCoalesced ==
  ASSUME TypeOK, NEW us \in Work, NEW ids \in SetToSeqs(NewIds(us)), NEW q,
         q = Coalesced(us, ids), NEW f
  PROVE  /\ f \in DOMAIN us => LastIn(q, f, us[f])
         /\ f \notin DOMAIN us => /\ NoneIn(pending, f) => NoneIn(q, f)
                                  /\ \A x : LastIn(pending, f, x) => LastIn(q, f, x)
<1>. DEFINE n == Len(pending)
            m == Len(ids)
<1>1. /\ n \in Nat /\ m \in Nat /\ Len(q) = n + m
      /\ \A k \in 1..n : /\ q[k].id = pending[k].id
                         /\ q[k].value = IF pending[k].id \in DOMAIN us THEN us[pending[k].id]
                                         ELSE pending[k].value
      /\ \A k \in 1..m : /\ q[n + k].id = ids[k] /\ q[n + k].value = us[ids[k]]
                         /\ ids[k] \in DOMAIN us
  BY CoalescedIs, PendingType
<1>2. \A i, j \in 1..Len(q) : q[i].id = q[j].id => i = j
  BY CoalescedOnce
<1>3. \A h \in DOMAIN us : (\E k \in 1..n : pending[k].id = h) \/ (\E k \in 1..m : ids[k] = h)
  BY CoalescedIs
<1>4. \A i, j \in 1..n : pending[i].id = pending[j].id => i = j
  BY PendingType
<1>. HIDE DEF m
<1>5. ASSUME f \in DOMAIN us PROVE LastIn(q, f, us[f])
  <2>. HIDE DEF n
  <2>1. \E k \in 1..(n + m) : q[k].id = f /\ q[k].value = us[f]
    <3>1. CASE \E k \in 1..n : pending[k].id = f
      BY <1>1, <1>5, <3>1
    <3>2. CASE \E k \in 1..m : ids[k] = f
      <4>1. PICK k \in 1..m : ids[k] = f
        BY <3>2
      <4>2. n + k \in 1..(n + m)
        BY <1>1
      <4>. QED
        BY <1>1, <4>1, <4>2
    <3>. QED
      BY <1>3, <1>5, <3>1, <3>2
  <2>2. PICK k \in 1..(n + m) : q[k].id = f /\ q[k].value = us[f]
    BY <2>1
  <2>3. \A j \in 1..(n + m) : j > k => q[j].id # f
    BY <1>1, <1>2, <2>2
  <2>. QED
    BY <1>1, <2>2, <2>3 DEF LastIn
<1>6. ASSUME f \notin DOMAIN us, NoneIn(pending, f) PROVE NoneIn(q, f)
  <2>1. \A k \in 1..n : pending[k].id # f
    BY <1>6 DEF NoneIn
  <2>. HIDE DEF n
  <2>2. \A k \in 1..(n + m) : k \in 1..n \/ (k - n \in 1..m /\ k = n + (k - n))
    BY <1>1
  <2>3. \A k \in 1..(n + m) : q[k].id # f
    BY <1>1, <1>6, <2>1, <2>2
  <2>. QED
    BY <1>1, <2>3 DEF NoneIn
<1>7. ASSUME f \notin DOMAIN us, NEW x, LastIn(pending, f, x) PROVE LastIn(q, f, x)
  <2>1. PICK k \in 1..n : pending[k].id = f /\ pending[k].value = x
    BY <1>7 DEF LastIn
  <2>. HIDE DEF n
  <2>2. k \in 1..(n + m) /\ q[k].id = f /\ q[k].value = x
    BY <1>1, <1>7, <2>1
  <2>3. \A j \in 1..(n + m) : j > k => q[j].id # f
    BY <1>1, <1>2, <2>2
  <2>. QED
    BY <1>1, <2>2, <2>3 DEF LastIn
<1>. QED
  BY <1>5, <1>6, <1>7

-----------------------------------------------------------------------------
(* The steps of the watcher. *)

\* When every file is a raced one only the hashes are left to say something about.
LEMMA AllRaced ==
  ASSUME Typed', raced' = File, Hashed'
  PROVE  OneRefresh' /\ BeforeScan' /\ Hashed' /\ Announced' /\ Compared' /\ Published'
BY DEF OneRefresh, BeforeScan, Announced, Compared, Published, Typed

LEMMA ChangeStep ==
  ASSUME UpdatesInv, Typed, Typed', NEW f \in File, NEW x \in Value \cup {Partial}, Change(f, x)
  PROVE  OneRefresh' /\ BeforeScan' /\ Hashed' /\ Announced' /\ Compared' /\ Published'
<1>1. /\ UNCHANGED <<recent, hashes, current, pc, file, work, pending, batch, queue, view>>
      /\ disk' = [disk EXCEPT ![f] = x] /\ changed' = changed \cup {f}
      /\ raced \subseteq raced' /\ raced' \subseteq raced \cup {f}
  BY DEF Change, watcher, feed
<1>2. disk'[f] = x /\ \A h \in File \ {f} : disk'[h] = disk[h]
  BY <1>1 DEF Typed
<1>3. Hashed'
  BY <1>1, <1>2 DEF UpdatesInv, Hashed, Scanned
<1>4. CASE raced' = File
  BY <1>3, <1>4, AllRaced
<1>5. CASE raced' # File
  <2>1. raced # File
    BY <1>1, <1>5 DEF Typed
  <2>2. OneRefresh'
    BY <1>1, <2>1 DEF UpdatesInv, OneRefresh, Refreshing
  <2>3. BeforeScan'
    <3>1. ASSUME ~Scanned PROVE ~Watched => events' = <<>> /\ pc[Events] = "idle"
      BY <2>1, <3>1 DEF UpdatesInv, BeforeScan, Change
    <3>2. ASSUME ~Scanned, f \notin raced' PROVE x \in Content
      BY <3>2 DEF Change
    <3>. QED
      BY <1>1, <1>2, <2>1, <3>1, <3>2 DEF UpdatesInv, BeforeScan, Scanned, Watched, Refreshing
  <2>4. Announced'
    <3>1. SUFFICES ASSUME Scanned, NEW h \in (changed \cup {f}) \ raced', disk'[h] # Partial
                   PROVE  \/ \E k \in 1..Len(events') :
                               /\ events'[k].file = h
                               /\ disk'[h] = Missing => events'[k].kind = "remove"
                          \/ pc[Events] = "settle" /\ file = h
      BY <1>1 DEF Announced, Scanned
    <3>. DEFINE e == [file |-> f, kind |-> IF x = Missing THEN "remove" ELSE "write"]
    <3>2. events' = Append(events, e)
      BY <3>1 DEF Change, Watched, Scanned
    <3>3. e.file = f /\ (x = Missing => e.kind = "remove") /\ e \in Event
      BY EventParts
    <3>. HIDE DEF e
    <3>4. /\ Len(events) \in Nat /\ Len(events') = Len(events) + 1
          /\ events'[Len(events) + 1] = e
          /\ \A k \in 1..Len(events) : events'[k] = events[k]
      BY <3>2, <3>3, EventLists DEF Typed
    <3>5. CASE h = f
      BY <1>2, <3>3, <3>4, <3>5
    <3>6. CASE h # f
      <4>1. h \in changed \ raced /\ disk'[h] = disk[h] /\ h \in File
        BY <1>1, <1>2, <3>6 DEF Typed
      <4>2. \/ \E k \in 1..Len(events) : /\ events[k].file = h
                                         /\ disk[h] = Missing => events[k].kind = "remove"
            \/ pc[Events] = "settle" /\ file = h
        BY <3>1, <4>1 DEF UpdatesInv, Announced
      <4>. QED
        BY <3>4, <4>1, <4>2
    <3>. QED
      BY <3>5, <3>6
  <2>5. Compared'
    BY <1>1, <2>1 DEF UpdatesInv, Compared, Comparing
  <2>6. Published'
    BY <1>1 DEF UpdatesInv, Published, Scanned, Latest
  <2>. QED
    BY <1>3, <2>2, <2>3, <2>4, <2>5, <2>6
<1>. QED
  BY <1>4, <1>5

LEMMA WindowStep ==
  ASSUME UpdatesInv, NEW f \in File, WindowEnds(f)
  PROVE  OneRefresh' /\ BeforeScan' /\ Hashed' /\ Announced' /\ Compared' /\ Published'
<1>1. UNCHANGED <<disk, events, hashes, current, pc, file, work, pending, batch, queue, view,
                  changed, raced>>
  BY DEF WindowEnds, feed
<1>. QED
  BY <1>1 DEF UpdatesInv, OneRefresh, BeforeScan, Hashed, Announced, Compared, Published,
              Scanned, Watched, Refreshing, Comparing, Latest

LEMMA WatchStep ==
  ASSUME UpdatesInv, Typed, Watch
  PROVE  OneRefresh' /\ BeforeScan' /\ Hashed' /\ Announced' /\ Compared' /\ Published'
<1>1. /\ UNCHANGED <<disk, events, hashes, current, file, work, pending, batch, queue, view,
                     changed, raced>>
      /\ pc[Starter] = "start" /\ pc'[Starter] = "rescan"
      /\ \A h \in Goroutine \ {Starter} : pc'[h] = pc[h]
  BY WhoWorks DEF Watch, feed, Typed
<1>2. ~Scanned /\ ~Scanned'
  BY <1>1 DEF Scanned
<1>3. \A h \in Goroutine : /\ pc[h] \in {"snapshot", "diff"} <=> pc'[h] \in {"snapshot", "diff"}
                           /\ pc[h] \in {"diff", "dispatch"} <=> pc'[h] \in {"diff", "dispatch"}
  BY <1>1
<1>4. Compared'
  BY <1>1, <1>3 DEF UpdatesInv, Compared, Comparing
<1>5. OneRefresh' /\ BeforeScan'
  BY <1>1, <1>2 DEF UpdatesInv, OneRefresh, BeforeScan, Refreshing, Watched, Scanned
<1>6. Hashed'
  BY <1>1, <1>2 DEF UpdatesInv, Hashed
<1>. QED
  BY <1>2, <1>4, <1>5, <1>6 DEF Announced, Published

LEMMA SnapshotStep ==
  ASSUME UpdatesInv, Typed, Typed', NEW g \in Goroutine, Snapshot(g)
  PROVE  OneRefresh' /\ BeforeScan' /\ Hashed' /\ Announced' /\ Compared' /\ Published'
<1>1. /\ UNCHANGED <<disk, events, hashes, current, file, pending, batch, queue, view, changed>>
      /\ pc[g] = "snapshot" /\ pc'[g] = "diff" /\ \A h \in Goroutine \ {g} : pc'[h] = pc[h]
      /\ work'[g] = [f \in File |-> Readable(disk[f])]
      /\ \A h \in Goroutine \ {g} : work'[h] = work[h]
      /\ raced' = raced \cup changed
  BY DEF Snapshot, feed, Typed
<1>2. Scanned' <=> Scanned
  BY <1>1, WhoWorks DEF Scanned
<1>3. Hashed'
  BY <1>1, <1>2 DEF UpdatesInv, Hashed
<1>4. CASE raced' = File
  BY <1>3, <1>4, AllRaced
<1>5. CASE raced' # File
  <2>1. raced # File
    BY <1>1, <1>5 DEF Typed
  <2>2. Scanned
    BY <1>1, <2>1, WhoWorks DEF UpdatesInv, BeforeScan, Scanned, Refreshing
  <2>3. \A f \in File \ raced' : work'[g][f] = hashes[f]
    <3>1. \A f \in File \ raced' : hashes[f] = disk[f] /\ hashes[f] # Partial
      BY <1>1, <2>2, UpdatesAssumption DEF UpdatesInv, Hashed, Typed
    <3>. QED
      BY <1>1, <3>1 DEF Readable
  <2>4. DOMAIN work'[g] = File
    BY <1>1
  <2>5. Compared'
    <3>1. Comparing'
      BY <1>1 DEF Comparing
    <3>2. ASSUME NEW h \in Goroutine, pc'[h] \in {"diff", "dispatch"}
          PROVE  \A f \in DOMAIN work'[h] \ raced' : work'[h][f] = hashes'[f]
      BY <1>1, <2>1, <2>3, <2>4, <3>2 DEF UpdatesInv, Compared
    <3>. QED
      BY <3>1, <3>2 DEF Compared
  <2>6. OneRefresh'
    BY <1>1, <2>1 DEF UpdatesInv, OneRefresh, Refreshing
  <2>7. Announced'
    BY <1>1, <1>2, <2>2, WhoWorks DEF UpdatesInv, Announced
  <2>8. Published'
    BY <1>1, <2>2 DEF UpdatesInv, Published, Latest
  <2>. QED
    BY <1>2, <1>3, <2>2, <2>5, <2>6, <2>7, <2>8 DEF BeforeScan
<1>. QED
  BY <1>4, <1>5

LEMMA DiffStep ==
  ASSUME UpdatesInv, Typed, Typed', NEW g \in Goroutine, NEW force \in BOOLEAN, Diff(g, force)
  PROVE  OneRefresh' /\ BeforeScan' /\ Hashed' /\ Announced' /\ Compared' /\ Published'
<1>. DEFINE differ == {f \in File : work[g][f] # current[f] \/ (force /\ work[g][f] # Missing)}
<1>1. /\ UNCHANGED <<disk, events, hashes, file, pending, batch, queue, view, changed, raced>>
      /\ pc[g] = "diff" /\ \A h \in Goroutine \ {g} : pc'[h] = pc[h] /\ work'[h] = work[h]
      /\ pc'[g] = IF differ = {} THEN "idle" ELSE "dispatch"
      /\ work'[g] = [f \in differ |-> work[g][f]] /\ current' = work[g]
  BY DEF Diff, feed, Typed
<1>2. /\ DOMAIN work'[g] = differ /\ differ \subseteq File
      /\ \A f \in differ : work'[g][f] = work[g][f]
      /\ \A f \in File \ differ : work[g][f] = current[f]
      /\ DOMAIN work[g] = File
  BY <1>1 DEF Typed
<1>. HIDE DEF differ
<1>3. Scanned' <=> Scanned
  BY <1>1, WhoWorks DEF Scanned
<1>4. Hashed'
  BY <1>1, <1>3 DEF UpdatesInv, Hashed
<1>5. CASE raced = File
  BY <1>1, <1>4, <1>5, AllRaced
<1>6. CASE raced # File
  <2>1. Scanned
    BY <1>1, <1>6, WhoWorks DEF UpdatesInv, BeforeScan, Scanned, Refreshing
  <2>2. \A f \in File \ raced : work[g][f] = hashes[f]
    BY <1>1, <1>2, <1>6 DEF UpdatesInv, Compared
  <2>3. Compared'
    <3>1. \A f \in File \ raced : current'[f] = hashes[f]
      BY <1>1, <2>2
    <3>2. ASSUME NEW h \in Goroutine, pc'[h] \in {"diff", "dispatch"}
          PROVE  \A f \in DOMAIN work'[h] \ raced' : work'[h][f] = hashes'[f]
      BY <1>1, <1>2, <1>6, <2>2, <3>2 DEF UpdatesInv, Compared
    <3>. QED
      BY <1>1, <3>1, <3>2 DEF Compared
  <2>4. OneRefresh'
    BY <1>1, <1>6 DEF UpdatesInv, OneRefresh, Refreshing
  <2>5. Announced'
    BY <1>1, <1>3, <2>1, WhoWorks DEF UpdatesInv, Announced
  <2>6. Published'
    <3>1. SUFFICES ASSUME NEW f \in File \ raced
                   PROVE  \/ \E h \in Goroutine : pc'[h] = "dispatch" /\ f \in DOMAIN work'[h]
                          \/ Latest(f, hashes[f])
      BY <1>1 DEF Published, Latest
    <3>2. CASE f \in differ
      BY <1>1, <1>2, <3>2
    <3>3. CASE f \notin differ
      <4>1. current[f] = hashes[f]
        BY <1>2, <2>2, <3>3
      <4>2. \/ \E h \in Goroutine : pc[h] = "dispatch" /\ f \in DOMAIN work[h]
            \/ Latest(f, hashes[f])
        BY <2>1, <4>1 DEF UpdatesInv, Published
      <4>. QED
        BY <1>1, <4>2
    <3>. QED
      BY <3>2, <3>3
  <2>. QED
    BY <1>3, <1>4, <2>1, <2>3, <2>4, <2>5, <2>6 DEF BeforeScan
<1>. QED
  BY <1>5, <1>6

LEMMA DispatchStep ==
  ASSUME UpdatesInv, Typed, Typed', NEW g \in Goroutine, Dispatch(g)
  PROVE  OneRefresh' /\ BeforeScan' /\ Hashed' /\ Announced' /\ Compared' /\ Published'
<1>1. /\ UNCHANGED <<disk, events, hashes, current, file, batch, queue, view, changed, raced>>
      /\ pc[g] = "dispatch" /\ pc'[g] = "idle"
      /\ \A h \in Goroutine \ {g} : pc'[h] = pc[h] /\ work'[h] = work[h]
  BY DEF Dispatch, Typed
<1>2. PICK ids \in SetToSeqs(NewIds(work[g])) : pending' = Coalesced(work[g], ids)
  BY DEF Dispatch
<1>3. work[g] \in Work /\ DOMAIN work[g] \subseteq File
  BY WorkType DEF Typed
<1>4. \A f : /\ f \in DOMAIN work[g] => LastIn(pending', f, work[g][f])
             /\ f \notin DOMAIN work[g] =>
                  /\ NoneIn(pending, f) => NoneIn(pending', f)
                  /\ \A x : LastIn(pending, f, x) => LastIn(pending', f, x)
  BY <1>2, <1>3, LastInCoalesced DEF UpdatesInv
<1>5. Scanned' <=> Scanned
  BY <1>1, WhoWorks DEF Scanned
<1>6. Hashed'
  BY <1>1, <1>5 DEF UpdatesInv, Hashed
<1>7. CASE raced = File
  BY <1>1, <1>6, <1>7, AllRaced
<1>8. CASE raced # File
  <2>1. Scanned
    BY <1>1, <1>8, WhoWorks DEF UpdatesInv, BeforeScan, Scanned, Refreshing
  <2>2. \A f \in DOMAIN work[g] \ raced : work[g][f] = hashes[f]
    BY <1>1, <1>8 DEF UpdatesInv, Compared
  <2>3. Compared'
    BY <1>1, <1>8 DEF UpdatesInv, Compared, Comparing
  <2>4. OneRefresh'
    BY <1>1, <1>8 DEF UpdatesInv, OneRefresh, Refreshing
  <2>5. Announced'
    BY <1>1, <1>5, <2>1, WhoWorks DEF UpdatesInv, Announced
  <2>6. Published'
    <3>1. SUFFICES ASSUME NEW f \in File \ raced, current[f] = hashes[f]
                   PROVE  \/ \E h \in Goroutine : pc'[h] = "dispatch" /\ f \in DOMAIN work'[h]
                          \/ Latest(f, hashes[f])'
      BY <1>1 DEF Published
    <3>2. CASE f \in DOMAIN work[g]
      BY <1>1, <1>4, <2>2, <3>2 DEF Latest
    <3>3. CASE f \notin DOMAIN work[g]
      <4>1. \/ \E h \in Goroutine : pc[h] = "dispatch" /\ f \in DOMAIN work[h]
            \/ Latest(f, hashes[f])
        BY <2>1, <3>1 DEF UpdatesInv, Published
      <4>2. Latest(f, hashes[f]) => Latest(f, hashes[f])'
        BY <1>1, <1>4, <3>3 DEF Latest
      <4>. QED
        BY <1>1, <3>3, <4>1, <4>2
    <3>. QED
      BY <3>2, <3>3
  <2>. QED
    BY <1>5, <1>6, <2>1, <2>3, <2>4, <2>5, <2>6 DEF BeforeScan
<1>. QED
  BY <1>7, <1>8

\* A hash that is brought up to date begins a refresh.
LEMMA ReadStep ==
  ASSUME UpdatesInv, Typed, Typed', NEW f \in File, disk[f] # hashes[f], disk[f] # Partial,
         hashes' = [hashes EXCEPT ![f] = disk[f]], Begin(Events),
         pc[Events] \in {"idle", "settle"}, raced # File => Watched,
         UNCHANGED <<disk, current, work, feed>>, changed' \subseteq changed,
         changed \ {f} \subseteq changed'
  PROVE  /\ OneRefresh' /\ BeforeScan' /\ Hashed' /\ Compared' /\ Published'
         /\ raced \subseteq raced' /\ (Scanned' <=> Scanned) /\ pc'[Events] # "settle"
<1>1. /\ pc'[Events] = "snapshot" /\ \A h \in Goroutine \ {Events} : pc'[h] = pc[h]
      /\ raced' = IF \E h \in Goroutine \ {Events} : Refreshing(h) THEN File ELSE raced
      /\ hashes'[f] = disk[f] /\ \A h \in File \ {f} : hashes'[h] = hashes[h]
  BY WhoWorks DEF Begin, Typed
<1>2. raced \subseteq raced'
  BY <1>1 DEF Typed
<1>3. Scanned' <=> Scanned
  BY <1>1, WhoWorks DEF Scanned
<1>4. Hashed'
  BY <1>1, <1>3 DEF UpdatesInv, Hashed
<1>5. CASE raced' = File
  BY <1>1, <1>2, <1>3, <1>4, <1>5, AllRaced DEF OneRefresh, BeforeScan, Compared, Published, Typed
<1>6. CASE raced' # File
  <2>1. /\ raced' = raced /\ raced # File /\ \A h \in Goroutine : ~Refreshing(h)
    BY <1>1, <1>6, WhoWorks DEF Refreshing
  <2>2. Scanned
    BY <2>1, WhoWorks DEF Watched, Scanned, Refreshing
  <2>3. OneRefresh'
    BY <1>1, <2>1 DEF OneRefresh, Refreshing
  <2>4. Compared'
    BY <1>1, <2>1, WhoWorks DEF Compared, Comparing, Refreshing
  <2>5. Published'
    <3>1. SUFFICES ASSUME NEW h \in File \ raced, current[h] = hashes'[h]
                   PROVE  Latest(h, hashes'[h])
      BY <2>1 DEF Published, feed, Latest
    <3>2. current[h] = hashes[h]
      BY <2>1 DEF UpdatesInv, Compared, Comparing, Refreshing
    <3>3. h # f
      BY <1>1, <3>1, <3>2
    <3>. QED
      BY <1>1, <2>1, <2>2, <3>2, <3>3 DEF UpdatesInv, Published, Refreshing
  <2>. QED
    BY <1>1, <1>2, <1>3, <1>4, <2>2, <2>3, <2>4, <2>5 DEF BeforeScan
<1>. QED
  BY <1>5, <1>6

LEMMA LookStep ==
  ASSUME UpdatesInv, Typed, Typed', NEW f \in File, Look(f),
         pc[Events] \in {"idle", "settle"}, raced # File => Watched,
         UNCHANGED <<disk, current, work, feed>>
  PROVE  /\ OneRefresh' /\ BeforeScan' /\ Hashed' /\ Compared' /\ Published'
         /\ raced \subseteq raced' /\ (Scanned' <=> Scanned) /\ pc'[Events] # "settle"
         /\ changed' \subseteq changed /\ (f \in changed' => disk[f] \notin Content)
<1>1. changed' = IF disk[f] \in Content THEN changed \ {f} ELSE changed
  BY DEF Look
<1>2. CASE disk[f] \in {Missing, Partial, hashes[f]}
  <2>1. /\ pc'[Events] = "idle" /\ \A h \in Goroutine \ {Events} : pc'[h] = pc[h]
        /\ UNCHANGED <<hashes, raced>>
    BY <1>2, WhoWorks DEF Look, Typed
  <2>2. Scanned' <=> Scanned
    BY <2>1, WhoWorks DEF Scanned
  <2>3. Hashed'
    BY <1>1, <1>2, <2>1, <2>2, UpdatesAssumption DEF UpdatesInv, Hashed, Value
  <2>4. CASE raced = File
    <3>1. OneRefresh' /\ BeforeScan' /\ Compared' /\ Published'
      BY <2>1, <2>3, <2>4, AllRaced
    <3>. QED
      BY <1>1, <2>1, <2>2, <2>3, <3>1
  <2>5. CASE raced # File
    <3>1. \A h \in Goroutine : /\ pc'[h] \in {"snapshot", "diff"} <=> pc[h] \in {"snapshot", "diff"}
                               /\ pc'[h] \in {"diff", "dispatch"} <=> pc[h] \in {"diff", "dispatch"}
                               /\ pc'[h] = "dispatch" <=> pc[h] = "dispatch"
                               /\ Refreshing(h)' <=> Refreshing(h)
      BY <2>1 DEF Refreshing
    <3>2. OneRefresh'
      BY <2>1, <2>5, <3>1 DEF UpdatesInv, OneRefresh
    <3>3. Compared'
      BY <2>1, <2>5, <3>1 DEF UpdatesInv, Compared, Comparing
    <3>4. Published'
      BY <2>1, <2>2, <3>1 DEF UpdatesInv, Published, Latest, feed
    <3>5. BeforeScan'
      <4>1. SUFFICES ASSUME ~Scanned PROVE BeforeScan'
        BY <2>2 DEF BeforeScan
      <4>2. hashes[f] = Missing
        BY <2>5, <4>1 DEF UpdatesInv, BeforeScan
      <4>3. changed' = changed
        BY <1>1, <1>2, <4>2, UpdatesAssumption DEF Value
      <4>4. Watched'
        BY <2>1, <2>5, WhoWorks DEF Watched
      <4>. QED
        BY <2>1, <2>5, <3>1, <4>1, <4>3, <4>4 DEF UpdatesInv, BeforeScan, feed
    <3>. QED
      BY <1>1, <2>1, <2>2, <2>3, <3>2, <3>3, <3>4, <3>5
  <2>. QED
    BY <2>4, <2>5
<1>3. CASE disk[f] \notin {Missing, Partial, hashes[f]}
  <2>1. Begin(Events) /\ hashes' = [hashes EXCEPT ![f] = disk[f]]
    BY <1>3 DEF Look
  <2>. QED
    BY <1>1, <1>3, <2>1, ReadStep
<1>. QED
  BY <1>2, <1>3

LEMMA WriteStep ==
  ASSUME UpdatesInv, Typed, Typed', HandleWrite
  PROVE  OneRefresh' /\ BeforeScan' /\ Hashed' /\ Announced' /\ Compared' /\ Published'
<1>. DEFINE f == Head(events).file
<1>1. /\ pc[Events] = "idle" /\ events # <<>> /\ Head(events).kind = "write"
      /\ events' = Tail(events) /\ Look(f) /\ UNCHANGED <<disk, current, file, work, feed>>
  BY DEF HandleWrite
<1>2. /\ Len(events) \in Nat \ {0} /\ Len(events') = Len(events) - 1 /\ Head(events) = events[1]
      /\ \A k \in 1..(Len(events) - 1) : events'[k] = events[k + 1]
      /\ f \in File
  BY <1>1, EventLists, EventParts DEF Typed
<1>3. raced # File => Watched
  BY <1>1 DEF UpdatesInv, BeforeScan, Scanned, Watched
<1>. HIDE DEF f
<1>4. /\ OneRefresh' /\ BeforeScan' /\ Hashed' /\ Compared' /\ Published'
      /\ raced \subseteq raced' /\ (Scanned' <=> Scanned) /\ pc'[Events] # "settle"
      /\ changed' \subseteq changed /\ (f \in changed' => disk[f] \notin Content)
  BY <1>1, <1>2, <1>3, LookStep
<1>5. ASSUME Scanned, NEW h \in changed' \ raced', disk[h] # Partial
      PROVE  \E k \in 1..Len(events') : /\ events'[k].file = h
                                        /\ disk[h] = Missing => events'[k].kind = "remove"
  <2>1. PICK k \in 1..Len(events) : /\ events[k].file = h
                                    /\ disk[h] = Missing => events[k].kind = "remove"
    BY <1>1, <1>4, <1>5 DEF UpdatesInv, Announced
  <2>2. CASE k = 1
    <3>1. h = f /\ disk[h] # Missing /\ h \in File
      BY <1>1, <1>2, <2>1, <2>2 DEF f
    <3>. QED
      BY <1>4, <1>5, <3>1 DEF Typed, Value
  <2>3. CASE k # 1
    <3>1. k - 1 \in 1..Len(events') /\ events'[k - 1] = events[k]
      BY <1>2, <2>3
    <3>. QED
      BY <2>1, <3>1
  <2>. QED
    BY <2>2, <2>3
<1>6. Announced'
  BY <1>1, <1>4, <1>5 DEF Announced
<1>. QED
  BY <1>4, <1>6

LEMMA RemoveStep ==
  ASSUME UpdatesInv, Typed, Typed', HandleRemove
  PROVE  OneRefresh' /\ BeforeScan' /\ Hashed' /\ Announced' /\ Compared' /\ Published'
<1>. DEFINE f == Head(events).file
<1>1. /\ pc[Events] = "idle" /\ events # <<>> /\ events' = Tail(events)
      /\ UNCHANGED <<disk, hashes, current, work, pending, batch, queue, view, changed>>
      /\ \/ raced' = raced \cup {f} /\ UNCHANGED <<pc, file>>
         \/ /\ file' = f /\ pc'[Events] = "settle" /\ raced' = raced
            /\ \A h \in Goroutine \ {Events} : pc'[h] = pc[h]
  BY WhoWorks DEF HandleRemove, feed, Typed
<1>2. /\ Len(events) \in Nat \ {0} /\ Len(events') = Len(events) - 1 /\ Head(events) = events[1]
      /\ \A k \in 1..(Len(events) - 1) : events'[k] = events[k + 1]
      /\ f \in File
  BY <1>1, EventLists, EventParts DEF Typed
<1>. HIDE DEF f
<1>3. Scanned' <=> Scanned
  BY <1>1, WhoWorks DEF Scanned
<1>4. Hashed'
  BY <1>1, <1>3 DEF UpdatesInv, Hashed
<1>5. CASE raced' = File
  BY <1>4, <1>5, AllRaced
<1>6. CASE raced' # File
  <2>1. raced # File /\ raced \subseteq raced'
    BY <1>1, <1>6 DEF Typed
  <2>2. \A h \in Goroutine : /\ pc'[h] \in {"snapshot", "diff"} <=> pc[h] \in {"snapshot", "diff"}
                             /\ pc'[h] \in {"diff", "dispatch"} <=> pc[h] \in {"diff", "dispatch"}
                             /\ pc'[h] = "dispatch" <=> pc[h] = "dispatch"
                             /\ Refreshing(h)' <=> Refreshing(h)
    BY <1>1 DEF Refreshing
  <2>3. Watched /\ Watched'
    BY <1>1, <2>1, WhoWorks DEF UpdatesInv, BeforeScan, Scanned, Watched
  <2>4. OneRefresh' /\ BeforeScan'
    BY <1>1, <1>3, <2>1, <2>2, <2>3 DEF UpdatesInv, OneRefresh, BeforeScan
  <2>5. Compared'
    BY <1>1, <2>1, <2>2 DEF UpdatesInv, Compared, Comparing
  <2>6. Published'
    BY <1>1, <1>3, <2>1, <2>2 DEF UpdatesInv, Published, Latest
  <2>7. ASSUME Scanned, NEW h \in changed \ raced', disk[h] # Partial
        PROVE  \/ \E k \in 1..Len(events') : /\ events'[k].file = h
                                             /\ disk[h] = Missing => events'[k].kind = "remove"
               \/ pc'[Events] = "settle" /\ file' = h
    <3>1. PICK k \in 1..Len(events) : /\ events[k].file = h
                                      /\ disk[h] = Missing => events[k].kind = "remove"
      BY <1>1, <2>1, <2>7 DEF UpdatesInv, Announced
    <3>2. CASE k = 1
      BY <1>1, <1>2, <2>7, <3>1, <3>2 DEF f
    <3>3. CASE k # 1
      <4>1. k - 1 \in 1..Len(events') /\ events'[k - 1] = events[k]
        BY <1>2, <3>3
      <4>. QED
        BY <3>1, <4>1
    <3>. QED
      BY <3>2, <3>3
  <2>8. Announced'
    BY <1>1, <1>3, <2>7 DEF Announced
  <2>. QED
    BY <1>4, <2>4, <2>5, <2>6, <2>8
<1>. QED
  BY <1>5, <1>6

LEMMA SettleStep ==
  ASSUME UpdatesInv, Typed, Typed', Settle
  PROVE  OneRefresh' /\ BeforeScan' /\ Hashed' /\ Announced' /\ Compared' /\ Published'
<1>1. pc[Events] = "settle" /\ file \in File
      /\ UNCHANGED <<disk, events, current, file, work, feed>>
  BY DEF Settle, Typed
<1>2. raced # File => Watched
  BY <1>1 DEF UpdatesInv, BeforeScan, Scanned, Watched
<1>3. /\ OneRefresh' /\ BeforeScan' /\ Hashed' /\ Compared' /\ Published'
      /\ raced \subseteq raced' /\ (Scanned' <=> Scanned)
      /\ changed' \subseteq changed /\ (file \in changed' => disk[file] = Partial)
  <2>1. CASE disk[file] # Missing
    <3>1. Look(file)
      BY <2>1 DEF Settle
    <3>2. /\ OneRefresh' /\ BeforeScan' /\ Hashed' /\ Compared' /\ Published'
          /\ raced \subseteq raced' /\ (Scanned' <=> Scanned)
          /\ changed' \subseteq changed /\ (file \in changed' => disk[file] \notin Content)
      BY <1>1, <1>2, <3>1, LookStep
    <3>3. disk[file] \in Content \cup {Partial}
      BY <1>1, <2>1 DEF Typed, Value
    <3>. QED
      BY <3>2, <3>3
  <2>2. CASE disk[file] = Missing /\ hashes[file] = Missing
    <3>1. /\ changed' = changed \ {file} /\ UNCHANGED <<hashes, raced>>
          /\ pc'[Events] = "idle" /\ \A h \in Goroutine \ {Events} : pc'[h] = pc[h]
      BY <2>2, WhoWorks DEF Settle, Typed
    <3>2. Scanned' <=> Scanned
      BY <3>1, WhoWorks DEF Scanned
    <3>3. Hashed'
      BY <1>1, <2>2, <3>1, <3>2, UpdatesAssumption DEF UpdatesInv, Hashed, Value
    <3>4. CASE raced = File
      <4>1. OneRefresh' /\ BeforeScan' /\ Compared' /\ Published'
        BY <3>1, <3>3, <3>4, AllRaced
      <4>. QED
        BY <3>1, <3>2, <3>3, <4>1
    <3>5. CASE raced # File
      <4>1. \A h \in Goroutine :
              /\ pc'[h] \in {"snapshot", "diff"} <=> pc[h] \in {"snapshot", "diff"}
              /\ pc'[h] \in {"diff", "dispatch"} <=> pc[h] \in {"diff", "dispatch"}
              /\ pc'[h] = "dispatch" <=> pc[h] = "dispatch"
              /\ Refreshing(h)' <=> Refreshing(h)
        BY <1>1, <3>1 DEF Refreshing
      <4>2. Watched'
        BY <1>2, <3>1, <3>5, WhoWorks DEF Watched
      <4>3. OneRefresh'
        BY <3>1, <3>5, <4>1 DEF UpdatesInv, OneRefresh
      <4>4. BeforeScan'
        BY <1>1, <2>2, <3>1, <3>2, <3>5, <4>1, <4>2, UpdatesAssumption
           DEF UpdatesInv, BeforeScan, feed, Value
      <4>5. Compared'
        BY <1>1, <3>1, <3>5, <4>1 DEF UpdatesInv, Compared, Comparing
      <4>6. Published'
        BY <1>1, <3>1, <3>2, <4>1 DEF UpdatesInv, Published, Latest, feed
      <4>. QED
        BY <3>1, <3>2, <3>3, <4>3, <4>4, <4>5, <4>6
    <3>. QED
      BY <3>4, <3>5
  <2>3. CASE disk[file] = Missing /\ hashes[file] # Missing
    <3>1. /\ changed' = changed \ {file} /\ Begin(Events)
          /\ hashes' = [hashes EXCEPT ![file] = disk[file]]
      BY <2>3 DEF Settle, RemoveClient
    <3>2. disk[file] # Partial
      BY <2>3, UpdatesAssumption DEF Value
    <3>3. pc[Events] \in {"idle", "settle"}
      BY <1>1
    <3>4. /\ OneRefresh' /\ BeforeScan' /\ Hashed' /\ Compared' /\ Published'
          /\ raced \subseteq raced' /\ (Scanned' <=> Scanned)
      BY <1>1, <1>2, <2>3, <3>1, <3>2, <3>3, ReadStep
    <3>. QED
      BY <3>1, <3>4
  <2>. QED
    BY <2>1, <2>2, <2>3
<1>4. ASSUME Scanned, NEW h \in changed' \ raced', disk[h] # Partial
      PROVE  \E k \in 1..Len(events) : /\ events[k].file = h
                                       /\ disk[h] = Missing => events[k].kind = "remove"
  BY <1>1, <1>3, <1>4 DEF UpdatesInv, Announced
<1>5. Announced'
  BY <1>1, <1>3, <1>4 DEF Announced
<1>. QED
  BY <1>3, <1>5

LEMMA RescanStep ==
  ASSUME UpdatesInv, Typed, Typed', Rescan
  PROVE  OneRefresh' /\ BeforeScan' /\ Hashed' /\ Announced' /\ Compared' /\ Published'
<1>1. /\ pc[Starter] = "rescan" /\ pc'[Starter] = "snapshot"
      /\ \A h \in Goroutine \ {Starter} : pc'[h] = pc[h]
      /\ UNCHANGED <<disk, events, current, file, work, pending, batch, queue, view>>
      /\ \A f \in File : hashes'[f] = Readable(disk[f])
      /\ changed' = {f \in changed : disk[f] = Partial}
      /\ raced' = IF \E h \in Goroutine \ {Starter} : Refreshing(h) THEN File ELSE raced
  BY WhoWorks DEF Rescan, Begin, feed, Typed
<1>2. ~Scanned /\ Scanned'
  BY <1>1 DEF Scanned
<1>3. Hashed'
  <2>1. \A f \in File \ changed' : disk[f] # Partial
    BY <1>1 DEF UpdatesInv, Hashed
  <2>. QED
    BY <1>1, <2>1 DEF Hashed, Readable
<1>4. CASE raced' = File
  BY <1>3, <1>4, AllRaced
<1>5. CASE raced' # File
  <2>1. raced' = raced /\ raced # File /\ \A h \in Goroutine \ {Starter} : ~Refreshing(h)
    BY <1>1, <1>5
  <2>2. OneRefresh'
    BY <1>1, <2>1 DEF OneRefresh, Refreshing
  <2>3. Announced'
    BY <1>1 DEF Announced
  <2>4. Compared'
    BY <1>1, <2>1, WhoWorks DEF Compared, Comparing, Refreshing
  <2>5. Published'
    <3>1. SUFFICES ASSUME NEW f \in File \ raced, current[f] = hashes'[f]
                   PROVE  Latest(f, hashes'[f])
      BY <1>1, <2>1 DEF Published, Latest
    <3>2. current[f] = Missing /\ pending = <<>> /\ batch = <<>> /\ queue = <<>>
          /\ (disk[f] \in Content \/ (disk[f] = Missing /\ view[f] = Missing))
      BY <1>2, <2>1 DEF UpdatesInv, BeforeScan
    <3>3. hashes'[f] = Missing /\ view[f] = Missing
      BY <1>1, <3>1, <3>2, UpdatesAssumption DEF Readable, Value
    <3>. QED
      BY <3>2, <3>3, LastInNone DEF Latest
  <2>. QED
    BY <1>2, <1>3, <2>2, <2>3, <2>4, <2>5 DEF BeforeScan
<1>. QED
  BY <1>4, <1>5

LEMMA ReloadStep ==
  ASSUME UpdatesInv, Typed, Typed', NEW g \in Reloader, NEW forgotten \in SUBSET File,
         Reload(g, forgotten)
  PROVE  OneRefresh' /\ BeforeScan' /\ Hashed' /\ Announced' /\ Compared' /\ Published'
<1>1. /\ pc[g] = "idle" /\ pc'[g] = "snapshot" /\ \A h \in Goroutine \ {g} : pc'[h] = pc[h]
      /\ UNCHANGED <<disk, events, hashes, file, work, pending, batch, queue, view, changed>>
      /\ \A f \in File : current'[f] = IF f \in forgotten THEN Missing ELSE current[f]
      /\ raced' = IF \E h \in Goroutine \ {g} : Refreshing(h) THEN File ELSE raced
      /\ Watched
  BY WhoWorks DEF Reload, Begin, feed, Typed
<1>2. Scanned' <=> Scanned
  BY <1>1, WhoWorks DEF Scanned
<1>3. Hashed'
  BY <1>1, <1>2 DEF UpdatesInv, Hashed
<1>4. CASE raced' = File
  BY <1>3, <1>4, AllRaced
<1>5. CASE raced' # File
  <2>1. raced' = raced /\ raced # File /\ \A h \in Goroutine : ~Refreshing(h)
    BY <1>1, <1>5 DEF Refreshing
  <2>2. Scanned
    BY <1>1, <2>1, WhoWorks DEF Watched, Scanned, Refreshing
  <2>3. OneRefresh'
    BY <1>1, <2>1, WhoWorks DEF OneRefresh, Refreshing
  <2>4. Announced'
    BY <1>1, <1>2, <2>1, <2>2, WhoWorks DEF UpdatesInv, Announced
  <2>5. Compared'
    BY <1>1, <2>1, WhoWorks DEF Compared, Comparing, Refreshing
  <2>6. Published'
    <3>1. SUFFICES ASSUME NEW f \in File \ raced PROVE Latest(f, hashes[f])
      BY <1>1, <2>1 DEF Published, Latest
    <3>2. current[f] = hashes[f]
      BY <2>1 DEF UpdatesInv, Compared, Comparing, Refreshing
    <3>. QED
      BY <2>1, <2>2, <3>2 DEF UpdatesInv, Published, Refreshing
  <2>. QED
    BY <1>2, <1>3, <2>2, <2>3, <2>4, <2>5, <2>6 DEF BeforeScan
<1>. QED
  BY <1>4, <1>5

-----------------------------------------------------------------------------
(* The steps of the dispatch loop and of its consumer. *)

LEMMA FeedStep ==
  ASSUME UpdatesInv, Typed, Typed', TakeBatch \/ Send \/ Apply
  PROVE  OneRefresh' /\ BeforeScan' /\ Hashed' /\ Announced' /\ Compared' /\ Published'
<1>1. UNCHANGED <<disk, events, hashes, current, pc, file, work, changed, raced>>
  BY DEF TakeBatch, Send, Apply, watcher
<1>2. OneRefresh' /\ Hashed' /\ Announced' /\ Compared'
  BY <1>1 DEF UpdatesInv, OneRefresh, Hashed, Announced, Compared, Refreshing, Scanned, Comparing
<1>3. BeforeScan'
  <2>1. pending # <<>> \/ batch # <<>> \/ queue # <<>>
    BY DEF TakeBatch, Send, Apply
  <2>. QED
    BY <1>1, <2>1 DEF UpdatesInv, BeforeScan, Scanned
<1>4. ASSUME NEW f \in File, NEW x, Latest(f, x) PROVE Latest(f, x)'
  <2>1. CASE TakeBatch
    BY <1>4, <2>1, LastInNone DEF TakeBatch, Latest
  <2>2. CASE Send
    <3>1. /\ batch # <<>> /\ queue' = Append(queue, Head(batch)) /\ batch' = Tail(batch)
          /\ UNCHANGED <<pending, view>>
      BY <2>2 DEF Send
    <3>2. batch \in Seq(Update) /\ queue \in Seq(Update) /\ Head(batch) \in Update
      BY <3>1, UpdateLists DEF Typed
    <3>3. /\ NoneIn(batch, f) => NoneIn(batch', f) /\ Head(batch).id # f
          /\ LastIn(batch, f, x) => \/ LastIn(batch', f, x)
                                    \/ NoneIn(batch', f) /\ Head(batch).id = f /\ Head(batch).value = x
      BY <3>1, <3>2, LastInTail
    <3>4. /\ Head(batch).id # f => /\ NoneIn(queue, f) => NoneIn(queue', f)
                                   /\ LastIn(queue, f, x) => LastIn(queue', f, x)
          /\ Head(batch).id = f /\ Head(batch).value = x => LastIn(queue', f, x)
      BY <3>1, <3>2, LastInAppend
    <3>. QED
      BY <1>4, <3>1, <3>3, <3>4 DEF Latest
  <2>3. CASE Apply
    <3>1. /\ queue # <<>> /\ queue' = Tail(queue)
          /\ view' = [view EXCEPT ![Head(queue).id] = Head(queue).value]
          /\ UNCHANGED <<pending, batch>>
      BY <2>3 DEF Apply
    <3>2. queue \in Seq(Update) /\ Head(queue) \in Update
      BY <3>1, UpdateLists DEF Typed
    <3>3. /\ NoneIn(queue, f) => NoneIn(queue', f) /\ Head(queue).id # f
          /\ LastIn(queue, f, x) => \/ LastIn(queue', f, x)
                                    \/ NoneIn(queue', f) /\ Head(queue).id = f /\ Head(queue).value = x
      BY <3>1, <3>2, LastInTail
    <3>4. view'[f] = IF Head(queue).id = f THEN Head(queue).value ELSE view[f]
      BY <3>1 DEF Typed
    <3>. QED
      BY <1>4, <3>1, <3>3, <3>4 DEF Latest
  <2>. QED
    BY <2>1, <2>2, <2>3
<1>5. Published'
  BY <1>1, <1>4 DEF UpdatesInv, Published, Scanned
<1>. QED
  BY <1>2, <1>3, <1>5

-----------------------------------------------------------------------------

LEMMA UpdatesInitially == Init => UpdatesInv
<1>. SUFFICES ASSUME Init PROVE UpdatesInv
  OBVIOUS
<1>1. Typed
  <2>1. work \in [Goroutine -> Work]
    BY WorkType DEF Init
  <2>. QED
    BY <2>1, UpdatesAssumption DEF Init, Typed, Value, Steps
<1>2. TypeOK
  BY <1>1, TypeParts
<1>3. /\ pc[Starter] = "start" /\ \A g \in Goroutine : pc[g] \in {"start", "idle"}
      /\ pc[Events] = "idle" /\ \A g \in Goroutine \ {Starter} : pc[g] = "idle"
  BY WhoWorks DEF Init
<1>4. ~Scanned /\ \A g \in Goroutine : ~Refreshing(g)
  BY <1>3 DEF Scanned, Refreshing
<1>5. OneRefresh /\ Announced /\ Published
  BY <1>4 DEF OneRefresh, Announced, Published
<1>8. Hashed
  BY <1>4, UpdatesAssumption DEF Hashed, Init
<1>6. BeforeScan
  BY <1>3, <1>4 DEF BeforeScan, Init, Value
<1>7. Compared
  BY <1>3, <1>4 DEF Compared, Init
<1>. QED
  BY <1>2, <1>5, <1>6, <1>7, <1>8 DEF UpdatesInv

LEMMA UpdatesStep ==
  UpdatesInv /\ [Next]_vars => UpdatesInv'
<1>. SUFFICES ASSUME UpdatesInv, [Next]_vars PROVE UpdatesInv'
  OBVIOUS
<1>1. Typed
  BY TypeParts DEF UpdatesInv
<1>2. CASE UNCHANGED vars
  BY <1>2 DEF UpdatesInv, TypeOK, OneRefresh, BeforeScan, Hashed, Announced, Compared, Published,
              Latest, Scanned, Watched, Refreshing, Comparing, vars, watcher, feed
<1>3. CASE Next
  <2>1. TypeOK' /\ Typed'
    BY <1>3, TypeStep, TypePartsNext DEF UpdatesInv
  <2>2. OneRefresh' /\ BeforeScan' /\ Hashed' /\ Announced' /\ Compared' /\ Published'
    BY <1>1, <1>3, <2>1, ChangeStep, WindowStep, WriteStep, RemoveStep, SettleStep, WatchStep,
       RescanStep, ReloadStep, SnapshotStep, DispatchStep, DiffStep, FeedStep DEF Next
  <2>. QED
    BY <2>1, <2>2 DEF UpdatesInv
<1>. QED
  BY <1>2, <1>3

LEMMA QuietFiles == UpdatesInv => QuietFilesApplied
<1>. SUFFICES ASSUME UpdatesInv, Settled, NEW f \in File \ raced PROVE view[f] = disk[f]
  BY DEF QuietFilesApplied
<1>1. Scanned /\ ~Comparing /\ \A g \in Goroutine : pc[g] # "dispatch"
  BY WhoWorks DEF Settled, Scanned, Comparing
<1>2. f \notin changed
  BY <1>1, WhoWorks DEF Settled, UpdatesInv, Announced
<1>3. hashes[f] = disk[f]
  BY <1>1, <1>2 DEF UpdatesInv, Hashed
<1>4. current[f] = hashes[f]
  BY <1>1 DEF UpdatesInv, Compared
<1>5. Latest(f, hashes[f])
  BY <1>1, <1>4 DEF UpdatesInv, Published
<1>. QED
  BY <1>3, <1>5, LastInNone DEF Settled, Latest

LEMMA UpdatesAlways == Spec => []UpdatesInv
BY UpdatesInitially, UpdatesStep, PTL DEF Spec

\* The side by side exploration is one of AuthUpdates.
LEMMA WatcherUpdates == WatcherSpec => Spec
<1>1. WatcherInit => Init
  BY DEF WatcherInit
<1>2. [WatcherNext]_<<part, vars, mirror>> => [Next]_vars
  BY DEF WatcherNext
<1>. QED
  BY <1>1, <1>2, PTL DEF WatcherSpec, Spec

\* When all is quiet the manager has the state of every file, but for those to which one
\* of the four things happened that QuietFilesApplied names, however many files,
\* contents and reloading goroutines there are and whatever the channel has room for
\* (handleEvent, reloadClients, refreshAuthState, dispatchAuthUpdates, consumeAuthUpdates).
THEOREM FilesReachTheManager == WatcherSpec => []QuietFilesApplied
<1>1. Spec => []QuietFilesApplied
  BY UpdatesAlways, QuietFiles, PTL
<1>. QED
  BY <1>1, WatcherUpdates, PTL

-----------------------------------------------------------------------------
(* The values of one credential in a list of updates, by least counterexamples.  *)

\* A set of naturals that is not empty has a least element.
LEMMA LeastNatural ==
  ASSUME NEW S \in SUBSET Nat, S # {}
  PROVE  \E n \in S : \A k \in S : n <= k
<1>. DEFINE Less == {p \in Nat \X Nat : p[1] < p[2]}
<1>1. IsWellFoundedOn(Less, Nat)
  BY NatLessThanWellFounded, SMT DEF OpToRel
<1>. HIDE DEF Less
<1>2. PICK n \in S : \A k \in S : ~(<<k, n>> \in Less)
  BY <1>1, WFMin, Zenon
<1>3. ASSUME NEW k \in S PROVE n <= k
  <2>1. n \in Nat /\ k \in Nat /\ ~(k < n)
    BY <1>2 DEF Less
  <2>. QED
    BY <2>1
<1>. QED
  BY <1>2, <1>3

\* What ValuesOf goes through: F[n] are the values of f among the first n of s.
Gathers(F, s, f) ==
  /\ F \in [0..Len(s) -> Seq(Value)] /\ F[0] = <<>>
  /\ \A n \in 1..Len(s) : F[n] = IF s[n].id = f THEN Append(F[n - 1], s[n].value)
                                 ELSE F[n - 1]

LEMMA GathersTo ==
  ASSUME NEW f, NEW s \in Seq(Update)
  PROVE  \E F : Gathers(F, s, f)
<1>1. Len(s) \in Nat /\ \A i \in 1..Len(s) : s[i].value \in Value
  <2>1. Len(s) \in Nat /\ \A i \in 1..Len(s) : s[i] \in Update
    BY UpdateLists
  <2>2. \A u \in Update : u.value \in Value
    BY DEF Update
  <2>. QED
    BY <2>1, <2>2
<1>. DEFINE UpTo(m, F) ==
       /\ F \in [0..m -> Seq(Value)] /\ F[0] = <<>>
       /\ \A n \in 1..m : F[n] = IF s[n].id = f THEN Append(F[n - 1], s[n].value)
                                 ELSE F[n - 1]
            Bad == {m \in Nat : m <= Len(s) /\ ~\E F : UpTo(m, F)}
<1>2. SUFFICES Bad = {}
  <2>. HIDE DEF UpTo
  <2>1. \E F : UpTo(Len(s), F)
    BY <1>1, <1>2
  <2>2. \A F : UpTo(Len(s), F) => Gathers(F, s, f)
    BY DEF UpTo, Gathers
  <2>. QED
    BY <2>1, <2>2
<1>3. SUFFICES ASSUME Bad # {} PROVE FALSE
  OBVIOUS
<1>4. PICK m \in Bad : \A k \in Bad : m <= k
  <2>. HIDE DEF UpTo
  <2>. QED
    BY <1>3, LeastNatural
<1>5. m \in Nat /\ m <= Len(s) /\ ~\E F : UpTo(m, F)
  OBVIOUS
<1>6. m # 0
  <2>. DEFINE F == [i \in 0..0 |-> <<>>]
  <2>1. UpTo(0, F)
    OBVIOUS
  <2>. QED
    BY <1>5, <2>1
<1>7. m - 1 \in Nat /\ m - 1 <= Len(s) /\ m - 1 \notin Bad
  <2>1. m - 1 \in Nat /\ m - 1 <= Len(s) /\ ~(m <= m - 1)
    BY ONLY <1>1, <1>5, <1>6
  <2>. HIDE DEF UpTo, Bad
  <2>. QED
    BY ONLY <1>4, <2>1
<1>8. PICK G : UpTo(m - 1, G)
  <2>. HIDE DEF UpTo
  <2>. QED
    BY <1>7
<1>. DEFINE last == IF s[m].id = f THEN Append(G[m - 1], s[m].value) ELSE G[m - 1]
            F == [i \in 0..m |-> IF i = m THEN last ELSE G[i]]
<1>9. G[m - 1] \in Seq(Value) /\ s[m].value \in Value
  BY <1>1, <1>5, <1>6, <1>7, <1>8
<1>10. last \in Seq(Value)
  BY <1>9
<1>. HIDE DEF last
<1>11. F \in [0..m -> Seq(Value)] /\ F[0] = <<>>
  BY <1>5, <1>6, <1>7, <1>8, <1>10
<1>12. ASSUME NEW n \in 1..m
       PROVE  F[n] = IF s[n].id = f THEN Append(F[n - 1], s[n].value) ELSE F[n - 1]
  <2>1. CASE n = m
    <3>1. F[n] = last /\ F[n - 1] = G[m - 1]
      BY <1>5, <1>6, <2>1
    <3>. QED
      BY <2>1, <3>1 DEF last
  <2>2. CASE n # m
    <3>1. n \in 1..(m - 1) /\ n \in 0..m /\ n - 1 \in 0..m /\ n - 1 # m
      BY <1>5, <2>2
    <3>2. F[n] = G[n] /\ F[n - 1] = G[n - 1]
      BY <2>2, <3>1
    <3>. QED
      BY <1>8, <3>1, <3>2
  <2>. QED
    BY <2>1, <2>2
<1>. QED
  BY <1>5, <1>11, <1>12

LEMMA ValuesGathered ==
  ASSUME NEW f, NEW s \in Seq(Update)
  PROVE  \E F : Gathers(F, s, f) /\ ValuesOf(s, f) = F[Len(s)]
<1>. DEFINE Through(F) == F = [n \in 0..Len(s) |->
              IF n = 0 THEN <<>>
              ELSE IF s[n].id = f THEN Append(F[n - 1], s[n].value)
              ELSE F[n - 1]]
            V == CHOOSE F : Through(F)
<1>1. PICK F : Gathers(F, s, f)
  BY GathersTo
<1>2. Len(s) \in Nat
  OBVIOUS
<1>3. Through(F)
  <2>. DEFINE G == [n \in 0..Len(s) |-> IF n = 0 THEN <<>>
              ELSE IF s[n].id = f THEN Append(F[n - 1], s[n].value)
              ELSE F[n - 1]]
  <2>1. \A n \in 0..Len(s) : n = 0 \/ n \in 1..Len(s)
    BY <1>2
  <2>2. \A n \in 0..Len(s) : F[n] = G[n]
    BY <1>1, <2>1 DEF Gathers
  <2>3. F = [n \in 0..Len(s) |-> F[n]]
    BY <1>1 DEF Gathers
  <2>. QED
    BY <2>2, <2>3
<1>4. Through(V)
  BY <1>3, Zenon
<1>5. ValuesOf(s, f) = V[Len(s)]
  BY Zenon DEF ValuesOf
<1>. HIDE DEF V
<1>6. \A n \in 0..Len(s) : V[n] = IF n = 0 THEN <<>>
              ELSE IF s[n].id = f THEN Append(V[n - 1], s[n].value)
              ELSE V[n - 1]
  BY <1>4
<1>7. V = [n \in 0..Len(s) |-> V[n]]
  BY <1>4
<1>. HIDE DEF Through
<1>. DEFINE Bad == {n \in Nat : n <= Len(s) /\ V[n] # F[n]}
<1>8. Bad = {}
  <2>. SUFFICES ASSUME Bad # {} PROVE FALSE
    OBVIOUS
  <2>1. PICK n \in Bad : \A k \in Bad : n <= k
    BY LeastNatural
  <2>2. n \in 0..Len(s) /\ V[n] # F[n]
    BY <1>2
  <2>3. n # 0
    BY <1>1, <1>6, <2>2 DEF Gathers
  <2>4. n \in 1..Len(s) /\ n - 1 \in Nat /\ n - 1 <= Len(s)
    BY <1>2, <2>2, <2>3
  <2>5. V[n - 1] = F[n - 1]
    BY <2>1, <2>4
  <2>. QED
    BY <1>1, <1>6, <2>2, <2>3, <2>4, <2>5 DEF Gathers
<1>9. \A n \in 0..Len(s) : V[n] = F[n]
  BY <1>2, <1>8
<1>10. Len(s) \in 0..Len(s)
  BY <1>2
<1>. QED
  BY <1>1, <1>5, <1>9, <1>10

\* Two lists that agree up to m have the same values among their first m.
LEMMA GathersSame ==
  ASSUME NEW f, NEW s \in Seq(Update), NEW t \in Seq(Update), NEW F, NEW G,
         Gathers(F, s, f), Gathers(G, t, f),
         NEW m \in Nat, m <= Len(s), m <= Len(t), \A i \in 1..m : s[i] = t[i]
  PROVE  F[m] = G[m]
<1>. DEFINE Bad == {n \in Nat : n <= m /\ F[n] # G[n]}
<1>0. Len(s) \in Nat /\ Len(t) \in Nat
  OBVIOUS
<1>1. Bad = {}
  <2>. SUFFICES ASSUME Bad # {} PROVE FALSE
    OBVIOUS
  <2>1. PICK n \in Bad : \A k \in Bad : n <= k
    BY LeastNatural
  <2>2. n \in Nat /\ n <= m /\ F[n] # G[n]
    OBVIOUS
  <2>3. n # 0
    BY <2>2 DEF Gathers
  <2>4. n \in 1..Len(s) /\ n \in 1..Len(t) /\ n \in 1..m /\ n - 1 \in Nat /\ n - 1 <= m /\ ~(n <= n - 1)
    BY <1>0, <2>2, <2>3
  <2>5. F[n - 1] = G[n - 1]
    BY <2>1, <2>4
  <2>6. /\ F[n] = IF s[n].id = f THEN Append(F[n - 1], s[n].value) ELSE F[n - 1]
        /\ G[n] = IF t[n].id = f THEN Append(G[n - 1], t[n].value) ELSE G[n - 1]
    BY <2>4 DEF Gathers
  <2>. QED
    BY <2>2, <2>4, <2>5, <2>6
<1>. QED
  BY <1>1

LEMMA ValuesType ==
  ASSUME NEW f, NEW s \in Seq(Update)
  PROVE  ValuesOf(s, f) \in Seq(Value) /\ ValuesOf(<<>>, f) = <<>>
<1>1. Len(s) \in 0..Len(s) /\ <<>> \in Seq(Update) /\ Len(<<>>) = 0
  OBVIOUS
<1>2. ValuesOf(s, f) \in Seq(Value)
  <2>1. PICK F : Gathers(F, s, f) /\ ValuesOf(s, f) = F[Len(s)]
    BY ValuesGathered
  <2>. QED
    BY <1>1, <2>1 DEF Gathers
<1>3. ValuesOf(<<>>, f) = <<>>
  <2>1. PICK F : Gathers(F, <<>>, f) /\ ValuesOf(<<>>, f) = F[Len(<<>>)]
    BY <1>1, ValuesGathered
  <2>. QED
    BY <1>1, <2>1 DEF Gathers
<1>. QED
  BY <1>2, <1>3

LEMMA ValuesAppend ==
  ASSUME NEW f, NEW s \in Seq(Update), NEW u \in Update
  PROVE  ValuesOf(Append(s, u), f) =
           IF u.id = f THEN Append(ValuesOf(s, f), u.value) ELSE ValuesOf(s, f)
<1>. DEFINE t == Append(s, u)
            n == Len(s)
<1>1. /\ t \in Seq(Update) /\ Len(t) = n + 1 /\ n \in Nat /\ t[n + 1] = u
      /\ \A i \in 1..n : t[i] = s[i]
  BY AppendProperties
<1>2. PICK F : Gathers(F, s, f) /\ ValuesOf(s, f) = F[n]
  BY ValuesGathered
<1>. HIDE DEF t, n
<1>3. PICK G : Gathers(G, t, f) /\ ValuesOf(t, f) = G[n + 1]
  BY <1>1, ValuesGathered
<1>4. n <= Len(s) /\ n <= Len(t) /\ n + 1 \in 1..Len(t) /\ (n + 1) - 1 = n
  BY <1>1 DEF n
<1>5. F[n] = G[n]
  <2>1. Gathers(F, s, f) /\ Gathers(G, t, f) /\ t \in Seq(Update)
    BY <1>1, <1>2, <1>3
  <2>2. n \in Nat /\ n <= Len(s) /\ n <= Len(t) /\ \A i \in 1..n : s[i] = t[i]
    BY <1>1, <1>4
  <2>. QED
    BY <2>1, <2>2, GathersSame
<1>6. G[n + 1] = IF u.id = f THEN Append(G[n], u.value) ELSE G[n]
  BY <1>1, <1>3, <1>4 DEF Gathers
<1>. QED
  BY <1>2, <1>3, <1>5, <1>6 DEF t

\* The values of one list and then another.
LEMMA ValuesConcat ==
  ASSUME NEW f, NEW s \in Seq(Update), NEW t \in Seq(Update)
  PROVE  ValuesOf(s \o t, f) = ValuesOf(s, f) \o ValuesOf(t, f)
<1>. DEFINE Splits(r) == ValuesOf(s \o r, f) = ValuesOf(s, f) \o ValuesOf(r, f)
            Bad == {n \in Nat : \E r \in Seq(Update) : Len(r) = n /\ ~Splits(r)}
<1>. HIDE DEF Splits
<1>1. SUFFICES Bad = {}
  <2>1. Len(t) \in Nat
    OBVIOUS
  <2>2. Splits(t)
    BY <1>1, <2>1
  <2>. QED
    BY <2>2 DEF Splits
<1>2. SUFFICES ASSUME Bad # {} PROVE FALSE
  OBVIOUS
<1>3. PICK n \in Bad : \A k \in Bad : n <= k
  BY <1>2, LeastNatural
<1>4. PICK r \in Seq(Update) : Len(r) = n /\ ~Splits(r)
  OBVIOUS
<1>5. Splits(<<>>)
  <2>1. s \o <<>> = s /\ ValuesOf(s, f) \o <<>> = ValuesOf(s, f)
    BY ValuesType, ConcatEmptySeq
  <2>. QED
    BY <2>1, ValuesType DEF Splits
<1>6. PICK r0 \in Seq(Update), u \in Update : r = Append(r0, u)
  BY <1>4, <1>5, SequenceEmptyOrAppend
<1>7. Len(r0) \in Nat /\ n = Len(r0) + 1
  BY <1>4, <1>6
<1>8. Len(r0) \notin Bad
  <2>. HIDE DEF Bad
  <2>1. ~(n <= Len(r0))
    BY ONLY <1>7
  <2>. QED
    BY ONLY <2>1, <1>3
<1>9. Splits(r0)
  BY <1>7, <1>8
<1>. HIDE DEF Bad
<1>10. s \o r = Append(s \o r0, u) /\ s \o r0 \in Seq(Update)
  <2>1. r = r0 \o <<u>> /\ <<u>> \in Seq(Update) /\ s \o r0 \in Seq(Update)
    BY <1>6, AppendIsConcat, ConcatProperties
  <2>2. Append(s \o r0, u) = (s \o r0) \o <<u>>
    BY <2>1, AppendIsConcat
  <2>. QED
    BY <2>1, <2>2, ConcatAssociative
<1>11. /\ ValuesOf(s, f) \in Seq(Value) /\ ValuesOf(r0, f) \in Seq(Value)
       /\ ValuesOf(s \o r0, f) = ValuesOf(s, f) \o ValuesOf(r0, f) /\ u.value \in Value
  BY <1>9, ValuesType DEF Splits, Update
<1>12. CASE u.id # f
  <2>1. ValuesOf(r, f) = ValuesOf(r0, f) /\ ValuesOf(s \o r, f) = ValuesOf(s \o r0, f)
    BY <1>6, <1>10, <1>12, ValuesAppend
  <2>. QED
    BY <1>4, <1>11, <2>1 DEF Splits
<1>13. CASE u.id = f
  <2>. DEFINE a == ValuesOf(s, f)
              b == ValuesOf(r0, f)
  <2>1. /\ ValuesOf(r, f) = Append(b, u.value)
        /\ ValuesOf(s \o r, f) = Append(ValuesOf(s \o r0, f), u.value)
    BY <1>6, <1>10, <1>13, ValuesAppend
  <2>2. ValuesOf(s \o r, f) = Append(a \o b, u.value)
    BY <1>11, <2>1
  <2>3. a \in Seq(Value) /\ b \in Seq(Value) /\ u.value \in Value
    BY <1>11
  <2>. HIDE DEF a, b
  <2>4. Append(a \o b, u.value) = a \o Append(b, u.value)
    <3>1. a \o b \in Seq(Value) /\ <<u.value>> \in Seq(Value)
      BY <2>3, ConcatProperties
    <3>2. Append(a \o b, u.value) = (a \o b) \o <<u.value>>
      BY <2>3, <3>1, AppendIsConcat
    <3>3. Append(b, u.value) = b \o <<u.value>>
      BY <2>3, AppendIsConcat
    <3>. QED
      BY <2>3, <3>1, <3>2, <3>3, ConcatAssociative
  <2>. QED
    BY <1>4, <2>1, <2>2, <2>4 DEF Splits, a, b
<1>. QED
  BY <1>12, <1>13

\* A list without an update of f has no values of it; one with a single update has its value.
LEMMA ValuesNone ==
  ASSUME NEW f, NEW s \in Seq(Update), NoneIn(s, f)
  PROVE  ValuesOf(s, f) = <<>>
<1>1. PICK F : Gathers(F, s, f) /\ ValuesOf(s, f) = F[Len(s)]
  BY ValuesGathered
<1>2. Len(s) \in Nat
  OBVIOUS
<1>. DEFINE Bad == {n \in Nat : n <= Len(s) /\ F[n] # <<>>}
<1>3. Bad = {}
  <2>. SUFFICES ASSUME Bad # {} PROVE FALSE
    OBVIOUS
  <2>1. PICK n \in Bad : \A k \in Bad : n <= k
    BY LeastNatural
  <2>2. n \in Nat /\ n <= Len(s) /\ F[n] # <<>>
    OBVIOUS
  <2>3. n # 0
    BY <1>1, <2>2 DEF Gathers
  <2>4. n \in 1..Len(s) /\ n - 1 \in Nat /\ n - 1 <= Len(s) /\ ~(n <= n - 1)
    BY <1>2, <2>2, <2>3
  <2>5. F[n - 1] = <<>>
    BY <2>1, <2>4
  <2>. QED
    BY <1>1, <2>2, <2>4, <2>5 DEF Gathers, NoneIn
<1>. QED
  BY <1>1, <1>2, <1>3

LEMMA ValuesOne ==
  ASSUME NEW f, NEW s \in Seq(Update), NEW k \in 1..Len(s), s[k].id = f,
         \A i \in 1..Len(s) : s[i].id = f => i = k
  PROVE  ValuesOf(s, f) = <<s[k].value>>
<1>. DEFINE a == SubSeq(s, 1, k - 1)
            b == SubSeq(s, k + 1, Len(s))
            n == Len(s)
<1>1. n \in Nat /\ k \in Int /\ 1 <= k /\ k <= n
  OBVIOUS
<1>2. \A i \in 1..n : s[i] \in Update
  BY UpdateLists
<1>3. /\ a \in Seq(Update) /\ Len(a) = k - 1 /\ \A i \in 1..(k - 1) : a[i] = s[i]
  <2>. HIDE DEF n
  <2>1. \A i \in 1..(k - 1) : i \in 1..n /\ s[i] \in Update /\ 1 + i - 1 = i
    BY <1>1, <1>2
  <2>2. 1 \in Int /\ k - 1 \in Int /\ (k - 1) - 1 + 1 = k - 1
    BY <1>1
  <2>3. /\ a \in Seq(Update) /\ Len(a) = IF 1 <= k - 1 THEN (k - 1) - 1 + 1 ELSE 0
        /\ \A i \in 1..((k - 1) - 1 + 1) : a[i] = s[1 + i - 1]
    BY <2>1, <2>2, SubSeqProperties
  <2>. HIDE DEF a
  <2>4. Len(a) = k - 1
    BY <1>1, <2>3
  <2>. QED
    BY <2>1, <2>2, <2>3, <2>4
<1>4. /\ b \in Seq(Update) /\ Len(b) = n - k /\ \A i \in 1..(n - k) : b[i] = s[k + i]
  <2>1. \A i \in (k + 1)..n : i \in 1..n /\ s[i] \in Update
    BY <1>1, <1>2
  <2>2. k + 1 \in Int /\ n \in Int /\ n - (k + 1) + 1 = n - k
    BY <1>1
  <2>3. /\ b \in Seq(Update) /\ Len(b) = IF k + 1 <= n THEN n - (k + 1) + 1 ELSE 0
        /\ \A i \in 1..(n - (k + 1) + 1) : b[i] = s[(k + 1) + i - 1]
    BY <2>1, <2>2, SubSeqProperties
  <2>. HIDE DEF b, n
  <2>4. Len(b) = n - k
    BY <1>1, <2>3
  <2>5. \A i \in 1..(n - k) : (k + 1) + i - 1 = k + i
    BY <1>1
  <2>. QED
    BY <2>2, <2>3, <2>4, <2>5
<1>5. s = (a \o <<s[k]>>) \o b
  <2>1. SubSeq(s, 1, n) = s
    BY SubSeqFull
  <2>2. 1 \in 1..(n + 1) /\ k \in (1 - 1)..n /\ n \in k..n /\ 1 \in 1..n /\ k \in 1..n
    BY <1>1
  <2>3. SubSeq(s, 1, k) \o b = SubSeq(s, 1, n)
    BY <2>2, ConcatAdjacentSubSeq
  <2>4. SubSeq(s, 1, k) = a \o <<s[k]>>
    <3>1. k \in 1..n /\ 1 \in 1..Len(s)
      BY <2>2
    <3>. QED
      BY <2>2, SubSeqRecursiveSecond
  <2>. QED
    BY <2>1, <2>3, <2>4
<1>. HIDE DEF a, b, n
<1>6. NoneIn(a, f) /\ NoneIn(b, f)
  <2>1. \A i \in 1..(k - 1) : i \in 1..Len(s) /\ i # k
    BY <1>1 DEF n
  <2>2. \A i \in 1..(n - k) : k + i \in 1..Len(s) /\ k + i # k
    BY <1>1 DEF n
  <2>. QED
    BY <1>3, <1>4, <2>1, <2>2 DEF NoneIn
<1>7. s[k] \in Update /\ s[k].value \in Value
  BY <1>1, <1>2 DEF n, Update
<1>8. a \o <<s[k]>> = Append(a, s[k]) /\ Append(a, s[k]) \in Seq(Update)
  BY <1>3, <1>7, AppendIsConcat, AppendProperties
<1>9. ValuesOf(Append(a, s[k]), f) = Append(<<>>, s[k].value)
  BY <1>3, <1>6, <1>7, ValuesAppend, ValuesNone
<1>10. ValuesOf(s, f) = Append(<<>>, s[k].value) \o <<>>
  <2>1. s = Append(a, s[k]) \o b /\ Append(a, s[k]) \in Seq(Update) /\ b \in Seq(Update)
    BY <1>4, <1>5, <1>8
  <2>2. ValuesOf(b, f) = <<>>
    BY <1>4, <1>6, ValuesNone
  <2>3. ValuesOf(Append(a, s[k]) \o b, f) = ValuesOf(Append(a, s[k]), f) \o ValuesOf(b, f)
    BY <2>1, ValuesConcat
  <2>. QED
    BY <1>9, <2>1, <2>2, <2>3, Zenon
<1>. QED
  BY <1>7, <1>10
-----------------------------------------------------------------------------
(* The way of the updates to the manager keeps their order. *)

LEMMA BacklogParts ==
  ASSUME TypeOK, NEW f
  PROVE  /\ Backlog(f) = (ValuesOf(queue, f) \o ValuesOf(batch, f)) \o ValuesOf(pending, f)
         /\ ValuesOf(queue, f) \in Seq(Value) /\ ValuesOf(batch, f) \in Seq(Value)
         /\ ValuesOf(pending, f) \in Seq(Value) /\ Backlog(f) \in Seq(Value)
<1>1. queue \in Seq(Update) /\ batch \in Seq(Update) /\ pending \in Seq(Update)
  BY DEF TypeOK
<1>2. queue \o batch \in Seq(Update) /\ (queue \o batch) \o pending \in Seq(Update)
  BY <1>1, ConcatProperties
<1>3. /\ ValuesOf((queue \o batch) \o pending, f) =
             ValuesOf(queue \o batch, f) \o ValuesOf(pending, f)
      /\ ValuesOf(queue \o batch, f) = ValuesOf(queue, f) \o ValuesOf(batch, f)
  BY <1>1, <1>2, ValuesConcat
<1>4. Backlog(f) = (ValuesOf(queue, f) \o ValuesOf(batch, f)) \o ValuesOf(pending, f)
  BY <1>3, Zenon DEF Backlog
<1>5. /\ ValuesOf(queue, f) \in Seq(Value) /\ ValuesOf(batch, f) \in Seq(Value)
      /\ ValuesOf(pending, f) \in Seq(Value)
  BY <1>1, ValuesType
<1>6. Backlog(f) \in Seq(Value)
  BY <1>2, ValuesType, Zenon DEF Backlog
<1>. QED
  BY <1>4, <1>5, <1>6

LEMMA BacklogPartsNext ==
  ASSUME TypeOK', NEW f
  PROVE  Backlog(f)' = (ValuesOf(queue', f) \o ValuesOf(batch', f)) \o ValuesOf(pending', f)
<1>1. queue' \in Seq(Update) /\ batch' \in Seq(Update) /\ pending' \in Seq(Update)
  BY DEF TypeOK
<1>2. queue' \o batch' \in Seq(Update) /\ (queue' \o batch') \o pending' \in Seq(Update)
  BY <1>1, ConcatProperties
<1>3. /\ ValuesOf((queue' \o batch') \o pending', f) =
             ValuesOf(queue' \o batch', f) \o ValuesOf(pending', f)
      /\ ValuesOf(queue' \o batch', f) = ValuesOf(queue', f) \o ValuesOf(batch', f)
  BY <1>1, <1>2, ValuesConcat
<1>. QED
  BY <1>3, Zenon DEF Backlog

\* Coalescing replaces the one pending state of a credential or adds one at the end.
LEMMA ValuesCoalesced ==
  ASSUME TypeOK, NEW us \in Work, NEW ids \in SetToSeqs(NewIds(us)), NEW q,
         q = Coalesced(us, ids), NEW f
  PROVE  LET v == ValuesOf(pending, f)
         IN  \/ f \notin DOMAIN us /\ ValuesOf(q, f) = v
             \/ /\ f \in DOMAIN us /\ ValuesOf(q, f) = <<us[f]>>
                /\ v = <<>> \/ \E x \in Value : v = <<x>>
<1>. DEFINE n == Len(pending)
            m == Len(ids)
<1>1. /\ q \in Seq(Update) /\ Len(q) = n + m /\ n \in Nat /\ m \in Nat
      /\ \A k \in 1..n : /\ q[k].id = pending[k].id
                         /\ q[k].value = IF pending[k].id \in DOMAIN us THEN us[pending[k].id]
                                         ELSE pending[k].value
      /\ \A k \in 1..m : /\ q[n + k].id = ids[k] /\ q[n + k].value = us[ids[k]]
      /\ \A g \in DOMAIN us : \/ \E k \in 1..n : pending[k].id = g
                              \/ \E k \in 1..m : ids[k] = g
      /\ \A k \in 1..m : ids[k] \in DOMAIN us
  BY CoalescedIs, PendingType
<1>2. /\ pending \in Seq(Update) /\ \A i, j \in 1..n : pending[i].id = pending[j].id => i = j
      /\ \A k \in 1..n : pending[k].value \in Value
  BY PendingType
<1>3. \A i, j \in 1..Len(q) : q[i].id = q[j].id => i = j
  BY CoalescedOnce
<1>. HIDE DEF n, m
<1>4. /\ \A k \in 1..n : k \in 1..Len(q)
      /\ \A k \in 1..m : n + k \in 1..Len(q)
      /\ \A k \in 1..Len(q) : k \in 1..n \/ (k - n \in 1..m /\ k = n + (k - n))
  BY <1>1
<1>5. ASSUME NEW k \in 1..n, pending[k].id = f
      PROVE  ValuesOf(pending, f) = <<pending[k].value>>
  BY <1>2, <1>5, ValuesOne DEF n
<1>6. ASSUME NEW k \in 1..Len(q), q[k].id = f
      PROVE  ValuesOf(q, f) = <<q[k].value>>
  BY <1>1, <1>3, <1>6, ValuesOne
<1>7. CASE f \in DOMAIN us
  <2>1. CASE \E k \in 1..n : pending[k].id = f
    <3>1. PICK k \in 1..n : pending[k].id = f
      BY <2>1
    <3>2. ValuesOf(pending, f) = <<pending[k].value>> /\ pending[k].value \in Value
      BY <1>2, <1>5, <3>1
    <3>3. k \in 1..Len(q) /\ q[k].id = f /\ q[k].value = us[f]
      BY <1>1, <1>4, <1>7, <3>1
    <3>4. ValuesOf(q, f) = <<us[f]>>
      BY <1>6, <3>3
    <3>. QED
      BY <1>7, <3>2, <3>4
  <2>2. CASE ~\E k \in 1..n : pending[k].id = f
    <3>1. PICK k \in 1..m : ids[k] = f
      BY <1>1, <1>7, <2>2
    <3>2. n + k \in 1..Len(q) /\ q[n + k].id = f /\ q[n + k].value = us[f]
      BY <1>1, <1>4, <3>1
    <3>3. ValuesOf(q, f) = <<us[f]>>
      BY <1>6, <3>2
    <3>4. ValuesOf(pending, f) = <<>>
      BY <1>2, <2>2, ValuesNone DEF NoneIn, n
    <3>. QED
      BY <1>7, <3>3, <3>4
  <2>. QED
    BY <2>1, <2>2
<1>8. CASE f \notin DOMAIN us
  <2>1. CASE \E k \in 1..n : pending[k].id = f
    <3>1. PICK k \in 1..n : pending[k].id = f
      BY <2>1
    <3>2. ValuesOf(pending, f) = <<pending[k].value>>
      BY <1>5, <3>1
    <3>3. k \in 1..Len(q) /\ q[k].id = f /\ q[k].value = pending[k].value
      BY <1>1, <1>4, <1>8, <3>1
    <3>. QED
      BY <1>6, <1>8, <3>2, <3>3
  <2>2. CASE ~\E k \in 1..n : pending[k].id = f
    <3>1. ValuesOf(pending, f) = <<>>
      BY <1>2, <2>2, ValuesNone DEF NoneIn, n
    <3>2. ASSUME NEW k \in 1..Len(q) PROVE q[k].id # f
      <4>1. CASE k \in 1..n
        BY <1>1, <2>2, <4>1
      <4>2. CASE k - n \in 1..m /\ k = n + (k - n)
        <5>1. q[k].id = ids[k - n] /\ ids[k - n] \in DOMAIN us
          BY <1>1, <4>2
        <5>. QED
          BY <1>8, <5>1
      <4>. QED
        BY <1>4, <4>1, <4>2
    <3>3. ValuesOf(q, f) = <<>>
      BY <1>1, <3>2, ValuesNone DEF NoneIn
    <3>. QED
      BY <1>8, <3>1, <3>3
  <2>. QED
    BY <2>1, <2>2
<1>. QED
  BY <1>7, <1>8

\* A list with one more state at its end, or with another one there.
LEMMA GrownBy ==
  ASSUME NEW b \in Seq(Value), NEW x \in Value, NEW u \in Value
  PROVE  /\ b \o <<u>> \in Feed!Grown(b, u)
         /\ b \o <<u>> \in Feed!Grown(b \o <<x>>, u)
<1>1. b \o <<u>> = Append(b, u) /\ b \o <<x>> = Append(b, x)
  BY AppendIsConcat
<1>2. Append(b, x) # <<>> /\ Len(Append(b, x)) = Len(b) + 1 /\ Append(b, x) \in Seq(Value)
  BY AppendProperties
<1>3. Feed!Front(Append(b, x)) = b
  <2>1. Len(b) \in Nat /\ (Len(b) + 1) - 1 = Len(b)
    OBVIOUS
  <2>2. Feed!Front(Append(b, x)) = SubSeq(Append(b, x), 1, Len(b))
    BY <1>2, <2>1 DEF Feed!Front
  <2>. DEFINE t == Append(b, x)
              r == SubSeq(t, 1, Len(b))
  <2>3. \A i \in 1..Len(b) : t[i] = b[i] /\ t[i] \in Value /\ 1 + i - 1 = i
    BY AppendProperties
  <2>4. 1 \in Int /\ Len(b) \in Int /\ Len(b) - 1 + 1 = Len(b)
    BY <2>1
  <2>. HIDE DEF t
  <2>5. /\ r \in Seq(Value) /\ Len(r) = IF 1 <= Len(b) THEN Len(b) - 1 + 1 ELSE 0
        /\ \A i \in 1..(Len(b) - 1 + 1) : r[i] = t[1 + i - 1]
    BY <2>3, <2>4, SubSeqProperties
  <2>. HIDE DEF r
  <2>6. Len(r) = Len(b)
    BY <2>1, <2>5
  <2>7. \A i \in 1..Len(r) : r[i] = b[i]
    BY <2>3, <2>4, <2>5, <2>6
  <2>8. r = b
    BY <2>5, <2>6, <2>7, SeqEqual
  <2>. QED
    BY <2>2, <2>8 DEF r, t
<1>. QED
  BY <1>1, <1>2, <1>3 DEF Feed!Grown

LEMMA DispatchFeeds ==
  ASSUME TypeOK, TypeOK', NEW g \in Goroutine, Dispatch(g)
  PROVE  Feed!Publish
<1>1. PICK ids \in SetToSeqs(NewIds(work[g])) : pending' = Coalesced(work[g], ids)
  BY DEF Dispatch
<1>2. work[g] \in Work /\ queue' = queue /\ batch' = batch /\ view' = view
  BY DEF Dispatch, TypeOK, Work
<1>3. ASSUME NEW f \in File
      PROVE  \/ Backlog(f)' = Backlog(f)
             \/ \E u \in Value : Backlog(f)' \in Feed!Grown(Backlog(f), u)
  <2>. DEFINE a == ValuesOf(queue, f) \o ValuesOf(batch, f)
              v == ValuesOf(pending, f)
              w == ValuesOf(pending', f)
  <2>1. Backlog(f) = a \o v /\ Backlog(f)' = a \o w
    BY <1>2, BacklogParts, BacklogPartsNext
  <2>2. a \in Seq(Value)
    BY BacklogParts, ConcatProperties
  <2>3. \/ f \notin DOMAIN work[g] /\ w = v
        \/ /\ f \in DOMAIN work[g] /\ w = <<work[g][f]>>
           /\ v = <<>> \/ \E x \in Value : v = <<x>>
    BY <1>1, <1>2, ValuesCoalesced
  <2>. HIDE DEF a, v, w
  <2>4. f \in DOMAIN work[g] => work[g][f] \in Value
    BY <1>2, WorkType
  <2>5. CASE w = v
    BY <2>1, <2>5
  <2>6. ASSUME w = <<work[g][f]>>, work[g][f] \in Value, v = <<>>
        PROVE  Backlog(f)' \in Feed!Grown(Backlog(f), work[g][f])
    <3>1. a \o v = a
      BY <2>2, <2>6, ConcatEmptySeq
    <3>2. a \o w \in Feed!Grown(a, work[g][f])
      BY <2>2, <2>6, GrownBy
    <3>. QED
      BY <2>1, <3>1, <3>2
  <2>7. ASSUME w = <<work[g][f]>>, work[g][f] \in Value, NEW x \in Value, v = <<x>>
        PROVE  Backlog(f)' \in Feed!Grown(Backlog(f), work[g][f])
    <3>1. a \o w \in Feed!Grown(a \o v, work[g][f])
      BY <2>2, <2>7, GrownBy
    <3>. QED
      BY <2>1, <3>1
  <2>. QED
    BY <2>3, <2>4, <2>5, <2>6, <2>7
<1>. QED
  BY <1>2, <1>3 DEF Feed!Publish

\* The first of a list, and the values of the list that are left.
LEMMA FirstUpdate ==
  ASSUME NEW s \in Seq(Update), s # <<>>
  PROVE  \E u \in Update, r \in Seq(Update) :
           u = Head(s) /\ r = Tail(s) /\ s = <<u>> \o r /\ <<u>> \in Seq(Update)
<1>1. Head(s) \in Update /\ Tail(s) \in Seq(Update)
  BY HeadTailProperties
<1>2. s = <<Head(s)>> \o Tail(s) /\ <<Head(s)>> \in Seq(Update)
  BY <1>1
<1>. QED
  BY <1>1, <1>2

LEMMA ValuesSingle ==
  ASSUME NEW f, NEW u \in Update
  PROVE  ValuesOf(<<u>>, f) = IF u.id = f THEN <<u.value>> ELSE <<>>
<1>1. <<u>> = Append(<<>>, u) /\ <<>> \in Seq(Update)
  OBVIOUS
<1>2. ValuesOf(Append(<<>>, u), f) = IF u.id = f THEN Append(<<>>, u.value) ELSE <<>>
  BY <1>1, ValuesAppend, ValuesType
<1>. QED
  BY <1>1, <1>2

LEMMA ApplyFeeds ==
  ASSUME TypeOK, TypeOK', Apply
  PROVE  \E i \in File : Feed!Deliver(i)
<1>1. /\ queue # <<>> /\ queue \in Seq(Update) /\ queue' = Tail(queue)
      /\ batch' = batch /\ pending' = pending
      /\ view' = [view EXCEPT ![Head(queue).id] = Head(queue).value]
  BY DEF Apply, TypeOK
<1>2. PICK u \in Update, r \in Seq(Update) :
        u = Head(queue) /\ r = Tail(queue) /\ queue = <<u>> \o r /\ <<u>> \in Seq(Update)
  BY <1>1, FirstUpdate
<1>3. PICK i \in File, x \in Value : i = u.id /\ x = u.value
  BY DEF Update
<1>4. ASSUME NEW f PROVE Backlog(f) = ValuesOf(<<u>>, f) \o Backlog(f)' /\ Backlog(f)' \in Seq(Value)
  <2>. DEFINE h == ValuesOf(<<u>>, f)
              a == ValuesOf(r, f)
              b == ValuesOf(batch, f)
              c == ValuesOf(pending, f)
  <2>1. ValuesOf(queue, f) = h \o a
    BY <1>2, ValuesConcat
  <2>2. Backlog(f) = ((h \o a) \o b) \o c /\ Backlog(f)' = (a \o b) \o c
    BY <1>1, <1>2, <2>1, BacklogParts, BacklogPartsNext
  <2>3. b \in Seq(Value) /\ c \in Seq(Value)
    BY BacklogParts
  <2>4. h \in Seq(Value) /\ a \in Seq(Value)
    BY <1>2, ValuesType
  <2>. HIDE DEF h, a, b, c
  <2>5. a \o b \in Seq(Value) /\ (a \o b) \o c \in Seq(Value)
    BY <2>3, <2>4, ConcatProperties
  <2>6. ((h \o a) \o b) \o c = h \o ((a \o b) \o c)
    <3>1. PICK ab \in Seq(Value) : ab = a \o b
      BY <2>5
    <3>2. (h \o a) \o b = h \o ab
      BY <2>3, <2>4, <3>1, ConcatAssociative
    <3>3. (h \o ab) \o c = h \o (ab \o c)
      BY <2>3, <2>4, ConcatAssociative
    <3>. QED
      BY <3>1, <3>2, <3>3
  <2>. QED
    BY <2>2, <2>5, <2>6 DEF h
<1>5. ASSUME NEW f, f # i PROVE Backlog(f)' = Backlog(f)
  <2>1. ValuesOf(<<u>>, f) = <<>>
    BY <1>3, <1>5, ValuesSingle
  <2>2. Backlog(f)' \in Seq(Value) /\ Backlog(f) = <<>> \o Backlog(f)'
    BY <1>4, <2>1
  <2>. QED
    BY <2>2, ConcatEmptySeq, Zenon
<1>6. Backlog(i) # <<>> /\ Head(Backlog(i)) = x /\ Tail(Backlog(i)) = Backlog(i)'
  <2>. DEFINE r1 == Backlog(i)'
              b1 == Backlog(i)
  <2>1. ValuesOf(<<u>>, i) = <<x>>
    BY <1>3, ValuesSingle
  <2>2. b1 = <<x>> \o r1 /\ r1 \in Seq(Value)
    BY <1>4, <2>1
  <2>. HIDE DEF r1, b1
  <2>3. b1 # <<>> /\ Head(b1) = x /\ Tail(b1) = r1
    BY <2>2
  <2>. QED
    BY <2>3 DEF r1, b1
<1>7. Feed!Deliver(i)
  <2>. DEFINE b1 == [f \in File |-> Backlog(f)]
              b2 == [f \in File |-> Backlog(f)']
  <2>1. b2 = [b1 EXCEPT ![i] = Tail(b1[i])]
    <3>1. \A f \in File : Backlog(f)' = IF f = i THEN Tail(Backlog(f)) ELSE Backlog(f)
      BY <1>5, <1>6
    <3>. QED
      BY <3>1
  <2>2. view' = [view EXCEPT ![i] = Head(b1[i])] /\ b1[i] # <<>>
    BY <1>1, <1>2, <1>3, <1>6
  <2>. QED
    BY <2>1, <2>2 DEF Feed!Deliver
<1>. QED
  BY <1>7

LEMMA SendFeeds ==
  ASSUME TypeOK, TypeOK', NEW f, Send
  PROVE  Backlog(f)' = Backlog(f)
<1>1. /\ batch # <<>> /\ batch \in Seq(Update) /\ batch' = Tail(batch)
      /\ queue' = Append(queue, Head(batch)) /\ pending' = pending /\ queue \in Seq(Update)
  BY DEF Send, TypeOK
<1>2. PICK u \in Update, r \in Seq(Update) :
        u = Head(batch) /\ r = Tail(batch) /\ batch = <<u>> \o r /\ <<u>> \in Seq(Update)
  BY <1>1, FirstUpdate
<1>3. queue' = queue \o <<u>> /\ batch' = r
  BY <1>1, <1>2, AppendIsConcat
<1>. DEFINE h == ValuesOf(<<u>>, f)
            a == ValuesOf(queue, f)
            b == ValuesOf(r, f)
            c == ValuesOf(pending, f)
<1>4. ValuesOf(queue \o <<u>>, f) = a \o h /\ ValuesOf(<<u>> \o r, f) = h \o b
  BY <1>1, <1>2, ValuesConcat
<1>5. Backlog(f) = (a \o (h \o b)) \o c /\ Backlog(f)' = ((a \o h) \o b) \o c
  BY <1>1, <1>2, <1>3, <1>4, BacklogParts, BacklogPartsNext
<1>6. h \in Seq(Value) /\ a \in Seq(Value) /\ b \in Seq(Value)
  BY <1>1, <1>2, ValuesType
<1>. HIDE DEF h, a, b, c
<1>7. (a \o h) \o b = a \o (h \o b)
  BY <1>6, ConcatAssociative
<1>. QED
  BY <1>5, <1>7

LEMMA TakeBatchFeeds ==
  ASSUME TypeOK, TypeOK', NEW f, TakeBatch
  PROVE  Backlog(f)' = Backlog(f)
<1>1. batch = <<>> /\ batch' = pending /\ pending' = <<>> /\ queue' = queue
  BY DEF TakeBatch
<1>. DEFINE a == ValuesOf(queue, f)
            c == ValuesOf(pending, f)
<1>2. ValuesOf(<<>>, f) = <<>>
  BY ValuesType DEF TypeOK
<1>3. Backlog(f) = (a \o <<>>) \o c /\ Backlog(f)' = (a \o c) \o <<>>
  BY <1>1, <1>2, BacklogParts, BacklogPartsNext
<1>4. a \in Seq(Value) /\ c \in Seq(Value)
  BY BacklogParts
<1>. HIDE DEF a, c
<1>5. a \o c \in Seq(Value)
  BY <1>4, ConcatProperties
<1>. QED
  BY <1>3, <1>4, <1>5, ConcatEmptySeq

\* The way from the watcher to the manager keeps to AuthUpdateFeed: the states of one
\* credential are applied in the order in which they were published, and only those that
\* were overtaken are skipped, however many files and contents there are and whatever the
\* channel has room for (dispatchAuthUpdates, dispatchLoop, consumeAuthUpdates).
THEOREM UpdatesStayInOrder == Spec => Feed!InOrder
<1>1. Init => Feed!Init
  <2>. SUFFICES ASSUME Init PROVE Feed!Init
    OBVIOUS
  <2>1. \A f \in File : Backlog(f) = <<>>
    <3>. SUFFICES ASSUME NEW f \in File PROVE Backlog(f) = <<>>
      OBVIOUS
    <3>1. TypeOK /\ queue = <<>> /\ batch = <<>> /\ pending = <<>>
      BY UpdatesInitially DEF Init, UpdatesInv
    <3>2. ValuesOf(<<>>, f) = <<>>
      BY <3>1, ValuesType DEF TypeOK
    <3>. QED
      BY <3>1, <3>2, BacklogParts
  <2>2. view \in [File -> Value]
    BY DEF Init
  <2>. QED
    BY <2>1, <2>2 DEF Feed!Init
<1>2. UpdatesInv /\ UpdatesInv' /\ [Next]_vars => [Feed!Next]_(Feed!vars)
  <2>. SUFFICES ASSUME TypeOK, TypeOK', [Next]_vars PROVE [Feed!Next]_(Feed!vars)
    BY DEF UpdatesInv
  <2>1. CASE view' = view /\ \A f \in File : Backlog(f)' = Backlog(f)
    BY <2>1 DEF Feed!vars
  <2>2. CASE UNCHANGED feed
    BY <2>1, <2>2 DEF feed, Backlog
  <2>3. ASSUME NEW g \in Goroutine, Dispatch(g) PROVE Feed!Next
    BY <2>3, DispatchFeeds DEF Feed!Next
  <2>4. CASE TakeBatch
    BY <2>1, <2>4, TakeBatchFeeds DEF TakeBatch
  <2>5. CASE Send
    BY <2>1, <2>5, SendFeeds DEF Send
  <2>6. CASE Apply
    BY <2>6, ApplyFeeds DEF Feed!Next
  <2>7. CASE UNCHANGED vars
    BY <2>2, <2>7 DEF vars
  <2>8. CASE \E f \in File : \/ \E x \in Value \cup {Partial} : Change(f, x)
                           \/ WindowEnds(f)
    BY <2>2, <2>8 DEF Change, WindowEnds
  <2>9. CASE HandleWrite \/ HandleRemove \/ Settle \/ Watch \/ Rescan
    BY <2>2, <2>9 DEF HandleWrite, HandleRemove, Settle, Watch, Rescan
  <2>10. CASE \E g \in Reloader, forgotten \in SUBSET File : Reload(g, forgotten)
    BY <2>2, <2>10 DEF Reload
  <2>11. CASE \E g \in Goroutine : Snapshot(g) \/ \E force \in BOOLEAN : Diff(g, force)
    BY <2>2, <2>11 DEF Snapshot, Diff
  <2>. QED
    BY <2>3, <2>4, <2>5, <2>6, <2>7, <2>8, <2>9, <2>10, <2>11 DEF Next
<1>. QED
  BY <1>1, <1>2, UpdatesAlways, PTL DEF Spec, Feed!InOrder

-----------------------------------------------------------------------------
(* What keeps the store outside at the files (MirroredStore).                 *)

\* A save or deletion that has been answered was the last to touch its file: none is
\* half done, what is being sent is what the file has, and git's commit has it too.
Answers ==
  /\ busy.step = "write" /\ busy.file \in Credential => answered[busy.file] = "open"
  /\ busy.step = "send" /\ busy.file \in Credential /\ answered[busy.file] # "open" =>
       busy.data = local[busy.file]
  /\ backend = "git" => \A f \in Credential : answered[f] # "open" => tree[f] = answered[f]

Excused(f) == \E r \in Mirror!Reason : <<f, r>> \in excused

\* What git has committed was pushed, is being pushed, or is excused.
TreeKept ==
  backend = "git" =>
    /\ busy.step = "send" => tree[busy.file] = busy.data
    /\ \A f \in Mirror!Name : \/ tree[f] = remote[f]
                              \/ busy.step = "send" /\ busy.file = f
                              \/ Excused(f)

\* Something is to come that has the file sent as it is, or passes over it.
Due(f) ==
  \/ phase = "starting" \/ (f \in Credential /\ phase = "watching")
  \/ f = ConfigFile /\ reload # Missing
  \/ tasks[f] > 0
  \/ busy.by = "task" /\ busy.file = f /\ (busy.step = "read" \/ busy.data = local[f])
  \/ local[f] \in Payload /\ (<<f, "write">> \in unseen \/ <<f, "remove">> \in unseen)
  \/ local[f] = Missing /\ <<f, "remove">> \in unseen
  \/ local[f] = Partial /\ (f \in writing \/ (busy.step = "write" /\ busy.file = f))

Followed == \A f \in Mirror!Name : Mirror!Settled(f) \/ Excused(f) \/ Due(f)

\* Only tokens are written under the mutex.
Written == busy.step = "write" => busy.data \in Payload

MirrorInv ==
  Mirror!TypeOK /\ Answers /\ Mirror!AnsweredStays /\ TreeKept /\ Followed /\ Written

-----------------------------------------------------------------------------
(* The store's state has its type. *)

Doing == {"write", "read", "send"}

LEMMA BusyKinds ==
  /\ \A f \in Mirror!Name, x \in Mirror!State, w \in {"save", "delete", "task"}, st \in Doing :
       [by |-> w, file |-> f, step |-> st, data |-> x] \in Mirror!Critical
  /\ \A u \in Mirror!Critical :
       /\ u.by \in {"save", "delete", "task"} /\ u.file \in Mirror!Name /\ u.step \in Doing
       /\ u.data \in Mirror!State
       /\ \A st \in Doing : [u EXCEPT !.step = st] \in Mirror!Critical
       /\ \A st \in Doing, x \in Mirror!State :
            [u EXCEPT !.step = st, !.data = x] \in Mirror!Critical
  /\ Mirror!Free.by = "nobody" /\ Mirror!Free.step = "none"
BY DEF Mirror!Critical, Mirror!Free, Doing

LEMMA StoreNames ==
  /\ ConfigFile \in Mirror!Name /\ Credential \subseteq Mirror!Name /\ ConfigFile \notin Credential
  /\ Mirror!Name = Credential \cup {ConfigFile}
  /\ Template \in Payload /\ Missing # Partial /\ Missing \notin Payload /\ Partial \notin Payload
  /\ Mirror!State = Payload \cup {Missing, Partial} /\ MaxTasks \in Nat \ {0} /\ MaxChanges \in Nat
BY WatcherParameters DEF Mirror!StoreParameters, Mirror!Name, Mirror!State

\* A step that puts something in the place of a file.
LEMMA PutType ==
  ASSUME Mirror!TypeOK, NEW f \in Mirror!Name, NEW x \in Mirror!State, Mirror!Put(f, x),
         x = Missing => f \in Credential
  PROVE  /\ local' \in [Mirror!Name -> Mirror!State] /\ local'[f] = x
         /\ \A g \in Mirror!Name \ {f} : local'[g] = local[g]
         /\ unseen' \subseteq Mirror!Name \X {"write", "remove"} /\ unseen \subseteq unseen'
         /\ phase # "starting" =>
              <<f, IF x = Missing THEN "remove" ELSE "write">> \in unseen'
BY DEF Mirror!Put, Mirror!TypeOK

LEMMA OvertakenType ==
  ASSUME Mirror!TypeOK, NEW f, Mirror!Overtaken(f)
  PROVE  /\ answered' \in [Credential -> Mirror!State \cup {"open"}]
         /\ f \in Credential => answered'[f] = "open"
         /\ \A g \in Credential \ {f} : answered'[g] = answered[g]
BY DEF Mirror!Overtaken, Mirror!TypeOK

LEMMA ChangedType ==
  ASSUME Mirror!TypeOK, NEW f, Mirror!Changed(f)
  PROVE  Mirror!Overtaken(f) /\ changes' \in 0 .. MaxChanges
BY StoreNames DEF Mirror!Changed, Mirror!TypeOK

LEMMA PutChanges ==
  ASSUME Mirror!TypeOK, NEW f \in Mirror!Name, NEW x \in Mirror!State, Mirror!Put(f, x),
         x = Missing => f \in Credential
  PROVE  /\ local' \in [Mirror!Name -> Mirror!State]
         /\ unseen' \subseteq Mirror!Name \X {"write", "remove"}
         /\ Mirror!Overtaken(f) => answered' \in [Credential -> Mirror!State \cup {"open"}]
         /\ Mirror!Changed(f) => /\ answered' \in [Credential -> Mirror!State \cup {"open"}]
                                 /\ changes' \in 0 .. MaxChanges
BY PutType, OvertakenType, ChangedType

LEMMA SpawnType ==
  ASSUME Mirror!TypeOK, NEW f \in Mirror!Name, Mirror!Spawn(f)
  PROVE  /\ tasks' \in [Mirror!Name -> 0 .. MaxTasks] /\ tasks'[f] > 0
         /\ \A g \in Mirror!Name \ {f} : tasks'[g] = tasks[g]
BY StoreNames DEF Mirror!Spawn, Mirror!TypeOK

LEMMA PassOverType ==
  ASSUME Mirror!TypeOK, NEW f \in Mirror!Name, NEW r \in Mirror!Reason, Mirror!PassOver(f, r)
  PROVE  /\ excused' \subseteq Mirror!Name \X Mirror!Reason /\ excused \subseteq excused'
         /\ UNCHANGED <<known, tasks>> /\ (Mirror!Settled(f) \/ <<f, r>> \in excused')
BY DEF Mirror!PassOver, Mirror!TypeOK

LEMMA UpdateType ==
  ASSUME Mirror!TypeOK, NEW f \in Mirror!Name, Mirror!Update(f)
  PROVE  /\ known' \in [Mirror!Name -> Payload \cup {Missing}]
         /\ tasks' \in [Mirror!Name -> 0 .. MaxTasks] /\ \A g \in Mirror!Name : tasks'[g] >= tasks[g]
         /\ excused' \subseteq Mirror!Name \X Mirror!Reason /\ excused \subseteq excused'
         /\ local[f] \in Payload => Mirror!Settled(f) \/ Excused(f)' \/ tasks'[f] > 0
<1>1. CASE local[f] \in {Missing, Partial}
  BY <1>1, StoreNames DEF Mirror!Update, Mirror!TypeOK
<1>2. CASE local[f] \notin {Missing, Partial} /\ local[f] = known[f]
  <2>1. Mirror!PassOver(f, "returned") /\ "returned" \in Mirror!Reason
    BY <1>2 DEF Mirror!Update, Mirror!Reason
  <2>2. /\ excused' \subseteq Mirror!Name \X Mirror!Reason /\ excused \subseteq excused'
        /\ UNCHANGED <<known, tasks>> /\ (Mirror!Settled(f) \/ <<f, "returned">> \in excused')
    BY <2>1, PassOverType
  <2>. QED
    BY <2>1, <2>2 DEF Mirror!TypeOK, Excused
<1>3. CASE local[f] \notin {Missing, Partial} /\ local[f] # known[f]
  <2>1. Mirror!Spawn(f) /\ known' = [known EXCEPT ![f] = local[f]] /\ UNCHANGED excused
    BY <1>3 DEF Mirror!Update
  <2>2. local[f] \in Payload
    BY <1>3, StoreNames DEF Mirror!TypeOK
  <2>3. /\ tasks' \in [Mirror!Name -> 0 .. MaxTasks] /\ tasks'[f] > 0
        /\ \A g \in Mirror!Name \ {f} : tasks'[g] = tasks[g]
    BY <2>1, SpawnType
  <2>4. \A g \in Mirror!Name : tasks'[g] >= tasks[g]
    BY <2>1, <2>3 DEF Mirror!Spawn, Mirror!TypeOK
  <2>. QED
    BY <2>1, <2>2, <2>3, <2>4 DEF Mirror!TypeOK
<1>. QED
  BY <1>1, <1>2, <1>3

LEMMA ForgetType ==
  ASSUME Mirror!TypeOK, NEW f \in Mirror!Name, Mirror!Forget(f)
  PROVE  /\ known' \in [Mirror!Name -> Payload \cup {Missing}]
         /\ tasks' \in [Mirror!Name -> 0 .. MaxTasks] /\ \A g \in Mirror!Name : tasks'[g] >= tasks[g]
         /\ excused' \subseteq Mirror!Name \X Mirror!Reason /\ excused \subseteq excused'
         /\ Mirror!Settled(f) \/ Excused(f)' \/ tasks'[f] > 0
<1>1. CASE known[f] = Missing
  <2>1. Mirror!PassOver(f, "unknown") /\ "unknown" \in Mirror!Reason
    BY <1>1 DEF Mirror!Forget, Mirror!Reason
  <2>2. /\ excused' \subseteq Mirror!Name \X Mirror!Reason /\ excused \subseteq excused'
        /\ UNCHANGED <<known, tasks>> /\ (Mirror!Settled(f) \/ <<f, "unknown">> \in excused')
    BY <2>1, PassOverType
  <2>. QED
    BY <2>1, <2>2 DEF Mirror!TypeOK, Excused
<1>2. CASE known[f] # Missing
  <2>1. Mirror!Spawn(f) /\ known' = [known EXCEPT ![f] = Missing] /\ UNCHANGED excused
    BY <1>2 DEF Mirror!Forget
  <2>2. /\ tasks' \in [Mirror!Name -> 0 .. MaxTasks] /\ tasks'[f] > 0
        /\ \A g \in Mirror!Name \ {f} : tasks'[g] = tasks[g]
    BY <2>1, SpawnType
  <2>3. \A g \in Mirror!Name : tasks'[g] >= tasks[g]
    BY <2>1, <2>2 DEF Mirror!Spawn, Mirror!TypeOK
  <2>. QED
    BY <2>1, <2>2, <2>3 DEF Mirror!TypeOK
<1>. QED
  BY <1>1, <1>2

\* What a restart takes from outside.
LEMMA RestartType ==
  ASSUME Mirror!TypeOK, NEW moved \in BOOLEAN, Mirror!Restart(moved)
  PROVE  Mirror!TypeOK'
<1>3. /\ UNCHANGED <<backend, changes, answered>> /\ phase' = "starting" /\ busy' = Mirror!Free
      /\ known' \in [Mirror!Name -> Payload \cup {Missing}] /\ unseen' = {} /\ window' = {}
      /\ reload' = Missing /\ tasks' \in [Mirror!Name -> 0 .. MaxTasks] /\ writing' = {}
      /\ removing' = {}
  BY StoreNames DEF Mirror!Restart
<1>1. CASE backend = "git"
  <2>1. Mirror!FromRepository(moved)
    BY <1>1 DEF Mirror!Restart
  <2>2. {local', remote', tree'} \subseteq [Mirror!Name -> Mirror!State]
    BY <2>1 DEF Mirror!FromRepository, Mirror!TypeOK
  <2>3. excused' \subseteq Mirror!Name \X Mirror!Reason
    BY <2>1 DEF Mirror!FromRepository, Mirror!TypeOK, Mirror!Reason
  <2>. QED
    BY <1>3, <2>2, <2>3 DEF Mirror!TypeOK
<1>2. CASE backend # "git"
  <2>. DEFINE there == IF moved THEN Template ELSE local[ConfigFile]
  <2>1. Mirror!FromRecords(there)
    BY <1>2 DEF Mirror!Restart
  <2>2. there \in Mirror!State
    BY StoreNames DEF Mirror!TypeOK
  <2>. HIDE DEF there
  <2>3. local' \in [Mirror!Name -> Mirror!State]
    BY <2>1, <2>2 DEF Mirror!FromRecords, Mirror!TypeOK
  <2>4. remote' \in [Mirror!Name -> Mirror!State]
    <3>1. Mirror!Record(ConfigFile, local'[ConfigFile]) \in Mirror!State
      BY <2>3, StoreNames DEF Mirror!Record
    <3>. QED
      BY <2>1, <3>1 DEF Mirror!FromRecords, Mirror!TypeOK
  <2>5. excused' = {} /\ tree' \in [Mirror!Name -> Mirror!State]
    BY <2>1 DEF Mirror!FromRecords, Mirror!TypeOK
  <2>. QED
    BY <1>3, <2>3, <2>4, <2>5 DEF Mirror!TypeOK
<1>. QED
  BY <1>1, <1>2

LEMMA SendType ==
  ASSUME Mirror!TypeOK, NEW outcome \in {"done", "lost", "unsure"}, Mirror!Send(outcome)
  PROVE  Mirror!TypeOK'
<1>1. busy \in Mirror!Critical /\ busy.file \in Mirror!Name /\ busy.data \in Mirror!State
  BY BusyKinds DEF Mirror!TypeOK, Mirror!Send
<1>2. Mirror!Record(busy.file, busy.data) \in Mirror!State
  BY <1>1, StoreNames DEF Mirror!Record
<1>3. remote' \in [Mirror!Name -> Mirror!State]
  BY <1>1, <1>2 DEF Mirror!Send, Mirror!TypeOK
<1>4. excused' \subseteq Mirror!Name \X Mirror!Reason
  <2>1. CASE outcome = "done"
    BY <2>1 DEF Mirror!Send, Mirror!Sent, Mirror!TypeOK
  <2>2. CASE outcome # "done"
    BY <1>1, <2>2 DEF Mirror!Send, Mirror!Failed, Mirror!TypeOK, Mirror!Reason
  <2>. QED
    BY <2>1, <2>2
<1>5. answered' \in [Credential -> Mirror!State \cup {"open"}]
  BY <1>1 DEF Mirror!Send, Mirror!TypeOK
<1>6. busy' = Mirror!Free
      /\ UNCHANGED <<backend, phase, local, tree, known, unseen, window, reload, tasks, writing,
                     removing, changes>>
  BY DEF Mirror!Send
<1>. QED
  BY <1>3, <1>4, <1>5, <1>6 DEF Mirror!TypeOK

LEMMA MirrorTypeStep ==
  ASSUME Mirror!TypeOK, Mirror!Next
  PROVE  Mirror!TypeOK'
<1>1. ASSUME NEW f \in Mirror!Name, Mirror!BeginWrite(f) PROVE Mirror!TypeOK'
  <2>1. Partial \in Mirror!State /\ Partial # Missing
    BY StoreNames
  <2>2. Mirror!Put(f, Partial) /\ Mirror!Changed(f)
    BY <1>1 DEF Mirror!BeginWrite
  <2>. QED
    BY <1>1, <2>2, PutChanges, <2>1 DEF Mirror!BeginWrite, Mirror!TypeOK
<1>2. ASSUME NEW f \in Mirror!Name, NEW c \in Payload, Mirror!EndWrite(f, c) PROVE Mirror!TypeOK'
  <2>1. c \in Mirror!State /\ c # Missing
    BY StoreNames
  <2>2. Mirror!Put(f, c) /\ Mirror!Overtaken(f)
    BY <1>2 DEF Mirror!EndWrite
  <2>. QED
    BY <1>2, <2>2, PutChanges, <2>1 DEF Mirror!EndWrite, Mirror!TypeOK
<1>3. ASSUME NEW f \in Mirror!Name, Mirror!BeginTask(f) PROVE Mirror!TypeOK'
  <2>1. busy' \in Mirror!Critical
    BY <1>3, BusyKinds, StoreNames DEF Mirror!BeginTask, Doing
  <2>2. tasks' \in [Mirror!Name -> 0 .. MaxTasks]
    BY <1>3, StoreNames DEF Mirror!BeginTask, Mirror!TypeOK
  <2>. QED
    BY <1>3, <2>1, <2>2 DEF Mirror!BeginTask, Mirror!TypeOK
<1>4. ASSUME NEW f \in Mirror!Name, Mirror!PullFails(f) PROVE Mirror!TypeOK'
  BY <1>4, StoreNames DEF Mirror!PullFails, Mirror!TypeOK, Mirror!Reason
<1>5. ASSUME NEW f \in Credential, NEW request \in BOOLEAN, Mirror!Remove(f, request)
      PROVE  Mirror!TypeOK'
  <2>1. busy' \in Mirror!Critical \cup {Mirror!Free}
    BY <1>5, BusyKinds DEF Mirror!Remove, Mirror!TypeOK, Doing
  <2>2. Missing \in Mirror!State /\ f \in Mirror!Name
    BY StoreNames
  <2>3. Mirror!Put(f, Missing) /\ Mirror!Changed(f)
    BY <1>5 DEF Mirror!Remove
  <2>. QED
    BY <1>5, <2>1, <2>2, <2>3, PutChanges DEF Mirror!Remove, Mirror!Detached, Mirror!TypeOK
<1>6. ASSUME NEW f \in Credential, NEW c \in Payload, Mirror!SaveMetadata(f, c) PROVE Mirror!TypeOK'
  <2>1. busy' \in Mirror!Critical
    BY <1>6, BusyKinds, StoreNames DEF Mirror!SaveMetadata, Doing
  <2>2. c \in Mirror!State /\ f \in Mirror!Name
    BY StoreNames
  <2>3. Mirror!Put(f, c) /\ Mirror!Changed(f)
    BY <1>6 DEF Mirror!SaveMetadata
  <2>. QED
    BY <1>6, <2>1, <2>2, <2>3, PutChanges DEF Mirror!SaveMetadata, Mirror!Detached, Mirror!TypeOK
<1>7. ASSUME NEW f \in Credential, NEW c \in Payload, Mirror!SaveToken(f, c) PROVE Mirror!TypeOK'
  <2>1. busy' \in Mirror!Critical
    BY <1>7, BusyKinds, StoreNames DEF Mirror!SaveToken, Doing
  <2>2. Partial \in Mirror!State /\ f \in Mirror!Name
    BY StoreNames
  <2>3. Mirror!Put(f, Partial) /\ Mirror!Changed(f)
    BY <1>7 DEF Mirror!SaveToken
  <2>. QED
    BY <1>7, <2>1, <2>2, <2>3, PutChanges DEF Mirror!SaveToken, Mirror!TypeOK
<1>8. ASSUME NEW f \in Credential, Mirror!Delete(f) PROVE Mirror!TypeOK'
  <2>1. busy' \in Mirror!Critical \cup {Mirror!Free}
    BY <1>8, BusyKinds, StoreNames DEF Mirror!Delete, Doing
  <2>2. Missing \in Mirror!State /\ f \in Mirror!Name
    BY StoreNames
  <2>3. /\ local' \in [Mirror!Name -> Mirror!State]
        /\ unseen' \subseteq Mirror!Name \X {"write", "remove"}
        /\ answered' \in [Credential -> Mirror!State \cup {"open"}] /\ writing' \subseteq writing
    <3>1. CASE local[f] # Missing
      <4>1. Mirror!Put(f, Missing) /\ Mirror!Overtaken(f) /\ Mirror!Detached(f)
        BY <1>8, <3>1 DEF Mirror!Delete
      <4>. QED
        BY <2>2, <4>1, PutChanges DEF Mirror!Detached
    <3>2. CASE local[f] = Missing
      BY <1>8, <3>2 DEF Mirror!Delete, Mirror!TypeOK
    <3>. QED
      BY <3>1, <3>2
  <2>. QED
    BY <1>8, <2>1, <2>3 DEF Mirror!Delete, Mirror!TypeOK
<1>9. ASSUME NEW f \in Credential, Mirror!HandleWrite(f) PROVE Mirror!TypeOK'
  BY <1>9, UpdateType, StoreNames DEF Mirror!HandleWrite, Mirror!TypeOK
<1>10. ASSUME NEW f \in Credential, Mirror!HandleRemove(f) PROVE Mirror!TypeOK'
  <2>1. "debounced" \in Mirror!Reason /\ f \in Mirror!Name
    BY StoreNames DEF Mirror!Reason
  <2>2. /\ known' \in [Mirror!Name -> Payload \cup {Missing}]
        /\ tasks' \in [Mirror!Name -> 0 .. MaxTasks]
        /\ excused' \subseteq Mirror!Name \X Mirror!Reason
    BY <1>10, <2>1, UpdateType, ForgetType, PassOverType DEF Mirror!HandleRemove, Mirror!TypeOK
  <2>. QED
    BY <1>10, <2>2 DEF Mirror!HandleRemove, Mirror!TypeOK
<1>11. ASSUME NEW f \in Credential, Mirror!WindowEnds(f) PROVE Mirror!TypeOK'
  BY <1>11 DEF Mirror!WindowEnds, Mirror!TypeOK
<1>12. CASE Mirror!WriteToken
  <2>1. busy \in Mirror!Critical
    BY <1>12, BusyKinds DEF Mirror!WriteToken, Mirror!TypeOK
  <2>2. busy' \in Mirror!Critical /\ busy.file \in Mirror!Name /\ busy.data \in Mirror!State
    BY <1>12, <2>1, BusyKinds DEF Mirror!WriteToken, Doing
  <2>3. local' \in [Mirror!Name -> Mirror!State] /\ unseen' \subseteq Mirror!Name \X {"write", "remove"}
    BY <1>12, <2>2 DEF Mirror!WriteToken, Mirror!Put, Mirror!TypeOK
  <2>. QED
    BY <1>12, <2>2, <2>3 DEF Mirror!WriteToken, Mirror!TypeOK
<1>13. CASE Mirror!Read
  <2>1. busy \in Mirror!Critical
    BY <1>13, BusyKinds DEF Mirror!Read, Mirror!TypeOK
  <2>2. busy.file \in Mirror!Name /\ local[busy.file] \in Mirror!State
    BY <2>1, BusyKinds DEF Mirror!TypeOK
  <2>3. busy' \in Mirror!Critical \cup {Mirror!Free}
    BY <1>13, <2>1, <2>2, BusyKinds DEF Mirror!Read, Doing
  <2>4. tree' \in [Mirror!Name -> Mirror!State]
    BY <1>13, <2>2 DEF Mirror!Read, Mirror!TypeOK
  <2>. QED
    BY <1>13, <2>3, <2>4 DEF Mirror!Read, Mirror!TypeOK
<1>14. ASSUME NEW outcome \in {"done", "lost", "unsure"}, Mirror!Send(outcome) PROVE Mirror!TypeOK'
  BY <1>14, SendType
<1>15. CASE Mirror!BeginReload
  <2>1. "returned" \in Mirror!Reason
    BY DEF Mirror!Reason
  <2>2. /\ reload' \in Payload \cup {Missing} /\ UNCHANGED <<known, tasks>>
        /\ excused' \subseteq Mirror!Name \X Mirror!Reason
    <3>1. CASE local[ConfigFile] \in {Missing, Partial}
      BY <1>15, <3>1 DEF Mirror!BeginReload, Mirror!TypeOK
    <3>2. CASE local[ConfigFile] \notin {Missing, Partial} /\ local[ConfigFile] = known[ConfigFile]
      <4>1. Mirror!PassOver(ConfigFile, "returned") /\ UNCHANGED reload
        BY <1>15, <3>2 DEF Mirror!BeginReload
      <4>2. excused' \subseteq Mirror!Name \X Mirror!Reason /\ UNCHANGED <<known, tasks>>
        BY <2>1, <4>1, PassOverType, StoreNames
      <4>. QED
        BY <4>1, <4>2 DEF Mirror!TypeOK
    <3>3. CASE local[ConfigFile] \notin {Missing, Partial} /\ local[ConfigFile] # known[ConfigFile]
      BY <1>15, <3>3, StoreNames DEF Mirror!BeginReload, Mirror!TypeOK
    <3>. QED
      BY <3>1, <3>2, <3>3
  <2>3. /\ unseen' \subseteq unseen
        /\ UNCHANGED <<backend, phase, local, remote, tree, window, busy, writing, removing,
                       changes, answered>>
    BY <1>15 DEF Mirror!BeginReload
  <2>. QED
    BY <2>2, <2>3 DEF Mirror!TypeOK
<1>16. CASE Mirror!EndReload
  <2>1. known' \in [Mirror!Name -> Payload \cup {Missing}]
    BY <1>16, StoreNames DEF Mirror!EndReload, Mirror!TypeOK
  <2>2. tasks' \in [Mirror!Name -> 0 .. MaxTasks]
    BY <1>16, SpawnType, StoreNames DEF Mirror!EndReload
  <2>. QED
    BY <1>16, <2>1, <2>2 DEF Mirror!EndReload, Mirror!TypeOK
<1>17. CASE Mirror!Watch
  BY <1>17, StoreNames DEF Mirror!Watch, Mirror!TypeOK, Mirror!Reason
<1>18. CASE Mirror!Scan
  BY <1>18, StoreNames DEF Mirror!Scan, Mirror!TypeOK, Mirror!Reason
<1>19. ASSUME NEW moved \in BOOLEAN, Mirror!Restart(moved) PROVE Mirror!TypeOK'
  BY <1>19, RestartType
<1>. QED
  BY <1>1, <1>2, <1>3, <1>4, <1>5, <1>6, <1>7, <1>8, <1>9, <1>10, <1>11, <1>12, <1>13, <1>14,
     <1>15, <1>16, <1>17, <1>18, <1>19 DEF Mirror!Next

-----------------------------------------------------------------------------
(* What was answered stays. *)

LEMMA RecordTwice ==
  /\ \A f, x : Mirror!Record(f, Mirror!Record(f, x)) = Mirror!Record(f, x)
  /\ backend = "git" => \A f, x : Mirror!Record(f, x) = x
BY StoreNames DEF Mirror!Record

Answered == Answers /\ Mirror!AnsweredStays

\* Something is put in the place of a file, and nothing else is touched that counts here.
LEMMA AnsweredPut ==
  ASSUME Mirror!TypeOK, Answered, NEW f \in Mirror!Name, NEW x \in Mirror!State,
         Mirror!Put(f, x), x = Missing => f \in Credential,
         f \in Credential => answered'[f] = "open",
         \A g \in Credential \ {f} : answered'[g] = answered[g],
         UNCHANGED <<backend, remote, tree>>,
         \/ busy' = busy
         \/ busy'.file = f
         \/ busy'.step \notin {"write", "send"}
  PROVE  Answered'
<1>1. local'[f] = x /\ \A g \in Mirror!Name \ {f} : local'[g] = local[g]
  BY PutType
<1>2. \A g, u : Mirror!Record(g, u)' = Mirror!Record(g, u)
  BY DEF Mirror!Record
<1>. QED
  BY <1>1, <1>2, StoreNames DEF Answered, Answers, Mirror!AnsweredStays, Mirror!Record

\* Neither the files nor what is kept outside change.
LEMMA AnsweredFrame ==
  ASSUME Answered, UNCHANGED <<backend, local, remote, tree, answered>>,
         busy' = busy \/ busy'.step = "read"
  PROVE  Answered'
BY DEF Answered, Answers, Mirror!AnsweredStays, Mirror!Record

LEMMA AnsweredRead ==
  ASSUME Mirror!TypeOK, Answered, Mirror!Read
  PROVE  Answered'
<1>. DEFINE f == busy.file
            s == local[f]
<1>1. busy \in Mirror!Critical /\ f \in Mirror!Name /\ busy.step = "read"
  BY BusyKinds DEF Mirror!Read, Mirror!TypeOK
<1>2. /\ UNCHANGED <<backend, local, remote, answered>>
      /\ tree' = IF backend = "git" THEN [tree EXCEPT ![f] = s] ELSE tree
      /\ busy' = Mirror!Free \/ busy' = [busy EXCEPT !.step = "send", !.data = s]
  BY DEF Mirror!Read
<1>3. busy'.step \notin {"write", "send"} \/ (busy'.file = f /\ busy'.data = s /\ busy'.step = "send")
  <2>1. ASSUME NEW x PROVE LET u == [busy EXCEPT !.step = "send", !.data = x]
                           IN  u.file = busy.file /\ u.data = x /\ u.step = "send"
    BY <1>1 DEF Mirror!Critical
  <2>. HIDE DEF s
  <2>2. CASE busy' = Mirror!Free
    BY <2>2, BusyKinds
  <2>3. CASE busy' = [busy EXCEPT !.step = "send", !.data = s]
    BY <2>1, <2>3
  <2>. QED
    BY <1>2, <2>2, <2>3
<1>4. Mirror!AnsweredStays'
  BY <1>2 DEF Answered, Mirror!AnsweredStays, Mirror!Record
<1>5. backend = "git" => \A g \in Credential : answered[g] # "open" => tree'[g] = answered[g]
  <2>1. SUFFICES ASSUME backend = "git", NEW g \in Credential, answered[g] # "open"
                 PROVE  tree'[g] = answered[g]
    OBVIOUS
  <2>2. local[g] = answered[g] /\ tree[g] = answered[g]
    BY <2>1, RecordTwice DEF Answered, Answers, Mirror!AnsweredStays
  <2>. QED
    BY <1>2, <2>1, <2>2, StoreNames DEF Mirror!TypeOK
<1>. QED
  BY <1>2, <1>3, <1>4, <1>5 DEF Answered, Answers

LEMMA AnsweredSend ==
  ASSUME Mirror!TypeOK, Answered, TreeKept, NEW outcome \in {"done", "lost", "unsure"},
         Mirror!Send(outcome)
  PROVE  Answered'
<1>. DEFINE f == busy.file
<1>1. /\ busy \in Mirror!Critical /\ f \in Mirror!Name /\ busy.step = "send"
      /\ busy.data \in Mirror!State
  BY BusyKinds DEF Mirror!Send, Mirror!TypeOK
<1>2. /\ UNCHANGED <<backend, local, tree>> /\ busy' = Mirror!Free
      /\ remote' = CASE outcome = "lost" -> remote
                     [] outcome # "lost" /\ backend = "git" -> tree
                     [] OTHER            -> [remote EXCEPT ![f] = Mirror!Record(f, busy.data)]
      /\ answered' = IF outcome = "done" /\ busy.by # "task" /\ local[f] = busy.data
                     THEN [answered EXCEPT ![f] = busy.data] ELSE answered
  BY DEF Mirror!Send
<1>. HIDE DEF f
<1>3. \A g \in Credential : answered'[g] = answered[g]
                            \/ (g = f /\ answered'[g] = busy.data /\ local[g] = busy.data
                                /\ outcome = "done")
  BY <1>2 DEF Mirror!TypeOK
<1>4. \A g \in Credential : answered[g] # "open" =>
        /\ remote[g] = Mirror!Record(g, answered[g])
        /\ Mirror!Record(g, local[g]) = Mirror!Record(g, answered[g])
        /\ (g = f => busy.data = local[g]) /\ (backend = "git" => tree[g] = answered[g])
  BY <1>1 DEF Answered, Answers, Mirror!AnsweredStays, f
<1>5. backend = "git" => tree[f] = busy.data
  BY <1>1 DEF TreeKept, f
<1>6. \A g \in Credential : answered'[g] # "open" =>
        /\ remote'[g] = Mirror!Record(g, answered'[g])
        /\ Mirror!Record(g, local[g]) = Mirror!Record(g, answered'[g])
        /\ (backend = "git" => tree[g] = answered'[g])
  <2>1. SUFFICES ASSUME NEW g \in Credential, answered'[g] # "open"
                 PROVE  /\ remote'[g] = Mirror!Record(g, answered'[g])
                        /\ Mirror!Record(g, local[g]) = Mirror!Record(g, answered'[g])
                        /\ (backend = "git" => tree[g] = answered'[g])
    OBVIOUS
  <2>2. CASE g = f /\ answered'[g] = busy.data /\ local[g] = busy.data /\ outcome = "done"
    <3>1. CASE backend = "git"
      BY <1>2, <1>5, <2>2, <3>1, RecordTwice
    <3>2. CASE backend # "git"
      <4>1. remote' = [remote EXCEPT ![f] = Mirror!Record(f, busy.data)]
        BY <1>2, <2>2, <3>2
      <4>2. remote'[f] = Mirror!Record(f, busy.data)
        BY <1>1, <4>1 DEF Mirror!TypeOK
      <4>. QED
        BY <2>2, <3>2, <4>2
    <3>. QED
      BY <3>1, <3>2
  <2>3. CASE answered'[g] = answered[g]
    <3>1. CASE outcome = "lost"
      BY <1>2, <1>4, <2>1, <2>3, <3>1
    <3>2. CASE outcome # "lost" /\ backend = "git"
      BY <1>2, <1>4, <2>1, <2>3, <3>2, RecordTwice
    <3>3. CASE outcome # "lost" /\ backend # "git"
      <4>1. remote' = [remote EXCEPT ![f] = Mirror!Record(f, busy.data)]
        BY <1>2, <3>3
      <4>2. remote'[g] = IF g = f THEN Mirror!Record(f, busy.data) ELSE remote[g]
        BY <1>1, <4>1, StoreNames DEF Mirror!TypeOK, f
      <4>. QED
        BY <1>4, <2>1, <2>3, <3>3, <4>2
    <3>. QED
      BY <3>1, <3>2, <3>3
  <2>. QED
    BY <1>3, <2>2, <2>3
<1>7. Mirror!AnsweredStays'
  BY <1>2, <1>6 DEF Mirror!AnsweredStays, Mirror!Record
<1>. QED
  BY <1>2, <1>6, <1>7, BusyKinds DEF Answered, Answers

LEMMA AnsweredRestart ==
  ASSUME Mirror!TypeOK, Answered, NEW moved \in BOOLEAN, Mirror!Restart(moved)
  PROVE  Answered'
<1>1. busy' = Mirror!Free /\ UNCHANGED <<backend, answered>>
  BY DEF Mirror!Restart
<1>2. CASE backend = "git" /\ ~moved
  <2>1. UNCHANGED <<local, remote, tree>>
    BY <1>2 DEF Mirror!Restart, Mirror!FromRepository
  <2>. QED
    BY <1>1, <2>1, BusyKinds DEF Answered, Answers, Mirror!AnsweredStays, Mirror!Record
<1>3. CASE backend = "git" /\ moved
  <2>1. local' = remote /\ tree' = remote /\ remote' = remote
    BY <1>3 DEF Mirror!Restart, Mirror!FromRepository
  <2>2. \A f \in Credential : answered[f] # "open" => remote[f] = answered[f]
    BY <1>3, RecordTwice DEF Answered, Mirror!AnsweredStays
  <2>. QED
    BY <1>1, <1>3, <2>1, <2>2, BusyKinds DEF Answered, Answers, Mirror!AnsweredStays, Mirror!Record
<1>4. CASE backend # "git"
  <2>1. PICK there : Mirror!FromRecords(there)
    BY <1>4 DEF Mirror!Restart
  <2>2. \A f \in Credential : local'[f] = remote[f] /\ remote'[f] = remote[f]
    BY <2>1, StoreNames DEF Mirror!FromRecords, Mirror!TypeOK
  <2>3. \A f \in Credential : answered[f] # "open" =>
          /\ remote[f] = Mirror!Record(f, answered[f])
          /\ Mirror!Record(f, remote[f]) = Mirror!Record(f, answered[f])
    BY RecordTwice DEF Answered, Mirror!AnsweredStays
  <2>4. Mirror!AnsweredStays'
    BY <1>1, <2>2, <2>3 DEF Mirror!AnsweredStays, Mirror!Record
  <2>. QED
    BY <1>1, <1>4, <2>4, BusyKinds DEF Answered, Answers
<1>. QED
  BY <1>2, <1>3, <1>4

-----------------------------------------------------------------------------
(* What git has committed. *)

LEMMA TreeFrame ==
  ASSUME TreeKept, UNCHANGED <<backend, remote, tree>>, excused \subseteq excused',
         backend = "git" => busy' = busy \/ (busy.step # "send" /\ busy'.step # "send")
  PROVE  TreeKept'
BY DEF TreeKept, Excused

LEMMA TreeRead ==
  ASSUME Mirror!TypeOK, TreeKept, Mirror!Read
  PROVE  TreeKept'
<1>. DEFINE f == busy.file
            s == local[f]
<1>1. /\ busy \in Mirror!Critical /\ f \in Mirror!Name /\ busy.step = "read"
  BY BusyKinds DEF Mirror!Read, Mirror!TypeOK
<1>. SUFFICES ASSUME backend = "git" PROVE TreeKept'
  BY DEF Mirror!Read, TreeKept
<1>2. /\ UNCHANGED <<backend, remote, excused>> /\ tree' = [tree EXCEPT ![f] = s]
      /\ busy' = IF tree[f] = s THEN Mirror!Free ELSE [busy EXCEPT !.step = "send", !.data = s]
  BY <1>1 DEF Mirror!Read
<1>3. tree'[f] = s /\ \A g \in Mirror!Name \ {f} : tree'[g] = tree[g]
  BY <1>1, <1>2 DEF Mirror!TypeOK
<1>4. \A g \in Mirror!Name : tree[g] = remote[g] \/ Excused(g)
  BY <1>1 DEF TreeKept
<1>5. \A x : LET u == [busy EXCEPT !.step = "send", !.data = x]
             IN  u.file = busy.file /\ u.data = x /\ u.step = "send"
  BY <1>1 DEF Mirror!Critical
<1>6. CASE tree[f] = s
  <2>1. busy'.step # "send" /\ \A g \in Mirror!Name : tree'[g] = tree[g]
    BY <1>2, <1>3, <1>6, BusyKinds
  <2>. QED
    BY <1>2, <1>4, <2>1 DEF TreeKept, Excused
<1>7. CASE tree[f] # s
  <2>. HIDE DEF s
  <2>1. busy'.step = "send" /\ busy'.file = f /\ busy'.data = s
    BY <1>2, <1>5, <1>7
  <2>. HIDE DEF f
  <2>. QED
    BY <1>2, <1>3, <1>4, <2>1 DEF TreeKept, Excused
<1>. QED
  BY <1>6, <1>7

LEMMA TreeSend ==
  ASSUME Mirror!TypeOK, TreeKept, NEW outcome \in {"done", "lost", "unsure"},
         Mirror!Send(outcome)
  PROVE  TreeKept'
<1>. SUFFICES ASSUME backend = "git" PROVE TreeKept'
  BY DEF Mirror!Send, TreeKept
<1>1. /\ UNCHANGED <<backend, tree>> /\ busy' = Mirror!Free
      /\ remote' = IF outcome = "lost" THEN remote ELSE tree
      /\ outcome = "lost" => Mirror!Failed
  BY DEF Mirror!Send
<1>2. CASE outcome = "lost"
  <2>1. \A g \in Mirror!Name : tree[g] # remote[g] => <<g, "failed">> \in excused'
    BY <1>1, <1>2 DEF Mirror!Failed
  <2>2. "failed" \in Mirror!Reason
    BY DEF Mirror!Reason
  <2>. QED
    BY <1>1, <1>2, <2>1, <2>2, BusyKinds DEF TreeKept, Excused
<1>3. CASE outcome # "lost"
  BY <1>1, <1>3, BusyKinds DEF TreeKept
<1>. QED
  BY <1>2, <1>3

LEMMA TreeRestart ==
  ASSUME TreeKept, NEW moved \in BOOLEAN, Mirror!Restart(moved)
  PROVE  TreeKept'
<1>. SUFFICES ASSUME backend = "git" PROVE TreeKept'
  BY DEF Mirror!Restart, TreeKept
<1>1. busy' = Mirror!Free /\ UNCHANGED <<backend, remote>> /\ Mirror!FromRepository(moved)
  BY DEF Mirror!Restart, Mirror!FromRepository
<1>2. CASE moved
  BY <1>1, <1>2, BusyKinds DEF TreeKept, Mirror!FromRepository
<1>3. CASE ~moved
  <2>1. tree' = tree /\ \A g \in Mirror!Name : tree[g] # remote[g] => <<g, "restart">> \in excused'
    BY <1>1, <1>3 DEF Mirror!FromRepository
  <2>2. "restart" \in Mirror!Reason
    BY DEF Mirror!Reason
  <2>. QED
    BY <1>1, <2>1, <2>2, BusyKinds DEF TreeKept, Excused
<1>. QED
  BY <1>2, <1>3

-----------------------------------------------------------------------------
(* What will be sent. *)

\* A file that is put is due, one way or another.
LEMMA FollowedPut ==
  ASSUME Mirror!TypeOK, Mirror!TypeOK', Followed, NEW f \in Mirror!Name, NEW x \in Mirror!State,
         Mirror!Put(f, x), x = Missing => f \in Credential,
         UNCHANGED <<backend, phase, remote, reload, tasks, excused>>,
         x = Partial => f \in writing' \/ (busy'.step = "write" /\ busy'.file = f),
         \A g \in Mirror!Name \ {f} : g \in writing => g \in writing',
         \/ busy' = busy
         \/ busy.file = f /\ busy'.file = f /\ busy'.step # "send"
         \/ busy = Mirror!Free /\ busy'.by # "task" /\ (busy'.file = f \/ busy'.step # "send")
  PROVE  Followed'
<1>1. /\ local'[f] = x /\ \A g \in Mirror!Name \ {f} : local'[g] = local[g]
      /\ unseen \subseteq unseen'
      /\ phase # "starting" => <<f, IF x = Missing THEN "remove" ELSE "write">> \in unseen'
  BY PutType
<1>2. Due(f)'
  <2>1. CASE x \in Payload
    BY <1>1, <2>1, StoreNames DEF Due
  <2>2. CASE x = Missing
    BY <1>1, <2>2 DEF Due
  <2>3. CASE x = Partial
    BY <1>1, <2>3 DEF Due
  <2>. QED
    BY <2>1, <2>2, <2>3, StoreNames
<1>3. ASSUME NEW g \in Mirror!Name \ {f}, Excused(g) PROVE Excused(g)'
  BY <1>3 DEF Excused
<1>4. ASSUME NEW g \in Mirror!Name \ {f}, Due(g) PROVE Due(g)'
  BY <1>1, <1>4, BusyKinds DEF Due
<1>5. ASSUME NEW g \in Mirror!Name \ {f}, Mirror!Settled(g) PROVE Mirror!Settled(g)'
  <2>1. Mirror!Mirrored(g)'
    BY <1>1, <1>5 DEF Mirror!Settled, Mirror!Mirrored, Mirror!Record
  <2>2. ~(busy.step = "send" /\ busy.file = g /\ busy.data # local[g])
    BY <1>5 DEF Mirror!Settled
  <2>3. ~(busy'.step = "send" /\ busy'.file = g /\ busy'.data # local'[g])
    BY <1>1, <2>2
  <2>. QED
    BY <2>1, <2>3 DEF Mirror!Settled
<1>. QED
  BY <1>2, <1>3, <1>4, <1>5 DEF Followed

\* What is settled, excused or due stays so but for the one file that is handled.
LEMMA FollowedFrame ==
  ASSUME Followed, UNCHANGED <<backend, phase, local, remote, writing>>,
         excused \subseteq excused', NEW S,
         \A g \in S : Mirror!Settled(g)' \/ Excused(g)' \/ Due(g)',
         reload' = reload \/ ConfigFile \in S,
         \A g \in Mirror!Name \ S : /\ tasks[g] > 0 => tasks'[g] > 0
                                    /\ <<g, "write">> \in unseen => <<g, "write">> \in unseen'
                                    /\ <<g, "remove">> \in unseen => <<g, "remove">> \in unseen',
         \/ busy' = busy
         \/ busy.by # "task" /\ busy.step \notin {"write", "send"}
            /\ (busy'.step # "send" \/ busy'.data = local[busy'.file])
  PROVE  Followed'
<1>1. ASSUME NEW g \in Mirror!Name \ S, Excused(g) PROVE Excused(g)'
  BY <1>1 DEF Excused
<1>2. ASSUME NEW g \in Mirror!Name \ S, Due(g) PROVE Due(g)'
  BY <1>2 DEF Due
<1>3. ASSUME NEW g \in Mirror!Name \ S, Mirror!Settled(g) PROVE Mirror!Settled(g)'
  BY <1>3 DEF Mirror!Settled, Mirror!Mirrored, Mirror!Record
<1>. QED
  BY <1>1, <1>2, <1>3 DEF Followed

LEMMA FollowedRead ==
  ASSUME Mirror!TypeOK, TreeKept, Followed, Mirror!Read
  PROVE  Followed'
<1>. DEFINE f == busy.file
            s == local[f]
<1>1. /\ busy \in Mirror!Critical /\ f \in Mirror!Name /\ busy.step = "read"
  BY BusyKinds DEF Mirror!Read, Mirror!TypeOK
<1>2. /\ UNCHANGED <<backend, phase, local, remote, unseen, reload, tasks, writing, excused>>
      /\ \/ busy' = Mirror!Free /\ (busy.by = "task" => backend = "git" /\ tree[f] = s)
         \/ busy' = [busy EXCEPT !.step = "send", !.data = s]
  BY DEF Mirror!Read
<1>3. \A x : LET u == [busy EXCEPT !.step = "send", !.data = x]
             IN  u.file = busy.file /\ u.data = x /\ u.step = "send" /\ u.by = busy.by
  BY <1>1 DEF Mirror!Critical
<1>. HIDE DEF s
<1>4. \/ busy'.step = "none" /\ busy'.by = "nobody" /\ (busy.by = "task" => backend = "git" /\ tree[f] = s)
      \/ busy'.step = "send" /\ busy'.file = f /\ busy'.data = s /\ busy'.by = busy.by
  BY <1>2, <1>3, BusyKinds
<1>5. s = local[f]
  BY DEF s
<1>6. ASSUME NEW g \in Mirror!Name, Excused(g) PROVE Excused(g)'
  BY <1>2, <1>6 DEF Excused
<1>7. ASSUME NEW g \in Mirror!Name, Mirror!Mirrored(g) PROVE Mirror!Settled(g)'
  BY <1>2, <1>4, <1>5, <1>7 DEF Mirror!Settled, Mirror!Mirrored, Mirror!Record
<1>8. ASSUME NEW g \in Mirror!Name, Due(g)
      PROVE  Due(g)' \/ (g = f /\ backend = "git" /\ tree[f] = local[f])
  BY <1>1, <1>2, <1>4, <1>5, <1>8 DEF Due
<1>9. ASSUME backend = "git", tree[f] = local[f] PROVE Mirror!Mirrored(f) \/ Excused(f)
  BY <1>1, <1>9, RecordTwice DEF TreeKept, Mirror!Mirrored
<1>. QED
  BY <1>6, <1>7, <1>8, <1>9 DEF Followed, Mirror!Settled

LEMMA FollowedSend ==
  ASSUME Mirror!TypeOK, TreeKept, Followed, NEW outcome \in {"done", "lost", "unsure"},
         Mirror!Send(outcome)
  PROVE  Followed'
<1>1. busy \in Mirror!Critical
  BY BusyKinds DEF Mirror!Send, Mirror!TypeOK
<1>2. PICK f \in Mirror!Name : f = busy.file
  BY <1>1, BusyKinds
<1>3. f = busy.file /\ f \in Mirror!Name /\ busy.step = "send" /\ busy.data \in Mirror!State
  BY <1>1, <1>2, BusyKinds DEF Mirror!Send
<1>4. /\ UNCHANGED <<backend, phase, local, tree, unseen, reload, tasks, writing>>
      /\ busy' = Mirror!Free /\ busy'.step = "none" /\ busy'.by = "nobody"
      /\ outcome = "lost" => remote' = remote
      /\ outcome # "lost" /\ backend = "git" => remote' = tree
      /\ outcome # "lost" /\ backend # "git" =>
           remote' = [remote EXCEPT ![f] = Mirror!Record(f, busy.data)]
      /\ IF outcome = "done" THEN Mirror!Sent ELSE Mirror!Failed
  BY <1>3, BusyKinds DEF Mirror!Send
<1>5. \A g \in Mirror!Name : \/ outcome # "lost" /\ backend = "git" /\ remote'[g] = tree[g]
                             \/ outcome # "lost" /\ backend # "git" /\ g = f
                                /\ remote'[g] = Mirror!Record(f, busy.data)
                             \/ (outcome = "lost" \/ (backend # "git" /\ g # f)) /\ remote'[g] = remote[g]
  BY <1>3, <1>4 DEF Mirror!TypeOK
<1>6. \A g : Mirror!Settled(g)' <=> remote'[g] = Mirror!Record(g, local[g])
  BY <1>4 DEF Mirror!Settled, Mirror!Mirrored, Mirror!Record
<1>7. ASSUME NEW g \in Mirror!Name, Excused(g) PROVE Excused(g)' \/ Mirror!Settled(g)'
  <2>1. PICK r \in Mirror!Reason : <<g, r>> \in excused
    BY <1>7 DEF Excused
  <2>2. CASE outcome = "done"
    <3>1. excused' = {x \in excused : remote'[x[1]] # Mirror!Record(x[1], local[x[1]])}
      BY <1>4, <2>2 DEF Mirror!Sent
    <3>2. <<g, r>> \in excused' \/ remote'[g] = Mirror!Record(g, local[g])
      BY <2>1, <3>1
    <3>. QED
      BY <1>6, <3>2 DEF Excused
  <2>3. CASE outcome # "done"
    BY <1>4, <2>1, <2>3 DEF Mirror!Failed, Excused
  <2>. QED
    BY <2>2, <2>3
<1>8. ASSUME busy.data = local[f], outcome # "lost" PROVE Mirror!Settled(f)'
  <2>1. backend = "git" => tree[f] = busy.data
    BY <1>3 DEF TreeKept
  <2>. QED
    BY <1>3, <1>5, <1>6, <1>8, <2>1, RecordTwice
<1>9. ASSUME NEW g \in Mirror!Name, Mirror!Settled(g) PROVE Mirror!Settled(g)' \/ Excused(g)'
  <2>1. remote[g] = Mirror!Record(g, local[g]) /\ (g = f => busy.data = local[g])
    BY <1>3, <1>9 DEF Mirror!Settled, Mirror!Mirrored
  <2>2. CASE g = f /\ outcome # "lost"
    BY <1>8, <2>1, <2>2
  <2>3. CASE g # f /\ outcome # "lost" /\ backend = "git"
    <3>1. tree[g] = remote[g] \/ Excused(g)
      BY <1>3, <2>3 DEF TreeKept
    <3>. QED
      BY <1>5, <1>6, <1>7, <2>1, <2>3, <3>1
  <2>4. CASE outcome = "lost" \/ (g # f /\ backend # "git")
    BY <1>5, <1>6, <2>1, <2>4
  <2>. QED
    BY <2>2, <2>3, <2>4
<1>10. ASSUME NEW g \in Mirror!Name, Due(g)
      PROVE  Due(g)' \/ (g = f /\ busy.by = "task" /\ busy.data = local[f])
  BY <1>3, <1>4, <1>10 DEF Due
<1>11. ASSUME busy.by = "task", busy.data = local[f], outcome = "lost"
      PROVE  Mirror!Settled(f)' \/ Excused(f)'
  <2>1. excused \cup {<<x, "failed">> : x \in IF backend = "git" THEN {g \in Mirror!Name : tree[g] # remote'[g]}
                                              ELSE {f}} \subseteq excused'
    BY <1>3, <1>4, <1>11 DEF Mirror!Failed
  <2>2. "failed" \in Mirror!Reason
    BY DEF Mirror!Reason
  <2>3. CASE backend # "git"
    BY <1>3, <2>1, <2>2, <2>3 DEF Excused
  <2>4. CASE backend = "git" /\ tree[f] # remote'[f]
    BY <1>3, <2>1, <2>2, <2>4 DEF Excused
  <2>5. CASE backend = "git" /\ tree[f] = remote'[f]
    <3>1. tree[f] = busy.data
      BY <1>3, <2>5 DEF TreeKept
    <3>. QED
      BY <1>6, <1>11, <2>5, <3>1, RecordTwice
  <2>. QED
    BY <2>3, <2>4, <2>5
<1>12. ASSUME NEW g \in Mirror!Name PROVE Mirror!Settled(g)' \/ Excused(g)' \/ Due(g)'
  <2>1. CASE Mirror!Settled(g)
    BY <1>9, <2>1
  <2>2. CASE Excused(g)
    BY <1>7, <2>2
  <2>3. CASE Due(g)
    BY <1>8, <1>10, <1>11, <2>3
  <2>. QED
    BY <2>1, <2>2, <2>3 DEF Followed
<1>. QED
  BY <1>12 DEF Followed

\* An event of a file is looked at: it is sent, passed over, or was of no use.
LEMMA FollowedUpdate ==
  ASSUME Mirror!TypeOK, Mirror!TypeOK', Followed, NEW f \in Mirror!Name,
         UNCHANGED <<backend, phase, local, remote, busy, writing, reload>>,
         excused \subseteq excused', \A g \in Mirror!Name : tasks'[g] >= tasks[g],
         \A g \in Mirror!Name \ {f} : /\ <<g, "write">> \in unseen => <<g, "write">> \in unseen'
                                      /\ <<g, "remove">> \in unseen => <<g, "remove">> \in unseen',
         local[f] \in Payload => Mirror!Settled(f) \/ Excused(f)' \/ tasks'[f] > 0,
         local[f] = Missing => Mirror!Settled(f) \/ Excused(f)' \/ tasks'[f] > 0
                               \/ (<<f, "remove">> \in unseen => <<f, "remove">> \in unseen')
  PROVE  Followed'
<1>1. \A g \in Mirror!Name : tasks[g] > 0 => tasks'[g] > 0
  <2>1. \A g \in Mirror!Name : tasks[g] \in Nat /\ tasks'[g] \in Nat
    BY StoreNames DEF Mirror!TypeOK
  <2>. QED
    BY <2>1
<1>2. Mirror!Settled(f) => Mirror!Settled(f)'
  BY DEF Mirror!Settled, Mirror!Mirrored, Mirror!Record
<1>3. Excused(f) => Excused(f)'
  BY DEF Excused
<1>4. ASSUME Due(f) PROVE Mirror!Settled(f) \/ Excused(f)' \/ Due(f)'
  BY <1>1, <1>4, StoreNames DEF Due
<1>5. Mirror!Settled(f)' \/ Excused(f)' \/ Due(f)'
  BY <1>2, <1>3, <1>4 DEF Followed
<1>. DEFINE S == {f}
<1>6. /\ \A g \in S : Mirror!Settled(g)' \/ Excused(g)' \/ Due(g)'
      /\ \A g \in Mirror!Name \ S : /\ tasks[g] > 0 => tasks'[g] > 0
                                    /\ <<g, "write">> \in unseen => <<g, "write">> \in unseen'
                                    /\ <<g, "remove">> \in unseen => <<g, "remove">> \in unseen'
  BY <1>1, <1>5
<1>. HIDE DEF S
<1>. QED
  BY <1>6, FollowedFrame

LEMMA FollowedStep ==
  ASSUME Mirror!TypeOK, Mirror!TypeOK', TreeKept, Followed, Written, Mirror!Next
  PROVE  Followed'
<1>0. \A f \in Credential : f \in Mirror!Name /\ f # ConfigFile
  BY StoreNames
<1>1. ASSUME NEW f \in Mirror!Name, Mirror!BeginWrite(f) PROVE Followed'
  BY <1>1, FollowedPut, StoreNames DEF Mirror!BeginWrite
<1>2. ASSUME NEW f \in Mirror!Name, NEW c \in Payload, Mirror!EndWrite(f, c) PROVE Followed'
  <2>1. c \in Mirror!State /\ c # Missing /\ c # Partial
    BY StoreNames
  <2>. QED
    BY <1>2, <2>1, FollowedPut DEF Mirror!EndWrite
<1>3. ASSUME NEW f \in Mirror!Name, Mirror!BeginTask(f) PROVE Followed'
  <2>. DEFINE S == {f}
  <2>1. /\ busy = Mirror!Free /\ busy'.by = "task" /\ busy'.file = f /\ busy'.step = "read"
        /\ UNCHANGED <<backend, phase, local, remote, unseen, reload, writing, excused>>
        /\ tasks' = [tasks EXCEPT ![f] = @ - 1]
    BY <1>3 DEF Mirror!BeginTask
  <2>2. \A g \in S : Mirror!Settled(g)' \/ Excused(g)' \/ Due(g)'
    BY <2>1 DEF Due
  <2>3. \A g \in Mirror!Name \ S : tasks'[g] = tasks[g]
    BY <2>1 DEF Mirror!TypeOK
  <2>. HIDE DEF S
  <2>. QED
    BY <2>1, <2>2, <2>3, FollowedFrame, BusyKinds
<1>4. ASSUME NEW f \in Mirror!Name, Mirror!PullFails(f) PROVE Followed'
  <2>1. UNCHANGED <<backend, phase, local, remote, unseen, reload, busy, writing>>
    BY <1>4 DEF Mirror!PullFails
  <2>2. CASE UNCHANGED <<tasks, excused>>
    <3>. DEFINE S == {}
    <3>1. \A g \in S : Mirror!Settled(g)' \/ Excused(g)' \/ Due(g)'
      OBVIOUS
    <3>. HIDE DEF S
    <3>. QED
      BY <2>1, <2>2, <3>1, FollowedFrame
  <2>3. CASE tasks' = [tasks EXCEPT ![f] = @ - 1] /\ excused' = excused \cup {<<f, "failed">>}
    <3>. DEFINE S == {f}
    <3>1. \A g \in S : Mirror!Settled(g)' \/ Excused(g)' \/ Due(g)'
      BY <2>3 DEF Excused, Mirror!Reason
    <3>2. \A g \in Mirror!Name \ S : tasks'[g] = tasks[g]
      BY <2>3 DEF Mirror!TypeOK
    <3>. HIDE DEF S
    <3>. QED
      BY <2>1, <2>3, <3>1, <3>2, FollowedFrame
  <2>. QED
    BY <1>4, <2>2, <2>3 DEF Mirror!PullFails
<1>5. ASSUME NEW f \in Credential, NEW request \in BOOLEAN, Mirror!Remove(f, request)
      PROVE  Followed'
  <2>1. Missing \in Mirror!State /\ Missing # Partial
    BY StoreNames
  <2>2. Mirror!Put(f, Missing) /\ UNCHANGED <<backend, phase, remote, reload, tasks, excused>>
        /\ writing' = writing \ {f}
    BY <1>5 DEF Mirror!Remove, Mirror!Detached
  <2>3. busy' = busy \/ (busy.file = f /\ busy'.file = f /\ busy'.step # "send")
    <3>1. CASE busy.step = "write" /\ busy.file = f
      <4>1. busy \in Mirror!Critical /\ busy' = [busy EXCEPT !.step = "read"]
        BY <1>5, <3>1, BusyKinds DEF Mirror!Remove, Mirror!TypeOK
      <4>2. busy'.file = busy.file /\ busy'.step = "read"
        BY <4>1 DEF Mirror!Critical
      <4>. QED
        BY <3>1, <4>2
    <3>2. CASE ~(busy.step = "write" /\ busy.file = f)
      BY <1>5, <3>2 DEF Mirror!Remove
    <3>. QED
      BY <3>1, <3>2
  <2>. QED
    BY <1>0, <2>1, <2>2, <2>3, FollowedPut
<1>6. ASSUME NEW f \in Credential, NEW c \in Payload, Mirror!SaveMetadata(f, c) PROVE Followed'
  <2>1. c \in Mirror!State /\ c # Missing /\ c # Partial
    BY StoreNames
  <2>2. Mirror!Put(f, c) /\ UNCHANGED <<backend, phase, remote, reload, tasks, excused>>
        /\ writing' = writing \ {f} /\ busy = Mirror!Free
        /\ busy'.by = "save" /\ busy'.file = f /\ busy'.step = "read"
    BY <1>6 DEF Mirror!SaveMetadata, Mirror!Detached
  <2>. QED
    BY <1>0, <2>1, <2>2, FollowedPut
<1>7. ASSUME NEW f \in Credential, NEW c \in Payload, Mirror!SaveToken(f, c) PROVE Followed'
  <2>1. Partial \in Mirror!State /\ Missing # Partial
    BY StoreNames
  <2>2. Mirror!Put(f, Partial) /\ UNCHANGED <<backend, phase, remote, reload, tasks, excused, writing>>
        /\ busy = Mirror!Free /\ busy'.by = "save" /\ busy'.file = f /\ busy'.step = "write"
    BY <1>7 DEF Mirror!SaveToken
  <2>. QED
    BY <1>0, <2>1, <2>2, FollowedPut
<1>8. ASSUME NEW f \in Credential, Mirror!Delete(f) PROVE Followed'
  <2>1. Missing \in Mirror!State /\ Missing # Partial
    BY StoreNames
  <2>2. /\ UNCHANGED <<backend, phase, remote, reload, tasks, excused>> /\ busy = Mirror!Free
        /\ \/ busy'.by = "delete" /\ busy'.file = f /\ busy'.data = Missing
           \/ busy' = Mirror!Free
    BY <1>8 DEF Mirror!Delete
  <2>3. CASE local[f] # Missing
    <3>1. Mirror!Put(f, Missing) /\ writing' = writing \ {f}
      BY <1>8, <2>3 DEF Mirror!Delete, Mirror!Detached
    <3>. QED
      BY <1>0, <2>1, <2>2, <3>1, FollowedPut
  <2>4. CASE local[f] = Missing
    <3>. DEFINE S == {}
    <3>1. \A g \in S : Mirror!Settled(g)' \/ Excused(g)' \/ Due(g)'
      OBVIOUS
    <3>2. UNCHANGED <<local, unseen, writing>>
      BY <1>8, <2>4 DEF Mirror!Delete
    <3>3. busy' = busy \/ busy'.data = local[busy'.file]
      BY <2>2, <2>4
    <3>. HIDE DEF S
    <3>. QED
      BY <2>2, <3>1, <3>2, <3>3, FollowedFrame, BusyKinds
  <2>. QED
    BY <2>3, <2>4
<1>9. ASSUME NEW f \in Credential, Mirror!HandleWrite(f) PROVE Followed'
  <2>1. Mirror!Update(f) /\ unseen' = unseen \ {<<f, "write">>}
        /\ UNCHANGED <<backend, phase, local, remote, busy, writing, reload>>
    BY <1>9 DEF Mirror!HandleWrite
  <2>2. /\ \A g \in Mirror!Name : tasks'[g] >= tasks[g]
        /\ excused \subseteq excused'
        /\ local[f] \in Payload => Mirror!Settled(f) \/ Excused(f)' \/ tasks'[f] > 0
    BY <1>0, <2>1, UpdateType
  <2>3. /\ <<f, "remove">> \in unseen => <<f, "remove">> \in unseen'
        /\ \A g \in Mirror!Name \ {f} : /\ <<g, "write">> \in unseen => <<g, "write">> \in unseen'
                                        /\ <<g, "remove">> \in unseen => <<g, "remove">> \in unseen'
    BY <2>1
  <2>. QED
    BY <1>0, <2>1, <2>2, <2>3, FollowedUpdate
<1>10. ASSUME NEW f \in Credential, Mirror!HandleRemove(f) PROVE Followed'
  <2>1. unseen' = unseen \ {<<f, "remove">>}
        /\ UNCHANGED <<backend, phase, local, remote, busy, writing, reload>>
    BY <1>10 DEF Mirror!HandleRemove
  <2>2. /\ \A g \in Mirror!Name : tasks'[g] >= tasks[g]
        /\ excused \subseteq excused'
        /\ local[f] \in Payload \cup {Missing} => Mirror!Settled(f) \/ Excused(f)' \/ tasks'[f] > 0
    <3>1. CASE f \in window
      <4>1. Mirror!PassOver(f, "debounced") /\ "debounced" \in Mirror!Reason
        BY <1>10, <3>1 DEF Mirror!HandleRemove, Mirror!Reason
      <4>2. excused \subseteq excused' /\ UNCHANGED tasks
            /\ (Mirror!Settled(f) \/ <<f, "debounced">> \in excused')
        BY <1>0, <4>1, PassOverType
      <4>. QED
        BY <4>1, <4>2, StoreNames DEF Excused, Mirror!TypeOK
    <3>2. CASE f \notin window /\ local[f] = Missing
      <4>1. Mirror!Forget(f)
        BY <1>10, <3>2 DEF Mirror!HandleRemove
      <4>. QED
        BY <1>0, <4>1, ForgetType
    <3>3. CASE f \notin window /\ local[f] # Missing
      <4>1. Mirror!Update(f)
        BY <1>10, <3>3 DEF Mirror!HandleRemove
      <4>. QED
        BY <1>0, <3>3, <4>1, UpdateType
    <3>. QED
      BY <3>1, <3>2, <3>3
  <2>3. \A g \in Mirror!Name \ {f} : /\ <<g, "write">> \in unseen => <<g, "write">> \in unseen'
                                     /\ <<g, "remove">> \in unseen => <<g, "remove">> \in unseen'
    BY <2>1
  <2>. QED
    BY <1>0, <2>1, <2>2, <2>3, FollowedUpdate
<1>11. ASSUME NEW f \in Credential, Mirror!WindowEnds(f) PROVE Followed'
  BY <1>11 DEF Mirror!WindowEnds, Followed, Due, Excused, Mirror!Settled, Mirror!Mirrored,
               Mirror!Record
<1>12. CASE Mirror!WriteToken
  <2>1. busy \in Mirror!Critical /\ busy.step = "write" /\ busy.data \in Payload
    BY <1>12, BusyKinds DEF Mirror!WriteToken, Mirror!TypeOK, Written
  <2>2. PICK f \in Mirror!Name : f = busy.file
    BY <2>1, BusyKinds
  <2>3. PICK x \in Mirror!State : x = busy.data /\ x # Missing /\ x # Partial
    BY <2>1, StoreNames
  <2>4. Mirror!Put(f, x) /\ UNCHANGED <<backend, phase, remote, reload, tasks, excused, writing>>
        /\ busy' = [busy EXCEPT !.step = "read"]
    BY <1>12, <2>2, <2>3 DEF Mirror!WriteToken, Mirror!Put
  <2>5. busy'.file = f /\ busy.file = f /\ busy'.step # "send"
    BY <2>1, <2>2, <2>4 DEF Mirror!Critical
  <2>. QED
    BY <2>3, <2>4, <2>5, FollowedPut
<1>13. CASE Mirror!Read
  BY <1>13, FollowedRead
<1>14. ASSUME NEW outcome \in {"done", "lost", "unsure"}, Mirror!Send(outcome) PROVE Followed'
  BY <1>14, FollowedSend
<1>15. CASE Mirror!BeginReload
  <2>1. unseen' = unseen \ {<<ConfigFile, "write">>} /\ reload = Missing
        /\ UNCHANGED <<backend, phase, local, remote, busy, writing>>
    BY <1>15 DEF Mirror!BeginReload
  <2>2. /\ <<ConfigFile, "remove">> \in unseen => <<ConfigFile, "remove">> \in unseen'
        /\ \A g \in Mirror!Name \ {ConfigFile} :
             /\ <<g, "write">> \in unseen => <<g, "write">> \in unseen'
             /\ <<g, "remove">> \in unseen => <<g, "remove">> \in unseen'
    BY <2>1
  <2>3. \A g \in Mirror!Name : tasks[g] >= tasks[g]
    BY StoreNames DEF Mirror!TypeOK
  <2>4. CASE local[ConfigFile] \in {Missing, Partial}
    <3>1. UNCHANGED <<known, tasks, excused, reload>>
      BY <1>15, <2>4 DEF Mirror!BeginReload
    <3>. QED
      BY <2>1, <2>2, <2>3, <2>4, <3>1, FollowedUpdate, StoreNames
  <2>5. CASE local[ConfigFile] \notin {Missing, Partial} /\ local[ConfigFile] = known[ConfigFile]
    <3>1. Mirror!PassOver(ConfigFile, "returned") /\ UNCHANGED reload /\ "returned" \in Mirror!Reason
      BY <1>15, <2>5 DEF Mirror!BeginReload, Mirror!Reason
    <3>2. excused \subseteq excused' /\ UNCHANGED tasks
          /\ (Mirror!Settled(ConfigFile) \/ <<ConfigFile, "returned">> \in excused')
      BY <3>1, PassOverType, StoreNames
    <3>3. Mirror!Settled(ConfigFile) \/ Excused(ConfigFile)'
      BY <3>1, <3>2 DEF Excused
    <3>. QED
      BY <2>1, <2>2, <2>3, <2>5, <3>1, <3>2, <3>3, FollowedUpdate, StoreNames
  <2>6. CASE local[ConfigFile] \notin {Missing, Partial} /\ local[ConfigFile] # known[ConfigFile]
    <3>. DEFINE S == {ConfigFile}
    <3>1. reload' = local[ConfigFile] /\ UNCHANGED <<tasks, excused>>
      BY <1>15, <2>6 DEF Mirror!BeginReload
    <3>2. \A g \in S : Mirror!Settled(g)' \/ Excused(g)' \/ Due(g)'
      BY <2>6, <3>1 DEF Due
    <3>3. \A g \in Mirror!Name \ S : /\ <<g, "write">> \in unseen => <<g, "write">> \in unseen'
                                     /\ <<g, "remove">> \in unseen => <<g, "remove">> \in unseen'
      BY <2>2
    <3>4. ConfigFile \in S
      OBVIOUS
    <3>. HIDE DEF S
    <3>. QED
      BY <2>1, <3>1, <3>2, <3>3, <3>4, FollowedFrame
  <2>. QED
    BY <2>4, <2>5, <2>6
<1>16. CASE Mirror!EndReload
  <2>. DEFINE S == {ConfigFile}
  <2>1. /\ UNCHANGED <<backend, phase, local, remote, unseen, busy, writing, excused>>
        /\ Mirror!Spawn(ConfigFile)
    BY <1>16 DEF Mirror!EndReload
  <2>2. tasks'[ConfigFile] > 0 /\ \A g \in Mirror!Name \ S : tasks'[g] = tasks[g]
    BY <2>1, SpawnType, StoreNames
  <2>3. \A g \in S : Mirror!Settled(g)' \/ Excused(g)' \/ Due(g)'
    BY <2>2 DEF Due
  <2>4. ConfigFile \in S
    OBVIOUS
  <2>. HIDE DEF S
  <2>. QED
    BY <2>1, <2>2, <2>3, <2>4, FollowedFrame
<1>17. CASE Mirror!Watch
  <2>1. /\ UNCHANGED <<backend, local, remote, unseen, reload, tasks, busy, writing>>
        /\ phase' = "watching" /\ excused \subseteq excused'
        /\ Mirror!Settled(ConfigFile) \/ <<ConfigFile, "start">> \in excused'
    BY <1>17 DEF Mirror!Watch
  <2>2. Mirror!Settled(ConfigFile) => Mirror!Settled(ConfigFile)'
    BY <2>1 DEF Mirror!Settled, Mirror!Mirrored, Mirror!Record
  <2>3. Mirror!Settled(ConfigFile)' \/ Excused(ConfigFile)'
    BY <2>1, <2>2 DEF Excused, Mirror!Reason
  <2>4. \A f \in Credential : Due(f)'
    BY <2>1 DEF Due
  <2>. QED
    BY <2>3, <2>4, StoreNames DEF Followed
<1>18. CASE Mirror!Scan
  <2>1. /\ UNCHANGED <<backend, local, remote, unseen, reload, tasks, busy, writing>>
        /\ phase = "watching" /\ excused \subseteq excused'
        /\ \A f \in Credential : Mirror!Settled(f) \/ <<f, "start">> \in excused'
    BY <1>18 DEF Mirror!Scan
  <2>2. \A f : Mirror!Settled(f) => Mirror!Settled(f)'
    BY <2>1 DEF Mirror!Settled, Mirror!Mirrored, Mirror!Record
  <2>3. \A f \in Credential : Mirror!Settled(f)' \/ Excused(f)'
    BY <2>1, <2>2 DEF Excused, Mirror!Reason
  <2>4. Mirror!Settled(ConfigFile)' \/ Excused(ConfigFile)' \/ Due(ConfigFile)'
    BY <2>1, <2>2, StoreNames DEF Followed, Excused, Due
  <2>. QED
    BY <2>3, <2>4, StoreNames DEF Followed
<1>19. ASSUME NEW moved \in BOOLEAN, Mirror!Restart(moved) PROVE Followed'
  BY <1>19 DEF Mirror!Restart, Followed, Due
<1>. QED
  BY <1>1, <1>2, <1>3, <1>4, <1>5, <1>6, <1>7, <1>8, <1>9, <1>10, <1>11, <1>12, <1>13, <1>14,
     <1>15, <1>16, <1>17, <1>18, <1>19 DEF Mirror!Next

-----------------------------------------------------------------------------

LEMMA WrittenStep ==
  ASSUME Mirror!TypeOK, Written, Mirror!Next
  PROVE  Written'
<1>1. CASE busy' = busy
  BY <1>1 DEF Written
<1>2. CASE busy'.step # "write"
  BY <1>2 DEF Written
<1>3. CASE busy'.data \in Payload
  BY <1>3 DEF Written
<1>4. \A u \in Mirror!Critical : [u EXCEPT !.step = "read"].step # "write"
                                 /\ \A x : [u EXCEPT !.step = "send", !.data = x].step # "write"
  BY DEF Mirror!Critical
<1>5. busy' = busy \/ busy'.step # "write" \/ busy'.data \in Payload
  <2>1. ASSUME NEW f \in Mirror!Name, Mirror!BeginWrite(f) \/ (\E c \in Payload : Mirror!EndWrite(f, c))
                                     \/ Mirror!PullFails(f)
        PROVE  busy' = busy
    BY <2>1 DEF Mirror!BeginWrite, Mirror!EndWrite, Mirror!PullFails
  <2>2. ASSUME NEW f \in Credential, Mirror!HandleWrite(f) \/ Mirror!HandleRemove(f)
                                     \/ Mirror!WindowEnds(f)
        PROVE  busy' = busy
    BY <2>2 DEF Mirror!HandleWrite, Mirror!HandleRemove, Mirror!WindowEnds
  <2>3. CASE Mirror!BeginReload \/ Mirror!EndReload \/ Mirror!Watch \/ Mirror!Scan
    BY <2>3 DEF Mirror!BeginReload, Mirror!EndReload, Mirror!Watch, Mirror!Scan
  <2>4. ASSUME NEW f \in Mirror!Name, Mirror!BeginTask(f) PROVE busy'.step # "write"
    BY <2>4 DEF Mirror!BeginTask
  <2>5. ASSUME NEW f \in Credential, NEW request \in BOOLEAN, Mirror!Remove(f, request)
        PROVE  busy' = busy \/ busy'.step # "write"
    BY <1>4, <2>5, BusyKinds DEF Mirror!Remove, Mirror!TypeOK
  <2>6. ASSUME NEW f \in Credential, NEW c \in Payload, Mirror!SaveMetadata(f, c)
        PROVE  busy'.step # "write"
    BY <2>6 DEF Mirror!SaveMetadata
  <2>7. ASSUME NEW f \in Credential, NEW c \in Payload, Mirror!SaveToken(f, c)
        PROVE  busy'.data \in Payload
    BY <2>7 DEF Mirror!SaveToken
  <2>8. ASSUME NEW f \in Credential, Mirror!Delete(f) PROVE busy'.step # "write"
    BY <2>8, BusyKinds DEF Mirror!Delete
  <2>9. CASE Mirror!WriteToken
    BY <1>4, <2>9, BusyKinds DEF Mirror!WriteToken, Mirror!TypeOK
  <2>10. CASE Mirror!Read
    BY <1>4, <2>10, BusyKinds DEF Mirror!Read, Mirror!TypeOK
  <2>11. ASSUME NEW outcome \in {"done", "lost", "unsure"}, Mirror!Send(outcome)
         PROVE  busy'.step # "write"
    BY <2>11, BusyKinds DEF Mirror!Send
  <2>12. ASSUME NEW moved \in BOOLEAN, Mirror!Restart(moved) PROVE busy'.step # "write"
    BY <2>12, BusyKinds DEF Mirror!Restart
  <2>. QED
    BY <2>1, <2>2, <2>3, <2>4, <2>5, <2>6, <2>7, <2>8, <2>9, <2>10, <2>11, <2>12 DEF Mirror!Next
<1>. QED
  BY <1>1, <1>2, <1>3, <1>5

LEMMA AnsweredStep ==
  ASSUME Mirror!TypeOK, Answered, TreeKept, Written, Mirror!Next
  PROVE  Answered'
<1>0. \A f \in Credential : f \in Mirror!Name
  BY StoreNames
<1>1. ASSUME NEW f \in Mirror!Name, NEW x \in Mirror!State, Mirror!Put(f, x),
             x = Missing => f \in Credential, Mirror!Overtaken(f),
             UNCHANGED <<backend, remote, tree>>,
             busy' = busy \/ busy'.file = f \/ busy'.step \notin {"write", "send"}
      PROVE  Answered'
  <2>1. /\ f \in Credential => answered'[f] = "open"
        /\ \A g \in Credential \ {f} : answered'[g] = answered[g]
    BY <1>1, OvertakenType
  <2>. QED
    BY <1>1, <2>1, AnsweredPut
<1>2. ASSUME NEW f \in Mirror!Name, Mirror!BeginWrite(f) PROVE Answered'
  BY <1>1, <1>2, StoreNames DEF Mirror!BeginWrite, Mirror!Changed
<1>3. ASSUME NEW f \in Mirror!Name, NEW c \in Payload, Mirror!EndWrite(f, c) PROVE Answered'
  BY <1>1, <1>3, StoreNames DEF Mirror!EndWrite
<1>4. ASSUME NEW f \in Mirror!Name, Mirror!BeginTask(f) PROVE Answered'
  BY <1>4, AnsweredFrame DEF Mirror!BeginTask
<1>5. ASSUME NEW f \in Mirror!Name, Mirror!PullFails(f) PROVE Answered'
  BY <1>5, AnsweredFrame DEF Mirror!PullFails
<1>6. ASSUME NEW f \in Credential, NEW request \in BOOLEAN, Mirror!Remove(f, request)
      PROVE  Answered'
  <2>1. Mirror!Put(f, Missing) /\ Mirror!Overtaken(f) /\ UNCHANGED <<backend, remote, tree>>
    BY <1>6 DEF Mirror!Remove, Mirror!Changed
  <2>2. \A u \in Mirror!Critical : [u EXCEPT !.step = "read"].step = "read"
    BY DEF Mirror!Critical
  <2>3. busy' = busy \/ busy'.step \notin {"write", "send"}
    BY <1>6, <2>2, BusyKinds DEF Mirror!Remove, Mirror!TypeOK
  <2>4. Missing \in Mirror!State
    BY StoreNames
  <2>. QED
    BY <1>0, <1>1, <2>1, <2>3, <2>4
<1>7. ASSUME NEW f \in Credential, NEW c \in Payload, Mirror!SaveMetadata(f, c) PROVE Answered'
  <2>1. Mirror!Put(f, c) /\ Mirror!Overtaken(f) /\ UNCHANGED <<backend, remote, tree>>
        /\ busy'.file = f
    BY <1>7 DEF Mirror!SaveMetadata, Mirror!Changed
  <2>2. c \in Mirror!State
    BY StoreNames
  <2>. QED
    BY <1>0, <1>1, <2>1, <2>2
<1>8. ASSUME NEW f \in Credential, NEW c \in Payload, Mirror!SaveToken(f, c) PROVE Answered'
  <2>1. Mirror!Put(f, Partial) /\ Mirror!Overtaken(f) /\ UNCHANGED <<backend, remote, tree>>
        /\ busy'.file = f
    BY <1>8 DEF Mirror!SaveToken, Mirror!Changed
  <2>2. Partial \in Mirror!State
    BY StoreNames
  <2>. QED
    BY <1>0, <1>1, <2>1, <2>2
<1>9. ASSUME NEW f \in Credential, Mirror!Delete(f) PROVE Answered'
  <2>1. UNCHANGED <<backend, remote, tree>>
        /\ \/ busy'.file = f /\ busy'.data = Missing /\ busy'.step # "write"
           \/ busy' = Mirror!Free
    BY <1>9 DEF Mirror!Delete
  <2>2. CASE local[f] # Missing
    <3>1. Mirror!Put(f, Missing) /\ Mirror!Overtaken(f) /\ Missing \in Mirror!State
      BY <1>9, <2>2, StoreNames DEF Mirror!Delete
    <3>. QED
      BY <1>0, <1>1, <2>1, <3>1, BusyKinds
  <2>3. CASE local[f] = Missing
    <3>1. UNCHANGED <<local, answered>>
      BY <1>9, <2>3 DEF Mirror!Delete
    <3>. QED
      BY <2>1, <2>3, <3>1, BusyKinds DEF Answered, Answers, Mirror!AnsweredStays, Mirror!Record
  <2>. QED
    BY <2>2, <2>3
<1>10. ASSUME NEW f \in Credential, Mirror!HandleWrite(f) PROVE Answered'
  BY <1>10, AnsweredFrame DEF Mirror!HandleWrite
<1>11. ASSUME NEW f \in Credential, Mirror!HandleRemove(f) PROVE Answered'
  BY <1>11, AnsweredFrame DEF Mirror!HandleRemove
<1>12. ASSUME NEW f \in Credential, Mirror!WindowEnds(f) PROVE Answered'
  BY <1>12, AnsweredFrame DEF Mirror!WindowEnds
<1>13. CASE Mirror!WriteToken
  <2>1. busy \in Mirror!Critical /\ busy.step = "write" /\ busy.data \in Payload
    BY <1>13, BusyKinds DEF Mirror!WriteToken, Mirror!TypeOK, Written
  <2>2. PICK f \in Mirror!Name : f = busy.file
    BY <2>1, BusyKinds
  <2>3. PICK x \in Mirror!State : x = busy.data /\ x # Missing
    BY <2>1, StoreNames
  <2>4. /\ Mirror!Put(f, x) /\ UNCHANGED <<backend, remote, tree, answered>>
        /\ busy' = [busy EXCEPT !.step = "read"]
    BY <1>13, <2>2, <2>3 DEF Mirror!WriteToken, Mirror!Put
  <2>5. busy'.step = "read"
    BY <2>1, <2>4 DEF Mirror!Critical
  <2>6. /\ f \in Credential => answered'[f] = "open"
        /\ \A g \in Credential \ {f} : answered'[g] = answered[g]
    BY <2>1, <2>2, <2>4 DEF Answered, Answers
  <2>. QED
    BY <2>3, <2>4, <2>5, <2>6, AnsweredPut
<1>14. CASE Mirror!Read
  BY <1>14, AnsweredRead
<1>15. ASSUME NEW outcome \in {"done", "lost", "unsure"}, Mirror!Send(outcome) PROVE Answered'
  BY <1>15, AnsweredSend
<1>16. CASE Mirror!BeginReload \/ Mirror!EndReload \/ Mirror!Watch \/ Mirror!Scan
  BY <1>16, AnsweredFrame DEF Mirror!BeginReload, Mirror!EndReload, Mirror!Watch, Mirror!Scan
<1>17. ASSUME NEW moved \in BOOLEAN, Mirror!Restart(moved) PROVE Answered'
  BY <1>17, AnsweredRestart
<1>. QED
  BY <1>2, <1>3, <1>4, <1>5, <1>6, <1>7, <1>8, <1>9, <1>10, <1>11, <1>12, <1>13, <1>14, <1>15,
     <1>16, <1>17 DEF Mirror!Next

LEMMA TreeStep ==
  ASSUME Mirror!TypeOK, TreeKept, Mirror!Next
  PROVE  TreeKept'
<1>0. \A f \in Credential : f \in Mirror!Name
  BY StoreNames
<1>1. \A u \in Mirror!Critical : [u EXCEPT !.step = "read"].step = "read"
  BY DEF Mirror!Critical
<1>2. ASSUME NEW f \in Mirror!Name, Mirror!BeginWrite(f) \/ (\E c \in Payload : Mirror!EndWrite(f, c))
                                   \/ Mirror!PullFails(f)
      PROVE  TreeKept'
  BY <1>2, TreeFrame DEF Mirror!BeginWrite, Mirror!EndWrite, Mirror!PullFails
<1>3. ASSUME NEW f \in Mirror!Name, Mirror!BeginTask(f) PROVE TreeKept'
  BY <1>3, TreeFrame, BusyKinds DEF Mirror!BeginTask
<1>4. ASSUME NEW f \in Credential, NEW request \in BOOLEAN, Mirror!Remove(f, request)
      PROVE  TreeKept'
  <2>1. busy' = busy \/ (busy.step = "write" /\ busy'.step = "read")
    BY <1>1, <1>4, BusyKinds DEF Mirror!Remove, Mirror!TypeOK
  <2>. QED
    BY <1>4, <2>1, TreeFrame DEF Mirror!Remove
<1>5. ASSUME NEW f \in Credential, NEW c \in Payload, Mirror!SaveMetadata(f, c) \/ Mirror!SaveToken(f, c)
      PROVE  TreeKept'
  <2>1. busy = Mirror!Free /\ busy'.step \in {"read", "write"}
        /\ UNCHANGED <<backend, remote, tree, excused>>
    BY <1>5 DEF Mirror!SaveMetadata, Mirror!SaveToken
  <2>. QED
    BY <2>1, TreeFrame, BusyKinds
<1>6. ASSUME NEW f \in Credential, Mirror!Delete(f) PROVE TreeKept'
  <2>1. busy = Mirror!Free /\ (backend = "git" => busy' = Mirror!Free \/ busy'.step = "read")
        /\ UNCHANGED <<backend, remote, tree, excused>>
    BY <1>6 DEF Mirror!Delete
  <2>. QED
    BY <2>1, TreeFrame, BusyKinds
<1>7. ASSUME NEW f \in Credential, Mirror!HandleWrite(f) PROVE TreeKept'
  <2>1. Mirror!Update(f) /\ UNCHANGED <<backend, remote, tree, busy>>
    BY <1>7 DEF Mirror!HandleWrite
  <2>2. excused \subseteq excused'
    BY <1>0, <2>1, UpdateType
  <2>. QED
    BY <2>1, <2>2, TreeFrame
<1>8. ASSUME NEW f \in Credential, Mirror!HandleRemove(f) PROVE TreeKept'
  <2>1. UNCHANGED <<backend, remote, tree, busy>> /\ "debounced" \in Mirror!Reason
        /\ (Mirror!PassOver(f, "debounced") \/ Mirror!Forget(f) \/ Mirror!Update(f))
    BY <1>8 DEF Mirror!HandleRemove, Mirror!Reason
  <2>2. excused \subseteq excused'
    BY <1>0, <2>1, UpdateType, ForgetType, PassOverType
  <2>. QED
    BY <2>1, <2>2, TreeFrame
<1>9. ASSUME NEW f \in Credential, Mirror!WindowEnds(f) PROVE TreeKept'
  BY <1>9, TreeFrame DEF Mirror!WindowEnds
<1>10. CASE Mirror!WriteToken
  <2>1. busy.step = "write" /\ busy'.step = "read"
    BY <1>1, <1>10, BusyKinds DEF Mirror!WriteToken, Mirror!TypeOK
  <2>. QED
    BY <1>10, <2>1, TreeFrame DEF Mirror!WriteToken
<1>11. CASE Mirror!Read
  BY <1>11, TreeRead
<1>12. ASSUME NEW outcome \in {"done", "lost", "unsure"}, Mirror!Send(outcome) PROVE TreeKept'
  BY <1>12, TreeSend
<1>13. CASE Mirror!BeginReload \/ Mirror!EndReload \/ Mirror!Watch \/ Mirror!Scan
  <2>1. UNCHANGED <<backend, remote, tree, busy>>
    BY <1>13 DEF Mirror!BeginReload, Mirror!EndReload, Mirror!Watch, Mirror!Scan
  <2>2. excused \subseteq excused'
    BY <1>13 DEF Mirror!BeginReload, Mirror!EndReload, Mirror!Watch, Mirror!Scan, Mirror!PassOver
  <2>. QED
    BY <2>1, <2>2, TreeFrame
<1>14. ASSUME NEW moved \in BOOLEAN, Mirror!Restart(moved) PROVE TreeKept'
  BY <1>14, TreeRestart
<1>. QED
  BY <1>2, <1>3, <1>4, <1>5, <1>6, <1>7, <1>8, <1>9, <1>10, <1>11, <1>12, <1>13, <1>14
     DEF Mirror!Next

LEMMA MirrorInitially == Mirror!Init => MirrorInv
<1>. SUFFICES ASSUME Mirror!Init PROVE MirrorInv
  OBVIOUS
<1>1. Mirror!TypeOK
  BY StoreNames DEF Mirror!Init, Mirror!TypeOK
<1>2. Answers /\ Mirror!AnsweredStays /\ Written
  BY BusyKinds DEF Mirror!Init, Answers, Mirror!AnsweredStays, Written
<1>3. TreeKept
  BY BusyKinds DEF Mirror!Init, TreeKept
<1>4. Followed
  BY DEF Mirror!Init, Followed, Due
<1>. QED
  BY <1>1, <1>2, <1>3, <1>4 DEF MirrorInv

LEMMA MirrorStep ==
  MirrorInv /\ [Mirror!Next]_(Mirror!vars) => MirrorInv'
<1>. SUFFICES ASSUME MirrorInv, [Mirror!Next]_(Mirror!vars) PROVE MirrorInv'
  OBVIOUS
<1>1. CASE UNCHANGED Mirror!vars
  BY <1>1 DEF MirrorInv, Mirror!TypeOK, Answers, Mirror!AnsweredStays, TreeKept, Followed, Written,
              Due, Excused, Mirror!Settled, Mirror!Mirrored, Mirror!Record, Mirror!vars
<1>2. CASE Mirror!Next
  <2>1. Mirror!TypeOK'
    BY <1>2, MirrorTypeStep DEF MirrorInv
  <2>2. Followed'
    BY <1>2, <2>1, FollowedStep DEF MirrorInv
  <2>3. Answered'
    BY <1>2, AnsweredStep DEF MirrorInv, Answered
  <2>4. TreeKept' /\ Written'
    BY <1>2, TreeStep, WrittenStep DEF MirrorInv
  <2>. QED
    BY <2>1, <2>2, <2>3, <2>4 DEF MirrorInv, Answered
<1>. QED
  BY <1>1, <1>2

LEMMA MirrorHolds == MirrorInv => Mirror!StoreMirrored
<1>. SUFFICES ASSUME MirrorInv PROVE Mirror!StoreMirrored
  OBVIOUS
<1>1. ASSUME Mirror!Quiet, NEW f \in Mirror!Name
      PROVE  Mirror!Mirrored(f) \/ \E r \in Mirror!Reason : <<f, r>> \in excused
  <2>1. /\ phase = "running" /\ unseen = {} /\ reload = Missing /\ writing = {} /\ tasks[f] = 0
        /\ busy.by = "nobody" /\ busy.step = "none"
    BY <1>1, BusyKinds DEF Mirror!Quiet
  <2>2. ~Due(f)
    BY <2>1 DEF Due
  <2>. QED
    BY <2>2 DEF MirrorInv, Followed, Mirror!Settled, Excused
<1>. QED
  BY <1>1 DEF MirrorInv, Mirror!StoreMirrored, Mirror!QuietMirrored

LEMMA WatcherMirror == WatcherSpec => Mirror!Spec
<1>1. WatcherInit => Mirror!Init
  BY DEF WatcherInit
<1>2. [WatcherNext]_<<part, vars, mirror>> => [Mirror!Next]_(Mirror!vars)
  BY DEF WatcherNext, mirror, Mirror!vars
<1>. QED
  BY <1>1, <1>2, PTL DEF WatcherSpec, Mirror!Spec

LEMMA MirrorAlways == WatcherSpec => []MirrorInv
BY MirrorInitially, MirrorStep, WatcherMirror, PTL DEF Mirror!Spec

\* What a save or deletion has answered is kept outside until the file changes again, and
\* once all is quiet what is kept outside is what the files hold, but for the excused,
\* for any number of credentials, contents, changes, goroutines and restarts, in a
\* database, a bucket and a repository (Save, Delete, PersistAuthFiles, Bootstrap).
THEOREM StoreFollowsTheFiles == WatcherSpec => []StoreMirrored
BY MirrorAlways, MirrorHolds, PTL DEF StoreMirrored

\* The state of the watcher, of its queues and of the store has its type: no list holds
\* two updates of a credential, and no channel more than it has room for.
THEOREM FilesTypeCorrect == WatcherSpec => []FilesTypeOK
<1>1. UpdatesInv => TypeOK
  BY DEF UpdatesInv
<1>2. MirrorInv => Mirror!TypeOK
  BY DEF MirrorInv
<1>. QED
  BY <1>1, <1>2, UpdatesAlways, WatcherUpdates, MirrorAlways, PTL DEF FilesTypeOK
=============================================================================
