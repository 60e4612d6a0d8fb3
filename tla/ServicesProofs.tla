--------------------------- MODULE ServicesProofs ---------------------------
(***************************************************************************)
(* Inductive invariants of the components of Services and the properties    *)
(* that follow from them.  The calls of a session and the answers of Gemini  *)
(* have theirs in RelayRequestsProofs and GeminiToClaudeProofs: here a       *)
(* behaviour of Services is shown to be one of theirs.                       *)
(*                                                                           *)
(* The components do not touch each other's state, so each part below has    *)
(* the same shape: an invariant of the component, one lemma per action or    *)
(* group of actions, a lemma that a step of Services is a step of the        *)
(* component or leaves it alone, and the theorems of ServicesSpec.           *)
(***************************************************************************)
EXTENDS Services, RelayRequestsProofs, FiniteSetTheorems, TLAPS

-----------------------------------------------------------------------------
(* Usage. *)

\* The records on their way to be counted.
Pending(x) == x = hand \/ \E i \in 1..Len(usageQueue) : usageQueue[i] = x

\* The call of x goes on.
CallOpen(x) == usagePc[x[1]] = "calling" /\ x[2] = made[x[1]]

\* x is counted somewhere.
Counted(x) ==
  \/ details[x] # 0 \/ disk[x] # 0 \/ exported[x] # 0
  \/ \E s \in Usage!Saver : saving[s] # Usage!NoSnapshot /\ saving[s][x] # 0

\* The queue has each record once, and none that the worker dispatches.
QueueInv ==
  /\ \A i, j \in 1..Len(usageQueue) : usageQueue[i] = usageQueue[j] => i = j
  /\ \A i \in 1..Len(usageQueue) : usageQueue[i] # hand
  /\ worker = "busy" <=> hand # Usage!NoRecord

\* A record is on its way after its call, and until then is counted nowhere.
WayInv ==
  \A x \in Usage!Record :
    /\ Pending(x) => ~CallOpen(x) /\ x[2] <= made[x[1]]
    /\ Pending(x) \/ CallOpen(x) \/ x[2] > made[x[1]] => ~Counted(x)

AtMostOnce ==
  \A x \in Usage!Record :
    /\ details[x] <= 1 /\ disk[x] <= 1 /\ exported[x] <= 1
    /\ \A s \in Usage!Saver : saving[s] # Usage!NoSnapshot => saving[s][x] <= 1

\* Nothing of a process that is down is left.
DownInv ==
  /\ life = "running" => ~usageClosed
  /\ life = "down" => /\ saving = Usage!NoSaves /\ usageQueue = <<>> /\ hand = Usage!NoRecord
                      /\ \A r \in Request : usagePc[r] \in {"idle", "done"}

\* Of the file, a snapshot and the statistics, the later has what the earlier has.
SavesInv ==
  ~careless =>
    /\ \A s, t \in Usage!Saver :
         saving[s] # Usage!NoSnapshot /\ saving[t] # Usage!NoSnapshot => s = t
    /\ \A s \in Usage!Saver, x \in Usage!Record : saving[s] # Usage!NoSnapshot =>
         disk[x] <= saving[s][x] /\ saving[s][x] <= details[x]
    /\ \A x \in Usage!Record : life # "down" => disk[x] <= details[x]

\* When a call was made, and that it is not out of sight.
WhenInv ==
  /\ \A r \in Request : usagePc[r] = "idle" => made[r] = 0
  /\ \A x \in Usage!Record : when[x] <= month /\ (when[x] # 0 <=> x[2] <= made[x[1]])
  /\ life = "running" => \A x \in Usage!Record \ forgotten :
       when[x] # 0 => details[x] # 0 \/ Pending(x) \/ CallOpen(x)

UnderWaySet == {r \in Request : Usage!UnderWay(r)}

\* The calls that a month has, or may get of the requests that were let in.
Reach(p, m) ==
  {x \in Usage!Record \ forgotten :
     /\ Usage!Applies(p, x[1])
     /\ \/ when[x] = m
        \/ m = month /\ when[x] = 0 /\ usagePc[x[1]] \in {"serving", "calling", "signal"}}

QuotaInv ==
  /\ Cardinality(UnderWaySet) <= peak
  /\ \A p \in Pattern, m \in 1..month :
       Usage!Plain(p) => Cardinality(Reach(p, m)) <= Quota[p] - 1 + peak * MaxCalls

\* The instances have the operators of the library under names of their own.
LEMMA UsageSets ==
  /\ \A S : Usage!IsFiniteSet(S) <=> IsFiniteSet(S)
  /\ \A S : Usage!Cardinality(S) = Cardinality(S)
  /\ \A s : Usage!ToSet(s) = {s[i] : i \in DOMAIN s}
<1>1. \A S : Usage!IsFiniteSet(S) <=> IsFiniteSet(S)
  BY DEF Usage!IsFiniteSet, IsFiniteSet
<1>2. \A S : Usage!Cardinality(S) = Cardinality(S)
  BY DEF Usage!Cardinality, Cardinality
<1>3. QED
  BY <1>1, <1>2 DEF Usage!ToSet

LEMMA UsageRequests ==
  ASSUME Usage!LimitsParameters
  PROVE  /\ IsFiniteSet(Request) /\ Cardinality(Request) \in Nat
         /\ MaxCalls \in Nat \ {0} /\ MaxMonth \in Nat \ {0}
BY UsageSets, FS_CardinalityType DEF Usage!LimitsParameters

\* Type correctness, and that who calls has a call.
UsageTyped ==
  /\ Usage!TypeOK
  /\ \A r \in Request : usagePc[r] = "calling" => made[r] # 0

LEMMA UsageTypeInit == ASSUME Usage!LimitsParameters, Usage!Init PROVE UsageTyped
<1>1. MaxCalls \in Nat \ {0} /\ MaxMonth \in Nat \ {0}
  BY UsageRequests
<1>2. peak \in 0..Usage!Cardinality(Request)
  BY UsageRequests, UsageSets DEF Usage!Init
<1>3. details \in Usage!Counts /\ disk \in Usage!Counts /\ exported \in Usage!Counts
  BY DEF Usage!Init, Usage!Counts, Usage!NoCounts
<1>4. saving \in [Usage!Saver -> Usage!Counts \cup {Usage!NoSnapshot}]
  BY DEF Usage!Init, Usage!NoSaves
<1>5. month \in 1..MaxMonth /\ made \in [Request -> 0..MaxCalls]
      /\ when \in [Usage!Record -> 0..MaxMonth]
  BY <1>1 DEF Usage!Init
<1>6. usagePc \in [Request -> {"idle", "serving", "calling", "signal", "done"}]
      /\ \A r \in Request : usagePc[r] # "calling"
  BY DEF Usage!Init
<1>7. /\ usageQueue \in Seq(Usage!Record) /\ hand \in Usage!Record \cup {Usage!NoRecord}
      /\ forgotten \subseteq Usage!Record
  BY DEF Usage!Init
<1>8. Usage!TypeOK
  BY <1>2, <1>3, <1>4, <1>5, <1>6, <1>7 DEF Usage!Init, Usage!TypeOK
<1>9. QED
  BY <1>6, <1>8 DEF UsageTyped

LEMMA UsageTypeRequests ==
  ASSUME Usage!LimitsParameters, UsageTyped, NEW r \in Request,
         Usage!Accept(r) \/ Usage!Reject(r) \/ Usage!Go(r), peak' \in 0..Usage!Cardinality(Request)
  PROVE  UsageTyped'
<1>1. MaxCalls \in Nat \ {0} /\ MaxMonth \in Nat \ {0}
  BY UsageRequests
<1> USE DEF Usage!requests, Usage!process, UsageTyped
<1>2. CASE Usage!Accept(r)
  <2>1. usagePc' \in [Request -> {"idle", "serving", "calling", "signal", "done"}]
    BY <1>2 DEF Usage!Accept, Usage!TypeOK
  <2>2. QED
    BY <1>2, <2>1 DEF Usage!Accept, Usage!TypeOK
<1>3. CASE Usage!Reject(r)
  BY <1>3 DEF Usage!Reject, Usage!TypeOK
<1>4. CASE Usage!BeginCall(r)
  <2>1. made[r] + 1 \in 1..MaxCalls
    BY <1>1, <1>4 DEF Usage!BeginCall, Usage!TypeOK
  <2>2. usagePc' \in [Request -> {"idle", "serving", "calling", "signal", "done"}]
        /\ made' \in [Request -> 0..MaxCalls]
    BY <1>1, <1>4, <2>1 DEF Usage!BeginCall, Usage!TypeOK
  <2>3. when' \in [Usage!Record -> 0..MaxMonth]
    <3>1. month \in 0..MaxMonth /\ when \in [Usage!Record -> 0..MaxMonth]
      BY <1>1 DEF Usage!TypeOK
    <3>2. QED
      BY <1>4, <3>1 DEF Usage!BeginCall
  <2>4. QED
    BY <1>1, <1>4, <2>1, <2>2, <2>3 DEF Usage!BeginCall, Usage!TypeOK
<1>5. CASE Usage!Publish(r)
  <2>1. <<r, made[r]>> \in Usage!Record
    BY <1>1, <1>5 DEF Usage!Publish, Usage!TypeOK, Usage!Record
  <2>2. QED
    BY <1>5, <2>1 DEF Usage!Publish, Usage!TypeOK
<1>6. CASE Usage!Signal(r)
  BY <1>6 DEF Usage!Signal, Usage!TypeOK
<1>7. CASE Usage!Finish(r)
  BY <1>7 DEF Usage!Finish, Usage!TypeOK
<1>8. QED
  BY <1>2, <1>3, <1>4, <1>5, <1>6, <1>7 DEF Usage!Go

LEMMA UsageTypeWorker ==
  ASSUME UsageTyped, Usage!Worker
  PROVE  UsageTyped'
<1> USE DEF Usage!requests, UsageTyped
<1>1. CASE Usage!Wait \/ Usage!EndWorker
  BY <1>1 DEF Usage!Wait, Usage!EndWorker, Usage!TypeOK
<1>2. CASE Usage!TakeRecord
  BY <1>2 DEF Usage!TakeRecord, Usage!TypeOK
<1>3. CASE Usage!Count
  <2>1. \A n \in 0..2 : Usage!Capped(n + 1) \in 0..2
    BY DEF Usage!Capped
  <2>2. details' \in Usage!Counts
    BY <1>3, <2>1 DEF Usage!Count, Usage!TypeOK, Usage!Counts
  <2>3. QED
    BY <1>3, <2>2 DEF Usage!Count, Usage!TypeOK
<1>4. QED
  BY <1>1, <1>2, <1>3 DEF Usage!Worker

LEMMA UsageTypeSaves ==
  ASSUME UsageTyped, NEW s \in Usage!Saver, NEW stored \in BOOLEAN,
         Usage!BeginSave(s) \/ Usage!EndSave(s, stored)
  PROVE  UsageTyped'
<1> USE DEF Usage!requests, UsageTyped
<1>1. saving' \in [Usage!Saver -> Usage!Counts \cup {Usage!NoSnapshot}]
  BY DEF Usage!BeginSave, Usage!EndSave, Usage!TypeOK
<1>2. disk' \in Usage!Counts
  BY DEF Usage!BeginSave, Usage!EndSave, Usage!TypeOK
<1>3. QED
  BY <1>1, <1>2 DEF Usage!BeginSave, Usage!EndSave, Usage!TypeOK

LEMMA UsageTypeProcess ==
  ASSUME Usage!LimitsParameters, UsageTyped, NEW loaded \in BOOLEAN,
         \/ Usage!Export \/ Usage!Import \/ Usage!Stop \/ Usage!Down \/ Usage!NextMonth
         \/ Usage!Restart(loaded)
  PROVE  UsageTyped'
<1>1. MaxCalls \in Nat \ {0} /\ MaxMonth \in Nat \ {0}
  BY UsageRequests
<1> USE DEF Usage!requests, Usage!process, UsageTyped
<1>2. CASE Usage!Export
  BY <1>2 DEF Usage!Export, Usage!TypeOK
<1>3. CASE Usage!Import
  <2>1. details' \in Usage!Counts
    BY <1>3 DEF Usage!Import, Usage!Merged, Usage!TypeOK, Usage!Counts
  <2>2. QED
    BY <1>3, <2>1 DEF Usage!Import, Usage!TypeOK
<1>4. CASE Usage!Stop
  BY <1>4 DEF Usage!Stop, Usage!TypeOK
<1>5. CASE Usage!Down
  <2>1. details' \in Usage!Counts
    BY <1>5 DEF Usage!Down, Usage!Counts, Usage!NoCounts
  <2>2. saving' \in [Usage!Saver -> Usage!Counts \cup {Usage!NoSnapshot}]
    BY <1>5 DEF Usage!Down, Usage!NoSaves
  <2>3. usagePc' \in [Request -> {"idle", "serving", "calling", "signal", "done"}]
        /\ \A r \in Request : usagePc'[r] # "calling"
    BY <1>5 DEF Usage!Down, Usage!TypeOK
  <2>4. QED
    BY <1>5, <2>1, <2>2, <2>3 DEF Usage!Down, Usage!TypeOK
<1>6. CASE Usage!Restart(loaded)
  <2>1. details' \in Usage!Counts
    BY <1>6 DEF Usage!Restart, Usage!TypeOK, Usage!Counts, Usage!NoCounts
  <2>2. QED
    BY <1>6, <2>1 DEF Usage!Restart, Usage!TypeOK
<1>7. CASE Usage!NextMonth
  BY <1>1, <1>7 DEF Usage!NextMonth, Usage!TypeOK
<1>8. QED
  BY <1>2, <1>3, <1>4, <1>5, <1>6, <1>7

UsageInv ==
  /\ UsageTyped /\ QueueInv /\ WayInv /\ AtMostOnce /\ DownInv /\ SavesInv /\ WhenInv
  /\ QuotaInv


-----------------------------------------------------------------------------
(* What a step does to the records on their way and to those counted. *)

LEMMA RecordType ==
  ASSUME Usage!LimitsParameters
  PROVE  /\ \A x \in Usage!Record : /\ x = <<x[1], x[2]>> /\ x[1] \in Request
                                    /\ x[2] \in 1..MaxCalls /\ x # Usage!NoRecord
         /\ \A r \in Request, i \in 1..MaxCalls : <<r, i>> \in Usage!Record
         /\ Usage!NoRecord \notin Usage!Record
<1>1. MaxCalls \in Nat
  BY UsageRequests
<1>2. \A r \in Request, i \in 1..MaxCalls : <<r, i>> \in Usage!Record
  BY DEF Usage!Record
<1>3. ASSUME NEW x \in Usage!Record
      PROVE  /\ x = <<x[1], x[2]>> /\ x[1] \in Request /\ x[2] \in 1..MaxCalls
             /\ x # Usage!NoRecord
  <2>1. x = <<x[1], x[2]>> /\ x[1] \in Request /\ x[2] \in 1..MaxCalls
    BY DEF Usage!Record
  <2>2. <<x[1], x[2]>> # <<>>
    OBVIOUS
  <2>3. QED
    BY <2>1, <2>2 DEF Usage!NoRecord
<1>4. Usage!NoRecord \notin Usage!Record
  BY <1>3
<1>5. QED
  BY <1>2, <1>3, <1>4

\* Publish appends the record of the call, unless the manager is stopped.
LEMMA PublishQueue ==
  ASSUME Usage!LimitsParameters, UsageTyped, NEW r \in Request, Usage!Publish(r)
  PROVE  /\ <<r, made[r]>> \in Usage!Record
         /\ usageClosed => UNCHANGED usageQueue
         /\ ~usageClosed => /\ Len(usageQueue') = Len(usageQueue) + 1
                            /\ \A i \in 1..Len(usageQueue) : usageQueue'[i] = usageQueue[i]
                            /\ usageQueue'[Len(usageQueue) + 1] = <<r, made[r]>>
<1>1. made[r] \in 1..MaxCalls
  BY UsageRequests DEF UsageTyped, Usage!TypeOK, Usage!Publish
<1>2. <<r, made[r]>> \in Usage!Record
  BY <1>1, RecordType
<1>3. usageQueue \in Seq(Usage!Record)
  BY DEF UsageTyped, Usage!TypeOK
<1>4. QED
  BY <1>2, <1>3 DEF Usage!Publish

LEMMA TakeQueue ==
  ASSUME UsageTyped, Usage!TakeRecord
  PROVE  /\ Len(usageQueue) \in Nat \ {0} /\ hand' = usageQueue[1]
         /\ hand' \in Usage!Record
         /\ Len(usageQueue') = Len(usageQueue) - 1
         /\ \A i \in 1..Len(usageQueue') : usageQueue'[i] = usageQueue[i + 1]
<1>1. usageQueue \in Seq(Usage!Record) /\ usageQueue # <<>>
  BY DEF UsageTyped, Usage!TypeOK, Usage!TakeRecord
<1>2. QED
  BY <1>1 DEF Usage!TakeRecord

\* The steps that leave the queue and the worker's record alone.
LEMMA QueueKept ==
  ASSUME Usage!Next,
         ~\E r \in Request : Usage!Publish(r), ~Usage!TakeRecord, ~Usage!Count, ~Usage!Down
  PROVE  UNCHANGED <<usageQueue, hand>>
BY DEF Usage!Next, Usage!Go, Usage!Worker, Usage!process, Usage!Accept, Usage!Reject,
       Usage!BeginCall, Usage!Signal, Usage!Finish, Usage!Wait, Usage!EndWorker, Usage!Export,
       Usage!Import, Usage!Stop, Usage!NextMonth, Usage!BeginSave, Usage!EndSave, Usage!Restart

LEMMA QueueNext ==
  ASSUME Usage!LimitsParameters, UsageTyped, QueueInv, WayInv, DownInv, Usage!Next
  PROVE  QueueInv'
<1>1. \A x \in Usage!Record : x # Usage!NoRecord
  BY RecordType
<1>2. Len(usageQueue) \in Nat /\ \A i \in 1..Len(usageQueue) : usageQueue[i] \in Usage!Record
  BY DEF UsageTyped, Usage!TypeOK
<1>3. CASE \E r \in Request : Usage!Publish(r)
  <2>1. PICK r \in Request : Usage!Publish(r)
    BY <1>3
  <2>2. UNCHANGED <<hand, worker>>
    BY <2>1 DEF Usage!Publish
  <2>3. ~Pending(<<r, made[r]>>)
    BY <2>1, PublishQueue DEF WayInv, CallOpen, Usage!Publish
  <2>4. CASE usageClosed
    BY <2>1, <2>2, <2>4, PublishQueue DEF QueueInv
  <2>5. CASE ~usageClosed
    <3> DEFINE n == Len(usageQueue)
    <3>1. /\ Len(usageQueue') = n + 1 /\ usageQueue'[n + 1] = <<r, made[r]>>
          /\ \A i \in 1..n : usageQueue'[i] = usageQueue[i]
      BY <2>1, <2>5, PublishQueue
    <3>2. \A i \in 1..(n + 1) : i = n + 1 \/ i \in 1..n
      BY <1>2
    <3>3. <<r, made[r]>> # hand /\ \A i \in 1..n : usageQueue[i] # <<r, made[r]>>
      BY <2>3 DEF Pending
    <3> HIDE DEF n
    <3>4. \A i, j \in 1..(n + 1) : usageQueue'[i] = usageQueue'[j] => i = j
      BY <3>1, <3>2, <3>3 DEF QueueInv, n
    <3>5. \A i \in 1..(n + 1) : usageQueue'[i] # hand
      BY <3>1, <3>2, <3>3 DEF QueueInv, n
    <3>6. QED
      BY <2>2, <3>1, <3>4, <3>5 DEF QueueInv
  <2>6. QED
    BY <2>4, <2>5
<1>4. CASE Usage!TakeRecord
  <2>1. worker' = "busy"
    BY <1>4 DEF Usage!TakeRecord
  <2>2. \A i, j \in 1..Len(usageQueue') : usageQueue'[i] = usageQueue'[j] => i = j
    BY <1>2, <1>4, TakeQueue DEF QueueInv
  <2>3. \A i \in 1..Len(usageQueue') : usageQueue'[i] # hand'
    BY <1>2, <1>4, TakeQueue DEF QueueInv
  <2>4. QED
    BY <1>1, <1>4, <2>1, <2>2, <2>3, TakeQueue DEF QueueInv
<1>5. CASE Usage!Count
  BY <1>1, <1>2, <1>5 DEF Usage!Count, QueueInv
<1>6. CASE Usage!Down
  <2>1. usageQueue' = <<>> /\ hand' = Usage!NoRecord /\ worker' = "ended"
    BY <1>6 DEF Usage!Down
  <2>2. Len(usageQueue') = 0
    BY <2>1
  <2>3. QED
    BY <2>1, <2>2 DEF QueueInv
<1>7. CASE UNCHANGED <<usageQueue, hand>> /\ ~Usage!TakeRecord /\ ~Usage!Count /\ ~Usage!Down
  <2>1. worker' = "busy" <=> worker = "busy"
    BY <1>7 DEF Usage!Next, Usage!Go, Usage!Worker, Usage!process, Usage!Accept, Usage!Reject,
       Usage!BeginCall, Usage!Publish, Usage!Signal, Usage!Finish, Usage!Wait, Usage!EndWorker,
       Usage!Export, Usage!Import, Usage!Stop, Usage!NextMonth, Usage!BeginSave, Usage!EndSave,
       Usage!Restart, DownInv, QueueInv
  <2>2. QED
    BY <1>7, <2>1 DEF QueueInv
<1>8. QED
  BY <1>3, <1>4, <1>5, <1>6, <1>7, QueueKept


\* Only Publish puts a record on its way, and only Count counts one.
LEMMA PendingNext ==
  ASSUME Usage!LimitsParameters, UsageTyped, Usage!Next, NEW x \in Usage!Record, Pending(x)'
  PROVE  \/ Pending(x)
         \/ ~usageClosed /\ Usage!Publish(x[1]) /\ x[2] = made[x[1]]
<1>1. Len(usageQueue) \in Nat
  BY DEF UsageTyped, Usage!TypeOK
<1>2. CASE \E r \in Request : Usage!Publish(r)
  <2>1. PICK r \in Request : Usage!Publish(r)
    BY <1>2
  <2>2. UNCHANGED hand
    BY <2>1 DEF Usage!Publish
  <2>3. Pending(x) \/ (~usageClosed /\ x = <<r, made[r]>>)
    <3>1. CASE usageClosed
      BY <2>1, <2>2, <3>1, PublishQueue DEF Pending
    <3>2. CASE ~usageClosed
      <4> DEFINE n == Len(usageQueue)
      <4>1. /\ Len(usageQueue') = n + 1 /\ usageQueue'[n + 1] = <<r, made[r]>>
            /\ \A i \in 1..n : usageQueue'[i] = usageQueue[i]
        BY <2>1, <3>2, PublishQueue
      <4>2. \A i \in 1..(n + 1) : i = n + 1 \/ i \in 1..n
        BY <1>1
      <4> HIDE DEF n
      <4>3. ASSUME NEW i \in 1..(n + 1), usageQueue'[i] = x
            PROVE  Pending(x) \/ x = <<r, made[r]>>
        BY <4>1, <4>2, <4>3 DEF Pending, n
      <4>4. QED
        BY <2>2, <3>2, <4>1, <4>3 DEF Pending
    <3>3. QED
      BY <3>1, <3>2
  <2>4. QED
    BY <2>1, <2>3
<1>3. CASE Usage!TakeRecord
  BY <1>1, <1>3, TakeQueue DEF Pending
<1>4. CASE Usage!Count
  BY <1>4, RecordType DEF Usage!Count, Pending
<1>5. CASE Usage!Down
  BY <1>5, RecordType DEF Usage!Down, Pending
<1>6. QED
  BY <1>2, <1>3, <1>4, <1>5, QueueKept DEF Pending

LEMMA CountedNext ==
  ASSUME Usage!LimitsParameters, UsageTyped, Usage!Next, NEW x \in Usage!Record, Counted(x)'
  PROVE  \/ Counted(x)
         \/ Usage!Count /\ x = hand
<1>1. \A c \in Usage!Counts : c[x] \in 0..2
  BY DEF Usage!Counts
<1>2. /\ details \in Usage!Counts /\ disk \in Usage!Counts /\ exported \in Usage!Counts
      /\ \A s \in Usage!Saver : saving[s] # Usage!NoSnapshot => saving[s] \in Usage!Counts
      /\ saving \in [Usage!Saver -> Usage!Counts \cup {Usage!NoSnapshot}]
  BY DEF UsageTyped, Usage!TypeOK
<1>3. CASE Usage!Count
  BY <1>2, <1>3 DEF Usage!Count, Usage!Counts, Counted
<1>4. CASE Usage!Export
  BY <1>4 DEF Usage!Export, Usage!process, Counted
<1>5. CASE Usage!Import
  <2>1. details'[x] # 0 => details[x] # 0 \/ exported[x] # 0
    BY <1>1, <1>2, <1>5 DEF Usage!Import, Usage!Merged
  <2>2. QED
    BY <1>5, <2>1 DEF Usage!Import, Counted
<1>6. ASSUME NEW s \in Usage!Saver, Usage!BeginSave(s)
      PROVE  Counted(x)
  BY <1>2, <1>6 DEF Usage!BeginSave, Counted
<1>7. ASSUME NEW s \in Usage!Saver, NEW stored \in BOOLEAN, Usage!EndSave(s, stored)
      PROVE  Counted(x)
  BY <1>2, <1>7 DEF Usage!EndSave, Counted
<1>8. CASE Usage!Down
  BY <1>8 DEF Usage!Down, Usage!NoCounts, Usage!NoSaves, Counted
<1>9. ASSUME NEW loaded \in BOOLEAN, Usage!Restart(loaded)
      PROVE  Counted(x)
  BY <1>9 DEF Usage!Restart, Usage!NoCounts, Counted
<1>10. CASE \/ Usage!Stop \/ Usage!NextMonth \/ (Usage!Worker /\ ~Usage!Count)
            \/ \E r \in Request : Usage!Accept(r) \/ Usage!Reject(r) \/ Usage!Go(r)
  <2>1. UNCHANGED <<details, disk, exported, saving>>
    BY <1>10 DEF Usage!Go, Usage!Worker, Usage!process, Usage!Accept, Usage!Reject,
       Usage!BeginCall, Usage!Publish, Usage!Signal, Usage!Finish, Usage!Wait, Usage!EndWorker,
       Usage!TakeRecord, Usage!Stop, Usage!NextMonth
  <2>2. QED
    BY <2>1 DEF Counted
<1>11. QED
  BY <1>3, <1>4, <1>5, <1>6, <1>7, <1>8, <1>9, <1>10 DEF Usage!Next

\* Calls only begin, and a call that is open was, or has just begun.
LEMMA CallsNext ==
  ASSUME Usage!LimitsParameters, UsageTyped, Usage!Next, NEW r \in Request
  PROVE  \/ /\ made'[r] = made[r]
            /\ usagePc'[r] = "calling" => usagePc[r] = "calling"
         \/ Usage!BeginCall(r) /\ made'[r] = made[r] + 1 /\ usagePc'[r] = "calling"
<1>1. made \in [Request -> 0..MaxCalls]
      /\ usagePc \in [Request -> {"idle", "serving", "calling", "signal", "done"}]
  BY DEF UsageTyped, Usage!TypeOK
<1>2. ASSUME NEW q \in Request, Usage!Accept(q) \/ Usage!Reject(q) \/ Usage!Go(q)
      PROVE  \/ /\ made'[r] = made[r]
                /\ usagePc'[r] = "calling" => usagePc[r] = "calling"
             \/ Usage!BeginCall(r) /\ made'[r] = made[r] + 1 /\ usagePc'[r] = "calling"
  BY <1>1, <1>2 DEF Usage!Accept, Usage!Reject, Usage!Go, Usage!BeginCall, Usage!Publish,
     Usage!Signal, Usage!Finish
<1>3. CASE Usage!Down
  BY <1>1, <1>3 DEF Usage!Down
<1>4. CASE UNCHANGED <<made, usagePc>>
  BY <1>4
<1>5. QED
  BY <1>2, <1>3, <1>4 DEF Usage!Next, Usage!Worker, Usage!requests, Usage!Wait, Usage!EndWorker,
     Usage!TakeRecord, Usage!Count, Usage!Export, Usage!Import, Usage!Stop, Usage!NextMonth,
     Usage!BeginSave, Usage!EndSave, Usage!Restart

LEMMA WayNext ==
  ASSUME Usage!LimitsParameters, UsageTyped, QueueInv, WayInv, Usage!Next
  PROVE  WayInv'
<1> SUFFICES ASSUME NEW x \in Usage!Record
             PROVE  /\ Pending(x)' => ~CallOpen(x)' /\ x[2] <= made'[x[1]]
                    /\ Pending(x)' \/ CallOpen(x)' \/ x[2] > made'[x[1]] => ~Counted(x)'
  BY DEF WayInv
<1> DEFINE r == x[1]
<1>1. r \in Request /\ x[2] \in 1..MaxCalls /\ MaxCalls \in Nat
      /\ made[r] \in 0..MaxCalls /\ made'[r] \in Nat
  <2>1. r \in Request /\ x[2] \in 1..MaxCalls /\ MaxCalls \in Nat
    BY RecordType, UsageRequests
  <2>2. made[r] \in 0..MaxCalls
    BY <2>1 DEF UsageTyped, Usage!TypeOK
  <2>3. QED
    BY <2>1, <2>2, CallsNext
<1>2. /\ Pending(x) => ~CallOpen(x) /\ x[2] <= made[r]
      /\ Pending(x) \/ CallOpen(x) \/ x[2] > made[r] => ~Counted(x)
  BY DEF WayInv
<1>3. CallOpen(x)' => CallOpen(x) \/ (x[2] > made[r] /\ Usage!BeginCall(r))
  BY <1>1, CallsNext DEF CallOpen
<1>4. x[2] > made'[r] => x[2] > made[r]
  BY <1>1, CallsNext
<1>5. ASSUME Pending(x)'
      PROVE  ~CallOpen(x)' /\ x[2] <= made'[r] /\ (Pending(x) \/ CallOpen(x))
  <2>1. CASE Pending(x)
    BY <1>1, <1>2, <1>3, <2>1, CallsNext
  <2>2. CASE Usage!Publish(r) /\ x[2] = made[r]
    <3>1. CallOpen(x) /\ made' = made
      BY <2>2 DEF Usage!Publish, CallOpen
    <3>2. usagePc'[r] # "calling"
      BY <1>1, <2>2 DEF Usage!Publish, UsageTyped, Usage!TypeOK
    <3>3. QED
      BY <1>1, <2>2, <3>1, <3>2 DEF CallOpen
  <2>3. QED
    BY <1>5, <2>1, <2>2, PendingNext
<1>6. ASSUME Usage!Count, x = hand
      PROVE  ~(Pending(x)' \/ CallOpen(x)' \/ x[2] > made'[r])
  <2>1. Pending(x) /\ ~Pending(x)'
    BY <1>6, RecordType DEF Usage!Count, Pending, QueueInv
  <2>2. UNCHANGED <<usagePc, made>>
    BY <1>6 DEF Usage!Count, Usage!requests
  <2>3. QED
    BY <1>1, <1>2, <2>1, <2>2 DEF CallOpen
<1>7. ASSUME Pending(x)' \/ CallOpen(x)' \/ x[2] > made'[r]
      PROVE  ~Counted(x)'
  BY <1>2, <1>3, <1>4, <1>5, <1>6, <1>7, CountedNext
<1>8. QED
  BY <1>5, <1>7

\* The statistics, their file, snapshots and exports after a step.
LEMMA OnceNext ==
  ASSUME Usage!LimitsParameters, UsageTyped, QueueInv, WayInv, AtMostOnce, Usage!Next
  PROVE  AtMostOnce'
<1> SUFFICES ASSUME NEW x \in Usage!Record
             PROVE  /\ details'[x] <= 1 /\ disk'[x] <= 1 /\ exported'[x] <= 1
                    /\ \A s \in Usage!Saver : saving'[s] # Usage!NoSnapshot => saving'[s][x] <= 1
  BY DEF AtMostOnce
<1>1. /\ details \in Usage!Counts /\ disk \in Usage!Counts /\ exported \in Usage!Counts
      /\ saving \in [Usage!Saver -> Usage!Counts \cup {Usage!NoSnapshot}]
  BY DEF UsageTyped, Usage!TypeOK
<1>2. /\ details[x] <= 1 /\ disk[x] <= 1 /\ exported[x] <= 1
      /\ \A s \in Usage!Saver : saving[s] # Usage!NoSnapshot => saving[s][x] <= 1
  BY DEF AtMostOnce
<1>3. CASE Usage!Count
  <2>1. x = hand => details[x] = 0
    BY DEF WayInv, Pending, Counted
  <2>2. details'[x] = IF x = hand THEN Usage!Capped(details[x] + 1) ELSE details[x]
    BY <1>1, <1>3 DEF Usage!Count, Usage!Counts
  <2>3. Usage!Capped(0 + 1) = 1
    BY DEF Usage!Capped
  <2>4. details'[x] <= 1
    BY <1>2, <2>1, <2>2, <2>3
  <2>5. QED
    BY <1>2, <1>3, <2>4 DEF Usage!Count
<1>4. CASE Usage!Export
  BY <1>2, <1>4 DEF Usage!Export, Usage!process
<1>5. CASE Usage!Import
  BY <1>2, <1>5 DEF Usage!Import, Usage!Merged
<1>6. ASSUME NEW s \in Usage!Saver, Usage!BeginSave(s)
      PROVE  \A t \in Usage!Saver : saving'[t] # Usage!NoSnapshot => saving'[t][x] <= 1
  BY <1>1, <1>2, <1>6 DEF Usage!BeginSave
<1>7. ASSUME NEW s \in Usage!Saver, Usage!BeginSave(s)
      PROVE  UNCHANGED <<details, disk, exported>>
  BY <1>7 DEF Usage!BeginSave
<1>8. ASSUME NEW s \in Usage!Saver, NEW stored \in BOOLEAN, Usage!EndSave(s, stored)
      PROVE  /\ disk'[x] <= 1 /\ UNCHANGED <<details, exported>>
             /\ \A t \in Usage!Saver : saving'[t] # Usage!NoSnapshot => saving'[t][x] <= 1
  BY <1>1, <1>2, <1>8 DEF Usage!EndSave
<1>9. CASE Usage!Down
  BY <1>2, <1>9 DEF Usage!Down, Usage!NoCounts, Usage!NoSaves
<1>10. ASSUME NEW loaded \in BOOLEAN, Usage!Restart(loaded)
       PROVE  details'[x] <= 1 /\ UNCHANGED <<disk, exported, saving>>
  BY <1>2, <1>10 DEF Usage!Restart, Usage!NoCounts
<1>11. CASE UNCHANGED <<details, disk, exported, saving>>
  BY <1>2, <1>11
<1>12. QED
  BY <1>2, <1>3, <1>4, <1>5, <1>6, <1>7, <1>8, <1>9, <1>10, <1>11
     DEF Usage!Next, Usage!Go, Usage!Worker, Usage!process,
       Usage!Accept, Usage!Reject, Usage!BeginCall, Usage!Publish, Usage!Signal, Usage!Finish,
       Usage!Wait, Usage!EndWorker, Usage!TakeRecord, Usage!Stop, Usage!NextMonth


LEMMA DownNext ==
  ASSUME UsageTyped, DownInv, Usage!Next
  PROVE  DownInv'
<1>1. usagePc \in [Request -> {"idle", "serving", "calling", "signal", "done"}]
      /\ saving \in [Usage!Saver -> Usage!Counts \cup {Usage!NoSnapshot}]
  BY DEF UsageTyped, Usage!TypeOK
<1>2. ASSUME NEW r \in Request, Usage!Accept(r) \/ Usage!Reject(r)
      PROVE  DownInv'
  BY <1>1, <1>2 DEF Usage!Accept, Usage!Reject, Usage!process, DownInv
<1>3. ASSUME NEW r \in Request, Usage!Go(r)
      PROVE  DownInv'
  <2>1. life # "down" /\ life' = life /\ usageClosed' = usageClosed
    BY <1>3 DEF Usage!Go, Usage!BeginCall, Usage!Publish, Usage!Signal, Usage!Finish,
       Usage!process, DownInv
  <2>2. QED
    BY <2>1 DEF DownInv
<1>4. CASE Usage!Wait \/ Usage!EndWorker
  BY <1>4 DEF Usage!Wait, Usage!EndWorker, Usage!requests, DownInv
<1>5. CASE Usage!TakeRecord
  <2>1. life # "down" /\ life' = life /\ usageClosed' = usageClosed
    BY <1>5 DEF Usage!TakeRecord, DownInv
  <2>2. QED
    BY <2>1 DEF DownInv
<1>6. CASE Usage!Count
  BY <1>6 DEF Usage!Count, Usage!requests, DownInv
<1>7. CASE Usage!Export \/ Usage!Import \/ Usage!Stop \/ Usage!NextMonth
  BY <1>7 DEF Usage!Export, Usage!Import, Usage!Stop, Usage!NextMonth, Usage!requests,
     Usage!process, DownInv
<1>8. CASE Usage!Down
  <2>1. \A r \in Request : usagePc'[r] \in {"idle", "done"}
    BY <1>8 DEF Usage!Down
  <2>2. QED
    BY <1>8, <2>1 DEF Usage!Down, DownInv
<1>9. ASSUME NEW s \in Usage!Saver, Usage!BeginSave(s)
      PROVE  DownInv'
  BY <1>9 DEF Usage!BeginSave, Usage!requests, DownInv
<1>10. ASSUME NEW s \in Usage!Saver, NEW stored \in BOOLEAN, Usage!EndSave(s, stored)
       PROVE  DownInv'
  <2>1. life # "down" /\ life' = life /\ usageClosed' = usageClosed
    BY <1>10 DEF Usage!EndSave, Usage!NoSaves, DownInv
  <2>2. QED
    BY <2>1 DEF DownInv
<1>11. ASSUME NEW loaded \in BOOLEAN, Usage!Restart(loaded)
       PROVE  DownInv'
  BY <1>11 DEF Usage!Restart, DownInv
<1>12. QED
  BY <1>2, <1>3, <1>4, <1>5, <1>6, <1>7, <1>8, <1>9, <1>10, <1>11 DEF Usage!Next, Usage!Worker

\* What is counted in the statistics stays counted until the process ends.
LEMMA DetailsGrow ==
  ASSUME UsageTyped, Usage!Next, life # "down", life' # "down", NEW x \in Usage!Record
  PROVE  details[x] <= details'[x]
<1>1. details \in Usage!Counts /\ details[x] \in 0..2
  BY DEF UsageTyped, Usage!TypeOK, Usage!Counts
<1>2. CASE Usage!Count
  <2>1. details'[x] = IF x = hand THEN Usage!Capped(details[x] + 1) ELSE details[x]
    BY <1>1, <1>2 DEF Usage!Count, Usage!Counts
  <2>2. \A n \in 0..2 : n <= Usage!Capped(n + 1)
    BY DEF Usage!Capped
  <2>3. QED
    BY <1>1, <2>1, <2>2
<1>3. CASE Usage!Import
  BY <1>1, <1>3 DEF Usage!Import, Usage!Merged
<1>4. CASE UNCHANGED details
  BY <1>1, <1>4
<1>5. QED
  BY <1>2, <1>3, <1>4 DEF Usage!Next, Usage!Go, Usage!Worker, Usage!process, Usage!Accept,
     Usage!Reject, Usage!BeginCall, Usage!Publish, Usage!Signal, Usage!Finish, Usage!Wait,
     Usage!EndWorker, Usage!TakeRecord, Usage!Export, Usage!Stop, Usage!NextMonth,
     Usage!BeginSave, Usage!EndSave, Usage!Down, Usage!Restart

LEMMA SavesNext ==
  ASSUME UsageTyped, UsageTyped', QueueInv, DownInv, SavesInv, Usage!Next
  PROVE  SavesInv'
<1>1. /\ \A x \in Usage!Record : details[x] \in 0..2 /\ disk[x] \in 0..2
      /\ \A x \in Usage!Record, s \in Usage!Saver :
           saving[s] # Usage!NoSnapshot => saving[s][x] \in 0..2
      /\ saving \in [Usage!Saver -> Usage!Counts \cup {Usage!NoSnapshot}]
  BY DEF UsageTyped, Usage!TypeOK, Usage!Counts
<1>2. ASSUME NEW s \in Usage!Saver, Usage!BeginSave(s), ~careless'
      PROVE  /\ \A t, u \in Usage!Saver :
                  saving'[t] # Usage!NoSnapshot /\ saving'[u] # Usage!NoSnapshot => t = u
             /\ \A t \in Usage!Saver, x \in Usage!Record : saving'[t] # Usage!NoSnapshot =>
                  disk'[x] <= saving'[t][x] /\ saving'[t][x] <= details'[x]
             /\ \A x \in Usage!Record : disk'[x] <= details'[x]
  <2>1. /\ ~careless /\ life # "down" /\ UNCHANGED <<disk, details>>
        /\ \A t \in Usage!Saver : saving[t] = Usage!NoSnapshot
        /\ \A t \in Usage!Saver : t # s => saving'[t] = Usage!NoSnapshot
        /\ saving'[s] = details
    BY <1>1, <1>2 DEF Usage!BeginSave
  <2>2. QED
    BY <1>1, <2>1 DEF SavesInv
<1>3. ASSUME NEW s \in Usage!Saver, NEW stored \in BOOLEAN, Usage!EndSave(s, stored), ~careless'
      PROVE  /\ \A t \in Usage!Saver : saving'[t] = Usage!NoSnapshot
             /\ \A x \in Usage!Record : disk'[x] <= details'[x]
  <2>1. /\ ~careless /\ saving[s] # Usage!NoSnapshot /\ UNCHANGED details
        /\ disk' = saving[s] \/ disk' = disk
        /\ \A t \in Usage!Saver : t # s => saving'[t] = saving[t]
        /\ saving'[s] = Usage!NoSnapshot
    BY <1>1, <1>3 DEF Usage!EndSave
  <2>2. life # "down"
    BY <2>1 DEF DownInv, Usage!NoSaves
  <2>3. QED
    BY <1>1, <2>1, <2>2 DEF SavesInv
<1>4. CASE Usage!Down
  <2>1. \A s \in Usage!Saver : saving'[s] = Usage!NoSnapshot
    BY <1>4 DEF Usage!Down, Usage!NoSaves
  <2>2. QED
    BY <1>4, <2>1 DEF Usage!Down, SavesInv
<1>5. ASSUME NEW loaded \in BOOLEAN, Usage!Restart(loaded), ~careless'
      PROVE  /\ \A s \in Usage!Saver : saving'[s] = Usage!NoSnapshot
             /\ \A x \in Usage!Record : disk'[x] <= details'[x]
  <2>1. details' = disk /\ disk' = disk
    BY <1>5 DEF Usage!Restart
  <2>2. \A s \in Usage!Saver : saving'[s] = Usage!NoSnapshot
    BY <1>5 DEF Usage!Restart, DownInv, Usage!NoSaves
  <2>3. QED
    BY <1>1, <2>1, <2>2
<1>6. CASE UNCHANGED <<disk, saving, careless>> /\ life # "down" /\ life' # "down"
  <2>1. \A x \in Usage!Record : details[x] <= details'[x] /\ details'[x] \in Nat
    <3>1. \A x \in Usage!Record : details[x] <= details'[x]
      BY <1>6, DetailsGrow
    <3>2. details' \in Usage!Counts
      BY DEF UsageTyped, Usage!TypeOK
    <3>3. \A x \in Usage!Record : details'[x] \in Nat
      BY <3>2 DEF Usage!Counts
    <3>4. QED
      BY <3>1, <3>3
  <2>2. QED
    BY <1>1, <1>6, <2>1 DEF SavesInv
<1>7. CASE UNCHANGED <<disk, saving, careless, details, life>>
  BY <1>7 DEF SavesInv
<1>8. CASE Usage!Count
  <2>1. life # "down"
    BY <1>8 DEF Usage!Count, QueueInv, DownInv
  <2>2. QED
    BY <1>6, <1>8, <2>1 DEF Usage!Count
<1>9. QED
  BY <1>2, <1>3, <1>4, <1>5, <1>6, <1>7, <1>8 DEF SavesInv, Usage!Next, Usage!Go, Usage!Worker, Usage!process,
     Usage!Accept, Usage!Reject, Usage!BeginCall, Usage!Publish, Usage!Signal, Usage!Finish,
     Usage!Wait, Usage!EndWorker, Usage!TakeRecord, Usage!Export, Usage!Import, Usage!Stop,
     Usage!NextMonth


-----------------------------------------------------------------------------
(* No call is out of sight of the quota. *)

\* x is counted, or will be.
InSight(x) == details[x] # 0 \/ Pending(x) \/ CallOpen(x)

LEMMA PendingKept ==
  ASSUME Usage!LimitsParameters, UsageTyped, QueueInv, Usage!Next, ~Usage!Down,
         NEW x \in Usage!Record, Pending(x)
  PROVE  Pending(x)' \/ (Usage!Count /\ x = hand)
<1>1. Len(usageQueue) \in Nat
  BY DEF UsageTyped, Usage!TypeOK
<1>2. CASE \E r \in Request : Usage!Publish(r)
  <2>1. PICK r \in Request : Usage!Publish(r)
    BY <1>2
  <2>2. UNCHANGED hand
    BY <2>1 DEF Usage!Publish
  <2>3. \A i \in 1..Len(usageQueue) : i \in 1..Len(usageQueue') /\ usageQueue'[i] = usageQueue[i]
    <3>1. CASE usageClosed
      BY <2>1, <3>1, PublishQueue
    <3>2. CASE ~usageClosed
      <4>1. /\ Len(usageQueue') = Len(usageQueue) + 1
            /\ \A i \in 1..Len(usageQueue) : usageQueue'[i] = usageQueue[i]
        BY <2>1, <3>2, PublishQueue
      <4>2. QED
        BY <1>1, <4>1
    <3>3. QED
      BY <3>1, <3>2
  <2>4. QED
    BY <2>2, <2>3 DEF Pending
<1>3. CASE Usage!TakeRecord
  <2>1. hand = Usage!NoRecord
    BY <1>3 DEF Usage!TakeRecord, QueueInv
  <2>2. PICK i \in 1..Len(usageQueue) : usageQueue[i] = x
    BY <2>1, RecordType DEF Pending
  <2>3. CASE i = 1
    BY <1>3, <2>2, <2>3, TakeQueue DEF Pending
  <2>4. CASE i # 1
    <3>1. i - 1 \in 1..Len(usageQueue') /\ usageQueue'[i - 1] = x
      BY <1>1, <1>3, <2>2, <2>4, TakeQueue
    <3>2. QED
      BY <3>1 DEF Pending
  <2>5. QED
    BY <2>3, <2>4
<1>4. CASE Usage!Count
  BY <1>4 DEF Usage!Count, Pending
<1>5. CASE UNCHANGED <<usageQueue, hand>>
  BY <1>5 DEF Pending
<1>6. QED
  BY <1>2, <1>3, <1>4, <1>5, QueueKept

LEMMA CallKept ==
  ASSUME Usage!LimitsParameters, UsageTyped, Usage!Next, ~Usage!Down, ~usageClosed,
         NEW x \in Usage!Record, CallOpen(x)
  PROVE  CallOpen(x)' \/ Pending(x)'
<1> DEFINE r == x[1]
<1>1. r \in Request /\ x = <<r, made[r]>> /\ usagePc[r] = "calling"
  BY RecordType DEF CallOpen
<1>2. usagePc \in [Request -> {"idle", "serving", "calling", "signal", "done"}]
      /\ made \in [Request -> 0..MaxCalls]
  BY DEF UsageTyped, Usage!TypeOK
<1>3. CASE Usage!Publish(r)
  <2>1. Len(usageQueue) + 1 \in 1..Len(usageQueue')
        /\ usageQueue'[Len(usageQueue) + 1] = x
    <3>1. Len(usageQueue) \in Nat
      BY DEF UsageTyped, Usage!TypeOK
    <3>2. QED
      BY <1>1, <1>3, <3>1, PublishQueue
  <2>2. QED
    BY <2>1 DEF Pending
<1>4. CASE UNCHANGED <<usagePc, made>>
  BY <1>4 DEF CallOpen
<1>5. ASSUME NEW q \in Request, Usage!Accept(q) \/ Usage!Reject(q) \/ Usage!Go(q), ~Usage!Publish(r)
      PROVE  usagePc'[r] = usagePc[r] /\ made'[r] = made[r]
  BY <1>1, <1>2, <1>5 DEF Usage!Accept, Usage!Reject, Usage!Go, Usage!BeginCall, Usage!Publish,
     Usage!Signal, Usage!Finish
<1>6. ASSUME usagePc'[r] = usagePc[r] /\ made'[r] = made[r]
      PROVE  CallOpen(x)'
  BY <1>6 DEF CallOpen
<1>7. QED
  BY <1>3, <1>4, <1>5, <1>6 DEF Usage!Next, Usage!Worker, Usage!requests, Usage!Wait,
     Usage!EndWorker, Usage!TakeRecord, Usage!Count, Usage!Export, Usage!Import, Usage!Stop,
     Usage!NextMonth, Usage!BeginSave, Usage!EndSave, Usage!Restart

LEMMA InSightKept ==
  ASSUME Usage!LimitsParameters, UsageTyped, UsageTyped', QueueInv, DownInv, Usage!Next,
         life = "running", life' = "running", NEW x \in Usage!Record, InSight(x)
  PROVE  InSight(x)'
<1>1. ~Usage!Down /\ ~usageClosed
  BY DEF Usage!Down, DownInv
<1>2. details[x] \in 0..2 /\ details \in Usage!Counts
  BY DEF UsageTyped, Usage!TypeOK, Usage!Counts
<1>3. details' \in Usage!Counts
  BY DEF UsageTyped, Usage!TypeOK
<1>4. details'[x] \in 0..2
  BY <1>3 DEF Usage!Counts
<1>5. CASE details[x] # 0
  <2>1. details[x] <= details'[x]
    BY DetailsGrow
  <2>2. QED
    BY <1>2, <1>4, <1>5, <2>1 DEF InSight
<1>6. CASE Usage!Count /\ x = hand
  <2>1. details'[x] = Usage!Capped(details[x] + 1)
    BY <1>2, <1>6 DEF Usage!Count, Usage!Counts
  <2>2. \A n \in 0..2 : Usage!Capped(n + 1) # 0
    BY DEF Usage!Capped
  <2>3. QED
    BY <1>2, <2>1, <2>2 DEF InSight
<1>7. QED
  BY <1>1, <1>5, <1>6, PendingKept, CallKept DEF InSight

LEMMA WhenNext ==
  ASSUME Usage!LimitsParameters, UsageTyped, UsageTyped', QueueInv, DownInv, WhenInv, Usage!Next
  PROVE  WhenInv'
<1>1. /\ usagePc \in [Request -> {"idle", "serving", "calling", "signal", "done"}]
      /\ made \in [Request -> 0..MaxCalls] /\ when \in [Usage!Record -> 0..MaxMonth]
      /\ month \in Nat
  BY UsageRequests DEF UsageTyped, Usage!TypeOK
<1>2. ASSUME NEW r \in Request, usagePc'[r] = "idle"
      PROVE  made'[r] = 0
  <2>1. usagePc[r] = "idle"
    BY <1>1, <1>2 DEF Usage!Next, Usage!Worker, Usage!requests, Usage!Wait,
       Usage!EndWorker, Usage!TakeRecord, Usage!Count, Usage!Export, Usage!Import, Usage!Stop,
       Usage!NextMonth, Usage!BeginSave, Usage!EndSave, Usage!Restart, Usage!Down, Usage!Go,
       Usage!Accept, Usage!Reject, Usage!BeginCall, Usage!Publish, Usage!Signal, Usage!Finish
  <2>2. QED
    BY <1>2, <2>1, CallsNext DEF WhenInv
<1>3. ASSUME NEW x \in Usage!Record
      PROVE  /\ when'[x] <= month' /\ (when'[x] # 0 <=> x[2] <= made'[x[1]])
             /\ when'[x] # 0 => when[x] # 0 \/ CallOpen(x)'
  <2>1. /\ x[1] \in Request /\ x = <<x[1], x[2]>> /\ x[2] \in Nat
        /\ when[x] \in Nat /\ when[x] <= month /\ (when[x] # 0 <=> x[2] <= made[x[1]])
        /\ made[x[1]] \in Nat
    BY <1>1, UsageRequests, RecordType DEF WhenInv
  <2>2. CASE \E r \in Request : Usage!BeginCall(r)
    <3>1. PICK r \in Request : Usage!BeginCall(r)
      BY <2>2
    <3>2. /\ month' = month /\ month # 0
          /\ made'[x[1]] = IF x[1] = r THEN made[r] + 1 ELSE made[x[1]]
          /\ when'[x] = IF x = <<r, made[r] + 1>> THEN month ELSE when[x]
          /\ usagePc'[r] = "calling"
      BY <1>1, <2>1, <3>1, UsageRequests DEF Usage!BeginCall, UsageTyped, Usage!TypeOK
    <3>3. CASE x[1] = r /\ x[2] = made[r] + 1
      BY <1>1, <2>1, <3>2, <3>3 DEF CallOpen
    <3>4. CASE x[1] # r \/ x[2] # made[r] + 1
      <4>1. when'[x] = when[x]
        BY <2>1, <3>2, <3>4
      <4>2. x[2] <= made'[x[1]] <=> x[2] <= made[x[1]]
        BY <2>1, <3>2, <3>4
      <4>3. QED
        BY <2>1, <3>2, <4>1, <4>2
    <3>5. QED
      BY <3>3, <3>4
  <2>3. CASE Usage!NextMonth
    BY <1>1, <2>1, <2>3 DEF Usage!NextMonth, Usage!requests
  <2>4. CASE UNCHANGED <<month, made, when>>
    BY <2>1, <2>4
  <2>5. QED
    BY <2>2, <2>3, <2>4 DEF Usage!Next, Usage!Worker, Usage!requests, Usage!Wait,
       Usage!EndWorker, Usage!TakeRecord, Usage!Count, Usage!Export, Usage!Import, Usage!Stop,
       Usage!BeginSave, Usage!EndSave, Usage!Restart, Usage!Down, Usage!Go,
       Usage!Accept, Usage!Reject, Usage!Publish, Usage!Signal, Usage!Finish
<1>4. ASSUME life' = "running", NEW x \in Usage!Record \ forgotten', when'[x] # 0
      PROVE  InSight(x)'
  <2>1. CASE \E loaded \in BOOLEAN : Usage!Restart(loaded)
    BY <1>4, <2>1 DEF Usage!Restart, Usage!requests, InSight
  <2>2. CASE life = "running" /\ forgotten' = forgotten
    BY <1>3, <1>4, <2>2, InSightKept DEF InSight, WhenInv
  <2>3. QED
    BY <1>4, <2>1, <2>2 DEF Usage!Next, Usage!Worker, Usage!requests, Usage!Wait,
       Usage!EndWorker, Usage!TakeRecord, Usage!Count, Usage!Export, Usage!Import, Usage!Stop,
       Usage!NextMonth, Usage!BeginSave, Usage!EndSave, Usage!Down, Usage!Go,
       Usage!Accept, Usage!Reject, Usage!BeginCall, Usage!Publish, Usage!Signal, Usage!Finish
<1>5. QED
  BY <1>2, <1>3, <1>4 DEF WhenInv, InSight


-----------------------------------------------------------------------------
(* Quotas. *)

LEMMA TimesMonotone ==
  ASSUME NEW a \in Nat, NEW b \in Nat, NEW c \in Nat, a <= b
  PROVE  a * c \in Nat /\ b * c \in Nat /\ a * c <= b * c
OBVIOUS

LEMMA UnderWayMeans ==
  ASSUME Usage!LimitsParameters, UsageTyped, NEW r \in Request
  PROVE  Usage!UnderWay(r) <=> \/ usagePc[r] \in {"serving", "calling", "signal"}
                               \/ \E x \in Usage!Record : Pending(x) /\ x[1] = r
<1>1. usageQueue \in Seq(Usage!Record) /\ hand \in Usage!Record \cup {Usage!NoRecord}
  BY DEF UsageTyped, Usage!TypeOK
<1>2. DOMAIN usageQueue = 1..Len(usageQueue)
      /\ \A i \in 1..Len(usageQueue) : usageQueue[i] \in Usage!Record
  BY <1>1
<1>3. \A x : x \in Usage!ToSet(usageQueue) <=> \E i \in 1..Len(usageQueue) : usageQueue[i] = x
  BY <1>2, UsageSets
<1>4. \A x : (x \in Usage!ToSet(usageQueue) \cup {hand} /\ x # Usage!NoRecord)
               <=> x \in Usage!Record /\ Pending(x)
  BY <1>1, <1>2, <1>3, RecordType DEF Pending
<1>5. QED
  BY <1>4 DEF Usage!UnderWay

LEMMA UnderWayNotIdle ==
  ASSUME Usage!LimitsParameters, UsageTyped, WayInv, WhenInv, NEW r \in Request, Usage!UnderWay(r)
  PROVE  usagePc[r] # "idle"
<1>1. ASSUME NEW x \in Usage!Record, Pending(x), x[1] = r
      PROVE  usagePc[r] # "idle"
  <2>1. x[2] \in 1..MaxCalls /\ x[2] <= made[r] /\ MaxCalls \in Nat
    BY <1>1, RecordType, UsageRequests DEF WayInv
  <2>2. QED
    BY <2>1 DEF WhenInv
<1>2. QED
  BY <1>1, UnderWayMeans

\* Only Accept brings a request under way.
LEMMA UnderWayNext ==
  ASSUME Usage!LimitsParameters, UsageTyped, UsageTyped', Usage!Next,
         NEW r \in Request, Usage!UnderWay(r)'
  PROVE  Usage!UnderWay(r) \/ Usage!Accept(r)
<1>1. \/ usagePc'[r] \in {"serving", "calling", "signal"}
      \/ \E x \in Usage!Record : Pending(x)' /\ x[1] = r
  <2>1. usageQueue' \in Seq(Usage!Record) /\ hand' \in Usage!Record \cup {Usage!NoRecord}
    BY DEF UsageTyped, Usage!TypeOK
  <2>2. \/ usagePc'[r] \in {"serving", "calling", "signal"}
        \/ \E x \in {usageQueue'[i] : i \in DOMAIN usageQueue'} \cup {hand'} :
             x # Usage!NoRecord /\ x[1] = r
    BY DEF Usage!UnderWay, Usage!ToSet
  <2>3. QED
    BY <2>1, <2>2 DEF Pending
<1>2. ASSUME usagePc'[r] \in {"serving", "calling", "signal"}
      PROVE  usagePc[r] \in {"serving", "calling", "signal"} \/ Usage!Accept(r)
  <2>1. usagePc \in [Request -> {"idle", "serving", "calling", "signal", "done"}]
    BY DEF UsageTyped, Usage!TypeOK
  <2>2. ASSUME NEW q \in Request, Usage!Accept(q) \/ Usage!Reject(q) \/ Usage!Go(q)
        PROVE  usagePc[r] \in {"serving", "calling", "signal"} \/ Usage!Accept(r)
    BY <1>2, <2>1, <2>2 DEF Usage!Go, Usage!Accept, Usage!Reject, Usage!BeginCall,
       Usage!Publish, Usage!Signal, Usage!Finish
  <2>3. CASE Usage!Down
    BY <1>2, <2>1, <2>3 DEF Usage!Down
  <2>4. QED
    BY <1>2, <2>2, <2>3 DEF Usage!Next, Usage!Worker, Usage!requests, Usage!Wait,
       Usage!EndWorker, Usage!TakeRecord, Usage!Count, Usage!Export, Usage!Import, Usage!Stop,
       Usage!NextMonth, Usage!BeginSave, Usage!EndSave, Usage!Restart
<1>3. ASSUME NEW x \in Usage!Record, Pending(x)', x[1] = r
      PROVE  Usage!UnderWay(r)
  <2>1. CASE Pending(x)
    BY <1>3, <2>1, UnderWayMeans
  <2>2. CASE Usage!Publish(r)
    BY <2>2, UnderWayMeans DEF Usage!Publish
  <2>3. QED
    BY <1>3, <2>1, <2>2, PendingNext
<1>4. QED
  BY <1>1, <1>2, <1>3, UnderWayMeans

LEMMA UnderWayFinite ==
  ASSUME Usage!LimitsParameters
  PROVE  IsFiniteSet(UnderWaySet) /\ Cardinality(UnderWaySet) \in Nat
<1>1. UnderWaySet \in SUBSET Request
  BY DEF UnderWaySet
<1>2. QED
  BY <1>1, UsageRequests, FS_Subset, FS_CardinalityType

\* The count of CheckAccess, and the peak.
LEMMA AcceptPeak ==
  ASSUME Usage!LimitsParameters, UsageTyped, WayInv, WhenInv, NEW r \in Request, Usage!Accept(r)
  PROVE  /\ r \notin UnderWaySet
         /\ Cardinality(UnderWaySet) + 1 <= peak' /\ peak <= peak'
         /\ peak' \in 0..Usage!Cardinality(Request)
<1>1. usagePc[r] = "idle"
  BY DEF Usage!Accept
<1>2. r \notin UnderWaySet
  BY <1>1, UnderWayNotIdle DEF UnderWaySet
<1>3. Cardinality(UnderWaySet) + 1 <= Cardinality(Request)
  <2>1. UnderWaySet \in SUBSET (Request \ {r})
    BY <1>2 DEF UnderWaySet
  <2>2. IsFiniteSet(Request \ {r}) /\ Cardinality(Request \ {r}) = Cardinality(Request) - 1
    BY UsageRequests, FS_RemoveElement
  <2>3. Cardinality(UnderWaySet) <= Cardinality(Request \ {r})
    BY <2>1, <2>2, FS_Subset
  <2>4. QED
    BY <2>2, <2>3, UsageRequests, UnderWayFinite
<1>4. peak' = IF Cardinality(UnderWaySet) + 1 > peak THEN Cardinality(UnderWaySet) + 1 ELSE peak
  BY UsageSets DEF Usage!Accept, UnderWaySet
<1>5. peak \in 0..Cardinality(Request)
  BY UsageSets DEF UsageTyped, Usage!TypeOK
<1>6. QED
  BY <1>2, <1>3, <1>4, <1>5, UsageRequests, UnderWayFinite, UsageSets

LEMMA PeakNext ==
  ASSUME Usage!LimitsParameters, UsageTyped, UsageTyped', WayInv, WhenInv, Usage!Next,
         Cardinality(UnderWaySet) <= peak
  PROVE  Cardinality(UnderWaySet') <= peak'
<1>1. peak \in Nat
  BY UsageSets, UsageRequests DEF UsageTyped, Usage!TypeOK
<1>2. CASE \E r \in Request : Usage!Accept(r)
  <2>1. PICK r \in Request : Usage!Accept(r)
    BY <1>2
  <2>2. UnderWaySet' \in SUBSET (UnderWaySet \cup {r})
    <3>1. ASSUME NEW q \in Request, Usage!UnderWay(q)', q # r
          PROVE  Usage!UnderWay(q)
      <4>1. ~Usage!Accept(q)
        BY <2>1, <3>1 DEF Usage!Accept, UsageTyped, Usage!TypeOK
      <4>2. QED
        BY <3>1, <4>1, UnderWayNext
    <3>2. QED
      BY <3>1 DEF UnderWaySet
  <2>3. IsFiniteSet(UnderWaySet \cup {r})
        /\ Cardinality(UnderWaySet \cup {r}) = Cardinality(UnderWaySet) + 1
    BY <2>1, AcceptPeak, UnderWayFinite, FS_AddElement
  <2>4. Cardinality(UnderWaySet') <= Cardinality(UnderWaySet) + 1
    BY <2>2, <2>3, FS_Subset
  <2>5. IsFiniteSet(UnderWaySet') /\ Cardinality(UnderWaySet') \in Nat
    BY <2>2, <2>3, FS_Subset, FS_CardinalityType
  <2>6. peak' \in Nat /\ Cardinality(UnderWaySet) + 1 <= peak'
    BY <2>1, AcceptPeak, UsageSets, UsageRequests
  <2>7. QED
    BY <2>4, <2>5, <2>6, UnderWayFinite
<1>3. CASE ~\E r \in Request : Usage!Accept(r)
  <2>1. UnderWaySet' \in SUBSET UnderWaySet
    BY <1>3, UnderWayNext DEF UnderWaySet
  <2>2. peak' = peak
    BY <1>3 DEF Usage!Next, Usage!Worker, Usage!requests, Usage!Wait,
       Usage!EndWorker, Usage!TakeRecord, Usage!Count, Usage!Export, Usage!Import, Usage!Stop,
       Usage!NextMonth, Usage!BeginSave, Usage!EndSave, Usage!Restart, Usage!Down, Usage!Go,
       Usage!Reject, Usage!BeginCall, Usage!Publish, Usage!Signal, Usage!Finish
  <2>3. IsFiniteSet(UnderWaySet') /\ Cardinality(UnderWaySet') <= Cardinality(UnderWaySet)
    BY <2>1, UnderWayFinite, FS_Subset
  <2>4. Cardinality(UnderWaySet') \in Nat
    BY <2>3, FS_CardinalityType
  <2>5. QED
    BY <1>1, <2>2, <2>3, <2>4, UnderWayFinite
<1>4. QED
  BY <1>2, <1>3

LEMMA UsageTypeNext ==
  ASSUME Usage!LimitsParameters, UsageTyped, WayInv, WhenInv, Usage!Next
  PROVE  UsageTyped'
<1>1. ASSUME NEW r \in Request, Usage!Accept(r) \/ Usage!Reject(r) \/ Usage!Go(r)
      PROVE  UsageTyped'
  <2>1. peak' \in 0..Usage!Cardinality(Request)
    <3>1. CASE Usage!Accept(r)
      BY <3>1, AcceptPeak
    <3>2. CASE Usage!Reject(r) \/ Usage!Go(r)
      BY <3>2 DEF UsageTyped, Usage!TypeOK, Usage!Reject, Usage!Go, Usage!BeginCall,
         Usage!Publish, Usage!Signal, Usage!Finish
    <3>3. QED
      BY <1>1, <3>1, <3>2
  <2>2. QED
    BY <1>1, <2>1, UsageTypeRequests
<1>2. ASSUME NEW s \in Usage!Saver, Usage!BeginSave(s)
      PROVE  UsageTyped'
  BY <1>2, UsageTypeSaves
<1>3. ASSUME NEW s \in Usage!Saver, NEW stored \in BOOLEAN, Usage!EndSave(s, stored)
      PROVE  UsageTyped'
  BY <1>3, UsageTypeSaves
<1>4. QED
  BY <1>1, <1>2, <1>3, UsageTypeWorker, UsageTypeProcess DEF Usage!Next

LEMMA ReachFinite ==
  ASSUME Usage!LimitsParameters, NEW p \in Pattern, NEW m
  PROVE  /\ IsFiniteSet(Usage!Record) /\ IsFiniteSet(Reach(p, m))
         /\ Cardinality(Reach(p, m)) \in Nat
<1>1. IsFiniteSet(1..MaxCalls)
  BY UsageRequests, FS_Interval
<1>2. IsFiniteSet(Usage!Record)
  BY <1>1, UsageRequests, FS_Product DEF Usage!Record
<1>3. Reach(p, m) \in SUBSET Usage!Record
  BY DEF Reach
<1>4. QED
  BY <1>2, <1>3, FS_Subset, FS_CardinalityType

\* The calls of the requests that are under way.
LEMMA CallsUnderWay ==
  ASSUME Usage!LimitsParameters
  PROVE  /\ IsFiniteSet(UnderWaySet \X (1..MaxCalls))
         /\ Cardinality(UnderWaySet \X (1..MaxCalls)) = Cardinality(UnderWaySet) * MaxCalls
<1>1. IsFiniteSet(1..MaxCalls) /\ Cardinality(1..MaxCalls) = MaxCalls
  <2>1. MaxCalls \in Nat \ {0} /\ 1 \in Int /\ MaxCalls \in Int
    BY UsageRequests
  <2>2. QED
    BY <2>1, FS_Interval
<1>2. QED
  BY <1>1, UnderWayFinite, FS_Product

\* Until a new request is let in, the calls of a month are those it had or could have.
LEMMA ReachNext ==
  ASSUME Usage!LimitsParameters, UsageTyped, UsageTyped', WhenInv, Usage!Next,
         NEW p \in Pattern, NEW m \in 1..month',
         \A r \in Request : Usage!Applies(p, r) /\ m = month => ~Usage!Accept(r),
         m <= month
  PROVE  Reach(p, m)' \subseteq Reach(p, m)
<1> SUFFICES ASSUME NEW x \in Reach(p, m)'
             PROVE  x \in Reach(p, m)
  OBVIOUS
<1> DEFINE r == x[1]
<1>1. /\ x \in Usage!Record /\ x \notin forgotten' /\ Usage!Applies(p, r)
      /\ \/ when'[x] = m
         \/ m = month' /\ when'[x] = 0 /\ usagePc'[r] \in {"serving", "calling", "signal"}
  BY DEF Reach, Usage!Applies
<1>2. /\ r \in Request /\ x = <<r, x[2]>> /\ x[2] \in 1..MaxCalls
  BY <1>1, RecordType
<1> HIDE DEF r
<1>3. /\ when \in [Usage!Record -> 0..MaxMonth] /\ month \in Nat /\ month' \in Nat
      /\ usagePc \in [Request -> {"idle", "serving", "calling", "signal", "done"}]
      /\ \A y \in Usage!Record : when[y] \in Nat
      /\ m \in Nat /\ m # 0
  BY UsageRequests DEF UsageTyped, Usage!TypeOK
<1>4. forgotten \subseteq forgotten'
  BY DEF Usage!Next, Usage!Worker, Usage!requests, Usage!Wait,
       Usage!EndWorker, Usage!TakeRecord, Usage!Count, Usage!Export, Usage!Import, Usage!Stop,
       Usage!NextMonth, Usage!BeginSave, Usage!EndSave, Usage!Restart, Usage!Down, Usage!Go,
       Usage!Accept, Usage!Reject, Usage!BeginCall, Usage!Publish, Usage!Signal, Usage!Finish
<1>5. SUFFICES \/ when[x] = m
               \/ m = month /\ when[x] = 0 /\ usagePc[r] \in {"serving", "calling", "signal"}
  BY <1>1, <1>4 DEF Reach, r
<1>6. ASSUME NEW q \in Request, Usage!BeginCall(q)
      PROVE  \/ when[x] = m
             \/ m = month /\ when[x] = 0 /\ usagePc[r] \in {"serving", "calling", "signal"}
  <2>1. CASE x = <<q, made[q] + 1>>
    <3>1. r = q /\ ~(x[2] <= made[r])
      BY <1>2, <1>6, <2>1 DEF Usage!BeginCall, UsageTyped, Usage!TypeOK
    <3>2. when[x] = 0
      BY <1>1, <3>1 DEF WhenInv, r
    <3>3. month' = month /\ usagePc[r] = "serving" /\ when'[x] = month
      BY <1>1, <1>3, <1>6, <2>1, <3>1 DEF Usage!BeginCall
    <3>4. QED
      BY <1>1, <1>3, <3>2, <3>3
  <2>2. CASE x # <<q, made[q] + 1>>
    <3>1. when'[x] = when[x] /\ month' = month
      BY <1>1, <1>3, <1>6, <2>2 DEF Usage!BeginCall
    <3>2. usagePc'[r] \in {"serving", "calling", "signal"}
             => usagePc[r] \in {"serving", "calling", "signal"}
      BY <1>2, <1>3, <1>6 DEF Usage!BeginCall
    <3>3. QED
      BY <1>1, <3>1, <3>2
  <2>3. QED
    BY <2>1, <2>2
<1>7. CASE Usage!NextMonth
  BY <1>1, <1>3, <1>7 DEF Usage!NextMonth, Usage!requests
<1>8. ASSUME when' = when, month' = month
      PROVE  \/ when[x] = m
             \/ m = month /\ when[x] = 0 /\ usagePc[r] \in {"serving", "calling", "signal"}
  <2>1. ASSUME usagePc'[r] \in {"serving", "calling", "signal"}, m = month
        PROVE  usagePc[r] \in {"serving", "calling", "signal"}
    <3>1. Usage!UnderWay(r)'
      BY <2>1, <1>2 DEF Usage!UnderWay
    <3>2. ~Usage!Accept(r)
      BY <1>1, <1>2, <2>1
    <3>3. ASSUME NEW q \in Request, Usage!Accept(q)
          PROVE  usagePc[r] \in {"serving", "calling", "signal"}
      BY <1>2, <1>3, <2>1, <3>2, <3>3 DEF Usage!Accept
    <3>4. ASSUME NEW q \in Request, Usage!Reject(q) \/ Usage!Go(q)
          PROVE  usagePc[r] \in {"serving", "calling", "signal"}
      BY <1>2, <1>3, <2>1, <3>4 DEF Usage!Go, Usage!Reject, Usage!BeginCall,
         Usage!Publish, Usage!Signal, Usage!Finish
    <3>5. CASE Usage!Down
      BY <1>2, <1>3, <2>1, <3>5 DEF Usage!Down
    <3>6. QED
      BY <2>1, <3>3, <3>4, <3>5 DEF Usage!Next, Usage!Worker, Usage!requests, Usage!Wait,
         Usage!EndWorker, Usage!TakeRecord, Usage!Count, Usage!Export, Usage!Import,
         Usage!Stop, Usage!NextMonth, Usage!BeginSave, Usage!EndSave, Usage!Restart
  <2>2. QED
    BY <1>1, <1>8, <2>1
<1>9. QED
  BY <1>6, <1>7, <1>8 DEF Usage!Next, Usage!Worker, Usage!requests, Usage!Wait,
       Usage!EndWorker, Usage!TakeRecord, Usage!Count, Usage!Export, Usage!Import, Usage!Stop,
       Usage!BeginSave, Usage!EndSave, Usage!Restart, Usage!Down, Usage!Go,
       Usage!Accept, Usage!Reject, Usage!Publish, Usage!Signal, Usage!Finish

\* In a new month a pattern's calls are those of the requests under way.
LEMMA ReachNewMonth ==
  ASSUME Usage!LimitsParameters, UsageTyped, UsageTyped', WhenInv, Usage!NextMonth,
         NEW p \in Pattern, NEW m \in Nat, m = month', Cardinality(UnderWaySet) <= peak
  PROVE  Cardinality(Reach(p, m)') <= peak * MaxCalls
<1>1. month' = month + 1 /\ month \in Nat /\ UNCHANGED <<usagePc, made, when, forgotten, peak>>
  BY UsageRequests DEF Usage!NextMonth, Usage!requests, UsageTyped, Usage!TypeOK
<1>2. \A x \in Usage!Record : when[x] \in Nat /\ when[x] <= month
  BY UsageRequests DEF WhenInv, UsageTyped, Usage!TypeOK
<1>3. ASSUME NEW x \in Reach(p, m)'
      PROVE  x \in UnderWaySet \X (1..MaxCalls)
  <2>1. x \in Usage!Record
    BY <1>3 DEF Reach
  <2>2. usagePc[x[1]] \in {"serving", "calling", "signal"}
    BY <1>1, <1>2, <1>3, <2>1 DEF Reach
  <2>3. x[1] \in UnderWaySet
    BY <2>1, <2>2, RecordType DEF UnderWaySet, Usage!UnderWay
  <2>4. QED
    BY <2>1, <2>3, RecordType
<1> DEFINE R == Reach(p, m)'
           U == UnderWaySet \X (1..MaxCalls)
<1>4. R \in SUBSET U
  BY <1>3
<1>5. IsFiniteSet(U) /\ Cardinality(U) = Cardinality(UnderWaySet) * MaxCalls
  BY CallsUnderWay
<1> HIDE DEF R, U
<1>6. IsFiniteSet(R) /\ Cardinality(R) <= Cardinality(U)
  BY <1>4, <1>5, FS_Subset
<1>7. /\ Cardinality(UnderWaySet) \in Nat /\ MaxCalls \in Nat /\ peak \in Nat
      /\ Cardinality(R) \in Nat
  BY <1>6, UnderWayFinite, UsageRequests, UsageSets, FS_CardinalityType
     DEF UsageTyped, Usage!TypeOK
<1>8. Cardinality(UnderWaySet) * MaxCalls <= peak * MaxCalls
      /\ Cardinality(UnderWaySet) * MaxCalls \in Nat /\ peak * MaxCalls \in Nat
  BY <1>7, TimesMonotone
<1>9. Cardinality(R) <= peak * MaxCalls
  BY <1>5, <1>6, <1>7, <1>8
<1>10. QED
  BY <1>9 DEF R

\* The statistics hold what CheckAccess counts for a plain pattern.
LEMMA UsageCounts ==
  ASSUME Usage!LimitsParameters, UsageTyped, AtMostOnce, NEW p \in Pattern, Usage!Plain(p),
         NEW S \in SUBSET Usage!Record,
         \A x \in S : details[x] # 0 /\ when[x] = month /\ Usage!Applies(p, x[1])
  PROVE  IsFiniteSet(S) /\ Cardinality(S) <= Usage!Usage(p) /\ Usage!Usage(p) \in Nat
<1> DEFINE C == {c \in Usage!Record \X (1..2) :
                   /\ c[2] <= details[c[1]] /\ when[c[1]] = month
                   /\ <<p, RecordedAs[ModelOf[c[1][1]]]>> \in Matches}
           f == [x \in S |-> <<x, 1>>]
<1>1. Usage!Usage(p) = Cardinality(C)
  BY UsageSets DEF Usage!Usage
<1>2. IsFiniteSet(Usage!Record)
  BY ReachFinite
<1>3. IsFiniteSet(1..2)
  <2>1. 1 \in Int /\ 2 \in Int
    OBVIOUS
  <2>2. QED
    BY <2>1, FS_Interval, Zenon
<1>4. IsFiniteSet(Usage!Record \X (1..2))
  BY <1>2, <1>3, FS_Product
<1>5. C \in SUBSET (Usage!Record \X (1..2))
  OBVIOUS
<1>6. IsFiniteSet(C) /\ Cardinality(C) \in Nat
  BY <1>4, <1>5, FS_Subset, FS_CardinalityType
<1>7. ASSUME NEW x \in S
      PROVE  <<x, 1>> \in C
  <2>1. x \in Usage!Record /\ x[1] \in Request
    BY RecordType
  <2>2. details[x] \in 0..2 /\ details[x] # 0
    BY <2>1 DEF UsageTyped, Usage!TypeOK, Usage!Counts
  <2>3. ModelOf[x[1]] \in Model /\ <<p, ModelOf[x[1]]>> \in Matches
    BY <2>1 DEF Usage!LimitsParameters, Usage!Applies
  <2>4. <<p, RecordedAs[ModelOf[x[1]]]>> \in Matches
    BY <2>3 DEF Usage!Plain
  <2>5. QED
    BY <2>1, <2>2, <2>4
<1>8. f \in [S -> C] /\ \A x, y \in S : f[x] = f[y] => x = y
  BY <1>7
<1>9. f \in Injection(S, C)
  BY <1>8 DEF Injection, IsInjective
<1> HIDE DEF f, C
<1>10. IsFiniteSet(S) /\ Cardinality(S) <= Cardinality(C)
  BY <1>6, <1>9, FS_Injection
<1>11. QED
  BY <1>1, <1>6, <1>10

\* A request that is let in: the calls that count are below the quota, and the others
\* are calls of requests under way.
LEMMA ReachAccept ==
  ASSUME Usage!LimitsParameters, UsageTyped, UsageTyped', AtMostOnce, WhenInv, QuotaInv,
         NEW r \in Request, Usage!Accept(r), Cardinality(UnderWaySet') <= peak',
         NEW p \in Pattern, Usage!Plain(p), Usage!Applies(p, r), NEW m, m = month
  PROVE  Cardinality(Reach(p, m)') <= Quota[p] - 1 + peak' * MaxCalls
<1>1. /\ usagePc[r] = "idle" /\ life = "running" /\ usagePc' = [usagePc EXCEPT ![r] = "serving"]
      /\ UNCHANGED <<month, made, when, usageQueue, hand, details, forgotten>>
  BY DEF Usage!Accept, Usage!process
<1>2. Usage!Usage(p) < Quota[p]
  <2>1. PICK q \in Pattern : Usage!Applies(q, r) /\ Usage!Within(q)
    BY DEF Usage!Accept, Usage!CheckAccess
  <2>2. ModelOf[r] \in Model
    BY DEF Usage!LimitsParameters
  <2>3. q = p
    BY <2>1, <2>2 DEF Usage!Plain, Usage!Applies
  <2>4. QED
    BY <2>1, <2>3 DEF Usage!Within
<1> DEFINE R == Reach(p, m)'
           S == {x \in R : details[x] # 0 /\ when[x] = month}
           U == UnderWaySet' \X (1..MaxCalls)
<1>3. S \in SUBSET Usage!Record
      /\ \A x \in S : details[x] # 0 /\ when[x] = month /\ Usage!Applies(p, x[1])
  BY DEF Reach, Usage!Applies
<1>4. ASSUME NEW x \in R, x \notin S
      PROVE  x \in U
  <2>1. /\ x \in Usage!Record /\ x \notin forgotten /\ x[1] \in Request
        /\ x[2] \in 1..MaxCalls /\ x = <<x[1], x[2]>>
        /\ \/ when[x] = month
           \/ usagePc'[x[1]] \in {"serving", "calling", "signal"}
    BY <1>1, <1>4, RecordType, m = month DEF Reach
  <2>2. month # 0
    BY UsageRequests DEF UsageTyped, Usage!TypeOK
  <2>3. CASE usagePc'[x[1]] \in {"serving", "calling", "signal"}
    BY <2>1, <2>3 DEF UnderWaySet, Usage!UnderWay
  <2>4. CASE when[x] = month
    <3>1. details[x] # 0 \/ Pending(x) \/ CallOpen(x)
      BY <1>1, <2>1, <2>2, <2>4 DEF WhenInv
    <3>2. Pending(x) \/ CallOpen(x)
      BY <1>4, <2>4, <3>1
    <3>3. Usage!UnderWay(x[1])
      BY <2>1, <3>2, UnderWayMeans DEF CallOpen
    <3>4. Usage!UnderWay(x[1])'
      <4>1. usagePc'[x[1]] \in {"serving", "calling", "signal"}
            \/ usagePc'[x[1]] = usagePc[x[1]]
        BY <1>1, <2>1 DEF UsageTyped, Usage!TypeOK
      <4>2. QED
        BY <1>1, <3>3, <4>1 DEF Usage!UnderWay
    <3>5. QED
      BY <2>1, <3>4 DEF UnderWaySet
  <2>5. QED
    BY <2>1, <2>3, <2>4
<1>5. R \in SUBSET (S \cup U)
  BY <1>4
<1>6. IsFiniteSet(S) /\ Cardinality(S) <= Usage!Usage(p) /\ Usage!Usage(p) \in Nat
  <2> HIDE DEF S
  <2>1. QED
    BY <1>3, UsageCounts
<1>7. /\ IsFiniteSet(U) /\ Cardinality(U) = Cardinality(UnderWaySet') * MaxCalls
      /\ Cardinality(UnderWaySet') \in Nat
  <2>1. IsFiniteSet(UnderWaySet')
    <3>1. UnderWaySet' \in SUBSET Request
      BY DEF UnderWaySet
    <3>2. QED
      BY <3>1, UsageRequests, FS_Subset
  <2>2. IsFiniteSet(1..MaxCalls) /\ Cardinality(1..MaxCalls) = MaxCalls
    <3>1. MaxCalls \in Nat \ {0} /\ 1 \in Int /\ MaxCalls \in Int
      BY UsageRequests
    <3>2. QED
      BY <3>1, FS_Interval
  <2>3. QED
    BY <2>1, <2>2, FS_Product, FS_CardinalityType
<1> HIDE DEF R, S, U
<1>8. /\ IsFiniteSet(S \cup U)
      /\ Cardinality(S \cup U) <= Cardinality(S) + Cardinality(U)
  <2>1. Cardinality(S) \in Nat /\ Cardinality(U) \in Nat /\ Cardinality(S \cap U) \in Nat
    BY <1>6, <1>7, FS_Intersection, FS_CardinalityType
  <2>2. /\ IsFiniteSet(S \cup U)
        /\ Cardinality(S \cup U) = Cardinality(S) + Cardinality(U) - Cardinality(S \cap U)
    BY <1>6, <1>7, FS_Union
  <2>3. QED
    BY <2>1, <2>2
<1>9. IsFiniteSet(R) /\ Cardinality(R) <= Cardinality(S \cup U)
  BY <1>5, <1>8, FS_Subset
<1>10. /\ Cardinality(R) \in Nat /\ Cardinality(S) \in Nat /\ Cardinality(U) \in Nat
       /\ Cardinality(S \cup U) \in Nat
  BY <1>6, <1>7, <1>8, <1>9, FS_CardinalityType
<1>11. /\ Cardinality(UnderWaySet') * MaxCalls <= peak' * MaxCalls
       /\ peak' * MaxCalls \in Nat
  <2>1. peak' \in Nat /\ MaxCalls \in Nat
    BY UsageRequests, UsageSets DEF UsageTyped, Usage!TypeOK
  <2>2. QED
    BY <1>7, <2>1, TimesMonotone
<1>12. Quota[p] \in Nat
  BY DEF Usage!LimitsParameters
<1>13. Cardinality(R) <= Quota[p] - 1 + peak' * MaxCalls
  BY <1>2, <1>6, <1>7, <1>8, <1>9, <1>10, <1>11, <1>12
<1>14. QED
  BY <1>13 DEF R

LEMMA QuotaNext ==
  ASSUME Usage!LimitsParameters, UsageTyped, UsageTyped', WayInv, AtMostOnce, WhenInv, QuotaInv,
         Usage!Next
  PROVE  QuotaInv'
<1>1. Cardinality(UnderWaySet') <= peak'
  BY PeakNext DEF QuotaInv
<1>2. month \in Nat /\ month # 0 /\ month' \in Nat /\ peak \in Nat /\ peak' \in Nat
      /\ MaxCalls \in Nat
  BY UsageRequests, UsageSets DEF UsageTyped, Usage!TypeOK
<1>3. peak <= peak' /\ (month' = month \/ Usage!NextMonth)
  <2>1. ASSUME NEW r \in Request, Usage!Accept(r)
        PROVE  peak <= peak' /\ month' = month
    BY <2>1, AcceptPeak DEF Usage!Accept
  <2>2. ASSUME ~\E r \in Request : Usage!Accept(r)
        PROVE  peak' = peak /\ (month' = month \/ Usage!NextMonth)
    BY <2>2 DEF Usage!Next, Usage!Worker, Usage!requests, Usage!Wait,
       Usage!EndWorker, Usage!TakeRecord, Usage!Count, Usage!Export, Usage!Import, Usage!Stop,
       Usage!NextMonth, Usage!BeginSave, Usage!EndSave, Usage!Restart, Usage!Down, Usage!Go,
       Usage!Reject, Usage!BeginCall, Usage!Publish, Usage!Signal, Usage!Finish
  <2>3. QED
    BY <1>2, <2>1, <2>2
<1>4. peak * MaxCalls \in Nat /\ peak' * MaxCalls \in Nat /\ peak * MaxCalls <= peak' * MaxCalls
  BY <1>2, <1>3, TimesMonotone
<1>5. ASSUME NEW p \in Pattern, NEW m \in 1..month', Usage!Plain(p)
      PROVE  Cardinality(Reach(p, m)') <= Quota[p] - 1 + peak' * MaxCalls
  <2>1. Quota[p] \in Nat /\ Quota[p] # 0
    BY DEF Usage!LimitsParameters
  <2>2. CASE m <= month /\ Reach(p, m)' \subseteq Reach(p, m)
    <3>1. IsFiniteSet(Reach(p, m)') /\ Cardinality(Reach(p, m)') <= Cardinality(Reach(p, m))
      BY <2>2, ReachFinite, FS_Subset
    <3>2. Cardinality(Reach(p, m)') \in Nat /\ Cardinality(Reach(p, m)) \in Nat
      BY <3>1, ReachFinite, FS_CardinalityType
    <3>3. Cardinality(Reach(p, m)) <= Quota[p] - 1 + peak * MaxCalls
      BY <1>2, <1>5, <2>2 DEF QuotaInv
    <3>4. QED
      BY <1>4, <2>1, <3>1, <3>2, <3>3
  <2>3. CASE m = month /\ \E r \in Request : Usage!Accept(r) /\ Usage!Applies(p, r)
    <3>1. PICK r \in Request : Usage!Accept(r) /\ Usage!Applies(p, r)
      BY <2>3
    <3>2. QED
      BY <1>1, <1>5, <2>3, <3>1, ReachAccept
  <2>4. CASE ~(m <= month)
    <3>1. Usage!NextMonth /\ m = month' /\ m \in Nat
      BY <1>2, <1>3, <2>4 DEF Usage!NextMonth
    <3>2. Cardinality(Reach(p, m)') <= peak * MaxCalls
      BY <3>1, ReachNewMonth DEF QuotaInv
    <3>3. Cardinality(Reach(p, m)') \in Nat
      <4>1. IsFiniteSet(Reach(p, m)')
        <5>1. Reach(p, m)' \in SUBSET Usage!Record
          BY DEF Reach
        <5>2. QED
          BY <5>1, ReachFinite, FS_Subset
      <4>2. QED
        BY <4>1, FS_CardinalityType
    <3>4. QED
      BY <1>4, <2>1, <3>2, <3>3
  <2>5. QED
    BY <2>2, <2>3, <2>4, ReachNext
<1>6. QED
  BY <1>1, <1>5 DEF QuotaInv, Usage!Plain

LEMMA UsageInvInit == ASSUME Usage!LimitsParameters, Usage!Init PROVE UsageInv
<1>1. UsageTyped
  BY UsageTypeInit
<1>2. /\ usagePc = [r \in Request |-> "idle"] /\ made = [r \in Request |-> 0]
      /\ when = [x \in Usage!Record |-> 0] /\ month = 1 /\ peak = 0 /\ Len(usageQueue) = 0
      /\ usageQueue = <<>> /\ hand = Usage!NoRecord /\ worker = "ready" /\ life = "running"
      /\ ~usageClosed /\ forgotten = {}
      /\ details = [x \in Usage!Record |-> 0] /\ disk = [x \in Usage!Record |-> 0]
      /\ exported = [x \in Usage!Record |-> 0]
      /\ \A s \in Usage!Saver : saving[s] = Usage!NoSnapshot
  BY DEF Usage!Init, Usage!NoCounts, Usage!NoSaves
<1>3. QueueInv
  BY <1>2 DEF QueueInv
<1>4. WayInv
  BY <1>2, RecordType DEF WayInv, Pending, CallOpen, Counted
<1>5. AtMostOnce
  BY <1>2 DEF AtMostOnce
<1>6. DownInv
  BY <1>2 DEF DownInv
<1>7. SavesInv
  BY <1>2 DEF SavesInv
<1>8. WhenInv
  <2>1. \A x \in Usage!Record : x[1] \in Request /\ x[2] \in 1..MaxCalls
    BY RecordType
  <2>2. \A x \in Usage!Record : when[x] = 0 /\ made[x[1]] = 0
    BY <1>2, <2>1
  <2>3. \A x \in Usage!Record : ~(x[2] <= made[x[1]])
    BY <2>1, <2>2, UsageRequests
  <2>4. QED
    BY <1>2, <2>2, <2>3 DEF WhenInv
<1>9. QuotaInv
  <2>1. \A r \in Request : ~Usage!UnderWay(r)
    BY <1>2, RecordType, UnderWayMeans, <1>1 DEF Pending
  <2>2. UnderWaySet = {}
    BY <2>1 DEF UnderWaySet
  <2>3. \A p \in Pattern, m \in 1..month : Reach(p, m) = {}
    BY <1>2, RecordType DEF Reach
  <2>4. Cardinality({}) = 0
    BY FS_EmptySet
  <2>5. \A p \in Pattern : Quota[p] \in Nat /\ Quota[p] # 0
    BY DEF Usage!LimitsParameters
  <2>6. peak * MaxCalls = 0
    BY <1>2, UsageRequests
  <2>7. ASSUME NEW p \in Pattern, NEW m \in 1..month
        PROVE  Cardinality(Reach(p, m)) <= Quota[p] - 1 + peak * MaxCalls
    <3>1. Cardinality(Reach(p, m)) = 0
      BY <2>3, <2>4
    <3>2. QED
      BY <2>5, <2>6, <3>1
  <2>8. Cardinality(UnderWaySet) <= peak
    BY <1>2, <2>2, <2>4
  <2>9. QED
    BY <2>7, <2>8 DEF QuotaInv
<1>10. QED
  BY <1>1, <1>3, <1>4, <1>5, <1>6, <1>7, <1>8, <1>9 DEF UsageInv

LEMMA UsageInvNext ==
  ASSUME Usage!LimitsParameters, UsageInv, Usage!Next
  PROVE  UsageInv'
<1>1. UsageTyped'
  BY UsageTypeNext DEF UsageInv
<1>2. QueueInv'
  BY QueueNext DEF UsageInv
<1>3. WayInv'
  BY WayNext DEF UsageInv
<1>4. AtMostOnce'
  BY OnceNext DEF UsageInv
<1>5. DownInv'
  BY DownNext DEF UsageInv
<1>6. SavesInv'
  BY <1>1, SavesNext DEF UsageInv
<1>7. WhenInv'
  BY <1>1, WhenNext DEF UsageInv
<1>8. QuotaInv'
  BY <1>1, QuotaNext DEF UsageInv
<1>9. QED
  BY <1>1, <1>2, <1>3, <1>4, <1>5, <1>6, <1>7, <1>8 DEF UsageInv

LEMMA UsageInvStay ==
  ASSUME UsageInv, UNCHANGED usage
  PROVE  UsageInv'
<1> USE DEF usage
<1>1. UsageTyped'
  BY DEF UsageInv, UsageTyped, Usage!TypeOK
<1>2. QueueInv' /\ WayInv' /\ AtMostOnce'
  BY DEF UsageInv, QueueInv, WayInv, AtMostOnce, Pending, CallOpen, Counted
<1>3. DownInv' /\ SavesInv' /\ WhenInv'
  BY DEF UsageInv, DownInv, SavesInv, WhenInv, Pending, CallOpen
<1>4. UnderWaySet' = UnderWaySet
  BY DEF UnderWaySet, Usage!UnderWay
<1>5. \A p \in Pattern, m \in 1..month : Reach(p, m)' = Reach(p, m)
  BY DEF Reach
<1>6. QuotaInv'
  BY <1>4, <1>5 DEF UsageInv, QuotaInv, Usage!Plain
<1>7. QED
  BY <1>1, <1>2, <1>3, <1>6 DEF UsageInv

serviceVars == <<part, usage, logins, vars, connections, tokens, gemini, openai, configuration>>

LEMMA UsageSteps ==
  ASSUME [ServicesNext]_serviceVars
  PROVE  Usage!Next \/ UNCHANGED usage
BY DEF ServicesNext, serviceVars

\* The inductive invariant of the usage part.
THEOREM UsageAlways == ServicesSpec => []UsageInv
<1>1. ServicesInit => UsageInv
  BY ServiceParameters, UsageInvInit DEF ServicesInit
<1>2. UsageInv /\ [ServicesNext]_serviceVars => UsageInv'
  BY ServiceParameters, UsageSteps, UsageInvNext, UsageInvStay
<1>3. QED
  BY <1>1, <1>2, PTL DEF ServicesSpec, serviceVars

\* No call is counted twice, in the statistics or their file.
THEOREM CallsCountedOnce == ServicesSpec => []CountedOnce
<1>1. UsageInv => CountedOnce
  BY DEF UsageInv, AtMostOnce, CountedOnce, Usage!CountedOnce
<1>2. QED
  BY <1>1, UsageAlways, PTL

\* A quota is exceeded by at most the calls of the requests under way together.
THEOREM QuotasBounded == ServicesSpec => []QuotaBounded
<1>1. ASSUME UsageInv, NEW p \in Pattern, NEW m \in 1..MaxMonth, Usage!Plain(p)
      PROVE  Usage!Cardinality(Usage!Calls(p, m)) <= Quota[p] - 1 + peak * MaxCalls
  <2>1. Usage!LimitsParameters
    BY ServiceParameters
  <2>2. /\ month \in Nat /\ peak \in Nat /\ MaxCalls \in Nat /\ MaxMonth \in Nat
        /\ Quota[p] \in Nat /\ Quota[p] # 0
    BY <1>1, <2>1, UsageRequests, UsageSets
       DEF UsageInv, UsageTyped, Usage!TypeOK, Usage!LimitsParameters
  <2>3. CASE m <= month
    <3>1. Usage!Calls(p, m) \in SUBSET Reach(p, m)
      BY DEF Usage!Calls, Reach
    <3>2. Cardinality(Usage!Calls(p, m)) <= Cardinality(Reach(p, m))
          /\ Cardinality(Usage!Calls(p, m)) \in Nat /\ Cardinality(Reach(p, m)) \in Nat
      BY <2>1, <3>1, ReachFinite, FS_Subset, FS_CardinalityType
    <3>3. Cardinality(Reach(p, m)) <= Quota[p] - 1 + peak * MaxCalls
      BY <1>1, <2>3, <2>2 DEF UsageInv, QuotaInv
    <3>4. peak * MaxCalls \in Nat
      BY <2>2, TimesMonotone
    <3>5. Cardinality(Usage!Calls(p, m)) <= Quota[p] - 1 + peak * MaxCalls
      BY <2>2, <3>2, <3>3, <3>4
    <3>6. QED
      BY <3>5, UsageSets
  <2>4. CASE ~(m <= month)
    <3>1. \A x \in Usage!Record : when[x] \in Nat /\ when[x] <= month
      BY <1>1, <2>1, UsageRequests DEF UsageInv, WhenInv, UsageTyped, Usage!TypeOK
    <3>2. Usage!Calls(p, m) = {}
      BY <2>2, <2>4, <3>1 DEF Usage!Calls
    <3>3. Usage!Cardinality(Usage!Calls(p, m)) = 0
      BY <3>2, UsageSets, FS_EmptySet
    <3>4. peak * MaxCalls \in Nat
      BY <2>2, TimesMonotone
    <3>5. QED
      BY <2>2, <3>3, <3>4
  <2>5. QED
    BY <2>3, <2>4
<1>2. UsageInv => QuotaBounded
  BY <1>1 DEF QuotaBounded, Usage!QuotaBounded
<1>3. QED
  BY <1>2, UsageAlways, PTL

\* The file loses no record but after saves that overlapped or a file that was not loaded.
THEOREM FileKeepsRecords == ServicesSpec => SavedStays
<1>1. ASSUME UsageInv, UsageInv', Usage!Next, NEW x \in Usage!Record
      PROVE  careless' \/ disk[x] <= disk'[x]
  <2>1. disk[x] \in Nat
    <3>1. disk \in Usage!Counts
      BY <1>1 DEF UsageInv, UsageTyped, Usage!TypeOK
    <3>2. disk[x] \in 0..2
      BY <3>1 DEF Usage!Counts
    <3>3. QED
      BY <3>2
  <2>2. ASSUME NEW s \in Usage!Saver, NEW stored \in BOOLEAN, Usage!EndSave(s, stored)
        PROVE  careless' \/ disk[x] <= disk'[x]
    BY <1>1, <2>1, <2>2 DEF Usage!EndSave, UsageInv, SavesInv
  <2>3. CASE disk' = disk
    BY <2>1, <2>3
  <2>4. QED
    BY <1>1, <2>2, <2>3 DEF Usage!Next, Usage!Worker, Usage!requests, Usage!process, Usage!Wait,
       Usage!EndWorker, Usage!TakeRecord, Usage!Count, Usage!Export, Usage!Import, Usage!Stop,
       Usage!NextMonth, Usage!BeginSave, Usage!Restart, Usage!Down, Usage!Go,
       Usage!Accept, Usage!Reject, Usage!BeginCall, Usage!Publish, Usage!Signal, Usage!Finish
<1>2. UsageInv /\ UsageInv' /\ [ServicesNext]_serviceVars
        => [careless' \/ \A x \in Usage!Record : disk[x] <= disk'[x]]_usage
  BY <1>1, UsageSteps
<1>3. QED
  BY <1>2, UsageAlways, PTL DEF ServicesSpec, SavedStays, serviceVars

-----------------------------------------------------------------------------
(* Logins. *)

\* Before a login has published a forwarder.
Unpublished(l) == loginPc[l] \in {"idle", "refused"} \cup Logins!Start

\* Whoever listens has not ended, and who waits listens, unless it was displaced.
PortInv ==
  /\ \A l \in listening : loginPc[l] \notin {"idle", "take", "replace", "listen", "refused", "done"}
  /\ \A l \in Login : loginPc[l] \in Logins!Start => l \in WebUI
  /\ \A l \in WebUI : loginPc[l] = "publish" => l \in listening
  /\ \A l \in WebUI \ displaced :
       loginPc[l] \in Logins!Waiting \cup {"remove", "exchange", "complete", "completeAll", "stop"}
         => l \in listening
  /\ \A l \in Login : Unpublished(l) =>
       l \notin displaced /\ forwarder # l /\ \A m \in Login : prev[m] # l
  /\ \A l \in Login : prev[l] \in displaced \cup {Nobody}

\* Where a session is, why it is gone, and how far its credential was saved by then.
StatusInv ==
  \A l \in Login :
    /\ loginPc[l] = "idle" => loginSession[l] = "none"
    /\ loginPc[l] # "idle" /\ loginSession[l] = "none" =>
         saved[l] = "whole" \/ l \in swept \cup overdue
    /\ loginSession[l] # "none" /\ age[l] = 2 => l \in overdue
    /\ loginSession[l] = "error" => loginPc[l] \in Logins!End /\ saved[l] # "whole"
    /\ loginSession[l] = "pending" /\ age[l] # 2 => loginPc[l] \notin Logins!End
    /\ loginPc[l] \in {"complete", "completeAll"} => saved[l] = "whole"
    /\ loginPc[l] = "completeAll" => loginSession[l] = "none"
    /\ saved[l] = "whole" => loginPc[l] \in {"complete", "completeAll"} \cup Logins!End

\* The callback of l, of a step at most, and its file.
CallbackInv ==
  /\ \A k \in Caller : caller[k].step = "idle" => caller[k].login = Nobody
  /\ \A l \in Login \ (crossed \cup Device) :
       /\ \A j, k \in Caller : caller[j].login = l /\ caller[k].login = l => j = k
       /\ \A k \in Caller : caller[k].login = l =>
            /\ ~Unpublished(l)
            /\ loginPc[l] \in Logins!Waiting =>
                 /\ caller[k].step = "create" => ~caller[k].open /\ file[l] = "none"
                 /\ caller[k].step = "fill" => caller[k].open /\ file[l] = "empty"
                 /\ caller[k].step = "ok" => file[l] = caller[k].text
            /\ loginPc[l] \notin Logins!Waiting =>
                 caller[k].step = "ok" /\ caller[k].text = got[l]
       /\ loginPc[l] \notin Logins!Waiting \cup {"remove"} => file[l] = "none"
       /\ file[l] # "none" => \E k \in Caller : caller[k].login = l

LoginsInv == Logins!TypeOK /\ PortInv /\ StatusInv /\ CallbackInv

LEMMA LoginTypeInit == ASSUME Logins!LoginParameters, Logins!Init PROVE Logins!TypeOK
<1>1. Logins!NoCall \in [step : {"idle", "create", "fill", "ok"}, login : Login \cup {Nobody},
                         text : Logins!Text, open : BOOLEAN]
  BY DEF Logins!NoCall, Logins!Text
<1>2. caller \in [Caller -> [step : {"idle", "create", "fill", "ok"}, login : Login \cup {Nobody},
                             text : Logins!Text, open : BOOLEAN]]
  BY <1>1 DEF Logins!Init
<1>3. /\ age \in [Login -> 0..2] /\ prev \in [Login -> Login \cup {Nobody}]
      /\ loginPc \in [Login -> {"idle", "remove", "exchange", "complete", "completeAll", "refused"}
                        \cup Logins!Start \cup Logins!Waiting \cup Logins!End]
  BY DEF Logins!Init
<1>4. saved \in [Login -> Logins!Outcome]
  BY DEF Logins!Init, Logins!Outcome
<1>5. QED
  BY <1>2, <1>3, <1>4 DEF Logins!Init, Logins!TypeOK

\* The handler that starts a login, and the end of its forwarder.
LEMMA LoginTypeForwarder ==
  ASSUME Logins!TypeOK, PortInv, NEW l \in Login,
         \/ Logins!Begin(l) \/ Logins!TakePrevious(l) \/ Logins!Replace(l) \/ Logins!Listen(l)
         \/ Logins!Publish(l) \/ Logins!StopInstance(l) \/ Logins!Close(l)
  PROVE  Logins!TypeOK'
<1> USE DEF Logins!store, Logins!port, Logins!history, Logins!Goto
<1> DEFINE Steps == {"idle", "remove", "exchange", "complete", "completeAll", "refused"}
                        \cup Logins!Start \cup Logins!Waiting \cup Logins!End
<1>1. \A step \in Steps : [loginPc EXCEPT ![l] = step] \in [Login -> Steps]
  BY DEF Logins!TypeOK
<1>2. /\ {"take", "replace", "listen", "publish"} \subseteq Steps
      /\ {"check", "exchange", "stop", "close", "done", "refused"} \subseteq Steps
  BY DEF Logins!Start, Logins!Waiting, Logins!End
<1> HIDE DEF Steps
<1>3. CASE Logins!Begin(l)
  <2>1. loginPc' \in [Login -> Steps]
    BY <1>1, <1>2, <1>3 DEF Logins!Begin
  <2>2. /\ loginSession' \in [Login -> {"none", "pending", "error"}]
        /\ age' \in [Login -> 0..2]
    BY <1>3 DEF Logins!Begin, Logins!RegisterOAuthSession, Logins!TypeOK
  <2>3. QED
    BY <1>3, <2>1, <2>2 DEF Logins!Begin, Logins!TypeOK, Steps
<1>4. CASE Logins!TakePrevious(l)
  <2>1. loginPc' \in [Login -> Steps]
    BY <1>1, <1>2, <1>4 DEF Logins!TakePrevious
  <2>2. /\ prev' \in [Login -> Login \cup {Nobody}] /\ displaced' \subseteq Login
    BY <1>4 DEF Logins!TakePrevious, Logins!TypeOK
  <2>3. QED
    BY <1>4, <2>1, <2>2 DEF Logins!TakePrevious, Logins!TypeOK, Steps
<1>5. CASE Logins!Replace(l)
  <2>1. loginPc' \in [Login -> Steps]
    BY <1>1, <1>2, <1>5 DEF Logins!Replace
  <2>2. QED
    BY <1>5, <2>1 DEF Logins!Replace, Logins!TypeOK, Steps
<1>6. CASE Logins!Listen(l)
  <2>1. loginPc' \in [Login -> Steps]
    BY <1>1, <1>2, <1>6 DEF Logins!Listen
  <2>2. l \in WebUI
    BY <1>6 DEF Logins!Listen, PortInv, Logins!Start
  <2>3. QED
    BY <1>6, <2>1, <2>2 DEF Logins!Listen, Logins!TypeOK, Steps
<1>7. CASE Logins!Publish(l)
  <2>1. loginPc' \in [Login -> Steps]
    BY <1>1, <1>2, <1>7 DEF Logins!Publish
  <2>2. QED
    BY <1>7, <2>1 DEF Logins!Publish, Logins!TypeOK, Steps
<1>8. CASE Logins!StopInstance(l)
  <2>1. loginPc' \in [Login -> Steps]
    BY <1>1, <1>2, <1>8 DEF Logins!StopInstance
  <2>2. QED
    BY <1>8, <2>1 DEF Logins!StopInstance, Logins!TypeOK, Steps
<1>9. CASE Logins!Close(l)
  <2>1. loginPc' \in [Login -> Steps]
    BY <1>1, <1>2, <1>9 DEF Logins!Close
  <2>2. QED
    BY <1>9, <2>1 DEF Logins!Close, Logins!TypeOK, Steps
<1>10. QED
  BY <1>3, <1>4, <1>5, <1>6, <1>7, <1>8, <1>9

LEMMA SomeOutcome == "no" \in Logins!Outcome
BY DEF Logins!Outcome

\* The goroutine of a login.
LEMMA LoginTypeRun ==
  ASSUME Logins!TypeOK, NEW l \in Login, NEW o \in Logins!Outcome,
         \/ Logins!Check(l) \/ Logins!Read(l) \/ Logins!Remove(l) \/ Logins!Exchange(l, o)
         \/ Logins!Complete(l) \/ Logins!CompleteAll(l)
  PROVE  Logins!TypeOK'
<1> USE DEF Logins!store, Logins!port, Logins!history, Logins!Goto
<1> DEFINE Steps == {"idle", "remove", "exchange", "complete", "completeAll", "refused"}
                        \cup Logins!Start \cup Logins!Waiting \cup Logins!End
<1>1. \A step \in Steps : [loginPc EXCEPT ![l] = step] \in [Login -> Steps]
  BY DEF Logins!TypeOK
<1>2. {"stop", "read", "check", "remove", "exchange", "complete", "completeAll"} \subseteq Steps
  BY DEF Logins!Start, Logins!Waiting, Logins!End
<1> HIDE DEF Steps
<1>3. /\ loginSession \in [Login -> {"none", "pending", "error"}] /\ age \in [Login -> 0..2]
      /\ crossed \subseteq Login
  BY DEF Logins!TypeOK
<1>4. Logins!SetOAuthSessionError(l) =>
        /\ loginSession' \in [Login -> {"none", "pending", "error"}] /\ age' \in [Login -> 0..2]
  BY <1>3 DEF Logins!SetOAuthSessionError
<1>5. Logins!GivesUp(l) \/ Logins!StopsWaiting(l) => crossed' \subseteq Login
  BY <1>3 DEF Logins!GivesUp, Logins!StopsWaiting
<1>6. CASE Logins!Check(l)
  <2>1. loginPc' \in [Login -> Steps]
    BY <1>1, <1>2, <1>6 DEF Logins!Check
  <2>2. /\ loginSession' \in [Login -> {"none", "pending", "error"}] /\ age' \in [Login -> 0..2]
        /\ crossed' \subseteq Login
    BY <1>3, <1>4, <1>5, <1>6 DEF Logins!Check
  <2>3. QED
    BY <1>6, <2>1, <2>2 DEF Logins!Check, Logins!TypeOK, Steps
<1>7. CASE Logins!Read(l)
  <2>1. loginPc' \in [Login -> Steps]
    BY <1>1, <1>2, <1>7 DEF Logins!Read
  <2>2. got' \in [Login -> {"none", "empty"} \cup Logins!Text] /\ crossed' \subseteq Login
    BY <1>3, <1>5, <1>7 DEF Logins!Read, Logins!TypeOK
  <2>3. QED
    BY <1>7, <2>1, <2>2 DEF Logins!Read, Logins!TypeOK, Steps
<1>8. CASE Logins!Remove(l)
  <2>1. loginPc' \in [Login -> Steps]
    BY <1>1, <1>2, <1>8 DEF Logins!Remove, Logins!Judge
  <2>2. /\ loginSession' \in [Login -> {"none", "pending", "error"}] /\ age' \in [Login -> 0..2]
    BY <1>3, <1>4, <1>8 DEF Logins!Remove, Logins!Judge
  <2>3. file' \in [Login -> {"none", "empty"} \cup Logins!Text]
    BY <1>8 DEF Logins!Remove, Logins!TypeOK
  <2>4. caller' \in [Caller -> [step : {"idle", "create", "fill", "ok"},
                                login : Login \cup {Nobody}, text : Logins!Text, open : BOOLEAN]]
    <3> DEFINE Form == [step : {"idle", "create", "fill", "ok"}, login : Login \cup {Nobody},
                        text : Logins!Text, open : BOOLEAN]
    <3>1. \A k \in Caller : caller[k] \in Form
      BY DEF Logins!TypeOK
    <3>2. \A k \in Caller : [caller[k] EXCEPT !.open = FALSE] \in Form
      BY <3>1
    <3> HIDE DEF Form
    <3>3. caller' \in [Caller -> Form]
      BY <1>8, <3>1, <3>2 DEF Logins!Remove
    <3>4. QED
      BY <3>3 DEF Form
  <2>5. QED
    BY <1>8, <2>1, <2>2, <2>3, <2>4 DEF Logins!Remove, Logins!TypeOK, Steps
<1>9. CASE Logins!Exchange(l, o)
  <2>1. loginPc' \in [Login -> Steps]
    BY <1>1, <1>2, <1>9 DEF Logins!Exchange
  <2>2. /\ loginSession' \in [Login -> {"none", "pending", "error"}] /\ age' \in [Login -> 0..2]
    BY <1>3, <1>4, <1>9 DEF Logins!Exchange
  <2>3. saved' \in [Login -> Logins!Outcome]
    BY <1>9 DEF Logins!Exchange, Logins!TypeOK
  <2>4. QED
    BY <1>9, <2>1, <2>2, <2>3 DEF Logins!Exchange, Logins!TypeOK, Steps
<1>10. CASE Logins!Complete(l)
  <2>1. loginPc' \in [Login -> Steps]
    BY <1>1, <1>2, <1>10 DEF Logins!Complete
  <2>2. QED
    BY <1>3, <1>10, <2>1 DEF Logins!Complete, Logins!TypeOK, Steps
<1>11. CASE Logins!CompleteAll(l)
  <2>1. loginPc' \in [Login -> Steps]
    BY <1>1, <1>2, <1>11 DEF Logins!CompleteAll
  <2>2. loginSession' \in [Login -> {"none", "pending", "error"}]
    BY <1>3, <1>11 DEF Logins!CompleteAll
  <2>3. QED
    BY <1>11, <2>1, <2>2 DEF Logins!CompleteAll, Logins!TypeOK, Steps
<1>12. QED
  BY <1>6, <1>7, <1>8, <1>9, <1>10, <1>11

\* Callbacks, and time.
LEMMA LoginTypeCallbacks ==
  ASSUME Logins!TypeOK,
         \/ Logins!Tick
         \/ \E k \in Caller : \/ Logins!Create(k) \/ Logins!Fill(k)
                             \/ \E l \in Login, chosen \in Logins!Text : Logins!Check1(k, l, chosen)
  PROVE  Logins!TypeOK'
<1> USE DEF Logins!store, Logins!port, Logins!history
<1> DEFINE Form == [step : {"idle", "create", "fill", "ok"}, login : Login \cup {Nobody},
                    text : Logins!Text, open : BOOLEAN]
<1>1. caller \in [Caller -> Form] /\ file \in [Login -> {"none", "empty"} \cup Logins!Text]
      /\ crossed \subseteq Login
      /\ \A k \in Caller : caller[k] \in Form /\ caller[k].text \in Logins!Text
  BY DEF Logins!TypeOK
<1>2. ASSUME NEW k \in Caller, Logins!Create(k) PROVE Logins!TypeOK'
  <2>1. caller' \in [Caller -> Form]
    BY <1>1, <1>2 DEF Logins!Create
  <2>2. file' \in [Login -> {"none", "empty"} \cup Logins!Text]
    BY <1>1, <1>2 DEF Logins!Create
  <2>3. QED
    BY <1>2, <2>1, <2>2 DEF Logins!Create, Logins!TypeOK
<1>3. ASSUME NEW k \in Caller, Logins!Fill(k) PROVE Logins!TypeOK'
  <2>1. caller' \in [Caller -> Form]
    BY <1>1, <1>3 DEF Logins!Fill
  <2>2. file' \in [Login -> {"none", "empty"} \cup Logins!Text]
    BY <1>1, <1>3 DEF Logins!Fill
  <2>3. QED
    BY <1>3, <2>1, <2>2 DEF Logins!Fill, Logins!TypeOK
<1>4. ASSUME NEW k \in Caller, NEW l \in Login, NEW chosen \in Logins!Text,
             Logins!Check1(k, l, chosen)
      PROVE  Logins!TypeOK'
  <2>1. caller' \in [Caller -> Form]
    BY <1>1, <1>4 DEF Logins!Check1
  <2>2. crossed' \subseteq Login
    BY <1>1, <1>4 DEF Logins!Check1
  <2>3. QED
    BY <1>4, <2>1, <2>2 DEF Logins!Check1, Logins!TypeOK
<1>5. CASE Logins!Tick
  <2>1. age' \in [Login -> 0..2]
    <3>1. \A m \in Login : age[m] < 2 => age[m] \in 0..2 /\ age[m] + 1 \in 0..2
      BY DEF Logins!TypeOK
    <3>2. QED
      BY <1>5, <3>1 DEF Logins!Tick, Logins!TypeOK
  <2>2. overdue' \subseteq Login
    BY <1>5 DEF Logins!Tick, Logins!TypeOK
  <2>3. QED
    BY <1>5, <2>1, <2>2 DEF Logins!Tick, Logins!TypeOK
<1>6. QED
  BY <1>2, <1>3, <1>4, <1>5

\* The goroutine of l moves on while its forwarder stays as it is.
LEMMA RunEffect ==
  ASSUME Logins!TypeOK, NEW l \in Login, NEW o \in Logins!Outcome,
         \/ Logins!Check(l) \/ Logins!Read(l) \/ Logins!Remove(l) \/ Logins!Exchange(l, o)
         \/ Logins!Complete(l) \/ Logins!CompleteAll(l)
  PROVE  /\ UNCHANGED <<prev, forwarder, listening, displaced, overdue>>
         /\ loginPc[l] \in {"check", "read", "remove", "exchange", "complete", "completeAll"}
         /\ \E step \in {"check", "read", "remove", "exchange", "complete", "completeAll", "stop"} :
              loginPc' = [loginPc EXCEPT ![l] = step]
BY DEF Logins!Check, Logins!Read, Logins!Remove, Logins!Exchange, Logins!Complete,
       Logins!CompleteAll, Logins!Goto, Logins!Judge, Logins!port, Logins!history

LEMMA PortNext ==
  ASSUME Logins!LoginParameters, Logins!TypeOK, PortInv, Logins!Next
  PROVE  PortInv'
<1> USE DEF Logins!port, Logins!history, Logins!Goto, Logins!Start, Logins!Waiting, Unpublished
<1>1. /\ loginPc \in [Login -> {"idle", "remove", "exchange", "complete", "completeAll", "refused"}
                        \cup Logins!Start \cup Logins!Waiting \cup Logins!End]
      /\ listening \subseteq WebUI /\ prev \in [Login -> Login \cup {Nobody}]
      /\ displaced \subseteq Login /\ forwarder \in Login \cup {Nobody}
      /\ WebUI \subseteq Login /\ Nobody \notin Login
      /\ \A l, m \in listening : l = m
  BY DEF Logins!TypeOK, Logins!LoginParameters
<1>2. ASSUME NEW l \in Login, Logins!Begin(l) PROVE PortInv'
  BY <1>1, <1>2 DEF Logins!Begin, PortInv
<1>3. ASSUME NEW l \in Login, Logins!TakePrevious(l) PROVE PortInv'
  BY <1>1, <1>3 DEF Logins!TakePrevious, PortInv
<1>4. ASSUME NEW l \in Login, Logins!Replace(l) PROVE PortInv'
  BY <1>1, <1>4 DEF Logins!Replace, PortInv
<1>5. ASSUME NEW l \in Login, Logins!Listen(l) PROVE PortInv'
  BY <1>1, <1>5 DEF Logins!Listen, PortInv
<1>6. ASSUME NEW l \in Login, Logins!Publish(l) PROVE PortInv'
  BY <1>1, <1>6 DEF Logins!Publish, PortInv
<1>7. ASSUME NEW l \in Login, Logins!StopInstance(l) PROVE PortInv'
  BY <1>1, <1>7 DEF Logins!StopInstance, PortInv
<1>8. ASSUME NEW l \in Login, Logins!Close(l) PROVE PortInv'
  BY <1>1, <1>8 DEF Logins!Close, PortInv
<1>9. ASSUME NEW l \in Login, NEW o \in Logins!Outcome,
             \/ Logins!Check(l) \/ Logins!Read(l) \/ Logins!Remove(l) \/ Logins!Exchange(l, o)
             \/ Logins!Complete(l) \/ Logins!CompleteAll(l)
      PROVE  PortInv'
  BY <1>1, <1>9, RunEffect DEF PortInv
<1>10. ASSUME UNCHANGED <<loginPc, prev, forwarder, listening, displaced>> PROVE PortInv'
  BY <1>10 DEF PortInv
<1>11. QED
  BY <1>2, <1>3, <1>4, <1>5, <1>6, <1>7, <1>8, <1>9, <1>10, SomeOutcome
     DEF Logins!Next, Logins!Run, Logins!Create, Logins!Fill, Logins!Check1, Logins!Tick

LEMMA StatusNext ==
  ASSUME Logins!TypeOK, StatusInv, Logins!Next
  PROVE  StatusInv'
<1> USE DEF Logins!store, Logins!history, Logins!Goto, Logins!Start, Logins!Waiting, Logins!End
<1>1. /\ loginPc \in [Login -> {"idle", "remove", "exchange", "complete", "completeAll", "refused"}
                        \cup Logins!Start \cup Logins!Waiting \cup Logins!End]
      /\ loginSession \in [Login -> {"none", "pending", "error"}] /\ age \in [Login -> 0..2]
      /\ saved \in [Login -> Logins!Outcome]
  BY DEF Logins!TypeOK
<1>2. ASSUME NEW l \in Login, Logins!Begin(l) PROVE StatusInv'
  BY <1>1, <1>2 DEF Logins!Begin, Logins!RegisterOAuthSession, StatusInv
<1>3. ASSUME NEW l \in Login,
             \/ Logins!TakePrevious(l) \/ Logins!Replace(l) \/ Logins!Listen(l)
             \/ Logins!Publish(l) \/ Logins!StopInstance(l) \/ Logins!Close(l)
      PROVE  StatusInv'
  BY <1>1, <1>3 DEF Logins!TakePrevious, Logins!Replace, Logins!Listen, Logins!Publish,
     Logins!StopInstance, Logins!Close, StatusInv
<1>4. ASSUME NEW l \in Login, Logins!SetOAuthSessionError(l)
      PROVE  /\ loginSession'[l] = "pending" => age'[l] = 2
             /\ \A m \in Login :
               /\ \/ loginSession'[m] = loginSession[m] /\ age'[m] = age[m]
                  \/ m = l /\ loginSession[m] # "none" /\ loginSession'[m] = "error" /\ age'[m] = 0
               /\ loginSession'[m] = "none" <=> loginSession[m] = "none"
  BY <1>1, <1>4 DEF Logins!SetOAuthSessionError, Logins!Found
<1>5. ASSUME NEW l \in Login, Logins!Check(l) PROVE StatusInv'
  BY <1>1, <1>4, <1>5 DEF Logins!Check, Logins!IsPending, Logins!Found, StatusInv
<1>6. ASSUME NEW l \in Login, Logins!Read(l) PROVE StatusInv'
  BY <1>1, <1>6 DEF Logins!Read, StatusInv
<1>7. ASSUME NEW l \in Login, Logins!Remove(l) PROVE StatusInv'
  BY <1>1, <1>4, <1>7 DEF Logins!Remove, Logins!Judge, StatusInv
<1>8. ASSUME NEW l \in Login, NEW o \in Logins!Outcome, Logins!Exchange(l, o) PROVE StatusInv'
  BY <1>1, <1>4, <1>8 DEF Logins!Exchange, StatusInv
<1>9. ASSUME NEW l \in Login, Logins!Complete(l) PROVE StatusInv'
  BY <1>1, <1>9 DEF Logins!Complete, StatusInv
<1>10. ASSUME NEW l \in Login, Logins!CompleteAll(l) PROVE StatusInv'
  BY <1>1, <1>10 DEF Logins!CompleteAll, StatusInv
<1>11. CASE Logins!Tick
  BY <1>1, <1>11 DEF Logins!Tick, StatusInv
<1>12. ASSUME UNCHANGED <<loginSession, age, loginPc, saved, swept, overdue>> PROVE StatusInv'
  BY <1>12 DEF StatusInv
<1>13. QED
  BY <1>2, <1>3, <1>5, <1>6, <1>7, <1>8, <1>9, <1>10, <1>11, <1>12
     DEF Logins!Next, Logins!Run, Logins!Create, Logins!Fill, Logins!Check1

LEMMA CallbackNext ==
  ASSUME Logins!LoginParameters, Logins!TypeOK, CallbackInv, Logins!Next
  PROVE  CallbackInv'
<1> USE DEF Logins!store, Logins!port, Logins!history, Logins!Goto, Logins!Start, Logins!Waiting,
            Unpublished
<1> DEFINE Form == [step : {"idle", "create", "fill", "ok"}, login : Login \cup {Nobody},
                    text : Logins!Text, open : BOOLEAN]
<1>1. /\ loginPc \in [Login -> {"idle", "remove", "exchange", "complete", "completeAll", "refused"}
                        \cup Logins!Start \cup Logins!Waiting \cup Logins!End]
      /\ file \in [Login -> {"none", "empty"} \cup Logins!Text]
      /\ got \in [Login -> {"none", "empty"} \cup Logins!Text]
      /\ caller \in [Caller -> Form] /\ crossed \subseteq Login /\ Nobody \notin Login
      /\ WebUI \subseteq Login
  BY DEF Logins!TypeOK, Logins!LoginParameters
<1>2. \A k \in Caller : caller[k] \in Form /\ caller[k].text \in {"code", "error"}
                        /\ caller[k].step \in {"idle", "create", "fill", "ok"}
  BY <1>1 DEF Logins!Text
<1> HIDE DEF Form
<1>3. ASSUME NEW l \in Login,
             \/ Logins!Begin(l) \/ Logins!TakePrevious(l) \/ Logins!Replace(l) \/ Logins!Listen(l)
             \/ Logins!Publish(l)
      PROVE  CallbackInv'
  <2>1. Unpublished(l) /\ UNCHANGED <<file, got, caller, crossed>>
    BY <1>3 DEF Logins!Begin, Logins!TakePrevious, Logins!Replace, Logins!Listen,
       Logins!Publish
  <2>2. \E step \in Logins!Start \cup {"check", "exchange", "refused"} :
          loginPc' = [loginPc EXCEPT ![l] = step]
    BY <1>3 DEF Logins!Begin, Logins!TakePrevious, Logins!Replace, Logins!Listen,
       Logins!Publish
  <2>3. QED
    BY <1>1, <2>1, <2>2 DEF CallbackInv
<1>4. ASSUME NEW l \in Login, Logins!Check(l) PROVE CallbackInv'
  BY <1>1, <1>2, <1>4 DEF Logins!Check, Logins!GivesUp, Logins!StopsWaiting, Logins!Writing,
     CallbackInv
<1>5. ASSUME NEW l \in Login, Logins!Read(l) PROVE CallbackInv'
  BY <1>1, <1>2, <1>5 DEF Logins!Read, Logins!StopsWaiting, Logins!Writing, CallbackInv
<1>6. ASSUME NEW l \in Login, Logins!Remove(l) PROVE CallbackInv'
  <2>1. \A k \in Caller : /\ caller'[k].login = caller[k].login
                          /\ caller'[k].step = caller[k].step
                          /\ caller'[k].text = caller[k].text
                          /\ caller[k].login # l => caller'[k] = caller[k]
    BY <1>2, <1>6 DEF Logins!Remove, Form
  <2>2. /\ file' = [file EXCEPT ![l] = "none"] /\ UNCHANGED <<got, crossed>>
        /\ loginPc[l] = "remove"
        /\ \E step \in {"exchange", "stop"} : loginPc' = [loginPc EXCEPT ![l] = step]
    BY <1>6 DEF Logins!Remove, Logins!Judge
  <2>3. QED
    BY <1>1, <1>2, <2>1, <2>2 DEF CallbackInv
<1>7. ASSUME NEW l \in Login, NEW o \in Logins!Outcome,
             \/ Logins!Exchange(l, o) \/ Logins!Complete(l) \/ Logins!CompleteAll(l)
             \/ Logins!StopInstance(l) \/ Logins!Close(l)
      PROVE  CallbackInv'
  <2>1. /\ UNCHANGED <<file, got, caller, crossed>>
        /\ loginPc[l] \in {"exchange", "complete", "completeAll", "stop", "close"}
        /\ \E step \in {"exchange", "complete", "completeAll", "stop", "close", "done"} :
             loginPc' = [loginPc EXCEPT ![l] = step]
    BY <1>7 DEF Logins!Exchange, Logins!Complete, Logins!CompleteAll, Logins!StopInstance,
       Logins!Close
  <2>2. QED
    BY <1>1, <1>2, <2>1 DEF CallbackInv
<1>8. ASSUME NEW k \in Caller, Logins!Create(k) PROVE CallbackInv'
  <2>1. /\ caller'[k].step = "fill" /\ caller'[k].open /\ caller'[k].login = caller[k].login
        /\ caller'[k].text = caller[k].text
        /\ \A j \in Caller \ {k} : caller'[j] = caller[j]
    BY <1>1, <1>2, <1>8 DEF Logins!Create, Form
  <2>2. /\ file' = [file EXCEPT ![caller[k].login] = "empty"] /\ caller[k].step = "create"
        /\ UNCHANGED <<got, loginPc, crossed>>
    BY <1>8 DEF Logins!Create
  <2>3. QED
    BY <1>1, <1>2, <2>1, <2>2 DEF CallbackInv
<1>9. ASSUME NEW k \in Caller, Logins!Fill(k) PROVE CallbackInv'
  <2>1. /\ caller'[k].step = "ok" /\ caller'[k].open = caller[k].open
        /\ caller'[k].login = caller[k].login /\ caller'[k].text = caller[k].text
        /\ \A j \in Caller \ {k} : caller'[j] = caller[j]
    BY <1>1, <1>2, <1>9 DEF Logins!Fill, Form
  <2>2. /\ caller[k].step = "fill"
        /\ file' = IF caller[k].open THEN [file EXCEPT ![caller[k].login] = caller[k].text]
                   ELSE file
        /\ UNCHANGED <<got, loginPc, crossed>>
    BY <1>9 DEF Logins!Fill
  <2>3. QED
    BY <1>1, <1>2, <2>1, <2>2 DEF CallbackInv
<1>10. ASSUME NEW k \in Caller, NEW l \in Login, NEW chosen \in Logins!Text,
              Logins!Check1(k, l, chosen)
       PROVE  CallbackInv'
  <2>1. /\ caller'[k].step = "create" /\ ~caller'[k].open
        /\ caller'[k].login = l /\ caller'[k].text = chosen
        /\ \A j \in Caller \ {k} : caller'[j] = caller[j]
    BY <1>1, <1>2, <1>10 DEF Logins!Check1
  <2>2. /\ caller[k].step = "idle" /\ l \notin Device
        /\ crossed' = IF (\E j \in Caller \ {k} : caller[j].login = l)
                         \/ loginPc[l] \notin Logins!Waiting
                      THEN crossed \cup {l} ELSE crossed
        /\ UNCHANGED <<file, got, loginPc>>
    BY <1>10 DEF Logins!Check1, Logins!Others
  <2>3. QED
    BY <1>1, <1>2, <2>1, <2>2 DEF CallbackInv
<1>11. ASSUME UNCHANGED <<loginPc, file, got, caller, crossed>> PROVE CallbackInv'
  BY <1>11 DEF CallbackInv
<1>12. QED
  BY <1>3, <1>4, <1>5, <1>6, <1>7, <1>8, <1>9, <1>10, <1>11, SomeOutcome
     DEF Logins!Next, Logins!Run, Logins!Tick

LEMMA LoginsInvInit == ASSUME Logins!LoginParameters, Logins!Init PROVE LoginsInv
<1>1. Logins!TypeOK
  BY LoginTypeInit
<1>2. PortInv
  BY DEF Logins!Init, PortInv, Logins!Start, Logins!Waiting, Unpublished, Logins!LoginParameters
<1>3. StatusInv
  BY DEF Logins!Init, StatusInv, Logins!End
<1>4. CallbackInv
  BY DEF Logins!Init, CallbackInv, Logins!NoCall, Logins!LoginParameters, Logins!Waiting
<1>5. QED
  BY <1>1, <1>2, <1>3, <1>4 DEF LoginsInv

LEMMA LoginsInvNext ==
  ASSUME Logins!LoginParameters, LoginsInv, Logins!Next
  PROVE  LoginsInv'
<1>1. Logins!TypeOK'
  BY LoginTypeForwarder, LoginTypeRun, LoginTypeCallbacks, SomeOutcome
     DEF LoginsInv, Logins!Next, Logins!Run
<1>2. QED
  BY <1>1, PortNext, StatusNext, CallbackNext DEF LoginsInv

LEMMA LoginsInvStay ==
  ASSUME LoginsInv, UNCHANGED logins
  PROVE  LoginsInv'
<1> USE DEF logins, LoginsInv
<1>1. Logins!TypeOK'
  BY DEF Logins!TypeOK
<1>2. PortInv' /\ StatusInv' /\ CallbackInv'
  BY DEF PortInv, StatusInv, CallbackInv, Unpublished
<1>3. QED
  BY <1>1, <1>2

LEMMA LoginsSteps ==
  ASSUME [ServicesNext]_serviceVars
  PROVE  Logins!Next \/ UNCHANGED logins
BY DEF ServicesNext, serviceVars

\* The inductive invariant of the logins.
THEOREM LoginsAlways == ServicesSpec => []LoginsInv
<1>1. ServicesInit => LoginsInv
  BY ServiceParameters, LoginsInvInit DEF ServicesInit
<1>2. LoginsInv /\ [ServicesNext]_serviceVars => LoginsInv'
  BY ServiceParameters, LoginsSteps, LoginsInvNext, LoginsInvStay
<1>3. QED
  BY <1>1, <1>2, PTL DEF ServicesSpec, serviceVars

\* The forwarder of a login listens while it waits, and not when it is over.
THEOREM ForwardersStay == ServicesSpec => []ForwarderStays
<1>1. LoginsInv => ForwarderStays
  BY DEF LoginsInv, PortInv, ForwarderStays, Logins!ForwarderStays, Logins!Waiting
<1>2. QED
  BY <1>1, LoginsAlways, PTL

\* A login's status is "ok" only when its credential was saved whole, or another login
\* swept its session away, or the session expired; "error" only when it was not saved
\* whole; and "wait" only until it is over: for every number of logins, callbacks and
\* forwarders, and for a save that fails before or after it wrote the file (GetAuthStatus,
\* saveTokenRecord).
THEOREM StatusTold == ServicesSpec => []OkMeansSaved
<1>1. ASSUME LoginsInv PROVE Logins!OkMeansSaved
  <2>1. \A l \in Login : loginSession[l] \in {"none", "pending", "error"} /\ age[l] \in 0..2
    BY <1>1 DEF LoginsInv, Logins!TypeOK
  <2>2. QED
    BY <1>1, <2>1 DEF LoginsInv, StatusInv, Logins!OkMeansSaved, Logins!Status, Logins!Found
<1>2. LoginsInv => OkMeansSaved
  BY <1>1 DEF OkMeansSaved
<1>3. QED
  BY <1>2, LoginsAlways, PTL

\* A login has read what its callback brought, and left no file.
THEOREM CallbacksReceived == ServicesSpec => []CallbackReceived
<1>1. LoginsInv => CallbackReceived
  BY DEF LoginsInv, CallbackInv, CallbackReceived, Logins!CallbackReceived, Logins!Waiting
<1>2. QED
  BY <1>1, LoginsAlways, PTL

-----------------------------------------------------------------------------
(* Sessions of the relay and their credentials. *)

\* The map, the sessions it led to and those that replaced them.
MapInv ==
  /\ \A p \in Provider, s \in Session : sessions[p] = s =>
       /\ name[s] = p /\ handler[s] # "free" /\ cleaning[s] \in {"no", "detach"}
       /\ s \notin stopping /\ \A t \in Session : replaced[t] # s
       /\ cleaning[s] = "detach" => cause[s] = "lost"
  /\ \A s \in Session : handler[s] = "free" =>
       cleaning[s] = "no" /\ s \notin stopping /\ \A t \in Session : replaced[t] # s
  /\ \A s, t \in Session : replaced[t] = s => name[t] = name[s] /\ t # s /\ s \notin stopping
  /\ \A s \in Session : handler[s] # "free" /\ cleaning[s] = "no" =>
       \/ sessions[name[s]] = s \/ s \in stopping
       \/ \E t \in Session : replaced[t] = s /\ handler[t] = "replacing"

Queued(p) == \E k \in 1..Len(queue) : queue[k].id = p

\* Whether p will have a credential when all that is queued is applied.
WillHave(p) ==
  \/ ~Queued(p) /\ p \in view
  \/ \E k \in 1..Len(queue) :
       /\ queue[k].id = p /\ queue[k].action = "add"
       /\ \A j \in (k + 1)..Len(queue) : queue[j].id # p

\* There is something to come of s yet.
Unfinished(s, p) ==
  name[s] = p /\ handler[s] # "free" /\ ~(handler[s] = "reading" /\ cleaning[s] = "done")

\* s stands for p, in the map or until Stop cleans it up.
Stands(s, p) ==
  sessions[p] = s \/ (name[s] = p /\ s \in stopping /\ cleaning[s] = "no")

Reported(s) == handler[s] \notin {"replacing", "accepted"}

\* What is to come of p, and what was reported of it.
MatchOf(p) ==
  /\ \A s \in Session : name[s] = p /\ ~Reported(s) => cleaning[s] = "no" \/ cause[s] = "replaced"
  /\ \A s, t \in Session : Stands(s, p) /\ Stands(t, p) => s = t
  /\ \A s \in Session : Stands(s, p) =>
       /\ handler[s] = "reading" => WillHave(p)
       /\ \A t \in Session \ {s} : Unfinished(t, p) =>
            /\ cleaning[s] = "no"
            /\ cleaning[t] = "done" \/ (t = replaced[s] /\ handler[s] = "replacing")
  /\ (\A s \in Session : ~Stands(s, p)) =>
       \/ ~WillHave(p) /\ \A s \in Session : ~Unfinished(s, p)
       \/ \E s \in Session :
            /\ Unfinished(s, p) /\ cleaning[s] \in {"detach", "report"} /\ cause[s] = "lost"
            /\ \A t \in Session : Unfinished(t, p) => t = s

MatchInv == \A p \in Provider \ raced : MatchOf(p)

ConnectionsInv == Connections!TypeOK /\ MapInv /\ MatchInv

LEMMA ConnectionsTypeNext ==
  ASSUME Connections!SessionsParameters, Connections!TypeOK, Connections!Next
  PROVE  Connections!TypeOK'
<1> USE DEF Connections!TypeOK, Connections!relay
<1>1. ASSUME NEW s \in Session, Connections!Accept(s) PROVE Connections!TypeOK'
  BY <1>1 DEF Connections!Accept
<1>2. ASSUME NEW s \in Session, NEW why \in {"replaced", "lost"}, Connections!Cleanup(s, why)
      PROVE  /\ cleaning' \in [Session -> {"no", "detach", "report", "done"}]
             /\ cause' \in [Session -> {"replaced", "lost"}] /\ raced' \subseteq Provider
  BY <1>2 DEF Connections!Cleanup
<1>3. ASSUME NEW s \in Session, Connections!Replace(s) PROVE Connections!TypeOK'
  <2>1. replaced[s] \in Session
    BY <1>3 DEF Connections!Replace
  <2>2. QED
    BY <1>2, <1>3, <2>1 DEF Connections!Replace
<1>4. ASSUME NEW s \in Session, Connections!AfterReplace(s) PROVE Connections!TypeOK'
  BY <1>4 DEF Connections!AfterReplace
<1>5. ASSUME NEW action \in {"add", "delete"}, NEW p \in Provider, Connections!Emit(action, p)
      PROVE  /\ queue' \in Seq(Connections!Update) /\ view' \subseteq Provider
             /\ raced' \subseteq Provider
  <2>1. [action |-> action, id |-> p] \in Connections!Update
    BY DEF Connections!Update
  <2>2. QED
    BY <1>5, <2>1 DEF Connections!Emit, Connections!Applied
<1>6. ASSUME NEW s \in Session, Connections!ReportConnected(s) PROVE Connections!TypeOK'
  <2>1. /\ queue' \in Seq(Connections!Update) /\ view' \subseteq Provider
        /\ raced' \subseteq Provider
    BY <1>5, <1>6 DEF Connections!ReportConnected, Connections!Connected
  <2>2. QED
    BY <1>6, <2>1 DEF Connections!ReportConnected
<1>7. ASSUME NEW s \in Session, Connections!LoseConnection(s) PROVE Connections!TypeOK'
  BY <1>2, <1>7 DEF Connections!LoseConnection
<1>8. ASSUME NEW s \in Session, Connections!StopSession(s) PROVE Connections!TypeOK'
  BY <1>2, <1>8 DEF Connections!StopSession
<1>9. ASSUME NEW s \in Session, Connections!Detach(s) PROVE Connections!TypeOK'
  BY <1>9 DEF Connections!Detach, Connections!WithoutSession
<1>10. ASSUME NEW s \in Session, Connections!ReportDisconnected(s) PROVE Connections!TypeOK'
  <2>1. /\ queue' \in Seq(Connections!Update) /\ view' \subseteq Provider
        /\ raced' \subseteq Provider
    BY <1>5, <1>10 DEF Connections!ReportDisconnected, Connections!Disconnected
  <2>2. QED
    BY <1>10, <2>1 DEF Connections!ReportDisconnected
<1>11. ASSUME NEW s \in Session, NEW p \in Provider, Connections!Reconnect(s, p)
       PROVE  Connections!TypeOK'
  BY <1>11 DEF Connections!Reconnect
<1>12. CASE Connections!Stop
  BY <1>12 DEF Connections!Stop
<1>13. CASE Connections!Apply
  <2>1. Head(queue) \in Connections!Update /\ Tail(queue) \in Seq(Connections!Update)
    BY <1>13 DEF Connections!Apply
  <2>2. view' \subseteq Provider
    BY <1>13, <2>1 DEF Connections!Apply, Connections!Applied, Connections!Update
  <2>3. QED
    BY <1>13, <2>1, <2>2 DEF Connections!Apply
<1>14. CASE Connections!EnsureQueue \/ Connections!StartWatcher
  BY <1>14 DEF Connections!EnsureQueue, Connections!StartWatcher
<1>15. QED
  BY <1>1, <1>3, <1>4, <1>6, <1>7, <1>8, <1>9, <1>10, <1>11, <1>12, <1>13, <1>14
     DEF Connections!Next

\* What a session's step leaves alone.
LEMMA MapNext ==
  ASSUME Connections!SessionsParameters, Connections!TypeOK, MapInv, Connections!Next
  PROVE  MapInv'
<1> USE DEF Connections!relay
<1>1. /\ sessions \in [Provider -> Session \cup {None}] /\ name \in [Session -> Provider]
      /\ handler \in [Session -> {"free", "replacing", "accepted", "reading"}]
      /\ replaced \in [Session -> Session \cup {None}]
      /\ cleaning \in [Session -> {"no", "detach", "report", "done"}]
      /\ cause \in [Session -> {"replaced", "lost"}] /\ stopping \subseteq Session
      /\ None \notin Session
  BY DEF Connections!TypeOK, Connections!SessionsParameters
<1>2. ASSUME NEW s \in Session, Connections!Accept(s) PROVE MapInv'
  BY <1>1, <1>2 DEF Connections!Accept, MapInv
<1>3. ASSUME NEW s \in Session, Connections!Replace(s) PROVE MapInv'
  BY <1>1, <1>3 DEF Connections!Replace, Connections!Cleanup, MapInv
<1>4. ASSUME NEW s \in Session, Connections!AfterReplace(s) PROVE MapInv'
  BY <1>1, <1>4 DEF Connections!AfterReplace, Connections!CleanedUp, MapInv
<1>5. ASSUME NEW s \in Session, Connections!ReportConnected(s) PROVE MapInv'
  BY <1>1, <1>5 DEF Connections!ReportConnected, MapInv
<1>6. ASSUME NEW s \in Session, Connections!LoseConnection(s) PROVE MapInv'
  BY <1>1, <1>6 DEF Connections!LoseConnection, Connections!Cleanup, MapInv
<1>7. ASSUME NEW s \in Session, Connections!StopSession(s) PROVE MapInv'
  BY <1>1, <1>7 DEF Connections!StopSession, Connections!Cleanup, MapInv
<1>8. ASSUME NEW s \in Session, Connections!Detach(s) PROVE MapInv'
  BY <1>1, <1>8 DEF Connections!Detach, Connections!WithoutSession, MapInv
<1>9. ASSUME NEW s \in Session, Connections!ReportDisconnected(s) PROVE MapInv'
  BY <1>1, <1>9 DEF Connections!ReportDisconnected, MapInv
<1>10. ASSUME NEW s \in Session, NEW p \in Provider, Connections!Reconnect(s, p) PROVE MapInv'
  BY <1>1, <1>10 DEF Connections!Reconnect, Connections!Forgotten, MapInv
<1>11. CASE Connections!Stop
  BY <1>1, <1>11 DEF Connections!Stop, MapInv
<1>12. CASE Connections!Apply \/ Connections!EnsureQueue \/ Connections!StartWatcher
  BY <1>12 DEF Connections!Apply, Connections!EnsureQueue, Connections!StartWatcher, MapInv
<1>13. QED
  BY <1>2, <1>3, <1>4, <1>5, <1>6, <1>7, <1>8, <1>9, <1>10, <1>11, <1>12 DEF Connections!Next

\* An update that is emitted decides what its provider will have, unless it overtakes
\* another.
LEMMA EmitDecides ==
  ASSUME Connections!TypeOK, NEW action \in {"add", "delete"}, NEW p \in Provider,
         Connections!Emit(action, p)
  PROVE  /\ raced \subseteq raced'
         /\ \A q \in Provider \ {p} : WillHave(q)' <=> WillHave(q)
         /\ p \notin raced' => (WillHave(p)' <=> action = "add")
<1> DEFINE u == [action |-> action, id |-> p]
           n == Len(queue)
<1>1. /\ queue \in Seq(Connections!Update) /\ n \in Nat /\ DOMAIN queue = 1..n
      /\ u.action = action /\ u.id = p
  BY DEF Connections!TypeOK
<1>2. Connections!Queued(p) <=> Queued(p)
  BY <1>1 DEF Connections!Queued, Queued
<1>3. CASE queue' = Append(queue, u) /\ UNCHANGED <<view, raced>>
  <2>1. /\ Len(queue') = n + 1 /\ queue'[n + 1] = u
        /\ \A i \in 1..n : queue'[i] = queue[i]
    BY <1>1, <1>3
  <2>2. \A i \in 1..(n + 1) : i = n + 1 \/ i \in 1..n
    BY <1>1
  <2>3. n + 1 \in 1..(n + 1) /\ \A i \in 1..n : i \in 1..(n + 1) /\ n + 1 \in (i + 1)..(n + 1)
    BY <1>1
  <2> HIDE DEF n, u
  <2>4. ASSUME NEW q \in Provider, q # p PROVE WillHave(q)' <=> WillHave(q)
    <3>1. Queued(q)' <=> Queued(q)
      BY <1>1, <1>3, <2>1, <2>2, <2>3, <2>4 DEF Queued, n
    <3>2. ASSUME NEW k \in 1..n
          PROVE  (\A j \in (k + 1)..(n + 1) : queue'[j].id # q)
                   <=> \A j \in (k + 1)..n : queue[j].id # q
      <4>1. /\ \A j \in (k + 1)..n : j \in (k + 1)..(n + 1) /\ queue'[j] = queue[j]
            /\ \A j \in (k + 1)..(n + 1) : j = n + 1 \/ j \in (k + 1)..n
        BY <1>1, <2>1
      <4>2. QED
        BY <1>1, <2>1, <2>4, <4>1
    <3>3. QED
      BY <1>1, <1>3, <2>1, <2>2, <2>3, <2>4, <3>1, <3>2 DEF WillHave, n
  <2>5. Queued(p)'
    BY <1>1, <2>1, <2>3 DEF Queued
  <2>6. \A k \in 1..n : ~\A j \in (k + 1)..(n + 1) : queue'[j].id # p
    BY <1>1, <2>1, <2>3
  <2>7. \A j \in (n + 1 + 1)..(n + 1) : FALSE
    BY <1>1
  <2>8. WillHave(p)' <=> action = "add"
    BY <1>1, <2>1, <2>2, <2>3, <2>5, <2>6, <2>7 DEF WillHave
  <2>9. QED
    BY <1>3, <2>4, <2>8
<1>4. CASE /\ view' = Connections!Applied(u) /\ queue' = queue
           /\ raced' = IF Connections!Queued(p) THEN raced \cup {p} ELSE raced
  <2>1. \A q \in Provider : Queued(q)' <=> Queued(q)
    BY <1>4 DEF Queued
  <2>2. /\ \A q \in Provider \ {p} : q \in view' <=> q \in view
        /\ p \in view' <=> action = "add"
    BY <1>1, <1>4 DEF Connections!Applied
  <2>3. p \notin raced' => ~Queued(p)
    BY <1>2, <1>4
  <2>4. raced \subseteq raced'
    BY <1>4
  <2>5. \A q \in Provider \ {p} : WillHave(q)' <=> WillHave(q)
    BY <1>4, <2>1, <2>2 DEF WillHave
  <2>6. p \notin raced' => (WillHave(p)' <=> action = "add")
    BY <1>4, <2>1, <2>2, <2>3 DEF WillHave, Queued
  <2>7. QED
    BY <2>4, <2>5, <2>6
<1>5. QED
  BY <1>3, <1>4 DEF Connections!Emit

\* A queue that is applied leads to what it was to lead to.
LEMMA ApplyKeeps ==
  ASSUME Connections!TypeOK, Connections!Apply, NEW p \in Provider
  PROVE  WillHave(p)' <=> WillHave(p)
<1> DEFINE n == Len(queue)
<1>1. queue \in Seq(Connections!Update) /\ queue # <<>>
  BY DEF Connections!TypeOK, Connections!Apply
<1>2. /\ n \in Nat /\ n # 0 /\ Len(queue') = n - 1 /\ Head(queue) = queue[1]
      /\ \A i \in 1..(n - 1) : queue'[i] = queue[i + 1]
      /\ queue[1].action \in {"add", "delete"} /\ queue[1].id \in Provider
  <2>1. n \in Nat /\ n # 0 /\ queue[1] \in Connections!Update
    BY <1>1
  <2>2. /\ Len(queue') = n - 1 /\ Head(queue) = queue[1]
        /\ \A i \in 1..(n - 1) : queue'[i] = queue[i + 1]
    BY <1>1, <2>1 DEF Connections!Apply
  <2>3. QED
    BY <2>1, <2>2 DEF Connections!Update
<1>3. p \in view' <=> (IF queue[1].id = p THEN queue[1].action = "add" ELSE p \in view)
  BY <1>2 DEF Connections!Apply, Connections!Applied
<1> HIDE DEF n
<1>4. \A i \in 1..(n - 1) : i + 1 \in 2..n
  BY <1>2
<1>5. \A i \in 2..n : i - 1 \in 1..(n - 1) /\ queue'[i - 1] = queue[i] /\ i \in 1..n
  BY <1>2
<1>6. \A i \in 1..n : i = 1 \/ i \in 2..n
  BY <1>2
<1>7. 1 \in 1..n
  BY <1>2
<1>8. Queued(p)' <=> \E k \in 2..n : queue[k].id = p
  <2>1. ASSUME NEW k \in 1..(n - 1), queue'[k].id = p PROVE \E i \in 2..n : queue[i].id = p
    BY <1>2, <1>4, <2>1
  <2>2. ASSUME NEW k \in 2..n, queue[k].id = p PROVE \E i \in 1..(n - 1) : queue'[i].id = p
    BY <1>5, <2>2
  <2>3. QED
    BY <1>2, <2>1, <2>2 DEF Queued
<1>9. Queued(p) <=> queue[1].id = p \/ \E k \in 2..n : queue[k].id = p
  BY <1>5, <1>6, <1>7 DEF Queued, n
<1>10. (\E k \in 1..(n - 1) : /\ queue'[k].id = p /\ queue'[k].action = "add"
                              /\ \A j \in (k + 1)..(n - 1) : queue'[j].id # p)
         <=> \E k \in 2..n : /\ queue[k].id = p /\ queue[k].action = "add"
                             /\ \A j \in (k + 1)..n : queue[j].id # p
  <2>1. ASSUME NEW k \in 1..(n - 1), queue'[k].id = p, queue'[k].action = "add",
               \A j \in (k + 1)..(n - 1) : queue'[j].id # p
        PROVE  \E i \in 2..n : /\ queue[i].id = p /\ queue[i].action = "add"
                               /\ \A j \in (i + 1)..n : queue[j].id # p
    <3>1. k + 1 \in 2..n /\ queue[k + 1] = queue'[k]
      BY <1>2, <1>4
    <3>2. ASSUME NEW j \in (k + 1 + 1)..n PROVE queue[j].id # p
      <4>1. j - 1 \in (k + 1)..(n - 1) /\ j \in 2..n
        BY <1>2
      <4>2. QED
        BY <1>5, <2>1, <4>1
    <3>3. QED
      BY <2>1, <3>1, <3>2
  <2>2. ASSUME NEW k \in 2..n, queue[k].id = p, queue[k].action = "add",
               \A j \in (k + 1)..n : queue[j].id # p
        PROVE  \E i \in 1..(n - 1) : /\ queue'[i].id = p /\ queue'[i].action = "add"
                                     /\ \A j \in (i + 1)..(n - 1) : queue'[j].id # p
    <3>1. k - 1 \in 1..(n - 1) /\ queue'[k - 1] = queue[k]
      BY <1>5
    <3>2. ASSUME NEW j \in (k - 1 + 1)..(n - 1) PROVE queue'[j].id # p
      <4>1. j + 1 \in (k + 1)..n /\ j \in 1..(n - 1)
        BY <1>2
      <4>2. QED
        BY <1>2, <2>2, <4>1
    <3>3. QED
      BY <2>2, <3>1, <3>2
  <2>3. QED
    BY <2>1, <2>2
<1>11. (\A j \in (1 + 1)..n : queue[j].id # p) <=> ~\E k \in 2..n : queue[k].id = p
  OBVIOUS
<1>12. WillHave(p)' <=>
         \/ ~(\E k \in 2..n : queue[k].id = p) /\ p \in view'
         \/ \E k \in 2..n : /\ queue[k].id = p /\ queue[k].action = "add"
                            /\ \A j \in (k + 1)..n : queue[j].id # p
  BY <1>2, <1>8, <1>10 DEF WillHave
<1>13. (\E k \in 1..n : /\ queue[k].id = p /\ queue[k].action = "add"
                        /\ \A j \in (k + 1)..n : queue[j].id # p)
        <=> \/ /\ queue[1].id = p /\ queue[1].action = "add"
               /\ ~\E k \in 2..n : queue[k].id = p
            \/ \E k \in 2..n : /\ queue[k].id = p /\ queue[k].action = "add"
                               /\ \A j \in (k + 1)..n : queue[j].id # p
  BY <1>5, <1>6, <1>7, <1>11
<1>14. WillHave(p) <=>
         \/ ~Queued(p) /\ p \in view
         \/ /\ queue[1].id = p /\ queue[1].action = "add"
            /\ ~\E k \in 2..n : queue[k].id = p
         \/ \E k \in 2..n : /\ queue[k].id = p /\ queue[k].action = "add"
                            /\ \A j \in (k + 1)..n : queue[j].id # p
  BY <1>13 DEF WillHave, n
<1>15. QED
  BY <1>3, <1>9, <1>12, <1>14

LEMMA ConnectionsTyped ==
  ASSUME Connections!SessionsParameters, Connections!TypeOK
  PROVE  /\ sessions \in [Provider -> Session \cup {None}] /\ name \in [Session -> Provider]
         /\ handler \in [Session -> {"free", "replacing", "accepted", "reading"}]
         /\ replaced \in [Session -> Session \cup {None}]
         /\ cleaning \in [Session -> {"no", "detach", "report", "done"}]
         /\ cause \in [Session -> {"replaced", "lost"}] /\ stopping \subseteq Session
         /\ None \notin Session
BY DEF Connections!TypeOK, Connections!SessionsParameters

LEMMA MatchAccept ==
  ASSUME Connections!SessionsParameters, Connections!TypeOK, MapInv,
         NEW p \in Provider, MatchOf(p), p \notin raced',
         NEW s \in Session, Connections!Accept(s)
  PROVE  MatchOf(p)'
<1>1. WillHave(p)' <=> WillHave(p)
  BY DEF Connections!Accept, WillHave, Queued
<1>2. /\ handler[s] = "free" /\ UNCHANGED <<name, cleaning, cause, stopping>>
      /\ replaced' = [replaced EXCEPT ![s] = sessions[name[s]]]
      /\ sessions' = [sessions EXCEPT ![name[s]] = s]
      /\ handler' = [handler EXCEPT ![s] = "replacing"]
  BY DEF Connections!Accept
<1>3. cleaning[s] = "no" /\ s \notin stopping
  BY <1>2 DEF MapInv
<1>4. CASE name[s] # p
  <2>1. \A t \in Session : /\ Stands(t, p)' <=> Stands(t, p)
                           /\ Unfinished(t, p)' <=> Unfinished(t, p)
                           /\ name[t] = p => t # s
    BY <1>2, <1>4, ConnectionsTyped DEF Stands, Unfinished
  <2>2. \A t \in Session : Stands(t, p) => t # s
    BY <1>2, <1>3, <1>4 DEF Stands, MapInv
  <2>3. QED
    BY <1>1, <1>2, <2>1, <2>2, ConnectionsTyped DEF MatchOf, Reported
<1>5. CASE name[s] = p
  <2>1. \A t \in Session : Unfinished(t, p) => sessions[p] = t
    BY <1>5 DEF Connections!Accept, Connections!Outstanding, Unfinished
  <2>2. \A t \in Session : Unfinished(t, p)' <=> Unfinished(t, p) \/ t = s
    BY <1>2, <1>3, <1>5, ConnectionsTyped DEF Unfinished
  <2>3. \A t \in Session : Stands(t, p)' <=> t = s
    <3>1. \A t \in Session : name[t] = p /\ t \in stopping /\ cleaning[t] = "no" => t = s
      BY <2>1 DEF Unfinished, MapInv
    <3>2. QED
      BY <1>2, <1>5, <3>1, ConnectionsTyped DEF Stands
  <2>4. QED
    BY <1>2, <1>3, <1>5, <2>1, <2>2, <2>3, ConnectionsTyped DEF MatchOf, Reported
<1>6. QED
  BY <1>4, <1>5

\* A session that is replaced is cleaned up.
LEMMA MatchReplace ==
  ASSUME Connections!SessionsParameters, Connections!TypeOK, MapInv,
         NEW p \in Provider, MatchOf(p), p \notin raced',
         NEW s \in Session, Connections!Replace(s)
  PROVE  MatchOf(p)'
<1>1. WillHave(p)' <=> WillHave(p)
  BY DEF Connections!Replace, WillHave, Queued
<1> DEFINE q == replaced[s]
<1>2. /\ q \in Session /\ cleaning[q] = "no" /\ handler[s] = "replacing"
      /\ UNCHANGED <<name, handler, replaced, sessions, stopping>>
      /\ cleaning' = [cleaning EXCEPT ![q] = "detach"]
      /\ cause' = [cause EXCEPT ![q] = "replaced"]
  BY ConnectionsTyped DEF Connections!Replace, Connections!Cleanup
<1>3. /\ handler[q] # "free" /\ \A r \in Provider : sessions[r] # q
      /\ q \notin stopping
  BY <1>2 DEF MapInv
<1> HIDE DEF q
<1>4. \A t \in Session : /\ Stands(t, p)' <=> Stands(t, p)
                         /\ Unfinished(t, p)' <=> Unfinished(t, p)
                         /\ Stands(t, p) => t # q
  BY <1>2, <1>3, ConnectionsTyped DEF Stands, Unfinished
<1>5. name[q] = p => Unfinished(q, p)
  BY <1>2, <1>3 DEF Unfinished
<1>6. QED
  BY <1>1, <1>2, <1>3, <1>4, <1>5, ConnectionsTyped DEF MatchOf, Reported, Unfinished

LEMMA MatchAfterReplace ==
  ASSUME Connections!SessionsParameters, Connections!TypeOK, MapInv,
         NEW p \in Provider, MatchOf(p), p \notin raced',
         NEW s \in Session, Connections!AfterReplace(s)
  PROVE  MatchOf(p)'
<1>1. WillHave(p)' <=> WillHave(p)
  BY DEF Connections!AfterReplace, WillHave, Queued
<1>2. /\ handler[s] = "replacing" /\ handler' = [handler EXCEPT ![s] = "accepted"]
      /\ replaced[s] = None \/ cleaning[replaced[s]] = "done"
      /\ UNCHANGED <<name, replaced, sessions, stopping, cleaning, cause>>
  BY DEF Connections!AfterReplace, Connections!CleanedUp
<1>3. \A t \in Session : /\ Stands(t, p)' <=> Stands(t, p)
                         /\ Unfinished(t, p)' <=> Unfinished(t, p)
                         /\ Reported(t)' <=> Reported(t)
                         /\ handler'[t] = "reading" <=> handler[t] = "reading"
  BY <1>2, ConnectionsTyped DEF Stands, Unfinished, Reported
<1>4. QED
  BY <1>1, <1>2, <1>3, ConnectionsTyped DEF MatchOf

\* A connection that is reported.
LEMMA MatchConnected ==
  ASSUME Connections!SessionsParameters, Connections!TypeOK, MapInv,
         NEW p \in Provider, MatchOf(p), p \notin raced', p \notin raced,
         NEW s \in Session, Connections!ReportConnected(s)
  PROVE  MatchOf(p)'
<1>1. /\ handler[s] = "accepted" /\ handler' = [handler EXCEPT ![s] = "reading"]
      /\ UNCHANGED <<name, replaced, sessions, stopping, cleaning, cause>>
      /\ Connections!Connected(name[s]) /\ name[s] \in Provider
  BY ConnectionsTyped DEF Connections!ReportConnected
<1>2. /\ name[s] # p => (WillHave(p)' <=> WillHave(p))
      /\ name[s] = p => WillHave(p)'
  <2>1. CASE name[s] \in view
    <3>1. queue \in Seq(Connections!Update)
      BY DEF Connections!TypeOK
    <3>2. /\ UNCHANGED <<queue, view>>
          /\ name[s] \notin raced' => ~Queued(name[s])
      BY <1>1, <2>1, <3>1 DEF Connections!Connected, Connections!Queued, Queued
    <3>3. QED
      BY <2>1, <3>2 DEF WillHave, Queued
  <2>2. CASE name[s] \notin view
    <3>1. Connections!Emit("add", name[s])
      BY <1>1, <2>2 DEF Connections!Connected
    <3>2. QED
      BY <1>1, <3>1, EmitDecides
  <2>3. QED
    BY <2>1, <2>2
<1>3. \A t \in Session : /\ Stands(t, p)' <=> Stands(t, p)
                         /\ Unfinished(t, p)' => Unfinished(t, p)
                         /\ Unfinished(t, p) => Unfinished(t, p)' \/ t = s
  BY <1>1, ConnectionsTyped DEF Stands, Unfinished
<1>4. name[s] = p => Unfinished(s, p)
  BY <1>1 DEF Unfinished
<1>5. /\ \A t \in Session : Reported(t) => Reported(t)'
      /\ \A t \in Session \ {s} : handler'[t] = handler[t]
      /\ handler'[s] = "reading"
  BY <1>1, ConnectionsTyped DEF Reported
<1>6. ASSUME \A t \in Session : ~Stands(t, p)
      PROVE  name[s] # p
  BY <1>1, <1>4, <1>6 DEF MatchOf, Reported
<1>7. \A t \in Session : Stands(t, p) => name[t] = p
  BY DEF Stands, MapInv
<1>8. \A t \in Session : name[t] = p /\ ~Reported(t)' => cleaning'[t] = "no" \/ cause'[t] = "replaced"
  BY <1>1, <1>5 DEF MatchOf
<1>9. ASSUME NEW t \in Session, Stands(t, p)
      PROVE  /\ handler'[t] = "reading" => WillHave(p)'
             /\ \A o \in Session \ {t} : Unfinished(o, p)' =>
                  /\ cleaning'[t] = "no"
                  /\ cleaning'[o] = "done" \/ (o = replaced'[t] /\ handler'[t] = "replacing")
  <2>1. handler'[t] = "reading" => WillHave(p)'
    BY <1>2, <1>5, <1>7, <1>9 DEF MatchOf
  <2>2. handler[t] = "replacing" => handler'[t] = "replacing"
    BY <1>1, <1>5
  <2>3. QED
    BY <1>1, <1>3, <1>9, <2>1, <2>2 DEF MatchOf
<1>10. ASSUME \A t \in Session : ~Stands(t, p)
       PROVE  /\ name[s] # p /\ (WillHave(p)' <=> WillHave(p))
              /\ \A t \in Session : Unfinished(t, p)' <=> Unfinished(t, p)
  BY <1>1, <1>2, <1>3, <1>6, <1>10 DEF Unfinished
<1>11. QED
  BY <1>1, <1>3, <1>8, <1>9, <1>10 DEF MatchOf

\* A session that is lost, or stopped.
LEMMA MatchLost ==
  ASSUME Connections!SessionsParameters, Connections!TypeOK, MapInv,
         NEW p \in Provider, MatchOf(p), p \notin raced',
         NEW s \in Session, handler[s] # "free", Connections!Cleanup(s, "lost"),
         UNCHANGED <<sessions, name, handler, replaced, stopping, queue, view>>
  PROVE  MatchOf(p)'
<1>1. WillHave(p)' <=> WillHave(p)
  BY DEF WillHave, Queued
<1>2. /\ cleaning[s] = "no" /\ cleaning' = [cleaning EXCEPT ![s] = "detach"]
      /\ cause' = [cause EXCEPT ![s] = "lost"]
      /\ name[s] = p => ~Connections!Unreported(s)
  BY DEF Connections!Cleanup
<1>3. name[s] = p => \A t \in Session : name[t] = p /\ ~Reported(t) => replaced[t] = s
  BY <1>2 DEF Connections!Unreported, Reported
<1>4. name[s] = p => Reported(s)
  BY <1>3 DEF MapInv
<1>5. name[s] = p => Unfinished(s, p)
  BY <1>2 DEF Unfinished
<1>6. \A t \in Session : /\ Stands(t, p)' => Stands(t, p)
                         /\ Stands(t, p) => Stands(t, p)' \/ t = s
                         /\ Unfinished(t, p)' <=> Unfinished(t, p)
                         /\ Stands(t, p) => name[t] = p
  BY <1>2, ConnectionsTyped DEF Stands, Unfinished, MapInv
<1>7. \A t \in Session : name[t] = p /\ ~Reported(t)' => cleaning'[t] = "no" \/ cause'[t] = "replaced"
  BY <1>2, <1>4, ConnectionsTyped DEF MatchOf, Reported
\* One that stands for p has nothing else to wait for.
<1>8. ASSUME Stands(s, p)
      PROVE  \A t \in Session : Unfinished(t, p) => t = s
  <2>1. \A t \in Session : replaced[t] # s
    BY <1>8 DEF Stands, MapInv
  <2>2. \A t \in Session : name[t] = p => Reported(t)
    BY <1>3, <1>6, <1>8, <2>1
  <2>3. handler[s] # "replacing"
    BY <1>4, <1>6, <1>8 DEF Reported
  <2>4. ASSUME NEW t \in Session \ {s}, Unfinished(t, p) PROVE FALSE
    <3>1. cleaning[t] = "done"
      BY <1>8, <2>3, <2>4 DEF MatchOf
    <3>2. handler[t] = "reading"
      BY <2>2, <2>4, ConnectionsTyped DEF Unfinished, Reported
    <3>3. QED
      BY <2>4, <3>1, <3>2 DEF Unfinished
  <2>5. QED
    BY <2>4
<1>9. ASSUME NEW t \in Session, Stands(t, p)'
      PROVE  /\ handler'[t] = "reading" => WillHave(p)'
             /\ \A o \in Session \ {t} : Unfinished(o, p)' =>
                  /\ cleaning'[t] = "no"
                  /\ cleaning'[o] = "done" \/ (o = replaced'[t] /\ handler'[t] = "replacing")
  <2>1. CASE t = s
    BY <1>1, <1>6, <1>8, <1>9, <2>1 DEF MatchOf
  <2>2. CASE t # s
    <3>1. cleaning'[t] = cleaning[t]
      BY <1>2, <2>2, ConnectionsTyped
    <3>2. \A o \in Session : cleaning[o] = "done" => cleaning'[o] = "done"
      BY <1>2, ConnectionsTyped
    <3>3. QED
      BY <1>1, <1>6, <1>9, <3>1, <3>2 DEF MatchOf
  <2>3. QED
    BY <2>1, <2>2
<1>10. ASSUME \A t \in Session : ~Stands(t, p)'
       PROVE  \/ ~WillHave(p)' /\ \A t \in Session : ~Unfinished(t, p)'
              \/ \E t \in Session :
                   /\ Unfinished(t, p)' /\ cleaning'[t] \in {"detach", "report"}
                   /\ cause'[t] = "lost" /\ \A o \in Session : Unfinished(o, p)' => o = t
  <2>1. CASE Stands(s, p)
    <3>1. Unfinished(s, p)' /\ cleaning'[s] = "detach" /\ cause'[s] = "lost"
      BY <1>2, <1>5, <1>6, <2>1, ConnectionsTyped
    <3>2. \A o \in Session : Unfinished(o, p)' => o = s
      BY <1>6, <1>8, <2>1
    <3>3. QED
      BY <3>1, <3>2
  <2>2. CASE ~Stands(s, p)
    <3>1. \A t \in Session : ~Stands(t, p)
      BY <1>6, <1>10, <2>2
    <3>2. name[s] # p
      BY <1>2, <1>5, <3>1 DEF MatchOf
    <3>3. \A t \in Session : Unfinished(t, p) => t # s
      BY <3>2 DEF Unfinished
    <3>4. \A t \in Session \ {s} : cleaning'[t] = cleaning[t] /\ cause'[t] = cause[t]
      BY <1>2, ConnectionsTyped
    <3>5. QED
      BY <1>1, <1>6, <3>1, <3>3, <3>4 DEF MatchOf
  <2>3. QED
    BY <2>1, <2>2
<1>11. QED
  BY <1>6, <1>7, <1>9, <1>10 DEF MatchOf

\* The steps that end a session.
LEMMA MatchDetach ==
  ASSUME Connections!SessionsParameters, Connections!TypeOK, MapInv,
         NEW p \in Provider, MatchOf(p), p \notin raced',
         NEW s \in Session, Connections!Detach(s)
  PROVE  MatchOf(p)'
<1>1. WillHave(p)' <=> WillHave(p)
  BY DEF Connections!Detach, WillHave, Queued
<1>2. /\ cleaning[s] = "detach" /\ cleaning' = [cleaning EXCEPT ![s] = "report"]
      /\ sessions' = [sessions EXCEPT ![name[s]] = IF @ = s THEN None ELSE @]
      /\ UNCHANGED <<name, handler, replaced, stopping, cause>>
  BY DEF Connections!Detach, Connections!WithoutSession
<1>3. handler[s] # "free"
  BY <1>2 DEF MapInv
<1>4. \A t \in Session : /\ Unfinished(t, p)' <=> Unfinished(t, p)
                         /\ Stands(t, p)' <=> Stands(t, p) /\ t # s
                         /\ Stands(t, p) => name[t] = p
  BY <1>2, ConnectionsTyped DEF Unfinished, Stands, MapInv
<1>5. \A t \in Session : cleaning'[t] \in {"detach", "report"} <=> cleaning[t] \in {"detach", "report"}
  BY <1>2, ConnectionsTyped
<1>6. \A t \in Session : /\ cleaning'[t] = "no" <=> cleaning[t] = "no"
                         /\ cleaning'[t] = "done" <=> cleaning[t] = "done"
  BY <1>2, ConnectionsTyped
<1>7. ASSUME Stands(s, p)
      PROVE  /\ Unfinished(s, p) /\ cause[s] = "lost"
             /\ \A t \in Session : Unfinished(t, p) => t = s
  <2>1. name[s] = p
    BY <1>4, <1>7
  <2>2. cause[s] = "lost"
    BY <1>2, <1>7 DEF Stands, MapInv
  <2>3. QED
    BY <1>2, <1>3, <1>7, <2>1, <2>2 DEF MatchOf, Unfinished
<1>8. ASSUME \A t \in Session : ~Stands(t, p)'
       PROVE  \/ ~WillHave(p)' /\ \A t \in Session : ~Unfinished(t, p)'
              \/ \E t \in Session :
                   /\ Unfinished(t, p)' /\ cleaning'[t] \in {"detach", "report"}
                   /\ cause'[t] = "lost" /\ \A o \in Session : Unfinished(o, p)' => o = t
  <2>1. CASE Stands(s, p)
    BY <1>2, <1>4, <1>5, <1>7, <2>1
  <2>2. CASE ~Stands(s, p)
    BY <1>1, <1>2, <1>4, <1>5, <1>8, <2>2 DEF MatchOf
  <2>3. QED
    BY <2>1, <2>2
<1>9. QED
  BY <1>1, <1>2, <1>4, <1>6, <1>8, ConnectionsTyped DEF MatchOf, Reported

LEMMA MatchDisconnected ==
  ASSUME Connections!SessionsParameters, Connections!TypeOK, MapInv,
         NEW p \in Provider, MatchOf(p), p \notin raced',
         NEW s \in Session, Connections!ReportDisconnected(s)
  PROVE  MatchOf(p)'
<1>1. /\ cleaning[s] = "report" /\ cleaning' = [cleaning EXCEPT ![s] = "done"]
      /\ UNCHANGED <<sessions, name, handler, replaced, stopping, cause>>
      /\ Connections!Disconnected(name[s], cause[s]) /\ name[s] \in Provider
      /\ cause[s] \in {"replaced", "lost"}
  BY ConnectionsTyped DEF Connections!ReportDisconnected
<1>2. /\ name[s] # p \/ cause[s] = "replaced" => (WillHave(p)' <=> WillHave(p))
      /\ name[s] = p /\ cause[s] = "lost" => ~WillHave(p)'
  <2>1. CASE cause[s] = "replaced"
    BY <1>1, <2>1 DEF Connections!Disconnected, WillHave, Queued
  <2>2. CASE cause[s] = "lost"
    <3>1. Connections!Emit("delete", name[s])
      BY <1>1, <2>2 DEF Connections!Disconnected
    <3>2. QED
      BY <2>2, <1>1, <3>1, EmitDecides
  <2>3. QED
    BY <1>1, <2>1, <2>2
<1>3. /\ handler[s] # "free" /\ ~Stands(s, p)
  BY <1>1 DEF MapInv, Stands
<1>4. \A t \in Session : /\ Stands(t, p)' <=> Stands(t, p)
                         /\ Unfinished(t, p)' => Unfinished(t, p)
                         /\ Unfinished(t, p) => Unfinished(t, p)' \/ t = s
                         /\ Stands(t, p) => name[t] = p
  BY <1>1, ConnectionsTyped DEF Stands, Unfinished, MapInv
<1>5. name[s] = p => Unfinished(s, p)
  BY <1>1, <1>3 DEF Unfinished
<1>6. \A t \in Session \ {s} : cleaning'[t] = cleaning[t]
  BY <1>1, ConnectionsTyped
<1>7. cleaning'[s] = "done"
  BY <1>1, ConnectionsTyped
<1>8. ASSUME NEW t \in Session, Stands(t, p)
      PROVE  /\ handler'[t] = "reading" => WillHave(p)'
             /\ \A o \in Session \ {t} : Unfinished(o, p)' =>
                  /\ cleaning'[t] = "no"
                  /\ cleaning'[o] = "done" \/ (o = replaced'[t] /\ handler'[t] = "replacing")
  <2>1. t # s
    BY <1>3, <1>8
  <2>2. handler[t] = "reading" => name[s] # p
    BY <1>1, <1>5, <1>8, <2>1 DEF MatchOf
  <2>3. QED
    BY <1>1, <1>2, <1>4, <1>6, <1>7, <1>8, <2>1, <2>2 DEF MatchOf
<1>9. ASSUME \A t \in Session : ~Stands(t, p)
       PROVE  \/ ~WillHave(p)' /\ \A t \in Session : ~Unfinished(t, p)'
              \/ \E t \in Session :
                   /\ Unfinished(t, p)' /\ cleaning'[t] \in {"detach", "report"}
                   /\ cause'[t] = "lost" /\ \A o \in Session : Unfinished(o, p)' => o = t
  <2>1. CASE name[s] = p
    <3>1. /\ cause[s] = "lost" /\ \A t \in Session : Unfinished(t, p) => t = s
      BY <1>5, <1>9, <2>1 DEF MatchOf
    <3>2. handler[s] = "reading"
      BY <1>1, <1>3, <2>1, <3>1, ConnectionsTyped DEF MatchOf, Reported
    <3>3. ~Unfinished(s, p)'
      BY <1>1, <1>7, <3>2 DEF Unfinished
    <3>4. QED
      BY <1>2, <1>4, <2>1, <3>1, <3>3
  <2>2. CASE name[s] # p
    <3>1. \A t \in Session : Unfinished(t, p) => t # s
      BY <2>2 DEF Unfinished
    <3>2. QED
      BY <1>1, <1>2, <1>4, <1>6, <1>9, <2>2, <3>1 DEF MatchOf
  <2>3. QED
    BY <2>1, <2>2
<1>10. \A t \in Session : name[t] = p /\ ~Reported(t)' => cleaning'[t] = "no" \/ cause'[t] = "replaced"
  <2>1. \A t \in Session : Reported(t)' <=> Reported(t)
    BY <1>1 DEF Reported
  <2>2. QED
    BY <1>1, <1>6, <2>1 DEF MatchOf
<1>11. QED
  BY <1>1, <1>4, <1>8, <1>9, <1>10 DEF MatchOf

LEMMA MatchStop ==
  ASSUME Connections!SessionsParameters, Connections!TypeOK, MapInv,
         NEW p \in Provider, MatchOf(p), p \notin raced', Connections!Stop
  PROVE  MatchOf(p)'
<1>1. WillHave(p)' <=> WillHave(p)
  BY DEF Connections!Stop, WillHave, Queued
<1>2. /\ stopping = {} /\ stopping' = {sessions[r] : r \in Provider} \ {None}
      /\ sessions' = [r \in Provider |-> None]
      /\ UNCHANGED <<name, handler, replaced, cleaning, cause>>
  BY DEF Connections!Stop
<1>3. \A t \in Session : /\ Unfinished(t, p)' <=> Unfinished(t, p)
                         /\ Reported(t)' <=> Reported(t)
  BY <1>2 DEF Unfinished, Reported
<1>4. \A t \in Session : Stands(t, p) <=> sessions[p] = t
  BY <1>2 DEF Stands
<1>5. \A t \in Session : t \in stopping' => sessions[name[t]] = t
  BY <1>2 DEF MapInv
<1>6. \A t \in Session : Stands(t, p)' <=> sessions[p] = t /\ cleaning[t] = "no"
  <2>1. \A t \in Session : sessions'[p] # t
    BY <1>2, ConnectionsTyped
  <2>2. \A t \in Session : sessions[p] = t => t \in stopping' /\ name[t] = p
    BY <1>2, ConnectionsTyped DEF MapInv
  <2>3. QED
    BY <1>2, <1>5, <2>1, <2>2 DEF Stands
<1>7. ASSUME \A t \in Session : ~Stands(t, p)', NEW s \in Session, Stands(s, p)
      PROVE  /\ Unfinished(s, p) /\ cleaning[s] = "detach" /\ cause[s] = "lost"
             /\ \A t \in Session : Unfinished(t, p) => t = s
  <2>1. sessions[p] = s /\ cleaning[s] # "no"
    BY <1>4, <1>6, <1>7
  <2>2. /\ cleaning[s] = "detach" /\ cause[s] = "lost" /\ name[s] = p /\ handler[s] # "free"
    BY <2>1 DEF MapInv
  <2>3. QED
    BY <1>7, <2>2 DEF MatchOf, Unfinished
<1>8. ASSUME \A t \in Session : ~Stands(t, p)'
       PROVE  \/ ~WillHave(p)' /\ \A t \in Session : ~Unfinished(t, p)'
              \/ \E t \in Session :
                   /\ Unfinished(t, p)' /\ cleaning'[t] \in {"detach", "report"}
                   /\ cause'[t] = "lost" /\ \A o \in Session : Unfinished(o, p)' => o = t
  <2>1. CASE \E s \in Session : Stands(s, p)
    BY <1>2, <1>3, <1>7, <1>8, <2>1
  <2>2. CASE \A s \in Session : ~Stands(s, p)
    BY <1>1, <1>2, <1>3, <2>2 DEF MatchOf
  <2>3. QED
    BY <2>1, <2>2
<1>9. \A t \in Session : Stands(t, p)' => Stands(t, p)
  BY <1>4, <1>6
<1>10. QED
  BY <1>1, <1>2, <1>3, <1>8, <1>9 DEF MatchOf

LEMMA MatchReconnect ==
  ASSUME Connections!SessionsParameters, Connections!TypeOK, MapInv,
         NEW p \in Provider, MatchOf(p), p \notin raced',
         NEW s \in Session, NEW r \in Provider, Connections!Reconnect(s, r)
  PROVE  MatchOf(p)'
<1>1. WillHave(p)' <=> WillHave(p)
  BY DEF Connections!Reconnect, WillHave, Queued
<1>2. /\ handler[s] = "reading" /\ cleaning[s] = "done" /\ s \notin stopping
      /\ \A t \in Session : replaced[t] = s => handler[t] # "replacing"
      /\ handler' = [handler EXCEPT ![s] = "free"] /\ name' = [name EXCEPT ![s] = r]
      /\ cleaning' = [cleaning EXCEPT ![s] = "no"] /\ cause' = [cause EXCEPT ![s] = "lost"]
      /\ replaced' = [t \in Session |-> IF t = s \/ replaced[t] = s THEN None ELSE replaced[t]]
      /\ UNCHANGED <<sessions, stopping>>
  BY DEF Connections!Reconnect, Connections!Forgotten
<1>3. \A q \in Provider : sessions[q] # s
  BY <1>2 DEF MapInv
<1>4. ~Unfinished(s, p) /\ ~Unfinished(s, p)' /\ ~Stands(s, p) /\ ~Stands(s, p)' /\ Reported(s)'
  BY <1>2, <1>3, ConnectionsTyped DEF Unfinished, Stands, Reported
<1>5. \A t \in Session \ {s} : /\ handler'[t] = handler[t] /\ name'[t] = name[t]
                               /\ cleaning'[t] = cleaning[t] /\ cause'[t] = cause[t]
                               /\ Unfinished(t, p)' <=> Unfinished(t, p)
                               /\ Stands(t, p)' <=> Stands(t, p)
                               /\ Reported(t)' <=> Reported(t)
  BY <1>2, ConnectionsTyped DEF Unfinished, Stands, Reported
<1>6. \A t \in Session \ {s}, o \in Session \ {s} :
        o = replaced[t] => o = replaced'[t]
  BY <1>2, ConnectionsTyped
<1>7. QED
  BY <1>1, <1>4, <1>5, <1>6 DEF MatchOf

LEMMA MatchNext ==
  ASSUME Connections!SessionsParameters, Connections!TypeOK, MapInv, MatchInv, Connections!Next
  PROVE  MatchInv'
<1>1. raced \subseteq raced'
  <2>1. ASSUME NEW s \in Session, Connections!ReportConnected(s) PROVE raced \subseteq raced'
    <3>1. name[s] \in Provider
      BY ConnectionsTyped
    <3>2. QED
      BY <2>1, <3>1, EmitDecides DEF Connections!ReportConnected, Connections!Connected
  <2>2. ASSUME NEW s \in Session, Connections!ReportDisconnected(s) PROVE raced \subseteq raced'
    <3>1. name[s] \in Provider
      BY ConnectionsTyped
    <3>2. QED
      BY <2>2, <3>1, EmitDecides DEF Connections!ReportDisconnected, Connections!Disconnected
  <2>3. QED
    BY <2>1, <2>2 DEF Connections!Next, Connections!Accept, Connections!Replace,
       Connections!AfterReplace, Connections!LoseConnection, Connections!StopSession,
       Connections!Cleanup, Connections!Detach, Connections!Reconnect, Connections!Stop,
       Connections!Apply, Connections!EnsureQueue, Connections!StartWatcher
<1> SUFFICES ASSUME NEW p \in Provider, p \notin raced'
             PROVE  MatchOf(p)'
  BY DEF MatchInv
<1>2. MatchOf(p) /\ p \notin raced
  BY <1>1 DEF MatchInv
<1>3. ASSUME NEW s \in Session, Connections!LoseConnection(s) PROVE MatchOf(p)'
  BY <1>2, <1>3, MatchLost DEF Connections!LoseConnection
<1>4. ASSUME NEW s \in Session, Connections!StopSession(s) PROVE MatchOf(p)'
  <2>1. handler[s] # "free"
    BY <1>4 DEF MapInv, Connections!StopSession
  <2>2. CASE Connections!Cleanup(s, "lost") /\ UNCHANGED stopping
    BY <1>2, <1>4, <2>1, <2>2, MatchLost DEF Connections!StopSession
  <2>3. CASE cleaning[s] = "done" /\ stopping' = stopping \ {s} /\ UNCHANGED <<cleaning, cause>>
    <3>1. UNCHANGED <<sessions, name, handler, replaced, cleaning, cause, queue, view>>
      BY <1>4, <2>3 DEF Connections!StopSession
    <3>2. \A t \in Session : /\ Unfinished(t, p)' <=> Unfinished(t, p)
                             /\ Stands(t, p)' <=> Stands(t, p)
                             /\ Reported(t)' <=> Reported(t)
      BY <2>3, <3>1 DEF Unfinished, Stands, Reported
    <3>3. WillHave(p)' <=> WillHave(p)
      BY <3>1 DEF WillHave, Queued
    <3>4. QED
      BY <1>2, <3>1, <3>2, <3>3 DEF MatchOf
  <2>4. QED
    BY <1>4, <2>2, <2>3 DEF Connections!StopSession
<1>5. CASE Connections!Apply \/ Connections!EnsureQueue \/ Connections!StartWatcher
  <2>1. WillHave(p)' <=> WillHave(p)
    BY <1>5, ApplyKeeps DEF Connections!EnsureQueue, Connections!StartWatcher, WillHave, Queued
  <2>2. UNCHANGED <<sessions, name, handler, replaced, cleaning, cause, stopping>>
    BY <1>5 DEF Connections!Apply, Connections!EnsureQueue, Connections!StartWatcher,
       Connections!relay
  <2>3. \A t \in Session : /\ Unfinished(t, p)' <=> Unfinished(t, p)
                           /\ Stands(t, p)' <=> Stands(t, p)
                           /\ Reported(t)' <=> Reported(t)
    BY <2>2 DEF Unfinished, Stands, Reported
  <2>4. QED
    BY <1>2, <2>1, <2>2, <2>3 DEF MatchOf
<1>6. QED
  BY <1>2, <1>3, <1>4, <1>5, MatchAccept, MatchReplace, MatchAfterReplace, MatchConnected,
     MatchDetach, MatchDisconnected, MatchReconnect, MatchStop DEF Connections!Next

LEMMA ConnectionsInvInit ==
  ASSUME Connections!SessionsParameters, Connections!Init
  PROVE  ConnectionsInv
<1>1. Connections!TypeOK
  BY DEF Connections!Init, Connections!TypeOK
<1>2. MapInv
  BY ConnectionsTyped, <1>1 DEF Connections!Init, MapInv
<1>3. \A p \in Provider : ~WillHave(p)
  BY DEF Connections!Init, WillHave
<1>4. MatchInv
  BY <1>1, <1>3, ConnectionsTyped DEF Connections!Init, MatchInv, MatchOf, Reported, Stands,
     Unfinished
<1>5. QED
  BY <1>1, <1>2, <1>4 DEF ConnectionsInv

LEMMA ConnectionsInvStay ==
  ASSUME ConnectionsInv, UNCHANGED connections
  PROVE  ConnectionsInv'
<1> USE DEF connections, ConnectionsInv
<1>1. Connections!TypeOK' /\ MapInv'
  BY DEF Connections!TypeOK, MapInv
<1>2. \A p \in Provider : MatchOf(p)' <=> MatchOf(p)
  BY DEF MatchOf, Reported, Stands, Unfinished, WillHave, Queued
<1>3. QED
  BY <1>1, <1>2 DEF MatchInv

LEMMA ConnectionsSteps ==
  ASSUME [ServicesNext]_serviceVars
  PROVE  Connections!Next \/ UNCHANGED connections
BY DEF ServicesNext, serviceVars

\* The inductive invariant of the sessions.
THEOREM ConnectionsAlways == ServicesSpec => []ConnectionsInv
<1>1. ServicesInit => ConnectionsInv
  BY ServiceParameters, ConnectionsInvInit DEF ServicesInit
<1>2. ConnectionsInv /\ [ServicesNext]_serviceVars => ConnectionsInv'
  BY ServiceParameters, ConnectionsSteps, ConnectionsTypeNext, MapNext, MatchNext,
     ConnectionsInvStay DEF ConnectionsInv
<1>3. QED
  BY <1>1, <1>2, PTL DEF ServicesSpec, serviceVars

\* The map leads to live sessions, and to all of them.
THEOREM SessionsFound == ServicesSpec => []LiveSessionsFound
<1>1. ConnectionsInv => LiveSessionsFound
  BY DEF ConnectionsInv, Connections!TypeOK, MapInv, LiveSessionsFound,
     Connections!LiveSessionsFound
<1>2. QED
  BY <1>1, ConnectionsAlways, PTL

\* When all is quiet, and no reports crossed, credentials and connections agree.
THEOREM CredentialsFollow == ServicesSpec => []CredentialsMatch
<1>1. ASSUME ConnectionsInv, NEW p \in Provider \ raced, Connections!Quiet(p)
      PROVE  p \in view <=> sessions[p] # None
  <2>1. Connections!SessionsParameters /\ Connections!TypeOK /\ MapInv /\ MatchOf(p)
    BY <1>1, ServiceParameters DEF ConnectionsInv, MatchInv
  <2>2. ~Queued(p)
    <3>1. queue \in Seq(Connections!Update)
      BY <2>1 DEF Connections!TypeOK
    <3>2. QED
      BY <1>1, <3>1 DEF Connections!Quiet, Connections!Queued, Queued
  <2>3. WillHave(p) <=> p \in view
    BY <2>2 DEF WillHave, Queued
  <2>4. CASE sessions[p] = None
    <3>1. \A s \in Session : ~Stands(s, p)
      BY <1>1, <2>1, <2>4, ConnectionsTyped DEF Stands, Connections!Quiet
    <3>2. \A s \in Session : Unfinished(s, p) => cleaning[s] \notin {"detach", "report"}
      BY <1>1, <2>1, ConnectionsTyped DEF Unfinished, Connections!Quiet
    <3>3. QED
      BY <2>1, <2>3, <2>4, <3>1, <3>2 DEF MatchOf
  <2>5. CASE sessions[p] # None
    <3>1. PICK s \in Session : sessions[p] = s
      BY <2>1, <2>5, ConnectionsTyped
    <3>2. /\ Stands(s, p) /\ name[s] = p /\ handler[s] # "free"
      BY <2>1, <3>1 DEF Stands, MapInv
    <3>3. handler[s] = "reading"
      BY <1>1, <3>2 DEF Connections!Quiet
    <3>4. QED
      BY <2>1, <2>3, <2>5, <3>2, <3>3 DEF MatchOf
  <2>6. QED
    BY <2>4, <2>5
<1>2. ConnectionsInv => CredentialsMatch
  BY <1>1 DEF CredentialsMatch, Connections!CredentialsMatch
<1>3. QED
  BY <1>2, ConnectionsAlways, PTL

-----------------------------------------------------------------------------
(* The refresh token of a credential. *)

\* Until something went wrong there is one refresh at a time, and whatever is on its way
\* to the manager or the file has the manager's token; only the file may lack it, which
\* the watcher then takes for known, before the refresh saved it or when the save failed.
TokensInv ==
  excuses = {} =>
    /\ \A v, w \in Refresher : refreshPc[v] # "idle" /\ refreshPc[w] # "idle" => v = w
    /\ \A w \in Refresher : /\ refreshPc[w] = "update" => held[w] = issued
                            /\ refreshPc[w] = "persist" => held[w] = token
    /\ (\A w \in Refresher : refreshPc[w] # "update") => token = issued
    /\ service # "idle" => update.token = token
    /\ \A k \in 1..Len(feed) : feed[k] = token
    /\ \/ tokenFile = token
       \/ known = tokenFile /\ (unsaved \/ \E w \in Refresher : refreshPc[w] = "persist")

\* What the watcher publishes is the state of the file, after what is on its way.
LEMMA NoticeFeed ==
  ASSUME Tokens!TypeOK, Tokens!Notice \/ Tokens!Republish
  PROVE  /\ feed' \in Seq(Tokens!Token) /\ Len(feed') <= FeedCap
         /\ \A k \in 1..Len(feed') : feed'[k] = tokenFile \/ \E i \in 1..Len(feed) : feed'[k] = feed[i]
<1>1. feed \in Seq(Tokens!Token) /\ tokenFile \in Tokens!Token /\ Len(feed) \in Nat
  BY DEF Tokens!TypeOK
<1>2. CASE feed' = Append(feed, tokenFile)
  <2>1. /\ Len(feed') = Len(feed) + 1 /\ feed'[Len(feed) + 1] = tokenFile
        /\ \A i \in 1..Len(feed) : feed'[i] = feed[i]
    BY <1>1, <1>2
  <2>2. \A i \in 1..(Len(feed) + 1) : i = Len(feed) + 1 \/ i \in 1..Len(feed)
    BY <1>1
  <2>3. QED
    BY <1>1, <1>2, <2>1, <2>2 DEF Tokens!Notice, Tokens!Republish
<1>3. CASE feed # <<>> /\ feed' = Append(Tokens!Feed!Front(feed), tokenFile)
  <2> DEFINE front == [i \in 1..(Len(feed) - 1) |-> feed[i]]
  <2>1. Tokens!Feed!Front(feed) = front
    BY DEF Tokens!Feed!Front
  <2>2. /\ front \in Seq(Tokens!Token) /\ Len(front) = Len(feed) - 1 /\ Len(front) \in Nat
        /\ \A i \in 1..Len(front) : front[i] = feed[i] /\ i \in 1..Len(feed)
    BY <1>1, <1>3
  <2> HIDE DEF front
  <2>3. /\ Len(feed') = Len(front) + 1 /\ feed'[Len(front) + 1] = tokenFile
        /\ \A i \in 1..Len(front) : feed'[i] = front[i]
        /\ feed' \in Seq(Tokens!Token)
    BY <1>1, <1>3, <2>1, <2>2
  <2>4. \A i \in 1..(Len(front) + 1) : i = Len(front) + 1 \/ i \in 1..Len(front)
    BY <2>2
  <2>5. QED
    BY <2>2, <2>3, <2>4 DEF Tokens!Notice, Tokens!Republish
<1>4. QED
  BY <1>2, <1>3 DEF Tokens!Notice, Tokens!Republish, Tokens!Feed!Grown

LEMMA TokensTypeNext ==
  ASSUME Tokens!RefreshParameters, Tokens!TypeOK, Tokens!Next
  PROVE  Tokens!TypeOK'
<1> USE DEF Tokens!TypeOK, Tokens!manager, Tokens!echo, Tokens!saving, Tokens!Token
<1>1. MaxToken \in Nat /\ FeedCap \in Nat \ {0} /\ MaxRestarts \in Nat
  BY DEF Tokens!RefreshParameters
<1>2. ASSUME NEW w \in Refresher, NEW ok \in BOOLEAN,
             \/ Tokens!Begin(w) \/ Tokens!ReadToken(w) \/ Tokens!Refuse(w) \/ Tokens!BackOff(w)
             \/ Tokens!Update(w) \/ Tokens!Persist(w, ok)
      PROVE  Tokens!TypeOK'
  <2>1. CASE Tokens!Begin(w)
    BY <2>1 DEF Tokens!Begin
  <2>2. CASE Tokens!ReadToken(w)
    BY <2>2 DEF Tokens!ReadToken
  <2>3. CASE Tokens!Refuse(w)
    <3>1. 0 \in 0..MaxToken
      BY <1>1
    <3>2. QED
      BY <2>3, <3>1 DEF Tokens!Refuse
  <2>4. CASE Tokens!BackOff(w)
    BY <2>4 DEF Tokens!BackOff
  <2>5. CASE Tokens!Update(w)
    BY <2>5 DEF Tokens!Update
  <2>6. CASE Tokens!Persist(w, ok)
    <3>1. 0 \in 0..MaxToken
      BY <1>1
    <3>2. QED
      BY <2>6, <3>1 DEF Tokens!Persist, Tokens!Saved
  <2>7. QED
    BY <1>2, <2>1, <2>2, <2>3, <2>4, <2>5, <2>6
<1>3. ASSUME NEW w \in Refresher, NEW missed \in BOOLEAN, Tokens!Trade(w, missed)
      PROVE  Tokens!TypeOK'
  <2>1. issued' \in 0..MaxToken /\ 0 \in 0..MaxToken
    BY <1>1, <1>3 DEF Tokens!Trade
  <2>2. held' \in [Refresher -> 0..MaxToken]
    BY <1>3, <2>1 DEF Tokens!Trade
  <2>3. QED
    BY <1>3, <2>1, <2>2 DEF Tokens!Trade
<1>4. CASE Tokens!Elapse \/ Tokens!MarkResult
  BY <1>4 DEF Tokens!Elapse, Tokens!MarkResult, Tokens!Saved
<1>5. CASE Tokens!Notice \/ Tokens!Republish
  <2>1. feed' \in Seq(0..MaxToken) /\ Len(feed') <= FeedCap
    BY <1>5, NoticeFeed
  <2>2. QED
    BY <1>5, <2>1 DEF Tokens!Notice, Tokens!Republish
<1>6. CASE Tokens!TakeUpdate
  <2>1. /\ Head(feed) \in 0..MaxToken /\ Tail(feed) \in Seq(0..MaxToken)
        /\ Len(Tail(feed)) <= FeedCap
    BY <1>1, <1>6 DEF Tokens!TakeUpdate
  <2>2. QED
    BY <1>6, <2>1 DEF Tokens!TakeUpdate
<1>7. CASE Tokens!ApplyUpdate
  BY <1>7 DEF Tokens!ApplyUpdate
<1>8. ASSUME NEW ok \in BOOLEAN, Tokens!PersistUpdate(ok) PROVE Tokens!TypeOK'
  <2>1. Tokens!NoUpdate \in [token : 0..MaxToken, waits : BOOLEAN]
    BY <1>1 DEF Tokens!NoUpdate
  <2>2. QED
    BY <1>8, <2>1 DEF Tokens!PersistUpdate, Tokens!Saved
<1>9. CASE Tokens!Restart
  <2>1. Tokens!NoUpdate \in [token : 0..MaxToken, waits : BOOLEAN]
    BY <1>1 DEF Tokens!NoUpdate
  <2>2. /\ <<tokenFile>> \in Seq(0..MaxToken) /\ Len(<<tokenFile>>) <= FeedCap
        /\ 0 \in 0..MaxToken /\ restarts + 1 \in 0..MaxRestarts
    BY <1>1, <1>9 DEF Tokens!Restart
  <2>3. QED
    BY <1>9, <2>1, <2>2 DEF Tokens!Restart
<1>10. QED
  BY <1>2, <1>3, <1>4, <1>5, <1>6, <1>7, <1>8, <1>9
     DEF Tokens!Next, Tokens!Refresh, Tokens!Service

LEMMA TokensNext ==
  ASSUME Tokens!RefreshParameters, Tokens!TypeOK, TokensInv, Tokens!Next
  PROVE  TokensInv'
<1> USE DEF Tokens!manager, Tokens!echo, Tokens!saving
<1>1. /\ issued \in Nat /\ feed \in Seq(Tokens!Token) /\ Len(feed) \in Nat
      /\ refreshPc \in [Refresher -> {"idle", "begun", "call", "failed", "update", "persist"}]
      /\ held \in [Refresher -> Tokens!Token]
      /\ service \in {"idle", "apply", "persist"}
  BY DEF Tokens!RefreshParameters, Tokens!TypeOK, Tokens!Token
<1> SUFFICES ASSUME excuses' = {}
             PROVE  TokensInv'
  BY DEF TokensInv
<1>2. ASSUME NEW w \in Refresher, Tokens!Begin(w) PROVE TokensInv'
  BY <1>1, <1>2 DEF Tokens!Begin, TokensInv
<1>3. ASSUME NEW w \in Refresher, Tokens!ReadToken(w) PROVE TokensInv'
  BY <1>1, <1>3 DEF Tokens!ReadToken, TokensInv
<1>4. ASSUME NEW w \in Refresher, Tokens!Refuse(w) PROVE TokensInv'
  BY <1>1, <1>4 DEF Tokens!Refuse, TokensInv
<1>5. ASSUME NEW w \in Refresher, Tokens!BackOff(w) PROVE TokensInv'
  BY <1>1, <1>5 DEF Tokens!BackOff, TokensInv
<1>6. ASSUME NEW w \in Refresher, NEW missed \in BOOLEAN, Tokens!Trade(w, missed) PROVE TokensInv'
  BY <1>1, <1>6 DEF Tokens!Trade, TokensInv
<1>7. ASSUME NEW w \in Refresher, Tokens!Update(w) PROVE TokensInv'
  <2>1. /\ feed = <<>> /\ service = "idle" /\ known = tokenFile /\ excuses = {}
        /\ refreshPc[w] = "update" /\ refreshPc' = [refreshPc EXCEPT ![w] = "persist"]
        /\ token' = held[w] /\ held[w] = issued
        /\ UNCHANGED <<issued, held, service, update, tokenFile, unsaved, known, feed>>
    BY <1>7 DEF Tokens!Update, Tokens!Resting, TokensInv
  <2>2. Len(feed') = 0
    BY <2>1
  <2>3. QED
    BY <1>1, <2>1, <2>2 DEF TokensInv
<1>8. ASSUME NEW w \in Refresher, NEW ok \in BOOLEAN, Tokens!Persist(w, ok) PROVE TokensInv'
  BY <1>1, <1>8 DEF Tokens!Persist, Tokens!Saved, TokensInv
<1>9. CASE Tokens!Elapse \/ Tokens!MarkResult
  BY <1>1, <1>9 DEF Tokens!Elapse, Tokens!MarkResult, Tokens!Saved, TokensInv
<1>10. CASE Tokens!Notice
  <2>1. tokenFile = token /\ excuses = {}
    BY <1>10 DEF Tokens!Notice, TokensInv
  <2>2. \A k \in 1..Len(feed') : feed'[k] = token
    BY <1>10, <2>1, NoticeFeed DEF Tokens!Notice, TokensInv
  <2>3. QED
    BY <1>1, <1>10, <2>1, <2>2 DEF Tokens!Notice, TokensInv
<1>11. CASE Tokens!TakeUpdate
  <2>1. /\ Head(feed) = feed[1] /\ Len(feed') = Len(feed) - 1 /\ 1 \in 1..Len(feed)
        /\ \A k \in 1..Len(feed') : feed'[k] = feed[k + 1] /\ k + 1 \in 1..Len(feed)
    BY <1>1, <1>11 DEF Tokens!TakeUpdate
  <2>2. QED
    BY <1>1, <1>11, <2>1 DEF Tokens!TakeUpdate, TokensInv
<1>12. CASE Tokens!ApplyUpdate
  BY <1>1, <1>12 DEF Tokens!ApplyUpdate, TokensInv
<1>13. ASSUME NEW ok \in BOOLEAN, Tokens!PersistUpdate(ok) PROVE TokensInv'
  BY <1>1, <1>13 DEF Tokens!PersistUpdate, Tokens!Saved, TokensInv
<1>14. CASE Tokens!Restart
  <2>1. Len(feed') = 1 /\ feed'[1] = tokenFile
    BY <1>14 DEF Tokens!Restart
  <2>2. tokenFile = issued /\ excuses = {}
    BY <1>14 DEF Tokens!Restart
  <2>3. \A k \in 1..Len(feed') : k = 1
    BY <2>1
  <2>4. QED
    BY <1>1, <1>14, <2>1, <2>2, <2>3 DEF Tokens!Restart, TokensInv
<1>15. CASE Tokens!Republish
  <2>1. tokenFile = token /\ excuses = {}
    BY <1>15 DEF Tokens!Republish
  <2>2. \A k \in 1..Len(feed') : feed'[k] = token
    BY <1>15, <2>1, NoticeFeed DEF TokensInv
  <2>3. QED
    BY <1>1, <1>15, <2>1, <2>2 DEF Tokens!Republish, TokensInv
<1>16. QED
  BY <1>2, <1>3, <1>4, <1>5, <1>6, <1>7, <1>8, <1>9, <1>10, <1>11, <1>12, <1>13, <1>14, <1>15
     DEF Tokens!Next, Tokens!Refresh, Tokens!Service

LEMMA TokensInvInit ==
  ASSUME Tokens!RefreshParameters, Tokens!Init
  PROVE  Tokens!TypeOK /\ TokensInv
<1>1. MaxToken \in Nat /\ FeedCap \in Nat \ {0} /\ MaxRestarts \in Nat
  BY DEF Tokens!RefreshParameters
<1>2. 0 \in Tokens!Token /\ Tokens!NoUpdate \in [token : Tokens!Token, waits : BOOLEAN]
  BY <1>1 DEF Tokens!NoUpdate, Tokens!Token
<1>3. feed \in Seq(Tokens!Token) /\ Len(feed) = 1 /\ feed[1] = 0 /\ Len(feed) <= FeedCap
  BY <1>1, <1>2 DEF Tokens!Init
<1>4. Tokens!TypeOK
  <2>1. 0 \in 0..MaxRestarts
    BY <1>1
  <2>2. /\ refreshPc \in [Refresher -> {"idle", "begun", "call", "failed", "update", "persist"}]
        /\ held \in [Refresher -> Tokens!Token]
    BY <1>2 DEF Tokens!Init
  <2>3. /\ issued = 0 /\ token = 0 /\ waits = FALSE /\ service = "idle" /\ tokenFile = 0
        /\ update = Tokens!NoUpdate /\ unsaved = FALSE /\ known = 0 /\ restarts = 0
        /\ excuses = {}
    BY DEF Tokens!Init
  <2>4. QED
    BY <1>2, <1>3, <2>1, <2>2, <2>3 DEF Tokens!TypeOK
<1>5. \A k \in 1..Len(feed) : k = 1
  BY <1>3
<1>6. TokensInv
  BY <1>3, <1>5 DEF Tokens!Init, TokensInv
<1>7. QED
  BY <1>4, <1>6

LEMMA TokensStay ==
  ASSUME Tokens!TypeOK, TokensInv, UNCHANGED tokens
  PROVE  Tokens!TypeOK' /\ TokensInv'
BY DEF Tokens!TypeOK, TokensInv, tokens

LEMMA TokensSteps ==
  ASSUME [ServicesNext]_serviceVars
  PROVE  Tokens!Next \/ UNCHANGED tokens
BY DEF ServicesNext, serviceVars

\* The inductive invariant of the refreshes.
THEOREM TokensAlways == ServicesSpec => [](Tokens!TypeOK /\ TokensInv)
<1>1. ServicesInit => Tokens!TypeOK /\ TokensInv
  BY ServiceParameters, TokensInvInit DEF ServicesInit
<1>2. (Tokens!TypeOK /\ TokensInv) /\ [ServicesNext]_serviceVars => (Tokens!TypeOK /\ TokensInv)'
  BY ServiceParameters, TokensSteps, TokensTypeNext, TokensNext, TokensStay
<1>3. QED
  BY <1>1, <1>2, PTL DEF ServicesSpec, serviceVars

\* When all rests and nothing went wrong, the manager has the token given out last, and so
\* has the file unless the last save failed: for every number of refreshes and tokens, with
\* results, saves that fail, and reloads of the configuration at any time (refreshAuth,
\* Update, whose error of the save is dropped, applyCoreAuthAddOrUpdate).
THEOREM LastTokenKept == ServicesSpec => []TokenKept
<1>1. TokensInv => TokenKept
  BY DEF TokensInv, TokenKept, Tokens!TokenKept
<1>2. QED
  BY <1>1, TokensAlways, PTL

-----------------------------------------------------------------------------
(* The configuration. *)

\* What a request and a reload work on is there.
AtFile(c) == edits[c].pc \in {"saving", "replacing", "swapping"}

EditHeld(c) ==
  /\ edits[c].pc = "idle" => edits[c] = Config!NoCall
  /\ edits[c].pc \in {"edited", "saving", "telling"} =>
       /\ edits[c].setting \in Setting
       /\ edits[c].setting \in Direct => edits[c].cfg \in Object
  /\ edits[c].pc = "telling" => edits[c].setting \in Direct
  /\ AtFile(c) => edits[c].data \in Config!Config

ReloadHeld(r) ==
  /\ reloads[r].pc = "idle" => reloads[r] = Config!Resting
  /\ reloads[r].pc = "install" => reloads[r].own \in Object
  /\ reloads[r].pc \in {"apply", "snapshot", "give"} => reloads[r].cfg \in Object

ConfigTyped ==
  /\ Config!TypeOK
  /\ \A c \in Editor : EditHeld(c)
  /\ \A r \in Reloader : ReloadHeld(r)

\* The file is truncated by the one request that is at it; the handlers show every edit
\* that nothing has overtaken, and what is about to be written has those that were saved.
EditsInv ==
  /\ \A c, d \in Editor : AtFile(c) /\ AtFile(d) => c = d
  /\ configFile = None <=> \E c \in Editor : edits[c].pc \in {"saving", "replacing"}
  /\ \A s \in Setting : edit[s] # None => heap[mgmtConfig][s] = edit[s].value
  /\ \A c \in Editor, s \in Setting :
       /\ edits[c].pc = "saving" /\ edit[s] # None
       /\ edit[s].saved \/ (edit[s].by = c /\ s = edits[c].setting)
       /\ ~(s \in Unpruned /\ edit[s].value = 0)
       => edits[c].data[s] = edit[s].value
  /\ Config!EditsSaved

\* A request is going to write the file, or the file has what the next reload will load.
Behind == \E c \in Editor : edits[c].pc \in {"edited", "saving", "replacing"}
Ahead ==
  /\ configFile \notin {None, hash} /\ (event \/ armed)
  /\ \A r \in Reloader : configFile # reloads[r].got
Late == Behind \/ Ahead

InForce == applied = configFile /\ heap[mgmtConfig] = configFile

\* The reload at the start hands round the object that the handlers have.
FirstInv(r) ==
  reloads[r].pc # "idle" /\ reloads[r].seen = None =>
    /\ reloads[r].got = None /\ reloads[r].pc \in {"take", "apply", "snapshot", "give"}
    /\ reloads[r].pc = "take" => watched = mgmtConfig
    /\ reloads[r].pc # "take" => reloads[r].cfg = mgmtConfig
    /\ Late \/ InForce

\* A later one hands round an object that nobody edits, and what it loaded is in the file
\* and, step by step, in force, unless it is late.
LaterInv(r) ==
  reloads[r].pc # "idle" /\ reloads[r].seen # None =>
    /\ reloads[r].pc = "load" => reloads[r].got = None
    /\ reloads[r].pc # "load" =>
         reloads[r].got \in Config!Config /\ (Late \/ configFile = reloads[r].got)
    /\ reloads[r].pc = "install" =>
         reloads[r].own \notin {mgmtConfig, watched} /\ heap[reloads[r].own] = reloads[r].got
    /\ reloads[r].pc = "take" => watched # mgmtConfig /\ heap[watched] = reloads[r].got
    /\ reloads[r].pc \in {"apply", "snapshot", "give"} =>
         reloads[r].cfg # mgmtConfig /\ heap[reloads[r].cfg] = reloads[r].got
    /\ reloads[r].pc \in {"snapshot", "give", "rehash"} => Late \/ applied = reloads[r].got
    /\ reloads[r].pc = "rehash" => Late \/ heap[mgmtConfig] = reloads[r].got

\* What is compared with the snapshot is in force as the snapshot has it.
ComparedInv ==
  /\ (\A r \in Reloader : reloads[r].pc # "snapshot") =>
       \A s \in Compared : applied[s] = snapshot[s]
  /\ \A r \in Reloader : reloads[r].pc = "snapshot" =>
       \A s \in Compared : applied[s] = heap[reloads[r].cfg][s]

ReloadsInv ==
  races = {} =>
    /\ \A r, q \in Reloader : reloads[r].pc # "idle" /\ reloads[q].pc # "idle" => r = q
    /\ \A r \in Reloader : FirstInv(r) /\ LaterInv(r)
    /\ ComparedInv
    /\ (\A r \in Reloader : reloads[r].pc = "idle") => Late \/ InForce

ConfigInv == ConfigTyped /\ EditsInv /\ ReloadsInv

LEMMA FreshObject ==
  ASSUME NEW o \in Config!Fresh
  PROVE  o \in Object /\ o \notin Config!Used
BY DEF Config!Fresh

LEMMA ContentType ==
  ASSUME ConfigTyped
  PROVE  Config!Loaded \in Config!Config /\ Config!Blank \in Config!Config
BY DEF ConfigTyped, Config!TypeOK, Config!Loaded, Config!Blank, Config!Config, Config!Value

\* Collecting leaves what somebody has.
LEMMA CollectKeeps ==
  ASSUME NEW h \in [Object -> Config!Config], Config!Collect(h)
  PROVE  /\ heap' \in [Object -> Config!Config]
         /\ \A o \in Object : o \in {mgmtConfig', watched'} => heap'[o] = h[o]
         /\ \A o \in Object, r \in Reloader : o \in {reloads'[r].own, reloads'[r].cfg} =>
              heap'[o] = h[o]
         /\ \A o \in Object, c \in Editor : o = edits'[c].cfg => heap'[o] = h[o]
<1>1. Config!Blank \in Config!Config
  BY DEF Config!Blank, Config!Config, Config!Value
<1>2. heap' = [o \in Object |-> IF o \in Config!Used' THEN h[o] ELSE Config!Blank]
  BY DEF Config!Collect
<1>3. heap' \in [Object -> Config!Config]
  BY <1>1, <1>2
<1>4. \A o \in Object : o \in Config!Used' => heap'[o] = h[o]
  BY <1>2
<1>. QED
  BY <1>3, <1>4 DEF Config!Used

-----------------------------------------------------------------------------
(* Types of the configuration. *)

LEMMA ConfigTypedInit == ASSUME Config!ConfigParameters, Config!Init PROVE ConfigTyped
<1>1. PICK bytes \in Config!Config, starter \in Reloader :
        /\ configFile = bytes /\ applied = bytes /\ snapshot = bytes
        /\ heap = [o \in Object |-> IF o = mgmtConfig THEN bytes ELSE Config!Blank]
        /\ reloads = [r \in Reloader |-> IF r = starter THEN [Config!Resting EXCEPT !.pc = "take"]
                                         ELSE Config!Resting]
  BY DEF Config!Init
<1>2. mgmtConfig \in Object /\ watched = mgmtConfig
  BY DEF Config!Init, Config!ConfigParameters
<1>3. heap \in [Object -> Config!Config]
  BY <1>1 DEF Config!Blank, Config!Config, Config!Value
<1>4. reloads \in [Reloader -> Config!Reload]
  BY <1>1 DEF Config!Reload, Config!Resting
<1>5. edits \in [Editor -> Config!EditorState] /\ \A c \in Editor : edits[c] = Config!NoCall
  BY DEF Config!Init, Config!EditorState, Config!NoCall
<1>6. Config!TypeOK
  <2>1. configFile \in Config!Config \cup {None} /\ hash \in Config!Config \cup {None}
    BY <1>1 DEF Config!Init
  <2>2. {applied, snapshot} \subseteq Config!Config /\ {event, armed} \subseteq BOOLEAN
    BY <1>1 DEF Config!Init
  <2>3. changes \in 0 .. MaxChanges
    BY DEF Config!Init, Config!ConfigParameters
  <2>4. edit \in [Setting -> Config!Edit \cup {None}]
    BY DEF Config!Init
  <2>5. races \subseteq {"overlap", "rehash", "edited", "late", "returned"}
    BY DEF Config!Init
  <2>. QED
    BY <1>2, <1>3, <1>4, <1>5, <2>1, <2>2, <2>3, <2>4, <2>5 DEF Config!TypeOK
<1>7. \A c \in Editor : EditHeld(c)
  BY <1>5 DEF EditHeld, AtFile, Config!NoCall
<1>8. \A r \in Reloader : ReloadHeld(r)
  BY <1>1 DEF ReloadHeld, Config!Resting
<1>. QED
  BY <1>6, <1>7, <1>8 DEF ConfigTyped

LEMMA RequestHeld ==
  ASSUME ConfigTyped, NEW c \in Editor, NEW x \in Config!EditorState,
         edits' = [edits EXCEPT ![c] = x], EditHeld(c)'
  PROVE  edits' \in [Editor -> Config!EditorState] /\ \A d \in Editor : EditHeld(d)'
<1>1. edits' \in [Editor -> Config!EditorState] /\ \A d \in Editor \ {c} : edits'[d] = edits[d]
  BY DEF ConfigTyped, Config!TypeOK
<1>. QED
  BY <1>1 DEF ConfigTyped, EditHeld, AtFile

LEMMA ReloadsHeld ==
  ASSUME ConfigTyped, NEW r \in Reloader, NEW x \in Config!Reload,
         reloads' = [reloads EXCEPT ![r] = x], ReloadHeld(r)'
  PROVE  reloads' \in [Reloader -> Config!Reload] /\ \A q \in Reloader : ReloadHeld(q)'
<1>1. reloads' \in [Reloader -> Config!Reload] /\ \A q \in Reloader \ {r} : reloads'[q] = reloads[q]
  BY DEF ConfigTyped, Config!TypeOK
<1>. QED
  BY <1>1 DEF ConfigTyped, ReloadHeld

LEMMA ConfigTypedRequest ==
  ASSUME Config!ConfigParameters, ConfigTyped, NEW c \in Editor,
         \/ \E s \in Setting, v \in Config!Value : Config!Change(c, s, v)
         \/ Config!BeginSave(c) \/ Config!Write(c) \/ Config!Notify(c)
         \/ \E bytes \in Config!Config : Config!BeginReplace(c, bytes)
         \/ Config!WriteBody(c) \/ Config!Swap(c)
  PROVE  ConfigTyped'
<1>. USE DEF ConfigTyped
<1>1. ASSUME NEW s \in Setting, NEW v \in Config!Value, Config!Change(c, s, v)
      PROVE  ConfigTyped'
  <2>1. edits' \in [Editor -> Config!EditorState] /\ \A d \in Editor : EditHeld(d)'
    <3>. DEFINE x == [edits[c] EXCEPT !.pc = "edited", !.setting = s,
                                 !.cfg = IF s \in Direct THEN mgmtConfig ELSE None]
    <3>1. edits' = [edits EXCEPT ![c] = x] /\ edits'[c] = x
      BY <1>1 DEF Config!Change, Config!TypeOK
    <3>2. edits[c] \in Config!EditorState /\ mgmtConfig \in Object
      BY DEF Config!TypeOK
    <3>3. x \in Config!EditorState
      BY <3>2 DEF Config!EditorState
    <3>4. EditHeld(c)'
      BY <3>1, <3>2 DEF Config!EditorState, EditHeld, AtFile
    <3>. QED
      BY <3>1, <3>3, <3>4, RequestHeld
  <2>2. heap' \in [Object -> Config!Config]
    BY <1>1 DEF Config!Change, Config!TypeOK, Config!Config
  <2>3. edit' \in [Setting -> Config!Edit \cup {None}]
    BY <1>1 DEF Config!Change, Config!TypeOK, Config!Edit
  <2>4. \A r \in Reloader : ReloadHeld(r)'
    BY <1>1 DEF Config!Change, ReloadHeld
  <2>5. changes' \in 0 .. MaxChanges
    <3>1. changes < MaxChanges /\ changes' = changes + 1
      BY <1>1 DEF Config!Change
    <3>2. changes \in 0 .. MaxChanges /\ MaxChanges \in Nat
      BY DEF Config!TypeOK, Config!ConfigParameters
    <3>. QED
      BY <3>1, <3>2
  <2>6. races' \subseteq {"overlap", "rehash", "edited", "late", "returned"}
    <3>1. races' \in {races, races \cup {"edited"}}
      BY <1>1 DEF Config!Change
    <3>. QED
      BY <3>1 DEF Config!TypeOK
  <2>. QED
    BY <1>1, <2>1, <2>2, <2>3, <2>4, <2>5, <2>6 DEF Config!Change, Config!TypeOK
<1>2. CASE Config!BeginSave(c)
  <2>1. Config!Collect(heap)
    BY <1>2 DEF Config!BeginSave
  <2>2. heap' \in [Object -> Config!Config]
    BY <2>1, CollectKeeps DEF Config!TypeOK
  <2>3. configFile # None => Config!Merged(configFile, heap[mgmtConfig]) \in Config!Config
    BY DEF Config!TypeOK, Config!Merged, Config!Config
  <2>4. edits' \in [Editor -> Config!EditorState] /\ \A d \in Editor : EditHeld(d)'
    <3>. DEFINE x == IF configFile = None THEN Config!NoCall
                   ELSE [edits[c] EXCEPT !.pc = "saving",
                                         !.data = Config!Merged(configFile, heap[mgmtConfig])]
    <3>1. edits' = [edits EXCEPT ![c] = x] /\ edits'[c] = x
      BY <1>2 DEF Config!BeginSave, Config!TypeOK
    <3>2. x \in Config!EditorState
      BY <3>1, <2>3 DEF Config!TypeOK, Config!EditorState, Config!NoCall
    <3>3. EditHeld(c)'
      BY <1>2, <3>1, <2>3 DEF Config!BeginSave, Config!TypeOK, Config!EditorState, EditHeld, AtFile, Config!NoCall
    <3>. QED
      BY <3>1, <3>2, <3>3, RequestHeld
  <2>5. edit' \in [Setting -> Config!Edit \cup {None}]
    BY <1>2 DEF Config!BeginSave, Config!TypeOK, Config!Edit
  <2>6. \A r \in Reloader : ReloadHeld(r)'
    BY <1>2 DEF Config!BeginSave, ReloadHeld
  <2>7. configFile' \in Config!Config \cup {None} /\ event' \in BOOLEAN
    BY <1>2 DEF Config!BeginSave, Config!TypeOK
  <2>. QED
    BY <1>2, <2>2, <2>4, <2>5, <2>6, <2>7 DEF Config!BeginSave, Config!TypeOK
<1>3. CASE Config!Write(c)
  <2>1. Config!Collect(heap)
    BY <1>3 DEF Config!Write
  <2>2. heap' \in [Object -> Config!Config]
    BY <2>1, CollectKeeps DEF Config!TypeOK
  <2>3. edits[c].data \in Config!Config
    BY <1>3 DEF Config!Write, EditHeld, AtFile
  <2>4. edits' \in [Editor -> Config!EditorState] /\ \A d \in Editor : EditHeld(d)'
    <3>. DEFINE x == IF edits[c].setting \in Direct
                   THEN [edits[c] EXCEPT !.pc = "telling", !.data = None]
                   ELSE Config!NoCall
    <3>1. edits' = [edits EXCEPT ![c] = x] /\ edits'[c] = x
      BY <1>3 DEF Config!Write, Config!TypeOK
    <3>2. x \in Config!EditorState
      BY <3>1 DEF Config!TypeOK, Config!EditorState, Config!NoCall
    <3>3. EditHeld(c)'
      BY <1>3, <3>1 DEF Config!Write, Config!TypeOK, Config!EditorState, EditHeld, AtFile, Config!NoCall
    <3>. QED
      BY <3>1, <3>2, <3>3, RequestHeld
  <2>5. edit' \in [Setting -> Config!Edit \cup {None}]
    BY <1>3 DEF Config!Write, Config!TypeOK, Config!Edit
  <2>6. \A r \in Reloader : ReloadHeld(r)'
    BY <1>3 DEF Config!Write, ReloadHeld
  <2>7. races' \subseteq {"overlap", "rehash", "edited", "late", "returned"}
    BY <1>3 DEF Config!Write, Config!Returned, Config!TypeOK
  <2>. QED
    BY <1>3, <2>2, <2>3, <2>4, <2>5, <2>6, <2>7 DEF Config!Write, Config!TypeOK
<1>4. CASE Config!Notify(c)
  <2>1. Config!Collect(heap)
    BY <1>4 DEF Config!Notify
  <2>2. heap' \in [Object -> Config!Config]
    BY <2>1, CollectKeeps DEF Config!TypeOK
  <2>3. edits[c].cfg \in Object
    BY <1>4 DEF Config!Notify, EditHeld
  <2>4. applied' \in Config!Config
    BY <1>4, <2>3 DEF Config!Notify, Config!TypeOK, Config!Config
  <2>5. edits' \in [Editor -> Config!EditorState] /\ \A d \in Editor : EditHeld(d)'
    BY <1>4 DEF Config!Notify, Config!TypeOK, Config!EditorState, EditHeld, AtFile, Config!NoCall
  <2>6. \A r \in Reloader : ReloadHeld(r)'
    BY <1>4 DEF Config!Notify, ReloadHeld
  <2>7. races' \subseteq {"overlap", "rehash", "edited", "late", "returned"}
    BY <1>4 DEF Config!Notify, Config!TypeOK
  <2>. QED
    BY <1>4, <2>2, <2>4, <2>5, <2>6, <2>7 DEF Config!Notify, Config!TypeOK
<1>5. ASSUME NEW bytes \in Config!Config, Config!BeginReplace(c, bytes)
      PROVE  ConfigTyped'
  <2>1. edits' \in [Editor -> Config!EditorState] /\ \A d \in Editor : EditHeld(d)'
    <3>. DEFINE x == [edits[c] EXCEPT !.pc = "replacing", !.data = bytes]
    <3>1. edits' = [edits EXCEPT ![c] = x] /\ edits'[c] = x
      BY <1>5 DEF Config!BeginReplace, Config!TypeOK
    <3>2. edits[c] \in Config!EditorState /\ mgmtConfig \in Object
      BY DEF Config!TypeOK
    <3>3. x \in Config!EditorState
      BY <3>2 DEF Config!EditorState
    <3>4. EditHeld(c)'
      BY <3>1, <3>2 DEF Config!EditorState, EditHeld, AtFile
    <3>. QED
      BY <3>1, <3>3, <3>4, RequestHeld
  <2>2. \A r \in Reloader : ReloadHeld(r)'
    BY <1>5 DEF Config!BeginReplace, ReloadHeld
  <2>3. changes' \in 0 .. MaxChanges
    <3>1. changes < MaxChanges /\ changes' = changes + 1
      BY <1>5 DEF Config!BeginReplace
    <3>2. changes \in 0 .. MaxChanges /\ MaxChanges \in Nat
      BY DEF Config!TypeOK, Config!ConfigParameters
    <3>. QED
      BY <3>1, <3>2
  <2>. QED
    BY <1>5, <2>1, <2>2, <2>3 DEF Config!BeginReplace, Config!TypeOK
<1>6. CASE Config!WriteBody(c)
  <2>1. edits[c].data \in Config!Config
    BY <1>6 DEF Config!WriteBody, EditHeld, AtFile
  <2>2. edits' \in [Editor -> Config!EditorState] /\ \A d \in Editor : EditHeld(d)'
    BY <1>6 DEF Config!WriteBody, Config!TypeOK, Config!EditorState, EditHeld, AtFile, Config!NoCall
  <2>3. \A r \in Reloader : ReloadHeld(r)'
    BY <1>6 DEF Config!WriteBody, ReloadHeld
  <2>4. races' \subseteq {"overlap", "rehash", "edited", "late", "returned"}
    BY <1>6 DEF Config!WriteBody, Config!Returned, Config!TypeOK
  <2>. QED
    BY <1>6, <2>1, <2>2, <2>3, <2>4 DEF Config!WriteBody, Config!TypeOK
<1>7. CASE Config!Swap(c)
  <2>1. PICK new \in Config!Fresh : /\ mgmtConfig' = new
                                    /\ Config!Collect([heap EXCEPT ![new] = Config!Loaded])
    BY <1>7 DEF Config!Swap
  <2>2. [heap EXCEPT ![new] = Config!Loaded] \in [Object -> Config!Config]
    BY ContentType DEF Config!TypeOK
  <2>3. heap' \in [Object -> Config!Config] /\ mgmtConfig' \in Object
    BY <2>1, <2>2, CollectKeeps, FreshObject
  <2>4. edits' \in [Editor -> Config!EditorState] /\ \A d \in Editor : EditHeld(d)'
    BY <1>7 DEF Config!Swap, Config!TypeOK, Config!EditorState, EditHeld, AtFile, Config!NoCall
  <2>5. edit' \in [Setting -> Config!Edit \cup {None}]
    BY <1>7 DEF Config!Swap, Config!Handed, Config!TypeOK
  <2>6. \A r \in Reloader : ReloadHeld(r)'
    BY <1>7 DEF Config!Swap, ReloadHeld
  <2>7. races' \subseteq {"overlap", "rehash", "edited", "late", "returned"}
    BY <1>7 DEF Config!Swap, Config!TypeOK
  <2>. QED
    BY <1>7, <2>3, <2>4, <2>5, <2>6, <2>7 DEF Config!Swap, Config!TypeOK
<1>. QED
  BY <1>1, <1>2, <1>3, <1>4, <1>5, <1>6, <1>7

LEMMA ConfigTypedReload ==
  ASSUME Config!ConfigParameters, ConfigTyped,
         \/ \E bytes \in Config!Config : Config!Rewrite(bytes)
         \/ Config!Notice
         \/ \E r \in Reloader :
              \/ Config!Fire(r) \/ Config!Load(r) \/ Config!Install(r) \/ Config!Take(r)
              \/ Config!Apply(r) \/ Config!TakeSnapshot(r) \/ Config!Give(r) \/ Config!Rehash(r)
  PROVE  ConfigTyped'
<1>. USE DEF ConfigTyped
<1>1. ASSUME NEW bytes \in Config!Config, Config!Rewrite(bytes) PROVE ConfigTyped'
  <2>1. changes' \in 0 .. MaxChanges /\ races' \subseteq {"overlap", "rehash", "edited", "late", "returned"}
    BY <1>1 DEF Config!Rewrite, Config!Returned, Config!TypeOK, Config!ConfigParameters
  <2>2. /\ \A d \in Editor : EditHeld(d)'
        /\ \A r \in Reloader : ReloadHeld(r)'
    BY <1>1 DEF Config!Rewrite, EditHeld, AtFile, ReloadHeld
  <2>. QED
    BY <1>1, <2>1, <2>2 DEF Config!Rewrite, Config!TypeOK
<1>2. CASE Config!Notice
  BY <1>2 DEF Config!Notice, Config!TypeOK, EditHeld, AtFile, ReloadHeld
<1>3. ASSUME NEW r \in Reloader, Config!Fire(r) PROVE ConfigTyped'
  <2>1. reloads' \in [Reloader -> Config!Reload] /\ \A q \in Reloader : ReloadHeld(q)'
    <3>. DEFINE x == IF configFile \in {None, hash} THEN reloads[r]
                   ELSE [reloads[r] EXCEPT !.pc = "load", !.seen = configFile]
    <3>1. reloads' = [reloads EXCEPT ![r] = x] /\ reloads'[r] = x
      BY <1>3 DEF Config!Fire, Config!TypeOK
    <3>2. x \in Config!Reload
      BY <3>1 DEF Config!TypeOK, Config!Reload
    <3>3. ReloadHeld(r)'
      BY <3>1 DEF Config!TypeOK, Config!Reload, ReloadHeld
    <3>. QED
      BY <3>1, <3>2, <3>3, ReloadsHeld
  <2>2. \A d \in Editor : EditHeld(d)'
    BY <1>3 DEF Config!Fire, EditHeld, AtFile
  <2>3. races' \subseteq {"overlap", "rehash", "edited", "late", "returned"}
    BY <1>3 DEF Config!Fire, Config!TypeOK
  <2>. QED
    BY <1>3, <2>1, <2>2, <2>3 DEF Config!Fire, Config!TypeOK
<1>4. ASSUME NEW r \in Reloader, Config!Load(r) PROVE ConfigTyped'
  <2>1. PICK new \in Config!Fresh :
          /\ reloads' = [reloads EXCEPT ![r] = [@ EXCEPT !.pc = "install", !.own = new,
                                                         !.got = Config!Loaded]]
          /\ Config!Collect([heap EXCEPT ![new] = Config!Loaded])
    BY <1>4 DEF Config!Load
  <2>2. [heap EXCEPT ![new] = Config!Loaded] \in [Object -> Config!Config]
    BY ContentType DEF Config!TypeOK
  <2>3. heap' \in [Object -> Config!Config]
    BY <2>1, <2>2, CollectKeeps
  <2>4. new \in Object /\ Config!Loaded \in Config!Config
    BY FreshObject, ContentType
  <2>5. reloads' \in [Reloader -> Config!Reload] /\ \A q \in Reloader : ReloadHeld(q)'
    BY <2>1, <2>4 DEF Config!TypeOK, Config!Reload, ReloadHeld
  <2>6. \A d \in Editor : EditHeld(d)'
    BY <1>4 DEF Config!Load, EditHeld, AtFile
  <2>. QED
    BY <1>4, <2>3, <2>5, <2>6 DEF Config!Load, Config!TypeOK
<1>5. ASSUME NEW r \in Reloader, Config!Install(r) PROVE ConfigTyped'
  <2>1. Config!Collect(heap) /\ reloads[r].own \in Object
    BY <1>5 DEF Config!Install, ReloadHeld
  <2>2. heap' \in [Object -> Config!Config]
    BY <2>1, CollectKeeps DEF Config!TypeOK
  <2>3. reloads' \in [Reloader -> Config!Reload] /\ \A q \in Reloader : ReloadHeld(q)'
    BY <1>5 DEF Config!Install, Config!TypeOK, Config!Reload, ReloadHeld
  <2>4. \A d \in Editor : EditHeld(d)'
    BY <1>5 DEF Config!Install, EditHeld, AtFile
  <2>. QED
    BY <1>5, <2>1, <2>2, <2>3, <2>4 DEF Config!Install, Config!TypeOK
<1>6. ASSUME NEW r \in Reloader, Config!Take(r) PROVE ConfigTyped'
  <2>1. reloads' \in [Reloader -> Config!Reload] /\ \A q \in Reloader : ReloadHeld(q)'
    BY <1>6 DEF Config!Take, Config!TypeOK, Config!Reload, ReloadHeld
  <2>2. \A d \in Editor : EditHeld(d)'
    BY <1>6 DEF Config!Take, EditHeld, AtFile
  <2>. QED
    BY <1>6, <2>1, <2>2 DEF Config!Take, Config!TypeOK
<1>7. ASSUME NEW r \in Reloader, Config!Apply(r) PROVE ConfigTyped'
  <2>1. reloads' \in [Reloader -> Config!Reload] /\ \A q \in Reloader : ReloadHeld(q)'
    BY <1>7 DEF Config!Apply, Config!TypeOK, Config!Reload, ReloadHeld
  <2>2. \A d \in Editor : EditHeld(d)'
    BY <1>7 DEF Config!Apply, EditHeld, AtFile
  <2>3. heap[reloads[r].cfg] \in Config!Config
    BY <1>7 DEF Config!Apply, ReloadHeld, Config!TypeOK
  <2>4. applied' \in Config!Config
    BY <1>7, <2>3 DEF Config!Apply, Config!TypeOK, Config!Config
  <2>. QED
    BY <1>7, <2>1, <2>2, <2>4 DEF Config!Apply, Config!TypeOK
<1>8. ASSUME NEW r \in Reloader, Config!TakeSnapshot(r) PROVE ConfigTyped'
  <2>1. reloads' \in [Reloader -> Config!Reload] /\ \A q \in Reloader : ReloadHeld(q)'
    BY <1>8 DEF Config!TakeSnapshot, Config!TypeOK, Config!Reload, ReloadHeld
  <2>2. \A d \in Editor : EditHeld(d)'
    BY <1>8 DEF Config!TakeSnapshot, EditHeld, AtFile
  <2>3. heap[reloads[r].cfg] \in Config!Config
    BY <1>8 DEF Config!TakeSnapshot, ReloadHeld, Config!TypeOK
  <2>. QED
    BY <1>8, <2>1, <2>2, <2>3 DEF Config!TakeSnapshot, Config!TypeOK
<1>9. ASSUME NEW r \in Reloader, Config!Give(r) PROVE ConfigTyped'
  <2>1. Config!Collect(heap) /\ reloads[r].cfg \in Object
    BY <1>9 DEF Config!Give, ReloadHeld
  <2>2. heap' \in [Object -> Config!Config]
    BY <2>1, CollectKeeps DEF Config!TypeOK
  <2>3. reloads' \in [Reloader -> Config!Reload] /\ \A q \in Reloader : ReloadHeld(q)'
    <3>. DEFINE x == IF reloads[r].seen = None THEN Config!Resting
                   ELSE [reloads[r] EXCEPT !.pc = "rehash", !.cfg = None]
    <3>1. reloads' = [reloads EXCEPT ![r] = x] /\ reloads'[r] = x
      BY <1>9 DEF Config!Give, Config!TypeOK
    <3>2. x \in Config!Reload
      BY <3>1 DEF Config!TypeOK, Config!Reload, Config!Resting
    <3>3. ReloadHeld(r)'
      BY <3>1 DEF Config!TypeOK, Config!Reload, Config!Resting, ReloadHeld
    <3>. QED
      BY <3>1, <3>2, <3>3, ReloadsHeld
  <2>4. \A d \in Editor : EditHeld(d)'
    BY <1>9 DEF Config!Give, EditHeld, AtFile
  <2>5. edit' \in [Setting -> Config!Edit \cup {None}]
    BY <1>9 DEF Config!Give, Config!Handed, Config!TypeOK
  <2>. QED
    BY <1>9, <2>1, <2>2, <2>3, <2>4, <2>5 DEF Config!Give, Config!TypeOK
<1>10. ASSUME NEW r \in Reloader, Config!Rehash(r) PROVE ConfigTyped'
  <2>1. reloads' \in [Reloader -> Config!Reload] /\ \A q \in Reloader : ReloadHeld(q)'
    BY <1>10 DEF Config!Rehash, Config!TypeOK, Config!Reload, Config!Resting, ReloadHeld
  <2>2. \A d \in Editor : EditHeld(d)'
    BY <1>10 DEF Config!Rehash, EditHeld, AtFile
  <2>3. hash' \in Config!Config \cup {None}
    BY <1>10 DEF Config!Rehash, Config!TypeOK, Config!Reload
  <2>4. races' \subseteq {"overlap", "rehash", "edited", "late", "returned"}
    BY <1>10 DEF Config!Rehash, Config!TypeOK
  <2>. QED
    BY <1>10, <2>1, <2>2, <2>3, <2>4 DEF Config!Rehash, Config!TypeOK
<1>. QED
  BY <1>1, <1>2, <1>3, <1>4, <1>5, <1>6, <1>7, <1>8, <1>9, <1>10

-----------------------------------------------------------------------------
(* Edits. *)

\* Edits may be overtaken; the requests at the file, and what they write, stay.
LEMMA EditsKept ==
  ASSUME ConfigTyped, ConfigTyped', EditsInv,
         configFile' = configFile,
         \A d \in Editor : edits'[d].pc = edits[d].pc \/ {edits[d].pc, edits'[d].pc} \subseteq {"idle", "edited", "telling", "swapping"},
         \A d, e \in Editor : AtFile(d)' /\ AtFile(e)' => AtFile(d) /\ AtFile(e),
         \A d \in Editor : edits'[d].pc = "saving" => edits'[d] = edits[d],
         \A s \in Setting : edit'[s] # None =>
            /\ edit'[s] = edit[s] \/ (~edit'[s].saved /\ edits[edit'[s].by].pc # "saving")
            /\ heap'[mgmtConfig'][s] = edit'[s].value
  PROVE  EditsInv'
<1>1. (\A c, d \in Editor : AtFile(c) /\ AtFile(d) => c = d)'
  BY DEF EditsInv
<1>2. (configFile = None <=> \E c \in Editor : edits[c].pc \in {"saving", "replacing"})'
  BY DEF EditsInv
<1>3. ASSUME NEW c \in Editor, NEW s \in Setting, edits'[c].pc = "saving", edit'[s] # None,
             edit'[s].saved \/ (edit'[s].by = c /\ s = edits'[c].setting),
             ~(s \in Unpruned /\ edit'[s].value = 0)
      PROVE  edits'[c].data[s] = edit'[s].value
  BY <1>3 DEF EditsInv
<1>4. Config!EditsSaved'
  BY DEF EditsInv, Config!EditsSaved
<1>. QED
  BY <1>1, <1>2, <1>3, <1>4 DEF EditsInv

LEMMA EditsRequest ==
  ASSUME Config!ConfigParameters, ConfigTyped, ConfigTyped', EditsInv, NEW c \in Editor,
         \/ \E s \in Setting, v \in Config!Value : Config!Change(c, s, v)
         \/ Config!BeginSave(c) \/ Config!Write(c) \/ Config!Notify(c)
         \/ \E bytes \in Config!Config : Config!BeginReplace(c, bytes)
         \/ Config!WriteBody(c) \/ Config!Swap(c)
  PROVE  EditsInv'
<1>t. /\ edits \in [Editor -> Config!EditorState] /\ heap \in [Object -> Config!Config]
      /\ mgmtConfig \in Object /\ mgmtConfig' \in Object
      /\ edit \in [Setting -> Config!Edit \cup {None}]
  BY DEF ConfigTyped, Config!TypeOK
<1>n. None \notin Config!Config
  BY DEF Config!ConfigParameters
<1>1. ASSUME NEW s \in Setting, NEW v \in Config!Value, Config!Change(c, s, v)
      PROVE  EditsInv'
  <2>1. /\ edits[c].pc = "idle" /\ edits'[c].pc = "edited"
        /\ \A d \in Editor \ {c} : edits'[d] = edits[d]
    BY <1>1, <1>t DEF Config!Change, Config!EditorState
  <2>2. edit'[s] = [by |-> c, value |-> v, saved |-> FALSE]
    BY <1>1, <1>t DEF Config!Change
  <2>3. /\ \A q \in Setting \ {s} : edit'[q] = edit[q] /\ heap'[mgmtConfig][q] = heap[mgmtConfig][q]
        /\ heap'[mgmtConfig][s] = v
    BY <1>1, <1>t DEF Config!Change, Config!Config
  <2>4. mgmtConfig' = mgmtConfig /\ configFile' = configFile
    BY <1>1 DEF Config!Change
  <2>5. \A q \in Setting : edit'[q] # None =>
            /\ edit'[q] = edit[q] \/ (~edit'[q].saved /\ edits[edit'[q].by].pc # "saving")
            /\ heap'[mgmtConfig'][q] = edit'[q].value
    BY <2>1, <2>2, <2>3, <2>4 DEF EditsInv
  <2>. QED
    BY <2>1, <2>4, <2>5, EditsKept DEF AtFile
<1>2. ASSUME Config!BeginSave(c), configFile = None PROVE EditsInv'
  <2>1. Config!Collect(heap) /\ edits[c].pc = "edited" /\ mgmtConfig' = mgmtConfig
    BY <1>2 DEF Config!BeginSave
  <2>2. heap'[mgmtConfig] = heap[mgmtConfig]
    BY <2>1, <1>t, CollectKeeps
  <2>3. /\ edits'[c].pc = "idle"
        /\ \A d \in Editor \ {c} : edits'[d] = edits[d]
    BY <1>2, <1>t DEF Config!BeginSave, Config!NoCall
  <2>4. \A s \in Setting : edit'[s] # None => edit'[s] = edit[s]
    BY <1>2, <1>t DEF Config!BeginSave
  <2>5. configFile' = configFile
    BY <1>2 DEF Config!BeginSave
  <2>6. \A q \in Setting : edit'[q] # None =>
            /\ edit'[q] = edit[q] \/ (~edit'[q].saved /\ edits[edit'[q].by].pc # "saving")
            /\ heap'[mgmtConfig'][q] = edit'[q].value
    BY <2>1, <2>2, <2>4 DEF EditsInv
  <2>. QED
    BY <2>1, <2>3, <2>5, <2>6, EditsKept DEF AtFile
<1>3. ASSUME Config!BeginSave(c), configFile # None PROVE EditsInv'
  <2>. DEFINE data == Config!Merged(configFile, heap[mgmtConfig])
  <2>1. Config!Collect(heap) /\ Config!Unlocked /\ mgmtConfig' = mgmtConfig
    BY <1>3 DEF Config!BeginSave
  <2>2. heap'[mgmtConfig] = heap[mgmtConfig]
    BY <2>1, <1>t, CollectKeeps
  <2>3. configFile' = None /\ edit' = edit
        /\ edits' = [edits EXCEPT ![c] = [@ EXCEPT !.pc = "saving", !.data = data]]
    BY <1>3 DEF Config!BeginSave
  <2>4. \A d \in Editor : ~AtFile(d)
    BY <2>1 DEF Config!Unlocked, AtFile
  <2>5. /\ edits'[c].pc = "saving" /\ edits'[c].data = data
        /\ \A d \in Editor \ {c} : edits'[d] = edits[d]
    BY <2>3, <1>t DEF Config!EditorState
  <2>6. \A s \in Setting : edit[s] # None /\ ~(s \in Unpruned /\ edit[s].value = 0) =>
                             data[s] = edit[s].value
    BY DEF EditsInv, Config!Merged
  <2>. HIDE DEF data
  <2>7. (\A d, e \in Editor : AtFile(d) /\ AtFile(e) => d = e)'
    BY <2>4, <2>5 DEF AtFile
  <2>8. (\A s \in Setting : edit[s] # None => heap[mgmtConfig][s] = edit[s].value)'
    BY <2>1, <2>2, <2>3 DEF EditsInv
  <2>9. \A d \in Editor : edits'[d].pc = "saving" => d = c
    BY <2>4, <2>5 DEF AtFile
  <2>. QED
    BY <2>3, <2>5, <2>6, <2>7, <2>8, <2>9 DEF EditsInv, Config!EditsSaved
<1>4. CASE Config!Write(c)
  <2>1. Config!Collect(heap) /\ edits[c].pc = "saving" /\ mgmtConfig' = mgmtConfig
    BY <1>4 DEF Config!Write
  <2>2. heap'[mgmtConfig] = heap[mgmtConfig]
    BY <2>1, <1>t, CollectKeeps
  <2>3. configFile' = edits[c].data /\ edits[c].data \in Config!Config
    BY <1>4, <2>1 DEF Config!Write, ConfigTyped, EditHeld, AtFile
  <2>4. /\ edits'[c].pc \in {"idle", "telling"}
        /\ \A d \in Editor \ {c} : edits'[d] = edits[d]
    BY <1>4, <1>t DEF Config!Write, Config!NoCall, Config!EditorState
  <2>5. \A d \in Editor : ~AtFile(d)'
    BY <2>1, <2>4 DEF EditsInv, AtFile
  <2>6. \A s \in Setting : edit'[s] # None =>
          /\ edit[s] # None /\ edit'[s].value = edit[s].value
          /\ edit'[s].saved => edit[s].saved \/ (edit[s].by = c /\ s = edits[c].setting)
    <3>1. edit' = IF edit[edits[c].setting] # None /\ edit[edits[c].setting].by = c
                  THEN [edit EXCEPT ![edits[c].setting].saved = TRUE] ELSE edit
      BY <1>4 DEF Config!Write
    <3>. QED
      BY <3>1, <1>t DEF Config!Edit
  <2>7. (\A s \in Setting : edit[s] # None => heap[mgmtConfig][s] = edit[s].value)'
    BY <2>1, <2>2, <2>6 DEF EditsInv
  <2>8. Config!EditsSaved'
    BY <2>1, <2>3, <2>6 DEF EditsInv, Config!EditsSaved
  <2>9. \A d \in Editor : edits'[d].pc \notin {"saving", "replacing"}
    BY <2>5 DEF AtFile
  <2>. QED
    BY <2>3, <2>5, <2>7, <2>8, <2>9, <1>n DEF EditsInv
<1>5. CASE Config!Notify(c)
  <2>1. Config!Collect(heap) /\ edits[c].pc = "telling" /\ mgmtConfig' = mgmtConfig
        /\ configFile' = configFile /\ edit' = edit
    BY <1>5 DEF Config!Notify
  <2>2. heap'[mgmtConfig] = heap[mgmtConfig]
    BY <2>1, <1>t, CollectKeeps
  <2>3. /\ edits'[c].pc = "idle"
        /\ \A d \in Editor \ {c} : edits'[d] = edits[d]
    BY <1>5, <1>t DEF Config!Notify, Config!NoCall
  <2>4. \A q \in Setting : edit'[q] # None =>
            /\ edit'[q] = edit[q] \/ (~edit'[q].saved /\ edits[edit'[q].by].pc # "saving")
            /\ heap'[mgmtConfig'][q] = edit'[q].value
    BY <2>1, <2>2 DEF EditsInv
  <2>. QED
    BY <2>1, <2>3, <2>4, EditsKept DEF AtFile
<1>6. ASSUME NEW bytes \in Config!Config, Config!BeginReplace(c, bytes)
      PROVE  EditsInv'
  <2>1. Config!Unlocked /\ configFile' = None /\ heap' = heap /\ mgmtConfig' = mgmtConfig /\ edit' = edit
    BY <1>6 DEF Config!BeginReplace
  <2>2. \A d \in Editor : ~AtFile(d)
    BY <2>1 DEF Config!Unlocked, AtFile
  <2>3. /\ edits'[c].pc = "replacing"
        /\ \A d \in Editor \ {c} : edits'[d] = edits[d]
    BY <1>6, <1>t DEF Config!BeginReplace, Config!EditorState
  <2>4. \A d \in Editor : (AtFile(d)' => d = c) /\ edits'[d].pc # "saving"
    BY <2>2, <2>3 DEF AtFile
  <2>. QED
    BY <2>1, <2>3, <2>4 DEF EditsInv, Config!EditsSaved
<1>7. CASE Config!WriteBody(c)
  <2>1. edits[c].pc = "replacing" /\ \A s \in Setting : edit'[s] = None
    BY <1>7 DEF Config!WriteBody
  <2>2. configFile' = edits[c].data /\ edits[c].data \in Config!Config
    BY <1>7, <2>1 DEF Config!WriteBody, ConfigTyped, EditHeld, AtFile
  <2>3. /\ edits'[c].pc = "swapping"
        /\ \A d \in Editor \ {c} : edits'[d] = edits[d]
    BY <1>7, <1>t DEF Config!WriteBody, Config!EditorState
  <2>4. \A d \in Editor : AtFile(d)' => d = c
    BY <2>1, <2>3 DEF EditsInv, AtFile
  <2>5. \A d \in Editor : edits'[d].pc \notin {"saving", "replacing"}
    BY <2>3, <2>4 DEF AtFile
  <2>. QED
    BY <2>1, <2>2, <2>4, <2>5, <1>n DEF EditsInv, Config!EditsSaved
<1>8. CASE Config!Swap(c)
  <2>1. PICK new \in Config!Fresh : /\ mgmtConfig' = new
                                    /\ Config!Collect([heap EXCEPT ![new] = Config!Loaded])
    BY <1>8 DEF Config!Swap
  <2>2. [heap EXCEPT ![new] = Config!Loaded] \in [Object -> Config!Config]
    BY <1>t, ContentType
  <2>3. heap'[mgmtConfig'] = Config!Loaded
    BY <2>1, <2>2, <1>t, CollectKeeps
  <2>4. edits[c].pc = "swapping" /\ configFile' = configFile /\ Config!Handed(Config!Loaded)
    BY <1>8 DEF Config!Swap
  <2>5. /\ edits'[c].pc = "idle"
        /\ \A d \in Editor \ {c} : edits'[d] = edits[d]
    BY <1>8, <1>t DEF Config!Swap, Config!NoCall
  <2>6. \A s \in Setting : edit'[s] # None => edit'[s] = edit[s] /\ edit[s].value = Config!Loaded[s]
    BY <2>4 DEF Config!Handed
  <2>7. \A q \in Setting : edit'[q] # None =>
            /\ edit'[q] = edit[q] \/ (~edit'[q].saved /\ edits[edit'[q].by].pc # "saving")
            /\ heap'[mgmtConfig'][q] = edit'[q].value
    BY <2>3, <2>6
  <2>. QED
    BY <2>4, <2>5, <2>7, EditsKept DEF AtFile
<1>. QED
  BY <1>1, <1>2, <1>3, <1>4, <1>5, <1>6, <1>7, <1>8

LEMMA EditsReload ==
  ASSUME Config!ConfigParameters, ConfigTyped, ConfigTyped', EditsInv,
         \/ \E bytes \in Config!Config : Config!Rewrite(bytes)
         \/ Config!Notice
         \/ \E r \in Reloader :
              \/ Config!Fire(r) \/ Config!Load(r) \/ Config!Install(r) \/ Config!Take(r)
              \/ Config!Apply(r) \/ Config!TakeSnapshot(r) \/ Config!Give(r) \/ Config!Rehash(r)
  PROVE  EditsInv'
<1>t. /\ heap \in [Object -> Config!Config] /\ mgmtConfig \in Object /\ mgmtConfig' \in Object
  BY DEF ConfigTyped, Config!TypeOK
<1>0. ASSUME edits' = edits, configFile' = configFile,
             \A s \in Setting : edit'[s] # None =>
                edit'[s] = edit[s] /\ heap'[mgmtConfig'][s] = edit'[s].value
      PROVE  EditsInv'
  BY <1>0, EditsKept DEF AtFile
<1>1. ASSUME NEW bytes \in Config!Config, Config!Rewrite(bytes) PROVE EditsInv'
  <2>1. configFile # None /\ configFile' = bytes /\ edits' = edits
        /\ \A s \in Setting : edit'[s] = None
    BY <1>1 DEF Config!Rewrite
  <2>2. bytes # None
    BY DEF Config!ConfigParameters
  <2>3. (\A d, e \in Editor : AtFile(d) /\ AtFile(e) => d = e)'
    BY <2>1 DEF EditsInv, AtFile
  <2>. QED
    BY <2>1, <2>2, <2>3 DEF EditsInv, Config!EditsSaved
<1>2. CASE Config!Notice
  BY <1>2, <1>0 DEF Config!Notice, EditsInv
<1>3. ASSUME NEW r \in Reloader, Config!Fire(r) \/ Config!Take(r) \/ Config!Apply(r)
                                  \/ Config!TakeSnapshot(r) \/ Config!Rehash(r)
      PROVE  EditsInv'
  <2>1. edits' = edits /\ configFile' = configFile /\ edit' = edit /\ heap' = heap
        /\ mgmtConfig' = mgmtConfig
    BY <1>3 DEF Config!Fire, Config!Take, Config!Apply, Config!TakeSnapshot, Config!Rehash
  <2>. QED
    BY <2>1, <1>0 DEF EditsInv
<1>4. ASSUME NEW r \in Reloader, Config!Load(r) PROVE EditsInv'
  <2>1. PICK new \in Config!Fresh : Config!Collect([heap EXCEPT ![new] = Config!Loaded])
    BY <1>4 DEF Config!Load
  <2>2. [heap EXCEPT ![new] = Config!Loaded] \in [Object -> Config!Config]
    BY <1>t, ContentType
  <2>3. new # mgmtConfig
    BY FreshObject DEF Config!Used
  <2>4. edits' = edits /\ configFile' = configFile /\ edit' = edit /\ mgmtConfig' = mgmtConfig
    BY <1>4 DEF Config!Load
  <2>5. heap'[mgmtConfig] = heap[mgmtConfig]
    BY <2>1, <2>2, <2>3, <2>4, <1>t, CollectKeeps
  <2>. QED
    BY <2>4, <2>5, <1>0 DEF EditsInv
<1>5. ASSUME NEW r \in Reloader, Config!Install(r) PROVE EditsInv'
  <2>1. Config!Collect(heap) /\ edits' = edits /\ configFile' = configFile /\ edit' = edit
        /\ mgmtConfig' = mgmtConfig
    BY <1>5 DEF Config!Install
  <2>2. heap'[mgmtConfig] = heap[mgmtConfig]
    BY <2>1, <1>t, CollectKeeps
  <2>. QED
    BY <2>1, <2>2, <1>0 DEF EditsInv
<1>6. ASSUME NEW r \in Reloader, Config!Give(r) PROVE EditsInv'
  <2>1. Config!Collect(heap) /\ edits' = edits /\ configFile' = configFile
        /\ mgmtConfig' = reloads[r].cfg /\ Config!Handed(heap[reloads[r].cfg])
    BY <1>6 DEF Config!Give
  <2>2. heap'[mgmtConfig'] = heap[reloads[r].cfg]
    BY <2>1, <1>t, CollectKeeps
  <2>3. \A s \in Setting : edit'[s] # None =>
          edit'[s] = edit[s] /\ edit[s].value = heap[reloads[r].cfg][s]
    BY <2>1 DEF Config!Handed
  <2>. QED
    BY <2>1, <2>2, <2>3, <1>0
<1>. QED
  BY <1>1, <1>2, <1>3, <1>4, <1>5, <1>6

-----------------------------------------------------------------------------
(* Reloads. *)

\* A step that leaves the reloads alone, and after which one is to come, may do as it
\* likes with the file and with the object of the handlers.
LEMMA ReloadsLate ==
  ASSUME ConfigTyped, ConfigTyped', ReloadsInv, races = {}, Late',
         reloads' = reloads, watched' = watched, snapshot' = snapshot, applied' = applied,
         mgmtConfig' = mgmtConfig, heap'[watched] = heap[watched] \/ watched = mgmtConfig,
         \A r \in Reloader, o \in Object \ {mgmtConfig} :
            o \in {reloads[r].own, reloads[r].cfg} => heap'[o] = heap[o],
         \A r \in Reloader : reloads[r].pc = "snapshot" =>
            heap'[reloads[r].cfg] = heap[reloads[r].cfg]
  PROVE  ReloadsInv'
<1>1. ASSUME NEW r \in Reloader PROVE FirstInv(r)' /\ LaterInv(r)'
  <2>1. FirstInv(r)'
    BY DEF ReloadsInv, FirstInv
  <2>2. reloads[r].pc = "install" => heap'[reloads[r].own] = heap[reloads[r].own]
                                       \/ reloads[r].own = mgmtConfig
    BY DEF ConfigTyped, ReloadHeld
  <2>3. reloads[r].pc \in {"apply", "snapshot", "give"} =>
          heap'[reloads[r].cfg] = heap[reloads[r].cfg] \/ reloads[r].cfg = mgmtConfig
    BY DEF ConfigTyped, ReloadHeld
  <2>4. LaterInv(r)'
    BY <2>2, <2>3 DEF ReloadsInv, LaterInv
  <2>. QED
    BY <2>1, <2>4
<1>2. ComparedInv'
  BY DEF ReloadsInv, ComparedInv
<1>. QED
  BY <1>1, <1>2 DEF ReloadsInv

\* A step that leaves the reloads and the file alone, and in force what was in force.
LEMMA ReloadsKept ==
  ASSUME ConfigTyped, ConfigTyped', ReloadsInv, races = {}, Late => Late',
         reloads' = reloads, watched' = watched, snapshot' = snapshot, configFile' = configFile,
         \A s \in Compared : applied'[s] = applied[s],
         applied = configFile => applied' = configFile,
         heap[mgmtConfig] = configFile => heap'[mgmtConfig'] = configFile,
         \/ mgmtConfig' = mgmtConfig
         \/ /\ mgmtConfig' # watched
            /\ \A r \in Reloader : /\ mgmtConfig' \notin {reloads[r].own, reloads[r].cfg}
                                   /\ reloads[r].pc # "idle" => reloads[r].seen # None,
         heap'[watched] = heap[watched],
         \A r \in Reloader, o \in Object :
            o \in {reloads[r].own, reloads[r].cfg} => heap'[o] = heap[o]
  PROVE  ReloadsInv'
<1>1. ASSUME NEW r \in Reloader PROVE FirstInv(r)' /\ LaterInv(r)'
  <2>1. FirstInv(r)'
    BY DEF ReloadsInv, FirstInv, InForce
  <2>2. reloads[r].pc = "install" => heap'[reloads[r].own] = heap[reloads[r].own]
    BY DEF ConfigTyped, ReloadHeld
  <2>3. reloads[r].pc \in {"apply", "snapshot", "give"} =>
          heap'[reloads[r].cfg] = heap[reloads[r].cfg]
    BY DEF ConfigTyped, ReloadHeld
  <2>4. LaterInv(r)
    BY DEF ReloadsInv
  <2>5. reloads[r].pc # "idle" /\ reloads[r].seen # None /\ reloads[r].pc # "load" =>
          Late' \/ configFile' = reloads[r].got
    BY <2>4 DEF LaterInv
  <2>6. reloads[r].pc \in {"snapshot", "give", "rehash"} /\ reloads[r].seen # None =>
          Late' \/ applied' = reloads[r].got
    BY <2>4 DEF LaterInv
  <2>7. reloads[r].pc = "rehash" /\ reloads[r].seen # None =>
          Late' \/ heap'[mgmtConfig'] = reloads[r].got
    BY <2>4 DEF LaterInv
  <2>8. LaterInv(r)'
    BY <2>2, <2>3, <2>4, <2>5, <2>6, <2>7 DEF LaterInv
  <2>. QED
    BY <2>1, <2>8
<1>2. ComparedInv'
  <2>1. \A r \in Reloader : reloads[r].pc = "snapshot" =>
          heap'[reloads[r].cfg] = heap[reloads[r].cfg]
    BY DEF ConfigTyped, ReloadHeld
  <2>. QED
    BY <2>1 DEF ReloadsInv, ComparedInv
<1>. QED
  BY <1>1, <1>2 DEF ReloadsInv, InForce

LEMMA ReloadsRequest ==
  ASSUME Config!ConfigParameters, ConfigTyped, ConfigTyped', EditsInv, ReloadsInv,
         NEW c \in Editor,
         \/ \E s \in Setting, v \in Config!Value : Config!Change(c, s, v)
         \/ Config!BeginSave(c) \/ Config!Write(c) \/ Config!Notify(c)
         \/ \E bytes \in Config!Config : Config!BeginReplace(c, bytes)
         \/ Config!WriteBody(c) \/ Config!Swap(c)
  PROVE  ReloadsInv'
<1>t. /\ edits \in [Editor -> Config!EditorState] /\ heap \in [Object -> Config!Config]
      /\ mgmtConfig \in Object /\ mgmtConfig' \in Object /\ watched \in Object
      /\ applied \in Config!Config /\ configFile \in Config!Config \cup {None}
  BY DEF ConfigTyped, Config!TypeOK
<1>n. None \notin Config!Config
  BY DEF Config!ConfigParameters
<1>. SUFFICES ASSUME races' = {} PROVE ReloadsInv'
  BY DEF ReloadsInv
<1>1. ASSUME NEW s \in Setting, NEW v \in Config!Value, Config!Change(c, s, v)
      PROVE  ReloadsInv'
  <2>1. races = {} /\ ~\E r \in Reloader : reloads[r].pc \in {"apply", "snapshot", "give"}
                                             /\ reloads[r].cfg = mgmtConfig
    BY <1>1 DEF Config!Change
  <2>2. Late'
    BY <1>1, <1>t DEF Config!Change, Late, Behind, Config!EditorState
  <2>3. \A o \in Object \ {mgmtConfig} : heap'[o] = heap[o]
    BY <1>1, <1>t DEF Config!Change
  <2>4. \A r \in Reloader : reloads[r].pc = "snapshot" =>
            heap'[reloads[r].cfg] = heap[reloads[r].cfg]
    BY <2>1, <2>3 DEF ConfigTyped, ReloadHeld
  <2>5. /\ reloads' = reloads /\ watched' = watched /\ snapshot' = snapshot /\ applied' = applied
        /\ mgmtConfig' = mgmtConfig
    BY <1>1 DEF Config!Change
  <2>. QED
    BY <2>1, <2>2, <2>3, <2>4, <2>5, <1>t, ReloadsLate
<1>2. CASE Config!BeginSave(c) \/ Config!Write(c)
  <2>1. /\ Config!Collect(heap) /\ races = {}
        /\ reloads' = reloads /\ watched' = watched /\ snapshot' = snapshot /\ applied' = applied
        /\ mgmtConfig' = mgmtConfig /\ hash' = hash
    BY <1>2 DEF Config!BeginSave, Config!Write, Config!Returned
  <2>2. Late'
    <3>1. CASE Config!BeginSave(c) /\ configFile = None
      <4>1. PICK d \in Editor : edits[d].pc \in {"saving", "replacing"}
        BY <3>1 DEF EditsInv
      <4>2. edits'[d] = edits[d]
        BY <3>1, <4>1, <1>t DEF Config!BeginSave
      <4>. QED
        BY <4>1, <4>2 DEF Late, Behind
    <3>2. CASE Config!BeginSave(c) /\ configFile # None
      <4>1. edits'[c].pc = "saving"
        BY <3>2, <1>t DEF Config!BeginSave, Config!EditorState
      <4>. QED
        BY <4>1 DEF Late, Behind
    <3>3. CASE Config!Write(c)
      <4>1. edits[c].data \in Config!Config
        BY <3>3 DEF Config!Write, ConfigTyped, EditHeld, AtFile
      <4>2. configFile' = edits[c].data /\ event' = TRUE
        BY <3>3 DEF Config!Write
      <4>3. edits[c].data # hash /\ \A r \in Reloader : edits[c].data # reloads[r].got
        BY <3>3 DEF Config!Write, Config!Returned
      <4>. QED
        BY <4>1, <4>2, <4>3, <2>1, <1>n DEF Late, Ahead
    <3>. QED
      BY <1>2, <3>1, <3>2, <3>3
  <2>3. /\ heap'[watched] = heap[watched]
        /\ \A r \in Reloader, o \in Object :
             o \in {reloads[r].own, reloads[r].cfg} => heap'[o] = heap[o]
    BY <2>1, <1>t, CollectKeeps
  <2>4. \A r \in Reloader : reloads[r].pc = "snapshot" =>
            heap'[reloads[r].cfg] = heap[reloads[r].cfg]
    BY <2>3 DEF ConfigTyped, ReloadHeld
  <2>. QED
    BY <2>1, <2>2, <2>3, <2>4, ReloadsLate
<1>3. CASE Config!Notify(c)
  <2>1. /\ Config!Collect(heap) /\ races = {} /\ edits[c].pc = "telling"
        /\ reloads' = reloads /\ watched' = watched /\ snapshot' = snapshot
        /\ mgmtConfig' = mgmtConfig /\ hash' = hash /\ event' = event /\ armed' = armed
        /\ configFile' = configFile
    BY <1>3 DEF Config!Notify
  <2>2. configFile # None /\ \A s \in Direct : applied'[s] = configFile[s]
    BY <1>3 DEF Config!Notify
  <2>3. \A s \in Setting \ Direct : applied'[s] = applied[s]
    BY <1>3 DEF Config!Notify
  <2>4. \A s \in Compared : applied'[s] = applied[s]
    BY <2>3 DEF Config!ConfigParameters
  <2>5. applied' \in Config!Config
    BY DEF ConfigTyped, Config!TypeOK
  <2>6. applied = configFile => applied' = configFile
    BY <2>2, <2>3, <2>5, <1>t DEF Config!Config
  <2>7. /\ heap'[watched] = heap[watched] /\ heap'[mgmtConfig] = heap[mgmtConfig]
        /\ \A r \in Reloader, o \in Object :
             o \in {reloads[r].own, reloads[r].cfg} => heap'[o] = heap[o]
    BY <2>1, <1>t, CollectKeeps
  <2>8. \A d \in Editor : d # c => edits'[d] = edits[d]
    BY <1>3, <1>t DEF Config!Notify
  <2>9. Late => Late'
    BY <2>1, <2>8 DEF Late, Behind, Ahead
  <2>. QED
    BY <2>1, <2>4, <2>6, <2>7, <2>9, ReloadsKept
<1>4. ASSUME NEW bytes \in Config!Config, Config!BeginReplace(c, bytes)
      PROVE  ReloadsInv'
  <2>1. /\ races = {} /\ reloads' = reloads /\ watched' = watched /\ snapshot' = snapshot
        /\ applied' = applied /\ mgmtConfig' = mgmtConfig /\ heap' = heap
    BY <1>4 DEF Config!BeginReplace
  <2>2. Late'
    BY <1>4, <1>t DEF Config!BeginReplace, Late, Behind, Config!EditorState
  <2>. QED
    BY <2>1, <2>2, ReloadsLate
<1>5. CASE Config!WriteBody(c)
  <2>1. /\ races = {} /\ reloads' = reloads /\ watched' = watched /\ snapshot' = snapshot
        /\ applied' = applied /\ mgmtConfig' = mgmtConfig /\ heap' = heap /\ hash' = hash
    BY <1>5 DEF Config!WriteBody, Config!Returned
  <2>2. edits[c].data \in Config!Config
    BY <1>5 DEF Config!WriteBody, ConfigTyped, EditHeld, AtFile
  <2>3. edits[c].data # hash /\ \A r \in Reloader : edits[c].data # reloads[r].got
    BY <1>5 DEF Config!WriteBody, Config!Returned
  <2>4. Late'
    BY <1>5, <2>1, <2>2, <2>3, <1>n DEF Config!WriteBody, Late, Ahead
  <2>. QED
    BY <2>1, <2>4, ReloadsLate
<1>6. CASE Config!Swap(c)
  <2>1. PICK new \in Config!Fresh : /\ mgmtConfig' = new
                                    /\ Config!Collect([heap EXCEPT ![new] = Config!Loaded])
    BY <1>6 DEF Config!Swap
  <2>2. [heap EXCEPT ![new] = Config!Loaded] \in [Object -> Config!Config]
    BY <1>t, ContentType
  <2>3. new \in Object /\ new \notin Config!Used
    BY FreshObject
  <2>4. /\ races = {} /\ reloads' = reloads /\ watched' = watched /\ snapshot' = snapshot
        /\ applied' = applied /\ hash' = hash /\ event' = event /\ armed' = armed
        /\ configFile' = configFile
    BY <1>6 DEF Config!Swap
  <2>5. /\ configFile = edits[c].data
        /\ \A r \in Reloader : reloads[r].pc \notin {"idle", "load"} =>
             reloads[r].got = Config!Loaded
    BY <1>6 DEF Config!Swap
  <2>6. Config!Loaded = configFile
    BY <1>6, <2>5, <1>n DEF Config!Swap, ConfigTyped, EditHeld, AtFile, Config!Loaded
  <2>7. heap'[new] = configFile
    BY <2>1, <2>2, <2>3, <2>6, CollectKeeps
  <2>8. /\ new # watched
        /\ \A r \in Reloader : /\ new \notin {reloads[r].own, reloads[r].cfg}
                               /\ reloads[r].pc # "idle" => reloads[r].seen # None
    <3>1. \A r \in Reloader : reloads[r].pc # "idle" => reloads[r].seen # None
      BY <2>4, <2>5, <2>6, <1>t, ContentType, <1>n DEF ReloadsInv, FirstInv
    <3>. QED
      BY <2>3, <3>1 DEF Config!Used
  <2>9. /\ heap'[watched] = heap[watched]
        /\ \A r \in Reloader, o \in Object :
             o \in {reloads[r].own, reloads[r].cfg} => heap'[o] = heap[o]
    <3>1. heap'[watched] = [heap EXCEPT ![new] = Config!Loaded][watched]
      BY <2>1, <2>2, <2>4, <1>t, CollectKeeps
    <3>2. ASSUME NEW r \in Reloader, NEW o \in Object, o \in {reloads[r].own, reloads[r].cfg}
          PROVE  heap'[o] = heap[o]
      BY <2>1, <2>2, <2>4, <2>8, <3>2, <1>t, CollectKeeps
    <3>. QED
      BY <3>1, <3>2, <2>8, <1>t
  <2>10. edits[c].pc = "swapping" /\ \A d \in Editor : d # c => edits'[d] = edits[d]
    BY <1>6, <1>t DEF Config!Swap
  <2>11. Late => Late'
    BY <2>4, <2>10 DEF Late, Behind, Ahead
  <2>. QED
    BY <2>1, <2>4, <2>7, <2>8, <2>9, <2>11, ReloadsKept
<1>. QED
  BY <1>1, <1>2, <1>3, <1>4, <1>5, <1>6

\* While one reload is under way the others rest.
LEMMA OnlyReload ==
  ASSUME ReloadsInv, races = {}, NEW r \in Reloader, reloads[r].pc # "idle",
         \A q \in Reloader \ {r} : reloads'[q] = reloads[q],
         FirstInv(r)', LaterInv(r)', ComparedInv',
         reloads'[r].pc = "idle" => (Late \/ InForce)'
  PROVE  ReloadsInv'
<1>1. \A q \in Reloader \ {r} : reloads'[q].pc = "idle"
  BY DEF ReloadsInv
<1>2. \A q \in Reloader \ {r} : FirstInv(q)' /\ LaterInv(q)'
  BY <1>1 DEF FirstInv, LaterInv
<1>. QED
  BY <1>1, <1>2 DEF ReloadsInv

\* Where the reload is, and what is in force for it, while it is one of the later ones.
LEMMA ReloadsReload ==
  ASSUME Config!ConfigParameters, ConfigTyped, ConfigTyped', EditsInv, ReloadsInv,
         \/ \E bytes \in Config!Config : Config!Rewrite(bytes)
         \/ Config!Notice
         \/ \E r \in Reloader :
              \/ Config!Fire(r) \/ Config!Load(r) \/ Config!Install(r) \/ Config!Take(r)
              \/ Config!Apply(r) \/ Config!TakeSnapshot(r) \/ Config!Give(r) \/ Config!Rehash(r)
  PROVE  ReloadsInv'
<1>t. /\ reloads \in [Reloader -> Config!Reload] /\ heap \in [Object -> Config!Config]
      /\ mgmtConfig \in Object /\ mgmtConfig' \in Object /\ watched \in Object
      /\ applied \in Config!Config /\ configFile \in Config!Config \cup {None}
  BY DEF ConfigTyped, Config!TypeOK
<1>n. None \notin Config!Config
  BY DEF Config!ConfigParameters
<1>. SUFFICES ASSUME races' = {} PROVE ReloadsInv'
  BY DEF ReloadsInv
<1>1. ASSUME NEW bytes \in Config!Config, Config!Rewrite(bytes) PROVE ReloadsInv'
  <2>1. /\ races = {} /\ reloads' = reloads /\ watched' = watched /\ snapshot' = snapshot
        /\ applied' = applied /\ mgmtConfig' = mgmtConfig /\ heap' = heap /\ hash' = hash
    BY <1>1 DEF Config!Rewrite, Config!Returned
  <2>2. bytes # hash /\ \A r \in Reloader : bytes # reloads[r].got
    BY <1>1 DEF Config!Rewrite, Config!Returned
  <2>3. Late'
    BY <1>1, <2>1, <2>2, <1>n DEF Config!Rewrite, Late, Ahead
  <2>. QED
    BY <2>1, <2>3, ReloadsLate
<1>2. CASE Config!Notice
  <2>1. /\ races = {} /\ reloads' = reloads /\ watched' = watched /\ snapshot' = snapshot
        /\ applied' = applied /\ mgmtConfig' = mgmtConfig /\ heap' = heap /\ hash' = hash
        /\ configFile' = configFile /\ edits' = edits /\ armed' = TRUE
    BY <1>2 DEF Config!Notice
  <2>2. Late => Late'
    BY <2>1 DEF Late, Behind, Ahead
  <2>. QED
    BY <2>1, <2>2, ReloadsKept
<1>3. ASSUME NEW r \in Reloader, Config!Fire(r) PROVE ReloadsInv'
  <2>1. /\ races = {} /\ watched' = watched /\ snapshot' = snapshot
        /\ applied' = applied /\ mgmtConfig' = mgmtConfig /\ heap' = heap /\ hash' = hash
        /\ configFile' = configFile /\ edits' = edits /\ reloads[r].pc = "idle"
    BY <1>3 DEF Config!Fire
  <2>2. CASE configFile \in {None, hash}
    <3>1. reloads' = reloads
      BY <1>3, <2>2 DEF Config!Fire
    <3>2. Late => Late'
      BY <2>1, <2>2 DEF Late, Behind, Ahead
    <3>. QED
      BY <2>1, <3>1, <3>2, ReloadsKept
  <2>3. CASE configFile \notin {None, hash}
    <3>1. /\ \A q \in Reloader \ {r} : reloads[q].pc = "idle"
          /\ reloads' = [reloads EXCEPT ![r] = [@ EXCEPT !.pc = "load", !.seen = configFile]]
      BY <1>3, <2>3 DEF Config!Fire
    <3>2. /\ \A q \in Reloader \ {r} : reloads'[q] = reloads[q]
          /\ reloads'[r] = [reloads[r] EXCEPT !.pc = "load", !.seen = configFile]
      BY <3>1, <1>t
    <3>3. reloads[r] = Config!Resting
      BY <2>1 DEF ConfigTyped, ReloadHeld
    <3>4. reloads'[r].pc = "load" /\ reloads'[r].seen # None /\ reloads'[r].got = None
      BY <3>2, <3>3, <2>3 DEF Config!Resting
    <3>5. FirstInv(r)' /\ LaterInv(r)'
      BY <3>4 DEF FirstInv, LaterInv
    <3>6. \A q \in Reloader \ {r} : FirstInv(q)' /\ LaterInv(q)'
      BY <3>1, <3>2 DEF FirstInv, LaterInv
    <3>7. ComparedInv'
      BY <2>1, <3>1, <3>2, <3>4 DEF ReloadsInv, ComparedInv
    <3>. QED
      BY <3>1, <3>2, <3>4, <3>5, <3>6, <3>7 DEF ReloadsInv
  <2>. QED
    BY <2>2, <2>3
<1>4. ASSUME NEW r \in Reloader, Config!Load(r) PROVE ReloadsInv'
  <2>1. PICK new \in Config!Fresh :
          /\ reloads' = [reloads EXCEPT ![r] = [@ EXCEPT !.pc = "install", !.own = new,
                                                         !.got = Config!Loaded]]
          /\ Config!Collect([heap EXCEPT ![new] = Config!Loaded])
    BY <1>4 DEF Config!Load
  <2>2. /\ races = {} /\ reloads[r].pc = "load" /\ watched' = watched /\ snapshot' = snapshot
        /\ applied' = applied /\ mgmtConfig' = mgmtConfig /\ edits' = edits
        /\ configFile' = configFile
    BY <1>4 DEF Config!Load
  <2>3. /\ reloads'[r] = [reloads[r] EXCEPT !.pc = "install", !.own = new, !.got = Config!Loaded]
        /\ \A q \in Reloader \ {r} : reloads'[q] = reloads[q]
    BY <2>1, <1>t
  <2>4. /\ reloads'[r].pc = "install" /\ reloads'[r].own = new
        /\ reloads'[r].got = Config!Loaded /\ reloads'[r].seen = reloads[r].seen
    BY <2>3, <1>t DEF Config!Reload
  <2>5. reloads[r].seen # None
    BY <2>2 DEF ReloadsInv, FirstInv
  <2>6. [heap EXCEPT ![new] = Config!Loaded] \in [Object -> Config!Config]
    BY <1>t, ContentType
  <2>7. new \in Object /\ new \notin {mgmtConfig, watched}
    BY FreshObject DEF Config!Used
  <2>8. heap'[new] = Config!Loaded
    BY <2>1, <2>4, <2>6, <2>7, <1>t, CollectKeeps
  <2>9. Late' \/ configFile = Config!Loaded
    BY <2>2 DEF EditsInv, Config!Loaded, Late, Behind
  <2>10. Config!Loaded \in Config!Config
    BY ContentType
  <2>11. FirstInv(r)' /\ LaterInv(r)'
    BY <2>2, <2>4, <2>5, <2>7, <2>8, <2>9, <2>10 DEF FirstInv, LaterInv
  <2>12. \A q \in Reloader : reloads[q].pc # "snapshot" /\ reloads'[q].pc # "snapshot"
    BY <2>2, <2>3, <2>4 DEF ReloadsInv
  <2>13. ComparedInv'
    BY <2>2, <2>12 DEF ReloadsInv, ComparedInv
  <2>. QED
    BY <2>2, <2>3, <2>4, <2>11, <2>13, OnlyReload
<1>5. ASSUME NEW r \in Reloader, Config!Install(r) PROVE ReloadsInv'
  <2>1. /\ races = {} /\ reloads[r].pc = "install" /\ watched' = reloads[r].own /\ snapshot' = snapshot
        /\ applied' = applied /\ mgmtConfig' = mgmtConfig /\ edits' = edits /\ hash' = hash
        /\ configFile' = configFile /\ Config!Collect(heap) /\ event' = event /\ armed' = armed
        /\ reloads' = [reloads EXCEPT ![r] = [@ EXCEPT !.pc = "take", !.own = None]]
    BY <1>5 DEF Config!Install
  <2>2. /\ reloads'[r].pc = "take" /\ reloads'[r].got = reloads[r].got
        /\ reloads'[r].seen = reloads[r].seen
        /\ \A q \in Reloader \ {r} : reloads'[q] = reloads[q]
    BY <2>1, <1>t DEF Config!Reload
  <2>3. reloads[r].seen # None /\ LaterInv(r)
    BY <2>1 DEF ReloadsInv, FirstInv
  <2>4. reloads[r].own \in Object
    BY <2>1 DEF ConfigTyped, ReloadHeld
  <2>5. heap'[watched'] = heap[reloads[r].own]
    BY <2>1, <2>4, <1>t, CollectKeeps
  <2>6. Late => Late'
    BY <2>1, <2>2 DEF Late, Behind, Ahead
  <2>7. FirstInv(r)' /\ LaterInv(r)'
    BY <2>1, <2>2, <2>3, <2>5, <2>6 DEF FirstInv, LaterInv
  <2>8. \A q \in Reloader : reloads[q].pc # "snapshot" /\ reloads'[q].pc # "snapshot"
    BY <2>1, <2>2 DEF ReloadsInv
  <2>9. ComparedInv'
    BY <2>1, <2>8 DEF ReloadsInv, ComparedInv
  <2>. QED
    BY <2>1, <2>2, <2>7, <2>9, OnlyReload
<1>6. ASSUME NEW r \in Reloader, Config!Take(r) PROVE ReloadsInv'
  <2>1. /\ races = {} /\ reloads[r].pc = "take" /\ watched' = watched /\ snapshot' = snapshot
        /\ applied' = applied /\ mgmtConfig' = mgmtConfig /\ edits' = edits /\ hash' = hash
        /\ configFile' = configFile /\ heap' = heap /\ event' = event /\ armed' = armed
        /\ reloads' = [reloads EXCEPT ![r] = [@ EXCEPT !.pc = "apply", !.cfg = watched]]
    BY <1>6 DEF Config!Take
  <2>2. /\ reloads'[r].pc = "apply" /\ reloads'[r].got = reloads[r].got
        /\ reloads'[r].seen = reloads[r].seen /\ reloads'[r].cfg = watched
        /\ \A q \in Reloader \ {r} : reloads'[q] = reloads[q]
    BY <2>1, <1>t DEF Config!Reload
  <2>3. FirstInv(r) /\ LaterInv(r)
    BY <2>1 DEF ReloadsInv
  <2>6. Late => Late'
    BY <2>1, <2>2 DEF Late, Behind, Ahead
  <2>7. FirstInv(r)'
    BY <2>1, <2>2, <2>3, <2>6 DEF FirstInv, InForce
  <2>8. LaterInv(r)'
    BY <2>1, <2>2, <2>3, <2>6 DEF LaterInv
  <2>9. \A q \in Reloader : reloads[q].pc # "snapshot" /\ reloads'[q].pc # "snapshot"
    BY <2>1, <2>2 DEF ReloadsInv
  <2>10. ComparedInv'
    BY <2>1, <2>9 DEF ReloadsInv, ComparedInv
  <2>. QED
    BY <2>1, <2>2, <2>7, <2>8, <2>10, OnlyReload
<1>7. ASSUME NEW r \in Reloader, Config!Apply(r) PROVE ReloadsInv'
  <2>1. /\ races = {} /\ reloads[r].pc = "apply" /\ watched' = watched /\ snapshot' = snapshot
        /\ mgmtConfig' = mgmtConfig /\ edits' = edits /\ hash' = hash
        /\ configFile' = configFile /\ heap' = heap /\ event' = event /\ armed' = armed
        /\ reloads' = [reloads EXCEPT ![r].pc = "snapshot"]
    BY <1>7 DEF Config!Apply
  <2>2. /\ reloads'[r].pc = "snapshot" /\ reloads'[r].got = reloads[r].got
        /\ reloads'[r].seen = reloads[r].seen /\ reloads'[r].cfg = reloads[r].cfg
        /\ \A q \in Reloader \ {r} : reloads'[q] = reloads[q]
    BY <2>1, <1>t DEF Config!Reload
  <2>3. FirstInv(r) /\ LaterInv(r)
    BY <2>1 DEF ReloadsInv
  <2>4. \A q \in Reloader : reloads[q].pc # "snapshot"
    BY <2>1 DEF ReloadsInv
  <2>5. applied' = heap[reloads[r].cfg]
    <3>1. \A s \in Compared : applied[s] = snapshot[s]
      BY <2>1, <2>4 DEF ReloadsInv, ComparedInv
    <3>2. applied' = [s \in Setting |-> IF s \in Compared /\ snapshot[s] = heap[reloads[r].cfg][s]
                                        THEN applied[s] ELSE heap[reloads[r].cfg][s]]
      BY <1>7 DEF Config!Apply
    <3>3. heap[reloads[r].cfg] \in Config!Config
      BY <2>1, <1>t DEF ConfigTyped, ReloadHeld
    <3>. QED
      BY <3>1, <3>2, <3>3 DEF Config!Config
  <2>6. Late => Late'
    BY <2>1, <2>2 DEF Late, Behind, Ahead
  <2>7. FirstInv(r)'
    BY <2>1, <2>2, <2>3, <2>5, <2>6 DEF FirstInv, InForce
  <2>8. LaterInv(r)'
    BY <2>1, <2>2, <2>3, <2>5, <2>6 DEF LaterInv
  <2>9. ComparedInv'
    BY <2>1, <2>2, <2>4, <2>5 DEF ComparedInv
  <2>. QED
    BY <2>1, <2>2, <2>7, <2>8, <2>9, OnlyReload
<1>8. ASSUME NEW r \in Reloader, Config!TakeSnapshot(r) PROVE ReloadsInv'
  <2>1. /\ races = {} /\ reloads[r].pc = "snapshot" /\ watched' = watched
        /\ snapshot' = heap[reloads[r].cfg] /\ applied' = applied
        /\ mgmtConfig' = mgmtConfig /\ edits' = edits /\ hash' = hash
        /\ configFile' = configFile /\ heap' = heap /\ event' = event /\ armed' = armed
        /\ reloads' = [reloads EXCEPT ![r].pc = "give"]
    BY <1>8 DEF Config!TakeSnapshot
  <2>2. /\ reloads'[r].pc = "give" /\ reloads'[r].got = reloads[r].got
        /\ reloads'[r].seen = reloads[r].seen /\ reloads'[r].cfg = reloads[r].cfg
        /\ \A q \in Reloader \ {r} : reloads'[q] = reloads[q]
    BY <2>1, <1>t DEF Config!Reload
  <2>3. FirstInv(r) /\ LaterInv(r) /\ ComparedInv
    BY <2>1 DEF ReloadsInv
  <2>6. Late => Late'
    BY <2>1, <2>2 DEF Late, Behind, Ahead
  <2>7. FirstInv(r)'
    BY <2>1, <2>2, <2>3, <2>6 DEF FirstInv, InForce
  <2>8. LaterInv(r)'
    BY <2>1, <2>2, <2>3, <2>6 DEF LaterInv
  <2>9. \A q \in Reloader : reloads'[q].pc # "snapshot"
    BY <2>1, <2>2 DEF ReloadsInv
  <2>10. ComparedInv'
    BY <2>1, <2>3, <2>9 DEF ComparedInv
  <2>. QED
    BY <2>1, <2>2, <2>7, <2>8, <2>10, OnlyReload
<1>9. ASSUME NEW r \in Reloader, Config!Give(r) PROVE ReloadsInv'
  <2>1. /\ races = {} /\ reloads[r].pc = "give" /\ watched' = watched
        /\ snapshot' = snapshot /\ applied' = applied
        /\ mgmtConfig' = reloads[r].cfg /\ edits' = edits /\ hash' = hash
        /\ configFile' = configFile /\ Config!Collect(heap) /\ event' = event /\ armed' = armed
    BY <1>9 DEF Config!Give
  <2>2. heap'[mgmtConfig'] = heap[reloads[r].cfg]
    BY <2>1, <1>t, CollectKeeps
  <2>3. FirstInv(r) /\ LaterInv(r)
    BY <2>1 DEF ReloadsInv
  <2>4. /\ \A q \in Reloader \ {r} : reloads'[q] = reloads[q]
        /\ reloads'[r].pc \in {"idle", "rehash"} /\ reloads'[r].seen = reloads[r].seen
        /\ reloads[r].seen = None => reloads'[r] = Config!Resting
        /\ reloads[r].seen # None => reloads'[r].pc = "rehash" /\ reloads'[r].got = reloads[r].got
    BY <1>9, <1>t DEF Config!Give, Config!Reload, Config!Resting
  <2>5. reloads'[r].got = reloads[r].got
    BY <2>1, <2>3, <2>4 DEF FirstInv, Config!Resting
  <2>6. Late => Late'
    BY <2>1, <2>4, <2>5 DEF Late, Behind, Ahead
  <2>7. FirstInv(r)'
    BY <2>4 DEF FirstInv, Config!Resting
  <2>8. LaterInv(r)'
    BY <2>1, <2>2, <2>3, <2>4, <2>5, <2>6 DEF LaterInv
  <2>9. \A q \in Reloader : reloads[q].pc # "snapshot" /\ reloads'[q].pc # "snapshot"
    BY <2>1, <2>4 DEF ReloadsInv
  <2>10. ComparedInv'
    BY <2>1, <2>9 DEF ReloadsInv, ComparedInv
  <2>11. reloads'[r].pc = "idle" => (Late \/ InForce)'
    BY <2>1, <2>2, <2>3, <2>4, <2>6 DEF FirstInv, InForce
  <2>. QED
    BY <2>1, <2>4, <2>7, <2>8, <2>10, <2>11, OnlyReload
<1>10. ASSUME NEW r \in Reloader, Config!Rehash(r) PROVE ReloadsInv'
  <2>1. /\ races = {} /\ reloads[r].pc = "rehash" /\ watched' = watched
        /\ snapshot' = snapshot /\ applied' = applied /\ heap' = heap
        /\ mgmtConfig' = mgmtConfig /\ edits' = edits /\ hash' = reloads[r].got
        /\ configFile' = configFile /\ event' = event /\ armed' = armed
        /\ configFile # None => hash' = configFile
        /\ reloads' = [reloads EXCEPT ![r] = Config!Resting]
    BY <1>10 DEF Config!Rehash
  <2>2. reloads'[r].pc = "idle" /\ \A q \in Reloader \ {r} : reloads'[q] = reloads[q]
    BY <2>1, <1>t DEF Config!Resting
  <2>3. LaterInv(r) /\ reloads[r].seen # None
    BY <2>1 DEF ReloadsInv, FirstInv
  <2>4. Late => Behind
    BY <2>1 DEF Late, Ahead
  <2>5. Behind => Late'
    BY <2>1 DEF Late, Behind
  <2>6. (Late \/ InForce)'
    BY <2>1, <2>3, <2>4, <2>5 DEF LaterInv, InForce
  <2>7. FirstInv(r)' /\ LaterInv(r)'
    BY <2>2 DEF FirstInv, LaterInv
  <2>8. \A q \in Reloader : reloads[q].pc # "snapshot" /\ reloads'[q].pc # "snapshot"
    BY <2>1, <2>2 DEF ReloadsInv
  <2>9. ComparedInv'
    BY <2>1, <2>8 DEF ReloadsInv, ComparedInv
  <2>. QED
    BY <2>1, <2>2, <2>6, <2>7, <2>9, OnlyReload
<1>. QED
  BY <1>1, <1>2, <1>3, <1>4, <1>5, <1>6, <1>7, <1>8, <1>9, <1>10

-----------------------------------------------------------------------------
(* The theorems of the configuration. *)

LEMMA ConfigInvInit == ASSUME Config!ConfigParameters, Config!Init PROVE ConfigInv
<1>1. ConfigTyped
  BY ConfigTypedInit
<1>2. PICK bytes \in Config!Config, starter \in Reloader :
        /\ configFile = bytes /\ applied = bytes /\ snapshot = bytes
        /\ heap = [o \in Object |-> IF o = mgmtConfig THEN bytes ELSE Config!Blank]
        /\ reloads = [r \in Reloader |-> IF r = starter THEN [Config!Resting EXCEPT !.pc = "take"]
                                         ELSE Config!Resting]
  BY DEF Config!Init
<1>3. /\ watched = mgmtConfig /\ mgmtConfig \in Object
      /\ edits = [c \in Editor |-> Config!NoCall] /\ edit = [s \in Setting |-> None]
  BY DEF Config!Init, Config!ConfigParameters
<1>4. \A c \in Editor : edits[c].pc = "idle"
  BY <1>3 DEF Config!NoCall
<1>5. configFile # None
  BY <1>2 DEF Config!ConfigParameters
<1>6. EditsInv
  BY <1>3, <1>4, <1>5 DEF EditsInv, AtFile, Config!EditsSaved
<1>7. InForce
  BY <1>2, <1>3 DEF InForce
<1>8. /\ reloads[starter].pc = "take" /\ reloads[starter].seen = None
      /\ reloads[starter].got = None
      /\ \A r \in Reloader \ {starter} : reloads[r].pc = "idle"
  BY <1>2 DEF Config!Resting
<1>9. \A r \in Reloader : FirstInv(r) /\ LaterInv(r)
  BY <1>3, <1>7, <1>8 DEF FirstInv, LaterInv
<1>10. ComparedInv
  BY <1>2, <1>8 DEF ComparedInv
<1>11. ReloadsInv
  BY <1>7, <1>8, <1>9, <1>10 DEF ReloadsInv
<1>. QED
  BY <1>1, <1>6, <1>11 DEF ConfigInv

LEMMA ConfigInvNext ==
  ASSUME Config!ConfigParameters, ConfigInv, Config!Next PROVE ConfigInv'
<1>1. CASE \E c \in Editor :
             \/ \E s \in Setting, v \in Config!Value : Config!Change(c, s, v)
             \/ Config!BeginSave(c) \/ Config!Write(c) \/ Config!Notify(c)
             \/ \E bytes \in Config!Config : Config!BeginReplace(c, bytes)
             \/ Config!WriteBody(c) \/ Config!Swap(c)
  BY <1>1, ConfigTypedRequest, EditsRequest, ReloadsRequest DEF ConfigInv
<1>2. CASE \/ \E bytes \in Config!Config : Config!Rewrite(bytes)
           \/ Config!Notice
           \/ \E r \in Reloader :
                \/ Config!Fire(r) \/ Config!Load(r) \/ Config!Install(r) \/ Config!Take(r)
                \/ Config!Apply(r) \/ Config!TakeSnapshot(r) \/ Config!Give(r)
                \/ Config!Rehash(r)
  BY <1>2, ConfigTypedReload, EditsReload, ReloadsReload DEF ConfigInv
<1>. QED
  BY <1>1, <1>2 DEF Config!Next

LEMMA ConfigInvStay == ASSUME ConfigInv, UNCHANGED configuration PROVE ConfigInv'
<1>1. ConfigTyped'
  BY DEF configuration, ConfigInv, ConfigTyped, Config!TypeOK, EditHeld, AtFile, ReloadHeld
<1>2. EditsInv'
  BY DEF configuration, ConfigInv, EditsInv, AtFile, Config!EditsSaved
<1>3. ReloadsInv'
  BY DEF configuration, ConfigInv, ReloadsInv, FirstInv, LaterInv, ComparedInv, InForce, Late,
         Behind, Ahead
<1>. QED
  BY <1>1, <1>2, <1>3 DEF ConfigInv

LEMMA ConfigSteps ==
  ASSUME [ServicesNext]_serviceVars PROVE Config!Next \/ UNCHANGED configuration
BY DEF ServicesNext, serviceVars

\* What the configuration needs to be right in every state (persist, PutConfigYAML,
\* reloadConfigIfChanged, UpdateClients).
THEOREM ConfigAlways == ServicesSpec => []ConfigInv
<1>1. ServicesInit => ConfigInv
  BY ServiceParameters, ConfigInvInit DEF ServicesInit, ServiceParameters
<1>2. ConfigInv /\ [ServicesNext]_serviceVars => ConfigInv'
  BY ServiceParameters, ConfigInvNext, ConfigInvStay, ConfigSteps DEF ServiceParameters
<1>. QED
  BY <1>1, <1>2, PTL DEF ServicesSpec, serviceVars

\* An edit that was answered with success is in the file until something overtakes it, and
\* once all is quiet what is in force is what the file says, unless one of the races came
\* between (persist, reloadConfigIfChanged, UpdateClients).
THEOREM EditsComeIntoForce == ServicesSpec => []EditsInForce
<1>1. ConfigInv => Config!EditsSaved
  BY DEF ConfigInv, EditsInv
<1>2. ConfigInv => Config!QuietConfigApplied
  <2>. SUFFICES ASSUME ConfigInv, Config!Quiet, races = {} PROVE InForce
    BY DEF Config!QuietConfigApplied, InForce
  <2>1. ~Late
    BY DEF Config!Quiet, Late, Behind, Ahead
  <2>. QED
    BY <2>1 DEF Config!Quiet, ConfigInv, ReloadsInv
<1>3. ConfigInv => EditsInForce
  BY <1>1, <1>2 DEF EditsInForce, Config!EditsInForce
<1>. QED
  BY <1>3, ConfigAlways, PTL

-----------------------------------------------------------------------------
(* Answers of OpenAI's chat completions for Claude clients. *)

\* The open blocks are the thinking or the text at hand and the calls that were named;
\* a call has an index of its own, and the next index is fresh.
BlocksAtHand ==
  /\ \A u \in reader.used : u < free
  /\ thinking # NoBlock => thinking < free /\ text = NoBlock
  /\ text # NoBlock => text < free
  /\ \A i \in ToolIndex : tools[i] # NoBlock <=> i \in called
  /\ \A i \in called : tools[i] < free /\ tools[i] \notin {thinking, text}
  /\ \A i, j \in called : tools[i] = tools[j] => i = j
  /\ \A n \in Nat, k \in OpenAI!Kind :
       <<n, k>> \in reader.open <=>
         \/ k = "thinking" /\ n = thinking
         \/ k = "text" /\ n = text
         \/ k = "tool" /\ n \in reader.used /\ \E i \in called : n = tools[i]

\* What holds of answers that need no excuse.
OpenAIGood ==
  /\ ~reader.broken
  /\ ~started => reader = OpenAI!NewClient /\ ~finished
  /\ stopped = finished /\ stopSent = deltaSent /\ (deltaSent => finished) /\ (over => deltaSent)
  /\ started => reader.stage = IF deltaSent THEN "over" ELSE "begun"
  /\ finished => thinking = NoBlock /\ text = NoBlock /\ reader.open = {}
  /\ ~finished => BlocksAtHand

OpenAIInv == OpenAI!TypeOK /\ (slips = {} => OpenAIGood)

LEMMA OpenAIEventsType ==
  ASSUME NEW c \in OpenAI!Client, NEW i \in Nat, NEW k \in OpenAI!Kind
  PROVE  /\ OpenAI!MessageStart(c) \in OpenAI!Client /\ OpenAI!BlockStart(c, i, k) \in OpenAI!Client
         /\ OpenAI!BlockDelta(c, i, k) \in OpenAI!Client /\ OpenAI!BlockStop(c, i) \in OpenAI!Client
         /\ OpenAI!MessageDelta(c) \in OpenAI!Client /\ OpenAI!MessageStop(c) \in OpenAI!Client
<1>1. /\ c.stage \in OpenAI!Stage /\ c.open \subseteq Nat \X OpenAI!Kind /\ c.used \subseteq Nat
      /\ c.broken \in BOOLEAN
  BY DEF OpenAI!Client
<1> DEFINE rest == {d \in c.open : d[1] # i}
<1>2. /\ {"begun", "closing", "over"} \subseteq OpenAI!Stage
      /\ rest \in SUBSET (Nat \X OpenAI!Kind)
      /\ c.open \cup {<<i, k>>} \in SUBSET (Nat \X OpenAI!Kind) /\ c.used \cup {i} \in SUBSET Nat
  BY <1>1 DEF OpenAI!Stage
<1>3. OpenAI!MessageStart(c) \in OpenAI!Client
  BY <1>1, <1>2, Zenon DEF OpenAI!MessageStart, OpenAI!Client
<1>4. OpenAI!BlockStart(c, i, k) \in OpenAI!Client
  BY <1>1, <1>2, Zenon DEF OpenAI!BlockStart, OpenAI!Client
<1>5. OpenAI!BlockDelta(c, i, k) \in OpenAI!Client
  BY <1>1, <1>2, Zenon DEF OpenAI!BlockDelta, OpenAI!Client
<1>6. OpenAI!BlockStop(c, i) \in OpenAI!Client
  BY <1>1, <1>2, Zenon DEF OpenAI!BlockStop, OpenAI!Client
<1>7. OpenAI!MessageDelta(c) \in OpenAI!Client
  BY <1>1, <1>2, Zenon DEF OpenAI!MessageDelta, OpenAI!Client
<1>8. OpenAI!MessageStop(c) \in OpenAI!Client
  BY <1>1, <1>2, Zenon DEF OpenAI!MessageStop, OpenAI!Client
<1> QED BY <1>3, <1>4, <1>5, <1>6, <1>7, <1>8

LEMMA OpenAIHelpersType ==
  ASSUME OpenAI!TypeOK
  PROVE  /\ OpenAI!Opened \in OpenAI!Client
         /\ \A c \in OpenAI!Client, i \in {thinking, text} :
              OpenAI!StopBlock(c, i) \in OpenAI!Client
         /\ \A c \in OpenAI!Client :
              /\ OpenAI!BothStopped(c) \in OpenAI!Client
              /\ OpenAI!ToolsStopped(c) \in OpenAI!Client
              /\ OpenAI!AllStopped(c) \in OpenAI!Client
              /\ OpenAI!Ended(c) \in OpenAI!Client
<1>1. /\ reader \in OpenAI!Client /\ thinking \in Nat \cup {NoBlock}
      /\ text \in Nat \cup {NoBlock}
  BY DEF OpenAI!TypeOK
<1>2. OpenAI!Opened \in OpenAI!Client
  BY <1>1, OpenAIEventsType DEF OpenAI!Opened, OpenAI!Kind
<1>3. ASSUME NEW c \in OpenAI!Client, NEW i \in Nat \cup {NoBlock}
      PROVE  OpenAI!StopBlock(c, i) \in OpenAI!Client
  BY OpenAIEventsType DEF OpenAI!StopBlock, OpenAI!Kind
<1>4. ASSUME NEW c \in OpenAI!Client
      PROVE  /\ OpenAI!BothStopped(c) \in OpenAI!Client
             /\ OpenAI!ToolsStopped(c) \in OpenAI!Client
             /\ OpenAI!Ended(c) \in OpenAI!Client
  <2>1. OpenAI!BothStopped(c) \in OpenAI!Client
    BY <1>1, <1>3 DEF OpenAI!BothStopped
  <2>2. OpenAI!ToolsStopped(c) \in OpenAI!Client
    BY DEF OpenAI!ToolsStopped, OpenAI!Client
  <2>3. OpenAI!Ended(c) \in OpenAI!Client
    BY OpenAIEventsType DEF OpenAI!Ended, OpenAI!Kind
  <2>. QED
    BY <2>1, <2>2, <2>3
<1>. QED
  BY <1>1, <1>2, <1>3, <1>4 DEF OpenAI!AllStopped

LEMMA OpenAITypeNext ==
  ASSUME OpenAI!OpenAIParameters, OpenAI!TypeOK, OpenAI!Next PROVE OpenAI!TypeOK'
<1>1. /\ reader \in OpenAI!Client /\ OpenAI!Opened \in OpenAI!Client
      /\ thinking \in Nat \cup {NoBlock} /\ text \in Nat \cup {NoBlock} /\ free \in Nat
      /\ tools \in [ToolIndex -> Nat \cup {NoBlock}] /\ called \subseteq ToolIndex
      /\ {started, finished, stopped, deltaSent, stopSent, over} \subseteq BOOLEAN
      /\ slips \subseteq {"late", "renamed", "unnamed", "cut", "usageAgain"}
  BY OpenAIHelpersType DEF OpenAI!TypeOK
<1>k. {"thinking", "text", "tool"} \subseteq OpenAI!Kind
  BY DEF OpenAI!Kind
<1>2. ASSUME NEW why \in SUBSET {"renamed"}, OpenAI!Translated(why)
      PROVE  /\ {started, finished, stopped, deltaSent, stopSent, over}' \subseteq BOOLEAN
             /\ slips' \subseteq {"late", "renamed", "unnamed", "cut", "usageAgain"}
  BY <1>1, <1>2 DEF OpenAI!Translated
<1>3. CASE OpenAI!Reasoning
  <2>1. OpenAI!StopBlock(OpenAI!Opened, text) \in OpenAI!Client
    BY <1>1, OpenAIHelpersType
  <2>2. reader' \in OpenAI!Client
    <3>. DEFINE c == OpenAI!StopBlock(OpenAI!Opened, text)
    <3>1. \A i \in Nat : OpenAI!BlockDelta(c, i, "thinking") \in OpenAI!Client
          /\ OpenAI!BlockStart(c, i, "thinking") \in OpenAI!Client
      BY <1>k, <2>1, OpenAIEventsType
    <3>2. \A i, j \in Nat :
            OpenAI!BlockDelta(OpenAI!BlockStart(c, i, "thinking"), j, "thinking") \in OpenAI!Client
      BY <1>k, <3>1, OpenAIEventsType
    <3>3. CASE thinking = NoBlock
      BY <1>1, <1>3, <3>2, <3>3 DEF OpenAI!Reasoning
    <3>4. CASE thinking # NoBlock
      BY <1>1, <1>3, <3>1, <3>4 DEF OpenAI!Reasoning
    <3>. QED
      BY <3>3, <3>4
  <2>3. thinking' \in Nat \cup {NoBlock} /\ text' \in Nat \cup {NoBlock} /\ free' \in Nat
        /\ tools' = tools /\ called' = called
    BY <1>1, <1>3 DEF OpenAI!Reasoning
  <2>. QED
    BY <1>1, <1>2, <1>3, <2>2, <2>3 DEF OpenAI!Reasoning, OpenAI!TypeOK
<1>4. CASE OpenAI!Content
  <2>1. OpenAI!StopBlock(OpenAI!Opened, thinking) \in OpenAI!Client
    BY <1>1, OpenAIHelpersType
  <2>2. reader' \in OpenAI!Client
    <3>. DEFINE c == OpenAI!StopBlock(OpenAI!Opened, thinking)
    <3>1. \A i \in Nat : OpenAI!BlockDelta(c, i, "text") \in OpenAI!Client
          /\ OpenAI!BlockStart(c, i, "text") \in OpenAI!Client
      BY <1>k, <2>1, OpenAIEventsType
    <3>2. \A i, j \in Nat :
            OpenAI!BlockDelta(OpenAI!BlockStart(c, i, "text"), j, "text") \in OpenAI!Client
      BY <1>k, <3>1, OpenAIEventsType
    <3>3. \A i \in Nat : OpenAI!BlockDelta(OpenAI!Opened, i, "text") \in OpenAI!Client
      BY <1>1, <1>k, OpenAIEventsType
    <3>4. CASE text = NoBlock
      BY <1>1, <1>4, <3>2, <3>4 DEF OpenAI!Content
    <3>5. CASE text # NoBlock
      BY <1>1, <1>4, <3>3, <3>5 DEF OpenAI!Content
    <3>. QED
      BY <3>4, <3>5
  <2>3. thinking' \in Nat \cup {NoBlock} /\ text' \in Nat \cup {NoBlock} /\ free' \in Nat
        /\ tools' = tools /\ called' = called
    BY <1>1, <1>4 DEF OpenAI!Content
  <2>. QED
    BY <1>1, <1>2, <1>4, <2>2, <2>3 DEF OpenAI!Content, OpenAI!TypeOK
<1>5. ASSUME NEW i \in ToolIndex, OpenAI!NamedCall(i) \/ OpenAI!CallGoesOn(i)
      PROVE  OpenAI!TypeOK'
  <2>1. OpenAI!BlockOf(i) \in Nat
    BY <1>1 DEF OpenAI!BlockOf, OpenAI!HasBlock
  <2>2. OpenAI!TakesBlock(i)
    BY <1>5 DEF OpenAI!NamedCall, OpenAI!CallGoesOn
  <2>3. /\ tools' \in [ToolIndex -> Nat \cup {NoBlock}] /\ free' \in Nat
        /\ called' \subseteq ToolIndex
    BY <1>1, <2>1, <2>2 DEF OpenAI!TakesBlock
  <2>4. OpenAI!BothStopped(OpenAI!Opened) \in OpenAI!Client
    BY <1>1, OpenAIHelpersType
  <2>5. reader' \in OpenAI!Client
    <3>1. OpenAI!BlockStart(OpenAI!BothStopped(OpenAI!Opened), OpenAI!BlockOf(i), "tool")
            \in OpenAI!Client
      BY <1>k, <2>1, <2>4, OpenAIEventsType
    <3>2. CASE OpenAI!NamedCall(i)
      BY <3>1, <3>2 DEF OpenAI!NamedCall
    <3>3. CASE OpenAI!CallGoesOn(i)
      BY <1>1, <3>3 DEF OpenAI!CallGoesOn
    <3>. QED
      BY <1>5, <3>2, <3>3
  <2>6. thinking' \in Nat \cup {NoBlock} /\ text' \in Nat \cup {NoBlock}
    BY <1>1, <1>5 DEF OpenAI!NamedCall, OpenAI!CallGoesOn
  <2>7. \E why \in SUBSET {"renamed"} : OpenAI!Translated(why)
    BY <1>5 DEF OpenAI!NamedCall, OpenAI!CallGoesOn
  <2>. QED
    BY <1>2, <2>3, <2>5, <2>6, <2>7 DEF OpenAI!TypeOK
<1>6. ASSUME OpenAI!StopAll
      PROVE  /\ thinking' \in Nat \cup {NoBlock} /\ text' \in Nat \cup {NoBlock}
             /\ tools' \in [ToolIndex -> Nat \cup {NoBlock}] /\ called' = called /\ free' = free
             /\ stopped' = TRUE
  BY <1>1, <1>6 DEF OpenAI!StopAll
<1>7. OpenAI!Unnameable \subseteq {"unnamed"}
  BY DEF OpenAI!Unnameable
<1>8. CASE OpenAI!Finish
  <2>1. reader' \in OpenAI!Client
    BY <1>1, <1>8, OpenAIHelpersType DEF OpenAI!Finish
  <2>2. {started, finished, stopped, deltaSent, stopSent, over}' \subseteq BOOLEAN
        /\ slips' \subseteq {"late", "renamed", "unnamed", "cut", "usageAgain"}
    BY <1>1, <1>6, <1>7, <1>8 DEF OpenAI!Finish
  <2>. QED
    BY <1>1, <1>6, <1>8, <2>1, <2>2 DEF OpenAI!Finish, OpenAI!TypeOK
<1>9. CASE OpenAI!UsageComes
  <2>1. OpenAI!MessageDelta(reader) \in OpenAI!Client
    BY <1>1, <1>k, OpenAIEventsType
  <2>2. reader' \in OpenAI!Client
    BY <1>9, <2>1, OpenAIHelpersType DEF OpenAI!UsageComes
  <2>3. {started, finished, stopped, deltaSent, stopSent, over}' \subseteq BOOLEAN
        /\ slips' \subseteq {"late", "renamed", "unnamed", "cut", "usageAgain"}
    BY <1>1, <1>9 DEF OpenAI!UsageComes
  <2>. QED
    BY <1>1, <1>9, <2>2, <2>3 DEF OpenAI!UsageComes, OpenAI!TypeOK, OpenAI!blocks
<1>10. CASE OpenAI!Done
  <2>1. OpenAI!AllStopped(reader) \in OpenAI!Client
    BY <1>1, OpenAIHelpersType
  <2>2. OpenAI!MessageDelta(OpenAI!AllStopped(reader)) \in OpenAI!Client
    BY <1>k, <2>1, OpenAIEventsType
  <2>3. reader' \in OpenAI!Client
    BY <1>10, <2>1, <2>2, OpenAIHelpersType DEF OpenAI!Done
  <2>4. {started, finished, stopped, deltaSent, stopSent, over}' \subseteq BOOLEAN
    BY <1>1, <1>6, <1>10 DEF OpenAI!Done
  <2>5. slips' \subseteq {"late", "renamed", "unnamed", "cut", "usageAgain"}
    <3>. DEFINE cut == IF finished THEN {} ELSE {"cut"}
    <3>1. slips' = slips \cup OpenAI!Unnameable \cup cut
      BY <1>10 DEF OpenAI!Done
    <3>2. cut \subseteq {"cut"}
      OBVIOUS
    <3>. HIDE DEF cut
    <3>. QED
      BY <1>1, <1>7, <3>1, <3>2
  <2>. QED
    BY <1>1, <1>6, <1>10, <2>3, <2>4, <2>5 DEF OpenAI!Done, OpenAI!TypeOK
<1>. QED
  BY <1>3, <1>4, <1>5, <1>8, <1>9, <1>10 DEF OpenAI!Next

\* A block that is open is stopped.
LEMMA StopsBlock ==
  ASSUME NEW c \in OpenAI!Client, NEW i \in Nat \cup {NoBlock}, c.stage = "begun", ~c.broken,
         i # NoBlock => \E k \in OpenAI!Kind : <<i, k>> \in c.open
  PROVE  /\ OpenAI!StopBlock(c, i).stage = "begun" /\ ~OpenAI!StopBlock(c, i).broken
         /\ OpenAI!StopBlock(c, i).used = c.used
         /\ OpenAI!StopBlock(c, i).open = {b \in c.open : b[1] # i}
<1>1. CASE i = NoBlock
  <2>1. \A b \in c.open : b[1] # NoBlock
    BY ServiceParameters DEF ServiceParameters, OpenAI!OpenAIParameters, OpenAI!Client
  <2>2. {b \in c.open : b[1] # i} = c.open
    BY <1>1, <2>1
  <2>. QED
    BY <1>1, <2>2 DEF OpenAI!StopBlock
<1>2. CASE i # NoBlock
  <2>1. OpenAI!StopBlock(c, i) =
          [c EXCEPT !.open = {b \in c.open : b[1] # i},
                    !.broken = c.broken \/ c.stage # "begun" \/ \A b \in c.open : b[1] # i]
    BY <1>2 DEF OpenAI!StopBlock, OpenAI!BlockStop
  <2>2. ~\A b \in c.open : b[1] # i
    BY <1>2
  <2>. QED
    BY <2>1, <2>2 DEF OpenAI!Client
<1>. QED
  BY <1>1, <1>2

\* What the client has once the message is begun.
LEMMA OpenAIOpened ==
  ASSUME OpenAI!TypeOK, OpenAIGood, ~finished
  PROVE  LET c == OpenAI!Opened
         IN  /\ c \in OpenAI!Client /\ c.stage = "begun" /\ ~c.broken
             /\ c.open = reader.open /\ c.used = reader.used
<1>1. OpenAI!Opened \in OpenAI!Client
  BY OpenAIHelpersType
<1>2. CASE started
  BY <1>1, <1>2 DEF OpenAIGood, OpenAI!Opened
<1>3. CASE ~started
  <2>1. OpenAI!Opened = OpenAI!MessageStart(OpenAI!NewClient) /\ reader = OpenAI!NewClient
    BY <1>3 DEF OpenAIGood, OpenAI!Opened
  <2>. QED
    BY <1>1, <2>1 DEF OpenAI!MessageStart, OpenAI!NewClient
<1>. QED
  BY <1>2, <1>3 DEF OpenAI!TypeOK

\* Before the finish reason the thinking or the text is stopped, and the calls stay open.
LEMMA StopsOne ==
  ASSUME OpenAI!OpenAIParameters, OpenAI!TypeOK, OpenAIGood, ~finished,
         NEW i \in {thinking, text}
  PROVE  LET c == OpenAI!StopBlock(OpenAI!Opened, i)
         IN  /\ c \in OpenAI!Client /\ c.stage = "begun" /\ ~c.broken /\ c.used = reader.used
             /\ c.open = {b \in reader.open : b[1] # i}
<1>1. /\ thinking \in Nat \cup {NoBlock} /\ text \in Nat \cup {NoBlock} /\ BlocksAtHand
  BY DEF OpenAI!TypeOK, OpenAIGood
<1>2. i # NoBlock => \E k \in OpenAI!Kind : <<i, k>> \in reader.open
  BY <1>1 DEF BlocksAtHand, OpenAI!Kind
<1>. DEFINE c == OpenAI!Opened
<1>3. /\ c \in OpenAI!Client /\ c.stage = "begun" /\ ~c.broken
      /\ c.open = reader.open /\ c.used = reader.used
  BY OpenAIOpened
<1>4. OpenAI!StopBlock(c, i) \in OpenAI!Client
  BY <1>3, OpenAIHelpersType
<1>5. i \in Nat \cup {NoBlock}
  BY <1>1
<1>. HIDE DEF c
<1>6. /\ OpenAI!StopBlock(c, i).stage = "begun" /\ ~OpenAI!StopBlock(c, i).broken
      /\ OpenAI!StopBlock(c, i).used = c.used
      /\ OpenAI!StopBlock(c, i).open = {b \in c.open : b[1] # i}
  BY <1>2, <1>3, <1>5, StopsBlock
<1>. QED
  BY <1>3, <1>4, <1>6 DEF c

LEMMA StopsBoth ==
  ASSUME OpenAI!OpenAIParameters, OpenAI!TypeOK, OpenAIGood, ~finished
  PROVE  LET c == OpenAI!BothStopped(OpenAI!Opened)
         IN  /\ c \in OpenAI!Client /\ c.stage = "begun" /\ ~c.broken /\ c.used = reader.used
             /\ \A n \in Nat, k \in OpenAI!Kind :
                  <<n, k>> \in c.open <=>
                    k = "tool" /\ n \in reader.used /\ \E i \in called : n = tools[i]
<1>1. /\ thinking \in Nat \cup {NoBlock} /\ text \in Nat \cup {NoBlock} /\ BlocksAtHand
      /\ NoBlock \notin Nat /\ called \subseteq ToolIndex
  BY DEF OpenAI!TypeOK, OpenAIGood, OpenAI!OpenAIParameters
<1>. DEFINE c == OpenAI!StopBlock(OpenAI!Opened, thinking)
<1>2. /\ c \in OpenAI!Client /\ c.stage = "begun" /\ ~c.broken /\ c.used = reader.used
      /\ c.open = {b \in reader.open : b[1] # thinking}
  BY StopsOne
<1>. HIDE DEF c
<1>3. text # NoBlock => \E k \in OpenAI!Kind : <<text, k>> \in c.open
  <2>1. text # NoBlock => <<text, "text">> \in reader.open /\ thinking # text
    BY <1>1 DEF BlocksAtHand, OpenAI!Kind
  <2>. QED
    BY <1>2, <2>1 DEF OpenAI!Kind
<1>4. LET d == OpenAI!StopBlock(c, text)
      IN  /\ d.stage = "begun" /\ ~d.broken /\ d.used = c.used
          /\ d.open = {b \in c.open : b[1] # text}
  BY <1>1, <1>2, <1>3, StopsBlock
<1>5. OpenAI!BothStopped(OpenAI!Opened) = OpenAI!StopBlock(c, text)
  BY DEF OpenAI!BothStopped, c
<1>6. OpenAI!BothStopped(OpenAI!Opened) \in OpenAI!Client
  BY OpenAIHelpersType
<1>7. \A n \in Nat, k \in OpenAI!Kind :
         <<n, k>> \in OpenAI!StopBlock(c, text).open <=>
           k = "tool" /\ n \in reader.used /\ \E i \in called : n = tools[i]
  <2>. SUFFICES ASSUME NEW n \in Nat, NEW k \in OpenAI!Kind
                PROVE  <<n, k>> \in OpenAI!StopBlock(c, text).open <=>
                         k = "tool" /\ n \in reader.used /\ \E i \in called : n = tools[i]
    OBVIOUS
  <2>1. <<n, k>> \in OpenAI!StopBlock(c, text).open <=>
          <<n, k>> \in reader.open /\ n # thinking /\ n # text
    BY <1>2, <1>4
  <2>2. <<n, k>> \in reader.open <=>
          \/ k = "thinking" /\ n = thinking
          \/ k = "text" /\ n = text
          \/ k = "tool" /\ n \in reader.used /\ \E i \in called : n = tools[i]
    BY <1>1 DEF BlocksAtHand
  <2>3. (\E i \in called : n = tools[i]) => n # thinking /\ n # text
    BY <1>1 DEF BlocksAtHand
  <2>. QED
    BY <2>1, <2>2, <2>3
<1>. QED
  BY <1>2, <1>4, <1>5, <1>6, <1>7

\* What a block that is started, or a delta of an open one, makes of a client.
LEMMA StartsBlock ==
  ASSUME NEW c \in OpenAI!Client, NEW i \in Nat, NEW k \in OpenAI!Kind,
         c.stage = "begun", ~c.broken, i \notin c.used
  PROVE  LET d == OpenAI!BlockStart(c, i, k)
         IN  /\ d \in OpenAI!Client /\ d.stage = "begun" /\ ~d.broken /\ d.used = c.used \cup {i}
             /\ d.open = c.open \cup {<<i, k>>}
             /\ OpenAI!BlockDelta(d, i, k) = d
<1>1. OpenAI!BlockStart(c, i, k) \in OpenAI!Client
  BY OpenAIEventsType
<1>. DEFINE d == OpenAI!BlockStart(c, i, k)
<1>2. d.stage = "begun" /\ ~d.broken /\ d.used = c.used \cup {i}
      /\ d.open = c.open \cup {<<i, k>>}
  BY DEF OpenAI!Client, OpenAI!BlockStart
<1>. HIDE DEF d
<1>3. d \in OpenAI!Client
  BY <1>1 DEF d
<1>4. OpenAI!BlockDelta(d, i, k) = d
  <2>1. OpenAI!BlockDelta(d, i, k) = [d EXCEPT !.broken = FALSE]
    BY <1>2 DEF OpenAI!BlockDelta
  <2>2. d.broken = FALSE
    BY <1>2, <1>3 DEF OpenAI!Client
  <2>. QED
    BY <1>3, <2>1, <2>2 DEF OpenAI!Client
<1>. QED
  BY <1>2, <1>3, <1>4 DEF d

LEMMA DeltaFits ==
  ASSUME NEW c \in OpenAI!Client, NEW i, NEW k, c.stage = "begun", ~c.broken, <<i, k>> \in c.open
  PROVE  OpenAI!BlockDelta(c, i, k) = c
<1>1. OpenAI!BlockDelta(c, i, k) = [c EXCEPT !.broken = FALSE]
  BY DEF OpenAI!BlockDelta
<1>2. c.broken = FALSE
  BY DEF OpenAI!Client
<1>. QED
  BY <1>1, <1>2 DEF OpenAI!Client

\* Types that the following proofs use.
LEMMA OpenAIState ==
  ASSUME OpenAI!OpenAIParameters, OpenAI!TypeOK
  PROVE  /\ reader \in OpenAI!Client /\ OpenAI!Opened \in OpenAI!Client
         /\ thinking \in Nat \cup {NoBlock} /\ text \in Nat \cup {NoBlock} /\ free \in Nat
         /\ tools \in [ToolIndex -> Nat \cup {NoBlock}] /\ called \subseteq ToolIndex
         /\ started \in BOOLEAN /\ finished \in BOOLEAN /\ stopped \in BOOLEAN
         /\ deltaSent \in BOOLEAN /\ stopSent \in BOOLEAN /\ over \in BOOLEAN
         /\ NoBlock \notin Nat
BY OpenAIHelpersType DEF OpenAI!TypeOK, OpenAI!OpenAIParameters

\* A delta before the finish reason leaves the answer to go on.
LEMMA DeltaGood ==
  ASSUME OpenAI!TypeOK, OpenAIGood, NEW why, OpenAI!Translated(why), slips' = {},
         reader'.stage = "begun", ~reader'.broken, BlocksAtHand'
  PROVE  OpenAIGood'
<1>1. ~finished /\ why = {}
  BY DEF OpenAI!Translated
<1>2. UNCHANGED <<finished, stopped, deltaSent, stopSent, over>> /\ started' = TRUE
  BY DEF OpenAI!Translated
<1>. QED
  BY <1>1, <1>2 DEF OpenAIGood

\* Reasoning stops the text and goes on with the thinking, which may be new.
LEMMA GoodReasoning ==
  ASSUME OpenAI!OpenAIParameters, OpenAI!TypeOK, OpenAIGood, slips' = {}, OpenAI!Reasoning
  PROVE  OpenAIGood'
<1>1. ~finished /\ OpenAI!Translated({}) /\ BlocksAtHand
  BY DEF OpenAI!Reasoning, OpenAI!Translated, OpenAIGood
<1>t. /\ reader \in OpenAI!Client /\ thinking \in Nat \cup {NoBlock}
      /\ text \in Nat \cup {NoBlock} /\ free \in Nat /\ NoBlock \notin Nat
      /\ called \subseteq ToolIndex /\ reader.used \subseteq Nat
  BY OpenAIState DEF OpenAI!Client
<1>. DEFINE c == OpenAI!StopBlock(OpenAI!Opened, text)
<1>2. /\ c \in OpenAI!Client /\ c.stage = "begun" /\ ~c.broken /\ c.used = reader.used
      /\ c.open = {b \in reader.open : b[1] # text}
  BY <1>1, StopsOne
<1>3. /\ text' = NoBlock /\ tools' = tools /\ called' = called
      /\ thinking = NoBlock =>
           /\ thinking' = free /\ free' = free + 1
           /\ reader' = OpenAI!BlockDelta(OpenAI!BlockStart(c, free, "thinking"), free, "thinking")
      /\ thinking # NoBlock =>
           /\ thinking' = thinking /\ free' = free
           /\ reader' = OpenAI!BlockDelta(c, thinking, "thinking")
  BY DEF OpenAI!Reasoning
<1>. HIDE DEF c
<1>4. CASE thinking = NoBlock
  <2>1. free \notin c.used
    BY <1>1, <1>2, <1>t DEF BlocksAtHand
  <2>2. /\ reader'.stage = "begun" /\ ~reader'.broken /\ reader'.used = reader.used \cup {free}
        /\ reader'.open = c.open \cup {<<free, "thinking">>}
    BY <1>2, <1>3, <1>4, <1>t, <2>1, StartsBlock DEF OpenAI!Kind
  <2>3. \A u \in reader'.used : u < free'
    BY <1>1, <1>3, <1>4, <1>t, <2>2 DEF BlocksAtHand
  <2>4. /\ \A i \in called : tools[i] < free' /\ tools[i] \notin {thinking', text'}
    BY <1>1, <1>3, <1>4, <1>t, <2>2, OpenAIState DEF BlocksAtHand
  <2>5. ASSUME NEW n \in Nat, NEW k \in OpenAI!Kind
        PROVE  <<n, k>> \in reader'.open <=>
                 \/ k = "thinking" /\ n = thinking'
                 \/ k = "text" /\ n = text'
                 \/ k = "tool" /\ n \in reader'.used /\ \E i \in called' : n = tools'[i]
    <3>1. <<n, k>> \in reader'.open <=>
            (<<n, k>> \in reader.open /\ n # text) \/ (k = "thinking" /\ n = free)
      BY <1>2, <2>2
    <3>2. <<n, k>> \in reader.open <=>
            \/ k = "thinking" /\ n = thinking
            \/ k = "text" /\ n = text
            \/ k = "tool" /\ n \in reader.used /\ \E i \in called : n = tools[i]
      BY <1>1 DEF BlocksAtHand
    <3>3. (\E i \in called : n = tools[i]) => n # text /\ n # free
      BY <1>1, <1>3, <1>4, <2>4 DEF BlocksAtHand
    <3>. QED
      BY <1>3, <1>4, <1>t, <2>2, <3>1, <3>2, <3>3
  <2>6. BlocksAtHand'
    BY <1>1, <1>3, <1>4, <1>t, <2>3, <2>4, <2>5 DEF BlocksAtHand
  <2>. QED
    BY <1>1, <2>2, <2>6, DeltaGood
<1>5. CASE thinking # NoBlock
  <2>1. text = NoBlock /\ <<thinking, "thinking">> \in reader.open
    BY <1>1, <1>5, <1>t DEF BlocksAtHand, OpenAI!Kind
  <2>2. reader' = c
    BY <1>2, <1>3, <1>5, <1>t, <2>1, DeltaFits
  <2>3. \A n \in Nat, k \in OpenAI!Kind : <<n, k>> \in reader'.open <=> <<n, k>> \in reader.open
    BY <1>2, <1>t, <2>1, <2>2
  <2>4. BlocksAtHand'
    BY <1>1, <1>2, <1>3, <1>5, <2>1, <2>2, <2>3 DEF BlocksAtHand
  <2>. QED
    BY <1>1, <1>2, <2>2, <2>4, DeltaGood
<1>. QED
  BY <1>4, <1>5

\* Content stops the thinking and goes on with the text, which may be new.
LEMMA GoodContent ==
  ASSUME OpenAI!OpenAIParameters, OpenAI!TypeOK, OpenAIGood, slips' = {}, OpenAI!Content
  PROVE  OpenAIGood'
<1>1. ~finished /\ OpenAI!Translated({}) /\ BlocksAtHand
  BY DEF OpenAI!Content, OpenAI!Translated, OpenAIGood
<1>t. /\ reader \in OpenAI!Client /\ thinking \in Nat \cup {NoBlock}
      /\ text \in Nat \cup {NoBlock} /\ free \in Nat /\ NoBlock \notin Nat
      /\ called \subseteq ToolIndex /\ reader.used \subseteq Nat
  BY OpenAIState DEF OpenAI!Client
<1>4. CASE text = NoBlock
  <2>. DEFINE c == OpenAI!StopBlock(OpenAI!Opened, thinking)
  <2>0. /\ c \in OpenAI!Client /\ c.stage = "begun" /\ ~c.broken /\ c.used = reader.used
        /\ c.open = {b \in reader.open : b[1] # thinking}
    BY <1>1, StopsOne
  <2>a. /\ text' = free /\ free' = free + 1 /\ thinking' = NoBlock
        /\ tools' = tools /\ called' = called
        /\ reader' = OpenAI!BlockDelta(OpenAI!BlockStart(c, free, "text"), free, "text")
    BY <1>4 DEF OpenAI!Content
  <2>. HIDE DEF c
  <2>1. free \notin c.used
    BY <1>1, <1>t, <2>0 DEF BlocksAtHand
  <2>2. /\ reader'.stage = "begun" /\ ~reader'.broken /\ reader'.used = reader.used \cup {free}
        /\ reader'.open = c.open \cup {<<free, "text">>}
    BY <1>t, <2>0, <2>a, <2>1, StartsBlock DEF OpenAI!Kind
  <2>3. \A u \in reader'.used : u < free'
    BY <1>1, <1>t, <2>a, <2>2 DEF BlocksAtHand
  <2>4. /\ \A i \in called : tools[i] < free' /\ tools[i] \notin {thinking', text'}
    BY <1>1, <1>t, <2>a, <2>2, OpenAIState DEF BlocksAtHand
  <2>5. ASSUME NEW n \in Nat, NEW k \in OpenAI!Kind
        PROVE  <<n, k>> \in reader'.open <=>
                 \/ k = "thinking" /\ n = thinking'
                 \/ k = "text" /\ n = text'
                 \/ k = "tool" /\ n \in reader'.used /\ \E i \in called' : n = tools'[i]
    <3>1. <<n, k>> \in reader'.open <=>
            (<<n, k>> \in reader.open /\ n # thinking) \/ (k = "text" /\ n = free)
      BY <2>0, <2>2
    <3>2. <<n, k>> \in reader.open <=>
            \/ k = "thinking" /\ n = thinking
            \/ k = "text" /\ n = text
            \/ k = "tool" /\ n \in reader.used /\ \E i \in called : n = tools[i]
      BY <1>1 DEF BlocksAtHand
    <3>3. (\E i \in called : n = tools[i]) => n # thinking /\ n # free
      BY <1>1, <2>a, <2>4 DEF BlocksAtHand
    <3>. QED
      BY <1>4, <1>t, <2>a, <2>2, <3>1, <3>2, <3>3
  <2>6. BlocksAtHand'
    BY <1>1, <1>t, <2>a, <2>3, <2>4, <2>5 DEF BlocksAtHand
  <2>. QED
    BY <1>1, <2>2, <2>6, DeltaGood
<1>5. CASE text # NoBlock
  <2>. DEFINE c == OpenAI!Opened
  <2>0. /\ c \in OpenAI!Client /\ c.stage = "begun" /\ ~c.broken
        /\ c.open = reader.open /\ c.used = reader.used
    BY <1>1, OpenAIOpened
  <2>a. /\ text' = text /\ free' = free /\ thinking' = thinking
        /\ tools' = tools /\ called' = called
        /\ reader' = OpenAI!BlockDelta(c, text, "text")
    BY <1>5 DEF OpenAI!Content
  <2>. HIDE DEF c
  <2>1. <<text, "text">> \in reader.open
    BY <1>1, <1>5, <1>t DEF BlocksAtHand, OpenAI!Kind
  <2>2. reader' = c
    BY <2>0, <2>a, <2>1, DeltaFits
  <2>4. BlocksAtHand'
    BY <1>1, <2>0, <2>a, <2>2 DEF BlocksAtHand
  <2>. QED
    BY <1>1, <2>0, <2>2, <2>4, DeltaGood
<1>. QED
  BY <1>4, <1>5

\* A call gets a block that nothing else has.
LEMMA BlockTaken ==
  ASSUME OpenAI!OpenAIParameters, OpenAI!TypeOK, BlocksAtHand, NEW i \in ToolIndex,
         OpenAI!TakesBlock(i)
  PROVE  LET m == OpenAI!BlockOf(i)
         IN  /\ m \in Nat /\ m < free' /\ m \notin {thinking, text}
             /\ free' \in Nat /\ free <= free' /\ i \in called'
             /\ OpenAI!HasBlock(i) => m = tools[i] /\ i \in called
             /\ ~OpenAI!HasBlock(i) => m \notin reader.used /\ i \notin called
             /\ tools'[i] = m /\ \A j \in ToolIndex \ {i} : tools'[j] = tools[j]
             /\ called' = called \cup {i}
             /\ \A j \in ToolIndex : tools'[j] # NoBlock <=> j \in called'
             /\ \A j \in called' : tools'[j] \in Nat /\ tools'[j] < free'
                                   /\ tools'[j] \notin {thinking, text}
             /\ \A j, k \in called' : tools'[j] = tools'[k] => j = k
<1>t. /\ thinking \in Nat \cup {NoBlock} /\ text \in Nat \cup {NoBlock} /\ free \in Nat
      /\ tools \in [ToolIndex -> Nat \cup {NoBlock}] /\ called \subseteq ToolIndex
      /\ NoBlock \notin Nat
  BY OpenAIState
<1>. DEFINE m == OpenAI!BlockOf(i)
<1>1. \A j \in called : tools[j] \in Nat /\ tools[j] < free
                        /\ tools[j] \notin {thinking, text}
  BY <1>t DEF BlocksAtHand
<1>2. /\ OpenAI!HasBlock(i) => m = tools[i] /\ i \in called
      /\ ~OpenAI!HasBlock(i) => m = free /\ i \notin called
  BY DEF OpenAI!HasBlock, OpenAI!BlockOf, BlocksAtHand
<1>3. /\ free' = IF OpenAI!HasBlock(i) THEN free ELSE free + 1
      /\ called' = called \cup {i} /\ tools' = [tools EXCEPT ![i] = m]
  BY DEF OpenAI!TakesBlock
<1>. HIDE DEF m
<1>4. /\ m \in Nat /\ m < free' /\ free' \in Nat /\ free <= free'
      /\ (~OpenAI!HasBlock(i) => free < free')
  BY <1>t, <1>1, <1>2, <1>3
<1>5. m \notin {thinking, text}
  BY <1>t, <1>1, <1>2 DEF BlocksAtHand
<1>6. ~OpenAI!HasBlock(i) => m \notin reader.used
  BY <1>t, <1>2 DEF BlocksAtHand
<1>7. tools'[i] = m /\ \A j \in ToolIndex \ {i} : tools'[j] = tools[j]
  BY <1>t, <1>3
<1>8. \A j \in ToolIndex : tools'[j] # NoBlock <=> j \in called'
  BY <1>t, <1>3, <1>4, <1>7 DEF BlocksAtHand
<1>9. \A j \in called' : tools'[j] \in Nat /\ tools'[j] < free'
                         /\ tools'[j] \notin {thinking, text}
  <2>. SUFFICES ASSUME NEW j \in called' PROVE tools'[j] \in Nat /\ tools'[j] < free'
                                               /\ tools'[j] \notin {thinking, text}
    OBVIOUS
  <2>1. CASE j = i
    BY <1>4, <1>5, <1>7, <2>1
  <2>2. CASE j # i
    <3>1. j \in called /\ tools'[j] = tools[j]
      BY <1>t, <1>3, <1>7, <2>2
    <3>. QED
      BY <1>t, <1>1, <1>4, <3>1
  <2>. QED
    BY <2>1, <2>2
<1>10. \A j \in called : j # i => tools[j] # m
  BY <1>t, <1>1, <1>2 DEF BlocksAtHand
<1>11. \A j, k \in called' : tools'[j] = tools'[k] => j = k
  BY <1>t, <1>3, <1>7, <1>10 DEF BlocksAtHand
<1>. QED
  BY <1>2, <1>3, <1>4, <1>5, <1>6, <1>7, <1>8, <1>9, <1>11 DEF m

\* A call that is named starts its block, and thinking and text stop.
LEMMA GoodNamedCall ==
  ASSUME OpenAI!OpenAIParameters, OpenAI!TypeOK, OpenAIGood, slips' = {},
         NEW i \in ToolIndex, OpenAI!NamedCall(i)
  PROVE  OpenAIGood'
<1>1. ~finished /\ OpenAI!TakesBlock(i) /\ BlocksAtHand
      /\ ~(OpenAI!HasBlock(i) /\ OpenAI!BlockOf(i) \in reader.used)
  BY DEF OpenAI!NamedCall, OpenAI!Translated, OpenAIGood
<1>t. /\ reader \in OpenAI!Client /\ free \in Nat /\ NoBlock \notin Nat
      /\ called \subseteq ToolIndex /\ reader.used \subseteq Nat
  BY OpenAIState DEF OpenAI!Client
<1>. DEFINE c == OpenAI!BothStopped(OpenAI!Opened)
            m == OpenAI!BlockOf(i)
<1>2. /\ c \in OpenAI!Client /\ c.stage = "begun" /\ ~c.broken /\ c.used = reader.used
      /\ \A n \in Nat, k \in OpenAI!Kind :
           <<n, k>> \in c.open <=>
             k = "tool" /\ n \in reader.used /\ \E j \in called : n = tools[j]
  BY <1>1, StopsBoth
<1>3. /\ thinking' = NoBlock /\ text' = NoBlock
      /\ reader' = OpenAI!BlockStart(c, m, "tool")
      /\ OpenAI!Translated(IF OpenAI!HasBlock(i) /\ m \in reader.used THEN {"renamed"} ELSE {})
  BY DEF OpenAI!NamedCall
<1>4. /\ m \in Nat /\ m < free' /\ free' \in Nat /\ free <= free' /\ i \in called'
      /\ OpenAI!HasBlock(i) => m = tools[i] /\ i \in called
      /\ ~OpenAI!HasBlock(i) => m \notin reader.used /\ i \notin called
      /\ tools'[i] = m /\ (\A j \in ToolIndex \ {i} : tools'[j] = tools[j])
      /\ called' = called \cup {i}
      /\ (\A j \in ToolIndex : tools'[j] # NoBlock <=> j \in called')
      /\ (\A j \in called' : tools'[j] \in Nat /\ tools'[j] < free')
      /\ (\A j, k \in called' : tools'[j] = tools'[k] => j = k)
  BY <1>1, BlockTaken
<1>5. m \notin c.used
  BY <1>1, <1>2, <1>4
<1>. HIDE DEF c, m
<1>6. /\ reader'.stage = "begun" /\ ~reader'.broken /\ reader'.used = reader.used \cup {m}
      /\ reader'.open = c.open \cup {<<m, "tool">>}
  BY <1>2, <1>3, <1>4, <1>5, StartsBlock DEF OpenAI!Kind
<1>7. \A u \in reader'.used : u < free'
  BY <1>1, <1>t, <1>4, <1>6 DEF BlocksAtHand
<1>8. ASSUME NEW n \in Nat, NEW k \in OpenAI!Kind
      PROVE  <<n, k>> \in reader'.open <=>
               k = "tool" /\ n \in reader'.used /\ \E j \in called' : n = tools'[j]
  <2>1. <<n, k>> \in reader'.open <=>
          \/ k = "tool" /\ n \in reader.used /\ (\E j \in called : n = tools[j])
          \/ k = "tool" /\ n = m
    BY <1>2, <1>6
  <2>2. (\E j \in called : n = tools[j]) => \E j \in called' : n = tools'[j]
    BY <1>t, <1>4
  <2>3. (\E j \in called' : n = tools'[j]) => n = m \/ \E j \in called : n = tools[j]
    BY <1>t, <1>4
  <2>. QED
    BY <1>4, <1>6, <2>1, <2>2, <2>3
<1>9. BlocksAtHand'
  <2>1. \A j \in called' : tools'[j] < free' /\ tools'[j] \notin {thinking', text'}
    BY <1>t, <1>3, <1>4
  <2>2. \A n \in Nat, k \in OpenAI!Kind : n # thinking' /\ n # text'
    BY <1>t, <1>3
  <2>. QED
    BY <1>3, <1>4, <1>7, <1>8, <2>1, <2>2 DEF BlocksAtHand
<1>. QED
  BY <1>3, <1>6, <1>9, DeltaGood

\* A call that goes on, or whose name has not come yet, starts nothing.
LEMMA GoodCallGoesOn ==
  ASSUME OpenAI!OpenAIParameters, OpenAI!TypeOK, OpenAIGood, slips' = {},
         NEW i \in ToolIndex, OpenAI!CallGoesOn(i)
  PROVE  OpenAIGood'
<1>1. ~finished /\ OpenAI!TakesBlock(i) /\ BlocksAtHand /\ OpenAI!Translated({})
  BY DEF OpenAI!CallGoesOn, OpenAI!Translated, OpenAIGood
<1>t. /\ reader \in OpenAI!Client /\ free \in Nat /\ NoBlock \notin Nat
      /\ called \subseteq ToolIndex /\ reader.used \subseteq Nat
      /\ thinking \in Nat \cup {NoBlock} /\ text \in Nat \cup {NoBlock}
  BY OpenAIState DEF OpenAI!Client
<1>. DEFINE m == OpenAI!BlockOf(i)
<1>2. /\ reader'.stage = "begun" /\ ~reader'.broken
      /\ reader'.open = reader.open /\ reader'.used = reader.used
      /\ thinking' = thinking /\ text' = text
  BY <1>1, OpenAIOpened DEF OpenAI!CallGoesOn
<1>4. /\ m \in Nat /\ m < free' /\ free' \in Nat /\ free <= free' /\ i \in called'
      /\ OpenAI!HasBlock(i) => m = tools[i] /\ i \in called
      /\ ~OpenAI!HasBlock(i) => m \notin reader.used /\ i \notin called
      /\ tools'[i] = m /\ (\A j \in ToolIndex \ {i} : tools'[j] = tools[j])
      /\ called' = called \cup {i}
      /\ (\A j \in ToolIndex : tools'[j] # NoBlock <=> j \in called')
      /\ (\A j \in called' : tools'[j] \in Nat /\ tools'[j] < free'
                             /\ tools'[j] \notin {thinking, text})
      /\ (\A j, k \in called' : tools'[j] = tools'[k] => j = k)
  BY <1>1, BlockTaken
<1>. HIDE DEF m
<1>5. /\ \A u \in reader'.used : u < free'
      /\ (thinking' # NoBlock => thinking' < free' /\ text' = NoBlock)
      /\ (text' # NoBlock => text' < free')
  BY <1>1, <1>t, <1>2, <1>4 DEF BlocksAtHand
<1>6. ASSUME NEW n \in reader.used
      PROVE  (\E j \in called' : n = tools'[j]) <=> \E j \in called : n = tools[j]
  BY <1>t, <1>4
<1>7. BlocksAtHand'
  <2>1. \A j \in called' : tools'[j] < free' /\ tools'[j] \notin {thinking', text'}
    BY <1>t, <1>2, <1>4
  <2>2. ASSUME NEW n \in Nat, NEW k \in OpenAI!Kind
        PROVE  <<n, k>> \in reader'.open <=>
                 \/ k = "thinking" /\ n = thinking'
                 \/ k = "text" /\ n = text'
                 \/ k = "tool" /\ n \in reader'.used /\ \E j \in called' : n = tools'[j]
    <3>1. <<n, k>> \in reader.open <=>
            \/ k = "thinking" /\ n = thinking
            \/ k = "text" /\ n = text
            \/ k = "tool" /\ n \in reader.used /\ \E j \in called : n = tools[j]
      BY <1>1 DEF BlocksAtHand
    <3>. QED
      BY <1>2, <1>6, <3>1
  <2>. QED
    BY <1>4, <1>5, <2>1, <2>2 DEF BlocksAtHand
<1>. QED
  BY <1>1, <1>2, <1>7, DeltaGood

\* Once nothing is open, there is nothing to stop.
LEMMA StopsNothing ==
  ASSUME thinking = NoBlock, text = NoBlock, NEW c
  PROVE  OpenAI!BothStopped(c) = c
BY DEF OpenAI!BothStopped, OpenAI!StopBlock

\* The calls that are open are stopped, and no block is left.
LEMMA StopsCalls ==
  ASSUME OpenAI!OpenAIParameters, OpenAI!TypeOK, OpenAIGood, ~finished, ~OpenAI!Unnamed
  PROVE  LET c == OpenAI!ToolsStopped(OpenAI!BothStopped(OpenAI!Opened))
         IN  c.stage = "begun" /\ ~c.broken /\ c.open = {}
<1>. DEFINE c == OpenAI!BothStopped(OpenAI!Opened)
            open == {tools[i] : i \in called}
<1>1. /\ c \in OpenAI!Client /\ c.stage = "begun" /\ ~c.broken
      /\ \A n \in Nat, k \in OpenAI!Kind :
           <<n, k>> \in c.open <=>
             k = "tool" /\ n \in reader.used /\ \E i \in called : n = tools[i]
  BY StopsBoth
<1>2. \A n \in open : n \in reader.used /\ n \in Nat
  BY OpenAIState DEF OpenAI!Unnamed, OpenAI!Client
<1>3. OpenAI!ToolsStopped(c) =
        [c EXCEPT !.open = {b \in c.open : b[1] \notin open},
                  !.broken = c.broken \/ \E n \in open : <<n, "tool">> \notin c.open]
  BY DEF OpenAI!ToolsStopped
<1>4. ~\E n \in open : <<n, "tool">> \notin c.open
  BY <1>1, <1>2 DEF OpenAI!Kind
<1>5. \A b \in c.open : b[1] \in open
  <2>. SUFFICES ASSUME NEW b \in c.open PROVE b[1] \in open
    OBVIOUS
  <2>1. PICK n \in Nat, k \in OpenAI!Kind : b = <<n, k>>
    BY <1>1 DEF OpenAI!Client
  <2>. QED
    BY <1>1, <2>1
<1>. HIDE DEF c, open
<1>6. {b \in c.open : b[1] \notin open} = {}
  BY <1>5
<1>7. OpenAI!ToolsStopped(c).stage = "begun" /\ ~OpenAI!ToolsStopped(c).broken
      /\ OpenAI!ToolsStopped(c).open = {}
  BY <1>1, <1>3, <1>4, <1>6 DEF OpenAI!Client
<1>. QED
  BY <1>7 DEF c

\* The finish reason stops every block.
LEMMA GoodFinish ==
  ASSUME OpenAI!OpenAIParameters, OpenAI!TypeOK, OpenAIGood, slips' = {}, OpenAI!Finish
  PROVE  OpenAIGood'
<1>1. /\ finished' = TRUE /\ stopped' = TRUE /\ started' = TRUE /\ thinking' = NoBlock
      /\ text' = NoBlock /\ reader' = OpenAI!AllStopped(OpenAI!Opened)
      /\ UNCHANGED <<deltaSent, stopSent, over>> /\ OpenAI!Unnameable = {}
  BY DEF OpenAI!Finish, OpenAI!StopAll
<1>2. CASE finished
  <2>1. /\ thinking = NoBlock /\ text = NoBlock /\ stopped /\ started
        /\ OpenAI!Opened = reader
    BY <1>2 DEF OpenAIGood, OpenAI!Opened
  <2>2. reader' = reader
    BY <1>1, <2>1, StopsNothing DEF OpenAI!AllStopped
  <2>. QED
    BY <1>1, <1>2, <2>1, <2>2 DEF OpenAIGood
<1>3. CASE ~finished
  <2>1. ~stopped /\ ~deltaSent
    BY <1>3, OpenAIState DEF OpenAIGood
  <2>2. ~OpenAI!Unnamed
    BY <1>1, <2>1 DEF OpenAI!Unnameable
  <2>3. reader'.stage = "begun" /\ ~reader'.broken /\ reader'.open = {}
    BY <1>1, <1>3, <2>1, <2>2, StopsCalls DEF OpenAI!AllStopped
  <2>. QED
    BY <1>1, <1>3, <2>1, <2>3 DEF OpenAIGood
<1>. QED
  BY <1>2, <1>3

\* The end of a message that was begun and has no block open.
LEMMA MessageEnds ==
  ASSUME NEW c \in OpenAI!Client, c.stage = "begun", ~c.broken, c.open = {}
  PROVE  LET d == OpenAI!MessageStop(OpenAI!MessageDelta(c))
         IN  d.stage = "over" /\ ~d.broken /\ d.open = {}
<1>. DEFINE e == OpenAI!MessageDelta(c)
<1>1. e \in OpenAI!Client
  BY OpenAIEventsType DEF OpenAI!Kind
<1>2. e.stage = "closing" /\ ~e.broken /\ e.open = {}
  BY DEF OpenAI!MessageDelta, OpenAI!Client
<1>. HIDE DEF e
<1>3. /\ OpenAI!MessageStop(e).stage = "over" /\ ~OpenAI!MessageStop(e).broken
      /\ OpenAI!MessageStop(e).open = {}
  BY <1>1, <1>2 DEF OpenAI!MessageStop, OpenAI!Client
<1>. QED
  BY <1>3 DEF e

\* Usage ends the message.
LEMMA GoodUsageComes ==
  ASSUME OpenAI!OpenAIParameters, OpenAI!TypeOK, OpenAIGood, slips' = {}, OpenAI!UsageComes
  PROVE  OpenAIGood'
<1>1. /\ finished /\ ~deltaSent /\ ~stopSent
  BY OpenAIState DEF OpenAI!UsageComes, OpenAIGood
<1>2. /\ started /\ reader.stage = "begun" /\ ~reader.broken /\ reader.open = {}
      /\ thinking = NoBlock /\ text = NoBlock
  BY <1>1 DEF OpenAIGood
<1>3. reader' = OpenAI!MessageStop(OpenAI!MessageDelta(reader))
  BY <1>1 DEF OpenAI!UsageComes, OpenAI!Ended
<1>4. reader'.stage = "over" /\ ~reader'.broken /\ reader'.open = {}
  BY <1>2, <1>3, OpenAIState, MessageEnds
<1>5. /\ deltaSent' = TRUE /\ stopSent' = TRUE
      /\ UNCHANGED <<started, thinking, text, finished, stopped, over>>
  BY DEF OpenAI!UsageComes, OpenAI!blocks
<1>. QED
  BY <1>1, <1>2, <1>4, <1>5 DEF OpenAIGood

\* "[DONE]" ends what usage has not ended.
LEMMA GoodDone ==
  ASSUME OpenAI!OpenAIParameters, OpenAI!TypeOK, OpenAIGood, slips' = {}, OpenAI!Done
  PROVE  OpenAIGood'
<1>1. finished
  BY DEF OpenAI!Done
<1>2. /\ started /\ ~reader.broken /\ reader.open = {} /\ stopped
      /\ reader.stage = (IF deltaSent THEN "over" ELSE "begun")
      /\ thinking = NoBlock /\ text = NoBlock
  BY <1>1 DEF OpenAIGood
<1>3. OpenAI!AllStopped(reader) = reader
  BY <1>2, StopsNothing DEF OpenAI!AllStopped
<1>4. reader' = OpenAI!Ended(IF finished /\ ~deltaSent THEN OpenAI!MessageDelta(reader)
                             ELSE reader)
  BY <1>3 DEF OpenAI!Done
<1>5. reader'.stage = "over" /\ ~reader'.broken /\ reader'.open = {}
  <2>1. CASE deltaSent
    BY <1>2, <1>4, <2>1 DEF OpenAI!Ended, OpenAIGood
  <2>2. CASE ~deltaSent
    <3>1. ~stopSent
      BY <2>2, OpenAIState DEF OpenAIGood
    <3>2. reader' = OpenAI!MessageStop(OpenAI!MessageDelta(reader))
      BY <1>1, <1>4, <2>2, <3>1 DEF OpenAI!Ended
    <3>. QED
      BY <1>2, <2>2, <3>2, OpenAIState, MessageEnds
  <2>. QED
    BY <2>1, <2>2
<1>6. /\ deltaSent' = TRUE /\ stopSent' = TRUE /\ over' = TRUE /\ stopped' = TRUE
      /\ thinking' = NoBlock /\ text' = NoBlock /\ UNCHANGED <<started, finished>>
  BY <1>1 DEF OpenAI!Done, OpenAI!StopAll
<1>. QED
  BY <1>1, <1>2, <1>5, <1>6 DEF OpenAIGood

-----------------------------------------------------------------------------
(* The theorems of these answers. *)

LEMMA OpenAIInvInit == ASSUME OpenAI!OpenAIParameters, OpenAI!Init PROVE OpenAIInv
<1>1. OpenAI!NewClient \in OpenAI!Client
  BY DEF OpenAI!NewClient, OpenAI!Client, OpenAI!Stage
<1>2. OpenAI!TypeOK
  BY <1>1 DEF OpenAI!Init, OpenAI!TypeOK
<1>3. /\ ~reader.broken /\ reader.open = {} /\ reader.used = {}
      /\ \A i \in ToolIndex : tools[i] = NoBlock
  BY DEF OpenAI!Init, OpenAI!NewClient
<1>4. BlocksAtHand
  BY <1>3 DEF BlocksAtHand, OpenAI!Init, OpenAI!OpenAIParameters
<1>5. OpenAIGood
  BY <1>3, <1>4 DEF OpenAIGood, OpenAI!Init
<1>. QED
  BY <1>2, <1>5 DEF OpenAIInv

LEMMA OpenAIInvNext ==
  ASSUME OpenAI!OpenAIParameters, OpenAIInv, OpenAI!Next PROVE OpenAIInv'
<1>1. OpenAI!TypeOK /\ OpenAI!TypeOK'
  BY OpenAITypeNext DEF OpenAIInv
<1>2. slips \subseteq slips'
  BY DEF OpenAI!Next, OpenAI!Reasoning, OpenAI!Content, OpenAI!NamedCall, OpenAI!CallGoesOn,
         OpenAI!Translated, OpenAI!Finish, OpenAI!UsageComes, OpenAI!Done
<1>3. ASSUME slips' = {} PROVE OpenAIGood'
  <2>1. OpenAIGood
    BY <1>2, <1>3 DEF OpenAIInv
  <2>. QED
    BY <1>1, <1>3, <2>1, GoodReasoning, GoodContent, GoodNamedCall, GoodCallGoesOn, GoodFinish,
       GoodUsageComes, GoodDone DEF OpenAI!Next
<1>. QED
  BY <1>1, <1>3 DEF OpenAIInv

LEMMA OpenAIInvStay == ASSUME OpenAIInv, UNCHANGED openai PROVE OpenAIInv'
BY DEF openai, OpenAIInv, OpenAIGood, BlocksAtHand, OpenAI!TypeOK

LEMMA OpenAISteps == ASSUME [ServicesNext]_serviceVars PROVE OpenAI!Next \/ UNCHANGED openai
BY DEF ServicesNext, serviceVars

\* What the translation of an answer of OpenAI needs to be right in every state
\* (ConvertOpenAIResponseToClaude).
THEOREM OpenAIAlways == ServicesSpec => []OpenAIInv
<1>1. ServicesInit => OpenAIInv
  BY ServiceParameters, OpenAIInvInit DEF ServicesInit, ServiceParameters
<1>2. OpenAIInv /\ [ServicesNext]_serviceVars => OpenAIInv'
  BY ServiceParameters, OpenAIInvNext, OpenAIInvStay, OpenAISteps DEF ServiceParameters
<1>. QED
  BY <1>1, <1>2, PTL DEF ServicesSpec, serviceVars

\* Whatever an answer consists of, a Claude client can place every event, and the answer
\* is ended, unless the provider did what the translator cannot tell
\* (ConvertOpenAIResponseToClaude).
THEOREM OpenAIAnswersAreWellFormed == ServicesSpec => []OpenAIAnswerWellFormed
<1>1. OpenAIInv => OpenAI!AnswerWellFormed
  BY OpenAIState DEF OpenAIInv, OpenAIGood, OpenAI!AnswerWellFormed
<1>2. OpenAIInv => OpenAIAnswerWellFormed
  BY <1>1 DEF OpenAIAnswerWellFormed
<1>. QED
  BY <1>2, OpenAIAlways, PTL

-----------------------------------------------------------------------------
(* Answers of Gemini's API for Claude clients.  What acts here is GeminiToClaude, of which  *)
(* GeminiToClaudeProofs proves the theorems.                                     *)

GeminiAnswers ==
  INSTANCE GeminiToClaudeProofs WITH
    client <- claude, usage <- counted, done <- ended, excuses <- mishaps

LEMMA GeminiSame ==
  /\ Gemini!Init <=> GeminiAnswers!Init
  /\ Gemini!Next <=> GeminiAnswers!Next
  /\ Gemini!TypeOK <=> GeminiAnswers!TypeOK
  /\ Gemini!AnswerWellFormed <=> GeminiAnswers!AnswerWellFormed
<1>1. Gemini!AnswerWellFormed <=> GeminiAnswers!AnswerWellFormed
  BY DEF Gemini!AnswerWellFormed, GeminiAnswers!AnswerWellFormed
<1>2. Gemini!Kind = GeminiAnswers!Kind /\ Gemini!Stage = GeminiAnswers!Stage
      /\ Gemini!NewClient = GeminiAnswers!NewClient
      /\ Gemini!Dialect = GeminiAnswers!Dialect /\ Gemini!Usage = GeminiAnswers!Usage
  BY DEF Gemini!Kind, GeminiAnswers!Kind, Gemini!Stage, GeminiAnswers!Stage, Gemini!NewClient,
         GeminiAnswers!NewClient, Gemini!Dialect, GeminiAnswers!Dialect, Gemini!Usage,
         GeminiAnswers!Usage
<1>3. Gemini!TypeOK <=> GeminiAnswers!TypeOK
  BY <1>2 DEF Gemini!TypeOK, GeminiAnswers!TypeOK, Gemini!Client, GeminiAnswers!Client
<1>4. Gemini!Init <=> GeminiAnswers!Init
  BY <1>2 DEF Gemini!Init, GeminiAnswers!Init
<1>5. \A c, i, k :
        /\ Gemini!MessageStart(c) = GeminiAnswers!MessageStart(c)
        /\ Gemini!BlockStart(c, i, k) = GeminiAnswers!BlockStart(c, i, k)
        /\ Gemini!BlockDelta(c, i, k) = GeminiAnswers!BlockDelta(c, i, k)
        /\ Gemini!BlockStop(c, i) = GeminiAnswers!BlockStop(c, i)
        /\ Gemini!MessageDelta(c) = GeminiAnswers!MessageDelta(c)
        /\ Gemini!MessageStop(c) = GeminiAnswers!MessageStop(c)
  BY DEF Gemini!MessageStart, GeminiAnswers!MessageStart, Gemini!BlockStart,
         GeminiAnswers!BlockStart, Gemini!BlockDelta, GeminiAnswers!BlockDelta,
         Gemini!BlockStop, GeminiAnswers!BlockStop, Gemini!MessageDelta,
         GeminiAnswers!MessageDelta, Gemini!MessageStop, GeminiAnswers!MessageStop
<1>6. /\ Gemini!Opened = GeminiAnswers!Opened /\ Gemini!Free = GeminiAnswers!Free
      /\ \A c : Gemini!FinalEvents(c) = GeminiAnswers!FinalEvents(c)
                /\ Gemini!Closed(c) = GeminiAnswers!Closed(c)
  BY <1>5 DEF Gemini!Opened, GeminiAnswers!Opened, Gemini!Free, GeminiAnswers!Free,
              Gemini!FinalEvents, GeminiAnswers!FinalEvents, Gemini!Closed,
              GeminiAnswers!Closed
<1>7. /\ Gemini!Translated <=> GeminiAnswers!Translated
      /\ \A r : Gemini!Excused(r) <=> GeminiAnswers!Excused(r)
  BY DEF Gemini!Translated, GeminiAnswers!Translated, Gemini!Excused, GeminiAnswers!Excused,
         Gemini!Late, GeminiAnswers!Late
<1>8. /\ Gemini!Continue <=> GeminiAnswers!Continue
      /\ \A k : Gemini!Switch(k) <=> GeminiAnswers!Switch(k)
  BY <1>5, <1>6 DEF Gemini!Continue, GeminiAnswers!Continue, Gemini!Switch,
                    GeminiAnswers!Switch
<1>9. /\ Gemini!Thought <=> GeminiAnswers!Thought
      /\ Gemini!Signature <=> GeminiAnswers!Signature
      /\ Gemini!Text <=> GeminiAnswers!Text
      /\ Gemini!FunctionCall <=> GeminiAnswers!FunctionCall
      /\ Gemini!CallGoesOn <=> GeminiAnswers!CallGoesOn
  BY <1>5, <1>6, <1>7, <1>8
     DEF Gemini!Thought, GeminiAnswers!Thought, Gemini!Signature, GeminiAnswers!Signature,
         Gemini!Text, GeminiAnswers!Text, Gemini!FunctionCall, GeminiAnswers!FunctionCall,
         Gemini!CallGoesOn, GeminiAnswers!CallGoesOn
<1>10. Gemini!BlankText <=> GeminiAnswers!BlankText
  BY <1>6, <1>7, <1>8, <1>9 DEF Gemini!BlankText, GeminiAnswers!BlankText
<1>11. /\ Gemini!LastChunk <=> GeminiAnswers!LastChunk
       /\ Gemini!Done <=> GeminiAnswers!Done
       /\ \A u : Gemini!EndOfChunk(u) <=> GeminiAnswers!EndOfChunk(u)
  BY <1>5, <1>6, <1>7
     DEF Gemini!LastChunk, GeminiAnswers!LastChunk, Gemini!Done, GeminiAnswers!Done,
         Gemini!EndOfChunk, GeminiAnswers!EndOfChunk
<1>12. Gemini!Next <=> GeminiAnswers!Next
  BY <1>2, <1>9, <1>10, <1>11 DEF Gemini!Next, GeminiAnswers!Next
<1>. QED
  BY <1>1, <1>3, <1>4, <1>12

\* An answer of Gemini's goes on as GeminiToClaude says.
LEMMA GeminiBehaves == ServicesSpec => GeminiAnswers!Spec
<1>1. ServicesInit => GeminiAnswers!Init
  BY GeminiSame DEF ServicesInit
<1>2. [ServicesNext]_serviceVars => [GeminiAnswers!Next]_(GeminiAnswers!vars)
  BY GeminiSame DEF ServicesNext, serviceVars, gemini, GeminiAnswers!vars
<1>. QED
  BY <1>1, <1>2, PTL DEF ServicesSpec, serviceVars, GeminiAnswers!Spec

\* Every Gemini answer reaches the Claude client as events it can place, and is ended
\* (ConvertGeminiResponseToClaude), also while the other components work.
THEOREM GeminiAnswersFit == ServicesSpec => []GeminiAnswerWellFormed
<1>1. GeminiAnswers!AnswerWellFormed => GeminiAnswerWellFormed
  BY GeminiSame DEF GeminiAnswerWellFormed
<1>. QED
  BY <1>1, GeminiBehaves, GeminiAnswers!GeminiAnswersAreWellFormed, PTL

-----------------------------------------------------------------------------
(* The calls of a session, of which RelayRequestsProofs proves the theorems, and the *)
(* whole.                                                                       *)

\* The calls of a session go on as RelayRequests says.
LEMMA CallsBehave == ServicesSpec => Spec
<1>1. ServicesInit => Init
  BY DEF ServicesInit
<1>2. [ServicesNext]_serviceVars => [Next]_vars
  BY DEF ServicesNext, serviceVars
<1>. QED
  BY <1>1, <1>2, PTL DEF ServicesSpec, serviceVars, Spec

\* Of every component that acts, the state has its type.
THEOREM PartsTypeCorrect == ServicesSpec => []PartTypeOK
<1>. DEFINE Parts == {"usage", "logins", "calls", "connections", "tokens", "gemini", "openai",
                      "config"}
            Types == /\ Usage!TypeOK /\ Logins!TypeOK /\ Connections!TypeOK /\ Tokens!TypeOK
                     /\ OpenAI!TypeOK /\ Config!TypeOK
            Acting == part \in Parts
<1>1. ServicesSpec => []Acting
  <2>1. ServicesInit => Acting
    BY DEF ServicesInit
  <2>2. Acting /\ [ServicesNext]_serviceVars => Acting'
    BY DEF ServicesNext, serviceVars
  <2>. HIDE DEF Acting
  <2>. QED
    BY <2>1, <2>2, PTL DEF ServicesSpec, serviceVars
<1>2. /\ UsageInv => Usage!TypeOK
      /\ LoginsInv => Logins!TypeOK
      /\ ConnectionsInv => Connections!TypeOK
      /\ ConfigInv => Config!TypeOK
      /\ OpenAIInv => OpenAI!TypeOK
  BY DEF UsageInv, UsageTyped, LoginsInv, ConnectionsInv, ConfigInv, ConfigTyped, OpenAIInv
<1>3. part \in Parts /\ Types /\ TypeOK /\ GeminiAnswers!TypeOK => PartTypeOK
  <2>. SUFFICES ASSUME part \in Parts, Types, TypeOK, GeminiAnswers!TypeOK PROVE PartTypeOK
    OBVIOUS
  <2>1. Gemini!TypeOK
    BY GeminiSame
  <2>2. /\ (part = "usage" => (PartTypeOK = Usage!TypeOK))
        /\ (part = "logins" => (PartTypeOK = Logins!TypeOK))
        /\ (part = "calls" => (PartTypeOK = TypeOK))
        /\ (part = "connections" => (PartTypeOK = Connections!TypeOK))
    BY DEF PartTypeOK
  <2>3. /\ (part = "tokens" => (PartTypeOK = Tokens!TypeOK))
        /\ (part = "gemini" => (PartTypeOK = Gemini!TypeOK))
        /\ (part = "openai" => (PartTypeOK = OpenAI!TypeOK))
        /\ (part = "config" => (PartTypeOK = Config!TypeOK))
    BY DEF PartTypeOK
  <2>. QED
    BY <2>1, <2>2, <2>3
<1>4. ServicesSpec => []TypeOK
  <2>1. RequestsParameters
    BY ServiceParameters DEF ServiceParameters
  <2>. QED
    BY <2>1, CallsBehave, RequestsTypeCorrect, PTL
<1>5. ServicesSpec => []GeminiAnswers!TypeOK
  BY GeminiBehaves, GeminiAnswers!GeminiTypeCorrect, PTL
<1>6. ServicesSpec => []Types
  BY <1>2, UsageAlways, LoginsAlways, ConnectionsAlways, ConfigAlways, OpenAIAlways,
     TokensAlways, PTL
<1>. QED
  BY <1>1, <1>3, <1>4, <1>5, <1>6, PTL
=============================================================================
