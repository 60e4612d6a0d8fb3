------------------------------ MODULE LockOrder ------------------------------
(***************************************************************************)
(* The locks that the calls on the request path and of the service take:    *)
(* Manager.mu and ModelRegistry.mutex (sync.RWMutex), RoundRobinSelector.mu  *)
(* and FileTokenStore.mu (sync.Mutex).  A call is the sequence of its lock   *)
(* operations; what it does between them is in the other modules.           *)
(***************************************************************************)
EXTENDS Integers, Sequences, FiniteSets

CONSTANTS Thread,  \* goroutines
          Nobody,  \* no goroutine
          Call     \* the calls they make, a subset of the domain of Steps

Lock == {"manager", "registry", "selector", "store"}

RLock(l)   == [op |-> "rlock", lock |-> l]
RUnlock(l) == [op |-> "runlock", lock |-> l]
WLock(l)   == [op |-> "lock", lock |-> l]
WUnlock(l) == [op |-> "unlock", lock |-> l]

ReadLocked(l, body)  == <<RLock(l)>> \o body \o <<RUnlock(l)>>
WriteLocked(l, body) == <<WLock(l)>> \o body \o <<WUnlock(l)>>

-----------------------------------------------------------------------------
(* The calls. *)

\* executorFor, GetByID, List, closestCooldownWait, refreshAuth's read.
ReadManager == ReadLocked("manager", <<>>)
\* rotateProviders, EnsureIndex in pickNext, markRefreshPending, RegisterExecutor.
WriteManager == WriteLocked("manager", <<>>)
\* Register, Update.
Update == WriteLocked("manager", <<>>) \o WriteLocked("store", <<>>)
\* MarkResult persists under the lock and reports after it.
MarkResult == WriteLocked("manager", WriteLocked("store", <<>>))
                \o WriteLocked("registry", <<>>) \o WriteLocked("registry", <<>>)

ClientSupportsModel == ReadLocked("registry", <<>>)
\* pickNext with two candidates, one of which is taken, and with one that does not
\* support the model.
pickNext == ReadLocked("manager", ClientSupportsModel \o ClientSupportsModel
                                    \o WriteLocked("selector", <<>>))
\* The early return forgets the lock.
pickNextNoneLeaks == <<RLock("manager")>> \o ClientSupportsModel
\* It gives the lock back before the return and again in a defer.
pickNextNoneTwice ==
  <<RLock("manager")>> \o ClientSupportsModel \o <<RUnlock("manager"), RUnlock("manager")>>
pickNextNone == ReadLocked("manager", ClientSupportsModel)

\* GetModelProviders, GetModelInfo, GetModelCount, GetAvailableModels.
ReadRegistry == ReadLocked("registry", <<>>)
\* The hook runs inside the call and looks up the credential.
RegisterClientHooked == WriteLocked("registry", ReadLocked("manager", <<>>))
\* RegisterClient, UnregisterClient; the hook runs in a goroutine of its own.
RegisterClient == WriteLocked("registry", <<>>)
\* It calls GetAvailableModels and GetModelCount under its own read lock.
GetFirstAvailableModel == ReadLocked("registry", ReadRegistry \o ReadRegistry)

Steps == [ReadManager |-> ReadManager, WriteManager |-> WriteManager,
          Update |-> Update, MarkResult |-> MarkResult,
          pickNext |-> pickNext, pickNextNone |-> pickNextNone,
          ReadRegistry |-> ReadRegistry, RegisterClient |-> RegisterClient,
          GetFirstAvailableModel |-> GetFirstAvailableModel]

LockParameters ==
  /\ Nobody \notin Thread
  /\ Call \subseteq DOMAIN Steps

-----------------------------------------------------------------------------
VARIABLES todo,     \* the lock operations left of the call of each goroutine
          readers,  \* read locks held, per lock and goroutine
          writer,   \* the goroutine that holds or has announced the write lock
          writing   \* locks whose writer holds it

vars == <<todo, readers, writer, writing>>

TypeOK ==
  /\ todo \in [Thread -> Seq([op : {"rlock", "runlock", "lock", "unlock"}, lock : Lock])]
  /\ readers \in [Lock -> [Thread -> Nat]]
  /\ writer \in [Lock -> Thread \cup {Nobody}]
  /\ writing \subseteq Lock

Init ==
  /\ todo = [t \in Thread |-> <<>>]
  /\ readers = [l \in Lock |-> [t \in Thread |-> 0]]
  /\ writer = [l \in Lock |-> Nobody]
  /\ writing = {}

Begin(t, c) ==
  /\ todo[t] = <<>>
  /\ todo' = [todo EXCEPT ![t] = Steps[c]]
  /\ UNCHANGED <<readers, writer, writing>>

\* The next operation of t is op on lock l.
At(t, op, l) == todo[t] # <<>> /\ Head(todo[t]) = [op |-> op, lock |-> l]
Advance(t) == todo' = [todo EXCEPT ![t] = Tail(@)]

\* A writer that waits for the readers before it already keeps new readers out.
AcquireRead(t, l) ==
  /\ At(t, "rlock", l) /\ writer[l] = Nobody
  /\ readers' = [readers EXCEPT ![l][t] = @ + 1]
  /\ Advance(t) /\ UNCHANGED <<writer, writing>>

ReleaseRead(t, l) ==
  /\ At(t, "runlock", l)
  /\ readers' = [readers EXCEPT ![l][t] = @ - 1]
  /\ Advance(t) /\ UNCHANGED <<writer, writing>>

Announce(t, l) ==
  /\ At(t, "lock", l) /\ writer[l] = Nobody
  /\ writer' = [writer EXCEPT ![l] = t]
  /\ UNCHANGED <<todo, readers, writing>>

AcquireWrite(t, l) ==
  /\ At(t, "lock", l) /\ writer[l] = t
  /\ \A u \in Thread : readers[l][u] = 0
  /\ writing' = writing \cup {l}
  /\ Advance(t) /\ UNCHANGED <<readers, writer>>

ReleaseWrite(t, l) ==
  /\ At(t, "unlock", l)
  /\ writer' = [writer EXCEPT ![l] = Nobody]
  /\ writing' = writing \ {l}
  /\ Advance(t) /\ UNCHANGED readers

Proceed(t) ==
  \E l \in Lock : \/ AcquireRead(t, l) \/ ReleaseRead(t, l)
                  \/ Announce(t, l) \/ AcquireWrite(t, l) \/ ReleaseWrite(t, l)

Next == \E t \in Thread : Proceed(t) \/ \E c \in Call : Begin(t, c)

Spec == Init /\ [][Next]_vars

\* A goroutine that can take a lock again and again gets it: an RWMutex lets the
\* readers it kept out go before the next writer, a Mutex in starvation mode is
\* handed to the longest waiter.
FairSpec == Spec /\ \A t \in Thread : SF_vars(Proceed(t))

-----------------------------------------------------------------------------
(* Properties. *)

\* Who must act before t can go on.
Blockers(t) ==
  UNION {IF writer[l] = t
         THEN {u \in Thread : At(t, "lock", l) /\ readers[l][u] > 0}
         ELSE {writer[l]} \ {Nobody}
         : l \in {k \in Lock : At(t, "rlock", k) \/ At(t, "lock", k)}}

\* No goroutines wait for each other in a circle, whatever calls run together: the
\* manager is never asked for while the registry, the selector or the store is
\* held, and no call takes a lock it has already (pickNext, MarkResult,
\* RegisterClient).  GetFirstAvailableModel is left out of the calls.  With it
\* the registry's mutex, which by its comment ensures thread-safe access, stops
\* all access: its second read lock waits for a writer that waits for its first.
NoCircularWait ==
  \A S \in (SUBSET Thread) \ {{}} : \E t \in S : Blockers(t) \cap S = {}

\* Every call returns, whatever other goroutines go on calling: every path gives
\* back what it took (pickNext's early returns, MarkResult).
EveryCallReturns == \A t \in Thread : todo[t] # <<>> ~> todo[t] = <<>>

=============================================================================
