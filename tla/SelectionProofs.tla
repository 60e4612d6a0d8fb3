--------------------------- MODULE SelectionProofs --------------------------
(***************************************************************************)
(* Theorems about the model registry for every set of clients, providers    *)
(* and models.  Its type: in particular an entry that lost its last client   *)
(* leaves nothing behind, and a client has a provider exactly while it lists *)
(* models.  For one request after the other, a success lifts the suspension  *)
(* of its client, whatever is registered meanwhile.  The counts of a model    *)
(* are those of its clients' registrations.  At the end, the other component  *)
(* of MCSelection: an attempt of a request calls no credential twice.        *)
(***************************************************************************)
EXTENDS MCSelection, FiniteSetTheorems, TLAPS

\* What models[m] is: a registration, or nothing at all.
Entry == {e \in Registration : e.count = 0 => e = NoRegistration}

-----------------------------------------------------------------------------
(* The operations on an entry. *)

\* Minus never goes below 0.
LEMMA MinusNat ==
  ASSUME NEW n \in Nat, NEW k \in Nat
  PROVE  Minus(n, k) \in Nat /\ Minus(0, k) = 0
BY DEF Minus

LEMMA NoRegistrationType == NoRegistration \in Entry
<1>1. NoTime \in 0 .. QuotaWindow \cup {NoTime}
  OBVIOUS
<1>2. QED
  BY <1>1 DEF Entry, NoRegistration, Registration

LEMMA AddedType ==
  ASSUME NEW e \in Entry, NEW p \in Provider, NEW k \in Nat
  PROVE  Added(e, p, k) \in Entry
<1> DEFINE n == e.count + k
           x == e.providers[p] + k
           f == [e EXCEPT !.count = n, !.providers[p] = x]
<1>1. e \in Registration /\ e.count \in Nat /\ e.providers[p] \in Nat
  BY DEF Entry, Registration
<1>2. n \in Nat /\ x \in Nat
  BY <1>1
<1>3. n = 0 => e.count = 0 /\ k = 0
  BY <1>1
<1>4. k = 0 => n = e.count /\ x = e.providers[p]
  BY <1>1
<1>5. Added(e, p, k) = f
  BY DEF Added
<1> HIDE DEF n, x
<1>6. f \in Registration /\ f.count = n
  BY <1>1, <1>2 DEF Registration
<1>7. ASSUME n = 0 PROVE f = NoRegistration
  <2>1. e = NoRegistration /\ k = 0
    BY <1>3, <1>7 DEF Entry
  <2>2. f = [e EXCEPT !.count = e.count, !.providers[p] = e.providers[p]]
    BY <1>4, <2>1
  <2>3. f = e
    BY <1>1, <2>2 DEF Registration
  <2>4. QED
    BY <2>1, <2>3
<1>8. QED
  BY <1>5, <1>6, <1>7 DEF Entry

\* Marks of a client may be set and cleared on an entry that has a count.
LEMMA ClearedType ==
  ASSUME NEW e \in Registration, NEW c \in Client
  PROVE  Cleared(e, c) \in Registration /\ Cleared(e, c).count = e.count
BY DEF Cleared, Registration

LEMMA RemovedType ==
  ASSUME NEW e \in Entry, NEW c \in Client, NEW p \in Provider, NEW k \in Nat
  PROVE  Removed(e, c, p, k) \in Entry
<1>1. e \in Registration /\ e.count \in Nat
  BY DEF Entry, Registration
<1>2. CASE e.count <= k
  BY <1>2, NoRegistrationType DEF Removed
<1>3. CASE ~(e.count <= k)
  <2> DEFINE d == Cleared(e, c)
             f == [d EXCEPT !.count = @ - k, !.providers[p] = Minus(@, k)]
  <2>1. d \in Registration /\ d.count = e.count
    BY <1>1, ClearedType
  <2>2. Minus(d.providers[p], k) \in Nat
    BY <2>1, MinusNat DEF Registration
  <2>3. d.count - k \in Nat /\ d.count - k # 0
    BY <1>1, <1>3, <2>1
  <2> HIDE DEF d
  <2>4. f \in Registration /\ f.count = d.count - k
    BY <2>1, <2>2, <2>3 DEF Registration
  <2>5. Removed(e, c, p, k) = f
    BY <1>3 DEF Removed, d
  <2>6. QED
    BY <2>3, <2>4, <2>5 DEF Entry
<1>4. QED
  BY <1>2, <1>3

LEMMA MovedOutType ==
  ASSUME NEW e \in Entry, NEW p \in Provider, NEW k \in Nat
  PROVE  MovedOut(e, p, k) \in Entry
<1>1. e \in Registration /\ e.providers \in [Provider -> Nat]
  BY DEF Entry, Registration
<1>2. Minus(e.providers[p], k) \in Nat
  BY <1>1, MinusNat
<1>3. MovedOut(e, p, k) \in Registration /\ MovedOut(e, p, k).count = e.count
  BY <1>1, <1>2 DEF MovedOut, Registration
<1>4. ASSUME e.count = 0 PROVE MovedOut(e, p, k) = NoRegistration
  <2>1. e = NoRegistration
    BY <1>4 DEF Entry
  <2>2. Minus(e.providers[p], k) = 0
    BY <2>1, MinusNat DEF NoRegistration
  <2>3. QED
    BY <2>1, <2>2 DEF MovedOut, NoRegistration
<1>5. QED
  BY <1>3, <1>4 DEF Entry

LEMMA MovedInType ==
  ASSUME NEW e \in Registration, NEW p \in Provider, NEW k \in Nat
  PROVE  MovedIn(e, p, k) \in Registration /\ MovedIn(e, p, k).count = e.count
BY DEF MovedIn, Registration

LEMMA ReconciledType ==
  ASSUME NEW e \in Entry, NEW c \in Client, NEW from \in Provider,
         NEW to \in Provider, NEW old \in Nat, NEW new \in Nat
  PROVE  Reconciled(e, c, from, to, old, new) \in Entry
<1> DEFINE kept    == Smaller(old, new)
           moved   == IF from = to THEN e ELSE MovedOut(e, from, kept)
           removed == IF old > new THEN Removed(moved, c, from, old - new) ELSE moved
           added   == IF new > old THEN Added(removed, to, new - old) ELSE removed
<1>1. kept \in Nat
  BY DEF Smaller
<1> HIDE DEF kept
<1>2. moved \in Entry
  BY <1>1, MovedOutType
<1> HIDE DEF moved
<1>3. removed \in Entry
  BY <1>2, RemovedType
<1> HIDE DEF removed
<1>4. added \in Entry
  BY <1>3, AddedType
<1> HIDE DEF added
<1>5. added \in Registration
  BY <1>4 DEF Entry
<1>6. Reconciled(e, c, from, to, old, new) =
        IF new = 0 \/ added.count = 0 THEN added
        ELSE IF from = to THEN Cleared(added, c)
        ELSE MovedIn(Cleared(added, c), to, kept)
  BY DEF Reconciled, added, removed, moved, kept
<1>7. ASSUME added.count # 0
      PROVE  Cleared(added, c) \in Entry /\ MovedIn(Cleared(added, c), to, kept) \in Entry
  BY <1>1, <1>5, <1>7, ClearedType, MovedInType DEF Entry
<1>8. QED
  BY <1>4, <1>6, <1>7

LEMMA MarkedType ==
  ASSUME NEW e \in Entry, NEW c \in Client, NEW call \in Call
  PROVE  Marked(e, c, call) \in Entry
<1>1. e \in Registration
  BY DEF Entry
<1>2. CASE e.count = 0
  BY <1>2 DEF Marked
<1>3. CASE e.count # 0
  <2>1. QuotaWindow \in 0 .. QuotaWindow
    BY RegistryAssumption
  <2>2. Mark(e, c, call) \in Registration /\ Mark(e, c, call).count = e.count
    BY <1>1, <2>1 DEF Mark, Suspended, Call, Registration
  <2>3. QED
    BY <1>3, <2>2 DEF Marked, Entry
<1>4. QED
  BY <1>2, <1>3

-----------------------------------------------------------------------------
(* Every step keeps the types. *)

LEMMA TypeInit == Init => TypeOK
<1> SUFFICES ASSUME Init PROVE TypeOK
  OBVIOUS
<1>1. NoReport \in Report
  BY DEF NoReport, Report
<1>2. NoModels \in [Model -> Nat]
  BY DEF NoModels
<1>3. NoRegistration \in Registration /\ ReportOK(NoReport)
  BY NoRegistrationType DEF Entry, NoReport, ReportOK
<1>4. models \in [Model -> Registration] /\ \A m \in Model : models[m] = NoRegistration
  BY <1>3 DEF Init
<1>5. /\ clientModels \in [Client -> [Model -> Nat]]
      /\ clientProviders \in [Client -> Provider \cup {Nil}]
      /\ \A c \in Client : clientProviders[c] = Nil /\ clientModels[c] = NoModels
  BY <1>2 DEF Init
<1>6. reports \in [Reporter -> Report] /\ \A r \in Reporter : ReportOK(reports[r])
  BY <1>1, <1>3 DEF Init
<1>7. succeeded \subseteq Client \X Model /\ crossed \subseteq Client \X Model
  BY DEF Init
<1>8. QED
  BY <1>4, <1>5, <1>6, <1>7 DEF TypeOK

\* What TypeOK says of the models and of the clients.
LEMMA TypeOfEntries ==
  ASSUME TypeOK, NEW m \in Model PROVE models[m] \in Entry
BY DEF TypeOK, Entry

LEMMA ProviderOfClient ==
  ASSUME TypeOK, NEW c \in Client, clientModels[c] # NoModels
  PROVE  clientProviders[c] \in Provider
BY DEF TypeOK

LEMMA EntriesToModels ==
  ASSUME NEW f, f = [m \in Model |-> f[m]], \A m \in Model : f[m] \in Entry
  PROVE  /\ f \in [Model -> Registration]
         /\ \A m \in Model : f[m].count = 0 => f[m] = NoRegistration
BY DEF Entry

LEMMA UnregisterType ==
  ASSUME TypeOK, NEW c \in Client, UnregisterClient(c) PROVE TypeOK'
<1>1. ASSUME NEW m \in Model PROVE models'[m] \in Entry
  <2>1. models[m] \in Entry
    BY TypeOfEntries
  <2>2. models'[m] = IF clientModels[c][m] = 0 THEN models[m]
                     ELSE Removed(models[m], c, clientProviders[c], clientModels[c][m])
    BY DEF UnregisterClient, Unregistered
  <2>3. clientModels[c][m] \in Nat
    BY DEF TypeOK
  <2>4. CASE clientModels[c][m] # 0
    <3>1. clientProviders[c] \in Provider
      BY <2>4, ProviderOfClient DEF NoModels
    <3>2. QED
      BY <2>1, <2>2, <2>3, <2>4, <3>1, RemovedType
  <2>5. QED
    BY <2>1, <2>2, <2>4
<1>2. models' = [m \in Model |-> models'[m]]
  BY DEF UnregisterClient, Unregistered
<1>3. /\ models' \in [Model -> Registration]
      /\ \A m \in Model : models'[m].count = 0 => models'[m] = NoRegistration
  BY <1>1, <1>2, EntriesToModels
<1>4. NoModels \in [Model -> Nat]
  BY DEF NoModels
<1>5. QED
  BY <1>3, <1>4 DEF TypeOK, UnregisterClient

LEMMA RegisterType ==
  ASSUME TypeOK, NEW c \in Client, NEW p \in Provider, NEW list \in ModelLists,
         RegisterClient(c, p, list)
  PROVE  TypeOK'
<1>1. list \in [Model -> Nat]
  BY RegistryAssumption
<1>2. ASSUME NEW m \in Model PROVE models'[m] \in Entry
  <2>1. models[m] \in Entry
    BY TypeOfEntries
  <2>2. models'[m] =
          IF Registered(c)
          THEN Reconciled(models[m], c, clientProviders[c], p, clientModels[c][m], list[m])
          ELSE Added(models[m], p, list[m])
    BY DEF RegisterClient
  <2>3. clientModels[c][m] \in Nat /\ list[m] \in Nat
    BY <1>1 DEF TypeOK
  <2>4. CASE Registered(c)
    <3>1. clientProviders[c] \in Provider
      BY <2>4, ProviderOfClient DEF Registered
    <3>2. QED
      BY <2>1, <2>2, <2>3, <2>4, <3>1, ReconciledType
  <2>5. CASE ~Registered(c)
    BY <2>1, <2>2, <2>3, <2>5, AddedType
  <2>6. QED
    BY <2>4, <2>5
<1>3. models' = [m \in Model |-> models'[m]]
  BY DEF RegisterClient
<1>4. /\ models' \in [Model -> Registration]
      /\ \A m \in Model : models'[m].count = 0 => models'[m] = NoRegistration
  BY <1>2, <1>3, EntriesToModels
<1>5. p # Nil /\ list # NoModels
  BY RegistryAssumption DEF RegisterClient
<1>6. QED
  BY <1>1, <1>4, <1>5 DEF TypeOK, RegisterClient

\* One report is replaced by another.
LEMMA ReportsType ==
  ASSUME TypeOK, NEW r \in Reporter, NEW rep \in Report, ReportOK(rep),
         reports' = [reports EXCEPT ![r] = rep]
  PROVE  reports' \in [Reporter -> Report] /\ \A u \in Reporter : ReportOK(reports'[u])
<1>1. reports \in [Reporter -> Report] /\ \A u \in Reporter : ReportOK(reports[u])
  BY DEF TypeOK
<1>2. \A u \in Reporter : reports'[u] = IF u = r THEN rep ELSE reports[u]
  BY <1>1
<1>3. QED
  BY <1>1, <1>2

LEMMA NoReportType == NoReport \in Report /\ ReportOK(NoReport)
BY DEF NoReport, Report, ReportOK

LEMMA StartCallType ==
  ASSUME TypeOK, NEW r \in Reporter, NEW c \in Client, NEW m \in Model,
         StartCall(r, c, m)
  PROVE  TypeOK'
<1> DEFINE rep == [phase |-> "call", client |-> c, model |-> m, todo |-> <<>>]
<1>1. rep \in Report
  BY DEF Report
<1>2. c # Nil /\ m # Nil
  BY RegistryAssumption
<1>3. ReportOK(rep)
  BY <1>2 DEF ReportOK
<1>4. reports' = [reports EXCEPT ![r] = rep]
  BY DEF StartCall
<1> HIDE DEF rep
<1>5. reports' \in [Reporter -> Report] /\ \A u \in Reporter : ReportOK(reports'[u])
  BY <1>1, <1>3, <1>4, ReportsType
<1>6. UNCHANGED <<models, clientModels, clientProviders, succeeded, crossed>>
  BY DEF StartCall
<1>7. QED
  BY <1>5, <1>6 DEF TypeOK

LEMMA MarkResultType ==
  ASSUME TypeOK, NEW r \in Reporter, NEW kind \in Kind, MarkResult(r, kind)
  PROVE  TypeOK'
<1> DEFINE old == reports[r]
           rep == IF Calls(kind) = <<>> THEN NoReport
                  ELSE [old EXCEPT !.phase = "report", !.todo = Calls(kind)]
<1>1. old \in Report /\ old.phase = "call" /\ ReportOK(old)
  BY DEF TypeOK, MarkResult
<1>2. old.client \in Client /\ old.model \in Model
  BY <1>1 DEF ReportOK, Report
<1>3. Calls(kind) \in Seq(Call)
  <2>1. kind \in {"ok", "quota", "blocked", "transient"}
    BY RegistryAssumption
  <2>2. <<"ClearQuota", "Resume">> \in Seq(Call)
    BY DEF Call
  <2>3. <<"SetQuota", "SuspendQuota">> \in Seq(Call)
    BY DEF Call
  <2>4. <<"SuspendOther">> \in Seq(Call) /\ <<>> \in Seq(Call)
    BY DEF Call
  <2>5. QED
    BY <2>1, <2>2, <2>3, <2>4 DEF Calls
<1>4. reports' = [reports EXCEPT ![r] = rep]
  BY DEF MarkResult
<1>5. succeeded' \subseteq Client \X Model /\ crossed' \subseteq Client \X Model
  <2>1. <<old.client, old.model>> \in Client \X Model
    BY <1>2
  <2>2. succeeded \subseteq Client \X Model /\ crossed \subseteq Client \X Model
    BY DEF TypeOK
  <2>3. /\ succeeded' \subseteq succeeded \cup {<<old.client, old.model>>}
        /\ crossed' \subseteq crossed \cup {<<old.client, old.model>>}
    BY DEF MarkResult
  <2>4. QED
    BY <2>1, <2>2, <2>3
<1> HIDE DEF old
<1>6. rep \in Report
  BY <1>1, <1>3, NoReportType DEF Report
<1>7. ReportOK(rep)
  BY <1>1, <1>2, NoReportType DEF ReportOK, Report
<1> HIDE DEF rep
<1>8. reports' \in [Reporter -> Report] /\ \A u \in Reporter : ReportOK(reports'[u])
  BY <1>4, <1>6, <1>7, ReportsType
<1>9. UNCHANGED <<models, clientModels, clientProviders>>
  BY DEF MarkResult
<1>10. QED
  BY <1>5, <1>8, <1>9 DEF TypeOK

LEMMA TellRegistryType ==
  ASSUME TypeOK, NEW r \in Reporter, TellRegistry(r) PROVE TypeOK'
<1> DEFINE old == reports[r]
           rep == IF Len(old.todo) = 1 THEN NoReport ELSE [old EXCEPT !.todo = Tail(old.todo)]
           entry == Marked(models[old.model], old.client, Head(old.todo))
<1>1. old \in Report /\ old.phase = "report" /\ ReportOK(old)
  BY DEF TypeOK, TellRegistry
<1>2. /\ old.client \in Client /\ old.model \in Model
      /\ old.todo \in Seq(Call) /\ old.todo # <<>>
  BY <1>1 DEF ReportOK, Report
<1>3. reports' = [reports EXCEPT ![r] = rep]
  BY Zenon DEF TellRegistry
<1>4. models' = [models EXCEPT ![old.model] = entry]
  BY Zenon DEF TellRegistry
<1>5. UNCHANGED <<clientModels, clientProviders, succeeded, crossed>>
  BY DEF TellRegistry
<1> HIDE DEF old
<1>6. rep \in Report /\ ReportOK(rep)
  <2>1. CASE Len(old.todo) = 1
    BY <2>1, NoReportType
  <2>2. CASE Len(old.todo) # 1
    <3>1. Tail(old.todo) \in Seq(Call) /\ Len(Tail(old.todo)) = Len(old.todo) - 1
      BY <1>2
    <3>2. Len(old.todo) # 0
      BY <1>2
    <3>3. Len(Tail(old.todo)) # 0
      BY <1>2, <2>2, <3>1, <3>2
    <3>4. Tail(old.todo) # <<>>
      BY <3>1, <3>3, Len(<<>>) = 0
    <3>5. QED
      BY <1>1, <1>2, <2>2, <3>1, <3>4 DEF Report, ReportOK
  <2>3. QED
    BY <2>1, <2>2
<1> HIDE DEF rep
<1>7. entry \in Entry
  <2>1. Head(old.todo) \in Call
    BY <1>2
  <2>2. models[old.model] \in Entry
    BY <1>2, TypeOfEntries
  <2>3. QED
    BY <1>2, <2>1, <2>2, MarkedType
<1> HIDE DEF entry
<1>8. /\ models' \in [Model -> Registration]
      /\ \A m \in Model : models'[m].count = 0 => models'[m] = NoRegistration
  <2>1. models \in [Model -> Registration]
    BY DEF TypeOK
  <2>2. models' = [m \in Model |-> models'[m]]
    BY <1>4, <2>1
  <2>3. \A m \in Model : models'[m] = IF m = old.model THEN entry ELSE models[m]
    BY <1>4, <2>1
  <2>4. \A m \in Model : models'[m] \in Entry
    BY <1>7, <2>3, TypeOfEntries
  <2>5. QED
    BY <2>2, <2>4, EntriesToModels
<1>9. reports' \in [Reporter -> Report] /\ \A u \in Reporter : ReportOK(reports'[u])
  BY <1>3, <1>6, ReportsType
<1>10. QED
  BY <1>5, <1>8, <1>9 DEF TypeOK

LEMMA TickType == ASSUME TypeOK, Tick PROVE TypeOK'
<1>1. ASSUME NEW m \in Model PROVE models'[m] \in Entry
  <2> DEFINE q == [c \in Client |-> IF models[m].quota[c] > 0 THEN models[m].quota[c] - 1
                                    ELSE models[m].quota[c]]
  <2>1. models[m] \in Entry /\ models[m] \in Registration
    BY TypeOfEntries DEF Entry
  <2>2. models'[m] = [models[m] EXCEPT !.quota = q]
    BY DEF Tick
  <2>3. q \in [Client -> 0 .. QuotaWindow \cup {NoTime}]
    <3>1. models[m].quota \in [Client -> 0 .. QuotaWindow \cup {NoTime}]
      BY <2>1 DEF Registration
    <3>2. ASSUME NEW c \in Client PROVE q[c] \in 0 .. QuotaWindow \cup {NoTime}
      BY <3>1, RegistryAssumption DEF NoTime
    <3>3. QED
      BY <3>2
  <2>4. ASSUME models[m].count = 0 PROVE q = models[m].quota
    BY <2>1, <2>4 DEF Entry, NoRegistration, NoTime
  <2> HIDE DEF q
  <2>5. models'[m] \in Registration /\ models'[m].count = models[m].count
    BY <2>1, <2>2, <2>3 DEF Registration
  <2>6. ASSUME models[m].count = 0 PROVE models'[m] = NoRegistration
    BY <2>1, <2>2, <2>4, <2>6 DEF Entry, Registration
  <2>7. QED
    BY <2>5, <2>6 DEF Entry
<1>2. models' = [m \in Model |-> models'[m]]
  BY DEF Tick
<1>3. /\ models' \in [Model -> Registration]
      /\ \A m \in Model : models'[m].count = 0 => models'[m] = NoRegistration
  BY <1>1, <1>2, EntriesToModels
<1>4. UNCHANGED <<clientModels, clientProviders, reports, succeeded, crossed>>
  BY DEF Tick
<1>5. QED
  BY <1>3, <1>4 DEF TypeOK

LEMMA TypeNext == TypeOK /\ [Next]_vars => TypeOK'
<1> SUFFICES ASSUME TypeOK, [Next]_vars PROVE TypeOK'
  OBVIOUS
<1>1. ASSUME NEW c \in Client, UnregisterClient(c) PROVE TypeOK'
  BY <1>1, UnregisterType
<1>2. ASSUME NEW c \in Client, NEW p \in Provider, NEW list \in ModelLists,
             RegisterClient(c, p, list)
      PROVE  TypeOK'
  BY <1>2, RegisterType
<1>3. ASSUME NEW r \in Reporter, NEW c \in Client, NEW m \in Model, StartCall(r, c, m)
      PROVE  TypeOK'
  BY <1>3, StartCallType
<1>4. ASSUME NEW r \in Reporter, NEW kind \in Kind, MarkResult(r, kind) PROVE TypeOK'
  BY <1>4, MarkResultType
<1>5. ASSUME NEW r \in Reporter, TellRegistry(r) PROVE TypeOK'
  BY <1>5, TellRegistryType
<1>6. CASE Tick
  BY <1>6, TickType
<1>7. CASE UNCHANGED vars
  BY <1>7 DEF vars, TypeOK
<1>8. QED
  BY <1>1, <1>2, <1>3, <1>4, <1>5, <1>6, <1>7 DEF Next

\* Every state of the registry has its types: counts never fall below zero, an
\* entry without registrations is gone with its marks, a client has a provider
\* exactly while it lists models, and no report loses its calls (RegisterClient,
\* unregisterClientInternal, removeModelRegistration, MarkResult).
THEOREM RegistryTypeCorrect == Spec => []TypeOK
BY TypeInit, TypeNext, PTL DEF Spec

-----------------------------------------------------------------------------
(* A success lifts the suspension. *)

\* What is left to tell of a success, and of a failure.
Lifts == {<<"ClearQuota", "Resume">>, <<"Resume">>}
Suspends == {<<"SetQuota", "SuspendQuota">>, <<"SuspendQuota">>, <<"SuspendOther">>}

\* A report tells of a success or of a failure.
ReportsResult ==
  \A r \in Reporter : reports[r].phase = "report" => reports[r].todo \in Lifts \cup Suspends

\* The last result of client c for model m was a success that met no report of a failure.
Recovered(c, m) == <<c, m>> \in succeeded /\ <<c, m>> \notin crossed

\* r has still to resume client c for model m, or to clear its quota mark too.
WillResume(r, c, m) ==
  /\ reports[r].phase = "report" /\ reports[r].client = c /\ reports[r].model = m
  /\ reports[r].todo \in Lifts
WillClear(r, c, m) == WillResume(r, c, m) /\ reports[r].todo = <<"ClearQuota", "Resume">>

\* After such a success nobody is about to suspend the client; it is not suspended, or will
\* be resumed, and has no quota mark, or will lose it.
ResumedOrWillBe ==
  \A c \in Client, m \in Model : Recovered(c, m) =>
    /\ \A r \in Reporter : ~WillSuspend(r, c, m)
    /\ models[m].suspended[c] = "no" \/ \E r \in Reporter : WillResume(r, c, m)
    /\ models[m].quota[c] = NoTime \/ \E r \in Reporter : WillClear(r, c, m)

ResumeInv == TypeOK /\ ReportsResult /\ ResumedOrWillBe

\* Of two reports, only that of a failure will suspend.
LEMMA LastCall ==
  ASSUME NEW todo \in Lifts \cup Suspends
  PROVE  todo[Len(todo)] \in {"SuspendQuota", "SuspendOther"} <=> todo \in Suspends
<1>1. CASE todo = <<"ClearQuota", "Resume">>
  BY <1>1 DEF Suspends
<1>2. CASE todo = <<"Resume">>
  BY <1>2 DEF Suspends
<1>3. CASE todo \in Suspends
  BY <1>3 DEF Suspends
<1>4. QED
  BY <1>1, <1>2, <1>3 DEF Lifts

\* f suspends and marks nobody whom e does not.
NotMore(e, f) ==
  \A c \in Client : /\ e.suspended[c] = "no" => f.suspended[c] = "no"
                    /\ e.quota[c] = NoTime => f.quota[c] = NoTime

LEMMA RemovedNotMore ==
  ASSUME NEW e \in Entry, NEW c \in Client, NEW p \in Provider, NEW k \in Nat
  PROVE  NotMore(e, Removed(e, c, p, k))
<1>1. e \in Registration
  BY DEF Entry
<1>2. CASE e.count <= k
  BY <1>2 DEF Removed, NotMore, NoRegistration
<1>3. CASE ~(e.count <= k)
  <2> DEFINE d == Cleared(e, c)
  <2>1. d \in Registration
    BY <1>1, ClearedType
  <2>2. NotMore(e, d)
    BY <1>1 DEF Cleared, NotMore, Registration
  <2> HIDE DEF d
  <2>3. Removed(e, c, p, k) = [d EXCEPT !.count = @ - k, !.providers[p] = Minus(@, k)]
    BY <1>3 DEF Removed, d
  <2>4. /\ Removed(e, c, p, k).suspended = d.suspended
        /\ Removed(e, c, p, k).quota = d.quota
    BY <2>1, <2>3 DEF Registration
  <2>5. QED
    BY <2>2, <2>4 DEF NotMore
<1>4. QED
  BY <1>2, <1>3

LEMMA AddedNotMore ==
  ASSUME NEW e \in Entry, NEW p \in Provider, NEW k \in Nat
  PROVE  NotMore(e, Added(e, p, k))
BY DEF Entry, Registration, Added, NotMore

LEMMA ClearedNotMore ==
  ASSUME NEW e \in Registration, NEW c \in Client
  PROVE  NotMore(e, Cleared(e, c))
BY DEF Cleared, NotMore, Registration

LEMMA ReconciledNotMore ==
  ASSUME NEW e \in Entry, NEW c \in Client, NEW from \in Provider,
         NEW to \in Provider, NEW old \in Nat, NEW new \in Nat
  PROVE  NotMore(e, Reconciled(e, c, from, to, old, new))
<1> DEFINE kept    == Smaller(old, new)
           moved   == IF from = to THEN e ELSE MovedOut(e, from, kept)
           removed == IF old > new THEN Removed(moved, c, from, old - new) ELSE moved
           added   == IF new > old THEN Added(removed, to, new - old) ELSE removed
<1>1. kept \in Nat
  BY DEF Smaller
<1> HIDE DEF kept
<1>2. moved \in Entry /\ NotMore(e, moved)
  <2>1. CASE from = to
    BY <2>1 DEF NotMore
  <2>2. CASE from # to
    BY <1>1, <2>2, MovedOutType DEF MovedOut, NotMore, Entry, Registration
  <2>3. QED
    BY <2>1, <2>2
<1> HIDE DEF moved
<1>3. removed \in Entry /\ NotMore(moved, removed)
  <2>1. CASE old > new
    BY <1>2, <2>1, RemovedType, RemovedNotMore
  <2>2. CASE ~(old > new)
    BY <1>2, <2>2 DEF NotMore
  <2>3. QED
    BY <2>1, <2>2
<1> HIDE DEF removed
<1>4. added \in Entry /\ NotMore(removed, added)
  <2>1. CASE new > old
    BY <1>3, <2>1, AddedType, AddedNotMore
  <2>2. CASE ~(new > old)
    BY <1>3, <2>2 DEF NotMore
  <2>3. QED
    BY <2>1, <2>2
<1> HIDE DEF added
<1>5. added \in Registration
  BY <1>4 DEF Entry
<1>6. NotMore(added, Cleared(added, c)) /\ Cleared(added, c) \in Registration
  BY <1>5, ClearedType, ClearedNotMore
<1>7. NotMore(added, MovedIn(Cleared(added, c), to, kept))
  BY <1>6 DEF MovedIn, NotMore, Registration
<1>8. Reconciled(e, c, from, to, old, new) =
        IF new = 0 \/ added.count = 0 THEN added
        ELSE IF from = to THEN Cleared(added, c)
        ELSE MovedIn(Cleared(added, c), to, kept)
  BY DEF Reconciled, added, removed, moved, kept
<1>9. QED
  BY <1>2, <1>3, <1>4, <1>6, <1>7, <1>8 DEF NotMore

\* What the service does suspends nobody.
LEMMA ServiceNotMore ==
  ASSUME TypeOK, NEW m \in Model,
         \/ \E c \in Client : UnregisterClient(c)
         \/ \E c \in Client, p \in Provider, list \in ModelLists : RegisterClient(c, p, list)
  PROVE  NotMore(models[m], models'[m])
<1>1. models[m] \in Entry
  BY TypeOfEntries
<1>2. ASSUME NEW c \in Client, UnregisterClient(c) PROVE NotMore(models[m], models'[m])
  <2>1. models'[m] = IF clientModels[c][m] = 0 THEN models[m]
                     ELSE Removed(models[m], c, clientProviders[c], clientModels[c][m])
    BY <1>2 DEF UnregisterClient, Unregistered
  <2>2. clientModels[c][m] \in Nat
    BY DEF TypeOK
  <2>3. CASE clientModels[c][m] = 0
    BY <2>1, <2>3 DEF NotMore
  <2>4. CASE clientModels[c][m] # 0
    <3>1. clientProviders[c] \in Provider
      BY <2>4, ProviderOfClient DEF NoModels
    <3>2. QED
      BY <1>1, <2>1, <2>2, <2>4, <3>1, RemovedNotMore
  <2>5. QED
    BY <2>3, <2>4
<1>3. ASSUME NEW c \in Client, NEW p \in Provider, NEW list \in ModelLists,
             RegisterClient(c, p, list)
      PROVE  NotMore(models[m], models'[m])
  <2>1. models'[m] =
          IF Registered(c)
          THEN Reconciled(models[m], c, clientProviders[c], p, clientModels[c][m], list[m])
          ELSE Added(models[m], p, list[m])
    BY <1>3 DEF RegisterClient
  <2>2. clientModels[c][m] \in Nat /\ list[m] \in Nat
    BY RegistryAssumption DEF TypeOK
  <2>3. CASE Registered(c)
    <3>1. clientProviders[c] \in Provider
      BY <2>3, ProviderOfClient DEF Registered
    <3>2. QED
      BY <1>1, <2>1, <2>2, <2>3, <3>1, ReconciledNotMore
  <2>4. CASE ~Registered(c)
    BY <1>1, <2>1, <2>2, <2>4, AddedNotMore
  <2>5. QED
    BY <2>3, <2>4
<1>4. QED
  BY <1>2, <1>3

\* A step that suspends nobody and tells nothing keeps what is to be shown.
LEMMA QuietStep ==
  ASSUME ReportsResult, ResumedOrWillBe, UNCHANGED <<reports, succeeded, crossed>>,
         \A m \in Model : NotMore(models[m], models'[m])
  PROVE  ReportsResult' /\ ResumedOrWillBe'
<1>1. ReportsResult'
  BY DEF ReportsResult
<1>2. \A c \in Client, m \in Model : Recovered(c, m)' => Recovered(c, m)
  BY DEF Recovered
<1>3. \A r \in Reporter, c \in Client, m \in Model :
        /\ WillSuspend(r, c, m)' <=> WillSuspend(r, c, m)
        /\ WillResume(r, c, m) => WillResume(r, c, m)'
        /\ WillClear(r, c, m) => WillClear(r, c, m)'
  BY DEF WillSuspend, WillResume, WillClear
<1>4. QED
  BY <1>1, <1>2, <1>3 DEF ResumedOrWillBe, NotMore

\* What the others have to tell does not change when r reports, and what r had to tell
\* concerns one pair only.
LEMMA OthersKeep ==
  ASSUME NEW r \in Reporter, NEW c \in Client, NEW m \in Model,
         ResumedOrWillBe, Recovered(c, m),
         \A u \in Reporter : u # r => reports'[u] = reports[u],
         ~WillResume(r, c, m), ~WillSuspend(r, c, m)'
  PROVE  /\ \A u \in Reporter : ~WillSuspend(u, c, m)'
         /\ models[m].suspended[c] = "no" \/ \E u \in Reporter : WillResume(u, c, m)'
         /\ models[m].quota[c] = NoTime \/ \E u \in Reporter : WillClear(u, c, m)'
<1>1. \A u \in Reporter : u # r =>
        /\ WillSuspend(u, c, m)' <=> WillSuspend(u, c, m)
        /\ WillResume(u, c, m) => WillResume(u, c, m)'
        /\ WillClear(u, c, m) => WillClear(u, c, m)'
  BY DEF WillSuspend, WillResume, WillClear
<1>2. ~WillClear(r, c, m)
  BY DEF WillClear
<1>3. QED
  BY <1>1, <1>2 DEF ResumedOrWillBe

LEMMA StartCallResumes ==
  ASSUME TypeOK, ReportsResult, ResumedOrWillBe, NEW r \in Reporter, NEW c \in Client,
         NEW m \in Model, StartCall(r, c, m)
  PROVE  ReportsResult' /\ ResumedOrWillBe'
<1>1. /\ reports \in [Reporter -> Report] /\ reports[r].phase = "idle"
      /\ \A u \in Reporter : u # r => reports'[u] = reports[u]
      /\ reports'[r].phase = "call"
  BY DEF TypeOK, StartCall
<1>2. UNCHANGED <<models, succeeded, crossed>>
  BY DEF StartCall
<1>3. ReportsResult'
  BY <1>1 DEF ReportsResult
<1>4. \A d \in Client, n \in Model : /\ ~WillResume(r, d, n) /\ ~WillSuspend(r, d, n)'
                                     /\ Recovered(d, n)' => Recovered(d, n)
  BY <1>1, <1>2 DEF WillResume, WillSuspend, Recovered
<1>5. QED
  BY <1>1, <1>2, <1>3, <1>4, OthersKeep DEF ResumedOrWillBe

LEMMA MarkResultResumes ==
  ASSUME TypeOK, ReportsResult, ResumedOrWillBe,
         NEW r \in Reporter, NEW kind \in Kind, MarkResult(r, kind)
  PROVE  ReportsResult' /\ ResumedOrWillBe'
<1>1. /\ reports \in [Reporter -> Report] /\ reports[r].phase = "call"
      /\ reports[r] \in Report
      /\ \A u \in Reporter : u # r => reports'[u] = reports[u]
  BY DEF TypeOK, MarkResult
<1> PICK a \in Client, b \in Model : a = reports[r].client /\ b = reports[r].model
  BY <1>1 DEF TypeOK, ReportOK, Report
<1>2. models' = models
  BY DEF MarkResult
<1>3. kind \in {"ok", "quota", "blocked", "transient"}
  BY RegistryAssumption
<1>4. \/ Calls(kind) = <<>> /\ reports'[r] = NoReport /\ kind # "ok"
      \/ /\ Calls(kind) # <<>>
         /\ reports'[r].phase = "report" /\ reports'[r].todo = Calls(kind)
         /\ reports'[r].client = a /\ reports'[r].model = b
  <2>1. CASE Calls(kind) = <<>>
    BY <1>1, <2>1 DEF MarkResult, Calls
  <2>2. CASE Calls(kind) # <<>>
    <3>1. reports' = [reports EXCEPT ![r] =
            [reports[r] EXCEPT !.phase = "report", !.todo = Calls(kind)]]
      BY <2>2 DEF MarkResult
    <3>2. reports'[r] = [reports[r] EXCEPT !.phase = "report", !.todo = Calls(kind)]
      BY <1>1, <3>1
    <3>3. QED
      BY <1>1, <2>2, <3>2 DEF Report
  <2>3. QED
    BY <2>1, <2>2
<1>5. /\ Calls(kind) # <<>> => Calls(kind) \in Lifts \cup Suspends
      /\ kind = "ok" => Calls(kind) = <<"ClearQuota", "Resume">>
  BY <1>3 DEF Calls, Lifts, Suspends
<1>6. ReportsResult'
  <2>1. reports'[r].phase = "report" => reports'[r].todo \in Lifts \cup Suspends
    BY <1>4, <1>5 DEF NoReport
  <2>2. QED
    BY <1>1, <2>1 DEF ReportsResult
\* Other pairs.
<1>7. ASSUME NEW c \in Client, NEW m \in Model, c # a \/ m # b, Recovered(c, m)'
      PROVE  /\ \A u \in Reporter : ~WillSuspend(u, c, m)'
             /\ models'[m].suspended[c] = "no" \/ \E u \in Reporter : WillResume(u, c, m)'
             /\ models'[m].quota[c] = NoTime \/ \E u \in Reporter : WillClear(u, c, m)'
  <2>1. <<c, m>> # <<a, b>>
    BY <1>7
  <2>2. Recovered(c, m)
    BY <1>7, <2>1 DEF MarkResult, Recovered
  <2>3. ~WillResume(r, c, m) /\ ~WillSuspend(r, c, m)'
    BY <1>1, <1>4, <1>7 DEF WillResume, WillSuspend, NoReport
  <2>4. QED
    BY <1>1, <1>2, <2>2, <2>3, OthersKeep
\* The pair of the result: it is a success, and no failure is on its way.
<1>8. ASSUME Recovered(a, b)'
      PROVE  /\ \A u \in Reporter : ~WillSuspend(u, a, b)'
             /\ WillResume(r, a, b)' /\ WillClear(r, a, b)'
  <2>1. kind = "ok" /\ \A u \in Reporter : ~WillSuspend(u, a, b)
    <3>1. CASE kind # "ok"
      <4>1. <<a, b>> \notin succeeded'
        BY <3>1 DEF MarkResult
      <4>2. QED
        BY <1>8, <4>1 DEF Recovered
    <3>2. CASE kind = "ok"
      <4>1. crossed' = IF \E s \in Reporter : WillSuspend(s, a, b)
                       THEN crossed \cup {<<a, b>>} ELSE crossed \ {<<a, b>>}
        BY <3>2 DEF MarkResult
      <4>2. QED
        BY <1>8, <3>2, <4>1 DEF Recovered
    <3>3. QED
      BY <3>1, <3>2
  <2>2. /\ reports'[r].phase = "report" /\ reports'[r].todo = <<"ClearQuota", "Resume">>
        /\ reports'[r].client = a /\ reports'[r].model = b
    BY <1>4, <1>5, <2>1
  <2>3. <<"ClearQuota", "Resume">> \in Lifts
    BY DEF Lifts
  <2>4. WillResume(r, a, b)' /\ WillClear(r, a, b)'
    BY <2>2, <2>3 DEF WillResume, WillClear
  <2>5. ~WillSuspend(r, a, b)'
    BY <2>2 DEF WillSuspend
  <2>6. \A u \in Reporter : u # r => ~WillSuspend(u, a, b)'
    BY <1>1, <2>1 DEF WillSuspend
  <2>7. QED
    BY <2>4, <2>5, <2>6
<1>9. QED
  BY <1>6, <1>7, <1>8 DEF ResumedOrWillBe

LEMMA HeadIsCall ==
  ASSUME NEW todo \in Lifts \cup Suspends
  PROVE  Head(todo) \in Call
BY DEF Lifts, Suspends, Call

\* A call marks its own client only.
LEMMA MarkedOthers ==
  ASSUME NEW e \in Registration, NEW c \in Client, NEW d \in Client, d # c,
         NEW call \in Call
  PROVE  /\ Marked(e, c, call).suspended[d] = e.suspended[d]
         /\ Marked(e, c, call).quota[d] = e.quota[d]
<1>1. CASE call \in {"SetQuota", "ClearQuota"}
  BY <1>1 DEF Marked, Mark, Registration
<1>2. CASE call = "Resume"
  BY <1>2 DEF Marked, Mark, Registration
<1>3. CASE call = "SuspendQuota"
  BY <1>3 DEF Marked, Mark, Suspended, Registration
<1>4. CASE call = "SuspendOther"
  BY <1>4 DEF Marked, Mark, Suspended, Registration
<1>5. QED
  BY <1>1, <1>2, <1>3, <1>4 DEF Call

\* A success's calls undo the mark and the suspension of their client.
LEMMA MarkedOwn ==
  ASSUME NEW e \in Registration, NEW c \in Client, e.count = 0 => e = NoRegistration
  PROVE  /\ Marked(e, c, "ClearQuota").quota[c] = NoTime
         /\ Marked(e, c, "ClearQuota").suspended[c] = e.suspended[c]
         /\ Marked(e, c, "Resume").suspended[c] = "no"
         /\ Marked(e, c, "Resume").quota[c] = e.quota[c]
<1>1. CASE e.count = 0
  BY <1>1 DEF Marked, NoRegistration
<1>2. CASE e.count # 0
  BY <1>2 DEF Marked, Mark, Registration
<1>3. QED
  BY <1>1, <1>2

LEMMA TellRegistryResumes ==
  ASSUME TypeOK, ReportsResult, ResumedOrWillBe, NEW r \in Reporter, TellRegistry(r)
  PROVE  ReportsResult' /\ ResumedOrWillBe'
<1> DEFINE old == reports[r]
<1> PICK a \in Client, b \in Model : a = old.client /\ b = old.model
  BY DEF TypeOK, TellRegistry, ReportOK, Report
<1> DEFINE entry == Marked(models[b], a, Head(old.todo))
<1>1. reports \in [Reporter -> Report] /\ old \in Report /\ old.phase = "report"
  BY DEF TypeOK, TellRegistry
<1>2. succeeded' = succeeded /\ crossed' = crossed
  BY DEF TellRegistry
<1>3. reports' = [reports EXCEPT ![r] =
        IF Len(old.todo) = 1 THEN NoReport ELSE [old EXCEPT !.todo = Tail(old.todo)]]
  BY Zenon DEF TellRegistry
<1>4. models' = [models EXCEPT ![b] = entry]
  BY Zenon DEF TellRegistry
<1>5. old.todo \in Lifts \cup Suspends
  BY <1>1 DEF ReportsResult
<1>6. /\ models \in [Model -> Registration]
      /\ \A m \in Model : models[m].count = 0 => models[m] = NoRegistration
  BY DEF TypeOK
<1>7. \A m \in Model : models'[m] = IF m = b THEN entry ELSE models[m]
  BY <1>4, <1>6
<1>8. /\ \A u \in Reporter : u # r => reports'[u] = reports[u]
      /\ \/ reports'[r] = NoReport /\ old.todo \in {<<"Resume">>, <<"SuspendQuota">>, <<"SuspendOther">>}
         \/ /\ reports'[r].phase = "report" /\ reports'[r].client = a /\ reports'[r].model = b
            /\ \/ old.todo = <<"ClearQuota", "Resume">> /\ reports'[r].todo = <<"Resume">>
               \/ old.todo = <<"SetQuota", "SuspendQuota">> /\ reports'[r].todo = <<"SuspendQuota">>
  <2>1. CASE old.todo = <<"ClearQuota", "Resume">>
    <3>1. Len(old.todo) # 1 /\ Tail(old.todo) = <<"Resume">>
      BY <2>1
    <3>2. QED
      BY <1>1, <1>3, <2>1, <3>1 DEF Report
  <2>2. CASE old.todo = <<"SetQuota", "SuspendQuota">>
    <3>1. Len(old.todo) # 1 /\ Tail(old.todo) = <<"SuspendQuota">>
      BY <2>2
    <3>2. QED
      BY <1>1, <1>3, <2>2, <3>1 DEF Report
  <2>3. CASE old.todo \in {<<"Resume">>, <<"SuspendQuota">>, <<"SuspendOther">>}
    <3>1. Len(old.todo) = 1
      BY <2>3
    <3>2. QED
      BY <1>1, <1>3, <2>3, <3>1
  <2>4. QED
    BY <1>5, <2>1, <2>2, <2>3 DEF Lifts, Suspends
<1>9. ReportsResult'
  <2>1. <<"Resume">> \in Lifts /\ <<"SuspendQuota">> \in Suspends /\ NoReport.phase # "report"
    BY DEF Lifts, Suspends, NoReport
  <2>2. QED
    BY <1>8, <2>1 DEF ReportsResult
\* Other pairs.
<1>10. ASSUME NEW c \in Client, NEW m \in Model, c # a \/ m # b, Recovered(c, m)'
       PROVE  /\ \A u \in Reporter : ~WillSuspend(u, c, m)'
              /\ models'[m].suspended[c] = "no" \/ \E u \in Reporter : WillResume(u, c, m)'
              /\ models'[m].quota[c] = NoTime \/ \E u \in Reporter : WillClear(u, c, m)'
  <2>1. Recovered(c, m)
    BY <1>2, <1>10 DEF Recovered
  <2>2. ~WillResume(r, c, m) /\ ~WillSuspend(r, c, m)'
    BY <1>1, <1>8, <1>10 DEF WillResume, WillSuspend, NoReport
  <2>3. /\ models'[m].suspended[c] = models[m].suspended[c]
        /\ models'[m].quota[c] = models[m].quota[c]
    <3>1. CASE m # b
      BY <1>7, <3>1
    <3>2. CASE m = b /\ c # a
      BY <1>1, <1>5, <1>6, <1>7, <3>2, HeadIsCall, MarkedOthers
    <3>3. QED
      BY <1>10, <3>1, <3>2
  <2>4. QED
    BY <1>8, <2>1, <2>2, <2>3, OthersKeep
\* The pair of the report, which is that of a success.
<1>11. ASSUME Recovered(a, b)'
       PROVE  /\ \A u \in Reporter : ~WillSuspend(u, a, b)'
              /\ models'[b].suspended[a] = "no" \/ \E u \in Reporter : WillResume(u, a, b)'
              /\ models'[b].quota[a] = NoTime \/ \E u \in Reporter : WillClear(u, a, b)'
  <2>1. Recovered(a, b)
    BY <1>2, <1>11 DEF Recovered
  <2>2. \A u \in Reporter : ~WillSuspend(u, a, b)
    BY <1>1, <2>1 DEF ResumedOrWillBe
  <2>3. old.todo \in Lifts
    <3>1. old.todo[Len(old.todo)] \notin {"SuspendQuota", "SuspendOther"}
      BY <1>1, <2>2 DEF WillSuspend
    <3>2. QED
      BY <1>5, <3>1, LastCall
  <2>4. \A u \in Reporter : ~WillSuspend(u, a, b)'
    <3>1. ~WillSuspend(r, a, b)'
      BY <1>8, <2>3 DEF WillSuspend, NoReport, Lifts
    <3>2. \A u \in Reporter : u # r => ~WillSuspend(u, a, b)'
      BY <1>8, <2>2 DEF WillSuspend
    <3>3. QED
      BY <3>1, <3>2
  <2>5. CASE old.todo = <<"ClearQuota", "Resume">>
    <3>1. WillResume(r, a, b)'
      BY <1>8, <2>5 DEF WillResume, Lifts
    <3>2. models'[b].quota[a] = NoTime
      BY <1>1, <1>6, <1>7, <2>5, MarkedOwn
    <3>3. QED
      BY <2>4, <3>1, <3>2
  <2>6. CASE old.todo = <<"Resume">>
    <3>1. models'[b].suspended[a] = "no" /\ models'[b].quota[a] = models[b].quota[a]
      BY <1>1, <1>6, <1>7, <2>6, MarkedOwn
    <3>2. ~WillClear(r, a, b)
      BY <2>6 DEF WillClear
    <3>3. \A u \in Reporter : u # r /\ WillClear(u, a, b) => WillClear(u, a, b)'
      BY <1>8 DEF WillClear, WillResume
    <3>4. QED
      BY <1>1, <2>1, <2>4, <3>1, <3>2, <3>3 DEF ResumedOrWillBe
  <2>7. QED
    BY <2>3, <2>5, <2>6 DEF Lifts
<1>12. QED
  BY <1>9, <1>10, <1>11 DEF ResumedOrWillBe

LEMMA ResumeNext == ResumeInv /\ [Next]_vars => ResumeInv'
<1> SUFFICES ASSUME ResumeInv, [Next]_vars PROVE ReportsResult' /\ ResumedOrWillBe'
  BY TypeNext DEF ResumeInv
<1> USE DEF ResumeInv
<1>1. ASSUME \/ \E c \in Client : UnregisterClient(c)
             \/ \E c \in Client, p \in Provider, list \in ModelLists : RegisterClient(c, p, list)
      PROVE  ReportsResult' /\ ResumedOrWillBe'
  <2>1. UNCHANGED <<reports, succeeded, crossed>>
    BY <1>1 DEF UnregisterClient, RegisterClient
  <2>2. QED
    BY <1>1, <2>1, ServiceNotMore, QuietStep
<1>2. ASSUME NEW r \in Reporter, NEW c \in Client, NEW m \in Model, StartCall(r, c, m)
      PROVE  ReportsResult' /\ ResumedOrWillBe'
  BY <1>2, StartCallResumes
<1>3. ASSUME NEW r \in Reporter, NEW kind \in Kind, MarkResult(r, kind)
      PROVE  ReportsResult' /\ ResumedOrWillBe'
  BY <1>3, MarkResultResumes
<1>4. ASSUME NEW r \in Reporter, TellRegistry(r)
      PROVE  ReportsResult' /\ ResumedOrWillBe'
  BY <1>4, TellRegistryResumes
<1>5. CASE Tick
  <2>1. ASSUME NEW m \in Model PROVE NotMore(models[m], models'[m])
    <3>1. models[m] \in Registration
      BY DEF TypeOK
    <3>2. models'[m] = [models[m] EXCEPT !.quota =
            [c \in Client |-> IF models[m].quota[c] > 0 THEN models[m].quota[c] - 1
                              ELSE models[m].quota[c]]]
      BY <1>5 DEF Tick
    <3>3. QED
      BY <3>1, <3>2 DEF NotMore, NoTime, Registration
  <2>2. QED
    BY <1>5, <2>1, QuietStep DEF Tick
<1>6. CASE UNCHANGED vars
  BY <1>6, QuietStep DEF vars, NotMore
<1>7. QED
  BY <1>1, <1>2, <1>3, <1>4, <1>5, <1>6 DEF Next

LEMMA ResumeInit == Init => ResumeInv
<1> SUFFICES ASSUME Init PROVE ReportsResult /\ ResumedOrWillBe
  BY TypeInit DEF ResumeInv
<1>1. QED
  BY DEF Init, NoReport, ReportsResult, ResumedOrWillBe, Recovered

\* A client whose last result was a success has neither a suspension nor a quota mark once
\* all results of the pair are reported, for every number of requests that report at once and of
\* clients, providers and models, whatever is registered, moved or removed in between; but
\* for a success that was recorded while an earlier failure was still on its way, until the
\* next one (MarkResult, ResumeClientModel).
THEOREM SuccessLiftsSuspension == Spec => []SuccessResumes
<1>1. ResumeInv => SuccessResumes
  BY DEF ResumeInv, ResumedOrWillBe, Recovered, WillResume, WillClear, SuccessResumes
<1>2. QED
  BY <1>1, ResumeInit, ResumeNext, PTL DEF Spec

-----------------------------------------------------------------------------
(* Sums.  FiniteSetTheorems has the facts about Cardinality; these are the ones *)
(* about SumFunctionOnSet, whose fold takes the elements of a set in an order of *)
(* its own.  Each is shown by a smallest counterexample.                       *)

\* A set of naturals that is not empty has a least element.
LEMMA LeastNatural ==
  ASSUME NEW S \in SUBSET Nat, S # {}
  PROVE  \E n \in S : \A k \in S : n <= k
<1>. DEFINE Less == {p \in Nat \X Nat : p[1] < p[2]}
<1>1. IsWellFoundedOn(Less, Nat)
  BY NatLessThanWellFounded, SMT DEF OpToRel
<1>. HIDE DEF Less
<1>2. PICK n \in S : \A k \in S : ~(<<k, n>> \in Less)
  BY <1>1, WFMin, Zenon
<1>3. ASSUME NEW k \in S PROVE n <= k
  <2>1. n \in Nat /\ k \in Nat /\ ~(k < n)
    BY <1>2 DEF Less
  <2>. QED
    BY <2>1
<1>. QED
  BY <1>3

\* The element of s that a fold takes first.
Pick(s) == CHOOSE x \in s : TRUE

\* g has the sums of f over the subsets of S.
Sums(g, f, S) ==
  g = [s \in SUBSET S |-> IF s = {} THEN 0 ELSE f[Pick(s)] + g[s \ {Pick(s)}]]

LEMMA PickIn == ASSUME NEW s, s # {} PROVE Pick(s) \in s
BY DEF Pick

LEMMA SumsExist ==
  ASSUME NEW S, IsFiniteSet(S), NEW f, \A x \in S : f[x] \in Nat
  PROVE  \E g \in [SUBSET S -> Nat] : Sums(g, f, S)
<1>. DEFINE SumAt(g, s) == IF s = {} THEN 0 ELSE f[Pick(s)] + g[s \ {Pick(s)}]
            UpTo(n, g) == \A s \in SUBSET S : Cardinality(s) <= n => g[s] = SumAt(g, s)
            Bad == {n \in Nat : ~\E g \in [SUBSET S -> Nat] : UpTo(n, g)}
<1>1. \A s \in SUBSET S : Cardinality(s) \in Nat /\ (Cardinality(s) = 0 => s = {})
  BY FS_Subset, FS_CardinalityType, FS_EmptySet
<1>2. ASSUME NEW s \in SUBSET S, s # {}
      PROVE  /\ Pick(s) \in S /\ f[Pick(s)] \in Nat /\ s \ {Pick(s)} \in SUBSET S
             /\ Cardinality(s \ {Pick(s)}) = Cardinality(s) - 1
  <2>1. IsFiniteSet(s) /\ Pick(s) \in s
    BY <1>2, FS_Subset, PickIn
  <2>. QED
    BY <2>1, FS_RemoveElement
<1>3. Bad = {}
  <2>. SUFFICES ASSUME Bad # {} PROVE FALSE
    OBVIOUS
  <2>1. PICK n \in Bad : \A k \in Bad : n <= k
    BY LeastNatural
  <2>2. n \in Nat /\ ~\E g \in [SUBSET S -> Nat] : UpTo(n, g)
    OBVIOUS
  <2>3. n # 0
    <3>. DEFINE g == [s \in SUBSET S |-> 0]
    <3>1. g \in [SUBSET S -> Nat]
      OBVIOUS
    <3>2. UpTo(0, g)
      BY <1>1
    <3>. HIDE DEF UpTo, g
    <3>. QED
      BY <2>2, <3>1, <3>2
  <2>4. n - 1 \in Nat /\ n - 1 \notin Bad
    <3>1. n - 1 \in Nat /\ ~(n <= n - 1)
      BY <2>2, <2>3
    <3>. HIDE DEF Bad
    <3>. QED
      BY <2>1, <3>1
  <2>5. PICK g \in [SUBSET S -> Nat] : UpTo(n - 1, g)
    BY <2>4
  <2>. DEFINE h == [s \in SUBSET S |-> IF Cardinality(s) <= n - 1 THEN g[s] ELSE SumAt(g, s)]
  <2>6. h \in [SUBSET S -> Nat]
    BY <1>2
  <2>7. ASSUME NEW s \in SUBSET S, Cardinality(s) <= n PROVE h[s] = SumAt(h, s)
    <3>1. CASE s = {}
      <4>1. Cardinality(s) <= n - 1
        BY <2>2, <2>4, <3>1, FS_EmptySet
      <4>. QED
        BY <2>5, <3>1, <4>1
    <3>2. CASE s # {}
      <4>. DEFINE r == s \ {Pick(s)}
      <4>1. r \in SUBSET S /\ Cardinality(r) = Cardinality(s) - 1
        BY <1>2, <3>2
      <4>2. Cardinality(r) <= n - 1
        BY <1>1, <2>2, <2>7, <4>1
      <4>3. h[r] = g[r]
        BY <4>1, <4>2
      <4>4. h[s] = SumAt(g, s)
        BY <2>5
      <4>. QED
        BY <3>2, <4>3, <4>4
    <3>. QED
      BY <3>1, <3>2
  <2>8. UpTo(n, h)
    BY <2>7
  <2>. QED
    BY <2>2, <2>6, <2>8
<1>4. Cardinality(S) \in Nat /\ \A s \in SUBSET S : Cardinality(s) <= Cardinality(S)
  BY FS_CardinalityType, FS_Subset
<1>5. PICK g \in [SUBSET S -> Nat] : UpTo(Cardinality(S), g)
  BY <1>3, <1>4
<1>6. \A s \in SUBSET S : g[s] = SumAt(g, s)
  BY <1>4, <1>5
<1>7. g = [s \in SUBSET S |-> g[s]]
  OBVIOUS
<1>8. g = [s \in SUBSET S |-> SumAt(g, s)]
  BY <1>6, <1>7
<1>. QED
  BY <1>8 DEF Sums

\* The sums over two sets agree where both have them.
LEMMA SumsUnique ==
  ASSUME NEW S, IsFiniteSet(S), NEW T \in SUBSET S, NEW f, NEW g, NEW h,
         Sums(g, f, S), Sums(h, f, T)
  PROVE  \A s \in SUBSET T : g[s] = h[s]
<1>. DEFINE Bad == {n \in Nat : \E s \in SUBSET T : Cardinality(s) = n /\ g[s] # h[s]}
<1>1. Bad = {}
  <2>. SUFFICES ASSUME Bad # {} PROVE FALSE
    OBVIOUS
  <2>1. PICK n \in Bad : \A k \in Bad : n <= k
    BY LeastNatural
  <2>2. PICK s \in SUBSET T : Cardinality(s) = n /\ g[s] # h[s]
    OBVIOUS
  <2>3. s # {}
    BY <2>2 DEF Sums
  <2>. DEFINE r == s \ {Pick(s)}
  <2>4. IsFiniteSet(s) /\ r \in SUBSET T /\ Pick(s) \in s
    BY <2>3, FS_Subset, PickIn
  <2>5. Cardinality(r) = n - 1 /\ Cardinality(r) \in Nat
    BY <2>2, <2>4, FS_RemoveElement, FS_CardinalityType
  <2>6. g[r] = h[r]
    BY <2>1, <2>4, <2>5
  <2>7. g[s] = f[Pick(s)] + g[r] /\ h[s] = f[Pick(s)] + h[r]
    BY <2>2, <2>3 DEF Sums
  <2>. QED
    BY <2>2, <2>6, <2>7
<1>2. \A s \in SUBSET T : Cardinality(s) \in Nat
  BY FS_Subset, FS_CardinalityType
<1>. QED
  BY <1>1, <1>2

\* What SumFunctionOnSet of the Functions module returns.
LEMMA SumIs ==
  ASSUME NEW S, IsFiniteSet(S), NEW f, \A x \in S : f[x] \in Nat
  PROVE  \E g \in [SUBSET S -> Nat] : Sums(g, f, S) /\ SumFunctionOnSet(f, S) = g[S]
<1>. DEFINE i == CHOOSE g : Sums(g, f, S)
<1>1. Sums(i, f, S)
  BY SumsExist
<1>2. SumFunctionOnSet(f, S) = i[S]
  BY DEF SumFunctionOnSet, FoldFunctionOnSet, MapThenFoldSet, Sums, Pick
<1>3. i \in [SUBSET S -> Nat]
  <2>1. PICK g \in [SUBSET S -> Nat] : Sums(g, f, S)
    BY SumsExist
  <2>2. \A s \in SUBSET S : i[s] = g[s]
    BY <1>1, <2>1, SumsUnique
  <2>. QED
    BY <1>1, <2>1, <2>2 DEF Sums
<1>. QED
  BY <1>1, <1>2, <1>3

\* The sum over no element, and over one element more, in whatever order the fold takes
\* them.
LEMMA SumStep ==
  ASSUME NEW S, IsFiniteSet(S), NEW f, \A x \in S : f[x] \in Nat
  PROVE  /\ SumFunctionOnSet(f, S) \in Nat
         /\ S = {} => SumFunctionOnSet(f, S) = 0
         /\ \A x \in S : SumFunctionOnSet(f, S) = f[x] + SumFunctionOnSet(f, S \ {x})
<1>1. PICK g \in [SUBSET S -> Nat] : Sums(g, f, S) /\ SumFunctionOnSet(f, S) = g[S]
  BY SumIs
<1>2. \A s \in SUBSET S : g[s] = IF s = {} THEN 0 ELSE f[Pick(s)] + g[s \ {Pick(s)}]
  BY <1>1 DEF Sums
<1>3. \A s \in SUBSET S : IsFiniteSet(s) /\ Cardinality(s) \in Nat
  BY FS_Subset, FS_CardinalityType
<1>. DEFINE Bad == {n \in Nat : \E s \in SUBSET S : Cardinality(s) = n
                                  /\ \E x \in s : g[s] # f[x] + g[s \ {x}]}
<1>4. Bad = {}
  <2>. SUFFICES ASSUME Bad # {} PROVE FALSE
    OBVIOUS
  <2>1. PICK n \in Bad : \A k \in Bad : n <= k
    BY LeastNatural
  <2>a. PICK s \in SUBSET S : Cardinality(s) = n /\ \E x \in s : g[s] # f[x] + g[s \ {x}]
    OBVIOUS
  <2>2. PICK x \in s : Cardinality(s) = n /\ g[s] # f[x] + g[s \ {x}]
    BY <2>a
  <2>. DEFINE y == Pick(s)
  <2>3. y \in s /\ g[s] = f[y] + g[s \ {y}]
    BY <1>2, <2>2, PickIn
  <2>. HIDE DEF y
  <2>4. x # y
    BY <2>2, <2>3
  <2>5. \A z \in s : /\ s \ {z} \in SUBSET S /\ Cardinality(s \ {z}) = n - 1
                     /\ Cardinality(s \ {z}) \in Nat
    BY <1>3, <2>2, FS_RemoveElement
  <2>6. n - 1 \notin Bad /\ n - 1 \in Nat
    BY <2>1, <2>2, <2>5
  <2>7. g[s \ {y}] = f[x] + g[(s \ {y}) \ {x}]
    BY <2>3, <2>4, <2>5, <2>6
  <2>8. g[s \ {x}] = f[y] + g[(s \ {x}) \ {y}]
    BY <2>3, <2>4, <2>5, <2>6
  <2>9. (s \ {y}) \ {x} = (s \ {x}) \ {y}
    OBVIOUS
  <2>10. f[x] \in Nat /\ f[y] \in Nat /\ g[(s \ {x}) \ {y}] \in Nat
    BY <2>3
  <2>11. f[y] + (f[x] + g[(s \ {x}) \ {y}]) = f[x] + (f[y] + g[(s \ {x}) \ {y}])
    BY <2>10
  <2>12. g[s] = f[x] + g[s \ {x}]
    BY <2>3, <2>7, <2>8, <2>9, <2>11, Zenon
  <2>. QED
    BY <2>2, <2>12
<1>5. \A x \in S : g[S] = f[x] + g[S \ {x}]
  BY <1>3, <1>4
<1>6. ASSUME NEW x \in S PROVE SumFunctionOnSet(f, S \ {x}) = g[S \ {x}]
  <2>. DEFINE T == S \ {x}
  <2>1. T \in SUBSET S /\ IsFiniteSet(T) /\ \A z \in T : f[z] \in Nat
    BY FS_Subset
  <2>. HIDE DEF T
  <2>2. PICK h \in [SUBSET T -> Nat] : Sums(h, f, T) /\ SumFunctionOnSet(f, T) = h[T]
    BY <2>1, SumIs
  <2>3. g[T] = h[T]
    BY <1>1, <2>1, <2>2, SumsUnique
  <2>. QED
    BY <2>2, <2>3 DEF T
<1>7. SumFunctionOnSet(f, S) \in Nat /\ (S = {} => SumFunctionOnSet(f, S) = 0)
  BY <1>1, <1>2
<1>. QED
  BY <1>1, <1>5, <1>6, <1>7

\* Two functions that agree on a set have the same sum over it.
LEMMA SumSame ==
  ASSUME NEW S, IsFiniteSet(S), NEW f, NEW g, \A x \in S : f[x] \in Nat /\ g[x] = f[x]
  PROVE  SumFunctionOnSet(g, S) = SumFunctionOnSet(f, S)
<1>1. PICK i \in [SUBSET S -> Nat] : Sums(i, f, S) /\ SumFunctionOnSet(f, S) = i[S]
  BY SumIs
<1>2. PICK j \in [SUBSET S -> Nat] : Sums(j, g, S) /\ SumFunctionOnSet(g, S) = j[S]
  BY SumIs
<1>3. \A s \in SUBSET S : s # {} => g[Pick(s)] = f[Pick(s)]
  BY PickIn
<1>4. Sums(j, f, S)
  BY <1>2, <1>3 DEF Sums
<1>5. i[S] = j[S]
  BY <1>1, <1>4, SumsUnique
<1>. QED
  BY <1>1, <1>2, <1>5

\* A sum of zeros.
LEMMA SumZero ==
  ASSUME NEW S, IsFiniteSet(S), NEW f, \A x \in S : f[x] = 0
  PROVE  SumFunctionOnSet(f, S) = 0
<1>0. \A x \in S : f[x] \in Nat
  OBVIOUS
<1>1. PICK i \in [SUBSET S -> Nat] : Sums(i, f, S) /\ SumFunctionOnSet(f, S) = i[S]
  BY <1>0, SumIs
<1>. DEFINE z == [s \in SUBSET S |-> 0]
<1>2. \A s \in SUBSET S : s # {} => f[Pick(s)] = 0
  BY PickIn
<1>3. Sums(z, f, S)
  BY <1>2 DEF Sums
<1>4. i[S] = z[S]
  BY <1>1, <1>3, SumsUnique
<1>. QED
  BY <1>1, <1>4

-----------------------------------------------------------------------------
(* What is registered is counted. *)

\* How often the clients register a model of which client d lists n[d]: all of them,
\* those of provider p, and the ones besides c.
Total(n) == SumFunctionOnSet(n, Client)
TotalOf(n, w, p) == SumFunctionOnSet(n, {d \in Client : w[d] = p})
Others(n, c) == SumFunctionOnSet(n, Client \ {c})
OthersOf(n, w, c, p) == SumFunctionOnSet(n, {d \in Client \ {c} : w[d] = p})

Lists == [Client -> Nat]
Providers == [Client -> Provider \cup {Nil}]

\* The registrations of c count beside those of the others.
LEMMA TotalAround ==
  ASSUME NEW n \in Lists, NEW w \in Providers, NEW c \in Client
  PROVE  /\ Total(n) = n[c] + Others(n, c) /\ Others(n, c) \in Nat
         /\ \A p \in Provider :
              /\ TotalOf(n, w, p) = (IF w[c] = p THEN n[c] ELSE 0) + OthersOf(n, w, c, p)
              /\ OthersOf(n, w, c, p) \in Nat
              /\ Others(n, c) = 0 => OthersOf(n, w, c, p) = 0
<1>1. /\ IsFiniteSet(Client) /\ IsFiniteSet(Client \ {c})
      /\ \A d \in Client : n[d] \in Nat
  BY RegistryAssumption, FS_Subset DEF Lists
<1>2. Total(n) = n[c] + Others(n, c) /\ Others(n, c) \in Nat
  BY <1>1, SumStep DEF Total, Others
<1>3. ASSUME NEW p \in Provider
      PROVE  /\ TotalOf(n, w, p) = (IF w[c] = p THEN n[c] ELSE 0) + OthersOf(n, w, c, p)
             /\ OthersOf(n, w, c, p) \in Nat
             /\ Others(n, c) = 0 => OthersOf(n, w, c, p) = 0
  <2>. DEFINE all == {d \in Client : w[d] = p}
              rest == {d \in Client \ {c} : w[d] = p}
  <2>1. IsFiniteSet(all) /\ IsFiniteSet(rest)
    BY <1>1, FS_Subset
  <2>0. TotalOf(n, w, p) = SumFunctionOnSet(n, all)
        /\ OthersOf(n, w, c, p) = SumFunctionOnSet(n, rest)
    BY DEF TotalOf, OthersOf
  <2>2. SumFunctionOnSet(n, rest) \in Nat
    BY <1>1, <2>1, SumStep
  <2>3. ASSUME w[c] = p
        PROVE  TotalOf(n, w, p) = (IF w[c] = p THEN n[c] ELSE 0) + OthersOf(n, w, c, p)
    <3>1. c \in all /\ rest = all \ {c}
      BY <2>3
    <3>2. SumFunctionOnSet(n, all) = n[c] + SumFunctionOnSet(n, all \ {c})
      BY <1>1, <2>1, <3>1, SumStep
    <3>. HIDE DEF all, rest
    <3>. QED
      BY <2>0, <2>2, <2>3, <3>1, <3>2
  <2>4. ASSUME w[c] # p
        PROVE  TotalOf(n, w, p) = (IF w[c] = p THEN n[c] ELSE 0) + OthersOf(n, w, c, p)
    <3>1. rest = all
      BY <2>4
    <3>. HIDE DEF all, rest
    <3>. QED
      BY <2>0, <2>2, <2>4, <3>1
  <2>5. ASSUME Others(n, c) = 0 PROVE OthersOf(n, w, c, p) = 0
    <3>1. ASSUME NEW d \in Client \ {c} PROVE n[d] = 0
      <4>1. /\ Others(n, c) = n[d] + SumFunctionOnSet(n, (Client \ {c}) \ {d})
            /\ IsFiniteSet((Client \ {c}) \ {d})
        BY <1>1, SumStep, FS_Subset DEF Others
      <4>2. SumFunctionOnSet(n, (Client \ {c}) \ {d}) \in Nat
        BY <1>1, <4>1, SumStep
      <4>3. n[d] \in Nat
        BY <1>1
      <4>. QED
        BY <2>5, <4>1, <4>2, <4>3
    <3>. QED
      BY <2>1, <3>1, SumZero DEF OthersOf
  <2>. QED
    BY <2>2, <2>3, <2>4, <2>5 DEF OthersOf
<1>. QED
  BY <1>2, <1>3

\* What c lists, and for which provider, is nothing to the others.
LEMMA OthersSame ==
  ASSUME NEW n \in Lists, NEW c \in Client, NEW n2, \A d \in Client \ {c} : n2[d] = n[d]
  PROVE  Others(n2, c) = Others(n, c)
<1>1. IsFiniteSet(Client \ {c}) /\ \A d \in Client : n[d] \in Nat
  BY RegistryAssumption, FS_Subset DEF Lists
<1>. QED
  BY <1>1, SumSame DEF Others

LEMMA OthersOfSame ==
  ASSUME NEW n \in Lists, NEW w, NEW c \in Client, NEW n2, NEW w2, NEW p,
         \A d \in Client \ {c} : n2[d] = n[d] /\ w2[d] = w[d]
  PROVE  OthersOf(n2, w2, c, p) = OthersOf(n, w, c, p)
<1>. DEFINE rest == {d \in Client \ {c} : w[d] = p}
<1>1. IsFiniteSet(Client \ {c}) /\ \A d \in Client : n[d] \in Nat
  BY RegistryAssumption, FS_Subset DEF Lists
<1>2. rest = {d \in Client \ {c} : w2[d] = p} /\ IsFiniteSet(rest)
  BY <1>1, FS_Subset
<1>3. SumFunctionOnSet(n2, rest) = SumFunctionOnSet(n, rest)
  BY <1>1, <1>2, SumSame
<1>. QED
  BY <1>2, <1>3 DEF OthersOf

\* The counts of an entry, whatever its marks.
LEMMA AddedCounts ==
  ASSUME NEW e \in Registration, NEW p \in Provider, NEW k \in Nat
  PROVE  /\ Added(e, p, k).count = e.count + k
         /\ \A q \in Provider : Added(e, p, k).providers[q] =
              IF q = p THEN e.providers[q] + k ELSE e.providers[q]
BY DEF Added, Registration

LEMMA ClearedCounts ==
  ASSUME NEW e \in Registration, NEW c \in Client
  PROVE  Cleared(e, c).count = e.count /\ Cleared(e, c).providers = e.providers
BY DEF Cleared, Registration

LEMMA RemovedCounts ==
  ASSUME NEW e \in Registration, NEW c \in Client, NEW p \in Provider, NEW k \in Nat
  PROVE  /\ Removed(e, c, p, k).count = Minus(e.count, k)
         /\ \A q \in Provider : Removed(e, c, p, k).providers[q] =
              IF e.count <= k THEN 0
              ELSE IF q = p THEN Minus(e.providers[q], k) ELSE e.providers[q]
<1>1. e.count \in Nat
  BY DEF Registration
<1>2. CASE e.count <= k
  <2>1. Removed(e, c, p, k) = NoRegistration /\ Minus(e.count, k) = 0
    BY <1>1, <1>2 DEF Removed, Minus
  <2>. QED
    BY <1>2, <2>1 DEF NoRegistration
<1>3. CASE ~(e.count <= k)
  <2>. DEFINE d == Cleared(e, c)
              y == Minus(d.providers[p], k)
  <2>1. d \in Registration /\ d.count = e.count /\ d.providers = e.providers
    BY ClearedType, ClearedCounts
  <2>2. Removed(e, c, p, k) = [d EXCEPT !.count = d.count - k, !.providers[p] = y]
    BY <1>3 DEF Removed
  <2>. HIDE DEF d, y
  <2>3. /\ Removed(e, c, p, k).count = d.count - k
        /\ \A q \in Provider :
             Removed(e, c, p, k).providers[q] = IF q = p THEN y ELSE d.providers[q]
    BY <2>1, <2>2 DEF Registration
  <2>4. Minus(e.count, k) = e.count - k
    BY <1>1, <1>3 DEF Minus
  <2>. QED
    BY <1>3, <2>1, <2>3, <2>4 DEF y
<1>. QED
  BY <1>2, <1>3

LEMMA MovedCounts ==
  ASSUME NEW e \in Registration, NEW p \in Provider, NEW k \in Nat
  PROVE  /\ MovedOut(e, p, k).count = e.count /\ MovedIn(e, p, k).count = e.count
         /\ \A q \in Provider :
              /\ MovedOut(e, p, k).providers[q] =
                   IF q = p THEN Minus(e.providers[q], k) ELSE e.providers[q]
              /\ MovedIn(e, p, k).providers[q] =
                   IF q = p THEN e.providers[q] + k ELSE e.providers[q]
<1>1. \A x \in Nat : /\ [e EXCEPT !.providers[p] = x].count = e.count
                     /\ \A q \in Provider : [e EXCEPT !.providers[p] = x].providers[q] =
                          IF q = p THEN x ELSE e.providers[q]
  BY DEF Registration
<1>2. e.providers[p] \in Nat
  BY DEF Registration
<1>3. Minus(e.providers[p], k) \in Nat
  BY <1>2, MinusNat
<1>4. \A x \in Nat : x + k \in Nat
  OBVIOUS
<1>. QED
  BY <1>1, <1>2, <1>3, <1>4 DEF MovedOut, MovedIn

\* Besides r others, of which ro[q] are of provider q, entry e counts k registrations, and
\* j of them for provider p.
Holds(e, p, k, j, r, ro) ==
  /\ e.count = k + r
  /\ \A q \in Provider : e.providers[q] = (IF q = p THEN j ELSE 0) + ro[q]

LEMMA AddedHolds ==
  ASSUME NEW e \in Entry, NEW p \in Provider, NEW n \in Nat, NEW k \in Nat, NEW j \in Nat,
         NEW r \in Nat, NEW ro \in [Provider -> Nat], Holds(e, p, k, j, r, ro)
  PROVE  Holds(Added(e, p, n), p, k + n, j + n, r, ro)
<1>1. e \in Registration /\ e.count = k + r
  BY DEF Entry, Holds
<1>2. Added(e, p, n).count = (k + n) + r
  BY <1>1, AddedCounts
<1>3. ASSUME NEW q \in Provider
      PROVE  Added(e, p, n).providers[q] = (IF q = p THEN j + n ELSE 0) + ro[q]
  <2>1. ro[q] \in Nat /\ e.providers[q] = (IF q = p THEN j ELSE 0) + ro[q]
    BY DEF Holds
  <2>2. Added(e, p, n).providers[q] = IF q = p THEN e.providers[q] + n ELSE e.providers[q]
    BY <1>1, AddedCounts
  <2>. QED
    BY <2>1, <2>2
<1>. QED
  BY <1>2, <1>3 DEF Holds

\* The last registration takes the entry with it, and then there are no others.
LEMMA RemovedHolds ==
  ASSUME NEW e \in Entry, NEW c \in Client, NEW p \in Provider, NEW n \in Nat,
         NEW k \in Nat, NEW j \in Nat, NEW r \in Nat, NEW ro \in [Provider -> Nat],
         Holds(e, p, k, j, r, ro), n <= j, j <= k,
         r = 0 => \A q \in Provider : ro[q] = 0
  PROVE  Holds(Removed(e, c, p, n), p, k - n, j - n, r, ro)
<1>1. e \in Registration /\ e.count = k + r
  BY DEF Entry, Holds
<1>2. Minus(k + r, n) = (k - n) + r /\ (k + r <= n => j - n = 0 /\ r = 0)
  BY DEF Minus
<1>3. ASSUME NEW q \in Provider
      PROVE  Removed(e, c, p, n).providers[q] = (IF q = p THEN j - n ELSE 0) + ro[q]
  <2>1. ro[q] \in Nat /\ e.providers[q] = (IF q = p THEN j ELSE 0) + ro[q]
    BY DEF Holds
  <2>2. Minus(j + ro[q], n) = (j - n) + ro[q]
    BY <2>1 DEF Minus
  <2>3. Removed(e, c, p, n).providers[q] =
          IF k + r <= n THEN 0 ELSE IF q = p THEN Minus(e.providers[q], n) ELSE e.providers[q]
    BY <1>1, RemovedCounts
  <2>4. CASE k + r <= n
    BY <1>2, <2>3, <2>4
  <2>5. CASE ~(k + r <= n)
    BY <2>1, <2>2, <2>3, <2>5
  <2>. QED
    BY <2>4, <2>5
<1>. QED
  BY <1>1, <1>2, <1>3, RemovedCounts DEF Holds

LEMMA MovedHolds ==
  ASSUME NEW e \in Registration, NEW p \in Provider, NEW n \in Nat, NEW k \in Nat,
         NEW j \in Nat, NEW r \in Nat, NEW ro \in [Provider -> Nat], Holds(e, p, k, j, r, ro)
  PROVE  /\ n <= j => Holds(MovedOut(e, p, n), p, k, j - n, r, ro)
         /\ Holds(MovedIn(e, p, n), p, k, j + n, r, ro)
<1>1. MovedOut(e, p, n).count = k + r /\ MovedIn(e, p, n).count = k + r
  BY MovedCounts DEF Holds
<1>2. ASSUME NEW q \in Provider
      PROVE  /\ n <= j => MovedOut(e, p, n).providers[q] = (IF q = p THEN j - n ELSE 0) + ro[q]
             /\ MovedIn(e, p, n).providers[q] = (IF q = p THEN j + n ELSE 0) + ro[q]
  <2>1. ro[q] \in Nat /\ e.providers[q] = (IF q = p THEN j ELSE 0) + ro[q]
    BY DEF Holds
  <2>2. n <= j => Minus(j + ro[q], n) = (j - n) + ro[q]
    BY <2>1 DEF Minus
  <2>3. /\ MovedOut(e, p, n).providers[q] =
             IF q = p THEN Minus(e.providers[q], n) ELSE e.providers[q]
        /\ MovedIn(e, p, n).providers[q] =
             IF q = p THEN e.providers[q] + n ELSE e.providers[q]
    BY MovedCounts
  <2>. QED
    BY <2>1, <2>2, <2>3
<1>. QED
  BY <1>1, <1>2 DEF Holds

\* The provider changes, the model list changes, or both, and the others count as before.
LEMMA ReconciledHolds ==
  ASSUME NEW e \in Entry, NEW c \in Client, NEW from \in Provider, NEW to \in Provider,
         NEW old \in Nat, NEW new \in Nat, NEW r \in Nat, NEW ro \in [Provider -> Nat],
         Holds(e, from, old, old, r, ro), r = 0 => \A q \in Provider : ro[q] = 0
  PROVE  Holds(Reconciled(e, c, from, to, old, new), to, new, new, r, ro)
<1> DEFINE kept    == Smaller(old, new)
           moved   == IF from = to THEN e ELSE MovedOut(e, from, kept)
           removed == IF old > new THEN Removed(moved, c, from, old - new) ELSE moved
           added   == IF new > old THEN Added(removed, to, new - old) ELSE removed
           j       == IF from = to THEN 0 ELSE kept
<1>1. /\ kept \in Nat /\ kept <= old /\ kept <= new /\ (old > new => kept = new)
      /\ (~(old > new) => kept = old)
  BY DEF Smaller
<1>2. Reconciled(e, c, from, to, old, new) =
        IF new = 0 \/ added.count = 0 THEN added
        ELSE IF from = to THEN Cleared(added, c)
        ELSE MovedIn(Cleared(added, c), to, kept)
  BY DEF Reconciled, added, removed, moved, kept
<1> HIDE DEF kept
<1>3. moved \in Entry /\ Holds(moved, from, old, old - j, r, ro)
  <2>1. e \in Registration
    BY DEF Entry
  <2>2. CASE from = to
    BY <2>2
  <2>3. CASE from # to
    BY <1>1, <2>1, <2>3, MovedOutType, MovedHolds
  <2>. QED
    BY <2>2, <2>3
<1> HIDE DEF moved
<1>4. /\ removed \in Entry
      /\ old > new => Holds(removed, from, new, new - j, r, ro)
      /\ ~(old > new) => Holds(removed, from, old, old - j, r, ro)
  <2>1. CASE old > new
    <3>1. /\ old - new \in Nat /\ old - j \in Nat /\ old - new <= old - j /\ old - j <= old
          /\ old - (old - new) = new /\ (old - j) - (old - new) = new - j
      BY <1>1, <2>1
    <3>2. removed \in Entry
      BY <1>3, <2>1, <3>1, RemovedType
    <3>3. Holds(Removed(moved, c, from, old - new), from, old - (old - new),
                (old - j) - (old - new), r, ro)
      BY <1>3, <3>1, RemovedHolds
    <3>. QED
      BY <2>1, <3>1, <3>2, <3>3
  <2>2. CASE ~(old > new)
    BY <1>3, <2>2
  <2>. QED
    BY <2>1, <2>2
<1> HIDE DEF removed
<1>5. /\ removed \in Entry
      /\ old > new => Holds(removed, to, new, new - j, r, ro)
      /\ ~(old > new) => Holds(removed, to, old, old - j, r, ro)
  <2>1. CASE from = to
    BY <1>4, <2>1
  <2>2. CASE from # to
    <3>1. (old > new => new - j = 0) /\ (~(old > new) => old - j = 0)
      BY <1>1, <2>2
    <3>. HIDE DEF j
    <3>2. \A n \in Nat : Holds(removed, from, n, 0, r, ro) => Holds(removed, to, n, 0, r, ro)
      BY DEF Holds
    <3>. QED
      BY <1>4, <3>1, <3>2
  <2>. QED
    BY <2>1, <2>2
<1>6. added \in Entry /\ Holds(added, to, new, new - j, r, ro)
  <2>1. CASE new > old
    <3>1. /\ new - old \in Nat /\ old - j \in Nat /\ ~(old > new)
          /\ old + (new - old) = new /\ (old - j) + (new - old) = new - j
      BY <1>1, <2>1
    <3>2. added \in Entry
      BY <1>5, <2>1, <3>1, AddedType
    <3>3. Holds(Added(removed, to, new - old), to, old + (new - old),
                (old - j) + (new - old), r, ro)
      BY <1>5, <3>1, AddedHolds
    <3>. QED
      BY <2>1, <3>1, <3>2, <3>3
  <2>2. CASE ~(new > old)
    <3>1. old > new \/ old = new
      BY <2>2
    <3>. QED
      BY <1>5, <2>2, <3>1
  <2>. QED
    BY <2>1, <2>2
<1> HIDE DEF added
<1>7. added \in Registration /\ added.count = new + r
  BY <1>6 DEF Entry, Holds
<1>8. CASE new = 0
  <2>1. kept = 0 /\ new - 0 = new
    BY <1>1, <1>8
  <2>2. new - j = new
    BY <2>1
  <2>. QED
    BY <1>2, <1>6, <1>8, <2>2
<1>9. CASE new # 0
  <2>1. added.count # 0
    BY <1>7, <1>9
  <2>2. Cleared(added, c) \in Registration /\ Holds(Cleared(added, c), to, new, new - j, r, ro)
    BY <1>6, <1>7, ClearedType, ClearedCounts DEF Holds
  <2>3. CASE from = to
    BY <1>2, <1>9, <2>1, <2>2, <2>3
  <2>4. CASE from # to
    <3>1. new - j \in Nat /\ (new - j) + kept = new
      BY <1>1, <2>4
    <3>2. Holds(MovedIn(Cleared(added, c), to, kept), to, new, (new - j) + kept, r, ro)
      BY <1>1, <2>2, <3>1, MovedHolds
    <3>. QED
      BY <1>2, <1>9, <2>1, <2>4, <3>1, <3>2
  <2>. QED
    BY <2>3, <2>4
<1>. QED
  BY <1>8, <1>9

\* The counts of model m are exact.
Exact(m) ==
  /\ models[m].count = Total(Listed(m))
  /\ \A p \in Provider : models[m].providers[p] = TotalOf(Listed(m), clientProviders, p)

\* CountsExact and ProvidersExact.  With the types they are inductive: the counts are
\* changed by differences only, and are right because they were.
ExactInv == TypeOK /\ \A m \in Model : Exact(m)

LEMMA ListedType ==
  ASSUME TypeOK, NEW m \in Model
  PROVE  Listed(m) \in Lists /\ clientProviders \in Providers
BY DEF TypeOK, Listed, Lists, Providers

\* Exact, told from client c.
LEMMA ExactAround ==
  ASSUME NEW n \in Lists, NEW w \in Providers, NEW c \in Client, NEW e,
         NEW p, w[c] = p \/ n[c] = 0
  PROVE  (/\ e.count = Total(n)
          /\ \A q \in Provider : e.providers[q] = TotalOf(n, w, q))
         <=> Holds(e, p, n[c], n[c], Others(n, c), [q \in Provider |-> OthersOf(n, w, c, q)])
<1>1. n[c] \in Nat /\ Total(n) = n[c] + Others(n, c)
  BY TotalAround DEF Lists
<1>2. \A q \in Provider :
        TotalOf(n, w, q) = (IF q = p THEN n[c] ELSE 0) + OthersOf(n, w, c, q)
  BY TotalAround
<1>. QED
  BY <1>1, <1>2 DEF Holds

\* When only what c lists and its provider change, the counts that the step leaves have to
\* hold what c now lists besides the same others.
LEMMA ExactStep ==
  ASSUME TypeOK, TypeOK', NEW m \in Model, NEW c \in Client, Exact(m),
         NEW from, NEW to,
         clientProviders[c] = from \/ clientModels[c][m] = 0,
         clientProviders'[c] = to \/ clientModels'[c][m] = 0,
         \A d \in Client \ {c} : /\ clientModels'[d] = clientModels[d]
                                 /\ clientProviders'[d] = clientProviders[d],
         \A r \in Nat, ro \in [Provider -> Nat] :
           /\ Holds(models[m], from, clientModels[c][m], clientModels[c][m], r, ro)
           /\ r = 0 => \A q \in Provider : ro[q] = 0
           => Holds(models'[m], to, clientModels'[c][m], clientModels'[c][m], r, ro)
  PROVE  Exact(m)'
<1>. DEFINE n == Listed(m)
            w == clientProviders
            r == Others(n, c)
            ro == [q \in Provider |-> OthersOf(n, w, c, q)]
            n2 == [d \in Client |-> clientModels'[d][m]]
            w2 == clientProviders'
            e == models[m]
            e2 == models'[m]
<1>1. n \in Lists /\ w \in Providers /\ n2 \in Lists /\ w2 \in Providers
  BY DEF TypeOK, Listed, Lists, Providers
<1>2. n[c] = clientModels[c][m] /\ n2[c] = clientModels'[c][m]
  BY DEF Listed
<1>3. \A d \in Client \ {c} : n2[d] = n[d] /\ w2[d] = w[d]
  BY DEF Listed
<1>4. /\ e.count = Total(n)
      /\ \A q \in Provider : e.providers[q] = TotalOf(n, w, q)
  BY DEF Exact
<1>5. Listed(m)' = n2
  BY DEF Listed
<1>6. (w[c] = from \/ n[c] = 0) /\ (w2[c] = to \/ n2[c] = 0)
  BY <1>2
<1>7. (/\ e2.count = Total(n2)
       /\ \A q \in Provider : e2.providers[q] = TotalOf(n2, w2, q)) => Exact(m)'
  BY <1>5 DEF Exact
<1>8. \A r0 \in Nat, ro0 \in [Provider -> Nat] :
        /\ Holds(e, from, n[c], n[c], r0, ro0)
        /\ r0 = 0 => \A q \in Provider : ro0[q] = 0
        => Holds(e2, to, n2[c], n2[c], r0, ro0)
  BY <1>2
<1>. HIDE DEF n, w, n2, w2, e, e2
<1>9. /\ r \in Nat /\ ro \in [Provider -> Nat]
      /\ r = 0 => \A q \in Provider : ro[q] = 0
  BY <1>1, TotalAround
<1>10. Holds(e, from, n[c], n[c], r, ro)
  BY <1>1, <1>4, <1>6, ExactAround
<1>11. /\ r = Others(n2, c)
      /\ ro = [q \in Provider |-> OthersOf(n2, w2, c, q)]
  <2>1. \A q \in Provider : OthersOf(n2, w2, c, q) = OthersOf(n, w, c, q)
    BY <1>1, <1>3, OthersOfSame
  <2>2. r = Others(n2, c)
    BY <1>1, <1>3, OthersSame
  <2>3. ro = [q \in Provider |-> OthersOf(n2, w2, c, q)]
    BY <2>1, Zenon
  <2>. QED
    BY <2>2, <2>3
<1>. HIDE DEF r, ro
<1>12. Holds(e2, to, n2[c], n2[c], r, ro)
  BY <1>8, <1>9, <1>10
<1>13. Holds(e2, to, n2[c], n2[c], Others(n2, c), [q \in Provider |-> OthersOf(n2, w2, c, q)])
  BY <1>11, <1>12
<1>14. /\ e2.count = Total(n2)
       /\ \A q \in Provider : e2.providers[q] = TotalOf(n2, w2, q)
  BY <1>1, <1>6, <1>13, ExactAround
<1>. QED
  BY <1>7, <1>14

LEMMA UnregisterExact ==
  ASSUME TypeOK, TypeOK', NEW c \in Client, UnregisterClient(c), NEW m \in Model, Exact(m)
  PROVE  Exact(m)'
<1>. DEFINE k == clientModels[c][m]
            p == clientProviders[c]
<1>1. k \in Nat /\ clientModels'[c][m] = 0 /\ models[m] \in Entry
  BY TypeOfEntries DEF TypeOK, UnregisterClient, NoModels
<1>2. \A d \in Client \ {c} : /\ clientModels'[d] = clientModels[d]
                              /\ clientProviders'[d] = clientProviders[d]
  BY DEF TypeOK, UnregisterClient
<1>3. models'[m] = IF k = 0 THEN models[m] ELSE Removed(models[m], c, p, k)
  BY DEF UnregisterClient, Unregistered
<1>4. k # 0 => p \in Provider
  BY ProviderOfClient DEF NoModels
<1>. HIDE DEF k
<1>5. ASSUME NEW r \in Nat, NEW ro \in [Provider -> Nat],
             Holds(models[m], p, k, k, r, ro), r = 0 => \A q \in Provider : ro[q] = 0
      PROVE  Holds(models'[m], p, 0, 0, r, ro)
  <2>1. CASE k = 0
    BY <1>3, <1>5, <2>1
  <2>2. CASE k # 0
    <3>1. k <= k /\ k - k = 0
      BY <1>1
    <3>2. Holds(Removed(models[m], c, p, k), p, k - k, k - k, r, ro)
      BY <1>1, <1>4, <1>5, <2>2, <3>1, RemovedHolds
    <3>. QED
      BY <1>3, <2>2, <3>1, <3>2
  <2>. QED
    BY <2>1, <2>2
<1>. QED
  BY <1>1, <1>2, <1>5, ExactStep DEF k

LEMMA RegisterExact ==
  ASSUME TypeOK, TypeOK', NEW c \in Client, NEW to \in Provider, NEW list \in ModelLists,
         RegisterClient(c, to, list), NEW m \in Model, Exact(m)
  PROVE  Exact(m)'
<1>. DEFINE old == clientModels[c][m]
            new == list[m]
            from == IF Registered(c) THEN clientProviders[c] ELSE to
<1>1. list \in [Model -> Nat]
  BY RegistryAssumption
<1>2. /\ old \in Nat /\ new \in Nat /\ models[m] \in Entry /\ from \in Provider
      /\ ~Registered(c) => old = 0
  BY <1>1, TypeOfEntries, ProviderOfClient DEF TypeOK, Registered, NoModels
<1>3. clientModels'[c][m] = new /\ clientProviders'[c] = to
  BY DEF TypeOK, RegisterClient
<1>4. \A d \in Client \ {c} : /\ clientModels'[d] = clientModels[d]
                              /\ clientProviders'[d] = clientProviders[d]
  BY DEF TypeOK, RegisterClient
<1>5. models'[m] = IF Registered(c) THEN Reconciled(models[m], c, from, to, old, new)
                   ELSE Added(models[m], to, new)
  BY DEF RegisterClient
<1>6. clientProviders[c] = from \/ old = 0
  BY <1>2
<1>7. ~Registered(c) => from = to
  OBVIOUS
<1>. HIDE DEF old, new, from
<1>8. ASSUME NEW r \in Nat, NEW ro \in [Provider -> Nat],
             Holds(models[m], from, old, old, r, ro), r = 0 => \A q \in Provider : ro[q] = 0
      PROVE  Holds(models'[m], to, new, new, r, ro)
  <2>1. CASE Registered(c)
    BY <1>2, <1>5, <1>8, <2>1, ReconciledHolds
  <2>2. CASE ~Registered(c)
    <3>1. old = 0 /\ 0 + new = new /\ 0 \in Nat
      BY <1>2, <2>2
    <3>2. Holds(Added(models[m], to, new), to, 0 + new, 0 + new, r, ro)
      BY <1>2, <1>7, <1>8, <2>2, <3>1, AddedHolds
    <3>. QED
      BY <1>5, <2>2, <3>1, <3>2
  <2>. QED
    BY <2>1, <2>2
<1>. QED
  BY <1>3, <1>4, <1>6, <1>8, ExactStep DEF old

\* A step that changes nothing but marks.
LEMMA MarksExact ==
  ASSUME NEW m \in Model, Exact(m), UNCHANGED <<clientModels, clientProviders>>,
         models'[m].count = models[m].count, models'[m].providers = models[m].providers
  PROVE  Exact(m)'
<1>1. Listed(m)' = Listed(m)
  BY DEF Listed
<1>. QED
  BY <1>1 DEF Exact

LEMMA MarkedCounts ==
  ASSUME NEW e \in Registration, NEW c \in Client, NEW call \in Call
  PROVE  Marked(e, c, call).count = e.count /\ Marked(e, c, call).providers = e.providers
BY DEF Marked, Mark, Suspended, Call, Registration

LEMMA TellRegistryExact ==
  ASSUME TypeOK, NEW r \in Reporter, TellRegistry(r), NEW m \in Model, Exact(m)
  PROVE  Exact(m)'
<1>. DEFINE rep == reports[r]
<1>1. /\ rep \in Report /\ ReportOK(rep) /\ rep.phase = "report"
      /\ models' = [models EXCEPT ![rep.model] =
                      Marked(models[rep.model], rep.client, Head(rep.todo))]
      /\ UNCHANGED <<clientModels, clientProviders>>
  BY DEF TypeOK, TellRegistry
<1>. HIDE DEF rep
<1>2. rep.client \in Client /\ rep.model \in Model /\ Head(rep.todo) \in Call
  BY <1>1 DEF ReportOK, Report
<1>3. models \in [Model -> Registration]
  BY DEF TypeOK
<1>4. models'[m] = IF m = rep.model THEN Marked(models[m], rep.client, Head(rep.todo))
                   ELSE models[m]
  BY <1>1, <1>3
<1>5. models'[m].count = models[m].count /\ models'[m].providers = models[m].providers
  BY <1>2, <1>3, <1>4, MarkedCounts
<1>. QED
  BY <1>1, <1>5, MarksExact

LEMMA ExactNext == ExactInv /\ [Next]_vars => ExactInv'
<1>. SUFFICES ASSUME TypeOK, TypeOK', [Next]_vars, NEW m \in Model, Exact(m) PROVE Exact(m)'
  BY TypeNext DEF ExactInv
<1>1. ASSUME NEW c \in Client, UnregisterClient(c) PROVE Exact(m)'
  BY <1>1, UnregisterExact
<1>2. ASSUME NEW c \in Client, NEW p \in Provider, NEW list \in ModelLists,
             RegisterClient(c, p, list)
      PROVE  Exact(m)'
  BY <1>2, RegisterExact
<1>3. ASSUME NEW r \in Reporter, NEW c \in Client, NEW n \in Model, StartCall(r, c, n)
      PROVE  Exact(m)'
  BY <1>3, MarksExact DEF StartCall
<1>4. ASSUME NEW r \in Reporter, NEW kind \in Kind, MarkResult(r, kind) PROVE Exact(m)'
  BY <1>4, MarksExact DEF MarkResult
<1>5. ASSUME NEW r \in Reporter, TellRegistry(r) PROVE Exact(m)'
  BY <1>5, TellRegistryExact
<1>6. CASE Tick
  <2>1. models[m] \in Registration
    BY DEF TypeOK
  <2>2. models'[m].count = models[m].count /\ models'[m].providers = models[m].providers
    BY <1>6, <2>1 DEF Tick, Registration
  <2>. QED
    BY <1>6, <2>2, MarksExact DEF Tick
<1>7. CASE UNCHANGED vars
  BY <1>7, MarksExact DEF vars
<1>. QED
  BY <1>1, <1>2, <1>3, <1>4, <1>5, <1>6, <1>7 DEF Next

LEMMA ExactInit == Init => ExactInv
<1>. SUFFICES ASSUME Init, NEW m \in Model PROVE Exact(m)
  BY TypeInit DEF ExactInv
<1>1. Listed(m) = [c \in Client |-> 0] /\ IsFiniteSet(Client)
  BY RegistryAssumption DEF Init, Listed, NoModels
<1>2. \A S \in SUBSET Client : SumFunctionOnSet(Listed(m), S) = 0
  BY <1>1, SumZero, FS_Subset
<1>3. models[m] = NoRegistration
  BY DEF Init
<1>. QED
  BY <1>2, <1>3 DEF Exact, Total, TotalOf, NoRegistration

LEMMA ExactAlways == Spec => []ExactInv
BY ExactInit, ExactNext, PTL DEF Spec

\* The count of a model is the number of registrations its clients have made, for every
\* number of clients and however often a client lists the model, after any sequence of
\* registrations, reconciliations and removals (RegisterClient,
\* unregisterClientInternal): no model stays listed without a client, and none is dropped
\* while a client has it.
THEOREM RegistrationsCounted == Spec => []CountsExact
<1>1. ExactInv => CountsExact
  BY DEF ExactInv, Exact, Total, CountsExact
<1>. QED
  BY <1>1, ExactAlways, PTL

\* And so is the count of each of its providers, also after clients changed their provider
\* and their list at once: a model is routed to exactly the providers whose clients list
\* it (RegisterClient's reconciliation, GetModelProviders).
THEOREM ProvidersCounted == Spec => []ProvidersExact
<1>1. ExactInv => ProvidersExact
  BY DEF ExactInv, Exact, TotalOf, ProvidersExact
<1>. QED
  BY <1>1, ExactAlways, PTL
-----------------------------------------------------------------------------
(* The calls of a request, of which CredentialManagerProofs proves the theorems: a behaviour *)
(* of MCSelection is one of CredentialManager.                                  *)

OneCalls ==
  INSTANCE CredentialManagerProofs WITH
    Model <- OneModel, Provider <- TwoProviders, ProviderOf <- ProviderOfEach,
    Supports <- AllSupported, ProviderLists <- BothOrFirst

\* The two instances are of the same definitions.
LEMMA ManagerSame ==
  /\ Manager!CooldownParameters <=> OneCalls!CooldownParameters
  /\ Manager!ManagerParameters <=> OneCalls!ManagerParameters
  /\ Manager!Init <=> OneCalls!Init
  /\ Manager!Next <=> OneCalls!Next
  /\ Manager!OneCallPerAttempt <=> OneCalls!OneCallPerAttempt
<1>1. Manager!Init <=> OneCalls!Init
  BY DEF Manager!NoTime, OneCalls!NoTime, Manager!NoQuota, OneCalls!NoQuota,
         Manager!Untracked, OneCalls!Untracked, Manager!FreshCredential,
         OneCalls!FreshCredential, Manager!NoAuth, OneCalls!NoAuth, Manager!NoError,
         OneCalls!NoError, Manager!Idle, OneCalls!Idle, Manager!NoCalls, OneCalls!NoCalls,
         Manager!NoCopy, OneCalls!NoCopy, Manager!Init, OneCalls!Init
<1>2. Manager!OneCallPerAttempt <=> OneCalls!OneCallPerAttempt
  BY DEF Manager!OneCallPerAttempt, OneCalls!OneCallPerAttempt
<1>3. \A c : Manager!updateAggregatedAvailability(c) = OneCalls!updateAggregatedAvailability(c)
  <2>1. /\ \A c : Manager!Tracked(c) = OneCalls!Tracked(c)
        /\ \A t : Manager!Settle(t) = OneCalls!Settle(t)
        /\ \A ms : Manager!RetryTimes(ms) = OneCalls!RetryTimes(ms)
        /\ \A ms : Manager!OverQuota(ms) = OneCalls!OverQuota(ms)
    BY DEF Manager!NoTime, OneCalls!NoTime, Manager!Tracked, OneCalls!Tracked, Manager!Settle,
           OneCalls!Settle, Manager!RetryTimes, OneCalls!RetryTimes, Manager!OverQuota,
           OneCalls!OverQuota
  <2>2. \A D : Manager!Earliest(D) = OneCalls!Earliest(D)
    BY DEF Manager!NoTime, OneCalls!NoTime, Manager!Earliest, OneCalls!Earliest, Manager!Min,
           OneCalls!Min
  <2>3. ASSUME NEW ms PROVE Manager!AggregateQuota(ms) = OneCalls!AggregateQuota(ms)
    BY <2>1, <2>2, Zenon
       DEF Manager!NoTime, OneCalls!NoTime, Manager!NoQuota, OneCalls!NoQuota,
           Manager!AggregateQuota, OneCalls!AggregateQuota, Manager!Max, OneCalls!Max
  <2>4. ASSUME NEW c
        PROVE  Manager!updateAggregatedAvailability(c) = OneCalls!updateAggregatedAvailability(c)
    BY <2>1, <2>2, <2>3, Zenon
       DEF Manager!NoTime, OneCalls!NoTime, Manager!updateAggregatedAvailability,
           OneCalls!updateAggregatedAvailability
  <2>. QED
    BY <2>4, Zenon
<1>4. /\ \A c, m : Manager!MarkSuccess(c, m) = OneCalls!MarkSuccess(c, m)
      /\ \A c, m, code, hint :
           Manager!MarkFailure(c, m, code, hint) = OneCalls!MarkFailure(c, m, code, hint)
  <2>1. /\ Manager!ResetModelState = OneCalls!ResetModelState
        /\ \A c : Manager!hasModelError(c) <=> OneCalls!hasModelError(c)
    BY DEF Manager!NoTime, OneCalls!NoTime, Manager!NoQuota, OneCalls!NoQuota,
           Manager!Untracked, OneCalls!Untracked, Manager!ResetModelState,
           OneCalls!ResetModelState, Manager!hasModelError, OneCalls!hasModelError
  <2>2. \A t, code, hint : Manager!FailedState(t, code, hint) = OneCalls!FailedState(t, code, hint)
    BY DEF Manager!NoTime, OneCalls!NoTime, Manager!QuotaCooldown, OneCalls!QuotaCooldown,
           Manager!NextLevel, OneCalls!NextLevel, Manager!QuotaRetry, OneCalls!QuotaRetry,
           Manager!QuotaFailure, OneCalls!QuotaFailure, Manager!RetryTime, OneCalls!RetryTime,
           Manager!FailedState, OneCalls!FailedState, Manager!Min, OneCalls!Min
  <2>3. ASSUME NEW c, NEW m PROVE Manager!MarkSuccess(c, m) = OneCalls!MarkSuccess(c, m)
    BY <1>3, <2>1, Zenon DEF Manager!MarkSuccess, OneCalls!MarkSuccess
  <2>4. ASSUME NEW c, NEW m, NEW code, NEW hint
        PROVE  Manager!MarkFailure(c, m, code, hint) = OneCalls!MarkFailure(c, m, code, hint)
    BY <1>3, <2>2, Zenon DEF Manager!MarkFailure, OneCalls!MarkFailure
  <2>. QED
    BY <2>3, <2>4, Zenon
<1>5. /\ \A r : Manager!Finished(r) <=> OneCalls!Finished(r)
      /\ Manager!Idle = OneCalls!Idle
      /\ Manager!Tick <=> OneCalls!Tick
  BY DEF Manager!Left, OneCalls!Left, Manager!ElapseQuota, OneCalls!ElapseQuota,
         Manager!ElapseModel, OneCalls!ElapseModel, Manager!Elapse, OneCalls!Elapse,
         Manager!NoAuth, OneCalls!NoAuth, Manager!NoError, OneCalls!NoError, Manager!Idle,
         OneCalls!Idle, Manager!NoCalls, OneCalls!NoCalls, Manager!Finished,
         OneCalls!Finished, Manager!Tick, OneCalls!Tick
<1>6. /\ \A r : Manager!Pick(r) <=> OneCalls!Pick(r)
      /\ \A r : Manager!ProviderFails(r) <=> OneCalls!ProviderFails(r)
  BY DEF Manager!CoolingDown, OneCalls!CoolingDown, Manager!isAuthBlockedForModel,
         OneCalls!isAuthBlockedForModel, Manager!NoError, OneCalls!NoError,
         Manager!SelectionError, OneCalls!SelectionError, Manager!ProviderNow,
         OneCalls!ProviderNow, Manager!Candidates, OneCalls!Candidates, Manager!Available,
         OneCalls!Available, Manager!Rank, OneCalls!Rank, Manager!CursorKey,
         OneCalls!CursorKey, Manager!Index, OneCalls!Index, Manager!Chosen, OneCalls!Chosen,
         Manager!Pick, OneCalls!Pick, Manager!NextProvider, OneCalls!NextProvider,
         Manager!PassFails, OneCalls!PassFails, Manager!ProviderFails,
         OneCalls!ProviderFails, Manager!Min, OneCalls!Min, Manager!Cardinality,
         OneCalls!Cardinality, Manager!ExistsBijection, OneCalls!ExistsBijection,
         Manager!Bijection, OneCalls!Bijection, Manager!Injection, OneCalls!Injection,
         Manager!Surjection, OneCalls!Surjection, Manager!IsInjective, OneCalls!IsInjective
<1>7. /\ \A r : Manager!Retry(r) <=> OneCalls!Retry(r)
      /\ \A r : Manager!Wake(r) <=> OneCalls!Wake(r)
  BY DEF Manager!CoolingDown, OneCalls!CoolingDown, Manager!CooldownEnd,
         OneCalls!CooldownEnd, Manager!NoError, OneCalls!NoError, Manager!NoCalls,
         OneCalls!NoCalls, Manager!CooldownWaits, OneCalls!CooldownWaits,
         Manager!shouldRetryAfterError, OneCalls!shouldRetryAfterError, Manager!Retry,
         OneCalls!Retry, Manager!Wake, OneCalls!Wake, Manager!Min, OneCalls!Min
<1>8. \A r : Manager!Arrive(r) <=> OneCalls!Arrive(r)
  BY DEF Manager!NoAuth, OneCalls!NoAuth, Manager!NoError, OneCalls!NoError, Manager!Idle,
         OneCalls!Idle, Manager!Rotated, OneCalls!Rotated, Manager!Start, OneCalls!Start,
         Manager!Arrive, OneCalls!Arrive
<1>9. /\ \A a, disabled : Manager!ReplaceAuth(a, disabled) <=> OneCalls!ReplaceAuth(a, disabled)
      /\ \A w, a : Manager!ReadToDisable(w, a) <=> OneCalls!ReadToDisable(w, a)
      /\ \A w, a : Manager!CheckRefresh(w, a) <=> OneCalls!CheckRefresh(w, a)
      /\ \A w : Manager!CloneFields(w) <=> OneCalls!CloneFields(w)
      /\ \A w : Manager!CloneModels(w) <=> OneCalls!CloneModels(w)
      /\ \A w : Manager!RefreshFails(w) <=> OneCalls!RefreshFails(w)
      /\ \A w : Manager!WriteBack(w) <=> OneCalls!WriteBack(w)
  BY DEF Manager!NoTime, OneCalls!NoTime, Manager!NoQuota, OneCalls!NoQuota,
         Manager!Untracked, OneCalls!Untracked, Manager!FreshCredential,
         OneCalls!FreshCredential, Manager!Disabled, OneCalls!Disabled, Manager!NoAuth,
         OneCalls!NoAuth, Manager!NoCopy, OneCalls!NoCopy, Manager!FromFile,
         OneCalls!FromFile, Manager!Completed, OneCalls!Completed, Manager!Update,
         OneCalls!Update, Manager!ReplaceAuth, OneCalls!ReplaceAuth, Manager!SetCopy,
         OneCalls!SetCopy, Manager!ReadToDisable, OneCalls!ReadToDisable,
         Manager!CheckRefresh, OneCalls!CheckRefresh, Manager!CloneFields,
         OneCalls!CloneFields, Manager!CloneModels, OneCalls!CloneModels,
         Manager!RefreshFails, OneCalls!RefreshFails, Manager!WriteBack, OneCalls!WriteBack
<1>10. /\ \A r : Manager!Succeed(r) <=> OneCalls!Succeed(r)
       /\ \A r, code, hint : Manager!Fail(r, code, hint) <=> OneCalls!Fail(r, code, hint)
  <2>1. ASSUME NEW r PROVE Manager!Succeed(r) <=> OneCalls!Succeed(r)
    BY <1>4, <1>5, Zenon DEF Manager!Succeed, OneCalls!Succeed
  <2>2. ASSUME NEW r, NEW code, NEW hint
        PROVE  Manager!Fail(r, code, hint) <=> OneCalls!Fail(r, code, hint)
    BY <1>4, Zenon DEF Manager!NoTime, OneCalls!NoTime, Manager!NoAuth, OneCalls!NoAuth,
                       Manager!Fail, OneCalls!Fail
  <2>. QED
    BY <2>1, <2>2, Zenon
<1>11. /\ \A r : Manager!GiveUp(r) <=> OneCalls!GiveUp(r)
       /\ \A r : Manager!Cancel(r) <=> OneCalls!Cancel(r)
  BY <1>5 DEF Manager!CoolingDown, OneCalls!CoolingDown, Manager!CooldownEnd,
         OneCalls!CooldownEnd, Manager!NoAuth, OneCalls!NoAuth, Manager!NoError,
         OneCalls!NoError, Manager!NoCalls, OneCalls!NoCalls, Manager!CooldownWaits,
         OneCalls!CooldownWaits, Manager!shouldRetryAfterError,
         OneCalls!shouldRetryAfterError, Manager!GiveUp, OneCalls!GiveUp, Manager!Cancel,
         OneCalls!Cancel, Manager!Min, OneCalls!Min
<1>12. Manager!Next <=> OneCalls!Next
  BY <1>5, <1>6, <1>7, <1>8, <1>9, <1>10, <1>11
     DEF Manager!Next, OneCalls!Next, Manager!Serve, OneCalls!Serve, Manager!NoTime,
         OneCalls!NoTime
<1>13. /\ Manager!CooldownParameters <=> OneCalls!CooldownParameters
       /\ Manager!ManagerParameters <=> OneCalls!ManagerParameters
  BY DEF Manager!CooldownParameters, OneCalls!CooldownParameters, Manager!ManagerParameters,
         OneCalls!ManagerParameters, Manager!Distinct, OneCalls!Distinct,
         Manager!IsFiniteSet, OneCalls!IsFiniteSet
<1>. QED
  BY <1>1, <1>2, <1>12, <1>13, Zenon

selectionVars == <<part, manager, vars>>

LEMMA CallsBehave == SelectionSpec => OneCalls!Spec
<1>1. SelectionInit => OneCalls!Init
  BY ManagerSame DEF SelectionInit
<1>2. [SelectionNext]_selectionVars => [OneCalls!Next]_(OneCalls!vars)
  BY ManagerSame DEF SelectionNext, selectionVars, manager, OneCalls!vars
<1>. QED
  BY <1>1, <1>2, PTL DEF SelectionSpec, selectionVars, OneCalls!Spec

\* No credential is called twice in one attempt of a request (executeWithProvider,
\* rotateProviders), for every number of credentials and requests of this instance's two
\* providers, beside the registry: what CalledOnce states of any providers and models.
THEOREM EachCredentialOnce == SelectionSpec => []OneCallPerAttempt
<1>1. OneCalls!OneCallPerAttempt => OneCallPerAttempt
  BY ManagerSame DEF OneCallPerAttempt
<1>2. OneCalls!Spec => []OneCalls!OneCallPerAttempt
  BY SelectionParameters, ManagerSame, OneCalls!CalledOnce
<1>. QED
  BY <1>1, <1>2, CallsBehave, PTL

=============================================================================
