--------------------------- MODULE ModelRegistry ---------------------------
(***************************************************************************)
(* The model registry (internal/registry): which client (credential)        *)
(* registered which models, how many registrations and of which provider a  *)
(* model has, and which clients are over quota or suspended for it.  The    *)
(* service registers and unregisters clients; every request reports the     *)
(* result of its call, after the manager has recorded it and released its   *)
(* lock, in up to two registry calls that other goroutines may come between. *)
(***************************************************************************)
EXTENDS Integers, Sequences, FiniteSets, Functions

CONSTANTS Client, Provider, Model,
          Nil,         \* no provider, no client, no model
          ModelLists,   \* the model lists a client may register, as bags
          QuotaWindow,  \* quotaExpiredDuration, in ticks
          Reporter,     \* requests in flight
          Kind          \* the kinds of result a call may have

NoTime == -1

ASSUME RegistryAssumption ==
  /\ IsFiniteSet(Client) /\ IsFiniteSet(Provider)
  /\ Nil \notin Client \cup Provider \cup Model
  /\ ModelLists \subseteq [Model -> Nat] /\ QuotaWindow \in Nat \ {0}
  /\ Kind \subseteq {"ok", "quota", "blocked", "transient"}

VARIABLES models,           \* ModelRegistry.models
          clientModels,     \* ModelRegistry.clientModels, as bags
          clientProviders,  \* ModelRegistry.clientProviders
          reports,          \* the requests that call or report a result
          succeeded,        \* history: the manager's last result was a success
          crossed           \* history: the last success met a failure's report

vars == <<models, clientModels, clientProviders, reports, succeeded, crossed>>

\* count 0 is a model without an entry.  quota[c] is the time left of the quota
\* window of c, NoTime when c has no mark; suspended[c] is the class of reason.
Registration ==
  [count : Nat, providers : [Provider -> Nat],
   quota : [Client -> 0 .. QuotaWindow \cup {NoTime}],
   suspended : [Client -> {"no", "quota", "other"}]]
NoRegistration ==
  [count |-> 0, providers |-> [p \in Provider |-> 0],
   quota |-> [c \in Client |-> NoTime], suspended |-> [c \in Client |-> "no"]]

NoModels == [m \in Model |-> 0]

Call == {"ClearQuota", "SetQuota", "Resume", "SuspendQuota", "SuspendOther"}
Report == [phase : {"idle", "call", "report"}, client : Client \cup {Nil},
           model : Model \cup {Nil}, todo : Seq(Call)]
NoReport == [phase |-> "idle", client |-> Nil, model |-> Nil, todo |-> <<>>]

\* A busy request has a client and a model, and calls left just while it reports.
ReportOK(rep) ==
  /\ rep.phase # "idle" => rep.client # Nil /\ rep.model # Nil
  /\ rep.phase = "report" <=> rep.todo # <<>>

TypeOK ==
  /\ models \in [Model -> Registration]
  /\ clientModels \in [Client -> [Model -> Nat]]
  /\ clientProviders \in [Client -> Provider \cup {Nil}]
  /\ reports \in [Reporter -> Report] /\ \A r \in Reporter : ReportOK(reports[r])
  /\ succeeded \subseteq Client \X Model /\ crossed \subseteq Client \X Model
  /\ \A m \in Model : models[m].count = 0 => models[m] = NoRegistration
  /\ \A c \in Client : clientProviders[c] = Nil <=> clientModels[c] = NoModels

Init ==
  /\ models = [m \in Model |-> NoRegistration]
  /\ clientModels = [c \in Client |-> NoModels]
  /\ clientProviders = [c \in Client |-> Nil]
  /\ reports = [r \in Reporter |-> NoReport]
  /\ succeeded = {} /\ crossed = {}

-----------------------------------------------------------------------------
(* The entry of one model. *)

Registered(c) == clientModels[c] # NoModels

Minus(n, k) == IF n > k THEN n - k ELSE 0

Cleared(e, c) == [e EXCEPT !.quota[c] = NoTime, !.suspended[c] = "no"]

\* addModelRegistration, k times; marks other calls left on the model stay.
Added(e, p, k) == [e EXCEPT !.count = @ + k, !.providers[p] = @ + k]

\* removeModelRegistration, k times: the last one takes the entry away.
Removed(e, c, p, k) ==
  IF e.count <= k THEN NoRegistration
  ELSE [Cleared(e, c) EXCEPT !.count = @ - k, !.providers[p] = Minus(@, k)]

Smaller(i, j) == IF i < j THEN i ELSE j

MovedOut(e, from, k) == [e EXCEPT !.providers[from] = Minus(@, k)]
MovedIn(e, to, k) == [e EXCEPT !.providers[to] = @ + k]

\* The models kept are not counted for the new provider.
ReconciledHalf(e, c, from, to, old, new) ==
  LET kept    == Smaller(old, new)
      moved   == IF from = to THEN e ELSE MovedOut(e, from, kept)
      removed == IF old > new THEN Removed(moved, c, from, old - new) ELSE moved
      added   == IF new > old THEN Added(removed, to, new - old) ELSE removed
  IN  IF new = 0 \/ added.count = 0 THEN added ELSE Cleared(added, c)

\* RegisterClient on a model that the client listed old times under provider from
\* and lists new times under provider to.
Reconciled(e, c, from, to, old, new) ==
  LET kept    == Smaller(old, new)
      moved   == IF from = to THEN e ELSE MovedOut(e, from, kept)
      removed == IF old > new THEN Removed(moved, c, from, old - new) ELSE moved
      added   == IF new > old THEN Added(removed, to, new - old) ELSE removed
  IN  IF new = 0 \/ added.count = 0 THEN added
      ELSE IF from = to THEN Cleared(added, c)
      ELSE MovedIn(Cleared(added, c), to, kept)

\* Each model is given back once, however often the client lists it.
UnregisteredOnce(c) ==
  [m \in Model |-> IF clientModels[c][m] = 0 THEN models[m]
                   ELSE Removed(models[m], c, clientProviders[c], 1)]

\* unregisterClientInternal.
Unregistered(c) ==
  [m \in Model |-> IF clientModels[c][m] = 0 THEN models[m]
                   ELSE Removed(models[m], c, clientProviders[c], clientModels[c][m])]

-----------------------------------------------------------------------------
(* What the service does. *)

UnregisterClient(c) ==
  /\ models' = Unregistered(c)
  /\ clientModels' = [clientModels EXCEPT ![c] = NoModels]
  /\ clientProviders' = [clientProviders EXCEPT ![c] = Nil]
  /\ UNCHANGED <<reports, succeeded, crossed>>

\* A client without models is added without a look at marks that bear its name.  An
\* empty list, which the service does not pass, would be UnregisterClient.
RegisterClient(c, p, list) ==
  /\ list # NoModels
  /\ models' = [m \in Model |->
       IF Registered(c)
       THEN Reconciled(models[m], c, clientProviders[c], p, clientModels[c][m], list[m])
       ELSE Added(models[m], p, list[m])]
  /\ clientModels' = [clientModels EXCEPT ![c] = list]
  /\ clientProviders' = [clientProviders EXCEPT ![c] = p]
  /\ UNCHANGED <<reports, succeeded, crossed>>

-----------------------------------------------------------------------------
(* A request: pickNext asks ClientSupportsModel, the call returns, MarkResult   *)
(* records its result and then tells the registry.                            *)

StartCall(r, c, m) ==
  /\ reports[r].phase = "idle" /\ clientModels[c][m] > 0
  /\ reports' = [reports EXCEPT ![r] = [phase |-> "call", client |-> c, model |-> m,
                                        todo |-> <<>>]]
  /\ UNCHANGED <<models, clientModels, clientProviders, succeeded, crossed>>

\* A success forgets the suspension.
CallsClearOnly(kind) ==
  CASE kind = "ok"        -> <<"ClearQuota">>
    [] kind = "quota"     -> <<"SetQuota", "SuspendQuota">>
    [] kind = "blocked"   -> <<"SuspendOther">>
    [] kind = "transient" -> <<>>

Calls(kind) ==
  CASE kind = "ok"        -> <<"ClearQuota", "Resume">>
    [] kind = "quota"     -> <<"SetQuota", "SuspendQuota">>
    [] kind = "blocked"   -> <<"SuspendOther">>
    [] kind = "transient" -> <<>>

\* r has still to suspend client c for model m.
WillSuspend(r, c, m) ==
  /\ reports[r].phase = "report" /\ reports[r].client = c /\ reports[r].model = m
  /\ reports[r].todo[Len(reports[r].todo)] \in {"SuspendQuota", "SuspendOther"}

\* The results of one credential and model are recorded one after the other, but the
\* calls that follow a success may arrive before those of a failure recorded earlier.
MarkResult(r, kind) ==
  /\ reports[r].phase = "call"
  /\ LET c == reports[r].client  m == reports[r].model
         late == \E s \in Reporter : WillSuspend(s, c, m)
     IN  IF kind = "ok"
         THEN /\ succeeded' = succeeded \cup {<<c, m>>}
              /\ crossed' = IF late THEN crossed \cup {<<c, m>>} ELSE crossed \ {<<c, m>>}
         ELSE succeeded' = succeeded \ {<<c, m>>} /\ UNCHANGED crossed
  /\ reports' = [reports EXCEPT ![r] =
       IF Calls(kind) = <<>> THEN NoReport
       ELSE [@ EXCEPT !.phase = "report", !.todo = Calls(kind)]]
  /\ UNCHANGED <<models, clientModels, clientProviders>>

Suspended(e, c, reason) ==
  [e EXCEPT !.suspended[c] = IF @ = "no" THEN reason ELSE @]

Mark(e, c, call) ==
  CASE call = "SetQuota"     -> [e EXCEPT !.quota[c] = QuotaWindow]
    [] call = "ClearQuota"   -> [e EXCEPT !.quota[c] = NoTime]
    [] call = "Resume"       -> [e EXCEPT !.suspended[c] = "no"]
    [] call = "SuspendQuota" -> Suspended(e, c, "quota")
    [] call = "SuspendOther" -> Suspended(e, c, "other")

\* Also when the last client of the model is gone.
MarkedAnyway(e, c, call) == Mark(e, c, call)

\* Only a model with an entry is marked, whether or not the client lists it.
Marked(e, c, call) == IF e.count = 0 THEN e ELSE Mark(e, c, call)

TellRegistry(r) ==
  LET rep == reports[r]
  IN  /\ rep.phase = "report"
      /\ models' = [models EXCEPT ![rep.model] = Marked(@, rep.client, Head(rep.todo))]
      /\ reports' = [reports EXCEPT ![r] =
           IF Len(rep.todo) = 1 THEN NoReport ELSE [rep EXCEPT !.todo = Tail(rep.todo)]]
      /\ UNCHANGED <<clientModels, clientProviders, succeeded, crossed>>

\* Expired marks are ignored where they are read; nothing deletes them.
Tick ==
  /\ models' = [m \in Model |-> [models[m] EXCEPT !.quota =
       [c \in Client |-> IF @[c] > 0 THEN @[c] - 1 ELSE @[c]]]]
  /\ UNCHANGED <<clientModels, clientProviders, reports, succeeded, crossed>>

Next ==
  \/ \E c \in Client :
       \/ UnregisterClient(c)
       \/ \E p \in Provider, list \in ModelLists : RegisterClient(c, p, list)
  \/ \E r \in Reporter :
       \/ \E c \in Client, m \in Model : StartCall(r, c, m)
       \/ \E kind \in Kind : MarkResult(r, kind)
       \/ TellRegistry(r)
  \/ Tick

Spec == Init /\ [][Next]_vars

-----------------------------------------------------------------------------
(* What the registry answers. *)

OverQuota(m) == {c \in Client : models[m].quota[c] > 0}
SuspendedFor(m, reasons) == {c \in Client : models[m].suspended[c] \in reasons}

GetModelCount(m) ==
  Minus(models[m].count,
        Cardinality(OverQuota(m)) + Cardinality(SuspendedFor(m, {"quota", "other"})))

-----------------------------------------------------------------------------
(* Properties. *)

\* How often each client lists m.
Listed(m) == [c \in Client |-> clientModels[c][m]]

\* The reference count of a model is the number of registrations its clients have
\* made, duplicates included, after any sequence of registrations, changes of the
\* model list, changes of provider and removals (RegisterClient reconciles them
\* without a recount).
CountsExact ==
  \A m \in Model : models[m].count = SumFunctionOnSet(Listed(m), Client)

\* The same for every provider: a model is routed to exactly the providers whose
\* clients list it (GetModelProviders), also after a client changed its provider
\* and its list at once.
ProvidersExact ==
  \A m \in Model, p \in Provider :
    models[m].providers[p] =
      SumFunctionOnSet(Listed(m), {c \in Client : clientProviders[c] = p})

\* The clients that list m and have no mark on it.
AvailableClients(m) ==
  {c \in Client : /\ clientModels[c][m] > 0
                  /\ c \notin OverQuota(m) \cup SuspendedFor(m, {"quota", "other"})}

\* GetModelCount's comment says that it returns the number of available clients:
\* it would not be 0 while a client is available.  The code takes a client away
\* once for its quota mark and once more for the suspension MarkResult adds to it,
\* and takes away clients that are no longer registered when the mark arrives.
AvailableCounted ==
  \A m \in Model : AvailableClients(m) # {} => GetModelCount(m) > 0

\* When the manager's last result of a client and a model was a success and all results
\* of the pair are reported, the registry has neither a suspension nor a quota mark of it,
\* however many requests report at once and whatever is registered meanwhile: unless
\* that success was recorded while an earlier failure was still on its way to the registry,
\* and so could come too late for it; the next success that meets none repairs this
\* (MarkResult, which reports after it has released the lock; ResumeClientModel).
SuccessResumes ==
  \A c \in Client, m \in Model :
    (/\ <<c, m>> \in succeeded \ crossed
     /\ \A r \in Reporter :
          reports[r].phase = "report" => reports[r].client # c \/ reports[r].model # m)
    => models[m].suspended[c] = "no" /\ models[m].quota[c] = NoTime

=============================================================================
