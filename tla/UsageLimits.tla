---------------------------- MODULE UsageLimits ----------------------------
(***************************************************************************)
(* The monthly quotas of one API key and the count they are compared with:  *)
(* CheckAccess before a request, a record for each call to a provider, the   *)
(* queue of usage.Manager and its worker, the statistics, their file, which  *)
(* is written now and then and at the end, crashes and restarts, export and *)
(* import.  Statistics are enabled; without them no quota ever binds.       *)
(***************************************************************************)
EXTENDS Integers, Sequences, FiniteSets, SequencesExt

CONSTANTS Request,    \* requests of the key, each made once
          Model,
          ModelOf,    \* [Request -> Model], the model the request names
          RecordedAs, \* [Model -> Model], the name it has upstream
          Pattern,    \* patterns of monthly-quotas
          Matches,    \* the (pattern, model) pairs that match
          Quota,      \* [Pattern -> Nat]
          MaxCalls,   \* bound: calls a request makes, with its retries
          MaxMonth    \* bound: months

LimitsParameters ==
  /\ IsFiniteSet(Request)
  /\ ModelOf \in [Request -> Model] /\ RecordedAs \in [Model -> Model]
  /\ Matches \subseteq Pattern \X Model
  /\ Quota \in [Pattern -> Nat \ {0}]
  /\ MaxCalls \in Nat \ {0} /\ MaxMonth \in Nat \ {0}

Record == Request \X (1..MaxCalls)
NoRecord == <<>>
\* How often each record is counted, at most twice for a bound.
Counts == [Record -> 0..2]
Saver == {"periodic", "final"}
NoSnapshot == <<>>

VARIABLES month,
          pc, made,   \* how far each request is, and the calls it has made
          when,       \* the month in which each call began, 0 for none
          life,       \* of the process
          queue,      \* usage.Manager.queue
          closed,
          worker,     \* Manager.run
          hand,       \* the record it dispatches
          details,    \* RequestStatistics
          saving,     \* what SaveStatistics of each saver is about to store
          disk,       \* usage-statistics.json
          exported,   \* an exported snapshot
          peak,       \* history: the most requests under way at once
          forgotten,  \* history: records that a restart did not bring back
          careless    \* history: two saves overlapped, or the file was not loaded

requests == <<pc, made, when>>
process == <<queue, closed, worker, hand, details, saving>>
vars == <<month, requests, life, process, disk, exported, peak, forgotten, careless>>

TypeOK ==
  /\ month \in 1..MaxMonth
  /\ pc \in [Request -> {"idle", "serving", "calling", "signal", "done"}]
  /\ made \in [Request -> 0..MaxCalls]
  /\ when \in [Record -> 0..MaxMonth]
  /\ life \in {"running", "stopped", "saving", "down"}
  /\ queue \in Seq(Record) /\ closed \in BOOLEAN
  /\ worker \in {"ready", "waiting", "busy", "ended"}
  /\ hand \in Record \cup {NoRecord}
  /\ details \in Counts /\ disk \in Counts /\ exported \in Counts
  /\ saving \in [Saver -> Counts \cup {NoSnapshot}]
  /\ peak \in 0..Cardinality(Request)
  /\ forgotten \subseteq Record /\ careless \in BOOLEAN

NoCounts == [x \in Record |-> 0]
NoSaves == [s \in Saver |-> NoSnapshot]

Init ==
  /\ month = 1
  /\ pc = [r \in Request |-> "idle"] /\ made = [r \in Request |-> 0]
  /\ when = [x \in Record |-> 0]
  /\ life = "running"
  /\ queue = <<>> /\ closed = FALSE /\ worker = "ready" /\ hand = NoRecord
  /\ details = NoCounts /\ saving = NoSaves
  /\ disk = NoCounts /\ exported = NoCounts
  /\ peak = 0 /\ forgotten = {} /\ careless = FALSE

-----------------------------------------------------------------------------
(* Requests. *)

\* GetMonthlyUsageAllModels, summed over the models that match p.
Usage(p) ==
  Cardinality({c \in Record \X (1..2) :
                 /\ c[2] <= details[c[1]] /\ when[c[1]] = month
                 /\ <<p, RecordedAs[ModelOf[c[1][1]]]>> \in Matches})

Applies(p, r) == <<p, ModelOf[r]>> \in Matches

\* The quota itself is let pass.
WithinOrAt(p) == Usage(p) <= Quota[p]
Within(p) == Usage(p) < Quota[p]

\* CheckAccess takes the first pattern that applies, in the random order of a map.
CheckAccess(r) ==
  \/ \A p \in Pattern : ~Applies(p, r)
  \/ \E p \in Pattern : Applies(p, r) /\ Within(p)

MayReject(r) == \E p \in Pattern : Applies(p, r) /\ ~Within(p)

UnderWay(r) ==
  \/ pc[r] \in {"serving", "calling", "signal"}
  \/ \E x \in ToSet(queue) \cup {hand} : x # NoRecord /\ x[1] = r

Accept(r) ==
  /\ pc[r] = "idle" /\ life = "running"
  /\ CheckAccess(r)
  /\ pc' = [pc EXCEPT ![r] = "serving"]
  /\ LET now == Cardinality({q \in Request : UnderWay(q)}) + 1
     IN  peak' = IF now > peak THEN now ELSE peak
  /\ UNCHANGED <<month, made, when, life, process, disk, exported, forgotten, careless>>

Reject(r) ==
  /\ pc[r] = "idle" /\ life = "running"
  /\ MayReject(r)
  /\ pc' = [pc EXCEPT ![r] = "done"]
  /\ UNCHANGED <<month, made, when, life, process, disk, exported, peak, forgotten, careless>>

\* An executor calls the provider; its usageReporter is made.
BeginCall(r) ==
  /\ pc[r] = "serving" /\ made[r] < MaxCalls
  /\ pc' = [pc EXCEPT ![r] = "calling"]
  /\ made' = [made EXCEPT ![r] = @ + 1]
  /\ when' = [when EXCEPT ![<<r, made[r] + 1>>] = month]
  /\ UNCHANGED <<month, life, process, disk, exported, peak, forgotten, careless>>

\* Publish, up to its Signal; once, for an answer as for an error.
Publish(r) ==
  /\ pc[r] = "calling"
  /\ pc' = [pc EXCEPT ![r] = IF closed THEN "serving" ELSE "signal"]
  /\ queue' = IF closed THEN queue ELSE Append(queue, <<r, made[r]>>)
  /\ UNCHANGED <<month, made, when, life, closed, worker, hand, details, saving, disk,
                 exported, peak, forgotten, careless>>

Signal(r) ==
  /\ pc[r] = "signal"
  /\ pc' = [pc EXCEPT ![r] = "serving"]
  /\ worker' = IF worker = "waiting" THEN "ready" ELSE worker
  /\ UNCHANGED <<month, made, when, life, queue, closed, hand, details, saving, disk,
                 exported, peak, forgotten, careless>>

\* The request is answered, after one call or several.
Finish(r) ==
  /\ pc[r] = "serving"
  /\ pc' = [pc EXCEPT ![r] = "done"]
  /\ UNCHANGED <<month, made, when, life, process, disk, exported, peak, forgotten, careless>>

-----------------------------------------------------------------------------
(* The worker of the usage manager. *)

\* It waits after every record, without a look at the queue.
WaitAnyway ==
  /\ worker = "ready" /\ ~closed
  /\ worker' = "waiting"
  /\ UNCHANGED <<month, requests, life, queue, closed, hand, details, saving, disk, exported,
                 peak, forgotten, careless>>

Wait ==
  /\ worker = "ready" /\ queue = <<>> /\ ~closed
  /\ worker' = "waiting"
  /\ UNCHANGED <<month, requests, life, queue, closed, hand, details, saving, disk, exported,
                 peak, forgotten, careless>>

EndWorker ==
  /\ worker = "ready" /\ queue = <<>> /\ closed
  /\ worker' = "ended"
  /\ UNCHANGED <<month, requests, life, queue, closed, hand, details, saving, disk, exported,
                 peak, forgotten, careless>>

TakeRecord ==
  /\ worker = "ready" /\ queue # <<>>
  /\ hand' = Head(queue) /\ queue' = Tail(queue)
  /\ worker' = "busy"
  /\ UNCHANGED <<month, requests, life, closed, details, saving, disk, exported, peak,
                 forgotten, careless>>

Capped(n) == IF n > 2 THEN 2 ELSE n

\* dispatch, RequestStatistics.Record.
Count ==
  /\ worker = "busy"
  /\ details' = [details EXCEPT ![hand] = Capped(@ + 1)]
  /\ hand' = NoRecord
  /\ worker' = "ready"
  /\ UNCHANGED <<month, requests, life, queue, closed, saving, disk, exported, peak,
                 forgotten, careless>>

-----------------------------------------------------------------------------
(* Saving and loading. *)

Added(snapshot) == [x \in Record |-> Capped(details[x] + snapshot[x])]

\* MergeSnapshot: records that are there already are skipped.
Merged(snapshot) ==
  [x \in Record |-> IF details[x] = 0 /\ snapshot[x] > 0 THEN 1 ELSE details[x]]

Export ==
  /\ life # "down" /\ exported # details
  /\ exported' = details
  /\ UNCHANGED <<month, requests, life, process, disk, peak, forgotten, careless>>

Import ==
  /\ life # "down"
  /\ details' = Merged(exported)
  /\ UNCHANGED <<month, requests, life, queue, closed, worker, hand, saving, disk, exported,
                 peak, forgotten, careless>>

\* SaveStatistics: the snapshot.  The periodic saver goes by its ticker until it has
\* seen the end of the context.
BeginSave(s) ==
  /\ saving[s] = NoSnapshot
  /\ life = "running" \/ life = "stopped"
  /\ s = "final" => life = "stopped"
  /\ life' = IF s = "final" THEN "saving" ELSE life
  /\ saving' = [saving EXCEPT ![s] = details]
  /\ careless' = (careless \/ \E t \in Saver : saving[t] # NoSnapshot)
  /\ UNCHANGED <<month, requests, queue, closed, worker, hand, details, disk, exported,
                 peak, forgotten>>

\* A file that is written in place.
EndSaveInPlace(s, stored) ==
  /\ saving[s] # NoSnapshot
  /\ disk' = IF stored THEN saving[s] ELSE NoCounts
  /\ saving' = [saving EXCEPT ![s] = NoSnapshot]
  /\ UNCHANGED <<month, requests, life, queue, closed, worker, hand, details, exported,
                 peak, forgotten, careless>>

\* The store: a file that is written aside and renamed; it may fail.
EndSave(s, stored) ==
  /\ saving[s] # NoSnapshot
  /\ disk' = IF stored THEN saving[s] ELSE disk
  /\ saving' = [saving EXCEPT ![s] = NoSnapshot]
  /\ UNCHANGED <<month, requests, life, queue, closed, worker, hand, details, exported,
                 peak, forgotten, careless>>

\* Service.Shutdown stops the manager, which does not wait for its worker.
Stop ==
  /\ life = "running"
  /\ life' = "stopped" /\ closed' = TRUE
  /\ worker' = IF worker = "waiting" THEN "ready" ELSE worker
  /\ UNCHANGED <<month, requests, queue, hand, details, saving, disk, exported, peak,
                 forgotten, careless>>

\* The process ends, after the last save or by a crash.
Down ==
  /\ life # "down"
  /\ life' = "down"
  /\ queue' = <<>> /\ hand' = NoRecord /\ worker' = "ended" /\ closed' = TRUE
  /\ details' = NoCounts /\ saving' = NoSaves
  /\ pc' = [r \in Request |-> IF pc[r] = "idle" THEN "idle" ELSE "done"]
  /\ UNCHANGED <<month, made, when, disk, exported, peak, forgotten, careless>>

\* LoadStatistics; an error is only logged.
Restart(loaded) ==
  /\ life = "down"
  /\ life' = "running" /\ closed' = FALSE /\ worker' = "ready"
  /\ details' = IF loaded THEN disk ELSE NoCounts
  /\ forgotten' = forgotten \cup {x \in Record : when[x] # 0 /\ details'[x] = 0}
  /\ careless' = ~loaded
  /\ UNCHANGED <<month, requests, queue, hand, saving, disk, exported, peak>>

NextMonth ==
  /\ month < MaxMonth /\ month' = month + 1
  /\ UNCHANGED <<requests, life, process, disk, exported, peak, forgotten, careless>>

-----------------------------------------------------------------------------
Worker == Wait \/ EndWorker \/ TakeRecord \/ Count
Go(r) == BeginCall(r) \/ Publish(r) \/ Signal(r) \/ Finish(r)

Next ==
  \/ \E r \in Request : Accept(r) \/ Reject(r) \/ Go(r)
  \/ Worker \/ Export \/ Import \/ Stop \/ Down \/ NextMonth
  \/ \E s \in Saver : BeginSave(s) \/ \E stored \in BOOLEAN : EndSave(s, stored)
  \/ \E loaded \in BOOLEAN : Restart(loaded)

Spec == Init /\ [][Next]_vars

\* The worker and the requests go on while they can.
FairSpec == Spec /\ WF_vars(Worker) /\ \A r \in Request : WF_vars(Signal(r))

-----------------------------------------------------------------------------
(* Properties. *)

\* Nothing but p decides about the requests it applies to, and their calls are
\* recorded under names that it matches.
Plain(p) ==
  \A m \in Model : <<p, m>> \in Matches =>
    /\ <<p, RecordedAs[m]>> \in Matches
    /\ \A q \in Pattern \ {p} : <<q, m>> \notin Matches

Calls(p, m) == {x \in Record \ forgotten : when[x] = m /\ Applies(p, x[1])}

\* A quota is exceeded by no more than the calls of the requests that were under way
\* together: those are let in before any of them is counted, but every call comes to
\* be counted, once, before the key is out of sight of the quota (CheckAccess,
\* publishWithOutcome, Record, LoadStatistics).  Calls that a crash or a failed load
\* forgot are left out, and so are quotas that overlap with others or name an alias.
QuotaBounded ==
  \A p \in Pattern, m \in 1..MaxMonth :
    Plain(p) => Cardinality(Calls(p, m)) <= Quota[p] - 1 + peak * MaxCalls

\* No call is counted twice, however often its record is saved, loaded, exported and
\* imported, and wherever it is when that happens (MergeSnapshot, Record).
CountedOnce == \A x \in Record : details[x] <= 1 /\ disk[x] <= 1

\* What was saved stays saved: the file forgets a record only after two saves
\* overlapped, when the older snapshot may be stored last, or when the file was not
\* loaded and the next save replaces it (SaveStatistics, LoadStatistics, StartService).
SavedStays == [][careless' \/ \A x \in Record : disk[x] <= disk'[x]]_vars

\* Every record that was queued is counted, or the process ends: the worker is never
\* left waiting by a record that came while it looked at the queue (Publish, run, Stop).
QueuedIsCounted ==
  \A x \in Record : x \in ToSet(queue) ~> details[x] > 0 \/ life = "down"

=============================================================================
