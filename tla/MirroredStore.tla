--------------------------- MODULE MirroredStore ---------------------------
(***************************************************************************)
(* The stores that keep the credential files and the configuration outside   *)
(* the machine: rows of a database, objects of a bucket, or a git repository  *)
(* whose history is one commit.  What they save themselves they send at once; *)
(* what others write into the files the watcher sends, by a goroutine for      *)
(* every change it sees.  A restart takes the files from outside.             *)
(***************************************************************************)
EXTENDS Naturals

CONSTANTS Credential, \* names of credential files
          ConfigFile, \* name of the configuration file
          Payload,    \* what a file may hold
          Template,   \* the configuration of a new machine
          Missing,    \* there is no file, record or request
          Partial,    \* a file that has been truncated and not yet written
          MaxTasks,   \* bound on the goroutines that wait to send a file
          MaxChanges  \* bound on the changes of files

Name == Credential \cup {ConfigFile}

StoreParameters ==
  /\ ConfigFile \notin Credential /\ Template \in Payload
  /\ Missing # Partial /\ {Missing, Partial} \cap Payload = {}
  /\ MaxTasks \in Nat \ {0} /\ MaxChanges \in Nat

VARIABLES backend,  \* which of the stores
          phase,    \* how far the watcher has started
          local,    \* the files
          remote,   \* what is kept outside
          tree,     \* git: the commit
          known,    \* lastAuthHashes, lastConfigHash
          events,   \* changes the watcher has yet to look at
          window,   \* files removed within the last second, lastRemoveTimes
          reload,   \* the configuration that is being loaded
          tasks,    \* goroutines that wait to send a file
          busy,     \* what goes on under the store's mutex
          writing,  \* files that others have truncated and will write
          removing, \* files removed for a request, still to be deleted in the store
          changes,  \* changes of files so far
          answered, \* history: what the last save or deletion of a file has sent
          excused   \* history: files the watcher will not send, and why

vars == <<backend, phase, local, remote, tree, known, events, window, reload, tasks, busy,
          writing, removing, changes, answered, excused>>

State == Payload \cup {Missing, Partial}
Reason == {"failed", "start", "returned", "debounced", "unknown", "restart"}

\* The store's mutex is free, or a save, a deletion or a goroutine of the watcher holds it.
Free == [by |-> "nobody", file |-> ConfigFile, step |-> "none", data |-> Missing]
Critical == [by : {"save", "delete", "task"}, file : Name, step : {"write", "read", "send"},
             data : State]

TypeOK ==
  /\ backend \in {"postgres", "object", "git"} /\ phase \in {"starting", "watching", "running"}
  /\ {local, remote, tree} \subseteq [Name -> State]
  /\ known \in [Name -> Payload \cup {Missing}]
  /\ events \subseteq Name \X {"write", "remove"} /\ window \subseteq Credential
  /\ reload \in Payload \cup {Missing} /\ tasks \in [Name -> 0 .. MaxTasks]
  /\ busy \in Critical \cup {Free} /\ writing \subseteq Name /\ removing \subseteq Credential
  /\ changes \in 0 .. MaxChanges
  /\ answered \in [Credential -> State \cup {"open"}] /\ excused \subseteq Name \X Reason

Init ==
  /\ backend \in {"postgres", "object", "git"} /\ phase = "starting"
  /\ local \in [Name -> Payload \cup {Missing}] /\ local[ConfigFile] # Missing
  /\ remote = local /\ tree = IF backend = "git" THEN local ELSE [f \in Name |-> Missing]
  /\ known = [f \in Name |-> Missing] /\ events = {} /\ window = {} /\ reload = Missing
  /\ tasks = [f \in Name |-> 0] /\ busy = Free /\ writing = {} /\ removing = {}
  /\ changes = 0 /\ answered = [f \in Credential |-> "open"] /\ excused = {}

-----------------------------------------------------------------------------
(* Files. *)

\* What the store keeps of a file: an empty one is a commit, and a row of the
\* configuration, but otherwise a deletion.
Record(f, s) ==
  IF s = Partial /\ (backend = "object" \/ (backend = "postgres" /\ f # ConfigFile))
  THEN Missing ELSE s

Mirrored(f) == remote[f] = Record(f, local[f])

\* It is outside what it is here, and nothing else is on the way.
Settled(f) == Mirrored(f) /\ ~(busy.step = "send" /\ busy.file = f /\ busy.data # local[f])

\* A file changes, and an event tells the watcher once it watches.
Put(f, s) ==
  /\ local' = [local EXCEPT ![f] = s]
  /\ events' = IF phase = "starting" THEN events
               ELSE events \cup {<<f, IF s = Missing THEN "remove" ELSE "write">>}

\* Something else than what was sent last is in the file.
Overtaken(f) == answered' = [g \in Credential |-> IF g = f THEN "open" ELSE answered[g]]
Changed(f) == changes < MaxChanges /\ changes' = changes + 1 /\ Overtaken(f)

\* Another file gets the name, or none: who writes the old one writes for nobody.
Detached(f) == writing' = writing \ {f}

\* Uploads, edits of the configuration and edits by hand truncate the file first.
BeginWrite(f) ==
  /\ f \notin writing /\ writing' = writing \cup {f}
  /\ Put(f, Partial) /\ Changed(f)
  /\ UNCHANGED <<backend, phase, remote, tree, known, window, reload, tasks, busy, removing,
                 excused>>

EndWrite(f, c) ==
  /\ f \in writing /\ writing' = writing \ {f}
  /\ Put(f, c) /\ Overtaken(f)
  /\ UNCHANGED <<backend, phase, remote, tree, known, window, reload, tasks, busy, removing,
                 changes, excused>>

\* A credential's file is removed by hand, or by DeleteAuthFile, which then asks the store.
Remove(f, request) ==
  /\ local[f] # Missing
  /\ removing' = IF request THEN removing \cup {f} ELSE removing
  /\ Put(f, Missing) /\ Changed(f) /\ Detached(f)
  /\ busy' = IF busy.step = "write" /\ busy.file = f THEN [busy EXCEPT !.step = "read"] ELSE busy
  /\ UNCHANGED <<backend, phase, remote, tree, known, window, reload, tasks, excused>>

-----------------------------------------------------------------------------
(* The store: Save, Delete, PersistAuthFiles and PersistConfig.  One at a time.   *)

\* Save of a refreshed credential.  If the file has the content already, it is answered
\* at once and nothing is sent; nor is a disabled credential without a file.
SaveMetadata(f, c) ==
  /\ busy = Free /\ local[f] # c
  /\ busy' = [by |-> "save", file |-> f, step |-> "read", data |-> Missing]
  /\ Put(f, c) /\ Changed(f) /\ Detached(f)
  /\ UNCHANGED <<backend, phase, remote, tree, known, window, reload, tasks, removing, excused>>

\* Save of a login: SaveTokenToFile truncates the file and writes it.
SaveToken(f, c) ==
  /\ busy = Free
  /\ busy' = [by |-> "save", file |-> f, step |-> "write", data |-> c]
  /\ Put(f, Partial) /\ Changed(f)
  /\ UNCHANGED <<backend, phase, remote, tree, known, window, reload, tasks, writing, removing,
                 excused>>

WriteToken ==
  /\ busy.step = "write"
  /\ busy' = [busy EXCEPT !.step = "read"]
  /\ Put(busy.file, busy.data)
  /\ UNCHANGED <<backend, phase, remote, tree, known, window, reload, tasks, writing, removing,
                 changes, answered, excused>>

\* Delete.  The request has removed the file: git's store finds nothing to commit.
Delete(f) ==
  /\ f \in removing /\ removing' = removing \ {f}
  /\ busy = Free
  /\ IF local[f] # Missing
     THEN Put(f, Missing) /\ Overtaken(f) /\ Detached(f)
     ELSE UNCHANGED <<local, events, answered, writing>>
  /\ busy' = CASE backend # "git" ->
                    [by |-> "delete", file |-> f, step |-> "send", data |-> Missing]
               [] backend = "git" /\ local[f] # Missing ->
                    [by |-> "delete", file |-> f, step |-> "read", data |-> Missing]
               [] OTHER -> Free
  /\ UNCHANGED <<backend, phase, remote, tree, known, window, reload, tasks, changes, excused>>

\* A goroutine of the watcher gets the mutex.
BeginTask(f) ==
  /\ tasks[f] > 0 /\ tasks' = [tasks EXCEPT ![f] = @ - 1]
  /\ busy = Free
  /\ busy' = [by |-> "task", file |-> f, step |-> "read", data |-> Missing]
  /\ UNCHANGED <<backend, phase, local, remote, tree, known, events, window, reload, writing,
                 removing, changes, answered, excused>>

\* EnsureRepository fails: the pull, for the store of a request or a goroutine.
PullFails(f) ==
  /\ backend = "git"
  /\ \/ /\ f \in removing /\ removing' = removing \ {f}
        /\ UNCHANGED <<tasks, excused>>
     \/ /\ tasks[f] > 0 /\ tasks' = [tasks EXCEPT ![f] = @ - 1]
        /\ excused' = excused \cup {<<f, "failed">>}
        /\ UNCHANGED removing
  /\ UNCHANGED <<backend, phase, local, remote, tree, known, events, window, reload, busy,
                 writing, changes, answered>>

\* The file is read: a goroutine sends what it finds now.  Git commits it, unless the
\* commit has it already; then nothing is pushed.  A row is not made of a missing file.
Read ==
  LET f == busy.file
      s == local[f]
  IN  /\ busy.step = "read"
      /\ tree' = IF backend = "git" THEN [tree EXCEPT ![f] = s] ELSE tree
      /\ busy' = IF \/ backend = "git" /\ tree[f] = s
                    \/ backend = "postgres" /\ busy.by = "save" /\ s = Missing
                 THEN Free ELSE [busy EXCEPT !.step = "send", !.data = s]
      /\ UNCHANGED <<backend, phase, local, remote, known, events, window, reload, tasks,
                     writing, removing, changes, answered, excused>>

\* Files that have been sent as they are need no excuse any more.
Sent == excused' = {x \in excused : remote'[x[1]] # Record(x[1], local[x[1]])}

\* What fails is not repeated.  A save leaves an event behind, a goroutine nothing; and
\* what git has committed but not pushed waits for the next commit.
Failed ==
  excused' = excused \cup
    {<<f, "failed">> : f \in IF backend = "git" THEN {g \in Name : tree[g] # remote'[g]}
                             ELSE IF busy.by = "task" THEN {busy.file} ELSE {}}

\* The record is put or deleted, or the commit pushed; the answer may be lost.
Send(outcome) ==
  LET f == busy.file
  IN  /\ busy.step = "send" /\ busy' = Free
      /\ remote' = CASE outcome = "lost" -> remote
                     [] outcome # "lost" /\ backend = "git" -> tree
                     [] OTHER            -> [remote EXCEPT ![f] = Record(f, busy.data)]
      /\ IF outcome = "done" THEN Sent ELSE Failed
      /\ answered' = IF outcome = "done" /\ busy.by # "task" /\ local[f] = busy.data
                     THEN [answered EXCEPT ![f] = busy.data] ELSE answered
      /\ UNCHANGED <<backend, phase, local, tree, known, events, window, reload, tasks, writing,
                     removing, changes>>

-----------------------------------------------------------------------------
(* The watcher. *)

Spawn(f) == tasks[f] < MaxTasks /\ tasks' = [tasks EXCEPT ![f] = @ + 1]

\* The watcher passes over the file as it is, though something else was sent of it.
PassOver(f, reason) ==
  /\ excused' = IF Settled(f) THEN excused ELSE excused \cup {<<f, reason>>}
  /\ UNCHANGED <<known, tasks>>

\* addOrUpdateClient, persistAuthAsync.  The event of the writing itself is still to come
\* for an empty file.
Update(f) ==
  IF local[f] \in {Missing, Partial} THEN UNCHANGED <<known, tasks, excused>>
  ELSE IF local[f] = known[f] THEN PassOver(f, "returned")
  ELSE known' = [known EXCEPT ![f] = local[f]] /\ Spawn(f) /\ UNCHANGED excused

HandleWrite(f) ==
  /\ <<f, "write">> \in events /\ events' = events \ {<<f, "write">>}
  /\ Update(f)
  /\ UNCHANGED <<backend, phase, local, remote, tree, window, reload, busy, writing, removing,
                 changes, answered>>

\* Only what is updated is sent.
ForgetHere(f) ==
  IF known[f] = Missing THEN PassOver(f, "unknown")
  ELSE known' = [known EXCEPT ![f] = Missing] /\ UNCHANGED <<tasks, excused>>

\* removeClient, if the file is gone and was known.
Forget(f) ==
  IF known[f] = Missing THEN PassOver(f, "unknown")
  ELSE known' = [known EXCEPT ![f] = Missing] /\ Spawn(f) /\ UNCHANGED excused

\* A second removal within the window is dropped.
HandleRemove(f) ==
  /\ <<f, "remove">> \in events /\ events' = events \ {<<f, "remove">>}
  /\ window' = window \cup {f}
  /\ IF f \in window THEN PassOver(f, "debounced")
     ELSE IF local[f] = Missing THEN Forget(f)
     ELSE Update(f)
  /\ UNCHANGED <<backend, phase, local, remote, tree, reload, busy, writing, removing, changes,
                 answered>>

WindowEnds(f) ==
  /\ f \in window /\ window' = window \ {f}
  /\ UNCHANGED <<backend, phase, local, remote, tree, known, events, reload, tasks, busy,
                 writing, removing, changes, answered, excused>>

\* reloadConfigIfChanged, one at a time: the timer fires, and an empty or known file is
\* passed over.
BeginReload ==
  /\ <<ConfigFile, "write">> \in events /\ events' = events \ {<<ConfigFile, "write">>}
  /\ reload = Missing
  /\ IF local[ConfigFile] \in {Missing, Partial}
     THEN UNCHANGED <<known, tasks, excused, reload>>
     ELSE IF local[ConfigFile] = known[ConfigFile]
     THEN PassOver(ConfigFile, "returned") /\ UNCHANGED reload
     ELSE reload' = local[ConfigFile] /\ UNCHANGED <<known, tasks, excused>>
  /\ UNCHANGED <<backend, phase, local, remote, tree, window, busy, writing, removing, changes,
                 answered>>

\* The hash is taken of the file as it is after the load; persistConfigAsync.
EndReload ==
  /\ reload # Missing /\ reload' = Missing
  /\ known' = [known EXCEPT ![ConfigFile] = IF local[ConfigFile] \in Payload
                                            THEN local[ConfigFile] ELSE reload]
  /\ Spawn(ConfigFile)
  /\ UNCHANGED <<backend, phase, local, remote, tree, events, window, busy, writing, removing,
                 changes, answered, excused>>

\* Start: first the directory and the configuration are watched, then the files scanned.
Watch ==
  /\ phase = "starting" /\ phase' = "watching"
  /\ excused' = IF Settled(ConfigFile) THEN excused ELSE excused \cup {<<ConfigFile, "start">>}
  /\ UNCHANGED <<backend, local, remote, tree, known, events, window, reload, tasks, busy,
                 writing, removing, changes, answered>>

\* reloadClients: what a file holds is known, and not sent.
Scan ==
  /\ phase = "watching" /\ phase' = "running"
  /\ known' = [f \in Name |-> IF f = ConfigFile THEN known[f]
                              ELSE IF local[f] \in Payload THEN local[f] ELSE Missing]
  /\ excused' = excused \cup {<<f, "start">> : f \in {g \in Credential : ~Settled(g)}}
  /\ UNCHANGED <<backend, local, remote, tree, events, window, reload, tasks, busy, writing,
                 removing, changes, answered>>

-----------------------------------------------------------------------------
(* The program ends at any point and is started again, on the same machine or on     *)
(* another one: Bootstrap, EnsureRepository.                                         *)

\* The credentials are those of the store; the configuration too, if it has one, or else
\* the one that is there or a template, which is sent.
FromRecords(there) ==
  /\ local' = [f \in Name |-> IF f = ConfigFile /\ remote[f] = Missing THEN there ELSE remote[f]]
  /\ remote' = [remote EXCEPT ![ConfigFile] = Record(ConfigFile, local'[ConfigFile])]
  /\ excused' = {} /\ UNCHANGED tree

\* A new machine gets a clone.  On the old one the pull finds another history, or nothing
\* new, and the files stay.
FromRepository(moved) ==
  IF moved
  THEN /\ local' = remote /\ tree' = remote /\ excused' = {} /\ UNCHANGED remote
  ELSE /\ excused' = {<<f, "restart">> : f \in {g \in Name : ~Mirrored(g) \/ tree[g] # remote[g]}}
       /\ UNCHANGED <<local, remote, tree>>

Restart(moved) ==
  /\ phase' = "starting" /\ known' = [f \in Name |-> Missing] /\ events' = {} /\ window' = {}
  /\ reload' = Missing /\ tasks' = [f \in Name |-> 0] /\ busy' = Free
  /\ writing' = {} /\ removing' = {}
  /\ IF backend = "git" THEN FromRepository(moved)
     ELSE FromRecords(IF moved THEN Template ELSE local[ConfigFile])
  /\ UNCHANGED <<backend, changes, answered>>

Next ==
  \/ \E f \in Name : BeginWrite(f) \/ (\E c \in Payload : EndWrite(f, c)) \/ BeginTask(f)
                      \/ PullFails(f)
  \/ \E f \in Credential :
       \/ \E request \in BOOLEAN : Remove(f, request)
       \/ \E c \in Payload : SaveMetadata(f, c) \/ SaveToken(f, c)
       \/ Delete(f) \/ HandleWrite(f) \/ HandleRemove(f) \/ WindowEnds(f)
  \/ WriteToken \/ Read \/ \E outcome \in {"done", "lost", "unsure"} : Send(outcome)
  \/ BeginReload \/ EndReload \/ Watch \/ Scan
  \/ \E moved \in BOOLEAN : Restart(moved)

Spec == Init /\ [][Next]_vars

-----------------------------------------------------------------------------
(* Properties. *)

\* Nothing is under way, and the watcher has started.
Quiet ==
  /\ phase = "running" /\ events = {} /\ reload = Missing /\ busy = Free
  /\ writing = {} /\ removing = {} /\ \A f \in Name : tasks[f] = 0

\* What a save or deletion has sent with success is kept outside, and so is there after
\* a restart, until the file changes again (Save, Delete, Bootstrap).
AnsweredStays ==
  \A f \in Credential : answered[f] # "open" =>
    /\ remote[f] = Record(f, answered[f])
    /\ Record(f, local[f]) = Record(f, answered[f])

\* Once all is quiet, what is kept outside is what the files hold, but for the excused
\* (persistAuthAsync, persistConfigAsync).
QuietMirrored == Quiet => \A f \in Name : Mirrored(f) \/ \E r \in Reason : <<f, r>> \in excused

\* "while mirroring data to a local workspace": what is kept outside follows the files,
\* in whatever order changes, saves, events, goroutines and restarts come, and a failed
\* save is made good by the watcher.  Excepted are a file whose goroutine, or whose push,
\* failed; one that changed before the watcher had scanned it; one that got the content
\* back that the watcher knew, or was removed before the watcher knew it; one removed
\* twice in a second; and, in a repository, one that was still to be sent at a restart.
StoreMirrored == AnsweredStays /\ QuietMirrored

=============================================================================
