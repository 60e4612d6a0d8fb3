----------------------------- MODULE MCWatcher -----------------------------
(***************************************************************************)
(* What the watcher makes of changed files: updates for the manager, and      *)
(* copies in the store outside.  The two are explored side by side: a          *)
(* behaviour is one of AuthUpdates or one of MirroredStore, while the state     *)
(* of the other stays as it is.                                             *)
(***************************************************************************)
EXTENDS AuthUpdates

CONSTANTS Credential, ConfigFile, Payload, Template, MaxTasks, MaxChanges  \* MirroredStore

VARIABLES part, backend, phase, local, remote, tree, known, unseen, window, reload, tasks, busy,
          writing, removing, changes, answered, excused
mirror == <<backend, phase, local, remote, tree, known, unseen, window, reload, tasks, busy,
            writing, removing, changes, answered, excused>>

Mirror == INSTANCE MirroredStore WITH events <- unseen

\* The mirror starts with the template as its configuration.
WatcherInit ==
  /\ part \in {"updates", "mirror"} /\ Init /\ Mirror!Init
  /\ local[ConfigFile] = Template
  /\ IF part = "mirror" THEN \A f \in File : disk[f] = Missing
     ELSE backend = "git" /\ \A f \in Credential : local[f] = Missing

WatcherNext ==
  \/ part = "updates" /\ Next /\ UNCHANGED <<part, mirror>>
  \/ part = "mirror" /\ Mirror!Next /\ UNCHANGED <<part, vars>>

WatcherSpec == WatcherInit /\ [][WatcherNext]_<<part, vars, mirror>>

ASSUME WatcherParameters == Mirror!StoreParameters

\* The contents of a file are only compared for equality.
Symmetry == Permutations(Content)

\* The state of either has its type.
FilesTypeOK == TypeOK /\ Mirror!TypeOK

\* MirroredStore: what is kept outside follows the files.
StoreMirrored == part = "mirror" => Mirror!StoreMirrored

=============================================================================
