---------------------------- MODULE ConfigReload ----------------------------
(***************************************************************************)
(* The configuration: its file, the objects made of it, the edits of the     *)
(* management API and the hot reload.  A request edits the object that the    *)
(* handlers hold in place, without a lock, and then saves it under Handler.mu  *)
(* by merging it into the file.  The watcher sees the write, waits, loads the  *)
(* file into a new object and hands it to the server and the handlers.        *)
(***************************************************************************)
EXTENDS Naturals

CONSTANTS Setting,   \* settings, and entries of settings
          Compared,  \* applied only where they differ from the last snapshot
          Direct,    \* also applied by the API at once (limits of API keys)
          Unpruned,  \* left in the file when the saved configuration has none
          Editor,    \* requests to the management API
          Reloader,  \* goroutines of the debounce timer
          Object,    \* configuration objects
          Nothing,   \* no content, no object, no edit
          MaxChanges \* bound on edits, replacements and rewritings

Value == {0, 1}                    \* a bound; 0 is the value of what is not set
Config == [Setting -> Value]

\* UpdateClients compares none of the settings that the API applies itself.
ConfigParameters ==
  /\ Compared \cup Direct \cup Unpruned \subseteq Setting /\ Compared \cap Direct = {}
  /\ Object # {} /\ Nothing \notin Editor \cup Object \cup Config
  /\ MaxChanges \in Nat

Blank == [s \in Setting |-> 0]     \* what loading an empty file gives

VARIABLES file,     \* the content of the file, Nothing while it is truncated
          heap,     \* the contents of the objects
          handler,  \* Handler.cfg
          watched,  \* Watcher.config
          applied,  \* the settings in force
          snapshot, \* Server.oldConfigYaml
          hash,     \* lastConfigHash
          event,    \* an event of the file waits
          armed,    \* configReloadTimer
          reloads,  \* the timer's goroutines
          calls,    \* the requests
          changes,  \* edits, replacements and rewritings so far
          edit,     \* history: the last edit of a setting that nothing has overtaken
          races     \* history: what the reload does not get over

vars == <<file, heap, handler, watched, applied, snapshot, hash, event, armed,
          reloads, calls, changes, edit, races>>

\* seen is the content that was compared with the hash, got the one that was loaded,
\* own the object made of it and cfg the one that is handed round.
Reload == [pc : {"idle", "load", "install", "take", "apply", "snapshot", "give", "rehash"},
           seen : Config \cup {Nothing}, got : Config \cup {Nothing},
           own : Object \cup {Nothing}, cfg : Object \cup {Nothing}]
Resting == [pc |-> "idle", seen |-> Nothing, got |-> Nothing, own |-> Nothing, cfg |-> Nothing]

\* cfg is the object the request has edited, data what it is about to write.
EditorState == [pc : {"idle", "edited", "saving", "telling", "replacing", "swapping"},
                setting : Setting \cup {Nothing}, cfg : Object \cup {Nothing},
                data : Config \cup {Nothing}]
NoCall == [pc |-> "idle", setting |-> Nothing, cfg |-> Nothing, data |-> Nothing]

Edit == [by : Editor, value : Value, saved : BOOLEAN]

TypeOK ==
  /\ file \in Config \cup {Nothing} /\ hash \in Config \cup {Nothing}
  /\ heap \in [Object -> Config] /\ {handler, watched} \subseteq Object
  /\ {applied, snapshot} \subseteq Config /\ {event, armed} \subseteq BOOLEAN
  /\ reloads \in [Reloader -> Reload] /\ calls \in [Editor -> EditorState]
  /\ changes \in 0 .. MaxChanges
  /\ edit \in [Setting -> Edit \cup {Nothing}]
  /\ races \subseteq {"overlap", "rehash", "edited", "late", "returned"}

-----------------------------------------------------------------------------
(* Objects. *)

Used == {handler, watched} \cup {reloads[r].own : r \in Reloader}
          \cup {reloads[r].cfg : r \in Reloader} \cup {calls[c].cfg : c \in Editor}
\* The next object; none if Object is too small a bound.
Fresh == {CHOOSE o \in Object : o \notin Used} \cap (Object \ Used)

\* LoadConfig.
Loaded == IF file = Nothing THEN Blank ELSE file

\* Objects nobody has are forgotten.
Collect(h) == heap' = [o \in Object |-> IF o \in Used' THEN h[o] ELSE Blank]

\* The server starts with one object for all, and its first reload of the clients,
\* by one of the goroutines, hands it round once more.
Init ==
  \E content \in Config, starter \in Reloader :
    /\ file = content /\ applied = content /\ snapshot = content
    /\ handler = (CHOOSE o \in Object : TRUE) /\ watched = handler
    /\ heap = [o \in Object |-> IF o = handler THEN content ELSE Blank]
    /\ hash = Nothing /\ event = FALSE /\ armed = FALSE
    /\ reloads = [r \in Reloader |-> IF r = starter THEN [Resting EXCEPT !.pc = "take"]
                                     ELSE Resting]
    /\ calls = [c \in Editor |-> NoCall]
    /\ changes = 0 /\ edit = [s \in Setting |-> Nothing] /\ races = {}

\* The handlers get another object: edits it does not have are overtaken.
Handed(content) ==
  edit' = [s \in Setting |-> IF edit[s] # Nothing /\ edit[s].value # content[s]
                             THEN Nothing ELSE edit[s]]

-----------------------------------------------------------------------------
(* Requests to the management API. *)

\* Handler.mu.
Unlocked == \A c \in Editor : calls[c].pc \notin {"saving", "replacing", "swapping"}

\* A setting is put, patched or deleted.
Change(c, s, v) ==
  /\ calls[c].pc = "idle"
  /\ changes < MaxChanges /\ changes' = changes + 1
  /\ calls' = [calls EXCEPT ![c] = [@ EXCEPT !.pc = "edited", !.setting = s,
                                               !.cfg = IF s \in Direct THEN handler ELSE Nothing]]
  /\ heap' = [heap EXCEPT ![handler][s] = v]
  /\ edit' = [edit EXCEPT ![s] = [by |-> c, value |-> v, saved |-> FALSE]]
  /\ races' = IF \E r \in Reloader : reloads[r].pc \in {"apply", "snapshot", "give"}
                                       /\ reloads[r].cfg = handler
              THEN races \cup {"edited"} ELSE races
  /\ UNCHANGED <<file, handler, watched, applied, snapshot, hash, event, armed, reloads>>

\* mergeMappingPreserve: what the configuration does not have stays in the file.
Merged(old, new) ==
  [s \in Setting |-> IF s \in Unpruned /\ new[s] = 0 THEN old[s] ELSE new[s]]

\* SaveConfigPreserveComments up to os.Create, which truncates the file.
BeginSave(c) ==
  /\ calls[c].pc = "edited" /\ Unlocked
  /\ LET s == calls[c].setting
     IN  IF file = Nothing
         THEN /\ calls' = [calls EXCEPT ![c] = NoCall]
              /\ edit' = IF edit[s] # Nothing /\ edit[s].by = c
                         THEN [edit EXCEPT ![s] = Nothing] ELSE edit
              /\ UNCHANGED <<file, event>>
         ELSE LET data == Merged(file, heap[handler])
              IN  /\ calls' = [calls EXCEPT ![c] = [@ EXCEPT !.pc = "saving", !.data = data]]
                  /\ file' = Nothing /\ event' = TRUE
                  /\ UNCHANGED edit
  /\ UNCHANGED <<handler, watched, applied, snapshot, hash, armed, reloads, races, changes>>
  /\ Collect(heap)

\* The content that is in force, or about to be, is written again.
Returned(content) ==
  races' = IF content = hash \/ \E r \in Reloader : content = reloads[r].got
           THEN races \cup {"returned"} ELSE races

\* The content is written and the request answered.
Write(c) ==
  /\ calls[c].pc = "saving"
  /\ file' = calls[c].data /\ event' = TRUE
  /\ Returned(calls[c].data)
  /\ LET s == calls[c].setting
     IN  /\ calls' = [calls EXCEPT ![c] =
                        IF s \in Direct THEN [@ EXCEPT !.pc = "telling", !.data = Nothing]
                        ELSE NoCall]
         /\ edit' = IF edit[s] # Nothing /\ edit[s].by = c
                    THEN [edit EXCEPT ![s].saved = TRUE] ELSE edit
  /\ UNCHANGED <<handler, watched, applied, snapshot, hash, armed, reloads, changes>>
  /\ Collect(heap)

\* notifyLimitsChanged.
Notify(c) ==
  /\ calls[c].pc = "telling"
  /\ applied' = [s \in Setting |-> IF s \in Direct THEN heap[calls[c].cfg][s] ELSE applied[s]]
  /\ calls' = [calls EXCEPT ![c] = NoCall]
  /\ races' = IF file = Nothing \/ \E s \in Direct : applied'[s] # file[s]
              THEN races \cup {"late"} ELSE races
  /\ UNCHANGED <<file, handler, watched, snapshot, hash, event, armed, reloads, edit, changes>>
  /\ Collect(heap)

\* PutConfigYAML: the file is replaced, loaded and given to the handlers.
BeginReplace(c, content) ==
  /\ calls[c].pc = "idle" /\ Unlocked
  /\ changes < MaxChanges /\ changes' = changes + 1
  /\ calls' = [calls EXCEPT ![c] = [@ EXCEPT !.pc = "replacing", !.data = content]]
  /\ file' = Nothing /\ event' = TRUE
  /\ UNCHANGED <<heap, handler, watched, applied, snapshot, hash, armed, reloads, edit, races>>

WriteBody(c) ==
  /\ calls[c].pc = "replacing"
  /\ file' = calls[c].data /\ event' = TRUE
  /\ calls' = [calls EXCEPT ![c].pc = "swapping"]
  /\ Returned(calls[c].data)
  /\ edit' = [s \in Setting |-> Nothing]
  /\ UNCHANGED <<heap, handler, watched, applied, snapshot, hash, armed, reloads, changes>>

Swap(c) ==
  /\ calls[c].pc = "swapping"
  /\ calls' = [calls EXCEPT ![c] = NoCall]
  /\ Handed(Loaded)
  /\ races' = IF \/ file # calls[c].data
                 \/ \E r \in Reloader : /\ reloads[r].pc \notin {"idle", "load"}
                                        /\ reloads[r].got # Loaded
              THEN races \cup {"late"} ELSE races
  /\ UNCHANGED <<file, watched, applied, snapshot, hash, event, armed, reloads, changes>>
  /\ \E new \in Fresh : handler' = new /\ Collect([heap EXCEPT ![new] = Loaded])

-----------------------------------------------------------------------------
(* The file is edited by hand: it is replaced at once, while no request writes it. *)

Rewrite(content) ==
  /\ changes < MaxChanges /\ changes' = changes + 1
  /\ file # Nothing /\ file' = content /\ event' = TRUE
  /\ Returned(content)
  /\ edit' = [s \in Setting |-> Nothing]
  /\ UNCHANGED <<heap, handler, watched, applied, snapshot, hash, armed, reloads, calls>>

-----------------------------------------------------------------------------
(* The reload. *)

\* An event that comes while a reload is under way is passed over.
NoticeIdle ==
  /\ event /\ event' = FALSE
  /\ armed' = (armed \/ \A r \in Reloader : reloads[r].pc = "idle")
  /\ UNCHANGED <<file, heap, handler, watched, applied, snapshot, hash, reloads, calls, edit,
                 races, changes>>

\* handleEvent, scheduleConfigReload.  Further events only wind the timer again.
Notice ==
  /\ event /\ event' = FALSE /\ armed' = TRUE
  /\ UNCHANGED <<file, heap, handler, watched, applied, snapshot, hash, reloads, calls, edit,
                 races, changes>>

\* reloadConfigIfChanged: an empty file and one whose hash is known are passed over.
Fire(r) ==
  /\ armed /\ reloads[r].pc = "idle" /\ armed' = FALSE
  /\ IF file \in {Nothing, hash}
     THEN UNCHANGED <<reloads, races>>
     ELSE /\ reloads' = [reloads EXCEPT ![r] = [@ EXCEPT !.pc = "load", !.seen = file]]
          /\ races' = IF \E o \in Reloader \ {r} : reloads[o].pc # "idle"
                      THEN races \cup {"overlap"} ELSE races
  /\ UNCHANGED <<file, heap, handler, watched, applied, snapshot, hash, event, calls, edit,
                 changes>>

\* LoadConfig reads the file again.
Load(r) ==
  /\ reloads[r].pc = "load"
  /\ UNCHANGED <<file, handler, watched, applied, snapshot, hash, event, armed, calls, edit, races,
                 changes>>
  /\ \E new \in Fresh :
       /\ reloads' = [reloads EXCEPT ![r] = [@ EXCEPT !.pc = "install", !.own = new,
                                                      !.got = Loaded]]
       /\ Collect([heap EXCEPT ![new] = Loaded])

Install(r) ==
  /\ reloads[r].pc = "install"
  /\ watched' = reloads[r].own
  /\ reloads' = [reloads EXCEPT ![r] = [@ EXCEPT !.pc = "take", !.own = Nothing]]
  /\ UNCHANGED <<file, handler, applied, snapshot, hash, event, armed, calls, edit, races,
                 changes>>
  /\ Collect(heap)

\* reloadClients reads Watcher.config and calls back.
Take(r) ==
  /\ reloads[r].pc = "take"
  /\ reloads' = [reloads EXCEPT ![r] = [@ EXCEPT !.pc = "apply", !.cfg = watched]]
  /\ UNCHANGED <<file, heap, handler, watched, applied, snapshot, hash, event, armed, calls, edit,
                 races, changes>>

\* UpdateClients: the settings, the snapshot, and the handlers.
Apply(r) ==
  /\ reloads[r].pc = "apply"
  /\ LET new == heap[reloads[r].cfg]
     IN  applied' = [s \in Setting |-> IF s \in Compared /\ snapshot[s] = new[s]
                                       THEN applied[s] ELSE new[s]]
  /\ reloads' = [reloads EXCEPT ![r].pc = "snapshot"]
  /\ UNCHANGED <<file, heap, handler, watched, snapshot, hash, event, armed, calls, edit, races,
                 changes>>

TakeSnapshot(r) ==
  /\ reloads[r].pc = "snapshot"
  /\ snapshot' = heap[reloads[r].cfg]
  /\ reloads' = [reloads EXCEPT ![r].pc = "give"]
  /\ UNCHANGED <<file, heap, handler, watched, applied, hash, event, armed, calls, edit, races,
                 changes>>

Give(r) ==
  /\ reloads[r].pc = "give"
  /\ handler' = reloads[r].cfg /\ Handed(heap[reloads[r].cfg])
  /\ reloads' = [reloads EXCEPT ![r] =
                   IF @.seen = Nothing THEN Resting
                   ELSE [@ EXCEPT !.pc = "rehash", !.cfg = Nothing]]
  /\ UNCHANGED <<file, watched, applied, snapshot, hash, event, armed, calls, races, changes>>
  /\ Collect(heap)

\* The file is read once more, for its hash.
Rehash(r) ==
  /\ reloads[r].pc = "rehash"
  /\ hash' = IF file = Nothing THEN reloads[r].seen ELSE file
  /\ races' = IF hash' # reloads[r].got THEN races \cup {"rehash"} ELSE races
  /\ reloads' = [reloads EXCEPT ![r] = Resting]
  /\ UNCHANGED <<file, heap, handler, watched, applied, snapshot, event, armed, calls, edit,
                 changes>>

Next ==
  \/ \E c \in Editor :
       \/ \E s \in Setting, v \in Value : Change(c, s, v)
       \/ BeginSave(c) \/ Write(c) \/ Notify(c)
       \/ \E content \in Config : BeginReplace(c, content)
       \/ WriteBody(c) \/ Swap(c)
  \/ \E content \in Config : Rewrite(content)
  \/ Notice
  \/ \E r \in Reloader :
       \/ Fire(r) \/ Load(r) \/ Install(r) \/ Take(r)
       \/ Apply(r) \/ TakeSnapshot(r) \/ Give(r) \/ Rehash(r)

Spec == Init /\ [][Next]_vars

-----------------------------------------------------------------------------
(* Properties. *)

\* Nothing is under way.
Quiet ==
  /\ file # Nothing /\ ~event /\ ~armed
  /\ \A r \in Reloader : reloads[r].pc = "idle"
  /\ \A c \in Editor : calls[c].pc = "idle"

\* An edit answered with success is in the file until something overtakes it
\* (SaveConfigPreserveComments, mergeMappingPreserve).
EditsSaved ==
  file # Nothing =>
    \A s \in Setting : edit[s] # Nothing /\ edit[s].saved
                          /\ ~(s \in Unpruned /\ edit[s].value = 0) => file[s] = edit[s].value

\* Once all is quiet and no race came between, what is in force and what the handlers
\* show is what the file says (reloadConfigIfChanged, UpdateClients).
QuietConfigApplied == Quiet /\ races = {} => applied = file /\ heap[handler] = file

\* An edit that was answered with success is in the file until a later one or another
\* content of the file overtakes it, unless it is a deletion that the saving keeps; and
\* once all is quiet, the settings in force and the ones the handlers show are those
\* of the file, unless one of five races came between: two timers fired together, the
\* hash was taken of a newer content than the one loaded, an object was edited while it
\* was handed round, a request lagged behind the file, or the file got the content
\* back that had just been loaded (persist, reloadConfigIfChanged, UpdateClients).
EditsInForce == EditsSaved /\ QuietConfigApplied

=============================================================================
