----------------------------- MODULE StateStore -----------------------------
(***************************************************************************)
(* The persisted application state (cmd/mira-daemon/file_state_store.go)   *)
(* and the goroutines that change and save it: the Bluetooth manager's     *)
(* callback with the list of known devices (daemon/app.go,                 *)
(* bluetooth/known_devices.go), and all those that assign a field of       *)
(* app.state under its lock and persist it after (OAuth tokens, settings,  *)
(* check-in).                                                              *)
(*                                                                         *)
(* The memory is two fields, each told by how often it was changed.        *)
(* External: the file system.  A file that was not synced may be torn      *)
(* after a power loss, and a directory that was not synced may show any of *)
(* the files renamed to the state file since.                              *)
(***************************************************************************)
EXTENDS Naturals

CONSTANTS
    BtEditors,      \* goroutines that change the list of known devices
    FieldEditors,   \* goroutines that change another field of the state
    NoEditor,
    MaxChanges      \* bound: changes made and wipes

Editors == BtEditors \cup FieldEditors

ASSUME StoreAssumption ==
    /\ BtEditors \cap FieldEditors = {}
    /\ NoEditor \notin Editors
    /\ MaxChanges \in Nat

VARIABLES
    knownDevices,   \* the Bluetooth manager's list
    mem,            \* app.state
    stateLock,      \* who holds app.state's mutex in Save
    editor,         \* where each goroutine is, and the list it has copied
    temp,           \* its temporary file
    file,           \* the file that the state path names
    onDisk,         \* the files it may name after a power loss
    unsaved,        \* history: the last Save failed, or a wipe came after it
    durable,        \* history: number of the last Save that synced the
                    \* directory
    saves,          \* history: number of Saves begun, and wipes
    changes

storeVars == <<knownDevices, mem, stateLock, editor, temp, file, onDisk,
               unsaved, durable, saves, changes>>

Count == 0 .. MaxChanges
State == [known : Count, field : Count]

\* A file: the number of the Save that wrote it, its content, whether synced.
\* A file that is not there is as good as a blank one.
File(n, content, synced) == [save |-> n, content |-> content, synced |-> synced]
Blank == [known |-> 0, field |-> 0]
NoFile == File(0, Blank, FALSE)

At(pc, known) == [pc |-> pc, known |-> known]

-----------------------------------------------------------------------------
(* Changes.                                                                *)

\* upsertKnownDevice, StarDevice, ForgetDevice: the list is changed and copied
\* under knownMu; the callback gets the copy.
ChangeKnown(e) ==
    /\ e \in BtEditors /\ editor[e].pc = "idle"
    /\ changes < MaxChanges
    /\ changes' = changes + 1
    /\ knownDevices' = knownDevices + 1
    /\ editor' = [editor EXCEPT ![e] = At("assign", knownDevices')]
    /\ UNCHANGED <<mem, stateLock, temp, file, onDisk, unsaved, durable, saves>>

AssignKnown(e) ==
    /\ editor[e].pc = "assign"
    /\ stateLock = NoEditor
    /\ mem' = [mem EXCEPT !.known = editor[e].known]
    /\ editor' = [editor EXCEPT ![e] = At("save", 0)]
    /\ UNCHANGED <<knownDevices, stateLock, temp, file, onDisk, unsaved, durable,
                   saves, changes>>

ChangeField(e) ==
    /\ e \in FieldEditors /\ editor[e].pc = "idle"
    /\ stateLock = NoEditor
    /\ changes < MaxChanges
    /\ changes' = changes + 1
    /\ mem' = [mem EXCEPT !.field = @ + 1]
    /\ editor' = [editor EXCEPT ![e] = At("save", 0)]
    /\ UNCHANGED <<knownDevices, stateLock, temp, file, onDisk, unsaved, durable,
                   saves>>

-----------------------------------------------------------------------------
(* Save, under the lock of app.state from its first step to its last.      *)

\* Mutant: the lock is held for encoding only.
LockToEncode(e) == UNCHANGED stateLock

LockToTheEnd(e) == stateLock' = e

SaveEncodes(e) ==
    /\ editor[e].pc = "save"
    /\ stateLock = NoEditor
    /\ LockToTheEnd(e)
    /\ saves' = saves + 1
    /\ temp' = [temp EXCEPT ![e] = File(saves', mem, FALSE)]
    /\ editor' = [editor EXCEPT ![e] = At("sync", 0)]
    /\ UNCHANGED <<knownDevices, mem, file, onDisk, unsaved, durable, changes>>

\* Mutant: the temporary file is not synced.
NoSync(f) == f

Sync(f) == [f EXCEPT !.synced = TRUE]

SaveSyncs(e) ==
    /\ editor[e].pc = "sync"
    /\ temp' = [temp EXCEPT ![e] = Sync(temp[e])]
    /\ editor' = [editor EXCEPT ![e] = At("rename", 0)]
    /\ UNCHANGED <<knownDevices, mem, stateLock, file, onDisk, unsaved, durable,
                   saves, changes>>

SaveRenames(e) ==
    /\ editor[e].pc = "rename"
    /\ file' = temp[e]
    /\ onDisk' = onDisk \cup {temp[e]}
    /\ unsaved' = FALSE
    /\ editor' = [editor EXCEPT ![e] = At("dirsync", 0)]
    /\ UNCHANGED <<knownDevices, mem, stateLock, temp, durable, saves, changes>>

\* The deferred calls: the temporary file is removed, the lock released.
Unlock(e) ==
    /\ temp' = [temp EXCEPT ![e] = NoFile]
    /\ editor' = [editor EXCEPT ![e] = At("idle", 0)]
    /\ stateLock' = IF stateLock = e THEN NoEditor ELSE stateLock

\* Mutant: the directory is left to the system.
NoDirSync == UNCHANGED onDisk

DirSync == onDisk' = {file}

SaveSyncsDir(e) ==
    /\ editor[e].pc = "dirsync"
    /\ DirSync
    /\ durable' = temp[e].save
    /\ Unlock(e)
    /\ UNCHANGED <<knownDevices, mem, file, unsaved, saves, changes>>

\* The error of syncing the directory is ignored.
SaveSkipsDir(e) ==
    /\ editor[e].pc = "dirsync"
    /\ Unlock(e)
    /\ UNCHANGED <<knownDevices, mem, file, onDisk, unsaved, durable, saves,
                   changes>>

\* Any other step of it fails: the temporary file is removed.
SaveFails(e) ==
    /\ editor[e].pc \in {"sync", "rename"}
    /\ unsaved' = TRUE
    /\ Unlock(e)
    /\ UNCHANGED <<knownDevices, mem, file, onDisk, durable, saves, changes>>

\* Wipe, of the factory reset: the file is removed, with no regard to the lock
\* and without syncing the directory.  The daemon goes on until the reboot.
Wipe ==
    /\ changes < MaxChanges
    /\ changes' = changes + 1
    /\ saves' = saves + 1
    /\ file' = File(saves', Blank, TRUE)
    /\ onDisk' = onDisk \cup {file'}
    /\ unsaved' = TRUE
    /\ UNCHANGED <<knownDevices, mem, stateLock, editor, temp, durable>>

-----------------------------------------------------------------------------
(* Restarts.                                                               *)

\* Load, and the seeding of the Bluetooth manager's list.
Load(f) ==
    /\ mem' = f.content
    /\ knownDevices' = f.content.known
    /\ stateLock' = NoEditor
    /\ editor' = [e \in Editors |-> At("idle", 0)]
    /\ temp' = [e \in Editors |-> NoFile]
    /\ unsaved' = FALSE
    /\ file' = f

\* The daemon is killed.
ProcessDies ==
    /\ Load(file)
    /\ UNCHANGED <<onDisk, durable, saves, changes>>

\* The device loses its power.  A torn file would stop the daemon from
\* starting (PowerLossSafe says that there is none).
PowerLoss ==
    /\ \E f \in onDisk : f.synced /\ Load(f) /\ onDisk' = {f}
    /\ UNCHANGED <<durable, saves, changes>>

-----------------------------------------------------------------------------
StoreInit ==
    /\ knownDevices = 0
    /\ mem = Blank
    /\ stateLock = NoEditor
    /\ editor = [e \in Editors |-> At("idle", 0)]
    /\ temp = [e \in Editors |-> NoFile]
    /\ file = File(0, Blank, TRUE)
    /\ onDisk = {File(0, Blank, TRUE)}
    /\ unsaved = FALSE
    /\ durable = 0
    /\ saves = 0
    /\ changes = 0

StoreNext ==
    \/ \E e \in Editors : ChangeKnown(e)
    \/ \E e \in Editors : AssignKnown(e)
    \/ \E e \in Editors : ChangeField(e)
    \/ \E e \in Editors : SaveEncodes(e)
    \/ \E e \in Editors : SaveSyncs(e)
    \/ \E e \in Editors : SaveRenames(e)
    \/ \E e \in Editors : SaveSyncsDir(e)
    \/ \E e \in Editors : SaveSkipsDir(e)
    \/ \E e \in Editors : SaveFails(e)
    \/ Wipe
    \/ ProcessDies
    \/ PowerLoss

StoreSpec == StoreInit /\ [][StoreNext]_storeVars

-----------------------------------------------------------------------------
(* Properties.                                                             *)

\* The types of the memory, the goroutines and the files.
StoreTypeOK ==
    /\ knownDevices \in Count
    /\ mem \in State
    /\ stateLock \in Editors \cup {NoEditor}
    /\ editor \in [Editors -> [pc : {"idle", "assign", "save", "sync", "rename",
                                     "dirsync"}, known : Count]]
    /\ temp \in [Editors -> [save : Nat, content : State, synced : BOOLEAN]]
    /\ file \in [save : Nat, content : State, synced : BOOLEAN]
    /\ onDisk \subseteq [save : Nat, content : State, synced : BOOLEAN]
    /\ unsaved \in BOOLEAN
    /\ durable \in Nat /\ saves \in Nat
    /\ changes \in Count

\* Whenever the power goes, in the middle of whosever Save: what the state path
\* names then is complete, and no older than the last Save that reached the end.
PowerLossSafe == \A f \in onDisk : f.synced /\ f.save >= durable

\* When every goroutine has saved what it changed, the file is what the memory
\* is: no Save puts an older state over a newer one.
SavedIsCurrent ==
    (\A e \in Editors : editor[e].pc \in {"idle", "assign"}) /\ ~unsaved
        => file.content = mem

\* app.go: persist on change so next reboot has the list.
NextRebootHasList ==
    (\A e \in Editors : editor[e].pc = "idle") /\ ~unsaved
        => file.content.known = knownDevices
=============================================================================
