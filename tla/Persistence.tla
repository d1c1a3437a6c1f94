----------------------------- MODULE Persistence ------------------------------
(***************************************************************************)
(* The stores of a process and its tasks: the file stores, and the key-value *)
(* table (persistence/backends/sqlite.py) with the sessions, the paused     *)
(* gates and the workspace snapshots in it (persistence/session.py,         *)
(* resume.py, workspace.py).  The first run makes the components            *)
(* (sdk.py, _ensure_components).                                            *)
(*                                                                         *)
(* A statement of the table is a transaction and gives up the event loop;   *)
(* whatever a task read before it may be stale after it.  The process can   *)
(* die at any moment and is started again.  The processes that tools have   *)
(* started on the host run beside the event loop, in the same workspace.    *)
(***************************************************************************)
EXTENDS FileStores, FiniteSets

CONSTANTS
  Tasks,       \* the tasks of the process
  MaxZips,     \* bound: different zips of the workspace
  MaxCrashes   \* bound: crashes

ASSUME CrashesAssumption == MaxCrashes \in Nat

VARIABLES
  kv,        \* the rows of the table that are modelled, and whether it exists
  manager,   \* Hanflow._workspace_mgr is set
  task,      \* where each task is, and what it has read
  crashes,
  wanted,    \* history: the session after every update that returned
  raced,     \* history: two writers of the session have overlapped
  processes, \* there are processes of shell or code_exec calls on the host
  zips,      \* history: every finished zip: what it holds, the workspace when it began,
             \*   and the files that processes changed meanwhile
  restored,  \* history: nothing has changed the workspace since it was restored
  missed     \* history: a statement was sent to a table that was not there

kvVars == <<kv, manager, task, crashes, wanted, raced, processes, zips, restored, missed>>
vars == <<fileVars, kvVars>>

Fields == {"status", "metadata"}
NoSession == [f \in Fields |-> Absent]
NoRow == [f \in WorkspaceFiles |-> Absent]

NoZip == [blob |-> NoRow, begun |-> NoRow, touched |-> {}]

Fresh == [state |-> "new", session |-> NoSession, zip |-> NoZip, left |-> {}]

TypeOK ==
  /\ FilesTypeOK
  /\ kv.table \in BOOLEAN /\ kv.session \in [Fields -> 0 .. MaxOps]
  /\ kv.paused \in 0 .. MaxOps
  /\ kv.snapshot \in [WorkspaceFiles -> {Torn} \cup 0 .. MaxOps] /\ kv.taken \in BOOLEAN
  /\ manager \in BOOLEAN /\ raced \in BOOLEAN /\ restored \in BOOLEAN /\ missed \in BOOLEAN
  /\ processes \in BOOLEAN
  /\ \A t \in Tasks :
       /\ task[t].state \in {"new", "setup", "ready", "updating", "zipping", "zipped", "restoring"}
       /\ task[t].left \subseteq WorkspaceFiles
  /\ crashes \in 0 .. MaxCrashes
  /\ wanted \in [Fields -> 0 .. MaxOps]

Init ==
  /\ FilesInit
  /\ kv = [table |-> FALSE, session |-> NoSession, paused |-> Absent,
           snapshot |-> NoRow, taken |-> FALSE]
  /\ manager = FALSE
  /\ task = [t \in Tasks |-> Fresh]
  /\ crashes = 0
  /\ wanted = NoSession /\ raced = FALSE
  /\ processes = FALSE /\ zips = {} /\ restored = FALSE /\ missed = FALSE

Goes(t, state) == [task EXCEPT ![t].state = state]

(* Any statement: on a missing table it raises.                             *)
Uses(table) == missed' = (missed \/ ~table)

CountsWrite == CanWrite /\ ops' = NewWrite /\ UNCHANGED <<disk, acked, damaged>>

(***************************************************************************)
(* _ensure_components: the test, the setup of the table, the assignment.    *)
(***************************************************************************)
FirstRunEarly(t) ==  \* mutant: the manager is assigned before the table is set up
  /\ task[t].state = "new" /\ ~manager
  /\ manager' = TRUE
  /\ task' = Goes(t, "setup")

FirstRun(t) ==
  /\ task[t].state = "new" /\ ~manager
  /\ task' = Goes(t, "setup")
  /\ UNCHANGED manager

ComponentsMissing(t) ==
  /\ FirstRun(t)
  /\ UNCHANGED <<fileVars, kv, crashes, wanted, raced, processes, zips, restored, missed>>

(* A second first run replaces the manager of the first by its equal.       *)
SetUp(t) ==
  /\ task[t].state = "setup"
  /\ kv' = [kv EXCEPT !.table = TRUE]
  /\ manager' = TRUE
  /\ task' = Goes(t, "ready")
  /\ UNCHANGED <<fileVars, crashes, wanted, raced, processes, zips, restored, missed>>

ComponentsThere(t) ==
  /\ task[t].state = "new" /\ manager
  /\ task' = Goes(t, "ready")
  /\ UNCHANGED <<fileVars, kv, manager, crashes, wanted, raced, processes, zips, restored, missed>>

(***************************************************************************)
(* Sessions: create is one statement, an update is a read and a write of    *)
(* the whole row.                                                           *)
(***************************************************************************)
Updating == {t \in Tasks : task[t].state = "updating"}

CreateSession(t) ==
  /\ task[t].state = "ready" /\ CountsWrite
  /\ kv' = [kv EXCEPT !.session = [f \in Fields |-> NewWrite]]
  /\ wanted' = kv'.session
  /\ raced' = (raced \/ Updating # {})
  /\ Uses(kv.table)
  /\ UNCHANGED <<manager, task, crashes, processes, zips, restored>>

ReadSession(t) ==
  /\ task[t].state = "ready" /\ kv.session # NoSession
  /\ task' = [task EXCEPT ![t].state = "updating", ![t].session = kv.session]
  /\ raced' = (raced \/ Updating # {})
  /\ Uses(kv.table)
  /\ UNCHANGED <<fileVars, kv, manager, crashes, wanted, processes, zips, restored>>

OnlyTheFields(t, f) == [NoSession EXCEPT ![f] = NewWrite]  \* mutant: the row is not merged

Merged(t, f) == [task[t].session EXCEPT ![f] = NewWrite]

WriteSession(t, f) ==
  /\ task[t].state = "updating" /\ CountsWrite
  /\ kv' = [kv EXCEPT !.session = Merged(t, f)]
  /\ wanted' = [wanted EXCEPT ![f] = NewWrite]
  /\ task' = [task EXCEPT ![t].state = "ready", ![t].session = NoSession]
  /\ Uses(kv.table)
  /\ UNCHANGED <<manager, crashes, raced, processes, zips, restored>>

(* The list of sessions, and every operation on long-term memory (put, get, *)
(* list, delete), is one statement; none of them sets the table up.  The    *)
(* rows of the long-term memory, which nothing else uses, are not kept.     *)
ListSessions(t) ==
  /\ task[t].state = "ready"
  /\ Uses(kv.table)
  /\ UNCHANGED <<fileVars, kv, manager, task, crashes, wanted, raced, processes, zips, restored>>

LongTermMemory(t) ==
  /\ task[t].state = "ready"
  /\ Uses(kv.table)
  /\ UNCHANGED <<fileVars, kv, manager, task, crashes, wanted, raced, processes, zips, restored>>

(***************************************************************************)
(* Paused gates: recorded, cleared, read; each sets the table up itself.    *)
(***************************************************************************)
RecordPaused(t) ==
  /\ CountsWrite
  /\ kv' = [kv EXCEPT !.table = TRUE, !.paused = NewWrite]
  /\ UNCHANGED <<manager, task, crashes, wanted, raced, processes, zips, restored, missed>>

ClearPaused(t) ==
  /\ kv' = [kv EXCEPT !.table = TRUE, !.paused = Absent]
  /\ UNCHANGED <<fileVars, manager, task, crashes, wanted, raced, processes, zips, restored, missed>>

ReadPaused(t) ==
  /\ kv' = [kv EXCEPT !.table = TRUE]
  /\ UNCHANGED <<fileVars, manager, task, crashes, wanted, raced, processes, zips, restored, missed>>

(***************************************************************************)
(* Workspace snapshots: zipped file by file without giving up the event     *)
(* loop, stored by one statement; fetched by one, unpacked over what is     *)
(* there.                                                                   *)
(***************************************************************************)
Workspace(d) == [f \in WorkspaceFiles |-> d[f]]

LoopShared == TRUE  \* mutant: the zip is made in a thread

LoopFree == \A t \in Tasks : task[t].state # "zipping"

Snapshot(t) ==
  /\ task[t].state = "ready" /\ Cardinality(zips) < MaxZips
  /\ task' = [task EXCEPT ![t].state = "zipping", ![t].left = WorkspaceFiles,
                          ![t].zip.begun = Workspace(disk)]
  /\ UNCHANGED <<fileVars, kv, manager, crashes, wanted, raced, processes, zips, restored, missed>>

(* One more file is looked at, if it is still there; one that a process     *)
(* writes meanwhile may be copied in part.                                  *)
ZipFile(t, f) ==
  /\ task[t].state = "zipping" /\ f \in task[t].left
  /\ \E copy \in {disk[f]} \cup {half \in {Torn} : f \in task[t].zip.touched} :
       task' = [task EXCEPT ![t].left = @ \ {f}, ![t].zip.blob[f] = copy]
  /\ UNCHANGED <<fileVars, kv, manager, crashes, wanted, raced, processes, zips, restored, missed>>

ZipEnds(t) ==
  /\ task[t].state = "zipping" /\ task[t].left = {}
  /\ zips' = zips \cup {task[t].zip}
  /\ task' = Goes(t, "zipped")
  /\ UNCHANGED <<fileVars, kv, manager, crashes, wanted, raced, processes, restored, missed>>

(* A file is gone between the look and the copy, or cannot be read.         *)
ZipFails(t) ==
  /\ task[t].state = "zipping"
  /\ task' = [task EXCEPT ![t].state = "ready", ![t].left = {}, ![t].zip = NoZip]
  /\ UNCHANGED <<fileVars, kv, manager, crashes, wanted, raced, processes, zips, restored, missed>>

StoreSnapshot(t) ==
  /\ task[t].state = "zipped"
  /\ kv' = [kv EXCEPT !.snapshot = task[t].zip.blob, !.taken = TRUE]
  /\ task' = [task EXCEPT ![t].state = "ready", ![t].zip = NoZip]
  /\ Uses(kv.table)
  /\ UNCHANGED <<fileVars, manager, crashes, wanted, raced, processes, zips, restored>>

FetchSnapshot(t) ==
  /\ task[t].state = "ready" /\ kv.taken
  /\ task' = [task EXCEPT ![t].state = "restoring", ![t].zip.blob = kv.snapshot]
  /\ Uses(kv.table)
  /\ UNCHANGED <<fileVars, kv, manager, crashes, wanted, raced, processes, zips, restored>>

Unpacked(blob) ==
  [f \in Files |-> IF f \in WorkspaceFiles /\ blob[f] # Absent THEN blob[f] ELSE disk[f]]

(* Unpacking does not give up the event loop either.  A process that writes *)
(* a file while others are unpacked might as well have written it before,   *)
(* or after all of it, so it is one step.                                   *)
Unpack(t) ==
  /\ task[t].state = "restoring"
  /\ disk' = Unpacked(task[t].zip.blob)
  /\ restored' = TRUE
  /\ task' = [task EXCEPT ![t].state = "ready", ![t].zip = NoZip]
  /\ UNCHANGED <<ops, acked, damaged, kv, manager, crashes, wanted, raced, processes, zips, missed>>

(* What is on disk when the unpacking of t breaks off: some files are back, *)
(* one may be torn.                                                         *)
UnpackedInPart(t) ==
  /\ task[t].state = "restoring"
  /\ \E back \in SUBSET WorkspaceFiles, torn \in SUBSET WorkspaceFiles :
       /\ Cardinality(torn) <= 1 /\ \A f \in back \cup torn : task[t].zip.blob[f] # Absent
       /\ disk' = [f \in Files |-> IF f \in torn THEN Torn
                                   ELSE IF f \in back THEN task[t].zip.blob[f] ELSE disk[f]]
  /\ restored' = FALSE
  /\ UNCHANGED <<ops, acked, damaged>>

(* A file cannot be written.                                                *)
UnpackFails(t) ==
  /\ UnpackedInPart(t)
  /\ task' = [task EXCEPT ![t].state = "ready", ![t].zip = NoZip]
  /\ UNCHANGED <<kv, manager, crashes, wanted, raced, processes, zips, missed>>

(***************************************************************************)
(* Writers of the workspace: the filesystem tool within the event loop, the *)
(* processes of the shell and code_exec tools beside it; these outlive      *)
(* their calls and this process.                                            *)
(***************************************************************************)
ToolWrites ==
  /\ manager
  /\ \E f \in WorkspaceFiles : WriteWorkspace(f)
  /\ restored' = FALSE
  /\ UNCHANGED <<kv, manager, task, crashes, wanted, raced, processes, zips, missed>>

StartsProcess ==
  /\ manager /\ ~processes /\ processes' = TRUE
  /\ UNCHANGED <<fileVars, kv, manager, task, crashes, wanted, raced, zips, restored, missed>>

(* A process writes a file, has written a part of it, or removes it.        *)
ProcessWrites(f) ==
  /\ processes /\ CanWrite
  /\ \E content \in {NewWrite, Torn, Absent} : disk' = [disk EXCEPT ![f] = content]
  /\ ops' = NewWrite
  /\ task' = [t \in Tasks |-> IF task[t].state = "zipping"
                              THEN [task[t] EXCEPT !.zip.touched = @ \cup {f}] ELSE task[t]]
  /\ restored' = FALSE
  /\ UNCHANGED <<acked, damaged, kv, manager, crashes, wanted, raced, processes, zips, missed>>

StoresFiles ==
  /\ manager
  /\ FileStep
  /\ UNCHANGED kvVars

(***************************************************************************)
(* Crashes: the rows and the files stay, the tasks and what they read go.   *)
(***************************************************************************)
Restarts ==
  /\ crashes < MaxCrashes /\ crashes' = crashes + 1
  /\ manager' = FALSE
  /\ task' = [t \in Tasks |-> Fresh]
  /\ UNCHANGED <<kv, wanted, raced, processes, zips, missed>>

Crash == Restarts /\ UNCHANGED <<fileVars, restored>>

(* An operation on files breaks off, with the process or without it.        *)
FileStepBreaksOff ==
  /\ manager /\ BreaksOff /\ UNCHANGED restored
  /\ Restarts \/ UNCHANGED <<kv, manager, task, crashes, wanted, raced, processes, zips, missed>>

CrashInUnpack(t) == UnpackedInPart(t) /\ Restarts

TaskStep(t) ==
  \/ ComponentsMissing(t) \/ SetUp(t) \/ ComponentsThere(t)
  \/ CreateSession(t) \/ ReadSession(t) \/ \E f \in Fields : WriteSession(t, f)
  \/ ListSessions(t) \/ LongTermMemory(t)
  \/ RecordPaused(t) \/ ClearPaused(t) \/ ReadPaused(t)
  \/ Snapshot(t) \/ StoreSnapshot(t) \/ FetchSnapshot(t) \/ Unpack(t) \/ UnpackFails(t)

Zipping(t) == (\E f \in WorkspaceFiles : ZipFile(t, f)) \/ ZipEnds(t) \/ ZipFails(t)

Next ==
  \/ LoopFree /\ \E t \in Tasks : TaskStep(t) \/ CrashInUnpack(t)
  \/ LoopFree /\ (ToolWrites \/ StartsProcess \/ StoresFiles \/ FileStepBreaksOff)
  \/ \E t \in Tasks : Zipping(t)
  \/ \E f \in WorkspaceFiles : ProcessWrites(f)
  \/ Crash

Spec == Init /\ [][Next]_vars

-------------------------------------------------------------------------------
(* As long as no two writers of a session overlap, its row is what every    *)
(* update that returned has made of it, through any crash: no field of an   *)
(* update is lost and none comes back.                                      *)
LoneUpdatesAreKept == ~raced => kv.session = wanted

(* What the table holds as a snapshot is one zip of the workspace, in which *)
(* every file is as it was when that zip began, unless a process on the     *)
(* host changed it meanwhile: nothing else can.  After a restore every file *)
(* of one zip is back as it is in there, although tools, processes and      *)
(* crashes changed the files in between.                                    *)
RestoreIsOneSnapshot ==
  /\ kv.taken => \E zip \in zips :
       /\ kv.snapshot = zip.blob
       /\ \A f \in WorkspaceFiles \ zip.touched : zip.blob[f] = zip.begun[f]
  /\ restored => \E zip \in zips :
       \A f \in WorkspaceFiles : zip.blob[f] # Absent => disk[f] = zip.blob[f]

(* However the first runs of a process overlap, no statement is sent to a   *)
(* table that has not been set up.                                          *)
StoresAreSetUp == ~missed
===============================================================================
