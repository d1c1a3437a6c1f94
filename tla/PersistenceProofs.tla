--------------------------- MODULE PersistenceProofs ---------------------------
(***************************************************************************)
(* The stores, for any number of tasks, writes and crashes: the table is    *)
(* there when it is used, lone updates of a session are kept (IInv), what   *)
(* was acknowledged as a file is read back, and a snapshot is one zip of    *)
(* the workspace (StoresInv).                                               *)
(*                                                                         *)
(* What makes IInv inductive: the manager is assigned after the table is    *)
(* made and no crash takes the table away; and as long as no two writers    *)
(* have overlapped, the one task that is between its read and its write     *)
(* holds the row as it still is.  StoresInv says of every object what its   *)
(* files hold, and of every zip how much of it is as the workspace was when *)
(* it began.                                                                *)
(***************************************************************************)
EXTENDS Persistence, TLAPS

PastSetUp == {"ready", "updating", "zipping", "zipped", "restoring"}

(* The fields the records have; what is in them does not matter here.       *)
Shape ==
  /\ kv = [x \in DOMAIN kv |-> kv[x]]
  /\ DOMAIN kv = {"table", "session", "paused", "snapshot", "taken"}
  /\ task = [t \in Tasks |-> task[t]]
  /\ \A t \in Tasks : /\ task[t] = [x \in DOMAIN task[t] |-> task[t][x]]
                      /\ DOMAIN task[t] = {"state", "session", "zip", "left"}

TableIsThere ==
  /\ kv.table \in BOOLEAN /\ missed \in BOOLEAN
  /\ manager => kv.table
  /\ \A t \in Tasks : task[t].state \in PastSetUp => kv.table
  /\ ~missed

RowIsHeld ==
  /\ raced \in BOOLEAN
  /\ ~raced =>
     /\ kv.session = wanted
     /\ \A t \in Updating : task[t].session = kv.session
     /\ \A t, u \in Updating : t = u

IInv == Shape /\ TableIsThere /\ RowIsHeld

(* A statement that is sent when the table is there.                        *)
LEMMA Sent ==
  ASSUME IInv, NEW t \in Tasks, task[t].state \in PastSetUp, Uses(kv.table)
  PROVE  missed' = FALSE /\ kv.table = TRUE
BY DEF IInv, TableIsThere, Uses

LEMMA InitHolds == Init => IInv
<1> SUFFICES ASSUME Init PROVE IInv
  OBVIOUS
<1>1. Shape
  BY DEF Init, Shape, Fresh
<1>2. TableIsThere
  BY DEF Init, TableIsThere, PastSetUp, Fresh
<1>3. RowIsHeld
  BY DEF Init, RowIsHeld, Updating, Fresh
<1> QED  BY <1>1, <1>2, <1>3 DEF IInv

(* The steps of a task, one by one.                                         *)
LEMMA TasksKeep ==
  ASSUME IInv, NEW t \in Tasks, TaskStep(t)
  PROVE  IInv'
<1> USE DEF PastSetUp, Goes
<1>1. CASE ComponentsMissing(t)
  BY <1>1 DEF ComponentsMissing, FirstRun, IInv, Shape, TableIsThere, RowIsHeld, Updating
<1>2. CASE SetUp(t)
  <2>1. Shape'
    BY <1>2 DEF SetUp, IInv, Shape
  <2>2. /\ kv'.table = TRUE /\ kv'.session = kv.session
        /\ \A u \in Tasks : u # t => task'[u] = task[u]
        /\ task'[t].state = "ready"
    BY <1>2 DEF SetUp, IInv, Shape
  <2>3. UNCHANGED <<missed, raced, wanted>>
    BY <1>2 DEF SetUp
  <2>4. TableIsThere'
    BY <2>2, <2>3 DEF IInv, TableIsThere
  <2>5. RowIsHeld'
    BY <2>2, <2>3 DEF IInv, RowIsHeld, Updating
  <2> QED  BY <2>1, <2>4, <2>5 DEF IInv
<1>3. CASE ComponentsThere(t)
  BY <1>3 DEF ComponentsThere, IInv, Shape, TableIsThere, RowIsHeld, Updating
<1>4. CASE CreateSession(t)
  <2>1. missed' = FALSE /\ kv.table = TRUE
    BY <1>4, Sent DEF CreateSession
  <2>2. kv' = [kv EXCEPT !.session = kv'.session] /\ wanted' = kv'.session
    BY <1>4 DEF CreateSession, IInv, Shape
  <2>3. UNCHANGED <<manager, task>> /\ raced' = (raced \/ Updating # {})
    BY <1>4 DEF CreateSession
  <2> QED  BY <2>1, <2>2, <2>3 DEF IInv, Shape, TableIsThere, RowIsHeld, Updating
<1>5. CASE ReadSession(t)
  <2>1. missed' = FALSE /\ kv.table = TRUE
    BY <1>5, Sent DEF ReadSession
  <2>2. /\ task' = [task EXCEPT ![t].state = "updating", ![t].session = kv.session]
        /\ raced' = (raced \/ Updating # {})
        /\ UNCHANGED <<kv, manager, wanted>>
    BY <1>5 DEF ReadSession
  <2>3. Shape'
    BY <2>2 DEF IInv, Shape
  <2>4. /\ \A u \in Tasks : u # t => task'[u] = task[u]
        /\ task'[t].state = "updating" /\ task'[t].session = kv.session
    BY <2>2 DEF IInv, Shape
  <2>5. TableIsThere'
    BY <2>1, <2>2, <2>4 DEF IInv, TableIsThere
  <2>6. RowIsHeld'
    BY <2>2, <2>4 DEF IInv, RowIsHeld, Updating
  <2> QED  BY <2>3, <2>5, <2>6 DEF IInv
<1>6. ASSUME NEW f \in Fields, WriteSession(t, f)
      PROVE  IInv'
  <2>1. missed' = FALSE /\ kv.table = TRUE
    BY <1>6, Sent DEF WriteSession
  <2>2. /\ kv' = [kv EXCEPT !.session = Merged(t, f)]
        /\ wanted' = [wanted EXCEPT ![f] = NewWrite]
        /\ task' = [task EXCEPT ![t].state = "ready", ![t].session = NoSession]
        /\ UNCHANGED <<manager, raced>>
    BY <1>6 DEF WriteSession
  <2>3. ASSUME ~raced
        PROVE  kv'.session = wanted' /\ Updating' = {}
    <3>1. t \in Updating /\ task[t].session = wanted /\ Updating = {t}
      BY <1>6, <2>3 DEF WriteSession, Updating, IInv, RowIsHeld
    <3> QED  BY <2>2, <3>1 DEF Merged, Updating, IInv, Shape
  <2>4. Shape'
    BY <2>2 DEF IInv, Shape
  <2>5. /\ kv'.table = kv.table
        /\ \A u \in Tasks : u # t => task'[u] = task[u]
        /\ task'[t].state = "ready"
    BY <2>2 DEF IInv, Shape
  <2>6. TableIsThere'
    BY <2>1, <2>2, <2>5 DEF IInv, TableIsThere
  <2>7. RowIsHeld'
    BY <2>2, <2>3 DEF IInv, RowIsHeld
  <2> QED  BY <2>4, <2>6, <2>7 DEF IInv
<1>7. CASE ListSessions(t) \/ LongTermMemory(t)
  <2>1. missed' = FALSE /\ UNCHANGED <<kv, manager, task, wanted, raced>>
    BY <1>7, Sent DEF ListSessions, LongTermMemory
  <2> QED  BY <2>1 DEF IInv, Shape, TableIsThere, RowIsHeld, Updating
<1>8. CASE RecordPaused(t) \/ ClearPaused(t) \/ ReadPaused(t)
  <2>1. /\ DOMAIN kv' = DOMAIN kv /\ kv' = [x \in DOMAIN kv' |-> kv'[x]]
        /\ kv'.table = TRUE /\ kv'.session = kv.session
    BY <1>8 DEF RecordPaused, ClearPaused, ReadPaused, IInv, Shape
  <2>2. UNCHANGED <<manager, task, missed, raced, wanted>>
    BY <1>8 DEF RecordPaused, ClearPaused, ReadPaused
  <2> QED  BY <2>1, <2>2 DEF IInv, Shape, TableIsThere, RowIsHeld, Updating
<1>9. CASE Snapshot(t)
  BY <1>9 DEF Snapshot, IInv, Shape, TableIsThere, RowIsHeld, Updating
<1>10. CASE StoreSnapshot(t)
  <2>1. missed' = FALSE /\ kv.table = TRUE
    BY <1>10, Sent DEF StoreSnapshot
  <2> QED  BY <1>10, <2>1 DEF StoreSnapshot, IInv, Shape, TableIsThere, RowIsHeld, Updating
<1>11. CASE FetchSnapshot(t)
  <2>1. missed' = FALSE /\ kv.table = TRUE
    BY <1>11, Sent DEF FetchSnapshot
  <2> QED  BY <1>11, <2>1 DEF FetchSnapshot, IInv, Shape, TableIsThere, RowIsHeld, Updating
<1>12. CASE Unpack(t)
  BY <1>12 DEF Unpack, IInv, Shape, TableIsThere, RowIsHeld, Updating
<1>13. CASE UnpackFails(t)
  BY <1>13 DEF UnpackFails, UnpackedInPart, IInv, Shape, TableIsThere, RowIsHeld, Updating
<1> QED
  BY <1>1, <1>2, <1>3, <1>4, <1>5, <1>6, <1>7, <1>8, <1>9, <1>10, <1>11, <1>12, <1>13 DEF TaskStep

(* Zipping, and a process that writes meanwhile, touch neither the row nor  *)
(* what a task has read of it.                                              *)
LEMMA ZippingKeeps ==
  ASSUME IInv, NEW t \in Tasks, Zipping(t)
  PROVE  IInv'
<1> USE DEF PastSetUp, Goes
<1>1. ASSUME NEW f \in WorkspaceFiles, ZipFile(t, f)
      PROVE  IInv'
  <2>1. PICK copy :
          task' = [task EXCEPT ![t].left = @ \ {f}, ![t].zip.blob[f] = copy]
    BY <1>1 DEF ZipFile
  <2>2. /\ \A u \in Tasks : /\ task'[u].state = task[u].state /\ task'[u].session = task[u].session
                            /\ task'[u] = [x \in DOMAIN task'[u] |-> task'[u][x]]
                            /\ DOMAIN task'[u] = DOMAIN task[u]
        /\ task' = [u \in Tasks |-> task'[u]]
    BY <2>1 DEF IInv, Shape
  <2>3. UNCHANGED <<kv, manager, wanted, raced, missed>>
    BY <1>1 DEF ZipFile
  <2> QED  BY <2>2, <2>3 DEF IInv, Shape, TableIsThere, RowIsHeld, Updating
<1>2. CASE ZipEnds(t)
  BY <1>2 DEF ZipEnds, IInv, Shape, TableIsThere, RowIsHeld, Updating
<1>3. CASE ZipFails(t)
  BY <1>3 DEF ZipFails, IInv, Shape, TableIsThere, RowIsHeld, Updating
<1> QED  BY <1>1, <1>2, <1>3 DEF Zipping

LEMMA ProcessesKeep ==
  ASSUME IInv, NEW f \in WorkspaceFiles, ProcessWrites(f)
  PROVE  IInv'
<1>1. task' = [t \in Tasks |-> IF task[t].state = "zipping"
                              THEN [task[t] EXCEPT !.zip.touched = @ \cup {f}] ELSE task[t]]
  BY DEF ProcessWrites
<1>2. /\ \A t \in Tasks : /\ task'[t].state = task[t].state /\ task'[t].session = task[t].session
                          /\ task'[t] = [x \in DOMAIN task'[t] |-> task'[t][x]]
                          /\ DOMAIN task'[t] = DOMAIN task[t]
      /\ task' = [t \in Tasks |-> task'[t]]
  BY <1>1 DEF IInv, Shape
<1>3. UNCHANGED <<kv, manager, wanted, raced, missed>>
  BY DEF ProcessWrites
<1> QED  BY <1>2, <1>3 DEF IInv, Shape, TableIsThere, RowIsHeld, Updating

(* A crash forgets what the tasks have read, and the manager; the table and *)
(* its rows stay.                                                           *)
LEMMA CrashesKeep ==
  ASSUME IInv, Restarts
  PROVE  IInv'
BY DEF Restarts, IInv, Shape, TableIsThere, RowIsHeld, Updating, PastSetUp, Fresh

LEMMA StepsKeep ==
  ASSUME IInv, [Next]_vars
  PROVE  IInv'
<1>1. CASE UNCHANGED vars
  BY <1>1 DEF vars, kvVars, IInv, Shape, TableIsThere, RowIsHeld, Updating
<1>2. ASSUME NEW t \in Tasks, TaskStep(t)
      PROVE  IInv'
  BY <1>2, TasksKeep
<1>3. ASSUME NEW t \in Tasks, CrashInUnpack(t)
      PROVE  IInv'
  BY <1>3, CrashesKeep DEF CrashInUnpack
<1>4. ASSUME NEW t \in Tasks, Zipping(t)
      PROVE  IInv'
  BY <1>4, ZippingKeeps
<1>5. ASSUME NEW f \in WorkspaceFiles, ProcessWrites(f)
      PROVE  IInv'
  BY <1>5, ProcessesKeep
<1>6. CASE ToolWrites \/ StartsProcess
  BY <1>6 DEF ToolWrites, StartsProcess, IInv, Shape, TableIsThere, RowIsHeld, Updating
<1>7. CASE StoresFiles
  BY <1>7 DEF StoresFiles, kvVars, IInv, Shape, TableIsThere, RowIsHeld, Updating
<1>8. CASE Crash \/ FileStepBreaksOff
  <2>1. CASE Restarts
    BY <2>1, CrashesKeep
  <2>2. CASE UNCHANGED <<kv, manager, task, crashes, wanted, raced, processes, zips, missed>>
    BY <2>2 DEF IInv, Shape, TableIsThere, RowIsHeld, Updating
  <2> QED  BY <1>8, <2>1, <2>2 DEF Crash, FileStepBreaksOff
<1> QED  BY <1>1, <1>2, <1>3, <1>4, <1>5, <1>6, <1>7, <1>8 DEF Next

LEMMA Invariance == Spec => []IInv
BY InitHolds, StepsKeep, PTL DEF Spec

(* No statement reaches a table that is not there, however the first runs   *)
(* of any number of tasks overlap (Hanflow._ensure_components).             *)
THEOREM NoStatementIsMissed == Spec => []StoresAreSetUp
<1>1. IInv => StoresAreSetUp
  BY DEF IInv, TableIsThere, StoresAreSetUp
<1> QED  BY <1>1, Invariance, PTL

(* As long as no two writers overlap, update_session loses no field and     *)
(* brings none back, through any number of crashes.                         *)
THEOREM UpdatesLast == Spec => []LoneUpdatesAreKept
<1>1. IInv => LoneUpdatesAreKept
  BY DEF IInv, RowIsHeld, LoneUpdatesAreKept
<1> QED  BY <1>1, Invariance, PTL


-------------------------------------------------------------------------------
(***************************************************************************)
(* The files.  An artifact that was acknowledged and not touched since has  *)
(* its content and its manifest from one write; one that was deleted has no *)
(* file at all; a memory value or a workflow is one file.                   *)
(***************************************************************************)
Contents == {Absent, Torn, Garbled} \cup 1 .. MaxOps

Kinds == {"bytes", "text"}

FilesOf(o) ==
  IF o \in Artifacts THEN ArtifactFiles(o)
  ELSE IF o \in Workflows THEN {Yaml(o)} ELSE {MemoryFile(o)}

(* The files that the last write of an object has written.                  *)
Latest(o, kind) == IF o \in Artifacts THEN {Content(o, kind), Manifest(o)} ELSE FilesOf(o)

Intact(o) ==
  IF acked[o] = Nothing THEN \A f \in FilesOf(o) : disk[f] = Absent
  ELSE acked[o].write # Absent /\ \A f \in Latest(o, acked[o].kind) : disk[f] = acked[o].write

FilesInv == FilesTypeOK /\ \A o \in Objects \ damaged : Intact(o)

(* What a step leaves alone when it touches these files only.               *)
KeepsAllBut(d, files) ==
  d \in [Files -> Contents] /\ \A f \in Files \ files : d[f] = disk[f]

(* Every object has files of its own, and none of them is in the workspace. *)
LEMMA FilesDiffer ==
  /\ \A o \in Objects : FilesOf(o) \subseteq Files /\ FilesOf(o) \cap WorkspaceFiles = {}
  /\ \A o, p \in Objects : o # p => FilesOf(o) \cap FilesOf(p) = {}
  /\ \A o \in Objects, kind \in Kinds : Latest(o, kind) \subseteq FilesOf(o)
  /\ WorkspaceFiles \subseteq Files
<1>0. /\ {Yaml(w) : w \in Workflows} \subseteq Files
      /\ {MemoryFile(m) : m \in Memories} \subseteq Files
      /\ WorkspaceFiles \subseteq Files
  BY Zenon DEF Files
<1>1. ASSUME NEW o \in Objects
      PROVE  /\ FilesOf(o) \subseteq Files
             /\ \A f \in FilesOf(o) : \E name : f = <<o, name>>
             /\ \A kind \in Kinds : Latest(o, kind) \subseteq FilesOf(o)
  <2>1. CASE o \in Artifacts
    <3>1. FilesOf(o) = {Bytes(o), Text(o), Manifest(o)}
      BY <2>1 DEF FilesOf, ArtifactFiles
    <3>2. FilesOf(o) \subseteq Files
      BY <2>1, <3>1 DEF Files, ArtifactFiles
    <3>3. \A f \in FilesOf(o) : \E name : f = <<o, name>>
      BY <3>1 DEF Bytes, Text, Manifest
    <3>4. \A kind \in Kinds : Latest(o, kind) \subseteq FilesOf(o)
      BY <2>1, <3>1 DEF Latest, Content, Kinds
    <3> QED  BY <3>2, <3>3, <3>4
  <2>2. CASE o \notin Artifacts /\ o \in Workflows
    <3>1. Yaml(o) \in {Yaml(w) : w \in Workflows}
      BY <2>2
    <3>2. FilesOf(o) \subseteq Files
      BY <2>2, <3>1, <1>0 DEF FilesOf
    <3> QED  BY <2>2, <3>2 DEF FilesOf, Yaml, Latest
  <2>3. CASE o \notin Artifacts /\ o \notin Workflows
    <3>1. o \in Memories
      BY <2>3 DEF Objects
    <3>2. MemoryFile(o) \in {MemoryFile(m) : m \in Memories}
      BY <3>1
    <3>3. FilesOf(o) \subseteq Files
      BY <2>3, <3>2, <1>0 DEF FilesOf
    <3> QED  BY <2>3, <3>3 DEF FilesOf, MemoryFile, Latest
  <2> QED  BY <2>1, <2>2, <2>3
<1>2. \A f \in WorkspaceFiles : \E name : f = <<<<"run", "workspace">>, name>>
  BY DEF WorkspaceFiles
<1>3. <<"run", "workspace">> \notin Objects
  <2>1. <<"run", "workspace">> \notin Memories
    BY DEF Memories, Scopes
  <2> QED  BY <2>1, NamesAssumption DEF Objects
<1>4. \A o, p, x, y : <<o, x>> = <<p, y>> => o = p
  OBVIOUS
<1>5. ASSUME NEW o \in Objects, NEW f \in FilesOf(o), f \in WorkspaceFiles
      PROVE  FALSE
  BY <1>1, <1>2, <1>3, <1>4, <1>5
<1>6. ASSUME NEW o \in Objects, NEW p \in Objects, NEW f \in FilesOf(o), f \in FilesOf(p)
      PROVE  o = p
  BY <1>1, <1>4, <1>6
<1> QED  BY <1>0, <1>1, <1>5, <1>6

LEMMA NewWriteIsANumber ==
  ASSUME FilesTypeOK, CanWrite
  PROVE  NewWrite \in 1 .. MaxOps /\ NewWrite \in Contents /\ NewWrite # Absent
BY OpsAssumption DEF FilesTypeOK, CanWrite, NewWrite, Contents, Absent

LEMMA WritesKeep ==
  ASSUME FilesTypeOK, CanWrite, NEW files
  PROVE  KeepsAllBut(AfterWrites(files), ToSet(files))
BY NewWriteIsANumber DEF AfterWrites, KeepsAllBut, FilesTypeOK, Contents

LEMMA InterruptionsKeep ==
  ASSUME FilesTypeOK, CanWrite, NEW files \in Seq(Files), NEW d \in Interrupted(files)
  PROVE  KeepsAllBut(d, ToSet(files))
<1>1. ASSUME NEW i \in 0 .. Len(files)
      PROVE  ToSet(SubSeq(files, 1, i)) \subseteq ToSet(files)
  <2>1. /\ Len(SubSeq(files, 1, i)) = i
        /\ \A j \in 1 .. i : SubSeq(files, 1, i)[j] = files[j]
    BY <1>1
  <2> QED  BY <2>1, <1>1 DEF ToSet
<1>2. ASSUME NEW i \in 0 .. Len(files)
      PROVE  KeepsAllBut(AfterWrites(SubSeq(files, 1, i)), ToSet(files))
  BY <1>1, <1>2, WritesKeep DEF KeepsAllBut
<1>3. ASSUME NEW i \in 0 .. Len(files) - 1, NEW half \in Remains(files[i + 1])
      PROVE  KeepsAllBut([AfterWrites(SubSeq(files, 1, i)) EXCEPT ![files[i + 1]] = half], ToSet(files))
  <2>1. files[i + 1] \in ToSet(files) /\ files[i + 1] \in Files
    BY <1>3 DEF ToSet
  <2>2. KeepsAllBut(AfterWrites(SubSeq(files, 1, i)), ToSet(files))
    BY <1>2, <1>3
  <2>3. half \in Contents
    BY <1>3 DEF Remains, Contents
  <2> QED  BY <2>1, <2>2, <2>3 DEF KeepsAllBut
<1>4. \/ \E i \in 0 .. Len(files) : d = AfterWrites(SubSeq(files, 1, i))
      \/ \E i \in 0 .. Len(files) - 1 : \E half \in Remains(files[i + 1]) :
           d = [AfterWrites(SubSeq(files, 1, i)) EXCEPT ![files[i + 1]] = half]
  BY Zenon DEF Interrupted
<1> QED  BY <1>2, <1>3, <1>4

(* An object none of whose files is touched stays intact.                   *)
LEMMA IntactStays ==
  ASSUME NEW o \in Objects, FilesInv, Intact(o), acked'[o] = acked[o],
         \A f \in FilesOf(o) : disk'[f] = disk[f]
  PROVE  Intact(o)'
<1>1. acked[o].kind \in Kinds
  BY DEF FilesInv, FilesTypeOK, Kinds
<1>2. Latest(o, acked[o].kind) \subseteq FilesOf(o)
  BY <1>1, FilesDiffer
<1>3. CASE acked[o] = Nothing
  BY <1>3 DEF Intact
<1>4. CASE acked[o] # Nothing
  BY <1>2, <1>4 DEF Intact
<1> QED  BY <1>3, <1>4

LEMMA OthersStay ==
  ASSUME FilesInv, NEW o \in Objects, KeepsAllBut(disk', FilesOf(o)),
         \A p \in Objects \ {o} : acked'[p] = acked[p], damaged \subseteq damaged' \cup {o},
         NEW p \in Objects \ damaged', p # o
  PROVE  Intact(p)'
<1>1. p \in Objects /\ p \notin damaged /\ acked'[p] = acked[p]
  OBVIOUS
<1>2. \A f \in FilesOf(p) : disk'[f] = disk[f]
  BY FilesDiffer DEF KeepsAllBut
<1> QED  BY <1>1, <1>2, IntactStays DEF FilesInv

(* An operation that returns: its object is as it was asked to be.          *)
LEMMA CompletionsKeep ==
  ASSUME FilesInv, NEW o \in Objects, NEW files, NEW kind \in Kinds, Completes(o, files, kind),
         ToSet(files) = Latest(o, kind)
  PROVE  FilesInv' /\ KeepsAllBut(disk', FilesOf(o))
<1>1. KeepsAllBut(disk', ToSet(files)) /\ \A f \in Files \cap ToSet(files) : disk'[f] = NewWrite
  BY WritesKeep DEF Completes, FilesInv, AfterWrites
<1>2. NewWrite \in 1 .. MaxOps /\ NewWrite # Absent /\ ops' = NewWrite
  BY NewWriteIsANumber DEF Completes, FilesInv
<1>3. ToSet(files) \subseteq FilesOf(o) /\ FilesOf(o) \subseteq Files
  BY FilesDiffer
<1>4. KeepsAllBut(disk', FilesOf(o))
  BY <1>1, <1>3 DEF KeepsAllBut
<1>5. /\ acked' = [acked EXCEPT ![o] = [write |-> NewWrite, kind |-> kind]]
      /\ damaged' = damaged \ {o}
  BY DEF Completes
<1>6. FilesTypeOK'
  <2>1. [write |-> NewWrite, kind |-> kind] \in [write : 0 .. MaxOps, kind : {"bytes", "text"}]
    BY <1>2 DEF Kinds
  <2> QED  BY <1>2, <1>4, <1>5, <2>1 DEF FilesInv, FilesTypeOK, KeepsAllBut, Contents
<1>7. /\ acked'[o] = [write |-> NewWrite, kind |-> kind]
      /\ \A p \in Objects \ {o} : acked'[p] = acked[p]
  BY <1>5 DEF FilesInv, FilesTypeOK
<1>8. Intact(o)'
  <2>1. acked'[o].write = NewWrite /\ acked'[o].kind = kind /\ acked'[o] # Nothing
    BY <1>2, <1>7 DEF Nothing
  <2>2. \A f \in Latest(o, kind) : disk'[f] = NewWrite
    BY <1>1, <1>3
  <2> QED  BY <1>2, <2>1, <2>2 DEF Intact
<1>9. ASSUME NEW p \in Objects \ damaged', p # o
      PROVE  Intact(p)'
  BY <1>4, <1>5, <1>7, <1>9, OthersStay
<1> QED  BY <1>4, <1>6, <1>8, <1>9 DEF FilesInv

(* A deletion that returns.                                                 *)
LEMMA RemovalsKeep ==
  ASSUME FilesInv, NEW o \in Objects, Removes(o, FilesOf(o))
  PROVE  FilesInv' /\ KeepsAllBut(disk', FilesOf(o))
<1>1. KeepsAllBut(disk', FilesOf(o)) /\ \A f \in Files \cap FilesOf(o) : disk'[f] = Absent
  BY DEF Removes, Removed, FilesInv, FilesTypeOK, KeepsAllBut, Contents
<1>2. NewWrite \in 1 .. MaxOps /\ ops' = NewWrite
  BY NewWriteIsANumber DEF Removes, FilesInv
<1>3. acked' = [acked EXCEPT ![o] = Nothing] /\ damaged' = damaged \ {o}
  BY DEF Removes
<1>4. Nothing \in [write : 0 .. MaxOps, kind : {"bytes", "text"}]
  BY OpsAssumption DEF Nothing, Absent
<1>5. FilesTypeOK'
  BY <1>1, <1>2, <1>3, <1>4 DEF FilesInv, FilesTypeOK, KeepsAllBut, Contents
<1>6. acked'[o] = Nothing /\ \A p \in Objects \ {o} : acked'[p] = acked[p]
  BY <1>3 DEF FilesInv, FilesTypeOK
<1>7. Intact(o)'
  <2>1. \A f \in FilesOf(o) : disk'[f] = Absent
    BY <1>1, FilesDiffer
  <2> QED  BY <1>6, <2>1 DEF Intact
<1>8. ASSUME NEW p \in Objects \ damaged', p # o
      PROVE  Intact(p)'
  BY <1>1, <1>3, <1>6, <1>8, OthersStay
<1> QED  BY <1>1, <1>5, <1>7, <1>8 DEF FilesInv

(* One that does not return, or raises: whatever it leaves of its object,   *)
(* the others are as they were.                                             *)
LEMMA BreaksKeep ==
  ASSUME FilesInv, NEW o \in Objects, NEW disks, Breaks(o, disks),
         \A d \in disks : KeepsAllBut(d, FilesOf(o))
  PROVE  FilesInv' /\ KeepsAllBut(disk', FilesOf(o))
<1>1. KeepsAllBut(disk', FilesOf(o)) /\ UNCHANGED acked /\ damaged' = damaged \cup {o}
  BY DEF Breaks
<1>2. NewWrite \in 1 .. MaxOps /\ ops' = NewWrite
  BY NewWriteIsANumber DEF Breaks, FilesInv
<1>3. FilesTypeOK'
  BY <1>1, <1>2 DEF FilesInv, FilesTypeOK, KeepsAllBut, Contents
<1>4. ASSUME NEW p \in Objects \ damaged'
      PROVE  Intact(p)'
  <2>1. p # o
    BY <1>1, <1>4
  <2> QED  BY <1>1, <1>4, <2>1, OthersStay
<1> QED  BY <1>1, <1>3, <1>4 DEF FilesInv

(* Anything that touches no file of an object.                              *)
LEMMA OthersKeep ==
  ASSUME FilesInv, KeepsAllBut(disk', WorkspaceFiles), ops' \in 0 .. MaxOps, UNCHANGED <<acked, damaged>>
  PROVE  FilesInv'
<1>1. FilesTypeOK'
  BY DEF FilesInv, FilesTypeOK, KeepsAllBut, Contents
<1>2. ASSUME NEW o \in Objects \ damaged'
      PROVE  Intact(o)'
  <2>1. o \in Objects /\ Intact(o) /\ acked'[o] = acked[o]
    BY <1>2 DEF FilesInv
  <2>2. \A f \in FilesOf(o) : disk'[f] = disk[f]
    BY <2>1, FilesDiffer DEF KeepsAllBut
  <2> QED  BY <2>1, <2>2, IntactStays
<1> QED  BY <1>1, <1>2 DEF FilesInv

LEMMA WorkspaceStays ==
  ASSUME NEW o \in Objects, KeepsAllBut(disk', FilesOf(o))
  PROVE  \A f \in WorkspaceFiles : disk'[f] = disk[f]
BY FilesDiffer DEF KeepsAllBut

LEMMA WritesOfFiles ==
  /\ \A a \in Artifacts, kind \in Kinds :
       ToSet(ArtifactWrites(a, kind)) = Latest(a, kind) /\ ArtifactWrites(a, kind) \in Seq(Files)
  /\ \A f \in Files : ToSet(<<f>>) = {f} /\ <<f>> \in Seq(Files)
<1>1. ASSUME NEW a \in Artifacts, NEW kind \in Kinds
      PROVE  ToSet(ArtifactWrites(a, kind)) = Latest(a, kind) /\ ArtifactWrites(a, kind) \in Seq(Files)
  <2>1. Latest(a, kind) = {Content(a, kind), Manifest(a)}
    BY DEF Latest
  <2>2. Content(a, kind) \in Files /\ Manifest(a) \in Files
    BY <2>1, FilesDiffer DEF Objects
  <2> QED  BY <2>1, <2>2 DEF ArtifactWrites, ToSet
<1>2. \A f \in Files : ToSet(<<f>>) = {f} /\ <<f>> \in Seq(Files)
  BY DEF ToSet
<1> QED  BY <1>1, <1>2

LEMMA SingleFiles ==
  /\ \A w \in Workflows : w \in Objects /\ FilesOf(w) = {Yaml(w)} /\ Latest(w, "text") = {Yaml(w)}
  /\ \A m \in Memories : m \in Objects /\ FilesOf(m) = {MemoryFile(m)} /\ Latest(m, "text") = {MemoryFile(m)}
  /\ \A w \in Workflows : Yaml(w) \in Files
  /\ \A m \in Memories : MemoryFile(m) \in Files
<1>1. \A w \in Workflows : w \in Objects /\ w \notin Artifacts
  BY NamesAssumption DEF Objects
<1>2. \A m \in Memories : m \in Objects /\ m \notin Artifacts /\ m \notin Workflows
  BY NamesAssumption DEF Objects, Memories
<1>3. /\ \A w \in Workflows : FilesOf(w) = {Yaml(w)}
      /\ \A m \in Memories : FilesOf(m) = {MemoryFile(m)}
  BY <1>1, <1>2 DEF FilesOf
<1> QED  BY <1>1, <1>2, <1>3, FilesDiffer DEF Latest

LEMMA FileStepsKeep ==
  ASSUME FilesInv, FileStep
  PROVE  FilesInv' /\ \A f \in WorkspaceFiles : disk'[f] = disk[f]
<1>1. ASSUME NEW a \in Artifacts, NEW kind \in Kinds, PutArtifact(a, kind)
      PROVE  FilesInv' /\ KeepsAllBut(disk', FilesOf(a))
  <2>1. a \in Objects
    BY DEF Objects
  <2> QED  BY <1>1, <2>1, WritesOfFiles, CompletionsKeep DEF PutArtifact
<1>2. ASSUME NEW a \in Artifacts, PutRaises(a)
      PROVE  FilesInv' /\ KeepsAllBut(disk', FilesOf(a))
  <2>1. a \in Objects /\ Bytes(a) \in FilesOf(a) /\ FilesOf(a) \subseteq Files
    BY FilesDiffer DEF Objects, FilesOf, ArtifactFiles
  <2>2. KeepsAllBut(AfterWrites(<<Bytes(a)>>), {Bytes(a)})
    BY <1>2, <2>1, WritesOfFiles, WritesKeep DEF PutRaises, Breaks, FilesInv
  <2>3. KeepsAllBut(AfterWrites(<<Bytes(a)>>), FilesOf(a))
    BY <2>1, <2>2 DEF KeepsAllBut
  <2> QED  BY <1>2, <2>1, <2>3, BreaksKeep DEF PutRaises
<1>3. ASSUME NEW a \in Artifacts, DeleteArtifact(a)
      PROVE  FilesInv' /\ KeepsAllBut(disk', FilesOf(a))
  <2>1. a \in Objects /\ FilesOf(a) = ArtifactFiles(a)
    BY DEF Objects, FilesOf
  <2> QED  BY <1>3, <2>1, RemovalsKeep DEF DeleteArtifact
<1>4. ASSUME NEW m \in Memories,
             Completes(m, <<MemoryFile(m)>>, "text") \/ Removes(m, {MemoryFile(m)})
      PROVE  FilesInv' /\ m \in Objects /\ KeepsAllBut(disk', FilesOf(m))
  <2>1. m \in Objects /\ FilesOf(m) = {MemoryFile(m)} /\ Latest(m, "text") = {MemoryFile(m)}
        /\ ToSet(<<MemoryFile(m)>>) = {MemoryFile(m)}
    BY SingleFiles, WritesOfFiles
  <2>2. CASE Completes(m, <<MemoryFile(m)>>, "text")
    BY <2>1, <2>2, CompletionsKeep DEF Kinds
  <2>3. CASE Removes(m, {MemoryFile(m)})
    BY <2>1, <2>3, RemovalsKeep
  <2> QED  BY <1>4, <2>1, <2>2, <2>3
<1>5. ASSUME NEW w \in Workflows, CreateWorkflow(w) \/ UpdateWorkflow(w) \/ DeleteWorkflow(w)
      PROVE  FilesInv' /\ KeepsAllBut(disk', FilesOf(w))
  <2>1. w \in Objects /\ FilesOf(w) = {Yaml(w)} /\ Latest(w, "text") = {Yaml(w)}
        /\ ToSet(<<Yaml(w)>>) = {Yaml(w)}
    BY SingleFiles, WritesOfFiles
  <2>2. CASE Completes(w, <<Yaml(w)>>, "text")
    BY <2>1, <2>2, CompletionsKeep DEF Kinds
  <2>3. CASE Removes(w, {Yaml(w)})
    BY <2>1, <2>3, RemovalsKeep
  <2> QED
    BY <1>5, <2>2, <2>3 DEF CreateWorkflow, UpdateWorkflow, PutWorkflow, DeleteWorkflow, RemoveWorkflow
<1>6. Artifacts \subseteq Objects /\ Workflows \subseteq Objects
  BY DEF Objects
<1>7. CASE \E s \in Scopes, key \in Keys : MemoryOp(s, key)
  BY <1>4, <1>7, WorkspaceStays DEF MemoryOp, WriteMemory, DeleteMemory, Memories
<1> QED
  BY <1>1, <1>2, <1>3, <1>5, <1>6, <1>7, WorkspaceStays DEF FileStep, Kinds

LEMMA BreakingOffKeeps ==
  ASSUME FilesInv, BreaksOff
  PROVE  FilesInv' /\ \A f \in WorkspaceFiles : disk'[f] = disk[f]
<1>1. CanWrite /\ FilesTypeOK
  BY DEF BreaksOff, Breaks, FilesInv
<1>2. ASSUME NEW o \in Objects, NEW files \in SUBSET FilesOf(o)
      PROVE  KeepsAllBut(Removed(files), FilesOf(o))
  BY <1>1 DEF Removed, KeepsAllBut, FilesTypeOK, Contents
<1>3. ASSUME NEW o \in Objects, NEW files \in Seq(Files), ToSet(files) \subseteq FilesOf(o),
             NEW d \in Interrupted(files)
      PROVE  KeepsAllBut(d, FilesOf(o))
  BY <1>1, <1>3, InterruptionsKeep DEF KeepsAllBut
<1>4. ASSUME NEW a \in Artifacts, NEW kind \in Kinds, Breaks(a, Interrupted(ArtifactWrites(a, kind)))
      PROVE  FilesInv' /\ KeepsAllBut(disk', FilesOf(a))
  <2>1. a \in Objects /\ ArtifactWrites(a, kind) \in Seq(Files)
        /\ ToSet(ArtifactWrites(a, kind)) \subseteq FilesOf(a)
    BY WritesOfFiles, FilesDiffer DEF Objects
  <2> QED  BY <1>3, <1>4, <2>1, BreaksKeep
<1>5. ASSUME NEW a \in Artifacts, Breaks(a, {Removed(files) : files \in SUBSET ArtifactFiles(a)})
      PROVE  FilesInv' /\ KeepsAllBut(disk', FilesOf(a))
  <2>1. a \in Objects /\ FilesOf(a) = ArtifactFiles(a)
    BY DEF Objects, FilesOf
  <2> QED  BY <1>2, <1>5, <2>1, BreaksKeep
<1>6. ASSUME NEW o \in Objects, NEW f \in Files, FilesOf(o) = {f},
             Breaks(o, Interrupted(<<f>>) \cup {Removed({f})})
      PROVE  FilesInv' /\ KeepsAllBut(disk', FilesOf(o))
  <2>1. <<f>> \in Seq(Files) /\ ToSet(<<f>>) = {f}
    BY WritesOfFiles
  <2>2. \A d \in Interrupted(<<f>>) : KeepsAllBut(d, FilesOf(o))
    BY <1>3, <1>6, <2>1
  <2>3. KeepsAllBut(Removed({f}), FilesOf(o))
    BY <1>2, <1>6
  <2> QED  BY <1>6, <2>2, <2>3, BreaksKeep
<1>7. Artifacts \subseteq Objects
  BY DEF Objects
<1>8. CASE \E a \in Artifacts :
             \/ \E kind \in {"bytes", "text"} : Breaks(a, Interrupted(ArtifactWrites(a, kind)))
             \/ Breaks(a, {Removed(files) : files \in SUBSET ArtifactFiles(a)})
  BY <1>4, <1>5, <1>7, <1>8, WorkspaceStays DEF Kinds
<1>9. CASE \E m \in Memories : Breaks(m, Interrupted(<<MemoryFile(m)>>) \cup {Removed({MemoryFile(m)})})
  BY <1>6, <1>9, SingleFiles, WorkspaceStays
<1>10. CASE \E w \in Workflows : Breaks(w, Interrupted(<<Yaml(w)>>) \cup {Removed({Yaml(w)})})
  BY <1>6, <1>10, SingleFiles, WorkspaceStays
<1> QED  BY <1>8, <1>9, <1>10 DEF BreaksOff

(* What the invariant says about a file is what a reader of it sees.        *)
LEMMA IntactIsReadable == FilesInv => AcknowledgedDataLasts
<1> SUFFICES ASSUME FilesInv, NEW o \in Objects \ damaged
             PROVE  /\ ~StaleBytes(o) => Read(o) = Expected(o)
                    /\ IF ListRaises(o) THEN Siblings(o) \cap damaged # {}
                       ELSE IsListed(o) <=> acked[o] # Nothing
  BY DEF AcknowledgedDataLasts
<1>1. \A p \in Objects : /\ acked[p] \in [write : 0 .. MaxOps, kind : Kinds]
                         /\ acked[p].write \notin {Torn, Garbled}
  BY OpsAssumption DEF FilesInv, FilesTypeOK, Kinds, Torn, Garbled
<1>2. \A p \in Objects \ damaged : Intact(p)
  BY DEF FilesInv
<1>3. ASSUME NEW p \in Objects \ damaged, NEW f \in Latest(p, acked[p].kind)
      PROVE  /\ disk[f] \notin {Torn, Garbled}
             /\ acked[p] = Nothing => disk[f] = Absent
             /\ acked[p] # Nothing => disk[f] = acked[p].write /\ disk[f] # Absent
  <2>1. f \in FilesOf(p)
    BY <1>1, <1>3, FilesDiffer
  <2> QED  BY <1>1, <1>2, <2>1 DEF Intact, Absent, Torn, Garbled
<1>4. CASE o \in Artifacts
  <2> DEFINE a == acked[o]
  <2>1. Read(o) = GetArtifact(o) /\ List(o) = ListArtifacts /\ o \notin Memories /\ Siblings(o) = Artifacts
    BY <1>4, NamesAssumption DEF Read, List, Siblings, Memories
  <2>2. FilesOf(o) = ArtifactFiles(o)
        /\ \A b \in Artifacts : b \in Objects /\ Manifest(b) \in Latest(b, acked[b].kind)
    BY <1>4 DEF FilesOf, Latest, Objects
  <2>3. ASSUME NEW b \in Artifacts, disk[Manifest(b)] = Torn
        PROVE  Siblings(o) \cap damaged # {}
    BY <1>3, <2>1, <2>2, <2>3
  <2>4. ASSUME \E b \in Artifacts : disk[Manifest(b)] = Torn
        PROVE  ListRaises(o) /\ Siblings(o) \cap damaged # {}
    <3>1. ListArtifacts = Raised
      BY <2>4, Zenon DEF ListArtifacts
    <3>2. ListRaises(o)
      BY <2>1, <3>1 DEF ListRaises
    <3> QED  BY <2>3, <2>4, <3>2
  <2>5. ASSUME ~ \E b \in Artifacts : disk[Manifest(b)] = Torn
        PROVE  ~ListRaises(o) /\ (IsListed(o) <=> acked[o] # Nothing)
    <3> DEFINE there == {b \in Artifacts : disk[Manifest(b)] # Absent}
               items == [b \in there |-> disk[Manifest(b)]]
    <3>1. List(o) = [found |-> "list", items |-> items]
      BY <2>1, <2>5 DEF ListArtifacts
    <3>2. ~ListRaises(o)
      <4>1. List(o).found = "list" /\ Raised.found = "error"
        BY <3>1 DEF Raised
      <4> QED  BY <4>1 DEF ListRaises
    <3>3. IsListed(o) <=> o \in there /\ items[o] = a.write
      BY <2>1, <3>1 DEF IsListed
    <3>4. IsListed(o) <=> disk[Manifest(o)] # Absent /\ disk[Manifest(o)] = a.write
      BY <1>4, <3>3
    <3> QED  BY <1>3, <1>4, <2>2, <3>2, <3>4
  <2>6. ASSUME ~StaleBytes(o)
        PROVE  Read(o) = Expected(o)
    <3>1. CASE a = Nothing
      <4>1. \A f \in ArtifactFiles(o) : disk[f] = Absent
        BY <1>2, <2>2, <3>1 DEF Intact
      <4> QED  BY <2>1, <3>1, <4>1 DEF GetArtifact, DirExists, Expected
    <3>2. CASE a # Nothing
      <4>1. /\ disk[Manifest(o)] = a.write /\ disk[Content(o, a.kind)] = a.write
            /\ a.write \notin {Absent, Torn, Garbled}
        BY <1>3, <1>4, <3>2 DEF Latest
      <4>2. DirExists(o)
        BY <4>1 DEF DirExists, ArtifactFiles
      <4>3. CASE a.kind = "bytes"
        BY <1>4, <2>1, <3>2, <4>1, <4>2, <4>3 DEF GetArtifact, Expected, Content
      <4>4. CASE a.kind = "text"
        <5>1. disk[Bytes(o)] = Absent
          BY <1>4, <2>6, <4>4 DEF StaleBytes
        <5> QED  BY <1>4, <2>1, <3>2, <4>1, <4>2, <4>4, <5>1 DEF GetArtifact, Expected, Content
      <4> QED  BY <1>1, <4>3, <4>4 DEF Kinds
    <3> QED  BY <3>1, <3>2
  <2> QED  BY <2>4, <2>5, <2>6
<1>5. CASE o \in Workflows
  <2>1. /\ Read(o) = GetWorkflow(o) /\ List(o) = ListWorkflows /\ Siblings(o) = Workflows
        /\ o \notin Memories /\ o \notin Artifacts
    BY <1>5, NamesAssumption DEF Read, List, Siblings, Memories
  <2>2. \A w \in Workflows : w \in Objects /\ Yaml(w) \in Latest(w, acked[w].kind)
    BY NamesAssumption DEF FilesOf, Latest, Objects
  <2>3. ASSUME NEW w \in Workflows, disk[Yaml(w)] = Garbled
        PROVE  Siblings(o) \cap damaged # {}
    BY <1>3, <2>1, <2>2, <2>3
  <2>4. ASSUME \E w \in Workflows : disk[Yaml(w)] = Garbled
        PROVE  ListRaises(o) /\ Siblings(o) \cap damaged # {}
    <3>1. ListWorkflows = Raised
      BY <2>4, Zenon DEF ListWorkflows
    <3>2. ListRaises(o)
      BY <2>1, <3>1 DEF ListRaises
    <3> QED  BY <2>3, <2>4, <3>2
  <2>5. ASSUME ~ \E w \in Workflows : disk[Yaml(w)] = Garbled
        PROVE  ~ListRaises(o) /\ (IsListed(o) <=> acked[o] # Nothing)
    <3> DEFINE there == {w \in Workflows : disk[Yaml(w)] # Absent}
               items == [w \in there |-> disk[Yaml(w)]]
    <3>1. List(o) = [found |-> "list", items |-> items]
      BY <2>1, <2>5 DEF ListWorkflows
    <3>2. ~ListRaises(o)
      <4>1. List(o).found = "list" /\ Raised.found = "error"
        BY <3>1 DEF Raised
      <4> QED  BY <4>1 DEF ListRaises
    <3>3. IsListed(o) <=> o \in there /\ items[o] = acked[o].write
      BY <2>1, <3>1 DEF IsListed
    <3>4. IsListed(o) <=> disk[Yaml(o)] # Absent /\ disk[Yaml(o)] = acked[o].write
      BY <1>5, <3>3
    <3> QED  BY <1>3, <1>5, <2>2, <3>2, <3>4
  <2>6. Read(o) = Expected(o)
    BY <1>3, <1>5, <2>1, <2>2 DEF GetWorkflow, Expected
  <2> QED  BY <2>4, <2>5, <2>6
<1>6. CASE o \in Memories
  <2>1. /\ o \notin Artifacts /\ o \notin Workflows
        /\ o = <<o[1], o[2]>> /\ HasBackend(o[1]) /\ o[2] \in Keys
    BY <1>6, NamesAssumption DEF Memories
  <2>2. MemoryFile(o) \in Latest(o, acked[o].kind)
    BY <2>1 DEF Latest, FilesOf
  <2>3. Read(o) = ReadFile(MemoryFile(o))
    BY <1>6, <2>1 DEF Read, ReadMemory
  <2>4. Read(o) = Expected(o)
    BY <1>3, <2>1, <2>2, <2>3 DEF ReadFile, Expected
  <2>5. IsListed(o) <=> disk[MemoryFile(o)] # Absent
    BY <1>6, <2>1 DEF IsListed, ListKeys
  <2> QED  BY <1>3, <1>6, <2>2, <2>4, <2>5 DEF ListRaises
<1> QED  BY <1>4, <1>5, <1>6 DEF Objects

-------------------------------------------------------------------------------
(***************************************************************************)
(* The whole of it: rows and tasks are typed; what the table holds as a     *)
(* snapshot, and what a task is about to store or to unpack, is one zip;    *)
(* and a zip, finished or not, has every file that no process has changed   *)
(* since it began as that file was then.                                    *)
(***************************************************************************)
Blobs == [WorkspaceFiles -> {Torn} \cup 0 .. MaxOps]
Rows == [Fields -> 0 .. MaxOps]

Zips == [blob : Blobs, begun : Blobs, touched : SUBSET WorkspaceFiles]

TaskRecords ==
  [state : {"new", "setup", "ready", "updating", "zipping", "zipped", "restoring"},
   session : Rows, zip : Zips, left : SUBSET WorkspaceFiles]

Typed ==
  /\ kv \in [table : BOOLEAN, session : Rows, paused : 0 .. MaxOps, snapshot : Blobs, taken : BOOLEAN]
  /\ task \in [Tasks -> TaskRecords]
  /\ manager \in BOOLEAN /\ raced \in BOOLEAN /\ restored \in BOOLEAN /\ missed \in BOOLEAN
  /\ processes \in BOOLEAN
  /\ crashes \in 0 .. MaxCrashes
  /\ wanted \in Rows

LEMMA FreshIsTyped ==
  /\ [t \in Tasks |-> Fresh] \in [Tasks -> TaskRecords]
  /\ Fresh.state = "new" /\ NoRow \in Blobs /\ NoSession \in Rows /\ NoZip \in Zips
<1>1. NoRow \in Blobs /\ NoSession \in Rows
  BY OpsAssumption DEF NoRow, NoSession, Blobs, Rows, Absent
<1>2. NoZip \in Zips
  BY <1>1 DEF NoZip, Zips
<1>3. Fresh \in TaskRecords
  BY <1>1, <1>2 DEF Fresh, TaskRecords
<1> QED  BY <1>1, <1>2, <1>3 DEF Fresh

IsBack(blob, d) == \A f \in WorkspaceFiles : blob[f] # Absent => d[f] = blob[f]

IsHonest(zip) == \A f \in WorkspaceFiles \ zip.touched : zip.blob[f] = zip.begun[f]

(* Of a zip that is not finished.                                           *)
IsHonestSoFar(zip, left) ==
  \A f \in WorkspaceFiles \ zip.touched :
    zip.begun[f] = disk[f] /\ (f \notin left => zip.blob[f] = disk[f])

WorkspaceIsTyped == \A f \in WorkspaceFiles : disk[f] \in {Torn} \cup 0 .. MaxOps

Zipped(blob) == \E zip \in zips : zip.blob = blob

RowsAreZips ==
  /\ \A zip \in zips : IsHonest(zip)
  /\ kv.taken => Zipped(kv.snapshot)
  /\ \A t \in Tasks :
       /\ task[t].state = "zipping" => IsHonestSoFar(task[t].zip, task[t].left)
       /\ task[t].state \in {"zipped", "restoring"} => Zipped(task[t].zip.blob)
  /\ restored => \E zip \in zips : IsBack(zip.blob, disk)

StoresInv == FilesInv /\ WorkspaceIsTyped /\ Typed /\ RowsAreZips

LEMMA StoresInit == Init => StoresInv
<1> SUFFICES ASSUME Init PROVE StoresInv
  OBVIOUS
<1>1. Absent \in 0 .. MaxOps /\ NoSession \in Rows /\ NoRow \in Blobs
  BY OpsAssumption DEF Absent, NoSession, NoRow, Rows, Blobs
<1>2. FilesTypeOK
  BY OpsAssumption, <1>1 DEF Init, FilesInit, FilesTypeOK, Nothing, Absent
<1>3. \A o \in Objects : Intact(o)
  <2>1. /\ \A o \in Objects : acked[o] = Nothing
        /\ \A f \in Files : disk[f] = Absent
    BY DEF Init, FilesInit
  <2> QED  BY <2>1, FilesDiffer DEF Intact
<1>4. Typed
  <2>1. /\ kv = [table |-> FALSE, session |-> NoSession, paused |-> Absent,
                 snapshot |-> NoRow, taken |-> FALSE]
        /\ task = [t \in Tasks |-> Fresh] /\ crashes = 0 /\ wanted = NoSession
        /\ manager = FALSE /\ raced = FALSE /\ restored = FALSE /\ missed = FALSE
        /\ processes = FALSE
    BY DEF Init
  <2>2. kv \in [table : BOOLEAN, session : Rows, paused : 0 .. MaxOps, snapshot : Blobs, taken : BOOLEAN]
    BY <1>1, <2>1
  <2>3. task \in [Tasks -> TaskRecords]
    BY FreshIsTyped, <2>1
  <2>4. crashes \in 0 .. MaxCrashes
    BY CrashesAssumption, <2>1
  <2> QED  BY <1>1, <2>1, <2>2, <2>3, <2>4 DEF Typed
<1>5. RowsAreZips
  BY DEF Init, RowsAreZips, Fresh
<1>6. WorkspaceIsTyped
  BY <1>1, FilesDiffer DEF Init, FilesInit, WorkspaceIsTyped
<1> QED  BY <1>2, <1>3, <1>4, <1>5, <1>6 DEF StoresInv, FilesInv

(* A write of a row touches no file; it only takes a number.                *)
LEMMA CountingKeeps ==
  ASSUME FilesInv, CountsWrite
  PROVE  FilesInv' /\ disk' = disk /\ NewWrite \in 0 .. MaxOps
<1>1. NewWrite \in 1 .. MaxOps /\ ops' = NewWrite /\ UNCHANGED <<disk, acked, damaged>>
  BY NewWriteIsANumber DEF CountsWrite, FilesInv
<1>2. KeepsAllBut(disk', WorkspaceFiles)
  BY <1>1 DEF KeepsAllBut, FilesInv, FilesTypeOK, Contents
<1> QED  BY <1>1, <1>2, OthersKeep

LEMMA FilesStay ==
  ASSUME FilesInv, UNCHANGED fileVars
  PROVE  FilesInv'
BY DEF fileVars, FilesInv, FilesTypeOK, Intact

(* A task whose step has nothing to do with zips.                           *)
ZipKept(t) ==
  task'[t].state \in {"zipping", "zipped", "restoring"} =>
    task'[t].state = task[t].state /\ task'[t].zip = task[t].zip /\ task'[t].left = task[t].left

LEMMA RowsStay ==
  ASSUME StoresInv, FilesInv', Typed', UNCHANGED <<zips, restored>>,
         \A f \in WorkspaceFiles : disk'[f] = disk[f],
         kv'.taken = kv.taken, kv'.snapshot = kv.snapshot, \A t \in Tasks : ZipKept(t)
  PROVE  StoresInv'
<1>1. WorkspaceIsTyped'
  BY DEF StoresInv, WorkspaceIsTyped
<1>2. RowsAreZips'
  <2>1. /\ \A zip \in zips' : IsHonest(zip)'
        /\ kv'.taken => Zipped(kv.snapshot)'
    BY DEF StoresInv, RowsAreZips, Zipped, IsHonest
  <2>2. ASSUME NEW t \in Tasks
        PROVE  (/\ task[t].state = "zipping" => IsHonestSoFar(task[t].zip, task[t].left)
                /\ task[t].state \in {"zipped", "restoring"} => Zipped(task[t].zip.blob))'
    BY DEF StoresInv, RowsAreZips, Zipped, IsHonestSoFar, ZipKept
  <2>3. (restored => \E zip \in zips : IsBack(zip.blob, disk))'
    BY DEF StoresInv, RowsAreZips, IsBack
  <2> QED  BY <2>1, <2>2, <2>3 DEF RowsAreZips
<1> QED  BY <1>1, <1>2 DEF StoresInv

LEMMA RowStepsKeep ==
  ASSUME StoresInv, NEW t \in Tasks,
         \/ ComponentsMissing(t) \/ SetUp(t) \/ ComponentsThere(t)
         \/ CreateSession(t) \/ ReadSession(t) \/ \E f \in Fields : WriteSession(t, f)
         \/ ListSessions(t) \/ LongTermMemory(t)
         \/ RecordPaused(t) \/ ClearPaused(t) \/ ReadPaused(t)
  PROVE  StoresInv'
<1> USE DEF Goes
<1>1. CASE ComponentsMissing(t)
  <2>1. FilesInv' /\ disk' = disk
    BY <1>1, FilesStay DEF ComponentsMissing, FirstRun, StoresInv, fileVars
  <2>2. Typed'
    BY <1>1, <2>1 DEF ComponentsMissing, FirstRun, StoresInv, Typed, TaskRecords
  <2>3. /\ UNCHANGED <<zips, restored>> /\ kv'.taken = kv.taken /\ kv'.snapshot = kv.snapshot
        /\ \A u \in Tasks : ZipKept(u)
    BY <1>1 DEF ComponentsMissing, FirstRun, ZipKept, StoresInv, Typed, TaskRecords
  <2> QED  BY <2>1, <2>2, <2>3, RowsStay
<1>2. CASE SetUp(t)
  <2>1. FilesInv' /\ disk' = disk
    BY <1>2, FilesStay DEF SetUp, StoresInv, fileVars
  <2>2. Typed'
    <3>1. task' \in [Tasks -> TaskRecords]
      BY <1>2 DEF SetUp, StoresInv, Typed, TaskRecords
    <3>2. kv' \in [table : BOOLEAN, session : Rows, paused : 0 .. MaxOps, snapshot : Blobs, taken : BOOLEAN]
      BY <1>2 DEF SetUp, StoresInv, Typed
    <3> QED  BY <1>2, <3>1, <3>2 DEF SetUp, StoresInv, Typed
  <2>3. /\ UNCHANGED <<zips, restored>> /\ kv'.taken = kv.taken /\ kv'.snapshot = kv.snapshot
        /\ \A u \in Tasks : ZipKept(u)
    BY <1>2 DEF SetUp, ZipKept, StoresInv, Typed, TaskRecords
  <2> QED  BY <2>1, <2>2, <2>3, RowsStay
<1>3. CASE ComponentsThere(t)
  <2>1. FilesInv' /\ disk' = disk
    BY <1>3, FilesStay DEF ComponentsThere, StoresInv, fileVars
  <2>2. Typed'
    BY <1>3, <2>1 DEF ComponentsThere, StoresInv, Typed, TaskRecords
  <2>3. /\ UNCHANGED <<zips, restored>> /\ kv'.taken = kv.taken /\ kv'.snapshot = kv.snapshot
        /\ \A u \in Tasks : ZipKept(u)
    BY <1>3 DEF ComponentsThere, ZipKept, StoresInv, Typed, TaskRecords
  <2> QED  BY <2>1, <2>2, <2>3, RowsStay
<1>4. CASE CreateSession(t)
  <2>1. FilesInv' /\ disk' = disk /\ NewWrite \in 0 .. MaxOps
    BY <1>4, CountingKeeps DEF CreateSession, StoresInv
  <2>2. Typed'
    <3>1. [f \in Fields |-> NewWrite] \in Rows
      BY <2>1 DEF Rows
    <3> QED  BY <1>4, <2>1, <3>1 DEF CreateSession, Uses, StoresInv, Typed, TaskRecords
  <2>3. /\ UNCHANGED <<zips, restored>> /\ kv'.taken = kv.taken /\ kv'.snapshot = kv.snapshot
        /\ \A u \in Tasks : ZipKept(u)
    BY <1>4 DEF CreateSession, Uses, ZipKept, StoresInv, Typed, TaskRecords
  <2> QED  BY <2>1, <2>2, <2>3, RowsStay
<1>5. CASE ReadSession(t)
  <2>1. FilesInv' /\ disk' = disk
    BY <1>5, FilesStay DEF ReadSession, Uses, StoresInv, fileVars
  <2>2. Typed'
    <3>1. task' \in [Tasks -> TaskRecords]
      <4>1. task \in [Tasks -> TaskRecords] /\ kv.session \in Rows
        BY DEF StoresInv, Typed
      <4>2. task' = [task EXCEPT ![t].state = "updating", ![t].session = kv.session]
        BY <1>5 DEF ReadSession
      <4> QED  BY <4>1, <4>2 DEF TaskRecords
    <3>2. kv' \in [table : BOOLEAN, session : Rows, paused : 0 .. MaxOps, snapshot : Blobs, taken : BOOLEAN]
      BY <1>5 DEF ReadSession, Uses, StoresInv, Typed
    <3> QED  BY <1>5, <3>1, <3>2 DEF ReadSession, Uses, StoresInv, Typed
  <2>3. /\ UNCHANGED <<zips, restored>> /\ kv'.taken = kv.taken /\ kv'.snapshot = kv.snapshot
        /\ \A u \in Tasks : ZipKept(u)
    BY <1>5 DEF ReadSession, Uses, ZipKept, StoresInv, Typed, TaskRecords
  <2> QED  BY <2>1, <2>2, <2>3, RowsStay
<1>6. ASSUME NEW f \in Fields, WriteSession(t, f)
      PROVE  StoresInv'
  <2>1. FilesInv' /\ disk' = disk /\ NewWrite \in 0 .. MaxOps
    BY <1>6, CountingKeeps DEF WriteSession, StoresInv
  <2>2. Typed'
    <3>1. NoSession \in Rows
      BY FreshIsTyped
    <3>2. task[t].session \in Rows /\ wanted \in Rows
      BY DEF StoresInv, Typed, TaskRecords
    <3>3. Merged(t, f) \in Rows /\ wanted' \in Rows
      <4>1. Merged(t, f) \in Rows
        BY <2>1, <3>2 DEF Merged, Rows
      <4>2. wanted' = [wanted EXCEPT ![f] = NewWrite]
        BY <1>6 DEF WriteSession
      <4> QED  BY <2>1, <3>2, <4>1, <4>2 DEF Rows
    <3>4. task' \in [Tasks -> TaskRecords]
      <4>1. task \in [Tasks -> TaskRecords]
        BY DEF StoresInv, Typed
      <4>2. task' = [task EXCEPT ![t].state = "ready", ![t].session = NoSession]
        BY <1>6 DEF WriteSession
      <4> QED  BY <3>1, <4>1, <4>2 DEF TaskRecords
    <3>5. kv' \in [table : BOOLEAN, session : Rows, paused : 0 .. MaxOps, snapshot : Blobs, taken : BOOLEAN]
      BY <1>6, <3>3 DEF WriteSession, StoresInv, Typed
    <3> QED  BY <1>6, <3>3, <3>4, <3>5 DEF WriteSession, Uses, StoresInv, Typed
  <2>3. /\ UNCHANGED <<zips, restored>> /\ kv'.taken = kv.taken /\ kv'.snapshot = kv.snapshot
        /\ \A u \in Tasks : ZipKept(u)
    BY <1>6 DEF WriteSession, Uses, ZipKept, StoresInv, Typed, TaskRecords
  <2> QED  BY <2>1, <2>2, <2>3, RowsStay
<1>7. CASE ListSessions(t) \/ LongTermMemory(t)
  <2>1. FilesInv' /\ disk' = disk
    BY <1>7, FilesStay DEF ListSessions, LongTermMemory, Uses, StoresInv, fileVars
  <2>2. Typed'
    BY <1>7, <2>1 DEF ListSessions, LongTermMemory, Uses, StoresInv, Typed, TaskRecords
  <2>3. /\ UNCHANGED <<zips, restored>> /\ kv'.taken = kv.taken /\ kv'.snapshot = kv.snapshot
        /\ \A u \in Tasks : ZipKept(u)
    BY <1>7 DEF ListSessions, LongTermMemory, Uses, ZipKept, StoresInv, Typed, TaskRecords
  <2> QED  BY <2>1, <2>2, <2>3, RowsStay
<1>8. CASE RecordPaused(t)
  <2>1. FilesInv' /\ disk' = disk /\ NewWrite \in 0 .. MaxOps
    BY <1>8, CountingKeeps DEF RecordPaused, StoresInv
  <2>2. Typed'
    BY <1>8, <2>1 DEF RecordPaused, StoresInv, Typed, TaskRecords
  <2>3. /\ UNCHANGED <<zips, restored>> /\ kv'.taken = kv.taken /\ kv'.snapshot = kv.snapshot
        /\ \A u \in Tasks : ZipKept(u)
    BY <1>8 DEF RecordPaused, ZipKept, StoresInv, Typed, TaskRecords
  <2> QED  BY <2>1, <2>2, <2>3, RowsStay
<1>9. CASE ClearPaused(t) \/ ReadPaused(t)
  <2>1. FilesInv' /\ disk' = disk
    BY <1>9, FilesStay DEF ClearPaused, ReadPaused, StoresInv, fileVars
  <2>2. Typed'
    <3>1. Absent \in 0 .. MaxOps
      BY OpsAssumption DEF Absent
    <3> QED  BY <1>9, <2>1, <3>1 DEF ClearPaused, ReadPaused, StoresInv, Typed, TaskRecords
  <2>3. /\ UNCHANGED <<zips, restored>> /\ kv'.taken = kv.taken /\ kv'.snapshot = kv.snapshot
        /\ \A u \in Tasks : ZipKept(u)
    BY <1>9 DEF ClearPaused, ReadPaused, ZipKept, StoresInv, Typed, TaskRecords
  <2> QED  BY <2>1, <2>2, <2>3, RowsStay
<1> QED  BY <1>1, <1>2, <1>3, <1>4, <1>5, <1>6, <1>7, <1>8, <1>9

LEMMA RestartsKeepTypes ==
  ASSUME Typed, Restarts, restored' \in BOOLEAN
  PROVE  Typed'
<1>1. task' \in [Tasks -> TaskRecords]
  BY FreshIsTyped DEF Restarts
<1>2. crashes' \in 0 .. MaxCrashes
  BY CrashesAssumption DEF Restarts, Typed
<1>3. manager' = FALSE /\ UNCHANGED <<kv, wanted, raced, processes, missed>>
  BY DEF Restarts
<1> QED  BY <1>1, <1>2, <1>3 DEF Typed

LEMMA RestartsKeepZips ==
  ASSUME Restarts, NEW t \in Tasks
  PROVE  ZipKept(t)
BY DEF Restarts, ZipKept, Fresh

(* A step of one task that has to do with zips.                             *)
LEMMA ZipStepKeeps ==
  ASSUME StoresInv, NEW t \in Tasks, FilesInv', Typed', WorkspaceIsTyped',
         zips \subseteq zips', \A zip \in zips' : IsHonest(zip),
         (kv.taken => Zipped(kv.snapshot))',
         \A u \in Tasks \ {t} : ZipKept(u),
         (task[t].state = "zipping" => IsHonestSoFar(task[t].zip, task[t].left))',
         (task[t].state \in {"zipped", "restoring"} => Zipped(task[t].zip.blob))',
         (restored => \E zip \in zips : IsBack(zip.blob, disk))',
         (\A f \in WorkspaceFiles : disk'[f] = disk[f]) \/ \A u \in Tasks : task'[u].state # "zipping"
  PROVE  StoresInv'
<1>1. ASSUME NEW u \in Tasks, u # t
      PROVE  (/\ task[u].state = "zipping" => IsHonestSoFar(task[u].zip, task[u].left)
              /\ task[u].state \in {"zipped", "restoring"} => Zipped(task[u].zip.blob))'
  <2>1. ZipKept(u)
    BY <1>1
  <2>2. /\ task[u].state = "zipping" => IsHonestSoFar(task[u].zip, task[u].left)
        /\ task[u].state \in {"zipped", "restoring"} => Zipped(task[u].zip.blob)
    BY DEF StoresInv, RowsAreZips
  <2>3. (task[u].state = "zipping" => IsHonestSoFar(task[u].zip, task[u].left))'
    BY <2>1, <2>2 DEF ZipKept, IsHonestSoFar
  <2>4. (task[u].state \in {"zipped", "restoring"} => Zipped(task[u].zip.blob))'
    BY <2>1, <2>2 DEF ZipKept, Zipped
  <2> QED  BY <2>3, <2>4
<1>2. (\A zip \in zips : IsHonest(zip))'
  BY DEF IsHonest
<1>3. \A u \in Tasks :
        (/\ task[u].state = "zipping" => IsHonestSoFar(task[u].zip, task[u].left)
         /\ task[u].state \in {"zipped", "restoring"} => Zipped(task[u].zip.blob))'
  BY <1>1
<1>4. RowsAreZips'
  BY <1>2, <1>3 DEF RowsAreZips
<1> QED  BY <1>4 DEF StoresInv

(* The steps of a zip that has not been stored, all within one task.        *)
LEMMA ZippingIsHonest ==
  ASSUME StoresInv, NEW t \in Tasks, Snapshot(t) \/ Zipping(t)
  PROVE  StoresInv'
<1> USE DEF Goes
<1>1. task \in [Tasks -> TaskRecords] /\ \A u \in Tasks : task[u] \in TaskRecords
  BY DEF StoresInv, Typed
<1>2. FilesInv' /\ disk' = disk
      /\ UNCHANGED <<kv, manager, crashes, wanted, raced, processes, restored, missed>>
  BY FilesStay DEF Snapshot, Zipping, ZipFile, ZipEnds, ZipFails, StoresInv, fileVars
<1>3. WorkspaceIsTyped'
  BY <1>2 DEF StoresInv, WorkspaceIsTyped
<1>4. \A zip \in zips : IsHonest(zip)
  BY DEF StoresInv, RowsAreZips
<1>5. (kv.taken => Zipped(kv.snapshot)) /\ (restored => \E zip \in zips : IsBack(zip.blob, disk))
  BY DEF StoresInv, RowsAreZips
<1>6. ASSUME zips \subseteq zips'
      PROVE  /\ (kv.taken => Zipped(kv.snapshot))'
             /\ (restored => \E zip \in zips : IsBack(zip.blob, disk))'
  BY <1>2, <1>5, <1>6 DEF Zipped, IsBack
<1>7. ASSUME task' \in [Tasks -> TaskRecords]
      PROVE  Typed'
  BY <1>2, <1>7 DEF StoresInv, Typed
<1>8. CASE Snapshot(t)
  <2>1. task' = [task EXCEPT ![t].state = "zipping", ![t].left = WorkspaceFiles,
                             ![t].zip.begun = Workspace(disk)]
    BY <1>8 DEF Snapshot
  <2>2. Workspace(disk) \in Blobs
    BY DEF Workspace, Blobs, StoresInv, WorkspaceIsTyped
  <2>3. task' \in [Tasks -> TaskRecords]
    <3> DEFINE zip == [task[t].zip EXCEPT !.begun = Workspace(disk)]
    <3>1. zip \in Zips
      BY <1>1, <2>2 DEF TaskRecords, Zips
    <3>2. [task[t] EXCEPT !.state = "zipping", !.left = WorkspaceFiles, !.zip = zip] \in TaskRecords
      BY <1>1, <3>1 DEF TaskRecords
    <3>3. task' = [task EXCEPT ![t] = [task[t] EXCEPT !.state = "zipping", !.left = WorkspaceFiles, !.zip = zip]]
      BY <1>1, <2>1
    <3> QED  BY <1>1, <3>2, <3>3
  <2>4. /\ task'[t].state = "zipping" /\ task'[t].left = WorkspaceFiles
        /\ task'[t].zip.begun = Workspace(disk)
        /\ \A u \in Tasks \ {t} : task'[u] = task[u]
    BY <1>1, <2>1 DEF TaskRecords, Zips
  <2>5. IsHonestSoFar(task[t].zip, task[t].left)'
    BY <1>2, <2>4 DEF IsHonestSoFar, Workspace
  <2>6. zips' = zips
    BY <1>8 DEF Snapshot
  <2>7. \A u \in Tasks \ {t} : ZipKept(u)
    BY <2>4 DEF ZipKept
  <2> QED  BY <1>2, <1>3, <1>4, <1>6, <1>7, <2>3, <2>4, <2>5, <2>6, <2>7, ZipStepKeeps
<1>9. ASSUME NEW f \in WorkspaceFiles, ZipFile(t, f)
      PROVE  StoresInv'
  <2>1. PICK copy \in {disk[f]} \cup {half \in {Torn} : f \in task[t].zip.touched} :
          task' = [task EXCEPT ![t].left = @ \ {f}, ![t].zip.blob[f] = copy]
    BY <1>9 DEF ZipFile
  <2>2. copy \in {Torn} \cup 0 .. MaxOps
    BY <2>1 DEF StoresInv, WorkspaceIsTyped
  <2>3. [task[t].zip.blob EXCEPT ![f] = copy] \in Blobs
    BY <1>1, <2>2 DEF TaskRecords, Zips, Blobs
  <2>4. task' \in [Tasks -> TaskRecords]
    <3> DEFINE zip == [task[t].zip EXCEPT !.blob[f] = copy]
    <3>1. zip \in Zips /\ task[t].left \ {f} \in SUBSET WorkspaceFiles
      BY <1>1, <2>3 DEF TaskRecords, Zips
    <3>2. [task[t] EXCEPT !.left = @ \ {f}, !.zip = zip] \in TaskRecords
      BY <1>1, <3>1 DEF TaskRecords
    <3>3. task' = [task EXCEPT ![t] = [task[t] EXCEPT !.left = @ \ {f}, !.zip = zip]]
      BY <1>1, <2>1
    <3> QED  BY <1>1, <3>2, <3>3
  <2>5. /\ task'[t].state = task[t].state /\ task'[t].left = task[t].left \ {f}
        /\ task'[t].zip.begun = task[t].zip.begun /\ task'[t].zip.touched = task[t].zip.touched
        /\ task'[t].zip.blob = [task[t].zip.blob EXCEPT ![f] = copy]
        /\ \A u \in Tasks \ {t} : task'[u] = task[u]
    BY <1>1, <2>1 DEF TaskRecords, Zips
  <2>6. task[t].state = "zipping" /\ zips' = zips
    BY <1>9 DEF ZipFile
  <2>7. IsHonestSoFar(task[t].zip, task[t].left)'
    <3>1. IsHonestSoFar(task[t].zip, task[t].left)
      BY <2>6 DEF StoresInv, RowsAreZips
    <3>2. task[t].zip.blob \in Blobs
      BY <1>1 DEF TaskRecords, Zips
    <3>3. f \notin task[t].zip.touched => copy = disk[f]
      BY <2>1
    <3> QED  BY <1>2, <2>5, <3>1, <3>2, <3>3 DEF IsHonestSoFar, Blobs
  <2>8. \A u \in Tasks \ {t} : ZipKept(u)
    BY <2>5 DEF ZipKept
  <2> QED  BY <1>2, <1>3, <1>4, <1>6, <1>7, <2>4, <2>5, <2>6, <2>7, <2>8, ZipStepKeeps
<1>10. CASE ZipEnds(t)
  <2>1. /\ task' = [task EXCEPT ![t].state = "zipped"] /\ zips' = zips \cup {task[t].zip}
        /\ task[t].state = "zipping" /\ task[t].left = {}
    BY <1>10 DEF ZipEnds
  <2>2. task' \in [Tasks -> TaskRecords]
    BY <1>1, <2>1 DEF TaskRecords
  <2>3. /\ task'[t].state = "zipped" /\ task'[t].zip = task[t].zip
        /\ \A u \in Tasks \ {t} : task'[u] = task[u]
    BY <1>1, <2>1 DEF TaskRecords
  <2>4. IsHonest(task[t].zip)
    <3>1. IsHonestSoFar(task[t].zip, task[t].left)
      BY <2>1 DEF StoresInv, RowsAreZips
    <3> QED  BY <2>1, <3>1 DEF IsHonestSoFar, IsHonest
  <2>5. Zipped(task[t].zip.blob)'
    BY <2>1, <2>3 DEF Zipped
  <2>6. \A u \in Tasks \ {t} : ZipKept(u)
    BY <2>3 DEF ZipKept
  <2> QED  BY <1>2, <1>3, <1>4, <1>6, <1>7, <2>1, <2>2, <2>3, <2>4, <2>5, <2>6, ZipStepKeeps
<1>11. CASE ZipFails(t)
  <2>1. task' = [task EXCEPT ![t].state = "ready", ![t].left = {}, ![t].zip = NoZip] /\ zips' = zips
    BY <1>11 DEF ZipFails
  <2>2. task' \in [Tasks -> TaskRecords]
    <3>1. [task[t] EXCEPT !.state = "ready", !.left = {}, !.zip = NoZip] \in TaskRecords
      BY <1>1, FreshIsTyped DEF TaskRecords
    <3>2. task' = [task EXCEPT ![t] = [task[t] EXCEPT !.state = "ready", !.left = {}, !.zip = NoZip]]
      BY <1>1, <2>1
    <3> QED  BY <1>1, <3>1, <3>2
  <2>3. task'[t].state = "ready" /\ \A u \in Tasks \ {t} : task'[u] = task[u]
    BY <1>1, <2>1 DEF TaskRecords
  <2>4. \A u \in Tasks : ZipKept(u)
    BY <2>3 DEF ZipKept
  <2>5. \A f \in WorkspaceFiles : disk'[f] = disk[f]
    BY <1>2
  <2> QED  BY <1>2, <1>7, <2>1, <2>2, <2>4, <2>5, RowsStay
<1> QED  BY <1>8, <1>9, <1>10, <1>11 DEF Zipping

LEMMA UnpackedInPartKeeps ==
  ASSUME StoresInv, NEW t \in Tasks, UnpackedInPart(t)
  PROVE  FilesInv' /\ WorkspaceIsTyped' /\ restored' = FALSE
<1>1. task[t].zip.blob \in Blobs
  BY DEF StoresInv, Typed, TaskRecords, Zips, UnpackedInPart
<1>2. PICK back \in SUBSET WorkspaceFiles, torn \in SUBSET WorkspaceFiles :
        disk' = [f \in Files |-> IF f \in torn THEN Torn
                                 ELSE IF f \in back THEN task[t].zip.blob[f] ELSE disk[f]]
  BY DEF UnpackedInPart
<1>3. \A f \in WorkspaceFiles : task[t].zip.blob[f] \in {Torn} \cup 0 .. MaxOps
  BY <1>1 DEF Blobs
<1>4. disk \in [Files -> Contents] /\ Torn \in Contents /\ WorkspaceFiles \subseteq Files
      /\ {Torn} \cup 0 .. MaxOps \subseteq Contents
  BY FilesDiffer, OpsAssumption DEF StoresInv, FilesInv, FilesTypeOK, Contents, Absent
<1>5. KeepsAllBut(disk', WorkspaceFiles)
  BY <1>2, <1>3, <1>4 DEF KeepsAllBut
<1>6. WorkspaceIsTyped'
  BY <1>2, <1>3, <1>4 DEF WorkspaceIsTyped, StoresInv
<1>7. UNCHANGED <<ops, acked, damaged>> /\ restored' = FALSE
  BY DEF UnpackedInPart
<1>8. ops' \in 0 .. MaxOps
  BY <1>7 DEF StoresInv, FilesInv, FilesTypeOK
<1>9. FilesInv'
  BY <1>5, <1>7, <1>8, OthersKeep DEF StoresInv
<1> QED  BY <1>6, <1>7, <1>9

LEMMA SnapshotStepsKeep ==
  ASSUME StoresInv, LoopFree, NEW t \in Tasks,
         Snapshot(t) \/ StoreSnapshot(t) \/ FetchSnapshot(t) \/ Unpack(t) \/ UnpackFails(t)
         \/ CrashInUnpack(t)
  PROVE  StoresInv'
<1>1. task \in [Tasks -> TaskRecords] /\ \A u \in Tasks : task[u] \in TaskRecords
      /\ kv \in [table : BOOLEAN, session : Rows, paused : 0 .. MaxOps, snapshot : Blobs, taken : BOOLEAN]
  BY DEF StoresInv, Typed
<1>2. \A zip \in zips : IsHonest(zip)
  BY DEF StoresInv, RowsAreZips
<1>3. (kv.taken => Zipped(kv.snapshot)) /\ (restored => \E zip \in zips : IsBack(zip.blob, disk))
  BY DEF StoresInv, RowsAreZips
<1>4. CASE Snapshot(t)
  BY <1>4, ZippingIsHonest
<1>5. CASE StoreSnapshot(t)
  <2>1. FilesInv' /\ disk' = disk
    BY <1>5, FilesStay DEF StoreSnapshot, StoresInv, fileVars
  <2>2. /\ kv' = [kv EXCEPT !.snapshot = task[t].zip.blob, !.taken = TRUE]
        /\ task' = [task EXCEPT ![t].state = "ready", ![t].zip = NoZip]
        /\ task[t].state = "zipped" /\ missed' \in BOOLEAN
        /\ UNCHANGED <<manager, crashes, wanted, raced, processes, zips, restored>>
    BY <1>5 DEF StoreSnapshot, Uses
  <2>3. task[t].zip.blob \in Blobs /\ Zipped(task[t].zip.blob)
    BY <1>1, <2>2 DEF TaskRecords, Zips, StoresInv, RowsAreZips
  <2>4. task' \in [Tasks -> TaskRecords]
    <3>1. [task[t] EXCEPT !.state = "ready", !.zip = NoZip] \in TaskRecords
      BY <1>1, FreshIsTyped DEF TaskRecords
    <3>2. task' = [task EXCEPT ![t] = [task[t] EXCEPT !.state = "ready", !.zip = NoZip]]
      BY <1>1, <2>2
    <3> QED  BY <1>1, <3>1, <3>2
  <2>5. kv' \in [table : BOOLEAN, session : Rows, paused : 0 .. MaxOps, snapshot : Blobs, taken : BOOLEAN]
        /\ kv'.snapshot = task[t].zip.blob
    BY <1>1, <2>2, <2>3
  <2>6. Typed'
    BY <2>2, <2>4, <2>5 DEF StoresInv, Typed
  <2>7. task'[t].state = "ready" /\ \A u \in Tasks \ {t} : task'[u] = task[u]
    BY <1>1, <2>2 DEF TaskRecords
  <2>8. \A u \in Tasks \ {t} : ZipKept(u)
    BY <2>7 DEF ZipKept
  <2>9. (kv.taken => Zipped(kv.snapshot))'
    BY <2>2, <2>3, <2>5 DEF Zipped
  <2>10. WorkspaceIsTyped' /\ (restored => \E zip \in zips : IsBack(zip.blob, disk))'
    BY <1>3, <2>1, <2>2 DEF StoresInv, WorkspaceIsTyped, IsBack
  <2> QED  BY <1>2, <2>1, <2>2, <2>6, <2>7, <2>8, <2>9, <2>10, ZipStepKeeps
<1>6. CASE FetchSnapshot(t)
  <2>1. FilesInv' /\ disk' = disk
    BY <1>6, FilesStay DEF FetchSnapshot, StoresInv, fileVars
  <2>2. /\ task' = [task EXCEPT ![t].state = "restoring", ![t].zip.blob = kv.snapshot]
        /\ kv.taken /\ missed' \in BOOLEAN
        /\ UNCHANGED <<kv, manager, crashes, wanted, raced, processes, zips, restored>>
    BY <1>6 DEF FetchSnapshot, Uses
  <2>3. kv.snapshot \in Blobs /\ Zipped(kv.snapshot)
    BY <1>1, <1>3, <2>2
  <2>4. task' \in [Tasks -> TaskRecords]
    <3> DEFINE zip == [task[t].zip EXCEPT !.blob = kv.snapshot]
    <3>1. zip \in Zips
      BY <1>1, <2>3 DEF TaskRecords, Zips
    <3>2. [task[t] EXCEPT !.state = "restoring", !.zip = zip] \in TaskRecords
      BY <1>1, <3>1 DEF TaskRecords
    <3>3. task' = [task EXCEPT ![t] = [task[t] EXCEPT !.state = "restoring", !.zip = zip]]
      BY <1>1, <2>2
    <3> QED  BY <1>1, <3>2, <3>3
  <2>5. Typed'
    BY <2>2, <2>4 DEF StoresInv, Typed
  <2>6. /\ task'[t].state = "restoring" /\ task'[t].zip.blob = kv.snapshot
        /\ \A u \in Tasks \ {t} : task'[u] = task[u]
    BY <1>1, <2>2 DEF TaskRecords, Zips
  <2>7. \A u \in Tasks \ {t} : ZipKept(u)
    BY <2>6 DEF ZipKept
  <2>8. Zipped(task[t].zip.blob)' /\ (kv.taken => Zipped(kv.snapshot))'
    BY <2>2, <2>3, <2>6 DEF Zipped
  <2>9. WorkspaceIsTyped' /\ (restored => \E zip \in zips : IsBack(zip.blob, disk))'
    BY <1>3, <2>1, <2>2 DEF StoresInv, WorkspaceIsTyped, IsBack
  <2> QED  BY <1>2, <2>1, <2>2, <2>5, <2>6, <2>7, <2>8, <2>9, ZipStepKeeps
<1>7. ASSUME task' = [task EXCEPT ![t].state = "ready", ![t].zip = NoZip]
      PROVE  /\ task' \in [Tasks -> TaskRecords] /\ task'[t].state = "ready"
             /\ \A u \in Tasks : task'[u].state # "zipping"
             /\ \A u \in Tasks \ {t} : ZipKept(u)
  <2>1. task' \in [Tasks -> TaskRecords]
    <3>1. [task[t] EXCEPT !.state = "ready", !.zip = NoZip] \in TaskRecords
      BY <1>1, FreshIsTyped DEF TaskRecords
    <3>2. task' = [task EXCEPT ![t] = [task[t] EXCEPT !.state = "ready", !.zip = NoZip]]
      BY <1>1, <1>7
    <3> QED  BY <1>1, <3>1, <3>2
  <2>2. task'[t].state = "ready" /\ \A u \in Tasks \ {t} : task'[u] = task[u]
    BY <1>1, <1>7 DEF TaskRecords
  <2> QED  BY <2>1, <2>2 DEF ZipKept, LoopFree
<1>8. CASE Unpack(t)
  <2> DEFINE blob == task[t].zip.blob
  <2>1. /\ disk' = Unpacked(blob) /\ restored' = TRUE /\ task[t].state = "restoring"
        /\ task' = [task EXCEPT ![t].state = "ready", ![t].zip = NoZip]
        /\ UNCHANGED <<ops, acked, damaged, kv, manager, crashes, wanted, raced, processes, zips, missed>>
    BY <1>8 DEF Unpack
  <2>2. blob \in Blobs /\ Zipped(blob)
    BY <1>1, <2>1 DEF TaskRecords, Zips, StoresInv, RowsAreZips
  <2> HIDE DEF blob
  <2>3. disk \in [Files -> Contents] /\ WorkspaceFiles \subseteq Files
        /\ {Torn} \cup 0 .. MaxOps \subseteq Contents
    BY FilesDiffer, OpsAssumption DEF StoresInv, FilesInv, FilesTypeOK, Contents, Absent
  <2>4. disk' = [f \in Files |-> IF f \in WorkspaceFiles /\ blob[f] # Absent THEN blob[f] ELSE disk[f]]
    BY <2>1 DEF Unpacked
  <2>5. \A f \in WorkspaceFiles : blob[f] \in {Torn} \cup 0 .. MaxOps
    BY <2>2 DEF Blobs
  <2>6. KeepsAllBut(disk', WorkspaceFiles) /\ IsBack(blob, disk')
    BY <2>3, <2>4, <2>5 DEF KeepsAllBut, IsBack
  <2>7. WorkspaceIsTyped'
    BY <2>3, <2>4, <2>5 DEF WorkspaceIsTyped, StoresInv
  <2>8. FilesInv'
    BY <2>1, <2>6, OthersKeep DEF StoresInv, FilesInv, FilesTypeOK
  <2>9. Typed'
    BY <1>7, <2>1 DEF StoresInv, Typed
  <2>10. (kv.taken => Zipped(kv.snapshot))' /\ (restored => \E zip \in zips : IsBack(zip.blob, disk))'
    BY <1>3, <2>1, <2>2, <2>6 DEF Zipped
  <2> QED  BY <1>2, <1>7, <2>1, <2>7, <2>8, <2>9, <2>10, ZipStepKeeps
<1>9. CASE UnpackFails(t)
  <2>1. /\ task' = [task EXCEPT ![t].state = "ready", ![t].zip = NoZip]
        /\ UNCHANGED <<kv, manager, crashes, wanted, raced, processes, zips, missed>>
    BY <1>9 DEF UnpackFails
  <2>2. FilesInv' /\ WorkspaceIsTyped' /\ restored' = FALSE
    BY <1>9, UnpackedInPartKeeps DEF UnpackFails
  <2>3. Typed'
    BY <1>7, <2>1, <2>2 DEF StoresInv, Typed
  <2>4. (kv.taken => Zipped(kv.snapshot))'
    BY <1>3, <2>1 DEF Zipped
  <2> QED  BY <1>2, <1>7, <2>1, <2>2, <2>3, <2>4, ZipStepKeeps
<1>10. CASE CrashInUnpack(t)
  <2>1. Restarts /\ FilesInv' /\ WorkspaceIsTyped' /\ restored' = FALSE
    BY <1>10, UnpackedInPartKeeps DEF CrashInUnpack
  <2>2. Typed'
    BY <2>1, RestartsKeepTypes DEF StoresInv
  <2>3. (kv.taken => Zipped(kv.snapshot))' /\ zips' = zips
    BY <1>3, <2>1 DEF Zipped, Restarts
  <2>4. \A u \in Tasks : ZipKept(u) /\ task'[u].state = "new"
    BY <2>1, RestartsKeepZips DEF Restarts, Fresh
  <2> QED  BY <1>2, <2>1, <2>2, <2>3, <2>4, ZipStepKeeps
<1> QED  BY <1>4, <1>5, <1>6, <1>8, <1>9, <1>10

(* A process that writes while a zip is made is known to that zip.          *)
LEMMA ProcessesAreKnown ==
  ASSUME StoresInv, NEW f \in WorkspaceFiles, ProcessWrites(f)
  PROVE  StoresInv'
<1>1. PICK content \in {NewWrite, Torn, Absent} : disk' = [disk EXCEPT ![f] = content]
  BY DEF ProcessWrites
<1>2. /\ task' = [t \in Tasks |-> IF task[t].state = "zipping"
                                  THEN [task[t] EXCEPT !.zip.touched = @ \cup {f}] ELSE task[t]]
      /\ ops' = NewWrite /\ CanWrite /\ restored' = FALSE
      /\ UNCHANGED <<acked, damaged, kv, manager, crashes, wanted, raced, processes, zips, missed>>
  BY DEF ProcessWrites
<1>3. NewWrite \in 1 .. MaxOps /\ content \in Contents /\ content \in {Torn} \cup 0 .. MaxOps
  BY <1>1, <1>2, NewWriteIsANumber, OpsAssumption DEF StoresInv, FilesInv, Contents, Absent
<1>4. disk \in [Files -> Contents] /\ WorkspaceFiles \subseteq Files
  BY FilesDiffer DEF StoresInv, FilesInv, FilesTypeOK, Contents
<1>5. KeepsAllBut(disk', WorkspaceFiles)
  BY <1>1, <1>3, <1>4 DEF KeepsAllBut
<1>6. FilesInv'
  BY <1>2, <1>3, <1>5, OthersKeep DEF StoresInv
<1>7. WorkspaceIsTyped'
  BY <1>1, <1>3, <1>4 DEF StoresInv, WorkspaceIsTyped
<1>8. task \in [Tasks -> TaskRecords] /\ \A t \in Tasks : task[t] \in TaskRecords
  BY DEF StoresInv, Typed
<1>9. ASSUME NEW t \in Tasks
      PROVE  /\ task'[t] \in TaskRecords
             /\ task'[t].state = task[t].state /\ task'[t].left = task[t].left
             /\ task'[t].zip.blob = task[t].zip.blob /\ task'[t].zip.begun = task[t].zip.begun
             /\ task[t].state = "zipping" => task'[t].zip.touched = task[t].zip.touched \cup {f}
             /\ task[t].state # "zipping" => task'[t] = task[t]
  <2>1. CASE task[t].state = "zipping"
    <3> DEFINE zip == [task[t].zip EXCEPT !.touched = @ \cup {f}]
    <3>1. zip \in Zips /\ zip.touched = task[t].zip.touched \cup {f} /\ zip.blob = task[t].zip.blob
          /\ zip.begun = task[t].zip.begun
      BY <1>8 DEF TaskRecords, Zips
    <3>2. task'[t] = [task[t] EXCEPT !.zip = zip]
      BY <1>2, <1>8, <2>1
    <3> HIDE DEF zip
    <3>3. task'[t] \in TaskRecords
      BY <1>8, <3>1, <3>2 DEF TaskRecords
    <3>4. task'[t].zip = zip /\ task'[t].state = task[t].state /\ task'[t].left = task[t].left
      BY <1>8, <3>2 DEF TaskRecords
    <3> QED  BY <2>1, <3>1, <3>3, <3>4
  <2>2. CASE task[t].state # "zipping"
    BY <1>2, <1>8, <2>2
  <2> QED  BY <2>1, <2>2
<1>10. task' \in [Tasks -> TaskRecords]
  BY <1>2, <1>9
<1>11. Typed'
  BY <1>2, <1>10 DEF StoresInv, Typed
<1>12. ASSUME NEW t \in Tasks
       PROVE  (/\ task[t].state = "zipping" => IsHonestSoFar(task[t].zip, task[t].left)
               /\ task[t].state \in {"zipped", "restoring"} => Zipped(task[t].zip.blob))'
  <2>1. /\ task[t].state = "zipping" => IsHonestSoFar(task[t].zip, task[t].left)
        /\ task[t].state \in {"zipped", "restoring"} => Zipped(task[t].zip.blob)
    BY DEF StoresInv, RowsAreZips
  <2>2. \A g \in WorkspaceFiles : g # f => disk'[g] = disk[g]
    BY <1>1, <1>4
  <2>3. (task[t].state = "zipping" => IsHonestSoFar(task[t].zip, task[t].left))'
    BY <1>9, <2>1, <2>2 DEF IsHonestSoFar
  <2>4. (task[t].state \in {"zipped", "restoring"} => Zipped(task[t].zip.blob))'
    BY <1>2, <1>9, <2>1 DEF Zipped
  <2> QED  BY <2>3, <2>4
<1>13. RowsAreZips'
  <2>1. (\A zip \in zips : IsHonest(zip))' /\ (kv.taken => Zipped(kv.snapshot))'
    BY <1>2 DEF StoresInv, RowsAreZips, Zipped, IsHonest
  <2> QED  BY <1>2, <1>12, <2>1 DEF RowsAreZips
<1> QED  BY <1>6, <1>7, <1>11, <1>13 DEF StoresInv

LEMMA StoresStep ==
  ASSUME StoresInv, [Next]_vars
  PROVE  StoresInv'
<1>1. ASSUME UNCHANGED <<zips, restored, kv, task>>
      PROVE  /\ \A t \in Tasks : ZipKept(t)
             /\ UNCHANGED <<zips, restored>> /\ kv'.taken = kv.taken /\ kv'.snapshot = kv.snapshot
  BY <1>1 DEF ZipKept
<1>2. CASE UNCHANGED vars
  <2>1. FilesInv' /\ disk' = disk /\ Typed' /\ UNCHANGED <<zips, restored, kv, task>>
    BY <1>2, FilesStay DEF vars, fileVars, kvVars, StoresInv, Typed
  <2> QED  BY <1>1, <2>1, RowsStay
<1>3. ASSUME NEW t \in Tasks, LoopFree, TaskStep(t) \/ CrashInUnpack(t)
      PROVE  StoresInv'
  BY <1>3, RowStepsKeep, SnapshotStepsKeep DEF TaskStep
<1>4. ASSUME NEW t \in Tasks, Zipping(t)
      PROVE  StoresInv'
  BY <1>4, ZippingIsHonest
<1>5. ASSUME NEW f \in WorkspaceFiles, ProcessWrites(f)
      PROVE  StoresInv'
  BY <1>5, ProcessesAreKnown
<1>6. CASE LoopFree /\ ToolWrites
  <2>1. PICK f \in WorkspaceFiles : WriteWorkspace(f)
    BY <1>6 DEF ToolWrites
  <2>2. /\ UNCHANGED <<kv, manager, task, crashes, wanted, raced, processes, zips, missed>>
        /\ restored' = FALSE /\ LoopFree
    BY <1>6 DEF ToolWrites
  <2>3. KeepsAllBut(disk', ToSet(<<f>>)) /\ ToSet(<<f>>) = {f} /\ ops' \in 0 .. MaxOps
        /\ disk' = AfterWrites(<<f>>) /\ NewWrite \in 1 .. MaxOps /\ UNCHANGED <<acked, damaged>>
    BY <2>1, WritesKeep, NewWriteIsANumber DEF WriteWorkspace, StoresInv, FilesInv, ToSet
  <2>4. KeepsAllBut(disk', WorkspaceFiles)
    BY <2>3 DEF KeepsAllBut
  <2>5. FilesInv'
    BY <2>3, <2>4, OthersKeep DEF StoresInv
  <2>6. WorkspaceIsTyped'
    BY <2>3, FilesDiffer DEF AfterWrites, StoresInv, WorkspaceIsTyped
  <2>7. Typed'
    BY <2>2 DEF StoresInv, Typed
  <2>8. \A t \in Tasks : task'[t].state # "zipping"
    BY <2>2 DEF LoopFree
  <2>9. RowsAreZips'
    BY <2>2, <2>8 DEF StoresInv, RowsAreZips, Zipped, IsHonest
  <2> QED  BY <2>5, <2>6, <2>7, <2>9 DEF StoresInv
<1>7. CASE StartsProcess
  <2>1. FilesInv' /\ disk' = disk /\ Typed' /\ UNCHANGED <<zips, restored, kv, task>>
    BY <1>7, FilesStay DEF StartsProcess, fileVars, StoresInv, Typed
  <2> QED  BY <1>1, <2>1, RowsStay
<1>8. CASE StoresFiles
  <2>1. FilesInv' /\ \A f \in WorkspaceFiles : disk'[f] = disk[f]
    BY <1>8, FileStepsKeep DEF StoresFiles, StoresInv
  <2>2. Typed' /\ UNCHANGED <<zips, restored, kv, task>>
    BY <1>8 DEF StoresFiles, kvVars, StoresInv, Typed
  <2> QED  BY <1>1, <2>1, <2>2, RowsStay
<1>9. CASE Crash \/ FileStepBreaksOff
  <2>1. FilesInv' /\ (\A f \in WorkspaceFiles : disk'[f] = disk[f]) /\ restored' = restored
    BY <1>9, FilesStay, BreakingOffKeeps DEF Crash, FileStepBreaksOff, StoresInv, fileVars
  <2>2. CASE Restarts
    <3>1. restored' \in BOOLEAN
      BY <2>1 DEF StoresInv, Typed
    <3>2. Typed'
      BY <2>2, <3>1, RestartsKeepTypes DEF StoresInv
    <3>3. UNCHANGED <<zips, kv>> /\ \A t \in Tasks : ZipKept(t)
      BY <2>2, RestartsKeepZips DEF Restarts
    <3> QED  BY <2>1, <3>2, <3>3, RowsStay
  <2>3. CASE UNCHANGED <<kv, manager, task, crashes, wanted, raced, processes, zips, missed>>
    <3>1. Typed'
      BY <2>1, <2>3 DEF StoresInv, Typed
    <3> QED  BY <1>1, <2>1, <2>3, <3>1, RowsStay
  <2> QED  BY <1>9, <2>2, <2>3 DEF Crash, FileStepBreaksOff
<1> QED  BY <1>2, <1>3, <1>4, <1>5, <1>6, <1>7, <1>8, <1>9 DEF Next

LEMMA StoresInvariance == Spec => []StoresInv
BY StoresInit, StoresStep, PTL DEF Spec

(* What put, write_memory and put_workflow acknowledged is read back through *)
(* any number of writes, errors and crashes, unless the last change of that *)
(* object broke off.  It is listed, too, unless the whole list raises, and  *)
(* then an object of that list was itself broken off in its last change     *)
(* (persistence/backends/local_fs.py, memory/backends/local_fs.py,          *)
(* workflows/store.py).                                                     *)
THEOREM AcknowledgedIsKept == Spec => []AcknowledgedDataLasts
<1>1. StoresInv => AcknowledgedDataLasts
  BY IntactIsReadable DEF StoresInv
<1> QED  BY <1>1, StoresInvariance, PTL

(* The snapshot in the table is one zip of the workspace with every file as *)
(* it was when the zip began, but for those that host processes changed     *)
(* while it was made; and a restored workspace has every file of one zip    *)
(* (persistence/workspace.py), for any number of tasks, tools, processes    *)
(* and crashes.                                                             *)
THEOREM RestoresAreWhole == Spec => []RestoreIsOneSnapshot
<1>1. StoresInv => RestoreIsOneSnapshot
  BY DEF StoresInv, RowsAreZips, RestoreIsOneSnapshot, Zipped, IsHonest, IsBack
<1> QED  BY <1>1, StoresInvariance, PTL

(* Type correctness of the stores and of the tasks that use them.           *)
THEOREM TypeCorrect == Spec => []TypeOK
<1>1. StoresInv => TypeOK
  BY DEF StoresInv, FilesInv, Typed, TaskRecords, TypeOK, Rows, Blobs
<1> QED  BY <1>1, StoresInvariance, PTL
===============================================================================
