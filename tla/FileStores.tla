------------------------------ MODULE FileStores ------------------------------
(***************************************************************************)
(* What is kept as files: artifacts (persistence/backends/local_fs.py), the  *)
(* memory scopes (memory/backends/local_fs.py) and the editor's workflows   *)
(* (workflows/store.py).                                                    *)
(*                                                                         *)
(* An operation on files does not give up the event loop, so tasks do not   *)
(* see it half done.  The process can die in it: what is left then is a     *)
(* part of its writes, the last of them torn.  An error of the system leaves *)
(* the same.  Every write has a number of its own, which stands for the     *)
(* data written.                                                            *)
(***************************************************************************)
EXTENDS Integers, Sequences, SequencesExt

CONSTANTS
  Artifacts,  \* the artifacts of the run
  Workflows,  \* the editor's workflows
  Keys,       \* the keys of memory values
  Reports,    \* the names of files in the workspace of the run
  MaxOps      \* bound: writes of any kind

ASSUME OpsAssumption == MaxOps \in Nat
VARIABLES
  disk,     \* the content of each file: Absent, Torn, Garbled or the number of a write
  ops,      \* writes so far
  acked,    \* history: the last write of each object that returned to its caller
  damaged   \* history: the objects whose last change was interrupted, or raised

fileVars == <<disk, ops, acked, damaged>>

Absent == 0
Torn == -1
Garbled == -2  \* torn within a character: no UTF-8

(* Memory values are kept by scope and key, in the scopes with a backend.   *)
Scopes == {"scratch", "session", "long_term"}

HasBackend(scope) == scope # "long_term"

Memories == {s \in Scopes : HasBackend(s)} \X Keys

(* What owns a file has a name of its own.                                  *)
ASSUME NamesAssumption ==
  /\ Artifacts \cap Workflows = {}
  /\ (Artifacts \cup Workflows) \cap ({<<"run", "workspace">>} \cup (Scopes \X Keys)) = {}

(* The files: an owner and a name.                                          *)
WorkspaceFiles == {<<"run", "workspace">>} \X Reports

Manifest(a) == <<a, "manifest.json">>
Bytes(a) == <<a, "content.bin">>
Text(a) == <<a, "content.txt">>
Yaml(w) == <<w, "yaml">>
MemoryFile(m) == <<m, "json">>

ArtifactFiles(a) == {Bytes(a), Text(a), Manifest(a)}

Files ==
  (UNION {ArtifactFiles(a) : a \in Artifacts}) \cup {Yaml(w) : w \in Workflows}
  \cup {MemoryFile(m) : m \in Memories} \cup WorkspaceFiles

Objects == Artifacts \cup Workflows \cup Memories
Nothing == [write |-> Absent, kind |-> "text"]

FilesTypeOK ==
  /\ disk \in [Files -> {Absent, Torn, Garbled} \cup 1 .. MaxOps]
  /\ ops \in 0 .. MaxOps
  /\ acked \in [Objects -> [write : 0 .. MaxOps, kind : {"bytes", "text"}]]
  /\ damaged \subseteq Objects

FilesInit ==
  /\ disk = [f \in Files |-> Absent]
  /\ ops = 0
  /\ acked = [o \in Objects |-> Nothing]
  /\ damaged = {}

NewWrite == ops + 1

(***************************************************************************)
(* A sequence of writes to files, completed or interrupted.                 *)
(***************************************************************************)
AfterWrites(files) ==
  LET written == ToSet(files) IN [f \in Files |-> IF f \in written THEN NewWrite ELSE disk[f]]

(* What an interrupted write leaves: half a text may end within a character. *)
Remains(f) == IF f[2] \in {"content.txt", "yaml"} THEN {Torn, Garbled} ELSE {Torn}

Interrupted(files) ==
  {AfterWrites(SubSeq(files, 1, i)) : i \in 0 .. Len(files)}
  \cup UNION {{[AfterWrites(SubSeq(files, 1, i)) EXCEPT ![files[i + 1]] = half] :
                 half \in Remains(files[i + 1])} : i \in 0 .. Len(files) - 1}

CanWrite == ops < MaxOps

Completes(object, files, kind) ==
  /\ CanWrite
  /\ disk' = AfterWrites(files)
  /\ ops' = NewWrite
  /\ acked' = [acked EXCEPT ![object] = [write |-> NewWrite, kind |-> kind]]
  /\ damaged' = damaged \ {object}

(* The caller gets no answer, or an error.                                  *)
Breaks(object, disks) ==
  /\ CanWrite
  /\ disk' \in disks
  /\ ops' = NewWrite
  /\ damaged' = damaged \cup {object}
  /\ UNCHANGED acked

Removed(files) == [f \in Files |-> IF f \in files THEN Absent ELSE disk[f]]

Removes(object, files) ==
  /\ CanWrite
  /\ disk' = Removed(files)
  /\ ops' = NewWrite
  /\ acked' = [acked EXCEPT ![object] = Nothing]
  /\ damaged' = damaged \ {object}

(***************************************************************************)
(* Artifacts: bytes or text in a file of their own, then the manifest.      *)
(***************************************************************************)
Content(a, kind) == IF kind = "bytes" THEN Bytes(a) ELSE Text(a)

ManifestOnlyOnce(a, kind) ==  \* mutant: an existing manifest is kept
  <<Content(a, kind)>> \o (IF disk[Manifest(a)] = Absent THEN <<Manifest(a)>> ELSE <<>>)

ArtifactWrites(a, kind) == <<Content(a, kind), Manifest(a)>>

PutArtifact(a, kind) == Completes(a, ArtifactWrites(a, kind), kind)

(* Bytes that are not UTF-8 have no JSON form: the dump for the manifest    *)
(* raises, after the content has been written.                              *)
PutRaises(a) == Breaks(a, {AfterWrites(<<Bytes(a)>>)})

DirExists(a) == \E f \in ArtifactFiles(a) : disk[f] # Absent

DeleteArtifact(a) == DirExists(a) /\ Removes(a, ArtifactFiles(a))

Raised == [found |-> "error"]

(* get(): None, an error, or what the content file and the manifest hold.   *)
GetArtifact(a) ==
  IF ~DirExists(a) THEN [found |-> "none"]
  ELSE IF disk[Manifest(a)] \in {Absent, Torn} THEN Raised
  ELSE IF disk[Bytes(a)] # Absent
  THEN [found |-> "artifact", content |-> disk[Bytes(a)], manifest |-> disk[Manifest(a)]]
  ELSE IF disk[Text(a)] \notin {Absent, Garbled}
  THEN [found |-> "artifact", content |-> disk[Text(a)], manifest |-> disk[Manifest(a)]]
  ELSE Raised

(* list() of a run reads every manifest of it; one that is torn fails all.  *)
ListArtifacts ==
  IF \E a \in Artifacts : disk[Manifest(a)] = Torn THEN Raised
  ELSE [found |-> "list",
        items |-> [a \in {b \in Artifacts : disk[Manifest(b)] # Absent} |-> disk[Manifest(a)]]]

(***************************************************************************)
(* Memory: a scope without a backend reads as empty and refuses to write.   *)
(* A key is a path whose suffix is replaced, so "plan" and "plan.v2" are    *)
(* one key here.  A torn value is no JSON.                                  *)
(***************************************************************************)
WriteMemory(scope, key) ==
  /\ HasBackend(scope)
  /\ Completes(<<scope, key>>, <<MemoryFile(<<scope, key>>)>>, "text")

DeleteMemory(scope, key) ==
  /\ HasBackend(scope)
  /\ Removes(<<scope, key>>, {MemoryFile(<<scope, key>>)})

(* The operations of RuntimeContext.memory that change something.           *)
MemoryOp(scope, key) == WriteMemory(scope, key) \/ DeleteMemory(scope, key)

ReadFile(f) ==
  CASE disk[f] = Absent -> [found |-> "none"]
    [] disk[f] = Torn -> Raised
    [] OTHER -> [found |-> "value", content |-> disk[f]]

ReadMemory(scope, key) ==
  IF HasBackend(scope) THEN ReadFile(MemoryFile(<<scope, key>>)) ELSE [found |-> "none"]

ListKeys(scope) == {key \in Keys : HasBackend(scope) /\ disk[MemoryFile(<<scope, key>>)] # Absent}

(***************************************************************************)
(* Workflows: create refuses an existing file, update replaces or creates,  *)
(* delete refuses a missing one.  A document that does not parse is listed  *)
(* by its id; but a file that is no UTF-8 fails its get and any list.       *)
(***************************************************************************)
PutWorkflow(w) == Completes(w, <<Yaml(w)>>, "text")

RemoveWorkflow(w) == disk[Yaml(w)] # Absent /\ Removes(w, {Yaml(w)})

CreateWorkflow(w) == disk[Yaml(w)] = Absent /\ PutWorkflow(w)

UpdateWorkflow(w) == PutWorkflow(w)

DeleteWorkflow(w) == RemoveWorkflow(w)

ListWorkflows ==
  IF \E w \in Workflows : disk[Yaml(w)] = Garbled THEN Raised
  ELSE [found |-> "list",
        items |-> [w \in {v \in Workflows : disk[Yaml(v)] # Absent} |-> disk[Yaml(w)]]]

GetWorkflow(w) ==
  CASE disk[Yaml(w)] = Absent -> [found |-> "none"]
    [] disk[Yaml(w)] = Garbled -> Raised
    [] OTHER -> [found |-> "value", content |-> disk[Yaml(w)]]

(* A tool writes a file of the workspace.                                   *)
WriteWorkspace(f) ==
  /\ CanWrite
  /\ disk' = AfterWrites(<<f>>) /\ ops' = NewWrite
  /\ UNCHANGED <<acked, damaged>>

FileStep ==
  \/ \E a \in Artifacts :
       \/ \E kind \in {"bytes", "text"} : PutArtifact(a, kind)
       \/ PutRaises(a)
       \/ DeleteArtifact(a)
  \/ \E s \in Scopes, key \in Keys : MemoryOp(s, key)
  \/ \E w \in Workflows : CreateWorkflow(w) \/ UpdateWorkflow(w) \/ DeleteWorkflow(w)

(* One of them breaks off: the process dies in it, or it raises an OSError. *)
BreaksOff ==
  \/ \E a \in Artifacts :
       \/ \E kind \in {"bytes", "text"} : Breaks(a, Interrupted(ArtifactWrites(a, kind)))
       \/ Breaks(a, {Removed(files) : files \in SUBSET ArtifactFiles(a)})
  \/ \E m \in Memories : Breaks(m, Interrupted(<<MemoryFile(m)>>) \cup {Removed({MemoryFile(m)})})
  \/ \E w \in Workflows : Breaks(w, Interrupted(<<Yaml(w)>>) \cup {Removed({Yaml(w)})})

-------------------------------------------------------------------------------
(* What was put as text is hidden behind bytes put before.                  *)
StaleBytes(o) ==
  o \in Artifacts /\ acked[o].kind = "text" /\ disk[Bytes(o)] # Absent

Expected(o) ==
  IF acked[o] = Nothing THEN [found |-> "none"]
  ELSE IF o \in Artifacts
  THEN [found |-> "artifact", content |-> acked[o].write, manifest |-> acked[o].write]
  ELSE [found |-> "value", content |-> acked[o].write]

Read(o) ==
  CASE o \in Artifacts -> GetArtifact(o)
    [] o \in Workflows -> GetWorkflow(o)
    [] o \in Memories -> ReadMemory(o[1], o[2])

(* What is listed together with o, and whether that list can be had and has *)
(* what was written last.                                                   *)
Siblings(o) ==
  CASE o \in Artifacts -> Artifacts [] o \in Workflows -> Workflows [] OTHER -> {o}

List(o) == IF o \in Artifacts THEN ListArtifacts ELSE ListWorkflows

ListRaises(o) == o \notin Memories /\ List(o) = Raised

IsListed(o) ==
  IF o \in Memories THEN o[2] \in ListKeys(o[1])
  ELSE o \in DOMAIN List(o).items /\ List(o).items[o] = acked[o].write

(* What was acknowledged can be read back through any crash, unless the     *)
(* last change of that very object broke off; and what is read of an        *)
(* artifact is of one write.  It is listed as long as it is there, unless   *)
(* the list raises, which only a sibling whose own last change broke off    *)
(* can cause: one torn manifest, or one workflow that is no UTF-8, hides    *)
(* all that is listed with it.  The exception is an artifact that was bytes *)
(* and is then put as text: get() goes on to return the bytes.              *)
AcknowledgedDataLasts ==
  \A o \in Objects \ damaged :
    /\ ~StaleBytes(o) => Read(o) = Expected(o)
    /\ IF ListRaises(o) THEN Siblings(o) \cap damaged # {}
       ELSE IsListed(o) <=> acked[o] # Nothing
===============================================================================
