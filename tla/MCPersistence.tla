---------------------------- MODULE MCPersistence -----------------------------
(***************************************************************************)
(* Tasks of one process that dies at most once.  The files, the rows of the *)
(* table and the workspace with its zips do not touch each other, so a      *)
(* behaviour is followed for as long as it uses one of the three, and by    *)
(* one task only where that one is not the table.                           *)
(***************************************************************************)
EXTENDS Persistence, TLC

FilesUnused == acked = [o \in Objects |-> Nothing] /\ damaged = {}

TableUnused == kv.session = NoSession /\ kv.paused = Absent

WorkspaceUnused ==
  /\ Workspace(disk) = NoRow /\ zips = {} /\ ~processes
  /\ \A t \in Tasks : task[t].state # "zipping"

OneTask == Cardinality({t \in Tasks : task[t].state # "new"}) <= 1

OneOfThem ==
  \/ TableUnused /\ WorkspaceUnused /\ OneTask
  \/ FilesUnused /\ WorkspaceUnused
  \/ FilesUnused /\ TableUnused /\ OneTask

Alike == Permutations(Tasks) \cup Permutations(Reports)
===============================================================================
