----------------------------- MODULE DagExecution -----------------------------
(***************************************************************************)
(* What running a workflow promises, with the engine left out: nodes are    *)
(* recorded one at a time, each at most once and only after everything it   *)
(* depends on has been recorded, and a run that ends normally has recorded  *)
(* every node of the workflow.  A run may also end early, by an error.      *)
(***************************************************************************)
EXTENDS Workflow

CONSTANT Workflows

VARIABLES
  wf,      \* the workflow being run
  done,    \* the nodes whose outcome has been recorded
  over     \* "no", "finished" or "aborted"

vars == <<wf, done, over>>

TypeOK ==
  /\ wf \in Workflows
  /\ done \in SUBSET wf.nodes
  /\ over \in {"no", "finished", "aborted"}

Init ==
  /\ wf \in Workflows
  /\ done = {}
  /\ over = "no"

Record(n) ==
  /\ over = "no"
  /\ n \notin done
  /\ wf.deps[n] \subseteq done
  /\ done' = done \cup {n}
  /\ over' = IF done' = wf.nodes THEN "finished" ELSE "no"
  /\ UNCHANGED wf

Abort ==
  /\ over = "no"
  /\ over' = "aborted"
  /\ UNCHANGED <<wf, done>>

Next == (\E n \in wf.nodes : Record(n)) \/ Abort

Spec == Init /\ [][Next]_vars
===============================================================================
