------------------------------- MODULE Workflow -------------------------------
(***************************************************************************)
(* The static side of a run: a workflow as WorkflowDSL holds it once        *)
(* _validate has accepted it, and the graph the compiler derives from it.   *)
(*                                                                         *)
(* A workflow is a record over a set of node identifiers.  Only what the    *)
(* control flow of a run depends on is kept: the dependencies, whether the  *)
(* node is a human gate, whether it is disabled, whether it carries a       *)
(* condition, its error policy, and whether a gate names a reject branch.   *)
(* Names, versions, configurations and templates are not.                   *)
(***************************************************************************)
EXTENDS Naturals, FiniteSets

(* ErrorPolicy.type: the node wrapper distinguishes "skip" from the rest.   *)
ErrorPolicies == {"abort", "retry", "skip", "fallback_branch", "delegate_replan"}

(* The twelve executor types other than HITL only return a result or raise. *)
NodeKinds == {"HITL", "executor"}

IsDsl(w) ==
  /\ DOMAIN w = {"nodes", "deps", "kind", "disabled", "conditional", "onError",
                 "rejectBranch"}
  /\ IsFiniteSet(w.nodes)
  /\ w.deps \in [w.nodes -> SUBSET w.nodes]
  /\ w.kind \in [w.nodes -> NodeKinds]
  /\ w.disabled \in [w.nodes -> BOOLEAN]
  /\ w.conditional \in [w.nodes -> BOOLEAN]
  /\ w.onError \in [w.nodes -> ErrorPolicies]
  /\ w.rejectBranch \in [w.nodes -> BOOLEAN]

(* Every non-empty set of nodes has a member that depends on none of them:  *)
(* for a finite graph, the absence of a dependency cycle.                   *)
Acyclic(nodes, deps) ==
  \A T \in SUBSET nodes : T # {} => \E n \in T : deps[n] \cap T = {}

Entries(w) == {n \in w.nodes : w.deps[n] = {}}

(* What WorkflowDSL._validate lets through.                                 *)
ValidDsl(w) ==
  /\ IsDsl(w)
  /\ Acyclic(w.nodes, w.deps)
  /\ \E e \in w.nodes : Entries(w) = {e}

EntryNode(w) == CHOOSE n \in w.nodes : w.deps[n] = {}

FirstSuccessor(w, n) ==  \* mutant: the loop ends at the first match
  LET found == {m \in w.nodes : n \in w.deps[m]}
  IN  IF found = {} THEN {} ELSE {CHOOSE m \in found : TRUE}

Successors(w, n) == {m \in w.nodes : n \in w.deps[m]}

ExitNodes(w) == {n \in w.nodes : Successors(w, n) = {}}
===============================================================================
