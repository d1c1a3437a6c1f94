------------------------------ MODULE MCSdkRun --------------------------------
(***************************************************************************)
(* Workflows for TLC: every acyclic single-entry shape over three nodes     *)
(* with every assignment of the profiles below, and some over four nodes    *)
(* with fewer profiles.                                                     *)
(* Nodes are numbered in a topological order, which loses no shape.         *)
(***************************************************************************)
EXTENDS SdkRun, TLC

Profile(kind, off, cond, policy, branch) ==
  [kind |-> kind, disabled |-> off, conditional |-> cond, onError |-> policy,
   rejectBranch |-> branch]

Work     == Profile("executor", FALSE, FALSE, "abort", FALSE)
Lenient  == Profile("executor", FALSE, FALSE, "skip", FALSE)
Off      == Profile("executor", TRUE, FALSE, "abort", FALSE)
OffCond  == Profile("executor", TRUE, TRUE, "abort", FALSE)
Gate     == Profile("HITL", FALSE, FALSE, "abort", FALSE)
GateCond == Profile("HITL", FALSE, TRUE, "retry", TRUE)

n1 == "n1"
n2 == "n2"
n3 == "n3"
n4 == "n4"
NonEmpty(S) == SUBSET S \ {{}}

(* The dependencies of a workflow; a node only depends on earlier ones.     *)
Shapes3 ==
  {(n1 :> {}) @@ (n2 :> {n1}) @@ (n3 :> s) : s \in NonEmpty({n1, n2})}

Chain2 == (n1 :> {}) @@ (n2 :> {n1})

(* The diamond, the chain, and a join behind a skip edge.                   *)
Shapes4 ==
  {Chain2 @@ (n3 :> {n1}) @@ (n4 :> {n2, n3}),
   Chain2 @@ (n3 :> {n2}) @@ (n4 :> {n3}),
   Chain2 @@ (n3 :> {n2}) @@ (n4 :> {n1, n3})}

Dsls(shapes, profiles) ==
  {[nodes |-> DOMAIN deps, deps |-> deps,
    kind |-> [n \in DOMAIN deps |-> p[n].kind],
    disabled |-> [n \in DOMAIN deps |-> p[n].disabled],
    conditional |-> [n \in DOMAIN deps |-> p[n].conditional],
    onError |-> [n \in DOMAIN deps |-> p[n].onError],
    rejectBranch |-> [n \in DOMAIN deps |-> p[n].rejectBranch]] :
      deps \in shapes, p \in [UNION {DOMAIN d : d \in shapes} -> profiles]}

MCWorkflows ==
  Dsls(Shapes3, {Work, Lenient, Off, OffCond, Gate, GateCond}) \cup Dsls(Shapes4, {Work, Gate})

(* Enough for the counterexamples: a fan-out, a skip edge, a rejected gate. *)
MCFewWorkflows == Dsls(Shapes3, {Work, OffCond, Gate})
===============================================================================
