---------------------------- MODULE GraphRunProofs ----------------------------
(***************************************************************************)
(* Theorems about GraphRun, for every set of valid workflows.               *)
(*                                                                         *)
(* The argument: at any time the nodes recorded so far (Done) are closed    *)
(* under dependencies, and every node with a recorded dependency is either  *)
(* recorded or in the current superstep (Active).  When a single task is    *)
(* applied, acyclicity gives a first node among those not recorded; having  *)
(* no other place to be, it is the task's node.  So the task's dependencies *)
(* were recorded, and a task with no successor is the last one.             *)
(***************************************************************************)
EXTENDS GraphRun, SequenceTheorems, TLAPS

Done == DOMAIN nodeStates
Active == pending \cup DOMAIN updates \cup interrupted

(* The tasks of a superstep are executing, ended or suspended.              *)
TasksDisjoint ==
  /\ pending \cap DOMAIN updates = {}
  /\ pending \cap interrupted = {}
  /\ interrupted \cap DOMAIN updates = {}

PhasesMeanWhatTheySay ==
  /\ phase = "ready" => Done = {} /\ Active = {} /\ resumeValue = NoAction
  /\ phase = "paused" => pending = {}
  /\ phase = "done" => Done = wf.nodes

Started == phase \in {"running", "paused"}

ClosedUnderDeps == \A n \in Done : wf.deps[n] \subseteq Done

EntryFirst ==
  Started => IF Done = {} THEN Active = {EntryNode(wf)} ELSE EntryNode(wf) \in Done

TriggeredIsActive ==
  Started => \A n \in wf.nodes : wf.deps[n] \cap Done # {} => n \in Done \cup Active

(* The strengthening of TypeOK and of the refinement.                       *)
IInv ==
  /\ TypeOK
  /\ wf \in Workflows
  /\ TasksDisjoint
  /\ PhasesMeanWhatTheySay
  /\ Active \cap Done = {}
  /\ ClosedUnderDeps
  /\ EntryFirst
  /\ TriggeredIsActive

-------------------------------------------------------------------------------
(* A valid workflow has one node without dependencies, its entry node.      *)
LEMMA EntryIsUnique ==
  ASSUME NEW w, ValidDsl(w)
  PROVE  /\ EntryNode(w) \in w.nodes
         /\ \A n \in w.nodes : w.deps[n] = {} <=> n = EntryNode(w)
BY DEF ValidDsl, Entries, EntryNode

(* No node of a valid workflow depends on itself.                           *)
LEMMA NoSelfDependency ==
  ASSUME NEW w, ValidDsl(w), NEW n \in w.nodes
  PROVE  n \notin w.deps[n]
<1>1. {n} \in SUBSET w.nodes /\ {n} # {}
  OBVIOUS
<1>2. PICK m \in {n} : w.deps[m] \cap {n} = {}
  BY <1>1 DEF ValidDsl, Acyclic
<1> QED
  BY <1>2

(* A task that is alone in its superstep has had all of its dependencies    *)
(* recorded, and is the last node exactly when it has no successor.         *)
LEMMA LoneTask ==
  ASSUME IInv, Started, NEW n \in wf.nodes, Active = {n}
  PROVE  /\ n \notin Done
         /\ wf.deps[n] \subseteq Done
         /\ Successors(wf, n) \cap (Done \cup {n}) = {}
         /\ Successors(wf, n) = {} <=> Done \cup {n} = wf.nodes
<1> USE DEF IInv
<1>0. ValidDsl(wf) /\ Done \subseteq wf.nodes /\ wf.deps \in [wf.nodes -> SUBSET wf.nodes]
  BY DEF TypeOK, Done, ValidDsl, IsDsl
<1>1. n \notin Done
  OBVIOUS
<1>2. ASSUME NEW y \in wf.nodes, y \notin Done, wf.deps[y] \subseteq Done
      PROVE  y = n
  <2>1. CASE wf.deps[y] = {}
    <3>1. y = EntryNode(wf)
      BY <1>0, <2>1, EntryIsUnique
    <3> QED
      BY <1>2, <3>1 DEF EntryFirst
  <2>2. CASE wf.deps[y] # {}
    <3>1. wf.deps[y] \cap Done # {}
      BY <1>2, <2>2
    <3> QED
      BY <1>2, <3>1 DEF TriggeredIsActive
  <2> QED
    BY <2>1, <2>2
<1>3. wf.deps[n] \subseteq Done
  <2> DEFINE T == wf.nodes \ Done
  <2>1. T \in SUBSET wf.nodes /\ T # {}
    BY <1>1
  <2>2. PICK y \in T : wf.deps[y] \cap T = {}
    BY <1>0, <2>1 DEF ValidDsl, Acyclic
  <2>3. y \in wf.nodes /\ y \notin Done /\ wf.deps[y] \subseteq Done
    BY <1>0, <2>2
  <2> QED
    BY <1>2, <2>3
<1>4. Successors(wf, n) \cap (Done \cup {n}) = {}
  <2>1. ASSUME NEW x \in Successors(wf, n), x \in Done
        PROVE  FALSE
    BY <1>1, <2>1 DEF Successors, ClosedUnderDeps
  <2>2. n \notin Successors(wf, n)
    BY <1>0, NoSelfDependency DEF Successors
  <2> QED
    BY <2>1, <2>2
<1>5. ASSUME Successors(wf, n) = {}
      PROVE  Done \cup {n} = wf.nodes
  <2> DEFINE T == wf.nodes \ (Done \cup {n})
  <2>1. SUFFICES ASSUME T # {} PROVE FALSE
    BY <1>0
  <2>2. T \in SUBSET wf.nodes
    OBVIOUS
  <2>3. PICK y \in T : wf.deps[y] \cap T = {}
    BY <1>0, <2>1, <2>2 DEF ValidDsl, Acyclic
  <2>4. wf.deps[y] \subseteq Done
    BY <1>0, <1>5, <2>3 DEF Successors
  <2> QED
    BY <1>2, <2>3, <2>4
<1>6. ASSUME Done \cup {n} = wf.nodes
      PROVE  Successors(wf, n) = {}
  BY <1>4, <1>6 DEF Successors
<1> QED
  BY <1>1, <1>3, <1>4, <1>5, <1>6

(* What ApplyUpdate applies is a lone task.                                 *)
LEMMA AppliedTaskIsAlone ==
  ASSUME IInv, NEW n \in wf.nodes, ApplyUpdate(n)
  PROVE  Started /\ Active = {n}
BY DEF ApplyUpdate, StepEnded, Active, Started

-------------------------------------------------------------------------------
(* The three ways a step can go, each used by several actions: a task ends, *)
(* the run crashes, the lone update is applied.                             *)
LEMMA EndTaskPreserves ==
  ASSUME IInv, NEW n \in pending, phase = "running", NEW u \in Updates,
         EndTask(n, u), pendingHitl' \in SUBSET wf.nodes
  PROVE  IInv'
<1> USE DEF IInv, EndTask, static, channels
<1>1. TypeOK'
  BY DEF TypeOK
<1>2. Active' = Active /\ Done' = Done /\ TasksDisjoint'
  BY DEF Active, Done, TasksDisjoint
<1>3. PhasesMeanWhatTheySay'
  BY <1>2 DEF PhasesMeanWhatTheySay
<1>4. ClosedUnderDeps' /\ EntryFirst' /\ TriggeredIsActive'
  BY <1>2 DEF ClosedUnderDeps, EntryFirst, TriggeredIsActive, Started
<1> QED
  BY <1>1, <1>2, <1>3, <1>4

(* A crash empties the superstep and keeps what was recorded.               *)
LEMMA CrashPreserves ==
  ASSUME IInv, CrashRun, pendingHitl' \in SUBSET wf.nodes
  PROVE  IInv'
<1> USE DEF IInv, CrashRun, static, channels
<1>1. TypeOK'
  BY DEF TypeOK, Empty, Phases
<1>2. Active' = {} /\ Done' = Done /\ TasksDisjoint' /\ ~Started'
  BY DEF Active, Done, TasksDisjoint, Empty, Started
<1>3. PhasesMeanWhatTheySay' /\ EntryFirst' /\ TriggeredIsActive'
  BY <1>2 DEF PhasesMeanWhatTheySay, EntryFirst, TriggeredIsActive
<1>4. ClosedUnderDeps'
  BY <1>2 DEF ClosedUnderDeps
<1> QED
  BY <1>1, <1>2, <1>3, <1>4

(* Applying the lone update records its node after its dependencies, and    *)
(* triggers exactly the nodes that depend on it.                            *)
LEMMA ApplyUpdatePreserves ==
  ASSUME IInv, NEW n \in wf.nodes, ApplyUpdate(n)
  PROVE  IInv' /\ Done' = Done \cup {n}
<1> USE DEF IInv, static
<1>1. Started /\ Active = {n}
  BY AppliedTaskIsAlone
<1>2. /\ n \notin Done
      /\ wf.deps[n] \subseteq Done
      /\ Successors(wf, n) \cap (Done \cup {n}) = {}
      /\ Successors(wf, n) = {} <=> Done \cup {n} = wf.nodes
  BY <1>1, LoneTask
<1>3. Done' = Done \cup {n} /\ Active' = Successors(wf, n) /\ wf' = wf
  BY DEF ApplyUpdate, NodeStatesWith, Done, Active, Empty, StepEnded
<1>4. TypeOK'
  <2>1. updates[n] \in Updates /\ n \in wf.nodes
    BY DEF TypeOK, ApplyUpdate
  <2>2. outputs' \in SUBSET (wf.nodes \cup {ErrorKey})
    BY <2>1 DEF TypeOK, ApplyUpdate, OutputsWith, Updates
  <2>3. artifacts' \in Seq(wf.nodes)
    <3>1. artifacts \in Seq(wf.nodes) /\ artifacts' = ArtifactsWith(n)
      BY DEF TypeOK, ApplyUpdate
    <3>2. Append(artifacts, n) \in Seq(wf.nodes)
      BY <3>1, AppendProperties
    <3> QED
      BY <3>1, <3>2 DEF ArtifactsWith
  <2>4. DOMAIN nodeStates' \subseteq wf.nodes
    BY <1>3 DEF TypeOK, Done
  <2>5. \A m \in DOMAIN nodeStates' : nodeStates'[m] \in NodeStates
    BY <2>1 DEF TypeOK, ApplyUpdate, NodeStatesWith, Updates
  <2>6. pending' \in SUBSET wf.nodes
    BY DEF ApplyUpdate, Successors
  <2> QED
    BY <2>2, <2>3, <2>4, <2>5, <2>6 DEF TypeOK, ApplyUpdate, Empty, Phases
<1>5. TasksDisjoint'
  BY DEF TasksDisjoint, ApplyUpdate, Empty, StepEnded
<1>6. PhasesMeanWhatTheySay'
  BY <1>2, <1>3 DEF PhasesMeanWhatTheySay, ApplyUpdate
<1>7. Active' \cap Done' = {}
  BY <1>2, <1>3
<1>8. ClosedUnderDeps'
  BY <1>2, <1>3 DEF ClosedUnderDeps
<1>9. EntryFirst'
  BY <1>1, <1>3 DEF EntryFirst
<1>10. TriggeredIsActive'
  BY <1>1, <1>3 DEF TriggeredIsActive, Successors
<1> QED
  BY <1>3, <1>4, <1>5, <1>6, <1>7, <1>8, <1>9, <1>10

(* A resumed run executes the interrupted task again, in the same           *)
(* superstep.                                                               *)
LEMMA ResumePreserves ==
  ASSUME IInv, NEW a \in HitlActions, Resume(a)
  PROVE  IInv' /\ Done' = Done
<1> USE DEF IInv, static, channels
<1>1. TypeOK'
  BY DEF TypeOK, Resume, Phases
<1>2. Active' = Active /\ Done' = Done /\ TasksDisjoint'
  BY DEF Active, Done, TasksDisjoint, Resume, PhasesMeanWhatTheySay
<1>3. PhasesMeanWhatTheySay' /\ ClosedUnderDeps' /\ EntryFirst' /\ TriggeredIsActive'
  BY <1>2 DEF PhasesMeanWhatTheySay, ClosedUnderDeps, EntryFirst, TriggeredIsActive,
              Started, Resume
<1> QED
  BY <1>1, <1>2, <1>3 DEF Resume

-------------------------------------------------------------------------------
EnabledGate(n) == wf.kind[n] = "HITL" /\ ~wf.disabled[n]

(* An update says the same in each channel it writes.                       *)
IsConsistent(u) ==
  /\ u.outputs = "error" <=> u.state.status = "failed"
  /\ u.artifacts = "append" <=> u.state.status = "succeeded"

(* What a task can do: end with a consistent update, which for an enabled   *)
(* gate carries the decision resumed with; crash the run; or be suspended.  *)
LEMMA TaskOutcomes ==
  ASSUME IInv, NEW n \in wf.nodes, TaskStep(n)
  PROVE  /\ phase = "running" /\ n \in pending
         /\ pendingHitl' \in SUBSET wf.nodes
         /\ \/ \E u \in Updates :
                 /\ EndTask(n, u) /\ IsConsistent(u)
                 /\ EnabledGate(n) => resumeValue # NoAction /\ u.state.action = resumeValue
            \/ CrashRun
            \/ GateInterrupts(n)
<1> USE DEF IsExecuting, IsConsistent, EnabledGate
<1>0. pendingHitl \in SUBSET wf.nodes /\ resumeValue \in HitlActions \cup {NoAction}
  BY DEF IInv, TypeOK
<1>1. CASE SkipDisabled(n)
  <2> DEFINE u == [state |-> [status |-> "skipped", action |-> NoAction],
                   artifacts |-> "copy", outputs |-> "keep"]
  <2>1. u \in Updates
    BY DEF Updates, NodeStates
  <2> QED
    BY <1>0, <1>1, <2>1 DEF SkipDisabled
<1>2. CASE ExecutorReturns(n)
  <2> DEFINE u == Succeeded(NoAction, "keep")
  <2>1. u \in Updates
    BY DEF Updates, NodeStates, Succeeded
  <2> QED
    BY <1>0, <1>2, <2>1 DEF ExecutorReturns, Succeeded
<1>3. CASE ExecutorFails(n)
  <2> DEFINE u == FailureUpdate(n)
  <2>1. u \in Updates
    BY DEF Updates, NodeStates, FailureUpdate, Failure
  <2> QED
    BY <1>0, <1>3, <2>1 DEF ExecutorFails, FailureUpdate, Failure
<1>4. CASE ExecutorRaises(n)
  BY <1>0, <1>4 DEF ExecutorRaises
<1>5. CASE GateInterrupts(n)
  BY <1>5 DEF GateInterrupts
<1>6. CASE GateDecides(n)
  <2> DEFINE u == DecisionUpdate(n)
  <2>1. u \in Updates
    BY <1>0 DEF Updates, NodeStates, DecisionUpdate, Succeeded
  <2> QED
    BY <1>0, <1>6, <2>1 DEF GateDecides, DecisionUpdate, Succeeded
<1>7. CASE RouterCrash(n)
  BY <1>0, <1>7 DEF RouterCrash
<1> QED
  BY <1>1, <1>2, <1>3, <1>4, <1>5, <1>6, <1>7 DEF TaskStep

(* A gate that interrupts moves from executing to suspended.                *)
LEMMA SuspensionPreserves ==
  ASSUME IInv, NEW n \in wf.nodes, GateInterrupts(n)
  PROVE  IInv' /\ Done' = Done
<1> USE DEF IInv, GateInterrupts, IsExecuting, static, channels
<1>1. TypeOK'
  BY DEF TypeOK
<1>2. Active' = Active /\ Done' = Done /\ TasksDisjoint'
  BY DEF Active, Done, TasksDisjoint
<1>3. PhasesMeanWhatTheySay' /\ ClosedUnderDeps' /\ EntryFirst' /\ TriggeredIsActive'
  BY <1>2 DEF PhasesMeanWhatTheySay, ClosedUnderDeps, EntryFirst, TriggeredIsActive, Started
<1> QED
  BY <1>1, <1>2, <1>3

(* A run that has not been invoked has recorded nothing and has no task.    *)
LEMMA InitEstablishes == Init => IInv
<1> SUFFICES ASSUME Init PROVE IInv
  OBVIOUS
<1>1. ValidDsl(wf)
  BY WorkflowsAssumption DEF Init
<1>2. TypeOK
  BY <1>1 DEF Init, TypeOK, Empty, Phases
<1> QED
  BY <1>2 DEF Init, IInv, TasksDisjoint, PhasesMeanWhatTheySay, ClosedUnderDeps,
              EntryFirst, TriggeredIsActive, Started, Active, Done, Empty

(* The invariant is inductive.                                              *)
LEMMA NextPreserves == IInv /\ [Next]_vars => IInv'
<1> SUFFICES ASSUME IInv, [Next]_vars PROVE IInv'
  OBVIOUS
<1>1. CASE Invoke
  <2> USE <1>1 DEF IInv, Invoke, static, channels
  <2>1. EntryNode(wf) \in wf.nodes
    BY EntryIsUnique DEF TypeOK
  <2>2. TypeOK'
    BY <2>1 DEF TypeOK, Phases
  <2>3. /\ pending' = {EntryNode(wf)} /\ updates' = updates /\ interrupted' = interrupted
        /\ DOMAIN updates = {} /\ interrupted = {} /\ Done = {} /\ Done' = {} /\ wf' = wf
    BY DEF PhasesMeanWhatTheySay, Active, Done
  <2>4. Active' = {EntryNode(wf)} /\ TasksDisjoint'
    BY <2>3 DEF Active, TasksDisjoint
  <2> QED
    BY <2>2, <2>3, <2>4 DEF PhasesMeanWhatTheySay, ClosedUnderDeps, EntryFirst,
                            TriggeredIsActive
<1>2. ASSUME NEW n \in wf.nodes, TaskStep(n)
      PROVE  IInv'
  <2>1. CASE CrashRun
    BY <1>2, <2>1, TaskOutcomes, CrashPreserves
  <2>2. CASE GateInterrupts(n)
    BY <2>2, SuspensionPreserves
  <2>3. ASSUME NEW u \in Updates, EndTask(n, u)
        PROVE  IInv'
    BY <1>2, <2>3, TaskOutcomes, EndTaskPreserves
  <2> QED
    BY <1>2, <2>1, <2>2, <2>3, TaskOutcomes
<1>3. CASE PauseRun
  <2> USE <1>3 DEF IInv, PauseRun, StepEnded, static, channels
  <2>1. TypeOK'
    BY DEF TypeOK, Phases
  <2>2. Active' = Active /\ Done' = Done /\ TasksDisjoint'
    BY DEF Active, Done, TasksDisjoint
  <2> QED
    BY <2>1, <2>2 DEF PhasesMeanWhatTheySay, ClosedUnderDeps, EntryFirst,
                      TriggeredIsActive, Started
<1>4. CASE ConflictingUpdates
  <2>1. CrashRun /\ pendingHitl' \in SUBSET wf.nodes
    BY <1>4 DEF ConflictingUpdates, IInv, TypeOK
  <2> QED
    BY <2>1, CrashPreserves
<1>5. ASSUME NEW n \in wf.nodes, ApplyUpdate(n)
      PROVE  IInv'
  BY <1>5, ApplyUpdatePreserves
<1>6. ASSUME NEW a \in HitlActions, Resume(a)
      PROVE  IInv'
  BY <1>6, ResumePreserves
<1>7. CASE UNCHANGED vars
  BY <1>7 DEF vars, static, channels, IInv, TypeOK, TasksDisjoint, PhasesMeanWhatTheySay,
              ClosedUnderDeps, EntryFirst, TriggeredIsActive, Started, Active, Done
<1> QED
  BY <1>1, <1>2, <1>3, <1>4, <1>5, <1>6, <1>7 DEF Next, EngineStep

(* Safety needs no fairness: what holds of Runs holds of Spec, and of every *)
(* specification whose steps are steps of the graph, as SdkRun's are.  The  *)
(* lemmas below are about Runs, the theorems after them about Spec.         *)
Runs == Init /\ [][Next]_vars

LEMMA SpecRuns == Spec => Runs
BY PTL DEF Spec, Runs

LEMMA InvarianceOfRuns == Runs => []IInv
BY InitEstablishes, NextPreserves, PTL DEF Runs

(* The invariant that the other theorems rest on: compiler.py and its       *)
(* engine never lose track of a node that a recorded node has triggered.    *)
THEOREM Invariance == Spec => []IInv
BY InvarianceOfRuns, SpecRuns

LEMMA TypeCorrectOfRuns == Runs => []TypeOK
<1>1. IInv => TypeOK
  BY DEF IInv
<1> QED
  BY <1>1, InvarianceOfRuns, PTL

(* Every variable keeps its type: a task, an update or a recorded state is  *)
(* always one of a node of the running workflow.                            *)
THEOREM TypeCorrect == Spec => []TypeOK
BY TypeCorrectOfRuns, SpecRuns

-------------------------------------------------------------------------------
(* What one step does to the record of the run, and nothing else does: a    *)
(* node is recorded with its update, the run crashes, or the record stays.  *)
LEMMA StepEffect ==
  ASSUME IInv, [Next]_vars
  PROVE  /\ wf' = wf
         /\ \/ \E n \in wf.nodes : ApplyUpdate(n)
            \/ /\ phase = "running" /\ CrashRun
            \/ /\ UNCHANGED channels
               /\ phase \in {"done", "crashed"} => phase' = phase
               /\ phase \notin {"done", "crashed"} => phase' \notin {"done", "crashed"}
<1> USE DEF static, channels
<1>1. CASE Invoke
  BY <1>1 DEF Invoke
<1>2. ASSUME NEW n \in wf.nodes, TaskStep(n)
      PROVE  wf' = wf /\ phase = "running" /\ (CrashRun \/ UNCHANGED <<channels, phase>>)
  <2>1. phase = "running" /\ (CrashRun \/ GateInterrupts(n) \/ \E u \in Updates : EndTask(n, u))
    BY <1>2, TaskOutcomes
  <2> QED
    BY <2>1 DEF CrashRun, GateInterrupts, EndTask
<1>3. CASE PauseRun
  BY <1>3 DEF PauseRun, StepEnded
<1>4. CASE ConflictingUpdates
  BY <1>4 DEF ConflictingUpdates, StepEnded, CrashRun
<1>5. ASSUME NEW n \in wf.nodes, ApplyUpdate(n)
      PROVE  wf' = wf
  BY <1>5 DEF ApplyUpdate
<1>6. ASSUME NEW a \in HitlActions, Resume(a)
      PROVE  wf' = wf /\ UNCHANGED channels /\ phase = "paused" /\ phase' = "running"
  BY <1>6 DEF Resume
<1>7. CASE UNCHANGED vars
  BY <1>7 DEF vars
<1> QED
  BY <1>1, <1>2, <1>3, <1>4, <1>5, <1>6, <1>7 DEF Next, EngineStep

LEMMA RefinementOfRuns == Runs => DagSpec
<1>1. Init => Dag!Init
  BY DEF Init, Dag!Init, Empty
<1>2. IInv /\ [Next]_vars => [Dag!Next]_(Dag!vars)
  <2> SUFFICES ASSUME IInv, [Next]_vars PROVE [Dag!Next]_(Dag!vars)
    OBVIOUS
  <2>1. ASSUME NEW n \in wf.nodes, ApplyUpdate(n)
        PROVE  Dag!Record(n)
    <3>1. Started /\ Active = {n}
      BY <2>1, AppliedTaskIsAlone
    <3>2. /\ n \notin Done /\ wf.deps[n] \subseteq Done
          /\ Successors(wf, n) = {} <=> Done \cup {n} = wf.nodes
      BY <3>1, LoneTask
    <3>3. Done' = Done \cup {n}
      BY <2>1, ApplyUpdatePreserves
    <3> QED
      BY <2>1, <3>2, <3>3 DEF Dag!Record, Done, ApplyUpdate, StepEnded, static
  <2>2. ASSUME phase = "running", CrashRun
        PROVE  Dag!Abort
    BY <2>2 DEF Dag!Abort, CrashRun, channels, static
  <2> QED
    BY <2>1, <2>2, StepEffect DEF Dag!Next, Dag!vars, channels
<1> QED
  BY <1>1, <1>2, InvarianceOfRuns, PTL DEF Runs, DagSpec, Dag!Spec

(* A run of the compiled graph is a run of the dependency graph: nodes are  *)
(* recorded once each, after their dependencies, and a run that ends        *)
(* without a crash has recorded all of them.                                *)
THEOREM Refinement == Spec => DagSpec
BY RefinementOfRuns, SpecRuns

LEMMA RecordsStayOfRuns == Runs => RecordsAreFinal
<1>1. ASSUME IInv, [Next]_vars, NEW m \in DOMAIN nodeStates
      PROVE  m \in DOMAIN nodeStates' /\ nodeStates'[m] = nodeStates[m]
  <2>1. ASSUME NEW n \in wf.nodes, ApplyUpdate(n)
        PROVE  m \in DOMAIN nodeStates' /\ nodeStates'[m] = nodeStates[m]
    <3>1. m # n
      BY <1>1, <2>1, AppliedTaskIsAlone, LoneTask DEF Done
    <3> QED
      BY <1>1, <2>1, <3>1 DEF ApplyUpdate, NodeStatesWith
  <2> QED
    BY <1>1, <2>1, StepEffect DEF CrashRun, channels
<1>2. IInv /\ [Next]_vars => RecordsKept
  BY <1>1 DEF RecordsKept
<1> QED
  BY <1>2, InvarianceOfRuns, PTL DEF Runs, RecordsAreFinal

(* What has been recorded of a node is never rewritten or lost, although    *)
(* every task rewrites the whole of node_states.                            *)
THEOREM RecordsStay == Spec => RecordsAreFinal
BY RecordsStayOfRuns, SpecRuns

-------------------------------------------------------------------------------
(* The updates that are waiting to be applied are consistent.               *)
UpdatesConsistent == \A n \in DOMAIN updates : IsConsistent(updates[n])

(* Only a task that ends adds an update, and each way to end builds a       *)
(* consistent one.                                                          *)
LEMMA UpdatesStayConsistent ==
  ASSUME IInv, UpdatesConsistent, [Next]_vars
  PROVE  UpdatesConsistent'
<1> USE DEF UpdatesConsistent, static
<1>1. CASE Invoke
  BY <1>1 DEF Invoke, IsConsistent
<1>2. ASSUME NEW n \in wf.nodes, TaskStep(n)
      PROVE  UpdatesConsistent'
  <2>1. CASE CrashRun
    BY <2>1 DEF CrashRun, Empty, IsConsistent
  <2>2. CASE GateInterrupts(n)
    BY <2>2 DEF GateInterrupts, IsConsistent
  <2>3. ASSUME NEW u \in Updates, EndTask(n, u), IsConsistent(u)
        PROVE  UpdatesConsistent'
    BY <2>3 DEF EndTask, IsConsistent
  <2> QED
    BY <1>2, <2>1, <2>2, <2>3, TaskOutcomes
<1>3. CASE PauseRun
  BY <1>3 DEF PauseRun, IsConsistent
<1>4. CASE ConflictingUpdates
  BY <1>4 DEF ConflictingUpdates, CrashRun, Empty, IsConsistent
<1>5. ASSUME NEW n \in wf.nodes, ApplyUpdate(n)
      PROVE  UpdatesConsistent'
  BY <1>5 DEF ApplyUpdate, Empty, IsConsistent
<1>6. ASSUME NEW a \in HitlActions, Resume(a)
      PROVE  UpdatesConsistent'
  BY <1>6 DEF Resume, IsConsistent
<1>7. CASE UNCHANGED vars
  BY <1>7 DEF vars, IsConsistent
<1> QED
  BY <1>1, <1>2, <1>3, <1>4, <1>5, <1>6, <1>7 DEF Next, EngineStep

LEMMA ConsistencyOfRuns == Runs => []UpdatesConsistent
<1>1. Init => UpdatesConsistent
  BY DEF Init, UpdatesConsistent, Empty
<1>2. IInv /\ UpdatesConsistent /\ [Next]_vars => UpdatesConsistent'
  BY UpdatesStayConsistent
<1> QED
  BY <1>1, <1>2, InvarianceOfRuns, PTL DEF Runs

(* At any time the updates of a superstep report a failure exactly when     *)
(* they carry an error, and an artifact exactly when they report success.   *)
THEOREM Consistency == Spec => []UpdatesConsistent
BY ConsistencyOfRuns, SpecRuns

(* No node is called like the key of the errors: WorkflowNode.id may be any *)
(* string, and nothing in the code excludes this one.                       *)
NoNodeIsCalledError == \A w \in Workflows : ErrorKey \notin w.nodes

LEMMA ErrorsReachOfRuns ==
  ASSUME NoNodeIsCalledError
  PROVE  Runs => []ErrorsAreReported
<1>1. Init => ErrorsAreReported
  BY DEF Init, ErrorsAreReported, Empty
<1>2. ASSUME IInv, UpdatesConsistent, ErrorsAreReported, [Next]_vars
      PROVE  ErrorsAreReported'
  <2>1. ASSUME NEW n \in wf.nodes, ApplyUpdate(n)
        PROVE  ErrorsAreReported'
    <3>1. n \notin DOMAIN nodeStates
      BY <1>2, <2>1, AppliedTaskIsAlone, LoneTask DEF Done
    <3>2. nodeStates' = [m \in DOMAIN nodeStates \cup {n} |->
                           IF m = n THEN updates[n].state ELSE nodeStates[m]]
      BY <2>1 DEF ApplyUpdate, NodeStatesWith
    <3>3. ErrorKey \in outputs' <=> ErrorKey \in outputs \/ updates[n].outputs = "error"
      BY <1>2, <2>1 DEF ApplyUpdate, OutputsWith, NoNodeIsCalledError, IInv
    <3>4. updates[n].outputs = "error" <=> updates[n].state.status = "failed"
      BY <1>2, <2>1 DEF UpdatesConsistent, IsConsistent, ApplyUpdate
    <3> QED
      BY <1>2, <3>1, <3>2, <3>3, <3>4 DEF ErrorsAreReported, Status
  <2> QED
    BY <1>2, <2>1, StepEffect DEF ErrorsAreReported, Status, CrashRun, channels
<1>3. IInv /\ UpdatesConsistent /\ ErrorsAreReported /\ [Next]_vars => ErrorsAreReported'
  BY <1>2
<1> QED
  BY <1>1, <1>3, InvarianceOfRuns, ConsistencyOfRuns, PTL DEF Runs

(* Every failure that node_states records is announced in outputs, and      *)
(* nothing is announced without a failure.                                  *)
THEOREM ErrorsReach ==
  ASSUME NoNodeIsCalledError
  PROVE  Spec => []ErrorsAreReported
BY ErrorsReachOfRuns, SpecRuns

LEMMA ArtifactsReachOfRuns == Runs => []NoArtifactLost
<1>1. Init => NoArtifactLost
  BY DEF Init, NoArtifactLost, Empty, Range
<1>2. ASSUME IInv, UpdatesConsistent, NoArtifactLost, [Next]_vars
      PROVE  NoArtifactLost'
  <2>1. ASSUME NEW n \in wf.nodes, ApplyUpdate(n)
        PROVE  NoArtifactLost'
    <3>1. n \notin DOMAIN nodeStates
      BY <1>2, <2>1, AppliedTaskIsAlone, LoneTask DEF Done
    <3>2. nodeStates' = [m \in DOMAIN nodeStates \cup {n} |->
                           IF m = n THEN updates[n].state ELSE nodeStates[m]]
      BY <2>1 DEF ApplyUpdate, NodeStatesWith
    <3>3. updates[n].artifacts = "append" <=> updates[n].state.status = "succeeded"
      BY <1>2, <2>1 DEF UpdatesConsistent, IsConsistent, ApplyUpdate
    <3>4. artifacts \in Seq(wf.nodes)
      BY <1>2 DEF IInv, TypeOK
    <3> DEFINE good == {m \in DOMAIN nodeStates : Status(m) = "succeeded"}
    <3>5. good = Range(artifacts) /\ n \notin good
      BY <1>2, <3>1 DEF NoArtifactLost
    <3>6. CASE updates[n].artifacts = "append"
      <4>1. artifacts' = Append(artifacts, n)
        BY <2>1, <3>6 DEF ApplyUpdate, ArtifactsWith
      <4>2. /\ DOMAIN artifacts' = DOMAIN artifacts \cup {Len(artifacts) + 1}
            /\ Len(artifacts) + 1 \notin DOMAIN artifacts
            /\ artifacts'[Len(artifacts) + 1] = n
            /\ \A i \in DOMAIN artifacts : artifacts'[i] = artifacts[i]
        BY <3>4, <4>1
      <4>3. Range(artifacts') = Range(artifacts) \cup {n}
        BY <4>2 DEF Range
      <4>4. {m \in DOMAIN nodeStates' : nodeStates'[m].status = "succeeded"} = good \cup {n}
        BY <3>1, <3>2, <3>3, <3>6 DEF Status
      <4>5. \A i \in DOMAIN artifacts : artifacts[i] # n
        BY <3>5 DEF Range
      <4> QED
        BY <1>2, <3>5, <4>2, <4>3, <4>4, <4>5 DEF NoArtifactLost, Status
    <3>7. CASE updates[n].artifacts # "append"
      <4>1. artifacts' = artifacts
        BY <2>1, <3>7 DEF ApplyUpdate, ArtifactsWith
      <4>2. {m \in DOMAIN nodeStates' : nodeStates'[m].status = "succeeded"} = good
        BY <3>1, <3>2, <3>3, <3>7 DEF Status
      <4> QED
        BY <1>2, <3>5, <4>1, <4>2 DEF NoArtifactLost, Status
    <3> QED
      BY <3>6, <3>7
  <2> QED
    BY <1>2, <2>1, StepEffect DEF NoArtifactLost, Status, CrashRun, channels
<1>3. IInv /\ UpdatesConsistent /\ NoArtifactLost /\ [Next]_vars => NoArtifactLost'
  BY <1>2
<1> QED
  BY <1>1, <1>3, InvarianceOfRuns, ConsistencyOfRuns, PTL DEF Runs

(* No contribution to the artifacts is lost or doubled, although every task *)
(* writes the whole list from what it was given.                            *)
THEOREM ArtifactsReach == Spec => []NoArtifactLost
BY ArtifactsReachOfRuns, SpecRuns

-------------------------------------------------------------------------------
(* The decision of a gate is the one given for it from the moment the run   *)
(* is resumed: while its task executes again, and while its update waits.   *)
DecisionHeld ==
  /\ resumeValue # NoAction =>
       \A n \in pending : n \in DOMAIN given /\ given[n] = resumeValue
  /\ \A n \in DOMAIN updates :
       EnabledGate(n) => n \in DOMAIN given /\ updates[n].state.action = given[n]
  /\ DecisionsReachTheirGate

(* The decision being delivered is kept by every step, up to the one that   *)
(* records the gate.                                                        *)
LEMMA DecisionStaysHeld ==
  ASSUME IInv, DecisionHeld, [Next]_vars
  PROVE  DecisionHeld'
<1> USE DEF DecisionHeld, DecisionsReachTheirGate, EnabledGate, static, channels
<1>1. CASE Invoke
  BY <1>1 DEF Invoke, IInv, PhasesMeanWhatTheySay
<1>2. ASSUME NEW n \in wf.nodes, TaskStep(n)
      PROVE  DecisionHeld'
  <2>1. CASE CrashRun
    BY <2>1 DEF CrashRun, Empty
  <2>2. CASE GateInterrupts(n)
    BY <2>2 DEF GateInterrupts
  <2>3. ASSUME NEW u \in Updates, EndTask(n, u),
               EnabledGate(n) => resumeValue # NoAction /\ u.state.action = resumeValue
        PROVE  DecisionHeld'
    <3>1. n \in pending
      BY <1>2, TaskOutcomes
    <3> QED
      BY <2>3, <3>1 DEF EndTask
  <2> QED
    BY <1>2, <2>1, <2>2, <2>3, TaskOutcomes
<1>3. CASE PauseRun
  BY <1>3 DEF PauseRun
<1>4. CASE ConflictingUpdates
  BY <1>4 DEF ConflictingUpdates, CrashRun, Empty
<1>5. ASSUME NEW n \in wf.nodes, ApplyUpdate(n)
      PROVE  DecisionHeld'
  BY <1>5 DEF ApplyUpdate, NodeStatesWith, Empty
<1>6. ASSUME NEW a \in HitlActions, Resume(a)
      PROVE  DecisionHeld'
  <2>1. \A n \in interrupted : n \notin DOMAIN updates /\ n \notin DOMAIN nodeStates
    BY DEF IInv, TasksDisjoint, Active, Done
  <2> QED
    BY <1>6, <2>1 DEF Resume
<1>7. CASE UNCHANGED vars
  BY <1>7 DEF vars
<1> QED
  BY <1>1, <1>2, <1>3, <1>4, <1>5, <1>6, <1>7 DEF Next, EngineStep

LEMMA DecisionsArriveOfRuns == Runs => []DecisionsReachTheirGate
<1>1. Init => DecisionHeld
  BY DEF Init, DecisionHeld, DecisionsReachTheirGate, Empty
<1>2. IInv /\ DecisionHeld /\ [Next]_vars => DecisionHeld'
  BY DecisionStaysHeld
<1>3. DecisionHeld => DecisionsReachTheirGate
  BY DEF DecisionHeld
<1> QED
  BY <1>1, <1>2, <1>3, InvarianceOfRuns, PTL DEF Runs

(* The decision recorded for an enabled gate is the one a person gave for   *)
(* that gate, not one left over from another gate or from a first run of    *)
(* the task.                                                                *)
THEOREM DecisionsArrive == Spec => []DecisionsReachTheirGate
BY DecisionsArriveOfRuns, SpecRuns

===============================================================================
