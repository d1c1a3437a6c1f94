------------------------------- MODULE GraphRun -------------------------------
(***************************************************************************)
(* One run of a compiled workflow: the node wrapper of the compiler         *)
(* (orchestration/compiler.py) and the HITL executor (nodes/control.py)     *)
(* driven by LangGraph, the external engine, in supersteps.                 *)
(*                                                                         *)
(* A superstep starts a task for every triggered node.  The tasks run       *)
(* concurrently and all see the channels as they were when the step began;  *)
(* their updates are kept aside until every task has ended, and are applied *)
(* together.  node_states, outputs, artifacts and memory_ops have no        *)
(* reducer (core/state.py), and such a channel accepts one update per step. *)
(***************************************************************************)
EXTENDS Workflow, Sequences, Functions

CONSTANT Workflows  \* the workflows a run may be started on

ASSUME WorkflowsAssumption == \A w \in Workflows : ValidDsl(w)

HitlActions == {"approve", "edit", "reject", "reroute"}
NoAction == "no action"

(* Keys of the outputs channel: the node identifiers and "_error".          *)
ErrorKey == "_error"

(* NodeState: its status, and the decision a gate writes to its outputs.    *)
NodeStates == [status : {"succeeded", "failed", "skipped"},
               action : HitlActions \cup {NoAction}]

VARIABLES
  wf,            \* the workflow
  checkpointed,  \* was its graph compiled with a checkpointer?
  phase,         \* of the engine: ready, running, paused, done, crashed
  pending,       \* tasks of the current superstep that are executing
  updates,       \* updates of the tasks of this superstep that have ended
  interrupted,   \* tasks of this superstep suspended in interrupt()
  resumeValue,   \* decision handed over by Command(resume=...), or NoAction
  nodeStates,    \* channel node_states
  outputs,       \* channel outputs: the set of its keys
  artifacts,     \* channel artifacts: the nodes whose results (which may add
                 \* nothing) have been put together in it, in order
  pendingHitl,   \* ctx.state.pending_hitl: the gate last emitted, if any
  given          \* history: the decision people gave for each gate

channels == <<nodeStates, outputs, artifacts>>
static == <<wf, checkpointed>>
vars == <<static, phase, pending, updates, interrupted, resumeValue, channels, pendingHitl, given>>

(* An update names the channels it writes: every update writes node_states; *)
(* artifacts and outputs only when the returned dict has that key.          *)
Updates == [state : NodeStates, artifacts : {"keep", "copy", "append"},
            outputs : {"keep", "result", "error"}]

Phases == {"ready", "running", "paused", "done", "crashed"}

TypeOK ==
  /\ ValidDsl(wf)
  /\ checkpointed \in BOOLEAN
  /\ phase \in Phases
  /\ pending \in SUBSET wf.nodes
  /\ DOMAIN updates \subseteq wf.nodes
  /\ \A n \in DOMAIN updates : updates[n] \in Updates
  /\ interrupted \in SUBSET wf.nodes
  /\ resumeValue \in HitlActions \cup {NoAction}
  /\ DOMAIN nodeStates \subseteq wf.nodes
  /\ \A n \in DOMAIN nodeStates : nodeStates[n] \in NodeStates
  /\ outputs \in SUBSET (wf.nodes \cup {ErrorKey})
  /\ artifacts \in Seq(wf.nodes)
  /\ pendingHitl \in SUBSET wf.nodes
  /\ DOMAIN given \subseteq wf.nodes
  /\ \A n \in DOMAIN given : given[n] \in HitlActions

Empty == [n \in {} |-> {}]

Init ==
  /\ wf \in Workflows
  /\ checkpointed \in BOOLEAN
  /\ phase = "ready"
  /\ pending = {} /\ interrupted = {} /\ updates = Empty
  /\ resumeValue = NoAction
  /\ nodeStates = Empty /\ outputs = {} /\ artifacts = <<>>
  /\ pendingHitl = {}
  /\ given = Empty

(***************************************************************************)
(* The engine starts at the entry node.                                     *)
(***************************************************************************)
Invoke ==
  /\ phase = "ready"
  /\ phase' = "running"
  /\ pending' = {EntryNode(wf)}
  /\ UNCHANGED <<static, updates, interrupted, resumeValue, channels, pendingHitl, given>>

(***************************************************************************)
(* The router the compiler attaches to a conditional node returns "" on     *)
(* every path, and "" is no key of the path map, which has one key for each *)
(* successor: the lookup raises, in the node's task, whatever the node did. *)
(* With no successors the map is empty and the result is not looked up.     *)
(***************************************************************************)
RouterRaises(n) == wf.conditional[n] /\ Successors(wf, n) # {}

(* A task ends, leaving update u to be applied when the superstep ends.     *)
EndTask(n, u) ==
  /\ ~RouterRaises(n)
  /\ pending' = pending \ {n}
  /\ updates' = [m \in DOMAIN updates \cup {n} |-> IF m = n THEN u ELSE updates[m]]
  /\ UNCHANGED <<static, phase, interrupted, resumeValue, channels, given>>

(* An exception that leaves a task ends the run: the other tasks are        *)
(* cancelled and no update of this superstep is applied.                    *)
CrashRun ==
  /\ phase' = "crashed"
  /\ pending' = {} /\ interrupted' = {} /\ updates' = Empty
  /\ resumeValue' = NoAction
  /\ UNCHANGED <<static, channels, given>>

IsExecuting(n) == phase = "running" /\ n \in pending

Succeeded(action, outs) ==
  [state |-> [status |-> "succeeded", action |-> action],
   artifacts |-> "append", outputs |-> outs]

(***************************************************************************)
(* _node_fn, by what the node and its executor do.                          *)
(***************************************************************************)
SkipDisabledUnended(n) ==  \* mutant: the status is left as it was set at the start
  /\ IsExecuting(n) /\ wf.disabled[n]
  /\ EndTask(n, [state |-> [status |-> "running", action |-> NoAction],
                 artifacts |-> "copy", outputs |-> "keep"])
  /\ UNCHANGED pendingHitl

SkipDisabled(n) ==
  /\ IsExecuting(n) /\ wf.disabled[n]
  /\ EndTask(n, [state |-> [status |-> "skipped", action |-> NoAction],
                 artifacts |-> "copy", outputs |-> "keep"])
  /\ UNCHANGED pendingHitl

ExecutorReturns(n) ==
  /\ IsExecuting(n) /\ ~wf.disabled[n] /\ wf.kind[n] = "executor"
  /\ EndTask(n, Succeeded(NoAction, "keep"))
  /\ UNCHANGED pendingHitl

Failure(status, outs) ==
  [state |-> [status |-> status, action |-> NoAction], artifacts |-> "keep", outputs |-> outs]

(* The except HanflowError clause: only the skip policy changes what it does. *)
SilentFailureUpdate(n) ==  \* mutant: the error does not reach outputs
  Failure(IF wf.onError[n] = "skip" THEN "skipped" ELSE "failed", "keep")

FailureUpdate(n) ==
  IF wf.onError[n] = "skip" THEN Failure("skipped", "keep") ELSE Failure("failed", "error")

ExecutorFails(n) ==
  /\ IsExecuting(n) /\ ~wf.disabled[n] /\ wf.kind[n] = "executor"
  /\ EndTask(n, FailureUpdate(n))
  /\ UNCHANGED pendingHitl

(* Any other exception (a KeyError for an unknown store, an ExprError ...)  *)
(* is not caught by the wrapper.                                            *)
ExecutorRaises(n) ==
  /\ IsExecuting(n) /\ ~wf.disabled[n] /\ wf.kind[n] = "executor"
  /\ CrashRun
  /\ UNCHANGED pendingHitl

(* HITLExecutor.run: emit the payload, then interrupt().                    *)
GateInterrupts(n) ==
  /\ IsExecuting(n) /\ ~wf.disabled[n] /\ wf.kind[n] = "HITL"
  /\ resumeValue = NoAction
  /\ pendingHitl' = {n}
  /\ pending' = pending \ {n}
  /\ interrupted' = interrupted \cup {n}
  /\ UNCHANGED <<static, phase, updates, resumeValue, channels, given>>

(* Run again after Command(resume=...), interrupt() returns the decision;   *)
(* only a reject without a reject_branch yields NextAction "abort", and of  *)
(* the NextActions only "abort" is looked at: it writes outputs.            *)
DefaultDecision(n) == Succeeded("approve", "keep")  \* mutant: the default of get()

DecisionUpdate(n) ==
  Succeeded(resumeValue,
            IF resumeValue = "reject" /\ ~wf.rejectBranch[n] THEN "result" ELSE "keep")

GateDecides(n) ==
  /\ IsExecuting(n) /\ ~wf.disabled[n] /\ wf.kind[n] = "HITL"
  /\ resumeValue # NoAction
  /\ pendingHitl' = {n}
  /\ EndTask(n, DecisionUpdate(n))

(* A task whose node has a raising router ends by the router's exception    *)
(* once the wrapper has returned, however the executor fared.               *)
RouterCrash(n) ==
  /\ IsExecuting(n) /\ RouterRaises(n)
  /\ wf.kind[n] = "HITL" /\ ~wf.disabled[n] => resumeValue # NoAction
  /\ CrashRun
  /\ pendingHitl' = IF wf.kind[n] = "HITL" /\ ~wf.disabled[n] THEN {n} ELSE pendingHitl

(***************************************************************************)
(* The end of a superstep.                                                  *)
(***************************************************************************)
StepEnded == phase = "running" /\ pending = {}

PauseRun ==
  /\ StepEnded /\ interrupted # {}
  /\ phase' = "paused"
  /\ UNCHANGED <<static, pending, updates, interrupted, resumeValue, channels, pendingHitl, given>>

(* Two updates of one LastValue channel: InvalidUpdateError.                *)
ConflictingUpdates ==
  /\ StepEnded /\ interrupted = {}
  /\ \E m, n \in DOMAIN updates : m # n
  /\ CrashRun
  /\ UNCHANGED pendingHitl

(* The channel values an update carries: the wrapper spreads or copies the  *)
(* value it was given and adds its own node's contribution.                 *)
OwnStateOnly(n) == [m \in {n} |-> updates[m].state]  \* mutant: no **state.node_states

NodeStatesWith(n) ==
  [m \in DOMAIN nodeStates \cup {n} |->
     IF m = n THEN updates[n].state ELSE nodeStates[m]]

OwnArtifactsOnly(n) ==  \* mutant: no *state.artifacts
  IF updates[n].artifacts = "append" THEN <<n>> ELSE artifacts

ArtifactsWith(n) ==
  IF updates[n].artifacts = "append" THEN Append(artifacts, n) ELSE artifacts

OutputsWith(n) ==
  outputs \cup (IF updates[n].outputs = "result" THEN {n}
                ELSE IF updates[n].outputs = "error" THEN {ErrorKey} ELSE {})

(* The only update is applied and its node's successors are triggered.      *)
ApplyUpdate(n) ==
  /\ StepEnded /\ interrupted = {}
  /\ DOMAIN updates = {n}
  /\ nodeStates' = NodeStatesWith(n)
  /\ artifacts' = ArtifactsWith(n)
  /\ outputs' = OutputsWith(n)
  /\ updates' = Empty
  /\ resumeValue' = NoAction
  /\ pending' = Successors(wf, n)
  /\ phase' = IF Successors(wf, n) = {} THEN "done" ELSE "running"
  /\ UNCHANGED <<static, interrupted, pendingHitl, given>>

(***************************************************************************)
(* Command(resume=decision) on a checkpointed graph: the interrupted task   *)
(* runs again, from its start, with the decision; the updates of the tasks  *)
(* that had ended were saved with the checkpoint.  The engine refuses it    *)
(* without a checkpointer, and when two interrupts are pending.             *)
(***************************************************************************)
Resume(action) ==
  /\ checkpointed
  /\ phase = "paused"
  /\ \E n \in interrupted : interrupted = {n}
  /\ phase' = "running"
  /\ pending' = interrupted
  /\ interrupted' = {}
  /\ resumeValue' = action
  /\ given' = [m \in DOMAIN given \cup interrupted |->
                 IF m \in interrupted THEN action ELSE given[m]]
  /\ UNCHANGED <<static, updates, channels, pendingHitl>>

TaskStep(n) ==
  \/ SkipDisabled(n)
  \/ ExecutorReturns(n)
  \/ ExecutorFails(n)
  \/ ExecutorRaises(n)
  \/ GateInterrupts(n)
  \/ GateDecides(n)
  \/ RouterCrash(n)

EngineStep ==
  \/ Invoke
  \/ \E n \in wf.nodes : TaskStep(n)
  \/ PauseRun
  \/ ConflictingUpdates
  \/ \E n \in wf.nodes : ApplyUpdate(n)

Next == EngineStep \/ \E a \in HitlActions : Resume(a)

(* The event loop keeps running tasks and the engine; people need not act.  *)
Spec == Init /\ [][Next]_vars /\ WF_vars(EngineStep)

-------------------------------------------------------------------------------
Status(n) == nodeStates[n].status

(***************************************************************************)
(* Safety.                                                                  *)
(***************************************************************************)
(* The run implements DagExecution: whatever the shape of the workflow,     *)
(* what reaches node_states is recorded once per node, after the node's     *)
(* dependencies, and a run that ends normally has recorded every node.      *)
Dag == INSTANCE DagExecution
         WITH done <- DOMAIN nodeStates,
              over <- IF phase = "done" THEN "finished"
                      ELSE IF phase = "crashed" THEN "aborted" ELSE "no"
DagSpec == Dag!Spec

(* What has been recorded of a node is never rewritten or lost, not by a    *)
(* later step, a failure, a pause or a resume.                              *)
RecordsKept ==
  \A n \in DOMAIN nodeStates : n \in DOMAIN nodeStates' /\ nodeStates'[n] = nodeStates[n]

RecordsAreFinal == [][RecordsKept]_vars

(* outputs["_error"] is there exactly when some node has failed.            *)
ErrorsAreReported ==
  ErrorKey \in outputs <=> \E n \in DOMAIN nodeStates : Status(n) = "failed"

(* The artifacts channel holds the contribution of every node that          *)
(* succeeded, once, although each task rewrites the whole list.             *)
NoArtifactLost ==
  /\ {n \in DOMAIN nodeStates : Status(n) = "succeeded"} = Range(artifacts)
  /\ \A i, j \in DOMAIN artifacts : artifacts[i] = artifacts[j] => i = j

(* An enabled gate is only recorded with the decision a person gave for     *)
(* that gate: a decision never carries over to a later gate, and is not     *)
(* lost when the gate runs again from its start.                            *)
DecisionsReachTheirGate ==
  \A n \in DOMAIN nodeStates :
     wf.kind[n] = "HITL" /\ ~wf.disabled[n] =>
       n \in DOMAIN given /\ nodeStates[n].action = given[n]

(***************************************************************************)
(* What the repository says of a run and the code does not do.              *)
(***************************************************************************)
(* "reject -> reject_branch or abort": nothing runs after an aborting gate. *)
RejectStopsTheRun ==
  \A n \in DOMAIN nodeStates :
     nodeStates[n].action = "reject" /\ ~wf.rejectBranch[n] => pending = {}

(* Parallel branches: a superstep whose tasks all ended normally, with none *)
(* of them failing, is not the end of the run.                              *)
ParallelBranchesSurvive == [][StepEnded => phase' # "crashed"]_vars
===============================================================================
