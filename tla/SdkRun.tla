-------------------------------- MODULE SdkRun --------------------------------
(***************************************************************************)
(* Hanflow.run (sdk.py): the SDK compiles the graph without a checkpointer, *)
(* consumes the updates the engine streams, turns them into RunEvents on    *)
(* the handle's queue, and sets the handle's status and result at the end.  *)
(*                                                                         *)
(* A graph compiled with a checkpointer is driven directly by its owner     *)
(* (as tests/api/test_hitl_interrupt.py does): the engine is the same, no   *)
(* handle takes part, and the run can be resumed.                           *)
(***************************************************************************)
EXTENDS GraphRun

CONSTANT MaxTokens  \* bound: tokens streamed in one run

VARIABLES
  stream,         \* chunks the engine has emitted and run() has not consumed
  events,         \* the RunEvents put on handle._queue so far, with the sentinel
  seen,           \* seen_node_states: the status last seen for each node
  sawInterrupt,   \* the local flag "paused"
  lastOutputs,    \* final_outputs
  lastArtifacts,  \* final_artifacts
  handle          \* RunHandle: its status and, once set, its result

sdkLocals == <<seen, sawInterrupt, lastOutputs, lastArtifacts>>
sdkVars == <<stream, events, sdkLocals, handle>>
allVars == <<vars, sdkVars>>

Statuses == {"running", "paused", "succeeded", "failed"}
Event(kind, n) == [kind |-> kind, node |-> n]
NoNode == "no node"
Sentinel == Event("sentinel", NoNode)

NoResult == [outputs |-> {}, artifacts |-> <<>>]

(* The driver of a run without a checkpointer is Hanflow.run.               *)
BySdk == ~checkpointed

SdkTypeOK ==
  /\ TypeOK
  /\ \A i \in DOMAIN stream :
       stream[i].node \in wf.nodes /\ stream[i].kind \in {"update", "interrupt"}
  /\ \A i \in DOMAIN events :
       /\ events[i].node \in wf.nodes \cup {NoNode}
       /\ events[i].kind \in {"node_start", "node_end", "llm_token", "hitl_paused", "error",
                             "sentinel"}
  /\ DOMAIN seen \subseteq wf.nodes
  /\ Range(seen) \subseteq {"succeeded", "failed", "skipped"}
  /\ sawInterrupt \in BOOLEAN
  /\ lastOutputs \in SUBSET (wf.nodes \cup {ErrorKey})
  /\ lastArtifacts \in Seq(wf.nodes)
  /\ handle.status \in Statuses

SdkInit ==
  /\ Init
  /\ stream = <<>> /\ events = <<>> /\ seen = Empty
  /\ sawInterrupt = FALSE /\ lastOutputs = {} /\ lastArtifacts = <<>>
  /\ handle = [status |-> "running", result |-> NoResult]

SdkInvoke == Invoke /\ UNCHANGED sdkVars

(***************************************************************************)
(* What astream(stream_mode="updates") emits for a task: its update when it *)
(* ends, an interrupt when it suspends.  When the run crashes, chunks that  *)
(* were not handed over yet may be lost.                                    *)
(***************************************************************************)
Chunk(n) ==
  IF n \in interrupted'
  THEN [kind |-> "interrupt", node |-> n]
  ELSE [kind |-> "update", node |-> n, update |-> updates'[n]]

SdkTask(n) ==
  /\ TaskStep(n)
  /\ \/ ~BySdk /\ UNCHANGED stream
     \/ BySdk /\ phase' = "running" /\ stream' = Append(stream, Chunk(n))
     \/ BySdk /\ phase' = "crashed" /\ stream' \in {stream, <<>>}
  /\ UNCHANGED <<events, sdkLocals, handle>>

(* A streaming LLM node puts its tokens on the queue itself, from inside    *)
(* its task, while it executes.  Without a queue they are dropped.          *)
EmitRunEvent(e) == events' = IF BySdk THEN Append(events, e) ELSE events

EmitToken(n) ==
  /\ IsExecuting(n) /\ ~wf.disabled[n] /\ wf.kind[n] = "executor"
  /\ Cardinality({i \in DOMAIN events : events[i].kind = "llm_token"}) < MaxTokens
  /\ EmitRunEvent(Event("llm_token", n))
  /\ UNCHANGED <<vars, stream, sdkLocals, handle>>

(* The engine hands every chunk over before it ends the superstep.          *)
SdkStepEnd ==
  /\ stream = <<>>
  /\ \/ PauseRun
     \/ ConflictingUpdates
     \/ \E n \in wf.nodes : ApplyUpdate(n)
  /\ UNCHANGED sdkVars

SdkResume(a) == Resume(a) /\ UNCHANGED sdkVars

(***************************************************************************)
(* The body of the async for loop.                                          *)
(***************************************************************************)
ConsumeInterrupt ==
  /\ stream # <<>> /\ Head(stream).kind = "interrupt"
  /\ events' = Append(events, Event("hitl_paused", NoNode))
  /\ sawInterrupt' = TRUE
  /\ stream' = Tail(stream)
  /\ UNCHANGED <<vars, seen, lastOutputs, lastArtifacts, handle>>

(* update.get("outputs", final) and update.get("artifacts", final) or final, *)
(* where the task saw the channels as they still are.                        *)
LatestOutputsOnly(n, u) ==  \* mutant: update.get("outputs", {})
  CASE u.outputs = "keep" -> {}
    [] u.outputs = "result" -> outputs \cup {n}
    [] u.outputs = "error" -> outputs \cup {ErrorKey}

OutputsAfter(n, u) ==
  CASE u.outputs = "keep" -> lastOutputs
    [] u.outputs = "result" -> outputs \cup {n}
    [] u.outputs = "error" -> outputs \cup {ErrorKey}

ArtifactsAfter(n, u) ==
  CASE u.artifacts = "keep" -> lastArtifacts
    [] u.artifacts = "copy" -> IF artifacts = <<>> THEN lastArtifacts ELSE artifacts
    [] u.artifacts = "append" -> Append(artifacts, n)

ConsumeUpdate ==
  /\ stream # <<>> /\ Head(stream).kind = "update"
  /\ LET n == Head(stream).node
         u == Head(stream).update
         started == IF n \in DOMAIN seen THEN <<>> ELSE <<Event("node_start", n)>>
     IN  /\ events' = events \o started \o <<Event("node_end", n)>>
         /\ seen' = [m \in DOMAIN seen \cup {n} |->
                       IF m = n THEN u.state.status ELSE seen[m]]
         /\ lastOutputs' = OutputsAfter(n, u)
         /\ lastArtifacts' = ArtifactsAfter(n, u)
  /\ stream' = Tail(stream)
  /\ UNCHANGED <<vars, sawInterrupt, handle>>

EveryNodeFailed == \A n \in DOMAIN seen : seen[n] = "failed"  \* mutant: all() for any()
AnyNodeFailed == \E n \in DOMAIN seen : seen[n] = "failed"

EngineFinished == phase = "done"  \* mutant: a pause is taken for a step
EngineStopped == phase \in {"paused", "done"}

(* After the loop: the sentinel, then the status and the result.            *)
RunReturns ==
  /\ BySdk /\ handle.status = "running"
  /\ EngineStopped /\ stream = <<>>
  /\ events' = Append(events, Sentinel)
  /\ handle' =
       IF sawInterrupt THEN [status |-> "paused", result |-> NoResult]
       ELSE [status |-> IF AnyNodeFailed THEN "failed" ELSE "succeeded",
             result |-> [outputs |-> lastOutputs, artifacts |-> lastArtifacts]]
  /\ UNCHANGED <<vars, stream, sdkLocals>>

ErrorOnly == <<Event("error", NoNode)>>  \* mutant: no sentinel after the error
FailureEvents == <<Event("error", NoNode), Sentinel>>

(* except Exception: an error event, the sentinel, and a failed result.     *)
RunRaises ==
  /\ BySdk /\ handle.status = "running"
  /\ phase = "crashed" /\ stream = <<>>
  /\ events' = events \o FailureEvents
  /\ handle' = [status |-> "failed", result |-> NoResult]
  /\ UNCHANGED <<vars, stream, sdkLocals>>

SdkStep ==
  \/ SdkInvoke
  \/ \E n \in wf.nodes : SdkTask(n)
  \/ \E n \in wf.nodes : EmitToken(n)
  \/ SdkStepEnd
  \/ ConsumeInterrupt
  \/ ConsumeUpdate
  \/ RunReturns
  \/ RunRaises

SdkNext == SdkStep \/ \E a \in HitlActions : SdkResume(a)

(* The event loop keeps running the engine and the consumer; people need    *)
(* not decide.                                                              *)
SdkSpec == SdkInit /\ [][SdkNext]_allVars /\ WF_allVars(SdkStep)

-------------------------------------------------------------------------------
Settled == BySdk /\ handle.status # "running"

(* The status of the handle is the truth about the run: succeeded only when *)
(* every node of the workflow is recorded and none failed; failed only when *)
(* a node failed or the engine gave up; paused only when a gate waits.      *)
HandleTellsTheTruth ==
  Settled =>
    CASE handle.status = "succeeded" ->
           DOMAIN nodeStates = wf.nodes /\ \A n \in wf.nodes : Status(n) # "failed"
      [] handle.status = "failed" ->
           phase = "crashed" \/ \E n \in DOMAIN nodeStates : Status(n) = "failed"
      [] handle.status = "paused" -> phase = "paused" /\ interrupted # {}

(* The result assembled from the streamed updates is the final state of the *)
(* channels, although run() never reads the state itself.                   *)
ResultMatchesState ==
  Settled /\ phase = "done" =>
    handle.result = [outputs |-> outputs, artifacts |-> artifacts]

(* The events tell the run: the sentinel is there once the handle is        *)
(* settled, and only last; a node's end directly follows its start and is   *)
(* told once; and what is told of a run that ended is what is recorded.     *)
EventsTellTheRun ==
  /\ \A i \in DOMAIN events : events[i] = Sentinel <=> Settled /\ i = Len(events)
  /\ Settled => events # <<>>
  /\ \A i \in DOMAIN events :
       events[i].kind = "node_end" =>
         /\ i > 1 /\ events[i - 1] = Event("node_start", events[i].node)
         /\ \A j \in DOMAIN events : events[j] = events[i] => j = i
  /\ Settled /\ phase = "done" =>
       /\ DOMAIN seen = DOMAIN nodeStates
       /\ \A n \in DOMAIN seen : seen[n] = Status(n)
       /\ \A n \in DOMAIN seen : \E i \in DOMAIN events : events[i] = Event("node_end", n)

(* A run that was started settles: its engine stops, and run() returns the  *)
(* handle it drives with a final status and the sentinel queued.            *)
RunsSettle ==
  phase = "running" ~>
    phase \in {"paused", "done", "crashed"} /\ (BySdk => handle.status # "running")
===============================================================================
