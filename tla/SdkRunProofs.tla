----------------------------- MODULE SdkRunProofs -----------------------------
(***************************************************************************)
(* Theorems about Hanflow.run, for every set of valid workflows.  run()     *)
(* never reads the state of the graph: it only sees the updates the engine  *)
(* streams.  What it tells is true all the same, because the nodes it has   *)
(* seen are always those that are recorded and those of the current         *)
(* superstep whose update it has consumed, and because a superstep that is  *)
(* applied has one update, so that what that update said of a channel is    *)
(* what the channel becomes.                                                *)
(***************************************************************************)
EXTENDS SdkRun, GraphRunProofs

Chunks == [kind : {"interrupt"}, node : wf.nodes]
          \cup [kind : {"update"}, node : wf.nodes, update : Updates]

EventKinds == {"node_start", "node_end", "llm_token", "hitl_paused", "error", "sentinel"}
RunEvents == [kind : EventKinds, node : wf.nodes \cup {NoNode}]

Typed ==
  /\ stream \in Seq(Chunks) /\ events \in Seq(RunEvents)
  /\ DOMAIN seen \subseteq wf.nodes
  /\ \A n \in DOMAIN seen : seen[n] \in {"succeeded", "failed", "skipped"}
  /\ sawInterrupt \in BOOLEAN
  /\ lastOutputs \in SUBSET (wf.nodes \cup {ErrorKey})
  /\ lastArtifacts \in Seq(wf.nodes)
  /\ handle.status \in Statuses

(* A run with a checkpointer is not driven by run().                        *)
DrivenByOthers == checkpointed => stream = <<>> /\ events = <<>> /\ handle.status = "running"

(* A node is streamed once, and is new to run() when its update comes.      *)
StreamedOnce ==
  /\ \A i, j \in DOMAIN stream : stream[i].node = stream[j].node => i = j
  /\ \A i \in DOMAIN stream : stream[i].kind = "update" => stream[i].node \notin DOMAIN seen

IsStreamed(n) == \E i \in DOMAIN stream : stream[i].kind = "update" /\ stream[i].node = n

(* The chunks that wait are of the current superstep; the nodes seen are    *)
(* the recorded ones and those of the step that wait no more.               *)
StreamIsTheStep ==
  /\ \A i \in DOMAIN stream :
       IF stream[i].kind = "interrupt" THEN stream[i].node \in interrupted
       ELSE stream[i].node \in DOMAIN updates /\ stream[i].update = updates[stream[i].node]
  /\ DOMAIN seen = Done \cup {n \in DOMAIN updates : ~IsStreamed(n)}
  /\ \A n \in DOMAIN seen :
       seen[n] = IF n \in Done THEN nodeStates[n].status ELSE updates[n].state.status
  /\ interrupted # {} <=> sawInterrupt \/ \E i \in DOMAIN stream : stream[i].kind = "interrupt"

(* What run() has assembled is the channels, or what they will be when the  *)
(* only update of the step is applied.                                      *)
AssembledIsCurrent ==
  /\ DOMAIN seen = Done => lastOutputs = outputs /\ lastArtifacts = artifacts
  /\ \A n \in DOMAIN updates \cap DOMAIN seen :
       DOMAIN updates = {n} => lastOutputs = OutputsWith(n) /\ lastArtifacts = ArtifactsWith(n)

StopsMeanWhatTheySay ==
  /\ phase = "ready" => stream = <<>>
  /\ phase = "paused" => interrupted # {}
  /\ phase = "done" => interrupted = {} /\ DOMAIN updates = {}
  /\ Settled => phase \in {"paused", "done", "crashed"} /\ stream = <<>>

(* The ends of nodes among the events are those of the nodes seen.          *)
EndsAreTold ==
  /\ \A i \in DOMAIN events :
       events[i].kind = "node_end" =>
         /\ i > 1 /\ events[i - 1] = Event("node_start", events[i].node)
         /\ events[i].node \in DOMAIN seen
         /\ \A j \in DOMAIN events : events[j] = events[i] => j = i
  /\ \A n \in DOMAIN seen : \E i \in DOMAIN events : events[i] = Event("node_end", n)

SentinelIsLast ==
  /\ \A i \in DOMAIN events : events[i] = Sentinel <=> Settled /\ i = Len(events)
  /\ Settled => events # <<>>

SdkInv ==
  /\ IInv
  /\ Typed
  /\ DrivenByOthers
  /\ StreamedOnce
  /\ BySdk /\ phase # "crashed" => StreamIsTheStep /\ AssembledIsCurrent
  /\ StopsMeanWhatTheySay
  /\ HandleTellsTheTruth
  /\ ResultMatchesState
  /\ EndsAreTold
  /\ SentinelIsLast


-------------------------------------------------------------------------------
(* Every step of the SDK is a step of the graph, or leaves it alone.        *)
LEMMA SdkStepsAreGraphSteps == [SdkNext]_allVars => [Next]_vars
<1> SUFFICES ASSUME [SdkNext]_allVars PROVE [Next]_vars
  OBVIOUS
<1>1. CASE SdkInvoke \/ SdkStepEnd \/ \E n \in wf.nodes : SdkTask(n)
  BY <1>1 DEF SdkInvoke, SdkStepEnd, SdkTask, Next, EngineStep
<1>2. CASE \E a \in HitlActions : SdkResume(a)
  BY <1>2 DEF SdkResume, Next
<1>3. CASE \/ \E n \in wf.nodes : EmitToken(n)
           \/ ConsumeInterrupt \/ ConsumeUpdate \/ RunReturns \/ RunRaises
  BY <1>3 DEF EmitToken, ConsumeInterrupt, ConsumeUpdate, RunReturns, RunRaises
<1>4. CASE UNCHANGED allVars
  BY <1>4 DEF allVars
<1> QED  BY <1>1, <1>2, <1>3, <1>4 DEF SdkNext, SdkStep

LEMMA InitIsTheRun == SdkInit => SdkInv
<1> SUFFICES ASSUME SdkInit PROVE SdkInv
  OBVIOUS
<1> USE DEF SdkInit, Init, Empty
<1>1. IInv
  BY InitEstablishes
<1>2. Typed
  <2>1. stream \in Seq(Chunks) /\ events \in Seq(RunEvents) /\ lastArtifacts \in Seq(wf.nodes)
    OBVIOUS
  <2>2. DOMAIN seen = {} /\ handle.status \in Statuses
    BY DEF Statuses
  <2> QED  BY <2>1, <2>2 DEF Typed
<1>3. DrivenByOthers /\ StreamedOnce /\ StopsMeanWhatTheySay
  BY DEF DrivenByOthers, StreamedOnce, StopsMeanWhatTheySay, Settled
<1>4. StreamIsTheStep /\ AssembledIsCurrent
  BY DEF StreamIsTheStep, AssembledIsCurrent, Done
<1>5. HandleTellsTheTruth /\ ResultMatchesState /\ EndsAreTold /\ SentinelIsLast
  BY DEF HandleTellsTheTruth, ResultMatchesState, EndsAreTold, SentinelIsLast, Settled
<1> QED  BY <1>1, <1>2, <1>3, <1>4, <1>5 DEF SdkInv

-------------------------------------------------------------------------------
(* What putting events on the queue keeps.                                  *)
LEMMA OtherEventsKeepTheEnds ==
  ASSUME EndsAreTold, NEW S, events \in Seq(S), NEW more \in Seq(S), events' = events \o more,
         \A i \in DOMAIN more : more[i].kind # "node_end", seen' = seen
  PROVE  EndsAreTold'
<1>1. /\ Len(events) \in Nat /\ Len(more) \in Nat /\ DOMAIN events = 1 .. Len(events)
      /\ DOMAIN events' = 1 .. Len(events) + Len(more)
      /\ \A i \in 1 .. Len(events) : events'[i] = events[i]
      /\ \A i \in 1 .. Len(events) + Len(more) : i > Len(events) => events'[i] = more[i - Len(events)]
  BY ConcatProperties
<1>2. ASSUME NEW i \in DOMAIN events', events'[i].kind = "node_end"
      PROVE  i \in DOMAIN events /\ events'[i] = events[i]
  <2>1. CASE i > Len(events)
    <3>1. i - Len(events) \in DOMAIN more
      BY <1>1, <2>1
    <3> QED  BY <1>1, <1>2, <2>1, <3>1
  <2> QED  BY <1>1, <2>1
<1>3. ASSUME NEW i \in DOMAIN events', events'[i].kind = "node_end"
      PROVE  /\ i > 1 /\ events'[i - 1] = Event("node_start", events'[i].node)
             /\ events'[i].node \in DOMAIN seen
             /\ \A j \in DOMAIN events' : events'[j] = events'[i] => j = i
  <2>1. i \in DOMAIN events /\ events'[i] = events[i] /\ i \in Nat
    BY <1>1, <1>2, <1>3
  <2>2. i > 1 /\ events[i - 1] = Event("node_start", events[i].node) /\ events[i].node \in DOMAIN seen
        /\ \A j \in DOMAIN events : events[j] = events[i] => j = i
    BY <1>3, <2>1 DEF EndsAreTold
  <2>3. events'[i - 1] = events[i - 1]
    BY <1>1, <2>1, <2>2
  <2>4. ASSUME NEW j \in DOMAIN events', events'[j] = events'[i]
        PROVE  j = i
    BY <1>2, <1>3, <2>1, <2>2, <2>4
  <2> QED  BY <2>1, <2>2, <2>3, <2>4
<1>4. ASSUME NEW n \in DOMAIN seen
      PROVE  \E i \in DOMAIN events' : events'[i] = Event("node_end", n)
  <2>1. PICK i \in DOMAIN events : events[i] = Event("node_end", n)
    BY DEF EndsAreTold
  <2> QED  BY <1>1, <2>1
<1> QED  BY <1>3, <1>4 DEF EndsAreTold, Event

(* While run() goes on nothing but the sentinel may follow.                 *)
LEMMA NoSentinelYet ==
  ASSUME SentinelIsLast, ~Settled, ~Settled', NEW S, events \in Seq(S), NEW more \in Seq(S),
         events' = events \o more, \A i \in DOMAIN more : more[i].kind # "sentinel"
  PROVE  SentinelIsLast'
<1>1. /\ Len(events) \in Nat /\ Len(more) \in Nat /\ DOMAIN events = 1 .. Len(events)
      /\ DOMAIN events' = 1 .. Len(events) + Len(more)
      /\ \A i \in 1 .. Len(events) : events'[i] = events[i]
      /\ \A i \in 1 .. Len(events) + Len(more) : i > Len(events) => events'[i] = more[i - Len(events)]
  BY ConcatProperties
<1>2. Sentinel.kind = "sentinel"
  BY DEF Sentinel, Event
<1>3. ASSUME NEW i \in DOMAIN events'
      PROVE  events'[i] # Sentinel
  <2>1. CASE i > Len(events)
    <3>1. i - Len(events) \in DOMAIN more
      BY <1>1, <2>1
    <3> QED  BY <1>1, <1>2, <2>1, <3>1
  <2>2. CASE ~(i > Len(events))
    BY <1>1, <2>2 DEF SentinelIsLast
  <2> QED  BY <2>1, <2>2
<1> QED  BY <1>3 DEF SentinelIsLast, Sentinel, Event

LEMMA SentinelEnds ==
  ASSUME SentinelIsLast, ~Settled, Settled', NEW S, events \in Seq(S), NEW more \in Seq(S),
         \A i \in DOMAIN more : more[i].kind # "sentinel",
         events' = Append(events \o more, Sentinel)
  PROVE  SentinelIsLast'
<1> DEFINE all == events \o more
<1>0. all \in Seq(S \cup {Sentinel}) /\ Len(all) \in Nat
  BY ConcatProperties
<1>1. /\ Len(events) \in Nat /\ Len(more) \in Nat /\ DOMAIN events = 1 .. Len(events)
      /\ Len(all) = Len(events) + Len(more)
      /\ \A i \in 1 .. Len(events) : all[i] = events[i]
      /\ \A i \in 1 .. Len(events) + Len(more) : i > Len(events) => all[i] = more[i - Len(events)]
  BY ConcatProperties
<1>2. Sentinel.kind = "sentinel"
  BY DEF Sentinel, Event
<1>3. ASSUME NEW i \in 1 .. Len(all)
      PROVE  all[i] # Sentinel
  <2>1. CASE i > Len(events)
    <3>1. i - Len(events) \in DOMAIN more
      BY <1>1, <2>1
    <3> QED  BY <1>1, <1>2, <2>1, <3>1
  <2>2. CASE ~(i > Len(events))
    BY <1>1, <2>2 DEF SentinelIsLast
  <2> QED  BY <2>1, <2>2
<1> HIDE DEF all
<1>4. /\ Len(events') = Len(all) + 1 /\ DOMAIN events' = 1 .. Len(all) + 1
      /\ events'[Len(all) + 1] = Sentinel
      /\ \A i \in 1 .. Len(all) : events'[i] = all[i]
  BY <1>0, AppendProperties DEF all
<1>5. ASSUME NEW i \in DOMAIN events'
      PROVE  events'[i] = Sentinel <=> i = Len(events')
  BY <1>0, <1>3, <1>4
<1>6. events' # <<>>
  BY <1>0, <1>4
<1> QED  BY <1>5, <1>6 DEF SentinelIsLast, Sentinel, Event


-------------------------------------------------------------------------------
LEMMA StaticStays == [Next]_vars => UNCHANGED static
BY DEF Next, EngineStep, vars, static, Invoke, TaskStep, SkipDisabled, ExecutorReturns, ExecutorFails,
       ExecutorRaises, GateInterrupts, GateDecides, RouterCrash, EndTask, CrashRun, PauseRun,
       ConflictingUpdates, ApplyUpdate, Resume

(* What all steps keep.                                                     *)
LEMMA GraphIsKept ==
  ASSUME SdkInv, [SdkNext]_allVars
  PROVE  IInv' /\ wf' = wf /\ checkpointed' = checkpointed /\ ValidDsl(wf)
<1>1. [Next]_vars
  BY SdkStepsAreGraphSteps
<1> QED  BY <1>1, NextPreserves, StaticStays DEF SdkInv, static, IInv, TypeOK

(* The parts of the invariant that do not look at the engine.               *)
LEMMA QuietStepsKeep ==
  ASSUME SdkInv, UNCHANGED sdkVars, wf' = wf, checkpointed' = checkpointed
  PROVE  /\ Typed' /\ DrivenByOthers' /\ StreamedOnce' /\ EndsAreTold' /\ SentinelIsLast'
         /\ Settled' <=> Settled
<1> USE DEF sdkVars, sdkLocals, SdkInv
<1>1. Typed'
  BY DEF Typed, Chunks, RunEvents
<1>2. DrivenByOthers' /\ StreamedOnce' /\ EndsAreTold' /\ (Settled' <=> Settled)
  BY DEF DrivenByOthers, StreamedOnce, EndsAreTold, Settled, BySdk
<1>3. SentinelIsLast'
  BY <1>2 DEF SentinelIsLast
<1> QED  BY <1>1, <1>2, <1>3

LEMMA InvokingKeeps ==
  ASSUME SdkInv, [SdkNext]_allVars, SdkInvoke
  PROVE  SdkInv'
<1> USE DEF SdkInvoke, Invoke, sdkVars, sdkLocals, channels
<1>1. IInv' /\ wf' = wf /\ checkpointed' = checkpointed
  BY GraphIsKept
<1>2. ~Settled /\ phase = "ready" /\ phase' = "running"
  BY DEF SdkInv, StopsMeanWhatTheySay
<1>3. /\ Typed' /\ DrivenByOthers' /\ StreamedOnce' /\ EndsAreTold' /\ SentinelIsLast' /\ ~Settled'
  BY <1>1, <1>2, QuietStepsKeep
<1>4. BySdk => StreamIsTheStep' /\ AssembledIsCurrent'
  BY <1>2 DEF SdkInv, StreamIsTheStep, AssembledIsCurrent, IsStreamed, Done, OutputsWith, ArtifactsWith
<1>5. StopsMeanWhatTheySay'
  BY <1>2, <1>3 DEF StopsMeanWhatTheySay
<1>6. HandleTellsTheTruth' /\ ResultMatchesState' /\ (BySdk' <=> BySdk)
  BY <1>1, <1>3 DEF HandleTellsTheTruth, ResultMatchesState, BySdk
<1> QED  BY <1>1, <1>3, <1>4, <1>5, <1>6 DEF SdkInv

LEMMA ResumingKeeps ==
  ASSUME SdkInv, [SdkNext]_allVars, NEW a \in HitlActions, SdkResume(a)
  PROVE  SdkInv'
<1> USE DEF SdkResume, Resume, sdkVars, sdkLocals
<1>1. IInv' /\ wf' = wf /\ checkpointed' = checkpointed
  BY GraphIsKept
<1>2. ~Settled /\ phase' = "running" /\ ~BySdk /\ ~BySdk'
  BY <1>1 DEF Settled, BySdk
<1>3. /\ Typed' /\ DrivenByOthers' /\ StreamedOnce' /\ EndsAreTold' /\ SentinelIsLast' /\ ~Settled'
  BY <1>1, <1>2, QuietStepsKeep
<1>4. StopsMeanWhatTheySay' /\ HandleTellsTheTruth' /\ ResultMatchesState'
  BY <1>2, <1>3 DEF StopsMeanWhatTheySay, HandleTellsTheTruth, ResultMatchesState
<1> QED  BY <1>1, <1>2, <1>3, <1>4 DEF SdkInv

LEMMA StepEndsKeep ==
  ASSUME SdkInv, [SdkNext]_allVars, SdkStepEnd
  PROVE  SdkInv'
<1>1. IInv' /\ wf' = wf /\ checkpointed' = checkpointed
  BY GraphIsKept
<1>2. phase = "running" /\ stream = <<>> /\ stream' = <<>> /\ UNCHANGED sdkVars
  BY DEF SdkStepEnd, PauseRun, ConflictingUpdates, ApplyUpdate, StepEnded, sdkVars
<1>3. ~Settled
  BY <1>2 DEF SdkInv, StopsMeanWhatTheySay
<1>4. /\ Typed' /\ DrivenByOthers' /\ StreamedOnce' /\ EndsAreTold' /\ SentinelIsLast' /\ ~Settled'
  BY <1>1, <1>2, <1>3, QuietStepsKeep
<1>5. HandleTellsTheTruth' /\ ResultMatchesState' /\ (BySdk' <=> BySdk)
  BY <1>1, <1>4 DEF HandleTellsTheTruth, ResultMatchesState, BySdk
<1>6. UNCHANGED <<seen, sawInterrupt, lastOutputs, lastArtifacts>>
  BY <1>2 DEF sdkVars, sdkLocals
<1>7. CASE PauseRun
  <2> USE <1>7 DEF PauseRun, channels
  <2>1. BySdk => StreamIsTheStep' /\ AssembledIsCurrent'
    BY <1>2, <1>6 DEF SdkInv, StreamIsTheStep, AssembledIsCurrent, IsStreamed, Done, OutputsWith,
                      ArtifactsWith
  <2>2. StopsMeanWhatTheySay'
    BY <1>4 DEF StopsMeanWhatTheySay
  <2> QED  BY <1>1, <1>4, <1>5, <2>1, <2>2 DEF SdkInv
<1>8. CASE ConflictingUpdates
  <2>1. phase' = "crashed"
    BY <1>8 DEF ConflictingUpdates, CrashRun
  <2>2. StopsMeanWhatTheySay'
    BY <1>4, <2>1 DEF StopsMeanWhatTheySay
  <2> QED  BY <1>1, <1>4, <1>5, <2>1, <2>2 DEF SdkInv
<1>9. ASSUME NEW n \in wf.nodes, ApplyUpdate(n)
      PROVE  SdkInv'
  <2>1. /\ DOMAIN updates = {n} /\ interrupted = {} /\ interrupted' = {} /\ DOMAIN updates' = {}
        /\ outputs' = OutputsWith(n) /\ artifacts' = ArtifactsWith(n) /\ nodeStates' = NodeStatesWith(n)
        /\ phase' \in {"running", "done"}
    BY <1>9 DEF ApplyUpdate, Empty
  <2>2. n \notin Done /\ Done' = Done \cup {n} /\ nodeStates'[n] = updates[n].state
        /\ \A m \in Done : nodeStates'[m] = nodeStates[m]
    <3>1. n \notin Done
      BY <2>1 DEF SdkInv, IInv, Active
    <3> QED  BY <2>1, <3>1 DEF NodeStatesWith, Done
  <2>3. BySdk => StreamIsTheStep' /\ AssembledIsCurrent'
    <3> SUFFICES ASSUME BySdk PROVE StreamIsTheStep' /\ AssembledIsCurrent'
      OBVIOUS
    <3>1. StreamIsTheStep /\ AssembledIsCurrent
      BY <1>2 DEF SdkInv
    <3>2. DOMAIN seen = Done \cup {n}
      BY <1>2, <2>1, <3>1 DEF StreamIsTheStep, IsStreamed
    <3>3. StreamIsTheStep'
      BY <1>2, <1>6, <2>1, <2>2, <3>1, <3>2 DEF StreamIsTheStep, IsStreamed
    <3>4. AssembledIsCurrent'
      BY <1>6, <2>1, <3>1, <3>2 DEF AssembledIsCurrent
    <3> QED  BY <3>3, <3>4
  <2>4. StopsMeanWhatTheySay'
    BY <1>4, <2>1 DEF StopsMeanWhatTheySay
  <2> QED  BY <1>1, <1>4, <1>5, <2>3, <2>4 DEF SdkInv
<1> QED  BY <1>7, <1>8, <1>9 DEF SdkStepEnd


(* A task that ends or is suspended adds a chunk of its own to the stream.  *)
LEMMA ChunkIsNew ==
  ASSUME SdkInv, NEW n \in pending, BySdk, phase = "running",
         NEW c \in Chunks, c.node = n, stream' = Append(stream, c),
         UNCHANGED <<events, sdkLocals, handle, static>>, phase' = "running"
  PROVE  /\ Typed' /\ DrivenByOthers' /\ StreamedOnce' /\ StopsMeanWhatTheySay'
         /\ n \notin DOMAIN seen /\ n \notin Done
         /\ \A i \in DOMAIN stream : stream[i].node # n
         /\ Len(stream) \in Nat /\ DOMAIN stream = 1 .. Len(stream)
         /\ DOMAIN stream' = DOMAIN stream \cup {Len(stream) + 1}
         /\ Len(stream) + 1 \notin DOMAIN stream
         /\ stream'[Len(stream) + 1] = c
         /\ \A i \in DOMAIN stream : stream'[i] = stream[i]
<1> USE DEF sdkLocals, static
<1>1. stream \in Seq(Chunks) /\ StreamIsTheStep /\ StreamedOnce
  BY DEF SdkInv, Typed
<1>2. /\ n \notin DOMAIN updates /\ n \notin interrupted /\ n \notin Done
  BY DEF SdkInv, IInv, TasksDisjoint, Active
<1>3. n \notin DOMAIN seen /\ \A i \in DOMAIN stream : stream[i].node # n
  BY <1>1, <1>2 DEF StreamIsTheStep
<1>4. /\ Len(stream) \in Nat /\ DOMAIN stream = 1 .. Len(stream)
      /\ stream' \in Seq(Chunks) /\ stream' # <<>>
      /\ DOMAIN stream' = 1 .. Len(stream) + 1
      /\ stream'[Len(stream) + 1] = c
      /\ \A i \in 1 .. Len(stream) : stream'[i] = stream[i]
  BY <1>1, AppendProperties
<1>5. DOMAIN stream' = DOMAIN stream \cup {Len(stream) + 1} /\ Len(stream) + 1 \notin DOMAIN stream
  BY <1>4
<1>6. StreamedOnce'
  BY <1>1, <1>3, <1>4, <1>5 DEF StreamedOnce
<1>7. Typed'
  BY <1>4 DEF SdkInv, Typed, Chunks, RunEvents
<1>8. DrivenByOthers' /\ StopsMeanWhatTheySay'
  BY DEF SdkInv, DrivenByOthers, BySdk, StopsMeanWhatTheySay, Settled
<1> QED  BY <1>2, <1>3, <1>4, <1>5, <1>6, <1>7, <1>8


LEMMA EndedTaskKeeps ==
  ASSUME SdkInv, NEW n \in pending, n \in wf.nodes, BySdk, phase = "running",
         NEW u \in Updates, EndTask(n, u), stream' = Append(stream, Chunk(n)),
         UNCHANGED <<events, sdkLocals, handle>>
  PROVE  /\ Typed' /\ DrivenByOthers' /\ StreamedOnce' /\ StopsMeanWhatTheySay'
         /\ StreamIsTheStep' /\ AssembledIsCurrent'
<1> DEFINE c == [kind |-> "update", node |-> n, update |-> u]
<1>1. StreamIsTheStep /\ AssembledIsCurrent
  BY DEF SdkInv
<1>2. /\ UNCHANGED <<wf, checkpointed, phase, interrupted, nodeStates, outputs, artifacts>>
      /\ DOMAIN updates' = DOMAIN updates \cup {n} /\ updates'[n] = u
      /\ \A m \in DOMAIN updates : m # n => updates'[m] = updates[m]
  BY DEF EndTask, static, channels
<1>3. n \notin interrupted /\ n \notin DOMAIN updates
  BY DEF SdkInv, IInv, TasksDisjoint
<1>4. Chunk(n) = c /\ c \in Chunks /\ c.node = n
  BY <1>2, <1>3 DEF Chunk, Chunks
<1>5. c.kind = "update" /\ c.update = u
  OBVIOUS
<1> HIDE DEF c
<1>6. /\ Typed' /\ DrivenByOthers' /\ StreamedOnce' /\ StopsMeanWhatTheySay'
      /\ n \notin DOMAIN seen /\ n \notin Done
      /\ DOMAIN stream' = DOMAIN stream \cup {Len(stream) + 1}
      /\ stream'[Len(stream) + 1] = c
      /\ \A i \in DOMAIN stream : stream'[i] = stream[i]
      /\ \A i \in DOMAIN stream : stream[i].node # n
  BY <1>2, <1>4, ChunkIsNew DEF static
<1>7. UNCHANGED <<seen, sawInterrupt, lastOutputs, lastArtifacts>>
  BY DEF sdkLocals
<1>8. \A m : IsStreamed(m)' <=> IsStreamed(m) \/ m = n
  BY <1>4, <1>5, <1>6 DEF IsStreamed
<1>9. StreamIsTheStep'
  <2>1. \A i \in DOMAIN stream' :
          IF stream'[i].kind = "interrupt" THEN stream'[i].node \in interrupted'
          ELSE /\ stream'[i].node \in DOMAIN updates'
               /\ stream'[i].update = updates'[stream'[i].node]
    BY <1>1, <1>2, <1>4, <1>5, <1>6 DEF StreamIsTheStep
  <2>2. Done' = Done
    BY <1>2 DEF Done
  <2>3. DOMAIN seen' = Done' \cup {m \in DOMAIN updates' : ~IsStreamed(m)'}
    BY <1>1, <1>2, <1>3, <1>7, <1>8, <2>2 DEF StreamIsTheStep
  <2>4. \A m \in DOMAIN seen' :
          seen'[m] = IF m \in Done' THEN nodeStates'[m].status ELSE updates'[m].state.status
    BY <1>1, <1>2, <1>6, <1>7, <2>2 DEF StreamIsTheStep
  <2>5. interrupted' # {} <=> sawInterrupt' \/ \E i \in DOMAIN stream' : stream'[i].kind = "interrupt"
    BY <1>1, <1>2, <1>5, <1>6, <1>7 DEF StreamIsTheStep
  <2> QED  BY <2>1, <2>3, <2>4, <2>5 DEF StreamIsTheStep, IsStreamed
<1>10. AssembledIsCurrent'
  BY <1>1, <1>2, <1>6, <1>7 DEF AssembledIsCurrent, Done
<1> QED  BY <1>6, <1>9, <1>10

LEMMA SuspendedTaskKeeps ==
  ASSUME SdkInv, NEW n \in pending, n \in wf.nodes, BySdk, phase = "running",
         GateInterrupts(n), stream' = Append(stream, Chunk(n)),
         UNCHANGED <<events, sdkLocals, handle>>
  PROVE  /\ Typed' /\ DrivenByOthers' /\ StreamedOnce' /\ StopsMeanWhatTheySay'
         /\ StreamIsTheStep' /\ AssembledIsCurrent'
<1> DEFINE c == [kind |-> "interrupt", node |-> n]
<1>1. StreamIsTheStep /\ AssembledIsCurrent
  BY DEF SdkInv
<1>2. /\ UNCHANGED <<wf, checkpointed, phase, updates, nodeStates, outputs, artifacts>>
      /\ interrupted' = interrupted \cup {n}
  BY DEF GateInterrupts, static, channels
<1>4. Chunk(n) = c /\ c \in Chunks /\ c.node = n
  BY <1>2 DEF Chunk, Chunks
<1>5. c.kind = "interrupt"
  OBVIOUS
<1> HIDE DEF c
<1>6. /\ Typed' /\ DrivenByOthers' /\ StreamedOnce' /\ StopsMeanWhatTheySay'
      /\ DOMAIN stream' = DOMAIN stream \cup {Len(stream) + 1}
      /\ stream'[Len(stream) + 1] = c
      /\ \A i \in DOMAIN stream : stream'[i] = stream[i]
  BY <1>2, <1>4, ChunkIsNew DEF static
<1>7. UNCHANGED <<seen, sawInterrupt, lastOutputs, lastArtifacts>>
  BY DEF sdkLocals
<1>8. \A m : IsStreamed(m)' <=> IsStreamed(m)
  BY <1>5, <1>6 DEF IsStreamed
<1>9. StreamIsTheStep'
  <2>1. \A i \in DOMAIN stream' :
          IF stream'[i].kind = "interrupt" THEN stream'[i].node \in interrupted'
          ELSE /\ stream'[i].node \in DOMAIN updates'
               /\ stream'[i].update = updates'[stream'[i].node]
    BY <1>1, <1>2, <1>4, <1>5, <1>6 DEF StreamIsTheStep
  <2>2. Done' = Done
    BY <1>2 DEF Done
  <2>3. DOMAIN seen' = Done' \cup {m \in DOMAIN updates' : ~IsStreamed(m)'}
    BY <1>1, <1>2, <1>7, <1>8, <2>2 DEF StreamIsTheStep
  <2>4. \A m \in DOMAIN seen' :
          seen'[m] = IF m \in Done' THEN nodeStates'[m].status ELSE updates'[m].state.status
    BY <1>1, <1>2, <1>7, <2>2 DEF StreamIsTheStep
  <2>5. interrupted' # {} /\ \E i \in DOMAIN stream' : stream'[i].kind = "interrupt"
    BY <1>2, <1>5, <1>6
  <2> QED  BY <2>1, <2>3, <2>4, <2>5 DEF StreamIsTheStep, IsStreamed
<1>10. AssembledIsCurrent'
  BY <1>1, <1>2, <1>7 DEF AssembledIsCurrent, Done, OutputsWith, ArtifactsWith
<1> QED  BY <1>6, <1>9, <1>10

LEMMA TasksKeep ==
  ASSUME SdkInv, [SdkNext]_allVars, NEW n \in wf.nodes, SdkTask(n)
  PROVE  SdkInv'
<1>1. IInv' /\ wf' = wf /\ checkpointed' = checkpointed
  BY GraphIsKept
<1>2. /\ phase = "running" /\ n \in pending
      /\ (\E u \in Updates : EndTask(n, u)) \/ CrashRun \/ GateInterrupts(n)
  BY TaskOutcomes DEF SdkInv, SdkTask
<1>3. UNCHANGED <<events, seen, sawInterrupt, lastOutputs, lastArtifacts, handle>>
  BY DEF SdkTask, sdkLocals
<1>4. ~Settled /\ ~Settled' /\ (BySdk' <=> BySdk)
  BY <1>1, <1>2, <1>3 DEF SdkInv, StopsMeanWhatTheySay, Settled, BySdk
<1>5. EndsAreTold' /\ SentinelIsLast'
  BY <1>3, <1>4 DEF SdkInv, EndsAreTold, SentinelIsLast
<1>6. HandleTellsTheTruth' /\ ResultMatchesState'
  BY <1>4 DEF HandleTellsTheTruth, ResultMatchesState
<1>7. CASE ~BySdk
  <2>1. Typed' /\ DrivenByOthers' /\ StreamedOnce'
    BY <1>1, <1>3, <1>7, QuietStepsKeep DEF SdkTask, sdkVars, sdkLocals
  <2>2. StopsMeanWhatTheySay'
    BY <1>2, <1>4 DEF StopsMeanWhatTheySay, EndTask, CrashRun, GateInterrupts
  <2> QED  BY <1>1, <1>4, <1>5, <1>6, <1>7, <2>1, <2>2 DEF SdkInv
<1>8. CASE BySdk /\ phase' = "crashed"
  <2>1. stream' \in {stream, <<>>}
    BY <1>8 DEF SdkTask
  <2>2. Typed' /\ DrivenByOthers' /\ StreamedOnce'
    <3>1. DrivenByOthers'
      BY <1>4, <1>8 DEF DrivenByOthers, BySdk
    <3>2. stream' \in Seq(Chunks)
      <4>1. stream \in Seq(Chunks) /\ <<>> \in Seq(Chunks)
        BY DEF SdkInv, Typed
      <4> QED  BY <2>1, <4>1
    <3>3. Typed'
      BY <1>1, <1>3, <3>2 DEF SdkInv, Typed, Chunks, RunEvents
    <3>4. StreamedOnce'
      BY <1>3, <2>1 DEF SdkInv, StreamedOnce
    <3> QED  BY <3>1, <3>3, <3>4
  <2>3. StopsMeanWhatTheySay'
    BY <1>4, <1>8 DEF StopsMeanWhatTheySay
  <2> QED  BY <1>1, <1>5, <1>6, <1>8, <2>2, <2>3 DEF SdkInv
<1>9. CASE BySdk /\ phase' # "crashed"
  <2>1. stream' = Append(stream, Chunk(n)) /\ ~CrashRun
    BY <1>9 DEF SdkTask, CrashRun
  <2>2. /\ Typed' /\ DrivenByOthers' /\ StreamedOnce' /\ StopsMeanWhatTheySay'
        /\ StreamIsTheStep' /\ AssembledIsCurrent'
    BY <1>2, <1>3, <1>9, <2>1, EndedTaskKeeps, SuspendedTaskKeeps DEF sdkLocals
  <2> QED  BY <1>1, <1>5, <1>6, <2>2 DEF SdkInv
<1> QED  BY <1>7, <1>8, <1>9


(* A token is one more event, of no consequence to what run() assembles.    *)
LEMMA TokensKeep ==
  ASSUME SdkInv, [SdkNext]_allVars, NEW n \in wf.nodes, EmitToken(n)
  PROVE  SdkInv'
<1> DEFINE e == Event("llm_token", n)
           more == IF BySdk THEN <<e>> ELSE <<>>
<1>1. IInv' /\ UNCHANGED <<vars, stream, sdkLocals, handle>>
  BY GraphIsKept DEF EmitToken
<1>2. /\ UNCHANGED <<wf, checkpointed, phase, updates, interrupted, nodeStates, outputs, artifacts>>
      /\ UNCHANGED <<seen, sawInterrupt, lastOutputs, lastArtifacts>>
  BY <1>1 DEF vars, static, channels, sdkLocals
<1>3. phase = "running"
  BY DEF EmitToken, IsExecuting
<1>4. ~Settled /\ ~Settled' /\ (BySdk' <=> BySdk)
  BY <1>1, <1>2, <1>3 DEF SdkInv, StopsMeanWhatTheySay, Settled, BySdk
<1>5. e \in RunEvents /\ e.kind = "llm_token"
  BY DEF RunEvents, EventKinds, Event
<1> HIDE DEF e
<1>6. events \in Seq(RunEvents) /\ more \in Seq(RunEvents)
  BY <1>5 DEF SdkInv, Typed
<1>7. \A i \in DOMAIN more : more[i].kind = "llm_token"
  BY <1>5
<1>8. events' = events \o more
  BY <1>6 DEF EmitToken, EmitRunEvent, e
<1> HIDE DEF more
<1>9. EndsAreTold' /\ SentinelIsLast'
  BY <1>2, <1>4, <1>6, <1>7, <1>8, OtherEventsKeepTheEnds, NoSentinelYet DEF SdkInv
<1>10. Typed'
  <2>1. events' \in Seq(RunEvents)
    BY <1>6, <1>8, ConcatProperties
  <2> QED  BY <1>1, <1>2, <2>1 DEF SdkInv, Typed, Chunks, RunEvents
<1>11. DrivenByOthers'
  <2>1. ~BySdk => events' = events
    BY DEF EmitToken, EmitRunEvent
  <2> QED  BY <1>1, <1>2, <2>1 DEF SdkInv, DrivenByOthers, BySdk
<1>12. StreamedOnce' /\ StopsMeanWhatTheySay'
  BY <1>1, <1>2, <1>4 DEF SdkInv, StreamedOnce, StopsMeanWhatTheySay
<1>13. BySdk => StreamIsTheStep' /\ AssembledIsCurrent'
  BY <1>1, <1>2, <1>3 DEF SdkInv, StreamIsTheStep, AssembledIsCurrent, IsStreamed, Done, OutputsWith,
                          ArtifactsWith
<1>14. HandleTellsTheTruth' /\ ResultMatchesState'
  BY <1>4 DEF HandleTellsTheTruth, ResultMatchesState
<1> QED  BY <1>1, <1>4, <1>9, <1>10, <1>11, <1>12, <1>13, <1>14 DEF SdkInv

-------------------------------------------------------------------------------
(* run() takes the first chunk of the stream.                               *)
LEMMA FirstChunk ==
  ASSUME stream \in Seq(Chunks), stream # <<>>, stream' = Tail(stream)
  PROVE  /\ Head(stream) = stream[1] /\ 1 \in DOMAIN stream /\ Head(stream) \in Chunks
         /\ stream' \in Seq(Chunks)
         /\ \A i \in DOMAIN stream' : i + 1 \in DOMAIN stream /\ i + 1 # 1 /\ stream'[i] = stream[i + 1]
         /\ \A i \in DOMAIN stream : i # 1 => i - 1 \in DOMAIN stream' /\ stream[i] = stream'[i - 1]
         /\ \A i, j \in DOMAIN stream' : i + 1 = j + 1 => i = j
<1>1. Head(stream) = stream[1] /\ 1 \in DOMAIN stream /\ Head(stream) \in Chunks
  BY HeadTailProperties
<1>2. /\ Len(stream) \in Nat /\ DOMAIN stream = 1 .. Len(stream)
      /\ stream' \in Seq(Chunks) /\ Len(stream') = Len(stream) - 1
      /\ DOMAIN stream' = 1 .. Len(stream) - 1
      /\ \A i \in 1 .. Len(stream) - 1 : stream'[i] = stream[i + 1]
  BY HeadTailProperties
<1>3. \A i \in DOMAIN stream' : i + 1 \in DOMAIN stream /\ i + 1 # 1 /\ stream'[i] = stream[i + 1]
  BY <1>2
<1>4. \A i \in DOMAIN stream : i # 1 => i - 1 \in DOMAIN stream' /\ stream[i] = stream'[i - 1]
  BY <1>2
<1>5. \A i, j \in DOMAIN stream' : i + 1 = j + 1 => i = j
  BY <1>2
<1> QED  BY <1>1, <1>2, <1>3, <1>4, <1>5


(* Chunks come only in a run that run() drives and has not settled.         *)
LEMMA ChunksAreOfARun ==
  ASSUME SdkInv, stream # <<>>
  PROVE  ~Settled /\ BySdk /\ phase # "ready" /\ phase # "done"
<1>1. ~Settled /\ BySdk /\ phase # "ready"
  BY DEF SdkInv, StopsMeanWhatTheySay, DrivenByOthers, BySdk
<1>2. CASE phase = "done"
  <2>1. interrupted = {} /\ DOMAIN updates = {} /\ StreamIsTheStep
    BY <1>1, <1>2 DEF SdkInv, StopsMeanWhatTheySay
  <2>2. 1 \in DOMAIN stream
    BY HeadTailProperties DEF SdkInv, Typed
  <2> QED  BY <2>1, <2>2 DEF StreamIsTheStep
<1> QED  BY <1>1, <1>2

LEMMA InterruptsKeep ==
  ASSUME SdkInv, [SdkNext]_allVars, ConsumeInterrupt
  PROVE  SdkInv'
<1> DEFINE e == Event("hitl_paused", NoNode)
           more == <<e>>
           first == Head(stream)
<1>1. /\ IInv' /\ UNCHANGED <<vars, seen, lastOutputs, lastArtifacts, handle>>
      /\ stream # <<>> /\ stream' = Tail(stream) /\ first.kind = "interrupt" /\ sawInterrupt' = TRUE
  BY GraphIsKept DEF ConsumeInterrupt
<1>2. UNCHANGED <<wf, checkpointed, phase, updates, interrupted, nodeStates, outputs, artifacts>>
  BY <1>1 DEF vars, static, channels
<1>3. ~Settled /\ BySdk /\ phase # "ready" /\ phase # "done"
  BY <1>1, ChunksAreOfARun
<1>4. ~Settled' /\ BySdk'
  BY <1>1, <1>2, <1>3 DEF Settled, BySdk
<1>5. stream \in Seq(Chunks) /\ events \in Seq(RunEvents) /\ StreamedOnce
  BY DEF SdkInv, Typed
<1>6. e \in RunEvents /\ e.kind = "hitl_paused"
  BY DEF RunEvents, EventKinds, Event
<1>7. events' = Append(events, e)
  BY DEF ConsumeInterrupt
<1> HIDE DEF e
<1>8. more \in Seq(RunEvents) /\ \A i \in DOMAIN more : more[i].kind = "hitl_paused"
  BY <1>6
<1>9. events' = events \o more
  BY <1>5, <1>6, <1>7
<1> HIDE DEF more, first
<1>10. EndsAreTold' /\ SentinelIsLast'
  BY <1>1, <1>3, <1>4, <1>5, <1>8, <1>9, OtherEventsKeepTheEnds, NoSentinelYet DEF SdkInv
<1>11. /\ first = stream[1] /\ 1 \in DOMAIN stream /\ first \in Chunks
       /\ stream' \in Seq(Chunks)
       /\ \A i \in DOMAIN stream' : i + 1 \in DOMAIN stream /\ i + 1 # 1 /\ stream'[i] = stream[i + 1]
       /\ \A i \in DOMAIN stream : i # 1 => i - 1 \in DOMAIN stream' /\ stream[i] = stream'[i - 1]
       /\ \A i, j \in DOMAIN stream' : i + 1 = j + 1 => i = j
  BY <1>1, <1>5, FirstChunk DEF first
<1>12. Typed'
  <2>1. events' \in Seq(RunEvents)
    BY <1>5, <1>8, <1>9, ConcatProperties
  <2> QED  BY <1>1, <1>2, <1>11, <2>1 DEF SdkInv, Typed, Chunks, RunEvents
<1>13. StreamedOnce'
  BY <1>1, <1>5, <1>11 DEF StreamedOnce
<1>14. DrivenByOthers' /\ StopsMeanWhatTheySay'
  BY <1>2, <1>3, <1>4 DEF SdkInv, DrivenByOthers, StopsMeanWhatTheySay, BySdk
<1>15. ASSUME phase # "crashed"
       PROVE  StreamIsTheStep' /\ AssembledIsCurrent'
  <2>1. StreamIsTheStep /\ AssembledIsCurrent
    BY <1>3, <1>15 DEF SdkInv
  <2>2. ASSUME NEW m
        PROVE  IsStreamed(m)' <=> IsStreamed(m)
    <3>1. ASSUME NEW i \in DOMAIN stream, stream[i].kind = "update", stream[i].node = m
          PROVE  \E j \in DOMAIN stream' : stream'[j].kind = "update" /\ stream'[j].node = m
      <4>1. i # 1
        BY <1>1, <1>11, <3>1
      <4> QED  BY <1>11, <3>1, <4>1
    <3>2. ASSUME NEW i \in DOMAIN stream', stream'[i].kind = "update", stream'[i].node = m
          PROVE  IsStreamed(m)
      BY <1>11, <3>2 DEF IsStreamed
    <3> QED  BY <3>1, <3>2 DEF IsStreamed
  <2>3. interrupted # {}
    BY <1>1, <1>11, <2>1 DEF StreamIsTheStep
  <2>4. Done' = Done
    BY <1>2 DEF Done
  <2>5. \A i \in DOMAIN stream' :
          IF stream'[i].kind = "interrupt" THEN stream'[i].node \in interrupted'
          ELSE /\ stream'[i].node \in DOMAIN updates'
               /\ stream'[i].update = updates'[stream'[i].node]
    BY <1>2, <1>11, <2>1 DEF StreamIsTheStep
  <2>6. DOMAIN seen' = Done' \cup {m \in DOMAIN updates' : ~IsStreamed(m)'}
    BY <1>1, <1>2, <2>1, <2>2, <2>4 DEF StreamIsTheStep
  <2>7. \A m \in DOMAIN seen' :
          seen'[m] = IF m \in Done' THEN nodeStates'[m].status ELSE updates'[m].state.status
    BY <1>1, <1>2, <2>1, <2>4 DEF StreamIsTheStep
  <2>8. StreamIsTheStep'
    BY <1>1, <1>2, <2>3, <2>5, <2>6, <2>7 DEF StreamIsTheStep, IsStreamed
  <2>9. AssembledIsCurrent'
    BY <1>1, <1>2, <2>1, <2>4 DEF AssembledIsCurrent, OutputsWith, ArtifactsWith
  <2> QED  BY <2>8, <2>9
<1>16. HandleTellsTheTruth' /\ ResultMatchesState'
  BY <1>4 DEF HandleTellsTheTruth, ResultMatchesState
<1> QED  BY <1>1, <1>2, <1>10, <1>12, <1>13, <1>14, <1>15, <1>16 DEF SdkInv

(* Adding a pair is adding the one and then the other.                      *)
LEMMA PairIsConcat ==
  ASSUME NEW S, NEW q \in Seq(S), NEW s \in S, NEW e \in S
  PROVE  q \o <<s>> \o <<e>> = q \o <<s, e>>
<1>1. <<s>> \in Seq(S) /\ <<e>> \in Seq(S)
  OBVIOUS
<1>2. /\ <<s, e>> \in Seq(S) /\ Len(<<s, e>>) = 2 /\ <<s, e>>[1] = s /\ <<s, e>>[2] = e
  OBVIOUS
<1>3. /\ <<s>> \o <<e>> \in Seq(S) /\ Len(<<s>> \o <<e>>) = 2
      /\ (<<s>> \o <<e>>)[1] = s /\ (<<s>> \o <<e>>)[2] = e
  <2>1. Len(<<s>>) = 1 /\ Len(<<e>>) = 1 /\ <<s>>[1] = s /\ <<e>>[1] = e
    OBVIOUS
  <2> QED  BY <1>1, <2>1, ConcatProperties
<1>4. \A i \in 1 .. Len(<<s>> \o <<e>>) : i = 1 \/ i = 2
  BY <1>3
<1>5. <<s>> \o <<e>> = <<s, e>>
  BY <1>2, <1>3, <1>4, SeqEqual
<1>6. q \o <<s>> \o <<e>> = q \o (<<s>> \o <<e>>)
  BY <1>1, ConcatAssociative
<1> QED  BY <1>5, <1>6

(* The start and the end of a node that is new are told together.           *)
LEMMA NodeIsTold ==
  ASSUME EndsAreTold, NEW S, events \in Seq(S), NEW n, n \notin DOMAIN seen,
         DOMAIN seen' = DOMAIN seen \cup {n},
         NEW more \in Seq(S), more = <<Event("node_start", n), Event("node_end", n)>>,
         events' = events \o more
  PROVE  EndsAreTold'
<1>1. Len(more) = 2 /\ more[1] = Event("node_start", n) /\ more[2] = Event("node_end", n)
  OBVIOUS
<1>2. /\ Len(events) \in Nat /\ DOMAIN events = 1 .. Len(events)
      /\ DOMAIN events' = 1 .. Len(events) + 2
      /\ \A i \in 1 .. Len(events) : events'[i] = events[i]
      /\ \A i \in 1 .. Len(events) + 2 : i > Len(events) => events'[i] = more[i - Len(events)]
  BY <1>1, ConcatProperties
<1> DEFINE k == Len(events) + 1
           l == Len(events) + 2
<1>3. /\ k \in DOMAIN events' /\ l \in DOMAIN events' /\ l > 1 /\ l - 1 = k
      /\ k > Len(events) /\ l > Len(events) /\ k - Len(events) = 1 /\ l - Len(events) = 2
      /\ DOMAIN events' = DOMAIN events \cup {k, l}
  BY <1>2
<1>4. events'[k] = Event("node_start", n) /\ events'[l] = Event("node_end", n)
  BY <1>1, <1>2, <1>3
<1>5. /\ Event("node_start", n).kind = "node_start" /\ Event("node_end", n).kind = "node_end"
      /\ Event("node_start", n).node = n /\ Event("node_end", n).node = n
  BY DEF Event
<1>6. \A i \in DOMAIN events : i \in Int /\ events'[i] = events[i]
  BY <1>2
<1> HIDE DEF k, l
<1>7. ASSUME NEW i \in DOMAIN events, events[i].kind = "node_end"
      PROVE  /\ i > 1 /\ events'[i - 1] = Event("node_start", events[i].node)
             /\ events[i].node \in DOMAIN seen
             /\ \A j \in DOMAIN events' : events'[j] = events[i] => j = i
  <2>1. /\ i > 1 /\ events[i - 1] = Event("node_start", events[i].node)
        /\ events[i].node \in DOMAIN seen
        /\ \A j \in DOMAIN events : events[j] = events[i] => j = i
    BY <1>7 DEF EndsAreTold
  <2>2. i - 1 \in DOMAIN events
    BY <1>2, <2>1
  <2>3. events'[k] # events[i] /\ events'[l] # events[i]
    BY <1>4, <1>5, <1>7, <2>1
  <2> QED  BY <1>3, <1>6, <2>1, <2>2, <2>3
<1>8. /\ events'[l - 1] = Event("node_start", events'[l].node) /\ events'[l].node = n
      /\ \A j \in DOMAIN events' : events'[j] = events'[l] => j = l
  <2>1. ASSUME NEW j \in DOMAIN events, events[j] = events'[l]
        PROVE  FALSE
    <3>1. events[j].kind = "node_end" /\ events[j].node = n
      BY <1>4, <1>5, <2>1
    <3> QED  BY <3>1 DEF EndsAreTold
  <2>2. events'[k] # events'[l]
    BY <1>4, <1>5
  <2> QED  BY <1>3, <1>4, <1>5, <1>6, <2>1, <2>2
<1>9. ASSUME NEW i \in DOMAIN events', events'[i].kind = "node_end"
      PROVE  /\ i > 1 /\ events'[i - 1] = Event("node_start", events'[i].node)
             /\ events'[i].node \in DOMAIN seen'
             /\ \A j \in DOMAIN events' : events'[j] = events'[i] => j = i
  <2>1. CASE i \in DOMAIN events
    <3>1. events'[i] = events[i]
      BY <1>6, <2>1
    <3> QED  BY <1>7, <1>9, <2>1, <3>1
  <2>2. CASE i = l
    BY <1>3, <1>8, <2>2
  <2>3. i # k
    BY <1>4, <1>5, <1>9
  <2> QED  BY <1>3, <2>1, <2>2, <2>3
<1>10. ASSUME NEW m \in DOMAIN seen'
       PROVE  \E i \in DOMAIN events' : events'[i] = Event("node_end", m)
  <2>1. CASE m \in DOMAIN seen
    <3>1. PICK i \in DOMAIN events : events[i] = Event("node_end", m)
      BY <2>1 DEF EndsAreTold
    <3> QED  BY <1>3, <1>6, <3>1
  <2>2. CASE m = n
    BY <1>3, <1>4, <2>2
  <2> QED  BY <2>1, <2>2
<1> QED  BY <1>9, <1>10 DEF EndsAreTold, Event


(* An update makes its node seen, and what run() assembles what the         *)
(* channels will be when it is the update that is applied.                  *)
LEMMA UpdatesKeep ==
  ASSUME SdkInv, [SdkNext]_allVars, ConsumeUpdate
  PROVE  SdkInv'
<1> DEFINE first == Head(stream)
           n == first.node
           u == first.update
           more == <<Event("node_start", n), Event("node_end", n)>>
<1>1. /\ IInv' /\ UNCHANGED <<vars, sawInterrupt, handle>>
      /\ stream # <<>> /\ stream' = Tail(stream) /\ first.kind = "update"
      /\ lastOutputs' = OutputsAfter(n, u) /\ lastArtifacts' = ArtifactsAfter(n, u)
      /\ seen' = [m \in DOMAIN seen \cup {n} |-> IF m = n THEN u.state.status ELSE seen[m]]
  BY GraphIsKept DEF ConsumeUpdate
<1>2. UNCHANGED <<wf, checkpointed, phase, updates, interrupted, nodeStates, outputs, artifacts>>
  BY <1>1 DEF vars, static, channels
<1>3. ~Settled /\ BySdk /\ phase # "ready" /\ phase # "done"
  BY <1>1, ChunksAreOfARun
<1>4. ~Settled' /\ BySdk'
  BY <1>1, <1>2, <1>3 DEF Settled, BySdk
<1>5. stream \in Seq(Chunks) /\ events \in Seq(RunEvents) /\ StreamedOnce
  BY DEF SdkInv, Typed
<1>6. /\ first = stream[1] /\ 1 \in DOMAIN stream /\ first \in Chunks
      /\ stream' \in Seq(Chunks)
      /\ \A i \in DOMAIN stream' : i + 1 \in DOMAIN stream /\ i + 1 # 1 /\ stream'[i] = stream[i + 1]
      /\ \A i \in DOMAIN stream : i # 1 => i - 1 \in DOMAIN stream' /\ stream[i] = stream'[i - 1]
      /\ \A i, j \in DOMAIN stream' : i + 1 = j + 1 => i = j
  BY <1>1, <1>5, FirstChunk
<1>7. n \in wf.nodes /\ u \in Updates /\ n \notin DOMAIN seen
  <2>1. n \in wf.nodes /\ u \in Updates
    BY <1>1, <1>6 DEF Chunks
  <2>2. n \notin DOMAIN seen
    BY <1>1, <1>5, <1>6 DEF StreamedOnce
  <2> QED  BY <2>1, <2>2
<1>8. DOMAIN seen' = DOMAIN seen \cup {n} /\ seen'[n] = u.state.status
      /\ \A m \in DOMAIN seen : seen'[m] = seen[m]
  BY <1>1, <1>7
<1>9. more \in Seq(RunEvents) /\ \A i \in DOMAIN more : more[i].kind \in {"node_start", "node_end"}
  <2>1. /\ Event("node_start", n) \in RunEvents /\ Event("node_end", n) \in RunEvents
        /\ Event("node_start", n).kind = "node_start" /\ Event("node_end", n).kind = "node_end"
    BY <1>7 DEF RunEvents, EventKinds, Event
  <2> QED  BY <2>1
<1>10. events' = events \o more
  <2> DEFINE s == Event("node_start", n)
             e == Event("node_end", n)
  <2>1. events' = events \o <<s>> \o <<e>>
    BY <1>7 DEF ConsumeUpdate
  <2>2. s \in RunEvents /\ e \in RunEvents
    BY <1>7 DEF RunEvents, EventKinds, Event
  <2> HIDE DEF s, e
  <2>3. events \o <<s>> \o <<e>> = events \o <<s, e>>
    BY <1>5, <2>2, PairIsConcat
  <2> QED  BY <2>1, <2>3 DEF s, e
<1>11. EndsAreTold'
  <2> HIDE DEF n
  <2> QED  BY <1>5, <1>7, <1>8, <1>9, <1>10, NodeIsTold DEF SdkInv
<1> HIDE DEF more, first
<1>12. SentinelIsLast'
  BY <1>3, <1>4, <1>5, <1>9, <1>10, NoSentinelYet DEF SdkInv
<1> HIDE DEF n, u
<1>13. Typed'
  <2>1. events' \in Seq(RunEvents)
    BY <1>5, <1>9, <1>10, ConcatProperties
  <2>2. lastOutputs' \in SUBSET (wf.nodes \cup {ErrorKey})
    BY <1>1, <1>7 DEF SdkInv, Typed, IInv, TypeOK, OutputsAfter, Updates
  <2>3. lastArtifacts' \in Seq(wf.nodes)
    <3>1. lastArtifacts \in Seq(wf.nodes) /\ artifacts \in Seq(wf.nodes)
      BY DEF SdkInv, Typed, IInv, TypeOK
    <3>2. Append(artifacts, n) \in Seq(wf.nodes)
      BY <1>7, <3>1, AppendProperties
    <3> QED  BY <1>1, <1>7, <3>1, <3>2 DEF ArtifactsAfter, Updates
  <2>4. /\ DOMAIN seen' \subseteq wf.nodes
        /\ \A m \in DOMAIN seen' : seen'[m] \in {"succeeded", "failed", "skipped"}
    BY <1>7, <1>8 DEF SdkInv, Typed, Updates, NodeStates
  <2> QED  BY <1>1, <1>2, <1>6, <2>1, <2>2, <2>3, <2>4 DEF SdkInv, Typed, Chunks, RunEvents
<1>14. StreamedOnce'
  <2>1. ASSUME NEW i \in DOMAIN stream', NEW j \in DOMAIN stream', stream'[i].node = stream'[j].node
        PROVE  i = j
    <3>1. stream[i + 1].node = stream[j + 1].node /\ i + 1 \in DOMAIN stream /\ j + 1 \in DOMAIN stream
      BY <1>6, <2>1
    <3>2. i + 1 = j + 1
      BY <1>5, <3>1 DEF StreamedOnce
    <3> QED  BY <1>6, <3>2
  <2>2. ASSUME NEW i \in DOMAIN stream', stream'[i].kind = "update"
        PROVE  stream'[i].node \notin DOMAIN seen'
    <3>1. stream'[i].node \notin DOMAIN seen
      BY <1>5, <1>6, <2>2 DEF StreamedOnce
    <3>2. stream'[i].node # n
      BY <1>5, <1>6 DEF StreamedOnce, n
    <3> QED  BY <1>8, <3>1, <3>2
  <2> QED  BY <2>1, <2>2 DEF StreamedOnce
<1>15. DrivenByOthers' /\ StopsMeanWhatTheySay'
  BY <1>2, <1>3, <1>4 DEF SdkInv, DrivenByOthers, StopsMeanWhatTheySay, BySdk
<1>16. ASSUME phase # "crashed"
       PROVE  StreamIsTheStep' /\ AssembledIsCurrent'
  <2>1. StreamIsTheStep /\ AssembledIsCurrent
    BY <1>3, <1>16 DEF SdkInv
  <2>2. n \in DOMAIN updates /\ u = updates[n] /\ IsStreamed(n)
    BY <1>1, <1>6, <2>1 DEF StreamIsTheStep, IsStreamed, n, u
  <2>3. n \notin Done /\ Done' = Done
    BY <1>2, <2>2 DEF SdkInv, IInv, Active, Done
  <2>4. ASSUME NEW m
        PROVE  IsStreamed(m)' <=> IsStreamed(m) /\ m # n
    <3>1. ASSUME NEW i \in DOMAIN stream, stream[i].kind = "update", stream[i].node = m, m # n
          PROVE  \E j \in DOMAIN stream' : stream'[j].kind = "update" /\ stream'[j].node = m
      <4>1. i # 1
        BY <1>6, <3>1 DEF n
      <4> QED  BY <1>6, <3>1, <4>1
    <3>2. ASSUME NEW i \in DOMAIN stream', stream'[i].kind = "update", stream'[i].node = m
          PROVE  IsStreamed(m) /\ m # n
      <4>1. m # n
        BY <1>5, <1>6, <3>2 DEF StreamedOnce, n
      <4> QED  BY <1>6, <3>2, <4>1 DEF IsStreamed
    <3> QED  BY <3>1, <3>2 DEF IsStreamed
  <2>5. \A i \in DOMAIN stream' :
          IF stream'[i].kind = "interrupt" THEN stream'[i].node \in interrupted'
          ELSE /\ stream'[i].node \in DOMAIN updates'
               /\ stream'[i].update = updates'[stream'[i].node]
    BY <1>2, <1>6, <2>1 DEF StreamIsTheStep
  <2>6. DOMAIN seen' = Done' \cup {m \in DOMAIN updates' : ~IsStreamed(m)'}
    BY <1>2, <1>8, <2>1, <2>2, <2>3, <2>4 DEF StreamIsTheStep
  <2>7. \A m \in DOMAIN seen' :
          seen'[m] = IF m \in Done' THEN nodeStates'[m].status ELSE updates'[m].state.status
    BY <1>2, <1>8, <2>1, <2>2, <2>3 DEF StreamIsTheStep
  <2>8. interrupted' # {} <=> sawInterrupt' \/ \E i \in DOMAIN stream' : stream'[i].kind = "interrupt"
    <3>1. (\E i \in DOMAIN stream' : stream'[i].kind = "interrupt")
            <=> \E i \in DOMAIN stream : stream[i].kind = "interrupt"
      <4>1. ASSUME NEW i \in DOMAIN stream, stream[i].kind = "interrupt"
            PROVE  \E j \in DOMAIN stream' : stream'[j].kind = "interrupt"
        <5>1. i # 1
          BY <1>1, <1>6, <4>1
        <5> QED  BY <1>6, <4>1, <5>1
      <4>2. ASSUME NEW i \in DOMAIN stream', stream'[i].kind = "interrupt"
            PROVE  \E j \in DOMAIN stream : stream[j].kind = "interrupt"
        BY <1>6, <4>2
      <4> QED  BY <4>1, <4>2
    <3> QED  BY <1>1, <1>2, <2>1, <3>1 DEF StreamIsTheStep
  <2>9. StreamIsTheStep'
    BY <2>5, <2>6, <2>7, <2>8 DEF StreamIsTheStep, IsStreamed
  <2>10. ASSUME DOMAIN updates = {n}
         PROVE  lastOutputs' = OutputsWith(n) /\ lastArtifacts' = ArtifactsWith(n)
    <3>1. DOMAIN seen = Done
      BY <1>7, <2>1, <2>10 DEF StreamIsTheStep
    <3>2. lastOutputs = outputs /\ lastArtifacts = artifacts
      BY <2>1, <3>1 DEF AssembledIsCurrent
    <3>3. u.outputs \in {"keep", "result", "error"} /\ u.artifacts \in {"keep", "copy", "append"}
      BY <1>7 DEF Updates
    <3>4. OutputsAfter(n, u) = OutputsWith(n)
      BY <2>2, <3>2, <3>3 DEF OutputsAfter, OutputsWith
    <3>5. ArtifactsAfter(n, u) = ArtifactsWith(n)
      BY <2>2, <3>2, <3>3 DEF ArtifactsAfter, ArtifactsWith
    <3> QED  BY <1>1, <3>4, <3>5
  <2>11. DOMAIN seen' # Done'
    BY <1>8, <2>3
  <2>12. \A m \in DOMAIN updates' \cap DOMAIN seen' :
           DOMAIN updates' = {m} => lastOutputs' = OutputsWith(m)' /\ lastArtifacts' = ArtifactsWith(m)'
    BY <1>2, <2>2, <2>10 DEF OutputsWith, ArtifactsWith
  <2> QED  BY <2>9, <2>11, <2>12 DEF AssembledIsCurrent, OutputsWith, ArtifactsWith
<1>17. HandleTellsTheTruth' /\ ResultMatchesState'
  BY <1>4 DEF HandleTellsTheTruth, ResultMatchesState
<1> QED  BY <1>1, <1>2, <1>11, <1>12, <1>13, <1>14, <1>15, <1>16, <1>17 DEF SdkInv


-------------------------------------------------------------------------------
(* run() ends: the sentinel, the status and the result.                     *)
LEMMA ReturningKeeps ==
  ASSUME SdkInv, [SdkNext]_allVars, RunReturns
  PROVE  SdkInv'
<1> DEFINE none == << >>
           more == <<Sentinel>>
<1>1. /\ IInv' /\ UNCHANGED <<vars, stream, sdkLocals>>
      /\ BySdk /\ phase \in {"paused", "done"} /\ stream = <<>>
      /\ events' = Append(events, Sentinel)
      /\ handle' = IF sawInterrupt THEN [status |-> "paused", result |-> NoResult]
                   ELSE [status |-> IF AnyNodeFailed THEN "failed" ELSE "succeeded",
                         result |-> [outputs |-> lastOutputs, artifacts |-> lastArtifacts]]
  BY GraphIsKept DEF RunReturns, EngineStopped
<1>2. /\ UNCHANGED <<wf, checkpointed, phase, updates, interrupted, nodeStates, outputs, artifacts>>
      /\ UNCHANGED <<seen, sawInterrupt, lastOutputs, lastArtifacts>>
  BY <1>1 DEF vars, static, channels, sdkLocals
<1>3. ~Settled /\ Settled' /\ BySdk' /\ handle'.status \in Statuses
  BY <1>1, <1>2 DEF RunReturns, Settled, BySdk, Statuses
<1>4. /\ Sentinel \in RunEvents /\ Sentinel.kind = "sentinel"
      /\ events \in Seq(RunEvents) /\ none \in Seq(RunEvents) /\ DOMAIN none = {}
  BY DEF SdkInv, Typed, RunEvents, EventKinds, Event, Sentinel
<1>5. events' = Append(events \o none, Sentinel)
  BY <1>1, <1>4, ConcatEmptySeq
<1>6. more \in Seq(RunEvents) /\ \A i \in DOMAIN more : more[i].kind = "sentinel"
  BY <1>4
<1>7. events' = events \o more
  BY <1>1, <1>4, AppendIsConcat
<1> HIDE DEF none, more
<1>8. EndsAreTold' /\ SentinelIsLast'
  BY <1>2, <1>3, <1>4, <1>5, <1>6, <1>7, OtherEventsKeepTheEnds, SentinelEnds DEF SdkInv
<1>9. Typed'
  <2>1. events' \in Seq(RunEvents)
    BY <1>4, <1>6, <1>7, ConcatProperties
  <2> QED  BY <1>1, <1>2, <1>3, <2>1 DEF SdkInv, Typed, Chunks, RunEvents
<1>10. DrivenByOthers' /\ StreamedOnce' /\ StopsMeanWhatTheySay'
  BY <1>1, <1>2, <1>3 DEF SdkInv, DrivenByOthers, StreamedOnce, StopsMeanWhatTheySay, BySdk
<1>11. StreamIsTheStep /\ AssembledIsCurrent
  BY <1>1 DEF SdkInv
<1>12. StreamIsTheStep' /\ AssembledIsCurrent'
  BY <1>1, <1>2, <1>11 DEF StreamIsTheStep, AssembledIsCurrent, IsStreamed, Done, OutputsWith,
                           ArtifactsWith
<1>13. interrupted # {} <=> sawInterrupt
  BY <1>1, <1>11 DEF StreamIsTheStep
<1>14. CASE phase = "paused"
  <2>1. interrupted # {} /\ handle'.status = "paused"
    BY <1>1, <1>13, <1>14 DEF SdkInv, StopsMeanWhatTheySay
  <2>2. HandleTellsTheTruth' /\ ResultMatchesState'
    BY <1>2, <1>14, <2>1 DEF HandleTellsTheTruth, ResultMatchesState
  <2> QED  BY <1>1, <1>8, <1>9, <1>10, <1>12, <2>2 DEF SdkInv
<1>15. CASE phase = "done"
  <2>1. interrupted = {} /\ DOMAIN updates = {} /\ Done = wf.nodes
    BY <1>15 DEF SdkInv, StopsMeanWhatTheySay, IInv, PhasesMeanWhatTheySay
  <2>2. DOMAIN seen = Done /\ \A n \in Done : seen[n] = nodeStates[n].status
    BY <2>1, <1>11 DEF StreamIsTheStep
  <2>3. /\ handle'.status = IF AnyNodeFailed THEN "failed" ELSE "succeeded"
        /\ handle'.result = [outputs |-> outputs, artifacts |-> artifacts]
    BY <1>1, <1>11, <1>13, <2>1, <2>2 DEF AssembledIsCurrent
  <2>4. AnyNodeFailed <=> \E n \in Done : nodeStates[n].status = "failed"
    BY <2>2 DEF AnyNodeFailed
  <2>5. HandleTellsTheTruth'
    <3>1. CASE AnyNodeFailed
      <4>1. handle'.status = "failed" /\ \E n \in DOMAIN nodeStates' : nodeStates'[n].status = "failed"
        BY <1>2, <2>3, <2>4, <3>1 DEF Done
      <4> QED  BY <4>1 DEF HandleTellsTheTruth, Status
    <3>2. CASE ~AnyNodeFailed
      <4>1. handle'.status = "succeeded" /\ DOMAIN nodeStates' = wf'.nodes
            /\ \A n \in wf'.nodes : nodeStates'[n].status # "failed"
        BY <1>2, <2>1, <2>3, <2>4, <3>2 DEF Done
      <4> QED  BY <4>1 DEF HandleTellsTheTruth, Status
    <3> QED  BY <3>1, <3>2
  <2>6. ResultMatchesState'
    BY <1>2, <2>3 DEF ResultMatchesState
  <2> QED  BY <1>1, <1>8, <1>9, <1>10, <1>12, <2>5, <2>6 DEF SdkInv
<1> QED  BY <1>1, <1>14, <1>15

LEMMA RaisingKeeps ==
  ASSUME SdkInv, [SdkNext]_allVars, RunRaises
  PROVE  SdkInv'
<1> DEFINE error == Event("error", NoNode)
           one == <<error>>
           more == <<error, Sentinel>>
<1>1. /\ IInv' /\ UNCHANGED <<vars, stream, sdkLocals>>
      /\ BySdk /\ phase = "crashed" /\ stream = <<>>
      /\ events' = events \o more
      /\ handle' = [status |-> "failed", result |-> NoResult]
  BY GraphIsKept DEF RunRaises, FailureEvents
<1>2. /\ UNCHANGED <<wf, checkpointed, phase, updates, interrupted, nodeStates, outputs, artifacts>>
      /\ UNCHANGED <<seen, sawInterrupt, lastOutputs, lastArtifacts>>
  BY <1>1 DEF vars, static, channels, sdkLocals
<1>3. ~Settled /\ Settled' /\ BySdk' /\ handle'.status \in Statuses
  BY <1>1, <1>2 DEF RunRaises, Settled, BySdk, Statuses
<1>4. /\ Sentinel \in RunEvents /\ Sentinel.kind = "sentinel"
      /\ error \in RunEvents /\ error.kind = "error"
      /\ events \in Seq(RunEvents)
  BY DEF SdkInv, Typed, RunEvents, EventKinds, Event, Sentinel
<1> HIDE DEF error
<1>5. /\ one \in Seq(RunEvents) /\ \A i \in DOMAIN one : one[i].kind = "error"
      /\ more \in Seq(RunEvents) /\ \A i \in DOMAIN more : more[i].kind \in {"error", "sentinel"}
  BY <1>4
<1>6. events' = Append(events \o one, Sentinel)
  <2>1. events \o one \in Seq(RunEvents)
    BY <1>4, <1>5, ConcatProperties
  <2>2. Append(events \o one, Sentinel) = events \o one \o <<Sentinel>>
    BY <1>4, <2>1, AppendIsConcat
  <2> QED  BY <1>1, <1>4, <2>2, PairIsConcat
<1> HIDE DEF one, more
<1>7. EndsAreTold' /\ SentinelIsLast'
  BY <1>1, <1>2, <1>3, <1>4, <1>5, <1>6, OtherEventsKeepTheEnds, SentinelEnds DEF SdkInv
<1>8. Typed'
  <2>1. events' \in Seq(RunEvents)
    BY <1>1, <1>4, <1>5, ConcatProperties
  <2> QED  BY <1>1, <1>2, <1>3, <2>1 DEF SdkInv, Typed, Chunks, RunEvents
<1>9. DrivenByOthers' /\ StreamedOnce' /\ StopsMeanWhatTheySay'
  BY <1>1, <1>2, <1>3 DEF SdkInv, DrivenByOthers, StreamedOnce, StopsMeanWhatTheySay, BySdk
<1>10. HandleTellsTheTruth' /\ ResultMatchesState'
  BY <1>1, <1>2 DEF HandleTellsTheTruth, ResultMatchesState
<1> QED  BY <1>1, <1>2, <1>7, <1>8, <1>9, <1>10 DEF SdkInv

-------------------------------------------------------------------------------
LEMMA SdkNextKeeps == SdkInv /\ [SdkNext]_allVars => SdkInv'
<1> SUFFICES ASSUME SdkInv, [SdkNext]_allVars PROVE SdkInv'
  OBVIOUS
<1>1. CASE SdkInvoke
  BY <1>1, InvokingKeeps
<1>2. ASSUME NEW n \in wf.nodes, SdkTask(n) \/ EmitToken(n)
      PROVE  SdkInv'
  BY <1>2, TasksKeep, TokensKeep
<1>3. CASE SdkStepEnd
  BY <1>3, StepEndsKeep
<1>4. CASE ConsumeInterrupt \/ ConsumeUpdate
  BY <1>4, InterruptsKeep, UpdatesKeep
<1>5. CASE RunReturns \/ RunRaises
  BY <1>5, ReturningKeeps, RaisingKeeps
<1>6. ASSUME NEW a \in HitlActions, SdkResume(a)
      PROVE  SdkInv'
  BY <1>6, ResumingKeeps
<1>7. CASE UNCHANGED allVars
  <2>1. UNCHANGED sdkVars /\ UNCHANGED vars
    BY <1>7 DEF allVars
  <2>2. UNCHANGED <<wf, checkpointed, phase, updates, interrupted, nodeStates, outputs, artifacts>>
    BY <2>1 DEF vars, static, channels
  <2>3. UNCHANGED <<stream, seen, sawInterrupt, lastOutputs, lastArtifacts, handle>>
    BY <2>1 DEF sdkVars, sdkLocals
  <2>4. IInv' /\ Typed' /\ DrivenByOthers' /\ StreamedOnce' /\ EndsAreTold' /\ SentinelIsLast'
        /\ (Settled' <=> Settled) /\ (BySdk' <=> BySdk)
    BY <2>1, <2>2, GraphIsKept, QuietStepsKeep DEF BySdk
  <2>5. BySdk /\ phase # "crashed" => StreamIsTheStep' /\ AssembledIsCurrent'
    BY <2>2, <2>3 DEF SdkInv, StreamIsTheStep, AssembledIsCurrent, IsStreamed, Done, OutputsWith,
                      ArtifactsWith
  <2>6. StopsMeanWhatTheySay' /\ HandleTellsTheTruth' /\ ResultMatchesState'
    BY <2>2, <2>3, <2>4 DEF SdkInv, StopsMeanWhatTheySay, HandleTellsTheTruth, ResultMatchesState, Status
  <2> QED  BY <2>2, <2>4, <2>5, <2>6 DEF SdkInv
<1> QED  BY <1>1, <1>2, <1>3, <1>4, <1>5, <1>6, <1>7 DEF SdkNext, SdkStep

(* What run() knows is the step it is told of, whatever the workflow and    *)
(* wherever the engine, a crash or a gate stops.                            *)
THEOREM SdkInvariance == SdkSpec => []SdkInv
BY InitIsTheRun, SdkNextKeeps, PTL DEF SdkSpec

(* Every variable of a run that the SDK drives keeps its type.              *)
THEOREM SdkTypeCorrect == SdkSpec => []SdkTypeOK
<1>1. SdkInv => SdkTypeOK
  <2> SUFFICES ASSUME SdkInv PROVE SdkTypeOK
    OBVIOUS
  <2>1. TypeOK /\ Typed
    BY DEF SdkInv, IInv
  <2>2. \A i \in DOMAIN stream : stream[i] \in Chunks
    BY <2>1, ElementOfSeq, LenProperties DEF Typed
  <2>3. \A i \in DOMAIN events : events[i] \in RunEvents
    BY <2>1, ElementOfSeq, LenProperties DEF Typed
  <2>4. Range(seen) \subseteq {"succeeded", "failed", "skipped"}
    BY <2>1 DEF Typed, Range
  <2> QED  BY <2>1, <2>2, <2>3, <2>4 DEF Typed, SdkTypeOK, Chunks, RunEvents, EventKinds
<1> QED  BY <1>1, SdkInvariance, PTL

(* What a client reads from the handle is so: RunHandle.status says         *)
(* succeeded only of a run that recorded every node and none as failed,     *)
(* failed only when a node or the engine failed, paused only at a gate.     *)
THEOREM HandlesTellTheTruth == SdkSpec => []HandleTellsTheTruth
<1>1. SdkInv => HandleTellsTheTruth
  BY DEF SdkInv
<1> QED  BY <1>1, SdkInvariance, PTL

(* The result put together from the updates is the final state, although    *)
(* run() reads each update while the engine may already apply it.           *)
THEOREM ResultsAreTheState == SdkSpec => []ResultMatchesState
<1>1. SdkInv => ResultMatchesState
  BY DEF SdkInv
<1> QED  BY <1>1, SdkInvariance, PTL

(* The events of a run are complete and in order: a node is started and     *)
(* ended once, the sentinel is the last, and those of a run that ended are  *)
(* of the nodes that are recorded.                                          *)
THEOREM EventsAreComplete == SdkSpec => []EventsTellTheRun
<1>1. SdkInv => EventsTellTheRun
  <2> SUFFICES ASSUME SdkInv PROVE EventsTellTheRun
    OBVIOUS
  <2>1. EndsAreTold /\ SentinelIsLast
    BY DEF SdkInv
  <2>2. ASSUME Settled, phase = "done"
        PROVE  DOMAIN seen = DOMAIN nodeStates /\ \A n \in DOMAIN seen : seen[n] = Status(n)
    BY <2>2 DEF SdkInv, StopsMeanWhatTheySay, Settled, StreamIsTheStep, Done, Status
  <2> QED  BY <2>1, <2>2 DEF EventsTellTheRun, EndsAreTold, SentinelIsLast
<1> QED  BY <1>1, SdkInvariance, PTL

LEMMA SdkRunsAreRuns == SdkSpec => Runs
<1>1. SdkInit => Init
  BY DEF SdkInit
<1> QED  BY <1>1, SdkStepsAreGraphSteps, PTL DEF SdkSpec, Runs

(* The graph does not notice who drives it: a run of the SDK is one of the  *)
(* engine's, hence of the dependency graph's.                               *)
THEOREM SdkRunsTheGraph == SdkSpec => DagSpec
BY SdkRunsAreRuns, RefinementOfRuns

(* What is proved of the record of a graph holds of a run of the SDK: the   *)
(* records stay, no artifact is lost, and decisions reach their gate.       *)
THEOREM SdkKeepsTheRecord ==
  SdkSpec => RecordsAreFinal /\ []NoArtifactLost /\ []DecisionsReachTheirGate
BY SdkRunsAreRuns, RecordsStayOfRuns, ArtifactsReachOfRuns, DecisionsArriveOfRuns

(* The error channel tells of a run of the SDK what its records tell.       *)
THEOREM SdkReportsErrors ==
  ASSUME NoNodeIsCalledError
  PROVE  SdkSpec => []ErrorsAreReported
BY SdkRunsAreRuns, ErrorsReachOfRuns
===============================================================================
