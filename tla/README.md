# Hanflow, modelled

TLA+ modules, TLC runs and TLAPS proofs for Hanflow, a workflow engine for
LLM agents: a YAML workflow is validated, compiled to a LangGraph graph, run
by the SDK, and started, watched and decided on through an HTTP service.
Paths below are relative to `src/hanflow/` unless they start with `src/`.

```
 browser / CLI / webhook
        |  HTTP, WebSocket                         RunService
        v
 api/routes/* ---- _runs, _hitl_history, _subscribers (one process)
        |  await hf.run()          ^ handle, events
        v                          |
 sdk.py Hanflow.run ---------- RunHandle           SdkRun
        |  astream(updates)
        v
 compiler.py _wrap + LangGraph + HITLExecutor      GraphRun
        |  executors                (Workflow: the graph it runs;
        v                           DagExecution: what a run promises)
 Coordinator, Execution, Research ---- spans       AgentLoops, Trace
        |
        |  the runtime context (context_impl.py)
        +--> models/router.py + strategies + governance --> providers    ModelRouter
        +--> tools/bus.py + built-in tools                               ToolBus
        |        |  processes, exec
        |        v
        |    isolation/ , runtime/build_sandbox.py --> Docker daemon     Sandbox
        +--> memory/, persistence/ --> files, SQLite    FileStores, Persistence
        +--> retrieval/ --> embeddings, indexes                          Retrieval
```

## Inventory

| component | state it keeps | operations | how it interacts | what is hard |
| --- | --- | --- | --- | --- |
| Workflow definition (`core/dsl.py`) | none (immutable) | `from_yaml`, `_validate` | input of the compiler | which graphs get through |
| Compiler and node wrapper (`orchestration/compiler.py`, `core/state.py`) | channels of the graph: `node_states`, `outputs`, `artifacts`, `memory_ops` | `compile`, `_node_fn`, `_route` | called by LangGraph, calls executors | parallel tasks, each rewriting whole channels; error policies; joins |
| Control nodes (`nodes/control.py`) | `ctx.state.pending_hitl` | `HITLExecutor.run` | `interrupt()` of LangGraph | runs twice; the decision must find its gate |
| SDK (`sdk.py`) | `RunHandle` (status, result, queue); lazily built components | `run`, `stream`, `wait`, `_ensure_components` | drives the graph, feeds the queue | sentinel on every path; result rebuilt from partial updates; concurrent first runs |
| Runtime context (`context_impl.py`) | the run's state, queue | `emit_hitl`, `emit_run_event`, delegation | executors to router, bus, memory | tokens interleave with events |
| Run, HITL, webhook endpoints (`api/routes`) | `_runs`, `_hitl_history`, the semaphore | post, cancel, approve/edit/reject/reroute, trigger; `_drive` | await `Hanflow.run` and the resume hook | two reviewers; decisions on runs that ended; permits |
| WebSocket stream (`api/ws.py`, `runs_ws.py`) | `_subscribers` | subscribe, publish, unsubscribe | `_drive` publishes | late subscribers |
| Model router (`models/router.py`, `strategies/`) | none | `complete`, `stream` | strategies, governance, providers | fallback, prefetch, commitment |
| Governance (`models/governance.py`) | `_calls`: windows of admission times | `acquire_rate_limit`, `check_budget` | consulted by `complete` | concurrent calls on one window |
| Privacy (`models/privacy.py`) | none | `candidates`, `redact` | a strategy with a veto | must win over everything |
| Agent loops (`nodes/coordinator.py`, `atoms/`) | local todo lists, feedback | plan, dispatch, aggregate; execute, delegate, assess | `ctx.complete`, `spawn_agent` | bounds, termination, reported outcome |
| Tool bus (`tools/`) | `_calls`, connections | `tool_call` with one retry | built-in and remote tools | retry of what took effect; limiter after an await |
| Sandbox (`isolation/`, `runtime/`) | containers, workspaces | provision, exec, destroy, `spawn_agent` | Docker daemon | partial failure, leaks |
| Persistence (`persistence/`) | SQLite rows, files | sessions, paused runs, checkpoints, snapshots, artifacts | SDK, memory | read-modify-write, crashes between two writes |
| Memory and skills (`memory/`) | files and rows by scope | read, write, delete, load | executors | atomicity by backend |
| Retrieval (`retrieval/`) | in-memory indexes | index, search, fuse, rerank | Knowledge node | index update, rank fusion |
| Observability (`observability/`) | span buffer, context variable | span, event, flush | everything | parent of a span across tasks |
| Workflow store (`workflows/store.py`, `api/routes/workflows.py`) | YAML files | create, save, delete | editor, webhook | lost updates |
| Web editor (`src/web/stores/canvasStore.ts`, `lib/dsl`) | canvas, history | edits, undo, redo, import, export | workflow endpoints | history; saved graph is valid |
| Web monitor (`src/web/hooks/useRunStream.ts`, stores) | run, HITL and connection state | reconnect, poll, decide | run, HITL and WebSocket endpoints | events of an earlier socket |
| Providers, expressions, CLI, configuration | none | translation | — | not concurrent |

What makes each modelled component correct:

* *Run of a graph*: a node is recorded once, after what it depends on; a normal
  end has recorded all; records, artifacts and errors are never lost; a gate is
  recorded with the decision given for it.
* *SDK*: the handle settles, its status is the truth, its result is the final
  state of the channels, and its events tell the run once and end once.
* *Service*: one decision per run; the pending list shows only runs that can be
  decided; history loses only its oldest; the webhook never stays closed.
* *Router*: sensitive messages are offered to a local provider first; rate
  limits hold; a stream never mixes models; failure means nobody was left.
* *Tool bus*: what a call did fits what its caller is told, retries included;
  the limiter admits neither one too many nor one too few; a call that overlaps
  with no other runs the code it was given; the process a call started on the
  host has ended or been killed when it is answered (what that process started
  may go on).
* *Sandbox*: a handle means the container that was asked for; a Docker client is
  open while an operation uses it, and after none but a provisioning whose
  limits no container config can be built from.
* *Files*: what was acknowledged is read back, and listed unless an object
  beside it was left broken, after errors and crashes.
* *Table*: an update that no other overlaps is kept whole; a snapshot has every
  file as it was when its zip began, but for those that processes on the host
  changed meanwhile; nobody uses a table before it is set up.
* *Agent loops*: they end whatever the model answers; a goal achieved is reported
  with the plans it took, and a goal given up with `max_iterations`, whatever it
  took; todos are handled in order; a claim is cited from the page it was taken
  from, once.
* *Trace*: the spans of a task are a tree through every exception; a span that
  has ended is exported at most once and never forgotten.
* *Retrieval*: the two stores of a hybrid store agree; what was indexed last and
  not deleted can be found whole; a fused ranking respects both lists.

`PROJECT.json` lists the hazards, each at its line.

## Modules

| module | models | state and actions |
| --- | --- | --- |
| `Workflow` | `core/dsl.py`, the graph functions of `compiler.py` | no state: `ValidDsl` is what `_validate` accepts, `Successors`, `EntryNode`, `ExitNodes` |
| `DagExecution` | nothing in the code: the abstract promise of a run | `done` grows by `Record(n)`; `Abort` |
| `GraphRun` | `_wrap`, `HITLExecutor.run`, and LangGraph as they use it | one action for each way `_node_fn` can end (`SkipDisabled`, `ExecutorReturns`, `ExecutorFails`, `ExecutorRaises`, `GateInterrupts`, `GateDecides`, `RouterCrash`), and the engine's (`Invoke`, `PauseRun`, `ConflictingUpdates`, `ApplyUpdate`, `Resume`) |
| `SdkRun` | `Hanflow.run`, `RunHandle`, the token events of a streaming LLM node | extends `GraphRun`: the engine's actions now emit chunks, `ConsumeUpdate` and `ConsumeInterrupt` are the body of the loop, `RunReturns` and `RunRaises` its ends |
| `RunService` | `runs.py`, `hitl.py`, `webhooks.py`, `ws.py`, `runs_ws.py` | one action for each stretch of a handler between two awaits that suspend: `Decide` up to the await of the resume hook, `ResumeReturns`/`ResumeRaises` after it, `Drive` or, by its except branch, `DriveFails` the whole background task; a WebSocket handler whose client has left (`Disconnect`) finds that out when it next sends |
| `ModelRouter` | `router.py`, `strategies/`, `governance.py`, `privacy.py` | a call is routed and admitted in one action (`Complete`, `Stream`: nothing on that path suspends), then `Answers`, `Fails`, `YieldsNothing`, `Raises`, `NextChunk`, `StreamEnds`, `StreamBreaks` are what its provider does |
| `Sandbox` | `build_sandbox.py`, the provisioners, `spawn_agent` of `isolation/sandbox.py` | one action for each request to the Docker daemon (`CreateContainer`, `StartContainer`, `Destroy` ...), which succeeds or is refused; `SpawnAgent` |
| `ToolBus` | `MCPBus.tool_call`, `tools/builtin/` | extends `Sandbox`: a call is checked and admitted in one action (`RefuseCall`, `LimitCall`, `HttpCall`, `ShellCall`, `CodeCall`...), then `Launch`, `Collects`, `ExecBreaks`, `TimesOut` are its process as the server sees it, `ReadsCode`, `StartsChild`, `ChildEnds` and `ProcEnds` as it is |
| `FileStores` | `backends/local_fs.py` of artifacts and of memory, `workflows/store.py`, `memory/filesystem.py` | an operation is a sequence of file writes: completed, or broken off (`BreaksOff`) by an error or a crash with its last write torn, perhaps within a character; `ListArtifacts` and `ListWorkflows` read what is beside an object too |
| `Persistence` | `session.py`, `resume.py`, `workspace.py`, `backends/sqlite.py`, `_ensure_components` | extends `FileStores`: one action for each statement of the table, with what a task has read before it; a zip is one action for each file (`Snapshot`, `ZipFile`, `ZipEnds`), among which only processes on the host may write (`ProcessWrites`), and the event loop may not (`LoopFree`); `Crash`, `FileStepBreaksOff`, `UnpackFails`, `CrashInUnpack` |
| `Trace` | `observability/trace.py` | the open span of each task, the buffer; operators `Enter`, `Leave`, `Unwound` and the action `Flush` |
| `AgentLoops` | `coordinator.py`, `atoms/execution.py`, `atoms/research.py` | extends `Trace`: one action for each stretch between two answers of the model, for each todo, and for each step of a crawl |
| `Retrieval` | `provider.py`, `hybrid.py`, `indexing.py`, the in-memory stores | one action for each batch, which is embedded and then upserted; searches and deletions; fusion and splitting are operators |
| `GraphRunProofs`, `SdkRunProofs`, `RunServiceProofs`, `ModelRouterProofs`, `ToolBusProofs`, `PersistenceProofs`, `AgentLoopsProofs`, `RetrievalProofs` | the theorems | each extends the module it is named after; `SdkRunProofs` also `GraphRunProofs`; `AgentLoopsProofs` has those of `Trace`, `ToolBusProofs` those of `Sandbox`, `PersistenceProofs` those of `FileStores` |
| `MCSdkRun`, `MCRunService`, `MCModelRouter`, `MCToolBus`, `MCPersistence`, `MCAgentLoops`, `MCRetrieval` | the instances TLC checks | |

### LangGraph

The engine is not in the repository. `GraphRun` models what the code depends
on: tasks of a superstep see the channels as they were when it began; their
updates are applied together when all have ended; a channel without reducer
takes one update per step and raises `InvalidUpdateError` for a second, and
every update of the wrapper writes `node_states`; an exception that leaves a
task ends the run and loses the updates of the step; `interrupt()` suspends a
task, which on `Command(resume=...)` runs again from its start; a graph without
checkpointer cannot be resumed; one resume value cannot answer two pending
interrupts. A conditional edge looks the router's answer up in the path map:
`_make_router` answers `""` on every path and the map's keys are the
successors, so a conditional node that has successors always ends the run with
a `KeyError` (`RouterRaises`).

### Abstractions

* An executor other than HITL returns, raises a `HanflowError`, or raises
  something else; what it computes is not modelled. Its contribution to
  `artifacts` (and `memory_ops`, written in the same way) is the node itself,
  standing for a possibly empty list.
* `outputs` is the set of its keys. Templates, names and times are left out.
* The lists of times of the two rate limiters (`_calls`) are the sets of the
  calls whose times they hold: two calls admitted at the same moment are two
  members, as they are two entries of the list, whose order nobody looks at.
* A strategy is the model it proposes. `sensitive` stands for the sensitivity
  level and PII detection together.
* In `RunService` a run is its outcome; `SdkRun` says which handles can be left
  behind. A request that names a run needs its identifier, a fresh uuid made by
  `run()` that leaves the process in an answer; the task `_drive` is created
  before that answer is sent and never suspends, so it has run when any such
  request is received (`IsKnown`). `_drive` does not suspend because the queue
  it reads already holds every event and the sentinel.
* Requests refused for their form (404, 401, 422) change nothing; those of the
  webhook are a disjunct of `TriggerWebhook`, the others are left out.
* The Docker daemon and the other side of an HTTP request are external: they
  answer with success or an error. A container ends with its `sleep`, at any
  moment; a process may run for ever. A process on the host may start others,
  of which one is kept: one that holds the output of the call, for which
  `communicate()` waits, or one apart; what runs in a container ends with it at
  the latest. What a tool does is the number of its effects.
* A number stands for the data of a write; half a write is `Torn`, or `Garbled`
  if it ends within a character. A task of `Persistence` is a request or a run;
  operations on files do not give up the event loop, so other tasks never see
  them half done, but a crash, an error, and the processes on the host do.
  Unpacking a snapshot is one step: of a process that writes meanwhile, each
  write might as well come before or after all of it. What such a process writes
  outside the workspace of the run is left out. LangGraph's checkpoints are
  external.
* `Trace` is the span of `_BufferedTraceExporter`. `OTelTraceExporter` overrides
  it to enter a context of OpenTelemetry as well, which it never exits, and could
  raise there with the context variable set; that library and this override are
  not modelled.
* In `AgentLoops` an answer is what the code tells apart: how many nodes a plan
  has, which todos delegate or are done, whether the goal is achieved; similarity
  of texts is a symmetric relation (Jaccard's) that need not be transitive. The
  notes that survive the removal of duplicates are a set of places, defined as
  what going through them in order comes to: a note is kept when it is similar to
  no kept one before it (`Dedup`). `_search` and `_crawl`
  return nothing in the source and are meant to be overridden: they may return
  or raise anything.
* In `Retrieval` a text is a range of a version of a document, and its scores are
  given; they are scaled to integers (`Unit`), so that a score stands for the
  code's fraction when `Unit` is a multiple of every `K` + rank and span, and for
  a rounded one otherwise. A hit's tie is decided by its place, as a stable sort
  does (`Before`, `InOrder`). Document ids are assumed not to end in a chunk
  number. Sizes and batch sizes are positive and overlaps are not negative
  (`ConfigsAssumption`; the code validates none of them).

## Runs

| run | distinct states | what it shows |
| --- | --- | --- |
| `sdk_run` | 75 thousand | 10 properties of the run of a graph and of the SDK |
| `run_service` | 51 thousand | 5 properties of the service under every interleaving |
| `model_router` | 1.5 million | 5 properties of the router with two concurrent calls |
| `tool_bus` | 64 thousand | 7 properties of concurrent tool calls in a sandbox of every mode |
| `persistence` | 352 thousand | 4 properties of the rows, the files and the snapshots, with writers inside and beside the event loop, through errors and a crash |
| `agent_loops` | 130 thousand | 5 properties of two agent nodes side by side and of their trace |
| `retrieval` | 497 thousand | 4 properties of concurrent indexing, deletion and search |
| `reject_stops_the_run`, `parallel_branches`, `only_paused_resumed`, `sockets_closed`, `sensitive_stays_local` | | each finds a behaviour that contradicts a sentence of the repository |

Bounds, and why they are enough:

* `MCSdkRun`: every acyclic single-entry shape over three nodes with every
  assignment of six profiles (plain, lenient, disabled, disabled with a
  condition, gate, gate with a condition and a reject branch), and over four
  nodes the chain, the diamond and a join behind a skip edge, plain or gates.
  Three nodes have a fan-out, a join and a skip edge; four have a join after a
  fan-out and two gates in a row after a node. `MaxTokens = 1`: a second token
  adds no new order with respect to the events of `run()`.
* `MCRunService`: a run by request and one by webhook, so that the one permit is
  taken and comes back on each way out, two reviewers who may decide on the same
  run, one socket, and a history of one record, so that it is trimmed.
* `MCModelRouter`: two calls on a local and a cloud provider and a name that is
  not configured; fallback chains that are empty, repeat the chosen model,
  repeat themselves, or name the missing provider; a window of 2 with time up
  to 2, so that a call can leave it; streams of up to two chunks. The calls are
  interchangeable and only invariants are checked: symmetry is sound.
* `MCToolBus`: two calls of any tool with a sub-agent in the modes that run on
  the host; in Docker mode two calls of `code_exec` with and without disk quota,
  one with a path that does not fit, one with no `exec` wired, one beside a
  sub-agent, and one with a limit that no container config can be built from; three calls on one server with a limit of 1 in a window of 2 and
  time up to 3, so that an admission leaves the window while a refusal is in it.
* `MCPersistence`: three writes and one crash, after which everything is as at the
  start but for the rows and files. The rows, the workspace and the other files do
  not touch each other; the constraint `OneOfThem` is a bound that follows a
  behaviour for as long as it uses one of the three. Rows: two tasks; a lost
  update takes a session, two writers and two updates. Workspace: one task, two
  files and two different zips (`MaxZips`); a mixed snapshot takes two files and a
  write between their copies, a stale one two zips. That zips of two tasks do not
  mix is left to the proof. Other files: one task, as no operation on files
  suspends; two artifacts and two workflows, so that one can spoil the list of the
  other, a key in each scope, and writes as bytes, as text, and one that breaks
  off. Tasks and workspace files are interchangeable and only invariants are
  checked: symmetry is sound.
* `MCAgentLoops`: a Coordinator or an Execution beside each other or beside a
  Research, with the constants of the code made small (`HardCap` 2 for 20, two
  permits for five crawls, one delegation for three), so that each is reached
  and passed; todo lists with done items before, between and after others; texts
  of which one is similar to two that are not similar to each other; one flush,
  whose export may break off.
* `MCRetrieval`: two indexers whose documents overlap in two of three, the second
  with two versions of one document in its list, a reader and a deletion by id or
  by filter, over every kind of store and every fusion,
  chunks of 2 with overlap none, 1 or 3 (more than the size), batches of 1, 2,
  and all; negative cosines, ties, and texts only one of the stores scores.

`SdkRun`, `RunService` and `Retrieval` check their type invariants, which say
more than types (a store has one record for an id, the permits stay within the
semaphore's range); those of `ModelRouter`, `ToolBus`, `Persistence` and
`AgentLoops` are proved (`TypeCorrect`) and not among the properties of the runs.

Deadlock is not checked: each system comes to rest when the run has ended, the
clients have sent everything they may, or the bounded writes are used up.

Fairness. `SdkSpec`: weak fairness of the engine and the consumer together,
since the event loop keeps running tasks that are ready; nobody need decide on
a gate. `RunService`: weak fairness of the end of `run()` (which `RunsSettle` of
`SdkRun` supports, for executors that come back), of `_drive`, and of the
resume hook; clients need do nothing. `ToolBus`: weak fairness of each call
(`Proceed`): the daemon and `httpx`, which gives up after five seconds, answer,
and the timer of a process fires; the process itself need never end.
`AgentLoops`: weak fairness of each task (`Acts`): a model call returns or
raises, and a crawl is given thirty seconds. `ModelRouter`, `Persistence` and
`Retrieval` state no liveness: a provider may never answer, and the router has
no timeout; the other two only do what they are asked.

## What the code does that the repository says it does not

* A gate rejected without a branch does not stop the run: "abort" only adds an
  output (`RejectStopsTheRun`).
* Two branches that end in the same superstep crash the run
  (`ParallelBranchesSurvive`).
* A decision on a run that is not paused is accepted, and invokes its graph
  again (`OnlyPausedRunsAreResumed`).
* A WebSocket opened on a run waits for ever (`SocketsAreClosed`): a run is
  awaited to its end before it is registered, and what is published then
  reaches nobody.
* The fallback chain sends sensitive messages to cloud providers when the local
  one fails (`SensitiveMessagesStayLocal`).

Also seen in the models, without a sentence to contradict:

* *Graph and service*: a conditional node with successors always crashes the
  run; a second gate of a run can never be decided through the service, as
  `decided_by` is never cleared; the SDK compiles without a checkpointer, so the
  resume hook raises for its runs; a resumed run stays "running" in the
  registry; streaming calls pass the rate limiter by; a WebSocket handler whose
  client has left stays until something is published.
* *Tools and sandbox*: `tool_call` ignores `timeout_seconds`; a retry is not
  counted by the limiter; an `exec` that timed out keeps running in its
  container; a process that a shell command started outlives the call, which kills
  the shell alone; `DockerProvisioner.provision` leaves its client open when
  `cpu_limit` is a string that is no number; two concurrent calls of `code_exec`
  share `snippet.py`; in a
  container the interpreter is given the host's path; `spawn_agent` of the
  runtime context does not pass the provisioned sandbox on; a child's white list
  replaces its parent's; nothing in `Hanflow.run` destroys the sandbox;
  `CodeExecServer`'s `exec_interface` and `bus.stop` have no caller in `src/hanflow`.
* *Persistence and memory*: snapshots, paused gates, `update_session` and
  artifact promotion are called by tests only; no TTL is enforced; the memory
  keys "plan" and "plan.v2" share a file; the long-term scope has no backend;
  text stored over bytes leaves the bytes, which are read first; a crash between
  content and manifest makes `get` raise, and a torn manifest the `list` of the
  whole run, as a workflow torn within a character does the list of workflows;
  a snapshot mixes moments if a process on the host writes while it is made.
* *Agent loops and trace*: `flush` has no caller, so the buffer only grows;
  `replan=False` reports `max_iter` iterations after one plan, and a failure that
  nobody reads;
  an answer that is JSON but no object crashes the run; an Execution that ends
  its last step with a delegation fails though all is done; after a crawl has
  raised, its siblings go on; a Subworkflow runs nothing.
* *Retrieval*: `delete` with an empty list of ids and no filter deletes
  everything; a shorter version of a document leaves chunks of the longer one;
  an index call that ends later overwrites a newer one; a failed batch leaves
  earlier ones indexed; a fused reciprocal rank is at most 2/61, so a larger
  `min_score` filters everything; a lone hit normalises to 0; the cascade ranks
  a hit with a negative cosine behind hits without any (which is why
  `BetterInBothIsNotBehind` leaves it out); a negative overlap skips text.

## Proofs

Each theorem is about the specification the run of its component checks, for
every value of the constants that satisfies the named assumptions. TLC checked
each inductive invariant on the instance of the run first.

`GraphRunProofs`, for every set of valid workflows (`WorkflowsAssumption`):

* `Invariance`: `IInv` is inductive. Beyond types it says that the tasks of a
  superstep are executing, ended or suspended, never two of them; that the
  recorded nodes are closed under dependencies; that the run starts with the
  entry node; and that a node with a recorded dependency is recorded or in the
  current superstep. The last two are what makes the rest inductive: the engine
  applies an update only when its task is alone in its step; acyclicity gives,
  among the nodes not recorded, one whose dependencies all are; it has to be in
  the superstep, so it is that task's node. Hence its dependencies are recorded,
  and if it has no successor everything is. Cardinality and paths are not needed.
* `TypeCorrect`, and `Refinement`: `Spec => DagSpec`, with `done` the domain of
  `node_states`.
* `RecordsStay`, `ErrorsReach`, `ArtifactsReach`, `DecisionsArrive`: the safety
  properties `sdk_run` checks. `ErrorsReach` assumes that no node is called
  `_error`, the key the code reserves without saying so; `Consistency` supports
  it and `ArtifactsReach`; `DecisionsArrive` strengthens its property with the
  decision on its way to the gate (`DecisionHeld`).

  None of them needs fairness. The lemmas are about `Runs`, the safety part of
  `Spec`, so that `SdkRunProofs` can use them.

`SdkRunProofs`, for the same workflows, driven by `Hanflow.run` or by the owner
of a checkpointed graph:

* `SdkInvariance`: `SdkInv` is inductive. `run()` never reads the state of the
  graph, so the invariant relates what it has to what the engine has: a chunk
  that waits is of the current superstep, with the update its task left; the
  nodes seen are the recorded ones and those of the step whose update has been
  consumed (`StreamIsTheStep`); and what is assembled is the channels, or, once
  the only update of the step is consumed, what they will be when it is applied
  (`AssembledIsCurrent`). It relies on a step with one update, which is the only
  kind the engine applies. The rest says which phases leave chunks behind, that
  a node is streamed once, and that the sentinel is the last event.
* `HandlesTellTheTruth`, `ResultsAreTheState`, `EventsAreComplete` and
  `SdkTypeCorrect` follow.
* `SdkRunsTheGraph` (`SdkSpec => DagSpec`), `SdkKeepsTheRecord` and
  `SdkReportsErrors`: every step of the SDK is a step of the graph or leaves it
  alone, so a run of the SDK has all that is proved of a run of the graph.

`RunServiceProofs`, for any number of runs, reviewers, sockets and permits
(`ServiceAssumption`): `DecidedOnce`, `PendingIsOpen` and `TypeCorrect` from an
invariant that accounts for the permits (those out are held by the webhook
requests inside `run()`, by cardinality), says that a run whose driver has not
run has not been decided on, and that a run without a resume hook has failed.
`HistoryIsKept` is the action property, from the bound on the history.

`ModelRouterProofs`, for any number of calls, providers and models and chains of
any length (`NamesAssumption`: the empty string is a provider's name, which the
router falls back to; `ConfigsAssumption`, `RequestsAssumption` and
`BoundsAssumption` say what a configuration and a request consist of):

* `CallsInv`, one conjunct of `CallFits` for each promise: chunks come from the
  model asked last (`Committed`); a stream has asked no model twice
  (`AskedOnce`); a model of the chain that is configured has been asked or is
  left while the call is open (`FailsLast`); and the first model asked is local
  when the privacy strategy engages (`PrivacyFirst`).
* `WindowsInv`: the list of a limited provider holds exactly the admissions of
  the last window (`CountsTheRecent`), and no interval of a window's length, past
  or current, has more than `rpm` of them. Hence `RateLimited`: admitting one
  adds to the intervals that end now, of which the list is the largest.
* `TypeCorrect`.

`ToolBusProofs`, for any number of calls, sub-agents and configurations
(`ConfigsAssumption`, `LimitsAssumption`; `OwnersAssumption`: calls, sub-agents
and the operations of a sandbox are told apart):

* `CallersAreToldTheTruth` and `StartedProcessesAreEnded`. The invariant ties the
  state of a call to its process (`ProcessFits`: a call waits only for a request
  and has launched only a destructive tool, so a process is started once; a
  process on the host is there or ended while its call runs, and no process it
  started holds the output of a call answered with it), to its effects
  (`EffectsFit`) and to its caller (`CallerFits`: who has called was spawned, so
  its white list stays). `Attempts` is the heart of it: one more attempt ends the
  call, or was the first of a request.
* `SandboxAsAsked` from `BoxInv` (what each stage of provisioning has made, and
  that the quota is asked for, or was given up for want of one), and
  `EveryClientIsAccountedFor` from `ClientsInv`: the open clients are those of the
  operation on the box, of the calls that execute in it and of the sub-agents being
  spawned, and the one of a provisioning that could not build its config.
* `LoneCallsAreServed` from `CodeInv`: while a call of `code_exec` has overlapped
  no other, the snippet is its own, and what its process has read is that.
* `LimiterIsRight` from `LimiterInv`, by cardinality: the window of a server
  holds its recent admissions; every interval has at most `rpm`; a call that was
  limited came when there were `rpm`. `TypeCorrect`.
* `CallsTakeFewSteps`, the part of `CallsAreAnswered` that is not about fairness: a
  call takes at most three steps of its own (`StepsLeft`: it starts, then its
  process is launched and collected, or its request returns twice), no step of
  another puts it back, and an answer is final. That a step of a call in progress
  is possible and is taken stays with TLC.

`PersistenceProofs`, for any number of tasks, writes and crashes
(`OpsAssumption`, `CrashesAssumption`, and `NamesAssumption`: what owns a file has a
name of its own):

* `NoStatementIsMissed` (a task past the setup, and a manager that is set, imply
  the table) and `UpdatesLast` (as long as no writers have overlapped, at most
  one task is updating, and what it has read is the row).
* `AcknowledgedIsKept` and `RestoresAreWhole` from `StoresInv`. `FilesInv`: every
  object that is not damaged has the files its last acknowledged write makes,
  manifest included, or has none (`Intact`); so what makes a list raise is an
  object whose last change broke off. `RowsAreZips`: the row of the snapshot and
  every blob a task has fetched or is about to store is one of the zips that were
  finished; a finished zip has each file as it was when it began, unless a process
  has touched it (`IsHonest`); one in progress has so for what it has looked at,
  and what it has not looked at nor a process touched is on disk as it was when it
  began (`IsHonestSoFar`), because the event loop is not free (`LoopFree`).
  `TypeCorrect`.

`AgentLoopsProofs`, for any number of tasks, nodes, plans, todo lists and texts
(`SizesAssumption`, `NodesAssumption`, `AnswersAssumption`, `SimilarAssumption`,
and `NoSpanAssumption`, `FlushesAssumption` of `Trace`):

* `SpansFormATree`: the open spans of a task are a stack (each names the last
  open one before it, and the context variable names the last), which entering
  and leaving keep, and so does an exception that unwinds any number of them.
  `NoSpanIsSentTwice`: an ended span is in the buffer, exported or lost.
* `NodesReportTheirWork`: for each kind of node, what its loop variables say of
  its outcome at each place it can wait. A Coordinator that gives up reports
  `max_iterations`; the theorem says that this is the number of its plans if it may
  replan, and that it has made one plan if it may not. An Execution goes through its todos in
  order, and the next is the least that is due.
* `NotesQuoteTheirSources`: that `Dedup` determines its result is the argument
  that two sets of kept notes cannot differ at a first place. `CrawlsAreLimited`,
  which no run checks: the free permits and the pages being fetched add up to
  the permits, also after a crawl has raised. `TypeCorrect`.
* The part of `NodesEnd` that is not about fairness, which the prover can reach
  for limits, plans, lists and pages of any size. `NodesRunDown`: the work a task
  has left is a tuple of natural numbers (`WorkLeft`: begun or ended, rounds,
  stage of the round, nodes or pages) that falls in lexicographic order with each
  of its steps and with no other step (`StepsAreProgress`), so no run is infinite.
  `CrawlsNeverAllWait`: while a Research gathers, all its crawls are done or one
  can end or begin (`CrawlsGoOn`); the invariant adds that none of them has raised
  (`NoneRaised`). In every other place a task waits, one of its answers is all it
  needs. What stays with TLC is the step from there to the end: weak fairness.

`RetrievalProofs`, for any tasks, documents, texts and scores
(`DocumentsAssumption`: a document is its id and version; `ScoresAssumption`,
`FusionAssumption`, `ConfigsAssumption`):

* `HybridStoresAgree`, which is inductive as it stands.
* `IndexedDocumentsAreFindable` and `TypeCorrect` from `Inv`: the stores are
  dictionaries with one record for an id, a store that the kind lacks is empty,
  and every record of a version in `stored` is in each of the others
  (`StoresHold`). `DocumentsAreFindable` alone is not inductive: that each
  character is in some record says nothing of the record the next deletion or
  batch takes away. Three facts about the operators carry it. `SplitCovers`: the
  last multiple of the step up to a character begins a chunk that reaches it,
  because the step is at most a chunk's size, unless an earlier chunk reaches the
  end, and then the first that does contains the character.
  `SplitAllKeepsTheLatest`: a record of the last document of a batch with its id
  is the last record with its id. `PutAllKeepsTheLast`: putting a list into a
  dictionary keeps the last record of each id, and those whose id the list lacks.
  A deletion is where the stores' agreement is needed: a version counts as deleted
  when one of its records is in neither store (`RestHolds`).
* `FusionRespectsRanks`. An id has one rank in a list (`Listed`), and the scores
  fusion gives it follow that rank (`Rewarding`: reciprocals of ranks, or spans
  above the lowest score), so their sum does; of equal sums the one the dictionary
  lists first stays first, and a dictionary that lists the vector hits before the
  others follows both ranks too (`MergedIsListed`). Cutting a list that descends,
  by number or by score, puts nothing behind what it was before
  (`TopKeepsTheOrder`, `AtLeastKeepsTheOrder`). An answer is judged by the hits of
  its own step, so the invariant is only needed for their types.

The attempt to prove the second corrected the model: of two versions of a
document in one batch only the later is indexed (`IsLatest`), and the run now has
such a batch.

Out of the prover's reach: liveness under fairness (`RunsSettle`,
`WebhookRecovers`, `CallsAreAnswered`, `NodesEnd`). The library's induction
theorems take an operator, which the provers cannot instantiate; where a number
decides, the least-number principle is proved from the library's well-founded
order (`LeastExists`) and used instead. With it `RetrievalProofs` also shows,
by induction on the length of a list (`UpTo`), that the functions behind
`FoldLeft` and `FlattenSeq` exist (`FoldsExist`, `FlattensExist`), and that
counting the places before each sorts a list (`RanksAreBijective`).

Only model-checked: those four liveness properties (of `NodesEnd` and
`CallsAreAnswered`, the fairness argument). Every invariant and every action
property of the passing runs is a theorem.

## Plan

The components of the server are modelled, and their safety properties proved.
What is left is the browser's monitor (reconnection and decisions, composed with
`RunService`) and canvas (undo, redo and saving).

## Not modelled

* Model providers and embedding services: HTTP clients and wire formats. The
  router and the loops take every answer and every failure of them.
* The expression language (`core/expr.py`): a pure function whose value never
  decides a route (see `RouterRaises`); interpolation is text.
* `tools/transport.py`: nothing in `src/hanflow` connects an external tool server.
* The database backends of retrieval and the wire formats of the exporters: I/O.
  The reranker is never called.
* `memory/skills.py` (read once, constructed by nobody), `runtime/scheduler.py`
  (a hash nobody asks), and schemas (static data).
* The command line and configuration: no state.
* The web editor and monitor, a TypeScript program of its own; the server's side
  of each interaction is modelled.
