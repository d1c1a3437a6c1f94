------------------------------ MODULE AgentLoops ------------------------------
(***************************************************************************)
(* The nodes that loop over model calls: the Coordinator                    *)
(* (orchestration/nodes/coordinator.py), the Execution and the Research     *)
(* atom (atoms/execution.py, atoms/research.py), each in a task of its own, *)
(* traced by one exporter.  They reach the model through their context      *)
(* (orchestration/context_impl.py); what it answers is any of the answers   *)
(* the code tells apart, or an exception.                                   *)
(*                                                                         *)
(* An action is the code from one suspension to the next, but for the       *)
(* Execution loop, whose rounds are actions though a delegation does not    *)
(* suspend.  _search and _crawl return nothing in the source: they are hooks *)
(* for an integration to override, and may return or raise anything.        *)
(***************************************************************************)
EXTENDS Trace, SequencesExt

CONSTANTS
  Assignments,     \* the nodes the tasks may run together
  HardCap,         \* the most iterations a Coordinator may be given; 20
  MaxDelegations,  \* ExecutionAtom.run, max_depth; 3
  Permits,         \* ResearchAtom._crawl_top, Semaphore(5)
  Plans,           \* numbers of nodes a planner may answer with
  TodoLists,       \* lists of todos a planner may answer with
  SearchResults,   \* what a search or a retrieval may give
  Texts,           \* texts a page may have
  NoText,          \* a page without text
  Similar(_, _)    \* _similarity >= _DEDUP_THRESHOLD

(* The configurations of the three nodes.  A Coordinator checks its own;    *)
(* nothing checks the steps of an Execution.                                *)
Coordinators == [kind : {"Coordinator"}, maxIterations : Int, replan : BOOLEAN]
Executions == [kind : {"Execution"}, maxSteps : Int, allowDelegate : BOOLEAN]
Researchers == [kind : {"Research"}, topK : 0 .. 10, privateKb : BOOLEAN]

Todos == {"step", "delegate", "done"}

ASSUME SizesAssumption ==
  /\ HardCap \in Nat \ {0} /\ MaxDelegations \in Nat /\ Permits \in Nat \ {0}
ASSUME NodesAssumption == \A a \in Assignments : a \in [Tasks -> Coordinators \cup Executions \cup Researchers]
ASSUME AnswersAssumption ==
  /\ Plans \subseteq Nat
  /\ \A todos \in TodoLists : todos \in Seq(Todos)
  /\ \A found \in SearchResults : found \in Seq(Texts \cup {NoText})
ASSUME SimilarAssumption ==
  /\ NoText \notin Texts
  /\ \A a, b \in Texts : Similar(a, b) => Similar(b, a)

VARIABLES
  node,     \* the node each task runs
  pc,       \* what its coroutine waits for
  loop,     \* its local variables
  outcome   \* what the node ended with

agentVars == <<node, pc, loop, outcome>>
vars == <<traceVars, agentVars>>

Waits == {"idle", "planning", "working", "judging", "todos", "round", "observing",
          "searching", "crawling", "summarising", "ended"}

None == [how |-> "none"]

TypeOK ==
  /\ node \in Assignments
  /\ pc \in [Tasks -> Waits]
  /\ \A t \in Tasks : outcome[t].how \in {"none", "returned", "refused", "failed", "crashed"}
  /\ \A t \in Tasks : "permits" \in DOMAIN loop[t] => loop[t].permits \in 0 .. Permits

Init ==
  /\ TraceInit
  /\ node \in Assignments
  /\ pc = [t \in Tasks |-> "idle"]
  /\ loop = [t \in Tasks |-> None]
  /\ outcome = [t \in Tasks |-> None]

GoesOn(t, v, wait, l) ==
  /\ Traced(t, v)
  /\ pc' = [pc EXCEPT ![t] = wait]
  /\ loop' = [loop EXCEPT ![t] = l]
  /\ UNCHANGED <<node, outcome>>

Ends(t, v, result) ==
  /\ Traced(t, v)
  /\ pc' = [pc EXCEPT ![t] = "ended"]
  /\ outcome' = [outcome EXCEPT ![t] = result]
  /\ UNCHANGED <<node, loop>>

(* A HanflowError fails the node; anything else leaves the node function.   *)
Raises(t, v) == \E how \in {"failed", "crashed"} : Ends(t, v, [how |-> how])

Awaits(t, wait) == pc[t] = wait

(* ctx.complete opens a span around the call.                               *)
Asks(v, t) == Enter(v, t)
Replied(t) == Leave(View(t), "ok")
CallFailed(t) == Leave(View(t), "error")

(* ctx.spawn_agent makes a directory and a context, in a span.              *)
Spawned(v, t) == Leave(Enter(v, t), "ok")

-------------------------------------------------------------------------------
(***************************************************************************)
(* The Coordinator: plan, dispatch, aggregate.                              *)
(***************************************************************************)
CoordinatorIsRefused(t) ==
  /\ Awaits(t, "idle") /\ node[t].kind = "Coordinator" /\ node[t].maxIterations \notin 1 .. HardCap
  /\ Ends(t, View(t), [how |-> "refused"])

StartCoordinator(t) ==
  /\ Awaits(t, "idle") /\ node[t].kind = "Coordinator" /\ node[t].maxIterations \in 1 .. HardCap
  /\ GoesOn(t, Asks(View(t), t), "planning",
            [iteration |-> 0, planned |-> 0, results |-> 0, plans |-> 0])

(* The child of the next planned node is spawned and asked.                 *)
Dispatches(t, v, l) == GoesOn(t, Asks(Spawned(v, t), t), "working", l)

SpawnFails(t) ==
  /\ \/ Awaits(t, "working") /\ loop[t].results + 1 < loop[t].planned
     \/ Awaits(t, "planning")
  /\ Ends(t, Leave(Enter(Replied(t), t), "error"), [how |-> "crashed"])

(* An answer that is not JSON counts as a plan of one node.                 *)
PlanArrives(t) ==
  /\ Awaits(t, "planning")
  /\ \E n \in Plans \cup {1} :
       LET l == [loop[t] EXCEPT !.planned = n, !.results = 0, !.plans = @ + 1]
       IN  IF n = 0 THEN GoesOn(t, Asks(Replied(t), t), "judging", l)
           ELSE Dispatches(t, Replied(t), l)

WorkIsDone(t) ==
  /\ Awaits(t, "working")
  /\ LET l == [loop[t] EXCEPT !.results = @ + 1]
     IN  IF l.results = l.planned THEN GoesOn(t, Asks(Replied(t), t), "judging", l)
         ELSE Dispatches(t, Replied(t), l)

(* JSON that is not an object has no get: AttributeError.                   *)
ReplyIsNoObject(t) ==
  /\ Awaits(t, "planning") \/ Awaits(t, "judging")
  /\ Ends(t, Replied(t), [how |-> "crashed"])

CoordinatorCallFails(t) ==
  /\ Awaits(t, "planning") \/ Awaits(t, "working") \/ Awaits(t, "judging")
  /\ Raises(t, CallFailed(t))

Achieved(t) ==
  /\ Awaits(t, "judging")
  /\ Ends(t, Replied(t),
          [how |-> "returned", achieved |-> TRUE, iterations |-> loop[t].iteration + 1])

OneRoundShort(t) == loop[t].iteration + 2 < node[t].maxIterations  \* mutant

IterationIsLeft(t) == loop[t].iteration + 1 < node[t].maxIterations

(* Neither an answer that is not JSON nor a "no" achieves the goal.  The    *)
(* error of the result is read by nobody: the node counts as succeeded.     *)
NotAchieved(t) ==
  /\ Awaits(t, "judging")
  /\ IF node[t].replan /\ IterationIsLeft(t)
     THEN GoesOn(t, Asks(Replied(t), t), "planning", [loop[t] EXCEPT !.iteration = @ + 1])
     ELSE Ends(t, Replied(t), [how |-> "returned", achieved |-> FALSE,
                               iterations |-> node[t].maxIterations])

Coordinates(t) ==
  \/ CoordinatorIsRefused(t) \/ StartCoordinator(t)
  \/ SpawnFails(t) \/ PlanArrives(t) \/ WorkIsDone(t)
  \/ ReplyIsNoObject(t) \/ CoordinatorCallFails(t)
  \/ Achieved(t) \/ NotAchieved(t)
-------------------------------------------------------------------------------
(***************************************************************************)
(* The Execution atom: a list of todos, delegated or carried out in order.  *)
(***************************************************************************)
StartExecution(t) ==
  /\ Awaits(t, "idle") /\ node[t].kind = "Execution"
  /\ GoesOn(t, Asks(Enter(View(t), t), t), "todos", None)

Execution(todos) ==
  [plan |-> todos, todos |-> todos, steps |-> 0, depth |-> 0, handled |-> <<>>]

(* Whatever the planner raises, the task itself is the only todo.           *)
TodosArrive(t) ==
  /\ Awaits(t, "todos")
  /\ \/ \E todos \in TodoLists : GoesOn(t, Replied(t), "round", Execution(todos))
     \/ GoesOn(t, CallFailed(t), "round", Execution(<<"step">>))

Pending(l) == {i \in DOMAIN l.todos : l.todos[i] # "done"}

(* pending[0]; todos.index finds it, for an equal todo before it is done.   *)
First(l) == CHOOSE i \in Pending(l) : \A j \in Pending(l) : i <= j

MarksNothing(l) == l.todos  \* mutant: the todo stays pending

Marked(l) == [l.todos EXCEPT ![First(l)] = "done"]

Handled(l) == [l EXCEPT !.todos = Marked(l), !.handled = Append(@, First(l))]

Finalize(t, status, l) ==
  Ends(t, Replied(t), [how |-> "returned", status |-> status, steps |-> l.steps])

OutOfSteps(t) ==
  /\ Awaits(t, "round") /\ loop[t].steps >= node[t].maxSteps
  /\ Finalize(t, "failed", loop[t])

(* A round of the while loop begins.                                        *)
Round(t) == Awaits(t, "round") /\ loop[t].steps < node[t].maxSteps
Counted(t) == [loop[t] EXCEPT !.steps = @ + 1]

NothingPending(t) ==
  /\ Round(t) /\ Pending(loop[t]) = {}
  /\ Finalize(t, "succeeded", Counted(t))

Delegates(t) ==
  /\ loop[t].todos[First(loop[t])] = "delegate"
  /\ node[t].allowDelegate /\ loop[t].depth < MaxDelegations

(* The delegate is spawned and counted, and does nothing.                   *)
Delegate(t) ==
  /\ Round(t) /\ Pending(loop[t]) # {} /\ Delegates(t)
  /\ \/ GoesOn(t, Spawned(View(t), t), "round", [Handled(Counted(t)) EXCEPT !.depth = @ + 1])
     \/ Ends(t, Unwound(Enter(View(t), t)), [how |-> "crashed"])

(* _observe: a write to the scratch memory, whose errors are suppressed.    *)
Observe(t) ==
  /\ Round(t) /\ Pending(loop[t]) # {} /\ ~Delegates(t)
  /\ GoesOn(t, View(t), "observing", Counted(t))

Observed(t) ==
  /\ Awaits(t, "observing")
  /\ LET l == Handled(loop[t])
     IN  IF Pending(l) = {}
         THEN /\ Traced(t, Replied(t))
              /\ pc' = [pc EXCEPT ![t] = "ended"]
              /\ loop' = [loop EXCEPT ![t] = l]
              /\ outcome' = [outcome EXCEPT ![t] =
                               [how |-> "returned", status |-> "succeeded", steps |-> l.steps]]
              /\ UNCHANGED node
         ELSE GoesOn(t, View(t), "round", l)

Executes(t) ==
  \/ StartExecution(t) \/ TodosArrive(t)
  \/ OutOfSteps(t) \/ NothingPending(t) \/ Delegate(t) \/ Observe(t) \/ Observed(t)
-------------------------------------------------------------------------------
(***************************************************************************)
(* The Research atom: search, crawl, take notes, remove duplicates.         *)
(***************************************************************************)
StartResearch(t) ==
  /\ Awaits(t, "idle") /\ node[t].kind = "Research"
  /\ GoesOn(t, Enter(View(t), t), "searching", None)

Top(found, n) == SubSeq(found, 1, IF Len(found) < n THEN Len(found) ELSE n)

(* Search results, then those of the private store, cut to the best topK.   *)
(* One without a URL is not fetched: what it says is its text.              *)
SearchReturns(t) ==
  /\ Awaits(t, "searching")
  /\ \E web \in SearchResults, kb \in IF node[t].privateKb THEN SearchResults ELSE {<<>>} :
       LET items == Top([i \in DOMAIN web |-> [url |-> TRUE, says |-> web[i]]]
                        \o [i \in DOMAIN kb |-> [url |-> FALSE, says |-> kb[i]]], node[t].topK)
       IN  GoesOn(t, View(t), "crawling",
                  [items |-> items, permits |-> Permits,
                   crawl |-> [i \in DOMAIN items |-> "queued"],
                   text |-> [i \in DOMAIN items |-> items[i].says]])

(* The search raises, or the private store is not configured.               *)
SearchFails(t) ==
  /\ Awaits(t, "searching")
  /\ Raises(t, Unwound(View(t)))

IsCrawling(t) == "crawl" \in DOMAIN loop[t]

(* The crawls are tasks of their own, which go on when one has raised.      *)
Crawl(t, i, l) ==
  /\ loop' = [loop EXCEPT ![t] = l]
  /\ UNCHANGED <<traceVars, node, pc, outcome>>

CrawlStarts(t, i) ==
  /\ IsCrawling(t) /\ i \in DOMAIN loop[t].items
  /\ loop[t].crawl[i] = "queued" /\ loop[t].permits > 0
  /\ Crawl(t, i, IF loop[t].items[i].url
                 THEN [loop[t] EXCEPT !.crawl[i] = "fetching", !.permits = @ - 1]
                 ELSE [loop[t] EXCEPT !.crawl[i] = "done"])

Fetching(t, i) == IsCrawling(t) /\ i \in DOMAIN loop[t].items /\ loop[t].crawl[i] = "fetching"

PermitKept(l) == l.permits  \* mutant: a crawl that times out keeps its permit

Released(l) == l.permits + 1

(* A page without text leaves what the search said of it.                   *)
CrawlReturns(t, i) ==
  /\ Fetching(t, i)
  /\ \E text \in Texts \cup {NoText} :
       Crawl(t, i, [loop[t] EXCEPT !.crawl[i] = "done", !.permits = @ + 1,
                                   !.text[i] = IF text = NoText THEN @ ELSE text])

CrawlTimesOut(t, i) ==
  /\ Fetching(t, i)
  /\ Crawl(t, i, [loop[t] EXCEPT !.crawl[i] = "done", !.permits = Released(loop[t])])

CrawlRaises(t, i) ==
  /\ Fetching(t, i)
  /\ loop' = [loop EXCEPT ![t].crawl[i] = "raised", ![t].permits = @ + 1]
  /\ IF Awaits(t, "crawling")
     THEN /\ Traced(t, Unwound(View(t)))
          /\ pc' = [pc EXCEPT ![t] = "ended"]
          /\ \E how \in {"failed", "crashed"} : outcome' = [outcome EXCEPT ![t] = [how |-> how]]
     ELSE UNCHANGED <<traceVars, pc, outcome>>
  /\ UNCHANGED node

(* The items a note is taken of, one each; it quotes the text and names the *)
(* item as its source.                                                      *)
Noted(l) == {i \in DOMAIN l.items : l.text[i] # NoText}

(* Those of them that are similar to none of the given ones before.         *)
NewAmong(l, kept) ==
  {i \in Noted(l) : \A j \in kept : j < i => ~Similar(l.text[i], l.text[j])}

ComparedWithAll(l) == NewAmong(l, Noted(l))  \* mutant: with the notes that were dropped, too

(* The notes are gone through in order and compared with those kept so far. *)
Dedup(l) == CHOOSE kept \in SUBSET Noted(l) : kept = NewAmong(l, kept)

Findings(l) ==
  [how |-> "returned", notes |-> {[source |-> i, claim |-> l.text[i]] : i \in Dedup(l)}]

Gathered(t) ==
  /\ Awaits(t, "crawling") /\ \A i \in DOMAIN loop[t].items : loop[t].crawl[i] = "done"
  /\ IF Noted(loop[t]) = {} THEN Ends(t, Replied(t), Findings(loop[t]))
     ELSE GoesOn(t, Asks(View(t), t), "summarising", loop[t])

(* If the model fails, the claims themselves are the summary.               *)
Summarised(t) ==
  /\ Awaits(t, "summarising")
  /\ \E v \in {Replied(t), CallFailed(t)} : Ends(t, Leave(v, "ok"), Findings(loop[t]))

Researches(t) ==
  \/ StartResearch(t) \/ SearchReturns(t) \/ SearchFails(t)
  \/ \E i \in 1 .. 10 :
       CrawlStarts(t, i) \/ CrawlReturns(t, i) \/ CrawlTimesOut(t, i) \/ CrawlRaises(t, i)
  \/ Gathered(t) \/ Summarised(t)
-------------------------------------------------------------------------------
Acts(t) == Coordinates(t) \/ Executes(t) \/ Researches(t)

(* The host flushes the spans when a run has ended.                         *)
HostFlushes ==
  /\ \E t \in Tasks : pc[t] = "ended"
  /\ Flush /\ UNCHANGED agentVars

Next == HostFlushes \/ \E t \in Tasks : Acts(t)

(* Every model call returns or raises, and a crawl is given 30 seconds; the *)
(* event loop runs a task that can go on.                                   *)
Spec == Init /\ [][Next]_vars /\ \A t \in Tasks : WF_vars(Acts(t))

-------------------------------------------------------------------------------
(* What a node's report says of its work.  Every planned node of a          *)
(* Coordinator is dispatched before a verdict.  If the goal is achieved it  *)
(* reports the plans it made, at most max_iterations.  If not, it reports   *)
(* max_iterations in any case: that is the number of its plans if it may    *)
(* replan, but one that may not replan made one plan only, and its report   *)
(* says more than it did.  An Execution handles its todos in order and each *)
(* once, succeeds only with none left, and fails only with its steps used.  *)
OutcomesTellTheWork ==
  \A t \in Tasks : LET l == loop[t] o == outcome[t] IN
    /\ "plans" \in DOMAIN l =>
         /\ pc[t] = "judging" => l.results = l.planned
         /\ o.how = "returned" =>
              /\ o.achieved => l.plans = o.iterations /\ o.iterations <= node[t].maxIterations
              /\ ~o.achieved => /\ o.iterations = node[t].maxIterations
                                /\ l.plans = IF node[t].replan THEN o.iterations ELSE 1
    /\ "handled" \in DOMAIN l =>
         LET due == {i \in DOMAIN l.plan : l.plan[i] # "done"}
         IN  /\ ToSet(l.handled) \subseteq due
             /\ \A j, k \in DOMAIN l.handled : j < k => l.handled[j] < l.handled[k]
             /\ \A i \in due, j \in ToSet(l.handled) : i < j => i \in ToSet(l.handled)
             /\ o.how = "returned" =>
                  IF o.status = "succeeded" THEN ToSet(l.handled) = due
                  ELSE l.steps = IF node[t].maxSteps < 0 THEN 0 ELSE node[t].maxSteps

(* A note that is kept quotes the page it names as its source, no two say   *)
(* the same, and nothing that was found is missing from them.               *)
CitationsAreBound ==
  \A t \in Tasks : "notes" \in DOMAIN outcome[t] =>
    LET notes == outcome[t].notes
        l == loop[t]
    IN  /\ \A n \in notes : n.claim = l.text[n.source]
        /\ \A m, n \in notes : Similar(m.claim, n.claim) => m = n
        /\ \A i \in DOMAIN l.items : l.text[i] # NoText =>
             \E n \in notes : n.source = i \/ Similar(l.text[i], n.claim)

(* Every node comes to an end, whatever the model answers and however long  *)
(* a page takes.                                                            *)
NodesEnd == <>(\A t \in Tasks : pc[t] = "ended")
===============================================================================
