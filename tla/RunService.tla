------------------------------ MODULE RunService ------------------------------
(***************************************************************************)
(* The HTTP side of a run, in one process: the endpoints that start runs    *)
(* (routes/runs.py, routes/webhooks.py), cancel them, decide on them        *)
(* (routes/hitl.py) and stream them (routes/runs_ws.py over ws.py), and the *)
(* background task _drive.                                                  *)
(*                                                                         *)
(* Everything runs on one event loop: what a handler does between two       *)
(* awaits that suspend is one action.  Hanflow.run is awaited to its end    *)
(* before a run is registered, and SdkRun says what it leaves in a handle;  *)
(* here it is an outcome.                                                   *)
(***************************************************************************)
EXTENDS Naturals, FiniteSets, Sequences, SequencesExt

CONSTANTS
  Runs,            \* the runs that may be started, one for each start request
  Hooks,           \* those of them started through the webhook
  Reviewers,       \* each sends one decision
  Sockets,         \* each opens one WebSocket
  MaxConcurrent,   \* permits of _max_concurrent
  MaxHistory       \* records kept in _hitl_history

NoOne == "no one"
NoRun == "no run"

(* decided_by is a string or None, and an identifier is never None.         *)
ASSUME ServiceAssumption ==
  /\ Hooks \subseteq Runs
  /\ MaxConcurrent \in Nat \ {0}
  /\ MaxHistory \in Nat \ {0}
  /\ NoOne \notin Reviewers /\ NoRun \notin Runs

VARIABLES
  start,     \* the start request of a run: idle, running, answered, refused, error
  permits,   \* value of the semaphore
  handle,    \* outcome and resume hook of the handle run() returned
  entry,     \* _runs
  driving,   \* runs whose _drive task has been created and has not run
  review,    \* the decision request of each reviewer
  history,   \* _hitl_history
  socket     \* the WebSocket handler of each client

vars == <<start, permits, handle, entry, driving, review, history, socket>>

Outcomes == {"succeeded", "failed", "paused"}
Statuses == Outcomes \cup {"running", "cancelled"}
NoResult == "no result"

TypeOK ==
  /\ start \in [Runs -> {"idle", "running", "answered", "refused", "error"}]
  /\ permits \in 0 .. MaxConcurrent
  /\ DOMAIN handle \subseteq Runs
  /\ \A r \in DOMAIN handle : handle[r] \in [outcome : Outcomes, wired : BOOLEAN]
  /\ DOMAIN entry = DOMAIN handle
  /\ \A r \in DOMAIN entry :
       entry[r] \in [status : Statuses, result : Outcomes \cup {"error", NoResult},
                     decidedBy : Reviewers \cup {NoOne}]
  /\ driving \subseteq DOMAIN entry
  /\ review \in [Reviewers -> [run : Runs \cup {NoRun},
                               state : {"idle", "resuming", "resumed", "conflict", "error"}]]
  /\ history \in Seq([run : Runs, by : Reviewers])
  /\ Len(history) <= MaxHistory
  /\ socket \in [Sockets -> [run : Runs \cup {NoRun},
                             state : {"idle", "waiting", "left", "closed", "gone"}]]

Init ==
  /\ start = [r \in Runs |-> "idle"]
  /\ permits = MaxConcurrent
  /\ handle = [r \in {} |-> {}] /\ entry = [r \in {} |-> {}]
  /\ driving = {}
  /\ review = [v \in Reviewers |-> [run |-> NoRun, state |-> "idle"]]
  /\ history = <<>>
  /\ socket = [s \in Sockets |-> [run |-> NoRun, state |-> "idle"]]

With(f, x, y) == [z \in DOMAIN f \cup {x} |-> IF z = x THEN y ELSE f[z]]

(***************************************************************************)
(* Starting a run.                                                          *)
(***************************************************************************)
PostRun(r) ==
  /\ r \notin Hooks /\ start[r] = "idle"
  /\ start' = [start EXCEPT ![r] = "running"]
  /\ UNCHANGED <<permits, handle, entry, driving, review, history, socket>>

(* An unknown workflow, a wrong token, or no permit: the request is refused. *)
(* locked() is looked at and the semaphore acquired with no suspension in   *)
(* between: a request that is let in never waits for a permit.              *)
TriggerWebhook(r) ==
  /\ r \in Hooks /\ start[r] = "idle"
  /\ \/ /\ start' = [start EXCEPT ![r] = "refused"]
        /\ UNCHANGED permits
     \/ /\ permits > 0
        /\ start' = [start EXCEPT ![r] = "running"]
        /\ permits' = permits - 1
  /\ UNCHANGED <<handle, entry, driving, review, history, socket>>

KeptOnError(r) ==  \* mutant: acquire() and release() around run(), not async with
  IF r \in Hooks /\ start'[r] # "error" THEN permits + 1 ELSE permits

Released(r) == IF r \in Hooks THEN permits + 1 ELSE permits

(* run() returns a handle with its result set: registered, with a _drive.   *)
(* The resume hook is missing when the compiler refused the workflow.       *)
RunIsRegistered(r) ==
  /\ start[r] = "running"
  /\ start' = [start EXCEPT ![r] = "answered"]
  /\ permits' = Released(r)
  /\ \E outcome \in Outcomes, wired \in BOOLEAN :
       /\ ~wired => outcome = "failed"
       /\ handle' = With(handle, r, [outcome |-> outcome, wired |-> wired])
  /\ entry' = With(entry, r, [status |-> "running", result |-> NoResult, decidedBy |-> NoOne])
  /\ driving' = driving \cup {r}
  /\ UNCHANGED <<review, history, socket>>

(* run() raises: the workflow does not parse, or no sandbox can be built.   *)
RunIsRefused(r) ==
  /\ start[r] = "running"
  /\ start' = [start EXCEPT ![r] = "error"]
  /\ permits' = Released(r)
  /\ UNCHANGED <<handle, entry, driving, review, history, socket>>

(* _drive: the queue it reads already ends with the sentinel and the result *)
(* is set, so it never suspends.  However it ends it publishes the __done__ *)
(* marker: a handler that waits sends it and closes its socket, and one     *)
(* whose client has left finds that out when it sends.                      *)
Driven(r, status, result) ==
  /\ r \in driving
  /\ driving' = driving \ {r}
  /\ entry' = [entry EXCEPT ![r].status = status, ![r].result = result]
  /\ socket' = [s \in Sockets |->
                  CASE socket[s] = [run |-> r, state |-> "waiting"] -> [socket[s] EXCEPT !.state = "closed"]
                    [] socket[s] = [run |-> r, state |-> "left"] -> [socket[s] EXCEPT !.state = "gone"]
                    [] OTHER -> socket[s]]
  /\ UNCHANGED <<start, permits, handle, review, history>>

Drive(r) == Driven(r, handle[r].outcome, handle[r].outcome)

(* An event or the result cannot be dumped: the except branch.              *)
DriveFails(r) == Driven(r, "failed", "error")

(***************************************************************************)
(* Requests that name a run.  Its identifier is made by run() and leaves    *)
(* the process in the answer to the start request or in the list of runs;   *)
(* a request that carries it is received in a later turn of the event loop  *)
(* than the one that created the task, so _drive has run.                   *)
(***************************************************************************)
IsKnown(r) == r \in DOMAIN entry \ driving

Cancel(r) ==
  /\ IsKnown(r)
  /\ entry' = [entry EXCEPT ![r].status = "cancelled"]
  /\ UNCHANGED <<start, permits, handle, driving, review, history, socket>>

Answer(v, r, state) == review' = [review EXCEPT ![v] = [run |-> r, state |-> state]]

ClaimWithoutName(v, e) == [e EXCEPT !.status = "running"]  \* mutant: decided_by set after the await
ClaimWithoutStatus(v, e) == [e EXCEPT !.decidedBy = v]     \* mutant: status set after the await

Claim(v, e) == [e EXCEPT !.decidedBy = v, !.status = "running"]

(* _resume, up to the await of the resume hook.  A decision of the wrong    *)
(* form (422), or on a run that is not registered (404), changes nothing.   *)
Decide(v, r) ==
  /\ review[v].state = "idle" /\ IsKnown(r)
  /\ \/ /\ entry[r].decidedBy # NoOne \/ ~handle[r].wired
        /\ Answer(v, r, "conflict")
        /\ UNCHANGED entry
     \/ /\ entry[r].decidedBy = NoOne /\ handle[r].wired
        /\ Answer(v, r, "resuming")
        /\ entry' = [entry EXCEPT ![r] = Claim(v, entry[r])]
  /\ UNCHANGED <<start, permits, handle, driving, history, socket>>

KeepsOneTooMany(h) == IF Len(h) > MaxHistory + 1 THEN Tail(h) ELSE h  \* mutant
DropsTheNewest(h) == IF Len(h) > MaxHistory THEN Front(h) ELSE h      \* mutant: pop()

Trimmed(h) == IF Len(h) > MaxHistory THEN Tail(h) ELSE h

(* The hook returns.  What the graph it drove came to is not looked at.     *)
ResumeReturns(v) ==
  /\ review[v].state = "resuming"
  /\ Answer(v, review[v].run, "resumed")
  /\ history' = Trimmed(Append(history, [run |-> review[v].run, by |-> v]))
  /\ UNCHANGED <<start, permits, handle, entry, driving, socket>>

(* The hook raises, as it does when the graph has no checkpointer.          *)
ResumeRaises(v) ==
  /\ review[v].state = "resuming"
  /\ Answer(v, review[v].run, "error")
  /\ UNCHANGED <<start, permits, handle, entry, driving, history, socket>>

(***************************************************************************)
(* The WebSocket handler: subscribe, then wait for what is published.       *)
(***************************************************************************)
OpenSocket(s, r) ==
  /\ socket[s].state = "idle" /\ IsKnown(r)
  /\ socket' = [socket EXCEPT ![s] = [run |-> r, state |-> "waiting"]]
  /\ UNCHANGED <<start, permits, handle, entry, driving, review, history>>

(* The handler awaits its queue only and does not notice.                   *)
Disconnect(s) ==
  /\ socket[s].state = "waiting"
  /\ socket' = [socket EXCEPT ![s].state = "left"]
  /\ UNCHANGED <<start, permits, handle, entry, driving, review, history>>

Next ==
  \/ \E r \in Runs :
       \/ PostRun(r) \/ TriggerWebhook(r)
       \/ RunIsRegistered(r) \/ RunIsRefused(r)
       \/ Drive(r) \/ DriveFails(r)
       \/ Cancel(r)
  \/ \E v \in Reviewers :
       \/ \E r \in Runs : Decide(v, r)
       \/ ResumeReturns(v) \/ ResumeRaises(v)
  \/ \E s \in Sockets :
       \/ \E r \in Runs : OpenSocket(s, r)
       \/ Disconnect(s)

(* run() and the resume hook come back, as RunsSettle of SdkRun says, and   *)
(* the event loop runs the tasks that are ready.  Clients need do nothing.  *)
Fairness ==
  /\ \A r \in Runs : WF_vars(RunIsRegistered(r) \/ RunIsRefused(r)) /\ WF_vars(Drive(r) \/ DriveFails(r))
  /\ \A v \in Reviewers : WF_vars(ResumeReturns(v) \/ ResumeRaises(v))

Spec == Init /\ [][Next]_vars /\ Fairness

-------------------------------------------------------------------------------
Resumes(v, r) == review[v].run = r /\ review[v].state \in {"resuming", "resumed", "error"}

(* However many reviewers decide at once, the graph of a run is resumed at  *)
(* most once, with the decision of the one the entry names.                 *)
OneDecisionPerRun ==
  \A r \in Runs, v \in Reviewers : Resumes(v, r) => entry[r].decidedBy = v

(* A run the pending list shows really waits for a decision: its graph is   *)
(* paused, and the first decision on it will be accepted.                   *)
PendingRunsCanBeDecided ==
  \A r \in DOMAIN entry :
     entry[r].status = "paused" =>
       handle[r] = [outcome |-> "paused", wired |-> TRUE] /\ entry[r].decidedBy = NoOne

(* A decision whose reviewer is told "resumed" is in the history at that    *)
(* moment, as its newest record, and only the oldest makes room for it.     *)
HistoryKeepsTheLatest ==
  [][\A v \in Reviewers :
       review[v].state = "resuming" /\ review'[v].state = "resumed" =>
         /\ history' # <<>> /\ Last(history') = [run |-> review[v].run, by |-> v]
         /\ Front(history') \in {history, IF Len(history) < MaxHistory THEN history
                                          ELSE Tail(history)}]_vars

(* However runs end, the webhook does not stay closed to new requests.      *)
WebhookRecovers == permits = 0 ~> permits > 0

(***************************************************************************)
(* What the repository says and the code does not do.                       *)
(***************************************************************************)
(* A decision on a run that is not paused is refused.                       *)
OnlyPausedRunsAreResumed ==
  [][\A v \in Reviewers :
       review[v].state = "idle" /\ review'[v].state = "resuming" =>
         entry[review'[v].run].status = "paused"]_vars

(* "the __done__ marker closes the socket": a client that stays is told the *)
(* end of the run.                                                          *)
SocketsAreClosed == \A s \in Sockets : socket[s].state = "waiting" ~> socket[s].state # "waiting"
===============================================================================
