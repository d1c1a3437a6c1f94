------------------------------- MODULE ToolBus --------------------------------
(***************************************************************************)
(* MCPBus.tool_call (tools/bus.py) as a run's contexts use it               *)
(* (orchestration/context_impl.py), over the servers of tools/builtin, whose *)
(* code runs in the run's sandbox.                                          *)
(*                                                                         *)
(* The lookup of a tool, the checks and the limiter run without giving up   *)
(* the event loop; a call suspends while its server works.  filesystem      *)
(* never suspends, http_request waits for an answer, shell and code_exec    *)
(* wait for a process.                                                      *)
(***************************************************************************)
EXTENDS Sandbox, Sequences, SequencesExt

CONSTANTS
  Window,   \* length of the rate limiter's window (60 s in the code)
  MaxTime   \* bound: the latest time

VARIABLES
  call,      \* the tool calls
  windows,   \* _calls: for each server, the calls whose times of admission its list holds
  now,       \* time.monotonic()
  snippet,   \* workspace/snippet.py: the call whose code it holds
  proc       \* the process of each call

toolVars == <<call, windows, now, snippet, proc>>
vars == <<sandboxVars, toolVars>>

Servers == {"filesystem", "http_request", "shell", "code_exec"}
Unknown == "unknown"
Root == "root"
Nobody == "nobody"

ASSUME LimitsAssumption ==
  /\ Window \in Nat \ {0} /\ MaxTime \in Nat
  /\ \A run \in Configs : run.rpm \in Nat /\ run.servers \subseteq Servers

(* annotations={"destructive": True}                                        *)
Destructive(s) == s \in {"shell", "code_exec"}

Idle == [state |-> "idle", agent |-> Root, server |-> Unknown, at |-> 0,
         attempts |-> <<>>, effects |-> 0, alone |-> TRUE, answer |-> "none"]
NoProc == [state |-> "none", where |-> "host", code |-> Nobody, child |-> "none"]

Answers == {"none", "ok", "failed", "refused", "limited", "error"}

TypeOK ==
  /\ SandboxTypeOK
  /\ \A c \in Calls :
       /\ call[c].state \in {"idle", "waiting", "launching", "running", "answered"}
       /\ call[c].agent \in Agents \cup {Root} /\ call[c].server \in Servers \cup {Unknown}
       /\ call[c].attempts \in Seq({"ok", "raised", "error"}) /\ Len(call[c].attempts) <= 2
       /\ call[c].answer \in Answers /\ (call[c].answer # "none" <=> call[c].state = "answered")
       /\ proc[c].state \in {"none", "started", "reading", "ended", "died", "killed"}
       /\ proc[c].where \in {"host", "container"} /\ proc[c].code \in Calls \cup {Nobody}
       /\ proc[c].child \in {"none", "holding", "apart"}
  /\ \A s \in Servers : windows[s] \subseteq Calls
  /\ now \in 0 .. MaxTime /\ snippet \in Calls \cup {Nobody}

Init ==
  /\ SandboxInit
  /\ call = [c \in Calls |-> Idle]
  /\ windows = [s \in Servers |-> {}]
  /\ now = 0 /\ snippet = Nobody
  /\ proc = [c \in Calls |-> NoProc]

(***************************************************************************)
(* Answering.  A HanflowError of the first attempt passes to the caller; of *)
(* the second, like any exception, it is a result that is not ok, which the *)
(* context turns into a HanflowError.                                       *)
(***************************************************************************)
RetryAnything(s, attempts) ==  \* mutant: destructive tools are retried too
  Len(attempts) = 1 /\ attempts[1] = "raised"

Retries(s, attempts) ==
  ~Destructive(s) /\ Len(attempts) = 1 /\ attempts[1] = "raised"

AnswerTo(attempts) ==
  CASE Last(attempts) = "ok" -> "ok"
    [] attempts = <<"error">> -> "error"
    [] OTHER -> "failed"

(* The call with one more attempt, which had an effect or not.              *)
Attempted(c, outcome, effect) ==
  LET attempts == Append(call[c].attempts, outcome)
      again == Retries(call[c].server, attempts)
      next == IF call[c].server = "http_request" THEN "waiting" ELSE "launching"
  IN  [call[c] EXCEPT !.attempts = attempts, !.effects = @ + (IF effect THEN 1 ELSE 0),
                      !.state = IF again THEN next ELSE "answered",
                      !.answer = IF again THEN "none" ELSE AnswerTo(attempts)]

(***************************************************************************)
(* Admission.                                                               *)
(***************************************************************************)
Allowed(a, s) ==
  IF a = Root THEN TRUE ELSE agent[a].tools = AnyTool \/ s \in agent[a].tools

InWindow(s) == {c \in windows[s] : now - call[c].at < Window}

CountedFirst(s) ==  \* mutant: the list is counted before it is pruned
  config.rpm > 0 /\ Cardinality(windows[s]) >= config.rpm

AtLimit(s) == config.rpm > 0 /\ Cardinality(InWindow(s)) >= config.rpm

ExecutesCode(c) == call[c].server = "code_exec" /\ call[c].state \in {"launching", "running"}

CanCall(c, a) ==
  /\ box = "ready" /\ c \in config.calls /\ call[c].state = "idle"
  /\ IF a = Root THEN TRUE ELSE agent[a].state = "spawned"

Answered(c, a, s, answer) ==
  [call EXCEPT ![c] = [Idle EXCEPT !.state = "answered", !.agent = a, !.server = s,
                                   !.at = IF answer = "limited" THEN now ELSE 0,
                                   !.answer = answer]]

(* Outside the white list, an unknown tool, or arguments the schema refuses. *)
RefuseCall(c, a, s) ==
  /\ CanCall(c, a) /\ s \in config.servers \cup {Unknown}
  /\ call' = Answered(c, a, s, "refused")
  /\ UNCHANGED <<sandboxVars, windows, now, snippet, proc>>

(* ToolTimeoutError; the window has been pruned.                            *)
LimitCall(c, a, s) ==
  /\ CanCall(c, a) /\ s \in config.servers /\ Allowed(a, s) /\ AtLimit(s)
  /\ call' = Answered(c, a, s, "limited")
  /\ windows' = [windows EXCEPT ![s] = InWindow(s)]
  /\ UNCHANGED <<sandboxVars, now, snippet, proc>>

Admit(c, a, s) ==
  /\ CanCall(c, a) /\ s \in config.servers /\ Allowed(a, s) /\ ~AtLimit(s)
  /\ windows' = IF config.rpm > 0 THEN [windows EXCEPT ![s] = InWindow(s) \cup {c}] ELSE windows

Admitted(a, s, state) ==
  [Idle EXCEPT !.state = state, !.agent = a, !.server = s, !.at = now]

(***************************************************************************)
(* filesystem: both attempts happen at once.  A path outside the root is a  *)
(* HanflowError before anything is done; an OSError may leave a part of a   *)
(* write behind.                                                            *)
(***************************************************************************)
FilesystemCall(c, a) ==
  /\ Admit(c, a, "filesystem")
  /\ \E attempts \in {<<"ok">>, <<"error">>, <<"raised", "ok">>, <<"raised", "raised">>} :
       LET started == Admitted(a, "filesystem", "answered")
       IN  call' = [call EXCEPT ![c] = [started EXCEPT
                      !.attempts = attempts, !.answer = AnswerTo(attempts),
                      !.effects = IF attempts = <<"error">> THEN 0 ELSE Len(attempts)]]
  /\ UNCHANGED <<sandboxVars, now, snippet, proc>>

(* http_request: the other side may have acted although no answer came.     *)
HttpCall(c, a) ==
  /\ Admit(c, a, "http_request")
  /\ call' = [call EXCEPT ![c] = Admitted(a, "http_request", "waiting")]
  /\ UNCHANGED <<sandboxVars, now, snippet, proc>>

HttpReturns(c) ==
  /\ call[c].state = "waiting"
  /\ \/ call' = [call EXCEPT ![c] = Attempted(c, "ok", TRUE)]
     \/ \E acted \in BOOLEAN : call' = [call EXCEPT ![c] = Attempted(c, "raised", acted)]
  /\ UNCHANGED <<sandboxVars, windows, now, snippet, proc>>

(***************************************************************************)
(* shell: disabled, or a process on the host.                               *)
(***************************************************************************)
ShellCall(c, a) ==
  /\ Admit(c, a, "shell")
  /\ \/ call' = [call EXCEPT ![c] = Admitted(a, "shell", "launching")]
     \/ call' = [call EXCEPT ![c] = [Admitted(a, "shell", "answered") EXCEPT
                   !.attempts = <<"error">>, !.answer = "error"]]
  /\ UNCHANGED <<sandboxVars, now, snippet, proc>>

(***************************************************************************)
(* code_exec: the code is written to one file of the workspace, then the    *)
(* interpreter is started on that file.  Through the handle's exec, or on   *)
(* the host; a Docker server that was given no exec refuses, as does one    *)
(* asked for another language.                                              *)
(*                                                                         *)
(* The interpreter is given the path the server was made with.  Where it    *)
(* does not name the file (config.pathFits): in a container, which has the  *)
(* workspace at /workspace, a host path; on the host, a path relative to    *)
(* another directory than the workspace: it exits with an error, and the    *)
(* call is answered like any other process that ends.                       *)
(***************************************************************************)
WrittenOnce(c) == IF snippet = Nobody THEN c ELSE snippet  \* mutant: an existing file is kept

Written(c) == c

CodeRefused(c, a) ==
  /\ Admit(c, a, "code_exec")
  /\ call' = [call EXCEPT ![c] = [Admitted(a, "code_exec", "answered") EXCEPT
                !.attempts = <<"error">>, !.answer = "error"]]
  /\ UNCHANGED <<sandboxVars, now, snippet, proc>>

(* Opening the file for writing disturbs the calls that still go by it.     *)
Overwrites(c, mine) ==
  LET others == {d \in Calls : ExecutesCode(d)}
  IN  call' = [d \in Calls |->
                 IF d = c THEN [mine EXCEPT !.alone = others = {}]
                 ELSE IF d \in others THEN [call[d] EXCEPT !.alone = FALSE] ELSE call[d]]

CodeCall(c, a) ==
  /\ config.exec # "unwired"
  /\ Admit(c, a, "code_exec")
  /\ snippet' = Written(c)
  /\ Overwrites(c, Admitted(a, "code_exec", "launching"))
  /\ UNCHANGED <<sandboxVars, now, proc>>

(* The file cannot be written, and is what it was or empty.                 *)
CodeFails(c, a) ==
  /\ config.exec # "unwired"
  /\ Admit(c, a, "code_exec")
  /\ snippet' \in {snippet, Nobody}
  /\ Overwrites(c, [Admitted(a, "code_exec", "answered") EXCEPT
                      !.attempts = <<"raised">>, !.answer = AnswerTo(<<"raised">>)])
  /\ UNCHANGED <<sandboxVars, now, proc>>

(***************************************************************************)
(* The process of a shell or code_exec call.  It is a shell or an           *)
(* interpreter, which may start processes of its own: such a child may hold *)
(* the output it was given, or be apart, and lives on when its parent ends  *)
(* or is killed.  In a container it ends with the container at the latest,  *)
(* and is left out.                                                         *)
(***************************************************************************)
Where(c) ==
  IF call[c].server = "code_exec" /\ config.exec = "handle" /\ config.mode = "docker"
  THEN "container" ELSE "host"

Launch(c) ==
  /\ call[c].state = "launching"
  /\ Where(c) = "container" => ExecReachesContainer
  /\ proc' = [proc EXCEPT ![c] = [NoProc EXCEPT !.state = "started", !.where = Where(c)]]
  /\ call' = [call EXCEPT ![c].state = "running", ![c].effects = @ + 1]
  /\ clients' = IF Where(c) = "container" THEN clients \cup {c} ELSE clients
  /\ UNCHANGED <<config, box, quota, container, agent, windows, now, snippet>>

(* OSError: the host cannot start the process.  DockerError: the container  *)
(* is gone or has exited, or the daemon refuses; the client is closed.      *)
LaunchFails(c) ==
  /\ call[c].state = "launching"
  /\ call' = [call EXCEPT ![c] = Attempted(c, "raised", FALSE)]
  /\ UNCHANGED <<sandboxVars, windows, now, snippet, proc>>

ReadsCode(c) ==
  /\ proc[c].state = "started" /\ proc[c].code = Nobody /\ call[c].server = "code_exec"
  /\ proc' = [proc EXCEPT ![c].state = "reading",
                          ![c].code = IF config.pathFits THEN snippet ELSE Nobody]
  /\ UNCHANGED <<sandboxVars, call, windows, now, snippet>>

Runs(c) == proc[c].state \in {"started", "reading"}

StartsChild(c) ==
  /\ Runs(c) /\ proc[c].where = "host" /\ proc[c].child = "none"
  /\ \E child \in {"holding", "apart"} : proc' = [proc EXCEPT ![c].child = child]
  /\ UNCHANGED <<sandboxVars, call, windows, now, snippet>>

ChildEnds(c) ==
  /\ proc[c].child # "none"
  /\ proc' = [proc EXCEPT ![c].child = "none"]
  /\ UNCHANGED <<sandboxVars, call, windows, now, snippet>>

ProcEnds(c) ==
  /\ proc[c].state = IF call[c].server = "code_exec" THEN "reading" ELSE "started"
  /\ proc' = [proc EXCEPT ![c].state = "ended"]
  /\ UNCHANGED <<sandboxVars, call, windows, now, snippet>>

(* communicate() reads to the end of the output, which nobody may hold.     *)
OutputEnds(c) == proc[c].state \in {"ended", "died"} /\ proc[c].child # "holding"

Collects(c) ==
  /\ call[c].state = "running" /\ OutputEnds(c)
  /\ call' = [call EXCEPT ![c] = Attempted(c, "ok", FALSE)]
  /\ clients' = clients \ {c}
  /\ UNCHANGED <<config, box, quota, container, agent, windows, now, snippet, proc>>

(* The stream or the inspection after it raises: the process ran or still does. *)
ExecBreaks(c) ==
  /\ call[c].state = "running" /\ proc[c].where = "container"
  /\ call' = [call EXCEPT ![c] = Attempted(c, "raised", FALSE)]
  /\ clients' = clients \ {c}
  /\ UNCHANGED <<config, box, quota, container, agent, windows, now, snippet, proc>>

LeftRunning(c) == proc  \* mutant: no proc.kill()

(* proc.kill() on the host reaches the process that was started, and none   *)
(* of those it started.                                                     *)
Killed(c) ==
  IF proc[c].where = "host" /\ Runs(c)
  THEN [proc EXCEPT ![c].state = "killed"] ELSE proc

NoTimeout(c) == FALSE  \* mutant: wait_for without a timeout

TimerFires(c) == call[c].state = "running"

(* SandboxTimeoutError or HanflowError; or, if the process has just ended,  *)
(* the ProcessLookupError of kill().  An exec in a container is left to     *)
(* itself.                                                                  *)
TimesOut(c) ==
  /\ TimerFires(c)
  /\ \/ call' = [call EXCEPT ![c] = Attempted(c, "error", FALSE)]
     \/ /\ proc[c].where = "host" /\ OutputEnds(c)
        /\ call' = [call EXCEPT ![c] = Attempted(c, "raised", FALSE)]
  /\ proc' = Killed(c)
  /\ clients' = clients \ {c}
  /\ UNCHANGED <<config, box, quota, container, agent, windows, now, snippet>>

(***************************************************************************)
(* The run as a whole.                                                      *)
(***************************************************************************)
Tick ==
  /\ now < MaxTime /\ config.rpm > 0
  /\ now' = now + 1
  /\ UNCHANGED <<sandboxVars, call, windows, snippet, proc>>

(* With the container its processes die.                                    *)
ContainerStops ==
  /\ ContainerExits
  /\ proc' = [c \in Calls |-> IF proc[c].where = "container" /\ Runs(c)
                              THEN [proc[c] EXCEPT !.state = "died"] ELSE proc[c]]
  /\ UNCHANGED <<config, box, quota, clients, agent, call, windows, now, snippet>>

Quiet == \A c \in Calls : call[c].state \in {"idle", "answered"}

(* The owner destroys the sandbox when the run has ended.                   *)
EndOfRun ==
  /\ Quiet /\ \A a \in config.agents : agent[a].state # "spawning"
  /\ Destroy
  /\ UNCHANGED toolVars

DestroyReturns ==
  /\ DestroyEnds
  /\ proc' = [c \in Calls |-> IF proc[c].where = "container" /\ Runs(c)
                                 /\ container'.state # "running"
                              THEN [proc[c] EXCEPT !.state = "died"] ELSE proc[c]]
  /\ UNCHANGED <<call, windows, now, snippet>>

Start(c) ==
  \E a \in config.agents \cup {Root} :
    \/ \E s \in Servers \cup {Unknown} : RefuseCall(c, a, s) \/ LimitCall(c, a, s)
    \/ FilesystemCall(c, a)
    \/ HttpCall(c, a)
    \/ ShellCall(c, a)
    \/ CodeRefused(c, a)
    \/ CodeCall(c, a)
    \/ CodeFails(c, a)

Proceed(c) == HttpReturns(c) \/ Launch(c) \/ LaunchFails(c) \/ Collects(c) \/ ExecBreaks(c)
              \/ TimesOut(c)

Spawn(a) ==
  \E handedOver \in BOOLEAN, tools \in {AnyTool, {"filesystem"}} :
    SpawnAgent(a, handedOver, tools) /\ UNCHANGED toolVars

MadeSubdir(a) == SubdirMade(a) /\ UNCHANGED toolVars

Next ==
  \/ Provisioning /\ UNCHANGED toolVars
  \/ \E c \in Calls : Start(c) \/ Proceed(c) \/ ReadsCode(c) \/ StartsChild(c) \/ ChildEnds(c) \/ ProcEnds(c)
  \/ \E a \in config.agents : Spawn(a) \/ MadeSubdir(a)
  \/ Tick
  \/ ContainerStops
  \/ EndOfRun
  \/ DestroyReturns

(* A timer fires, the daemon and the other side of an HTTP request answer   *)
(* (httpx gives up after 5 s); a process may run for ever.                  *)
Spec == Init /\ [][Next]_vars /\ \A c \in Calls : WF_vars(Proceed(c))

-------------------------------------------------------------------------------
Admissions(s) ==
  {c \in Calls : call[c].server = s /\ call[c].state # "idle"
                  /\ call[c].answer \notin {"refused", "limited"}}

(* What a call did fits what its caller is told: a destructive tool acts at *)
(* most once, any other at most twice; a refused call did nothing, an       *)
(* answer that is ok means it did; and no tool acts for a sub-agent that    *)
(* may not use it.                                                          *)
EffectsFitTheCall ==
  \A c \in Calls :
    /\ call[c].effects <= IF Destructive(call[c].server) THEN 1 ELSE 2
    /\ call[c].answer = "ok" => call[c].effects > 0
    /\ call[c].answer \in {"refused", "limited"} => call[c].effects = 0
    /\ call[c].effects > 0 => Allowed(call[c].agent, call[c].server)

(* The limiter is exact in both directions: within any window a server      *)
(* admits at most rpm calls, and refuses one only if it admitted rpm calls  *)
(* in the window before it.                                                 *)
LimiterIsExact ==
  config.rpm > 0 =>
    \A s \in Servers :
      /\ \A t \in 0 .. now :
           Cardinality({c \in Admissions(s) : call[c].at \in t .. t + Window - 1}) <= config.rpm
      /\ \A d \in Calls :
           call[d].server = s /\ call[d].answer = "limited" =>
             Cardinality({c \in Admissions(s) :
                            call[c].at <= call[d].at /\ call[d].at - call[c].at < Window})
               >= config.rpm

(* The file the code is handed over in is shared, so two calls in progress  *)
(* can run each other's code; a call that overlaps with no other runs its   *)
(* own, even if processes of earlier calls were left behind, or none if the *)
(* path does not fit.  What runs is taken not to write that file itself.    *)
LoneCallsRunTheirCode ==
  \A c \in Calls :
    call[c].server = "code_exec" /\ call[c].alone /\ call[c].answer = "ok"
      /\ proc[c].state = "ended" =>
        proc[c].code = IF config.pathFits THEN c ELSE Nobody

(* When a call has been answered, however it ended, the process it started  *)
(* on the host has ended or been killed, and the answer of one that         *)
(* succeeded is complete: nothing can write to its output any more.  That   *)
(* is all: processes the command itself started may run on.                 *)
StartedProcessesEnd ==
  \A c \in Calls :
    call[c].state = "answered" /\ proc[c].where = "host" =>
      /\ proc[c].state \in {"none", "ended", "killed"}
      /\ call[c].answer = "ok" => proc[c].child # "holding"

(* A Docker client is open exactly while an operation uses it, with one     *)
(* exception: every way out of provisioning, destroying, an exec or a spawn *)
(* closes it, but for the limits no container config can be built from,     *)
(* whose client stays open for ever.                                        *)
ClientsAreAccountedFor ==
  clients = {o \in {"provision"} : box \in {"creating", "starting", "unconfigured"}}
            \cup {o \in {"destroy"} : box = "destroying"}
            \cup {c \in Calls : call[c].state = "running" /\ Where(c) = "container"}
            \cup {a \in Agents : agent[a].state = "spawning"}

(* Every tool call is answered, though the process it started may never end. *)
CallsAreAnswered ==
  \A c \in Calls : call[c].state # "idle" ~> call[c].state = "answered"
===============================================================================
