----------------------------- MODULE ToolBusProofs -----------------------------
(***************************************************************************)
(* The tool bus and its sandbox, for any number of calls, sub-agents and    *)
(* configurations: what a call did fits what its caller is told and the     *)
(* process it started on the host ends with it (IInv); a handle means a     *)
(* container (BoxInv), every Docker client is accounted for (ClientsInv), a *)
(* lone call runs its own code (CodeInv), the limiter is exact (LimiterInv) *)
(* and a call takes at most three steps (StepsLeft).  Each invariant is     *)
(* proved over the ones before it.                                          *)
(***************************************************************************)
EXTENDS ToolBus, TLAPS, FiniteSetTheorems

CallRecords ==
  [state : {"idle", "waiting", "launching", "running", "answered"},
   agent : Agents \cup {Root}, server : Servers \cup {Unknown}, at : Nat,
   attempts : Seq({"ok", "raised", "error"}), effects : Nat, alone : BOOLEAN, answer : Answers]

ProcRecords ==
  [state : {"none", "started", "reading", "ended", "died", "killed"},
   where : {"host", "container"}, code : Calls \cup {Nobody},
   child : {"none", "holding", "apart"}]

AgentRecords ==
  [state : {"none", "spawning", "spawned", "failed"}, subdir : {"none", "host", "container"},
   tools : {AnyTool, {"filesystem"}}]

Typed ==
  /\ config \in Configs /\ now \in Nat /\ snippet \in Calls \cup {Nobody}
  /\ call \in [Calls -> CallRecords]
  /\ proc \in [Calls -> ProcRecords]
  /\ agent \in [Agents -> AgentRecords]

(* Only a destructive tool starts a process, and so only once; the process  *)
(* is there while the call waits for it.  No child holds the output once    *)
(* the call has been answered with it.                                      *)
ProcessFits(k, p) ==
  /\ k.state \in {"idle", "waiting", "launching"} => p.state = "none"
  /\ k.state \in {"launching", "running"} => Destructive(k.server)
  /\ k.state = "waiting" => k.server = "http_request"
  /\ k.state = "running" => p.state \in {"started", "reading", "ended", "died"}
  /\ p.state = "died" => p.where = "container"
  /\ k.state = "answered" /\ p.where = "host" => p.state \in {"none", "ended", "killed"}
  /\ p.state = "none" => p.child = "none"
  /\ k.state = "answered" /\ k.answer = "ok" /\ p.where = "host" => p.child # "holding"

EffectsFit(k) ==
  /\ k.state \in {"idle", "launching"} => k.effects = 0
  /\ k.state \in {"idle", "launching", "running"} => k.attempts = <<>>
  /\ k.state = "running" => k.effects = 1
  /\ k.state = "waiting" => Len(k.attempts) <= 1 /\ k.effects <= Len(k.attempts)
  /\ k.effects <= IF Destructive(k.server) THEN 1 ELSE 2
  /\ k.answer = "ok" => k.effects > 0
  /\ k.answer \in {"refused", "limited"} => k.effects = 0
  /\ Len(k.attempts) <= 2
  /\ k.answer # "none" <=> k.state = "answered"

(* A sub-agent that has called was spawned, so its white list stays.        *)
CallerFits(k) ==
  /\ k.state # "idle" => k.agent = Root \/ (k.agent \in Agents /\ agent[k.agent].state = "spawned")
  /\ k.state \in {"waiting", "launching", "running"} \/ k.effects > 0 => Allowed(k.agent, k.server)

IInv ==
  /\ Typed
  /\ \A c \in Calls :
       ProcessFits(call[c], proc[c]) /\ EffectsFit(call[c]) /\ CallerFits(call[c])

(* The answer is ok exactly when the last attempt was.                      *)
LEMMA OkAnswers ==
  ASSUME NEW attempts \in Seq({"ok", "raised", "error"}), attempts # <<>>
  PROVE  /\ AnswerTo(attempts) \in {"ok", "error", "failed"}
         /\ AnswerTo(attempts) = "ok" => Last(attempts) = "ok"
BY DEF AnswerTo

(* A call that goes on or ends keeps the fields of a call.                  *)
LEMMA Updated ==
  ASSUME NEW k \in CallRecords, NEW attempts \in Seq({"ok", "raised", "error"}), NEW n \in Nat,
         NEW state \in {"idle", "waiting", "launching", "running", "answered"},
         NEW answer \in Answers
  PROVE  [k EXCEPT !.attempts = attempts, !.effects = n, !.state = state, !.answer = answer]
           \in CallRecords
BY DEF CallRecords

LEMMA InitHolds == Init => IInv
<1> SUFFICES ASSUME Init PROVE IInv
  OBVIOUS
<1>1. Typed
  <2>1. Idle \in CallRecords
    BY DEF Idle, CallRecords, Answers
  <2>2. NoProc \in ProcRecords
    BY DEF NoProc, ProcRecords
  <2>3. NoContext \in AgentRecords
    BY DEF NoContext, AgentRecords
  <2> QED  BY <2>1, <2>2, <2>3 DEF Init, SandboxInit, Typed
<1>2. ASSUME NEW c \in Calls
      PROVE  ProcessFits(call[c], proc[c]) /\ EffectsFit(call[c]) /\ CallerFits(call[c])
  BY DEF Init, Idle, NoProc, ProcessFits, EffectsFit, CallerFits
<1> QED  BY <1>1, <1>2 DEF IInv

(* One more attempt, of a process that was started or not, or of a request: *)
(* a destructive tool is answered, whatever came of it; a request is sent   *)
(* once more at most.                                                       *)
LEMMA Attempts ==
  ASSUME IInv, NEW c \in Calls, NEW outcome \in {"ok", "raised", "error"}, NEW effect \in BOOLEAN,
         call[c].state \in {"waiting", "launching", "running"},
         effect => call[c].state = "waiting",
         outcome = "ok" => effect \/ call[c].state = "running",
         NEW p \in ProcRecords,
         p.state = "died" => p.where = "container",
         p.where = "host" => p.state \in {"none", "ended", "killed"},
         call[c].state = "waiting" => p.state = "none",
         p.state = "none" => p.child = "none",
         outcome = "ok" /\ p.where = "host" => p.child # "holding"
  PROVE  LET k == Attempted(c, outcome, effect)
         IN  k \in CallRecords /\ ProcessFits(k, p) /\ EffectsFit(k) /\ CallerFits(k)
<1> DEFINE attempts == Append(call[c].attempts, outcome)
           k == Attempted(c, outcome, effect)
           e == IF effect THEN 1 ELSE 0
<1>1. /\ call[c] \in CallRecords
      /\ ProcessFits(call[c], proc[c]) /\ EffectsFit(call[c]) /\ CallerFits(call[c])
  BY DEF IInv, Typed
<1>2. /\ attempts \in Seq({"ok", "raised", "error"}) /\ attempts # <<>>
      /\ Len(attempts) = Len(call[c].attempts) + 1 /\ Last(attempts) = outcome
  BY <1>1 DEF CallRecords, Last
<1>3. /\ AnswerTo(attempts) \in {"ok", "error", "failed"}
      /\ AnswerTo(attempts) = "ok" => outcome = "ok"
  BY <1>2, OkAnswers
<1>4. CASE Retries(call[c].server, attempts)
  <2>1. /\ ~Destructive(call[c].server) /\ call[c].server = "http_request"
        /\ call[c].state = "waiting" /\ Len(attempts) = 1
    BY <1>1, <1>4 DEF Retries, ProcessFits
  <2>2. k = [call[c] EXCEPT !.attempts = attempts, !.effects = @ + e,
                            !.state = "waiting", !.answer = "none"]
    BY <1>4, <2>1 DEF Attempted
  <2>3. call[c].effects = 0
    BY <1>1, <1>2, <2>1 DEF EffectsFit, CallRecords
  <2>4. k \in CallRecords
    <3>1. call[c].effects + e \in Nat /\ "none" \in Answers
      BY <2>3 DEF Answers
    <3>2. call[c].effects + e \in Nat /\ attempts \in Seq({"ok", "raised", "error"})
      BY <1>2, <3>1
    <3> HIDE DEF attempts, e, k
    <3>3. [call[c] EXCEPT !.attempts = attempts, !.effects = call[c].effects + e,
                          !.state = "waiting", !.answer = "none"] \in CallRecords
      BY <1>1, <3>1, <3>2, Updated
    <3> QED  BY <2>2, <3>3
  <2>5. /\ k.state = "waiting" /\ k.answer = "none" /\ k.effects = e /\ k.attempts = attempts
        /\ k.server = call[c].server /\ k.agent = call[c].agent
    BY <1>1, <2>2, <2>3 DEF CallRecords
  <2>6. ProcessFits(k, p)
    BY <2>1, <2>5 DEF ProcessFits
  <2>7. EffectsFit(k)
    BY <2>1, <2>5 DEF EffectsFit
  <2>8. CallerFits(k)
    BY <1>1, <2>1, <2>5 DEF CallerFits
  <2> QED  BY <2>4, <2>6, <2>7, <2>8
<1>5. CASE ~Retries(call[c].server, attempts)
  <2>1. k = [call[c] EXCEPT !.attempts = attempts, !.effects = @ + e,
                            !.state = "answered", !.answer = AnswerTo(attempts)]
    BY <1>5 DEF Attempted
  <2>2. k \in CallRecords
    <3>1. call[c].effects + e \in Nat /\ AnswerTo(attempts) \in Answers
      BY <1>1, <1>3 DEF CallRecords, Answers
    <3>2. call[c].effects + e \in Nat /\ attempts \in Seq({"ok", "raised", "error"})
      BY <1>2, <3>1
    <3> HIDE DEF attempts, e, k
    <3>3. [call[c] EXCEPT !.attempts = attempts, !.effects = call[c].effects + e,
                          !.state = "answered", !.answer = AnswerTo(attempts)] \in CallRecords
      BY <1>1, <3>1, <3>2, Updated
    <3> QED  BY <2>1, <3>3
  <2>3. /\ k.state = "answered" /\ k.answer = AnswerTo(attempts) /\ k.attempts = attempts
        /\ k.effects = call[c].effects + e
        /\ k.server = call[c].server /\ k.agent = call[c].agent
    BY <1>1, <2>1 DEF CallRecords
  <2>4. ProcessFits(k, p)
    BY <1>3, <2>3 DEF ProcessFits
  <2>5. EffectsFit(k)
    BY <1>1, <1>2, <1>3, <2>3 DEF EffectsFit, ProcessFits, CallRecords, Destructive
  <2>6. CallerFits(k)
    BY <1>1, <2>3 DEF CallerFits
  <2> QED  BY <2>2, <2>4, <2>5, <2>6
<1> QED  BY <1>4, <1>5

(***************************************************************************)
(* Steps that touch one call and its process, and steps that touch no call. *)
(***************************************************************************)
LEMMA OneCall ==
  ASSUME IInv, NEW c \in Calls, NEW k \in CallRecords, NEW p \in ProcRecords,
         call' = [call EXCEPT ![c] = k], proc' = [proc EXCEPT ![c] = p],
         UNCHANGED <<config, agent>>, now' \in Nat, snippet' \in Calls \cup {Nobody},
         ProcessFits(k, p), EffectsFit(k), CallerFits(k)
  PROVE  IInv'
<1>1. Typed'
  BY DEF IInv, Typed
<1>2. ASSUME NEW d \in Calls
      PROVE  ProcessFits(call'[d], proc'[d]) /\ EffectsFit(call'[d]) /\ CallerFits(call'[d])
  <2>1. CASE d = c
    BY <2>1 DEF IInv, Typed
  <2>2. CASE d # c
    BY <2>2 DEF IInv, Typed
  <2> QED  BY <2>1, <2>2
<1>3. ASSUME NEW d \in Calls
      PROVE  (ProcessFits(call[d], proc[d]) /\ EffectsFit(call[d]) /\ CallerFits(call[d]))'
  BY <1>2 DEF ProcessFits, EffectsFit, CallerFits, Allowed
<1> QED  BY <1>1, <1>3 DEF IInv

LEMMA NoCall ==
  ASSUME IInv, UNCHANGED <<config, call>>, agent' \in [Agents -> AgentRecords],
         \A a \in Agents : agent[a].state = "spawned" =>
           agent'[a].state = "spawned" /\ agent'[a].tools = agent[a].tools,
         now' \in Nat, snippet' = snippet, proc' \in [Calls -> ProcRecords],
         \A c \in Calls : ProcessFits(call[c], proc'[c])
  PROVE  IInv'
<1>1. Typed'
  BY DEF IInv, Typed
<1>2. ASSUME NEW c \in Calls
      PROVE  ProcessFits(call[c], proc[c])' /\ EffectsFit(call[c])'
  BY DEF IInv, ProcessFits, EffectsFit
<1>3. ASSUME NEW c \in Calls
      PROVE  CallerFits(call[c])'
  <2>1. CallerFits(call[c]) /\ call[c] \in CallRecords
    BY DEF IInv, Typed
  <2>2. CASE call[c].state = "idle"
    <3>1. call[c].effects = 0
      BY <2>2 DEF IInv, EffectsFit
    <3> QED  BY <2>2, <3>1 DEF CallerFits
  <2>3. CASE call[c].state # "idle"
    BY <2>1, <2>3 DEF CallerFits, Allowed
  <2> QED  BY <2>2, <2>3
<1> QED  BY <1>1, <1>2, <1>3 DEF IInv

(***************************************************************************)
(* Starting a call.                                                         *)
(***************************************************************************)
LEMMA Starting ==
  ASSUME IInv, NEW c \in Calls, NEW a \in config.agents \cup {Root}, CanCall(c, a)
  PROVE  /\ call[c].state = "idle" /\ proc[c].state = "none" /\ proc[c] \in ProcRecords
         /\ proc[c].child = "none"
         /\ a = Root \/ (a \in Agents /\ agent[a].state = "spawned")
         /\ proc = [proc EXCEPT ![c] = proc[c]]
BY ConfigsAssumption DEF IInv, Typed, CanCall, ProcessFits

LEMMA IdleFields ==
  /\ Idle \in CallRecords
  /\ Idle.attempts = <<>> /\ Idle.effects = 0 /\ Idle.answer = "none"
BY DEF Idle, CallRecords, Answers

LEMMA AnsweredAtOnce ==
  ASSUME IInv, NEW c \in Calls, NEW a \in config.agents \cup {Root}, CanCall(c, a),
         NEW s \in Servers \cup {Unknown}, NEW answer \in {"refused", "limited"},
         call' = Answered(c, a, s, answer), UNCHANGED <<config, agent, now, snippet, proc>>
  PROVE  IInv'
<1> DEFINE t == IF answer = "limited" THEN now ELSE 0
           k == [Idle EXCEPT !.state = "answered", !.agent = a, !.server = s, !.at = t,
                             !.answer = answer]
<1>1. now \in Nat /\ snippet \in Calls \cup {Nobody} /\ a \in Agents \cup {Root}
  BY Starting DEF IInv, Typed
<1>2. /\ k \in CallRecords /\ k.state = "answered" /\ k.effects = 0 /\ k.answer = answer
      /\ k.agent = a /\ k.attempts = <<>>
  <2>1. t \in Nat /\ answer \in Answers
    BY <1>1 DEF Answers
  <2> HIDE DEF t
  <2> QED  BY <1>1, <2>1, IdleFields DEF CallRecords
<1>3. call' = [call EXCEPT ![c] = k]
  BY DEF Answered
<1> HIDE DEF k
<1>4. ProcessFits(k, proc[c]) /\ EffectsFit(k) /\ CallerFits(k)
  BY <1>2, Starting DEF ProcessFits, EffectsFit, CallerFits
<1> QED  BY <1>1, <1>2, <1>3, <1>4, Starting, OneCall

LEMMA AdmittedCalls ==
  ASSUME IInv, NEW c \in Calls, NEW a \in config.agents \cup {Root}, NEW s \in Servers,
         Admit(c, a, s), NEW state \in {"waiting", "launching", "answered"}
  PROVE  LET k == Admitted(a, s, state)
         IN  /\ k \in CallRecords
             /\ k.state = state /\ k.server = s /\ k.agent = a
             /\ k.attempts = <<>> /\ k.effects = 0 /\ k.answer = "none"
             /\ CallerFits(k)
<1> DEFINE k == Admitted(a, s, state)
<1>1. CanCall(c, a) /\ Allowed(a, s)
  BY DEF Admit
<1>2. now \in Nat /\ a \in Agents \cup {Root}
  BY <1>1, Starting DEF IInv, Typed
<1>3. /\ k \in CallRecords
      /\ k.state = state /\ k.server = s /\ k.agent = a
      /\ k.attempts = <<>> /\ k.effects = 0 /\ k.answer = "none"
  BY <1>2, IdleFields DEF Admitted, CallRecords
<1> HIDE DEF k
<1>4. CallerFits(k)
  BY <1>1, <1>3, Starting DEF CallerFits
<1> QED  BY <1>3, <1>4 DEF k

LEMMA Filesystem ==
  ASSUME IInv, NEW c \in Calls, NEW a \in config.agents \cup {Root}, FilesystemCall(c, a)
  PROVE  IInv'
<1> DEFINE started == Admitted(a, "filesystem", "answered")
<1>1. Admit(c, a, "filesystem") /\ "filesystem" \in Servers
  BY DEF FilesystemCall, Servers
<1>2. PICK attempts \in {<<"ok">>, <<"error">>, <<"raised", "ok">>, <<"raised", "raised">>} :
        call' = [call EXCEPT ![c] = [started EXCEPT
          !.attempts = attempts, !.answer = AnswerTo(attempts),
          !.effects = IF attempts = <<"error">> THEN 0 ELSE Len(attempts)]]
  BY DEF FilesystemCall
<1> DEFINE n == IF attempts = <<"error">> THEN 0 ELSE Len(attempts)
           k == [started EXCEPT !.attempts = attempts, !.answer = AnswerTo(attempts), !.effects = n]
<1>3. /\ started \in CallRecords /\ started.state = "answered" /\ started.server = "filesystem"
      /\ started.agent = a /\ CallerFits(started)
  BY <1>1, AdmittedCalls
<1>4. /\ attempts \in Seq({"ok", "raised", "error"}) /\ n \in 0 .. 2
      /\ AnswerTo(attempts) \in {"ok", "error", "failed"}
      /\ AnswerTo(attempts) = "ok" => n > 0
      /\ Len(attempts) <= 2
  <2>1. CASE attempts = <<"ok">>
    BY <2>1 DEF AnswerTo, Last
  <2>2. CASE attempts = <<"error">>
    BY <2>2 DEF AnswerTo, Last
  <2>3. CASE attempts = <<"raised", "ok">>
    BY <2>3 DEF AnswerTo, Last
  <2>4. CASE attempts = <<"raised", "raised">>
    BY <2>4 DEF AnswerTo, Last
  <2> QED  BY <2>1, <2>2, <2>3, <2>4
<1> HIDE DEF started, n
<1>5. /\ k \in CallRecords /\ k.state = "answered" /\ k.server = "filesystem" /\ k.agent = a
      /\ k.effects = n /\ k.answer = AnswerTo(attempts) /\ Len(k.attempts) <= 2
  <2>1. n \in Nat /\ AnswerTo(attempts) \in Answers
    BY <1>4 DEF Answers
  <2> QED  BY <1>3, <1>4, <2>1 DEF CallRecords
<1>6. Allowed(a, "filesystem") /\ (a = Root \/ (a \in Agents /\ agent[a].state = "spawned"))
  BY <1>1, Starting DEF Admit
<1>7. call' = [call EXCEPT ![c] = k]
  BY <1>2 DEF n
<1> HIDE DEF k
<1>8. ProcessFits(k, proc[c]) /\ EffectsFit(k) /\ CallerFits(k)
  BY <1>1, <1>4, <1>5, <1>6, Starting
     DEF ProcessFits, EffectsFit, CallerFits, Destructive, Admit
<1> QED
  BY <1>1, <1>5, <1>7, <1>8, Starting, OneCall
     DEF FilesystemCall, Admit, sandboxVars, IInv, Typed

(* A call that waits, or was refused by its server before it did anything.  *)
LEMMA AdmittedOnly ==
  ASSUME IInv, NEW c \in Calls, NEW a \in config.agents \cup {Root}, NEW s \in Servers,
         Admit(c, a, s), UNCHANGED <<sandboxVars, now, snippet, proc>>,
         \/ s = "http_request" /\ call' = [call EXCEPT ![c] = Admitted(a, s, "waiting")]
         \/ Destructive(s) /\ call' = [call EXCEPT ![c] = Admitted(a, s, "launching")]
  PROVE  IInv'
<1> DEFINE state == IF s = "http_request" THEN "waiting" ELSE "launching"
           k == Admitted(a, s, state)
<1>1. call' = [call EXCEPT ![c] = k] /\ (state = "launching" => Destructive(s))
  BY DEF Destructive
<1>2. /\ k \in CallRecords /\ k.state = state /\ k.server = s /\ k.agent = a
      /\ k.attempts = <<>> /\ k.effects = 0 /\ k.answer = "none" /\ CallerFits(k)
  BY AdmittedCalls
<1>3. CanCall(c, a) /\ Allowed(a, s)
  BY DEF Admit
<1> HIDE DEF k
<1>4. ProcessFits(k, proc[c]) /\ EffectsFit(k) /\ CallerFits(k)
  BY <1>1, <1>2, <1>3, Starting DEF ProcessFits, EffectsFit, CallerFits
<1> QED  BY <1>1, <1>2, <1>3, <1>4, Starting, OneCall DEF sandboxVars, IInv, Typed

LEMMA RefusedByServer ==
  ASSUME IInv, NEW c \in Calls, NEW a \in config.agents \cup {Root}, NEW s \in Servers,
         Admit(c, a, s), UNCHANGED <<sandboxVars, now, snippet, proc>>,
         call' = [call EXCEPT ![c] = [Admitted(a, s, "answered") EXCEPT
                    !.attempts = <<"error">>, !.answer = "error"]]
  PROVE  IInv'
<1> DEFINE started == Admitted(a, s, "answered")
           k == [started EXCEPT !.attempts = <<"error">>, !.answer = "error"]
<1>1. /\ started \in CallRecords /\ started.state = "answered" /\ started.server = s
      /\ started.agent = a /\ started.effects = 0
  BY AdmittedCalls
<1>2. CanCall(c, a)
  BY DEF Admit
<1>3. call' = [call EXCEPT ![c] = k]
  OBVIOUS
<1> HIDE DEF started
<1>4. /\ k \in CallRecords /\ k.state = "answered" /\ k.server = s /\ k.agent = a
      /\ k.effects = 0 /\ k.answer = "error" /\ Len(k.attempts) <= 2
  <2>1. <<"error">> \in Seq({"ok", "raised", "error"}) /\ Len(<<"error">>) <= 2 /\ "error" \in Answers
    BY DEF Answers
  <2> QED  BY <1>1, <2>1 DEF CallRecords
<1> HIDE DEF k
<1>5. ProcessFits(k, proc[c]) /\ EffectsFit(k) /\ CallerFits(k)
  BY <1>2, <1>4, Starting DEF ProcessFits, EffectsFit, CallerFits
<1> QED  BY <1>2, <1>3, <1>4, <1>5, Starting, OneCall DEF sandboxVars, IInv, Typed

(* The record of a call of code_exec that starts, or whose file could not   *)
(* be written.                                                              *)
LEMMA CodeRecords ==
  ASSUME IInv, NEW a \in Agents \cup {Root}
  PROVE  LET begun == Admitted(a, "code_exec", "launching")
             failed == [Admitted(a, "code_exec", "answered") EXCEPT
                          !.attempts = <<"raised">>, !.answer = AnswerTo(<<"raised">>)]
         IN  /\ begun \in CallRecords /\ begun.state = "launching" /\ begun.answer = "none"
             /\ begun.attempts = <<>> /\ begun.server = "code_exec" /\ begun.agent = a
             /\ begun.effects = 0 /\ begun.at = now
             /\ failed \in CallRecords /\ failed.state = "answered" /\ failed.answer = "failed"
             /\ failed.attempts = <<"raised">> /\ failed.server = "code_exec" /\ failed.agent = a
             /\ failed.effects = 0 /\ failed.at = now
<1> DEFINE begun == Admitted(a, "code_exec", "launching")
           done == Admitted(a, "code_exec", "answered")
           failed == [done EXCEPT !.attempts = <<"raised">>, !.answer = AnswerTo(<<"raised">>)]
<1>1. now \in Nat /\ "code_exec" \in Servers
  BY DEF IInv, Typed, Servers
<1>2. /\ begun \in CallRecords /\ begun.state = "launching" /\ begun.answer = "none"
      /\ begun.attempts = <<>> /\ begun.server = "code_exec" /\ begun.agent = a
      /\ begun.effects = 0 /\ begun.at = now
  BY <1>1, IdleFields DEF Admitted, CallRecords
<1>3. /\ done \in CallRecords /\ done.state = "answered" /\ done.server = "code_exec"
      /\ done.agent = a /\ done.effects = 0 /\ done.at = now
  BY <1>1, IdleFields DEF Admitted, CallRecords
<1>4. AnswerTo(<<"raised">>) = "failed" /\ "failed" \in Answers
  BY DEF AnswerTo, Answers, Last
<1>5. <<"raised">> \in Seq({"ok", "raised", "error"})
  OBVIOUS
<1> HIDE DEF begun, done
<1>6. /\ failed \in CallRecords /\ failed.state = "answered" /\ failed.answer = "failed"
      /\ failed.attempts = <<"raised">> /\ failed.server = "code_exec" /\ failed.agent = a
      /\ failed.effects = 0 /\ failed.at = now
  BY <1>3, <1>4, <1>5 DEF CallRecords
<1> QED  BY <1>2, <1>6 DEF begun, done

(* Overlapping calls are marked, which changes nothing else of them.        *)
LEMMA Code ==
  ASSUME IInv, NEW c \in Calls, NEW a \in config.agents \cup {Root}, CodeCall(c, a) \/ CodeFails(c, a)
  PROVE  IInv'
<1> DEFINE others == {d \in Calls : ExecutesCode(d)}
           begun == Admitted(a, "code_exec", "launching")
           failed == [Admitted(a, "code_exec", "answered") EXCEPT
                        !.attempts = <<"raised">>, !.answer = AnswerTo(<<"raised">>)]
           started == IF CodeCall(c, a) THEN begun ELSE failed
           k == [started EXCEPT !.alone = others = {}]
<1>1. /\ Admit(c, a, "code_exec") /\ "code_exec" \in Servers /\ CanCall(c, a)
      /\ Allowed(a, "code_exec")
  BY DEF CodeCall, CodeFails, Servers, Admit
<1>2. /\ started \in CallRecords /\ started.server = "code_exec" /\ started.agent = a
      /\ started.effects = 0 /\ Len(started.attempts) <= 2
      /\ \/ started.state = "launching" /\ started.answer = "none" /\ started.attempts = <<>>
         \/ started.state = "answered" /\ started.answer = "failed"
  <2>1. a \in Agents \cup {Root}
    BY <1>1, Starting
  <2>2. /\ begun \in CallRecords /\ begun.state = "launching" /\ begun.answer = "none"
        /\ begun.attempts = <<>> /\ begun.server = "code_exec" /\ begun.agent = a
        /\ begun.effects = 0
        /\ failed \in CallRecords /\ failed.state = "answered" /\ failed.answer = "failed"
        /\ failed.attempts = <<"raised">> /\ failed.server = "code_exec" /\ failed.agent = a
        /\ failed.effects = 0
    BY <2>1, CodeRecords
  <2>3. Len(<<>>) <= 2 /\ Len(<<"raised">>) <= 2
    OBVIOUS
  <2> HIDE DEF begun, failed
  <2> QED  BY <2>2, <2>3
<1>3. call' = [d \in Calls |-> IF d = c THEN k
                               ELSE IF d \in others THEN [call[d] EXCEPT !.alone = FALSE]
                               ELSE call[d]]
  <2>1. CASE CodeCall(c, a)
    BY <2>1 DEF CodeCall, Overwrites
  <2>2. CASE ~CodeCall(c, a)
    BY <2>2 DEF CodeFails, Overwrites
  <2> QED  BY <2>1, <2>2
<1> HIDE DEF started, others
<1>4. /\ k \in CallRecords /\ k.state = started.state /\ k.server = "code_exec" /\ k.agent = a
      /\ k.attempts = started.attempts /\ k.effects = 0 /\ k.answer = started.answer
  BY <1>2 DEF CallRecords
<1> HIDE DEF k
<1>5. ProcessFits(k, proc[c]) /\ EffectsFit(k) /\ CallerFits(k)
  BY <1>1, <1>2, <1>4, Starting DEF ProcessFits, EffectsFit, CallerFits, Destructive
<1>6. UNCHANGED <<config, agent, proc, now>> /\ snippet' \in Calls \cup {Nobody}
  BY DEF CodeCall, CodeFails, sandboxVars, Written, IInv, Typed
<1>7. ASSUME NEW d \in Calls
      PROVE  /\ call'[d] \in CallRecords
             /\ ProcessFits(call'[d], proc[d]) /\ EffectsFit(call'[d]) /\ CallerFits(call'[d])
  <2>1. CASE d = c
    BY <1>3, <1>4, <1>5, <2>1
  <2>2. CASE d # c /\ d \notin others
    BY <1>3, <2>2 DEF IInv, Typed
  <2>3. CASE d # c /\ d \in others
    <3> DEFINE old == call[d]
               new == [old EXCEPT !.alone = FALSE]
    <3>1. /\ old \in CallRecords
          /\ ProcessFits(old, proc[d]) /\ EffectsFit(old) /\ CallerFits(old)
      BY DEF IInv, Typed
    <3>2. call'[d] = new
      BY <1>3, <2>3
    <3> HIDE DEF old
    <3>3. /\ new \in CallRecords
          /\ new.state = old.state /\ new.server = old.server /\ new.agent = old.agent
          /\ new.attempts = old.attempts /\ new.effects = old.effects /\ new.answer = old.answer
      BY <3>1 DEF CallRecords
    <3> HIDE DEF new
    <3>4. ProcessFits(new, proc[d]) /\ EffectsFit(new) /\ CallerFits(new)
      BY <3>1, <3>3 DEF ProcessFits, EffectsFit, CallerFits
    <3> QED  BY <3>2, <3>3, <3>4
  <2> QED  BY <2>1, <2>2, <2>3
<1>8. Typed'
  <2>1. call' \in [Calls -> CallRecords]
    BY <1>3, <1>7
  <2> QED  BY <1>6, <2>1 DEF IInv, Typed
<1>9. ASSUME NEW d \in Calls
      PROVE  (ProcessFits(call[d], proc[d]) /\ EffectsFit(call[d]) /\ CallerFits(call[d]))'
  BY <1>6, <1>7 DEF ProcessFits, EffectsFit, CallerFits, Allowed
<1> QED  BY <1>8, <1>9 DEF IInv

(***************************************************************************)
(* The steps of a call in progress.                                         *)
(***************************************************************************)
LEMMA HttpReturning ==
  ASSUME IInv, NEW c \in Calls, HttpReturns(c)
  PROVE  IInv'
<1>1. PICK outcome \in {"ok", "raised"}, effect \in BOOLEAN :
        /\ call' = [call EXCEPT ![c] = Attempted(c, outcome, effect)]
        /\ outcome = "ok" => effect
  BY DEF HttpReturns
<1>2. call[c].state = "waiting" /\ UNCHANGED <<config, agent, now, snippet, proc>>
  BY DEF HttpReturns, sandboxVars
<1>3. /\ proc[c] \in ProcRecords /\ proc[c].state = "none" /\ proc[c].child = "none"
      /\ proc = [proc EXCEPT ![c] = proc[c]]
  BY <1>2 DEF IInv, Typed, ProcessFits
<1> DEFINE k == Attempted(c, outcome, effect)
<1>4. k \in CallRecords /\ ProcessFits(k, proc[c]) /\ EffectsFit(k) /\ CallerFits(k)
  BY <1>1, <1>2, <1>3, Attempts
<1> HIDE DEF k
<1> QED  BY <1>1, <1>2, <1>3, <1>4, OneCall DEF k, IInv, Typed

LEMMA Launching ==
  ASSUME IInv, NEW c \in Calls, Launch(c)
  PROVE  IInv'
<1> DEFINE old == call[c]
           k == [old EXCEPT !.state = "running", !.effects = @ + 1]
           p == [NoProc EXCEPT !.state = "started", !.where = Where(c)]
<1>1. /\ old \in CallRecords
      /\ ProcessFits(old, proc[c]) /\ EffectsFit(old) /\ CallerFits(old)
  BY DEF IInv, Typed
<1>2. /\ old.state = "launching"
      /\ call' = [call EXCEPT ![c] = k] /\ proc' = [proc EXCEPT ![c] = p]
      /\ UNCHANGED <<config, agent, now, snippet>>
  BY DEF Launch
<1> HIDE DEF old
<1>3. /\ k \in CallRecords /\ k.state = "running" /\ k.server = old.server /\ k.agent = old.agent
      /\ k.attempts = <<>> /\ k.effects = 1 /\ k.answer = old.answer
  <2>1. old.effects = 0 /\ old.attempts = <<>>
    BY <1>1, <1>2 DEF EffectsFit
  <2>2. k = [old EXCEPT !.state = "running", !.effects = 1]
    BY <2>1
  <2> HIDE DEF k
  <2> QED  BY <1>1, <2>1, <2>2 DEF CallRecords
<1>4. p \in ProcRecords /\ p.state = "started"
  BY DEF ProcRecords, Where, NoProc
<1> HIDE DEF k, p
<1>5. ProcessFits(k, p) /\ EffectsFit(k) /\ CallerFits(k)
  <2>1. Destructive(old.server) /\ old.server # "http_request"
    BY <1>1, <1>2 DEF ProcessFits, Destructive
  <2>2. ProcessFits(k, p)
    BY <1>3, <1>4, <2>1 DEF ProcessFits
  <2>3. EffectsFit(k)
    BY <1>1, <1>2, <1>3, <2>1 DEF EffectsFit
  <2>4. CallerFits(k)
    BY <1>1, <1>2, <1>3 DEF CallerFits
  <2> QED  BY <2>2, <2>3, <2>4
<1> QED  BY <1>2, <1>3, <1>4, <1>5, OneCall DEF IInv, Typed

(* What the daemon or the timer says of a process: one attempt, with no     *)
(* effect of its own.                                                       *)
LEMMA Answering ==
  ASSUME IInv, NEW c \in Calls, LaunchFails(c) \/ Collects(c) \/ ExecBreaks(c) \/ TimesOut(c)
  PROVE  IInv'
<1> DEFINE p == IF TimesOut(c) /\ proc[c].where = "host" /\ Runs(c)
                THEN [proc[c] EXCEPT !.state = "killed"] ELSE proc[c]
<1>1. /\ proc[c] \in ProcRecords /\ ProcessFits(call[c], proc[c])
      /\ call[c] \in CallRecords /\ proc \in [Calls -> ProcRecords]
  BY DEF IInv, Typed
<1>2. PICK outcome \in {"ok", "raised", "error"} :
        /\ call' = [call EXCEPT ![c] = Attempted(c, outcome, FALSE)]
        /\ outcome = "ok" => Collects(c)
  BY DEF LaunchFails, Collects, ExecBreaks, TimesOut
<1>3. call[c].state \in {"launching", "running"} /\ UNCHANGED <<config, agent, now, snippet>>
  BY DEF LaunchFails, Collects, ExecBreaks, TimesOut, TimerFires, sandboxVars
<1>4. proc' = [proc EXCEPT ![c] = p]
  <2>1. CASE TimesOut(c)
    BY <1>1, <2>1 DEF TimesOut, Killed
  <2>2. CASE ~TimesOut(c)
    BY <1>1, <2>2 DEF LaunchFails, Collects, ExecBreaks
  <2> QED  BY <2>1, <2>2
<1>5. /\ p \in ProcRecords
      /\ p.state = "died" => p.where = "container"
      /\ p.where = "host" => p.state \in {"none", "ended", "killed"}
      /\ p.state = "none" => p.child = "none"
      /\ outcome = "ok" /\ p.where = "host" => p.child # "holding"
  <2>1. CASE TimesOut(c) /\ proc[c].where = "host" /\ Runs(c)
    <3> DEFINE old == proc[c]
               killed == [old EXCEPT !.state = "killed"]
    <3>1. old \in ProcRecords /\ ~Collects(c)
      BY <1>1, <2>1 DEF Runs, Collects, OutputEnds
    <3>2. p = killed
      BY <2>1
    <3> HIDE DEF old, p
    <3>3. killed \in ProcRecords /\ killed.state = "killed" /\ killed.where = old.where
      BY <3>1 DEF ProcRecords
    <3>4. old.where = "host"
      BY <2>1 DEF old
    <3> HIDE DEF killed
    <3> QED  BY <1>2, <3>1, <3>2, <3>3, <3>4
  <2>2. CASE ~(TimesOut(c) /\ proc[c].where = "host" /\ Runs(c))
    BY <1>1, <1>2, <2>2 DEF LaunchFails, Collects, ExecBreaks, TimesOut, TimerFires, OutputEnds, Runs,
      ProcessFits
  <2> QED  BY <2>1, <2>2
<1> DEFINE k == Attempted(c, outcome, FALSE)
<1> HIDE DEF p
<1>6. k \in CallRecords /\ ProcessFits(k, p) /\ EffectsFit(k) /\ CallerFits(k)
  BY <1>2, <1>3, <1>5, Attempts DEF Collects
<1>7. call' = [call EXCEPT ![c] = k] /\ now' \in Nat /\ snippet' \in Calls \cup {Nobody}
  BY <1>2, <1>3 DEF IInv, Typed
<1> HIDE DEF k
<1> QED  BY <1>3, <1>4, <1>5, <1>6, <1>7, OneCall

(***************************************************************************)
(* The steps of processes, of the sandbox and of its sub-agents.            *)
(***************************************************************************)
LEMMA Processes ==
  ASSUME IInv, NEW c \in Calls, ReadsCode(c) \/ ProcEnds(c)
  PROVE  IInv'
<1>1. /\ call[c] \in CallRecords /\ proc \in [Calls -> ProcRecords]
      /\ ProcessFits(call[c], proc[c]) /\ snippet \in Calls \cup {Nobody}
      /\ agent \in [Agents -> AgentRecords] /\ now \in Nat
  BY DEF IInv, Typed
<1>2. UNCHANGED <<config, agent, call, now, snippet>>
  BY DEF ReadsCode, ProcEnds, sandboxVars
<1>3. PICK s \in {"reading", "ended"}, d \in Calls \cup {Nobody} :
        proc' = [proc EXCEPT ![c] = [proc[c] EXCEPT !.state = s, !.code = d]]
  <2>1. CASE ReadsCode(c)
    BY <1>1, <2>1 DEF ReadsCode
  <2>2. CASE ProcEnds(c)
    <3>1. /\ proc[c] \in ProcRecords
          /\ proc' = [proc EXCEPT ![c] = [proc[c] EXCEPT !.state = "ended"]]
      BY <1>1, <2>2 DEF ProcEnds
    <3>2. [proc[c] EXCEPT !.state = "ended"]
            = [proc[c] EXCEPT !.state = "ended", !.code = proc[c].code]
      BY <3>1 DEF ProcRecords
    <3>3. proc[c].code \in Calls \cup {Nobody}
      BY <3>1 DEF ProcRecords
    <3> QED  BY <3>1, <3>2, <3>3
  <2> QED  BY <2>1, <2>2
<1>4. proc[c].state \in {"started", "reading"} /\ proc[c] \in ProcRecords
  BY <1>1 DEF ReadsCode, ProcEnds
<1> DEFINE p == [proc[c] EXCEPT !.state = s, !.code = d]
<1>5. p \in ProcRecords /\ p.state = s /\ p.where = proc[c].where /\ p.child = proc[c].child
  BY <1>4 DEF ProcRecords
<1>6. proc' = [proc EXCEPT ![c] = p]
  BY <1>3
<1> HIDE DEF p
<1>7. ProcessFits(call[c], p)
  BY <1>1, <1>4, <1>5 DEF ProcessFits
<1>8. proc' \in [Calls -> ProcRecords] /\ \A e \in Calls : ProcessFits(call[e], proc'[e])
  <2>1. \A e \in Calls : ProcessFits(call[e], proc[e])
    BY DEF IInv
  <2> QED  BY <1>1, <1>5, <1>6, <1>7, <2>1
<1> QED  BY <1>1, <1>2, <1>8, NoCall

(* Only the process of a call in progress starts a child on the host.       *)
LEMMA ChildSteps ==
  ASSUME IInv, NEW c \in Calls, StartsChild(c) \/ ChildEnds(c)
  PROVE  /\ UNCHANGED <<sandboxVars, call, windows, now, snippet>>
         /\ \E x \in {"none", "holding", "apart"} :
              /\ proc' = [proc EXCEPT ![c] = [proc[c] EXCEPT !.child = x]]
              /\ x # "none" => Runs(c) /\ proc[c].where = "host"
BY DEF StartsChild, ChildEnds

LEMMA Children ==
  ASSUME IInv, NEW c \in Calls, StartsChild(c) \/ ChildEnds(c)
  PROVE  IInv'
<1>1. /\ call[c] \in CallRecords /\ proc \in [Calls -> ProcRecords]
      /\ ProcessFits(call[c], proc[c]) /\ proc[c] \in ProcRecords
      /\ agent \in [Agents -> AgentRecords] /\ now \in Nat
  BY DEF IInv, Typed
<1>2. PICK x \in {"none", "holding", "apart"} :
        /\ proc' = [proc EXCEPT ![c] = [proc[c] EXCEPT !.child = x]]
        /\ x # "none" => Runs(c) /\ proc[c].where = "host"
  BY ChildSteps
<1> DEFINE p == [proc[c] EXCEPT !.child = x]
<1>3. p \in ProcRecords /\ p.state = proc[c].state /\ p.where = proc[c].where /\ p.child = x
  BY <1>1 DEF ProcRecords
<1>4. proc' = [proc EXCEPT ![c] = p]
  BY <1>2
<1> HIDE DEF p
<1>5. ProcessFits(call[c], p)
  BY <1>1, <1>2, <1>3 DEF ProcessFits, Runs
<1>6. proc' \in [Calls -> ProcRecords] /\ \A e \in Calls : ProcessFits(call[e], proc'[e])
  <2>1. \A e \in Calls : ProcessFits(call[e], proc[e])
    BY DEF IInv
  <2> QED  BY <1>1, <1>3, <1>4, <1>5, <2>1
<1> QED  BY <1>1, <1>6, ChildSteps, NoCall DEF sandboxVars

(* A container that stops takes its processes with it.                      *)
LEMMA Stopping ==
  ASSUME IInv, ContainerStops \/ DestroyReturns
  PROVE  IInv'
<1>1. /\ proc \in [Calls -> ProcRecords] /\ agent \in [Agents -> AgentRecords] /\ now \in Nat
      /\ \A e \in Calls : ProcessFits(call[e], proc[e])
  BY DEF IInv, Typed
<1>2. UNCHANGED <<config, agent, call, now, snippet>>
  BY DEF ContainerStops, DestroyReturns, DestroyEnds
<1>3. \A e \in Calls :
        \/ proc'[e] = proc[e]
        \/ /\ proc[e].where = "container" /\ proc[e].state \in {"started", "reading"}
           /\ proc'[e] = [proc[e] EXCEPT !.state = "died"]
  BY DEF ContainerStops, DestroyReturns, Runs
<1>4. ASSUME NEW e \in Calls
      PROVE  proc'[e] \in ProcRecords /\ ProcessFits(call[e], proc'[e])
  <2> DEFINE old == proc[e]
             new == [old EXCEPT !.state = "died"]
  <2>1. old \in ProcRecords /\ ProcessFits(call[e], old)
    BY <1>1
  <2>2. CASE proc'[e] = old
    BY <2>1, <2>2
  <2>3. CASE proc'[e] # old
    <3>1. /\ old.where = "container" /\ old.state \in {"started", "reading"}
          /\ proc'[e] = new
      BY <1>3, <2>3
    <3> HIDE DEF old
    <3>2. /\ new \in ProcRecords /\ new.state = "died" /\ new.where = "container"
          /\ new.child = old.child
      BY <2>1, <3>1 DEF ProcRecords
    <3> HIDE DEF new
    <3> QED  BY <2>1, <3>1, <3>2 DEF ProcessFits
  <2> QED  BY <2>2, <2>3
<1>5. proc' \in [Calls -> ProcRecords]
  BY <1>4 DEF ContainerStops, DestroyReturns
<1> QED  BY <1>1, <1>2, <1>4, <1>5, NoCall

(* No sub-agent that was spawned gets another white list.                   *)
LEMMA Spawning ==
  ASSUME IInv, NEW a \in Agents, Spawn(a) \/ MadeSubdir(a)
  PROVE  IInv'
<1>1. /\ proc \in [Calls -> ProcRecords] /\ agent \in [Agents -> AgentRecords] /\ now \in Nat
      /\ \A e \in Calls : ProcessFits(call[e], proc[e])
  BY DEF IInv, Typed
<1>2. UNCHANGED <<config, call, now, snippet, proc>>
  BY DEF Spawn, SpawnAgent, MadeSubdir, SubdirMade, toolVars
<1>3. /\ agent[a].state # "spawned"
      /\ \E x : x \in AgentRecords /\ agent' = [agent EXCEPT ![a] = x]
  <2>1. CASE Spawn(a)
    BY <1>1, <2>1 DEF Spawn, SpawnAgent, AgentRecords
  <2>2. CASE MadeSubdir(a)
    BY <1>1, <2>2 DEF MadeSubdir, SubdirMade, AgentRecords
  <2> QED  BY <2>1, <2>2
<1> QED  BY <1>1, <1>2, <1>3, NoCall

LEMMA Others ==
  ASSUME IInv,
         \/ Provisioning /\ UNCHANGED toolVars
         \/ Tick
         \/ EndOfRun
         \/ UNCHANGED vars
  PROVE  IInv'
<1>1. /\ proc \in [Calls -> ProcRecords] /\ agent \in [Agents -> AgentRecords] /\ now \in Nat
      /\ \A e \in Calls : ProcessFits(call[e], proc[e])
  BY DEF IInv, Typed
<1>2. UNCHANGED <<config, call, snippet, proc, agent>> /\ now' \in Nat
  BY <1>1 DEF Provisioning, BuildSandbox, CreateContainer, StartContainer, QuotaRefused,
              DaemonRefuses, ProvisionFails, RetryWithoutQuota, Tick, EndOfRun, Destroy, toolVars,
              sandboxVars, vars
<1> QED  BY <1>1, <1>2, NoCall

-------------------------------------------------------------------------------
LEMMA StepsKeep == IInv /\ [Next]_vars => IInv'
<1> SUFFICES ASSUME IInv, [Next]_vars PROVE IInv'
  OBVIOUS
<1>1. ASSUME NEW c \in Calls, Start(c) PROVE IInv'
  <2>1. PICK a \in config.agents \cup {Root} :
          \/ \E s \in Servers \cup {Unknown} : RefuseCall(c, a, s) \/ LimitCall(c, a, s)
          \/ FilesystemCall(c, a) \/ HttpCall(c, a) \/ ShellCall(c, a)
          \/ CodeRefused(c, a) \/ CodeCall(c, a) \/ CodeFails(c, a)
    BY <1>1 DEF Start
  <2>2. ASSUME NEW s \in Servers \cup {Unknown}, RefuseCall(c, a, s) PROVE IInv'
    BY <2>2, AnsweredAtOnce DEF RefuseCall, sandboxVars
  <2>3. ASSUME NEW s \in Servers \cup {Unknown}, LimitCall(c, a, s) PROVE IInv'
    BY <2>3, AnsweredAtOnce DEF LimitCall, sandboxVars
  <2>4. CASE FilesystemCall(c, a)
    BY <2>4, Filesystem
  <2>5. CASE HttpCall(c, a)
    BY <2>5, AdmittedOnly DEF HttpCall, Servers
  <2>6. CASE ShellCall(c, a)
    <3>1. Admit(c, a, "shell") /\ UNCHANGED <<sandboxVars, now, snippet, proc>>
      BY <2>6 DEF ShellCall
    <3>2. "shell" \in Servers /\ Destructive("shell")
      BY DEF Servers, Destructive
    <3>3. CASE call' = [call EXCEPT ![c] = Admitted(a, "shell", "launching")]
      BY <3>1, <3>2, <3>3, AdmittedOnly
    <3>4. CASE call' = [call EXCEPT ![c] = [Admitted(a, "shell", "answered") EXCEPT
                          !.attempts = <<"error">>, !.answer = "error"]]
      BY <3>1, <3>2, <3>4, RefusedByServer
    <3> QED  BY <2>6, <3>3, <3>4 DEF ShellCall
  <2>7. CASE CodeRefused(c, a)
    BY <2>7, RefusedByServer DEF CodeRefused, Servers
  <2>8. CASE CodeCall(c, a) \/ CodeFails(c, a)
    BY <2>8, Code
  <2> QED  BY <2>1, <2>2, <2>3, <2>4, <2>5, <2>6, <2>7, <2>8
<1>2. ASSUME NEW c \in Calls, Proceed(c) PROVE IInv'
  BY <1>2, HttpReturning, Launching, Answering DEF Proceed
<1>3. ASSUME NEW c \in Calls, ReadsCode(c) \/ StartsChild(c) \/ ChildEnds(c) \/ ProcEnds(c) PROVE IInv'
  BY <1>3, Processes, Children
<1>4. ASSUME NEW a \in config.agents, Spawn(a) \/ MadeSubdir(a) PROVE IInv'
  <2>1. a \in Agents
    BY ConfigsAssumption DEF IInv, Typed
  <2> QED  BY <1>4, <2>1, Spawning
<1>5. CASE ContainerStops \/ DestroyReturns
  BY <1>5, Stopping
<1>6. CASE (Provisioning /\ UNCHANGED toolVars) \/ Tick \/ EndOfRun \/ UNCHANGED vars
  BY <1>6, Others
<1> QED  BY <1>1, <1>2, <1>3, <1>4, <1>5, <1>6 DEF Next

LEMMA Invariance == Spec => []IInv
BY InitHolds, StepsKeep, PTL DEF Spec

(* What a call did fits what its caller is told (tools/bus.py tool_call):   *)
(* a destructive tool acts at most once and any other at most twice, a      *)
(* refused or limited call does nothing, an ok answer means that something  *)
(* was done, and nothing is done for a sub-agent outside its white list.    *)
THEOREM CallersAreToldTheTruth == Spec => []EffectsFitTheCall
<1>1. IInv => EffectsFitTheCall
  <2> SUFFICES ASSUME IInv, NEW c \in Calls
               PROVE  /\ call[c].effects <= IF Destructive(call[c].server) THEN 1 ELSE 2
                      /\ call[c].answer = "ok" => call[c].effects > 0
                      /\ call[c].answer \in {"refused", "limited"} => call[c].effects = 0
                      /\ call[c].effects > 0 => Allowed(call[c].agent, call[c].server)
    BY DEF EffectsFitTheCall
  <2>1. EffectsFit(call[c]) /\ CallerFits(call[c])
    BY DEF IInv
  <2> QED  BY <2>1 DEF EffectsFit, CallerFits
<1> QED  BY <1>1, Invariance, PTL

(* However a call ends, the shell or interpreter it started on the host     *)
(* has ended or been killed (tools/builtin/shell.py and code_exec.py kill   *)
(* it before they raise), and a call that succeeded has all the output that *)
(* will ever come (communicate() waits for whoever holds it).  What that    *)
(* process started itself may run on.                                       *)
THEOREM StartedProcessesAreEnded == Spec => []StartedProcessesEnd
<1>1. IInv => StartedProcessesEnd
  BY DEF IInv, ProcessFits, StartedProcessesEnd
<1> QED  BY <1>1, Invariance, PTL

(***************************************************************************)
(* The sandbox: what a handle stands for.                                   *)
(***************************************************************************)
Containers == [state : {"none", "created", "running", "exited"}, limited : BOOLEAN]

Wanted == config.diskLimit /\ config.quotas

(* While the container is being made, the quota in its config is the one    *)
(* asked for, or was dropped because the driver has none.                   *)
BoxInv ==
  /\ config \in Configs /\ quota \in BOOLEAN
  /\ box \in {"unconfigured", "creating", "starting", "destroying"} => config.mode = "docker"
  /\ box \in {"absent", "unconfigured", "creating", "destroyed"} => container = NoContainer
  /\ box \in {"absent", "creating"} => quota = config.diskLimit \/ (~quota /\ ~config.quotas)
  /\ box = "starting" => container.state = "created" /\ container.limited = Wanted
  /\ box \in {"ready", "destroying"} /\ config.mode = "docker" =>
       container.state \in {"running", "exited"} /\ container.limited = Wanted
  /\ container.state # "none" => config.mode = "docker"
  /\ container \in Containers /\ box \in Boxes

LEMMA BoxInit == Init => BoxInv
BY ConfigsAssumption DEF Init, SandboxInit, BoxInv, StorageOpt, NoContainer, Boxes, Containers

LEMMA BoxKeep == BoxInv /\ [Next]_vars => BoxInv'
<1> SUFFICES ASSUME BoxInv, [Next]_vars PROVE BoxInv'
  OBVIOUS
<1>1. /\ config \in Configs /\ config.diskLimit \in BOOLEAN /\ config.quotas \in BOOLEAN
      /\ config.mode \in Modes
  BY ConfigsAssumption DEF BoxInv
<1>2. CASE UNCHANGED <<config, box, quota, container>>
  BY <1>2 DEF BoxInv, Wanted
<1>3. CASE BuildSandbox
  BY <1>1, <1>3 DEF BoxInv, BuildSandbox, NoContainer, Wanted, Boxes
<1>4. CASE CreateContainer
  <2>1. /\ quota \in BOOLEAN /\ quota = Wanted
    BY <1>1, <1>4 DEF BoxInv, CreateContainer, Wanted
  <2> QED  BY <1>4, <2>1 DEF BoxInv, CreateContainer, Wanted, Boxes, Containers
<1>5. CASE StartContainer
  BY <1>5 DEF BoxInv, StartContainer, Wanted, Boxes, Containers
<1>6. CASE QuotaRefused
  BY <1>6 DEF BoxInv, QuotaRefused, RetryWithoutQuota, Wanted, Boxes
<1>7. CASE DaemonRefuses
  BY <1>7 DEF BoxInv, DaemonRefuses, ProvisionFails, Wanted, Boxes
<1>8. CASE ContainerStops
  BY <1>8 DEF BoxInv, ContainerStops, ContainerExits, NoContainer, Wanted, Containers
<1>9. CASE EndOfRun
  BY <1>9 DEF BoxInv, EndOfRun, Destroy, Wanted, Boxes
<1>10. CASE DestroyReturns
  <2>1. box = "destroying" /\ UNCHANGED <<config, quota>>
    BY <1>10 DEF DestroyReturns, DestroyEnds
  <2>2. CASE box' = "destroyed" /\ container' = NoContainer
    BY <2>1, <2>2 DEF BoxInv, NoContainer, Boxes, Containers
  <2>3. CASE /\ box' = "ready"
             /\ container' \in {container, [container EXCEPT !.state = "exited"]}
    <3>1. /\ container \in Containers
          /\ container.state \in {"running", "exited"} /\ container.limited = Wanted
      BY <2>1 DEF BoxInv
    <3>2. /\ container' \in Containers /\ container'.state \in {"running", "exited"}
          /\ container'.limited = container.limited
      BY <2>3, <3>1 DEF Containers
    <3> QED  BY <2>1, <2>3, <3>1, <3>2 DEF BoxInv, Wanted, Boxes
  <2> QED  BY <1>10, <2>2, <2>3 DEF DestroyReturns, DestroyEnds
<1>11. ASSUME NEW c \in Calls,
              Start(c) \/ Proceed(c) \/ ReadsCode(c) \/ StartsChild(c) \/ ChildEnds(c) \/ ProcEnds(c)
       PROVE  BoxInv'
  <2>1. UNCHANGED <<config, box, quota, container>>
    BY <1>11 DEF Start, RefuseCall, LimitCall, FilesystemCall, HttpCall, ShellCall, CodeRefused,
      CodeCall, CodeFails, Proceed, HttpReturns, Launch, LaunchFails, Collects, ExecBreaks, TimesOut,
      ReadsCode, StartsChild, ChildEnds, ProcEnds, sandboxVars
  <2> QED  BY <1>2, <2>1
<1>12. ASSUME NEW a \in config.agents, Spawn(a) \/ MadeSubdir(a) PROVE BoxInv'
  BY <1>2, <1>12 DEF Spawn, SpawnAgent, MadeSubdir, SubdirMade
<1> QED
  BY <1>2, <1>3, <1>4, <1>5, <1>6, <1>7, <1>8, <1>9, <1>10, <1>11, <1>12
     DEF Next, Provisioning, Tick, sandboxVars, vars

(* build_sandbox and destroy: whoever has a handle in Docker mode has a     *)
(* container that was started, with the disk quota exactly when it was      *)
(* asked for and the driver has quotas; other modes have none.              *)
THEOREM SandboxAsAsked == Spec => []HandleMeansContainer
<1>1. BoxInv => HandleMeansContainer
  BY DEF BoxInv, HandleMeansContainer, Wanted, NoContainer, Boxes
<1> QED  BY <1>1, BoxInit, BoxKeep, PTL DEF Spec

(***************************************************************************)
(* What a step does to the calls, as the other properties see it.           *)
(***************************************************************************)
Kept(d) ==
  /\ call'[d].state = call[d].state /\ call'[d].server = call[d].server
  /\ call'[d].at = call[d].at /\ call'[d].answer = call[d].answer
  /\ call'[d].attempts = call[d].attempts

(* How the limiter decides on a call that starts.                           *)
RefusedFirst(c) == call'[c].answer = "refused" /\ windows' = windows

LimitedNow(c, s) ==
  /\ call'[c].answer = "limited" /\ call'[c].server = s /\ call'[c].at = now
  /\ AtLimit(s) /\ windows' = [windows EXCEPT ![s] = InWindow(s)]

AdmittedNow(c, s) ==
  /\ call'[c].answer \notin {"refused", "limited"} /\ call'[c].server = s /\ call'[c].at = now
  /\ ~AtLimit(s)
  /\ windows' = IF config.rpm > 0 THEN [windows EXCEPT ![s] = InWindow(s) \cup {c}] ELSE windows

Decided(c) == RefusedFirst(c) \/ \E s \in Servers : LimitedNow(c, s) \/ AdmittedNow(c, s)

(* Whose code the file holds after a call has started, or failed to hand    *)
(* over its own.                                                            *)
HandsOver(c) ==
  \/ /\ snippet' = snippet /\ \A d \in Calls : d # c => call'[d] = call[d]
     /\ call'[c].state = "launching" => call'[c].server # "code_exec"
  \/ /\ snippet' = c \/ call'[c].state = "answered"
     /\ \A d \in Calls : d # c => call'[d].alone = (call[d].alone /\ ~ExecutesCode(d))

Starts(c) ==
  /\ call[c].state = "idle" /\ call'[c].state \in {"waiting", "launching", "answered"}
  /\ call'[c].answer = "ok" => call'[c].server # "code_exec"
  /\ \A d \in Calls : d # c => Kept(d)
  /\ Decided(c) /\ HandsOver(c)
  /\ UNCHANGED <<sandboxVars, now, proc>>

LEMMA AdmittedFields ==
  ASSUME IInv, NEW a \in Agents \cup {Root}, NEW s \in Servers,
         NEW state \in {"waiting", "launching", "answered"}
  PROVE  LET k == Admitted(a, s, state)
         IN  k \in CallRecords /\ k.state = state /\ k.server = s /\ k.at = now /\ k.answer = "none"
BY IdleFields DEF Admitted, CallRecords, IInv, Typed

(* A call admitted to a server, whose record has been completed.            *)
LEMMA StartsAdmitted ==
  ASSUME IInv, NEW c \in Calls, NEW a, NEW s \in Servers, Admit(c, a, s), NEW k,
         call' = [call EXCEPT ![c] = k], k.state \in {"waiting", "launching", "answered"},
         k.server = s, k.at = now, k.answer \notin {"refused", "limited"},
         k.answer = "ok" => s # "code_exec", k.state = "launching" => s # "code_exec",
         UNCHANGED <<sandboxVars, now, snippet, proc>>
  PROVE  Starts(c)
<1>1. call'[c] = k /\ \A d \in Calls : d # c => call'[d] = call[d]
  BY DEF IInv, Typed
<1>2. Decided(c)
  BY <1>1 DEF Decided, AdmittedNow, Admit
<1>3. HandsOver(c)
  BY <1>1 DEF HandsOver
<1> QED  BY <1>1, <1>2, <1>3 DEF Starts, Kept, Admit, CanCall

LEMMA StartsRefused ==
  ASSUME IInv, NEW c \in Calls, NEW a \in Agents \cup {Root}, CanCall(c, a),
         NEW s \in Servers \cup {Unknown}, NEW answer \in {"refused", "limited"},
         call' = Answered(c, a, s, answer), UNCHANGED <<sandboxVars, now, snippet, proc>>,
         \/ answer = "refused" /\ windows' = windows
         \/ /\ answer = "limited" /\ s \in Servers /\ AtLimit(s)
            /\ windows' = [windows EXCEPT ![s] = InWindow(s)]
  PROVE  Starts(c)
<1> DEFINE t == IF answer = "limited" THEN now ELSE 0
           k == [Idle EXCEPT !.state = "answered", !.agent = a, !.server = s, !.at = t,
                             !.answer = answer]
<1>1. k \in CallRecords /\ k.state = "answered" /\ k.server = s /\ k.at = t /\ k.answer = answer
  <2>1. t \in Nat /\ answer \in Answers
    BY DEF Answers, IInv, Typed
  <2> HIDE DEF t
  <2> QED  BY <2>1, IdleFields DEF CallRecords
<1>2. call' = [call EXCEPT ![c] = k]
  BY DEF Answered
<1> HIDE DEF k
<1>3. call'[c] = k /\ \A d \in Calls : d # c => call'[d] = call[d]
  BY <1>2 DEF IInv, Typed
<1>4. Decided(c)
  BY <1>1, <1>3 DEF Decided, RefusedFirst, LimitedNow
<1>5. HandsOver(c)
  BY <1>1, <1>3 DEF HandsOver
<1> QED  BY <1>1, <1>3, <1>4, <1>5 DEF Starts, Kept, CanCall

LEMMA CodeStarts ==
  ASSUME IInv, NEW c \in Calls, NEW a \in Agents \cup {Root}, CodeCall(c, a) \/ CodeFails(c, a)
  PROVE  Starts(c)
<1> DEFINE begun == Admitted(a, "code_exec", "launching")
           failed == [Admitted(a, "code_exec", "answered") EXCEPT
                        !.attempts = <<"raised">>, !.answer = AnswerTo(<<"raised">>)]
           started == IF CodeCall(c, a) THEN begun ELSE failed
           others == {d \in Calls : ExecutesCode(d)}
           k == [started EXCEPT !.alone = others = {}]
<1>1. Admit(c, a, "code_exec") /\ "code_exec" \in Servers
  BY DEF CodeCall, CodeFails, Servers
<1>2. /\ started \in CallRecords /\ started.server = "code_exec" /\ started.at = now
      /\ \/ started.state = "launching" /\ started.answer = "none" /\ CodeCall(c, a)
         \/ started.state = "answered" /\ started.answer = "failed"
  <2>1. /\ begun \in CallRecords /\ begun.state = "launching" /\ begun.answer = "none"
        /\ begun.server = "code_exec" /\ begun.at = now
        /\ failed \in CallRecords /\ failed.state = "answered" /\ failed.answer = "failed"
        /\ failed.server = "code_exec" /\ failed.at = now
    BY CodeRecords
  <2> HIDE DEF begun, failed
  <2> QED  BY <2>1
<1>3. /\ call'[c] = k
      /\ \A d \in Calls : d # c =>
           call'[d] = IF d \in others THEN [call[d] EXCEPT !.alone = FALSE] ELSE call[d]
  <2>1. CASE CodeCall(c, a)
    BY <2>1 DEF CodeCall, Overwrites
  <2>2. CASE ~CodeCall(c, a)
    BY <2>2 DEF CodeFails, Overwrites
  <2> QED  BY <2>1, <2>2
<1> HIDE DEF started
<1>4. k.state = started.state /\ k.server = "code_exec" /\ k.at = now /\ k.answer = started.answer
  BY <1>2 DEF CallRecords
<1> HIDE DEF k
<1>5. ASSUME NEW d \in Calls, d # c
      PROVE  Kept(d) /\ call'[d].alone = (call[d].alone /\ ~ExecutesCode(d))
  <2>1. call[d] \in CallRecords
    BY DEF IInv, Typed
  <2>2. CASE ExecutesCode(d)
    BY <1>3, <1>5, <2>1, <2>2 DEF Kept, CallRecords
  <2>3. CASE ~ExecutesCode(d)
    BY <1>3, <1>5, <2>1, <2>3 DEF Kept, CallRecords
  <2> QED  BY <2>2, <2>3
<1>6. Decided(c)
  BY <1>1, <1>2, <1>3, <1>4 DEF Decided, AdmittedNow, Admit
<1>7. HandsOver(c)
  BY <1>2, <1>3, <1>4, <1>5 DEF HandsOver, CodeCall, Written
<1> QED  BY <1>1, <1>2, <1>3, <1>4, <1>5, <1>6, <1>7 DEF Starts, Admit, CanCall, CodeCall, CodeFails

LEMMA StartsOf ==
  ASSUME IInv, NEW c \in Calls, Start(c)
  PROVE  Starts(c)
<1>1. PICK a \in config.agents \cup {Root} :
        \/ \E s \in Servers \cup {Unknown} : RefuseCall(c, a, s) \/ LimitCall(c, a, s)
        \/ FilesystemCall(c, a) \/ HttpCall(c, a) \/ ShellCall(c, a)
        \/ CodeRefused(c, a) \/ CodeCall(c, a) \/ CodeFails(c, a)
  BY DEF Start
<1>2. a \in Agents \cup {Root}
  BY ConfigsAssumption DEF IInv, Typed
<1>3. ASSUME NEW s \in Servers \cup {Unknown}, RefuseCall(c, a, s) PROVE Starts(c)
  BY <1>2, <1>3, StartsRefused DEF RefuseCall
<1>4. ASSUME NEW s \in Servers \cup {Unknown}, LimitCall(c, a, s) PROVE Starts(c)
  <2>1. s \in Servers
    BY <1>4, LimitsAssumption DEF LimitCall, IInv, Typed
  <2> QED  BY <1>2, <1>4, <2>1, StartsRefused DEF LimitCall
<1>5. CASE FilesystemCall(c, a)
  <2> DEFINE started == Admitted(a, "filesystem", "answered")
  <2>1. Admit(c, a, "filesystem") /\ "filesystem" \in Servers
    BY <1>5 DEF FilesystemCall, Servers
  <2>2. PICK attempts \in {<<"ok">>, <<"error">>, <<"raised", "ok">>, <<"raised", "raised">>} :
          call' = [call EXCEPT ![c] = [started EXCEPT
            !.attempts = attempts, !.answer = AnswerTo(attempts),
            !.effects = IF attempts = <<"error">> THEN 0 ELSE Len(attempts)]]
    BY <1>5 DEF FilesystemCall
  <2> DEFINE answer == AnswerTo(attempts)
             n == IF attempts = <<"error">> THEN 0 ELSE Len(attempts)
             k == [started EXCEPT !.attempts = attempts, !.answer = answer, !.effects = n]
  <2>3. /\ started \in CallRecords /\ started.state = "answered" /\ started.server = "filesystem"
        /\ started.at = now
    BY <1>2, <2>1, AdmittedFields
  <2>4. answer \in {"ok", "error", "failed"}
    BY DEF AnswerTo
  <2>5. call' = [call EXCEPT ![c] = k]
    BY <2>2
  <2> HIDE DEF started, answer, n
  <2>6. k.state = "answered" /\ k.server = "filesystem" /\ k.at = now /\ k.answer = answer
    BY <2>3 DEF CallRecords
  <2> HIDE DEF k
  <2> QED  BY <1>5, <2>1, <2>4, <2>5, <2>6, StartsAdmitted DEF FilesystemCall
<1>6. CASE HttpCall(c, a)
  <2>1. Admit(c, a, "http_request") /\ "http_request" \in Servers
    BY <1>6 DEF HttpCall, Servers
  <2> DEFINE k == Admitted(a, "http_request", "waiting")
  <2>2. k.state = "waiting" /\ k.server = "http_request" /\ k.at = now /\ k.answer = "none"
    BY <1>2, <2>1, AdmittedFields
  <2>3. call' = [call EXCEPT ![c] = k]
    BY <1>6 DEF HttpCall
  <2> HIDE DEF k
  <2> QED  BY <1>6, <2>1, <2>2, <2>3, StartsAdmitted DEF HttpCall
<1>7. CASE ShellCall(c, a) /\ call' = [call EXCEPT ![c] = Admitted(a, "shell", "launching")]
  <2>1. Admit(c, a, "shell") /\ "shell" \in Servers
    BY <1>7 DEF ShellCall, Servers
  <2> DEFINE k == Admitted(a, "shell", "launching")
  <2>2. k.state = "launching" /\ k.server = "shell" /\ k.at = now /\ k.answer = "none"
    BY <1>2, <2>1, AdmittedFields
  <2> HIDE DEF k
  <2> QED  BY <1>7, <2>1, <2>2, StartsAdmitted DEF ShellCall, k
<1>8. ASSUME NEW s \in {"shell", "code_exec"}, Admit(c, a, s),
             call' = [call EXCEPT ![c] = [Admitted(a, s, "answered") EXCEPT
                        !.attempts = <<"error">>, !.answer = "error"]],
             UNCHANGED <<sandboxVars, now, snippet, proc>>
      PROVE  Starts(c)
  <2> DEFINE started == Admitted(a, s, "answered")
             k == [started EXCEPT !.attempts = <<"error">>, !.answer = "error"]
  <2>1. s \in Servers
    BY DEF Servers
  <2>2. started \in CallRecords /\ started.state = "answered" /\ started.server = s /\ started.at = now
    BY <1>2, <2>1, AdmittedFields
  <2>3. call' = [call EXCEPT ![c] = k]
    BY <1>8
  <2> HIDE DEF started
  <2>4. k.state = "answered" /\ k.server = s /\ k.at = now /\ k.answer = "error"
    BY <2>2 DEF CallRecords
  <2> HIDE DEF k
  <2> QED  BY <1>8, <2>1, <2>3, <2>4, StartsAdmitted
<1>9. CASE CodeCall(c, a) \/ CodeFails(c, a)
  BY <1>2, <1>9, CodeStarts
<1> QED
  BY <1>1, <1>3, <1>4, <1>5, <1>6, <1>7, <1>8, <1>9 DEF ShellCall, CodeRefused

(* A call in progress keeps its server and its time; it has a process that  *)
(* runs only after it was launched, and no attempt is refused or limited.   *)
Proceeds(c) ==
  /\ call[c].state \in {"waiting", "launching", "running"} /\ call'[c].state # "idle"
  /\ call'[c].state = "running" => Launch(c)
  /\ call'[c].server = call[c].server /\ call'[c].at = call[c].at
  /\ call'[c].alone = call[c].alone
  /\ call'[c].answer \notin {"refused", "limited"} /\ call[c].answer = "none"
  /\ call'[c].answer = "ok" => call[c].state = "waiting" \/ Collects(c)
  /\ \A d \in Calls : d # c => call'[d] = call[d]
  /\ UNCHANGED <<config, box, agent, windows, now, snippet>>

LEMMA AttemptedFields ==
  ASSUME IInv, NEW c \in Calls, call[c].state \in {"waiting", "launching", "running"},
         NEW outcome \in {"ok", "raised", "error"}, NEW effect \in BOOLEAN
  PROVE  LET k == Attempted(c, outcome, effect)
         IN  /\ k.state \in {"waiting", "launching", "answered"}
             /\ k.server = call[c].server /\ k.at = call[c].at /\ k.alone = call[c].alone
             /\ k.answer \in {"none", "ok", "error", "failed"}
             /\ k.answer = "ok" => outcome = "ok"
             /\ Destructive(call[c].server) => k.state = "answered"
<1> DEFINE attempts == Append(call[c].attempts, outcome)
           again == Retries(call[c].server, attempts)
           next == IF call[c].server = "http_request" THEN "waiting" ELSE "launching"
           state == IF again THEN next ELSE "answered"
           answer == IF again THEN "none" ELSE AnswerTo(attempts)
           n == call[c].effects + (IF effect THEN 1 ELSE 0)
           old == call[c]
           k == [old EXCEPT !.attempts = attempts, !.effects = n, !.state = state, !.answer = answer]
<1>1. old \in CallRecords
  BY DEF IInv, Typed
<1>2. attempts \in Seq({"ok", "raised", "error"}) /\ attempts # <<>> /\ Last(attempts) = outcome
  BY <1>1 DEF CallRecords, Last
<1>3. /\ AnswerTo(attempts) \in {"ok", "error", "failed"}
      /\ AnswerTo(attempts) = "ok" => outcome = "ok"
  BY <1>2, OkAnswers
<1>4. Attempted(c, outcome, effect) = k
  BY DEF Attempted
<1>5. /\ state \in {"waiting", "launching", "answered"} /\ answer \in {"none", "ok", "error", "failed"}
      /\ answer = "ok" => outcome = "ok"
      /\ Destructive(call[c].server) => state = "answered"
  BY <1>3 DEF Retries
<1> HIDE DEF attempts, state, answer, n, old
<1>6. /\ k.state = state /\ k.answer = answer /\ k.server = old.server /\ k.at = old.at
      /\ k.alone = old.alone
  BY <1>1 DEF CallRecords
<1> HIDE DEF k
<1> QED  BY <1>4, <1>5, <1>6 DEF old

LEMMA ProceedsOf ==
  ASSUME IInv, NEW c \in Calls, Proceed(c)
  PROVE  Proceeds(c)
<1>1. /\ call \in [Calls -> CallRecords] /\ EffectsFit(call[c])
  BY DEF IInv, Typed
<1>2. CASE Launch(c)
  <2> DEFINE old == call[c]
             k == [old EXCEPT !.state = "running", !.effects = @ + 1]
  <2>1. /\ old \in CallRecords /\ old.state = "launching" /\ old.answer = "none"
        /\ call'[c] = k /\ \A d \in Calls : d # c => call'[d] = call[d]
    BY <1>1, <1>2 DEF Launch, EffectsFit
  <2> HIDE DEF old
  <2>2. /\ k.state = "running" /\ k.server = old.server /\ k.at = old.at /\ k.alone = old.alone
        /\ k.answer = old.answer
    BY <2>1 DEF CallRecords
  <2> HIDE DEF k
  <2> QED  BY <1>2, <2>1, <2>2 DEF Proceeds, Launch, old
<1>3. CASE HttpReturns(c) \/ LaunchFails(c) \/ Collects(c) \/ ExecBreaks(c) \/ TimesOut(c)
  <2>1. PICK outcome \in {"ok", "raised", "error"}, effect \in BOOLEAN :
          /\ call' = [call EXCEPT ![c] = Attempted(c, outcome, effect)]
          /\ outcome = "ok" => HttpReturns(c) \/ Collects(c)
    BY <1>3 DEF HttpReturns, LaunchFails, Collects, ExecBreaks, TimesOut
  <2>2. /\ call[c].state \in {"waiting", "launching", "running"}
        /\ HttpReturns(c) => call[c].state = "waiting"
        /\ UNCHANGED <<config, box, agent, windows, now, snippet>>
    BY <1>3 DEF HttpReturns, LaunchFails, Collects, ExecBreaks, TimesOut, TimerFires, sandboxVars
  <2> DEFINE k == Attempted(c, outcome, effect)
  <2>3. call'[c] = k /\ \A d \in Calls : d # c => call'[d] = call[d]
    BY <1>1, <2>1
  <2>4. /\ k.state \in {"waiting", "launching", "answered"}
        /\ k.server = call[c].server /\ k.at = call[c].at /\ k.alone = call[c].alone
        /\ k.answer \in {"none", "ok", "error", "failed"}
        /\ k.answer = "ok" => outcome = "ok"
    BY <2>2, AttemptedFields
  <2> HIDE DEF k
  <2>5. call[c].answer = "none"
    BY <1>1, <2>2 DEF EffectsFit
  <2> QED  BY <2>1, <2>2, <2>3, <2>4, <2>5 DEF Proceeds
<1> QED  BY <1>2, <1>3 DEF Proceed

(***************************************************************************)
(* Docker clients.                                                          *)
(***************************************************************************)
Executing == {c \in Calls : call[c].state = "running" /\ Where(c) = "container"}
SpawningIn == {a \in Agents : agent[a].state = "spawning"}
Operating == {o \in {"provision"} : box \in {"creating", "starting", "unconfigured"}}
             \cup {o \in {"destroy"} : box = "destroying"}

ClientsInv == clients = Operating \cup Executing \cup SpawningIn

(* A launched call has a client, and no other call gets or loses one.       *)
LEMMA ExecutingOf ==
  ASSUME IInv, NEW c \in Calls, Starts(c) \/ Proceeds(c), UNCHANGED config
  PROVE  Executing' = IF Launch(c) /\ Where(c) = "container" THEN Executing \cup {c}
                      ELSE Executing \ {c}
<1>1. \A d \in Calls : d # c =>
        call'[d].state = call[d].state /\ call'[d].server = call[d].server
  BY DEF Starts, Proceeds, Kept
<1>2. \A d \in Calls : d # c => (d \in Executing' <=> d \in Executing)
  BY <1>1 DEF Executing, Where
<1>3. c \in Executing' <=> Launch(c) /\ Where(c) = "container"
  <2>1. CASE Launch(c)
    <3>1. call'[c].state = "running" /\ call'[c].server = call[c].server
      <4>1. call[c] \in CallRecords /\ call' = [call EXCEPT ![c] = [call[c] EXCEPT
              !.state = "running", !.effects = @ + 1]] /\ call \in [Calls -> CallRecords]
        BY <2>1 DEF Launch, IInv, Typed
      <4> QED  BY <4>1 DEF CallRecords
    <3> QED  BY <2>1, <3>1 DEF Executing, Where
  <2>2. CASE ~Launch(c)
    <3>1. call'[c].state # "running"
      BY <2>2 DEF Starts, Proceeds
    <3> QED  BY <2>2, <3>1 DEF Executing
  <2> QED  BY <2>1, <2>2
<1> QED  BY <1>2, <1>3 DEF Executing

LEMMA ClientsKeep == IInv /\ ClientsInv /\ [Next]_vars => ClientsInv'
<1> SUFFICES ASSUME IInv, ClientsInv, [Next]_vars PROVE ClientsInv'
  OBVIOUS
<1>1. ASSUME UNCHANGED <<config, call>> PROVE Executing' = Executing
  BY <1>1 DEF Executing, Where
<1>2. ASSUME UNCHANGED agent PROVE SpawningIn' = SpawningIn
  BY <1>2 DEF SpawningIn
<1>3. ASSUME UNCHANGED box PROVE Operating' = Operating
  BY <1>3 DEF Operating
<1>4. Calls \cap Agents = {} /\ {"provision", "destroy"} \cap (Calls \cup Agents) = {}
  BY OwnersAssumption
<1>5. CASE Provisioning /\ UNCHANGED toolVars
  <2>1. UNCHANGED <<config, call, agent>>
    BY <1>5 DEF toolVars, Provisioning, BuildSandbox, CreateContainer, StartContainer, QuotaRefused,
      DaemonRefuses, ProvisionFails, RetryWithoutQuota
  <2>2. \/ Operating' = Operating \cup {"provision"} /\ clients' = clients \cup {"provision"}
        \/ Operating' = Operating \ {"provision"} /\ clients' = clients \ {"provision"}
        \/ Operating' = Operating /\ clients' = clients
    BY <1>5 DEF Operating, Provisioning, BuildSandbox, CreateContainer, StartContainer, QuotaRefused,
      DaemonRefuses, ProvisionFails, RetryWithoutQuota
  <2> QED  BY <1>1, <1>2, <1>4, <2>1, <2>2 DEF ClientsInv, Executing, SpawningIn
<1>6. CASE EndOfRun \/ DestroyReturns
  <2>1. UNCHANGED <<config, call, agent>>
    BY <1>6 DEF EndOfRun, Destroy, DestroyReturns, DestroyEnds, toolVars
  <2>2. \/ Operating' = Operating \cup {"destroy"} /\ clients' = clients \cup {"destroy"}
        \/ Operating' = Operating \ {"destroy"} /\ clients' = clients \ {"destroy"}
        \/ Operating' = Operating /\ clients' = clients
    BY <1>6 DEF Operating, EndOfRun, Destroy, DestroyReturns, DestroyEnds
  <2> QED  BY <1>1, <1>2, <1>4, <2>1, <2>2 DEF ClientsInv, Executing, SpawningIn
<1>7. ASSUME NEW c \in Calls, Start(c) PROVE ClientsInv'
  <2>1. Starts(c) /\ c \notin Executing
    BY <1>7, StartsOf DEF Starts, Executing
  <2>2. UNCHANGED <<config, box, agent, clients>> /\ ~Launch(c)
    BY <2>1 DEF Starts, sandboxVars, Launch
  <2> QED  BY <1>2, <1>3, <2>1, <2>2, ExecutingOf DEF ClientsInv
<1>8. ASSUME NEW c \in Calls, Proceed(c) PROVE ClientsInv'
  <2>1. Proceeds(c) /\ UNCHANGED <<config, box, agent>>
    BY <1>8, ProceedsOf DEF Proceeds
  <2>2. clients' = IF Launch(c) /\ Where(c) = "container" THEN clients \cup {c} ELSE clients \ {c}
    <3>1. call[c].state # "running" => clients = clients \ {c}
      <4>1. c \notin Operating /\ c \notin SpawningIn
        BY <1>4 DEF Operating, SpawningIn
      <4> QED  BY <4>1 DEF ClientsInv, Executing
    <3>2. CASE HttpReturns(c) \/ LaunchFails(c)
      <4>1. call[c].state \in {"waiting", "launching"} /\ clients' = clients /\ proc' = proc
        BY <3>2 DEF HttpReturns, LaunchFails, sandboxVars
      <4>2. proc[c].state = "none" /\ proc \in [Calls -> ProcRecords]
        BY <4>1 DEF IInv, Typed, ProcessFits
      <4>3. ~Launch(c)
        BY <4>1, <4>2 DEF Launch, NoProc
      <4> QED  BY <3>1, <4>1, <4>3
    <3>3. CASE Launch(c)
      <4>1. /\ call[c].state # "running"
            /\ clients' = IF Where(c) = "container" THEN clients \cup {c} ELSE clients
        BY <3>3 DEF Launch
      <4> QED  BY <3>1, <3>3, <4>1
    <3>4. CASE Collects(c) \/ ExecBreaks(c) \/ TimesOut(c)
      BY <3>4 DEF Collects, ExecBreaks, TimesOut, TimerFires, Launch
    <3> QED  BY <1>8, <3>2, <3>3, <3>4 DEF Proceed
  <2> QED  BY <1>2, <1>3, <1>4, <2>1, <2>2, ExecutingOf DEF ClientsInv, Operating, SpawningIn
<1>9. ASSUME NEW a \in config.agents, Spawn(a) \/ MadeSubdir(a) PROVE ClientsInv'
  <2>1. a \in Agents /\ agent \in [Agents -> AgentRecords]
    BY ConfigsAssumption DEF IInv, Typed
  <2>2. UNCHANGED <<config, call, box>>
    BY <1>9 DEF Spawn, SpawnAgent, MadeSubdir, SubdirMade, toolVars
  <2>3. \/ SpawningIn' = SpawningIn \cup {a} /\ clients' = clients \cup {a}
        \/ SpawningIn' = SpawningIn \ {a} /\ clients' = clients \ {a}
        \/ SpawningIn' = SpawningIn /\ clients' = clients
    <3>1. CASE Spawn(a)
      BY <2>1, <3>1 DEF Spawn, SpawnAgent, SpawningIn
    <3>2. CASE MadeSubdir(a)
      <4>1. /\ agent[a] \in AgentRecords /\ clients' = clients \ {a}
            /\ \/ agent' = [agent EXCEPT ![a] = [agent[a] EXCEPT !.state = "spawned",
                                                                 !.subdir = "container"]]
               \/ agent' = [agent EXCEPT ![a] = [agent[a] EXCEPT !.state = "failed"]]
        BY <2>1, <3>2 DEF MadeSubdir, SubdirMade
      <4> DEFINE old == agent[a]
                 spawned == [old EXCEPT !.state = "spawned", !.subdir = "container"]
                 failed == [old EXCEPT !.state = "failed"]
      <4>2. agent' = [agent EXCEPT ![a] = spawned] \/ agent' = [agent EXCEPT ![a] = failed]
        BY <4>1
      <4> HIDE DEF old
      <4>3. spawned.state = "spawned" /\ failed.state = "failed"
        BY <4>1 DEF AgentRecords, old
      <4> HIDE DEF spawned, failed
      <4> QED  BY <2>1, <4>1, <4>2, <4>3 DEF SpawningIn
    <3> QED  BY <1>9, <3>1, <3>2
  <2> QED  BY <1>1, <1>3, <1>4, <2>1, <2>2, <2>3 DEF ClientsInv, Operating, Executing
<1>10. CASE \/ Tick \/ ContainerStops \/ UNCHANGED vars
            \/ \E c \in Calls : ReadsCode(c) \/ StartsChild(c) \/ ChildEnds(c) \/ ProcEnds(c)
  <2>1. UNCHANGED <<config, call, box, agent, clients>>
    BY <1>10 DEF Tick, ContainerStops, ContainerExits, ReadsCode, StartsChild, ChildEnds, ProcEnds,
      sandboxVars, toolVars, vars
  <2> QED  BY <1>1, <1>2, <1>3, <2>1 DEF ClientsInv
<1> QED  BY <1>5, <1>6, <1>7, <1>8, <1>9, <1>10 DEF Next

(* A Docker client is open exactly while provisioning, destroying, an exec  *)
(* or a spawn uses it, whichever way these end, or if the container config  *)
(* could not be built from the limits: docker_provisioner.py then leaves    *)
(* the client it has just opened, and that one only, open.                  *)
THEOREM EveryClientIsAccountedFor == Spec => []ClientsAreAccountedFor
<1>1. Init => ClientsInv
  BY DEF Init, SandboxInit, ClientsInv, Executing, SpawningIn, Operating, Idle, NoContext
<1>2. ClientsInv => ClientsAreAccountedFor
  BY DEF ClientsInv, Executing, SpawningIn, Operating, ClientsAreAccountedFor
<1> QED  BY <1>1, <1>2, ClientsKeep, Invariance, PTL DEF Spec

(***************************************************************************)
(* The file the code is handed over in.                                     *)
(***************************************************************************)
Own(c) == IF config.pathFits THEN c ELSE Nobody

(* A call that overlaps with no other finds its own code in the file, and   *)
(* its process has read that code once it reads or has ended.               *)
CodeFits(c) ==
  call[c].server = "code_exec" /\ call[c].alone =>
    /\ call[c].state \in {"launching", "running"} => snippet = c
    /\ call[c].state = "running" \/ call[c].answer = "ok" =>
         (proc[c].state \in {"reading", "ended"} => proc[c].code = Own(c))
    /\ call[c].answer = "ok" => proc[c].state \in {"ended", "died"}

CodeInv == \A c \in Calls : CodeFits(c)

(* What CodeFits says of the next state.                                    *)
CodeGoal(d) ==
  /\ call'[d].state \in {"launching", "running"} => snippet' = d
  /\ call'[d].state = "running" \/ call'[d].answer = "ok" =>
       (proc'[d].state \in {"reading", "ended"} => proc'[d].code = Own(d)')
  /\ call'[d].answer = "ok" => proc'[d].state \in {"ended", "died"}

LEMMA CodeKeep == IInv /\ CodeInv /\ [Next]_vars => CodeInv'
<1> SUFFICES ASSUME IInv, CodeInv, [Next]_vars, NEW d \in Calls, call'[d].server = "code_exec",
                    call'[d].alone
             PROVE  CodeGoal(d)
  BY DEF CodeInv, CodeFits, CodeGoal
<1>1. /\ CodeFits(d) /\ call \in [Calls -> CallRecords] /\ proc \in [Calls -> ProcRecords]
      /\ ProcessFits(call[d], proc[d])
  BY DEF CodeInv, IInv, Typed
<1>2. ASSUME UNCHANGED <<config, call, snippet>>,
             \/ proc'[d] = proc[d]
             \/ proc'[d].state = proc[d].state /\ proc'[d].code = proc[d].code
             \/ proc[d].state \in {"started", "reading"} /\ proc'[d].state = "died"
      PROVE  CodeGoal(d)
  BY <1>1, <1>2 DEF CodeFits, Own, CodeGoal
<1>3. ASSUME NEW c \in Calls, Start(c)
      PROVE  CodeGoal(d)
  <2>1. Starts(c) /\ UNCHANGED <<config, proc>>
    BY <1>3, StartsOf DEF Starts, sandboxVars
  <2>2. CASE d = c
    BY <2>1, <2>2 DEF Starts, HandsOver, CodeGoal
  <2>3. CASE d # c
    BY <1>1, <2>1, <2>3 DEF Starts, HandsOver, Kept, CodeFits, Own, ExecutesCode,
      CodeGoal
  <2> QED  BY <2>2, <2>3
<1>4. ASSUME NEW c \in Calls, Proceed(c)
      PROVE  CodeGoal(d)
  <2>1. Proceeds(c) /\ UNCHANGED <<config, snippet>>
    BY <1>4, ProceedsOf DEF Proceeds
  <2>2. CASE d # c
    <3>1. proc'[d] = proc[d]
      BY <1>1, <1>4, <2>2 DEF Proceed, HttpReturns, Launch, LaunchFails, Collects, ExecBreaks,
        TimesOut, Killed
    <3> QED  BY <1>1, <2>1, <2>2, <3>1 DEF Proceeds, CodeFits, Own, CodeGoal
  <2>3. CASE d = c
    <3>1. call'[c].server = call[c].server /\ call'[c].alone = call[c].alone
      BY <2>1 DEF Proceeds
    <3>2. call[c].state \in {"launching", "running"} /\ snippet = c
      BY <1>1, <2>1, <2>3, <3>1 DEF Proceeds, ProcessFits, CodeFits
    <3>3. CASE call'[c].answer = "ok"
      <4>1. /\ call[c].state = "running" /\ proc[c].state \in {"ended", "died"}
            /\ proc' = proc
        BY <2>1, <3>2, <3>3 DEF Proceeds, Collects, OutputEnds
      <4> QED  BY <1>1, <2>1, <2>3, <3>1, <3>2, <4>1 DEF CodeFits, Own, CodeGoal
    <3>4. CASE call'[c].answer # "ok"
      <4>1. call'[c].state = "running" => proc'[c].state = "started"
        BY <1>1, <2>1 DEF Proceeds, Launch, NoProc
      <4> QED  BY <2>1, <2>3, <3>2, <3>4, <4>1 DEF CodeGoal
    <3> QED  BY <2>1, <2>3, <3>2, <3>3, <3>4 DEF CodeGoal
  <2> QED  BY <2>2, <2>3
<1>5. ASSUME NEW c \in Calls, ReadsCode(c) PROVE CodeGoal(d)
  <2>1. /\ UNCHANGED <<config, call, snippet>>
        /\ proc' = [proc EXCEPT ![c] = [proc[c] EXCEPT
              !.state = "reading", !.code = IF config.pathFits THEN snippet ELSE Nobody]]
        /\ proc[c].state = "started" /\ proc[c] \in ProcRecords
    BY <1>1, <1>5 DEF ReadsCode, sandboxVars
  <2>2. CASE d = c
    <3> DEFINE p == [proc[c] EXCEPT !.state = "reading",
                                    !.code = IF config.pathFits THEN snippet ELSE Nobody]
    <3>1. /\ proc'[c] = p /\ p.state = "reading"
          /\ p.code = IF config.pathFits THEN snippet ELSE Nobody
      BY <1>1, <2>1 DEF ProcRecords
    <3> HIDE DEF p
    <3>2. call[c].answer # "ok"
      BY <1>1, <2>1, <2>2 DEF CodeFits
    <3> QED  BY <1>1, <2>1, <2>2, <3>1, <3>2 DEF CodeFits, Own, CodeGoal
  <2>3. CASE d # c
    BY <1>1, <1>2, <2>1, <2>3
  <2> QED  BY <2>2, <2>3
<1>6. ASSUME NEW c \in Calls, ProcEnds(c) PROVE CodeGoal(d)
  <2>1. /\ UNCHANGED <<config, call, snippet>>
        /\ proc' = [proc EXCEPT ![c] = [proc[c] EXCEPT !.state = "ended"]]
        /\ proc[c] \in ProcRecords
        /\ call[c].server = "code_exec" => proc[c].state = "reading"
    BY <1>1, <1>6 DEF ProcEnds, sandboxVars
  <2>2. CASE d = c
    <3> DEFINE p == [proc[c] EXCEPT !.state = "ended"]
    <3>1. proc'[c] = p /\ p.state = "ended" /\ p.code = proc[c].code
      BY <1>1, <2>1 DEF ProcRecords
    <3> HIDE DEF p
    <3> QED  BY <1>1, <2>1, <2>2, <3>1 DEF CodeFits, Own, CodeGoal
  <2>3. CASE d # c
    BY <1>1, <1>2, <2>1, <2>3
  <2> QED  BY <2>2, <2>3
<1>7. CASE ContainerStops \/ DestroyReturns
  <2>1. UNCHANGED <<config, call, snippet>>
    BY <1>7 DEF ContainerStops, DestroyReturns, DestroyEnds
  <2>2. \/ proc'[d] = proc[d]
        \/ /\ proc[d].state \in {"started", "reading"}
           /\ proc'[d] = [proc[d] EXCEPT !.state = "died"]
    BY <1>7 DEF ContainerStops, DestroyReturns, Runs
  <2>3. proc'[d] = proc[d] \/ (proc[d].state \in {"started", "reading"} /\ proc'[d].state = "died")
    <3> DEFINE old == proc[d]
               died == [old EXCEPT !.state = "died"]
    <3>1. /\ old \in ProcRecords
          /\ proc'[d] = old \/ (old.state \in {"started", "reading"} /\ proc'[d] = died)
      BY <1>1, <2>2
    <3> HIDE DEF old
    <3>2. died.state = "died"
      BY <3>1 DEF ProcRecords
    <3> HIDE DEF died
    <3>3. proc'[d] = old \/ (old.state \in {"started", "reading"} /\ proc'[d].state = "died")
      BY <3>1, <3>2
    <3> QED  BY <3>3 DEF old
  <2> QED  BY <1>2, <2>1, <2>3
<1>8. CASE \/ Provisioning /\ UNCHANGED toolVars
           \/ \E a \in config.agents : Spawn(a) \/ MadeSubdir(a)
           \/ Tick \/ EndOfRun \/ UNCHANGED vars
  <2>1. UNCHANGED <<config, call, snippet, proc>>
    BY <1>8 DEF Provisioning, BuildSandbox, CreateContainer, StartContainer, QuotaRefused,
      DaemonRefuses, ProvisionFails, RetryWithoutQuota, Spawn, SpawnAgent, MadeSubdir, SubdirMade,
      Tick, EndOfRun, Destroy, toolVars, sandboxVars, vars
  <2> QED  BY <1>2, <2>1
<1>9. ASSUME NEW c \in Calls, StartsChild(c) \/ ChildEnds(c) PROVE CodeGoal(d)
  <2>1. UNCHANGED <<config, call, snippet>>
    BY <1>9, ChildSteps DEF sandboxVars
  <2>2. proc'[d].state = proc[d].state /\ proc'[d].code = proc[d].code
    <3>1. PICK x \in {"none", "holding", "apart"} :
            proc' = [proc EXCEPT ![c] = [proc[c] EXCEPT !.child = x]]
      BY <1>9, ChildSteps
    <3> DEFINE old == proc[c]
               p == [old EXCEPT !.child = x]
    <3>2. old \in ProcRecords /\ proc' = [proc EXCEPT ![c] = p]
      BY <1>1, <3>1
    <3> HIDE DEF old
    <3>3. p.state = old.state /\ p.code = old.code
      BY <3>2 DEF ProcRecords
    <3> HIDE DEF p
    <3> QED  BY <1>1, <3>2, <3>3 DEF old
  <2> QED  BY <1>2, <2>1, <2>2
<1> QED  BY <1>3, <1>4, <1>5, <1>6, <1>7, <1>8, <1>9 DEF Next

(* One file hands over the code of all calls (code_exec.py): a call that    *)
(* overlaps with no other gets the answer of its own code, whatever was     *)
(* left running, and of none if the path does not fit.                      *)
THEOREM LoneCallsAreServed == Spec => []LoneCallsRunTheirCode
<1>1. Init => CodeInv
  BY DEF Init, CodeInv, CodeFits, Idle
<1>2. CodeInv => LoneCallsRunTheirCode
  BY DEF CodeInv, CodeFits, Own, LoneCallsRunTheirCode
<1> QED  BY <1>1, <1>2, CodeKeep, Invariance, PTL DEF Spec

(***************************************************************************)
(* The rate limiter.                                                        *)
(***************************************************************************)
Started == {c \in Calls : call[c].state # "idle"}

(* The admissions in the window that starts at t, and in the one that ends  *)
(* at t.                                                                    *)
From(s, t) == {c \in Admissions(s) : call[c].at \in t .. t + Window - 1}
UpTo(s, t) == {c \in Admissions(s) : call[c].at <= t /\ t - call[c].at < Window}

(* The list holds the admissions of the last window, and no call that was   *)
(* not admitted.                                                            *)
ListFits(s) ==
  /\ \A c \in Admissions(s) : call[c].at \in 0 .. now
  /\ windows[s] \subseteq Admissions(s)
  /\ InWindow(s) = UpTo(s, now)

WithinLimit(s) == \A t \in 0 .. now : Cardinality(From(s, t)) <= config.rpm

LimitedForCause(s) ==
  \A d \in Calls :
    call[d].server = s /\ call[d].answer = "limited" =>
      call[d].at \in 0 .. now /\ Cardinality(UpTo(s, call[d].at)) >= config.rpm

LimiterInv ==
  /\ IsFiniteSet(Started) /\ windows \in [Servers -> SUBSET Calls]
  /\ config.rpm > 0 => \A s \in Servers : ListFits(s) /\ WithinLimit(s) /\ LimitedForCause(s)

LEMMA FiniteWindows ==
  ASSUME IsFiniteSet(Started)
  PROVE  /\ \A s, t : IsFiniteSet(From(s, t)) /\ IsFiniteSet(UpTo(s, t))
         /\ \A s, t : Cardinality(From(s, t)) \in Nat /\ Cardinality(UpTo(s, t)) \in Nat
<1>1. ASSUME NEW s, NEW t PROVE IsFiniteSet(From(s, t)) /\ IsFiniteSet(UpTo(s, t))
  <2>1. From(s, t) \subseteq Started /\ UpTo(s, t) \subseteq Started
    BY DEF From, UpTo, Admissions, Started
  <2> QED  BY <2>1, FS_Subset
<1> QED  BY <1>1, FS_CardinalityType

(* No call is admitted, whoever is refused, limited or answered.            *)
LEMMA NoneAdmitted ==
  ASSUME IInv, LimiterInv, UNCHANGED <<config, now>>, IsFiniteSet(Started)',
         windows' \in [Servers -> SUBSET Calls],
         \A s \in Servers : Admissions(s)' = Admissions(s),
         \A s \in Servers : \A c \in Admissions(s) : call'[c].at = call[c].at,
         config.rpm > 0 => \A s \in Servers :
           windows'[s] \subseteq windows[s] /\ InWindow(s)' = InWindow(s),
         \A s \in Servers, d \in Calls : call'[d].server = s /\ call'[d].answer = "limited" =>
           \/ call[d].server = s /\ call[d].answer = "limited" /\ call'[d].at = call[d].at
           \/ call'[d].at = now /\ AtLimit(s)
  PROVE  LimiterInv'
<1> SUFFICES ASSUME config.rpm > 0, NEW s \in Servers
             PROVE  ListFits(s)' /\ WithinLimit(s)' /\ LimitedForCause(s)'
  BY DEF LimiterInv
<1>1. /\ config.rpm \in Nat /\ now \in Nat /\ now' = now /\ config' = config
      /\ ListFits(s) /\ WithinLimit(s) /\ LimitedForCause(s)
  BY LimitsAssumption DEF LimiterInv, IInv, Typed
<1>2. \A t : From(s, t)' = From(s, t') /\ UpTo(s, t)' = UpTo(s, t')
  BY DEF From, UpTo
<1>3. ListFits(s)'
  BY <1>1, <1>2 DEF ListFits
<1>4. WithinLimit(s)'
  BY <1>1, <1>2 DEF WithinLimit
<1>5. LimitedForCause(s)'
  <2> SUFFICES ASSUME NEW d \in Calls, call'[d].server = s, call'[d].answer = "limited"
               PROVE  /\ call'[d].at \in 0 .. now
                      /\ Cardinality(UpTo(s, call'[d].at)) >= config.rpm
    BY <1>1, <1>2 DEF LimitedForCause
  <2>1. CASE call[d].server = s /\ call[d].answer = "limited" /\ call'[d].at = call[d].at
    BY <1>1, <2>1 DEF LimitedForCause
  <2>2. CASE call'[d].at = now /\ AtLimit(s)
    BY <1>1, <2>2 DEF AtLimit, ListFits
  <2> QED  BY <2>1, <2>2
<1> QED  BY <1>3, <1>4, <1>5

LEMMA OneAdmitted ==
  ASSUME IInv, LimiterInv, NEW c \in Calls, NEW s0 \in Servers, Starts(c), AdmittedNow(c, s0)
  PROVE  LimiterInv'
<1>1. /\ config' = config /\ now' = now /\ now \in Nat /\ Window \in Nat \ {0}
      /\ config.rpm \in Nat /\ call[c].state = "idle" /\ call'[c].state # "idle"
      /\ IsFiniteSet(Started) /\ windows \in [Servers -> SUBSET Calls]
      /\ \A d \in Calls : d # c => Kept(d)
  BY LimitsAssumption DEF Starts, sandboxVars, IInv, Typed, LimiterInv
<1>2. IsFiniteSet(Started)'
  <2>1. Started' = Started \cup {c}
    BY <1>1 DEF Started, Kept
  <2> QED  BY <1>1, <2>1, FS_AddElement
<1>3. /\ c \notin Admissions(s0)
      /\ Admissions(s0)' = Admissions(s0) \cup {c}
      /\ \A s \in Servers : s # s0 => Admissions(s)' = Admissions(s)
      /\ \A s \in Servers : \A d \in Admissions(s) : call'[d].at = call[d].at
      /\ call'[c].at = now /\ call'[c].answer # "limited"
  BY <1>1 DEF AdmittedNow, Admissions, Kept
<1>4. windows' \in [Servers -> SUBSET Calls]
  <2>1. InWindow(s0) \cup {c} \subseteq Calls
    BY <1>1 DEF InWindow
  <2> QED  BY <1>1, <2>1 DEF AdmittedNow
<1>5. ASSUME config.rpm > 0, NEW s \in Servers
      PROVE  ListFits(s)' /\ WithinLimit(s)' /\ LimitedForCause(s)'
  <2>1. ListFits(s) /\ WithinLimit(s) /\ LimitedForCause(s)
    BY <1>5 DEF LimiterInv
  <2>2. CASE s # s0
    <3>1. /\ \A t : From(s, t)' = From(s, t') /\ UpTo(s, t)' = UpTo(s, t')
          /\ Admissions(s)' = Admissions(s)
      BY <1>3, <2>2 DEF From, UpTo
    <3>2. windows'[s] = windows[s] /\ InWindow(s)' = InWindow(s)
      <4>1. windows'[s] = windows[s]
        BY <1>1, <1>5, <2>2 DEF AdmittedNow
      <4> QED  BY <1>1, <1>3, <2>1, <4>1 DEF InWindow, ListFits
    <3>3. ListFits(s)'
      BY <1>1, <1>3, <2>1, <3>1, <3>2 DEF ListFits
    <3>4. WithinLimit(s)'
      BY <1>1, <2>1, <3>1 DEF WithinLimit
    <3>5. LimitedForCause(s)'
      BY <1>1, <1>3, <2>1, <3>1 DEF LimitedForCause, Kept
    <3> QED  BY <3>3, <3>4, <3>5
  <2>3. CASE s = s0
    <3>1. windows'[s] = InWindow(s) \cup {c}
      BY <1>1, <1>5, <2>3 DEF AdmittedNow
    <3>2. /\ \A d \in Admissions(s) : call[d].at \in 0 .. now /\ d # c
          /\ InWindow(s) \subseteq Admissions(s)
      BY <1>3, <2>1, <2>3 DEF ListFits, InWindow
    <3>3. InWindow(s)' = InWindow(s) \cup {c} /\ UpTo(s, now)' = UpTo(s, now) \cup {c}
      <4>1. InWindow(s)' = InWindow(s) \cup {c}
        BY <1>1, <1>3, <3>1, <3>2 DEF InWindow
      <4>2. UpTo(s, now)' = UpTo(s, now) \cup {c}
        BY <1>1, <1>3, <2>3, <3>2 DEF UpTo
      <4> QED  BY <4>1, <4>2
    <3>4. ListFits(s)'
      BY <1>1, <1>3, <2>1, <2>3, <3>1, <3>2, <3>3 DEF ListFits
    <3>5. ASSUME NEW t \in 0 .. now PROVE Cardinality(From(s, t)') <= config.rpm
      <4>1. CASE t + Window <= now
        <5>1. From(s, t)' = From(s, t)
          BY <1>1, <1>3, <2>3, <4>1 DEF From
        <5> QED  BY <2>1, <5>1 DEF WithinLimit
      <4>2. CASE t + Window > now
        <5>1. From(s, t)' = From(s, t) \cup {c} /\ From(s, t) \subseteq UpTo(s, now)
          BY <1>1, <1>3, <2>3, <3>2, <4>2 DEF From, UpTo
        <5>2. IsFiniteSet(From(s, t)) /\ IsFiniteSet(UpTo(s, now))
          BY <1>1, FiniteWindows
        <5>3. /\ Cardinality(From(s, t)) <= Cardinality(UpTo(s, now))
              /\ Cardinality(From(s, t)) \in Nat /\ Cardinality(UpTo(s, now)) \in Nat
          BY <5>1, <5>2, FS_Subset, FS_CardinalityType
        <5>4. Cardinality(UpTo(s, now)) < config.rpm
          <6>1. ~AtLimit(s) /\ InWindow(s) = UpTo(s, now)
            BY <2>1, <2>3 DEF AdmittedNow, ListFits
          <6> QED  BY <1>1, <1>5, <5>3, <6>1 DEF AtLimit
        <5>5. Cardinality(From(s, t) \cup {c}) =
                IF c \in From(s, t) THEN Cardinality(From(s, t)) ELSE Cardinality(From(s, t)) + 1
          BY <5>2, FS_AddElement
        <5>6. Cardinality(From(s, t) \cup {c}) <= config.rpm
          BY <1>1, <5>3, <5>4, <5>5
        <5> QED  BY <5>1, <5>6
      <4> QED  BY <1>1, <4>1, <4>2
    <3>6. WithinLimit(s)'
      BY <1>1, <3>5 DEF WithinLimit, From
    <3>7. LimitedForCause(s)'
      <4> SUFFICES ASSUME NEW d \in Calls, call'[d].server = s, call'[d].answer = "limited"
                   PROVE  /\ call'[d].at \in 0 .. now
                          /\ Cardinality(UpTo(s, call[d].at)') >= config.rpm
        BY <1>1 DEF LimitedForCause
      <4>1. d # c /\ Kept(d)
        BY <1>1, <1>3
      <4> DEFINE t == call[d].at
      <4>2. call'[d].at = t /\ t \in 0 .. now /\ Cardinality(UpTo(s, t)) >= config.rpm
        BY <2>1, <4>1 DEF Kept, LimitedForCause
      <4> HIDE DEF t
      <4>3. UpTo(s, t) \subseteq UpTo(s, call[d].at)'
        BY <1>1, <1>3, <2>3, <4>2 DEF UpTo
      <4>4. IsFiniteSet(UpTo(s, call[d].at)')
        <5>1. UpTo(s, call[d].at)' \subseteq Started'
          BY DEF UpTo, Admissions, Started
        <5> QED  BY <1>2, <5>1, FS_Subset
      <4>5. Cardinality(UpTo(s, t)) <= Cardinality(UpTo(s, call[d].at)')
        BY <4>3, <4>4, FS_Subset
      <4>6. Cardinality(UpTo(s, t)) \in Nat /\ Cardinality(UpTo(s, call[d].at)') \in Nat
        BY <1>1, <4>4, FiniteWindows, FS_CardinalityType
      <4> QED  BY <1>1, <4>2, <4>5, <4>6
    <3> QED  BY <3>4, <3>6, <3>7
  <2> QED  BY <2>2, <2>3
<1> QED  BY <1>1, <1>2, <1>4, <1>5 DEF LimiterInv

LEMMA TimePasses ==
  ASSUME IInv, LimiterInv, Tick
  PROVE  LimiterInv'
<1>1. /\ config' = config /\ call' = call /\ windows' = windows /\ now' = now + 1
      /\ now \in Nat /\ Window \in Nat \ {0} /\ config.rpm \in Nat
      /\ IsFiniteSet(Started) /\ windows \in [Servers -> SUBSET Calls]
  BY LimitsAssumption DEF Tick, sandboxVars, IInv, Typed, LimiterInv
<1>2. \A s, t : From(s, t)' = From(s, t') /\ UpTo(s, t)' = UpTo(s, t')
  BY <1>1 DEF From, UpTo, Admissions
<1>3. ASSUME config.rpm > 0, NEW s \in Servers
      PROVE  ListFits(s)' /\ WithinLimit(s)' /\ LimitedForCause(s)'
  <2>1. ListFits(s) /\ WithinLimit(s) /\ LimitedForCause(s)
    BY <1>3 DEF LimiterInv
  <2>2. Admissions(s)' = Admissions(s)
    BY <1>1 DEF Admissions
  <2>3. InWindow(s)' = UpTo(s, now + 1)
    <3>1. InWindow(s)' = {c \in windows[s] : now' - call[c].at < Window}
      BY <1>1 DEF InWindow
    <3>2. \A c \in Admissions(s) : call[c].at \in 0 .. now
      BY <2>1 DEF ListFits
    <3>3. UpTo(s, now + 1) \subseteq UpTo(s, now)
      BY <1>1, <3>2 DEF UpTo
    <3> QED  BY <1>1, <2>1, <3>1, <3>2, <3>3 DEF ListFits, InWindow, UpTo
  <2>4. ListFits(s)'
    BY <1>1, <1>2, <2>1, <2>2, <2>3 DEF ListFits
  <2>5. WithinLimit(s)'
    <3> SUFFICES ASSUME NEW t \in 0 .. now + 1 PROVE Cardinality(From(s, t)) <= config.rpm
      BY <1>1, <1>2 DEF WithinLimit
    <3>1. CASE t \in 0 .. now
      BY <2>1, <3>1 DEF WithinLimit
    <3>2. CASE t = now + 1
      <4>1. From(s, t) = {}
        BY <1>1, <2>1, <3>2 DEF From, ListFits
      <4> QED  BY <1>1, <4>1, FS_EmptySet
    <3> QED  BY <1>1, <3>1, <3>2
  <2>6. LimitedForCause(s)'
    BY <1>1, <1>2, <2>1 DEF LimitedForCause
  <2> QED  BY <2>4, <2>5, <2>6
<1>4. Started' = Started
  BY <1>1 DEF Started
<1> QED  BY <1>1, <1>3, <1>4 DEF LimiterInv

LEMMA LimiterInit == Init => LimiterInv
<1> SUFFICES ASSUME Init PROVE LimiterInv
  OBVIOUS
<1>1. /\ \A c \in Calls : call[c].state = "idle" /\ call[c].answer = "none"
      /\ windows = [s \in Servers |-> {}] /\ config.rpm \in Nat
  BY LimitsAssumption DEF Init, SandboxInit, Idle
<1>2. Started = {} /\ \A s : Admissions(s) = {}
  BY <1>1 DEF Started, Admissions
<1>3. ASSUME NEW s \in Servers PROVE ListFits(s) /\ WithinLimit(s) /\ LimitedForCause(s)
  <2>1. InWindow(s) = {} /\ \A t : From(s, t) = {} /\ UpTo(s, t) = {}
    BY <1>1, <1>2 DEF InWindow, From, UpTo
  <2>2. WithinLimit(s)
    BY <1>1, <2>1, FS_EmptySet DEF WithinLimit
  <2> QED  BY <1>1, <1>2, <2>1, <2>2 DEF ListFits, LimitedForCause
<1> QED  BY <1>1, <1>2, <1>3, FS_EmptySet DEF LimiterInv

LEMMA LimiterKeep == IInv /\ LimiterInv /\ [Next]_vars => LimiterInv'
<1> SUFFICES ASSUME IInv, LimiterInv, [Next]_vars PROVE LimiterInv'
  OBVIOUS
<1>1. /\ IsFiniteSet(Started) /\ windows \in [Servers -> SUBSET Calls]
      /\ Window \in Nat \ {0} /\ now \in Nat /\ config.rpm \in Nat
  BY LimitsAssumption DEF LimiterInv, IInv, Typed
<1>2. CASE UNCHANGED <<config, call, windows, now>>
  <2>1. /\ Started' = Started
        /\ \A s \in Servers : Admissions(s)' = Admissions(s) /\ InWindow(s)' = InWindow(s)
    BY <1>2 DEF Started, Admissions, InWindow
  <2> QED  BY <1>1, <1>2, <2>1, NoneAdmitted
<1>3. ASSUME NEW c \in Calls, Starts(c),
             RefusedFirst(c) \/ \E s \in Servers : LimitedNow(c, s)
      PROVE  LimiterInv'
  <2>1. /\ UNCHANGED <<config, now>> /\ call[c].state = "idle"
        /\ call'[c].answer \in {"refused", "limited"} /\ \A d \in Calls : d # c => Kept(d)
    BY <1>3 DEF Starts, RefusedFirst, LimitedNow, sandboxVars
  <2>2. IsFiniteSet(Started)'
    <3>1. Started' \subseteq Started \cup {c}
      BY <2>1 DEF Started, Kept
    <3> QED  BY <1>1, <3>1, FS_AddElement, FS_Subset
  <2>3. /\ \A s \in Servers : Admissions(s)' = Admissions(s)
        /\ \A s \in Servers : \A d \in Admissions(s) : call'[d].at = call[d].at /\ d # c
    BY <2>1 DEF Admissions, Kept
  <2>4. windows' \in [Servers -> SUBSET Calls]
    BY <1>1, <1>3 DEF RefusedFirst, LimitedNow, InWindow
  <2>5. ASSUME config.rpm > 0, NEW s \in Servers
        PROVE  windows'[s] \subseteq windows[s] /\ InWindow(s)' = InWindow(s)
    <3>1. windows[s] \subseteq Admissions(s)
      BY <2>5 DEF LimiterInv, ListFits
    <3>2. windows'[s] = windows[s] \/ windows'[s] = InWindow(s)
      BY <1>1, <1>3 DEF RefusedFirst, LimitedNow
    <3> QED  BY <2>1, <2>3, <3>1, <3>2 DEF InWindow
  <2>6. ASSUME NEW s \in Servers, NEW d \in Calls, call'[d].server = s, call'[d].answer = "limited"
        PROVE  \/ call[d].server = s /\ call[d].answer = "limited" /\ call'[d].at = call[d].at
               \/ call'[d].at = now /\ AtLimit(s)
    BY <1>3, <2>1, <2>6 DEF Kept, RefusedFirst, LimitedNow
  <2> QED  BY <2>1, <2>2, <2>3, <2>4, <2>5, <2>6, NoneAdmitted
<1>4. ASSUME NEW c \in Calls, Start(c) PROVE LimiterInv'
  <2>1. Starts(c)
    BY <1>4, StartsOf
  <2> QED  BY <1>3, <2>1, OneAdmitted DEF Starts, Decided
<1>5. ASSUME NEW c \in Calls, Proceed(c) PROVE LimiterInv'
  <2>1. Proceeds(c) /\ UNCHANGED <<config, now, windows>>
    BY <1>5, ProceedsOf DEF Proceeds
  <2>2. /\ Started' = Started
        /\ \A s \in Servers : Admissions(s)' = Admissions(s)
        /\ \A d \in Calls : call'[d].at = call[d].at
        /\ \A d \in Calls : call'[d].answer = "limited" => d # c
    BY <2>1 DEF Proceeds, Started, Admissions
  <2>3. \A s \in Servers : InWindow(s)' = InWindow(s)
    BY <1>1, <2>1, <2>2 DEF InWindow
  <2>4. ASSUME NEW s \in Servers, NEW d \in Calls, call'[d].server = s, call'[d].answer = "limited"
        PROVE  call[d].server = s /\ call[d].answer = "limited" /\ call'[d].at = call[d].at
    BY <2>1, <2>2, <2>4 DEF Proceeds
  <2>5. /\ IsFiniteSet(Started)' /\ windows' \in [Servers -> SUBSET Calls]
        /\ \A s \in Servers : \A d \in Admissions(s) : call'[d].at = call[d].at
        /\ \A s \in Servers : windows'[s] \subseteq windows[s]
    BY <1>1, <2>1, <2>2 DEF Admissions
  <2> QED  BY <2>1, <2>2, <2>3, <2>4, <2>5, NoneAdmitted
<1>6. CASE \/ Provisioning /\ UNCHANGED toolVars
           \/ \E a \in config.agents : Spawn(a) \/ MadeSubdir(a)
           \/ \E c \in Calls : ReadsCode(c) \/ StartsChild(c) \/ ChildEnds(c) \/ ProcEnds(c)
           \/ ContainerStops \/ EndOfRun \/ DestroyReturns \/ UNCHANGED vars
  <2>1. UNCHANGED <<config, call, windows, now>>
    BY <1>6 DEF Provisioning, BuildSandbox, CreateContainer, StartContainer, QuotaRefused,
      DaemonRefuses, ProvisionFails, RetryWithoutQuota, Spawn, SpawnAgent, MadeSubdir, SubdirMade,
      ReadsCode, StartsChild, ChildEnds, ProcEnds, ContainerStops, EndOfRun, Destroy, DestroyReturns,
      DestroyEnds,
      toolVars, sandboxVars, vars
  <2> QED  BY <1>2, <2>1
<1> QED  BY <1>4, <1>5, <1>6, TimePasses DEF Next

(* The limiter of tools/bus.py is exact: within any window a server admits  *)
(* at most rpm calls, and refuses one only if rpm calls were admitted in    *)
(* the window before it.                                                    *)
THEOREM LimiterIsRight == Spec => []LimiterIsExact
<1>1. IInv /\ LimiterInv => LimiterIsExact
  BY DEF LimiterInv, WithinLimit, LimitedForCause, From, UpTo, LimiterIsExact, IInv, Typed
<1> QED  BY <1>1, LimiterInit, LimiterKeep, Invariance, PTL DEF Spec

(* The records of calls, processes, sub-agents and the sandbox; no call is  *)
(* attempted more than twice, and only an answered call has an answer.      *)
THEOREM TypeCorrect == Spec => []TypeOK
<1>1. IInv /\ BoxInv /\ ClientsInv /\ LimiterInv /\ now <= MaxTime => TypeOK
  <2> SUFFICES ASSUME IInv, BoxInv, ClientsInv, LimiterInv, now <= MaxTime PROVE TypeOK
    OBVIOUS
  <2>1. SandboxTypeOK
    BY DEF IInv, Typed, AgentRecords, BoxInv, Containers, ClientsInv, Operating, Executing,
      SpawningIn, SandboxTypeOK, Owners
  <2>2. ASSUME NEW c \in Calls
        PROVE  /\ call[c] \in CallRecords /\ proc[c] \in ProcRecords /\ Len(call[c].attempts) <= 2
               /\ call[c].answer # "none" <=> call[c].state = "answered"
    BY DEF IInv, Typed, EffectsFit
  <2>3. /\ now \in 0 .. MaxTime /\ snippet \in Calls \cup {Nobody}
        /\ \A s \in Servers : windows[s] \subseteq Calls
    BY LimitsAssumption DEF IInv, Typed, LimiterInv
  <2> QED  BY <2>1, <2>2, <2>3 DEF TypeOK, CallRecords, ProcRecords
<1>2. Init => now <= MaxTime
  BY LimitsAssumption DEF Init
<1>3. IInv /\ now <= MaxTime /\ [Next]_vars => (now <= MaxTime)'
  <2> SUFFICES ASSUME IInv, now <= MaxTime, [Next]_vars PROVE now' <= MaxTime
    OBVIOUS
  <2>1. CASE Tick
    BY <2>1, LimitsAssumption DEF Tick, IInv, Typed
  <2>2. CASE ~Tick
    <3>1. now' = now
      BY <2>2, StartsOf, ProceedsOf DEF Next, vars, toolVars, Starts, Proceeds, Spawn, MadeSubdir,
        ReadsCode, StartsChild, ChildEnds, ProcEnds, ContainerStops, EndOfRun, DestroyReturns
    <3> QED  BY <3>1
  <2> QED  BY <2>1, <2>2
<1>4. Init => BoxInv /\ ClientsInv
  BY BoxInit DEF Init, SandboxInit, ClientsInv, Executing, SpawningIn, Operating, Idle, NoContext
<1> QED
  BY <1>1, <1>2, <1>3, <1>4, BoxKeep, ClientsKeep, LimiterInit, LimiterKeep, Invariance, PTL DEF Spec
(***************************************************************************)
(* Answering in the end.  A call takes at most three steps of its own: it   *)
(* starts, and then its process is launched and collected, or its request   *)
(* returns twice.                                                           *)
(***************************************************************************)
StepsLeft(c) ==
  CASE call[c].state = "idle" -> 3
    [] call[c].state = "launching" -> 2
    [] call[c].state = "waiting" -> 2 - Len(call[c].attempts)
    [] call[c].state = "running" -> 1
    [] call[c].state = "answered" -> 0

(* They are counted by natural numbers.                                     *)
StepsAreFew == \A c \in Calls : StepsLeft(c) \in 0 .. 3

LEMMA StepsLeftOf ==
  ASSUME IInv, NEW c \in Calls
  PROVE  /\ StepsLeft(c) \in 0 .. 3
         /\ call[c].state = "idle" => StepsLeft(c) = 3
         /\ call[c].state \in {"waiting", "launching", "running"} => StepsLeft(c) > 0
         /\ call[c].state = "launching" => StepsLeft(c) = 2
         /\ call[c].state = "waiting" => StepsLeft(c) = 2 - Len(call[c].attempts)
         /\ call[c].state = "running" => StepsLeft(c) = 1
         /\ call[c].state = "answered" => StepsLeft(c) = 0
<1>1. call[c] \in CallRecords /\ EffectsFit(call[c])
  BY DEF IInv, Typed
<1>2. call[c].attempts \in Seq({"ok", "raised", "error"})
  BY <1>1 DEF CallRecords
<1>3. Len(call[c].attempts) \in Nat /\ (call[c].state = "waiting" => Len(call[c].attempts) <= 1)
  BY <1>1, <1>2 DEF EffectsFit
<1>4. call[c].state \in {"idle", "waiting", "launching", "running", "answered"}
  BY <1>1 DEF CallRecords
<1> QED  BY <1>3, <1>4 DEF StepsLeft

LEMMA StartingCounts ==
  ASSUME IInv, IInv', NEW c \in Calls, Start(c)
  PROVE  StepsLeft(c)' < StepsLeft(c)
<1>1. call[c].state = "idle" /\ call'[c].state \in {"waiting", "launching", "answered"}
  BY StartsOf DEF Starts
<1>2. StepsLeft(c) = 3
  BY <1>1, StepsLeftOf
<1>3. Len(call'[c].attempts) \in Nat
  <2>1. call'[c] \in CallRecords
    BY DEF IInv, Typed
  <2> QED  BY <2>1 DEF CallRecords
<1>4. StepsLeft(c)' \in Int /\ StepsLeft(c)' <= 2
  BY <1>1, <1>3 DEF StepsLeft
<1> QED  BY <1>2, <1>4

LEMMA ProceedingCounts ==
  ASSUME IInv, IInv', NEW c \in Calls, Proceed(c)
  PROVE  StepsLeft(c)' < StepsLeft(c)
<1>1. /\ call \in [Calls -> CallRecords] /\ call[c] \in CallRecords /\ call'[c] \in CallRecords
      /\ EffectsFit(call[c]) /\ ProcessFits(call[c], proc[c])
  BY DEF IInv, Typed
<1>2. CASE Launch(c)
  <2>1. call[c].state = "launching" /\ call'[c].state = "running"
    BY <1>1, <1>2 DEF Launch, CallRecords
  <2> QED  BY <2>1 DEF StepsLeft
<1>3. CASE HttpReturns(c) \/ LaunchFails(c) \/ Collects(c) \/ ExecBreaks(c) \/ TimesOut(c)
  <2>1. PICK outcome \in {"ok", "raised", "error"}, effect \in BOOLEAN :
          call'[c] = Attempted(c, outcome, effect)
    BY <1>1, <1>3 DEF HttpReturns, LaunchFails, Collects, ExecBreaks, TimesOut
  <2>2. call[c].state \in {"waiting", "launching", "running"}
    BY <1>3 DEF HttpReturns, LaunchFails, Collects, ExecBreaks, TimesOut, TimerFires
  <2>3. StepsLeft(c) \in 0 .. 3 /\ StepsLeft(c) > 0
    BY <2>2, StepsLeftOf
  <2>4. CASE call'[c].state = "answered"
    <3>1. StepsLeft(c)' = 0
      BY <2>4 DEF StepsLeft
    <3> QED  BY <2>3, <3>1
  <2>5. CASE call'[c].state # "answered"
    <3>1. /\ Destructive(call[c].server) => call'[c].state = "answered"
          /\ call'[c].state \in {"waiting", "launching", "answered"}
          /\ call'[c].server = call[c].server
      BY <2>1, <2>2, AttemptedFields
    <3>2. call[c].state = "waiting" /\ call'[c].state = "waiting"
      <4>1. call[c].state = "waiting"
        BY <1>1, <2>2, <2>5, <3>1 DEF ProcessFits
      <4>2. ProcessFits(call'[c], proc'[c])
        BY DEF IInv
      <4> QED  BY <2>5, <3>1, <4>1, <4>2 DEF ProcessFits
    <3>3. /\ call'[c].attempts = Append(call[c].attempts, outcome)
          /\ call[c].attempts \in Seq({"ok", "raised", "error"})
      BY <1>1, <2>1 DEF Attempted, CallRecords
    <3>4. Len(call'[c].attempts) = Len(call[c].attempts) + 1 /\ Len(call[c].attempts) \in Nat
      BY <3>3
    <3>5. StepsLeft(c)' = 2 - Len(call'[c].attempts) /\ StepsLeft(c) = 2 - Len(call[c].attempts)
      BY <3>2 DEF StepsLeft
    <3> QED  BY <3>4, <3>5
  <2> QED  BY <2>4, <2>5
<1> QED  BY <1>2, <1>3 DEF Proceed

(* Each step of a call brings it nearer to its answer, and no step of       *)
(* another puts it back or changes an answer that was given.                *)
CallsComeNearer ==
  [][\A c \in Calls :
       /\ StepsLeft(c)' <= StepsLeft(c)
       /\ Start(c) \/ Proceed(c) => StepsLeft(c)' < StepsLeft(c)
       /\ call[c].state = "answered" => call'[c].state = "answered" /\ call'[c].answer = call[c].answer]_vars

LEMMA StepsCount ==
  ASSUME IInv, IInv', [Next]_vars, NEW c \in Calls
  PROVE  /\ StepsLeft(c)' <= StepsLeft(c)
         /\ Start(c) \/ Proceed(c) => StepsLeft(c)' < StepsLeft(c)
         /\ call[c].state = "answered" =>
              call'[c].state = "answered" /\ call'[c].answer = call[c].answer
<1>1. StepsLeft(c) \in 0 .. 3
  BY StepsLeftOf
<1>2. CASE Start(c) \/ Proceed(c)
  <2>1. StepsLeft(c)' < StepsLeft(c)
    BY <1>2, StartingCounts, ProceedingCounts
  <2>2. call[c].state # "answered"
    BY <1>2, StartsOf, ProceedsOf DEF Starts, Proceeds
  <2>3. StepsLeft(c)' <= StepsLeft(c)
    <3>1. StepsLeft(c)' \in Int
      <4>1. call'[c] \in CallRecords
        BY DEF IInv, Typed
      <4>2. Len(call'[c].attempts) \in Nat
        BY <4>1 DEF CallRecords
      <4> QED  BY <4>1, <4>2 DEF StepsLeft, CallRecords
    <3> QED  BY <1>1, <2>1, <3>1
  <2> QED  BY <2>1, <2>2, <2>3
<1>3. CASE ~(Start(c) \/ Proceed(c))
  <2>1. Kept(c)
    <3>1. ASSUME NEW d \in Calls, Start(d) \/ Proceed(d)
          PROVE  Kept(c)
      <4>1. d # c
        BY <1>3, <3>1
      <4> QED  BY <3>1, <4>1, StartsOf, ProceedsOf DEF Starts, Proceeds, Kept
    <3>2. CASE call' = call
      BY <3>2 DEF Kept
    <3>3. call' = call \/ \E d \in Calls : Start(d) \/ Proceed(d)
      BY DEF Next, ReadsCode, StartsChild, ChildEnds, ProcEnds, Provisioning, BuildSandbox,
        CreateContainer, StartContainer,
             QuotaRefused, DaemonRefuses, ProvisionFails, RetryWithoutQuota, Spawn, SpawnAgent,
             MadeSubdir, SubdirMade, Tick, ContainerStops, EndOfRun, Destroy, DestroyReturns,
             toolVars, vars
    <3> QED  BY <3>1, <3>2, <3>3
  <2>2. StepsLeft(c)' = StepsLeft(c)
    BY <2>1 DEF Kept, StepsLeft
  <2> QED  BY <1>1, <1>3, <2>1, <2>2 DEF Kept
<1> QED  BY <1>2, <1>3

(* A call takes at most three steps of its own, however often it is retried *)
(* (tools/bus.py, tool_call), and its answer is final, for any number of    *)
(* calls at once.                                                           *)
THEOREM CallsTakeFewSteps == Spec => []StepsAreFew /\ CallsComeNearer
<1>1. IInv => StepsAreFew
  BY StepsLeftOf DEF StepsAreFew
<1>2. IInv /\ IInv' /\ [Next]_vars =>
        [\A c \in Calls :
           /\ StepsLeft(c)' <= StepsLeft(c)
           /\ Start(c) \/ Proceed(c) => StepsLeft(c)' < StepsLeft(c)
           /\ call[c].state = "answered" =>
                call'[c].state = "answered" /\ call'[c].answer = call[c].answer]_vars
  BY StepsCount
<1> QED  BY <1>1, <1>2, Invariance, PTL DEF Spec, CallsComeNearer
===============================================================================
