----------------------------- MODULE ModelRouter ------------------------------
(***************************************************************************)
(* ModelRouter (models/router.py) with its strategies (models/strategies/,  *)
(* models/privacy.py) and the rate limiter (models/governance.py): how a    *)
(* call finds the provider that answers it, and where its messages go on    *)
(* the way.                                                                 *)
(*                                                                         *)
(* Calls run concurrently; a call suspends only while a provider works on   *)
(* it, and the rate limiter's windows are all that calls share.  A provider *)
(* is external: it answers, raises a HanflowError, or raises something else *)
(***************************************************************************)
EXTENDS Naturals, FiniteSets, Sequences, SequencesExt

CONSTANTS
  Calls,      \* the calls of complete() and stream()
  Names,      \* the names of providers and models, "" among them
  Configs,    \* the router configurations considered
  Requests,   \* the requests considered
  Window,     \* length of the rate limiter's window (60 s in the code)
  MaxTime,    \* bound: the latest time
  MaxChunks   \* bound: chunks of a stream

(* Strategies that propose at most one model, in order of priority; the     *)
(* privacy strategy comes before them all.                                  *)
Priority == <<"role", "task", "cost", "static">>

Model(p, m) == [provider |-> p, model |-> m]
Models == [provider : Names, model : Names]
NoModel == Model("", "")

ASSUME NamesAssumption == "" \in Names
ASSUME ConfigsAssumption ==
  \A run \in Configs :
    /\ run.chain \in Seq(Models) /\ run.default \in Models /\ run.local \subseteq Names
    /\ run.privacy \in {"off", "soft", "hard"}
    /\ \A p \in DOMAIN run.rpm : run.rpm[p] \in Nat
ASSUME RequestsAssumption ==
  \A r \in Requests : r.stream \in BOOLEAN /\ r.proposals \in [ToSet(Priority) -> Models]
ASSUME BoundsAssumption == Window \in Nat \ {0} /\ MaxTime \in Nat /\ MaxChunks \in Nat \ {0}

VARIABLES
  config,    \* the router's configuration
  call,      \* the state of each call
  windows,   \* _calls: the admissions a provider's list holds the times of
  now,       \* time.monotonic()
  admitted   \* history: the calls admitted, with their provider and time

vars == <<config, call, windows, now, admitted>>

CallStates == {"idle", "asked", "streaming", "ended"}
Results == {"none", "answer", "error", "timeout", "key error", "exception",
            "rate limit", "privacy", "no candidates"}

TypeOK ==
  /\ config \in Configs
  /\ \A c \in Calls :
       /\ call[c].state \in CallStates
       /\ call[c].request \in Requests
       /\ call[c].tried \in Seq(Models) /\ call[c].left \in Seq(Models)
       /\ call[c].failed \in BOOLEAN
       /\ call[c].chunks \in Seq(Models) /\ Len(call[c].chunks) <= MaxChunks
       /\ call[c].result \in Results
       /\ call[c].result # "none" <=> call[c].state = "ended"
  /\ \A p \in DOMAIN windows : windows[p] \subseteq [call : Calls, provider : {p}, at : 0 .. now]
  /\ now \in 0 .. MaxTime

Init ==
  /\ config \in Configs
  /\ call \in [Calls -> {[state |-> "idle", request |-> r, tried |-> <<>>, left |-> <<>>,
                          failed |-> FALSE, chunks |-> <<>>, result |-> "none"] : r \in Requests}]
  /\ windows = [p \in {} |-> {}]
  /\ now = 0
  /\ admitted = {}

(***************************************************************************)
(* Routing: the strategies' candidates, and the arbitration among them.     *)
(***************************************************************************)
Locals == config.local \cap config.providers

PrivacyEngages(r) == config.privacy # "off" /\ r.sensitive
PrivacyRefuses(r) == PrivacyEngages(r) /\ config.privacy = "hard" /\ Locals = {}

Proposes(r, i) == r.proposals[Priority[i]] # NoModel

First(r) == {i \in DOMAIN Priority : Proposes(r, i) /\ \A j \in 1 .. i - 1 : ~Proposes(r, j)}

ByPriority(r) ==
  IF First(r) # {} THEN {r.proposals[Priority[i]] : i \in First(r)}
  ELSE IF config.default # NoModel THEN {config.default} ELSE {}

PrivacyWithoutVeto(r) ==  \* mutant: the privacy candidate ranks after an explicit choice
  IF PrivacyEngages(r) /\ Locals # {} /\ First(r) = {}
  THEN {Model(p, "") : p \in Locals} ELSE ByPriority(r)

(* The local providers have the same score; which is first is their order   *)
(* in the providers dict.  The privacy strategy names no model.             *)
Chosen(r) ==
  IF PrivacyEngages(r) /\ Locals # {}
  THEN {Model(p, "") : p \in Locals} ELSE ByPriority(r)

(***************************************************************************)
(* Governance, which only complete() consults, and only for the first model *)
(* of a call.                                                               *)
(***************************************************************************)
Limited(p) == p \in DOMAIN config.rpm /\ config.rpm[p] > 0

(* A call is admitted once, so an entry of the list is an admission.        *)
Admission(c, p) == [call |-> c, provider |-> p, at |-> now]

Entries(p) == IF p \in DOMAIN windows THEN windows[p] ELSE {}

HalfWindow(p) == {a \in Entries(p) : now - a.at < Window - 1}  \* mutant: off by one

InWindow(p) == {a \in Entries(p) : now - a.at < Window}

HasRoom(p) == Cardinality(InWindow(p)) < config.rpm[p]

Holds(p, entries) ==
  windows' = [q \in DOMAIN windows \cup {p} |-> IF q = p THEN entries ELSE windows[q]]

Admit(c, p) ==
  /\ \/ ~Limited(p) /\ UNCHANGED windows
     \/ Limited(p) /\ HasRoom(p) /\ Holds(p, InWindow(p) \cup {Admission(c, p)})
  /\ admitted' = admitted \cup {Admission(c, p)}

(* A refused call has pruned the window.                                    *)
Refuse(p) ==
  /\ Limited(p) /\ ~HasRoom(p)
  /\ Holds(p, InWindow(p))
  /\ UNCHANGED admitted

(***************************************************************************)
(* Trying models, one after the other.                                      *)
(***************************************************************************)
End(c, result) == [call EXCEPT ![c].state = "ended", ![c].result = result]

FallbackChain == config.chain

(* stream() tries the models of configured providers, each once.  complete() *)
(* goes through the whole chain, the chosen model included: the comparison  *)
(* with it never holds, as the reasons differ.  A provider that is not      *)
(* configured is a KeyError then.                                           *)
Configured(m) == m.provider \in config.providers

SkipsUnconfigured(c, m) ==  \* mutant: no tried set
  call[c].request.stream /\ ~Configured(m)

Skips(c, m) ==
  call[c].request.stream /\ (m \in ToSet(call[c].tried) \/ ~Configured(m))

NextOf(c, models) ==
  {i \in DOMAIN models : ~Skips(c, models[i]) /\ \A j \in 1 .. i - 1 : Skips(c, models[j])}

ForgetsTheRest(models, i) == <<>>  \* mutant: raise inside the loop

Rest(models, i) == SubSeq(models, i + 1, Len(models))

Try(c, models, failed, result) ==
  \/ /\ \A i \in DOMAIN models : Skips(c, models[i])
     /\ call' = End(c, result)
  \/ \E i \in NextOf(c, models) :
       \/ ~Configured(models[i]) /\ call' = End(c, "key error")
       \/ /\ Configured(models[i])
          /\ call' = [call EXCEPT ![c].state = "asked", ![c].failed = failed,
                                  ![c].tried = Append(@, models[i]), ![c].left = Rest(models, i)]

Idle(c) == call[c].state = "idle"
Asked(c) == call[c].state = "asked"
Streaming(c) == call[c].state = "streaming"

CannotRoute(c) ==
  /\ Idle(c)
  /\ LET r == call[c].request
     IN  \/ PrivacyRefuses(r) /\ call' = End(c, "privacy")
         \/ ~PrivacyRefuses(r) /\ Chosen(r) = {} /\ call' = End(c, "no candidates")
  /\ UNCHANGED <<config, windows, now, admitted>>

(* The budget check never refuses, the estimated cost being 0.0, and the    *)
(* cache is always empty.                                                   *)
InvokeWithFallback(c, m) ==
  \/ /\ Refuse(m.provider)
     /\ call' = End(c, "rate limit")
  \/ /\ Admit(c, m.provider)
     /\ Try(c, <<m>> \o FallbackChain, FALSE, "error")

Complete(c) ==
  /\ Idle(c) /\ ~call[c].request.stream /\ ~PrivacyRefuses(call[c].request)
  /\ \E m \in Chosen(call[c].request) : InvokeWithFallback(c, m)
  /\ UNCHANGED <<config, now>>

Stream(c) ==
  /\ Idle(c) /\ call[c].request.stream /\ ~PrivacyRefuses(call[c].request)
  /\ \E m \in Chosen(call[c].request) : Try(c, <<m>> \o FallbackChain, FALSE, "timeout")
  /\ UNCHANGED <<config, windows, now, admitted>>

(***************************************************************************)
(* What the provider does.                                                  *)
(***************************************************************************)
Answers(c) ==
  /\ Asked(c)
  /\ call' = IF call[c].request.stream
             THEN [call EXCEPT ![c].state = "streaming", ![c].chunks = <<Last(call[c].tried)>>]
             ELSE End(c, "answer")
  /\ UNCHANGED <<config, windows, now, admitted>>

Fails(c) ==
  /\ Asked(c)
  /\ Try(c, call[c].left, TRUE, "error")
  /\ UNCHANGED <<config, windows, now, admitted>>

(* A stream that ends before its first chunk.                               *)
YieldsNothing(c) ==
  /\ Asked(c) /\ call[c].request.stream
  /\ Try(c, call[c].left, call[c].failed, IF call[c].failed THEN "error" ELSE "timeout")
  /\ UNCHANGED <<config, windows, now, admitted>>

Raises(c) ==
  /\ Asked(c) \/ Streaming(c)
  /\ call' = End(c, "exception")
  /\ UNCHANGED <<config, windows, now, admitted>>

NextChunk(c) ==
  /\ Streaming(c) /\ Len(call[c].chunks) < MaxChunks
  /\ call' = [call EXCEPT ![c].chunks = Append(@, Last(call[c].tried))]
  /\ UNCHANGED <<config, windows, now, admitted>>

StreamEnds(c) ==
  /\ Streaming(c)
  /\ call' = End(c, "answer")
  /\ UNCHANGED <<config, windows, now, admitted>>

BrokenStreamFallsBack(c) ==  \* mutant: the rest of the stream is inside the try
  /\ Streaming(c)
  /\ Try(c, call[c].left, TRUE, "error")
  /\ UNCHANGED <<config, windows, now, admitted>>

StreamBreaks(c) ==
  /\ Streaming(c)
  /\ call' = End(c, "error")
  /\ UNCHANGED <<config, windows, now, admitted>>

Tick ==
  /\ now < MaxTime
  /\ now' = now + 1
  /\ UNCHANGED <<config, call, windows, admitted>>

Next ==
  \/ \E c \in Calls :
       \/ CannotRoute(c) \/ Complete(c) \/ Stream(c)
       \/ Answers(c) \/ Fails(c) \/ YieldsNothing(c) \/ Raises(c)
       \/ NextChunk(c) \/ StreamEnds(c) \/ StreamBreaks(c)
  \/ Tick

Spec == Init /\ [][Next]_vars

-------------------------------------------------------------------------------
(* The privacy veto: whatever the other strategies want, sensitive messages *)
(* go to a local provider first; in hard mode they go nowhere if there is   *)
(* none.                                                                    *)
PrivacyIsAskedFirst ==
  \A c \in Calls :
     PrivacyEngages(call[c].request) /\ call[c].tried # <<>> =>
       IF Locals = {} THEN config.privacy = "soft" ELSE call[c].tried[1].provider \in Locals

(* No interval of the window's length sees more calls admitted to a         *)
(* provider than its rpm, however the calls interleave.                     *)
RateLimitHolds ==
  \A p \in DOMAIN config.rpm : Limited(p) =>
    \A t \in 0 .. now :
       Cardinality({a \in admitted : a.provider = p /\ a.at <= t /\ t < a.at + Window})
         <= config.rpm[p]

(* "once it succeeds the router commits to that provider": all chunks of a  *)
(* stream come from the last model tried.                                   *)
StreamsDoNotSwitch ==
  \A c \in Calls : \A i \in DOMAIN call[c].chunks : call[c].chunks[i] = Last(call[c].tried)

(* A stream is asked of each model once, although the chosen model may be   *)
(* in the chain and the chain may name a model twice.                       *)
StreamsAskEachModelOnce ==
  \A c \in Calls : call[c].request.stream =>
    \A i, j \in DOMAIN call[c].tried : call[c].tried[i] = call[c].tried[j] => i = j

(* The caller is told that the providers failed only when every model of    *)
(* the chain that could be asked has been.                                  *)
FailureMeansNoneIsLeft ==
  \A c \in Calls :
    call[c].result \in {"error", "timeout"} /\ call[c].chunks = <<>> =>
      \A m \in ToSet(config.chain) :
         m.provider \in config.providers => m \in ToSet(call[c].tried)

(***************************************************************************)
(* What the repository says and the code does not do.                       *)
(***************************************************************************)
(* "enforced as a hard constraint": sensitive messages reach only local     *)
(* providers.                                                               *)
SensitiveMessagesStayLocal ==
  \A c \in Calls :
     PrivacyEngages(call[c].request) /\ config.privacy = "hard" =>
       \A i \in DOMAIN call[c].tried : call[c].tried[i].provider \in Locals
===============================================================================
