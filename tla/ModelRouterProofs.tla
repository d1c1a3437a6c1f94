--------------------------- MODULE ModelRouterProofs ---------------------------
(***************************************************************************)
(* What the router promises of a call and of the rate limiter, for any      *)
(* number of calls, providers and models, and for chains of any length.     *)
(***************************************************************************)
EXTENDS ModelRouter, TLAPS, SequenceTheorems, FiniteSetTheorems

CallRecords ==
  [state : CallStates, request : Requests, tried : Seq(Models), left : Seq(Models),
   failed : BOOLEAN, chunks : Seq(Models), result : Results]

(***************************************************************************)
(* The invariant of the calls.                                              *)
(***************************************************************************)
CallsTyped == config \in Configs /\ call \in [Calls -> CallRecords] /\ now \in 0 .. MaxTime

(* A provider works on the call in the states between the first and the     *)
(* last, and chunks come from the model asked last.                         *)
Progress(k) ==
  /\ k.state = "idle" => k.tried = <<>>
  /\ k.state \in {"asked", "streaming"} => k.tried # <<>>
  /\ k.state \in {"idle", "asked"} => k.chunks = <<>>
  /\ k.state = "streaming" => k.chunks # <<>>
  /\ k.result # "none" <=> k.state = "ended"
  /\ Len(k.chunks) <= MaxChunks
  /\ \A i \in DOMAIN k.chunks : k.chunks[i] = Last(k.tried)

AsksOnce(k) ==
  k.request.stream => \A i, j \in DOMAIN k.tried : k.tried[i] = k.tried[j] => i = j

(* A model of the chain that can be asked has been, or is left.             *)
Reaches(models) == \A m \in ToSet(config.chain) : Configured(m) => m \in models

Exhausts(k) ==
  /\ k.state = "asked" => Reaches(ToSet(k.tried) \cup ToSet(k.left))
  /\ k.result \in {"error", "timeout"} /\ k.chunks = <<>> => Reaches(ToSet(k.tried))

AsksLocally(k) ==
  PrivacyEngages(k.request) /\ k.tried # <<>> =>
    IF Locals = {} THEN config.privacy = "soft" ELSE k.tried[1].provider \in Locals

CallFits(k) == Progress(k) /\ AsksOnce(k) /\ Exhausts(k) /\ AsksLocally(k)

CallsInv == CallsTyped /\ \A c \in Calls : CallFits(call[c])

(***************************************************************************)
(* Sequences of models.                                                     *)
(***************************************************************************)
LEMMA Appended ==
  ASSUME NEW tried \in Seq(Models), NEW m \in Models
  PROVE  /\ Append(tried, m) \in Seq(Models) /\ Append(tried, m) # <<>>
         /\ Last(Append(tried, m)) = m
         /\ ToSet(Append(tried, m)) = ToSet(tried) \cup {m}
         /\ tried = <<>> => Append(tried, m)[1] = m
         /\ tried # <<>> => Append(tried, m)[1] = tried[1]
<1> DEFINE longer == Append(tried, m)
<1>1. /\ longer \in Seq(Models) /\ longer # <<>> /\ Len(longer) = Len(tried) + 1
      /\ \A i \in 1 .. Len(tried) : longer[i] = tried[i]
      /\ longer[Len(tried) + 1] = m
  BY AppendProperties
<1>2. /\ Len(tried) \in Nat /\ DOMAIN tried = 1 .. Len(tried)
      /\ DOMAIN longer = 1 .. Len(tried) + 1
      /\ tried = <<>> => Len(tried) = 0
      /\ tried # <<>> => Len(tried) > 0
  BY <1>1
<1> HIDE DEF longer
<1>3. Last(longer) = m
  BY <1>1 DEF Last
<1>4. ToSet(longer) = ToSet(tried) \cup {m}
  BY <1>1, <1>2 DEF ToSet
<1> QED  BY <1>1, <1>2, <1>3, <1>4 DEF longer

(* A model that was not tried keeps the models tried apart.                 *)
LEMMA StaysInjective ==
  ASSUME NEW tried \in Seq(Models), NEW m \in Models, m \notin ToSet(tried),
         \A i, j \in DOMAIN tried : tried[i] = tried[j] => i = j
  PROVE  \A i, j \in DOMAIN Append(tried, m) :
           Append(tried, m)[i] = Append(tried, m)[j] => i = j
BY DEF ToSet

LEMMA Remaining ==
  ASSUME NEW models \in Seq(Models), NEW i \in DOMAIN models
  PROVE  /\ Rest(models, i) \in Seq(Models)
         /\ \A j \in DOMAIN models : j > i => models[j] \in ToSet(Rest(models, i))
<1> DEFINE rest == SubSeq(models, i + 1, Len(models))
<1>1. i \in Nat /\ Len(models) \in Nat /\ DOMAIN models = 1 .. Len(models) /\ i <= Len(models)
  OBVIOUS
<1>2. /\ rest \in Seq(Models)
      /\ Len(rest) = IF i + 1 <= Len(models) THEN Len(models) - (i + 1) + 1 ELSE 0
      /\ \A n \in 1 .. Len(models) - (i + 1) + 1 : rest[n] = models[i + 1 + n - 1]
  <2>1. /\ i + 1 \in Int /\ Len(models) \in Int
        /\ \A n \in i + 1 .. Len(models) : models[n] \in Models
    BY <1>1
  <2> QED  BY <2>1, SubSeqProperties
<1>3. DOMAIN rest = 1 .. Len(rest)
  BY <1>2
<1> HIDE DEF rest
<1>4. ASSUME NEW j \in DOMAIN models, j > i
      PROVE  models[j] \in ToSet(rest)
  <2>1. j \in Nat /\ j - i \in 1 .. Len(models) - (i + 1) + 1 /\ j - i \in 1 .. Len(rest)
    BY <1>1, <1>2, <1>4
  <2>2. i + 1 + (j - i) - 1 = j
    BY <1>1, <2>1
  <2>3. rest[j - i] = models[j]
    BY <1>2, <2>1, <2>2
  <2> QED  BY <1>3, <2>1, <2>3 DEF ToSet
<1> QED  BY <1>2, <1>4 DEF Rest, rest

LEMMA InitHolds == Init => CallsInv
<1> SUFFICES ASSUME Init PROVE CallsInv
  OBVIOUS
<1>1. CallsTyped
  <2> DEFINE idle(r) == [state |-> "idle", request |-> r, tried |-> <<>>, left |-> <<>>,
                         failed |-> FALSE, chunks |-> <<>>, result |-> "none"]
  <2>1. ASSUME NEW r \in Requests PROVE idle(r) \in CallRecords
    BY DEF CallRecords, CallStates, Results
  <2>2. call \in [Calls -> {idle(r) : r \in Requests}]
    BY DEF Init
  <2> HIDE DEF idle
  <2>3. call \in [Calls -> CallRecords]
    BY <2>1, <2>2
  <2> QED  BY <2>3, BoundsAssumption DEF Init, CallsTyped
<1>2. ASSUME NEW c \in Calls PROVE CallFits(call[c])
  BY BoundsAssumption DEF Init, CallFits, Progress, AsksOnce, Exhausts, AsksLocally
<1> QED  BY <1>1, <1>2 DEF CallsInv

(***************************************************************************)
(* What becomes of one call.                                                *)
(***************************************************************************)
LEMMA OneCall ==
  ASSUME CallsInv, NEW c \in Calls, NEW k \in CallRecords, CallFits(k),
         call' = [call EXCEPT ![c] = k], UNCHANGED <<config, now>>
  PROVE  CallsInv'
<1>1. CallsTyped'
  BY DEF CallsInv, CallsTyped
<1>2. ASSUME NEW d \in Calls PROVE CallFits(call'[d])
  BY DEF CallsInv, CallsTyped
<1>3. ASSUME NEW d \in Calls PROVE CallFits(call[d])'
  BY <1>2 DEF CallFits, Progress, AsksOnce, Exhausts, Reaches, AsksLocally, PrivacyEngages, Locals,
    Configured
<1> QED  BY <1>1, <1>3 DEF CallsInv

(* A call that ends without a failure keeps what it has.                    *)
LEMMA Ending ==
  ASSUME NEW k \in CallRecords, CallFits(k), NEW result \in Results \ {"none"},
         result \in {"error", "timeout"} /\ k.chunks = <<>> => Reaches(ToSet(k.tried))
  PROVE  LET e == [k EXCEPT !.state = "ended", !.result = result]
         IN  e \in CallRecords /\ CallFits(e)
<1> DEFINE e == [k EXCEPT !.state = "ended", !.result = result]
<1>1. /\ e \in CallRecords /\ e.state = "ended" /\ e.result = result
      /\ e.request = k.request /\ e.tried = k.tried /\ e.chunks = k.chunks
  BY DEF CallRecords, CallStates
<1> HIDE DEF e
<1>2. Progress(e) /\ AsksOnce(e) /\ Exhausts(e) /\ AsksLocally(e)
  BY <1>1 DEF CallFits, Progress, AsksOnce, Exhausts, AsksLocally
<1> QED  BY <1>1, <1>2 DEF CallFits, e

LEMMA EndOf ==
  ASSUME CallsInv, NEW c \in Calls, NEW result \in Results \ {"none"}, call' = End(c, result),
         UNCHANGED <<config, now>>,
         result \in {"error", "timeout"} /\ call[c].chunks = <<>> => Reaches(ToSet(call[c].tried))
  PROVE  CallsInv'
<1> DEFINE k == call[c]
           e == [k EXCEPT !.state = "ended", !.result = result]
<1>1. k \in CallRecords /\ CallFits(k)
  BY DEF CallsInv, CallsTyped
<1>2. call' = [call EXCEPT ![c] = e]
  BY DEF End, CallsInv, CallsTyped
<1> HIDE DEF k
<1>3. e \in CallRecords /\ CallFits(e)
  BY <1>1, Ending DEF k
<1> HIDE DEF e
<1> QED  BY <1>2, <1>3, OneCall

(* Models are tried in order: what is skipped was tried or cannot be asked, *)
(* and what was not tried yet is left.                                      *)
LEMMA TryKeeps ==
  ASSUME CallsInv, NEW c \in Calls, NEW models \in Seq(Models), NEW failed \in BOOLEAN,
         NEW result \in {"error", "timeout"}, Try(c, models, failed, result),
         call[c].state \in {"idle", "asked"}, UNCHANGED <<config, now>>,
         Reaches(ToSet(call[c].tried) \cup ToSet(models)),
         PrivacyEngages(call[c].request) /\ call[c].tried = <<>> =>
           IF Locals = {} THEN config.privacy = "soft"
           ELSE models # <<>> /\ models[1].provider \in Locals
  PROVE  CallsInv'
<1> DEFINE old == call[c]
<1>1. old \in CallRecords /\ CallFits(old) /\ old.chunks = <<>>
  BY DEF CallsInv, CallsTyped, CallFits, Progress
<1>2. CASE /\ \A i \in DOMAIN models : Skips(c, models[i])
           /\ call' = End(c, result)
  <2>1. Reaches(ToSet(call[c].tried))
    BY <1>2 DEF Reaches, Skips, ToSet
  <2> QED  BY <1>2, <2>1, EndOf DEF Results
<1>3. ASSUME NEW i \in NextOf(c, models),
             ~Configured(models[i]) /\ call' = End(c, "key error")
      PROVE  CallsInv'
  BY <1>3, EndOf DEF Results
<1>4. ASSUME NEW i \in NextOf(c, models), Configured(models[i]),
             call' = [call EXCEPT ![c].state = "asked", ![c].failed = failed,
                                  ![c].tried = Append(@, models[i]), ![c].left = Rest(models, i)]
      PROVE  CallsInv'
  <2> DEFINE tried == Append(old.tried, models[i])
             rest == Rest(models, i)
             k == [old EXCEPT !.state = "asked", !.failed = failed, !.tried = tried, !.left = rest]
  <2>1. /\ i \in DOMAIN models /\ models[i] \in Models /\ i \in 1 .. Len(models)
        /\ ~Skips(c, models[i]) /\ \A j \in 1 .. i - 1 : Skips(c, models[j])
    BY DEF NextOf
  <2>2. /\ tried \in Seq(Models) /\ tried # <<>> /\ Last(tried) = models[i]
        /\ ToSet(tried) = ToSet(old.tried) \cup {models[i]}
        /\ old.tried = <<>> => tried[1] = models[i]
        /\ old.tried # <<>> => tried[1] = old.tried[1]
    <3>1. old.tried \in Seq(Models)
      BY <1>1 DEF CallRecords
    <3> QED  BY <2>1, <3>1, Appended
  <2>3. /\ rest \in Seq(Models)
        /\ \A j \in DOMAIN models : j > i => models[j] \in ToSet(rest)
    BY <2>1, Remaining
  <2>4. call' = [call EXCEPT ![c] = k]
    BY <1>4 DEF CallsInv, CallsTyped
  <2>5. old.request.stream =>
          /\ models[i] \notin ToSet(old.tried)
          /\ \A m, n \in DOMAIN tried : tried[m] = tried[n] => m = n
    BY <1>1, <2>1, StaysInjective DEF Skips, CallFits, AsksOnce, CallRecords
  <2>6. Reaches(ToSet(tried) \cup ToSet(rest))
    <3> SUFFICES ASSUME NEW m \in ToSet(config.chain), Configured(m), m \notin ToSet(tried)
                 PROVE  m \in ToSet(rest)
      BY DEF Reaches
    <3>1. m \in ToSet(models) /\ m \notin ToSet(old.tried) /\ m # models[i]
      BY <2>2 DEF Reaches
    <3>2. PICK j \in DOMAIN models : models[j] = m
      BY <3>1 DEF ToSet
    <3>3. ~Skips(c, models[j])
      BY <3>1, <3>2 DEF Skips
    <3>4. j > i
      BY <2>1, <3>1, <3>2, <3>3
    <3> QED  BY <2>3, <3>2, <3>4
  <2>7. AsksLocally([request |-> old.request, tried |-> tried])
    <3>1. CASE old.tried # <<>>
      BY <1>1, <2>2, <3>1 DEF CallFits, AsksLocally
    <3>2. CASE old.tried = <<>>
      <4>1. ASSUME PrivacyEngages(old.request), Locals # {} PROVE tried[1].provider \in Locals
        <5>1. models # <<>> /\ models[1].provider \in Locals
          BY <3>2, <4>1
        <5>2. ~Skips(c, models[1])
          BY <3>2, <5>1 DEF Skips, Locals, Configured, ToSet
        <5>3. i = 1
          BY <2>1, <5>2
        <5> QED  BY <2>2, <3>2, <5>1, <5>3
      <4> QED  BY <3>2, <4>1 DEF AsksLocally
    <3> QED  BY <3>1, <3>2
  <2> HIDE DEF old, tried, rest
  <2>8. /\ k \in CallRecords /\ k.state = "asked" /\ k.tried = tried /\ k.left = rest
        /\ k.request = old.request /\ k.chunks = old.chunks /\ k.result = old.result
    BY <1>1, <2>2, <2>3 DEF CallRecords, CallStates
  <2> HIDE DEF k
  <2>9. Progress(k)
    BY <1>1, <2>2, <2>8 DEF CallFits, Progress, old
  <2>10. AsksOnce(k)
    BY <2>5, <2>8 DEF AsksOnce
  <2>11. Exhausts(k)
    BY <1>1, <2>6, <2>8 DEF CallFits, Progress, Exhausts, old
  <2>12. AsksLocally(k)
    BY <2>7, <2>8 DEF AsksLocally
  <2> QED  BY <2>4, <2>8, <2>9, <2>10, <2>11, <2>12, OneCall DEF CallFits
<1> QED  BY <1>2, <1>3, <1>4 DEF Try

(***************************************************************************)
(* The steps.                                                               *)
(***************************************************************************)
LEMMA Chains ==
  ASSUME CallsInv, NEW m \in Models
  PROVE  /\ <<m>> \o FallbackChain \in Seq(Models)
         /\ <<m>> \o FallbackChain # <<>> /\ (<<m>> \o FallbackChain)[1] = m
         /\ ToSet(config.chain) \subseteq ToSet(<<m>> \o FallbackChain)
<1>1. config.chain \in Seq(Models) /\ <<m>> \in Seq(Models) /\ Len(<<m>>) = 1
  BY ConfigsAssumption DEF CallsInv, CallsTyped
<1> DEFINE chain == <<m>> \o config.chain
<1>2. /\ chain \in Seq(Models) /\ Len(chain) = 1 + Len(config.chain)
      /\ \A i \in 1 .. 1 + Len(config.chain) : chain[i] = IF i <= 1 THEN <<m>>[i] ELSE config.chain[i - 1]
  BY <1>1, ConcatProperties
<1>3. ASSUME NEW i \in DOMAIN config.chain PROVE config.chain[i] \in ToSet(chain)
  <2>1. i \in Nat /\ i + 1 \in 1 .. Len(chain) /\ ~(i + 1 <= 1) /\ (i + 1) - 1 = i
    BY <1>1, <1>2
  <2>2. chain[i + 1] = config.chain[i] /\ i + 1 \in DOMAIN chain
    BY <1>2, <2>1
  <2> QED  BY <2>2 DEF ToSet
<1>4. chain # <<>> /\ chain[1] = m
  BY <1>1, <1>2
<1> QED  BY <1>2, <1>3, <1>4 DEF FallbackChain, ToSet

(* What is chosen is a model; for a sensitive request it is local, if there *)
(* is a local provider, and there is one in hard mode.                      *)
LEMMA ChoiceOf ==
  ASSUME CallsInv, NEW c \in Calls, ~PrivacyRefuses(call[c].request),
         NEW m \in Chosen(call[c].request)
  PROVE  /\ m \in Models
         /\ PrivacyEngages(call[c].request) =>
              IF Locals = {} THEN config.privacy = "soft" ELSE m.provider \in Locals
<1> DEFINE r == call[c].request
<1>1. config \in Configs /\ r \in Requests
  BY DEF CallsInv, CallsTyped, CallRecords
<1>2. /\ config.default \in Models /\ config.local \subseteq Names
      /\ config.privacy \in {"off", "soft", "hard"}
  BY <1>1, ConfigsAssumption
<1>3. CASE PrivacyEngages(r) /\ Locals # {}
  <2>1. PICK p \in Locals : m = Model(p, "")
    BY <1>3 DEF Chosen
  <2>2. p \in Names
    BY <1>2 DEF Locals
  <2>3. m \in Models /\ m.provider = p
    BY <2>1, <2>2, NamesAssumption DEF Model, Models
  <2> QED  BY <1>3, <2>3
<1>4. CASE ~(PrivacyEngages(r) /\ Locals # {})
  <2>1. m \in ByPriority(r)
    BY <1>4 DEF Chosen
  <2>2. ASSUME NEW i \in First(r) PROVE r.proposals[Priority[i]] \in Models
    <3>1. Priority[i] \in ToSet(Priority)
      BY DEF First, ToSet
    <3> QED  BY <1>1, <3>1, RequestsAssumption
  <2>3. m \in Models
    BY <1>2, <2>1, <2>2 DEF ByPriority
  <2> QED  BY <1>2, <1>4, <2>3 DEF PrivacyRefuses, PrivacyEngages
<1>5. /\ m \in Models
      /\ PrivacyEngages(r) => IF Locals = {} THEN config.privacy = "soft" ELSE m.provider \in Locals
  BY <1>3, <1>4
<1> QED  BY <1>5

(* A new call has the chosen model and the chain before it.                 *)
LEMMA Routing ==
  ASSUME CallsInv, NEW c \in Calls, Idle(c), ~PrivacyRefuses(call[c].request),
         NEW m \in Chosen(call[c].request), NEW result \in {"error", "timeout"},
         Try(c, <<m>> \o FallbackChain, FALSE, result), UNCHANGED <<config, now>>
  PROVE  CallsInv'
<1> DEFINE chain == <<m>> \o FallbackChain
<1>1. /\ m \in Models
      /\ PrivacyEngages(call[c].request) =>
           IF Locals = {} THEN config.privacy = "soft" ELSE m.provider \in Locals
  BY ChoiceOf
<1>2. /\ chain \in Seq(Models) /\ chain # <<>> /\ chain[1] = m
      /\ ToSet(config.chain) \subseteq ToSet(chain)
  BY <1>1, Chains
<1>3. Try(c, chain, FALSE, result) /\ call[c].state = "idle"
  BY DEF Idle
<1> HIDE DEF chain
<1>4. Reaches(ToSet(call[c].tried) \cup ToSet(chain))
  BY <1>2 DEF Reaches
<1> QED  BY <1>1, <1>2, <1>3, <1>4, TryKeeps

LEMMA Completing ==
  ASSUME CallsInv, NEW c \in Calls, CannotRoute(c) \/ Complete(c) \/ Stream(c)
  PROVE  CallsInv'
<1>1. CASE CannotRoute(c)
  BY <1>1, EndOf DEF CannotRoute, Results
<1>2. CASE Complete(c)
  <2>1. PICK m \in Chosen(call[c].request) : InvokeWithFallback(c, m)
    BY <1>2 DEF Complete
  <2>2. CASE call' = End(c, "rate limit")
    BY <1>2, <2>2, EndOf DEF Complete, Results
  <2>3. CASE Try(c, <<m>> \o FallbackChain, FALSE, "error")
    BY <1>2, <2>3, Routing DEF Complete
  <2> QED  BY <2>1, <2>2, <2>3 DEF InvokeWithFallback
<1>3. CASE Stream(c)
  BY <1>3, Routing DEF Stream
<1> QED  BY <1>1, <1>2, <1>3

LEMMA FallingBack ==
  ASSUME CallsInv, NEW c \in Calls, Fails(c) \/ YieldsNothing(c)
  PROVE  CallsInv'
<1>1. /\ call[c] \in CallRecords /\ CallFits(call[c]) /\ call[c].state = "asked"
      /\ UNCHANGED <<config, now>>
  BY DEF CallsInv, CallsTyped, Fails, YieldsNothing, Asked
<1>2. PICK failed \in BOOLEAN, result \in {"error", "timeout"} :
        Try(c, call[c].left, failed, result)
  BY <1>1 DEF Fails, YieldsNothing, CallRecords
<1>3. call[c].left \in Seq(Models) /\ call[c].tried # <<>>
  BY <1>1 DEF CallRecords, CallFits, Progress
<1>4. Reaches(ToSet(call[c].tried) \cup ToSet(call[c].left))
  BY <1>1 DEF CallFits, Exhausts
<1> QED  BY <1>1, <1>2, <1>3, <1>4, TryKeeps

(* The first chunk commits the call; the others come from the same model.   *)
LEMMA Chunks ==
  ASSUME CallsInv, NEW c \in Calls, Answers(c) \/ NextChunk(c)
  PROVE  CallsInv'
<1> DEFINE old == call[c]
<1>1. /\ old \in CallRecords /\ CallFits(old) /\ UNCHANGED <<config, now>>
      /\ old.state \in {"asked", "streaming"} /\ old.tried # <<>>
  BY DEF CallsInv, CallsTyped, Answers, NextChunk, CallFits, Progress, Asked, Streaming
<1>2. CASE Answers(c) /\ ~old.request.stream
  BY <1>1, <1>2, EndOf DEF Answers, Results
<1>3. CASE ~(Answers(c) /\ ~old.request.stream)
  <2> DEFINE last == Last(old.tried)
             chunks == IF Answers(c) THEN <<last>> ELSE Append(old.chunks, last)
             k == [old EXCEPT !.state = "streaming", !.chunks = chunks]
  <2>1. old.tried \in Seq(Models) /\ last \in Models /\ old.chunks \in Seq(Models)
    BY <1>1 DEF CallRecords, Last
  <2>2. /\ chunks \in Seq(Models) /\ chunks # <<>> /\ Len(chunks) <= MaxChunks
        /\ \A i \in DOMAIN chunks : chunks[i] = last
    <3>1. CASE Answers(c)
      <4>1. chunks = <<last>>
        BY <3>1
      <4> HIDE DEF chunks, last
      <4> QED  BY <2>1, <4>1, BoundsAssumption
    <3>2. CASE ~Answers(c)
      <4>1. chunks = Append(old.chunks, last) /\ Len(old.chunks) < MaxChunks
        BY <3>2 DEF NextChunk
      <4>2. \A i \in DOMAIN old.chunks : old.chunks[i] = last
        BY <1>1 DEF CallFits, Progress
      <4> HIDE DEF chunks, last
      <4> QED  BY <2>1, <4>1, <4>2, BoundsAssumption
    <3> QED  BY <3>1, <3>2
  <2>3. call' = [call EXCEPT ![c] = k]
    <3>1. CASE Answers(c)
      BY <1>3, <3>1 DEF Answers, CallsInv, CallsTyped
    <3>2. CASE ~Answers(c)
      <4>1. old.state = "streaming" /\ call' = [call EXCEPT ![c].chunks = Append(@, last)]
        BY <3>2 DEF NextChunk, Streaming
      <4>2. k = [old EXCEPT !.chunks = chunks]
        BY <1>1, <4>1 DEF CallRecords
      <4> QED  BY <3>2, <4>1, <4>2 DEF CallsInv, CallsTyped
    <3> QED  BY <3>1, <3>2
  <2> HIDE DEF old, chunks, last
  <2>4. /\ k \in CallRecords /\ k.state = "streaming" /\ k.chunks = chunks
        /\ k.tried = old.tried /\ k.request = old.request /\ k.result = old.result
    BY <1>1, <2>2 DEF CallRecords, CallStates
  <2> HIDE DEF k
  <2>5. Progress(k) /\ AsksOnce(k) /\ AsksLocally(k)
    BY <1>1, <2>2, <2>4 DEF CallFits, Progress, AsksOnce, AsksLocally, last
  <2>6. Exhausts(k)
    BY <2>2, <2>4 DEF Exhausts
  <2> QED  BY <1>1, <2>3, <2>4, <2>5, <2>6, OneCall DEF CallFits
<1> QED  BY <1>2, <1>3

LEMMA Stopping ==
  ASSUME CallsInv, NEW c \in Calls, Raises(c) \/ StreamEnds(c) \/ StreamBreaks(c)
  PROVE  CallsInv'
<1>1. CASE Raises(c)
  BY <1>1, EndOf DEF Raises, Results
<1>2. CASE StreamEnds(c)
  BY <1>2, EndOf DEF StreamEnds, Results
<1>3. CASE StreamBreaks(c)
  <2>1. call[c].chunks # <<>>
    BY <1>3 DEF StreamBreaks, Streaming, CallsInv, CallFits, Progress
  <2> QED  BY <1>3, <2>1, EndOf DEF StreamBreaks, Results
<1> QED  BY <1>1, <1>2, <1>3

LEMMA Unmoved ==
  ASSUME CallsInv, UNCHANGED <<config, call>>, now' \in 0 .. MaxTime
  PROVE  CallsInv'
BY DEF CallsInv, CallsTyped, CallFits, Progress, AsksOnce, Exhausts, Reaches, AsksLocally,
  PrivacyEngages, Locals, Configured

LEMMA StepsKeep == CallsInv /\ [Next]_vars => CallsInv'
<1> SUFFICES ASSUME CallsInv, [Next]_vars PROVE CallsInv'
  OBVIOUS
<1>1. CASE UNCHANGED vars
  BY <1>1, Unmoved DEF vars, CallsInv, CallsTyped
<1>2. CASE Tick
  BY <1>2, Unmoved, BoundsAssumption DEF Tick, CallsInv, CallsTyped
<1> QED  BY <1>1, <1>2, Completing, FallingBack, Chunks, Stopping DEF Next

LEMMA CallsInvariance == Spec => []CallsInv
BY InitHolds, StepsKeep, PTL DEF Spec

(***************************************************************************)
(* What callers see.                                                        *)
(***************************************************************************)
(* _arbitrate: a sensitive request starts at a local provider if there is   *)
(* one, whatever the other strategies propose; in hard mode there is one.   *)
THEOREM PrivacyFirst == Spec => []PrivacyIsAskedFirst
<1>1. CallsInv => PrivacyIsAskedFirst
  BY DEF CallsInv, CallFits, AsksLocally, PrivacyIsAskedFirst
<1> QED  BY <1>1, CallsInvariance, PTL

(* _stream_with_prefetch_fallback: after the first chunk the stream stays   *)
(* with the provider that sent it.                                          *)
THEOREM Committed == Spec => []StreamsDoNotSwitch
<1>1. CallsInv => StreamsDoNotSwitch
  BY DEF CallsInv, CallFits, Progress, StreamsDoNotSwitch
<1> QED  BY <1>1, CallsInvariance, PTL

(* The tried set: a stream asks no (provider, model) pair twice, for chains *)
(* that repeat models in any way.                                           *)
THEOREM AskedOnce == Spec => []StreamsAskEachModelOnce
<1>1. CallsInv => StreamsAskEachModelOnce
  BY DEF CallsInv, CallFits, AsksOnce, StreamsAskEachModelOnce
<1> QED  BY <1>1, CallsInvariance, PTL

(* A failure or a timeout is raised only after every configured model of    *)
(* the chain has been asked, by complete() and by stream().                 *)
THEOREM FailsLast == Spec => []FailureMeansNoneIsLeft
<1>1. CallsInv => FailureMeansNoneIsLeft
  BY DEF CallsInv, CallFits, Exhausts, Reaches, Configured, FailureMeansNoneIsLeft
<1> QED  BY <1>1, CallsInvariance, PTL

(***************************************************************************)
(* The rate limiter: acquire_rate_limit forgets admissions and prunes its   *)
(* lists only when it is asked, so the lists are compared with the history  *)
(* where they are read.                                                     *)
(***************************************************************************)
Recent(p, t) == {a \in admitted : a.provider = p /\ a.at <= t /\ t < a.at + Window}

WindowsTyped ==
  \A p \in DOMAIN windows : windows[p] \subseteq [call : Calls, provider : {p}, at : 0 .. now]

(* What a limiter counts is what it admitted in the last window.            *)
CountsTheRecent == \A p \in DOMAIN config.rpm : Limited(p) => InWindow(p) = Recent(p, now)

LimitsHold ==
  \A p \in DOMAIN config.rpm : Limited(p) =>
    \A t \in 0 .. now : Cardinality(Recent(p, t)) <= config.rpm[p]

WindowsInv ==
  /\ config \in Configs /\ now \in Nat
  /\ IsFiniteSet(admitted) /\ \A a \in admitted : a.at \in 0 .. now
  /\ WindowsTyped
  /\ CountsTheRecent
  /\ LimitsHold

LEMMA WindowsInit == Init => WindowsInv
<1> SUFFICES ASSUME Init PROVE WindowsInv
  OBVIOUS
<1>1. config \in Configs /\ now = 0 /\ admitted = {} /\ DOMAIN windows = {}
  BY DEF Init
<1>2. IsFiniteSet(admitted) /\ Cardinality({}) = 0
  BY <1>1, FS_EmptySet
<1>3. \A p : InWindow(p) = {} /\ \A t : Recent(p, t) = {}
  BY <1>1 DEF InWindow, Entries, Recent
<1>4. \A p \in DOMAIN config.rpm : config.rpm[p] \in Nat
  BY <1>1, ConfigsAssumption
<1>5. LimitsHold
  BY <1>2, <1>3, <1>4 DEF LimitsHold
<1> QED  BY <1>1, <1>2, <1>3, <1>5 DEF WindowsInv, WindowsTyped, CountsTheRecent

(* Time only takes admissions out of the window.                            *)
LEMMA TimePasses ==
  ASSUME WindowsInv, Tick
  PROVE  WindowsInv'
<1>1. /\ now' = now + 1 /\ now \in Nat /\ admitted' = admitted /\ windows' = windows
      /\ config' = config /\ Window \in Nat \ {0}
      /\ \A a \in admitted : a.at \in 0 .. now
  BY BoundsAssumption DEF Tick, WindowsInv
<1>2. /\ config \in Configs /\ now' \in Nat /\ IsFiniteSet(admitted)
      /\ \A a \in admitted : a.at \in 0 .. now'
  BY <1>1 DEF WindowsInv
<1>3. WindowsTyped'
  <2> SUFFICES ASSUME NEW p \in DOMAIN windows, NEW a \in windows[p]
               PROVE  a \in [call : Calls, provider : {p}, at : 0 .. now']
    BY <1>1 DEF WindowsTyped
  <2> QED  BY <1>1 DEF WindowsInv, WindowsTyped
<1>4. ASSUME NEW p \in DOMAIN config.rpm, Limited(p)
      PROVE  /\ InWindow(p)' = Recent(p, now')
             /\ Recent(p, now') \subseteq Recent(p, now)
  <2>1. InWindow(p) = Recent(p, now)
    BY <1>4 DEF WindowsInv, CountsTheRecent
  <2>2. Entries(p)' = Entries(p) /\ \A a \in Entries(p) : a.at \in 0 .. now
    BY <1>1 DEF Entries, WindowsInv, WindowsTyped
  <2>3. Recent(p, now') \subseteq Recent(p, now)
    BY <1>1 DEF Recent
  <2>4. InWindow(p)' = {a \in Entries(p) : now + 1 - a.at < Window}
    BY <1>1, <2>2 DEF InWindow
  <2>5. InWindow(p)' \subseteq InWindow(p)
    BY <1>1, <2>2, <2>4 DEF InWindow
  <2>6. ASSUME NEW a \in InWindow(p) PROVE a \in InWindow(p)' <=> a \in Recent(p, now')
    BY <1>1, <2>1, <2>2, <2>4, <2>6 DEF InWindow, Recent
  <2> QED  BY <2>1, <2>3, <2>5, <2>6
<1>5. \A p, t : Recent(p, t)' = Recent(p, t')
  BY <1>1 DEF Recent
<1>6. CountsTheRecent'
  <2> SUFFICES ASSUME NEW p \in DOMAIN config.rpm, Limited(p) PROVE (InWindow(p) = Recent(p, now))'
    BY <1>1 DEF CountsTheRecent, Limited
  <2> QED  BY <1>1, <1>4 DEF Recent
<1>7. LimitsHold'
  <2> SUFFICES ASSUME NEW p \in DOMAIN config.rpm, Limited(p), NEW t \in 0 .. now + 1
               PROVE  Cardinality(Recent(p, t)) <= config.rpm[p]
    BY <1>1 DEF LimitsHold, Limited, Recent
  <2>1. CASE t \in 0 .. now
    BY <2>1 DEF WindowsInv, LimitsHold
  <2>2. CASE t = now + 1
    <3>1. IsFiniteSet(Recent(p, now))
      BY <1>2, FS_Subset DEF Recent
    <3>2. Cardinality(Recent(p, now')) <= Cardinality(Recent(p, now))
      BY <1>4, <3>1, FS_Subset
    <3>3. Cardinality(Recent(p, now)) <= config.rpm[p] /\ now \in 0 .. now
      BY <1>1 DEF WindowsInv, LimitsHold
    <3>4. /\ Cardinality(Recent(p, now)) \in Nat /\ Cardinality(Recent(p, now')) \in Nat
          /\ config.rpm[p] \in Nat
      BY <1>2, <1>4, <3>1, FS_Subset, FS_CardinalityType, ConfigsAssumption
    <3> QED  BY <1>1, <2>2, <3>2, <3>3, <3>4
  <2> QED  BY <1>1, <2>1, <2>2
<1> QED  BY <1>1, <1>2, <1>3, <1>6, <1>7 DEF WindowsInv

(* What a provider's list becomes when it is pruned, and perhaps extended.  *)
LEMMA Pruning ==
  ASSUME WindowsInv, NEW q, NEW new \in SUBSET [call : Calls, provider : {q}, at : {now}],
         Holds(q, InWindow(q) \cup new), UNCHANGED <<config, now>>
  PROVE  /\ WindowsTyped'
         /\ InWindow(q)' = InWindow(q) \cup new
         /\ \A p : p # q => InWindow(p)' = InWindow(p)
<1>1. /\ now' = now /\ now \in Nat /\ Window \in Nat \ {0}
  BY BoundsAssumption DEF WindowsInv
<1>2. /\ DOMAIN windows' = DOMAIN windows \cup {q}
      /\ \A p \in DOMAIN windows' :
           windows'[p] = IF p = q THEN InWindow(q) \cup new ELSE windows[p]
  BY DEF Holds
<1>3. \A p : Entries(p) \subseteq [call : Calls, provider : {p}, at : 0 .. now]
  BY DEF Entries, WindowsInv, WindowsTyped
<1>4. /\ InWindow(q) \subseteq [call : Calls, provider : {q}, at : 0 .. now]
      /\ new \subseteq [call : Calls, provider : {q}, at : 0 .. now]
  BY <1>1, <1>3 DEF InWindow
<1>5. WindowsTyped'
  BY <1>1, <1>2, <1>4 DEF WindowsInv, WindowsTyped
<1>6. InWindow(q)' = InWindow(q) \cup new
  <2>1. Entries(q)' = InWindow(q) \cup new
    BY <1>2 DEF Entries
  <2>2. \A a \in InWindow(q) \cup new : now - a.at < Window
    BY <1>1 DEF InWindow
  <2> QED  BY <1>1, <2>1, <2>2 DEF InWindow
<1>7. ASSUME NEW p, p # q PROVE InWindow(p)' = InWindow(p)
  <2>1. Entries(p)' = Entries(p)
    BY <1>2, <1>7 DEF Entries
  <2> QED  BY <1>1, <2>1 DEF InWindow
<1> QED  BY <1>5, <1>6, <1>7

LEMMA Admitting ==
  ASSUME WindowsInv, NEW c \in Calls, NEW q, Admit(c, q), UNCHANGED <<config, now>>
  PROVE  WindowsInv'
<1> DEFINE a == Admission(c, q)
<1>1. /\ now' = now /\ config' = config /\ now \in Nat /\ Window \in Nat \ {0}
      /\ config \in Configs /\ admitted' = admitted \cup {a}
      /\ \A b \in admitted : b.at \in 0 .. now
  BY BoundsAssumption DEF WindowsInv, Admit
<1>2. a \in [call : Calls, provider : {q}, at : {now}] /\ a.provider = q /\ a.at = now
  BY DEF Admission
<1>3. /\ WindowsTyped'
      /\ Limited(q) => InWindow(q)' = InWindow(q) \cup {a}
      /\ \A p : p # q => InWindow(p)' = InWindow(p)
  <2>1. CASE ~Limited(q) /\ UNCHANGED windows
    BY <1>1, <2>1 DEF WindowsInv, WindowsTyped, InWindow, Entries
  <2>2. CASE Limited(q) /\ Holds(q, InWindow(q) \cup {a})
    BY <1>1, <1>2, <2>2, Pruning
  <2> QED  BY <2>1, <2>2 DEF Admit
<1> HIDE DEF a
<1>4. IsFiniteSet(admitted') /\ \A b \in admitted' : b.at \in 0 .. now
  BY <1>1, <1>2, FS_AddElement DEF WindowsInv
<1>5. /\ Recent(q, now)' = Recent(q, now) \cup {a}
      /\ \A p, t : p # q => Recent(p, t)' = Recent(p, t')
      /\ \A t \in 0 .. now - 1 : Recent(q, t)' = Recent(q, t)
  BY <1>1, <1>2 DEF Recent
<1>6. CountsTheRecent'
  <2> SUFFICES ASSUME NEW p \in DOMAIN config.rpm, Limited(p) PROVE (InWindow(p) = Recent(p, now))'
    BY <1>1 DEF CountsTheRecent, Limited
  <2>1. InWindow(p) = Recent(p, now)
    BY DEF WindowsInv, CountsTheRecent
  <2> QED  BY <1>1, <1>3, <1>5, <2>1
<1>7. LimitsHold'
  <2> SUFFICES ASSUME NEW p \in DOMAIN config.rpm, Limited(p), NEW t \in 0 .. now
               PROVE  Cardinality(Recent(p, t)') <= config.rpm[p]
    BY <1>1 DEF LimitsHold, Limited, Recent
  <2>1. Cardinality(Recent(p, t)) <= config.rpm[p]
    BY DEF WindowsInv, LimitsHold
  <2>2. CASE p # q \/ t # now
    BY <1>1, <1>5, <2>1, <2>2
  <2>3. CASE p = q /\ t = now
    <3>1. Cardinality(Recent(p, now)) < config.rpm[p]
      <4>1. HasRoom(p) /\ InWindow(p) = Recent(p, now)
        BY <2>3 DEF Admit, WindowsInv, CountsTheRecent
      <4> QED  BY <4>1 DEF HasRoom
    <3>2. IsFiniteSet(Recent(p, now))
      BY FS_Subset DEF Recent, WindowsInv
    <3>3. Cardinality(Recent(p, now) \cup {a}) <= Cardinality(Recent(p, now)) + 1
      <4>1. Cardinality(Recent(p, now) \cup {a}) =
              IF a \in Recent(p, now) THEN Cardinality(Recent(p, now))
              ELSE Cardinality(Recent(p, now)) + 1
        BY <3>2, FS_AddElement
      <4> QED  BY <3>2, <4>1, FS_CardinalityType
    <3>4. Cardinality(Recent(p, now)) \in Nat /\ Cardinality(Recent(p, now) \cup {a}) \in Nat
      BY <3>2, FS_AddElement, FS_CardinalityType
    <3>5. config.rpm[p] \in Nat
      BY <1>1, ConfigsAssumption
    <3>6. Cardinality(Recent(p, now) \cup {a}) <= config.rpm[p]
      BY <3>1, <3>3, <3>4, <3>5
    <3> QED  BY <1>5, <2>3, <3>6
  <2> QED  BY <2>2, <2>3
<1> QED  BY <1>1, <1>3, <1>4, <1>6, <1>7 DEF WindowsInv

LEMMA Refusing ==
  ASSUME WindowsInv, NEW q, Refuse(q), UNCHANGED <<config, now>>
  PROVE  WindowsInv'
<1>1. /\ now' = now /\ config' = config /\ admitted' = admitted
      /\ InWindow(q) = InWindow(q) \cup {}
  BY DEF Refuse
<1>2. WindowsTyped' /\ \A p : InWindow(p)' = InWindow(p)
  BY <1>1, Pruning DEF Refuse
<1>3. \A p, t : Recent(p, t)' = Recent(p, t')
  BY <1>1 DEF Recent
<1>4. CountsTheRecent'
  BY <1>1, <1>2, <1>3 DEF WindowsInv, CountsTheRecent, Limited
<1>5. LimitsHold'
  BY <1>1 DEF WindowsInv, LimitsHold, Limited, Recent
<1> QED  BY <1>1, <1>2, <1>4, <1>5 DEF WindowsInv

LEMMA WindowsKeep == WindowsInv /\ [Next]_vars => WindowsInv'
<1> SUFFICES ASSUME WindowsInv, [Next]_vars PROVE WindowsInv'
  OBVIOUS
<1>1. CASE UNCHANGED <<config, windows, now, admitted>>
  BY <1>1 DEF WindowsInv, WindowsTyped, CountsTheRecent, LimitsHold, Limited, InWindow, Entries,
    Recent
<1>2. ASSUME NEW c \in Calls, Complete(c) PROVE WindowsInv'
  <2>1. PICK m \in Chosen(call[c].request) : InvokeWithFallback(c, m)
    BY <1>2 DEF Complete
  <2> QED  BY <1>2, <2>1, Admitting, Refusing DEF Complete, InvokeWithFallback
<1> QED
  BY <1>1, <1>2, TimePasses DEF Next, vars, CannotRoute, Stream, Answers, Fails, YieldsNothing,
    Raises, NextChunk, StreamEnds, StreamBreaks

LEMMA WindowsInvariance == Spec => []WindowsInv
BY WindowsInit, WindowsKeep, PTL DEF Spec

(* Governance.acquire_rate_limit: over any interval of the window's length, *)
(* for any rpm and any number of concurrent calls.                          *)
THEOREM RateLimited == Spec => []RateLimitHolds
<1>1. WindowsInv => RateLimitHolds
  BY DEF WindowsInv, LimitsHold, Recent, RateLimitHolds
<1> QED  BY <1>1, WindowsInvariance, PTL

(* The states, results and lists of the calls and of the limiter.           *)
THEOREM TypeCorrect == Spec => []TypeOK
<1>1. CallsInv /\ WindowsInv => TypeOK
  BY DEF CallsInv, CallsTyped, CallRecords, CallFits, Progress, WindowsInv, WindowsTyped, TypeOK
<1> QED  BY <1>1, CallsInvariance, WindowsInvariance, PTL
===============================================================================
