--------------------------- MODULE RunServiceProofs ---------------------------
(***************************************************************************)
(* Theorems about RunService, for any number of runs and reviewers.         *)
(*                                                                         *)
(* A run has the name of its decider from before the await of its resume    *)
(* hook on, and no action takes it away: so a second decision is refused    *)
(* whenever it comes.  The driver writes a status only before any request   *)
(* that names the run can have been made.                                   *)
(***************************************************************************)
EXTENDS RunService, FiniteSetTheorems, SequenceTheorems, TLAPS

Entries == [status : Statuses, result : Outcomes \cup {"error", NoResult},
            decidedBy : Reviewers \cup {NoOne}]

Starting == {r \in Hooks : start[r] = "running"}

(* The permits that are out are held by the webhook requests in run().      *)
PermitsAccounted ==
  IsFiniteSet(Starting) /\ permits + Cardinality(Starting) = MaxConcurrent

EntriesAreAnswered == \A r \in DOMAIN entry : start[r] = "answered"

(* A run whose driver has not run has not been decided on.                  *)
UndrivenIsUndecided == \A r \in driving : entry[r].decidedBy = NoOne

(* Whoever resumes a run resumes one that exists.                           *)
ResumedRunsExist ==
  \A v \in Reviewers :
    review[v].state \in {"resuming", "resumed", "error"} => review[v].run \in DOMAIN entry

UnwiredHasFailed == \A r \in DOMAIN handle : ~handle[r].wired => handle[r].outcome = "failed"

IInv ==
  /\ TypeOK
  /\ PermitsAccounted
  /\ EntriesAreAnswered
  /\ UndrivenIsUndecided
  /\ ResumedRunsExist
  /\ UnwiredHasFailed
  /\ OneDecisionPerRun
  /\ PendingRunsCanBeDecided

-------------------------------------------------------------------------------
(* A record appended and the oldest popped: still records, at most          *)
(* MaxHistory.                                                              *)
LEMMA TrimmedIsBounded ==
  ASSUME NEW S, NEW h \in Seq(S), Len(h) <= MaxHistory, NEW e \in S
  PROVE  Trimmed(Append(h, e)) \in Seq(S) /\ Len(Trimmed(Append(h, e))) <= MaxHistory
<1>1. Append(h, e) \in Seq(S) /\ Len(Append(h, e)) = Len(h) + 1 /\ Append(h, e) # <<>>
  BY AppendProperties
<1>2. Tail(Append(h, e)) \in Seq(S) /\ Len(Tail(Append(h, e))) = Len(h)
  BY <1>1, HeadTailProperties
<1>3. MaxHistory \in Nat /\ Len(h) \in Nat
  BY ServiceAssumption
<1> QED
  BY <1>1, <1>2, <1>3 DEF Trimmed

(* A webhook that is let in takes a permit, and gives it back however its   *)
(* run() ends.                                                              *)
LEMMA PermitTaken ==
  ASSUME TypeOK, PermitsAccounted, NEW r \in Runs, TriggerWebhook(r)
  PROVE  PermitsAccounted' /\ permits' \in 0 .. MaxConcurrent
<1>0. /\ permits \in 0 .. MaxConcurrent /\ MaxConcurrent \in Nat
      /\ IsFiniteSet(Starting) /\ permits + Cardinality(Starting) = MaxConcurrent
      /\ start \in [Runs -> {"idle", "running", "answered", "refused", "error"}]
      /\ Hooks \subseteq Runs
  BY ServiceAssumption DEF TypeOK, PermitsAccounted
<1>1. CASE start' = [start EXCEPT ![r] = "refused"] /\ UNCHANGED permits
  <2>1. permits' = permits /\ Starting' = Starting
    BY <1>0, <1>1 DEF TriggerWebhook, Starting
  <2> QED
    BY <1>0, <2>1 DEF PermitsAccounted
<1>2. CASE /\ permits > 0
           /\ start' = [start EXCEPT ![r] = "running"]
           /\ permits' = permits - 1
  <2>1. permits' = permits - 1 /\ Starting' = Starting \cup {r} /\ r \notin Starting
    BY <1>0, <1>2 DEF TriggerWebhook, Starting
  <2>2. IsFiniteSet(Starting') /\ Cardinality(Starting') = Cardinality(Starting) + 1
    BY <1>0, <2>1, FS_AddElement
  <2>3. Cardinality(Starting) \in Nat
    BY <1>0, FS_CardinalityType
  <2> QED
    BY <1>0, <1>2, <2>1, <2>2, <2>3 DEF PermitsAccounted
<1> QED
  BY <1>1, <1>2 DEF TriggerWebhook

(* A request that leaves run(), by a return or an exception, frees the      *)
(* permit it held and no other.                                             *)
LEMMA PermitReturned ==
  ASSUME TypeOK, PermitsAccounted, NEW r \in Runs, start[r] = "running",
         NEW s \in {"answered", "error"}, start' = [start EXCEPT ![r] = s],
         permits' = Released(r)
  PROVE  PermitsAccounted' /\ permits' \in 0 .. MaxConcurrent
<1>0. /\ permits \in 0 .. MaxConcurrent /\ MaxConcurrent \in Nat
      /\ IsFiniteSet(Starting) /\ permits + Cardinality(Starting) = MaxConcurrent
      /\ start \in [Runs -> {"idle", "running", "answered", "refused", "error"}]
      /\ Hooks \subseteq Runs
  BY ServiceAssumption DEF TypeOK, PermitsAccounted
<1>1. CASE r \in Hooks
  <2>1. permits' = permits + 1 /\ Starting' = Starting \ {r} /\ r \in Starting
    BY <1>0, <1>1 DEF Released, Starting
  <2>2. IsFiniteSet(Starting') /\ Cardinality(Starting') = Cardinality(Starting) - 1
    BY <1>0, <2>1, FS_RemoveElement
  <2>3. Cardinality(Starting') \in Nat
    BY <2>2, FS_CardinalityType
  <2>4. Cardinality(Starting) \in Nat
    BY <1>0, FS_CardinalityType
  <2> QED
    BY <1>0, <2>1, <2>2, <2>3, <2>4 DEF PermitsAccounted
<1>2. CASE r \notin Hooks
  <2>1. permits' = permits /\ Starting' = Starting
    BY <1>0, <1>2 DEF Released, Starting
  <2> QED
    BY <1>0, <2>1 DEF PermitsAccounted
<1> QED
  BY <1>1, <1>2

-------------------------------------------------------------------------------
(* Each group of actions preserves the invariant.                           *)
LEMMA StartsPreserve ==
  ASSUME IInv, NEW r \in Runs, PostRun(r) \/ TriggerWebhook(r) \/ RunIsRefused(r)
  PROVE  IInv'
<1> USE DEF IInv
<1>1. /\ UNCHANGED <<handle, entry, driving, review, history, socket>>
      /\ start[r] # "answered"
      /\ \E s \in {"running", "refused", "error"} : start' = [start EXCEPT ![r] = s]
  BY DEF PostRun, TriggerWebhook, RunIsRefused
<1>2. PermitsAccounted' /\ permits' \in 0 .. MaxConcurrent
  <2>1. CASE PostRun(r)
    <3>1. Starting' = Starting /\ permits' = permits
      BY <2>1 DEF PostRun, Starting, TypeOK
    <3> QED
      BY <3>1 DEF PermitsAccounted, TypeOK
  <2>2. CASE TriggerWebhook(r)
    BY <2>2, PermitTaken
  <2>3. CASE RunIsRefused(r)
    BY <2>3, PermitReturned DEF RunIsRefused
  <2> QED
    BY <2>1, <2>2, <2>3
<1>3. TypeOK'
  BY <1>1, <1>2 DEF TypeOK
<1>4. EntriesAreAnswered'
  BY <1>1 DEF EntriesAreAnswered, TypeOK
<1> QED
  BY <1>1, <1>2, <1>3, <1>4 DEF UndrivenIsUndecided, ResumedRunsExist, UnwiredHasFailed,
     OneDecisionPerRun, PendingRunsCanBeDecided, Resumes

(* A run that is registered is new: nobody has decided on it, and its       *)
(* driver has yet to run.                                                   *)
LEMMA RegistrationPreserves ==
  ASSUME IInv, NEW r \in Runs, RunIsRegistered(r)
  PROVE  IInv'
<1> USE DEF IInv
<1>1. r \notin DOMAIN entry /\ r \notin driving /\ DOMAIN handle = DOMAIN entry
  BY DEF EntriesAreAnswered, RunIsRegistered, TypeOK
<1>2. PICK outcome \in Outcomes, wired \in BOOLEAN :
        /\ ~wired => outcome = "failed"
        /\ handle' = With(handle, r, [outcome |-> outcome, wired |-> wired])
  BY DEF RunIsRegistered
<1>3. /\ entry' = With(entry, r, [status |-> "running", result |-> NoResult,
                                  decidedBy |-> NoOne])
      /\ start' = [start EXCEPT ![r] = "answered"]
      /\ driving' = driving \cup {r}
      /\ UNCHANGED <<review, history, socket>>
  BY DEF RunIsRegistered
<1>4. PermitsAccounted' /\ permits' \in 0 .. MaxConcurrent
  BY PermitReturned DEF RunIsRegistered
<1>5. TypeOK'
  BY <1>2, <1>3, <1>4 DEF TypeOK, With, Statuses
<1>6. EntriesAreAnswered' /\ UndrivenIsUndecided'
  BY <1>1, <1>3 DEF EntriesAreAnswered, UndrivenIsUndecided, With, TypeOK
<1>7. ResumedRunsExist' /\ OneDecisionPerRun'
  BY <1>1, <1>3 DEF ResumedRunsExist, OneDecisionPerRun, Resumes, With
<1>8. UnwiredHasFailed' /\ PendingRunsCanBeDecided'
  BY <1>1, <1>2, <1>3 DEF UnwiredHasFailed, PendingRunsCanBeDecided, With, TypeOK
<1> QED
  BY <1>4, <1>5, <1>6, <1>7, <1>8

(* The driver and a cancellation write a status, never the name of a        *)
(* decider.                                                                 *)
LEMMA DriverAndCancelPreserve ==
  ASSUME IInv, NEW r \in Runs, Drive(r) \/ DriveFails(r) \/ Cancel(r)
  PROVE  IInv'
<1> USE DEF IInv
<1>1. ASSUME NEW status \in Outcomes, NEW result \in Outcomes \cup {"error"},
             Driven(r, status, result), status = "paused" => status = handle[r].outcome
      PROVE  IInv'
  <2>1. r \in DOMAIN entry /\ r \in DOMAIN handle /\ entry[r].decidedBy = NoOne
    BY <1>1 DEF Driven, TypeOK, UndrivenIsUndecided
  <2>2. /\ entry' = [entry EXCEPT ![r].status = status, ![r].result = result]
        /\ driving' = driving \ {r}
        /\ UNCHANGED <<start, permits, handle, review, history>>
    BY <1>1 DEF Driven
  <2>3. TypeOK'
    <3>1. socket' \in [Sockets -> [run : Runs \cup {NoRun},
                                   state : {"idle", "waiting", "left", "closed", "gone"}]]
      BY <1>1 DEF Driven, TypeOK
    <3>2. \A q \in DOMAIN entry' : entry'[q] \in Entries
      <4>1. \A q \in DOMAIN entry : entry[q] \in Entries
        BY <2>1 DEF TypeOK, Entries
      <4> QED
        BY <1>1, <2>2, <4>1 DEF Entries, Statuses
    <3>3. driving' \subseteq DOMAIN entry' /\ DOMAIN entry' = DOMAIN entry
      BY <2>2 DEF TypeOK
    <3> QED
      BY <2>2, <3>1, <3>2, <3>3 DEF TypeOK, Entries
  <2>4. PermitsAccounted' /\ EntriesAreAnswered' /\ UndrivenIsUndecided'
    BY <2>2 DEF PermitsAccounted, Starting, EntriesAreAnswered, UndrivenIsUndecided, TypeOK
  <2>5. ResumedRunsExist' /\ OneDecisionPerRun'
    BY <2>2 DEF ResumedRunsExist, OneDecisionPerRun, Resumes, TypeOK
  <2>6. UnwiredHasFailed'
    BY <2>2 DEF UnwiredHasFailed
  <2>7. PendingRunsCanBeDecided'
    BY <1>1, <2>1, <2>2 DEF UnwiredHasFailed, Outcomes, PendingRunsCanBeDecided, TypeOK
  <2> QED
    BY <2>3, <2>4, <2>5, <2>6, <2>7
<1>2. CASE Cancel(r)
  <2>1. /\ entry' = [entry EXCEPT ![r].status = "cancelled"]
        /\ UNCHANGED <<start, permits, handle, driving, review, history, socket>>
    BY <1>2 DEF Cancel
  <2>2. TypeOK'
    BY <2>1 DEF TypeOK, Statuses
  <2>3. /\ DOMAIN entry' = DOMAIN entry
        /\ \A q \in DOMAIN entry : entry'[q].decidedBy = entry[q].decidedBy
        /\ \A q \in DOMAIN entry : entry'[q].status = "paused" => entry[q].status = "paused"
    BY <2>1 DEF TypeOK
  <2>4. driving \subseteq DOMAIN entry
    BY DEF TypeOK
  <2>5. OneDecisionPerRun'
    BY <2>1, <2>3 DEF OneDecisionPerRun, ResumedRunsExist, Resumes
  <2> QED
    BY <2>1, <2>2, <2>3, <2>4, <2>5 DEF PermitsAccounted, Starting, EntriesAreAnswered,
       UndrivenIsUndecided, ResumedRunsExist, UnwiredHasFailed, PendingRunsCanBeDecided
<1>3. ASSUME Drive(r) \/ DriveFails(r)
      PROVE  IInv'
  <2>1. \/ Driven(r, handle[r].outcome, handle[r].outcome)
        \/ Driven(r, "failed", "error")
    BY <1>3 DEF Drive, DriveFails
  <2>2. handle[r].outcome \in Outcomes /\ "failed" \in Outcomes
    BY <2>1 DEF Driven, TypeOK, Outcomes
  <2>3. CASE Driven(r, handle[r].outcome, handle[r].outcome)
    BY <1>1, <2>2, <2>3
  <2>4. CASE Driven(r, "failed", "error")
    BY <1>1, <2>2, <2>4
  <2> QED  BY <2>1, <2>3, <2>4
<1> QED
  BY <1>2, <1>3

(* Who resumes what after one reviewer's request has changed state.         *)
LEMMA AnswerEffect ==
  ASSUME TypeOK, NEW v \in Reviewers, NEW r \in Runs,
         NEW s \in {"resuming", "resumed", "conflict", "error"}, Answer(v, r, s)
  PROVE  /\ review' \in [Reviewers -> [run : Runs \cup {NoRun},
                           state : {"idle", "resuming", "resumed", "conflict", "error"}]]
         /\ review'[v] = [run |-> r, state |-> s]
         /\ \A w \in Reviewers : w # v => review'[w] = review[w]
BY DEF TypeOK, Answer

(* A decision is accepted only where no name stands, and leaves one: this   *)
(* is where two reviewers race.                                             *)
LEMMA DecisionPreserves ==
  ASSUME IInv, NEW v \in Reviewers, NEW r \in Runs, Decide(v, r)
  PROVE  IInv'
<1> USE DEF IInv
<1>1. /\ r \in DOMAIN entry /\ r \notin driving /\ review[v].state = "idle"
      /\ UNCHANGED <<start, permits, handle, driving, history, socket>>
  BY DEF Decide, IsKnown
<1>2. CASE UNCHANGED entry /\ Answer(v, r, "conflict")
  <2>1. /\ review'[v] = [run |-> r, state |-> "conflict"]
        /\ \A w \in Reviewers : w # v => review'[w] = review[w]
    BY <1>2, AnswerEffect
  <2>2. TypeOK'
    BY <1>1, <1>2, AnswerEffect DEF TypeOK
  <2>3. ResumedRunsExist' /\ OneDecisionPerRun'
    BY <1>2, <2>1 DEF ResumedRunsExist, OneDecisionPerRun, Resumes
  <2> QED
    BY <1>1, <1>2, <2>2, <2>3 DEF PermitsAccounted, Starting, EntriesAreAnswered,
       UndrivenIsUndecided, UnwiredHasFailed, PendingRunsCanBeDecided
<1>3. CASE /\ entry[r].decidedBy = NoOne
           /\ Answer(v, r, "resuming")
           /\ entry' = [entry EXCEPT ![r] = Claim(v, entry[r])]
  <2>1. /\ review'[v] = [run |-> r, state |-> "resuming"]
        /\ \A w \in Reviewers : w # v => review'[w] = review[w]
    BY <1>3, AnswerEffect
  <2>2. \A w \in Reviewers : ~Resumes(w, r)
    BY <1>3, ServiceAssumption DEF OneDecisionPerRun
  <2>3. /\ DOMAIN entry' = DOMAIN entry
        /\ entry'[r].decidedBy = v /\ entry'[r].status = "running"
        /\ \A q \in DOMAIN entry : q # r => entry'[q] = entry[q]
        /\ \A q \in DOMAIN entry' : entry'[q] \in Entries
    BY <1>1, <1>3 DEF Claim, TypeOK, Entries, Statuses
  <2>4. TypeOK'
    BY <1>1, <1>3, <2>3, AnswerEffect DEF TypeOK, Entries
  <2>5. ResumedRunsExist' /\ OneDecisionPerRun'
    BY <1>1, <2>1, <2>2, <2>3 DEF ResumedRunsExist, OneDecisionPerRun, Resumes
  <2>6. driving \subseteq DOMAIN entry
    BY DEF TypeOK
  <2>7. PendingRunsCanBeDecided' /\ UndrivenIsUndecided'
    BY <1>1, <2>3, <2>6 DEF PendingRunsCanBeDecided, UndrivenIsUndecided
  <2> QED
    BY <1>1, <2>3, <2>4, <2>5, <2>7 DEF PermitsAccounted, Starting, EntriesAreAnswered,
       UnwiredHasFailed
<1> QED
  BY <1>2, <1>3 DEF Decide

(* What a resume hook comes to touches the reviewer and the history only.   *)
LEMMA ResumptionPreserves ==
  ASSUME IInv, NEW v \in Reviewers, ResumeReturns(v) \/ ResumeRaises(v)
  PROVE  IInv'
<1> USE DEF IInv
<1>1. /\ UNCHANGED <<start, permits, handle, entry, driving, socket>>
      /\ review[v].state = "resuming"
      /\ Answer(v, review[v].run, "resumed") \/ Answer(v, review[v].run, "error")
  BY DEF ResumeReturns, ResumeRaises
<1>2. review[v].run \in Runs
  BY <1>1 DEF ResumedRunsExist, TypeOK
<1>3. /\ review'[v].run = review[v].run /\ review'[v].state \in {"resumed", "error"}
      /\ \A w \in Reviewers : w # v => review'[w] = review[w]
  <2>1. CASE Answer(v, review[v].run, "resumed")
    BY <1>2, <2>1 DEF Answer, TypeOK
  <2>2. CASE Answer(v, review[v].run, "error")
    BY <1>2, <2>2 DEF Answer, TypeOK
  <2> QED
    BY <1>1, <2>1, <2>2
<1>4. history' \in Seq([run : Runs, by : Reviewers]) /\ Len(history') <= MaxHistory
  <2>1. history \in Seq([run : Runs, by : Reviewers]) /\ Len(history) <= MaxHistory
    BY DEF TypeOK
  <2>2. [run |-> review[v].run, by |-> v] \in [run : Runs, by : Reviewers]
    BY <1>2
  <2>3. \/ history' = history
        \/ history' = Trimmed(Append(history, [run |-> review[v].run, by |-> v]))
    BY DEF ResumeReturns, ResumeRaises
  <2> QED
    BY <2>1, <2>2, <2>3, TrimmedIsBounded
<1>5. TypeOK'
  BY <1>1, <1>2, <1>4, AnswerEffect DEF TypeOK
<1>6. ResumedRunsExist' /\ OneDecisionPerRun'
  BY <1>1, <1>3 DEF ResumedRunsExist, OneDecisionPerRun, Resumes
<1> QED
  BY <1>1, <1>5, <1>6 DEF PermitsAccounted, Starting, EntriesAreAnswered, UndrivenIsUndecided,
     UnwiredHasFailed, PendingRunsCanBeDecided

(* Clients that come and go change nothing but their sockets.               *)
LEMMA SocketsPreserve ==
  ASSUME IInv, NEW s \in Sockets, Disconnect(s) \/ \E r \in Runs : OpenSocket(s, r)
  PROVE  IInv'
<1> USE DEF IInv
<1>1. UNCHANGED <<start, permits, handle, entry, driving, review, history>>
  BY DEF Disconnect, OpenSocket
<1> DEFINE States == [run : Runs \cup {NoRun}, state : {"idle", "waiting", "left", "closed", "gone"}]
<1>2. socket' \in [Sockets -> States]
  <2>1. socket \in [Sockets -> States]
    BY DEF TypeOK
  <2>2. CASE Disconnect(s)
    BY <2>1, <2>2 DEF Disconnect
  <2>3. ASSUME NEW r \in Runs, OpenSocket(s, r)
        PROVE  socket' \in [Sockets -> States]
    BY <2>1, <2>3 DEF OpenSocket
  <2> QED
    BY <2>2, <2>3
<1>3. TypeOK'
  BY <1>1, <1>2 DEF TypeOK
<1> QED
  BY <1>1, <1>3 DEF PermitsAccounted, Starting, EntriesAreAnswered, UndrivenIsUndecided,
     ResumedRunsExist, UnwiredHasFailed, OneDecisionPerRun, PendingRunsCanBeDecided, Resumes

(* The service starts with every permit free and no run.                    *)
LEMMA InitEstablishes == Init => IInv
<1> SUFFICES ASSUME Init PROVE IInv
  OBVIOUS
<1> USE ServiceAssumption
<1>1. DOMAIN entry = {} /\ DOMAIN handle = {} /\ Starting = {} /\ history = <<>>
  BY DEF Init, Starting
<1>2. PermitsAccounted
  BY <1>1, FS_EmptySet DEF PermitsAccounted, Init
<1>3. history \in Seq([run : Runs, by : Reviewers]) /\ Len(history) <= MaxHistory
  BY <1>1
<1>4. TypeOK
  BY <1>1, <1>3 DEF Init, TypeOK
<1> QED
  BY <1>1, <1>2, <1>4 DEF IInv, Init, EntriesAreAnswered, UndrivenIsUndecided,
     ResumedRunsExist, UnwiredHasFailed, OneDecisionPerRun, PendingRunsCanBeDecided, Resumes

(* The invariant is inductive.                                              *)
LEMMA NextPreserves == IInv /\ [Next]_vars => IInv'
<1> SUFFICES ASSUME IInv, [Next]_vars PROVE IInv'
  OBVIOUS
<1>1. CASE UNCHANGED vars
  BY <1>1 DEF vars, IInv, TypeOK, PermitsAccounted, Starting, EntriesAreAnswered,
     UndrivenIsUndecided, ResumedRunsExist, UnwiredHasFailed, OneDecisionPerRun,
     PendingRunsCanBeDecided, Resumes
<1> QED
  BY <1>1, StartsPreserve, RegistrationPreserves, DriverAndCancelPreserve, DecisionPreserves,
     ResumptionPreserves, SocketsPreserve DEF Next

(* The inductive invariant holds of every behaviour of the service.         *)
LEMMA Invariance == Spec => []IInv
BY InitEstablishes, NextPreserves, PTL DEF Spec

(* _resume drives the graph of a run at most once, for the reviewer whose   *)
(* name the entry keeps, whatever the number and order of the decisions.    *)
THEOREM DecidedOnce == Spec => []OneDecisionPerRun
<1>1. IInv => OneDecisionPerRun
  BY DEF IInv
<1> QED
  BY <1>1, Invariance, PTL

(* What GET /api/hitl/pending lists can be decided on, at any time.         *)
THEOREM PendingIsOpen == Spec => []PendingRunsCanBeDecided
<1>1. IInv => PendingRunsCanBeDecided
  BY DEF IInv
<1> QED
  BY <1>1, Invariance, PTL

(* The variables keep their types: the semaphore stays within its permits,  *)
(* and the history within its bound.                                        *)
THEOREM TypeCorrect == Spec => []TypeOK
<1>1. IInv => TypeOK
  BY DEF IInv
<1> QED
  BY <1>1, Invariance, PTL


-------------------------------------------------------------------------------
(* A record that is added is the newest; the oldest makes room, or none.    *)
LEMMA HistoryGains ==
  ASSUME NEW S, NEW h \in Seq(S), NEW e \in S, Len(h) <= MaxHistory,
         NEW t, t = Trimmed(Append(h, e))
  PROVE  /\ t # <<>> /\ Last(t) = e
         /\ Front(t) = IF Len(h) < MaxHistory THEN h ELSE Tail(h)
<1> DEFINE a == Append(h, e)
<1>1. /\ a \in Seq(S) /\ Len(a) = Len(h) + 1 /\ a # <<>> /\ Len(h) \in Nat /\ MaxHistory \in Nat \ {0}
      /\ a[Len(h) + 1] = e /\ \A i \in 1 .. Len(h) : a[i] = h[i]
  BY AppendProperties, ServiceAssumption
<1> HIDE DEF a
<1>2. CASE Len(h) < MaxHistory
  <2>1. t = a
    BY <1>1, <1>2 DEF Trimmed, a
  <2>2. Last(t) = e
    BY <1>1, <2>1 DEF Last
  <2>3. Front(t) = h
    <3>1. Front(t) = SubSeq(a, 1, Len(h))
      BY <1>1, <2>1 DEF Front
    <3>2. 1 \in Int /\ Len(h) \in Int /\ \A i \in 1 .. Len(h) : a[i] \in S
      BY <1>1
    <3>3. /\ SubSeq(a, 1, Len(h)) \in Seq(S) /\ Len(SubSeq(a, 1, Len(h))) = Len(h)
          /\ \A i \in 1 .. Len(h) : SubSeq(a, 1, Len(h))[i] = a[i]
      BY <1>1, <3>2, SubSeqProperties
    <3> QED  BY <1>1, <3>1, <3>3, SeqEqual
  <2> QED  BY <1>1, <1>2, <2>1, <2>2, <2>3
<1>3. CASE ~(Len(h) < MaxHistory)
  <2>1. t = Tail(a) /\ Len(h) > 0 /\ h # <<>>
    BY <1>1, <1>3 DEF Trimmed, a
  <2>2. t \in Seq(S) /\ Len(t) = Len(h) /\ \A i \in 1 .. Len(t) : t[i] = a[i + 1]
    BY <1>1, <2>1, HeadTailProperties
  <2>3. Last(t) = e /\ t # <<>>
    BY <1>1, <2>1, <2>2 DEF Last
  <2>4. Front(t) = Tail(h)
    <3> DEFINE n == Len(h) - 1
    <3>0. Len(h) \in Nat /\ Len(h) > 0
      BY <1>1, <2>1
    <3>1. n \in Nat /\ n = Len(h) - 1 /\ n < Len(h) /\ n - 1 + 1 = n /\ (~(1 <= n) => n = 0)
      <4>1. \A k \in Nat : k > 0 => k - 1 \in Nat /\ k - 1 < k /\ k - 1 - 1 + 1 = k - 1
        OBVIOUS
      <4>2. \A k \in Nat : k > 0 /\ ~(1 <= k - 1) => k - 1 = 0
        OBVIOUS
      <4>3. n = Len(h) - 1
        OBVIOUS
      <4> HIDE DEF n
      <4> QED  BY <3>0, <4>1, <4>2, <4>3
    <3>2. Front(t) = SubSeq(t, 1, n)
      BY <2>2 DEF Front
    <3>3. Tail(h) \in Seq(S) /\ Len(Tail(h)) = n /\ \A i \in 1 .. n : Tail(h)[i] = h[i + 1]
      BY <2>1, HeadTailProperties
    <3> HIDE DEF n
    <3>4. \A i \in 1 .. n : i + 1 \in 1 .. Len(h) /\ i \in 1 .. Len(t) /\ 1 + i - 1 = i
      BY <1>1, <2>2, <3>1
    <3>5. 1 \in Int /\ n \in Int /\ \A i \in 1 .. n : t[i] \in S
      BY <1>1, <2>2, <3>1, <3>4
    <3>6. /\ SubSeq(t, 1, n) \in Seq(S) /\ Len(SubSeq(t, 1, n)) = n
          /\ \A i \in 1 .. n : SubSeq(t, 1, n)[i] = t[i]
      BY <3>1, <3>4, <3>5, SubSeqProperties
    <3>7. \A i \in 1 .. n : SubSeq(t, 1, n)[i] = Tail(h)[i]
      BY <1>1, <2>2, <3>3, <3>4, <3>6
    <3> QED  BY <3>2, <3>3, <3>6, <3>7, SeqEqual
  <2> QED  BY <1>3, <2>3, <2>4
<1> QED  BY <1>2, <1>3

(* Only the return of a resume hook tells a reviewer "resumed".             *)
LEMMA OnlyReturnsResume ==
  ASSUME IInv, [Next]_vars, NEW v \in Reviewers,
         review[v].state = "resuming", review'[v].state = "resumed"
  PROVE  ResumeReturns(v)
<1>1. ASSUME NEW r \in Runs, PostRun(r) \/ TriggerWebhook(r) \/ RunIsRegistered(r) \/ RunIsRefused(r)
                             \/ Drive(r) \/ DriveFails(r) \/ Cancel(r)
      PROVE  review' = review
  BY <1>1 DEF PostRun, TriggerWebhook, RunIsRegistered, RunIsRefused, Drive, DriveFails, Driven, Cancel
<1>2. ASSUME NEW s \in Sockets, Disconnect(s) \/ \E r \in Runs : OpenSocket(s, r)
      PROVE  review' = review
  BY <1>2 DEF Disconnect, OpenSocket
<1>3. ASSUME NEW w \in Reviewers, NEW r \in Runs, Decide(w, r)
      PROVE  FALSE
  <2>1. review'[v] = review[v] \/ review'[v].state \in {"resuming", "conflict"}
    BY <1>3 DEF Decide, Answer, IInv, TypeOK
  <2> QED  BY <2>1
<1>4. ASSUME NEW w \in Reviewers, ResumeReturns(w)
      PROVE  w = v
  BY <1>4 DEF ResumeReturns, Answer, IInv, TypeOK
<1>5. ASSUME NEW w \in Reviewers, ResumeRaises(w)
      PROVE  FALSE
  <2>1. review'[v] = review[v] \/ review'[v].state = "error"
    BY <1>5 DEF ResumeRaises, Answer, IInv, TypeOK
  <2> QED  BY <2>1
<1>6. CASE UNCHANGED vars
  BY <1>6 DEF vars
<1> QED  BY <1>1, <1>2, <1>3, <1>4, <1>5, <1>6 DEF Next

(* _resume files each decision it has delivered: when the reviewer is told  *)
(* "resumed" the record is there, the newest, and at most the oldest of     *)
(* those before it has gone.                                                *)
THEOREM HistoryIsKept == Spec => HistoryKeepsTheLatest
<1>1. ASSUME IInv, [Next]_vars, NEW v \in Reviewers,
             review[v].state = "resuming", review'[v].state = "resumed"
      PROVE  /\ history' # <<>> /\ Last(history') = [run |-> review[v].run, by |-> v]
             /\ Front(history') \in {history, IF Len(history) < MaxHistory THEN history
                                              ELSE Tail(history)}
  <2> DEFINE e == [run |-> review[v].run, by |-> v]
             Records == [run : Runs, by : Reviewers]
  <2>1. history' = Trimmed(Append(history, e))
    BY <1>1, OnlyReturnsResume DEF ResumeReturns
  <2>2. review[v].run \in Runs
    BY <1>1 DEF IInv, ResumedRunsExist, TypeOK
  <2>3. e \in Records
    BY <2>2
  <2>4. history \in Seq(Records) /\ Len(history) <= MaxHistory
    BY <1>1 DEF IInv, TypeOK
  <2> HIDE DEF e, Records
  <2>5. /\ history' # <<>> /\ Last(history') = e
        /\ Front(history') = IF Len(history) < MaxHistory THEN history ELSE Tail(history)
    BY <2>1, <2>3, <2>4, HistoryGains
  <2> QED  BY <2>5 DEF e
<1>2. IInv /\ [Next]_vars =>
        [\A v \in Reviewers :
           review[v].state = "resuming" /\ review'[v].state = "resumed" =>
             /\ history' # <<>> /\ Last(history') = [run |-> review[v].run, by |-> v]
             /\ Front(history') \in {history, IF Len(history) < MaxHistory THEN history
                                              ELSE Tail(history)}]_vars
  BY <1>1
<1> QED  BY <1>2, Invariance, PTL DEF Spec, HistoryKeepsTheLatest
===============================================================================
