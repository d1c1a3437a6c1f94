--------------------------- MODULE AgentLoopsProofs ---------------------------
(***************************************************************************)
(* The agent loops and the trace they share, for any number of tasks, any   *)
(* nodes, answers and texts: the spans of a task are a tree, no span is     *)
(* exported twice, a node reports what it did, and its notes quote their    *)
(* sources.  Each step of a task uses up some of the work it has left, and  *)
(* no crawl waits for ever: what the end of every node rests on, apart from *)
(* fairness.                                                                *)
(*                                                                         *)
(* Two facts about sets of numbers carry the data: a set of numbers has a   *)
(* least one (from the library's well-founded order), which is the next     *)
(* todo of an Execution and the step of the argument that going through     *)
(* notes in order determines which are kept.                                *)
(***************************************************************************)
EXTENDS AgentLoops, WellFoundedInduction, SequenceTheorems, FiniteSetTheorems, TLAPS

LEMMA LeastExists ==
  ASSUME NEW S \in SUBSET Nat, S # {}
  PROVE  \E x \in S : \A y \in S : x <= y
<1> DEFINE R == OpToRel(<, Nat)
<1>1. IsWellFoundedOn(R, Nat)
  BY NatLessThanWellFounded
<1>2. ASSUME NEW x \in Nat, NEW y \in Nat, y < x
      PROVE  <<y, x>> \in R
  BY <1>2 DEF OpToRel
<1> HIDE DEF R
<1>3. PICK x \in S : \A y \in S : <<y, x>> \notin R
  BY <1>1, WFMin
<1>4. ASSUME NEW y \in S
      PROVE  x <= y
  <2>1. x \in Nat /\ y \in Nat
    OBVIOUS
  <2>2. ~(y < x)
    BY <1>2, <1>3, <2>1
  <2> QED  BY <2>1, <2>2
<1> QED  BY <1>4

-------------------------------------------------------------------------------
(***************************************************************************)
(* The spans of a task.  The open ones are a stack: each names as its       *)
(* parent the last open one before it, and the context variable names the   *)
(* last.                                                                    *)
(***************************************************************************)
SpanRecords ==
  [parent : {NoSpan} \cup (Tasks \X Nat), status : {"open", "ok", "error"}, trace : Tasks \X Nat]

Views == [spans : Seq(SpanRecords), current : {NoSpan} \cup (Tasks \X Nat)]

OpenIn(v) == {i \in DOMAIN v.spans : v.spans[i].status = "open"}

CurrentIsLast(v, t) ==
  IF v.current = NoSpan THEN OpenIn(v) = {}
  ELSE /\ v.current[1] = t /\ v.current[2] \in OpenIn(v)
       /\ \A j \in OpenIn(v) : j <= v.current[2]

Linked(v, t, i) ==
  LET up == v.spans[i].parent
  IN  IF up = NoSpan THEN v.spans[i].trace = <<t, i>>
      ELSE /\ up[1] = t /\ up[2] \in 1 .. i - 1
           /\ v.spans[i].trace = v.spans[up[2]].trace
           /\ i \in OpenIn(v) => up[2] \in OpenIn(v)

StackedAt(v, i) ==
  \A j \in OpenIn(v) : j < i => v.spans[i].parent # NoSpan /\ j <= v.spans[i].parent[2]

Tree(v, t) ==
  /\ v \in Views
  /\ CurrentIsLast(v, t)
  /\ \A i \in DOMAIN v.spans : Linked(v, t, i)
  /\ \A i \in OpenIn(v) : StackedAt(v, i)

(* Nothing but the end of an open span has happened between v and w, apart  *)
(* from new spans.                                                          *)
Extends(v, w) ==
  /\ Len(v.spans) <= Len(w.spans)
  /\ \A i \in DOMAIN v.spans : v.spans[i].status # "open" => w.spans[i].status # "open"

LEMMA EnterGrows ==
  ASSUME NEW t \in Tasks, NEW v, Tree(v, t)
  PROVE  /\ Tree(Enter(v, t), t)
         /\ Extends(v, Enter(v, t))
         /\ Enter(v, t).current # NoSpan
         /\ Outer(Enter(v, t)) = v.current
<1> DEFINE n == Len(v.spans) + 1
           id == <<t, n>>
           s == [parent |-> v.current, status |-> "open",
                 trace |-> IF v.current = NoSpan THEN id ELSE v.spans[v.current[2]].trace]
           w == Enter(v, t)
<1>1. v \in Views /\ v.spans \in Seq(SpanRecords) /\ Len(v.spans) \in Nat
      /\ v.current \in {NoSpan} \cup (Tasks \X Nat) /\ DOMAIN v.spans = 1 .. Len(v.spans)
  BY DEF Tree, Views
<1>2. n \in Nat /\ id \in Tasks \X Nat /\ id # NoSpan /\ n > Len(v.spans)
  BY <1>1, NoSpanAssumption
<1>3. s \in SpanRecords
  <2>1. v.current # NoSpan => v.current[2] \in DOMAIN v.spans
    BY DEF Tree, CurrentIsLast, OpenIn
  <2>2. v.current # NoSpan => v.spans[v.current[2]] \in SpanRecords
    BY <1>1, <2>1
  <2> QED  BY <1>1, <1>2, <2>2 DEF SpanRecords
<1>4. w = [spans |-> Append(v.spans, s), current |-> id]
  BY DEF Enter
<1>5. /\ s.parent = v.current /\ s.status = "open"
      /\ s.trace = IF v.current = NoSpan THEN id ELSE v.spans[v.current[2]].trace
  OBVIOUS
<1> HIDE DEF s, w
<1>6. /\ w.spans \in Seq(SpanRecords) /\ Len(w.spans) = n /\ DOMAIN w.spans = 1 .. n
      /\ w.spans[n] = s /\ \A i \in 1 .. n - 1 : w.spans[i] = v.spans[i]
      /\ w.current = id
  BY <1>1, <1>3, <1>4, AppendProperties
<1>7. w \in Views
  BY <1>2, <1>3, <1>1, <1>4, AppendProperties DEF Views
<1>8. OpenIn(w) = OpenIn(v) \cup {n} /\ OpenIn(v) \subseteq 1 .. n - 1
  BY <1>1, <1>2, <1>5, <1>6 DEF OpenIn
<1>9. CurrentIsLast(w, t)
  BY <1>1, <1>2, <1>6, <1>8 DEF CurrentIsLast
<1>10. ASSUME NEW i \in 1 .. n - 1
       PROVE  Linked(w, t, i)
  <2>1. Linked(v, t, i) /\ w.spans[i] = v.spans[i] /\ (i \in OpenIn(w) <=> i \in OpenIn(v))
    BY <1>1, <1>6, <1>8, <1>10 DEF Tree
  <2>2. CASE v.spans[i].parent = NoSpan
    BY <2>1, <2>2 DEF Linked
  <2>3. CASE v.spans[i].parent # NoSpan
    <3>1. v.spans[i].parent[2] \in 1 .. n - 1
      BY <1>1, <1>10, <2>1, <2>3 DEF Linked
    <3>2. w.spans[v.spans[i].parent[2]] = v.spans[v.spans[i].parent[2]]
      BY <1>6, <3>1
    <3> QED  BY <1>8, <2>1, <2>3, <3>1, <3>2 DEF Linked
  <2> QED  BY <2>2, <2>3
<1>11. Linked(w, t, n)
  <2>1. CASE v.current = NoSpan
    BY <1>5, <1>6, <2>1 DEF Linked
  <2>2. CASE v.current # NoSpan
    <3>1. v.current[1] = t /\ v.current[2] \in OpenIn(v) /\ v.current[2] \in 1 .. n - 1
      BY <1>8, <2>2 DEF Tree, CurrentIsLast
    <3>2. w.spans[v.current[2]] = v.spans[v.current[2]]
      BY <1>6, <3>1
    <3> QED  BY <1>5, <1>6, <1>8, <2>2, <3>1, <3>2 DEF Linked
  <2> QED  BY <2>1, <2>2
<1>12. ASSUME NEW i \in OpenIn(w)
       PROVE  StackedAt(w, i)
  <2>1. CASE i = n
    <3>1. ASSUME NEW j \in OpenIn(v)
          PROVE  v.current # NoSpan /\ j <= v.current[2]
      BY DEF Tree, CurrentIsLast
    <3> QED  BY <1>2, <1>5, <1>6, <1>8, <2>1, <3>1 DEF StackedAt
  <2>2. CASE i # n
    <3>1. i \in OpenIn(v) /\ i \in 1 .. n - 1 /\ w.spans[i] = v.spans[i]
      BY <1>6, <1>8, <2>2
    <3>2. StackedAt(v, i)
      BY <3>1 DEF Tree
    <3> QED  BY <1>2, <1>8, <3>1, <3>2 DEF StackedAt
  <2> QED  BY <2>1, <2>2
<1>13. Tree(w, t)
  BY <1>2, <1>6, <1>7, <1>9, <1>10, <1>11, <1>12 DEF Tree
<1>14. Extends(v, w)
  BY <1>1, <1>2, <1>6 DEF Extends
<1>15. w.current # NoSpan /\ Outer(w) = v.current
  BY <1>2, <1>5, <1>6 DEF Outer
<1> QED  BY <1>13, <1>14, <1>15 DEF w


LEMMA LeaveShrinks ==
  ASSUME NEW t \in Tasks, NEW v, Tree(v, t), v.current # NoSpan, NEW status \in {"ok", "error"}
  PROVE  /\ Tree(Leave(v, status), t)
         /\ Extends(v, Leave(v, status))
         /\ Leave(v, status).current = Outer(v)
<1> DEFINE m == v.current[2]
           w == Leave(v, status)
<1>1. v \in Views /\ v.spans \in Seq(SpanRecords) /\ Len(v.spans) \in Nat
      /\ DOMAIN v.spans = 1 .. Len(v.spans)
  BY DEF Tree, Views
<1>2. m \in OpenIn(v) /\ m \in 1 .. Len(v.spans) /\ \A j \in OpenIn(v) : j <= m
  BY <1>1 DEF Tree, CurrentIsLast, OpenIn
<1>3. v.spans[m] \in SpanRecords /\ v.spans[m].parent \in {NoSpan} \cup (Tasks \X Nat)
  <2>1. v.spans[m] \in SpanRecords
    BY <1>1, <1>2
  <2> QED  BY <2>1 DEF SpanRecords
<1>4. w = [spans |-> [v.spans EXCEPT ![m].status = status], current |-> v.spans[m].parent]
  BY DEF Leave, Outer
<1> HIDE DEF w
<1>5. [v.spans[m] EXCEPT !.status = status] \in SpanRecords
  BY <1>3 DEF SpanRecords
<1>6. w.spans \in Seq(SpanRecords) /\ Len(w.spans) = Len(v.spans) /\ DOMAIN w.spans = DOMAIN v.spans
  BY <1>1, <1>2, <1>4, <1>5
<1>7. /\ \A i \in 1 .. Len(v.spans) : i # m => w.spans[i] = v.spans[i]
      /\ w.spans[m] = [v.spans[m] EXCEPT !.status = status]
      /\ w.current = v.spans[m].parent
  BY <1>1, <1>2, <1>4
<1>8. /\ w.spans[m].status = status
      /\ w.spans[m].parent = v.spans[m].parent /\ w.spans[m].trace = v.spans[m].trace
  BY <1>3, <1>7 DEF SpanRecords
<1>9. w \in Views
  <2>1. w = [spans |-> w.spans, current |-> w.current]
    BY <1>4
  <2> QED  BY <1>3, <1>6, <1>7, <2>1 DEF Views
<1>10. OpenIn(w) = OpenIn(v) \ {m} /\ OpenIn(v) \subseteq 1 .. Len(v.spans)
  <2>1. OpenIn(v) = {i \in 1 .. Len(v.spans) : v.spans[i].status = "open"}
    BY <1>1 DEF OpenIn
  <2>2. OpenIn(w) = {i \in 1 .. Len(v.spans) : w.spans[i].status = "open"}
    BY <1>1, <1>6 DEF OpenIn
  <2>3. \A i \in 1 .. Len(v.spans) : w.spans[i].status = "open" <=> i # m /\ v.spans[i].status = "open"
    BY <1>2, <1>7, <1>8
  <2> QED  BY <2>1, <2>2, <2>3
<1>11. ASSUME NEW i \in 1 .. Len(v.spans)
       PROVE  w.spans[i].parent = v.spans[i].parent /\ w.spans[i].trace = v.spans[i].trace
  BY <1>7, <1>8, <1>11
<1>12. ASSUME NEW i \in 1 .. Len(v.spans)
       PROVE  Linked(w, t, i)
  <2>1. Linked(v, t, i)
    BY <1>1, <1>12 DEF Tree
  <2>2. CASE v.spans[i].parent = NoSpan
    BY <1>11, <1>12, <2>1, <2>2 DEF Linked
  <2>3. CASE v.spans[i].parent # NoSpan
    <3> DEFINE up == v.spans[i].parent
    <3>1. up[1] = t /\ up[2] \in 1 .. i - 1 /\ v.spans[i].trace = v.spans[up[2]].trace
          /\ (i \in OpenIn(v) => up[2] \in OpenIn(v))
      BY <2>1, <2>3 DEF Linked
    <3>2. up[2] \in 1 .. Len(v.spans)
      BY <1>1, <1>12, <3>1
    <3>3. i \in OpenIn(w) => up[2] \in OpenIn(w)
      <4>1. i \in OpenIn(v) => i <= m
        BY <1>2
      <4> QED  BY <1>2, <1>10, <1>12, <3>1, <4>1
    <3>4. w.spans[i].parent = up /\ w.spans[i].trace = w.spans[up[2]].trace
      BY <1>11, <1>12, <3>1, <3>2
    <3> QED  BY <2>3, <3>1, <3>3, <3>4 DEF Linked
  <2> QED  BY <2>2, <2>3
<1>13. ASSUME NEW i \in OpenIn(w)
       PROVE  StackedAt(w, i)
  <2>1. StackedAt(v, i) /\ i \in 1 .. Len(v.spans)
    BY <1>10, <1>13 DEF Tree
  <2> QED  BY <1>10, <1>11, <2>1 DEF StackedAt
<1>14. CurrentIsLast(w, t)
  <2>1. StackedAt(v, m) /\ Linked(v, t, m)
    BY <1>1, <1>2 DEF Tree
  <2>2. \A j \in OpenIn(w) : j < m
    BY <1>2, <1>10
  <2>3. CASE w.current = NoSpan
    BY <1>7, <1>10, <2>1, <2>2, <2>3 DEF CurrentIsLast, StackedAt
  <2>4. CASE w.current # NoSpan
    <3>1. w.current[1] = t /\ w.current[2] \in 1 .. m - 1 /\ w.current[2] \in OpenIn(v)
      BY <1>2, <1>7, <2>1, <2>4 DEF Linked
    <3>2. w.current[2] \in OpenIn(w)
      BY <1>2, <1>10, <3>1
    <3> QED  BY <1>7, <1>10, <2>1, <2>2, <2>4, <3>1, <3>2 DEF CurrentIsLast, StackedAt
  <2> QED  BY <2>3, <2>4
<1>15. Tree(w, t)
  BY <1>1, <1>6, <1>9, <1>12, <1>13, <1>14 DEF Tree
<1>16. Extends(v, w)
  <2>1. \A i \in DOMAIN v.spans : v.spans[i].status # "open" => i # m
    BY <1>2 DEF OpenIn
  <2> QED  BY <1>1, <1>6, <1>7, <2>1 DEF Extends
<1>17. w.current = Outer(v)
  BY <1>7 DEF Outer
<1> QED  BY <1>15, <1>16, <1>17 DEF w

LEMMA ExtendsAgain ==
  ASSUME NEW u \in Views, NEW v \in Views, NEW w \in Views, Extends(u, v), Extends(v, w)
  PROVE  Extends(u, w)
<1>1. /\ Len(u.spans) \in Nat /\ Len(v.spans) \in Nat /\ Len(w.spans) \in Nat
      /\ DOMAIN u.spans = 1 .. Len(u.spans) /\ DOMAIN v.spans = 1 .. Len(v.spans)
  BY DEF Views
<1> QED  BY <1>1 DEF Extends

(* How far a view may have got: it is a tree that has grown from another.   *)
GrownFrom(u, w, t) == Tree(w, t) /\ Extends(u, w)

LEMMA GrowsByEntering ==
  ASSUME NEW t \in Tasks, NEW u, NEW v, Tree(u, t), GrownFrom(u, v, t)
  PROVE  /\ GrownFrom(u, Enter(v, t), t)
         /\ Enter(v, t).current # NoSpan /\ Outer(Enter(v, t)) = v.current
<1>1. /\ Tree(Enter(v, t), t) /\ Extends(v, Enter(v, t))
      /\ Enter(v, t).current # NoSpan /\ Outer(Enter(v, t)) = v.current
  BY EnterGrows DEF GrownFrom
<1>2. u \in Views /\ v \in Views /\ Enter(v, t) \in Views
  BY <1>1 DEF GrownFrom, Tree
<1> HIDE DEF Enter
<1> QED  BY <1>1, <1>2, ExtendsAgain DEF GrownFrom

LEMMA GrowsByLeaving ==
  ASSUME NEW t \in Tasks, NEW u, NEW v, Tree(u, t), GrownFrom(u, v, t), v.current # NoSpan,
         NEW status \in {"ok", "error"}
  PROVE  GrownFrom(u, Leave(v, status), t) /\ Leave(v, status).current = Outer(v)
<1>1. Tree(Leave(v, status), t) /\ Extends(v, Leave(v, status)) /\ Leave(v, status).current = Outer(v)
  BY LeaveShrinks DEF GrownFrom
<1>2. u \in Views /\ v \in Views /\ Leave(v, status) \in Views
  BY <1>1 DEF GrownFrom, Tree
<1> QED  BY <1>1, <1>2, ExtendsAgain DEF GrownFrom

LEMMA GrowsByUnwinding ==
  ASSUME NEW t \in Tasks, NEW u, NEW v, Tree(u, t), GrownFrom(u, v, t)
  PROVE  GrownFrom(u, Unwound(v), t)
<1>1. ASSUME NEW w, GrownFrom(u, w, t)
      PROVE  GrownFrom(u, Left(w), t)
  BY <1>1, GrowsByLeaving DEF Left
<1> QED  BY <1>1 DEF Unwound

LEMMA GrowsBySpawning ==
  ASSUME NEW t \in Tasks, NEW u, NEW v, Tree(u, t), GrownFrom(u, v, t)
  PROVE  GrownFrom(u, Spawned(v, t), t) /\ Spawned(v, t).current = v.current
BY GrowsByEntering, GrowsByLeaving DEF Spawned


-------------------------------------------------------------------------------
(***************************************************************************)
(* The exporter: the spans of every task are a tree, and one that has ended *)
(* is in exactly one place.                                                 *)
(***************************************************************************)
HasEnded(s) == \E t \in Tasks : \E i \in DOMAIN spans[t] : s = <<t, i>> /\ spans[t][i].status # "open"

SpansAreTrees ==
  /\ spans = [t \in Tasks |-> spans[t]] /\ current = [t \in Tasks |-> current[t]]
  /\ \A t \in Tasks : Tree(View(t), t)

EndedSpansAreKept ==
  /\ \A s : s \in buffer \cup exported \cup lost <=> HasEnded(s)
  /\ buffer \cap (exported \cup lost) = {} /\ exported \cap lost = {}

TraceInv == SpansAreTrees /\ EndedSpansAreKept

LEMMA EmptyTrace == TraceInit => TraceInv
<1> SUFFICES ASSUME TraceInit PROVE TraceInv
  OBVIOUS
<1>1. ASSUME NEW t \in Tasks
      PROVE  Tree(View(t), t) /\ DOMAIN spans[t] = {}
  <2>1. View(t) = [spans |-> <<>>, current |-> NoSpan]
    BY DEF TraceInit, View
  <2>2. View(t).spans = <<>> /\ View(t).current = NoSpan /\ DOMAIN View(t).spans = {}
    BY <2>1
  <2>3. View(t) \in Views
    BY <2>1 DEF Views
  <2>4. spans[t] = View(t).spans
    BY DEF View
  <2> QED  BY <2>2, <2>3, <2>4 DEF Tree, CurrentIsLast, OpenIn
<1>2. \A t \in Tasks : DOMAIN spans[t] = {}
  BY <1>1
<1> QED  BY <1>1, <1>2 DEF TraceInit, TraceInv, SpansAreTrees, EndedSpansAreKept, HasEnded

LEMMA TracedKeeps ==
  ASSUME TraceInv, NEW t \in Tasks, NEW v, Traced(t, v), GrownFrom(View(t), v, t)
  PROVE  TraceInv' /\ View(t)' = [spans |-> v.spans, current |-> v.current]
         /\ \A u \in Tasks : u # t => View(u)' = View(u)
<1>1. /\ spans' = [spans EXCEPT ![t] = v.spans] /\ current' = [current EXCEPT ![t] = v.current]
      /\ exported' = exported /\ lost' = lost
  BY DEF Traced
<1>2. /\ spans'[t] = v.spans /\ current'[t] = v.current
      /\ \A u \in Tasks : u # t => spans'[u] = spans[u] /\ current'[u] = current[u]
      /\ spans' = [u \in Tasks |-> spans'[u]] /\ current' = [u \in Tasks |-> current'[u]]
  BY <1>1 DEF TraceInv, SpansAreTrees
<1>3. View(t)' = [spans |-> v.spans, current |-> v.current] /\ \A u \in Tasks : u # t => View(u)' = View(u)
  BY <1>2 DEF View
<1>4. v = [spans |-> v.spans, current |-> v.current]
  BY DEF GrownFrom, Tree, Views
<1>5. SpansAreTrees'
  BY <1>2, <1>3, <1>4 DEF GrownFrom, TraceInv, SpansAreTrees
<1> DEFINE new == {i \in DOMAIN v.spans :
                       /\ v.spans[i].status # "open"
                       /\ i \in DOMAIN spans[t] => spans[t][i].status = "open"}
<1>7. buffer' = buffer \cup {<<t, i>> : i \in new}
  BY DEF Traced
<1>8. /\ DOMAIN spans[t] \subseteq DOMAIN v.spans
      /\ \A i \in DOMAIN spans[t] : spans[t][i].status # "open" => v.spans[i].status # "open"
  <2>1. View(t).spans = spans[t] /\ View(t) \in Views /\ v \in Views
    BY DEF View, GrownFrom, Tree, TraceInv, SpansAreTrees
  <2>2. DOMAIN spans[t] = 1 .. Len(spans[t]) /\ DOMAIN v.spans = 1 .. Len(v.spans)
        /\ Len(spans[t]) \in Nat /\ Len(v.spans) \in Nat
    BY <2>1 DEF Views
  <2> QED  BY <2>1, <2>2 DEF GrownFrom, Extends
<1>9. ASSUME NEW s
      PROVE  HasEnded(s)' <=> HasEnded(s) \/ s \in {<<t, i>> : i \in new}
  <2>1. HasEnded(s)' <=> \E u \in Tasks : \E i \in DOMAIN spans'[u] :
                            s = <<u, i>> /\ spans'[u][i].status # "open"
    BY DEF HasEnded
  <2>2. ASSUME HasEnded(s)
        PROVE  HasEnded(s)'
    <3>0. PICK u \in Tasks : \E i \in DOMAIN spans[u] : s = <<u, i>> /\ spans[u][i].status # "open"
      BY <2>2 DEF HasEnded
    <3>1. PICK i \in DOMAIN spans[u] : s = <<u, i>> /\ spans[u][i].status # "open"
      BY <3>0
    <3>2. i \in DOMAIN spans'[u] /\ spans'[u][i].status # "open"
      BY <1>2, <1>8, <3>1
    <3> QED  BY <2>1, <3>1, <3>2
  <2>3. ASSUME NEW i \in new, s = <<t, i>>
        PROVE  HasEnded(s)'
    BY <1>2, <2>1, <2>3
  <2>4. ASSUME HasEnded(s)', ~HasEnded(s)
        PROVE  s \in {<<t, i>> : i \in new}
    <3>0. PICK u \in Tasks : \E i \in DOMAIN spans'[u] : s = <<u, i>> /\ spans'[u][i].status # "open"
      BY <2>1, <2>4
    <3>1. PICK i \in DOMAIN spans'[u] : s = <<u, i>> /\ spans'[u][i].status # "open"
      BY <3>0
    <3>2. u = t
      BY <1>2, <2>4, <3>1 DEF HasEnded
    <3>3. i \in DOMAIN spans[t] => spans[t][i].status = "open"
      BY <2>4, <3>1, <3>2 DEF HasEnded
    <3> QED  BY <1>2, <3>1, <3>2, <3>3
  <2> QED  BY <2>2, <2>3, <2>4
<1>10. ASSUME NEW i \in new
       PROVE  ~HasEnded(<<t, i>>)
  BY DEF HasEnded
<1> HIDE DEF new
<1>11. EndedSpansAreKept'
  <2>1. \A s : s \in buffer \cup exported \cup lost <=> HasEnded(s)
    BY DEF TraceInv, EndedSpansAreKept
  <2>2. \A s : s \in buffer' \cup exported' \cup lost' <=> HasEnded(s)'
    BY <1>1, <1>7, <1>9, <2>1
  <2>3. buffer' \cap (exported' \cup lost') = {}
    BY <1>1, <1>7, <1>10, <2>1 DEF TraceInv, EndedSpansAreKept
  <2> QED  BY <1>1, <2>2, <2>3 DEF TraceInv, EndedSpansAreKept
<1> QED  BY <1>3, <1>5, <1>11 DEF TraceInv

LEMMA FlushKeeps ==
  ASSUME TraceInv, Flush
  PROVE  TraceInv' /\ UNCHANGED <<spans, current>>
<1>1. PICK sent \in Taken : /\ exported' = exported \cup sent /\ lost' = lost \cup (buffer \ sent)
                            /\ buffer' = {}
  BY DEF Flush, Remaining
<1>2. sent \subseteq buffer
  BY DEF Taken
<1>3. UNCHANGED <<spans, current>>
  BY DEF Flush
<1> QED  BY <1>1, <1>2, <1>3 DEF TraceInv, SpansAreTrees, EndedSpansAreKept, HasEnded, View

(* What is said of the trace follows.                                       *)
LEMMA TreesAreTrees == TraceInv => TraceIsATree
<1> SUFFICES ASSUME TraceInv, NEW t \in Tasks
             PROVE  LET open == {i \in DOMAIN spans[t] : spans[t][i].status = "open"}
                    IN  /\ IF open = {} THEN current[t] = NoSpan
                           ELSE current[t] = <<t, CHOOSE i \in open : \A j \in open : j <= i>>
                        /\ \A i \in DOMAIN spans[t] :
                             LET up == spans[t][i].parent
                             IN  IF up = NoSpan THEN spans[t][i].trace = <<t, i>>
                                 ELSE /\ up[1] = t /\ up[2] < i
                                      /\ spans[t][i].trace = spans[t][up[2]].trace
                                      /\ i \in open => up[2] \in open
  BY DEF TraceIsATree
<1> DEFINE v == View(t)
           open == {i \in DOMAIN spans[t] : spans[t][i].status = "open"}
<1>1. Tree(v, t) /\ v.spans = spans[t] /\ v.current = current[t] /\ OpenIn(v) = open
  BY DEF TraceInv, SpansAreTrees, View, OpenIn
<1>2. open \subseteq Nat /\ DOMAIN spans[t] \subseteq Nat
  BY <1>1 DEF Tree, Views
<1>3. current[t] \in {NoSpan} \cup (Tasks \X Nat)
  BY <1>1 DEF Tree, Views
<1> HIDE DEF v, open
<1>4. IF open = {} THEN current[t] = NoSpan
      ELSE current[t] = <<t, CHOOSE i \in open : \A j \in open : j <= i>>
  <2>1. CASE current[t] = NoSpan
    BY <1>1, <2>1 DEF Tree, CurrentIsLast
  <2>2. CASE current[t] # NoSpan
    <3> DEFINE m == current[t][2]
    <3>1. m \in open /\ (\A j \in open : j <= m) /\ current[t] = <<t, m>>
      BY <1>1, <1>3, <2>2 DEF Tree, CurrentIsLast
    <3> HIDE DEF m
    <3>2. \A i \in open : (\A j \in open : j <= i) => i = m
      <4>1. ASSUME NEW i \in open, \A j \in open : j <= i
            PROVE  i = m
        <5>1. i \in Nat /\ m \in Nat /\ m <= i /\ i <= m
          BY <1>2, <3>1, <4>1
        <5> QED  BY <5>1
      <4> QED  BY <4>1
    <3>3. (CHOOSE i \in open : \A j \in open : j <= i) = m
      BY <3>1, <3>2
    <3> QED  BY <3>1, <3>3
  <2> QED  BY <2>1, <2>2
<1>5. ASSUME NEW i \in DOMAIN spans[t], spans[t][i].parent # NoSpan
      PROVE  spans[t][i].parent[2] < i
  BY <1>1, <1>2, <1>5 DEF Tree, Linked
<1>6. ASSUME NEW i \in DOMAIN spans[t]
      PROVE  Linked(v, t, i)
  BY <1>1 DEF Tree
<1> QED  BY <1>1, <1>4, <1>5, <1>6 DEF Linked, open

LEMMA EndedSpansAreInOnePlace == TraceInv => SpansAreExportedOnce
<1> SUFFICES ASSUME TraceInv PROVE SpansAreExportedOnce
  OBVIOUS
<1>1. ASSUME NEW s
      PROVE  s \in AllSpans /\ ~IsOpen(s) <=> HasEnded(s)
  <2>1. s \in AllSpans <=> \E t \in Tasks : \E i \in DOMAIN spans[t] : s = <<t, i>>
    BY DEF AllSpans
  <2> QED  BY <2>1 DEF IsOpen, HasEnded
<1> QED  BY <1>1 DEF TraceInv, EndedSpansAreKept, SpansAreExportedOnce


-------------------------------------------------------------------------------
(***************************************************************************)
(* The notes of a Research: going through them in order and keeping what is *)
(* similar to nothing kept so far has a result, whatever Similar is.        *)
(***************************************************************************)
Items == [url : BOOLEAN, says : Texts \cup {NoText}]

CrawlStates == {"queued", "fetching", "done", "raised"}

Fetched(l) == {i \in DOMAIN l.items : l.crawl[i] = "fetching"}

(* The permits that are not free are those of the pages being fetched.      *)
ResearchLoops ==
  {l \in [items : Seq(Items), permits : Nat, crawl : Seq(CrawlStates), text : Seq(Texts \cup {NoText})] :
     /\ Len(l.crawl) = Len(l.items) /\ Len(l.text) = Len(l.items)
     /\ l.permits + Cardinality(Fetched(l)) = Permits}

AllDone(l) == \A i \in DOMAIN l.items : l.crawl[i] = "done"

LEMMA DedupHasAResult ==
  ASSUME NEW l \in ResearchLoops
  PROVE  Dedup(l) \subseteq Noted(l) /\ Dedup(l) = NewAmong(l, Dedup(l))
<1> DEFINE KeptUpTo(n, kept) == kept = {i \in NewAmong(l, kept) : i <= n}
           undecided == {n \in Nat : ~\E kept \in SUBSET Noted(l) : KeptUpTo(n, kept)}
<1>1. Noted(l) \subseteq 1 .. Len(l.items) /\ Len(l.items) \in Nat
  BY DEF Noted, ResearchLoops
<1>2. 0 \notin undecided
  <2>1. KeptUpTo(0, {})
    BY <1>1 DEF NewAmong
  <2> QED  BY <2>1
<1>3. ASSUME NEW n \in Nat, n \notin undecided
      PROVE  n + 1 \notin undecided
  <2>1. PICK kept \in SUBSET Noted(l) : KeptUpTo(n, kept)
    BY <1>3
  <2> DEFINE more == kept \cup {i \in NewAmong(l, kept) : i = n + 1}
  <2>2. more \in SUBSET Noted(l)
    BY DEF NewAmong
  <2>3. \A j \in kept : j <= n
    BY <2>1
  <2>4. ASSUME NEW i \in Noted(l), i <= n + 1
        PROVE  i \in NewAmong(l, more) <=> i \in NewAmong(l, kept)
    <3>1. i \in Nat /\ \A j \in more : j < i => j \in kept
      BY <1>1, <2>4
    <3> QED  BY <3>1 DEF NewAmong
  <2>5. ASSUME NEW i \in Noted(l)
        PROVE  i \in more <=> i \in NewAmong(l, more) /\ i <= n + 1
    <3>1. i \in Nat /\ (i <= n + 1 <=> i <= n \/ i = n + 1)
      BY <1>1, <1>3
    <3>2. i \in kept <=> i \in NewAmong(l, kept) /\ i <= n
      BY <2>1
    <3>3. i \in more <=> i \in NewAmong(l, kept) /\ i <= n + 1
      BY <3>1, <3>2
    <3> QED  BY <2>4, <3>3
  <2>6. NewAmong(l, more) \subseteq Noted(l)
    BY DEF NewAmong
  <2> HIDE DEF more
  <2>7. KeptUpTo(n + 1, more)
    BY <2>2, <2>5, <2>6
  <2> HIDE DEF KeptUpTo
  <2> QED  BY <2>2, <2>7
<1>4. undecided = {}
  <2> SUFFICES ASSUME undecided # {} PROVE FALSE
    OBVIOUS
  <2>1. undecided \in SUBSET Nat
    OBVIOUS
  <2> HIDE DEF undecided
  <2>2. PICK n \in undecided : \A k \in undecided : n <= k
    BY <2>1, LeastExists
  <2>3. n \in Nat /\ n # 0
    BY <1>2, <2>1, <2>2
  <2>4. n - 1 \in Nat /\ n - 1 \notin undecided /\ (n - 1) + 1 = n
    BY <2>2, <2>3
  <2> QED  BY <1>3, <2>2, <2>4
<1>5. PICK kept \in SUBSET Noted(l) : KeptUpTo(Len(l.items), kept)
  BY <1>1, <1>4
<1>6. kept = NewAmong(l, kept)
  <2>1. NewAmong(l, kept) \subseteq 1 .. Len(l.items)
    BY <1>1 DEF NewAmong
  <2>2. \A i \in NewAmong(l, kept) : i <= Len(l.items)
    BY <1>1, <2>1
  <2> QED  BY <1>5, <2>2
<1>7. \E k \in SUBSET Noted(l) : k = NewAmong(l, k)
  BY <1>6
<1> QED  BY <1>7 DEF Dedup

(* What is found is bound to its source.                                    *)
Bound(l, notes) ==
  /\ \A n \in notes : n.claim = l.text[n.source]
  /\ \A m, n \in notes : Similar(m.claim, n.claim) => m = n
  /\ \A i \in DOMAIN l.items : l.text[i] # NoText =>
       \E n \in notes : n.source = i \/ Similar(l.text[i], n.claim)

LEMMA FindingsAreBound ==
  ASSUME NEW l \in ResearchLoops
  PROVE  Bound(l, Findings(l).notes)
<1> DEFINE kept == Dedup(l)
           notes == {[source |-> i, claim |-> l.text[i]] : i \in kept}
<1>1. kept \subseteq Noted(l) /\ kept = NewAmong(l, kept)
  BY DedupHasAResult
<1> HIDE DEF kept
<1>2. Findings(l).notes = notes
  BY DEF Findings, kept
<1>3. ASSUME NEW i \in Noted(l)
      PROVE  i \in Nat /\ l.text[i] \in Texts
  BY DEF Noted, ResearchLoops
<1>4. \A n \in notes : n.source \in kept /\ n.claim = l.text[n.source]
  OBVIOUS
<1>5. ASSUME NEW m \in notes, NEW n \in notes, Similar(m.claim, n.claim)
      PROVE  m = n
  <2>1. PICK i \in kept : m = [source |-> i, claim |-> l.text[i]]
    BY <1>5
  <2>2. PICK j \in kept : n = [source |-> j, claim |-> l.text[j]]
    BY <1>5
  <2>3. i \in Nat /\ j \in Nat /\ l.text[i] \in Texts /\ l.text[j] \in Texts
    BY <1>1, <1>3, <2>1, <2>2
  <2>4. Similar(l.text[i], l.text[j])
    BY <1>5, <2>1, <2>2
  <2>5. Similar(l.text[j], l.text[i])
    BY <2>3, <2>4, SimilarAssumption
  <2>6. ~(i < j)
    BY <1>1, <2>1, <2>2, <2>5 DEF NewAmong
  <2>7. ~(j < i)
    BY <1>1, <2>1, <2>2, <2>4 DEF NewAmong
  <2>8. i = j
    BY <2>3, <2>6, <2>7
  <2> QED  BY <2>1, <2>2, <2>8
<1>6. ASSUME NEW i \in DOMAIN l.items, l.text[i] # NoText
      PROVE  \E n \in notes : n.source = i \/ Similar(l.text[i], n.claim)
  <2>1. i \in Noted(l)
    BY <1>6 DEF Noted
  <2>2. CASE i \in kept
    <3>1. [source |-> i, claim |-> l.text[i]] \in notes
      BY <2>2
    <3> QED  BY <3>1
  <2>3. CASE i \notin kept
    <3>1. PICK j \in kept : Similar(l.text[i], l.text[j])
      BY <1>1, <2>1, <2>3 DEF NewAmong
    <3>2. [source |-> j, claim |-> l.text[j]] \in notes
      BY <3>1
    <3> QED  BY <3>1, <3>2
  <2> QED  BY <2>2, <2>3
<1> HIDE DEF notes
<1> QED  BY <1>2, <1>4, <1>5, <1>6 DEF Bound

-------------------------------------------------------------------------------
(***************************************************************************)
(* The todos of an Execution: those it has handled are done, in the order   *)
(* of the list and without a gap.                                           *)
(***************************************************************************)
ExecutionLoops ==
  [plan : Seq(Todos), todos : Seq(Todos), steps : Nat, depth : Nat, handled : Seq(Nat)]

Due(l) == {i \in DOMAIN l.plan : l.plan[i] # "done"}

InOrder(l) ==
  /\ Len(l.todos) = Len(l.plan)
  /\ \A i \in DOMAIN l.plan : l.todos[i] = IF i \in ToSet(l.handled) THEN "done" ELSE l.plan[i]
  /\ ToSet(l.handled) \subseteq Due(l)
  /\ \A j, k \in DOMAIN l.handled : j < k => l.handled[j] < l.handled[k]
  /\ \A i \in Due(l), j \in ToSet(l.handled) : i < j => i \in ToSet(l.handled)

LEMMA PendingIsTheRest ==
  ASSUME NEW l \in ExecutionLoops, InOrder(l)
  PROVE  /\ Pending(l) = Due(l) \ ToSet(l.handled)
         /\ Pending(l) \subseteq 1 .. Len(l.plan)
         /\ Pending(l) # {} => /\ First(l) \in Pending(l)
                               /\ \A j \in Pending(l) : First(l) <= j
<1>1. /\ DOMAIN l.plan = 1 .. Len(l.plan) /\ DOMAIN l.todos = 1 .. Len(l.plan) /\ Len(l.plan) \in Nat
  BY DEF ExecutionLoops, InOrder
<1>2. Pending(l) = Due(l) \ ToSet(l.handled) /\ Pending(l) \subseteq 1 .. Len(l.plan)
  BY <1>1 DEF Pending, Due, InOrder
<1>3. ASSUME Pending(l) # {}
      PROVE  \E i \in Pending(l) : \A j \in Pending(l) : i <= j
  <2>1. Pending(l) \in SUBSET Nat
    BY <1>1, <1>2
  <2> HIDE DEF Pending
  <2> QED  BY <1>3, <2>1, LeastExists
<1> QED  BY <1>2, <1>3 DEF First

LEMMA HandlingKeepsTheOrder ==
  ASSUME NEW l \in ExecutionLoops, InOrder(l), Pending(l) # {}
  PROVE  Handled(l) \in ExecutionLoops /\ InOrder(Handled(l)) /\ Handled(l).steps = l.steps
<1> DEFINE f == First(l)
           h == Append(l.handled, f)
           k == Handled(l)
<1>1. /\ f \in Due(l) /\ f \notin ToSet(l.handled) /\ f \in 1 .. Len(l.plan)
      /\ \A j \in Due(l) \ ToSet(l.handled) : f <= j
  BY PendingIsTheRest
<1> HIDE DEF f
<1>2. /\ l.plan \in Seq(Todos) /\ l.todos \in Seq(Todos) /\ l.handled \in Seq(Nat)
      /\ l.steps \in Nat /\ l.depth \in Nat
      /\ Len(l.plan) \in Nat /\ Len(l.handled) \in Nat /\ Len(l.todos) = Len(l.plan)
      /\ DOMAIN l.plan = 1 .. Len(l.plan) /\ DOMAIN l.todos = 1 .. Len(l.plan)
      /\ DOMAIN l.handled = 1 .. Len(l.handled) /\ f \in Nat
  BY <1>1 DEF ExecutionLoops, InOrder
<1>3. k = [l EXCEPT !.todos = [l.todos EXCEPT ![f] = "done"], !.handled = h]
  BY DEF Handled, Marked, f
<1>4. "done" \in Todos
  BY DEF Todos
<1>5. [l.todos EXCEPT ![f] = "done"] \in Seq(Todos) /\ Len([l.todos EXCEPT ![f] = "done"]) = Len(l.plan)
  BY <1>1, <1>2, <1>4
<1>6. /\ h \in Seq(Nat) /\ Len(h) = Len(l.handled) + 1 /\ DOMAIN h = 1 .. Len(l.handled) + 1
      /\ h[Len(l.handled) + 1] = f /\ \A i \in 1 .. Len(l.handled) : h[i] = l.handled[i]
  BY <1>2, AppendProperties
<1> HIDE DEF h
<1>7. ToSet(h) = ToSet(l.handled) \cup {f}
  <2> DEFINE n == Len(l.handled)
  <2>1. /\ n \in Nat /\ DOMAIN h = (1 .. n) \cup {n + 1} /\ DOMAIN l.handled = 1 .. n
        /\ h[n + 1] = f /\ \A i \in 1 .. n : h[i] = l.handled[i]
    <3>1. \A x \in Nat : 1 .. x + 1 = (1 .. x) \cup {x + 1}
      OBVIOUS
    <3>2. n \in Nat /\ DOMAIN h = 1 .. n + 1
      BY <1>2, <1>6
    <3> QED  BY <1>2, <1>6, <3>1, <3>2
  <2> HIDE DEF n
  <2>2. /\ ToSet(h) = {h[i] : i \in (1 .. n) \cup {n + 1}}
        /\ ToSet(l.handled) = {l.handled[i] : i \in 1 .. n}
    BY <2>1 DEF ToSet
  <2> QED  BY <2>1, <2>2
<1>8. /\ k \in ExecutionLoops
      /\ k.plan = l.plan /\ k.todos = [l.todos EXCEPT ![f] = "done"] /\ k.handled = h
      /\ k.steps = l.steps
  BY <1>2, <1>3, <1>5, <1>6 DEF ExecutionLoops
<1> HIDE DEF k
<1>9. Due(k) = Due(l)
  BY <1>8 DEF Due
<1>10. \A i \in DOMAIN k.plan : k.todos[i] = IF i \in ToSet(k.handled) THEN "done" ELSE k.plan[i]
  BY <1>1, <1>2, <1>7, <1>8 DEF InOrder
<1>11. ASSUME NEW j \in ToSet(l.handled)
       PROVE  j < f
  <2>1. j \in Due(l) /\ (f < j => f \in ToSet(l.handled))
    BY <1>1 DEF InOrder
  <2>2. j \in Nat /\ j # f /\ ~(f < j)
    BY <1>1, <1>2, <2>1 DEF Due
  <2> QED  BY <1>2, <2>2
<1>12. ASSUME NEW i \in DOMAIN h, NEW j \in DOMAIN h, i < j
       PROVE  h[i] < h[j]
  <2>1. i \in 1 .. Len(l.handled) /\ h[i] = l.handled[i]
    <3>1. i \in Nat /\ j \in Nat /\ 1 <= i /\ j <= Len(l.handled) + 1
      BY <1>2, <1>6
    <3>2. i \in 1 .. Len(l.handled)
      BY <1>2, <1>12, <3>1
    <3> QED  BY <1>6, <3>2
  <2>2. CASE j = Len(l.handled) + 1
    <3>1. l.handled[i] \in ToSet(l.handled)
      BY <1>2, <2>1 DEF ToSet
    <3> QED  BY <1>6, <1>11, <2>1, <2>2, <3>1
  <2>3. CASE j # Len(l.handled) + 1
    <3>0. j \in Nat /\ 1 <= j /\ j <= Len(l.handled) + 1
      BY <1>2, <1>6
    <3>1. j \in 1 .. Len(l.handled)
      BY <1>2, <2>3, <3>0
    <3>2. h[j] = l.handled[j]
      BY <1>6, <3>1
    <3> QED  BY <1>2, <1>12, <2>1, <3>1, <3>2 DEF InOrder
  <2> QED  BY <2>2, <2>3
<1>13. ASSUME NEW i \in Due(l), NEW j \in ToSet(h), i < j
       PROVE  i \in ToSet(h)
  <2>1. CASE j = f
    <3>1. i \in Nat /\ ~(f <= i)
      BY <1>2, <1>13, <2>1 DEF Due
    <3> QED  BY <1>1, <1>7, <3>1
  <2>2. CASE j # f
    BY <1>7, <1>13, <2>2 DEF InOrder
  <2> QED  BY <2>1, <2>2
<1>14. InOrder(k)
  BY <1>1, <1>5, <1>7, <1>8, <1>9, <1>10, <1>12, <1>13 DEF InOrder
<1> QED  BY <1>8, <1>14 DEF k


-------------------------------------------------------------------------------
(***************************************************************************)
(* A node: what it waits for, what it has counted and what it ends with fit *)
(* together, and so many spans are open as it will leave.                   *)
(***************************************************************************)
CoordinatorLoops == [iteration : Nat, planned : Nat, results : Nat, plans : Nat]

Stopped == [how : {"none", "refused", "failed", "crashed"}]
Verdicts == [how : {"returned"}, achieved : BOOLEAN, iterations : Int]
Reports == [how : {"returned"}, status : {"succeeded", "failed"}, steps : Nat]

VerdictFits(nd, l, o) ==
  /\ o.achieved => l.plans = o.iterations /\ o.iterations <= nd.maxIterations
  /\ ~o.achieved => /\ o.iterations = nd.maxIterations
                    /\ l.plans = IF nd.replan THEN o.iterations ELSE 1

CoordinatorFits(nd, p, l, o) ==
  /\ p \in {"idle", "planning", "working", "judging", "ended"}
  /\ p \in {"planning", "working", "judging"} =>
       /\ l \in CoordinatorLoops /\ o = None
       /\ l.iteration + 1 <= nd.maxIterations
       /\ ~nd.replan => l.iteration = 0
       /\ l.plans = IF p = "planning" THEN l.iteration ELSE l.iteration + 1
       /\ p = "working" => l.results < l.planned
       /\ p = "judging" => l.results = l.planned
  /\ p = "idle" => l = None /\ o = None
  /\ p = "ended" =>
       \/ l \in CoordinatorLoops \cup {None} /\ o \in Stopped
       \/ l \in CoordinatorLoops /\ o \in Verdicts /\ VerdictFits(nd, l, o)

StepLimit(nd) == IF nd.maxSteps < 0 THEN 0 ELSE nd.maxSteps

ExecutionFits(nd, p, l, o) ==
  /\ p \in {"idle", "todos", "round", "observing", "ended"}
  /\ p \in {"idle", "todos"} => l = None /\ o = None
  /\ p \in {"round", "observing"} =>
       /\ l \in ExecutionLoops /\ InOrder(l) /\ o = None
       /\ l.steps <= StepLimit(nd)
       /\ p = "observing" => Pending(l) # {}
  /\ p = "ended" =>
       /\ l \in ExecutionLoops /\ InOrder(l)
       /\ \/ o \in Stopped
          \/ /\ o \in Reports
             /\ IF o.status = "succeeded" THEN Pending(l) = {} ELSE l.steps = StepLimit(nd)

ResearchFits(p, l, o) ==
  /\ p \in {"idle", "searching", "crawling", "summarising", "ended"}
  /\ p \in {"idle", "searching"} => l = None /\ o = None
  /\ p \in {"crawling", "summarising"} => l \in ResearchLoops /\ o = None
  /\ p = "summarising" => AllDone(l)
  /\ p = "ended" =>
       \/ l \in ResearchLoops \cup {None} /\ o \in Stopped
       \/ l \in ResearchLoops /\ AllDone(l) /\ o = Findings(l)

Fits(nd, p, l, o) ==
  /\ nd.kind = "Coordinator" => CoordinatorFits(nd, p, l, o)
  /\ nd.kind = "Execution" => ExecutionFits(nd, p, l, o)
  /\ nd.kind = "Research" => ResearchFits(p, l, o)

Nested(v, p) ==
  /\ p \notin {"idle", "ended"} => v.current # NoSpan
  /\ p \in {"todos", "summarising"} => Outer(v) # NoSpan

Nodes == Coordinators \cup Executions \cup Researchers

NodesInv ==
  /\ node \in Assignments /\ node \in [Tasks -> Nodes]
  /\ pc \in [Tasks -> Waits]
  /\ loop = [t \in Tasks |-> loop[t]] /\ outcome = [t \in Tasks |-> outcome[t]]
  /\ \A t \in Tasks : Fits(node[t], pc[t], loop[t], outcome[t])

IInv == TraceInv /\ NodesInv /\ \A t \in Tasks : Nested(View(t), pc[t])

LEMMA InitHolds == Init => IInv
<1> SUFFICES ASSUME Init PROVE IInv
  OBVIOUS
<1>1. TraceInv
  BY EmptyTrace DEF Init
<1>2. node \in [Tasks -> Nodes]
  BY NodesAssumption DEF Init, Nodes
<1>3. ASSUME NEW t \in Tasks
      PROVE  Fits(node[t], pc[t], loop[t], outcome[t]) /\ Nested(View(t), pc[t])
  BY DEF Init, Fits, CoordinatorFits, ExecutionFits, ResearchFits, Nested
<1> QED  BY <1>1, <1>2, <1>3 DEF Init, IInv, NodesInv, Waits

(* Every step of a node, but those of a crawl, has this form.               *)
Moves(t, v, p, l, o) ==
  /\ Traced(t, v)
  /\ pc' = [pc EXCEPT ![t] = p]
  /\ loop' = [loop EXCEPT ![t] = l]
  /\ outcome' = [outcome EXCEPT ![t] = o]
  /\ UNCHANGED node

LEMMA GoingOnMoves ==
  ASSUME IInv, NEW t \in Tasks, NEW v, NEW p, NEW l, GoesOn(t, v, p, l)
  PROVE  Moves(t, v, p, l, outcome[t])
BY DEF IInv, NodesInv, GoesOn, Moves

LEMMA EndingMoves ==
  ASSUME IInv, NEW t \in Tasks, NEW v, NEW o, Ends(t, v, o)
  PROVE  Moves(t, v, "ended", loop[t], o)
BY DEF IInv, NodesInv, Ends, Moves

LEMMA MovesKeep ==
  ASSUME IInv, NEW t \in Tasks, NEW v, NEW p \in Waits, NEW l, NEW o, Moves(t, v, p, l, o),
         GrownFrom(View(t), v, t), Nested(v, p), Fits(node[t], p, l, o)
  PROVE  IInv'
<1>1. /\ TraceInv' /\ View(t)' = [spans |-> v.spans, current |-> v.current]
      /\ \A u \in Tasks : u # t => View(u)' = View(u)
  BY TracedKeeps DEF Moves, IInv
<1>2. v = [spans |-> v.spans, current |-> v.current]
  BY DEF GrownFrom, Tree, Views
<1>3. /\ pc' \in [Tasks -> Waits] /\ pc'[t] = p /\ loop'[t] = l /\ outcome'[t] = o
      /\ loop' = [u \in Tasks |-> loop'[u]] /\ outcome' = [u \in Tasks |-> outcome'[u]]
      /\ node' = node
      /\ \A u \in Tasks : u # t => pc'[u] = pc[u] /\ loop'[u] = loop[u] /\ outcome'[u] = outcome[u]
  BY DEF Moves, IInv, NodesInv
<1>4. NodesInv'
  BY <1>3 DEF IInv, NodesInv
<1>5. \A u \in Tasks : Nested(View(u), pc[u])'
  <2>1. ASSUME NEW u \in Tasks
        PROVE  Nested(View(u)', pc'[u])
    BY <1>1, <1>2, <1>3 DEF IInv
  <2> QED  BY <2>1 DEF Nested, Outer
<1> QED  BY <1>1, <1>4, <1>5 DEF IInv


(* The views the steps of a node begin with.                                *)
LEMMA ViewsToBeginWith ==
  ASSUME IInv, NEW t \in Tasks
  PROVE  /\ Tree(View(t), t) /\ GrownFrom(View(t), View(t), t)
         /\ pc[t] \notin {"idle", "ended"} =>
              \A status \in {"ok", "error"} :
                /\ GrownFrom(View(t), Leave(View(t), status), t)
                /\ Leave(View(t), status).current = Outer(View(t))
<1>1. Tree(View(t), t) /\ View(t) \in Views
  BY DEF IInv, TraceInv, SpansAreTrees, Tree
<1>2. Len(View(t).spans) \in Nat
  BY <1>1 DEF Views
<1>3. GrownFrom(View(t), View(t), t)
  BY <1>1, <1>2 DEF GrownFrom, Extends
<1>4. pc[t] \notin {"idle", "ended"} => View(t).current # NoSpan
  BY DEF IInv, Nested
<1> HIDE DEF View
<1> QED  BY <1>1, <1>3, <1>4, GrowsByLeaving

LEMMA CoordinatesKeeps ==
  ASSUME IInv, NEW t \in Tasks, Coordinates(t)
  PROVE  IInv'
<1> DEFINE u == View(t)
           nd == node[t]
           l == loop[t]
<1>1. /\ Tree(u, t) /\ GrownFrom(u, u, t)
      /\ pc[t] \notin {"idle", "ended"} =>
           \A status \in {"ok", "error"} : GrownFrom(u, Leave(u, status), t)
  BY ViewsToBeginWith
<1>2. /\ node[t] \in Nodes /\ Fits(node[t], pc[t], loop[t], outcome[t])
  BY DEF IInv, NodesInv
<1>3. CASE CoordinatorIsRefused(t) \/ StartCoordinator(t)
  <2>1. nd \in Coordinators /\ pc[t] = "idle" /\ l = None /\ outcome[t] = None
    BY <1>2, <1>3 DEF CoordinatorIsRefused, StartCoordinator, Awaits, Nodes, Coordinators, Executions,
         Researchers, Fits, CoordinatorFits
  <2>2. nd.kind = "Coordinator" /\ nd.maxIterations \in Int /\ nd.replan \in BOOLEAN
    BY <2>1 DEF Coordinators
  <2>3. CASE CoordinatorIsRefused(t)
    <3>1. Moves(t, u, "ended", l, [how |-> "refused"])
      BY <2>3, EndingMoves DEF CoordinatorIsRefused
    <3>2. Fits(nd, "ended", l, [how |-> "refused"])
      BY <2>1, <2>2 DEF Fits, CoordinatorFits, Stopped
    <3> QED  BY <1>1, <3>1, <3>2, MovesKeep DEF Nested, Waits
  <2>4. CASE StartCoordinator(t)
    <3> DEFINE k == [iteration |-> 0, planned |-> 0, results |-> 0, plans |-> 0]
    <3>1. Moves(t, Enter(u, t), "planning", k, None)
      BY <2>1, <2>4, GoingOnMoves DEF StartCoordinator, Asks
    <3>2. 1 <= nd.maxIterations
      <4>1. HardCap \in Nat
        BY SizesAssumption
      <4> QED  BY <2>2, <2>4, <4>1 DEF StartCoordinator
    <3>3. Fits(nd, "planning", k, None)
      BY <2>2, <3>2 DEF Fits, CoordinatorFits, CoordinatorLoops
    <3>4. GrownFrom(u, Enter(u, t), t) /\ Enter(u, t).current # NoSpan
      BY <1>1, GrowsByEntering
    <3>5. Nested(Enter(u, t), "planning")
      BY <3>4 DEF Nested
    <3> HIDE DEF k
    <3> QED  BY <3>1, <3>3, <3>4, <3>5, MovesKeep DEF Waits
  <2> QED  BY <1>3, <2>3, <2>4
<1>4. CASE pc[t] \in {"planning", "working", "judging"}
  <2>1. nd \in Coordinators
    BY <1>2, <1>4 DEF Fits, Nodes, Coordinators, Executions, Researchers, ExecutionFits, ResearchFits
  <2>2. nd.kind = "Coordinator" /\ nd.maxIterations \in Int /\ nd.replan \in BOOLEAN
    BY <2>1 DEF Coordinators
  <2>3. /\ l \in CoordinatorLoops /\ outcome[t] = None
        /\ l.iteration + 1 <= nd.maxIterations
        /\ ~nd.replan => l.iteration = 0
        /\ l.plans = IF pc[t] = "planning" THEN l.iteration ELSE l.iteration + 1
        /\ pc[t] = "working" => l.results < l.planned
        /\ pc[t] = "judging" => l.results = l.planned
    BY <1>2, <1>4, <2>2 DEF Fits, CoordinatorFits
  <2>4. /\ l = [iteration |-> l.iteration, planned |-> l.planned, results |-> l.results, plans |-> l.plans]
        /\ l.iteration \in Nat /\ l.planned \in Nat /\ l.results \in Nat /\ l.plans \in Nat
    BY <2>3 DEF CoordinatorLoops
  <2>5. ASSUME NEW s \in {"ok", "error"}
        PROVE  GrownFrom(u, Leave(u, s), t)
    BY <1>1, <1>4
  <2>6. ASSUME NEW v, NEW o \in Stopped, Ends(t, v, o), GrownFrom(u, v, t)
        PROVE  IInv'
    <3>1. Moves(t, v, "ended", l, o)
      BY <2>6, EndingMoves
    <3>2. Fits(nd, "ended", l, o)
      BY <2>2, <2>3 DEF Fits, CoordinatorFits
    <3> QED  BY <2>6, <3>1, <3>2, MovesKeep DEF Nested, Waits
  <2>7. ASSUME NEW k \in CoordinatorLoops, k.iteration = l.iteration, k.plans = l.iteration + 1,
               \/ GoesOn(t, Asks(Replied(t), t), "judging", k) /\ k.results = k.planned
               \/ Dispatches(t, Replied(t), k) /\ k.results < k.planned
        PROVE  IInv'
    <3>1. GrownFrom(u, Replied(t), t)
      BY <2>5 DEF Replied
    <3>2. CASE GoesOn(t, Asks(Replied(t), t), "judging", k) /\ k.results = k.planned
      <4>1. Moves(t, Enter(Replied(t), t), "judging", k, None)
        BY <2>3, <3>2, GoingOnMoves DEF Asks
      <4>2. GrownFrom(u, Enter(Replied(t), t), t) /\ Enter(Replied(t), t).current # NoSpan
        BY <1>1, <3>1, GrowsByEntering
      <4>3. Fits(nd, "judging", k, None)
        BY <2>2, <2>3, <2>7, <3>2 DEF Fits, CoordinatorFits
      <4>4. Nested(Enter(Replied(t), t), "judging")
        BY <4>2 DEF Nested
      <4> QED  BY <4>1, <4>2, <4>3, <4>4, MovesKeep DEF Waits
    <3>3. CASE Dispatches(t, Replied(t), k) /\ k.results < k.planned
      <4> DEFINE w == Enter(Spawned(Replied(t), t), t)
      <4>1. Moves(t, w, "working", k, None)
        BY <2>3, <3>3, GoingOnMoves DEF Asks, Dispatches
      <4>2. GrownFrom(u, Spawned(Replied(t), t), t)
        BY <1>1, <3>1, GrowsBySpawning
      <4>3. GrownFrom(u, w, t) /\ w.current # NoSpan
        BY <1>1, <4>2, GrowsByEntering
      <4>4. Fits(nd, "working", k, None)
        BY <2>2, <2>3, <2>7, <3>3 DEF Fits, CoordinatorFits
      <4>5. Nested(w, "working")
        BY <4>3 DEF Nested
      <4> HIDE DEF w
      <4> QED  BY <4>1, <4>3, <4>4, <4>5, MovesKeep DEF Waits
    <3> QED  BY <2>7, <3>2, <3>3
  <2>8. CASE SpawnFails(t)
    <3> DEFINE v == Enter(Replied(t), t)
    <3>1. GrownFrom(u, Replied(t), t)
      BY <2>5 DEF Replied
    <3>2. GrownFrom(u, v, t) /\ v.current # NoSpan
      BY <1>1, <3>1, GrowsByEntering
    <3>3. GrownFrom(u, Leave(v, "error"), t)
      BY <1>1, <3>2, GrowsByLeaving
    <3>4. [how |-> "crashed"] \in Stopped
      BY DEF Stopped
    <3> QED  BY <2>6, <2>8, <3>3, <3>4 DEF SpawnFails
  <2>9. CASE PlanArrives(t)
    <3>1. PICK n \in Plans \cup {1} :
            LET k == [l EXCEPT !.planned = n, !.results = 0, !.plans = @ + 1]
            IN  IF n = 0 THEN GoesOn(t, Asks(Replied(t), t), "judging", k)
                ELSE Dispatches(t, Replied(t), k)
      BY <2>9 DEF PlanArrives
    <3> DEFINE k == [l EXCEPT !.planned = n, !.results = 0, !.plans = @ + 1]
    <3>2. n \in Nat /\ pc[t] = "planning" /\ l.plans + 1 \in Nat
      BY <2>4, <2>9, AnswersAssumption DEF PlanArrives, Awaits
    <3>3. /\ k \in CoordinatorLoops /\ k.iteration = l.iteration /\ k.planned = n /\ k.results = 0
          /\ k.plans = l.plans + 1
      BY <2>3, <3>2 DEF CoordinatorLoops
    <3>4. IF n = 0 THEN GoesOn(t, Asks(Replied(t), t), "judging", k)
          ELSE Dispatches(t, Replied(t), k)
      BY <3>1
    <3> HIDE DEF k
    <3>5. k.plans = l.iteration + 1
      BY <2>3, <3>2, <3>3
    <3>6. n # 0 => 0 < n
      BY <3>2
    <3> QED  BY <2>7, <3>3, <3>4, <3>5, <3>6
  <2>10. CASE WorkIsDone(t)
    <3> DEFINE k == [l EXCEPT !.results = @ + 1]
    <3>1. pc[t] = "working" /\ l.results < l.planned
      BY <2>3, <2>10 DEF WorkIsDone, Awaits
    <3>2. l.results + 1 \in Nat
      BY <2>4
    <3>3. /\ k \in CoordinatorLoops /\ k.iteration = l.iteration /\ k.planned = l.planned
          /\ k.results = l.results + 1 /\ k.plans = l.plans
      BY <2>3, <3>2 DEF CoordinatorLoops
    <3>4. IF k.results = k.planned THEN GoesOn(t, Asks(Replied(t), t), "judging", k)
          ELSE Dispatches(t, Replied(t), k)
      BY <2>10 DEF WorkIsDone
    <3> HIDE DEF k
    <3>5. k.plans = l.iteration + 1
      BY <2>3, <3>1, <3>3
    <3>6. k.results # k.planned => k.results < k.planned
      BY <2>4, <3>1, <3>3
    <3> QED  BY <2>7, <3>3, <3>4, <3>5, <3>6
  <2>11. CASE ReplyIsNoObject(t) \/ CoordinatorCallFails(t)
    <3>1. [how |-> "crashed"] \in Stopped /\ [how |-> "failed"] \in Stopped
      BY DEF Stopped
    <3>2. GrownFrom(u, Replied(t), t) /\ GrownFrom(u, CallFailed(t), t)
      BY <2>5 DEF Replied, CallFailed
    <3> QED  BY <2>6, <2>11, <3>1, <3>2 DEF ReplyIsNoObject, CoordinatorCallFails, Raises
  <2>12. ASSUME Awaits(t, "judging"), NEW o \in Verdicts, Ends(t, Replied(t), o), VerdictFits(nd, l, o)
         PROVE  IInv'
    <3>1. Moves(t, Replied(t), "ended", l, o)
      BY <2>12, EndingMoves
    <3>2. Fits(nd, "ended", l, o)
      BY <2>2, <2>3, <2>12 DEF Fits, CoordinatorFits
    <3>3. GrownFrom(u, Replied(t), t)
      BY <2>5 DEF Replied
    <3> QED  BY <3>1, <3>2, <3>3, MovesKeep DEF Nested, Waits
  <2>13. CASE Achieved(t)
    <3> DEFINE o == [how |-> "returned", achieved |-> TRUE, iterations |-> l.iteration + 1]
    <3>1. pc[t] = "judging" /\ Ends(t, Replied(t), o)
      BY <2>13 DEF Achieved, Awaits
    <3>2. l.iteration + 1 \in Int /\ l.plans = l.iteration + 1
      BY <2>3, <2>4, <3>1
    <3>3. o \in Verdicts /\ o.achieved /\ o.iterations = l.iteration + 1
      BY <3>2 DEF Verdicts
    <3> HIDE DEF o
    <3>4. VerdictFits(nd, l, o)
      BY <2>3, <3>2, <3>3 DEF VerdictFits
    <3> QED  BY <2>12, <3>1, <3>3, <3>4 DEF Awaits
  <2>14. CASE NotAchieved(t)
    <3>1. pc[t] = "judging" /\ l.plans = l.iteration + 1
      BY <2>3, <2>14 DEF NotAchieved, Awaits
    <3>2. CASE nd.replan /\ IterationIsLeft(t)
      <4> DEFINE k == [l EXCEPT !.iteration = @ + 1]
      <4>1. Moves(t, Enter(Replied(t), t), "planning", k, None)
        BY <2>3, <2>14, <3>2, GoingOnMoves DEF NotAchieved, Asks
      <4>2. GrownFrom(u, Replied(t), t)
        BY <2>5 DEF Replied
      <4>3. GrownFrom(u, Enter(Replied(t), t), t) /\ Enter(Replied(t), t).current # NoSpan
        BY <1>1, <4>2, GrowsByEntering
      <4>4. l.iteration + 1 \in Nat
        BY <2>4
      <4>5. k \in CoordinatorLoops /\ k.iteration = l.iteration + 1 /\ k.plans = l.plans
        BY <2>3, <4>4 DEF CoordinatorLoops
      <4> HIDE DEF k
      <4>6. k.iteration + 1 <= nd.maxIterations
        BY <2>2, <2>4, <3>2, <4>5 DEF IterationIsLeft
      <4>7. Fits(nd, "planning", k, None)
        BY <2>2, <3>1, <3>2, <4>5, <4>6 DEF Fits, CoordinatorFits
      <4>8. Nested(Enter(Replied(t), t), "planning")
        BY <4>3 DEF Nested
      <4> QED  BY <4>1, <4>3, <4>7, <4>8, MovesKeep DEF Waits
    <3>3. CASE ~(nd.replan /\ IterationIsLeft(t))
      <4> DEFINE o == [how |-> "returned", achieved |-> FALSE, iterations |-> nd.maxIterations]
      <4>1. Ends(t, Replied(t), o)
        BY <2>14, <3>3 DEF NotAchieved
      <4>2. o \in Verdicts /\ ~o.achieved /\ o.iterations = nd.maxIterations
        BY <2>2 DEF Verdicts
      <4> HIDE DEF o
      <4>3. l.plans = IF nd.replan THEN nd.maxIterations ELSE 1
        BY <2>2, <2>3, <2>4, <3>1, <3>3 DEF IterationIsLeft
      <4>4. VerdictFits(nd, l, o)
        BY <4>2, <4>3 DEF VerdictFits
      <4> QED  BY <2>12, <3>1, <4>1, <4>2, <4>4 DEF Awaits
    <3> QED  BY <3>2, <3>3
  <2>15. ~CoordinatorIsRefused(t) /\ ~StartCoordinator(t)
    BY <1>4 DEF CoordinatorIsRefused, StartCoordinator, Awaits
  <2> QED  BY <2>8, <2>9, <2>10, <2>11, <2>13, <2>14, <2>15 DEF Coordinates
<1> QED
  <2>1. \/ CoordinatorIsRefused(t) \/ StartCoordinator(t)
        \/ pc[t] \in {"planning", "working", "judging"}
    BY DEF Coordinates, SpawnFails, PlanArrives, WorkIsDone, ReplyIsNoObject, CoordinatorCallFails,
         Achieved, NotAchieved, Awaits
  <2> QED  BY <1>3, <1>4, <2>1


LEMMA ExecutesKeeps ==
  ASSUME IInv, NEW t \in Tasks, Executes(t)
  PROVE  IInv'
<1> DEFINE u == View(t)
           nd == node[t]
           l == loop[t]
<1>1. /\ Tree(u, t) /\ GrownFrom(u, u, t)
      /\ pc[t] \notin {"idle", "ended"} =>
           \A status \in {"ok", "error"} :
             GrownFrom(u, Leave(u, status), t) /\ Leave(u, status).current = Outer(u)
  BY ViewsToBeginWith
<1>2. node[t] \in Nodes /\ Fits(node[t], pc[t], loop[t], outcome[t]) /\ Nested(u, pc[t])
  BY DEF IInv, NodesInv
<1>3. CASE StartExecution(t)
  <2>1. nd.kind = "Execution" /\ pc[t] = "idle" /\ outcome[t] = None
    BY <1>2, <1>3 DEF StartExecution, Awaits, Fits, ExecutionFits
  <2> DEFINE v == Enter(u, t)
             w == Enter(v, t)
  <2>2. Moves(t, w, "todos", None, None)
    BY <1>3, <2>1, GoingOnMoves DEF StartExecution, Asks
  <2>3. GrownFrom(u, v, t) /\ v.current # NoSpan
    BY <1>1, GrowsByEntering
  <2> HIDE DEF v
  <2>4. GrownFrom(u, w, t) /\ w.current # NoSpan /\ Outer(w) = v.current
    BY <1>1, <2>3, GrowsByEntering
  <2>5. Fits(nd, "todos", None, None)
    BY <2>1 DEF Fits, ExecutionFits
  <2>6. Nested(w, "todos")
    BY <2>3, <2>4 DEF Nested
  <2> HIDE DEF w
  <2> QED  BY <2>2, <2>4, <2>5, <2>6, MovesKeep DEF Waits
<1>4. CASE pc[t] \in {"todos", "round", "observing"}
  <2>1. nd.kind = "Execution" /\ nd.maxSteps \in Int
    BY <1>2, <1>4 DEF Fits, Nodes, Coordinators, Executions, Researchers, CoordinatorFits, ResearchFits
  <2>2. u.current # NoSpan /\ (pc[t] = "todos" => Outer(u) # NoSpan)
    BY <1>2, <1>4 DEF Nested
  <2>3. /\ GrownFrom(u, Replied(t), t) /\ Replied(t).current = Outer(u)
        /\ GrownFrom(u, CallFailed(t), t) /\ CallFailed(t).current = Outer(u)
    BY <1>1, <1>4 DEF Replied, CallFailed
  <2>4. outcome[t] = None
    BY <1>2, <1>4, <2>1 DEF Fits, ExecutionFits
  <2>5. pc[t] # "todos" => /\ l \in ExecutionLoops /\ InOrder(l) /\ l.steps <= StepLimit(nd)
                           /\ pc[t] = "observing" => Pending(l) # {}
    BY <1>2, <1>4, <2>1 DEF Fits, ExecutionFits
  <2>6. StepLimit(nd) \in Int /\ StepLimit(nd) >= nd.maxSteps
    BY <2>1 DEF StepLimit
  <2>7. ASSUME NEW k \in ExecutionLoops, InOrder(k), k.steps <= StepLimit(nd),
               NEW v, GrownFrom(u, v, t), v.current # NoSpan, NEW p \in {"round", "observing"},
               p = "observing" => Pending(k) # {}, GoesOn(t, v, p, k)
        PROVE  IInv'
    <3>1. Moves(t, v, p, k, None)
      BY <2>4, <2>7, GoingOnMoves
    <3>2. Fits(nd, p, k, None)
      BY <2>1, <2>7 DEF Fits, ExecutionFits
    <3>3. Nested(v, p) /\ p \in Waits
      BY <2>7 DEF Nested, Waits
    <3> QED  BY <2>7, <3>1, <3>2, <3>3, MovesKeep
  <2>8. ASSUME NEW k \in ExecutionLoops, InOrder(k), NEW o \in Reports,
               IF o.status = "succeeded" THEN Pending(k) = {} ELSE k.steps = StepLimit(nd),
               Moves(t, Replied(t), "ended", k, o)
        PROVE  IInv'
    <3>1. Fits(nd, "ended", k, o)
      BY <2>1, <2>8 DEF Fits, ExecutionFits
    <3> QED  BY <2>3, <2>8, <3>1, MovesKeep DEF Nested, Waits
  <2>9. CASE TodosArrive(t)
    <3>1. ASSUME NEW todos \in Seq(Todos)
          PROVE  /\ Execution(todos) \in ExecutionLoops /\ InOrder(Execution(todos))
                 /\ Execution(todos).steps = 0
      <4> DEFINE e == Execution(todos)
      <4>1. /\ e.plan = todos /\ e.todos = todos /\ e.handled = <<>> /\ e.steps = 0
            /\ e \in ExecutionLoops
        BY DEF Execution, ExecutionLoops
      <4> HIDE DEF e
      <4>2. ToSet(e.handled) = {} /\ DOMAIN e.handled = {}
        BY <4>1 DEF ToSet
      <4>3. InOrder(e)
        BY <4>1, <4>2 DEF InOrder
      <4> QED  BY <4>1, <4>3 DEF e
    <3>2. 0 <= StepLimit(nd) /\ pc[t] = "todos" /\ <<"step">> \in Seq(Todos)
      BY <2>1, <2>9 DEF StepLimit, TodosArrive, Awaits, Todos
    <3>3. PICK v \in {Replied(t), CallFailed(t)}, todos \in Seq(Todos) :
            GoesOn(t, v, "round", Execution(todos))
      BY <2>9, <3>2, AnswersAssumption DEF TodosArrive
    <3> QED  BY <2>2, <2>3, <2>7, <3>1, <3>2, <3>3
  <2>10. CASE OutOfSteps(t)
    <3> DEFINE o == [how |-> "returned", status |-> "failed", steps |-> l.steps]
    <3>1. pc[t] = "round" /\ l.steps >= nd.maxSteps /\ Moves(t, Replied(t), "ended", l, o)
      BY <2>10, EndingMoves DEF OutOfSteps, Finalize, Awaits
    <3>2. l.steps \in Nat
      BY <2>5, <3>1 DEF ExecutionLoops
    <3>3. l.steps = StepLimit(nd)
      BY <2>1, <2>5, <3>1, <3>2 DEF StepLimit
    <3>4. o \in Reports /\ o.status = "failed"
      BY <3>2 DEF Reports
    <3> HIDE DEF o
    <3> QED  BY <2>5, <2>8, <3>1, <3>3, <3>4
  <2>11. ASSUME Round(t)
         PROVE  /\ Counted(t) \in ExecutionLoops /\ InOrder(Counted(t))
                /\ Pending(Counted(t)) = Pending(l) /\ Counted(t).steps <= StepLimit(nd)
                /\ Counted(t).depth = l.depth
    <3> DEFINE c == Counted(t)
    <3>1. pc[t] = "round" /\ l.steps < nd.maxSteps /\ l \in ExecutionLoops
      BY <2>5, <2>11 DEF Round, Awaits
    <3>2. l.steps \in Nat /\ l.steps + 1 \in Nat
      BY <3>1 DEF ExecutionLoops
    <3>3. /\ c.plan = l.plan /\ c.todos = l.todos /\ c.handled = l.handled
          /\ c.steps = l.steps + 1 /\ c.depth = l.depth /\ c \in ExecutionLoops
      BY <3>1, <3>2 DEF Counted, ExecutionLoops
    <3> HIDE DEF c
    <3>4. InOrder(c) /\ Pending(c) = Pending(l)
      BY <2>5, <3>1, <3>3 DEF InOrder, Due, Pending
    <3>5. c.steps <= StepLimit(nd)
      BY <2>1, <3>1, <3>2, <3>3 DEF StepLimit
    <3> QED  BY <3>3, <3>4, <3>5 DEF c
  <2>12. CASE NothingPending(t)
    <3> DEFINE o == [how |-> "returned", status |-> "succeeded", steps |-> Counted(t).steps]
    <3>1. Round(t) /\ Pending(l) = {} /\ Moves(t, Replied(t), "ended", l, o)
      BY <2>12, EndingMoves DEF NothingPending, Finalize
    <3>2. Counted(t).steps \in Nat
      BY <2>11, <3>1 DEF ExecutionLoops
    <3>3. o \in Reports /\ o.status = "succeeded"
      BY <3>2 DEF Reports
    <3>4. pc[t] = "round"
      BY <3>1 DEF Round, Awaits
    <3> HIDE DEF o
    <3> QED  BY <2>5, <2>8, <3>1, <3>3, <3>4
  <2>13. CASE Delegate(t)
    <3>1. Round(t) /\ Pending(l) # {} /\ pc[t] = "round"
      BY <2>13 DEF Delegate, Round, Awaits
    <3> DEFINE h == Handled(Counted(t))
               k == [h EXCEPT !.depth = @ + 1]
    <3>2. h \in ExecutionLoops /\ InOrder(h) /\ h.steps <= StepLimit(nd)
      BY <2>11, <3>1, HandlingKeepsTheOrder
    <3>3. CASE GoesOn(t, Spawned(u, t), "round", k)
      <4> HIDE DEF h
      <4>1. h.depth + 1 \in Nat
        BY <3>2 DEF ExecutionLoops
      <4>2. /\ k \in ExecutionLoops /\ k.plan = h.plan /\ k.todos = h.todos
            /\ k.handled = h.handled /\ k.steps = h.steps
        BY <3>2, <4>1 DEF ExecutionLoops
      <4> HIDE DEF k
      <4>3. InOrder(k)
        BY <3>2, <4>2 DEF InOrder, Due
      <4>4. GrownFrom(u, Spawned(u, t), t) /\ Spawned(u, t).current # NoSpan
        BY <1>1, <2>2, GrowsBySpawning
      <4> QED  BY <2>7, <3>2, <3>3, <4>2, <4>3, <4>4
    <3>4. CASE Ends(t, Unwound(Enter(u, t)), [how |-> "crashed"])
      <4>1. Moves(t, Unwound(Enter(u, t)), "ended", l, [how |-> "crashed"])
        BY <3>4, EndingMoves
      <4>2. GrownFrom(u, Enter(u, t), t)
        BY <1>1, GrowsByEntering
      <4>3. GrownFrom(u, Unwound(Enter(u, t)), t)
        BY <1>1, <4>2, GrowsByUnwinding
      <4>4. Fits(nd, "ended", l, [how |-> "crashed"])
        BY <2>1, <2>5, <3>1 DEF Fits, ExecutionFits, Stopped
      <4> QED  BY <4>1, <4>3, <4>4, MovesKeep DEF Nested, Waits
    <3> QED  BY <2>13, <3>3, <3>4 DEF Delegate
  <2>14. CASE Observe(t)
    BY <1>1, <2>2, <2>7, <2>11, <2>14 DEF Observe
  <2>15. CASE Observed(t)
    <3> DEFINE k == Handled(l)
               o == [how |-> "returned", status |-> "succeeded", steps |-> k.steps]
    <3>1. pc[t] = "observing" /\ l \in ExecutionLoops /\ InOrder(l) /\ Pending(l) # {}
      BY <2>5, <2>15 DEF Observed, Awaits
    <3>2. k \in ExecutionLoops /\ InOrder(k) /\ k.steps <= StepLimit(nd)
      BY <2>5, <3>1, HandlingKeepsTheOrder
    <3>3. \/ Pending(k) = {} /\ Moves(t, Replied(t), "ended", k, o)
          \/ GoesOn(t, u, "round", k)
      BY <2>15 DEF Observed, Moves
    <3> HIDE DEF k
    <3>4. o \in Reports /\ o.status = "succeeded"
      BY <3>2 DEF Reports, ExecutionLoops
    <3> HIDE DEF o
    <3> QED  BY <1>1, <2>2, <2>7, <2>8, <3>2, <3>3, <3>4
  <2>16. ~StartExecution(t)
    BY <1>4 DEF StartExecution, Awaits
  <2> QED  BY <2>9, <2>10, <2>12, <2>13, <2>14, <2>15, <2>16 DEF Executes
<1> QED
  <2>1. StartExecution(t) \/ pc[t] \in {"todos", "round", "observing"}
    BY DEF Executes, TodosArrive, OutOfSteps, NothingPending, Delegate, Observe, Observed, Round, Awaits
  <2> QED  BY <1>3, <1>4, <2>1


(* The crawls of a Research change its local variables only.                *)
CrawlsOn(t, k) ==
  /\ loop' = [loop EXCEPT ![t] = k]
  /\ UNCHANGED <<traceVars, node, pc, outcome>>

LEMMA CrawlingKeeps ==
  ASSUME IInv, NEW t \in Tasks, node[t].kind = "Research", loop[t] \in ResearchLoops, ~AllDone(loop[t]),
         NEW k \in ResearchLoops, CrawlsOn(t, k)
  PROVE  IInv'
<1>1. /\ node' = node /\ pc' = pc /\ outcome' = outcome /\ loop' = [u \in Tasks |-> loop'[u]]
      /\ loop'[t] = k /\ \A u \in Tasks : u # t => loop'[u] = loop[u]
  BY DEF CrawlsOn, IInv, NodesInv
<1>2. ResearchFits(pc[t], loop[t], outcome[t])
  BY DEF IInv, NodesInv, Fits
<1>3. ResearchFits(pc[t], k, outcome[t])
  <2>1. "items" \in DOMAIN loop[t] /\ "items" \notin DOMAIN None
    BY DEF ResearchLoops, None
  <2>2. loop[t] # None
    BY <2>1
  <2> QED  BY <1>2, <2>2 DEF ResearchFits
<1>4. Fits(node[t], pc[t], k, outcome[t])
  BY <1>3 DEF Fits
<1>5. NodesInv'
  <2>1. \A u \in Tasks : Fits(node'[u], pc'[u], loop'[u], outcome'[u])
    BY <1>1, <1>4 DEF IInv, NodesInv
  <2> QED  BY <1>1, <2>1 DEF IInv, NodesInv
<1>6. TraceInv' /\ \A u \in Tasks : View(u)' = View(u)
  BY DEF CrawlsOn, traceVars, IInv, TraceInv, SpansAreTrees, EndedSpansAreKept, HasEnded, View
<1>7. \A u \in Tasks : Nested(View(u), pc[u])'
  <2>1. ASSUME NEW u \in Tasks
        PROVE  Nested(View(u)', pc'[u])
    BY <1>1, <1>6 DEF IInv
  <2> QED  BY <2>1 DEF Nested, Outer
<1> QED  BY <1>5, <1>6, <1>7 DEF IInv

(* What a step of a crawl leaves is a loop of a Research again: it takes a  *)
(* permit to fetch, and gives it back when the fetch has ended.             *)
LEMMA CrawlStepsFit ==
  ASSUME NEW l \in ResearchLoops, NEW i \in DOMAIN l.items, NEW k,
         NEW state \in CrawlStates, l.crawl[i] # state,
         k \in [items : Seq(Items), permits : Int, crawl : Seq(CrawlStates),
                text : Seq(Texts \cup {NoText})],
         k.items = l.items, k.crawl = [l.crawl EXCEPT ![i] = state], Len(k.text) = Len(l.text),
         k.permits = IF l.crawl[i] = "fetching" THEN l.permits + 1
                     ELSE IF state = "fetching" THEN l.permits - 1 ELSE l.permits,
         state = "fetching" => l.permits > 0
  PROVE  k \in ResearchLoops
<1>1. /\ DOMAIN l.items = 1 .. Len(l.items) /\ DOMAIN l.crawl = 1 .. Len(l.items)
      /\ Len(l.items) \in Nat /\ l.permits \in Nat /\ Permits \in Nat
      /\ Len(l.crawl) = Len(l.items) /\ Len(l.text) = Len(l.items)
      /\ l.permits + Cardinality(Fetched(l)) = Permits
  BY SizesAssumption DEF ResearchLoops
<1>2. Len(k.crawl) = Len(k.items) /\ Len(k.text) = Len(k.items)
  BY <1>1
<1>3. IsFiniteSet(Fetched(l)) /\ Cardinality(Fetched(l)) \in Nat
  <2>1. IsFiniteSet(1 .. Len(l.items))
    <3>1. 1 \in Int /\ Len(l.items) \in Int
      BY <1>1
    <3> QED  BY <3>1, FS_Interval
  <2>2. Fetched(l) \subseteq 1 .. Len(l.items)
    BY <1>1 DEF Fetched
  <2>3. IsFiniteSet(Fetched(l))
    BY <2>1, <2>2, FS_Subset
  <2> QED  BY <2>3, FS_CardinalityType
<1>4. CASE l.crawl[i] = "fetching"
  <2>1. Fetched(k) = Fetched(l) \ {i} /\ i \in Fetched(l)
    BY <1>1, <1>4 DEF Fetched
  <2>2. Cardinality(Fetched(l) \ {i}) = Cardinality(Fetched(l)) - 1
    BY <1>3, <2>1, FS_RemoveElement
  <2>3. k.permits \in Nat /\ k.permits + Cardinality(Fetched(k)) = Permits
    BY <1>1, <1>3, <1>4, <2>1, <2>2
  <2> QED  BY <1>2, <2>3 DEF ResearchLoops
<1>5. CASE l.crawl[i] # "fetching" /\ state = "fetching"
  <2>1. Fetched(k) = Fetched(l) \cup {i} /\ i \notin Fetched(l)
    BY <1>1, <1>5 DEF Fetched
  <2>2. Cardinality(Fetched(l) \cup {i}) = Cardinality(Fetched(l)) + 1
    BY <1>3, <2>1, FS_AddElement
  <2>3. k.permits = l.permits - 1 /\ l.permits > 0
    BY <1>5
  <2>4. k.permits \in Nat
    BY <1>1, <2>3
  <2>5. Cardinality(Fetched(k)) = Cardinality(Fetched(l)) + 1
    BY <2>1, <2>2
  <2>6. k.permits + Cardinality(Fetched(k)) = Permits
    <3>1. \A a, b \in Int : (a - 1) + (b + 1) = a + b
      OBVIOUS
    <3>2. l.permits \in Int /\ Cardinality(Fetched(l)) \in Int
          /\ l.permits + Cardinality(Fetched(l)) = Permits
      BY <1>1, <1>3
    <3>3. k.permits + Cardinality(Fetched(k)) = (l.permits - 1) + (Cardinality(Fetched(l)) + 1)
      BY <2>3, <2>5
    <3> QED  BY <3>1, <3>2, <3>3
  <2> QED  BY <1>2, <2>4, <2>6 DEF ResearchLoops
<1>6. CASE l.crawl[i] # "fetching" /\ state # "fetching"
  <2>1. Fetched(k) = Fetched(l)
    BY <1>1, <1>6 DEF Fetched
  <2>2. k.permits \in Nat /\ k.permits + Cardinality(Fetched(k)) = Permits
    BY <1>1, <1>6, <2>1
  <2> QED  BY <1>2, <2>2 DEF ResearchLoops
<1> QED  BY <1>4, <1>5, <1>6

LEMMA FoundItemsFit ==
  ASSUME NEW web \in Seq(Texts \cup {NoText}), NEW kb \in Seq(Texts \cup {NoText}), NEW n \in Nat
  PROVE  LET items == Top([i \in DOMAIN web |-> [url |-> TRUE, says |-> web[i]]]
                          \o [i \in DOMAIN kb |-> [url |-> FALSE, says |-> kb[i]]], n)
         IN  [items |-> items, permits |-> Permits,
              crawl |-> [i \in DOMAIN items |-> "queued"],
              text |-> [i \in DOMAIN items |-> items[i].says]] \in ResearchLoops
<1> DEFINE a == [i \in DOMAIN web |-> [url |-> TRUE, says |-> web[i]]]
           b == [i \in DOMAIN kb |-> [url |-> FALSE, says |-> kb[i]]]
           both == a \o b
           m == IF Len(both) < n THEN Len(both) ELSE n
           items == Top(both, n)
           crawl == [i \in DOMAIN items |-> "queued"]
           text == [i \in DOMAIN items |-> items[i].says]
           k == [items |-> items, permits |-> Permits, crawl |-> crawl, text |-> text]
<1>1. a \in Seq(Items)
  <2>1. DOMAIN web = 1 .. Len(web) /\ Len(web) \in Nat
    OBVIOUS
  <2>2. \A i \in 1 .. Len(web) : [url |-> TRUE, says |-> web[i]] \in Items
    BY DEF Items
  <2> QED  BY <2>1, <2>2
<1>2. b \in Seq(Items)
  <2>1. DOMAIN kb = 1 .. Len(kb) /\ Len(kb) \in Nat
    OBVIOUS
  <2>2. \A i \in 1 .. Len(kb) : [url |-> FALSE, says |-> kb[i]] \in Items
    BY DEF Items
  <2> QED  BY <2>1, <2>2
<1> HIDE DEF a, b
<1>3. both \in Seq(Items) /\ Len(both) \in Nat
  BY <1>1, <1>2
<1> HIDE DEF both
<1>4. m \in 0 .. Len(both)
  BY <1>3
<1>5. items = SubSeq(both, 1, m)
  BY DEF Top
<1> HIDE DEF m, items
<1>6. items \in Seq(Items) /\ Len(items) \in Nat /\ DOMAIN items = 1 .. Len(items)
  <2>1. \A j \in 1 .. m : both[j] \in Items
    BY <1>3, <1>4
  <2> QED  BY <1>3, <1>4, <1>5, <2>1
<1>7. crawl \in Seq(CrawlStates) /\ Len(crawl) = Len(items)
  BY <1>6 DEF CrawlStates
<1>8. text \in Seq(Texts \cup {NoText}) /\ Len(text) = Len(items)
  <2>0. ASSUME NEW i \in 1 .. Len(items)
        PROVE  items[i].says \in Texts \cup {NoText}
    <3>1. items[i] \in Items
      BY <1>6
    <3> QED  BY <3>1 DEF Items
  <2>1. \A i \in 1 .. Len(items) : items[i].says \in Texts \cup {NoText}
    BY <2>0
  <2> QED  BY <1>6, <2>1
<1>9. Permits \in Nat
  BY SizesAssumption
<1> HIDE DEF crawl, text
<1>10. /\ k \in [items : Seq(Items), permits : Nat, crawl : Seq(CrawlStates), text : Seq(Texts \cup {NoText})]
       /\ k.items = items /\ k.crawl = crawl /\ k.text = text /\ k.permits = Permits
  BY <1>6, <1>7, <1>8, <1>9
<1> HIDE DEF k
<1>11. Fetched(k) = {}
  BY <1>10 DEF Fetched, crawl
<1>12. k.permits + Cardinality(Fetched(k)) = Permits
  BY <1>9, <1>10, <1>11, FS_EmptySet
<1>13. k \in ResearchLoops
  BY <1>7, <1>8, <1>10, <1>12 DEF ResearchLoops
<1> QED  BY <1>13 DEF k, items, crawl, text, both, a, b

LEMMA CrawlsAreOfResearch ==
  ASSUME IInv, NEW t \in Tasks, IsCrawling(t)
  PROVE  node[t].kind = "Research" /\ loop[t] \in ResearchLoops
<1>1. node[t].kind \in {"Coordinator", "Execution", "Research"}
  BY DEF IInv, NodesInv, Nodes, Coordinators, Executions, Researchers
<1>2. /\ "crawl" \notin DOMAIN None
      /\ \A l \in CoordinatorLoops \cup ExecutionLoops : "crawl" \notin DOMAIN l
  BY DEF None, CoordinatorLoops, ExecutionLoops
<1>3. pc[t] \in Waits /\ Fits(node[t], pc[t], loop[t], outcome[t])
  BY DEF IInv, NodesInv
<1>4. "crawl" \in DOMAIN loop[t]
  BY DEF IsCrawling
<1>5. loop[t] # None /\ loop[t] \notin CoordinatorLoops /\ loop[t] \notin ExecutionLoops
  BY <1>2, <1>4
<1>6. node[t].kind = "Research"
  BY <1>1, <1>3, <1>5 DEF Fits, CoordinatorFits, ExecutionFits
<1> QED  BY <1>3, <1>5, <1>6 DEF Fits, ResearchFits


LEMMA CrawlsKeep ==
  ASSUME IInv, NEW t \in Tasks, NEW i,
         CrawlStarts(t, i) \/ CrawlReturns(t, i) \/ CrawlTimesOut(t, i) \/ CrawlRaises(t, i)
  PROVE  IInv'
<1> DEFINE l == loop[t]
           Records == [items : Seq(Items), permits : Int, crawl : Seq(CrawlStates),
                       text : Seq(Texts \cup {NoText})]
<1>1. /\ IsCrawling(t) /\ i \in DOMAIN l.items /\ l.crawl[i] # "done"
      /\ ~CrawlStarts(t, i) => l.crawl[i] = "fetching"
      /\ CrawlStarts(t, i) => l.crawl[i] = "queued" /\ l.permits > 0
  BY DEF CrawlStarts, CrawlReturns, CrawlTimesOut, CrawlRaises, Fetching
<1>2. node[t].kind = "Research" /\ l \in ResearchLoops /\ ~AllDone(l)
  BY <1>1, CrawlsAreOfResearch DEF AllDone
<1>3. /\ l \in Records /\ l.permits \in Int /\ l.text \in Seq(Texts \cup {NoText})
      /\ l.crawl \in Seq(CrawlStates) /\ l.text[i] \in Texts \cup {NoText}
      /\ i \in DOMAIN l.text /\ i \in DOMAIN l.crawl
      /\ {"fetching", "done", "raised"} \subseteq CrawlStates
  <2>1. /\ l \in [items : Seq(Items), permits : Nat, crawl : Seq(CrawlStates),
                  text : Seq(Texts \cup {NoText})]
        /\ l.permits \in Nat /\ l.text \in Seq(Texts \cup {NoText}) /\ i \in DOMAIN l.text
        /\ l.crawl \in Seq(CrawlStates) /\ i \in DOMAIN l.crawl
    BY <1>1, <1>2 DEF ResearchLoops
  <2> QED  BY <2>1 DEF CrawlStates
<1>4. ASSUME NEW k, NEW state \in {"fetching", "done", "raised"}, NEW free \in Int,
             NEW text \in Seq(Texts \cup {NoText}), Len(text) = Len(l.text),
             k = [l EXCEPT !.crawl = [l.crawl EXCEPT ![i] = state], !.permits = free, !.text = text],
             free = IF l.crawl[i] = "fetching" THEN l.permits + 1
                    ELSE IF state = "fetching" THEN l.permits - 1 ELSE l.permits,
             l.crawl[i] # state, state = "fetching" => l.permits > 0
      PROVE  k \in ResearchLoops
  <2>0. state \in CrawlStates
    BY <1>3
  <2>1. [l.crawl EXCEPT ![i] = state] \in Seq(CrawlStates)
    BY <1>3, <2>0
  <2>2. /\ k \in Records /\ k.items = l.items /\ k.crawl = [l.crawl EXCEPT ![i] = state]
        /\ k.permits = free /\ k.text = text
    BY <1>3, <1>4, <2>1
  <2> HIDE DEF l
  <2> QED  BY <1>1, <1>2, <1>3, <1>4, <2>0, <2>2, CrawlStepsFit
<1>5. ASSUME NEW k \in ResearchLoops, Crawl(t, i, k)
      PROVE  IInv'
  <2>1. CrawlsOn(t, k)
    BY <1>5 DEF Crawl, CrawlsOn
  <2> QED  BY <1>2, <1>5, <2>1, CrawlingKeeps
<1>6. CASE CrawlStarts(t, i)
  <2>1. CASE l.items[i].url
    <3> DEFINE k == [l EXCEPT !.crawl[i] = "fetching", !.permits = @ - 1]
    <3>1. l.permits - 1 \in Int
      BY <1>3
    <3>2. k = [l EXCEPT !.crawl = [l.crawl EXCEPT ![i] = "fetching"], !.permits = l.permits - 1,
                        !.text = l.text]
      BY <1>3
    <3> HIDE DEF k
    <3>3. k \in ResearchLoops
      BY <1>1, <1>3, <1>4, <1>6, <3>1, <3>2
    <3> QED  BY <1>5, <1>6, <2>1, <3>3 DEF CrawlStarts, k
  <2>2. CASE ~l.items[i].url
    <3> DEFINE k == [l EXCEPT !.crawl[i] = "done"]
    <3>1. k = [l EXCEPT !.crawl = [l.crawl EXCEPT ![i] = "done"], !.permits = l.permits, !.text = l.text]
      BY <1>3
    <3> HIDE DEF k
    <3>2. k \in ResearchLoops
      BY <1>1, <1>3, <1>4, <1>6, <3>1
    <3> QED  BY <1>5, <1>6, <2>2, <3>2 DEF CrawlStarts, k
  <2> QED  BY <2>1, <2>2
<1>7. CASE CrawlReturns(t, i)
  <2>1. PICK text \in Texts \cup {NoText} :
          Crawl(t, i, [l EXCEPT !.crawl[i] = "done", !.permits = @ + 1,
                                !.text[i] = IF text = NoText THEN @ ELSE text])
    BY <1>7 DEF CrawlReturns
  <2> DEFINE texts == [l.text EXCEPT ![i] = IF text = NoText THEN l.text[i] ELSE text]
             k == [l EXCEPT !.crawl[i] = "done", !.permits = @ + 1,
                            !.text[i] = IF text = NoText THEN @ ELSE text]
  <2>2. l.permits + 1 \in Int /\ texts \in Seq(Texts \cup {NoText}) /\ Len(texts) = Len(l.text)
    <3>1. (IF text = NoText THEN l.text[i] ELSE text) \in Texts \cup {NoText}
      BY <1>3, <2>1
    <3> QED  BY <1>3, <3>1
  <2>3. k = [l EXCEPT !.crawl = [l.crawl EXCEPT ![i] = "done"], !.permits = l.permits + 1, !.text = texts]
    BY <1>3
  <2>4. l.crawl[i] = "fetching"
    BY <1>1, <1>7 DEF CrawlReturns, Fetching
  <2> HIDE DEF k, texts
  <2>5. k \in ResearchLoops
    BY <1>4, <2>2, <2>3, <2>4
  <2> QED  BY <1>5, <2>1, <2>5 DEF k
<1>8. ASSUME NEW state \in {"done", "raised"}, l.crawl[i] = "fetching"
      PROVE  [l EXCEPT !.crawl[i] = state, !.permits = @ + 1] \in ResearchLoops
  <2> DEFINE k == [l EXCEPT !.crawl[i] = state, !.permits = @ + 1]
  <2>1. l.permits + 1 \in Int
    BY <1>3
  <2>2. k = [l EXCEPT !.crawl = [l.crawl EXCEPT ![i] = state], !.permits = l.permits + 1, !.text = l.text]
    BY <1>3
  <2> HIDE DEF k
  <2>3. k \in ResearchLoops
    BY <1>3, <1>4, <1>8, <2>1, <2>2
  <2> QED  BY <2>3 DEF k
<1>9. CASE CrawlTimesOut(t, i)
  <2>1. Crawl(t, i, [l EXCEPT !.crawl[i] = "done", !.permits = @ + 1]) /\ l.crawl[i] = "fetching"
    BY <1>9 DEF CrawlTimesOut, Fetching, Released
  <2>2. [l EXCEPT !.crawl[i] = "done", !.permits = @ + 1] \in ResearchLoops
    BY <1>8, <2>1
  <2> QED  BY <1>5, <2>1, <2>2
<1>10. CASE CrawlRaises(t, i)
  <2> DEFINE k == [l EXCEPT !.crawl[i] = "raised", !.permits = @ + 1]
  <2>1. k \in ResearchLoops
    BY <1>8, <1>10 DEF CrawlRaises, Fetching
  <2>2. loop' = [loop EXCEPT ![t] = k]
    BY <1>10 DEF CrawlRaises, IInv, NodesInv
  <2> HIDE DEF k
  <2>3. CASE pc[t] = "crawling"
    <3>1. PICK how \in {"failed", "crashed"} : Moves(t, Unwound(View(t)), "ended", k, [how |-> how])
      BY <1>10, <2>2, <2>3 DEF CrawlRaises, Awaits, Moves
    <3>2. GrownFrom(View(t), Unwound(View(t)), t)
      BY ViewsToBeginWith, GrowsByUnwinding
    <3>3. Fits(node[t], "ended", k, [how |-> how])
      BY <1>2, <2>1, <3>1 DEF Fits, ResearchFits, Stopped
    <3> QED  BY <3>1, <3>2, <3>3, MovesKeep DEF Nested, Waits
  <2>4. CASE pc[t] # "crawling"
    <3>1. CrawlsOn(t, k)
      BY <1>10, <2>2, <2>4 DEF CrawlRaises, Awaits, CrawlsOn
    <3> QED  BY <1>2, <2>1, <3>1, CrawlingKeeps
  <2> QED  BY <2>3, <2>4
<1> QED  BY <1>6, <1>7, <1>9, <1>10

LEMMA ResearchesKeeps ==
  ASSUME IInv, NEW t \in Tasks, Researches(t)
  PROVE  IInv'
<1> DEFINE u == View(t)
           nd == node[t]
           l == loop[t]
<1>1. /\ Tree(u, t) /\ GrownFrom(u, u, t)
      /\ pc[t] \notin {"idle", "ended"} =>
           \A status \in {"ok", "error"} :
             GrownFrom(u, Leave(u, status), t) /\ Leave(u, status).current = Outer(u)
  BY ViewsToBeginWith
<1>2. nd \in Nodes /\ Fits(nd, pc[t], l, outcome[t]) /\ Nested(u, pc[t])
  BY DEF IInv, NodesInv
<1>3. CASE StartResearch(t)
  <2>1. nd.kind = "Research" /\ pc[t] = "idle" /\ outcome[t] = None
    BY <1>2, <1>3 DEF StartResearch, Awaits, Fits, ResearchFits
  <2>2. Moves(t, Enter(u, t), "searching", None, None)
    BY <1>3, <2>1, GoingOnMoves DEF StartResearch
  <2>3. GrownFrom(u, Enter(u, t), t) /\ Enter(u, t).current # NoSpan
    BY <1>1, GrowsByEntering
  <2>4. Fits(nd, "searching", None, None) /\ Nested(Enter(u, t), "searching")
    BY <2>1, <2>3 DEF Fits, ResearchFits, Nested
  <2> QED  BY <2>2, <2>3, <2>4, MovesKeep DEF Waits
<1>4. CASE pc[t] \in {"searching", "crawling", "summarising"}
  <2>1. nd.kind = "Research" /\ nd \in Researchers
    BY <1>2, <1>4 DEF Fits, Nodes, Coordinators, Executions, Researchers, CoordinatorFits, ExecutionFits
  <2>2. u.current # NoSpan /\ (pc[t] = "summarising" => Outer(u) # NoSpan)
    BY <1>2, <1>4 DEF Nested
  <2>3. outcome[t] = None /\ (pc[t] = "searching" => l = None)
        /\ (pc[t] # "searching" => l \in ResearchLoops)
        /\ (pc[t] = "summarising" => AllDone(l))
    BY <1>2, <1>4, <2>1 DEF Fits, ResearchFits
  <2>4. ASSUME Raises(t, Unwound(u))
        PROVE  IInv'
    <3> PICK how \in {"failed", "crashed"} : Ends(t, Unwound(u), [how |-> how])
      BY <2>4 DEF Raises
    <3>1. Moves(t, Unwound(u), "ended", l, [how |-> how])
      BY EndingMoves
    <3>2. GrownFrom(u, Unwound(u), t)
      BY <1>1, GrowsByUnwinding
    <3>3. Fits(nd, "ended", l, [how |-> how])
      BY <1>4, <2>1, <2>3 DEF Fits, ResearchFits, Stopped
    <3> QED  BY <3>1, <3>2, <3>3, MovesKeep DEF Nested, Waits
  <2>5. ASSUME l \in ResearchLoops, AllDone(l), NEW v, GrownFrom(u, v, t), Ends(t, v, Findings(l))
        PROVE  IInv'
    <3>1. Moves(t, v, "ended", l, Findings(l))
      BY <2>5, EndingMoves
    <3>2. Fits(nd, "ended", l, Findings(l))
      BY <2>1, <2>5 DEF Fits, ResearchFits
    <3> QED  BY <2>5, <3>1, <3>2, MovesKeep DEF Nested, Waits
  <2>6. CASE SearchReturns(t)
    <3>1. PICK web \in SearchResults, kb \in IF nd.privateKb THEN SearchResults ELSE {<<>>} :
            LET items == Top([i \in DOMAIN web |-> [url |-> TRUE, says |-> web[i]]]
                             \o [i \in DOMAIN kb |-> [url |-> FALSE, says |-> kb[i]]], nd.topK)
            IN  GoesOn(t, u, "crawling",
                       [items |-> items, permits |-> Permits,
                        crawl |-> [i \in DOMAIN items |-> "queued"],
                        text |-> [i \in DOMAIN items |-> items[i].says]])
      BY <2>6 DEF SearchReturns
    <3>2. web \in Seq(Texts \cup {NoText}) /\ kb \in Seq(Texts \cup {NoText}) /\ nd.topK \in Nat
      <4>1. \A s \in SearchResults : s \in Seq(Texts \cup {NoText})
        BY AnswersAssumption
      <4>2. kb \in SearchResults \/ kb = <<>>
        OBVIOUS
      <4>3. nd.topK \in 0 .. 10
        BY <2>1 DEF Researchers
      <4>4. nd.topK \in Nat
        BY <4>3
      <4> HIDE DEF nd
      <4>5. web \in Seq(Texts \cup {NoText})
        BY <3>1, <4>1
      <4>6. <<>> \in Seq(Texts \cup {NoText})
        OBVIOUS
      <4>7. kb \in Seq(Texts \cup {NoText})
        <5>1. CASE kb = <<>>
          BY <4>6, <5>1
        <5> QED  BY <4>1, <4>2, <5>1
      <4> QED  BY <4>4, <4>5, <4>7
    <3>3. PICK k \in ResearchLoops : GoesOn(t, u, "crawling", k)
      BY <3>1, <3>2, FoundItemsFit
    <3>4. Moves(t, u, "crawling", k, None)
      BY <2>3, <3>3, GoingOnMoves
    <3>5. Fits(nd, "crawling", k, None) /\ Nested(u, "crawling")
      BY <2>1, <2>2 DEF Fits, ResearchFits, Nested
    <3> QED  BY <1>1, <3>4, <3>5, MovesKeep DEF Waits
  <2>7. CASE SearchFails(t)
    BY <2>4, <2>7 DEF SearchFails
  <2>8. CASE Gathered(t)
    <3>1. pc[t] = "crawling" /\ l \in ResearchLoops /\ AllDone(l)
      BY <2>3, <2>8 DEF Gathered, Awaits, AllDone
    <3>2. CASE Ends(t, Replied(t), Findings(l))
      BY <1>1, <2>5, <3>1, <3>2 DEF Replied
    <3>3. CASE GoesOn(t, Asks(u, t), "summarising", l)
      <4>1. Moves(t, Enter(u, t), "summarising", l, None)
        BY <2>3, <3>3, GoingOnMoves DEF Asks
      <4>2. GrownFrom(u, Enter(u, t), t) /\ Enter(u, t).current # NoSpan
            /\ Outer(Enter(u, t)) = u.current
        BY <1>1, GrowsByEntering
      <4>3. Fits(nd, "summarising", l, None) /\ Nested(Enter(u, t), "summarising")
        BY <2>1, <2>2, <3>1, <4>2 DEF Fits, ResearchFits, Nested
      <4> QED  BY <4>1, <4>2, <4>3, MovesKeep DEF Waits
    <3> QED  BY <2>8, <3>2, <3>3 DEF Gathered
  <2>9. CASE Summarised(t)
    <3>1. pc[t] = "summarising" /\ l \in ResearchLoops /\ AllDone(l)
      BY <2>3, <2>9 DEF Summarised, Awaits
    <3>2. PICK v \in {Replied(t), CallFailed(t)} : Ends(t, Leave(v, "ok"), Findings(l))
      BY <2>9 DEF Summarised
    <3>3. GrownFrom(u, v, t) /\ v.current # NoSpan
      BY <1>1, <2>2, <3>1, <3>2 DEF Replied, CallFailed
    <3>4. GrownFrom(u, Leave(v, "ok"), t)
      BY <1>1, <3>3, GrowsByLeaving
    <3> QED  BY <2>5, <3>1, <3>2, <3>4
  <2>10. ~StartResearch(t)
    BY <1>4 DEF StartResearch, Awaits
  <2> QED  BY <2>6, <2>7, <2>8, <2>9, <2>10, CrawlsKeep DEF Researches
<1>5. CASE pc[t] \notin {"idle", "searching", "crawling", "summarising"}
  BY <1>5, CrawlsKeep DEF Researches, StartResearch, SearchReturns, SearchFails, Gathered, Summarised, Awaits
<1>6. CASE pc[t] = "idle"
  BY <1>3, <1>6, CrawlsKeep DEF Researches, SearchReturns, SearchFails, Gathered, Summarised, Awaits
<1> QED  BY <1>4, <1>5, <1>6


LEMMA NextKeeps == IInv /\ [Next]_vars => IInv'
<1> SUFFICES ASSUME IInv, [Next]_vars PROVE IInv'
  OBVIOUS
<1>1. CASE HostFlushes
  <2>1. TraceInv' /\ UNCHANGED <<spans, current>> /\ UNCHANGED agentVars
    BY <1>1, FlushKeeps DEF HostFlushes, IInv
  <2>2. \A t \in Tasks : View(t)' = View(t)
    BY <2>1 DEF View
  <2>3. NodesInv'
    BY <2>1 DEF agentVars, IInv, NodesInv
  <2>4. \A t \in Tasks : Nested(View(t), pc[t])'
    <3>1. ASSUME NEW t \in Tasks
          PROVE  Nested(View(t)', pc'[t])
      BY <2>1, <2>2 DEF IInv, agentVars
    <3> QED  BY <3>1 DEF Nested, Outer
  <2> QED  BY <2>1, <2>3, <2>4 DEF IInv
<1>2. ASSUME NEW t \in Tasks, Acts(t)
      PROVE  IInv'
  BY <1>2, CoordinatesKeeps, ExecutesKeeps, ResearchesKeeps DEF Acts
<1>3. CASE UNCHANGED vars
  <2>1. UNCHANGED traceVars /\ UNCHANGED agentVars
    BY <1>3 DEF vars
  <2>2. TraceInv' /\ \A t \in Tasks : View(t)' = View(t)
    BY <2>1 DEF traceVars, IInv, TraceInv, SpansAreTrees, EndedSpansAreKept, HasEnded, View
  <2>3. NodesInv'
    BY <2>1 DEF agentVars, IInv, NodesInv
  <2>4. \A t \in Tasks : Nested(View(t), pc[t])'
    <3>1. ASSUME NEW t \in Tasks
          PROVE  Nested(View(t)', pc'[t])
      BY <2>1, <2>2 DEF IInv, agentVars
    <3> QED  BY <3>1 DEF Nested, Outer
  <2> QED  BY <2>2, <2>3, <2>4 DEF IInv
<1> QED  BY <1>1, <1>2, <1>3 DEF Next

LEMMA Invariance == Spec => []IInv
<1>1. IInv /\ [Next]_vars => IInv'
  BY NextKeeps
<1> QED  BY <1>1, InitHolds, PTL DEF Spec

-------------------------------------------------------------------------------
(* However the nodes of a host are interleaved and whatever they raise, the *)
(* spans of each task stay a tree, and the context variable names its       *)
(* innermost open span (observability/trace.py, span).                      *)
THEOREM SpansFormATree == Spec => []TraceIsATree
<1>1. IInv => TraceIsATree
  BY TreesAreTrees DEF IInv
<1> QED  BY <1>1, Invariance, PTL

(* An ended span waits for a flush, was exported once, or was lost with an  *)
(* export that broke off (flush replaces the buffer first).                 *)
THEOREM NoSpanIsSentTwice == Spec => []SpansAreExportedOnce
<1>1. IInv => SpansAreExportedOnce
  BY EndedSpansAreInOnePlace DEF IInv
<1> QED  BY <1>1, Invariance, PTL

LEMMA FittingNodesTellTheWork == IInv => OutcomesTellTheWork
<1> SUFFICES ASSUME IInv, NEW t \in Tasks
             PROVE  LET l == loop[t] o == outcome[t] IN
               /\ "plans" \in DOMAIN l =>
                    /\ pc[t] = "judging" => l.results = l.planned
                    /\ o.how = "returned" => VerdictFits(node[t], l, o)
               /\ "handled" \in DOMAIN l =>
                    /\ ToSet(l.handled) \subseteq Due(l)
                    /\ \A j, k \in DOMAIN l.handled : j < k => l.handled[j] < l.handled[k]
                    /\ \A i \in Due(l), j \in ToSet(l.handled) : i < j => i \in ToSet(l.handled)
                    /\ o.how = "returned" =>
                         IF o.status = "succeeded" THEN ToSet(l.handled) = Due(l)
                         ELSE l.steps = StepLimit(node[t])
  BY DEF OutcomesTellTheWork, VerdictFits, StepLimit, Due
<1> DEFINE l == loop[t]
           o == outcome[t]
<1>1. node[t].kind \in {"Coordinator", "Execution", "Research"} /\ pc[t] \in Waits
      /\ Fits(node[t], pc[t], l, o)
  BY DEF IInv, NodesInv, Nodes, Coordinators, Executions, Researchers
<1>2. /\ \A k \in Stopped \cup {None} : k.how # "returned"
      /\ "plans" \notin DOMAIN None /\ "handled" \notin DOMAIN None
      /\ \A k \in CoordinatorLoops : "handled" \notin DOMAIN k
      /\ \A k \in ExecutionLoops : "plans" \notin DOMAIN k
  <2>1. \A k \in Stopped \cup {None} : k.how # "returned"
    BY DEF Stopped, None
  <2>2. "plans" \notin DOMAIN None /\ "handled" \notin DOMAIN None
    BY DEF None
  <2>3. \A k \in CoordinatorLoops : "handled" \notin DOMAIN k
    BY DEF CoordinatorLoops
  <2>4. \A k \in ExecutionLoops : "plans" \notin DOMAIN k
    BY DEF ExecutionLoops
  <2> QED  BY <2>1, <2>2, <2>3, <2>4
<1>6. ASSUME NEW k \in ResearchLoops
      PROVE  "plans" \notin DOMAIN k /\ "handled" \notin DOMAIN k
  <2>1. k \in [items : Seq(Items), permits : Nat, crawl : Seq(CrawlStates), text : Seq(Texts \cup {NoText})]
    BY DEF ResearchLoops
  <2> QED  BY <2>1
<1>3. CASE node[t].kind = "Coordinator"
  <2>1. CoordinatorFits(node[t], pc[t], l, o)
    BY <1>1, <1>3 DEF Fits
  <2>2. "handled" \notin DOMAIN l
    BY <1>1, <1>2, <2>1 DEF CoordinatorFits
  <2>3. pc[t] = "judging" => l.results = l.planned
    BY <2>1 DEF CoordinatorFits
  <2>4. o.how = "returned" => VerdictFits(node[t], l, o)
    BY <1>1, <1>2, <2>1 DEF CoordinatorFits
  <2> QED  BY <2>2, <2>3, <2>4
<1>4. CASE node[t].kind = "Execution"
  <2>1. ExecutionFits(node[t], pc[t], l, o)
    BY <1>1, <1>4 DEF Fits
  <2>2. CASE l = None
    BY <1>2, <2>2
  <2>3. CASE l # None
    <3>1. l \in ExecutionLoops /\ InOrder(l)
      BY <1>1, <2>1, <2>3 DEF ExecutionFits
    <3>2. Pending(l) = Due(l) \ ToSet(l.handled) /\ ToSet(l.handled) \subseteq Due(l)
      BY <3>1, PendingIsTheRest DEF InOrder
    <3>3. o.how = "returned" => IF o.status = "succeeded" THEN Pending(l) = {}
                                ELSE l.steps = StepLimit(node[t])
      BY <1>1, <1>2, <2>1 DEF ExecutionFits
    <3>4. o.how = "returned" => IF o.status = "succeeded" THEN ToSet(l.handled) = Due(l)
                                ELSE l.steps = StepLimit(node[t])
      BY <3>2, <3>3
    <3> QED  BY <1>2, <3>1, <3>4 DEF InOrder
  <2> QED  BY <2>2, <2>3
<1>5. CASE node[t].kind = "Research"
  BY <1>1, <1>2, <1>5, <1>6 DEF Fits, ResearchFits
<1> QED  BY <1>1, <1>3, <1>4, <1>5

(* How the reports of a Coordinator and an Execution relate to what they    *)
(* did, for any limits and whatever the model answers.  A Coordinator that  *)
(* gives up reports max_iterations: the number of its plans, but for one    *)
(* that may not replan and made one (nodes/coordinator.py:67-71, and        *)
(* atoms/execution.py, run).                                                *)
THEOREM NodesReportTheirWork == Spec => []OutcomesTellTheWork
BY FittingNodesTellTheWork, Invariance, PTL

LEMMA FittingNodesBindTheirNotes == IInv => CitationsAreBound
<1> SUFFICES ASSUME IInv, NEW t \in Tasks, "notes" \in DOMAIN outcome[t]
             PROVE  Bound(loop[t], outcome[t].notes)
  BY DEF CitationsAreBound, Bound
<1>1. node[t].kind \in {"Coordinator", "Execution", "Research"} /\ pc[t] \in Waits
      /\ Fits(node[t], pc[t], loop[t], outcome[t])
  BY DEF IInv, NodesInv, Nodes, Coordinators, Executions, Researchers
<1>2. \A o \in Stopped \cup Verdicts \cup Reports \cup {None} : "notes" \notin DOMAIN o
  BY DEF Stopped, Verdicts, Reports, None
<1>3. outcome[t] \notin Stopped \cup Verdicts \cup Reports \cup {None}
  BY <1>2
<1>4. loop[t] \in ResearchLoops /\ outcome[t] = Findings(loop[t])
  <2>1. node[t].kind = "Research" /\ ResearchFits(pc[t], loop[t], outcome[t])
    BY <1>1, <1>3 DEF Fits, CoordinatorFits, ExecutionFits, Waits
  <2> QED  BY <1>3, <2>1 DEF ResearchFits
<1> QED  BY <1>4, FindingsAreBound

(* The notes a Research returns quote the pages they name, none twice, and  *)
(* nothing it found is missing, for any symmetric similarity                *)
(* (atoms/research.py, _take_notes and _dedup).                             *)
THEOREM NotesQuoteTheirSources == Spec => []CitationsAreBound
BY FittingNodesBindTheirNotes, Invariance, PTL


(* A Research never fetches more pages at a time than its semaphore has     *)
(* permits, also when its crawls go on after one of them has raised.        *)
FetchesAreLimited == \A t \in Tasks : IsCrawling(t) => Cardinality(Fetched(loop[t])) \in 0 .. Permits

LEMMA PermitsAreGivenBack ==
  ASSUME IInv, NEW t \in Tasks, IsCrawling(t)
  PROVE  loop[t].permits \in 0 .. Permits /\ Cardinality(Fetched(loop[t])) \in 0 .. Permits
<1> DEFINE l == loop[t]
           c == Cardinality(Fetched(l))
<1>1. l \in ResearchLoops
  BY CrawlsAreOfResearch
<1>2. /\ l.permits \in Nat /\ l.permits + c = Permits /\ Permits \in Nat
      /\ DOMAIN l.items = 1 .. Len(l.items) /\ Len(l.items) \in Int
  BY <1>1, SizesAssumption DEF ResearchLoops
<1>3. c \in Nat
  <2>1. IsFiniteSet(1 .. Len(l.items))
    <3>1. 1 \in Int /\ Len(l.items) \in Int
      BY <1>2
    <3> QED  BY <3>1, FS_Interval
  <2>2. Fetched(l) \subseteq 1 .. Len(l.items)
    BY <1>2 DEF Fetched
  <2>3. IsFiniteSet(Fetched(l))
    BY <2>1, <2>2, FS_Subset
  <2> QED  BY <2>3, FS_CardinalityType
<1>4. \A a, b, n \in Nat : a + b = n => a \in 0 .. n /\ b \in 0 .. n
  OBVIOUS
<1> HIDE DEF c, l
<1>5. l.permits \in 0 .. Permits /\ c \in 0 .. Permits
  BY <1>2, <1>3, <1>4
<1> QED  BY <1>5 DEF c, l

(* The permits taken and the free ones always add up: no crawl, however it  *)
(* ends, keeps one or gives one back twice (atoms/research.py, _crawl_top). *)
THEOREM CrawlsAreLimited == Spec => []FetchesAreLimited
<1>1. IInv => FetchesAreLimited
  BY PermitsAreGivenBack DEF FetchesAreLimited
<1> QED  BY <1>1, Invariance, PTL

LEMMA FittingNodesAreTyped == IInv => TypeOK
<1> SUFFICES ASSUME IInv PROVE TypeOK
  OBVIOUS
<1>1. node \in Assignments /\ pc \in [Tasks -> Waits]
  BY DEF IInv, NodesInv
<1>2. ASSUME NEW t \in Tasks
      PROVE  outcome[t].how \in {"none", "returned", "refused", "failed", "crashed"}
  <2>1. node[t].kind \in {"Coordinator", "Execution", "Research"}
    BY DEF IInv, NodesInv, Nodes, Coordinators, Executions, Researchers
  <2>2. pc[t] \in Waits /\ Fits(node[t], pc[t], loop[t], outcome[t])
    BY <1>1 DEF IInv, NodesInv
  <2>3. \/ outcome[t] \in Stopped \cup Verdicts \cup Reports \cup {None}
        \/ outcome[t] = Findings(loop[t])
    BY <2>1, <2>2 DEF Fits, CoordinatorFits, ExecutionFits, ResearchFits, Waits
  <2>4. \A o \in Stopped \cup Verdicts \cup Reports \cup {None} :
          o.how \in {"none", "returned", "refused", "failed", "crashed"}
    BY DEF Stopped, Verdicts, Reports, None
  <2>5. Findings(loop[t]).how = "returned"
    BY DEF Findings
  <2> QED  BY <2>3, <2>4, <2>5
<1>3. ASSUME NEW t \in Tasks, "permits" \in DOMAIN loop[t]
      PROVE  loop[t].permits \in 0 .. Permits
  <2>1. /\ "permits" \notin DOMAIN None
        /\ \A l \in CoordinatorLoops \cup ExecutionLoops : "permits" \notin DOMAIN l
    BY DEF None, CoordinatorLoops, ExecutionLoops
  <2>2. loop[t] # None /\ loop[t] \notin CoordinatorLoops /\ loop[t] \notin ExecutionLoops
    BY <1>3, <2>1
  <2>3. node[t].kind \in {"Coordinator", "Execution", "Research"}
    BY DEF IInv, NodesInv, Nodes, Coordinators, Executions, Researchers
  <2>4. pc[t] \in Waits /\ Fits(node[t], pc[t], loop[t], outcome[t])
    BY DEF IInv, NodesInv
  <2>5. loop[t] \in ResearchLoops
    BY <2>2, <2>3, <2>4 DEF Fits, CoordinatorFits, ExecutionFits, ResearchFits
  <2>6. loop[t] \in [items : Seq(Items), permits : Nat, crawl : Seq(CrawlStates),
                     text : Seq(Texts \cup {NoText})]
    BY <2>5 DEF ResearchLoops
  <2>7. IsCrawling(t)
    BY <2>6 DEF IsCrawling
  <2> QED  BY <2>7, PermitsAreGivenBack
<1> QED  BY <1>1, <1>2, <1>3 DEF TypeOK

(* The kinds of values the variables hold.                                  *)
THEOREM TypeCorrect == Spec => []TypeOK
BY FittingNodesAreTyped, Invariance, PTL

-------------------------------------------------------------------------------
(***************************************************************************)
(* Running down.  What a task may still have to do is a tuple of numbers:   *)
(* whether it has begun and ended, the rounds its loop may go, how far it   *)
(* is in a round, and the nodes or pages of that.  Each step of a task      *)
(* makes it smaller in lexicographic order, whatever the model answers, and *)
(* no other step changes it: an order in which nothing can fall for ever.   *)
(***************************************************************************)
Queued(l) == {i \in DOMAIN l.items : l.crawl[i] = "queued"}

CrawlsLeft(l) == 2 * Cardinality(Queued(l)) + Cardinality(Fetched(l))

Course(p) == IF p = "idle" THEN 2 ELSE IF p = "ended" THEN 0 ELSE 1

RoundsLeft(nd, p, l) ==
  IF p \in {"planning", "working", "judging"} THEN nd.maxIterations - l.iteration
  ELSE IF p = "todos" THEN StepLimit(nd) + 1
  ELSE IF p \in {"round", "observing"} THEN StepLimit(nd) - l.steps
  ELSE 0

Stage(p) ==
  IF p \in {"planning", "searching"} THEN 2
  ELSE IF p \in {"working", "crawling", "observing"} THEN 1
  ELSE 0

ItemsLeft(p, l) ==
  IF p = "working" THEN l.planned - l.results
  ELSE IF "crawl" \in DOMAIN l THEN CrawlsLeft(l)
  ELSE 0

Remains(nd, p, l) == <<Course(p), RoundsLeft(nd, p, l), Stage(p), ItemsLeft(p, l)>>

WorkLeft(t) == Remains(node[t], pc[t], loop[t])

Closer(x, y) == \E i \in 1 .. 4 : x[i] < y[i] /\ \A j \in 1 .. i - 1 : x[j] = y[j]

Progress(t) ==
  /\ flushes' = flushes
  /\ Closer(WorkLeft(t)', WorkLeft(t))
  /\ \A u \in Tasks \ {t} : WorkLeft(u)' = WorkLeft(u)

LEMMA CloserInOnePlace ==
  ASSUME NEW a, NEW b, NEW c, NEW d, NEW p, NEW q, NEW r, NEW s,
         \/ a < p
         \/ a = p /\ b < q
         \/ a = p /\ b = q /\ c < r
         \/ a = p /\ b = q /\ c = r /\ d < s
  PROVE  Closer(<<a, b, c, d>>, <<p, q, r, s>>)
<1> DEFINE x == <<a, b, c, d>>
           y == <<p, q, r, s>>
<1>1. /\ x[1] = a /\ x[2] = b /\ x[3] = c /\ x[4] = d
      /\ y[1] = p /\ y[2] = q /\ y[3] = r /\ y[4] = s
  OBVIOUS
<1>2. 1 .. 1 - 1 = {} /\ 1 .. 2 - 1 = {1} /\ 1 .. 3 - 1 = {1, 2} /\ 1 .. 4 - 1 = {1, 2, 3}
  OBVIOUS
<1> HIDE DEF x, y
<1>3. \E i \in 1 .. 4 : x[i] < y[i] /\ \A j \in 1 .. i - 1 : x[j] = y[j]
  <2>1. CASE a < p
    <3>1. x[1] < y[1] /\ \A j \in 1 .. 1 - 1 : x[j] = y[j]
      BY <1>1, <1>2, <2>1
    <3> QED  BY <3>1
  <2>2. CASE a = p /\ b < q
    <3>1. x[2] < y[2] /\ \A j \in 1 .. 2 - 1 : x[j] = y[j]
      BY <1>1, <1>2, <2>2
    <3> QED  BY <3>1
  <2>3. CASE a = p /\ b = q /\ c < r
    <3>1. x[3] < y[3] /\ \A j \in 1 .. 3 - 1 : x[j] = y[j]
      BY <1>1, <1>2, <2>3
    <3> QED  BY <3>1
  <2>4. CASE a = p /\ b = q /\ c = r /\ d < s
    <3>1. x[4] < y[4] /\ \A j \in 1 .. 4 - 1 : x[j] = y[j]
      BY <1>1, <1>2, <2>4
    <3> QED  BY <3>1
  <2> QED  BY <2>1, <2>2, <2>3, <2>4
<1> QED  BY <1>3 DEF Closer, x, y

LEMMA MovingProgresses ==
  ASSUME IInv, NEW t \in Tasks, NEW v, NEW p, NEW l, NEW o, Moves(t, v, p, l, o),
         Closer(Remains(node[t], p, l), WorkLeft(t))
  PROVE  Progress(t)
<1>1. /\ node' = node /\ flushes' = flushes /\ pc'[t] = p /\ loop'[t] = l
      /\ \A u \in Tasks \ {t} : pc'[u] = pc[u] /\ loop'[u] = loop[u]
  BY DEF Moves, Traced, IInv, NodesInv
<1> QED  BY <1>1 DEF Progress, WorkLeft

LEMMA EndingProgresses ==
  ASSUME IInv, NEW t \in Tasks, NEW v, NEW l, NEW o, Moves(t, v, "ended", l, o), pc[t] # "ended"
  PROVE  Progress(t)
<1>1. Course("ended") < Course(pc[t])
  BY DEF Course
<1>2. Closer(Remains(node[t], "ended", l), WorkLeft(t))
  BY <1>1, CloserInOnePlace DEF Remains, WorkLeft
<1> QED  BY <1>2, MovingProgresses

LEMMA StartingProgresses ==
  ASSUME IInv, NEW t \in Tasks, NEW v, NEW p, NEW l, GoesOn(t, v, p, l), pc[t] = "idle",
         p \notin {"idle", "ended"}
  PROVE  Progress(t)
<1>1. Course(p) < Course(pc[t])
  BY DEF Course
<1>2. Closer(Remains(node[t], p, l), WorkLeft(t))
  BY <1>1, CloserInOnePlace DEF Remains, WorkLeft
<1> QED  BY <1>2, GoingOnMoves, MovingProgresses

(* A node under way goes on: a round fewer, or the same round and a stage   *)
(* fewer, or the same stage and an item fewer.                              *)
LEMMA GoingOnProgresses ==
  ASSUME IInv, NEW t \in Tasks, NEW v, NEW p, NEW l, GoesOn(t, v, p, l),
         {p, pc[t]} \cap {"idle", "ended"} = {},
         \/ RoundsLeft(node[t], p, l) < RoundsLeft(node[t], pc[t], loop[t])
         \/ /\ RoundsLeft(node[t], p, l) = RoundsLeft(node[t], pc[t], loop[t])
            /\ \/ Stage(p) < Stage(pc[t])
               \/ Stage(p) = Stage(pc[t]) /\ ItemsLeft(p, l) < ItemsLeft(pc[t], loop[t])
  PROVE  Progress(t)
<1>1. Course(p) = Course(pc[t])
  BY DEF Course
<1>2. Closer(Remains(node[t], p, l), WorkLeft(t))
  BY <1>1, CloserInOnePlace DEF Remains, WorkLeft
<1> QED  BY <1>2, GoingOnMoves, MovingProgresses

LEMMA CoordinatesProgresses ==
  ASSUME IInv, NEW t \in Tasks, Coordinates(t)
  PROVE  Progress(t)
<1> DEFINE nd == node[t]
           l == loop[t]
<1>1. node[t] \in Nodes /\ Fits(node[t], pc[t], loop[t], outcome[t])
  BY DEF IInv, NodesInv
<1>2. ASSUME NEW v, NEW o, Ends(t, v, o), pc[t] # "ended"
      PROVE  Progress(t)
  BY <1>2, EndingMoves, EndingProgresses
<1>3. CASE pc[t] = "idle"
  BY <1>2, <1>3, StartingProgresses
     DEF Coordinates, Awaits, CoordinatorIsRefused, StartCoordinator, SpawnFails, PlanArrives, WorkIsDone,
         ReplyIsNoObject, CoordinatorCallFails, Achieved, NotAchieved
<1>4. CASE pc[t] \in {"planning", "working", "judging"}
  <2>1. nd \in Coordinators
    BY <1>1, <1>4 DEF Fits, Nodes, Coordinators, Executions, Researchers, ExecutionFits, ResearchFits
  <2>2. nd.kind = "Coordinator" /\ nd.maxIterations \in Int
    BY <2>1 DEF Coordinators
  <2>3. /\ l \in CoordinatorLoops
        /\ pc[t] = "working" => l.results < l.planned
    BY <1>1, <1>4, <2>2 DEF Fits, CoordinatorFits
  <2>4. /\ l = [iteration |-> l.iteration, planned |-> l.planned, results |-> l.results, plans |-> l.plans]
        /\ l.iteration \in Nat /\ l.planned \in Nat /\ l.results \in Nat /\ l.plans \in Nat
    BY <2>3 DEF CoordinatorLoops
  <2>5. RoundsLeft(nd, pc[t], l) = nd.maxIterations - l.iteration
    BY <1>4 DEF RoundsLeft
  <2>6. CASE PlanArrives(t)
    <3>1. pc[t] = "planning" /\ Stage("planning") = 2 /\ Stage("working") = 1 /\ Stage("judging") = 0
      BY <2>6 DEF PlanArrives, Awaits, Stage
    <3>2. PICK n : LET k == [l EXCEPT !.planned = n, !.results = 0, !.plans = @ + 1]
                   IN  IF n = 0 THEN GoesOn(t, Asks(Replied(t), t), "judging", k)
                       ELSE Dispatches(t, Replied(t), k)
      BY <2>6 DEF PlanArrives
    <3> DEFINE k == [l EXCEPT !.planned = n, !.results = 0, !.plans = @ + 1]
    <3>3. k.iteration = l.iteration
      BY <2>4
    <3>p. PICK p \in {"judging", "working"} : \E v : GoesOn(t, v, p, k)
      BY <3>2 DEF Dispatches
    <3>4. PICK v : GoesOn(t, v, p, k)
      BY <3>p
    <3> HIDE DEF k
    <3>5. RoundsLeft(nd, p, k) = RoundsLeft(nd, pc[t], l)
      BY <2>5, <3>3 DEF RoundsLeft
    <3>6. Stage(p) < Stage(pc[t]) /\ {p, pc[t]} \cap {"idle", "ended"} = {}
      BY <3>1
    <3> QED  BY <3>4, <3>5, <3>6, GoingOnProgresses
  <2>7. CASE WorkIsDone(t)
    <3> DEFINE k == [l EXCEPT !.results = @ + 1]
    <3>1. pc[t] = "working" /\ Stage("working") = 1 /\ Stage("judging") = 0
      BY <2>7 DEF WorkIsDone, Awaits, Stage
    <3>2. k.iteration = l.iteration /\ k.planned = l.planned /\ k.results = l.results + 1
      BY <2>4
    <3>p. PICK p \in {"judging", "working"} : \E v : GoesOn(t, v, p, k)
      BY <2>7 DEF WorkIsDone, Dispatches
    <3>3. PICK v : GoesOn(t, v, p, k)
      BY <3>p
    <3> HIDE DEF k
    <3>4. RoundsLeft(nd, p, k) = RoundsLeft(nd, pc[t], l)
      BY <2>5, <3>2 DEF RoundsLeft
    <3>5. p = "working" => ItemsLeft(p, k) < ItemsLeft(pc[t], l)
      BY <2>4, <3>1, <3>2 DEF ItemsLeft
    <3>6. {p, pc[t]} \cap {"idle", "ended"} = {} /\ (Stage(p) < Stage(pc[t]) \/ p = pc[t])
      BY <3>1
    <3> QED  BY <3>1, <3>3, <3>4, <3>5, <3>6, GoingOnProgresses
  <2>8. CASE NotAchieved(t)
    <3> DEFINE k == [l EXCEPT !.iteration = @ + 1]
    <3>1. pc[t] = "judging" /\ k.iteration = l.iteration + 1
      BY <2>4, <2>8 DEF NotAchieved, Awaits
    <3>2. CASE GoesOn(t, Asks(Replied(t), t), "planning", k)
      <4> HIDE DEF k
      <4>1. RoundsLeft(nd, "planning", k) < RoundsLeft(nd, pc[t], l)
        <5>1. RoundsLeft(nd, "planning", k) = nd.maxIterations - (l.iteration + 1)
          BY <3>1 DEF RoundsLeft
        <5> QED  BY <2>2, <2>4, <2>5, <5>1
      <4> QED  BY <3>1, <3>2, <4>1, GoingOnProgresses
    <3> QED  BY <1>2, <2>8, <3>1, <3>2 DEF NotAchieved
  <2> QED  BY <1>2, <1>4, <2>6, <2>7, <2>8
           DEF Coordinates, Awaits, CoordinatorIsRefused, StartCoordinator, SpawnFails,
               ReplyIsNoObject, CoordinatorCallFails, Raises, Achieved
<1> QED  BY <1>3, <1>4 DEF Coordinates, Awaits, CoordinatorIsRefused, StartCoordinator, SpawnFails,
            PlanArrives, WorkIsDone, ReplyIsNoObject, CoordinatorCallFails, Achieved, NotAchieved

LEMMA ExecutesProgresses ==
  ASSUME IInv, NEW t \in Tasks, Executes(t)
  PROVE  Progress(t)
<1> DEFINE nd == node[t]
           l == loop[t]
<1>1. node[t] \in Nodes /\ Fits(node[t], pc[t], loop[t], outcome[t])
  BY DEF IInv, NodesInv
<1>2. ASSUME NEW v, NEW o, Ends(t, v, o), pc[t] # "ended"
      PROVE  Progress(t)
  BY <1>2, EndingMoves, EndingProgresses
<1>3. CASE StartExecution(t)
  BY <1>3, StartingProgresses DEF StartExecution, Awaits
<1>4. CASE pc[t] \in {"todos", "round", "observing"}
  <2>1. nd.kind = "Execution" /\ nd.maxSteps \in Int
    BY <1>1, <1>4 DEF Fits, Nodes, Coordinators, Executions, Researchers, CoordinatorFits, ResearchFits
  <2>2. pc[t] # "todos" => l \in ExecutionLoops /\ l.steps \in Nat /\ InOrder(l)
    BY <1>1, <1>4, <2>1 DEF Fits, ExecutionFits, ExecutionLoops
  <2>3. StepLimit(nd) \in Nat
    BY <2>1 DEF StepLimit
  <2>4. ASSUME NEW v, NEW p \in {"round", "observing"}, NEW k, GoesOn(t, v, p, k),
               k.steps = l.steps + 1, pc[t] = "round"
        PROVE  Progress(t)
    <3>1. /\ RoundsLeft(nd, p, k) = StepLimit(nd) - (l.steps + 1)
          /\ RoundsLeft(nd, pc[t], l) = StepLimit(nd) - l.steps
      BY <2>4 DEF RoundsLeft
    <3>2. RoundsLeft(nd, p, k) < RoundsLeft(nd, pc[t], l)
      BY <2>2, <2>3, <2>4, <3>1
    <3> QED  BY <2>4, <3>2, GoingOnProgresses
  <2>5. CASE TodosArrive(t)
    <3>1. PICK v, todos : GoesOn(t, v, "round", Execution(todos))
      BY <2>5 DEF TodosArrive
    <3>2. pc[t] = "todos" /\ Execution(todos).steps = 0
      BY <2>5 DEF TodosArrive, Awaits, Execution
    <3>3. /\ RoundsLeft(nd, "round", Execution(todos)) = StepLimit(nd)
          /\ RoundsLeft(nd, pc[t], l) = StepLimit(nd) + 1
      BY <2>3, <3>2 DEF RoundsLeft
    <3> QED  BY <2>3, <3>1, <3>2, <3>3, GoingOnProgresses
  <2>6. ASSUME NEW k \in ExecutionLoops
        PROVE  /\ Handled(k).steps = k.steps
               /\ [Handled(k) EXCEPT !.depth = @ + 1].steps = k.steps
    BY DEF Handled, ExecutionLoops
  <2>7. Round(t) => pc[t] = "round" /\ Counted(t) \in ExecutionLoops /\ Counted(t).steps = l.steps + 1
    <3> SUFFICES ASSUME Round(t)
                 PROVE  pc[t] = "round" /\ Counted(t) \in ExecutionLoops /\ Counted(t).steps = l.steps + 1
      OBVIOUS
    <3>1. pc[t] = "round" /\ l \in ExecutionLoops /\ l.steps + 1 \in Nat
      BY <2>2 DEF Round, Awaits
    <3> QED  BY <3>1 DEF Counted, ExecutionLoops
  <2>8. CASE Delegate(t)
    BY <1>2, <2>4, <2>6, <2>7, <2>8 DEF Delegate
  <2>9. CASE Observe(t)
    BY <2>4, <2>7, <2>9 DEF Observe
  <2>10. CASE Observed(t)
    <3>1. pc[t] = "observing" /\ Handled(l).steps = l.steps
      BY <2>2, <2>6, <2>10 DEF Observed, Awaits
    <3>2. CASE GoesOn(t, View(t), "round", Handled(l))
      <4>1. RoundsLeft(nd, "round", Handled(l)) = RoundsLeft(nd, pc[t], l)
        BY <3>1 DEF RoundsLeft
      <4>2. Stage("round") < Stage(pc[t])
        BY <3>1 DEF Stage
      <4> QED  BY <3>1, <3>2, <4>1, <4>2, GoingOnProgresses
    <3>3. CASE ~GoesOn(t, View(t), "round", Handled(l))
      <4>1. PICK v, k, o : Moves(t, v, "ended", k, o)
        BY <2>10, <3>3 DEF Observed, Moves
      <4> QED  BY <3>1, <4>1, EndingProgresses
    <3> QED  BY <3>2, <3>3
  <2> QED  BY <1>2, <1>3, <1>4, <2>5, <2>7, <2>8, <2>9, <2>10
           DEF Executes, OutOfSteps, NothingPending, Finalize
<1> QED
  <2>1. StartExecution(t) \/ pc[t] \in {"todos", "round", "observing"}
    BY DEF Executes, TodosArrive, OutOfSteps, NothingPending, Delegate, Observe, Observed, Round, Awaits
  <2> QED  BY <1>3, <1>4, <2>1

LEMMA CrawlsAreCounted ==
  ASSUME NEW l \in ResearchLoops
  PROVE  /\ IsFiniteSet(Queued(l)) /\ IsFiniteSet(Fetched(l))
         /\ Cardinality(Queued(l)) \in Nat /\ Cardinality(Fetched(l)) \in Nat
         /\ CrawlsLeft(l) \in Nat
<1>1. 1 \in Int /\ Len(l.items) \in Int /\ DOMAIN l.items = 1 .. Len(l.items)
  BY DEF ResearchLoops
<1>2. IsFiniteSet(1 .. Len(l.items))
  BY <1>1, FS_Interval
<1>3. Queued(l) \subseteq 1 .. Len(l.items) /\ Fetched(l) \subseteq 1 .. Len(l.items)
  BY <1>1 DEF Queued, Fetched
<1>4. IsFiniteSet(Queued(l)) /\ IsFiniteSet(Fetched(l))
  BY <1>2, <1>3, FS_Subset
<1>5. Cardinality(Queued(l)) \in Nat /\ Cardinality(Fetched(l)) \in Nat
  BY <1>4, FS_CardinalityType
<1> QED  BY <1>4, <1>5 DEF CrawlsLeft

(* A crawl that begins to fetch counts for one instead of two, and one that *)
(* ends for nothing.                                                        *)
LEMMA CrawlingCountsDown ==
  ASSUME NEW l \in ResearchLoops, NEW i \in DOMAIN l.items, NEW k, NEW state,
         k.items = l.items, k.crawl = [l.crawl EXCEPT ![i] = state],
         \/ l.crawl[i] = "queued" /\ state \in {"fetching", "done"}
         \/ l.crawl[i] = "fetching" /\ state \in {"done", "raised"}
  PROVE  CrawlsLeft(k) < CrawlsLeft(l)
<1> DEFINE q == Cardinality(Queued(l))
           f == Cardinality(Fetched(l))
<1>1. /\ IsFiniteSet(Queued(l)) /\ IsFiniteSet(Fetched(l)) /\ q \in Nat /\ f \in Nat
  BY CrawlsAreCounted
<1>2. DOMAIN l.crawl = DOMAIN l.items
  BY DEF ResearchLoops
<1>3. CASE l.crawl[i] = "fetching"
  <2>1. Queued(k) = Queued(l) /\ Fetched(k) = Fetched(l) \ {i} /\ i \in Fetched(l)
    BY <1>2, <1>3 DEF Queued, Fetched
  <2>2. Cardinality(Fetched(k)) = f - 1
    BY <1>1, <2>1, FS_RemoveElement
  <2>3. Cardinality(Queued(k)) = q
    BY <2>1
  <2> HIDE DEF q, f
  <2>4. 2 * q + (f - 1) < 2 * q + f
    BY <1>1
  <2> QED  BY <2>2, <2>3, <2>4 DEF CrawlsLeft, q, f
<1>4. CASE l.crawl[i] = "queued"
  <2>1. Queued(k) = Queued(l) \ {i} /\ i \in Queued(l)
    BY <1>2, <1>4 DEF Queued
  <2>2. Cardinality(Queued(k)) = q - 1
    BY <1>1, <2>1, FS_RemoveElement
  <2>3. Cardinality(Fetched(k)) = f \/ Cardinality(Fetched(k)) = f + 1
    <3>1. i \notin Fetched(l) /\ (Fetched(k) = Fetched(l) \/ Fetched(k) = Fetched(l) \cup {i})
      BY <1>2, <1>4 DEF Fetched
    <3> QED  BY <1>1, <3>1, FS_AddElement
  <2> HIDE DEF q, f
  <2>4. 2 * (q - 1) + f < 2 * q + f /\ 2 * (q - 1) + (f + 1) < 2 * q + f
    BY <1>1
  <2> QED  BY <2>2, <2>3, <2>4 DEF CrawlsLeft, q, f
<1> QED  BY <1>3, <1>4

(* A crawl that does not raise changes its own state.                       *)
LEMMA CrawlsChangeTheirState ==
  ASSUME IInv, NEW t \in Tasks, NEW i,
         CrawlStarts(t, i) \/ CrawlReturns(t, i) \/ CrawlTimesOut(t, i)
  PROVE  \E k, state :
           /\ CrawlsOn(t, k) /\ k.items = loop[t].items /\ "crawl" \in DOMAIN k
           /\ k.crawl = [loop[t].crawl EXCEPT ![i] = state]
           /\ \/ loop[t].crawl[i] = "queued" /\ state \in {"fetching", "done"}
              \/ loop[t].crawl[i] = "fetching" /\ state = "done"
<1> DEFINE l == loop[t]
           Changed(k, state) ==
             /\ k.items = l.items /\ "crawl" \in DOMAIN k /\ k.crawl = [l.crawl EXCEPT ![i] = state]
<1>1. IsCrawling(t)
  BY DEF CrawlStarts, CrawlReturns, CrawlTimesOut, Fetching
<1>2. l \in [items : Seq(Items), permits : Nat, crawl : Seq(CrawlStates), text : Seq(Texts \cup {NoText})]
  BY <1>1, CrawlsAreOfResearch DEF ResearchLoops
<1>3. ASSUME NEW k, Crawl(t, i, k)
      PROVE  CrawlsOn(t, k)
  BY <1>3 DEF Crawl, CrawlsOn
<1>4. CASE CrawlStarts(t, i)
  <2> DEFINE f == [l EXCEPT !.crawl[i] = "fetching", !.permits = @ - 1]
             d == [l EXCEPT !.crawl[i] = "done"]
  <2>1. Changed(f, "fetching") /\ Changed(d, "done")
    BY <1>2
  <2>2. l.crawl[i] = "queued" /\ (Crawl(t, i, f) \/ Crawl(t, i, d))
    BY <1>4 DEF CrawlStarts
  <2> HIDE DEF f, d
  <2> QED  BY <1>3, <2>1, <2>2
<1>5. CASE CrawlReturns(t, i)
  <2>1. PICK text : Crawl(t, i, [l EXCEPT !.crawl[i] = "done", !.permits = @ + 1,
                                          !.text[i] = IF text = NoText THEN @ ELSE text])
    BY <1>5 DEF CrawlReturns
  <2> DEFINE k == [l EXCEPT !.crawl[i] = "done", !.permits = @ + 1,
                            !.text[i] = IF text = NoText THEN @ ELSE text]
  <2>2. Changed(k, "done") /\ l.crawl[i] = "fetching"
    BY <1>2, <1>5 DEF CrawlReturns, Fetching
  <2> HIDE DEF k
  <2>3. Crawl(t, i, k)
    BY <2>1 DEF k
  <2> QED  BY <1>3, <2>2, <2>3
<1>6. CASE CrawlTimesOut(t, i)
  <2> DEFINE k == [l EXCEPT !.crawl[i] = "done", !.permits = @ + 1]
  <2>1. Changed(k, "done") /\ l.crawl[i] = "fetching" /\ Crawl(t, i, k)
    BY <1>2, <1>6 DEF CrawlTimesOut, Fetching, Released
  <2> HIDE DEF k
  <2> QED  BY <1>3, <2>1
<1> QED  BY <1>4, <1>5, <1>6

LEMMA CrawlsProgress ==
  ASSUME IInv, NEW t \in Tasks, NEW i,
         CrawlStarts(t, i) \/ CrawlReturns(t, i) \/ CrawlTimesOut(t, i) \/ CrawlRaises(t, i)
  PROVE  Progress(t)
<1> DEFINE l == loop[t]
<1>1. /\ IsCrawling(t) /\ i \in DOMAIN l.items
      /\ ~CrawlStarts(t, i) => l.crawl[i] = "fetching"
      /\ CrawlStarts(t, i) => l.crawl[i] = "queued"
  BY DEF CrawlStarts, CrawlReturns, CrawlTimesOut, CrawlRaises, Fetching
<1>2. node[t].kind = "Research" /\ l \in ResearchLoops
  BY <1>1, CrawlsAreOfResearch
<1>3. "crawl" \in DOMAIN l /\ l \in [items : Seq(Items), permits : Nat, crawl : Seq(CrawlStates),
                                     text : Seq(Texts \cup {NoText})]
  BY <1>1, <1>2 DEF IsCrawling, ResearchLoops
<1>4. pc[t] \in {"crawling", "summarising", "ended"}
  <2>1. "crawl" \notin DOMAIN None
    BY DEF None
  <2>2. ResearchFits(pc[t], l, outcome[t])
    BY <1>2 DEF IInv, NodesInv, Fits
  <2> QED  BY <1>3, <2>1, <2>2 DEF ResearchFits
<1>5. ASSUME NEW k, "crawl" \in DOMAIN k, CrawlsLeft(k) < CrawlsLeft(l), CrawlsOn(t, k)
      PROVE  Progress(t)
  <2>1. ItemsLeft(pc[t], k) < ItemsLeft(pc[t], l)
    BY <1>3, <1>4, <1>5 DEF ItemsLeft
  <2>2. RoundsLeft(node[t], pc[t], k) = RoundsLeft(node[t], pc[t], l)
    BY <1>4 DEF RoundsLeft
  <2>3. Closer(Remains(node[t], pc[t], k), WorkLeft(t))
    BY <2>1, <2>2, CloserInOnePlace DEF Remains, WorkLeft
  <2>4. /\ node' = node /\ pc' = pc /\ flushes' = flushes /\ loop'[t] = k
        /\ \A u \in Tasks \ {t} : loop'[u] = loop[u]
    BY <1>5 DEF CrawlsOn, traceVars, IInv, NodesInv
  <2> QED  BY <2>3, <2>4 DEF Progress, WorkLeft
<1>6. CASE CrawlStarts(t, i) \/ CrawlReturns(t, i) \/ CrawlTimesOut(t, i)
  <2>1. PICK k, state : /\ CrawlsOn(t, k) /\ k.items = l.items /\ "crawl" \in DOMAIN k
                        /\ k.crawl = [l.crawl EXCEPT ![i] = state]
                        /\ \/ l.crawl[i] = "queued" /\ state \in {"fetching", "done"}
                           \/ l.crawl[i] = "fetching" /\ state = "done"
    BY <1>6, CrawlsChangeTheirState
  <2> QED  BY <1>1, <1>2, <1>5, <2>1, CrawlingCountsDown
<1>7. CASE CrawlRaises(t, i)
  <2> DEFINE k == [l EXCEPT !.crawl[i] = "raised", !.permits = @ + 1]
  <2>1. k.items = l.items /\ k.crawl = [l.crawl EXCEPT ![i] = "raised"] /\ "crawl" \in DOMAIN k
    BY <1>3
  <2>2. loop' = [loop EXCEPT ![t] = k] /\ l.crawl[i] = "fetching"
    BY <1>7 DEF CrawlRaises, Fetching, IInv, NodesInv
  <2> HIDE DEF k
  <2>3. CASE pc[t] = "crawling"
    <3>1. PICK how \in {"failed", "crashed"} : Moves(t, Unwound(View(t)), "ended", k, [how |-> how])
      BY <1>7, <2>2, <2>3 DEF CrawlRaises, Awaits, Moves
    <3> QED  BY <2>3, <3>1, EndingProgresses
  <2>4. CASE pc[t] # "crawling"
    <3>1. CrawlsOn(t, k)
      BY <1>7, <2>2, <2>4 DEF CrawlRaises, Awaits, CrawlsOn
    <3> QED  BY <1>1, <1>2, <1>5, <2>1, <2>2, <3>1, CrawlingCountsDown
  <2> QED  BY <2>3, <2>4
<1> QED  BY <1>6, <1>7

LEMMA ResearchesProgresses ==
  ASSUME IInv, NEW t \in Tasks, Researches(t)
  PROVE  Progress(t)
<1>1. ASSUME NEW v, NEW o, Ends(t, v, o), pc[t] # "ended"
      PROVE  Progress(t)
  BY <1>1, EndingMoves, EndingProgresses
<1>2. ASSUME NEW v, NEW p, NEW l, GoesOn(t, v, p, l),
             \/ pc[t] = "searching" /\ p = "crawling"
             \/ pc[t] = "crawling" /\ p = "summarising"
      PROVE  Progress(t)
  <2>1. RoundsLeft(node[t], p, l) = 0 /\ RoundsLeft(node[t], pc[t], loop[t]) = 0
    BY <1>2 DEF RoundsLeft
  <2>2. Stage(p) < Stage(pc[t])
    BY <1>2 DEF Stage
  <2> QED  BY <1>2, <2>1, <2>2, GoingOnProgresses
<1>3. CASE StartResearch(t)
  BY <1>3, StartingProgresses DEF StartResearch, Awaits
<1>4. CASE SearchReturns(t)
  <2>1. pc[t] = "searching" /\ \E v, l : GoesOn(t, v, "crawling", l)
    BY <1>4 DEF SearchReturns, Awaits
  <2> QED  BY <1>2, <2>1
<1>5. CASE SearchFails(t)
  BY <1>1, <1>5 DEF SearchFails, Awaits, Raises
<1>6. CASE Gathered(t)
  BY <1>1, <1>2, <1>6 DEF Gathered, Awaits
<1>7. CASE Summarised(t)
  BY <1>1, <1>7 DEF Summarised, Awaits
<1> QED  BY <1>3, <1>4, <1>5, <1>6, <1>7, CrawlsProgress DEF Researches

LEMMA NextProgresses ==
  ASSUME IInv, [Next]_vars
  PROVE  \/ UNCHANGED vars
         \/ /\ flushes' = flushes + 1 /\ flushes < MaxFlushes
            /\ \A t \in Tasks : WorkLeft(t)' = WorkLeft(t)
         \/ \E t \in Tasks : Progress(t)
<1>1. CASE HostFlushes
  BY <1>1 DEF HostFlushes, Flush, agentVars, WorkLeft
<1>2. ASSUME NEW t \in Tasks, Acts(t)
      PROVE  Progress(t)
  BY <1>2, CoordinatesProgresses, ExecutesProgresses, ResearchesProgresses DEF Acts
<1> QED  BY <1>1, <1>2 DEF Next

(* The numbers that fall are natural ones.                                  *)
WorkIsCounted == \A t \in Tasks : WorkLeft(t) \in Nat \X Nat \X Nat \X Nat

LEMMA FittingNodesAreCounted == IInv => WorkIsCounted
<1> SUFFICES ASSUME IInv, NEW t \in Tasks
             PROVE  WorkLeft(t) \in Nat \X Nat \X Nat \X Nat
  BY DEF WorkIsCounted
<1> DEFINE nd == node[t]
           p == pc[t]
           l == loop[t]
<1>1. nd \in Nodes /\ p \in Waits /\ Fits(nd, p, l, outcome[t])
  BY DEF IInv, NodesInv
<1>2. Course(p) \in Nat /\ Stage(p) \in Nat
  BY DEF Course, Stage
<1>3. CASE p \in {"planning", "working", "judging"}
  <2>1. nd.kind = "Coordinator" /\ nd.maxIterations \in Int
    BY <1>1, <1>3 DEF Fits, Nodes, Coordinators, Executions, Researchers, ExecutionFits, ResearchFits
  <2>2. /\ l \in CoordinatorLoops /\ l.iteration + 1 <= nd.maxIterations
        /\ p = "working" => l.results < l.planned
    BY <1>1, <1>3, <2>1 DEF Fits, CoordinatorFits
  <2>3. /\ l.iteration \in Nat /\ l.planned \in Nat /\ l.results \in Nat /\ "crawl" \notin DOMAIN l
    BY <2>2 DEF CoordinatorLoops
  <2>4. nd.maxIterations - l.iteration \in Nat /\ (p = "working" => l.planned - l.results \in Nat)
    BY <2>1, <2>2, <2>3
  <2> QED  BY <1>2, <1>3, <2>3, <2>4 DEF WorkLeft, Remains, RoundsLeft, ItemsLeft
<1>4. CASE p \in {"todos", "round", "observing"}
  <2>1. nd.kind = "Execution" /\ nd.maxSteps \in Int
    BY <1>1, <1>4 DEF Fits, Nodes, Coordinators, Executions, Researchers, CoordinatorFits, ResearchFits
  <2>2. /\ l = None \/ l \in ExecutionLoops
        /\ p # "todos" => l \in ExecutionLoops /\ l.steps <= StepLimit(nd)
    BY <1>1, <1>4, <2>1 DEF Fits, ExecutionFits
  <2>3. "crawl" \notin DOMAIN l /\ (p # "todos" => l.steps \in Nat) /\ StepLimit(nd) \in Nat
    <3>1. "crawl" \notin DOMAIN None
      BY DEF None
    <3>2. l \in ExecutionLoops => "crawl" \notin DOMAIN l /\ l.steps \in Nat
      BY DEF ExecutionLoops
    <3>3. StepLimit(nd) \in Nat
      BY <2>1 DEF StepLimit
    <3> QED  BY <2>2, <3>1, <3>2, <3>3
  <2>4. RoundsLeft(nd, p, l) \in Nat
    BY <1>4, <2>2, <2>3 DEF RoundsLeft
  <2> QED  BY <1>2, <1>4, <2>3, <2>4 DEF WorkLeft, Remains, ItemsLeft
<1>5. CASE p \notin {"planning", "working", "judging", "todos", "round", "observing"}
  <2>1. RoundsLeft(nd, p, l) = 0
    BY <1>5 DEF RoundsLeft
  <2>2. ItemsLeft(p, l) \in Nat
    BY <1>5, CrawlsAreOfResearch, CrawlsAreCounted DEF ItemsLeft, IsCrawling
  <2> QED  BY <1>2, <2>1, <2>2 DEF WorkLeft, Remains
<1> QED  BY <1>3, <1>4, <1>5

(* Every step is a flush, of which there are so many, or brings exactly one *)
(* task nearer to its end and no task further from it: no run of the nodes  *)
(* is longer than its limits allow, whatever plans, todo lists and pages    *)
(* they get (max_iterations, max_steps and max_depth bound the loops of     *)
(* nodes/coordinator.py and atoms/execution.py).                            *)
StepsAreProgress ==
  [][\/ /\ flushes' = flushes + 1 /\ flushes < MaxFlushes
        /\ \A t \in Tasks : WorkLeft(t)' = WorkLeft(t)
     \/ /\ flushes' = flushes
        /\ \E t \in Tasks : /\ Closer(WorkLeft(t)', WorkLeft(t))
                            /\ \A u \in Tasks \ {t} : WorkLeft(u)' = WorkLeft(u)]_vars

(* The nodes of a host run down: their work left is made of natural numbers *)
(* and falls with each of their steps.                                      *)
THEOREM NodesRunDown == Spec => []WorkIsCounted /\ StepsAreProgress
<1>1. IInv /\ [Next]_vars =>
        [\/ /\ flushes' = flushes + 1 /\ flushes < MaxFlushes
            /\ \A t \in Tasks : WorkLeft(t)' = WorkLeft(t)
         \/ /\ flushes' = flushes
            /\ \E t \in Tasks : /\ Closer(WorkLeft(t)', WorkLeft(t))
                                /\ \A u \in Tasks \ {t} : WorkLeft(u)' = WorkLeft(u)]_vars
  BY NextProgresses DEF Progress
<1> QED  BY <1>1, Invariance, FittingNodesAreCounted, PTL DEF Spec, StepsAreProgress

-------------------------------------------------------------------------------
(***************************************************************************)
(* A Research that gathers is never stuck: it has gathered all, or one of   *)
(* its crawls can go on.  None of them has raised, since the node would     *)
(* have ended with it, and they cannot all wait for a permit.               *)
(***************************************************************************)
NoneRaised == \A t \in Tasks : pc[t] = "crawling" => \A i \in DOMAIN loop[t].items : loop[t].crawl[i] # "raised"

LEMMA NoneRaisedKeeps == IInv /\ NoneRaised /\ [Next]_vars => NoneRaised'
<1> SUFFICES ASSUME IInv, NoneRaised, [Next]_vars, NEW t \in Tasks, pc'[t] = "crawling",
                    NEW i \in DOMAIN loop'[t].items
             PROVE  loop'[t].crawl[i] # "raised"
  BY DEF NoneRaised
<1>1. ASSUME pc'[t] = pc[t], loop'[t] = loop[t]
      PROVE  loop'[t].crawl[i] # "raised"
  BY <1>1 DEF NoneRaised
<1>2. ASSUME NEW s \in Tasks, NEW v, NEW p, NEW l, NEW o, Moves(s, v, p, l, o),
             s = t => p # "crawling"
      PROVE  loop'[t].crawl[i] # "raised"
  <2>1. pc'[s] = p /\ \A u \in Tasks \ {s} : pc'[u] = pc[u] /\ loop'[u] = loop[u]
    BY <1>2 DEF Moves, IInv, NodesInv
  <2> QED  BY <1>1, <1>2, <2>1
<1>3. ASSUME NEW s \in Tasks, NEW v, NEW o, Ends(s, v, o)
      PROVE  loop'[t].crawl[i] # "raised"
  BY <1>2, <1>3, EndingMoves
<1>4. ASSUME NEW s \in Tasks, NEW v, NEW p, NEW l, GoesOn(s, v, p, l), p # "crawling"
      PROVE  loop'[t].crawl[i] # "raised"
  BY <1>2, <1>4, GoingOnMoves
<1>5. ASSUME NEW s \in Tasks, Coordinates(s)
      PROVE  loop'[t].crawl[i] # "raised"
  BY <1>3, <1>4, <1>5
     DEF Coordinates, CoordinatorIsRefused, StartCoordinator, SpawnFails, PlanArrives, WorkIsDone, Dispatches,
         ReplyIsNoObject, CoordinatorCallFails, Raises, Achieved, NotAchieved
<1>6. ASSUME NEW s \in Tasks, Executes(s)
      PROVE  loop'[t].crawl[i] # "raised"
  <2>1. CASE Observed(s)
    <3>1. \/ GoesOn(s, View(s), "round", Handled(loop[s]))
          \/ \E o : Moves(s, Replied(s), "ended", Handled(loop[s]), o)
      BY <2>1 DEF Observed, Moves
    <3> QED  BY <1>2, <1>4, <3>1
  <2> QED  BY <1>3, <1>4, <1>6, <2>1
           DEF Executes, StartExecution, TodosArrive, OutOfSteps, NothingPending, Finalize, Delegate, Observe
<1>7. ASSUME NEW s \in Tasks, NEW j,
             CrawlStarts(s, j) \/ CrawlReturns(s, j) \/ CrawlTimesOut(s, j) \/ CrawlRaises(s, j)
      PROVE  loop'[t].crawl[i] # "raised"
  <2> DEFINE l == loop[s]
  <2>1. IsCrawling(s) /\ j \in DOMAIN l.items
    BY <1>7 DEF CrawlStarts, CrawlReturns, CrawlTimesOut, CrawlRaises, Fetching
  <2>2. l \in [items : Seq(Items), permits : Nat, crawl : Seq(CrawlStates), text : Seq(Texts \cup {NoText})]
        /\ DOMAIN l.crawl = DOMAIN l.items
    BY <2>1, CrawlsAreOfResearch DEF ResearchLoops
  <2>3. pc' = pc \/ (s = t => pc'[t] # "crawling")
    BY <1>7 DEF CrawlStarts, CrawlReturns, CrawlTimesOut, CrawlRaises, Crawl, IInv, NodesInv
  <2>4. s # t => pc'[t] = pc[t] /\ loop'[t] = loop[t]
    BY <1>7 DEF CrawlStarts, CrawlReturns, CrawlTimesOut, CrawlRaises, Crawl, IInv, NodesInv
  <2>5. CASE s = t /\ ~CrawlRaises(s, j)
    <3>0. CrawlStarts(s, j) \/ CrawlReturns(s, j) \/ CrawlTimesOut(s, j)
      BY <1>7, <2>5
    <3>1. PICK k, state : /\ CrawlsOn(s, k) /\ k.items = l.items /\ "crawl" \in DOMAIN k
                          /\ k.crawl = [l.crawl EXCEPT ![j] = state]
                          /\ \/ l.crawl[j] = "queued" /\ state \in {"fetching", "done"}
                             \/ l.crawl[j] = "fetching" /\ state = "done"
      BY <3>0, CrawlsChangeTheirState
    <3>2. loop'[t] = k /\ pc' = pc
      BY <2>5, <3>1 DEF CrawlsOn, IInv, NodesInv
    <3> QED  BY <2>2, <2>5, <3>1, <3>2 DEF NoneRaised
  <2>6. CASE s = t /\ CrawlRaises(s, j)
    <3>1. pc[t] = "crawling" => pc'[t] = "ended"
      BY <2>6 DEF CrawlRaises, Awaits, IInv, NodesInv
    <3>2. pc[t] # "crawling" => pc'[t] = pc[t]
      BY <2>6 DEF CrawlRaises, Awaits
    <3> QED  BY <3>1, <3>2
  <2> QED  BY <1>1, <2>4, <2>5, <2>6
<1>8. ASSUME NEW s \in Tasks, SearchReturns(s)
      PROVE  loop'[t].crawl[i] # "raised"
  <2>1. PICK items : GoesOn(s, View(s), "crawling",
                       [items |-> items, permits |-> Permits,
                        crawl |-> [j \in DOMAIN items |-> "queued"],
                        text |-> [j \in DOMAIN items |-> items[j].says]])
    BY <1>8 DEF SearchReturns
  <2>2. CASE s = t
    <3>1. loop'[t] = [items |-> items, permits |-> Permits,
                      crawl |-> [j \in DOMAIN items |-> "queued"],
                      text |-> [j \in DOMAIN items |-> items[j].says]]
      BY <2>1, <2>2 DEF GoesOn, IInv, NodesInv
    <3> QED  BY <3>1
  <2>3. CASE s # t
    BY <1>1, <2>1, <2>3 DEF GoesOn, IInv, NodesInv
  <2> QED  BY <2>2, <2>3
<1>9. ASSUME NEW s \in Tasks, Researches(s)
      PROVE  loop'[t].crawl[i] # "raised"
  BY <1>3, <1>4, <1>7, <1>8, <1>9 DEF Researches, StartResearch, SearchFails, Raises, Gathered, Summarised
<1> QED  BY <1>1, <1>5, <1>6, <1>9 DEF Next, Acts, HostFlushes, vars, agentVars

(* While a Research gathers, all its crawls are done, or one can end, or    *)
(* one can begin: no permit is lost, however crawls end.                    *)
CrawlsGoOn ==
  \A t \in Tasks : pc[t] = "crawling" =>
    \/ AllDone(loop[t])
    \/ Fetched(loop[t]) # {}
    \/ Queued(loop[t]) # {} /\ loop[t].permits > 0

LEMMA GatheringGoesOn == IInv /\ NoneRaised => CrawlsGoOn
<1> SUFFICES ASSUME IInv, NoneRaised, NEW t \in Tasks, pc[t] = "crawling",
                    ~AllDone(loop[t]), Fetched(loop[t]) = {}
             PROVE  Queued(loop[t]) # {} /\ loop[t].permits > 0
  BY DEF CrawlsGoOn
<1> DEFINE l == loop[t]
<1>1. l \in ResearchLoops
  <2>1. node[t].kind \in {"Coordinator", "Execution", "Research"} /\ Fits(node[t], pc[t], l, outcome[t])
    BY DEF IInv, NodesInv, Nodes, Coordinators, Executions, Researchers
  <2> QED  BY <2>1 DEF Fits, CoordinatorFits, ExecutionFits, ResearchFits
<1>2. /\ l.permits + Cardinality(Fetched(l)) = Permits /\ l.permits \in Nat
      /\ l.crawl \in Seq(CrawlStates) /\ DOMAIN l.crawl = DOMAIN l.items
  <2>1. /\ l.crawl \in Seq(CrawlStates) /\ l.items \in Seq(Items) /\ Len(l.crawl) = Len(l.items)
        /\ l.permits + Cardinality(Fetched(l)) = Permits /\ l.permits \in Nat
    BY <1>1 DEF ResearchLoops
  <2>2. DOMAIN l.crawl = 1 .. Len(l.crawl) /\ DOMAIN l.items = 1 .. Len(l.items)
    BY <2>1
  <2> QED  BY <2>1, <2>2
<1>3. l.permits = Permits /\ Permits > 0
  <2>1. Cardinality(Fetched(l)) = 0
    BY FS_EmptySet
  <2> QED  BY <1>2, <2>1, SizesAssumption
<1>4. PICK i \in DOMAIN l.items : l.crawl[i] # "done"
  BY DEF AllDone
<1>5. l.crawl[i] \in CrawlStates /\ l.crawl[i] # "fetching" /\ l.crawl[i] # "raised"
  BY <1>2, <1>4 DEF Fetched, NoneRaised
<1>6. i \in Queued(l)
  BY <1>4, <1>5 DEF Queued, CrawlStates
<1> QED  BY <1>3, <1>6

(* The crawls of a Research never all wait for a permit, nor its gather for *)
(* a crawl that has raised (atoms/research.py, _crawl_top).                 *)
THEOREM CrawlsNeverAllWait == Spec => []CrawlsGoOn
<1>1. Init => NoneRaised
  BY DEF Init, NoneRaised
<1> QED  BY <1>1, NoneRaisedKeeps, GatheringGoesOn, Invariance, PTL DEF Spec
===============================================================================
