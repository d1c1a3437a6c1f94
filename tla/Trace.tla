-------------------------------- MODULE Trace ---------------------------------
(***************************************************************************)
(* The trace exporter all runs of a Hanflow share                           *)
(* (observability/trace.py).  A context variable of each task holds its     *)
(* open span; a span that ends goes to a buffer, and flush hands the buffer *)
(* to a backend.  Exporting is synchronous in every exporter of the code,   *)
(* so a flush is one step.  No code calls flush; the host application does. *)
(* OTelTraceExporter has a span() of its own, which also enters a context   *)
(* of OpenTelemetry; it is not modelled.                                    *)
(*                                                                         *)
(* The order of the buffer is not kept: an export that breaks is taken to   *)
(* break before its first or before its last span.                          *)
(***************************************************************************)
EXTENDS Sequences, Integers

CONSTANTS
  Tasks,       \* tasks, each with a context of its own
  NoSpan,      \* the default of the context variable
  MaxFlushes   \* bound: flushes

ASSUME NoSpanAssumption == NoSpan \notin Tasks \X Nat
ASSUME FlushesAssumption == MaxFlushes \in Nat

VARIABLES
  current,   \* the context variable of each task
  spans,     \* the spans each task has opened, in order; a span is <<task, index>>
  buffer,    \* ended spans waiting for a flush
  exported,  \* spans a backend has taken
  lost,      \* spans of a batch whose export broke off
  flushes    \* flushes so far

traceVars == <<current, spans, buffer, exported, lost, flushes>>

AllSpans == UNION {{<<t, i>> : i \in DOMAIN spans[t]} : t \in Tasks}

TraceInit ==
  /\ current = [t \in Tasks |-> NoSpan]
  /\ spans = [t \in Tasks |-> <<>>]
  /\ buffer = {} /\ exported = {} /\ lost = {} /\ flushes = 0

(***************************************************************************)
(* A coroutine may enter and leave several spans between two suspensions,   *)
(* so these act on the view a task has: its spans and its open one.         *)
(***************************************************************************)
View(t) == [spans |-> spans[t], current |-> current[t]]

Enter(v, t) ==
  LET id == <<t, Len(v.spans) + 1>>
  IN  [spans |-> Append(v.spans,
                        [parent |-> v.current, status |-> "open",
                         trace |-> IF v.current = NoSpan THEN id
                                   ELSE v.spans[v.current[2]].trace]),
       current |-> id]

(* The token of the context variable gives back what was there before.      *)
Emptied(v) == NoSpan  \* mutant: the variable is emptied, not reset

Outer(v) == v.spans[v.current[2]].parent

Leave(v, status) ==
  [spans |-> [v.spans EXCEPT ![v.current[2]].status = status], current |-> Outer(v)]

(* An exception passes through every open span; no more than two nest.      *)
Left(v) == IF v.current = NoSpan THEN v ELSE Leave(v, "error")

Unwound(v) == Left(Left(v))

Traced(t, v) ==
  /\ spans' = [spans EXCEPT ![t] = v.spans]
  /\ current' = [current EXCEPT ![t] = v.current]
  /\ buffer' = buffer \cup
       {<<t, i>> : i \in {j \in DOMAIN v.spans :
          /\ v.spans[j].status # "open"
          /\ j \in DOMAIN spans[t] => spans[t][j].status = "open"}}
  /\ UNCHANGED <<exported, lost, flushes>>

(* The buffer is replaced before the batch is exported.                     *)
KeptUntilSent(sent) == IF sent = buffer THEN {} ELSE buffer  \* mutant: replaced after it

Remaining(sent) == {}

(* What a backend has taken of the buffer when its export ends or raises.   *)
Taken == {buffer, {}} \cup {buffer \ {s} : s \in buffer}

Flush ==
  /\ buffer # {} /\ flushes < MaxFlushes
  /\ flushes' = flushes + 1
  /\ \E sent \in Taken :
       /\ exported' = exported \cup sent
       /\ lost' = lost \cup (buffer \ sent)
       /\ buffer' = Remaining(sent)
  /\ UNCHANGED <<current, spans>>

-------------------------------------------------------------------------------
IsOpen(s) == spans[s[1]][s[2]].status = "open"

(* The spans of a task are a tree, whatever is raised: a span has the trace *)
(* of its parent, stays open no longer than it, and the context variable    *)
(* names the innermost span that is open.                                   *)
TraceIsATree ==
  \A t \in Tasks :
    LET open == {i \in DOMAIN spans[t] : spans[t][i].status = "open"}
    IN  /\ IF open = {} THEN current[t] = NoSpan
           ELSE current[t] = <<t, CHOOSE i \in open : \A j \in open : j <= i>>
        /\ \A i \in DOMAIN spans[t] :
             LET up == spans[t][i].parent
             IN  IF up = NoSpan THEN spans[t][i].trace = <<t, i>>
                 ELSE /\ up[1] = t /\ up[2] < i
                      /\ spans[t][i].trace = spans[t][up[2]].trace
                      /\ i \in open => up[2] \in open

(* A span that has ended is in one place: waiting, exported, or lost with   *)
(* an export that broke off; none is exported twice.                        *)
SpansAreExportedOnce ==
  /\ {s \in AllSpans : ~IsOpen(s)} = buffer \cup exported \cup lost
  /\ buffer \cap (exported \cup lost) = {} /\ exported \cap lost = {}
===============================================================================
