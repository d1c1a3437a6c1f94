---------------------------- MODULE MCAgentLoops ------------------------------
(***************************************************************************)
(* Agent loops for TLC: a Coordinator or an Execution beside a Research or  *)
(* an Execution, with the limits that are constants in the code made small. *)
(***************************************************************************)
EXTENDS AgentLoops

Coordinator(n, replan) == [kind |-> "Coordinator", maxIterations |-> n, replan |-> replan]
ExecutionOf(n, allow) == [kind |-> "Execution", maxSteps |-> n, allowDelegate |-> allow]
Research(k, kb) == [kind |-> "Research", topK |-> k, privateKb |-> kb]

MCTasks == {"t1", "t2"}

Both(a, b) == [t \in MCTasks |-> IF t = "t1" THEN a ELSE b]

MCAssignments ==
  {Both(Coordinator(2, TRUE), ExecutionOf(1, TRUE)), Both(Coordinator(2, FALSE), Coordinator(3, TRUE)),
   Both(ExecutionOf(3, TRUE), ExecutionOf(2, FALSE)), Both(Coordinator(0, TRUE), Research(3, FALSE)),
   Both(ExecutionOf(1, TRUE), Research(2, TRUE))}

(* "x" and "z" are similar to "y", but not to each other.                   *)
MCTexts == {"x", "y", "z"}
MCSimilar(a, b) == a = b \/ "y" \in {a, b}

MCSearchResults == {<<>>, <<"x", "">>, <<"x", "y", "z">>}

MCTodoLists == {<<>>, <<"done">>, <<"step", "done", "step">>,
                <<"delegate", "step">>, <<"delegate", "delegate", "step">>}
===============================================================================
