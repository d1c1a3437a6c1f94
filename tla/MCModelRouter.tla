---------------------------- MODULE MCModelRouter -----------------------------
(***************************************************************************)
(* A local provider, a cloud one, and one that is named but not configured; *)
(* fallback chains that are empty, repeat the chosen model, repeat          *)
(* themselves, or name the provider that is missing.                        *)
(***************************************************************************)
EXTENDS ModelRouter, TLC

CONSTANTS c1, c2

MCCalls == {c1, c2}

Local == Model("local", "m")
Cloud == Model("cloud", "strong")
Fast  == Model("cloud", "fast")
Lost  == Model("lost", "m")

Rpm == [p \in {"cloud", "local"} |-> 1]

MCConfigs ==
  [providers : {{"local", "cloud"}, {"cloud"}}, local : {{"local"}}, privacy : {"hard", "soft"},
   chain : {<<>>, <<Cloud, Local>>, <<Cloud, Fast, Cloud>>, <<Lost, Fast>>},
   default : {Cloud}, rpm : {Rpm}]
  \cup
  [providers : {{"local", "cloud"}}, local : {{"local"}}, privacy : {"off"},
   chain : {<<Cloud, Local>>}, default : {NoModel}, rpm : {Rpm}]

Asks(role, static) ==
  [s \in ToSet(Priority) |->
     CASE s = "role" -> role [] s = "static" -> static [] OTHER -> NoModel]

MCRequests ==
  [sensitive : BOOLEAN, stream : BOOLEAN,
   proposals : {Asks(NoModel, NoModel), Asks(NoModel, Fast), Asks(Lost, Fast)}]

CallsAreAlike == Permutations(MCCalls)
===============================================================================
