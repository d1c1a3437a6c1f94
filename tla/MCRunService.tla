----------------------------- MODULE MCRunService -----------------------------
(***************************************************************************)
(* Two runs, one of them by webhook, two reviewers, who may decide on the   *)
(* same run, a client, one permit and a history of one record.              *)
(***************************************************************************)
EXTENDS RunService, TLC
===============================================================================
