------------------------------ MODULE MCToolBus -------------------------------
(***************************************************************************)
(* Sandboxes for TLC: two concurrent calls of every tool in each mode, and  *)
(* three calls of one limited server over the limiter's window.             *)
(***************************************************************************)
EXTENDS ToolBus

Run(mode, exec, pathFits, diskLimit, quotas, rpm, servers, calls, agents) ==
  [mode |-> mode, exec |-> exec, pathFits |-> pathFits, cpuFits |-> TRUE, diskLimit |-> diskLimit,
   quotas |-> quotas, rpm |-> rpm, servers |-> servers, calls |-> calls, agents |-> agents]

Pair == {"c1", "c2"}
MCCalls == {"c1", "c2", "c3"}
MCAgents == {"sub"}

MCConfigs ==
  {Run("local", "handle", TRUE, TRUE, TRUE, 0, Servers, Pair, MCAgents),
   Run("none", "host", TRUE, TRUE, TRUE, 0, {"code_exec"}, Pair, {}),
   Run("none", "host", TRUE, TRUE, TRUE, 1, {"http_request"}, MCCalls, {}),
   Run("docker", "unwired", TRUE, TRUE, FALSE, 0, {"code_exec"}, {"c1"}, {}),
   Run("k8s", "unwired", TRUE, TRUE, TRUE, 0, Servers, Pair, {}),
   Run("docker", "handle", FALSE, FALSE, TRUE, 0, {"code_exec"}, {"c1"}, {}),
   Run("docker", "handle", TRUE, TRUE, FALSE, 0, {"code_exec"}, Pair, {}),
   Run("docker", "handle", TRUE, TRUE, TRUE, 0, {"code_exec"}, {"c1"}, MCAgents),
   [Run("docker", "handle", TRUE, TRUE, TRUE, 0, {"code_exec"}, {"c1"}, {}) EXCEPT !.cpuFits = FALSE]}
===============================================================================
