------------------------------- MODULE Sandbox --------------------------------
(***************************************************************************)
(* The sandbox of one run: build_sandbox (runtime/build_sandbox.py) picks a *)
(* provisioner for the configured mode, the provisioner makes the container *)
(* (isolation/docker_provisioner.py) or nothing (local_provisioner.py), and *)
(* spawn_agent (isolation/sandbox.py) gives sub-agents a directory in it.   *)
(*                                                                         *)
(* The Docker daemon is external: it answers every request, with success or *)
(* with a DockerError, and runs the container until its "sleep" ends.       *)
(***************************************************************************)
EXTENDS Naturals, FiniteSets

CONSTANTS
  Configs,  \* the sandboxes considered: mode, limits, daemon, exec wiring and path, rate limit
  Agents,   \* the sub-agents
  Calls     \* the tool calls of the run, whose executions talk to the daemon too

VARIABLES
  config,     \* the configuration of the run
  box,        \* where build_sandbox and destroy are
  quota,      \* the disk limit in the container config to be sent: config["HostConfig"]
  container,  \* the container hanflow-run-<id> at the daemon, and its disk limit
  clients,    \* who has an open Docker client
  agent       \* the sub-agents' contexts

sandboxVars == <<config, box, quota, container, clients, agent>>

Modes == {"local", "docker", "k8s", "none"}
Boxes == {"absent", "unconfigured", "creating", "starting", "ready", "failed", "destroying", "destroyed"}
Owners == {"provision", "destroy"} \cup Calls \cup Agents

ASSUME ConfigsAssumption ==
  \A run \in Configs :
    /\ run.mode \in Modes /\ run.agents \subseteq Agents
    /\ run.cpuFits \in BOOLEAN /\ run.diskLimit \in BOOLEAN /\ run.quotas \in BOOLEAN
(* Calls, sub-agents and the two operations of the sandbox have names that  *)
(* tell them apart.                                                         *)
ASSUME OwnersAssumption ==
  Calls \cap Agents = {} /\ {"provision", "destroy"} \cap (Calls \cup Agents) = {}

NoContainer == [state |-> "none", limited |-> FALSE]
AnyTool == {"any tool"}  \* tools_whitelist=None
NoContext == [state |-> "none", subdir |-> "none", tools |-> AnyTool]

SandboxTypeOK ==
  /\ config \in Configs
  /\ box \in Boxes /\ quota \in BOOLEAN
  /\ container.state \in {"none", "created", "running", "exited"}
  /\ container.limited \in BOOLEAN
  /\ clients \subseteq Owners
  /\ \A a \in Agents :
       /\ agent[a].state \in {"none", "spawning", "spawned", "failed"}
       /\ agent[a].subdir \in {"none", "host", "container"}

(* The container config: of its limits, only the disk quota is one a daemon *)
(* may not support.                                                         *)
StorageOpt(run) == run.diskLimit

SandboxInit ==
  /\ config \in Configs
  /\ box = "absent" /\ quota = StorageOpt(config)
  /\ container = NoContainer /\ clients = {}
  /\ agent = [a \in Agents |-> NoContext]

(***************************************************************************)
(* Provisioning.                                                            *)
(***************************************************************************)
(* The workspace cannot be made, there is no provisioner for k8s yet, or    *)
(* that of docker lacks its library: nothing has been opened.  In docker    *)
(* mode the client is opened before the container config is built, outside  *)
(* the try whose finally closes it: a cpu_limit, which is a string, that    *)
(* float() refuses (config.cpuFits) leaves it open.                         *)
BuildSandbox ==
  /\ box = "absent"
  /\ \/ /\ config.mode \in {"local", "none"}
        /\ box' = "ready" /\ UNCHANGED clients
     \/ /\ box' = "failed" /\ UNCHANGED clients
     \/ /\ config.mode = "docker"
        /\ box' = IF config.cpuFits THEN "creating" ELSE "unconfigured"
        /\ clients' = clients \cup {"provision"}
  /\ UNCHANGED <<config, quota, container, agent>>

(* create_or_replace; a driver without quotas refuses a config that has one. *)
CreateContainer ==
  /\ box = "creating" /\ (quota => config.quotas)
  /\ container' = [state |-> "created", limited |-> quota]
  /\ box' = "starting"
  /\ UNCHANGED <<config, quota, clients, agent>>

StartContainer ==
  /\ box = "starting"
  /\ container' = [container EXCEPT !.state = "running"]
  /\ box' = "ready" /\ clients' = clients \ {"provision"}
  /\ UNCHANGED <<config, quota, agent>>

RetryWithoutQuota ==
  /\ box' = "creating" /\ quota' = FALSE
  /\ UNCHANGED <<config, container, clients, agent>>

KeepClientOnError ==  \* mutant: the client is closed on success only
  /\ box' = "failed" /\ UNCHANGED <<clients, config, quota, container, agent>>

(* SandboxProvisionFailedError; what was created stays.                     *)
ProvisionFails ==
  /\ box' = "failed" /\ clients' = clients \ {"provision"}
  /\ UNCHANGED <<config, quota, container, agent>>

AnyErrorDropsQuota == box = "creating" /\ quota /\ RetryWithoutQuota  \* mutant: no look at the error

QuotaRefused == box = "creating" /\ quota /\ ~config.quotas /\ RetryWithoutQuota

DaemonRefuses ==
  /\ box \in {"creating", "starting"}
  /\ ProvisionFails

(* The container's command, sleep <timeout_seconds>, ends.                  *)
ContainerExits ==
  /\ container.state = "running"
  /\ container' = [container EXCEPT !.state = "exited"]

(***************************************************************************)
(* destroy(), which only the owner of a provisioned sandbox calls: nothing  *)
(* in Hanflow.run does.                                                     *)
(***************************************************************************)
Destroy ==
  /\ box = "ready"
  /\ IF config.mode = "docker"
     THEN box' = "destroying" /\ clients' = clients \cup {"destroy"}
     ELSE UNCHANGED <<box, clients>>
  /\ UNCHANGED <<config, quota, container, agent>>

DestroyEnds ==
  /\ box = "destroying" /\ clients' = clients \ {"destroy"}
  /\ \/ box' = "destroyed" /\ container' = NoContainer
     \/ \* SandboxDestroyFailedError, before or after the kill; the handle can be tried again
        /\ box' = "ready"
        /\ container' \in {container, [container EXCEPT !.state = "exited"]}
  /\ UNCHANGED <<config, quota, agent>>

(***************************************************************************)
(* spawn_agent: a directory for the sub-agent, made on the host, or by an   *)
(* exec in the container if the caller hands over the provisioned sandbox.  *)
(* RuntimeContextImpl.spawn_agent does not; the child gets its own white    *)
(* list, which does not depend on its parent's.                             *)
(***************************************************************************)
InContainer(handedOver) == handedOver /\ config.mode = "docker"

SpawnAgent(a, handedOver, tools) ==
  /\ box = "ready" /\ agent[a].state = "none"
  /\ IF InContainer(handedOver)
     THEN /\ agent' = [agent EXCEPT ![a] = [state |-> "spawning", subdir |-> "none", tools |-> tools]]
          /\ clients' = clients \cup {a}
     ELSE /\ agent' = [agent EXCEPT ![a] = [state |-> "spawned", subdir |-> "host", tools |-> tools]]
          /\ UNCHANGED clients
  /\ UNCHANGED <<config, box, quota, container>>

(* mkdir in the container: done, refused or timed out.                      *)
SubdirMade(a) ==
  /\ agent[a].state = "spawning" /\ clients' = clients \ {a}
  /\ \/ /\ container.state = "running"
        /\ agent' = [agent EXCEPT ![a].state = "spawned", ![a].subdir = "container"]
     \/ agent' = [agent EXCEPT ![a].state = "failed"]
  /\ UNCHANGED <<config, box, quota, container>>

Provisioning == BuildSandbox \/ CreateContainer \/ StartContainer \/ QuotaRefused \/ DaemonRefuses

(***************************************************************************)
(* Every process started by a call has one of these states; in a container  *)
(* it ends with the container.                                              *)
(***************************************************************************)
ExecReachesContainer == container.state = "running"

-------------------------------------------------------------------------------
(* A provisioned sandbox is what was asked for: with a handle in Docker     *)
(* mode the container was started, and it has the disk limit unless none    *)
(* was asked for or the driver has no quotas.  Other modes have none, and   *)
(* what a failed provisioning or destruction leaves behind was reported.    *)
HandleMeansContainer ==
  /\ box \in {"ready", "destroying"} /\ config.mode = "docker" =>
       /\ container.state \in {"running", "exited"}
       /\ container.limited = (config.diskLimit /\ config.quotas)
  /\ container.state # "none" =>
       /\ config.mode = "docker"
       /\ box \in {"creating", "starting", "ready", "failed", "destroying"}
===============================================================================
