---------------------------- MODULE DockerEngine ----------------------------
(***************************************************************************)
(* The Docker daemon as play-bin uses it, for the one container that bears *)
(* the name of the server under study.  The daemon is external: every      *)
(* operator below is read off the way internal/container and               *)
(* internal/docker call the SDK and what they do with each outcome.        *)
(*                                                                         *)
(* A call is a pair of actions, one per outcome.  With DockerFaults a call *)
(* may also fail for a reason of its own (daemon unreachable, the 30-minute*)
(* context of the HTTP handlers expired), and such a failure does not tell *)
(* the caller whether the request took effect.                             *)
(***************************************************************************)

CONSTANTS
    DockerFaults,   \* BOOLEAN: SDK calls may fail although the request is legal
    RestartPolicy   \* compose.restart of the container: "no" or "always"

ASSUME DockerAssumption ==
    /\ DockerFaults \in BOOLEAN
    /\ RestartPolicy \in {"no", "always"}

VARIABLE container  \* what the daemon knows of the server's container

ContainerStates == {"missing", "created", "running", "exited"}

Exists  == container # "missing"
Running == container = "running"     \* inspect.State.Running

\* A failed call whose effect the caller cannot know.
Fault(Effect) == DockerFaults /\ (Effect \/ UNCHANGED container)

-----------------------------------------------------------------------------
(* ContainerInspect: found, errdefs.IsNotFound, or any other error.        *)
InspectFound    == Exists
InspectNotFound == ~Exists
InspectFault    == DockerFaults

(* ContainerCreate refuses a name that is taken.                           *)
CreateOk  == ~Exists /\ container' = "created"
CreateErr == (Exists /\ UNCHANGED container) \/ Fault(CreateOk)

(* ContainerStart of a running container is "not modified", not an error.  *)
StartOk  == Exists /\ container' = "running"
StartErr == (~Exists /\ UNCHANGED container) \/ Fault(StartOk)

(* ContainerStop of a container that does not run is "not modified".       *)
StopOk  == Exists /\ container' = (IF Running THEN "exited" ELSE container)
StopErr == (~Exists /\ UNCHANGED container) \/ Fault(StopOk)

(* ContainerKill is refused unless the container runs.                     *)
KillOk  == Running /\ container' = "exited"
KillErr == (~Running /\ UNCHANGED container) \/ Fault(KillOk)

(* ContainerRemove with the zero RemoveOptions (Force is false) is refused *)
(* while the container runs.                                               *)
RemoveOk  == Exists /\ ~Running /\ container' = "missing"
RemoveErr == ((~Exists \/ Running) /\ UNCHANGED container) \/ Fault(RemoveOk)

-----------------------------------------------------------------------------
(* The server process ends on its own.  Under "always" the daemon restarts *)
(* it and State.Running stays true throughout, so nothing is visible.      *)
ProcessExit == RestartPolicy = "no" /\ Running /\ container' = "exited"

(* The daemon comes back up: "always" starts even a container that was     *)
(* stopped by hand.                                                        *)
DaemonRestart == RestartPolicy = "always" /\ container = "exited" /\ container' = "running"
=============================================================================
