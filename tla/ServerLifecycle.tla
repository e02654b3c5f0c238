--------------------------- MODULE ServerLifecycle ---------------------------
(***************************************************************************)
(* ServerHandle of src/src/client/server.rs over one container name and    *)
(* one data volume: start_docker, its health wait, stop, stop_graceful and *)
(* Drop.  The handle is one that does not keep the container alive.        *)
(* Removing an existing container succeeds; other docker calls may fail.   *)
(***************************************************************************)
EXTENDS BrainStore

CONSTANT HEALTH_POLLS   \* health_timeout, counted in polls

ASSUME LifecycleAssumption == HEALTH_POLLS \in Nat

VARIABLES
    container,   \* the container of this name
    volume,      \* the data volume exists
    boot,        \* the progress of start_docker
    polls        \* the polls of wait_healthy

dockerVars == <<container, volume, boot, polls>>

Running == container \in {"starting", "healthy"}

LifecycleTypeOK ==
    /\ StoreTypeOK
    /\ container \in {"none", "created", "starting", "healthy", "exited"}
    /\ volume \in BOOLEAN
    /\ boot \in {"remove", "run", "health", "state", "ready", "failed"}
    /\ polls \in 0..HEALTH_POLLS

\* An aborted run may have left its container and its volume.
LifecycleInit ==
    /\ StoreInit
    /\ container \in {"none", "created", "healthy"}
    /\ volume \in BOOLEAN
    /\ container # "none" => volume
    /\ boot = "remove"
    /\ polls = 0

\* docker rm -fv: a running server is killed; the named volume stays.
Remove ==
    /\ container' = "none"
    /\ IF Running THEN Killed ELSE UNCHANGED storeVars

RemoveStale ==
    /\ boot = "remove"
    /\ Remove
    /\ boot' = "run"
    /\ polls' = 0
    /\ UNCHANGED volume

DockerRun ==
    /\ boot = "run"
    /\ container' = "starting"
    /\ volume' = TRUE
    /\ boot' = "health"
    /\ UNCHANGED <<polls, storeVars>>

\* The env file or docker run fails, before there is a container or after one was
\* created that could not be started.  No handle exists yet that would remove it.
DockerRunFails ==
    /\ boot = "run"
    /\ boot' = "failed"
    /\ \/ UNCHANGED <<container, volume>>
       \/ container' = "created" /\ volume' = TRUE
    /\ UNCHANGED <<polls, storeVars>>

\* The first inspect of a poll; one that fails reads as not healthy.
ProbeHealth ==
    /\ boot = "health"
    /\ boot' \in IF container = "healthy" THEN {"ready", "state"} ELSE {"state"}
    /\ UNCHANGED <<container, volume, polls, storeVars>>

\* The second inspect finds an exited container, or the deadline has passed, which
\* slow inspects may bring at any poll.  The handle is dropped and its container
\* with it.
BootFails ==
    /\ boot = "state"
    /\ boot' = "failed"
    /\ Remove
    /\ UNCHANGED <<volume, polls>>

\* Neither.  A container that has exited is polled again if the inspect failed.
ProbeAgain ==
    /\ boot = "state"
    /\ polls < HEALTH_POLLS
    /\ boot' = "health"
    /\ polls' = polls + 1
    /\ UNCHANGED <<container, volume, storeVars>>

\* start_docker.
Booting ==
    \/ RemoveStale \/ DockerRun \/ DockerRunFails
    \/ ProbeHealth \/ BootFails \/ ProbeAgain

\* stop, or the drop of a handle.
Stop ==
    /\ Remove
    /\ boot' = "remove"
    /\ UNCHANGED <<volume, polls>>

\* The first half of stop_graceful: docker stop drains the server, kills it when
\* its time is up, or fails.
DockerStop ==
    /\ \/ /\ container' = "exited"
          /\ IF Running THEN Drained \/ Killed ELSE UNCHANGED storeVars
       \/ UNCHANGED <<container, storeVars>>
    /\ UNCHANGED <<volume, boot, polls>>

\* docker volume rm -f fails while a container refers to the volume.
RemoveVolume ==
    /\ volume' = (volume /\ container # "none")
    /\ UNCHANGED <<container, boot, polls, storeVars>>

-----------------------------------------------------------------------------
\* What the container does by itself.

TurnsHealthy ==
    /\ container = "starting"
    /\ container' = "healthy"
    /\ Replayed
    /\ UNCHANGED <<volume, boot, polls>>

Exits ==
    /\ Running
    /\ container' = "exited"
    /\ Killed
    /\ UNCHANGED <<volume, boot, polls>>

Serves ==
    /\ container = "healthy"
    /\ Flush \/ Derive
    /\ UNCHANGED dockerVars

=============================================================================
