----------------------------- MODULE Acceptance -----------------------------
(***************************************************************************)
(* run_acceptance of src/src/blackbox/acceptance.rs: the gates in order,   *)
(* the throughput probe as Throughput has it, the scenario suites against  *)
(* the server under test, and last the scenarios that boot a server of     *)
(* their own and leave its credentials in the environment.                 *)
(***************************************************************************)
EXTENDS Throughput

VARIABLES
    acc,       \* the stage of the run
    scaled,    \* [full, recovery]: the configuration
    failed,    \* the kinds of gate that failed, which all_pass and correctness_pass read
    broken,    \* a correctness check did not hold
    ambient,   \* the server whose admin credentials are in the environment
    minted     \* the keys minted: for which server, with whose credentials

accVars == <<acc, scaled, failed, broken, ambient, minted>>

Suites     == {"core", "typed_graph", "invariants", "admin"}
OwnServers == {"restart_recovery", "chaos", "storage"}

AcceptanceTypeOK ==
    /\ acc \in {"connect", "scale", "throughput", "recall_quality", "report"} \cup Suites \cup OwnServers
    /\ scaled \in [full : BOOLEAN, recovery : BOOLEAN]
    /\ failed \subseteq {"perf", "correctness"}
    /\ broken \in BOOLEAN
    /\ ambient \in {"target"} \cup OwnServers
    /\ minted \subseteq ({"target"} \cup OwnServers) \X ({"target"} \cup OwnServers)

\* smoke or full_scale; BRAIN_EVAL_RESTART_RECOVERY adds a gate and takes none away.
AcceptanceInit ==
    /\ ThroughputInit
    /\ acc = "connect"
    /\ scaled \in [full : BOOLEAN, recovery : BOOLEAN] /\ (scaled.full => scaled.recovery)
    /\ failed = {}
    /\ broken = FALSE
    /\ ambient = "target"
    /\ minted = {}

\* Faulty variant of After: the scenarios with a server of their own come before the last suite.
AfterOwnServersFirst(stage) ==
    CASE stage = "scale" -> "throughput" [] stage = "throughput" -> "recall_quality"
      [] stage = "recall_quality" -> "core" [] stage = "core" -> "typed_graph"
      [] stage = "typed_graph" -> "invariants" [] stage = "invariants" -> "restart_recovery"
      [] stage = "restart_recovery" -> "chaos" [] stage = "chaos" -> "storage"
      [] stage = "storage" -> "admin" [] stage = "admin" -> "report"

After(stage) ==
    CASE stage = "scale" -> "throughput" [] stage = "throughput" -> "recall_quality"
      [] stage = "recall_quality" -> "core" [] stage = "core" -> "typed_graph"
      [] stage = "typed_graph" -> "invariants" [] stage = "invariants" -> "admin"
      [] stage = "admin" -> "restart_recovery" [] stage = "restart_recovery" -> "chaos"
      [] stage = "chaos" -> "storage" [] stage = "storage" -> "report"

\* Gates of a kind, all of which passed or not; a gate's perf field is its kind.
Gates(kind, passed) == IF passed THEN {} ELSE {kind}

\* from_external_env and a mint with what it finds.
MintsFor(server) == minted' = minted \cup {<<server, ambient>>}

\* The connection scale, throughput and recall share.
AcceptanceConnects ==
    /\ acc = "connect"
    /\ acc' = "scale"
    /\ MintsFor("target")
    /\ UNCHANGED <<tputVars, scaled, failed, broken, ambient>>

\* Faulty variant of ConnectRefused: the performance part is skipped without a gate.
ConnectRefusedUngated ==
    /\ acc = "connect"
    /\ acc' = "core"
    /\ broken' = TRUE
    /\ UNCHANGED <<tputVars, scaled, failed, ambient, minted>>

\* One failed gate stands for the three that need the connection; the suites still run.
ConnectRefused ==
    /\ acc = "connect"
    /\ acc' = "core"
    /\ failed' = failed \cup Gates("correctness", FALSE)
    /\ broken' = TRUE
    /\ UNCHANGED <<tputVars, scaled, ambient, minted>>

\* A latency and a throughput gate per verb, or one gate for a run that erred.
ScaleGates ==
    \E passed \in BOOLEAN :
        /\ acc = "scale"
        /\ failed' = failed \cup Gates("perf", passed)
        /\ acc' = After(acc)
        /\ UNCHANGED <<tputVars, scaled, broken, ambient, minted>>

\* The steps of the throughput probe, which mints one key when it begins.
Drives(step) ==
    /\ acc = "throughput"
    /\ step
    /\ IF tput = "mint" THEN MintsFor("target") ELSE UNCHANGED minted
    /\ UNCHANGED <<acc, scaled, failed, broken, ambient>>

\* Floor and latency gates for performance, and the one on errors, which is correctness.
ThroughputGates ==
    \E fast \in BOOLEAN :
        /\ acc = "throughput"
        /\ ReturnReport
        /\ failed' = failed \cup Gates("correctness", tput = "done" /\ NoErrors)
                            \cup Gates("perf", tput = "done" => fast /\ MeetsFloors)
        /\ broken' = (broken \/ tput = "unminted" \/ defects # {})
        /\ acc' = After(acc)
        /\ UNCHANGED <<scaled, ambient, minted>>

\* A stage of correctness gates holds, or one of them does not.
Gated(passed) ==
    /\ failed' = failed \cup Gates("correctness", passed)
    /\ broken' = (broken \/ ~passed)
    /\ acc' = After(acc)

RecallGate ==
    \E passed \in BOOLEAN :
        /\ acc = "recall_quality"
        /\ Gated(passed)
        /\ UNCHANGED <<tputVars, scaled, ambient, minted>>

\* Every scenario of a suite connects, and so mints, for itself.
RunSuite ==
    \E passed \in BOOLEAN :
        /\ acc \in Suites
        /\ Gated(passed)
        /\ MintsFor("target")
        /\ UNCHANGED <<tputVars, scaled, ambient>>

Configured(server) == IF server = "restart_recovery" THEN scaled.recovery ELSE scaled.full

\* start_docker publishes the credentials of a server that became healthy; the scenario
\* mints through the handle.
BootsOwnServer ==
    \E passed \in BOOLEAN :
        /\ acc \in OwnServers
        /\ Configured(acc)
        /\ ambient' = acc
        /\ minted' = minted \cup {<<acc, acc>>}
        /\ Gated(passed)
        /\ UNCHANGED <<tputVars, scaled>>

OwnBootFails ==
    /\ acc \in OwnServers
    /\ Configured(acc)
    /\ Gated(FALSE)
    /\ UNCHANGED <<tputVars, scaled, ambient, minted>>

NotConfigured ==
    /\ acc \in OwnServers
    /\ ~Configured(acc)
    /\ acc' = After(acc)
    /\ UNCHANGED <<tputVars, scaled, failed, broken, ambient, minted>>

RunGates ==
    \/ AcceptanceConnects \/ ConnectRefused \/ ScaleGates \/ ThroughputGates \/ RecallGate
    \/ RunSuite \/ BootsOwnServer \/ OwnBootFails \/ NotConfigured

AcceptanceNext ==
    \/ RunGates
    \/ Drives(Measure) \/ Drives(Deadline) \/ (\E w \in Workers : Drives(Worker(w)))
    \/ Reap /\ UNCHANGED accVars

\* The calls without a timeout: the mints of the connection, of the throughput probe and of
\* every scenario, and the docker commands of the scenarios with a server of their own.
AcceptanceWaits ==
    \/ acc \in {"connect"} \cup Suites
    \/ acc = "throughput" /\ ThroughputWaits
    \/ acc \in OwnServers /\ Configured(acc)

AllPass         == failed = {}
CorrectnessPass == "correctness" \notin failed

-----------------------------------------------------------------------------
\* Properties.

\* No key is minted with another server's credentials: the credentials a booted server
\* leaves in the environment reach no scenario that runs against the server under test.
EveryMintReachesItsServer == \A m \in minted : m[1] = m[2]

\* Correctness passes only if no correctness check failed: neither a refused connection, nor
\* a throughput probe that met a defect, nor a failed suite is lost on the way.
CorrectnessMeansNothingBroke == acc = "report" /\ CorrectnessPass => ~broken
=============================================================================
