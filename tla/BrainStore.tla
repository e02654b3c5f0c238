----------------------------- MODULE BrainStore -----------------------------
(***************************************************************************)
(* The rows one space of a Brain server holds, and what a kill leaves of   *)
(* them.  Brain is not part of this repository: this is the environment    *)
(* that the restart scenarios of src/src/blackbox/system put to the test,  *)
(* with the faults they are meant to find.  A row is named by the index of *)
(* the write that made it.                                                 *)
(***************************************************************************)
EXTENDS Integers, FiniteSets

CONSTANT Servers   \* the kinds of server considered

VARIABLES
    server,      \* walFirst: a write is durable before it is acked
                 \* replaySafe: replaying the log loses nothing
                 \* merges: a write may be merged into a row the space holds
    disk,        \* the rows on the volume
    volatile,    \* the rows acked and not yet on the volume
    recallable   \* the rows whose derivation is done: RECALL returns them

storeVars == <<server, disk, volatile, recallable>>

ServerKinds == [walFirst : BOOLEAN, replaySafe : BOOLEAN, merges : BOOLEAN]

ASSUME StoreAssumption == Servers \subseteq ServerKinds

StoreTypeOK ==
    /\ server \in ServerKinds
    /\ disk \subseteq Nat
    /\ volatile \subseteq Nat
    /\ recallable \subseteq Nat

StoreInit ==
    /\ server \in Servers
    /\ disk = {} /\ volatile = {} /\ recallable = {}

\* The rows a running server lists.
Active == disk \cup volatile

StoreRow(r) ==
    /\ IF server.walFirst
       THEN disk' = disk \cup {r} /\ UNCHANGED volatile
       ELSE volatile' = volatile \cup {r} /\ UNCHANGED disk
    /\ UNCHANGED <<server, recallable>>

Flush ==
    /\ volatile # {}
    /\ disk' = Active
    /\ volatile' = {}
    /\ UNCHANGED <<server, recallable>>

Derive ==
    /\ \E r \in Active \ recallable : recallable' = recallable \cup {r}
    /\ UNCHANGED <<server, disk, volatile>>

\* SIGKILL, or a crash of the server.
Killed ==
    /\ volatile' = {}
    /\ recallable' = recallable \cap disk
    /\ UNCHANGED <<server, disk>>

\* SIGTERM: rows are flushed, and the queue of derivations is or is not.
Drained ==
    /\ disk' = Active
    /\ volatile' = {}
    /\ recallable' \in {recallable, Active}
    /\ UNCHANGED server

\* A boot replays the log.
Replayed ==
    /\ \E lost \in SUBSET disk :
          /\ server.replaySafe => lost = {}
          /\ disk' = disk \ lost
          /\ recallable' = recallable \ lost
    /\ UNCHANGED <<server, volatile>>

=============================================================================
