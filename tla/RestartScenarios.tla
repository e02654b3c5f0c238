--------------------------- MODULE RestartScenarios ---------------------------
(***************************************************************************)
(* The scenarios of src/src/blackbox/system that write to a server, take   *)
(* it down, boot it again on the same volume and judge what survived:      *)
(* restart_recovery and graceful_shutdown_drain (durability.rs) write to a *)
(* server at rest, kill_during_write (chaos.rs) kills it under the writes. *)
(***************************************************************************)
EXTENDS ServerLifecycle, Sequences, Functions

CONSTANTS
    Scenarios,   \* the scenarios considered
    N,           \* writes of a scenario at rest
    MAX_BATCH,   \* most writes of a cycle of kill_during_write
    CYCLES,      \* kills of kill_during_write
    SLACK        \* write indices skipped between cycles

ASSUME ScenarioAssumption ==
    /\ Scenarios \subseteq {"restart_recovery", "graceful_shutdown_drain", "kill_during_write"}
    /\ N \in Nat \ {0} /\ MAX_BATCH \in Nat \ {0}
    /\ CYCLES \in Nat \ {0} /\ SLACK \in Nat \ {0}

VARIABLES
    scenario,
    pc,        \* where the scenario's task is
    cycle,     \* boots completed with writes
    writer,    \* the task that writes
    batch,     \* the rows acked to the writer, in order
    reply,     \* what the server answers to the write in flight
    next,      \* index of the first write of the cycle
    acked,     \* the rows acked in earlier cycles
    verdict

taskVars == <<scenario, pc, cycle, writer, batch, reply, next, acked, verdict>>
writerVars == <<writer, batch, reply>>
vars == <<storeVars, dockerVars, taskVars>>

NoReply == -1
Chaos == scenario = "kill_during_write"
Limit == IF Chaos THEN MAX_BATCH ELSE N
Last == IF Chaos THEN CYCLES ELSE 1
Current == next + Len(batch)   \* index of the write in flight, or of the next one

TypeOK ==
    /\ LifecycleTypeOK
    /\ scenario \in Scenarios
    /\ pc \in {"boot", "mint", "verify", "settle", "write", "remove", "join",
               "finish", "cleanup", "done"}
    /\ cycle \in 0..Last
    /\ writer \in {"connecting", "sending", "waiting", "ended"}
    /\ batch \in Seq(Nat) /\ Len(batch) <= Limit
    /\ reply \in Nat \cup {NoReply}
    /\ next \in Nat
    /\ acked \subseteq Nat
    /\ verdict \in {"none", "pass", "data_loss", "error"}

Init ==
    /\ LifecycleInit
    /\ scenario \in Scenarios
    /\ pc = "boot" /\ cycle = 0
    /\ writer = "ended" /\ batch = <<>> /\ reply = NoReply
    /\ next = 0 /\ acked = {} /\ verdict = "none"

-----------------------------------------------------------------------------
\* Booting a server, and what an error does to the scenario.

Boot ==
    /\ pc = "boot"
    /\ Booting
    /\ UNCHANGED taskVars

Booted ==
    /\ pc = "boot" /\ boot = "ready"
    /\ pc' = "mint"
    /\ UNCHANGED <<storeVars, dockerVars, scenario, cycle, writerVars, next, acked, verdict>>

Fails(where) ==
    /\ pc = where
    /\ pc' = "cleanup"
    /\ verdict' = "error"
    /\ UNCHANGED <<scenario, cycle, writerVars, next, acked>>

BootErr ==
    /\ boot = "failed"
    /\ Fails("boot")
    /\ UNCHANGED <<storeVars, dockerVars>>

\* Faulty variant of Unwind: the error path lets the handle go without its container.
LeaksHandle(where) ==
    /\ Fails(where)
    /\ UNCHANGED <<storeVars, dockerVars>>

\* A ? while a handle is live: it is dropped on the way out.
Unwind(where) ==
    /\ Fails(where)
    /\ Stop

MintFails == Unwind("mint")

\* mint, and for the scenarios at rest the connection as well.
Minted ==
    /\ pc = "mint"
    /\ IF cycle > 0
       THEN pc' = "verify" /\ UNCHANGED writer
       ELSE pc' = "write" /\ writer' = IF Chaos THEN "connecting" ELSE "sending"
    /\ UNCHANGED <<storeVars, dockerVars, scenario, cycle, batch, reply, next, acked, verdict>>

-----------------------------------------------------------------------------
\* Judging what survived.

\* Faulty variants of Survived: kill_during_write counts rows, whoever was told of them; the
\* scenarios ask RECALL, as they once did.
CountsRows ==
    CASE Chaos                         -> Cardinality(Active) >= Cardinality(acked)
      [] scenario = "restart_recovery" -> Cardinality(Active) >= N
      [] OTHER                         -> Cardinality(recallable) >= N
AsksRecall ==
    IF Chaos THEN acked \subseteq recallable ELSE Cardinality(recallable) >= N

\* kill_during_write looks for the id of every ack in MEMORY_LIST, restart_recovery
\* counts what it lists, graceful_shutdown_drain counts what RECALL returns.
Survived ==
    CASE Chaos                         -> acked \subseteq Active
      [] scenario = "restart_recovery" -> Cardinality(Active) >= N
      [] OTHER                         -> Cardinality(recallable) >= N

Decide ==
    /\ container = "healthy"
    /\ IF Survived /\ cycle < Last
       THEN pc' = "write" /\ writer' = "connecting" /\ UNCHANGED verdict
       ELSE /\ pc' = "finish"
            /\ verdict' = IF Survived THEN "pass" ELSE "data_loss"
            /\ UNCHANGED writer
    /\ UNCHANGED <<storeVars, dockerVars, scenario, cycle, batch, reply, next, acked>>

Verify ==
    /\ pc = "verify" /\ scenario # "graceful_shutdown_drain"
    /\ Decide

\* The first recall is only reported; the second, two seconds later, decides.
FirstRecall ==
    /\ pc = "verify" /\ scenario = "graceful_shutdown_drain"
    /\ container = "healthy"
    /\ pc' = "settle"
    /\ UNCHANGED <<storeVars, dockerVars, scenario, cycle, writerVars, next, acked, verdict>>

SecondRecall == pc = "settle" /\ Decide

VerifyFails == Unwind("verify") \/ Unwind("settle")

\* The last server is removed, whatever the verdict.
Finish ==
    /\ pc = "finish"
    /\ pc' = "cleanup"
    /\ Stop
    /\ UNCHANGED <<scenario, cycle, writerVars, next, acked, verdict>>

\* remove_volume runs on every way out.
Cleanup ==
    /\ pc = "cleanup"
    /\ pc' = "done"
    /\ RemoveVolume
    /\ UNCHANGED <<scenario, cycle, writerVars, next, acked, verdict>>

-----------------------------------------------------------------------------
\* The writer: a task of its own in kill_during_write.

WriterFrame == UNCHANGED <<dockerVars, scenario, pc, cycle, next, acked, verdict>>

WriterConnects ==
    /\ writer = "connecting" /\ container = "healthy"
    /\ writer' = "sending"
    /\ WriterFrame /\ UNCHANGED <<storeVars, batch, reply>>

\* Faulty variant of SendEncode: one write more than the limit.
OneTooMany ==
    /\ writer = "sending" /\ Len(batch) <= Limit
    /\ writer' = "waiting" /\ reply' = NoReply
    /\ WriterFrame /\ UNCHANGED <<storeVars, batch>>

SendEncode ==
    /\ writer = "sending" /\ Len(batch) < Limit
    /\ writer' = "waiting" /\ reply' = NoReply
    /\ WriterFrame /\ UNCHANGED <<storeVars, batch>>

\* The server's side of ENCODE: a row of its own, or a row it merges into.
Encode ==
    /\ writer = "waiting" /\ reply = NoReply /\ container = "healthy"
    /\ \/ StoreRow(Current) /\ reply' = Current
       \/ server.merges /\ reply' \in Active /\ UNCHANGED storeVars
    /\ WriterFrame /\ UNCHANGED <<writer, batch>>

\* An answer sent before a kill may be read after it.
ReceiveAck ==
    /\ writer = "waiting" /\ reply # NoReply
    /\ writer' = "sending"
    /\ batch' = Append(batch, reply)
    /\ WriterFrame /\ UNCHANGED <<storeVars, reply>>

WriterStops ==
    /\ writer' = "ended"
    /\ WriterFrame /\ UNCHANGED <<storeVars, batch, reply>>

BatchFull == writer = "sending" /\ Len(batch) = Limit /\ WriterStops

\* Faulty variant of EncodeErr: a connection the server drops is never noticed.
NeverNoticed == Chaos /\ writer = "waiting" /\ container = "healthy" /\ WriterStops

\* kill_during_write ends its batch at the first failed connect or encode.
ConnectErr == Chaos /\ writer = "connecting" /\ WriterStops
EncodeErr == Chaos /\ writer = "waiting" /\ WriterStops

\* The scenarios at rest give up: the encode is the ? of their own task.
EncodeUnwinds ==
    /\ ~Chaos
    /\ writer \in {"sending", "waiting"}
    /\ writer' = "ended"
    /\ pc = "write" /\ pc' = "cleanup" /\ verdict' = "error"
    /\ Stop
    /\ UNCHANGED <<scenario, cycle, batch, reply, next, acked>>

-----------------------------------------------------------------------------
\* Taking the server down.

TakeDown == UNCHANGED <<scenario, cycle, writerVars, next, acked, verdict>>

\* kill_during_write kills after KILL_DELAY wherever the writer is, the others when
\* the last write is acked.
Kill ==
    /\ pc = "write" /\ scenario # "graceful_shutdown_drain"
    /\ Chaos \/ writer = "ended"
    /\ pc' = "join"
    /\ Stop
    /\ TakeDown

GracefulStop ==
    /\ pc = "write" /\ scenario = "graceful_shutdown_drain" /\ writer = "ended"
    /\ pc' = "remove"
    /\ DockerStop
    /\ TakeDown

RemoveStopped ==
    /\ pc = "remove"
    /\ pc' = "join"
    /\ Stop
    /\ TakeDown

NothingAcked ==
    /\ writer = "ended" /\ batch = <<>>
    /\ Fails("join")
    /\ UNCHANGED <<storeVars, dockerVars>>

Joined ==
    /\ pc = "join" /\ writer = "ended" /\ batch # <<>>
    /\ pc' = "boot"
    /\ cycle' = cycle + 1
    /\ batch' = <<>>
    /\ UNCHANGED <<storeVars, dockerVars, scenario, writer, reply, verdict>>

\* Faulty variant of Join: no slack for the write in flight.
NoSlack ==
    Joined /\ acked' = acked \cup Range(batch) /\ next' = next + Len(batch)

Join ==
    /\ Joined
    /\ acked' = acked \cup Range(batch)
    /\ next' = next + Len(batch) + SLACK

-----------------------------------------------------------------------------
Task ==
    \/ Boot \/ Booted \/ BootErr \/ Minted \/ MintFails
    \/ Verify \/ FirstRecall \/ SecondRecall \/ VerifyFails
    \/ Finish \/ Cleanup
    \/ Kill \/ GracefulStop \/ RemoveStopped \/ NothingAcked \/ Join

Writer ==
    \/ WriterConnects \/ SendEncode \/ ReceiveAck \/ BatchFull
    \/ ConnectErr \/ EncodeErr \/ EncodeUnwinds

Server == Encode \/ ((TurnsHealthy \/ Exits \/ Serves) /\ UNCHANGED taskVars)

Next == Task \/ Writer \/ Server

\* The tasks and the docker calls they make go on.  The server owes nothing: a call to
\* it that gets no answer ends in an error, by the client's time-out or by the kill.
Fairness == WF_vars(Task) /\ WF_vars(Writer)

Spec == Init /\ [][Next]_vars /\ Fairness

-----------------------------------------------------------------------------
Kept == acked \subseteq disk

\* No loss is missed: a scenario passes only if every write that was ever acked to it
\* is on the volume (chaos.rs lines 140-147, durability.rs lines 105-109), on a server
\* that acks too early, on one that loses rows when it replays, and on one that merges
\* rows, although two of the scenarios only count.
PassMeansKept == verdict = "pass" => Kept

\* No loss is invented: data loss is reported only if an acked write is gone
\* (chaos.rs lines 91-101 and 148-156, durability.rs lines 110-115).  Excepted are
\* graceful_shutdown_drain, see GracefulLossIsReal, and restart_recovery on a server
\* that merges, which lists fewer rows than there were writes.
LossIsReal ==
    /\ verdict = "data_loss"
    /\ Chaos \/ (scenario = "restart_recovery" /\ ~server.merges)
    => ~Kept

\* What the comment on durable_active_memory_ids (mod.rs lines 558-567) promises of
\* the durability scenarios: a durable row is not reported as lost because it is not
\* retrievable yet.
GracefulLossIsReal ==
    verdict = "data_loss" /\ scenario = "graceful_shutdown_drain" => ~Kept

\* The text of a write is no earlier write's: a write that was in flight when the
\* server was killed may have become a row, and the next cycle must start past it
\* (next_index, chaos.rs line 121).
InFlightIsNew == writer = "waiting" /\ reply = NoReply => Current \notin Active

\* "Owns its server lifecycle and cleans up the volume on the way out" (durability.rs
\* line 21): a scenario that has ended has left neither a container nor the volume,
\* whichever call failed, except that a docker run which creates a container and
\* cannot start it leaves both (server.rs line 553).
NothingLeftBehind ==
    pc = "done" /\ container # "created" => container = "none" /\ ~volume

\* Every scenario comes to an end, with a server that may hang at any point.
EveryScenarioEnds == <>(pc = "done")

=============================================================================
