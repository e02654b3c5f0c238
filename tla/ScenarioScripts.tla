--------------------------- MODULE ScenarioScripts ---------------------------
(***************************************************************************)
(* The scenarios of src/src/blackbox/system as data: each run function is  *)
(* the sequence of its connections, calls and checks.  What a call changes *)
(* or a check looks for is a fact, written as a field: a check of          *)
(* [b_reads |-> FALSE] wants B not to read the memory.  The restart        *)
(* scenarios are in module RestartScenarios.                               *)
(***************************************************************************)
EXTENDS Sequences, Naturals

\* The shards the server answers for.  The rebuild scenario takes a server without one
\* for a failed one: that is the fault of has_shard.
CONSTANT SHARDS

ASSUME ShardsAssumption == SHARDS \in Nat \ {0}

Nothing == [fact \in {} |-> TRUE]

\* BrainEvalHarness::connect, with the key it mints.
Open(conn)  == [op |-> "open", facts |-> Nothing, conn |-> conn]

\* A call whose effects are there when it returns: an encode that waits for its
\* derivation, or an admin or graph verb.
Do(facts)   == [op |-> "do", facts |-> facts, later |-> Nothing]

\* A call acknowledged before the derived part of its effect can be read.
Ack(now, later) == [op |-> "do", facts |-> now, later |-> later]

Call        == Do(Nothing)

\* A read judged at once: a mismatch closes the connections and fails.
Check(facts) == [op |-> "check", facts |-> facts]

\* A read judged after the connections are closed.
Note(facts)  == [op |-> "note", facts |-> facts]

\* A read repeated until it shows the facts or its budget is spent, then judged at
\* once, or after the close.
Poll(facts)     == [op |-> "poll", facts |-> facts, kept |-> FALSE]
PollNote(facts) == [op |-> "poll", facts |-> facts, kept |-> TRUE]

\* A call whose error is an answer: it is judged after the close.
Try(facts)      == [op |-> "try", facts |-> facts]

\* A call that must be refused; whatever error it returns counts as the refusal.
Refused(facts)  == [op |-> "refused", facts |-> facts]

\* The admin scenarios need the admin secret of the environment.
Secret          == Check([secret |-> TRUE])

-----------------------------------------------------------------------------
\* The core scenarios.

MultiSpaceIsolation == <<
    Open("A"), Open("B"),
    Do([a_reads |-> TRUE]),
    Note([b_reads |-> FALSE]),
    Note([a_reads |-> TRUE])>>

\* Faulty variant of PlanReasonIsolation: the encode does not wait for its derivation
\* and nothing shows that the memory can be reached at all.
PlanReasonUnproved == <<
    Open("A"), Open("B"),
    Ack(Nothing, [a_reads |-> TRUE]),
    Check([b_plans |-> FALSE]),
    Check([b_reasons |-> FALSE])>>

PlanReasonIsolation == <<
    Open("A"), Open("B"),
    Do([a_reads |-> TRUE]),
    Check([a_reads |-> TRUE]),
    Check([b_plans |-> FALSE]),
    Check([b_reasons |-> FALSE])>>

EncodeRecallForget == <<
    Open("A"),
    Do([reads |-> TRUE]),
    Check([reads |-> TRUE]),
    Do([reads |-> FALSE]),
    Note([reads |-> FALSE])>>

\* poll_recall_until reads once more after its last pause.
TxnReadYourWrites == <<
    Open("A"),
    Do([txn_open |-> TRUE]),
    Do([txn_reads |-> TRUE]),
    Note([txn_reads |-> TRUE]),
    Ack([txn_open |-> FALSE], [reads |-> TRUE]),
    PollNote([reads |-> TRUE])>>

\* The commit carries no act_as: the transaction keeps the identity it began with.
DelegatedTxn == <<
    Call, Open("A"),
    Do([txn_open |-> TRUE]),
    Call,
    Ack([txn_open |-> FALSE], [tenant_reads |-> TRUE]),
    PollNote([tenant_reads |-> TRUE]),
    Note([own_reads |-> FALSE])>>

-----------------------------------------------------------------------------
\* The invariant scenarios.

\* The third encode reuses the request id with other parameters.
Idempotency == <<
    Open("A"),
    Call,
    Do([same_id |-> TRUE]),
    Check([same_id |-> TRUE]),
    Do([conflict |-> TRUE]),
    Try([conflict |-> TRUE])>>

\* Faulty variant of TombstoneVisibility: the second memory is read without a poll.
TombstoneUnpolled == <<
    Open("A"),
    Ack(Nothing, [reads |-> TRUE]),
    Poll([reads |-> TRUE]),
    Do([reads |-> FALSE, already |-> FALSE]),
    Check([already |-> FALSE]),
    Check([reads |-> FALSE]),
    Do([already |-> TRUE]),
    Check([already |-> TRUE]),
    Ack(Nothing, [reads_second |-> TRUE]),
    Check([reads_second |-> TRUE])>>

\* A tombstone is hidden at once; forgetting it again reports it.
TombstoneVisibility == <<
    Open("A"),
    Ack(Nothing, [reads |-> TRUE]),
    Poll([reads |-> TRUE]),
    Do([reads |-> FALSE, already |-> FALSE]),
    Check([already |-> FALSE]),
    Check([reads |-> FALSE]),
    Do([already |-> TRUE]),
    Check([already |-> TRUE]),
    Ack(Nothing, [reads_second |-> TRUE]),
    Poll([reads_second |-> TRUE]),
    Do([reads_second |-> FALSE]),
    Check([reads_second |-> FALSE])>>

\* Both links answer, whatever the first one said.
SlotVersion == <<
    Open("A"),
    Call, Call,
    Do([stale_unknown |-> TRUE, live_links |-> TRUE]),
    Try([stale_unknown |-> TRUE]),
    Try([live_links |-> TRUE])>>

-----------------------------------------------------------------------------
\* The admin scenarios.

\* by=resolution counts the rows of the whole server, not of this memory.
Audit == <<
    Secret, Open("A"),
    Ack([by_time |-> TRUE, pages_valid |-> TRUE],
        [extraction_rows |-> TRUE, resolution_rows |-> TRUE]),
    Check([pages_valid |-> TRUE]),
    Poll([extraction_rows |-> TRUE]),
    Check([by_time |-> TRUE, pages_valid |-> TRUE]),
    PollNote([resolution_rows |-> TRUE])>>

\* Faulty variant of Backfill: the cancel is checked but not sent.
BackfillUncancelled == <<
    Secret, Open("A"),
    Call, Call, Call,
    Do([backfill |-> TRUE, started |-> TRUE, listed |-> TRUE]),
    Check([started |-> TRUE]),
    Check([listed |-> TRUE]),
    Do([needs_extractors |-> TRUE, needs_hex |-> TRUE]),
    Check([needs_extractors |-> TRUE]),
    Note([needs_hex |-> TRUE])>>

\* Nothing before the cancel takes the started run back.
Backfill == <<
    Secret, Open("A"),
    Call, Call, Call,
    Do([backfill |-> TRUE, started |-> TRUE, listed |-> TRUE]),
    Check([started |-> TRUE]),
    Check([listed |-> TRUE]),
    Do([backfill |-> FALSE, cancelled |-> TRUE, needs_extractors |-> TRUE, needs_hex |-> TRUE]),
    Check([cancelled |-> TRUE]),
    Check([needs_extractors |-> TRUE]),
    Note([needs_hex |-> TRUE])>>

\* rebuild_shard over every shard: the walk ends at the first the server does not know.
RebuildWalk == [s \in 1..SHARDS |-> Check([rebuild_sane |-> TRUE])]

\* The four targets are rebuilt on the shards the walk counted.
Rebuild ==
    <<Secret, Open("A"),
      Do([reads |-> TRUE]), Call, Call,
      Check([reads |-> TRUE]),
      Do([rebuild_sane |-> TRUE, has_shard |-> TRUE, reads_after |-> TRUE])>>
    \o RebuildWalk
    \o <<Check([has_shard |-> TRUE])>>
    \o RebuildWalk
    \o <<Note([reads_after |-> TRUE])>>

\* Two scrapes around a burst of recalls.
MetricsFamilies == <<
    Open("A"),
    Call, Call, Call,
    Check([scrapes |-> TRUE]),
    Do([families |-> TRUE, monotonic |-> TRUE, advanced |-> TRUE]),
    Check([scrapes |-> TRUE]),
    Note([families |-> TRUE]), Note([monotonic |-> TRUE]), Note([advanced |-> TRUE])>>

\* The server is one of its own, on a fresh volume; the ceiling is optional.
StorageFootprint == <<
    Open("server"),
    Call,
    Open("A"),
    Do([gauges |-> TRUE, slots |-> TRUE, grew |-> TRUE, wal |-> TRUE, capacity |-> TRUE]),
    Note([gauges |-> TRUE, slots |-> TRUE, grew |-> TRUE, wal |-> TRUE, capacity |-> TRUE])>>
=============================================================================
