------------------------------- MODULE Staged -------------------------------
(***************************************************************************)
(* The staged probe of src/src/bench/probe/staged.rs: conversation after   *)
(* conversation, in key order, its turns are encoded into a space of its   *)
(* own, a barrier and a poll wait for their extraction, the graph they     *)
(* gave is counted, and its questions are asked and attributed.  The       *)
(* server extracts the turns of a space in order, some of them to no fact. *)
(***************************************************************************)
EXTENDS Naturals, FiniteSets

CONSTANTS
    GROUPS,           \* the conversations of the benchmark
    TURNS,            \* the turns of a conversation, not more than the poll's 5 hits
    QUESTIONS,        \* the questions of a conversation
    DRAIN_ATTEMPTS,   \* the polls for the facts of the last turn
    LIMITS            \* the values of max_questions considered

NoLimit == GROUPS * QUESTIONS + 1

ASSUME StagedAssumption ==
    /\ {GROUPS, TURNS, QUESTIONS, DRAIN_ATTEMPTS} \subseteq Nat \ {0}
    /\ LIMITS \subseteq 0..NoLimit

VARIABLES
    staged,      \* the stage of the run
    opts,        \* [reuse, focus, limit]: the options of the run; fits: the space it reuses
                 \* is one a finished run wrote the first conversation to
    group,       \* the current conversation
    acked,       \* the turns of its space that are stored
    extracted,   \* how many of them extraction is past
    facts,       \* the turns that gave facts
    drains,      \* the polls made
    caughtUp,    \* the last poll saw facts
    counted,     \* the turns read back for the count
    reads,       \* the questions of the conversation asked
    rollup       \* the ReadRollup

stagedVars == <<staged, opts, group, acked, extracted, facts, drains, caughtUp, counted, reads,
                rollup>>

Buckets == {"correct", "abstention", "dropped", "missed", "unknown"}

StagedTypeOK ==
    /\ staged \in {"start", "group", "write", "barrier", "poll", "count", "health", "read",
                   "close", "done", "error"}
    /\ opts \in [reuse : BOOLEAN, focus : BOOLEAN, limit : LIMITS, fits : BOOLEAN]
    /\ group \in 1..GROUPS + 1
    /\ acked \in 0..TURNS /\ extracted \in 0..acked /\ facts \subseteq 1..extracted
    /\ drains \in 0..DRAIN_ATTEMPTS
    /\ caughtUp \in BOOLEAN
    /\ counted \in 0..TURNS
    /\ reads \in 0..QUESTIONS
    /\ rollup \in [{"total"} \cup Buckets -> 0..GROUPS * QUESTIONS]

StagedInit ==
    /\ staged = "start"
    /\ opts \in [reuse : BOOLEAN, focus : BOOLEAN, limit : LIMITS, fits : BOOLEAN]
    /\ ~opts.reuse => opts.fits
    /\ group = 1
    /\ acked = 0 /\ extracted = 0 /\ facts = {}
    /\ drains = 0 /\ caughtUp = FALSE /\ counted = 0 /\ reads = 0
    /\ rollup = [b \in {"total"} \cup Buckets |-> 0]

Stays == UNCHANGED <<opts, group, acked, extracted, facts, drains, caughtUp, counted, reads,
                     rollup>>

\* benchmark.load, which may fail.
Load ==
    /\ staged = "start"
    /\ staged' \in {"group", "error"}
    /\ Stays

Capped == rollup["total"] >= opts.limit

\* The rollup and the report, once every conversation is through or the cap is reached.
RunOver ==
    /\ staged = "group"
    /\ group > GROUPS \/ Capped
    /\ staged' = "done"
    /\ Stays

\* connect_minted to a fresh space, or to the one the caller names.  The code does not look
\* whether that space holds the first conversation: any part of it may be there, extracted
\* so far.
ConnectSpace ==
    /\ staged = "group"
    /\ group <= GROUPS /\ ~Capped
    /\ drains' = 0 /\ caughtUp' = FALSE /\ counted' = 0 /\ reads' = 0
    /\ staged' = IF opts.focus THEN "close" ELSE IF opts.reuse THEN "poll" ELSE "write"
    /\ \/ /\ opts.reuse
          /\ acked' \in IF group # 1 THEN {0} ELSE IF opts.fits THEN {TURNS} ELSE 0..TURNS
          /\ extracted' \in 0..acked'
          /\ facts' \in SUBSET (1..extracted')
       \/ /\ ~opts.reuse
          /\ acked' = 0 /\ extracted' = 0 /\ facts' = {}
    /\ UNCHANGED <<opts, group, rollup>>

EncodeTurn ==
    /\ staged = "write"
    /\ acked < TURNS
    /\ acked' = acked + 1
    /\ UNCHANGED <<staged, opts, group, extracted, facts, drains, caughtUp, counted, reads, rollup>>

TurnsStored ==
    /\ staged = "write"
    /\ acked = TURNS
    /\ staged' = "barrier"
    /\ Stays

\* wait_for_write_flush returns, with the pipeline settled or because it gave up; the
\* staged run reads nothing of what it returns.
BarrierReturns ==
    /\ staged = "barrier"
    /\ staged' = "poll"
    /\ Stays

\* The server.
ExtractTurn ==
    \E gives \in BOOLEAN :
        /\ staged \in {"write", "barrier", "poll", "count", "health", "read"}
        /\ extracted < acked
        /\ extracted' = extracted + 1
        /\ facts' = IF gives THEN facts \cup {extracted + 1} ELSE facts
        /\ UNCHANGED <<staged, opts, group, acked, drains, caughtUp, counted, reads, rollup>>

-----------------------------------------------------------------------------
\* drain_and_count.

\* Faulty variant of DrainPoll: without facts the poll goes on.
DrainPollForever ==
    \E hits \in SUBSET (1..acked) :
        /\ staged = "poll"
        /\ hits \cap facts # {}
        /\ caughtUp' = TRUE
        /\ staged' = "count"
        /\ UNCHANGED <<drains, opts, group, acked, extracted, facts, counted, reads, rollup>>

\* Recall by the last turn's text: facts on any of the hits end the poll, and so does the
\* last attempt.
DrainPoll ==
    \E hits \in SUBSET (1..acked) :
        /\ staged = "poll"
        /\ drains < DRAIN_ATTEMPTS
        /\ drains' = drains + 1
        /\ caughtUp' = (hits \cap facts # {})
        /\ staged' = IF caughtUp' \/ drains' = DRAIN_ATTEMPTS THEN "count" ELSE "poll"
        /\ UNCHANGED <<opts, group, acked, extracted, facts, counted, reads, rollup>>

CountTurn ==
    /\ staged = "count"
    /\ counted < TURNS
    /\ counted' = counted + 1
    /\ UNCHANGED <<staged, opts, group, acked, extracted, facts, drains, caughtUp, reads, rollup>>

Counted ==
    /\ staged = "count"
    /\ counted = TURNS
    /\ staged' = IF opts.reuse THEN "read" ELSE "health"
    /\ Stays

\* extraction_health scrapes the server's metrics; without an answer it has none to show.
HealthScraped ==
    /\ staged = "health"
    /\ staged' = "read"
    /\ Stays

-----------------------------------------------------------------------------
\* staged_read, ReadRecord and ReadRollup.

\* Faulty variant of Bucket: a partial answer is not attributed.
BucketUnlessPartial(verdict, found, supported) ==
    IF verdict = "Correct" THEN {"correct"}
    ELSE IF verdict = "Partial" THEN {} ELSE IF ~found THEN {"abstention"} ELSE {"unknown"}

\* The stage that lost an answer that is not correct.
Bucket(verdict, found, supported) ==
    IF verdict = "Correct" THEN {"correct"}
    ELSE IF ~found THEN {"abstention"}
    ELSE CASE supported = "yes" -> {"dropped"}
           [] supported = "no" -> {"missed"}
           [] OTHER -> {"unknown"}

\* One recall, a grade, and for a wrong answer over some memories the support judge.
Ask ==
    \E verdict \in {"Correct", "Partial", "Incorrect"}, found \in BOOLEAN,
       supported \in {"yes", "no", "unknown"} :
        /\ staged = "read"
        /\ reads < QUESTIONS /\ ~Capped
        /\ reads' = reads + 1
        /\ rollup' = [b \in DOMAIN rollup |->
                        IF b = "total" \/ b \in Bucket(verdict, found, supported)
                        THEN rollup[b] + 1 ELSE rollup[b]]
        /\ UNCHANGED <<staged, opts, group, acked, extracted, facts, drains, caughtUp, counted>>

AllAsked ==
    /\ staged = "read"
    /\ reads = QUESTIONS \/ Capped
    /\ staged' = "close"
    /\ Stays

\* Faulty variant of CloseSpace: a run that reuses a space goes on to the next conversation.
CloseSpaceGoesOn ==
    /\ staged = "close"
    /\ group' = group + 1
    /\ staged' = IF opts.focus THEN "done" ELSE "group"
    /\ UNCHANGED <<opts, acked, extracted, facts, drains, caughtUp, counted, reads, rollup>>

\* Focus on one question, and reuse of one space, stop after one conversation.
CloseSpace ==
    /\ staged = "close"
    /\ group' = group + 1
    /\ staged' = IF opts.focus \/ opts.reuse THEN "done" ELSE "group"
    /\ UNCHANGED <<opts, acked, extracted, facts, drains, caughtUp, counted, reads, rollup>>

\* Any operation may fail, the close among them, and ends the run without its report.
OperationFails ==
    /\ staged \in {"group", "write", "poll", "count", "read", "close"}
    /\ staged = "group" => group <= GROUPS /\ ~Capped
    /\ staged' = "error"
    /\ Stays

StagedStep ==
    \/ Load \/ RunOver \/ ConnectSpace \/ EncodeTurn \/ TurnsStored \/ BarrierReturns
    \/ DrainPoll \/ CountTurn \/ Counted \/ HealthScraped \/ Ask \/ AllAsked \/ CloseSpace

StagedNext == StagedStep \/ OperationFails \/ ExtractTurn

\* The calls without a timeout: the mint of a space's key, and the scrapes of the barrier
\* and of the health line.
StagedWaits ==
    \/ staged \in {"barrier", "health"}
    \/ staged = "group" /\ group <= GROUPS /\ ~Capped

\* No failure, no extraction and no answer to such a call is owed.
StagedSpec ==
    StagedInit /\ [][StagedNext]_stagedVars /\ WF_stagedVars(~StagedWaits /\ StagedStep)

-----------------------------------------------------------------------------
\* Properties.

\* Every question asked is in the rollup once: correct, or lost at exactly one stage.
RollupAddsUp ==
    rollup["total"] = rollup["correct"] + rollup["abstention"] + rollup["dropped"]
                        + rollup["missed"] + rollup["unknown"]

\* A conversation is counted and asked about in a space that holds all of its turns: no
\* miss is reported that only says the conversation was never written there.  Of a reused
\* space this needs the caller to name one that a finished run wrote the first conversation
\* to, as src/src/bench/probe/staged.rs:97-99 asks of him; what the code adds is that no second
\* conversation is looked for in it.
AskedWhereItsTurnsAre ==
    staged \in {"count", "health", "read"} /\ opts.fits => acked = TURNS
=============================================================================
