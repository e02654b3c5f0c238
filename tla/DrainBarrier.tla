---------------------------- MODULE DrainBarrier ----------------------------
(***************************************************************************)
(* wait_for_write_flush of src/src/client/drain.rs: the barrier between    *)
(* the writes of a run and its reads.  It polls the server's /metrics and  *)
(* returns when the write pipeline looks settled, or when the cap is       *)
(* reached.  Time is counted in DRAIN_INTERVALs.  The server is the        *)
(* environment of module WritePipeline.                                    *)
(***************************************************************************)
EXTENDS WritePipeline

CONSTANTS
    DRAIN_STABLE_POLLS,  \* 4 in the code
    DRAIN_MIN_WAIT,      \* 1 s, 4 intervals
    DRAIN_MAX_WAIT,      \* 600 s, 2400 intervals
    PLATEAU_POLLS        \* `needed' of the fallback, 240

ASSUME BarrierAssumption ==
    /\ DRAIN_STABLE_POLLS \in Nat \ {0}
    /\ DRAIN_MIN_WAIT \in Nat
    /\ DRAIN_MAX_WAIT \in Nat \ {0}
    /\ PLATEAU_POLLS \in Nat \ {0}

VARIABLES
    pc,        \* scrape, reply, sleep or done
    elapsed,   \* started.elapsed()
    stable,    \* consecutive all-empty observations
    gaugeSeen,
    plateau,   \* [last, stable]: plateau_last and plateau_stable
    last,      \* [ex, em]: last_ex and last_em
    reply,     \* the snapshot on its way back while pc = "reply"
    outcome    \* the DrainBarrierStats returned, and which branch returned it

barrierVars == <<pc, elapsed, stable, gaugeSeen, plateau, last, reply, outcome>>
vars == <<pipelineVars, barrierVars>>

Absent == -1   \* pending_write_work's None

Counters == [ex : Nat, em : Nat]
NoReply == [pending |-> Absent, stats |-> [ex |-> 0, em |-> 0]]
Outcomes == [via : {"none", "gauge", "plateau", "cap"}, flushed : BOOLEAN, stats : Counters]

\* The types of the pipeline and of the locals of wait_for_write_flush: unsigned
\* counts, and None (-1) only where the code has an Option or starts at -1.
TypeOK ==
    /\ PipelineTypeOK
    /\ pc \in {"scrape", "reply", "sleep", "done"}
    /\ elapsed \in Nat
    /\ stable \in Nat
    /\ gaugeSeen \in BOOLEAN
    /\ plateau \in [last : Int, stable : Nat]
    /\ last \in Counters
    /\ reply \in [pending : Nat \cup {Absent}, stats : Counters]
    /\ outcome \in Outcomes

Init ==
    /\ PipelineInit
    /\ pc = "scrape"
    /\ elapsed = 0
    /\ stable = 0
    /\ gaugeSeen = FALSE
    /\ plateau = [last |-> -1, stable |-> 0]
    /\ last = [ex |-> 0, em |-> 0]
    /\ reply = NoReply
    /\ outcome = [via |-> "none", flushed |-> FALSE, stats |-> [ex |-> 0, em |-> 0]]

-----------------------------------------------------------------------------
\* Faulty variant of Ticked: the time left, counted down from the start.
CountDown == elapsed - 1

\* The clock.  Past the cap the code only compares, so the count stops there.
Ticked == IF elapsed < DRAIN_MAX_WAIT THEN elapsed + 1 ELSE elapsed

\* Faulty variant of BeforeCap: the loop condition forgotten.
NoCap == TRUE

\* The loop condition.
BeforeCap == elapsed < DRAIN_MAX_WAIT

-----------------------------------------------------------------------------
\* Faulty variant of PendingWriteWork: an absent family read as an empty queue.
AbsenceAsZero == Cardinality(Queued(published))

\* The queued work of the workers whose gauge is there, None without any gauge.
PendingWriteWork ==
    IF published = {} THEN Absent ELSE Cardinality(Queued(published))

\* The server renders /metrics; the answer may take time to come back.
ServerReplies ==
    /\ pc = "scrape"
    /\ PollAllowed
    /\ PollPasses
    /\ reply' = [pending |-> PendingWriteWork, stats |-> [ex |-> extracted, em |-> embedded]]
    /\ pc' = "reply"
    /\ UNCHANGED <<unit, extracted, embedded, published, legacy,
                   elapsed, stable, gaugeSeen, plateau, last, outcome>>

\* An answer without a sample, of a connection closed early or an error page, is a
\* successful scrape that shows no gauge and counters at zero.
BlankReply ==
    /\ pc = "scrape"
    /\ reply' = NoReply
    /\ pc' = "reply"
    /\ UNCHANGED <<pipelineVars, elapsed, stable, gaugeSeen, plateau, last, outcome>>

\* Connect, write or read fails: the poll is skipped, no progress is reset.
ScrapeFails ==
    /\ pc \in {"scrape", "reply"}
    /\ pc' = "sleep"
    /\ reply' = NoReply
    /\ UNCHANGED <<pipelineVars, elapsed, stable, gaugeSeen, plateau, last, outcome>>

\* Time passes while a scrape is in flight; the scrape has no deadline.
SlowScrape ==
    /\ pc \in {"scrape", "reply"}
    /\ BeforeCap
    /\ elapsed' = Ticked
    /\ UNCHANGED <<pipelineVars, pc, stable, gaugeSeen, plateau, last, reply, outcome>>

-----------------------------------------------------------------------------
\* Faulty variants of StableEnough: one poll too few, and a single zero trusted.
OnePollShort(n) == n + 1 >= DRAIN_STABLE_POLLS
OneZeroIsEnough(n) == n >= 1

StableEnough(n) == n >= DRAIN_STABLE_POLLS

FlushedVia(branch) ==
    /\ pc' = "done"
    /\ outcome' = [via |-> branch, flushed |-> TRUE, stats |-> reply.stats]

PollAgain ==
    /\ pc' = "sleep"
    /\ UNCHANGED outcome

\* The gauge is there: count consecutive empty observations.
ReceiveGauge ==
    /\ pc = "reply"
    /\ reply.pending # Absent
    /\ gaugeSeen' = TRUE
    /\ last' = reply.stats
    /\ stable' = IF reply.pending = 0 THEN stable + 1 ELSE 0
    /\ IF elapsed >= DRAIN_MIN_WAIT /\ StableEnough(stable')
       THEN FlushedVia("gauge")
       ELSE PollAgain
    /\ reply' = NoReply
    /\ UNCHANGED <<pipelineVars, elapsed, plateau>>

\* No gauge so far, a legacy server: wait for the counters to stop moving.
ReceivePlateau ==
    /\ pc = "reply"
    /\ reply.pending = Absent
    /\ ~gaugeSeen
    /\ last' = reply.stats
    /\ LET cur == reply.stats.ex + reply.stats.em
       IN  /\ plateau' = IF cur = plateau.last
                         THEN [plateau EXCEPT !.stable = plateau.stable + 1]
                         ELSE [last |-> cur, stable |-> 0]
           /\ IF cur > 0 /\ plateau'.stable >= PLATEAU_POLLS
              THEN FlushedVia("plateau")
              ELSE PollAgain
    /\ reply' = NoReply
    /\ UNCHANGED <<pipelineVars, elapsed, stable, gaugeSeen>>

\* The gauge was there and is gone: neither signal moves.
ReceiveAbsent ==
    /\ pc = "reply"
    /\ reply.pending = Absent
    /\ gaugeSeen
    /\ last' = reply.stats
    /\ PollAgain
    /\ reply' = NoReply
    /\ UNCHANGED <<pipelineVars, elapsed, stable, gaugeSeen, plateau>>

\* The next poll; or past the cap the last counters seen, and flushed = false.
Sleep ==
    /\ pc = "sleep"
    /\ elapsed' = Ticked
    /\ IF BeforeCap'
       THEN /\ pc' = "scrape"
            /\ UNCHANGED outcome
       ELSE /\ pc' = "done"
            /\ outcome' = [via |-> "cap", flushed |-> FALSE, stats |-> last]
    /\ UNCHANGED <<pipelineVars, stable, gaugeSeen, plateau, last, reply>>

-----------------------------------------------------------------------------
Receive == ReceiveGauge \/ ReceivePlateau \/ ReceiveAbsent

Loop == Receive \/ Sleep

Server == PipelineNext /\ UNCHANGED barrierVars

\* The call has returned and the server is idle.
Idle == pc = "done" /\ Settled /\ UNCHANGED vars

Next ==
    \/ ServerReplies \/ BlankReply \/ ScrapeFails \/ SlowScrape
    \/ ReceiveGauge \/ ReceivePlateau \/ ReceiveAbsent
    \/ Sleep
    \/ Server
    \/ Idle

\* The runtime runs the client, the clock runs, the workers work.
ClientFairness ==
    /\ WF_vars(Loop)
    /\ WF_vars(SlowScrape)
    /\ WF_vars(Work /\ UNCHANGED barrierVars)

\* Every scrape ends, with an answer or an error.  The code does not see to it.
ScrapesEnd == WF_vars(ServerReplies \/ BlankReply \/ ScrapeFails)

Spec == Init /\ [][Next]_vars
FairSpec == Spec /\ ClientFairness /\ ScrapesEnd
HangSpec == Spec /\ ClientFairness

-----------------------------------------------------------------------------
\* The flush rests on a signal the code calls exact: the gauge, or on a legacy
\* server the plateau.  A plateau on a server that has the gauge, which has not
\* shown it to this call yet, is a guess.
Trusted == outcome.via = "gauge" \/ (outcome.via = "plateau" /\ legacy)

\* A barrier that reports `flushed' by a trusted signal has waited for the whole
\* pipeline: no unit of work is left, not even in a handoff that no gauge shows.
FlushedMeansSettled == Trusted => Settled

\* The counters a flushed barrier reports are those the pipeline ends with, so
\* the write section of a report is not a snapshot taken too early.
FlushedCountersAreFinal ==
    Trusted => outcome.stats = [ex |-> extracted, em |-> embedded]

\* wait_for_write_flush returns, at the latest after the cap.
EventuallyReturns == <>(pc = "done")

\* "returns once every write-path worker reports an empty queue" (drain.rs:105).
EveryQueueEmptyWhenFlushed ==
    outcome.via = "gauge" => Queued(DRAIN_WORKERS) = {}

Contract == INSTANCE DrainContract WITH
    pipeline <- IF Settled THEN "settled" ELSE "busy",
    verdict <- IF pc # "done" THEN "waiting"
               ELSE IF Trusted THEN "settled"
               ELSE IF outcome.flushed THEN "guessed"
               ELSE "gave_up"

\* The barrier implements its contract: it answers once, and `settled' only of
\* a pipeline that has settled for good.
ImplementsContract == Contract!Spec

=============================================================================
