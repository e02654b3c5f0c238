---------------------------- MODULE WritePipeline ----------------------------
(***************************************************************************)
(* The asynchronous tail of Brain's write path, as the evaluation client   *)
(* sees it.  Brain is not part of this repository: this module is the      *)
(* environment that src/src/client/drain.rs describes and relies on.       *)
(*                                                                         *)
(* An ENCODE is acked before its work is done.  The acked memory passes    *)
(* through the extractor, then statement embedding, then the three         *)
(* derived-edge workers.  One (memory, worker) pair is a unit of work:     *)
(*   blocked  - the worker that feeds this one has not finished            *)
(*   handoff  - handed to the worker and not yet in its queue: no gauge    *)
(*              counts it                                                  *)
(*   queued   - in the worker's queue, counted by its gauge                *)
(*   done                                                                  *)
(***************************************************************************)
EXTENDS Integers, FiniteSets

CONSTANTS
    EdgeWorkers,   \* auto_edge, temporal_edge and causal_edge in the code
    Memories,      \* the memories acked before the barrier starts
    HandoffPolls,  \* how many polls one handoff can straddle
    QueuePolls,    \* how many polls a unit stays queued on a legacy server
    GaugeSets      \* the sets of gauges a scrape of a current server may show

VARIABLES
    unit,       \* unit[m][w]: the state of m's work at w
    waited,     \* waited[m][w]: the polls this unit has straddled in its state
    extracted,  \* brain_extractor_items_written_total
    embedded,   \* brain_statement_embed_rows_embedded_total
    published,  \* the workers whose brain_worker_pending_work is on /metrics
    legacy      \* the server predates the gauge

pipelineVars == <<unit, waited, extracted, embedded, published, legacy>>

DRAIN_WORKERS == {"extractor", "statement_embed"} \cup EdgeWorkers

ASSUME PipelineAssumption ==
    /\ IsFiniteSet(EdgeWorkers)
    /\ EdgeWorkers \cap {"ack", "extractor", "statement_embed"} = {}
    /\ IsFiniteSet(Memories)
    /\ HandoffPolls \in Nat
    /\ QueuePolls \in Nat
    /\ GaugeSets \subseteq SUBSET DRAIN_WORKERS

UnitStates == {"blocked", "handoff", "queued", "done"}

\* The worker whose output w consumes; the extractor consumes the ack itself.
Feeder(w) ==
    CASE w = "extractor" -> "ack"
      [] w = "statement_embed" -> "extractor"
      [] OTHER -> "statement_embed"

PipelineTypeOK ==
    /\ unit \in [Memories -> [DRAIN_WORKERS -> UnitStates]]
    /\ waited \in [Memories -> [DRAIN_WORKERS -> Nat]]
    /\ extracted \in Nat
    /\ embedded \in Nat
    /\ published \in SUBSET DRAIN_WORKERS
    /\ legacy \in BOOLEAN

Acked == [w \in DRAIN_WORKERS |-> IF Feeder(w) = "ack" THEN "handoff" ELSE "blocked"]

PipelineInit ==
    /\ unit = [m \in Memories |-> Acked]
    /\ waited = [m \in Memories |-> [w \in DRAIN_WORKERS |-> 0]]
    /\ extracted = 0
    /\ embedded = 0
    /\ legacy \in BOOLEAN
    /\ IF legacy THEN published = {} ELSE published \in GaugeSets

\* A worker takes a unit off the handoff and into its queue.
PickUp(m, w) ==
    /\ unit[m][w] = "handoff"
    /\ unit' = [unit EXCEPT ![m][w] = "queued"]
    /\ waited' = [waited EXCEPT ![m][w] = 0]
    /\ UNCHANGED <<extracted, embedded, published, legacy>>

\* A worker finishes a unit and hands its output on.  A unit may yield nothing
\* (an extraction without statements), so the counters move by 0 or 1.
Finish(m, w) ==
    /\ unit[m][w] = "queued"
    /\ unit' = [unit EXCEPT ![m] =
                  [v \in DRAIN_WORKERS |->
                     IF v = w THEN "done"
                     ELSE IF Feeder(v) = w THEN "handoff"
                     ELSE unit[m][v]]]
    /\ \E n \in {0, 1} :
         /\ extracted' = IF w = "extractor" THEN extracted + n ELSE extracted
         /\ embedded' = IF w = "statement_embed" THEN embedded + n ELSE embedded
    /\ UNCHANGED <<waited, published, legacy>>

\* The series a current server shows change as workers register or restart.
Republish ==
    /\ ~legacy
    /\ \E G \in GaugeSets \ {published} : published' = G
    /\ UNCHANGED <<unit, waited, extracted, embedded, legacy>>

Work == \E m \in Memories, w \in DRAIN_WORKERS : PickUp(m, w) \/ Finish(m, w)

PipelineNext == Work \/ Republish

-----------------------------------------------------------------------------
(***************************************************************************)
(* Timing, counted in polls.  A handoff straddles at most HandoffPolls     *)
(* polls; polls are a DRAIN_INTERVAL apart, so HandoffPolls = 1 says that  *)
(* a handoff is shorter than 250 ms.  A queue may hold a unit for ever on  *)
(* a current server; on a legacy one it holds it at most QueuePolls polls, *)
(* the guess a counter plateau rests on.                                   *)
(***************************************************************************)
Bounded(m, w) == unit[m][w] = "handoff" \/ (legacy /\ unit[m][w] = "queued")

PollLimit(m, w) == IF unit[m][w] = "handoff" THEN HandoffPolls ELSE QueuePolls

\* No unit has used up the polls it may straddle: one more may happen.
PollAllowed ==
    \A m \in Memories, w \in DRAIN_WORKERS :
        Bounded(m, w) => waited[m][w] < PollLimit(m, w)

\* One poll passes for every unit whose stay is bounded.
PollPasses ==
    waited' = [m \in Memories |->
                 [w \in DRAIN_WORKERS |->
                    IF Bounded(m, w) THEN waited[m][w] + 1 ELSE waited[m][w]]]

-----------------------------------------------------------------------------
Queued(W) ==
    {u \in Memories \X W : unit[u[1]][u[2]] = "queued"}

\* Every write is extracted, embedded and linked: reads see the whole graph.
Settled == \A m \in Memories, w \in DRAIN_WORKERS : unit[m][w] = "done"

=============================================================================
