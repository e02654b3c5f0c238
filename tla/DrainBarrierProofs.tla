------------------------- MODULE DrainBarrierProofs -------------------------
(***************************************************************************)
(* Proofs about DrainBarrier: the barrier's verdict is sound whenever the  *)
(* polls outlast the time a write can spend where no signal shows it.      *)
(***************************************************************************)
EXTENDS DrainBarrier, FiniteSetTheorems, TLAPS

LEMMA WorkersFinite == IsFiniteSet(DRAIN_WORKERS)
<1>1. DRAIN_WORKERS = {"extractor"} \cup ({"statement_embed"} \cup EdgeWorkers)
  BY DEF DRAIN_WORKERS
<1> QED
  BY <1>1, PipelineAssumption, FS_Singleton, FS_Union

\* Every action keeps the types of pipeline and barrier.
THEOREM TypeCorrect == Spec => []TypeOK
<1> USE PipelineAssumption, BarrierAssumption DEF TypeOK, PipelineTypeOK, Counters,
        Outcomes, Absent, NoReply
<1>1. Init => TypeOK
  <2> SUFFICES ASSUME Init PROVE TypeOK
    OBVIOUS
  <2>1. unit \in [Memories -> [DRAIN_WORKERS -> UnitStates]]
    BY DEF Init, PipelineInit, Acked, UnitStates
  <2>2. published \in SUBSET DRAIN_WORKERS /\ legacy \in BOOLEAN
    BY DEF Init, PipelineInit
  <2>3. reply \in [pending : Nat \cup {Absent}, stats : Counters] /\ outcome \in Outcomes
    BY DEF Init
  <2>4. /\ pc \in {"scrape", "reply", "sleep", "done"}
        /\ elapsed \in Nat /\ stable \in Nat /\ gaugeSeen \in BOOLEAN
        /\ last \in Counters
    BY DEF Init
  <2>6. plateau \in [last : Int, stable : Nat]
    BY DEF Init
  <2>5. waited \in [Memories -> [DRAIN_WORKERS -> Nat]] /\ extracted \in Nat /\ embedded \in Nat
    BY DEF Init, PipelineInit
  <2> QED
    BY <2>1, <2>2, <2>3, <2>4, <2>5, <2>6
<1>2. TypeOK /\ [Next]_vars => TypeOK'
  <2> SUFFICES ASSUME TypeOK, [Next]_vars PROVE TypeOK'
    OBVIOUS
  <2>3. CASE ServerReplies
    <3>1. PendingWriteWork \in Nat \cup {-1}
      <4>1. IsFiniteSet(Memories \X DRAIN_WORKERS)
        BY WorkersFinite, FS_Product
      <4>2. Queued(published) \subseteq Memories \X DRAIN_WORKERS
        BY DEF Queued
      <4>3. Cardinality(Queued(published)) \in Nat
        BY <4>1, <4>2, FS_Subset, FS_CardinalityType
      <4> QED
        BY <4>3 DEF PendingWriteWork
    <3>2. waited' \in [Memories -> [DRAIN_WORKERS -> Nat]]
      BY <2>3 DEF ServerReplies, PollPasses
    <3> QED
      BY <2>3, <3>1, <3>2 DEF ServerReplies
  <2>4. CASE BlankReply \/ ScrapeFails
    BY <2>4 DEF BlankReply, ScrapeFails, pipelineVars
  <2>5. CASE SlowScrape
    BY <2>5 DEF SlowScrape, pipelineVars, Ticked
  <2>6. CASE ReceiveGauge
    <3>1. stable' \in Nat /\ last' \in Counters /\ reply' = NoReply /\ gaugeSeen' \in BOOLEAN
      BY <2>6 DEF ReceiveGauge
    <3>2. pc' \in {"sleep", "done"} /\ outcome' \in Outcomes
      <4>1. CASE FlushedVia("gauge")
        BY <2>6, <4>1 DEF ReceiveGauge, FlushedVia
      <4>2. CASE PollAgain
        BY <4>2 DEF PollAgain
      <4> QED
        BY <2>6, <4>1, <4>2 DEF ReceiveGauge
    <3> QED
      BY <2>6, <3>1, <3>2 DEF ReceiveGauge, pipelineVars
  <2>7. CASE ReceivePlateau
    <3>1. plateau' \in [last : Int, stable : Nat]
      BY <2>7 DEF ReceivePlateau
    <3>2. pc' \in {"sleep", "done"} /\ outcome' \in Outcomes
      <4>1. CASE FlushedVia("plateau")
        BY <2>7, <4>1 DEF ReceivePlateau, FlushedVia
      <4>2. CASE PollAgain
        BY <4>2 DEF PollAgain
      <4> QED
        BY <2>7, <4>1, <4>2 DEF ReceivePlateau
    <3>3. last' \in Counters /\ reply' = NoReply
      BY <2>7 DEF ReceivePlateau
    <3> QED
      BY <2>7, <3>1, <3>2, <3>3 DEF ReceivePlateau, pipelineVars
  <2>8. CASE ReceiveAbsent
    BY <2>8 DEF ReceiveAbsent, pipelineVars, PollAgain
  <2>9. CASE Sleep
    <3>1. elapsed' \in Nat
      BY <2>9 DEF Sleep, Ticked
    <3>2. pc' \in {"scrape", "done"} /\ outcome' \in Outcomes
      <4>1. CASE BeforeCap'
        BY <2>9, <4>1 DEF Sleep
      <4>2. CASE ~BeforeCap'
        <5>1. pc' = "done" /\ outcome' = [via |-> "cap", flushed |-> FALSE, stats |-> last]
          BY <2>9, <4>2 DEF Sleep
        <5>2. last \in [ex : Nat, em : Nat]
          OBVIOUS
        <5> QED
          BY <5>1, <5>2
      <4> QED
        BY <4>1, <4>2
    <3> QED
      BY <2>9, <3>1, <3>2 DEF Sleep, pipelineVars
  <2>10. ASSUME NEW m \in Memories, NEW w \in DRAIN_WORKERS, PickUp(m, w),
                UNCHANGED barrierVars
         PROVE  TypeOK'
    BY <2>10 DEF PickUp, barrierVars, UnitStates
  <2>11. ASSUME NEW m \in Memories, NEW w \in DRAIN_WORKERS, Finish(m, w),
                UNCHANGED barrierVars
         PROVE  TypeOK'
    <3>1. unit' \in [Memories -> [DRAIN_WORKERS -> UnitStates]]
      BY <2>11 DEF Finish, UnitStates
    <3>2. extracted' \in Nat /\ embedded' \in Nat
      BY <2>11 DEF Finish
    <3> QED
      BY <2>11, <3>1, <3>2 DEF Finish, barrierVars
  <2>12. CASE Republish /\ UNCHANGED barrierVars
    BY <2>12 DEF Republish, barrierVars
  <2>13. CASE UNCHANGED vars
    BY <2>13 DEF vars, pipelineVars, barrierVars
  <2> QED
    BY <2>3, <2>4, <2>5, <2>6, <2>7, <2>8, <2>9, <2>10, <2>11, <2>12, <2>13
    DEF Next, Server, PipelineNext, Work, Idle
<1> QED
  BY <1>1, <1>2, PTL DEF Spec

-----------------------------------------------------------------------------
(***************************************************************************)
(* The pipeline on its own: how a unit of work advances and ages.          *)
(***************************************************************************)

\* A unit is blocked exactly while the worker that feeds it has not finished.
Chain ==
    \A m \in Memories, w \in DRAIN_WORKERS :
        unit[m][w] = "blocked" <=> (Feeder(w) # "ack" /\ unit[m][Feeder(w)] # "done")

\* No unit has straddled more polls than its stay allows.
WaitBounds ==
    \A m \in Memories, w \in DRAIN_WORKERS :
        /\ unit[m][w] = "handoff" => waited[m][w] <= HandoffPolls
        /\ legacy /\ unit[m][w] = "queued" => waited[m][w] <= QueuePolls
        /\ unit[m][w] = "blocked" => waited[m][w] = 0

Gauges == IF legacy THEN published = {} ELSE published \in GaugeSets

PipelineInv == TypeOK /\ Chain /\ WaitBounds /\ Gauges

Ready(m, w) == unit[m][w] \in {"handoff", "queued"}

\* The feeders, spelled out.
LEMMA FeederValues ==
    /\ Feeder("extractor") = "ack"
    /\ Feeder("statement_embed") = "extractor"
    /\ \A w \in DRAIN_WORKERS \ {"extractor", "statement_embed"} :
          Feeder(w) = "statement_embed"
    /\ \A w \in DRAIN_WORKERS : Feeder(w) \in DRAIN_WORKERS \cup {"ack"} /\ Feeder(w) # w
    /\ "ack" \notin DRAIN_WORKERS
    /\ {"extractor", "statement_embed"} \subseteq DRAIN_WORKERS
BY PipelineAssumption DEF Feeder, DRAIN_WORKERS

\* What a step can do to the pipeline.
LEMMA StepKinds ==
    ASSUME [Next]_vars
    PROVE  \/ UNCHANGED pipelineVars
           \/ ServerReplies
           \/ Republish /\ UNCHANGED barrierVars
           \/ \E m \in Memories, w \in DRAIN_WORKERS :
                 (PickUp(m, w) \/ Finish(m, w)) /\ UNCHANGED barrierVars
BY DEF Next, Server, PipelineNext, Work, Idle, vars, BlankReply, ScrapeFails,
       SlowScrape, ReceiveGauge, ReceivePlateau, ReceiveAbsent, Sleep

\* When no unit is ready, none is blocked either: everything is done.
LEMMA SettledWhenNoneReady ==
    ASSUME TypeOK, Chain, \A m \in Memories, w \in DRAIN_WORKERS : ~Ready(m, w)
    PROVE  Settled
<1> SUFFICES ASSUME NEW m \in Memories, NEW w \in DRAIN_WORKERS PROVE unit[m][w] = "done"
  BY DEF Settled
<1>1. \A v \in DRAIN_WORKERS : unit[m][v] \in {"blocked", "done"}
  BY DEF TypeOK, PipelineTypeOK, UnitStates, Ready
<1>2. unit[m]["extractor"] = "done"
  BY <1>1, FeederValues DEF Chain
<1>3. unit[m]["statement_embed"] = "done"
  BY <1>1, <1>2, FeederValues DEF Chain
<1>4. CASE w \in {"extractor", "statement_embed"}
  BY <1>2, <1>3, <1>4
<1>5. CASE w \notin {"extractor", "statement_embed"}
  BY <1>1, <1>3, <1>5, FeederValues DEF Chain
<1> QED
  BY <1>4, <1>5

\* A settled pipeline stays settled, and its counters stay where they are.
LEMMA SettledStays ==
    ASSUME Settled, [Next]_vars
    PROVE  Settled' /\ extracted' = extracted /\ embedded' = embedded
<1>1. CASE UNCHANGED pipelineVars
  BY <1>1 DEF pipelineVars, Settled
<1>2. CASE ServerReplies
  BY <1>2 DEF ServerReplies, Settled
<1>3. CASE Republish
  BY <1>3 DEF Republish, Settled
<1>4. ASSUME NEW m \in Memories, NEW w \in DRAIN_WORKERS, PickUp(m, w) \/ Finish(m, w)
      PROVE  FALSE
  BY <1>4 DEF PickUp, Finish, Settled
<1> QED
  BY <1>1, <1>2, <1>3, <1>4, StepKinds

LEMMA PipelineInvariant == Spec => []PipelineInv
<1> USE PipelineAssumption
<1>1. Init => Chain /\ WaitBounds /\ Gauges
  <2> SUFFICES ASSUME Init PROVE Chain /\ WaitBounds /\ Gauges
    OBVIOUS
  <2>1. \A m \in Memories, w \in DRAIN_WORKERS :
          /\ unit[m][w] = IF Feeder(w) = "ack" THEN "handoff" ELSE "blocked"
          /\ waited[m][w] = 0
    BY DEF Init, PipelineInit, Acked
  <2>2. Chain
    BY <2>1, FeederValues DEF Chain
  <2>3. WaitBounds
    BY <2>1 DEF WaitBounds
  <2> QED
    BY <2>2, <2>3 DEF Init, PipelineInit, Gauges
<1>2. TypeOK /\ Chain /\ WaitBounds /\ Gauges /\ [Next]_vars
        => Chain' /\ WaitBounds' /\ Gauges'
  <2> SUFFICES ASSUME TypeOK, Chain, WaitBounds, Gauges, [Next]_vars
               PROVE  Chain' /\ WaitBounds' /\ Gauges'
    OBVIOUS
  <2>1. CASE UNCHANGED pipelineVars
    BY <2>1 DEF pipelineVars, Chain, WaitBounds, Gauges
  <2>2. CASE ServerReplies
    <3>1. WaitBounds'
      BY <2>2 DEF ServerReplies, PollAllowed, PollPasses, Bounded, PollLimit, WaitBounds,
              TypeOK, PipelineTypeOK
    <3> QED
      BY <2>2, <3>1 DEF ServerReplies, Chain, Gauges
  <2>3. CASE Republish
    BY <2>3 DEF Republish, Chain, WaitBounds, Gauges
  <2>4. ASSUME NEW m \in Memories, NEW w \in DRAIN_WORKERS, PickUp(m, w)
        PROVE  Chain' /\ WaitBounds' /\ Gauges'
    <3>1. \A n \in Memories, v \in DRAIN_WORKERS :
            /\ unit'[n][v] = IF n = m /\ v = w THEN "queued" ELSE unit[n][v]
            /\ waited'[n][v] = IF n = m /\ v = w THEN 0 ELSE waited[n][v]
      BY <2>4 DEF PickUp, TypeOK, PipelineTypeOK
    <3>2. unit[m][w] = "handoff"
      BY <2>4 DEF PickUp
    <3>3. Chain'
      BY <3>1, <3>2, FeederValues DEF Chain
    <3>4. WaitBounds'
      BY <2>4, <3>1, <3>2 DEF WaitBounds, PickUp
    <3> QED
      BY <2>4, <3>3, <3>4 DEF Gauges, PickUp
  <2>5. ASSUME NEW m \in Memories, NEW w \in DRAIN_WORKERS, Finish(m, w)
        PROVE  Chain' /\ WaitBounds' /\ Gauges'
    <3>1. \A n \in Memories, v \in DRAIN_WORKERS :
            unit'[n][v] = IF n # m THEN unit[n][v]
                          ELSE IF v = w THEN "done"
                          ELSE IF Feeder(v) = w THEN "handoff"
                          ELSE unit[n][v]
      BY <2>5 DEF Finish, TypeOK, PipelineTypeOK
    <3>2. unit[m][w] = "queued" /\ waited' = waited /\ legacy' = legacy
          /\ published' = published
      BY <2>5 DEF Finish
    <3>3. \A v \in DRAIN_WORKERS : Feeder(v) = w => unit[m][v] = "blocked"
      BY <3>2, FeederValues DEF Chain
    <3>4. Chain'
      BY <3>1, <3>2, <3>3, FeederValues DEF Chain
    <3>5. WaitBounds'
      BY <3>1, <3>2, <3>3 DEF WaitBounds
    <3> QED
      BY <3>2, <3>4, <3>5 DEF Gauges
  <2> QED
    BY <2>1, <2>2, <2>3, <2>4, <2>5, StepKinds
<1> QED
  BY <1>1, <1>2, TypeCorrect, PTL DEF Spec, PipelineInv

-----------------------------------------------------------------------------
(***************************************************************************)
(* The barrier against the pipeline.  Along its path a unit goes through   *)
(* three handoffs.  The polls it has straddled where no gauge counts it    *)
(* bound `stable' from above while it is unfinished, and on a legacy       *)
(* server the polls it has straddled at all bound the plateau.  When the   *)
(* thresholds exceed what a whole path can straddle, nothing is left.      *)
(***************************************************************************)

\* The server shows all gauges or none, and the polls outlast a path.
PollsOutlastPath ==
    /\ GaugeSets \subseteq {DRAIN_WORKERS, {}}
    /\ 3 * HandoffPolls < DRAIN_STABLE_POLLS
    /\ 3 * (HandoffPolls + QueuePolls) < PLATEAU_POLLS

\* k polls for each worker that comes before w on the path.
Before(w, k) ==
    CASE w = "extractor" -> 0
      [] w = "statement_embed" -> k
      [] OTHER -> 2 * k

\* The polls m's work has straddled up to its state at w: in handoffs, and at all.
HiddenPolls(m, w) ==
    Before(w, HandoffPolls) +
        IF unit[m][w] = "handoff" THEN waited[m][w] ELSE HandoffPolls
BusyPolls(m, w) ==
    Before(w, HandoffPolls + QueuePolls) + waited[m][w] +
        IF unit[m][w] = "handoff" THEN 0 ELSE HandoffPolls

EmptyReply == pc = "reply" /\ reply.pending = 0
PlateauReply ==
    /\ pc = "reply" /\ reply.pending = Absent
    /\ reply.stats.ex + reply.stats.em = plateau.last

StableBound ==
    \A m \in Memories, w \in DRAIN_WORKERS :
        Ready(m, w) => stable + (IF EmptyReply THEN 1 ELSE 0) <= HiddenPolls(m, w)

PlateauBound ==
    \A m \in Memories, w \in DRAIN_WORKERS :
        legacy /\ plateau.last > 0 /\ Ready(m, w)
            => plateau.stable + (IF PlateauReply THEN 1 ELSE 0) <= BusyPolls(m, w)

\* The work is over and these are its counters.
Final(stats) == Settled /\ stats = [ex |-> extracted, em |-> embedded]

\* A snapshot that can end the wait was taken of a settled pipeline.
ReplyExact ==
    /\ EmptyReply /\ stable + 1 >= DRAIN_STABLE_POLLS => Final(reply.stats)
    /\ PlateauReply /\ legacy /\ plateau.last > 0 /\ plateau.stable + 1 >= PLATEAU_POLLS
         => Final(reply.stats)

OutcomeExact ==
    /\ Trusted => Final(outcome.stats)
    /\ pc # "done" => outcome.via = "none"

BarrierInv == StableBound /\ PlateauBound /\ ReplyExact /\ OutcomeExact

\* What one worker hands on is within the bound of the next.
LEMMA BeforeValues ==
    ASSUME NEW k \in Nat, NEW w \in DRAIN_WORKERS
    PROVE  /\ Before(w, k) \in Nat /\ Before(w, k) + k <= 3 * k
           /\ \A v \in DRAIN_WORKERS : Feeder(v) = w => Before(v, k) = Before(w, k) + k
<1>1. \A v \in DRAIN_WORKERS \ {"extractor", "statement_embed"} :
        /\ Before(v, k) = 2 * k
        /\ Feeder(v) = "statement_embed"
  BY DEF Before, Feeder
<1>2. /\ Before("extractor", k) = 0 /\ Before("statement_embed", k) = k
      /\ Feeder("extractor") = "ack" /\ Feeder("statement_embed") = "extractor"
      /\ "ack" \notin DRAIN_WORKERS
  BY PipelineAssumption DEF Before, Feeder, DRAIN_WORKERS
<1> QED
  BY <1>1, <1>2

\* Bounds on a unit that a step leaves alone stay what they are.
LEMMA UnitUnchanged ==
    ASSUME NEW n \in Memories, NEW v \in DRAIN_WORKERS,
           unit'[n][v] = unit[n][v], waited'[n][v] = waited[n][v]
    PROVE  /\ Ready(n, v)' <=> Ready(n, v)
           /\ HiddenPolls(n, v)' = HiddenPolls(n, v)
           /\ BusyPolls(n, v)' = BusyPolls(n, v)
BY DEF HiddenPolls, BusyPolls, Ready, Before

\* Final counters stay final.
LEMMA FinalStays ==
    ASSUME NEW stats, Final(stats), [Next]_vars
    PROVE  Settled' /\ stats = [ex |-> extracted', em |-> embedded']
BY SettledStays DEF Final

\* A step of the pipeline keeps the bounds: a pick-up spends at most what its
\* handoff allows, and a finished unit hands its polls on to the units it feeds.
LEMMA WorkKeepsBounds ==
    ASSUME PipelineInv, StableBound, PlateauBound, UNCHANGED barrierVars,
           NEW m \in Memories, NEW w \in DRAIN_WORKERS, PickUp(m, w) \/ Finish(m, w)
    PROVE  StableBound' /\ PlateauBound'
<1> USE PipelineAssumption
<1> DEFINE S == stable + (IF EmptyReply THEN 1 ELSE 0)
           P == plateau.stable + (IF PlateauReply THEN 1 ELSE 0)
<1>0. /\ S' = S /\ P' = P
  BY DEF barrierVars, EmptyReply, PlateauReply
<1>1. S \in Nat /\ P \in Nat
  BY DEF PipelineInv, TypeOK
<1>2. \A n \in Memories, v \in DRAIN_WORKERS :
        /\ waited[n][v] \in Nat
        /\ Before(v, HandoffPolls) \in Nat
        /\ Before(v, HandoffPolls + QueuePolls) \in Nat
  <2>1. HandoffPolls \in Nat /\ HandoffPolls + QueuePolls \in Nat
    OBVIOUS
  <2>2. \A n \in Memories, v \in DRAIN_WORKERS : waited[n][v] \in Nat
    BY DEF PipelineInv, TypeOK, PipelineTypeOK
  <2> QED
    BY <2>1, <2>2, BeforeValues
<1>3. legacy' = legacy
  BY DEF PickUp, Finish
<1> DEFINE counting == legacy /\ plateau.last > 0
<1>4. SUFFICES ASSUME NEW n \in Memories, NEW v \in DRAIN_WORKERS, Ready(n, v)'
               PROVE  /\ S <= HiddenPolls(n, v)'
                      /\ counting => P <= BusyPolls(n, v)'
  BY <1>0, <1>3 DEF StableBound, PlateauBound, barrierVars
<1>5. Ready(n, v) => S <= HiddenPolls(n, v) /\ (counting => P <= BusyPolls(n, v))
  BY DEF StableBound, PlateauBound
<1>6. CASE PickUp(m, w)
  <2>1. /\ unit'[n][v] = IF n = m /\ v = w THEN "queued" ELSE unit[n][v]
        /\ waited'[n][v] = IF n = m /\ v = w THEN 0 ELSE waited[n][v]
        /\ unit[m][w] = "handoff"
    BY <1>6 DEF PickUp, PipelineInv, TypeOK, PipelineTypeOK
  <2>2. CASE n = m /\ v = w
    <3>1. waited[m][w] <= HandoffPolls
      BY <2>1 DEF PipelineInv, WaitBounds
    <3>2. Ready(n, v)
      BY <2>1, <2>2 DEF Ready
    <3> QED
      BY <1>1, <1>2, <1>5, <2>1, <2>2, <3>1, <3>2 DEF HiddenPolls, BusyPolls
  <2>3. CASE ~(n = m /\ v = w)
    <3>1. unit'[n][v] = unit[n][v] /\ waited'[n][v] = waited[n][v]
      BY <2>1, <2>3
    <3> QED
      BY <1>4, <1>5, <3>1, UnitUnchanged
  <2> QED
    BY <2>2, <2>3
<1>7. CASE Finish(m, w)
  <2>1. /\ unit'[n][v] = IF n # m THEN unit[n][v]
                         ELSE IF v = w THEN "done"
                         ELSE IF Feeder(v) = w THEN "handoff"
                         ELSE unit[n][v]
        /\ waited' = waited
        /\ unit[m][w] = "queued"
    BY <1>7 DEF Finish, PipelineInv, TypeOK, PipelineTypeOK
  <2>2. CASE n = m /\ v # w /\ Feeder(v) = w
    <3>1. unit[m][v] = "blocked" /\ waited[m][v] = 0
      BY <2>1, <2>2, FeederValues DEF PipelineInv, Chain, WaitBounds
    <3>2. S <= Before(w, HandoffPolls) + HandoffPolls
      BY <1>1, <2>1 DEF StableBound, HiddenPolls, Ready
    <3>3. counting => P <= Before(w, HandoffPolls + QueuePolls) + HandoffPolls + QueuePolls
      <4>1. legacy => waited[m][w] <= QueuePolls
        BY <2>1 DEF PipelineInv, WaitBounds
      <4>2. counting => P <= Before(w, HandoffPolls + QueuePolls) + waited[m][w] + HandoffPolls
        BY <1>1, <2>1 DEF PlateauBound, BusyPolls, Ready
      <4> QED
        BY <1>1, <1>2, <4>1, <4>2
    <3>4. /\ Before(v, HandoffPolls) = Before(w, HandoffPolls) + HandoffPolls
          /\ Before(v, HandoffPolls + QueuePolls)
               = Before(w, HandoffPolls + QueuePolls) + (HandoffPolls + QueuePolls)
      BY <2>2, BeforeValues
    <3>5. unit'[n][v] = "handoff" /\ waited'[n][v] = 0
      BY <2>1, <2>2, <3>1
    <3> QED
      BY <1>1, <1>2, <3>2, <3>3, <3>4, <3>5 DEF HiddenPolls, BusyPolls
  <2>3. CASE ~(n = m /\ v # w /\ Feeder(v) = w)
    <3>1. unit'[n][v] = unit[n][v] /\ waited'[n][v] = waited[n][v]
      BY <1>4, <2>1, <2>3 DEF Ready
    <3> QED
      BY <1>4, <1>5, <3>1, UnitUnchanged
  <2> QED
    BY <2>2, <2>3
<1> QED
  BY <1>6, <1>7

\* A poll of the server costs every unit that no gauge shows one of its polls, so
\* a snapshot that ends the wait finds no unit left.
LEMMA RepliesKeepBarrierInv ==
    ASSUME PollsOutlastPath, PipelineInv, PipelineInv', BarrierInv, ServerReplies
    PROVE  BarrierInv'
<1> USE PipelineAssumption, BarrierAssumption
<1>1. /\ pc = "scrape" /\ pc' = "reply"
      /\ unit' = unit /\ legacy' = legacy /\ extracted' = extracted /\ embedded' = embedded
      /\ stable' = stable /\ plateau' = plateau /\ outcome' = outcome
      /\ reply'.pending = PendingWriteWork
      /\ reply'.stats = [ex |-> extracted, em |-> embedded]
  BY DEF ServerReplies
<1>2. /\ \A m \in Memories, w \in DRAIN_WORKERS :
            /\ unit[m][w] \in UnitStates
            /\ waited[m][w] \in Nat
            /\ waited'[m][w] = IF Bounded(m, w) THEN waited[m][w] + 1 ELSE waited[m][w]
            /\ waited'[m][w] \in Nat
      /\ stable \in Nat /\ plateau.stable \in Nat
  BY DEF PipelineInv, TypeOK, PipelineTypeOK, ServerReplies, PollPasses
<1>3. \A m \in Memories, w \in DRAIN_WORKERS :
        /\ Before(w, HandoffPolls) \in Nat
        /\ Before(w, HandoffPolls + QueuePolls) \in Nat
        /\ Before(w, HandoffPolls) + HandoffPolls <= 3 * HandoffPolls
        /\ Before(w, HandoffPolls + QueuePolls) + (HandoffPolls + QueuePolls)
             <= 3 * (HandoffPolls + QueuePolls)
  <2>1. HandoffPolls \in Nat /\ HandoffPolls + QueuePolls \in Nat
    OBVIOUS
  <2> QED
    BY <2>1, BeforeValues
<1>4. reply'.pending = 0 => ~legacy /\ Queued(DRAIN_WORKERS) = {}
  <2> SUFFICES ASSUME reply'.pending = 0 PROVE ~legacy /\ Queued(DRAIN_WORKERS) = {}
    OBVIOUS
  <2>1. published # {} /\ Cardinality(Queued(published)) = 0
    BY <1>1 DEF PendingWriteWork, Absent
  <2>2. ~legacy /\ published = DRAIN_WORKERS
    BY <2>1 DEF PipelineInv, Gauges, PollsOutlastPath
  <2>3. IsFiniteSet(Queued(published))
    <3>1. Queued(published) \subseteq Memories \X DRAIN_WORKERS
      BY <2>2 DEF Queued
    <3> QED
      BY <3>1, WorkersFinite, FS_Product, FS_Subset
  <2> QED
    BY <2>1, <2>2, <2>3, FS_EmptySet
<1>5. ASSUME NEW m \in Memories, NEW w \in DRAIN_WORKERS, Ready(m, w)'
      PROVE  /\ stable' + (IF EmptyReply' THEN 1 ELSE 0) <= HiddenPolls(m, w)'
             /\ HiddenPolls(m, w)' <= 3 * HandoffPolls
  <2>1. Ready(m, w)
    BY <1>1, <1>5 DEF Ready
  <2>2. stable <= HiddenPolls(m, w)
    BY <1>1, <1>2, <2>1 DEF BarrierInv, StableBound, EmptyReply
  <2>3. EmptyReply' => unit[m][w] = "handoff"
    <3>1. EmptyReply' => <<m, w>> \notin Queued(DRAIN_WORKERS)
      BY <1>4 DEF EmptyReply
    <3>2. <<m, w>> \in Memories \X DRAIN_WORKERS
      OBVIOUS
    <3> QED
      BY <2>1, <3>1, <3>2 DEF Ready, Queued
  <2>4. CASE unit[m][w] = "handoff"
    <3>1. waited'[m][w] = waited[m][w] + 1 /\ waited'[m][w] <= HandoffPolls
      BY <1>1, <1>2, <2>4 DEF Bounded, PipelineInv, WaitBounds
    <3> QED
      BY <1>1, <1>2, <1>3, <2>2, <2>4, <3>1 DEF HiddenPolls
  <2>5. CASE unit[m][w] # "handoff"
    BY <1>1, <1>2, <1>3, <2>2, <2>3, <2>5 DEF HiddenPolls
  <2> QED
    BY <2>4, <2>5
<1>6. ASSUME legacy', plateau'.last > 0,
             NEW m \in Memories, NEW w \in DRAIN_WORKERS, Ready(m, w)'
      PROVE  /\ plateau'.stable + (IF PlateauReply' THEN 1 ELSE 0) <= BusyPolls(m, w)'
             /\ BusyPolls(m, w)' <= 3 * (HandoffPolls + QueuePolls)
  <2>1. Ready(m, w) /\ legacy /\ plateau.last > 0
    BY <1>1, <1>6 DEF Ready
  <2>2. plateau.stable <= BusyPolls(m, w)
    BY <1>1, <1>2, <2>1 DEF BarrierInv, PlateauBound, PlateauReply
  <2>3. waited'[m][w] = waited[m][w] + 1
    BY <1>2, <2>1 DEF Ready, Bounded
  <2>4. CASE unit[m][w] = "handoff"
    <3>1. waited'[m][w] <= HandoffPolls
      BY <1>1, <2>4 DEF PipelineInv, WaitBounds
    <3> QED
      BY <1>1, <1>2, <1>3, <2>2, <2>3, <2>4, <3>1 DEF BusyPolls
  <2>5. CASE unit[m][w] = "queued"
    <3>1. waited'[m][w] <= QueuePolls
      BY <1>1, <2>1, <2>5 DEF PipelineInv, WaitBounds
    <3> QED
      BY <1>1, <1>2, <1>3, <2>2, <2>3, <2>5, <3>1 DEF BusyPolls
  <2> QED
    BY <2>1, <2>4, <2>5 DEF Ready
<1>7. StableBound' /\ PlateauBound'
  BY <1>5, <1>6 DEF StableBound, PlateauBound
<1>8. ASSUME \A m \in Memories, w \in DRAIN_WORKERS : ~Ready(m, w)'
      PROVE  Final(reply.stats)'
  <2>1. \A m \in Memories, w \in DRAIN_WORKERS : ~Ready(m, w)
    BY <1>1, <1>8 DEF Ready
  <2>2. Settled
    BY <2>1, SettledWhenNoneReady DEF PipelineInv
  <2> QED
    BY <1>1, <2>2 DEF Final, Settled
<1>9. ReplyExact'
  <2>1. ASSUME EmptyReply', stable' + 1 >= DRAIN_STABLE_POLLS
        PROVE  Final(reply.stats)'
    <3>1. ASSUME NEW m \in Memories, NEW w \in DRAIN_WORKERS, Ready(m, w)'
          PROVE  FALSE
      <4>1. HiddenPolls(m, w)' \in Nat
        BY <1>2, <1>3 DEF HiddenPolls
      <4>2. stable' + 1 <= HiddenPolls(m, w)' /\ HiddenPolls(m, w)' <= 3 * HandoffPolls
        BY <1>5, <2>1, <3>1
      <4> QED
        BY <1>1, <1>2, <2>1, <4>1, <4>2 DEF PollsOutlastPath
    <3> QED
      BY <1>8, <3>1
  <2>2. ASSUME PlateauReply', legacy', plateau'.last > 0,
               plateau'.stable + 1 >= PLATEAU_POLLS
        PROVE  Final(reply.stats)'
    <3>1. ASSUME NEW m \in Memories, NEW w \in DRAIN_WORKERS, Ready(m, w)'
          PROVE  FALSE
      <4>1. BusyPolls(m, w)' \in Nat
        BY <1>2, <1>3 DEF BusyPolls
      <4>2. /\ plateau'.stable + 1 <= BusyPolls(m, w)'
            /\ BusyPolls(m, w)' <= 3 * (HandoffPolls + QueuePolls)
        BY <1>6, <2>2, <3>1
      <4> QED
        BY <1>1, <1>2, <2>2, <4>1, <4>2 DEF PollsOutlastPath
    <3> QED
      BY <1>8, <3>1
  <2> QED
    BY <2>1, <2>2 DEF ReplyExact
<1>10. OutcomeExact'
  BY <1>1 DEF BarrierInv, OutcomeExact, Trusted, Final, Settled
<1> QED
  BY <1>7, <1>9, <1>10 DEF BarrierInv

\* A blank answer neither shows an empty queue nor continues a plateau that counts.
LEMMA BlankKeepsBarrierInv ==
    ASSUME TypeOK, BarrierInv, BlankReply
    PROVE  BarrierInv'
<1>1. /\ unit' = unit /\ waited' = waited /\ legacy' = legacy
      /\ extracted' = extracted /\ embedded' = embedded
      /\ stable' = stable /\ plateau' = plateau /\ outcome' = outcome
      /\ pc = "scrape" /\ pc' = "reply" /\ reply' = NoReply
  BY DEF BlankReply, pipelineVars
<1>2. /\ ~EmptyReply /\ ~EmptyReply'
      /\ ~PlateauReply
      /\ PlateauReply' => plateau.last = 0
  BY <1>1 DEF EmptyReply, PlateauReply, NoReply, Absent
<1>3. \A m \in Memories, w \in DRAIN_WORKERS :
        /\ Ready(m, w)' <=> Ready(m, w)
        /\ HiddenPolls(m, w)' = HiddenPolls(m, w)
        /\ BusyPolls(m, w)' = BusyPolls(m, w)
  BY <1>1, UnitUnchanged
<1>4. plateau.last > 0 => ~PlateauReply'
  BY <1>2
<1>5. StableBound' /\ PlateauBound'
  BY <1>1, <1>2, <1>3, <1>4 DEF BarrierInv, StableBound, PlateauBound
<1>6. ReplyExact' /\ OutcomeExact'
  BY <1>1, <1>2, <1>4 DEF BarrierInv, ReplyExact, OutcomeExact, Trusted, Final, Settled
<1> QED
  BY <1>5, <1>6 DEF BarrierInv

\* What the client does between two replies leaves the bounds alone, and it
\* returns `flushed' only of a snapshot that ends the wait.
LEMMA ClientKeepsBarrierInv ==
    ASSUME TypeOK, BarrierInv,
           \/ ScrapeFails \/ SlowScrape \/ Sleep
           \/ ReceiveGauge \/ ReceivePlateau \/ ReceiveAbsent
    PROVE  BarrierInv'
<1> USE PipelineAssumption, BarrierAssumption
<1>1. /\ unit' = unit /\ waited' = waited /\ legacy' = legacy
      /\ extracted' = extracted /\ embedded' = embedded
  BY DEF ScrapeFails, SlowScrape, Sleep,
         ReceiveGauge, ReceivePlateau, ReceiveAbsent, pipelineVars
<1>2. \A m \in Memories, w \in DRAIN_WORKERS :
        /\ Ready(m, w)' <=> Ready(m, w)
        /\ HiddenPolls(m, w)' = HiddenPolls(m, w)
        /\ BusyPolls(m, w)' = BusyPolls(m, w)
  BY <1>1, UnitUnchanged
<1>3. \A m \in Memories, w \in DRAIN_WORKERS :
        /\ HiddenPolls(m, w) \in Nat
        /\ BusyPolls(m, w) \in Nat
  <2>1. HandoffPolls \in Nat /\ HandoffPolls + QueuePolls \in Nat
    OBVIOUS
  <2>2. \A m \in Memories, w \in DRAIN_WORKERS : waited[m][w] \in Nat
    BY DEF TypeOK, PipelineTypeOK
  <2> QED
    BY <2>1, <2>2, BeforeValues DEF HiddenPolls, BusyPolls
<1>4. stable \in Nat /\ plateau \in [last : Int, stable : Nat]
  BY DEF TypeOK
<1>5. ASSUME pc' # "reply" \/ (pc' = pc /\ reply' = reply),
             stable' = stable, plateau' = plateau
      PROVE  StableBound' /\ PlateauBound' /\ ReplyExact'
  <2>1. (EmptyReply' => EmptyReply) /\ (PlateauReply' => PlateauReply)
    BY <1>5 DEF EmptyReply, PlateauReply
  <2>2. StableBound' /\ PlateauBound'
    BY <1>1, <1>2, <1>3, <1>4, <1>5, <2>1 DEF BarrierInv, StableBound, PlateauBound
  <2>3. ReplyExact'
    BY <1>1, <1>5 DEF BarrierInv, ReplyExact, EmptyReply, PlateauReply, Final, Settled
  <2> QED
    BY <2>2, <2>3
<1>7. CASE ScrapeFails \/ SlowScrape
  <2>1. OutcomeExact'
    BY <1>1, <1>7 DEF ScrapeFails, SlowScrape, BarrierInv,
       OutcomeExact, Trusted, Final, Settled
  <2>2. /\ pc' # "reply" \/ (pc' = pc /\ reply' = reply)
        /\ stable' = stable /\ plateau' = plateau
    BY <1>7 DEF ScrapeFails, SlowScrape
  <2> QED
    BY <1>5, <2>1, <2>2 DEF BarrierInv
<1>8. CASE Sleep
  <2>1. /\ pc = "sleep" /\ pc' # "reply"
        /\ stable' = stable /\ plateau' = plateau
    BY <1>8 DEF Sleep
  <2>2. OutcomeExact'
    <3>1. CASE BeforeCap'
      BY <1>1, <1>8, <2>1, <3>1 DEF Sleep, BarrierInv, OutcomeExact, Trusted, Final, Settled
    <3>2. CASE ~BeforeCap'
      BY <1>8, <3>2 DEF Sleep, OutcomeExact, Trusted
    <3> QED
      BY <3>1, <3>2
  <2> QED
    BY <1>5, <2>1, <2>2 DEF BarrierInv
<1>9. CASE ReceiveAbsent
  <2>1. OutcomeExact'
    BY <1>1, <1>9 DEF ReceiveAbsent, PollAgain, BarrierInv, OutcomeExact, Trusted, Final, Settled
  <2> QED
    BY <1>5, <1>9, <2>1 DEF BarrierInv, ReceiveAbsent, PollAgain
<1>10. CASE ReceiveGauge
  <2>1. /\ pc = "reply" /\ pc' # "reply" /\ plateau' = plateau
        /\ stable' = IF reply.pending = 0 THEN stable + 1 ELSE 0
        /\ pc # "done"
    BY <1>10 DEF ReceiveGauge, FlushedVia, PollAgain
  <2>2. StableBound'
    BY <1>2, <1>3, <1>4, <2>1 DEF BarrierInv, StableBound, EmptyReply
  <2>3. PlateauBound'
    BY <1>1, <1>2, <1>3, <1>4, <2>1 DEF BarrierInv, PlateauBound, PlateauReply
  <2>4. OutcomeExact'
    <3>1. CASE PollAgain
      BY <1>1, <2>1, <3>1 DEF PollAgain, BarrierInv, OutcomeExact, Trusted, Final, Settled
    <3>2. CASE FlushedVia("gauge") /\ StableEnough(stable')
      <4>1. EmptyReply /\ stable + 1 >= DRAIN_STABLE_POLLS
        BY <1>4, <2>1, <3>2 DEF StableEnough, EmptyReply
      <4>2. Final(reply.stats)
        BY <4>1 DEF BarrierInv, ReplyExact
      <4> QED
        BY <1>1, <3>2, <4>2 DEF FlushedVia, OutcomeExact, Final, Settled
    <3> QED
      BY <1>10, <3>1, <3>2 DEF ReceiveGauge
  <2> QED
    BY <2>1, <2>2, <2>3, <2>4 DEF BarrierInv, ReplyExact, EmptyReply, PlateauReply
<1>11. CASE ReceivePlateau
  <2>1. /\ pc = "reply" /\ reply.pending = Absent /\ pc' # "reply" /\ stable' = stable
        /\ IF reply.stats.ex + reply.stats.em = plateau.last
           THEN plateau' = [plateau EXCEPT !.stable = plateau.stable + 1]
           ELSE plateau'.stable = 0 /\ plateau'.last = reply.stats.ex + reply.stats.em
    BY <1>4, <1>11 DEF ReceivePlateau, FlushedVia, PollAgain
  <2>2. StableBound'
    BY <1>2, <1>3, <1>4, <2>1 DEF BarrierInv, StableBound, EmptyReply, Absent
  <2>3. PlateauBound'
    BY <1>1, <1>2, <1>3, <1>4, <2>1 DEF BarrierInv, PlateauBound, PlateauReply
  <2>4. OutcomeExact'
    <3>1. CASE PollAgain
      BY <1>1, <2>1, <3>1 DEF PollAgain, BarrierInv, OutcomeExact, Trusted, Final, Settled
    <3>2. CASE /\ FlushedVia("plateau") /\ plateau'.stable >= PLATEAU_POLLS
               /\ reply.stats.ex + reply.stats.em > 0
      <4>1. PlateauReply /\ plateau.last > 0 /\ plateau.stable + 1 >= PLATEAU_POLLS
        BY <1>4, <2>1, <3>2 DEF PlateauReply
      <4>2. legacy => Final(reply.stats)
        BY <4>1 DEF BarrierInv, ReplyExact
      <4> QED
        BY <1>1, <3>2, <4>2 DEF FlushedVia, OutcomeExact, Trusted, Final, Settled
    <3> QED
      BY <1>11, <3>1, <3>2 DEF ReceivePlateau
  <2> QED
    BY <2>1, <2>2, <2>3, <2>4 DEF BarrierInv, ReplyExact, EmptyReply, PlateauReply
<1> QED
  BY <1>7, <1>8, <1>9, <1>10, <1>11

\* Steps of the server alone leave what the client holds as true as it was.
LEMMA ServerKeepsBarrierInv ==
    ASSUME PipelineInv, BarrierInv, Server
    PROVE  BarrierInv'
<1>1. UNCHANGED barrierVars /\ legacy' = legacy /\ [Next]_vars
  BY DEF Server, Next, PipelineNext, Work, Republish, PickUp, Finish
<1>2. ReplyExact'
  BY <1>1, FinalStays DEF BarrierInv, ReplyExact, EmptyReply, PlateauReply, Final, barrierVars
<1>3. OutcomeExact'
  BY <1>1, FinalStays DEF BarrierInv, OutcomeExact, Trusted, Final, barrierVars
<1>4. StableBound' /\ PlateauBound'
  <2>1. CASE Work
    BY <1>1, <2>1, WorkKeepsBounds DEF Work, BarrierInv
  <2>2. CASE Republish
    <3>1. \A m \in Memories, w \in DRAIN_WORKERS :
            /\ Ready(m, w)' <=> Ready(m, w)
            /\ HiddenPolls(m, w)' = HiddenPolls(m, w)
            /\ BusyPolls(m, w)' = BusyPolls(m, w)
      BY <2>2, UnitUnchanged DEF Republish
    <3> QED
      BY <1>1, <3>1 DEF BarrierInv, StableBound, PlateauBound, EmptyReply, PlateauReply,
         barrierVars
  <2> QED
    BY <2>1, <2>2 DEF Server, PipelineNext
<1> QED
  BY <1>2, <1>3, <1>4 DEF BarrierInv

LEMMA BarrierInvariant ==
    ASSUME PollsOutlastPath
    PROVE  Spec => []BarrierInv
<1>1. Init /\ TypeOK => BarrierInv
  <2> SUFFICES ASSUME Init, TypeOK PROVE BarrierInv
    OBVIOUS
  <2>1. pc = "scrape" /\ stable = 0 /\ plateau.stable = 0 /\ outcome.via = "none"
    BY DEF Init
  <2>2. \A m \in Memories, w \in DRAIN_WORKERS :
          HiddenPolls(m, w) \in Nat /\ BusyPolls(m, w) \in Nat
    <3>1. HandoffPolls \in Nat /\ HandoffPolls + QueuePolls \in Nat
      BY PipelineAssumption
    <3>2. \A m \in Memories, w \in DRAIN_WORKERS : waited[m][w] \in Nat
      BY DEF TypeOK, PipelineTypeOK
    <3> QED
      BY <3>1, <3>2, BeforeValues DEF HiddenPolls, BusyPolls
  <2> QED
    BY <2>1, <2>2 DEF BarrierInv, StableBound, PlateauBound, ReplyExact, OutcomeExact,
       EmptyReply, PlateauReply, Trusted
<1>2. PipelineInv /\ PipelineInv' /\ BarrierInv /\ [Next]_vars => BarrierInv'
  <2> SUFFICES ASSUME PipelineInv, PipelineInv', BarrierInv, [Next]_vars PROVE BarrierInv'
    OBVIOUS
  <2>1. CASE UNCHANGED vars
    BY <2>1 DEF vars, pipelineVars, barrierVars, BarrierInv, StableBound, PlateauBound,
       ReplyExact, OutcomeExact, EmptyReply, PlateauReply, Trusted, Final, Settled, Ready,
       HiddenPolls, BusyPolls, Before
  <2>2. CASE ServerReplies
    BY <2>2, RepliesKeepBarrierInv
  <2>3. CASE Server
    BY <2>3, ServerKeepsBarrierInv
  <2>5. CASE BlankReply
    BY <2>5, BlankKeepsBarrierInv DEF PipelineInv
  <2>4. CASE \/ ScrapeFails \/ SlowScrape \/ Sleep
             \/ ReceiveGauge \/ ReceivePlateau \/ ReceiveAbsent
    BY <2>4, ClientKeepsBarrierInv DEF PipelineInv
  <2> QED
    BY <2>1, <2>2, <2>3, <2>4, <2>5 DEF Next, Idle
<1> QED
  BY <1>1, <1>2, TypeCorrect, PipelineInvariant, PTL DEF Spec

-----------------------------------------------------------------------------
\* A barrier that reports `flushed' by a signal it may trust has waited for all of
\* the write path, for any number of memories, whenever the handoffs of a whole
\* path take fewer polls than DRAIN_STABLE_POLLS (and on a legacy server the path
\* fewer than the plateau).
THEOREM FlushIsSound ==
    ASSUME PollsOutlastPath
    PROVE  Spec => []FlushedMeansSettled
<1>1. BarrierInv => FlushedMeansSettled
  BY DEF BarrierInv, OutcomeExact, Final, FlushedMeansSettled
<1> QED
  BY <1>1, BarrierInvariant, PTL

\* Under the same condition the counters it returns are the final ones: a report's
\* write section counts all of the run's writes.
THEOREM CountersAreFinal ==
    ASSUME PollsOutlastPath
    PROVE  Spec => []FlushedCountersAreFinal
<1>1. BarrierInv => FlushedCountersAreFinal
  BY DEF BarrierInv, OutcomeExact, Final, FlushedCountersAreFinal
<1> QED
  BY <1>1, BarrierInvariant, PTL

-----------------------------------------------------------------------------
\* Once the call has returned nothing it returned changes; and the client does not
\* return in a step that moves the pipeline.
LEMMA AnswersOnce ==
    ASSUME [Next]_vars
    PROVE  /\ legacy' = legacy
           /\ pc = "done" => pc' = "done" /\ outcome' = outcome
           /\ Settled' # Settled => pc' = pc /\ outcome' = outcome
<1>1. CASE \/ ServerReplies \/ BlankReply \/ ScrapeFails \/ SlowScrape
           \/ ReceiveGauge \/ ReceivePlateau \/ ReceiveAbsent \/ Sleep
  <2>1. unit' = unit /\ legacy' = legacy /\ pc # "done"
    BY <1>1 DEF ServerReplies, BlankReply, ScrapeFails, SlowScrape, ReceiveGauge,
       ReceivePlateau, ReceiveAbsent, Sleep, pipelineVars
  <2> QED
    BY <2>1 DEF Settled
<1>2. CASE Server
  BY <1>2 DEF Server, barrierVars, PipelineNext, Work, Republish, PickUp, Finish
<1>3. CASE UNCHANGED vars
  BY <1>3 DEF vars, pipelineVars, barrierVars, Settled
<1> QED
  BY <1>1, <1>2, <1>3 DEF Next, Idle

\* The barrier implements DrainContract under the same condition: it answers once,
\* and `settled' only of a pipeline that has settled and stays so.
THEOREM Refinement ==
    ASSUME PollsOutlastPath
    PROVE  Spec => ImplementsContract
<1> DEFINE pipe == IF Settled THEN "settled" ELSE "busy"
           verd == IF pc # "done" THEN "waiting"
                   ELSE IF Trusted THEN "settled"
                   ELSE IF outcome.flushed THEN "guessed"
                   ELSE "gave_up"
<1>1. Init => Contract!Init
  BY DEF Init, Contract!Init
<1>2. FlushedMeansSettled' /\ [Next]_vars => [Contract!Next]_(Contract!vars)
  <2> SUFFICES ASSUME FlushedMeansSettled', [Next]_vars
               PROVE  Contract!Next \/ (pipe' = pipe /\ verd' = verd)
    BY DEF Contract!vars
  <2>1. CASE Settled' # Settled
    <3>1. ~Settled /\ Settled'
      BY <2>1, SettledStays DEF Settled
    <3>2. verd' = verd
      BY <2>1, AnswersOnce DEF Trusted
    <3>3. Contract!Settle
      BY <3>1, <3>2 DEF Contract!Settle
    <3> QED
      BY <3>3 DEF Contract!Next
  <2>2. CASE Settled' = Settled
    <3>1. pipe' = pipe
      BY <2>2
    <3>2. CASE pc = "done" \/ pc' # "done"
      <4>1. verd' = verd
        BY <3>2, AnswersOnce DEF Trusted
      <4> QED
        BY <3>1, <4>1
    <3>3. CASE pc # "done" /\ pc' = "done" /\ Trusted'
      <4>1. Settled
        BY <2>2, <3>3 DEF FlushedMeansSettled
      <4>2. Contract!ReturnSettled
        BY <3>1, <3>3, <4>1 DEF Contract!ReturnSettled
      <4> QED
        BY <4>2 DEF Contract!Next
    <3>4. CASE pc # "done" /\ pc' = "done" /\ ~Trusted'
      <4>1. Contract!ReturnUnsure
        BY <3>1, <3>4 DEF Contract!ReturnUnsure
      <4> QED
        BY <4>1 DEF Contract!Next
    <3> QED
      BY <3>2, <3>3, <3>4
  <2> QED
    BY <2>1, <2>2
<1> QED
  BY <1>1, <1>2, FlushIsSound, PTL DEF Spec, ImplementsContract, Contract!Spec

=============================================================================
