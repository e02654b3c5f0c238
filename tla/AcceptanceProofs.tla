--------------------------- MODULE AcceptanceProofs ---------------------------
(***************************************************************************)
(* For every number of workers and verbs and every configuration: the      *)
(* throughput probe stays under the connection cap and reports each defect *)
(* it met, and the acceptance run around it loses none of them and mints   *)
(* no key at the wrong server.                                             *)
(***************************************************************************)
EXTENDS Acceptance, FiniteSetTheorems, TLAPS

Users == Workers \cup {"setup"}

LEMMA ThroughputConstants ==
    /\ IsFiniteSet(Workers) /\ Cardinality(Workers) + 2 <= CAP
    /\ CAP \in Nat /\ VERBS \in Nat \ {0} /\ MAX_CALLS \in Nat
    /\ REAPS_IN_TIME \in BOOLEAN
    /\ "setup" \notin Workers
BY ThroughputAssumption

\* The connections of one verb, with the caller's own, fit under the cap.
LEMMA VerbFits ==
    ASSUME NEW v, NEW C \in SUBSET ({v} \X Users)
    PROVE  Cardinality(C) + 1 <= CAP
<1>1. IsFiniteSet(Users) /\ Cardinality(Users) = Cardinality(Workers) + 1
  BY ThroughputConstants, FS_AddElement DEF Users
<1>2. IsFiniteSet({v}) /\ Cardinality({v}) = 1
  BY FS_Singleton
<1>3. IsFiniteSet({v} \X Users) /\ Cardinality({v} \X Users) = 1 * Cardinality(Users)
  BY <1>1, <1>2, FS_Product
<1>4. Cardinality(C) \in Nat /\ Cardinality(C) <= Cardinality({v} \X Users)
  BY <1>3, FS_Subset, FS_CardinalityType
<1>5. Cardinality(Workers) \in Nat
  BY ThroughputConstants, FS_CardinalityType
<1> QED
  BY <1>1, <1>3, <1>4, <1>5, ThroughputConstants

-----------------------------------------------------------------------------
\* Type correctness of the probe.

LEMMA ThroughputInitTypes == ThroughputInit => ThroughputTypeOK
<1> SUFFICES ASSUME ThroughputInit PROVE ThroughputTypeOK
  OBVIOUS
<1>1. verb \in 1..VERBS
  BY ThroughputConstants DEF ThroughputInit
<1>2. results \in Seq(VerbVerdicts)
  BY DEF ThroughputInit
<1>3. stat \in [Workers -> Stats] /\ tally \in Stats
  BY DEF ThroughputInit, Zero, Stats
<1>4. wk \in [Workers -> {"idle", "dialing", "working", "finished", "panicked", "joined"}]
  BY DEF ThroughputInit
<1> QED
  BY <1>1, <1>2, <1>3, <1>4 DEF ThroughputInit, ThroughputTypeOK

LEMMA StatsTyped ==
    ASSUME NEW s \in Stats, NEW kind \in Kinds \cup {"ops"}
    PROVE  Recorded(s, kind) \in Stats
BY DEF Stats, Recorded, Kinds

LEMMA PlusTyped ==
    ASSUME NEW s \in Stats, NEW t \in Stats
    PROVE  Plus(s, t) \in Stats
BY DEF Stats, Plus

LEMMA VerdictTyped ==
    ASSUME NEW s \in Stats
    PROVE  VerdictOf(s) \in VerbVerdicts
BY DEF Stats, VerdictOf, VerbVerdicts

LEMMA WorkerKeepsTypes ==
    ASSUME ThroughputTypeOK, NEW w \in Workers, Worker(w)
    PROVE  ThroughputTypeOK'
<1> USE DEF ThroughputTypeOK
<1>1. CASE WorkerConnects(w)
  BY <1>1 DEF WorkerConnects, Conns
<1>2. CASE WorkerConnectFails(w)
  <2>1. PICK kind \in Kinds :
          /\ wk' = [wk EXCEPT ![w] = "finished"]
          /\ stat' = [stat EXCEPT ![w] = Recorded(@, kind)]
          /\ NoteDefect(kind)
          /\ UNCHANGED <<tput, verb, tally, late, held, linger, results>>
    BY <1>2 DEF WorkerConnectFails
  <2>2. stat' \in [Workers -> Stats]
    BY <2>1, StatsTyped
  <2> QED
    BY <2>1, <2>2 DEF NoteDefect
<1>3. CASE WorkerCalls(w)
  <2>1. PICK kind \in Kinds \cup {"ops"} :
          /\ stat' = [stat EXCEPT ![w] = Recorded(@, kind)]
          /\ NoteDefect(kind)
          /\ UNCHANGED <<tput, verb, wk, tally, late, held, linger, results>>
    BY <1>3 DEF WorkerCalls
  <2>2. stat' \in [Workers -> Stats]
    BY <2>1, StatsTyped
  <2> QED
    BY <2>1, <2>2 DEF NoteDefect
<1>4. CASE WorkerFinishes(w)
  BY <1>4 DEF WorkerFinishes, Conns
<1>5. CASE WorkerPanics(w)
  BY <1>5 DEF WorkerPanics, Conns
<1> QED
  BY <1>1, <1>2, <1>3, <1>4, <1>5 DEF Worker

LEMMA MeasureKeepsTypes ==
    ASSUME ThroughputTypeOK, tput = "pause" => verb < VERBS, Measure
    PROVE  ThroughputTypeOK'
<1> USE DEF ThroughputTypeOK
<1>1. CASE Mint
  BY <1>1 DEF Mint
<1>2. CASE SetupConnects
  BY <1>2 DEF SetupConnects, Setup, Conns
<1>3. CASE SetupFails
  <2>1. PICK kind \in Kinds :
          /\ results' = Append(results, VerdictOf(Recorded(Zero, kind)))
          /\ NoteDefect(kind)
          /\ tput' = NextVerb
          /\ held' = held \ {Setup}
          /\ linger' = linger \cup (held \cap {Setup})
          /\ UNCHANGED <<verb, wk, stat, tally, late>>
    BY <1>3 DEF SetupFails
  <2>2. VerdictOf(Recorded(Zero, kind)) \in VerbVerdicts
    BY StatsTyped, VerdictTyped DEF Zero, Stats
  <2>3. results' \in Seq(VerbVerdicts)
    BY <2>1, <2>2
  <2> QED
    BY <2>1, <2>3 DEF NextVerb, NoteDefect
<1>4. CASE SpawnWorkers
  BY <1>4 DEF SpawnWorkers, Setup, Conns
<1>5. ASSUME NEW w \in Workers, Join(w)
      PROVE  ThroughputTypeOK'
  <2>1. stat[w] \in Stats /\ tally \in Stats /\ Zero \in Stats
    BY DEF Zero, Stats
  <2>2. tally' \in Stats
    BY <1>5, <2>1, PlusTyped, StatsTyped DEF Join, Kinds
  <2> QED
    BY <1>5, <2>1, <2>2 DEF Join
<1>6. CASE ReportVerb
  <2>1. results' \in Seq(VerbVerdicts)
    BY <1>6, VerdictTyped DEF ReportVerb
  <2> QED
    BY <1>6, <2>1 DEF ReportVerb, NextVerb, Zero, Stats
<1>7. CASE Pause
  BY <1>7, ThroughputConstants DEF Pause
<1> QED
  BY <1>1, <1>2, <1>3, <1>4, <1>5, <1>6, <1>7 DEF Measure

-----------------------------------------------------------------------------
\* The workers and their tallies live in the load of one verb.

StageInv ==
    /\ tput = "pause" => verb < VERBS
    /\ tput \in {"mint", "unminted", "returned"} => verb = 1
    /\ tput # "load" => /\ wk = [w \in Workers |-> "idle"]
                        /\ stat = [w \in Workers |-> Zero]
                        /\ tally = Zero
    /\ tput = "load" => \A w \in Workers :
                            wk[w] # "idle" /\ (wk[w] = "joined" => stat[w] = Zero)

\* A setup connection is held while the setup is prepared, a worker's while it works.
HeldInv ==
    \A c \in held :
        \/ c = Setup /\ tput = "prepare"
        \/ \E w \in Workers : c = <<verb, w>> /\ tput = "load" /\ wk[w] = "working"

\* The connections that linger are all of one verb, the current one until the probe returns.
LingersFromOneVerb ==
    \E v \in 1..VERBS : linger \subseteq {v} \X Users /\ (tput # "returned" => v = verb)

ConnInv == HeldInv /\ (REAPS_IN_TIME => LingersFromOneVerb)

\* The verbs reported are those before the current one, or up to it once it is over; a
\* defect of the current one is in the tally, or in that of a worker yet to be joined.
Failing(w) == wk[w] = "panicked" \/ stat[w].errors > 0

ReportInv ==
    /\ \A i \in 1..Len(results) : results[i].clean <=> i \notin defects
    /\ tput \in {"mint", "dial", "prepare", "load", "unminted", "returned"} =>
          Len(results) = verb - 1
    /\ tput \in {"pause", "done"} => Len(results) = verb
    /\ defects \subseteq 1..verb
    /\ tput \in {"mint", "dial", "prepare", "unminted", "returned"} => verb \notin defects
    /\ tput = "load" =>
          (verb \in defects <=> tally.errors > 0 \/ \E w \in Workers : Failing(w))

ProbeInv == ThroughputTypeOK /\ StageInv /\ ConnInv /\ ReportInv

LEMMA ProbeInit == ThroughputInit => ProbeInv
<1> SUFFICES ASSUME ThroughputInit PROVE ProbeInv
  OBVIOUS
<1>1. ThroughputTypeOK
  BY ThroughputInitTypes
<1>2. StageInv
  BY DEF ThroughputInit, StageInv
<1>3. ConnInv
  BY ThroughputConstants DEF ThroughputInit, ConnInv, HeldInv, LingersFromOneVerb
<1>4. ReportInv
  BY DEF ThroughputInit, ReportInv
<1> QED
  BY <1>1, <1>2, <1>3, <1>4 DEF ProbeInv

LEMMA StepTypes ==
    ASSUME ThroughputTypeOK, StageInv, [ThroughputNext]_tputVars
    PROVE  ThroughputTypeOK'
<1>1. CASE Measure
  BY <1>1, MeasureKeepsTypes DEF StageInv
<1>2. CASE ReturnReport
  BY <1>2, ThroughputConstants DEF ReturnReport, ThroughputTypeOK, Zero, Stats
<1>3. CASE Deadline
  BY <1>3 DEF Deadline, ThroughputTypeOK
<1>4. CASE Reap
  BY <1>4 DEF Reap, ThroughputTypeOK
<1>5. ASSUME NEW w \in Workers, Worker(w)
      PROVE  ThroughputTypeOK'
  BY <1>5, WorkerKeepsTypes
<1>6. CASE UNCHANGED tputVars
  BY <1>6 DEF tputVars, ThroughputTypeOK
<1> QED
  BY <1>1, <1>2, <1>3, <1>4, <1>5, <1>6 DEF ThroughputNext

LEMMA StepStages ==
    ASSUME ThroughputTypeOK, StageInv, [ThroughputNext]_tputVars
    PROVE  StageInv'
<1> USE DEF ThroughputTypeOK, StageInv
<1>1. CASE Mint
  BY <1>1 DEF Mint
<1>2. CASE SetupConnects
  BY <1>2 DEF SetupConnects
<1>3. CASE SetupFails
  BY <1>3, ThroughputConstants DEF SetupFails, NextVerb
<1>4. CASE SpawnWorkers
  BY <1>4 DEF SpawnWorkers
<1>5. ASSUME NEW w \in Workers, Join(w)
      PROVE  StageInv'
  BY <1>5 DEF Join
<1>6. CASE ReportVerb
  <2>1. stat = [w \in Workers |-> Zero]
    BY <1>6 DEF ReportVerb
  <2> QED
    BY <1>6, <2>1, ThroughputConstants DEF ReportVerb, NextVerb
<1>7. CASE Pause
  BY <1>7 DEF Pause
<1>8. CASE ReturnReport
  BY <1>8 DEF ReturnReport
<1>9. CASE Deadline \/ Reap
  BY <1>9 DEF Deadline, Reap
<1>10. ASSUME NEW w \in Workers, Worker(w)
       PROVE  StageInv'
  <2>1. tput = "load"
    BY <1>10 DEF Worker, WorkerConnects, WorkerConnectFails, WorkerCalls, WorkerFinishes,
       WorkerPanics
  <2>2. UNCHANGED <<tput, verb, tally>>
    BY <1>10 DEF Worker, WorkerConnects, WorkerConnectFails, WorkerCalls, WorkerFinishes,
       WorkerPanics
  <2>3. \A x \in Workers \ {w} : wk'[x] = wk[x] /\ stat'[x] = stat[x]
    BY <1>10 DEF Worker, WorkerConnects, WorkerConnectFails, WorkerCalls, WorkerFinishes,
       WorkerPanics
  <2>4. wk'[w] \in {"working", "finished", "panicked"}
    BY <1>10 DEF Worker, WorkerConnects, WorkerConnectFails, WorkerCalls, WorkerFinishes,
       WorkerPanics
  <2> QED
    BY <2>1, <2>2, <2>3, <2>4
<1>11. CASE UNCHANGED tputVars
  BY <1>11 DEF tputVars
<1> QED
  BY <1>1, <1>2, <1>3, <1>4, <1>5, <1>6, <1>7, <1>8, <1>9, <1>10, <1>11
     DEF ThroughputNext, Measure

LEMMA StepHeld ==
    ASSUME ThroughputTypeOK, StageInv, HeldInv, [ThroughputNext]_tputVars
    PROVE  HeldInv'
<1> USE DEF ThroughputTypeOK
<1>1. CASE Mint
  BY <1>1 DEF Mint, HeldInv, Setup
<1>2. CASE SetupConnects
  BY <1>2 DEF SetupConnects, HeldInv, Setup
<1>3. CASE SetupFails \/ SpawnWorkers \/ ReportVerb \/ Pause \/ ReturnReport
  <2>1. held' = {}
    BY <1>3 DEF SetupFails, SpawnWorkers, ReportVerb, Pause, ReturnReport, HeldInv, Setup
  <2> QED
    BY <2>1 DEF HeldInv
<1>4. ASSUME NEW w \in Workers, Join(w)
      PROVE  HeldInv'
  BY <1>4 DEF Join, HeldInv, Setup
<1>5. CASE Deadline \/ Reap
  BY <1>5 DEF Deadline, Reap, HeldInv, Setup
<1>6. ASSUME NEW w \in Workers, Worker(w)
      PROVE  HeldInv'
  <2>1. tput = "load" /\ UNCHANGED <<tput, verb>>
    BY <1>6 DEF StageInv, Worker, WorkerConnects, WorkerConnectFails, WorkerCalls,
       WorkerFinishes, WorkerPanics
  <2>2. \A x \in Workers \ {w} : wk'[x] = wk[x]
    BY <1>6 DEF Worker, WorkerConnects, WorkerConnectFails, WorkerCalls,
       WorkerFinishes, WorkerPanics
  <2>3. \/ wk'[w] = "working" /\ held' \subseteq held \cup {<<verb, w>>}
        \/ wk[w] # "working" /\ held' = held
        \/ held' \subseteq held \ {<<verb, w>>}
    BY <1>6 DEF Worker, WorkerConnects, WorkerConnectFails, WorkerCalls,
       WorkerFinishes, WorkerPanics
  <2>4. ASSUME NEW c \in held'
        PROVE  \E x \in Workers : c = <<verb, x>> /\ wk'[x] = "working"
    <3>1. CASE c = <<verb, w>> /\ wk'[w] = "working"
      BY <3>1
    <3>2. CASE c \in held /\ (c # <<verb, w>> \/ wk[w] # "working")
      BY <2>1, <2>2, <3>2 DEF HeldInv, Setup
    <3> QED
      BY <2>3, <3>1, <3>2
  <2> QED
    BY <2>1, <2>4 DEF HeldInv
<1>7. CASE UNCHANGED tputVars
  BY <1>7 DEF tputVars, HeldInv, Setup
<1> QED
  BY <1>1, <1>2, <1>3, <1>4, <1>5, <1>6, <1>7 DEF ThroughputNext, Measure

LEMMA StepLingers ==
    ASSUME ThroughputTypeOK, StageInv, REAPS_IN_TIME, LingersFromOneVerb,
           [ThroughputNext]_tputVars
    PROVE  LingersFromOneVerb'
<1> USE DEF ThroughputTypeOK
<1>0. PICK v \in 1..VERBS :
        linger \subseteq {v} \X Users /\ (tput # "returned" => v = verb)
  BY DEF LingersFromOneVerb
<1>1. CASE Mint \/ SetupConnects \/ (\E w \in Workers : Join(w)) \/ ReportVerb
  BY <1>0, <1>1 DEF Mint, SetupConnects, Join, ReportVerb, NextVerb, LingersFromOneVerb
<1>2. CASE SetupFails \/ SpawnWorkers
  <2>1. linger' \subseteq {verb} \X Users /\ UNCHANGED verb
    BY <1>0, <1>2 DEF SetupFails, SpawnWorkers, Setup, Users
  <2> QED
    BY <2>1 DEF LingersFromOneVerb
<1>3. CASE Pause
  <2>1. linger' = {}
    BY <1>3 DEF Pause
  <2>2. verb' \in 1..VERBS
    BY <1>3, ThroughputConstants DEF Pause, StageInv
  <2> QED
    BY <2>1, <2>2 DEF LingersFromOneVerb
<1>4. CASE ReturnReport
  BY <1>0, <1>4 DEF ReturnReport, LingersFromOneVerb
<1>5. CASE Deadline \/ Reap
  <2>1. linger' \subseteq linger /\ UNCHANGED <<tput, verb>>
    BY <1>5 DEF Deadline, Reap
  <2> QED
    BY <1>0, <2>1 DEF LingersFromOneVerb
<1>6. ASSUME NEW w \in Workers, Worker(w)
      PROVE  LingersFromOneVerb'
  <2>1. tput = "load" /\ UNCHANGED <<tput, verb>>
    BY <1>6 DEF StageInv, Worker, WorkerConnects, WorkerConnectFails, WorkerCalls,
       WorkerFinishes, WorkerPanics
  <2>2. linger' \subseteq {verb} \X Users
    BY <1>0, <1>6, <2>1 DEF Worker, WorkerConnects, WorkerConnectFails, WorkerCalls,
       WorkerFinishes, WorkerPanics, Users
  <2> QED
    BY <2>1, <2>2 DEF LingersFromOneVerb
<1>7. CASE UNCHANGED tputVars
  BY <1>0, <1>7 DEF tputVars, LingersFromOneVerb
<1> QED
  BY <1>1, <1>2, <1>3, <1>4, <1>5, <1>6, <1>7 DEF ThroughputNext, Measure

\* What the workers of the current verb have met and not yet handed over.
LEMMA OneWorker ==
    ASSUME ThroughputTypeOK, StageInv, ReportInv, NEW w \in Workers, Worker(w)
    PROVE  ReportInv'
<1> USE DEF ThroughputTypeOK
<1>1. tput = "load" /\ UNCHANGED <<tput, verb, tally, results>>
  BY DEF StageInv, Worker, WorkerConnects, WorkerConnectFails, WorkerCalls,
     WorkerFinishes, WorkerPanics
<1>2. Len(results) = verb - 1 /\ verb \in 1..VERBS
  BY <1>1 DEF ReportInv
<1>3. \A x \in Workers \ {w} : wk'[x] = wk[x] /\ stat'[x] = stat[x]
  BY DEF Worker, WorkerConnects, WorkerConnectFails, WorkerCalls, WorkerFinishes,
     WorkerPanics
<1>4. \/ defects' = defects \cup {verb} /\ Failing(w)'
      \/ defects' = defects /\ (Failing(w)' <=> Failing(w))
  <2> USE DEF Failing
  <2>1. CASE WorkerConnects(w) \/ WorkerFinishes(w)
    BY <2>1 DEF WorkerConnects, WorkerFinishes
  <2>2. CASE WorkerConnectFails(w)
    BY <2>2 DEF WorkerConnectFails, NoteDefect, Kinds, Recorded, Stats
  <2>3. CASE WorkerCalls(w)
    BY <2>3 DEF WorkerCalls, NoteDefect, Kinds, Recorded, Stats
  <2>4. CASE WorkerPanics(w)
    BY <2>4 DEF WorkerPanics
  <2> QED
    BY <2>1, <2>2, <2>3, <2>4 DEF Worker
<1>5. \A x \in Workers \ {w} : Failing(x)' <=> Failing(x)
  BY <1>3 DEF Failing
<1>6. verb \in defects' <=> tally.errors > 0 \/ \E x \in Workers : Failing(x)'
  BY <1>1, <1>4, <1>5 DEF ReportInv
<1>7. \A i \in 1..Len(results) : i \in defects' <=> i \in defects
  BY <1>2, <1>4
<1>8. defects' \subseteq 1..verb
  <2>1. defects \subseteq 1..verb
    BY DEF ReportInv
  <2>2. verb \in 1..verb
    BY <1>2, ThroughputConstants
  <2>3. CASE defects' = defects
    BY <2>1, <2>3
  <2>4. CASE defects' = defects \cup {verb}
    BY <2>1, <2>2, <2>4
  <2> QED
    BY <1>4, <2>3, <2>4
<1>9. \A i \in 1..Len(results') : results'[i].clean <=> i \notin defects'
  BY <1>1, <1>7 DEF ReportInv
<1>10. (\E x \in Workers : Failing(x))' <=> \E x \in Workers : Failing(x)'
  OBVIOUS
<1> QED
  BY <1>1, <1>2, <1>6, <1>8, <1>9, <1>10 DEF ReportInv

LEMMA OneJoin ==
    ASSUME ThroughputTypeOK, StageInv, ReportInv, NEW w \in Workers, Join(w)
    PROVE  ReportInv'
<1> USE DEF ThroughputTypeOK
<1>1. tput = "load" /\ UNCHANGED <<tput, verb, results, defects>>
  BY DEF Join
<1>2. tally.errors \in Nat /\ \A x \in Workers : stat[x].errors \in Nat
  BY DEF Stats
<1>3. tally'.errors > 0 <=> tally.errors > 0 \/ Failing(w)
  <2>1. CASE wk[w] = "finished"
    BY <1>2, <2>1 DEF Join, Plus, Failing
  <2>2. CASE wk[w] = "panicked"
    BY <1>2, <2>2 DEF Join, Recorded, Failing, Stats
  <2> QED
    BY <2>1, <2>2 DEF Join
<1>4. ~Failing(w)'
  BY DEF Join, Failing, Zero
<1>5. \A x \in Workers \ {w} : Failing(x)' <=> Failing(x)
  BY DEF Join, Failing
<1>6. (\E x \in Workers : Failing(x))' <=> \E x \in Workers : Failing(x)'
  OBVIOUS
<1> QED
  BY <1>1, <1>3, <1>4, <1>5, <1>6 DEF ReportInv

\* A verb reported by its tally leaves the verbs before it as they were.
LEMMA OneReport ==
    ASSUME ThroughputTypeOK, ReportInv, NEW t \in Stats,
           Len(results) = verb - 1,
           results' = Append(results, VerdictOf(t)), tput' = NextVerb, verb' = verb,
           defects' = defects \/ (verb \notin defects /\ defects' = defects \cup {verb}),
           verb \in defects' <=> t.errors > 0
    PROVE  ReportInv'
<1>1. results \in Seq(VerbVerdicts) /\ verb \in Nat \ {0} /\ t.errors \in Nat
  BY ThroughputConstants DEF ThroughputTypeOK, Stats
<1>2. Len(results') = verb /\ tput' \in {"pause", "done"}
  BY <1>1 DEF NextVerb
<1>3. \A i \in 1..Len(results) : results'[i] = results[i] /\ (i \in defects' <=> i \in defects)
  BY <1>1
<1>4. results'[verb] = VerdictOf(t)
  BY <1>1
<1>5. results'[verb].clean <=> verb \notin defects'
  <2>1. VerdictOf(t).clean = (t.errors = 0)
    BY DEF VerdictOf
  <2>2. results'[verb].clean = (t.errors = 0)
    BY <1>4, <2>1
  <2>3. verb \notin defects' <=> t.errors = 0
    BY <1>1
  <2> QED
    BY <2>2, <2>3, Zenon
<1>6. \A i \in 1..Len(results') : results'[i].clean <=> i \notin defects'
  BY <1>1, <1>2, <1>3, <1>5 DEF ReportInv
<1>7. defects' \subseteq 1..verb'
  <2>1. defects \subseteq 1..verb
    BY DEF ReportInv
  <2>2. CASE defects' = defects
    BY <2>1, <2>2
  <2>3. CASE defects' = defects \cup {verb}
    BY <1>1, <2>1, <2>3
  <2> QED
    BY <2>2, <2>3
<1> QED
  BY <1>2, <1>6, <1>7 DEF ReportInv

LEMMA StepReports ==
    ASSUME ThroughputTypeOK, StageInv, ReportInv, [ThroughputNext]_tputVars
    PROVE  ReportInv'
<1> USE DEF ThroughputTypeOK
<1>0. verb \in Nat \ {0} /\ defects \subseteq 1..verb
  BY ThroughputConstants DEF ReportInv
<1>1. CASE Mint
  BY <1>1 DEF Mint, ReportInv
<1>2. CASE SetupConnects
  BY <1>2 DEF SetupConnects, ReportInv
<1>3. CASE SetupFails
  <2>1. PICK kind \in Kinds :
          /\ tput \in {"dial", "prepare"}
          /\ results' = Append(results, VerdictOf(Recorded(Zero, kind)))
          /\ NoteDefect(kind)
          /\ tput' = NextVerb
          /\ UNCHANGED verb
    BY <1>3 DEF SetupFails
  <2>2. Len(results) = verb - 1 /\ verb \notin defects
    BY <2>1 DEF ReportInv
  <2>3. Recorded(Zero, kind) \in Stats
    BY StatsTyped DEF Zero, Stats
  <2>4. Recorded(Zero, kind).errors > 0 <=> kind = "errors"
    BY DEF Recorded, Zero, Kinds
  <2>5. \/ defects' = defects /\ kind # "errors"
        \/ defects' = defects \cup {verb} /\ kind = "errors"
    BY <2>1 DEF NoteDefect
  <2> HIDE DEF ThroughputTypeOK
  <2> QED
    BY <2>1, <2>2, <2>3, <2>4, <2>5, OneReport
<1>4. CASE SpawnWorkers
  <2>1. tput = "prepare" /\ tput' = "load" /\ UNCHANGED <<verb, stat, tally, results, defects>>
    BY <1>4 DEF SpawnWorkers
  <2>2. verb \notin defects /\ stat = [w \in Workers |-> Zero] /\ tally = Zero
    BY <2>1 DEF StageInv, ReportInv
  <2>3. \A w \in Workers : wk'[w] = "dialing" /\ stat'[w].errors = 0
    BY <1>4, <2>1, <2>2 DEF SpawnWorkers, Zero
  <2>4. ~(\E w \in Workers : Failing(w))' /\ ~(tally'.errors > 0)
    BY <2>1, <2>2, <2>3 DEF Failing, Zero
  <2> QED
    BY <2>1, <2>2, <2>4 DEF ReportInv
<1>5. ASSUME NEW w \in Workers, Join(w)
      PROVE  ReportInv'
  BY <1>5, OneJoin
<1>6. CASE ReportVerb
  <2>1. tput = "load" /\ tput' = NextVerb /\ UNCHANGED <<verb, defects>>
        /\ results' = Append(results, VerdictOf(tally))
        /\ \A w \in Workers : wk[w] = "joined"
    BY <1>6 DEF ReportVerb
  <2>2. ~\E w \in Workers : Failing(w)
    BY <2>1 DEF StageInv, Failing, Zero
  <2>3. Len(results) = verb - 1 /\ (verb \in defects <=> tally.errors > 0)
    BY <2>1, <2>2 DEF ReportInv
  <2> HIDE DEF ThroughputTypeOK
  <2>4. tally \in Stats
    BY DEF ThroughputTypeOK
  <2> QED
    BY <2>1, <2>3, <2>4, OneReport
<1>7. CASE Pause
  <2>1. tput = "pause" /\ tput' = "dial" /\ verb' = verb + 1 /\ UNCHANGED <<results, defects>>
    BY <1>7 DEF Pause
  <2>2. Len(results') = verb' - 1 /\ verb' \notin defects' /\ defects' \subseteq 1..verb'
    BY <1>0, <2>1 DEF ReportInv
  <2> QED
    BY <2>1, <2>2 DEF ReportInv
<1>8. CASE ReturnReport
  BY <1>8 DEF ReturnReport, ReportInv
<1>9. CASE Deadline
  BY <1>9 DEF Deadline, ReportInv, Failing
<1>10. CASE Reap
  BY <1>10 DEF Reap, ReportInv, Failing
<1>11. ASSUME NEW w \in Workers, Worker(w)
       PROVE  ReportInv'
  BY <1>11, OneWorker
<1>12. CASE UNCHANGED tputVars
  BY <1>12 DEF tputVars, ReportInv, Failing
<1> QED
  BY <1>1, <1>2, <1>3, <1>4, <1>5, <1>6, <1>7, <1>8, <1>9, <1>10, <1>11, <1>12
     DEF ThroughputNext, Measure

LEMMA ProbeStep == ProbeInv /\ [ThroughputNext]_tputVars => ProbeInv'
BY StepTypes, StepStages, StepHeld, StepLingers, StepReports DEF ProbeInv, ConnInv

LEMMA ProbeSafe == ProbeInv => ThroughputTypeOK /\ UnderTheCap /\ CleanMeansNoDefect
<1> SUFFICES ASSUME ProbeInv PROVE ThroughputTypeOK /\ UnderTheCap /\ CleanMeansNoDefect
  OBVIOUS
<1>1. ASSUME REAPS_IN_TIME
      PROVE  Cardinality(held \cup linger) + 1 <= CAP
  <2>1. PICK v \in 1..VERBS :
          linger \subseteq {v} \X Users /\ (tput # "returned" => v = verb)
    BY <1>1 DEF ProbeInv, ConnInv, LingersFromOneVerb
  <2>2. held \subseteq {v} \X Users
    <3>1. ASSUME NEW c \in held
          PROVE  c \in {v} \X Users
      BY <2>1 DEF ProbeInv, ConnInv, HeldInv, Setup, Users
    <3> QED
      BY <3>1
  <2> QED
    BY <2>1, <2>2, VerbFits
<1> QED
  BY <1>1 DEF ProbeInv, ReportInv, UnderTheCap, CleanMeansNoDefect

-----------------------------------------------------------------------------
\* The acceptance run around the probe.

AcceptanceVars == <<accVars, tputVars>>

\* Before the scenarios that boot a server of their own, the credentials in the
\* environment are those of the server under test.
BeforeOwnServers == {"connect", "scale", "throughput", "recall_quality"} \cup Suites

AcceptanceInv ==
    /\ ProbeInv
    /\ AcceptanceTypeOK
    /\ acc \in BeforeOwnServers => ambient = "target"
    /\ EveryMintReachesItsServer
    /\ broken => "correctness" \in failed

LEMMA AcceptanceInits == AcceptanceInit => AcceptanceInv
BY ProbeInit DEF AcceptanceInit, AcceptanceInv, AcceptanceTypeOK, EveryMintReachesItsServer

\* A finished probe that met a defect, or did not begin, fails its gate on errors.
LEMMA ProbeGate ==
    ASSUME ProbeInv, ReturnReport, tput = "unminted" \/ defects # {}
    PROVE  ~(tput = "done" /\ NoErrors)
<1> SUFFICES ASSUME tput = "done", NoErrors PROVE FALSE
  OBVIOUS
<1>1. Len(results) = verb /\ defects \subseteq 1..verb
  BY DEF ProbeInv, ReportInv
<1>2. PICK i \in defects : i \in 1..Len(results)
  BY <1>1
<1> QED
  BY <1>2 DEF ProbeInv, ReportInv, NoErrors

LEMMA GatedFails ==
    ASSUME NEW passed \in BOOLEAN, Gated(passed), AcceptanceInv
    PROVE  /\ failed' \subseteq {"perf", "correctness"}
           /\ broken' \in BOOLEAN
           /\ broken' => "correctness" \in failed'
BY DEF Gated, Gates, AcceptanceInv, AcceptanceTypeOK

LEMMA AfterTyped ==
    ASSUME NEW stage \in {"scale", "throughput", "recall_quality"} \cup Suites \cup OwnServers
    PROVE  /\ After(stage) \in {"scale", "throughput", "recall_quality", "report"} \cup Suites
                                 \cup OwnServers
           /\ After(stage) \in BeforeOwnServers => stage \in BeforeOwnServers
BY DEF After, Suites, OwnServers, BeforeOwnServers

LEMMA GatesStep ==
    ASSUME AcceptanceInv, RunGates
    PROVE  /\ [ThroughputNext]_tputVars
           /\ AcceptanceTypeOK'
           /\ (acc \in BeforeOwnServers => ambient = "target")'
           /\ EveryMintReachesItsServer'
           /\ (broken => "correctness" \in failed)'
<1> USE DEF AcceptanceInv, AcceptanceTypeOK, BeforeOwnServers, EveryMintReachesItsServer
<1>1. CASE AcceptanceConnects
  BY <1>1 DEF AcceptanceConnects, MintsFor
<1>2. CASE ConnectRefused
  BY <1>2 DEF ConnectRefused, Gates, Suites
<1>3. CASE ScaleGates
  BY <1>3 DEF ScaleGates, Gates, After
<1>4. CASE ThroughputGates
  <2>1. PICK fast \in BOOLEAN :
          /\ acc = "throughput"
          /\ ReturnReport
          /\ failed' = failed \cup Gates("correctness", tput = "done" /\ NoErrors)
                              \cup Gates("perf", tput = "done" => fast /\ MeetsFloors)
          /\ broken' = (broken \/ tput = "unminted" \/ defects # {})
          /\ acc' = After(acc)
          /\ UNCHANGED <<scaled, ambient, minted>>
    BY <1>4 DEF ThroughputGates
  <2>2. failed' \subseteq {"perf", "correctness"} /\ failed \subseteq failed'
    BY <2>1 DEF Gates
  <2>3. broken' => "correctness" \in failed'
    BY <2>1, <2>2, ProbeGate DEF Gates
  <2>4. acc' = "recall_quality"
    BY <2>1 DEF After
  <2> QED
    BY <2>1, <2>2, <2>3, <2>4 DEF ThroughputNext
<1>5. CASE RecallGate
  <2>1. PICK passed \in BOOLEAN :
          acc = "recall_quality" /\ Gated(passed) /\ UNCHANGED <<tputVars, scaled, ambient, minted>>
    BY <1>5 DEF RecallGate
  <2>2. acc' = "core"
    BY <2>1 DEF Gated, After
  <2> QED
    BY <2>1, <2>2, GatedFails DEF Suites
<1>6. CASE RunSuite
  <2>1. PICK passed \in BOOLEAN :
          /\ acc \in Suites
          /\ Gated(passed)
          /\ MintsFor("target")
          /\ UNCHANGED <<tputVars, scaled, ambient>>
    BY <1>6 DEF RunSuite
  <2>2. acc' = After(acc) /\ ambient = "target"
    BY <2>1 DEF Gated
  <2>3. minted' = minted \cup {<<"target", "target">>}
    BY <2>1, <2>2 DEF MintsFor
  <2> QED
    BY <2>1, <2>2, <2>3, GatedFails, AfterTyped
<1>7. CASE BootsOwnServer
  <2>1. PICK passed \in BOOLEAN :
          /\ acc \in OwnServers
          /\ ambient' = acc
          /\ minted' = minted \cup {<<acc, acc>>}
          /\ Gated(passed)
          /\ UNCHANGED <<tputVars, scaled>>
    BY <1>7 DEF BootsOwnServer
  <2>2. acc' = After(acc) /\ acc \notin BeforeOwnServers
    BY <2>1 DEF Gated, OwnServers, Suites
  <2> QED
    BY <2>1, <2>2, GatedFails, AfterTyped
<1>8. CASE OwnBootFails
  <2>1. acc \in OwnServers /\ Gated(FALSE) /\ UNCHANGED <<tputVars, scaled, ambient, minted>>
    BY <1>8 DEF OwnBootFails
  <2>2. acc' = After(acc) /\ acc \notin BeforeOwnServers
    BY <2>1 DEF Gated, OwnServers, Suites
  <2> QED
    BY <2>1, <2>2, GatedFails, AfterTyped
<1>9. CASE NotConfigured
  <2>1. acc \in OwnServers /\ acc' = After(acc)
        /\ UNCHANGED <<tputVars, scaled, failed, broken, ambient, minted>>
    BY <1>9 DEF NotConfigured
  <2>2. acc \notin BeforeOwnServers
    BY <2>1 DEF OwnServers, Suites
  <2> QED
    BY <2>1, <2>2, AfterTyped
<1> QED
  BY <1>1, <1>2, <1>3, <1>4, <1>5, <1>6, <1>7, <1>8, <1>9 DEF RunGates

LEMMA DrivesStep ==
    ASSUME AcceptanceInv, acc = "throughput", UNCHANGED <<acc, scaled, failed, broken, ambient>>,
           IF tput = "mint" THEN MintsFor("target") ELSE UNCHANGED minted
    PROVE  /\ AcceptanceTypeOK'
           /\ (acc \in BeforeOwnServers => ambient = "target")'
           /\ EveryMintReachesItsServer'
           /\ (broken => "correctness" \in failed)'
<1>1. ambient = "target"
  BY DEF AcceptanceInv, BeforeOwnServers
<1>2. minted' \subseteq minted \cup {<<"target", "target">>}
  BY <1>1 DEF MintsFor
<1>3. minted' \subseteq ({"target"} \cup OwnServers) \X ({"target"} \cup OwnServers)
  BY <1>2 DEF AcceptanceInv, AcceptanceTypeOK
<1> QED
  BY <1>1, <1>2, <1>3 DEF AcceptanceInv, AcceptanceTypeOK, EveryMintReachesItsServer

LEMMA AcceptanceStep == AcceptanceInv /\ [AcceptanceNext]_AcceptanceVars => AcceptanceInv'
<1> SUFFICES ASSUME AcceptanceInv, [AcceptanceNext]_AcceptanceVars PROVE AcceptanceInv'
  OBVIOUS
<1>0. ProbeInv
  BY DEF AcceptanceInv
<1>1. CASE RunGates
  BY <1>0, <1>1, GatesStep, ProbeStep DEF AcceptanceInv
<1>2. CASE Drives(Measure)
  BY <1>0, <1>2, DrivesStep, ProbeStep DEF Drives, ThroughputNext, AcceptanceInv
<1>3. CASE Drives(Deadline)
  BY <1>0, <1>3, DrivesStep, ProbeStep DEF Drives, ThroughputNext, AcceptanceInv
<1>4. ASSUME NEW w \in Workers, Drives(Worker(w))
      PROVE  AcceptanceInv'
  BY <1>0, <1>4, DrivesStep, ProbeStep DEF Drives, ThroughputNext, AcceptanceInv
<1>5. CASE Reap /\ UNCHANGED accVars
  <2>1. ProbeInv'
    BY <1>0, <1>5, ProbeStep DEF ThroughputNext
  <2> QED
    BY <1>5, <2>1 DEF accVars, AcceptanceInv, AcceptanceTypeOK, EveryMintReachesItsServer
<1>6. CASE UNCHANGED AcceptanceVars
  <2>1. ProbeInv'
    BY <1>0, <1>6, ProbeStep DEF AcceptanceVars
  <2> QED
    BY <1>6, <2>1 DEF AcceptanceVars, accVars, AcceptanceInv, AcceptanceTypeOK,
       EveryMintReachesItsServer
<1> QED
  BY <1>1, <1>2, <1>3, <1>4, <1>5, <1>6 DEF AcceptanceNext

LEMMA AcceptanceSafe ==
    AcceptanceInv => EveryMintReachesItsServer /\ CorrectnessMeansNothingBroke
BY DEF AcceptanceInv, CorrectnessMeansNothingBroke, CorrectnessPass
=============================================================================
