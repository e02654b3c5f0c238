-------------------------- MODULE EvalRunnerProofs --------------------------
(***************************************************************************)
(* Proofs about EvalRunner, for any conversations, instances and configs.  *)
(***************************************************************************)
EXTENDS EvalRunner, SumLemmas, TLAPS

\* The tasks of one conversation, by name; and the steps of a whole run.
LEMMA StepKinds ==
    ASSUME [Next]_vars
    PROVE  \/ UNCHANGED vars
           \/ Preflight \/ PreflightFails \/ PlanWithoutSpace \/ PlanSpace \/ EndPlan
           \/ EndIngest \/ RecordFailed \/ EndMerge \/ AwaitFlush \/ SkipFlush
           \/ EndRead \/ RecordRead \/ SaveManifest \/ WriteReports
           \/ Crash \/ ReadOnlyRun \/ Settles
           \/ \E c \in Conversations :
                /\ pc = "ingest"
                /\ \/ StartIngest(c) \/ Connects(c) \/ ConnectFails(c)
                   \/ EncodeStores(c) \/ EncodeDeduplicates(c) \/ EncodeFails(c)
                   \/ SessionEnds(c) \/ IngestEnds(c)
           \/ \E c \in Conversations :
                /\ pc = "read"
                /\ \/ StartRead(c) \/ Reconnects(c) \/ ReconnectFails(c)
                   \/ VerifyList(c) \/ Ask(c) \/ ReadEnds(c)
BY DEF Next, Running, IngestTask, ReadTask, Idle

\* The two shapes of an answer, and where the questions of a step come from.
LEMMA AnswerTypes ==
    /\ NoCounts \in Counts /\ Skipped \in Writes
    /\ \A b \in BOOLEAN : FailedAnswer(b) \in Results
    /\ \A S : First(S) \subseteq S
    /\ \A c : Open(c) \subseteq Instances
    /\ Unmerged \subseteq Conversations
    /\ Unrecorded \subseteq Instances
BY DEF NoCounts, Counts, Skipped, Writes, FailedAnswer, Results, First, Open, InstancesOf,
       Unmerged, Unrecorded

\* Adding up keeps counts counts.
LEMMA AddTypes ==
    /\ FreshTurn \in Counts /\ MergedTurn \in Counts
    /\ \A m, n \in Counts : Add(m, n) \in Counts
BY DEF FreshTurn, MergedTurn, Add, Counts

\* Every action keeps the types of the run's state, of its files and of the server.
THEOREM TypeCorrect == Spec => []TypeOK
<1> USE RunnerAssumption
<1>1. Init => TypeOK
  <2> SUFFICES ASSUME Init PROVE TypeOK
    OBVIOUS
  <2>1. config \in RunConfigs
    BY DEF Init
  <2>2. /\ plan \in [Conversations -> {"unplanned", "ready", "no_space", "no_key"}]
        /\ task \in [Conversations -> Tasks]
        /\ at \in [Conversations -> [session : Nat, turn : Nat]]
        /\ sent \in [Conversations -> Counts]
        /\ cw \in [Conversations -> Writes]
        /\ answer \in [Instances -> Results \cup {Unanswered}]
    BY AnswerTypes DEF Init, FreshRun, Tasks
  <2> QED
    <3>1. /\ store \in [Conversations -> Nat] /\ report \in Seq(Instances) /\ tracker \in Seq(Instances)
          /\ tokens \subseteq Conversations /\ persisted \subseteq Conversations
          /\ ledger \subseteq Conversations /\ early \subseteq Instances
      BY DEF Init
    <3>2. manifest \in [present : BOOLEAN, spaces : SUBSET Conversations]
      BY DEF Init, Absent
    <3> QED
      BY <2>1, <2>2, <3>1, <3>2 DEF Init, TypeOK
<1>2. TypeOK /\ [Next]_vars => TypeOK'
  <2> SUFFICES ASSUME TypeOK, [Next]_vars PROVE TypeOK'
    OBVIOUS
  <2> USE DEF TypeOK
  <2>1. CASE UNCHANGED vars
    BY <2>1 DEF vars, clientVars, diskVars, serverVars
  <2>2. CASE Preflight
    BY <2>2 DEF Preflight, clientVars, diskVars, serverVars, Phases, Ends
  <2>3. CASE PreflightFails
    BY <2>3 DEF PreflightFails, clientVars, diskVars, serverVars, Phases, Ends
  <2>4. CASE EndPlan
    BY <2>4 DEF EndPlan, clientVars, diskVars, serverVars, Phases, Ends
  <2>5. CASE EndIngest
    BY <2>5 DEF EndIngest, clientVars, diskVars, serverVars, Phases, Ends
  <2>6. CASE EndMerge
    BY <2>6 DEF EndMerge, clientVars, diskVars, serverVars, Phases, Ends
  <2>7. CASE SkipFlush
    BY <2>7 DEF SkipFlush, clientVars, diskVars, serverVars, Phases, Ends
  <2>8. CASE EndRead
    BY <2>8 DEF EndRead, clientVars, diskVars, serverVars, Phases, Ends
  <2>9. CASE WriteReports
    BY <2>9 DEF WriteReports, clientVars, diskVars, serverVars, Phases, Ends
  <2>10. CASE Crash
    BY <2>10 DEF Crash, clientVars, diskVars, serverVars, Phases, Ends
  <2>11. CASE PlanWithoutSpace
    BY <2>11 DEF PlanWithoutSpace, diskVars, serverVars
  <2>12. CASE PlanSpace
    <3>1. PICK c \in Conversations :
            /\ plan' \in {[plan EXCEPT ![c] = "ready"], [plan EXCEPT ![c] = "no_key"]}
            /\ tokens' \in {tokens, tokens \cup {c}}
            /\ persisted' \in {persisted, persisted \cup {c}}
      BY <2>12 DEF PlanSpace, CacheToken, RecordSpace, Unplanned, First
    <3> QED
      BY <2>12, <3>1 DEF PlanSpace, diskVars, serverVars
  <2>13. CASE RecordFailed
    <3>1. PICK q \in Instances :
            /\ answer' = [answer EXCEPT ![q] = FailedAnswer(TRUE)]
            /\ report' = Append(report, q) /\ (tracker' = Append(tracker, q) \/ tracker' = tracker)
      BY <2>13, AnswerTypes DEF RecordFailed, Record
    <3>2. answer' \in [Instances -> Results \cup {Unanswered}]
      BY <3>1, AnswerTypes
    <3>3. report' \in Seq(Instances) /\ tracker' \in Seq(Instances)
      <4>1. /\ Append(tracker, q) \in Seq(Instances) /\ tracker \in Seq(Instances)
            /\ Append(report, q) \in Seq(Instances)
        OBVIOUS
      <4> QED
        BY <3>1, <4>1
    <3>4. manifest' = manifest
      BY <2>13 DEF RecordFailed
    <3> QED
      BY <2>13, <3>2, <3>3, <3>4 DEF RecordFailed, serverVars
  <2>14. CASE AwaitFlush
    BY <2>14 DEF AwaitFlush, Barrier!ReturnSettled, Barrier!ReturnUnsure, clientVars, diskVars, Phases
  <2>15. CASE RecordRead
    BY <2>15, AnswerTypes DEF RecordRead, Record, NextToRecord, serverVars
  <2>16. CASE SaveManifest
    <3>1. manifest' \in [present : BOOLEAN, spaces : SUBSET Conversations]
      <4>1. manifest' \in {[present |-> TRUE, spaces |-> persisted], manifest, Absent}
        BY <2>16 DEF SaveManifest
      <4>2. persisted \in SUBSET Conversations
        OBVIOUS
      <4>3. {[present |-> TRUE, spaces |-> persisted], Absent}
              \subseteq [present : BOOLEAN, spaces : SUBSET Conversations]
        BY <4>2 DEF Absent
      <4> QED
        BY <4>1, <4>3
    <3> QED
      BY <2>16, <3>1 DEF SaveManifest, clientVars, serverVars, Phases
  <2>17. CASE ReadOnlyRun
    <3>1. /\ plan' \in [Conversations -> {"unplanned", "ready", "no_space", "no_key"}]
          /\ task' \in [Conversations -> Tasks]
          /\ at' \in [Conversations -> [session : Nat, turn : Nat]]
          /\ sent' \in [Conversations -> Counts]
          /\ cw' \in [Conversations -> Writes]
          /\ answer' \in [Instances -> Results \cup {Unanswered}]
      BY <2>17, AnswerTypes DEF ReadOnlyRun, FreshRun, Tasks
    <3> QED
      BY <2>17, <3>1 DEF ReadOnlyRun
  <2>18. CASE Settles
    BY <2>18 DEF Settles, Barrier!Settle, clientVars, diskVars
  <2>19. ASSUME NEW c \in Conversations, StartIngest(c)
        PROVE  TypeOK'
    BY <2>19 DEF StartIngest, Becomes, Tasks, diskVars, serverVars
  <2>20. ASSUME NEW c \in Conversations, Connects(c)
        PROVE  TypeOK'
    BY <2>20 DEF Connects, Becomes, AfterConnect, Tasks, diskVars, serverVars
  <2>21. ASSUME NEW c \in Conversations, ConnectFails(c)
        PROVE  TypeOK'
    BY <2>21 DEF ConnectFails, Becomes, Tasks, diskVars, serverVars
  <2>22. ASSUME NEW c \in Conversations, IngestEnds(c)
        PROVE  TypeOK'
    BY <2>22 DEF IngestEnds, Becomes, Tasks, diskVars, serverVars
  <2>23. ASSUME NEW c \in Conversations, Reconnects(c)
        PROVE  TypeOK'
    BY <2>23 DEF Reconnects, Becomes, Tasks, diskVars, serverVars
  <2>24. ASSUME NEW c \in Conversations, ReadEnds(c)
        PROVE  TypeOK'
    BY <2>24 DEF ReadEnds, Becomes, Tasks, diskVars, serverVars
  <2>25. ASSUME NEW c \in Conversations, VerifyList(c)
        PROVE  TypeOK'
    BY <2>25 DEF VerifyList, Becomes, Tasks, Ends, diskVars, serverVars
  <2>26. ASSUME NEW c \in Conversations, StartRead(c)
        PROVE  TypeOK'
    <3>1. answer' \in [Instances -> Results \cup {Unanswered}]
      BY <2>26, AnswerTypes DEF StartRead, FailGroup
    <3>2. task' \in [Conversations -> Tasks]
      BY <2>26 DEF StartRead, Becomes, Tasks
    <3> QED
      BY <2>26, <3>1, <3>2 DEF StartRead, diskVars, serverVars
  <2>27. ASSUME NEW c \in Conversations, ReconnectFails(c)
        PROVE  TypeOK'
    BY <2>27, AnswerTypes DEF ReconnectFails, Becomes, FailGroup, Tasks, diskVars, serverVars
  <2>28. ASSUME NEW c \in Conversations, EncodeStores(c)
        PROVE  TypeOK'
    <3>1. sent' \in [Conversations -> Counts] /\ at' \in [Conversations -> [session : Nat, turn : Nat]]
      <4>1. sent[c] \in Counts
        OBVIOUS
      <4>2. Add(sent[c], FreshTurn) \in Counts /\ Add(sent[c], MergedTurn) \in Counts
        BY <4>1, AddTypes
      <4>3. at' \in [Conversations -> [session : Nat, turn : Nat]]
        BY <2>28 DEF EncodeStores, SendTurn
      <4> QED
        BY <2>28, <4>2, <4>3 DEF EncodeStores, SendTurn
    <3>2. store' \in [Conversations -> Nat] /\ pipeline' = "busy"
      BY <2>28 DEF EncodeStores, ServerStores
    <3> QED
      BY <2>28, <3>1, <3>2 DEF EncodeStores, diskVars
  <2>29. ASSUME NEW c \in Conversations, EncodeDeduplicates(c)
        PROVE  TypeOK'
    <3>1. sent' \in [Conversations -> Counts] /\ at' \in [Conversations -> [session : Nat, turn : Nat]]
      <4>1. sent[c] \in Counts
        OBVIOUS
      <4>2. Add(sent[c], FreshTurn) \in Counts /\ Add(sent[c], MergedTurn) \in Counts
        BY <4>1, AddTypes
      <4>3. at' \in [Conversations -> [session : Nat, turn : Nat]]
        BY <2>29 DEF EncodeDeduplicates, SendTurn
      <4> QED
        BY <2>29, <4>2, <4>3 DEF EncodeDeduplicates, SendTurn
    <3> QED
      BY <2>29, <3>1 DEF EncodeDeduplicates, diskVars, serverVars
  <2>30. ASSUME NEW c \in Conversations, EncodeFails(c)
        PROVE  TypeOK'
    <3>1. sent' \in [Conversations -> Counts] /\ at' \in [Conversations -> [session : Nat, turn : Nat]]
      BY <2>30, AnswerTypes DEF EncodeFails, NextSession
    <3>2. cw' \in [Conversations -> Writes]
      BY <2>30 DEF EncodeFails, AfterFailure, Writes
    <3>3. store' \in [Conversations -> Nat] /\ pipeline' \in {"busy", "settled"}
      <4>1. CASE ServerStores(c)
        BY <4>1 DEF ServerStores
      <4> QED
        BY <2>30, <4>1 DEF EncodeFails
    <3> QED
      BY <2>30, <3>1, <3>2, <3>3 DEF EncodeFails, diskVars
  <2>31. ASSUME NEW c \in Conversations, SessionEnds(c)
        PROVE  TypeOK'
    <3>1. sent' \in [Conversations -> Counts] /\ at' \in [Conversations -> [session : Nat, turn : Nat]]
      BY <2>31, AnswerTypes DEF SessionEnds, NextSession
    <3>2. cw' \in [Conversations -> Writes]
      <4>2. cw' = [cw EXCEPT ![c].counts = Add(cw[c].counts, sent[c])]
        BY <2>31 DEF SessionEnds
      <4>3. cw[c] \in Writes /\ sent[c] \in Counts
        OBVIOUS
      <4>4. Add(cw[c].counts, sent[c]) \in Counts
        BY <4>3, AddTypes DEF Writes
      <4> QED
        BY <4>2, <4>3, <4>4 DEF Writes
    <3> QED
      BY <2>31, <3>1, <3>2 DEF SessionEnds, diskVars, serverVars
  <2>32. ASSUME NEW c \in Conversations, Ask(c)
        PROVE  TypeOK'
    <3>1. answer' \in [Instances -> Results \cup {Unanswered}] /\ early' \subseteq Instances
      BY <2>32, AnswerTypes DEF Ask, Results, Writes
    <3> QED
      BY <2>32, <3>1 DEF Ask, diskVars
  <2> QED
    BY <2>1, <2>2, <2>3, <2>4, <2>5, <2>6, <2>7, <2>8, <2>9, <2>10, <2>11, <2>12, <2>13, <2>14, <2>15, <2>16, <2>17, <2>18, <2>19, <2>20, <2>21, <2>22, <2>23, <2>24, <2>25, <2>26, <2>27, <2>28, <2>29, <2>30, <2>31, <2>32, StepKinds
<1> QED
  BY <1>1, <1>2, PTL DEF Spec

-----------------------------------------------------------------------------
(***************************************************************************)
(* What each kind of step leaves alone, stated once for all invariants.    *)
(***************************************************************************)
\* The conversation has been connected to and may have been written to.
Started == {"writing", "ingested", "reconnecting", "reading", "read"}

LEMMA IngestFrame ==
    ASSUME TypeOK, NEW c \in Conversations,
           \/ StartIngest(c) \/ Connects(c) \/ ConnectFails(c)
           \/ EncodeStores(c) \/ EncodeDeduplicates(c) \/ EncodeFails(c)
           \/ SessionEnds(c) \/ IngestEnds(c)
    PROVE  /\ UNCHANGED <<config, readOnly, pc, plan, tokens, persisted, answer, ledger,
                          report, tracker, manifest, verdict, early>>
           /\ \A d \in Conversations \ {c} :
                /\ task'[d] = task[d] /\ at'[d] = at[d] /\ sent'[d] = sent[d]
                /\ cw'[d] = cw[d] /\ store'[d] = store[d]
           /\ \/ task[c] = "waiting" /\ task'[c] \in {"connecting", "failed"}
              \/ task[c] = "connecting" /\ task'[c] \in {"writing", "ingested", "failed"}
              \/ task[c] = "writing" /\ task'[c] \in {"writing", "ingested"}
           /\ task'[c] = "connecting" => plan[c] = "ready"
           /\ task'[c] = "writing" => task[c] = "writing" \/ ~readOnly
           /\ task[c] # "writing" => UNCHANGED <<at, sent, cw, store, pipeline>>
<1>1. CASE \/ StartIngest(c) \/ Connects(c) \/ ConnectFails(c) \/ IngestEnds(c)
  BY <1>1 DEF StartIngest, Connects, ConnectFails, IngestEnds, Becomes, AfterConnect, MayStart,
     First, TypeOK, diskVars, serverVars
<1>2. CASE EncodeStores(c) \/ EncodeDeduplicates(c)
  BY <1>2 DEF EncodeStores, EncodeDeduplicates, TurnLeft, SendTurn, ServerStores, TypeOK,
     diskVars, serverVars
<1>3. CASE EncodeFails(c)
  BY <1>3 DEF EncodeFails, TurnLeft, NextSession, ServerStores, TypeOK, diskVars
<1>4. CASE SessionEnds(c)
  BY <1>4 DEF SessionEnds, NextSession, TypeOK, diskVars, serverVars
<1> QED
  BY <1>1, <1>2, <1>3, <1>4

LEMMA ReadFrame ==
    ASSUME TypeOK, NEW c \in Conversations,
           \/ StartRead(c) \/ Reconnects(c) \/ ReconnectFails(c)
           \/ VerifyList(c) \/ Ask(c) \/ ReadEnds(c)
    PROVE  /\ UNCHANGED <<config, readOnly, plan, tokens, persisted, at, sent, cw, report,
                          tracker, manifest, store, pipeline, verdict>>
           /\ pc' \in {pc, "panicked"}
           /\ \A d \in Conversations \ {c} : task'[d] = task[d]
           /\ task[c] \in {"ingested", "reconnecting", "reading"}
           /\ task'[c] \in {"ingested", "reconnecting", "reading", "read"}
           /\ early' # early => pipeline = "busy"
           /\ ledger' = ledger
                \/ (~readOnly /\ ledger' = ledger \cup {c} /\ task'[c] = "reading")
           /\ task[c] = "reading" => task'[c] \in {"reading", "read"}
<1>1. CASE \/ Reconnects(c) \/ ReconnectFails(c) \/ VerifyList(c) \/ ReadEnds(c)
  BY <1>1 DEF Reconnects, ReconnectFails, VerifyList, ReadEnds, Becomes, TypeOK,
     diskVars, serverVars
<1>2. CASE StartRead(c)
  BY <1>2 DEF StartRead, Becomes, MayStart, First, TypeOK, diskVars, serverVars
<1>3. CASE Ask(c)
  BY <1>3 DEF Ask, TypeOK, diskVars
<1> QED
  BY <1>1, <1>2, <1>3

LEMMA PhaseFrame ==
    ASSUME \/ UNCHANGED vars
           \/ Preflight \/ PreflightFails \/ EndPlan \/ EndIngest \/ EndMerge \/ SkipFlush
           \/ EndRead \/ WriteReports \/ Crash
    PROVE  UNCHANGED <<config, readOnly, plan, tokens, persisted, task, at, sent, cw, answer,
                       ledger, report, tracker, manifest, store, pipeline, verdict, early>>
BY DEF Preflight, PreflightFails, EndPlan, EndIngest, EndMerge, SkipFlush, EndRead,
   WriteReports, Crash, vars, clientVars, diskVars, serverVars

LEMMA OtherFrame ==
    /\ RecordFailed \/ RecordRead =>
         UNCHANGED <<config, readOnly, pc, plan, tokens, persisted, task, at, sent, cw,
                     ledger, manifest, store, pipeline, verdict, early>>
    /\ AwaitFlush =>
         UNCHANGED <<config, readOnly, plan, tokens, persisted, task, at, sent, cw, answer,
                     ledger, report, tracker, manifest, store, pipeline, early>>
    /\ SaveManifest =>
         UNCHANGED <<config, readOnly, plan, tokens, persisted, task, at, sent, cw, answer,
                     ledger, report, tracker, store, pipeline, verdict, early>>
    /\ Settles =>
         /\ UNCHANGED <<config, readOnly, pc, plan, tokens, persisted, task, at, sent, cw,
                        answer, ledger, report, tracker, manifest, store, verdict, early>>
         /\ pipeline' = "settled"
    /\ PlanWithoutSpace \/ PlanSpace =>
         UNCHANGED <<config, readOnly, pc, task, at, sent, cw, answer, ledger, report,
                     tracker, manifest, store, pipeline, verdict, early>>
BY DEF RecordFailed, RecordRead, AwaitFlush, SaveManifest, Settles, PlanWithoutSpace, PlanSpace,
   Barrier!ReturnSettled, Barrier!ReturnUnsure, Barrier!Settle,
   clientVars, diskVars, serverVars

\* A second run starts from the same constants as the first.
LEMMA FreshFrame ==
    ASSUME ReadOnlyRun
    PROVE  /\ readOnly' = TRUE /\ ~readOnly /\ pc' = "preflight" /\ pc \in Ends
           /\ UNCHANGED <<config, manifest, store, pipeline, verdict>>
           /\ tokens' = {} /\ persisted' = {} /\ ledger' = {} /\ early' = {}
           /\ report' = <<>> /\ tracker' = <<>>
           /\ \A c \in Conversations :
                plan'[c] = "unplanned" /\ task'[c] = "waiting"
           /\ answer' = [q \in Instances |-> Unanswered]
BY DEF ReadOnlyRun, FreshRun

\* The second run is the last.
LEMMA ReadOnlyStays ==
    ASSUME TypeOK, [Next]_vars
    PROVE  readOnly => readOnly'
<1>1. ASSUME NEW c \in Conversations,
             \/ StartIngest(c) \/ Connects(c) \/ ConnectFails(c)
             \/ EncodeStores(c) \/ EncodeDeduplicates(c) \/ EncodeFails(c)
             \/ SessionEnds(c) \/ IngestEnds(c)
      PROVE  readOnly' = readOnly
  BY <1>1, IngestFrame
<1>2. ASSUME NEW c \in Conversations,
             \/ StartRead(c) \/ Reconnects(c) \/ ReconnectFails(c)
             \/ VerifyList(c) \/ Ask(c) \/ ReadEnds(c)
      PROVE  readOnly' = readOnly
  BY <1>2, ReadFrame
<1> QED
  BY <1>1, <1>2, StepKinds, PhaseFrame, OtherFrame, FreshFrame

-----------------------------------------------------------------------------
(***************************************************************************)
(* Keys: only a conversation with a key starts, and its key stays cached.  *)
(***************************************************************************)
KeyInv ==
    \A c \in Conversations :
        /\ plan[c] = "ready" => c \in tokens
        /\ task[c] \notin {"waiting", "failed"} => plan[c] = "ready"

LEMMA PlanKeepsKeyInv ==
    ASSUME TypeOK, KeyInv, PlanWithoutSpace \/ PlanSpace
    PROVE  KeyInv'
<1>1. task' = task
  BY OtherFrame
<1>2. PICK c \in Conversations :
        /\ plan[c] = "unplanned"
        /\ \/ plan' = [plan EXCEPT ![c] = "no_space"] /\ tokens' = tokens
           \/ plan' = [plan EXCEPT ![c] = "no_key"] /\ tokens' = tokens
           \/ plan' = [plan EXCEPT ![c] = "ready"] /\ tokens' = tokens \cup {c}
  BY DEF PlanWithoutSpace, PlanSpace, CacheToken, Unplanned, First
<1> QED
  BY <1>1, <1>2 DEF KeyInv, TypeOK

LEMMA KeyInvariant == Spec => []KeyInv
<1>1. Init => KeyInv
  BY DEF Init, FreshRun, KeyInv
<1>2. TypeOK /\ KeyInv /\ [Next]_vars => KeyInv'
  <2> SUFFICES ASSUME TypeOK, KeyInv, [Next]_vars PROVE KeyInv'
    OBVIOUS
  <2>1. CASE UNCHANGED <<plan, tokens, task>>
    BY <2>1 DEF KeyInv
  <2>2. CASE PlanWithoutSpace \/ PlanSpace
    BY <2>2, PlanKeepsKeyInv
  <2>3. CASE ReadOnlyRun
    BY <2>3, FreshFrame DEF KeyInv
  <2>4. ASSUME NEW c \in Conversations,
               \/ StartIngest(c) \/ Connects(c) \/ ConnectFails(c)
               \/ EncodeStores(c) \/ EncodeDeduplicates(c) \/ EncodeFails(c)
               \/ SessionEnds(c) \/ IngestEnds(c)
        PROVE  KeyInv'
    BY <2>4, IngestFrame DEF KeyInv
  <2>5. ASSUME NEW c \in Conversations,
               \/ StartRead(c) \/ Reconnects(c) \/ ReconnectFails(c)
               \/ VerifyList(c) \/ Ask(c) \/ ReadEnds(c)
        PROVE  KeyInv'
    BY <2>5, ReadFrame DEF KeyInv
  <2> QED
    BY <2>1, <2>2, <2>3, <2>4, <2>5, StepKinds, PhaseFrame, OtherFrame
<1> QED
  BY <1>1, <1>2, TypeCorrect, PTL DEF Spec

\* The read phase finds every token in the cache, so its "no cached data-plane
\* token" branch is dead: a reconnect costs no mint and cannot fail for want of one.
THEOREM TokensAreCached == Spec => []TokensOutliveIngest
<1>1. KeyInv => TokensOutliveIngest
  BY DEF KeyInv, TokensOutliveIngest
<1> QED
  BY <1>1, KeyInvariant, PTL

-----------------------------------------------------------------------------
(***************************************************************************)
(* Barrier: between the last write of an ingesting run and the last read   *)
(* of the run after it, a barrier that answered `settled' stays true.      *)
(***************************************************************************)
\* The barrier was on and did not answer that it was unsure.
Sound == config.drain /\ verdict \notin {"guessed", "gave_up"}

BarrierInv ==
    /\ ~readOnly /\ pipeline = "busy" => \E c \in Conversations : task[c] \in Started
    /\ readOnly => \A c \in Conversations : task[c] # "writing"
    /\ manifest.present /\ ~readOnly => pc \in {"report"} \cup Ends
    /\ readOnly /\ pc \in Phases \ {"report"} => manifest.present
    /\ manifest.present /\ Sound => pipeline = "settled"
    /\ pc \in {"read", "record", "report"} /\ Sound => pipeline = "settled"
    /\ ReadsSeeSettledGraph

LEMMA IngestKeepsBarrierInv ==
    ASSUME TypeOK, BarrierInv, NEW c \in Conversations, pc = "ingest",
           \/ StartIngest(c) \/ Connects(c) \/ ConnectFails(c)
           \/ EncodeStores(c) \/ EncodeDeduplicates(c) \/ EncodeFails(c)
           \/ SessionEnds(c) \/ IngestEnds(c)
    PROVE  BarrierInv'
<1>1. /\ UNCHANGED <<config, readOnly, pc, manifest, verdict, early>>
      /\ \A d \in Conversations \ {c} : task'[d] = task[d]
      /\ task[c] \in Started => task'[c] \in Started
      /\ task'[c] = "writing" => task[c] = "writing" \/ ~readOnly
      /\ task[c] # "writing" => UNCHANGED pipeline
  BY IngestFrame DEF Started
<1>2. ~readOnly /\ pipeline' = "busy" => \E d \in Conversations : task'[d] \in Started
  BY <1>1 DEF BarrierInv, Started
<1>3. readOnly => \A d \in Conversations : task'[d] # "writing"
  BY <1>1 DEF BarrierInv
<1>4. manifest.present => readOnly /\ pipeline' = pipeline
  BY <1>1 DEF BarrierInv, Ends
<1> QED
  BY <1>1, <1>2, <1>3, <1>4 DEF BarrierInv, Sound, ReadsSeeSettledGraph

LEMMA ReadKeepsBarrierInv ==
    ASSUME TypeOK, BarrierInv, NEW c \in Conversations, pc = "read",
           \/ StartRead(c) \/ Reconnects(c) \/ ReconnectFails(c)
           \/ VerifyList(c) \/ Ask(c) \/ ReadEnds(c)
    PROVE  BarrierInv'
<1>1. /\ UNCHANGED <<config, readOnly, manifest, pipeline, verdict>>
      /\ pc' \in {pc, "panicked"}
      /\ \A d \in Conversations \ {c} : task'[d] = task[d]
      /\ task[c] \in Started /\ task'[c] \in Started /\ task'[c] # "writing"
      /\ early' # early => pipeline = "busy"
  BY ReadFrame DEF Started
<1>2. ReadsSeeSettledGraph'
  BY <1>1 DEF BarrierInv, Sound, ReadsSeeSettledGraph
<1>3. ~readOnly /\ manifest.present => FALSE
  BY DEF BarrierInv, Ends
<1> QED
  BY <1>1, <1>2, <1>3 DEF BarrierInv, Sound, Phases, Ends

LEMMA BarrierInvariant == Spec => []BarrierInv
<1>1. Init => BarrierInv
  BY DEF Init, Absent, Phases, BarrierInv, ReadsSeeSettledGraph
<1>2. TypeOK /\ BarrierInv /\ [Next]_vars => BarrierInv'
  <2> SUFFICES ASSUME TypeOK, BarrierInv, [Next]_vars PROVE BarrierInv'
    OBVIOUS
  <2>1. CASE UNCHANGED <<config, readOnly, pc, manifest, task, pipeline, verdict, early>>
    BY <2>1 DEF BarrierInv, Sound, ReadsSeeSettledGraph
  <2>2. CASE Preflight \/ PreflightFails \/ EndPlan \/ EndIngest \/ EndMerge
    <3>1. UNCHANGED <<config, readOnly, manifest, task, pipeline, verdict, early>>
      BY <2>2, PhaseFrame
    <3>2. /\ pc' \in {"plan", "ingest", "merge", "barrier", "aborted"}
          /\ pc \in {"preflight"} \cup (Phases \ {"read", "record", "report"})
          /\ pc = "preflight" /\ pc' # "aborted" => (readOnly => manifest.present)
      BY <2>2 DEF Preflight, PreflightFails, EndPlan, EndIngest, EndMerge, Phases
    <3> QED
      BY <3>1, <3>2 DEF BarrierInv, Sound, ReadsSeeSettledGraph, Phases, Ends
  <2>3. CASE SkipFlush
    <3>1. UNCHANGED <<config, readOnly, manifest, task, pipeline, verdict, early>>
      BY <2>3, PhaseFrame
    <3>2. pc = "barrier" /\ pc' = "read" /\ ~(IngestedAny /\ config.drain)
      BY <2>3 DEF SkipFlush
    <3>3. Sound => pipeline = "settled"
      <4>1. CASE readOnly
        BY <3>2, <4>1 DEF BarrierInv, Phases
      <4>2. CASE ~readOnly
        <5>1. Sound => Prepared = {}
          BY <3>2, <4>2 DEF Sound, IngestedAny
        <5>2. Sound => \A c \in Conversations : task[c] = "failed"
          BY <5>1 DEF Prepared
        <5> QED
          BY <4>2, <5>2 DEF BarrierInv, Started, TypeOK
      <4> QED
        BY <4>1, <4>2
    <3> QED
      BY <3>1, <3>2, <3>3 DEF BarrierInv, Sound, ReadsSeeSettledGraph, Phases, Ends
  <2>4. CASE AwaitFlush
    <3>1. UNCHANGED <<config, readOnly, manifest, task, pipeline, early>>
      BY <2>4, OtherFrame
    <3>2. /\ pc = "barrier" /\ pc' = "read" /\ ~readOnly /\ verdict = "waiting"
          /\ \/ pipeline = "settled"
             \/ verdict' \in {"guessed", "gave_up"}
      BY <2>4 DEF AwaitFlush, IngestedAny, Barrier!ReturnSettled, Barrier!ReturnUnsure
    <3>3. ~manifest.present
      BY <3>2 DEF BarrierInv, Ends
    <3>4. Sound' => pipeline = "settled"
      BY <3>2 DEF Sound
    <3>5. ReadsSeeSettledGraph'
      BY <3>1, <3>2 DEF BarrierInv, ReadsSeeSettledGraph
    <3> QED
      BY <3>1, <3>2, <3>3, <3>4, <3>5 DEF BarrierInv
  <2>5. CASE EndRead \/ WriteReports \/ Crash
    <3>1. UNCHANGED <<config, readOnly, manifest, task, pipeline, verdict, early>>
      BY <2>5, PhaseFrame
    <3>2. \/ pc = "read" /\ pc' = "record"
          \/ pc' \in {"done", "crashed"}
      BY <2>5 DEF EndRead, WriteReports, Crash
    <3> QED
      BY <3>1, <3>2 DEF BarrierInv, Sound, ReadsSeeSettledGraph, Phases, Ends
  <2>6. CASE SaveManifest
    <3>1. UNCHANGED <<config, readOnly, task, pipeline, verdict, early>>
      BY <2>6, OtherFrame
    <3>2. pc = "record" /\ pc' = "report"
      BY <2>6 DEF SaveManifest
    <3>3. Sound => pipeline = "settled"
      BY <3>2 DEF BarrierInv
    <3> QED
      BY <3>1, <3>2, <3>3 DEF BarrierInv, Sound, ReadsSeeSettledGraph, Phases, Ends
  <2>7. CASE ReadOnlyRun
    BY <2>7, FreshFrame DEF BarrierInv, Sound, ReadsSeeSettledGraph, Phases
  <2>8. CASE Settles
    BY <2>8, OtherFrame DEF BarrierInv, Sound, ReadsSeeSettledGraph
  <2>9. ASSUME NEW c \in Conversations, pc = "ingest",
               \/ StartIngest(c) \/ Connects(c) \/ ConnectFails(c)
               \/ EncodeStores(c) \/ EncodeDeduplicates(c) \/ EncodeFails(c)
               \/ SessionEnds(c) \/ IngestEnds(c)
        PROVE  BarrierInv'
    BY <2>9, IngestKeepsBarrierInv
  <2>10. ASSUME NEW c \in Conversations, pc = "read",
               \/ StartRead(c) \/ Reconnects(c) \/ ReconnectFails(c)
               \/ VerifyList(c) \/ Ask(c) \/ ReadEnds(c)
        PROVE  BarrierInv'
    BY <2>10, ReadKeepsBarrierInv
  <2>11. CASE PlanWithoutSpace \/ PlanSpace \/ RecordFailed \/ RecordRead \/ UNCHANGED vars
    BY <2>1, <2>11, OtherFrame DEF vars, clientVars, diskVars, serverVars
  <2> QED
    BY <2>2, <2>3, <2>4, <2>5, <2>6, <2>7, <2>8, <2>9, <2>10, <2>11, StepKinds
<1> QED
  BY <1>1, <1>2, TypeCorrect, PTL DEF Spec

\* No question of a run, or of the read-only run after it, is asked of a graph still
\* being built unless the barrier was switched off, guessed or gave up.
THEOREM ReadsAfterBarrier == Spec => []ReadsSeeSettledGraph
<1>1. BarrierInv => ReadsSeeSettledGraph
  BY DEF BarrierInv
<1> QED
  BY <1>1, BarrierInvariant, PTL

-----------------------------------------------------------------------------
(***************************************************************************)
(* Manifest: the space of a conversation is recorded when its key is       *)
(* minted, so before anything can be written to it.                        *)
(***************************************************************************)
ManifestInv ==
    ~readOnly =>
        /\ \A c \in Conversations :
             /\ store[c] > 0 => task[c] \in Started
             /\ config.persist /\ plan[c] = "ready" => c \in persisted
        /\ manifest.present => pc \in {"report"} \cup Ends
        /\ manifest.present => {c \in Conversations : store[c] > 0} \subseteq manifest.spaces

LEMMA ManifestInvariant == Spec => []ManifestInv
<1>1. Init => ManifestInv
  <2> SUFFICES ASSUME Init PROVE ManifestInv
    OBVIOUS
  <2>1. \A c \in Conversations : store[c] = 0 /\ plan[c] = "unplanned"
    BY DEF Init, FreshRun
  <2> QED
    BY <2>1 DEF Init, Absent, ManifestInv
<1>2. TypeOK /\ KeyInv /\ ManifestInv /\ [Next]_vars => ManifestInv'
  <2> SUFFICES ASSUME TypeOK, KeyInv, ManifestInv, ~readOnly, ~readOnly', [Next]_vars
               PROVE  ManifestInv'
    BY ReadOnlyStays DEF ManifestInv
  <2>1. CASE /\ UNCHANGED <<config, plan, persisted, task, store, manifest>>
             /\ (pc' = pc \/ pc \notin {"report"} \cup Ends \/ pc' \in Ends)
    BY <2>1 DEF ManifestInv, Ends
  <2>2. CASE PlanSpace
    <3>1. UNCHANGED <<config, pc, task, store, manifest>> /\ pc = "plan"
      BY <2>2, OtherFrame DEF PlanSpace
    <3>2. PICK c \in Conversations :
            /\ plan' \in {[plan EXCEPT ![c] = "ready"], [plan EXCEPT ![c] = "no_key"]}
            /\ plan'[c] = "ready" => persisted' = RecordSpace(c)
            /\ plan'[c] # "ready" => persisted' = persisted
      BY <2>2 DEF PlanSpace, Unplanned, First, TypeOK
    <3>3. persisted \subseteq persisted' /\ (plan'[c] = "ready" /\ config.persist => c \in persisted')
      BY <3>2 DEF RecordSpace
    <3> QED
      BY <3>1, <3>2, <3>3 DEF ManifestInv, Ends, TypeOK
  <2>3. CASE SaveManifest
    <3>1. UNCHANGED <<config, plan, persisted, task, store>>
      BY <2>3, OtherFrame
    <3>2. /\ pc = "record" /\ pc' = "report"
          /\ \/ manifest' = manifest \/ ~manifest'.present
             \/ config.persist /\ manifest' = [present |-> TRUE, spaces |-> persisted]
      BY <2>3 DEF SaveManifest, Absent
    <3>3. config.persist => {c \in Conversations : store[c] > 0} \subseteq persisted
      BY DEF ManifestInv, KeyInv, Started
    <3> QED
      BY <3>1, <3>2, <3>3 DEF ManifestInv, Ends
  <2>4. ASSUME NEW c \in Conversations, pc = "ingest",
               \/ StartIngest(c) \/ Connects(c) \/ ConnectFails(c)
               \/ EncodeStores(c) \/ EncodeDeduplicates(c) \/ EncodeFails(c)
               \/ SessionEnds(c) \/ IngestEnds(c)
        PROVE  ManifestInv'
    <3>1. /\ UNCHANGED <<config, pc, plan, persisted, manifest>>
          /\ \A d \in Conversations \ {c} : task'[d] = task[d] /\ store'[d] = store[d]
          /\ task[c] \in Started => task'[c] \in Started
          /\ task[c] # "writing" => store'[c] = store[c]
      BY <2>4, IngestFrame DEF Started
    <3> QED
      BY <2>4, <3>1 DEF ManifestInv, Started, Ends
  <2>5. ASSUME NEW c \in Conversations, pc = "read",
               \/ StartRead(c) \/ Reconnects(c) \/ ReconnectFails(c)
               \/ VerifyList(c) \/ Ask(c) \/ ReadEnds(c)
        PROVE  ManifestInv'
    <3>1. /\ UNCHANGED <<config, plan, persisted, store, manifest>>
          /\ \A d \in Conversations \ {c} : task'[d] = task[d]
          /\ task'[c] \in Started
      BY <2>5, ReadFrame DEF Started
    <3> QED
      BY <2>5, <3>1 DEF ManifestInv, Ends
  <2>6. CASE \/ UNCHANGED vars
             \/ Preflight \/ PreflightFails \/ EndPlan \/ EndIngest \/ EndMerge \/ SkipFlush
             \/ EndRead \/ WriteReports \/ Crash
             \/ RecordFailed \/ RecordRead \/ AwaitFlush \/ Settles
    <3>1. UNCHANGED <<config, plan, persisted, task, store, manifest>>
      BY <2>6, PhaseFrame, OtherFrame
    <3>2. pc' = pc \/ pc \notin {"report"} \cup Ends \/ pc' \in Ends
      BY <2>6, OtherFrame DEF Preflight, PreflightFails, EndPlan, EndIngest, EndMerge,
         SkipFlush, EndRead, WriteReports, Crash, AwaitFlush, Ends, vars
    <3> QED
      BY <2>1, <3>1, <3>2
  <2>7. ~PlanWithoutSpace /\ ~ReadOnlyRun
    BY FreshFrame DEF PlanWithoutSpace
  <2> QED
    BY <2>2, <2>3, <2>4, <2>5, <2>6, <2>7, StepKinds
<1> QED
  BY <1>1, <1>2, TypeCorrect, KeyInvariant, PTL DEF Spec

\* The manifest an ingesting run leaves names every conversation it wrote to.
THEOREM ManifestIsComplete == Spec => []ManifestCoversStore
<1>1. ManifestInv => ManifestCoversStore
  BY DEF ManifestInv, ManifestCoversStore
<1> QED
  BY <1>1, ManifestInvariant, PTL

-----------------------------------------------------------------------------
(***************************************************************************)
(* Ledger: what a conversation's task counted is what the server holds,    *)
(* short by what a failed session lost.                                    *)
(***************************************************************************)
\* The fresh memories the task knows of.
Counted(c) == cw[c].counts.stored + sent[c].stored

LedgerInv ==
    /\ readOnly => ledger = {}
    /\ \A c \in ledger : task[c] \in {"reading", "read"}
    /\ ~readOnly =>
         \A c \in Conversations :
            /\ Counted(c) <= store[c]
            /\ ~cw[c].failed => Counted(c) = store[c]
            /\ at[c].session \notin DOMAIN Turns[c] => sent[c].stored = 0
            /\ task[c] \in Started \ {"writing"} => at[c].session \notin DOMAIN Turns[c]

LEMMA IngestKeepsLedgerInv ==
    ASSUME TypeOK, LedgerInv, NEW c \in Conversations,
           \/ StartIngest(c) \/ Connects(c) \/ ConnectFails(c)
           \/ EncodeStores(c) \/ EncodeDeduplicates(c) \/ EncodeFails(c)
           \/ SessionEnds(c) \/ IngestEnds(c)
    PROVE  LedgerInv'
<1>1. /\ UNCHANGED <<readOnly, ledger>>
      /\ \A d \in Conversations \ {c} :
           /\ task'[d] = task[d] /\ at'[d] = at[d] /\ sent'[d] = sent[d]
           /\ cw'[d] = cw[d] /\ store'[d] = store[d]
      /\ task[c] \in {"waiting", "connecting", "writing"}
      /\ task[c] # "writing" => UNCHANGED <<at, sent, cw, store>>
  BY IngestFrame
<1>2. /\ cw[c].counts.stored \in Nat /\ sent[c].stored \in Nat /\ store[c] \in Nat
      /\ cw[c].counts \in Counts /\ sent[c] \in Counts
      /\ cw[c].failed \in BOOLEAN
  BY DEF TypeOK, Writes, Counts
<1>3. c \notin ledger
  BY <1>1 DEF LedgerInv
<1>4. SUFFICES ASSUME ~readOnly
               PROVE  /\ Counted(c)' <= store'[c]
                      /\ ~cw'[c].failed => Counted(c)' = store'[c]
                      /\ at'[c].session \notin DOMAIN Turns[c] => sent'[c].stored = 0
                      /\ task'[c] \in Started \ {"writing"}
                           => at'[c].session \notin DOMAIN Turns[c]
  BY <1>1, <1>3 DEF LedgerInv, Counted, TypeOK
<1>5. /\ Counted(c) <= store[c]
      /\ ~cw[c].failed => Counted(c) = store[c]
      /\ at[c].session \notin DOMAIN Turns[c] => sent[c].stored = 0
      /\ task[c] \in Started \ {"writing"} => at[c].session \notin DOMAIN Turns[c]
  BY <1>4 DEF LedgerInv
<1>6. CASE StartIngest(c) \/ Connects(c) \/ ConnectFails(c) \/ IngestEnds(c)
  <2>1. UNCHANGED <<at, sent, cw, store>>
    BY <1>6 DEF StartIngest, Connects, ConnectFails, IngestEnds, serverVars
  <2>2. task'[c] \in Started \ {"writing"} => at[c].session \notin DOMAIN Turns[c]
    BY <1>4, <1>5, <1>6 DEF StartIngest, Connects, ConnectFails, IngestEnds, Becomes,
       AfterConnect, Started, TypeOK
  <2> QED
    BY <1>5, <2>1, <2>2 DEF Counted
<1>7. CASE EncodeStores(c)
  <2>1. /\ task'[c] = "writing" /\ cw' = cw /\ store'[c] = store[c] + 1
        /\ sent'[c].stored = sent[c].stored + 1
        /\ at'[c].session = at[c].session /\ at[c].session \in DOMAIN Turns[c]
    BY <1>2, <1>7 DEF EncodeStores, TurnLeft, SendTurn, ServerStores, Add, FreshTurn, TypeOK
  <2> QED
    BY <1>2, <1>5, <2>1 DEF Counted, Started
<1>8. CASE EncodeDeduplicates(c)
  <2>1. /\ task'[c] = "writing" /\ cw' = cw /\ store' = store
        /\ sent'[c].stored = sent[c].stored
        /\ at'[c].session = at[c].session /\ at[c].session \in DOMAIN Turns[c]
    BY <1>2, <1>8 DEF EncodeDeduplicates, TurnLeft, SendTurn, Add, MergedTurn, TypeOK,
       serverVars
  <2> QED
    BY <1>2, <1>5, <2>1 DEF Counted, Started
<1>9. CASE EncodeFails(c)
  <2>1. /\ task'[c] = "writing" /\ cw'[c].failed /\ cw'[c].counts = cw[c].counts
        /\ store'[c] \in {store[c], store[c] + 1}
        /\ sent'[c].stored = 0
    BY <1>2, <1>9 DEF EncodeFails, TurnLeft, NextSession, NoCounts, AfterFailure,
       ServerStores, TypeOK, Writes
  <2> QED
    BY <1>2, <1>5, <2>1 DEF Counted, Started
<1>10. CASE SessionEnds(c)
  <2>1. /\ task'[c] = "writing" /\ cw'[c].failed = cw[c].failed
        /\ cw'[c].counts = Add(cw[c].counts, sent[c])
        /\ store' = store /\ sent'[c].stored = 0
    BY <1>2, <1>10 DEF SessionEnds, NextSession, NoCounts, TypeOK, Writes, serverVars
  <2>2. cw'[c].counts.stored = cw[c].counts.stored + sent[c].stored
    BY <2>1 DEF Add
  <2> QED
    BY <1>2, <1>5, <2>1, <2>2 DEF Counted, Started
<1> QED
  BY <1>6, <1>7, <1>8, <1>9, <1>10

LEMMA LedgerInvariant == Spec => []LedgerInv
<1>1. Init => LedgerInv
  <2> SUFFICES ASSUME Init PROVE LedgerInv
    OBVIOUS
  <2>1. \A c \in Conversations :
          /\ cw[c].counts.stored = 0 /\ sent[c].stored = 0 /\ store[c] = 0
          /\ task[c] = "waiting"
    BY DEF Init, FreshRun, Skipped, NoCounts
  <2> QED
    BY <2>1 DEF Init, LedgerInv, Counted, Started
<1>2. TypeOK /\ LedgerInv /\ [Next]_vars => LedgerInv'
  <2> SUFFICES ASSUME TypeOK, LedgerInv, [Next]_vars PROVE LedgerInv'
    OBVIOUS
  <2>1. CASE UNCHANGED <<readOnly, ledger, task, at, sent, cw, store>>
    BY <2>1 DEF LedgerInv, Counted
  <2>2. CASE ReadOnlyRun
    BY <2>2, FreshFrame DEF LedgerInv
  <2>3. ASSUME NEW c \in Conversations,
               \/ StartIngest(c) \/ Connects(c) \/ ConnectFails(c)
               \/ EncodeStores(c) \/ EncodeDeduplicates(c) \/ EncodeFails(c)
               \/ SessionEnds(c) \/ IngestEnds(c)
        PROVE  LedgerInv'
    BY <2>3, IngestKeepsLedgerInv
  <2>4. ASSUME NEW c \in Conversations,
               \/ StartRead(c) \/ Reconnects(c) \/ ReconnectFails(c)
               \/ VerifyList(c) \/ Ask(c) \/ ReadEnds(c)
        PROVE  LedgerInv'
    <3>1. /\ UNCHANGED <<readOnly, at, sent, cw, store>>
          /\ \A d \in Conversations \ {c} : task'[d] = task[d]
          /\ task[c] \in Started \ {"writing"} /\ task'[c] \in Started \ {"writing"}
          /\ task[c] \in {"reading", "read"} => task'[c] \in {"reading", "read"}
          /\ ledger' = ledger
               \/ (~readOnly /\ ledger' = ledger \cup {c} /\ task'[c] = "reading")
      BY <2>4, ReadFrame DEF Started
    <3> QED
      BY <3>1 DEF LedgerInv, Counted, TypeOK
  <2> QED
    BY <2>1, <2>2, <2>3, <2>4, StepKinds, PhaseFrame, OtherFrame
<1> QED
  BY <1>1, <1>2, TypeCorrect, PTL DEF Spec

\* A ledger row claims no memory the server does not hold, and is exact for a
\* conversation whose ingest did not fail.
THEOREM LedgerIsTrue == Spec => []LedgerIsHonest
<1>1. TypeOK /\ LedgerInv => LedgerIsHonest
  <2> SUFFICES ASSUME TypeOK, LedgerInv, NEW c \in ledger
               PROVE  /\ cw[c].counts.stored <= store[c]
                      /\ ~cw[c].failed => cw[c].counts.stored = store[c]
    BY DEF LedgerIsHonest
  <2>1. /\ c \in Conversations /\ ~readOnly /\ task[c] \in Started \ {"writing"}
    BY DEF TypeOK, LedgerInv, Started
  <2>2. sent[c].stored = 0
    BY <2>1 DEF LedgerInv
  <2>3. cw[c].counts.stored \in Nat /\ store[c] \in Nat
    BY <2>1 DEF TypeOK, Writes, Counts
  <2> QED
    BY <2>1, <2>2, <2>3 DEF LedgerInv, Counted
<1> QED
  BY <1>1, TypeCorrect, LedgerInvariant, PTL

-----------------------------------------------------------------------------
(***************************************************************************)
(* Records: every answer is recorded once, in the report and the tracker.  *)
(***************************************************************************)
RecordInv ==
    /\ tracker = IF config.outputDir THEN report ELSE <<>>
    /\ \A i, j \in DOMAIN report : i # j => report[i] # report[j]
    /\ \A i \in DOMAIN report : answer[report[i]] # Unanswered
    /\ pc \in {"report", "done"} => Unrecorded = {}
    /\ pc \in {"barrier", "read", "record", "report", "done"} =>
         \A c \in Conversations : task[c] = "failed" => Open(c) = {}
    /\ \A c \in Conversations : task[c] = "read" => config.verify \/ Open(c) = {}
    /\ pc \in {"record", "report", "done"} =>
         \A c \in Conversations : task[c] \in {"failed", "read"}

\* Appending an instance not yet reported keeps the entries distinct.
LEMMA AppendNew ==
    ASSUME NEW S, NEW s \in Seq(S), NEW q \in S, \A i \in DOMAIN s : s[i] # q,
           \A i, j \in DOMAIN s : i # j => s[i] # s[j]
    PROVE  LET t == Append(s, q)
           IN  /\ \A i, j \in DOMAIN t : i # j => t[i] # t[j]
               /\ \A i \in DOMAIN t : t[i] = q \/ \E j \in DOMAIN s : t[i] = s[j]
<1> DEFINE t == Append(s, q)
<1>1. DOMAIN s = 1..Len(s) /\ DOMAIN t = 1..(Len(s) + 1) /\ Len(s) \in Nat
  OBVIOUS
<1>2. t[Len(s) + 1] = q /\ \A i \in 1..Len(s) : t[i] = s[i]
  OBVIOUS
<1>3. \A i \in DOMAIN t : i = Len(s) + 1 \/ i \in 1..Len(s)
  BY <1>1
<1> HIDE DEF t
<1>4. \A i, j \in DOMAIN t : i # j => t[i] # t[j]
  BY <1>1, <1>2, <1>3
<1>5. \A i \in DOMAIN t : t[i] = q \/ \E j \in DOMAIN s : t[i] = s[j]
  BY <1>1, <1>2, <1>3
<1> QED
  BY <1>4, <1>5 DEF t

\* The set of open questions follows the answers.
LEMMA OpenShrinks ==
    ASSUME \A q \in Instances : answer[q] # Unanswered => answer'[q] # Unanswered
    PROVE  /\ \A c : Open(c) = {} => Open(c)' = {}
BY DEF Open, InstancesOf

\* A failed answer is an answer.
LEMMA FailedIsAnswer ==
    ASSUME NEW b \in BOOLEAN
    PROVE  FailedAnswer(b) # Unanswered
<1>1. FailedAnswer(b).graded = "incorrect" /\ Unanswered.graded = "none"
  BY DEF FailedAnswer, Unanswered
<1> QED
  BY <1>1

LEMMA ReadKeepsRecordInv ==
    ASSUME TypeOK, RecordInv, NEW c \in Conversations, pc = "read",
           \/ StartRead(c) \/ Reconnects(c) \/ ReconnectFails(c)
           \/ VerifyList(c) \/ Ask(c) \/ ReadEnds(c)
    PROVE  RecordInv'
<1>1. /\ UNCHANGED <<config, report, tracker>>
      /\ pc' \in {"read", "panicked"}
      /\ \A d \in Conversations \ {c} : task'[d] = task[d]
      /\ task'[c] \in {"ingested", "reconnecting", "reading", "read"}
  BY ReadFrame
<1>2. \A q \in Instances : answer[q] # Unanswered => answer'[q] # Unanswered
  <2>1. CASE StartRead(c) \/ ReconnectFails(c)
    BY <2>1, FailedIsAnswer DEF StartRead, ReconnectFails, FailGroup
  <2>2. CASE Reconnects(c) \/ VerifyList(c) \/ ReadEnds(c)
    BY <2>2 DEF Reconnects, VerifyList, ReadEnds
  <2>3. CASE Ask(c)
    BY <2>3 DEF Ask, First, Open, TypeOK
  <2> QED
    BY <2>1, <2>2, <2>3
<1>3. task'[c] = "read" => config.verify \/ Open(c)' = {}
  <2>1. CASE StartRead(c) \/ ReconnectFails(c)
    <3>1. task'[c] = "read" => FailGroup(c)
      BY <2>1 DEF StartRead, ReconnectFails, Becomes, TypeOK
    <3>2. FailGroup(c) => Open(c)' = {}
      BY FailedIsAnswer DEF FailGroup, Open, InstancesOf
    <3> QED
      BY <3>1, <3>2
  <2>2. CASE Reconnects(c) \/ VerifyList(c) \/ ReadEnds(c)
    BY <2>2 DEF Reconnects, VerifyList, ReadEnds, Becomes, Open, InstancesOf, TypeOK
  <2>3. CASE Ask(c)
    BY <2>3 DEF Ask
  <2> QED
    BY <2>1, <2>2, <2>3
<1>4. \A i \in DOMAIN report : answer'[report[i]] # Unanswered
  BY <1>2 DEF RecordInv, TypeOK
<1>5. pc' \in {"barrier", "read", "record", "report", "done"} =>
         \A d \in Conversations : task'[d] = "failed" => Open(d)' = {}
  BY <1>1, <1>2, OpenShrinks DEF RecordInv
<1>6. \A d \in Conversations : task'[d] = "read" => config.verify \/ Open(d)' = {}
  BY <1>1, <1>2, <1>3, OpenShrinks DEF RecordInv
<1> QED
  BY <1>1, <1>4, <1>5, <1>6 DEF RecordInv

LEMMA RecordKeepsRecordInv ==
    ASSUME TypeOK, RecordInv, NEW q \in Instances,
           Record(q),
           \A i \in DOMAIN report : report[i] # q,
           answer'[q] # Unanswered,
           \A p \in Instances : answer[p] # Unanswered => answer'[p] # Unanswered,
           UNCHANGED <<config, pc, task>>, pc \in {"merge", "record"}
    PROVE  RecordInv'
<1>1. /\ report \in Seq(Instances)
      /\ \A i, j \in DOMAIN report : i # j => report[i] # report[j]
      /\ report' = Append(report, q)
  BY DEF TypeOK, RecordInv, Record
<1>2. /\ \A i, j \in DOMAIN report' : i # j => report'[i] # report'[j]
      /\ \A i \in DOMAIN report' :
           report'[i] = q \/ \E j \in DOMAIN report : report'[i] = report[j]
  BY <1>1, AppendNew
<1>3. \A i \in DOMAIN report' : answer'[report'[i]] # Unanswered
  BY <1>1, <1>2 DEF RecordInv
<1>4. tracker' = IF config'.outputDir THEN report' ELSE <<>>
  BY DEF RecordInv, Record
<1>5. \A c \in Conversations : Open(c) = {} => Open(c)' = {}
  BY OpenShrinks
<1> QED
  BY <1>2, <1>3, <1>4, <1>5 DEF RecordInv

LEMMA RecordInvariant == Spec => []RecordInv
<1>1. Init => RecordInv
  BY DEF Init, FreshRun, RecordInv
<1>2. TypeOK /\ RecordInv /\ [Next]_vars => RecordInv'
  <2> SUFFICES ASSUME TypeOK, RecordInv, [Next]_vars PROVE RecordInv'
    OBVIOUS
  <2>1. ASSUME UNCHANGED <<config, task, answer, report, tracker>>,
               \/ pc' = pc
               \/ pc' \notin {"barrier", "read", "record", "report", "done"}
               \/ pc = "barrier" /\ pc' = "read"
               \/ pc = "report" /\ pc' = "done"
        PROVE  RecordInv'
    BY <2>1 DEF RecordInv, Unrecorded, Reported, Open, InstancesOf
  <2>2. CASE EndMerge
    <3>1. UNCHANGED <<config, task, answer, report, tracker>>
      BY <2>2, PhaseFrame
    <3>2. pc' = "barrier" /\ \A c \in Conversations : task[c] = "failed" => Open(c) = {}
      BY <2>2 DEF EndMerge, Unmerged
    <3> QED
      BY <3>1, <3>2 DEF RecordInv, Open, InstancesOf
  <2>3. CASE EndRead
    <3>1. UNCHANGED <<config, task, answer, report, tracker>>
      BY <2>3, PhaseFrame
    <3>2. /\ pc = "read" /\ pc' = "record"
          /\ \A c \in Conversations : task[c] \in {"failed", "read"}
      BY <2>3 DEF EndRead, Prepared
    <3> QED
      BY <3>1, <3>2 DEF RecordInv, Open, InstancesOf
  <2>4. CASE SaveManifest
    <3>1. UNCHANGED <<config, task, answer, report, tracker>>
      BY <2>4, OtherFrame
    <3>2. pc = "record" /\ pc' = "report" /\ Unrecorded = {}
      BY <2>4 DEF SaveManifest
    <3> QED
      BY <3>1, <3>2 DEF RecordInv, Unrecorded, Reported, Open, InstancesOf
  <2>5. CASE RecordFailed
    <3>1. PICK q \in Instances :
            /\ answer[q] = Unanswered
            /\ answer' = [answer EXCEPT ![q] = FailedAnswer(TRUE)]
            /\ Record(q)
      BY <2>5 DEF RecordFailed, First, Open, InstancesOf
    <3>2. \A i \in DOMAIN report : report[i] # q
      BY <3>1 DEF RecordInv
    <3>3. /\ answer'[q] # Unanswered
          /\ \A p \in Instances : answer[p] # Unanswered => answer'[p] # Unanswered
      BY <3>1, FailedIsAnswer DEF TypeOK
    <3>4. UNCHANGED <<config, pc, task>> /\ pc = "merge"
      BY <2>5, OtherFrame DEF RecordFailed
    <3> QED
      BY <3>1, <3>2, <3>3, <3>4, RecordKeepsRecordInv
  <2>6. CASE RecordRead
    <3>1. PICK q \in Unrecorded : Record(q)
      BY <2>6 DEF RecordRead, NextToRecord, First
    <3>2. /\ q \in Instances /\ answer[q] # Unanswered
          /\ \A i \in DOMAIN report : report[i] # q
      BY <3>1 DEF Unrecorded, Reported
    <3>3. UNCHANGED <<config, pc, task, answer>> /\ pc = "record"
      BY <2>6, OtherFrame DEF RecordRead
    <3> QED
      BY <3>1, <3>2, <3>3, RecordKeepsRecordInv
  <2>7. CASE ReadOnlyRun
    BY <2>7, FreshFrame DEF RecordInv
  <2>8. ASSUME NEW c \in Conversations, pc = "ingest",
               \/ StartIngest(c) \/ Connects(c) \/ ConnectFails(c)
               \/ EncodeStores(c) \/ EncodeDeduplicates(c) \/ EncodeFails(c)
               \/ SessionEnds(c) \/ IngestEnds(c)
        PROVE  RecordInv'
    <3>1. /\ UNCHANGED <<config, pc, answer, report, tracker>>
          /\ \A d \in Conversations \ {c} : task'[d] = task[d]
          /\ task'[c] # "read"
      BY <2>8, IngestFrame
    <3> QED
      BY <2>8, <3>1 DEF RecordInv, Open, InstancesOf
  <2>9. ASSUME NEW c \in Conversations, pc = "read",
               \/ StartRead(c) \/ Reconnects(c) \/ ReconnectFails(c)
               \/ VerifyList(c) \/ Ask(c) \/ ReadEnds(c)
        PROVE  RecordInv'
    BY <2>9, ReadKeepsRecordInv
  <2>10. CASE \/ UNCHANGED vars
              \/ Preflight \/ PreflightFails \/ EndPlan \/ EndIngest \/ SkipFlush
              \/ WriteReports \/ Crash
    <3>1. UNCHANGED <<config, task, answer, report, tracker>>
      BY <2>10, PhaseFrame
    <3>2. \/ pc' = pc
          \/ pc' \notin {"barrier", "read", "record", "report", "done"}
          \/ pc = "barrier" /\ pc' = "read"
          \/ pc = "report" /\ pc' = "done"
      BY <2>10 DEF Preflight, PreflightFails, EndPlan, EndIngest, SkipFlush, WriteReports,
         Crash, vars
    <3> QED
      BY <2>1, <3>1, <3>2
  <2>11. CASE PlanWithoutSpace \/ PlanSpace \/ AwaitFlush \/ Settles
    <3>1. UNCHANGED <<config, task, answer, report, tracker>>
      BY <2>11, OtherFrame
    <3>2. pc' = pc \/ (pc = "barrier" /\ pc' = "read")
      BY <2>11, OtherFrame DEF AwaitFlush
    <3> QED
      BY <2>1, <3>1, <3>2
  <2> QED
    BY <2>2, <2>3, <2>4, <2>5, <2>6, <2>7, <2>8, <2>9, <2>10, <2>11, StepKinds
<1> QED
  BY <1>1, <1>2, TypeCorrect, PTL DEF Spec

\* A run that completes has recorded every question exactly once, in the report and
\* in the tracker file, whichever of its steps failed; a verifying run leaves out
\* those it only lists.
THEOREM NoQuestionLost == Spec => []EveryQuestionOnce
<1>1. TypeOK /\ RecordInv => EveryQuestionOnce
  <2> SUFFICES ASSUME TypeOK, RecordInv, pc = "done"
               PROVE  Reported = {q \in Instances :
                                    ~config.verify \/ task[Conversation[q]] = "failed"
                                      \/ answer[q] # Unanswered}
    BY DEF EveryQuestionOnce, RecordInv
  <2>1. \A q \in Instances : Conversation[q] \in Conversations
    BY RunnerAssumption DEF Instances
  <2>2. \A q \in Instances : answer[q] # Unanswered => q \in Reported
    BY DEF RecordInv, Unrecorded
  <2>3. \A q \in Reported : q \in Instances /\ answer[q] # Unanswered
    BY DEF RecordInv, Reported, TypeOK
  <2>4. ASSUME NEW q \in Instances, ~config.verify \/ task[Conversation[q]] = "failed"
        PROVE  answer[q] # Unanswered
    <3>1. Open(Conversation[q]) = {}
      BY <2>1, <2>4 DEF RecordInv
    <3> QED
      BY <3>1 DEF Open, InstancesOf
  <2> QED
    BY <2>2, <2>3, <2>4
<1> QED
  BY <1>1, TypeCorrect, RecordInvariant, PTL

-----------------------------------------------------------------------------
(***************************************************************************)
(* Order: what is recorded before the barrier has failed, what is recorded *)
(* after it has not, and each phase records the least that it still owes.  *)
(***************************************************************************)
\* p may stand before q in a report.
InOrder(p, q) ==
    IF FailedFirst(q)
    THEN /\ FailedFirst(p)
         /\ Conversation[p] <= Conversation[q]
         /\ Conversation[p] = Conversation[q] => p < q
    ELSE FailedFirst(p) \/ p < q

OrderInv ==
    /\ ReportOrderIsScheduleFree
    /\ pc \in {"preflight", "plan", "ingest"} =>
         report = <<>> /\ \A q \in Instances : answer[q] = Unanswered
    /\ pc \in {"merge", "barrier", "read"} =>
         \A q \in Reported : FailedFirst(q) /\ task[Conversation[q]] = "failed"
    /\ pc \in {"merge", "barrier", "read", "record"} =>
         \A q \in Instances : FailedFirst(q) => q \in Reported
    /\ pc = "merge" =>
         \A p \in Reported, c \in Unmerged :
             /\ Conversation[p] <= c
             /\ Conversation[p] = c => \A q \in Open(c) : p < q
    /\ pc = "record" => \A p \in Reported, q \in Unrecorded : FailedFirst(p) \/ p < q

\* Instances and conversations are places in a sequence.
LEMMA Places ==
    /\ Instances \subseteq Nat /\ Conversations \subseteq Nat
    /\ \A q \in Instances : Conversation[q] \in Conversations
BY RunnerAssumption DEF Instances, Conversations

\* Unanswered, failed before the barrier and failed after it are three things.
LEMMA FailuresDiffer ==
    /\ FailedAnswer(TRUE) # FailedAnswer(FALSE)
    /\ FailedAnswer(TRUE) # Unanswered
<1>1. FailedAnswer(TRUE).ingestFailed = TRUE /\ FailedAnswer(FALSE).ingestFailed = FALSE
  BY DEF FailedAnswer
<1> QED
  BY <1>1, FailedIsAnswer

LEMMA ReportedTypes ==
    ASSUME TypeOK
    PROVE  /\ Reported \subseteq Instances
           /\ \A i \in DOMAIN report : report[i] \in Reported
BY DEF TypeOK, Reported

\* An instance that all of the report may stand before can be appended to it.
LEMMA AppendKeepsOrder ==
    ASSUME TypeOK, ReportOrderIsScheduleFree, NEW q \in Instances,
           report' = Append(report, q),
           \A p \in Reported : answer'[p] = answer[p],
           \A p \in Reported : InOrder(p, q)'
    PROVE  ReportOrderIsScheduleFree' /\ Reported' = Reported \cup {q}
<1>1. /\ DOMAIN report = 1..Len(report) /\ DOMAIN report' = 1..(Len(report) + 1)
      /\ Len(report) \in Nat
      /\ report'[Len(report) + 1] = q /\ \A i \in 1..Len(report) : report'[i] = report[i]
  BY DEF TypeOK
<1>2. \A i \in DOMAIN report' : i = Len(report) + 1 \/ i \in DOMAIN report
  BY <1>1
<1>3. ASSUME NEW i \in DOMAIN report', NEW j \in DOMAIN report', i < j
      PROVE  InOrder(report[i], report[j])'
  <2>1. i \in DOMAIN report /\ report'[i] = report[i] /\ report[i] \in Reported
    BY <1>1, <1>3, ReportedTypes
  <2>2. CASE j \in DOMAIN report
    <3>1. InOrder(report[i], report[j])
      BY <1>3, <2>1, <2>2 DEF ReportOrderIsScheduleFree, InOrder
    <3>2. report'[j] = report[j] /\ report[j] \in Reported
      BY <1>1, <2>2, ReportedTypes
    <3> QED
      BY <2>1, <3>1, <3>2 DEF InOrder, FailedFirst
  <2>3. CASE j = Len(report) + 1
    <3>1. report'[i] \in Reported /\ report'[j] = q
      BY <1>1, <2>1, <2>3
    <3> QED
      BY <3>1 DEF InOrder, FailedFirst
  <2> QED
    BY <1>2, <2>2, <2>3
<1>4. Reported' = Reported \cup {q}
  BY <1>1 DEF Reported
<1> QED
  BY <1>3, <1>4 DEF ReportOrderIsScheduleFree, InOrder

\* The merge records the least open question of the least failed conversation.
LEMMA RecordFailedKeepsOrderInv ==
    ASSUME TypeOK, OrderInv, RecordFailed
    PROVE  OrderInv'
<1>1. PICK c \in Unmerged, q \in Instances :
        /\ q \in Open(c)
        /\ \A d \in Unmerged : c <= d
        /\ \A r \in Open(c) : q <= r
        /\ answer' = [answer EXCEPT ![q] = FailedAnswer(TRUE)]
        /\ report' = Append(report, q)
  BY AnswerTypes DEF RecordFailed, First, Record
<1>2. pc = "merge" /\ pc' = "merge" /\ task' = task
  BY OtherFrame DEF RecordFailed
<1>3. /\ c \in Conversations /\ task[c] = "failed"
      /\ q \in Instances /\ Conversation[q] = c /\ answer[q] = Unanswered
  BY <1>1 DEF Unmerged, Open, InstancesOf
<1>4. /\ answer'[q] = FailedAnswer(TRUE)
      /\ \A p \in Instances \ {q} : answer'[p] = answer[p]
  BY <1>1, <1>3 DEF TypeOK
<1>5. \A p \in Reported : p \in Instances /\ FailedFirst(p) /\ task[Conversation[p]] = "failed"
  BY <1>2, ReportedTypes DEF OrderInv
<1>6. q \notin Reported
  BY <1>3, <1>5, FailuresDiffer DEF FailedFirst
<1>7. \A p \in Reported : answer'[p] = answer[p]
  BY <1>4, <1>5, <1>6
<1>8. \A p \in Reported : InOrder(p, q)'
  BY <1>1, <1>2, <1>3, <1>4, <1>5, <1>7 DEF OrderInv, InOrder, FailedFirst
<1>9. ReportOrderIsScheduleFree' /\ Reported' = Reported \cup {q}
  BY <1>1, <1>3, <1>7, <1>8, AppendKeepsOrder DEF OrderInv
<1>10. \A p \in Reported' : FailedFirst(p)' /\ task'[Conversation[p]] = "failed"
  BY <1>2, <1>3, <1>4, <1>5, <1>7, <1>9 DEF FailedFirst
<1>11. \A p \in Instances : FailedFirst(p)' => p \in Reported'
  BY <1>2, <1>4, <1>9 DEF OrderInv, FailedFirst
<1>12. /\ \A d \in Conversations : Open(d)' = Open(d) \ {q}
       /\ Unmerged' \subseteq Unmerged
  <2>1. \A p \in Instances : answer'[p] = Unanswered <=> answer[p] = Unanswered /\ p # q
    BY <1>4, FailuresDiffer
  <2>2. \A d \in Conversations : Open(d)' = Open(d) \ {q}
    BY <2>1 DEF Open, InstancesOf
  <2> QED
    BY <1>2, <2>2 DEF Unmerged
<1>13. ASSUME NEW p \in Reported', NEW d \in Unmerged'
       PROVE  Conversation[p] <= d /\ (Conversation[p] = d => \A r \in Open(d)' : p < r)
  <2>1. d \in Unmerged /\ d \in Conversations /\ Open(d)' = Open(d) \ {q}
    BY <1>12, <1>13 DEF Unmerged
  <2>2. CASE p \in Reported
    BY <1>2, <2>1, <2>2 DEF OrderInv
  <2>3. CASE p = q
    <3>1. Conversation[p] <= d
      BY <1>1, <1>3, <2>1, <2>3
    <3>2. ASSUME Conversation[p] = d, NEW r \in Open(d)' PROVE p < r
      <4>1. r \in Open(c) /\ r # q /\ r \in Nat /\ q \in Nat
        BY <1>3, <2>1, <2>3, <3>2, Places DEF Open, InstancesOf
      <4> QED
        BY <1>1, <2>3, <4>1
    <3> QED
      BY <3>1, <3>2
  <2> QED
    BY <1>9, <2>2, <2>3
<1> QED
  BY <1>2, <1>9, <1>10, <1>11, <1>13 DEF OrderInv

\* The last phase records the least question not yet recorded.
LEMMA RecordReadKeepsOrderInv ==
    ASSUME TypeOK, OrderInv, RecordRead
    PROVE  OrderInv'
<1>1. PICK q \in Unrecorded :
        (\A r \in Unrecorded : q <= r) /\ report' = Append(report, q)
  BY DEF RecordRead, NextToRecord, First, Record
<1>2. pc = "record" /\ pc' = "record" /\ answer' = answer /\ task' = task
  BY OtherFrame DEF RecordRead
<1>3. q \in Instances /\ q \notin Reported /\ ~FailedFirst(q)
  BY <1>1, <1>2 DEF Unrecorded, OrderInv
<1>4. \A p \in Reported : InOrder(p, q)'
  BY <1>1, <1>2, <1>3 DEF OrderInv, InOrder, FailedFirst
<1>5. ReportOrderIsScheduleFree' /\ Reported' = Reported \cup {q}
  BY <1>1, <1>2, <1>3, <1>4, AppendKeepsOrder DEF OrderInv
<1>6. Unrecorded' = Unrecorded \ {q}
  BY <1>2, <1>5 DEF Unrecorded
<1>7. \A p \in Reported', r \in Unrecorded' : FailedFirst(p)' \/ p < r
  <2>1. \A r \in Unrecorded' : r \in Unrecorded /\ r # q /\ r \in Nat /\ q \in Nat
    BY <1>3, <1>6, Places DEF Unrecorded
  <2>2. \A r \in Unrecorded' : q < r
    BY <1>1, <2>1
  <2> QED
    BY <1>2, <1>5, <2>1, <2>2 DEF OrderInv, FailedFirst
<1> QED
  BY <1>2, <1>5, <1>7 DEF OrderInv, FailedFirst

\* A reading task answers questions of its own conversation only, and never as the merge.
LEMMA ReadAnswers ==
    ASSUME TypeOK, NEW c \in Conversations,
           \/ StartRead(c) \/ Reconnects(c) \/ ReconnectFails(c)
           \/ VerifyList(c) \/ Ask(c) \/ ReadEnds(c)
    PROVE  \A q \in Instances :
             /\ Conversation[q] # c => answer'[q] = answer[q]
             /\ answer'[q] # answer[q] => answer'[q] # FailedAnswer(TRUE)
<1>1. CASE Reconnects(c) \/ VerifyList(c) \/ ReadEnds(c)
  BY <1>1 DEF Reconnects, VerifyList, ReadEnds
<1>2. CASE StartRead(c) \/ ReconnectFails(c)
  BY <1>2, FailuresDiffer DEF StartRead, ReconnectFails, FailGroup
<1>3. CASE Ask(c)
  <2>1. PICK q \in Open(c), lost \in BOOLEAN :
          answer' = [answer EXCEPT ![q] =
            [graded |-> IF config.retrievalOnly THEN "not_judged" ELSE "judged",
             ingestFailed |-> cw[c].failed,
             retrievalFailed |-> lost,
             counts |-> cw[c].counts]]
    BY <1>3 DEF Ask, First
  <2>2. q \in Instances /\ Conversation[q] = c
    BY DEF Open, InstancesOf
  <2>3. answer'[q].graded # "incorrect" /\ \A p \in Instances \ {q} : answer'[p] = answer[p]
    BY <2>1, <2>2 DEF TypeOK
  <2>4. FailedAnswer(TRUE).graded = "incorrect"
    BY DEF FailedAnswer
  <2> QED
    BY <2>2, <2>3, <2>4
<1> QED
  BY <1>1, <1>2, <1>3

LEMMA ReadKeepsOrderInv ==
    ASSUME TypeOK, OrderInv, NEW c \in Conversations, pc = "read",
           \/ StartRead(c) \/ Reconnects(c) \/ ReconnectFails(c)
           \/ VerifyList(c) \/ Ask(c) \/ ReadEnds(c)
    PROVE  OrderInv' /\ ResultLog' = ResultLog
<1>1. /\ report' = report /\ pc' \in {"read", "panicked"}
      /\ \A d \in Conversations \ {c} : task'[d] = task[d]
      /\ task[c] # "failed"
  BY ReadFrame
<1>2. \A q \in Reported : /\ q \in Instances /\ FailedFirst(q)
                          /\ Conversation[q] \in Conversations \ {c}
                          /\ task[Conversation[q]] = "failed"
  BY <1>1, ReportedTypes, Places DEF OrderInv
<1>3. \A q \in Reported : answer'[q] = answer[q]
  BY <1>2, ReadAnswers
<1>4. ReportOrderIsScheduleFree'
  <2>1. \A i \in DOMAIN report : answer'[report[i]] = answer[report[i]]
    BY <1>3, ReportedTypes
  <2>2. ASSUME NEW i \in DOMAIN report', NEW j \in DOMAIN report', i < j
        PROVE  InOrder(report[i], report[j])'
    <3>1. i \in DOMAIN report /\ j \in DOMAIN report
      BY <1>1
    <3>2. InOrder(report[i], report[j])
      BY <2>2, <3>1 DEF OrderInv, ReportOrderIsScheduleFree, InOrder
    <3> QED
      BY <1>1, <2>1, <3>1, <3>2 DEF InOrder, FailedFirst
  <2> QED
    BY <2>2 DEF ReportOrderIsScheduleFree, InOrder
<1>5. Reported' = Reported
  BY <1>1 DEF Reported
<1>6. \A q \in Instances : FailedFirst(q)' => q \in Reported'
  BY <1>5, ReadAnswers DEF OrderInv, FailedFirst
<1>7. \A q \in Reported' : FailedFirst(q)' /\ task'[Conversation[q]] = "failed"
  BY <1>1, <1>2, <1>3, <1>5 DEF FailedFirst
<1>8. ResultLog' = ResultLog
  BY <1>1, <1>3, ReportedTypes DEF ResultLog
<1> QED
  BY <1>1, <1>4, <1>6, <1>7, <1>8 DEF OrderInv

\* A step of the run's own that answers and records nothing moves from phase to phase.
LEMMA PhaseKeepsOrderInv ==
    ASSUME TypeOK, OrderInv, UNCHANGED <<task, answer, report>>,
           \/ pc' = pc
           \/ pc' \in Ends \cup {"report"}
           \/ pc \in {"preflight", "plan"} /\ pc' \in {"plan", "ingest"}
           \/ pc = "ingest" /\ pc' = "merge"
           \/ pc = "merge" /\ pc' = "barrier"
           \/ pc = "barrier" /\ pc' = "read"
           \/ pc = "read" /\ pc' = "record"
    PROVE  OrderInv'
<1>1. ReportOrderIsScheduleFree'
  BY DEF OrderInv, ReportOrderIsScheduleFree, FailedFirst
<1>2. /\ Reported' = Reported /\ Unrecorded' = Unrecorded /\ Unmerged' = Unmerged
      /\ \A c : Open(c)' = Open(c)
      /\ \A q : FailedFirst(q)' = FailedFirst(q)
  BY DEF Reported, Unrecorded, Unmerged, Open, FailedFirst, InstancesOf
<1>3. CASE pc' = pc
  BY <1>1, <1>2, <1>3 DEF OrderInv
<1>4. CASE pc' \in Ends \cup {"report"}
  BY <1>1, <1>4 DEF OrderInv, Ends
<1>5. CASE pc \in {"preflight", "plan"} /\ pc' \in {"plan", "ingest"}
  BY <1>1, <1>5 DEF OrderInv
<1>6. CASE pc = "ingest" /\ pc' = "merge"
  <2>1. report = <<>> /\ \A q \in Instances : answer[q] = Unanswered
    BY <1>6 DEF OrderInv
  <2>2. \A q \in Instances : ~FailedFirst(q)
    BY <2>1, FailuresDiffer DEF FailedFirst
  <2>3. Reported = {}
    BY <2>1 DEF Reported
  <2> QED
    BY <1>1, <1>2, <1>6, <2>2, <2>3 DEF OrderInv
<1>7. CASE \/ pc = "merge" /\ pc' = "barrier"
           \/ pc = "barrier" /\ pc' = "read"
           \/ pc = "read" /\ pc' = "record"
  BY <1>1, <1>2, <1>7 DEF OrderInv
<1> QED
  BY <1>3, <1>4, <1>5, <1>6, <1>7

LEMMA OrderStep ==
    ASSUME TypeOK, OrderInv, [Next]_vars
    PROVE  OrderInv'
<1>1. CASE \/ UNCHANGED vars
           \/ Preflight \/ PreflightFails \/ EndPlan \/ EndIngest \/ EndMerge \/ SkipFlush
           \/ EndRead \/ WriteReports \/ Crash
  <2>1. UNCHANGED <<task, answer, report>>
    BY <1>1, PhaseFrame
  <2>2. \/ pc' = pc
        \/ pc' \in Ends \cup {"report"}
        \/ pc \in {"preflight", "plan"} /\ pc' \in {"plan", "ingest"}
        \/ pc = "ingest" /\ pc' = "merge"
        \/ pc = "merge" /\ pc' = "barrier"
        \/ pc = "barrier" /\ pc' = "read"
        \/ pc = "read" /\ pc' = "record"
    BY <1>1 DEF Preflight, PreflightFails, EndPlan, EndIngest, EndMerge, SkipFlush, EndRead,
       WriteReports, Crash, vars, Ends
  <2> QED
    BY <2>1, <2>2, PhaseKeepsOrderInv
<1>2. CASE PlanWithoutSpace \/ PlanSpace \/ AwaitFlush \/ SaveManifest \/ Settles
  <2>1. UNCHANGED <<task, answer, report>>
    BY <1>2, OtherFrame
  <2>2. pc' = pc \/ pc' = "report" \/ (pc = "barrier" /\ pc' = "read")
    BY <1>2, OtherFrame DEF AwaitFlush, SaveManifest
  <2> QED
    BY <2>1, <2>2, PhaseKeepsOrderInv
<1>3. CASE ReadOnlyRun
  BY <1>3, FreshFrame DEF OrderInv, ReportOrderIsScheduleFree
<1>4. ASSUME NEW c \in Conversations, pc = "ingest",
             \/ StartIngest(c) \/ Connects(c) \/ ConnectFails(c)
             \/ EncodeStores(c) \/ EncodeDeduplicates(c) \/ EncodeFails(c)
             \/ SessionEnds(c) \/ IngestEnds(c)
      PROVE  OrderInv'
  <2>1. pc' = "ingest" /\ UNCHANGED <<answer, report>>
    BY <1>4, IngestFrame
  <2> QED
    BY <1>4, <2>1 DEF OrderInv, ReportOrderIsScheduleFree
<1> QED
  BY <1>1, <1>2, <1>3, <1>4, StepKinds, RecordFailedKeepsOrderInv, RecordReadKeepsOrderInv,
     ReadKeepsOrderInv

LEMMA OrderInvariant == Spec => []OrderInv
<1>1. Init => OrderInv
  BY DEF Init, FreshRun, OrderInv, ReportOrderIsScheduleFree
<1> QED
  BY <1>1, OrderStep, TypeCorrect, PTL DEF Spec

\* Which future finished first never shows in the order of a report.
THEOREM OrderIsScheduleFree == Spec => []ReportOrderIsScheduleFree
BY OrderInvariant, PTL DEF OrderInv

-----------------------------------------------------------------------------
(***************************************************************************)
(* The results as a log: every step of the run is a step of RunContract,   *)
(* or one that its reader cannot see.                                      *)
(***************************************************************************)
LEMMA LogTypes ==
    ASSUME TypeOK
    PROVE  /\ DOMAIN ResultLog = DOMAIN report
           /\ Contract!Logged = Reported
           /\ \A i \in DOMAIN report :
                /\ ResultLog[i].question = report[i]
                /\ ResultLog[i].result = answer[report[i]]
BY DEF ResultLog, Contract!Logged, Reported

\* What a step that records q appends to the log.
LEMMA LogAppend ==
    ASSUME TypeOK, NEW q \in Instances, report' = Append(report, q), q \notin Reported,
           \A p \in Reported : answer'[p] = answer[p], PhaseOfLog' = PhaseOfLog
    PROVE  LET entry == [question |-> q, result |-> answer'[q]]
           IN  /\ ResultLog' # <<>>
               /\ Contract!Latest(ResultLog') = entry
               /\ Contract!Logs(entry)
<1> DEFINE entry == [question |-> q, result |-> answer'[q]]
           n == Len(report)
<1>1. /\ n \in Nat /\ DOMAIN report = 1..n /\ DOMAIN report' = 1..(n + 1)
      /\ report'[n + 1] = q /\ \A i \in 1..n : report'[i] = report[i]
  BY DEF TypeOK
<1>2. \A i \in 1..n : answer'[report'[i]] = answer[report[i]]
  BY <1>1, ReportedTypes
<1>3. ResultLog = [i \in 1..n |-> [question |-> report[i], result |-> answer[report[i]]]]
  BY <1>1 DEF ResultLog
<1>4. ResultLog' = [i \in 1..(n + 1) |->
                     [question |-> report'[i], result |-> answer'[report'[i]]]]
  BY <1>1 DEF ResultLog
<1>5. Len(ResultLog) = n /\ Len(ResultLog') = n + 1
  BY <1>1, <1>3, <1>4
<1>6. ResultLog'[n + 1] = entry
  BY <1>1, <1>4
<1>7. ResultLog' = Append(ResultLog, entry)
  <2>1. Append(ResultLog, entry)
          = [i \in 1..(n + 1) |-> IF i = n + 1 THEN entry ELSE ResultLog[i]]
    BY <1>1, <1>5
  <2>2. \A i \in 1..(n + 1) : ResultLog'[i] = IF i = n + 1 THEN entry ELSE ResultLog[i]
    <3>1. \A i \in 1..n : ResultLog'[i] = ResultLog[i]
      BY <1>1, <1>2, <1>3, <1>4
    <3> QED
      BY <1>1, <1>6, <3>1
  <2> QED
    BY <1>4, <2>1, <2>2
<1>8. ResultLog' # <<>>
  BY <1>1, <1>5
<1> HIDE DEF entry
<1>9. entry.question = q
  BY DEF entry
<1> QED
  BY <1>5, <1>6, <1>7, <1>8, <1>9, LogTypes DEF Contract!Latest, Contract!Logs, entry

\* Of the steps that record nothing, some end a phase.
LEMMA QuietStepsMap ==
    ASSUME ResultLog' = ResultLog,
           \/ PhaseOfLog' = PhaseOfLog
           \/ PhaseOfLog = "writing" /\ PhaseOfLog' = "reading"
           \/ PhaseOfLog # "over" /\ PhaseOfLog' = "over"
    PROVE  [Contract!Next]_(Contract!vars)
BY DEF Contract!Next, Contract!StartReading, Contract!End, Contract!vars

LEMMA PhaseSame ==
    ASSUME pc' = pc
    PROVE  PhaseOfLog' = PhaseOfLog
BY DEF PhaseOfLog, Ends

LEMMA RecordFailedMaps ==
    ASSUME TypeOK, OrderInv, RecordFailed
    PROVE  Contract!LogFailure
<1>1. PICK q \in Instances :
        /\ answer[q] = Unanswered
        /\ answer' = [answer EXCEPT ![q] = FailedAnswer(TRUE)]
        /\ report' = Append(report, q)
  BY DEF RecordFailed, First, Open, InstancesOf, Record
<1>2. pc = "merge" /\ pc' = "merge"
  BY OtherFrame DEF RecordFailed
<1>3. q \notin Reported
  BY <1>1, <1>2, FailuresDiffer DEF OrderInv, FailedFirst
<1>4. answer'[q] = FailedAnswer(TRUE) /\ \A p \in Reported : answer'[p] = answer[p]
  BY <1>1, <1>3, ReportedTypes DEF TypeOK
<1>5. PhaseOfLog = "writing" /\ PhaseOfLog' = "writing"
  BY <1>2 DEF PhaseOfLog, Ends
<1> DEFINE entry == [question |-> q, result |-> answer'[q]]
<1>6. ResultLog' # <<>> /\ Contract!Latest(ResultLog') = entry /\ Contract!Logs(entry)
  BY <1>1, <1>3, <1>4, <1>5, LogAppend
<1>7. entry.result = FailedAnswer(TRUE)
  BY <1>4
<1> HIDE DEF entry
<1> QED
  BY <1>5, <1>6, <1>7 DEF Contract!LogFailure

LEMMA RecordReadMaps ==
    ASSUME TypeOK, OrderInv, RecordRead
    PROVE  Contract!LogAnswer
<1>1. PICK q \in Unrecorded : report' = Append(report, q)
  BY DEF RecordRead, NextToRecord, First, Record
<1>2. pc = "record" /\ pc' = "record" /\ answer' = answer
  BY OtherFrame DEF RecordRead
<1>3. q \in Instances /\ q \notin Reported /\ answer[q] # FailedAnswer(TRUE)
  BY <1>1, <1>2 DEF Unrecorded, OrderInv, FailedFirst
<1>4. PhaseOfLog = "reading" /\ PhaseOfLog' = "reading"
  BY <1>2 DEF PhaseOfLog, Ends
<1> DEFINE entry == [question |-> q, result |-> answer'[q]]
<1>5. ResultLog' # <<>> /\ Contract!Latest(ResultLog') = entry /\ Contract!Logs(entry)
  BY <1>1, <1>2, <1>3, <1>4, LogAppend
<1>6. entry.result # FailedAnswer(TRUE) /\ entry.question = q
  BY <1>2, <1>3
<1>7. \A i \in DOMAIN report : answer[report[i]] = FailedAnswer(TRUE) \/ report[i] < q
  BY <1>1, <1>2, ReportedTypes DEF OrderInv, FailedFirst
<1> HIDE DEF entry
<1> QED
  BY <1>4, <1>5, <1>6, <1>7, LogTypes DEF Contract!LogAnswer

LEMMA StepMaps ==
    ASSUME TypeOK, OrderInv, [Next]_vars
    PROVE  [Contract!Next]_(Contract!vars)
<1>1. CASE \/ UNCHANGED vars
           \/ Preflight \/ PreflightFails \/ EndPlan \/ EndIngest \/ EndMerge \/ SkipFlush
           \/ EndRead \/ WriteReports \/ Crash
           \/ PlanWithoutSpace \/ PlanSpace \/ AwaitFlush \/ SaveManifest \/ Settles
  <2>1. UNCHANGED <<answer, report>>
    BY <1>1, PhaseFrame, OtherFrame
  <2>2. ResultLog' = ResultLog
    BY <2>1 DEF ResultLog
  <2>3. \/ pc' = pc
        \/ pc \notin Ends /\ pc' \in Ends
        \/ pc \in {"preflight", "plan", "ingest"} /\ pc' \in {"plan", "ingest", "merge"}
        \/ pc = "merge" /\ pc' = "barrier"
        \/ pc = "barrier" /\ pc' = "read"
        \/ pc \in {"read", "record"} /\ pc' \in {"record", "report"}
    BY <1>1, OtherFrame DEF Preflight, PreflightFails, EndPlan, EndIngest, EndMerge, SkipFlush,
       EndRead, WriteReports, Crash, AwaitFlush, SaveManifest, vars, Ends
  <2>4. \/ PhaseOfLog' = PhaseOfLog
        \/ PhaseOfLog = "writing" /\ PhaseOfLog' = "reading"
        \/ PhaseOfLog # "over" /\ PhaseOfLog' = "over"
    BY <2>3 DEF PhaseOfLog, Ends
  <2> QED
    BY <2>2, <2>4, QuietStepsMap
<1>2. ASSUME NEW c \in Conversations, pc = "ingest",
             \/ StartIngest(c) \/ Connects(c) \/ ConnectFails(c)
             \/ EncodeStores(c) \/ EncodeDeduplicates(c) \/ EncodeFails(c)
             \/ SessionEnds(c) \/ IngestEnds(c)
      PROVE  [Contract!Next]_(Contract!vars)
  <2>1. pc' = pc /\ UNCHANGED <<answer, report>>
    BY <1>2, IngestFrame
  <2>2. ResultLog' = ResultLog
    BY <2>1 DEF ResultLog
  <2> QED
    BY <2>1, <2>2, PhaseSame, QuietStepsMap
<1>3. ASSUME NEW c \in Conversations, pc = "read",
             \/ StartRead(c) \/ Reconnects(c) \/ ReconnectFails(c)
             \/ VerifyList(c) \/ Ask(c) \/ ReadEnds(c)
      PROVE  [Contract!Next]_(Contract!vars)
  <2>1. ResultLog' = ResultLog /\ pc' \in {"read", "panicked"}
    BY <1>3, ReadKeepsOrderInv, ReadFrame
  <2>2. PhaseOfLog' = PhaseOfLog \/ (PhaseOfLog # "over" /\ PhaseOfLog' = "over")
    BY <1>3, <2>1 DEF PhaseOfLog, Ends
  <2> QED
    BY <2>1, <2>2, QuietStepsMap
<1>4. CASE ReadOnlyRun
  <2>1. pc \in Ends /\ pc' = "preflight" /\ report' = <<>>
    BY <1>4, FreshFrame
  <2>2. ResultLog' = <<>>
    BY <2>1 DEF ResultLog
  <2>3. PhaseOfLog = "over" /\ PhaseOfLog' = "writing"
    BY <2>1 DEF PhaseOfLog, Ends
  <2>4. Contract!NewRun
    BY <2>2, <2>3 DEF Contract!NewRun
  <2> QED
    BY <2>4 DEF Contract!Next
<1>5. CASE RecordFailed
  BY <1>5, RecordFailedMaps DEF Contract!Next
<1>6. CASE RecordRead
  BY <1>6, RecordReadMaps DEF Contract!Next
<1> QED
  BY <1>1, <1>2, <1>3, <1>4, <1>5, <1>6, StepKinds

\* A run implements RunContract: its results are an append-only log.
THEOREM RunIsALog == Spec => ImplementsRunContract
<1>1. Init => Contract!Init
  <2> SUFFICES ASSUME Init PROVE ResultLog = <<>> /\ PhaseOfLog = "writing"
    BY DEF Contract!Init
  <2>1. report = <<>> /\ pc = "preflight"
    BY DEF Init
  <2> QED
    BY <2>1 DEF ResultLog, PhaseOfLog, Ends
<1> QED
  BY <1>1, StepMaps, TypeCorrect, OrderInvariant, PTL
     DEF Spec, ImplementsRunContract, Contract!Spec

-----------------------------------------------------------------------------
(***************************************************************************)
(* A read-only run has no task that writes.                                *)
(***************************************************************************)
NoWriterInv == readOnly => \A c \in Conversations : task[c] # "writing"

LEMMA NoWriterStep ==
    ASSUME TypeOK, NoWriterInv, [Next]_vars
    PROVE  NoWriterInv' /\ (readOnly => store' = store)
<1>1. CASE \/ UNCHANGED vars
           \/ Preflight \/ PreflightFails \/ EndPlan \/ EndIngest \/ EndMerge \/ SkipFlush
           \/ EndRead \/ WriteReports \/ Crash
           \/ PlanWithoutSpace \/ PlanSpace \/ AwaitFlush \/ SaveManifest \/ Settles
           \/ RecordFailed \/ RecordRead
  <2>1. UNCHANGED <<readOnly, task, store>>
    BY <1>1, PhaseFrame, OtherFrame
  <2> QED
    BY <2>1 DEF NoWriterInv
<1>2. ASSUME NEW c \in Conversations,
             \/ StartIngest(c) \/ Connects(c) \/ ConnectFails(c)
             \/ EncodeStores(c) \/ EncodeDeduplicates(c) \/ EncodeFails(c)
             \/ SessionEnds(c) \/ IngestEnds(c)
      PROVE  NoWriterInv' /\ (readOnly => store' = store)
  BY <1>2, IngestFrame DEF NoWriterInv
<1>3. ASSUME NEW c \in Conversations,
             \/ StartRead(c) \/ Reconnects(c) \/ ReconnectFails(c)
             \/ VerifyList(c) \/ Ask(c) \/ ReadEnds(c)
      PROVE  NoWriterInv' /\ (readOnly => store' = store)
  BY <1>3, ReadFrame DEF NoWriterInv
<1>4. CASE ReadOnlyRun
  BY <1>4, FreshFrame DEF NoWriterInv
<1> QED
  BY <1>1, <1>2, <1>3, <1>4, StepKinds

\* A read-only run never adds a memory to the spaces it reads.
THEOREM ReadOnlyIsReadOnly == Spec => ReadOnlyNeverWrites
<1>1. Init => NoWriterInv
  BY DEF Init, NoWriterInv
<1> QED
  BY <1>1, NoWriterStep, TypeCorrect, PTL DEF Spec, ReadOnlyNeverWrites


-----------------------------------------------------------------------------
(***************************************************************************)
(* Completeness: as long as nothing failed, the turns of the sessions a    *)
(* conversation is past are all stored or merged, and those of the current *)
(* one as far as they were sent.                                           *)
(***************************************************************************)
IsRunningTotal(c, f) ==
    /\ f \in [0..Len(Turns[c]) -> Nat]
    /\ f[0] = 0
    /\ \A k \in 1..Len(Turns[c]) : f[k] = f[k - 1] + Turns[c][k]
    /\ f[Len(Turns[c])] = TurnsOf(c)

\* The turns of the sessions before session k of conversation c.
Before(c, k) == (CHOOSE f : IsRunningTotal(c, f))[k - 1]

\* What the store and the task's counts hold of c, merged turns included.
Arrived(c) == store[c] + cw[c].counts.deduplicated + sent[c].deduplicated

Unflagged(q) ==
    answer[q] # Unanswered /\ ~answer[q].ingestFailed /\ ~answer[q].retrievalFailed

ArrivedInv(c) ==
    /\ at[c].session \in 1..(Len(Turns[c]) + 1)
    /\ at[c].session \in DOMAIN Turns[c] => at[c].turn <= Turns[c][at[c].session]
    /\ at[c].session \notin DOMAIN Turns[c] => at[c].turn = 0 /\ sent[c].deduplicated = 0
    /\ ~cw[c].failed => Arrived(c) = Before(c, at[c].session) + at[c].turn
    /\ task[c] \in Started \ {"writing"} => at[c].session \notin DOMAIN Turns[c]

CompleteInv ==
    ~readOnly =>
        /\ \A c \in Conversations : ArrivedInv(c)
        /\ \A q \in Instances :
             Unflagged(q) => /\ task[Conversation[q]] \in {"reading", "read"}
                             /\ ~cw[Conversation[q]].failed

LEMMA TurnTypes ==
    ASSUME NEW c \in Conversations
    PROVE  /\ Turns[c] \in Seq(Nat)
           /\ Len(Turns[c]) \in Nat
           /\ DOMAIN Turns[c] = 1..Len(Turns[c])
           /\ \A k \in DOMAIN Turns[c] : Turns[c][k] \in Nat
<1>1. Turns[c] \in Seq(Nat)
  BY RunnerAssumption DEF Conversations
<1> QED
  BY <1>1

LEMMA BeforeSessions ==
    ASSUME NEW c \in Conversations
    PROVE  /\ Before(c, 1) = 0
           /\ Before(c, Len(Turns[c]) + 1) = TurnsOf(c)
           /\ \A k \in 1..(Len(Turns[c]) + 1) : Before(c, k) \in Nat
           /\ \A k \in DOMAIN Turns[c] : Before(c, k + 1) = Before(c, k) + Turns[c][k]
<1> DEFINE n == Len(Turns[c])
           f == CHOOSE f : IsRunningTotal(c, f)
<1>1. n \in Nat /\ DOMAIN Turns[c] = 1..n
  BY TurnTypes
<1>2. TurnsOf(c) = SumOf(Turns[c])
  BY Zenon DEF TurnsOf, SumOf
<1>3. \E g : IsRunningTotal(c, g)
  BY <1>2, TurnTypes, PartialSums DEF IsRunningTotal
<1>4. IsRunningTotal(c, f)
  BY <1>3
<1>5. \A k : Before(c, k) = f[k - 1]
  BY DEF Before
<1> HIDE DEF f
<1>6. /\ f \in [0..n -> Nat] /\ f[0] = 0 /\ f[n] = TurnsOf(c)
      /\ \A k \in 1..n : f[k] = f[k - 1] + Turns[c][k]
  BY <1>4 DEF IsRunningTotal
<1>7. (n + 1) - 1 = n /\ \A k \in 1..n : (k + 1) - 1 = k
  BY <1>1
<1>8. \A k \in 1..(n + 1) : k - 1 \in 0..n
  BY <1>1
<1> HIDE DEF n
<1>9. Before(c, 1) = 0 /\ Before(c, n + 1) = TurnsOf(c)
  <2>1. 1 - 1 = 0
    OBVIOUS
  <2> QED
    BY <1>5, <1>6, <1>7, <2>1
<1>10. \A k \in 1..(n + 1) : Before(c, k) \in Nat
  BY <1>5, <1>6, <1>8
<1>11. \A k \in 1..n : Before(c, k + 1) = Before(c, k) + Turns[c][k]
  BY <1>5, <1>6, <1>7
<1> QED
  BY <1>1, <1>9, <1>10, <1>11 DEF n

LEMMA IngestKeepsArrivedInv ==
    ASSUME TypeOK, NEW c \in Conversations, ArrivedInv(c), ~readOnly,
           \/ StartIngest(c) \/ Connects(c) \/ ConnectFails(c)
           \/ EncodeStores(c) \/ EncodeDeduplicates(c) \/ EncodeFails(c)
           \/ SessionEnds(c) \/ IngestEnds(c)
    PROVE  ArrivedInv(c)'
<1> DEFINE n == Len(Turns[c])
           k == at[c].session
<1>1. /\ cw[c].counts.deduplicated \in Nat /\ sent[c].deduplicated \in Nat /\ store[c] \in Nat
      /\ cw[c].counts \in Counts /\ sent[c] \in Counts /\ cw[c].failed \in BOOLEAN
      /\ at[c].turn \in Nat /\ k \in Nat
  BY DEF TypeOK, Writes, Counts
<1>2. n \in Nat /\ DOMAIN Turns[c] = 1..n /\ \A j \in 1..n : Turns[c][j] \in Nat
  BY TurnTypes
<1>3. /\ \A j \in 1..(n + 1) : Before(c, j) \in Nat
      /\ \A j \in 1..n : Before(c, j + 1) = Before(c, j) + Turns[c][j]
  BY <1>2, BeforeSessions
<1>4. CASE StartIngest(c) \/ Connects(c) \/ ConnectFails(c) \/ IngestEnds(c)
  <2>1. UNCHANGED <<at, sent, cw, store>>
    BY <1>4 DEF StartIngest, Connects, ConnectFails, IngestEnds, serverVars
  <2>2. task'[c] \in Started \ {"writing"} => k \notin DOMAIN Turns[c]
    BY <1>4 DEF StartIngest, Connects, ConnectFails, IngestEnds, Becomes, AfterConnect, Started,
       ArrivedInv, TypeOK
  <2> QED
    BY <2>1, <2>2 DEF ArrivedInv, Arrived
<1>5. CASE EncodeStores(c) \/ EncodeDeduplicates(c)
  <2>1. /\ task'[c] = "writing" /\ cw' = cw
        /\ k \in 1..n /\ at[c].turn < Turns[c][k]
        /\ at'[c].session = k /\ at'[c].turn = at[c].turn + 1
    BY <1>1, <1>2, <1>5 DEF EncodeStores, EncodeDeduplicates, TurnLeft, SendTurn, TypeOK
  <2>2. \/ store'[c] = store[c] + 1 /\ sent'[c].deduplicated = sent[c].deduplicated
        \/ store'[c] = store[c] /\ sent'[c].deduplicated = sent[c].deduplicated + 1
    <3>1. CASE EncodeStores(c)
      BY <1>1, <3>1 DEF EncodeStores, SendTurn, ServerStores, Add, FreshTurn, TypeOK
    <3>2. CASE EncodeDeduplicates(c)
      BY <1>1, <3>2 DEF EncodeDeduplicates, SendTurn, Add, MergedTurn, TypeOK, serverVars
    <3> QED
      BY <1>5, <3>1, <3>2
  <2>3. Arrived(c)' = Arrived(c) + 1 /\ Arrived(c) \in Nat
    <3>1. cw'[c].counts.deduplicated = cw[c].counts.deduplicated
      BY <2>1
    <3> QED
      BY <1>1, <2>2, <3>1 DEF Arrived
  <2>4. ~cw'[c].failed => Arrived(c)' = Before(c, k) + (at[c].turn + 1)
    <3>1. ~cw[c].failed => Arrived(c) = Before(c, k) + at[c].turn
      BY DEF ArrivedInv
    <3>2. Before(c, k) \in Nat
      BY <1>2, <1>3, <2>1
    <3> QED
      BY <1>1, <2>1, <2>3, <3>1, <3>2
  <2>5. at[c].turn + 1 <= Turns[c][k] /\ k \in 1..(n + 1)
    BY <1>1, <1>2, <2>1
  <2> QED
    BY <1>2, <2>1, <2>4, <2>5 DEF ArrivedInv, Started
<1>6. CASE EncodeFails(c)
  <2>1. /\ task'[c] = "writing" /\ cw'[c].failed
        /\ k \in 1..n /\ at'[c].session = k + 1 /\ at'[c].turn = 0
        /\ sent'[c].deduplicated = 0
    BY <1>1, <1>2, <1>6 DEF EncodeFails, TurnLeft, NextSession, NoCounts, AfterFailure, TypeOK,
       Writes
  <2> QED
    BY <1>2, <2>1 DEF ArrivedInv, Started
<1>7. CASE SessionEnds(c)
  <2>1. /\ task'[c] = "writing" /\ cw'[c].failed = cw[c].failed
        /\ cw'[c].counts = Add(cw[c].counts, sent[c])
        /\ store' = store /\ sent'[c].deduplicated = 0
        /\ k \in 1..n /\ at[c].turn = Turns[c][k]
        /\ at'[c].session = k + 1 /\ at'[c].turn = 0
    BY <1>1, <1>2, <1>7 DEF SessionEnds, NextSession, NoCounts, TypeOK, Writes, serverVars
  <2>2. cw'[c].counts.deduplicated = cw[c].counts.deduplicated + sent[c].deduplicated
    BY <2>1 DEF Add
  <2>3. Arrived(c)' = Arrived(c)
    BY <1>1, <2>1, <2>2 DEF Arrived
  <2>4. Before(c, k + 1) = Before(c, k) + at[c].turn /\ Before(c, k + 1) \in Nat
    BY <1>2, <1>3, <2>1
  <2>5. ~cw'[c].failed => Arrived(c)' = Before(c, k + 1) + 0
    BY <2>1, <2>3, <2>4 DEF ArrivedInv
  <2>6. /\ k + 1 \in 1..(n + 1)
        /\ k + 1 \in 1..n => 0 <= Turns[c][k + 1]
    BY <1>2, <2>1
  <2> QED
    BY <1>2, <2>1, <2>5, <2>6 DEF ArrivedInv, Started
<1> QED
  BY <1>4, <1>5, <1>6, <1>7

\* Only a question that is asked gets an answer without a flag.
LEMMA ReadFlags ==
    ASSUME TypeOK, NEW c \in Conversations,
           \/ StartRead(c) \/ Reconnects(c) \/ ReconnectFails(c)
           \/ VerifyList(c) \/ Ask(c) \/ ReadEnds(c),
           NEW q \in Instances, Unflagged(q)'
    PROVE  \/ Unflagged(q)
           \/ Conversation[q] = c /\ task[c] = "reading" /\ ~cw[c].failed
<1>1. CASE StartRead(c) \/ ReconnectFails(c)
  <2>1. answer' = answer \/ FailGroup(c)
    BY <1>1 DEF StartRead, ReconnectFails
  <2>2. FailedAnswer(FALSE).retrievalFailed
    BY DEF FailedAnswer
  <2>3. answer'[q] = answer[q] \/ answer'[q] = FailedAnswer(FALSE)
    BY <2>1 DEF FailGroup
  <2> QED
    BY <2>2, <2>3 DEF Unflagged
<1>2. CASE Reconnects(c) \/ VerifyList(c) \/ ReadEnds(c)
  BY <1>2 DEF Reconnects, VerifyList, ReadEnds, Unflagged
<1>3. CASE Ask(c)
  <2>1. PICK p \in First(Open(c)), recallFails \in BOOLEAN :
          answer' = [answer EXCEPT ![p] =
            [graded |-> IF config.retrievalOnly THEN "not_judged" ELSE "judged",
             ingestFailed |-> cw[c].failed,
             retrievalFailed |-> recallFails,
             counts |-> cw[c].counts]]
    BY <1>3 DEF Ask
  <2>4. p \in Open(c)
    BY <2>1, AnswerTypes
  <2>2. p \in Instances /\ Conversation[p] = c /\ task[c] = "reading"
    BY <1>3, <2>4 DEF Ask, Open, InstancesOf
  <2>3. /\ q # p => answer'[q] = answer[q]
        /\ answer'[p].ingestFailed = cw[c].failed
    BY <2>1, <2>2 DEF TypeOK
  <2> QED
    BY <2>1, <2>2, <2>3 DEF Unflagged
<1> QED
  BY <1>1, <1>2, <1>3

LEMMA CompleteStep ==
    ASSUME TypeOK, CompleteInv, [Next]_vars
    PROVE  CompleteInv'
<1>1. CASE UNCHANGED <<readOnly, task, at, sent, cw, store, answer>>
  BY <1>1 DEF CompleteInv, ArrivedInv, Arrived, Unflagged
<1>2. CASE ReadOnlyRun
  BY <1>2, FreshFrame DEF CompleteInv
<1>3. ASSUME NEW c \in Conversations,
             \/ StartIngest(c) \/ Connects(c) \/ ConnectFails(c)
             \/ EncodeStores(c) \/ EncodeDeduplicates(c) \/ EncodeFails(c)
             \/ SessionEnds(c) \/ IngestEnds(c)
      PROVE  CompleteInv'
  <2>1. /\ UNCHANGED <<readOnly, answer>>
        /\ \A d \in Conversations \ {c} :
             /\ task'[d] = task[d] /\ at'[d] = at[d] /\ sent'[d] = sent[d]
             /\ cw'[d] = cw[d] /\ store'[d] = store[d]
        /\ task[c] \notin {"reading", "read"}
    BY <1>3, IngestFrame
  <2>2. SUFFICES ASSUME ~readOnly
                 PROVE  /\ \A d \in Conversations : ArrivedInv(d)'
                        /\ \A q \in Instances :
                             Unflagged(q)' =>
                               /\ task'[Conversation[q]] \in {"reading", "read"}
                               /\ ~cw'[Conversation[q]].failed
    BY <2>1 DEF CompleteInv
  <2>3. ArrivedInv(c)'
    BY <1>3, <2>2, IngestKeepsArrivedInv DEF CompleteInv
  <2>4. \A d \in Conversations \ {c} : ArrivedInv(d)'
    BY <2>1, <2>2 DEF CompleteInv, ArrivedInv, Arrived
  <2>5. ASSUME NEW q \in Instances, Unflagged(q)'
        PROVE  /\ task'[Conversation[q]] \in {"reading", "read"}
               /\ ~cw'[Conversation[q]].failed
    <3>1. Unflagged(q)
      BY <2>1, <2>5 DEF Unflagged
    <3>2. Conversation[q] \in Conversations
      BY RunnerAssumption DEF Instances
    <3> QED
      BY <2>1, <2>2, <3>1, <3>2 DEF CompleteInv
  <2> QED
    BY <2>3, <2>4, <2>5
<1>4. ASSUME NEW c \in Conversations,
             \/ StartRead(c) \/ Reconnects(c) \/ ReconnectFails(c)
             \/ VerifyList(c) \/ Ask(c) \/ ReadEnds(c)
      PROVE  CompleteInv'
  <2>1. /\ UNCHANGED <<readOnly, at, sent, cw, store>>
        /\ \A d \in Conversations \ {c} : task'[d] = task[d]
        /\ task[c] \in Started \ {"writing"} /\ task'[c] \in Started \ {"writing"}
        /\ task[c] \in {"reading", "read"} => task'[c] \in {"reading", "read"}
    BY <1>4, ReadFrame DEF Started
  <2>2. SUFFICES ASSUME ~readOnly
                 PROVE  /\ \A d \in Conversations : ArrivedInv(d)'
                        /\ \A q \in Instances :
                             Unflagged(q)' =>
                               /\ task'[Conversation[q]] \in {"reading", "read"}
                               /\ ~cw'[Conversation[q]].failed
    BY <2>1 DEF CompleteInv
  <2>3. \A d \in Conversations : ArrivedInv(d)'
    BY <2>1, <2>2 DEF CompleteInv, ArrivedInv, Arrived
  <2>4. ASSUME NEW q \in Instances, Unflagged(q)'
        PROVE  /\ task'[Conversation[q]] \in {"reading", "read"}
               /\ ~cw'[Conversation[q]].failed
    <3>1. \/ Unflagged(q)
          \/ Conversation[q] = c /\ task[c] = "reading" /\ ~cw[c].failed
      BY <1>4, <2>4, ReadFlags
    <3>2. Conversation[q] \in Conversations
      BY RunnerAssumption DEF Instances
    <3> QED
      BY <2>1, <2>2, <3>1, <3>2 DEF CompleteInv
  <2> QED
    BY <2>3, <2>4
<1>5. CASE RecordFailed
  <2>1. PICK p \in Instances : answer' = [answer EXCEPT ![p] = FailedAnswer(TRUE)]
    BY <1>5, AnswerTypes DEF RecordFailed
  <2>2. FailedAnswer(TRUE).ingestFailed
    BY DEF FailedAnswer
  <2>3. \A q \in Instances : Unflagged(q)' => Unflagged(q)
    BY <2>1, <2>2 DEF Unflagged, TypeOK
  <2> QED
    BY <1>5, <2>3, OtherFrame DEF CompleteInv, ArrivedInv, Arrived
<1>6. CASE RecordRead
  BY <1>1, <1>6, OtherFrame DEF RecordRead
<1> QED
  BY <1>1, <1>2, <1>3, <1>4, <1>5, <1>6, StepKinds, PhaseFrame, OtherFrame

\* A question graded without a failure flag was asked of a complete haystack, however
\* many conversations, sessions and turns there are and whichever encodes failed: the
\* flags of a report miss no turn.
THEOREM UnflaggedIsComplete == Spec => []UnflaggedMeansComplete
<1>1. Init => CompleteInv
  <2> SUFFICES ASSUME Init PROVE CompleteInv
    OBVIOUS
  <2>1. \A q \in Instances : ~Unflagged(q)
    BY DEF Init, FreshRun, Unflagged
  <2>2. ASSUME NEW c \in Conversations PROVE ArrivedInv(c)
    <3>1. /\ cw[c].counts.deduplicated = 0 /\ sent[c].deduplicated = 0 /\ store[c] = 0
          /\ task[c] = "waiting" /\ at[c].session = 1 /\ at[c].turn = 0
      BY DEF Init, FreshRun, Skipped, NoCounts
    <3> QED
      BY <3>1, TurnTypes, BeforeSessions DEF ArrivedInv, Arrived, Started
  <2> QED
    BY <2>1, <2>2 DEF CompleteInv
<1>2. TypeOK /\ CompleteInv => UnflaggedMeansComplete
  <2> SUFFICES ASSUME TypeOK, CompleteInv, ~readOnly, NEW q \in Instances, Unflagged(q)
               PROVE  store[Conversation[q]] + cw[Conversation[q]].counts.deduplicated
                        = TurnsOf(Conversation[q])
    BY DEF UnflaggedMeansComplete, Unflagged
  <2> DEFINE c == Conversation[q]
  <2>1. c \in Conversations
    BY RunnerAssumption DEF Instances
  <2>2. /\ ArrivedInv(c) /\ ~cw[c].failed
        /\ task[c] \in Started \ {"writing"}
    BY <2>1 DEF CompleteInv, Started
  <2>3. at[c].session = Len(Turns[c]) + 1 /\ at[c].turn = 0 /\ sent[c].deduplicated = 0
    BY <2>1, <2>2, TurnTypes DEF ArrivedInv
  <2>4. store[c] \in Nat /\ cw[c].counts.deduplicated \in Nat
    BY <2>1 DEF TypeOK, Writes, Counts
  <2>5. TurnsOf(c) \in Nat
    BY <2>1, TurnTypes, BeforeSessions
  <2> HIDE DEF c
  <2>6. store[c] + cw[c].counts.deduplicated = TurnsOf(c)
    BY <2>1, <2>2, <2>3, <2>4, <2>5, BeforeSessions DEF ArrivedInv, Arrived
  <2> QED
    BY <2>6 DEF c
<1> QED
  BY <1>1, <1>2, CompleteStep, TypeCorrect, PTL DEF Spec
=============================================================================
