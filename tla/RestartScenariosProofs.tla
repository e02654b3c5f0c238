------------------------ MODULE RestartScenariosProofs ------------------------
(***************************************************************************)
(* For every number of writes, kills and polls, and every kind of server:  *)
(* the restart scenarios miss no loss, invent none and leave nothing       *)
(* behind.                                                                 *)
(***************************************************************************)
EXTENDS RestartScenarios, FiniteSetTheorems, TLAPS

LEMMA ConstantsTyped ==
    /\ N \in Nat \ {0} /\ MAX_BATCH \in Nat \ {0} /\ CYCLES \in Nat \ {0}
    /\ SLACK \in Nat \ {0} /\ HEALTH_POLLS \in Nat
    /\ Servers \subseteq ServerKinds
BY ScenarioAssumption, LifecycleAssumption, StoreAssumption

\* Append adds its element and nothing else to the range.
LEMMA RangeAppend ==
    ASSUME NEW s \in Seq(Nat), NEW r \in Nat
    PROVE  Range(Append(s, r)) = Range(s) \cup {r}
<1>1. DOMAIN Append(s, r) = DOMAIN s \cup {Len(s) + 1}
  OBVIOUS
<1>2. \A i \in DOMAIN s : Append(s, r)[i] = s[i]
  OBVIOUS
<1>3. Append(s, r)[Len(s) + 1] = r
  OBVIOUS
<1> QED
  BY <1>1, <1>2, <1>3 DEF Range

LEMMA RangeTyped ==
    ASSUME NEW s \in Seq(Nat)
    PROVE  Range(s) \subseteq Nat
BY DEF Range

-----------------------------------------------------------------------------
\* What each part of the server does keeps the types of its state.

LEMMA StoreTypes ==
    ASSUME StoreTypeOK,
           \/ UNCHANGED storeVars \/ Killed \/ Drained \/ Replayed \/ Flush \/ Derive
           \/ \E r \in Nat : StoreRow(r)
    PROVE  StoreTypeOK'
BY DEF StoreTypeOK, storeVars, Killed, Drained, Replayed, Flush, Derive, StoreRow, Active

LEMMA RemoveTypes ==
    ASSUME LifecycleTypeOK, Remove
    PROVE  StoreTypeOK' /\ container' = "none"
BY StoreTypes DEF LifecycleTypeOK, Remove

LEMMA BootingTypes ==
    ASSUME LifecycleTypeOK, Booting
    PROVE  LifecycleTypeOK'
<1>1. StoreTypeOK'
  BY RemoveTypes, StoreTypes DEF LifecycleTypeOK, Booting, RemoveStale, DockerRun,
     DockerRunFails, ProbeHealth, BootFails, ProbeAgain
<1>2. container' \in {"none", "created", "starting", "healthy", "exited"}
  BY DEF LifecycleTypeOK, Booting, RemoveStale, Remove, DockerRun,
     DockerRunFails, ProbeHealth, BootFails, ProbeAgain
<1>3. volume' \in BOOLEAN
  BY DEF LifecycleTypeOK, Booting, RemoveStale, DockerRun,
     DockerRunFails, ProbeHealth, BootFails, ProbeAgain
<1>4. boot' \in {"remove", "run", "health", "state", "ready", "failed"}
  BY DEF LifecycleTypeOK, Booting, RemoveStale, DockerRun,
     DockerRunFails, ProbeHealth, BootFails, ProbeAgain
<1>5. polls' \in 0..HEALTH_POLLS
  BY ConstantsTyped DEF LifecycleTypeOK, Booting, RemoveStale, DockerRun,
     DockerRunFails, ProbeHealth, BootFails, ProbeAgain
<1> QED
  BY <1>1, <1>2, <1>3, <1>4, <1>5 DEF LifecycleTypeOK

LEMMA StopTypes ==
    ASSUME LifecycleTypeOK, Stop
    PROVE  LifecycleTypeOK'
BY RemoveTypes DEF LifecycleTypeOK, Stop, Remove

LEMMA OtherTypes ==
    ASSUME LifecycleTypeOK,
           \/ DockerStop \/ RemoveVolume \/ TurnsHealthy \/ Exits \/ Serves
           \/ UNCHANGED <<storeVars, dockerVars>>
    PROVE  LifecycleTypeOK'
<1>1. StoreTypeOK'
  BY StoreTypes DEF LifecycleTypeOK, DockerStop, RemoveVolume, TurnsHealthy, Exits, Serves
<1> QED
  BY <1>1 DEF LifecycleTypeOK, DockerStop, RemoveVolume, TurnsHealthy, Exits, Serves,
     dockerVars

-----------------------------------------------------------------------------
\* The types of the scenario's own state.
TaskTypeOK ==
    /\ scenario \in Scenarios
    /\ pc \in {"boot", "mint", "verify", "settle", "write", "remove", "join",
               "finish", "cleanup", "done"}
    /\ cycle \in 0..Last
    /\ writer \in {"connecting", "sending", "waiting", "ended"}
    /\ batch \in Seq(Nat) /\ Len(batch) <= Limit
    /\ reply \in Nat \cup {NoReply}
    /\ next \in Nat
    /\ acked \subseteq Nat
    /\ verdict \in {"none", "pass", "data_loss", "error"}

LEMMA TypesSplit == TypeOK <=> LifecycleTypeOK /\ TaskTypeOK
BY DEF TypeOK, TaskTypeOK

\* Writes are made before the last boot only, and never one more than the limit;
\* judging comes after a cycle of writes.
CycleInv ==
    /\ pc \in {"write", "remove", "join"} => cycle < Last
    /\ pc \in {"verify", "settle"} => cycle > 0
    /\ writer = "waiting" => Len(batch) < Limit

LEMMA TaskKeepsTypes ==
    ASSUME TypeOK, CycleInv, Task
    PROVE  TypeOK' /\ CycleInv'
<1> USE ConstantsTyped DEF Last, Chaos
<1>1. CASE Boot
  <2>1. LifecycleTypeOK' /\ UNCHANGED taskVars
    BY <1>1, TypesSplit, BootingTypes DEF Boot
  <2> QED
    BY <2>1 DEF taskVars, TypeOK, Limit, CycleInv
<1>2. CASE Booted
  BY <1>2, TypesSplit, OtherTypes DEF Booted, TypeOK, Limit, writerVars, CycleInv
<1>3. CASE BootErr
  BY <1>3, TypesSplit, OtherTypes DEF BootErr, Fails, TypeOK, Limit, writerVars, CycleInv
<1>4. CASE Minted
  <2>1. LifecycleTypeOK' /\ writer' \in {writer, "connecting", "sending"}
    BY <1>4, TypesSplit, OtherTypes DEF Minted
  <2>2. cycle' = cycle /\ cycle \in 0..Last /\ (pc' = "write" => cycle = 0) /\ pc' # "join"
        /\ pc' # "remove"
    BY <1>4 DEF Minted, TypeOK
  <2>3. CycleInv'
    BY <1>4, <2>2 DEF Minted, CycleInv, Limit
  <2> QED
    BY <1>4, <2>1, <2>3 DEF Minted, TypeOK, Limit
<1>5. CASE MintFails \/ VerifyFails
  <2>1. PICK where \in {"mint", "verify", "settle"} : Unwind(where)
    BY <1>5 DEF MintFails, VerifyFails
  <2> QED
    BY <2>1, TypesSplit, StopTypes DEF Unwind, Fails, TypeOK, Limit, writerVars, CycleInv
<1>6. CASE Verify \/ SecondRecall
  <2>1. Decide
    BY <1>6 DEF Verify, SecondRecall
  <2>2. LifecycleTypeOK'
    BY <2>1, TypesSplit, OtherTypes DEF Decide
  <2> QED
    BY <2>1, <2>2 DEF Decide, TypeOK, Limit, CycleInv
<1>7. CASE FirstRecall
  BY <1>7, TypesSplit, OtherTypes DEF FirstRecall, TypeOK, Limit, writerVars, CycleInv
<1>8. CASE Finish
  BY <1>8, TypesSplit, StopTypes DEF Finish, TypeOK, Limit, writerVars, CycleInv
<1>9. CASE Cleanup
  BY <1>9, TypesSplit, OtherTypes DEF Cleanup, TypeOK, Limit, writerVars, CycleInv
<1>10. CASE Kill \/ RemoveStopped
  BY <1>10, TypesSplit, StopTypes
  DEF Kill, RemoveStopped, TakeDown, TypeOK, Limit, writerVars, CycleInv
<1>11. CASE GracefulStop
  BY <1>11, TypesSplit, OtherTypes
  DEF GracefulStop, TakeDown, TypeOK, Limit, writerVars, CycleInv
<1>12. CASE NothingAcked
  BY <1>12, TypesSplit, OtherTypes
  DEF NothingAcked, Fails, TypeOK, Limit, writerVars, CycleInv
<1>13. CASE Join
  <2>1. LifecycleTypeOK'
    BY <1>13, TypesSplit, OtherTypes DEF Join, Joined
  <2>2. Range(batch) \subseteq Nat
    BY RangeTyped DEF TypeOK
  <2>3. batch' \in Seq(Nat) /\ Len(batch') = 0
    BY <1>13 DEF Join, Joined
  <2>4. 0 <= Limit
    BY DEF Limit
  <2>8. Len(batch) \in Nat
    BY DEF TypeOK
  <2>5. next' \in Nat /\ acked' \subseteq Nat
    <3>1. next' = next + Len(batch) + SLACK /\ acked' = acked \cup Range(batch)
      BY <1>13 DEF Join
    <3>2. next \in Nat /\ acked \subseteq Nat
      BY DEF TypeOK
    <3>3. next' \in Nat
      BY <2>8, <3>1, <3>2
    <3>4. acked' \subseteq Nat
      BY <2>2, <3>1, <3>2
    <3> QED
      BY <3>3, <3>4
  <2>6. cycle' \in 0..Last' /\ CycleInv'
    BY <1>13 DEF Join, Joined, TypeOK, CycleInv, Limit
  <2>7. Limit' = Limit
    BY <1>13 DEF Join, Joined, Limit
  <2> QED
    BY <1>13, <2>1, <2>3, <2>4, <2>5, <2>6, <2>7 DEF Join, Joined, TypeOK
<1> QED
  BY <1>1, <1>2, <1>3, <1>4, <1>5, <1>6, <1>7, <1>8, <1>9, <1>10, <1>11, <1>12, <1>13
  DEF Task

LEMMA WriterKeepsTypes ==
    ASSUME TypeOK, CycleInv, Writer \/ Server
    PROVE  TypeOK' /\ CycleInv'
<1> USE ConstantsTyped DEF Last, Chaos
<1>1. CASE WriterConnects \/ SendEncode \/ BatchFull \/ ConnectErr \/ EncodeErr
  <2>1. LifecycleTypeOK'
    BY <1>1, TypesSplit, OtherTypes
    DEF WriterConnects, SendEncode, BatchFull, ConnectErr, EncodeErr, WriterStops, WriterFrame
  <2> QED
    BY <1>1, <2>1
    DEF WriterConnects, SendEncode, BatchFull, ConnectErr, EncodeErr, WriterStops, WriterFrame,
        TypeOK, Limit, CycleInv
<1>2. CASE ReceiveAck
  <2>1. LifecycleTypeOK'
    BY <1>2, TypesSplit, OtherTypes DEF ReceiveAck, WriterFrame
  <2> QED
    BY <1>2, <2>1 DEF ReceiveAck, WriterFrame, TypeOK, Limit, CycleInv
<1>3. CASE EncodeUnwinds
  BY <1>3, TypesSplit, StopTypes DEF EncodeUnwinds, TypeOK, Limit, CycleInv
<1>4. CASE Encode
  <2>1. Current \in Nat
    BY DEF Current, TypeOK
  <2>2. LifecycleTypeOK'
    BY <1>4, <2>1, TypesSplit, StoreTypes
    DEF Encode, WriterFrame, LifecycleTypeOK, dockerVars
  <2>3. reply' \in Nat
    BY <1>4, <2>1 DEF Encode, TypeOK, LifecycleTypeOK, StoreTypeOK, Active
  <2> QED
    BY <1>4, <2>2, <2>3 DEF Encode, WriterFrame, TypeOK, Limit, CycleInv
<1>5. CASE (TurnsHealthy \/ Exits \/ Serves) /\ UNCHANGED taskVars
  <2>1. LifecycleTypeOK'
    BY <1>5, TypesSplit, OtherTypes
  <2> QED
    BY <1>5, <2>1 DEF taskVars, TypeOK, Limit, CycleInv
<1> QED
  BY <1>1, <1>2, <1>3, <1>4, <1>5 DEF Writer, Server

-----------------------------------------------------------------------------
\* The inductive invariant, in parts.

\* While a scenario's task holds a handle the container has been healthy, so it does not
\* replay its log again; when the task is past its last handle there is no container, or
\* one that docker run left.
ServerInv ==
    /\ boot \in {"remove", "ready"} => container # "starting"
    /\ boot \in {"run", "failed"} => container \in {"none", "created"}
    /\ pc \in {"mint", "verify", "settle", "write", "remove", "finish"} => boot = "ready"
    /\ pc \in {"join", "cleanup", "done"} => container \in {"none", "created"}
    /\ pc = "done" /\ container = "none" => ~volume

\* Rows that a kill can take exist only under the writer, which only works while the
\* server is not yet taken down.
VolatileInv ==
    /\ recallable \subseteq Active
    /\ writer # "ended" => pc \in {"write", "join"}
    /\ ~Running => volatile = {}
    /\ pc \notin {"write", "remove"} => volatile = {}

\* No row is newer than the write in flight, and before that is stored all are older.
RowsInv ==
    /\ pc \in {"boot", "mint", "verify", "settle"} => batch = <<>>
    /\ \A r \in Active : r <= Current
    /\ \/ pc \in {"boot", "mint", "verify", "settle"}
       \/ writer \in {"connecting", "sending"}
       \/ writer = "waiting" /\ reply = NoReply
       => \A r \in Active : r < Current

\* A scenario at rest writes indices below N, once.
AtRestInv == ~Chaos =>
    /\ cycle = 0 => next = 0
    /\ Active \subseteq 0..(N - 1)
    /\ Range(batch) \subseteq 0..(N - 1)
    /\ acked \subseteq 0..(N - 1)
    /\ reply # NoReply => reply \in 0..(N - 1)

\* Without merges it is acked each of them.
AllAckedInv == ~Chaos /\ ~server.merges =>
    /\ \A i \in DOMAIN batch : batch[i] = i - 1
    /\ writer = "waiting" /\ reply # NoReply => reply = Len(batch)
    /\ pc \in {"write", "remove", "join"} /\ writer = "ended" => Len(batch) = N
    /\ cycle = 1 => 0..(N - 1) \subseteq acked

\* A verdict stands.
VerdictInv ==
    /\ verdict # "none" => pc \in {"finish", "cleanup", "done"}
    /\ PassMeansKept
    /\ LossIsReal

Inv ==
    /\ TypeOK /\ CycleInv /\ ServerInv /\ VolatileInv
    /\ RowsInv /\ AtRestInv /\ AllAckedInv /\ VerdictInv

-----------------------------------------------------------------------------
\* Each part is kept by every step.

LEMMA ServerInvKept ==
    ASSUME TypeOK, ServerInv, Next
    PROVE  ServerInv'
<1>1. CASE Boot
  BY <1>1 DEF ServerInv, Boot, Booting, RemoveStale, Remove, DockerRun, DockerRunFails,
     ProbeHealth, BootFails, ProbeAgain, taskVars, dockerVars
<1>2. CASE \E where \in {"mint", "verify", "settle"} : Unwind(where)
  BY <1>2 DEF ServerInv, Unwind, Fails, Stop, Remove
<1>3. CASE Finish \/ Kill \/ RemoveStopped \/ EncodeUnwinds
  BY <1>3 DEF ServerInv, Finish, Kill, RemoveStopped, EncodeUnwinds, TakeDown, Stop, Remove
<1>4. CASE GracefulStop
  BY <1>4 DEF ServerInv, GracefulStop, TakeDown, DockerStop
<1>5. CASE Cleanup
  BY <1>5 DEF ServerInv, Cleanup, RemoveVolume
<1>6. CASE Booted \/ BootErr \/ Minted
  BY <1>6 DEF ServerInv, Booted, BootErr, Fails, Minted, dockerVars
<1>7. CASE Verify \/ SecondRecall \/ FirstRecall
  BY <1>7 DEF ServerInv, Verify, SecondRecall, FirstRecall, Decide, dockerVars
<1>8. CASE NothingAcked \/ Join
  BY <1>8 DEF ServerInv, NothingAcked, Fails, Join, Joined, dockerVars
<1>9. CASE \/ WriterConnects \/ SendEncode \/ ReceiveAck \/ BatchFull
           \/ ConnectErr \/ EncodeErr \/ Encode
  BY <1>9 DEF ServerInv, WriterConnects, SendEncode, ReceiveAck, BatchFull, ConnectErr,
     EncodeErr, Encode, WriterStops, WriterFrame, dockerVars
<1>10. CASE (TurnsHealthy \/ Exits \/ Serves) /\ UNCHANGED taskVars
  BY <1>10 DEF ServerInv, TurnsHealthy, Exits, Serves, Running, taskVars, dockerVars
<1> QED
  BY <1>1, <1>2, <1>3, <1>4, <1>5, <1>6, <1>7, <1>8, <1>9, <1>10
  DEF Next, Task, Writer, Server, MintFails, VerifyFails

LEMMA VolatileInvKept ==
    ASSUME TypeOK, VolatileInv, ServerInv, Next
    PROVE  VolatileInv'
<1> USE DEF VolatileInv, Running, Active
<1>1. CASE Boot
  <2>1. CASE UNCHANGED storeVars
    BY <1>1, <2>1 DEF Boot, storeVars, taskVars
  <2>2. CASE Killed
    BY <1>1, <2>2 DEF Boot, Killed, taskVars
  <2> QED
    BY <1>1, <2>1, <2>2 DEF Boot, Booting, RemoveStale, Remove, DockerRun, DockerRunFails,
       ProbeHealth, BootFails, ProbeAgain
<1>2. CASE Stop /\ (writer' = "ended" \/ (pc' = "join" /\ writer' = writer))
  BY <1>2 DEF Stop, Remove, Killed, storeVars
<1>3. CASE GracefulStop
  BY <1>3 DEF GracefulStop, TakeDown, DockerStop, Drained, Killed, storeVars, writerVars
<1>4. CASE Cleanup
  BY <1>4 DEF Cleanup, RemoveVolume, storeVars, writerVars
<1>5. CASE Booted \/ BootErr
  BY <1>5 DEF Booted, BootErr, Fails, dockerVars, storeVars, writerVars
<1>11. CASE Minted
  <2>1. pc' = "write" \/ (pc' = "verify" /\ writer' = writer)
    BY <1>11 DEF Minted
  <2> QED
    BY <1>11, <2>1 DEF Minted, dockerVars, storeVars
<1>6. CASE Verify \/ SecondRecall \/ FirstRecall
  BY <1>6 DEF Verify, SecondRecall, FirstRecall, Decide, dockerVars, storeVars, writerVars
<1>7. CASE NothingAcked \/ Join
  BY <1>7 DEF NothingAcked, Fails, Join, Joined, dockerVars, storeVars, writerVars
<1>8. CASE \/ WriterConnects \/ SendEncode \/ ReceiveAck \/ BatchFull
           \/ ConnectErr \/ EncodeErr
  BY <1>8 DEF WriterConnects, SendEncode, ReceiveAck, BatchFull, ConnectErr,
     EncodeErr, WriterStops, WriterFrame, dockerVars, storeVars
<1>9. CASE Encode
  BY <1>9 DEF Encode, StoreRow, WriterFrame, ServerInv, dockerVars, storeVars
<1>10. CASE (TurnsHealthy \/ Exits \/ Serves) /\ UNCHANGED taskVars
  BY <1>10 DEF TurnsHealthy, Exits, Serves, Replayed, Killed, Flush, Derive,
     taskVars, dockerVars
<1> QED
  <2>1. ASSUME Unwind("mint") \/ Unwind("verify") \/ Unwind("settle") \/ Finish
        PROVE  VolatileInv'
    BY <2>1, <1>2 DEF Unwind, Fails, Finish, writerVars
  <2>2. ASSUME Kill \/ RemoveStopped \/ EncodeUnwinds
        PROVE  VolatileInv'
    <3>1. Stop /\ (writer' = "ended" \/ (pc' = "join" /\ writer' = writer))
      BY <2>2 DEF Kill, RemoveStopped, EncodeUnwinds, TakeDown, writerVars
    <3> QED
      BY <3>1, <1>2
  <2> QED
    BY <1>1, <1>3, <1>4, <1>5, <1>6, <1>7, <1>8, <1>9, <1>10, <1>11, <2>1, <2>2
    DEF Next, Task, Writer, Server, MintFails, VerifyFails

\* Only an encode adds a row.
LEMMA ActiveShrinks ==
    ASSUME Next, ~Encode
    PROVE  Active' \subseteq Active /\ server' = server
<1>1. ASSUME \/ UNCHANGED storeVars \/ Killed \/ Drained \/ Replayed \/ Flush \/ Derive
      PROVE  Active' \subseteq Active /\ server' = server
  BY <1>1 DEF Active, storeVars, Killed, Drained, Replayed, Flush, Derive
<1>2. CASE Boot
  BY <1>1, <1>2 DEF Boot, Booting, RemoveStale, Remove, DockerRun, DockerRunFails,
     ProbeHealth, BootFails, ProbeAgain
<1>3. CASE \E where \in {"mint", "verify", "settle"} : Unwind(where)
  BY <1>1, <1>3 DEF Unwind, Stop, Remove
<1>4. CASE \/ Booted \/ BootErr \/ Minted \/ Verify \/ FirstRecall \/ SecondRecall
           \/ Finish \/ Cleanup \/ Kill \/ GracefulStop \/ RemoveStopped \/ NothingAcked \/ Join
  BY <1>1, <1>4 DEF Booted, BootErr, Minted, Verify, FirstRecall, SecondRecall, Decide,
     Finish, Cleanup, RemoveVolume, Kill, GracefulStop, DockerStop, RemoveStopped, Stop, Remove,
     NothingAcked, Join, Joined
<1>5. CASE Writer
  BY <1>1, <1>5 DEF Writer, WriterConnects, SendEncode, ReceiveAck, BatchFull, ConnectErr,
     EncodeErr, EncodeUnwinds, WriterStops, Stop, Remove
<1>6. CASE Server
  BY <1>1, <1>6 DEF Server, TurnsHealthy, Exits, Serves
<1> QED
  BY <1>2, <1>3, <1>4, <1>5, <1>6 DEF Next, Task, MintFails, VerifyFails

\* What changes the batch, the index and the reply.
LEMMA WriterState ==
    ASSUME Next, ~Encode, ~ReceiveAck, ~Join
    PROVE  /\ UNCHANGED <<batch, next, acked, cycle, scenario>>
           /\ UNCHANGED reply \/ SendEncode
<1>1. CASE \E where \in {"mint", "verify", "settle"} : Unwind(where)
  BY <1>1 DEF Unwind, Fails, writerVars
<1>2. CASE \/ Boot \/ Booted \/ BootErr \/ Minted \/ Verify \/ FirstRecall \/ SecondRecall
           \/ Finish \/ Cleanup \/ Kill \/ GracefulStop \/ RemoveStopped \/ NothingAcked
  BY <1>2 DEF Boot, taskVars, Booted, BootErr, Fails, Minted, Verify, FirstRecall,
     SecondRecall, Decide, Finish, Cleanup, Kill, GracefulStop, RemoveStopped, TakeDown,
     NothingAcked, writerVars
<1>3. CASE Writer
  BY <1>3 DEF Writer, WriterConnects, SendEncode, ReceiveAck, BatchFull, ConnectErr,
     EncodeErr, EncodeUnwinds, WriterStops, WriterFrame
<1>4. CASE Server
  BY <1>4 DEF Server, taskVars
<1> QED
  BY <1>1, <1>2, <1>3, <1>4 DEF Next, Task, MintFails, VerifyFails

LEMMA RowsInvKept ==
    ASSUME TypeOK, CycleInv, VolatileInv, RowsInv, Next
    PROVE  RowsInv'
<1> DEFINE Early == pc \in {"boot", "mint", "verify", "settle"}
           Unsent == \/ Early \/ writer \in {"connecting", "sending"}
                     \/ writer = "waiting" /\ reply = NoReply
<1>1. /\ Early => batch = <<>>
      /\ \A r \in Active : r <= Current
      /\ Unsent => \A r \in Active : r < Current
  BY DEF RowsInv
<1>2. /\ Len(batch) \in Nat /\ next \in Nat /\ Current \in Nat /\ SLACK \in Nat \ {0}
      /\ Active \subseteq Nat
  BY ConstantsTyped DEF TypeOK, LifecycleTypeOK, StoreTypeOK, Current, Active
<1>3. CASE Encode
  <2>1. Active' \subseteq Active \cup {Current} /\ reply' # NoReply /\ Current' = Current
    BY <1>2, <1>3 DEF Encode, StoreRow, WriterFrame, Active, storeVars, NoReply, Current
  <2>2. ~Early' /\ writer' = "waiting"
    BY <1>3 DEF Encode, WriterFrame, VolatileInv
  <2>3. \A r \in Active' : r <= Current'
    BY <1>1, <1>2, <2>1
  <2> QED
    BY <2>1, <2>2, <2>3 DEF RowsInv
<1>4. CASE ReceiveAck
  <2>1. Len(batch') = Len(batch) + 1 /\ next' = next
    BY <1>4 DEF ReceiveAck, WriterFrame, TypeOK, NoReply
  <2>2. Current' = Current + 1
    BY <1>2, <2>1 DEF Current
  <2>3. ~Early' /\ Active' = Active
    BY <1>4 DEF ReceiveAck, WriterFrame, VolatileInv, Active, storeVars
  <2>4. \A r \in Active' : r < Current' /\ r <= Current'
    BY <1>1, <1>2, <2>2, <2>3
  <2> QED
    BY <2>3, <2>4 DEF RowsInv
<1>5. CASE Join
  <2>1. Current' = Current + SLACK
    BY <1>2, <1>5 DEF Join, Joined, Current
  <2>2. batch' = <<>> /\ Active' = Active
    BY <1>5 DEF Join, Joined, Active, storeVars
  <2>3. \A r \in Active' : r < Current' /\ r <= Current'
    BY <1>1, <1>2, <2>1, <2>2
  <2> QED
    BY <2>2, <2>3 DEF RowsInv
<1>6. CASE ~Encode /\ ~ReceiveAck /\ ~Join
  <2>1. Active' \subseteq Active /\ Current' = Current /\ batch' = batch
    BY <1>6, ActiveShrinks, WriterState DEF Current
  <2>2. Unsent' => Unsent
    <3>1. CASE SendEncode
      BY <3>1 DEF SendEncode, WriterFrame
    <3>2. CASE Minted
      BY <3>2 DEF Minted
    <3>3. CASE Verify \/ SecondRecall
      BY <3>3 DEF Verify, SecondRecall, Decide
    <3>4. CASE ~SendEncode /\ ~Minted /\ ~Verify /\ ~SecondRecall
      <4>1. reply' = reply
        BY <1>6, <3>4, WriterState
      <4>2. CASE \E where \in {"mint", "verify", "settle"} : Unwind(where)
        BY <4>1, <4>2 DEF Unwind, Fails, writerVars
      <4>3. CASE \/ Boot \/ Booted \/ BootErr \/ FirstRecall \/ Finish \/ Cleanup
                 \/ Kill \/ GracefulStop \/ RemoveStopped \/ NothingAcked
        BY <4>1, <4>3 DEF Boot, taskVars, Booted, BootErr, Fails, FirstRecall, Finish, Cleanup,
           Kill, GracefulStop, RemoveStopped, TakeDown, NothingAcked, writerVars
      <4>4. CASE Writer
        BY <1>6, <3>4, <4>1, <4>4 DEF Writer, WriterConnects, BatchFull, ConnectErr, EncodeErr,
           EncodeUnwinds, WriterStops, WriterFrame
      <4>5. CASE Server
        BY <1>6, <4>1, <4>5 DEF Server, taskVars
      <4> QED
        BY <1>6, <3>4, <4>2, <4>3, <4>4, <4>5 DEF Next, Task, MintFails, VerifyFails
    <3> QED
      BY <3>1, <3>2, <3>3, <3>4
  <2>3. Early' => batch' = <<>>
    <3>1. CASE Early
      BY <1>1, <2>1, <3>1
    <3>2. CASE ~Early
      <4>1. ~Early'
        <5>1. CASE \E where \in {"mint", "verify", "settle"} : Unwind(where)
          BY <5>1 DEF Unwind, Fails
        <5>2. CASE Task /\ ~MintFails /\ ~VerifyFails
          BY <1>6, <3>2, <5>2 DEF Task, Boot, Booted, BootErr, Fails, Minted, Verify,
             FirstRecall, SecondRecall, Decide, Finish, Cleanup, Kill, GracefulStop,
             RemoveStopped, NothingAcked
        <5>3. CASE Writer \/ Server
          BY <1>6, <3>2, <5>3 DEF Writer, WriterConnects, SendEncode, BatchFull, ConnectErr,
             EncodeErr, EncodeUnwinds, WriterStops, WriterFrame, Server, taskVars
        <5> QED
          BY <5>1, <5>2, <5>3 DEF Next, MintFails, VerifyFails
      <4> QED
        BY <4>1
    <3> QED
      BY <3>1, <3>2
  <2>4. (\A r \in Active' : r <= Current') /\ (Unsent' => \A r \in Active' : r < Current')
    BY <1>1, <2>1, <2>2
  <2> QED
    BY <2>3, <2>4 DEF RowsInv
<1> QED
  BY <1>3, <1>4, <1>5, <1>6

LEMMA AtRestInvKept ==
    ASSUME TypeOK, CycleInv, VolatileInv, AtRestInv, Next
    PROVE  AtRestInv'
<1> SUFFICES ASSUME ~Chaos' PROVE AtRestInv'
  BY DEF AtRestInv
<1>1. CASE Encode
  <2>1. ~Chaos /\ UNCHANGED <<batch, cycle, next, acked>>
    BY <1>1 DEF Encode, WriterFrame, Chaos
  <2>2. cycle = 0
    BY <1>1, <2>1 DEF Encode, VolatileInv, CycleInv, TypeOK, Last
  <2>3. Current \in 0..(N - 1)
    BY <1>1, <2>1, <2>2, ConstantsTyped DEF Encode, AtRestInv, CycleInv, TypeOK, Limit, Current
  <2>4. Active' \subseteq 0..(N - 1) /\ reply' \in 0..(N - 1)
    BY <1>1, <2>1, <2>3 DEF Encode, AtRestInv, StoreRow, storeVars, Active
  <2> QED
    BY <2>1, <2>2, <2>4 DEF AtRestInv
<1>2. CASE ReceiveAck
  <2>1. ~Chaos /\ UNCHANGED <<cycle, next, acked, reply>> /\ Active' = Active
    BY <1>2 DEF ReceiveAck, WriterFrame, Chaos, storeVars, Active
  <2>2. reply \in 0..(N - 1)
    BY <1>2, <2>1 DEF ReceiveAck, AtRestInv
  <2>3. Range(batch') = Range(batch) \cup {reply}
    BY <1>2, <2>2, RangeAppend DEF ReceiveAck, TypeOK
  <2> QED
    BY <2>1, <2>2, <2>3 DEF AtRestInv
<1>3. CASE Join
  <2>1. ~Chaos /\ UNCHANGED reply /\ Active' = Active
    BY <1>3 DEF Join, Joined, Chaos, storeVars, Active
  <2>2. cycle' # 0
    BY <1>3, ConstantsTyped DEF Join, Joined, TypeOK, Last
  <2>3. Range(batch') = {}
    BY <1>3 DEF Join, Joined, Range
  <2>4. acked' = acked \cup Range(batch)
    BY <1>3 DEF Join
  <2> QED
    BY <2>1, <2>2, <2>3, <2>4 DEF AtRestInv
<1>4. CASE ~Encode /\ ~ReceiveAck /\ ~Join
  <2>1. Active' \subseteq Active /\ UNCHANGED <<batch, next, acked, cycle, scenario>>
    BY <1>4, ActiveShrinks, WriterState
  <2>2. reply' = reply \/ reply' = NoReply
    BY <1>4, WriterState DEF SendEncode
  <2>3. Range(batch') = Range(batch)
    BY <2>1
  <2> QED
    BY <2>1, <2>2, <2>3 DEF AtRestInv, Chaos
<1> QED
  BY <1>1, <1>2, <1>3, <1>4

LEMMA AllAckedInvKept ==
    ASSUME TypeOK, CycleInv, VolatileInv, AtRestInv, AllAckedInv, Next
    PROVE  AllAckedInv'
<1> SUFFICES ASSUME ~Chaos', ~server.merges' PROVE AllAckedInv'
  BY DEF AllAckedInv
<1>0. ~Chaos /\ ~server.merges
  <2>1. CASE Encode
    BY <2>1 DEF Encode, WriterFrame, StoreRow, storeVars, Chaos
  <2>2. CASE ReceiveAck \/ Join
    BY <2>2, ActiveShrinks DEF ReceiveAck, WriterFrame, Join, Joined, storeVars, Chaos
  <2>3. CASE ~Encode /\ ~ReceiveAck /\ ~Join
    BY <2>3, ActiveShrinks, WriterState DEF Chaos
  <2> QED
    BY <2>1, <2>2, <2>3
<1>1. CASE Encode
  <2>1. UNCHANGED <<batch, cycle, acked, pc, writer>> /\ writer = "waiting"
    BY <1>1 DEF Encode, WriterFrame
  <2>2. cycle = 0 /\ next = 0
    BY <1>0, <1>1 DEF Encode, VolatileInv, CycleInv, AtRestInv, TypeOK, Last
  <2>3. reply' = Len(batch)
    BY <1>0, <1>1, <2>2 DEF Encode, Current, TypeOK
  <2> QED
    BY <1>0, <2>1, <2>2, <2>3 DEF AllAckedInv
<1>2. CASE ReceiveAck
  <2>1. UNCHANGED <<cycle, acked>> /\ writer' = "sending" /\ batch \in Seq(Nat)
        /\ reply = Len(batch) /\ batch' = Append(batch, reply)
    BY <1>0, <1>2 DEF ReceiveAck, WriterFrame, AllAckedInv, TypeOK
  <2>2. \A i \in DOMAIN batch' : batch'[i] = i - 1
    BY <1>0, <2>1 DEF AllAckedInv
  <2> QED
    BY <1>0, <2>1, <2>2 DEF AllAckedInv
<1>3. CASE Join
  <2>1. batch' = <<>> /\ writer' = "ended" /\ pc' = "boot" /\ acked' = acked \cup Range(batch)
    BY <1>3 DEF Join, Joined
  <2>2. Len(batch) = N /\ batch \in Seq(Nat) /\ \A i \in DOMAIN batch : batch[i] = i - 1
    BY <1>0, <1>3 DEF Join, Joined, AllAckedInv, TypeOK
  <2>3. ASSUME NEW r \in 0..(N - 1) PROVE r \in Range(batch)
    <3>1. r + 1 \in DOMAIN batch /\ batch[r + 1] = r
      BY <2>2, <2>3, ConstantsTyped
    <3> QED
      BY <3>1 DEF Range
  <2> QED
    BY <2>1, <2>3 DEF AllAckedInv
<1>4. CASE ~Encode /\ ~ReceiveAck /\ ~Join
  <2>1. UNCHANGED <<batch, cycle, acked>>
    BY <1>4, WriterState
  <2>2. writer' = "waiting" /\ reply' # NoReply => writer = "waiting" /\ reply' = reply
    <3>1. CASE SendEncode
      BY <3>1 DEF SendEncode
    <3>2. CASE ~SendEncode
      <4>1. reply' = reply
        BY <1>4, <3>2, WriterState
      <4>2. CASE \E where \in {"mint", "verify", "settle"} : Unwind(where)
        BY <4>1, <4>2 DEF Unwind, Fails, writerVars
      <4>3. CASE Task /\ ~MintFails /\ ~VerifyFails
        BY <1>4, <4>1, <4>3 DEF Task, Boot, taskVars, Booted, BootErr, Fails, Minted, Verify,
           FirstRecall, SecondRecall, Decide, Finish, Cleanup, Kill, GracefulStop,
           RemoveStopped, TakeDown, NothingAcked, writerVars
      <4>4. CASE Writer \/ Server
        BY <1>4, <3>2, <4>1, <4>4 DEF Writer, WriterConnects, BatchFull, ConnectErr, EncodeErr,
           EncodeUnwinds, WriterStops, WriterFrame, Server, taskVars
      <4> QED
        BY <4>2, <4>3, <4>4 DEF Next, MintFails, VerifyFails
    <3> QED
      BY <3>1, <3>2
  <2>3. ASSUME pc' \in {"write", "remove", "join"}, writer' = "ended"
        PROVE  Len(batch) = N
    <3>1. CASE BatchFull
      BY <1>0, <3>1 DEF BatchFull, Limit
    <3>2. CASE pc \in {"write", "remove", "join"} /\ writer = "ended"
      BY <1>0, <3>2 DEF AllAckedInv
    <3>3. ~(\E where \in {"mint", "verify", "settle"} : Unwind(where))
      BY <2>3 DEF Unwind, Fails
    <3>4. CASE Task /\ ~MintFails /\ ~VerifyFails
      BY <1>4, <2>3, <3>2, <3>4 DEF Task, Boot, taskVars, Booted, BootErr, Fails, Minted,
         Verify, FirstRecall, SecondRecall, Decide, Finish, Cleanup, Kill, GracefulStop,
         RemoveStopped, TakeDown, NothingAcked, writerVars
    <3>5. CASE Writer \/ Server
      BY <1>0, <1>4, <2>3, <3>1, <3>2, <3>5 DEF Writer, WriterConnects, SendEncode, ConnectErr,
         EncodeErr, EncodeUnwinds, WriterStops, WriterFrame, Server, taskVars
    <3> QED
      BY <3>3, <3>4, <3>5 DEF Next, MintFails, VerifyFails
  <2> QED
    BY <1>0, <2>1, <2>2, <2>3 DEF AllAckedInv
<1> QED
  BY <1>1, <1>2, <1>3, <1>4

\* Once the scenario is past its judgement, nothing changes what it judged by.
LEMMA VerdictStands ==
    ASSUME TypeOK, ServerInv, VolatileInv, Next, pc \in {"finish", "cleanup", "done"}
    PROVE  /\ UNCHANGED <<disk, acked, server, scenario, verdict>>
           /\ pc' \in {"finish", "cleanup", "done"}
<1>1. writer = "ended" /\ volatile = {} /\ container # "starting"
  BY DEF ServerInv, VolatileInv
<1>2. CASE Finish
  BY <1>2 DEF Finish, Stop, Remove, Killed, storeVars
<1>3. CASE Cleanup
  BY <1>3 DEF Cleanup, RemoveVolume, storeVars
<1>4. CASE (Exits \/ Serves) /\ UNCHANGED taskVars
  BY <1>1, <1>4 DEF Exits, Killed, Serves, Flush, Derive, taskVars
<1>5. ~TurnsHealthy /\ ~Encode
  BY <1>1 DEF TurnsHealthy, Encode
<1>6. ~Writer
  BY <1>1 DEF Writer, WriterConnects, SendEncode, ReceiveAck, BatchFull, ConnectErr,
     EncodeErr, EncodeUnwinds
<1>7. Task => Finish \/ Cleanup
  BY DEF Task, Boot, Booted, BootErr, Fails, Minted, MintFails, Verify, FirstRecall,
     SecondRecall, VerifyFails, Unwind, Kill, GracefulStop, RemoveStopped, NothingAcked,
     Join, Joined
<1> QED
  BY <1>2, <1>3, <1>4, <1>5, <1>6, <1>7 DEF Next, Server

\* What Decide concludes is true.  A scenario that counts can only find N rows below N
\* if it finds them all.
LEMMA DecideIsRight ==
    ASSUME Inv, pc \in {"verify", "settle"}, Decide
    PROVE  VerdictInv'
<1>1. volatile = {} /\ verdict = "none" /\ cycle > 0
  BY DEF Inv, VolatileInv, VerdictInv, CycleInv, TypeOK
<1>2. /\ UNCHANGED <<disk, acked, server, scenario, Active>> /\ Active = disk
      /\ recallable \subseteq disk
  BY <1>1 DEF Decide, storeVars, Active, Inv, VolatileInv
<1>3. IsFiniteSet(0..(N - 1)) /\ Cardinality(0..(N - 1)) = N
  BY ConstantsTyped, FS_Interval
<1>4. ASSUME ~Chaos, Survived PROVE Kept
  <2>1. disk \subseteq 0..(N - 1) /\ acked \subseteq 0..(N - 1)
    BY <1>2, <1>4 DEF Inv, AtRestInv
  <2>2. PICK found \in SUBSET disk : Cardinality(found) >= N
    BY <1>2, <1>4 DEF Survived
  <2>3. IsFiniteSet(found) /\ Cardinality(found) \in Nat /\ Cardinality(found) <= N
        /\ (Cardinality(found) = N => found = 0..(N - 1))
    BY <1>3, <2>1, <2>2, FS_Subset, FS_CardinalityType
  <2>4. found = 0..(N - 1)
    BY <2>2, <2>3, ConstantsTyped
  <2> QED
    BY <2>1, <2>2, <2>4 DEF Kept
<1>5. ASSUME Chaos PROVE Survived <=> Kept
  BY <1>2, <1>5 DEF Survived, Kept, Chaos
<1>6. ASSUME scenario = "restart_recovery", ~server.merges, Kept PROVE Survived
  <2>1. ~Chaos /\ cycle = 1
    BY <1>1, <1>6 DEF Chaos, Inv, TypeOK, Last
  <2>2. 0..(N - 1) \subseteq acked /\ disk \subseteq 0..(N - 1)
    BY <1>2, <1>6, <2>1 DEF Inv, AtRestInv, AllAckedInv
  <2>3. Active = 0..(N - 1)
    BY <1>2, <1>6, <2>2 DEF Kept
  <2> QED
    BY <1>3, <1>6, <2>1, <2>3, ConstantsTyped DEF Survived
<1>7. CASE verdict' = "none"
  BY <1>7 DEF VerdictInv, PassMeansKept, LossIsReal
<1>8. CASE Survived /\ verdict' = "pass" /\ pc' = "finish"
  <2>1. Kept'
    BY <1>2, <1>4, <1>5, <1>8 DEF Kept
  <2> QED
    BY <1>8, <2>1 DEF VerdictInv, PassMeansKept, LossIsReal
<1>9. CASE ~Survived /\ verdict' = "data_loss" /\ pc' = "finish"
  <2>1. Chaos' = Chaos /\ Kept' = Kept
    BY <1>2 DEF Chaos, Kept
  <2> QED
    BY <1>2, <1>5, <1>6, <1>9, <2>1 DEF VerdictInv, PassMeansKept, LossIsReal
<1> QED
  BY <1>1, <1>7, <1>8, <1>9 DEF Decide

LEMMA VerdictInvKept ==
    ASSUME Inv, Next
    PROVE  VerdictInv'
<1>1. CASE pc \in {"finish", "cleanup", "done"}
  BY <1>1, VerdictStands DEF Inv, VerdictInv, PassMeansKept, LossIsReal, Kept, Chaos
<1>2. CASE Verify \/ SecondRecall
  BY <1>2, DecideIsRight DEF Verify, SecondRecall
<1>3. CASE pc \notin {"finish", "cleanup", "done"} /\ ~Verify /\ ~SecondRecall
  <2>1. verdict = "none"
    BY <1>3 DEF Inv, VerdictInv, TypeOK
  <2>2. verdict' = "none" \/ (verdict' = "error" /\ pc' = "cleanup")
    <3>1. CASE \E where \in {"mint", "verify", "settle"} : Unwind(where)
      BY <3>1 DEF Unwind, Fails
    <3>2. CASE Task /\ ~MintFails /\ ~VerifyFails
      BY <1>3, <2>1, <3>2 DEF Task, Boot, taskVars, Booted, BootErr, Fails, Minted,
         FirstRecall, Finish, Cleanup, Kill, GracefulStop, RemoveStopped, TakeDown,
         NothingAcked, Join, Joined
    <3>3. CASE Writer \/ Server
      BY <2>1, <3>3 DEF Writer, WriterConnects, SendEncode, ReceiveAck, BatchFull, ConnectErr,
         EncodeErr, EncodeUnwinds, WriterStops, WriterFrame, Server, Encode, taskVars
    <3> QED
      BY <3>1, <3>2, <3>3 DEF Next, MintFails, VerifyFails
  <2> QED
    BY <2>2 DEF VerdictInv, PassMeansKept, LossIsReal
<1> QED
  BY <1>1, <1>2, <1>3

-----------------------------------------------------------------------------
LEMMA InvInitial == Init => Inv
<1> SUFFICES ASSUME Init PROVE Inv
  OBVIOUS
<1> USE ConstantsTyped DEF Init, LifecycleInit, StoreInit
<1>1. TypeOK
  BY DEF TypeOK, LifecycleTypeOK, StoreTypeOK, Last, Limit, NoReply
<1>2. CycleInv /\ ServerInv /\ VolatileInv /\ RowsInv /\ VerdictInv
  BY DEF CycleInv, ServerInv, VolatileInv, Active, RowsInv, VerdictInv, PassMeansKept, LossIsReal
<1>3. AtRestInv /\ AllAckedInv
  BY DEF AtRestInv, AllAckedInv, Active, Range
<1> QED
  BY <1>1, <1>2, <1>3 DEF Inv

LEMMA InvKept == Inv /\ [Next]_vars => Inv'
<1>1. ASSUME Inv, Next PROVE Inv'
  <2>1. TypeOK' /\ CycleInv'
    BY <1>1, TaskKeepsTypes, WriterKeepsTypes DEF Inv, Next
  <2> QED
    BY <1>1, <2>1, ServerInvKept, VolatileInvKept, RowsInvKept, AtRestInvKept, AllAckedInvKept,
       VerdictInvKept
    DEF Inv
<1>2. ASSUME Inv, UNCHANGED vars PROVE Inv'
  <2> USE <1>2 DEF Inv, vars, storeVars, dockerVars, taskVars, Chaos, Last, Limit
  <2>1. TypeOK'
    BY DEF TypeOK, LifecycleTypeOK, StoreTypeOK
  <2>2. CycleInv' /\ ServerInv' /\ VolatileInv'
    BY DEF CycleInv, ServerInv, VolatileInv, Active, Running
  <2>3. RowsInv' /\ AtRestInv' /\ AllAckedInv'
    BY DEF RowsInv, AtRestInv, AllAckedInv, Active, Current
  <2>4. VerdictInv'
    BY DEF VerdictInv, PassMeansKept, LossIsReal, Kept
  <2> QED
    BY <2>1, <2>2, <2>3, <2>4
<1> QED
  BY <1>1, <1>2

LEMMA InvAlways == Spec => []Inv
BY InvInitial, InvKept, PTL DEF Spec

\* The state has its types: in particular no batch exceeds its limit.
THEOREM TypeCorrect == Spec => []TypeOK
<1>1. Inv => TypeOK
  BY DEF Inv
<1> QED
  BY <1>1, InvAlways, PTL

\* A scenario passes only if every write acked to it is on the volume, whatever the
\* server does with its writes and however often it is killed.
THEOREM NoLossMissed == Spec => []PassMeansKept
<1>1. Inv => PassMeansKept
  BY DEF Inv, VerdictInv
<1> QED
  BY <1>1, InvAlways, PTL

\* kill_during_write, and restart_recovery on a server that does not merge, report data
\* loss only if an acked write is gone.
THEOREM NoLossInvented == Spec => []LossIsReal
<1>1. Inv => LossIsReal
  BY DEF Inv, VerdictInv
<1> QED
  BY <1>1, InvAlways, PTL

\* A write in flight never has the index of a row that exists, so one index skipped
\* between cycles is as good as sixteen.
THEOREM WritesAreNew == Spec => []InFlightIsNew
<1>1. Inv => InFlightIsNew
  <2> SUFFICES ASSUME Inv, writer = "waiting", reply = NoReply PROVE Current \notin Active
    BY DEF InFlightIsNew
  <2>1. Current \in Nat /\ \A r \in Active : r < Current
    BY DEF Inv, RowsInv, TypeOK, Current
  <2> QED
    BY <2>1
<1> QED
  BY <1>1, InvAlways, PTL

\* A scenario that has ended left neither container nor volume, unless docker run did.
THEOREM NothingLeft == Spec => []NothingLeftBehind
<1>1. Inv => NothingLeftBehind
  BY DEF Inv, ServerInv, NothingLeftBehind
<1> QED
  BY <1>1, InvAlways, PTL

=============================================================================
