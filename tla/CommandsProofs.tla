---------------------------- MODULE CommandsProofs ----------------------------
(***************************************************************************)
(* What holds of the commands holds of the binary: the invariants of the   *)
(* commands' modules, carried over to a process that runs one of them, and *)
(* what its exit code and its docker server are worth.                     *)
(***************************************************************************)
EXTENDS Commands, AcceptanceProofs, TierProofs, SumLemmas

-----------------------------------------------------------------------------
\* The summary command.  Graded is the recursion of a filter: what it keeps is graded, and
\* it keeps all of what is graded, so that to grade twice is to grade once.

\* The recursion of Graded: f[n] holds what Graded keeps of the first n results.
Keeps(rs, f, n) ==
    IF n = 0 THEN <<>>
    ELSE IF IsGraded(rs[n]) THEN Append(f[n - 1], rs[n]) ELSE f[n - 1]

IsKept(rs, k, f) == f = [n \in 0..k |-> Keeps(rs, f, n)]

LEMMA GradedIsKept ==
    ASSUME NEW rs
    PROVE  Graded(rs) = (CHOOSE f : IsKept(rs, Len(rs), f))[Len(rs)]
BY Zenon DEF Graded, IsKept, Keeps

LEMMA KeptExists ==
    ASSUME NEW rs
    PROVE  \A k \in Nat : \E f : IsKept(rs, k, f)
<1> DEFINE good == {k \in Nat : \E f : IsKept(rs, k, f)}
<1>1. 0 \in good
  <2> DEFINE f == [n \in 0..0 |-> <<>>]
  <2>1. \A n \in 0..0 : n = 0
    OBVIOUS
  <2>2. IsKept(rs, 0, f)
    BY <2>1 DEF IsKept, Keeps
  <2> QED
    BY <2>2
<1>2. ASSUME NEW k \in Nat, k \in good PROVE k + 1 \in good
  <2>1. PICK f : IsKept(rs, k, f)
    BY <1>2
  <2> DEFINE D == 0..(k + 1)
             h == [n \in D |-> IF n = k + 1 THEN Keeps(rs, f, k + 1) ELSE f[n]]
  <2>2. \A n \in 0..k : n \in D /\ h[n] = f[n] /\ f[n] = Keeps(rs, f, n)
    <3>1. \A n \in 0..k : n \in D /\ n # k + 1
      OBVIOUS
    <3>2. \A n \in 0..k : f[n] = Keeps(rs, f, n)
      <4> DEFINE K(n) == Keeps(rs, f, n)
      <4>1. f = [n \in 0..k |-> K(n)]
        BY <2>1 DEF IsKept
      <4> HIDE DEF K
      <4>2. \A n \in 0..k : f[n] = K(n)
        BY <4>1
      <4> QED
        BY <4>2 DEF K
    <3> QED
      BY <3>1, <3>2
  <2>3. h[k + 1] = Keeps(rs, f, k + 1)
    OBVIOUS
  <2>4. h = [n \in D |-> h[n]]
    OBVIOUS
  <2> HIDE DEF h
  <2>5. \A n \in D : h[n] = Keeps(rs, h, n)
    <3>1. SUFFICES ASSUME NEW n \in D PROVE h[n] = Keeps(rs, h, n)
      OBVIOUS
    <3>2. n = 0 \/ (n - 1 \in 0..k /\ h[n - 1] = f[n - 1])
      BY <2>2
    <3>3. Keeps(rs, h, n) = Keeps(rs, f, n)
      BY <3>2 DEF Keeps
    <3>4. n \in 0..k \/ n = k + 1
      OBVIOUS
    <3> QED
      BY <2>2, <2>3, <3>3, <3>4
  <2>6. IsKept(rs, k + 1, h)
    BY <2>4, <2>5, Zenon DEF IsKept
  <2> QED
    BY <2>6
<1> QED
  <2> HIDE DEF good
  <2>1. Nat \subseteq good
    BY <1>1, <1>2, NatSetInduction
  <2> QED
    BY <2>1 DEF good

\* Graded, step by step.
LEMMA KeptSteps ==
    ASSUME NEW R, NEW rs \in Seq(R)
    PROVE  \E f : /\ f[0] = <<>>
                  /\ \A n \in 1..Len(rs) :
                       f[n] = IF IsGraded(rs[n]) THEN Append(f[n - 1], rs[n]) ELSE f[n - 1]
                  /\ f[Len(rs)] = Graded(rs)
<1> DEFINE f == CHOOSE f : IsKept(rs, Len(rs), f)
           K(n) == Keeps(rs, f, n)
<1>1. Len(rs) \in Nat
  OBVIOUS
<1>2. IsKept(rs, Len(rs), f)
  BY <1>1, KeptExists
<1>3. f[Len(rs)] = Graded(rs)
  BY GradedIsKept
<1> HIDE DEF f
<1>4. \A n \in 0..Len(rs) : f[n] = K(n)
  <2>1. f = [n \in 0..Len(rs) |-> K(n)]
    BY <1>2 DEF IsKept
  <2> HIDE DEF K
  <2> QED
    BY <2>1
<1>5. 0 \in 0..Len(rs) /\ \A n \in 1..Len(rs) : n \in 0..Len(rs) /\ n # 0
  BY <1>1
<1> QED
  BY <1>3, <1>4, <1>5, Zenon DEF Keeps

\* Every result Graded keeps is graded.
LEMMA GradedOnly ==
    ASSUME NEW R, NEW rs \in Seq(R)
    PROVE  /\ Graded(rs) \in Seq(R)
           /\ \A i \in 1..Len(Graded(rs)) : IsGraded(Graded(rs)[i])
<1> DEFINE Fine(s) == s \in Seq(R) /\ \A i \in 1..Len(s) : IsGraded(s[i])
<1>1. PICK f : /\ f[0] = <<>>
               /\ \A n \in 1..Len(rs) :
                    f[n] = IF IsGraded(rs[n]) THEN Append(f[n - 1], rs[n]) ELSE f[n - 1]
               /\ f[Len(rs)] = Graded(rs)
  BY KeptSteps
<1>2. Len(rs) \in Nat /\ \A n \in 1..Len(rs) : rs[n] \in R
  OBVIOUS
<1> DEFINE fine == {n \in Nat : n <= Len(rs) => Fine(f[n])}
<1>3. 0 \in fine
  <2>1. Fine(<<>>)
    OBVIOUS
  <2> HIDE DEF Fine
  <2> QED
    BY <1>1, <2>1
<1>4. ASSUME NEW n \in Nat, n \in fine PROVE n + 1 \in fine
  <2>1. SUFFICES ASSUME n + 1 <= Len(rs) PROVE Fine(f[n + 1])
    OBVIOUS
  <2>2. Fine(f[n]) /\ n + 1 \in 1..Len(rs) /\ (n + 1) - 1 = n
    BY <1>2, <1>4, <2>1
  <2>3. f[n + 1] = IF IsGraded(rs[n + 1]) THEN Append(f[n], rs[n + 1]) ELSE f[n]
    BY <1>1, <2>2
  <2>4. rs[n + 1] \in R
    BY <1>2, <2>2
  <2>5. ASSUME IsGraded(rs[n + 1]) PROVE Fine(Append(f[n], rs[n + 1]))
    BY <2>2, <2>4, <2>5
  <2> QED
    BY <2>2, <2>3, <2>5
<1>5. Nat \subseteq fine
  <2> HIDE DEF fine
  <2> QED
    BY <1>3, <1>4, NatSetInduction
<1>6. Fine(f[Len(rs)])
  BY <1>2, <1>5
<1> QED
  BY <1>1, <1>6

\* Graded leaves alone what is graded already.
LEMMA GradedAll ==
    ASSUME NEW R, NEW rs \in Seq(R), \A i \in 1..Len(rs) : IsGraded(rs[i])
    PROVE  Graded(rs) = rs
<1> DEFINE Whole(s, n) == s \in Seq(R) /\ Len(s) = n /\ \A i \in 1..n : s[i] = rs[i]
<1>1. PICK f : /\ f[0] = <<>>
               /\ \A n \in 1..Len(rs) :
                    f[n] = IF IsGraded(rs[n]) THEN Append(f[n - 1], rs[n]) ELSE f[n - 1]
               /\ f[Len(rs)] = Graded(rs)
  BY KeptSteps
<1>2. Len(rs) \in Nat /\ \A n \in 1..Len(rs) : rs[n] \in R
  OBVIOUS
<1> DEFINE whole == {n \in Nat : n <= Len(rs) => Whole(f[n], n)}
<1>3. 0 \in whole
  <2>1. Whole(<<>>, 0)
    OBVIOUS
  <2> HIDE DEF Whole
  <2> QED
    BY <1>1, <2>1
<1>4. ASSUME NEW n \in Nat, n \in whole PROVE n + 1 \in whole
  <2>1. SUFFICES ASSUME n + 1 <= Len(rs) PROVE Whole(f[n + 1], n + 1)
    OBVIOUS
  <2>2. Whole(f[n], n) /\ n + 1 \in 1..Len(rs) /\ (n + 1) - 1 = n
    BY <1>2, <1>4, <2>1
  <2>3. f[n + 1] = Append(f[n], rs[n + 1])
    BY <1>1, <2>2
  <2>4. rs[n + 1] \in R
    BY <1>2, <2>2
  <2>5. Whole(Append(f[n], rs[n + 1]), n + 1)
    BY <2>2, <2>4
  <2> QED
    BY <2>3, <2>5
<1>5. Nat \subseteq whole
  <2> HIDE DEF whole
  <2> QED
    BY <1>3, <1>4, NatSetInduction
<1>6. Whole(Graded(rs), Len(rs))
  BY <1>1, <1>2, <1>5
<1> QED
  BY <1>6

LEMMA GradedTwice ==
    ASSUME NEW R, NEW rs \in Seq(R)
    PROVE  Graded(Graded(rs)) = Graded(rs)
BY GradedOnly, GradedAll

\* What the two reports share when the second is of the graded results of the first.
LEMMA GradedParts ==
    ASSUME NEW rs, NEW g, Graded(rs) = g, Graded(g) = g
    PROVE  /\ FullMetrics(rs).overall = FullMetrics(g).overall
           /\ FullMetrics(rs).shape.accuracy = FullMetrics(g).shape.accuracy
           /\ FullMetrics(rs).shape.precision = FullMetrics(g).shape.precision
<1>1. Precision(rs) = Precision(g)
  BY Zenon DEF Precision
<1>2. AnswerShape(rs).accuracy = AnswerShape(g).accuracy
  BY Zenon DEF AnswerShape
<1>3. AnswerShape(rs).precision = AnswerShape(g).precision
  BY <1>1, Zenon DEF AnswerShape
<1> QED
  BY <1>2, <1>3, Zenon DEF FullMetrics

\* The file is read off line by line.
SummaryInv ==
    /\ SummaryTypeOK
    /\ file \in Seq(Lines)
    /\ Len(file) + Len(parsed) + unparseable <= FILE_LINES

LEMMA Bounded ==
    ASSUME NEW S, NEW n \in Nat, NEW s
    PROVE  s \in BoundedSeq(S, n) <=> s \in Seq(S) /\ Len(s) <= n
<1>1. ASSUME s \in BoundedSeq(S, n) PROVE s \in Seq(S) /\ Len(s) <= n
  <2>1. PICK m \in 0..n : s \in [1..m -> S]
    BY <1>1 DEF BoundedSeq, SeqOf
  <2> QED
    BY <2>1
<1>2. ASSUME s \in Seq(S), Len(s) <= n PROVE s \in BoundedSeq(S, n)
  <2>1. Len(s) \in 0..n /\ s \in [1..Len(s) -> S]
    BY <1>2
  <2> QED
    BY <2>1 DEF BoundedSeq, SeqOf
<1> QED
  BY <1>1, <1>2

LEMMA SummaryInits == SummaryInit => SummaryInv
<1> SUFFICES ASSUME SummaryInit PROVE SummaryInv
  OBVIOUS
<1>1. FILE_LINES \in Nat
  BY SummaryAssumption
<1>2. file \in Seq(Lines) /\ Len(file) <= FILE_LINES /\ file \in BoundedSeq(Lines, FILE_LINES)
  BY <1>1, Bounded DEF SummaryInit
<1>3. parsed \in Seq(FileResults) /\ Len(parsed) = 0
  BY DEF SummaryInit
<1>4. parsed \in BoundedSeq(FileResults, FILE_LINES)
  <2>1. parsed \in Seq(FileResults) /\ Len(parsed) <= FILE_LINES
    BY <1>1, <1>3
  <2> QED
    BY <1>1, <2>1, Bounded, Zenon
<1> QED
  BY <1>1, <1>2, <1>3, <1>4 DEF SummaryInit, SummaryInv, SummaryTypeOK

LEMMA SummaryStep == SummaryInv /\ [SummaryNext]_summaryVars => SummaryInv'
<1> SUFFICES ASSUME SummaryInv, [SummaryNext]_summaryVars PROVE SummaryInv'
  OBVIOUS
<1>1. FILE_LINES \in Nat
  BY SummaryAssumption
<1>2. CASE Open \/ PrintMetrics \/ UNCHANGED summaryVars
  BY <1>2 DEF Open, PrintMetrics, summaryVars, SummaryInv, SummaryTypeOK
<1>3. CASE ParseLine
  <2>1. /\ file \in Seq(Lines) /\ parsed \in Seq(FileResults) /\ unparseable \in Nat
        /\ Len(file) + Len(parsed) + unparseable <= FILE_LINES /\ file # <<>>
    BY <1>1, <1>3, Bounded DEF ParseLine, SummaryInv, SummaryTypeOK
  <2>2. /\ file' \in Seq(Lines) /\ Len(file') = Len(file) - 1 /\ Head(file) \in Lines
    BY <1>3, <2>1 DEF ParseLine
  <2>3. /\ parsed' \in Seq(FileResults) /\ unparseable' \in Nat
        /\ Len(parsed') + unparseable' <= Len(parsed) + unparseable + 1
    <3>1. CASE Head(file)[1] = "result"
      <4>1. Head(file)[2] \in FileResults
        BY <2>2, <3>1 DEF Lines
      <4>2. parsed' = Append(parsed, Head(file)[2]) /\ unparseable' = unparseable
        BY <1>3, <3>1 DEF ParseLine
      <4> QED
        BY <2>1, <4>1, <4>2
    <3>2. CASE Head(file)[1] # "result"
      BY <1>3, <2>1, <3>2 DEF ParseLine
    <3> QED
      BY <3>1, <3>2
  <2>4. Len(file') \in Nat /\ Len(parsed') \in Nat
        /\ Len(file') + Len(parsed') + unparseable' <= FILE_LINES
    BY <1>1, <2>1, <2>2, <2>3
  <2>5. /\ file' \in BoundedSeq(Lines, FILE_LINES)
        /\ parsed' \in BoundedSeq(FileResults, FILE_LINES)
        /\ unparseable' \in 0..FILE_LINES
    BY <1>1, <2>2, <2>3, <2>4, Bounded
  <2>6. summary' = "read"
    BY <1>3 DEF ParseLine
  <2> QED
    BY <2>2, <2>4, <2>5, <2>6 DEF SummaryInv, SummaryTypeOK
<1> QED
  BY <1>2, <1>3 DEF SummaryNext

LEMMA SummarySafe == SummaryInv => SummaryTypeOK /\ UngradedMovesNothing
<1> SUFFICES ASSUME SummaryInv PROVE SummaryTypeOK /\ UngradedMovesNothing
  OBVIOUS
<1>1. parsed \in Seq(FileResults)
  BY SummaryAssumption, Bounded DEF SummaryInv, SummaryTypeOK
<1> DEFINE all == FullMetrics(parsed)
           graded == FullMetrics(Graded(parsed))
<1>2. /\ all.overall = graded.overall
      /\ all.shape.accuracy = graded.shape.accuracy
      /\ all.shape.precision = graded.shape.precision
  BY <1>1, GradedTwice, GradedParts
<1> HIDE DEF all, graded
<1>3. SameMean(all.overall.accuracy, graded.overall.accuracy) /\ SameShape(all.shape, graded.shape)
  BY <1>2, Zenon DEF SameMean, SameShape
<1>4. UngradedMovesNothing
  BY <1>3, Zenon DEF UngradedMovesNothing, all, graded
<1> QED
  BY <1>4 DEF SummaryInv

-----------------------------------------------------------------------------
\* The binary.

\* An exit code of 0 freezes the outcome that earned it.
ExitInv ==
    exit = 0 =>
        /\ cmd = "probe" => probing = "passed"
        /\ cmd = "acceptance" => CorrectnessPass
        /\ cmd = "soak" => soak = "over" /\ Healthy
        /\ cmd = "staged" => staged = "done"

ServerInv ==
    /\ booting.self => IsProbe
    /\ SelfBootedServerIsRemoved

CliTyped ==
    /\ cmd \in CommandNames
    /\ booting \in [self : BOOLEAN, keep : BOOLEAN]
    /\ server \in {"none", "up", "kept", "removed"}
    /\ prepared \in BOOLEAN
    /\ exit \in {StillRunning} \cup Codes

CommandsInv ==
    /\ AcceptanceInv /\ QuestionsInv /\ StagedInv /\ SoakInv /\ LinkInv /\ WideAll
    /\ SoakTyped /\ ProbeTyped /\ SettleTyped /\ SummaryInv
    /\ ExitInv /\ ServerInv /\ CliTyped

LEMMA CommandsInits == CommandsInit => CommandsInv
<1> SUFFICES ASSUME CommandsInit PROVE CommandsInv
  OBVIOUS
<1>1. AcceptanceInv /\ QuestionsInv /\ StagedInv /\ SoakInv /\ LinkInv /\ WideAll
  BY AcceptanceInits, QuestionsInits, StagedInits, SoakInits, LinkInits, WideInits
     DEF CommandsInit
<1>5. SoakTyped /\ ProbeTyped /\ SettleTyped /\ SummaryInv
  BY SoakTypedInits, ProbeTypedInits, SettleTypedInits, SummaryInits DEF CommandsInit
<1>6. CliTyped
  BY DEF CommandsInit, CliTyped
<1>2. exit = StillRunning /\ (IsProbe \/ booting = [self |-> FALSE, keep |-> FALSE])
  BY DEF CommandsInit
<1>3. ExitInv
  BY <1>2 DEF ExitInv, StillRunning
<1>4. ServerInv
  BY <1>2 DEF ServerInv, SelfBootedServerIsRemoved
<1> QED
  BY <1>1, <1>3, <1>4, <1>5, <1>6 DEF CommandsInv

\* A step of the process is, for each command's module, a step of that module or none.
StepsOfModules ==
    /\ [AcceptanceNext]_AcceptanceVars
    /\ [SoakNext]_soakVars
    /\ [NamespaceWideNext]_wideVars
    /\ [StagedNext]_stagedVars
    /\ [SingleProbeNext]_probeVars
    /\ [QuestionsNext]_questionVars
    /\ [SummaryNext]_summaryVars

LEMMA ModulesStep == [CommandsNext]_allVars => StepsOfModules
<1> SUFFICES ASSUME [CommandsNext]_allVars PROVE StepsOfModules
  OBVIOUS
<1> USE DEF StepsOfModules, AcceptanceVars
<1>1. CASE StagedRuns
  BY <1>1 DEF StagedRuns
<1>2. CASE ProbeRuns
  BY <1>2 DEF ProbeRuns
<1>3. CASE Accepts(AcceptanceNext)
  BY <1>3 DEF Accepts
<1>4. CASE SoakRuns
  BY <1>4 DEF SoakRuns
<1>5. CASE WideRuns
  BY <1>5 DEF WideRuns
<1>6. CASE SummaryRuns
  BY <1>6 DEF SummaryRuns
<1>7. CASE BenchmarkRuns(QuestionsNext)
  BY <1>7 DEF BenchmarkRuns
<1>8. CASE SelfBoots \/ BenchmarkPrepares
  BY <1>8 DEF SelfBoots, BenchmarkPrepares
<1>9. CASE SelfBootFails \/ BenchmarkFails
  BY <1>9 DEF SelfBootFails, BenchmarkFails, Exits
<1>10. CASE Exiting
  BY <1>10 DEF Exiting, NoCommand, ProbeExits, StagedExits, AcceptanceExits, SoakExits, WideExits,
     SummaryExits, BenchmarkExits, Exits
<1>11. CASE Exited \/ UNCHANGED allVars
  BY <1>11 DEF Exited, allVars
<1> QED
  BY <1>1, <1>2, <1>3, <1>4, <1>5, <1>6, <1>7, <1>8, <1>9, <1>10, <1>11 DEF CommandsNext

\* While the process runs it has no exit code, and nothing of a command that exited moves.
RunStep ==
    /\ exit = StillRunning
    /\ UNCHANGED <<cmd, booting, exit>>

LEMMA RunStepKeeps ==
    ASSUME ServerInv, RunStep
    PROVE  ExitInv' /\ ServerInv'
<1>1. exit' = StillRunning /\ exit' # 0
  BY DEF RunStep, StillRunning
<1>2. ExitInv'
  BY <1>1 DEF ExitInv
<1>3. ServerInv'
  BY <1>1 DEF RunStep, ServerInv, SelfBootedServerIsRemoved, IsProbe
<1> QED
  BY <1>2, <1>3

\* Of the modules' state, what the invariant reads of a finished command.
Outcome == <<probing, failed, acc, soak, samples, opErrors, staged>>

LEMMA ExitStep ==
    ASSUME ServerInv, SelfBootFails \/ BenchmarkFails \/ Exiting
    PROVE  ExitInv' /\ ServerInv'
<1>0. UNCHANGED <<cmd, booting>> /\ UNCHANGED Outcome
  BY DEF SelfBootFails, BenchmarkFails, Exiting, NoCommand, ProbeExits, StagedExits,
     AcceptanceExits, SoakExits, WideExits, SummaryExits, BenchmarkExits, Exits, Outcome,
     probeVars, accVars, soakVars, stagedVars
<1>1. CASE SelfBootFails
  BY <1>0, <1>1 DEF SelfBootFails, Exits, ExitInv, ServerInv, IsProbe, SelfBootedServerIsRemoved
<1>2. CASE ProbeExits
  BY <1>0, <1>2 DEF ProbeExits, Exits, StopServer, ExitInv, ServerInv, IsProbe, Outcome,
     SelfBootedServerIsRemoved
<1>3. CASE StagedExits
  BY <1>0, <1>3 DEF StagedExits, Exits, StopServer, ExitInv, ServerInv, IsProbe, Outcome,
     SelfBootedServerIsRemoved
<1>4. CASE AcceptanceExits
  <2>1. exit' = 0 => CorrectnessPass
    BY <1>4 DEF AcceptanceExits, Exits, AllPass, CorrectnessPass
  <2>2. CorrectnessPass' = CorrectnessPass
    BY <1>0 DEF CorrectnessPass, Outcome
  <2> QED
    BY <1>0, <1>4, <2>1, <2>2 DEF AcceptanceExits, ExitInv, ServerInv, IsProbe,
       SelfBootedServerIsRemoved
<1>5. CASE SoakExits
  <2>1. exit' = 0 => soak = "over" /\ Healthy
    BY <1>5 DEF SoakExits, Exits
  <2>2. soak' = soak /\ Healthy' = Healthy
    BY <1>0 DEF Healthy, LatencyOk, RssOk, Outcome
  <2> QED
    BY <1>0, <1>5, <2>1, <2>2 DEF SoakExits, ExitInv, ServerInv, IsProbe,
       SelfBootedServerIsRemoved
<1>6. CASE NoCommand \/ WideExits \/ SummaryExits \/ BenchmarkExits \/ BenchmarkFails
  <2>1. cmd \notin {"probe", "acceptance", "soak", "staged"}
    BY <1>6 DEF NoCommand, WideExits, SummaryExits, BenchmarkExits, BenchmarkFails
  <2> QED
    BY <1>0, <2>1 DEF ExitInv, ServerInv, IsProbe, SelfBootedServerIsRemoved
<1> QED
  BY <1>1, <1>2, <1>3, <1>4, <1>5, <1>6 DEF Exiting

LEMMA ProcessStep ==
    ASSUME ExitInv, ServerInv, [CommandsNext]_allVars
    PROVE  ExitInv' /\ ServerInv'
<1>1. CASE StagedRuns \/ ProbeRuns \/ Accepts(AcceptanceNext) \/ SoakRuns \/ WideRuns
           \/ SummaryRuns \/ BenchmarkRuns(QuestionsNext) \/ SelfBoots
           \/ BenchmarkPrepares
  <2>1. RunStep
    BY <1>1 DEF StagedRuns, ProbeRuns, Accepts, SoakRuns, WideRuns, SummaryRuns, BenchmarkRuns,
       SelfBoots, BenchmarkPrepares, Running, RunStep, cliVars
  <2> QED
    BY <2>1, RunStepKeeps
<1>2. CASE SelfBootFails \/ BenchmarkFails \/ Exiting
  BY <1>2, ExitStep
<1>3. CASE Exited \/ UNCHANGED allVars
  <2>1. UNCHANGED <<cmd, booting, server, exit>> /\ UNCHANGED Outcome
    BY <1>3 DEF Exited, allVars, cliVars, Outcome, probeVars, accVars, soakVars, stagedVars
  <2>2. CorrectnessPass' = CorrectnessPass /\ Healthy' = Healthy
    BY <2>1 DEF CorrectnessPass, Healthy, LatencyOk, RssOk, Outcome
  <2> QED
    BY <2>1, <2>2 DEF ExitInv, ServerInv, SelfBootedServerIsRemoved, IsProbe, Outcome
<1> QED
  BY <1>1, <1>2, <1>3 DEF CommandsNext

LEMMA CliStep ==
    ASSUME CliTyped, [CommandsNext]_allVars
    PROVE  CliTyped'
<1> USE DEF CliTyped
<1>1. CASE StagedRuns \/ ProbeRuns \/ Accepts(AcceptanceNext) \/ SoakRuns \/ WideRuns
           \/ SummaryRuns \/ BenchmarkRuns(QuestionsNext)
  BY <1>1 DEF StagedRuns, ProbeRuns, Accepts, SoakRuns, WideRuns, SummaryRuns, BenchmarkRuns,
     cliVars
<1>2. CASE SelfBoots \/ BenchmarkPrepares
  BY <1>2 DEF SelfBoots, BenchmarkPrepares
<1>3. CASE SelfBootFails \/ BenchmarkFails \/ Exiting
  <2>1. UNCHANGED <<cmd, booting, prepared>> /\ exit' \in Codes
    BY <1>3 DEF SelfBootFails, BenchmarkFails, Exiting, NoCommand, ProbeExits, StagedExits,
       AcceptanceExits, SoakExits, WideExits, SummaryExits, BenchmarkExits, Exits, Codes
  <2>2. server' \in {server, "removed"}
    BY <1>3 DEF SelfBootFails, BenchmarkFails, Exiting, NoCommand, ProbeExits, StagedExits,
       AcceptanceExits, SoakExits, WideExits, SummaryExits, BenchmarkExits, StopServer
  <2> QED
    BY <2>1, <2>2
<1>4. CASE Exited \/ UNCHANGED allVars
  BY <1>4 DEF Exited, allVars, cliVars
<1> QED
  BY <1>1, <1>2, <1>3, <1>4 DEF CommandsNext

LEMMA CommandsStep == CommandsInv /\ [CommandsNext]_allVars => CommandsInv'
BY ModulesStep, ProcessStep, CliStep, AcceptanceStep, QuestionsStep, StagedSteps, SoakStep,
   SoakTypedStep, LinkStep, ProbeTypedStep, WideStep, SettleTypedStep, SummaryStep
   DEF CommandsInv, StepsOfModules

LEMMA CommandsInvariant == CommandsSpec => []CommandsInv
BY CommandsInits, CommandsStep, PTL DEF CommandsSpec

-----------------------------------------------------------------------------
\* The theorems: each is a property of the modules' runs, for the whole binary.

LEMMA ExitSafe == CommandsInv => ExitZeroIsEarned
<1> SUFFICES ASSUME CommandsInv, exit = 0
             PROVE  /\ cmd = "probe" => "link" \in graph /\ readOk
                    /\ cmd = "acceptance" => ~broken
                    /\ cmd = "soak" => ~opErrors /\ samples.missed <= PROBE - FLOOR
                    /\ cmd = "staged" /\ ~opts.focus =>
                          rollup["total"] =
                              QuestionsCapped((IF opts.reuse THEN 1 ELSE GROUPS) * QUESTIONS)
  BY DEF ExitZeroIsEarned
<1>1. cmd = "probe" => "link" \in graph /\ readOk
  BY DEF CommandsInv, ExitInv, LinkInv
<1>2. cmd = "acceptance" => ~broken
  BY DEF CommandsInv, ExitInv, AcceptanceInv, CorrectnessPass
<1>3. cmd = "soak" => ~opErrors /\ samples.missed <= PROBE - FLOOR
  BY SoakSafe DEF CommandsInv, ExitInv, HealthyMeansProbed, Healthy
<1>4. cmd = "staged" /\ ~opts.focus =>
        rollup["total"] = QuestionsCapped((IF opts.reuse THEN 1 ELSE GROUPS) * QUESTIONS)
  BY StagedSafe DEF CommandsInv, ExitInv, QuestionsCapped, Least
<1> QED
  BY <1>1, <1>2, <1>3, <1>4

\* An exit code of 0 is earned: whatever the number of workers, samples, conversations and
\* polls, the outcome of the command is the one its check is there to find.
THEOREM ExitCodeCorrect == CommandsSpec => []ExitZeroIsEarned
BY CommandsInvariant, ExitSafe, PTL

\* A probe leaves no container of its own behind unless it was asked to.
THEOREM NoServerLeft == CommandsSpec => []SelfBootedServerIsRemoved
<1>1. CommandsInv => SelfBootedServerIsRemoved
  BY DEF CommandsInv, ServerInv
<1> QED
  BY CommandsInvariant, <1>1, PTL

\* Against a server that stops counting a closed connection within the pause between two
\* verbs, the throughput probe of an acceptance run stays under the connection cap, for
\* every number of workers that fits it once and every number of verbs.
THEOREM ConnectionsUnderTheCap == CommandsSpec => []UnderTheCap
<1>1. CommandsInv => UnderTheCap
  BY ProbeSafe DEF CommandsInv, AcceptanceInv
<1> QED
  BY CommandsInvariant, <1>1, PTL

\* It reports a verb clean exactly when it met no defect while it drove the verb.
THEOREM DefectsAreReported == CommandsSpec => []CleanMeansNoDefect
<1>1. CommandsInv => CleanMeansNoDefect
  BY ProbeSafe DEF CommandsInv, AcceptanceInv
<1> QED
  BY CommandsInvariant, <1>1, PTL

\* No key of an acceptance run is minted with another server's credentials.
THEOREM MintsReachTheirServer == CommandsSpec => []EveryMintReachesItsServer
<1>1. CommandsInv => EveryMintReachesItsServer
  BY AcceptanceSafe DEF CommandsInv
<1> QED
  BY CommandsInvariant, <1>1, PTL

\* The correctness verdict of an acceptance run loses no failed check.
THEOREM CorrectnessVerdict == CommandsSpec => []CorrectnessMeansNothingBroke
<1>1. CommandsInv => CorrectnessMeansNothingBroke
  BY AcceptanceSafe DEF CommandsInv
<1> QED
  BY CommandsInvariant, <1>1, PTL

\* A healthy soak had no more failures in any one probe than its floor forgives.
THEOREM HealthVerdict == CommandsSpec => []HealthyMeansProbed
<1>1. CommandsInv => HealthyMeansProbed
  BY SoakSafe DEF CommandsInv
<1> QED
  BY CommandsInvariant, <1>1, PTL

\* The verdict of the namespace-wide scenario is the server's scope, given that every
\* facet was derived in time.
THEOREM ScopeVerdict == CommandsSpec => []PassIsTheScope
<1>1. CommandsInv => PassIsTheScope
  BY WideSafe DEF CommandsInv
<1> QED
  BY CommandsInvariant, <1>1, PTL

\* Every question of a staged run is in its rollup once.
THEOREM RollupCorrect == CommandsSpec => []RollupAddsUp
<1>1. CommandsInv => RollupAddsUp
  BY StagedSafe DEF CommandsInv
<1> QED
  BY CommandsInvariant, <1>1, PTL

\* It is asked in a space that holds the turns of its conversation, if a space that is
\* reused held those of the first.
THEOREM StagedSpaceCorrect == CommandsSpec => []AskedWhereItsTurnsAre
<1>1. CommandsInv => AskedWhereItsTurnsAre
  BY StagedSafe DEF CommandsInv
<1> QED
  BY CommandsInvariant, <1>1, PTL

\* The heuristic grades of an LLM-judged run are counted in its report.
THEOREM FallbackCountCorrect == CommandsSpec => []FallbacksAreReported
<1>1. CommandsInv => FallbacksAreReported
  BY QuestionsSafe DEF CommandsInv
<1> QED
  BY CommandsInvariant, <1>1, PTL

\* A question no judge read moves neither the accuracy nor the precision of a report, for
\* every partial file.
THEOREM UngradedLeftOut == CommandsSpec => []UngradedMovesNothing
<1>1. CommandsInv => UngradedMovesNothing
  BY SummarySafe DEF CommandsInv
<1> QED
  BY CommandsInvariant, <1>1, PTL

\* The types of the binary and of every command it runs.
THEOREM CommandsTypeCorrect == CommandsSpec => []CommandsTypeOK
<1>1. CommandsInv => CommandsTypeOK
  <2> SUFFICES ASSUME CommandsInv PROVE CommandsTypeOK
    OBVIOUS
  <2>1. ThroughputTypeOK /\ AcceptanceTypeOK
    BY ProbeSafe DEF CommandsInv, AcceptanceInv
  <2>2. SoakTypeOK /\ SingleProbeTypeOK
    BY DEF CommandsInv, SoakTyped, ProbeTyped
  <2>3. NamespaceWideTypeOK
    BY WideTyped DEF CommandsInv
  <2>4. StagedTypeOK /\ QuestionsTypeOK /\ SummaryTypeOK
    BY StagedSafe, QuestionsSafe, SummarySafe DEF CommandsInv
  <2> QED
    BY <2>1, <2>2, <2>3, <2>4 DEF CommandsInv, CliTyped, CommandsTypeOK
<1> QED
  BY CommandsInvariant, <1>1, PTL
=============================================================================
