------------------------------ MODULE TierProofs ------------------------------
(***************************************************************************)
(* What the verdicts of the tiers and probes and the counts of the graders *)
(* are worth: of the soak run for every duration, sampling interval, probe *)
(* size and floor, of the namespace-wide scenario for every set of facets  *)
(* and questions, of the two probes for every number of conversations,     *)
(* turns, questions and polls, and of the judge's fallback count for every *)
(* number of questions in flight.                                          *)
(***************************************************************************)
EXTENDS Soak, NamespaceWide, SingleProbe, Staged, Questions, FiniteSetTheorems, TLAPS

LEMMA TierConstants ==
    /\ PROBE \in Nat /\ FLOOR \in 1..PROBE
    /\ Primary \in Facets /\ IsFiniteSet(Questions) /\ facetOf \in [Questions -> Facets]
    /\ \E q \in Questions : facetOf[q] # Primary
BY SoakAssumption, NamespaceWideAssumption

-----------------------------------------------------------------------------
\* The soak run.  A sample misses at least what failed in its probe; the least recall and
\* the most failures, of perhaps two samples, add up to no more than one probe.

ProbeCounts ==
    /\ turn \in Nat /\ hits \in Nat /\ missed \in Nat
    /\ soak = "encode" => hits = 0 /\ missed = 0
    /\ soak = "recall" => hits + missed <= turn /\ turn <= PROBE

SampleCounts ==
    /\ samples.recall \in Nat /\ samples.missed \in Nat
    /\ samples.recall + samples.missed <= PROBE

SoakInv == ProbeCounts /\ SampleCounts

LEMMA SoakInits == SoakInit => SoakInv
BY TierConstants DEF SoakInit, SoakInv, ProbeCounts, SampleCounts

LEMMA SampleTaken ==
    ASSUME SampleCounts, NEW recall \in Nat, NEW lost \in Nat, recall + lost <= PROBE,
           Sample(recall, lost)
    PROVE  SampleCounts'
<1>1. /\ samples'.recall = Minimum(samples.recall, recall)
      /\ samples'.missed = Maximum(samples.missed, lost)
  BY DEF Sample
<1> QED
  BY <1>1, TierConstants DEF SampleCounts, Minimum, Maximum

LEMMA SoakStep == SoakInv /\ [SoakNext]_soakVars => SoakInv'
<1> SUFFICES ASSUME SoakInv, [SoakNext]_soakVars PROVE SoakInv'
  OBVIOUS
<1> USE DEF SoakInv
<1>1. CASE SoakConnects
  BY <1>1 DEF SoakConnects, ProbeCounts, SampleCounts
<1>2. CASE Batch
  BY <1>2 DEF Batch, ProbeCounts, SampleCounts
<1>3. CASE NotDue
  BY <1>3 DEF NotDue, ProbeCounts, SampleCounts
<1>4. CASE ProbeStarts
  BY <1>4 DEF ProbeStarts, ProbeCounts, SampleCounts
<1>5. CASE ProbeEncodes
  BY <1>5 DEF ProbeEncodes, ProbeCounts, SampleCounts
<1>6. CASE ProbeEncodeFails
  BY <1>6, TierConstants DEF ProbeEncodeFails, ProbeCounts, SampleCounts
<1>7. CASE ProbeEncoded
  BY <1>7, TierConstants DEF ProbeEncoded, ProbeCounts, SampleCounts
<1>8. CASE ProbeRecalls
  <2>0. hits \in Nat /\ missed \in Nat
    BY DEF ProbeCounts
  <2>1. \/ hits' \in {hits, hits + 1} /\ missed' = missed
        \/ hits' = hits /\ missed' = missed + 1
    BY <1>8, <2>0 DEF ProbeRecalls
  <2>2. /\ turn < PROBE /\ turn' = turn + 1 /\ soak = "recall" /\ UNCHANGED <<soak, samples>>
    BY <1>8 DEF ProbeRecalls
  <2>3. /\ turn \in Nat /\ hits + missed <= turn /\ PROBE \in Nat
        /\ hits \in Nat /\ missed \in Nat
    BY <2>2, TierConstants DEF ProbeCounts
  <2>4. turn' \in Nat /\ turn' <= PROBE /\ hits' + missed' <= turn'
    <3>1. turn' = turn + 1 /\ turn < PROBE
      BY <2>2
    <3>2. turn' \in Nat /\ turn' <= PROBE
      BY <2>3, <3>1
    <3>3. hits' + missed' <= turn'
      BY <2>0, <2>1, <2>3, <3>1
    <3> QED
      BY <3>2, <3>3
  <2> QED
    BY <2>0, <2>1, <2>2, <2>4 DEF ProbeCounts, SampleCounts
<1>9. CASE ProbeEnds
  <2>1. SampleCounts'
    BY <1>9, SampleTaken, TierConstants DEF ProbeEnds, ProbeCounts
  <2>2. ProbeCounts'
    BY <1>9 DEF ProbeEnds, Sample, ProbeCounts
  <2> QED
    BY <2>1, <2>2
<1>10. CASE SoakOver
  BY <1>10 DEF SoakOver, ProbeCounts, SampleCounts
<1>11. CASE IndexMarker
  BY <1>11 DEF IndexMarker, ProbeCounts, SampleCounts
<1>12. CASE UNCHANGED soakVars
  BY <1>12 DEF soakVars, ProbeCounts, SampleCounts
<1> QED
  BY <1>1, <1>2, <1>3, <1>4, <1>5, <1>6, <1>7, <1>8, <1>9, <1>10, <1>11, <1>12
     DEF SoakNext, RunSoak

LEMMA SoakSafe == SoakInv => HealthyMeansProbed
BY TierConstants DEF SoakInv, SampleCounts, HealthyMeansProbed, Healthy

\* The rest of its types.

LEMMA SoakBounds ==
    /\ DURATION \in Nat \ {0} /\ SAMPLE_EVERY \in Nat /\ PROBE \in Nat
    /\ Levels = {1, 3}
BY SoakAssumption DEF Levels

\* A batch is sampled at most once, and starts before the duration is over.
SoakClock ==
    /\ samples.taken <= elapsed
    /\ soak \in {"due", "encode", "recall"} => samples.taken < elapsed /\ samples.taken < DURATION
    /\ samples.p99.n <= samples.taken /\ samples.rss.n <= samples.taken

SoakTyped == SoakTypeOK /\ SoakClock

LEMMA SoakTypedInits == SoakInit => SoakTyped
<1> SUFFICES ASSUME SoakInit PROVE SoakTyped
  OBVIOUS
<1>1. NoTrend \in Trends /\ NoTrend.n = 0
  BY SoakBounds DEF NoTrend, Trends
<1>2. samples = [taken |-> 0, recall |-> PROBE, missed |-> 0, p99 |-> NoTrend, rss |-> NoTrend]
  BY DEF SoakInit
<1>3. /\ samples \in [taken : 0..DURATION, recall : 0..PROBE, missed : 0..PROBE,
                     p99 : Trends, rss : Trends]
      /\ samples.taken = 0 /\ samples.p99.n = 0 /\ samples.rss.n = 0
  BY <1>1, <1>2, SoakBounds
<1>4. SAMPLE_EVERY \in 0..DURATION + SAMPLE_EVERY + 1
  BY SoakBounds
<1>5. /\ soak = "connect" /\ elapsed = 0 /\ nextSample = SAMPLE_EVERY /\ opErrors = FALSE
      /\ window = 0 /\ copies = {} /\ sent = 0 /\ turn = 0 /\ hits = 0 /\ missed = 0
  BY DEF SoakInit
<1>6. SoakTypeOK
  <2>1. opErrors \in BOOLEAN /\ copies \subseteq Markers
    BY <1>5
  <2>2. elapsed \in 0..DURATION + 1 /\ sent \in 0..PROBE /\ turn \in 0..PROBE
        /\ hits \in 0..PROBE /\ missed \in 0..PROBE
    BY <1>5, SoakBounds
  <2>3. nextSample \in 0..DURATION + SAMPLE_EVERY + 1
    BY <1>4, <1>5
  <2>4. window \in {0} \cup Levels
    BY <1>5
  <2> QED
    BY <1>3, <1>5, <2>1, <2>2, <2>3, <2>4, Zenon DEF SoakTypeOK
<1>7. SoakClock
  BY <1>3, <1>5 DEF SoakClock
<1> QED
  BY <1>6, <1>7 DEF SoakTyped

LEMMA TrendTyped ==
    ASSUME NEW t \in Trends, NEW value \in {0} \cup Levels, t.n < DURATION
    PROVE  Extended(t, value) \in Trends /\ Extended(t, value).n \in {t.n, t.n + 1}
BY SoakBounds DEF Extended, Trends, Minimum, Maximum

LEMMA SampleTyped ==
    ASSUME SoakTyped, soak \in {"encode", "recall"}, NEW recall \in 0..PROBE, NEW lost \in 0..PROBE,
           Sample(recall, lost), elapsed' = elapsed
    PROVE  /\ samples' \in [taken : 0..DURATION, recall : 0..PROBE, missed : 0..PROBE,
                            p99 : Trends, rss : Trends]
           /\ window' = 0 /\ nextSample' \in 0..DURATION + SAMPLE_EVERY + 1
           /\ soak' = "batch"
           /\ SoakClock'
<1> USE SoakBounds
<1>1. PICK rss \in Scraped :
        samples' = [taken |-> samples.taken + 1,
                    recall |-> Minimum(samples.recall, recall),
                    missed |-> Maximum(samples.missed, lost),
                    p99 |-> Extended(samples.p99, window),
                    rss |-> Extended(samples.rss, rss)]
  BY DEF Sample
<1>2. /\ samples.taken \in Nat /\ samples.recall \in 0..PROBE /\ samples.missed \in 0..PROBE
      /\ samples.p99 \in Trends /\ samples.rss \in Trends /\ window \in {0} \cup Levels
      /\ elapsed \in 0..DURATION + 1
  BY DEF SoakTyped, SoakTypeOK
<1>3. /\ samples.taken < elapsed /\ samples.taken < DURATION
      /\ samples.p99.n <= samples.taken /\ samples.rss.n <= samples.taken
  BY DEF SoakTyped, SoakClock
<1>4. samples.p99.n \in Nat /\ samples.rss.n \in Nat
  BY <1>2 DEF Trends
<1>5. /\ samples'.p99 \in Trends /\ samples'.rss \in Trends
      /\ samples'.p99.n <= samples.taken + 1 /\ samples'.rss.n <= samples.taken + 1
  <2>1. samples.p99.n < DURATION /\ samples.rss.n < DURATION
    BY <1>2, <1>3, <1>4
  <2>2. /\ Extended(samples.p99, window) \in Trends /\ Extended(samples.rss, rss) \in Trends
        /\ Extended(samples.p99, window).n \in {samples.p99.n, samples.p99.n + 1}
        /\ Extended(samples.rss, rss).n \in {samples.rss.n, samples.rss.n + 1}
    BY <1>2, <2>1, TrendTyped DEF Scraped
  <2>3. samples'.p99 = Extended(samples.p99, window) /\ samples'.rss = Extended(samples.rss, rss)
    BY <1>1
  <2> QED
    BY <1>2, <1>3, <1>4, <2>2, <2>3
<1>6. Minimum(samples.recall, recall) \in 0..PROBE /\ Maximum(samples.missed, lost) \in 0..PROBE
  BY <1>2 DEF Minimum, Maximum
<1>7. samples.taken + 1 \in 0..DURATION
  BY <1>2, <1>3
<1>8. samples' \in [taken : 0..DURATION, recall : 0..PROBE, missed : 0..PROBE,
                    p99 : Trends, rss : Trends]
  BY <1>1, <1>5, <1>6, <1>7
<1>9. samples'.taken = samples.taken + 1
  BY <1>1
<1>10. window' = 0 /\ nextSample' = elapsed + SAMPLE_EVERY /\ soak' = "batch"
  BY DEF Sample
<1> QED
  BY <1>2, <1>3, <1>5, <1>8, <1>9, <1>10 DEF SoakClock

LEMMA SoakTypedStep == SoakInv /\ SoakTyped /\ [SoakNext]_soakVars => SoakTyped'
<1> SUFFICES ASSUME SoakInv, SoakTyped, [SoakNext]_soakVars PROVE SoakTyped'
  OBVIOUS
<1> USE SoakBounds DEF SoakTyped, SoakTypeOK, SoakClock
<1>1. CASE SoakConnects
  BY <1>1 DEF SoakConnects
<1>2. CASE Batch
  <2>1. PICK level \in {0} \cup Levels, failed \in BOOLEAN :
          /\ soak = "batch"
          /\ elapsed < DURATION
          /\ soak' = "due"
          /\ elapsed' \in {elapsed + 1, DURATION + 1}
          /\ window' = Maximum(level, window)
          /\ opErrors' = (opErrors \/ failed)
          /\ UNCHANGED <<nextSample, copies, sent, turn, hits, missed, samples>>
    BY <1>2 DEF Batch
  <2>2. window' \in {0} \cup Levels
    BY <2>1 DEF Maximum
  <2>3. opErrors' \in BOOLEAN
    BY <2>1
  <2>4. elapsed' \in 0..DURATION + 1 /\ elapsed' > elapsed
    BY <2>1
  <2>5. samples.taken \in Nat /\ samples.taken <= elapsed /\ elapsed \in Nat
    OBVIOUS
  <2>6. samples.taken < elapsed' /\ samples.taken < DURATION
    BY <2>1, <2>4, <2>5
  <2> QED
    BY <2>1, <2>2, <2>3, <2>4, <2>6
<1>3. CASE NotDue
  BY <1>3 DEF NotDue
<1>4. CASE ProbeStarts
  BY <1>4 DEF ProbeStarts
<1>5. CASE ProbeEncodes
  BY <1>5 DEF ProbeEncodes, Maximum
<1>6. CASE ProbeEncodeFails
  BY <1>6, SoakBounds DEF ProbeEncodeFails
<1>7. CASE ProbeEncoded
  BY <1>7 DEF ProbeEncoded
<1>8. CASE ProbeRecalls
  <2>1. /\ turn < PROBE /\ turn' = turn + 1 /\ soak = "recall"
        /\ UNCHANGED <<soak, elapsed, nextSample, opErrors, window, copies, sent, samples>>
        /\ \/ hits' \in {hits, hits + 1} /\ missed' = missed
           \/ hits' = hits /\ missed' = missed + 1
    BY <1>8 DEF ProbeRecalls
  <2>2. hits + missed <= turn /\ hits \in Nat /\ missed \in Nat /\ turn \in Nat
    BY <2>1 DEF SoakInv, ProbeCounts
  <2>3. hits' \in 0..PROBE /\ missed' \in 0..PROBE /\ turn' \in 0..PROBE
    BY <2>1, <2>2
  <2> QED
    BY <2>1, <2>3
<1>9. CASE ProbeEnds
  <2>1. soak = "recall" /\ Sample(hits, missed)
        /\ UNCHANGED <<elapsed, opErrors, copies, sent, turn, hits, missed>>
    BY <1>9 DEF ProbeEnds
  <2>2. hits \in 0..PROBE /\ missed \in 0..PROBE
    OBVIOUS
  <2>3. /\ samples' \in [taken : 0..DURATION, recall : 0..PROBE, missed : 0..PROBE,
                         p99 : Trends, rss : Trends]
        /\ window' = 0 /\ nextSample' \in 0..DURATION + SAMPLE_EVERY + 1
        /\ soak' = "batch"
        /\ SoakClock'
    <3> HIDE DEF SoakTyped, SoakTypeOK, SoakClock
    <3> QED
      BY <2>1, <2>2, SampleTyped
  <2> QED
    BY <2>1, <2>3
<1>10. CASE SoakOver
  BY <1>10 DEF SoakOver
<1>11. CASE IndexMarker
  <2>1. PICK k \in 1..sent :
          /\ copies' = copies \cup {k}
          /\ UNCHANGED <<soak, elapsed, nextSample, opErrors, window, sent, turn, hits, missed,
                         samples>>
    BY <1>11 DEF IndexMarker
  <2>2. copies' \subseteq Markers
    BY <2>1 DEF Markers
  <2> QED
    BY <2>1, <2>2
<1>12. CASE UNCHANGED soakVars
  BY <1>12 DEF soakVars
<1> QED
  BY <1>1, <1>2, <1>3, <1>4, <1>5, <1>6, <1>7, <1>8, <1>9, <1>10, <1>11, <1>12
     DEF SoakNext, RunSoak

-----------------------------------------------------------------------------
\* The single-pair probe.

LinkInv ==
    /\ writeOk => "link" \in graph
    /\ probing = "passed" => writeOk /\ readOk

LEMMA LinkInits == SingleProbeInit => LinkInv
BY DEF SingleProbeInit, LinkInv

LEMMA LinkStep == LinkInv /\ [SingleProbeNext]_probeVars => LinkInv'
<1> SUFFICES ASSUME LinkInv, [SingleProbeNext]_probeVars PROVE LinkInv'
  OBVIOUS
<1>1. CASE PollGraph
  <2>1. UNCHANGED graph /\ UNCHANGED readOk /\ probing' \in {"graph", "read"}
    BY <1>1 DEF PollGraph
  <2>2. UNCHANGED writeOk \/ writeOk' = WriteOk(graph)
    BY <1>1 DEF PollGraph
  <2>3. WriteOk(graph) => "link" \in graph
    BY DEF WriteOk
  <2>4. writeOk' => "link" \in graph'
    BY <2>1, <2>2, <2>3 DEF LinkInv
  <2> QED
    BY <2>1, <2>4 DEF LinkInv
<1>2. CASE ProbeConnects \/ ProbeWrites \/ ProbeReads \/ ProbeCloses \/ ProbeFails
  BY <1>2 DEF ProbeConnects, ProbeWrites, ProbeReads, ProbeCloses, ProbeFails, LinkInv
<1>3. CASE TierExtracts
  BY <1>3 DEF TierExtracts, LinkInv
<1>4. CASE UNCHANGED probeVars
  BY <1>4 DEF probeVars, LinkInv
<1> QED
  BY <1>1, <1>2, <1>3, <1>4 DEF SingleProbeNext, SingleProbeStep

\* Its types: the last poll ends the polling.
ProbeTyped ==
    /\ SingleProbeTypeOK
    /\ probing \in {"connect", "write", "graph"} => graphPolls < POLL_ATTEMPTS

LEMMA ProbeTypedInits == SingleProbeInit => ProbeTyped
<1> SUFFICES ASSUME SingleProbeInit PROVE ProbeTyped
  OBVIOUS
<1>1. {durable, writeOk, readOk} \subseteq BOOLEAN
  BY Zenon DEF SingleProbeInit
<1>2. graphPolls \in 0..POLL_ATTEMPTS /\ graphPolls < POLL_ATTEMPTS
  BY SingleProbeAssumption DEF SingleProbeInit
<1> QED
  BY <1>1, <1>2 DEF SingleProbeInit, ProbeTyped, SingleProbeTypeOK

LEMMA ProbeTypedStep == ProbeTyped /\ [SingleProbeNext]_probeVars => ProbeTyped'
<1> SUFFICES ASSUME ProbeTyped, [SingleProbeNext]_probeVars PROVE ProbeTyped'
  OBVIOUS
<1> USE SingleProbeAssumption DEF ProbeTyped, SingleProbeTypeOK
<1>1. CASE ProbeConnects
  BY <1>1 DEF ProbeConnects
<1>2. CASE ProbeWrites
  BY <1>2 DEF ProbeWrites
<1>3. CASE TierExtracts
  BY <1>3 DEF TierExtracts, Facts
<1>4. CASE PollGraph
  <2>1. /\ probing = "graph" /\ graphPolls' = graphPolls + 1 /\ seen' = graph
        /\ UNCHANGED <<durable, graph, readOk>>
        /\ \/ probing' = "read" /\ writeOk' = WriteOk(graph)
           \/ graphPolls' < POLL_ATTEMPTS /\ UNCHANGED <<writeOk, probing>>
    BY <1>4 DEF PollGraph
  <2>2. writeOk' \in BOOLEAN
    BY <2>1 DEF WriteOk
  <2>3. graphPolls' \in 0..POLL_ATTEMPTS
    BY <2>1
  <2> QED
    BY <2>1, <2>2, <2>3
<1>5. CASE ProbeReads
  BY <1>5 DEF ProbeReads
<1>6. CASE ProbeCloses
  BY <1>6 DEF ProbeCloses
<1>7. CASE ProbeFails
  BY <1>7 DEF ProbeFails
<1>8. CASE UNCHANGED probeVars
  BY <1>8 DEF probeVars
<1> QED
  BY <1>1, <1>2, <1>3, <1>4, <1>5, <1>6, <1>7, <1>8 DEF SingleProbeNext, SingleProbeStep

-----------------------------------------------------------------------------
\* The namespace-wide scenario.

\* The questions a scope answers when every facet is derived.
WithinReach(reaches) == {q \in Questions : facetOf[q] = Primary \/ reaches}

\* With every facet derived, each scope has answered what it reaches of what it was asked;
\* and a pass or a fail came of the comparison of the two counts.
WideInv ==
    /\ spaceHits \subseteq asked /\ nsHits \subseteq nsAsked /\ nsAsked \subseteq asked
    /\ asked \subseteq Questions
    /\ inTime => derived = Facets /\ ingested = Facets
    /\ wide \in {"ingest", "settle"} => asked = {} /\ ~inTime
    /\ inTime => spaceHits = asked \cap WithinReach(leaks) /\ nsHits = nsAsked \cap WithinReach(spans)
    /\ wide \in {"pass", "fail"} => nsAsked = Questions
    /\ wide = "pass" => Cardinality(nsHits) > Cardinality(spaceHits)
    /\ wide = "fail" => ~(Cardinality(nsHits) > Cardinality(spaceHits))

\* The rest of its types.
FacetTypeOK ==
    /\ wide \in {"ingest", "settle", "ask", "pass", "fail", "error"}
    /\ derived \subseteq ingested /\ ingested \subseteq Facets
    /\ {inTime, spans, leaks} \subseteq BOOLEAN

WideAll == WideInv /\ FacetTypeOK

LEMMA WideInits == NamespaceWideInit => WideAll
BY DEF NamespaceWideInit, WideAll, WideInv, FacetTypeOK

LEMMA AnsweredInTime ==
    ASSUME NEW q \in Questions, derived = Facets, NEW reaches
    PROVE  Answered(q, reaches) <=> q \in WithinReach(reaches)
BY TierConstants DEF Answered, InScope, WithinReach

LEMMA WideStep == WideAll /\ [NamespaceWideNext]_wideVars => WideAll'
<1> SUFFICES ASSUME WideAll, [NamespaceWideNext]_wideVars PROVE WideAll'
  OBVIOUS
<1> USE DEF WideAll, WideInv, FacetTypeOK
<1>1. CASE Ingest
  BY <1>1 DEF Ingest
<1>2. CASE Ingested
  BY <1>2 DEF Ingested
<1>3. CASE SettlePoll
  BY <1>3 DEF SettlePoll
<1>4. CASE Settled
  BY <1>4 DEF Settled
<1>5. CASE AskInSpace
  <2>1. PICK q \in Questions \ asked :
          /\ wide = "ask"
          /\ asked = nsAsked
          /\ asked' = asked \cup {q}
          /\ spaceHits' = IF Answered(q, leaks) THEN spaceHits \cup {q} ELSE spaceHits
          /\ UNCHANGED <<wide, ingested, derived, settlePolls, inTime, nsAsked, nsHits, spans, leaks>>
    BY <1>5 DEF AskInSpace
  <2>2. inTime => (Answered(q, leaks) <=> q \in WithinReach(leaks))
    BY <2>1, AnsweredInTime
  <2>3. inTime => spaceHits' = asked' \cap WithinReach(leaks)
    BY <2>1, <2>2
  <2>4. WithinReach(leaks)' = WithinReach(leaks) /\ WithinReach(spans)' = WithinReach(spans)
    BY <2>1 DEF WithinReach
  <2> QED
    BY <2>1, <2>3, <2>4
<1>6. CASE AskInNamespace
  <2>1. PICK q \in asked \ nsAsked :
          /\ wide = "ask"
          /\ nsAsked' = nsAsked \cup {q}
          /\ nsHits' = IF Answered(q, spans) THEN nsHits \cup {q} ELSE nsHits
          /\ UNCHANGED <<wide, ingested, derived, settlePolls, inTime, asked, spaceHits, spans, leaks>>
    BY <1>6 DEF AskInNamespace
  <2>2. inTime => (Answered(q, spans) <=> q \in WithinReach(spans))
    BY <2>1, AnsweredInTime
  <2>3. inTime => nsHits' = nsAsked' \cap WithinReach(spans)
    BY <2>1, <2>2
  <2>4. WithinReach(leaks)' = WithinReach(leaks) /\ WithinReach(spans)' = WithinReach(spans)
    BY <2>1 DEF WithinReach
  <2> QED
    BY <2>1, <2>3, <2>4
<1>7. CASE Judgement
  BY <1>7 DEF Judgement, WithinReach
<1>8. CASE WideFails
  BY <1>8 DEF WideFails, WithinReach
<1>9. CASE DeriveFacet
  BY <1>9 DEF DeriveFacet, WithinReach
<1>10. CASE UNCHANGED wideVars
  BY <1>10 DEF wideVars, WithinReach
<1> QED
  BY <1>1, <1>2, <1>3, <1>4, <1>5, <1>6, <1>7, <1>8, <1>9, <1>10
     DEF NamespaceWideNext, RunWide

LEMMA MoreHits ==
    ASSUME NEW S \in SUBSET Questions, NEW T \in SUBSET Questions, T \subseteq S
    PROVE  /\ ~(Cardinality(T) > Cardinality(S))
           /\ (Cardinality(S) > Cardinality(T) <=> S # T)
<1>1. IsFiniteSet(S) /\ IsFiniteSet(T)
  BY TierConstants, FS_Subset
<1>2. /\ Cardinality(S) \in Nat /\ Cardinality(T) \in Nat /\ Cardinality(T) <= Cardinality(S)
      /\ Cardinality(T) = Cardinality(S) => S = T
  BY <1>1, FS_Subset, FS_CardinalityType
<1> QED
  BY <1>2

LEMMA WideSafe == WideAll => PassIsTheScope
<1> SUFFICES ASSUME WideAll PROVE PassIsTheScope
  OBVIOUS
<1> USE DEF WideAll, WideInv, FacetTypeOK
<1>1. SUFFICES ASSUME inTime, wide \in {"pass", "fail"} PROVE wide = "pass" <=> spans /\ ~leaks
  BY DEF PassIsTheScope
<1>2. nsHits = WithinReach(spans) /\ spaceHits = WithinReach(leaks)
  BY <1>1 DEF WithinReach
<1>3. PICK q \in Questions : facetOf[q] # Primary
  BY TierConstants
<1>4. CASE spans /\ ~leaks
  <2>1. spaceHits \subseteq nsHits /\ q \in nsHits \ spaceHits
    BY <1>2, <1>3, <1>4 DEF WithinReach
  <2> QED
    BY <1>1, <1>4, <2>1, MoreHits
<1>5. CASE ~(spans /\ ~leaks)
  <2>1. nsHits \subseteq spaceHits
    BY <1>2, <1>5 DEF WithinReach
  <2> QED
    BY <1>1, <1>5, <2>1, MoreHits
<1> QED
  BY <1>4, <1>5

\* The last of its types.
SettleTyped == settlePolls \in 0..SETTLE_POLLS

LEMMA SettleTypedInits == NamespaceWideInit => SettleTyped
BY NamespaceWideAssumption DEF NamespaceWideInit, SettleTyped

LEMMA SettleTypedStep == SettleTyped /\ [NamespaceWideNext]_wideVars => SettleTyped'
BY NamespaceWideAssumption DEF SettleTyped, NamespaceWideNext, RunWide, Ingest, Ingested,
   SettlePoll, Settled, AskInSpace, AskInNamespace, Judgement, WideFails, DeriveFacet, wideVars

LEMMA WideTyped == WideAll /\ SettleTyped => NamespaceWideTypeOK
BY DEF WideAll, WideInv, FacetTypeOK, SettleTyped, NamespaceWideTypeOK

-----------------------------------------------------------------------------
(***************************************************************************)
(* The staged probe asks what its options allow, asks it where the turns   *)
(* are, and puts each question into the rollup once.                       *)
(***************************************************************************)
LEMMA StagedConstants ==
    /\ GROUPS \in Nat \ {0} /\ TURNS \in Nat \ {0} /\ QUESTIONS \in Nat \ {0}
    /\ DRAIN_ATTEMPTS \in Nat \ {0}
    /\ LIMITS \subseteq Nat
    /\ GROUPS * QUESTIONS \in Nat
<1>1. GROUPS \in Nat \ {0} /\ TURNS \in Nat \ {0} /\ QUESTIONS \in Nat \ {0}
      /\ DRAIN_ATTEMPTS \in Nat \ {0}
  BY StagedAssumption
<1>2. GROUPS * QUESTIONS \in Nat
  BY <1>1
<1>3. NoLimit \in Nat
  BY <1>2 DEF NoLimit
<1>4. LIMITS \subseteq Nat
  BY <1>3, StagedAssumption
<1> QED
  BY <1>1, <1>2, <1>4

LEMMA Times ==
    ASSUME NEW g \in Nat
    PROVE  /\ g * QUESTIONS \in Nat
           /\ (g + 1) * QUESTIONS = g * QUESTIONS + QUESTIONS
           /\ g <= GROUPS => g * QUESTIONS <= GROUPS * QUESTIONS
BY StagedConstants

\* The questions of the conversations before the current one.
Before == (group - 1) * QUESTIONS

Least(m, n) == IF m < n THEN m ELSE n

-----------------------------------------------------------------------------
\* Every part of the state but the rollup.
SpaceTypeOK ==
    /\ staged \in {"start", "group", "write", "barrier", "poll", "count", "health", "read",
                   "close", "done", "error"}
    /\ opts \in [reuse : BOOLEAN, focus : BOOLEAN, limit : LIMITS, fits : BOOLEAN]
    /\ group \in 1..GROUPS + 1
    /\ acked \in 0..TURNS /\ extracted \in 0..acked /\ facts \subseteq 1..extracted
    /\ drains \in 0..DRAIN_ATTEMPTS
    /\ caughtUp \in BOOLEAN
    /\ counted \in 0..TURNS
    /\ reads \in 0..QUESTIONS

InConversation == staged \in {"write", "barrier", "poll", "count", "health", "read", "close"}

\* A conversation under way is one of the benchmark; the turns are stored from the barrier
\* on, unless the space the caller named lacks some; a run that reuses a space has no second conversation.
SpaceInv ==
    /\ InConversation => group <= GROUPS
    /\ staged \in {"barrier", "poll", "count", "health", "read"} /\ opts.fits => acked = TURNS
    /\ opts.reuse /\ (InConversation \/ staged \in {"start", "group"}) => group = 1
    /\ staged = "start" => group = 1
    /\ opts.focus => staged \in {"start", "group", "close", "done", "error"}
    /\ staged \in {"write", "barrier", "poll", "count", "health"} => reads = 0

RollupTyped == rollup \in [{"total"} \cup Buckets -> Nat]

\* The questions asked so far are those of the conversations so far, up to the cap.
AskedInv ==
    /\ staged = "start" => rollup["total"] = 0
    /\ ~opts.focus /\ staged = "group" => rollup["total"] = Least(Before, opts.limit)
    /\ ~opts.focus /\ staged \in {"write", "barrier", "poll", "count", "health", "read"} =>
          rollup["total"] = Least(Before + reads, opts.limit)
    /\ ~opts.focus /\ staged = "close" => rollup["total"] = Least(group * QUESTIONS, opts.limit)
    /\ ~opts.focus /\ staged = "done" =>
          rollup["total"] = Least((IF opts.reuse THEN 1 ELSE GROUPS) * QUESTIONS, opts.limit)
    /\ opts.focus => rollup["total"] = 0
    /\ rollup["total"] <= GROUPS * QUESTIONS

StagedInv == SpaceTypeOK /\ SpaceInv /\ RollupTyped /\ RollupAddsUp /\ AskedInv

LEMMA StagedInits == StagedInit => StagedInv
<1> SUFFICES ASSUME StagedInit PROVE StagedInv
  OBVIOUS
<1>1. SpaceTypeOK
  <2>1. /\ acked \in 0..TURNS /\ extracted \in 0..acked /\ facts \subseteq 1..extracted
        /\ group \in 1..GROUPS + 1
    BY StagedConstants DEF StagedInit
  <2>2. drains \in 0..DRAIN_ATTEMPTS /\ counted \in 0..TURNS /\ reads \in 0..QUESTIONS
    BY StagedConstants DEF StagedInit
  <2>3. opts \in [reuse : BOOLEAN, focus : BOOLEAN, limit : LIMITS, fits : BOOLEAN] /\ caughtUp \in BOOLEAN
    BY DEF StagedInit
  <2> QED
    BY <2>1, <2>2, <2>3, Zenon DEF StagedInit, SpaceTypeOK
<1>2. SpaceInv
  BY DEF StagedInit, SpaceInv, InConversation
<1>3. RollupTyped /\ RollupAddsUp /\ AskedInv
  BY StagedConstants DEF StagedInit, RollupTyped, RollupAddsUp, AskedInv, Buckets
<1> QED
  BY <1>1, <1>2, <1>3 DEF StagedInv

-----------------------------------------------------------------------------
LEMMA SpaceStep ==
    ASSUME SpaceTypeOK, SpaceInv, [StagedNext]_stagedVars
    PROVE  SpaceTypeOK' /\ SpaceInv'
<1> USE StagedConstants DEF SpaceTypeOK, SpaceInv, InConversation
<1>1. CASE Load
  BY <1>1 DEF Load, Stays
<1>2. CASE RunOver
  BY <1>2 DEF RunOver, Stays
<1>3. CASE ConnectSpace
  <2>1. /\ acked' \in 0..TURNS /\ extracted' \in 0..acked' /\ facts' \subseteq 1..extracted'
        /\ opts.reuse /\ opts.fits /\ group = 1 => acked' = TURNS
    BY <1>3 DEF ConnectSpace
  <2>2. /\ staged' \in {"close", "poll", "write"} /\ group <= GROUPS /\ staged = "group"
        /\ opts.focus => staged' = "close"
        /\ staged' = "poll" => opts.reuse
        /\ drains' = 0 /\ caughtUp' = FALSE /\ counted' = 0 /\ reads' = 0
        /\ UNCHANGED <<opts, group, rollup>>
    BY <1>3 DEF ConnectSpace
  <2>3. SpaceTypeOK'
    <3>1. drains' \in 0..DRAIN_ATTEMPTS /\ counted' \in 0..TURNS /\ reads' \in 0..QUESTIONS
      BY <2>2
    <3>2. caughtUp' \in BOOLEAN
      BY <2>2, Zenon
    <3>3. /\ opts' \in [reuse : BOOLEAN, focus : BOOLEAN, limit : LIMITS, fits : BOOLEAN]
          /\ group' \in 1..GROUPS + 1
      BY <2>2
    <3> QED
      BY <2>1, <2>2, <3>1, <3>2, <3>3, Zenon DEF SpaceTypeOK
  <2>4. SpaceInv'
    BY <2>1, <2>2
  <2> QED
    BY <2>3, <2>4
<1>4. CASE EncodeTurn
  BY <1>4 DEF EncodeTurn
<1>5. CASE TurnsStored
  BY <1>5 DEF TurnsStored, Stays
<1>6. CASE BarrierReturns
  BY <1>6 DEF BarrierReturns, Stays
<1>7. CASE DrainPoll
  <2>1. /\ staged = "poll" /\ drains' \in 0..DRAIN_ATTEMPTS /\ caughtUp' \in BOOLEAN
        /\ staged' \in {"count", "poll"}
        /\ UNCHANGED <<opts, group, acked, extracted, facts, counted, reads, rollup>>
    BY <1>7 DEF DrainPoll
  <2> QED
    BY <2>1
<1>8. CASE CountTurn
  BY <1>8 DEF CountTurn
<1>9. CASE Counted
  BY <1>9 DEF Counted, Stays
<1>16. CASE HealthScraped
  BY <1>16 DEF HealthScraped, Stays
<1>10. CASE Ask
  BY <1>10 DEF Ask
<1>11. CASE AllAsked
  BY <1>11 DEF AllAsked, Stays
<1>12. CASE CloseSpace
  BY <1>12 DEF CloseSpace
<1>13. CASE OperationFails
  BY <1>13 DEF OperationFails, Stays
<1>14. CASE ExtractTurn
  <2>1. /\ extracted' = extracted + 1 /\ extracted < acked
        /\ facts' \subseteq facts \cup {extracted + 1}
        /\ UNCHANGED <<staged, opts, group, acked, drains, caughtUp, counted, reads, rollup>>
    BY <1>14 DEF ExtractTurn
  <2>2. facts' \subseteq 1..extracted'
    BY <2>1
  <2> QED
    BY <2>1, <2>2
<1>15. CASE UNCHANGED stagedVars
  BY <1>15 DEF stagedVars
<1> QED
  BY <1>1, <1>2, <1>3, <1>4, <1>5, <1>6, <1>7, <1>8, <1>9, <1>10, <1>11, <1>12, <1>13, <1>14,
     <1>15, <1>16 DEF StagedNext, StagedStep

-----------------------------------------------------------------------------
\* One question moves the rollup by itself and by the one bucket it belongs to.

LEMMA OneBucket ==
    ASSUME NEW verdict, NEW found, NEW supported
    PROVE  \E b \in Buckets : Bucket(verdict, found, supported) = {b}
BY DEF Bucket, Buckets

LEMMA AskStep ==
    ASSUME StagedInv, Ask
    PROVE  /\ RollupTyped' /\ RollupAddsUp'
           /\ rollup'["total"] = rollup["total"] + 1
           /\ reads' = reads + 1 /\ reads < QUESTIONS /\ ~Capped
           /\ staged = "read" /\ UNCHANGED <<staged, opts, group>>
<1>1. PICK verdict \in {"Correct", "Partial", "Incorrect"}, found \in BOOLEAN,
           supported \in {"yes", "no", "unknown"} :
        /\ staged = "read"
        /\ reads < QUESTIONS /\ ~Capped
        /\ reads' = reads + 1
        /\ rollup' = [b \in DOMAIN rollup |->
                        IF b = "total" \/ b \in Bucket(verdict, found, supported)
                        THEN rollup[b] + 1 ELSE rollup[b]]
        /\ UNCHANGED <<staged, opts, group, acked, extracted, facts, drains, caughtUp, counted>>
  BY DEF Ask
<1>2. PICK bucket \in Buckets : Bucket(verdict, found, supported) = {bucket}
  BY OneBucket
<1>3. rollup \in [{"total"} \cup Buckets -> Nat]
  BY DEF StagedInv, RollupTyped
<1>4. rollup' = [b \in {"total"} \cup Buckets |->
                   IF b = "total" \/ b = bucket THEN rollup[b] + 1 ELSE rollup[b]]
  BY <1>1, <1>2, <1>3
<1>5. RollupTyped'
  BY <1>3, <1>4 DEF RollupTyped
<1>6. RollupAddsUp'
  BY <1>3, <1>4 DEF StagedInv, RollupAddsUp, Buckets
<1> QED
  BY <1>1, <1>3, <1>4, <1>5, <1>6

LEMMA RollupStep ==
    ASSUME StagedInv, [StagedNext]_stagedVars
    PROVE  RollupTyped' /\ RollupAddsUp'
<1>1. CASE Ask
  BY <1>1, AskStep
<1>2. CASE ~Ask
  <2>1. UNCHANGED rollup
    BY <1>2 DEF StagedNext, StagedStep, Load, RunOver, ConnectSpace, EncodeTurn, TurnsStored,
       BarrierReturns, ExtractTurn, DrainPoll, CountTurn, Counted, HealthScraped, AllAsked,
       CloseSpace, OperationFails, Stays, stagedVars
  <2> QED
    BY <2>1 DEF StagedInv, RollupTyped, RollupAddsUp
<1> QED
  BY <1>1, <1>2

-----------------------------------------------------------------------------
LEMMA AskedStep ==
    ASSUME StagedInv, [StagedNext]_stagedVars
    PROVE  AskedInv'
<1> DEFINE total == rollup["total"]
           limit == opts.limit
<1>0. SpaceTypeOK /\ SpaceInv /\ AskedInv /\ SpaceTypeOK' /\ SpaceInv'
  BY SpaceStep DEF StagedInv
<1>1. /\ total \in Nat /\ limit \in Nat /\ reads \in 0..QUESTIONS
      /\ group \in 1..GROUPS + 1 /\ group - 1 \in Nat
  <2>1. total \in Nat
    BY DEF StagedInv, RollupTyped
  <2>2. limit \in Nat
    BY <1>0, StagedConstants DEF SpaceTypeOK
  <2>3. group \in 1..GROUPS + 1 /\ reads \in 0..QUESTIONS
    BY <1>0, Zenon DEF SpaceTypeOK
  <2>4. group - 1 \in Nat
    BY <2>3, StagedConstants
  <2> QED
    BY <2>1, <2>2, <2>3, <2>4
<1>2. /\ Before \in Nat /\ group * QUESTIONS \in Nat
      /\ group * QUESTIONS = Before + QUESTIONS
      /\ Before <= GROUPS * QUESTIONS
      /\ group <= GROUPS => group * QUESTIONS <= GROUPS * QUESTIONS
      /\ group = 1 => Before = 0 /\ group * QUESTIONS = QUESTIONS
  <2>1. (group - 1) + 1 = group /\ group - 1 <= GROUPS
    BY <1>1, StagedConstants
  <2>2. 0 * QUESTIONS = 0 /\ 1 * QUESTIONS = QUESTIONS
    BY StagedConstants
  <2>3. Before \in Nat /\ group * QUESTIONS = Before + QUESTIONS /\ Before <= GROUPS * QUESTIONS
    BY <1>1, <2>1, Times DEF Before
  <2>4. group * QUESTIONS \in Nat /\ (group <= GROUPS => group * QUESTIONS <= GROUPS * QUESTIONS)
    BY <1>1, Times
  <2> QED
    BY <2>2, <2>3, <2>4 DEF Before
<1>3. Capped <=> total >= limit
  BY DEF Capped
<1> HIDE DEF Capped
<1>4. CASE Load
  BY <1>0, <1>1, <1>2, <1>4, StagedConstants DEF Load, Stays, AskedInv, SpaceInv, Least, Before
<1>5. CASE RunOver
  <2>1. /\ staged = "group" /\ staged' = "done" /\ UNCHANGED <<opts, rollup>>
        /\ group > GROUPS \/ total >= limit
    BY <1>3, <1>5 DEF RunOver, Stays
  <2>2. total <= GROUPS * QUESTIONS
    BY <1>0 DEF AskedInv
  <2>3. CASE opts.focus
    BY <1>0, <2>1, <2>2, <2>3 DEF AskedInv
  <2>4. CASE ~opts.focus
    <3>1. total = Least(Before, limit)
      BY <1>0, <2>1, <2>4 DEF AskedInv
    <3>2. opts.reuse => total = Least(1 * QUESTIONS, limit)
      BY <1>0, <1>1, <1>2, <2>1, <3>1, StagedConstants DEF SpaceInv, Least
    <3>3. total = Least(GROUPS * QUESTIONS, limit)
      <4>1. CASE total >= limit
        BY <1>1, <1>2, <3>1, <4>1, StagedConstants DEF Least
      <4>2. CASE group > GROUPS
        <5>1. group - 1 = GROUPS
          BY <1>1, <4>2, StagedConstants
        <5> QED
          BY <3>1, <5>1 DEF Before
      <4> QED
        BY <2>1, <4>1, <4>2
    <3> QED
      BY <2>1, <2>2, <2>4, <3>2, <3>3 DEF AskedInv
  <2> QED
    BY <2>3, <2>4
<1>6. CASE ConnectSpace
  <2>1. /\ staged = "group" /\ reads' = 0 /\ UNCHANGED <<opts, group, rollup>>
        /\ staged' \in {"close", "poll", "write"}
        /\ staged' = "close" => opts.focus
    BY <1>6 DEF ConnectSpace
  <2>2. Before' + reads' = Before
    BY <1>2, <2>1 DEF Before
  <2> QED
    BY <1>0, <2>1, <2>2 DEF AskedInv
<1>7. CASE Ask
  <2>1. /\ total' = total + 1 /\ reads' = reads + 1 /\ reads < QUESTIONS /\ ~(total >= limit)
        /\ staged = "read" /\ UNCHANGED <<staged, opts, group>>
    BY <1>3, <1>7, AskStep
  <2>2. ~opts.focus
    BY <1>0, <2>1 DEF SpaceInv
  <2>3. total = Least(Before + reads, limit) /\ group <= GROUPS
    BY <1>0, <2>1, <2>2 DEF AskedInv, SpaceInv, InConversation
  <2>4. total = Before + reads /\ Before' = Before
    BY <1>1, <1>2, <2>1, <2>3 DEF Least, Before
  <2>5. total' = Least(Before' + reads', limit')
    BY <1>1, <1>2, <2>1, <2>4 DEF Least
  <2>6. total' <= GROUPS * QUESTIONS
    BY <1>1, <1>2, <2>1, <2>3, <2>4, StagedConstants
  <2> QED
    BY <2>1, <2>2, <2>5, <2>6 DEF AskedInv
<1>8. CASE AllAsked
  <2>1. /\ staged = "read" /\ staged' = "close" /\ UNCHANGED <<opts, group, reads, rollup>>
        /\ reads = QUESTIONS \/ total >= limit
    BY <1>3, <1>8 DEF AllAsked, Stays
  <2>2. ~opts.focus
    BY <1>0, <2>1 DEF SpaceInv
  <2>3. total = Least(Before + reads, limit)
    BY <1>0, <2>1, <2>2 DEF AskedInv
  <2>4. total = Least(group * QUESTIONS, limit)
    BY <1>1, <1>2, <2>1, <2>3, StagedConstants DEF Least
  <2> QED
    BY <1>0, <2>1, <2>2, <2>4 DEF AskedInv
<1>9. CASE CloseSpace
  <2>1. /\ staged = "close" /\ group' = group + 1 /\ UNCHANGED <<opts, rollup>>
        /\ staged' = IF opts.focus \/ opts.reuse THEN "done" ELSE "group"
    BY <1>9 DEF CloseSpace
  <2>2. Before' = group * QUESTIONS
    <3>1. (group + 1) - 1 = group
      BY <1>1
    <3> QED
      BY <2>1, <3>1 DEF Before
  <2>3. opts.reuse => group = 1
    BY <1>0, <2>1 DEF SpaceInv, InConversation
  <2> QED
    BY <1>0, <2>1, <2>2, <2>3 DEF AskedInv
<1>10. CASE UNCHANGED <<opts, group, reads, rollup>> /\ (UNCHANGED staged \/ staged' = "error")
  BY <1>0, <1>10 DEF AskedInv, Before
<1>11. CASE UNCHANGED <<opts, group, reads, rollup>>
            /\ staged \in {"write", "barrier", "poll", "count", "health"}
            /\ staged' \in {"write", "barrier", "poll", "count", "health", "read"}
  BY <1>0, <1>11 DEF AskedInv, Before
<1>12. CASE EncodeTurn \/ OperationFails \/ ExtractTurn \/ CountTurn \/ UNCHANGED stagedVars
  BY <1>10, <1>12 DEF EncodeTurn, OperationFails, ExtractTurn, CountTurn, Stays, stagedVars
<1>13. CASE TurnsStored \/ BarrierReturns \/ DrainPoll \/ Counted \/ HealthScraped
  BY <1>11, <1>13 DEF TurnsStored, BarrierReturns, DrainPoll, Counted, HealthScraped, Stays
<1> QED
  BY <1>4, <1>5, <1>6, <1>7, <1>8, <1>9, <1>12, <1>13 DEF StagedNext, StagedStep

LEMMA StagedSteps == StagedInv /\ [StagedNext]_stagedVars => StagedInv'
BY SpaceStep, RollupStep, AskedStep DEF StagedInv

LEMMA StagedSafe ==
    StagedInv =>
        /\ StagedTypeOK /\ RollupAddsUp /\ AskedWhereItsTurnsAre
        /\ staged = "done" /\ ~opts.focus =>
              rollup["total"] = Least((IF opts.reuse THEN 1 ELSE GROUPS) * QUESTIONS, opts.limit)
<1> SUFFICES ASSUME StagedInv
             PROVE  /\ StagedTypeOK /\ RollupAddsUp /\ AskedWhereItsTurnsAre
                    /\ staged = "done" /\ ~opts.focus =>
                          rollup["total"] =
                              Least((IF opts.reuse THEN 1 ELSE GROUPS) * QUESTIONS, opts.limit)
  OBVIOUS
<1>1. rollup \in [{"total"} \cup Buckets -> 0..GROUPS * QUESTIONS]
  <2>1. rollup \in [{"total"} \cup Buckets -> Nat] /\ RollupAddsUp
        /\ rollup["total"] <= GROUPS * QUESTIONS
    BY DEF StagedInv, RollupTyped, AskedInv
  <2>2. ASSUME NEW b \in {"total"} \cup Buckets
        PROVE  rollup[b] \in 0..GROUPS * QUESTIONS
    BY <2>1, StagedConstants DEF RollupAddsUp, Buckets
  <2> QED
    BY <2>1, <2>2
<1>2. StagedTypeOK
  BY <1>1 DEF StagedInv, SpaceTypeOK, StagedTypeOK
<1> QED
  BY <1>2 DEF StagedInv, SpaceInv, AskedInv, AskedWhereItsTurnsAre

-----------------------------------------------------------------------------
(***************************************************************************)
(* The heuristic grades a report counts are those the heuristic gave.      *)
(***************************************************************************)
HeuristicallyGraded == {q \in InFlight : answer[q].heuristic}

\* The heuristic's mark comes with the grade and stays.
MarkInv ==
    \A q \in InFlight : answer[q].heuristic => ask[q] \in {"support", "attribute", "graded"}

CountInv == fallbacks = IF grading.llm THEN Cardinality(HeuristicallyGraded) ELSE 0

\* Nothing is graded after the report.
AllGradedInv ==
    reported # NotReported =>
        reported = fallbacks /\ \A q \in InFlight : ask[q] = "graded"

\* The types without the ranges of the two counts, which follow from CountInv.
StateTypeOK ==
    /\ grading \in [llm : BOOLEAN, retrieval_only : BOOLEAN]
    /\ ask \in [InFlight -> Stages]
    /\ tries \in [InFlight -> 0..MAX_RETRIES]
    /\ answer \in [InFlight -> Answers]

QuestionsInv == StateTypeOK /\ MarkInv /\ CountInv /\ AllGradedInv

LEMMA QuestionsConstants == IsFiniteSet(InFlight) /\ MAX_RETRIES \in Nat \ {0}
BY QuestionsAssumption

LEMMA QuestionsInits == QuestionsInit => QuestionsInv
<1> SUFFICES ASSUME QuestionsInit PROVE QuestionsInv
  OBVIOUS
<1>1. StateTypeOK
  BY QuestionsConstants DEF QuestionsInit, StateTypeOK, Stages, NoAnswer, Answers
<1>2. MarkInv /\ AllGradedInv
  BY DEF QuestionsInit, MarkInv, AllGradedInv, NoAnswer
<1>3. HeuristicallyGraded = {}
  BY DEF QuestionsInit, HeuristicallyGraded, NoAnswer
<1>4. CountInv
  BY <1>3, FS_EmptySet DEF QuestionsInit, CountInv
<1> QED
  BY <1>1, <1>2, <1>4 DEF QuestionsInv

\* A question that goes on to another stage is at it, and no other question moves.
LEMMA Moves ==
    ASSUME StateTypeOK, NEW q \in InFlight, NEW s \in Stages, GoesTo(q, s)
    PROVE  /\ ask' \in [InFlight -> Stages] /\ tries' \in [InFlight -> 0..MAX_RETRIES]
           /\ ask'[q] = s
           /\ \A p \in InFlight \ {q} : ask'[p] = ask[p]
BY QuestionsConstants DEF StateTypeOK, GoesTo

\* The mark of one more question makes one more.
LEMMA OneMoreMark ==
    ASSUME StateTypeOK, NEW q \in InFlight, ~answer[q].heuristic,
           NEW a \in Answers, a.heuristic, answer' = [answer EXCEPT ![q] = a]
    PROVE  Cardinality(HeuristicallyGraded') = Cardinality(HeuristicallyGraded) + 1
<1>1. HeuristicallyGraded' = HeuristicallyGraded \cup {q}
  BY DEF StateTypeOK, HeuristicallyGraded
<1>2. q \notin HeuristicallyGraded /\ HeuristicallyGraded \subseteq InFlight
  BY DEF HeuristicallyGraded
<1>3. IsFiniteSet(HeuristicallyGraded)
  BY <1>2, QuestionsConstants, FS_Subset
<1> QED
  BY <1>1, <1>2, <1>3, FS_AddElement

\* Steps that leave the marks and the counts alone.
Quiet(q) ==
    \/ Recalls(q) \/ RecallFails(q) \/ AttemptFails(q) \/ Synthesizes(q) \/ Verdict(q)
    \/ Supports(q) \/ Attributes(q)

LEMMA FailStageTyped ==
    ASSUME NEW correct, NEW found, NEW supported
    PROVE  FailStage(correct, found, supported) \in
               {"none", "abstention", "dropped", "missed", "unknown"}
BY DEF FailStage

LEMMA TwoFields ==
    ASSUME StateTypeOK, NEW q \in InFlight,
           NEW verdict \in {"none", "Correct", "Partial", "Incorrect", "NotJudged"},
           NEW b \in BOOLEAN
    PROVE  /\ [answer EXCEPT ![q].found = b, ![q].verdict = verdict] \in [InFlight -> Answers]
           /\ [answer EXCEPT ![q].failed = b, ![q].verdict = verdict] \in [InFlight -> Answers]
           /\ [answer EXCEPT ![q].verdict = verdict, ![q].heuristic = b] \in [InFlight -> Answers]
<1>0. answer \in [InFlight -> Answers]
  BY DEF StateTypeOK
<1>1. [answer EXCEPT ![q].found = b] \in [InFlight -> Answers]
  BY <1>0 DEF Answers
<1>2. [answer EXCEPT ![q].failed = b] \in [InFlight -> Answers]
  BY <1>0 DEF Answers
<1>3. [answer EXCEPT ![q].verdict = verdict] \in [InFlight -> Answers]
  BY <1>0 DEF Answers
<1>4. ASSUME NEW f \in [InFlight -> Answers]
      PROVE  /\ [f EXCEPT ![q].verdict = verdict] \in [InFlight -> Answers]
             /\ [f EXCEPT ![q].heuristic = b] \in [InFlight -> Answers]
  BY DEF Answers
<1>5. [[answer EXCEPT ![q].found = b] EXCEPT ![q].verdict = verdict] \in [InFlight -> Answers]
  BY <1>1, <1>4
<1>6. [[answer EXCEPT ![q].failed = b] EXCEPT ![q].verdict = verdict] \in [InFlight -> Answers]
  BY <1>2, <1>4
<1>7. [[answer EXCEPT ![q].verdict = verdict] EXCEPT ![q].heuristic = b] \in [InFlight -> Answers]
  BY <1>3, <1>4
<1> QED
  BY <1>5, <1>6, <1>7

LEMMA QuietStep ==
    ASSUME StateTypeOK, MarkInv, NEW q \in InFlight, Quiet(q)
    PROVE  /\ StateTypeOK' /\ MarkInv'
           /\ \A p \in InFlight : answer'[p].heuristic = answer[p].heuristic
           /\ ask[q] # "graded"
           /\ UNCHANGED <<grading, fallbacks, reported>>
<1> USE DEF StateTypeOK
<1>0. answer[q] \in Answers /\ Stages = {"recall", "synth", "verdict", "support", "attribute", "graded"}
  BY DEF Stages
<1>1. CASE Recalls(q)
  <2>1. PICK found \in BOOLEAN :
          /\ ask[q] = "recall"
          /\ answer' = [answer EXCEPT ![q].found = found,
                          ![q].verdict = IF grading.retrieval_only THEN "NotJudged" ELSE "none"]
          /\ GoesTo(q, IF grading.retrieval_only THEN "graded" ELSE "synth")
          /\ UNCHANGED <<grading, fallbacks, reported>>
    BY <1>1 DEF Recalls
  <2>2. answer' \in [InFlight -> Answers]
    <3>1. (IF grading.retrieval_only THEN "NotJudged" ELSE "none")
             \in {"none", "Correct", "Partial", "Incorrect", "NotJudged"}
      OBVIOUS
    <3> QED
      BY <2>1, <3>1, TwoFields
  <2>3. \A p \in InFlight : answer'[p].heuristic = answer[p].heuristic
    BY <2>1, <1>0 DEF Answers
  <2>4. ~answer[q].heuristic
    BY <2>1 DEF MarkInv
  <2> QED
    BY <1>0, <2>1, <2>2, <2>3, <2>4, Moves DEF MarkInv
<1>2. CASE RecallFails(q)
  <2>1. /\ ask[q] = "recall"
        /\ answer' = [answer EXCEPT ![q].failed = TRUE,
                        ![q].verdict = IF grading.retrieval_only THEN "NotJudged" ELSE "none"]
        /\ GoesTo(q, IF grading.retrieval_only THEN "graded" ELSE "verdict")
        /\ UNCHANGED <<grading, fallbacks, reported>>
    BY <1>2 DEF RecallFails
  <2>2. answer' \in [InFlight -> Answers]
    <3>1. (IF grading.retrieval_only THEN "NotJudged" ELSE "none")
             \in {"none", "Correct", "Partial", "Incorrect", "NotJudged"}
      OBVIOUS
    <3> QED
      BY <2>1, <3>1, TwoFields
  <2>3. \A p \in InFlight : answer'[p].heuristic = answer[p].heuristic
    BY <2>1, <1>0 DEF Answers
  <2>4. ~answer[q].heuristic
    BY <2>1 DEF MarkInv
  <2> QED
    BY <1>0, <2>1, <2>2, <2>3, <2>4, Moves DEF MarkInv
<1>3. CASE AttemptFails(q)
  <2>1. tries' \in [InFlight -> 0..MAX_RETRIES] /\ UNCHANGED <<grading, ask, answer, fallbacks, reported>>
    BY <1>3, QuestionsConstants DEF AttemptFails, Sending
  <2>2. ask[q] # "graded"
    BY <1>3 DEF AttemptFails, Sending, Completes
  <2> QED
    BY <2>1, <2>2 DEF MarkInv
<1>4. CASE Synthesizes(q)
  <2>1. ask[q] = "synth" /\ GoesTo(q, "verdict") /\ UNCHANGED <<grading, answer, fallbacks, reported>>
    BY <1>4 DEF Synthesizes
  <2> QED
    BY <1>0, <2>1, Moves DEF MarkInv
<1>5. CASE Verdict(q)
  <2>1. PICK verdict \in {"Correct", "Incorrect"} :
          /\ ask[q] = "verdict"
          /\ answer' = [answer EXCEPT ![q].verdict = verdict, ![q].heuristic = FALSE]
          /\ GoesTo(q, IF answer[q].failed THEN "graded" ELSE "support")
          /\ UNCHANGED <<grading, fallbacks, reported>>
    BY <1>5 DEF Verdict, Judged
  <2>2. answer' \in [InFlight -> Answers]
    BY <2>1, TwoFields
  <2>3. answer[q].heuristic = FALSE
    BY <2>1, <1>0 DEF MarkInv, Answers
  <2>4. \A p \in InFlight : answer'[p].heuristic = answer[p].heuristic
    BY <2>1, <2>3, <1>0 DEF Answers
  <2> QED
    BY <1>0, <2>1, <2>2, <2>3, <2>4, Moves DEF MarkInv
<1>6. CASE Supports(q)
  <2>1. PICK supported \in SupportOf(q) :
          /\ ask[q] = "support"
          /\ answer' = [answer EXCEPT ![q].supported = supported]
          /\ GoesTo(q, "attribute")
          /\ UNCHANGED <<grading, fallbacks, reported>>
    BY <1>6 DEF Supports
  <2>2. supported \in {"yes", "no", "unknown"}
    BY DEF SupportOf
  <2>3. answer' \in [InFlight -> Answers]
    BY <2>1, <2>2 DEF Answers
  <2>4. \A p \in InFlight : answer'[p].heuristic = answer[p].heuristic
    BY <2>1, <1>0 DEF Answers
  <2> QED
    BY <1>0, <2>1, <2>3, <2>4, Moves DEF MarkInv
<1>7. CASE Attributes(q)
  <2> DEFINE lost == FailStage(answer[q].verdict = "Correct", answer[q].found, answer[q].supported)
  <2>1. /\ ask[q] = "attribute"
        /\ answer' = [answer EXCEPT ![q].stage = lost]
        /\ GoesTo(q, "graded")
        /\ UNCHANGED <<grading, fallbacks, reported>>
    BY <1>7 DEF Attributes
  <2>2. lost \in {"none", "abstention", "dropped", "missed", "unknown"}
    BY FailStageTyped
  <2> HIDE DEF lost
  <2>3. answer' \in [InFlight -> Answers]
    BY <2>1, <2>2 DEF Answers
  <2>4. \A p \in InFlight : answer'[p].heuristic = answer[p].heuristic
    BY <2>1, <1>0 DEF Answers
  <2> QED
    BY <1>0, <2>1, <2>3, <2>4, Moves DEF MarkInv
<1> QED
  BY <1>1, <1>2, <1>3, <1>4, <1>5, <1>6, <1>7 DEF Quiet

\* The mark of a question comes with its verdict, which is no question's last stage.
LEMMA MarkStep ==
    ASSUME QuestionsInv, NEW q \in InFlight, FallsBack(q) \/ Heuristic(q)
    PROVE  /\ StateTypeOK' /\ MarkInv' /\ UNCHANGED <<grading, reported>>
           /\ ask[q] = "verdict"
           /\ Cardinality(HeuristicallyGraded') = Cardinality(HeuristicallyGraded) + 1
<1>1. PICK verdict \in {"Correct", "Partial", "Incorrect"} :
        /\ ask[q] = "verdict"
        /\ answer' = [answer EXCEPT ![q].verdict = verdict, ![q].heuristic = TRUE]
        /\ GoesTo(q, IF answer[q].failed THEN "graded" ELSE "support")
        /\ UNCHANGED <<grading, reported>>
  BY DEF FallsBack, Heuristic, Judged
<1>2. StateTypeOK /\ MarkInv
  BY DEF QuestionsInv
<1>3. answer' \in [InFlight -> Answers]
  BY <1>1, <1>2, TwoFields
<1>4. /\ ask' \in [InFlight -> Stages] /\ tries' \in [InFlight -> 0..MAX_RETRIES]
      /\ ask'[q] \in {"support", "graded"}
      /\ \A p \in InFlight \ {q} : ask'[p] = ask[p]
  BY <1>1, <1>2, Moves DEF Stages
<1>5. /\ answer'[q].heuristic
      /\ \A p \in InFlight \ {q} : answer'[p] = answer[p]
  BY <1>1, <1>2 DEF StateTypeOK, Answers
<1>6. ~answer[q].heuristic
  BY <1>1, <1>2 DEF MarkInv
<1>7. answer' = [answer EXCEPT ![q] = answer'[q]]
  BY <1>2, <1>3, <1>5 DEF StateTypeOK
<1>8. Cardinality(HeuristicallyGraded') = Cardinality(HeuristicallyGraded) + 1
  BY <1>2, <1>3, <1>5, <1>6, <1>7, OneMoreMark
<1>9. MarkInv'
  BY <1>2, <1>4, <1>5 DEF MarkInv
<1> QED
  BY <1>1, <1>2, <1>3, <1>4, <1>8, <1>9 DEF StateTypeOK

\* Where no question is left to grade, none is marked.
LEMMA NotAllGraded ==
    ASSUME AllGradedInv, NEW q \in InFlight, ask[q] # "graded"
    PROVE  reported = NotReported
BY DEF AllGradedInv

LEMMA QuestionsStep == QuestionsInv /\ [QuestionsNext]_questionVars => QuestionsInv'
<1> SUFFICES ASSUME QuestionsInv, [QuestionsNext]_questionVars PROVE QuestionsInv'
  OBVIOUS
<1>0. StateTypeOK /\ MarkInv /\ CountInv /\ AllGradedInv
  BY DEF QuestionsInv
<1>1. ASSUME NEW q \in InFlight, Quiet(q)
      PROVE  QuestionsInv'
  <2>1. /\ StateTypeOK' /\ MarkInv'
        /\ \A p \in InFlight : answer'[p].heuristic = answer[p].heuristic
        /\ ask[q] # "graded"
        /\ UNCHANGED <<grading, fallbacks, reported>>
    BY <1>0, <1>1, QuietStep
  <2>2. HeuristicallyGraded' = HeuristicallyGraded
    BY <2>1 DEF HeuristicallyGraded
  <2>3. CountInv'
    BY <1>0, <2>1, <2>2 DEF CountInv
  <2>4. AllGradedInv'
    BY <1>0, <2>1, NotAllGraded DEF AllGradedInv
  <2> QED
    BY <2>1, <2>3, <2>4 DEF QuestionsInv
<1>2. ASSUME NEW q \in InFlight, FallsBack(q) \/ Heuristic(q)
      PROVE  QuestionsInv'
  <2>1. /\ StateTypeOK' /\ MarkInv' /\ UNCHANGED <<grading, reported>>
        /\ ask[q] = "verdict"
        /\ Cardinality(HeuristicallyGraded') = Cardinality(HeuristicallyGraded) + 1
    BY <1>2, MarkStep
  <2>2. CountInv'
    BY <1>0, <1>2, <2>1 DEF CountInv, FallsBack, Heuristic
  <2>3. AllGradedInv'
    BY <1>0, <2>1, NotAllGraded DEF AllGradedInv
  <2> QED
    BY <2>1, <2>2, <2>3 DEF QuestionsInv
<1>3. CASE Reports
  BY <1>0, <1>3 DEF Reports, QuestionsInv, StateTypeOK, MarkInv, CountInv, AllGradedInv,
     HeuristicallyGraded
<1>4. CASE UNCHANGED questionVars
  BY <1>0, <1>4 DEF questionVars, QuestionsInv, StateTypeOK, MarkInv, CountInv, AllGradedInv,
     HeuristicallyGraded
<1> QED
  BY <1>1, <1>2, <1>3, <1>4 DEF QuestionsNext, Question, Quiet

LEMMA QuestionsSafe == QuestionsInv => QuestionsTypeOK /\ FallbacksAreReported
<1> SUFFICES ASSUME QuestionsInv PROVE QuestionsTypeOK /\ FallbacksAreReported
  OBVIOUS
<1>1. HeuristicallyGraded \subseteq InFlight
  BY DEF HeuristicallyGraded
<1>2. /\ Cardinality(HeuristicallyGraded) \in Nat /\ Cardinality(InFlight) \in Nat
      /\ Cardinality(HeuristicallyGraded) <= Cardinality(InFlight)
  BY <1>1, QuestionsConstants, FS_Subset, FS_CardinalityType
<1>3. fallbacks \in 0..Cardinality(InFlight)
  BY <1>2 DEF QuestionsInv, CountInv
<1>4. reported \in NotReported..Cardinality(InFlight)
  BY <1>2, <1>3 DEF QuestionsInv, AllGradedInv, NotReported
<1>5. FallbacksAreReported
  BY DEF QuestionsInv, CountInv, AllGradedInv, HeuristicallyGraded, FallbacksAreReported
<1> QED
  BY <1>3, <1>4, <1>5 DEF QuestionsInv, StateTypeOK, QuestionsTypeOK
=============================================================================
