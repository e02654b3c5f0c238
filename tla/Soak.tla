-------------------------------- MODULE Soak --------------------------------
(***************************************************************************)
(* The soak run of src/src/blackbox/soak.rs: batches of encodes and        *)
(* recalls until the duration is over, a sample between two batches when   *)
(* one is due, and the verdict over the samples.  A sample's drift probe   *)
(* encodes the same PROBE markers every time and recalls each of them.     *)
(***************************************************************************)
EXTENDS Naturals

CONSTANTS
    DURATION,       \* cfg.duration, in batches of the fastest server
    SAMPLE_EVERY,   \* cfg.sample_every, likewise
    PROBE,          \* the markers of the drift probe
    FLOOR,          \* the markers recall_floor asks for
    MAX_DRIFT,      \* cfg.max_latency_drift
    MAX_GROWTH      \* cfg.max_rss_growth

ASSUME SoakAssumption ==
    /\ DURATION \in Nat \ {0} /\ SAMPLE_EVERY \in Nat /\ MAX_DRIFT \in Nat /\ MAX_GROWTH \in Nat
    /\ PROBE \in Nat /\ FLOOR \in 1..PROBE

MIN_TREND_SAMPLES == 3

Levels == {1, 3}   \* latencies and resident sizes, as multiples of the least

VARIABLES
    soak,         \* the stage of the run
    elapsed,      \* the time since the start
    nextSample,   \* when the next sample is due
    opErrors,     \* whether an encode or recall of a batch failed
    window,       \* the slowest operation since the last sample, 0 if there is none
    copies,       \* the markers of which some copy is indexed
    sent,         \* the markers of which some copy was encoded
    turn,      \* how far the current loop of the probe is
    hits,         \* the markers the current probe has recalled
    missed,       \* the operations of the current probe that failed
    samples       \* the samples taken, as healthy reads them

soakVars == <<soak, elapsed, nextSample, opErrors, window, copies, sent, turn, hits, missed, samples>>

Markers == 1..PROBE

\* The values of a trend that were measured: how many, the least and the greatest.
Trends  == [n : 0..DURATION, best : {0} \cup Levels, worst : {0} \cup Levels]
NoTrend == [n |-> 0, best |-> 0, worst |-> 0]

Minimum(a, b) == IF a < b THEN a ELSE b
Maximum(a, b) == IF a > b THEN a ELSE b

\* A value of 0 was not measured.
Extended(trend, value) ==
    IF value = 0 THEN trend
    ELSE [n |-> trend.n + 1,
          best |-> IF trend.n = 0 THEN value ELSE Minimum(trend.best, value),
          worst |-> Maximum(trend.worst, value)]

SoakTypeOK ==
    /\ soak \in {"connect", "batch", "due", "encode", "recall", "over", "unreachable"}
    /\ elapsed \in 0..DURATION + 1
    /\ nextSample \in 0..DURATION + SAMPLE_EVERY + 1
    /\ opErrors \in BOOLEAN
    /\ window \in {0} \cup Levels
    /\ copies \subseteq Markers
    /\ sent \in 0..PROBE
    /\ turn \in 0..PROBE
    /\ hits \in 0..PROBE
    /\ missed \in 0..PROBE
    /\ samples \in [taken : 0..DURATION, recall : 0..PROBE, missed : 0..PROBE,
                     p99 : Trends, rss : Trends]

SoakInit ==
    /\ soak = "connect"
    /\ elapsed = 0
    /\ nextSample = SAMPLE_EVERY
    /\ opErrors = FALSE
    /\ window = 0
    /\ copies = {}
    /\ sent = 0
    /\ turn = 0 /\ hits = 0 /\ missed = 0
    /\ samples = [taken |-> 0, recall |-> PROBE, missed |-> 0, p99 |-> NoTrend, rss |-> NoTrend]

SoakConnects ==
    /\ soak = "connect"
    /\ soak' \in {"batch", "unreachable"}
    /\ UNCHANGED <<elapsed, nextSample, opErrors, window, copies, sent, turn, hits, missed, samples>>

\* A batch runs to its end, errors or not; only what succeeded is timed.
Batch ==
    \E level \in {0} \cup Levels, failed \in BOOLEAN :
        /\ soak = "batch"
        /\ elapsed < DURATION
        /\ soak' = "due"
        /\ elapsed' \in {elapsed + 1, DURATION + 1}   \* a slow batch may outlast the run
        /\ level = 0 => failed
        /\ window' = Maximum(level, window)
        /\ opErrors' = (opErrors \/ failed)
        /\ UNCHANGED <<nextSample, copies, sent, turn, hits, missed, samples>>

NotDue ==
    /\ soak = "due"
    /\ elapsed < nextSample
    /\ soak' = "batch"
    /\ UNCHANGED <<elapsed, nextSample, opErrors, window, copies, sent, turn, hits, missed, samples>>

ProbeStartsOver ==   \* Faulty variant of ProbeStarts: the hits of the last sample stay.
    /\ soak = "due"
    /\ elapsed >= nextSample
    /\ soak' = "encode"
    /\ turn' = 0 /\ missed' = 0
    /\ UNCHANGED <<elapsed, nextSample, opErrors, window, copies, sent, hits, samples>>

ProbeStarts ==
    /\ soak = "due"
    /\ elapsed >= nextSample
    /\ soak' = "encode"
    /\ turn' = 0 /\ hits' = 0 /\ missed' = 0
    /\ UNCHANGED <<elapsed, nextSample, opErrors, window, copies, sent, samples>>

ProbeEncodes ==
    /\ soak = "encode"
    /\ turn < PROBE
    /\ turn' = turn + 1
    /\ sent' = Maximum(turn', sent)
    /\ UNCHANGED <<soak, elapsed, nextSample, opErrors, window, copies, hits, missed, samples>>

\* process_memory_resident_bytes; a scrape that fails leaves 0, which rss_ok skips.
Scraped == {0} \cup Levels

Sample(recall, lost) ==
    /\ \E rss \in Scraped :
        samples' = [taken |-> samples.taken + 1,
                    recall |-> Minimum(samples.recall, recall),
                    missed |-> Maximum(samples.missed, lost),
                    p99 |-> Extended(samples.p99, window),
                    rss |-> Extended(samples.rss, rss)]
    /\ window' = 0
    /\ nextSample' = elapsed + SAMPLE_EVERY
    /\ soak' = "batch"

ProbeEncodeIgnored ==   \* Faulty variant of ProbeEncodeFails: the probe goes on.
    /\ soak = "encode"
    /\ turn < PROBE
    /\ turn' = turn + 1
    /\ missed' = missed + 1
    /\ UNCHANGED <<soak, elapsed, nextSample, opErrors, window, copies, sent, hits, samples>>

\* drift_probe returns 0.0 on its first failed encode, and recalls nothing.
ProbeEncodeFails ==
    /\ soak = "encode"
    /\ turn < PROBE
    /\ soak' = "recall"
    /\ turn' = PROBE
    /\ missed' = 1
    /\ UNCHANGED <<elapsed, nextSample, opErrors, window, copies, sent, hits, samples>>

ProbeEncoded ==
    /\ soak = "encode"
    /\ turn = PROBE
    /\ soak' = "recall"
    /\ turn' = 0
    /\ UNCHANGED <<elapsed, nextSample, opErrors, window, copies, sent, hits, missed, samples>>

\* A marker is found when a copy of it is indexed, this sample's or an earlier one's;
\* a recall that fails counts as a miss and is no error of the run.
ProbeRecalls ==
    /\ soak = "recall"
    /\ turn < PROBE
    /\ turn' = turn + 1
    /\ \/ hits' = hits + (IF turn + 1 \in copies THEN 1 ELSE 0) /\ UNCHANGED missed
       \/ hits' = hits /\ missed' = missed + 1
    /\ UNCHANGED <<soak, elapsed, nextSample, opErrors, window, copies, sent, samples>>

ProbeEnds ==
    /\ soak = "recall"
    /\ turn = PROBE
    /\ Sample(hits, missed)
    /\ UNCHANGED <<elapsed, opErrors, copies, sent, turn, hits, missed>>

\* The duration is looked at between batches only.
SoakOver ==
    /\ soak = "batch"
    /\ elapsed >= DURATION
    /\ soak' = "over"
    /\ UNCHANGED <<elapsed, nextSample, opErrors, window, copies, sent, turn, hits, missed, samples>>

\* The server indexes a marker that was encoded.
IndexMarker ==
    \E k \in 1..sent :
        /\ copies' = copies \cup {k}
        /\ UNCHANGED <<soak, elapsed, nextSample, opErrors, window, sent, turn, hits, missed, samples>>

RunSoak ==
    \/ SoakConnects \/ Batch \/ NotDue \/ ProbeStarts \/ ProbeEncodes \/ ProbeEncodeFails
    \/ ProbeEncoded \/ ProbeRecalls \/ ProbeEnds \/ SoakOver

SoakNext == RunSoak \/ IndexMarker

\* The mint of the run's key and the scrape of a sample are calls without a timeout.
SoakWaits == soak = "connect" \/ (soak = "recall" /\ turn = PROBE)

SoakSpec == SoakInit /\ [][SoakNext]_soakVars /\ WF_soakVars(~SoakWaits /\ RunSoak)

-----------------------------------------------------------------------------
\* SoakReport.

WithinTrend(trend, ratio) ==
    trend.n >= MIN_TREND_SAMPLES => trend.worst <= trend.best * ratio

LatencyOk == WithinTrend(samples.p99, MAX_DRIFT)
RssOk     == WithinTrend(samples.rss, MAX_GROWTH)

Healthy ==
    /\ ~opErrors
    /\ samples.taken > 0
    /\ samples.recall >= FLOOR
    /\ LatencyOk
    /\ RssOk

-----------------------------------------------------------------------------
\* Properties.

\* The failed operations of the drift probe are not counted as errors, and still a run
\* is not healthy when more of them failed in one sample than the recall floor forgives:
\* they cannot be made up by the copies earlier samples left behind.
HealthyMeansProbed ==
    soak = "over" /\ Healthy => samples.missed <= PROBE - FLOOR

=============================================================================
