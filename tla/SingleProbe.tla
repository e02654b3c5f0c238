----------------------------- MODULE SingleProbe -----------------------------
(***************************************************************************)
(* The single-pair probe of src/src/bench/probe/mod.rs: one encode, a poll *)
(* for the graph it gives, one read, and a verdict.  The server's tiers    *)
(* extract the memory one fact at a time, or never.                        *)
(***************************************************************************)
EXTENDS Naturals

CONSTANTS POLL_ATTEMPTS   \* EXTRACTION_POLL_ATTEMPTS

ASSUME SingleProbeAssumption == POLL_ATTEMPTS \in Nat \ {0}

VARIABLES
    probing,    \* the stage of the probe
    durable,    \* the ack carried a log position and a memory id
    graph,      \* the facts in the server's graph
    graphPolls, \* the polls made
    seen,       \* the facts of the last poll
    writeOk,
    readOk

probeVars == <<probing, durable, graph, graphPolls, seen, writeOk, readOk>>

\* The subject and employer entities, the fact that links them, and another fact.
Facts == {"subject", "employer", "link", "other"}

SingleProbeTypeOK ==
    /\ probing \in {"connect", "write", "graph", "read", "close", "passed", "failed", "error"}
    /\ {durable, writeOk, readOk} \subseteq BOOLEAN
    /\ seen \subseteq graph /\ graph \subseteq Facts
    /\ graphPolls \in 0..POLL_ATTEMPTS

SingleProbeInit ==
    /\ probing = "connect"
    /\ durable = FALSE
    /\ graph = {} /\ graphPolls = 0 /\ seen = {}
    /\ writeOk = FALSE /\ readOk = FALSE

ProbeConnects ==
    /\ probing = "connect"
    /\ probing' = "write"
    /\ UNCHANGED <<durable, graph, graphPolls, seen, writeOk, readOk>>

ProbeWrites ==
    /\ probing = "write"
    /\ durable' \in BOOLEAN
    /\ probing' = "graph"
    /\ UNCHANGED <<graph, graphPolls, seen, writeOk, readOk>>

\* The server: a link presupposes its two entities.
TierExtracts ==
    \E fact \in Facts \ graph :
        /\ probing \in {"graph", "read"}
        /\ fact = "link" => {"subject", "employer"} \subseteq graph
        /\ graph' = graph \cup {fact}
        /\ UNCHANGED <<probing, durable, graphPolls, seen, writeOk, readOk>>

\* Faulty variant of WriteOk: any fact at all makes the write.
WriteOkOnFacts(read) == durable /\ read # {}

\* The gate of probe_write: durable, both entities, and the link between them.
WriteOk(read) == durable /\ {"subject", "employer", "link"} \subseteq read

\* poll_graph: any statement or relation ends the poll, and so does the last attempt.
PollGraph ==
    /\ probing = "graph"
    /\ graphPolls' = graphPolls + 1
    /\ seen' = graph
    /\ \/ /\ {"link", "other"} \cap graph # {} \/ graphPolls' = POLL_ATTEMPTS
          /\ writeOk' = WriteOk(graph)
          /\ probing' = "read"
       \/ /\ {"link", "other"} \cap graph = {} /\ graphPolls' < POLL_ATTEMPTS
          /\ UNCHANGED <<writeOk, probing>>
    /\ UNCHANGED <<durable, graph, readOk>>

\* The trace, then the recall: whether any text or fact it brings names the employer.
ProbeReads ==
    /\ probing = "read"
    /\ readOk' \in BOOLEAN
    /\ probing' = "close"
    /\ UNCHANGED <<durable, graph, graphPolls, seen, writeOk>>

ProbeCloses ==
    /\ probing = "close"
    /\ probing' = IF writeOk /\ readOk THEN "passed" ELSE "failed"
    /\ UNCHANGED <<durable, graph, graphPolls, seen, writeOk, readOk>>

\* Any operation may fail: the probe has no verdict then.
ProbeFails ==
    /\ probing \in {"connect", "write", "graph", "read", "close"}
    /\ probing' = "error"
    /\ UNCHANGED <<durable, graph, graphPolls, seen, writeOk, readOk>>

SingleProbeStep ==
    \/ ProbeConnects \/ ProbeWrites \/ PollGraph \/ ProbeReads \/ ProbeCloses

SingleProbeNext == SingleProbeStep \/ ProbeFails \/ TierExtracts

\* The mint of the space's key is an HTTP call without a timeout.
ProbeWaits == probing = "connect"

SingleProbeSpec ==
    /\ SingleProbeInit /\ [][SingleProbeNext]_probeVars
    /\ WF_probeVars(~ProbeWaits /\ SingleProbeStep)
=============================================================================
