------------------------------- MODULE Commands -------------------------------
(***************************************************************************)
(* The brain-eval binary, src/src/bin/brain-eval.rs: which command a run   *)
(* of it is, the docker server a probe may boot for itself, and the exit   *)
(* code that a command's outcome becomes.  The commands are the modules    *)
(* this one extends; a process runs one of them.                           *)
(***************************************************************************)
EXTENDS Acceptance, Soak, NamespaceWide, Staged, SingleProbe, Questions, Summary

VARIABLES
    cmd,       \* the command
    booting,   \* [self, keep]: --self-boot and BRAIN_EVAL_KEEP_SERVER
    server,    \* the container of a probe that boots its own
    prepared,  \* a benchmark run is past its barrier, its questions about to be read
    exit       \* the exit code, once there is one

cliVars == <<cmd, booting, server, prepared, exit>>

allVars == <<cliVars, accVars, tputVars, soakVars, wideVars, stagedVars, probeVars,
             questionVars, summaryVars>>

StillRunning == -1
Codes        == 0..2

\* "usage" is help, "unknown" no benchmark's name, "misconfigured" an endpoint variable
\* that does not parse.
CommandNames == {"probe", "staged", "acceptance", "soak", "namespace-wide", "summary", "benchmark",
                 "usage", "unknown", "misconfigured"}

CommandsTypeOK ==
    /\ cmd \in CommandNames
    /\ booting \in [self : BOOLEAN, keep : BOOLEAN]
    /\ server \in {"none", "up", "kept", "removed"}
    /\ prepared \in BOOLEAN
    /\ exit \in {StillRunning} \cup Codes
    /\ ThroughputTypeOK /\ AcceptanceTypeOK /\ SoakTypeOK /\ NamespaceWideTypeOK
    /\ StagedTypeOK /\ SingleProbeTypeOK /\ QuestionsTypeOK /\ SummaryTypeOK

IsProbe == cmd \in {"probe", "staged"}

\* The options a command does not read have one value.
CommandsInit ==
    /\ cmd \in CommandNames
    /\ booting \in [self : BOOLEAN, keep : BOOLEAN]
    /\ IsProbe \/ booting = [self |-> FALSE, keep |-> FALSE]
    /\ server = "none"
    /\ prepared = FALSE
    /\ exit = StillRunning
    /\ AcceptanceInit /\ (cmd = "acceptance" \/ scaled = [full |-> FALSE, recovery |-> FALSE])
    /\ SoakInit
    /\ NamespaceWideInit /\ (cmd = "namespace-wide" \/ ~(spans \/ leaks))
    /\ StagedInit
    /\ \/ cmd = "staged"
       \/ opts = [reuse |-> FALSE, focus |-> FALSE, limit |-> NoLimit, fits |-> TRUE]
    /\ SingleProbeInit
    /\ QuestionsInit /\ (cmd = "benchmark" \/ grading = [llm |-> FALSE, retrieval_only |-> FALSE])
    /\ SummaryInit /\ (cmd = "summary" \/ (summary = "usage" /\ file = <<>>))

\* The commands step in their own modules; a probe waits for its server.
Running(name) == cmd = name /\ exit = StillRunning

Ready == booting.self => server \in {"up", "kept"}

StagedRuns ==
    /\ Running("staged") /\ Ready /\ StagedNext
    /\ UNCHANGED <<cliVars, accVars, tputVars, soakVars, wideVars, probeVars, questionVars, summaryVars>>

ProbeRuns ==
    /\ Running("probe") /\ Ready /\ SingleProbeNext
    /\ UNCHANGED <<cliVars, accVars, tputVars, soakVars, wideVars, stagedVars, questionVars, summaryVars>>

Accepts(step) ==
    /\ Running("acceptance") /\ step
    /\ UNCHANGED <<cliVars, soakVars, wideVars, stagedVars, probeVars, questionVars, summaryVars>>

SoakRuns ==
    /\ Running("soak") /\ SoakNext
    /\ UNCHANGED <<cliVars, accVars, tputVars, wideVars, stagedVars, probeVars, questionVars, summaryVars>>

WideRuns ==
    /\ Running("namespace-wide") /\ NamespaceWideNext
    /\ UNCHANGED <<cliVars, accVars, tputVars, soakVars, stagedVars, probeVars, questionVars, summaryVars>>

SummaryRuns ==
    /\ Running("summary") /\ SummaryNext
    /\ UNCHANGED <<cliVars, accVars, tputVars, soakVars, wideVars, stagedVars, probeVars, questionVars>>

BenchmarkRuns(step) ==
    /\ Running("benchmark") /\ prepared /\ step
    /\ UNCHANGED <<cliVars, accVars, tputVars, soakVars, wideVars, stagedVars, probeVars, summaryVars>>

Exits(code) ==
    /\ exit = StillRunning
    /\ exit' = code
    /\ UNCHANGED <<cmd, booting, prepared, accVars, tputVars, soakVars, wideVars, stagedVars,
                   probeVars, questionVars, summaryVars>>

-----------------------------------------------------------------------------
\* main and async_main.

NoCommand ==
    /\ cmd \in {"usage", "unknown", "misconfigured"}
    /\ Exits(CASE cmd = "usage" -> 0 [] cmd = "unknown" -> 2 [] cmd = "misconfigured" -> 1)
    /\ UNCHANGED server

\* probe_cmd: keep_alive is set on the handle before the probe runs.
SelfBoots ==
    /\ IsProbe /\ exit = StillRunning
    /\ booting.self /\ server = "none"
    /\ server' = IF booting.keep THEN "kept" ELSE "up"
    /\ UNCHANGED <<cmd, booting, prepared, exit, accVars, tputVars, soakVars, wideVars, stagedVars,
                   probeVars, questionVars, summaryVars>>

SelfBootFails ==
    /\ IsProbe
    /\ booting.self /\ server = "none"
    /\ Exits(1)
    /\ UNCHANGED server

\* Faulty variant of StopServer: only a probe with a verdict stops its server.
StopServerOnVerdict ==
    server' = IF server = "up" /\ probing # "error" /\ staged # "error" THEN "removed" ELSE server

\* ServerHandle::stop, which leaves a kept server alone.
StopServer == server' = IF server = "up" THEN "removed" ELSE server

\* The staged report is the deliverable: its verdicts do not fail the command.
ProbeExits ==
    /\ cmd = "probe" /\ probing \in {"passed", "failed", "error"}
    /\ Exits(IF probing = "passed" THEN 0 ELSE 1)
    /\ StopServer

StagedExits ==
    /\ cmd = "staged" /\ staged \in {"done", "error"}
    /\ Exits(IF staged = "done" THEN 0 ELSE 1)
    /\ StopServer

AcceptanceExits ==
    /\ cmd = "acceptance" /\ acc = "report"
    /\ Exits(IF AllPass \/ CorrectnessPass THEN 0 ELSE 1)
    /\ UNCHANGED server

SoakExits ==
    /\ cmd = "soak" /\ soak \in {"over", "unreachable"}
    /\ Exits(IF soak = "over" /\ Healthy THEN 0 ELSE 1)
    /\ UNCHANGED server

WideExits ==
    /\ cmd = "namespace-wide" /\ wide \in {"pass", "fail", "error"}
    /\ Exits(IF wide = "pass" THEN 0 ELSE 1)
    /\ UNCHANGED server

SummaryExits ==
    /\ cmd = "summary" /\ summary \in {"usage", "unreadable", "empty", "printed"}
    /\ Exits(CASE summary = "printed" -> 0 [] summary = "usage" -> 2 [] OTHER -> 1)
    /\ UNCHANGED server

\* What EvalRunner has in full: the plan with the mints of its keys, the ingest, the barrier.
BenchmarkPrepares ==
    /\ Running("benchmark") /\ ~prepared
    /\ prepared' = TRUE
    /\ UNCHANGED <<cmd, booting, server, exit, accVars, tputVars, soakVars, wideVars, stagedVars,
                   probeVars, questionVars, summaryVars>>

\* A benchmark run exits by its report, whatever its accuracy, once it has scraped the
\* extraction counters for it.
BenchmarkExits ==
    /\ cmd = "benchmark" /\ reported # NotReported
    /\ Exits(0)
    /\ UNCHANGED server

\* The data set, the manifest or the first mint failed: the errors a run has for its caller.
BenchmarkFails ==
    /\ cmd = "benchmark" /\ ~prepared
    /\ Exits(1)
    /\ UNCHANGED server

Exiting ==
    \/ NoCommand \/ ProbeExits \/ StagedExits \/ AcceptanceExits \/ SoakExits
    \/ WideExits \/ SummaryExits \/ BenchmarkExits

Exited == exit # StillRunning /\ UNCHANGED allVars

CommandsNext ==
    \/ StagedRuns \/ ProbeRuns \/ Accepts(AcceptanceNext) \/ SoakRuns \/ WideRuns \/ SummaryRuns
    \/ BenchmarkPrepares \/ BenchmarkRuns(QuestionsNext) \/ BenchmarkFails
    \/ SelfBoots \/ SelfBootFails \/ Exiting \/ Exited

\* A probe that boots its own server waits for docker to start it, and in the end to remove it.
ServerWaits ==
    /\ IsProbe /\ booting.self
    /\ \/ server = "none"
       \/ server = "up" /\ cmd = "probe" /\ probing \in {"passed", "failed", "error"}
       \/ server = "up" /\ cmd = "staged" /\ staged \in {"done", "error"}

\* The process waits for a call to which the code gives no timeout: the mint of a key, an
\* admin call, a scrape of the metrics, a docker command.
AwaitsUntimed ==
    /\ exit = StillRunning
    /\ \/ ServerWaits
       \/ cmd = "staged" /\ Ready /\ StagedWaits
       \/ cmd = "probe" /\ Ready /\ ProbeWaits
       \/ cmd = "soak" /\ SoakWaits
       \/ cmd = "namespace-wide" /\ WideWaits
       \/ cmd = "acceptance" /\ AcceptanceWaits
       \/ cmd = "benchmark" /\ (~prepared \/ reported # NotReported)

\* What the process does by itself.  The calls to the SDK and to the LLM end, by an answer
\* or by their request timeout, and timers fire; the answer to any other call is not owed,
\* nor is a failure, nor anything the server does in the background.
Owed(step) == ~AwaitsUntimed /\ step

CommandsFairness ==
    /\ WF_allVars(Owed(StagedStep /\ StagedRuns))
    /\ WF_allVars(Owed(SingleProbeStep /\ ProbeRuns))
    /\ WF_allVars(Owed(RunSoak /\ SoakRuns))
    /\ WF_allVars(Owed(RunWide /\ WideRuns))
    /\ WF_allVars(Owed(SummaryRuns))
    /\ WF_allVars(Owed(Accepts(RunGates \/ Drives(Measure))))
    /\ WF_allVars(Owed(Accepts(Drives(Deadline))))
    /\ \A w \in Workers : WF_allVars(Owed(Accepts(Drives(Worker(w)))))
    /\ \A q \in InFlight : WF_allVars(Owed(BenchmarkRuns(Question(q))))
    /\ WF_allVars(Owed(BenchmarkRuns(Reports)))
    /\ WF_allVars(Owed(Exiting))

CommandsSpec == CommandsInit /\ [][CommandsNext]_allVars /\ CommandsFairness

-----------------------------------------------------------------------------
\* Properties.

QuestionsCapped(n) == IF n < opts.limit THEN n ELSE opts.limit

\* An exit code of 0, which is all a CI job sees of a command, is earned by what the
\* command met and not only by its last verdict: the graph of the probe holds the fact
\* its text states, no correctness check of the acceptance run failed, neither a batch of
\* the soak nor more of its probes than the floor forgives, and the staged run asked
\* every question that its options allow it.
ExitZeroIsEarned ==
    exit = 0 =>
        /\ cmd = "probe" => "link" \in graph /\ readOk
        /\ cmd = "acceptance" => ~broken
        /\ cmd = "soak" => ~opErrors /\ samples.missed <= PROBE - FLOOR
        /\ cmd = "staged" /\ ~opts.focus =>
              rollup["total"] = QuestionsCapped((IF opts.reuse THEN 1 ELSE GROUPS) * QUESTIONS)

\* A probe that booted a server for itself leaves no container behind, whether the probe
\* passed, failed or broke off, unless it was asked to.
SelfBootedServerIsRemoved ==
    exit # StillRunning /\ booting.self /\ ~booting.keep => server # "up"

\* A command that never comes to an exit code is stuck in one of the calls without a timeout.
\* No poll, retry, join or window of any command, no lagging index or extraction and no
\* failing call keeps it from its exit: each waits for what the code itself bounds.
EveryCommandExits == <>(exit # StillRunning) \/ <>[]AwaitsUntimed
=============================================================================
