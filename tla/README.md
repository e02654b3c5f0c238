# Verification of brain-eval

brain-eval is a client: it boots or attaches to a Brain server, writes
conversations to it, waits for the server's asynchronous write pipeline, reads
back, grades and reports. What can go wrong in it is rarely in one function. It
is a measurement taken too early, a failure that is not carried to where it is
reported, a result recorded twice or not at all. This directory holds TLA+
models of the parts where that happens, TLC configurations that check them on
small instances, and TLAPS proofs for every value of the constants.

Paths `src/...` below are paths in the repository.

## 1. Inventory

| Component | State it keeps | Operations | Hard behaviour | What makes it correct |
|---|---|---|---|---|
| Write-flush barrier `src/client/drain.rs` | stable count, plateau, last counters, whether the gauge was seen | `wait_for_write_flush` | snapshots are old when read; handoffs no gauge shows; absent series; failing and hanging scrapes; a cap | "flushed" means settled; it returns |
| Metrics client `src/client/metrics.rs` | none | `scrape`, `parse`, `sum`, `sum_where` | absent family against zero | no sample is never a zero |
| Benchmark runner `src/bench/runner.rs` | plan, token cache, per-conversation write counts, results, tracker file, manifest | `run`: plan, ingest, merge, barrier, read, record, report | two phases of bounded concurrency; partial failure at each call; crash; a second run over the first one's manifest | one record per question, order independent of the schedule, honest counts and flags, no early read |
| Space manifest `src/bench/space_manifest.rs` | a JSON file | `record`, `space_for`, `save`, `load` | saved late, not atomically | names every conversation written |
| Harness `src/client/harness.rs` | one connection, one space | `connect*`, `ingest`, `recall*`, `close` | a failed encode may have been applied | counts match the server |
| Key minting `src/client/auth.rs`, admin client `src/client/admin.rs` | none | `mint`, HTTP calls | failure | tokens outlive the phase that minted them |
| Server lifecycle `src/client/server.rs` | a container, a volume, process environment | `start_docker`, `wait_healthy`, `stop`, `stop_graceful`, drop | failure half-way through a boot; exit during the health wait | no container left behind; only a healthy server is handed out |
| Crash scenarios `src/blackbox/system/{durability,chaos}.rs` | acked ids, verdict | `restart_recovery`, `graceful_shutdown_drain`, `kill_during_write` | kill during writes, replay, recall lag | a verdict that neither misses a loss nor invents one |
| System scenarios `src/blackbox/system/*.rs` | connections, ids of what was written, verdict | polls and checks over the SDK and the admin API | eventual visibility: a check made too early passes or fails wrongly; a job or a transaction left behind on a shared server | a fault is not passed, a healthy server is not failed, nothing is left |
| Typed-graph scenarios `src/blackbox/system/typed_graph/*.rs` | same | twelve scenarios, six scaffolds that are advisory | same | same |
| Acceptance, soak, namespace-wide `src/blackbox/*.rs` | gates, samples, verdict | run the suites in order, sample a window, compare two scopes | keys minted with another server's credentials; drift judged from few samples; a probe that swallows its failures; spaces still being derived | a verdict passes only if what it names held |
| Scale tier `src/blackbox/scale/*.rs` | per-worker tallies | worker fan-out per verb | connection cap per address, workers that panic, closed connections the server still counts | every defect in the tally; under the cap of a server that reaps in time |
| Staged probe `src/bench/probe/*.rs` | space, turns acked, rollup | ingest, drain, poll, count, read | gives up after fixed polls; a space that is reused holds one conversation only | each question lost at one stage, and asked where its turns are |
| LLM client, judges `src/llm.rs`, `src/bench/score/*judge*.rs`, `src/bench/synthesize.rs` | fallback counter | retry, fall back | a judge that dies midway, on two paths, with other questions in flight | the report counts the questions the heuristic graded |
| Scoring `src/bench/score/*.rs` | none | accuracy, precision, answer shape, retrieval, dimensions | a verdict that is no grade; empty denominators | a question no judge read moves no accuracy |
| Command line `src/bin/brain-eval.rs` | a booted server, an exit code | one command per process | a probe that breaks off anywhere | exit code 0 is earned; the booted server is gone |
| Reports, datasets, core types | none | rendering, parsing | | |

How they interact: the runner plans a space and a key for each conversation
through the key minter, connects a harness per conversation, calls the barrier
once between writing and reading, asks the judge for each question, and hands
results to the scorer and the reporters. The scenarios call the SDK and the
server lifecycle directly. The acceptance run strings the scale tier and all
scenario suites together against one server, and hands its own server's
credentials to them through the process environment. The command line chooses one
of these tiers and turns its outcome into an exit code. Tasks share nothing but the server: they return owned
results which the runner merges. State that outlives a process is the tracker
file, the manifest, the reports and what the server holds.

## 2. Modules

| Module | Models | Built on |
|---|---|---|
| `WritePipeline` | the server's asynchronous write path as drain.rs describes it (external) | |
| `DrainContract` | what a caller of the barrier may rely on (abstract) | |
| `DrainBarrier` | `wait_for_write_flush` | extends `WritePipeline`, refines `DrainContract` |
| `RunContract` | what a reader of a run's results may rely on (abstract) | |
| `EvalRunner` | `EvalRunner::run` and the read-only run after it | instantiates `DrainContract`, refines `RunContract` |
| `BrainStore` | the rows of one space and what kills do to them (external) | |
| `ServerLifecycle` | `ServerHandle`: boot, health wait, stop, drop, volume | extends `BrainStore` |
| `RestartScenarios` | `restart_recovery`, `graceful_shutdown_drain`, `kill_during_write` | extends `ServerLifecycle` |
| `ScenarioScripts` | the core, invariant and admin scenarios and `storage_footprint`, as sequences of steps | |
| `TypedGraphScripts` | the typed-graph scenarios and scaffolds, likewise; which suite runs what | extends `ScenarioScripts` |
| `Scenarios` | a run of one script: connections, calls, polls, checks, verdict, against a server with at most one fault | extends `TypedGraphScripts` |
| `Throughput` | the concurrent throughput probe | |
| `Acceptance` | `run_acceptance` and the environment its servers share | extends `Throughput` |
| `Soak` | the soak window, its samples and verdict | |
| `NamespaceWide` | the namespace-wide recall scenario and the server it measures | |
| `Staged`, `SingleProbe` | the staged probe; the single-pair probe | |
| `Questions` | `run_question` with the LLM client, the synthesizer and the judges | |
| `Metrics` | `compute_full_metrics` and the retrieval metrics, as operators | |
| `Summary` | the summary command over a partial result file | extends `Metrics` |
| `Commands` | the binary: command, booted server, exit code | extends `Acceptance`, `Soak`, `NamespaceWide`, `Staged`, `SingleProbe`, `Questions`, `Summary` |
| `SumLemmas` | sums over sequences | |
| `DrainBarrierProofs`, `RestartScenariosProofs`, `ScenariosProofs` | theorems | extend the module they name |
| `EvalRunnerProofs` | theorems | extends `EvalRunner`, `SumLemmas` |
| `AcceptanceProofs` | lemmas on `Acceptance` | extends it |
| `TierProofs` | lemmas on `Soak`, `NamespaceWide`, `SingleProbe`, `Staged`, `Questions` | extends the five |
| `CommandsProofs` | theorems of the binary | extends `Commands`, `AcceptanceProofs`, `TierProofs`, `SumLemmas` |
| `MCDrainBarrier`, `MCEvalRunner`, `MCRestartScenarios`, `MCScenarios`, `MCCommands` | instances for TLC | |

`DrainBarrier` and `EvalRunner` meet in `DrainContract`. The first is shown to
implement it, the second uses its two return actions as its barrier step, so what
the runner is shown to guarantee rests on the contract and not on the polling
loop. `Staged` calls the barrier too and throws its result away, as the code does,
so there it is a step that may or may not have waited for anything, or that never comes.

`Commands` is the composition. A process runs one command, so a step of the binary
is a step of one of its modules while the variables of the others stay as their
`Init` left them; a property of a module is therefore stated and checked once, of
`CommandsSpec`.

Definitions introduced by "Faulty variant of" in the modules are not part of the
specifications. Each is a plausible bug in the definition it names, and putting it
in that definition's place makes TLC find the property it is listed with in
PROJECT.json violated.

## 3. How the models correspond to the code

### The write-flush barrier

Time is counted in polls of `DRAIN_INTERVAL`. One pass through the loop of
`wait_for_write_flush` is a scrape (`ServerReplies`, `BlankReply` or
`ScrapeFails`), a decision (`ReceiveGauge`, `ReceivePlateau`, `ReceiveAbsent`,
one per branch of the code) and a `Sleep`. Scrape and decision are separate
steps: the snapshot is rendered on the server, and the pipeline moves on before
the client reads it. `SlowScrape` lets time pass in between. `stable`, `plateau`,
`gaugeSeen` and `last` are the locals of the function, `outcome` the
`DrainBarrierStats` it returns and the branch that returned it. An absent gauge
is -1, the code's `None`; it is never a zero.

The environment passes each memory through extractor, statement embedding and the
derived-edge workers. Between two of them the work is in a *handoff*, which no
gauge counts. That interval is why the code wants several empty observations in a
row.

### The runner

One phase of `run` is one value of `pc`. Each conversation has a future, `task[c]`,
and the futures of the ingest and the read phase interleave step by step with at
most `Slots` in flight, started in map order as `buffer_unordered` does. Every
call that can fail has a failing action of its own. `EncodeFails` covers both a
request the server never saw and one it applied before the answer was lost.
`Crash` may happen anywhere. `ReadOnlyRun` starts a second run over the manifest
and the store the first one left, whatever way that ended.

`report` stands for both lists of the run report (questions and records), in
order; `tracker` for the `.partial.jsonl` file. Grading is reduced to whether a
judge saw the answer. The manifest may be saved, not saved, or left unreadable by
an interrupted write, since `save` writes in place.

### The server lifecycle and the restart scenarios

`boot` is the position inside `start_docker`: remove a stale container, run, then
poll. A poll is two `docker inspect` calls, hence the two states `health` and
`state`; the container may exit or turn healthy between them. An error after the
handle exists drops it, and the drop removes the container (`Stop`, `Unwind`).
`docker run` itself may fail before or after the container has been created.

The scenario's task is `pc`, the writing task `writer`. Only `kill_during_write`
runs them concurrently: `Kill` is enabled at every step of the writer, including
between the server storing a row and the ack being read. `disk` and `volatile`
separate what survives a kill from what does not, and `Servers` lists the kinds
of server under test: a good one, one that acks before it writes (`walFirst`
false), one that loses rows in a replay (`replaySafe` false), one that merges
near-duplicates (`merges`). `verdict` is `pass` also for the advisory outcome of
`graceful_shutdown_drain`.

### The scenarios

A scenario is data: the sequence of steps its function makes. `Open`
is a connection (or, in `storage_footprint`, the server). `Do` is a call whose
effects are there when it returns, `Ack` one whose effects have still to be derived
in part. `Check` reads once and fails the scenario at once, `Note` reads once and is
judged when the connections are closed; `Poll` and `PollNote` read again until the
comparison holds or the budget is gone. `Try` is a call whose error is an answer,
`Refused` one that must be refused. What a call carries and
what a check compares is a *fact* with a name and a value; the request and the
threshold behind it are left out. `Scenarios` interprets the script the way the
code runs it: a `?` ends the scenario with its connections dropped, a poll that
runs out is a failed check, or a failure noted for later.

The server derives an acknowledged effect whenever it likes (`Derive`). A server
with a fault has one fact stuck at a value, and the fault shows once what was
written has been derived: a leak across users cannot be seen before the leaked
memory is indexed. This is what makes a check for an absence a matter of order.
`Documented` lists, for each scenario, the faults that its doc comment and its
messages say it detects, without the order and the polls by which it does.

### The scale tier and the acceptance run

`Throughput` is one verb at a time: `mint`, `dial` the setup connection, `prepare`,
`load`, `pause`. Workers dial, call until the deadline and return a tally; a panic
loses the tally and is one error at the join. `held` are the connections this
process has open, `linger` those it has closed and the server still counts. The
pause of one second between verbs is a sleep: it ends whatever the server still
counts. `REAPS_IN_TIME` says whether the server under test has stopped counting a
closed connection by then; if not, it reaps when it likes or never (`Reap`). With
the code's numbers one verb fits (48 workers, the setup and the caller under 64), two
do not, which is why `UnderTheCap` is a property against a server that reaps in time
and the run `connection_cap` shows the other kind. A verb whose setup times out has
done nothing and is recorded as clean; this is the code's rule.

`Acceptance` has the gates in the order of the code, each reduced to its kind,
performance or correctness. The scenario suites are one verdict each, since
`Scenarios` looks inside them; so does a scenario with a server of its own, which
`RestartScenarios` has in full. `ambient` is the server whose credentials
`publish_env_credentials` put last into the environment, `minted` the pairs of the
server a key was minted for and the one whose credentials were used.

### Soak, namespace-wide recall, probes

*Soak.* Time passes in batches. A sample encodes the same markers each time, so
copies of earlier samples can answer a recall for a marker whose encode has just
failed. An encode that fails ends the probe with a recall of 0, and the sample and its
scrape follow all the same. `samples` folds the list of samples to what the verdict reads of it (the
least and the last latency and resident size, the misses). A failed scrape of the
resident size is 0, as in the code, and switches the growth rule off.

*Namespace-wide.* Each facet is written to a space of its own and derived when the
server likes. The server's two scopes may each be wrong: `spans`, `leaks`.
`inTime` says whether every facet had been derived before the first question.
`PassIsTheScope` speaks of those runs only. A facet derived between two questions is
lag that the settle poll was meant to rule out, and does not: `BaselineMissIsScope`,
run `namespace_lag`.

*Staged.* Conversations in key order, with the options `reuse`, `focus` and
`limit`. The poll for the last turn accepts facts of any of the hits, so it may end
before the last turn is extracted. The code takes any space to reuse and does not look what
it holds; `opts.fits` says that it is one a finished run wrote the first conversation
to, which the code asks of its caller (staged.rs:97-99), and otherwise any number of
its turns may be there. The two scrapes, of the barrier and of the health line after
the count, are stages of their own (`barrier`, `health`), since they may hang.
`rollup` is the report's.

*Single probe.* `graph` is what the server has extracted, `seen` what the last poll
showed. The write verdict asks for the linking fact itself.

### Questions, metrics, summary

`Questions` takes the questions in flight at one time; each waits for a completion
(synthesis, grading, support), which ends by an answer, by an error that is final
or after `MAX_RETRIES` attempts. `answer[q].heuristic` is whether the judge fell
back for `q`. The counter is shared, and read once, when all are done. Questions of
conversations that never connected do not come here: they are answered by
`failed_question_result` without a judge and are in `EvalRunner`.

`Metrics` counts a score in halves and a discounted gain in hundredths, and a mean
is the pair of its sum and its number, so that no rounding hides a difference.
`Summary` reads a partial file line by line, blank and cut lines included.

### The binary

`Commands` chooses a command and its flags, runs it and maps its outcome to 0, 1 or
2. A probe may boot a server for itself (`booting`, `server`), which goes with the
scope that holds it, however the probe ends, unless it is to be kept. A benchmark
command has three parts here: `BenchmarkPrepares` (preflight, plan, ingest and barrier,
which `EvalRunner` has step by step), the questions in flight of `Questions`, and the
scrape for the report before it exits. The panic of a verifying run is in `EvalRunner`
only.

## 4. Runs

| Run | Instance | Shows |
|---|---|---|
| `drain` | one memory, four workers, four stable polls, cap 9, plateau 7, current and legacy server | a flush by a trusted signal means a settled pipeline and final counters; the barrier implements `DrainContract`; it returns |
| `drain_partial_gauge` | one worker without a gauge | violation, see section 7 |
| `drain_hang` | the same without `ScrapesEnd` | violation, see section 7 |
| `runner` | two conversations (two sessions of 2 and 1 turns; one turn), three questions, three configurations, each followed by a read-only run | the properties of the runner below; the run implements `RunContract` |
| `runner_tracker` | one configuration | violation, see section 7 |
| `runner_verify` | one configuration, which verifies by listing | violation, see section 7 |
| `restart` | three writes at rest, batches of two, two kills, one retry of the health poll, four kinds of server, any leftover container | verdicts are true, nothing is left behind, every scenario ends |
| `graceful_loss` | a good server, one scenario | violation, see section 7 |
| `scenarios` | all 31 scripts; a healthy server and every single fault that some step of the script could meet; two shards; polls of one reread; 6,039 states | no fault is passed, no healthy server is failed, nothing is left, every scenario ends |
| `commands` | every command; 374,059 states; the sizes are in `MCCommands.cfg` | the verdicts, tallies, counters and exit codes below |
| `connection_cap` | the same with a cap of 5 and a server that does not reap in time | violation, see section 7 |
| `namespace_lag` | the same instance as `commands` | violation, see section 7 |

### Bounds, and why they are enough

*Barrier.* `DRAIN_STABLE_POLLS` is the code's 4 and `DRAIN_MIN_WAIT` its 4
intervals. A handoff straddles at most one poll, so the three handoffs of the
longest path fit under four polls and not under three, which is the boundary. The
cap (2400 in the code) only has to be reachable after a flush would have been
possible; 9 is past both the stable run and the plateau of 7. The plateau (240 in
the code) is just longer than the longest legacy path in this instance, 3·(1+1).
Edge workers run in parallel and identically, so two stand for three. The
theorems drop all these bounds and any number of memories.

*Runner.* The shortest instance with two sessions (so one can be lost and the
next kept), a session of two turns (so a failure can fall between them), two
conversations (so futures overtake each other) and questions whose conversation
order is not their instance order. Concurrency is 2 and, through `.max(1)`, 0.

*Restart.* `CYCLES` is the code's 2. The number of writes only matters for which
of them are acked when the kill lands: none, some, all. The slack is 1 where the
code has 16, which the theorems show to be as good.

*Scenarios.* The scripts have no parameter but the number of shards; 2 is the least
for which one can be different from the others. One fault at a time: two faults
make no check pass that one of them fails, because a check compares each fact on
its own. A poll
of one reread has the three courses that matter: holds at once, holds later, runs
out. The derivation may come at any time, also never. The theorems hold for any
number of shards and of rereads.

*Commands.* Two workers and a cap of 4 are the tightest fit of workers, setup and
caller: the code has 48 under 64. In `connection_cap` the cap is 5: as in the code one
verb fits with room to spare, and the room is smaller than a second set of workers.
Two verbs, so that connections of the first may linger into the second. Three soak samples are the least the trend rule looks at,
and a probe of two markers with a floor of one has a forgiven miss and one that is
not. Three facets with one question each: the primary and two siblings, so that one
sibling can show while the other does not. Two conversations of two turns and two
questions make the limits 0, 3 (inside the second conversation) and 5 (none)
different. Two questions in flight share a counter, three attempts are the code's.
Files of up to three lines are the shortest on which an ungraded line stands beside
graded ones of two types. The theorems of section 6 drop these bounds.

`CHECK_DEADLOCK FALSE` is set for the restart runs, where a scenario that has
ended has nothing left to do.

## 5. Properties

The properties are stated with their comments at the end of each module. The ones
a reader should look at first:

* `FlushedMeansSettled`: the barrier never says "flushed" by a signal the code
  calls exact while work is left, not even work that no gauge counts.
* `FlushedCountersAreFinal`: nor with counters that still move.
* `ReadsSeeSettledGraph`: no question is asked of a graph still being built unless
  the barrier said it was unsure or was switched off.
* `UnflaggedMeansComplete`: a question graded without a failure flag was asked of
  a complete haystack.
* `EveryQuestionOnce`, `ReportOrderIsScheduleFree`: every question once, in an
  order that does not depend on which future finished first.
* `ImplementsRunContract`: a run's results are a log. They are appended, those read
  back after those that failed and after the barrier, and no later failure changes a
  result already recorded.
* `LedgerIsHonest`, `ManifestCoversStore`: counts and manifest agree with the
  server, also after lost answers.
* `PassMeansKept`, `LossIsReal`: a scenario's verdict is true in both directions.
* `NothingLeftBehind`: whichever call fails, container and volume are gone.
* `FaultsAreCaught`, `HealthyServerPasses`: the same two directions for the other
  31 scenarios. The first fails when a check for an absence is made before the
  thing could have shown, the second when a read does not wait for a derivation.
* `PassLeavesNothing`: a scenario that passes leaves no backfill running and no
  transaction open on the server the next one uses.
* `UnderTheCap`, `CleanMeansNoDefect`: a server that reaps closed connections within
  the pause never refuses the throughput probe for its own connections, and a verb is clean exactly when no worker met a defect,
  also not one that panicked.
* `EveryMintReachesItsServer`: the order of the acceptance run is what keeps one
  server's credentials from another's keys.
* `CorrectnessMeansNothingBroke`, `HealthyMeansProbed`, `PassIsTheScope`: the
  verdicts of the acceptance run, the soak and the namespace-wide scenario (the last
  with every facet derived before the first question) say what they seem to say.
* `RollupAddsUp`, `AskedWhereItsTurnsAre`: the staged probe loses no question, and
  calls none a miss that was never written to the space it asks; for a reused space
  the second needs a caller who names the right one.
* `EveryRunEnds`, `EveryCommandExits`: a run or a command that does not end is stuck
  in a call to which the code gives no timeout, and in nothing else: not in a poll, a
  retry, a join, a bounded queue of conversations, or a wait for what the server may
  never derive.
* `FallbacksAreReported`: a count of 0 means that every question was judged by the
  LLM.
* `UngradedMovesNothing`: accuracy and precision are those of the graded questions.
* `ExitZeroIsEarned`, `SelfBootedServerIsRemoved`: what a CI job sees of a command,
  and what it leaves on the machine.

### Fairness

* `ClientFairness`: the runtime polls the client, the clock runs, the server's
  workers work. `SlowScrape` is under it because time passes during a scrape.
* `ScrapesEnd` says that a scrape ends with an answer or an error. The code has no
  timeout that would see to it. It is assumed in `drain`; `drain_hang` shows what
  happens without it.
* `WF_vars(~AwaitsUntimed /\ Running)` of the runner: every step but those that wait
  for a mint, for the barrier or for a scrape. Connections have a request timeout
  (harness.rs:123), so the calls to the SDK end with an answer or an error. The HTTP
  client of the minter (auth.rs:141) and `PrometheusMetrics::scrape` (metrics.rs:55-70)
  have none, as `drain_hang` shows for the barrier: such a step may never come, and
  `EveryRunEnds` allows a run to be stuck there for ever.
* `WF_vars(Task)` and `WF_vars(Writer)` of the restart scenarios: docker commands and
  the mint end, and so does a call to the server, by an answer, the client's timeout or
  the kill. That docker and the mint end is an assumption: the code has no timeout on
  either. The server itself is under no fairness: it may hang, exit, or never flush.
* `WF_scenarioVars(RunScenario)`: what a scenario does by itself goes on, and its calls
  end. Those of the SDK do so by the request timeout; that the mint, the admin calls and
  the scrapes end is an assumption, as above.
* `CommandsFairness`: what the process does by itself goes on (`Owed`), except where it
  waits for a call without a timeout (`AwaitsUntimed`): the mint of a key in every tier,
  the barrier and the health scrape of the staged probe, the scrape of a soak sample,
  the scenario suites, the docker commands of a self-booted server and of the scenarios
  with one of their own, the preparation of a benchmark run and the scrape for its
  report. Calls of the SDK end within their request timeout (that setting up a
  connection is bounded too is taken from the SDK, which is not in the repository),
  timers and deadlines fire, the runtime polls every worker and every question. No
  failure is owed, and the server owes nothing: no derivation, no extraction, no answer
  to a poll, no reaping of connections.

## 6. Proofs

All theorems are proved by TLAPS for every value of the constants that satisfies
the named assumptions (`PipelineAssumption`, `BarrierAssumption`,
`RunnerAssumption`, `StoreAssumption`, `LifecycleAssumption`,
`ScenarioAssumption`; `ThroughputAssumption`, `SoakAssumption`,
`NamespaceWideAssumption`, `StagedAssumption`, `SingleProbeAssumption`,
`QuestionsAssumption`, `SummaryAssumption`, `PollsAssumption`, `ShardsAssumption`),
which say that sizes are natural numbers
and sets are of the right kind. Four say more: `ThroughputAssumption` that workers,
setup and caller fit under the cap, `SoakAssumption` that the floor is one of
1..`PROBE`, `NamespaceWideAssumption` that some question is about a sibling, and
`ShardsAssumption` that the server has a shard: `rebuild` fails a server that reports
none (rebuild.rs:117), which in the model is a server with the fault `has_shard`. TLC
evaluates all of them on the instances of section 4.

*Barrier* (`DrainBarrierProofs`). `FlushIsSound`, `CountersAreFinal` and
`Refinement` hold under `PollsOutlastPath`: gauges are shown all or none, three
handoffs end within less than `DRAIN_STABLE_POLLS` polls, and a legacy path within
less than `PLATEAU_POLLS`. With the code's constants this is 3·H < 4 polls: a
handoff must be shorter than 250 ms. The comment "Four polls (1 s) spans that
handoff" (drain.rs:71) bounds one handoff, not the sum of three.
`FlushedMeansSettled` is not inductive. `PipelineInv` says that the work of one
memory forms a chain (a worker is not done before its feeder) and that waiting
units respect their limits. `StableBound` then bounds, for every unfinished unit,
how many consecutive empty observations may have been made before it; when
`stable` reaches the threshold no unfinished unit is left. `PlateauBound` does the
same for the plateau, `ReplyExact` carries the conclusion to the snapshot in
flight and `OutcomeExact` to the result.

*Runner* (`EvalRunnerProofs`). `KeyInv`: a plan that is ready has its token.
`BarrierInv`: the pipeline is busy only if something was started, and the verdict
is sound from the barrier on. `ManifestInv`: the in-memory manifest names every
conversation that got beyond planning in persist mode. `LedgerInv`: the store of a
conversation is at least what was counted of it, with equality while nothing has
failed, the session being sent included. `RecordInv`: report and tracker hold
exactly the answers recorded so far, without repetition. `OrderInv`: before the barrier only
failed questions are recorded, each after all of lesser conversation and place; what is
still to be recorded is not less than what has been; reading tasks leave the answers
recorded by the merge alone. It gives `ReportOrderIsScheduleFree`, and with it every
step is a step of `RunContract` or one its reader cannot see (`StepMaps`).
`NoWriterInv`: a read-only run has no writing task. `CompleteInv` is behind
`UnflaggedMeansComplete`: for each conversation `ArrivedInv` says that, while no
failure is flagged, what is stored or was deduplicated is the sum of the turns of the
sessions before the present one plus the position in that one, and that a conversation
which finished without a flag has been through all sessions; a question answered
without a flag belongs to such a conversation. The step from one session to the next
needs the sum of a prefix to grow by the next element (`PartialSums` of `SumLemmas`).
Each is inductive given `TypeOK` and gives one theorem, `OrderInv` two.

*Restart scenarios* (`RestartScenariosProofs`). `ServerInv` relates the handle's
progress, the container and the task: while a handle is held the container has
been healthy and does not replay its log again, and past the last handle there is
no container but one that `docker run` left. `VolatileInv`: rows that a kill can
take exist only under the writer. `RowsInv`: no row is newer than the write in
flight. `AtRestInv` and `AllAckedInv`: a scenario at rest writes the indices below
N, each once, so finding N rows is finding all of them; this is where
`restart_recovery`'s counting is justified, and where it stops being justified on
a server that merges. `VerdictInv`: a verdict, once true, stays so.

*Scenarios* (`ScenariosProofs`). The argument has two halves. The first is about any
script. Its *plot* is a pair of sequences: `told[i]`, what a server without a fault
shows before step i, and `due[i]`, what it has acknowledged and may not show yet. A
script *plays* its plot if no call is made while something is due, each poll that
follows an acknowledgement looks for one of the facts that are due, no check reads
something before it is told, and nothing due can be taken for something older.
`ScenesInv` then says where a run is: while no check has failed, the server holds what
is `told` at the step reached and still has to derive what is `due`, or holds both;
a check that has failed has a cause; and no step already agreed with exposes the
server's fault, so that a fault the scenario is documented to catch cannot get past the
step that reads it. It is kept by every step
(`StepKeeps`), and its last scene gives the three theorems (`FinalScene`). The second
half goes through the scripts and rehearses each one: it names the plot and checks
that the script plays it (`AllRehearsed`). `RebuildRehearsed` does this for any number
of shards, by joining a script and its walk over the shards (`Joined`). So the
theorems hold for every `POLLS` and `SHARDS`, and a change of a script that moves a
check before the poll it depends on breaks its rehearsal.

*Acceptance* (`AcceptanceProofs`). `ConnInv` has two parts. `HeldInv`, of any server:
the connections in use are of the verb being measured, one for each worker that has
connected, or the setup's. `LingersFromOneVerb`, of a server that reaps in time: those
it still counts are of that verb too. Together a verb never has more than its workers
and the setup, which with the caller's are under the cap. `StageInv` ties the stage of the probe to what its workers can be
doing. `ReportInv`: the defects of the verb in progress are exactly what the
tallies already returned, the lost ones and those still held by workers contain;
the join carries that into `results`. `AcceptanceInv` adds that credentials of a
booted server are in the environment only in the stages of `OwnServers`.

*Questions* (`TierProofs`). `MarkInv`: a question marked heuristic has left the
judge. `CountInv`: the counter is the cardinality of the marked questions, by one
lemma on adding an element to a finite set. `AllGradedInv`: nothing is counted after
the counter has been read.

*Staged probe* (`TierProofs`). `SpaceInv`: a conversation that is counted or asked
has all its turns acked in the current space, unless the space the caller named to be
reused lacks some. `AskedInv`: the questions asked so far
are the lesser of the limit and those of the conversations before, plus the reads of
this one. From it `ExitZeroIsEarned` has its number.

*Other tiers* (`TierProofs`). `SampleCounts` and `ProbeCounts` bound what a soak
sample can have missed by what it recalled: recalled and missed markers are
different ones, and there are `PROBE`. `SoakClock`, that a batch is sampled at most
once, keeps the folded samples within their bounds. `WideInv` follows the two answers of each
question, `LinkInv` that a write which passed has its
linking fact in the graph.

*The binary* (`CommandsProofs`). Each command's steps are steps of one module and
stutters of all others, so `CommandsInv`, the conjunction of the invariants above,
is inductive module by module. `ExitInv` and `ServerInv` relate the exit code and
the booted container to the stage of the command, and the parts `SoakTyped`,
`ProbeTyped`, `SettleTyped`, `SummaryInv` and `CliTyped` give `CommandsTypeOK`.
`UngradedMovesNothing` is a statement about `Metrics` alone: taking the graded
results out of a list keeps exactly those that are graded, in their order
(`GradedOnly`, `GradedAll`), so doing it twice is doing it once (`GradedTwice`); and
accuracy and precision are functions of that part (`GradedParts`).

*Induction.* The library's induction theorems take a predicate as a parameter, which
the provers here cannot instantiate. Where a fact about a recursion is needed it is
stated of a set of numbers instead, and induction is by the least number that is not
in it (`LeastNat`, `NatSetInduction` of `SumLemmas`; `KeptSteps` of `CommandsProofs`).

*Only model-checked.* Liveness (`EventuallyReturns`, `EveryRunEnds`,
`EveryScenarioEnds`, `ScenarioEnds`, `EveryCommandExits`), which is out of the
prover's reach. Every other property of a run that passes is also a theorem.

## 7. Disagreements between code and documentation

Each of these is a run that TLC ends with a counterexample:

* `drain_partial_gauge`: the gauges that are present are summed, so one worker
  without a series is not waited for (drain.rs:95 against :105).
* `drain_hang`: the hard cap does not bound a scrape that hangs (drain.rs:78,
  :133; metrics.rs:55-70).
* `runner_tracker`: graded questions are tracked only after the whole read phase,
  not "as it goes" (runner.rs:690 against brain-eval.rs:488).
* `graceful_loss`: `graceful_shutdown_drain` asks RECALL whether writes survived
  and calls a late derivation data loss (durability.rs:222 against mod.rs:558).
* `runner_verify`: `verify_memory_list` "never aborts the run" (runner.rs:1160-1161),
  but a first page that fails leaves nothing listed, and its assertion (1230) ends the
  run without a report.
* `connection_cap`: the connections that are held under the server's cap
  (throughput.rs:36-38, :760) are those of one verb. Between two verbs the probe sleeps
  a second and looks at none (:326), so a server that still counts those of the verb
  before refuses some, which the report calls errors of the server.
* `namespace_lag`: the settle poll is there so that "a later baseline MISS is genuinely a
  scope miss, not lag" (namespace_wide.rs:220-222), but it looks for one fact of one
  sibling.

Seen while modelling, and only noted:

* The total of write counts adds those of a conversation once per question asked of it
  (metrics.rs:381, against "Total ENCODEs that produced a fresh memory" at :133).
* A read-only run with `persist_spaces` set overwrites the manifest with an empty one
  (runner.rs:716; config.rs:52 speaks of an ingesting run).
* The accuracy per question type counts an ungraded question as a wrong one, the overall
  accuracy of the same report leaves it out (metrics.rs:333 against :151).
* A conversation whose reconnect fails has no ledger row and loses its
  `ingest_failed` flag; a retrieval-only run reports failed conversations as
  Incorrect; a read-only run flags a missing space as an ingest failure.
* Failed conversations are recorded before the questions in instance order
  (comment at runner.rs:541-545).
* The manifest names a space at planning, so a read-only run grades a
  conversation that was written incompletely without any flag.
* A `docker run` that fails after creating the container leaves container and
  volume until the next boot of that name (server.rs:553 against durability.rs:21,
  :34 and chaos.rs:21). `NothingLeftBehind` exempts exactly this.
* A batch of `kill_during_write` may fill before `KILL_DELAY` is over, so the kill
  is not always "mid-stream" (chaos.rs:36 against :177); and duplicates, which its
  header mentions (17-19), are not looked for.
* `restart_recovery` counts rows, so a server that merges near-duplicates fails it
  without having lost anything.
* Scenarios: `schema_transition` takes any error for the rejection it wants; the
  audit listing is not scoped to the scenario's own rows; `read_introspect`
  documents a graph lane and a confidence threshold that no check reads;
  `backfill` returns early from a failure with its job still running, which
  `PassLeavesNothing` leaves out.
* The second half of the namespace-wide criterion (namespace_wide.rs:294-296) is not
  evaluated.
* Throughput: a verb whose setup timed out is clean although it never ran
  (throughput.rs:239 says "Every verb ran"), and its latency gate over no operation
  holds.
* Soak: "any failed op fails the run" (soak.rs:6-7) does not hold for the drift
  probe, whose misses the recall floor forgives; latency and resident size after the
  last sample are judged by nothing; failing scrapes of the resident size switch the
  leak rule off.
* Acceptance: `publish_env_credentials` is documented for one server per process,
  while a full acceptance run boots more. They come last, and this is all that
  `EveryMintReachesItsServer` rests on.
* Staged probe: a failed operation discards the report; conversations come in key
  order and not in "encounter order" (staged.rs:588); the drain poll takes a fact of
  any of five hits for the last turn's (staged.rs:481).
* Single probe: `poll_graph` stops at any fact, so a link that arrives a moment later
  is a failed write.
* LLM client: three attempts have two backoffs and not the three of llm.rs:113. A
  recall that failed on an abstention question can be graded Correct. The module
  comment of judge.rs says the LLM path is not wired; it is.
* Retrieval: `relevant` is taken from what was retrieved (retrieval.rs:122), so a
  question whose memories all miss has a normalised gain of 1.0 in the mean.

## 8. What is not modelled

*Pure functions of their input*: wording, layout and rendering of reports (text,
HTML, JSON), the dataset parsers and the question sets compiled in, the core types,
prompts and the parsing of replies, the hex encoding of the manifest, the Prometheus
text format, the arguments given to docker, images and model mounts.

*Numbers*: latencies, percentiles, token sums, write quality, the bootstrap and paired statistics.
Thresholds on them (performance gates, latency drift, resident size) may go either
way in the models.

*Sequential measurements*: `run_scale` and `run_recall_quality` put operations
through one connection and compare the result with a threshold; they enter the
acceptance run as a gate that holds or not. The meta judge is an audit of finished
reports, made offline.

*Calls*: the HTTP exchanges of minting, delegation and administration; what a model or
a judge answers; attaching to an external server. Bodies of
`/metrics` are read whole or blank, never cut. An encode that times out and is
applied only after the barrier has returned is not in `EvalRunner`. Failure to write
the final report. `docker rm` on an existing container is assumed to succeed.

## 9. Plan

What is left, in this order:

1. *The composition of `EvalRunner` with `Questions`*: a run's results are graded by
   the judge of `Questions`, with the fallback counter read where `run` reads it.
2. *Statistics* (`bench/score/stats.rs`, latency percentiles) and the two sequential
   measurements of the scale tier, as operators checked against reference
   definitions.
3. *Two hazards without a property*: the ledger row of a conversation whose
   reconnect fails (runner.rs:586) and a manifest that names a space which was
   written incompletely (runner.rs:363). For both the code and its documents leave
   open what is owed; a property can be stated once that is decided.
