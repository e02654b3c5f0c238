------------------------------ MODULE Throughput ------------------------------
(***************************************************************************)
(* The concurrent throughput probe of src/src/blackbox/scale/throughput.rs:*)
(* verb after verb, a setup connection prepares what the workers need,     *)
(* then every worker drives the verb over a connection of its own until    *)
(* the deadline, and the workers' tallies are joined.  The server admits   *)
(* CAP connections from one address.                                       *)
(***************************************************************************)
EXTENDS Naturals, Sequences, FiniteSets

CONSTANTS
    Workers,     \* cfg.clients
    VERBS,       \* how many verbs are measured
    CAP,         \* the server's max_connections_per_ip
    MAX_CALLS,   \* bound on the calls of a worker before its deadline
    REAPS_IN_TIME   \* a second after it was closed the server no longer counts a connection

ASSUME ThroughputAssumption ==
    /\ IsFiniteSet(Workers)
    /\ Cardinality(Workers) + 2 <= CAP   \* 48 clients, the setup and the caller under 64
    /\ CAP \in Nat
    /\ VERBS \in Nat \ {0}
    /\ MAX_CALLS \in Nat
    /\ REAPS_IN_TIME \in BOOLEAN
    /\ "setup" \notin Workers

VARIABLES
    tput,      \* the stage of the probe
    verb,      \* the verb being measured
    wk,        \* what each worker is doing
    stat,      \* each worker's WorkerStat
    tally,     \* what measure_verb has joined
    late,      \* the deadline of the verb has passed
    held,      \* the connections in use, by verb and user
    linger,    \* the closed connections the server still counts
    results,   \* the VerbThroughput of the verbs measured so far, as the gates read it
    defects    \* the verbs during which a real error or a panic happened

tputVars == <<tput, verb, wk, stat, tally, late, held, linger, results, defects>>

Zero  == [ops |-> 0, errors |-> 0, timeouts |-> 0]
Stats == [ops : Nat, errors : Nat, timeouts : Nat]
VerbVerdicts == [served : BOOLEAN, clean : BOOLEAN]
Conns == (1..VERBS) \X (Workers \cup {"setup"})

ThroughputTypeOK ==
    /\ tput \in {"mint", "dial", "prepare", "load", "pause", "done", "unminted", "returned"}
    /\ verb \in 1..VERBS
    /\ wk \in [Workers -> {"idle", "dialing", "working", "finished", "panicked", "joined"}]
    /\ stat \in [Workers -> Stats]
    /\ tally \in Stats
    /\ late \in BOOLEAN
    /\ held \subseteq Conns
    /\ linger \subseteq Conns
    /\ results \in Seq(VerbVerdicts)
    /\ defects \subseteq 1..VERBS

ThroughputInit ==
    /\ tput = "mint"
    /\ verb = 1
    /\ wk = [w \in Workers |-> "idle"]
    /\ stat = [w \in Workers |-> Zero]
    /\ tally = Zero
    /\ late = FALSE
    /\ held = {}
    /\ linger = {}
    /\ results = <<>>
    /\ defects = {}

\* record_err: a timeout is slowness, anything else is a defect.
Kinds == {"errors", "timeouts"}

Recorded(s, kind) == [s EXCEPT ![kind] = @ + 1]

\* VerbThroughput: whether the verb did any work, and clean.
VerdictOf(t) == [served |-> t.ops > 0, clean |-> t.errors = 0]

NoteDefect(kind) == defects' = IF kind = "errors" THEN defects \cup {verb} ELSE defects

\* One space and one token for every connection of the run.
Mint ==
    /\ tput = "mint"
    /\ tput' \in {"dial", "unminted"}
    /\ UNCHANGED <<verb, wk, stat, tally, late, held, linger, results, defects>>

Setup == <<verb, "setup">>

SetupConnects ==
    /\ tput = "dial"
    /\ tput' = "prepare"
    /\ held' = held \cup {Setup}
    /\ UNCHANGED <<verb, wk, stat, tally, late, linger, results, defects>>

NextVerb == IF verb = VERBS THEN "done" ELSE "pause"

\* verb_setup_failed: no worker runs, and the failure is all the verb reports.
SetupFails ==
    \E kind \in Kinds :
        /\ tput \in {"dial", "prepare"}
        /\ results' = Append(results, VerdictOf(Recorded(Zero, kind)))
        /\ NoteDefect(kind)
        /\ tput' = NextVerb
        /\ held' = held \ {Setup}
        /\ linger' = linger \cup (held \cap {Setup})
        /\ UNCHANGED <<verb, wk, stat, tally, late>>

\* prepare has created an entity for every worker, the setup connection is closed and
\* the workers are spawned.
SpawnWorkers ==
    /\ tput = "prepare"
    /\ tput' = "load"
    /\ held' = held \ {Setup}
    /\ linger' = linger \cup {Setup}
    /\ wk' = [w \in Workers |-> "dialing"]
    /\ UNCHANGED <<verb, stat, tally, late, results, defects>>

Deadline ==
    /\ tput = "load"
    /\ ~late
    /\ late' = TRUE
    /\ UNCHANGED <<tput, verb, wk, stat, tally, held, linger, results, defects>>

-----------------------------------------------------------------------------
\* worker_loop.

WorkerConnects(w) ==
    /\ wk[w] = "dialing"
    /\ wk' = [wk EXCEPT ![w] = "working"]
    /\ held' = held \cup {<<verb, w>>}
    /\ UNCHANGED <<tput, verb, stat, tally, late, linger, results, defects>>

WorkerConnectFails(w) ==
    \E kind \in Kinds :
        /\ wk[w] = "dialing"
        /\ wk' = [wk EXCEPT ![w] = "finished"]
        /\ stat' = [stat EXCEPT ![w] = Recorded(@, kind)]
        /\ NoteDefect(kind)
        /\ UNCHANGED <<tput, verb, tally, late, held, linger, results>>

Calls(w) == stat[w].ops + stat[w].errors + stat[w].timeouts

\* run_one: a call that began before the deadline is counted, however long it takes.
WorkerCalls(w) ==
    \E kind \in Kinds \cup {"ops"} :
        /\ wk[w] = "working"
        /\ ~late
        /\ Calls(w) < MAX_CALLS
        /\ stat' = [stat EXCEPT ![w] = Recorded(@, kind)]
        /\ NoteDefect(kind)
        /\ UNCHANGED <<tput, verb, wk, tally, late, held, linger, results>>

WorkerFinishes(w) ==
    /\ wk[w] = "working"
    /\ late
    /\ wk' = [wk EXCEPT ![w] = "finished"]
    /\ held' = held \ {<<verb, w>>}
    /\ linger' = linger \cup {<<verb, w>>}
    /\ UNCHANGED <<tput, verb, stat, tally, late, results, defects>>

\* The task panics: its tally is lost and its connection dropped.
WorkerPanics(w) ==
    /\ wk[w] \in {"dialing", "working"}
    /\ wk' = [wk EXCEPT ![w] = "panicked"]
    /\ held' = held \ {<<verb, w>>}
    /\ linger' = linger \cup (held \cap {<<verb, w>>})
    /\ defects' = defects \cup {verb}
    /\ UNCHANGED <<tput, verb, stat, tally, late, results>>

-----------------------------------------------------------------------------
\* measure_verb, from join_next on.

Plus(s, t) ==
    [ops |-> s.ops + t.ops, errors |-> s.errors + t.errors, timeouts |-> s.timeouts + t.timeouts]

JoinAnyway(w) ==   \* Faulty variant of Join: a panicked task adds nothing.
    /\ tput = "load"
    /\ wk[w] \in {"finished", "panicked"}
    /\ tally' = IF wk[w] = "finished" THEN Plus(tally, stat[w]) ELSE tally
    /\ wk' = [wk EXCEPT ![w] = "joined"]
    /\ stat' = [stat EXCEPT ![w] = Zero]
    /\ UNCHANGED <<tput, verb, late, held, linger, results, defects>>

\* A panicked task counts as one error.
Join(w) ==
    /\ tput = "load"
    /\ wk[w] \in {"finished", "panicked"}
    /\ tally' = IF wk[w] = "finished" THEN Plus(tally, stat[w]) ELSE Recorded(tally, "errors")
    /\ wk' = [wk EXCEPT ![w] = "joined"]
    /\ stat' = [stat EXCEPT ![w] = Zero]
    /\ UNCHANGED <<tput, verb, late, held, linger, results, defects>>

ReportVerb ==
    /\ tput = "load"
    /\ \A w \in Workers : wk[w] = "joined"
    /\ results' = Append(results, VerdictOf(tally))
    /\ tput' = NextVerb
    /\ wk' = [w \in Workers |-> "idle"]
    /\ tally' = Zero
    /\ late' = FALSE
    /\ UNCHANGED <<verb, stat, held, linger, defects>>

PauseTooShort ==   \* Faulty variant of Pause: the next verb starts at once.
    /\ tput = "pause"
    /\ verb' = verb + 1
    /\ tput' = "dial"
    /\ UNCHANGED <<linger, wk, stat, tally, late, held, results, defects>>

\* The second between two verbs.  The probe sleeps it and looks at no connection: what the
\* server still counts afterwards is the server's affair.
Pause ==
    /\ tput = "pause"
    /\ verb' = verb + 1
    /\ tput' = "dial"
    /\ linger' = IF REAPS_IN_TIME THEN {} ELSE linger
    /\ UNCHANGED <<wk, stat, tally, late, held, results, defects>>

\* run_concurrent_throughput returns its report, and its locals are gone.
ReturnReport ==
    /\ tput \in {"done", "unminted"}
    /\ tput' = "returned"
    /\ verb' = 1
    /\ results' = <<>>
    /\ defects' = {}
    /\ UNCHANGED <<wk, stat, tally, late, held, linger>>

\* The server, at any time, or never.
Reap ==
    \E c \in linger :
        /\ linger' = linger \ {c}
        /\ UNCHANGED <<tput, verb, wk, stat, tally, late, held, results, defects>>

Worker(w) ==
    \/ WorkerConnects(w) \/ WorkerConnectFails(w) \/ WorkerCalls(w)
    \/ WorkerFinishes(w) \/ WorkerPanics(w)

Measure ==
    \/ Mint \/ SetupConnects \/ SetupFails \/ SpawnWorkers
    \/ (\E w \in Workers : Join(w)) \/ ReportVerb \/ Pause

ThroughputNext ==
    Measure \/ ReturnReport \/ Deadline \/ Reap \/ \E w \in Workers : Worker(w)

\* The HTTP call that mints the key is the one call without a timeout.
ThroughputWaits == tput = "mint"

\* The other calls end by their request timeout, and the window passes.
ThroughputFairness ==
    /\ WF_tputVars(~ThroughputWaits /\ (Measure \/ ReturnReport))
    /\ WF_tputVars(Deadline)
    /\ \A w \in Workers : WF_tputVars(Worker(w))

ThroughputSpec == ThroughputInit /\ [][ThroughputNext]_tputVars /\ ThroughputFairness

-----------------------------------------------------------------------------
\* ConcurrentReport.

NoErrors ==
    /\ results # <<>>
    /\ \A i \in 1..Len(results) : results[i].clean
    /\ \E i \in 1..Len(results) : results[i].served

\* A verb without work is under its floor, whatever the machine; its latency, over no
\* samples, is 0 and within every budget.
MeetsFloors == \A i \in 1..Len(results) : results[i].served

-----------------------------------------------------------------------------
\* Properties.

\* Against a server that stops counting a closed connection within the pause between two
\* verbs, the probe and its caller, which keeps its own connection open, never have more
\* connections, as the server counts them, than one address may: a refused connection
\* would be reported as a defect of the server.  Within a verb the setup connection and
\* those of workers that failed or finished early still count.
UnderTheCap == REAPS_IN_TIME => Cardinality(held \cup linger) + 1 <= CAP

\* The same of every server: "brain-server caps `max_connections_per_ip` at 64 and every
\* eval connection shares one source IP, so the default client count is held under that
\* cap" (src/src/blackbox/scale/throughput.rs:36-38).  The count is that of one verb.
NeverOverTheCap == Cardinality(held \cup linger) + 1 <= CAP

\* A verb is reported clean if and only if no worker met an error other than a timeout,
\* and none panicked, whenever the failure came and in whatever order they are joined.
CleanMeansNoDefect ==
    \A i \in 1..Len(results) : results[i].clean <=> i \notin defects
=============================================================================
