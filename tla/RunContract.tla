---------------------------- MODULE RunContract ----------------------------
(***************************************************************************)
(* What a reader of a run's results may rely on, without how the run comes *)
(* by them: they are a log.  The questions that could not be asked come    *)
(* first, those that were read back follow in instance order, none comes   *)
(* twice, and nothing logged is taken back or changed, however the run     *)
(* ends.  A later run starts a log of its own.                             *)
(***************************************************************************)
EXTENDS Naturals, Sequences

CONSTANTS
    Questions,   \* the instances, by their place in the benchmark
    Failure      \* the result of a question that could not be asked

VARIABLES
    log,     \* the results, each with its question
    phase    \* "writing", "reading" or "over"

Logged == {log[i].question : i \in DOMAIN log}

Init ==
    /\ log = <<>>
    /\ phase = "writing"

\* One result is appended.
Logs(entry) ==
    /\ entry.question \in Questions \ Logged
    /\ log' = Append(log, entry)
    /\ UNCHANGED phase

Latest(entries) == entries[Len(entries)]

LogFailure ==
    /\ phase = "writing"
    /\ log' # <<>>
    /\ Logs(Latest(log'))
    /\ Latest(log').result = Failure

StartReading ==
    /\ phase = "writing"
    /\ phase' = "reading"
    /\ UNCHANGED log

LogAnswer ==
    /\ phase = "reading"
    /\ log' # <<>>
    /\ Logs(Latest(log'))
    /\ Latest(log').result # Failure
    /\ \A i \in DOMAIN log :
         log[i].result = Failure \/ log[i].question < Latest(log').question

End ==
    /\ phase # "over"
    /\ phase' = "over"
    /\ UNCHANGED log

NewRun ==
    /\ phase = "over"
    /\ phase' = "writing"
    /\ log' = <<>>

Next == LogFailure \/ StartReading \/ LogAnswer \/ End \/ NewRun

vars == <<log, phase>>

Spec == Init /\ [][Next]_vars

=============================================================================
