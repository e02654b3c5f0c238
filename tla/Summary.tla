------------------------------- MODULE Summary -------------------------------
(***************************************************************************)
(* The summary command of src/src/bin/brain-eval.rs: the streamed results  *)
(* of a run, interrupted perhaps, are read line by line and aggregated     *)
(* again.  A line cut short by the interruption does not parse.            *)
(***************************************************************************)
EXTENDS Metrics

CONSTANTS
    FileResults,   \* the results a partial file may hold
    FILE_LINES     \* bound on its lines

ASSUME SummaryAssumption == FileResults \subseteq QuestionResults /\ FILE_LINES \in Nat

VARIABLES
    summary,      \* the stage of the command
    file,         \* the lines not yet read
    parsed,       \* the results read
    unparseable   \* the lines that were none

summaryVars == <<summary, file, parsed, unparseable>>

Lines == {<<"result", r>> : r \in FileResults} \cup {<<"blank">>, <<"cut">>}

SummaryTypeOK ==
    /\ summary \in {"usage", "open", "read", "unreadable", "empty", "printed"}
    /\ file \in BoundedSeq(Lines, FILE_LINES)
    /\ parsed \in BoundedSeq(FileResults, FILE_LINES)
    /\ unparseable \in 0..FILE_LINES

SummaryInit ==
    /\ summary \in {"usage", "open"}     \* without and with a path
    /\ file \in BoundedSeq(Lines, FILE_LINES)
    /\ parsed = <<>>
    /\ unparseable = 0

Open ==
    /\ summary = "open"
    /\ summary' \in {"read", "unreadable"}
    /\ UNCHANGED <<file, parsed, unparseable>>

ParseLine ==
    /\ summary = "read"
    /\ file # <<>>
    /\ file' = Tail(file)
    /\ parsed' = IF Head(file)[1] = "result" THEN Append(parsed, Head(file)[2]) ELSE parsed
    /\ unparseable' = IF Head(file)[1] = "cut" THEN unparseable + 1 ELSE unparseable
    /\ UNCHANGED summary

\* Metrics of no results would be no metrics: an empty file is an error.
PrintMetrics ==
    /\ summary = "read"
    /\ file = <<>>
    /\ summary' = IF parsed = <<>> THEN "empty" ELSE "printed"
    /\ UNCHANGED <<file, parsed, unparseable>>

SummaryNext == Open \/ ParseLine \/ PrintMetrics

-----------------------------------------------------------------------------
\* Properties.

SameShape(a, b) ==
    /\ \A kind \in AnswerKinds \ {"Error"} : SameMean(a.accuracy[kind], b.accuracy[kind])
    /\ SameMean(a.precision, b.precision)

\* A question no judge read moves no accuracy and no precision, up or down: what
\* compute_full_metrics reports of a run is what it would report of its graded part.
UngradedMovesNothing ==
    summary = "printed" =>
        LET all    == FullMetrics(parsed)
            graded == FullMetrics(Graded(parsed))
        IN  /\ SameMean(all.overall.accuracy, graded.overall.accuracy)
            /\ SameShape(all.shape, graded.shape)
=============================================================================
