------------------------------ MODULE Questions ------------------------------
(***************************************************************************)
(* run_question of src/src/bench/runner.rs over the questions in flight at *)
(* one time, with the LLM client, the synthesizer and the judge they       *)
(* share: src/src/llm.rs, src/src/bench/synthesize.rs and                  *)
(* src/src/bench/score/llm_judge.rs.  The provider may answer every        *)
(* attempt as it likes.  A question of a conversation that could not be    *)
(* ingested or connected to is recorded without a judge and is none of     *)
(* these.                                                                  *)
(***************************************************************************)
EXTENDS Integers, FiniteSets

CONSTANTS
    InFlight,      \* the questions read concurrently
    MAX_RETRIES    \* the attempts of one completion, 3 in the code

ASSUME QuestionsAssumption == IsFiniteSet(InFlight) /\ MAX_RETRIES \in Nat \ {0}

VARIABLES
    grading,     \* [llm, retrieval_only]: the judge in use and the mode of the run
    ask,         \* where each question is
    tries,       \* the attempts of the completion it waits for
    answer,      \* what came of it so far
    fallbacks,   \* the judge's heuristic_fallbacks
    reported     \* meta.judge_heuristic_fallbacks, once the run has read it

questionVars == <<grading, ask, tries, answer, fallbacks, reported>>

NotReported == -1

Stages == {"recall", "synth", "verdict", "support", "attribute", "graded"}

NoAnswer ==
    [found |-> FALSE, failed |-> FALSE, verdict |-> "none", heuristic |-> FALSE,
     supported |-> "unknown", stage |-> "none"]

Answers ==
    [found : BOOLEAN, failed : BOOLEAN,
     verdict : {"none", "Correct", "Partial", "Incorrect", "NotJudged"}, heuristic : BOOLEAN,
     supported : {"yes", "no", "unknown"},
     stage : {"none", "abstention", "dropped", "missed", "unknown"}]

QuestionsTypeOK ==
    /\ grading \in [llm : BOOLEAN, retrieval_only : BOOLEAN]
    /\ ask \in [InFlight -> Stages]
    /\ tries \in [InFlight -> 0..MAX_RETRIES]
    /\ answer \in [InFlight -> Answers]
    /\ fallbacks \in 0..Cardinality(InFlight)
    /\ reported \in NotReported..Cardinality(InFlight)

QuestionsInit ==
    /\ grading \in [llm : BOOLEAN, retrieval_only : BOOLEAN]
    /\ ask = [q \in InFlight |-> "recall"]
    /\ tries = [q \in InFlight |-> 0]
    /\ answer = [q \in InFlight |-> NoAnswer]
    /\ fallbacks = 0
    /\ reported = NotReported

\* The question goes on to a stage, with no attempt made there.
GoesTo(q, stage) ==
    /\ ask' = [ask EXCEPT ![q] = stage]
    /\ tries' = [tries EXCEPT ![q] = 0]

\* Past the recall: a retrieval-only run synthesizes nothing and judges nothing.
Recalls(q) ==
    \E found \in BOOLEAN :
        /\ ask[q] = "recall"
        /\ answer' = [answer EXCEPT ![q].found = found,
                        ![q].verdict = IF grading.retrieval_only THEN "NotJudged" ELSE "none"]
        /\ GoesTo(q, IF grading.retrieval_only THEN "graded" ELSE "synth")
        /\ UNCHANGED <<grading, fallbacks, reported>>

\* A failed recall leaves an empty answer, which is judged all the same.
RecallFails(q) ==
    /\ ask[q] = "recall"
    /\ answer' = [answer EXCEPT ![q].failed = TRUE,
                    ![q].verdict = IF grading.retrieval_only THEN "NotJudged" ELSE "none"]
    /\ GoesTo(q, IF grading.retrieval_only THEN "graded" ELSE "verdict")
    /\ UNCHANGED <<grading, fallbacks, reported>>

-----------------------------------------------------------------------------
\* complete_inner.

\* The stages of a question that wait for the provider: the synthesizer declines and the
\* support judge denies over no memories without a call.
Completes(q) ==
    /\ grading.llm
    /\ \/ ask[q] = "verdict"
       \/ ask[q] \in {"synth", "support"} /\ answer[q].found

Sending(q) == Completes(q) /\ tries[q] < MAX_RETRIES

\* A network error, a 5xx and a 429 are tried again after the backoff; after the last
\* attempt there is none.  Any other failure ends the completion at once.
AttemptFails(q) ==
    /\ Sending(q)
    /\ tries' = [tries EXCEPT ![q] = @ + 1]
    /\ UNCHANGED <<grading, ask, answer, fallbacks, reported>>

-----------------------------------------------------------------------------
\* LlmSynthesizer, LlmJudge and the heuristics they fall back to.

\* The reply to any attempt, the heuristic block if there is none or it is empty, or the
\* heuristic altogether.
Synthesizes(q) ==
    /\ ask[q] = "synth"
    /\ GoesTo(q, "verdict")
    /\ UNCHANGED <<grading, answer, fallbacks, reported>>

\* The grade is in; a question whose recall failed is not asked for support.
Judged(q, verdict, heuristic) ==
    /\ answer' = [answer EXCEPT ![q].verdict = verdict, ![q].heuristic = heuristic]
    /\ GoesTo(q, IF answer[q].failed THEN "graded" ELSE "support")

\* parse_verdict is binary.
Verdict(q) ==
    \E verdict \in {"Correct", "Incorrect"} :
        /\ ask[q] = "verdict"
        /\ Sending(q)
        /\ Judged(q, verdict, FALSE)
        /\ UNCHANGED <<grading, fallbacks, reported>>

\* Faulty variant of FallsBack: only a call that failed counts, not an unparseable reply.
FallsBackUncounted(q) ==
    \E verdict \in {"Correct", "Partial", "Incorrect"} :
        /\ ask[q] = "verdict"
        /\ grading.llm
        /\ Judged(q, verdict, TRUE)
        /\ fallbacks' \in {fallbacks, fallbacks + 1}
        /\ UNCHANGED <<grading, reported>>

\* The call failed, or its reply does not parse: the heuristic grades, and it counts.
FallsBack(q) ==
    \E verdict \in {"Correct", "Partial", "Incorrect"} :
        /\ ask[q] = "verdict"
        /\ grading.llm
        /\ Judged(q, verdict, TRUE)
        /\ fallbacks' = fallbacks + 1
        /\ UNCHANGED <<grading, reported>>

\* A run without an LLM judge.
Heuristic(q) ==
    \E verdict \in {"Correct", "Partial", "Incorrect"} :
        /\ ask[q] = "verdict"
        /\ ~grading.llm
        /\ Judged(q, verdict, TRUE)
        /\ UNCHANGED <<grading, fallbacks, reported>>

\* judge_support: nothing retrieved supports nothing; no usable reply is no verdict.
SupportOf(q) ==
    IF ~grading.llm THEN {"unknown"}
    ELSE IF ~answer[q].found THEN {"no"}
    ELSE {"unknown"} \cup (IF Sending(q) THEN {"yes", "no"} ELSE {})

Supports(q) ==
    \E supported \in SupportOf(q) :
        /\ ask[q] = "support"
        /\ answer' = [answer EXCEPT ![q].supported = supported]
        /\ GoesTo(q, "attribute")
        /\ UNCHANGED <<grading, fallbacks, reported>>

FailStage(correct, found, supported) ==
    IF correct THEN "none"
    ELSE IF ~found THEN "abstention"
    ELSE CASE supported = "yes" -> "dropped"
           [] supported = "no" -> "missed"
           [] OTHER -> "unknown"

Attributes(q) ==
    /\ ask[q] = "attribute"
    /\ answer' = [answer EXCEPT ![q].stage =
                    FailStage(answer[q].verdict = "Correct", answer[q].found, answer[q].supported)]
    /\ GoesTo(q, "graded")
    /\ UNCHANGED <<grading, fallbacks, reported>>

\* Faulty variant of Reports: the count is read while questions are still graded.
ReportsEarly ==
    /\ reported = NotReported
    /\ \E q \in InFlight : ask[q] = "graded"
    /\ reported' = fallbacks
    /\ UNCHANGED <<grading, ask, tries, answer, fallbacks>>

\* The runner reads the count when every question of the run is graded.
Reports ==
    /\ reported = NotReported
    /\ \A q \in InFlight : ask[q] = "graded"
    /\ reported' = fallbacks
    /\ UNCHANGED <<grading, ask, tries, answer, fallbacks>>

Question(q) ==
    \/ Recalls(q) \/ RecallFails(q) \/ AttemptFails(q) \/ Synthesizes(q) \/ Verdict(q)
    \/ FallsBack(q) \/ Heuristic(q) \/ Supports(q) \/ Attributes(q)

QuestionsNext == (\E q \in InFlight : Question(q)) \/ Reports

QuestionsFairness == \A q \in InFlight : WF_questionVars(Question(q))

QuestionsSpec == QuestionsInit /\ [][QuestionsNext]_questionVars /\ QuestionsFairness

-----------------------------------------------------------------------------
\* Properties.

\* The report counts exactly the questions of an LLM-judged run that the heuristic
\* graded, whichever way the judge failed them: with a count of 0 the run is LLM-judged
\* throughout.
FallbacksAreReported ==
    reported # NotReported /\ grading.llm =>
        reported = Cardinality({q \in InFlight : answer[q].heuristic})
=============================================================================
