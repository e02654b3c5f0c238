------------------------------- MODULE Metrics -------------------------------
(***************************************************************************)
(* The aggregates of src/src/bench/score over the results of a run.  A     *)
(* score counts in halves, a mean is the pair of its sum and its number,   *)
(* and a discounted gain counts in hundredths.                             *)
(***************************************************************************)
EXTENDS Naturals, Sequences, FiniteSets, SequencesExt

Verdicts    == {"Correct", "Partial", "Incorrect", "NotJudged"}
AnswerKinds == {"Single", "Many", "None", "Error"}

\* What the aggregates read of a QuestionResult: found is whether any memory came back
\* rank the place of the first relevant one, 0 if there is none, and gold whether the
\* question has a ground truth.
QuestionResults ==
    [type : {"SingleHop", "Abstention"}, verdict : Verdicts, kind : AnswerKinds,
     declines : BOOLEAN, supported : {"yes", "no", "unknown"}, gold : BOOLEAN,
     found : BOOLEAN, rank : Nat, ingestionFailed : BOOLEAN, retrievalFailed : BOOLEAN]

Score(verdict) == CASE verdict = "Correct" -> 2 [] verdict = "Partial" -> 1 [] OTHER -> 0

IsGraded(r) == r.verdict # "NotJudged"

\* The results a judge read, in their order: kept[n] is what the first n leave.
Graded(rs) ==
    LET kept[n \in 0..Len(rs)] ==
            IF n = 0 THEN <<>>
            ELSE IF IsGraded(rs[n]) THEN Append(kept[n - 1], rs[n]) ELSE kept[n - 1]
    IN  kept[Len(rs)]

Count(rs, P(_)) == Len(SelectSeq(rs, P))

Total(rs, f(_)) == FoldLeft(LAMBDA sum, r : sum + f(r), 0, rs)

\* A mean of nothing is reported as 0.
Mean(sum, number) == [sum |-> sum, of |-> number]

Denominator(mean) == IF mean.of = 0 THEN 1 ELSE mean.of

SameMean(a, b) == a.sum * Denominator(b) = b.sum * Denominator(a)

MeanScore(rs) == Mean(Total(rs, LAMBDA r : Score(r.verdict)), Len(rs))

\* The three tallies compare the score, not the verdict.
Scored(rs, score) == Count(rs, LAMBDA r : Score(r.verdict) = score)

Tallies(rs) ==
    [accuracy |-> MeanScore(rs), count |-> Len(rs), correct |-> Scored(rs, 2),
     partial |-> Scored(rs, 1), incorrect |-> Len(rs) - Scored(rs, 2) - Scored(rs, 1)]

\* aggregate_dimensions: the same tallies per type, over every result of the type.
Dimensions(rs) ==
    [type \in {rs[i].type : i \in DOMAIN rs} |-> Tallies(SelectSeq(rs, LAMBDA r : r.type = type))]

\* is_decline: the phrases that mark an answer as no assertion.
Committed(r) == r.kind \in {"Single", "Many"} /\ ~r.declines

\* Faulty variant of Precision: an answer no judge read is not wrong.
PrecisionOverAll(rs) ==
    LET committed == SelectSeq(rs, Committed)
    IN  Mean(Count(committed, LAMBDA r : r.verdict # "Incorrect"), Len(committed))

\* committed_precision: how many of the graded commitments are not incorrect.
Precision(rs) ==
    LET committed == SelectSeq(Graded(rs), Committed)
    IN  Mean(Count(committed, LAMBDA r : r.verdict # "Incorrect"), Len(committed))

OfKind(rs, kind) == SelectSeq(rs, LAMBDA r : r.kind = kind)

\* compute_answer_shape: the counts count every question, the accuracies the graded ones.
AnswerShape(rs) ==
    [count     |-> [kind \in AnswerKinds |-> Len(OfKind(rs, kind))],
     accuracy  |-> [kind \in AnswerKinds \ {"Error"} |-> MeanScore(OfKind(Graded(rs), kind))],
     committed |-> Count(rs, Committed),
     precision |-> Precision(rs)]

-----------------------------------------------------------------------------
\* score/retrieval.rs: the questions that have a ranked list to score.

Ranked(rs) ==
    SelectSeq(rs, LAMBDA r : r.found /\ r.gold /\ ~r.retrievalFailed /\ ~r.ingestionFailed)

RecallAt(rs, k) == Mean(Count(Ranked(rs), LAMBDA r : r.rank \in 1..k), Len(Ranked(rs)))

Gain == <<100, 63, 50, 43, 39, 36, 33, 32, 30, 29>>   \* 1 / log2(rank + 1)

\* ndcg_at_k with the one relevant memory: 1 if nothing retrieved is relevant.
Ndcg(r, k) ==
    IF r.rank = 0 THEN Gain[1]
    ELSE IF r.rank > k THEN 0 ELSE Gain[r.rank]

NdcgAt(rs, k) == Mean(Total(Ranked(rs), LAMBDA r : Ndcg(r, k)), Len(Ranked(rs)))

\* reciprocal_rank, in sixtieths.
ReciprocalRank(rs) ==
    Mean(Total(Ranked(rs), LAMBDA r : IF r.rank = 0 THEN 0 ELSE 60 \div r.rank), Len(Ranked(rs)))

Retrieval(rs) ==
    IF \A i \in DOMAIN rs : ~rs[i].found THEN [none |-> TRUE]
    ELSE [recall1 |-> RecallAt(rs, 1), recall5 |-> RecallAt(rs, 5), recall10 |-> RecallAt(rs, 10),
          ndcg5 |-> NdcgAt(rs, 5), ndcg10 |-> NdcgAt(rs, 10), mrr |-> ReciprocalRank(rs)]

\* compute_context_recall: over the questions with a support verdict.
ContextRecall(rs) ==
    Mean(Count(rs, LAMBDA r : r.supported = "yes"), Count(rs, LAMBDA r : r.supported # "unknown"))

FullMetrics(rs) ==
    [total |-> Len(rs), overall |-> Tallies(Graded(rs)), perDimension |-> Dimensions(rs),
     shape |-> AnswerShape(rs), retrieval |-> Retrieval(rs), context |-> ContextRecall(rs),
     ingestionErrors |-> Count(rs, LAMBDA r : r.ingestionFailed),
     retrievalErrors |-> Count(rs, LAMBDA r : r.retrievalFailed)]
=============================================================================
