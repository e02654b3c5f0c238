------------------------------ MODULE MCCommands ------------------------------
\* Commands with small tiers: two workers and two verbs, three soak samples, three
\* facets, two conversations, two questions in flight, and files of up to three lines.
EXTENDS Commands

MCFacetOf == [q1 |-> "a", q2 |-> "b", q3 |-> "c"]

Result(type, verdict, kind, declines) ==
    [type |-> type, verdict |-> verdict, kind |-> kind, declines |-> declines,
     supported |-> "unknown", gold |-> TRUE, found |-> kind # "None", rank |-> 0,
     ingestionFailed |-> FALSE, retrievalFailed |-> FALSE]

MCFileResults ==
    {Result("SingleHop", "Correct", "Single", FALSE),
     Result("SingleHop", "Incorrect", "Many", FALSE),
     Result("Abstention", "Partial", "None", TRUE),
     Result("SingleHop", "NotJudged", "Single", FALSE)}
=============================================================================
