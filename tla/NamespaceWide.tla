---------------------------- MODULE NamespaceWide ----------------------------
(***************************************************************************)
(* The namespace-wide recall scenario of src/src/blackbox/namespace_wide.rs*)
(* and the server it measures: one space per facet, written in turn; a     *)
(* poll until a sibling's fact shows; then every question asked in both    *)
(* scopes from the primary space.  The server derives each facet when it   *)
(* likes, and its scopes may be wrong.                                     *)
(***************************************************************************)
EXTENDS Naturals, FiniteSets

CONSTANTS
    Facets,        \* the facets, the first of them the primary
    Primary,
    Questions,     \* the questions
    facetOf,       \* the facet that answers a question
    SETTLE_POLLS   \* the 30 seconds of the settle poll, in polls

ASSUME NamespaceWideAssumption ==
    /\ Primary \in Facets
    /\ IsFiniteSet(Facets) /\ IsFiniteSet(Questions)
    /\ facetOf \in [Questions -> Facets]
    /\ \E q \in Questions : facetOf[q] # Primary   \* the settle question
    /\ SETTLE_POLLS \in Nat

VARIABLES
    wide,        \* the stage of the scenario
    ingested,    \* the facets written so far
    derived,     \* the facets whose facts can be recalled
    settlePolls, \* the polls made for the sibling's fact
    inTime,      \* every facet was derived when the first question was asked
    asked,       \* the questions asked in space scope
    spaceHits,   \* the questions answered in space scope
    nsAsked,     \* the questions asked in namespace scope
    nsHits,      \* the questions answered in namespace scope
    spans,       \* the server's namespace scope reaches the sibling spaces
    leaks        \* the server's space scope reaches them too

wideVars == <<wide, ingested, derived, settlePolls, inTime, asked, spaceHits,
              nsAsked, nsHits, spans, leaks>>

NamespaceWideTypeOK ==
    /\ wide \in {"ingest", "settle", "ask", "pass", "fail", "error"}
    /\ derived \subseteq ingested /\ ingested \subseteq Facets
    /\ settlePolls \in 0..SETTLE_POLLS
    /\ spaceHits \subseteq asked /\ nsHits \subseteq nsAsked
    /\ nsAsked \subseteq asked /\ asked \subseteq Questions
    /\ {inTime, spans, leaks} \subseteq BOOLEAN

NamespaceWideInit ==
    /\ wide = "ingest"
    /\ ingested = {} /\ derived = {}
    /\ settlePolls = 0
    /\ inTime = FALSE
    /\ asked = {} /\ spaceHits = {} /\ nsAsked = {} /\ nsHits = {}
    /\ spans \in BOOLEAN /\ leaks \in BOOLEAN

\* The facet that answers the question is one a recall from the primary space reaches.
InScope(q, reachesSiblings) == facetOf[q] = Primary \/ reachesSiblings

\* recall_scoped from the primary space, and whether a memory holds the gold.
Answered(q, reachesSiblings) == facetOf[q] \in derived /\ InScope(q, reachesSiblings)

\* Connect to the facet's own space and ingest its facts; the primary comes first.
Ingest ==
    \E f \in Facets \ ingested :
        /\ wide = "ingest"
        /\ f = Primary \/ Primary \in ingested
        /\ ingested' = ingested \cup {f}
        /\ UNCHANGED <<wide, derived, settlePolls, inTime, asked, spaceHits, nsAsked, nsHits,
                       spans, leaks>>

Ingested ==
    /\ wide = "ingest"
    /\ ingested = Facets
    /\ wide' = "settle"
    /\ UNCHANGED <<ingested, derived, settlePolls, inTime, asked, spaceHits, nsAsked, nsHits,
                   spans, leaks>>

SettleQuestion == CHOOSE q \in Questions : facetOf[q] # Primary

SettlePoll ==
    /\ wide = "settle"
    /\ ~Answered(SettleQuestion, spans)
    /\ settlePolls < SETTLE_POLLS
    /\ settlePolls' = settlePolls + 1
    /\ UNCHANGED <<wide, ingested, derived, inTime, asked, spaceHits, nsAsked, nsHits, spans, leaks>>

\* The fact showed, or the poll gave up with a warning.
Settled ==
    /\ wide = "settle"
    /\ Answered(SettleQuestion, spans) \/ settlePolls = SETTLE_POLLS
    /\ wide' = "ask"
    /\ inTime' = (derived = Facets)
    /\ UNCHANGED <<ingested, derived, settlePolls, asked, spaceHits, nsAsked, nsHits, spans, leaks>>

AskInSpace ==
    \E q \in Questions \ asked :
        /\ wide = "ask"
        /\ asked = nsAsked
        /\ asked' = asked \cup {q}
        /\ spaceHits' = IF Answered(q, leaks) THEN spaceHits \cup {q} ELSE spaceHits
        /\ UNCHANGED <<wide, ingested, derived, settlePolls, inTime, nsAsked, nsHits, spans, leaks>>

AskInNamespace ==
    \E q \in asked \ nsAsked :
        /\ wide = "ask"
        /\ nsAsked' = nsAsked \cup {q}
        /\ nsHits' = IF Answered(q, spans) THEN nsHits \cup {q} ELSE nsHits
        /\ UNCHANGED <<wide, ingested, derived, settlePolls, inTime, asked, spaceHits, spans, leaks>>

\* Faulty variant of Judgement: a tie passes.
JudgementTie ==
    /\ wide = "ask"
    /\ nsAsked = Questions
    /\ wide' = IF Cardinality(nsHits) >= Cardinality(spaceHits) THEN "pass" ELSE "fail"
    /\ UNCHANGED <<ingested, derived, settlePolls, inTime, asked, spaceHits, nsAsked, nsHits,
                   spans, leaks>>

\* Namespace-wide must strictly beat space-scoped.
Judgement ==
    /\ wide = "ask"
    /\ nsAsked = Questions
    /\ wide' = IF Cardinality(nsHits) > Cardinality(spaceHits) THEN "pass" ELSE "fail"
    /\ UNCHANGED <<ingested, derived, settlePolls, inTime, asked, spaceHits, nsAsked, nsHits,
                   spans, leaks>>

WideFails ==
    /\ wide \in {"ingest", "settle", "ask"}
    /\ wide' = "error"
    /\ UNCHANGED <<ingested, derived, settlePolls, inTime, asked, spaceHits, nsAsked, nsHits,
                   spans, leaks>>

\* The server derives what a facet wrote.
DeriveFacet ==
    \E f \in ingested \ derived :
        /\ derived' = derived \cup {f}
        /\ UNCHANGED <<wide, ingested, settlePolls, inTime, asked, spaceHits, nsAsked, nsHits,
                       spans, leaks>>

RunWide ==
    \/ Ingest \/ Ingested \/ SettlePoll \/ Settled
    \/ AskInSpace \/ AskInNamespace \/ Judgement

NamespaceWideNext == RunWide \/ WideFails \/ DeriveFacet

\* The mint of a facet's key is an HTTP call without a timeout.
WideWaits == wide = "ingest" /\ ingested # Facets

NamespaceWideSpec ==
    NamespaceWideInit /\ [][NamespaceWideNext]_wideVars /\ WF_wideVars(~WideWaits /\ RunWide)

-----------------------------------------------------------------------------
\* Properties.

\* With every facet derived before the first question, the scenario passes exactly when
\* the namespace scope reaches the sibling spaces and the space scope does not: neither
\* a scope that is ignored nor one that leaks gets by.  It says nothing of a facet that is
\* derived between the questions.
PassIsTheScope ==
    inTime /\ wide \in {"pass", "fail"} => (wide = "pass" <=> spans /\ ~leaks)

\* Once the settle poll has seen the sibling's fact, a question missed in space scope is out
\* of that scope: "so a later baseline MISS is genuinely a scope miss, not lag"
\* (src/src/blackbox/namespace_wide.rs:217-222).  The poll asks for one fact of one sibling.
BaselineMissIsScope ==
    settlePolls < SETTLE_POLLS => \A q \in asked \ spaceHits : ~InScope(q, leaks)
=============================================================================
