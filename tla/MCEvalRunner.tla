---------------------------- MODULE MCEvalRunner ----------------------------
(***************************************************************************)
(* Small instances of EvalRunner for TLC.                                  *)
(***************************************************************************)
EXTENDS EvalRunner

\* A conversation of two sessions, the first of two turns, and one of one turn.
MCTurns == <<<<2, 1>>, <<1>>>>

\* Three questions, the instances of the second conversation not adjacent.
MCConversation == <<2, 1, 2>>

Plain == [concurrency |-> 2, persist |-> FALSE, verify |-> FALSE,
          retrievalOnly |-> FALSE, drain |-> TRUE, outputDir |-> TRUE]

MCConfigs ==
    {[Plain EXCEPT !.persist = TRUE],
     [Plain EXCEPT !.concurrency = 0, !.verify = TRUE],
     [Plain EXCEPT !.concurrency = 0, !.retrievalOnly = TRUE,
                  !.drain = FALSE, !.outputDir = FALSE]}

MCOneConfig == {[Plain EXCEPT !.persist = TRUE]}

MCVerifyConfig == {[Plain EXCEPT !.verify = TRUE]}

=============================================================================
