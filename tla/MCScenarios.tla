----------------------------- MODULE MCScenarios -----------------------------
(***************************************************************************)
(* Every scenario against every single fault, on two shards, with polls of *)
(* one reread.                                                             *)
(***************************************************************************)
EXTENDS Scenarios
=============================================================================
