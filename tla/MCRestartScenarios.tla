-------------------------- MODULE MCRestartScenarios --------------------------
(* Two writes and two kills on a good server and on servers with one fault each. *)
EXTENDS RestartScenarios

Good == [walFirst |-> TRUE, replaySafe |-> TRUE, merges |-> FALSE]

MCServers ==
    {Good, [Good EXCEPT !.walFirst = FALSE], [Good EXCEPT !.replaySafe = FALSE],
     [Good EXCEPT !.merges = TRUE]}

OnlyGood == {Good}

MCScenarios == {"restart_recovery", "graceful_shutdown_drain", "kill_during_write"}

MCGraceful == {"graceful_shutdown_drain"}

=============================================================================
