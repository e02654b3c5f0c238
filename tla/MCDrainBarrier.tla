--------------------------- MODULE MCDrainBarrier ---------------------------
(***************************************************************************)
(* Small instances of DrainBarrier for TLC.                                *)
(***************************************************************************)
EXTENDS DrainBarrier

\* All of the gauges, or none for a while.
MCWholeGauge == {DRAIN_WORKERS, {}}

\* A server on which one worker does not report its queue.
MCPartialGauge == {DRAIN_WORKERS \ {"statement_embed"}}

=============================================================================
