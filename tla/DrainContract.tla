---------------------------- MODULE DrainContract ----------------------------
(***************************************************************************)
(* What the drain barrier promises its callers, without how it finds out:  *)
(* it returns once; `settled' is returned only when the write pipeline has *)
(* settled, which then stays so; any other answer promises nothing.        *)
(***************************************************************************)
VARIABLES
    pipeline,  \* "busy" or "settled"
    verdict    \* "waiting", then "settled", "guessed" or "gave_up"

Init ==
    /\ pipeline \in {"busy", "settled"}
    /\ verdict = "waiting"

Settle ==
    /\ pipeline = "busy"
    /\ pipeline' = "settled"
    /\ UNCHANGED verdict

ReturnSettled ==
    /\ verdict = "waiting"
    /\ pipeline = "settled"
    /\ verdict' = "settled"
    /\ UNCHANGED pipeline

ReturnUnsure ==
    /\ verdict = "waiting"
    /\ verdict' \in {"guessed", "gave_up"}
    /\ UNCHANGED pipeline

Next == Settle \/ ReturnSettled \/ ReturnUnsure

vars == <<pipeline, verdict>>

Spec == Init /\ [][Next]_vars

=============================================================================
