----------------------------- MODULE MCStopWait -----------------------------
(* StopWait for the model checker: the fault kinds of the runs. *)
EXTENDS StopWait

NoFaults == {}
LoseOnly == {"lose"}

=============================================================================
