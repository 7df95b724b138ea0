---------------------------- MODULE MCUnreliable ----------------------------
(* Unreliable for the model checker: the fault kinds of the runs. *)
EXTENDS Unreliable

NoFaults == {}
ReorderOnly == {"reorder"}

=============================================================================
