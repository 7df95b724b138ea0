--------------------------- MODULE MCSlidingWindow ---------------------------
(* SlidingWindow for the model checker: the fault kinds of the runs. *)
EXTENDS SlidingWindow

NoFaults == {}
LoseOnly == {"lose"}
DuplicateOnly == {"duplicate"}

=============================================================================
