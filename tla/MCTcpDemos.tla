----------------------------- MODULE MCTcpDemos -----------------------------
(* TcpDemos for the model checker: any side may be killed. *)
EXTENDS TcpDemos

AnySide == Sides

=============================================================================
