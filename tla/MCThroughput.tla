---------------------------- MODULE MCThroughput ----------------------------
(* Throughput for the model checker: clients, and what their host names    *)
(* resolve to.                                                             *)
EXTENDS Throughput

CONSTANTS c1, c2

One == {c1}
Two == {c1, c2}
Fits == {3}
AnySizes == {2, 3, 4}
AtOnce == {<<"server">>}
AnyAddresses == {<<>>, <<"unresolved">>, <<"server">>, <<"unsupported", "server">>,
                 <<"refused", "server">>}

=============================================================================
