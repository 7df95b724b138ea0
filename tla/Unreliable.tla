------------------------------ MODULE Unreliable ------------------------------
(***************************************************************************)
(* Test 1 of Program 2: ClientUnreliable sends MAX messages without        *)
(* waiting for anything, ServerUnreliable receives MAX datagrams and       *)
(* answers none (hw2.cpp).                                                 *)
(***************************************************************************)
EXTENDS UdpNetwork

CONSTANT MAX   \* messages to send (20000 in the code)

ASSUME UnreliableAssumption == MAX \in Nat \ {0}

VARIABLES
  cpc,        \* where the client is: "send" or "done"
  cI,         \* the client's i: messages sent
  spc,        \* where the server is: "recv" or "done"
  sI,         \* the server's i: datagrams received
  got         \* history: which messages were received

clientVars == <<cpc, cI>>
serverVars == <<spc, sI, got>>
vars == <<clientVars, serverVars, netVars>>

Messages == 0 .. MAX - 1

TypeOK ==
  /\ cpc \in {"send", "done"}
  /\ cI \in 0 .. MAX
  /\ spc \in {"recv", "done"}
  /\ sI \in 0 .. MAX
  /\ got \in SUBSET Messages
  /\ toServer \in Seq(Messages)
  /\ toClient = <<>>
  /\ faults \in 0 .. MaxFaults

Init ==
  /\ cpc = "send"
  /\ cI = 0
  /\ spc = "recv"
  /\ sI = 0
  /\ got = {}
  /\ NetInit

(* MUTANT of ClientSend: one message too many. *)
ClientSend_OffByOne ==
  /\ cpc = "send"
  /\ toServer' = SendTo(toServer, cI, spc # "done")
  /\ cI' = cI + 1
  /\ cpc' = IF cI' <= MAX THEN "send" ELSE "done"
  /\ UNCHANGED <<serverVars, toClient, faults>>

(* MUTANT of ClientSend: one message too few. *)
ClientSend_TooFew ==
  /\ cpc = "send"
  /\ toServer' = SendTo(toServer, cI, spc # "done")
  /\ cI' = cI + 1
  /\ cpc' = IF cI' < MAX - 1 THEN "send" ELSE "done"
  /\ UNCHANGED <<serverVars, toClient, faults>>

(* The client sends message i, and returns after the last. *)
ClientSend ==
  /\ cpc = "send"
  /\ toServer' = SendTo(toServer, cI, spc # "done")
  /\ cI' = cI + 1
  /\ cpc' = IF cI' < MAX THEN "send" ELSE "done"
  /\ UNCHANGED <<serverVars, toClient, faults>>

(* MUTANT of ServerRecv: one datagram too few. *)
ServerRecv_TooFew ==
  /\ spc = "recv"
  /\ \E m \in Messages : RecvFrom(toServer, m) /\ got' = got \union {m}
  /\ sI' = sI + 1
  /\ IF sI' < MAX - 1
       THEN spc' = "recv" /\ toServer' = Tail(toServer)
       ELSE spc' = "done" /\ toServer' = <<>>
  /\ UNCHANGED <<clientVars, toClient, faults>>

(* The server receives any datagram, and returns after MAX of them. Its    *)
(* process ends and what is left in its socket is gone.                    *)
ServerRecv ==
  /\ spc = "recv"
  /\ \E m \in Messages : RecvFrom(toServer, m) /\ got' = got \union {m}
  /\ sI' = sI + 1
  /\ IF sI' < MAX
       THEN spc' = "recv" /\ toServer' = Tail(toServer)
       ELSE spc' = "done" /\ toServer' = <<>>
  /\ UNCHANGED <<clientVars, toClient, faults>>

NetworkFault == Fault /\ UNCHANGED <<clientVars, serverVars>>

(* Both programs have ended. *)
Finished ==
  /\ cpc = "done"
  /\ spc = "done"
  /\ UNCHANGED vars

Next == ClientSend \/ ServerRecv \/ NetworkFault \/ Finished

Spec == Init /\ [][Next]_vars

(* Neither program ever stops between two of its steps. *)
FairSpec == Spec /\ WF_vars(ClientSend) /\ WF_vars(ServerRecv)

-----------------------------------------------------------------------------
(* The server counts datagrams, not messages: that every message arrived   *)
(* when it returns is up to the network, and so on one that neither loses  *)
(* nor doubles (hw2.cpp:153-162).                                          *)
NoneMissing == spc = "done" => got = Messages

(* On a network that loses nothing the server returns (hw2.cpp:153-162).   *)
ServerReturns == <>(spc = "done")

=============================================================================
