----------------------------- MODULE UdpNetwork -----------------------------
(***************************************************************************)
(* The pair of UDP sockets of Program 2 and the network between them.      *)
(* A channel is the sequence of the datagrams that are under way or wait   *)
(* in the receiver's socket buffer, oldest first. UDP keeps order and      *)
(* delivers once unless a fault happens; which faults may hit data and     *)
(* which may hit acknowledgments is a parameter, so that one protocol can  *)
(* be checked on a perfect network and on a hostile one.                   *)
(***************************************************************************)
EXTENDS Naturals, Sequences, SequencesExt

CONSTANTS
  DataFaults,   \* fault kinds that may hit datagrams for the server
  AckFaults,    \* fault kinds that may hit datagrams for the client
  MaxFaults,    \* bound: number of faults in one behaviour
  MaxInFlight   \* bound: a timer only advances below this many datagrams

FaultKinds == {"lose", "duplicate", "reorder"}

ASSUME NetworkAssumption ==
  /\ DataFaults \subseteq FaultKinds
  /\ AckFaults \subseteq FaultKinds
  /\ MaxFaults \in Nat
  /\ MaxInFlight \in Nat

VARIABLES
  toServer,   \* channel from the client's socket to the server's
  toClient,   \* channel from the server's socket to the client's
  faults      \* faults so far

netVars == <<toServer, toClient, faults>>

NetInit ==
  /\ toServer = <<>>
  /\ toClient = <<>>
  /\ faults = 0

-----------------------------------------------------------------------------
(* UdpSocket. sendTo and ackTo hand a datagram to the network and return;  *)
(* one sent to a socket whose process has ended is dropped. recvFrom takes *)
(* the oldest datagram and blocks while there is none; pollRecvFrom asks,  *)
(* without waiting, whether there is one.                                  *)

SendTo(ch, m, open) == IF open THEN Append(ch, m) ELSE ch

PollRecvFrom(ch) == ch # <<>>

RecvFrom(ch, m) ==
  /\ PollRecvFrom(ch)
  /\ m = Head(ch)

-----------------------------------------------------------------------------
(* The three faults of UDP, on the datagram at position i of a channel.    *)

Lost(ch, i) == RemoveAt(ch, i)

Duplicated(ch, i) == Append(ch, ch[i])

Overtaken(ch, i) == [ch EXCEPT ![i] = ch[i + 1], ![i + 1] = ch[i]]

Faulted(ch, kinds) ==
  UNION { IF "lose" \in kinds THEN {Lost(ch, i) : i \in 1 .. Len(ch)} ELSE {},
          IF "duplicate" \in kinds
            THEN {Duplicated(ch, i) : i \in 1 .. Len(ch)} ELSE {},
          IF "reorder" \in kinds
            THEN {Overtaken(ch, i) : i \in 1 .. Len(ch) - 1} ELSE {} }

(* A fault on either channel. *)
Fault ==
  /\ faults < MaxFaults
  /\ faults' = faults + 1
  /\ \/ /\ toServer' \in Faulted(toServer, DataFaults)
        /\ UNCHANGED toClient
     \/ /\ toClient' \in Faulted(toClient, AckFaults)
        /\ UNCHANGED toServer

(* Room under the bound on datagrams in flight. *)
BelowMaxInFlight == Len(toServer) + Len(toClient) < MaxInFlight

=============================================================================
