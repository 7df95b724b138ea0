-------------------------- MODULE ReliableTransfer --------------------------
(***************************************************************************)
(* What the two acknowledged transfers of Program 2 promise, without any   *)
(* network: messages 0 .. MAX-1 pass from a sender to a receiver in order, *)
(* the sender learns of it, and never runs more than a window ahead of     *)
(* what it knows to have arrived.                                          *)
(***************************************************************************)
EXTENDS Naturals

CONSTANTS
  MAX,     \* number of messages
  Window   \* how many messages may be unconfirmed

VARIABLES
  offered,    \* messages 0 .. offered-1 have been sent
  accepted,   \* messages 0 .. accepted-1 have arrived, none is missing
  confirmed   \* the sender knows that 0 .. confirmed-1 have arrived

vars == <<offered, accepted, confirmed>>

Init ==
  /\ offered = 0
  /\ accepted = 0
  /\ confirmed = 0

(* The sender sends the next message, if the window allows. *)
Offer ==
  /\ offered < MAX
  /\ offered < confirmed + Window
  /\ offered' = offered + 1
  /\ UNCHANGED <<accepted, confirmed>>

(* The receiver's unbroken prefix grows (by several messages when the one  *)
(* that arrives fills a gap).                                              *)
Accept ==
  /\ accepted < offered
  /\ accepted' \in accepted + 1 .. offered
  /\ UNCHANGED <<offered, confirmed>>

(* The sender learns of some of what was accepted. *)
Confirm ==
  /\ confirmed < accepted
  /\ confirmed' \in confirmed + 1 .. accepted
  /\ UNCHANGED <<offered, accepted>>

Next == Offer \/ Accept \/ Confirm

Spec == Init /\ [][Next]_vars

(* Every message is transferred and the sender knows it. *)
Complete == confirmed = MAX

=============================================================================
