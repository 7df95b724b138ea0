--------------------------- MODULE CountedTransfer ---------------------------
(***************************************************************************)
(* What ttcp promises, whatever TCP does with the bytes: senders are taken *)
(* one at a time and each at most once; one that is answered has ended, is *)
(* told how many bytes it sent, and all of them have been received         *)
(* (transmit and receive of ttcp.cpp).                                     *)
(***************************************************************************)
EXTENDS Naturals

CONSTANTS
  Senders,
  Nobody     \* none of them

VARIABLES
  sent,      \* bytes a sender has sent
  received,  \* bytes that have been received from a sender
  ended,     \* the senders that send no more
  past,      \* the senders that have been taken
  current,   \* the sender being received from
  told       \* what a sender has been told

vars == <<sent, received, ended, past, current, told>>

Init ==
  /\ sent = [s \in Senders |-> 0]
  /\ received = [s \in Senders |-> 0]
  /\ ended = {}
  /\ past = {}
  /\ current = Nobody
  /\ told = [s \in Senders |-> 0]

(* f grows at s and nowhere else. *)
Grows(f, fNext, s) ==
  /\ fNext \in [Senders -> Nat]
  /\ fNext = [f EXCEPT ![s] = fNext[s]]
  /\ fNext[s] > f[s]

Send(s) ==
  /\ s \notin ended
  /\ Grows(sent, sent', s)
  /\ UNCHANGED <<received, ended, past, current, told>>

End(s) ==
  /\ ended' = ended \union {s}
  /\ UNCHANGED <<sent, received, past, current, told>>

Take(s) ==
  /\ current = Nobody
  /\ s \notin past
  /\ past' = past \union {s}
  /\ current' = s
  /\ UNCHANGED <<sent, received, ended, told>>

Receive(s) ==
  /\ current = s
  /\ Grows(received, received', s)
  /\ received'[s] <= sent[s]
  /\ UNCHANGED <<sent, ended, past, current, told>>

Answer(s) ==
  /\ current = s
  /\ s \in ended
  /\ received[s] = sent[s]
  /\ told' = [told EXCEPT ![s] = sent[s]]
  /\ current' = Nobody
  /\ UNCHANGED <<sent, received, ended, past>>

(* The sender being received from gets no answer. *)
Abandon(s) ==
  /\ current = s
  /\ current' = Nobody
  /\ UNCHANGED <<sent, received, ended, past, told>>

Next ==
  \E s \in Senders :
    Send(s) \/ End(s) \/ Take(s) \/ Receive(s) \/ Answer(s) \/ Abandon(s)

Spec == Init /\ [][Next]_vars

=============================================================================
