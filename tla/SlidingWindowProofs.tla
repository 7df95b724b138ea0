------------------------- MODULE SlidingWindowProofs -------------------------
(***************************************************************************)
(* The sliding window, for any number of messages, any window sizes and    *)
(* any bounds. Of the first round: truthful acknowledgments, and the       *)
(* implementation of ReliableTransfer; messages must not be lost or        *)
(* overtake each other, unless its window is one message. Of all rounds:   *)
(* types, whatever the network does, and that the two ends stay in step,   *)
(* on a network that only loses.                                           *)
(***************************************************************************)
EXTENDS SlidingWindow, UdpNetworkProofs

(* What the theorems about the first round assume of it or of the network. *)
SortedData == DataFaults \subseteq {"duplicate"}
Assumed == SortedData \/ FirstWin = 1

-----------------------------------------------------------------------------
(* Channels of messages that a server at n can take one by one.            *)

Holds(ch, k) == \E j \in 1 .. Len(ch) : ch[j] = k

(* Every message beyond n follows the one before it. *)
Ordered(ch, n) ==
  \A i \in 1 .. Len(ch) : ch[i] <= n \/ \E j \in 1 .. i - 1 : ch[j] = ch[i] - 1

(* No message from n to below k is missing. *)
Covered(ch, n, k) == \A i \in n .. k - 1 : Holds(ch, i)

(* Sending a message that is due or follows one under way keeps order.     *)
LEMMA OrderedAppend ==
  ASSUME NEW ch \in Seq(Nat), NEW n \in Nat, NEW m \in Nat,
         Ordered(ch, n), m <= n \/ Holds(ch, m - 1)
  PROVE  Ordered(Append(ch, m), n)
<1> DEFINE new == Append(ch, m)
<1>1. /\ Len(ch) \in Nat
      /\ Len(new) = Len(ch) + 1
      /\ \A i \in 1 .. Len(ch) : new[i] = ch[i]
      /\ new[Len(ch) + 1] = m
  BY AppendProperties
<1> SUFFICES ASSUME NEW i \in 1 .. Len(new)
             PROVE  new[i] <= n \/ \E j \in 1 .. i - 1 : new[j] = new[i] - 1
  BY DEF Ordered
<1>2. CASE i \in 1 .. Len(ch)
  <2>1. ch[i] <= n \/ \E j \in 1 .. i - 1 : ch[j] = ch[i] - 1
    BY <1>2 DEF Ordered
  <2> QED BY <1>1, <1>2, <2>1
<1>3. CASE i = Len(ch) + 1
  BY <1>1, <1>3 DEF Holds
<1> QED BY <1>1, <1>2, <1>3

(* The server can take the oldest message, and what is left is in order    *)
(* for the server after it.                                                *)
LEMMA OrderedTail ==
  ASSUME NEW ch \in Seq(Nat), NEW n \in Nat, ch # <<>>, Ordered(ch, n)
  PROVE  /\ Head(ch) <= n
         /\ Head(ch) = n => Ordered(Tail(ch), n + 1)
         /\ Head(ch) # n => Ordered(Tail(ch), n)
<1>1. /\ Len(ch) \in Nat /\ Len(ch) > 0
      /\ Head(ch) = ch[1]
      /\ Len(Tail(ch)) = Len(ch) - 1
      /\ \A i \in 1 .. Len(ch) - 1 : Tail(ch)[i] = ch[i + 1]
      /\ \A i \in 1 .. Len(ch) : ch[i] \in Nat
  BY HeadTailProperties, EmptySeq, ElementOfSeq
<1>2. Head(ch) <= n
  BY <1>1 DEF Ordered
<1>3. ASSUME NEW k \in Nat, n <= k, Head(ch) < k
      PROVE  Ordered(Tail(ch), k)
  <2> SUFFICES ASSUME NEW i \in 1 .. Len(ch) - 1
               PROVE  \/ ch[i + 1] <= k
                      \/ \E j \in 1 .. i - 1 : ch[j + 1] = ch[i + 1] - 1
    BY <1>1 DEF Ordered
  <2>1. i + 1 \in 1 .. Len(ch)
    BY <1>1
  <2>2. CASE ch[i + 1] <= n
    BY <1>1, <1>3, <2>1, <2>2
  <2>3. CASE \E j \in 1 .. i : ch[j] = ch[i + 1] - 1
    <3>1. PICK j \in 1 .. i : ch[j] = ch[i + 1] - 1
      BY <2>3
    <3>2. CASE j = 1
      BY <1>1, <1>3, <2>1, <3>1, <3>2
    <3>3. CASE j > 1
      <4>1. j - 1 \in 1 .. i - 1 /\ ch[(j - 1) + 1] = ch[i + 1] - 1
        BY <3>1, <3>3
      <4> QED BY <4>1
    <3> QED BY <3>2, <3>3
  <2> QED BY <2>1, <2>2, <2>3 DEF Ordered
<1> QED BY <1>1, <1>2, <1>3

(* A channel of messages up to n is in order for n. *)
LEMMA OrderedBelow ==
  ASSUME NEW n \in Nat, NEW ch \in Seq(0 .. n)
  PROVE  Ordered(ch, n)
  BY ElementOfSeq DEF Ordered

(* Sending takes nothing away, and adds what it sends. *)
LEMMA CoveredAppend ==
  ASSUME NEW ch \in Seq(Nat), NEW n \in Nat, NEW k \in Nat, NEW m \in Nat,
         Covered(ch, n, k)
  PROVE  /\ Covered(Append(ch, m), n, k)
         /\ m = k => Covered(Append(ch, m), n, k + 1)
<1>1. /\ Len(ch) \in Nat
      /\ Len(Append(ch, m)) = Len(ch) + 1
      /\ \A i \in 1 .. Len(ch) : Append(ch, m)[i] = ch[i]
      /\ Append(ch, m)[Len(ch) + 1] = m
  BY AppendProperties
<1>2. \A i \in n .. k - 1 : Holds(Append(ch, m), i)
  BY <1>1 DEF Covered, Holds
<1>3. Holds(Append(ch, m), m)
  BY <1>1 DEF Holds
<1> QED BY <1>2, <1>3 DEF Covered

(* The oldest message is missed only by a server that waits for it.        *)
LEMMA CoveredTail ==
  ASSUME NEW ch \in Seq(Nat), NEW n \in Nat, NEW k \in Nat, ch # <<>>,
         Covered(ch, n, k), Head(ch) <= n
  PROVE  /\ Head(ch) = n => Covered(Tail(ch), n + 1, k)
         /\ Head(ch) # n => Covered(Tail(ch), n, k)
<1>1. /\ Len(ch) \in Nat /\ Len(ch) > 0
      /\ Head(ch) = ch[1] /\ Head(ch) \in Nat
      /\ Len(Tail(ch)) = Len(ch) - 1
      /\ \A i \in 1 .. Len(ch) - 1 : Tail(ch)[i] = ch[i + 1]
  BY HeadTailProperties, EmptySeq
<1>2. ASSUME NEW i \in n .. k - 1, i # Head(ch) PROVE Holds(Tail(ch), i)
  <2>1. PICK j \in 1 .. Len(ch) : ch[j] = i
    BY DEF Covered, Holds
  <2>2. j # 1
    BY <1>1, <1>2, <2>1
  <2>3. j - 1 \in 1 .. Len(ch) - 1 /\ ch[(j - 1) + 1] = i
    BY <1>1, <2>1, <2>2
  <2> QED BY <1>1, <2>3 DEF Holds
<1> QED BY <1>1, <1>2 DEF Covered

-----------------------------------------------------------------------------
(* Neither TruthfulAcks nor the refinement is inductive. They rest on the  *)
(* server's marks having no gap, and that on the messages coming one after *)
(* the other, none missing while the server still needs it.                *)

InFlight ==
  /\ toServer \in Seq(0 .. Offered - 1)
  /\ toClient \in Seq(0 .. sSequence - 1)

Counters ==
  /\ ackSeq <= sSequence
  /\ sSequence <= Offered
  /\ Offered <= ackSeq + FirstWin
  /\ Offered > 0 => message = Offered - 1

NoGap ==
  /\ array = 0 .. sSequence - 1
  /\ sAck = IF sSequence = 0 THEN 0 ELSE sSequence - 1

ControlPoints ==
  /\ cpc = "sent" => sequence < MAX
  /\ cpc = "inner" => sequence > 0
  /\ spc = "recv" <=> sSequence < MAX

(* Both are in the first round, and end with it only if it is the last.    *)
BothInFirst ==
  /\ cWin = FirstWin
  /\ sWin = FirstWin
  /\ spc # "recv" => FirstWin = LastWin

DataOrder ==
  /\ Ordered(toServer, sSequence)
  /\ SortedData /\ spc = "recv" => Covered(toServer, sSequence, Offered)

IInv ==
  TypeOK /\ InFlight /\ Counters /\ NoGap /\ ControlPoints /\ BothInFirst /\ DataOrder

(* Once the server is in a later round.                                    *)
Left ==
  /\ sWin > FirstWin
  /\ cWin = FirstWin => Offered = MAX

-----------------------------------------------------------------------------
(* The constants are natural numbers, the positive ones positive.          *)
LEMMA ConstantsType ==
  /\ MAX \in Nat /\ MAX > 0
  /\ FirstWin \in Nat /\ FirstWin > 0
  /\ LastWin \in Nat /\ FirstWin <= LastWin
  /\ TIMEOUT \in Nat /\ TIMEOUT > 0
  /\ FINAL_ACKS \in Nat
  /\ MaxCount \in Nat
  /\ MaxFaults \in Nat
  BY SlidingWindowAssumption, NetworkAssumption

(* The counter of retransmissions saturates inside its type. *)
LEMMA BumpType ==
  ASSUME NEW n \in 0 .. MaxCount
  PROVE  Bump(n) \in 0 .. MaxCount
  BY ConstantsType DEF Bump

(* The number of messages offered is one of 0 .. MAX. *)
LEMMA OfferedType ==
  ASSUME IInv
  PROVE  Offered \in 0 .. MAX
  BY ConstantsType DEF IInv, TypeOK, ControlPoints, Offered

(* What the client sends next, or again, is due at the server or follows a *)
(* message under way.                                                      *)
LEMMA Due ==
  ASSUME IInv, Assumed, NEW m \in 0 .. MAX - 1,
         \/ m = Offered /\ m < ackSeq + FirstWin
         \/ m = Offered - 1
  PROVE  m <= sSequence \/ Holds(toServer, m - 1)
<1> USE ConstantsType
<1>1. /\ Offered \in 0 .. MAX /\ sSequence \in 0 .. MAX /\ ackSeq \in 0 .. MAX
      /\ ackSeq <= sSequence /\ Offered <= ackSeq + FirstWin
  BY OfferedType DEF IInv, TypeOK, Counters
<1>2. CASE spc # "recv"
  BY <1>1, <1>2 DEF IInv, ControlPoints
<1>3. CASE FirstWin = 1
  BY <1>1, <1>3
<1>4. CASE SortedData /\ spc = "recv"
  <2>1. Covered(toServer, sSequence, Offered)
    BY <1>4 DEF IInv, DataOrder
  <2>2. m > sSequence => m - 1 \in sSequence .. Offered - 1
    BY <1>1
  <2> QED BY <1>1, <2>1, <2>2 DEF Covered
<1> QED BY <1>2, <1>3, <1>4 DEF Assumed

(* Sending it keeps what the invariant says of the messages under way; k   *)
(* messages are offered afterwards.                                        *)
LEMMA SendKeeps ==
  ASSUME IInv, Assumed, NEW m \in 0 .. MAX - 1, NEW k \in 0 .. MAX,
         \/ m = Offered /\ m < ackSeq + FirstWin /\ k = Offered + 1
         \/ m = Offered - 1 /\ k = Offered,
         toServer' = SendTo(toServer, m, spc # "done")
  PROVE  /\ toServer' \in Seq(0 .. MAX - 1)
         /\ toServer' \in Seq(0 .. k - 1)
         /\ Ordered(toServer', sSequence)
         /\ SortedData /\ spc = "recv" => Covered(toServer', sSequence, k)
<1> USE ConstantsType
<1>1. /\ Offered \in 0 .. MAX /\ sSequence \in Nat /\ m \in Nat /\ k \in Nat
      /\ (spc # "done") \in BOOLEAN
  BY OfferedType DEF IInv, TypeOK
<1>2. toServer \in Seq(0 .. Offered - 1) /\ toServer \in Seq(0 .. MAX - 1)
  BY DEF IInv, InFlight, TypeOK
<1>3. toServer \in Seq(0 .. k - 1)
  BY <1>1, <1>2, WidenBelow
<1>4. toServer \in Seq(Nat)
  <2>1. 0 .. MAX - 1 \subseteq Nat
    OBVIOUS
  <2> QED BY <1>2, <2>1, Widen
<1>5. toServer' \in Seq(0 .. MAX - 1) /\ toServer' \in Seq(0 .. k - 1)
  <2>1. m \in 0 .. k - 1
    BY <1>1
  <2> QED BY <1>1, <1>2, <1>3, <2>1, Send
<1>6. Ordered(toServer', sSequence)
  <2>1. m <= sSequence \/ Holds(toServer, m - 1)
    BY Due
  <2>2. Ordered(toServer, sSequence)
    BY DEF IInv, DataOrder
  <2>3. Ordered(Append(toServer, m), sSequence)
    BY <1>1, <1>4, <2>1, <2>2, OrderedAppend
  <2> QED BY <2>2, <2>3 DEF SendTo
<1>7. ASSUME SortedData, spc = "recv" PROVE Covered(toServer', sSequence, k)
  <2>1. Covered(toServer, sSequence, Offered) /\ toServer' = Append(toServer, m)
    BY <1>7 DEF IInv, DataOrder, SendTo
  <2> QED BY <1>1, <1>4, <2>1, CoveredAppend
<1> QED BY <1>5, <1>6, <1>7

(* StartSequence sends the last message again. *)
LEMMA StartSequenceKeeps ==
  ASSUME IInv, Assumed, sequence > 0, StartSequence
  PROVE  /\ toServer' \in Seq(0 .. MAX - 1)
         /\ toServer' \in Seq(0 .. Offered - 1)
         /\ Ordered(toServer', sSequence)
         /\ SortedData /\ spc = "recv" => Covered(toServer', sSequence, Offered)
         /\ timer' \in 0 .. Expired
         /\ retransmitted' \in 0 .. MaxCount
<1>1. Offered \in 0 .. MAX /\ message \in 0 .. MAX - 1 /\ message = Offered - 1
  BY OfferedType, ConstantsType
  DEF IInv, TypeOK, Counters, Offered, Messages
<1>2. timer' \in 0 .. Expired /\ retransmitted' \in 0 .. MaxCount
  BY BumpType, ConstantsType DEF StartSequence, IInv, TypeOK, Expired
<1> QED BY <1>1, <1>2, SendKeeps DEF StartSequence

(* What the initial state satisfies. *)
LEMMA InitInvariant == Init => IInv
<1> SUFFICES ASSUME Init PROVE IInv
  OBVIOUS
<1> USE ConstantsType
<1>1. TypeOK
  BY EmptySeq DEF Init, NetInit, TypeOK, Messages, Expired
<1>2. Offered = 0
  BY DEF Init, Offered
<1>3. InFlight /\ Counters /\ NoGap /\ ControlPoints /\ BothInFirst
  BY <1>2, EmptySeq
  DEF Init, NetInit, InFlight, Counters, NoGap, ControlPoints, BothInFirst
<1>4. DataOrder
  BY <1>2, EmptySeq DEF Init, NetInit, DataOrder, Ordered, Covered
<1> QED BY <1>1, <1>3, <1>4 DEF IInv
-----------------------------------------------------------------------------
(* One lemma per action of the client. *)

(* Sending the next message keeps the invariant.                         *)
LEMMA ClientSendKeeps == IInv /\ Assumed /\ ClientSend => IInv'
<1> SUFFICES ASSUME IInv, Assumed, ClientSend PROVE IInv'
  OBVIOUS
<1> USE ConstantsType
<1>1. /\ cpc = "loop" /\ cpc' = "sent"
      /\ ackSeq + cWin > sequence /\ sequence < MAX
      /\ message' = sequence
      /\ toServer' = SendTo(toServer, sequence, spc # "done")
      /\ UNCHANGED <<cWin, sequence, ackSeq, timer, retransmitted, spc, sWin,
                     sSequence, sAck, array, finalAcks, toClient, faults>>
  BY DEF ClientSend, WindowOpen, serverVars
<1>2. cWin = FirstWin /\ sequence \in 0 .. MAX - 1 /\ ackSeq \in 0 .. MAX
  BY <1>1 DEF IInv, TypeOK, BothInFirst
<1>3. Offered = sequence /\ Offered' = sequence + 1
  BY <1>1 DEF Offered
<1>4. /\ toServer' \in Seq(0 .. MAX - 1)
      /\ toServer' \in Seq(0 .. Offered' - 1)
      /\ Ordered(toServer', sSequence)
      /\ SortedData /\ spc = "recv" => Covered(toServer', sSequence, Offered')
  <2>1. sequence < ackSeq + FirstWin /\ sequence + 1 \in 0 .. MAX
    BY <1>1, <1>2
  <2> QED BY <1>1, <1>2, <1>3, <2>1, SendKeeps
<1>5. TypeOK'
  BY <1>1, <1>2, <1>4 DEF IInv, TypeOK, Messages
<1>6. InFlight'
  BY <1>1, <1>4 DEF IInv, InFlight
<1>7. Counters'
  BY <1>1, <1>2, <1>3 DEF IInv, TypeOK, Counters
<1>8. NoGap' /\ ControlPoints' /\ BothInFirst'
  BY <1>1 DEF IInv, NoGap, ControlPoints, BothInFirst
<1>9. DataOrder'
  BY <1>1, <1>4 DEF DataOrder
<1> QED BY <1>5, <1>6, <1>7, <1>8, <1>9 DEF IInv

(* An acknowledgment the client reads is of a message the server has.      *)
LEMMA AckRead ==
  ASSUME IInv, NEW ack, RecvFrom(toClient, ack)
  PROVE  /\ ack \in 0 .. sSequence - 1
         /\ Tail(toClient) \in Seq(0 .. sSequence - 1)
         /\ Tail(toClient) \in Seq(0 .. MAX - 1)
  BY Receive DEF IInv, InFlight, TypeOK, Messages

(* A window that starts later ends later. *)
LEMMA WindowGrows ==
  ASSUME NEW i \in Nat, NEW j \in Nat, NEW k \in Nat, i <= j, k <= i + FirstWin
  PROVE  k <= j + FirstWin
  BY ConstantsType

(* Reading an acknowledgment after a send, or finding none, keeps it.    *)
LEMMA ClientAfterSendKeeps == IInv /\ ClientAfterSend => IInv'
<1> SUFFICES ASSUME IInv, ClientAfterSend PROVE IInv'
  OBVIOUS
<1> USE ConstantsType
<1>1. /\ cpc = "sent" /\ cpc' = "loop" /\ sequence' = sequence + 1
      /\ UNCHANGED <<cWin, message, timer, retransmitted, spc, sWin, sSequence,
                     sAck, array, finalAcks, toServer, faults>>
  BY DEF ClientAfterSend, serverVars
<1>2. sequence \in 0 .. MAX - 1
  BY <1>1 DEF IInv, TypeOK, ControlPoints
<1>3. Offered = sequence + 1 /\ Offered' = sequence + 1
  BY <1>1 DEF Offered
<1>4. /\ toClient' \in Seq(0 .. sSequence - 1) /\ toClient' \in Seq(0 .. MAX - 1)
      /\ ackSeq' \in {ackSeq, ackSeq + 1} /\ ackSeq' <= sSequence
  <2>1. CASE PollRecvFrom(toClient)
    <3>1. PICK ack \in Messages : RecvFrom(toClient, ack) /\ ackSeq' = Acked(ack)
      BY <2>1 DEF ClientAfterSend
    <3>2. toClient' = Tail(toClient)
      BY <2>1 DEF ClientAfterSend
    <3> QED BY <3>1, <3>2, AckRead DEF Acked, IInv, TypeOK, Counters
  <2>2. CASE ~PollRecvFrom(toClient)
    BY <2>2 DEF ClientAfterSend, IInv, TypeOK, InFlight, Counters, Messages
  <2> QED BY <2>1, <2>2
<1>5. TypeOK'
  BY <1>1, <1>2, <1>4 DEF IInv, TypeOK, Messages
<1>6. InFlight'
  BY <1>1, <1>3, <1>4 DEF IInv, InFlight
<1>7. Counters'
  <2>1. /\ sSequence <= sequence + 1 /\ sequence + 1 <= ackSeq + FirstWin
        /\ message = sequence /\ ackSeq \in Nat /\ sSequence \in Nat
    BY <1>2, <1>3 DEF IInv, TypeOK, Counters
  <2>2. sSequence' = sSequence /\ message' = message
    BY <1>1
  <2>3. ackSeq' \in Nat /\ ackSeq <= ackSeq' /\ ackSeq' <= sSequence
    BY <1>4, <2>1
  <2>4. sequence + 1 \in Nat
    BY <1>2
  <2>5. Offered' <= ackSeq' + FirstWin
    <3>1. sequence + 1 <= ackSeq' + FirstWin
      BY <2>1, <2>3, <2>4, WindowGrows
    <3> QED BY <1>3, <3>1
  <2>6. ackSeq' <= sSequence' /\ sSequence' <= Offered'
    BY <1>3, <2>1, <2>2, <2>3
  <2>7. message' = Offered' - 1
    BY <1>2, <1>3, <2>1, <2>2
  <2> QED BY <2>5, <2>6, <2>7 DEF Counters
<1>8. NoGap' /\ ControlPoints' /\ BothInFirst'
  BY <1>1 DEF IInv, NoGap, ControlPoints, BothInFirst
<1>9. DataOrder'
  BY <1>1, <1>3 DEF IInv, DataOrder
<1> QED BY <1>5, <1>6, <1>7, <1>8, <1>9 DEF IInv

(* Finding the window full, and resending when the timer ran out, keeps it.*)
LEMMA ClientFullKeeps == IInv /\ Assumed /\ ClientFull => IInv'
<1> SUFFICES ASSUME IInv, Assumed, ClientFull PROVE IInv'
  OBVIOUS
<1> USE ConstantsType
<1>1. /\ cpc = "loop" /\ cpc' = "inner" /\ ackSeq < MAX
      /\ ~(ackSeq + cWin > sequence /\ sequence < MAX)
      /\ UNCHANGED <<cWin, sequence, ackSeq, message, spc, sWin, sSequence,
                     sAck, array, finalAcks, toClient, faults>>
  BY DEF ClientFull, WindowOpen, serverVars
<1>2. sequence > 0
  BY <1>1 DEF IInv, TypeOK
<1>3. Offered' = Offered
  BY <1>1 DEF Offered
<1>4. /\ toServer' \in Seq(0 .. MAX - 1)
      /\ toServer' \in Seq(0 .. Offered - 1)
      /\ Ordered(toServer', sSequence)
      /\ SortedData /\ spc = "recv" => Covered(toServer', sSequence, Offered)
      /\ timer' \in 0 .. Expired
      /\ retransmitted' \in 0 .. MaxCount
  <2>1. CASE timer > TIMEOUT
    BY <1>2, <2>1, StartSequenceKeeps DEF ClientFull
  <2>2. CASE ~(timer > TIMEOUT)
    BY <2>2 DEF ClientFull, IInv, TypeOK, InFlight, DataOrder, Expired, Messages
  <2> QED BY <2>1, <2>2
<1>5. TypeOK'
  BY <1>1, <1>4 DEF IInv, TypeOK, Messages
<1>6. InFlight' /\ DataOrder'
  BY <1>1, <1>3, <1>4 DEF IInv, InFlight, DataOrder
<1>7. Counters' /\ NoGap' /\ ControlPoints' /\ BothInFirst'
  BY <1>1, <1>2, <1>3 DEF IInv, Counters, NoGap, ControlPoints, BothInFirst
<1> QED BY <1>5, <1>6, <1>7 DEF IInv

(* Leaving the inner loop keeps it.                                      *)
LEMMA ClientInnerEndKeeps == IInv /\ ClientInnerEnd => IInv'
<1> SUFFICES ASSUME IInv, ClientInnerEnd PROVE IInv'
  OBVIOUS
<1>1. Offered' = Offered
  BY DEF ClientInnerEnd, Offered
<1> QED
  BY <1>1 DEF ClientInnerEnd, serverVars, netVars, IInv, TypeOK, InFlight,
              Counters, NoGap, ControlPoints, BothInFirst, DataOrder

(* Waiting in the inner loop, reading or resending, keeps it.            *)
LEMMA ClientInnerRecvKeeps == IInv /\ Assumed /\ ClientInnerRecv => IInv'
<1> SUFFICES ASSUME IInv, Assumed, ClientInnerRecv PROVE IInv'
  OBVIOUS
<1> USE ConstantsType
<1>1. /\ cpc = "inner" /\ toClient' = Tail(toClient)
      /\ UNCHANGED <<cWin, sequence, message, spc, sWin, sSequence, sAck,
                     array, finalAcks, faults>>
  BY DEF ClientInnerRecv, serverVars
<1>2. PICK ack \in Messages :
        /\ RecvFrom(toClient, ack)
        /\ \/ /\ NewAck(ack)
              /\ ackSeq' = ack + 1
              /\ cpc' = "loop"
              /\ UNCHANGED <<toServer, retransmitted, timer>>
           \/ /\ ~NewAck(ack)
              /\ StartSequence
              /\ UNCHANGED <<ackSeq, cpc>>
  BY DEF ClientInnerRecv
<1>3. /\ ack \in 0 .. sSequence - 1
      /\ toClient' \in Seq(0 .. sSequence - 1)
      /\ toClient' \in Seq(0 .. MAX - 1)
  BY <1>1, <1>2, AckRead
<1>4. sequence > 0 /\ cpc' \in {"loop", "inner"} /\ Offered' = Offered
  BY <1>1, <1>2 DEF IInv, ControlPoints, Offered
<1>5. /\ ackSeq' \in 0 .. MAX /\ ackSeq <= ackSeq' /\ ackSeq' <= sSequence
  BY SMTT(30), <1>2, <1>3 DEF NewAck, IInv, TypeOK, Counters
<1>6. /\ toServer' \in Seq(0 .. MAX - 1)
      /\ toServer' \in Seq(0 .. Offered - 1)
      /\ Ordered(toServer', sSequence)
      /\ SortedData /\ spc = "recv" => Covered(toServer', sSequence, Offered)
      /\ timer' \in 0 .. Expired
      /\ retransmitted' \in 0 .. MaxCount
  <2>1. CASE NewAck(ack)
    BY <1>2, <2>1 DEF IInv, TypeOK, InFlight, DataOrder, Messages
  <2>2. CASE ~NewAck(ack)
    BY <1>2, <1>4, <2>2, StartSequenceKeeps
  <2> QED BY <2>1, <2>2
<1>7. TypeOK'
  BY <1>1, <1>3, <1>4, <1>5, <1>6 DEF IInv, TypeOK, Messages
<1>8. InFlight' /\ DataOrder'
  BY <1>1, <1>3, <1>4, <1>6 DEF IInv, InFlight, DataOrder
<1>9. Counters'
  BY <1>1, <1>4, <1>5, OfferedType DEF IInv, TypeOK, Counters
<1>10. NoGap' /\ ControlPoints' /\ BothInFirst'
  BY <1>1, <1>4 DEF IInv, NoGap, ControlPoints, BothInFirst
<1> QED BY <1>7, <1>8, <1>9, <1>10 DEF IInv

(* The client cannot leave the round before the server.                    *)
LEMMA NoNextRound == IInv => ~ClientNextRound
<1> SUFFICES ASSUME IInv, ClientNextRound PROVE FALSE
  OBVIOUS
<1>1. sSequence \in 0 .. MAX /\ ackSeq \in 0 .. MAX /\ ackSeq <= sSequence /\ ackSeq >= MAX
  BY DEF ClientNextRound, IInv, TypeOK, Counters
<1>2. spc # "recv"
  BY <1>1, ConstantsType DEF IInv, ControlPoints
<1>3. cWin = LastWin /\ cWin < LastWin
  BY <1>2 DEF ClientNextRound, IInv, BothInFirst
<1> QED BY <1>3, ConstantsType

(* The return of the client keeps it.                                    *)
LEMMA ClientReturnKeeps == IInv /\ ClientReturn => IInv'
<1> SUFFICES ASSUME IInv, ClientReturn PROVE IInv'
  OBVIOUS
<1>1. Offered' = Offered
  BY DEF ClientReturn, Offered
<1> QED
  BY <1>1, EmptySeq
  DEF ClientReturn, serverVars, IInv, TypeOK, InFlight, Counters, NoGap,
      ControlPoints, BothInFirst, DataOrder
-----------------------------------------------------------------------------
(* One lemma per action of the server, of time and of the network. *)

(* The highest mark of a prefix is its last. *)
LEMMA MaxOfPrefix ==
  ASSUME NEW n \in Nat
  PROVE  Max(0 .. n) = n
<1>1. n \in 0 .. n /\ \A y \in 0 .. n : n >= y
  OBVIOUS
<1>2. \A x \in 0 .. n : (\A y \in 0 .. n : x >= y) => x = n
  OBVIOUS
<1> QED BY <1>1, <1>2 DEF Max

(* The server is never shown a message beyond the one it expects, so its   *)
(* highest mark is the message itself. If that is the last one, it has all *)
(* of the round.                                                           *)
LEMMA ServerRecvKeeps == IInv /\ Assumed /\ ServerRecv => IInv' \/ Left'
<1> SUFFICES ASSUME IInv, Assumed, ServerRecv PROVE IInv' \/ Left'
  OBVIOUS
<1> USE ConstantsType
<1>1. /\ spc = "recv" /\ toServer' = Tail(toServer)
      /\ UNCHANGED <<finalAcks, cpc, cWin, sequence, ackSeq, message, timer,
                     retransmitted, faults>>
  BY DEF ServerRecv, clientVars
<1>2. PICK m \in Messages :
        /\ RecvFrom(toServer, m)
        /\ LET marked == array \union {m}
               ack == NextAck(m, marked)
               next == IF m = sSequence THEN ack + 1 ELSE sSequence
           IN /\ toClient' = SendTo(toClient, ack, cpc # "done")
              /\ IF next >= MAX /\ sWin < LastWin
                   THEN /\ sWin' = sWin + 1
                        /\ sSequence' = 0
                        /\ sAck' = 0
                        /\ array' = {}
                   ELSE /\ sSequence' = next
                        /\ sAck' = ack
                        /\ array' = marked
                        /\ UNCHANGED sWin
              /\ spc' = IF next >= MAX /\ sWin = LastWin THEN "final" ELSE "recv"
  BY DEF ServerRecv
<1>3. /\ sSequence \in 0 .. MAX - 1 /\ m \in 0 .. MAX - 1
      /\ cWin = FirstWin /\ sWin = FirstWin
      /\ (cpc # "done") \in BOOLEAN
  BY <1>1 DEF IInv, TypeOK, ControlPoints, BothInFirst, Messages
<1>4. Offered' = Offered /\ Offered \in 0 .. MAX
  BY <1>1, OfferedType DEF Offered
<1>5. /\ toServer \in Seq(Nat) /\ toServer # <<>> /\ m = Head(toServer)
      /\ Ordered(toServer, sSequence)
  <2>1. 0 .. MAX - 1 \subseteq Nat /\ toServer \in Seq(0 .. MAX - 1)
    BY DEF IInv, TypeOK, Messages
  <2> QED BY <1>2, <2>1, Widen DEF RecvFrom, PollRecvFrom, IInv, DataOrder
<1>6. /\ m \in 0 .. Offered - 1 /\ m <= sSequence
      /\ toServer' \in Seq(0 .. Offered - 1)
      /\ toServer' \in Seq(0 .. MAX - 1)
  <2>1. m <= sSequence
    BY <1>3, <1>5, OrderedTail
  <2> QED BY <1>1, <1>2, <2>1, Receive DEF IInv, InFlight, TypeOK, Messages
<1>7. toClient \in Seq(0 .. sSequence - 1) /\ toClient \in Seq(0 .. MAX - 1)
  BY DEF IInv, InFlight, TypeOK, Messages
<1>8. CASE m = sSequence
  <2>1. array \union {m} = 0 .. m
    BY <1>3, <1>8 DEF IInv, NoGap
  <2>2. NextAck(m, array \union {m}) = m
    <3>1. Max(0 .. m) = m
      BY <1>3, MaxOfPrefix
    <3> QED BY <1>8, <2>1, <3>1 DEF NextAck
  <2>3. CASE m + 1 >= MAX /\ FirstWin < LastWin
    <3>1. sWin' = FirstWin + 1
      BY <1>2, <1>3, <1>8, <2>2, <2>3
    <3>2. Offered = MAX
      BY <1>3, <1>4, <1>6, <2>3
    <3> QED BY <1>4, <3>1, <3>2 DEF Left
  <2>4. CASE ~(m + 1 >= MAX /\ FirstWin < LastWin)
    <3>1. m + 1 >= MAX => FirstWin = LastWin
      BY <1>3, <2>4
    <3>2. /\ toClient' = SendTo(toClient, m, cpc # "done")
          /\ sSequence' = m + 1 /\ sAck' = m /\ array' = 0 .. m /\ sWin' = sWin
          /\ spc' = IF m + 1 >= MAX THEN "final" ELSE "recv"
      BY <1>2, <1>3, <1>8, <2>1, <2>2, <2>4, <3>1
    <3>3. toClient' \in Seq(0 .. sSequence' - 1) /\ toClient' \in Seq(0 .. MAX - 1)
      <4>1. m \in 0 .. sSequence' - 1 /\ sSequence \in Nat /\ sSequence' \in Nat
            /\ sSequence <= sSequence'
        BY <1>3, <1>8, <3>2
      <4>2. toClient \in Seq(0 .. sSequence' - 1)
        BY <1>7, <4>1, WidenBelow
      <4> QED BY <1>3, <1>7, <3>2, <4>1, <4>2, Send
    <3>4. Ordered(toServer', sSequence')
      BY <1>1, <1>3, <1>5, <1>8, <3>2, OrderedTail
    <3>5. ASSUME SortedData, spc' = "recv"
          PROVE  Covered(toServer', sSequence', Offered)
      <4>1. Covered(toServer, sSequence, Offered)
        BY <1>1, <3>5 DEF IInv, DataOrder
      <4> QED BY <1>1, <1>3, <1>4, <1>5, <1>6, <1>8, <3>2, <4>1, CoveredTail
    <3>6. TypeOK'
      BY <1>1, <1>3, <1>6, <3>2, <3>3 DEF IInv, TypeOK, Messages
    <3>7. InFlight' /\ DataOrder'
      BY <1>4, <1>6, <3>3, <3>4, <3>5 DEF InFlight, DataOrder
    <3>8. Counters'
      BY <1>1, <1>3, <1>4, <1>6, <1>8, <3>2 DEF IInv, TypeOK, Counters
    <3>9. NoGap'
      BY <1>3, <1>8, <3>2 DEF NoGap
    <3>10. BothInFirst'
      BY <1>1, <1>3, <3>1, <3>2 DEF BothInFirst
    <3>11. ControlPoints'
      <4>1. spc' = "recv" <=> sSequence' < MAX
        BY <1>3, <1>8, <3>2
      <4> QED BY <1>1, <4>1 DEF IInv, ControlPoints
    <3> QED BY <3>6, <3>7, <3>8, <3>9, <3>10, <3>11 DEF IInv
  <2> QED BY <2>3, <2>4
<1>9. CASE m # sSequence
  <2>1. m < sSequence /\ sAck = sSequence - 1 /\ sAck \in 0 .. sSequence - 1
    BY <1>3, <1>6, <1>9 DEF IInv, NoGap
  <2>2. array \union {m} = array
    BY <1>3, <2>1 DEF IInv, NoGap
  <2>3. NextAck(m, array) = sAck
    BY <1>9 DEF NextAck
  <2>4. /\ toClient' = SendTo(toClient, sAck, cpc # "done")
        /\ UNCHANGED <<sSequence, sAck, array, sWin, spc>>
    <3>1. ~(sSequence >= MAX)
      BY <1>3
    <3>2. /\ toClient' = SendTo(toClient, sAck, cpc # "done")
          /\ sSequence' = sSequence /\ sAck' = sAck /\ array' = array /\ sWin' = sWin
      BY <1>2, <1>9, <2>2, <2>3, <3>1
    <3>3. spc' = "recv"
      BY <1>2, <1>9, <3>1
    <3> QED BY <1>1, <3>2, <3>3
  <2>5. toClient' \in Seq(0 .. sSequence' - 1) /\ toClient' \in Seq(0 .. MAX - 1)
    <3>1. sAck \in 0 .. MAX - 1
      BY <1>3, <2>1
    <3> QED BY <1>3, <1>7, <2>1, <2>4, <3>1, Send
  <2>6. Ordered(toServer', sSequence')
    BY <1>1, <1>3, <1>5, <1>9, <2>4, OrderedTail
  <2>7. ASSUME SortedData
        PROVE  Covered(toServer', sSequence', Offered)
    <3>1. Covered(toServer, sSequence, Offered)
      BY <1>1, <2>7 DEF IInv, DataOrder
    <3> QED BY <1>1, <1>3, <1>4, <1>5, <1>6, <1>9, <2>4, <3>1, CoveredTail
  <2>8. TypeOK'
    BY <1>1, <1>6, <2>4, <2>5 DEF IInv, TypeOK, Messages
  <2>9. InFlight' /\ DataOrder'
    BY <1>4, <1>6, <2>5, <2>6, <2>7 DEF InFlight, DataOrder
  <2>10. Counters' /\ NoGap' /\ ControlPoints' /\ BothInFirst'
    BY <1>1, <1>4, <2>4 DEF IInv, Counters, NoGap, ControlPoints, BothInFirst
  <2> QED BY <2>8, <2>9, <2>10 DEF IInv
<1> QED BY <1>8, <1>9

(* The final acknowledgments of the server keep it.                      *)
LEMMA FinalAckKeeps == IInv /\ FinalAck => IInv'
<1> SUFFICES ASSUME IInv, FinalAck PROVE IInv'
  OBVIOUS
<1> USE ConstantsType
<1>1. sSequence = MAX /\ Offered' = Offered
  BY DEF FinalAck, clientVars, IInv, TypeOK, ControlPoints, Offered
<1>2. toClient' \in Seq(0 .. MAX - 1)
  <2>1. MAX - 1 \in 0 .. MAX - 1 /\ (cpc # "done") \in BOOLEAN
    OBVIOUS
  <2> QED BY <2>1, Send DEF FinalAck, IInv, TypeOK, Messages
<1>3. TypeOK'
  BY <1>2 DEF FinalAck, clientVars, IInv, TypeOK, Messages
<1>4. InFlight' /\ DataOrder'
  BY <1>1, <1>2 DEF FinalAck, IInv, InFlight, DataOrder
<1>5. Counters' /\ NoGap' /\ ControlPoints' /\ BothInFirst'
  BY <1>1 DEF FinalAck, clientVars, IInv, Counters, NoGap, ControlPoints, BothInFirst
<1> QED BY <1>3, <1>4, <1>5 DEF IInv

(* The end of the server keeps it.                                       *)
LEMMA ServerExitKeeps == IInv /\ ServerExit => IInv'
<1> SUFFICES ASSUME IInv, ServerExit PROVE IInv'
  OBVIOUS
<1>1. Offered' = Offered
  BY DEF ServerExit, clientVars, Offered
<1>2. TypeOK' /\ InFlight'
  BY <1>1, EmptySeq DEF ServerExit, clientVars, IInv, TypeOK, InFlight
<1>3. DataOrder'
  BY EmptySeq DEF ServerExit, DataOrder, Ordered
<1>4. Counters' /\ NoGap' /\ ControlPoints' /\ BothInFirst'
  BY <1>1 DEF ServerExit, clientVars, IInv, Counters, NoGap, ControlPoints, BothInFirst
<1> QED BY <1>2, <1>3, <1>4 DEF IInv

(* The passing of time keeps it.                                         *)
LEMMA TickKeeps == IInv /\ Tick => IInv'
<1> SUFFICES ASSUME IInv, Tick PROVE IInv'
  OBVIOUS
<1>1. Offered' = Offered
  BY DEF Tick, Offered
<1> QED
  BY <1>1, ConstantsType
  DEF Tick, serverVars, netVars, Expired, IInv, TypeOK, InFlight, Counters,
      NoGap, ControlPoints, BothInFirst, DataOrder

(* A doubled message goes to the end of the channel, behind the one it     *)
(* follows. With a window of one message no order is needed.               *)
LEMMA FaultKeepsOrder ==
  ASSUME IInv, Assumed, Fault, toServer' \in Seq(0 .. Offered - 1)
  PROVE  /\ Ordered(toServer', sSequence)
         /\ SortedData /\ spc = "recv" => Covered(toServer', sSequence, Offered)
<1> USE ConstantsType
<1>1. sSequence \in 0 .. MAX /\ Offered \in 0 .. MAX
  BY OfferedType DEF IInv, TypeOK
<1>2. /\ Ordered(toServer, sSequence)
      /\ SortedData /\ spc = "recv" => Covered(toServer, sSequence, Offered)
  BY DEF IInv, DataOrder
<1>3. CASE SortedData
  <2>1. CASE toServer' = toServer
    BY <1>2, <2>1
  <2>2. CASE toServer' \in Faulted(toServer, DataFaults)
    <3>1. PICK i \in 1 .. Len(toServer) : toServer' = Append(toServer, toServer[i])
      <4>1. "lose" \notin DataFaults /\ "reorder" \notin DataFaults
        BY <1>3 DEF SortedData
      <4> QED BY <2>2, <4>1 DEF Faulted, Duplicated
    <3>2. toServer \in Seq(Nat)
      <4>1. 0 .. MAX - 1 \subseteq Nat /\ toServer \in Seq(0 .. MAX - 1)
        BY DEF IInv, TypeOK, Messages
      <4> QED BY <4>1, Widen
    <3>3. toServer[i] \in Nat /\ Len(toServer) \in Nat
      BY <3>2, ElementOfSeq
    <3>4. toServer[i] <= sSequence \/ Holds(toServer, toServer[i] - 1)
      BY <1>2, <3>3 DEF Ordered, Holds
    <3> QED BY <1>1, <1>2, <3>1, <3>2, <3>3, <3>4, OrderedAppend, CoveredAppend
  <2> QED BY <2>1, <2>2 DEF Fault
<1>4. CASE ~SortedData
  <2>1. FirstWin = 1
    BY <1>4 DEF Assumed
  <2>2. Offered - 1 <= sSequence
    BY <1>1, <2>1 DEF IInv, TypeOK, Counters
  <2>3. 0 .. Offered - 1 \subseteq 0 .. sSequence
    BY <1>1, <2>2
  <2>4. toServer' \in Seq(0 .. sSequence)
    BY <2>3, Widen
  <2> QED BY <1>1, <1>4, <2>4, OrderedBelow
<1> QED BY <1>3, <1>4

(* A fault of the network that Assumed admits keeps it.                  *)
LEMMA NetworkFaultKeeps == IInv /\ Assumed /\ NetworkFault => IInv'
<1> SUFFICES ASSUME IInv, Assumed, NetworkFault PROVE IInv'
  OBVIOUS
<1>1. Offered' = Offered
  BY DEF NetworkFault, clientVars, Offered
<1>2. /\ toServer' \in Seq(Messages) /\ toClient' \in Seq(Messages)
      /\ toServer' \in Seq(0 .. Offered - 1) /\ toClient' \in Seq(0 .. sSequence - 1)
  BY FaultKeepsChannels DEF NetworkFault, IInv, TypeOK, InFlight
<1>3. faults' \in 0 .. MaxFaults
  BY FaultKeepsCount DEF NetworkFault, IInv, TypeOK
<1>4. TypeOK' /\ InFlight'
  BY <1>1, <1>2, <1>3
  DEF NetworkFault, clientVars, serverVars, IInv, TypeOK, InFlight
<1>5. DataOrder'
  BY <1>1, <1>2, FaultKeepsOrder DEF NetworkFault, serverVars, DataOrder
<1>6. Counters' /\ NoGap' /\ ControlPoints' /\ BothInFirst'
  BY <1>1 DEF NetworkFault, clientVars, serverVars, IInv, Counters, NoGap, ControlPoints, BothInFirst
<1> QED BY <1>4, <1>5, <1>6 DEF IInv
-----------------------------------------------------------------------------
(* All rounds. What the types of the counters rest on, whatever the        *)
(* network does: where the client is in its loops, and that the marks of   *)
(* the server have a highest.                                              *)

Places ==
  /\ cpc = "sent" => sequence < MAX /\ message = sequence
  /\ cpc \in {"loop", "inner"} /\ sequence > 0 => message = sequence - 1
  /\ cpc = "inner" => ~WindowOpen
  /\ spc = "recv" => sSequence < MAX

Highest == array # {} => \E h \in array : \A x \in array : x <= h

Shape == TypeOK /\ Places /\ Highest

(* A set of numbers with a highest member has it as its Max. *)
LEMMA MaxIsHighest ==
  ASSUME NEW S \in SUBSET Messages, NEW h \in S, \A x \in S : x <= h
  PROVE  Max(S) = h
<1> USE ConstantsType
<1>1. \A x \in S : x \in Nat
  BY DEF Messages
<1>2. \A x \in S : h >= x
  BY <1>1
<1>3. \A x \in S : (\A y \in S : x >= y) => x = h
  BY <1>1, <1>2
<1> QED BY <1>2, <1>3 DEF Max

(* The marks with one more: the highest of them is among them. *)
LEMMA MarkedHighest ==
  ASSUME Shape, NEW m \in Messages
  PROVE  /\ Max(array \union {m}) \in Messages
         /\ \A x \in array \union {m} : x <= Max(array \union {m})
         /\ Max(array \union {m}) \in array \union {m}
<1> USE ConstantsType
<1> DEFINE marked == array \union {m}
<1>1. marked \in SUBSET Messages
  BY DEF Shape, TypeOK
<1>2. PICK h \in marked : \A x \in marked : x <= h
  <2>1. CASE array = {}
    BY <2>1 DEF Messages
  <2>2. CASE array # {}
    <3>1. PICK h \in array : \A x \in array : x <= h
      BY <2>2 DEF Shape, Highest
    <3>2. h \in Nat /\ m \in Nat /\ \A x \in array : x \in Nat
      BY DEF Shape, TypeOK, Messages
    <3>3. CASE h <= m
      BY <3>1, <3>2, <3>3
    <3>4. CASE m <= h
      BY <3>1, <3>2, <3>4
    <3> QED BY <3>2, <3>3, <3>4
  <2> QED BY <2>1, <2>2
<1>3. Max(marked) = h
  BY <1>1, <1>2, MaxIsHighest
<1> QED BY <1>1, <1>2, <1>3

(* What StartSequence leaves in range. *)
LEMMA StartSequenceType ==
  ASSUME TypeOK, StartSequence
  PROVE  /\ toServer' \in Seq(Messages)
         /\ retransmitted' \in 0 .. MaxCount
         /\ timer' \in 0 .. Expired
<1>1. retransmitted' \in 0 .. MaxCount /\ timer' \in 0 .. Expired
  BY BumpType, ConstantsType DEF StartSequence, TypeOK, Expired
<1>2. toServer' = SendTo(toServer, message, spc # "done") /\ (spc # "done") \in BOOLEAN
  BY DEF StartSequence
<1> QED BY <1>1, <1>2, Send DEF TypeOK

(* A client in its inner loop has sent something. *)
LEMMA InnerSent ==
  ASSUME Shape, cpc = "inner"
  PROVE  sequence > 0 /\ message = sequence - 1
  BY ConstantsType DEF Shape, TypeOK, Places, WindowOpen

(* What ServerRecv does with message m, whose acknowledgment is ack: it    *)
(* ends the round, it ends the last round, or it goes on.                  *)
Takes(m, ack) ==
  /\ spc = "recv" /\ RecvFrom(toServer, m) /\ toServer' = Tail(toServer)
  /\ m = sSequence =>
       /\ ack \in array \union {m}
       /\ \A x \in array \union {m} : x <= ack
  /\ m # sSequence => ack = sAck
  /\ toClient' = SendTo(toClient, ack, cpc # "done")
  /\ \/ /\ m = sSequence /\ ack = MAX - 1 /\ sWin < LastWin
        /\ sWin' = sWin + 1 /\ sSequence' = 0 /\ sAck' = 0 /\ array' = {}
        /\ spc' = "recv"
     \/ /\ m = sSequence /\ ack = MAX - 1 /\ sWin = LastWin
        /\ sWin' = sWin /\ sSequence' = MAX /\ sAck' = ack
        /\ array' = array \union {m}
        /\ spc' = "final"
     \/ /\ m = sSequence => ack # MAX - 1
        /\ sWin' = sWin /\ spc' = "recv"
        /\ sSequence' = IF m = sSequence THEN ack + 1 ELSE sSequence
        /\ sAck' = ack /\ array' = array \union {m}
  /\ UNCHANGED <<finalAcks, clientVars, faults>>

(* What the server does with the message it reads, part by part.         *)
LEMMA ServerRecvTakes ==
  ASSUME Shape, ServerRecv
  PROVE  \E m \in Messages, ack \in Messages : Takes(m, ack)
<1> USE ConstantsType
<1>1. PICK m \in Messages :
        /\ RecvFrom(toServer, m)
        /\ LET marked == array \union {m}
               ack == NextAck(m, marked)
               next == IF m = sSequence THEN ack + 1 ELSE sSequence
           IN /\ toClient' = SendTo(toClient, ack, cpc # "done")
              /\ IF next >= MAX /\ sWin < LastWin
                   THEN /\ sWin' = sWin + 1
                        /\ sSequence' = 0
                        /\ sAck' = 0
                        /\ array' = {}
                   ELSE /\ sSequence' = next
                        /\ sAck' = ack
                        /\ array' = marked
                        /\ UNCHANGED sWin
              /\ spc' = IF next >= MAX /\ sWin = LastWin THEN "final" ELSE "recv"
  BY DEF ServerRecv
<1>2. /\ spc = "recv" /\ toServer' = Tail(toServer)
      /\ UNCHANGED <<finalAcks, clientVars, faults>>
  BY DEF ServerRecv
<1>3. /\ sSequence \in 0 .. MAX - 1 /\ sAck \in 0 .. MAX - 1 /\ m \in 0 .. MAX - 1
      /\ sWin \in Nat /\ sWin <= LastWin
  BY <1>2 DEF Shape, TypeOK, Places, Messages
<1> DEFINE ack == NextAck(m, array \union {m})
<1>4. CASE m = sSequence
  <2>1. /\ ack \in 0 .. MAX - 1
        /\ ack \in array \union {m}
        /\ \A x \in array \union {m} : x <= ack
    BY <1>4, MarkedHighest DEF NextAck, Messages
  <2>2. /\ toClient' = SendTo(toClient, ack, cpc # "done")
        /\ IF ack + 1 >= MAX /\ sWin < LastWin
             THEN sWin' = sWin + 1 /\ sSequence' = 0 /\ sAck' = 0 /\ array' = {}
             ELSE /\ sSequence' = ack + 1 /\ sAck' = ack
                  /\ array' = array \union {m} /\ sWin' = sWin
        /\ spc' = IF ack + 1 >= MAX /\ sWin = LastWin THEN "final" ELSE "recv"
    BY <1>1, <1>4
  <2> HIDE DEF ack
  <2>3. ack + 1 >= MAX <=> ack = MAX - 1
    BY <2>1
  <2>4. ack = MAX - 1 => ack + 1 = MAX
    BY <2>1
  <2>5. CASE ack = MAX - 1 /\ sWin < LastWin
    BY <1>1, <1>2, <1>3, <1>4, <2>1, <2>2, <2>3, <2>5 DEF Messages, Takes
  <2>6. CASE ack = MAX - 1 /\ sWin = LastWin
    BY <1>1, <1>2, <1>3, <1>4, <2>1, <2>2, <2>3, <2>4, <2>6 DEF Messages, Takes
  <2>7. CASE ack # MAX - 1
    BY <1>1, <1>2, <1>3, <1>4, <2>1, <2>2, <2>3, <2>7 DEF Messages, Takes
  <2> QED BY <1>3, <2>5, <2>6, <2>7
<1>5. CASE m # sSequence
  <2>1. ack = sAck
    BY <1>5 DEF NextAck
  <2>2. /\ toClient' = SendTo(toClient, sAck, cpc # "done")
        /\ sSequence' = sSequence /\ sAck' = sAck
        /\ array' = array \union {m} /\ sWin' = sWin
        /\ spc' = "recv"
    BY <1>1, <1>3, <1>5, <2>1
  <2> QED BY <1>1, <1>2, <1>3, <1>5, <2>2 DEF Messages, Takes
<1> QED BY <1>4, <1>5

(* The initial states have the shape.                                    *)
LEMMA ShapeInit == Init => Shape
<1> USE ConstantsType
<1>1. Init => TypeOK
  BY EmptySeq DEF Init, NetInit, TypeOK, Messages, Expired
<1> QED BY <1>1 DEF Init, Shape, Places, Highest

(* Every step of client, server and network keeps the shape. *)
LEMMA ShapeStep == Shape /\ [Next]_vars => Shape'
<1> SUFFICES ASSUME Shape, [Next]_vars PROVE Shape'
  OBVIOUS
<1> USE ConstantsType
<1>1. CASE ClientSend
  <2>1. sequence \in Messages /\ (spc # "done") \in BOOLEAN
    BY <1>1 DEF ClientSend, WindowOpen, Shape, TypeOK, Messages
  <2>2. toServer' \in Seq(Messages)
    BY <1>1, <2>1, Send DEF ClientSend, Shape, TypeOK
  <2>3. TypeOK'
    BY <1>1, <2>1, <2>2 DEF ClientSend, serverVars, Shape, TypeOK
  <2> QED
    BY <1>1, <2>1, <2>3
    DEF ClientSend, WindowOpen, serverVars, Shape, Places, Highest, Messages
<1>2. CASE ClientAfterSend
  <2>1. ackSeq' \in 0 .. MAX /\ toClient' \in Seq(Messages)
    <3>1. CASE PollRecvFrom(toClient)
      <4>1. PICK ack \in Messages : RecvFrom(toClient, ack) /\ ackSeq' = Acked(ack)
        BY <1>2, <3>1 DEF ClientAfterSend
      <4>2. toClient' \in Seq(Messages)
        BY <1>2, <3>1, <4>1, Receive DEF ClientAfterSend, Shape, TypeOK
      <4> QED BY <4>1, <4>2 DEF Acked, Shape, TypeOK, Messages
    <3>2. CASE ~PollRecvFrom(toClient)
      BY <1>2, <3>2 DEF ClientAfterSend, Shape, TypeOK
    <3> QED BY <3>1, <3>2
  <2>2. /\ sequence' = sequence + 1 /\ sequence \in 0 .. MAX - 1 /\ cpc' = "loop"
        /\ message = sequence
    BY <1>2 DEF ClientAfterSend, Shape, TypeOK, Places
  <2>3. TypeOK'
    BY <1>2, <2>1, <2>2 DEF ClientAfterSend, serverVars, Shape, TypeOK
  <2> QED
    BY <1>2, <2>2, <2>3 DEF ClientAfterSend, serverVars, Shape, Places, Highest
<1>3. CASE ClientFull
  <2>1. TypeOK'
    BY <1>3, StartSequenceType
    DEF ClientFull, serverVars, Shape, TypeOK, Expired
  <2> QED
    BY <1>3, <2>1 DEF ClientFull, serverVars, WindowOpen, Shape, Places, Highest
<1>4. CASE ClientInnerEnd
  BY <1>4 DEF ClientInnerEnd, serverVars, netVars, Shape, TypeOK, Places, Highest
<1>5. CASE ClientInnerRecv
  <2>1. PICK ack \in Messages :
          /\ RecvFrom(toClient, ack)
          /\ \/ /\ NewAck(ack)
                /\ ackSeq' = ack + 1
                /\ cpc' = "loop"
                /\ UNCHANGED <<toServer, retransmitted, timer>>
             \/ /\ ~NewAck(ack)
                /\ StartSequence
                /\ UNCHANGED <<ackSeq, cpc>>
    BY <1>5 DEF ClientInnerRecv
  <2>2. toClient' \in Seq(Messages) /\ ack + 1 \in 0 .. MAX
    BY <1>5, <2>1, Receive DEF ClientInnerRecv, Shape, TypeOK, Messages
  <2>3. /\ toServer' \in Seq(Messages)
        /\ retransmitted' \in 0 .. MaxCount
        /\ timer' \in 0 .. Expired
    BY <2>1, StartSequenceType DEF Shape, TypeOK
  <2>4. TypeOK'
    BY <1>5, <2>1, <2>2, <2>3 DEF ClientInnerRecv, serverVars, Shape, TypeOK
  <2> QED
    BY <1>5, <2>1, <2>4
    DEF ClientInnerRecv, serverVars, WindowOpen, Shape, Places, Highest
<1>6. CASE ClientNextRound
  <2>1. TypeOK'
    BY <1>6 DEF ClientNextRound, serverVars, netVars, Shape, TypeOK, Expired
  <2> QED
    BY <1>6, <2>1 DEF ClientNextRound, serverVars, Shape, Places, Highest
<1>7. CASE ClientReturn
  BY <1>7, EmptySeq DEF ClientReturn, serverVars, Shape, TypeOK, Places, Highest
<1>8. CASE ServerRecv
  <2>1. PICK m \in Messages, ack \in Messages : Takes(m, ack)
    BY <1>8, ServerRecvTakes
  <2>2. toServer' \in Seq(Messages)
    BY <2>1, Receive DEF Takes, Shape, TypeOK
  <2>3. toClient' \in Seq(Messages)
    <3>1. (cpc # "done") \in BOOLEAN
      OBVIOUS
    <3> QED BY <2>1, <3>1, Send DEF Takes, Shape, TypeOK
  <2>4. /\ sSequence \in 0 .. MAX - 1 /\ m \in 0 .. MAX - 1 /\ ack \in 0 .. MAX - 1
        /\ sWin \in FirstWin .. LastWin /\ array \in SUBSET Messages
    BY <2>1 DEF Takes, Shape, TypeOK, Places, Messages
  <2>5. /\ sSequence' \in 0 .. MAX /\ (spc' = "recv" => sSequence' < MAX)
        /\ sAck' \in Messages /\ spc' \in {"recv", "final"}
        /\ array' \in SUBSET Messages /\ sWin' \in FirstWin .. LastWin
    <3>1. array' \in SUBSET Messages
      BY <2>1, <2>4 DEF Takes
    <3>2. sSequence' \in 0 .. MAX /\ (spc' = "recv" => sSequence' < MAX)
      BY <2>1, <2>4 DEF Takes
    <3>3. sWin' \in FirstWin .. LastWin
      BY <2>1, <2>4 DEF Takes
    <3>4. sAck' \in Messages /\ spc' \in {"recv", "final"}
      BY <2>1, <2>4 DEF Takes, Messages
    <3> QED BY <3>1, <3>2, <3>3, <3>4
  <2>6. TypeOK'
    BY <2>1, <2>2, <2>3, <2>5 DEF Takes, clientVars, Shape, TypeOK
  <2>7. Highest'
    <3>1. /\ Max(array \union {m}) \in array \union {m}
          /\ \A x \in array \union {m} : x <= Max(array \union {m})
      BY MarkedHighest
    <3> QED BY <2>1, <3>1 DEF Takes, Highest
  <2>8. Places'
    BY <2>1, <2>5 DEF Takes, clientVars, Shape, Places, WindowOpen
  <2> QED BY <2>6, <2>7, <2>8 DEF Shape
<1>9. CASE FinalAck
  <2>1. MAX - 1 \in Messages /\ (cpc # "done") \in BOOLEAN
    BY DEF Messages
  <2>2. toClient' \in Seq(Messages)
    BY <1>9, <2>1, Send DEF FinalAck, Shape, TypeOK
  <2>3. TypeOK'
    BY <1>9, <2>2 DEF FinalAck, clientVars, Shape, TypeOK
  <2> QED
    BY <1>9, <2>3 DEF FinalAck, clientVars, WindowOpen, Shape, Places, Highest
<1>10. CASE ServerExit
  BY <1>10, EmptySeq
  DEF ServerExit, clientVars, WindowOpen, Shape, TypeOK, Places, Highest
<1>11. CASE Tick
  <2>1. TypeOK'
    BY <1>11 DEF Tick, serverVars, netVars, Expired, Shape, TypeOK
  <2> QED
    BY <1>11, <2>1 DEF Tick, serverVars, WindowOpen, Shape, Places, Highest
<1>12. CASE NetworkFault
  <2>1. /\ toServer' \in Seq(Messages) /\ toClient' \in Seq(Messages)
        /\ faults' \in 0 .. MaxFaults
    BY <1>12, FaultKeepsChannels, FaultKeepsCount DEF NetworkFault, Shape, TypeOK
  <2>2. TypeOK'
    BY <1>12, <2>1 DEF NetworkFault, clientVars, serverVars, Shape, TypeOK
  <2> QED
    BY <1>12, <2>2
    DEF NetworkFault, clientVars, serverVars, WindowOpen, Shape, Places, Highest
<1>13. CASE UNCHANGED vars
  BY <1>13
  DEF vars, clientVars, serverVars, netVars, WindowOpen, Shape, TypeOK, Places, Highest
<1> QED
  BY <1>1, <1>2, <1>3, <1>4, <1>5, <1>6, <1>7, <1>8, <1>9, <1>10, <1>11, <1>12,
     <1>13
  DEF Next, Client, Server, Finished

(* Type correctness of the sliding window, for any rounds and any faults:  *)
(* the sequence numbers, the server's array and both channels stay in      *)
(* range (hw2.cpp:229-289, 321-349).                                       *)
THEOREM TypeCorrect == Spec => []TypeOK
<1>1. Shape => TypeOK
  BY DEF Shape
<1> QED BY <1>1, ShapeInit, ShapeStep, PTL DEF Spec

-----------------------------------------------------------------------------
(* The first round: every step keeps the invariant, or the server leaves   *)
(* the round.                                                              *)
LEMMA NextInvariant == IInv /\ Assumed /\ [Next]_vars => IInv' \/ Left'
<1> SUFFICES ASSUME IInv, Assumed, [Next]_vars PROVE IInv' \/ Left'
  OBVIOUS
<1>1. CASE Client
  BY <1>1, ClientSendKeeps, ClientAfterSendKeeps, ClientFullKeeps,
     ClientInnerEndKeeps, ClientInnerRecvKeeps, NoNextRound, ClientReturnKeeps
  DEF Client
<1>2. CASE Server
  BY <1>2, ServerRecvKeeps, FinalAckKeeps, ServerExitKeeps DEF Server
<1>3. CASE Tick
  BY <1>3, TickKeeps
<1>4. CASE NetworkFault
  BY <1>4, NetworkFaultKeeps
<1>5. CASE Finished \/ UNCHANGED vars
  <2>1. UNCHANGED <<vars, Offered>>
    BY <1>5 DEF Finished, vars, clientVars, Offered
  <2> QED
    BY <2>1 DEF vars, clientVars, serverVars, netVars, IInv, TypeOK, InFlight,
                Counters, NoGap, ControlPoints, BothInFirst, DataOrder
<1> QED BY <1>1, <1>2, <1>3, <1>4, <1>5 DEF Next

(* The server does not come back, and the client has nothing more to send  *)
(* in the round.                                                           *)
LEMMA LeftKeeps == TypeOK /\ Left /\ [Next]_vars => Left'
<1> SUFFICES ASSUME TypeOK, Left, [Next]_vars PROVE Left'
  OBVIOUS
<1> USE ConstantsType
<1>1. /\ sWin \in Nat /\ cWin \in Nat /\ FirstWin <= cWin
      /\ sequence \in 0 .. MAX /\ sWin > FirstWin
  BY DEF TypeOK, Left
<1>2. sWin' > FirstWin
  <2>1. sWin' = sWin \/ sWin' = sWin + 1
    BY DEF Next, Client, ClientSend, ClientAfterSend, ClientFull, ClientInnerEnd,
           ClientInnerRecv, ClientNextRound, ClientReturn, Server, ServerRecv, FinalAck,
           ServerExit, Tick, NetworkFault, Finished, vars, serverVars
  <2> QED BY <1>1, <2>1
<1>3. ASSUME cWin' = FirstWin PROVE Offered' = MAX
  <2>1. ~ClientNextRound
    BY <1>1, <1>3 DEF ClientNextRound
  <2>2. cWin' = cWin
    BY <2>1
    DEF Next, Client, ClientSend, ClientAfterSend, ClientFull, ClientInnerEnd,
        ClientInnerRecv, ClientReturn, Server, ServerRecv, FinalAck, ServerExit, Tick,
        NetworkFault, Finished, vars, clientVars
  <2>3. Offered = MAX
    BY <1>3, <2>2 DEF Left
  <2>4. ~ClientSend
    BY <1>1, <2>3 DEF ClientSend, WindowOpen, Offered
  <2>5. Offered' = Offered
    BY <2>1, <2>4
    DEF Offered, Next, Client, ClientAfterSend, ClientFull, ClientInnerEnd,
        ClientInnerRecv, ClientReturn, Server, ServerRecv, FinalAck, ServerExit, Tick,
        NetworkFault, Finished, vars, clientVars
  <2> QED BY <2>3, <2>5
<1> QED BY <1>2, <1>3 DEF Left

(* The strengthened invariant holds in every reachable state in which the  *)
(* server is in the first round, if in that round messages keep their      *)
(* order or one at a time is sent.                                         *)
LEMMA Invariance == Assumed /\ Spec => [](TypeOK /\ (IInv \/ Left))
<1> SUFFICES ASSUME Assumed PROVE Spec => [](TypeOK /\ (IInv \/ Left))
  OBVIOUS
<1>1. TypeOK /\ (IInv \/ Left) /\ [Next]_vars => IInv' \/ Left'
  BY NextInvariant, LeftKeeps
<1> QED BY <1>1, InitInvariant, TypeCorrect, PTL DEF Spec

(* The first message missing after a prefix is the end of the prefix.      *)
LEMMA MinOfRest ==
  ASSUME NEW n \in 0 .. MAX
  PROVE  Min((0 .. MAX) \ (0 .. n - 1)) = n
<1> USE ConstantsType
<1> DEFINE Rest == (0 .. MAX) \ (0 .. n - 1)
<1>1. n \in Rest /\ \A y \in Rest : n <= y
  OBVIOUS
<1>2. \A x \in Rest : (\A y \in Rest : x <= y) => x = n
  BY <1>1
<1> QED BY <1>1, <1>2 DEF Min

(* The messages received without a gap are those the server has counted.   *)
LEMMA AcceptedIsSequence ==
  ASSUME IInv
  PROVE  Accepted = sSequence
  BY MinOfRest DEF IInv, TypeOK, NoGap, Accepted

(* Cumulative acknowledgments are truthful: what is acknowledged while the *)
(* server is in its first round has been received, and so has everything   *)
(* before it (hw2.cpp:318-346).                                            *)
THEOREM TruthfulAcksCorrect == Assumed /\ Spec => []TruthfulAcks
<1> SUFFICES ASSUME Assumed PROVE Spec => []TruthfulAcks
  OBVIOUS
<1>1. ASSUME IInv PROVE TruthfulAcks
  <2>1. Accepted = sSequence /\ sSequence \in Nat
    BY <1>1, AcceptedIsSequence DEF IInv, TypeOK
  <2>2. ToSet(toClient) \subseteq 0 .. sSequence - 1
    BY <1>1, ChannelContents DEF IInv, InFlight
  <2> QED BY <2>1, <2>2 DEF TruthfulAcks
<1>2. TypeOK /\ Left => TruthfulAcks
  BY ConstantsType DEF TypeOK, Left, TruthfulAcks
<1> QED BY <1>1, <1>2, Invariance, PTL

-----------------------------------------------------------------------------
(* The three counters of the transfer, while the server is in the round.   *)
LEMMA FirstCounters ==
  ASSUME IInv
  PROVE  /\ FirstOffered = Offered
         /\ FirstAccepted = Accepted
         /\ FirstConfirmed = ackSeq
  BY DEF IInv, BothInFirst, FirstOffered, FirstAccepted, FirstConfirmed

(* A step within the round changes one of them as the transfer may, or     *)
(* none.                                                                   *)
LEMMA FirstSteps ==
  ASSUME IInv, IInv',
         \/ UNCHANGED <<Offered, Accepted, ackSeq>>
         \/ /\ Offered < MAX /\ Offered < ackSeq + FirstWin /\ Offered' = Offered + 1
            /\ UNCHANGED <<Accepted, ackSeq>>
         \/ /\ Accepted < Offered /\ Accepted' \in Accepted + 1 .. Offered
            /\ UNCHANGED <<Offered, ackSeq>>
         \/ /\ ackSeq < Accepted /\ ackSeq' \in ackSeq + 1 .. Accepted
            /\ UNCHANGED <<Offered, Accepted>>
  PROVE  [Transfer!Next]_(Transfer!vars)
<1>1. /\ FirstOffered' = Offered'
      /\ FirstAccepted' = Accepted'
      /\ FirstConfirmed' = ackSeq'
  BY DEF IInv, BothInFirst, FirstOffered, FirstAccepted, FirstConfirmed
<1> QED
  BY <1>1, FirstCounters
  DEF Transfer!Next, Transfer!Offer, Transfer!Accept, Transfer!Confirm, Transfer!vars

(* Sending a message offers it. *)
LEMMA ClientSendOffers ==
  ASSUME IInv, Assumed, ClientSend
  PROVE  [Transfer!Next]_(Transfer!vars)
<1>1. /\ Offered = sequence /\ Offered' = sequence + 1
      /\ sequence < MAX /\ ackSeq' = ackSeq /\ array' = array
  BY DEF ClientSend, WindowOpen, serverVars, Offered
<1>2. sequence < ackSeq + FirstWin
  BY ConstantsType
  DEF ClientSend, WindowOpen, IInv, TypeOK, BothInFirst
<1>3. Accepted' = Accepted
  BY <1>1 DEF Accepted
<1>4. IInv'
  BY ClientSendKeeps
<1> QED BY <1>1, <1>2, <1>3, <1>4, FirstSteps

(* Both places where the client reads an acknowledgment confirm, and only  *)
(* what the server has accepted.                                           *)
LEMMA ClientAcksConfirm ==
  ASSUME IInv, Assumed, ClientAfterSend \/ ClientInnerRecv
  PROVE  [Transfer!Next]_(Transfer!vars)
<1>1. UNCHANGED <<Offered, array>>
  BY DEF ClientAfterSend, ClientInnerRecv, serverVars, Offered
<1>2. ackSeq \in Nat /\ ackSeq <= sSequence /\ sSequence \in Nat
  BY DEF IInv, TypeOK, Counters
<1>3. \/ ackSeq' = ackSeq
      \/ \E ack \in 0 .. sSequence - 1 : ack >= ackSeq /\ ackSeq' = ack + 1
  <2>1. CASE ClientAfterSend
    <3>1. CASE PollRecvFrom(toClient)
      <4>1. PICK ack \in Messages : RecvFrom(toClient, ack) /\ ackSeq' = Acked(ack)
        BY <2>1, <3>1 DEF ClientAfterSend
      <4> QED BY <1>2, <4>1, AckRead DEF Acked
    <3>2. CASE ~PollRecvFrom(toClient)
      BY <2>1, <3>2 DEF ClientAfterSend
    <3> QED BY <3>1, <3>2
  <2>2. CASE ClientInnerRecv
    <3>1. PICK ack \in Messages :
            /\ RecvFrom(toClient, ack)
            /\ \/ NewAck(ack) /\ ackSeq' = ack + 1
               \/ ackSeq' = ackSeq
      BY <2>2 DEF ClientInnerRecv
    <3> QED BY <3>1, AckRead DEF NewAck
  <2> QED BY <2>1, <2>2
<1>4. ackSeq' = ackSeq \/ (ackSeq < sSequence /\ ackSeq' \in ackSeq + 1 .. sSequence)
  BY <1>2, <1>3
<1>5. Accepted' = Accepted /\ Accepted = sSequence
  BY <1>1, AcceptedIsSequence DEF Accepted
<1>6. IInv'
  BY ClientAfterSendKeeps, ClientInnerRecvKeeps
<1> QED BY <1>1, <1>4, <1>5, <1>6, FirstSteps

(* A longer prefix ends later. *)
LEMMA PrefixGrows ==
  ASSUME NEW i \in Nat, NEW k \in Nat, 0 .. i - 1 \subseteq 0 .. k - 1
  PROVE  i <= k
<1>1. i > 0 => i - 1 \in 0 .. k - 1
  OBVIOUS
<1> QED BY <1>1

(* The server accepts only what was offered, one message at a time.        *)
LEMMA ServerRecvAccepts ==
  ASSUME IInv, IInv', ServerRecv
  PROVE  [Transfer!Next]_(Transfer!vars)
<1>1. Accepted = sSequence /\ Accepted' = sSequence'
  <2>1. sSequence' \in 0 .. MAX /\ array' = 0 .. sSequence' - 1
    BY DEF IInv, TypeOK, NoGap
  <2> QED BY <2>1, MinOfRest, AcceptedIsSequence DEF Accepted
<1>2. UNCHANGED <<Offered, ackSeq>>
  BY DEF ServerRecv, clientVars, Offered
<1>3. sSequence <= sSequence'
  <2>1. sWin' = sWin /\ sWin \in Nat
    BY ConstantsType DEF IInv, TypeOK, BothInFirst
  <2>2. array \subseteq array'
    BY <2>1 DEF ServerRecv
  <2>3. /\ array = 0 .. sSequence - 1 /\ sSequence \in Nat
        /\ array' = 0 .. sSequence' - 1 /\ sSequence' \in Nat
    BY DEF IInv, TypeOK, NoGap
  <2> QED BY <2>2, <2>3, PrefixGrows
<1>4. /\ sSequence' <= Offered /\ Offered \in Nat
      /\ sSequence \in Nat /\ sSequence' \in Nat
  <2>1. sSequence' <= Offered' /\ sSequence' \in Nat
    BY ConstantsType DEF IInv, TypeOK, Counters
  <2>2. Offered \in 0 .. MAX /\ sSequence \in 0 .. MAX /\ MAX \in Nat
    BY OfferedType, ConstantsType DEF IInv, TypeOK
  <2> QED BY <1>2, <2>1, <2>2
<1>5. \/ sSequence' = sSequence
      \/ sSequence < Offered /\ sSequence' \in sSequence + 1 .. Offered
  BY <1>3, <1>4
<1> QED BY <1>1, <1>2, <1>5, FirstSteps

(* When it leaves the round it accepts the rest, all of which was offered. *)
LEMMA ServerLeavesAccepts ==
  ASSUME IInv, Left', ServerRecv
  PROVE  [Transfer!Next]_(Transfer!vars)
<1> USE ConstantsType
<1>1. UNCHANGED <<Offered, ackSeq, cWin>> /\ spc = "recv"
  BY DEF ServerRecv, clientVars, Offered
<1>2. cWin = FirstWin /\ Offered = MAX
  BY <1>1 DEF IInv, BothInFirst, Left
<1>3. Accepted = sSequence /\ sSequence \in 0 .. MAX - 1
  BY <1>1, AcceptedIsSequence DEF IInv, TypeOK, ControlPoints
<1>4. FirstAccepted = sSequence /\ FirstAccepted' = MAX
  BY <1>3, FirstCounters DEF Left, FirstAccepted, IInv, TypeOK
<1>5. FirstOffered = MAX /\ UNCHANGED <<FirstOffered, FirstConfirmed>>
  BY <1>1, <1>2 DEF FirstOffered, FirstConfirmed
<1>6. sSequence < MAX /\ MAX \in sSequence + 1 .. MAX
  BY <1>3
<1> QED BY <1>4, <1>5, <1>6 DEF Transfer!Next, Transfer!Accept

(* After that the client only confirms.                                    *)
LEMMA LeftConfirms ==
  ASSUME TypeOK, TypeOK', Left, [Next]_vars
  PROVE  [Transfer!Next]_(Transfer!vars)
<1> USE ConstantsType
<1>1. FirstOffered = MAX /\ FirstAccepted = MAX
  BY DEF Left, FirstOffered, FirstAccepted, TypeOK
<1>2. FirstOffered' = MAX /\ FirstAccepted' = MAX
  <2>1. Left'
    BY LeftKeeps
  <2> QED BY <2>1 DEF Left, FirstOffered, FirstAccepted, TypeOK
<1>3. ackSeq \in 0 .. MAX /\ ackSeq' \in 0 .. MAX /\ FirstWin <= cWin /\ cWin \in Nat
  BY DEF TypeOK
<1>4. FirstConfirmed' = FirstConfirmed
        \/ (FirstConfirmed < MAX /\ FirstConfirmed' \in FirstConfirmed + 1 .. MAX)
  <2>1. CASE ClientNextRound
    <3>1. ackSeq = MAX /\ cWin' # FirstWin
      BY <1>3, <2>1 DEF ClientNextRound
    <3> QED BY <3>1 DEF FirstConfirmed
  <2>2. CASE ClientAfterSend \/ ClientInnerRecv
    <3>1. cWin' = cWin /\ (ackSeq' = ackSeq \/ \E ack \in Messages :
                                                 ack >= ackSeq /\ ackSeq' = ack + 1)
      BY <1>3, <2>2 DEF ClientAfterSend, ClientInnerRecv, Acked, NewAck, Messages
    <3>2. ackSeq' = ackSeq \/ (ackSeq < MAX /\ ackSeq' \in ackSeq + 1 .. MAX)
      BY <1>3, <3>1 DEF Messages
    <3> QED BY <3>1, <3>2 DEF FirstConfirmed
  <2>3. CASE ~ClientNextRound /\ ~ClientAfterSend /\ ~ClientInnerRecv
    BY <2>3
    DEF FirstConfirmed, Next, Client, ClientSend, ClientFull, ClientInnerEnd,
        ClientReturn, Server, ServerRecv, FinalAck, ServerExit, Tick, NetworkFault,
        Finished, vars, clientVars
  <2> QED BY <2>1, <2>2, <2>3
<1> QED
  BY <1>1, <1>2, <1>4 DEF Transfer!Next, Transfer!Confirm, Transfer!vars

(* The first round of the sliding window implements the reliable transfer  *)
(* with a window of windowSize messages, if in it messages are not lost    *)
(* and keep their order or the window is one message, and whatever happens *)
(* to acknowledgments and in later rounds (hw2.cpp:89-97, 229-289,         *)
(* 321-349).                                                               *)
THEOREM TransferImplemented == Assumed /\ Spec => ImplementsTransfer
<1> SUFFICES ASSUME Assumed PROVE Spec => ImplementsTransfer
  OBVIOUS
<1>1. Init => Transfer!Init
  <2> SUFFICES ASSUME Init PROVE Transfer!Init
    OBVIOUS
  <2>1. Accepted = sSequence
    BY InitInvariant, AcceptedIsSequence
  <2> QED BY <2>1, InitInvariant, FirstCounters DEF Init, Offered, Transfer!Init
<1>2. TypeOK /\ TypeOK' /\ (IInv \/ Left) /\ [Next]_vars
        => [Transfer!Next]_(Transfer!vars)
  <2> SUFFICES ASSUME TypeOK, TypeOK', IInv, [Next]_vars
               PROVE  [Transfer!Next]_(Transfer!vars)
    BY LeftConfirms
  <2>1. CASE ClientSend
    BY <2>1, ClientSendOffers
  <2>2. CASE ClientAfterSend \/ ClientInnerRecv
    BY <2>2, ClientAcksConfirm
  <2>3. CASE ServerRecv
    BY <2>3, ServerRecvKeeps, ServerRecvAccepts, ServerLeavesAccepts
  <2>4. CASE \/ ClientFull \/ ClientInnerEnd \/ ClientReturn
             \/ FinalAck \/ ServerExit \/ Tick \/ NetworkFault \/ Finished
             \/ UNCHANGED vars
    <3>1. UNCHANGED <<Offered, array, ackSeq, cWin, sWin>>
      BY <2>4 DEF ClientFull, ClientInnerEnd, ClientReturn, FinalAck, ServerExit, Tick,
                  NetworkFault, Finished, vars, clientVars, serverVars, Offered
    <3> QED
      BY <3>1
      DEF Accepted, FirstOffered, FirstAccepted, FirstConfirmed, Transfer!vars
  <2> QED BY <2>1, <2>2, <2>3, <2>4, NoNextRound DEF Next, Client, Server
<1> QED BY <1>1, <1>2, Invariance, PTL DEF Spec, ImplementsTransfer, Transfer!Spec

-----------------------------------------------------------------------------
(* The rounds stay in step on a network that only loses datagrams.         *)

RoundsAssumed ==
  /\ MAX > 1
  /\ DataFaults \subseteq {"lose"} /\ AckFaults \subseteq {"lose"}

Once(ch, k) ==
  \A i, j \in 1 .. Len(ch) : ch[i] = k /\ ch[j] = k => i = j

(* The messages of a channel come in their order, after those marked and   *)
(* none of them beyond top.                                                *)
Rising(ch, marks, top) ==
  /\ \A i, j \in 1 .. Len(ch) : i <= j => ch[i] <= ch[j]
  /\ \A i \in 1 .. Len(ch) : ch[i] <= top /\ \A a \in marks : a <= ch[i]
  /\ \A a \in marks : a <= top

(* A channel without one of its datagrams. *)
OneLess(new, ch) ==
  \E i \in 1 .. Len(ch) :
    /\ Len(new) = Len(ch) - 1
    /\ \A j \in 1 .. Len(ch) - 1 : new[j] = IF j < i THEN ch[j] ELSE ch[j + 1]

(* Reading the head of a channel adds no occurrence of a message.        *)
LEMMA TailLess ==
  ASSUME NEW S, NEW ch \in Seq(S), ch # <<>>
  PROVE  OneLess(Tail(ch), ch)
<1>1. /\ Len(ch) \in Nat /\ Len(ch) > 0
      /\ Len(Tail(ch)) = Len(ch) - 1
      /\ \A i \in 1 .. Len(ch) - 1 : Tail(ch)[i] = ch[i + 1]
  BY HeadTailProperties, EmptySeq
<1>2. 1 \in 1 .. Len(ch) /\ \A j \in 1 .. Len(ch) - 1 : ~(j < 1)
  BY <1>1
<1> QED BY <1>1, <1>2 DEF OneLess

(* Losing a datagram adds no occurrence and keeps the order.             *)
LEMMA LossLess ==
  ASSUME NEW S, NEW ch \in Seq(S), NEW i \in 1 .. Len(ch)
  PROVE  OneLess(Lost(ch, i), ch)
<1> DEFINE front == SubSeq(ch, 1, i - 1)
           back == SubSeq(ch, i + 1, Len(ch))
<1>1. Len(ch) \in Nat /\ \A j \in 1 .. Len(ch) : ch[j] \in S
  BY ElementOfSeq
<1>2. /\ front \in Seq(S) /\ Len(front) = i - 1
      /\ \A j \in 1 .. i - 1 : front[j] = ch[j]
  <2>1. 1 \in Int /\ i - 1 \in Int /\ \A j \in 1 .. i - 1 : ch[j] \in S
    BY <1>1
  <2>2. /\ front \in Seq(S)
        /\ Len(front) = IF 1 <= i - 1 THEN (i - 1) - 1 + 1 ELSE 0
        /\ \A j \in 1 .. (i - 1) - 1 + 1 : front[j] = ch[1 + j - 1]
    BY <2>1, SubSeqProperties
  <2> HIDE DEF front
  <2> QED BY <1>1, <2>2
<1>3. /\ back \in Seq(S) /\ Len(back) = Len(ch) - i
      /\ \A j \in 1 .. Len(ch) - i : back[j] = ch[i + j]
  <2>1. i + 1 \in Int /\ Len(ch) \in Int /\ \A j \in i + 1 .. Len(ch) : ch[j] \in S
    BY <1>1
  <2>2. /\ back \in Seq(S)
        /\ Len(back) = IF i + 1 <= Len(ch) THEN Len(ch) - (i + 1) + 1 ELSE 0
        /\ \A j \in 1 .. Len(ch) - (i + 1) + 1 : back[j] = ch[(i + 1) + j - 1]
    BY <2>1, SubSeqProperties
  <2> HIDE DEF back
  <2> QED BY <1>1, <2>2
<1> HIDE DEF front, back
<1>4. /\ Len(front \o back) = Len(front) + Len(back)
      /\ \A j \in 1 .. Len(front) + Len(back) :
           (front \o back)[j] =
             IF j <= Len(front) THEN front[j] ELSE back[j - Len(front)]
  BY <1>2, <1>3, ConcatProperties
<1>5. Len(front \o back) = Len(ch) - 1
  BY <1>1, <1>2, <1>3, <1>4
<1>6. ASSUME NEW j \in 1 .. Len(ch) - 1
      PROVE  (front \o back)[j] = IF j < i THEN ch[j] ELSE ch[j + 1]
  <2>1. CASE j < i
    BY <1>1, <1>2, <1>3, <1>4, <2>1
  <2>2. CASE ~(j < i)
    <3>1. /\ ~(j <= i - 1) /\ j - (i - 1) \in 1 .. Len(ch) - i
          /\ i + (j - (i - 1)) = j + 1 /\ j \in 1 .. Len(front) + Len(back)
      BY <1>1, <1>2, <1>3, <2>2
    <3> QED BY <1>2, <1>3, <1>4, <2>2, <3>1
  <2> QED BY <2>1, <2>2
<1>7. Lost(ch, i) = front \o back
  BY DEF Lost, RemoveAt, front, back
<1> QED BY <1>5, <1>6, <1>7 DEF OneLess

(* What is true of a channel stays true without one of its datagrams.      *)
LEMMA LessKeeps ==
  ASSUME NEW ch \in Seq(Nat), NEW new, OneLess(new, ch)
  PROVE  /\ \A k : ~Holds(ch, k) => ~Holds(new, k)
         /\ \A k : Once(ch, k) => Once(new, k)
         /\ \A marks, top : Rising(ch, marks, top) => Rising(new, marks, top)
<1>1. Len(ch) \in Nat
  OBVIOUS
<1>2. PICK i \in 1 .. Len(ch) :
        /\ Len(new) = Len(ch) - 1
        /\ \A j \in 1 .. Len(ch) - 1 : new[j] = IF j < i THEN ch[j] ELSE ch[j + 1]
  BY DEF OneLess
<1> DEFINE at(j) == IF j < i THEN j ELSE j + 1
<1>3. \A j \in 1 .. Len(new) : at(j) \in 1 .. Len(ch) /\ new[j] = ch[at(j)]
  BY <1>1, <1>2
<1>4. \A j, k \in 1 .. Len(new) : /\ j <= k => at(j) <= at(k)
                                  /\ at(j) = at(k) => j = k
  <2>1. i \in Int /\ Len(new) \in Int
    BY <1>1, <1>2
  <2>2. \A j, k \in Int : /\ j <= k => at(j) <= at(k)
                          /\ at(j) = at(k) => j = k
    BY <2>1
  <2> QED BY <2>1, <2>2
<1> HIDE DEF at
<1>5. \A k : ~Holds(ch, k) => ~Holds(new, k)
  BY <1>3 DEF Holds
<1>6. \A k : Once(ch, k) => Once(new, k)
  BY <1>3, <1>4 DEF Once
<1>7. \A marks, top : Rising(ch, marks, top) => Rising(new, marks, top)
  BY <1>3, <1>4 DEF Rising
<1> QED BY <1>5, <1>6, <1>7

(* Reading a datagram that is there once leaves none.                      *)
LEMMA HeadOnce ==
  ASSUME NEW ch \in Seq(Nat), ch # <<>>
  PROVE  /\ Holds(ch, Head(ch))
         /\ Once(ch, Head(ch)) => ~Holds(Tail(ch), Head(ch))
<1>1. /\ Len(ch) \in Nat /\ Len(ch) > 0
      /\ Head(ch) = ch[1]
      /\ Len(Tail(ch)) = Len(ch) - 1
      /\ \A i \in 1 .. Len(ch) - 1 : Tail(ch)[i] = ch[i + 1]
  BY HeadTailProperties, EmptySeq
<1>2. Holds(ch, Head(ch))
  BY <1>1 DEF Holds
<1>3. ASSUME Once(ch, Head(ch)), NEW j \in 1 .. Len(Tail(ch)), Tail(ch)[j] = Head(ch)
      PROVE  FALSE
  <2>1. j + 1 \in 1 .. Len(ch) /\ 1 \in 1 .. Len(ch) /\ ch[j + 1] = Head(ch)
    BY <1>1, <1>3
  <2>2. j + 1 = 1
    BY <1>1, <1>3, <2>1 DEF Once
  <2> QED BY <1>1, <2>2
<1> QED BY <1>2, <1>3 DEF Holds

(* The server marks what it reads, and what is left comes after it.        *)
LEMMA RisingTail ==
  ASSUME NEW ch \in Seq(Nat), ch # <<>>, NEW marks, NEW top, Rising(ch, marks, top)
  PROVE  Rising(Tail(ch), marks \union {Head(ch)}, top)
<1>1. /\ Len(ch) \in Nat /\ Len(ch) > 0
      /\ Head(ch) = ch[1]
      /\ Len(Tail(ch)) = Len(ch) - 1
      /\ \A i \in 1 .. Len(ch) - 1 : Tail(ch)[i] = ch[i + 1]
  BY HeadTailProperties, EmptySeq
<1>2. \A j \in 1 .. Len(Tail(ch)) :
        /\ j + 1 \in 1 .. Len(ch) /\ Tail(ch)[j] = ch[j + 1]
        /\ 1 \in 1 .. Len(ch) /\ 1 <= j + 1
  BY <1>1
<1>3. \A i, j \in 1 .. Len(Tail(ch)) : i <= j => i + 1 <= j + 1
  OBVIOUS
<1>4. 1 \in 1 .. Len(ch)
  BY <1>1
<1> QED BY <1>1, <1>2, <1>3, <1>4 DEF Rising

(* What sending m adds to a channel. *)
LEMMA Sent ==
  ASSUME NEW ch \in Seq(Nat), NEW m \in Nat
  PROVE  /\ \A k : ~Holds(ch, k) /\ m # k => ~Holds(Append(ch, m), k)
         /\ \A k : ~Holds(ch, k) => Once(Append(ch, m), k)
         /\ \A k : Once(ch, k) /\ m # k => Once(Append(ch, m), k)
         /\ \A marks : \A top \in Nat :
              marks \subseteq Nat /\ Rising(ch, marks, top) /\ top <= m
                => Rising(Append(ch, m), marks, m)
<1> DEFINE new == Append(ch, m)
<1>1. /\ Len(ch) \in Nat
      /\ Len(new) = Len(ch) + 1
      /\ \A i \in 1 .. Len(ch) : new[i] = ch[i] /\ ch[i] \in Nat
      /\ new[Len(ch) + 1] = m
  BY AppendProperties, ElementOfSeq
<1> HIDE DEF new
<1>2. \A i \in 1 .. Len(new) : i \in 1 .. Len(ch) \/ i = Len(ch) + 1
  BY <1>1
<1>3. \A k : ~Holds(ch, k) /\ m # k => ~Holds(new, k)
  BY <1>1, <1>2 DEF Holds
<1>4. \A k : ~Holds(ch, k) => Once(new, k)
  BY <1>1, <1>2 DEF Holds, Once
<1>5. \A k : Once(ch, k) /\ m # k => Once(new, k)
  BY <1>1, <1>2 DEF Once
<1>6. ASSUME NEW marks \in SUBSET Nat, NEW top \in Nat, Rising(ch, marks, top), top <= m
      PROVE  Rising(new, marks, m)
  <2>1. \A a \in marks : a \in Nat /\ a <= top /\ a <= m
    BY <1>6 DEF Rising
  <2>2. \A i \in 1 .. Len(ch) : ch[i] <= m
    BY <1>1, <1>6 DEF Rising
  <2>3. \A i \in 1 .. Len(new) : new[i] <= m /\ \A a \in marks : a <= new[i]
    BY <1>1, <1>2, <1>6, <2>1, <2>2 DEF Rising
  <2>4. ASSUME NEW i \in 1 .. Len(new), NEW j \in 1 .. Len(new), i <= j
        PROVE  new[i] <= new[j]
    <3>1. CASE j \in 1 .. Len(ch)
      <4>1. i \in 1 .. Len(ch)
        BY <1>1, <2>4, <3>1
      <4> QED BY <1>1, <1>6, <2>4, <3>1, <4>1 DEF Rising
    <3>2. CASE j = Len(ch) + 1
      BY <1>1, <2>3, <3>2
    <3> QED BY <1>2, <3>1, <3>2
  <2> QED BY <2>1, <2>3, <2>4 DEF Rising
<1> QED BY <1>3, <1>4, <1>5, <1>6 DEF new

-----------------------------------------------------------------------------
(* While the server is receiving, both ends are in the same round or the   *)
(* server is one ahead.                                                    *)

Level == spc = "recv" /\ ServerRound = ClientRound
Ahead == spc = "recv" /\ ServerRound = ClientRound + 1

(* The last acknowledgment of a round is sent once, when the server leaves *)
(* it, and read at most once.                                              *)
LastAcks ==
  /\ spc = "recv" => sAck < MAX - 1
  /\ Level => ~Holds(toClient, MAX - 1) /\ ackSeq < MAX
  /\ Ahead => /\ Once(toClient, MAX - 1)
              /\ ackSeq = MAX => ~Holds(toClient, MAX - 1)

(* A server that is ahead waits for message 0, and the client sends no     *)
(* more of that before it is in the next round too.                        *)
Waiting ==
  Ahead =>
    /\ sSequence = 0 /\ ~Holds(toServer, 0)
    /\ Offered > 0 /\ (message # 0 \/ cWin > 1)

(* After the first round the window is not full after one message, so that *)
(* message 0 is sent once; what the server has marked before it comes is   *)
(* left from the round before.                                             *)
LaterRounds ==
  Level /\ cWin > FirstWin =>
    /\ Once(toServer, 0)
    /\ Holds(toServer, 0) => sSequence = 0 /\ Offered > 0
    /\ Offered = 0 => sSequence = 0

(* In the first round nothing is left of an earlier one. *)
FirstRound ==
  Level /\ cWin = FirstWin =>
    /\ Rising(toServer, array, message)
    /\ Offered = 0 => toServer = <<>> /\ array = {} /\ message = 0

Rounds == RoundsInStep /\ LastAcks /\ Waiting /\ LaterRounds /\ FirstRound

(* Nothing was sent yet: the round invariant holds initially.            *)
LEMMA RoundsInit == RoundsAssumed /\ Init => Rounds
<1> SUFFICES ASSUME RoundsAssumed, Init PROVE Rounds
  OBVIOUS
<1> USE ConstantsType
<1>1. ServerRound = FirstWin /\ ClientRound = FirstWin /\ Offered = 0
  BY DEF Init, ServerRound, ClientRound, Offered
<1>2. toServer = <<>> /\ toClient = <<>> /\ Len(<<>>) = 0
  BY EmptySeq DEF Init, NetInit
<1>3. RoundsInStep /\ LastAcks
  BY <1>1, <1>2
  DEF Init, RoundsAssumed, RoundsInStep, LastAcks, Level, Ahead, Holds
<1>4. Waiting /\ LaterRounds
  BY <1>1 DEF Init, Waiting, LaterRounds, Level, Ahead
<1>5. FirstRound
  BY <1>1, <1>2 DEF Init, FirstRound, Rising
<1> QED BY <1>3, <1>4, <1>5 DEF Rounds

(* The rounds are numbers; while the server is receiving, the client has   *)
(* not ended.                                                              *)
LEMMA RoundTypes ==
  ASSUME Shape, Rounds
  PROVE  /\ ServerRound \in Nat /\ ClientRound \in Nat /\ cWin \in Nat
         /\ spc = "recv" => /\ Level \/ Ahead
                            /\ cpc # "done" /\ ClientRound = cWin
                            /\ ServerRound = sWin
         /\ spc # "recv" => ServerRound = LastWin + 1
         /\ ~(Level /\ Ahead)
  BY ConstantsType
  DEF Shape, TypeOK, Rounds, RoundsInStep, ServerRound, ClientRound, Level, Ahead

(* Steps that leave alone what the rounds are about. *)
LEMMA RoundsStill ==
  ASSUME Rounds, UNCHANGED <<ServerRound, ClientRound, spc, sAck, sSequence,
                             array, cWin, ackSeq, message, Offered, toServer, toClient>>
  PROVE  Rounds'
  BY DEF Rounds, RoundsInStep, LastAcks, Waiting, LaterRounds, FirstRound, Level, Ahead

(* A client that reads an acknowledgment has the last one of the round     *)
(* only if it has read that.                                               *)
LEMMA AckKeeps ==
  ASSUME Shape, Rounds, UNCHANGED <<ServerRound, ClientRound, spc, sAck>>,
         NEW ack, RecvFrom(toClient, ack), toClient' = Tail(toClient),
         ackSeq' \in 0 .. MAX, ackSeq' = MAX => ackSeq = MAX \/ ack = MAX - 1
  PROVE  LastAcks'
<1> USE ConstantsType
<1>1. toClient \in Seq(Nat) /\ toClient # <<>> /\ ack = Head(toClient)
  <2>1. Messages \subseteq Nat
    BY DEF Messages
  <2> QED BY <2>1, Widen DEF Shape, TypeOK, RecvFrom, PollRecvFrom
<1>2. OneLess(toClient', toClient)
  BY <1>1, TailLess
<1>3. /\ ~Holds(toClient, MAX - 1) => ~Holds(toClient', MAX - 1)
      /\ Once(toClient, MAX - 1) => Once(toClient', MAX - 1)
  BY <1>1, <1>2, LessKeeps
<1>4. /\ ack = MAX - 1 => Holds(toClient, MAX - 1)
      /\ ack = MAX - 1 /\ Once(toClient, MAX - 1) => ~Holds(toClient', MAX - 1)
  BY <1>1, HeadOnce
<1>5. UNCHANGED <<Level, Ahead>>
  BY DEF Level, Ahead
<1>6. LastAcks
  BY DEF Rounds
<1>7. Level' => ~Holds(toClient', MAX - 1) /\ ackSeq' < MAX
  BY <1>3, <1>4, <1>5, <1>6 DEF LastAcks
<1>8. Ahead' => /\ Once(toClient', MAX - 1)
                /\ ackSeq' = MAX => ~Holds(toClient', MAX - 1)
  BY <1>3, <1>4, <1>5, <1>6 DEF LastAcks
<1> QED BY <1>6, <1>7, <1>8 DEF LastAcks

(* The client sends a message of its round that was not sent before.     *)
LEMMA ClientSendRounds ==
  ASSUME Shape, Rounds, RoundsAssumed, ClientSend
  PROVE  Rounds'
<1> USE ConstantsType
<1>1. /\ cpc = "loop" /\ cpc' = "sent" /\ sequence \in 0 .. MAX - 1
      /\ message' = sequence
      /\ toServer' = SendTo(toServer, sequence, spc # "done")
      /\ UNCHANGED <<cWin, sequence, ackSeq, spc, sWin, sSequence, sAck, array,
                     toClient>>
  BY DEF ClientSend, WindowOpen, serverVars, Shape, TypeOK
<1>2. UNCHANGED <<ServerRound, ClientRound, Level, Ahead>>
  BY <1>1 DEF ServerRound, ClientRound, Level, Ahead
<1>3. Offered = sequence /\ Offered' = sequence + 1
  BY <1>1 DEF Offered
<1>4. toServer \in Seq(Nat) /\ array \in SUBSET Nat /\ message \in Nat
  <2>1. Messages \subseteq Nat
    BY DEF Messages
  <2> QED BY <2>1, Widen DEF Shape, TypeOK
<1>5. ASSUME spc = "recv"
      PROVE  /\ ~Holds(toServer, 0) /\ sequence # 0 => ~Holds(toServer', 0)
             /\ ~Holds(toServer, 0) => Once(toServer', 0)
             /\ Once(toServer, 0) /\ sequence # 0 => Once(toServer', 0)
             /\ Rising(toServer, array, message) /\ message <= sequence =>
                  Rising(toServer', array, sequence)
  <2>1. toServer' = Append(toServer, sequence)
    BY <1>1, <1>5 DEF SendTo
  <2>2. sequence \in Nat
    BY <1>1
  <2> QED BY <1>4, <2>1, <2>2, Sent
<1>6. RoundsInStep' /\ LastAcks'
  BY <1>1, <1>2 DEF Rounds, RoundsInStep, LastAcks
<1>7. Waiting'
  <2> SUFFICES ASSUME Ahead PROVE Waiting'
    BY <1>2 DEF Waiting
  <2>1. sequence > 0 /\ spc = "recv" /\ sSequence = 0 /\ ~Holds(toServer, 0)
    BY <1>3 DEF Rounds, Waiting, Ahead
  <2>2. ~Holds(toServer', 0)
    BY <1>5, <2>1
  <2> QED BY <1>1, <1>3, <2>1, <2>2 DEF Waiting
<1>8. LaterRounds'
  <2> SUFFICES ASSUME Level, cWin > FirstWin PROVE LaterRounds'
    BY <1>1, <1>2 DEF LaterRounds
  <2>1. /\ spc = "recv" /\ Once(toServer, 0)
        /\ Holds(toServer, 0) => sSequence = 0 /\ Offered > 0
        /\ Offered = 0 => sSequence = 0
    BY DEF Rounds, LaterRounds, Level
  <2>2. CASE sequence = 0
    <3>1. Once(toServer', 0)
      BY <1>3, <1>5, <2>1, <2>2
    <3> QED BY <1>1, <1>3, <2>1, <2>2, <3>1 DEF LaterRounds
  <2>3. CASE sequence # 0
    <3>1. Once(toServer', 0) /\ (~Holds(toServer, 0) => ~Holds(toServer', 0))
      BY <1>5, <2>1, <2>3
    <3> QED BY <1>1, <1>3, <2>1, <3>1 DEF LaterRounds
  <2> QED BY <2>2, <2>3
<1>9. FirstRound'
  <2> SUFFICES ASSUME Level, cWin = FirstWin PROVE FirstRound'
    BY <1>1, <1>2 DEF FirstRound
  <2>1. /\ spc = "recv" /\ Rising(toServer, array, message)
        /\ Offered = 0 => message = 0
    BY DEF Rounds, FirstRound, Level
  <2>2. message <= sequence
    BY <1>1, <1>3, <2>1 DEF Shape, Places
  <2>3. Rising(toServer', array, sequence)
    BY <1>5, <2>1, <2>2
  <2> QED BY <1>1, <1>3, <2>3 DEF FirstRound
<1> QED BY <1>6, <1>7, <1>8, <1>9 DEF Rounds

(* An acknowledgment read after a send keeps the rounds in step.         *)
LEMMA ClientAfterSendRounds ==
  ASSUME Shape, Rounds, ClientAfterSend
  PROVE  Rounds'
<1> USE ConstantsType
<1>1. /\ cpc = "sent" /\ cpc' = "loop" /\ sequence' = sequence + 1
      /\ UNCHANGED <<cWin, message, spc, sWin, sSequence, sAck, array, toServer>>
  BY DEF ClientAfterSend, serverVars
<1>2. UNCHANGED <<ServerRound, ClientRound, Level, Ahead, Offered>>
  BY <1>1 DEF ServerRound, ClientRound, Level, Ahead, Offered
<1>3. LastAcks'
  <2>1. CASE PollRecvFrom(toClient)
    <3>1. PICK ack \in Messages : RecvFrom(toClient, ack) /\ ackSeq' = Acked(ack)
      BY <2>1 DEF ClientAfterSend
    <3>2. /\ ackSeq' \in 0 .. MAX
          /\ ackSeq' = MAX => ackSeq = MAX \/ ack = MAX - 1
      BY <3>1 DEF Acked, Messages, Shape, TypeOK
    <3>3. toClient' = Tail(toClient)
      BY <2>1 DEF ClientAfterSend
    <3> QED BY <1>1, <1>2, <3>1, <3>2, <3>3, AckKeeps
  <2>2. CASE ~PollRecvFrom(toClient)
    BY <1>1, <1>2, <2>2 DEF ClientAfterSend, Rounds, LastAcks
  <2> QED BY <2>1, <2>2
<1>4. RoundsInStep' /\ Waiting' /\ LaterRounds' /\ FirstRound'
  BY <1>1, <1>2 DEF Rounds, RoundsInStep, Waiting, LaterRounds, FirstRound
<1> QED BY <1>3, <1>4 DEF Rounds

(* A full window resends message 0 only if it is a window of one message.  *)
LEMMA ResendKeeps ==
  ASSUME Shape, Rounds, RoundsAssumed, cpc \in {"loop", "inner"}, ~WindowOpen,
         toServer' = SendTo(toServer, message, spc # "done"),
         cpc' \in {"loop", "inner"},
         UNCHANGED <<cWin, sequence, message, spc, sWin, sSequence, sAck, array>>
  PROVE  Waiting' /\ LaterRounds' /\ FirstRound'
<1> USE ConstantsType
<1>1. /\ sequence \in 0 .. MAX /\ ackSeq \in 0 .. MAX
      /\ cWin \in Nat /\ cWin >= FirstWin
      /\ message \in Nat /\ array \in SUBSET Nat
  BY DEF Shape, TypeOK, Messages
<1>2. sequence > 0 /\ message = sequence - 1 /\ Offered = sequence /\ Offered' = Offered
  BY <1>1 DEF WindowOpen, Shape, Places, Offered
<1>3. cWin > 1 => message # 0
  BY <1>1, <1>2 DEF WindowOpen, RoundsAssumed
<1>4. UNCHANGED <<ServerRound, ClientRound, Level, Ahead>>
  BY DEF ServerRound, ClientRound, Level, Ahead
<1>5. toServer \in Seq(Nat)
  <2>1. Messages \subseteq Nat
    BY DEF Messages
  <2> QED BY <2>1, Widen DEF Shape, TypeOK
<1>6. ASSUME spc = "recv"
      PROVE  /\ ~Holds(toServer, 0) /\ message # 0 => ~Holds(toServer', 0)
             /\ ~Holds(toServer, 0) => Once(toServer', 0)
             /\ Once(toServer, 0) /\ message # 0 => Once(toServer', 0)
             /\ Rising(toServer, array, message) /\ message <= message =>
                  Rising(toServer', array, message)
  <2>1. toServer' = Append(toServer, message)
    BY <1>6 DEF SendTo
  <2>2. message \in Nat /\ message <= message /\ array \subseteq Nat
    BY <1>1
  <2>3. LET ch == Append(toServer, message)
        IN /\ ~Holds(toServer, 0) /\ message # 0 => ~Holds(ch, 0)
           /\ ~Holds(toServer, 0) => Once(ch, 0)
           /\ Once(toServer, 0) /\ message # 0 => Once(ch, 0)
    BY <1>5, <2>2, Sent
  <2>4. Rising(toServer, array, message) =>
          Rising(Append(toServer, message), array, message)
    BY <1>5, <2>2, Sent
  <2> QED BY <2>1, <2>3, <2>4
<1>7. Waiting'
  <2> SUFFICES ASSUME Ahead PROVE Waiting'
    BY <1>4 DEF Waiting
  <2>1. spc = "recv" /\ sSequence = 0 /\ ~Holds(toServer, 0) /\ message # 0
    BY <1>3 DEF Rounds, Waiting, Ahead
  <2>2. ~Holds(toServer', 0)
    BY <1>1, <1>6, <2>1
  <2> QED BY <1>2, <2>1, <2>2 DEF Waiting
<1>8. LaterRounds'
  <2> SUFFICES ASSUME Level, cWin > FirstWin PROVE LaterRounds'
    BY <1>4 DEF LaterRounds
  <2>1. /\ spc = "recv" /\ Once(toServer, 0)
        /\ Holds(toServer, 0) => sSequence = 0
    BY DEF Rounds, LaterRounds, Level
  <2>2. message # 0
    BY <1>1, <1>3
  <2>3. Once(toServer', 0) /\ (~Holds(toServer, 0) => ~Holds(toServer', 0))
    BY <1>6, <2>1, <2>2
  <2> QED BY <1>2, <2>1, <2>3 DEF LaterRounds
<1>9. FirstRound'
  <2> SUFFICES ASSUME Level, cWin = FirstWin PROVE FirstRound'
    BY <1>4 DEF FirstRound
  <2>1. spc = "recv" /\ Rising(toServer, array, message)
    BY DEF Rounds, FirstRound, Level
  <2>2. Rising(toServer', array, message) /\ message <= message
    BY <1>1, <1>6, <2>1
  <2> QED BY <1>2, <2>2 DEF FirstRound
<1> QED BY <1>7, <1>8, <1>9

(* A full window may resend; the rounds stay in step.                    *)
LEMMA ClientFullRounds ==
  ASSUME Shape, Rounds, RoundsAssumed, ClientFull
  PROVE  Rounds'
<1> USE ConstantsType
<1>1. /\ cpc = "loop" /\ cpc' = "inner" /\ ~WindowOpen
      /\ UNCHANGED <<cWin, sequence, ackSeq, message, spc, sWin, sSequence, sAck,
                     array, toClient>>
      /\ toServer' = SendTo(toServer, message, spc # "done") \/ toServer' = toServer
  BY DEF ClientFull, StartSequence, serverVars
<1>2. UNCHANGED <<ServerRound, ClientRound, Level, Ahead, Offered>>
  BY <1>1 DEF ServerRound, ClientRound, Level, Ahead, Offered
<1>3. CASE toServer' = toServer
  BY <1>1, <1>2, <1>3, RoundsStill
<1>4. CASE toServer' = SendTo(toServer, message, spc # "done")
  <2>1. RoundsInStep' /\ LastAcks'
    BY <1>1, <1>2 DEF Rounds, RoundsInStep, LastAcks
  <2> QED BY <1>1, <1>4, <2>1, ResendKeeps DEF Rounds
<1> QED BY <1>1, <1>3, <1>4

(* Waiting in the inner loop keeps the rounds in step.                   *)
LEMMA ClientInnerRecvRounds ==
  ASSUME Shape, Rounds, RoundsAssumed, ClientInnerRecv
  PROVE  Rounds'
<1> USE ConstantsType
<1>1. PICK ack \in Messages :
        /\ RecvFrom(toClient, ack)
        /\ \/ /\ ackSeq' = ack + 1 /\ cpc' = "loop"
              /\ toServer' = toServer
           \/ /\ ackSeq' = ackSeq /\ cpc' = cpc
              /\ toServer' = SendTo(toServer, message, spc # "done")
  BY DEF ClientInnerRecv, StartSequence
<1>2. /\ cpc = "inner" /\ cpc' \in {"loop", "inner"} /\ ~WindowOpen
      /\ toClient' = Tail(toClient)
      /\ UNCHANGED <<cWin, sequence, message, spc, sWin, sSequence, sAck, array>>
  BY <1>1 DEF ClientInnerRecv, serverVars, Shape, Places
<1>3. UNCHANGED <<ServerRound, ClientRound, Level, Ahead, Offered>>
  BY <1>2 DEF ServerRound, ClientRound, Level, Ahead, Offered
<1>4. LastAcks'
  <2>1. /\ ackSeq' \in 0 .. MAX
        /\ ackSeq' = MAX => ackSeq = MAX \/ ack = MAX - 1
    BY <1>1 DEF Messages, Shape, TypeOK
  <2> QED BY <1>1, <1>2, <1>3, <2>1, AckKeeps
<1>5. RoundsInStep'
  BY <1>3 DEF Rounds, RoundsInStep
<1>6. Waiting' /\ LaterRounds' /\ FirstRound'
  <2>1. CASE toServer' = toServer
    BY <1>2, <1>3, <2>1 DEF Rounds, Waiting, LaterRounds, FirstRound
  <2>2. CASE toServer' = SendTo(toServer, message, spc # "done")
    BY <1>2, <2>2, ResendKeeps
  <2> QED BY <1>1, <2>1, <2>2
<1> QED BY <1>4, <1>5, <1>6 DEF Rounds

(* The client is at the end of a round only when the server is ahead of it *)
(* or has ended.                                                           *)
LEMMA LeavesBehind ==
  ASSUME Shape, Rounds, cpc = "loop", ackSeq >= MAX
  PROVE  /\ spc = "recv" => Ahead /\ ~Holds(toClient, MAX - 1)
         /\ ServerRound = ClientRound + 1
<1> USE ConstantsType
<1>1. ackSeq = MAX
  BY DEF Shape, TypeOK
<1>2. spc = "recv" => Ahead
  BY <1>1, RoundTypes DEF Rounds, LastAcks
<1>3. spc # "recv" => ServerRound = ClientRound + 1
  BY RoundTypes DEF Rounds, RoundsInStep, ClientRound, Shape, TypeOK
<1> QED BY <1>1, <1>2, <1>3 DEF Rounds, LastAcks, Ahead

(* The client begins a round only after the server ended the last one.   *)
LEMMA ClientNextRoundRounds ==
  ASSUME Shape, Rounds, RoundsAssumed, ClientNextRound
  PROVE  Rounds'
<1> USE ConstantsType
<1>1. /\ cpc = "loop" /\ cpc' = "loop" /\ ackSeq >= MAX
      /\ cWin' = cWin + 1 /\ sequence' = 0 /\ ackSeq' = 0
      /\ UNCHANGED <<message, spc, sWin, sSequence, sAck, array, toServer, toClient>>
  BY DEF ClientNextRound, serverVars, netVars
<1>2. /\ spc = "recv" => Ahead /\ ~Holds(toClient, MAX - 1)
      /\ ServerRound = ClientRound + 1
  BY <1>1, LeavesBehind
<1>3. cWin \in Nat /\ cWin >= FirstWin /\ ClientRound = cWin
  BY <1>1 DEF Shape, TypeOK, ClientRound
<1>4. /\ ServerRound' = ServerRound /\ ClientRound' = ClientRound + 1
      /\ Offered' = 0
  BY <1>1 DEF ServerRound, ClientRound, Offered
<1>5. ServerRound' = ClientRound' /\ ~Ahead'
  BY <1>2, <1>3, <1>4 DEF Ahead
<1>6. RoundsInStep'
  BY <1>2, <1>3, <1>4 DEF RoundsInStep
<1>7. LastAcks'
  BY <1>1, <1>2, <1>5 DEF Rounds, LastAcks, Level
<1>8. Waiting'
  BY <1>5 DEF Waiting
<1>9. LaterRounds'
  <2>1. spc = "recv" => sSequence = 0 /\ ~Holds(toServer, 0)
    BY <1>2 DEF Rounds, Waiting
  <2> QED BY <1>1, <2>1 DEF LaterRounds, Level, Holds, Once
<1>10. FirstRound'
  BY <1>1, <1>3 DEF FirstRound
<1> QED BY <1>6, <1>7, <1>8, <1>9, <1>10 DEF Rounds

(* The client returns only after the server ended the last round.        *)
LEMMA ClientReturnRounds ==
  ASSUME Shape, Rounds, ClientReturn
  PROVE  Rounds'
<1> USE ConstantsType
<1>1. /\ cpc = "loop" /\ cpc' = "done" /\ ackSeq >= MAX /\ cWin = LastWin
      /\ UNCHANGED <<spc, sWin>>
  BY DEF ClientReturn, serverVars
<1>2. ServerRound = ClientRound + 1 /\ ClientRound = LastWin
  BY <1>1, LeavesBehind DEF ClientRound
<1>3. spc # "recv"
  BY <1>2 DEF ServerRound, Shape, TypeOK
<1>4. ServerRound' = LastWin + 1 /\ ClientRound' = LastWin + 1 /\ spc' # "recv"
  BY <1>1, <1>3 DEF ServerRound, ClientRound
<1> QED
  BY <1>4
  DEF Rounds, RoundsInStep, LastAcks, Waiting, LaterRounds, FirstRound, Level, Ahead

-----------------------------------------------------------------------------
(* The server. *)

(* A server that is ahead finds no message it waits for. *)
LEMMA AheadMisses ==
  ASSUME Shape, Rounds, Ahead, NEW m, RecvFrom(toServer, m)
  PROVE  m # sSequence
<1>1. toServer \in Seq(Nat) /\ toServer # <<>> /\ m = Head(toServer)
  <2>1. Messages \subseteq Nat
    BY ConstantsType DEF Messages
  <2> QED BY <2>1, Widen DEF Shape, TypeOK, RecvFrom, PollRecvFrom
<1>2. Holds(toServer, m)
  BY <1>1, HeadOnce
<1> QED BY <1>2 DEF Rounds, Waiting

(* What reading a message leaves of the channel. *)
LEMMA MessageRead ==
  ASSUME Shape, NEW m, RecvFrom(toServer, m), toServer' = Tail(toServer)
  PROVE  /\ toServer # <<>> /\ Holds(toServer, m)
         /\ ~Holds(toServer, 0) => ~Holds(toServer', 0)
         /\ Once(toServer, 0) => Once(toServer', 0)
         /\ m = 0 /\ Once(toServer, 0) => ~Holds(toServer', 0)
         /\ Rising(toServer, array, message) =>
              Rising(toServer', array \union {m}, message)
<1>1. toServer \in Seq(Nat) /\ toServer # <<>> /\ m = Head(toServer)
  <2>1. Messages \subseteq Nat
    BY ConstantsType DEF Messages
  <2> QED BY <2>1, Widen DEF Shape, TypeOK, RecvFrom, PollRecvFrom
<1>2. OneLess(toServer', toServer)
  BY <1>1, TailLess
<1>3. /\ ~Holds(toServer, 0) => ~Holds(toServer', 0)
      /\ Once(toServer, 0) => Once(toServer', 0)
  BY <1>1, <1>2, LessKeeps
<1>4. /\ Holds(toServer, m)
      /\ m = 0 /\ Once(toServer, 0) => ~Holds(toServer', 0)
  BY <1>1, HeadOnce
<1>5. Rising(toServer, array, message) => Rising(toServer', array \union {m}, message)
  BY <1>1, RisingTail
<1> QED BY <1>1, <1>3, <1>4, <1>5

(* The server ends a round: only one it shares with the client, which has  *)
(* sent its message 0 by then, and nothing of that is left.                *)
LEMMA EndsRound ==
  ASSUME Shape, Rounds, RoundsAssumed, NEW m \in Messages, NEW ack \in Messages,
         Takes(m, ack), m = sSequence, ack = MAX - 1
  PROVE  /\ Level /\ ~Holds(toServer', 0)
         /\ Offered > 0 /\ (message # 0 \/ cWin > 1)
<1> USE ConstantsType
<1>1. RecvFrom(toServer, m) /\ toServer' = Tail(toServer) /\ spc = "recv"
  BY DEF Takes
<1>2. Level
  BY <1>1, AheadMisses, RoundTypes
<1>3. /\ cWin \in Nat /\ cWin >= FirstWin /\ Offered \in Nat /\ message \in Nat
      /\ sSequence \in Nat
  BY DEF Shape, TypeOK, Offered, Messages
<1>4. /\ toServer # <<>> /\ Holds(toServer, m)
      /\ ~Holds(toServer, 0) => ~Holds(toServer', 0)
      /\ m = 0 /\ Once(toServer, 0) => ~Holds(toServer', 0)
      /\ Rising(toServer, array, message) =>
           Rising(toServer', array \union {m}, message)
  BY <1>1, MessageRead
<1>5. CASE cWin > FirstWin
  <2>1. /\ Once(toServer, 0)
        /\ Holds(toServer, 0) => sSequence = 0 /\ Offered > 0
        /\ Offered = 0 => sSequence = 0
    BY <1>2, <1>5 DEF Rounds, LaterRounds
  <2>2. ~Holds(toServer', 0) /\ Offered > 0
    BY <1>3, <1>4, <2>1
  <2> QED BY <1>2, <1>3, <1>5, <2>2
<1>6. CASE cWin = FirstWin
  <2>1. Rising(toServer', array \union {m}, message) /\ Offered # 0
    BY <1>2, <1>4, <1>6 DEF Rounds, FirstRound
  <2>2. ack \in array \union {m} /\ ack > 0
    BY DEF Takes, RoundsAssumed
  <2>3. message # 0 /\ ~Holds(toServer', 0)
    <3>1. ack <= message /\ \A i \in 1 .. Len(toServer') : ack <= toServer'[i]
      BY <2>1, <2>2 DEF Rising
    <3> QED BY <2>2, <3>1 DEF Holds
  <2> QED BY <1>2, <1>3, <2>1, <2>3
<1> QED BY <1>3, <1>5, <1>6

(* The server reads a message and may end its round.                     *)
LEMMA ServerRecvRounds ==
  ASSUME Shape, Rounds, RoundsAssumed, ServerRecv
  PROVE  Rounds'
<1> USE ConstantsType
<1>1. PICK m \in Messages, ack \in Messages : Takes(m, ack)
  BY ServerRecvTakes
<1>2. /\ RecvFrom(toServer, m) /\ toServer' = Tail(toServer) /\ spc = "recv"
      /\ toClient' = SendTo(toClient, ack, cpc # "done")
      /\ UNCHANGED <<cpc, cWin, sequence, ackSeq, message>>
  BY <1>1 DEF Takes, clientVars
<1>3. /\ ServerRound \in Nat /\ ClientRound \in Nat
      /\ Level \/ Ahead
      /\ cpc # "done" /\ ClientRound = cWin
      /\ ServerRound = sWin /\ ~(Level /\ Ahead)
      /\ ackSeq \in 0 .. MAX /\ sWin \in Nat
  BY <1>2, RoundTypes DEF Shape, TypeOK
<1>4. ClientRound' = ClientRound /\ Offered' = Offered
  BY <1>2 DEF ClientRound, Offered
<1>5. /\ toClient' = Append(toClient, ack) /\ toClient \in Seq(Nat)
      /\ ack \in 0 .. MAX - 1 /\ sAck < MAX - 1
  <2>1. Messages \subseteq Nat
    BY DEF Messages
  <2> QED
    BY <1>2, <1>3, <2>1, Widen DEF SendTo, Messages, Shape, TypeOK, Rounds, LastAcks
<1>6. /\ ~Holds(toClient, MAX - 1) => Once(toClient', MAX - 1)
      /\ ack # MAX - 1 /\ ~Holds(toClient, MAX - 1) => ~Holds(toClient', MAX - 1)
      /\ ack # MAX - 1 /\ Once(toClient, MAX - 1) => Once(toClient', MAX - 1)
  <2>1. ack \in Nat
    BY <1>5
  <2> QED BY <1>5, <2>1, Sent
<1>7. /\ toServer # <<>> /\ Holds(toServer, m)
      /\ ~Holds(toServer, 0) => ~Holds(toServer', 0)
      /\ Once(toServer, 0) => Once(toServer', 0)
      /\ m = 0 /\ Once(toServer, 0) => ~Holds(toServer', 0)
      /\ Rising(toServer, array, message) =>
           Rising(toServer', array \union {m}, message)
  BY <1>2, MessageRead
<1>8. CASE /\ m = sSequence /\ ack = MAX - 1
           /\ sWin' = sWin + 1 /\ sSequence' = 0 /\ sAck' = 0 /\ spc' = "recv"
  <2>1. /\ Level /\ ~Holds(toServer', 0)
        /\ Offered > 0 /\ (message # 0 \/ cWin > 1)
    BY <1>1, <1>8, EndsRound
  <2>2. ServerRound' = ClientRound' + 1 /\ ~Level'
    BY <1>3, <1>4, <1>8, <2>1 DEF ServerRound, Level
  <2>3. RoundsInStep'
    BY <1>3, <1>4, <2>2 DEF RoundsInStep
  <2>4. LastAcks'
    BY <1>2, <1>6, <1>8, <2>1, <2>2 DEF Rounds, LastAcks, RoundsAssumed
  <2>5. Waiting' /\ LaterRounds' /\ FirstRound'
    BY <1>2, <1>4, <1>8, <2>1, <2>2 DEF Waiting, LaterRounds, FirstRound
  <2> QED BY <2>3, <2>4, <2>5 DEF Rounds
<1>9. CASE m = sSequence /\ ack = MAX - 1 /\ sWin = LastWin /\ spc' = "final"
  <2>1. Level
    BY <1>1, <1>9, EndsRound
  <2>2. ServerRound' = ClientRound' + 1 /\ ~Level' /\ ~Ahead'
    BY <1>3, <1>4, <1>9, <2>1 DEF ServerRound, Level, Ahead
  <2>3. RoundsInStep'
    BY <1>3, <1>4, <2>2 DEF RoundsInStep
  <2> QED
    BY <1>9, <2>2, <2>3 DEF Rounds, LastAcks, Waiting, LaterRounds, FirstRound
<1>10. CASE /\ m = sSequence => ack # MAX - 1
            /\ sWin' = sWin /\ spc' = "recv"
            /\ sSequence' = IF m = sSequence THEN ack + 1 ELSE sSequence
            /\ sAck' = ack /\ array' = array \union {m}
  <2>1. UNCHANGED <<ServerRound, ClientRound, Level, Ahead>>
    BY <1>2, <1>3, <1>4, <1>10 DEF ServerRound, ClientRound, Level, Ahead
  <2>2. ack < MAX - 1 /\ ack # MAX - 1
    BY <1>1, <1>5, <1>10 DEF Takes
  <2>3. RoundsInStep'
    BY <2>1 DEF Rounds, RoundsInStep
  <2>4. LastAcks'
    BY <1>2, <1>6, <1>10, <2>1, <2>2 DEF Rounds, LastAcks
  <2>5. Waiting'
    <3>1. Ahead => m # sSequence
      BY <1>2, AheadMisses
    <3> QED BY <1>2, <1>4, <1>7, <1>10, <2>1, <3>1 DEF Rounds, Waiting
  <2>6. LaterRounds'
    <3> SUFFICES ASSUME Level, cWin > FirstWin PROVE LaterRounds'
      BY <1>2, <2>1 DEF LaterRounds
    <3>1. /\ Once(toServer, 0)
          /\ Holds(toServer, 0) => sSequence = 0 /\ Offered > 0
          /\ Offered = 0 => sSequence = 0
      BY DEF Rounds, LaterRounds
    <3>2. Holds(toServer', 0) => m # 0 /\ sSequence = 0 /\ Offered > 0
      BY <1>7, <3>1
    <3>3. Offered = 0 => sSequence = 0 /\ m # 0
      BY <1>7, <3>1
    <3> QED BY <1>4, <1>7, <1>10, <3>1, <3>2, <3>3 DEF LaterRounds
  <2>7. FirstRound'
    <3> SUFFICES ASSUME Level, cWin = FirstWin PROVE FirstRound'
      BY <1>2, <2>1 DEF FirstRound
    <3>1. Rising(toServer', array', message') /\ Offered' # 0
      BY <1>2, <1>4, <1>7, <1>10 DEF Rounds, FirstRound
    <3> QED BY <3>1 DEF FirstRound
  <2> QED BY <2>3, <2>4, <2>5, <2>6, <2>7 DEF Rounds
<1> QED BY <1>1, <1>8, <1>9, <1>10 DEF Takes

(* A loss takes one datagram away. *)
LEMMA NetworkFaultRounds ==
  ASSUME Shape, Rounds, RoundsAssumed, NetworkFault
  PROVE  Rounds'
<1>1. UNCHANGED <<cpc, cWin, sequence, ackSeq, message, spc, sWin, sSequence, sAck,
                  array>>
  BY DEF NetworkFault, clientVars, serverVars
<1>2. UNCHANGED <<ServerRound, ClientRound, Level, Ahead, Offered>>
  BY <1>1 DEF ServerRound, ClientRound, Level, Ahead, Offered
<1>3. toServer \in Seq(Nat) /\ toClient \in Seq(Nat)
  <2>1. Messages \subseteq Nat
    BY ConstantsType DEF Messages
  <2> QED BY <2>1, Widen DEF Shape, TypeOK
<1>4. ASSUME NEW ch \in Seq(Nat), NEW kinds \in SUBSET {"lose"},
             NEW new \in Faulted(ch, kinds)
      PROVE  OneLess(new, ch)
  <2>1. PICK i \in 1 .. Len(ch) : new = Lost(ch, i)
    <3>1. "duplicate" \notin kinds /\ "reorder" \notin kinds
      OBVIOUS
    <3> QED BY <1>4, <3>1 DEF Faulted
  <2> QED BY <2>1, LossLess
<1>5. CASE OneLess(toServer', toServer) /\ toClient' = toClient
  <2>1. /\ ~Holds(toServer, 0) => ~Holds(toServer', 0)
        /\ Once(toServer, 0) => Once(toServer', 0)
        /\ Rising(toServer, array, message) => Rising(toServer', array, message)
    BY <1>3, <1>5, LessKeeps
  <2>2. toServer # <<>>
    BY <1>5, EmptySeq DEF OneLess
  <2>3. RoundsInStep' /\ LastAcks'
    BY <1>1, <1>2, <1>5 DEF Rounds, RoundsInStep, LastAcks
  <2>4. Waiting'
    BY <1>1, <1>2, <2>1 DEF Rounds, Waiting
  <2>5. LaterRounds'
    BY <1>1, <1>2, <2>1 DEF Rounds, LaterRounds
  <2>6. FirstRound'
    BY <1>1, <1>2, <2>1, <2>2 DEF Rounds, FirstRound
  <2> QED BY <2>3, <2>4, <2>5, <2>6 DEF Rounds
<1>6. CASE OneLess(toClient', toClient) /\ toServer' = toServer
  <2>1. /\ ~Holds(toClient, MAX - 1) => ~Holds(toClient', MAX - 1)
        /\ Once(toClient, MAX - 1) => Once(toClient', MAX - 1)
    BY <1>3, <1>6, LessKeeps
  <2>2. LastAcks'
    BY <1>1, <1>2, <2>1 DEF Rounds, LastAcks
  <2>3. RoundsInStep' /\ Waiting' /\ LaterRounds' /\ FirstRound'
    BY <1>1, <1>2, <1>6 DEF Rounds, RoundsInStep, Waiting, LaterRounds, FirstRound
  <2> QED BY <2>2, <2>3 DEF Rounds
<1>7. \/ OneLess(toServer', toServer) /\ toClient' = toClient
      \/ OneLess(toClient', toClient) /\ toServer' = toServer
  BY <1>3, <1>4 DEF RoundsAssumed, NetworkFault, Fault
<1> QED BY <1>5, <1>6, <1>7

(* Every step keeps the round invariant.                                 *)
LEMMA RoundsStep ==
  ASSUME Shape, Rounds, RoundsAssumed, [Next]_vars
  PROVE  Rounds'
<1>1. CASE ClientSend \/ ClientAfterSend \/ ClientFull \/ ClientInnerRecv
           \/ ClientNextRound \/ ClientReturn
  BY <1>1, ClientSendRounds, ClientAfterSendRounds, ClientFullRounds,
     ClientInnerRecvRounds, ClientNextRoundRounds, ClientReturnRounds
<1>2. CASE ClientInnerEnd \/ Tick \/ UNCHANGED vars
  <2>1. UNCHANGED <<ServerRound, ClientRound, spc, sAck, sSequence, array, cWin, ackSeq,
                    message, Offered, toServer, toClient>>
    BY <1>2
    DEF ClientInnerEnd, Tick, vars, clientVars, serverVars, netVars,
        ServerRound, ClientRound, Offered
  <2> QED BY <2>1, RoundsStill
<1>3. CASE ServerRecv
  BY <1>3, ServerRecvRounds
<1>4. CASE FinalAck \/ ServerExit
  <2>1. /\ spc # "recv" /\ spc' # "recv"
        /\ UNCHANGED <<ServerRound, ClientRound>>
    BY <1>4 DEF FinalAck, ServerExit, clientVars, ServerRound, ClientRound
  <2> QED
    BY <2>1
    DEF Rounds, RoundsInStep, LastAcks, Waiting, LaterRounds, FirstRound, Level, Ahead
<1>5. CASE NetworkFault
  BY <1>5, NetworkFaultRounds
<1> QED
  BY <1>1, <1>2, <1>3, <1>4, <1>5 DEF Next, Client, Server, Finished

(* On a network that only loses datagrams, the client never leaves a round *)
(* before the server and the server is at most one round ahead, for any    *)
(* number of messages above one and any rounds (hw2.cpp:89-97, 113-115).   *)
THEOREM RoundsCorrect == RoundsAssumed /\ Spec => []RoundsInStep
<1> SUFFICES ASSUME RoundsAssumed PROVE Spec => []RoundsInStep
  OBVIOUS
<1>1. Shape /\ Rounds /\ [Next]_vars => Rounds'
  BY RoundsStep
<1>2. Init => Rounds
  BY RoundsInit
<1>3. Rounds => RoundsInStep
  BY DEF Rounds
<1> QED BY <1>1, <1>2, <1>3, ShapeInit, ShapeStep, PTL DEF Spec

==============================================================================
