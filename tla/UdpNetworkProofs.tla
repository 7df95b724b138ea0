-------------------------- MODULE UdpNetworkProofs --------------------------
(***************************************************************************)
(* What the operations and the faults of the network leave true of a       *)
(* channel: they never put a datagram into it that was not sent.           *)
(***************************************************************************)
EXTENDS UdpNetwork, SequenceTheorems, TLAPS

(* The datagrams of a channel over S are in S (pollRecvFrom, recvFrom).    *)
LEMMA ChannelContents ==
  ASSUME NEW S, NEW ch \in Seq(S)
  PROVE  /\ ToSet(ch) \subseteq S
         /\ \A T : ToSet(ch) \subseteq T => ch \in Seq(T)
  BY DEF ToSet

(* Reading takes a datagram of S and leaves a channel over S (recvFrom).   *)
LEMMA Receive ==
  ASSUME NEW S, NEW ch \in Seq(S), NEW m, RecvFrom(ch, m)
  PROVE  /\ m \in S
         /\ Tail(ch) \in Seq(S)
  BY HeadTailProperties DEF RecvFrom, PollRecvFrom

(* Sending a datagram of S leaves a channel over S, whether or not the     *)
(* other end is still there (sendTo, ackTo).                               *)
LEMMA Send ==
  ASSUME NEW S, NEW ch \in Seq(S), NEW m \in S, NEW open \in BOOLEAN
  PROVE  SendTo(ch, m, open) \in Seq(S)
  BY AppendProperties DEF SendTo

(* A channel over S is a channel over any larger set. *)
LEMMA Widen ==
  ASSUME NEW S, NEW T, S \subseteq T, NEW ch \in Seq(S)
  PROVE  ch \in Seq(T)
  BY SeqMonotonic

(* A channel of sequence numbers below n is one of numbers below any       *)
(* larger n.                                                               *)
LEMMA WidenBelow ==
  ASSUME NEW n \in Nat, NEW k \in Nat, n <= k, NEW ch \in Seq(0 .. n - 1)
  PROVE  ch \in Seq(0 .. k - 1)
<1>1. 0 .. n - 1 \subseteq 0 .. k - 1
  OBVIOUS
<1> QED BY <1>1, Widen

(* No fault invents a datagram: what is lost, doubled or overtaken was     *)
(* there before.                                                           *)
LEMMA FaultsInventNothing ==
  ASSUME NEW S, NEW ch \in Seq(S), NEW kinds, NEW new \in Faulted(ch, kinds)
  PROVE  new \in Seq(S)
<1>1. ASSUME NEW i \in 1 .. Len(ch), new = Lost(ch, i)
      PROVE  new \in Seq(S)
  <2>1. Len(ch) \in Nat /\ \A j \in 1 .. Len(ch) : ch[j] \in S
    BY ElementOfSeq
  <2>2. SubSeq(ch, 1, i - 1) \in Seq(S)
    <3>1. 1 \in Int /\ i - 1 \in Int /\ \A j \in 1 .. i - 1 : ch[j] \in S
      BY <2>1
    <3> QED BY <3>1, SubSeqProperties
  <2>3. SubSeq(ch, i + 1, Len(ch)) \in Seq(S)
    <3>1. i + 1 \in Int /\ Len(ch) \in Int /\ \A j \in i + 1 .. Len(ch) : ch[j] \in S
      BY <2>1
    <3> QED BY <3>1, SubSeqProperties
  <2> QED BY <1>1, <2>2, <2>3, ConcatProperties DEF Lost, RemoveAt
<1>2. ASSUME NEW i \in 1 .. Len(ch), new = Duplicated(ch, i)
      PROVE  new \in Seq(S)
  BY <1>2, ElementOfSeq, AppendProperties DEF Duplicated
<1>3. ASSUME NEW i \in 1 .. Len(ch) - 1, new = Overtaken(ch, i)
      PROVE  new \in Seq(S)
  BY <1>3, ElementOfSeq, ExceptSeq DEF Overtaken
<1> QED BY <1>1, <1>2, <1>3 DEF Faulted

(* A step of the network leaves both channels over what they were over.    *)
LEMMA FaultKeepsChannels ==
  ASSUME NEW S, NEW T, toServer \in Seq(S), toClient \in Seq(T), Fault
  PROVE  toServer' \in Seq(S) /\ toClient' \in Seq(T)
  BY FaultsInventNothing DEF Fault

(* The number of faults stays within its bound. *)
LEMMA FaultKeepsCount ==
  ASSUME faults \in 0 .. MaxFaults, Fault
  PROVE  faults' \in 0 .. MaxFaults
  BY NetworkAssumption DEF Fault

=============================================================================
