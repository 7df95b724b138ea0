-------------------------- MODULE UnreliableProofs --------------------------
(***************************************************************************)
(* Test 1, for any number of messages: types on any network, and every     *)
(* message received on one that at most reorders.                          *)
(***************************************************************************)
EXTENDS Unreliable, UdpNetworkProofs

-----------------------------------------------------------------------------
LEMMA ConstantsType ==
  /\ MAX \in Nat /\ MAX > 0
  /\ MaxFaults \in Nat
  BY UnreliableAssumption, NetworkAssumption

(* Where the programs stand. *)
ControlPoints ==
  /\ cpc = "send" <=> cI < MAX
  /\ spc = "recv" <=> sI < MAX

TInv == TypeOK /\ ControlPoints

LEMMA ClientSendTypes == TInv /\ ClientSend => TInv'
<1> SUFFICES ASSUME TInv, ClientSend PROVE TInv'
  OBVIOUS
<1> USE ConstantsType
<1>1. cI \in Messages /\ cI \in Nat
  BY DEF ClientSend, TInv, TypeOK, ControlPoints, Messages
<1>2. toServer' \in Seq(Messages)
  <2>1. (spc # "done") \in BOOLEAN
    OBVIOUS
  <2> QED BY <1>1, <2>1, Send DEF ClientSend, TInv, TypeOK
<1>3. cI' \in 0 .. MAX
  BY <1>1 DEF ClientSend, Messages
<1> QED BY <1>1, <1>2, <1>3 DEF ClientSend, serverVars, TInv, TypeOK, ControlPoints

LEMMA ServerRecvTypes == TInv /\ ServerRecv => TInv'
<1> SUFFICES ASSUME TInv, ServerRecv PROVE TInv'
  OBVIOUS
<1> USE ConstantsType
<1>1. PICK m \in Messages : RecvFrom(toServer, m) /\ got' = got \union {m}
  BY DEF ServerRecv
<1>2. toServer' \in Seq(Messages)
  <2>1. Tail(toServer) \in Seq(Messages)
    BY <1>1, Receive DEF TInv, TypeOK
  <2>2. <<>> \in Seq(Messages)
    OBVIOUS
  <2> QED BY <2>1, <2>2 DEF ServerRecv
<1>3. sI' \in 0 .. MAX /\ (spc' = "recv" <=> sI' < MAX)
  BY DEF ServerRecv, TInv, TypeOK, ControlPoints
<1>4. got' \in SUBSET Messages
  BY <1>1 DEF TInv, TypeOK
<1> QED BY <1>2, <1>3, <1>4 DEF ServerRecv, clientVars, TInv, TypeOK, ControlPoints

(* Nobody sends to the client, so no fault finds anything there. *)
LEMMA NothingForClient ==
  ASSUME Fault, toClient = <<>>
  PROVE  toClient' = <<>>
<1>1. Len(toClient) = 0
  OBVIOUS
<1>2. Faulted(toClient, AckFaults) = {}
  BY <1>1 DEF Faulted
<1> QED BY <1>2 DEF Fault

LEMMA NetworkFaultTypes == TInv /\ NetworkFault => TInv'
<1> SUFFICES ASSUME TInv, NetworkFault PROVE TInv'
  OBVIOUS
<1>1. toServer' \in Seq(Messages)
  BY FaultKeepsChannels DEF NetworkFault, TInv, TypeOK
<1>2. toClient' = <<>>
  BY NothingForClient DEF NetworkFault, TInv, TypeOK
<1>3. faults' \in 0 .. MaxFaults
  BY FaultKeepsCount DEF NetworkFault, TInv, TypeOK
<1> QED BY <1>1, <1>2, <1>3
        DEF NetworkFault, clientVars, serverVars, TInv, TypeOK, ControlPoints

LEMMA TypesInvariant == Spec => []TInv
<1>1. Init => TInv
  BY ConstantsType DEF Init, NetInit, TInv, TypeOK, ControlPoints
<1>2. TInv /\ [Next]_vars => TInv'
  <2>1. TInv /\ (Finished \/ UNCHANGED vars) => TInv'
    BY DEF Finished, vars, clientVars, serverVars, netVars, TInv, TypeOK, ControlPoints
  <2> QED BY <2>1, ClientSendTypes, ServerRecvTypes, NetworkFaultTypes DEF Next
<1> QED BY <1>1, <1>2, PTL DEF Spec

(* Every variable keeps its type, whatever the network does: the client    *)
(* sends no message but its own, the server never receives more than MAX   *)
(* datagrams (hw2.cpp:140-162).                                            *)
THEOREM TypeCorrect == Spec => []TypeOK
  BY TypesInvariant, PTL DEF TInv

-----------------------------------------------------------------------------
(* The server counts datagrams, not messages. While it receives, what has  *)
(* been sent is what was received and what is under way, and there are as  *)
(* many datagrams as messages; so after MAX of them nothing is missing.    *)
Accounted ==
  /\ spc = "recv" => /\ got \union ToSet(toServer) = 0 .. cI - 1
                     /\ sI + Len(toServer) = cI
  /\ spc = "done" => got = Messages /\ cI = MAX

IInv == TInv /\ Accounted

(* A datagram that overtakes another changes neither what is under way nor *)
(* how much it is.                                                         *)
LEMMA OvertakenKeeps ==
  ASSUME NEW S, NEW ch \in Seq(S), NEW i \in 1 .. Len(ch) - 1
  PROVE  /\ Len(Overtaken(ch, i)) = Len(ch)
         /\ ToSet(Overtaken(ch, i)) = ToSet(ch)
<1> DEFINE new == Overtaken(ch, i)
<1>1. Len(ch) \in Nat /\ DOMAIN ch = 1 .. Len(ch) /\ i \in DOMAIN ch /\ i + 1 \in DOMAIN ch
  BY LenProperties
<1>2. DOMAIN new = DOMAIN ch /\ new \in Seq(S) /\ Len(new) = Len(ch)
  BY <1>1, ElementOfSeq, ExceptSeq, LenProperties DEF Overtaken
<1>3. /\ new[i] = ch[i + 1] /\ new[i + 1] = ch[i]
      /\ \A j \in DOMAIN ch \ {i, i + 1} : new[j] = ch[j]
  BY <1>1 DEF Overtaken
<1>4. \A j \in DOMAIN ch : (\E k \in DOMAIN ch : new[k] = ch[j]) /\ \E k \in DOMAIN ch : ch[k] = new[j]
  BY <1>1, <1>3
<1> QED BY <1>2, <1>4 DEF ToSet

LEMMA ClientSendAccounts ==
  ASSUME IInv, ClientSend
  PROVE  Accounted'
<1> USE ConstantsType
<1>1. cI \in Nat /\ cI < MAX /\ toServer \in Seq(Messages) /\ spc = "recv"
  BY DEF ClientSend, IInv, TInv, TypeOK, ControlPoints, Accounted, Messages
<1>2. toServer' = Append(toServer, cI) /\ cI' = cI + 1
  BY <1>1 DEF ClientSend, SendTo
<1>3. cI \in Messages
  BY <1>1 DEF Messages
<1>4. Len(toServer') = Len(toServer) + 1 /\ ToSet(toServer') = ToSet(toServer) \union {cI}
  BY <1>1, <1>2, <1>3, AppendProperties DEF ToSet
<1>5. 0 .. cI' - 1 = 0 .. cI - 1 \union {cI}
  BY <1>1, <1>2
<1>6. sI \in Nat /\ Len(toServer) \in Nat
  BY <1>1, LenProperties DEF IInv, TInv, TypeOK
<1> QED BY <1>1, <1>2, <1>4, <1>5, <1>6 DEF ClientSend, serverVars, IInv, Accounted

LEMMA ServerRecvAccounts ==
  ASSUME IInv, ServerRecv
  PROVE  Accounted'
<1> USE ConstantsType
<1>1. PICK m \in Messages : RecvFrom(toServer, m) /\ got' = got \union {m}
  BY DEF ServerRecv
<1>2. /\ toServer \in Seq(Messages) /\ toServer # <<>> /\ m = Head(toServer)
      /\ spc = "recv" /\ sI \in Nat /\ cI \in 0 .. MAX /\ sI' = sI + 1 /\ cI' = cI
  BY <1>1 DEF ServerRecv, clientVars, RecvFrom, PollRecvFrom, IInv, TInv, TypeOK
<1>3. /\ Len(toServer) \in Nat \ {0} /\ Len(Tail(toServer)) = Len(toServer) - 1
      /\ Tail(toServer) \in Seq(Messages)
      /\ \A j \in 1 .. Len(toServer) - 1 : Tail(toServer)[j] = toServer[j + 1]
  BY <1>2, HeadTailProperties, EmptySeq, LenProperties
<1>4. ToSet(toServer) = {m} \union ToSet(Tail(toServer))
  <2> DEFINE n == Len(toServer)
  <2>1. DOMAIN toServer = 1 .. n /\ DOMAIN Tail(toServer) = 1 .. n - 1 /\ n \in Nat \ {0}
    BY <1>2, <1>3, LenProperties
  <2>2. m = toServer[1] /\ 1 \in 1 .. n
    BY <1>2, <1>3
  <2>3. ASSUME NEW x \in ToSet(toServer) PROVE x \in {m} \union ToSet(Tail(toServer))
    <3>1. PICK j \in 1 .. n : x = toServer[j]
      BY <2>1 DEF ToSet
    <3>2. CASE j # 1
      <4>1. j - 1 \in 1 .. n - 1 /\ x = Tail(toServer)[j - 1]
        BY <1>3, <2>1, <3>1, <3>2
      <4> QED BY <2>1, <4>1 DEF ToSet
    <3> QED BY <2>2, <3>1, <3>2
  <2>4. ASSUME NEW x \in ToSet(Tail(toServer)) PROVE x \in ToSet(toServer)
    <3>1. PICK j \in 1 .. n - 1 : x = toServer[j + 1]
      BY <1>3, <2>1 DEF ToSet
    <3>2. j + 1 \in 1 .. n
      BY <2>1, <3>1
    <3> QED BY <2>1, <3>1, <3>2 DEF ToSet
  <2>5. m \in ToSet(toServer)
    BY <2>1, <2>2 DEF ToSet
  <2> QED BY <2>3, <2>4, <2>5
<1>5. got' \union ToSet(Tail(toServer)) = 0 .. cI - 1 /\ sI' + Len(Tail(toServer)) = cI
  BY <1>1, <1>2, <1>3, <1>4 DEF IInv, Accounted
<1>6. CASE sI' < MAX
  BY <1>2, <1>5, <1>6 DEF ServerRecv, Accounted
<1>7. CASE ~(sI' < MAX)
  <2>1. cI = MAX /\ Len(Tail(toServer)) = 0
    BY <1>2, <1>3, <1>5, <1>7
  <2>2. ToSet(Tail(toServer)) = {}
    <3>1. DOMAIN Tail(toServer) = 1 .. 0
      BY <1>3, <2>1, LenProperties
    <3> QED BY <3>1 DEF ToSet
  <2> QED BY <1>2, <1>5, <1>7, <2>1, <2>2 DEF ServerRecv, Messages, Accounted
<1> QED BY <1>6, <1>7

LEMMA NetworkFaultAccounts ==
  ASSUME IInv, NetworkFault, DataFaults \subseteq {"reorder"}
  PROVE  Accounted'
<1>1. toServer \in Seq(Messages) /\ UNCHANGED <<clientVars, serverVars>>
  BY DEF NetworkFault, IInv, TInv, TypeOK
<1>2. toServer' = toServer \/ \E i \in 1 .. Len(toServer) - 1 : toServer' = Overtaken(toServer, i)
  BY DEF NetworkFault, Fault, Faulted
<1>3. Len(toServer') = Len(toServer) /\ ToSet(toServer') = ToSet(toServer)
  BY <1>1, <1>2, OvertakenKeeps
<1> QED BY <1>1, <1>3 DEF clientVars, serverVars, IInv, Accounted

(* On a network that at most reorders the server has every message when it *)
(* returns, for any number of messages (hw2.cpp:153-162).                  *)
THEOREM NoneMissingCorrect ==
  ASSUME DataFaults \subseteq {"reorder"}
  PROVE  Spec => []NoneMissing
<1>1. Init => Accounted
  <2>1. ToSet(<<>>) = {} /\ Len(<<>>) = 0
    BY DEF ToSet
  <2> QED BY <2>1, ConstantsType DEF Init, NetInit, Accounted
<1>2. IInv /\ [Next]_vars => Accounted'
  <2> SUFFICES ASSUME IInv, [Next]_vars PROVE Accounted'
    OBVIOUS
  <2>1. CASE Finished \/ UNCHANGED vars
    BY <2>1 DEF Finished, vars, clientVars, serverVars, netVars, IInv, Accounted
  <2> QED BY <2>1, ClientSendAccounts, ServerRecvAccounts, NetworkFaultAccounts DEF Next
<1>3. Accounted => NoneMissing
  BY DEF Accounted, NoneMissing
<1> QED BY <1>1, <1>2, <1>3, TypesInvariant, PTL DEF Spec, IInv

=============================================================================
