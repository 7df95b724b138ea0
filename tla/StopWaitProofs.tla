--------------------------- MODULE StopWaitProofs ---------------------------
(***************************************************************************)
(* Stop-and-wait, for any number of messages, any timeout, any bounds and  *)
(* any set of network faults: types, the lockstep of the two counters, and *)
(* the implementation of ReliableTransfer.                                 *)
(***************************************************************************)
EXTENDS StopWait, UdpNetworkProofs

-----------------------------------------------------------------------------
(* Lockstep speaks of what is in flight by value; it is not inductive: a   *)
(* message in flight must have been sent, and where each program stands    *)
(* says whether its counter has reached MAX.                               *)

InFlight ==
  /\ toServer \in Seq(0 .. sent - 1)
  /\ toClient \in Seq(0 .. sSequence - 1)

Counters ==
  /\ cSequence <= sSequence
  /\ sSequence <= sent
  /\ sent <= cSequence + 1
  /\ cpc \in {"poll", "timer"} => sent = cSequence + 1

ControlPoints ==
  /\ cpc = "done" <=> cSequence = MAX
  /\ spc = "recv" <=> sSequence < MAX

IInv == TypeOK /\ InFlight /\ Counters /\ ControlPoints

-----------------------------------------------------------------------------
(* MAX and TIMEOUT are positive, the bounds natural numbers. *)
LEMMA ConstantsType ==
  /\ MAX \in Nat /\ MAX > 0
  /\ TIMEOUT \in Nat /\ TIMEOUT > 0
  /\ FINAL_ACKS \in Nat
  /\ MaxCount \in Nat
  /\ MaxFaults \in Nat
  BY StopWaitAssumption, NetworkAssumption

(* The counters saturate inside their type. *)
LEMMA BumpType ==
  ASSUME NEW n \in 0 .. MaxCount
  PROVE  Bump(n) \in 0 .. MaxCount
  BY ConstantsType DEF Bump

(* Sending the current message keeps what the invariant says of the        *)
(* client's half, from any point of the client's loop.                     *)
LEMMA StartSequenceKeeps ==
  ASSUME IInv, cpc # "done", StartSequence
  PROVE  /\ toServer' \in Seq(0 .. MAX - 1)
         /\ toServer' \in Seq(0 .. sent' - 1)
         /\ timer' \in 0 .. TIMEOUT
         /\ sent' = cSequence + 1
         /\ sent' \in 0 .. MAX
         /\ resends' \in 0 .. MaxCount
         /\ stale' \in 0 .. MaxCount
<1> USE ConstantsType
<1>1. cSequence \in Nat /\ sent \in Nat /\ cSequence < MAX
  BY DEF IInv, TypeOK, ControlPoints
<1>2. sent \in {cSequence, cSequence + 1}
  BY <1>1 DEF IInv, TypeOK, Counters
<1>3. sent' = cSequence + 1 /\ sent' \in 0 .. MAX
  BY <1>1, <1>2 DEF StartSequence
<1>4. resends' \in 0 .. MaxCount /\ stale' \in 0 .. MaxCount
  BY BumpType DEF StartSequence, IInv, TypeOK
<1>5. timer' \in 0 .. TIMEOUT
  BY DEF StartSequence
<1>6. cSequence \in 0 .. sent' - 1 /\ cSequence \in 0 .. MAX - 1
  BY <1>1, <1>3
<1>7. toServer \in Seq(0 .. sent' - 1) /\ toServer \in Seq(0 .. MAX - 1)
  <2>1. sent' \in Nat /\ sent <= sent'
    BY <1>1, <1>2, <1>3
  <2>2. toServer \in Seq(0 .. sent - 1) /\ toServer \in Seq(0 .. MAX - 1)
    BY DEF IInv, InFlight, TypeOK
  <2> QED BY <1>1, <2>1, <2>2, WidenBelow
<1>8. toServer' = SendTo(toServer, cSequence, spc # "done")
  BY DEF StartSequence
<1>9. (spc # "done") \in BOOLEAN
  OBVIOUS
<1> QED BY <1>3, <1>4, <1>5, <1>6, <1>7, <1>8, <1>9, Send

(* What the initial state of the two programs satisfies. *)
LEMMA InitInvariant == Init => IInv
  BY ConstantsType
  DEF Init, NetInit, IInv, TypeOK, InFlight, Counters, ControlPoints

-----------------------------------------------------------------------------
(* One lemma per action of the two programs and the network. *)

LEMMA ClientSendKeeps == IInv /\ ClientSend => IInv'
<1> SUFFICES ASSUME IInv, ClientSend PROVE IInv'
  OBVIOUS
<1> USE ConstantsType
<1>1. cpc = "send" /\ StartSequence
  BY DEF ClientSend
<1>2. /\ toServer' \in Seq(0 .. MAX - 1)
      /\ toServer' \in Seq(0 .. sent' - 1)
      /\ timer' \in 0 .. TIMEOUT
      /\ sent' = cSequence + 1
      /\ sent' \in 0 .. MAX
      /\ resends' \in 0 .. MaxCount
      /\ stale' \in 0 .. MaxCount
  BY <1>1, StartSequenceKeeps
<1>3. TypeOK'
  BY <1>2 DEF ClientSend, serverVars, IInv, TypeOK
<1>4. InFlight'
  BY <1>2 DEF ClientSend, serverVars, IInv, InFlight
<1>5. Counters'
  BY <1>2 DEF ClientSend, serverVars, IInv, TypeOK, Counters
<1>6. ControlPoints'
  BY <1>1 DEF ClientSend, serverVars, IInv, ControlPoints
<1> QED BY <1>3, <1>4, <1>5, <1>6 DEF IInv

LEMMA ClientPollKeeps == IInv /\ ClientPoll => IInv'
  BY DEF ClientPoll, serverVars, history, netVars,
         IInv, TypeOK, InFlight, Counters, ControlPoints

LEMMA ClientTimeoutKeeps == IInv /\ ClientTimeout => IInv'
<1> SUFFICES ASSUME IInv, ClientTimeout PROVE IInv'
  OBVIOUS
<1> USE ConstantsType
<1>1. cpc = "timer"
  BY DEF ClientTimeout
<1>2. CASE timer >= TIMEOUT
  <2>1. StartSequence /\ retransmitted' = Bump(retransmitted)
    BY <1>2 DEF ClientTimeout
  <2>2. /\ toServer' \in Seq(0 .. MAX - 1)
        /\ toServer' \in Seq(0 .. sent' - 1)
        /\ timer' \in 0 .. TIMEOUT
        /\ sent' = cSequence + 1
        /\ sent' \in 0 .. MAX
        /\ resends' \in 0 .. MaxCount
        /\ stale' \in 0 .. MaxCount
    BY <1>1, <2>1, StartSequenceKeeps
  <2>3. retransmitted' \in 0 .. MaxCount
    BY <2>1, BumpType DEF IInv, TypeOK
  <2>4. TypeOK'
    BY <2>2, <2>3 DEF ClientTimeout, serverVars, IInv, TypeOK
  <2>5. InFlight'
    BY <2>2 DEF ClientTimeout, serverVars, IInv, InFlight
  <2>6. Counters'
    BY <2>2 DEF ClientTimeout, serverVars, IInv, TypeOK, Counters
  <2>7. ControlPoints'
    BY <1>1 DEF ClientTimeout, serverVars, IInv, ControlPoints
  <2> QED BY <2>4, <2>5, <2>6, <2>7 DEF IInv
<1>3. CASE ~(timer >= TIMEOUT)
  BY <1>3 DEF ClientTimeout, serverVars, history,
              IInv, TypeOK, InFlight, Counters, ControlPoints
<1> QED BY <1>2, <1>3

(* The acknowledgment of the current message exists only once the server   *)
(* has taken it, so the client never overtakes the server.                 *)
LEMMA ClientRecvKeeps == IInv /\ ClientRecv => IInv'
<1> SUFFICES ASSUME IInv, ClientRecv PROVE IInv'
  OBVIOUS
<1> USE ConstantsType
<1>1. PICK ack \in 0 .. MAX - 1 :
        /\ RecvFrom(toClient, ack)
        /\ cSequence' = VerifyReceipt(ack, cSequence)
        /\ stale' = IF ack = cSequence THEN stale ELSE Bump(stale)
  BY DEF ClientRecv
<1>2. /\ ack \in 0 .. sSequence - 1
      /\ Tail(toClient) \in Seq(0 .. sSequence - 1)
      /\ Tail(toClient) \in Seq(0 .. MAX - 1)
  BY <1>1, Receive DEF IInv, InFlight, TypeOK
<1>3. cpc = "poll" /\ cSequence < MAX /\ sent = cSequence + 1
  BY DEF ClientRecv, IInv, TypeOK, Counters, ControlPoints
<1>4. /\ cSequence' \in {cSequence, cSequence + 1}
      /\ cSequence' <= sSequence
  BY <1>1, <1>2 DEF VerifyReceipt, IInv, TypeOK, Counters
<1>5. \/ cSequence' < MAX /\ cpc' = "send" /\ toClient' = Tail(toClient)
      \/ cSequence' = MAX /\ cpc' = "done" /\ toClient' = <<>>
  BY <1>3, <1>4 DEF ClientRecv, IInv, TypeOK
<1>6. toClient' \in Seq(0 .. sSequence - 1) /\ toClient' \in Seq(0 .. MAX - 1)
  BY <1>2, <1>5, EmptySeq
<1>7. TypeOK'
  <2>1. stale' \in 0 .. MaxCount
    BY <1>1, BumpType DEF IInv, TypeOK
  <2> QED
    BY <1>3, <1>4, <1>5, <1>6, <2>1 DEF ClientRecv, serverVars, history, IInv, TypeOK
<1>8. InFlight'
  BY <1>6 DEF ClientRecv, serverVars, history, IInv, InFlight
<1>9. Counters'
  BY <1>3, <1>4, <1>5 DEF ClientRecv, serverVars, history, IInv, TypeOK, Counters
<1>10. ControlPoints'
  BY <1>5 DEF ClientRecv, serverVars, history, IInv, TypeOK, ControlPoints
<1> QED BY <1>7, <1>8, <1>9, <1>10 DEF IInv

(* A message in flight was sent, so the server never gets ahead of what    *)
(* the client has sent.                                                    *)
LEMMA ServerRecvKeeps == IInv /\ ServerRecv => IInv'
<1> SUFFICES ASSUME IInv, ServerRecv PROVE IInv'
  OBVIOUS
<1> USE ConstantsType
<1>1. PICK m \in 0 .. MAX - 1 :
        /\ RecvFrom(toServer, m)
        /\ IF m = sSequence
             THEN /\ toClient' = SendTo(toClient, sSequence, cpc # "done")
                  /\ sSequence' = sSequence + 1
             ELSE UNCHANGED <<toClient, sSequence>>
  BY DEF ServerRecv
<1>2. /\ m \in 0 .. sent - 1
      /\ toServer' \in Seq(0 .. sent - 1)
      /\ toServer' \in Seq(0 .. MAX - 1)
  BY <1>1, Receive DEF ServerRecv, IInv, InFlight, TypeOK
<1>3. spc = "recv" /\ sSequence < MAX
  BY DEF ServerRecv, IInv, ControlPoints
<1>4. /\ sSequence' \in {sSequence, sSequence + 1}
      /\ sSequence' <= sent
      /\ sSequence' \in 0 .. MAX
  BY <1>1, <1>2, <1>3 DEF IInv, TypeOK, Counters
<1>5. /\ toClient' \in Seq(0 .. sSequence' - 1)
      /\ toClient' \in Seq(0 .. MAX - 1)
  <2>1. toClient \in Seq(0 .. sSequence' - 1) /\ toClient \in Seq(0 .. MAX - 1)
    <3>1. sSequence \in Nat /\ sSequence' \in Nat /\ sSequence <= sSequence'
      BY <1>4 DEF IInv, TypeOK
    <3>2. toClient \in Seq(0 .. sSequence - 1) /\ toClient \in Seq(0 .. MAX - 1)
      BY DEF IInv, InFlight, TypeOK
    <3> QED BY <3>1, <3>2, WidenBelow
  <2>2. CASE m = sSequence
    <3>1. sSequence \in 0 .. sSequence' - 1 /\ sSequence \in 0 .. MAX - 1
      BY <1>1, <1>3, <2>2 DEF IInv, TypeOK
    <3>2. (cpc # "done") \in BOOLEAN
      OBVIOUS
    <3> QED BY <1>1, <2>1, <2>2, <3>1, <3>2, Send
  <2>3. CASE m # sSequence
    BY <1>1, <2>1, <2>3
  <2> QED BY <2>2, <2>3
<1>6. \/ sSequence' < MAX /\ spc' = "recv"
      \/ sSequence' = MAX /\ spc' = "final"
  BY <1>4 DEF ServerRecv
<1>7. TypeOK'
  BY <1>2, <1>4, <1>5, <1>6 DEF ServerRecv, clientVars, history, IInv, TypeOK
<1>8. InFlight'
  BY <1>2, <1>5 DEF ServerRecv, clientVars, history, IInv, InFlight
<1>9. Counters'
  BY <1>4 DEF ServerRecv, clientVars, history, IInv, TypeOK, Counters
<1>10. ControlPoints'
  BY <1>6 DEF ServerRecv, clientVars, history, IInv, TypeOK, ControlPoints
<1> QED BY <1>7, <1>8, <1>9, <1>10 DEF IInv

LEMMA FinalAckKeeps == IInv /\ FinalAck => IInv'
<1> SUFFICES ASSUME IInv, FinalAck PROVE IInv'
  OBVIOUS
<1> USE ConstantsType
<1>1. sSequence = MAX
  BY DEF FinalAck, IInv, TypeOK, ControlPoints
<1>2. toClient' \in Seq(0 .. MAX - 1)
  <2>1. MAX - 1 \in 0 .. MAX - 1 /\ (cpc # "done") \in BOOLEAN
    OBVIOUS
  <2> QED BY <2>1, Send DEF FinalAck, IInv, TypeOK
<1>3. TypeOK'
  BY <1>2 DEF FinalAck, clientVars, history, IInv, TypeOK
<1>4. InFlight'
  BY <1>1, <1>2 DEF FinalAck, clientVars, history, IInv, InFlight
<1>5. Counters' /\ ControlPoints'
  BY DEF FinalAck, clientVars, history, IInv, Counters, ControlPoints
<1> QED BY <1>3, <1>4, <1>5 DEF IInv

LEMMA ServerExitKeeps == IInv /\ ServerExit => IInv'
<1> SUFFICES ASSUME IInv, ServerExit PROVE IInv'
  OBVIOUS
<1>1. TypeOK'
  BY EmptySeq DEF ServerExit, clientVars, history, IInv, TypeOK
<1>2. InFlight'
  BY EmptySeq DEF ServerExit, clientVars, history, IInv, InFlight
<1>3. Counters' /\ ControlPoints'
  BY DEF ServerExit, clientVars, history, IInv, Counters, ControlPoints
<1> QED BY <1>1, <1>2, <1>3 DEF IInv

LEMMA TickKeeps == IInv /\ Tick => IInv'
  BY ConstantsType
  DEF Tick, serverVars, history, netVars,
      IInv, TypeOK, InFlight, Counters, ControlPoints

LEMMA NetworkFaultKeeps == IInv /\ NetworkFault => IInv'
<1> SUFFICES ASSUME IInv, NetworkFault PROVE IInv'
  OBVIOUS
<1>1. /\ toServer' \in Seq(0 .. MAX - 1) /\ toClient' \in Seq(0 .. MAX - 1)
      /\ toServer' \in Seq(0 .. sent - 1) /\ toClient' \in Seq(0 .. sSequence - 1)
  BY FaultKeepsChannels DEF NetworkFault, IInv, TypeOK, InFlight
<1>2. faults' \in 0 .. MaxFaults
  BY FaultKeepsCount DEF NetworkFault, IInv, TypeOK
<1>3. TypeOK' /\ InFlight'
  BY <1>1, <1>2
  DEF NetworkFault, clientVars, serverVars, history, IInv, TypeOK, InFlight
<1>4. Counters' /\ ControlPoints'
  BY DEF NetworkFault, clientVars, serverVars, history, IInv, Counters, ControlPoints
<1> QED BY <1>3, <1>4 DEF IInv

(* Every step keeps the invariant. *)
LEMMA NextInvariant == IInv /\ [Next]_vars => IInv'
<1> SUFFICES ASSUME IInv, [Next]_vars PROVE IInv'
  OBVIOUS
<1>1. CASE Client
  BY <1>1, ClientSendKeeps, ClientPollKeeps, ClientTimeoutKeeps, ClientRecvKeeps
  DEF Client
<1>2. CASE Server
  BY <1>2, ServerRecvKeeps, FinalAckKeeps, ServerExitKeeps DEF Server
<1>3. CASE Tick
  BY <1>3, TickKeeps
<1>4. CASE NetworkFault
  BY <1>4, NetworkFaultKeeps
<1>5. CASE Finished \/ UNCHANGED vars
  BY <1>5 DEF Finished, vars, clientVars, serverVars, history, netVars,
              IInv, TypeOK, InFlight, Counters, ControlPoints
<1> QED BY <1>1, <1>2, <1>3, <1>4, <1>5 DEF Next

(* The strengthened invariant holds in every reachable state. *)
THEOREM Invariance == Spec => []IInv
  BY InitInvariant, NextInvariant, PTL DEF Spec

(* Type correctness of stop-and-wait: the sequence numbers, the timer and  *)
(* both channels stay in range on any network (hw2.cpp:189-217, 296-312).  *)
THEOREM TypeCorrect == Spec => []TypeOK
<1>1. IInv => TypeOK
  BY DEF IInv
<1> QED BY <1>1, Invariance, PTL

(* The lockstep of client and server, for any number of messages and any   *)
(* set of network faults (hw2.cpp:175-178, 300-310).                       *)
THEOREM LockstepCorrect == Spec => []Lockstep
<1>1. ASSUME IInv PROVE Lockstep
  <2>1. cSequence <= sSequence /\ sSequence <= cSequence + 1
    BY <1>1 DEF IInv, TypeOK, Counters
  <2>2. ASSUME NEW m \in ToSet(toServer) PROVE m <= cSequence
    <3>1. m \in 0 .. sent - 1
      BY <1>1, ChannelContents DEF IInv, InFlight
    <3> QED BY <1>1, <3>1 DEF IInv, TypeOK, Counters
  <2>3. ASSUME NEW ack \in ToSet(toClient) PROVE ack < sSequence
    <3>1. ack \in 0 .. sSequence - 1
      BY <1>1, ChannelContents DEF IInv, InFlight
    <3> QED BY <1>1, <3>1 DEF IInv, TypeOK
  <2> QED BY <2>1, <2>2, <2>3 DEF Lockstep
<1> QED BY <1>1, Invariance, PTL

-----------------------------------------------------------------------------
(* CountsRetransmissions is not inductive: having read a stale             *)
(* acknowledgment, the client is about to repeat its message uncounted, so *)
(* there must be room for one more repetition until it has.                *)
Counting ==
  /\ retransmitted <= resends
  /\ resends <= retransmitted + stale
  /\ cpc = "send" /\ cSequence # sent => Bump(resends) <= retransmitted + stale

(* Every step keeps the count. The counters that a step leaves alone are   *)
(* those of Stays.                                                         *)
LEMMA CountingKept == IInv /\ Counting /\ [Next]_vars => Counting'
<1> SUFFICES ASSUME IInv, Counting, [Next]_vars PROVE Counting'
  OBVIOUS
<1> USE ConstantsType
<1> DEFINE Stays == UNCHANGED <<cpc, cSequence, sent, retransmitted, resends, stale>>
<1>1. /\ retransmitted \in 0 .. MaxCount
      /\ resends \in 0 .. MaxCount
      /\ stale \in 0 .. MaxCount
  BY DEF IInv, TypeOK
<1>2. CASE ClientSend
  <2>1. /\ cpc' = "poll" /\ UNCHANGED <<retransmitted, stale>>
        /\ resends' = IF cSequence = sent THEN resends ELSE Bump(resends)
    BY <1>2 DEF ClientSend, StartSequence
  <2>2. cpc = "send"
    BY <1>2 DEF ClientSend
  <2> QED BY <1>1, <2>1, <2>2 DEF Counting, Bump
<1>3. CASE ClientPoll
  BY <1>3 DEF ClientPoll, history, Counting
<1>4. CASE ClientTimeout
  <2>1. cpc' = "poll" /\ cSequence # sent
    BY <1>4 DEF ClientTimeout, IInv, TypeOK, Counters
  <2>2. CASE timer >= TIMEOUT
    <3>1. /\ retransmitted' = Bump(retransmitted)
          /\ resends' = Bump(resends)
          /\ stale' = stale
      BY <1>4, <2>1, <2>2 DEF ClientTimeout, StartSequence
    <3> QED BY <1>1, <2>1, <3>1 DEF Counting, Bump
  <2>3. CASE ~(timer >= TIMEOUT)
    BY <1>4, <2>1, <2>3 DEF ClientTimeout, history, Counting
  <2> QED BY <2>2, <2>3
<1>5. CASE ClientRecv
  <2>1. PICK ack \in 0 .. MAX - 1 :
          /\ cSequence' = VerifyReceipt(ack, cSequence)
          /\ stale' = IF ack = cSequence THEN stale ELSE Bump(stale)
    BY <1>5 DEF ClientRecv
  <2>2. UNCHANGED <<retransmitted, resends, sent>> /\ sent = cSequence + 1
    BY <1>5 DEF ClientRecv, IInv, Counters
  <2>3. CASE ack = cSequence
    BY <2>1, <2>2, <2>3 DEF VerifyReceipt, Counting, IInv, TypeOK
  <2>4. CASE ack # cSequence
    <3>1. stale' = Bump(stale)
      BY <2>1, <2>4
    <3> QED BY <1>1, <2>2, <3>1 DEF Counting, Bump
  <2> QED BY <2>3, <2>4
<1>6. CASE Server \/ Tick \/ NetworkFault \/ Finished \/ UNCHANGED vars
  <2>1. Stays
    BY <1>6 DEF Server, ServerRecv, FinalAck, ServerExit, Tick, NetworkFault,
                Finished, vars, clientVars, serverVars, history
  <2> QED BY <2>1 DEF Counting, Bump
<1> QED BY <1>2, <1>3, <1>4, <1>5, <1>6 DEF Next, Client

(* The count that ClientStopWait returns misses a repetition only after a  *)
(* stale acknowledgment, for any number of messages, any timeout and any   *)
(* set of network faults (hw2.cpp:185-217).                                *)
THEOREM CountCorrect == Spec => []CountsRetransmissions
<1>1. Init => Counting
  BY DEF Init, Counting
<1>2. IInv /\ Counting => CountsRetransmissions
  BY ConstantsType DEF IInv, TypeOK, Counting, CountsRetransmissions
<1> QED BY <1>1, <1>2, CountingKept, Invariance, PTL DEF Spec

-----------------------------------------------------------------------------
(* A step that leaves the three counters alone changes nothing in the      *)
(* transfer.                                                               *)
LEMMA Stutters ==
  ASSUME UNCHANGED <<sent, sSequence, cSequence>>
  PROVE  [Transfer!Next]_(Transfer!vars)
  BY DEF Transfer!vars

(* Sending the current message offers it, the first time. *)
LEMMA StartSequenceOffers ==
  ASSUME IInv, cpc # "done", StartSequence, UNCHANGED <<cSequence, sSequence>>
  PROVE  [Transfer!Next]_(Transfer!vars)
<1>1. cSequence < MAX /\ sent \in {cSequence, cSequence + 1}
  BY ConstantsType DEF IInv, TypeOK, Counters, ControlPoints
<1>2. CASE cSequence = sent
  BY <1>1, <1>2, ConstantsType
  DEF StartSequence, IInv, TypeOK, Transfer!Next, Transfer!Offer
<1>3. CASE cSequence # sent
  BY <1>3, Stutters DEF StartSequence
<1> QED BY <1>2, <1>3

(* The server accepts only the next message, and only once it was sent.    *)
LEMMA ServerRecvAccepts ==
  ASSUME IInv, ServerRecv
  PROVE  [Transfer!Next]_(Transfer!vars)
<1>1. PICK m \in 0 .. MAX - 1 :
        /\ RecvFrom(toServer, m)
        /\ IF m = sSequence THEN sSequence' = sSequence + 1
                            ELSE sSequence' = sSequence
  BY DEF ServerRecv
<1>2. UNCHANGED <<sent, cSequence>>
  BY DEF ServerRecv, history, clientVars
<1>3. m \in 0 .. sent - 1
  BY <1>1, Receive DEF IInv, InFlight
<1>4. CASE m = sSequence
  <2>1. sSequence < sent /\ sSequence' \in sSequence + 1 .. sent
    BY <1>1, <1>3, <1>4, ConstantsType DEF IInv, TypeOK
  <2> QED BY <1>2, <2>1 DEF Transfer!Next, Transfer!Accept
<1>5. CASE m # sSequence
  BY <1>1, <1>2, <1>5, Stutters
<1> QED BY <1>4, <1>5

(* The client confirms only what the server has accepted. *)
LEMMA ClientRecvConfirms ==
  ASSUME IInv, ClientRecv
  PROVE  [Transfer!Next]_(Transfer!vars)
<1>1. PICK ack \in 0 .. MAX - 1 :
        /\ RecvFrom(toClient, ack)
        /\ cSequence' = VerifyReceipt(ack, cSequence)
  BY DEF ClientRecv
<1>2. UNCHANGED <<sent, sSequence>>
  BY DEF ClientRecv, history, serverVars
<1>3. ack \in 0 .. sSequence - 1
  BY <1>1, Receive DEF IInv, InFlight
<1>4. CASE ack = cSequence
  <2>1. cSequence < sSequence /\ cSequence' \in cSequence + 1 .. sSequence
    BY <1>1, <1>3, <1>4, ConstantsType DEF VerifyReceipt, IInv, TypeOK
  <2> QED BY <1>2, <2>1 DEF Transfer!Next, Transfer!Confirm
<1>5. CASE ack # cSequence
  BY <1>1, <1>2, <1>5, Stutters DEF VerifyReceipt
<1> QED BY <1>4, <1>5

(* Stop-and-wait implements the reliable transfer with a window of one,    *)
(* whatever the network does: every message arrives in order, none twice,  *)
(* none is confirmed before it arrived (hw2.cpp:189-217, 296-312).         *)
THEOREM TransferImplemented == Spec => ImplementsTransfer
<1>1. Init => Transfer!Init
  BY DEF Init, Transfer!Init
<1>2. IInv /\ [Next]_vars => [Transfer!Next]_(Transfer!vars)
  <2> SUFFICES ASSUME IInv, [Next]_vars PROVE [Transfer!Next]_(Transfer!vars)
    OBVIOUS
  <2>1. CASE ClientSend
    BY <2>1, StartSequenceOffers DEF ClientSend, serverVars
  <2>2. CASE ClientPoll
    BY <2>2, Stutters DEF ClientPoll, serverVars, history
  <2>3. CASE ClientTimeout
    <3>1. cpc # "done" /\ UNCHANGED <<cSequence, sSequence>>
      BY <2>3 DEF ClientTimeout, serverVars
    <3>2. CASE timer >= TIMEOUT
      BY <2>3, <3>1, <3>2, StartSequenceOffers DEF ClientTimeout
    <3>3. CASE ~(timer >= TIMEOUT)
      BY <2>3, <3>1, <3>3, Stutters DEF ClientTimeout, history
    <3> QED BY <3>2, <3>3
  <2>4. CASE ClientRecv
    BY <2>4, ClientRecvConfirms
  <2>5. CASE ServerRecv
    BY <2>5, ServerRecvAccepts
  <2>6. CASE FinalAck
    BY <2>6, Stutters DEF FinalAck, clientVars, history
  <2>7. CASE ServerExit
    BY <2>7, Stutters DEF ServerExit, clientVars, history
  <2>8. CASE Tick
    BY <2>8, Stutters DEF Tick, serverVars, history
  <2>9. CASE NetworkFault
    BY <2>9, Stutters DEF NetworkFault, clientVars, serverVars, history
  <2>10. CASE Finished \/ UNCHANGED vars
    BY <2>10, Stutters DEF Finished, vars, clientVars, serverVars, history
  <2> QED BY <2>1, <2>2, <2>3, <2>4, <2>5, <2>6, <2>7, <2>8, <2>9, <2>10
          DEF Next, Client, Server
<1> QED BY <1>1, <1>2, Invariance, PTL DEF Spec, ImplementsTransfer, Transfer!Spec

=============================================================================
