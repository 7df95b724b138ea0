------------------------------ MODULE StopWait ------------------------------
(***************************************************************************)
(* Test 2 of Program 2: ClientStopWait on one host, ServerReliable and the *)
(* final acknowledgments of main on the other, over UDP (hw2.cpp).         *)
(***************************************************************************)
EXTENDS UdpNetwork

CONSTANTS
  MAX,           \* messages to transfer (20000 in the code)
  TIMEOUT,       \* 1500 microseconds, in units of the model's clock
  FINAL_ACKS,    \* acknowledgments main sends at the end (10 in the code)
  MaxCount       \* bound: the three counters below saturate here

ASSUME StopWaitAssumption ==
  /\ MAX \in Nat \ {0}
  /\ TIMEOUT \in Nat \ {0}
  /\ FINAL_ACKS \in Nat
  /\ MaxCount \in Nat

VARIABLES
  cpc,             \* where the client is: "send", "poll", "timer" or "done"
  cSequence,       \* the client's sequence
  timer,           \* time since timer.Start(), saturating at TIMEOUT
  retransmitted,   \* the client's count of retransmitted messages
  spc,             \* where the server is: "recv", "final" or "done"
  sSequence,       \* the server's sequence
  finalAcks,       \* final acknowledgments sent by main
  sent,            \* history: how many different messages were ever sent
  resends,         \* history: how many datagrams repeated an earlier one
  stale            \* history: how many acknowledgments of another message than
                   \* the current one the client has read

clientVars == <<cpc, cSequence, timer, retransmitted>>
serverVars == <<spc, sSequence, finalAcks>>
history == <<sent, resends, stale>>
vars == <<clientVars, serverVars, history, netVars>>

Bump(n) == IF n < MaxCount THEN n + 1 ELSE n

TypeOK ==
  /\ cpc \in {"send", "poll", "timer", "done"}
  /\ cSequence \in 0 .. MAX
  /\ timer \in 0 .. TIMEOUT
  /\ retransmitted \in 0 .. MaxCount
  /\ spc \in {"recv", "final", "done"}
  /\ sSequence \in 0 .. MAX
  /\ finalAcks \in 0 .. FINAL_ACKS
  /\ sent \in 0 .. MAX
  /\ resends \in 0 .. MaxCount
  /\ stale \in 0 .. MaxCount
  /\ toServer \in Seq(0 .. MAX - 1)
  /\ toClient \in Seq(0 .. MAX - 1)
  /\ faults \in 0 .. MaxFaults

Init ==
  /\ cpc = "send"
  /\ cSequence = 0
  /\ timer = 0
  /\ retransmitted = 0
  /\ spc = "recv"
  /\ sSequence = 0
  /\ finalAcks = 0
  /\ sent = 0
  /\ resends = 0
  /\ stale = 0
  /\ NetInit

-----------------------------------------------------------------------------
(* The client.                                                             *)

(* StartSequence: send message[] and start the timer. *)
StartSequence ==
  /\ toServer' = SendTo(toServer, cSequence, spc # "done")
  /\ timer' = 0
  /\ sent' = IF cSequence = sent THEN sent + 1 ELSE sent
  /\ resends' = IF cSequence = sent THEN resends ELSE Bump(resends)
  /\ UNCHANGED stale

(* The top of the loop: message[0] = sequence, send it. *)
ClientSend ==
  /\ cpc = "send"
  /\ StartSequence
  /\ cpc' = "poll"
  /\ UNCHANGED <<cSequence, retransmitted, serverVars, toClient, faults>>

(* The poll finds no acknowledgment: look at the timer. *)
ClientPoll ==
  /\ cpc = "poll"
  /\ ~PollRecvFrom(toClient)
  /\ cpc' = "timer"
  /\ UNCHANGED <<cSequence, timer, retransmitted, serverVars, history, netVars>>

(* MUTANT of ClientTimeout: the resend is not counted. *)
ClientTimeout_Uncounted ==
  /\ cpc = "timer"
  /\ IF timer >= TIMEOUT
       THEN StartSequence
       ELSE UNCHANGED <<timer, history, toServer>>
  /\ cpc' = "poll"
  /\ UNCHANGED <<cSequence, retransmitted, serverVars, toClient, faults>>

(* The time is up: send again and count it, even when the acknowledgment   *)
(* came after the poll. Otherwise just poll again.                         *)
ClientTimeout ==
  /\ cpc = "timer"
  /\ IF timer >= TIMEOUT
       THEN /\ StartSequence
            /\ retransmitted' = Bump(retransmitted)
       ELSE UNCHANGED <<timer, retransmitted, history, toServer>>
  /\ cpc' = "poll"
  /\ UNCHANGED <<cSequence, serverVars, toClient, faults>>

(* MUTANT of VerifyReceipt: any acknowledgment will do. *)
VerifyReceipt_Any(ack, sequence) == sequence + 1

(* MUTANT of VerifyReceipt: the number of the next message is expected. *)
VerifyReceipt_Next(ack, sequence) == IF ack = sequence + 1 THEN sequence + 1 ELSE sequence

(* VerifyReceipt: the acknowledgment of the current message, and no other, *)
(* moves the sequence on.                                                  *)
VerifyReceipt(ack, sequence) == IF ack = sequence THEN sequence + 1 ELSE sequence

(* An acknowledgment is there: read it, and go round or return. A client   *)
(* that returns ends its process, so its socket is closed.                 *)
ClientRecv ==
  /\ cpc = "poll"
  /\ \E ack \in 0 .. MAX - 1 :
       /\ RecvFrom(toClient, ack)
       /\ cSequence' = VerifyReceipt(ack, cSequence)
       /\ stale' = IF ack = cSequence THEN stale ELSE Bump(stale)
  /\ IF cSequence' < MAX
       THEN /\ cpc' = "send"
            /\ toClient' = Tail(toClient)
       ELSE /\ cpc' = "done"
            /\ toClient' = <<>>
  /\ UNCHANGED <<timer, retransmitted, serverVars, sent, resends, toServer, faults>>

-----------------------------------------------------------------------------
(* The server.                                                             *)

(* MUTANT of ServerRecv: every message counts as the expected one. *)
ServerRecv_Unchecked ==
  /\ spc = "recv"
  /\ PollRecvFrom(toServer)
  /\ toClient' = SendTo(toClient, sSequence, cpc # "done")
  /\ sSequence' = sSequence + 1
  /\ toServer' = Tail(toServer)
  /\ spc' = IF sSequence' < MAX THEN "recv" ELSE "final"
  /\ UNCHANGED <<finalAcks, clientVars, history, faults>>

(* A message is there. Only the expected one is acknowledged; any other is *)
(* dropped without a word. After the last one the server returns to main.  *)
ServerRecv ==
  /\ spc = "recv"
  /\ \E m \in 0 .. MAX - 1 :
       /\ RecvFrom(toServer, m)
       /\ IF m = sSequence
            THEN /\ toClient' = SendTo(toClient, sSequence, cpc # "done")
                 /\ sSequence' = sSequence + 1
            ELSE UNCHANGED <<toClient, sSequence>>
  /\ toServer' = Tail(toServer)
  /\ spc' = IF sSequence' < MAX THEN "recv" ELSE "final"
  /\ UNCHANGED <<finalAcks, clientVars, history, faults>>

(* MUTANT of FinalAck: the acknowledgment is one too high. *)
FinalAck_OffByOne ==
  /\ spc = "final"
  /\ finalAcks < FINAL_ACKS
  /\ finalAcks' = finalAcks + 1
  /\ toClient' = SendTo(toClient, MAX, cpc # "done")
  /\ UNCHANGED <<spc, sSequence, clientVars, history, toServer, faults>>

(* main, after the test: one more acknowledgment of MAX - 1, a second      *)
(* after the previous one. It reads nothing any more.                      *)
FinalAck ==
  /\ spc = "final"
  /\ finalAcks < FINAL_ACKS
  /\ finalAcks' = finalAcks + 1
  /\ toClient' = SendTo(toClient, MAX - 1, cpc # "done")
  /\ UNCHANGED <<spc, sSequence, clientVars, history, toServer, faults>>

(* MUTANT of ServerExit: main leaves at once. *)
ServerExit_AtOnce ==
  /\ spc = "final"
  /\ spc' = "done"
  /\ toServer' = <<>>
  /\ UNCHANGED <<sSequence, finalAcks, clientVars, history, toClient, faults>>

(* main returns: the socket is closed and what waits in it is gone. *)
ServerExit ==
  /\ spc = "final"
  /\ finalAcks = FINAL_ACKS
  /\ spc' = "done"
  /\ toServer' = <<>>
  /\ UNCHANGED <<sSequence, finalAcks, clientVars, history, toClient, faults>>

-----------------------------------------------------------------------------
(* Time passes for the client's timer while the client waits. *)
Tick ==
  /\ cpc \in {"poll", "timer"}
  /\ timer < TIMEOUT
  /\ BelowMaxInFlight
  /\ timer' = timer + 1
  /\ UNCHANGED <<cpc, cSequence, retransmitted, serverVars, history, netVars>>

NetworkFault == Fault /\ UNCHANGED <<clientVars, serverVars, history>>

(* Both programs have ended. *)
Finished ==
  /\ cpc = "done"
  /\ spc = "done"
  /\ UNCHANGED vars

Client == ClientSend \/ ClientPoll \/ ClientTimeout \/ ClientRecv
Server == ServerRecv \/ FinalAck \/ ServerExit

Next == Client \/ Server \/ Tick \/ NetworkFault \/ Finished

Spec == Init /\ [][Next]_vars

(* Neither program ever stops between two of its steps, and time passes.   *)
(* Nothing is assumed of the network but that faults are finitely many.    *)
FairSpec == Spec /\ WF_vars(Client) /\ WF_vars(Server) /\ WF_vars(Tick)
-----------------------------------------------------------------------------
(* Whatever the network loses, doubles or reorders, the two counters stay  *)
(* within one of each other with the server ahead, no acknowledgment in    *)
(* flight is for a message the server has not taken, and no message in     *)
(* flight is beyond the client's. Because ServerReliable acknowledges a    *)
(* message once and never again, one client accepting a stale              *)
(* acknowledgment would break this for good (hw2.cpp:175-178, 300-310).    *)
Lockstep ==
  /\ cSequence <= sSequence
  /\ sSequence <= cSequence + 1
  /\ \A m \in ToSet(toServer) : m <= cSequence
  /\ \A ack \in ToSet(toClient) : ack < sSequence

(* The number ClientStopWait returns is the number of datagrams that       *)
(* repeated an earlier one, as its comment demands (hw2.cpp:185-187), but  *)
(* for one that it misses with every acknowledgment of an older message:   *)
(* that makes it repeat the current one uncounted (hw2.cpp:196-214).       *)
CountsRetransmissions == resends \in retransmitted .. retransmitted + stale

(* Stop-and-wait is a reliable transfer with a window of one message.      *)
Transfer == INSTANCE ReliableTransfer
  WITH Window <- 1, offered <- sent, accepted <- sSequence, confirmed <- cSequence

(* Every step of the two programs and the network is a step of the         *)
(* reliable transfer or changes nothing in it: messages arrive in order,   *)
(* none twice, none confirmed before it arrived.                           *)
ImplementsTransfer == Transfer!Spec

(* The network has lost the acknowledgment of the current message: the     *)
(* server has taken the message, nothing is on its way back.               *)
AckLost ==
  /\ faults > 0
  /\ spc = "recv"
  /\ cSequence < sSequence
  /\ toClient = <<>>

(* The client returns, or else an acknowledgment was lost before the end:  *)
(* lost, doubled, reordered messages and late acknowledgments cannot keep  *)
(* it, nor can the loss of the last acknowledgment, which main repeats     *)
(* (hw2.cpp:122-133, 196-216).                                             *)
OnlyLostAckStops == <>(cpc = "done" \/ AckLost)

(* Once the server has left the test, the acknowledgments main goes on     *)
(* sending get the client home, if the network loses no more than those    *)
(* (hw2.cpp:122-133).                                                      *)
LastAckDelivered == spc = "final" ~> cpc = "done"

(* The client receives all its acknowledgments and returns, as its comment *)
(* says (hw2.cpp:182-185).                                                 *)
ClientReturns == <>(cpc = "done")

=============================================================================
