---------------------------- MODULE SlidingWindow ----------------------------
(***************************************************************************)
(* Test 3 of Program 2: main runs ClientSlidingWindow on one host and      *)
(* ServerEarlyRetrans on the other once for every window size, over the    *)
(* same two sockets and with nothing that separates the rounds (hw2.cpp).  *)
(***************************************************************************)
EXTENDS UdpNetwork

CONSTANTS
  MAX,           \* messages to transfer in every round (20000 in the code)
  FirstWin,      \* windowSize of the first round (1 in the code)
  LastWin,       \* windowSize of the last round (MAX_WIN = 30 in the code)
  TIMEOUT,       \* 1500 microseconds, in units of the model's clock
  FINAL_ACKS,    \* acknowledgments main sends at the end (10 in the code)
  MaxCount       \* bound: the counter of retransmissions saturates here

ASSUME SlidingWindowAssumption ==
  /\ MAX \in Nat \ {0}
  /\ FirstWin \in Nat \ {0}
  /\ LastWin \in Nat
  /\ FirstWin <= LastWin
  /\ TIMEOUT \in Nat \ {0}
  /\ FINAL_ACKS \in Nat
  /\ MaxCount \in Nat

VARIABLES
  cpc,             \* where the client is: "loop", "sent", "inner" or "done"
  cWin,            \* the client's windowSize
  sequence,        \* the next message to send
  ackSeq,          \* the first message not known to be acknowledged
  message,         \* message[0], the message sent last
  timer,           \* time since timer.Start(), saturating above TIMEOUT
  retransmitted,   \* the client's count of retransmitted messages
  spc,             \* where the server is: "recv", "final" or "done"
  sWin,            \* the server's windowSize
  sSequence,       \* the server's sequence
  sAck,            \* the server's ack
  array,           \* the set of the i with array[i] true
  finalAcks        \* final acknowledgments sent by main

clientVars == <<cpc, cWin, sequence, ackSeq, message, timer, retransmitted>>
serverVars == <<spc, sWin, sSequence, sAck, array, finalAcks>>
vars == <<clientVars, serverVars, netVars>>

Messages == 0 .. MAX - 1
Expired == TIMEOUT + 1
Bump(n) == IF n < MaxCount THEN n + 1 ELSE n

TypeOK ==
  /\ cpc \in {"loop", "sent", "inner", "done"}
  /\ cWin \in FirstWin .. LastWin
  /\ sequence \in 0 .. MAX
  /\ ackSeq \in 0 .. MAX
  /\ message \in Messages
  /\ timer \in 0 .. Expired
  /\ retransmitted \in 0 .. MaxCount
  /\ spc \in {"recv", "final", "done"}
  /\ sWin \in FirstWin .. LastWin
  /\ sSequence \in 0 .. MAX
  /\ sAck \in Messages
  /\ array \in SUBSET Messages
  /\ finalAcks \in 0 .. FINAL_ACKS
  /\ toServer \in Seq(Messages)
  /\ toClient \in Seq(Messages)
  /\ faults \in 0 .. MaxFaults

(* A Timer is constructed with startTime 0, the epoch: it has run out long *)
(* before anyone starts it.                                                *)
Init ==
  /\ cpc = "loop"
  /\ cWin = FirstWin
  /\ sequence = 0
  /\ ackSeq = 0
  /\ message = 0
  /\ timer = Expired
  /\ retransmitted = 0
  /\ spc = "recv"
  /\ sWin = FirstWin
  /\ sSequence = 0
  /\ sAck = 0
  /\ array = {}
  /\ finalAcks = 0
  /\ NetInit

-----------------------------------------------------------------------------
(* The client.                                                             *)

(* MUTANT of WindowOpen: one message too many. *)
WindowOpen_OffByOne == ackSeq + cWin >= sequence /\ sequence < MAX

(* The window lets the client send one more message. *)
WindowOpen == ackSeq + cWin > sequence /\ sequence < MAX

(* Fewer than windowSize messages are unacknowledged: send the next one.   *)
ClientSend ==
  /\ cpc = "loop"
  /\ WindowOpen
  /\ message' = sequence
  /\ toServer' = SendTo(toServer, sequence, spc # "done")
  /\ cpc' = "sent"
  /\ UNCHANGED <<cWin, sequence, ackSeq, timer, retransmitted, serverVars,
                 toClient, faults>>

(* Between sends an acknowledgment counts only for exactly the first       *)
(* unacknowledged message.                                                 *)
Acked(ack) == IF ack = ackSeq THEN ackSeq + 1 ELSE ackSeq

(* Having sent, read one acknowledgment if one is there. *)
ClientAfterSend ==
  /\ cpc = "sent"
  /\ IF PollRecvFrom(toClient)
       THEN /\ \E ack \in Messages :
                 /\ RecvFrom(toClient, ack)
                 /\ ackSeq' = Acked(ack)
            /\ toClient' = Tail(toClient)
       ELSE UNCHANGED <<ackSeq, toClient>>
  /\ sequence' = sequence + 1
  /\ cpc' = "loop"
  /\ UNCHANGED <<cWin, message, timer, retransmitted, serverVars, toServer, faults>>

(* StartSequence: send message[] once more and start the timer. *)
StartSequence ==
  /\ toServer' = SendTo(toServer, message, spc # "done")
  /\ retransmitted' = Bump(retransmitted)
  /\ timer' = 0

(* The window is full: resend if the timer has run out, and start it       *)
(* whether it has or not.                                                  *)
ClientFull ==
  /\ cpc = "loop"
  /\ ~WindowOpen
  /\ ackSeq < MAX
  /\ IF timer > TIMEOUT
       THEN StartSequence
       ELSE /\ timer' = 0
            /\ UNCHANGED <<toServer, retransmitted>>
  /\ cpc' = "inner"
  /\ UNCHANGED <<cWin, sequence, ackSeq, message, serverVars, toClient, faults>>

(* Nothing to read, or the timer has run out: back to the loop. *)
ClientInnerEnd ==
  /\ cpc = "inner"
  /\ timer > TIMEOUT \/ ~PollRecvFrom(toClient)
  /\ cpc' = "loop"
  /\ UNCHANGED <<cWin, sequence, ackSeq, message, timer, retransmitted,
                 serverVars, netVars>>

(* MUTANT of NewAck: the first unacknowledged message does not count. *)
NewAck_Strict(ack) == ack > ackSeq

(* While the window is full an acknowledgment is cumulative. *)
NewAck(ack) == ack >= ackSeq

(* An acknowledgment in time: a new one is cumulative and reopens the      *)
(* window, an old one makes the client resend and go on waiting.           *)
ClientInnerRecv ==
  /\ cpc = "inner"
  /\ timer <= TIMEOUT
  /\ \E ack \in Messages :
       /\ RecvFrom(toClient, ack)
       /\ \/ /\ NewAck(ack)
             /\ ackSeq' = ack + 1
             /\ cpc' = "loop"
             /\ UNCHANGED <<toServer, retransmitted, timer>>
          \/ /\ ~NewAck(ack)
             /\ StartSequence
             /\ UNCHANGED <<ackSeq, cpc>>
  /\ toClient' = Tail(toClient)
  /\ UNCHANGED <<cWin, sequence, message, serverVars, faults>>

(* Every message is sent and acknowledged: main starts the next round with *)
(* fresh locals on the same socket.                                        *)
ClientNextRound ==
  /\ cpc = "loop"
  /\ ~WindowOpen
  /\ ackSeq >= MAX
  /\ cWin < LastWin
  /\ cWin' = cWin + 1
  /\ sequence' = 0
  /\ ackSeq' = 0
  /\ timer' = Expired
  /\ retransmitted' = 0
  /\ UNCHANGED <<cpc, message, serverVars, netVars>>

(* ... or, after the last round, ends, and its socket is closed. *)
ClientReturn ==
  /\ cpc = "loop"
  /\ ~WindowOpen
  /\ ackSeq >= MAX
  /\ cWin = LastWin
  /\ cpc' = "done"
  /\ toClient' = <<>>
  /\ UNCHANGED <<cWin, sequence, ackSeq, message, timer, retransmitted,
                 serverVars, toServer, faults>>

-----------------------------------------------------------------------------
(* The server.                                                             *)

(* MUTANT of NextAck: one too high. *)
NextAck_OffByOne(m, marked) == IF m = sSequence THEN Max(marked) + 1 ELSE sAck

(* MUTANT of NextAck: another message than the expected one is acknowledged *)
(* by its own number.                                                      *)
NextAck_Own(m, marked) == IF m = sSequence THEN Max(marked) ELSE m

(* The expected message moves ack to the HIGHEST marked message, any other *)
(* leaves it where it is.                                                  *)
NextAck(m, marked) == IF m = sSequence THEN Max(marked) ELSE sAck

(* ServerEarlyRetrans marks every message it receives and sends ack back.  *)
(* After the last message main starts the next round, or goes on to its    *)
(* final acknowledgments.                                                  *)
ServerRecv ==
  /\ spc = "recv"
  /\ \E m \in Messages :
       /\ RecvFrom(toServer, m)
       /\ LET marked == array \union {m}
              ack == NextAck(m, marked)
              next == IF m = sSequence THEN ack + 1 ELSE sSequence
          IN /\ toClient' = SendTo(toClient, ack, cpc # "done")
             /\ IF next >= MAX /\ sWin < LastWin
                  THEN /\ sWin' = sWin + 1
                       /\ sSequence' = 0
                       /\ sAck' = 0
                       /\ array' = {}
                  ELSE /\ sSequence' = next
                       /\ sAck' = ack
                       /\ array' = marked
                       /\ UNCHANGED sWin
             /\ spc' = IF next >= MAX /\ sWin = LastWin THEN "final" ELSE "recv"
  /\ toServer' = Tail(toServer)
  /\ UNCHANGED <<finalAcks, clientVars, faults>>

(* MUTANT of FinalAck: the acknowledgment is one too high. *)
FinalAck_OffByOne ==
  /\ spc = "final"
  /\ finalAcks < FINAL_ACKS
  /\ finalAcks' = finalAcks + 1
  /\ toClient' = SendTo(toClient, MAX, cpc # "done")
  /\ UNCHANGED <<spc, sWin, sSequence, sAck, array, clientVars, toServer, faults>>

(* main, after the last round: one more acknowledgment of MAX - 1. *)
FinalAck ==
  /\ spc = "final"
  /\ finalAcks < FINAL_ACKS
  /\ finalAcks' = finalAcks + 1
  /\ toClient' = SendTo(toClient, MAX - 1, cpc # "done")
  /\ UNCHANGED <<spc, sWin, sSequence, sAck, array, clientVars, toServer, faults>>

(* main returns: the socket is closed and what waits in it is gone. *)
ServerExit ==
  /\ spc = "final"
  /\ finalAcks = FINAL_ACKS
  /\ spc' = "done"
  /\ toServer' = <<>>
  /\ UNCHANGED <<sWin, sSequence, sAck, array, finalAcks, clientVars, toClient, faults>>

-----------------------------------------------------------------------------
(* Time passes for the client's timer. *)
Tick ==
  /\ cpc # "done"
  /\ timer < Expired
  /\ BelowMaxInFlight
  /\ timer' = timer + 1
  /\ UNCHANGED <<cpc, cWin, sequence, ackSeq, message, retransmitted,
                 serverVars, netVars>>

NetworkFault == Fault /\ UNCHANGED <<clientVars, serverVars>>

(* Both programs have ended. *)
Finished ==
  /\ cpc = "done"
  /\ spc = "done"
  /\ UNCHANGED vars

Client == \/ ClientSend \/ ClientAfterSend \/ ClientFull \/ ClientInnerEnd
          \/ ClientInnerRecv \/ ClientNextRound \/ ClientReturn
Server == ServerRecv \/ FinalAck \/ ServerExit

Next == Client \/ Server \/ Tick \/ NetworkFault \/ Finished

Spec == Init /\ [][Next]_vars

(* Neither program ever stops between two of its steps, time passes, and   *)
(* the few instructions from timer.Start() to the check of timer.End()     *)
(* (hw2.cpp:271-272) do not take 1500 microseconds every time.             *)
FairSpec ==
  /\ Spec
  /\ WF_vars(Client)
  /\ WF_vars(Server)
  /\ WF_vars(Tick)
  /\ SF_vars(ClientInnerRecv)

-----------------------------------------------------------------------------
(* What a round has achieved. *)

(* How many messages the client has sent at least once. *)
Offered == IF cpc = "sent" THEN sequence + 1 ELSE sequence

(* How many messages the server has received without a gap. *)
Accepted == Min((0 .. MAX) \ array)

(* A cumulative acknowledgment: while the server is in its first round,    *)
(* whatever is acknowledged, in flight or by the server's sequence, has    *)
(* been received, and so has everything before it (hw2.cpp:318-319, 345).  *)
(* Later the acknowledgments of an older round may still be under way.     *)
TruthfulAcks ==
  sWin = FirstWin =>
    /\ sSequence <= Accepted
    /\ \A ack \in ToSet(toClient) : ack < Accepted

(* What the first round has achieved; a program that has left it has gone  *)
(* through all of its messages.                                            *)
FirstOffered == IF cWin = FirstWin THEN Offered ELSE MAX
FirstAccepted == IF sWin = FirstWin THEN Accepted ELSE MAX
FirstConfirmed == IF cWin = FirstWin THEN ackSeq ELSE MAX

(* The first round of the sliding window is a reliable transfer with a     *)
(* window of windowSize messages.                                          *)
Transfer == INSTANCE ReliableTransfer
  WITH Window <- FirstWin, offered <- FirstOffered, accepted <- FirstAccepted,
       confirmed <- FirstConfirmed

(* Every step of the two programs and the network is a step of the         *)
(* reliable transfer or changes nothing in it: the client never has more   *)
(* than windowSize messages unacknowledged, takes no message for delivered *)
(* that was not, and neither end leaves the round before all of it has     *)
(* arrived (hw2.cpp:89-97, 241-243, 274-277).                              *)
ImplementsTransfer == Transfer!Spec

(* The window is full and nothing is under way that could open it. The     *)
(* client polls, and timer.Start() keeps the timer from running out        *)
(* (hw2.cpp:266-272).                                                      *)
Starved ==
  /\ cpc \in {"loop", "inner"}
  /\ ~WindowOpen
  /\ ackSeq < MAX
  /\ toServer = <<>>
  /\ toClient = <<>>

(* Both programs come to the end of the test, or else the network has lost *)
(* the acknowledgment of what the server has, and the client never sends   *)
(* again. Whatever it does send again brings it on, though that is the     *)
(* message sent last and not the one it waits for: acknowledgments are     *)
(* cumulative (hw2.cpp:224-228, 266-285, 345).                             *)
OnlyLostAckStops ==
  \/ <>(cpc = "done" /\ spc = "done")
  \/ <>[](faults > 0 /\ Starved /\ ackSeq < sSequence)

(* The round a program is in; after the last round, one more. *)
ClientRound == IF cpc = "done" THEN LastWin + 1 ELSE cWin
ServerRound == IF spc = "recv" THEN sWin ELSE LastWin + 1

(* Nothing in a datagram tells the rounds apart, yet on a network that     *)
(* only loses datagrams the client never leaves a round before the server, *)
(* and the server is never more than one round ahead: it can leave a round *)
(* only on a message 0, and sends MAX - 1 back only once in a round        *)
(* (hw2.cpp:89-97, 113-115).                                               *)
RoundsInStep ==
  /\ ClientRound <= ServerRound
  /\ ServerRound <= ClientRound + 1

(* The server ends a round only when the client has sent every message of  *)
(* it: "Repeats receiving message[] ... max times" (hw2.cpp:316-317).      *)
RoundComplete == ServerRound > ClientRound => Offered = MAX

=============================================================================
