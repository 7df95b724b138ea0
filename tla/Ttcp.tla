-------------------------------- MODULE Ttcp --------------------------------
(***************************************************************************)
(* ttcp of Prog3: transmitters that send NBUF buffers over a TCP           *)
(* connection, and a receiver that serves them one after the other, finds  *)
(* the end of each transmission by the end of its stream and sends back    *)
(* what it counted (ttcp.cpp, Socket.cpp).                                 *)
(***************************************************************************)
EXTENDS TcpStream

CONSTANTS
  Transmitters,
  Receiver,   \* nobody, where a transmitter is expected
  BufLens,    \* buffer lengths the option -l may give (4096 without it)
  NBUF,       \* buffers to send (2048)
  NoSocket,   \* the transmitters that may not get a socket for their host
  Killed      \* the programs that may be killed

ASSUME TtcpAssumption ==
  /\ Receiver \notin Transmitters
  /\ BufLens \subseteq Nat
  /\ NBUF \in Nat
  /\ NoSocket \subseteq Transmitters
  /\ Killed \subseteq Transmitters \union {Receiver}

VARIABLES
  tpc,         \* a transmitter: "connect", "header", "write", "results",
               \* "done", "failed" (to get a socket) or "dead"
  buflen,      \* a transmitter's option.buflen
  written,     \* a transmitter's totalBytes
  calls,       \* a transmitter's iocalls
  reported,    \* what a transmitter prints for the receiver
  backlog,     \* the transmitters connected and not accepted
  header,      \* the transmitters whose buffer length is under way
  stream,      \* bytes under way from a transmitter
  results,     \* the results under way to a transmitter
  rpc,         \* the receiver: "start", "accept", "header", "read",
               \* "results" or "dead"
  sd,          \* the transmitter being served
  rBuflen,     \* the receiver's option.buflen
  pos,         \* the receiver's pos, in allRead
  totalBytes,  \* the receiver's totalBytes
  iocalls      \* the receiver's iocalls

transmitterVars == <<tpc, buflen, written, calls, reported>>
net == <<backlog, header, stream, results>>
receiverVars == <<rpc, sd, rBuflen, pos, totalBytes, iocalls>>
vars == <<transmitterVars, net, receiverVars>>

Nothing == [bytes |-> 0, calls |-> 0]
Counts == [bytes : Nat, calls : Nat]

TypeOK ==
  /\ tpc \in [Transmitters ->
               {"connect", "header", "write", "results", "done", "failed", "dead"}]
  /\ buflen \in [Transmitters -> BufLens]
  /\ written \in [Transmitters -> Nat]
  /\ \A t \in Transmitters : written[t] <= NBUF * buflen[t]
  /\ calls \in [Transmitters -> Nat]
  /\ reported \in [Transmitters -> Counts]
  /\ backlog \subseteq Transmitters
  /\ header \subseteq Transmitters
  /\ stream \in [Transmitters -> 0 .. Capacity]
  /\ results \in [Transmitters -> Counts]
  /\ rpc \in {"start", "accept", "header", "read", "results", "dead"}
  /\ sd \in Transmitters \union {Receiver}
  /\ rBuflen \in BufLens
  /\ pos \in 0 .. rBuflen
  /\ totalBytes \in Nat
  /\ iocalls \in Nat

Init ==
  /\ tpc = [t \in Transmitters |-> "connect"]
  /\ buflen \in [Transmitters -> BufLens]
  /\ written = [t \in Transmitters |-> 0]
  /\ calls = [t \in Transmitters |-> 0]
  /\ reported = [t \in Transmitters |-> Nothing]
  /\ backlog = {}
  /\ header = {}
  /\ stream = [t \in Transmitters |-> 0]
  /\ results = [t \in Transmitters |-> Nothing]
  /\ rpc = "start"
  /\ sd = Receiver
  /\ rBuflen \in BufLens
  /\ pos = 0
  /\ totalBytes = 0
  /\ iocalls = 0

-----------------------------------------------------------------------------
(* A transmitter.                                                          *)

Listening == rpc \notin {"start", "dead"}

(* getClientSocket: connect is repeated until it succeeds, which takes no  *)
(* accept, only a listening socket.                                        *)
Connect(t) ==
  /\ tpc[t] = "connect"
  /\ Listening
  /\ tpc' = [tpc EXCEPT ![t] = "header"]
  /\ backlog' = backlog \union {t}
  /\ UNCHANGED <<buflen, written, calls, reported, header, stream, results,
                 receiverVars>>

(* getClientSocket finds no such host, or cannot set up the socket: NULL_FD,*)
(* and the transmitter returns.                                            *)
ConnectFails(t) ==
  /\ t \in NoSocket
  /\ tpc[t] = "connect"
  /\ tpc' = [tpc EXCEPT ![t] = "failed"]
  /\ UNCHANGED <<buflen, written, calls, reported, net, receiverVars>>

(* A header or a buffer on its way to a receiver that has died is taken    *)
(* until the reset is back.                                                *)
SendHeader(t) ==
  /\ tpc[t] = "header"
  /\ tpc' = [tpc EXCEPT ![t] = "write"]
  /\ header' = header \union {t}
  /\ UNCHANGED <<buflen, written, calls, reported, backlog, stream, results,
                 receiverVars>>

(* MUTANT of Rest: the whole buffer, whatever is written of it. *)
Rest_Whole(t) == buflen[t]

(* What is left of the current buffer: allWrite's size - pos. *)
Rest(t) == buflen[t] - (written[t] % buflen[t])

(* One write of allWrite. *)
AllWrite(t) ==
  /\ tpc[t] = "write"
  /\ written[t] < NBUF * buflen[t]
  /\ \E n \in Taken(stream[t], Rest(t)) :
       /\ stream' = [stream EXCEPT ![t] = @ + n]
       /\ written' = [written EXCEPT ![t] = @ + n]
  /\ calls' = [calls EXCEPT ![t] = @ + 1]
  /\ UNCHANGED <<tpc, buflen, reported, backlog, header, results, receiverVars>>

(* Everything is written: shutdown(sd, SHUT_WR). *)
Shutdown(t) ==
  /\ tpc[t] = "write"
  /\ written[t] >= NBUF * buflen[t]
  /\ tpc' = [tpc EXCEPT ![t] = "results"]
  /\ UNCHANGED <<buflen, written, calls, reported, net, receiverVars>>

(* The results of the receiver, read into the transmitter's own variables, *)
(* so that without them it prints its own. A dead receiver sends none.     *)
ReadResults(t) ==
  /\ tpc[t] = "results"
  /\ results[t] # Nothing \/ rpc = "dead"
  /\ tpc' = [tpc EXCEPT ![t] = "done"]
  /\ reported' = [reported EXCEPT ![t] =
                    IF results[t] # Nothing THEN results[t]
                    ELSE [bytes |-> written[t], calls |-> calls[t]]]
  /\ UNCHANGED <<buflen, written, calls, net, receiverVars>>

(* A write after the reset of a receiver that has died. *)
BrokenPipe(t) ==
  /\ tpc[t] \in {"header", "write"}
  /\ rpc = "dead"
  /\ tpc' = [tpc EXCEPT ![t] = "dead"]
  /\ UNCHANGED <<buflen, written, calls, reported, net, receiverVars>>

(* A transmitter is killed: its stream ends where it is. *)
Die(t) ==
  /\ t \in Killed
  /\ tpc[t] \in {"header", "write", "results"}
  /\ tpc' = [tpc EXCEPT ![t] = "dead"]
  /\ UNCHANGED <<buflen, written, calls, reported, net, receiverVars>>

Ended(t) == tpc[t] \in {"results", "done", "dead"}

-----------------------------------------------------------------------------
(* The receiver.                                                           *)

(* getServerSocket, the first time: listen. *)
Listen ==
  /\ rpc = "start"
  /\ rpc' = "accept"
  /\ UNCHANGED <<transmitterVars, net, sd, rBuflen, pos, totalBytes, iocalls>>

(* MUTANT of Fresh: the counts go on from one transmission to the next. *)
Fresh_Kept == UNCHANGED <<totalBytes, iocalls>>

(* Every transmission is counted from zero. *)
Fresh == totalBytes' = 0 /\ iocalls' = 0

(* getServerSocket: accept one of those waiting. *)
Accept ==
  /\ rpc = "accept"
  /\ \E t \in backlog :
       /\ sd' = t
       /\ backlog' = backlog \ {t}
  /\ rpc' = "header"
  /\ Fresh
  /\ UNCHANGED <<transmitterVars, header, stream, results, rBuflen, pos>>

(* The buffer length. If the stream ends before it, option.buflen stays    *)
(* what the last transmission made of it.                                  *)
ReadHeader ==
  /\ rpc = "header"
  /\ sd \in header \/ Ended(sd)
  /\ rBuflen' = IF sd \in header THEN buflen[sd] ELSE rBuflen
  /\ header' = header \ {sd}
  /\ rpc' = "read"
  /\ UNCHANGED <<transmitterVars, backlog, stream, results, sd, pos, totalBytes, iocalls>>

(* MUTANT of LastBuffer: the first buffer that is filled is the last. *)
LastBuffer_Filled(currentBytes) == currentBytes <= rBuflen

(* The transmission is over when a buffer cannot be filled. *)
LastBuffer(currentBytes) == currentBytes < rBuflen

(* One read of allRead; a buffer is over when it is full or the stream     *)
(* ends.                                                                   *)
AllRead ==
  /\ rpc = "read"
  /\ rBuflen > 0
  /\ Ready(stream[sd], Ended(sd))
  /\ \E n \in Returned(stream[sd], rBuflen - pos) :
       /\ stream' = [stream EXCEPT ![sd] = @ - n]
       /\ iocalls' = iocalls + 1
       /\ IF n > 0 /\ pos + n < rBuflen
            THEN /\ pos' = pos + n
                 /\ UNCHANGED <<totalBytes, rpc>>
            ELSE /\ pos' = 0
                 /\ totalBytes' = totalBytes + pos + n
                 /\ rpc' = IF LastBuffer(pos + n) THEN "results" ELSE "read"
  /\ UNCHANGED <<transmitterVars, backlog, header, results, sd, rBuflen>>

(* With a buffer length of 0 nothing is read and no buffer is the last:    *)
(* the receiver loops for ever.                                            *)
Spin ==
  /\ rpc = "read"
  /\ rBuflen = 0
  /\ UNCHANGED vars

(* MUTANT of SendResults: the receiver goes without sending anything. *)
SendResults_None ==
  /\ rpc = "results"
  /\ rpc' = "accept"
  /\ sd' = Receiver
  /\ UNCHANGED <<transmitterVars, net, rBuflen, pos, totalBytes, iocalls>>

(* Three writes and close. If the transmitter has gone, the first of them  *)
(* is answered with a reset, and another after that kills the receiver.    *)
SendResults ==
  /\ rpc = "results"
  /\ \/ /\ rpc' = "accept"
        /\ results' = [results EXCEPT ![sd] =
                         [bytes |-> totalBytes, calls |-> iocalls]]
     \/ /\ tpc[sd] = "dead"
        /\ rpc' = "dead"
        /\ UNCHANGED results
  /\ sd' = Receiver
  /\ UNCHANGED <<transmitterVars, backlog, header, stream, rBuflen, pos,
                 totalBytes, iocalls>>

(* The receiver is killed, or ends because getServerSocket cannot have the *)
(* port.                                                                   *)
DieReceiver ==
  /\ Receiver \in Killed
  /\ rpc # "dead"
  /\ rpc' = "dead"
  /\ sd' = Receiver
  /\ UNCHANGED <<transmitterVars, net, rBuflen, pos, totalBytes, iocalls>>

-----------------------------------------------------------------------------
(* Every transmitter has ended, or waits for a receiver that has died. The *)
(* receiver ends only when it dies.                                        *)
Finished ==
  /\ \A t \in Transmitters : \/ tpc[t] \in {"done", "failed", "dead"}
                             \/ tpc[t] = "connect" /\ rpc = "dead"
  /\ rpc = "dead" \/ (rpc = "accept" /\ backlog = {})
  /\ UNCHANGED vars

Transmit(t) ==
  \/ Connect(t) \/ SendHeader(t) \/ AllWrite(t) \/ Shutdown(t) \/ ReadResults(t)
  \/ BrokenPipe(t)
Receive == Listen \/ Accept \/ ReadHeader \/ AllRead \/ Spin \/ SendResults

Next ==
  \/ \E t \in Transmitters : Transmit(t) \/ ConnectFails(t) \/ Die(t)
  \/ Receive
  \/ DieReceiver
  \/ Finished

Spec == Init /\ [][Next]_vars

(* No program stops between two of its steps; nobody has to be killed or   *)
(* to look for an unknown host.                                            *)
FairSpec ==
  /\ Spec
  /\ \A t \in Transmitters : WF_vars(Transmit(t))
  /\ WF_vars(Receive)

-----------------------------------------------------------------------------
(* What the receiver has counted, what it has of the current buffer and    *)
(* what is under way is what the transmitter being served has written,     *)
(* whatever was served before it (ttcp.cpp:99-119, 165-185).               *)
NoByteLost ==
  rpc \in {"header", "read", "results"} =>
    written[sd] = totalBytes + pos + stream[sd]

(* A transmitter that comes to its end prints results of its own           *)
(* transmission: every byte it wrote and, as long as the receiver lives,   *)
(* at least one call for every buffer and one for the end of the stream    *)
(* (ttcp.cpp:143-159, 179-190).                                            *)
OwnResults ==
  \A t \in Transmitters :
    tpc[t] = "done" =>
      /\ reported[t].bytes = NBUF * buflen[t]
      /\ rpc # "dead" => reported[t].calls >= NBUF + 1

(* Some call of a transmitter, or of the receiver, would return.           *)
TransmitterGoesOn(t) ==
  \/ tpc[t] = "connect" /\ Listening
  \/ tpc[t] = "header"
  \/ tpc[t] = "write" /\ (\/ written[t] >= NBUF * buflen[t] \/ rpc = "dead"
                         \/ stream[t] < Capacity)
  \/ tpc[t] = "results" /\ (results[t] # Nothing \/ rpc = "dead")

ReceiverGoesOn ==
  \/ rpc \in {"start", "results"}
  \/ rpc = "accept" /\ backlog # {}
  \/ rpc = "header" /\ (sd \in header \/ Ended(sd))
  \/ rpc = "read" /\ (rBuflen = 0 \/ Ready(stream[sd], Ended(sd)))

(* Receiver and transmitter never wait for each other, the one for a       *)
(* header or for bytes and the other for room or for the results, however  *)
(* little the network holds; a receiver that waits for the next            *)
(* transmitter leaves nobody without results, and one that has died keeps  *)
(* nobody but those that never reached it (ttcp.cpp:121-193,               *)
(* Socket.cpp:58-63, 73-136).                                              *)
NeverStuck ==
  /\ rpc \in {"header", "read"} => ReceiverGoesOn \/ TransmitterGoesOn(sd)
  /\ rpc \in {"accept", "dead"} =>
       ReceiverGoesOn \/ \A t \in Transmitters :
         \/ tpc[t] \in {"done", "failed", "dead"} \/ TransmitterGoesOn(t)
         \/ tpc[t] = "connect" /\ rpc = "dead"

(* What of a transmission has been read, by whatever transmission it was   *)
(* read.                                                                   *)
Received == [t \in Transmitters |-> written[t] - stream[t]]

(* Whatever TCP makes of the writes and reads, and whoever is killed, the  *)
(* programs count and acknowledge whole transmissions, one after the other *)
(* (ttcp.cpp:121-193): past are the transmitters that have been            *)
(* accepted, told is what the receiver has sent back.                      *)
Transfer == INSTANCE CountedTransfer WITH
  Senders <- Transmitters,
  Nobody <- Receiver,
  sent <- written,
  received <- Received,
  ended <- {t \in Transmitters : Ended(t)},
  past <- {t \in Transmitters : tpc[t] \notin {"connect", "failed"}} \ backlog,
  current <- sd,
  told <- [t \in Transmitters |-> results[t].bytes]

ImplementsCountedTransfer == Transfer!Spec

(* The receiver serves every transmitter, in whatever order it accepts     *)
(* them, unless it is killed, one that was killed takes it along, or a     *)
(* buffer length of 0 keeps it (ttcp.cpp:164-192).                         *)
AllServed ==
  (\A t \in Transmitters : buflen[t] > 0) /\ rBuflen > 0 =>
    <>(rpc = "dead" \/ \A t \in Transmitters : tpc[t] \in {"done", "failed", "dead"})

=============================================================================
