----------------------------- MODULE TtcpProofs -----------------------------
(***************************************************************************)
(* ttcp, for any transmitters, any buffer lengths, any number of buffers,  *)
(* any capacity of the network and whoever is killed: types, the bytes     *)
(* counted, the results printed, the counted transfer implemented, and     *)
(* that receiver and transmitter never wait for each other.                *)
(***************************************************************************)
EXTENDS Ttcp, TLAPS

-----------------------------------------------------------------------------
(* The receiver's counts speak of the transmitter it serves. That they are *)
(* right for the next one too rests on what is known of the transmitters   *)
(* that wait: nothing has been read from them, and their header is still   *)
(* under way unless they have not sent it or never will.                   *)

Waiting(t) == tpc[t] \in {"connect", "failed"} \/ t \in backlog

(* Nobody is served unless the receiver is busy with one of those it       *)
(* accepted.                                                               *)
Serving ==
  /\ sd = Receiver <=> rpc \in {"start", "accept", "dead"}
  /\ sd # Receiver => ~Waiting(sd)
  /\ \A t \in Transmitters : tpc[t] \in {"connect", "failed"} => t \notin backlog

(* What is under way has been written; all of it, for those that wait.     *)
Conserved ==
  \A t \in Transmitters :
    /\ stream[t] <= written[t]
    /\ Waiting(t) => written[t] = stream[t]
    /\ tpc[t] \in {"results", "done"} => written[t] = NBUF * buflen[t]

(* Results are sent once, to the transmitter served.                       *)
Unanswered ==
  \A t \in Transmitters : Waiting(t) \/ t = sd => results[t] = Nothing

(* The first thing a transmitter sends, and the receiver reads.            *)
Headers ==
  \A t \in Transmitters :
    /\ tpc[t] \in {"connect", "header"} => t \notin header
    /\ /\ Waiting(t) \/ (t = sd /\ rpc = "header")
       /\ tpc[t] \in {"write", "results", "done"}
       => t \in header

(* A buffer is filled from its start, and the counts start from zero.      *)
Empty ==
  /\ rpc \in {"start", "accept", "header"} => pos = 0
  /\ rpc = "header" => totalBytes = 0 /\ iocalls = 0

(* The receiver uses the buffer length of the transmitter it serves, if it *)
(* ever got it, and needs a call for each buffer.                          *)
Counted ==
  rpc \in {"read", "results"} =>
    /\ tpc[sd] = "dead" \/ (tpc[sd] # "header" /\ rBuflen = buflen[sd])
    /\ totalBytes + pos <= iocalls * rBuflen

(* At the end everything has been read, by one call more than that.        *)
ReadOut ==
  rpc = "results" =>
    /\ Ended(sd)
    /\ stream[sd] = 0
    /\ pos = 0
    /\ rBuflen > 0
    /\ iocalls > 0
    /\ totalBytes <= (iocalls - 1) * rBuflen

(* What a transmitter that lives is told.                                  *)
Truthful ==
  \A t \in Transmitters :
    results[t] # Nothing /\ tpc[t] # "dead" =>
      /\ results[t].bytes = NBUF * buflen[t]
      /\ results[t].calls >= NBUF + 1

IInv ==
  /\ TypeOK /\ NoByteLost /\ OwnResults
  /\ Serving /\ Conserved /\ Unanswered /\ Headers /\ Empty /\ Counted /\ ReadOut /\ Truthful

-----------------------------------------------------------------------------
(* The numbers of bytes that go over a connection.                         *)

(* A write takes at least one byte, at most what it is given, and at most  *)
(* what there is room for.                                                 *)
LEMMA TakenType ==
  ASSUME NEW s \in 0 .. Capacity, NEW size \in Nat, NEW n \in Taken(s, size)
  PROVE  n \in Nat /\ n > 0 /\ n <= size /\ s + n \in 0 .. Capacity
  BY StreamAssumption DEF Taken

(* A read returns what is there, at most what was asked for, and nothing   *)
(* only if nothing is there.                                               *)
LEMMA ReturnedType ==
  ASSUME NEW s \in 0 .. Capacity, NEW size \in Nat, NEW n \in Returned(s, size)
  PROVE  /\ n \in Nat /\ n <= size /\ n <= s
         /\ s - n \in 0 .. Capacity
         /\ n = 0 <=> s = 0
  BY StreamAssumption DEF Returned

(* A product of natural numbers is one, and grows with its first factor by *)
(* the second.                                                             *)
LEMMA ProductType ==
  ASSUME NEW a \in Nat, NEW b \in Nat
  PROVE  a * b \in Nat /\ (a + 1) * b = a * b + b
  OBVIOUS

(* Nothing times something is nothing. *)
LEMMA ProductZero ==
  ASSUME NEW b \in Nat
  PROVE  0 * b = 0
<1>1. (0 + 1) * b = 0 * b + b /\ 0 * b \in Nat
  BY ProductType
<1>2. 0 + 1 = 1 /\ 1 * b = b
  OBVIOUS
<1> QED BY <1>1, <1>2

(* Products keep the order of their first factors, and with a positive     *)
(* second factor show it.                                                  *)
LEMMA ProductOrder ==
  ASSUME NEW a \in Nat, NEW b \in Nat, NEW c \in Nat
  PROVE  /\ a <= b => a * c <= b * c
         /\ a * c <= b * c /\ c > 0 => a <= b
  OBVIOUS

-----------------------------------------------------------------------------
LEMMA ConstantsType ==
  /\ Receiver \notin Transmitters
  /\ BufLens \subseteq Nat
  /\ NBUF \in Nat
  /\ Capacity \in Nat /\ Capacity > 0
  BY TtcpAssumption, StreamAssumption

(* Writing what is left of a buffer stays within what there is to write.   *)
LEMMA RestType ==
  ASSUME NEW w \in Nat, NEW b \in Nat, NEW k \in Nat, w < k * b
  PROVE  b - (w % b) \in Nat /\ w + (b - (w % b)) <= k * b
<1>1. b > 0
  OBVIOUS
<1> DEFINE q == w \div b
<1>2. q \in Nat /\ w % b \in 0 .. b - 1 /\ w = q * b + (w % b)
  BY <1>1
<1>3. q * b \in Nat /\ k * b \in Nat /\ q * b < k * b
  BY <1>2, ProductType
<1>4. q + 1 <= k
  BY <1>2, <1>3, ProductOrder
<1>5. (q + 1) * b <= k * b /\ (q + 1) * b = q * b + b
  BY <1>2, <1>4, ProductOrder, ProductType
<1> QED BY <1>2, <1>3, <1>5

LEMMA ConnectKeeps ==
  ASSUME IInv, NEW t \in Transmitters, Connect(t)
  PROVE  IInv'
<1>1. TypeOK'
  BY ConstantsType DEF Connect, receiverVars, Counts, IInv, TypeOK, Listening
<1>2. NoByteLost'
  BY ConstantsType
  DEF Connect, receiverVars, Counts, IInv, TypeOK, NoByteLost, Serving,
      Conserved, Waiting, Listening
<1>3. OwnResults'
  BY ConstantsType
  DEF Connect, receiverVars, Nothing, Counts, IInv, TypeOK, OwnResults,
      Truthful, Conserved, Serving, Listening
<1>4. Serving'
  BY ConstantsType
  DEF Connect, receiverVars, Counts, IInv, TypeOK, Serving, Waiting, Listening
<1>5. Conserved'
  BY ConstantsType
  DEF Connect, receiverVars, Counts, IInv, TypeOK, Conserved, Waiting, Listening
<1>6. Unanswered'
  BY ConstantsType
  DEF Connect, receiverVars, Nothing, Counts, IInv, TypeOK, Unanswered, Serving,
      Waiting, Listening
<1>7. Headers'
  BY ConstantsType
  DEF Connect, receiverVars, Counts, IInv, TypeOK, Headers, Serving, Waiting,
      Listening
<1>8. Counted'
  BY ConstantsType
  DEF Connect, receiverVars, Counts, IInv, TypeOK, Counted, Serving, Headers,
      Waiting, Listening
<1>9. ReadOut'
  BY ConstantsType
  DEF Connect, receiverVars, Counts, Ended, IInv, TypeOK, ReadOut, Serving,
      Listening
<1>10. Truthful'
  BY ConstantsType
  DEF Connect, receiverVars, Nothing, Counts, IInv, TypeOK, Truthful, Serving,
      Listening
<1>11. Empty'
  BY ConstantsType
  DEF Connect, receiverVars, Counts, IInv, TypeOK, Empty, Serving, Listening
<1> QED BY <1>1, <1>2, <1>3, <1>4, <1>5, <1>6, <1>7, <1>8, <1>9, <1>10, <1>11 DEF IInv

LEMMA SendHeaderKeeps ==
  ASSUME IInv, NEW t \in Transmitters, SendHeader(t)
  PROVE  IInv'
<1>1. TypeOK'
  BY ConstantsType DEF SendHeader, receiverVars, Counts, IInv, TypeOK
<1>2. NoByteLost'
  BY ConstantsType
  DEF SendHeader, receiverVars, Counts, IInv, TypeOK, NoByteLost, Serving,
      Conserved, Waiting
<1>3. OwnResults'
  BY ConstantsType
  DEF SendHeader, receiverVars, Nothing, Counts, IInv, TypeOK, OwnResults,
      Truthful, Conserved, Serving
<1>4. Serving'
  BY ConstantsType
  DEF SendHeader, receiverVars, Counts, IInv, TypeOK, Serving, Waiting
<1>5. Conserved'
  BY ConstantsType
  DEF SendHeader, receiverVars, Counts, IInv, TypeOK, Conserved, Waiting
<1>6. Unanswered'
  BY ConstantsType
  DEF SendHeader, receiverVars, Nothing, Counts, IInv, TypeOK, Unanswered,
      Serving, Waiting
<1>7. Headers'
  BY ConstantsType
  DEF SendHeader, receiverVars, Counts, IInv, TypeOK, Headers, Serving, Waiting
<1>8. Counted'
  BY ConstantsType
  DEF SendHeader, receiverVars, Counts, IInv, TypeOK, Counted, Serving, Headers,
      Waiting
<1>9. ReadOut'
  BY ConstantsType
  DEF SendHeader, receiverVars, Counts, Ended, IInv, TypeOK, ReadOut, Serving
<1>10. Truthful'
  BY ConstantsType
  DEF SendHeader, receiverVars, Nothing, Counts, IInv, TypeOK, Truthful, Serving
<1>11. Empty'
  BY ConstantsType
  DEF SendHeader, receiverVars, Counts, IInv, TypeOK, Empty, Serving
<1> QED BY <1>1, <1>2, <1>3, <1>4, <1>5, <1>6, <1>7, <1>8, <1>9, <1>10, <1>11 DEF IInv

(* A write takes bytes of the buffer and no others.                        *)
LEMMA AllWriteTakes ==
  ASSUME IInv, NEW t \in Transmitters, AllWrite(t)
  PROVE  \E n \in Nat \ {0} :
           /\ stream[t] + n \in 0 .. Capacity
           /\ stream' = [stream EXCEPT ![t] = @ + n]
           /\ written' = [written EXCEPT ![t] = @ + n]
           /\ written[t] + n <= NBUF * buflen[t]
<1>1. /\ written[t] \in Nat /\ buflen[t] \in Nat /\ stream[t] \in 0 .. Capacity
      /\ written[t] < NBUF * buflen[t]
  BY ConstantsType DEF AllWrite, IInv, TypeOK
<1>2. Rest(t) \in Nat /\ written[t] + Rest(t) <= NBUF * buflen[t]
  BY <1>1, RestType, ConstantsType DEF Rest
<1>3. PICK n \in Taken(stream[t], Rest(t)) :
        /\ stream' = [stream EXCEPT ![t] = @ + n]
        /\ written' = [written EXCEPT ![t] = @ + n]
  BY DEF AllWrite
<1>4. n \in Nat /\ n > 0 /\ n <= Rest(t) /\ stream[t] + n \in 0 .. Capacity
  BY <1>1, <1>2, <1>3, TakenType
<1>5. NBUF * buflen[t] \in Nat /\ written[t] + n <= NBUF * buflen[t]
  BY <1>1, <1>2, <1>4, ProductType, ConstantsType
<1>6. n \in Nat \ {0}
  BY <1>4
<1> WITNESS n \in Nat \ {0}
<1> QED BY <1>3, <1>4, <1>5

LEMMA AllWriteKeeps ==
  ASSUME IInv, NEW t \in Transmitters, AllWrite(t)
  PROVE  IInv'
<1>a. PICK n \in Nat \ {0} :
        /\ stream[t] + n \in 0 .. Capacity
        /\ stream' = [stream EXCEPT ![t] = @ + n]
        /\ written' = [written EXCEPT ![t] = @ + n]
        /\ written[t] + n <= NBUF * buflen[t]
  BY AllWriteTakes
<1>1. TypeOK'
  BY <1>a, ConstantsType DEF AllWrite, receiverVars, IInv, TypeOK
<1>2. NoByteLost'
  BY <1>a DEF AllWrite, receiverVars, IInv, TypeOK, NoByteLost
<1>3. OwnResults'
  BY ConstantsType
  DEF AllWrite, receiverVars, Nothing, Counts, IInv, TypeOK, OwnResults,
      Truthful, Conserved, Serving, Rest
<1>4. Serving'
  BY ConstantsType
  DEF AllWrite, receiverVars, Counts, IInv, TypeOK, Serving, Waiting, Rest
<1>5. Conserved'
  BY <1>a DEF AllWrite, receiverVars, IInv, TypeOK, Conserved, Waiting
<1>6. Unanswered'
  BY ConstantsType
  DEF AllWrite, receiverVars, Nothing, Counts, IInv, TypeOK, Unanswered,
      Serving, Waiting, Rest
<1>7. Headers'
  BY ConstantsType
  DEF AllWrite, receiverVars, Counts, IInv, TypeOK, Headers, Serving, Waiting,
      Rest
<1>8. Counted'
  BY ConstantsType
  DEF AllWrite, receiverVars, Counts, IInv, TypeOK, Counted, Serving, Headers,
      Waiting, Rest
<1>9. ReadOut'
  BY ConstantsType
  DEF AllWrite, receiverVars, Counts, Ended, IInv, TypeOK, ReadOut, Serving,
      Rest
<1>10. Truthful'
  BY ConstantsType
  DEF AllWrite, receiverVars, Nothing, Counts, IInv, TypeOK, Truthful, Serving,
      Rest
<1>11. Empty'
  BY ConstantsType
  DEF AllWrite, receiverVars, Counts, IInv, TypeOK, Empty, Serving, Rest
<1> QED BY <1>1, <1>2, <1>3, <1>4, <1>5, <1>6, <1>7, <1>8, <1>9, <1>10, <1>11 DEF IInv

LEMMA ShutdownKeeps ==
  ASSUME IInv, NEW t \in Transmitters, Shutdown(t)
  PROVE  IInv'
<1>a. NBUF * buflen[t] \in Nat /\ written[t] \in Nat
  BY ProductType, ConstantsType DEF IInv, TypeOK
<1>b. written[t] = NBUF * buflen[t]
  BY <1>a DEF Shutdown, IInv, TypeOK
<1>1. TypeOK'
  BY ConstantsType DEF Shutdown, net, receiverVars, Counts, IInv, TypeOK
<1>2. NoByteLost'
  BY ConstantsType
  DEF Shutdown, net, receiverVars, Counts, IInv, TypeOK, NoByteLost, Serving,
      Conserved, Waiting
<1>3. OwnResults'
  BY ConstantsType
  DEF Shutdown, net, receiverVars, Nothing, Counts, IInv, TypeOK, OwnResults,
      Truthful, Conserved, Serving
<1>4. Serving'
  BY ConstantsType
  DEF Shutdown, net, receiverVars, Counts, IInv, TypeOK, Serving, Waiting
<1>5. Conserved'
  BY <1>b DEF Shutdown, net, IInv, Conserved, Waiting, TypeOK
<1>6. Unanswered'
  BY ConstantsType
  DEF Shutdown, net, receiverVars, Nothing, Counts, IInv, TypeOK, Unanswered,
      Serving, Waiting
<1>7. Headers'
  BY ConstantsType
  DEF Shutdown, net, receiverVars, Counts, IInv, TypeOK, Headers, Serving,
      Waiting
<1>8. Counted'
  BY ConstantsType
  DEF Shutdown, net, receiverVars, Counts, IInv, TypeOK, Counted, Serving,
      Headers, Waiting
<1>9. ReadOut'
  BY ConstantsType
  DEF Shutdown, net, receiverVars, Counts, Ended, IInv, TypeOK, ReadOut, Serving
<1>10. Truthful'
  BY ConstantsType
  DEF Shutdown, net, receiverVars, Nothing, Counts, IInv, TypeOK, Truthful,
      Serving
<1>11. Empty'
  BY ConstantsType
  DEF Shutdown, net, receiverVars, Counts, IInv, TypeOK, Empty, Serving
<1> QED BY <1>1, <1>2, <1>3, <1>4, <1>5, <1>6, <1>7, <1>8, <1>9, <1>10, <1>11 DEF IInv

LEMMA ReadResultsKeeps ==
  ASSUME IInv, NEW t \in Transmitters, ReadResults(t)
  PROVE  IInv'
<1>1. TypeOK'
  BY ConstantsType
  DEF ReadResults, net, receiverVars, Nothing, Counts, IInv, TypeOK
<1>2. NoByteLost'
  BY ConstantsType
  DEF ReadResults, net, receiverVars, Nothing, Counts, IInv, TypeOK, NoByteLost,
      Serving, Conserved, Waiting
<1>3. OwnResults'
  BY ConstantsType
  DEF ReadResults, net, receiverVars, Nothing, Counts, IInv, TypeOK, OwnResults,
      Truthful, Conserved, Serving
<1>4. Serving'
  BY ConstantsType
  DEF ReadResults, net, receiverVars, Nothing, Counts, IInv, TypeOK, Serving,
      Waiting
<1>5. Conserved'
  BY ConstantsType
  DEF ReadResults, net, receiverVars, Nothing, Counts, IInv, TypeOK, Conserved,
      Waiting
<1>6. Unanswered'
  BY ConstantsType
  DEF ReadResults, net, receiverVars, Nothing, Counts, IInv, TypeOK, Unanswered,
      Serving, Waiting
<1>7. Headers'
  BY ConstantsType
  DEF ReadResults, net, receiverVars, Nothing, Counts, IInv, TypeOK, Headers,
      Serving, Waiting
<1>8. Counted'
  BY ConstantsType
  DEF ReadResults, net, receiverVars, Nothing, Counts, IInv, TypeOK, Counted,
      Serving, Headers, Waiting
<1>9. ReadOut'
  BY ConstantsType
  DEF ReadResults, net, receiverVars, Nothing, Counts, Ended, IInv, TypeOK,
      ReadOut, Serving
<1>10. Truthful'
  BY ConstantsType
  DEF ReadResults, net, receiverVars, Nothing, Counts, IInv, TypeOK, Truthful,
      Serving
<1>11. Empty'
  BY ConstantsType
  DEF ReadResults, net, receiverVars, Nothing, Counts, IInv, TypeOK, Empty,
      Serving
<1> QED BY <1>1, <1>2, <1>3, <1>4, <1>5, <1>6, <1>7, <1>8, <1>9, <1>10, <1>11 DEF IInv

LEMMA BrokenPipeKeeps ==
  ASSUME IInv, NEW t \in Transmitters, BrokenPipe(t)
  PROVE  IInv'
<1>1. TypeOK'
  BY ConstantsType DEF BrokenPipe, net, receiverVars, Counts, IInv, TypeOK
<1>2. NoByteLost'
  BY ConstantsType
  DEF BrokenPipe, net, receiverVars, Counts, IInv, TypeOK, NoByteLost, Serving,
      Conserved, Waiting
<1>3. OwnResults'
  BY ConstantsType
  DEF BrokenPipe, net, receiverVars, Nothing, Counts, IInv, TypeOK, OwnResults,
      Truthful, Conserved, Serving
<1>4. Serving'
  BY ConstantsType
  DEF BrokenPipe, net, receiverVars, Counts, IInv, TypeOK, Serving, Waiting
<1>5. Conserved'
  BY ConstantsType
  DEF BrokenPipe, net, receiverVars, Counts, IInv, TypeOK, Conserved, Waiting
<1>6. Unanswered'
  BY ConstantsType
  DEF BrokenPipe, net, receiverVars, Nothing, Counts, IInv, TypeOK, Unanswered,
      Serving, Waiting
<1>7. Headers'
  BY ConstantsType
  DEF BrokenPipe, net, receiverVars, Counts, IInv, TypeOK, Headers, Serving,
      Waiting
<1>8. Counted'
  BY ConstantsType
  DEF BrokenPipe, net, receiverVars, Counts, IInv, TypeOK, Counted, Serving,
      Headers, Waiting
<1>9. ReadOut'
  BY ConstantsType
  DEF BrokenPipe, net, receiverVars, Counts, Ended, IInv, TypeOK, ReadOut,
      Serving
<1>10. Truthful'
  BY ConstantsType
  DEF BrokenPipe, net, receiverVars, Nothing, Counts, IInv, TypeOK, Truthful,
      Serving
<1>11. Empty'
  BY ConstantsType
  DEF BrokenPipe, net, receiverVars, Counts, IInv, TypeOK, Empty, Serving
<1> QED BY <1>1, <1>2, <1>3, <1>4, <1>5, <1>6, <1>7, <1>8, <1>9, <1>10, <1>11 DEF IInv

LEMMA ConnectFailsKeeps ==
  ASSUME IInv, NEW t \in Transmitters, ConnectFails(t)
  PROVE  IInv'
<1>1. TypeOK'
  BY ConstantsType DEF ConnectFails, net, receiverVars, Counts, IInv, TypeOK
<1>2. NoByteLost'
  BY ConstantsType
  DEF ConnectFails, net, receiverVars, Counts, IInv, TypeOK, NoByteLost, Serving,
      Conserved, Waiting
<1>3. OwnResults'
  BY ConstantsType
  DEF ConnectFails, net, receiverVars, Nothing, Counts, IInv, TypeOK, OwnResults,
      Truthful, Conserved, Serving
<1>4. Serving'
  BY ConstantsType
  DEF ConnectFails, net, receiverVars, Counts, IInv, TypeOK, Serving, Waiting
<1>5. Conserved'
  BY ConstantsType
  DEF ConnectFails, net, receiverVars, Counts, IInv, TypeOK, Conserved, Waiting
<1>6. Unanswered'
  BY ConstantsType
  DEF ConnectFails, net, receiverVars, Nothing, Counts, IInv, TypeOK, Unanswered,
      Serving, Waiting
<1>7. Headers'
  BY ConstantsType
  DEF ConnectFails, net, receiverVars, Counts, IInv, TypeOK, Headers, Serving, Waiting
<1>8. Counted'
  BY ConstantsType
  DEF ConnectFails, net, receiverVars, Counts, IInv, TypeOK, Counted, Serving, Headers,
      Waiting
<1>9. ReadOut'
  BY ConstantsType
  DEF ConnectFails, net, receiverVars, Counts, Ended, IInv, TypeOK, ReadOut, Serving
<1>10. Truthful'
  BY ConstantsType
  DEF ConnectFails, net, receiverVars, Nothing, Counts, IInv, TypeOK, Truthful, Serving
<1>11. Empty'
  BY ConstantsType
  DEF ConnectFails, net, receiverVars, Counts, IInv, TypeOK, Empty, Serving
<1> QED BY <1>1, <1>2, <1>3, <1>4, <1>5, <1>6, <1>7, <1>8, <1>9, <1>10, <1>11 DEF IInv

LEMMA DieKeeps ==
  ASSUME IInv, NEW t \in Transmitters, Die(t)
  PROVE  IInv'
<1>1. TypeOK'
  BY ConstantsType DEF Die, net, receiverVars, Counts, IInv, TypeOK
<1>2. NoByteLost'
  BY ConstantsType
  DEF Die, net, receiverVars, Counts, IInv, TypeOK, NoByteLost, Serving,
      Conserved, Waiting
<1>3. OwnResults'
  BY ConstantsType
  DEF Die, net, receiverVars, Nothing, Counts, IInv, TypeOK, OwnResults,
      Truthful, Conserved, Serving
<1>4. Serving'
  BY ConstantsType
  DEF Die, net, receiverVars, Counts, IInv, TypeOK, Serving, Waiting
<1>5. Conserved'
  BY ConstantsType
  DEF Die, net, receiverVars, Counts, IInv, TypeOK, Conserved, Waiting
<1>6. Unanswered'
  BY ConstantsType
  DEF Die, net, receiverVars, Nothing, Counts, IInv, TypeOK, Unanswered,
      Serving, Waiting
<1>7. Headers'
  BY ConstantsType
  DEF Die, net, receiverVars, Counts, IInv, TypeOK, Headers, Serving, Waiting
<1>8. Counted'
  BY ConstantsType
  DEF Die, net, receiverVars, Counts, IInv, TypeOK, Counted, Serving, Headers,
      Waiting
<1>9. ReadOut'
  BY ConstantsType
  DEF Die, net, receiverVars, Counts, Ended, IInv, TypeOK, ReadOut, Serving
<1>10. Truthful'
  BY ConstantsType
  DEF Die, net, receiverVars, Nothing, Counts, IInv, TypeOK, Truthful, Serving
<1>11. Empty'
  BY ConstantsType
  DEF Die, net, receiverVars, Counts, IInv, TypeOK, Empty, Serving
<1> QED BY <1>1, <1>2, <1>3, <1>4, <1>5, <1>6, <1>7, <1>8, <1>9, <1>10, <1>11 DEF IInv

LEMMA ListenKeeps ==
  ASSUME IInv, Listen
  PROVE  IInv'
<1>1. TypeOK'
  BY ConstantsType DEF Listen, transmitterVars, net, Counts, IInv, TypeOK
<1>2. NoByteLost'
  BY ConstantsType
  DEF Listen, transmitterVars, net, Counts, IInv, TypeOK, NoByteLost, Serving,
      Conserved, Waiting
<1>3. OwnResults'
  BY ConstantsType
  DEF Listen, transmitterVars, net, Nothing, Counts, IInv, TypeOK, OwnResults,
      Truthful, Conserved, Serving
<1>4. Serving'
  BY ConstantsType
  DEF Listen, transmitterVars, net, Counts, IInv, TypeOK, Serving, Waiting
<1>5. Conserved'
  BY ConstantsType
  DEF Listen, transmitterVars, net, Counts, IInv, TypeOK, Conserved, Waiting
<1>6. Unanswered'
  BY ConstantsType
  DEF Listen, transmitterVars, net, Nothing, Counts, IInv, TypeOK, Unanswered,
      Serving, Waiting
<1>7. Headers'
  BY ConstantsType
  DEF Listen, transmitterVars, net, Counts, IInv, TypeOK, Headers, Serving,
      Waiting
<1>8. Counted'
  BY ConstantsType
  DEF Listen, transmitterVars, net, Counts, IInv, TypeOK, Counted, Serving,
      Headers, Waiting
<1>9. ReadOut'
  BY ConstantsType
  DEF Listen, transmitterVars, net, Counts, Ended, IInv, TypeOK, ReadOut,
      Serving
<1>10. Truthful'
  BY ConstantsType
  DEF Listen, transmitterVars, net, Nothing, Counts, IInv, TypeOK, Truthful,
      Serving
<1>11. Empty'
  BY ConstantsType
  DEF Listen, transmitterVars, net, Counts, IInv, TypeOK, Empty, Serving
<1> QED BY <1>1, <1>2, <1>3, <1>4, <1>5, <1>6, <1>7, <1>8, <1>9, <1>10, <1>11 DEF IInv

LEMMA AcceptKeeps ==
  ASSUME IInv, Accept
  PROVE  IInv'
<1>a. PICK t \in backlog : sd' = t /\ backlog' = backlog \ {t}
  BY DEF Accept
<1>1. TypeOK'
  BY ConstantsType DEF Accept, transmitterVars, Counts, IInv, TypeOK, Fresh
<1>2. NoByteLost'
  <2>1. written[t] = stream[t] /\ written[t] \in Nat
    BY <1>a, ConstantsType DEF IInv, TypeOK, Conserved, Waiting
  <2>2. pos = 0 /\ totalBytes' = 0 /\ pos' = pos /\ written' = written /\ stream' = stream
    BY DEF Accept, Fresh, transmitterVars, IInv, Empty
  <2> QED BY <1>a, <2>1, <2>2 DEF NoByteLost
<1>3. OwnResults'
  BY ConstantsType
  DEF Accept, transmitterVars, Nothing, Counts, IInv, TypeOK, OwnResults,
      Truthful, Conserved, Serving, Fresh
<1>4. Serving'
  BY ConstantsType
  DEF Accept, transmitterVars, Counts, IInv, TypeOK, Serving, Waiting, Fresh
<1>5. Conserved'
  BY ConstantsType
  DEF Accept, transmitterVars, Counts, IInv, TypeOK, Conserved, Waiting, Fresh
<1>6. Unanswered'
  BY ConstantsType
  DEF Accept, transmitterVars, Nothing, Counts, IInv, TypeOK, Unanswered,
      Serving, Waiting, Fresh
<1>7. Headers'
  BY ConstantsType
  DEF Accept, transmitterVars, Counts, IInv, TypeOK, Headers, Serving, Waiting,
      Fresh
<1>8. Counted'
  BY ConstantsType
  DEF Accept, transmitterVars, Counts, IInv, TypeOK, Counted, Serving, Headers,
      Waiting, Fresh
<1>9. ReadOut'
  BY ConstantsType
  DEF Accept, transmitterVars, Counts, Ended, IInv, TypeOK, ReadOut, Serving,
      Fresh
<1>10. Truthful'
  BY ConstantsType
  DEF Accept, transmitterVars, Nothing, Counts, IInv, TypeOK, Truthful, Serving,
      Fresh
<1>11. Empty'
  BY ConstantsType
  DEF Accept, transmitterVars, Counts, IInv, TypeOK, Empty, Serving, Fresh
<1> QED BY <1>1, <1>2, <1>3, <1>4, <1>5, <1>6, <1>7, <1>8, <1>9, <1>10, <1>11 DEF IInv

LEMMA ReadHeaderKeeps ==
  ASSUME IInv, ReadHeader
  PROVE  IInv'
<1>1. TypeOK'
  BY ConstantsType DEF ReadHeader, transmitterVars, IInv, TypeOK, Serving, Empty
<1>2. NoByteLost'
  BY ConstantsType
  DEF ReadHeader, transmitterVars, Counts, Ended, IInv, TypeOK, NoByteLost,
      Serving, Conserved, Waiting
<1>3. OwnResults'
  BY ConstantsType
  DEF ReadHeader, transmitterVars, Nothing, Counts, Ended, IInv, TypeOK,
      OwnResults, Truthful, Conserved, Serving
<1>4. Serving'
  BY ConstantsType
  DEF ReadHeader, transmitterVars, Counts, Ended, IInv, TypeOK, Serving, Waiting
<1>5. Conserved'
  BY ConstantsType
  DEF ReadHeader, transmitterVars, Counts, Ended, IInv, TypeOK, Conserved,
      Waiting
<1>6. Unanswered'
  BY ConstantsType
  DEF ReadHeader, transmitterVars, Nothing, Counts, Ended, IInv, TypeOK,
      Unanswered, Serving, Waiting
<1>7. Headers'
  BY ConstantsType
  DEF ReadHeader, transmitterVars, Counts, Ended, IInv, TypeOK, Headers,
      Serving, Waiting
<1>8. Counted'
  <2>1. sd \in Transmitters /\ rBuflen' \in Nat
    BY ConstantsType DEF ReadHeader, IInv, TypeOK, Serving
  <2>2. totalBytes' = 0 /\ pos' = 0 /\ iocalls' = 0 /\ sd' = sd
    BY DEF ReadHeader, IInv, Empty
  <2>3. 0 * rBuflen' = 0
    BY <2>1, ProductZero
  <2>4. tpc[sd] = "dead" \/ (tpc[sd] # "header" /\ rBuflen' = buflen[sd])
    BY <2>1 DEF ReadHeader, Ended, IInv, TypeOK, Headers
  <2> QED BY <2>2, <2>3, <2>4 DEF ReadHeader, transmitterVars, Counted
<1>9. ReadOut'
  BY ConstantsType
  DEF ReadHeader, transmitterVars, Counts, Ended, IInv, TypeOK, ReadOut, Serving
<1>10. Truthful'
  BY ConstantsType
  DEF ReadHeader, transmitterVars, Nothing, Counts, Ended, IInv, TypeOK,
      Truthful, Serving
<1>11. Empty'
  BY ConstantsType
  DEF ReadHeader, transmitterVars, Counts, Ended, IInv, TypeOK, Empty, Serving
<1> QED BY <1>1, <1>2, <1>3, <1>4, <1>5, <1>6, <1>7, <1>8, <1>9, <1>10, <1>11 DEF IInv

LEMMA AllReadKeeps ==
  ASSUME IInv, AllRead
  PROVE  IInv'
<1>a. /\ sd \in Transmitters /\ pos \in Nat /\ rBuflen \in Nat /\ pos <= rBuflen
      /\ rBuflen > 0 /\ totalBytes \in Nat /\ iocalls \in Nat
      /\ stream[sd] \in 0 .. Capacity /\ written[sd] \in Nat
  BY ConstantsType DEF AllRead, IInv, TypeOK, Serving
<1>b. PICK n \in Returned(stream[sd], rBuflen - pos) :
        /\ stream' = [stream EXCEPT ![sd] = @ - n]
        /\ IF n > 0 /\ pos + n < rBuflen
             THEN /\ pos' = pos + n
                  /\ UNCHANGED <<totalBytes, rpc>>
             ELSE /\ pos' = 0
                  /\ totalBytes' = totalBytes + pos + n
                  /\ rpc' = IF pos + n < rBuflen THEN "results" ELSE "read"
  BY DEF AllRead, LastBuffer
<1>c. /\ n \in Nat /\ n <= rBuflen - pos /\ n <= stream[sd]
      /\ stream[sd] - n \in 0 .. Capacity
      /\ n = 0 <=> stream[sd] = 0
  BY <1>a, <1>b, ReturnedType
<1>d. /\ iocalls' = iocalls + 1
      /\ rpc = "read"
      /\ stream[sd] > 0 \/ Ended(sd)
      /\ UNCHANGED <<transmitterVars, backlog, header, results, sd, rBuflen>>
  BY DEF AllRead, Ready
<1>e. totalBytes' + pos' = totalBytes + pos + n
  BY <1>a, <1>b, <1>c
<1>1. TypeOK'
  BY <1>a, <1>b, <1>c, <1>d, ConstantsType DEF transmitterVars, IInv, TypeOK
<1>2. NoByteLost'
  BY <1>a, <1>b, <1>c, <1>d, <1>e DEF transmitterVars, IInv, TypeOK, NoByteLost
<1>3. OwnResults'
  BY ConstantsType
  DEF AllRead, transmitterVars, Nothing, Counts, Ended, IInv, TypeOK,
      OwnResults, Truthful, Conserved, Serving, LastBuffer
<1>4. Serving'
  BY ConstantsType
  DEF AllRead, transmitterVars, Counts, Ended, IInv, TypeOK, Serving, Waiting,
      LastBuffer
<1>5. Conserved'
  BY <1>a, <1>b, <1>c, <1>d
  DEF transmitterVars, IInv, TypeOK, Conserved, Serving, Waiting
<1>6. Unanswered'
  BY ConstantsType
  DEF AllRead, transmitterVars, Nothing, Counts, Ended, IInv, TypeOK,
      Unanswered, Serving, Waiting, LastBuffer
<1>7. Headers'
  BY ConstantsType
  DEF AllRead, transmitterVars, Counts, Ended, IInv, TypeOK, Headers, Serving,
      Waiting, LastBuffer
<1>8. Counted'
  <2>1. iocalls * rBuflen \in Nat /\ iocalls' * rBuflen = iocalls * rBuflen + rBuflen
    BY <1>a, <1>d, ProductType
  <2>2. totalBytes + pos + n <= iocalls' * rBuflen
    BY <1>a, <1>c, <1>d, <2>1 DEF IInv, Counted
  <2> QED BY <1>d, <1>e, <2>2 DEF transmitterVars, IInv, Counted
<1>9. ReadOut'
  <2> SUFFICES ASSUME rpc' = "results" PROVE ReadOut'
    BY DEF ReadOut
  <2>1. n = 0 /\ pos' = 0 /\ totalBytes' = totalBytes + pos
    BY <1>a, <1>b, <1>c, <1>d
  <2>2. stream'[sd] = 0 /\ Ended(sd)
    BY <1>a, <1>b, <1>c, <1>d, <2>1 DEF IInv, TypeOK
  <2>3. totalBytes' <= (iocalls' - 1) * rBuflen
    BY <1>a, <1>d, <2>1 DEF IInv, Counted
  <2> QED BY <1>a, <1>d, <2>1, <2>2, <2>3 DEF transmitterVars, Ended, ReadOut
<1>10. Truthful'
  BY ConstantsType
  DEF AllRead, transmitterVars, Nothing, Counts, Ended, IInv, TypeOK, Truthful,
      Serving, LastBuffer
<1>11. Empty'
  BY ConstantsType
  DEF AllRead, transmitterVars, Counts, Ended, IInv, TypeOK, Empty, Serving,
      LastBuffer
<1> QED BY <1>1, <1>2, <1>3, <1>4, <1>5, <1>6, <1>7, <1>8, <1>9, <1>10, <1>11 DEF IInv

LEMMA SendResultsKeeps ==
  ASSUME IInv, SendResults
  PROVE  IInv'
<1>1. TypeOK'
  <2>1. results' \in [Transmitters -> Counts]
    <3>1. [bytes |-> totalBytes, calls |-> iocalls] \in Counts
      BY DEF Counts, IInv, TypeOK
    <3> QED BY <3>1 DEF SendResults, IInv, TypeOK
  <2>2. rpc' \in {"accept", "dead"} /\ sd' = Receiver
    BY DEF SendResults
  <2> QED BY <2>1, <2>2 DEF SendResults, transmitterVars, IInv, TypeOK
<1>2. NoByteLost'
  BY ConstantsType
  DEF SendResults, transmitterVars, Counts, IInv, TypeOK, NoByteLost, Serving,
      Conserved, Waiting
<1>3. OwnResults'
  BY ConstantsType
  DEF SendResults, transmitterVars, Nothing, Counts, IInv, TypeOK, OwnResults,
      Truthful, Conserved, Serving
<1>4. Serving'
  BY ConstantsType
  DEF SendResults, transmitterVars, Counts, IInv, TypeOK, Serving, Waiting
<1>5. Conserved'
  BY ConstantsType
  DEF SendResults, transmitterVars, Counts, IInv, TypeOK, Conserved, Waiting
<1>6. Unanswered'
  BY ConstantsType
  DEF SendResults, transmitterVars, Nothing, Counts, IInv, TypeOK, Unanswered,
      Serving, Waiting
<1>7. Headers'
  BY ConstantsType
  DEF SendResults, transmitterVars, Counts, IInv, TypeOK, Headers, Serving,
      Waiting
<1>8. Counted'
  BY ConstantsType
  DEF SendResults, transmitterVars, Counts, IInv, TypeOK, Counted, Serving,
      Headers, Waiting
<1>9. ReadOut'
  BY ConstantsType
  DEF SendResults, transmitterVars, Counts, Ended, IInv, TypeOK, ReadOut,
      Serving
<1>10. Truthful'
  <2>1. CASE tpc[sd] = "dead"
    BY <2>1 DEF SendResults, transmitterVars, Nothing, IInv, TypeOK, Truthful
  <2>2. CASE tpc[sd] # "dead"
    <3>1. /\ rpc = "results" /\ sd \in Transmitters
          /\ written[sd] \in Nat /\ totalBytes \in Nat /\ iocalls \in Nat
      BY DEF SendResults, IInv, TypeOK, Serving
    <3>2. tpc[sd] \in {"results", "done"} /\ written[sd] = NBUF * buflen[sd]
      BY <2>2, <3>1 DEF Ended, IInv, ReadOut, Conserved
    <3>3. totalBytes = written[sd] /\ rBuflen = buflen[sd] /\ rBuflen \in Nat
      BY <2>2, <3>1, ConstantsType DEF IInv, TypeOK, NoByteLost, ReadOut, Counted
    <3>4. iocalls - 1 \in Nat /\ rBuflen > 0 /\ NBUF * rBuflen <= (iocalls - 1) * rBuflen
      BY <3>1, <3>2, <3>3 DEF IInv, ReadOut
    <3>5. NBUF <= iocalls - 1
      BY <3>3, <3>4, ProductOrder, ConstantsType
    <3>6. results' = [results EXCEPT ![sd] = [bytes |-> totalBytes, calls |-> iocalls]]
      BY <2>2 DEF SendResults
    <3> QED BY <3>1, <3>2, <3>3, <3>5, <3>6, ConstantsType
            DEF SendResults, transmitterVars, IInv, TypeOK, Truthful
  <2> QED BY <2>1, <2>2
<1>11. Empty'
  BY DEF SendResults, IInv, ReadOut, Empty
<1> QED BY <1>1, <1>2, <1>3, <1>4, <1>5, <1>6, <1>7, <1>8, <1>9, <1>10, <1>11 DEF IInv

LEMMA DieReceiverKeeps ==
  ASSUME IInv, DieReceiver
  PROVE  IInv'
<1>1. TypeOK'
  BY ConstantsType DEF DieReceiver, transmitterVars, net, Counts, IInv, TypeOK
<1>2. NoByteLost'
  BY ConstantsType
  DEF DieReceiver, transmitterVars, net, Counts, IInv, TypeOK, NoByteLost,
      Serving, Conserved, Waiting
<1>3. OwnResults'
  BY ConstantsType
  DEF DieReceiver, transmitterVars, net, Nothing, Counts, IInv, TypeOK,
      OwnResults, Truthful, Conserved, Serving
<1>4. Serving'
  BY ConstantsType
  DEF DieReceiver, transmitterVars, net, Counts, IInv, TypeOK, Serving, Waiting
<1>5. Conserved'
  BY ConstantsType
  DEF DieReceiver, transmitterVars, net, Counts, IInv, TypeOK, Conserved,
      Waiting
<1>6. Unanswered'
  BY ConstantsType
  DEF DieReceiver, transmitterVars, net, Nothing, Counts, IInv, TypeOK,
      Unanswered, Serving, Waiting
<1>7. Headers'
  BY ConstantsType
  DEF DieReceiver, transmitterVars, net, Counts, IInv, TypeOK, Headers, Serving,
      Waiting
<1>8. Counted'
  BY ConstantsType
  DEF DieReceiver, transmitterVars, net, Counts, IInv, TypeOK, Counted, Serving,
      Headers, Waiting
<1>9. ReadOut'
  BY ConstantsType
  DEF DieReceiver, transmitterVars, net, Counts, Ended, IInv, TypeOK, ReadOut,
      Serving
<1>10. Truthful'
  BY ConstantsType
  DEF DieReceiver, transmitterVars, net, Nothing, Counts, IInv, TypeOK,
      Truthful, Serving
<1>11. Empty'
  BY ConstantsType
  DEF DieReceiver, transmitterVars, net, Counts, IInv, TypeOK, Empty, Serving
<1> QED BY <1>1, <1>2, <1>3, <1>4, <1>5, <1>6, <1>7, <1>8, <1>9, <1>10, <1>11 DEF IInv

LEMMA InitInvariant == Init => IInv
<1> SUFFICES ASSUME Init PROVE IInv
  OBVIOUS
<1>1. \A t \in Transmitters : 0 <= NBUF * buflen[t]
  <2> TAKE t \in Transmitters
  <2>1. NBUF \in Nat /\ buflen[t] \in Nat
    BY ConstantsType DEF Init
  <2>2. NBUF * buflen[t] \in Nat
    BY <2>1, ProductType
  <2> QED BY <2>2
<1>2. TypeOK
  BY <1>1, ConstantsType DEF Init, TypeOK, Nothing, Counts
<1>3. /\ NoByteLost /\ OwnResults /\ Serving /\ Conserved /\ Unanswered
      /\ Headers /\ Empty /\ Counted /\ ReadOut /\ Truthful
  BY ConstantsType
  DEF Init, NoByteLost, OwnResults, Serving, Conserved, Unanswered, Headers, Empty,
      Counted, ReadOut, Truthful, Waiting
<1> QED BY <1>2, <1>3 DEF IInv

(* Every step keeps the invariant. *)
LEMMA StepKeeps == IInv /\ [Next]_vars => IInv'
<1> SUFFICES ASSUME IInv, [Next]_vars PROVE IInv'
  OBVIOUS
<1>1. ASSUME NEW t \in Transmitters, Transmit(t) \/ ConnectFails(t) \/ Die(t) PROVE IInv'
  BY <1>1, ConnectKeeps, SendHeaderKeeps, AllWriteKeeps, ShutdownKeeps, ReadResultsKeeps, BrokenPipeKeeps,
     ConnectFailsKeeps, DieKeeps
  DEF Transmit
<1>2. CASE Receive
  <2>1. CASE Spin \/ UNCHANGED vars
    BY <2>1
    DEF Spin, vars, transmitterVars, net, receiverVars, IInv, TypeOK, NoByteLost,
        OwnResults, Serving, Conserved, Unanswered, Headers, Empty, Counted, ReadOut,
        Truthful, Waiting, Ended
  <2> QED BY <1>2, <2>1, ListenKeeps, AcceptKeeps, ReadHeaderKeeps, AllReadKeeps,
             SendResultsKeeps DEF Receive
<1>3. CASE DieReceiver
  BY <1>3, DieReceiverKeeps
<1>4. CASE Finished \/ UNCHANGED vars
  BY <1>4
  DEF Finished, vars, transmitterVars, net, receiverVars, IInv, TypeOK,
      NoByteLost, OwnResults, Serving, Conserved, Unanswered, Headers, Empty,
      Counted, ReadOut, Truthful, Waiting, Ended
<1> QED BY <1>1, <1>2, <1>3, <1>4 DEF Next

LEMMA Invariance == Spec => []IInv
  BY InitInvariant, StepKeeps, PTL DEF Spec

(* Every variable keeps its type, whoever is killed; in particular no      *)
(* transmitter writes more than NBUF buffers (ttcp.cpp:99-160).            *)
THEOREM TypeCorrect == Spec => []TypeOK
  BY Invariance, PTL DEF IInv

(* The receiver loses no byte and counts none for another transmission     *)
(* (ttcp.cpp:99-119, 165-185).                                             *)
THEOREM BytesCorrect == Spec => []NoByteLost
  BY Invariance, PTL DEF IInv

(* What a transmitter prints in the end is about its own transmission      *)
(* (ttcp.cpp:143-159, 179-190).                                            *)
THEOREM ResultsCorrect == Spec => []OwnResults
  BY Invariance, PTL DEF IInv

-----------------------------------------------------------------------------
(* A step that leaves alone what the abstract variables are made of.       *)
LEMMA Stutters ==
  ASSUME UNCHANGED <<tpc, written, stream, backlog, results, sd>>
  PROVE  UNCHANGED Transfer!vars
  BY DEF Transfer!vars, Received, Ended

(* One more transmitter that has ended, or the same ones. *)
LEMMA Ends ==
  ASSUME IInv, NEW t \in Transmitters, tpc[t] \notin {"connect", "failed"},
         NEW place \in {"results", "done", "dead"},
         tpc' = [tpc EXCEPT ![t] = place],
         UNCHANGED <<written, stream, backlog, results, sd>>
  PROVE  Transfer!End(t)
  BY DEF Transfer!End, Received, Ended, IInv, TypeOK

(* Every step of a transmitter is one of the counted transfer. *)
LEMMA TransmitterImplements ==
  ASSUME IInv, NEW t \in Transmitters, Transmit(t) \/ ConnectFails(t) \/ Die(t)
  PROVE  [Transfer!Next]_(Transfer!vars)
<1>1. CASE Connect(t)
  BY <1>1
  DEF Connect, receiverVars, Transfer!vars, Received, Ended, IInv, TypeOK, Serving
<1>2. CASE SendHeader(t)
  BY <1>2
  DEF SendHeader, receiverVars, Transfer!vars, Received, Ended, IInv, TypeOK
<1>3. CASE AllWrite(t)
  <2>1. PICK n \in Nat \ {0} :
          /\ stream' = [stream EXCEPT ![t] = @ + n]
          /\ written' = [written EXCEPT ![t] = @ + n]
    BY <1>3, AllWriteTakes
  <2>2. Received' = Received
    BY <2>1 DEF Received, IInv, TypeOK
  <2>3. Transfer!Grows(written, written', t)
    BY <2>1 DEF Transfer!Grows, IInv, TypeOK
  <2>4. Transfer!Send(t)
    BY <1>3, <2>2, <2>3 DEF AllWrite, receiverVars, Transfer!Send, Ended
  <2> QED BY <2>4 DEF Transfer!Next
<1>4. CASE Shutdown(t) \/ BrokenPipe(t) \/ Die(t) \/ ReadResults(t)
  <2>1. Transfer!End(t)
    BY <1>4, Ends DEF Shutdown, BrokenPipe, Die, ReadResults, net, receiverVars
  <2> QED BY <2>1 DEF Transfer!Next
<1>5. CASE ConnectFails(t)
  BY <1>5
  DEF ConnectFails, net, receiverVars, Transfer!vars, Received, Ended, IInv, TypeOK
<1> QED BY <1>1, <1>2, <1>3, <1>4, <1>5 DEF Transmit

(* Every step of the receiver is one of the counted transfer. *)
LEMMA ReceiverImplements ==
  ASSUME IInv, Receive \/ DieReceiver
  PROVE  [Transfer!Next]_(Transfer!vars)
<1>1. CASE Listen \/ Spin
  BY <1>1, Stutters DEF Listen, Spin, vars, transmitterVars, net, receiverVars
<1>2. CASE Accept
  <2>1. PICK t \in backlog : sd' = t /\ backlog' = backlog \ {t}
    BY <1>2 DEF Accept
  <2>2. t \in Transmitters /\ tpc[t] \notin {"connect", "failed"} /\ sd = Receiver
    BY <1>2, <2>1 DEF Accept, IInv, TypeOK, Serving
  <2>3. Transfer!Take(t)
    BY <1>2, <2>1, <2>2
    DEF Accept, transmitterVars, Transfer!Take, Received, Ended
  <2> QED BY <2>2, <2>3 DEF Transfer!Next
<1>3. CASE ReadHeader
  BY <1>3, Stutters DEF ReadHeader, transmitterVars
<1>4. CASE AllRead
  <2>1. sd \in Transmitters /\ rBuflen - pos \in Nat /\ stream[sd] \in 0 .. Capacity
    BY <1>4, ConstantsType DEF AllRead, IInv, TypeOK, Serving
  <2>2. PICK n \in Returned(stream[sd], rBuflen - pos) :
          stream' = [stream EXCEPT ![sd] = @ - n]
    BY <1>4 DEF AllRead
  <2>3. n \in Nat /\ n <= stream[sd]
    BY <2>1, <2>2, ReturnedType
  <2>4. UNCHANGED <<tpc, written, backlog, results, sd>>
    BY <1>4 DEF AllRead, transmitterVars
  <2>5. CASE n = 0
    BY <2>1, <2>2, <2>4, <2>5, Stutters DEF IInv, TypeOK
  <2>6. CASE n > 0
    <3>1. stream' \in [Transmitters -> Nat] /\ stream'[sd] = stream[sd] - n
      BY <2>1, <2>2, <2>3 DEF IInv, TypeOK
    <3>2. \A t \in Transmitters : written[t] - stream'[t] \in Nat
      BY <2>1, <2>2, <2>3, <3>1 DEF IInv, TypeOK, Conserved
    <3>3. Received' \in [Transmitters -> Nat]
      BY <2>4, <3>2 DEF Received
    <3>4. Received' = [Received EXCEPT ![sd] = Received'[sd]]
      BY <2>1, <2>2, <2>4 DEF Received, IInv, TypeOK
    <3>5. Received'[sd] > Received[sd] /\ Received'[sd] <= written[sd]
      BY <2>1, <2>3, <2>4, <2>6, <3>1 DEF Received, IInv, TypeOK, Conserved
    <3>6. Transfer!Receive(sd)
      BY <2>4, <3>3, <3>4, <3>5 DEF Transfer!Receive, Transfer!Grows, Ended
    <3> QED BY <2>1, <3>6 DEF Transfer!Next
  <2> QED BY <2>3, <2>5, <2>6
<1>5. CASE SendResults
  <2>1. sd \in Transmitters /\ sd' = Receiver /\ UNCHANGED <<tpc, written, backlog, stream>>
    BY <1>5 DEF SendResults, transmitterVars, IInv, TypeOK, Serving
  <2>2. CASE UNCHANGED results
    <3>1. Transfer!Abandon(sd)
      BY <2>1, <2>2 DEF Transfer!Abandon, Received, Ended
    <3> QED BY <2>1, <3>1 DEF Transfer!Next
  <2>3. CASE results' = [results EXCEPT ![sd] = [bytes |-> totalBytes, calls |-> iocalls]]
    <3>1. PICK t \in Transmitters : t = sd
      BY <2>1
    <3>2. Ended(t) /\ Received[t] = written[t] /\ totalBytes = written[t]
      BY <1>5, <2>1, <3>1 DEF SendResults, Received, IInv, TypeOK, NoByteLost, ReadOut
    <3>3. [u \in Transmitters |-> results'[u].bytes] =
          [[u \in Transmitters |-> results[u].bytes] EXCEPT ![t] = written[t]]
      BY <2>1, <2>3, <3>1, <3>2 DEF IInv, TypeOK, Counts
    <3>4. t \in {u \in Transmitters : Ended(u)} /\ UNCHANGED Received
      BY <2>1, <3>2 DEF Received
    <3>5. UNCHANGED <<{u \in Transmitters : Ended(u)},
                      {u \in Transmitters : tpc[u] \notin {"connect", "failed"}} \ backlog>>
      BY <2>1 DEF Ended
    <3>6. Transfer!Answer(t)
      BY <2>1, <3>1, <3>2, <3>3, <3>4, <3>5 DEF Transfer!Answer
    <3> QED BY <3>6 DEF Transfer!Next
  <2> QED BY <1>5, <2>2, <2>3 DEF SendResults
<1>6. CASE DieReceiver
  <2>1. UNCHANGED <<tpc, written, backlog, stream, results>> /\ sd' = Receiver
    BY <1>6 DEF DieReceiver, transmitterVars, net
  <2>2. CASE sd = Receiver
    BY <2>1, <2>2, Stutters
  <2>3. CASE sd \in Transmitters
    <3>1. Transfer!Abandon(sd)
      BY <2>1, <2>3 DEF Transfer!Abandon, Received, Ended
    <3> QED BY <2>3, <3>1 DEF Transfer!Next
  <2> QED BY <2>2, <2>3 DEF IInv, TypeOK
<1> QED BY <1>1, <1>2, <1>3, <1>4, <1>5, <1>6 DEF Receive

(* Whatever TCP makes of the writes and reads and whoever is killed, whole *)
(* transmissions are received one after the other, and whoever is told a   *)
(* count is told the bytes it has sent (ttcp.cpp:121-193).                 *)
THEOREM TransferImplemented == Spec => ImplementsCountedTransfer
<1>1. Init => Transfer!Init
  BY DEF Init, Transfer!Init, Received, Ended, Nothing
<1>2. IInv /\ [Next]_vars => [Transfer!Next]_(Transfer!vars)
  <2> SUFFICES ASSUME IInv, [Next]_vars PROVE [Transfer!Next]_(Transfer!vars)
    OBVIOUS
  <2>1. CASE Finished \/ UNCHANGED vars
    BY <2>1, Stutters DEF Finished, vars, transmitterVars, net, receiverVars
  <2> QED BY <2>1, TransmitterImplements, ReceiverImplements DEF Next
<1> QED BY <1>1, <1>2, Invariance, PTL
        DEF Spec, ImplementsCountedTransfer, Transfer!Spec

-----------------------------------------------------------------------------
(* Nobody waits for ever.                                                  *)

(* Who has been served has ended, and been answered while the receiver     *)
(* lived.                                                                  *)
Answered ==
  \A t \in Transmitters :
    ~Waiting(t) /\ t # sd /\ rpc # "dead" => Ended(t) /\ results[t] # Nothing

LEMMA TransmitterAnswered ==
  ASSUME IInv, Answered, NEW t \in Transmitters, Transmit(t) \/ ConnectFails(t) \/ Die(t)
  PROVE  Answered'
<1>1. UNCHANGED <<sd, rpc, results>>
  BY DEF Transmit, Connect, SendHeader, AllWrite, Shutdown, ReadResults, BrokenPipe,
         ConnectFails, Die, net, receiverVars
<1>2. ASSUME NEW u \in Transmitters, u # sd, rpc # "dead"
      PROVE  Waiting(u)' \/ (~Waiting(u) /\ (Ended(u) => Ended(u)'))
  BY <1>2
  DEF IInv, TypeOK, Waiting, Ended, Transmit, Connect, SendHeader, AllWrite, Shutdown,
      ReadResults, BrokenPipe, ConnectFails, Die, net
<1> QED BY <1>1, <1>2 DEF Answered

LEMMA ReceiverAnswered ==
  ASSUME IInv, Answered, Receive \/ DieReceiver
  PROVE  Answered'
<1>1. CASE SendResults
  <2>1. sd \in Transmitters /\ results \in [Transmitters -> Counts]
    BY <1>1, ConstantsType DEF SendResults, IInv, TypeOK, Serving
  <2>2. CASE rpc' = "dead"
    BY <2>2 DEF Answered
  <2>3. CASE results' = [results EXCEPT ![sd] = [bytes |-> totalBytes, calls |-> iocalls]]
    <3>1. results'[sd] # Nothing
      BY <1>1, <2>1, <2>3 DEF SendResults, IInv, TypeOK, ReadOut, Nothing
    <3>2. Ended(sd)
      BY <1>1 DEF SendResults, IInv, ReadOut
    <3> QED
      BY <1>1, <2>1, <2>3, <3>1, <3>2
      DEF SendResults, Answered, Waiting, Ended, transmitterVars
  <2> QED BY <1>1, <2>2, <2>3 DEF SendResults
<1>2. CASE Accept
  BY <1>2, ConstantsType
  DEF Accept, Answered, Waiting, Ended, transmitterVars, IInv, TypeOK, Serving
<1>3. CASE Listen \/ ReadHeader \/ AllRead \/ Spin \/ DieReceiver
  BY <1>3
  DEF Listen, ReadHeader, AllRead, Spin, DieReceiver, Answered, Waiting, Ended,
      transmitterVars, net, vars, receiverVars
<1> QED BY <1>1, <1>2, <1>3 DEF Receive

LEMMA StepAnswered == IInv /\ Answered /\ [Next]_vars => Answered'
<1> SUFFICES ASSUME IInv, Answered, [Next]_vars PROVE Answered'
  OBVIOUS
<1>1. CASE Finished \/ UNCHANGED vars
  BY <1>1
  DEF Finished, vars, transmitterVars, net, receiverVars, Answered, Waiting, Ended
<1> QED BY <1>1, TransmitterAnswered, ReceiverAnswered DEF Next

(* The transmitter being served has sent its header or has still to, and   *)
(* if nothing of it is under way there is room.                            *)
LEMMA ServedGoesOn ==
  ASSUME IInv, rpc \in {"header", "read"}
  PROVE  ReceiverGoesOn \/ TransmitterGoesOn(sd)
<1>1. sd \in Transmitters /\ stream[sd] \in 0 .. Capacity /\ rBuflen \in Nat
  BY ConstantsType DEF IInv, TypeOK, Serving
<1>2. tpc[sd] \in {"connect", "header", "write"} \/ Ended(sd)
  BY <1>1 DEF IInv, TypeOK, Ended, Serving, Waiting
<1>3. CASE tpc[sd] \in {"connect", "header"}
  BY <1>3 DEF TransmitterGoesOn, Listening
<1>4. CASE rpc = "header" /\ (tpc[sd] = "write" \/ Ended(sd))
  BY <1>1, <1>4 DEF IInv, Headers, Ended, ReceiverGoesOn
<1>5. CASE rpc = "read" /\ (stream[sd] > 0 \/ Ended(sd))
  BY <1>5 DEF ReceiverGoesOn, Ready
<1>6. CASE tpc[sd] = "write" /\ stream[sd] = 0
  BY <1>6, ConstantsType DEF TransmitterGoesOn
<1> QED BY <1>1, <1>2, <1>3, <1>4, <1>5, <1>6

LEMMA NeverStuckFollows == IInv /\ Answered => NeverStuck
<1> SUFFICES ASSUME IInv, Answered PROVE NeverStuck
  OBVIOUS
<1>1. ASSUME rpc = "accept", backlog = {}, NEW t \in Transmitters
      PROVE  tpc[t] \in {"done", "failed", "dead"} \/ TransmitterGoesOn(t)
  <2>1. t # sd
    BY <1>1, ConstantsType DEF IInv, Serving
  <2> QED
    BY <1>1, <2>1 DEF Answered, Waiting, Ended, TransmitterGoesOn, Listening
<1>2. ASSUME rpc = "dead", NEW t \in Transmitters
      PROVE  tpc[t] \in {"connect", "done", "failed", "dead"} \/ TransmitterGoesOn(t)
  BY <1>2 DEF IInv, TypeOK, TransmitterGoesOn
<1> QED BY <1>1, <1>2, ServedGoesOn DEF NeverStuck, ReceiverGoesOn

(* Whoever is killed, and however little the network holds, receiver and   *)
(* transmitter never wait for each other, and no transmitter is left       *)
(* without results while the receiver waits for another                    *)
(* (ttcp.cpp:121-193, Socket.cpp:58-63, 73-136).                           *)
THEOREM NeverStuckCorrect == Spec => []NeverStuck
<1>1. Init => Answered
  BY DEF Init, Answered, Waiting
<1>2. Spec => []Answered
  BY <1>1, StepAnswered, Invariance, PTL DEF Spec
<1> QED BY <1>2, Invariance, NeverStuckFollows, PTL

=============================================================================
