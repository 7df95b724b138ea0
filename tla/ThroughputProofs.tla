-------------------------- MODULE ThroughputProofs --------------------------
(***************************************************************************)
(* The throughput test, for any clients, sizes, repetitions and addresses, *)
(* any capacity of the network and whoever is killed: types, the bytes     *)
(* read, the count a served client ends with, and that client and server   *)
(* never wait for each other.                                              *)
(***************************************************************************)
EXTENDS Throughput, TLAPS

-----------------------------------------------------------------------------
(* That the count is sensible rests on what the server knows while it      *)
(* reads.                                                                  *)

(* The server serves the client it has accepted, and counts from zero.     *)
Serving ==
  /\ served = Nobody <=> spc \in {"start", "listen", "deaf"}
  /\ spc \in {"start", "listen", "deaf", "accepted"} =>
       reps = 0 /\ i = 0 /\ nRead = 0 /\ count = 0

(* It expects the repetitions that were announced, or none from a client   *)
(* that has gone.                                                          *)
Announced ==
  spc \in {"read", "spin", "done"} =>
    \/ reps = repetition[served]
    \/ reps = 0 /\ cpc[served] = "dead"

(* A repetition takes a read or more, and each but one at the end of the   *)
(* stream brings a byte.                                                   *)
Reads ==
  spc # "spin" => i <= count /\ count <= i * BUFSIZE + nRead

(* The count goes to a client that is there, after the last repetition,    *)
(* and nobody is done before.                                              *)
Replied ==
  /\ spc = "done" => i = reps /\ (reply \/ cpc[served] = "dead")
  /\ \A c \in Clients : cpc[c] = "done" => spc = "done"

IInv ==
  /\ TypeOK /\ NoByteLost /\ CountPlausible
  /\ Serving /\ Announced /\ Reads /\ Replied

-----------------------------------------------------------------------------
(* The numbers of bytes that go over a connection.                         *)

(* A write takes at least one byte, at most what it is given, and at most  *)
(* what there is room for.                                                 *)
LEMMA TakenType ==
  ASSUME NEW s \in 0 .. Capacity, NEW asked \in Nat, NEW n \in Taken(s, asked)
  PROVE  n \in Nat /\ n > 0 /\ n <= asked /\ s + n \in 0 .. Capacity
  BY StreamAssumption DEF Taken

(* A read returns what is there, at most what was asked for, and nothing   *)
(* only if nothing is there.                                               *)
LEMMA ReturnedType ==
  ASSUME NEW s \in 0 .. Capacity, NEW asked \in Nat, NEW n \in Returned(s, asked)
  PROVE  /\ n \in Nat /\ n <= asked /\ n <= s
         /\ s - n \in 0 .. Capacity
         /\ n = 0 <=> s = 0
  BY StreamAssumption DEF Returned

(* A product of natural numbers is one, and grows with its first factor by *)
(* the second.                                                             *)
LEMMA ProductType ==
  ASSUME NEW a \in Nat, NEW b \in Nat
  PROVE  a * b \in Nat /\ (a + 1) * b = a * b + b
  OBVIOUS

(* Nothing times something is nothing. *)
LEMMA ProductZero ==
  ASSUME NEW b \in Nat
  PROVE  0 * b = 0
<1>1. (0 + 1) * b = 0 * b + b /\ 0 * b \in Nat
  BY ProductType
<1>2. 0 + 1 = 1 /\ 1 * b = b
  OBVIOUS
<1> QED BY <1>1, <1>2

-----------------------------------------------------------------------------
LEMMA ConstantsType ==
  /\ Nobody \notin Clients
  /\ BUFSIZE \in Nat /\ BUFSIZE > 0
  /\ Sizes \subseteq Nat
  /\ MaxRepetitions \in Nat
  /\ Capacity \in Nat /\ Capacity > 0
<1>1. Nobody \notin Clients /\ BUFSIZE \in Nat \ {0} /\ Sizes \subseteq Nat
  BY ThroughputAssumption
<1>2. MaxRepetitions \in Nat
  BY ThroughputAssumption
<1> QED BY <1>1, <1>2, StreamAssumption

(* The numbers of a client. *)
LEMMA Numbers ==
  ASSUME TypeOK, NEW c \in Clients
  PROVE  /\ written[c] \in Nat /\ nreads[c] \in Nat
         /\ repetition[c] \in Nat /\ size[c] \in Nat
         /\ stream[c] \in 0 .. Capacity
<1>1. written[c] \in Nat /\ nreads[c] \in Nat /\ stream[c] \in 0 .. Capacity
  BY DEF TypeOK
<1>2. repetition[c] \in 0 .. MaxRepetitions /\ size[c] \in Sizes
  BY DEF TypeOK
<1>3. repetition[c] \in Nat
  BY <1>2, ConstantsType
<1>4. size[c] \in Nat
  BY <1>2, ConstantsType
<1> QED BY <1>1, <1>3, <1>4

LEMMA ReceivedType ==
  ASSUME TypeOK, NEW c \in Clients
  PROVE  Received(c) \in Nat
<1>1. i \in Nat /\ nRead \in Nat
  BY ConstantsType DEF TypeOK
<1>2. i * BUFSIZE \in Nat
  BY <1>1, ProductType, ConstantsType
<1> QED BY <1>1, <1>2 DEF Received

LEMMA ConnectKeeps ==
  ASSUME IInv, NEW c \in Clients, Connect(c)
  PROVE  IInv'
<1>1. TypeOK'
  <2>1. addresses' \in [Clients -> Seq(AddressKinds)]
    <3>1. addresses \in [Clients -> Seq(AddressKinds)]
      BY DEF IInv, TypeOK
    <3>2. CASE NextAddress(c)
      <4>1. Tail(addresses[c]) \in Seq(AddressKinds)
        BY <3>1, <3>2 DEF NextAddress
      <4> QED BY <3>1, <3>2, <4>1 DEF NextAddress
    <3>3. CASE UNCHANGED addresses
      BY <3>1, <3>3
    <3> QED BY <3>2, <3>3 DEF Connect, NoAddress, Refused, Unresolved, Connected
  <2>2. cpc' \in [Clients -> {"connect", "announce", "write", "count", "done", "failed", "dead"}]
    BY DEF Connect, NoAddress, NextAddress, Refused, Unresolved, Connected, Move, IInv, TypeOK
  <2>3. backlog' \subseteq Clients
    BY DEF Connect, NoAddress, NextAddress, Refused, Unresolved, Connected, IInv, TypeOK
  <2> QED BY <2>1, <2>2, <2>3 DEF Connect, serverVars, IInv, TypeOK
<1>2. NoByteLost'
  BY ConstantsType
  DEF Connect, serverVars, IInv, TypeOK, NoByteLost, Received, Serving, Move,
      NoAddress, NextAddress, Refused, Unresolved, Connected
<1>3. CountPlausible'
  BY ConstantsType
  DEF Connect, serverVars, IInv, TypeOK, CountPlausible, Serving, Move,
      NoAddress, NextAddress, Refused, Unresolved, Connected
<1>4. Serving'
  BY ConstantsType
  DEF Connect, serverVars, IInv, TypeOK, Serving, Move, NoAddress, NextAddress,
      Refused, Unresolved, Connected
<1>5. Announced'
  BY ConstantsType
  DEF Connect, serverVars, IInv, TypeOK, Announced, Serving, Move, NoAddress,
      NextAddress, Refused, Unresolved, Connected
<1>6. Reads'
  BY ConstantsType
  DEF Connect, serverVars, IInv, TypeOK, Reads, Serving, Move, NoAddress,
      NextAddress, Refused, Unresolved, Connected
<1>7. Replied'
  BY ConstantsType
  DEF Connect, serverVars, IInv, TypeOK, Replied, Serving, Move, NoAddress,
      NextAddress, Refused, Unresolved, Connected
<1> QED BY <1>1, <1>2, <1>3, <1>4, <1>5, <1>6, <1>7 DEF IInv

LEMMA AnnounceKeeps ==
  ASSUME IInv, NEW c \in Clients, Announce(c)
  PROVE  IInv'
<1>1. TypeOK'
  BY ConstantsType DEF Announce, serverVars, IInv, TypeOK, Move
<1>2. NoByteLost'
  BY ConstantsType
  DEF Announce, serverVars, IInv, TypeOK, NoByteLost, Received, Serving, Move
<1>3. CountPlausible'
  BY ConstantsType
  DEF Announce, serverVars, IInv, TypeOK, CountPlausible, Serving, Move
<1>4. Serving'
  BY ConstantsType DEF Announce, serverVars, IInv, TypeOK, Serving, Move
<1>5. Announced'
  BY ConstantsType
  DEF Announce, serverVars, IInv, TypeOK, Announced, Serving, Move
<1>6. Reads'
  BY ConstantsType DEF Announce, serverVars, IInv, TypeOK, Reads, Serving, Move
<1>7. Replied'
  BY ConstantsType
  DEF Announce, serverVars, IInv, TypeOK, Replied, Serving, Move
<1> QED BY <1>1, <1>2, <1>3, <1>4, <1>5, <1>6, <1>7 DEF IInv

LEMMA WriteKeeps ==
  ASSUME IInv, NEW c \in Clients, Write(c)
  PROVE  IInv'
<1>a. ASSUME spc # "done", written[c] < repetition[c] * size[c]
      PROVE  TypeOK' /\ NoByteLost'
  <2>1. /\ written[c] \in Nat /\ repetition[c] \in Nat /\ size[c] \in Nat
        /\ stream[c] \in 0 .. Capacity
    BY Numbers DEF IInv
  <2>2. repetition[c] * size[c] \in Nat
    BY <2>1, ProductType
  <2>3. repetition[c] * size[c] - written[c] \in Nat
    BY <1>a, <2>1, <2>2
  <2>4. PICK n \in Taken(stream[c], repetition[c] * size[c] - written[c]) :
          /\ stream' = [stream EXCEPT ![c] = @ + n]
          /\ written' = [written EXCEPT ![c] = @ + n]
    BY <1>a, <2>1, <2>2 DEF Write
  <2>5. /\ n \in Nat /\ stream[c] + n \in 0 .. Capacity
        /\ n <= repetition[c] * size[c] - written[c]
    BY <2>1, <2>3, <2>4, TakenType
  <2>6. written[c] + n <= repetition[c] * size[c]
    BY <2>1, <2>2, <2>5
  <2>7. UNCHANGED cpc
    BY <1>a, <2>1, <2>2 DEF Write
  <2>8. UNCHANGED <<addresses, size, repetition, nreads, backlog, announced, reply, serverVars>>
    BY DEF Write
  <2>9. written \in [Clients -> Nat] /\ stream \in [Clients -> 0 .. Capacity]
    BY DEF IInv, TypeOK
  <2>10. written' \in [Clients -> Nat] /\ stream' \in [Clients -> 0 .. Capacity]
    BY <2>1, <2>4, <2>5, <2>9
  <2>11. TypeOK'
    <3>1. ASSUME NEW b \in Clients PROVE written'[b] <= repetition[b] * size[b]
      <4>1. CASE b = c
        BY <2>4, <2>6, <2>9, <4>1
      <4>2. CASE b # c
        BY <2>4, <2>9, <4>2 DEF IInv, TypeOK
      <4> QED BY <4>1, <4>2
    <3> QED BY <2>7, <2>8, <2>10, <3>1 DEF serverVars, IInv, TypeOK
  <2>12. NoByteLost'
    <3> SUFFICES ASSUME NEW b \in Clients
                 PROVE  written'[b] = Received(b) + stream'[b]
      BY <2>8 DEF serverVars, Received, NoByteLost
    <3>1. written[b] = Received(b) + stream[b]
      BY DEF IInv, NoByteLost
    <3>2. CASE b # c
      BY <2>4, <2>9, <3>1, <3>2
    <3>3. CASE b = c
      <4>1. Received(c) \in Nat
        BY ReceivedType DEF IInv
      <4> QED BY <2>1, <2>4, <2>5, <2>9, <3>1, <3>3, <4>1
    <3> QED BY <3>2, <3>3
  <2> QED BY <2>11, <2>12
<1>b. ASSUME ~(spc # "done" /\ written[c] < repetition[c] * size[c])
      PROVE  TypeOK' /\ NoByteLost'
  <2>1. UNCHANGED <<written, stream>>
    BY <1>b DEF Write
  <2>2. \E place \in {"count", "dead"} : Move(c, place)
    BY <1>b DEF Write
  <2>3. TypeOK'
    BY <2>1, <2>2 DEF Write, Move, serverVars, IInv, TypeOK
  <2>4. NoByteLost'
    BY <2>1 DEF Write, serverVars, Received, IInv, NoByteLost
  <2> QED BY <2>3, <2>4
<1>1. TypeOK'
  BY <1>a, <1>b
<1>2. NoByteLost'
  BY <1>a, <1>b
<1>3. CountPlausible'
  BY ConstantsType
  DEF Write, serverVars, IInv, TypeOK, CountPlausible, Serving, Move
<1>4. Serving'
  BY ConstantsType DEF Write, serverVars, IInv, TypeOK, Serving, Move
<1>5. Announced'
  BY ConstantsType DEF Write, serverVars, IInv, TypeOK, Announced, Serving, Move
<1>6. Reads'
  BY ConstantsType DEF Write, serverVars, IInv, TypeOK, Reads, Serving, Move
<1>7. Replied'
  BY ConstantsType DEF Write, serverVars, IInv, TypeOK, Replied, Serving, Move
<1> QED BY <1>1, <1>2, <1>3, <1>4, <1>5, <1>6, <1>7 DEF IInv

LEMMA ReadCountKeeps ==
  ASSUME IInv, NEW c \in Clients, ReadCount(c)
  PROVE  IInv'
<1>1. TypeOK'
  <2>1. count \in Nat /\ nreads \in [Clients -> Nat]
    BY DEF IInv, TypeOK
  <2>2. nreads' \in [Clients -> Nat]
    <3>1. nreads' = [nreads EXCEPT ![c] = count] \/ nreads' = [nreads EXCEPT ![c] = 0]
      BY DEF ReadCount
    <3> QED BY <2>1, <3>1
  <2>3. cpc' \in [Clients -> {"connect", "announce", "write", "count", "done", "failed", "dead"}]
    BY DEF ReadCount, Move, IInv, TypeOK
  <2> QED BY <2>2, <2>3 DEF ReadCount, net, serverVars, IInv, TypeOK
<1>2. NoByteLost'
  BY ConstantsType
  DEF ReadCount, net, serverVars, IInv, TypeOK, NoByteLost, Received, Serving,
      Move
<1>3. CountPlausible'
  <2> SUFFICES ASSUME c = served, size[c] = BUFSIZE
               PROVE  /\ nreads'[c] \in repetition[c] .. repetition[c] * BUFSIZE
                      /\ written[c] = repetition[c] * BUFSIZE
    BY DEF ReadCount, Move, net, serverVars, IInv, TypeOK, CountPlausible
  <2>1. /\ repetition[c] \in Nat /\ written[c] \in Nat /\ stream[c] \in Nat
        /\ i \in Nat /\ nRead \in Nat /\ count \in Nat
        /\ written[c] <= repetition[c] * BUFSIZE
    BY ConstantsType DEF IInv, TypeOK
  <2>2. cpc[c] # "dead" /\ spc = "done"
    BY DEF ReadCount
  <2>3. reply /\ i = repetition[c]
    BY <2>2 DEF IInv, Announced, Replied
  <2>4. repetition[c] * BUFSIZE \in Nat
    BY <2>1, ProductType, ConstantsType
  <2>5. written[c] = repetition[c] * BUFSIZE + nRead + stream[c]
    BY <2>3 DEF IInv, NoByteLost, Received
  <2>6. written[c] = repetition[c] * BUFSIZE /\ stream[c] = 0 /\ nRead = 0
    BY <2>1, <2>4, <2>5
  <2>7. nreads'[c] = count
    BY <2>1, <2>3, <2>6 DEF ReadCount, IInv, TypeOK
  <2>8. count \in repetition[c] .. repetition[c] * BUFSIZE
    BY <2>1, <2>2, <2>3, <2>4, <2>6 DEF IInv, Reads
  <2> QED BY <2>6, <2>7, <2>8
<1>4. Serving'
  BY ConstantsType DEF ReadCount, net, serverVars, IInv, TypeOK, Serving, Move
<1>5. Announced'
  BY ConstantsType
  DEF ReadCount, net, serverVars, IInv, TypeOK, Announced, Serving, Move
<1>6. Reads'
  BY ConstantsType
  DEF ReadCount, net, serverVars, IInv, TypeOK, Reads, Serving, Move
<1>7. Replied'
  BY ConstantsType
  DEF ReadCount, net, serverVars, IInv, TypeOK, Replied, Serving, Move
<1> QED BY <1>1, <1>2, <1>3, <1>4, <1>5, <1>6, <1>7 DEF IInv

LEMMA DieKeeps ==
  ASSUME IInv, NEW c \in Clients, Die(c)
  PROVE  IInv'
<1>1. TypeOK'
  BY ConstantsType DEF Die, net, serverVars, IInv, TypeOK, Move
<1>2. NoByteLost'
  BY ConstantsType
  DEF Die, net, serverVars, IInv, TypeOK, NoByteLost, Received, Serving, Move
<1>3. CountPlausible'
  BY ConstantsType
  DEF Die, net, serverVars, IInv, TypeOK, CountPlausible, Serving, Move
<1>4. Serving'
  BY ConstantsType DEF Die, net, serverVars, IInv, TypeOK, Serving, Move
<1>5. Announced'
  BY ConstantsType
  DEF Die, net, serverVars, IInv, TypeOK, Announced, Serving, Move
<1>6. Reads'
  BY ConstantsType DEF Die, net, serverVars, IInv, TypeOK, Reads, Serving, Move
<1>7. Replied'
  BY ConstantsType
  DEF Die, net, serverVars, IInv, TypeOK, Replied, Serving, Move
<1> QED BY <1>1, <1>2, <1>3, <1>4, <1>5, <1>6, <1>7 DEF IInv

LEMMA ListenKeeps ==
  ASSUME IInv, Listen
  PROVE  IInv'
<1>1. TypeOK'
  BY ConstantsType DEF Listen, clientVars, net, IInv, TypeOK
<1>2. NoByteLost'
  BY ConstantsType
  DEF Listen, clientVars, net, IInv, TypeOK, NoByteLost, Received, Serving
<1>3. CountPlausible'
  BY ConstantsType
  DEF Listen, clientVars, net, IInv, TypeOK, CountPlausible, Serving
<1>4. Serving'
  BY ConstantsType DEF Listen, clientVars, net, IInv, TypeOK, Serving
<1>5. Announced'
  BY ConstantsType DEF Listen, clientVars, net, IInv, TypeOK, Announced, Serving
<1>6. Reads'
  BY ConstantsType DEF Listen, clientVars, net, IInv, TypeOK, Reads, Serving
<1>7. Replied'
  BY ConstantsType DEF Listen, clientVars, net, IInv, TypeOK, Replied, Serving
<1> QED BY <1>1, <1>2, <1>3, <1>4, <1>5, <1>6, <1>7 DEF IInv

LEMMA AcceptKeeps ==
  ASSUME IInv, Accept
  PROVE  IInv'
<1>1. TypeOK'
  BY ConstantsType DEF Accept, clientVars, IInv, TypeOK
<1>2. NoByteLost'
  BY ConstantsType
  DEF Accept, clientVars, IInv, TypeOK, NoByteLost, Received, Serving
<1>3. CountPlausible'
  BY DEF Accept, clientVars, IInv, Replied, CountPlausible
<1>4. Serving'
  BY ConstantsType DEF Accept, clientVars, IInv, TypeOK, Serving
<1>5. Announced'
  BY ConstantsType DEF Accept, clientVars, IInv, TypeOK, Announced, Serving
<1>6. Reads'
  BY ConstantsType DEF Accept, clientVars, IInv, TypeOK, Reads, Serving
<1>7. Replied'
  BY ConstantsType DEF Accept, clientVars, IInv, TypeOK, Replied, Serving
<1> QED BY <1>1, <1>2, <1>3, <1>4, <1>5, <1>6, <1>7 DEF IInv

LEMMA ReadRepsKeeps ==
  ASSUME IInv, ReadReps
  PROVE  IInv'
<1>1. TypeOK'
  <2>1. reps' \in 0 .. MaxRepetitions /\ i = 0
    BY ConstantsType DEF ReadReps, Reps, IInv, TypeOK, Serving
  <2>2. i \in 0 .. reps'
    BY <2>1, ConstantsType
  <2> QED BY <2>1, <2>2 DEF ReadReps, clientVars, net, IInv, TypeOK
<1>2. NoByteLost'
  BY ConstantsType
  DEF ReadReps, clientVars, net, IInv, TypeOK, NoByteLost, Received, Serving,
      Reps
<1>3. CountPlausible'
  BY ConstantsType
  DEF ReadReps, clientVars, net, IInv, TypeOK, CountPlausible, Serving, Reps
<1>4. Serving'
  BY ConstantsType DEF ReadReps, clientVars, net, IInv, TypeOK, Serving, Reps
<1>5. Announced'
  BY ConstantsType
  DEF ReadReps, clientVars, net, IInv, TypeOK, Announced, Serving, Reps
<1>6. Reads'
  BY ConstantsType
  DEF ReadReps, clientVars, net, IInv, TypeOK, Reads, Serving, Reps
<1>7. Replied'
  BY ConstantsType
  DEF ReadReps, clientVars, net, IInv, TypeOK, Replied, Serving, Reps
<1> QED BY <1>1, <1>2, <1>3, <1>4, <1>5, <1>6, <1>7 DEF IInv

LEMMA ReadKeeps ==
  ASSUME IInv, Read
  PROVE  IInv'
<1>a. /\ served \in Clients /\ nRead \in Nat /\ nRead < BUFSIZE
      /\ i \in Nat /\ reps \in Nat /\ i < reps /\ count \in Nat
      /\ stream[served] \in 0 .. Capacity
  BY ConstantsType DEF Read, IInv, TypeOK, Serving
<1>b. PICK n \in Returned(stream[served], BUFSIZE - nRead) :
        /\ stream' = [stream EXCEPT ![served] = @ - n]
        /\ IF nRead + n >= BUFSIZE
             THEN i' = i + 1 /\ nRead' = 0
             ELSE nRead' = nRead + n /\ UNCHANGED i
        /\ spc' = IF n = 0 THEN "spin" ELSE "read"
  BY DEF Read, Filled, Wanted
<1>c. BUFSIZE - nRead \in Nat
  BY <1>a, ConstantsType
<1>d. n \in Nat /\ n <= BUFSIZE - nRead /\ stream[served] - n \in 0 .. Capacity
  BY <1>a, <1>b, <1>c, ReturnedType
<1>e. /\ count' = count + 1
      /\ UNCHANGED <<clientVars, served, reps, backlog, announced, reply>>
  BY DEF Read
<1>f. i' * BUFSIZE + nRead' = i * BUFSIZE + nRead + n /\ i * BUFSIZE \in Nat
  BY <1>a, <1>b, <1>d, ProductType, ConstantsType
<1>1. TypeOK'
  <2>1. stream' \in [Clients -> 0 .. Capacity]
    BY <1>a, <1>b, <1>d DEF IInv, TypeOK
  <2>2. i' \in 0 .. reps /\ nRead' \in 0 .. BUFSIZE - 1
    BY <1>a, <1>b, <1>d, ConstantsType
  <2>3. spc' \in {"read", "spin"} /\ count' \in Nat
    BY <1>a, <1>b, <1>e
  <2> QED BY <1>e, <2>1, <2>2, <2>3 DEF clientVars, IInv, TypeOK
<1>2. NoByteLost'
  <2> SUFFICES ASSUME NEW b \in Clients
               PROVE  written[b] = Received(b)' + stream'[b]
    BY <1>e DEF clientVars, Received, NoByteLost
  <2>1. written[b] = Received(b) + stream[b]
    BY DEF IInv, NoByteLost
  <2>2. CASE b # served
    BY <1>a, <1>b, <1>e, <2>1, <2>2 DEF Received, IInv, TypeOK
  <2>3. CASE b = served
    <3>1. stream'[b] = stream[b] - n
      BY <1>a, <1>b, <2>3 DEF IInv, TypeOK
    <3>2. Received(b)' = Received(b) + n
      BY <1>e, <1>f, <2>3 DEF Received
    <3>3. Received(b) \in Nat
      BY ReceivedType DEF IInv
    <3> QED BY <1>a, <1>d, <2>1, <2>3, <3>1, <3>2, <3>3
  <2> QED BY <2>2, <2>3
<1>3. CountPlausible'
  BY ConstantsType
  DEF Read, clientVars, IInv, TypeOK, CountPlausible, Serving, Filled, Wanted
<1>4. Serving'
  BY ConstantsType DEF Read, clientVars, IInv, TypeOK, Serving, Filled, Wanted
<1>5. Announced'
  BY ConstantsType
  DEF Read, clientVars, IInv, TypeOK, Announced, Serving, Filled, Wanted
<1>6. Reads'
  BY <1>a, <1>b, <1>d, <1>e, <1>f DEF Read, IInv, Reads
<1>7. Replied'
  BY ConstantsType
  DEF Read, clientVars, IInv, TypeOK, Replied, Serving, Filled, Wanted
<1> QED BY <1>1, <1>2, <1>3, <1>4, <1>5, <1>6, <1>7 DEF IInv

LEMMA ReplyKeeps ==
  ASSUME IInv, Reply
  PROVE  IInv'
<1>1. TypeOK'
  BY ConstantsType DEF Reply, clientVars, IInv, TypeOK
<1>2. NoByteLost'
  BY ConstantsType
  DEF Reply, clientVars, IInv, TypeOK, NoByteLost, Received, Serving
<1>3. CountPlausible'
  BY ConstantsType DEF Reply, clientVars, IInv, TypeOK, CountPlausible, Serving
<1>4. Serving'
  BY ConstantsType DEF Reply, clientVars, IInv, TypeOK, Serving
<1>5. Announced'
  BY ConstantsType DEF Reply, clientVars, IInv, TypeOK, Announced, Serving
<1>6. Reads'
  BY ConstantsType DEF Reply, clientVars, IInv, TypeOK, Reads, Serving
<1>7. Replied'
  BY ConstantsType DEF Reply, clientVars, IInv, TypeOK, Replied, Serving
<1> QED BY <1>1, <1>2, <1>3, <1>4, <1>5, <1>6, <1>7 DEF IInv

LEMMA InitInvariant == Init => IInv
<1> SUFFICES ASSUME Init PROVE IInv
  OBVIOUS
<1>1. \A c \in Clients : 0 <= repetition[c] * size[c]
  <2> TAKE c \in Clients
  <2>1. repetition[c] \in Nat /\ size[c] \in Nat
    <3>1. repetition[c] \in 0 .. MaxRepetitions /\ size[c] \in Sizes
      BY DEF Init
    <3>2. repetition[c] \in Nat
      BY <3>1, ConstantsType
    <3>3. size[c] \in Nat
      BY <3>1, ConstantsType
    <3> QED BY <3>2, <3>3
  <2>2. repetition[c] * size[c] \in Nat
    BY <2>1, ProductType
  <2> QED BY <2>2
<1>2. 0 * BUFSIZE = 0
  BY ProductZero, ConstantsType
<1>3. TypeOK
  <2>1. addresses \in [Clients -> Seq(AddressKinds)]
    BY ThroughputAssumption DEF Init
  <2>2. nRead \in 0 .. BUFSIZE - 1 /\ stream \in [Clients -> 0 .. Capacity]
    BY ConstantsType DEF Init
  <2>3. reps \in 0 .. MaxRepetitions /\ i \in 0 .. reps
    BY ConstantsType DEF Init
  <2> QED BY <1>1, <2>1, <2>2, <2>3 DEF Init, TypeOK
<1>4. NoByteLost /\ CountPlausible /\ Serving /\ Announced /\ Reads /\ Replied
  BY <1>2, ConstantsType
  DEF Init, NoByteLost, Received, CountPlausible, Serving, Announced, Reads, Replied
<1> QED BY <1>3, <1>4 DEF IInv

LEMMA StepKeeps == IInv /\ [Next]_vars => IInv'
<1> SUFFICES ASSUME IInv, [Next]_vars PROVE IInv'
  OBVIOUS
<1>1. ASSUME NEW c \in Clients, Client(c) \/ Die(c) PROVE IInv'
  BY <1>1, ConnectKeeps, AnnounceKeeps, WriteKeeps, ReadCountKeeps, DieKeeps DEF Client
<1>2. CASE Server
  BY <1>2, ListenKeeps, AcceptKeeps, ReadRepsKeeps, ReadKeeps, ReplyKeeps DEF Server
<1>3. CASE Finished \/ UNCHANGED vars
  BY <1>3
  DEF Finished, vars, clientVars, serverVars, net, IInv, TypeOK, NoByteLost, Received,
      CountPlausible, Serving, Announced, Reads, Replied
<1> QED BY <1>1, <1>2, <1>3 DEF Next

LEMMA Invariance == Spec => []IInv
  BY InitInvariant, StepKeeps, PTL DEF Spec

(* Every variable keeps its type; in particular no client writes more than *)
(* it announced, and the server's buffer never overflows (Client.cpp:      *)
(* 221-255, Server.cpp:141-149).                                           *)
THEOREM TypeCorrect == Spec => []TypeOK
  BY Invariance, PTL DEF IInv

(* The server's loops lose no byte and take none from another client       *)
(* (Server.cpp:142-149).                                                   *)
THEOREM BytesCorrect == Spec => []NoByteLost
  BY Invariance, PTL DEF IInv

(* A client that is served and sends what the server expects has sent      *)
(* everything and ends with a sensible count (Server.cpp:145-156,          *)
(* Client.cpp:264-275).                                                    *)
THEOREM CountCorrect == Spec => []CountPlausible
  BY Invariance, PTL DEF IInv

-----------------------------------------------------------------------------
(* That nobody waits for ever rests on where the clients are.              *)

(* A client that has connected is accepted or waits to be, announces       *)
(* before it writes, and waits for the count only when it has written      *)
(* everything, or to a server that has gone. Nobody connects to a server   *)
(* that does not listen.                                                   *)
Attended ==
  /\ spc \in {"start", "deaf"} => backlog = {}
  /\ \A c \in Clients :
       /\ cpc[c] \in {"announce", "write", "count"} => c = served \/ c \in backlog
       /\ c = served \/ c \in backlog => cpc[c] \notin {"connect", "failed"}
       /\ cpc[c] \in {"write", "count"} => c \in announced
       /\ cpc[c] = "count" => written[c] = repetition[c] * size[c] \/ spc = "done"

LEMMA InitAttended == Init => Attended
  BY ConstantsType DEF Init, Attended

LEMMA ClientAttended ==
  ASSUME IInv, Attended, NEW c \in Clients, Client(c) \/ Die(c)
  PROVE  Attended'
<1> USE DEF IInv, TypeOK, Attended, Move, serverVars, net
<1>1. CASE Connect(c)
  BY <1>1 DEF Connect, NoAddress, NextAddress, Refused, Unresolved, Connected, Listening
<1>2. CASE Announce(c)
  BY <1>2 DEF Announce
<1>3. CASE Write(c)
  <2>1. CASE UNCHANGED cpc
    BY <1>3, <2>1 DEF Write
  <2>2. CASE \E place \in {"count", "dead"} : Move(c, place)
    <3>1. UNCHANGED written
      BY <1>3, <2>2 DEF Write
    <3>2. cpc'[c] = "count" => written[c] = repetition[c] * size[c] \/ spc = "done"
      BY <1>3, <2>2 DEF Write
    <3> QED BY <1>3, <2>2, <3>1, <3>2 DEF Write
  <2> QED BY <1>3, <2>1, <2>2 DEF Write
<1>4. CASE ReadCount(c)
  BY <1>4 DEF ReadCount
<1>5. CASE Die(c)
  BY <1>5 DEF Die
<1> QED BY <1>1, <1>2, <1>3, <1>4, <1>5 DEF Client

LEMMA ServerAttended ==
  ASSUME IInv, Attended, Server
  PROVE  Attended'
<1>1. CASE Accept
  BY <1>1, ConstantsType DEF Accept, clientVars, Attended, IInv, TypeOK, Serving
<1>2. CASE Listen \/ ReadReps \/ Read \/ Reply
  BY <1>2 DEF Listen, ReadReps, Read, Reply, clientVars, net, Attended, IInv, TypeOK
<1> QED BY <1>1, <1>2 DEF Server

LEMMA StepAttended == IInv /\ Attended /\ [Next]_vars => Attended'
<1> SUFFICES ASSUME IInv, Attended, [Next]_vars PROVE Attended'
  OBVIOUS
<1>1. CASE Finished \/ UNCHANGED vars
  BY <1>1 DEF Finished, vars, clientVars, serverVars, net, Attended
<1> QED BY <1>1, ClientAttended, ServerAttended DEF Next

(* A whole repetition is missing: less than everything has been read.      *)
LEMMA Missing ==
  ASSUME NEW a \in Nat, NEW b \in Nat, NEW n \in Nat, NEW bufsize \in Nat,
         NEW sz \in Nat, a < b, n < bufsize, bufsize <= sz
  PROVE  a * bufsize + n < b * sz
<1>1. a + 1 <= b
  OBVIOUS
<1>2. (a + 1) * bufsize <= b * bufsize
  BY <1>1
<1>3. b * bufsize <= b * sz
  OBVIOUS
<1>4. (a + 1) * bufsize = a * bufsize + bufsize /\ a * bufsize \in Nat
  BY ProductType
<1>5. b * bufsize \in Nat /\ b * sz \in Nat
  BY ProductType
<1> QED BY <1>2, <1>3, <1>4, <1>5

(* The client being served. If the server waits for bytes, there is room   *)
(* for them, and they are not all written.                                 *)
LEMMA ServedGoesOn ==
  ASSUME IInv, Attended, spc \in {"accepted", "read"}, size[served] >= BUFSIZE
  PROVE  ServerGoesOn \/ ClientGoesOn(served)
<1>1. served \in Clients
  BY DEF IInv, TypeOK, Serving
<1>2. cpc[served] \in {"announce", "write", "count", "dead"}
  BY <1>1 DEF IInv, TypeOK, Attended, Replied
<1>3. CASE spc = "accepted"
  BY <1>1, <1>2, <1>3 DEF Attended, ServerGoesOn, ClientGoesOn
<1>4. CASE spc = "read" /\ i # reps /\ stream[served] = 0 /\ cpc[served] # "dead"
  <2>1. cpc[served] = "write" => stream[served] < Capacity
    BY <1>4, ConstantsType
  <2>2. cpc[served] # "count"
    <3>1. /\ i \in Nat /\ nRead \in Nat /\ nRead < BUFSIZE /\ i < repetition[served]
          /\ repetition[served] \in Nat /\ size[served] \in Nat
      BY <1>1, <1>4, Numbers, ConstantsType DEF IInv, TypeOK, Announced
    <3>2. i * BUFSIZE + nRead < repetition[served] * size[served]
      BY <3>1, Missing, ConstantsType
    <3>3. written[served] = i * BUFSIZE + nRead
      <4>1. i * BUFSIZE \in Nat
        BY <3>1, ProductType, ConstantsType
      <4> QED BY <1>1, <1>4, <3>1, <4>1 DEF IInv, NoByteLost, Received
    <3>4. repetition[served] * size[served] \in Nat /\ i * BUFSIZE \in Nat
      BY <3>1, ProductType, ConstantsType
    <3>5. written[served] # repetition[served] * size[served]
      BY <3>1, <3>2, <3>3, <3>4
    <3> QED BY <1>1, <1>4, <3>5 DEF Attended
  <2> QED BY <1>2, <1>4, <2>1, <2>2 DEF ClientGoesOn
<1>5. CASE spc = "read" /\ (i = reps \/ stream[served] # 0 \/ cpc[served] = "dead")
  BY <1>1, <1>5, Numbers DEF ServerGoesOn, Ready, IInv
<1> QED BY <1>3, <1>4, <1>5

LEMMA NeverStuckFollows == IInv /\ Attended => NeverStuck
<1> SUFFICES ASSUME IInv, Attended PROVE NeverStuck
  OBVIOUS
<1>1. ASSUME spc \in {"listen", "deaf"}, backlog = {}, NEW c \in Clients
      PROVE  Ended(c) \/ ClientGoesOn(c)
  BY <1>1, ConstantsType
  DEF IInv, TypeOK, Serving, Replied, Attended, Ended, ClientGoesOn
<1>2. ASSUME spc = "done", NEW c \in Clients
      PROVE  Ended(c) \/ ClientGoesOn(c)
  BY <1>2 DEF IInv, TypeOK, Ended, ClientGoesOn
<1>3. spc = "deaf" => backlog = {}
  BY DEF Attended
<1> QED BY <1>1, <1>2, <1>3, ServedGoesOn DEF NeverStuck, ServerGoesOn

(* Whoever is killed, and however little the network holds, client and     *)
(* server never wait for each other, unless the client sends less than the *)
(* server expects (Client.cpp:221-264, Server.cpp:130-157).                *)
THEOREM NeverStuckCorrect == Spec => []NeverStuck
<1>1. Spec => []Attended
  BY InitAttended, StepAttended, Invariance, PTL DEF Spec
<1> QED BY <1>1, Invariance, NeverStuckFollows, PTL

=============================================================================
