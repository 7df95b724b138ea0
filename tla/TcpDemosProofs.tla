--------------------------- MODULE TcpDemosProofs ---------------------------
(***************************************************************************)
(* The TCP demonstrations, for messages of any size and any capacity of    *)
(* the connection: types, the order of request and answer, that every read *)
(* gets something, and that the two sides never wait for each other.       *)
(***************************************************************************)
EXTENDS TcpDemos, SequenceTheorems, TLAPS

(* The last k of some calls.                                               *)
Left(calls, k) == [i \in 1 .. k |-> calls[Len(calls) - k + i]]

Script(s) == IF s = "client" THEN ClientCalls(demo) ELSE ServerCalls(demo)

(* How many of its calls a side has made.                                  *)
Done(s) == Len(Script(s)) - Len(rest[s])

(* Nobody was killed, and the connection of s was not reset.               *)
Calm(s) == killed = {} /\ s \notin reset

(* A side has or had a connection. *)
Met(s) == Connected(s) \/ sd[s] = "closed"

(* What a side has still to call is the rest of its program, and goes with *)
(* the state of its socket.                                                *)
PlaceOf(s) ==
  /\ Len(rest[s]) \in 0 .. Len(Script(s))
  /\ rest[s] = Left(Script(s), Len(rest[s]))
  /\ sd[s] \in {"none", "listening", "deaf"} => Done(s) = 0
  /\ sd[s] \in {"failed", "closed"} => Len(rest[s]) = 0
  /\ Connected(s) => Len(rest[s]) > 0
  /\ ~Met(s) => stream[s] = 0 /\ written[s] = 0 /\ got[s] = 0

(* The sockets of the two sides go together.                               *)
Sockets ==
  /\ sd["client"] \in {"none", "failed", "open", "closed"}
  /\ sd["client"] = "open" => sd["server"] = "listening" \/ Met("server")
  /\ Met("server") => Met("client")
  /\ sd["server"] = "shut" => Done("server") > 2
  /\ sd["server"] = "open" => Done("server") < 3

Places == (\A s \in Sides : PlaceOf(s)) /\ Sockets

(* Only a side that has left resets the other.                             *)
Resets == \A s \in reset : Gone(s)

(* Only a write under way has taken something, and not yet everything.     *)
Partly ==
  \A s \in Sides :
    Len(rest[s]) > 0 /\ written[s] > 0 =>
      Head(rest[s]).call = "write" /\ written[s] < Head(rest[s]).size

(* The server has read something before it answers, or the client left.    *)
Request ==
  /\ Done("server") = 0 => got["server"] = 0
  /\ stream["server"] > 0 \/ (Connected("server") /\ Done("server") > 0) =>
       got["server"] > 0 \/ sd["client"] = "closed"

(* The answer waits for the client until it reads it.                      *)
Answer ==
  Calm("client") =>
    /\ Met("server") /\ Done("server") > 1 /\ Done("client") < 2 => stream["server"] > 0
    /\ Met("client") /\ Done("client") > 1 => got["client"] > 0

(* In Prog3 the second message waits for the server, after the first.      *)
Second ==
  demo = "Prog3" /\ killed = {} /\ reset = {} =>
    /\ Met("server") /\ Done("server") > 0 => got["server"] > 0
    /\ Met("client") /\ Done("client") > 2 /\ Done("server") < 4 => stream["client"] > 0

(* The request waits for the server, and the answer finds the stream empty.*)
Asked ==
  /\ sd["client"] = "open" /\ Done("client") > 0 /\ Done("server") = 0 =>
       stream["client"] > 0
  /\ Connected("server") /\ Done("server") < 2 => stream["server"] <= written["server"]

IInv ==
  /\ TypeOK /\ Places /\ Resets /\ Partly
  /\ Request /\ AnswerAfterRequest /\ Answer /\ Second /\ Asked

-----------------------------------------------------------------------------
(* The programs.                                                           *)

(* The constants are numbers, and a message is not empty.                  *)
LEMMA ConstantsType ==
  /\ Capacity \in Nat /\ Capacity > 0
  /\ Short \in Nat /\ Short > 0
  /\ Long \in Nat /\ Long > 0
  BY StreamAssumption, DemoAssumption

CallSet == {Read(n) : n \in {1, Short, Long}}
           \union {Write(n) : n \in {1, Short, Long}} \union {Shutdown, Close}

(* What the calls are.                                                     *)
LEMMA CallFields ==
  ASSUME NEW c \in CallSet
  PROVE  /\ c.call \in {"read", "write", "shutdown", "close"}
         /\ c.call \in {"read", "write"} => c.size \in {1, Short, Long}
  BY DEF CallSet, Read, Write, Shutdown, Close

(* The client writes, reads the answer, and in Prog3 writes once more.     *)
LEMMA ClientScript ==
  ASSUME demo \in Demos
  PROVE  /\ Script("client") \in Seq(CallSet)
         /\ Len(Script("client")) = IF demo = "Prog3" THEN 4 ELSE 3
         /\ Script("client")[1].call = "write"
         /\ Script("client")[2].call = "read"
         /\ demo = "Prog3" => Script("client")[3].call = "write"
         /\ IF demo = "Prog3" THEN Script("client")[4].call = "close"
                              ELSE Script("client")[3].call = "close"
<1>1. CASE demo = "Prog3"
  BY <1>1 DEF Script, ClientCalls, CallSet, Read, Write, Close
<1>2. CASE demo = "hw3"
  BY <1>2 DEF Script, ClientCalls, CallSet, Read, Write, Close
<1>3. CASE demo = "Socket"
  BY <1>3 DEF Script, ClientCalls, CallSet, Read, Write, Close
<1> QED BY <1>1, <1>2, <1>3 DEF Demos

(* The server reads, answers, and in Prog3 shuts down and reads once more. *)
LEMMA ServerScript ==
  ASSUME demo \in Demos
  PROVE  /\ Script("server") \in Seq(CallSet)
         /\ Len(Script("server")) = IF demo = "Prog3" THEN 5 ELSE 3
         /\ Script("server")[1].call = "read"
         /\ Script("server")[2].call = "write"
         /\ demo = "Prog3" => /\ Script("server")[3].call = "shutdown"
                              /\ Script("server")[4].call = "read"
         /\ IF demo = "Prog3" THEN Script("server")[5].call = "close"
                              ELSE Script("server")[3].call = "close"
<1>1. CASE demo = "Prog3"
  BY <1>1 DEF Script, ServerCalls, CallSet, Read, Write, Shutdown, Close
<1>2. CASE demo = "hw3"
  BY <1>2 DEF Script, ServerCalls, CallSet, Read, Write, Close
<1>3. CASE demo = "Socket"
  BY <1>3 DEF Script, ServerCalls, CallSet, Read, Write, Close
<1> QED BY <1>1, <1>2, <1>3 DEF Demos

(* What is left of a sequence of calls: its head, its tail and its length. *)
LEMMA LeftCalls ==
  ASSUME NEW c \in Seq(CallSet), NEW k \in 0 .. Len(c)
  PROVE  /\ Left(c, k) \in Seq(CallSet)
         /\ Len(Left(c, k)) = k
         /\ k > 0 => /\ Left(c, k) # <<>>
                     /\ Head(Left(c, k)) = c[Len(c) - k + 1]
                     /\ Tail(Left(c, k)) = Left(c, k - 1)
<1> DEFINE L == Left(c, k)
<1>0. Len(c) \in Nat /\ \A i \in 1 .. Len(c) : c[i] \in CallSet
  BY LenProperties
<1>1. L \in Seq(CallSet) /\ Len(L) = k
  BY <1>0 DEF Left
<1>2. ASSUME k > 0
      PROVE  L # <<>> /\ Head(L) = c[Len(c) - k + 1] /\ Tail(L) = Left(c, k - 1)
  <2>0. L # <<>> /\ Head(L) = L[1]
    BY <1>1, <1>2, EmptySeq
  <2>1. L[1] = c[Len(c) - k + 1]
    BY <1>2 DEF Left
  <2>2. /\ Tail(L) \in Seq(CallSet) /\ Len(Tail(L)) = k - 1
        /\ \A i \in 1 .. k - 1 : Tail(L)[i] = L[i + 1]
    BY <1>0, <1>1, <1>2, <2>0, HeadTailProperties
  <2>3. Left(c, k - 1) \in Seq(CallSet) /\ Len(Left(c, k - 1)) = k - 1
    BY <1>0, <1>2 DEF Left
  <2>4. \A i \in 1 .. k - 1 : L[i + 1] = Left(c, k - 1)[i]
    BY <1>0, <1>2 DEF Left
  <2> QED BY <2>0, <2>1, <2>2, <2>3, <2>4, SeqEqual
<1> QED BY <1>1, <1>2

(* Which call is next, by the number of those made.                        *)
LEMMA NextCall ==
  ASSUME IInv, NEW s \in Sides
  PROVE  /\ Len(rest[s]) \in Nat /\ Len(Script(s)) \in Nat
         /\ Done(s) \in 0 .. Len(Script(s))
         /\ Connected(s) => /\ rest[s] # <<>> /\ Done(s) < Len(Script(s))
                            /\ Head(rest[s]) \in CallSet
                            /\ Head(rest[s]) = Script(s)[Done(s) + 1]
                            /\ Tail(rest[s]) = Left(Script(s), Len(rest[s]) - 1)
                            /\ Len(Tail(rest[s])) = Len(rest[s]) - 1
<1>1. Script(s) \in Seq(CallSet)
  BY ClientScript, ServerScript DEF IInv, TypeOK, Sides
<1>2. Len(Script(s)) \in Nat
  BY <1>1, LenProperties
<1>3. /\ Len(rest[s]) \in 0 .. Len(Script(s))
      /\ rest[s] = Left(Script(s), Len(rest[s]))
      /\ Connected(s) => Len(rest[s]) > 0
  BY DEF IInv, Places, PlaceOf
<1>4. /\ Len(rest[s]) > 0 => /\ rest[s] # <<>>
                             /\ Head(rest[s]) = Script(s)[Done(s) + 1]
                             /\ Tail(rest[s]) = Left(Script(s), Len(rest[s]) - 1)
  BY <1>1, <1>3, LeftCalls DEF Done
<1>5. Len(rest[s]) > 0 => Len(Tail(rest[s])) = Len(rest[s]) - 1
  BY <1>1, <1>2, <1>3, <1>4, LeftCalls
<1>6. /\ Len(rest[s]) \in Nat
      /\ Done(s) \in 0 .. Len(Script(s))
      /\ Len(rest[s]) > 0 => Done(s) + 1 \in 1 .. Len(Script(s)) /\ Done(s) < Len(Script(s))
  BY <1>2, <1>3 DEF Done
<1>7. Len(rest[s]) > 0 => Script(s)[Done(s) + 1] \in CallSet
  BY <1>1, <1>6, ElementOfSeq
<1> QED BY <1>2, <1>3, <1>4, <1>5, <1>6, <1>7

(* Where the client is in its script, by the call it is about to make.     *)
LEMMA ClientCall ==
  ASSUME IInv, Connected("client")
  PROVE  /\ Calls("client", "write") =>
              Done("client") = 0 \/ (Done("client") = 2 /\ demo = "Prog3")
         /\ Calls("client", "read") => Done("client") = 1
         /\ ~Calls("client", "shutdown")
         /\ Done("client") < 4
         /\ Calls("client", "close") => Done("client") = IF demo = "Prog3" THEN 3 ELSE 2
<1> USE DEF Sides
<1>1. /\ Len(Script("client")) = IF demo = "Prog3" THEN 4 ELSE 3
      /\ Script("client")[1].call = "write"
      /\ Script("client")[2].call = "read"
      /\ demo = "Prog3" => Script("client")[3].call = "write"
      /\ IF demo = "Prog3" THEN Script("client")[4].call = "close"
                           ELSE Script("client")[3].call = "close"
  BY ClientScript DEF IInv, TypeOK
<1>2. /\ Done("client") \in 0 .. Len(Script("client"))
      /\ Done("client") < Len(Script("client"))
      /\ Head(rest["client"]) = Script("client")[Done("client") + 1]
  BY NextCall
<1>3. Done("client") \in 0 .. 3 /\ (demo # "Prog3" => Done("client") \in 0 .. 2)
  BY <1>1, <1>2
<1>4. CASE Done("client") = 0
  BY <1>1, <1>2, <1>4 DEF Calls
<1>5. CASE Done("client") = 1
  BY <1>1, <1>2, <1>5 DEF Calls
<1>6. CASE Done("client") = 2
  BY <1>1, <1>2, <1>6 DEF Calls
<1>7. CASE Done("client") = 3
  BY <1>1, <1>2, <1>7 DEF Calls
<1> QED BY <1>3, <1>4, <1>5, <1>6, <1>7

(* Where the server is, likewise.                                          *)
LEMMA ServerCall ==
  ASSUME IInv, Connected("server")
  PROVE  /\ Calls("server", "write") => Done("server") = 1
         /\ Calls("server", "read") =>
              Done("server") = 0 \/ (Done("server") = 3 /\ demo = "Prog3")
         /\ Calls("server", "shutdown") => Done("server") = 2 /\ demo = "Prog3"
         /\ Done("server") < 5
         /\ Calls("server", "close") => Done("server") = IF demo = "Prog3" THEN 4 ELSE 2
<1> USE DEF Sides
<1>1. /\ Len(Script("server")) = IF demo = "Prog3" THEN 5 ELSE 3
      /\ Script("server")[1].call = "read"
      /\ Script("server")[2].call = "write"
      /\ demo = "Prog3" => /\ Script("server")[3].call = "shutdown"
                           /\ Script("server")[4].call = "read"
      /\ IF demo = "Prog3" THEN Script("server")[5].call = "close"
                           ELSE Script("server")[3].call = "close"
  BY ServerScript DEF IInv, TypeOK
<1>2. /\ Done("server") \in 0 .. Len(Script("server"))
      /\ Done("server") < Len(Script("server"))
      /\ Head(rest["server"]) = Script("server")[Done("server") + 1]
  BY NextCall
<1>3. Done("server") \in 0 .. 4 /\ (demo # "Prog3" => Done("server") \in 0 .. 2)
  BY SMTT(30), <1>1, <1>2
<1>4. CASE Done("server") = 0
  BY <1>1, <1>2, <1>4 DEF Calls
<1>5. CASE Done("server") = 1
  BY <1>1, <1>2, <1>5 DEF Calls
<1>6. CASE Done("server") = 2
  BY <1>1, <1>2, <1>6 DEF Calls
<1>7. CASE Done("server") = 3
  BY SMTT(30), <1>1, <1>2, <1>7 DEF Calls
<1>8. CASE Done("server") = 4
  BY <1>1, <1>2, <1>8 DEF Calls
<1> QED BY <1>3, <1>4, <1>5, <1>6, <1>7, <1>8

(* A connected side is about to make one of the four calls.                *)
LEMMA SomeCall ==
  ASSUME IInv, NEW s \in Sides, Connected(s)
  PROVE  /\ \E call \in {"read", "write", "shutdown", "close"} : Calls(s, call)
         /\ Calls(s, "read") \/ Calls(s, "write") =>
              Head(rest[s]).size \in Nat /\ Head(rest[s]).size > 0
  BY NextCall, CallFields, ConstantsType DEF Calls

(* A call has returned.                                                    *)
LEMMA AfterReturn ==
  ASSUME IInv, NEW s \in Sides, Connected(s), ~Calls(s, "close"),
         Returns(s), UNCHANGED demo
  PROVE  /\ Script(s)' = Script(s) /\ Script(Peer(s))' = Script(Peer(s))
         /\ Len(rest[s])' = Len(rest[s]) - 1
         /\ Len(rest[s])' \in 1 .. Len(Script(s))
         /\ rest'[s] = Left(Script(s), Len(rest[s])')
         /\ Done(s)' = Done(s) + 1
         /\ rest'[Peer(s)] = rest[Peer(s)] /\ Done(Peer(s))' = Done(Peer(s))
         /\ Peer(s) # s /\ Peer(s) \in Sides
         /\ rest' \in [Sides -> Seq(CallSet)]
<1>0. Peer(s) # s /\ Peer(s) \in Sides
  BY DEF Peer, Sides
<1>1. rest \in [Sides -> Seq(CallSet)]
  BY DEF IInv, TypeOK, CallSet
<1>2. rest'[s] = Tail(rest[s]) /\ rest'[Peer(s)] = rest[Peer(s)]
  BY <1>0, <1>1 DEF Returns
<1>3. Script(s)' = Script(s) /\ Script(Peer(s))' = Script(Peer(s))
  BY DEF Script
<1>4. /\ Len(Tail(rest[s])) = Len(rest[s]) - 1
      /\ Tail(rest[s]) = Left(Script(s), Len(rest[s]) - 1)
      /\ Len(rest[s]) \in Nat /\ Len(Script(s)) \in Nat
      /\ Done(s) \in 0 .. Len(Script(s)) /\ Done(s) < Len(Script(s))
      /\ rest[s] # <<>> /\ Head(rest[s]) = Script(s)[Done(s) + 1]
  BY NextCall
<1>5. Script(s)[Len(Script(s))].call = "close"
  <2>1. CASE s = "client"
    BY <2>1, ClientScript DEF IInv, TypeOK
  <2>2. CASE s = "server"
    BY <2>2, ServerScript DEF IInv, TypeOK
  <2> QED BY <2>1, <2>2 DEF Sides
<1>6. Done(s) + 1 # Len(Script(s))
  BY <1>4, <1>5 DEF Calls
<1>7. Len(rest[s]) > 1 /\ Len(rest[s]) <= Len(Script(s))
  BY <1>4, <1>6 DEF Done
<1>8. rest' \in [Sides -> Seq(CallSet)]
  BY <1>1, <1>4, HeadTailProperties DEF Returns
<1>9. Done(s)' = Done(s) + 1
  <2>1. Len(rest'[s]) = Len(rest[s]) - 1 /\ Len(rest[s]) \in Nat /\ Len(Script(s)) \in Nat
    BY <1>2, <1>4
  <2> QED BY <2>1, <1>3 DEF Done
<1>10. Done(Peer(s))' = Done(Peer(s))
  BY <1>2, <1>3 DEF Done
<1> QED BY <1>0, <1>2, <1>3, <1>4, <1>7, <1>8, <1>9, <1>10

(* A call that returns and leaves the sockets alone leads to a place.      *)
LEMMA ReturnPlaces ==
  ASSUME IInv, NEW s \in Sides, Connected(s),
         ~Calls(s, "close"), ~Calls(s, "shutdown"),
         Returns(s), UNCHANGED <<demo, sd>>,
         \A t \in Sides : ~Met(t) => /\ stream'[t] = stream[t]
                                     /\ written'[t] = written[t]
                                     /\ got'[t] = got[t]
  PROVE  Places'
<1>1. /\ Len(rest[s])' \in 1 .. Len(Script(s))
      /\ rest'[s] = Left(Script(s), Len(rest[s])')
      /\ Done(s)' = Done(s) + 1
      /\ rest'[Peer(s)] = rest[Peer(s)] /\ Done(Peer(s))' = Done(Peer(s))
      /\ Peer(s) # s /\ Peer(s) \in Sides
  BY AfterReturn
<1>2. \A t \in Sides : /\ Script(t)' = Script(t) /\ sd'[t] = sd[t]
                       /\ Connected(t)' = Connected(t) /\ Met(t)' = Met(t)
                       /\ t = s \/ t = Peer(s)
  BY DEF Script, Connected, Met, Peer, Sides
<1>3. PlaceOf(s)'
  BY <1>1, <1>2 DEF PlaceOf, IInv, Places, Connected, Met
<1>4. PlaceOf(Peer(s))'
  BY <1>1, <1>2 DEF PlaceOf, IInv, Places
<1>5. Sockets'
  <2>1. CASE s = "client"
    BY <1>1, <1>2, <2>1 DEF Sockets, IInv, Places, Peer, Sides
  <2>2. CASE s = "server"
    <3>1. Done("server") \in {0, 1, 3}
      BY <2>2, ServerCall, SomeCall
    <3>2. sd'["server"] = "open" => Done("server")' < 3
      BY <1>1, <1>2, <2>2, <3>1 DEF Sockets, IInv, Places
    <3>3. sd'["server"] = "shut" => Done("server")' > 2
      BY <1>1, <1>2, <2>2, <3>1 DEF Sockets, IInv, Places
    <3> QED BY <1>2, <2>2, <3>2, <3>3 DEF Sockets, IInv, Places, Sides
  <2> QED BY <2>1, <2>2 DEF Sides
<1> QED BY <1>2, <1>3, <1>4, <1>5 DEF Places

(* So does a step that moves nobody. *)
LEMMA StillPlaces ==
  ASSUME IInv, UNCHANGED <<demo, sd, rest>>,
         \A t \in Sides : ~Met(t) => /\ stream'[t] = stream[t]
                                     /\ written'[t] = written[t]
                                     /\ got'[t] = got[t]
  PROVE  Places'
<1>1. \A t \in Sides : PlaceOf(t)'
  BY DEF PlaceOf, IInv, Places, Script, Done, Met, Connected
<1>2. Sockets'
  BY DEF Sockets, IInv, Places, Script, Done, Met, Connected
<1> QED BY <1>1, <1>2 DEF Places

(* A write of which TCP takes something.                                   *)
LEMMA CallWriteKeeps ==
  ASSUME IInv, NEW s \in Sides, CallWrite(s)
  PROVE  IInv'
<1> DEFINE size == Head(rest[s]).size
<1>0. /\ stream \in [Sides -> 0 .. Capacity] /\ written \in [Sides -> Nat]
      /\ got \in [Sides -> Nat] /\ rest \in [Sides -> Seq(CallSet)]
      /\ Connected(s) /\ Calls(s, "write") /\ ~Calls(s, "close") /\ ~Calls(s, "shutdown")
      /\ demo \in Demos
  BY DEF IInv, TypeOK, CallWrite, Calls, CallSet
<1>1. /\ size \in Nat /\ size > 0 /\ size \in {1, Short, Long}
      /\ Len(rest[s]) > 0 /\ rest[s] # <<>>
  BY <1>0, SomeCall, NextCall, CallFields DEF Calls, IInv, Places, PlaceOf
<1>2. written[s] \in Nat /\ written[s] < size
  BY <1>0, <1>1 DEF IInv, Partly, Calls
<1>3. PICK n \in Taken(stream[s], size - written[s]) :
        /\ stream' = [stream EXCEPT ![s] = @ + n]
        /\ IF written[s] + n = size
             THEN Returns(s) /\ written' = [written EXCEPT ![s] = 0]
             ELSE UNCHANGED rest /\ written' = [written EXCEPT ![s] = @ + n]
  BY DEF CallWrite
<1>4. /\ n \in Nat /\ n > 0 /\ written[s] + n <= size
      /\ stream[s] + n \in Nat /\ stream[s] + n > 0 /\ stream[s] + n <= Capacity
  <2>1. n \in 1 .. size - written[s] /\ stream[s] + n <= Capacity
    BY <1>3 DEF Taken
  <2>2. stream[s] \in Nat
    BY <1>0, ConstantsType
  <2> QED BY SMTT(30), <1>1, <1>2, <2>1, <2>2
<1>5. UNCHANGED <<demo, sd, got, reset, killed>> /\ ~Gone(s) /\ s \notin reset
  BY DEF CallWrite
<1>6. /\ stream'[s] = stream[s] + n
      /\ \A t \in Sides : t # s => stream'[t] = stream[t] /\ written'[t] = written[t]
      /\ stream' \in [Sides -> 0 .. Capacity]
  BY <1>0, <1>3, <1>4, ConstantsType
<1>7. \A t \in Sides : /\ Script(t)' = Script(t) /\ sd'[t] = sd[t] /\ got'[t] = got[t]
                       /\ Connected(t)' = Connected(t) /\ Met(t)' = Met(t)
                       /\ Calm(t)' = Calm(t) /\ Done(t) \in Nat
                       /\ stream[t] \in Nat /\ written[t] \in Nat /\ got[t] \in Nat
  BY <1>0, <1>5, NextCall, ConstantsType DEF Script, Connected, Met, Calm
<1>8. Met(s) /\ \A t \in Sides : ~Met(t) => t # s
  BY <1>0 DEF Met
<1>9. Resets'
  BY <1>5 DEF IInv, Resets, Gone
<1>a. CASE written[s] + n = size
  <2>1. Returns(s) /\ written'[s] = 0 /\ written' \in [Sides -> Nat]
    BY <1>0, <1>a, <1>3
  <2>2. /\ Done(s)' = Done(s) + 1 /\ Done(Peer(s))' = Done(Peer(s))
        /\ rest'[Peer(s)] = rest[Peer(s)]
        /\ Peer(s) # s /\ Peer(s) \in Sides
        /\ rest' \in [Sides -> Seq(CallSet)]
    BY <1>0, <1>5, <2>1, AfterReturn
  <2>3. TypeOK'
    BY <1>0, <1>5, <1>6, <2>1, <2>2, ConstantsType DEF IInv, TypeOK, CallSet
  <2>4. Places'
    BY <1>0, <1>5, <1>6, <1>7, <1>8, <2>1, ReturnPlaces
  <2>5. Partly'
    BY <1>6, <2>1, <2>2 DEF IInv, Partly, Sides, Peer
  <2>a. CASE s = "client"
    <3>1. Done("client") = 0 \/ Done("client") = 2
      BY <1>0, <2>a, ClientCall
    <3>2. Request' /\ AnswerAfterRequest' /\ Asked'
      BY <1>4, <1>6, <1>7, <2>2, <2>a, <3>1
      DEF IInv, Request, AnswerAfterRequest, Asked, Sides, Peer
    <3>3. Answer'
      BY <1>6, <1>7, <2>2, <2>a, <3>1 DEF IInv, Answer, Sides, Peer
    <3>4. Second'
      BY <1>4, <1>5, <1>6, <1>7, <2>2, <2>a, <3>1 DEF IInv, Second, Sides, Peer
    <3> QED BY <1>9, <2>3, <2>4, <2>5, <3>2, <3>3, <3>4 DEF IInv
  <2>b. CASE s = "server"
    <3>1. Done("server") = 1
      BY <1>0, <2>b, ServerCall
    <3>2. Request' /\ AnswerAfterRequest' /\ Asked'
      <4>1. Done("server")' = 2 /\ Done("client")' = Done("client") /\ Done("server") > 0
        BY <2>2, <2>b, <3>1 DEF Peer
      <4>2. got["server"] > 0 \/ sd["client"] = "closed"
        BY <1>0, <2>b, <4>1 DEF IInv, Request
      <4> QED BY <1>7, <4>1, <4>2 DEF IInv, Request, AnswerAfterRequest, Asked, Sides
    <3>3. Answer'
      BY <1>4, <1>6, <1>7, <2>2, <2>b, <3>1 DEF IInv, Answer, Sides, Peer
    <3>4. Second'
      BY SMTT(30), <1>5, <1>6, <1>7, <1>8, <2>2, <2>b, <3>1 DEF IInv, Second, Sides, Peer
    <3> QED BY <1>9, <2>3, <2>4, <2>5, <3>2, <3>3, <3>4 DEF IInv
  <2> QED BY <2>a, <2>b DEF Sides
<1>b. CASE written[s] + n # size
  <2>0. written[s] + n \in Nat /\ written[s] + n < size
    BY <1>1, <1>2, <1>4, <1>b
  <2>1. /\ UNCHANGED rest /\ written'[s] = written[s] + n /\ written'[s] < size
        /\ written' \in [Sides -> Nat]
    BY <1>0, <1>3, <1>b, <2>0
  <2>2. \A t \in Sides : Done(t)' = Done(t)
    BY <1>7, <2>1 DEF Done
  <2>3. TypeOK'
    <3>1. \A t \in Sides : written'[t] < Short \/ written'[t] < Long
      <4>1. written'[s] < Short \/ written'[s] < Long
        BY <1>1, <2>0, <2>1, ConstantsType
      <4> QED BY <1>6, <4>1 DEF IInv, TypeOK
    <3> QED BY <1>0, <1>5, <1>6, <2>1, <3>1 DEF IInv, TypeOK
  <2>4. Places'
    BY <1>5, <1>6, <1>7, <1>8, <2>1, StillPlaces
  <2>5. Partly'
    BY <1>0, <1>6, <2>1 DEF IInv, Partly, Calls
  <2>6. Request' /\ AnswerAfterRequest' /\ Asked'
    <3>1. s = "server" => Done("server") = 1
      BY <1>0, ServerCall
    <3>2. s = "server" => got["server"] > 0 \/ sd["client"] = "closed"
      BY <1>0, <3>1 DEF IInv, Request
    <3>3. Request' /\ AnswerAfterRequest'
      BY <1>6, <1>7, <2>2, <3>2 DEF IInv, Request, AnswerAfterRequest, Sides
    <3>4. CASE s = "client"
      BY <1>4, <1>6, <1>7, <2>2, <3>3, <3>4 DEF IInv, Asked, Sides
    <3>5. CASE s = "server"
      <4>1. stream["server"] <= written["server"]
        BY <1>0, <3>1, <3>5 DEF IInv, Asked
      <4>2. stream'["server"] <= written'["server"]
        BY <1>2, <1>4, <1>6, <1>7, <2>1, <3>5, <4>1
      <4> QED BY <1>6, <1>7, <2>2, <3>3, <3>5, <4>2 DEF IInv, Asked, Sides
    <3> QED BY <3>4, <3>5 DEF Sides
  <2>7. Answer'
    BY <1>4, <1>6, <1>7, <2>2 DEF IInv, Answer, Sides
  <2>8. Second'
    BY <1>4, <1>5, <1>6, <1>7, <2>2 DEF IInv, Second, Sides
  <2> QED BY <1>9, <2>3, <2>4, <2>5, <2>6, <2>7, <2>8 DEF IInv
<1> QED BY <1>a, <1>b

(* A side that has failed or ended calls nothing more.                     *)
LEMMA Emptied ==
  ASSUME IInv, NEW s \in Sides, rest' = [rest EXCEPT ![s] = <<>>], UNCHANGED demo
  PROVE  /\ \A t \in Sides : Script(t)' = Script(t)
         /\ rest'[s] = Left(Script(s), 0) /\ Len(rest'[s]) = 0
         /\ Done(s)' = Len(Script(s))
         /\ rest'[Peer(s)] = rest[Peer(s)] /\ Done(Peer(s))' = Done(Peer(s))
         /\ Peer(s) # s /\ Peer(s) \in Sides
         /\ \A t \in Sides : t = s \/ t = Peer(s)
         /\ rest' \in [Sides -> Seq(CallSet)]
         /\ Len(Script(s)) \in Nat /\ Len(Script(s)) > 2
         /\ s = "server" /\ demo = "Prog3" => Len(Script(s)) > 4
<1>0. Peer(s) # s /\ Peer(s) \in Sides /\ \A t \in Sides : t = s \/ t = Peer(s)
  BY DEF Peer, Sides
<1>1. rest \in [Sides -> Seq(CallSet)] /\ demo \in Demos
  BY DEF IInv, TypeOK, CallSet
<1>2. /\ rest'[s] = <<>> /\ rest'[Peer(s)] = rest[Peer(s)]
      /\ rest' \in [Sides -> Seq(CallSet)]
  BY <1>0, <1>1, EmptySeq
<1>3. \A t \in Sides : Script(t)' = Script(t)
  BY DEF Script
<1>4. /\ Script(s) \in Seq(CallSet) /\ Len(Script(s)) > 2 /\ Len(Script(s)) \in Nat
      /\ s = "server" /\ demo = "Prog3" => Len(Script(s)) > 4
  BY <1>1, ClientScript, ServerScript DEF Sides
<1>5. Left(Script(s), 0) = <<>>
  <2>1. Left(Script(s), 0) \in Seq(CallSet) /\ Len(Left(Script(s), 0)) = 0
    BY <1>4, LeftCalls
  <2>2. Left(Script(s), 0) # <<>> => Len(Left(Script(s), 0)) \in Nat \ {0}
    BY <2>1, EmptySeq
  <2> QED BY <2>1, <2>2
<1>6. Len(rest'[s]) = 0
  BY <1>2, EmptySeq
<1>7. Done(s)' = Len(Script(s))
  BY <1>3, <1>4, <1>6 DEF Done
<1>8. Done(Peer(s))' = Done(Peer(s))
  BY <1>0, <1>2, <1>3 DEF Done
<1> QED BY <1>0, <1>2, <1>3, <1>4, <1>5, <1>6, <1>7, <1>8

(* A side that has ended has made all its calls.                           *)
LEMMA Ended ==
  ASSUME IInv, NEW s \in Sides, sd[s] = "closed"
  PROVE  Done(s) > 2 /\ (s = "server" /\ demo = "Prog3" => Done(s) > 4)
                     /\ (s = "client" /\ demo = "Prog3" => Done(s) > 3)
<1>1. Len(rest[s]) = 0
  BY DEF IInv, Places, PlaceOf
<1>2. demo \in Demos
  BY DEF IInv, TypeOK
<1>3. CASE s = "client"
  BY <1>1, <1>2, <1>3, ClientScript DEF Done
<1>4. CASE s = "server"
  BY <1>1, <1>2, <1>4, ServerScript DEF Done
<1> QED BY <1>3, <1>4 DEF Sides

(* A write that is answered with a reset.                                  *)
LEMMA CallWriteGoneKeeps ==
  ASSUME IInv, NEW s \in Sides, CallWriteGone(s)
  PROVE  IInv'
<1>0. /\ written \in [Sides -> Nat] /\ rest \in [Sides -> Seq(CallSet)]
      /\ Connected(s) /\ Calls(s, "write") /\ ~Calls(s, "close") /\ ~Calls(s, "shutdown")
      /\ Gone(s) /\ Returns(s) /\ reset' = reset \union {s}
      /\ written' = [written EXCEPT ![s] = 0]
      /\ UNCHANGED <<demo, sd, stream, got, killed>>
  BY DEF IInv, TypeOK, CallWriteGone, Calls, CallSet
<1>1. /\ written' \in [Sides -> Nat] /\ written'[s] = 0
      /\ \A t \in Sides : t # s => written'[t] = written[t]
  BY <1>0
<1>2. /\ Done(s)' = Done(s) + 1 /\ Done(Peer(s))' = Done(Peer(s))
      /\ rest'[Peer(s)] = rest[Peer(s)]
      /\ Peer(s) # s /\ Peer(s) \in Sides
      /\ rest' \in [Sides -> Seq(CallSet)]
  BY <1>0, AfterReturn
<1>3. /\ \A t \in Sides : /\ Connected(t)' = Connected(t) /\ Met(t)' = Met(t)
                          /\ Done(t) \in Nat
      /\ Calm(s)' = FALSE /\ Calm(Peer(s))' = Calm(Peer(s))
  BY <1>0, <1>2, NextCall DEF Connected, Met, Calm
<1>4. sd[Peer(s)] = "closed" /\ Done(Peer(s)) > 2
  BY <1>0, <1>2, Ended DEF Gone
<1>5. TypeOK'
  BY <1>0, <1>1, <1>2, ConstantsType DEF IInv, TypeOK, CallSet
<1>6. Places'
  <2>1. \A t \in Sides : ~Met(t) => written'[t] = written[t]
    BY <1>0, <1>1 DEF Met
  <2> QED BY <1>0, <2>1, ReturnPlaces
<1>7. Partly'
  BY <1>1, <1>2 DEF IInv, Partly, Sides, Peer
<1>8. Resets'
  BY <1>0 DEF IInv, Resets, Gone
<1>9. Second'
  BY <1>0 DEF Second
<1>a. CASE s = "client"
  <2>1. Request' /\ AnswerAfterRequest' /\ Asked'
    BY <1>0, <1>1, <1>2, <1>3, <1>4, <1>a
    DEF IInv, Request, AnswerAfterRequest, Asked, Peer, Sides
  <2>2. Answer'
    BY <1>3, <1>a DEF Answer
  <2> QED BY <1>5, <1>6, <1>7, <1>8, <1>9, <2>1, <2>2 DEF IInv
<1>b. CASE s = "server"
  <2>0. Done("server") = 1
    BY <1>0, <1>b, ServerCall
  <2>1. Request' /\ AnswerAfterRequest' /\ Asked'
    BY <1>0, <1>2, <1>3, <1>4, <1>b, <2>0
    DEF IInv, Request, AnswerAfterRequest, Asked, Peer, Sides
  <2>2. Answer'
    BY <1>0, <1>2, <1>3, <1>4, <1>b DEF IInv, Answer, Peer
  <2> QED BY <1>5, <1>6, <1>7, <1>8, <1>9, <2>1, <2>2 DEF IInv
<1> QED BY <1>a, <1>b DEF Sides

(* The server shuts down its writing side.                                 *)
LEMMA CallShutdownKeeps ==
  ASSUME IInv, NEW s \in Sides, CallShutdown(s)
  PROVE  IInv'
<1>0. /\ sd \in [Sides -> {"none", "listening", "deaf", "failed", "open", "shut", "closed"}]
      /\ Connected(s) /\ Calls(s, "shutdown") /\ ~Calls(s, "close")
      /\ sd' = [sd EXCEPT ![s] = "shut"] /\ Returns(s)
      /\ UNCHANGED <<demo, stream, written, got, reset, killed>>
  BY DEF IInv, TypeOK, CallShutdown, Calls
<1>1. s = "server" /\ Done("server") = 2 /\ Connected("server")
  BY <1>0, ClientCall, ServerCall DEF Sides
<1>2. /\ Done("server")' = 3 /\ Done("client")' = Done("client")
      /\ Len(rest["server"])' \in 1 .. Len(Script("server"))
      /\ rest'["server"] = Left(Script("server"), Len(rest["server"])')
      /\ rest'["client"] = rest["client"]
      /\ rest' \in [Sides -> Seq(CallSet)]
      /\ Script("client")' = Script("client") /\ Script("server")' = Script("server")
  BY <1>0, <1>1, AfterReturn DEF Peer
<1>3. /\ sd'["server"] = "shut" /\ sd'["client"] = sd["client"]
      /\ sd' \in [Sides -> {"none", "listening", "deaf", "failed", "open", "shut", "closed"}]
  BY <1>0, <1>1 DEF Sides
<1>4. /\ Connected("server")' /\ Met("server")' /\ Met("server")
      /\ Connected("client")' = Connected("client") /\ Met("client")' = Met("client")
      /\ Calm("client")' = Calm("client")
  BY <1>0, <1>1, <1>3 DEF Connected, Met, Calm
<1>5. TypeOK'
  BY <1>0, <1>2, <1>3, ConstantsType DEF IInv, TypeOK, CallSet
<1>6. Places'
  <2>1. PlaceOf("client")'
    BY <1>0, <1>2, <1>3, <1>4 DEF IInv, Places, PlaceOf, Sides
  <2>2. PlaceOf("server")'
    BY <1>2, <1>3, <1>4 DEF PlaceOf
  <2>3. Sockets'
    BY <1>2, <1>3, <1>4 DEF IInv, Places, Sockets
  <2> QED BY <2>1, <2>2, <2>3 DEF Places, Sides
<1>7. Partly'
  <2>1. written'["server"] = 0
    <3>1. Len(rest["server"]) > 0 /\ Head(rest["server"]).call # "write"
      BY <1>0, <1>1 DEF IInv, Places, PlaceOf, Calls, Sides
    <3>2. written["server"] \in Nat
      BY DEF IInv, TypeOK, Sides
    <3> QED BY <1>0, <3>1, <3>2 DEF IInv, Partly, Sides
  <2> QED BY <1>0, <1>2, <2>1 DEF IInv, Partly, Sides
<1>8. Resets'
  <2>1. sd["server"] # "closed" /\ \A t \in Sides : Peer(t) \in Sides
    BY <1>1 DEF Connected, Peer, Sides
  <2>2. reset \subseteq Sides /\ \A t \in reset : sd[Peer(t)] = "closed"
    BY DEF IInv, TypeOK, Resets, Gone
  <2> QED BY <1>0, <1>3, <2>1, <2>2 DEF Resets, Gone, Sides
<1>9. Request' /\ AnswerAfterRequest' /\ Asked'
  BY <1>0, <1>1, <1>2, <1>3, <1>4 DEF IInv, Request, AnswerAfterRequest, Asked
<1>10. Answer' /\ Second'
  BY <1>0, <1>1, <1>2, <1>3, <1>4 DEF IInv, Answer, Second
<1> QED BY <1>5, <1>6, <1>7, <1>8, <1>9, <1>10 DEF IInv

(* A side reads what is there, or nothing if nothing comes any more.       *)
LEMMA CallReadKeeps ==
  ASSUME IInv, NEW s \in Sides, CallRead(s)
  PROVE  IInv'
<1> DEFINE p == Peer(s)
<1>0. /\ stream \in [Sides -> 0 .. Capacity] /\ written \in [Sides -> Nat]
      /\ got \in [Sides -> Nat] /\ rest \in [Sides -> Seq(CallSet)]
      /\ Connected(s) /\ Calls(s, "read") /\ ~Calls(s, "close") /\ ~Calls(s, "shutdown")
      /\ Returns(s) /\ Readable(s)
      /\ UNCHANGED <<demo, sd, written, reset, killed>>
  BY DEF IInv, TypeOK, CallRead, Calls, CallSet
<1>1. Head(rest[s]).size \in Nat /\ Head(rest[s]).size > 0
  BY <1>0, SomeCall
<1>2. PICK n \in Returned(stream[p], Head(rest[s]).size) :
        /\ stream' = [stream EXCEPT ![p] = @ - n]
        /\ got' = [got EXCEPT ![s] = @ + n]
  BY DEF CallRead
<1>3. p # s /\ p \in Sides
  BY DEF Peer, Sides
<1>4. /\ n \in Nat /\ n <= stream[p] /\ stream[p] \in Nat
      /\ stream[p] - n \in 0 .. Capacity
      /\ stream[p] > 0 => n > 0
  <2>1. stream[p] \in Nat /\ stream[p] <= Capacity
    BY <1>0, <1>3, ConstantsType
  <2>2. IF stream[p] > 0 THEN n \in 1 .. Head(rest[s]).size /\ n <= stream[p] ELSE n = 0
    BY <1>2 DEF Returned
  <2> QED BY <1>1, <2>1, <2>2, ConstantsType
<1>5. /\ stream' \in [Sides -> 0 .. Capacity] /\ got' \in [Sides -> Nat]
      /\ stream'[p] = stream[p] - n /\ stream'[s] = stream[s]
      /\ got'[s] = got[s] + n /\ got'[p] = got[p]
      /\ got[s] \in Nat /\ got[p] \in Nat /\ stream[s] \in Nat
  BY SMTT(30), <1>0, <1>2, <1>3, <1>4, ConstantsType
<1>6. /\ Done(s)' = Done(s) + 1 /\ Done(p)' = Done(p)
      /\ rest'[p] = rest[p]
      /\ rest' \in [Sides -> Seq(CallSet)]
  BY <1>0, AfterReturn
<1>7. \A t \in Sides : /\ Connected(t)' = Connected(t) /\ Met(t)' = Met(t)
                       /\ Done(t) \in Nat /\ Calm(t)' = Calm(t)
                       /\ t = s \/ t = p
  BY SMTT(30), <1>0, NextCall DEF Connected, Met, Calm, Peer, Sides
<1>8. TypeOK'
  BY <1>0, <1>5, <1>6, ConstantsType DEF IInv, TypeOK, CallSet
<1>9. Places'
  <2>1. Met(s)
    BY <1>0 DEF Met
  <2>2. ~Met(p) => stream'[p] = stream[p]
    <3>1. ~Met(p) => stream[p] = 0
      BY <1>3 DEF IInv, Places, PlaceOf
    <3> QED BY <1>4, <1>5, <3>1
  <2>3. \A t \in Sides : ~Met(t) => /\ stream'[t] = stream[t]
                                    /\ written'[t] = written[t]
                                    /\ got'[t] = got[t]
    BY <1>0, <1>5, <1>7, <2>1, <2>2
  <2> QED BY <1>0, <2>3, ReturnPlaces
<1>10. Partly'
  <2>1. written[s] = 0
    <3>1. Len(rest[s]) > 0 /\ Head(rest[s]).call # "write"
      BY <1>0 DEF IInv, Places, PlaceOf, Calls
    <3>2. written[s] \in Nat
      BY <1>0
    <3> QED BY <3>1, <3>2 DEF IInv, Partly
  <2>2. written' = written
    BY <1>0
  <2>3. ASSUME NEW t \in Sides, Len(rest'[t]) > 0, written'[t] > 0
        PROVE  Head(rest'[t]).call = "write" /\ written'[t] < Head(rest'[t]).size
    <3>1. t = p
      BY <1>7, <2>1, <2>2, <2>3
    <3> QED BY <1>6, <2>2, <2>3, <3>1 DEF IInv, Partly
  <2> QED BY <2>3 DEF Partly
<1>11. Resets'
  BY <1>0 DEF IInv, Resets, Gone
(* A read that returns nothing is told that nothing will come. *)
<1>12. n = 0 => stream[p] = 0 /\ (sd[p] \in {"shut", "closed"} \/ s \in reset)
  BY <1>0, <1>4 DEF Readable, Ready
<1>13. s \in reset => sd[p] = "closed"
  BY DEF IInv, Resets, Gone
<1>a. CASE s = "client"
  <2>0. p = "server" /\ Done("client") = 1 /\ sd["client"] = "open"
    BY <1>0, <1>a, ClientCall DEF Peer, Connected, IInv, Places, Sockets
  <2>00. /\ stream'["server"] <= stream["server"] /\ stream["server"] \in Nat
         /\ stream'["server"] \in Nat /\ stream'["client"] = stream["client"]
         /\ got'["server"] = got["server"] /\ Done("server")' = Done("server")
         /\ Done("client")' = 2
         /\ Connected("server")' = Connected("server")
         /\ sd' = sd /\ written' = written
    <3>1. stream'[p] <= stream[p] /\ stream'[p] \in Nat
      BY <1>4, <1>5
    <3>2. Connected(p)' = Connected(p) /\ sd' = sd /\ written' = written
      BY <1>0, <1>3, <1>7
    <3> QED BY <1>4, <1>5, <1>6, <1>a, <2>0, <3>1, <3>2
  <2>1. Request'
    BY <2>00 DEF IInv, Request
  <2>2. AnswerAfterRequest'
    <3>1. n > 0 => stream["server"] > 0
      BY <1>4, <2>0
    <3>2. n > 0 => got["server"] > 0
      BY <2>0, <3>1 DEF IInv, Request
    <3> QED BY <1>4, <1>5, <1>a, <2>0, <3>2 DEF IInv, AnswerAfterRequest
  <2>3. Asked'
    <3>1. written["server"] \in Nat
      BY <1>0 DEF Sides
    <3> QED BY <2>0, <2>00, <3>1 DEF IInv, Asked
  <2>4. Answer'
    <3>1. Calm("client") => n > 0
      <4> SUFFICES ASSUME Calm("client"), n = 0 PROVE FALSE
        BY <1>4
      <4>1. stream["server"] = 0 /\ sd["server"] \in {"shut", "closed"}
        BY <1>12, <1>a, <2>0 DEF Calm
      <4>2. Met("server") /\ Done("server") > 1
        <5>1. CASE sd["server"] = "shut"
          BY <1>7, <5>1 DEF Met, Connected, IInv, Places, Sockets, Sides
        <5>2. CASE sd["server"] = "closed"
          BY <1>7, <5>2, Ended DEF Met, Sides
        <5> QED BY <4>1, <5>1, <5>2
      <4> QED BY <2>0, <4>1, <4>2 DEF IInv, Answer
    <3> QED BY SMTT(30), <1>4, <1>5, <1>6, <1>7, <1>a, <2>0, <3>1 DEF Answer, Sides
  <2>5. Second'
    BY SMTT(30), <1>0, <1>5, <1>6, <1>7, <1>a, <2>0 DEF IInv, Second, Sides
  <2> QED BY <1>8, <1>9, <1>10, <1>11, <2>1, <2>2, <2>3, <2>4, <2>5 DEF IInv
<1>b. CASE s = "server"
  <2>0. /\ p = "client" /\ Connected("server") /\ Met("server") /\ Met("client")
        /\ Done("server") = 0 \/ (Done("server") = 3 /\ demo = "Prog3")
    BY <1>0, <1>b, ServerCall DEF Peer, Met, IInv, Places, Sockets
  <2>00. n = 0 => stream["client"] = 0 /\ sd["client"] = "closed"
    BY <1>12, <1>13, <2>0 DEF IInv, Places, Sockets
  <2>1. Request'
    <3>1. Done("server") = 0 => got'["server"] > 0 \/ sd["client"] = "closed"
      BY <1>4, <1>5, <1>b, <2>00
    <3>2. Done("server") = 3 => got["server"] > 0 \/ sd["client"] = "closed"
      BY <2>0 DEF IInv, Request
    <3>3. got'["server"] > 0 \/ sd["client"] = "closed"
      BY <1>4, <1>5, <1>b, <2>0, <3>1, <3>2
    <3>4. Done("server")' # 0
      BY <1>6, <1>b, <2>0
    <3> QED BY <1>0, <3>3, <3>4 DEF Request
  <2>2. AnswerAfterRequest'
    BY <1>4, <1>5, <1>b, <2>0 DEF IInv, AnswerAfterRequest
  <2>3. Asked'
    <3>1. Done("server")' = Done("server") + 1 /\ stream'["server"] = stream["server"]
      BY <1>5, <1>6, <1>b, <2>0
    <3>2. Connected("server")' /\ written' = written
      BY <1>0, <1>7, <2>0 DEF Sides
    <3>3. Done("server") = 0 => stream["server"] <= written["server"]
      BY <2>0 DEF IInv, Asked
    <3> QED BY <2>0, <3>1, <3>2, <3>3 DEF Asked
  <2>4. Answer'
    BY <1>5, <1>6, <1>7, <1>b, <2>0 DEF IInv, Answer, Sides
  <2>5. Second'
    <3> SUFFICES ASSUME demo = "Prog3", killed = {}, reset = {} PROVE Second'
      BY <1>0 DEF Second
    <3>1. Met("client") /\ Done("client") > 1 => got["client"] > 0
      BY DEF IInv, Answer, Calm
    <3>2. Done("server") = 0 => Done("client") <= 1 /\ n > 0
      <4>1. Done("server") = 0 => got["client"] = 0
        BY <1>5, <1>b, <2>0 DEF IInv, Request, AnswerAfterRequest
      <4>2. Done("server") = 0 => Done("client") <= 1
        BY <1>7, <2>0, <3>1, <4>1 DEF Sides
      <4>3. sd["client"] = "closed" => Done("client") > 2
        BY Ended DEF Sides
      <4> QED BY <1>4, <1>7, <2>00, <4>2, <4>3 DEF Sides
    <3>3. Done("server") = 3 => got["server"] > 0 /\ n > 0
      <4>1. Done("server") = 3 => got["server"] > 0
        BY <2>0 DEF IInv, Second
      <4>2. sd["client"] = "closed" => Done("client") > 2
        BY Ended DEF Sides
      <4>3. Done("server") = 3 /\ Done("client") > 2 => stream["client"] > 0
        BY <2>0 DEF IInv, Second
      <4> QED BY <1>4, <2>00, <4>1, <4>2, <4>3
    <3>4. got'["server"] = got["server"] + n /\ got["server"] \in Nat
      BY <1>5, <1>b
    <3>5. Done("server")' = Done("server") + 1 /\ Done("client")' = Done("client")
      BY <1>6, <1>b, <2>0
    <3>6. Done("client") \in Nat
      BY <1>7 DEF Sides
    <3>7. CASE Done("server") = 0
      BY <1>4, <3>2, <3>4, <3>5, <3>6, <3>7 DEF Second
    <3>8. CASE Done("server") = 3
      BY <1>4, <3>3, <3>4, <3>5, <3>6, <3>8 DEF Second
    <3> QED BY <2>0, <3>7, <3>8
  <2> QED BY <1>8, <1>9, <1>10, <1>11, <2>1, <2>2, <2>3, <2>4, <2>5 DEF IInv
<1> QED BY <1>a, <1>b DEF Sides

(* A side ends: it has made all its calls, or it is killed.                *)
LEMMA LeaveKeeps ==
  ASSUME IInv, NEW s \in Sides, Connected(s), Leave(s),
         killed' \in {killed, killed \union {s}},
         killed' = {} => Calls(s, "close")
  PROVE  IInv'
<1> DEFINE p == Peer(s)
<1>0. /\ stream \in [Sides -> 0 .. Capacity] /\ reset \subseteq Sides /\ killed \subseteq Sides
      /\ sd \in [Sides -> {"none", "listening", "deaf", "failed", "open", "shut", "closed"}]
      /\ UNCHANGED <<demo, written, got>>
      /\ sd' = [sd EXCEPT ![s] = "closed"] /\ rest' = [rest EXCEPT ![s] = <<>>]
  BY DEF IInv, TypeOK, Leave
<1>1. /\ \A t \in Sides : Script(t)' = Script(t)
      /\ rest'[s] = Left(Script(s), 0) /\ Len(rest'[s]) = 0
      /\ Done(s)' \in Nat /\ Done(s)' > 2
      /\ s = "server" /\ demo = "Prog3" => Done(s)' > 4
      /\ rest'[p] = rest[p] /\ Done(p)' = Done(p)
      /\ p # s /\ p \in Sides
      /\ \A t \in Sides : t = s \/ t = p
      /\ rest' \in [Sides -> Seq(CallSet)]
      /\ Len(Script(s)) \in Nat
  <2>1. /\ Done(s)' = Len(Script(s)) /\ Len(Script(s)) \in Nat /\ Len(Script(s)) > 2
        /\ s = "server" /\ demo = "Prog3" => Len(Script(s)) > 4
    BY <1>0, Emptied
  <2>2. /\ Done(s)' \in Nat /\ Done(s)' > 2
        /\ s = "server" /\ demo = "Prog3" => Done(s)' > 4
    BY <2>1
  <2> QED BY <1>0, <2>1, <2>2, Emptied
<1>2. /\ sd'[s] = "closed" /\ sd'[p] = sd[p]
      /\ sd' \in [Sides -> {"none", "listening", "deaf", "failed", "open", "shut", "closed"}]
      /\ ~Connected(s)' /\ Connected(p)' = Connected(p)
      /\ Met(s) /\ Met(s)' /\ Met(p)' = Met(p)
  BY <1>0, <1>1 DEF Connected, Met
(* What is lost is lost with a reset, if there is anyone to reset. *)
<1>3. /\ stream' \in [Sides -> 0 .. Capacity]
      /\ stream'[s] \in {0, stream[s]} /\ stream'[p] \in {0, stream[p]}
      /\ reset \subseteq reset' /\ reset' \subseteq reset \union {p}
      /\ (stream'[s] = stream[s] /\ stream'[p] = stream[p]) \/ p \in reset' \/ Gone(s)
  <2>1. CASE stream[p] > 0
    <3>1. /\ reset' = IF Gone(s) THEN reset ELSE reset \union {p}
          /\ \E n \in {0, stream[s]} : stream' = [stream EXCEPT ![p] = 0, ![s] = n]
      BY <2>1 DEF Leave
    <3> QED BY <1>0, <1>1, <3>1, ConstantsType
  <2>2. CASE ~(stream[p] > 0)
    BY <1>0, <2>2 DEF Leave
  <2> QED BY <2>1, <2>2
<1>4. \A t \in Sides : stream[t] \in Nat /\ stream'[t] \in Nat
  <2>1. \A t \in Sides : stream[t] \in 0 .. Capacity /\ stream'[t] \in 0 .. Capacity
    BY <1>0, <1>3
  <2> QED BY <2>1, ConstantsType
<1>5. TypeOK'
  BY <1>0, <1>1, <1>2, <1>3, ConstantsType DEF IInv, TypeOK, CallSet
<1>6. Places'
  <2>1. PlaceOf(s)'
    BY <1>1, <1>2 DEF PlaceOf
  <2>2. PlaceOf(p)'
    BY <1>0, <1>1, <1>2, <1>3 DEF IInv, Places, PlaceOf
  <2>3. Sockets'
    <3>1. CASE s = "client"
      BY <1>1, <1>2, <3>1 DEF IInv, Places, Sockets, Peer
    <3>2. CASE s = "server"
      BY <1>1, <1>2, <3>2 DEF IInv, Places, Sockets, Peer
    <3> QED BY <3>1, <3>2 DEF Sides
  <2> QED BY <1>1, <2>1, <2>2, <2>3 DEF Places
<1>7. Partly'
  BY <1>0, <1>1 DEF IInv, Partly
<1>8. Resets'
  <2>1. Peer(p) = s
    BY DEF Peer, Sides
  <2>2. \A t \in reset' : t = p \/ t \in reset
    BY <1>3
  <2>3. reset \subseteq Sides /\ \A t \in reset : sd[Peer(t)] = "closed" /\ Peer(t) \in Sides
    BY <1>0 DEF IInv, Resets, Gone, Peer, Sides
  <2> QED BY <1>1, <1>2, <2>1, <2>2, <2>3 DEF Resets, Gone
<1>9. killed' = {} => killed = {} /\ Calls(s, "close")
  BY <1>0
<1>10. reset' = {} => reset = {} /\ p \notin reset'
  BY <1>3
<1>a. CASE s = "client"
  <2>0. p = "server" /\ sd'["client"] = "closed" /\ Done("server")' = Done("server")
    BY <1>1, <1>2, <1>a DEF Peer
  <2>1. Request' /\ AnswerAfterRequest' /\ Asked'
    <3>1. ~Connected("server") \/ Done("server") >= 2 \/ stream["server"] <= written["server"]
      BY NextCall DEF IInv, Asked, Sides
    <3>2. stream'["server"] <= stream["server"] /\ stream'["server"] \in Nat
          /\ stream["server"] \in Nat /\ written["server"] \in Nat
      BY <1>3, <1>4, <2>0 DEF Sides, IInv, TypeOK
    <3>3. Connected("server") /\ Done("server") < 2 => stream'["server"] <= written["server"]
      BY <3>2 DEF IInv, Asked
    <3> QED BY <1>0, <1>2, <2>0, <3>3 DEF IInv, Request, AnswerAfterRequest, Asked
  <2>2. Answer'
    <3> SUFFICES ASSUME killed' = {}, "client" \notin reset'
                 PROVE  got["client"] > 0
      BY <1>0, <1>1, <1>a DEF Answer, Calm
    <3>1. Calm("client") /\ Calls("client", "close")
      BY <1>3, <1>9, <1>a DEF Calm
    <3>2. Done("client") > 1
      BY <1>a, <3>1, ClientCall
    <3> QED BY <1>2, <1>a, <3>1, <3>2 DEF IInv, Answer
  <2>3. Second'
    <3> SUFFICES ASSUME demo = "Prog3", killed' = {}, reset' = {} PROVE Second'
      BY <1>0 DEF Second
    <3>1. killed = {} /\ reset = {} /\ Calls("client", "close") /\ "server" \notin reset'
      BY <1>9, <1>10, <1>a, <2>0
    <3>2. Done("client") > 2
      BY <1>a, <3>1, ClientCall
    <3>3. Done("server") < 4 => stream'["client"] = stream["client"]
      BY <1>3, <1>a, <2>0, <3>1, Ended, NextCall DEF Gone, Sides
    <3> QED BY <1>0, <1>2, <1>a, <2>0, <3>1, <3>2, <3>3 DEF IInv, Second
  <2> QED BY <1>5, <1>6, <1>7, <1>8, <2>1, <2>2, <2>3 DEF IInv
<1>b. CASE s = "server"
  <2>0. p = "client" /\ sd'["server"] = "closed" /\ Done("client")' = Done("client")
        /\ sd'["client"] = sd["client"]
    BY <1>1, <1>2, <1>b DEF Peer
  <2>1. Request' /\ AnswerAfterRequest' /\ Asked'
    <3>1. stream'["server"] > 0 => stream["server"] > 0
      BY <1>3, <1>4, <1>b
    <3> QED BY <1>0, <1>1, <1>2, <1>b, <2>0, <3>1
          DEF IInv, Request, AnswerAfterRequest, Asked
  <2>2. Answer'
    <3> SUFFICES ASSUME killed' = {}, "client" \notin reset'
                 PROVE  Answer'
      BY DEF Answer, Calm
    <3>1. Calm("client") /\ Calls("server", "close")
      BY <1>3, <1>9, <1>b DEF Calm
    <3>2. Done("server") > 1
      BY <1>b, <3>1, ServerCall
    <3>3. Done("client") < 2 => stream'["server"] = stream["server"]
      BY <1>3, <1>b, <2>0, Ended, NextCall DEF Gone, Sides
    <3> QED BY <1>0, <1>2, <1>b, <2>0, <3>1, <3>2, <3>3 DEF IInv, Answer
  <2>3. Second'
    <3> SUFFICES ASSUME demo = "Prog3", killed' = {}, reset' = {} PROVE Second'
      BY <1>0 DEF Second
    <3>1. killed = {} /\ reset = {} /\ Calls("server", "close")
      BY <1>9, <1>10, <1>b
    <3>2. Done("server") = 4 /\ Done("server")' > 4 /\ Done("server")' \in Nat
      BY <1>0, <1>1, <1>b, <3>1, ServerCall
    <3>3. got["server"] > 0 /\ got' = got
      BY <1>0, <1>2, <1>b, <3>1, <3>2 DEF IInv, Second
    <3> QED BY <3>2, <3>3 DEF Second
  <2> QED BY <1>5, <1>6, <1>7, <1>8, <2>1, <2>2, <2>3 DEF IInv
<1> QED BY <1>a, <1>b DEF Sides

(* A side never gets a socket.                                             *)
LEMMA FailKeeps ==
  ASSUME IInv, NEW s \in Sides, sd[s] = "none", Fail(s)
  PROVE  IInv'
<1> DEFINE p == Peer(s)
<1>0. /\ sd \in [Sides -> {"none", "listening", "deaf", "failed", "open", "shut", "closed"}]
      /\ sd' = [sd EXCEPT ![s] = "failed"] /\ rest' = [rest EXCEPT ![s] = <<>>]
      /\ UNCHANGED <<demo, stream, written, got, reset, killed>>
  BY DEF IInv, TypeOK, Fail
<1>1. /\ Done(s)' = Len(Script(s)) /\ Len(Script(s)) \in Nat /\ Len(Script(s)) > 2
      /\ s = "server" /\ demo = "Prog3" => Len(Script(s)) > 4
      /\ \A t \in Sides : Script(t)' = Script(t)
      /\ rest'[s] = Left(Script(s), 0) /\ Len(rest'[s]) = 0
      /\ rest'[p] = rest[p] /\ Done(p)' = Done(p)
      /\ p # s /\ p \in Sides
      /\ \A t \in Sides : t = s \/ t = p
      /\ rest' \in [Sides -> Seq(CallSet)]
  BY <1>0, Emptied
<1>2. /\ Done(s)' \in Nat /\ Done(s)' > 2
      /\ s = "server" /\ demo = "Prog3" => Done(s)' > 4
  BY <1>1
<1>3. /\ sd'[s] = "failed" /\ sd'[p] = sd[p]
      /\ sd' \in [Sides -> {"none", "listening", "deaf", "failed", "open", "shut", "closed"}]
      /\ ~Met(s) /\ ~Met(s)' /\ Met(p)' = Met(p)
      /\ ~Connected(s) /\ ~Connected(s)' /\ Connected(p)' = Connected(p)
  BY <1>0, <1>1 DEF Connected, Met
<1>4. \A t \in Sides : Calm(t)' = Calm(t)
  BY <1>0 DEF Calm
<1>5. TypeOK'
  BY <1>0, <1>1, <1>3 DEF IInv, TypeOK, CallSet
<1>6. Places'
  <2>1. PlaceOf(s)'
    BY <1>0, <1>1, <1>3 DEF IInv, Places, PlaceOf
  <2>2. PlaceOf(p)'
    BY <1>0, <1>1, <1>3 DEF IInv, Places, PlaceOf
  <2>3. Sockets'
    <3>1. CASE s = "client"
      BY <1>1, <1>3, <3>1 DEF IInv, Places, Sockets, Peer
    <3>2. CASE s = "server"
      BY <1>1, <1>3, <3>2 DEF IInv, Places, Sockets, Peer
    <3> QED BY <3>1, <3>2 DEF Sides
  <2> QED BY <1>1, <2>1, <2>2, <2>3 DEF Places
<1>7. Partly'
  BY <1>0, <1>1 DEF IInv, Partly
<1>8. Resets'
  <2>1. \A t \in reset : sd[Peer(t)] = "closed" /\ Peer(t) \in Sides
    BY DEF IInv, TypeOK, Resets, Gone, Peer, Sides
  <2> QED BY <1>0, <1>1, <1>3, <2>1 DEF Resets, Gone
<1>a. CASE s = "client"
  <2>0. p = "server"
    BY <1>a DEF Peer
  <2>1. Request' /\ AnswerAfterRequest' /\ Asked'
    BY <1>0, <1>1, <1>3, <1>a, <2>0 DEF IInv, Request, AnswerAfterRequest, Asked
  <2>2. Answer' /\ Second'
    BY <1>0, <1>1, <1>2, <1>3, <1>4, <1>a, <2>0 DEF IInv, Answer, Second, Places, Sockets, Sides
  <2> QED BY <1>5, <1>6, <1>7, <1>8, <2>1, <2>2 DEF IInv
<1>b. CASE s = "server"
  <2>0. p = "client"
    BY <1>b DEF Peer
  <2>1. Request' /\ AnswerAfterRequest' /\ Asked'
    <3>1. stream["server"] = 0
      BY <1>3, <1>b DEF IInv, Places, PlaceOf, Sides
    <3> QED BY <1>0, <1>1, <1>2, <1>3, <1>b, <2>0, <3>1
          DEF IInv, Request, AnswerAfterRequest, Asked
  <2>2. Answer' /\ Second'
    BY <1>0, <1>1, <1>2, <1>3, <1>4, <1>b, <2>0 DEF IInv, Answer, Second, Sides
  <2> QED BY <1>5, <1>6, <1>7, <1>8, <2>1, <2>2 DEF IInv
<1> QED BY <1>a, <1>b DEF Sides

(* A side takes its next socket, before any call.                          *)
LEMMA SocketKeeps ==
  ASSUME IInv, NEW s \in Sides, NEW to \in {"listening", "deaf", "open"},
         sd' = [sd EXCEPT ![s] = to],
         sd[s] \in {"none", "listening"},
         to = "open" => IF s = "client" THEN sd["server"] = "listening"
                                        ELSE Met("client"),
         s = "client" => to = "open",
         s = "server" /\ to = "deaf" => sd["server"] = "none",
         UNCHANGED <<demo, rest, stream, written, got, reset, killed>>
  PROVE  IInv'
<1> DEFINE p == Peer(s)
<1>0. /\ sd \in [Sides -> {"none", "listening", "deaf", "failed", "open", "shut", "closed"}]
      /\ p # s /\ p \in Sides /\ \A t \in Sides : t = s \/ t = p
  BY DEF IInv, TypeOK, Peer, Sides
<1>1. \A t \in Sides : Done(t)' = Done(t) /\ Script(t)' = Script(t) /\ Calm(t)' = Calm(t)
  BY DEF Done, Script, Calm
<1>2. Done(s) = 0 /\ Len(rest[s]) > 0
  <2>1. Done(s) = 0 /\ Len(rest[s]) \in Nat /\ Len(Script(s)) \in Nat
    BY NextCall DEF IInv, Places, PlaceOf
  <2>2. Len(Script(s)) > 0
    BY SMTT(30), ClientScript, ServerScript DEF IInv, TypeOK, Sides
  <2> QED BY <2>1, <2>2 DEF Done
<1>3. /\ sd'[s] = to /\ sd'[p] = sd[p]
      /\ sd' \in [Sides -> {"none", "listening", "deaf", "failed", "open", "shut", "closed"}]
      /\ ~Met(s) /\ Met(p)' = Met(p)
      /\ ~Connected(s) /\ Connected(p)' = Connected(p)
  BY <1>0 DEF Connected, Met
<1>4. stream[s] = 0 /\ written[s] = 0 /\ got[s] = 0
  BY <1>3 DEF IInv, Places, PlaceOf
<1>5. TypeOK' /\ Partly'
  BY <1>3 DEF IInv, TypeOK, Partly
<1>6. Places'
  <2>1. PlaceOf(s)'
    BY <1>1, <1>2, <1>3, <1>4 DEF IInv, Places, PlaceOf
  <2>2. PlaceOf(p)'
    BY <1>0, <1>1, <1>3 DEF IInv, Places, PlaceOf
  <2>3. Sockets'
    <3>1. CASE s = "client"
      BY <1>1, <1>3, <3>1 DEF IInv, Places, Sockets, Peer, Met, Connected, Sides
    <3>2. CASE s = "server"
      BY <1>1, <1>2, <1>3, <3>2 DEF IInv, Places, Sockets, Peer, Met, Connected, Sides
    <3> QED BY <3>1, <3>2 DEF Sides
  <2> QED BY <1>0, <2>1, <2>2, <2>3 DEF Places
<1>8. Resets'
  <2>1. \A t \in reset : sd[Peer(t)] = "closed" /\ Peer(t) \in Sides
    BY DEF IInv, TypeOK, Resets, Gone, Peer, Sides
  <2> QED BY <1>0, <1>3, <2>1 DEF Resets, Gone
<1>a. CASE s = "client"
  <2>0. p = "server"
    BY <1>a DEF Peer
  <2>1. Request' /\ AnswerAfterRequest' /\ Asked'
    BY <1>1, <1>2, <1>3, <1>a, <2>0
    DEF IInv, Request, AnswerAfterRequest, Asked, Sides, Places, Sockets
  <2>2. Answer' /\ Second'
    BY <1>1, <1>2, <1>3, <1>a, <2>0 DEF IInv, Answer, Second, Places, Sockets, Sides
  <2> QED BY <1>5, <1>6, <1>8, <2>1, <2>2 DEF IInv
<1>b. CASE s = "server"
  <2>0. p = "client"
    BY <1>b DEF Peer
  <2>1. Request' /\ AnswerAfterRequest' /\ Asked'
    BY <1>1, <1>2, <1>3, <1>4, <1>b, <2>0
    DEF IInv, Request, AnswerAfterRequest, Asked, Sides
  <2>2. Answer' /\ Second'
    BY <1>1, <1>2, <1>3, <1>b, <2>0 DEF IInv, Answer, Second, Sides
  <2> QED BY <1>5, <1>6, <1>8, <2>1, <2>2 DEF IInv
<1> QED BY <1>a, <1>b DEF Sides

(* Getting connected keeps the invariant.                                  *)
LEMMA SetupKeeps == IInv /\ Setup => IInv'
<1> SUFFICES ASSUME IInv, Setup PROVE IInv'
  OBVIOUS
<1> USE DEF Sides
<1>1. CASE UnknownHost \/ Refused
  BY <1>1, FailKeeps DEF UnknownHost, Refused
<1>2. CASE Connect
  <2>1. /\ sd["client"] = "none" /\ sd["server"] = "listening"
        /\ sd' = [sd EXCEPT !["client"] = "open"]
        /\ UNCHANGED <<demo, rest, stream, written, got, reset, killed>>
    BY <1>2 DEF Connect
  <2> QED BY <2>1, SocketKeeps
<1>3. CASE Listen
  <2>1. /\ sd["server"] = "none" /\ sd' = [sd EXCEPT !["server"] = "listening"]
        /\ UNCHANGED <<demo, rest, stream, written, got, reset, killed>>
    BY <1>3 DEF Listen
  <2> QED BY <2>1, SocketKeeps
<1>4. CASE BindFails
  <2>1. CASE demo = "Socket"
    <3>1. /\ sd["server"] = "none" /\ sd' = [sd EXCEPT !["server"] = "deaf"]
          /\ UNCHANGED <<demo, rest, stream, written, got, reset, killed>>
      BY <1>4, <2>1 DEF BindFails
    <3> QED BY <3>1, SocketKeeps
  <2>2. CASE demo # "Socket"
    BY <1>4, <2>2, FailKeeps DEF BindFails
  <2> QED BY <2>1, <2>2
<1>5. CASE Accept
  <2>1. /\ sd["server"] = "listening" /\ sd["client"] \notin {"none", "failed"}
        /\ sd' = [sd EXCEPT !["server"] = "open"]
        /\ UNCHANGED <<demo, rest, stream, written, got, reset, killed>>
    BY <1>5 DEF Accept
  <2>2. Met("client")
    BY <2>1 DEF IInv, Places, Sockets, Met, Connected
  <2> QED BY <2>1, <2>2, SocketKeeps
<1> QED BY <1>1, <1>2, <1>3, <1>4, <1>5 DEF Setup

-----------------------------------------------------------------------------
(* The invariant, and what follows from it.                                *)

(* Nobody has called anything.                                             *)
LEMMA InitInvariant == Init => IInv
<1> SUFFICES ASSUME Init PROVE IInv
  OBVIOUS
<1>0. /\ demo \in Demos
      /\ rest = [s \in Sides |-> IF s = "client" THEN ClientCalls(demo) ELSE ServerCalls(demo)]
      /\ sd = [s \in Sides |-> "none"] /\ stream = [s \in Sides |-> 0]
      /\ written = [s \in Sides |-> 0] /\ got = [s \in Sides |-> 0]
      /\ reset = {} /\ killed = {}
  BY DEF Init
<1>1. \A s \in Sides : rest[s] = Script(s) /\ Script(s) \in Seq(CallSet)
  BY <1>0, ClientScript, ServerScript DEF Script, Sides
<1>2. \A s \in Sides : /\ Len(rest[s]) \in 0 .. Len(Script(s)) /\ Done(s) = 0
                       /\ rest[s] = Left(Script(s), Len(rest[s]))
  <2> SUFFICES ASSUME NEW s \in Sides
               PROVE  /\ Len(rest[s]) \in 0 .. Len(Script(s)) /\ Done(s) = 0
                      /\ rest[s] = Left(Script(s), Len(rest[s]))
    OBVIOUS
  <2>1. Len(Script(s)) \in Nat /\ \A i \in 1 .. Len(Script(s)) : Script(s)[i] \in CallSet
    BY <1>1, LenProperties
  <2>2. /\ Left(Script(s), Len(Script(s))) \in Seq(CallSet)
        /\ Len(Left(Script(s), Len(Script(s)))) = Len(Script(s))
    BY <1>1, <2>1, LeftCalls
  <2>3. \A i \in 1 .. Len(Script(s)) : Left(Script(s), Len(Script(s)))[i] = Script(s)[i]
    BY <2>1 DEF Left
  <2>4. Left(Script(s), Len(Script(s))) = Script(s)
    BY <1>1, <2>1, <2>2, <2>3, SeqEqual
  <2> QED BY <1>1, <2>1, <2>4 DEF Done
<1>3. TypeOK
  <2>1. rest \in [Sides -> Seq(CallSet)]
    BY <1>0, <1>1
  <2> QED BY <1>0, <2>1, ConstantsType DEF TypeOK, CallSet
<1>4. Places
  <2>1. \A s \in Sides : PlaceOf(s)
    BY <1>0, <1>2 DEF PlaceOf, Connected
  <2>2. Sockets
    BY <1>0 DEF Sockets, Met, Connected, Sides
  <2> QED BY <2>1, <2>2 DEF Places
<1>5. Partly /\ Resets
  BY <1>0 DEF Partly, Resets
<1>6. Request /\ AnswerAfterRequest /\ Asked /\ Answer /\ Second
  BY <1>0, <1>2 DEF Request, AnswerAfterRequest, Asked, Answer, Second, Met, Connected, Sides
<1> QED BY <1>3, <1>4, <1>5, <1>6 DEF IInv

(* The calls of the programs, and being killed.                            *)
LEMMA ProgramKeeps == \A s \in Sides : IInv /\ (Program(s) \/ Die(s)) => IInv'
<1> SUFFICES ASSUME NEW s \in Sides, IInv, Program(s) \/ Die(s) PROVE IInv'
  OBVIOUS
<1>1. CASE BrokenPipe(s)
  <2>1. Connected(s) /\ Leave(s) /\ killed' = killed \union {s} /\ killed' # {}
    BY <1>1 DEF BrokenPipe, Calls
  <2> QED BY <2>1, LeaveKeeps
<1>2. CASE CallClose(s)
  BY <1>2, LeaveKeeps DEF CallClose, Calls
<1>3. CASE Die(s)
  <2>1. Connected(s) /\ Leave(s) /\ killed' = killed \union {s} /\ killed' # {}
    BY <1>3 DEF Die
  <2> QED BY <2>1, LeaveKeeps
<1>4. CASE CallWrite(s) \/ CallWriteGone(s) \/ CallRead(s) \/ CallShutdown(s)
  BY <1>4, CallWriteKeeps, CallWriteGoneKeeps, CallReadKeeps, CallShutdownKeeps
<1> QED BY <1>1, <1>2, <1>3, <1>4 DEF Program

(* Every step keeps the invariant.                                         *)
LEMMA StepKeeps == IInv /\ [Next]_vars => IInv'
<1> SUFFICES ASSUME IInv, [Next]_vars PROVE IInv'
  OBVIOUS
<1>1. CASE Setup
  BY <1>1, SetupKeeps
<1>2. CASE \E s \in Sides : Program(s) \/ Die(s)
  BY <1>2, ProgramKeeps
<1>3. CASE UNCHANGED vars
  BY <1>3
  DEF vars, IInv, TypeOK, Places, PlaceOf, Sockets, Resets, Partly, Request,
      AnswerAfterRequest, Answer, Second, Asked, Done, Script, Met, Connected, Calm, Gone
<1> QED BY <1>1, <1>2, <1>3 DEF Next

(* It holds throughout.                                                    *)
LEMMA Invariance == Spec => []IInv
  BY InitInvariant, StepKeeps, PTL DEF Spec

(* Every variable keeps its type. *)
THEOREM TypeCorrect == Spec => []TypeOK
<1>1. IInv => TypeOK
  BY DEF IInv
<1> QED BY <1>1, Invariance, PTL

(* The client reads nothing before the server has read (Server.cpp:38-39). *)
THEOREM OrderCorrect == Spec => []AnswerAfterRequest
<1>1. IInv => AnswerAfterRequest
  BY DEF IInv
<1> QED BY <1>1, Invariance, PTL

(* A client that has closed in peace has read something (Client.cpp:39).   *)
THEOREM AnswerCorrect == Spec => []ClientAnswered
<1>1. IInv => ClientAnswered
  <2> SUFFICES ASSUME IInv, sd["client"] = "closed", killed = {}, "client" \notin reset
               PROVE  got["client"] > 0
    BY DEF ClientAnswered
  <2>1. Done("client") > 2 /\ Done("client") \in Nat
    BY Ended, NextCall DEF Sides
  <2> QED BY <2>1 DEF IInv, Answer, Calm, Met
<1> QED BY <1>1, Invariance, PTL

(* The read after the shutdown of Prog3 brings something new (Server.cpp:44).*)
THEOREM HalfClosedCorrect == Spec => HalfClosed
<1> USE DEF Sides
<1>1. ASSUME IInv, CallRead("server"), sd["server"] = "shut", killed = {}, reset = {}
      PROVE  got'["server"] > got["server"]
  <2>1. Connected("server") /\ Calls("server", "read")
    BY <1>1 DEF CallRead, Connected
  <2>2. Done("server") = 3 /\ demo = "Prog3"
    BY <1>1, <2>1, ServerCall DEF IInv, Places, Sockets
  <2>3. stream["client"] > 0
    <3>1. CASE sd["client"] = "closed"
      <4>1. Met("client") /\ Done("client") > 2
        BY <1>1, <3>1, Ended DEF Met
      <4> QED BY <1>1, <2>2, <4>1 DEF IInv, Second
    <3>2. CASE sd["client"] # "closed"
      BY <1>1, <3>2 DEF CallRead, Readable, Ready, Peer, IInv, Places, Sockets
    <3> QED BY <3>1, <3>2
  <2>4. PICK n \in Returned(stream["client"], Head(rest["server"]).size) :
          got' = [got EXCEPT !["server"] = @ + n]
    BY <1>1 DEF CallRead, Peer
  <2>5. Head(rest["server"]).size \in Nat
    BY <1>1, <2>1, NextCall, CallFields, ConstantsType DEF Calls
  <2>6. n \in Nat /\ n > 0
    BY <2>3, <2>4, <2>5 DEF Returned
  <2>7. got \in [Sides -> Nat]
    BY <1>1 DEF IInv, TypeOK
  <2> QED BY <2>4, <2>6, <2>7
<1>2. IInv => [CallRead("server") /\ sd["server"] = "shut" /\ killed = {} /\ reset = {} =>
                 got'["server"] > got["server"]]_vars
  BY <1>1
<1> QED BY <1>2, Invariance, PTL DEF Spec, HalfClosed

(* A whole answer fits in the connection.                                  *)
AnswersFit == Short <= Capacity /\ Long <= Capacity

(* A connected side whose peer is gone goes on.                            *)
LEMMA AloneGoesOn ==
  ASSUME NEW s \in Sides, Connected(s), Gone(s)
  PROVE  GoesOn(s)
  BY DEF GoesOn, Gone, Readable, Ready

(* Two connected sides do not both wait.                                   *)
LEMMA TogetherGoOn ==
  ASSUME IInv, AnswersFit, Connected("client"), Connected("server")
  PROVE  GoesOn("client") \/ GoesOn("server")
<1> USE DEF Sides
<1>0. /\ stream["client"] \in Nat /\ stream["server"] \in Nat
      /\ written["server"] \in Nat
      /\ Len(rest["server"]) > 0
  BY ConstantsType DEF IInv, TypeOK, Places, PlaceOf
<1>1. CASE Calls("server", "write")
  <2>1. Done("server") = 1
    BY <1>1, ServerCall
  <2>2. stream["server"] <= written["server"]
    BY <2>1 DEF IInv, Asked
  <2>3. /\ Head(rest["server"]).size \in {1, Short, Long} /\ Head(rest["server"]).size > 0
    BY <1>1, NextCall, CallFields, SomeCall DEF Calls
  <2>4. written["server"] < Head(rest["server"]).size
    BY <1>0, <2>3, ConstantsType DEF IInv, Partly
  <2>5. stream["server"] < Capacity
    BY <1>0, <2>2, <2>3, <2>4, ConstantsType DEF AnswersFit
  <2> QED BY <1>1, <2>5 DEF GoesOn, Calls
<1>2. CASE Calls("server", "read") /\ stream["client"] > 0
  BY <1>2 DEF GoesOn, Calls, Readable, Ready, Peer
<1>3. CASE Calls("server", "read") /\ stream["client"] = 0
  <2>1. CASE Calls("client", "write")
    BY <1>3, <2>1, ConstantsType DEF GoesOn, Calls
  <2>2. CASE Calls("client", "read")
    <3>1. Done("client") = 1 /\ sd["client"] = "open"
      BY <2>2, ClientCall DEF IInv, Places, Sockets, Connected
    <3>2. Done("server") # 0
      BY <1>3, <3>1 DEF IInv, Asked
    <3>3. Done("server") = 3
      BY <1>3, <3>2, ServerCall
    <3>4. sd["server"] = "shut"
      BY <3>3 DEF IInv, Places, Sockets, Connected
    <3> QED BY <2>2, <3>4 DEF GoesOn, Calls, Readable, Ready, Peer
  <2>3. CASE ~Calls("client", "write") /\ ~Calls("client", "read")
    BY <2>3 DEF GoesOn
  <2> QED BY <2>1, <2>2, <2>3
<1>4. CASE ~Calls("server", "write") /\ ~Calls("server", "read")
  BY <1>4 DEF GoesOn
<1> QED BY <1>0, <1>1, <1>2, <1>3, <1>4

(* The two sides never both wait for each other, whatever the capacity, as *)
(* long as a whole answer fits in it (Server.cpp:38-44, server.cpp:77-86). *)
THEOREM NeverStuckCorrect == AnswersFit /\ Spec => []NeverStuck
<1> SUFFICES ASSUME AnswersFit PROVE Spec => []NeverStuck
  OBVIOUS
<1>1. IInv => NeverStuck
  <2> SUFFICES ASSUME IInv, sd["server"] # "listening", NEW s \in Sides, Connected(s)
               PROVE  \E t \in Sides : GoesOn(t)
    BY DEF NeverStuck
  <2>1. CASE Gone(s)
    BY <2>1, AloneGoesOn
  <2>2. CASE ~Gone(s)
    <3>1. Connected("client") /\ Connected("server")
      <4>1. CASE s = "client"
        BY <2>2, <4>1 DEF IInv, Places, Sockets, Met, Connected, Gone, Peer
      <4>2. CASE s = "server"
        BY <2>2, <4>2 DEF IInv, Places, Sockets, Met, Connected, Gone, Peer
      <4> QED BY <4>1, <4>2 DEF Sides
    <3> QED BY <3>1, TogetherGoOn DEF Sides
  <2> QED BY <2>1, <2>2
<1> QED BY <1>1, Invariance, PTL

=============================================================================
