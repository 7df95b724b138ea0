------------------------------ MODULE TcpDemos ------------------------------
(***************************************************************************)
(* The demonstrations of one TCP connection: Client.cpp and Server.cpp of  *)
(* Prog3, hw3_demo.cpp, and client.cpp and server.cpp of Socket. Each side *)
(* makes a few calls in a straight line and looks at no result. What a     *)
(* side has still to call is a sequence, from which it takes the head.     *)
(***************************************************************************)
EXTENDS TcpStream, Sequences

CONSTANTS
  Short, Long,   \* sizes of the messages
  MayFail,       \* BOOLEAN: the host may be unknown, the port not free
  MayDie         \* the sides that may be killed

Sides == {"client", "server"}
Demos == {"Prog3", "hw3", "Socket"}

ASSUME DemoAssumption ==
  /\ {Short, Long} \subseteq Nat \ {0}
  /\ MayFail \in BOOLEAN
  /\ MayDie \subseteq Sides

Peer(s) == IF s = "client" THEN "server" ELSE "client"

Write(n) == [call |-> "write", size |-> n]
Read(n) == [call |-> "read", size |-> n]
Shutdown == [call |-> "shutdown", size |-> 0]
Close == [call |-> "close", size |-> 0]   \* or the end of the program

ClientCalls(d) ==
  CASE d = "Prog3" -> <<Write(Short), Read(Short), Write(Long), Close>>
    [] d = "hw3" -> <<Write(Long), Read(1), Close>>
    [] d = "Socket" -> <<Write(Long), Read(Long), Close>>

(* MUTANT of ServerCalls: hw3_demo and Socket answer before they read. *)
ServerCalls_Swapped(d) ==
  CASE d = "Prog3" -> <<Read(Short), Write(Short), Shutdown, Read(Long), Close>>
    [] d = "hw3" -> <<Write(1), Read(Long), Close>>
    [] d = "Socket" -> <<Write(Long), Read(Long), Close>>

(* MUTANT of ServerCalls: the server of Prog3 reads both messages first. *)
ServerCalls_BothFirst(d) ==
  CASE d = "Prog3" -> <<Read(Short), Read(Long), Read(Long), Write(Short), Close>>
    [] d = "hw3" -> <<Read(Long), Write(1), Close>>
    [] d = "Socket" -> <<Read(Long), Write(Long), Close>>

ServerCalls(d) ==
  CASE d = "Prog3" -> <<Read(Short), Write(Short), Shutdown, Read(Long), Close>>
    [] d = "hw3" -> <<Read(Long), Write(1), Close>>
    [] d = "Socket" -> <<Read(Long), Write(Long), Close>>

VARIABLES
  demo,     \* which demonstration is run
  rest,     \* the calls a side has still to make
  sd,       \* its socket: "none", "listening", "deaf" (on some other port),
            \* "failed", "open", "shut" (for writing) or "closed"
  stream,   \* bytes a side has sent that are not yet read
  written,  \* bytes of the write it is in that TCP has taken
  got,      \* bytes it has read
  reset,    \* the sides whose connection the other side has reset
  killed    \* the sides that were killed

vars == <<demo, rest, sd, stream, written, got, reset, killed>>

TypeOK ==
  /\ demo \in Demos
  /\ rest \in [Sides -> Seq({Read(n) : n \in {1, Short, Long}}
                            \union {Write(n) : n \in {1, Short, Long}}
                            \union {Shutdown, Close})]
  /\ sd \in [Sides -> {"none", "listening", "deaf", "failed", "open", "shut", "closed"}]
  /\ stream \in [Sides -> 0 .. Capacity]
  /\ written \in [Sides -> Nat]
  /\ \A s \in Sides : written[s] < Short \/ written[s] < Long
  /\ got \in [Sides -> Nat]
  /\ reset \subseteq Sides
  /\ killed \subseteq Sides

Init ==
  /\ demo \in Demos
  /\ rest = [s \in Sides |-> IF s = "client" THEN ClientCalls(demo) ELSE ServerCalls(demo)]
  /\ sd = [s \in Sides |-> "none"]
  /\ stream = [s \in Sides |-> 0]
  /\ written = [s \in Sides |-> 0]
  /\ got = [s \in Sides |-> 0]
  /\ reset = {}
  /\ killed = {}

-----------------------------------------------------------------------------
(* Getting connected.                                                      *)

(* A socket is never had: the calls on NULL_FD that follow do nothing, or  *)
(* the program has returned.                                               *)
Fail(s) ==
  /\ sd' = [sd EXCEPT ![s] = "failed"]
  /\ rest' = [rest EXCEPT ![s] = <<>>]
  /\ UNCHANGED <<demo, stream, written, got, reset, killed>>

(* The host is unknown. *)
UnknownHost == MayFail /\ sd["client"] = "none" /\ Fail("client")

(* While nobody listens, getClientSocket connects again; the client of     *)
(* Socket gives up.                                                        *)
Refused ==
  /\ demo = "Socket"
  /\ sd["client"] = "none"
  /\ sd["server"] # "listening"
  /\ Fail("client")

Connect ==
  /\ sd["client"] = "none"
  /\ sd["server"] = "listening"
  /\ sd' = [sd EXCEPT !["client"] = "open"]
  /\ UNCHANGED <<demo, rest, stream, written, got, reset, killed>>

Listen ==
  /\ sd["server"] = "none"
  /\ sd' = [sd EXCEPT !["server"] = "listening"]
  /\ UNCHANGED <<demo, rest, stream, written, got, reset, killed>>

(* The port is taken. getServerSocket returns NULL_FD; the server of       *)
(* Socket does not look at what bind says, and listens somewhere else.     *)
BindFails ==
  /\ MayFail
  /\ sd["server"] = "none"
  /\ IF demo = "Socket"
       THEN /\ sd' = [sd EXCEPT !["server"] = "deaf"]
            /\ UNCHANGED <<demo, rest, stream, written, got, reset, killed>>
       ELSE Fail("server")

Accept ==
  /\ sd["server"] = "listening"
  /\ sd["client"] \notin {"none", "failed"}
  /\ sd' = [sd EXCEPT !["server"] = "open"]
  /\ UNCHANGED <<demo, rest, stream, written, got, reset, killed>>

-----------------------------------------------------------------------------
(* The calls.                                                              *)

Connected(s) == sd[s] \in {"open", "shut"}
Calls(s, call) == Connected(s) /\ rest[s] # <<>> /\ Head(rest[s]).call = call
Returns(s) == rest' = [rest EXCEPT ![s] = Tail(@)]

(* The other end is gone, and answers whatever comes with a reset. *)
Gone(s) == sd[Peer(s)] = "closed"

(* MUTANT of CallWrite: what was taken of one write counts for the next. *)
CallWrite_Keeps(s) ==
  /\ Calls(s, "write")
  /\ ~Gone(s) /\ s \notin reset
  /\ \E n \in Taken(stream[s], Head(rest[s]).size - written[s]) :
       /\ stream' = [stream EXCEPT ![s] = @ + n]
       /\ written' = [written EXCEPT ![s] = @ + n]
       /\ IF written[s] + n = Head(rest[s]).size THEN Returns(s) ELSE UNCHANGED rest
  /\ UNCHANGED <<demo, sd, got, reset, killed>>

(* write, which returns when TCP has taken everything. *)
CallWrite(s) ==
  /\ Calls(s, "write")
  /\ ~Gone(s) /\ s \notin reset
  /\ \E n \in Taken(stream[s], Head(rest[s]).size - written[s]) :
       /\ stream' = [stream EXCEPT ![s] = @ + n]
       /\ IF written[s] + n = Head(rest[s]).size
            THEN Returns(s) /\ written' = [written EXCEPT ![s] = 0]
            ELSE UNCHANGED rest /\ written' = [written EXCEPT ![s] = @ + n]
  /\ UNCHANGED <<demo, sd, got, reset, killed>>

(* A write to the other end after it is gone is answered with a reset. *)
CallWriteGone(s) ==
  /\ Calls(s, "write")
  /\ Gone(s) /\ s \notin reset
  /\ reset' = reset \union {s}
  /\ Returns(s)
  /\ written' = [written EXCEPT ![s] = 0]
  /\ UNCHANGED <<demo, sd, stream, got, killed>>

(* A side ends. If it leaves bytes unread, the other side is reset, and    *)
(* what was still on its way there may be lost.                            *)
Leave(s) ==
  /\ sd' = [sd EXCEPT ![s] = "closed"]
  /\ rest' = [rest EXCEPT ![s] = <<>>]
  /\ IF stream[Peer(s)] > 0
       THEN /\ reset' = IF Gone(s) THEN reset ELSE reset \union {Peer(s)}
            /\ \E n \in {0, stream[s]} :
                 stream' = [stream EXCEPT ![Peer(s)] = 0, ![s] = n]
       ELSE UNCHANGED <<stream, reset>>
  /\ UNCHANGED <<demo, written, got>>

(* A write on a connection that is reset raises SIGPIPE. *)
BrokenPipe(s) ==
  /\ Calls(s, "write")
  /\ s \in reset
  /\ killed' = killed \union {s}
  /\ Leave(s)

(* MUTANT of Readable: read does not wait. *)
Readable_AtOnce(s) == TRUE

(* A read returns: there is something to read, the other side writes no    *)
(* more, or the connection is reset.                                       *)
Readable(s) ==
  Ready(stream[Peer(s)], sd[Peer(s)] \in {"shut", "closed"}) \/ s \in reset

(* read, once: it may return any part of what was asked for. *)
CallRead(s) ==
  /\ Calls(s, "read")
  /\ Readable(s)
  /\ \E n \in Returned(stream[Peer(s)], Head(rest[s]).size) :
       /\ stream' = [stream EXCEPT ![Peer(s)] = @ - n]
       /\ got' = [got EXCEPT ![s] = @ + n]
  /\ Returns(s)
  /\ UNCHANGED <<demo, sd, written, reset, killed>>

(* MUTANT of CallShutdown: both directions are shut down, and what has     *)
(* come is thrown away.                                                    *)
CallShutdown_Both(s) ==
  /\ Calls(s, "shutdown")
  /\ sd' = [sd EXCEPT ![s] = "shut"]
  /\ stream' = [stream EXCEPT ![Peer(s)] = 0]
  /\ Returns(s)
  /\ UNCHANGED <<demo, written, got, reset, killed>>

(* shutdown(SHUT_WR): the other side reads to the end, this one reads on. *)
CallShutdown(s) ==
  /\ Calls(s, "shutdown")
  /\ sd' = [sd EXCEPT ![s] = "shut"]
  /\ Returns(s)
  /\ UNCHANGED <<demo, stream, written, got, reset, killed>>

CallClose(s) == Calls(s, "close") /\ Leave(s) /\ UNCHANGED killed

(* A side is killed; the system closes its socket. *)
Die(s) ==
  /\ s \in MayDie
  /\ Connected(s)
  /\ killed' = killed \union {s}
  /\ Leave(s)

-----------------------------------------------------------------------------
Program(s) ==
  \/ CallWrite(s) \/ CallWriteGone(s) \/ BrokenPipe(s) \/ CallRead(s)
  \/ CallShutdown(s) \/ CallClose(s)

Setup == UnknownHost \/ Refused \/ Connect \/ Listen \/ BindFails \/ Accept

Next == Setup \/ \E s \in Sides : Program(s) \/ Die(s)

Spec == Init /\ [][Next]_vars

(* Both programs run on; nothing is asked of faults.                       *)
FairSpec ==
  /\ Spec
  /\ WF_vars(Accept)
  /\ \A s \in Sides : WF_vars(Program(s))

-----------------------------------------------------------------------------
(* The client reads nothing before the server has read something of its    *)
(* first message (hw3_demo.cpp:34-35, Server.cpp:38-39, server.cpp:77-86). *)
AnswerAfterRequest == got["client"] > 0 => got["server"] > 0

(* Whatever the reads are cut into, a client that has closed its           *)
(* connection has read something of the answer, unless the server was      *)
(* killed or the connection was reset (Client.cpp:39, hw3_demo.cpp:49).    *)
ClientAnswered ==
  sd["client"] = "closed" /\ killed = {} /\ "client" \notin reset => got["client"] > 0

(* The server of Prog3 shuts down its writing side before it reads the     *)
(* client's long message, and the read that follows does not find the end  *)
(* of the stream: it brings something new, of the long message if the      *)
(* first read had all of the short one, unless a side was killed or the    *)
(* connection was reset (Server.cpp:38-44).                                *)
HalfClosed ==
  [][CallRead("server") /\ sd["server"] = "shut" /\ killed = {} /\ reset = {} =>
       got'["server"] > got["server"]]_vars

(* Nothing keeps a side waiting: there is room for what it writes, and     *)
(* something, or the end, for what it reads.                               *)
GoesOn(s) ==
  /\ Connected(s)
  /\ Calls(s, "write") => Gone(s) \/ s \in reset \/ stream[s] < Capacity
  /\ Calls(s, "read") => Readable(s)

(* The two sides never both wait for each other, if a whole answer fits in *)
(* the connection: while one of them is connected, some side goes on       *)
(* (Server.cpp:38-44, hw3_demo.cpp:34-35 and 48-49, server.cpp:77-86).     *)
NeverStuck ==
  sd["server"] # "listening" /\ (\E s \in Sides : Connected(s)) =>
    \E s \in Sides : GoesOn(s)

(* Once they are connected, both programs end, whoever is killed and       *)
(* however the messages are cut: neither side ever waits for a message the *)
(* other does not send.                                                    *)
BothEnd == sd["client"] = "open" ~> \A s \in Sides : sd[s] = "closed"

=============================================================================
