----------------------------- MODULE Throughput -----------------------------
(***************************************************************************)
(* The throughput test of Prog1. A client announces a number of            *)
(* repetitions, writes nbufs * bufsize bytes for each and waits for the    *)
(* server to say how many reads it took (Client.cpp, Server.cpp). In how   *)
(* many writes the client does it makes no difference to the stream. The   *)
(* server takes one client; others may have connected meanwhile.           *)
(***************************************************************************)
EXTENDS TcpStream, Sequences

CONSTANTS
  Clients,
  Nobody,          \* no client
  BUFSIZE,         \* what the server reads for a repetition (1500)
  Sizes,           \* nbufs * bufsize: another value than BUFSIZE is only
                   \* warned about
  MaxRepetitions,  \* bound: repetitions a user may ask for
  Addresses,       \* what getaddrinfo may return for the server's name
  Killed,          \* the clients that may be killed
  PortTaken        \* BOOLEAN: the server's port may be in use

(* An address for which there is no kind of socket, one of the server's    *)
(* host at which the server does not listen (it binds an IPv4 address      *)
(* only), the server's; and the pointer of a name that was not resolved,   *)
(* which nobody has set.                                                   *)
AddressKinds == {"unsupported", "refused", "server", "unresolved"}

ASSUME ThroughputAssumption ==
  /\ Nobody \notin Clients
  /\ BUFSIZE \in Nat \ {0}
  /\ Sizes \subseteq Nat
  /\ MaxRepetitions \in Nat
  /\ Addresses \subseteq Seq(AddressKinds)
  /\ Killed \subseteq Clients
  /\ PortTaken \in BOOLEAN

VARIABLES
  cpc,         \* a client: "connect", "announce", "write", "count", "done",
               \* "failed" (to connect) or "dead"
  addresses,   \* the addresses a client has not tried, rp and what follows
  size,        \* a client's nbufs * bufsize
  repetition,  \* a client's repetition
  written,     \* bytes written by a client
  nreads,      \* what a client was told, or 0
  backlog,     \* the clients connected and not accepted
  announced,   \* the clients whose number of repetitions is under way
  stream,      \* bytes under way from a client
  spc,         \* the server: "start", "listen", "deaf" (on some other port),
               \* "accepted", "read", "spin" or "done"
  served,      \* the client the server has accepted
  reps,        \* the server's reps
  i,           \* the server's i: repetitions read
  nRead,       \* bytes of the current repetition read
  count,       \* reads made
  reply        \* the server's count is under way to the client served

clientVars == <<cpc, addresses, size, repetition, written, nreads>>
serverVars == <<spc, served, reps, i, nRead, count>>
net == <<backlog, announced, stream, reply>>
vars == <<clientVars, serverVars, net>>

TypeOK ==
  /\ cpc \in [Clients -> {"connect", "announce", "write", "count", "done",
                          "failed", "dead"}]
  /\ addresses \in [Clients -> Seq(AddressKinds)]
  /\ size \in [Clients -> Sizes]
  /\ repetition \in [Clients -> 0 .. MaxRepetitions]
  /\ written \in [Clients -> Nat]
  /\ \A c \in Clients : written[c] <= repetition[c] * size[c]
  /\ nreads \in [Clients -> Nat]
  /\ backlog \subseteq Clients
  /\ announced \subseteq Clients
  /\ stream \in [Clients -> 0 .. Capacity]
  /\ spc \in {"start", "listen", "deaf", "accepted", "read", "spin", "done"}
  /\ served \in Clients \union {Nobody}
  /\ reps \in 0 .. MaxRepetitions
  /\ i \in 0 .. reps
  /\ nRead \in 0 .. BUFSIZE - 1
  /\ count \in Nat
  /\ reply \in BOOLEAN

Init ==
  /\ cpc = [c \in Clients |-> "connect"]
  /\ addresses \in [Clients -> Addresses]
  /\ size \in [Clients -> Sizes]
  /\ repetition \in [Clients -> 0 .. MaxRepetitions]
  /\ written = [c \in Clients |-> 0]
  /\ nreads = [c \in Clients |-> 0]
  /\ backlog = {}
  /\ announced = {}
  /\ stream = [c \in Clients |-> 0]
  /\ spc = "start"
  /\ served = Nobody
  /\ reps = 0
  /\ i = 0
  /\ nRead = 0
  /\ count = 0
  /\ reply = FALSE

-----------------------------------------------------------------------------
(* A client.                                                               *)

Move(c, place) == cpc' = [cpc EXCEPT ![c] = place]

Listening == spc \notin {"start", "deaf", "done"}

(* No address is left: "No valid address". *)
NoAddress(c) ==
  /\ addresses[c] = <<>>
  /\ Move(c, "failed")
  /\ UNCHANGED <<addresses, backlog>>

(* socket fails: the next address. *)
NextAddress(c) ==
  /\ addresses[c] # <<>>
  /\ Head(addresses[c]) = "unsupported"
  /\ addresses' = [addresses EXCEPT ![c] = Tail(@)]
  /\ UNCHANGED <<cpc, backlog>>

(* connect fails, and the client gives up whatever addresses are left. *)
Refused(c) ==
  /\ addresses[c] # <<>>
  /\ Head(addresses[c]) = "refused" \/ (Head(addresses[c]) = "server" /\ ~Listening)
  /\ Move(c, "failed")
  /\ UNCHANGED <<addresses, backlog>>

(* The name was not resolved; the loop goes through whatever the pointer   *)
(* holds.                                                                  *)
Unresolved(c) ==
  /\ addresses[c] # <<>>
  /\ Head(addresses[c]) = "unresolved"
  /\ \E place \in {"failed", "dead"} : Move(c, place)
  /\ UNCHANGED <<addresses, backlog>>

Connected(c) ==
  /\ addresses[c] # <<>>
  /\ Head(addresses[c]) = "server"
  /\ Listening
  /\ Move(c, "announce")
  /\ backlog' = backlog \union {c}
  /\ UNCHANGED addresses

(* One address of the loop over what getaddrinfo returned. *)
Connect(c) ==
  /\ cpc[c] = "connect"
  /\ NoAddress(c) \/ NextAddress(c) \/ Refused(c) \/ Unresolved(c) \/ Connected(c)
  /\ UNCHANGED <<size, repetition, written, nreads, announced, stream, reply, serverVars>>

Announce(c) ==
  /\ cpc[c] = "announce"
  /\ announced' = announced \union {c}
  /\ Move(c, "write")
  /\ UNCHANGED <<addresses, size, repetition, written, nreads, backlog, stream,
                 reply, serverVars>>

(* write and writev block until everything is taken, piece by piece, so    *)
(* the three types of transfer are one. Of what is written to a server     *)
(* that has gone nothing arrives: the client is killed or, if no call is   *)
(* left when it learns of the reset, goes on.                              *)
Write(c) ==
  /\ cpc[c] = "write"
  /\ \/ /\ written[c] < repetition[c] * size[c]
        /\ spc # "done"
        /\ \E n \in Taken(stream[c], repetition[c] * size[c] - written[c]) :
             /\ stream' = [stream EXCEPT ![c] = @ + n]
             /\ written' = [written EXCEPT ![c] = @ + n]
        /\ UNCHANGED cpc
     \/ /\ written[c] < repetition[c] * size[c]
        /\ spc = "done"
        /\ \E place \in {"count", "dead"} : Move(c, place)
        /\ UNCHANGED <<written, stream>>
     \/ /\ written[c] = repetition[c] * size[c]
        /\ Move(c, "count")
        /\ UNCHANGED <<written, stream>>
  /\ UNCHANGED <<addresses, size, repetition, nreads, backlog, announced, reply,
                 serverVars>>

(* MUTANT of ReadCount: the client does not wait for the count. *)
ReadCount_NoWait(c) ==
  /\ cpc[c] = "count"
  /\ nreads' = [nreads EXCEPT ![c] = IF c = served /\ reply THEN count ELSE 0]
  /\ Move(c, "done")
  /\ UNCHANGED <<addresses, size, repetition, written, net, serverVars>>

(* The client reads the count; without one it goes on with 0. A server     *)
(* that left bytes unread has reset the connection, and its count may be   *)
(* gone; one that never accepted the client has reset it too.              *)
ReadCount(c) ==
  /\ cpc[c] = "count"
  /\ spc = "done"
  /\ \/ /\ c = served /\ reply
        /\ nreads' = [nreads EXCEPT ![c] = count]
     \/ /\ c # served \/ ~reply \/ stream[c] > 0
        /\ nreads' = [nreads EXCEPT ![c] = 0]
  /\ Move(c, "done")
  /\ UNCHANGED <<addresses, size, repetition, written, net, serverVars>>

(* A client is killed: its end of the connection is closed. *)
Die(c) ==
  /\ c \in Killed
  /\ cpc[c] \in {"announce", "write", "count"}
  /\ Move(c, "dead")
  /\ UNCHANGED <<addresses, size, repetition, written, nreads, net, serverVars>>

-----------------------------------------------------------------------------
(* The server, which takes one client and ends.                            *)

(* The server does not look at what bind says: if its port is taken, it    *)
(* listens on another, which no client knows.                              *)
Listen ==
  /\ spc = "start"
  /\ \/ spc' = "listen"
     \/ PortTaken /\ spc' = "deaf"
  /\ UNCHANGED <<clientVars, served, reps, i, nRead, count, net>>

Accept ==
  /\ spc = "listen"
  /\ \E c \in backlog :
       /\ served' = c
       /\ backlog' = backlog \ {c}
  /\ spc' = "accepted"
  /\ UNCHANGED <<clientVars, reps, i, nRead, count, announced, stream, reply>>

(* MUTANT of Reps: one repetition more than announced. *)
Reps_OneMore == IF served \in announced THEN repetition[served] + 1 ELSE 0

(* The number of repetitions; if the client has gone without a word, 0. *)
Reps == IF served \in announced THEN repetition[served] ELSE 0

ReadReps ==
  /\ spc = "accepted"
  /\ served \in announced \/ cpc[served] = "dead"
  /\ reps' = Reps
  /\ spc' = "read"
  /\ UNCHANGED <<clientVars, served, i, nRead, count, net>>

(* MUTANT of Filled: the buffer counts as full one byte late. *)
Filled_Late(n) == n > BUFSIZE

(* The repetition is complete. *)
Filled(n) == n >= BUFSIZE

(* MUTANT of Wanted: the whole buffer, however much of it is filled. *)
Wanted_Whole == BUFSIZE

(* What a read asks for. *)
Wanted == BUFSIZE - nRead

(* One read of the loop. At the end of the stream it returns 0 every time, *)
(* and the loop never ends.                                                *)
Read ==
  /\ spc = "read"
  /\ i < reps
  /\ Ready(stream[served], cpc[served] = "dead")
  /\ \E n \in Returned(stream[served], Wanted) :
       /\ stream' = [stream EXCEPT ![served] = @ - n]
       /\ count' = count + 1
       /\ IF Filled(nRead + n)
            THEN i' = i + 1 /\ nRead' = 0
            ELSE nRead' = nRead + n /\ UNCHANGED i
       /\ spc' = IF n = 0 THEN "spin" ELSE "read"
  /\ UNCHANGED <<clientVars, served, reps, backlog, announced, reply>>

(* The count is sent back, and the server closes its sockets and ends. *)
Reply ==
  /\ spc = "read"
  /\ i = reps
  /\ reply' = (cpc[served] # "dead")
  /\ spc' = "done"
  /\ UNCHANGED <<clientVars, served, reps, i, nRead, count, backlog, announced, stream>>

-----------------------------------------------------------------------------
Ended(c) == cpc[c] \in {"done", "failed", "dead"}

(* All programs have ended, or the clients have and the server spins or    *)
(* was never reached, at its port or at another.                           *)
Finished ==
  /\ \A c \in Clients : Ended(c)
  /\ spc \in {"done", "spin", "listen", "deaf"}
  /\ UNCHANGED vars

Client(c) == Connect(c) \/ Announce(c) \/ Write(c) \/ ReadCount(c)
Server == Listen \/ Accept \/ ReadReps \/ Read \/ Reply

Next == (\E c \in Clients : Client(c) \/ Die(c)) \/ Server \/ Finished

Spec == Init /\ [][Next]_vars

(* No program stops between two of its steps; nobody has to be killed. *)
FairSpec == Spec /\ (\A c \in Clients : WF_vars(Client(c))) /\ WF_vars(Server)

-----------------------------------------------------------------------------
(* What the server has taken off a client's stream. *)
Received(c) == IF c = served THEN i * BUFSIZE + nRead ELSE 0

(* The server's loops lose no byte, invent none and take none from another *)
(* client: what the server counts as whole repetitions, what it has of the *)
(* current one and what is under way is what the client has written        *)
(* (Server.cpp:142-149, Client.cpp:224-255).                               *)
NoByteLost == \A c \in Clients : written[c] = Received(c) + stream[c]

(* A client that is served and sends what the server expects ends with a   *)
(* count between one read for every repetition and one for every byte,     *)
(* and has sent everything (Server.cpp:145-156, Client.cpp:264-275).       *)
CountPlausible ==
  \A c \in Clients :
    cpc[c] = "done" /\ c = served /\ size[c] = BUFSIZE =>
      /\ nreads[c] \in repetition[c] .. repetition[c] * BUFSIZE
      /\ written[c] = repetition[c] * BUFSIZE

(* Some call of a client, or of the server, would return.                  *)
ClientGoesOn(c) ==
  \/ cpc[c] \in {"connect", "announce"}
  \/ cpc[c] = "write" /\ (\/ written[c] = repetition[c] * size[c] \/ spc = "done"
                         \/ stream[c] < Capacity)
  \/ cpc[c] = "count" /\ spc = "done"

ServerGoesOn ==
  \/ spc = "start"
  \/ spc = "listen" /\ backlog # {}
  \/ spc = "accepted" /\ (served \in announced \/ cpc[served] = "dead")
  \/ spc = "read" /\ (i = reps \/ Ready(stream[served], cpc[served] = "dead"))

(* Client and server never wait for each other, the client for room or for *)
(* the count and the server for bytes, however little the network holds:   *)
(* a client that sends at least what the server expects is served to the   *)
(* end, and whoever is not served waits only while the server is at work,  *)
(* or spins (Client.cpp:221-264, Server.cpp:130-157). A client that sends  *)
(* less is only warned, and does leave both waiting.                       *)
NeverStuck ==
  /\ spc \in {"accepted", "read"} /\ size[served] >= BUFSIZE =>
       ServerGoesOn \/ ClientGoesOn(served)
  /\ spc \in {"start", "listen", "deaf", "done"} =>
       ServerGoesOn \/ \A c \in Clients : Ended(c) \/ ClientGoesOn(c)

(* Clients that send what the server expects come to their end, served or  *)
(* not, unless one is killed and leaves the server spinning                *)
(* (Client.cpp:158-302). One that sends less waits for the count while the *)
(* server waits for bytes.                                                 *)
ClientsEnd ==
  (\A c \in Clients : size[c] = BUFSIZE) ~> (spc = "spin" \/ \A c \in Clients : Ended(c))

=============================================================================
