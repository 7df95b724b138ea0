# A verification of the CSS432 network programs

The repository holds the assignments of a networking course, written in C++ over BSD sockets. Four
of them are protocols with state on both ends:

* `Program 2`: three ways of moving 20000 numbered messages over UDP (unreliable, stop-and-wait,
  sliding window with cumulative acknowledgments);
* `Prog5`: an interactive FTP client with forked children for the data connection;
* `Prog1`: a throughput test, clients and a server over one TCP connection each;
* `Prog3`: ttcp, several transmitters and one receiver over TCP.

This project models and checks these, and the small demonstrations of a TCP connection around them
(`Prog3`, `Socket`), and proves theorems about all of them.

The modules are TLA+, checked by TLC; the theorems are proved by TLAPS. `PROJECT.json` lists the
runs, the mutants that show each property can fail, the source lines behind every definition, the
findings, the hazards and the theorems.

## 1. Inventory

| Component | Source | State | Operations | Hard part |
|---|---|---|---|---|
| UDP sockets | `Program 2/UdpSocket.cpp` | descriptor, address of the last sender | `sendTo`, `ackTo`, `recvFrom` (blocks), `pollRecvFrom` (does not) | datagrams are lost, doubled, overtaken |
| Timer | `Program 2/Timer.cpp` | `startTime`, at first the epoch | `Start`, `End` | a timer nobody has started has long run out |
| Test 1, unreliable | `hw2.cpp:140-162` | loop counters | send `max`, receive `max` | the server counts datagrams, not messages |
| Test 2, stop-and-wait | `hw2.cpp:164-217, 291-312` | `sequence` at both ends, `retransmitted`, timer | send, poll, time out, verify; receive, acknowledge | late, stale and lost acknowledgments |
| Test 3, sliding window | `hw2.cpp:219-289, 314-349` | `sequence`, `ackSeq`, `message[0]`; `sequence`, `ack`, `array` | two client loops, cumulative acknowledgments, thirty rounds | gaps, resends, nothing tells the rounds apart |
| Final acknowledgments | `hw2.cpp:122-133` | `i` | ten times `MAX-1`, a second apart | they replace a lost last acknowledgment only |
| FTP client | `Prog5/FTPClient.cpp`, `main.cpp` | `openConnection`, `activityMode`, `ftpCode`, `replyCode`, the descriptors | `open`, `cd`, `ls`, `get`, `put`, `close`, `quit`, other and empty lines | one read is not one reply; parent and child share the control connection; stale codes |
| TCP socket class | `Prog3/Socket.cpp` and three copies | `clientFd`, `serverFd` | `getClientSocket`, `getServerSocket` | `connect` is retried for ever; listens once, accepts again and again |
| Throughput test | `Prog1/Client.cpp`, `Server.cpp` | `repetition`; `reps`, `i`, `nRead`, `count` | the addresses of a host name one after the other, three ways of writing 1500 bytes, reads until full, the count sent back | short reads, the end of the stream, sizes that do not match, one server for many clients |
| ttcp | `Prog3/ttcp.cpp`, `Option.h`, copy in `Prog3/hw3` | `option`, `totalBytes`, `iocalls` on both sides | `checkOptions`, `transmit`, `receive`, `allWrite`, `allRead` | partial transfers, half-close, one receiver for all transmitters |
| TCP demos | `Prog3/Client.cpp`, `Server.cpp`, `hw3/hw3_demo.cpp`; `Socket/client.cpp`, `server.cpp` | the next call, the socket | connect, accept, write, read, `shutdown`, close | one `read` for a message in parts, a half-closed connection, a close on unread bytes |
| Others | `Prog4/spoofcheck.cpp`, `UDPinClass` | none | straight-line system calls of one program | none for a model |

How they interact. In `Program 2` the same `main` runs as client on one host and as server on the
other; they share nothing but the two UDP sockets, and test 3 reuses these for every window size. In
`Prog5` `main` reads a command, `userIn` calls one operation of `FTPClient`, the operation writes a
command to the control connection and takes the code of whatever the next `read` returns
(`sendCommand`, `convertCode`). `passive` opens a data connection; `ls`, `get` and `put` fork a child
and wait for it. In `Prog1` and `Prog3` a client and a server share one TCP connection at a time;
the programs have no framing but the number of bytes both sides expect.

What makes each part correct:

* UDP sockets: a receiver sees only what was sent. (The rest is not promised.)
* Unreliable: on a network that neither loses nor doubles, the server ends with every message.
* Stop-and-wait: a message counts as delivered only when it was; the two counters never part by more
  than one; the count of retransmissions is right; the client returns.
* Sliding window: never more than `windowSize` messages unacknowledged, no message acknowledged that
  is missing, rounds do not mix, both ends return.
* FTP client: every operation is judged by the reply to its own command, the prompt comes back, a
  connection that counts as open is logged in, what `cd` returns is true, no sequence of commands
  brings the program down.
* Throughput test and ttcp: every byte written is read and counted once and for the right
  transmission, each side gets the counts of the other, neither waits for ever unless the other has
  stopped, and the two never wait for each other; a command line means the same however its options are
  ordered, run together or cut into arguments.
* TCP demos: an answer follows its request, the two sides never wait for each other, and both programs
  end, however TCP cuts the messages.

## 2. Modules

| Module | Models | State and actions in terms of the code |
|---|---|---|
| `UdpNetwork` | `UdpSocket` and the network | a channel per direction; `SendTo`, `RecvFrom`, `PollRecvFrom` are the calls, `Fault` is the network. Which faults may hit which direction is a constant |
| `ReliableTransfer` | no code: the abstract promise of tests 2 and 3 | messages `offered`, `accepted` without a gap, `confirmed`; never more than `Window` offered and not confirmed |
| `StopWait` | test 2 | one action per branch: `ClientSend` (top of the loop), `ClientPoll` and `ClientTimeout` (inner loop), `ClientRecv` (`VerifyReceipt`), `ServerRecv`, `FinalAck`, `ServerExit` |
| `SlidingWindow` | test 3, all rounds | `ClientSend`/`ClientAfterSend` (window open), `ClientFull`/`ClientInnerEnd`/`ClientInnerRecv` (window full), `ClientNextRound`, `ServerRecv`, `FinalAck` |
| `Unreliable` | test 1 | `ClientSend`, `ServerRecv` |
| `FtpServer` | no code under `src/`: an FTP server as the client uses it | the control connection as two sequences (`requests`, `replies`), the `session` and the `transfer`; `Refuses`, `Authenticates`, `Executes`, `Listens`, `Transfers`, `SaysGoodbye` take a command and answer it, `HangsUp` ends the session |
| `FtpClient` | `Prog5` | extends `FtpServer`. One action per reply awaited by the parent (`GreetingRead` ... `QuitRead`), the user's choices (`Open`, `FirstCommand`, `NoCommand`, `EmptyLine`, `Quit`), the child's reads; `PasvRead` takes the address out of a 227 reply (`Turns`, `PortRead`), `NoFileName` is the empty line where `get` and `put` ask for the remote file, `ListForkFails` and `TransferForkFails` are the failures of `fork`, `Destroy` is the destructor |
| `TcpStream` | one direction of a TCP connection | a number of bytes; `Taken`, `Ready`, `Returned` say what a `write` or `read` may do with it |
| `Throughput` | `Prog1` | each client's `NextAddress`, `Refused`, `Unresolved`, `Connect`, `Announce`, `Write`, `ReadCount`, the server's `Listen` (perhaps on a port nobody knows: `deaf`), `Accept`, `ReadReps`, `Read` (one `read` of its loop), `Reply`; clients the server never accepts wait in its `backlog`; `Die` kills a client |
| `Ttcp` | `Prog3/ttcp.cpp` with `Socket.cpp` | `transmit`: `Connect`, `ConnectFails` (an unknown host), `SendHeader`, `AllWrite` (one `write`), `Shutdown`, `ReadResults`; `receive`: `Listen`, `Accept`, `ReadHeader`, `AllRead` (one `read`), `SendResults`, `Spin`; `Die`, `DieReceiver`, `BrokenPipe` |
| `CountedTransfer` | no code: the abstract promise of ttcp | senders taken one at a time and once; a sender that is answered has ended, is told what it sent, and all of it has been received |
| `TtcpOptions` | `checkOptions`, `atoi`, `Option.h` | a scan of the command line as a fold over arguments and characters, and what it amounts to said of the whole line, without a scan (`ScanAgrees`) |
| `TcpDemos` | the demos | what each side has still to call, and its socket; one action per system call (`CallWrite`, `CallRead`, `CallShutdown`, `CallClose`), the ways to get connected or not, `Die` and `BrokenPipe` |
| `UdpNetworkProofs` | | lemmas about a channel |
| `StopWaitProofs`, `SlidingWindowProofs`, `UnreliableProofs`, `ThroughputProofs`, `TtcpProofs`, `TcpDemosProofs`, `FtpClientProofs` | | theorems, section 5 |
| `MCStopWait`, `MCSlidingWindow`, `MCUnreliable`, `MCFtpClient`, `MCThroughput`, `MCTtcp`, `MCTcpDemos` | | sets for the `.cfg` files; `MCTtcp` puts `Ttcp` and `TtcpOptions` together, so that the buffer lengths are what the scan makes of command lines |

`StopWait`, `SlidingWindow` and `Unreliable` extend `UdpNetwork`; the first two instantiate
`ReliableTransfer` under a refinement mapping, `Ttcp` instantiates `CountedTransfer`. `Throughput`,
`Ttcp` and `TcpDemos` extend `TcpStream`. A definition whose name continues that of another
after an underscore and whose comment begins with MUTANT is a broken variant of it, used only to
show that a property notices.

Granularity. A step ends where another process can be seen or can act: at a poll, a read, a write or
a look at the clock. `pollRecvFrom` and the test of the timer are two steps in `StopWait`, because an
acknowledgment may come between them. Where the code reads and acts on the result without looking
outside again, it is one action with everything it changes. A process that ends closes its socket,
and what waits in it is gone.

Abstractions. A message is its sequence number, an FTP reply its code; a long reply may come in
pieces. The verbose output, the timing results and the tokenizing of a user's line are left out: a
line is the command it names, another word, or empty. The clock counts up to the one value the code
compares with. `replyCode` and `ftpCode` have no initialiser in `FTPClient.h:76-77`: the constant
`Uninitialised` gives the codes they may happen to hold. A state from which the client cannot come
back because it has crashed (SIGPIPE, a null token) or loops for ever is `pc = "lost"`. Of the
address in a 227 reply the model keeps how many words stand before it and which of its numbers the
parser takes for the port. In `Prog1` and `Prog3` the data are counted, not looked at; the few bytes
of a header or a result are read at once, though TCP could part them; the three ways of writing of
`Prog1` differ only in the number of system calls and are one; times are left out. What a host name
resolves to is a sequence of addresses, each of which accepts, refuses or cannot be tried.

## 3. Runs

Runs that pass:

| Run | Setting | Shows |
|---|---|---|
| `StopWait_hostile` | fair; 3 messages, any three faults of any kind on either channel | `TypeOK`; `Lockstep`; every step is one of `ReliableTransfer` with a window of one; `CountsRetransmissions`; `OnlyLostAckStops`: only a lost acknowledgment keeps the client from returning; `LastAckDelivered`: not the last one, thanks to `main` |
| `SlidingWindow_inOrder` | fair; 3 messages, window 2, messages in order and at most doubled, any faults of acknowledgments | `TypeOK`; `TruthfulAcks`; `ImplementsTransfer`; `OnlyLostAckStops`: both return, or the network has lost an acknowledgment and the client polls for ever with nothing under way (`hw2.cpp:271`); whatever it resends gets it on |
| `SlidingWindow_rounds` | rounds with windows 1, 2, 3; datagrams lost in both directions | `RoundsInStep`: the client never leaves a round before the server, the server is at most one ahead |
| `Unreliable_reorder` | 4 messages, fair, reordering only | `TypeOK`; `NoneMissing`; `ServerReturns` |
| `FtpClient_inStep` | started without host; 4 lines of any kind; refusals of any command, a slow server, replies in pieces and coalesced, hang-ups, failing local files, children that cannot be had | `TypeOK`; `InStep`: the prompt never comes back with a command or reply still on the connection, until a `get` has given up or a login has come in pieces more than a second apart (`abandoned`); `LoginTruthful`; `LostOnlyAfterClosing`: the client crashes or is stuck connecting only after a close, one of these two, or on an empty line, at the prompt or for the remote file |
| `FtpClient_prompt` | fair; started with host; 4 lines; a server that may refuse any command but PASV and LIST, replies apart but greetings in pieces, children that cannot be had | `PromptReturns`; `NeverStuck`: in no operation do parent, child and server all wait for each other; `CdTruthful` |
| `Throughput_counts` | fair; two clients, each with up to two repetitions of 2, 3 or 4 bytes where the server expects 3, and any outcome of its name lookup; a stream of 4 bytes; one client may be killed, the server's port may be taken | `TypeOK`; `NoByteLost`; `CountPlausible`; `NeverStuck`: a client that sends at least what the server expects and the server never wait for each other; `ClientsEnd`; `CountPlausible` and `ClientsEnd` where the sizes agree |
| `Ttcp_served` | fair; two transmitters, 2 buffers of 0, 1 or 2 bytes each, from scanned command lines; a stream of 2 bytes; one transmitter and the receiver may be killed, the other transmitter may find no host | `TypeOK`; `NoByteLost`; `OwnResults`; `ImplementsCountedTransfer`; `NeverStuck`; `AllServed`; `OptionsAsTyped`: the scan accepts and understands every command line of two arguments as said of the line as a whole (not as the usage message says: section 6) |
| `TcpDemos_all` | fair; the three demonstrations; an unknown host, a port in use, either side killed | `TypeOK`; `AnswerAfterRequest`; `ClientAnswered`; `HalfClosed`: the read after the shutdown does not find the end of the stream, it brings bytes that were not read before; `NeverStuck`; `BothEnd` |

Runs that find a violation, each of something a comment of the code says:

| Run | What happens |
|---|---|
| `StopWait_lostAck` | one acknowledgment lost: the client resends for ever, since `ServerReliable` answers only the first copy (`hw2.cpp:306`) |
| `SlidingWindow_staleRound` | perfect network: a repeated message of one round lets the server end the next one early (`hw2.cpp:343`) |
| `FtpClient_hang` | 150 and 226 in one read: `ls` waits for a reply that is already gone (`FTPClient.cpp:236`) |

Bounds, and why they are enough. `MAX` is 3 where the code has 20000: stop-and-wait compares only
neighbouring numbers and the sliding window numbers within a window, so a stale, a current and a
next message exist. `MaxFaults` of two or three allows every pair of faults to combine; the proofs of
section 5 need no bound at all. `MaxInFlight` keeps the clock from advancing while many copies are
under way; it bounds how many resends pile up, not what a datagram can be, and it is set above what
a full window and a resend need. `FINAL_ACKS` is 1 to 3 for the ten of `main`, in `StopWait_hostile`
as many as there are faults. `MaxCount` saturates the counter of retransmissions above what the
run's faults produce. `TIMEOUT` is one unit: the code asks only whether it has passed.

Four FTP lines (`MaxOperations`) suffice to open, use, disturb and use again; sizes are none, within
and beyond `Buffer`. `Pieces` is at most two. `Wordings` is {3}, the "Entering Passive Mode" the
parser counts on; section 6 says what other wordings do.

The two repetitions of `Throughput_counts` are a first and a last one, its stream holds more than a
repetition, so that a read may meet bytes of the next; sizes lie below, at and above what the server
expects; of two clients one may be served while the other waits. In `Ttcp_served` a buffer of 2 bytes
is the shortest that can be half full, two buffers are a first and a last, and two transmitters let
one wait while the other is served or killed. The command lines hold up to two arguments, each a host
or a `-` with up to three characters out of a number option, two flags, a mode of each kind and two
digits, enough for two options run together, a number of two digits, and a number split over
arguments. In `TcpDemos_all` a short message has 2 bytes and a long one 3, which a stream of 3 bytes
takes at once or in parts. An answer fits in the stream, as the 10 to 1500 bytes of the code do in a
socket's buffers: if it did not, the server of `Socket`, which answers before its client has sent
everything, and that client could both wait in `write`.

Deadlock is checked in all runs but four. In `FtpClient_inStep`, `FtpClient_hang` and
`Throughput_counts` the programs really may wait for ever (section 6); in `TcpDemos_all` a server
waits in `accept` for a client that has given up. A program that has ended stutters (`Finished`).

## 4. Fairness

`StopWait`, `SlidingWindow`, `Unreliable`: weak fairness of either process (each is a loop that is
scheduled again and again) and of `Tick` (time passes). The network owes nothing but that faults are
finitely many. `SlidingWindow` adds strong fairness of `ClientInnerRecv`: the few instructions from
`timer.Start()` to the test in the next line (`hw2.cpp:271-272`) do not take 1500 microseconds every
time, so a client that goes round and round with an acknowledgment waiting reads it at some point.

`FtpClient`: weak fairness of parent, child and server, each of them as a whole; the user owes
nothing, as `PromptReturns` starts from an operation the user has asked for. `Throughput` and
`Ttcp`: weak fairness of each program; nobody has to kill anyone, and a client's or a transmitter's
is its own, so none is starved by another. `TcpDemos`: weak fairness of each program once it is
connected, and of `accept` when a connection waits; no failure has to happen, and no connection
either, as `BothEnd` starts from one.

## 5. Proofs

Every safety invariant of the runs but one is proved, and so are the three refinements and
`HalfClosed`. All theorems hold for every value of the constants that the named `ASSUME`s of the modules allow
(the bounds of section 3 are arbitrary there), from nothing else but the assumptions named below.

### Channels

`UdpNetworkProofs` states what the network leaves true of a channel: reading, sending and every
fault turn a sequence over a set into a sequence over the same set, so nothing is invented; a channel
that is only reordered holds the same messages (`SameMessages`).

### Stop-and-wait

`StopWaitProofs` proves, for every `MAX`, `TIMEOUT`, number of final acknowledgments, every bound and
every set of faults:

* `TypeCorrect`: `Spec => []TypeOK`;
* `LockstepCorrect`: `Spec => []Lockstep`;
* `CountCorrect`: `Spec => []CountsRetransmissions`;
* `TransferImplemented`: `Spec => ImplementsTransfer`, step by step: sending for the first time is
  `Offer`, taking the expected message is `Accept`, accepting its acknowledgment is `Confirm`,
  everything else stutters.

`Lockstep` is not inductive. `IInv` adds what it rests on: every datagram under way is one that was
sent (`InFlight`: a message below `sent`, an acknowledgment below the server's `sequence`), `sent`
lies between the server's counter and one more than the client's, and equals the latter while the
client waits (`Counters`); and each program's place in its code says whether its counter has reached
`MAX` (`ControlPoints`). An acknowledgment accepted by the client then is below the server's counter
and equal to the client's, so the server has taken that message; a stale copy is below both and
changes nothing. One lemma per action shows that it keeps `IInv`.

`CountsRetransmissions` needs `Counting` besides: a client that has read a stale acknowledgment is
about to repeat its message without counting it, so the allowance must be there before the
repetition.

### Sliding window

`SlidingWindowProofs` proves, for every `MAX`, window sizes, timeout and bound:

* `TypeCorrect`: `Spec => []TypeOK`, for any rounds and any faults. The invariant `Shape` adds to the
  types what each place of the two programs implies of their variables (`Places`) and that the marks
  of the server have a highest one (`Highest`), which is the acknowledgment it sends.
* `RoundsCorrect`: `RoundsAssumed /\ Spec => []RoundsInStep`, for any rounds on a network that loses
  datagrams in both directions and does nothing else, with `MAX > 1`.

Of the first round, with any number of rounds to follow, if messages are at most doubled, or if the first
window is one message and the network does what it likes (`Assumed`; acknowledgments may meet any fault
in both cases). The code starts with a window of one (`hw2.cpp:89`), so for it the assumption holds
whatever the network does:

* `TruthfulAcksCorrect`: `Assumed /\ Spec => []TruthfulAcks`;
* `TransferImplemented`: `Assumed /\ Spec => ImplementsTransfer`. A program that has left the round
  counts as having gone through all of it (`FirstOffered`, `FirstAccepted`, `FirstConfirmed`), so this
  also says that neither leaves it early.

The argument for the rounds (`Rounds`) is that the acknowledgment of the last message, the only one
that ends the client's round, is sent once, when the server ends its own, and read at most once
(`LastAcks`). A server that is ahead waits for message 0, and the client, still in the old round,
neither has one under way nor resends it (`Waiting`). In the first round messages come in
order and nothing is left of an earlier one (`FirstRound`); in the later ones the window is at least two
messages, so that what is resent is never message 0 (`LaterRounds`). A doubled or delayed
acknowledgment of the last message would end the client's next round at once, which is why the
assumption excludes it.

`Assumed` is needed for the other two: after a lost message 0, message 1 is answered with an acknowledgment of 0
(`hw2.cpp:322` initialises `ack` to 0, and line 345 sends it). The argument is that the server's
marks never have a gap (`NoGap`), so that the highest of them, which
the code takes, is also the end of the prefix. For that, no message may come up that is beyond the
one expected: each message under way beyond it has its predecessor in front of it (`DataOrder`,
first half), which is so because whatever the client sends is due or has its predecessor still under
way (`DataOrder`, second half), or, with a window of one, because nothing beyond the expected message
is ever sent (`Counters`). All of this is `IInv`, which holds until the server ends the round; after that
all messages of it have been offered and the server never comes back to it (`Left`), and the client, which
cannot be ahead of the server (`NoNextRound`), only confirms. So what is inductive is `IInv \/ Left`. In a
later round no such theorem can hold: acknowledgments of the round before may still be under way, and
section 3 shows the round end early. Lemmas about channels (`OrderedAppend`, `OrderedTail`, `CoveredAppend`,
`CoveredTail`) carry this through sending, reading and doubling.

### Unreliable

`UnreliableProofs` proves `TypeCorrect` (any faults) and `NoneMissingCorrect`: if the network only
reorders (`OnlyReorders`), the server returns with every message. `Accounted` says that the messages
that have come and those under way are together as many as were sent, and every one sent is one or
the other; a server that has counted `MAX` datagrams has left nothing under way.

### Throughput test

`ThroughputProofs` proves `TypeCorrect`, `BytesCorrect` (`NoByteLost`), `CountCorrect`
(`CountPlausible`) and `NeverStuckCorrect` (`NeverStuck`), for any number of clients, any addresses,
sizes, repetitions and capacity. `IInv` adds to the three: whom the server serves at each of its
places (`Serving`), that the number it has read is the one the client announced (`Announced`), that
each `read` counted has returned at least one byte and no more than `BUFSIZE` belong to a repetition
(`Reads`), and that the count under way is the one of the loop (`Replied`). Its first lemmas bound
what a `write` takes of a stream and a `read` returns.

`NeverStuck` needs `Attended` besides: a client that has connected is in the backlog or served,
announces before it writes, and waits for the count only when it has written everything or the server
has gone. A server that waits for bytes has nothing of the stream to read, so by `NoByteLost` what it
has read is all that was written; it is short of a whole repetition (`Missing`), so a client that sends
at least `BUFSIZE` in each has not written everything, is still writing, and has the whole stream to
write into.

### ttcp

`TtcpProofs` proves `TypeCorrect`, `BytesCorrect` (`NoByteLost`), `ResultsCorrect` (`OwnResults`),
`TransferImplemented` (`ImplementsCountedTransfer`) and `NeverStuckCorrect` (`NeverStuck`), for any
transmitters, buffer lengths and numbers of buffers, whoever is killed. `IInv` says of each place in
`receive` which transmitter it serves and what is known of it (`Serving`, `Headers`, `Empty`), of
each byte where it is (`Conserved`), of the counters what they count (`Counted`, `ReadOut`), and of
the results that they belong to the transmitter they are sent to (`Unanswered`, `Truthful`). In the
refinement `AllWrite` is `Send`, `Shutdown` is `End`, `Accept` is `Take`, `AllRead` is `Receive`,
`SendResults` is `Answer`; the receiver's death is `Abandon` and a transmitter's is `End`.

`NeverStuck` needs one more invariant, `Answered`: a transmitter that is no longer waiting and not
served has ended and, while the receiver lives, has been sent its results. The one that is served is
in step with the receiver by `Headers` and `Empty`: while the receiver waits for a header it has yet
to be sent, and while it waits for bytes the stream is empty, so there is room.

### TCP demonstrations

`TcpDemosProofs` proves, for messages of any length, any capacity, and whoever is killed,
`TypeCorrect`, `OrderCorrect` (`AnswerAfterRequest`), `AnswerCorrect` (`ClientAnswered`) and
`HalfClosedCorrect` (`HalfClosed`), and, where an answer fits in the stream (`AnswersFit`),
`NeverStuckCorrect` (`NeverStuck`). The programs are straight lines of calls, so `IInv` pairs their
places: what a side has still to call is the end of its program, and goes with the state of its socket
(`PlaceOf`), and the two sockets go together (`Sockets`). Only a side that has left resets the other
(`Resets`), and only a write under way has taken part of a message (`Partly`). On that rest what is
under way at which place: the server has read something before it answers (`Request`), the
answer waits for the client until it reads it (`Answer`), so does the second message of `Prog3`
for the server (`Second`), and the request for a server that has not read it, while an answer finds the
stream no fuller than what has been written of it (`Asked`). The last is why nobody is stuck: a server
that waits for the request finds it, one in its answer has room for the rest of it, and a client that
waits for the answer waits for a server that is in one of the two. `AnswersFit` is needed; section 3
says why.

### FTP client

`FtpClientProofs` proves, for any number of operations, any server behaviour the constants allow, any
sizes and any leftover codes:

* `TypeCorrect` (`TypeOK`), `LoginCorrect` (`LoginTruthful`) and `InStepCorrect` (`InStep`) without
  further assumption;
* `LostCorrect`: `ThreeWords /\ Spec => []LostOnlyAfterClosing`, where `ThreeWords` says that a 227
  reply has three words before its address;
* `CdCorrect`: `Drained /\ StaysConnected /\ Spec => []CdTruthful`, where `Drained` says that a server
  which may be more than a second late does not send its greeting or its answer to the login in pieces
  (so that the login leaves nothing unread: `DrainedWhole`), and `StaysConnected` that
  the server does not hang up, the user does not `close` before quitting, and no `get` fails on its
  local file. Slow servers and coalesced replies, which the run leaves out, are allowed.
* `NeverStuckCorrect`: `Drained /\ Obliging /\ Spec => []NeverStuck`, where `Obliging` says that replies
  come one at a time, that the server refuses neither PASV nor LIST, that no `get` fails on its local file,
  and that the data of a transfer fits on its connection or, with no `get` and a server never more than a
  second late, is read by the child of `ls`. The server may refuse anything else and hang up at any point.

Each assumption is needed. `serverReply` reads on until nothing comes for a second; a piece of the
answer to the login that comes later is taken for the reply to SYST, and all that follow are one
behind. After a hang-up or `close`, `cd` goes by an old code, which may be 250. After a `get` given up,
it reads the reply to another command. `IInv` holds the type, what is true before a connection (`Unopened`), on the way
to the login (`Entering`, `Welcome`, `Admitted`), what the child may be doing (`Family`), and what
`cd` has been told (`Telling`). The second layer, `Orderly`, says for each place of the parent
exactly what may be on the control connection (`Owed`: a request alone, its answer alone, or the two
answers of a transfer, by the state of server and child; during the login, by `Entered`, also what is
left of a greeting in pieces, which makes the login fail), what is gone after a hang-up (`Gone`) and
that a data connection the client believes in is one the server listens on (`Listening`). It holds
until the client goes on with a reply unread, because a `get` gives up on its local file or the rest of a
login is late: the exception in both properties, `abandoned`.

For `CdTruthful` two more invariants stand on `Orderly`: `Staying` (only `quit` sends QUIT, so the
session is alive wherever an operation is) and `Counting`, which says where the two counts may differ:
`done` is one ahead of `told` exactly while the 250 that answers the CWD of `cd` is the next reply to
be read.

`NeverStuck` adds five invariants to `Orderly`. `Placed` pairs the places of parent and child with the
operation and the data connection; `Started` says that the server has begun what the 150 under way
announces; `Due` that a reply the client waits for is under way, asked for, or owed by a transfer;
`Fitting` that data going out has room and that data coming in is about to be ended by `put`; `Paced` that
otherwise the child of `ls` is still there to read it. A parent in `wait` then finds its child gone, a
child finds its reply or waits for a server in a transfer, and that server has room or is done. TLC
finds `NeverStuck` violated when any one of the assumptions is dropped: with PASV or LIST refused `ls`
waits for a reply that is not coming, with coalesced replies for one already read, with a larger file or
a late server the data is not read by anybody, and after a `get` given up or a login in late pieces the
answers are one behind.

### Only model-checked

Everything temporal under fairness (`OnlyLostAckStops`, `LastAckDelivered`,
`ServerReturns`, `PromptReturns`, `ClientsEnd`, `AllServed`, `BothEnd`), which this prover does not
handle; of `PromptReturns`, `ClientsEnd`, `AllServed` and `BothEnd` the safety half, that some step can
always be taken, is `NeverStuck`. And `OptionsAsTyped`, a fold over characters, which would need induction over data.

## 6. Where the code differs from what it says

Beyond the three violations of section 3, the models show or contain:

Stop-and-wait
* A second copy of an old acknowledgment makes the client send its message again without counting
  it (`hw2.cpp:196-214` against 185-187). `CountsRetransmissions` allows one for every acknowledgment
  of another message.

Sliding window
* After a lost message 0, message 1 is answered with an acknowledgment of message 0 (`hw2.cpp:322`).
* `timer.Start()` in line 271 runs on every turn of the loop, so a lost message is sent again only if
  1500 microseconds pass within a turn; the client may poll for ever, the exception in
  `OnlyLostAckStops`. Lines 224-228 ask for a resend after 1500 microseconds of waiting.
* What is resent is the message sent last (line 267), not the oldest without an acknowledgment, as
  226-228 demands.
* The timer of line 237 starts at the epoch; the first full window resends at once (line 266).
* With several rounds even a perfect network can keep the two ends apart for ever: a server in the
  next round drops what the client repeats from the last one.

FTP client
* A login answered in two parts more than a second apart leaves the second part to be read as the
  reply to SYST; from then on every operation is judged by the reply before its own (82-86). This is the
  one exception in `InStep`, with the `get` below.
* `close` never clears `openConnection` (341-350), so `open` is refused for good, though the message
  in line 26 asks the user to close before opening, and `main.cpp:23` says that close ends the connection
  and not ftp. No property is about this: the only one that holds would state the defect. After `close`,
  `ls` may take an old 227 for a new one and crash (`OperateClosed`).
* An empty line has no first token, and the comparison with it crashes (`EmptyLine`). So does an empty
  line where `get` and `put` ask for the remote file: a null pointer is assigned to a string (112-117,
  256-261, `NoFileName`).
* If `fork` fails, `ls` comes back to the prompt without a transfer (224-227), while `get` and `put` end
  the program in the midst of one (162-164, 305-307).
* A 227 reply with other than three words before the address makes the parser take the wrong numbers:
  the client crashes, or connects for ever to a port nobody listens on (401-408).
* Without a host, `activityMode` is false and the program ends after the first command that is not a
  successful `open` (`main.cpp:41, 60-67`).
* `get` reads nothing from the data connection and `put` writes nothing to it (161-178, 304-321);
  a `get` larger than the buffers leaves server, child and parent waiting for each other.
* A refused LIST has one reply, and `ls` reads two (235-236): the prompt does not come back. The same
  for `get` and `put` if their final reply comes with the 150 in one read.
* `get` gives up on its local file without reading the final reply (153-158), so the next operation
  reads it as its own: the other exception in `InStep`.
* At the end of the stream `convertCode` keeps the old code (489-499); on a connection the server has
  closed, `cd` may return true.
* After a refused PASV the old or uninitialised `passiveSD` is used (383-394, 460); on a descriptor
  that is no connection the child of `ls` may spin. The destructor leaves `passiveSD` open.
* `connect` is retried for ever (`Socket.cpp:62`).

Throughput test
* A product of `nbufs` and `bufsize` other than 1500 is only warned about (`Client.cpp:117-120`). With
  less, the client waits for the count and the server for bytes, for ever; with more, the server
  closes on unread bytes, and the reset may reach the client before it has read the count.
* If the client ends early the server's loop reads 0 bytes again and again (`Server.cpp:144-148`).
* The header comment promises a thread for every client (`Server.cpp:10-14`); the server takes one
  client and ends. The others, already connected, are reset.
* The client gives up at the first address that refuses it, without trying the next
  (`Client.cpp:151-154`).
* The server does not look at what `bind` returns (`Server.cpp:108`): if its port is taken, it listens on
  another, where no client finds it.

ttcp
* The usage message (`ttcp.cpp:10-22`) gives 8192 as the default buffer length, and `Option.h:9` has 4096.
  It gives a host to `-t` only, and `-n` and `-D` as options of `-t`; `checkOptions` takes all three with
  `-r`. `OptionsAsTyped` is about the code, not about this message.
* The receiver keeps the last buffer length if a transmitter ends before it has sent its own
  (`ttcp.cpp:172`). This harms nothing: such a transmission is empty.
* `-l0`, or a `-l` without digits, makes the receiver loop for ever (`ttcp.cpp:181-185`).
* A transmitter killed before its results are sent can take the receiver along by SIGPIPE
  (`ttcp.cpp:188-190`); those still waiting then print their own counts as the receiver's
  (`ttcp.cpp:153-159`).

TCP demos
* The server of `Socket` does not look at what `bind` returns, and then listens on another port.
* `Prog3/Server.cpp:42` names `serverSD`, which is not declared; the model reads it as `serverSd`.

## 7. Not modelled, and the plan

Not modelled for good:

* `Prog4/spoofcheck.cpp`, one sequential lookup of a host name and its address, and `UDPinClass`,
  a class exercise: no state, no second process, and neither compiles as it stands;
* the generated CMake files (all `cmake-build-debug` directories);
* the contents of files and messages, times, printing, socket options, and the failures of `setsockopt` that
  end a program at once. (A failure of `bind` ends ttcp's receiver, which `DieReceiver` covers; the other
  servers go on.)

The definitions cover 1682 of the 10239 lines counted as implementation. 6545 of these are ten generated
compiler probes (`CMakeCCompilerId.c`, `CMakeCXXCompilerId.cpp`), which have no part in the system; of the
3694 lines written by hand it is a little less than half. The rest are the identical copies of `Socket.cpp`, `ttcp.cpp` and
their headers, which the map names once, and printing, timing and comments.

Of the hazards in `PROJECT.json` seventeen have no property. All but one (`ttcp.cpp:172`, which is harmless) are
what the code does wrong, and a property that holds has to except them, as those named in their notes do; they are listed so that a change of the
code can be held against them. Section 6 describes them.

Every safety property of the runs has its theorem but `OptionsAsTyped`. Some are stated as far as they
hold: `TruthfulAcks` and the refinement of the sliding window for the first round, since nothing
separates the later ones; of the FTP client `LostOnlyAfterClosing`, `CdTruthful` and `NeverStuck` under the
assumptions of section 5, since section 6 says what happens without them.
