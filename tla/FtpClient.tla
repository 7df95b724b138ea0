------------------------------ MODULE FtpClient ------------------------------
(***************************************************************************)
(* The FTP client of Prog5: the operations of FTPClient (FTPClient.cpp)    *)
(* under the prompt of main (main.cpp), against the server of FtpServer.   *)
(* The client's parent process runs the operations; ls, get and put fork a *)
(* child for the data connection, which shares the control connection with *)
(* its parent.                                                             *)
(***************************************************************************)
EXTENDS FtpServer

CONSTANTS
  WithHost,      \* BOOLEAN: the client is started with a host name
  Operations,    \* the operations the user may ask for, and other lines
  MaxOperations, \* bound: operations asked for before the user quits
  Coalesce,      \* BOOLEAN: one read may return several replies
  Wordings,      \* how many words a 227 reply may have before the address
  Slow,          \* BOOLEAN: the server may need more than a second
  LocalFails,    \* which of get and put may fail on their local file
  ForkMayFail,   \* BOOLEAN: the process may be refused a child
  Uninitialised  \* codes that members without an initialiser may hold

AllOperations == {"open", "cd", "ls", "get", "put", "close"}

(* What else a user may type: no command; nothing; or get or put without a *)
(* file name, and nothing again when asked for the remote file.            *)
OtherLines == {"other", "empty", "noname"}

ASSUME FtpAssumption ==
  /\ {WithHost, Coalesce, Slow, ForkMayFail} \subseteq BOOLEAN
  /\ Operations \subseteq AllOperations \union OtherLines
  /\ LocalFails \subseteq {"get", "put"}
  /\ MaxOperations \in Nat
  /\ Wordings \subseteq Nat /\ Wordings # {}
  /\ Uninitialised \subseteq Codes

VARIABLES
  pc,               \* the parent: at the prompt, awaiting the reply to the
                    \* command named, at another point of an operation,
                    \* "ended", "exited", or "lost": it crashed or spins
                    \* for ever
  op,               \* the operation in progress ("start" for the first open)
  operations,       \* operations asked for so far
  openConnection,
  activityMode,
  clientSD,         \* "none", "open" or "closed"
  passiveSD,        \* "none", "open", "shut" (for writing) or "closed"
  ftpCode,
  replyCode,
  child,            \* the forked child: "none", "data", "reply", "spins" or "exited"
  told,             \* how often cd has returned true
  abandoned         \* whether the client has gone on with a reply unread: a
                    \* get that gave up, or a login that came in pieces
                    \* more than a second apart

served == <<left, done>>
data == <<passiveSD, transfer, served, unread>>
history == <<told, abandoned>>
flags == <<openConnection, activityMode>>
vars == <<pc, op, operations, flags, clientSD, ftpCode, replyCode, child,
          control, data, history>>

TypeOK ==
  /\ pc \in Commands \union {"prompt", "connect", "greeting", "drain", "fail",
                             "wait", "listed", "ended", "exited", "lost"}
  /\ op \in AllOperations \union OtherLines \union {"start", "quit"}
  /\ operations \in 0 .. MaxOperations
  /\ openConnection \in BOOLEAN
  /\ activityMode \in BOOLEAN
  /\ clientSD \in {"none", "open", "closed"}
  /\ passiveSD \in {"none", "open", "shut", "closed"}
  /\ ftpCode \in Codes
  /\ replyCode \in Codes
  /\ child \in {"none", "data", "reply", "spins", "exited"}
  /\ told \in 0 .. MaxOperations
  /\ abandoned \in BOOLEAN
  /\ ServerTypeOK

Init ==
  /\ pc = IF WithHost THEN "connect" ELSE "prompt"
  /\ op = "start"
  /\ operations = 0
  /\ openConnection = FALSE
  /\ activityMode = FALSE
  /\ clientSD = "none"
  /\ passiveSD = "none"
  /\ ftpCode \in Uninitialised
  /\ replyCode \in Uninitialised
  /\ child = "none"
  /\ told = 0
  /\ abandoned = FALSE
  /\ ServerInit

-----------------------------------------------------------------------------
(* Talking on the control connection.                                      *)

(* main's loop: the prompt again while isActive(). The first open precedes *)
(* the loop.                                                               *)
Back(o, active) == IF o = "start" \/ active THEN "prompt" ELSE "ended"

(* sendCommand, its write: the command goes out. On a connection the       *)
(* server has closed the write is accepted or kills the client (SIGPIPE).  *)
SendCommand(c) ==
  IF session # "closed"
    THEN /\ requests' = Append(requests, c)
         /\ pc' = c
    ELSE /\ pc' \in {c, "lost"}
         /\ UNCHANGED requests

(* A read on the control connection would not block. *)
Readable == replies # <<>> \/ session = "closed"

(* Takes one reply, or several that have arrived together; nothing at the  *)
(* end of the stream.                                                      *)
ReadSome ==
  IF replies # <<>>
    THEN \E n \in 1 .. (IF Coalesce THEN Len(replies) ELSE 1) :
           replies' = SubSeq(replies, n + 1, Len(replies))
    ELSE UNCHANGED replies

(* MUTANT of Converted: only the class of the reply is parsed. *)
Converted_FirstDigit == IF replies # <<>> THEN Head(replies) \div 100 ELSE replyCode

(* convertCode: the code of what was read is that of the first reply in    *)
(* it; at the end of the stream replyCode stays what it was.               *)
Converted == IF replies # <<>> THEN Head(replies) ELSE replyCode

ConvertCode ==
  /\ Readable
  /\ ReadSome
  /\ replyCode' = Converted

-----------------------------------------------------------------------------
(* The prompt and openServer.                                              *)

(* The user asks for operation o. *)
Ask(o) ==
  /\ pc = "prompt"
  /\ o \in Operations
  /\ operations < MaxOperations
  /\ operations' = operations + 1
  /\ op' = o

(* open: refused while openConnection is set. *)
Open ==
  /\ Ask("open")
  /\ pc' = IF openConnection THEN Back("open", activityMode) ELSE "connect"
  /\ UNCHANGED <<flags, clientSD, ftpCode, replyCode, child, control, data, history>>

(* userIn: no matching command. An open without a host name is one of them. *)
NoCommand ==
  /\ Ask("other")
  /\ pc' = Back("other", activityMode)
  /\ UNCHANGED <<flags, clientSD, ftpCode, replyCode, child, control, data, history>>

(* userIn: an empty line has no first token to compare. *)
EmptyLine ==
  /\ Ask("empty")
  /\ pc' = "lost"
  /\ UNCHANGED <<flags, clientSD, ftpCode, replyCode, child, control, data, history>>

(* get and put without a file name: an empty line for the remote file has  *)
(* no token to assign, whatever there is on the connection.                *)
NoFileName ==
  /\ Ask("noname")
  /\ pc' = IF openConnection THEN "lost" ELSE Back("noname", activityMode)
  /\ UNCHANGED <<flags, clientSD, ftpCode, replyCode, child, control, data, history>>

(* getClientSocket: a socket for the host, connected however long it takes. *)
GetClientSocket == clientSD' = "open"

Connect ==
  /\ pc = "connect"
  /\ GetClientSocket
  /\ openConnection' = TRUE
  /\ activityMode' = TRUE
  /\ pc' = "greeting"
  /\ UNCHANGED <<op, operations, ftpCode, replyCode, child, control, data, history>>

(* The host is unknown: nothing is connected, no code is read, the login   *)
(* does not happen.                                                        *)
ConnectFails ==
  /\ pc = "connect"
  /\ clientSD' = "none"
  /\ ftpCode' = replyCode
  /\ pc' = Back(op, activityMode)
  /\ UNCHANGED <<op, operations, flags, replyCode, child, control, data, history>>

(* The greeting: 220 is answered with the user's name. If the server hangs *)
(* up before it, the code is what the member held.                         *)
GreetingRead ==
  /\ pc = "greeting"
  /\ ConvertCode
  /\ ftpCode' = replyCode'
  /\ IF ftpCode' = Greeted
       THEN SendCommand("USER")
       ELSE /\ pc' = IF ftpCode' = LoggedIn THEN "drain" ELSE "fail"
            /\ UNCHANGED requests
  /\ UNCHANGED <<op, operations, flags, clientSD, child, session, data, history>>

(* The reply to USER: 331 asks for the password, 230 needs none. *)
UserRead ==
  /\ pc = "USER"
  /\ ConvertCode
  /\ ftpCode' = replyCode'
  /\ IF ftpCode' = UserOkay
       THEN SendCommand("PASS")
       ELSE /\ pc' = IF ftpCode' = LoggedIn THEN "drain" ELSE "fail"
            /\ UNCHANGED requests
  /\ UNCHANGED <<op, operations, flags, clientSD, child, session, data, history>>

PassRead ==
  /\ pc = "PASS"
  /\ ConvertCode
  /\ ftpCode' = replyCode'
  /\ pc' = "drain"
  /\ UNCHANGED <<op, operations, flags, clientSD, child, requests, session, data, history>>

(* serverReply: read on until nothing comes for a second. *)
Drain ==
  /\ pc = "drain"
  /\ replies # <<>>
  /\ replies' = <<>>
  /\ UNCHANGED <<pc, op, operations, flags, clientSD, ftpCode, replyCode, child,
                 requests, session, data, history>>

(* ... and then ask for the system type, if the login succeeded. What      *)
(* comes a second late is not read any more.                               *)
DrainEnd ==
  /\ pc = "drain"
  /\ replies = <<>> \/ Slow
  /\ IF ftpCode = LoggedIn
       THEN SendCommand("SYST") /\ abandoned' = (abandoned \/ replies # <<>>)
       ELSE pc' = "fail" /\ UNCHANGED <<requests, abandoned>>
  /\ UNCHANGED <<op, operations, flags, clientSD, ftpCode, replyCode, child,
                 replies, session, data, told>>

SystRead ==
  /\ pc = "SYST"
  /\ ConvertCode
  /\ pc' = Back(op, activityMode)
  /\ UNCHANGED <<op, operations, flags, clientSD, ftpCode, child, requests,
                 session, data, history>>

(* closeSock, close: the client closes the connection; whatever is on it   *)
(* is gone.                                                                *)
CloseClientSD ==
  /\ clientSD' = "closed"
  /\ requests' = <<>>
  /\ replies' = <<>>
  /\ session' = "none"

(* MUTANT of LoginFails: the connection stays open. *)
LoginFails_KeepsOpen ==
  /\ pc = "fail"
  /\ pc' = Back(op, activityMode)
  /\ UNCHANGED <<op, operations, flags, clientSD, ftpCode, replyCode, child,
                 control, data, history>>

(* No login: closeSock(clientSD). *)
LoginFails ==
  /\ pc = "fail"
  /\ CloseClientSD
  /\ openConnection' = FALSE
  /\ pc' = Back(op, activityMode)
  /\ UNCHANGED <<op, operations, activityMode, ftpCode, replyCode, child, data, history>>

-----------------------------------------------------------------------------
(* cd, ls, get, put, close and quit.                                       *)

DataOperations == {"ls", "get", "put"}

(* Without an open connection each operation says so and returns. *)
NotConnected ==
  /\ ~openConnection
  /\ \E o \in DataOperations \union {"cd", "close"} : Ask(o)
  /\ pc' = Back(op', activityMode)
  /\ UNCHANGED <<flags, clientSD, ftpCode, replyCode, child, control, data, history>>

(* cd sends CWD; ls, get and put first ask for a data connection; close    *)
(* sends QUIT.                                                             *)
FirstCommand(o) ==
  CASE o = "cd" -> "CWD" [] o \in DataOperations -> "PASV" [] o = "close" -> "QUIT"

Operate ==
  /\ openConnection
  /\ clientSD = "open"
  /\ \E o \in DataOperations \union {"cd", "close"} :
       /\ Ask(o)
       /\ SendCommand(FirstCommand(o))
  /\ UNCHANGED <<flags, clientSD, ftpCode, replyCode, child, replies, session,
                 data, history>>

(* put cannot open its local file, before it sends anything. *)
PutNoFile ==
  /\ openConnection
  /\ "put" \in LocalFails
  /\ Ask("put")
  /\ pc' = "prompt"
  /\ UNCHANGED <<flags, clientSD, ftpCode, replyCode, child, control, data, history>>

(* After close the connection still counts as open, and every write fails. *)
(* cd, get and put then look at the code of an older reply, and a 200      *)
(* among them makes get and put close the data connection. passive takes   *)
(* ftpCode 227, left over from an ls, for the reply to its own PASV, and   *)
(* parses a message without a port in it. An ls that is refused a child    *)
(* closes its data connection.                                             *)
OperateClosed ==
  /\ openConnection
  /\ clientSD = "closed"
  /\ \E o \in DataOperations \union {"cd", "close"} :
       /\ Ask(o)
       /\ pc' = IF o \in DataOperations /\ ftpCode = Passive THEN "lost" ELSE "prompt"
       /\ ftpCode' = IF o \in {"cd", "get", "put"} THEN replyCode ELSE ftpCode
       /\ told' = IF o = "cd" /\ replyCode = FileActionOkay THEN told + 1 ELSE told
       /\ \/ /\ o \in {"get", "put"} /\ replyCode = CommandOkay
             /\ passiveSD' = "closed"
          \/ /\ ForkMayFail /\ o = "ls" /\ pc' = "prompt"
             /\ passiveSD' = "closed"
          \/ /\ ~(o \in {"get", "put"} /\ replyCode = CommandOkay)
             /\ UNCHANGED passiveSD
  /\ UNCHANGED <<flags, clientSD, replyCode, child, control, transfer, served,
                 unread, abandoned>>

(* MUTANT of CwdRead: the code is compared with that of another command. *)
CwdRead_CommandOkay ==
  /\ pc = "CWD"
  /\ ConvertCode
  /\ ftpCode' = replyCode'
  /\ told' = IF ftpCode' = CommandOkay THEN told + 1 ELSE told
  /\ pc' = "prompt"
  /\ UNCHANGED <<op, operations, flags, clientSD, child, requests, session, data,
                 abandoned>>

(* The reply to CWD decides what cd returns. *)
CwdRead ==
  /\ pc = "CWD"
  /\ ConvertCode
  /\ ftpCode' = replyCode'
  /\ told' = IF ftpCode' = FileActionOkay THEN told + 1 ELSE told
  /\ pc' = "prompt"
  /\ UNCHANGED <<op, operations, flags, clientSD, child, requests, session, data,
                 abandoned>>

(* ls forks its child, if it can, and sends LIST; get and put set the      *)
(* type.                                                                   *)
AfterPassive ==
  IF op = "ls"
    THEN child' = "data" /\ SendCommand("LIST")
    ELSE SendCommand("TYPE") /\ UNCHANGED child

(* The tokens of a 227 reply, as numbers: the code, the words, address and *)
(* port, and the end of the line. A word counts as 0.                      *)
PassiveReply(words) ==
  <<Passive>> \o [i \in 1 .. words |-> 0] \o <<10, 0, 0, 1, 200, 21>> \o <<0>>

ListenPort == 200 * 256 + 21

(* MUTANT of Turns: one pair of tokens less. *)
Turns_Four == 4

(* passive takes the tokens in pairs, this often; the last pair is taken   *)
(* for p1 and p2. There has to be a token after it.                        *)
Turns == 5

PortRead(tokens) ==
  /\ Len(tokens) > 2 * Turns
  /\ tokens[2 * Turns - 1] * 256 + tokens[2 * Turns] = ListenPort

(* passive: 227 makes the client connect, for ever if nobody listens at    *)
(* what it takes for the port; it crashes on too short a reply. The        *)
(* operation goes on whatever the reply was.                               *)
PasvRead ==
  /\ pc = "PASV"
  /\ ConvertCode
  /\ ftpCode' = replyCode'
  /\ \E words \in Wordings :
       LET reached == transfer = "listening" /\ PortRead(PassiveReply(words))
       IN \/ /\ ftpCode' = Passive
             /\ reached
             /\ passiveSD' = "open"
             /\ transfer' = "ready"
             /\ unread' = 0
             /\ AfterPassive
          \/ /\ ftpCode' = Passive
             /\ ~reached
             /\ pc' = "lost"
             /\ UNCHANGED <<requests, passiveSD, transfer, child, unread>>
          \/ /\ ftpCode' # Passive
             /\ UNCHANGED <<passiveSD, transfer, unread>>
             /\ AfterPassive
  /\ UNCHANGED <<op, operations, flags, clientSD, session, served, history>>

(* ls, after passive: no child. The data connection is closed again, and   *)
(* LIST is not sent.                                                       *)
ListForkFails ==
  /\ ForkMayFail
  /\ pc = "PASV" /\ op = "ls"
  /\ ConvertCode
  /\ ftpCode' = replyCode'
  /\ \/ /\ ftpCode' = Passive
        /\ transfer = "listening"
        /\ \E words \in Wordings : PortRead(PassiveReply(words))
        /\ transfer' = "ready"
        /\ unread' = 0
     \/ /\ ftpCode' # Passive
        /\ UNCHANGED <<transfer, unread>>
  /\ passiveSD' = "closed"
  /\ pc' = "prompt"
  /\ UNCHANGED <<op, operations, flags, clientSD, child, requests, session, served,
                 history>>

(* ls, the reply to LIST: wait for the child. *)
ListRead ==
  /\ pc = "LIST"
  /\ ConvertCode
  /\ pc' = "wait"
  /\ UNCHANGED <<op, operations, flags, clientSD, ftpCode, child, requests,
                 session, data, history>>

(* MUTANT of Waited: ls does not read the final reply. *)
Waited_NoReply ==
  /\ pc = "wait"
  /\ child = "exited"
  /\ child' = "none"
  /\ pc' = "prompt"
  /\ passiveSD' = IF op = "ls" THEN passiveSD ELSE "closed"
  /\ UNCHANGED <<op, operations, flags, clientSD, ftpCode, replyCode, control,
                 transfer, served, unread, history>>

(* MUTANT of Waited: get and put read the reply their child has read. *)
Waited_AlwaysReads ==
  /\ pc = "wait"
  /\ child = "exited"
  /\ child' = "none"
  /\ pc' = "listed"
  /\ passiveSD' = IF op = "ls" THEN passiveSD ELSE "closed"
  /\ UNCHANGED <<op, operations, flags, clientSD, ftpCode, replyCode, control,
                 transfer, served, unread, history>>

(* wait returns: ls reads the final reply, get and put close their data    *)
(* connection.                                                             *)
Waited ==
  /\ pc = "wait"
  /\ child = "exited"
  /\ child' = "none"
  /\ IF op = "ls"
       THEN pc' = "listed" /\ UNCHANGED passiveSD
       ELSE pc' = "prompt" /\ passiveSD' = "closed"
  /\ UNCHANGED <<op, operations, flags, clientSD, ftpCode, replyCode, control,
                 transfer, served, unread, history>>

ListedRead ==
  /\ pc = "listed"
  /\ ConvertCode
  /\ pc' = "prompt"
  /\ UNCHANGED <<op, operations, flags, clientSD, ftpCode, child, requests,
                 session, data, history>>

(* get and put, the reply to TYPE I. *)
TypeRead ==
  /\ pc = "TYPE"
  /\ ConvertCode
  /\ ftpCode' = replyCode'
  /\ IF ftpCode' = CommandOkay
       THEN SendCommand(IF op = "get" THEN "RETR" ELSE "STOR")
       ELSE pc' = "prompt" /\ UNCHANGED requests
  /\ UNCHANGED <<op, operations, flags, clientSD, child, session, data, history>>

(* MUTANT of ForkTransfer: the child keeps the data connection open. *)
ForkTransfer_KeepsOpen ==
  /\ pc' = "wait"
  /\ child' = "reply"
  /\ UNCHANGED <<passiveSD, history>>

(* The child of get and put. It opens the local file with receiveFile,     *)
(* closes the data connection without having read or written it, and turns *)
(* to the control connection.                                              *)
ForkTransfer ==
  /\ pc' = "wait"
  /\ child' = "reply"
  /\ passiveSD' = "shut"
  /\ UNCHANGED history

(* get: receiveFile cannot create the local file. get gives up without a   *)
(* look at the control connection.                                         *)
ReceiveFileFails ==
  /\ "get" \in LocalFails
  /\ pc' = "prompt"
  /\ passiveSD' = "closed"
  /\ abandoned' = TRUE
  /\ UNCHANGED <<child, told>>

NoTransfer ==
  /\ pc' = "prompt"
  /\ passiveSD' = "closed"
  /\ UNCHANGED <<child, history>>

(* get, the reply to RETR. *)
RetrRead ==
  /\ pc = "RETR"
  /\ ConvertCode
  /\ ftpCode' = replyCode'
  /\ \/ ftpCode' = FileStatusOkay /\ (ForkTransfer \/ ReceiveFileFails)
     \/ ftpCode' # FileStatusOkay /\ NoTransfer
  /\ UNCHANGED <<op, operations, flags, clientSD, requests, session, transfer,
                 served, unread>>

(* put, the reply to STOR. *)
StorRead ==
  /\ pc = "STOR"
  /\ ConvertCode
  /\ ftpCode' = replyCode'
  /\ \/ ftpCode' = FileStatusOkay /\ ForkTransfer
     \/ ftpCode' # FileStatusOkay /\ NoTransfer
  /\ UNCHANGED <<op, operations, flags, clientSD, requests, session, transfer,
                 served, unread>>

(* get and put, after 150: no child. The program exits, and all its        *)
(* connections with it.                                                    *)
TransferForkFails ==
  /\ ForkMayFail
  /\ pc \in {"RETR", "STOR"}
  /\ Readable
  /\ Converted = FileStatusOkay
  /\ replyCode' = Converted
  /\ ftpCode' = replyCode'
  /\ CloseClientSD
  /\ passiveSD' = "closed"
  /\ transfer' = "none"
  /\ pc' = "exited"
  /\ UNCHANGED <<op, operations, flags, child, served, unread, history>>

(* quit closes the connection first, if there is one to close. *)
Quit ==
  /\ pc = "prompt"
  /\ op' = "quit"
  /\ IF activityMode /\ openConnection /\ clientSD = "open"
       THEN SendCommand("QUIT") /\ UNCHANGED activityMode
       ELSE pc' = "ended" /\ activityMode' = FALSE /\ UNCHANGED requests
  /\ UNCHANGED <<operations, openConnection, clientSD, ftpCode, replyCode, child,
                 replies, session, data, history>>

(* The reply to QUIT, whatever it is; then the socket is closed. Nothing   *)
(* resets openConnection.                                                  *)
QuitRead ==
  /\ pc = "QUIT"
  /\ Readable
  /\ replyCode' = Converted
  /\ CloseClientSD
  /\ activityMode' = (op # "quit")
  /\ pc' = IF op = "quit" THEN "ended" ELSE "prompt"
  /\ UNCHANGED <<op, operations, openConnection, ftpCode, child, data, history>>

(* main returns, and the destructor closes clientSD, but not passiveSD. *)
Destroy ==
  /\ pc = "ended"
  /\ pc' = "exited"
  /\ IF clientSD = "open"
       THEN CloseClientSD
       ELSE UNCHANGED <<clientSD, control>>
  /\ UNCHANGED <<op, operations, flags, ftpCode, replyCode, child, data, history>>

-----------------------------------------------------------------------------
(* The forked child.                                                       *)

(* ls: read the listing until its end, or until nothing comes for a        *)
(* second. A descriptor that is no open connection is never at its end.    *)
ChildReads ==
  /\ child = "data"
  /\ passiveSD = "open"
  /\ unread > 0
  /\ unread' = 0
  /\ UNCHANGED <<pc, op, operations, flags, clientSD, passiveSD, ftpCode, replyCode,
                 child, control, transfer, served, history>>

Silent == unread = 0 /\ (Slow \/ (pc = "wait" /\ transfer # "out"))
AtEnd == unread = 0 /\ (session = "closed" \/ transfer = "none")

ChildEnds ==
  /\ child = "data"
  /\ \/ passiveSD = "open" /\ (Silent \/ AtEnd) /\ child' = "exited"
     \/ passiveSD # "open" /\ child' \in {"exited", "spins"}
  /\ UNCHANGED <<pc, op, operations, flags, clientSD, ftpCode, replyCode, control,
                 data, history>>

(* get and put: convertCode in the child. What it reads the parent never   *)
(* sees.                                                                   *)
ChildConverts ==
  /\ child = "reply"
  /\ Readable
  /\ ReadSome
  /\ child' = "exited"
  /\ UNCHANGED <<pc, op, operations, flags, clientSD, ftpCode, replyCode, requests,
                 session, data, history>>

-----------------------------------------------------------------------------
(* The program has ended, crashed or spins for ever. *)
Finished == pc \in {"exited", "lost"} /\ UNCHANGED vars

Parent ==
  \/ Connect \/ ConnectFails \/ GreetingRead \/ UserRead \/ PassRead \/ Drain
  \/ DrainEnd \/ SystRead \/ LoginFails \/ CwdRead \/ PasvRead \/ ListForkFails
  \/ ListRead \/ Waited \/ ListedRead \/ TypeRead \/ RetrRead \/ StorRead
  \/ TransferForkFails \/ QuitRead \/ Destroy
User ==
  \/ Open \/ NoCommand \/ EmptyLine \/ NoFileName \/ NotConnected \/ Operate
  \/ PutNoFile \/ OperateClosed \/ Quit
Child == ChildReads \/ ChildEnds \/ ChildConverts

(* The server, which knows of the client what its connections show. *)
Server ==
  /\ \/ clientSD = "open" /\ (Greet \/ HangsUp)
     \/ Refuses \/ Authenticates \/ Executes \/ Listens \/ Transfers
     \/ SendsData(passiveSD) \/ EndsTransfer(passiveSD) \/ SaysGoodbye
  /\ UNCHANGED <<pc, op, operations, flags, clientSD, passiveSD, ftpCode,
                 replyCode, child, history>>

Next == User \/ Parent \/ Child \/ Server \/ Finished

Spec == Init /\ [][Next]_vars

(* Parent, child and server keep going; nothing is asked of the user.      *)
FairSpec == Spec /\ WF_vars(Parent) /\ WF_vars(Child) /\ WF_vars(Server)

-----------------------------------------------------------------------------
(* Whenever the prompt comes back on a connection, the client has read     *)
(* every reply it was owed, so the next operation is judged by its own     *)
(* reply and no other: whatever the server refuses, however its replies    *)
(* arrive together, when a child cannot be had, and whenever the server    *)
(* hangs up. There are two exceptions, and they last: a get that cannot    *)
(* create its file (FTPClient.cpp:153-158, 504-520), and a login whose 230 *)
(* comes in pieces more than a second apart (FTPClient.cpp:76-84,          *)
(* 367-398).                                                               *)
InStep ==
  pc = "prompt" /\ clientSD = "open" /\ ~abandoned =>
    requests = <<>> /\ replies = <<>>

(* At the prompt, a connection that openServer left open is logged in, or  *)
(* has been closed by the server since (FTPClient.cpp:82-98).              *)
LoginTruthful ==
  pc = "prompt" /\ openConnection /\ clientSD = "open" =>
    session \in {"loggedIn", "closed"}

(* cd returns true as often as the server changed the directory            *)
(* (FTPClient.cpp:204-212).                                                *)
CdTruthful == pc = "prompt" => told = done

(* After every operation the prompt is shown again, until the program ends *)
(* (main.cpp:60-67).                                                       *)
PromptReturns == pc # "prompt" ~> pc \in {"prompt", "exited"}

(* A 227 reply of three words is parsed right, and the client crashes, or  *)
(* connects for ever to a port nobody listens on, only if the control      *)
(* connection has been closed by one side or the other, or a reply has     *)
(* been left unread before, whatever is refused and however replies        *)
(* arrive; or on an empty line, at the prompt or where get and put ask for *)
(* the remote file (FTPClient.cpp:112-117, 256-261, 401-408, 451-480).     *)
LostOnlyAfterClosing ==
  pc = "lost" =>
    \/ session = "closed" \/ clientSD = "closed" \/ abandoned
    \/ op \in {"empty", "noname"}

-----------------------------------------------------------------------------
(* Who is not waiting for anybody.                                         *)

(* The parent, in an operation: what it reads is there, or its child has   *)
(* exited.                                                                 *)
ParentGoesOn ==
  /\ pc \in Commands \union {"greeting", "listed"} => Readable
  /\ pc = "wait" => child = "exited"

(* The child of ls has data, their end or a second of silence, and one on  *)
(* a descriptor that is no open connection does not wait.                  *)
ChildGoesOn ==
  \/ child = "data" /\ (passiveSD = "open" => unread > 0 \/ Silent \/ AtEnd)
  \/ child = "reply" /\ Readable

(* The server has a client to greet, a command to take, room for data, or  *)
(* a transfer to end.                                                      *)
ServerGoesOn ==
  \/ clientSD = "open" /\ session = "none"
  \/ /\ session \in {"greeted", "loggedIn"} /\ requests # <<>>
     /\ transfer \notin {"out", "in"}
  \/ transfer = "out" /\ (left = 0 \/ unread < Buffer \/ passiveSD = "closed")
  \/ transfer = "in" /\ passiveSD \in {"shut", "closed"}

(* In an operation parent, child and server never wait for each other: the *)
(* parent for a reply or its child, the child for data or a reply, and the *)
(* server for a command, for room or for the end of the data. The one      *)
(* exception is a child that spins on a descriptor it never opened, after  *)
(* the server has hung up (FTPClient.cpp:150-178, 230-238, 304-321).       *)
NeverStuck ==
  \/ pc \in {"prompt", "exited", "lost"}
  \/ ParentGoesOn \/ ChildGoesOn \/ ServerGoesOn
  \/ child = "spins" /\ session = "closed"

=============================================================================
