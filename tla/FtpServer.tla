------------------------------ MODULE FtpServer ------------------------------
(***************************************************************************)
(* An FTP server of RFC 959 as the client of Prog5 sees it, and the two    *)
(* connections to it. A command is its name, a reply its code. The server  *)
(* takes one command at a time, and one transfer.                          *)
(***************************************************************************)
EXTENDS Naturals, Sequences

CONSTANTS
  MayRefuse,  \* the commands the server may refuse
  Pieces,     \* into how many pieces a greeting or login reply may fall
  MayHangUp,  \* BOOLEAN: the server may close the control connection
  Sizes,      \* sizes of listings and files
  Buffer      \* how much of that a connection holds unread

ASSUME FtpServerAssumption ==
  /\ Pieces \subseteq Nat \ {0} /\ Pieces # {}
  /\ MayHangUp \in BOOLEAN
  /\ Sizes \subseteq Nat /\ Sizes # {}
  /\ Buffer \in Nat \ {0}

Greeted == 220
UserOkay == 331
LoggedIn == 230
NotLoggedIn == 530
SystemType == 215
FileActionOkay == 250
Passive == 227
CommandOkay == 200
FileStatusOkay == 150
Complete == 226
Closing == 221
NoDataConnection == 425
Aborted == 426
NotTaken == 550
None == 0

Codes == {None, Greeted, UserOkay, LoggedIn, NotLoggedIn, SystemType,
          FileActionOkay, Passive, CommandOkay, FileStatusOkay, Complete,
          Closing, NoDataConnection, Aborted, NotTaken}

Commands == {"USER", "PASS", "SYST", "CWD", "PASV", "LIST", "TYPE", "RETR",
             "STOR", "QUIT"}

VARIABLES
  requests,  \* commands on their way to the server
  replies,   \* replies on their way to the client
  session,   \* "none", "greeted", "loggedIn" or "closed"
  transfer,  \* "none", "listening", "ready", "out" or "in"
  left,      \* what the server has still to send
  unread,    \* what it has sent and nobody has read
  done       \* how often it has changed its directory

control == <<requests, replies, session>>
serverVars == <<control, transfer, left, unread, done>>

ServerTypeOK ==
  /\ requests \in Seq(Commands)
  /\ replies \in Seq(Codes)
  /\ session \in {"none", "greeted", "loggedIn", "closed"}
  /\ transfer \in {"none", "listening", "ready", "out", "in"}
  /\ left \in Nat
  /\ unread \in 0 .. Buffer
  /\ done \in Nat

ServerInit ==
  /\ requests = <<>>
  /\ replies = <<>>
  /\ session = "none"
  /\ transfer = "none"
  /\ left = 0
  /\ unread = 0
  /\ done = 0

Copies(code, k) == [i \in 1 .. k |-> code]

Reply(code) == replies' = Append(replies, code)

(* The greeting of a client that has connected. *)
Greet ==
  /\ session = "none"
  /\ session' = "greeted"
  /\ \E k \in Pieces : replies' = Copies(Greeted, k)
  /\ UNCHANGED <<requests, transfer, left, unread, done>>

Takes(c) ==
  /\ session \in {"greeted", "loggedIn"}
  /\ transfer \notin {"out", "in"}
  /\ requests # <<>>
  /\ c = Head(requests)
  /\ requests' = Tail(requests)

(* A command is refused, and nothing else happens. *)
Refuses ==
  /\ \E c \in MayRefuse :
       /\ Takes(c)
       /\ Reply(IF c \in {"USER", "PASS"} THEN NotLoggedIn ELSE NotTaken)
  /\ UNCHANGED <<session, transfer, left, unread, done>>

(* USER and PASS. A user without a password is logged in at once. *)
Authenticates ==
  /\ \/ Takes("USER") /\ Reply(UserOkay) /\ UNCHANGED session
     \/ /\ Takes("USER") \/ Takes("PASS")
        /\ \E k \in Pieces : replies' = replies \o Copies(LoggedIn, k)
        /\ session' = "loggedIn"
  /\ UNCHANGED <<transfer, left, unread, done>>

(* SYST, TYPE and CWD. *)
Executes ==
  /\ \/ Takes("SYST") /\ Reply(SystemType) /\ UNCHANGED done
     \/ Takes("TYPE") /\ Reply(CommandOkay) /\ UNCHANGED done
     \/ Takes("CWD") /\ Reply(FileActionOkay) /\ done' = done + 1
  /\ UNCHANGED <<session, transfer, left, unread>>

(* PASV: a new port is listened on. *)
Listens ==
  /\ Takes("PASV")
  /\ Reply(Passive)
  /\ transfer' = "listening"
  /\ left' = 0
  /\ UNCHANGED <<session, unread, done>>

(* LIST, RETR and STOR, over the data connection if there is one. *)
Transfers ==
  /\ \/ /\ Takes("LIST") \/ Takes("RETR")
        /\ transfer = "ready"
        /\ transfer' = "out"
        /\ left' \in Sizes
        /\ Reply(FileStatusOkay)
     \/ /\ Takes("STOR")
        /\ transfer = "ready"
        /\ transfer' = "in"
        /\ UNCHANGED left
        /\ Reply(FileStatusOkay)
     \/ /\ Takes("LIST") \/ Takes("RETR") \/ Takes("STOR")
        /\ transfer # "ready"
        /\ UNCHANGED <<transfer, left>>
        /\ Reply(NoDataConnection)
  /\ UNCHANGED <<session, unread, done>>

(* Data goes out, as long as the client has not closed its end. *)
SendsData(clientEnd) ==
  /\ transfer = "out"
  /\ left > 0
  /\ unread < Buffer
  /\ clientEnd # "closed"
  /\ left' = left - 1
  /\ unread' = unread + 1
  /\ UNCHANGED <<control, transfer, done>>

(* A transfer ends: everything is sent, or the client has closed or        *)
(* finished its end.                                                       *)
EndsTransfer(clientEnd) ==
  /\ \/ transfer = "out" /\ left = 0 /\ Reply(Complete)
     \/ transfer = "out" /\ left > 0 /\ clientEnd = "closed" /\ Reply(Aborted)
     \/ transfer = "in" /\ clientEnd \in {"shut", "closed"} /\ Reply(Complete)
  /\ transfer' = "none"
  /\ left' = 0
  /\ UNCHANGED <<requests, session, unread, done>>

(* QUIT, answered with 221. *)
SaysGoodbye ==
  /\ Takes("QUIT")
  /\ Reply(Closing)
  /\ session' = "closed"
  /\ transfer' = "none"
  /\ UNCHANGED <<left, unread, done>>

(* The server gives up on the client, for example after a timeout. *)
HangsUp ==
  /\ MayHangUp
  /\ session \in {"greeted", "loggedIn"}
  /\ session' = "closed"
  /\ requests' = <<>>
  /\ transfer' = "none"
  /\ left' = 0
  /\ UNCHANGED <<replies, unread, done>>

=============================================================================
