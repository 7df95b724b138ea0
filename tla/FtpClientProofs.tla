--------------------------- MODULE FtpClientProofs ---------------------------
(***************************************************************************)
(* The FTP client, for any user, any server that answers as FtpServer may, *)
(* and any sizes: types, the login, that every operation gets its own      *)
(* replies, and what can bring the client down. If the client has all of   *)
(* the login before it goes on (Drained) also: what cd returns, and that   *)
(* nobody waits for ever.                                                  *)
(***************************************************************************)
EXTENDS FtpClient, SequenceTheorems, TLAPS

-----------------------------------------------------------------------------
(* For any server.                                                         *)

LoggingIn == {"greeting", "USER", "PASS", "drain", "fail"}
Working == {"SYST", "CWD", "PASV", "LIST", "TYPE", "RETR", "STOR", "QUIT",
            "wait", "listed"}
LoggedInOrGone == session \in {"loggedIn", "closed"}

(* What does not count as open has not been used.                          *)
Unopened ==
  /\ pc = "connect" => ~openConnection
  /\ ~openConnection =>
       /\ pc \in {"connect", "prompt", "ended", "exited", "lost"}
       /\ clientSD # "open"
       /\ session = "none"
       /\ transfer = "none"
       /\ requests = <<>>
       /\ replies = <<>>

(* During the login there is a connection, and nothing on it but the       *)
(* login.                                                                  *)
Entering ==
  pc \in LoggingIn =>
    /\ openConnection
    /\ clientSD = "open"
    /\ transfer = "none"
    /\ requests \in Seq({"USER", "PASS"})
    /\ session = "none" => pc = "greeting" /\ replies = <<>>
    /\ pc = "greeting" => requests = <<>>

(* A code 230 comes from a server that has logged the client in.           *)
Welcome ==
  /\ session \in {"none", "greeted"} => replies \in Seq(Codes \ {LoggedIn})
  /\ pc = "drain" /\ ftpCode = LoggedIn => LoggedInOrGone

(* Operations run on a connection that is logged in.                       *)
Admitted ==
  /\ pc \in Working => openConnection /\ clientSD = "open" /\ LoggedInOrGone
  /\ pc = "prompt" /\ clientSD = "open" => LoggedInOrGone

(* Who is where in which operation.                                        *)
Family ==
  /\ pc \in {"LIST", "listed"} => op = "ls"
  /\ pc \in {"TYPE", "RETR", "STOR"} => op \in {"get", "put"}
  /\ pc \in {"PASV", "wait"} => op \in DataOperations
  /\ child \in {"data", "spins"} => op = "ls" /\ pc \in {"LIST", "wait", "lost"}
  /\ child = "reply" => op \in {"get", "put"} /\ pc = "wait"
  /\ child = "exited" => pc \in {"LIST", "wait", "lost"}

(* cd returns true at most once each time it is called.                    *)
Telling ==
  /\ told <= operations
  /\ pc = "CWD" => told < operations

IInv == TypeOK /\ Unopened /\ Entering /\ Welcome /\ Admitted /\ Family /\ Telling

-----------------------------------------------------------------------------
(* As long as the client has left no reply unread.                         *)

Busy == transfer \in {"out", "in"}

Quiet == requests = <<>> /\ replies = <<>> /\ ~Busy

(* A command with one reply.                                               *)
OneAsked ==
  /\ ~Busy
  /\ \/ requests = <<pc>> /\ replies = <<>>
     \/ requests = <<>> /\ Len(replies) <= 1

(* A command with a reply of 150 and a final one, or one that refuses it.  *)
TwoAsked ==
  \/ requests = <<pc>> /\ replies = <<>> /\ ~Busy
  \/ requests = <<>> /\ replies = <<FileStatusOkay>>
  \/ requests = <<>> /\ Len(replies) <= 1 /\ ~Busy
  \/ /\ requests = <<>> /\ ~Busy
     /\ Len(replies) = 2 /\ Head(replies) = FileStatusOkay

(* The final reply, come or not.                                           *)
OneLeft ==
  /\ requests = <<>>
  /\ replies = <<>> \/ (~Busy /\ Len(replies) = 1)

(* What may be on the control connection during the login. A greeting in   *)
(* pieces may leave some for the reads after it; then the login fails.     *)
Entered ==
  /\ pc = "greeting" => replies \in Seq({Greeted})
  /\ pc = "USER" =>
       \/ requests = <<"USER">> /\ replies \in Seq({Greeted})
       \/ /\ requests = <<>>
          /\ replies # <<>> /\ Head(replies) = UserOkay => Len(replies) = 1
  /\ pc = "PASS" => requests = <<>> \/ (requests = <<"PASS">> /\ replies = <<>>)
  /\ pc = "drain" => requests = <<>>

(* A login in one piece leaves nothing for its end.                        *)
Uncut ==
  Pieces \subseteq {1} =>
    /\ pc = "greeting" => Len(replies) <= 1
    /\ pc \in {"USER", "PASS"} => OneAsked
    /\ pc = "drain" => replies = <<>>

(* What may be on the control connection at each place of the client.      *)
Owed ==
  /\ Entered /\ Uncut
  /\ pc \in {"prompt", "connect"} => Quiet
  /\ pc \in {"SYST", "CWD", "PASV", "TYPE", "QUIT"} => OneAsked
  /\ pc \in {"LIST", "RETR", "STOR"} => TwoAsked
  /\ pc \in {"wait", "listed"} => OneLeft
  /\ pc = "wait" /\ child = "exited" /\ op # "ls" => Quiet

(* A server that is gone takes nothing and sends nothing.                  *)
Gone ==
  session = "closed" /\ pc \notin {"ended", "exited", "lost"} =>
    requests = <<>> /\ ~Busy

(* A 227 comes from a server that listens.                                 *)
Listening ==
  pc = "PASV" /\ replies # <<>> /\ Head(replies) = Passive =>
    transfer = "listening" \/ session = "closed"

Orderly == Owed /\ Gone /\ Listening

-----------------------------------------------------------------------------
(* The codes, and reading and writing the control connection.              *)

LEMMA CodesKnown ==
  {None, Greeted, UserOkay, LoggedIn, NotLoggedIn, SystemType, FileActionOkay,
   Passive, CommandOkay, FileStatusOkay, Complete, Closing, NoDataConnection,
   Aborted, NotTaken} \subseteq Codes
  BY DEF Codes

(* Different codes are different numbers. *)
LEMMA CodesDiffer ==
  /\ LoggedIn \notin {None, Greeted, UserOkay, NotLoggedIn, SystemType,
                      FileActionOkay, Passive, CommandOkay, FileStatusOkay, Complete,
                      Closing, NoDataConnection, Aborted, NotTaken}
  /\ UserOkay \notin {Greeted, NotLoggedIn, NotTaken}
  /\ Passive \notin {NotLoggedIn, NotTaken}
  /\ FileActionOkay \notin {NotLoggedIn, NotTaken}
  /\ FileStatusOkay \notin {NotTaken, NoDataConnection, CommandOkay}
  BY DEF None, Greeted, UserOkay, LoggedIn, NotLoggedIn, SystemType, FileActionOkay,
         Passive, CommandOkay, FileStatusOkay, Complete, Closing, NoDataConnection,
         Aborted, NotTaken

LEMMA ConstantsType ==
  /\ MaxOperations \in Nat
  /\ Operations \subseteq AllOperations \union OtherLines
  /\ Uninitialised \subseteq Codes
  /\ Sizes \subseteq Nat
  /\ Buffer \in Nat /\ Buffer > 0
  BY FtpAssumption, FtpServerAssumption

(* A command goes out on a connection the server has not closed.           *)
LEMMA Sending ==
  ASSUME NEW c, SendCommand(c)
  PROVE  \/ session # "closed" /\ pc' = c /\ requests' = Append(requests, c)
         \/ session = "closed" /\ pc' \in {c, "lost"} /\ requests' = requests
  BY DEF SendCommand

(* What is under way stays of one kind.                                    *)
LEMMA SendingType ==
  ASSUME NEW C, requests \in Seq(C), NEW c \in C, SendCommand(c)
  PROVE  requests' \in Seq(C)
<1>1. Append(requests, c) \in Seq(C)
  OBVIOUS
<1> QED BY <1>1, Sending

(* A read takes replies from the front, at least one if there is any.      *)
LEMMA Shortening ==
  ASSUME NEW S, replies \in Seq(S), ReadSome
  PROVE  /\ replies' \in Seq(S)
         /\ replies = <<>> => replies' = <<>>
         /\ replies # <<>> => Len(replies') < Len(replies)
<1>1. CASE replies = <<>>
  BY <1>1 DEF ReadSome
<1>2. CASE replies # <<>>
  <2>1. PICK n \in 1 .. Len(replies) : replies' = SubSeq(replies, n + 1, Len(replies))
    BY <1>2 DEF ReadSome
  <2>2. replies' \in Seq(S) /\ Len(replies') = Len(replies) - n
    BY <2>1
  <2> QED BY <1>2, <2>1, <2>2
<1> QED BY <1>1, <1>2

(* What a read that returns leaves, and the code it gives.                 *)
HasRead ==
  /\ replies' \in Seq(Codes) /\ replyCode' \in Codes
  /\ \/ /\ replies # <<>> /\ Len(replies') < Len(replies)
        /\ replyCode' = Head(replies)
     \/ /\ replies = <<>> /\ replies' = <<>> /\ session = "closed"
        /\ replyCode' = replyCode
  /\ replies \in Seq(Codes \ {LoggedIn}) =>
       /\ replies' \in Seq(Codes \ {LoggedIn})
       /\ replies # <<>> => replyCode' # LoggedIn

LEMMA Converting == IInv /\ ConvertCode => HasRead
<1> SUFFICES ASSUME IInv, ConvertCode PROVE HasRead
  OBVIOUS
<1>1. ReadSome /\ Readable /\ replyCode' = Converted
  BY DEF ConvertCode
<1>2. replies \in Seq(Codes) /\ replyCode \in Codes
  BY DEF IInv, TypeOK, ServerTypeOK
<1>3. CASE replies = <<>>
  BY <1>1, <1>2, <1>3, Shortening DEF Converted, Readable, HasRead
<1>4. CASE replies # <<>>
  <2>1. \A S : replies \in Seq(S) => Head(replies) \in S
    BY <1>4
  <2> QED BY <1>1, <1>2, <1>4, <2>1, Shortening DEF Converted, HasRead
<1> QED BY <1>3, <1>4

-----------------------------------------------------------------------------
(* Each step keeps the invariant: the login first.                         *)

LEMMA ConnectKeeps ==
  ASSUME IInv, Connect \/ ConnectFails
  PROVE  IInv'
<1>1. TypeOK'
  BY ZenonT(60), ConstantsType, EmptySeq
  DEF IInv, TypeOK, ServerTypeOK, Telling, Commands, Connect, ConnectFails,
      GetClientSocket, Back, control, data, served, history, flags
<1>2. Unopened' /\ Entering' /\ Admitted'
  BY EmptySeq
  DEF IInv, Unopened, Entering, LoggingIn, Admitted, Working, LoggedInOrGone,
      Welcome, Connect, ConnectFails, GetClientSocket, Back, control, data,
      served, history, flags
<1>3. Welcome'
  BY EmptySeq
  DEF IInv, TypeOK, ServerTypeOK, Welcome, Unopened, Entering, LoggingIn,
      Admitted, Working, LoggedInOrGone, Connect, ConnectFails,
      GetClientSocket, Back, control, data, served, history, flags
<1>4. Family' /\ Telling'
  BY ConstantsType
  DEF IInv, TypeOK, Family, Telling, DataOperations, Connect, ConnectFails,
      GetClientSocket, Back, control, data, served, history, flags
<1> QED BY <1>1, <1>2, <1>3, <1>4 DEF IInv

LEMMA GreetingKeeps ==
  ASSUME IInv, GreetingRead
  PROVE  IInv'
<1>1. HasRead
  BY Converting DEF GreetingRead
<1>2. requests' \in Seq({"USER", "PASS"}) /\ requests' \in Seq(Commands)
  <2>1. requests \in Seq({"USER", "PASS"}) /\ requests \in Seq(Commands)
    BY DEF IInv, TypeOK, ServerTypeOK, Entering, LoggingIn, GreetingRead
  <2> QED BY <2>1, SendingType DEF GreetingRead, Commands
<1>3. TypeOK'
  BY <1>1, <1>2, Sending, ConstantsType
  DEF IInv, TypeOK, ServerTypeOK, Telling, Commands, GreetingRead, control,
      data, served, history, flags, HasRead
<1>4. Unopened' /\ Entering' /\ Admitted'
  BY <1>1, <1>2, Sending
  DEF IInv, Unopened, Entering, LoggingIn, Admitted, Working, LoggedInOrGone,
      Welcome, GreetingRead, control, data, served, history, flags, HasRead
<1>5. Welcome'
  BY <1>1, <1>2, Sending
  DEF IInv, TypeOK, ServerTypeOK, Welcome, Unopened, Entering, LoggingIn,
      Admitted, Working, LoggedInOrGone, GreetingRead, control, data, served,
      history, flags, HasRead
<1>6. Family' /\ Telling'
  BY <1>1, <1>2, Sending, ConstantsType
  DEF IInv, TypeOK, Family, Telling, DataOperations, GreetingRead, control,
      data, served, history, flags, HasRead
<1> QED BY <1>3, <1>4, <1>5, <1>6 DEF IInv

LEMMA UserKeeps ==
  ASSUME IInv, UserRead
  PROVE  IInv'
<1>1. HasRead
  BY Converting DEF UserRead
<1>2. requests' \in Seq({"USER", "PASS"}) /\ requests' \in Seq(Commands)
  <2>1. requests \in Seq({"USER", "PASS"}) /\ requests \in Seq(Commands)
    BY DEF IInv, TypeOK, ServerTypeOK, Entering, LoggingIn, UserRead
  <2> QED BY <2>1, SendingType DEF UserRead, Commands
<1>3. TypeOK'
  BY <1>1, <1>2, Sending, ConstantsType
  DEF IInv, TypeOK, ServerTypeOK, Telling, Commands, UserRead, control, data,
      served, history, flags, HasRead
<1>4. Unopened' /\ Entering' /\ Admitted'
  BY <1>1, <1>2, Sending
  DEF IInv, Unopened, Entering, LoggingIn, Admitted, Working, LoggedInOrGone,
      Welcome, UserRead, control, data, served, history, flags, HasRead
<1>5. Welcome'
  BY <1>1, <1>2, Sending
  DEF IInv, TypeOK, ServerTypeOK, Welcome, Unopened, Entering, LoggingIn,
      Admitted, Working, LoggedInOrGone, UserRead, control, data, served,
      history, flags, HasRead
<1>6. Family' /\ Telling'
  BY <1>1, <1>2, Sending, ConstantsType
  DEF IInv, TypeOK, Family, Telling, DataOperations, UserRead, control, data,
      served, history, flags, HasRead
<1> QED BY <1>3, <1>4, <1>5, <1>6 DEF IInv

LEMMA PassKeeps ==
  ASSUME IInv, PassRead
  PROVE  IInv'
<1>1. HasRead
  BY Converting DEF PassRead
<1>2. TypeOK'
  BY <1>1, ConstantsType
  DEF IInv, TypeOK, ServerTypeOK, Telling, Commands, PassRead, control, data,
      served, history, flags, HasRead
<1>3. Unopened' /\ Entering' /\ Admitted'
  BY <1>1
  DEF IInv, Unopened, Entering, LoggingIn, Admitted, Working, LoggedInOrGone,
      Welcome, PassRead, control, data, served, history, flags, HasRead
<1>4. Welcome'
  BY <1>1
  DEF IInv, TypeOK, ServerTypeOK, Welcome, Unopened, Entering, LoggingIn,
      Admitted, Working, LoggedInOrGone, PassRead, control, data, served,
      history, flags, HasRead
<1>5. Family' /\ Telling'
  BY <1>1, ConstantsType
  DEF IInv, TypeOK, Family, Telling, DataOperations, PassRead, control, data,
      served, history, flags, HasRead
<1> QED BY <1>2, <1>3, <1>4, <1>5 DEF IInv

LEMMA DrainKeeps ==
  ASSUME IInv, Drain \/ DrainEnd
  PROVE  IInv'
<1>1. replies' \in Seq(Codes) /\ pc' \in {"drain", "SYST", "fail", "lost"}
  BY EmptySeq, Sending DEF Drain, DrainEnd, IInv, TypeOK, ServerTypeOK
<1>2. requests' \in Seq(Commands)
  BY SendingType
  DEF IInv, TypeOK, ServerTypeOK, Commands, Drain, DrainEnd, control
<1>3. TypeOK'
  <2>1. told' = told /\ abandoned' \in BOOLEAN
    BY DEF IInv, TypeOK, Drain, DrainEnd, history
  <2> QED
    BY SMTT(30), <1>1, <1>2, <2>1, ConstantsType
    DEF IInv, TypeOK, ServerTypeOK, Commands, Drain, DrainEnd, control, data, served,
        flags
<1>4. Unopened' /\ Entering' /\ Admitted'
  BY <1>1, Sending, EmptySeq
  DEF IInv, Unopened, Entering, LoggingIn, Admitted, Working, LoggedInOrGone,
      Welcome, Drain, DrainEnd, control, data, served, history, flags
<1>5. Welcome'
  BY <1>1, Sending, EmptySeq
  DEF IInv, TypeOK, ServerTypeOK, Welcome, Unopened, Entering, LoggingIn,
      Admitted, Working, LoggedInOrGone, Drain, DrainEnd, control, data,
      served, history, flags
<1>6. Family' /\ Telling'
  BY <1>1, Sending, ConstantsType
  DEF IInv, TypeOK, Family, Telling, DataOperations, Drain, DrainEnd, control,
      data, served, history, flags
<1> QED BY <1>3, <1>4, <1>5, <1>6 DEF IInv

LEMMA SystKeeps ==
  ASSUME IInv, SystRead
  PROVE  IInv'
<1>1. HasRead
  BY Converting DEF SystRead
<1>2. TypeOK'
  BY <1>1, ConstantsType
  DEF IInv, TypeOK, ServerTypeOK, Telling, Commands, SystRead, Back, control,
      data, served, history, flags, HasRead
<1>3. Unopened' /\ Entering' /\ Admitted'
  BY <1>1
  DEF IInv, Unopened, Entering, LoggingIn, Admitted, Working, LoggedInOrGone,
      Welcome, SystRead, Back, control, data, served, history, flags, HasRead
<1>4. Welcome'
  BY <1>1
  DEF IInv, TypeOK, ServerTypeOK, Welcome, Unopened, Entering, LoggingIn,
      Admitted, Working, LoggedInOrGone, SystRead, Back, control, data,
      served, history, flags, HasRead
<1>5. Family' /\ Telling'
  BY <1>1, ConstantsType
  DEF IInv, TypeOK, Family, Telling, DataOperations, SystRead, Back, control,
      data, served, history, flags, HasRead
<1> QED BY <1>2, <1>3, <1>4, <1>5 DEF IInv

LEMMA LoginFailsKeeps ==
  ASSUME IInv, LoginFails
  PROVE  IInv'
<1>1. TypeOK'
  BY ZenonT(60), ConstantsType, EmptySeq
  DEF IInv, TypeOK, ServerTypeOK, Telling, Commands, LoginFails,
      CloseClientSD, Back, control, data, served, history, flags
<1>2. Unopened' /\ Entering' /\ Admitted'
  BY EmptySeq
  DEF IInv, Unopened, Entering, LoggingIn, Admitted, Working, LoggedInOrGone,
      Welcome, LoginFails, CloseClientSD, Back, control, data, served,
      history, flags
<1>3. Welcome'
  BY EmptySeq
  DEF IInv, TypeOK, ServerTypeOK, Welcome, Unopened, Entering, LoggingIn,
      Admitted, Working, LoggedInOrGone, LoginFails, CloseClientSD, Back,
      control, data, served, history, flags
<1>4. Family' /\ Telling'
  BY ConstantsType
  DEF IInv, TypeOK, Family, Telling, DataOperations, LoginFails,
      CloseClientSD, Back, control, data, served, history, flags
<1> QED BY <1>1, <1>2, <1>3, <1>4 DEF IInv

-----------------------------------------------------------------------------
(* The prompt, and the operations.                                         *)

LEMMA PromptKeeps ==
  ASSUME IInv,
         Open \/ NoCommand \/ EmptyLine \/ NoFileName \/ NotConnected \/ PutNoFile
  PROVE  IInv'
<1>1. TypeOK'
  BY ConstantsType
  DEF IInv, TypeOK, ServerTypeOK, Telling, Commands, Open, NoCommand,
      EmptyLine, NoFileName, NotConnected, PutNoFile, Ask, AllOperations, OtherLines,
      DataOperations, Back, control, data, served, history, flags
<1>2. Unopened' /\ Entering' /\ Admitted'
  BY DEF IInv, Unopened, Entering, LoggingIn, Admitted, Working, LoggedInOrGone,
         Welcome, Open, NoCommand, EmptyLine, NoFileName, NotConnected, PutNoFile,
         Ask, AllOperations, OtherLines, DataOperations, Back, control, data, served,
         history, flags
<1>3. Welcome'
  BY DEF IInv, TypeOK, ServerTypeOK, Welcome, Unopened, Entering, LoggingIn,
         Admitted, Working, LoggedInOrGone, Open, NoCommand, EmptyLine, NoFileName,
         NotConnected, PutNoFile, Ask, AllOperations, OtherLines,
         DataOperations, Back, control, data, served, history, flags
<1>4. Family' /\ Telling'
  BY ConstantsType
  DEF IInv, TypeOK, Family, Telling, DataOperations, Open, NoCommand,
      EmptyLine, NoFileName, NotConnected, PutNoFile, Ask, AllOperations, OtherLines,
      Back, control, data, served, history, flags
<1> QED BY <1>1, <1>2, <1>3, <1>4 DEF IInv

LEMMA OperateKeeps ==
  ASSUME IInv, Operate
  PROVE  IInv'
<1>1. requests' \in Seq(Commands)
  BY SendingType
  DEF IInv, TypeOK, ServerTypeOK, Commands, Operate, FirstCommand,
      DataOperations
<1>2. TypeOK'
  BY <1>1, Sending, ConstantsType
  DEF IInv, TypeOK, ServerTypeOK, Telling, Commands, Operate, Ask,
      AllOperations, OtherLines, DataOperations, FirstCommand, control, data,
      served, history, flags
<1>3. Unopened' /\ Entering' /\ Admitted'
  BY Sending
  DEF IInv, Unopened, Entering, LoggingIn, Admitted, Working, LoggedInOrGone,
      Welcome, Operate, Ask, AllOperations, OtherLines, DataOperations,
      FirstCommand, control, data, served, history, flags
<1>4. Welcome'
  BY Sending
  DEF IInv, TypeOK, ServerTypeOK, Welcome, Unopened, Entering, LoggingIn,
      Admitted, Working, LoggedInOrGone, Operate, Ask, AllOperations,
      OtherLines, DataOperations, FirstCommand, control, data, served,
      history, flags
<1>5. Family' /\ Telling'
  BY Sending, ConstantsType
  DEF IInv, TypeOK, Family, Telling, DataOperations, Operate, Ask,
      AllOperations, OtherLines, FirstCommand, control, data, served, history,
      flags
<1> QED BY <1>2, <1>3, <1>4, <1>5 DEF IInv

LEMMA OperateClosedKeeps ==
  ASSUME IInv, OperateClosed
  PROVE  IInv'
<1>1. TypeOK'
  BY ConstantsType
  DEF IInv, TypeOK, ServerTypeOK, Telling, Commands, OperateClosed, Ask,
      AllOperations, OtherLines, DataOperations, control, data, served,
      history, flags
<1>2. Unopened' /\ Entering' /\ Admitted'
  BY DEF IInv, Unopened, Entering, LoggingIn, Admitted, Working,
         LoggedInOrGone, Welcome, OperateClosed, Ask, AllOperations,
         OtherLines, DataOperations, control, data, served, history, flags
<1>3. Welcome'
  BY DEF IInv, TypeOK, ServerTypeOK, Welcome, Unopened, Entering, LoggingIn,
         Admitted, Working, LoggedInOrGone, OperateClosed, Ask, AllOperations,
         OtherLines, DataOperations, control, data, served, history, flags
<1>4. Family' /\ Telling'
  BY ConstantsType
  DEF IInv, TypeOK, Family, Telling, DataOperations, OperateClosed, Ask,
      AllOperations, OtherLines, control, data, served, history, flags
<1> QED BY <1>1, <1>2, <1>3, <1>4 DEF IInv

LEMMA QuitKeeps ==
  ASSUME IInv, Quit
  PROVE  IInv'
<1>1. activityMode' \in BOOLEAN
  BY DEF IInv, TypeOK, Quit
<1>2. requests' \in Seq(Commands)
  BY SendingType
  DEF IInv, TypeOK, ServerTypeOK, Commands, Quit, Ask
<1>3. TypeOK'
  BY <1>1, <1>2, Sending, ConstantsType
  DEF IInv, TypeOK, ServerTypeOK, Telling, Commands, Quit, control, data,
      served, history, flags
<1>4. Unopened' /\ Entering' /\ Admitted'
  BY <1>1, Sending
  DEF IInv, Unopened, Entering, LoggingIn, Admitted, Working, LoggedInOrGone,
      Welcome, Quit, control, data, served, history, flags
<1>5. Welcome'
  BY <1>1, Sending
  DEF IInv, TypeOK, ServerTypeOK, Welcome, Unopened, Entering, LoggingIn,
      Admitted, Working, LoggedInOrGone, Quit, control, data, served, history,
      flags
<1>6. Family' /\ Telling'
  BY <1>1, Sending, ConstantsType
  DEF IInv, TypeOK, Family, Telling, DataOperations, Quit, control, data,
      served, history, flags
<1> QED BY <1>3, <1>4, <1>5, <1>6 DEF IInv

LEMMA CwdKeeps ==
  ASSUME IInv, CwdRead
  PROVE  IInv'
<1>1. HasRead
  BY Converting DEF CwdRead
<1>2. TypeOK'
  BY <1>1, ConstantsType
  DEF IInv, TypeOK, ServerTypeOK, Telling, Commands, CwdRead, control, data,
      served, history, flags, HasRead
<1>3. Unopened' /\ Entering' /\ Admitted'
  BY <1>1
  DEF IInv, Unopened, Entering, LoggingIn, Admitted, Working, LoggedInOrGone,
      Welcome, CwdRead, control, data, served, history, flags, HasRead
<1>4. Welcome'
  BY <1>1
  DEF IInv, TypeOK, ServerTypeOK, Welcome, Unopened, Entering, LoggingIn,
      Admitted, Working, LoggedInOrGone, CwdRead, control, data, served,
      history, flags, HasRead
<1>5. Family' /\ Telling'
  BY <1>1, ConstantsType
  DEF IInv, TypeOK, Family, Telling, DataOperations, CwdRead, control, data,
      served, history, flags, HasRead
<1> QED BY <1>2, <1>3, <1>4, <1>5 DEF IInv

LEMMA PasvKeeps ==
  ASSUME IInv, PasvRead
  PROVE  IInv'
<1>1. HasRead
  BY Converting DEF PasvRead
<1>2. requests' \in Seq(Commands)
  BY SendingType
  DEF IInv, TypeOK, ServerTypeOK, Commands, PasvRead, AfterPassive
<1>3. TypeOK'
  BY <1>1, <1>2, Sending, ConstantsType
  DEF IInv, TypeOK, ServerTypeOK, Telling, Commands, PasvRead, AfterPassive,
      control, data, served, history, flags, HasRead
<1>4. Unopened' /\ Entering' /\ Admitted'
  BY <1>1, Sending
  DEF IInv, Unopened, Entering, LoggingIn, Admitted, Working, LoggedInOrGone,
      Welcome, PasvRead, AfterPassive, control, data, served, history, flags,
      HasRead
<1>5. Welcome'
  BY <1>1, Sending
  DEF IInv, TypeOK, ServerTypeOK, Welcome, Unopened, Entering, LoggingIn,
      Admitted, Working, LoggedInOrGone, PasvRead, AfterPassive, control,
      data, served, history, flags, HasRead
<1>6. Family' /\ Telling'
  BY <1>1, Sending, ConstantsType
  DEF IInv, TypeOK, Family, Telling, DataOperations, PasvRead, AfterPassive,
      control, data, served, history, flags, HasRead
<1> QED BY <1>3, <1>4, <1>5, <1>6 DEF IInv

LEMMA ListKeeps ==
  ASSUME IInv, ListRead \/ ListedRead
  PROVE  IInv'
<1>1. HasRead
  BY Converting DEF ListRead, ListedRead
<1>2. TypeOK'
  BY SMTT(30), <1>1, ConstantsType
  DEF IInv, TypeOK, ServerTypeOK, Telling, Commands, ListRead, ListedRead,
      control, data, served, history, flags, HasRead
<1>3. Unopened' /\ Entering' /\ Admitted'
  BY <1>1
  DEF IInv, Unopened, Entering, LoggingIn, Admitted, Working, LoggedInOrGone,
      Welcome, ListRead, ListedRead, control, data, served, history, flags,
      HasRead
<1>4. Welcome'
  BY <1>1
  DEF IInv, TypeOK, ServerTypeOK, Welcome, Unopened, Entering, LoggingIn,
      Admitted, Working, LoggedInOrGone, ListRead, ListedRead, control, data,
      served, history, flags, HasRead
<1>5. Family' /\ Telling'
  BY <1>1, ConstantsType
  DEF IInv, TypeOK, Family, Telling, DataOperations, ListRead, ListedRead,
      control, data, served, history, flags, HasRead
<1> QED BY <1>2, <1>3, <1>4, <1>5 DEF IInv

LEMMA WaitedKeeps ==
  ASSUME IInv, Waited
  PROVE  IInv'
<1>1. TypeOK'
  BY ConstantsType
  DEF IInv, TypeOK, ServerTypeOK, Telling, Commands, Waited, control, data,
      served, history, flags
<1>2. Unopened' /\ Entering' /\ Admitted'
  BY DEF IInv, Unopened, Entering, LoggingIn, Admitted, Working,
         LoggedInOrGone, Welcome, Waited, control, data, served, history,
         flags
<1>3. Welcome'
  BY DEF IInv, TypeOK, ServerTypeOK, Welcome, Unopened, Entering, LoggingIn,
         Admitted, Working, LoggedInOrGone, Waited, control, data, served,
         history, flags
<1>4. Family' /\ Telling'
  BY ConstantsType
  DEF IInv, TypeOK, Family, Telling, DataOperations, Waited, control, data,
      served, history, flags
<1> QED BY <1>1, <1>2, <1>3, <1>4 DEF IInv

LEMMA TypeKeeps ==
  ASSUME IInv, TypeRead
  PROVE  IInv'
<1>1. HasRead
  BY Converting DEF TypeRead
<1>2. requests' \in Seq(Commands)
  BY SendingType
  DEF IInv, TypeOK, ServerTypeOK, Commands, TypeRead, ConvertCode
<1>3. TypeOK'
  BY <1>1, <1>2, Sending, ConstantsType
  DEF IInv, TypeOK, ServerTypeOK, Telling, Commands, TypeRead, control, data,
      served, history, flags, HasRead
<1>4. Unopened' /\ Entering' /\ Admitted'
  BY <1>1, Sending
  DEF IInv, Unopened, Entering, LoggingIn, Admitted, Working, LoggedInOrGone,
      Welcome, TypeRead, control, data, served, history, flags, HasRead
<1>5. Welcome'
  BY <1>1, Sending
  DEF IInv, TypeOK, ServerTypeOK, Welcome, Unopened, Entering, LoggingIn,
      Admitted, Working, LoggedInOrGone, TypeRead, control, data, served,
      history, flags, HasRead
<1>6. Family' /\ Telling'
  BY <1>1, Sending, ConstantsType
  DEF IInv, TypeOK, Family, Telling, DataOperations, TypeRead, control, data,
      served, history, flags, HasRead
<1> QED BY <1>3, <1>4, <1>5, <1>6 DEF IInv

LEMMA TransferKeeps ==
  ASSUME IInv, RetrRead \/ StorRead
  PROVE  IInv'
<1>1. HasRead
  BY Converting DEF RetrRead, StorRead
<1>2. TypeOK'
  BY <1>1, ConstantsType
  DEF IInv, TypeOK, ServerTypeOK, Telling, Commands, RetrRead, StorRead,
      ForkTransfer, ReceiveFileFails, NoTransfer, control, data, served,
      history, flags, HasRead
<1>3. Unopened' /\ Entering' /\ Admitted'
  BY <1>1
  DEF IInv, Unopened, Entering, LoggingIn, Admitted, Working, LoggedInOrGone,
      Welcome, RetrRead, StorRead, ForkTransfer, ReceiveFileFails, NoTransfer,
      control, data, served, history, flags, HasRead
<1>4. Welcome'
  BY <1>1
  DEF IInv, TypeOK, ServerTypeOK, Welcome, Unopened, Entering, LoggingIn,
      Admitted, Working, LoggedInOrGone, RetrRead, StorRead, ForkTransfer,
      ReceiveFileFails, NoTransfer, control, data, served, history, flags,
      HasRead
<1>5. Family' /\ Telling'
  BY <1>1, ConstantsType
  DEF IInv, TypeOK, Family, Telling, DataOperations, RetrRead, StorRead,
      ForkTransfer, ReceiveFileFails, NoTransfer, control, data, served,
      history, flags, HasRead
<1> QED BY <1>2, <1>3, <1>4, <1>5 DEF IInv

LEMMA ForkFailsKeeps ==
  ASSUME IInv, ListForkFails \/ TransferForkFails
  PROVE  IInv'
<1>1. CASE ListForkFails
  <2>1. HasRead
    BY <1>1, Converting DEF ListForkFails
  <2>2. TypeOK'
    BY <1>1, <2>1, ConstantsType
    DEF IInv, TypeOK, ServerTypeOK, Telling, Commands, ListForkFails, control,
        served, history, flags, HasRead
  <2>3. Unopened' /\ Entering' /\ Admitted'
    BY <1>1, <2>1
    DEF IInv, Unopened, Entering, LoggingIn, Admitted, Working, LoggedInOrGone,
        Welcome, ListForkFails, control, served, history, flags, HasRead
  <2>4. Welcome'
    BY <1>1, <2>1
    DEF IInv, TypeOK, ServerTypeOK, Welcome, Unopened, Entering, LoggingIn,
        Admitted, Working, LoggedInOrGone, ListForkFails, control, served, history,
        flags, HasRead
  <2>5. Family' /\ Telling'
    BY <1>1, <2>1, ConstantsType
    DEF IInv, TypeOK, Family, Telling, DataOperations, ListForkFails, control,
        served, history, flags, HasRead
  <2> QED BY <2>2, <2>3, <2>4, <2>5 DEF IInv
<1>2. CASE TransferForkFails
  <2>1. Converted \in Codes
    <3>1. replies # <<>> => Head(replies) \in Codes
      BY DEF IInv, TypeOK, ServerTypeOK
    <3> QED BY <3>1 DEF IInv, TypeOK, Converted
  <2>2. TypeOK'
    BY ZenonT(60), <1>2, <2>1, ConstantsType, EmptySeq
    DEF IInv, TypeOK, ServerTypeOK, Telling, Commands, TransferForkFails,
        CloseClientSD, control, served, history, flags
  <2>3. Unopened' /\ Entering' /\ Admitted'
    BY <1>2, EmptySeq
    DEF IInv, Unopened, Entering, LoggingIn, Admitted, Working, LoggedInOrGone,
        Welcome, TransferForkFails, CloseClientSD, control, served, history, flags
  <2>4. Welcome'
    BY <1>2, EmptySeq
    DEF IInv, TypeOK, ServerTypeOK, Welcome, TransferForkFails, CloseClientSD
  <2>5. Family' /\ Telling'
    BY <1>2, ConstantsType
    DEF IInv, TypeOK, Family, Telling, DataOperations, TransferForkFails,
        CloseClientSD, control, served, history, flags
  <2> QED BY <2>2, <2>3, <2>4, <2>5 DEF IInv
<1> QED BY <1>1, <1>2

LEMMA QuitReadKeeps ==
  ASSUME IInv, QuitRead \/ Destroy
  PROVE  IInv'
<1>1. Converted \in Codes /\ activityMode' \in BOOLEAN
  <2>1. replies # <<>> => Head(replies) \in Codes
    BY DEF IInv, TypeOK, ServerTypeOK
  <2>2. activityMode' \in BOOLEAN
    BY DEF QuitRead, Destroy, flags, IInv, TypeOK
  <2> QED BY <2>1, <2>2 DEF IInv, TypeOK, Converted
<1>2. TypeOK'
  BY ZenonT(60), <1>1, ConstantsType, EmptySeq
  DEF IInv, TypeOK, ServerTypeOK, Telling, Commands, QuitRead, Destroy,
      CloseClientSD, control, data, served, history, flags
<1>3. Unopened' /\ Entering' /\ Admitted'
  BY <1>1, EmptySeq
  DEF IInv, Unopened, Entering, LoggingIn, Admitted, Working, LoggedInOrGone,
      Welcome, QuitRead, Destroy, CloseClientSD, control, data, served,
      history, flags
<1>4. Welcome'
  BY <1>1, EmptySeq
  DEF IInv, TypeOK, ServerTypeOK, Welcome, Unopened, Entering, LoggingIn,
      Admitted, Working, LoggedInOrGone, QuitRead, Destroy, CloseClientSD,
      control, data, served, history, flags
<1>5. Family' /\ Telling'
  BY <1>1, ConstantsType
  DEF IInv, TypeOK, Family, Telling, DataOperations, QuitRead, Destroy,
      CloseClientSD, control, data, served, history, flags
<1> QED BY <1>2, <1>3, <1>4, <1>5 DEF IInv

LEMMA ChildKeeps ==
  ASSUME IInv, ChildReads \/ ChildEnds \/ ChildConverts
  PROVE  IInv'
<1>1. ChildConverts => /\ \A S : replies \in Seq(S) => replies' \in Seq(S)
                       /\ replies = <<>> => replies' = <<>>
  BY Shortening DEF ChildConverts, IInv, TypeOK, ServerTypeOK
<1>2. TypeOK'
  BY <1>1, ConstantsType
  DEF IInv, TypeOK, ServerTypeOK, Telling, Commands, ChildReads, ChildEnds,
      ChildConverts, control, data, served, history, flags
<1>3. Unopened' /\ Entering' /\ Admitted'
  BY <1>1
  DEF IInv, Unopened, Entering, LoggingIn, Admitted, Working, LoggedInOrGone,
      Welcome, ChildReads, ChildEnds, ChildConverts, control, data, served,
      history, flags
<1>4. Welcome'
  BY <1>1
  DEF IInv, TypeOK, ServerTypeOK, Welcome, Unopened, Entering, LoggingIn,
      Admitted, Working, LoggedInOrGone, ChildReads, ChildEnds, ChildConverts,
      control, data, served, history, flags
<1>5. Family' /\ Telling'
  BY <1>1, ConstantsType
  DEF IInv, TypeOK, Family, Telling, DataOperations, ChildReads, ChildEnds,
      ChildConverts, control, data, served, history, flags
<1> QED BY <1>2, <1>3, <1>4, <1>5 DEF IInv

-----------------------------------------------------------------------------
(* The server.                                                             *)

ClientStill ==
  UNCHANGED <<pc, op, operations, flags, clientSD, passiveSD, ftpCode, replyCode,
              child, history>>

LEMMA Taking ==
  ASSUME NEW S, requests \in Seq(S), NEW c, Takes(c)
  PROVE  c \in S /\ requests' \in Seq(S) /\ requests # <<>>
  BY DEF Takes

LEMMA Replying ==
  ASSUME NEW S, replies \in Seq(S), NEW c \in S, Reply(c)
  PROVE  replies' \in Seq(S)
  BY DEF Reply

LEMMA Copying ==
  ASSUME NEW S, NEW c \in S, NEW k \in Nat
  PROVE  Copies(c, k) \in Seq(S)
  BY DEF Copies

(* What the server does to the connection, in one of its steps.            *)
LEMMA Answering ==
  ASSUME IInv, NEW c \in Codes \ {LoggedIn}, NEW d, Takes(d), Reply(c)
  PROVE  /\ requests # <<>> /\ session \in {"greeted", "loggedIn"}
         /\ d \in Commands /\ requests' \in Seq(Commands)
         /\ replies' \in Seq(Codes)
         /\ requests \in Seq({"USER", "PASS"}) =>
              requests' \in Seq({"USER", "PASS"}) /\ d \in {"USER", "PASS"}
         /\ replies \in Seq(Codes \ {LoggedIn}) => replies' \in Seq(Codes \ {LoggedIn})
<1>1. requests # <<>> /\ session \in {"greeted", "loggedIn"}
  BY DEF Takes
<1>2. requests \in Seq(Commands) /\ replies \in Seq(Codes)
  BY DEF IInv, TypeOK, ServerTypeOK
<1> QED BY <1>1, <1>2, Taking, Replying

LEMMA GreetKeeps ==
  ASSUME IInv, (clientSD = "open" /\ Greet), ClientStill
  PROVE  IInv'
<1>1. replies' \in Seq(Codes) /\ replies' \in Seq(Codes \ {LoggedIn})
  <2>1. PICK k \in Pieces : replies' = Copies(Greeted, k)
    BY DEF Greet
  <2>2. k \in Nat
    BY FtpServerAssumption
  <2>3. Greeted \in Codes /\ Greeted \in Codes \ {LoggedIn}
    BY CodesKnown, CodesDiffer
  <2> QED BY <2>1, <2>2, <2>3, Copying
<1>2. TypeOK'
  BY <1>1, ConstantsType
  DEF IInv, TypeOK, ServerTypeOK, Greet, ClientStill, control, data, served,
      history, flags
<1>3. Unopened' /\ Entering' /\ Admitted'
  BY <1>1
  DEF IInv, TypeOK, ServerTypeOK, Unopened, Entering, LoggingIn, Admitted,
      Working, LoggedInOrGone, Greet, ClientStill, control, data, served,
      history, flags
<1>4. Welcome'
  BY <1>1
  DEF IInv, TypeOK, ServerTypeOK, Welcome, LoggedInOrGone, Greet, ClientStill,
      control, data, served, history, flags
<1>5. Family' /\ Telling'
  BY DEF IInv, Family, Telling, ClientStill, control, data, served, history,
         flags
<1> QED BY <1>2, <1>3, <1>4, <1>5 DEF IInv

LEMMA RefusesKeeps ==
  ASSUME IInv, Refuses, ClientStill
  PROVE  IInv'
<1>1. PICK c \in Codes \ {LoggedIn}, d \in MayRefuse : Takes(d) /\ Reply(c)
  BY CodesKnown, CodesDiffer DEF Refuses
<1>2. /\ requests # <<>> /\ session \in {"greeted", "loggedIn"}
      /\ requests' \in Seq(Commands) /\ replies' \in Seq(Codes)
      /\ d \in MayRefuse
      /\ requests \in Seq({"USER", "PASS"}) =>
           requests' \in Seq({"USER", "PASS"}) /\ d \in {"USER", "PASS"}
      /\ replies \in Seq(Codes \ {LoggedIn}) => replies' \in Seq(Codes \ {LoggedIn})
  BY <1>1, Answering
<1>3. TypeOK'
  BY <1>2, ConstantsType
  DEF IInv, TypeOK, ServerTypeOK, Refuses, ClientStill, control, data, served,
      history, flags
<1>4. Unopened' /\ Entering' /\ Admitted'
  BY <1>2
  DEF IInv, TypeOK, ServerTypeOK, Unopened, Entering, LoggingIn, Admitted,
      Working, LoggedInOrGone, Refuses, ClientStill, control, data, served,
      history, flags
<1>5. Welcome'
  BY <1>2
  DEF IInv, TypeOK, ServerTypeOK, Welcome, LoggedInOrGone, Refuses,
      ClientStill, control, data, served, history, flags
<1>6. Family' /\ Telling'
  BY DEF IInv, Family, Telling, ClientStill, control, data, served, history,
         flags
<1> QED BY <1>3, <1>4, <1>5, <1>6 DEF IInv

LEMMA ExecutesKeeps ==
  ASSUME IInv, Executes, ClientStill
  PROVE  IInv'
<1>1. PICK c \in Codes \ {LoggedIn}, d \in {"SYST", "TYPE", "CWD"} : Takes(d) /\ Reply(c)
  BY CodesKnown, CodesDiffer DEF Executes
<1>2. /\ requests # <<>> /\ session \in {"greeted", "loggedIn"}
      /\ requests' \in Seq(Commands) /\ replies' \in Seq(Codes)
      /\ d \in {"SYST", "TYPE", "CWD"}
      /\ requests \in Seq({"USER", "PASS"}) =>
           requests' \in Seq({"USER", "PASS"}) /\ d \in {"USER", "PASS"}
      /\ replies \in Seq(Codes \ {LoggedIn}) => replies' \in Seq(Codes \ {LoggedIn})
  BY <1>1, Answering
<1>3. TypeOK'
  BY <1>2, ConstantsType
  DEF IInv, TypeOK, ServerTypeOK, Executes, ClientStill, control, data,
      served, history, flags
<1>4. Unopened' /\ Entering' /\ Admitted'
  BY <1>2
  DEF IInv, TypeOK, ServerTypeOK, Unopened, Entering, LoggingIn, Admitted,
      Working, LoggedInOrGone, Executes, ClientStill, control, data, served,
      history, flags
<1>5. Welcome'
  BY <1>2
  DEF IInv, TypeOK, ServerTypeOK, Welcome, LoggedInOrGone, Executes,
      ClientStill, control, data, served, history, flags
<1>6. Family' /\ Telling'
  BY DEF IInv, Family, Telling, ClientStill, control, data, served, history,
         flags
<1> QED BY <1>3, <1>4, <1>5, <1>6 DEF IInv

LEMMA ListensKeeps ==
  ASSUME IInv, Listens, ClientStill
  PROVE  IInv'
<1>1. PICK c \in Codes \ {LoggedIn}, d \in {"PASV"} : Takes(d) /\ Reply(c)
  BY CodesKnown, CodesDiffer DEF Listens
<1>2. /\ requests # <<>> /\ session \in {"greeted", "loggedIn"}
      /\ requests' \in Seq(Commands) /\ replies' \in Seq(Codes)
      /\ d \in {"PASV"}
      /\ requests \in Seq({"USER", "PASS"}) =>
           requests' \in Seq({"USER", "PASS"}) /\ d \in {"USER", "PASS"}
      /\ replies \in Seq(Codes \ {LoggedIn}) => replies' \in Seq(Codes \ {LoggedIn})
  BY <1>1, Answering
<1>3. TypeOK'
  BY <1>2, ConstantsType
  DEF IInv, TypeOK, ServerTypeOK, Listens, ClientStill, control, data, served,
      history, flags
<1>4. Unopened' /\ Entering' /\ Admitted'
  BY <1>2
  DEF IInv, TypeOK, ServerTypeOK, Unopened, Entering, LoggingIn, Admitted,
      Working, LoggedInOrGone, Listens, ClientStill, control, data, served,
      history, flags
<1>5. Welcome'
  BY <1>2
  DEF IInv, TypeOK, ServerTypeOK, Welcome, LoggedInOrGone, Listens,
      ClientStill, control, data, served, history, flags
<1>6. Family' /\ Telling'
  BY DEF IInv, Family, Telling, ClientStill, control, data, served, history,
         flags
<1> QED BY <1>3, <1>4, <1>5, <1>6 DEF IInv

LEMMA TransfersKeeps ==
  ASSUME IInv, Transfers, ClientStill
  PROVE  IInv'
<1>1. PICK c \in Codes \ {LoggedIn}, d \in {"LIST", "RETR", "STOR"} : Takes(d) /\ Reply(c)
  BY CodesKnown, CodesDiffer DEF Transfers
<1>2. /\ requests # <<>> /\ session \in {"greeted", "loggedIn"}
      /\ requests' \in Seq(Commands) /\ replies' \in Seq(Codes)
      /\ d \in {"LIST", "RETR", "STOR"}
      /\ requests \in Seq({"USER", "PASS"}) =>
           requests' \in Seq({"USER", "PASS"}) /\ d \in {"USER", "PASS"}
      /\ replies \in Seq(Codes \ {LoggedIn}) => replies' \in Seq(Codes \ {LoggedIn})
  BY <1>1, Answering
<1>3. left' \in Nat /\ transfer' \in {"none", "listening", "ready", "out", "in"}
  BY ConstantsType DEF Transfers, IInv, TypeOK, ServerTypeOK
<1>4. TypeOK'
  BY <1>2, <1>3, ConstantsType
  DEF IInv, TypeOK, ServerTypeOK, Transfers, ClientStill, control, data,
      served, history, flags
<1>5. Unopened' /\ Entering' /\ Admitted'
  BY <1>2
  DEF IInv, TypeOK, ServerTypeOK, Unopened, Entering, LoggingIn, Admitted,
      Working, LoggedInOrGone, Transfers, ClientStill, control, data, served,
      history, flags
<1>6. Welcome'
  BY <1>2
  DEF IInv, TypeOK, ServerTypeOK, Welcome, LoggedInOrGone, Transfers,
      ClientStill, control, data, served, history, flags
<1>7. Family' /\ Telling'
  BY DEF IInv, Family, Telling, ClientStill, control, data, served, history,
         flags
<1> QED BY <1>4, <1>5, <1>6, <1>7 DEF IInv

LEMMA GoodbyeKeeps ==
  ASSUME IInv, SaysGoodbye, ClientStill
  PROVE  IInv'
<1>1. PICK c \in Codes \ {LoggedIn}, d \in {"QUIT"} : Takes(d) /\ Reply(c)
  BY CodesKnown, CodesDiffer DEF SaysGoodbye
<1>2. /\ requests # <<>> /\ session \in {"greeted", "loggedIn"}
      /\ requests' \in Seq(Commands) /\ replies' \in Seq(Codes)
      /\ d \in {"QUIT"}
      /\ requests \in Seq({"USER", "PASS"}) =>
           requests' \in Seq({"USER", "PASS"}) /\ d \in {"USER", "PASS"}
      /\ replies \in Seq(Codes \ {LoggedIn}) => replies' \in Seq(Codes \ {LoggedIn})
  BY <1>1, Answering
<1>3. TypeOK'
  BY <1>2, ConstantsType
  DEF IInv, TypeOK, ServerTypeOK, SaysGoodbye, ClientStill, control, data,
      served, history, flags
<1>4. Unopened' /\ Entering' /\ Admitted'
  BY <1>2
  DEF IInv, TypeOK, ServerTypeOK, Unopened, Entering, LoggingIn, Admitted,
      Working, LoggedInOrGone, SaysGoodbye, ClientStill, control, data,
      served, history, flags
<1>5. Welcome'
  BY <1>2
  DEF IInv, TypeOK, ServerTypeOK, Welcome, LoggedInOrGone, SaysGoodbye,
      ClientStill, control, data, served, history, flags
<1>6. Family' /\ Telling'
  BY DEF IInv, Family, Telling, ClientStill, control, data, served, history,
         flags
<1> QED BY <1>3, <1>4, <1>5, <1>6 DEF IInv

LEMMA AuthenticatesKeeps ==
  ASSUME IInv, Authenticates, ClientStill
  PROVE  IInv'
<1>1. /\ requests # <<>> /\ session \in {"greeted", "loggedIn"}
      /\ requests' \in Seq(Commands) /\ replies' \in Seq(Codes)
      /\ requests \in Seq({"USER", "PASS"}) => requests' \in Seq({"USER", "PASS"})
      /\ \/ session' = "loggedIn"
         \/ /\ session' = session
            /\ replies \in Seq(Codes \ {LoggedIn}) => replies' \in Seq(Codes \ {LoggedIn})
  <2>1. PICK d : Takes(d)
    BY DEF Authenticates
  <2>2. requests \in Seq(Commands) /\ replies \in Seq(Codes)
    BY DEF IInv, TypeOK, ServerTypeOK
  <2>3. /\ requests # <<>> /\ session \in {"greeted", "loggedIn"}
        /\ requests' \in Seq(Commands)
        /\ requests \in Seq({"USER", "PASS"}) => requests' \in Seq({"USER", "PASS"})
    BY <2>1, <2>2, Taking DEF Takes
  <2>4. CASE Reply(UserOkay) /\ UNCHANGED session
    <3>1. UserOkay \in Codes /\ UserOkay \in Codes \ {LoggedIn}
      BY CodesKnown, CodesDiffer
    <3> QED BY <2>2, <2>3, <2>4, <3>1, Replying
  <2>5. CASE /\ \E k \in Pieces : replies' = replies \o Copies(LoggedIn, k)
             /\ session' = "loggedIn"
    <3>1. PICK k \in Pieces : replies' = replies \o Copies(LoggedIn, k)
      BY <2>5
    <3>2. Copies(LoggedIn, k) \in Seq(Codes)
      BY FtpServerAssumption, CodesKnown, Copying
    <3>3. replies' \in Seq(Codes)
      BY <2>2, <3>1, <3>2
    <3> QED BY <2>3, <2>5, <3>3
  <2> QED BY <2>4, <2>5 DEF Authenticates
<1>2. TypeOK'
  BY <1>1, ConstantsType
  DEF IInv, TypeOK, ServerTypeOK, Authenticates, Takes,
      ClientStill, control, data, served, history, flags
<1>3. Unopened' /\ Entering' /\ Admitted'
  BY <1>1
  DEF IInv, TypeOK, ServerTypeOK, Unopened, Entering, LoggingIn, Admitted,
      Working, LoggedInOrGone, Authenticates, Takes, ClientStill,
      control, data, served, history, flags
<1>4. Welcome'
  BY <1>1
  DEF IInv, TypeOK, ServerTypeOK, Welcome, LoggedInOrGone, Authenticates,
      Takes, ClientStill, control, data, served, history, flags
<1>5. Family' /\ Telling'
  BY DEF IInv, Family, Telling, ClientStill, control, data, served, history,
         flags
<1> QED BY <1>2, <1>3, <1>4, <1>5 DEF IInv

LEMMA SendsDataKeeps ==
  ASSUME IInv, SendsData(passiveSD), ClientStill
  PROVE  IInv'
<1>1. TypeOK'
  BY ConstantsType
  DEF IInv, TypeOK, ServerTypeOK, SendsData, ClientStill, control, data,
      served, history, flags
<1>2. Unopened' /\ Entering' /\ Admitted'
  BY DEF IInv, TypeOK, ServerTypeOK, Unopened, Entering, LoggingIn, Admitted,
         Working, LoggedInOrGone, SendsData, ClientStill, control, data,
         served, history, flags
<1>3. Welcome'
  BY DEF IInv, TypeOK, ServerTypeOK, Welcome, LoggedInOrGone, SendsData,
         ClientStill, control, data, served, history, flags
<1>4. Family' /\ Telling'
  BY DEF IInv, Family, Telling, ClientStill, control, data, served, history,
         flags
<1> QED BY <1>1, <1>2, <1>3, <1>4 DEF IInv

LEMMA EndsTransferKeeps ==
  ASSUME IInv, EndsTransfer(passiveSD), ClientStill
  PROVE  IInv'
<1>1. /\ replies' \in Seq(Codes)
      /\ replies \in Seq(Codes \ {LoggedIn}) => replies' \in Seq(Codes \ {LoggedIn})
      /\ transfer \in {"out", "in"}
  <2>1. replies \in Seq(Codes)
    BY DEF IInv, TypeOK, ServerTypeOK
  <2>2. PICK c \in Codes \ {LoggedIn} : Reply(c)
    BY CodesKnown, CodesDiffer DEF EndsTransfer
  <2> QED BY <2>1, <2>2, Replying DEF EndsTransfer
<1>2. TypeOK'
  BY <1>1, ConstantsType
  DEF IInv, TypeOK, ServerTypeOK, EndsTransfer, ClientStill, control, data,
      served, history, flags
<1>3. Unopened' /\ Entering' /\ Admitted'
  BY <1>1
  DEF IInv, TypeOK, ServerTypeOK, Unopened, Entering, LoggingIn, Admitted,
      Working, LoggedInOrGone, EndsTransfer, ClientStill, control, data,
      served, history, flags
<1>4. Welcome'
  BY <1>1
  DEF IInv, TypeOK, ServerTypeOK, Welcome, LoggedInOrGone, EndsTransfer,
      ClientStill, control, data, served, history, flags
<1>5. Family' /\ Telling'
  BY DEF IInv, Family, Telling, ClientStill, control, data, served, history,
         flags
<1> QED BY <1>2, <1>3, <1>4, <1>5 DEF IInv

LEMMA HangsUpKeeps ==
  ASSUME IInv, (clientSD = "open" /\ HangsUp), ClientStill
  PROVE  IInv'
<1>1. TypeOK'
  BY EmptySeq, ConstantsType
  DEF IInv, TypeOK, ServerTypeOK, HangsUp, ClientStill, control, data, served,
      history, flags
<1>2. Unopened' /\ Entering' /\ Admitted'
  BY EmptySeq
  DEF IInv, TypeOK, ServerTypeOK, Unopened, Entering, LoggingIn, Admitted,
      Working, LoggedInOrGone, HangsUp, ClientStill, control, data, served,
      history, flags
<1>3. Welcome'
  BY EmptySeq
  DEF IInv, TypeOK, ServerTypeOK, Welcome, LoggedInOrGone, HangsUp,
      ClientStill, control, data, served, history, flags
<1>4. Family' /\ Telling'
  BY DEF IInv, Family, Telling, ClientStill, control, data, served, history,
         flags
<1> QED BY <1>1, <1>2, <1>3, <1>4 DEF IInv

LEMMA ServerKeeps ==
  ASSUME IInv, Server
  PROVE  IInv'
<1>1. ClientStill
  BY DEF Server, ClientStill
<1> QED
  BY <1>1, GreetKeeps, RefusesKeeps, ExecutesKeeps, ListensKeeps, TransfersKeeps,
     GoodbyeKeeps, AuthenticatesKeeps, SendsDataKeeps, EndsTransferKeeps, HangsUpKeeps
  DEF Server

-----------------------------------------------------------------------------
LEMMA InitInvariant == Init => IInv
<1> SUFFICES ASSUME Init PROVE IInv
  OBVIOUS
<1>1. TypeOK
  <2>1. pc \in {"connect", "prompt"} /\ op = "start" /\ operations = 0 /\ told = 0
    BY DEF Init
  <2>2. {openConnection, activityMode, abandoned} \subseteq BOOLEAN
    BY DEF Init
  <2>3. ftpCode \in Codes /\ replyCode \in Codes
    BY ConstantsType DEF Init
  <2>4. clientSD = "none" /\ passiveSD = "none" /\ child = "none"
    BY DEF Init
  <2>5. ServerTypeOK
    BY EmptySeq, ConstantsType DEF Init, ServerInit, ServerTypeOK
  <2> QED BY <2>1, <2>2, <2>3, <2>4, <2>5, ConstantsType DEF TypeOK
<1>2. Unopened /\ Entering /\ Admitted
  BY DEF Init, ServerInit, Unopened, Entering, LoggingIn, Admitted, Working
<1>3. Welcome /\ Family /\ Telling
  BY EmptySeq DEF Init, ServerInit, Welcome, Family, Telling
<1> QED BY <1>1, <1>2, <1>3 DEF IInv

LEMMA StepKeeps == IInv /\ [Next]_vars => IInv'
<1> SUFFICES ASSUME IInv, [Next]_vars PROVE IInv'
  OBVIOUS
<1>1. CASE Parent
  BY <1>1, ConnectKeeps, GreetingKeeps, UserKeeps, PassKeeps, DrainKeeps, SystKeeps,
     LoginFailsKeeps, CwdKeeps, PasvKeeps, ListKeeps, WaitedKeeps, TypeKeeps,
     TransferKeeps, ForkFailsKeeps, QuitReadKeeps
  DEF Parent
<1>2. CASE User
  BY <1>2, PromptKeeps, OperateKeeps, OperateClosedKeeps, QuitKeeps DEF User
<1>3. CASE Child
  BY <1>3, ChildKeeps DEF Child
<1>4. CASE Server
  BY <1>4, ServerKeeps
<1>5. CASE Finished \/ UNCHANGED vars
  BY <1>5
  DEF Finished, vars, control, data, served, history, flags, IInv, TypeOK,
      ServerTypeOK, Unopened, Entering, Admitted, LoggedInOrGone, Welcome, Family,
      Telling
<1> QED BY <1>1, <1>2, <1>3, <1>4, <1>5 DEF Next

LEMMA Invariance == Spec => []IInv
  BY InitInvariant, StepKeeps, PTL DEF Spec

(* Every variable keeps its type, whatever the user asks for and the       *)
(* server answers (FTPClient.cpp, main.cpp:36-67).                         *)
THEOREM TypeCorrect == Spec => []TypeOK
  BY Invariance, PTL DEF IInv

LEMMA LoginFollows == IInv => LoginTruthful
  BY DEF IInv, Admitted, LoggedInOrGone, LoginTruthful

(* At the prompt, a connection that openServer left open is logged in, or  *)
(* the server has closed it since (FTPClient.cpp:82-98): also if greetings *)
(* come in pieces, replies together, and the codes the client starts with  *)
(* are any.                                                                *)
THEOREM LoginCorrect == Spec => []LoginTruthful
  BY Invariance, LoginFollows, PTL

-----------------------------------------------------------------------------
(* In order: what is read and written.                                     *)

LEMMA ReadShort ==
  ASSUME IInv, Readable, ReadSome
  PROVE  /\ replies # <<>> \/ session = "closed"
         /\ replies = <<>> => replies' = <<>>
         /\ Len(replies) <= 1 => replies' = <<>>
         /\ Len(replies) <= 2 => replies' = <<>> \/ Len(replies') = 1
<1>1. replies \in Seq(Codes) /\ replies' \in Seq(Codes)
  BY Shortening DEF IInv, TypeOK, ServerTypeOK
<1>2. /\ Len(replies) \in Nat /\ Len(replies') \in Nat
      /\ Len(replies) = 0 => replies = <<>>
      /\ Len(replies') = 0 => replies' = <<>>
  BY <1>1, EmptySeq
<1>3. CASE replies = <<>>
  BY <1>1, <1>3, Shortening DEF Readable
<1>4. CASE replies # <<>>
  <2>1. Len(replies') < Len(replies)
    BY <1>1, <1>4, Shortening
  <2>2. Len(replies) <= 1 => Len(replies') = 0
    BY <1>2, <2>1
  <2>3. Len(replies) <= 2 => Len(replies') = 0 \/ Len(replies') = 1
    <3>1. \A m, n \in Nat : m < n /\ n <= 2 => m = 0 \/ m = 1
      OBVIOUS
    <3> QED BY <1>2, <2>1, <3>1
  <2> QED BY <1>2, <1>4, <2>2, <2>3
<1> QED BY <1>3, <1>4

(* The reply to a command that has one.                                    *)
LEMMA OneRead ==
  ASSUME IInv, Orderly, ConvertCode, pc \in {"SYST", "CWD", "PASV", "TYPE", "QUIT"}
  PROVE  HasRead /\ requests = <<>> /\ replies' = <<>> /\ ~Busy
<1>1. HasRead /\ Readable /\ ReadSome
  BY Converting DEF ConvertCode
<1>2. requests = <<>> /\ Len(replies) <= 1 /\ ~Busy
  BY <1>1, ReadShort DEF Orderly, Owed, OneAsked, Gone
<1> QED BY <1>1, <1>2, ReadShort

(* A reply of the login. What makes the client go on is no piece of a      *)
(* greeting, so the server has taken its command.                          *)
LEMMA LoginRead ==
  ASSUME IInv, Orderly, ConvertCode, pc \in {"greeting", "USER", "PASS"}
  PROVE  /\ HasRead
         /\ Pieces \subseteq {1} => replies' = <<>>
         /\ pc = "greeting" => requests = <<>> /\ replies' \in Seq({Greeted})
         /\ pc = "greeting" /\ replyCode' = LoggedIn => replies' = <<>>
         /\ pc = "USER" /\ replyCode' = UserOkay => requests = <<>> /\ replies' = <<>>
         /\ pc = "USER" /\ replyCode' = LoggedIn => requests = <<>>
         /\ pc = "PASS" => requests = <<>>
<1>1. HasRead /\ Readable /\ ReadSome
  BY Converting DEF ConvertCode
<1>2. replies = <<>> => requests = <<>> /\ replies' = <<>>
  BY <1>1, ReadShort DEF Orderly, Gone
<1>3. Pieces \subseteq {1} => replies' = <<>>
  BY <1>1, <1>2, ReadShort DEF Orderly, Owed, Uncut, OneAsked
<1>4. replies # <<>> => replyCode' = Head(replies)
  BY <1>1 DEF HasRead
<1>5. replies # <<>> /\ replies \in Seq({Greeted}) => Head(replies) = Greeted
  OBVIOUS
<1>6. Greeted # UserOkay /\ Greeted # LoggedIn
  BY CodesDiffer
<1>7. CASE pc = "greeting"
  <2>1. requests = <<>> /\ replies \in Seq({Greeted})
    BY <1>7 DEF IInv, Entering, LoggingIn, Orderly, Owed, Entered
  <2> QED BY <1>1, <1>2, <1>3, <1>4, <1>5, <1>6, <1>7, <2>1, Shortening
<1>8. CASE pc = "USER"
  <2>1. CASE replies # <<>> /\ requests = <<"USER">> /\ replies \in Seq({Greeted})
    BY <1>1, <1>3, <1>4, <1>5, <1>6, <1>8, <2>1
  <2>2. CASE replies # <<>> /\ requests = <<>>
    <3>1. replyCode' = UserOkay => Len(replies) = 1
      BY <1>4, <1>8, <2>2 DEF Orderly, Owed, Entered
    <3>2. replyCode' = UserOkay => replies' = <<>>
      <4>1. Len(replies) = 1 => Len(replies) <= 1
        OBVIOUS
      <4> QED BY <1>1, <3>1, <4>1, ReadShort
    <3> QED BY <1>1, <1>3, <1>8, <2>2, <3>2
  <2> QED BY <1>1, <1>2, <1>3, <1>8, <2>1, <2>2 DEF Orderly, Owed, Entered
<1>9. CASE pc = "PASS"
  BY <1>1, <1>2, <1>3, <1>9 DEF Orderly, Owed, Entered
<1> QED BY <1>7, <1>8, <1>9

(* The first reply to LIST, RETR or STOR.                                  *)
LEMMA FirstRead ==
  ASSUME IInv, Orderly, ConvertCode, pc \in {"LIST", "RETR", "STOR"}
  PROVE  /\ HasRead /\ requests = <<>>
         /\ replies' = <<>> \/ (~Busy /\ Len(replies') = 1)
         /\ replies = <<>> \/ Head(replies) # FileStatusOkay =>
              replies' = <<>> /\ ~Busy
<1>1. HasRead /\ Readable /\ ReadSome
  BY Converting DEF ConvertCode
<1>2. requests = <<>>
  BY <1>1, ReadShort DEF Orderly, Owed, TwoAsked, Gone
<1>3. Len(<<FileStatusOkay>>) = 1 /\ Head(<<FileStatusOkay>>) = FileStatusOkay
  OBVIOUS
<1>4. CASE replies = <<>>
  BY <1>1, <1>2, <1>4, ReadShort DEF Orderly, Gone
<1>5. CASE replies # <<>>
  <2>1. \/ replies = <<FileStatusOkay>>
        \/ Len(replies) <= 1 /\ ~Busy
        \/ Len(replies) = 2 /\ ~Busy /\ Head(replies) = FileStatusOkay
    BY <1>5 DEF Orderly, Owed, TwoAsked
  <2>2. CASE replies = <<FileStatusOkay>>
    <3>1. Len(replies) <= 1 /\ Head(replies) = FileStatusOkay
      BY <1>3, <2>2
    <3> QED BY <1>1, <1>2, <1>5, <3>1, ReadShort
  <2>3. CASE Len(replies) <= 1 /\ ~Busy
    BY <1>1, <1>2, <2>3, ReadShort
  <2>4. CASE Len(replies) = 2 /\ ~Busy /\ Head(replies) = FileStatusOkay
    <3>1. Len(replies) <= 2
      BY <2>4
    <3> QED BY <1>1, <1>2, <1>5, <2>4, <3>1, ReadShort
  <2> QED BY <2>1, <2>2, <2>3, <2>4
<1> QED BY <1>1, <1>2, <1>4, <1>5

(* The final reply.                                                        *)
LEMMA LastRead ==
  ASSUME IInv, Orderly, Readable, ReadSome, pc \in {"wait", "listed"}
  PROVE  requests = <<>> /\ replies' = <<>> /\ ~Busy
<1>1. requests = <<>> /\ (replies = <<>> \/ (~Busy /\ Len(replies) = 1))
  BY DEF Orderly, Owed, OneLeft
<1>2. CASE replies = <<>>
  BY <1>1, <1>2, ReadShort DEF Orderly, Gone
<1>3. CASE ~Busy /\ Len(replies) = 1
  <2>1. Len(replies) <= 1
    BY <1>3
  <2> QED BY <1>1, <1>3, <2>1, ReadShort
<1> QED BY <1>1, <1>2, <1>3

(* A command on a quiet connection.                                        *)
LEMMA Asking ==
  ASSUME requests = <<>>, NEW c, SendCommand(c)
  PROVE  \/ pc' = c /\ requests' = <<c>> /\ session # "closed"
         \/ pc' \in {c, "lost"} /\ requests' = <<>> /\ session = "closed"
<1>1. Append(<<>>, c) = <<c>>
  OBVIOUS
<1> QED BY <1>1, Sending

-----------------------------------------------------------------------------
(* Each step keeps the order.                                              *)

LEMMA ConnectOrderly ==
  ASSUME IInv, Orderly, Connect \/ ConnectFails
  PROVE  Orderly'
<1>1. /\ replies' = <<>> /\ requests' = <<>> /\ replies' \in Seq({Greeted})
      /\ Len(replies') <= 1
  <2>1. replies = <<>> /\ requests = <<>> /\ UNCHANGED control
    BY DEF IInv, Unopened, Connect, ConnectFails
  <2>2. <<>> \in Seq({Greeted}) /\ Len(<<>>) <= 1
    OBVIOUS
  <2> QED BY <2>1, <2>2 DEF control
<1> QED
  BY <1>1
  DEF Owed, Entered, Uncut, Quiet, OneAsked, TwoAsked, OneLeft, Busy, Gone, Listening,
      Orderly, IInv, Unopened, Connect, ConnectFails, GetClientSocket, Back,
      control, data, served, history, flags

LEMMA GreetingOrderly ==
  ASSUME IInv, Orderly, GreetingRead
  PROVE  Orderly'
<1>1. pc = "greeting" /\ ConvertCode
  BY DEF GreetingRead
<1>2. replies' \in Seq({Greeted}) /\ (replies' # <<>> => Head(replies') # UserOkay)
  <2>1. replies' \in Seq({Greeted})
    BY <1>1, LoginRead
  <2>2. replies' # <<>> => Head(replies') = Greeted
    BY <2>1
  <2> QED BY <2>1, <2>2, CodesDiffer
<1> QED
  BY <1>1, <1>2, Asking, LoginRead
  DEF Owed, Entered, Uncut, OneAsked, Busy, Gone, Listening, Orderly, IInv, Entering,
      LoggingIn, GreetingRead, control, data, served, history, flags

LEMMA UserOrderly ==
  ASSUME IInv, Orderly, UserRead
  PROVE  Orderly'
<1>1. pc = "USER" /\ ConvertCode
  BY DEF UserRead
<1> QED
  BY <1>1, Asking, LoginRead
  DEF Owed, Entered, Uncut, OneAsked, Busy, Gone, Listening, Orderly, IInv, Entering,
      LoggingIn, UserRead, control, data, served, history, flags

LEMMA PassOrderly ==
  ASSUME IInv, Orderly, PassRead
  PROVE  Orderly'
<1>1. pc = "PASS" /\ ConvertCode
  BY DEF PassRead
<1> QED
  BY <1>1, LoginRead
  DEF Owed, Entered, Uncut, OneAsked, Busy, Gone, Listening, Orderly, IInv, Entering,
      LoggingIn, PassRead, control, data, served, history, flags

(* What the end of the login leaves unread counts.                         *)
LEMMA DrainOrderly ==
  ASSUME IInv, Orderly, Drain \/ DrainEnd
  PROVE  abandoned' \/ Orderly'
<1>1. CASE Drain
  BY <1>1
  DEF Owed, Entered, Uncut, Quiet, OneAsked, TwoAsked, OneLeft, Busy, Gone, Listening,
      Orderly, Drain, control, data, served, history, flags
<1>2. CASE DrainEnd
  <2>1. requests = <<>> /\ ~Busy /\ pc = "drain"
    BY <1>2 DEF Orderly, Owed, Entered, IInv, Entering, LoggingIn, Busy, DrainEnd
  <2>2. CASE ftpCode = LoggedIn
    <3>1. SendCommand("SYST") /\ (replies # <<>> => abandoned')
      BY <1>2, <2>2 DEF DrainEnd
    <3>2. CASE replies = <<>>
      BY <1>2, <2>1, <3>1, <3>2, Asking
      DEF Owed, Entered, Uncut, OneAsked, Busy, Gone, Listening, Orderly, DrainEnd,
          data
    <3> QED BY <3>1, <3>2
  <2>3. CASE ftpCode # LoggedIn
    BY <1>2, <2>1, <2>3
    DEF Owed, Entered, Uncut, Busy, Gone, Listening, Orderly, DrainEnd, data
  <2> QED BY <2>2, <2>3
<1> QED BY <1>1, <1>2

LEMMA SystOrderly ==
  ASSUME IInv, Orderly, SystRead
  PROVE  Orderly'
<1>1. HasRead /\ requests = <<>> /\ replies' = <<>> /\ ~Busy
  BY OneRead DEF SystRead
<1> QED
  BY <1>1
  DEF Owed, Entered, Uncut, Quiet, OneAsked, TwoAsked, OneLeft, Busy, Gone, Listening,
      Orderly, SystRead, Back, control, data, served, history, flags

LEMMA LoginFailsOrderly ==
  ASSUME IInv, Orderly, LoginFails
  PROVE  Orderly'
  BY DEF Owed, Entered, Uncut, Quiet, OneAsked, TwoAsked, OneLeft, Busy, Gone,
         Listening, Orderly, IInv, Entering, LoggingIn, LoginFails, CloseClientSD,
         Back, control, data, served, history, flags

LEMMA PromptOrderly ==
  ASSUME IInv, Orderly,
         Open \/ NoCommand \/ EmptyLine \/ NoFileName \/ NotConnected \/ PutNoFile
  PROVE  Orderly'
  BY DEF Owed, Entered, Uncut, Quiet, OneAsked, TwoAsked, OneLeft, Busy, Gone,
         Listening, Orderly, Open, NoCommand, EmptyLine, NoFileName, NotConnected,
         PutNoFile, Ask, Back, control, data, served, history, flags

LEMMA OperateOrderly ==
  ASSUME IInv, Orderly, Operate
  PROVE  Orderly'
  BY Asking
  DEF Owed, Entered, Uncut, Quiet, OneAsked, TwoAsked, OneLeft, Busy, Gone, Listening,
      Orderly, Operate, Ask, FirstCommand, DataOperations, control, data,
      served, history, flags

LEMMA OperateClosedOrderly ==
  ASSUME IInv, Orderly, OperateClosed
  PROVE  Orderly'
  BY DEF Owed, Entered, Uncut, Quiet, OneAsked, TwoAsked, OneLeft, Busy, Gone,
         Listening, Orderly, OperateClosed, Ask, control, data, served, history, flags

LEMMA QuitOrderly ==
  ASSUME IInv, Orderly, Quit
  PROVE  Orderly'
  BY Asking
  DEF Owed, Entered, Uncut, Quiet, OneAsked, TwoAsked, OneLeft, Busy, Gone, Listening,
      Orderly, Quit, control, data, served, history, flags

LEMMA CwdOrderly ==
  ASSUME IInv, Orderly, CwdRead
  PROVE  Orderly'
<1>1. HasRead /\ requests = <<>> /\ replies' = <<>> /\ ~Busy
  BY OneRead DEF CwdRead
<1> QED
  BY <1>1
  DEF Owed, Entered, Uncut, Quiet, OneAsked, TwoAsked, OneLeft, Busy, Gone, Listening,
      Orderly, CwdRead, control, data, served, history, flags

LEMMA PasvOrderly ==
  ASSUME IInv, Orderly, PasvRead
  PROVE  Orderly'
<1>1. HasRead /\ requests = <<>> /\ replies' = <<>> /\ ~Busy
  BY OneRead DEF PasvRead
<1> QED
  BY <1>1, Asking
  DEF Owed, Entered, Uncut, Quiet, OneAsked, TwoAsked, OneLeft, Busy, Gone, Listening,
      Orderly, PasvRead, AfterPassive, control, data, served, history, flags

LEMMA ListOrderly ==
  ASSUME IInv, Orderly, ListRead
  PROVE  Orderly'
<1>1. /\ requests = <<>>
      /\ replies' = <<>> \/ (~Busy /\ Len(replies') = 1)
  BY FirstRead DEF ListRead
<1> QED
  BY <1>1
  DEF Owed, Entered, Uncut, Quiet, OneAsked, TwoAsked, OneLeft, Busy, Gone, Listening,
      Orderly, IInv, Family, ListRead, control, data, served, history, flags

LEMMA ListedOrderly ==
  ASSUME IInv, Orderly, ListedRead
  PROVE  Orderly'
<1>1. requests = <<>> /\ replies' = <<>> /\ ~Busy
  BY LastRead DEF ListedRead, ConvertCode
<1> QED
  BY <1>1
  DEF Owed, Entered, Uncut, Quiet, OneAsked, TwoAsked, OneLeft, Busy, Gone, Listening,
      Orderly, ListedRead, control, data, served, history, flags

LEMMA WaitedOrderly ==
  ASSUME IInv, Orderly, Waited
  PROVE  Orderly'
  BY DEF Owed, Entered, Uncut, Quiet, OneAsked, TwoAsked, OneLeft, Busy, Gone,
         Listening, Orderly, IInv, Family, DataOperations, Waited, control, data,
         served, history, flags

LEMMA TypeOrderly ==
  ASSUME IInv, Orderly, TypeRead
  PROVE  Orderly'
<1>1. HasRead /\ requests = <<>> /\ replies' = <<>> /\ ~Busy
  BY OneRead DEF TypeRead
<1> QED
  BY <1>1, Asking
  DEF Owed, Entered, Uncut, Quiet, OneAsked, TwoAsked, OneLeft, Busy, Gone, Listening,
      Orderly, TypeRead, control, data, served, history, flags

LEMMA TransferOrderly ==
  ASSUME IInv, Orderly, RetrRead \/ StorRead
  PROVE  abandoned' \/ Orderly'
<1>1. /\ HasRead /\ requests = <<>>
      /\ replies' = <<>> \/ (~Busy /\ Len(replies') = 1)
      /\ replies = <<>> \/ Head(replies) # FileStatusOkay =>
           replies' = <<>> /\ ~Busy
  BY FirstRead DEF RetrRead, StorRead
<1> QED
  BY <1>1
  DEF HasRead, Owed, Entered, Uncut, Quiet, OneAsked, TwoAsked, OneLeft, Busy, Gone,
      Listening, Orderly, IInv, Family, RetrRead, StorRead, ForkTransfer,
      ReceiveFileFails, NoTransfer, control, data, served, history, flags

LEMMA ForkFailsOrderly ==
  ASSUME IInv, Orderly, ListForkFails \/ TransferForkFails
  PROVE  Orderly'
<1>1. CASE ListForkFails
  <2>1. HasRead /\ requests = <<>> /\ replies' = <<>> /\ ~Busy
    BY <1>1, OneRead DEF ListForkFails
  <2> QED
    BY <1>1, <2>1
    DEF Owed, Entered, Uncut, Quiet, OneAsked, TwoAsked, OneLeft, Busy, Gone,
        Listening, Orderly, ListForkFails, control, served, history, flags
<1>2. CASE TransferForkFails
  BY <1>2
  DEF Owed, Entered, Uncut, Quiet, OneAsked, TwoAsked, OneLeft, Busy, Gone, Listening,
      Orderly, TransferForkFails, CloseClientSD
<1> QED BY <1>1, <1>2

LEMMA QuitReadOrderly ==
  ASSUME IInv, Orderly, QuitRead \/ Destroy
  PROVE  Orderly'
  BY DEF Owed, Entered, Uncut, Quiet, OneAsked, TwoAsked, OneLeft, Busy, Gone,
         Listening, Orderly, QuitRead, Destroy, CloseClientSD, control, data, served,
         history, flags

LEMMA ChildOrderly ==
  ASSUME IInv, Orderly, ChildReads \/ ChildEnds \/ ChildConverts
  PROVE  Orderly'
<1>1. ChildConverts => pc = "wait" /\ requests = <<>> /\ replies' = <<>> /\ ~Busy
  BY LastRead DEF ChildConverts, IInv, Family
<1> QED
  BY <1>1
  DEF Owed, Entered, Uncut, Quiet, OneAsked, TwoAsked, OneLeft, Busy, Gone, Listening,
      Orderly, IInv, Family, ChildReads, ChildEnds, ChildConverts, control,
      data, served, history, flags

-----------------------------------------------------------------------------
(* The server keeps the order.                                             *)

Over == pc \in {"ended", "exited", "lost"}

LEMMA OneCopy ==
  ASSUME NEW c
  PROVE  Copies(c, 1) = <<c>>
  BY DEF Copies

LEMMA CopiesType ==
  ASSUME NEW k \in Pieces, NEW c
  PROVE  Copies(c, k) \in Seq({c})
<1>1. k \in Nat
  BY FtpServerAssumption
<1> QED BY <1>1 DEF Copies

(* It takes the command the client waits for.                              *)
LEMMA TakesIt ==
  ASSUME IInv, Orderly, ~Over, pc \notin LoggingIn, NEW d, Takes(d)
  PROVE  pc = d /\ replies = <<>> /\ requests' = <<>> /\ ~Busy /\ pc \in Commands
<1>1. pc \in (Commands \ LoggingIn) \union {"prompt", "connect", "wait", "listed"}
  BY DEF IInv, TypeOK, Over, LoggingIn
<1>2. requests = <<pc>> /\ replies = <<>> /\ ~Busy /\ pc \in Commands
  BY <1>1
  DEF Takes, Orderly, Owed, Quiet, OneAsked, TwoAsked, OneLeft, Commands, LoggingIn
<1>3. Head(<<pc>>) = pc /\ Tail(<<pc>>) = <<>>
  OBVIOUS
<1> QED BY <1>2, <1>3 DEF Takes

LEMMA AnswersIt ==
  ASSUME IInv, Orderly, ~Over, pc \notin LoggingIn, NEW d, Takes(d), NEW c, Reply(c)
  PROVE  replies' = <<c>> /\ Len(replies') = 1 /\ Head(replies') = c
<1>1. Append(<<>>, c) = <<c>> /\ Len(<<c>>) = 1 /\ Head(<<c>>) = c
  OBVIOUS
<1> QED BY <1>1, TakesIt DEF Reply

(* During the login it takes a command of the login, and the one the       *)
(* client waits for, if it waits for one.                                  *)
LEMMA TakesLogin ==
  ASSUME IInv, Orderly, pc \in LoggingIn, NEW d, Takes(d)
  PROVE  /\ d \in {"USER", "PASS"}
         /\ pc \in {"USER", "PASS", "fail"}
         /\ pc # "fail" => pc = d /\ requests' = <<>>
         /\ pc = "USER" => replies \in Seq({Greeted})
         /\ pc = "PASS" => replies = <<>>
         /\ Pieces \subseteq {1} /\ pc # "fail" => replies = <<>>
<1>1. requests # <<>> /\ d = Head(requests) /\ requests' = Tail(requests)
  BY DEF Takes
<1>2. requests \in Seq({"USER", "PASS"}) /\ pc # "greeting"
  BY <1>1 DEF IInv, Entering
<1>3. d \in {"USER", "PASS"}
  BY <1>1, <1>2
<1>4. pc # "drain"
  BY <1>1 DEF Orderly, Owed, Entered
<1>5. pc # "fail" => /\ pc \in {"USER", "PASS"} /\ requests = <<pc>>
                     /\ pc = "USER" => replies \in Seq({Greeted})
                     /\ pc = "PASS" => replies = <<>>
                     /\ Pieces \subseteq {1} => replies = <<>>
  BY <1>1, <1>2, <1>4 DEF LoggingIn, Orderly, Owed, Entered, Uncut, OneAsked
<1>6. Head(<<pc>>) = pc /\ Tail(<<pc>>) = <<>>
  OBVIOUS
<1> QED BY <1>1, <1>2, <1>3, <1>4, <1>5, <1>6 DEF LoggingIn

(* It never takes a command of an operation the client is not in.          *)
LEMMA TakesOwn ==
  ASSUME IInv, Orderly, ~Over, NEW d, Takes(d)
  PROVE  pc = d \/ d \in {"USER", "PASS"}
  BY TakesIt, TakesLogin

(* What it answers to USER, behind what is left of the greeting.           *)
LEMMA UserAnswered ==
  ASSUME NEW s \in Seq({Greeted}), NEW c \in {UserOkay, NotLoggedIn}
  PROVE  Head(Append(s, c)) = UserOkay => Len(Append(s, c)) = 1
<1>1. CASE s = <<>>
  BY <1>1
<1>2. CASE s # <<>>
  <2>1. Head(Append(s, c)) = Head(s) /\ Head(s) = Greeted
    BY <1>2
  <2> QED BY <2>1, CodesDiffer
<1> QED BY <1>1, <1>2

LEMMA UserLoggedIn ==
  ASSUME NEW s \in Seq({Greeted}), NEW t \in Seq({LoggedIn}), s \o t # <<>>
  PROVE  Head(s \o t) # UserOkay
<1>1. Len(s) + Len(t) > 0 /\ Head(s \o t) = (s \o t)[1]
  OBVIOUS
<1>2. Head(s \o t) \in {Greeted, LoggedIn}
  OBVIOUS
<1> QED BY <1>2, CodesDiffer

LEMMA ServerEnters ==
  ASSUME IInv, Orderly, Server, pc \in LoggingIn
  PROVE  Orderly'
<1>1. ClientStill
  BY DEF Server, ClientStill
<1>2. transfer = "none" /\ pc \notin {"ended", "exited", "lost"}
  BY DEF IInv, Entering, LoggingIn
<1>3. CASE Greet
  <2>1. pc = "greeting"
    BY <1>3 DEF Greet, IInv, Entering
  <2>2. PICK k \in Pieces : replies' = Copies(Greeted, k)
    BY <1>3 DEF Greet
  <2>3. replies' \in Seq({Greeted})
    BY <2>2, CopiesType
  <2>4. Pieces \subseteq {1} => Len(replies') <= 1
    <3>1. Len(<<Greeted>>) <= 1
      OBVIOUS
    <3> QED BY <2>2, <3>1, OneCopy
  <2> QED
    BY <1>1, <1>3, <2>1, <2>3, <2>4
    DEF Greet, ClientStill, Orderly, Owed, Entered, Uncut, Gone, Listening
<1>4. CASE Refuses
  <2>1. PICK d : /\ Takes(d)
                 /\ Reply(IF d \in {"USER", "PASS"} THEN NotLoggedIn ELSE NotTaken)
    BY <1>4 DEF Refuses
  <2>2. replies' = Append(replies, NotLoggedIn)
    BY <2>1, TakesLogin DEF Reply
  <2>3. pc = "USER" => (Head(replies') = UserOkay => Len(replies') = 1)
    BY <2>1, <2>2, TakesLogin, UserAnswered
  <2>4. replies = <<>> => Len(replies') <= 1
    BY <2>2
  <2> QED
    BY <1>1, <1>2, <1>4, <2>1, <2>3, <2>4, TakesLogin
    DEF Refuses, ClientStill, Orderly, Owed, Entered, Uncut, OneAsked, Busy, Gone,
        Listening, LoggingIn, Takes
<1>5. CASE Authenticates
  <2>1. PICK d : Takes(d)
    BY <1>5 DEF Authenticates
  <2>2. \/ Takes("USER") /\ replies' = Append(replies, UserOkay)
        \/ \E k \in Pieces : replies' = replies \o Copies(LoggedIn, k)
    BY <1>5 DEF Authenticates, Reply
  <2>3. pc = "USER" =>
          (replies' # <<>> /\ Head(replies') = UserOkay => Len(replies') = 1)
    BY <2>1, <2>2, TakesLogin, UserAnswered, UserLoggedIn, CopiesType
  <2>4. Pieces \subseteq {1} /\ replies = <<>> => Len(replies') <= 1
    <3>1. Len(Append(<<>>, UserOkay)) <= 1 /\ Len(<<>> \o <<LoggedIn>>) <= 1
      OBVIOUS
    <3> QED BY <2>2, <3>1, OneCopy
  <2> QED
    BY <1>1, <1>2, <1>5, <2>1, <2>3, <2>4, TakesLogin
    DEF Authenticates, ClientStill, Orderly, Owed, Entered, Uncut, OneAsked, Busy,
        Gone, Listening, LoggingIn, Takes
<1>6. CASE HangsUp
  <2>1. replies \in Seq({Greeted}) /\ replies # <<>> => Head(replies) # UserOkay
    <3>1. replies \in Seq({Greeted}) /\ replies # <<>> => Head(replies) = Greeted
      OBVIOUS
    <3> QED BY <3>1, CodesDiffer
  <2> QED
    BY <1>1, <1>2, <1>6, <2>1
    DEF HangsUp, ClientStill, Orderly, Owed, Entered, Uncut, OneAsked, Busy, Gone,
        Listening, LoggingIn
<1>7. Greet \/ Refuses \/ Authenticates \/ HangsUp
  BY <1>2, TakesLogin
  DEF Server, Executes, Listens, Transfers, SendsData, EndsTransfer, SaysGoodbye
<1> QED BY <1>3, <1>4, <1>5, <1>6, <1>7

(* After the login it answers the command the client waits for.            *)
LEMMA ServerAnswers ==
  ASSUME IInv, Orderly, Server, ~Over, pc \notin LoggingIn
  PROVE  Orderly'
<1>1. ClientStill
  BY DEF Server, ClientStill
<1>2. pc' \notin {"greeting", "USER", "PASS", "drain"}
  BY <1>1 DEF ClientStill, LoggingIn
<1>3. ~(clientSD = "open" /\ Greet) /\ ~Authenticates
  <2>1. ~(clientSD = "open" /\ Greet)
    BY DEF Greet, Over, IInv, TypeOK, Commands, Unopened, LoggingIn, Admitted,
           Working, LoggedInOrGone
  <2>2. ~Authenticates
    BY TakesIt DEF Authenticates, LoggingIn
  <2> QED BY <2>1, <2>2
<1>4. CASE Refuses
  <2>1. PICK d, c : Takes(d) /\ Reply(c) /\ c \in {NotLoggedIn, NotTaken}
    BY <1>4 DEF Refuses
  <2>2. c # Passive
    BY <2>1, CodesDiffer
  <2> QED
    BY <1>1, <1>2, <1>4, <2>1, <2>2, TakesIt, AnswersIt
    DEF Refuses, ClientStill, Orderly, Owed, Entered, Uncut, Gone, Listening, Quiet,
        OneAsked, TwoAsked, OneLeft, Busy, Commands, Takes
<1>5. CASE Executes
  <2>1. PICK d \in {"SYST", "TYPE", "CWD"}, c \in Codes : Takes(d) /\ Reply(c)
    BY <1>5, CodesKnown DEF Executes
  <2> QED
    BY <1>1, <1>2, <1>5, <2>1, TakesIt, AnswersIt
    DEF Executes, ClientStill, Orderly, Owed, Entered, Uncut, Gone, Listening,
        OneAsked, Busy, Takes
<1>6. CASE Listens
  BY <1>1, <1>2, <1>6, TakesIt, AnswersIt
  DEF Listens, ClientStill, Orderly, Owed, Entered, Uncut, Gone, Listening, OneAsked,
      Busy, Takes
<1>7. CASE Transfers
  <2>1. PICK d \in {"LIST", "RETR", "STOR"} :
          /\ Takes(d)
          /\ \/ Reply(FileStatusOkay)
             \/ Reply(NoDataConnection) /\ UNCHANGED transfer
    BY <1>7 DEF Transfers
  <2> QED
    BY <1>1, <1>2, <1>7, <2>1, TakesIt, AnswersIt
    DEF Transfers, ClientStill, Orderly, Owed, Entered, Uncut, Gone, Listening,
        TwoAsked, Busy, Takes
<1>8. CASE SendsData(passiveSD)
  BY <1>1, <1>2, <1>8
  DEF SendsData, ClientStill, Orderly, Owed, Entered, Uncut, Gone, Listening, Quiet,
      OneAsked, TwoAsked, OneLeft, Busy, control
<1>9. CASE EndsTransfer(passiveSD)
  <2>1. PICK c : Reply(c) /\ Busy /\ transfer' = "none"
    BY <1>9 DEF EndsTransfer, Busy
  <2>2. \/ pc \in {"LIST", "RETR", "STOR"} /\ replies = <<FileStatusOkay>>
        \/ /\ pc \in {"wait", "listed"} /\ replies = <<>>
           /\ ~(pc = "wait" /\ child = "exited" /\ op # "ls")
    BY <1>9, <2>1
    DEF Over, IInv, TypeOK, Commands, Entering, LoggingIn, Orderly, Owed, Entered,
        Uncut, Quiet, OneAsked, TwoAsked, OneLeft, Busy
  <2>3. requests = <<>>
    BY <2>1, <2>2 DEF Orderly, Owed, Entered, Uncut, TwoAsked, OneLeft
  <2>4. CASE pc \in {"LIST", "RETR", "STOR"} /\ replies = <<FileStatusOkay>>
    <3>1. Len(replies') = 2 /\ Head(replies') = FileStatusOkay
      BY <2>1, <2>4 DEF Reply
    <3> QED
      BY <1>1, <1>2, <1>9, <2>1, <2>3, <2>4, <3>1
      DEF EndsTransfer, ClientStill, Orderly, Owed, Entered, Uncut, Gone, Listening,
          TwoAsked, Busy
  <2>5. CASE pc \in {"wait", "listed"} /\ replies = <<>>
    <3>1. Len(replies') = 1
      BY <2>1, <2>5 DEF Reply
    <3> QED
      BY <1>1, <1>2, <1>9, <2>1, <2>2, <2>3, <2>5, <3>1
      DEF EndsTransfer, ClientStill, Orderly, Owed, Entered, Uncut, Gone, Listening,
          OneLeft, Busy
  <2> QED BY <2>2, <2>4, <2>5
<1>10. CASE SaysGoodbye
  BY <1>1, <1>2, <1>10, TakesIt, AnswersIt
  DEF SaysGoodbye, ClientStill, Orderly, Owed, Entered, Uncut, Gone, Listening,
      OneAsked, Busy, Takes
<1>11. CASE clientSD = "open" /\ HangsUp
  BY <1>1, <1>2, <1>11
  DEF HangsUp, ClientStill, Orderly, Owed, Entered, Uncut, Gone, Listening, Quiet,
      OneAsked, TwoAsked, OneLeft, Busy
<1> QED
  BY <1>3, <1>4, <1>5, <1>6, <1>7, <1>8, <1>9, <1>10, <1>11 DEF Server

LEMMA ServerOrderly ==
  ASSUME IInv, Orderly, Server
  PROVE  Orderly'
<1>1. CASE Over
  <2>1. ClientStill
    BY DEF Server, ClientStill
  <2> QED
    BY <1>1, <2>1 DEF ClientStill, Over, Orderly, Owed, Entered, Uncut, Gone, Listening
<1>2. CASE pc \in LoggingIn
  BY <1>2, ServerEnters
<1>3. CASE ~Over /\ pc \notin LoggingIn
  BY <1>3, ServerAnswers
<1> QED BY <1>1, <1>2, <1>3

-----------------------------------------------------------------------------
LEMMA InitOrderly == Init => Orderly
  BY DEF Init, ServerInit, Orderly, Owed, Entered, Uncut, Quiet, Busy, Gone, Listening

LEMMA StepOrderly ==
  ASSUME IInv, abandoned \/ Orderly, [Next]_vars
  PROVE  abandoned' \/ Orderly'
<1>1. CASE abandoned
  BY <1>1
  DEF Next, Parent, Connect, ConnectFails, GreetingRead, UserRead, PassRead, Drain,
      DrainEnd, SystRead, ListForkFails, TransferForkFails, LoginFails, CwdRead,
      PasvRead, ListRead, Waited, ListedRead, TypeRead, RetrRead, StorRead,
      ForkTransfer, ReceiveFileFails, NoTransfer, QuitRead, Destroy, User, Open,
      NoCommand, EmptyLine, NoFileName, NotConnected, Operate, PutNoFile,
      OperateClosed, Quit, Child, ChildReads, ChildEnds, ChildConverts, Server,
      Finished, vars, history
<1>2. CASE Orderly
  <2>1. CASE Parent
    BY <1>2, <2>1, ConnectOrderly, GreetingOrderly, UserOrderly, PassOrderly,
       DrainOrderly, SystOrderly, LoginFailsOrderly, CwdOrderly, PasvOrderly,
       ListOrderly, ListedOrderly, WaitedOrderly, TypeOrderly, TransferOrderly,
       ForkFailsOrderly, QuitReadOrderly
    DEF Parent
  <2>2. CASE User
    BY <1>2, <2>2, PromptOrderly, OperateOrderly, OperateClosedOrderly, QuitOrderly
    DEF User
  <2>3. CASE Child
    BY <1>2, <2>3, ChildOrderly DEF Child
  <2>4. CASE Server
    BY <1>2, <2>4, ServerOrderly
  <2>5. CASE Finished \/ UNCHANGED vars
    BY <1>2, <2>5
    DEF Finished, vars, control, data, Orderly, Owed, Entered, Uncut, Quiet, OneAsked,
        TwoAsked, OneLeft, Busy, Gone, Listening
  <2> QED BY <2>1, <2>2, <2>3, <2>4, <2>5 DEF Next
<1> QED BY <1>1, <1>2

LEMMA OrderlyInvariance == Spec => [](IInv /\ (abandoned \/ Orderly))
<1>1. Init => abandoned \/ Orderly
  BY InitOrderly
<1>2. IInv /\ (abandoned \/ Orderly) /\ [Next]_vars => (abandoned \/ Orderly)'
  BY StepOrderly
<1> QED BY <1>1, <1>2, Invariance, PTL DEF Spec

LEMMA InStepFollows == abandoned \/ Orderly => InStep
  BY DEF Orderly, Owed, Quiet, InStep

(* Every operation reads the replies to its own commands and no others:    *)
(* whatever is refused, however replies come together, whether or not a    *)
(* child can be had, and whenever the server hangs up, until a get gives   *)
(* up on its local file or a login that came in pieces more than a second  *)
(* apart has left one unread (FTPClient.cpp:76-84, 153-158, 367-398,       *)
(* 504-520).                                                               *)
THEOREM InStepCorrect == Spec => []InStep
  BY OrderlyInvariance, InStepFollows, PTL

-----------------------------------------------------------------------------
(* What brings the client down.                                            *)

ThreeWords == Wordings \subseteq {3}

LEMMA Joined ==
  ASSUME NEW s \in Seq(Nat), NEW t \in Seq(Nat)
  PROVE  /\ s \o t \in Seq(Nat)
         /\ Len(s \o t) = Len(s) + Len(t)
         /\ \A i \in 1 .. Len(s) : (s \o t)[i] = s[i]
         /\ \A i \in 1 .. Len(t) : (s \o t)[Len(s) + i] = t[i]
  OBVIOUS

(* The port stands in the ninth and tenth of eleven tokens.                *)
LEMMA PortFound == PortRead(PassiveReply(3))
<1> DEFINE w == [i \in 1 .. 3 |-> 0]
           p == <<Passive>>
           v == p \o w
           a == <<10, 0, 0, 1, 200, 21>>
           e == <<0>>
<1>1. w \in Seq(Nat) /\ Len(w) = 3 /\ p \in Seq(Nat) /\ Len(p) = 1
  BY DEF Passive
<1>2. a \in Seq(Nat) /\ Len(a) = 6 /\ a[5] = 200 /\ a[6] = 21
  OBVIOUS
<1>3. e \in Seq(Nat) /\ Len(e) = 1
  OBVIOUS
<1>4. PassiveReply(3) = (v \o a) \o e
  BY DEF PassiveReply
<1> HIDE DEF w, p, a, e
<1>5. v \in Seq(Nat) /\ Len(v) = 4
  <2>1. v \in Seq(Nat) /\ Len(v) = Len(p) + Len(w)
    BY <1>1, Joined
  <2> QED BY <1>1, <2>1
<1> HIDE DEF v
<1> DEFINE u == v \o a
<1>6. u \in Seq(Nat) /\ Len(u) = 10 /\ u[9] = 200 /\ u[10] = 21
  <2>1. /\ u \in Seq(Nat) /\ Len(u) = Len(v) + Len(a)
        /\ \A i \in 1 .. Len(a) : u[Len(v) + i] = a[i]
    <3>1. v \in Seq(Nat) /\ a \in Seq(Nat)
      BY <1>2, <1>5
    <3> QED BY <3>1, Joined
  <2>2. 5 \in 1 .. Len(a) /\ 6 \in 1 .. Len(a)
    BY <1>2
  <2>3. u[Len(v) + 5] = a[5] /\ u[Len(v) + 6] = a[6]
    BY <2>1, <2>2
  <2> HIDE DEF u
  <2> QED BY <1>2, <1>5, <2>1, <2>3
<1> HIDE DEF u
<1> DEFINE t == u \o e
<1>7. Len(t) = 11 /\ t[9] = 200 /\ t[10] = 21
  <2>1. Len(t) = Len(u) + Len(e) /\ \A i \in 1 .. Len(u) : t[i] = u[i]
    <3>1. u \in Seq(Nat) /\ e \in Seq(Nat)
      BY <1>3, <1>6
    <3> QED BY <3>1, Joined
  <2> HIDE DEF t
  <2> QED BY <1>3, <1>6, <2>1
<1>8. t = PassiveReply(3)
  BY <1>4 DEF u
<1> HIDE DEF t
<1>9. 11 > 2 * Turns /\ 2 * Turns - 1 = 9 /\ 2 * Turns = 10
  BY DEF Turns
<1> QED BY ZenonT(60), <1>7, <1>8, <1>9 DEF PortRead, ListenPort

LEMMA LostFollows ==
  ASSUME ThreeWords, IInv, abandoned \/ Orderly, LostOnlyAfterClosing, [Next]_vars
  PROVE  LostOnlyAfterClosing'
<1>1. CASE PasvRead
  <2>1. CASE replies = <<>> \/ session = "closed" \/ abandoned
    BY <1>1, <2>1 DEF PasvRead, ConvertCode, Readable, LostOnlyAfterClosing, history
  <2>2. CASE replies # <<>> /\ session # "closed" /\ ~abandoned
    <3>1. ftpCode' = Head(replies)
      BY <1>1, <2>2 DEF PasvRead, ConvertCode, Converted
    <3>2. ftpCode' = Passive => transfer = "listening"
      BY <1>1, <2>2, <3>1 DEF PasvRead, Orderly, Listening
    <3>3. \A words \in Wordings : PortRead(PassiveReply(words))
      BY PortFound DEF ThreeWords
    <3>4. AfterPassive
      BY <1>1, <3>2, <3>3 DEF PasvRead
    <3>5. pc' # "lost"
      BY <2>2, <3>4, Sending DEF AfterPassive
    <3> QED BY <3>5 DEF LostOnlyAfterClosing
  <2> QED BY <2>1, <2>2
<1>2. CASE Parent /\ ~PasvRead
  BY <1>2, Sending
  DEF Parent, Connect, ConnectFails, GreetingRead, UserRead, PassRead, Drain,
      DrainEnd, SystRead, ListForkFails, TransferForkFails, LoginFails, CloseClientSD,
      CwdRead, ListRead, Waited, ListedRead, TypeRead, RetrRead, StorRead,
      ForkTransfer, ReceiveFileFails, NoTransfer, QuitRead, Destroy, Back,
      LostOnlyAfterClosing, history, control
<1>3. CASE User
  BY <1>3, Sending
  DEF User, Open, NoCommand, EmptyLine, NoFileName, NotConnected, Operate,
      FirstCommand, PutNoFile, OperateClosed, Quit, Ask, Back, DataOperations,
      LostOnlyAfterClosing, history, control
<1>4. CASE Child \/ Finished \/ UNCHANGED vars
  BY <1>4
  DEF Child, ChildReads, ChildEnds, ChildConverts, Finished, vars,
      LostOnlyAfterClosing, history, control
<1>5. CASE Server
  BY <1>5
  DEF Server, Greet, Refuses, Authenticates, Executes, Listens, Transfers, SendsData,
      EndsTransfer, SaysGoodbye, HangsUp, Takes, LostOnlyAfterClosing, history,
      control
<1> QED BY <1>1, <1>2, <1>3, <1>4, <1>5 DEF Next

(* If a 227 has three words before its address, only a closed control      *)
(* connection, a reply left unread or an empty line, at the prompt or for  *)
(* the name of a remote file, can make the client crash or connect for     *)
(* ever (FTPClient.cpp:112-117, 256-261, 401-408, 451-480).                *)
THEOREM LostCorrect == ThreeWords /\ Spec => []LostOnlyAfterClosing
<1> SUFFICES ASSUME ThreeWords PROVE Spec => []LostOnlyAfterClosing
  OBVIOUS
<1>1. Init => LostOnlyAfterClosing
  BY DEF Init, LostOnlyAfterClosing
<1>2. IInv /\ (abandoned \/ Orderly) /\ LostOnlyAfterClosing /\ [Next]_vars
        => LostOnlyAfterClosing'
  BY LostFollows
<1>3. Spec => [](IInv /\ (abandoned \/ Orderly))
  BY OrderlyInvariance
<1> QED BY <1>1, <1>2, <1>3, PTL DEF Spec

-----------------------------------------------------------------------------
(* What cd returns.                                                        *)

(* serverReply reads until nothing comes for a second, so a server that    *)
(* may need longer must not send its greeting or its answer to the login   *)
(* in pieces (FTPClient.cpp:76-84, 367-398).                               *)
Drained == Slow => Pieces \subseteq {1}

(* Then the login leaves nothing unread.                                   *)
LEMMA DrainedWhole == Drained /\ Orderly /\ DrainEnd /\ ~abandoned => ~abandoned'
  BY DEF Drained, Orderly, Owed, Uncut, DrainEnd

(* The connection stays: the server does not hang up, the user does not    *)
(* close it before quitting, and no get gives up on its local file.        *)
StaysConnected ==
  /\ ~MayHangUp
  /\ "close" \notin Operations
  /\ "get" \notin LocalFails

Staying ==
  /\ ~abandoned
  /\ pc = "QUIT" => op = "quit"
  /\ ~Over /\ pc # "QUIT" =>
       session # "closed" /\ (openConnection => clientSD = "open")

(* cd has told of every change of directory but the one whose 250 it has   *)
(* still to read.                                                          *)
Counting ==
  ~Over =>
    done = IF pc = "CWD" /\ replies # <<>> /\ Head(replies) = FileActionOkay
             THEN told + 1 ELSE told

(* Only quit sends QUIT, so the server says goodbye to nobody else.         *)
LEMMA StayingKeeps ==
  ASSUME Drained, StaysConnected, IInv, Orderly, Staying, [Next]_vars
  PROVE  Staying'
<1>1. CASE Parent
  BY <1>1, Sending, DrainedWhole
  DEF Parent, Connect, ConnectFails, GreetingRead, UserRead, PassRead, Drain,
      DrainEnd, SystRead, ListForkFails, TransferForkFails, LoginFails, CloseClientSD,
      GetClientSocket, CwdRead, PasvRead, AfterPassive, ListRead, Waited, ListedRead,
      TypeRead, RetrRead, StorRead, ForkTransfer, ReceiveFileFails, NoTransfer,
      QuitRead, Destroy, Back, Staying, StaysConnected, Over, IInv, Unopened,
      Entering, Admitted, Working, LoggingIn, history, control, flags
<1>2. CASE User
  BY <1>2, Sending
  DEF User, Open, NoCommand, EmptyLine, NoFileName, NotConnected, Operate,
      FirstCommand, PutNoFile, OperateClosed, Quit, Ask, Back, DataOperations,
      Staying, StaysConnected, Over, IInv, Unopened, history, control, flags
<1>3. CASE Child \/ Finished \/ UNCHANGED vars
  BY <1>3
  DEF Child, ChildReads, ChildEnds, ChildConverts, Finished, vars, Staying, Over,
      history, control, flags
<1>4. CASE Server
  <2>1. ~Over => (SaysGoodbye => pc = "QUIT")
    BY TakesOwn DEF SaysGoodbye
  <2> QED
    BY <1>4, <2>1
    DEF Server, Greet, Refuses, Authenticates, Executes, Listens, Transfers,
        SendsData, EndsTransfer, SaysGoodbye, HangsUp, Takes, Staying, StaysConnected,
        Over, history, control, flags
<1> QED BY <1>1, <1>2, <1>3, <1>4 DEF Next

(* The server changes the directory when it takes the CWD that cd waits    *)
(* for, and answers 250 to nothing else of cd.                             *)
LEMMA ServerCounts ==
  ASSUME StaysConnected, IInv, Orderly, Counting, Staying, Server
  PROVE  Counting'
<1>1. ClientStill
  BY DEF Server, ClientStill
<1>2. CASE Over
  BY <1>1, <1>2 DEF ClientStill, Over, Counting
<1>3. CASE ~Over /\ Executes /\ Takes("CWD")
  <2>1. pc = "CWD" /\ replies = <<>> /\ pc \notin LoggingIn
    BY <1>3, TakesOwn, TakesIt DEF LoggingIn
  <2>2. Head(requests) = "CWD"
    BY <1>3 DEF Takes
  <2>3. Reply(FileActionOkay) /\ done' = done + 1
    BY <1>3, <2>2 DEF Executes, Takes
  <2>4. replies' # <<>> /\ Head(replies') = FileActionOkay
    <3>1. Len(<<>>) = 0
      OBVIOUS
    <3> QED BY <1>3, <2>1, <2>3, <3>1, AnswersIt
  <2> QED BY <1>1, <1>3, <2>1, <2>3, <2>4 DEF ClientStill, Counting, Over, history
<1>4. CASE ~Over /\ pc = "CWD" /\ ~(Executes /\ Takes("CWD"))
  <2>1. ~Busy /\ session # "none"
    BY <1>4 DEF Orderly, Owed, OneAsked, IInv, Admitted, Working, LoggedInOrGone
  <2>2. \A d : Takes(d) => d = "CWD" /\ replies = <<>>
    BY <1>4, TakesIt DEF LoggingIn
  <2>3. Refuses
    BY <1>4, <2>1, <2>2
    DEF Server, Greet, Authenticates, Executes, Listens, Transfers, SendsData,
        EndsTransfer, SaysGoodbye, HangsUp, StaysConnected, Busy
  <2>4. PICK d, c : Takes(d) /\ Reply(c) /\ c \in {NotLoggedIn, NotTaken}
    BY <2>3 DEF Refuses
  <2>5. Head(replies') = c /\ c # FileActionOkay
    BY <1>4, <2>4, AnswersIt, CodesDiffer DEF LoggingIn
  <2> QED
    BY <1>1, <1>4, <2>2, <2>3, <2>4, <2>5
    DEF ClientStill, Counting, Over, Refuses, history
<1>5. CASE ~Over /\ pc # "CWD"
  <2>1. \A d : Takes(d) => d # "CWD"
    BY <1>5, TakesOwn
  <2> QED
    BY <1>1, <1>5, <2>1
    DEF Server, Greet, Refuses, Authenticates, Executes, Listens, Transfers,
        SendsData, EndsTransfer, SaysGoodbye, HangsUp, ClientStill, Counting, Over,
        history
<1> QED BY <1>2, <1>3, <1>4, <1>5

(* cd reads the reply to its own CWD, for there is always one to read.     *)
LEMMA CwdCounts ==
  ASSUME IInv, Orderly, Staying, Counting, CwdRead
  PROVE  Counting'
<1>1. replies # <<>> /\ ftpCode' = Head(replies)
  BY DEF CwdRead, ConvertCode, Converted, Readable, Staying, Over
<1> QED BY <1>1 DEF CwdRead, Counting, Over, data, served, IInv, TypeOK, ServerTypeOK

(* Nobody else changes the directory, or tells of it.                      *)
LEMMA CountingKeeps ==
  ASSUME StaysConnected, IInv, Orderly, Staying, Counting, [Next]_vars
  PROVE  Counting'
<1>1. CASE Parent /\ ~CwdRead
  BY <1>1, Sending
  DEF Parent, Connect, ConnectFails, GreetingRead, UserRead, PassRead, Drain,
      DrainEnd, SystRead, ListForkFails, TransferForkFails, LoginFails, CloseClientSD,
      GetClientSocket, PasvRead, AfterPassive, ListRead, Waited, ListedRead, TypeRead,
      RetrRead, StorRead, ForkTransfer, ReceiveFileFails, NoTransfer, QuitRead,
      Destroy, Back, Counting, Over, history, data, served
<1>2. CASE CwdRead
  BY <1>2, CwdCounts
<1>3. CASE User
  BY <1>3, Sending
  DEF User, Open, NoCommand, EmptyLine, NoFileName, NotConnected, Operate,
      FirstCommand, PutNoFile, OperateClosed, Quit, Ask, Back, DataOperations,
      Counting, Staying, Over, Orderly, Owed, Quiet, history, data, served
<1>4. CASE Child
  <2>1. ChildConverts => pc # "CWD"
    BY DEF ChildConverts, IInv, Family
  <2> QED
    BY <1>4, <2>1
    DEF Child, ChildReads, ChildEnds, ChildConverts, Counting, Over, history, data,
        served, control
<1>5. CASE Finished \/ UNCHANGED vars
  BY <1>5 DEF Finished, vars, Counting, Over, history, data, served, control
<1>6. CASE Server
  BY <1>6, ServerCounts
<1> QED BY <1>1, <1>2, <1>3, <1>4, <1>5, <1>6 DEF Next

LEMMA CdFollows == Counting => CdTruthful
  BY DEF Counting, Over, CdTruthful

(* If the login is read to its end and the connection stays, cd returns    *)
(* true as often as the server changed the directory: whichever CWD it     *)
(* refuses, however replies come together, and whatever is done in between *)
(* (FTPClient.cpp:204-212).                                                *)
THEOREM CdCorrect == Drained /\ StaysConnected /\ Spec => []CdTruthful
<1> SUFFICES ASSUME Drained, StaysConnected PROVE Spec => []CdTruthful
  OBVIOUS
<1>1. Init => Staying /\ Counting
  BY DEF Init, ServerInit, Staying, Counting, Over
<1>2. IInv /\ (abandoned \/ Orderly) /\ Staying /\ Counting /\ [Next]_vars
        => (Staying /\ Counting)'
  BY StayingKeeps, CountingKeeps DEF Staying
<1>3. Spec => [](IInv /\ (abandoned \/ Orderly))
  BY OrderlyInvariance
<1> QED BY <1>1, <1>2, <1>3, CdFollows, PTL DEF Spec

-----------------------------------------------------------------------------
(* Nobody waits for ever.                                                  *)

(* What it takes: replies that come one at a time, a server that listens   *)
(* and lists when asked to, local files get can create, and data that fits *)
(* on the connection or is read by a client that waits for it              *)
(* (FTPClient.cpp:150-178, 304-321, 367-398).                              *)
Obliging ==
  /\ ~Coalesce
  /\ MayRefuse \intersect {"PASV", "LIST"} = {}
  /\ "get" \notin LocalFails
  /\ Sizes \subseteq 0 .. Buffer \/ (~Slow /\ "get" \notin Operations)

(* Who is where, more of it.                                               *)
Placed ==
  /\ ~abandoned
  /\ pc = "RETR" => op = "get"
  /\ pc = "STOR" => op = "put"
  /\ op = "get" => "get" \in Operations
  /\ pc \in {"LIST", "wait"} => child # "none"
  /\ child = "data" => passiveSD = "open" \/ session = "closed"
  /\ child = "spins" => session = "closed"

(* What the server has begun for the command the client waits for.         *)
Started ==
  /\ pc = "PASV" /\ session # "closed" /\ replies # <<>> => Head(replies) = Passive
  /\ pc = "LIST" /\ session # "closed" =>
       IF requests # <<>> THEN transfer = "ready" ELSE Head(replies) = FileStatusOkay
  /\ pc \in {"LIST", "RETR", "STOR"} /\ session # "closed" /\ requests = <<>> =>
       /\ replies # <<>>
       /\ Head(replies) = FileStatusOkay => Busy \/ Len(replies) = 2

(* A reply the client waits for is there, or somebody is to send it.       *)
Due ==
  /\ pc = "greeting" => session \in {"none", "closed"} \/ replies # <<>>
  /\ pc \in {"USER", "PASS", "SYST", "CWD", "PASV", "TYPE", "QUIT"} =>
       session = "closed" \/ requests # <<>> \/ replies # <<>>
  /\ pc = "listed" \/ (pc = "wait" /\ ~(child = "exited" /\ op # "ls")) =>
       session = "closed" \/ replies # <<>> \/ Busy

(* Files come in only where put is about to end them. What goes out fits   *)
(* on the connection, ...                                                  *)
Fitting ==
  /\ transfer = "in" =>
       Over \/ pc = "STOR" \/ (pc = "wait" /\ op = "put" /\ passiveSD = "shut")
  /\ transfer = "ready" => unread = 0
  /\ Sizes \subseteq 0 .. Buffer /\ transfer = "out" => unread + left <= Buffer

(* ... or the child of ls reads it to its end.                             *)
Paced ==
  ~Slow /\ "get" \notin Operations =>
    /\ pc = "LIST" /\ session # "closed" /\ requests # <<>> => child # "exited"
    /\ transfer = "out" /\ ~Over => op = "ls" /\ child # "exited" /\ pc # "listed"

Moving == Placed /\ Started /\ Due /\ Fitting /\ Paced

LEMMA MovingEnough ==
  ASSUME Obliging, IInv, Orderly, Moving
  PROVE  NeverStuck
<1> SUFFICES ASSUME pc \notin {"prompt", "exited", "lost"} PROVE NeverStuck
  BY DEF NeverStuck
<1>1. pc \in Commands \union {"connect", "greeting", "drain", "fail", "wait",
                              "listed", "ended"}
  BY DEF IInv, TypeOK
<1>2. unread \in Nat /\ left \in Nat /\ Buffer \in Nat /\ Buffer > 0
  BY ConstantsType DEF IInv, TypeOK, ServerTypeOK
<1>3. CASE pc \in {"connect", "drain", "fail", "ended"}
  BY <1>3 DEF NeverStuck, ParentGoesOn, Commands
<1>4. CASE pc # "wait" /\ Readable
  BY <1>4 DEF NeverStuck, ParentGoesOn
<1>5. CASE pc = "greeting" /\ ~Readable
  <2>1. session = "none" /\ clientSD = "open"
    BY <1>5 DEF Readable, Moving, Due, IInv, Entering, LoggingIn
  <2> QED BY <2>1 DEF NeverStuck, ServerGoesOn
<1>6. CASE pc \in Commands /\ ~Readable
  <2>1. session \in {"greeted", "loggedIn"}
    BY <1>6
    DEF Commands, Readable, IInv, TypeOK, ServerTypeOK, Entering, Admitted, LoggingIn,
        Working, LoggedInOrGone
  <2>2. requests # <<>>
    BY <1>6 DEF Commands, Readable, Moving, Due, Started
  <2>3. ~Busy
    BY <1>6, <2>2
    DEF Commands, IInv, Entering, LoggingIn, Orderly, Owed, OneAsked, TwoAsked, Busy
  <2> QED BY <2>1, <2>2, <2>3 DEF NeverStuck, ServerGoesOn, Busy
<1>7. ASSUME transfer = "out", pc \in {"wait", "listed"},
             unread = 0 \/ pc = "listed" \/ child = "reply"
      PROVE  ServerGoesOn
  <2>1. left = 0 \/ unread < Buffer
    <3>1. CASE Sizes \subseteq 0 .. Buffer
      BY <1>2, <1>7, <3>1 DEF Moving, Fitting
    <3>2. CASE ~Slow /\ "get" \notin Operations
      <4>1. ~Over /\ (child = "reply" => op # "ls")
        BY <1>7 DEF Over, IInv, Family
      <4> QED BY <1>2, <1>7, <3>2, <4>1 DEF Moving, Paced
    <3> QED BY <3>1, <3>2 DEF Obliging
  <2> QED BY <1>7, <2>1 DEF ServerGoesOn
<1>8. CASE pc = "listed" /\ ~Readable
  <2>1. Busy
    BY <1>8 DEF Readable, Moving, Due
  <2>2. transfer # "in"
    BY <1>8 DEF Over, Moving, Fitting
  <2> QED BY <1>7, <1>8, <2>1, <2>2 DEF Busy, NeverStuck
<1>9. CASE pc = "wait"
  <2>1. CASE child = "exited"
    BY <1>9, <2>1 DEF Commands, NeverStuck, ParentGoesOn
  <2>2. CASE child = "spins"
    BY <2>2 DEF Moving, Placed, NeverStuck
  <2>3. CASE child = "data" /\ ~ChildGoesOn
    <3>1. unread = 0 /\ transfer = "out"
      BY <1>2, <1>9, <2>3 DEF ChildGoesOn, Silent
    <3> QED BY <1>7, <1>9, <3>1 DEF NeverStuck
  <2>4. CASE child = "reply" /\ ~ChildGoesOn
    <3>1. Busy
      BY <1>9, <2>4 DEF ChildGoesOn, Readable, Moving, Due
    <3>2. CASE transfer = "out"
      BY <1>7, <1>9, <2>4, <3>2 DEF NeverStuck
    <3>3. CASE transfer = "in"
      BY <1>9, <3>3 DEF Moving, Fitting, Over, NeverStuck, ServerGoesOn
    <3> QED BY <3>1, <3>2, <3>3 DEF Busy
  <2>5. child \in {"data", "reply", "spins", "exited"}
    BY <1>9 DEF IInv, TypeOK, Moving, Placed
  <2> QED BY <2>1, <2>2, <2>3, <2>4, <2>5 DEF NeverStuck
<1> QED BY <1>1, <1>3, <1>4, <1>5, <1>6, <1>8, <1>9

(* While a transfer runs, the server has answered 150 and no more.         *)
LEMMA NotQuiet ==
  ASSUME IInv, Orderly, Busy, ~Over
  PROVE  /\ requests = <<>>
         /\ \/ pc \in {"LIST", "RETR", "STOR"} /\ replies = <<FileStatusOkay>>
            \/ /\ pc \in {"wait", "listed"} /\ replies = <<>>
               /\ ~(pc = "wait" /\ child = "exited" /\ op # "ls")
  BY DEF Over, IInv, TypeOK, Commands, Entering, LoggingIn, Orderly, Owed, Quiet,
         OneAsked, TwoAsked, OneLeft, Busy

(* A read takes one reply and no more.                                     *)
LEMMA OneTaken ==
  ASSUME Obliging, IInv, ReadSome, replies # <<>>
  PROVE  Len(replies') = Len(replies) - 1 /\ Len(replies) \in Nat
<1>1. replies \in Seq(Codes)
  BY DEF IInv, TypeOK, ServerTypeOK
<1>2. PICK n \in 1 .. 1 : replies' = SubSeq(replies, n + 1, Len(replies))
  BY DEF ReadSome, Obliging
<1>3. n \in 1 .. Len(replies) /\ Len(replies) \in Nat
  BY <1>1
<1>4. Len(replies') = Len(replies) - n
  <2>1. \A k \in 1 .. Len(replies) :
          Len(SubSeq(replies, k + 1, Len(replies))) = Len(replies) - k
    BY <1>1
  <2> QED BY <1>2, <1>3, <2>1
<1> QED BY <1>3, <1>4

(* passive gets a 227, unless the server has gone.                         *)
LEMMA PasvAnswered ==
  ASSUME IInv, Orderly, Moving, PasvRead, session # "closed", pc' # "lost"
  PROVE  /\ transfer' = "ready" /\ unread' = 0 /\ passiveSD' = "open"
         /\ pc' = IF op = "ls" THEN "LIST" ELSE "TYPE"
         /\ requests' = <<pc'>>
         /\ child' = IF op = "ls" THEN "data" ELSE child
<1>1. ftpCode' = Passive
  BY DEF PasvRead, ConvertCode, Readable, Converted, Moving, Started
<1>2. AfterPassive /\ transfer' = "ready" /\ unread' = 0 /\ passiveSD' = "open"
  BY <1>1 DEF PasvRead
<1>3. requests = <<>>
  BY OneRead DEF PasvRead
<1> QED BY <1>2, <1>3, Asking DEF AfterPassive

-----------------------------------------------------------------------------
LEMMA PlacedKeeps ==
  ASSUME Drained, Obliging, IInv, Orderly, Moving, [Next]_vars
  PROVE  Placed'
<1>1. CASE PasvRead
  <2>1. pc = "PASV" /\ op' = op /\ session' = session /\ abandoned' = abandoned
    BY <1>1 DEF PasvRead, history
  <2>2. pc' \in {"LIST", "TYPE", "lost"} /\ (pc' = "LIST" => child' = "data")
    BY <1>1, Sending DEF PasvRead, AfterPassive
  <2>3. child \notin {"data", "spins"} /\ child' \in {child, "data"}
    BY <1>1, <2>1 DEF PasvRead, AfterPassive, IInv, Family
  <2>4. child' = "data" /\ session # "closed" => pc' # "lost"
    BY <1>1, <2>3, Sending DEF PasvRead, AfterPassive
  <2>5. child' = "data" /\ session # "closed" => passiveSD' = "open"
    BY <1>1, <2>4, PasvAnswered
  <2> QED BY <2>1, <2>2, <2>3, <2>5 DEF Moving, Placed
<1>2. CASE Parent /\ ~PasvRead
  BY <1>2, Sending, DrainedWhole
  DEF Parent, Connect, ConnectFails, GreetingRead, UserRead, PassRead, Drain,
      DrainEnd, SystRead, ListForkFails, TransferForkFails, LoginFails, CloseClientSD,
      GetClientSocket, CwdRead, ListRead, Waited, ListedRead, TypeRead, RetrRead,
      StorRead, ForkTransfer, ReceiveFileFails, NoTransfer, QuitRead, Destroy, Back,
      Obliging, Moving, Placed, IInv, Family, history, control, data
<1>3. CASE User
  BY <1>3, Sending
  DEF User, Open, NoCommand, EmptyLine, NoFileName, NotConnected, Operate,
      FirstCommand, PutNoFile, OperateClosed, Quit, Ask, Back, DataOperations, Moving,
      Placed, IInv, Family, history, control, data
<1>4. CASE Child \/ Finished \/ UNCHANGED vars
  BY <1>4
  DEF Child, ChildReads, ChildEnds, ChildConverts, Finished, vars, Moving, Placed,
      history, control, data
<1>5. CASE Server
  BY <1>5
  DEF Server, Greet, Refuses, Authenticates, Executes, Listens, Transfers, SendsData,
      EndsTransfer, SaysGoodbye, HangsUp, Takes, Moving, Placed, history, control
<1> QED BY <1>1, <1>2, <1>3, <1>4, <1>5 DEF Next

(* A command goes out on a quiet connection, and the server answers it, or *)
(* the other end is gone.                                                  *)
LEMMA StartedKeeps ==
  ASSUME Obliging, IInv, Orderly, Moving, [Next]_vars
  PROVE  Started'
<1>1. CASE PasvRead
  <2>1. pc' \in {"LIST", "TYPE", "lost"} /\ session' = session
    BY <1>1, Sending DEF PasvRead, AfterPassive
  <2>2. pc' = "LIST" /\ session # "closed" => requests' # <<>> /\ transfer' = "ready"
    BY <1>1, PasvAnswered
  <2> QED BY <2>1, <2>2 DEF Started
<1>2. CASE TypeRead
  <2>1. pc' \in {"RETR", "STOR", "prompt", "lost"} /\ session' = session
    BY <1>2, Sending DEF TypeRead
  <2>2. pc' \in {"RETR", "STOR"} /\ session # "closed" => requests' # <<>>
    BY <1>2, OneRead, Asking DEF TypeRead
  <2> QED BY <2>1, <2>2 DEF Started
<1>3. CASE Parent /\ ~PasvRead /\ ~TypeRead
  BY <1>3, Sending
  DEF Parent, Connect, ConnectFails, GreetingRead, UserRead, PassRead, Drain,
      DrainEnd, SystRead, ListForkFails, TransferForkFails, LoginFails, CloseClientSD,
      GetClientSocket, CwdRead, ListRead, Waited, ListedRead, RetrRead, StorRead,
      ForkTransfer, ReceiveFileFails, NoTransfer, QuitRead, Destroy, Back, Started
<1>4. CASE User
  BY <1>4, Sending
  DEF User, Open, NoCommand, EmptyLine, NoFileName, NotConnected, Operate,
      FirstCommand, PutNoFile, OperateClosed, Quit, Ask, Back, DataOperations,
      Started, Orderly, Owed, Quiet
<1>5. CASE Child
  <2>1. ChildConverts => pc = "wait"
    BY DEF ChildConverts, IInv, Family
  <2> QED
    BY <1>5, <2>1
    DEF Child, ChildReads, ChildEnds, ChildConverts, Moving, Started, Busy, control,
        data
<1>6. CASE Finished \/ UNCHANGED vars
  BY <1>6 DEF Finished, vars, Moving, Started, Busy, control, data
<1>7. CASE Server
  <2>1. ClientStill
    BY <1>7 DEF Server, ClientStill
  <2>2. CASE pc \notin {"PASV", "LIST", "RETR", "STOR"}
    BY <2>1, <2>2 DEF ClientStill, Started
  <2>3. CASE pc \in {"PASV", "LIST", "RETR", "STOR"}
    <3>1. ~Over /\ pc \notin LoggingIn /\ session # "none"
      BY <2>3 DEF Over, LoggingIn, IInv, Admitted, Working, LoggedInOrGone
    <3>2. \A d : Takes(d) => d = pc /\ requests' = <<>>
      BY <3>1, TakesIt
    <3>3. CASE SendsData(passiveSD) \/ EndsTransfer(passiveSD)
      <4>1. Busy /\ session' = session /\ requests' = requests
        BY <3>3 DEF SendsData, EndsTransfer, Busy, control
      <4>2. pc # "PASV" /\ requests = <<>> /\ replies = <<FileStatusOkay>>
        BY <2>3, <3>1, <4>1, NotQuiet
      <4>3. CASE SendsData(passiveSD)
        BY <2>1, <4>1, <4>2, <4>3
        DEF SendsData, control, ClientStill, Moving, Started, Busy
      <4>4. CASE EndsTransfer(passiveSD)
        <5>1. PICK c : Reply(c)
          BY <4>4 DEF EndsTransfer
        <5>2. Len(replies') = 2 /\ Head(replies') = FileStatusOkay
          BY <4>2, <5>1 DEF Reply
        <5>3. replies' # <<>>
          BY <5>2
        <5> QED BY <2>1, <4>1, <4>2, <5>2, <5>3 DEF ClientStill, Started
      <4> QED BY <3>3, <4>3, <4>4
    <3>4. CASE Refuses
      <4>1. PICK d \in MayRefuse : Takes(d) /\ d = pc /\ Reply(NotTaken)
        BY <2>3, <3>2, <3>4 DEF Refuses
      <4>2. pc \in {"RETR", "STOR"}
        BY <2>3, <4>1 DEF Obliging
      <4>3. replies' # <<>> /\ Head(replies') # FileStatusOkay
        <5>1. Len(<<>>) = 0
          OBVIOUS
        <5> QED BY <3>1, <4>1, <5>1, AnswersIt, CodesDiffer
      <4> QED BY <2>1, <4>2, <4>3 DEF ClientStill, Started
    <3>5. CASE Listens
      <4>1. pc = "PASV" /\ Head(replies') = Passive
        BY <3>1, <3>2, <3>5, AnswersIt DEF Listens
      <4> QED BY <2>1, <4>1 DEF ClientStill, Started
    <3>6. CASE Transfers
      <4>1. PICK d : Takes(d) /\ d = pc /\ d \in {"LIST", "RETR", "STOR"}
        BY <3>2, <3>6 DEF Transfers
      <4>2. requests' = <<>>
        BY <3>2, <4>1
      <4>3. CASE transfer = "ready"
        <5>1. Reply(FileStatusOkay) /\ Busy'
          BY <3>6, <4>3 DEF Transfers, Busy
        <5>2. replies' # <<>> /\ Head(replies') = FileStatusOkay
          <6>1. Len(<<>>) = 0
            OBVIOUS
          <6> QED BY <3>1, <4>1, <5>1, <6>1, AnswersIt
        <5> QED BY <2>1, <4>1, <4>2, <5>1, <5>2 DEF ClientStill, Started
      <4>4. CASE transfer # "ready"
        <5>1. pc # "LIST"
          BY <4>1, <4>4 DEF Takes, Moving, Started
        <5>2. Reply(NoDataConnection)
          BY <3>6, <4>4 DEF Transfers
        <5>3. replies' # <<>> /\ Head(replies') # FileStatusOkay
          <6>1. Len(<<>>) = 0
            OBVIOUS
          <6> QED BY <3>1, <4>1, <5>2, <6>1, AnswersIt, CodesDiffer
        <5> QED BY <2>1, <4>1, <5>1, <5>3 DEF ClientStill, Started
      <4> QED BY <4>3, <4>4
    <3>7. CASE SaysGoodbye \/ HangsUp
      BY <3>7 DEF SaysGoodbye, HangsUp, Started
    <3> QED
      BY <1>7, <2>3, <3>1, <3>2, <3>3, <3>4, <3>5, <3>6, <3>7
      DEF Server, Greet, Authenticates, Executes
  <2> QED BY <2>2, <2>3
<1> QED BY <1>1, <1>2, <1>3, <1>4, <1>5, <1>6, <1>7 DEF Next

LEMMA Appended ==
  ASSUME NEW S, NEW s \in Seq(S), NEW c \in S
  PROVE  Append(s, c) # <<>>
<1>1. Len(Append(s, c)) = Len(s) + 1 /\ Len(s) \in Nat /\ Len(<<>>) = 0
  OBVIOUS
<1> QED BY <1>1

(* A step of the server hangs up, sends data or sends a reply.             *)
LEMMA ServerReplies ==
  ASSUME IInv, Server
  PROVE  SendsData(passiveSD) \/ session' = "closed" \/ replies' # <<>>
<1>1. replies \in Seq(Codes)
  BY DEF IInv, TypeOK, ServerTypeOK
<1>2. \A c \in Codes : Reply(c) => replies' # <<>>
  <2>1. \A c \in Codes : Append(replies, c) # <<>>
    BY <1>1, Appended
  <2> QED BY <2>1 DEF Reply
<1>3. \A k \in Pieces, c \in Codes :
        Copies(c, k) # <<>> /\ replies \o Copies(c, k) # <<>>
  <2>1. SUFFICES ASSUME NEW k \in Pieces, NEW c \in Codes
                 PROVE  Copies(c, k) # <<>> /\ replies \o Copies(c, k) # <<>>
    OBVIOUS
  <2>2. k \in Nat /\ k > 0 /\ Len(Copies(c, k)) = k
    BY FtpServerAssumption DEF Copies
  <2>3. Copies(c, k) \in Seq({c})
    BY CopiesType
  <2> QED BY <1>1, <2>2, <2>3
<1> QED
  BY <1>2, <1>3, CodesKnown
  DEF Server, Greet, Refuses, Authenticates, Executes, Listens, Transfers,
      EndsTransfer, SaysGoodbye, HangsUp

(* The reply to a command that goes out is due; the first of two replies   *)
(* leaves the other one, there or to come.                                 *)
LEMMA DueKeeps ==
  ASSUME Obliging, IInv, Orderly, Moving, [Next]_vars
  PROVE  Due'
<1>1. CASE GreetingRead \/ UserRead \/ DrainEnd \/ TypeRead \/ PasvRead
  <2>1. /\ pc' \in {"USER", "PASS", "SYST", "drain", "fail", "prompt", "lost",
                    "RETR", "STOR", "LIST", "TYPE"}
        /\ session' = session
    BY <1>1, Sending
    DEF GreetingRead, UserRead, DrainEnd, TypeRead, PasvRead, AfterPassive
  <2>2. \A c \in Commands : SendCommand(c) => session = "closed" \/ requests' # <<>>
    <3>1. requests \in Seq(Commands)
      BY DEF IInv, TypeOK, ServerTypeOK
    <3>2. \A c \in Commands : Append(requests, c) # <<>>
      BY <3>1, Appended
    <3> QED BY <3>2 DEF SendCommand
  <2>3. pc' \in {"USER", "PASS", "SYST", "TYPE"} => session = "closed" \/ requests' # <<>>
    BY <1>1, <2>2
    DEF GreetingRead, UserRead, DrainEnd, TypeRead, PasvRead, AfterPassive, Commands
  <2> QED BY <2>1, <2>3 DEF Due
<1>2. CASE Operate \/ Quit
  <2>1. pc' \in {"CWD", "PASV", "QUIT", "lost", "ended"}
    BY <1>2, Sending DEF Operate, Quit, FirstCommand, DataOperations
  <2>2. pc' \in {"CWD", "PASV", "QUIT"} => session' = "closed" \/ requests' # <<>>
    BY <1>2, Asking DEF Operate, Quit, Ask, Orderly, Owed, Quiet
  <2> QED BY <2>1, <2>2 DEF Due
<1>3. CASE ListRead \/ RetrRead \/ StorRead
  <2>1. /\ pc \in {"LIST", "RETR", "STOR"} /\ ConvertCode /\ requests = <<>>
        /\ pc' \in {"wait", "prompt"}
        /\ session' = session /\ transfer' = transfer
    BY <1>3, FirstRead
    DEF ListRead, RetrRead, StorRead, ForkTransfer, ReceiveFileFails, NoTransfer, data
  <2>2. CASE pc' = "wait" /\ session # "closed"
    <3>1. replies # <<>> /\ ReadSome /\ replyCode' = Head(replies)
      BY <2>1, <2>2 DEF ConvertCode, Readable, Converted
    <3>2. Head(replies) = FileStatusOkay
      BY <1>3, <2>1, <2>2, <3>1
      DEF ListRead, RetrRead, StorRead, NoTransfer, Moving, Started
    <3>3. Busy \/ Len(replies) = 2
      BY <2>1, <2>2, <3>2 DEF Moving, Started
    <3>4. Len(replies) = 2 => replies' # <<>>
      <4>1. Len(replies') = Len(replies) - 1
        BY <3>1, OneTaken
      <4>2. Len(<<>>) = 0
        OBVIOUS
      <4> QED BY <4>1, <4>2
    <3> QED BY <2>1, <2>2, <3>3, <3>4 DEF Due, Busy
  <2> QED BY <2>1, <2>2 DEF Due
<1>4. CASE Waited
  BY <1>4 DEF Waited, Moving, Due, Busy, control
<1>5. CASE \/ ConnectFails \/ PassRead \/ Drain \/ SystRead \/ LoginFails \/ CwdRead
           \/ ListedRead \/ ListForkFails \/ TransferForkFails \/ QuitRead \/ Destroy
  BY <1>5
  DEF ListForkFails, TransferForkFails, ConnectFails, PassRead, Drain, SystRead,
      LoginFails, CwdRead, ListedRead, QuitRead, Destroy, Back, Due
<1>6. CASE Connect
  BY <1>6 DEF Connect, Due, IInv, Unopened, control
<1>7. CASE \/ Open \/ NoCommand \/ EmptyLine \/ NoFileName \/ NotConnected
           \/ PutNoFile \/ OperateClosed
  BY <1>7
  DEF Open, NoCommand, EmptyLine, NoFileName, NotConnected, PutNoFile, OperateClosed,
      Back, Due
<1>8. CASE Child
  <2>1. ChildConverts => pc = "wait" /\ op # "ls"
    BY DEF ChildConverts, IInv, Family
  <2> QED
    BY <1>8, <2>1
    DEF Child, ChildReads, ChildEnds, ChildConverts, IInv, Family, Moving, Due, Busy,
        control, data
<1>9. CASE Finished \/ UNCHANGED vars
  BY <1>9 DEF Finished, vars, Moving, Due, Busy, control, data
<1>10. CASE Server
  <2>1. ClientStill
    BY <1>10 DEF Server, ClientStill
  <2>2. CASE SendsData(passiveSD)
    BY <2>1, <2>2 DEF SendsData, control, ClientStill, Moving, Due, Busy
  <2>3. CASE session' = "closed" \/ replies' # <<>>
    BY <2>1, <2>3 DEF ClientStill, Due
  <2> QED BY <1>10, <2>2, <2>3, ServerReplies
<1> QED
  BY <1>1, <1>2, <1>3, <1>4, <1>5, <1>6, <1>7, <1>8, <1>9, <1>10
  DEF Next, Parent, User

(* Transfers begin on a connection with nothing unread on it, and files    *)
(* come in for STOR only.                                                  *)
LEMMA FittingKeeps ==
  ASSUME Obliging, IInv, Orderly, Moving, [Next]_vars
  PROVE  Fitting'
<1>1. CASE PasvRead
  <2>1. ~Busy
    BY <1>1, OneRead DEF PasvRead
  <2>2. \/ transfer' = "ready" /\ unread' = 0
        \/ transfer' = transfer /\ unread' = unread
    BY <1>1 DEF PasvRead
  <2> QED BY <2>1, <2>2 DEF Moving, Fitting, Busy
<1>2. CASE StorRead \/ RetrRead
  <2>1. \/ pc' = "wait" /\ passiveSD' = "shut"
        \/ pc' = "prompt" /\ (replies = <<>> \/ Head(replies) # FileStatusOkay)
    BY <1>2
    DEF StorRead, RetrRead, ForkTransfer, ReceiveFileFails, NoTransfer, ConvertCode,
        Converted, Obliging
  <2>2. pc' = "prompt" => ~Busy
    BY <1>2, <2>1, FirstRead DEF StorRead, RetrRead
  <2> QED
    BY <1>2, <2>1, <2>2
    DEF StorRead, RetrRead, Moving, Placed, Fitting, Over, Busy, served
<1>3. CASE Waited
  <2>1. transfer # "in"
    BY <1>3 DEF Waited, Moving, Fitting, Over, Orderly, Owed, Quiet, Busy
  <2> QED BY <1>3, <2>1 DEF Waited, Moving, Fitting, served
<1>4. CASE Parent /\ ~PasvRead /\ ~StorRead /\ ~RetrRead /\ ~Waited
  BY <1>4, Sending
  DEF Parent, Connect, ConnectFails, GreetingRead, UserRead, PassRead, Drain,
      DrainEnd, SystRead, ListForkFails, TransferForkFails, LoginFails, CloseClientSD,
      GetClientSocket, CwdRead, ListRead, ListedRead, TypeRead, QuitRead, Destroy,
      Back, Moving, Fitting, Over, data, served
<1>5. CASE User
  <2>1. pc = "prompt" /\ ~Busy
    BY <1>5
    DEF User, Open, NoCommand, EmptyLine, NoFileName, NotConnected, Operate,
        PutNoFile, OperateClosed, Quit, Ask, Orderly, Owed, Quiet
  <2> QED
    BY <1>5, <2>1
    DEF User, Open, NoCommand, EmptyLine, NoFileName, NotConnected, Operate,
        PutNoFile, OperateClosed, Quit, Ask, Moving, Fitting, Busy, data
<1>6. CASE Child
  BY <1>6, ConstantsType
  DEF Child, ChildReads, ChildEnds, ChildConverts, Moving, Fitting, Over, data,
      served, IInv, TypeOK, ServerTypeOK
<1>7. CASE Finished \/ UNCHANGED vars
  BY <1>7 DEF Finished, vars, Moving, Fitting, Over, data, served
<1>8. CASE Server
  <2>1. ClientStill
    BY <1>8 DEF Server, ClientStill
  <2>2. unread \in Nat /\ left \in Nat /\ Buffer \in Nat /\ Sizes \subseteq Nat
    BY ConstantsType DEF IInv, TypeOK, ServerTypeOK
  <2>3. CASE Transfers
    <3>1. unread' = unread /\ (transfer' = "ready" => transfer = "ready")
      BY <2>3 DEF Transfers, Takes
    <3>2. ~Over /\ transfer' = "in" => pc = "STOR"
      <4>1. ~Over /\ Takes("STOR") => pc = "STOR"
        BY TakesOwn
      <4> QED BY <2>3, <4>1 DEF Transfers, Takes
    <3>3. transfer' = "out" => transfer = "ready" /\ unread' = unread /\ left' \in Sizes
      BY <2>3 DEF Transfers, Takes
    <3>4. Sizes \subseteq 0 .. Buffer /\ transfer' = "out" => unread' + left' <= Buffer
      <4>1. Sizes \subseteq 0 .. Buffer /\ transfer' = "out" => left' \in 0 .. Buffer
        BY <3>3
      <4>2. transfer' = "out" => unread' = 0
        BY <3>3 DEF Moving, Fitting
      <4> QED BY <2>2, <4>1, <4>2
    <3> QED BY <2>1, <3>1, <3>2, <3>4 DEF ClientStill, Moving, Fitting, Over
  <2>4. CASE ~Transfers
    BY <1>8, <2>1, <2>2, <2>4
    DEF Server, Greet, Refuses, Authenticates, Executes, Listens, SendsData,
        EndsTransfer, SaysGoodbye, HangsUp, ClientStill, Moving, Fitting, Over
  <2> QED BY <2>3, <2>4
<1> QED BY <1>1, <1>2, <1>3, <1>4, <1>5, <1>6, <1>7, <1>8 DEF Next

(* The child of ls does not stop before the listing does.                  *)
LEMMA PacedKeeps ==
  ASSUME Obliging, IInv, Orderly, Moving, [Next]_vars
  PROVE  Paced'
<1> SUFFICES ASSUME ~Slow, "get" \notin Operations PROVE Paced'
  BY DEF Paced
<1>1. CASE PasvRead
  <2>1. ~Busy /\ pc' \in {"LIST", "TYPE", "lost"} /\ session' = session
    BY <1>1, OneRead, Sending DEF PasvRead, AfterPassive
  <2>2. transfer' # "out"
    BY <1>1, <2>1 DEF PasvRead, Busy
  <2>3. pc' = "LIST" /\ session # "closed" => child' = "data"
    BY <1>1, PasvAnswered
  <2> QED BY <2>1, <2>2, <2>3 DEF Paced
<1>2. CASE Parent /\ ~PasvRead
  BY <1>2, Sending
  DEF Parent, Connect, ConnectFails, GreetingRead, UserRead, PassRead, Drain,
      DrainEnd, SystRead, ListForkFails, TransferForkFails, LoginFails, CloseClientSD,
      GetClientSocket, CwdRead, ListRead, Waited, ListedRead, TypeRead, RetrRead,
      StorRead, ForkTransfer, ReceiveFileFails, NoTransfer, QuitRead, Destroy, Back,
      Obliging, Moving, Paced, Over, data, served
<1>3. CASE User
  <2>1. pc = "prompt" /\ ~Busy
    BY <1>3
    DEF User, Open, NoCommand, EmptyLine, NoFileName, NotConnected, Operate,
        PutNoFile, OperateClosed, Quit, Ask, Orderly, Owed, Quiet
  <2> QED
    BY <1>3, <2>1, Sending
    DEF User, Open, NoCommand, EmptyLine, NoFileName, NotConnected, Operate,
        FirstCommand, PutNoFile, OperateClosed, Quit, Ask, Back, DataOperations,
        Paced, Busy, data
<1>4. CASE ChildReads \/ ChildConverts
  <2>1. ChildConverts => pc = "wait" /\ op # "ls"
    BY DEF ChildConverts, IInv, Family
  <2> QED
    BY <1>4, <2>1
    DEF ChildReads, ChildConverts, Moving, Paced, Over, control, data
<1>5. CASE ChildEnds
  <2>1. \/ session = "closed"
        \/ transfer # "out" /\ (pc = "LIST" => requests = <<>>)
    BY <1>5
    DEF ChildEnds, Silent, AtEnd, Moving, Placed, Started
  <2>2. session = "closed" /\ ~Over => transfer # "out"
    BY DEF Orderly, Gone, Over, Busy
  <2> QED BY <1>5, <2>1, <2>2 DEF ChildEnds, Paced, Over, control, data
<1>6. CASE Finished \/ UNCHANGED vars
  BY <1>6 DEF Finished, vars, Moving, Paced, Over, control, data
<1>7. CASE Server
  <2>1. ClientStill
    BY <1>7 DEF Server, ClientStill
  <2>2. CASE Over
    BY <2>1, <2>2 DEF ClientStill, Paced, Over
  <2>3. CASE ~Over /\ Transfers
    <3>1. PICK d : Takes(d) /\ d \in {"LIST", "RETR", "STOR"}
      BY <2>3 DEF Transfers
    <3>2. pc = d /\ requests' = <<>> /\ session # "closed" /\ requests # <<>>
      BY <2>3, <3>1, TakesOwn, TakesIt DEF LoggingIn, Takes
    <3>3. pc # "RETR"
      BY DEF Moving, Placed
    <3>4. pc = "LIST" \/ transfer' # "out"
      BY <2>3, <3>1, <3>2, <3>3, TakesOwn DEF Transfers, Takes
    <3>5. pc = "LIST" => op = "ls" /\ child # "exited"
      BY <3>2 DEF IInv, Family, Moving, Paced
    <3> QED BY <2>1, <3>2, <3>4, <3>5 DEF ClientStill, Paced
  <2>4. CASE ~Over /\ ~Transfers
    <3>1. /\ requests' # <<>> => requests # <<>>
          /\ session # "closed" \/ session' = "closed"
          /\ transfer' = "out" => transfer = "out"
      <4>1. requests \in Seq(Commands)
        BY DEF IInv, TypeOK, ServerTypeOK
      <4>2. session = "closed" => session' = "closed"
        BY <1>7, <2>4
        DEF Server, Greet, Refuses, Authenticates, Executes, Listens, SendsData,
            EndsTransfer, SaysGoodbye, HangsUp, Takes, control
      <4> QED
        BY <1>7, <2>4, <4>1, <4>2
        DEF Server, Greet, Refuses, Authenticates, Executes, Listens, SendsData,
            EndsTransfer, SaysGoodbye, HangsUp, Takes, control
    <3> QED BY <2>1, <2>4, <3>1 DEF ClientStill, Moving, Paced, Over
  <2> QED BY <2>2, <2>3, <2>4
<1> QED BY <1>1, <1>2, <1>3, <1>4, <1>5, <1>6, <1>7 DEF Next, Child

LEMMA InitMoving == Init => Moving
  BY DEF Init, ServerInit, Moving, Placed, Started, Due, Fitting, Paced, Busy, Over

(* If replies come one at a time, the server listens and lists when asked  *)
(* to, and what it sends fits on the connection or is read, then parent,   *)
(* child and server never wait for each other: whatever else is refused,   *)
(* however slow the server is, whoever ends first, and whenever the        *)
(* connection is closed (FTPClient.cpp:150-178, 230-238, 304-321).         *)
THEOREM NeverStuckCorrect == Drained /\ Obliging /\ Spec => []NeverStuck
<1> SUFFICES ASSUME Drained, Obliging PROVE Spec => []NeverStuck
  OBVIOUS
<1>1. IInv /\ (abandoned \/ Orderly) /\ Moving /\ [Next]_vars => Moving'
  <2> SUFFICES ASSUME IInv, abandoned \/ Orderly, Moving, [Next]_vars PROVE Moving'
    OBVIOUS
  <2>1. Orderly
    BY DEF Moving, Placed
  <2> QED
    BY <2>1, PlacedKeeps, StartedKeeps, DueKeeps, FittingKeeps, PacedKeeps
    DEF Moving
<1>2. IInv /\ (abandoned \/ Orderly) /\ Moving => NeverStuck
  BY MovingEnough DEF Moving, Placed
<1>3. Spec => [](IInv /\ (abandoned \/ Orderly))
  BY OrderlyInvariance
<1> QED BY <1>1, <1>2, <1>3, InitMoving, PTL DEF Spec

=============================================================================
