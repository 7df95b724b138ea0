----------------------------- MODULE MCFtpClient -----------------------------
(* FtpClient for the model checker: what user and server may do. *)
EXTENDS FtpClient

Nothing == {}
LsOnly == {"ls"}
GetOnly == {"get"}
AnyLine == AllOperations \union OtherLines
NoCloseNoEmpty == AnyLine \ {"close", "empty", "noname"}
Refusable == {"USER", "PASS", "CWD", "PASV", "TYPE", "LIST", "RETR", "STOR"}
NoDataRefused == Commands \ {"PASV", "LIST"}
GetAndPut == {"get", "put"}
OnePiece == {1}
UpToTwo == {1, 2}
Zero == {None}
Garbage == {None, LoggedIn, Passive}

=============================================================================
