------------------------------- MODULE MCTtcp -------------------------------
(* Ttcp for the model checker: two transmitters, one of which may be       *)
(* killed and the other fail to get a socket, and the receiver, which may  *)
(* be killed too. Their buffer lengths are what ttcp makes of command      *)
(* lines.                                                                  *)
EXTENDS Ttcp, TtcpOptions

CONSTANTS t1, t2

Two == {t1, t2}
FirstAndReceiver == {t1, Receiver}
Second == {t2}

(* "-" and up to three of these characters *)
Characters == {"t", "r", "l", "n", "?", "2", "0"}
UpToThree ==
  {<<"-">> \o s : s \in UNION {[1 .. k -> Characters] : k \in 0 .. 3}}
OneHost == {<<"h">>}

(* When ttcp starts, it has accepted the command lines that say either -t  *)
(* with one host or -r with at most one, and nothing unknown; every number *)
(* is the one given last, 0 if its digits are missing, and the default of  *)
(* Option.h if it is not given, in whatever order options are written or   *)
(* run together (ttcp.cpp:44-97, Option.h:9-39). This is what the code     *)
(* promises, not its usage message, which gives another default for -l, no *)
(* host to -r and keeps -n and -D for -t (ttcp.cpp:10-22).                 *)
OptionsAsTyped == rpc = "start" => ScanAgrees

(* -tl, -tl1 and -tl2 *)
GivenLengths ==
  {Scan(<<<<"-", "t", "l">> \o digits, <<"h">>>>).option.buflen :
     digits \in {<<>>, <<"1">>, <<"2">>}}

=============================================================================
