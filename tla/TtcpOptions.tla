----------------------------- MODULE TtcpOptions -----------------------------
(***************************************************************************)
(* How ttcp reads its command line (atoi and checkOptions of ttcp.cpp, the *)
(* defaults of Option.h). An argument is the sequence of its characters.   *)
(***************************************************************************)
EXTENDS Integers, Sequences, SequencesExt

CONSTANTS
  OptionArguments,  \* arguments that start with "-"
  Hosts,            \* arguments that do not
  MaxArguments      \* bound: how many arguments are given

DigitValue == [c \in {"0", "1", "2", "3"} |->
                 CASE c = "0" -> 0 [] c = "1" -> 1 [] c = "2" -> 2 [] c = "3" -> 3]

(* The options that take a number, and where it goes. *)
Member == [c \in {"l", "b", "p", "n"} |->
             CASE c = "l" -> "buflen" [] c = "b" -> "sockbufsize"
               [] c = "p" -> "port" [] c = "n" -> "nbuf"]

Flag == [c \in {"t", "r", "?", "D"} |->
           CASE c = "t" -> "transmit" [] c = "r" -> "receive"
             [] c = "?" -> "help" [] c = "D" -> "tcp_nodelay"]

NoHost == <<"-">>

Option ==
  [transmit |-> FALSE, receive |-> FALSE, tcp_nodelay |-> FALSE, help |-> FALSE,
   buflen |-> 4096, sockbufsize |-> 16384, port |-> 5001, nbuf |-> 2048,
   host |-> NoHost]

(* A scan of the arguments: the options so far, the option whose number is *)
(* being read (atoi goes on as long as digits come), and whether           *)
(* checkOptions has returned false.                                        *)
Start == [option |-> Option, number |-> "none", failed |-> FALSE]

(* MUTANT of Digit: a number adds to what the option was before. *)
Digit_Adds(o, member, c) == [o EXCEPT ![member] = @ + DigitValue[c]]

(* atoi: one digit more. *)
Digit(o, member, c) == [o EXCEPT ![member] = 10 * @ + DigitValue[c]]

Character(scan, c) ==
  IF c \in DOMAIN DigitValue /\ scan.number # "none"
    THEN [scan EXCEPT !.option = Digit(@, scan.number, c)]
  ELSE IF c \in DOMAIN Member
    THEN [scan EXCEPT !.number = Member[c], !.option[Member[c]] = 0]
  ELSE IF c \in DOMAIN Flag
    THEN [scan EXCEPT !.number = "none", !.option[Flag[c]] = TRUE]
  ELSE [scan EXCEPT !.failed = TRUE]

(* An argument without a "-" is the host, of which there can be only one. *)
Argument(scan, arg) ==
  CASE scan.failed -> scan
    [] ~scan.failed /\ arg \in Hosts ->
         IF scan.option.host = NoHost
           THEN [scan EXCEPT !.option.host = arg] ELSE [scan EXCEPT !.failed = TRUE]
    [] ~scan.failed /\ arg \notin Hosts ->
         FoldLeft(Character, [scan EXCEPT !.number = "none"], Tail(arg))

Scan(argv) == FoldLeft(Argument, Start, argv)

checkOptions(argv) ==
  LET scan == Scan(argv)
      o == scan.option
  IN /\ ~scan.failed
     /\ o.transmit # o.receive
     /\ o.transmit => o.host # NoHost
     /\ ~o.help

-----------------------------------------------------------------------------
(* What checkOptions promises of a command line, said without a scan: of   *)
(* the whole line, whatever its arguments are cut into.                    *)
Lines == UNION {[1 .. k -> OptionArguments \union Hosts] : k \in 0 .. MaxArguments}

Letters == DOMAIN Member \union DOMAIN Flag

(* All that is said in the option arguments, one after the other. *)
Said(argv) ==
  FlattenSeq([i \in DOMAIN argv |-> IF argv[i] \in Hosts THEN <<>> ELSE argv[i]])

(* Every character is a letter or belongs to the number of one that takes  *)
(* a number.                                                               *)
WellFormed(said) ==
  \A i \in DOMAIN said :
    \/ said[i] \in Letters \union {"-"}
    \/ /\ said[i] \in DOMAIN DigitValue
       /\ \E j \in 1 .. i - 1 :
            said[j] \in DOMAIN Member /\ \A k \in j + 1 .. i : said[k] \in DOMAIN DigitValue

(* The number behind the last c: its digits, the last of them worth one. *)
NumberGiven(said, c) ==
  LET last == CHOOSE i \in DOMAIN said :
                said[i] = c /\ \A j \in i + 1 .. Len(said) : said[j] # c
      end == CHOOSE e \in last .. Len(said) :
               /\ \A k \in last + 1 .. e : said[k] \in DOMAIN DigitValue
               /\ e = Len(said) \/ said[e + 1] \notin DOMAIN DigitValue
  IN FoldSet(LAMBDA k, sum : sum + DigitValue[said[k]] * 10 ^ (end - k),
             0, last + 1 .. end)

(* What the scan makes of every command line. *)
ScanAgrees ==
  \A argv \in Lines :
    LET said == Said(argv)
        hosts == {i \in DOMAIN argv : argv[i] \in Hosts}
        says(c) == \E i \in DOMAIN said : said[i] = c
    IN /\ checkOptions(argv) <=>
            /\ WellFormed(said)
            /\ \A i, j \in hosts : i = j
            /\ says("t") # says("r")
            /\ says("t") => hosts # {}
            /\ ~says("?")
       /\ checkOptions(argv) =>
            \A c \in DOMAIN Member :
              Scan(argv).option[Member[c]] =
                IF says(c) THEN NumberGiven(said, c) ELSE Option[Member[c]]

=============================================================================
