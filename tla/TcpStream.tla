----------------------------- MODULE TcpStream -----------------------------
(***************************************************************************)
(* One direction of a TCP connection, as the blocking reads and writes of  *)
(* Prog1 and Prog3 see it: a number of bytes written and not yet read.     *)
(* TCP keeps neither the writes nor the reads apart.                       *)
(***************************************************************************)
EXTENDS Naturals

CONSTANT Capacity   \* how many bytes fit between writer and reader

ASSUME StreamAssumption == Capacity \in Nat \ {0}

(* What a write of size bytes may take at once: as many as there is room   *)
(* for, or fewer. Without room it blocks.                                  *)
Taken(stream, size) == {n \in 1 .. size : stream + n <= Capacity}

(* A read blocks while there is nothing to read and the writer may still   *)
(* write.                                                                  *)
Ready(stream, ended) == stream > 0 \/ ended

(* What a read of at most size bytes may return: some of what is there,    *)
(* and 0 at the end of the stream.                                         *)
Returned(stream, size) ==
  IF stream > 0 THEN {n \in 1 .. size : n <= stream} ELSE {0}

=============================================================================
