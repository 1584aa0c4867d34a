----------------------------- MODULE ByteStream -----------------------------
(***************************************************************************)
(* What the transmit direction of a serial port promises: the host gets    *)
(* the bytes the program wrote, in that order, each once, and all of them  *)
(* in the end.  Bytes are numbered in the order they are written.          *)
(***************************************************************************)
EXTENDS Naturals, Sequences

VARIABLES written,   \* number of bytes accepted so far
          stream     \* bytes accepted and not yet taken by the host

vars == <<written, stream>>

Init == written = 0 /\ stream = <<>>

Write ==
    /\ written' > written
    /\ stream' = stream \o [i \in 1 .. (written' - written) |-> written + i]

Send ==
    /\ UNCHANGED written
    /\ \E n \in 1 .. Len(stream) : stream' = SubSeq(stream, n + 1, Len(stream))

Next == Write \/ Send

SafeSpec == Init /\ [][Next]_vars
Spec == SafeSpec /\ WF_vars(Send)
=============================================================================
