----------------------------- MODULE PacketFifo -----------------------------
(***************************************************************************)
(* What the transmit side of a USB endpoint promises its caller within one *)
(* configuration: a packet leaves the queue by being delivered and in no   *)
(* other way, and packets are delivered in the order they were accepted.   *)
(***************************************************************************)
EXTENDS Sequences, Functions

CONSTANT Packets
VARIABLE pending

Init == pending = <<>>

Accept(p) == p \notin Range(pending) /\ pending' = Append(pending, p)
Deliver   == pending # <<>> /\ pending' = Tail(pending)

Next == Deliver \/ \E p \in Packets : Accept(p)

Spec == Init /\ [][Next]_pending
=============================================================================
