---- MODULE MCUsbPackets ----
(* Instances of UsbPackets for TLC. *)
EXTENDS UsbPackets, TLC

(* Packets are interchangeable: no action or invariant names one. *)
PacketSymmetry == Permutations(Packets)
====
