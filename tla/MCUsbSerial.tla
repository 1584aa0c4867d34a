---- MODULE MCUsbSerial ----
(* Instances of UsbSerial for TLC. *)
EXTENDS UsbSerial

(* Packets are interchangeable: no action or invariant names one. *)
PacketSymmetry == Permutations(Packets)

(* A host that only listens: it keeps reading and sends no data. *)
ListeningHostSpec ==
    /\ SerialInit /\ [][SerialNext /\ rx_queue' = <<>>]_svars
    /\ ProcessorRuns /\ HostReads

(* A host that keeps reading, and also sends. *)
ReadingHostSpec == SerialSpec /\ ProcessorRuns /\ HostReads
====
