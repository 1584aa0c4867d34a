--------------------------- MODULE UsbSerialProofs ---------------------------
(***************************************************************************)
(* Proofs about UsbSerial: for any packets, any sizes and limits, any host *)
(* and any program, forced jumps included.                                 *)
(***************************************************************************)
EXTENDS UsbSerial, UsbPacketsProofs

-----------------------------------------------------------------------------
(* The inductive invariant.  SerialTypeOK, WriterOwnsPacket and            *)
(* HoldsOnlyItsTwo are not inductive alone: that the packet is still there *)
(* when bytes are stored rests on tx_noautoflush being set at every step   *)
(* from the test of tx_packet on.                                          *)
SerialTypes ==
    /\ rx_packet \in Packets \cup {None} /\ tx_packet \in Packets \cup {None}
    /\ tx_noautoflush \in BOOLEAN /\ transmit_previous_timeout \in BOOLEAN
    /\ usb_cdc_transmit_flush_timer \in 0 .. FlushTimeout
    /\ pc \in PC
    /\ lost \subseteq Packets

DataTypes ==
    /\ data \in [Packets -> Seq(1 .. MaxBytes)]
    /\ \A p \in Packets : Len(data[p]) <= CDC_TX_SIZE

Counts ==
    /\ written \in 0 .. MaxBytes
    /\ size \in 0 .. MaxWrite /\ remaining \in 0 .. size /\ chunk \in 0 .. remaining
    /\ result \in 0 .. MaxWrite
    /\ written + remaining <= MaxBytes
    /\ pc \in {"idle", "recv_free"} => remaining = 0
    /\ pc = "filled" => chunk = 0

(* The flush callback is held off, ...                                     *)
GuardIsSet ==
    pc \in {"buffer_some", "buffer_none", "buffer_malloc", "acquire_malloc",
            "fill", "filled", "sent"} => tx_noautoflush

(* ... so tx_packet is what it was when it was tested ...                  *)
TxPacketAsTested ==
    /\ pc \in {"buffer_malloc", "acquire", "acquire_malloc", "acquire_wait"} => tx_packet = None
    /\ pc \in {"buffer_some", "fill", "filled", "sent"} => tx_packet # None

(* ... and usb_free runs only for rx_packet.                               *)
FreesRxPacket ==
    pc # "torn" =>
        /\ free_pc # "idle" <=> pc = "recv_free"
        /\ pc = "recv_free" => free_packet = rx_packet

SerialInv ==
    /\ Inv /\ SerialTypes /\ DataTypes /\ Counts
    /\ GuardIsSet /\ TxPacketAsTested /\ FreesRxPacket /\ HoldsOnlyItsTwo

-----------------------------------------------------------------------------
(* A packet of the client or of the pool is handed to usb_tx: by the call, *)
(* or by the flush callback in the middle of one.                          *)
HandedOver(p) ==
    /\ Transmit(p)
    /\ held' = held \ {p} /\ usb_buffer_available' = usb_buffer_available \ {p}
    /\ UNCHANGED <<usb_rx_memory_needed, rx, bus, free_pc, free_packet>>

LEMMA HandOver ==
    ASSUME Inv, NEW p \in held \cup usb_buffer_available, HandedOver(p)
    PROVE  Inv'
<1> USE DEF HandedOver
<1>1. TypeOK /\ TxStateAgrees /\ Exclusive /\ p \in Packets
  BY DEF Inv, TypeOK
<1>2. p \notin Armed(tx_table) /\ p \notin Range(tx_queue)
  BY <1>1 DEF Exclusive, Flushed, Apart
<1>3. TypeOK'
  <2>1. /\ tx_table' \in [Banks -> Packets \cup {None}] /\ tx_queue' \in Seq(Packets)
        /\ tx_state' \in TxStates /\ tx_hw' \in Banks
    BY <1>1, TransmitType
  <2> QED BY <1>1, <2>1 DEF TypeOK, rx, bus
<1>4. TxStateAgrees'
  BY <1>1, TransmitAgrees
<1>5. Exclusive'
  <2>1. /\ Armed(tx_table') \cup Range(tx_queue') = Armed(tx_table) \cup Range(tx_queue) \cup {p}
        /\ Apart(Armed(tx_table'), Range(tx_queue'))
        /\ Distinct(tx_table') /\ IsInjective(tx_queue')
    BY <1>1, <1>2, TransmitOwns
  <2>2. rx_table' = rx_table /\ rx_queue' = rx_queue /\ InFree' = InFree
    BY DEF rx, InFree
  <2> QED BY <1>1, <2>1, <2>2 DEF Exclusive, Flushed, Apart
<1> QED BY <1>3, <1>4, <1>5 DEF Inv

(* usb_free is left before it has done anything.                           *)
TakenBack ==
    /\ free_pc # "idle" /\ held' = held \cup {free_packet}
    /\ free_pc' = "idle" /\ free_packet' = None
    /\ UNCHANGED <<pool, rx, tx, bus>>

LEMMA TakeBack ==
    ASSUME Inv, TakenBack
    PROVE  Inv'
<1> USE DEF TakenBack
<1>1. TypeOK /\ TxStateAgrees /\ Exclusive /\ free_packet \in Packets
  BY DEF Inv, TypeOK
<1>2. TypeOK'
  BY <1>1 DEF TypeOK, pool, rx, tx, bus
<1>3. TxStateAgrees'
  BY <1>1 DEF TxStateAgrees, tx
<1>4. Exclusive'
  <2>1. InFree = {free_packet} /\ InFree' = {}
    BY <1>1, PacketsAssumption DEF InFree
  <2>2. UNCHANGED <<usb_buffer_available, rx_table, tx_table, rx_queue, tx_queue>>
    BY DEF pool, rx, tx
  <2> QED BY <1>1, <2>1, <2>2 DEF Exclusive, Flushed, Apart
<1> QED BY <1>2, <1>3, <1>4 DEF Inv

(* Outside of a call that has just sent it, tx_packet is the client's.     *)
LEMMA TxPacketHeld ==
    ASSUME SerialInv, tx_packet # None, pc \notin {"sent", "torn"}
    PROVE  tx_packet \in held
<1>1. tx_packet \in held \cup InFree /\ tx_packet # rx_packet
  BY DEF SerialInv, HoldsOnlyItsTwo
<1>2. InFree \subseteq {rx_packet}
  BY DEF SerialInv, Inv, TypeOK, FreesRxPacket, InFree
<1> QED BY <1>1, <1>2

-----------------------------------------------------------------------------
(* The packets: each step is one of UsbPackets, or hands one over, or      *)
(* takes one back.                                                         *)
PacketsMove ==
    \/ [Next]_vars
    \/ TakenBack
    \/ \E p \in held \cup usb_buffer_available :
          HandedOver(p) /\ (p \in held \/ usb_configuration # 0)

LEMMA PacketsMoveStep ==
    ASSUME SerialInv, [SerialNext]_svars
    PROVE  PacketsMove
<1>1. Inv
  BY DEF SerialInv
<1>2. ASSUME [Next]_vars PROVE PacketsMove
  BY <1>2 DEF PacketsMove
<1>3. CASE HandlerStep
  BY <1>2, <1>3 DEF HandlerStep, Next
<1>4. CASE StartOfFrame
  <2>1. ASSUME UNCHANGED vars PROVE PacketsMove
    BY <1>2, <2>1
  <2>2. CASE ~tx_noautoflush /\ tx_packet # None /\ Transmit(tx_packet) /\ held' = held \ {tx_packet}
             /\ UNCHANGED <<pool, rx, bus, free_pc, free_packet>>
    <3>1. pc \notin {"sent", "torn"}
      BY <1>4, <2>2 DEF StartOfFrame, SerialInv, GuardIsSet
    <3>2. tx_packet \in held
      BY <2>2, <3>1, TxPacketHeld
    <3>3. usb_buffer_available \ {tx_packet} = usb_buffer_available
      BY <1>1, <3>2 DEF Inv, Exclusive, Apart
    <3> QED BY <2>2, <3>2, <3>3 DEF PacketsMove, HandedOver, pool
  <2>3. ASSUME NEW p \in usb_buffer_available, Transmit(p),
               usb_buffer_available' = usb_buffer_available \ {p},
               UNCHANGED <<usb_rx_memory_needed, rx, bus, client>>
        PROVE  PacketsMove
    <3>1. held \ {p} = held
      BY <1>1 DEF Inv, Exclusive, Apart
    <3>2. usb_configuration # 0
      BY <1>4 DEF StartOfFrame
    <3> QED BY <2>3, <3>1, <3>2 DEF PacketsMove, HandedOver, client
  <2> QED BY <1>4, <2>1, <2>2, <2>3 DEF StartOfFrame, FlushCallback
<1>5. ASSUME TxCall PROVE PacketsMove
  <2>1. ASSUME NEW p \in usb_buffer_available, NewTxPacket(p) PROVE PacketsMove
    BY <1>2, <2>1 DEF NewTxPacket, Next, Main
  <2>2. CASE BufferFreeMalloc \/ AcquireMalloc
    BY <1>2, <2>1, <2>2 DEF BufferFreeMalloc, AcquireMalloc
  <2>3. CASE Fill
    <3>1. CASE UNCHANGED vars
      BY <1>2, <3>1
    <3>2. CASE Transmit(tx_packet) /\ held' = held \ {tx_packet}
               /\ UNCHANGED <<pool, rx, bus, free_pc, free_packet>>
      <4>1. tx_packet \in held
        BY <2>3, TxPacketHeld DEF Fill, SerialInv, TxPacketAsTested
      <4>2. usb_buffer_available \ {tx_packet} = usb_buffer_available
        BY <1>1, <4>1 DEF Inv, Exclusive, Apart
      <4> QED BY <3>2, <4>1, <4>2 DEF PacketsMove, HandedOver, pool
    <3> QED BY <2>3, <3>1, <3>2 DEF Fill
  <2>4. CASE BufferFreeBegin \/ BufferFreeEnd \/ WriteBegin \/ AcquireTest \/ AcquireWait
             \/ FillEnd \/ TxFailed
    BY <1>2, <2>4 DEF BufferFreeBegin, BufferFreeEnd, WriteBegin, AcquireTest, AcquireWait,
       FillEnd, TxFailed
  <2> QED BY <1>5, <2>2, <2>3, <2>4 DEF TxCall
<1>6. CASE Recv
  <2>1. CASE RecvFirst
    BY <1>2, <2>1 DEF RecvFirst, Next, Main
  <2>2. CASE RecvLast
    <3>1. rx_packet \in Packets
      BY <2>2 DEF RecvLast, SerialInv, SerialTypes
    <3> QED BY <1>2, <2>2, <3>1 DEF RecvLast, Next, Main, Free
  <2>3. CASE RecvFree
    BY <1>2, <2>3 DEF RecvFree, Next, Main
  <2> QED BY <1>6, <2>1, <2>2, <2>3 DEF Recv
<1>7. CASE Program
  BY <1>2, <1>7 DEF Program, CallTx, CallPoll
<1>8. CASE Forced
  <2>1. CASE ForcedMalloc
    BY <1>2, <2>1 DEF ForcedMalloc, Next, Main
  <2>2. CASE ForcedRx
    BY <1>2, <2>2 DEF ForcedRx, Next, Main
  <2>3. CASE ForcedFree
    <3>1. free_pc # "idle"
      BY <2>3 DEF ForcedFree, SerialInv, FreesRxPacket
    <3> QED BY <2>3, <3>1 DEF ForcedFree, PacketsMove, TakenBack
  <2>4. CASE ForcedTorn
    BY <1>2, <2>4 DEF ForcedTorn, Next, Main
  <2>5. CASE ForcedBetween \/ ForcedFill
    BY <1>2, <2>5 DEF ForcedBetween, ForcedFill
  <2> QED BY <1>8, <2>1, <2>2, <2>3, <2>4, <2>5 DEF Forced
<1>9. CASE UNCHANGED svars
  BY <1>2, <1>9 DEF svars
<1> QED BY <1>3, <1>4, <1>5, <1>6, <1>7, <1>8, <1>9 DEF SerialNext, Handler

LEMMA PacketsStep ==
    ASSUME SerialInv, [SerialNext]_svars
    PROVE  Inv'
<1>1. Inv /\ PacketsMove
  BY PacketsMoveStep DEF SerialInv
<1>2. CASE [Next]_vars
  BY <1>1, <1>2, InvStep
<1>3. CASE TakenBack
  BY <1>1, <1>3, TakeBack
<1>4. ASSUME NEW p \in held \cup usb_buffer_available, HandedOver(p) PROVE Inv'
  BY <1>1, <1>4, HandOver
<1> QED BY <1>1, <1>2, <1>3, <1>4 DEF PacketsMove

-----------------------------------------------------------------------------
(* The bytes that the next round of the copy stores fit in the packet.     *)
LEMMA ChunkFits ==
    ASSUME SerialInv, pc = "fill"
    PROVE  LET n == SmallerOf(CDC_TX_SIZE - Len(data[tx_packet]), chunk) IN
           /\ tx_packet \in Packets /\ n \in 0 .. chunk
           /\ Chunk \in Seq(1 .. MaxBytes) /\ Len(Chunk) = n
           /\ data[tx_packet] \o Chunk \in Seq(1 .. MaxBytes)
           /\ Len(data[tx_packet] \o Chunk) = Len(data[tx_packet]) + n
           /\ Len(data[tx_packet]) + n <= CDC_TX_SIZE
           /\ n < chunk => Len(data[tx_packet]) + n = CDC_TX_SIZE
<1> DEFINE d == data[tx_packet]
           n == SmallerOf(CDC_TX_SIZE - Len(d), chunk)
<1>1. tx_packet \in Packets
  BY DEF SerialInv, TxPacketAsTested, SerialTypes
<1>2. d \in Seq(1 .. MaxBytes) /\ Len(d) \in Nat /\ Len(d) <= CDC_TX_SIZE
  BY <1>1 DEF SerialInv, DataTypes
<1>3. /\ chunk \in Nat /\ CDC_TX_SIZE \in Nat /\ written \in Nat /\ MaxBytes \in Nat
      /\ written + chunk <= MaxBytes
  BY SerialAssumption DEF SerialInv, Counts
<1>4. n \in 0 .. chunk /\ Len(d) + n <= CDC_TX_SIZE /\ (n < chunk => Len(d) + n = CDC_TX_SIZE)
  <2> HIDE DEF d
  <2> QED BY <1>2, <1>3 DEF SmallerOf
<1>5. Chunk = [i \in 1 .. n |-> written + i]
  BY DEF Chunk
<1> HIDE DEF d, n
<1>6. Chunk \in Seq(1 .. MaxBytes) /\ Len(Chunk) = n
  <2>1. \A i \in 1 .. n : written + i \in 1 .. MaxBytes
    BY <1>3, <1>4
  <2> QED BY <1>3, <1>4, <1>5, <2>1
<1>7. d \o Chunk \in Seq(1 .. MaxBytes) /\ Len(d \o Chunk) = Len(d) + n
  BY <1>2, <1>6
<1> QED BY <1>1, <1>4, <1>6, <1>7 DEF d, n

(* The stored bytes: a packet never holds more than its size, and none but *)
(* bytes that were written.                                                *)
LEMMA DataStep ==
    ASSUME SerialInv, [SerialNext]_svars
    PROVE  DataTypes'
<1>1. DataTypes
  BY DEF SerialInv
<1>2. ASSUME UNCHANGED data PROVE DataTypes'
  BY <1>1, <1>2 DEF DataTypes
<1>3. CASE HandlerStep
  <2>1. \A p \in Packets : data'[p] \in {data[p], <<>>}
    BY <1>3 DEF HandlerStep
  <2>2. data' = [p \in Packets |-> data'[p]]
    BY <1>3 DEF HandlerStep
  <2>3. <<>> \in Seq(1 .. MaxBytes) /\ Len(<<>>) <= CDC_TX_SIZE
    BY SerialAssumption
  <2> QED BY <1>1, <2>1, <2>2, <2>3 DEF DataTypes
<1>4. ASSUME NEW p \in Packets, data' = [data EXCEPT ![p] = <<>>] PROVE DataTypes'
  <2>1. <<>> \in Seq(1 .. MaxBytes) /\ Len(<<>>) <= CDC_TX_SIZE
    BY SerialAssumption
  <2> QED BY <1>1, <1>4, <2>1 DEF DataTypes
<1>5. ASSUME pc = "fill", data' = [data EXCEPT ![tx_packet] = data[tx_packet] \o Chunk]
      PROVE  DataTypes'
  <2> DEFINE d == data[tx_packet] \o Chunk
  <2>1. tx_packet \in Packets /\ d \in Seq(1 .. MaxBytes) /\ Len(d) <= CDC_TX_SIZE
    BY <1>5, ChunkFits
  <2>2. data' = [data EXCEPT ![tx_packet] = d]
    BY <1>5
  <2> HIDE DEF d
  <2> QED BY <1>1, <2>1, <2>2 DEF DataTypes
<1>6. CASE BufferFreeMalloc \/ AcquireMalloc
  <2>1. usb_buffer_available \subseteq Packets
    BY DEF SerialInv, Inv, TypeOK
  <2> QED BY <1>2, <1>4, <1>6, <2>1 DEF BufferFreeMalloc, AcquireMalloc, NewTxPacket
<1>7. CASE Fill \/ ForcedFill
  BY <1>5, <1>7 DEF Fill, ForcedFill
<1>8. CASE \/ StartOfFrame \/ BufferFreeBegin \/ BufferFreeEnd \/ WriteBegin \/ AcquireTest
           \/ AcquireWait \/ FillEnd \/ TxFailed
  BY <1>2, <1>8 DEF StartOfFrame, BufferFreeBegin, BufferFreeEnd, WriteBegin, AcquireTest,
     AcquireWait, FillEnd, TxFailed, serial
<1>9. CASE Recv \/ Program \/ ForcedBetween \/ ForcedMalloc \/ ForcedRx \/ ForcedFree
           \/ ForcedTorn \/ UNCHANGED svars
  BY <1>2, <1>9 DEF Recv, RecvFirst, RecvLast, RecvFree, Program, CallTx, CallPoll, ForcedBetween,
     ForcedMalloc, ForcedRx, ForcedFree, ForcedTorn, serial, svars
<1> QED BY <1>3, <1>6, <1>7, <1>8, <1>9 DEF SerialNext, Handler, TxCall, Forced

-----------------------------------------------------------------------------
(* The handler leaves what the client holds alone.                         *)
LEMMA IsrKeepsClient == Isr => UNCHANGED client
BY DEF Isr, SetConfiguration, BusReset, TxDoneRefill, TxDoneDrain, TxDone, RxDoneQueue, RxDoneNothing, RxDone

LEMMA TypesStep ==
    ASSUME SerialInv, [SerialNext]_svars
    PROVE  SerialTypes'
<1>1. SerialTypes /\ usb_buffer_available \subseteq Packets /\ rx_queue \in Seq(Packets)
  BY DEF SerialInv, Inv, TypeOK
<1> USE SerialAssumption
<1>2. CASE HandlerStep
  BY <1>1, <1>2 DEF HandlerStep, SerialTypes, call
<1>3. CASE StartOfFrame
  <2>1. tx_packet' \in {tx_packet, None}
    BY <1>3 DEF StartOfFrame, FlushCallback
  <2>2. usb_cdc_transmit_flush_timer' \in 0 .. FlushTimeout
    BY <1>1, <1>3 DEF StartOfFrame, FlushCallback, SerialTypes
  <2> QED BY <1>1, <1>3, <2>1, <2>2 DEF StartOfFrame, SerialTypes, call
<1>4. CASE (BufferFreeBegin \/ BufferFreeEnd) /\ UNCHANGED lost
  BY <1>1, <1>4 DEF BufferFreeBegin, BufferFreeEnd, SerialTypes, PC
<1>5. CASE (BufferFreeMalloc \/ AcquireMalloc) /\ UNCHANGED lost
  BY <1>1, <1>5 DEF BufferFreeMalloc, AcquireMalloc, NewTxPacket, SerialTypes, PC
<1>6. CASE (WriteBegin \/ AcquireTest) /\ UNCHANGED lost
  BY <1>1, <1>6 DEF WriteBegin, AcquireTest, SerialTypes, PC
<1>7. CASE (AcquireWait \/ TxFailed) /\ UNCHANGED lost
  BY <1>1, <1>7 DEF AcquireWait, TxFailed, serial, SerialTypes, PC
<1>8. CASE Fill /\ UNCHANGED lost
  BY <1>1, <1>8 DEF Fill, SerialTypes, PC
<1>9. CASE FillEnd /\ UNCHANGED lost
  <2>1. /\ pc' \in {"acquire", "buffer_free", "idle"} /\ tx_packet' \in {tx_packet, None}
        /\ tx_noautoflush' \in {tx_noautoflush, FALSE}
        /\ usb_cdc_transmit_flush_timer' = FlushTimeout
        /\ UNCHANGED <<rx_packet, transmit_previous_timeout, lost>>
    BY <1>9 DEF FillEnd
  <2>2. FlushTimeout \in 0 .. FlushTimeout
    OBVIOUS
  <2> QED BY <1>1, <2>1, <2>2 DEF SerialTypes, PC
<1>10. CASE Recv
  <2>1. CASE RecvFirst
    <3>1. Head(rx_queue) \in Packets
      BY <1>1, <2>1 DEF RecvFirst, UsbRx
    <3> QED BY <1>1, <1>10, <2>1, <3>1 DEF Recv, RecvFirst, SerialTypes, call
  <2>2. CASE RecvLast
    BY <1>1, <1>10, <2>2 DEF Recv, RecvLast, SerialTypes, serial, PC
  <2>3. CASE RecvFree
    BY <1>1, <1>10, <2>3 DEF Recv, RecvFree, SerialTypes, PC
  <2> QED BY <1>10, <2>1, <2>2, <2>3 DEF Recv
<1>11. CASE Program
  BY <1>1, <1>11 DEF Program, CallTx, CallPoll, SerialTypes, serial, PC
<1>12. CASE ForcedBetween \/ ForcedFill
  BY <1>1, <1>12 DEF ForcedBetween, ForcedFill, Abandoned, SerialTypes, serial, PC
<1>13. CASE ForcedMalloc
  BY <1>1, <1>13 DEF ForcedMalloc, Abandoned, SerialTypes, serial, PC
<1>14. CASE ForcedRx
  <2>1. Head(rx_queue) \in Packets
    BY <1>1, <1>14 DEF ForcedRx, UsbRx
  <2> QED BY <1>1, <1>14, <2>1 DEF ForcedRx, SerialTypes, serial, call
<1>15. CASE ForcedFree \/ ForcedTorn
  BY <1>1, <1>15 DEF ForcedFree, ForcedTorn, Abandoned, SerialTypes, serial, PC
<1>16. CASE UNCHANGED svars
  BY <1>1, <1>16 DEF svars, serial, call, SerialTypes
<1> QED
  BY <1>2, <1>3, <1>4, <1>5, <1>6, <1>7, <1>8, <1>9, <1>10, <1>11, <1>12, <1>13, <1>14, <1>15, <1>16
  DEF SerialNext, Handler, TxCall, Forced

(* The counts of a call: usb_serial_tx never asks for more than is left,   *)
(* and what is left is 0 between calls.                                    *)
LEMMA CountsStep ==
    ASSUME SerialInv, [SerialNext]_svars
    PROVE  Counts'
<1>1. /\ Counts /\ CDC_TX_SIZE \in Nat \ {0} /\ MaxWrite \in Nat \ {0} /\ MaxBytes \in Nat
      /\ size \in Nat /\ remaining \in Nat /\ chunk \in Nat /\ written \in Nat
  BY SerialAssumption DEF SerialInv, Counts
<1>2. CASE HandlerStep \/ StartOfFrame
  BY <1>1, <1>2 DEF HandlerStep, StartOfFrame, call, Counts
<1>3. CASE BufferFreeBegin \/ BufferFreeMalloc
  BY <1>1, <1>3 DEF BufferFreeBegin, BufferFreeMalloc, Counts
<1>4. CASE BufferFreeEnd
  <2>1. UNCHANGED <<written, remaining, size, result>>
    BY <1>4 DEF BufferFreeEnd
  <2>2. CASE remaining = 0 /\ pc' = "idle" /\ UNCHANGED chunk
    BY <1>1, <2>1, <2>2 DEF Counts
  <2>3. CASE Room > 0 /\ chunk' = SmallerOf(Room, remaining) /\ pc' = "write"
    <3>1. Room \in Nat
      <4>1. pc = "buffer_some"
        BY <2>3 DEF Room
      <4>2. tx_packet \in Packets
        BY <4>1 DEF SerialInv, TxPacketAsTested, SerialTypes
      <4>3. Len(data[tx_packet]) \in Nat /\ Len(data[tx_packet]) <= CDC_TX_SIZE
        BY <4>2 DEF SerialInv, DataTypes
      <4> QED BY <1>1, <4>1, <4>3 DEF Room
    <3>2. chunk' \in 0 .. remaining
      BY <1>1, <2>3, <3>1 DEF SmallerOf
    <3> QED BY <1>1, <2>1, <2>3, <3>2 DEF Counts
  <2>4. CASE pc' = "buffer_free" /\ UNCHANGED chunk
    BY <1>1, <2>1, <2>4 DEF Counts
  <2> QED BY <1>4, <2>2, <2>3, <2>4 DEF BufferFreeEnd
<1>5. CASE WriteBegin \/ AcquireTest \/ AcquireMalloc \/ AcquireWait
  BY <1>1, <1>5 DEF WriteBegin, AcquireTest, AcquireMalloc, AcquireWait, Counts
<1>6. CASE Fill
  <2> DEFINE n == SmallerOf(CDC_TX_SIZE - Len(data[tx_packet]), chunk)
             m == Len(data[tx_packet])
  <2>1. /\ n \in 0 .. chunk /\ Len(Chunk) = n /\ tx_packet \in Packets
        /\ Len(data[tx_packet] \o Chunk) = m + n
        /\ (n < chunk => m + n = CDC_TX_SIZE)
    BY <1>6, ChunkFits DEF Fill
  <2>2. m \in Nat
    BY <2>1 DEF SerialInv, DataTypes
  <2>3. /\ written' = written + n /\ chunk' = chunk - n /\ remaining' = remaining - n
        /\ pc' = IF m + n >= CDC_TX_SIZE THEN "sent" ELSE "filled"
        /\ UNCHANGED <<size, result>>
    BY <1>6, <2>1 DEF Fill
  <2> HIDE DEF n, m
  <2>4. pc' = "filled" => n = chunk
    BY <1>1, <2>1, <2>2, <2>3
  <2> QED BY <1>1, <2>1, <2>3, <2>4 DEF Counts
<1>7. CASE FillEnd
  BY <1>1, <1>7 DEF FillEnd, Counts
<1>8. CASE TxFailed
  BY <1>1, <1>8 DEF TxFailed, Counts
<1>9. CASE Recv
  BY <1>1, <1>9 DEF Recv, RecvFirst, RecvLast, RecvFree, call, Counts
<1>10. ASSUME NEW n \in 1 .. MaxWrite, CallTx(n) PROVE Counts'
  BY <1>1, <1>10 DEF CallTx, Counts
<1>11. CASE CallPoll
  BY <1>1, <1>11 DEF CallPoll, Counts
<1>12. ASSUME Abandoned, written' = written PROVE Counts'
  BY <1>1, <1>12 DEF Abandoned, Counts
<1>13. CASE ForcedBetween \/ ForcedMalloc \/ ForcedFree
  BY <1>12, <1>13 DEF ForcedBetween, ForcedMalloc, ForcedFree
<1>14. CASE ForcedFill
  <2> DEFINE n == SmallerOf(CDC_TX_SIZE - Len(data[tx_packet]), chunk)
  <2>1. n \in 0 .. chunk /\ Len(Chunk) = n
    BY <1>14, ChunkFits DEF ForcedFill
  <2>2. written' = written + n /\ Abandoned
    BY <1>14, <2>1 DEF ForcedFill
  <2> HIDE DEF n
  <2> QED BY <1>1, <2>1, <2>2 DEF Abandoned, Counts
<1>15. CASE ForcedRx \/ ForcedTorn \/ UNCHANGED svars
  BY <1>1, <1>15 DEF ForcedRx, ForcedTorn, call, svars, Counts
<1> QED
  BY <1>2, <1>3, <1>4, <1>5, <1>6, <1>7, <1>8, <1>9, <1>10, <1>11, <1>13, <1>14, <1>15
  DEF SerialNext, Handler, TxCall, Program, Forced

(* Where the call is, the guard and the pointers.                          *)
Phase == GuardIsSet /\ TxPacketAsTested /\ FreesRxPacket

LEMMA PhaseStep ==
    ASSUME SerialInv, [SerialNext]_svars
    PROVE  Phase'
<1>1. /\ Phase /\ None \notin Packets /\ usb_buffer_available \subseteq Packets
      /\ Counts /\ (free_pc = "idle" <=> free_packet = None)
      /\ pc \in PC
  BY PacketsAssumption DEF SerialInv, Phase, Inv, TypeOK, SerialTypes
<1> USE DEF Phase, GuardIsSet, TxPacketAsTested, FreesRxPacket
<1>2. CASE HandlerStep
  BY <1>1, <1>2, IsrKeepsClient DEF HandlerStep, call, client
<1>3. CASE StartOfFrame
  <2>1. tx_packet' = tx_packet \/ (~tx_noautoflush /\ tx_packet' = None)
    BY <1>3 DEF StartOfFrame, FlushCallback
  <2>2. UNCHANGED <<pc, tx_noautoflush, rx_packet, free_pc, free_packet>>
    BY <1>3 DEF StartOfFrame, FlushCallback, call, client, vars
  <2> QED BY <1>1, <2>1, <2>2
<1>4. CASE BufferFreeBegin \/ BufferFreeEnd
  BY <1>1, <1>4 DEF BufferFreeBegin, BufferFreeEnd, vars, client
<1>5. CASE BufferFreeMalloc \/ AcquireMalloc
  BY <1>1, <1>5 DEF BufferFreeMalloc, AcquireMalloc, NewTxPacket, UsbMalloc, vars, client
<1>6. CASE WriteBegin \/ AcquireTest
  BY <1>1, <1>6 DEF WriteBegin, AcquireTest, vars, client
<1>7. CASE AcquireWait \/ TxFailed
  BY <1>1, <1>7 DEF AcquireWait, TxFailed, serial, vars, client
<1>8. CASE Fill
  <2>1. /\ pc = "fill" /\ pc' \in {"sent", "filled"}
        /\ UNCHANGED <<rx_packet, tx_packet, tx_noautoflush, free_pc, free_packet>>
    BY <1>8 DEF Fill, vars, client
  <2> QED BY <1>1, <2>1
<1>9. CASE FillEnd
  <2>1. pc = "filled" => chunk = 0
    BY <1>1 DEF Counts
  <2> QED BY <1>1, <1>9, <2>1 DEF FillEnd, vars, client
<1>10. CASE Recv
  <2>1. CASE RecvFirst
    BY <1>1, <2>1 DEF RecvFirst, UsbRx, call
  <2>2. CASE RecvLast
    BY <1>1, <2>2 DEF RecvLast, FreeTest, serial
  <2>3. CASE RecvFree
    BY <1>1, <2>3 DEF RecvFree, Free, FreeTest, FreeRelease, FreeGive, FreeFindsNone, FreeForget
  <2> QED BY <1>10, <2>1, <2>2, <2>3 DEF Recv
<1>11. CASE Program
  BY <1>1, <1>11 DEF Program, CallTx, CallPoll, serial, vars, client
<1>12. CASE ForcedBetween \/ ForcedFill
  BY <1>1, <1>12 DEF ForcedBetween, ForcedFill, Abandoned, serial, vars, client
<1>13. CASE ForcedMalloc
  BY <1>1, <1>13 DEF ForcedMalloc, Abandoned, UsbMalloc, serial
<1>14. CASE ForcedRx \/ ForcedFree
  BY <1>1, <1>14 DEF ForcedRx, ForcedFree, Abandoned, UsbRx, serial, call
<1>15. CASE ForcedTorn
  BY <1>15 DEF ForcedTorn
<1>16. CASE UNCHANGED svars
  BY <1>1, <1>16 DEF svars, serial, call, vars, client
<1> QED
  BY <1>2, <1>3, <1>4, <1>5, <1>6, <1>7, <1>8, <1>9, <1>10, <1>11, <1>12, <1>13, <1>14, <1>15, <1>16
  DEF SerialNext, Handler, TxCall, Forced

-----------------------------------------------------------------------------
(* What the client holds.  The steps that move no packet of the client ... *)
LEMMA HoldsSame ==
    ASSUME SerialInv, UNCHANGED <<client, rx_packet, lost>>,
           \/ pc' # "sent" /\ pc # "sent" /\ tx_packet' = tx_packet
           \/ pc' = pc /\ tx_packet' = tx_packet
           \/ pc' # "sent" /\ pc = "sent" /\ tx_packet' = None,
           pc # "torn" \/ pc' = "torn"
    PROVE  HoldsOnlyItsTwo'
<1>1. HoldsOnlyItsTwo
  BY DEF SerialInv
<1>2. CASE pc = "torn"
  BY <1>2 DEF HoldsOnlyItsTwo
<1>3. CASE pc # "torn"
  BY <1>1, <1>3 DEF HoldsOnlyItsTwo, client, InFree, Apart
<1> QED BY <1>2, <1>3

(* ... and those that take one more packet, which is nobody's yet.         *)
LEMMA NobodysPacket ==
    ASSUME SerialInv, pc # "torn", NEW p \in usb_buffer_available \cup Range(rx_queue)
    PROVE  /\ p \in Packets /\ p # None /\ p \notin held \cup InFree /\ p \notin lost
           /\ p # rx_packet /\ (pc # "sent" => p # tx_packet)
<1>1. p \in Packets /\ p # None
  BY PacketsAssumption DEF SerialInv, Inv, TypeOK, Range
<1>2. p \notin held \cup InFree
  BY DEF SerialInv, Inv, Exclusive, Flushed, Apart
<1> QED BY <1>1, <1>2 DEF SerialInv, HoldsOnlyItsTwo

LEMMA HoldsStep ==
    ASSUME SerialInv, [SerialNext]_svars
    PROVE  HoldsOnlyItsTwo'
<1>1. /\ HoldsOnlyItsTwo /\ FreesRxPacket /\ None \notin Packets
      /\ (free_pc = "idle" <=> free_packet = None)
  BY PacketsAssumption DEF SerialInv, Inv, TypeOK
<1>2. CASE HandlerStep
  BY <1>2, IsrKeepsClient, HoldsSame DEF HandlerStep, call
<1>3. CASE StartOfFrame
  <2>1. pc # "torn" /\ pc' = pc /\ UNCHANGED <<rx_packet, lost>>
    BY <1>3 DEF StartOfFrame, call
  <2>2. CASE UNCHANGED <<client, tx_packet>>
    BY <2>1, <2>2, HoldsSame
  <2>3. CASE /\ ~tx_noautoflush /\ tx_packet # None /\ tx_packet' = None
             /\ held' = held \ {tx_packet} /\ UNCHANGED <<free_pc, free_packet>>
    <3>1. pc # "sent"
      BY <2>3 DEF SerialInv, GuardIsSet
    <3>2. tx_packet \in held /\ tx_packet \notin InFree /\ InFree' = InFree
      <4>1. tx_packet \in held
        BY <2>1, <2>3, <3>1, TxPacketHeld
      <4> QED BY <2>3, <4>1 DEF SerialInv, Inv, Exclusive, Apart, InFree
    <3> QED BY <1>1, <2>1, <2>3, <3>1, <3>2 DEF HoldsOnlyItsTwo, Apart
  <2> QED BY <1>3, <2>2, <2>3 DEF StartOfFrame, FlushCallback, client, vars
<1>4. ASSUME NEW p \in usb_buffer_available, NewTxPacket(p), tx_packet = None,
             UNCHANGED <<rx_packet, lost>>, pc \notin {"sent", "torn"}, pc' # "sent"
      PROVE  HoldsOnlyItsTwo'
  <2>1. p # None /\ p \notin lost /\ p # rx_packet
    BY <1>4, NobodysPacket
  <2>2. tx_packet' = p /\ held' = held \cup {p} /\ InFree' = InFree
    BY <1>4 DEF NewTxPacket, UsbMalloc, InFree
  <2> QED BY <1>1, <1>4, <2>1, <2>2 DEF HoldsOnlyItsTwo, Apart
<1>5. CASE (BufferFreeMalloc \/ AcquireMalloc) /\ UNCHANGED lost
  <2>1. UNCHANGED rx_packet /\ pc \in {"buffer_malloc", "acquire_malloc"} /\ pc' \notin {"sent", "torn"}
    BY <1>5 DEF BufferFreeMalloc, AcquireMalloc
  <2>2. tx_packet = None
    BY <2>1 DEF SerialInv, TxPacketAsTested
  <2>3. CASE UNCHANGED <<vars, tx_packet>>
    BY <1>5, <2>1, <2>3, HoldsSame DEF vars
  <2> QED BY <1>4, <1>5, <2>1, <2>2, <2>3 DEF BufferFreeMalloc, AcquireMalloc
<1>6. CASE Fill /\ UNCHANGED lost
  <2>1. pc = "fill" /\ UNCHANGED <<rx_packet, tx_packet>>
    BY <1>6 DEF Fill
  <2>2. CASE pc' = "filled" /\ UNCHANGED vars
    BY <1>6, <2>1, <2>2, HoldsSame DEF vars
  <2>3. CASE pc' = "sent" /\ held' = held \ {tx_packet} /\ UNCHANGED <<free_pc, free_packet>>
    <3>1. tx_packet # None
      BY <2>1 DEF SerialInv, TxPacketAsTested
    <3>2. tx_packet \in held /\ tx_packet \notin InFree /\ InFree' = InFree
      <4>1. tx_packet \in held
        BY <2>1, <3>1, TxPacketHeld
      <4> QED BY <2>3, <4>1 DEF SerialInv, Inv, Exclusive, Apart, InFree
    <3> QED BY <1>1, <1>6, <2>1, <2>3, <3>1, <3>2 DEF HoldsOnlyItsTwo, Apart
  <2> QED BY <1>6, <2>2, <2>3 DEF Fill
<1>7. CASE /\ BufferFreeBegin \/ BufferFreeEnd \/ WriteBegin \/ AcquireTest \/ AcquireWait \/ TxFailed
           /\ UNCHANGED lost
  <2>1. /\ UNCHANGED <<client, rx_packet, tx_packet>>
        /\ pc \notin {"sent", "torn"} /\ pc' # "sent"
    BY <1>7 DEF BufferFreeBegin, BufferFreeEnd, WriteBegin, AcquireTest, AcquireWait, TxFailed, serial, vars
  <2> QED BY <1>7, <2>1, HoldsSame
<1>8. CASE FillEnd /\ UNCHANGED lost
  BY <1>8, HoldsSame DEF FillEnd, vars
<1>9. ASSUME UsbRx PROVE
        LET p == Head(rx_queue) IN
        /\ p \in usb_buffer_available \cup Range(rx_queue)
        /\ held' = held \cup {p} /\ InFree' = InFree
  <2>1. rx_queue \in Seq(Packets) /\ IsInjective(rx_queue) /\ rx_queue # <<>>
    BY <1>9 DEF UsbRx, SerialInv, Inv, TypeOK, Exclusive
  <2>2. Head(rx_queue) \in Range(rx_queue)
    BY <2>1, QueueTail
  <2> QED BY <1>9, <2>2 DEF UsbRx, InFree
<1>10. CASE Recv
  <2>1. CASE RecvFirst
    <3> DEFINE p == Head(rx_queue)
    <3>1. p \in usb_buffer_available \cup Range(rx_queue) /\ held' = held \cup {p} /\ InFree' = InFree
      BY <1>9, <2>1 DEF RecvFirst
    <3>2. /\ pc = "idle" /\ pc' = pc /\ rx_packet = None /\ rx_packet' = p
          /\ UNCHANGED <<tx_packet, lost>>
      BY <1>10, <2>1 DEF Recv, RecvFirst, call
    <3> HIDE DEF p
    <3>3. p # None /\ p \notin lost /\ p # tx_packet
      BY <3>1, <3>2, NobodysPacket
    <3> QED BY <1>1, <3>1, <3>2, <3>3 DEF HoldsOnlyItsTwo, Apart
  <2>2. CASE RecvLast
    <3>1. /\ pc = "idle" /\ pc' = "recv_free" /\ rx_packet # None /\ FreeTest(rx_packet)
          /\ UNCHANGED <<rx_packet, tx_packet, lost>>
      BY <1>10, <2>2 DEF Recv, RecvLast, serial
    <3>2. free_pc = "idle"
      BY <1>1, <3>1 DEF FreesRxPacket
    <3>3. InFree = {} /\ InFree' = {rx_packet} /\ held' = held \ {rx_packet} /\ rx_packet \in held
      BY <1>1, <3>1, <3>2 DEF FreeTest, InFree
    <3> QED BY <1>1, <3>1, <3>3 DEF HoldsOnlyItsTwo, Apart
  <2>3. CASE RecvFree
    <3>1. pc = "recv_free" /\ UNCHANGED <<tx_packet, lost>> /\ Free
      BY <1>10, <2>3 DEF Recv, RecvFree
    <3>2. free_pc # "idle" /\ free_packet = rx_packet /\ rx_packet # None
      BY <1>1, <3>1 DEF FreesRxPacket
    <3>3. InFree = {rx_packet} /\ rx_packet \notin held
      <4>1. InFree = {rx_packet}
        BY <3>2 DEF InFree
      <4> QED BY <4>1 DEF SerialInv, Inv, Exclusive, Apart
    <3>4. held' = held
      BY <3>1, <3>2, <3>3 DEF Free, FreeTest, FreeRelease, FreeGive, FreeFindsNone, FreeForget
    <3>5. CASE free_pc' = "idle"
      <4>1. free_packet' = None /\ pc' = "idle" /\ rx_packet' = None
        BY <2>3, <3>1, <3>5 DEF RecvFree, Free, FreeTest, FreeRelease, FreeGive, FreeFindsNone, FreeForget
      <4> QED BY <1>1, <3>1, <3>2, <3>3, <3>4, <4>1 DEF HoldsOnlyItsTwo, InFree, Apart
    <3>6. CASE free_pc' # "idle"
      <4>1. free_packet' = free_packet /\ pc' = pc /\ rx_packet' = rx_packet
        BY <2>3, <3>1, <3>2, <3>6 DEF RecvFree, Free, FreeTest, FreeRelease, FreeGive, FreeFindsNone, FreeForget
      <4> QED BY <1>1, <3>1, <3>4, <4>1 DEF HoldsOnlyItsTwo, InFree, Apart
    <3> QED BY <3>5, <3>6
  <2> QED BY <1>10, <2>1, <2>2, <2>3 DEF Recv
<1>11. CASE Program
  BY <1>11, HoldsSame DEF Program, CallTx, CallPoll, serial, vars
<1>12. CASE ForcedBetween
  BY <1>12, HoldsSame DEF ForcedBetween, Abandoned, serial, vars
<1>13. CASE ForcedFill
  BY <1>13, HoldsSame DEF ForcedFill, Abandoned, vars
<1>14. CASE ForcedMalloc
  <2>1. PICK p \in usb_buffer_available : UsbMalloc(p) /\ lost' = lost \cup {p}
    BY <1>14 DEF ForcedMalloc
  <2>2. /\ pc \in {"buffer_malloc", "acquire_malloc"} /\ pc' = "idle"
        /\ UNCHANGED <<rx_packet, tx_packet>>
    BY <1>14 DEF ForcedMalloc, Abandoned, serial
  <2>3. p # None /\ p \notin lost /\ p # rx_packet /\ p # tx_packet
    BY <2>2, NobodysPacket
  <2>4. held' = held \cup {p} /\ InFree' = InFree
    BY <2>1 DEF UsbMalloc, InFree
  <2> QED BY <1>1, <2>1, <2>2, <2>3, <2>4 DEF HoldsOnlyItsTwo, Apart
<1>15. CASE ForcedRx
  <2> DEFINE p == Head(rx_queue)
  <2>1. p \in usb_buffer_available \cup Range(rx_queue) /\ held' = held \cup {p} /\ InFree' = InFree
    BY <1>9, <1>15 DEF ForcedRx
  <2>2. pc = "idle" /\ pc' = pc /\ UNCHANGED <<rx_packet, tx_packet>> /\ lost' = lost \cup {p}
    BY <1>15 DEF ForcedRx, serial, call
  <2> HIDE DEF p
  <2>3. p # None /\ p # rx_packet /\ p # tx_packet
    BY <2>1, <2>2, NobodysPacket
  <2> QED BY <1>1, <2>1, <2>2, <2>3 DEF HoldsOnlyItsTwo, Apart
<1>16. CASE ForcedFree
  <2>1. /\ pc = "recv_free" /\ pc' = "idle" /\ UNCHANGED <<rx_packet, tx_packet, lost>>
        /\ held' = held \cup {free_packet} /\ free_packet' = None
    BY <1>16 DEF ForcedFree, Abandoned, serial
  <2>2. free_packet = rx_packet /\ rx_packet # None
    BY <1>1, <2>1 DEF FreesRxPacket
  <2> QED BY <1>1, <2>1, <2>2 DEF HoldsOnlyItsTwo, InFree, Apart
<1>17. CASE ForcedTorn
  BY <1>17 DEF ForcedTorn, HoldsOnlyItsTwo
<1>18. CASE UNCHANGED svars
  BY <1>1, <1>18 DEF svars, vars, client, serial, call, HoldsOnlyItsTwo, InFree, Apart
<1> QED
  BY <1>2, <1>3, <1>5, <1>6, <1>7, <1>8, <1>10, <1>11, <1>12, <1>13, <1>14, <1>15, <1>16, <1>17, <1>18
  DEF SerialNext, Handler, TxCall, Forced

-----------------------------------------------------------------------------
LEMMA SerialInvInit == SerialInit => SerialInv
<1> SUFFICES ASSUME SerialInit PROVE SerialInv
  OBVIOUS
<1>1. Inv
  BY InvInit DEF SerialInit
<1>2. SerialTypes
  <2>1. 0 \in 0 .. FlushTimeout
    BY SerialAssumption
  <2> QED BY <2>1 DEF SerialInit, SerialTypes, PC
<1>3. DataTypes
  <2>1. <<>> \in Seq(1 .. MaxBytes) /\ Len(<<>>) <= CDC_TX_SIZE
    BY SerialAssumption
  <2> QED BY <2>1 DEF SerialInit, DataTypes
<1>4. Counts
  BY SerialAssumption DEF SerialInit, Counts
<1>5. Phase /\ HoldsOnlyItsTwo
  BY DEF SerialInit, Init, Phase, GuardIsSet, TxPacketAsTested, FreesRxPacket,
     HoldsOnlyItsTwo, InFree, Apart
<1> QED BY <1>1, <1>2, <1>3, <1>4, <1>5 DEF SerialInv, Phase

LEMMA SerialInvStep == SerialInv /\ [SerialNext]_svars => SerialInv'
BY PacketsStep, TypesStep, DataStep, CountsStep, PhaseStep, HoldsStep DEF SerialInv, Phase

LEMMA SerialInvCorrect == SerialSpec => []SerialInv
BY SerialInvInit, SerialInvStep, PTL DEF SerialSpec

(* Every variable of the port keeps its type: no packet is filled beyond   *)
(* its size, and a call never has more bytes left than it was given, in    *)
(* every interleaving of calls, flush callback, host and forced jumps.     *)
THEOREM SerialTypeCorrect == SerialSpec => []SerialTypeOK
<1>1. SerialInv => SerialTypeOK
  BY DEF SerialInv, Inv, SerialTypes, DataTypes, Counts, SerialTypeOK
<1> QED BY <1>1, SerialInvCorrect, PTL

(* usb_serial.c holds exactly rx_packet and tx_packet, and the packets a   *)
(* forced jump lost: no callback and no failed write leaks one.            *)
THEOREM HoldsCorrect == SerialSpec => []HoldsOnlyItsTwo
<1>1. SerialInv => HoldsOnlyItsTwo
  BY DEF SerialInv
<1> QED BY <1>1, SerialInvCorrect, PTL

(* The flush callback never sends the packet a writer is about to fill.    *)
THEOREM WriterCorrect == SerialSpec => []WriterOwnsPacket
<1>1. SerialInv => WriterOwnsPacket
  <2> SUFFICES ASSUME SerialInv, pc \in {"buffer_some", "fill"} PROVE tx_packet \in held
    BY DEF WriterOwnsPacket
  <2>1. tx_packet # None
    BY DEF SerialInv, TxPacketAsTested
  <2> QED BY <2>1, TxPacketHeld
<1> QED BY <1>1, SerialInvCorrect, PTL

-----------------------------------------------------------------------------
(***************************************************************************)
(* Flattening.  FlattenSeq(s) is the end of the sequence of its partial    *)
(* results.                                                                *)
(***************************************************************************)
IsFlattening(g, s) ==
    g[0] = <<>> /\ \A i \in 1 .. Len(s) : g[i] = g[i - 1] \o s[i]

LEMMA FlatteningExists ==
    ASSUME NEW S, NEW s \in Seq(Seq(S))
    PROVE  \E g \in [0 .. Len(s) -> Seq(S)] : IsFlattening(g, s)
<1> DEFINE n == Len(s)
           G == [acc \in Seq(S) |-> [i \in 1 .. n |-> acc \o s[i]]]
<1>1. n \in Nat /\ \A i \in 1 .. n : s[i] \in Seq(S)
  OBVIOUS
<1>2. <<>> \in Seq(S)
  OBVIOUS
<1> HIDE DEF n
<1>3. \A acc \in Seq(S) : \A i \in 1 .. n : acc \o s[i] \in Seq(S)
  BY <1>1
<1>4. G \in [Seq(S) -> [1 .. n -> Seq(S)]]
  BY <1>3
<1>5. \A acc \in Seq(S) : \A i \in 1 .. n : G[acc][i] = acc \o s[i]
  OBVIOUS
<1> HIDE DEF G
<1>6. PICK g \in [0 .. n -> Seq(S)] : IsIteration(g, <<>>, G, n)
  BY <1>1, <1>2, <1>4, IterationExists
<1>7. ASSUME NEW i \in 1 .. n PROVE g[i] = g[i - 1] \o s[i]
  <2>1. i - 1 \in 0 .. n /\ g[i - 1] \in Seq(S)
    BY <1>1
  <2> QED BY <1>5, <1>6, <2>1 DEF IsIteration
<1>8. IsFlattening(g, s)
  BY <1>6, <1>7 DEF IsFlattening, IsIteration, n
<1> QED BY <1>8 DEF n

LEMMA FlattenIs ==
    ASSUME NEW S, NEW s \in Seq(Seq(S)),
           NEW g \in [0 .. Len(s) -> Seq(S)], IsFlattening(g, s)
    PROVE  FlattenSeq(s) = g[Len(s)]
<1>1. Len(s) \in Nat /\ \A i \in 1 .. Len(s) : s[i] \in Seq(S)
  OBVIOUS
<1>2. CASE Len(s) = 0
  <2>1. FlattenSeq(s) = s
    BY <1>2 DEF FlattenSeq
  <2>2. s = <<>>
    BY <1>2
  <2> QED BY <1>2, <2>1, <2>2 DEF IsFlattening
<1>3. CASE Len(s) # 0
  <2> DEFINE n == Len(s)
             Flat(f) == f = [i \in 1 .. n |-> IF i = 1 THEN s[i] ELSE f[i - 1] \o s[i]]
             c == CHOOSE f : Flat(f)
             h == [i \in 1 .. n |-> g[i]]
  <2>1. FlattenSeq(s) = c[n]
    BY <1>3, Zenon DEF FlattenSeq
  <2>2. Flat(h)
    <3>1. ASSUME NEW i \in 1 .. n
          PROVE  g[i] = IF i = 1 THEN s[i] ELSE h[i - 1] \o s[i]
      <4>1. g[i] = g[i - 1] \o s[i]
        BY DEF IsFlattening
      <4>2. CASE i = 1
        <5>1. g[i - 1] = <<>> /\ s[i] \in Seq(S)
          BY <1>1, <4>2 DEF IsFlattening
        <5> QED BY <4>1, <4>2, <5>1, ConcatEmptySeq
      <4>3. CASE i # 1
        <5>1. i - 1 \in 1 .. n /\ h[i - 1] = g[i - 1]
          BY <1>1, <4>3
        <5> QED BY <4>1, <4>3, <5>1
      <4> QED BY <4>2, <4>3
    <3> QED BY <3>1, Zenon
  <2>3. Flat(c)
    BY <2>2, Zenon
  <2> DEFINE T == {k \in Nat : k + 1 \in 1 .. n => c[k + 1] = g[k + 1]}
  <2>4. 0 \in T
    <3>1. 0 + 1 = 1 /\ 1 \in 1 .. n /\ 1 - 1 = 0 /\ s[1] \in Seq(S)
      BY <1>1, <1>3
    <3>5. \A i \in 1 .. n : c[i] = IF i = 1 THEN s[i] ELSE c[i - 1] \o s[i]
      BY <2>3, Zenon
    <3> HIDE DEF c
    <3>2. c[1] = s[1]
      BY <3>1, <3>5
    <3>3. g[1] = <<>> \o s[1]
      BY <3>1 DEF IsFlattening
    <3>4. <<>> \o s[1] = s[1]
      BY <3>1, ConcatEmptySeq
    <3> QED BY <3>1, <3>2, <3>3, <3>4
  <2>5. ASSUME NEW k \in Nat, k \in T PROVE k + 1 \in T
    <3> SUFFICES ASSUME (k + 1) + 1 \in 1 .. n PROVE c[(k + 1) + 1] = g[(k + 1) + 1]
      BY <2>5
    <3> DEFINE i == (k + 1) + 1
    <3>1. i \in 1 .. n /\ i # 1 /\ i - 1 = k + 1 /\ k + 1 \in 1 .. n
      BY <1>1
    <3>2. \A j \in 1 .. n : c[j] = IF j = 1 THEN s[j] ELSE c[j - 1] \o s[j]
      BY <2>3, Zenon
    <3> HIDE DEF c
    <3>3. c[k + 1] = g[k + 1]
      BY <2>5, <3>1
    <3> HIDE DEF i
    <3>4. c[i] = c[k + 1] \o s[i]
      BY <3>1, <3>2
    <3>5. g[i] = g[k + 1] \o s[i]
      BY <3>1 DEF IsFlattening
    <3> QED BY <3>3, <3>4, <3>5 DEF i
  <2> HIDE DEF T
  <2>6. n - 1 \in T
    <3>1. n - 1 \in Nat
      BY <1>1, <1>3
    <3>2. \A k \in Nat : k \in T => k + 1 \in T
      BY <2>5
    <3>3. Nat \subseteq T
      BY <2>4, <3>2, SetInduction
    <3> QED BY <3>1, <3>3
  <2>7. c[n] = g[n]
    <3>1. (n - 1) + 1 = n /\ n \in 1 .. n
      BY <1>1, <1>3
    <3> HIDE DEF c
    <3> QED BY <2>6, <3>1 DEF T
  <2> QED BY <2>1, <2>7
<1> QED BY <1>2, <1>3

LEMMA FlattenEmpty == FlattenSeq(<<>>) = <<>>
BY DEF FlattenSeq

LEMMA FlattenType ==
    ASSUME NEW S, NEW s \in Seq(Seq(S))
    PROVE  FlattenSeq(s) \in Seq(S)
<1>1. PICK g \in [0 .. Len(s) -> Seq(S)] : IsFlattening(g, s)
  BY FlatteningExists
<1>2. FlattenSeq(s) = g[Len(s)]
  BY <1>1, FlattenIs
<1>3. Len(s) \in 0 .. Len(s)
  OBVIOUS
<1> QED BY <1>2, <1>3

LEMMA FlattenAppend ==
    ASSUME NEW S, NEW s \in Seq(Seq(S)), NEW x \in Seq(S)
    PROVE  FlattenSeq(Append(s, x)) = FlattenSeq(s) \o x
<1> DEFINE a == Append(s, x)
<1>1. /\ a \in Seq(Seq(S)) /\ Len(a) = Len(s) + 1 /\ Len(s) \in Nat
      /\ \A i \in 1 .. Len(s) : a[i] = s[i]
      /\ a[Len(s) + 1] = x
  BY AppendProperties
<1> HIDE DEF a
<1>2. PICK g \in [0 .. Len(a) -> Seq(S)] : IsFlattening(g, a)
  BY <1>1, FlatteningExists
<1>3. FlattenSeq(a) = g[Len(a)]
  BY <1>1, <1>2, FlattenIs
<1> DEFINE h == [i \in 0 .. Len(s) |-> g[i]]
<1>4. h \in [0 .. Len(s) -> Seq(S)]
  BY <1>1
<1>5. IsFlattening(h, s)
  <2>1. h[0] = <<>>
    BY <1>1, <1>2 DEF IsFlattening
  <2>2. ASSUME NEW i \in 1 .. Len(s) PROVE h[i] = h[i - 1] \o s[i]
    <3>1. i \in 1 .. Len(a) /\ h[i] = g[i] /\ h[i - 1] = g[i - 1] /\ a[i] = s[i]
      BY <1>1
    <3> QED BY <1>2, <3>1 DEF IsFlattening
  <2> HIDE DEF h
  <2> QED BY <2>1, <2>2 DEF IsFlattening
<1>6. h[Len(s)] = g[Len(s)]
  BY <1>1
<1> HIDE DEF h
<1>7. FlattenSeq(s) = h[Len(s)]
  BY <1>4, <1>5, FlattenIs
<1>8. g[Len(s) + 1] = g[Len(s)] \o x
  <2>1. Len(s) + 1 \in 1 .. Len(a) /\ (Len(s) + 1) - 1 = Len(s)
    BY <1>1
  <2> QED BY <1>1, <1>2, <2>1 DEF IsFlattening
<1> QED BY <1>1, <1>3, <1>6, <1>7, <1>8 DEF a

LEMMA FlattenHead ==
    ASSUME NEW S, NEW s \in Seq(Seq(S)), s # <<>>
    PROVE  FlattenSeq(s) = Head(s) \o FlattenSeq(Tail(s))
<1>0. \A a, b, c \in Seq(S) : (a \o b) \o c = a \o (b \o c)
  BY ConcatAssociative
<1> DEFINE t == Tail(s)
<1>1. /\ t \in Seq(Seq(S)) /\ Len(t) = Len(s) - 1 /\ Len(s) \in Nat \ {0}
      /\ \A i \in 1 .. Len(s) - 1 : t[i] = s[i + 1]
      /\ Head(s) = s[1] /\ Head(s) \in Seq(S)
  OBVIOUS
<1> HIDE DEF t
<1>2. PICK g \in [0 .. Len(t) -> Seq(S)] : IsFlattening(g, t)
  BY <1>1, FlatteningExists
<1>3. FlattenSeq(t) = g[Len(t)]
  BY <1>1, <1>2, FlattenIs
<1> DEFINE x == Head(s)
           h == [i \in 0 .. Len(s) |-> IF i = 0 THEN <<>> ELSE x \o g[i - 1]]
<1> HIDE DEF x
<1>4. x \in Seq(S) /\ x = s[1]
  BY <1>1 DEF x
<1>5. h \in [0 .. Len(s) -> Seq(S)]
  <2>1. ASSUME NEW i \in 0 .. Len(s), i # 0 PROVE x \o g[i - 1] \in Seq(S)
    <3>1. i - 1 \in 0 .. Len(t)
      BY <1>1, <2>1
    <3>2. g[i - 1] \in Seq(S)
      BY <3>1
    <3> QED BY <1>4, <3>2
  <2> QED BY <2>1
<1>6. h[0] = <<>> /\ \A k \in 0 .. Len(t) : h[k + 1] = x \o g[k]
  <2>1. ASSUME NEW k \in 0 .. Len(t) PROVE h[k + 1] = x \o g[k]
    <3>1. k + 1 \in 0 .. Len(s) /\ k + 1 # 0 /\ (k + 1) - 1 = k
      BY <1>1
    <3> QED BY <3>1
  <2>2. h[0] = <<>>
    BY <1>1
  <2> QED BY <2>1, <2>2
<1> HIDE DEF h
<1>7. IsFlattening(h, s)
  <2>1. h[1] = h[0] \o s[1]
    <3>1. 0 \in 0 .. Len(t) /\ 0 + 1 = 1
      BY <1>1
    <3>2. h[1] = x \o <<>>
      BY <1>2, <1>6, <3>1 DEF IsFlattening
    <3>3. x \o <<>> = x /\ <<>> \o x = x
      BY <1>4, ConcatEmptySeq
    <3> QED BY <1>4, <1>6, <3>2, <3>3
  <2>2. ASSUME NEW k \in 1 .. Len(t) PROVE h[k + 1] = h[k] \o s[k + 1]
    <3> DEFINE u == g[k - 1]
               v == t[k]
    <3>1. k - 1 \in 0 .. Len(t) /\ k \in 0 .. Len(t) /\ (k - 1) + 1 = k /\ k \in 1 .. Len(s) - 1
      BY <1>1
    <3>2. u \in Seq(S) /\ v \in Seq(S) /\ v = s[k + 1]
      <4>1. u \in Seq(S)
        BY <3>1
      <4>2. v \in Seq(S)
        BY <1>1
      <4> QED BY <1>1, <3>1, <4>1, <4>2
    <3>3. g[k] = u \o v
      BY <1>2 DEF IsFlattening
    <3>4. h[k] = x \o u
      BY <1>6, <3>1
    <3>5. h[k + 1] = x \o g[k]
      BY <1>6, <3>1
    <3> HIDE DEF u, v
    <3>7. x \in Seq(S) /\ u \in Seq(S) /\ v \in Seq(S)
      BY <1>4, <3>2
    <3>6. (x \o u) \o v = x \o (u \o v)
      BY <1>0, <3>7
    <3> QED BY <3>2, <3>3, <3>4, <3>5, <3>6
  <2>3. ASSUME NEW i \in 1 .. Len(s) PROVE h[i] = h[i - 1] \o s[i]
    <3>1. CASE i = 1
      <4>1. i - 1 = 0
        BY <3>1
      <4> QED BY <2>1, <3>1, <4>1
    <3>2. CASE i # 1
      <4>1. i - 1 \in 1 .. Len(t) /\ (i - 1) + 1 = i
        BY <1>1, <3>2
      <4> QED BY <2>2, <4>1
    <3> QED BY <3>1, <3>2
  <2> QED BY <1>6, <2>3 DEF IsFlattening
<1>8. FlattenSeq(s) = h[Len(s)]
  BY <1>5, <1>7, FlattenIs
<1>9. h[Len(s)] = x \o g[Len(t)]
  <2>1. Len(t) \in 0 .. Len(t) /\ Len(t) + 1 = Len(s)
    BY <1>1
  <2> QED BY <1>6, <2>1
<1> QED BY <1>3, <1>8, <1>9 DEF x, t

-----------------------------------------------------------------------------
(* The bytes of a sequence of packets, packet after packet.                *)
BytesOf(s, d) == FlattenSeq([i \in DOMAIN s |-> d[s[i]]])

ByteTable == [Packets -> Seq(1 .. MaxBytes)]

LEMMA PacketBytes ==
    ASSUME NEW s \in Seq(Packets), NEW d \in ByteTable
    PROVE  LET b == [i \in DOMAIN s |-> d[s[i]]] IN
           /\ b \in Seq(Seq(1 .. MaxBytes)) /\ Len(b) = Len(s)
           /\ \A i \in 1 .. Len(s) : b[i] = d[s[i]]
<1>1. DOMAIN s = 1 .. Len(s) /\ Len(s) \in Nat /\ \A i \in 1 .. Len(s) : s[i] \in Packets
  OBVIOUS
<1> DEFINE B == Seq(1 .. MaxBytes)
           b == [i \in 1 .. Len(s) |-> d[s[i]]]
<1> HIDE DEF B
<1>2. \A i \in 1 .. Len(s) : d[s[i]] \in B
  BY <1>1 DEF ByteTable, B
<1>3. b \in Seq(B) /\ Len(b) = Len(s) /\ \A i \in 1 .. Len(s) : b[i] = d[s[i]]
  BY <1>1, <1>2
<1> QED BY <1>1, <1>3 DEF B

LEMMA NoBytes == \A d : BytesOf(<<>>, d) = <<>>
<1> TAKE d
<1>1. [i \in DOMAIN <<>> |-> d[<<>>[i]]] = <<>>
  OBVIOUS
<1> QED BY <1>1, FlattenEmpty DEF BytesOf

LEMMA BytesType ==
    ASSUME NEW s \in Seq(Packets), NEW d \in ByteTable
    PROVE  BytesOf(s, d) \in Seq(1 .. MaxBytes)
BY PacketBytes, FlattenType DEF BytesOf

LEMMA BytesAppend ==
    ASSUME NEW s \in Seq(Packets), NEW d \in ByteTable, NEW p \in Packets
    PROVE  BytesOf(Append(s, p), d) = BytesOf(s, d) \o d[p]
<1> DEFINE B == 1 .. MaxBytes
           b == [i \in DOMAIN s |-> d[s[i]]]
           a == [i \in DOMAIN Append(s, p) |-> d[Append(s, p)[i]]]
<1>1. /\ Append(s, p) \in Seq(Packets) /\ Len(Append(s, p)) = Len(s) + 1 /\ Len(s) \in Nat
      /\ \A i \in 1 .. Len(s) : Append(s, p)[i] = s[i]
      /\ Append(s, p)[Len(s) + 1] = p
  OBVIOUS
<1>2. b \in Seq(Seq(B)) /\ Len(b) = Len(s) /\ \A i \in 1 .. Len(s) : b[i] = d[s[i]]
  BY PacketBytes
<1>3. /\ a \in Seq(Seq(B)) /\ Len(a) = Len(s) + 1
      /\ \A i \in 1 .. Len(s) + 1 : a[i] = d[Append(s, p)[i]]
  BY <1>1, PacketBytes
<1>4. d[p] \in Seq(B)
  BY DEF ByteTable
<1> HIDE DEF a, b, B
<1>5. a = Append(b, d[p])
  <2>1. /\ Append(b, d[p]) \in Seq(Seq(B)) /\ Len(Append(b, d[p])) = Len(s) + 1
        /\ \A i \in 1 .. Len(s) : Append(b, d[p])[i] = b[i]
        /\ Append(b, d[p])[Len(s) + 1] = d[p]
    BY <1>2, <1>4, AppendProperties
  <2>2. ASSUME NEW i \in 1 .. Len(s) + 1 PROVE a[i] = Append(b, d[p])[i]
    <3>1. CASE i = Len(s) + 1
      BY <1>1, <1>3, <2>1, <3>1
    <3>2. CASE i \in 1 .. Len(s)
      BY <1>1, <1>2, <1>3, <2>1, <3>2
    <3>3. i = Len(s) + 1 \/ i \in 1 .. Len(s)
      <4>1. Len(s) \in Nat
        BY <1>1
      <4> QED BY <4>1
    <3> QED BY <3>1, <3>2, <3>3
  <2> QED BY <1>3, <2>1, <2>2, SeqEqual
<1>6. FlattenSeq(Append(b, d[p])) = FlattenSeq(b) \o d[p]
  BY <1>2, <1>4, FlattenAppend
<1> QED BY <1>5, <1>6 DEF BytesOf, a, b

LEMMA BytesHead ==
    ASSUME NEW s \in Seq(Packets), NEW d \in ByteTable, s # <<>>
    PROVE  BytesOf(s, d) = d[Head(s)] \o BytesOf(Tail(s), d)
<1> DEFINE B == 1 .. MaxBytes
           b == [i \in DOMAIN s |-> d[s[i]]]
           t == Tail(s)
           a == [i \in DOMAIN t |-> d[t[i]]]
<1>1. /\ t \in Seq(Packets) /\ Len(t) = Len(s) - 1 /\ Len(s) \in Nat \ {0}
      /\ \A i \in 1 .. Len(t) : t[i] = s[i + 1]
      /\ Head(s) = s[1] /\ Head(s) \in Packets
  OBVIOUS
<1>2. b \in Seq(Seq(B)) /\ Len(b) = Len(s) /\ \A i \in 1 .. Len(s) : b[i] = d[s[i]]
  BY PacketBytes
<1> HIDE DEF t
<1>3. a \in Seq(Seq(B)) /\ Len(a) = Len(t) /\ \A i \in 1 .. Len(t) : a[i] = d[t[i]]
  BY <1>1, PacketBytes
<1> HIDE DEF a, b, B
<1>4. b # <<>> /\ Head(b) = d[Head(s)]
  BY <1>1, <1>2
<1>5. a = Tail(b)
  <2>1. /\ Tail(b) \in Seq(Seq(B)) /\ Len(Tail(b)) = Len(s) - 1
        /\ \A i \in 1 .. Len(s) - 1 : Tail(b)[i] = b[i + 1]
    BY <1>2, <1>4, HeadTailProperties
  <2>2. ASSUME NEW i \in 1 .. Len(t) PROVE a[i] = Tail(b)[i]
    <3>1. i \in 1 .. Len(s) - 1 /\ i + 1 \in 1 .. Len(s)
      BY <1>1
    <3> QED BY <1>1, <1>2, <1>3, <2>1, <3>1
  <2> QED BY <1>1, <1>3, <2>1, <2>2, SeqEqual
<1>6. FlattenSeq(b) = Head(b) \o FlattenSeq(Tail(b))
  BY <1>2, <1>4, FlattenHead
<1> QED BY <1>4, <1>5, <1>6 DEF BytesOf, a, b, t

LEMMA BytesSame ==
    ASSUME NEW s \in Seq(Packets), NEW d \in ByteTable, NEW e \in ByteTable,
           \A p \in Range(s) : d[p] = e[p]
    PROVE  BytesOf(s, d) = BytesOf(s, e)
<1> DEFINE f == [i \in DOMAIN s |-> d[s[i]]]
           g == [i \in DOMAIN s |-> e[s[i]]]
<1>1. \A i \in DOMAIN s : s[i] \in Range(s)
  BY DEF Range
<1>2. \A i \in DOMAIN s : d[s[i]] = e[s[i]]
  BY <1>1
<1>3. f = g
  BY <1>2
<1> QED BY <1>3 DEF BytesOf

(* Taking the first bytes off a sequence.                                  *)
LEMMA DropFirst ==
    ASSUME NEW S, NEW a \in Seq(S), NEW b \in Seq(S)
    PROVE  SubSeq(a \o b, Len(a) + 1, Len(a \o b)) = b
<1> DEFINE c == a \o b
           r == SubSeq(c, Len(a) + 1, Len(c))
<1>1. /\ c \in Seq(S) /\ Len(c) = Len(a) + Len(b) /\ Len(a) \in Nat /\ Len(b) \in Nat
      /\ \A i \in 1 .. Len(a) + Len(b) : c[i] = IF i <= Len(a) THEN a[i] ELSE b[i - Len(a)]
  BY ConcatProperties
<1> HIDE DEF c
<1>2. \A i \in Len(a) + 1 .. Len(c) : c[i] \in S
  BY <1>1
<1>3. /\ r \in Seq(S) /\ Len(r) = Len(b)
      /\ \A i \in 1 .. Len(b) : r[i] = c[Len(a) + i]
  <2>1. Len(a) + 1 \in Int /\ Len(c) \in Int
    BY <1>1
  <2>2. /\ r \in Seq(S)
        /\ Len(r) = IF Len(a) + 1 <= Len(c) THEN Len(c) - (Len(a) + 1) + 1 ELSE 0
        /\ \A i \in 1 .. Len(c) - (Len(a) + 1) + 1 : r[i] = c[(Len(a) + 1) + i - 1]
    BY <1>2, <2>1, SubSeqProperties
  <2> HIDE DEF r
  <2>3. Len(r) = Len(b)
    BY <1>1, <2>2
  <2>4. ASSUME NEW i \in 1 .. Len(b) PROVE r[i] = c[Len(a) + i]
    <3>1. i \in 1 .. Len(c) - (Len(a) + 1) + 1 /\ (Len(a) + 1) + i - 1 = Len(a) + i
      BY <1>1
    <3> QED BY <2>2, <3>1
  <2> QED BY <2>2, <2>3, <2>4
<1> HIDE DEF r
<1>4. ASSUME NEW i \in 1 .. Len(b) PROVE r[i] = b[i]
  <2>1. /\ Len(a) + i \in 1 .. Len(a) + Len(b) /\ ~(Len(a) + i <= Len(a))
        /\ (Len(a) + i) - Len(a) = i
    BY <1>1
  <2> QED BY <1>1, <1>3, <2>1
<1>5. r = b
  BY <1>3, <1>4, SeqEqual
<1> QED BY <1>5 DEF r, c

-----------------------------------------------------------------------------
(***************************************************************************)
(* The transmit FIFO under the port, towards a host that configures the    *)
(* device once.  A port that was never configured has sent nothing.        *)
(***************************************************************************)
PortInv == SerialInv /\ FifoInv

LEMMA PortInvInit == SerialInit => PortInv
BY SerialInvInit, FifoInvInit DEF SerialInit, PortInv

LEMMA PortFifoStep ==
    ASSUME HostMayReconfigure = FALSE, PortInv, [SerialNext]_svars
    PROVE  PortInv' /\ [Fifo!Next]_TxPending
<1>1. SerialInv /\ FifoInv /\ SerialInv' /\ Inv' /\ PacketsMove
  <2>1. SerialInv /\ FifoInv
    BY DEF PortInv
  <2>2. SerialInv'
    BY <2>1, SerialInvStep
  <2>3. PacketsMove
    BY <2>1, PacketsMoveStep
  <2> QED BY <2>1, <2>2, <2>3 DEF SerialInv
<1>2. TypeOK /\ TxStateAgrees /\ Exclusive /\ InStep /\ (usb_configuration = 0 => Unused)
  BY <1>1 DEF FifoInv, Inv
<1>3. CASE [Next]_vars
  BY <1>1, <1>3, FifoInvStep, FifoStep DEF PortInv
<1>4. CASE TakenBack
  <2>1. UNCHANGED <<tx, usb_configuration>> /\ free_pc # "idle"
    BY <1>4 DEF TakenBack, bus
  <2>2. InStep' /\ UNCHANGED TxPending
    BY <1>2, <2>1 DEF tx, InStep, FirstBank, TxPending, InBank
  <2>3. usb_configuration' # 0
    BY <1>2, <2>1 DEF Unused
  <2> QED BY <1>1, <2>2, <2>3 DEF FifoInv, PortInv
<1>5. ASSUME NEW p \in held \cup usb_buffer_available, HandedOver(p),
             p \in held \/ usb_configuration # 0
      PROVE  PortInv' /\ [Fifo!Next]_TxPending
  <2>1. p \in Packets /\ Transmit(p) /\ usb_configuration' = usb_configuration
    BY <1>2, <1>5 DEF TypeOK, HandedOver, bus
  <2>2. InStep' /\ TxPending' = Append(TxPending, p)
    BY <1>2, <2>1, TransmitAppends
  <2>3. p \notin Range(TxPending)
    BY <1>2, PendingRange DEF Exclusive, Flushed, Apart
  <2>4. p \notin Fifo!Range(TxPending)
    BY <2>3 DEF Fifo!Range, Range
  <2>5. Fifo!Next
    BY <2>1, <2>2, <2>4 DEF Fifo!Next, Fifo!Accept
  <2>6. usb_configuration' # 0
    BY <1>2, <1>5, <2>1 DEF Unused
  <2> QED BY <1>1, <2>2, <2>5, <2>6 DEF FifoInv, PortInv
<1> QED BY <1>1, <1>3, <1>4, <1>5 DEF PacketsMove

(* Under the port, too, the endpoint is one FIFO: the flush callback, the  *)
(* writer and forced jumps together hand no packet over twice or out of    *)
(* turn.                                                                   *)
THEOREM PortFifoCorrect ==
    ASSUME HostMayReconfigure = FALSE
    PROVE  SerialSpec => TxInOrder
<1>1. SerialInit => Fifo!Init
  <2> SUFFICES ASSUME SerialInit PROVE TxPending = <<>>
    BY DEF Fifo!Init
  <2> QED BY DEF SerialInit, Init, TxPending, InBank, Empty, Other, Banks
<1>2. PortInv /\ [SerialNext]_svars => PortInv' /\ [Fifo!Next]_TxPending
  BY PortFifoStep
<1> QED BY <1>1, <1>2, PortInvInit, PTL DEF SerialSpec, TxInOrder, Fifo!Spec

-----------------------------------------------------------------------------
(***************************************************************************)
(* The byte stream.  Only packets that wait hold bytes: a packet that      *)
(* usb_malloc returns is as empty as its header says.  And while tx_packet *)
(* still points at a packet that was sent, the client does not hold it.    *)
(***************************************************************************)
WaitingHold == \A p \in Packets : data[p] # <<>> => p \in Waiting
SentIsGone == pc = "sent" => tx_packet \notin held
StreamInv == PortInv /\ WaitingHold /\ SentIsGone

Unsent == IF tx_packet \in held THEN data[tx_packet] ELSE <<>>

LEMMA StreamIs ==
    /\ StreamNow = BytesOf(TxPending, data) \o Unsent
    /\ StreamNow' = BytesOf(TxPending', data') \o Unsent'
BY DEF StreamNow, BytesOf, Unsent

(* What the invariant says of the parts of the stream.                     *)
PortFacts ==
    /\ TxPending \in Seq(Packets)
    /\ Range(TxPending) = Armed(tx_table) \cup Range(tx_queue)
    /\ data \in ByteTable
    /\ held \subseteq Packets
    /\ Unsent \in Seq(1 .. MaxBytes)
    /\ BytesOf(TxPending, data) \in Seq(1 .. MaxBytes)

LEMMA PortFactsHold == PortInv => PortFacts
<1> SUFFICES ASSUME PortInv PROVE PortFacts
  OBVIOUS
<1>1. TypeOK /\ TxStateAgrees /\ InStep /\ DataTypes
  BY DEF PortInv, SerialInv, FifoInv, Inv
<1>2. TxPending \in Seq(Packets) /\ Range(TxPending) = Armed(tx_table) \cup Range(tx_queue)
  BY <1>1, PendingRange
<1>3. data \in ByteTable /\ held \subseteq Packets
  BY <1>1 DEF DataTypes, ByteTable, TypeOK
<1>4. Unsent \in Seq(1 .. MaxBytes)
  <2>1. CASE tx_packet \in held
    BY <1>3, <2>1 DEF Unsent, ByteTable
  <2>2. CASE tx_packet \notin held
    BY <2>2 DEF Unsent
  <2> QED BY <2>1, <2>2
<1>5. BytesOf(TxPending, data) \in Seq(1 .. MaxBytes)
  BY <1>2, <1>3, BytesType
<1> QED BY <1>2, <1>3, <1>4, <1>5 DEF PortFacts

StreamStep == WaitingHold' /\ SentIsGone' /\ [Stream!Next]_(Stream!vars)

(* The steps that touch neither the bytes nor the packets they are in.     *)
LEMMA QuietStep ==
    ASSUME StreamInv, UNCHANGED <<tx, data, written, tx_packet>>,
           tx_packet \in held <=> tx_packet \in held',
           pc' # "sent" \/ pc' = pc
    PROVE  StreamStep
<1>1. UNCHANGED <<TxPending, Unsent>>
  BY DEF tx, TxPending, InBank, Unsent
<1>2. UNCHANGED Stream!vars
  BY <1>1, StreamIs DEF Stream!vars
<1>3. Waiting' = Waiting
  BY DEF Waiting, tx
<1>4. WaitingHold'
  BY <1>3 DEF StreamInv, WaitingHold
<1>5. SentIsGone'
  BY DEF StreamInv, SentIsGone
<1> QED BY <1>2, <1>4, <1>5 DEF StreamStep

(* The host takes a packet with what is in it: bytes are sent.             *)
LEMMA SendStep ==
    ASSUME NEW a \in Seq(1 .. MaxBytes), NEW b \in Seq(1 .. MaxBytes),
           StreamNow = a \o b, StreamNow' = b, UNCHANGED written
    PROVE  [Stream!Next]_(Stream!vars)
<1>1. CASE a = <<>>
  <2>1. StreamNow' = StreamNow
    BY <1>1, ConcatEmptySeq
  <2> QED BY <2>1 DEF Stream!vars
<1>2. CASE a # <<>>
  <2>1. Len(a) \in 1 .. Len(a \o b)
    BY <1>2
  <2>2. SubSeq(a \o b, Len(a) + 1, Len(a \o b)) = b
    BY DropFirst
  <2>3. Stream!Send
    BY <2>1, <2>2 DEF Stream!Send
  <2> QED BY <2>3 DEF Stream!Next
<1> QED BY <1>1, <1>2

LEMMA HandlerStream ==
    ASSUME HostMayReconfigure = FALSE, StreamInv, PortFacts, PortFacts', PortInv',
           HandlerStep
    PROVE  StreamStep
<1>1. PortInv /\ SerialInv /\ FifoInv /\ PortFacts
  BY DEF StreamInv, PortInv
<1>2. Isr /\ UNCHANGED <<tx_packet, written, pc, lost>>
  BY DEF HandlerStep, call
<1>3. UNCHANGED held
  BY <1>2, IsrKeepsClient DEF client
<1>4. \A p \in Packets : data'[p] = IF p \in Waiting' THEN data[p] ELSE <<>>
  BY DEF HandlerStep
<1>5. Waiting' = Range(TxPending') \cup (held \cap {tx_packet})
  BY <1>2, <1>3 DEF Waiting, PortFacts
<1>6. WaitingHold' /\ SentIsGone'
  BY <1>2, <1>3, <1>4 DEF WaitingHold, SentIsGone, StreamInv
<1>7. Unsent' = Unsent
  <2>1. CASE tx_packet \in held
    BY <1>1, <1>2, <1>3, <1>4, <1>5, <2>1 DEF Unsent, PortFacts
  <2>2. CASE tx_packet \notin held
    BY <1>2, <1>3, <2>2 DEF Unsent
  <2> QED BY <2>1, <2>2
<1>8. BytesOf(TxPending', data') = BytesOf(TxPending', data)
  <2>1. TxPending' \in Seq(Packets) /\ data \in ByteTable /\ data' \in ByteTable
    BY <1>1 DEF PortFacts
  <2>2. \A p \in Range(TxPending') : p \in Packets
    BY <2>1 DEF Range
  <2>3. \A p \in Range(TxPending') : data'[p] = data[p]
    BY <1>4, <1>5, <2>2
  <2> DEFINE s == TxPending'
             d == data'
  <2> HIDE DEF s, d
  <2>4. s \in Seq(Packets) /\ d \in ByteTable /\ \A p \in Range(s) : d[p] = data[p]
    BY <2>1, <2>3 DEF s, d
  <2>5. BytesOf(s, d) = BytesOf(s, data)
    BY <2>1, <2>4, BytesSame
  <2> QED BY <2>5 DEF s, d
<1>9. StreamNow' = BytesOf(TxPending', data) \o Unsent
  BY <1>7, <1>8, StreamIs
<1>10. [Next]_vars
  BY <1>2 DEF Next
<1>11. CASE TxDoneRefill \/ TxDoneDrain
  <2>1. TxPending # <<>> /\ TxPending' = Tail(TxPending)
    BY <1>1, <1>11, TxDoneTakesFirst DEF FifoInv, Inv
  <2> DEFINE a == data[Head(TxPending)]
             b == BytesOf(Tail(TxPending), data)
  <2>2. BytesOf(TxPending, data) = a \o b
    BY <1>1, <2>1, BytesHead DEF PortFacts
  <2>3. Head(TxPending) \in Packets /\ Tail(TxPending) \in Seq(Packets)
    BY <1>1, <2>1 DEF PortFacts
  <2>4. a \in Seq(1 .. MaxBytes) /\ b \in Seq(1 .. MaxBytes) /\ Unsent \in Seq(1 .. MaxBytes)
    BY <1>1, <2>3, BytesType DEF PortFacts, ByteTable
  <2>5. StreamNow' = b \o Unsent /\ StreamNow = (a \o b) \o Unsent
    BY <1>9, <2>1, <2>2, StreamIs
  <2> HIDE DEF a, b
  <2>6. (a \o b) \o Unsent = a \o (b \o Unsent)
    BY <2>4, ConcatAssociative
  <2>7. b \o Unsent \in Seq(1 .. MaxBytes)
    BY <2>4
  <2>8. StreamNow = a \o (b \o Unsent)
    BY <2>5, <2>6
  <2> DEFINE c == b \o Unsent
  <2> HIDE DEF c
  <2>9. c \in Seq(1 .. MaxBytes) /\ StreamNow = a \o c /\ StreamNow' = c
    BY <2>5, <2>7, <2>8 DEF c
  <2>10. [Stream!Next]_(Stream!vars)
    BY <1>2, <2>4, <2>9, SendStep
  <2> QED BY <1>6, <2>10 DEF StreamStep
<1>12. CASE ~(TxDoneRefill \/ TxDoneDrain)
  <2>1. TxPending' = TxPending
    <3>1. ASSUME NEW config \in {0, 1}, SetConfiguration(config) PROVE TxPending' = TxPending
      <4>1. usb_configuration = 0
        BY <3>1 DEF SetConfiguration
      <4>2. FifoInv'
        BY DEF PortInv
      <4> QED BY <1>1, <3>1, <4>1, <4>2, FirstConfiguration
    <3>2. CASE RxDoneQueue \/ RxDoneNothing
      BY <3>2 DEF RxDoneQueue, RxDoneNothing, RxDone, tx, TxPending, InBank
    <3>3. ~BusReset
      BY DEF BusReset
    <3> QED BY <1>2, <1>12, <3>1, <3>2, <3>3 DEF Isr
  <2>2. StreamNow' = StreamNow
    BY <1>9, <2>1, StreamIs
  <2> QED BY <1>2, <1>6, <2>2 DEF StreamStep, Stream!vars
<1> QED BY <1>11, <1>12

(* A packet is handed over: it goes to the end, with its bytes.            *)
LEMMA HandOverStream ==
    ASSUME StreamInv, PortFacts, PortFacts', NEW p \in held \cup usb_buffer_available, HandedOver(p)
    PROVE  /\ p \in Packets /\ p \notin Range(TxPending)
           /\ TxPending' = Append(TxPending, p)
           /\ Range(TxPending') = Range(TxPending) \cup {p}
<1>1. TypeOK /\ TxStateAgrees /\ Exclusive /\ InStep
  BY DEF StreamInv, PortInv, FifoInv, Inv
<1>2. p \in Packets /\ Transmit(p)
  BY <1>1 DEF TypeOK, HandedOver
<1>3. p \notin Armed(tx_table) /\ p \notin Range(tx_queue)
  BY <1>1 DEF Exclusive, Flushed, Apart
<1>4. TxPending' = Append(TxPending, p)
  BY <1>1, <1>2, TransmitAppends
<1>5. Armed(tx_table') \cup Range(tx_queue') = Armed(tx_table) \cup Range(tx_queue) \cup {p}
  BY <1>1, <1>2, <1>3, TransmitOwns
<1>6. Range(TxPending') = Armed(tx_table') \cup Range(tx_queue')
  BY DEF PortFacts
<1> QED BY <1>2, <1>3, <1>4, <1>5, <1>6 DEF PortFacts

(* The flush callback sends tx_packet, whose bytes were last anyway, or an *)
(* empty packet.                                                           *)
LEMMA FrameStream ==
    ASSUME StreamInv, PortFacts, PortFacts', StartOfFrame
    PROVE  StreamStep
<1>1. /\ SerialInv /\ Inv /\ WaitingHold /\ SentIsGone
      /\ UNCHANGED <<data, written, pc>> /\ pc # "torn"
  BY DEF StreamInv, PortInv, SerialInv, StartOfFrame, call
<1>2. CASE UNCHANGED <<vars, tx_packet>>
  BY <1>1, <1>2, QuietStep DEF vars, client
<1>3. CASE /\ ~tx_noautoflush /\ tx_packet # None /\ Transmit(tx_packet)
           /\ held' = held \ {tx_packet} /\ tx_packet' = None
           /\ UNCHANGED <<pool, rx, bus, free_pc, free_packet>>
  <2>1. pc # "sent"
    BY <1>1, <1>3 DEF SerialInv, GuardIsSet
  <2>2. tx_packet \in held /\ tx_packet \in Packets /\ None \notin held
    <3>1. tx_packet \in held
      BY <1>1, <1>3, <2>1, TxPacketHeld
    <3> QED BY <1>1, <3>1, PacketsAssumption DEF Inv, TypeOK
  <2>3. HandedOver(tx_packet)
    <3>1. usb_buffer_available \ {tx_packet} = usb_buffer_available
      BY <1>1, <2>2 DEF Inv, Exclusive, Apart
    <3> QED BY <1>3, <3>1 DEF HandedOver, pool
  <2>4. /\ TxPending' = Append(TxPending, tx_packet)
        /\ Range(TxPending') = Range(TxPending) \cup {tx_packet}
    BY <2>2, <2>3, HandOverStream
  <2>5. Unsent = data[tx_packet] /\ Unsent' = <<>>
    BY <1>3, <2>2 DEF Unsent
  <2>6. StreamNow' = BytesOf(Append(TxPending, tx_packet), data) \o <<>>
    BY <1>1, <2>4, <2>5, StreamIs
  <2>7. BytesOf(Append(TxPending, tx_packet), data) = BytesOf(TxPending, data) \o data[tx_packet]
    BY <2>2, BytesAppend DEF PortFacts
  <2>8. BytesOf(TxPending, data) \o Unsent \in Seq(1 .. MaxBytes)
    BY DEF PortFacts
  <2>9. StreamNow' = StreamNow
    <3> DEFINE c == BytesOf(TxPending, data) \o Unsent
    <3>1. BytesOf(Append(TxPending, tx_packet), data) = c
      BY <2>5, <2>7
    <3> HIDE DEF c
    <3>2. c \in Seq(1 .. MaxBytes)
      BY <2>8 DEF c
    <3>3. StreamNow' = c
      BY <2>6, <3>1, <3>2, ConcatEmptySeq
    <3> QED BY <3>3, StreamIs DEF c
  <2>10. WaitingHold'
    <3> SUFFICES ASSUME NEW p \in Packets, data'[p] # <<>> PROVE p \in Waiting'
      BY DEF WaitingHold
    <3>1. p \in Range(TxPending) \cup (held \cap {tx_packet})
      BY <1>1 DEF WaitingHold, Waiting, PortFacts
    <3>2. p \in Range(TxPending')
      BY <2>4, <3>1
    <3> QED BY <3>2 DEF Waiting, PortFacts
  <2>11. SentIsGone'
    BY <1>1, <2>1 DEF SentIsGone
  <2> QED BY <1>1, <2>9, <2>10, <2>11 DEF StreamStep, Stream!vars
<1>4. ASSUME NEW p \in usb_buffer_available, Transmit(p), tx_packet' = tx_packet,
             usb_buffer_available' = usb_buffer_available \ {p},
             UNCHANGED <<usb_rx_memory_needed, rx, bus, client>>
      PROVE  StreamStep
  <2>1. p \in Packets /\ p \notin Waiting /\ p \notin held
    BY <1>1 DEF Inv, TypeOK, Exclusive, Flushed, Apart, Waiting
  <2>2. HandedOver(p)
    BY <1>4, <2>1 DEF HandedOver, client
  <2>3. /\ TxPending' = Append(TxPending, p)
        /\ Range(TxPending') = Range(TxPending) \cup {p}
    BY <2>2, HandOverStream
  <2>4. data[p] = <<>>
    BY <1>1, <2>1 DEF WaitingHold
  <2>5. Unsent' = Unsent
    BY <1>1, <1>4 DEF Unsent, client
  <2>6. BytesOf(Append(TxPending, p), data) = BytesOf(TxPending, data) \o <<>>
    BY <2>1, <2>4, BytesAppend DEF PortFacts
  <2>7. BytesOf(TxPending, data) \o <<>> = BytesOf(TxPending, data)
    BY ConcatEmptySeq DEF PortFacts
  <2>8. BytesOf(TxPending', data') = BytesOf(TxPending, data)
    BY <1>1, <2>3, <2>6, <2>7
  <2>9. StreamNow' = StreamNow
    BY <2>5, <2>8, StreamIs
  <2>10. WaitingHold'
    <3> SUFFICES ASSUME NEW q \in Packets, data'[q] # <<>> PROVE q \in Waiting'
      BY DEF WaitingHold
    <3>1. q \in Range(TxPending) \cup (held \cap {tx_packet})
      BY <1>1 DEF WaitingHold, Waiting, PortFacts
    <3> QED BY <1>4, <2>3, <3>1 DEF Waiting, PortFacts, client
  <2>11. SentIsGone'
    BY <1>1, <1>4 DEF SentIsGone, client
  <2> QED BY <1>1, <2>9, <2>10, <2>11 DEF StreamStep, Stream!vars
<1> QED BY <1>2, <1>3, <1>4 DEF StartOfFrame, FlushCallback

(* A new tx_packet is empty.                                               *)
LEMMA NewPacketStream ==
    ASSUME StreamInv, NEW p \in usb_buffer_available, NewTxPacket(p),
           tx_packet = None, pc' # "sent", UNCHANGED written
    PROVE  StreamStep
<1>1. SerialInv /\ Inv /\ DataTypes /\ WaitingHold
  BY DEF StreamInv, PortInv, SerialInv
<1>2. p \in Packets /\ p \notin Waiting
  BY <1>1 DEF Inv, TypeOK, Exclusive, Flushed, Apart, Waiting
<1>3. data[p] = <<>>
  BY <1>1, <1>2 DEF WaitingHold
<1>4. data' = data
  BY <1>1, <1>2, <1>3 DEF NewTxPacket, DataTypes
<1>5. tx_packet' = p /\ held' = held \cup {p} /\ UNCHANGED tx
  BY DEF NewTxPacket, UsbMalloc
<1>6. None \notin held
  BY <1>1, PacketsAssumption DEF Inv, TypeOK
<1>7. Unsent = <<>> /\ Unsent' = <<>>
  BY <1>3, <1>4, <1>5, <1>6 DEF Unsent
<1>8. TxPending' = TxPending
  BY <1>5 DEF tx, TxPending, InBank
<1>9. StreamNow' = StreamNow
  BY <1>4, <1>7, <1>8, StreamIs
<1>10. WaitingHold'
  <2>1. \A q \in Waiting : q \in Waiting'
    BY <1>5, <1>6 DEF Waiting, tx
  <2> QED BY <1>1, <1>4, <2>1 DEF WaitingHold
<1>11. SentIsGone'
  BY DEF SentIsGone
<1> QED BY <1>9, <1>10, <1>11 DEF StreamStep, Stream!vars

(* The copy writes the next bytes behind all that wait, and a full packet  *)
(* takes them along to the end of the queue.                               *)
LEMMA WriteStep ==
    ASSUME NEW n \in Nat, written \in Nat, Chunk = [i \in 1 .. n |-> written + i],
           written' = written + n, StreamNow \in Seq(1 .. MaxBytes),
           StreamNow' = StreamNow \o Chunk
    PROVE  [Stream!Next]_(Stream!vars)
<1>1. CASE n = 0
  <2>1. Chunk = <<>>
    BY <1>1
  <2>2. StreamNow' = StreamNow /\ written' = written
    BY <1>1, <2>1, ConcatEmptySeq
  <2> QED BY <2>2 DEF Stream!vars
<1>2. CASE n # 0
  <2>1. written' > written /\ written' - written = n
    BY <1>2
  <2>2. Stream!Write
    BY <2>1 DEF Stream!Write
  <2> QED BY <2>2 DEF Stream!Next
<1> QED BY <1>1, <1>2

LEMMA FillStream ==
    ASSUME StreamInv, PortFacts, PortFacts', pc = "fill", tx_packet' = tx_packet,
           data' = [data EXCEPT ![tx_packet] = data[tx_packet] \o Chunk],
           written' = written + Len(Chunk),
           \/ UNCHANGED vars /\ pc' # "sent"
           \/ HandedOver(tx_packet)
    PROVE  StreamStep
<1>1. SerialInv /\ WaitingHold /\ written \in Nat
  BY SerialAssumption DEF StreamInv, PortInv, SerialInv, Counts
<1>2. tx_packet \in held /\ tx_packet \in Packets
  <2>1. tx_packet # None
    BY <1>1 DEF SerialInv, TxPacketAsTested
  <2>2. tx_packet \in held
    BY <1>1, <2>1, TxPacketHeld
  <2> QED BY <2>2 DEF PortFacts
<1> DEFINE x == data[tx_packet]
           d == x \o Chunk
           B == 1 .. MaxBytes
           s == BytesOf(TxPending, data)
<1>3. x \in Seq(B) /\ Chunk \in Seq(B) /\ d \in Seq(B)
  BY <1>1, <1>2, ChunkFits DEF PortFacts, ByteTable
<1>4. data'[tx_packet] = d /\ \A p \in Packets : p # tx_packet => data'[p] = data[p]
  BY <1>2 DEF PortFacts, ByteTable
<1>5. tx_packet \notin Range(TxPending)
  BY <1>1, <1>2 DEF PortFacts, SerialInv, Inv, Exclusive, Apart
<1>6. BytesOf(TxPending, data') = s
  <2>1. \A p \in Range(TxPending) : p \in Packets
    BY DEF PortFacts, Range
  <2>2. \A p \in Range(TxPending) : data'[p] = data[p]
    BY <1>4, <1>5, <2>1
  <2> DEFINE e == data'
  <2>3. e \in ByteTable
    BY DEF PortFacts
  <2>4. \A p \in Range(TxPending) : e[p] = data[p]
    BY <2>2
  <2> HIDE DEF e
  <2>5. BytesOf(TxPending, e) = BytesOf(TxPending, data)
    BY <2>3, <2>4, BytesSame DEF PortFacts
  <2> QED BY <2>5 DEF e
<1>7. Unsent = x /\ s \in Seq(B)
  BY <1>2 DEF Unsent, PortFacts
<1>8. StreamNow = s \o x /\ StreamNow \in Seq(B)
  <2>1. StreamNow = s \o x
    BY <1>7, StreamIs
  <2> QED BY <1>3, <1>7, <2>1
<1>9. StreamNow \o Chunk = s \o d
  <2> HIDE DEF x, s, B
  <2>1. (s \o x) \o Chunk = s \o (x \o Chunk)
    BY <1>3, <1>7, ConcatAssociative
  <2> QED BY <1>8, <2>1
<1>12. /\ Len(Chunk) \in Nat /\ Chunk = [i \in 1 .. Len(Chunk) |-> written + i]
       /\ written' = written + Len(Chunk)
  BY <1>1, ChunkFits DEF Chunk
<1> HIDE DEF d
<1>10. CASE UNCHANGED vars /\ pc' # "sent"
  <2>1. TxPending' = TxPending /\ held' = held
    BY <1>10 DEF vars, client, tx, TxPending, InBank
  <2>2. Unsent' = d
    BY <1>2, <1>4, <2>1 DEF Unsent
  <2>3. StreamNow' = s \o d
    BY <1>6, <2>1, <2>2, StreamIs
  <2>4. Waiting' = Waiting
    BY <1>10 DEF Waiting, vars, client, tx
  <2>5. WaitingHold'
    <3> SUFFICES ASSUME NEW p \in Packets, data'[p] # <<>> PROVE p \in Waiting'
      BY DEF WaitingHold
    <3>1. CASE p = tx_packet
      BY <1>2, <2>4, <3>1 DEF Waiting
    <3>2. CASE p # tx_packet
      BY <1>1, <1>4, <2>4, <3>2 DEF WaitingHold
    <3> QED BY <3>1, <3>2
  <2>6. SentIsGone'
    BY <1>10 DEF SentIsGone
  <2>7. StreamNow' = StreamNow \o Chunk
    BY <1>9, <2>3
  <2> QED BY <1>1, <1>8, <1>12, <2>5, <2>6, <2>7, WriteStep DEF StreamStep
<1>11. CASE HandedOver(tx_packet)
  <2>1. /\ TxPending' = Append(TxPending, tx_packet)
        /\ Range(TxPending') = Range(TxPending) \cup {tx_packet}
    BY <1>2, <1>11, HandOverStream
  <2>2. tx_packet' \notin held'
    BY <1>11 DEF HandedOver
  <2>3. Unsent' = <<>>
    BY <2>2 DEF Unsent
  <2> DEFINE e == data'
  <2>4. e \in ByteTable /\ e[tx_packet] = d /\ BytesOf(TxPending, e) = s
    BY <1>4, <1>6 DEF PortFacts
  <2>5. StreamNow' = BytesOf(TxPending', e) \o <<>>
    BY <2>3, StreamIs
  <2> HIDE DEF e
  <2>6. BytesOf(Append(TxPending, tx_packet), e) = BytesOf(TxPending, e) \o e[tx_packet]
    BY <1>2, <2>4, BytesAppend DEF PortFacts
  <2>7. BytesOf(TxPending', e) = s \o d
    BY <2>1, <2>4, <2>6
  <2>8. StreamNow' = StreamNow \o Chunk
    <3>1. StreamNow \o Chunk \in Seq(B)
      BY <1>3, <1>8
    <3> DEFINE c == StreamNow \o Chunk
    <3>2. StreamNow' = c \o <<>> /\ c \in Seq(B)
      BY <1>9, <2>5, <2>7, <3>1
    <3> HIDE DEF c, B
    <3>3. StreamNow' = c
      BY <3>2, ConcatEmptySeq
    <3> QED BY <3>3 DEF c
  <2>9. Range(TxPending') \subseteq Waiting'
    BY DEF PortFacts, Waiting
  <2>10. WaitingHold'
    <3> SUFFICES ASSUME NEW p \in Packets, data'[p] # <<>> PROVE p \in Waiting'
      BY DEF WaitingHold
    <3>1. CASE p = tx_packet
      BY <2>1, <2>9, <3>1
    <3>2. CASE p # tx_packet
      <4>1. p \in Waiting
        BY <1>1, <1>4, <3>2 DEF WaitingHold
      <4>2. p \in Range(TxPending)
        BY <3>2, <4>1 DEF Waiting, PortFacts
      <4> QED BY <2>1, <2>9, <4>2
    <3> QED BY <3>1, <3>2
  <2>11. SentIsGone'
    BY <2>2 DEF SentIsGone
  <2> QED BY <1>1, <1>8, <1>12, <2>8, <2>10, <2>11, WriteStep DEF StreamStep
<1> QED BY <1>10, <1>11

(* The steps of usb_free.                                                  *)
LEMMA FreeKeepsHeld ==
    ASSUME SerialInv, pc = "recv_free", Free
    PROVE  UNCHANGED <<held, tx>>
<1>1. free_pc # "idle" /\ free_packet = rx_packet /\ free_packet # None
  BY DEF SerialInv, FreesRxPacket, Inv, TypeOK
<1>2. InFree = {rx_packet}
  BY <1>1 DEF InFree
<1>3. rx_packet \notin held
  BY <1>2 DEF SerialInv, Inv, Exclusive, Apart
<1> QED BY <1>1, <1>3 DEF Free, FreeTest, FreeRelease, FreeGive, FreeFindsNone, FreeForget

LEMMA ReceiveStream ==
    ASSUME StreamInv, Recv \/ ForcedRx \/ ForcedFree \/ ForcedTorn
    PROVE  StreamStep
<1>1. SerialInv /\ Exclusive /\ HoldsOnlyItsTwo /\ FreesRxPacket
  BY DEF StreamInv, PortInv, SerialInv, Inv
<1>2. ASSUME UsbRx, rx_packet = None, pc = "idle", UNCHANGED <<data, written, tx_packet, pc>>
      PROVE  StreamStep
  <2> DEFINE p == Head(rx_queue)
  <2>1. rx_queue \in Seq(Packets) /\ IsInjective(rx_queue) /\ rx_queue # <<>>
    BY <1>1, <1>2 DEF UsbRx, SerialInv, Inv, TypeOK, Exclusive
  <2>2. p \in Range(rx_queue)
    BY <2>1, QueueTail
  <2>3. held' = held \cup {p} /\ UNCHANGED tx
    BY <1>2 DEF UsbRx
  <2> HIDE DEF p
  <2>4. p # tx_packet
    BY <1>1, <1>2, <2>2, NobodysPacket
  <2> QED BY <1>2, <2>3, <2>4, QuietStep
<1>3. CASE RecvFirst
  BY <1>2, <1>3 DEF RecvFirst, call
<1>4. CASE ForcedRx
  BY <1>2, <1>4 DEF ForcedRx, serial, call
<1>5. CASE RecvLast
  <2>1. /\ pc = "idle" /\ pc' = "recv_free" /\ FreeTest(rx_packet) /\ rx_packet # None
        /\ UNCHANGED <<data, written, tx_packet>>
    BY <1>5 DEF RecvLast, serial
  <2>2. held' = held \ {rx_packet} /\ UNCHANGED tx
    BY <2>1 DEF FreeTest
  <2>3. rx_packet # tx_packet
    BY <1>1, <2>1 DEF HoldsOnlyItsTwo
  <2> QED BY <2>1, <2>2, <2>3, QuietStep
<1>6. CASE RecvFree
  <2>1. /\ pc = "recv_free" /\ pc' \in {"idle", pc} /\ Free
        /\ UNCHANGED <<data, written, tx_packet>>
    BY <1>6 DEF RecvFree
  <2>2. UNCHANGED <<held, tx>>
    BY <1>1, <2>1, FreeKeepsHeld
  <2> QED BY <2>1, <2>2, QuietStep
<1>7. CASE ForcedFree
  <2>1. /\ pc = "recv_free" /\ pc' = "idle" /\ UNCHANGED <<tx, data, written, tx_packet>>
        /\ held' = held \cup {free_packet}
    BY <1>7 DEF ForcedFree, Abandoned, serial
  <2>2. free_packet = rx_packet /\ rx_packet # tx_packet
    BY <1>1, <2>1 DEF FreesRxPacket, HoldsOnlyItsTwo, SerialInv, Inv, TypeOK
  <2> QED BY <2>1, <2>2, QuietStep
<1>8. CASE ForcedTorn
  <2>1. pc' = "torn" /\ UNCHANGED <<data, written, tx_packet>>
    BY <1>8 DEF ForcedTorn, serial
  <2>2. UNCHANGED <<held, tx>>
    BY <1>1, <1>8, FreeKeepsHeld DEF ForcedTorn, vars, client
  <2> QED BY <2>1, <2>2, QuietStep
<1> QED BY <1>3, <1>4, <1>5, <1>6, <1>7, <1>8 DEF Recv

(* The steps of the calls that write.                                      *)
LEMMA CallStream ==
    ASSUME StreamInv, PortFacts, PortFacts', TxCall \/ ForcedFill
    PROVE  StreamStep
<1>1. SerialInv /\ SentIsGone
  BY DEF StreamInv, PortInv
<1>2. CASE BufferFreeMalloc \/ AcquireMalloc
  <2>1. /\ pc \in {"buffer_malloc", "acquire_malloc"} /\ pc' # "sent" /\ UNCHANGED written
        /\ \/ \E p \in usb_buffer_available : NewTxPacket(p)
           \/ UNCHANGED <<vars, tx_packet, data>>
    BY <1>2 DEF BufferFreeMalloc, AcquireMalloc
  <2>2. tx_packet = None
    BY <1>1, <2>1 DEF SerialInv, TxPacketAsTested
  <2>3. CASE UNCHANGED <<vars, tx_packet, data>>
    BY <2>1, <2>3, QuietStep DEF vars, client
  <2> QED BY <2>1, <2>2, <2>3, NewPacketStream
<1>3. CASE Fill
  <2>1. /\ pc = "fill" /\ tx_packet' = tx_packet
        /\ data' = [data EXCEPT ![tx_packet] = data[tx_packet] \o Chunk]
        /\ written' = written + Len(Chunk)
        /\ \/ /\ Transmit(tx_packet) /\ held' = held \ {tx_packet}
              /\ UNCHANGED <<pool, rx, bus, free_pc, free_packet>>
           \/ pc' = "filled" /\ UNCHANGED vars
    BY <1>3 DEF Fill
  <2>2. tx_packet \in held
    BY <1>1, <2>1, TxPacketHeld DEF SerialInv, TxPacketAsTested
  <2>3. usb_buffer_available \ {tx_packet} = usb_buffer_available
    BY <1>1, <2>2 DEF SerialInv, Inv, Exclusive, Apart
  <2>4. HandedOver(tx_packet) \/ (UNCHANGED vars /\ pc' # "sent")
    BY <2>1, <2>3 DEF HandedOver, pool
  <2> QED BY <2>1, <2>4, FillStream
<1>4. CASE ForcedFill
  BY <1>4, FillStream DEF ForcedFill, Abandoned
<1>5. CASE FillEnd
  <2>1. /\ pc \in {"filled", "sent"} /\ pc' # "sent" /\ UNCHANGED <<vars, data, written>>
        /\ tx_packet' = IF pc = "sent" THEN None ELSE tx_packet
    BY <1>5 DEF FillEnd
  <2>2. None \notin held
    BY <1>1, PacketsAssumption DEF SerialInv, Inv, TypeOK
  <2>3. tx_packet \in held <=> tx_packet' \in held'
    BY <1>1, <2>1, <2>2 DEF SentIsGone, vars, client
  <2>4. tx_packet \in held => tx_packet' = tx_packet
    BY <1>1, <2>1 DEF SentIsGone
  <2>5. UNCHANGED <<TxPending, Unsent>>
    BY <2>1, <2>3, <2>4 DEF vars, tx, TxPending, InBank, Unsent
  <2>6. UNCHANGED Stream!vars
    BY <2>1, <2>5, StreamIs DEF Stream!vars
  <2>7. Waiting' = Waiting
    <3>1. held \cap {tx_packet} = held' \cap {tx_packet'}
      BY <2>1, <2>3, <2>4 DEF vars, client
    <3> QED BY <2>1, <3>1 DEF Waiting, vars, tx
  <2>8. WaitingHold' /\ SentIsGone'
    BY <2>1, <2>7 DEF StreamInv, WaitingHold, SentIsGone
  <2> QED BY <2>6, <2>8 DEF StreamStep
<1>6. CASE BufferFreeBegin \/ BufferFreeEnd \/ WriteBegin \/ AcquireTest \/ AcquireWait \/ TxFailed
  <2>1. UNCHANGED <<vars, data, written, tx_packet>> /\ pc' # "sent"
    BY <1>6 DEF BufferFreeBegin, BufferFreeEnd, WriteBegin, AcquireTest, AcquireWait, TxFailed, serial
  <2> QED BY <2>1, QuietStep DEF vars, client
<1> QED BY <1>2, <1>3, <1>4, <1>5, <1>6 DEF TxCall

LEMMA StreamInvStep ==
    ASSUME HostMayReconfigure = FALSE, StreamInv, [SerialNext]_svars
    PROVE  StreamInv' /\ [Stream!Next]_(Stream!vars)
<1>1. PortInv /\ PortFacts /\ SerialInv
  BY PortFactsHold DEF StreamInv, PortInv
<1>2. PortInv'
  BY <1>1, PortFifoStep
<1>3. (PortInv => PortFacts)'
  BY PortFactsHold, PTL
<1>4. PortFacts'
  BY <1>2, <1>3
<1> SUFFICES StreamStep
  BY <1>2 DEF StreamStep, StreamInv
<1>5. CASE HandlerStep
  BY <1>1, <1>2, <1>4, <1>5, HandlerStream
<1>6. CASE StartOfFrame
  BY <1>1, <1>4, <1>6, FrameStream
<1>7. CASE TxCall \/ ForcedFill
  BY <1>1, <1>4, <1>7, CallStream
<1>8. CASE Recv \/ ForcedRx \/ ForcedFree \/ ForcedTorn
  BY <1>8, ReceiveStream
<1>9. CASE Program \/ ForcedBetween \/ UNCHANGED svars
  <2>1. UNCHANGED <<vars, data, written, tx_packet>> /\ (pc' # "sent" \/ pc' = pc)
    BY <1>9 DEF Program, CallTx, CallPoll, ForcedBetween, Abandoned, serial, svars, call
  <2> QED BY <2>1, QuietStep DEF vars, client
<1>10. CASE ForcedMalloc
  <2>1. PICK p \in usb_buffer_available : UsbMalloc(p)
    BY <1>10 DEF ForcedMalloc
  <2>2. /\ pc \in {"buffer_malloc", "acquire_malloc"} /\ pc' = "idle"
        /\ UNCHANGED <<data, written, tx_packet>>
    BY <1>10 DEF ForcedMalloc, Abandoned, serial
  <2>3. p # tx_packet
    BY <1>1, <2>1, <2>2, NobodysPacket
  <2>4. held' = held \cup {p} /\ UNCHANGED tx
    BY <2>1 DEF UsbMalloc
  <2> QED BY <2>2, <2>3, <2>4, QuietStep
<1> QED BY <1>5, <1>6, <1>7, <1>8, <1>9, <1>10 DEF SerialNext, Handler, Forced

LEMMA StreamInvInit == SerialInit => StreamInv /\ Stream!Init
<1> SUFFICES ASSUME SerialInit PROVE StreamInv /\ Stream!Init
  OBVIOUS
<1>1. /\ TxPending = <<>> /\ held = {} /\ written = 0 /\ pc # "sent"
      /\ data = [p \in Packets |-> <<>>]
  BY DEF SerialInit, Init, TxPending, InBank, Empty, Other, Banks
<1>2. WaitingHold /\ SentIsGone
  BY <1>1 DEF WaitingHold, SentIsGone
<1>3. Unsent = <<>>
  BY <1>1 DEF Unsent
<1>4. BytesOf(TxPending, data) = <<>>
  BY <1>1, NoBytes
<1>5. StreamNow = <<>>
  <2>1. StreamNow = <<>> \o <<>>
    BY <1>3, <1>4, StreamIs
  <2> QED BY <2>1
<1> QED BY <1>1, <1>2, <1>5, PortInvInit DEF StreamInv, Stream!Init

(* Every byte that usb_serial_write accepted is in the stream once and in  *)
(* order until the host takes it: packets, banks, queue, flush callback,   *)
(* writer and forced jumps together lose, repeat and reorder nothing.      *)
THEOREM StreamCorrect ==
    ASSUME HostMayReconfigure = FALSE
    PROVE  SerialSpec => StreamInOrder
<1>1. StreamInv /\ [SerialNext]_svars => StreamInv' /\ [Stream!Next]_(Stream!vars)
  BY StreamInvStep
<1> QED BY <1>1, StreamInvInit, PTL DEF SerialSpec, StreamInOrder, Stream!SafeSpec

=============================================================================
