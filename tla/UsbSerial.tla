------------------------------ MODULE UsbSerial ------------------------------
(***************************************************************************)
(* The serial port on top of UsbPackets: core/usb_serial.c, and the calls  *)
(* usb_serial_tx, ioctl(POLL) and usb_vcp_recv_byte of teensy/usb.c that   *)
(* the interpreter makes.  The main thread runs one call at a time; the    *)
(* handler adds the start-of-frame tick, whose flush callback takes the    *)
(* half-filled tx_packet away from the main thread unless tx_noautoflush   *)
(* is set.                                                                 *)
(*                                                                         *)
(* Main-thread code is cut where interrupts may run between two accesses   *)
(* to what the handler shares.  Bytes are numbered in the order the program*)
(* writes them; a received packet is one unit of input.                    *)
(*                                                                         *)
(* The second of two interrupt characters makes pendsv.c jump out of the   *)
(* call, wherever it is (Forced).  The model stops when that leaves        *)
(* rx_packet or tx_packet at a packet that was already given away.         *)
(***************************************************************************)
EXTENDS UsbPackets, SequencesExt

CONSTANTS CDC_TX_SIZE,      \* bytes in a packet
          TX_PACKET_LIMIT,  \* packets queued before a writer waits
          FlushTimeout,     \* TRANSMIT_FLUSH_TIMEOUT, in frames
          MaxWrite,         \* bytes in one call of usb_serial_tx (a bound)
          MaxBytes,         \* bytes written in a run (a bound)
          ProgramPolls,     \* does the program poll for POLLOUT?
          ForcedJumps,      \* is the program interrupted by force?
          MaxLost           \* packets lost by that (a bound)

ASSUME SerialAssumption ==
    /\ CDC_TX_SIZE \in Nat \ {0} /\ TX_PACKET_LIMIT \in Nat \ {0}
    /\ FlushTimeout \in Nat \ {0}
    /\ MaxWrite \in Nat \ {0} /\ MaxBytes \in Nat
    /\ ProgramPolls \in BOOLEAN /\ ForcedJumps \in BOOLEAN
    /\ MaxLost \in Nat

VARIABLES
    rx_packet, tx_packet,          \* the packets being read and filled
    tx_noautoflush,
    usb_cdc_transmit_flush_timer,
    transmit_previous_timeout,
    data,                          \* the bytes stored in each transmit packet
    written,                       \* bytes accepted by usb_serial_write
    pc,                            \* where the main thread is
    remaining, size,               \* usb_serial_tx: bytes left, bytes asked for
    chunk,                         \* usb_serial_write: bytes left
    result,                        \* what usb_serial_tx returned last
    lost                           \* packets nothing points to any more

serial == <<rx_packet, tx_packet, tx_noautoflush, usb_cdc_transmit_flush_timer,
            transmit_previous_timeout, data>>
call   == <<pc, remaining, size, chunk, result>>
svars  == <<vars, serial, written, call, lost>>

SerialInit ==
    /\ Init
    /\ rx_packet = None /\ tx_packet = None
    /\ tx_noautoflush = FALSE /\ usb_cdc_transmit_flush_timer = 0
    /\ transmit_previous_timeout = FALSE
    /\ data = [p \in Packets |-> <<>>]
    /\ written = 0
    /\ pc = "idle" /\ remaining = 0 /\ size = 0 /\ chunk = 0 /\ result = 0
    /\ lost = {}

-----------------------------------------------------------------------------
(* The handler: everything of UsbPackets.  The bytes of a packet that the  *)
(* host took, or that a configuration discarded, are forgotten ...         *)
Waiting == Armed(tx_table) \cup Range(tx_queue) \cup (held \cap {tx_packet})

HandlerStep ==
    /\ Isr /\ pc # "torn"
    /\ UNCHANGED <<rx_packet, tx_packet, tx_noautoflush, usb_cdc_transmit_flush_timer,
                   transmit_previous_timeout, written, call, lost>>
    /\ data' = [p \in Packets |-> IF p \in Waiting' THEN data[p] ELSE <<>>]

(* Faulty variant, for the mutants: the packet sent is still tx_packet.    *)
FlushCallback_Keeps ==
    /\ ~tx_noautoflush /\ tx_packet # None
    /\ Transmit(tx_packet)
    /\ held' = held \ {tx_packet}
    /\ usb_cdc_transmit_flush_timer' = 0
    /\ UNCHANGED <<pool, rx, bus, free_pc, free_packet, tx_packet>>

(* ... and the start of frame.  usb_serial_flush_callback sends tx_packet, *)
(* or an empty packet, or tries again in the next frame.                   *)
FlushCallback ==
    \/ /\ tx_noautoflush
       /\ usb_cdc_transmit_flush_timer' = 0
       /\ UNCHANGED <<vars, tx_packet>>
    \/ /\ ~tx_noautoflush /\ tx_packet # None
       /\ Transmit(tx_packet)
       /\ held' = held \ {tx_packet}
       /\ tx_packet' = None
       /\ usb_cdc_transmit_flush_timer' = 0
       /\ UNCHANGED <<pool, rx, bus, free_pc, free_packet>>
    \/ /\ ~tx_noautoflush /\ tx_packet = None
       /\ \/ \E p \in usb_buffer_available :
                /\ Transmit(p)
                /\ usb_buffer_available' = usb_buffer_available \ {p}
                /\ usb_cdc_transmit_flush_timer' = 0
                /\ UNCHANGED <<usb_rx_memory_needed, rx, bus, client, tx_packet>>
          \/ /\ usb_buffer_available = {}
             /\ usb_cdc_transmit_flush_timer' = 1
             /\ UNCHANGED <<vars, tx_packet>>

StartOfFrame ==
    /\ usb_configuration # 0 /\ usb_cdc_transmit_flush_timer > 0 /\ pc # "torn"
    /\ \/ /\ usb_cdc_transmit_flush_timer > 1
          /\ usb_cdc_transmit_flush_timer' = usb_cdc_transmit_flush_timer - 1
          /\ UNCHANGED <<vars, tx_packet>>
       \/ /\ usb_cdc_transmit_flush_timer = 1
          /\ FlushCallback
    /\ UNCHANGED <<rx_packet, tx_noautoflush, transmit_previous_timeout, data, written, call, lost>>

-----------------------------------------------------------------------------
(* usb_serial_tx: the call, and its loop.                                  *)
CallTx(n) ==
    /\ pc = "idle" /\ written + n <= MaxBytes
    /\ pc' = "buffer_free" /\ size' = n /\ remaining' = n
    /\ UNCHANGED <<vars, serial, written, chunk, result>>

(* ioctl(POLL) with POLLOUT calls usb_serial_write_buffer_free alone.      *)
CallPoll ==
    /\ ProgramPolls /\ pc = "idle"
    /\ pc' = "buffer_free" /\ size' = 0 /\ remaining' = 0
    /\ UNCHANGED <<vars, serial, written, chunk, result>>

(* usb_serial_write_buffer_free: tx_noautoflush is set; the packet is there*)
(* or must be counted and allocated; tx_noautoflush is cleared.            *)
BufferFreeBegin ==
    /\ pc = "buffer_free"
    /\ tx_noautoflush' = TRUE
    /\ pc' = IF tx_packet # None THEN "buffer_some"
             ELSE IF usb_configuration = 0 \/ Len(tx_queue) >= TX_PACKET_LIMIT
                  THEN "buffer_none" ELSE "buffer_malloc"
    /\ UNCHANGED <<vars, rx_packet, tx_packet, usb_cdc_transmit_flush_timer,
                   transmit_previous_timeout, data, written, remaining, size, chunk, result>>

(* tx_packet = usb_malloc(), whose header says that it holds no bytes.     *)
NewTxPacket(p) ==
    /\ UsbMalloc(p)
    /\ tx_packet' = p
    /\ data' = [data EXCEPT ![p] = <<>>]

BufferFreeMalloc ==
    /\ pc = "buffer_malloc"
    /\ \/ \E p \in usb_buffer_available :
             NewTxPacket(p) /\ pc' = "buffer_some"
       \/ /\ usb_buffer_available = {}
          /\ pc' = "buffer_none"
          /\ UNCHANGED <<vars, tx_packet, data>>
    /\ UNCHANGED <<rx_packet, tx_noautoflush, usb_cdc_transmit_flush_timer,
                   transmit_previous_timeout, written, remaining, size, chunk, result>>

SmallerOf(m, n) == IF m < n THEN m ELSE n

(* What usb_serial_write_buffer_free returns.                              *)
Room == IF pc = "buffer_some" THEN CDC_TX_SIZE - Len(data[tx_packet]) ELSE 0

(* Faulty variant: a chunk is as large as the room, not as what remains.   *)
BufferFreeEnd_AllRoom ==
    /\ pc = "buffer_some" /\ remaining > 0
    /\ chunk' = CDC_TX_SIZE - Len(data[tx_packet])
    /\ tx_noautoflush' = FALSE /\ pc' = "write"
    /\ UNCHANGED <<vars, rx_packet, tx_packet, usb_cdc_transmit_flush_timer,
                   transmit_previous_timeout, data, written, remaining, size, result>>

(* Its return, with room or without: usb_serial_tx writes a chunk, or      *)
(* waits for an interrupt and asks again; the poll is over.                *)
BufferFreeEnd ==
    /\ pc \in {"buffer_some", "buffer_none"}
    /\ tx_noautoflush' = FALSE
    /\ \/ /\ remaining = 0
          /\ pc' = "idle" /\ UNCHANGED chunk
       \/ /\ remaining > 0 /\ Room > 0
          /\ chunk' = SmallerOf(Room, remaining)
          /\ pc' = "write"
       \/ /\ remaining > 0 /\ Room = 0
          /\ pc' = "buffer_free" /\ UNCHANGED chunk
    /\ UNCHANGED <<vars, rx_packet, tx_packet, usb_cdc_transmit_flush_timer,
                   transmit_previous_timeout, data, written, remaining, size, result>>

-----------------------------------------------------------------------------
(* Faulty variant: the flush callback is not held off.                     *)
WriteBegin_Unguarded ==
    /\ pc = "write"
    /\ pc' = IF tx_packet # None THEN "fill" ELSE "acquire"
    /\ UNCHANGED <<vars, serial, written, remaining, size, chunk, result>>

(* usb_serial_write: tx_noautoflush is set again.                          *)
WriteBegin ==
    /\ pc = "write"
    /\ tx_noautoflush' = TRUE
    /\ pc' = IF tx_packet # None THEN "fill" ELSE "acquire"
    /\ UNCHANGED <<vars, rx_packet, tx_packet, usb_cdc_transmit_flush_timer,
                   transmit_previous_timeout, data, written, remaining, size, chunk, result>>

(* Its inner loop: give up if unconfigured, allocate if few packets wait,  *)
AcquireTest ==
    /\ pc = "acquire"
    /\ \/ /\ usb_configuration = 0
          /\ tx_noautoflush' = FALSE /\ pc' = "failed"
       \/ /\ usb_configuration # 0 /\ Len(tx_queue) < TX_PACKET_LIMIT
          /\ tx_noautoflush' = TRUE /\ pc' = "acquire_malloc"
       \/ /\ usb_configuration # 0 /\ Len(tx_queue) >= TX_PACKET_LIMIT
          /\ pc' = "acquire_wait" /\ UNCHANGED tx_noautoflush
    /\ UNCHANGED <<vars, rx_packet, tx_packet, usb_cdc_transmit_flush_timer,
                   transmit_previous_timeout, data, written, remaining, size, chunk, result>>

AcquireMalloc ==
    /\ pc = "acquire_malloc"
    /\ \/ \E p \in usb_buffer_available :
             NewTxPacket(p) /\ pc' = "fill" /\ UNCHANGED tx_noautoflush
       \/ /\ usb_buffer_available = {}
          /\ tx_noautoflush' = FALSE /\ pc' = "acquire_wait"
          /\ UNCHANGED <<vars, tx_packet, data>>
    /\ UNCHANGED <<rx_packet, usb_cdc_transmit_flush_timer,
                   transmit_previous_timeout, written, remaining, size, chunk, result>>

(* and try again until TX_TIMEOUT iterations are over, or at once give up  *)
(* if the last wait timed out too.                                         *)
AcquireWait ==
    /\ pc = "acquire_wait"
    /\ \/ /\ ~transmit_previous_timeout
          /\ pc' = "acquire" /\ UNCHANGED transmit_previous_timeout
       \/ /\ transmit_previous_timeout' = TRUE
          /\ pc' = "failed"
    /\ UNCHANGED <<vars, rx_packet, tx_packet, tx_noautoflush, usb_cdc_transmit_flush_timer,
                   data, written, remaining, size, chunk, result>>

(* The next bytes the packet has room for.                                 *)
Chunk == [i \in 1 .. SmallerOf(CDC_TX_SIZE - Len(data[tx_packet]), chunk) |-> written + i]

(* The bytes are copied; a full packet is handed to usb_tx.                *)
Fill ==
    /\ pc = "fill"
    /\ LET n == Len(Chunk)
           filled == data[tx_packet] \o Chunk
       IN /\ data' = [data EXCEPT ![tx_packet] = filled]
          /\ written' = written + n
          /\ chunk' = chunk - n /\ remaining' = remaining - n
          /\ IF Len(filled) >= CDC_TX_SIZE
             THEN /\ Transmit(tx_packet)
                  /\ held' = held \ {tx_packet}
                  /\ UNCHANGED <<pool, rx, bus, free_pc, free_packet>>
                  /\ pc' = "sent"
             ELSE pc' = "filled" /\ UNCHANGED vars
    /\ transmit_previous_timeout' = FALSE
    /\ UNCHANGED <<rx_packet, tx_packet, tx_noautoflush, usb_cdc_transmit_flush_timer, size, result>>

(* Faulty variants: tx_packet is kept when it was sent; the timer is not   *)
(* restarted.                                                              *)
FillEnd_KeepsPacket ==
    /\ pc \in {"filled", "sent"} /\ chunk = 0 /\ remaining = 0
    /\ usb_cdc_transmit_flush_timer' = FlushTimeout
    /\ tx_noautoflush' = FALSE
    /\ pc' = "idle" /\ size' = 0 /\ result' = size
    /\ UNCHANGED <<vars, rx_packet, tx_packet, transmit_previous_timeout, data, written, remaining, chunk>>
FillEnd_NoTimer ==
    /\ pc \in {"filled", "sent"} /\ chunk = 0 /\ remaining = 0
    /\ tx_packet' = IF pc = "sent" THEN None ELSE tx_packet
    /\ tx_noautoflush' = FALSE
    /\ pc' = "idle" /\ size' = 0 /\ result' = size
    /\ UNCHANGED <<vars, rx_packet, usb_cdc_transmit_flush_timer, transmit_previous_timeout,
                   data, written, remaining, chunk>>

(* tx_packet is forgotten if it was sent, and the flush timer restarted.   *)
(* The last round clears tx_noautoflush within the same frame.             *)
FillEnd ==
    /\ pc \in {"filled", "sent"}
    /\ tx_packet' = IF pc = "sent" THEN None ELSE tx_packet
    /\ usb_cdc_transmit_flush_timer' = FlushTimeout
    /\ \/ /\ chunk > 0
          /\ pc' = "acquire"
          /\ UNCHANGED <<tx_noautoflush, size, result>>
       \/ /\ chunk = 0 /\ remaining > 0
          /\ tx_noautoflush' = FALSE
          /\ pc' = "buffer_free"
          /\ UNCHANGED <<size, result>>
       \/ /\ chunk = 0 /\ remaining = 0
          /\ tx_noautoflush' = FALSE
          /\ pc' = "idle" /\ size' = 0 /\ result' = size
    /\ UNCHANGED <<vars, rx_packet, transmit_previous_timeout, data, written, remaining, chunk>>

(* usb_serial_write returned -1: usb_serial_tx returns 0.                  *)
TxFailed ==
    /\ pc = "failed"
    /\ pc' = "idle" /\ result' = 0
    /\ size' = 0 /\ remaining' = 0 /\ chunk' = 0
    /\ UNCHANGED <<vars, serial, written>>

-----------------------------------------------------------------------------
(* usb_serial_getchar: the next packet is fetched with its first byte, and *)
(* freed with its last one.                                                *)
RecvFirst ==
    /\ pc = "idle" /\ rx_packet = None /\ usb_configuration # 0
    /\ UsbRx
    /\ rx_packet' = Head(rx_queue)
    /\ UNCHANGED <<tx_packet, tx_noautoflush, usb_cdc_transmit_flush_timer,
                   transmit_previous_timeout, data, written, call>>

RecvLast ==
    /\ pc = "idle" /\ rx_packet # None
    /\ FreeTest(rx_packet)
    /\ pc' = "recv_free"
    /\ UNCHANGED <<serial, written, remaining, size, chunk, result>>

RecvFree ==
    /\ pc = "recv_free"
    /\ Free
    /\ pc' = IF free_pc' = "idle" THEN "idle" ELSE pc
    /\ rx_packet' = IF free_pc' = "idle" THEN None ELSE rx_packet
    /\ UNCHANGED <<tx_packet, tx_noautoflush, usb_cdc_transmit_flush_timer,
                   transmit_previous_timeout, data, written, remaining, size, chunk, result>>

-----------------------------------------------------------------------------
(* pendsv_nlr_jump for the second time: when the handler has returned, or  *)
(* at the next __enable_irq, nlr_jump leaves the call.                     *)
Abandoned ==
    /\ pc' = "idle" /\ remaining' = 0 /\ size' = 0 /\ chunk' = 0
    /\ UNCHANGED result

(* Between two accesses: tx_noautoflush stays as it is.                    *)
ForcedBetween ==
    /\ pc \notin {"idle", "sent", "recv_free", "torn"}
    /\ Abandoned
    /\ UNCHANGED <<vars, serial, written, lost>>

(* At the end of usb_malloc or usb_rx: the packet is not stored yet.       *)
ForcedMalloc ==
    /\ Cardinality(lost) < MaxLost
    /\ pc \in {"buffer_malloc", "acquire_malloc"}
    /\ \E p \in usb_buffer_available : UsbMalloc(p) /\ lost' = lost \cup {p}
    /\ Abandoned
    /\ UNCHANGED <<serial, written>>

ForcedRx ==
    /\ Cardinality(lost) < MaxLost
    /\ pc = "idle" /\ rx_packet = None /\ usb_configuration # 0
    /\ UsbRx
    /\ lost' = lost \cup {Head(rx_queue)}
    /\ UNCHANGED <<serial, written, call>>

(* While bytes are copied, when the index already counts them.             *)
ForcedFill ==
    /\ pc = "fill"
    /\ data' = [data EXCEPT ![tx_packet] = @ \o Chunk]
    /\ written' = written + Len(Chunk)
    /\ transmit_previous_timeout' = FALSE
    /\ Abandoned
    /\ UNCHANGED <<vars, rx_packet, tx_packet, tx_noautoflush, usb_cdc_transmit_flush_timer, lost>>

(* Inside usb_free, before it has done anything: rx_packet still points to *)
(* the packet, whose last byte is read again.                              *)
ForcedFree ==
    /\ pc = "recv_free"
    /\ held' = held \cup {free_packet}
    /\ free_pc' = "idle" /\ free_packet' = None
    /\ Abandoned
    /\ UNCHANGED <<pool, rx, tx, bus, serial, written, lost>>

(* At the end of usb_free or usb_tx: the pointer is not cleared any more.  *)
ForcedTorn ==
    /\ \/ pc = "sent" /\ UNCHANGED vars
       \/ pc = "recv_free" /\ Free /\ free_pc' = "idle"
    /\ pc' = "torn"
    /\ UNCHANGED <<serial, written, remaining, size, chunk, result, lost>>

Forced ==
    /\ ForcedJumps
    /\ ForcedBetween \/ ForcedMalloc \/ ForcedRx \/ ForcedFill \/ ForcedFree \/ ForcedTorn

-----------------------------------------------------------------------------
Handler == HandlerStep \/ StartOfFrame
TxCall ==
    /\ UNCHANGED lost
    /\ \/ BufferFreeBegin \/ BufferFreeMalloc \/ BufferFreeEnd
       \/ WriteBegin \/ AcquireTest \/ AcquireMalloc \/ AcquireWait
       \/ Fill \/ FillEnd \/ TxFailed
Recv == (RecvFirst \/ RecvLast \/ RecvFree) /\ UNCHANGED lost
Program ==
    /\ UNCHANGED lost
    /\ (\E n \in 1 .. MaxWrite : CallTx(n)) \/ CallPoll
SerialNext == Handler \/ TxCall \/ Recv \/ Program \/ Forced

SerialSpec == SerialInit /\ [][SerialNext]_svars

(* The processor runs the call that was begun, the frames keep coming, and *)
(* the wait count of usb_serial_write reaches TX_TIMEOUT.                  *)
ProcessorRuns ==
    /\ WF_svars(TxCall \/ (RecvFree /\ UNCHANGED lost))
    /\ WF_svars(StartOfFrame)
    /\ SF_svars(AcquireWait /\ pc' = "failed" /\ UNCHANGED lost)

(* The host keeps reading.                                                 *)
HostReads == WF_svars(HandlerStep /\ (TxDoneRefill \/ TxDoneDrain))

-----------------------------------------------------------------------------
PC == {"idle", "buffer_free", "buffer_malloc", "buffer_some", "buffer_none", "write",
       "acquire", "acquire_malloc", "acquire_wait", "fill", "filled", "sent", "failed", "recv_free", "torn"}

SerialTypeOK ==
    /\ TypeOK
    /\ rx_packet \in Packets \cup {None} /\ tx_packet \in Packets \cup {None}
    /\ tx_noautoflush \in BOOLEAN /\ transmit_previous_timeout \in BOOLEAN
    /\ usb_cdc_transmit_flush_timer \in 0 .. FlushTimeout
    /\ data \in [Packets -> Seq(1 .. MaxBytes)]
    /\ \A p \in Packets : Len(data[p]) <= CDC_TX_SIZE
    /\ written \in 0 .. MaxBytes
    /\ pc \in PC
    /\ size \in 0 .. MaxWrite /\ remaining \in 0 .. size /\ chunk \in 0 .. remaining
    /\ result \in 0 .. MaxWrite
    /\ lost \subseteq Packets

(* The client half of the packets' ownership: what usb_serial.c holds is   *)
(* exactly rx_packet and tx_packet, so neither the start-of-frame callback *)
(* nor a failed write leaves a packet that nobody will ever free, nor does *)
(* a forced exception, but for the one packet that usb_malloc or usb_rx    *)
(* was about to return.                                                    *)
HoldsOnlyItsTwo ==
    LET own == ({rx_packet} \cup IF pc = "sent" THEN {} ELSE {tx_packet}) \ {None} IN
    pc # "torn" =>
        /\ held \cup InFree = own \cup lost /\ Apart(own, lost)
        /\ rx_packet = tx_packet => rx_packet = None

(* While the writer is about to store bytes through tx_packet, the packet  *)
(* is its own: the flush callback, which may fire in any frame between the *)
(* test of tx_packet and the copy, has not sent it.                        *)
WriterOwnsPacket == pc \in {"buffer_some", "fill"} => tx_packet \in held

(* The bytes accepted and not yet taken by the host, in sending order.     *)
StreamNow ==
    LET unsent == IF tx_packet \in held THEN data[tx_packet] ELSE <<>>
    IN FlattenSeq([i \in DOMAIN TxPending |-> data[TxPending[i]]]) \o unsent

Stream == INSTANCE ByteStream WITH stream <- StreamNow

(* Packets, banks, queue, flush callback and writer together lose, repeat  *)
(* and reorder nothing that usb_serial_write accepted.                     *)
StreamInOrder == Stream!SafeSpec

(* ... and while the host reads, all of it leaves: the flush timer sends a *)
(* packet that is never filled.                                            *)
StreamDelivered == Stream!Spec

(* A write on a configured port comes back: usb_serial_tx neither spins nor*)
(* sleeps for ever.                                                        *)
CallsReturn == (pc = "buffer_free" /\ usb_configuration # 0) ~> pc = "idle"
=============================================================================
