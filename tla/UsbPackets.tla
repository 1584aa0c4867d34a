----------------------------- MODULE UsbPackets -----------------------------
(***************************************************************************)
(* The packet buffers of the teensy USB stack: the pool of usb_mem.c and   *)
(* the endpoint queues and buffer descriptors of usb_dev.c, for the two    *)
(* data endpoints of the serial interface (CDC_RX_ENDPOINT receives,       *)
(* CDC_TX_ENDPOINT transmits; the third endpoint never carries data).      *)
(*                                                                         *)
(* Two parties run: the interrupt handler usb_isr(), which is never        *)
(* preempted, and one thread of client code calling usb_malloc, usb_free,  *)
(* usb_rx and usb_tx.  A section between __disable_irq and __enable_irq is *)
(* one action; usb_free leaves interrupts enabled between its test, the    *)
(* locked part and what follows, so it is several.                         *)
(*                                                                         *)
(* A packet is an element of Packets.  Its bytes, and which free packet    *)
(* the bitmask scan of usb_malloc picks, are left open.  A descriptor holds*)
(* None when its desc field is 0 or the bank has been completed.           *)
(***************************************************************************)
EXTENDS Naturals, FiniteSets, Sequences, Functions

CONSTANTS Packets,             \* the NUM_USB_BUFFERS packet buffers
          None,                \* a null pointer, or an empty descriptor
          HostMayReconfigure   \* does the host reset the bus or configure again?

ASSUME PacketsAssumption ==
    /\ IsFiniteSet(Packets)
    /\ None \notin Packets
    /\ HostMayReconfigure \in BOOLEAN

Banks == {"even", "odd"}
Other(b) == IF b = "even" THEN "odd" ELSE "even"
Empty == [b \in Banks |-> None]

TxStates == {"BOTH_FREE_EVEN_FIRST", "BOTH_FREE_ODD_FIRST", "EVEN_FREE",
             "ODD_FREE", "NONE_FREE_EVEN_FIRST", "NONE_FREE_ODD_FIRST"}

VARIABLES
    usb_buffer_available,  \* the free packets
    rx_table, tx_table,    \* the packet armed in each bank of the two endpoints
    rx_queue, tx_queue,    \* rx_first..rx_last and tx_first..tx_last
    tx_state,              \* what the software believes of the transmit banks
    usb_rx_memory_needed,  \* receive banks waiting for a packet (a uint8_t)
    usb_configuration,
    rx_hw, tx_hw,          \* the bank the USB controller uses next
    enumerated,            \* the host polls the data endpoints
    held,                  \* packets in the hands of the client
    free_pc, free_packet   \* the client's activation of usb_free

pool   == <<usb_buffer_available, usb_rx_memory_needed>>
rx     == <<rx_table, rx_queue, rx_hw>>
tx     == <<tx_table, tx_queue, tx_state, tx_hw>>
bus    == <<usb_configuration, enumerated>>
client == <<held, free_pc, free_packet>>
vars   == <<pool, rx, tx, bus, client>>

-----------------------------------------------------------------------------
Starving == {b \in Banks : rx_table[b] = None}

(* Faulty variants, for the mutants: the count is kept in an int; the      *)
(* count is not decremented.                                               *)
GiveToRx_Unbounded(p) ==
    LET b == IF rx_table["even"] = None THEN "even" ELSE "odd" IN
    /\ rx_table' = [rx_table EXCEPT ![b] = p]
    /\ usb_rx_memory_needed' = usb_rx_memory_needed - 1
GiveToRx_NoCount(p) ==
    LET b == IF rx_table["even"] = None THEN "even" ELSE "odd" IN
    /\ rx_table' = [rx_table EXCEPT ![b] = p]
    /\ UNCHANGED usb_rx_memory_needed

(* usb_rx_memory, when it finds a bank: the even one is tried first.       *)
GiveToRx(p) ==
    LET b == IF rx_table["even"] = None THEN "even" ELSE "odd" IN
    /\ rx_table' = [rx_table EXCEPT ![b] = p]
    /\ usb_rx_memory_needed' = (usb_rx_memory_needed + 255) % 256

(* The test at the head of usb_free.                                       *)
RxComesFirst == usb_rx_memory_needed > 0 /\ usb_configuration # 0

(* usb_free as the interrupt handler runs it, without interruption.        *)
IsrFree(p) ==
    \/ /\ RxComesFirst /\ Starving # {}
       /\ GiveToRx(p)
       /\ UNCHANGED usb_buffer_available
    \/ /\ RxComesFirst /\ Starving = {}
       /\ usb_rx_memory_needed' = 0
       /\ usb_buffer_available' = usb_buffer_available \cup {p}
       /\ UNCHANGED rx_table
    \/ /\ ~RxComesFirst
       /\ usb_buffer_available' = usb_buffer_available \cup {p}
       /\ UNCHANGED <<rx_table, usb_rx_memory_needed>>

(* tx_state and the bank chosen when a packet is put in a free bank.       *)
BothFree == {"BOTH_FREE_EVEN_FIRST", "BOTH_FREE_ODD_FIRST"}
NoneFree == {"NONE_FREE_EVEN_FIRST", "NONE_FREE_ODD_FIRST"}
NextFreeBank ==
    IF tx_state \in {"BOTH_FREE_EVEN_FIRST", "EVEN_FREE"} THEN "even" ELSE "odd"
AfterFill ==
    CASE tx_state = "BOTH_FREE_EVEN_FIRST" -> "ODD_FREE"
      [] tx_state = "BOTH_FREE_ODD_FIRST"  -> "EVEN_FREE"
      [] tx_state = "EVEN_FREE"            -> "NONE_FREE_ODD_FIRST"
      [] tx_state = "ODD_FREE"             -> "NONE_FREE_EVEN_FIRST"
      [] OTHER                             -> tx_state
(* Faulty variants: the default case is missing; EVEN and ODD exchanged.   *)
AfterDrain_NoDefault(b) ==
    CASE tx_state = "EVEN_FREE"  -> "BOTH_FREE_EVEN_FIRST"
      [] tx_state = "ODD_FREE"   -> "BOTH_FREE_ODD_FIRST"
      [] OTHER                   -> tx_state
AfterDrain_Swapped(b) ==
    CASE tx_state \in BothFree   -> tx_state
      [] tx_state = "EVEN_FREE"  -> "BOTH_FREE_ODD_FIRST"
      [] tx_state = "ODD_FREE"   -> "BOTH_FREE_EVEN_FIRST"
      [] OTHER                   -> IF b = "odd" THEN "ODD_FREE" ELSE "EVEN_FREE"
AfterDrain(b) ==
    CASE tx_state \in BothFree   -> tx_state
      [] tx_state = "EVEN_FREE"  -> "BOTH_FREE_EVEN_FIRST"
      [] tx_state = "ODD_FREE"   -> "BOTH_FREE_ODD_FIRST"
      [] OTHER                   -> IF b = "odd" THEN "ODD_FREE" ELSE "EVEN_FREE"

(* usb_tx: arm a free bank, or queue the packet.                           *)
Transmit(p) ==
    /\ \/ /\ tx_state \notin NoneFree
          /\ tx_table' = [tx_table EXCEPT ![NextFreeBank] = p]
          /\ UNCHANGED tx_queue
       \/ /\ tx_state \in NoneFree
          /\ tx_queue' = Append(tx_queue, p)
          /\ UNCHANGED tx_table
    /\ tx_state' = AfterFill
    /\ UNCHANGED tx_hw

-----------------------------------------------------------------------------
(* Power-up: nothing is armed until the host configures the device.        *)
Init ==
    /\ usb_buffer_available = Packets
    /\ rx_table = Empty /\ tx_table = Empty
    /\ rx_queue = <<>> /\ tx_queue = <<>>
    /\ tx_state = "BOTH_FREE_EVEN_FIRST"
    /\ usb_rx_memory_needed = 0
    /\ usb_configuration = 0
    /\ rx_hw = "even" /\ tx_hw = "even"
    /\ enumerated = FALSE
    /\ held = {} /\ free_pc = "idle" /\ free_packet = None

-----------------------------------------------------------------------------
(***************************************************************************)
(* The interrupt handler.                                                  *)
(***************************************************************************)

(* Every packet armed in a bank or queued when the handler starts.         *)
Armed(table) == {table[b] : b \in Banks} \ {None}
Flushed == Armed(rx_table) \cup Armed(tx_table) \cup Range(rx_queue) \cup Range(tx_queue)

(* SET_CONFIGURATION frees them with usb_free: first the receive banks as  *)
(* it finds them, then these.                                              *)
InBank(b) == IF tx_table[b] = None THEN <<>> ELSE <<tx_table[b]>>
TxAndQueues == InBank("even") \o InBank("odd") \o rx_queue \o tx_queue

(* usb_free still hands packets to starving receive banks: a bank the sweep*)
(* has already passed keeps its packet, and the descriptor is overwritten  *)
(* below.  The even bank is the first one passed and the first one filled, *)
(* so packets are lost only if it starves.                                 *)
SweptLast == (IF rx_table["odd"] = None THEN <<>> ELSE <<rx_table["odd"]>>) \o TxAndQueues
(* (Faulty variant: whichever bank starves.)                               *)
Stranded_AnyBank(config) ==
    {SweptLast[i] : i \in {j \in DOMAIN SweptLast :
        config # 0 /\ j <= usb_rx_memory_needed /\ j <= Cardinality(Starving)}}
Stranded(config) ==
    {SweptLast[i] : i \in {j \in DOMAIN SweptLast :
        /\ usb_rx_memory_needed > 0 /\ config # 0
        /\ rx_table["even"] = None
        /\ j <= usb_rx_memory_needed
        /\ j <= Cardinality(Starving)}}

(* usb_malloc inside the handler: some free packet, or none.               *)
Malloc(free, p) == IF free = {} THEN p = None ELSE p \in free

(* usb_setup, SET_CONFIGURATION.                                           *)
SetConfiguration(config) ==
    /\ usb_configuration = 0 \/ HostMayReconfigure
    /\ usb_configuration' = config
    /\ enumerated' = (config # 0)
    /\ rx_queue' = <<>> /\ tx_queue' = <<>>
    /\ tx_table' = Empty
    /\ tx_state' = CASE tx_state \in {"EVEN_FREE", "NONE_FREE_EVEN_FIRST"} -> "BOTH_FREE_EVEN_FIRST"
                     [] tx_state \in {"ODD_FREE", "NONE_FREE_ODD_FIRST"}   -> "BOTH_FREE_ODD_FIRST"
                     [] OTHER -> tx_state
    /\ LET free == usb_buffer_available \cup (Flushed \ Stranded(config)) IN
       \E e, o \in Packets \cup {None} :
          /\ Malloc(free, e) /\ Malloc(free \ {e}, o)
          /\ rx_table' = [b \in Banks |-> IF b = "even" THEN e ELSE o]
          /\ usb_buffer_available' = free \ {e, o}
          /\ usb_rx_memory_needed' = Cardinality({b \in Banks : rx_table'[b] = None})
    /\ UNCHANGED <<rx_hw, tx_hw, client>>

(* USBRST: the controller's bank pointers return to even (ODDRST) and the  *)
(* host stops polling the data endpoints; tx_state and usb_configuration   *)
(* are not touched.                                                        *)
BusReset ==
    /\ HostMayReconfigure
    /\ rx_hw' = "even" /\ tx_hw' = "even"
    /\ enumerated' = FALSE
    /\ UNCHANGED <<pool, rx_table, rx_queue, tx_table, tx_queue, tx_state,
                   usb_configuration, client>>

(* Faulty variant, for the mutants: the packet is not freed.               *)
TxDone_Leaks ==
    /\ enumerated /\ tx_table[tx_hw] # None
    /\ tx_hw' = Other(tx_hw)
    /\ UNCHANGED <<pool, rx_table, rx_queue, rx_hw, bus, client>>

(* TOKDNE for the transmit endpoint: the host took the packet the          *)
(* controller was waiting to send.  It is freed, and the bank is armed     *)
(* again from the queue ...                                                *)
TxDone ==
    /\ enumerated /\ tx_table[tx_hw] # None
    /\ IsrFree(tx_table[tx_hw])
    /\ tx_hw' = Other(tx_hw)
    /\ UNCHANGED <<rx_queue, rx_hw, bus, client>>

(* Faulty variant: tx_first is not advanced.                               *)
TxDoneRefill_KeepsHead ==
    /\ TxDone
    /\ tx_queue # <<>>
    /\ tx_table' = [tx_table EXCEPT ![tx_hw] = Head(tx_queue)]
    /\ tx_state' = AfterFill
    /\ UNCHANGED tx_queue

TxDoneRefill ==
    /\ TxDone
    /\ tx_queue # <<>>
    /\ tx_table' = [tx_table EXCEPT ![tx_hw] = Head(tx_queue)]
    /\ tx_queue' = Tail(tx_queue)
    /\ tx_state' = AfterFill

(* ... or left free.                                                       *)
TxDoneDrain ==
    /\ TxDone
    /\ tx_queue = <<>>
    /\ tx_table' = [tx_table EXCEPT ![tx_hw] = None]
    /\ tx_state' = AfterDrain(tx_hw)
    /\ UNCHANGED tx_queue

(* TOKDNE for the receive endpoint: the host's packet is queued and the    *)
(* bank is armed with a new packet, or starves if there is none.           *)
RxDone ==
    /\ enumerated /\ rx_table[rx_hw] # None
    /\ rx_hw' = Other(rx_hw)
    /\ UNCHANGED <<tx, bus, client>>

RxDoneQueue ==
    /\ RxDone
    /\ rx_queue' = Append(rx_queue, rx_table[rx_hw])
    /\ \/ \E p \in usb_buffer_available :
             /\ usb_buffer_available' = usb_buffer_available \ {p}
             /\ rx_table' = [rx_table EXCEPT ![rx_hw] = p]
             /\ UNCHANGED usb_rx_memory_needed
       \/ /\ usb_buffer_available = {}
          /\ rx_table' = [rx_table EXCEPT ![rx_hw] = None]
          /\ usb_rx_memory_needed' = (usb_rx_memory_needed + 1) % 256
          /\ UNCHANGED usb_buffer_available

(* An empty packet, or one that held nothing but interrupt characters.     *)
RxDoneNothing ==
    /\ RxDone
    /\ UNCHANGED <<rx_queue, rx_table, pool>>

-----------------------------------------------------------------------------
(***************************************************************************)
(* The client: usb_serial.c on the main thread.                            *)
(***************************************************************************)

(* Every caller of usb_malloc looks at usb_configuration first, with       *)
(* interrupts enabled: the host may take the configuration away after it.  *)
UsbMalloc(p) ==
    /\ free_pc = "idle"
    /\ usb_configuration # 0 \/ HostMayReconfigure
    /\ usb_buffer_available' = usb_buffer_available \ {p}
    /\ held' = held \cup {p}
    /\ UNCHANGED <<usb_rx_memory_needed, rx, tx, bus, free_pc, free_packet>>

UsbRx ==
    /\ free_pc = "idle" /\ rx_queue # <<>>
    /\ held' = held \cup {Head(rx_queue)}
    /\ rx_queue' = Tail(rx_queue)
    /\ UNCHANGED <<pool, rx_table, rx_hw, tx, bus, free_pc, free_packet>>

UsbTx(p) ==
    /\ free_pc = "idle"
    /\ Transmit(p)
    /\ held' = held \ {p}
    /\ UNCHANGED <<pool, rx, bus, free_pc, free_packet>>

(* usb_free, as interruptible code: the unlocked test ...                  *)
FreeTest(p) ==
    /\ \/ free_pc = "idle" /\ p \in held
       \/ free_pc = "retry" /\ p = free_packet
    /\ free_packet' = p
    /\ held' = held \ {p}
    /\ free_pc' = IF RxComesFirst THEN "usb_rx_memory" ELSE "release"
    /\ UNCHANGED <<pool, rx, tx, bus>>

(* ... the locked update of the bitmask ...                                *)
FreeRelease ==
    /\ free_pc = "release"
    /\ usb_buffer_available' = usb_buffer_available \cup {free_packet}
    /\ free_pc' = "idle" /\ free_packet' = None
    /\ UNCHANGED <<usb_rx_memory_needed, rx, tx, bus, held>>

(* ... or usb_rx_memory, which finds a starving bank under the lock ...    *)
FreeGive ==
    /\ free_pc = "usb_rx_memory" /\ Starving # {}
    /\ GiveToRx(free_packet)
    /\ free_pc' = "idle" /\ free_packet' = None
    /\ UNCHANGED <<usb_buffer_available, rx_queue, rx_hw, tx, bus, held>>

(* ... or none, because the handler was faster ...                         *)
(* Faulty variant: usb_rx_memory gives up without freeing the packet.      *)
FreeFindsNone_Drops ==
    /\ free_pc = "usb_rx_memory" /\ Starving = {}
    /\ free_pc' = "idle" /\ free_packet' = None
    /\ UNCHANGED <<pool, rx, tx, bus, held>>

FreeFindsNone ==
    /\ free_pc = "usb_rx_memory" /\ Starving = {}
    /\ free_pc' = "forget"
    /\ UNCHANGED <<pool, rx, tx, bus, held, free_packet>>

(* ... and then, interrupts enabled again, clears the count and calls      *)
(* usb_free once more.                                                     *)
FreeForget ==
    /\ free_pc = "forget"
    /\ usb_rx_memory_needed' = 0
    /\ free_pc' = "retry"
    /\ UNCHANGED <<usb_buffer_available, rx, tx, bus, held, free_packet>>

-----------------------------------------------------------------------------
Isr ==
    \/ \E config \in {0, 1} : SetConfiguration(config)
    \/ BusReset
    \/ TxDoneRefill \/ TxDoneDrain
    \/ RxDoneQueue \/ RxDoneNothing
Free ==
    \/ \E p \in Packets : FreeTest(p)
    \/ FreeRelease \/ FreeGive \/ FreeFindsNone \/ FreeForget
Main ==
    \/ \E p \in usb_buffer_available : UsbMalloc(p)
    \/ UsbRx
    \/ \E p \in held : UsbTx(p)
    \/ Free
Next == Isr \/ Main

Spec == Init /\ [][Next]_vars

(* The host keeps reading, and the main thread finishes a usb_free.        *)
Fairness ==
    /\ WF_vars(TxDoneRefill \/ TxDoneDrain)
    /\ WF_vars(Free /\ free_pc # "idle")
FairSpec == Spec /\ Fairness

-----------------------------------------------------------------------------
(* Each variable keeps its C type: pointers point at packets, the states   *)
(* of usb_dev.c are the six it defines, the starvation count is a byte.    *)
TypeOK ==
    /\ usb_buffer_available \subseteq Packets
    /\ rx_table \in [Banks -> Packets \cup {None}]
    /\ tx_table \in [Banks -> Packets \cup {None}]
    /\ rx_queue \in Seq(Packets) /\ tx_queue \in Seq(Packets)
    /\ tx_state \in TxStates
    /\ usb_rx_memory_needed \in 0 .. 255
    /\ usb_configuration \in {0, 1}
    /\ rx_hw \in Banks /\ tx_hw \in Banks
    /\ enumerated \in BOOLEAN
    /\ held \subseteq Packets
    /\ free_pc \in {"idle", "release", "usb_rx_memory", "forget", "retry"}
    /\ free_packet \in Packets \cup {None}
    /\ (free_pc = "idle") <=> (free_packet = None)

InFree == {free_packet} \ {None}
Apart(A, B) == A \cap B = {}
Distinct(table) == table["even"] = table["odd"] => table["even"] = None

(* No packet is ever in two places, across both queues, all four banks,    *)
(* the pool and the client, in every interleaving of usb_free with the     *)
(* handler and after any number of configurations: otherwise the host and  *)
(* the program, or two transfers, write the same 64 bytes.                 *)
Exclusive ==
    /\ IsInjective(rx_queue) /\ IsInjective(tx_queue)
    /\ Distinct(rx_table) /\ Distinct(tx_table)
    /\ Apart(usb_buffer_available, Flushed \cup held \cup InFree)
    /\ Apart(Armed(rx_table), Armed(tx_table) \cup Range(rx_queue)
                              \cup Range(tx_queue) \cup held \cup InFree)
    /\ Apart(Armed(tx_table), Range(rx_queue) \cup Range(tx_queue) \cup held \cup InFree)
    /\ Apart(Range(rx_queue), Range(tx_queue) \cup held \cup InFree)
    /\ Apart(Range(tx_queue), held \cup InFree)
    /\ Apart(held, InFree)

Reachable == usb_buffer_available \cup Flushed \cup held \cup InFree

(* The loops of SET_CONFIGURATION, turn by turn: usb_free inside the       *)
(* handler, on a copy s of what it changes; ...                            *)
SweepFree(s, p, config) ==
    IF s.needed = 0 \/ config = 0 THEN [s EXCEPT !.free = @ \cup {p}]
    ELSE IF s.table["even"] = None
         THEN [s EXCEPT !.table["even"] = p, !.needed = @ - 1]
    ELSE IF s.table["odd"] = None
         THEN [s EXCEPT !.table["odd"] = p, !.needed = @ - 1]
    ELSE [s EXCEPT !.free = @ \cup {p}, !.needed = 0]

(* ... a receive bank, as it is when the sweep reaches it; all of it.      *)
SweepBank(s, b, config) ==
    IF s.table[b] = None THEN s ELSE SweepFree(s, s.table[b], config)

SweepBanks(config) ==
    LET start == [free |-> usb_buffer_available, needed |-> usb_rx_memory_needed,
                  table |-> rx_table]
    IN SweepBank(SweepBank(start, "even", config), "odd", config)

Sweep(config) ==
    LET walk[i \in 0 .. Len(TxAndQueues)] ==
            IF i = 0 THEN SweepBanks(config)
            ELSE SweepFree(walk[i - 1], TxAndQueues[i], config)
    IN walk[Len(TxAndQueues)].free

(* What these loops free is everything but the packets that Stranded names,*)
(* whatever banks starve and however many packets are queued.              *)
SweepFreesTheRest ==
    \A config \in {0, 1} :
        Sweep(config) = usb_buffer_available \cup (Flushed \ Stranded(config))

(* Packets are lost only by SET_CONFIGURATION, and only when a receive     *)
(* bank starves at that moment: no other handler or call may drop one.     *)
NoPacketVanishes ==
    [][ \/ Reachable' = Reachable
        \/ /\ usb_rx_memory_needed > 0
           /\ \E config \in {0, 1} : SetConfiguration(config) ]_vars

(* tx_state, which decides the bank usb_tx overwrites, always tells which  *)
(* transmit banks are free, and nothing waits in the queue while one is.   *)
TxStateAgrees ==
    /\ tx_table["even"] = None <=> tx_state \in BothFree \cup {"EVEN_FREE"}
    /\ tx_table["odd"]  = None <=> tx_state \in BothFree \cup {"ODD_FREE"}
    /\ tx_queue # <<>> => tx_state \in NoneFree

NeededExact ==
    usb_configuration # 0 => usb_rx_memory_needed = Cardinality(Starving)

(* usb_rx_memory_needed counts the starving banks exactly, and the only    *)
(* step that can make it wrong is the unlocked reset in usb_rx_memory.     *)
OnlyForgetMiscounts ==
    [][ NeededExact => NeededExact' \/ FreeForget ]_vars

(* While a transmit bank is free, tx_state names the bank that is sent, or *)
(* filled, next; the controller keeps a count of its own.  (While none is  *)
(* free the name may be stale: a refill leaves it, and a drain looks at    *)
(* the bank instead.)                                                      *)
FirstBank ==
    IF tx_state \in {"BOTH_FREE_EVEN_FIRST", "ODD_FREE"} THEN "even" ELSE "odd"
InStep == tx_state \in NoneFree \/ tx_hw = FirstBank

(* The controller counts banks on its own, and nothing in the code reads   *)
(* its count.  Through any sequence of transfers and calls the two stay in *)
(* step; only a bus reset, which returns the controller to the even bank   *)
(* but leaves tx_state alone, and a configuration, which drops packets the *)
(* controller was about to send, can part them.                            *)
OnlyBusMisaligns ==
    [][ InStep => \/ InStep'
                  \/ BusReset
                  \/ \E config \in {0, 1} : SetConfiguration(config) ]_vars

(* The transmit packets in the order the controller will send them.        *)
TxPending == InBank(tx_hw) \o InBank(Other(tx_hw)) \o tx_queue

Fifo == INSTANCE PacketFifo WITH pending <- TxPending

(* Two banks, a six-valued state and a linked list together are one FIFO:  *)
(* within one configuration what usb_tx accepts goes out in that order,    *)
(* each packet once, and none is dropped: the only way out of TxPending is *)
(* a completed transfer.  (That it does go out is StreamDelivered.)        *)
TxInOrder == Fifo!Spec
=============================================================================
