-------------------------- MODULE UsbPacketsProofs --------------------------
(***************************************************************************)
(* Proofs about UsbPackets, for any finite set of packets and any host.    *)
(***************************************************************************)
EXTENDS UsbPackets, NatSets, FiniteSetTheorems, SequenceTheorems, TLAPS

-----------------------------------------------------------------------------
(* The number of banks that satisfy a condition is 0, 1 or 2.              *)
LEMMA BankCount ==
    ASSUME NEW S \in SUBSET Banks
    PROVE  Cardinality(S) \in 0 .. 2
<1>1. S \in {{}, {"even"}, {"odd"}, {"even", "odd"}}
  BY DEF Banks
<1>2. Cardinality({}) = 0
  BY FS_EmptySet
<1>3. Cardinality({"even"}) = 1 /\ Cardinality({"odd"}) = 1
  BY FS_Singleton
<1>4. Cardinality({"even", "odd"}) = 2
  <2>1. IsFiniteSet({"even"}) /\ "odd" \notin {"even"}
    BY FS_Singleton
  <2>2. Cardinality({"even"} \cup {"odd"}) = Cardinality({"even"}) + 1
    BY <2>1, FS_AddElement
  <2>3. {"even"} \cup {"odd"} = {"even", "odd"}
    OBVIOUS
  <2> QED BY <2>2, <2>3, <1>3
<1> QED BY <1>1, <1>2, <1>3, <1>4

(* GiveToRx fills a bank with the packet and keeps the count a byte.       *)
LEMMA GiveToRxType ==
    ASSUME TypeOK, NEW p \in Packets, GiveToRx(p)
    PROVE  /\ rx_table' \in [Banks -> Packets \cup {None}]
           /\ usb_rx_memory_needed' \in 0 .. 255
<1>1. rx_table' \in [Banks -> Packets \cup {None}]
  BY DEF GiveToRx, TypeOK, Banks
<1>2. usb_rx_memory_needed' \in 0 .. 255
  BY DEF GiveToRx, TypeOK
<1> QED BY <1>1, <1>2

LEMMA IsrFreeType ==
    ASSUME TypeOK, NEW p \in Packets, IsrFree(p)
    PROVE  /\ rx_table' \in [Banks -> Packets \cup {None}]
           /\ usb_rx_memory_needed' \in 0 .. 255
           /\ usb_buffer_available' \subseteq Packets
<1>1. CASE RxComesFirst /\ Starving # {}
  <2>1. GiveToRx(p) /\ UNCHANGED usb_buffer_available
    BY <1>1 DEF IsrFree
  <2> QED BY <2>1, GiveToRxType DEF TypeOK
<1>2. CASE RxComesFirst /\ Starving = {}
  BY <1>2 DEF IsrFree, TypeOK
<1>3. CASE ~RxComesFirst
  BY <1>3 DEF IsrFree, TypeOK
<1> QED BY <1>1, <1>2, <1>3

(* Transmit keeps the types of the transmit side.                          *)
LEMMA TransmitType ==
    ASSUME TypeOK, NEW p \in Packets, Transmit(p)
    PROVE  /\ tx_table' \in [Banks -> Packets \cup {None}]
           /\ tx_queue' \in Seq(Packets)
           /\ tx_state' \in TxStates
           /\ tx_hw' \in Banks
<1>1. AfterFill \in TxStates
  BY DEF AfterFill, TxStates, TypeOK
<1>2. NextFreeBank \in Banks
  BY DEF NextFreeBank, Banks
<1>3. CASE tx_state \notin NoneFree
  BY <1>1, <1>2, <1>3 DEF Transmit, TypeOK
<1>4. CASE tx_state \in NoneFree
  <2>1. tx_queue' = Append(tx_queue, p) /\ UNCHANGED <<tx_table, tx_hw>>
    BY <1>4 DEF Transmit
  <2> QED BY <1>1, <2>1 DEF Transmit, TypeOK
<1> QED BY <1>3, <1>4

-----------------------------------------------------------------------------
(* Type correctness of every reachable state.                              *)
LEMMA TypeInit == Init => TypeOK
<1> SUFFICES ASSUME Init PROVE TypeOK
  OBVIOUS
<1>1. Empty \in [Banks -> Packets \cup {None}]
  BY DEF Empty
<1>2. <<>> \in Seq(Packets)
  OBVIOUS
<1>3. Packets \subseteq Packets /\ {} \subseteq Packets
  OBVIOUS
<1>4. 0 \in 0 .. 255
  OBVIOUS
<1>5. (free_pc = "idle") <=> (free_packet = None)
  BY DEF Init
<1> QED BY <1>1, <1>2, <1>3, <1>4, <1>5 DEF Init, TypeOK, Banks, TxStates

LEMMA TypeStep == TypeOK /\ [Next]_vars => TypeOK'
<1> SUFFICES ASSUME TypeOK, [Next]_vars PROVE TypeOK'
  OBVIOUS
<1> USE PacketsAssumption
<1>1. ASSUME NEW config \in {0, 1}, SetConfiguration(config) PROVE TypeOK'
  <2>1. rx_queue' \in Seq(Packets) /\ tx_queue' \in Seq(Packets)
    BY <1>1 DEF SetConfiguration
  <2>2. tx_table' \in [Banks -> Packets \cup {None}] /\ tx_state' \in TxStates
    BY <1>1 DEF SetConfiguration, TypeOK, Empty, TxStates
  <2>3. /\ rx_table' \in [Banks -> Packets \cup {None}]
        /\ usb_buffer_available' \subseteq Packets
    <3>1. usb_buffer_available \cup (Flushed \ Stranded(config)) \subseteq Packets
      <4>1. Flushed \subseteq Packets
        BY DEF Flushed, Armed, Range, TypeOK
      <4> QED BY <4>1 DEF TypeOK
    <3> QED BY <1>1, <3>1 DEF SetConfiguration
  <2>4. usb_rx_memory_needed' \in 0 .. 255
    <3>1. usb_rx_memory_needed' = Cardinality({b \in Banks : rx_table'[b] = None})
      BY <1>1 DEF SetConfiguration
    <3>2. usb_rx_memory_needed' \in 0 .. 2
      BY <3>1, BankCount
    <3> QED BY <3>2
  <2> QED BY <1>1, <2>1, <2>2, <2>3, <2>4 DEF SetConfiguration, TypeOK, client
<1>2. CASE BusReset
  BY <1>2 DEF BusReset, TypeOK, pool, client, Banks
<1>3. ASSUME TxDone PROVE
        /\ rx_table' \in [Banks -> Packets \cup {None}]
        /\ usb_rx_memory_needed' \in 0 .. 255
        /\ usb_buffer_available' \subseteq Packets
        /\ rx_queue' \in Seq(Packets) /\ rx_hw' \in Banks /\ tx_hw' \in Banks
        /\ usb_configuration' \in {0, 1} /\ enumerated' \in BOOLEAN
        /\ UNCHANGED client
  <2>1. tx_table[tx_hw] \in Packets
    BY <1>3 DEF TxDone, TypeOK
  <2> QED BY <1>3, <2>1, IsrFreeType DEF TxDone, TypeOK, bus, Other, Banks
<1>4. CASE TxDoneRefill
  <2>1. Head(tx_queue) \in Packets /\ Tail(tx_queue) \in Seq(Packets)
    BY <1>4 DEF TxDoneRefill, TypeOK
  <2>2. AfterFill \in TxStates
    BY DEF AfterFill, TxStates, TypeOK
  <2>3. TxDone
    BY <1>4 DEF TxDoneRefill
  <2> QED BY <1>3, <1>4, <2>1, <2>2, <2>3 DEF TxDoneRefill, TypeOK, client
<1>5. CASE TxDoneDrain
  <2>1. AfterDrain(tx_hw) \in TxStates
    BY DEF AfterDrain, TxStates, BothFree, TypeOK
  <2>2. TxDone
    BY <1>5 DEF TxDoneDrain
  <2> QED BY <1>3, <1>5, <2>1, <2>2 DEF TxDoneDrain, TypeOK, client
<1>6. CASE RxDoneQueue
  <2>1. rx_table[rx_hw] \in Packets
    BY <1>6 DEF RxDoneQueue, RxDone, TypeOK
  <2>2. rx_queue' \in Seq(Packets)
    BY <1>6, <2>1 DEF RxDoneQueue, TypeOK
  <2>3. /\ rx_table' \in [Banks -> Packets \cup {None}]
        /\ usb_buffer_available' \subseteq Packets
        /\ usb_rx_memory_needed' \in 0 .. 255
    <3>1. CASE usb_buffer_available = {}
      BY <1>6, <3>1 DEF RxDoneQueue, TypeOK
    <3>2. CASE usb_buffer_available # {}
      <4>1. PICK p \in usb_buffer_available :
              /\ usb_buffer_available' = usb_buffer_available \ {p}
              /\ rx_table' = [rx_table EXCEPT ![rx_hw] = p]
              /\ UNCHANGED usb_rx_memory_needed
        BY <1>6, <3>2 DEF RxDoneQueue
      <4> QED BY <4>1 DEF TypeOK
    <3> QED BY <3>1, <3>2
  <2> QED BY <1>6, <2>2, <2>3 DEF RxDoneQueue, RxDone, TypeOK, tx, bus, client, Other, Banks
<1>7. CASE RxDoneNothing
  BY <1>7 DEF RxDoneNothing, RxDone, TypeOK, tx, bus, client, pool, Other, Banks
<1>8. ASSUME NEW p \in usb_buffer_available, UsbMalloc(p) PROVE TypeOK'
  BY <1>8 DEF UsbMalloc, TypeOK, rx, tx, bus
<1>9. CASE UsbRx
  <2>1. Head(rx_queue) \in Packets /\ Tail(rx_queue) \in Seq(Packets)
    BY <1>9 DEF UsbRx, TypeOK
  <2> QED BY <1>9, <2>1 DEF UsbRx, TypeOK, pool, tx, bus
<1>10. ASSUME NEW p \in held, UsbTx(p) PROVE TypeOK'
  <2>1. p \in Packets
    BY DEF TypeOK
  <2> QED BY <1>10, <2>1, TransmitType DEF UsbTx, TypeOK, pool, rx, bus
<1>11. ASSUME NEW p \in Packets, FreeTest(p) PROVE TypeOK'
  BY <1>11 DEF FreeTest, TypeOK, pool, rx, tx, bus
<1>12. CASE FreeRelease
  BY <1>12 DEF FreeRelease, TypeOK, rx, tx, bus
<1>13. CASE FreeGive
  <2>1. free_packet \in Packets
    BY <1>13 DEF FreeGive, TypeOK
  <2> QED BY <1>13, <2>1, GiveToRxType DEF FreeGive, TypeOK, tx, bus
<1>14. CASE FreeFindsNone
  BY <1>14 DEF FreeFindsNone, TypeOK, pool, rx, tx, bus
<1>15. CASE FreeForget
  BY <1>15 DEF FreeForget, TypeOK, rx, tx, bus
<1>16. CASE UNCHANGED vars
  BY <1>16 DEF vars, pool, rx, tx, bus, client, TypeOK
<1> QED
  BY <1>1, <1>2, <1>4, <1>5, <1>6, <1>7, <1>8, <1>9, <1>10, <1>11, <1>12,
     <1>13, <1>14, <1>15, <1>16 DEF Next, Isr, Main, Free

(* Every variable of the USB stack keeps its C type, whatever the host and *)
(* the client do: in particular usb_rx_memory_needed, which one path of    *)
(* usb_rx_memory can decrement below zero, wraps and stays a byte.         *)
THEOREM TypeCorrect == Spec => []TypeOK
<1>1. Init => TypeOK
  BY TypeInit
<1>2. TypeOK /\ [Next]_vars => TypeOK'
  BY TypeStep
<1> QED BY <1>1, <1>2, PTL DEF Spec
-----------------------------------------------------------------------------
(***************************************************************************)
(* Ownership.  First, what each primitive does to the set of packets a     *)
(* bank pair or a queue holds.                                             *)
(***************************************************************************)

(* Overwriting one bank replaces its packet and no other.                  *)
LEMMA BankUpdate ==
    ASSUME NEW t \in [Banks -> Packets \cup {None}], Distinct(t),
           NEW b \in Banks,
           NEW v \in Packets \cup {None}, v \notin Armed(t),
           NEW u, u = [t EXCEPT ![b] = v]
    PROVE  /\ \A x : x \in Armed(u) <=> (x \in Armed(t) /\ x # t[b]) \/ (x = v /\ x # None)
           /\ Distinct(u)
<1>1. /\ Armed(t) = {t["even"], t["odd"]} \ {None}
      /\ Armed(u) = {u["even"], u["odd"]} \ {None}
  BY DEF Armed, Banks
<1>2. CASE b = "even"
  <2>1. u["even"] = v /\ u["odd"] = t["odd"]
    BY <1>2 DEF Banks
  <2> QED BY <1>1, <1>2, <2>1 DEF Distinct
<1>3. CASE b = "odd"
  <2>1. u["odd"] = v /\ u["even"] = t["even"]
    BY <1>3 DEF Banks
  <2> QED BY <1>1, <1>3, <2>1 DEF Distinct
<1> QED BY <1>2, <1>3 DEF Banks

(* A queue that gains a packet it does not hold.                           *)
LEMMA QueueAppend ==
    ASSUME NEW s \in Seq(Packets), IsInjective(s),
           NEW p \in Packets, p \notin Range(s)
    PROVE  /\ Range(Append(s, p)) = Range(s) \cup {p}
           /\ IsInjective(Append(s, p))
<1> DEFINE a == Append(s, p)
<1>1. /\ DOMAIN s = 1 .. Len(s) /\ Len(s) \in Nat
      /\ DOMAIN a = 1 .. Len(s) + 1
      /\ \A i \in 1 .. Len(s) : a[i] = s[i]
      /\ a[Len(s) + 1] = p
  OBVIOUS
<1> HIDE DEF a
<1>2. Range(a) = Range(s) \cup {p}
  <2>1. ASSUME NEW x \in Range(a) PROVE x \in Range(s) \cup {p}
    <3>1. PICK i \in 1 .. Len(s) + 1 : a[i] = x
      BY <1>1 DEF Range
    <3>2. CASE i = Len(s) + 1
      BY <1>1, <3>1, <3>2
    <3>3. CASE i # Len(s) + 1
      BY <1>1, <3>1, <3>3 DEF Range
    <3> QED BY <3>2, <3>3
  <2>2. ASSUME NEW x \in Range(s) \cup {p} PROVE x \in Range(a)
    <3>1. CASE x = p
      BY <1>1, <3>1 DEF Range
    <3>2. CASE x \in Range(s)
      <4>1. PICK i \in 1 .. Len(s) : s[i] = x
        BY <1>1, <3>2 DEF Range
      <4> QED BY <1>1, <4>1 DEF Range
    <3> QED BY <3>1, <3>2
  <2> QED BY <2>1, <2>2
<1>3. IsInjective(a)
  <2> SUFFICES ASSUME NEW i \in 1 .. Len(s) + 1, NEW j \in 1 .. Len(s) + 1, a[i] = a[j]
               PROVE  i = j
    BY <1>1 DEF IsInjective
  <2>1. \A k \in 1 .. Len(s) : s[k] # p
    BY <1>1 DEF Range
  <2> QED BY <1>1, <2>1 DEF IsInjective
<1> QED BY <1>2, <1>3 DEF a

(* A queue that loses its head.                                            *)
LEMMA QueueTail ==
    ASSUME NEW s \in Seq(Packets), IsInjective(s), s # <<>>
    PROVE  /\ Head(s) \in Range(s)
           /\ Range(Tail(s)) = Range(s) \ {Head(s)}
           /\ IsInjective(Tail(s))
<1> DEFINE t == Tail(s)
<1>1. /\ DOMAIN s = 1 .. Len(s) /\ Len(s) \in Nat \ {0}
      /\ DOMAIN t = 1 .. Len(s) - 1
      /\ \A i \in 1 .. Len(s) - 1 : t[i] = s[i + 1]
      /\ Head(s) = s[1]
  OBVIOUS
<1> HIDE DEF t
<1>2. Head(s) \in Range(s)
  BY <1>1 DEF Range
<1>3. Range(t) = Range(s) \ {Head(s)}
  <2>1. ASSUME NEW x \in Range(t) PROVE x \in Range(s) \ {Head(s)}
    <3>1. PICK i \in 1 .. Len(s) - 1 : t[i] = x
      BY <1>1 DEF Range
    <3>2. i + 1 \in 1 .. Len(s) /\ s[i + 1] = x /\ i + 1 # 1 /\ 1 \in 1 .. Len(s)
      BY <1>1, <3>1
    <3> QED BY <1>1, <3>2 DEF Range, IsInjective
  <2>2. ASSUME NEW x \in Range(s) \ {Head(s)} PROVE x \in Range(t)
    <3>1. PICK i \in 1 .. Len(s) : s[i] = x
      BY <1>1 DEF Range
    <3>2. i - 1 \in 1 .. Len(s) - 1 /\ t[i - 1] = x
      BY <1>1, <3>1
    <3> QED BY <1>1, <3>2 DEF Range
  <2> QED BY <2>1, <2>2
<1>4. IsInjective(t)
  <2> SUFFICES ASSUME NEW i \in 1 .. Len(s) - 1, NEW j \in 1 .. Len(s) - 1, t[i] = t[j]
               PROVE  i = j
    BY <1>1 DEF IsInjective
  <2>1. i + 1 \in 1 .. Len(s) /\ j + 1 \in 1 .. Len(s) /\ s[i + 1] = s[j + 1]
    BY <1>1
  <2>2. i + 1 = j + 1
    BY <1>1, <2>1 DEF IsInjective
  <2> QED BY <2>2
<1> QED BY <1>2, <1>3, <1>4 DEF t

(* Giving a packet to a starving bank adds it to the receive banks.        *)
LEMMA GiveToRxOwns ==
    ASSUME TypeOK, Distinct(rx_table), Starving # {},
           NEW p \in Packets, p \notin Armed(rx_table), GiveToRx(p)
    PROVE  Armed(rx_table') = Armed(rx_table) \cup {p} /\ Distinct(rx_table')
<1>1. PICK b \in Banks : rx_table[b] = None /\ rx_table' = [rx_table EXCEPT ![b] = p]
  BY DEF GiveToRx, Starving, Banks
<1>2. rx_table' = [rx_table EXCEPT ![b] = p]
  BY <1>1
<1>3. rx_table \in [Banks -> Packets \cup {None}] /\ p \in Packets \cup {None}
  BY DEF TypeOK
<1>4. \A x : x \in Armed(rx_table') <=> (x \in Armed(rx_table) /\ x # rx_table[b]) \/ (x = p /\ x # None)
  BY <1>2, <1>3, BankUpdate
<1>5. Distinct(rx_table')
  BY <1>2, <1>3, BankUpdate
<1>6. \A x : x \in Armed(rx_table') <=> x \in Armed(rx_table) \/ x = p
  <2>1. rx_table[b] \notin Armed(rx_table) /\ p # None
    BY <1>1, PacketsAssumption DEF Armed
  <2> QED BY <1>4, <2>1
<1> QED BY <1>5, <1>6

(* A packet freed by the handler goes to the pool or to a receive bank,    *)
(* and to one of them only.                                                *)
LEMMA IsrFreeOwns ==
    ASSUME TypeOK, Exclusive, NEW p \in Packets,
           p \notin usb_buffer_available, p \notin Armed(rx_table), IsrFree(p)
    PROVE  /\ usb_buffer_available' \cup Armed(rx_table')
                = usb_buffer_available \cup Armed(rx_table) \cup {p}
           /\ Apart(usb_buffer_available', Armed(rx_table'))
           /\ Distinct(rx_table')
<1>1. Distinct(rx_table) /\ Apart(usb_buffer_available, Armed(rx_table))
  BY DEF Exclusive, Flushed, Apart
<1>2. CASE RxComesFirst /\ Starving # {}
  <2>1. GiveToRx(p) /\ UNCHANGED usb_buffer_available
    BY <1>2 DEF IsrFree
  <2>2. Armed(rx_table') = Armed(rx_table) \cup {p} /\ Distinct(rx_table')
    BY <1>1, <1>2, <2>1, GiveToRxOwns
  <2> QED BY <1>1, <2>1, <2>2 DEF Apart
<1>3. CASE ~(RxComesFirst /\ Starving # {})
  <2>1. usb_buffer_available' = usb_buffer_available \cup {p} /\ UNCHANGED rx_table
    BY <1>3 DEF IsrFree
  <2> QED BY <1>1, <2>1 DEF Apart
<1> QED BY <1>2, <1>3

(* A packet that is neither armed nor queued, once transmitted, is.        *)
LEMMA TransmitOwns ==
    ASSUME TypeOK, TxStateAgrees, Exclusive, NEW p \in Packets,
           p \notin Armed(tx_table), p \notin Range(tx_queue), Transmit(p)
    PROVE  /\ Armed(tx_table') \cup Range(tx_queue')
                = Armed(tx_table) \cup Range(tx_queue) \cup {p}
           /\ Apart(Armed(tx_table'), Range(tx_queue'))
           /\ Distinct(tx_table') /\ IsInjective(tx_queue')
<1>1. /\ p \in Packets /\ p # None /\ p \in Packets \cup {None}
      /\ tx_table \in [Banks -> Packets \cup {None}] /\ tx_queue \in Seq(Packets)
      /\ tx_state \in TxStates
  BY PacketsAssumption DEF TypeOK
<1>2. /\ Distinct(tx_table) /\ IsInjective(tx_queue)
      /\ Apart(Armed(tx_table), Range(tx_queue))
  BY DEF Exclusive, Apart
<1>3. CASE tx_state \notin NoneFree
  <2>1. NextFreeBank \in Banks /\ tx_table[NextFreeBank] = None
    BY <1>1, <1>3 DEF NextFreeBank, Banks, TxStateAgrees, BothFree, NoneFree, TxStates
  <2>2. tx_table' = [tx_table EXCEPT ![NextFreeBank] = p] /\ UNCHANGED tx_queue
    BY <1>3 DEF Transmit
  <2>3. None \notin Armed(tx_table)
    BY DEF Armed
  <2>4. Armed(tx_table') = Armed(tx_table) \cup {p} /\ Distinct(tx_table')
    <3> DEFINE f == NextFreeBank
    <3> HIDE DEF f
    <3>3. f \in Banks /\ tx_table' = [tx_table EXCEPT ![f] = p]
      BY <2>1, <2>2 DEF f
    <3>1. \A x : x \in Armed(tx_table') <=> (x \in Armed(tx_table) /\ x # tx_table[f]) \/ (x = p /\ x # None)
      BY <1>1, <1>2, <3>3, BankUpdate
    <3>2. Distinct(tx_table')
      BY <1>1, <1>2, <3>3, BankUpdate
    <3>4. tx_table[f] \notin Armed(tx_table)
      BY <2>1, <2>3 DEF f
    <3>5. \A x : x \in Armed(tx_table') <=> x \in Armed(tx_table) \/ x = p
      BY <1>1, <3>1, <3>4
    <3> QED BY <3>2, <3>5
  <2> QED BY <1>2, <2>2, <2>4 DEF Apart
<1>4. CASE tx_state \in NoneFree
  <2>1. tx_queue' = Append(tx_queue, p) /\ UNCHANGED tx_table
    BY <1>4 DEF Transmit
  <2>2. Range(tx_queue') = Range(tx_queue) \cup {p} /\ IsInjective(tx_queue')
    BY <1>1, <1>2, <2>1, QueueAppend
  <2> QED BY <1>2, <2>1, <2>2 DEF Apart
<1> QED BY <1>3, <1>4

-----------------------------------------------------------------------------
(* tx_state describes the transmit banks in every reachable state.         *)
LEMMA TxStateInit == Init => TxStateAgrees
BY DEF Init, TxStateAgrees, Empty, Banks, BothFree, NoneFree

LEMMA TransmitAgrees ==
    ASSUME TypeOK, TxStateAgrees, NEW p \in Packets, Transmit(p)
    PROVE  TxStateAgrees'
<1>1. /\ None \notin Packets /\ tx_state \in TxStates
      /\ tx_table \in [Banks -> Packets \cup {None}] /\ tx_queue \in Seq(Packets)
  BY PacketsAssumption DEF TypeOK
<1>2. p # None /\ tx_state' = AfterFill
  BY <1>1 DEF Transmit
<1>3. CASE tx_state \in NoneFree
  <2>1. tx_state' = tx_state /\ UNCHANGED tx_table
    BY <1>2, <1>3 DEF Transmit, AfterFill, NoneFree
  <2> QED BY <1>3, <2>1 DEF TxStateAgrees
<1>4. CASE tx_state \notin NoneFree
  <2>1. tx_table' = [tx_table EXCEPT ![NextFreeBank] = p] /\ tx_queue' = <<>>
    BY <1>4 DEF Transmit, TxStateAgrees
  <2> QED BY <1>1, <1>2, <1>4, <2>1 DEF TxStateAgrees, NextFreeBank, AfterFill, Banks, NoneFree, BothFree, TxStates
<1> QED BY <1>3, <1>4

LEMMA TxStateStep == TypeOK /\ TxStateAgrees /\ [Next]_vars => TxStateAgrees'
<1> SUFFICES ASSUME TypeOK, TxStateAgrees, [Next]_vars PROVE TxStateAgrees'
  OBVIOUS
<1>1. /\ None \notin Packets /\ tx_state \in TxStates /\ tx_hw \in Banks
      /\ tx_table \in [Banks -> Packets \cup {None}] /\ tx_queue \in Seq(Packets)
  BY PacketsAssumption DEF TypeOK
<1>2. ASSUME UNCHANGED <<tx_table, tx_queue, tx_state>> PROVE TxStateAgrees'
  BY <1>2 DEF TxStateAgrees
<1>3. ASSUME NEW config \in {0, 1}, SetConfiguration(config) PROVE TxStateAgrees'
  BY <1>1, <1>3 DEF SetConfiguration, TxStateAgrees, Empty, Banks, TxStates, BothFree, NoneFree
<1>4. CASE TxDoneRefill
  <2>1. tx_state \in NoneFree
    BY <1>4 DEF TxDoneRefill, TxStateAgrees
  <2>2. tx_state' = tx_state
    BY <1>4, <2>1 DEF TxDoneRefill, AfterFill, NoneFree
  <2>3. Head(tx_queue) # None
    BY <1>1, <1>4 DEF TxDoneRefill
  <2>4. tx_table' = [tx_table EXCEPT ![tx_hw] = Head(tx_queue)]
    BY <1>4 DEF TxDoneRefill
  <2> QED BY <1>1, <2>1, <2>2, <2>3, <2>4 DEF TxStateAgrees, Banks, NoneFree, BothFree
<1>5. CASE TxDoneDrain
  <2>1. /\ tx_table[tx_hw] # None /\ tx_queue' = <<>>
        /\ tx_table' = [tx_table EXCEPT ![tx_hw] = None]
        /\ tx_state' = AfterDrain(tx_hw)
    BY <1>5 DEF TxDoneDrain, TxDone
  <2> QED BY <1>1, <2>1 DEF TxStateAgrees, AfterDrain, Banks, NoneFree, BothFree, TxStates
<1>6. ASSUME NEW p \in held, UsbTx(p) PROVE TxStateAgrees'
  BY <1>6, TransmitAgrees DEF UsbTx, TypeOK
<1>7. CASE BusReset \/ RxDoneQueue \/ RxDoneNothing \/ UsbRx \/ Free
           \/ (\E p \in usb_buffer_available : UsbMalloc(p)) \/ UNCHANGED vars
  BY <1>2, <1>7 DEF BusReset, RxDoneQueue, RxDoneNothing, RxDone, UsbRx, Free, FreeTest, FreeRelease,
     FreeGive, FreeFindsNone, FreeForget, UsbMalloc, vars, tx
<1> QED BY <1>3, <1>4, <1>5, <1>6, <1>7 DEF Next, Isr, Main

(* tx_state tells which transmit banks are free in every reachable state,  *)
(* also after a bus reset that leaves it out of step with the controller:  *)
(* usb_tx never overwrites a packet the host has not taken.                *)
THEOREM TxStateCorrect == Spec => []TxStateAgrees
<1>1. Init => TypeOK /\ TxStateAgrees
  BY TypeInit, TxStateInit
<1>2. (TypeOK /\ TxStateAgrees) /\ [Next]_vars => (TypeOK /\ TxStateAgrees)'
  BY TypeStep, TxStateStep
<1> QED BY <1>1, <1>2, PTL DEF Spec

-----------------------------------------------------------------------------
(* Exclusive ownership, one lemma for each kind of step.                   *)
LEMMA ExclusiveInit == Init => Exclusive
<1> SUFFICES ASSUME Init PROVE Exclusive
  OBVIOUS
<1>1. Range(<<>>) = {} /\ IsInjective(<<>>)
  BY DEF Range, IsInjective
<1>2. Armed(Empty) = {} /\ Distinct(Empty)
  BY DEF Armed, Empty, Distinct, Banks
<1> QED BY <1>1, <1>2 DEF Init, Exclusive, Flushed, InFree, Apart

LEMMA ExclusiveSetConfiguration ==
    ASSUME TypeOK, Exclusive, NEW config \in {0, 1}, SetConfiguration(config)
    PROVE  Exclusive'
<1> DEFINE free == usb_buffer_available \cup (Flushed \ Stranded(config))
<1>1. PICK e \in Packets \cup {None}, o \in Packets \cup {None} :
        /\ Malloc(free, e) /\ Malloc(free \ {e}, o)
        /\ rx_table' = [b \in Banks |-> IF b = "even" THEN e ELSE o]
        /\ usb_buffer_available' = free \ {e, o}
  BY DEF SetConfiguration
<1>2. Armed(rx_table') = {e, o} \ {None}
  BY <1>1 DEF Armed, Banks
<1>3. rx_table'["even"] = e /\ rx_table'["odd"] = o
  BY <1>1 DEF Banks
<1>4. e = o => e = None
  BY <1>1 DEF Malloc
<1>5. Distinct(rx_table')
  BY <1>3, <1>4 DEF Distinct
<1>6. {e, o} \ {None} \subseteq free
  BY <1>1 DEF Malloc
<1>7. Apart(free, held \cup InFree) /\ Apart(held, InFree)
  BY DEF Exclusive, Flushed, Apart
<1>8. /\ Range(rx_queue') = {} /\ Range(tx_queue') = {}
      /\ IsInjective(rx_queue') /\ IsInjective(tx_queue')
  BY DEF SetConfiguration, Range, IsInjective
<1>9. Armed(tx_table') = {} /\ Distinct(tx_table')
  BY DEF SetConfiguration, Armed, Distinct, Empty, Banks
<1>10. held' = held /\ InFree' = InFree
  BY DEF SetConfiguration, client, InFree
<1> HIDE DEF free
<1> QED BY <1>1, <1>2, <1>5, <1>6, <1>7, <1>8, <1>9, <1>10 DEF Exclusive, Flushed, Apart

(* The handler has a packet sent: the packet moves from its bank to the    *)
(* pool or to a receive bank.                                              *)
LEMMA TxDoneOwns ==
    ASSUME TypeOK, Exclusive, TxDone
    PROVE  LET p == tx_table[tx_hw] IN
           /\ p \in Packets /\ p \in Armed(tx_table)
           /\ usb_buffer_available' \cup Armed(rx_table')
                = usb_buffer_available \cup Armed(rx_table) \cup {p}
           /\ Apart(usb_buffer_available', Armed(rx_table'))
           /\ Distinct(rx_table')
           /\ rx_queue' = rx_queue /\ held' = held /\ InFree' = InFree
<1>1. tx_table[tx_hw] \in Packets /\ tx_table[tx_hw] \in Armed(tx_table)
  BY DEF TxDone, TypeOK, Armed
<1>2. tx_table[tx_hw] \notin usb_buffer_available /\ tx_table[tx_hw] \notin Armed(rx_table)
  BY <1>1 DEF Exclusive, Flushed, Apart
<1>3. IsrFree(tx_table[tx_hw])
  BY DEF TxDone
<1>4. rx_queue' = rx_queue /\ held' = held /\ InFree' = InFree
  BY DEF TxDone, client, InFree
<1> QED BY <1>1, <1>2, <1>3, <1>4, IsrFreeOwns

LEMMA ExclusiveTxDoneRefill ==
    ASSUME TypeOK, Exclusive, TxDoneRefill
    PROVE  Exclusive'
<1> DEFINE p == tx_table[tx_hw]
           h == Head(tx_queue)
<1>1. TxDone
  BY DEF TxDoneRefill
<1>2. /\ p \in Packets /\ p \in Armed(tx_table)
      /\ usb_buffer_available' \cup Armed(rx_table')
           = usb_buffer_available \cup Armed(rx_table) \cup {p}
      /\ Apart(usb_buffer_available', Armed(rx_table'))
      /\ Distinct(rx_table')
      /\ rx_queue' = rx_queue /\ held' = held /\ InFree' = InFree
  BY <1>1, TxDoneOwns
<1>3. tx_queue \in Seq(Packets) /\ IsInjective(tx_queue) /\ tx_queue # <<>> /\ tx_queue' = Tail(tx_queue)
  BY DEF TxDoneRefill, TypeOK, Exclusive
<1>4. /\ h \in Range(tx_queue) /\ Range(tx_queue') = Range(tx_queue) \ {h}
      /\ IsInjective(tx_queue')
  BY <1>3, QueueTail
<1>5. h \in Packets \cup {None} /\ h # None /\ h \notin Armed(tx_table)
  BY <1>3, <1>4, PacketsAssumption DEF Exclusive, Apart
<1>6. /\ tx_table \in [Banks -> Packets \cup {None}] /\ tx_hw \in Banks /\ Distinct(tx_table)
      /\ tx_table' = [tx_table EXCEPT ![tx_hw] = h]
  BY DEF TxDoneRefill, TypeOK, Exclusive
<1>7. /\ \A x : x \in Armed(tx_table') <=> (x \in Armed(tx_table) /\ x # tx_table[tx_hw]) \/ (x = h /\ x # None)
      /\ Distinct(tx_table')
  <2> HIDE DEF h
  <2>1. \A x : x \in Armed(tx_table') <=> (x \in Armed(tx_table) /\ x # tx_table[tx_hw]) \/ (x = h /\ x # None)
    BY <1>5, <1>6, BankUpdate
  <2>2. Distinct(tx_table')
    BY <1>5, <1>6, BankUpdate
  <2> QED BY <2>1, <2>2
<1>9. Armed(tx_table') = (Armed(tx_table) \ {p}) \cup {h}
  BY <1>5, <1>7
<1> HIDE DEF p, h
<1> QED BY <1>2, <1>4, <1>5, <1>7, <1>9 DEF Exclusive, Flushed, Apart

LEMMA ExclusiveTxDoneDrain ==
    ASSUME TypeOK, Exclusive, TxDoneDrain
    PROVE  Exclusive'
<1> DEFINE p == tx_table[tx_hw]
<1>1. TxDone
  BY DEF TxDoneDrain
<1>2. /\ p \in Packets /\ p \in Armed(tx_table)
      /\ usb_buffer_available' \cup Armed(rx_table')
           = usb_buffer_available \cup Armed(rx_table) \cup {p}
      /\ Apart(usb_buffer_available', Armed(rx_table'))
      /\ Distinct(rx_table')
      /\ rx_queue' = rx_queue /\ held' = held /\ InFree' = InFree
  BY <1>1, TxDoneOwns
<1>3. /\ tx_table \in [Banks -> Packets \cup {None}] /\ tx_hw \in Banks /\ Distinct(tx_table)
      /\ tx_table' = [tx_table EXCEPT ![tx_hw] = None] /\ tx_queue' = tx_queue
  BY DEF TxDoneDrain, TypeOK, Exclusive
<1>4. None \notin Armed(tx_table) /\ None \in Packets \cup {None}
  BY DEF Armed
<1>5. \A x : x \in Armed(tx_table') <=> (x \in Armed(tx_table) /\ x # tx_table[tx_hw]) \/ (x = None /\ x # None)
  BY <1>3, <1>4, BankUpdate
<1>6. Distinct(tx_table')
  BY <1>3, <1>4, BankUpdate
<1>7. Armed(tx_table') = Armed(tx_table) \ {p}
  BY <1>5
<1> HIDE DEF p
<1>8. tx_queue' = tx_queue
  BY <1>3
<1> QED BY <1>2, <1>6, <1>7, <1>8 DEF Exclusive, Flushed, Apart

(* A packet received moves from its bank to the end of the queue, and the  *)
(* bank is armed with a packet of the pool or not at all.                  *)
LEMMA RxDoneQueueOwns ==
    ASSUME TypeOK, Exclusive, RxDoneQueue
    PROVE  LET p == rx_table[rx_hw] IN
           /\ p \in Armed(rx_table)
           /\ Range(rx_queue') = Range(rx_queue) \cup {p} /\ IsInjective(rx_queue')
           /\ usb_buffer_available' \cup Armed(rx_table')
                = usb_buffer_available \cup (Armed(rx_table) \ {p})
           /\ Apart(usb_buffer_available', Armed(rx_table'))
           /\ Distinct(rx_table')
           /\ UNCHANGED <<tx_table, tx_queue, held, InFree>>
<1> DEFINE p == rx_table[rx_hw]
<1>1. p \in Packets /\ p \in Armed(rx_table)
  BY DEF RxDoneQueue, RxDone, TypeOK, Armed
<1>2. Range(rx_queue') = Range(rx_queue) \cup {p} /\ IsInjective(rx_queue')
  <2>1. /\ rx_queue \in Seq(Packets) /\ IsInjective(rx_queue) /\ rx_queue' = Append(rx_queue, p)
        /\ p \notin Range(rx_queue)
    BY <1>1 DEF RxDoneQueue, TypeOK, Exclusive, Apart
  <2> HIDE DEF p
  <2> QED BY <1>1, <2>1, QueueAppend
<1>3. UNCHANGED <<tx_table, tx_queue, held, InFree>>
  BY DEF RxDoneQueue, RxDone, tx, client, InFree
<1>4. /\ rx_table \in [Banks -> Packets \cup {None}] /\ rx_hw \in Banks /\ Distinct(rx_table)
      /\ Apart(usb_buffer_available, Armed(rx_table)) /\ None \notin Armed(rx_table)
      /\ usb_buffer_available \subseteq Packets /\ None \notin Packets
  BY PacketsAssumption DEF TypeOK, Exclusive, Flushed, Apart, Armed
<1>5. CASE usb_buffer_available # {}
  <2>1. PICK q \in usb_buffer_available :
          /\ usb_buffer_available' = usb_buffer_available \ {q}
          /\ rx_table' = [rx_table EXCEPT ![rx_hw] = q]
    BY <1>5 DEF RxDoneQueue
  <2>2. q \in Packets \cup {None} /\ q # None /\ q \notin Armed(rx_table)
    BY <1>4 DEF Apart
  <2>3. \A x : x \in Armed(rx_table') <=> (x \in Armed(rx_table) /\ x # rx_table[rx_hw]) \/ (x = q /\ x # None)
    BY <1>4, <2>1, <2>2, BankUpdate
  <2>4. Distinct(rx_table')
    BY <1>4, <2>1, <2>2, BankUpdate
  <2>5. Armed(rx_table') = (Armed(rx_table) \ {p}) \cup {q}
    BY <2>2, <2>3
  <2> HIDE DEF p
  <2> QED BY <1>1, <1>2, <1>3, <1>4, <2>1, <2>2, <2>4, <2>5 DEF Apart, p
<1>6. CASE usb_buffer_available = {}
  <2>1. usb_buffer_available' = {} /\ rx_table' = [rx_table EXCEPT ![rx_hw] = None]
    BY <1>6 DEF RxDoneQueue
  <2>2. None \in Packets \cup {None}
    OBVIOUS
  <2>3. \A x : x \in Armed(rx_table') <=> (x \in Armed(rx_table) /\ x # rx_table[rx_hw]) \/ (x = None /\ x # None)
    BY <1>4, <2>1, <2>2, BankUpdate
  <2>4. Distinct(rx_table')
    BY <1>4, <2>1, <2>2, BankUpdate
  <2>5. Armed(rx_table') = Armed(rx_table) \ {p}
    BY <2>3
  <2> QED BY <1>1, <1>2, <1>3, <1>6, <2>1, <2>4, <2>5 DEF Apart
<1> QED BY <1>5, <1>6

LEMMA ExclusiveRxDoneQueue ==
    ASSUME TypeOK, Exclusive, RxDoneQueue
    PROVE  Exclusive'
<1> DEFINE p == rx_table[rx_hw]
<1>1. /\ p \in Armed(rx_table)
      /\ Range(rx_queue') = Range(rx_queue) \cup {p} /\ IsInjective(rx_queue')
      /\ usb_buffer_available' \cup Armed(rx_table')
           = usb_buffer_available \cup (Armed(rx_table) \ {p})
      /\ Apart(usb_buffer_available', Armed(rx_table'))
      /\ Distinct(rx_table')
      /\ tx_table' = tx_table /\ tx_queue' = tx_queue /\ held' = held /\ InFree' = InFree
  BY RxDoneQueueOwns
<1> HIDE DEF p
<1> QED BY <1>1 DEF Exclusive, Flushed, Apart

(* The client's calls.                                                     *)
LEMMA ExclusiveUsbRx ==
    ASSUME TypeOK, Exclusive, UsbRx
    PROVE  Exclusive'
<1> DEFINE h == Head(rx_queue)
<1>1. /\ rx_queue \in Seq(Packets) /\ IsInjective(rx_queue) /\ rx_queue # <<>>
      /\ rx_queue' = Tail(rx_queue)
  BY DEF UsbRx, TypeOK, Exclusive
<1>2. /\ h \in Range(rx_queue) /\ Range(rx_queue') = Range(rx_queue) \ {h}
      /\ IsInjective(rx_queue')
  BY <1>1, QueueTail
<1>3. /\ held' = held \cup {h} /\ usb_buffer_available' = usb_buffer_available
      /\ rx_table' = rx_table /\ tx_table' = tx_table /\ tx_queue' = tx_queue
      /\ InFree' = InFree
  BY DEF UsbRx, pool, tx, InFree
<1> HIDE DEF h
<1> QED BY <1>2, <1>3 DEF Exclusive, Flushed, Apart

LEMMA ExclusiveUsbTx ==
    ASSUME TypeOK, TxStateAgrees, Exclusive, NEW p \in held, UsbTx(p)
    PROVE  Exclusive'
<1>1. /\ Armed(tx_table') \cup Range(tx_queue')
           = Armed(tx_table) \cup Range(tx_queue) \cup {p}
      /\ Apart(Armed(tx_table'), Range(tx_queue'))
      /\ Distinct(tx_table') /\ IsInjective(tx_queue')
  <2>1. p \in Packets /\ p \notin Armed(tx_table) /\ p \notin Range(tx_queue)
    BY DEF TypeOK, Exclusive, Apart
  <2> QED BY <2>1, TransmitOwns DEF UsbTx
<1>2. /\ held' = held \ {p} /\ usb_buffer_available' = usb_buffer_available
      /\ rx_table' = rx_table /\ rx_queue' = rx_queue /\ InFree' = InFree
  BY DEF UsbTx, pool, rx, InFree
<1> QED BY <1>1, <1>2 DEF Exclusive, Flushed, Apart

LEMMA ExclusiveFree ==
    ASSUME TypeOK, Exclusive, Free
    PROVE  Exclusive'
<1>1. ASSUME NEW p \in Packets, FreeTest(p) PROVE Exclusive'
  <2>1. InFree \subseteq {p} /\ p \in held \cup InFree
    BY <1>1 DEF FreeTest, TypeOK, InFree
  <2>2. InFree' = {p} /\ held' = held \ {p}
    BY <1>1, PacketsAssumption DEF FreeTest, InFree
  <2>3. UNCHANGED <<usb_buffer_available, rx_table, tx_table, rx_queue, tx_queue>>
    BY <1>1 DEF FreeTest, pool, rx, tx
  <2> QED BY <2>1, <2>2, <2>3 DEF Exclusive, Flushed, Apart
<1>2. CASE FreeRelease
  <2>1. InFree = {free_packet} /\ InFree' = {}
    BY <1>2 DEF FreeRelease, InFree, TypeOK
  <2>2. /\ usb_buffer_available' = usb_buffer_available \cup {free_packet}
        /\ UNCHANGED <<rx_table, tx_table, rx_queue, tx_queue, held>>
    BY <1>2 DEF FreeRelease, rx, tx
  <2> QED BY <2>1, <2>2 DEF Exclusive, Flushed, Apart
<1>3. CASE FreeGive
  <2>1. InFree = {free_packet} /\ InFree' = {} /\ free_packet \in Packets
    BY <1>3 DEF FreeGive, InFree, TypeOK
  <2>2. Distinct(rx_table) /\ free_packet \notin Armed(rx_table)
    BY <2>1 DEF Exclusive, Apart
  <2>3. Armed(rx_table') = Armed(rx_table) \cup {free_packet} /\ Distinct(rx_table')
    BY <1>3, <2>1, <2>2, GiveToRxOwns DEF FreeGive
  <2>4. UNCHANGED <<usb_buffer_available, tx_table, rx_queue, tx_queue, held>>
    BY <1>3 DEF FreeGive, tx
  <2> QED BY <2>1, <2>3, <2>4 DEF Exclusive, Flushed, Apart
<1>4. CASE FreeFindsNone \/ FreeForget
  BY <1>4 DEF FreeFindsNone, FreeForget, pool, rx, tx, Exclusive, Flushed, InFree, Apart, Armed, Distinct
<1> QED BY <1>1, <1>2, <1>3, <1>4 DEF Free

LEMMA ExclusiveStep == TypeOK /\ TxStateAgrees /\ Exclusive /\ [Next]_vars => Exclusive'
<1> SUFFICES ASSUME TypeOK, TxStateAgrees, Exclusive, [Next]_vars PROVE Exclusive'
  OBVIOUS
<1>1. ASSUME UNCHANGED <<usb_buffer_available, rx_table, tx_table, rx_queue, tx_queue, held, free_packet>>
      PROVE  Exclusive'
  BY <1>1 DEF Exclusive, Flushed, InFree, Apart, Armed, Distinct
<1>2. CASE BusReset \/ RxDoneNothing \/ UNCHANGED vars
  BY <1>1, <1>2 DEF BusReset, RxDoneNothing, RxDone, pool, rx, tx, client, vars
<1>3. ASSUME NEW p \in usb_buffer_available, UsbMalloc(p) PROVE Exclusive'
  <2>1. /\ usb_buffer_available' = usb_buffer_available \ {p} /\ held' = held \cup {p}
        /\ UNCHANGED <<rx_table, tx_table, rx_queue, tx_queue>> /\ InFree' = InFree
    BY <1>3 DEF UsbMalloc, rx, tx, InFree
  <2> QED BY <2>1 DEF Exclusive, Flushed, Apart
<1> QED
  BY <1>2, <1>3, ExclusiveSetConfiguration, ExclusiveTxDoneRefill, ExclusiveTxDoneDrain,
     ExclusiveRxDoneQueue, ExclusiveUsbRx, ExclusiveUsbTx, ExclusiveFree DEF Next, Isr, Main

Inv == TypeOK /\ TxStateAgrees /\ Exclusive

LEMMA InvInit == Init => Inv
BY TypeInit, TxStateInit, ExclusiveInit DEF Inv

LEMMA InvStep == Inv /\ [Next]_vars => Inv'
BY TypeStep, TxStateStep, ExclusiveStep DEF Inv

LEMMA InvCorrect == Spec => []Inv
BY InvInit, InvStep, PTL DEF Spec

(* No packet is ever in two places, for any number of packets, any host,   *)
(* and any client that passes on only packets it holds.                    *)
THEOREM ExclusiveCorrect == Spec => []Exclusive
<1>1. Inv => Exclusive
  BY DEF Inv
<1> QED BY <1>1, InvCorrect, PTL

-----------------------------------------------------------------------------
(***************************************************************************)
(* Losses: only a configuration loses a packet, and only the unlocked      *)
(* reset of usb_rx_memory_needed loses a count.                            *)
(***************************************************************************)
LEMMA ReachableStep ==
    ASSUME TypeOK, TxStateAgrees, Exclusive, [Next]_vars
    PROVE  \/ Reachable' = Reachable
           \/ usb_rx_memory_needed > 0 /\ \E config \in {0, 1} : SetConfiguration(config)
<1>1. ASSUME NEW config \in {0, 1}, SetConfiguration(config), ~(usb_rx_memory_needed > 0)
      PROVE  Reachable' = Reachable
  <2> DEFINE free == usb_buffer_available \cup Flushed
  <2>1. Stranded(config) = {}
    BY <1>1 DEF Stranded
  <2>2. PICK e \in Packets \cup {None}, o \in Packets \cup {None} :
          /\ Malloc(free, e) /\ Malloc(free \ {e}, o)
          /\ rx_table' = [b \in Banks |-> IF b = "even" THEN e ELSE o]
          /\ usb_buffer_available' = free \ {e, o}
    BY <1>1, <2>1 DEF SetConfiguration
  <2>3. Armed(rx_table') = {e, o} \ {None}
    BY <2>2 DEF Armed, Banks
  <2>4. {e, o} \ {None} \subseteq free /\ None \notin free
    <3>1. None \notin free
      BY PacketsAssumption DEF Flushed, Armed, Range, TypeOK
    <3> QED BY <2>2, <3>1 DEF Malloc
  <2>5. Range(rx_queue') = {} /\ Range(tx_queue') = {} /\ Armed(tx_table') = {}
    BY <1>1 DEF SetConfiguration, Range, Armed, Empty, Banks
  <2>6. held' = held /\ InFree' = InFree
    BY <1>1 DEF SetConfiguration, client, InFree
  <2>7. Reachable = free \cup held \cup InFree
    BY DEF Reachable
  <2> HIDE DEF free
  <2> QED BY <2>2, <2>3, <2>4, <2>5, <2>6, <2>7 DEF Reachable, Flushed
<1>2. ASSUME TxDoneRefill PROVE Reachable' = Reachable
  <2> DEFINE p == tx_table[tx_hw]
             h == Head(tx_queue)
  <2>1. /\ p \in Armed(tx_table)
        /\ usb_buffer_available' \cup Armed(rx_table') = usb_buffer_available \cup Armed(rx_table) \cup {p}
        /\ rx_queue' = rx_queue /\ held' = held /\ InFree' = InFree
    BY <1>2, TxDoneOwns DEF TxDoneRefill
  <2>2. /\ tx_queue \in Seq(Packets) /\ IsInjective(tx_queue) /\ tx_queue # <<>> /\ tx_queue' = Tail(tx_queue)
        /\ tx_table \in [Banks -> Packets \cup {None}] /\ tx_hw \in Banks /\ Distinct(tx_table)
        /\ tx_table' = [tx_table EXCEPT ![tx_hw] = h]
    BY <1>2 DEF TxDoneRefill, TypeOK, Exclusive
  <2>3. h \in Range(tx_queue) /\ Range(tx_queue') = Range(tx_queue) \ {h}
    BY <2>2, QueueTail
  <2>4. h \in Packets \cup {None} /\ h # None /\ h \notin Armed(tx_table)
    BY <2>2, <2>3, PacketsAssumption DEF Exclusive, Apart
  <2> HIDE DEF h
  <2>5. \A x : x \in Armed(tx_table') <=> (x \in Armed(tx_table) /\ x # tx_table[tx_hw]) \/ (x = h /\ x # None)
    BY <2>2, <2>4, BankUpdate
  <2>6. Armed(tx_table') = (Armed(tx_table) \ {p}) \cup {h}
    BY <2>4, <2>5
  <2> HIDE DEF p
  <2> QED BY <2>1, <2>3, <2>6 DEF Reachable, Flushed
<1>3. ASSUME TxDoneDrain PROVE Reachable' = Reachable
  <2> DEFINE p == tx_table[tx_hw]
  <2>1. /\ p \in Armed(tx_table)
        /\ usb_buffer_available' \cup Armed(rx_table') = usb_buffer_available \cup Armed(rx_table) \cup {p}
        /\ rx_queue' = rx_queue /\ held' = held /\ InFree' = InFree
    BY <1>3, TxDoneOwns DEF TxDoneDrain
  <2>2. /\ tx_table \in [Banks -> Packets \cup {None}] /\ tx_hw \in Banks /\ Distinct(tx_table)
        /\ tx_table' = [tx_table EXCEPT ![tx_hw] = None]
        /\ None \in Packets \cup {None} /\ None \notin Armed(tx_table)
    BY <1>3 DEF TxDoneDrain, TypeOK, Exclusive, Armed
  <2>3. \A x : x \in Armed(tx_table') <=> (x \in Armed(tx_table) /\ x # tx_table[tx_hw]) \/ (x = None /\ x # None)
    BY <2>2, BankUpdate
  <2>4. Armed(tx_table') = Armed(tx_table) \ {p} /\ tx_queue' = tx_queue
    BY <1>3, <2>3 DEF TxDoneDrain
  <2> HIDE DEF p
  <2> QED BY <2>1, <2>4 DEF Reachable, Flushed
<1>4. ASSUME RxDoneQueue PROVE Reachable' = Reachable
  <2> DEFINE p == rx_table[rx_hw]
  <2>1. /\ p \in Armed(rx_table)
        /\ Range(rx_queue') = Range(rx_queue) \cup {p}
        /\ usb_buffer_available' \cup Armed(rx_table') = usb_buffer_available \cup (Armed(rx_table) \ {p})
        /\ tx_table' = tx_table /\ tx_queue' = tx_queue /\ held' = held /\ InFree' = InFree
    BY <1>4, RxDoneQueueOwns
  <2> HIDE DEF p
  <2> QED BY <2>1 DEF Reachable, Flushed
<1>5. ASSUME UsbRx PROVE Reachable' = Reachable
  <2> DEFINE h == Head(rx_queue)
  <2>1. /\ rx_queue \in Seq(Packets) /\ IsInjective(rx_queue) /\ rx_queue # <<>>
        /\ rx_queue' = Tail(rx_queue)
    BY <1>5 DEF UsbRx, TypeOK, Exclusive
  <2>2. h \in Range(rx_queue) /\ Range(rx_queue') = Range(rx_queue) \ {h}
    BY <2>1, QueueTail
  <2>3. /\ held' = held \cup {h} /\ usb_buffer_available' = usb_buffer_available
        /\ rx_table' = rx_table /\ tx_table' = tx_table /\ tx_queue' = tx_queue /\ InFree' = InFree
    BY <1>5 DEF UsbRx, pool, tx, InFree
  <2> HIDE DEF h
  <2> QED BY <2>2, <2>3 DEF Reachable, Flushed
<1>6. ASSUME NEW p \in held, UsbTx(p) PROVE Reachable' = Reachable
  <2>1. Armed(tx_table') \cup Range(tx_queue') = Armed(tx_table) \cup Range(tx_queue) \cup {p}
    <3>1. p \in Packets /\ p \notin Armed(tx_table) /\ p \notin Range(tx_queue)
      BY DEF TypeOK, Exclusive, Apart
    <3> QED BY <1>6, <3>1, TransmitOwns DEF UsbTx
  <2>2. /\ held' = held \ {p} /\ usb_buffer_available' = usb_buffer_available
        /\ rx_table' = rx_table /\ rx_queue' = rx_queue /\ InFree' = InFree
    BY <1>6 DEF UsbTx, pool, rx, InFree
  <2> QED BY <2>1, <2>2 DEF Reachable, Flushed
<1>7. ASSUME NEW p \in usb_buffer_available, UsbMalloc(p) PROVE Reachable' = Reachable
  <2>1. /\ usb_buffer_available' = usb_buffer_available \ {p} /\ held' = held \cup {p}
        /\ rx_table' = rx_table /\ tx_table' = tx_table /\ rx_queue' = rx_queue
        /\ tx_queue' = tx_queue /\ InFree' = InFree
    BY <1>7 DEF UsbMalloc, rx, tx, InFree
  <2> QED BY <2>1 DEF Reachable, Flushed
<1>8. ASSUME NEW p \in Packets, FreeTest(p) PROVE Reachable' = Reachable
  <2>1. InFree \subseteq {p} /\ p \in held \cup InFree
    BY <1>8 DEF FreeTest, TypeOK, InFree
  <2>2. InFree' = {p} /\ held' = held \ {p}
    BY <1>8, PacketsAssumption DEF FreeTest, InFree
  <2>3. Flushed' = Flushed /\ usb_buffer_available' = usb_buffer_available
    BY <1>8 DEF FreeTest, pool, rx, tx, Flushed
  <2> QED BY <2>1, <2>2, <2>3 DEF Reachable
<1>9. ASSUME FreeRelease PROVE Reachable' = Reachable
  <2>1. InFree = {free_packet} /\ InFree' = {}
    BY <1>9 DEF FreeRelease, InFree, TypeOK
  <2>2. /\ usb_buffer_available' = usb_buffer_available \cup {free_packet}
        /\ held' = held /\ Flushed' = Flushed
    BY <1>9 DEF FreeRelease, rx, tx, Flushed
  <2> QED BY <2>1, <2>2 DEF Reachable
<1>10. ASSUME FreeGive PROVE Reachable' = Reachable
  <2>1. InFree = {free_packet} /\ InFree' = {} /\ free_packet \in Packets
    BY <1>10 DEF FreeGive, InFree, TypeOK
  <2>2. Distinct(rx_table) /\ free_packet \notin Armed(rx_table)
    BY <2>1 DEF Exclusive, Apart
  <2>3. Armed(rx_table') = Armed(rx_table) \cup {free_packet}
    BY <1>10, <2>1, <2>2, GiveToRxOwns DEF FreeGive
  <2>4. /\ usb_buffer_available' = usb_buffer_available /\ held' = held
        /\ tx_table' = tx_table /\ rx_queue' = rx_queue /\ tx_queue' = tx_queue
    BY <1>10 DEF FreeGive, tx
  <2> QED BY <2>1, <2>3, <2>4 DEF Reachable, Flushed
<1>11. CASE BusReset \/ RxDoneNothing \/ FreeFindsNone \/ FreeForget \/ UNCHANGED vars
  BY <1>11 DEF BusReset, RxDoneNothing, RxDone, FreeFindsNone, FreeForget, pool, rx, tx, client, vars,
     Reachable, Flushed, InFree
<1> QED
  BY <1>1, <1>2, <1>3, <1>4, <1>5, <1>6, <1>7, <1>8, <1>9, <1>10, <1>11 DEF Next, Isr, Main, Free

(* Packets are lost only by SET_CONFIGURATION while a bank starves.        *)
THEOREM PacketsKept == Spec => NoPacketVanishes
<1>1. Inv /\ [Next]_vars => (\/ Reachable' = Reachable
                            \/ /\ usb_rx_memory_needed > 0
                               /\ \E config \in {0, 1} : SetConfiguration(config))
  BY ReachableStep DEF Inv
<1> QED BY <1>1, InvCorrect, PTL DEF Spec, NoPacketVanishes

(* One bank more or less in a set of banks.                                *)
LEMMA BankCountStep ==
    ASSUME NEW S \in SUBSET Banks, NEW b \in Banks
    PROVE  /\ b \notin S => Cardinality(S \cup {b}) = Cardinality(S) + 1
           /\ b \in S => Cardinality(S \ {b}) = Cardinality(S) - 1
<1>1. IsFiniteSet(Banks)
  <2>1. IsFiniteSet({"even"})
    BY FS_Singleton
  <2>2. IsFiniteSet({"even"} \cup {"odd"})
    BY <2>1, FS_AddElement
  <2>3. {"even"} \cup {"odd"} = Banks
    BY DEF Banks
  <2> QED BY <2>2, <2>3
<1>2. IsFiniteSet(S)
  BY <1>1, FS_Subset
<1>3. b \notin S => Cardinality(S \cup {b}) = Cardinality(S) + 1
  BY <1>2, FS_AddElement
<1>4. b \in S => Cardinality(S \ {b}) = Cardinality(S) - 1
  BY <1>2, FS_RemoveElement
<1> QED BY <1>3, <1>4

(* Giving a packet away counts one bank less, if the count was exact.      *)
LEMMA GiveToRxCounts ==
    ASSUME TypeOK, Starving # {}, usb_rx_memory_needed = Cardinality(Starving),
           NEW p \in Packets, GiveToRx(p)
    PROVE  usb_rx_memory_needed' = Cardinality(Starving')
<1>1. PICK b \in Starving : rx_table' = [rx_table EXCEPT ![b] = p]
  BY DEF GiveToRx, Starving, Banks
<1>2. b \in Banks /\ rx_table' = [rx_table EXCEPT ![b] = p]
  BY <1>1 DEF Starving
<1>3. \A x : x \in Starving' <=> x \in Starving /\ x # b
  BY <1>2, PacketsAssumption DEF Starving, TypeOK
<1>4. Starving' = Starving \ {b} /\ Starving \in SUBSET Banks
  BY <1>3 DEF Starving
<1>5. Cardinality(Starving') = Cardinality(Starving) - 1
  BY <1>1, <1>2, <1>4, BankCountStep
<1>6. Cardinality(Starving) \in 0 .. 2 /\ Cardinality(Starving') \in 0 .. 2
  BY <1>4, BankCount
<1>7. usb_rx_memory_needed' = (usb_rx_memory_needed + 255) % 256
  BY DEF GiveToRx
<1> QED BY <1>5, <1>6, <1>7

LEMMA MiscountStep ==
    ASSUME TypeOK, [Next]_vars, NeededExact
    PROVE  NeededExact' \/ FreeForget
<1>1. ASSUME UNCHANGED <<rx_table, usb_rx_memory_needed, usb_configuration>> PROVE NeededExact'
  BY <1>1 DEF NeededExact, Starving
<1>2. ASSUME NEW config \in {0, 1}, SetConfiguration(config) PROVE NeededExact'
  BY <1>2 DEF SetConfiguration, NeededExact, Starving
<1>3. ASSUME TxDone PROVE NeededExact'
  <2>2. tx_table[tx_hw] \in Packets /\ UNCHANGED usb_configuration
    BY <1>3 DEF TxDone, TypeOK, bus
  <2>3. CASE RxComesFirst /\ Starving # {}
    <3>1. GiveToRx(tx_table[tx_hw])
      BY <1>3, <2>3 DEF TxDone, IsrFree
    <3>2. usb_rx_memory_needed = Cardinality(Starving)
      BY <2>3 DEF RxComesFirst, NeededExact
    <3> QED BY <2>2, <2>3, <3>1, <3>2, GiveToRxCounts DEF NeededExact
  <2>4. CASE RxComesFirst /\ Starving = {}
    <3>1. usb_rx_memory_needed = 0
      BY <2>4, FS_EmptySet DEF NeededExact, RxComesFirst
    <3> QED BY <2>4, <3>1 DEF RxComesFirst
  <2>5. CASE ~RxComesFirst
    BY <1>1, <1>3, <2>2, <2>5 DEF TxDone, IsrFree
  <2> QED BY <2>3, <2>4, <2>5
<1>4. ASSUME RxDoneQueue PROVE NeededExact'
  <2>1. UNCHANGED usb_configuration /\ rx_table[rx_hw] # None /\ rx_hw \in Banks
    BY <1>4 DEF RxDoneQueue, RxDone, bus, TypeOK
  <2>2. CASE usb_buffer_available # {}
    <3>1. PICK q \in usb_buffer_available :
            rx_table' = [rx_table EXCEPT ![rx_hw] = q] /\ UNCHANGED usb_rx_memory_needed
      BY <1>4, <2>2 DEF RxDoneQueue
    <3>2. q # None
      BY PacketsAssumption DEF TypeOK
    <3>3. Starving' = Starving
      BY <2>1, <3>1, <3>2 DEF Starving, TypeOK
    <3> QED BY <2>1, <3>1, <3>3 DEF NeededExact
  <2>3. CASE usb_buffer_available = {}
    <3>1. /\ rx_table' = [rx_table EXCEPT ![rx_hw] = None]
          /\ usb_rx_memory_needed' = (usb_rx_memory_needed + 1) % 256
      BY <1>4, <2>3 DEF RxDoneQueue
    <3>2. \A x : x \in Starving' <=> x \in Starving \/ x = rx_hw
      BY <2>1, <3>1 DEF Starving, TypeOK
    <3>3. Starving' = Starving \cup {rx_hw} /\ rx_hw \notin Starving /\ Starving \in SUBSET Banks
      BY <2>1, <3>2 DEF Starving
    <3>4. Cardinality(Starving') = Cardinality(Starving) + 1
      BY <2>1, <3>3, BankCountStep
    <3>5. Cardinality(Starving) \in 0 .. 2
      BY <3>3, BankCount
    <3> QED BY <2>1, <3>1, <3>4, <3>5 DEF NeededExact
  <2> QED BY <2>2, <2>3
<1>5. ASSUME FreeGive PROVE NeededExact'
  <2>1. /\ free_packet \in Packets /\ Starving # {} /\ GiveToRx(free_packet)
        /\ UNCHANGED usb_configuration
    BY <1>5 DEF FreeGive, TypeOK, bus
  <2>2. CASE usb_configuration = 0
    BY <2>1, <2>2 DEF NeededExact
  <2>3. CASE usb_configuration # 0
    BY <2>1, <2>3, GiveToRxCounts DEF NeededExact
  <2> QED BY <2>2, <2>3
<1>6. CASE BusReset \/ RxDoneNothing \/ UsbRx \/ FreeRelease \/ FreeFindsNone \/ UNCHANGED vars
           \/ (\E p \in Packets : FreeTest(p)) \/ (\E p \in held : UsbTx(p))
           \/ (\E p \in usb_buffer_available : UsbMalloc(p))
  BY <1>1, <1>6 DEF BusReset, RxDoneNothing, RxDone, UsbRx, FreeRelease, FreeFindsNone, FreeTest, UsbTx,
     UsbMalloc, pool, rx, bus, vars
<1> QED
  BY <1>2, <1>3, <1>4, <1>5, <1>6 DEF Next, Isr, Main, Free, TxDoneRefill, TxDoneDrain

(* usb_rx_memory_needed counts the starving banks exactly, until the       *)
(* unlocked reset in usb_rx_memory runs.                                   *)
THEOREM CountKept == Spec => OnlyForgetMiscounts
<1>1. TypeOK /\ [Next]_vars => (NeededExact => NeededExact' \/ FreeForget)
  BY MiscountStep
<1> QED BY <1>1, TypeCorrect, PTL DEF Spec, OnlyForgetMiscounts

(* Through transfers and calls the bank of tx_state follows the one of the *)
(* controller: a drained bank is read from the controller when both were   *)
(* full, and fixed by tx_state otherwise.                                  *)
LEMMA InStepTxDone ==
    ASSUME TypeOK, TxStateAgrees, InStep, TxDoneRefill \/ TxDoneDrain
    PROVE  InStep'
<1>1. tx_hw' = Other(tx_hw) /\ tx_hw \in Banks /\ tx_state \in TxStates /\ tx_table[tx_hw] # None
  BY DEF TxDoneRefill, TxDoneDrain, TxDone, TypeOK
<1>2. CASE TxDoneRefill
  <2>1. tx_state \in NoneFree
    BY <1>2 DEF TxDoneRefill, TxStateAgrees
  <2> QED BY <1>2, <2>1 DEF TxDoneRefill, AfterFill, NoneFree, InStep
<1>3. CASE TxDoneDrain
  <2>1. tx_state' = AfterDrain(tx_hw)
    BY <1>3 DEF TxDoneDrain
  <2>2. tx_state \notin BothFree
    BY <1>1 DEF TxStateAgrees, Banks
  <2>3. CASE tx_state \in NoneFree
    BY <1>1, <2>1, <2>2, <2>3 DEF AfterDrain, NoneFree, BothFree, InStep, FirstBank, Other, Banks
  <2>4. CASE tx_state \notin NoneFree
    BY <1>1, <2>1, <2>2, <2>4
    DEF AfterDrain, NoneFree, BothFree, InStep, FirstBank, Other, Banks, TxStates
  <2> QED BY <2>3, <2>4
<1> QED BY <1>2, <1>3

LEMMA InStepStep ==
    ASSUME TypeOK, TxStateAgrees, InStep, [Next]_vars
    PROVE  InStep' \/ BusReset \/ \E config \in {0, 1} : SetConfiguration(config)
<1>1. ASSUME UNCHANGED <<tx_state, tx_hw>> PROVE InStep'
  BY <1>1 DEF InStep, FirstBank
<1>2. ASSUME NEW p \in held, UsbTx(p) PROVE InStep'
  <2>1. tx_state' = AfterFill /\ tx_hw' = tx_hw /\ tx_state \in TxStates
    BY <1>2 DEF UsbTx, Transmit, TypeOK
  <2> QED BY <2>1 DEF AfterFill, InStep, FirstBank, NoneFree, TxStates
<1>3. CASE RxDoneQueue \/ RxDoneNothing \/ UsbRx \/ Free \/ UNCHANGED vars
           \/ (\E p \in usb_buffer_available : UsbMalloc(p))
  BY <1>1, <1>3 DEF RxDoneQueue, RxDoneNothing, RxDone, UsbRx, Free, FreeTest, FreeRelease, FreeGive,
     FreeFindsNone, FreeForget, UsbMalloc, tx, vars
<1> QED
  BY <1>2, <1>3, InStepTxDone DEF Next, Isr, Main

(* Only a bus reset or a configuration parts tx_state from the controller. *)
THEOREM StepKept == Spec => OnlyBusMisaligns
<1>1. Inv /\ [Next]_vars => (InStep => \/ InStep'
                                       \/ BusReset
                                       \/ \E config \in {0, 1} : SetConfiguration(config))
  BY InStepStep DEF Inv
<1> QED BY <1>1, InvCorrect, PTL DEF Spec, OnlyBusMisaligns

-----------------------------------------------------------------------------
(***************************************************************************)
(* One FIFO.  First, what usb_tx and the handler do to the sequence of     *)
(* packets that wait, whatever the packets are.                            *)
(***************************************************************************)

LEMMA TwoSingletons ==
    ASSUME NEW S, NEW a \in S, NEW b \in S
    PROVE  <<a>> \o <<b>> = <<a, b>>
<1>1. /\ <<a>> \in Seq(S) /\ Len(<<a>>) = 1 /\ <<a>>[1] = a
      /\ <<b>> \in Seq(S) /\ Len(<<b>>) = 1 /\ <<b>>[1] = b
  OBVIOUS
<1> DEFINE u == <<a>> \o <<b>>
           v == <<a, b>>
<1>2. u \in Seq(S) /\ Len(u) = 2 /\ u[1] = a /\ u[2] = b
  <2>1. /\ u \in Seq(S) /\ Len(u) = 1 + 1
        /\ \A i \in 1 .. 1 + 1 : u[i] = IF i <= 1 THEN <<a>>[i] ELSE <<b>>[i - 1]
    BY <1>1, ConcatProperties
  <2> HIDE DEF u
  <2> QED BY <1>1, <2>1
<1>3. v \in Seq(S) /\ Len(v) = 2 /\ v[1] = a /\ v[2] = b
  OBVIOUS
<1> HIDE DEF u, v
<1>4. u = v
  BY <1>2, <1>3, SeqEqual
<1> QED BY <1>4 DEF u, v

(* Two packets in front of a queue: adding one, taking one, moving one up. *)
LEMMA PairAndQueue ==
    ASSUME NEW a \in Packets, NEW b \in Packets, NEW q \in Seq(Packets)
    PROVE  /\ \A p \in Packets : <<a, b>> \o Append(q, p) = Append(<<a, b>> \o q, p)
           /\ <<a, b>> \o q # <<>> /\ Head(<<a, b>> \o q) = a
           /\ Tail(<<a, b>> \o q) = <<b>> \o q
           /\ q # <<>> => <<b, Head(q)>> \o Tail(q) = <<b>> \o q
<1>1. /\ <<a, b>> \in Seq(Packets) /\ Len(<<a, b>>) = 2
      /\ <<b>> \in Seq(Packets) /\ Len(<<b>>) = 1 /\ <<b>>[1] = b
      /\ <<a, b>>[1] = a /\ <<a, b>>[2] = b
  OBVIOUS
<1> DEFINE s == <<a, b>> \o q
<1>2. /\ s \in Seq(Packets) /\ Len(s) = Len(q) + 2 /\ Len(q) \in Nat
      /\ s[1] = a /\ s[2] = b /\ \A i \in 1 .. Len(q) : s[i + 2] = q[i]
  <2>1. /\ s \in Seq(Packets) /\ Len(s) = 2 + Len(q)
        /\ \A i \in 1 .. 2 + Len(q) : s[i] = IF i <= 2 THEN <<a, b>>[i] ELSE q[i - 2]
    BY <1>1, ConcatProperties
  <2> HIDE DEF s
  <2>2. Len(q) \in Nat
    OBVIOUS
  <2> QED BY <1>1, <2>1, <2>2
<1> HIDE DEF s
<1>3. s # <<>> /\ Head(s) = a
  BY <1>2
<1>4. ASSUME NEW p \in Packets PROVE <<a, b>> \o Append(q, p) = Append(s, p)
  <2>1. /\ Append(s, p) = s \o <<p>> /\ Append(q, p) = q \o <<p>> /\ <<p>> \in Seq(Packets)
    BY <1>2, AppendIsConcat
  <2>2. (<<a, b>> \o q) \o <<p>> = <<a, b>> \o (q \o <<p>>)
    BY <1>1, <2>1, ConcatAssociative
  <2> QED BY <2>1, <2>2 DEF s
<1>5. /\ <<b>> \o q \in Seq(Packets) /\ Len(<<b>> \o q) = Len(q) + 1 /\ (<<b>> \o q)[1] = b
      /\ \A i \in 1 .. Len(q) : (<<b>> \o q)[i + 1] = q[i]
  <2> DEFINE u == <<b>> \o q
  <2>1. /\ u \in Seq(Packets) /\ Len(u) = 1 + Len(q)
        /\ \A i \in 1 .. 1 + Len(q) : u[i] = IF i <= 1 THEN <<b>>[i] ELSE q[i - 1]
    BY <1>1, ConcatProperties
  <2> HIDE DEF u
  <2>2. u[1] = b
    <3>1. 1 \in 1 .. 1 + Len(q)
      BY <1>2
    <3>2. u[1] = <<b>>[1]
      BY <2>1, <3>1
    <3> QED BY <1>1, <3>2
  <2>3. ASSUME NEW i \in 1 .. Len(q) PROVE u[i + 1] = q[i]
    <3>1. i + 1 \in 1 .. 1 + Len(q) /\ ~(i + 1 <= 1) /\ (i + 1) - 1 = i
      BY <1>2
    <3> QED BY <2>1, <3>1
  <2>4. Len(u) = Len(q) + 1
    BY <1>2, <2>1
  <2> QED BY <2>1, <2>2, <2>3, <2>4 DEF u
<1>6. Tail(s) = <<b>> \o q
  <2>1. /\ Tail(s) \in Seq(Packets) /\ Len(Tail(s)) = Len(q) + 1
        /\ \A i \in 1 .. Len(q) + 1 : Tail(s)[i] = s[i + 1]
    BY <1>2, <1>3, HeadTailProperties
  <2>2. ASSUME NEW i \in 1 .. Len(q) + 1 PROVE Tail(s)[i] = (<<b>> \o q)[i]
    <3>1. CASE i = 1
      BY <1>2, <1>5, <2>1, <3>1
    <3>2. CASE i # 1
      <4>1. i - 1 \in 1 .. Len(q) /\ (i - 1) + 2 = i + 1 /\ (i - 1) + 1 = i
        BY <1>2, <3>2
      <4>2. s[i + 1] = q[i - 1] /\ (<<b>> \o q)[i] = q[i - 1]
        BY <1>2, <1>5, <4>1
      <4> QED BY <2>1, <4>2
    <3> QED BY <3>1, <3>2
  <2> QED BY <1>5, <2>1, <2>2, SeqEqual
<1>7. ASSUME q # <<>> PROVE <<b, Head(q)>> \o Tail(q) = <<b>> \o q
  <2>1. Head(q) \in Packets /\ Tail(q) \in Seq(Packets)
    BY <1>7
  <2>2. q = <<Head(q)>> \o Tail(q)
    BY <1>7
  <2>3. <<b, Head(q)>> = <<b>> \o <<Head(q)>>
    BY <2>1
  <2>4. <<Head(q)>> \in Seq(Packets)
    BY <2>1
  <2>5. (<<b>> \o <<Head(q)>>) \o Tail(q) = <<b>> \o (<<Head(q)>> \o Tail(q))
    BY <1>1, <2>1, <2>4, ConcatAssociative
  <2> QED BY <2>2, <2>3, <2>5
<1> QED BY <1>3, <1>4, <1>6, <1>7 DEF s

LEMMA PairRange ==
    ASSUME NEW a \in Packets, NEW b \in Packets, NEW q \in Seq(Packets)
    PROVE  Range(<<a, b>> \o q) = {a, b} \cup Range(q)
<1>1. /\ <<a, b>> \in Seq(Packets) /\ Len(<<a, b>>) = 2
      /\ <<a, b>>[1] = a /\ <<a, b>>[2] = b
  OBVIOUS
<1> DEFINE s == <<a, b>> \o q
<1>2. /\ s \in Seq(Packets) /\ Len(s) = Len(q) + 2 /\ Len(q) \in Nat
      /\ s[1] = a /\ s[2] = b /\ \A i \in 1 .. Len(q) : s[i + 2] = q[i]
  <2>1. /\ s \in Seq(Packets) /\ Len(s) = 2 + Len(q)
        /\ \A i \in 1 .. 2 + Len(q) : s[i] = IF i <= 2 THEN <<a, b>>[i] ELSE q[i - 2]
    BY <1>1, ConcatProperties
  <2> HIDE DEF s
  <2>2. Len(q) \in Nat
    OBVIOUS
  <2> QED BY <1>1, <2>1, <2>2
<1> HIDE DEF s
<1>3. Range(s) = {a, b} \cup Range(q)
  <2>1. /\ DOMAIN s = 1 .. Len(q) + 2 /\ DOMAIN q = 1 .. Len(q)
    BY <1>2
  <2>2. ASSUME NEW x \in Range(s) PROVE x \in {a, b} \cup Range(q)
    <3>1. PICK i \in 1 .. Len(q) + 2 : s[i] = x
      BY <2>1 DEF Range
    <3>2. i \in {1, 2} \/ (i - 2 \in 1 .. Len(q) /\ (i - 2) + 2 = i)
      BY <1>2
    <3>3. CASE i - 2 \in 1 .. Len(q) /\ (i - 2) + 2 = i
      <4>1. x = q[i - 2]
        BY <1>2, <3>1, <3>3
      <4> QED BY <2>1, <3>3, <4>1 DEF Range
    <3> QED BY <1>2, <3>1, <3>2, <3>3
  <2>3. ASSUME NEW x \in {a, b} \cup Range(q) PROVE x \in Range(s)
    <3>1. CASE x \in {a, b}
      BY <1>2, <2>1, <3>1 DEF Range
    <3>2. CASE x \in Range(q)
      <4>1. PICK i \in 1 .. Len(q) : q[i] = x
        BY <2>1, <3>2 DEF Range
      <4>2. i + 2 \in 1 .. Len(q) + 2 /\ s[i + 2] = x
        BY <1>2, <4>1
      <4> QED BY <2>1, <4>2 DEF Range
    <3> QED BY <3>1, <3>2
  <2> QED BY <2>2, <2>3
<1> QED BY <1>3 DEF s

(* What waits, by tx_state: nothing, one packet in the bank that is sent   *)
(* next, or both banks and the queue.                                      *)
LEMMA PendingByState ==
    ASSUME TypeOK, TxStateAgrees, InStep
    PROVE  /\ tx_state \in BothFree => TxPending = <<>> /\ tx_queue = <<>>
           /\ tx_state \in {"EVEN_FREE", "ODD_FREE"} =>
                 /\ tx_table[tx_hw] \in Packets /\ tx_table[Other(tx_hw)] = None
                 /\ tx_queue = <<>> /\ TxPending = <<tx_table[tx_hw]>>
           /\ tx_state \in NoneFree =>
                 /\ tx_table[tx_hw] \in Packets /\ tx_table[Other(tx_hw)] \in Packets
                 /\ TxPending = <<tx_table[tx_hw], tx_table[Other(tx_hw)]>> \o tx_queue
<1>1. /\ tx_table \in [Banks -> Packets \cup {None}] /\ tx_queue \in Seq(Packets)
      /\ tx_hw \in Banks /\ None \notin Packets /\ tx_state \in TxStates
  BY PacketsAssumption DEF TypeOK
<1>2. CASE tx_state \in BothFree
  <2>1. tx_table[tx_hw] = None /\ tx_table[Other(tx_hw)] = None /\ tx_queue = <<>>
    BY <1>1, <1>2 DEF TxStateAgrees, BothFree, NoneFree, Banks, Other
  <2>2. InBank(tx_hw) = <<>> /\ InBank(Other(tx_hw)) = <<>>
    BY <2>1 DEF InBank
  <2>3. TxPending = <<>>
    BY <2>1, <2>2 DEF TxPending
  <2> QED BY <1>2, <2>1, <2>3 DEF BothFree, NoneFree
<1>3. CASE tx_state \in {"EVEN_FREE", "ODD_FREE"}
  <2>1. /\ tx_table[tx_hw] \in Packets /\ tx_table[Other(tx_hw)] = None /\ tx_queue = <<>>
    BY <1>1, <1>3 DEF TxStateAgrees, BothFree, NoneFree, Banks, Other, InStep, FirstBank
  <2>2. InBank(tx_hw) = <<tx_table[tx_hw]>> /\ InBank(Other(tx_hw)) = <<>>
    BY <1>1, <2>1 DEF InBank
  <2>3. TxPending = <<tx_table[tx_hw]>>
    BY <2>1, <2>2 DEF TxPending
  <2> QED BY <1>3, <2>1, <2>3 DEF BothFree, NoneFree
<1>4. CASE tx_state \in NoneFree
  <2>1. tx_table[tx_hw] \in Packets /\ tx_table[Other(tx_hw)] \in Packets
    BY <1>1, <1>4 DEF TxStateAgrees, BothFree, NoneFree, Banks, Other
  <2>2. InBank(tx_hw) = <<tx_table[tx_hw]>> /\ InBank(Other(tx_hw)) = <<tx_table[Other(tx_hw)]>>
    BY <1>1, <2>1 DEF InBank
  <2>3. TxPending = <<tx_table[tx_hw], tx_table[Other(tx_hw)]>> \o tx_queue
    BY <2>1, <2>2 DEF TxPending
  <2> QED BY <1>4, <2>1, <2>3 DEF BothFree, NoneFree
<1> QED BY <1>1, <1>2, <1>3, <1>4 DEF TxStates, BothFree, NoneFree

(* The packets that wait are the armed and the queued ones.                *)
LEMMA PendingRange ==
    ASSUME TypeOK, TxStateAgrees, InStep
    PROVE  /\ TxPending \in Seq(Packets)
           /\ Range(TxPending) = Armed(tx_table) \cup Range(tx_queue)
<1>1. /\ tx_table \in [Banks -> Packets \cup {None}] /\ tx_queue \in Seq(Packets)
      /\ tx_hw \in Banks /\ None \notin Packets /\ tx_state \in TxStates
  BY PacketsAssumption DEF TypeOK
<1>2. Armed(tx_table) = {tx_table[tx_hw], tx_table[Other(tx_hw)]} \ {None}
  BY <1>1 DEF Armed, Banks, Other
<1>3. Range(<<>>) = {} /\ \A p \in Packets : Range(<<p>>) = {p}
  BY DEF Range
<1>4. CASE tx_state \in BothFree
  <2>1. TxPending = <<>> /\ tx_queue = <<>>
    BY <1>4, PendingByState
  <2>2. Armed(tx_table) = {}
    BY <1>1, <1>2, <1>4 DEF TxStateAgrees, BothFree, Banks, Other
  <2> QED BY <1>3, <2>1, <2>2
<1>5. CASE tx_state \in {"EVEN_FREE", "ODD_FREE"}
  <2>1. /\ tx_table[tx_hw] \in Packets /\ tx_table[Other(tx_hw)] = None
        /\ tx_queue = <<>> /\ TxPending = <<tx_table[tx_hw]>>
    BY <1>5, PendingByState
  <2> QED BY <1>1, <1>2, <1>3, <2>1
<1>6. CASE tx_state \in NoneFree
  <2>1. /\ tx_table[tx_hw] \in Packets /\ tx_table[Other(tx_hw)] \in Packets
        /\ TxPending = <<tx_table[tx_hw], tx_table[Other(tx_hw)]>> \o tx_queue
    BY <1>6, PendingByState
  <2>2. TxPending \in Seq(Packets)
    BY <1>1, <2>1
  <2>3. Range(TxPending) = {tx_table[tx_hw], tx_table[Other(tx_hw)]} \cup Range(tx_queue)
    <3> DEFINE a == tx_table[tx_hw]
               b == tx_table[Other(tx_hw)]
    <3>1. a \in Packets /\ b \in Packets
      BY <2>1
    <3> HIDE DEF a, b
    <3>2. Range(<<a, b>> \o tx_queue) = {a, b} \cup Range(tx_queue)
      BY <1>1, <3>1, PairRange
    <3> QED BY <2>1, <3>2 DEF a, b
  <2> QED BY <1>1, <1>2, <2>1, <2>2, <2>3
<1> QED BY <1>1, <1>4, <1>5, <1>6 DEF TxStates, BothFree, NoneFree

(* What usb_tx is given joins the end, and keeps the controller in step.   *)
LEMMA TransmitAppends ==
    ASSUME TypeOK, TxStateAgrees, InStep, NEW p \in Packets, Transmit(p)
    PROVE  InStep' /\ TxPending' = Append(TxPending, p)
<1>1. /\ tx_table \in [Banks -> Packets \cup {None}] /\ tx_queue \in Seq(Packets)
      /\ tx_hw \in Banks /\ None \notin Packets /\ tx_state \in TxStates
      /\ p \in Packets /\ p # None
  BY PacketsAssumption DEF TypeOK
<1>2. tx_state' = AfterFill /\ tx_hw' = tx_hw
  BY DEF Transmit
<1>3. InStep'
  BY <1>1, <1>2 DEF AfterFill, InStep, FirstBank, NoneFree, TxStates
<1>4. TxPending' = InBank(tx_hw)' \o InBank(Other(tx_hw))' \o tx_queue'
  BY DEF TxPending
<1>5. CASE tx_state \in NoneFree
  <2>1. tx_queue' = Append(tx_queue, p) /\ UNCHANGED tx_table
    BY <1>5 DEF Transmit
  <2> DEFINE a == tx_table[tx_hw]
             b == tx_table[Other(tx_hw)]
  <2>2. a \in Packets /\ b \in Packets
    BY <1>5, PendingByState
  <2>3. InBank(tx_hw)' = <<a>> /\ InBank(Other(tx_hw))' = <<b>>
    BY <1>1, <1>2, <2>1, <2>2 DEF InBank
  <2>4. TxPending = <<a, b>> \o tx_queue
    BY <1>5, PendingByState
  <2> HIDE DEF a, b
  <2>5. TxPending' = <<a, b>> \o Append(tx_queue, p)
    <3>1. TxPending' = (<<a>> \o <<b>>) \o Append(tx_queue, p)
      BY <1>4, <2>1, <2>3
    <3>2. <<a>> \o <<b>> = <<a, b>>
      BY <2>2, TwoSingletons
    <3> QED BY <3>1, <3>2
  <2> QED BY <1>1, <1>3, <2>2, <2>4, <2>5, PairAndQueue
<1>6. CASE tx_state \notin NoneFree
  <2>1. /\ tx_queue' = tx_queue /\ tx_queue = <<>>
        /\ tx_table' = [tx_table EXCEPT ![NextFreeBank] = p]
    BY <1>6 DEF Transmit, TxStateAgrees
  <2>2. CASE tx_state \in BothFree
    <3>1. NextFreeBank = tx_hw /\ tx_table[Other(tx_hw)] = None /\ Other(tx_hw) # tx_hw
      BY <1>1, <1>6, <2>2
      DEF NextFreeBank, BothFree, NoneFree, InStep, FirstBank, TxStateAgrees, Other, Banks
    <3>2. tx_table'[tx_hw] = p /\ tx_table'[Other(tx_hw)] = None
      BY <1>1, <2>1, <3>1 DEF Other, Banks
    <3>3. InBank(tx_hw)' = <<p>> /\ InBank(Other(tx_hw))' = <<>>
      BY <1>1, <1>2, <3>2 DEF InBank
    <3>4. TxPending = <<>>
      BY <2>2, PendingByState
    <3> QED BY <1>3, <1>4, <2>1, <3>3, <3>4
  <2>3. CASE tx_state \in {"EVEN_FREE", "ODD_FREE"}
    <3>1. NextFreeBank = Other(tx_hw) /\ Other(tx_hw) # tx_hw
      BY <1>1, <1>6, <2>3 DEF NextFreeBank, NoneFree, InStep, FirstBank, Other, Banks
    <3> DEFINE a == tx_table[tx_hw]
    <3>2. a \in Packets /\ TxPending = <<a>>
      BY <2>3, PendingByState
    <3>3. tx_table'[tx_hw] = a /\ tx_table'[Other(tx_hw)] = p
      BY <1>1, <2>1, <3>1 DEF Other, Banks
    <3>4. InBank(tx_hw)' = <<a>> /\ InBank(Other(tx_hw))' = <<p>>
      BY <1>1, <1>2, <3>2, <3>3 DEF InBank
    <3> HIDE DEF a
    <3>5. TxPending' = <<a>> \o <<p>> \o <<>>
      BY <1>4, <2>1, <3>4
    <3>6. TxPending' = Append(<<a>>, p)
      BY <1>1, <3>2, <3>5
    <3> QED BY <1>3, <3>2, <3>6
  <2> QED BY <1>1, <1>6, <2>2, <2>3 DEF TxStates, BothFree, NoneFree
<1> QED BY <1>5, <1>6

(* The handler takes the first packet that waits, and no other.            *)
LEMMA TxDoneTakesFirst ==
    ASSUME TypeOK, TxStateAgrees, InStep, TxDoneRefill \/ TxDoneDrain
    PROVE  /\ InStep' /\ TxPending # <<>>
           /\ Head(TxPending) = tx_table[tx_hw] /\ TxPending' = Tail(TxPending)
<1>1. /\ tx_table \in [Banks -> Packets \cup {None}] /\ tx_queue \in Seq(Packets)
      /\ tx_hw \in Banks /\ None \notin Packets /\ tx_state \in TxStates
      /\ Other(tx_hw) \in Banks /\ Other(tx_hw) # tx_hw /\ Other(Other(tx_hw)) = tx_hw
  BY PacketsAssumption DEF TypeOK, Other, Banks
<1>2. tx_table[tx_hw] # None /\ tx_hw' = Other(tx_hw)
  BY DEF TxDoneRefill, TxDoneDrain, TxDone
<1>3. InStep'
  BY InStepTxDone
<1>4. TxPending' = InBank(tx_hw)' \o InBank(Other(tx_hw))' \o tx_queue'
  BY DEF TxPending
<1>5. tx_state \notin BothFree
  BY <1>1, <1>2 DEF TxStateAgrees, Banks
<1> DEFINE a == tx_table[tx_hw]
           b == tx_table[Other(tx_hw)]
<1>6. CASE TxDoneRefill
  <2>1. /\ tx_queue # <<>> /\ tx_queue' = Tail(tx_queue)
        /\ tx_table' = [tx_table EXCEPT ![tx_hw] = Head(tx_queue)]
    BY <1>6 DEF TxDoneRefill
  <2>2. tx_state \in NoneFree
    BY <2>1 DEF TxStateAgrees
  <2>3. a \in Packets /\ b \in Packets /\ TxPending = <<a, b>> \o tx_queue
    BY <2>2, PendingByState
  <2>4. Head(tx_queue) \in Packets
    BY <1>1, <2>1
  <2>5. tx_table'[tx_hw'] = b /\ tx_table'[Other(tx_hw')] = Head(tx_queue)
    BY <1>1, <1>2, <2>1
  <2>6. InBank(tx_hw)' = <<b>> /\ InBank(Other(tx_hw))' = <<Head(tx_queue)>>
    BY <1>1, <2>3, <2>4, <2>5 DEF InBank
  <2>7. Tail(tx_queue) \in Seq(Packets)
    BY <1>1, <2>1
  <2> HIDE DEF a, b
  <2>8. TxPending' = <<b, Head(tx_queue)>> \o Tail(tx_queue)
    BY <1>4, <2>1, <2>6
  <2>9. TxPending' = <<b>> \o tx_queue
    BY <1>1, <2>1, <2>3, <2>8, PairAndQueue
  <2>10. Tail(TxPending) = <<b>> \o tx_queue /\ TxPending # <<>> /\ Head(TxPending) = a
    BY <1>1, <2>3, PairAndQueue
  <2> QED BY <1>3, <2>9, <2>10 DEF a
<1>7. CASE TxDoneDrain
  <2>1. tx_queue = <<>> /\ tx_queue' = <<>> /\ tx_table' = [tx_table EXCEPT ![tx_hw] = None]
    BY <1>7 DEF TxDoneDrain
  <2>2. tx_table'[tx_hw'] = b /\ tx_table'[Other(tx_hw')] = None
    BY <1>1, <1>2, <2>1
  <2>3. InBank(Other(tx_hw))' = <<>>
    BY <2>2 DEF InBank
  <2>4. CASE tx_state \in NoneFree
    <3>1. a \in Packets /\ b \in Packets /\ TxPending = <<a, b>> \o <<>>
      BY <2>1, <2>4, PendingByState
    <3>2. InBank(tx_hw)' = <<b>>
      BY <1>1, <2>2, <3>1 DEF InBank
    <3> HIDE DEF a, b
    <3>3. TxPending = <<a, b>>
      BY <3>1
    <3>4. TxPending # <<>> /\ Head(TxPending) = a /\ Tail(TxPending) = <<b>>
      BY <3>1, <3>3
    <3>5. TxPending' = <<b>>
      BY <1>4, <2>1, <2>3, <3>2
    <3> QED BY <1>3, <3>4, <3>5 DEF a
  <2>5. CASE tx_state \in {"EVEN_FREE", "ODD_FREE"}
    <3>1. a \in Packets /\ b = None /\ TxPending = <<a>>
      BY <2>5, PendingByState
    <3>2. InBank(tx_hw)' = <<>>
      BY <2>2, <3>1 DEF InBank
    <3> HIDE DEF a, b
    <3>3. TxPending # <<>> /\ Head(TxPending) = a /\ Tail(TxPending) = <<>>
      BY <3>1
    <3>4. TxPending' = <<>>
      BY <1>4, <2>1, <2>3, <3>2
    <3> QED BY <1>3, <3>3, <3>4 DEF a
  <2> QED BY <1>1, <1>5, <2>4, <2>5 DEF TxStates, BothFree, NoneFree
<1> QED BY <1>6, <1>7

(* Before the host configures the device nothing is held, armed or queued. *)
Unused ==
    /\ held = {} /\ free_pc = "idle" /\ rx_queue = <<>>
    /\ ~enumerated /\ tx_state \in BothFree

FifoInv == Inv /\ InStep /\ (usb_configuration = 0 => Unused)

(* One configuration leaves the transmit side as it finds it, unused.      *)
LEMMA FirstConfiguration ==
    ASSUME FifoInv, FifoInv', usb_configuration = 0,
           NEW config \in {0, 1}, SetConfiguration(config)
    PROVE  TxPending = <<>> /\ TxPending' = <<>>
<1>1. tx_state \in BothFree /\ TypeOK /\ TxStateAgrees /\ InStep
  BY DEF FifoInv, Unused, Inv
<1>2. tx_queue' = <<>> /\ tx_table' = Empty /\ tx_hw' = tx_hw /\ tx_hw \in Banks
  BY <1>1 DEF SetConfiguration, TypeOK
<1>3. InBank(tx_hw)' = <<>> /\ InBank(Other(tx_hw))' = <<>>
  BY <1>2 DEF InBank, Empty, Other, Banks
<1>4. TxPending' = <<>>
  BY <1>2, <1>3 DEF TxPending
<1> QED BY <1>1, <1>4, PendingByState

LEMMA FifoInvInit == Init => FifoInv
<1> SUFFICES ASSUME Init PROVE FifoInv
  OBVIOUS
<1>1. InStep /\ Unused
  BY DEF Init, InStep, FirstBank, Unused, BothFree
<1> QED BY <1>1, InvInit DEF FifoInv

LEMMA FifoInvStep ==
    ASSUME HostMayReconfigure = FALSE, FifoInv, [Next]_vars
    PROVE  FifoInv'
<1>1. Inv' /\ Inv /\ InStep /\ TypeOK /\ TxStateAgrees
  BY InvStep DEF FifoInv, Inv
<1>2. ASSUME NEW config \in {0, 1}, SetConfiguration(config) PROVE FifoInv'
  <2>1. usb_configuration = 0 /\ Unused
    BY <1>2 DEF SetConfiguration, FifoInv
  <2>2. tx_state' = tx_state /\ tx_hw' = tx_hw
    BY <1>2, <2>1 DEF SetConfiguration, Unused, BothFree
  <2>3. InStep'
    BY <1>1, <2>2 DEF InStep, FirstBank
  <2>4. usb_configuration' = 0 => Unused'
    BY <1>2, <2>1, <2>2 DEF SetConfiguration, Unused, client
  <2> QED BY <1>1, <2>3, <2>4 DEF FifoInv
<1>3. ~BusReset
  BY DEF BusReset
<1>4. ASSUME [Next]_vars, ~\E config \in {0, 1} : SetConfiguration(config) PROVE FifoInv'
  <2>1. InStep'
    BY <1>1, <1>3, <1>4, InStepStep
  <2>2. usb_configuration' = usb_configuration
    BY <1>3, <1>4 DEF Next, Isr, Main, Free, TxDoneRefill, TxDoneDrain, TxDone, RxDoneQueue, RxDoneNothing,
       RxDone, UsbMalloc, UsbRx, UsbTx, FreeTest, FreeRelease, FreeGive, FreeFindsNone, FreeForget, vars, bus
  <2>3. ASSUME usb_configuration = 0 PROVE Unused'
    <3>1. Unused
      BY <2>3 DEF FifoInv
    <3>2. ASSUME UNCHANGED vars PROVE Unused'
      BY <3>1, <3>2 DEF Unused, vars, client, rx, bus, tx
    <3>3. ~(TxDoneRefill \/ TxDoneDrain \/ RxDoneQueue \/ RxDoneNothing)
      BY <3>1 DEF Unused, TxDoneRefill, TxDoneDrain, TxDone, RxDoneQueue, RxDoneNothing, RxDone
    <3>4. ~Main
      BY <2>3, <3>1 DEF Unused, Main, UsbMalloc, UsbRx, Free, FreeTest, FreeRelease, FreeGive, FreeFindsNone,
         FreeForget
    <3> QED BY <1>3, <1>4, <3>2, <3>3, <3>4 DEF Next, Isr
  <2> QED BY <1>1, <2>1, <2>2, <2>3 DEF FifoInv
<1> QED BY <1>2, <1>4

(* Every step adds a packet at the end, takes the first, or does neither.  *)
LEMMA FifoStep ==
    ASSUME HostMayReconfigure = FALSE, FifoInv, [Next]_vars
    PROVE  [Fifo!Next]_TxPending
<1>1. TypeOK /\ TxStateAgrees /\ Exclusive /\ InStep /\ FifoInv'
  BY FifoInvStep DEF FifoInv, Inv
<1>2. ASSUME UNCHANGED tx PROVE UNCHANGED TxPending
  BY <1>2 DEF tx, TxPending, InBank
<1>3. ASSUME NEW config \in {0, 1}, SetConfiguration(config) PROVE UNCHANGED TxPending
  <2>1. usb_configuration = 0
    BY <1>3 DEF SetConfiguration
  <2> QED BY <1>1, <1>3, <2>1, FirstConfiguration
<1>4. ASSUME TxDoneRefill \/ TxDoneDrain PROVE Fifo!Next
  BY <1>1, <1>4, TxDoneTakesFirst DEF Fifo!Next, Fifo!Deliver
<1>5. ASSUME NEW p \in held, UsbTx(p) PROVE Fifo!Next
  <2>1. p \in Packets /\ Transmit(p)
    BY <1>1, <1>5 DEF TypeOK, UsbTx
  <2>2. TxPending' = Append(TxPending, p)
    BY <1>1, <2>1, TransmitAppends
  <2>3. p \notin Range(TxPending)
    BY <1>1, PendingRange DEF Exclusive, Apart
  <2>4. p \notin Fifo!Range(TxPending)
    BY <2>3 DEF Fifo!Range, Range
  <2> QED BY <2>1, <2>2, <2>4 DEF Fifo!Next, Fifo!Accept
<1>6. CASE RxDoneQueue \/ RxDoneNothing \/ UsbRx \/ Free \/ UNCHANGED vars
           \/ (\E p \in usb_buffer_available : UsbMalloc(p))
  <2>1. UNCHANGED tx
    BY <1>6 DEF RxDoneQueue, RxDoneNothing, RxDone, UsbRx, Free, FreeTest, FreeRelease, FreeGive,
       FreeFindsNone, FreeForget, UsbMalloc, vars
  <2> QED BY <1>2, <2>1
<1>7. ~BusReset
  BY DEF BusReset
<1> QED BY <1>3, <1>4, <1>5, <1>6, <1>7 DEF Next, Isr, Main

(* Two banks, a six-valued state and a linked list are one FIFO: towards a *)
(* host that configures the device once, usb_tx and the handler together   *)
(* send every packet once and in the order usb_tx accepted them.           *)
THEOREM FifoCorrect ==
    ASSUME HostMayReconfigure = FALSE
    PROVE  Spec => TxInOrder
<1>1. Init => Fifo!Init
  <2> SUFFICES ASSUME Init PROVE TxPending = <<>>
    BY DEF Fifo!Init
  <2> QED BY DEF Init, TxPending, InBank, Empty, Other, Banks
<1>2. FifoInv /\ [Next]_vars => FifoInv'
  BY FifoInvStep
<1>3. FifoInv /\ [Next]_vars => [Fifo!Next]_TxPending
  BY FifoStep
<1> QED BY <1>1, <1>2, <1>3, FifoInvInit, PTL DEF Spec, TxInOrder, Fifo!Spec

-----------------------------------------------------------------------------
(***************************************************************************)
(* The sweep of SET_CONFIGURATION.  After the receive banks, only as many  *)
(* packets are given away as the count asks for and banks starve           *)
(* (SweepRoom), the first ones it comes to; all others are freed.          *)
(***************************************************************************)
SweepStates == [free : SUBSET Packets, needed : Nat, table : [Banks -> Packets \cup {None}]]

SweepRoom(s, config) ==
    IF s.needed = 0 \/ config = 0 THEN 0
    ELSE IF s.table["even"] = None /\ s.table["odd"] = None
         THEN IF s.needed = 1 THEN 1 ELSE 2
    ELSE IF s.table["even"] = None \/ s.table["odd"] = None THEN 1
    ELSE 0

LEMMA SweepFreeStep ==
    ASSUME NEW s \in SweepStates, NEW p \in Packets, NEW config
    PROVE  /\ SweepFree(s, p, config) \in SweepStates
           /\ SweepRoom(s, config) = 0 =>
                 /\ SweepFree(s, p, config).free = s.free \cup {p}
                 /\ SweepRoom(SweepFree(s, p, config), config) = 0
           /\ SweepRoom(s, config) # 0 =>
                 /\ SweepFree(s, p, config).free = s.free
                 /\ SweepRoom(SweepFree(s, p, config), config) = SweepRoom(s, config) - 1
<1>1. /\ s = [free |-> s.free, needed |-> s.needed, table |-> s.table]
      /\ s.free \in SUBSET Packets /\ s.needed \in Nat
      /\ s.table \in [Banks -> Packets \cup {None}] /\ p # None
  BY PacketsAssumption DEF SweepStates
<1>2. CASE s.needed = 0 \/ config = 0
  <2>1. SweepFree(s, p, config) = [free |-> s.free \cup {p}, needed |-> s.needed, table |-> s.table]
    BY <1>1, <1>2 DEF SweepFree
  <2> QED BY <1>1, <1>2, <2>1 DEF SweepStates, SweepRoom
<1>3. ASSUME ~(s.needed = 0 \/ config = 0), NEW b \in Banks, s.table[b] = None,
             b = "odd" => s.table["even"] # None
      PROVE  /\ SweepFree(s, p, config) \in SweepStates
             /\ SweepRoom(s, config) # 0
             /\ SweepFree(s, p, config).free = s.free
             /\ SweepRoom(SweepFree(s, p, config), config) = SweepRoom(s, config) - 1
  <2> DEFINE t == [s.table EXCEPT ![b] = p]
  <2>1. SweepFree(s, p, config) = [free |-> s.free, needed |-> s.needed - 1, table |-> t]
    BY <1>1, <1>3 DEF SweepFree, Banks
  <2>2. t \in [Banks -> Packets \cup {None}] /\ t[b] = p /\ \A c \in Banks : c # b => t[c] = s.table[c]
    BY <1>1
  <2> HIDE DEF t
  <2>3. SweepFree(s, p, config) \in SweepStates
    BY <1>1, <1>3, <2>1, <2>2 DEF SweepStates
  <2>4. SweepRoom(s, config) # 0
    BY <1>3 DEF SweepRoom, Banks
  <2>5. SweepRoom(SweepFree(s, p, config), config) = SweepRoom(s, config) - 1
    BY <1>1, <1>3, <2>1, <2>2 DEF SweepRoom, Banks
  <2> QED BY <2>1, <2>3, <2>4, <2>5
<1>4. CASE /\ ~(s.needed = 0 \/ config = 0)
           /\ s.table["even"] # None /\ s.table["odd"] # None
  <2>1. SweepFree(s, p, config) = [free |-> s.free \cup {p}, needed |-> 0, table |-> s.table]
    BY <1>1, <1>4 DEF SweepFree
  <2> QED BY <1>1, <1>4, <2>1 DEF SweepStates, SweepRoom
<1>5. CASE ~(s.needed = 0 \/ config = 0) /\ s.table["even"] = None
  BY <1>3, <1>5 DEF Banks
<1>6. CASE /\ ~(s.needed = 0 \/ config = 0)
           /\ s.table["even"] # None /\ s.table["odd"] = None
  BY <1>3, <1>6 DEF Banks
<1> QED BY <1>2, <1>4, <1>5, <1>6

(* w is the walk over the packets x.                                       *)
IsWalk(w, s, x, config) ==
    w[0] = s /\ \A i \in 1 .. Len(x) : w[i] = SweepFree(w[i - 1], x[i], config)

LEMMA SweepWalks ==
    ASSUME NEW config, SweepBanks(config) \in SweepStates, TxAndQueues \in Seq(Packets)
    PROVE  \E w \in [0 .. Len(TxAndQueues) -> SweepStates] :
              /\ IsWalk(w, SweepBanks(config), TxAndQueues, config)
              /\ Sweep(config) = w[Len(TxAndQueues)].free
<1> DEFINE x == TxAndQueues
           n == Len(x)
           s0 == SweepBanks(config)
           G == [s \in SweepStates |-> [i \in 1 .. n |-> SweepFree(s, x[i], config)]]
           Flat(f) == f = [i \in 0 .. n |-> IF i = 0 THEN s0 ELSE SweepFree(f[i - 1], x[i], config)]
           c == CHOOSE f : Flat(f)
<1>1. Sweep(config) = c[n].free
  BY Zenon DEF Sweep
<1> HIDE DEF x, s0
<1>2. n \in Nat /\ \A i \in 1 .. n : x[i] \in Packets
  BY DEF x
<1>3. s0 \in SweepStates
  BY DEF s0
<1> HIDE DEF n
<1>4. \A s \in SweepStates : \A i \in 1 .. n : SweepFree(s, x[i], config) \in SweepStates
  BY <1>2, SweepFreeStep
<1>5. G \in [SweepStates -> [1 .. n -> SweepStates]]
  BY <1>4
<1>6. \A s \in SweepStates : \A i \in 1 .. n : G[s][i] = SweepFree(s, x[i], config)
  OBVIOUS
<1> HIDE DEF G
<1>7. PICK g \in [0 .. n -> SweepStates] : IsIteration(g, s0, G, n)
  BY <1>2, <1>3, <1>5, IterationExists
<1>8. ASSUME NEW i \in 1 .. n PROVE g[i] = SweepFree(g[i - 1], x[i], config)
  <2>1. i - 1 \in 0 .. n /\ g[i - 1] \in SweepStates
    BY <1>2
  <2> QED BY <1>6, <1>7, <2>1 DEF IsIteration
<1>9. g[0] = s0
  BY <1>7 DEF IsIteration
<1>10. Flat(g)
  <2>1. ASSUME NEW i \in 0 .. n
        PROVE  g[i] = IF i = 0 THEN s0 ELSE SweepFree(g[i - 1], x[i], config)
    <3>1. i # 0 => i \in 1 .. n
      BY <1>2
    <3> QED BY <1>8, <1>9, <3>1
  <2>2. g = [i \in 0 .. n |-> g[i]]
    OBVIOUS
  <2> QED BY <2>1, <2>2, Zenon
<1>11. Flat(c)
  BY <1>10, Zenon
<1>12. \A i \in 0 .. n : c[i] = IF i = 0 THEN s0 ELSE SweepFree(c[i - 1], x[i], config)
  BY <1>11, Zenon
<1>13. c = [i \in 0 .. n |-> c[i]]
  BY <1>11, <1>12, Zenon
<1> HIDE DEF c
<1> DEFINE T == {i \in Nat : i <= n => c[i] \in SweepStates}
<1>14. 0 \in T
  BY <1>2, <1>3, <1>12
<1>15. ASSUME NEW i \in Nat, i \in T PROVE i + 1 \in T
  <2> SUFFICES ASSUME i + 1 <= n PROVE c[i + 1] \in SweepStates
    OBVIOUS
  <2>1. i + 1 \in 0 .. n /\ i + 1 # 0 /\ (i + 1) - 1 = i /\ i + 1 \in 1 .. n /\ i <= n
    BY <1>2
  <2>2. c[i + 1] = SweepFree(c[i], x[i + 1], config)
    BY <1>12, <2>1
  <2>3. c[i] \in SweepStates
    BY <1>15, <2>1
  <2> QED BY <1>4, <2>1, <2>2, <2>3
<1>16. \A i \in 0 .. n : c[i] \in SweepStates
  <2> HIDE DEF T
  <2>1. Nat \subseteq T
    BY <1>14, <1>15, SetInduction
  <2> QED BY <1>2, <2>1 DEF T
<1>17. c \in [0 .. n -> SweepStates]
  BY <1>13, <1>16
<1>18. IsWalk(c, s0, x, config)
  <2>1. c[0] = s0
    BY <1>2, <1>12
  <2>2. ASSUME NEW i \in 1 .. n PROVE c[i] = SweepFree(c[i - 1], x[i], config)
    <3>1. i \in 0 .. n /\ i # 0
      BY <1>2
    <3> QED BY <1>12, <3>1
  <2> QED BY <2>1, <2>2 DEF IsWalk, n
<1> QED BY <1>1, <1>17, <1>18 DEF n, x, s0

LEMMA SweepWalk ==
    ASSUME NEW config, NEW x \in Seq(Packets), NEW w \in [0 .. Len(x) -> SweepStates],
           IsWalk(w, w[0], x, config)
    PROVE  w[Len(x)].free =
             w[0].free \cup {x[j] : j \in {k \in 1 .. Len(x) : k > SweepRoom(w[0], config)}}
<1> DEFINE n == Len(x)
           r == SweepRoom(w[0], config)
           T == {i \in Nat : i <= n =>
                   /\ w[i].free = w[0].free \cup {x[j] : j \in {k \in 1 .. i : k > r}}
                   /\ SweepRoom(w[i], config) = IF i < r THEN r - i ELSE 0}
<1>1. n \in Nat /\ r \in 0 .. 2 /\ \A i \in 1 .. n : x[i] \in Packets
  BY DEF SweepRoom
<1>2. \A i \in 0 .. n : w[i] \in SweepStates
  OBVIOUS
<1>3. 0 \in T
  <2>1. {k \in 1 .. 0 : k > r} = {}
    OBVIOUS
  <2>2. {x[j] : j \in {k \in 1 .. 0 : k > r}} = {}
    BY <2>1
  <2>3. SweepRoom(w[0], config) = IF 0 < r THEN r - 0 ELSE 0
    BY <1>1
  <2> QED BY <2>2, <2>3
<1> HIDE DEF r
<1>4. ASSUME NEW i \in Nat, i \in T, i + 1 <= n PROVE i + 1 \in T
  <2> DEFINE A == {x[j] : j \in {k \in 1 .. i : k > r}}
             B == {x[j] : j \in {k \in 1 .. i + 1 : k > r}}
             p == x[i + 1]
             s == w[i]
             t == w[i + 1]
  <2>1. i + 1 \in 1 .. n /\ i \in 0 .. n /\ i + 1 \in 0 .. n /\ (i + 1) - 1 = i
    BY <1>1, <1>4
  <2>2. t = SweepFree(s, p, config) /\ s \in SweepStates /\ p \in Packets
    BY <1>1, <1>2, <2>1 DEF IsWalk
  <2>3. s.free = w[0].free \cup A /\ SweepRoom(s, config) = IF i < r THEN r - i ELSE 0
    BY <1>4, <2>1
  <2> HIDE DEF s, t
  <2>4. CASE i < r
    <3>1. t.free = s.free /\ SweepRoom(t, config) = (r - i) - 1
      BY <1>1, <2>2, <2>3, <2>4, SweepFreeStep
    <3>2. {k \in 1 .. i + 1 : k > r} = {k \in 1 .. i : k > r}
      BY <1>1, <2>4
    <3>3. B = A
      BY <3>2
    <3>4. SweepRoom(t, config) = IF i + 1 < r THEN r - (i + 1) ELSE 0
      BY <1>1, <2>4, <3>1
    <3> QED BY <2>3, <3>1, <3>3, <3>4 DEF s, t
  <2>5. CASE ~(i < r)
    <3>1. t.free = s.free \cup {p} /\ SweepRoom(t, config) = 0
      BY <2>2, <2>3, <2>5, SweepFreeStep
    <3>2. {k \in 1 .. i + 1 : k > r} = {k \in 1 .. i : k > r} \cup {i + 1}
      BY <1>1, <2>5
    <3>3. B = A \cup {p}
      BY <3>2
    <3>4. SweepRoom(t, config) = IF i + 1 < r THEN r - (i + 1) ELSE 0
      BY <1>1, <2>5, <3>1
    <3>5. t.free = w[0].free \cup B
      BY <2>3, <3>1, <3>3
    <3> QED BY <3>4, <3>5 DEF s, t
  <2> QED BY <2>4, <2>5
<1>5. n \in T
  <2>1. ASSUME NEW i \in Nat, ~(i + 1 <= n) PROVE i + 1 \in T
    BY <2>1
  <2> HIDE DEF T
  <2>2. Nat \subseteq T
    BY <1>3, <1>4, <2>1, SetInduction
  <2> QED BY <1>1, <2>2
<1> QED BY <1>1, <1>5 DEF r

(* What is armed for transmission or queued is swept once.                 *)
LEMMA ConcatOwns ==
    ASSUME NEW s \in Seq(Packets), NEW t \in Seq(Packets),
           IsInjective(s), IsInjective(t), Apart(Range(s), Range(t))
    PROVE  /\ s \o t \in Seq(Packets) /\ IsInjective(s \o t)
           /\ Range(s \o t) = Range(s) \cup Range(t)
<1> DEFINE c == s \o t
           m == Len(s)
           n == Len(t)
<1>1. /\ c \in Seq(Packets) /\ Len(c) = m + n /\ m \in Nat /\ n \in Nat
      /\ \A i \in 1 .. m + n : c[i] = IF i <= m THEN s[i] ELSE t[i - m]
  BY ConcatProperties
<1>2. DOMAIN s = 1 .. m /\ DOMAIN t = 1 .. n /\ DOMAIN c = 1 .. m + n
  BY <1>1
<1> HIDE DEF c, m, n
<1>3. \A i \in 1 .. m : s[i] \in Range(s)
  BY <1>2 DEF Range
<1>4. \A i \in 1 .. n : t[i] \in Range(t)
  BY <1>2 DEF Range
<1>5. \A i \in 1 .. m + n : \/ i \in 1 .. m /\ c[i] = s[i]
                            \/ ~(i <= m) /\ i - m \in 1 .. n /\ c[i] = t[i - m]
  BY <1>1
<1>6. ASSUME NEW i \in 1 .. m + n, NEW j \in 1 .. m + n, c[i] = c[j] PROVE i = j
  <2>1. CASE i \in 1 .. m /\ c[i] = s[i]
    <3>1. c[i] \in Range(s)
      BY <1>3, <2>1
    <3>2. j \in 1 .. m /\ c[j] = s[j]
      BY <1>4, <1>5, <1>6, <3>1 DEF Apart
    <3> QED BY <1>2, <1>6, <2>1, <3>2 DEF IsInjective
  <2>2. CASE ~(i <= m) /\ i - m \in 1 .. n /\ c[i] = t[i - m]
    <3>1. c[i] \in Range(t)
      BY <1>4, <2>2
    <3>2. ~(j <= m) /\ j - m \in 1 .. n /\ c[j] = t[j - m]
      BY <1>3, <1>5, <1>6, <3>1 DEF Apart
    <3>3. i - m = j - m
      BY <1>2, <1>6, <2>2, <3>2 DEF IsInjective
    <3> QED BY <1>1, <3>3
  <2> QED BY <1>5, <2>1, <2>2
<1>7. IsInjective(c)
  BY <1>2, <1>6 DEF IsInjective
<1>8. Range(c) \subseteq Range(s) \cup Range(t)
  BY <1>2, <1>3, <1>4, <1>5 DEF Range
<1>9. \A i \in 1 .. m : s[i] \in Range(c)
  <2>1. ASSUME NEW i \in 1 .. m PROVE s[i] \in Range(c)
    <3>1. i \in 1 .. m + n /\ c[i] = s[i]
      BY <1>1
    <3> QED BY <1>2, <3>1 DEF Range
  <2> QED BY <2>1
<1>10. \A i \in 1 .. n : t[i] \in Range(c)
  <2>1. ASSUME NEW i \in 1 .. n PROVE t[i] \in Range(c)
    <3>1. i + m \in 1 .. m + n /\ ~(i + m <= m) /\ (i + m) - m = i
      BY <1>1
    <3>2. c[i + m] = t[i]
      BY <1>1, <3>1
    <3> QED BY <1>2, <3>1, <3>2 DEF Range
  <2> QED BY <2>1
<1>11. Range(s) \subseteq Range(c) /\ Range(t) \subseteq Range(c)
  BY <1>2, <1>9, <1>10 DEF Range
<1> QED BY <1>1, <1>7, <1>8, <1>11 DEF c

LEMMA SweptOnce ==
    ASSUME TypeOK, Exclusive
    PROVE  /\ TxAndQueues \in Seq(Packets) /\ IsInjective(TxAndQueues)
           /\ Range(TxAndQueues) = Armed(tx_table) \cup Range(rx_queue) \cup Range(tx_queue)
<1>1. /\ tx_table \in [Banks -> Packets \cup {None}] /\ Distinct(tx_table)
      /\ rx_queue \in Seq(Packets) /\ tx_queue \in Seq(Packets)
      /\ IsInjective(rx_queue) /\ IsInjective(tx_queue)
      /\ Apart(Armed(tx_table), Range(rx_queue) \cup Range(tx_queue))
      /\ Apart(Range(rx_queue), Range(tx_queue))
  BY DEF TypeOK, Exclusive, Apart
<1>2. ASSUME NEW b \in Banks
      PROVE  /\ InBank(b) \in Seq(Packets) /\ IsInjective(InBank(b))
             /\ Range(InBank(b)) = {tx_table[b]} \ {None}
  <2>1. CASE tx_table[b] = None
    BY <2>1 DEF InBank, IsInjective, Range
  <2>2. CASE tx_table[b] # None
    <3> DEFINE p == tx_table[b]
    <3>1. p \in Packets /\ InBank(b) = <<p>>
      BY <1>1, <2>2 DEF InBank
    <3> HIDE DEF p
    <3>2. Range(<<p>>) = {p}
      BY DEF Range
    <3> QED BY <2>2, <3>1, <3>2 DEF IsInjective, p
  <2> QED BY <2>1, <2>2
<1>3. Armed(tx_table) = Range(InBank("even")) \cup Range(InBank("odd"))
  BY <1>2 DEF Armed, Banks
<1>4. Apart(Range(InBank("even")), Range(InBank("odd")))
  BY <1>1, <1>2 DEF Apart, Distinct, Banks
<1> DEFINE a == InBank("even")
           b == InBank("odd")
<1>5. /\ a \in Seq(Packets) /\ IsInjective(a) /\ b \in Seq(Packets) /\ IsInjective(b)
      /\ Apart(Range(a), Range(b)) /\ Armed(tx_table) = Range(a) \cup Range(b)
  BY <1>2, <1>3, <1>4 DEF Banks
<1> HIDE DEF a, b
<1> DEFINE c == a \o b
<1>6. c \in Seq(Packets) /\ IsInjective(c) /\ Range(c) = Armed(tx_table)
  BY <1>5, ConcatOwns
<1> HIDE DEF c
<1> DEFINE d == c \o rx_queue
<1>7. /\ d \in Seq(Packets) /\ IsInjective(d)
      /\ Range(d) = Armed(tx_table) \cup Range(rx_queue)
  <2>1. Apart(Range(c), Range(rx_queue))
    BY <1>1, <1>6 DEF Apart
  <2> QED BY <1>1, <1>6, <2>1, ConcatOwns
<1> HIDE DEF d
<1>8. Apart(Range(d), Range(tx_queue))
  BY <1>1, <1>7 DEF Apart
<1>9. /\ d \o tx_queue \in Seq(Packets) /\ IsInjective(d \o tx_queue)
      /\ Range(d \o tx_queue) = Range(d) \cup Range(tx_queue)
  BY <1>1, <1>7, <1>8, ConcatOwns
<1>10. TxAndQueues = d \o tx_queue
  BY DEF TxAndQueues, d, c, a, b
<1> QED BY <1>7, <1>9, <1>10

(* What the receive banks leave.                                           *)
LEMMA SweepBanksLeave ==
    ASSUME TypeOK, NEW config
    PROVE  LET s == SweepBanks(config)
               gives == usb_rx_memory_needed # 0 /\ config # 0 /\ rx_table["even"] = None
           IN /\ s \in SweepStates
              /\ s.free = usb_buffer_available \cup (IF gives THEN {} ELSE Armed(rx_table))
              /\ SweepRoom(s, config) =
                   IF ~gives \/ rx_table["odd"] # None THEN 0
                   ELSE IF usb_rx_memory_needed = 1 THEN 1 ELSE 2
<1> DEFINE s0 == [free |-> usb_buffer_available, needed |-> usb_rx_memory_needed, table |-> rx_table]
           s1 == SweepBank(s0, "even", config)
           s2 == SweepBank(s1, "odd", config)
           n == usb_rx_memory_needed
           e == rx_table["even"]
           o == rx_table["odd"]
           F == usb_buffer_available
<1>1. /\ F \subseteq Packets /\ n \in Nat /\ rx_table \in [Banks -> Packets \cup {None}]
      /\ e \in Packets \cup {None} /\ o \in Packets \cup {None} /\ None \notin Packets
  BY PacketsAssumption DEF TypeOK, Banks
<1>2. SweepBanks(config) = s2 /\ Armed(rx_table) = {e, o} \ {None}
  BY DEF SweepBanks, Armed, Banks
<1>3. s0 \in SweepStates /\ s0.free = F /\ s0.needed = n /\ s0.table = rx_table
  BY <1>1 DEF SweepStates
<1> HIDE DEF s0
<1>4. s1 \in SweepStates
  BY <1>1, <1>3, SweepFreeStep DEF SweepBank
<1>5. s2 \in SweepStates
  <2> HIDE DEF s1
  <2>1. s1.table["odd"] \in Packets \cup {None}
    BY <1>4 DEF SweepStates, Banks
  <2> QED BY <1>4, <2>1, SweepFreeStep DEF SweepBank
<1>6. CASE n = 0 \/ config = 0
  <2>1. SweepRoom(s0, config) = 0 /\ SweepRoom(s1, config) = 0 /\ s1.table = rx_table
        /\ s1.free = F \cup ({e} \ {None}) /\ (s1.needed = 0 \/ config = 0)
    <3>1. CASE e = None
      BY <1>3, <1>6, <3>1 DEF SweepBank, SweepRoom
    <3>2. CASE e # None
      <4>1. s1 = [free |-> F \cup {e}, needed |-> n, table |-> rx_table]
        BY <1>3, <1>6, <3>2 DEF SweepBank, SweepFree, SweepStates
      <4> QED BY <1>3, <1>6, <3>2, <4>1 DEF SweepRoom
    <3> QED BY <3>1, <3>2
  <2> HIDE DEF s1
  <2>2. SweepRoom(s2, config) = 0 /\ s2.free = F \cup ({e, o} \ {None})
    <3>1. CASE o = None
      BY <2>1, <3>1 DEF SweepBank
    <3>2. CASE o # None
      <4>1. s2 = SweepFree(s1, o, config)
        BY <2>1, <3>2 DEF SweepBank
      <4>2. SweepRoom(s2, config) = 0 /\ s2.free = s1.free \cup {o}
        BY <1>1, <1>4, <2>1, <3>2, <4>1, SweepFreeStep
      <4> QED BY <2>1, <3>2, <4>2
    <3> QED BY <3>1, <3>2
  <2> QED BY <1>2, <1>5, <1>6, <2>2
<1>7. CASE n # 0 /\ config # 0 /\ e = None /\ o = None
  <2>1. s1 = s0 /\ s2 = s0
    BY <1>3, <1>7 DEF SweepBank
  <2> HIDE DEF s1, s2
  <2>2. SweepRoom(s0, config) = IF n = 1 THEN 1 ELSE 2
    BY <1>3, <1>7 DEF SweepRoom
  <2> QED BY <1>2, <1>3, <1>7, <2>1, <2>2
<1>8. CASE n # 0 /\ config # 0 /\ e = None /\ o # None
  <2>1. s1 = s0
    BY <1>3, <1>8 DEF SweepBank
  <2>2. s2 = [free |-> F, needed |-> n - 1, table |-> [rx_table EXCEPT !["even"] = o]]
    BY <1>3, <1>8, <2>1 DEF SweepBank, SweepFree, SweepStates
  <2>3. SweepRoom(s2, config) = 0
    BY <1>1, <1>8, <2>2 DEF SweepRoom, Banks
  <2> HIDE DEF s1, s2
  <2> QED BY <1>2, <1>5, <1>8, <2>2, <2>3
<1>9. CASE n # 0 /\ config # 0 /\ e # None /\ o = None
  <2> DEFINE t == [rx_table EXCEPT !["odd"] = e]
  <2>1. s1 = [free |-> F, needed |-> n - 1, table |-> t]
    BY <1>3, <1>9 DEF SweepBank, SweepFree, SweepStates
  <2>2. t["even"] = e /\ t["odd"] = e
    BY <1>1 DEF Banks
  <2> HIDE DEF t
  <2>3. s1.free = F /\ s1.table["even"] = e /\ s1.table["odd"] = e
    BY <2>1, <2>2
  <2> HIDE DEF s1
  <2>4. s2 = SweepFree(s1, e, config) /\ SweepRoom(s1, config) = 0
    BY <1>9, <2>3 DEF SweepBank, SweepRoom
  <2>5. SweepRoom(s2, config) = 0 /\ s2.free = F \cup {e}
    BY <1>1, <1>4, <1>9, <2>3, <2>4, SweepFreeStep
  <2> QED BY <1>2, <1>5, <1>9, <2>5
<1>10. CASE n # 0 /\ config # 0 /\ e # None /\ o # None
  <2>1. s1 = SweepFree(s0, e, config) /\ SweepRoom(s0, config) = 0
    BY <1>3, <1>10 DEF SweepBank, SweepRoom
  <2>2. SweepRoom(s1, config) = 0 /\ s1.free = F \cup {e}
    BY <1>1, <1>3, <1>10, <2>1, SweepFreeStep
  <2>3. s1.table = rx_table
    BY <1>3, <1>10, <2>1 DEF SweepFree, SweepStates
  <2> HIDE DEF s1
  <2>4. s2 = SweepFree(s1, o, config)
    BY <1>10, <2>3 DEF SweepBank
  <2>5. SweepRoom(s2, config) = 0 /\ s2.free = (F \cup {e}) \cup {o}
    BY <1>1, <1>4, <1>10, <2>2, <2>4, SweepFreeStep
  <2> HIDE DEF s2
  <2> QED BY <1>2, <1>5, <1>10, <2>5
<1> QED BY <1>6, <1>7, <1>8, <1>9, <1>10

LEMMA SweepIsRest ==
    ASSUME TypeOK, Exclusive, NEW config
    PROVE  Sweep(config) = usb_buffer_available \cup (Flushed \ Stranded(config))
<1> DEFINE x == TxAndQueues
           n == usb_rx_memory_needed
           o == rx_table["odd"]
           r == SweepRoom(SweepBanks(config), config)
           R == {x[j] : j \in {k \in 1 .. Len(x) : k > r}}
           gives == n # 0 /\ config # 0 /\ rx_table["even"] = None
<1>1. /\ x \in Seq(Packets) /\ IsInjective(x)
      /\ Range(x) = Armed(tx_table) \cup Range(rx_queue) \cup Range(tx_queue)
  BY SweptOnce
<1>2. Flushed = Armed(rx_table) \cup Range(x) /\ Apart(Armed(rx_table), Range(x))
  BY <1>1 DEF Flushed, Exclusive, Apart
<1>3. /\ SweepBanks(config) \in SweepStates
      /\ SweepBanks(config).free = usb_buffer_available \cup (IF gives THEN {} ELSE Armed(rx_table))
      /\ r = IF ~gives \/ o # None THEN 0 ELSE IF n = 1 THEN 1 ELSE 2
  BY SweepBanksLeave
<1>4. Sweep(config) = SweepBanks(config).free \cup R
  <2>1. PICK w \in [0 .. Len(TxAndQueues) -> SweepStates] :
              /\ IsWalk(w, SweepBanks(config), TxAndQueues, config)
              /\ Sweep(config) = w[Len(TxAndQueues)].free
    BY <1>1, <1>3, SweepWalks
  <2>2. w[0] = SweepBanks(config)
    BY <2>1 DEF IsWalk
  <2>3. IsWalk(w, w[0], TxAndQueues, config) /\ TxAndQueues \in Seq(Packets)
    BY <1>1, <2>1, <2>2
  <2>4. w[Len(TxAndQueues)].free = w[0].free
          \cup {TxAndQueues[j] : j \in {k \in 1 .. Len(TxAndQueues) : k > SweepRoom(w[0], config)}}
    BY <2>3, SweepWalk
  <2> QED BY <2>1, <2>2, <2>4
<1> HIDE DEF r
<1>5. DOMAIN x = 1 .. Len(x) /\ Len(x) \in Nat /\ n \in Nat
  BY <1>1 DEF TypeOK
<1> HIDE DEF x
<1>6. CASE ~gives
  <2>1. Stranded(config) = {}
    BY <1>5, <1>6 DEF Stranded
  <2>2. R = Range(x)
    <3>1. {k \in 1 .. Len(x) : k > r} = DOMAIN x
      BY <1>3, <1>5, <1>6
    <3> QED BY <3>1 DEF Range
  <2> QED BY <1>2, <1>3, <1>4, <1>6, <2>1, <2>2
<1>7. CASE gives /\ o # None
  <2>1. Starving = {"even"} /\ Armed(rx_table) = {o}
    BY <1>7 DEF Starving, Armed, Banks
  <2>2. SweptLast = <<o>> \o x
    BY <1>7 DEF SweptLast, x
  <2>3. o \in Packets
    BY <1>7 DEF TypeOK, Banks
  <2>4. Cardinality(Starving) = 1
    BY <2>1, FS_Singleton
  <2>5. DOMAIN SweptLast = 1 .. Len(x) + 1 /\ SweptLast[1] = o
    <3> HIDE DEF o
    <3>1. <<o>> \in Seq(Packets) /\ Len(<<o>>) = 1 /\ <<o>>[1] = o
      BY <2>3
    <3>2. /\ <<o>> \o x \in Seq(Packets) /\ Len(<<o>> \o x) = 1 + Len(x)
          /\ \A i \in 1 .. 1 + Len(x) : (<<o>> \o x)[i] = IF i <= 1 THEN <<o>>[i] ELSE x[i - 1]
      BY <1>1, <3>1, ConcatProperties
    <3> QED BY <1>5, <2>2, <3>1, <3>2
  <2>6. {j \in DOMAIN SweptLast : j <= n /\ j <= Cardinality(Starving)} = {1}
    BY <1>5, <1>7, <2>4, <2>5
  <2>7. Stranded(config) = {SweptLast[i] : i \in {1}}
    <3>1. {j \in DOMAIN SweptLast : /\ n > 0 /\ config # 0 /\ rx_table["even"] = None
                                    /\ j <= n /\ j <= Cardinality(Starving)} = {1}
      BY <1>5, <1>7, <2>6
    <3> QED BY <3>1 DEF Stranded
  <2>8. Stranded(config) = {o}
    BY <2>5, <2>7
  <2>9. R = Range(x)
    <3>1. {k \in 1 .. Len(x) : k > r} = DOMAIN x
      BY <1>3, <1>5, <1>7
    <3> QED BY <3>1 DEF Range
  <2> QED BY <1>2, <1>3, <1>4, <1>7, <2>1, <2>8, <2>9 DEF Apart
<1>8. CASE gives /\ o = None
  <2>1. Starving = {"even", "odd"} /\ Armed(rx_table) = {}
    BY <1>8 DEF Starving, Armed, Banks
  <2>2. Cardinality(Starving) = 2
    <3>1. Cardinality({"even"}) = 1 /\ {"even"} \cup {"odd"} = Starving
      BY <2>1, FS_Singleton
    <3>2. Cardinality({"even"} \cup {"odd"}) = Cardinality({"even"}) + 1
      BY BankCountStep DEF Banks
    <3> QED BY <3>1, <3>2
  <2>3. SweptLast = x
    <3>1. SweptLast = <<>> \o x
      BY <1>8 DEF SweptLast, x
    <3> QED BY <1>1, <3>1, ConcatEmptySeq
  <2>4. {j \in DOMAIN x : /\ n > 0 /\ config # 0 /\ rx_table["even"] = None
                          /\ j <= n /\ j <= Cardinality(Starving)}
          = {j \in 1 .. Len(x) : ~(j > r)}
    BY <1>3, <1>5, <1>8, <2>2
  <2>5. Stranded(config) = {x[j] : j \in {k \in 1 .. Len(x) : ~(k > r)}}
    BY <2>3, <2>4 DEF Stranded
  <2>6. R = Range(x) \ Stranded(config)
    BY <1>1, <1>5, <2>5 DEF Range, IsInjective
  <2> QED BY <1>2, <1>3, <1>4, <1>8, <2>1, <2>6
<1> QED BY <1>6, <1>7, <1>8

(* The closed form that the model uses for the loops of SET_CONFIGURATION  *)
(* says exactly what they free, however many packets are queued.           *)
THEOREM SweepCorrect == Spec => []SweepFreesTheRest
<1>1. Inv => SweepFreesTheRest
  BY SweepIsRest DEF Inv, SweepFreesTheRest
<1> QED BY <1>1, InvCorrect, PTL

=============================================================================
