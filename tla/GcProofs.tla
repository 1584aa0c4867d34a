------------------------------- MODULE GcProofs -------------------------------
(***************************************************************************)
(* Proofs about Gc: for every size of the heap and of the mark stack, any  *)
(* number of roots and any request, the tables stay well formed, the hint  *)
(* is sound, no object the program can reach is ever free, a collection    *)
(* frees all others, finaliser bits stay with their objects, and all this  *)
(* implements Heap.                                                        *)
(*                                                                         *)
(* That a reachable object is kept is not inductive by itself.  It follows *)
(* from a set of objects, Live, that the roots and its own words do not    *)
(* lead out of.  While the collector marks, a word of a marked object may  *)
(* still point to an unmarked one: Traced says where it waits to be looked *)
(* at, and that an overflow of the stack forgets none of them.             *)
(***************************************************************************)
EXTENDS Gc, NatSets, SequenceTheorems, FiniteSetTheorems

-----------------------------------------------------------------------------
(* The inductive invariant.                                                *)
Kinds == {"FREE", "HEAD", "TAIL", "MARK"}
Phases == {"idle", "roots", "rescan", "sweep", "alloc"}

Request == [n : 1 .. MaxBlocks, n_free : Nat, mover : Roots \cup {None}]

(* The types, also of the collector's own variables.                       *)
GTypes ==
    /\ kind \in [Blocks -> Kinds]
    /\ word \in [Blocks -> Blocks \cup {None}]
    /\ roots \in [Roots -> Blocks \cup {None}]
    /\ hint \in 0 .. gc_alloc_table_byte_len
    /\ phase \in Phases
    /\ lock = IF phase \in {"idle", "alloc"} THEN 0 ELSE 1
    /\ stack \in Seq(Blocks) /\ Len(stack) <= MICROPY_ALLOC_GC_STACK_SIZE
    /\ root \in Nat \ {0} /\ block \in Nat
    /\ overflow \in BOOLEAN /\ free_tail \in BOOLEAN
    /\ chain \subseteq Nat
    /\ request \in Request \cup {None}
    /\ phase = "alloc" => request # None
    /\ phase = "idle" => request = None
    /\ fault \in {"none", "before_pool", "finaliser"}

(* The tables.  A tail without a block in front of it is the one the sweep *)
(* frees next.                                                             *)
TailsFollow ==
    \A b \in Blocks : kind[b] = "TAIL" =>
        b > 0 /\ (kind[b - 1] # "FREE" \/ (free_tail /\ block = b))

FreeTailInSweep ==
    free_tail => phase = "sweep" /\ block - 1 \in Blocks /\ kind[block - 1] = "FREE"

FreeIsClear == \A b \in Blocks : kind[b] = "FREE" => word[b] = None

MarksInCollection ==
    /\ phase \in {"idle", "alloc"} => \A b \in Blocks : kind[b] # "MARK"
    /\ phase = "sweep" => \A b \in Blocks : b < block => kind[b] # "MARK"

Tables == TailsFollow /\ FreeTailInSweep /\ FreeIsClear /\ MarksInCollection
          /\ ftb \subseteq Heads

(* The hint.                                                               *)
NoneFreeBefore(h) == \A b \in Blocks : b < h * BLOCKS_PER_ATB => kind[b] # "FREE"

HintInv ==
    /\ phase = "idle" => NoneFreeBefore(hint)
    /\ phase = "alloc" => hint = 0

(* The objects that survive: while the sweep runs, those that are marked   *)
(* or that it has passed.                                                  *)
Live == IF phase = "sweep"
        THEN {b \in Blocks : kind[b] = "MARK" \/ (kind[b] = "HEAD" /\ b < block)}
        ELSE Heads

(* Nothing that survives points to what does not.  Outside a sweep this    *)
(* also holds for what is left in blocks of dead objects.                  *)
PointersLive ==
    /\ \A r \in Roots : roots[r] \in Live \cup {None}
    /\ phase # "sweep" => \A b \in Blocks : word[b] \in Heads \cup {None}
    /\ \A h \in Live : \A b \in OwnBlocks(h) : word[b] \in Live \cup {None}

(* Every word of a marked object that points to an unmarked one will still *)
(* be looked at: the object is on the stack, the word is in the chain, or  *)
(* a scan of the whole table is to come or has not reached the object.     *)
Traced ==
    phase \in {"roots", "rescan"} =>
        /\ \A r \in Roots : Unmarked(roots[r]) => phase = "roots" /\ r >= root
        /\ \A h \in Blocks : \A b \in OwnBlocks(h) :
               kind[h] = "MARK" /\ Unmarked(word[b]) =>
                   \/ b \in chain
                   \/ \E i \in 1 .. Len(stack) : stack[i] = h
                   \/ overflow
                   \/ phase = "rescan" /\ h >= block

(* The object that gc_realloc moves stays with its owner during the        *)
(* collection that the move needs.                                         *)
MoverOwns ==
    (request # None /\ request.mover # None) => Owned(request.mover)

GInv == GTypes /\ Tables /\ HintInv /\ PointersLive /\ Traced /\ MoverOwns

-----------------------------------------------------------------------------
(* Numbers of blocks.                                                      *)
LEMMA BlockNumbers ==
    /\ NBlocks \in Nat /\ Blocks = 0 .. NBlocks - 1
    /\ NBlocks = gc_alloc_table_byte_len * BLOCKS_PER_ATB
    /\ gc_alloc_table_byte_len \in Nat /\ BLOCKS_PER_ATB \in Nat /\ BLOCKS_PER_ATB > 0
    /\ None \notin Int /\ MaxBlocks \in Nat /\ NRoots \in Nat
<1>1. gc_alloc_table_byte_len \in Nat /\ BLOCKS_PER_ATB \in Nat /\ BLOCKS_PER_ATB > 0
      /\ None \notin Int /\ MaxBlocks \in Nat /\ NRoots \in Nat
  BY GcAssumption DEF GcAssumption, Positive
<1>2. gc_alloc_table_byte_len * BLOCKS_PER_ATB \in Nat
  BY <1>1
<1> QED BY <1>1, <1>2 DEF NBlocks, Blocks

(* There is a block at least.                                              *)
LEMMA FirstBlock == 0 \in Blocks
<1>1. PICK d \in Nat : gc_alloc_table_byte_len = 1 + d
  BY GcAssumption, gc_alloc_table_byte_len - 1 \in Nat,
     gc_alloc_table_byte_len = 1 + (gc_alloc_table_byte_len - 1)
  DEF GcAssumption, Positive
<1>2. NBlocks = BLOCKS_PER_ATB + d * BLOCKS_PER_ATB /\ d * BLOCKS_PER_ATB \in Nat
  BY <1>1, BlockNumbers
<1> QED BY <1>2, BlockNumbers

LEMMA BlocksFinite ==
    NBlocks \in Nat /\ IsFiniteSet(Blocks) /\ Cardinality(Blocks) = NBlocks
<1>1. NBlocks \in Nat /\ NBlocks - 1 \in Int /\ Blocks = 0 .. NBlocks - 1
  BY BlockNumbers
<1>2. /\ IsFiniteSet(0 .. NBlocks - 1)
      /\ Cardinality(0 .. NBlocks - 1) = IF 0 > NBlocks - 1 THEN 0 ELSE NBlocks - 1 - 0 + 1
  BY <1>1, FS_Interval
<1> QED BY <1>1, <1>2

(* The entry of a block in the table of hints.                             *)
Edge(h) == h * BLOCKS_PER_ATB

LEMMA EdgeGrows ==
    ASSUME NEW g \in Nat, NEW h \in Nat, g <= h
    PROVE  Edge(g) \in Nat /\ Edge(h) \in Nat /\ Edge(g) <= Edge(h)
<1>1. PICK d \in Nat : h = g + d
  BY h - g \in Nat, h = g + (h - g)
<1>2. BLOCKS_PER_ATB \in Nat
  BY BlockNumbers
<1>3. h * BLOCKS_PER_ATB = g * BLOCKS_PER_ATB + d * BLOCKS_PER_ATB
  BY <1>1, <1>2
<1>4. d * BLOCKS_PER_ATB \in Nat /\ g * BLOCKS_PER_ATB \in Nat
  BY <1>1, <1>2
<1> QED BY <1>3, <1>4 DEF Edge

LEMMA AtbBelow ==
    ASSUME NEW b \in Nat
    PROVE  /\ AtbFromBlock(b) \in Nat /\ Edge(AtbFromBlock(b)) <= b
           /\ b <= NBlocks => AtbFromBlock(b) <= gc_alloc_table_byte_len
<1> DEFINE B == BLOCKS_PER_ATB
           L == gc_alloc_table_byte_len
           a == b \div B
<1>1. B \in Nat /\ B > 0 /\ L \in Nat /\ NBlocks = L * B
  BY BlockNumbers
<1> HIDE DEF B, L
<1>2. a \in Nat /\ a * B <= b
  BY <1>1
<1>3. ASSUME b <= L * B PROVE a <= L
  <2> SUFFICES ASSUME a >= L + 1 PROVE FALSE
    BY <1>1, <1>2
  <2> HIDE DEF a
  <2>1. PICK d \in Nat : a = L + 1 + d
    BY <1>1, <1>2, a - (L + 1) \in Nat, a = L + 1 + (a - (L + 1))
  <2>2. a * B = L * B + B + d * B
    BY <2>1, <1>1
  <2>3. d * B \in Nat /\ L * B \in Nat /\ a * B \in Nat
    BY <2>1, <1>1, <1>2
  <2> QED BY <2>2, <2>3, <1>1, <1>2, <1>3
<1> QED BY <1>1, <1>2, <1>3 DEF AtbFromBlock, Edge, B, L

(* The first block a loop reaches.                                         *)
LEMMA FirstOfLeast ==
    ASSUME NEW S \in SUBSET Nat, S # {}
    PROVE  FirstOf(S) \in S /\ \A c \in S : FirstOf(S) <= c
<1>1. \E b \in S : \A c \in S : b <= c
  BY LeastNatural
<1> QED BY <1>1 DEF FirstOf

LEMMA GreatestBelow ==
    ASSUME NEW top \in Nat, NEW S \in SUBSET (0 .. top), S # {}
    PROVE  \E m \in S : \A n \in S : n <= m
<1> DEFINE T == {k \in Nat : top - k \in S}
<1>1. ASSUME NEW n \in S PROVE top - n \in T
  <2>1. n \in 0 .. top /\ top - (top - n) = n
    OBVIOUS
  <2> QED BY <2>1
<1>2. T \in SUBSET Nat /\ T # {}
  BY <1>1
<1>3. PICK m \in T : \A n \in T : m <= n
  BY <1>2, LeastNatural
<1> HIDE DEF T
<1>4. \A n \in S : n <= top - m
  BY <1>1, <1>2, <1>3
<1> QED BY <1>3, <1>4 DEF T

-----------------------------------------------------------------------------
(* The tails of a block.                                                   *)
LEMMA OwnFacts ==
    ASSUME NEW b \in Blocks
    PROVE  /\ b \in OwnBlocks(b)
           /\ \A c \in OwnBlocks(b) :
                 /\ c \in Blocks /\ b <= c
                 /\ c # b => kind[c] = "TAIL" /\ c - 1 \in OwnBlocks(b)
                 /\ c + 1 \in Blocks /\ kind[c + 1] = "TAIL" => c + 1 \in OwnBlocks(b)
BY BlockNumbers DEF OwnBlocks

LEMMA ChainInTable ==
    ASSUME NEW b \in Blocks, NEW bits, NEW c \in Blocks
    PROVE  c \in ChainOf(b, bits) <=> c \in OwnBlocks(b)
BY BlockNumbers DEF OwnBlocks, ChainOf

LEMMA OwnBlocksKept ==
    ASSUME \A d \in Blocks : kind'[d] = "TAIL" <=> kind[d] = "TAIL"
    PROVE  \A b \in Blocks : OwnBlocks(b)' = OwnBlocks(b)
BY BlockNumbers DEF OwnBlocks

(* The same of any table k.  Every block that is used belongs to a head.   *)
Tails(k, h) == {c \in h .. NBlocks - 1 : \A d \in h + 1 .. c : k[d] = "TAIL"}

LEMMA OwnIsTails ==
    /\ \A h : OwnBlocks(h) = Tails(kind, h)
    /\ \A h : OwnBlocks(h)' = Tails(kind', h)
BY DEF OwnBlocks, Tails

LEMMA HeadExists ==
    ASSUME NEW k \in [Blocks -> Kinds],
           \A b \in Blocks : k[b] = "TAIL" => b > 0 /\ k[b - 1] # "FREE",
           NEW b \in Blocks, k[b] # "FREE"
    PROVE  \E h \in Blocks : k[h] \in {"HEAD", "MARK"} /\ b \in Tails(k, h)
<1> DEFINE T == {c \in 0 .. b : \A d \in c + 1 .. b : k[d] = "TAIL"}
<1>1. T \in SUBSET Nat /\ b \in T
  BY BlockNumbers
<1>2. PICK m \in T : \A c \in T : m <= c
  BY <1>1, LeastNatural
<1>3. m \in Blocks /\ m <= b
  BY BlockNumbers, <1>2
<1>4. k[m] # "TAIL"
  <2> SUFFICES ASSUME k[m] = "TAIL" PROVE FALSE
    OBVIOUS
  <2>1. m > 0 /\ m - 1 \in T
    BY <1>3, BlockNumbers, <1>2
  <2> QED BY <2>1, <1>2
<1>5. k[m] # "FREE"
  <2>1. CASE m = b
    BY <2>1
  <2>2. CASE m < b
    <3>1. m + 1 \in Blocks /\ k[m + 1] = "TAIL"
      BY <2>2, <1>2, <1>3, BlockNumbers
    <3> QED BY <3>1, <1>3, BlockNumbers
  <2> QED BY <2>1, <2>2, <1>3, BlockNumbers
<1>6. k[m] \in {"HEAD", "MARK"}
  BY <1>3, <1>4, <1>5 DEF Kinds
<1>7. b \in Tails(k, m)
  BY <1>2, <1>3, BlockNumbers DEF Tails
<1> QED BY <1>3, <1>6, <1>7

LEMMA OwnerExists ==
    ASSUME kind \in [Blocks -> Kinds],
           \A b \in Blocks : kind[b] = "TAIL" => b > 0 /\ kind[b - 1] # "FREE",
           NEW b \in Blocks, kind[b] # "FREE"
    PROVE  \E h \in Heads : b \in OwnBlocks(h)
BY HeadExists, OwnIsTails DEF Heads

-----------------------------------------------------------------------------
(* The search of gc_alloc.  It may only run back past block 0 when it goes *)
(* on with the n_free of an earlier search.                                *)
LEMMA RunFacts ==
    ASSUME NEW first \in Nat, NEW i \in first .. NBlocks - 1, NEW carry \in Nat,
           carry = 0 \/ first = 0
    PROVE  /\ RunAt(first, carry, i) \in Nat
           /\ RunAt(first, carry, i) = 0 <=> kind[i] # "FREE"
           /\ \A c \in Nat : c > i - RunAt(first, carry, i) /\ c <= i => kind[c] = "FREE"
           /\ RunAt(first, carry, i) <= carry + i - first + 1
<1> DEFINE Used == {b \in first .. i : kind[b] # "FREE"}
           last == CHOOSE u \in Used : \A v \in Used : v <= u
<1>1. NBlocks \in Nat
  BY BlockNumbers
<1>2. CASE Used = {}
  <2>1. RunAt(first, carry, i) = carry + i - first + 1
    BY <1>2 DEF RunAt
  <2> QED BY <1>1, <1>2, <2>1
<1>3. CASE Used # {}
  <2>1. RunAt(first, carry, i) = i - last
    BY <1>3 DEF RunAt
  <2>2. Used \in SUBSET (0 .. i) /\ i \in Nat
    BY <1>1
  <2>3. \E u \in Used : \A v \in Used : v <= u
    BY <1>3, <2>2, GreatestBelow
  <2>4. last \in Used /\ \A v \in Used : v <= last
    BY <2>3
  <2> HIDE DEF last
  <2> QED BY <1>1, <2>1, <2>4
<1> QED BY <1>2, <1>3

LEMMA FoundFacts ==
    ASSUME NEW first \in Nat, NEW carry \in Nat, carry = 0 \/ first = 0,
           NEW n \in Nat, NEW end \in Found(first, carry, n)
    PROVE  /\ end \in Blocks /\ first <= end
           /\ RunAt(first, carry, end) \in Nat /\ n <= RunAt(first, carry, end)
           /\ \A c \in Nat : c > end - RunAt(first, carry, end) /\ c <= end => kind[c] = "FREE"
           /\ n <= 1 => \A c \in first .. end - 1 : kind[c] # "FREE"
<1>1. NBlocks \in Nat /\ Blocks = 0 .. NBlocks - 1
  BY BlockNumbers
<1>2. /\ end \in first .. NBlocks - 1 /\ RunAt(first, carry, end) >= n
      /\ \A j \in first .. end - 1 : RunAt(first, carry, j) < n
  BY DEF Found
<1>3. /\ RunAt(first, carry, end) \in Nat
      /\ \A c \in Nat : c > end - RunAt(first, carry, end) /\ c <= end => kind[c] = "FREE"
  BY <1>2, RunFacts
<1>4. ASSUME n <= 1, NEW j \in first .. end - 1 PROVE kind[j] # "FREE"
  <2>1. j \in first .. NBlocks - 1
    BY <1>1, <1>2
  <2>2. RunAt(first, carry, j) \in Nat /\ RunAt(first, carry, j) < 1
    BY <1>2, <1>4, <2>1, RunFacts
  <2> QED BY <2>1, <2>2, RunFacts
<1> QED BY <1>1, <1>2, <1>3, <1>4

LEMMA TrailingIsNat ==
    ASSUME hint \in 0 .. gc_alloc_table_byte_len
    PROVE  Trailing \in Nat
<1> DEFINE first == hint * BLOCKS_PER_ATB
<1>1. hint \in Nat /\ hint <= gc_alloc_table_byte_len /\ gc_alloc_table_byte_len \in Nat
      /\ NBlocks = gc_alloc_table_byte_len * BLOCKS_PER_ATB
  BY BlockNumbers
<1>2. first \in Nat /\ first <= NBlocks /\ NBlocks \in Nat
  BY <1>1, EdgeGrows, BlockNumbers DEF Edge
<1> HIDE DEF first
<1>3. CASE first = NBlocks
  BY <1>3 DEF Trailing, first
<1>4. CASE first < NBlocks
  <2>1. RunAt(first, 0, NBlocks - 1) \in Nat
    BY <1>2, <1>4, RunFacts
  <2> QED BY <1>4, <1>2, <2>1 DEF Trailing, first
<1> QED BY <1>2, <1>3, <1>4

-----------------------------------------------------------------------------
(* The heap when no collection runs.                                       *)
HeapOK ==
    /\ kind \in [Blocks -> {"FREE", "HEAD", "TAIL"}]
    /\ word \in [Blocks -> Blocks \cup {None}]
    /\ roots \in [Roots -> Blocks \cup {None}]
    /\ \A b \in Blocks : kind[b] = "TAIL" => b > 0 /\ kind[b - 1] # "FREE"
    /\ FreeIsClear
    /\ ftb \subseteq Heads
    /\ \A r \in Roots : roots[r] \in Heads \cup {None}
    /\ \A b \in Blocks : word[b] \in Heads \cup {None}

LEMMA QuietHeap ==
    ASSUME GInv, phase \in {"idle", "alloc"}
    PROVE  HeapOK /\ free_tail = FALSE
<1>1. kind \in [Blocks -> {"FREE", "HEAD", "TAIL"}]
  BY DEF GInv, GTypes, Kinds, Tables, MarksInCollection
<1>2. free_tail = FALSE
  BY DEF GInv, GTypes, Tables, FreeTailInSweep
<1> QED BY <1>1, <1>2 DEF GInv, GTypes, Tables, TailsFollow, PointersLive, Live, HeapOK

LEMMA QuietStep ==
    ASSUME GInv, HeapOK', phase \in {"idle", "alloc"}, phase' = "idle", request' = None,
           hint' \in 0 .. gc_alloc_table_byte_len, NoneFreeBefore(hint)',
           fault' \in {"none", "before_pool", "finaliser"},
           UNCHANGED <<lock, root, stack, overflow, chain, block, free_tail>>
    PROVE  GInv'
<1>1. GTypes'
  BY DEF GInv, GTypes, HeapOK, Kinds, Phases
<1>2. free_tail' = FALSE
  BY QuietHeap
<1>3. Tables'
  BY <1>2 DEF HeapOK, Tables, TailsFollow, FreeTailInSweep, MarksInCollection
<1>4. HintInv'
  BY DEF HintInv
<1>5. \A b \in Blocks : OwnBlocks(b)' \subseteq Blocks
  BY BlockNumbers DEF OwnBlocks
<1>6. PointersLive'
  BY <1>5 DEF HeapOK, PointersLive, Live, Heads
<1>7. Traced' /\ MoverOwns'
  BY DEF Traced, MoverOwns
<1> QED BY <1>1, <1>3, <1>4, <1>6, <1>7 DEF GInv

(* The blocks of G become free, and those of new, all free before, become  *)
(* an object at start or more tails of one that stays.                     *)
Reshaped(G, new, start) ==
    /\ G \in SUBSET Blocks /\ new \in SUBSET Blocks
    /\ \A c \in G : /\ kind[c] # "FREE"
                    /\ c + 1 \in Blocks /\ kind[c + 1] = "TAIL" => c + 1 \in G
    /\ \A b \in new : /\ kind[b] = "FREE"
                      /\ \/ b = start
                         \/ b > 0 /\ (b - 1 \in new \/ (kind[b - 1] # "FREE" /\ b - 1 \notin G))
    /\ kind' = [b \in Blocks |-> IF b \in new THEN IF b = start THEN "HEAD" ELSE "TAIL"
                                ELSE IF b \in G THEN "FREE" ELSE kind[b]]
    /\ word' \in [Blocks -> Blocks \cup {None}]
    /\ \A b \in Blocks : word'[b] = None \/ (kind'[b] # "FREE" /\ word'[b] \in Heads \ G)
    /\ ftb' \subseteq (ftb \ G) \cup ({start} \cap new)
    /\ roots' \in [Roots -> Blocks \cup {None}]
    /\ \A r \in Roots : roots'[r] \in (Heads \ G) \cup ({start} \cap new) \cup {None}

LEMMA HeapReshaped ==
    ASSUME HeapOK, NEW G, NEW new, NEW start, Reshaped(G, new, start)
    PROVE  HeapOK'
<1> USE DEF Reshaped
<1>1. kind' \in [Blocks -> {"FREE", "HEAD", "TAIL"}]
  BY DEF HeapOK
<1>2. ASSUME NEW b \in Blocks, kind'[b] = "TAIL" PROVE b > 0 /\ kind'[b - 1] # "FREE"
  <2>1. b \in 0 .. NBlocks - 1 /\ NBlocks \in Nat /\ Blocks = 0 .. NBlocks - 1
    BY BlockNumbers
  <2>2. CASE b \in new
    <3>1. b # start
      BY <1>2, <2>2
    <3>2. b > 0 /\ b - 1 \in Blocks
      BY <3>1, <2>1, <2>2
    <3> QED BY <3>1, <3>2, <2>2
  <2>3. CASE b \notin new
    <3>1. kind[b] = "TAIL" /\ b \notin G
      BY <1>2, <2>3
    <3>2. b > 0 /\ kind[b - 1] # "FREE" /\ b - 1 \in Blocks
      BY <3>1, <2>1 DEF HeapOK
    <3>3. b - 1 \notin G
      BY <3>1, <3>2, <2>1
    <3> QED BY <3>2, <3>3
  <2> QED BY <2>2, <2>3
<1>3. (Heads \ G) \cup ({start} \cap new) \subseteq Heads'
  BY DEF Heads
<1>4. FreeIsClear'
  BY DEF FreeIsClear
<1>5. ftb' \subseteq Heads'
  BY <1>3 DEF HeapOK
<1> QED BY <1>1, <1>2, <1>3, <1>4, <1>5 DEF HeapOK

(* The hint after blocks from b on have become free.                       *)
LEMMA HintLowered ==
    ASSUME NEW b \in 0 .. NBlocks, NEW last \in 0 .. gc_alloc_table_byte_len,
           hint' = HintAfterFree(b, last),
           \A c \in Blocks : c < Edge(last) /\ c < b => kind'[c] # "FREE"
    PROVE  hint' \in 0 .. gc_alloc_table_byte_len /\ NoneFreeBefore(hint)'
<1>1. NBlocks \in Nat /\ Blocks = 0 .. NBlocks - 1 /\ gc_alloc_table_byte_len \in Nat
  BY BlockNumbers
<1>2. /\ AtbFromBlock(b) \in Nat /\ Edge(AtbFromBlock(b)) <= b
      /\ AtbFromBlock(b) <= gc_alloc_table_byte_len
  BY <1>1, AtbBelow
<1>3. hint' \in Nat /\ hint' <= last /\ (hint' = last \/ hint' = AtbFromBlock(b))
      /\ hint' <= AtbFromBlock(b)
  BY <1>1, <1>2 DEF HintAfterFree
<1>4. Edge(hint') \in Nat /\ Edge(hint') <= Edge(last) /\ Edge(hint') <= b
  <2>1. /\ Edge(hint') \in Nat /\ Edge(hint') <= Edge(last)
        /\ Edge(AtbFromBlock(b)) \in Nat /\ Edge(hint') <= Edge(AtbFromBlock(b))
    BY <1>2, <1>3, EdgeGrows
  <2> QED BY <2>1, <1>1, <1>2
<1>5. Edge(last) \in Nat
  BY EdgeGrows
<1>6. ASSUME NEW c \in Blocks, c < Edge(hint') PROVE kind'[c] # "FREE"
  BY <1>1, <1>4, <1>5, <1>6
<1>7. hint' \in 0 .. gc_alloc_table_byte_len
  BY <1>1, <1>3
<1> QED BY <1>6, <1>7 DEF NoneFreeBefore, Edge

-----------------------------------------------------------------------------
(* Each operation keeps the heap in shape.                                 *)
Chained(b, bits) == ChainOf(b, bits) \cap Blocks

LEMMA OwnedChain ==
    ASSUME HeapOK, NEW r \in Roots, Owned(r), NEW bits
    PROVE  /\ roots[r] \in Heads /\ roots[r] \in Blocks
           /\ roots[r] \in Chained(roots[r], bits)
           /\ \A c \in Chained(roots[r], bits) :
                 /\ kind[c] # "FREE" /\ roots[r] <= c
                 /\ c + 1 \in Blocks /\ kind[c + 1] = "TAIL" => c + 1 \in Chained(roots[r], bits)
           /\ Chained(roots[r], bits) \cap Heads = {roots[r]}
           /\ \A s \in Roots \ {r} : roots[s] \in (Heads \ Chained(roots[r], bits)) \cup {None}
           /\ \A b \in Blocks : word[b] \in (Heads \ Chained(roots[r], bits)) \cup {None}
<1> DEFINE b == roots[r]
           G == Chained(b, bits)
<1>1. b \in Heads /\ b \in Blocks
  BY DEF Owned, HeapOK, Heads
<1> HIDE DEF b
<1>2. \A c \in Blocks : c \in G <=> c \in OwnBlocks(b)
  BY <1>1, ChainInTable DEF Chained
<1>3. G \subseteq Blocks
  BY DEF Chained
<1> HIDE DEF G
<1>4. b \in G
  BY <1>1, <1>2, OwnFacts
<1>5. ASSUME NEW c \in G
      PROVE  /\ kind[c] # "FREE" /\ b <= c
             /\ c + 1 \in Blocks /\ kind[c + 1] = "TAIL" => c + 1 \in G
             /\ c # b => c \notin Heads
  <2>1. c \in OwnBlocks(b) /\ c \in Blocks
    BY <1>2, <1>3
  <2>2. /\ b <= c
        /\ c # b => kind[c] = "TAIL"
        /\ c + 1 \in Blocks /\ kind[c + 1] = "TAIL" => c + 1 \in OwnBlocks(b)
    BY <1>1, <2>1, OwnFacts
  <2> QED BY <1>1, <1>2, <2>2 DEF Heads
<1>6. G \cap Heads = {b}
  BY <1>1, <1>4, <1>5
<1>7. \A s \in Roots \ {r} : roots[s] \in (Heads \ G) \cup {None}
  BY <1>6 DEF Owned, HeapOK, b
<1>8. \A c \in Blocks : word[c] \in (Heads \ G) \cup {None}
  BY <1>6 DEF Owned, HeapOK, b
<1> QED BY <1>1, <1>4, <1>5, <1>6, <1>7, <1>8 DEF b, G

LEMMA GcFreeStep ==
    ASSUME GInv, NEW r \in Roots, GcFree(r)
    PROVE  GInv'
<1> DEFINE b == roots[r]
           bits == ftb \ {b}
           G == Chained(b, bits)
<1>1. /\ phase = "idle" /\ fault = "none" /\ Owned(r)
      /\ ftb' = bits \ PastBits(ChainOf(b, bits))
      /\ hint' = HintAfterFree(b, hint)
      /\ kind' = [c \in Blocks |-> IF c \in ChainOf(b, bits) THEN "FREE" ELSE kind[c]]
      /\ word' = [c \in Blocks |-> IF c \in ChainOf(b, bits) THEN None ELSE word[c]]
      /\ roots' = [roots EXCEPT ![r] = None]
      /\ UNCHANGED <<lock, gc, fault>>
  BY DEF GcFree, Idle
<1>2. HeapOK
  BY <1>1, QuietHeap
<1>3. /\ b \in Heads /\ b \in Blocks /\ b \in G
      /\ \A c \in G : /\ kind[c] # "FREE" /\ b <= c
                      /\ c + 1 \in Blocks /\ kind[c + 1] = "TAIL" => c + 1 \in G
      /\ G \cap Heads = {b}
      /\ \A s \in Roots \ {r} : roots[s] \in (Heads \ G) \cup {None}
      /\ \A c \in Blocks : word[c] \in (Heads \ G) \cup {None}
  BY <1>1, <1>2, OwnedChain
<1>4. \A c \in Blocks : c \in ChainOf(b, bits) <=> c \in G
  BY DEF Chained
<1>5. G \in SUBSET Blocks
  BY DEF Chained
<1> DEFINE no == {}
<1>6. /\ kind' = [c \in Blocks |-> IF c \in no THEN IF c = NBlocks THEN "HEAD" ELSE "TAIL"
                                   ELSE IF c \in G THEN "FREE" ELSE kind[c]]
      /\ word' = [c \in Blocks |-> IF c \in G THEN None ELSE word[c]]
  BY <1>1, <1>4
<1>7. ftb' \subseteq (ftb \ G) \cup ({NBlocks} \cap no)
  <2>1. ftb' \subseteq ftb \ {b} /\ ftb \subseteq Heads
    BY <1>1, <1>2 DEF HeapOK
  <2> HIDE DEF G
  <2> QED BY <1>3, <2>1
<1> HIDE DEF G, bits, b
<1>8. /\ word' \in [Blocks -> Blocks \cup {None}]
      /\ \A c \in Blocks : word'[c] = None \/ (kind'[c] # "FREE" /\ word'[c] \in Heads \ G)
  BY <1>2, <1>3, <1>6 DEF HeapOK, FreeIsClear
<1>9. /\ roots' \in [Roots -> Blocks \cup {None}]
      /\ \A s \in Roots : roots'[s] \in (Heads \ G) \cup ({NBlocks} \cap no) \cup {None}
  BY <1>1, <1>2, <1>3 DEF HeapOK
<1>10. no \in SUBSET Blocks /\ \A c \in no : FALSE
  OBVIOUS
<1> HIDE DEF no
<1>11. HeapOK'
  <2>1. Reshaped(G, no, NBlocks)
    BY <1>3, <1>5, <1>6, <1>7, <1>8, <1>9, <1>10 DEF Reshaped
  <2> QED BY <1>2, <2>1, HeapReshaped
<1>12. hint' \in 0 .. gc_alloc_table_byte_len /\ NoneFreeBefore(hint)'
  <2>1. hint \in 0 .. gc_alloc_table_byte_len /\ NoneFreeBefore(hint)
    BY <1>1 DEF GInv, GTypes, HintInv
  <2>2. b \in 0 .. NBlocks
    BY <1>3, BlockNumbers
  <2>3. ASSUME NEW c \in Blocks, c < Edge(hint), c < b PROVE kind'[c] # "FREE"
    <3>1. kind[c] # "FREE"
      BY <2>1, <2>3 DEF NoneFreeBefore, Edge
    <3>2. c \notin G
      BY <1>3, <2>2, <2>3, BlockNumbers
    <3> QED BY <1>6, <3>1, <3>2, <1>10
  <2> QED BY <1>1, <2>1, <2>2, <2>3, HintLowered DEF b
<1>13. phase' = "idle" /\ request' = None /\ fault' = "none"
  BY <1>1 DEF gc, GInv, GTypes
<1> QED BY <1>1, <1>11, <1>12, <1>13, QuietStep DEF gc

LEMMA ShrinkStep ==
    ASSUME GInv, NEW r \in Roots, NEW n \in 1 .. MaxBlocks, Shrink(r, n)
    PROVE  GInv'
<1> DEFINE b == roots[r]
           G == {c \in OwnBlocks(b) : c >= b + n}
           no == {}
<1>1. /\ phase = "idle" /\ fault = "none" /\ Owned(r) /\ G # {}
      /\ kind' = [c \in Blocks |-> IF c \in G THEN "FREE" ELSE kind[c]]
      /\ word' = [c \in Blocks |-> IF c \in G THEN None ELSE word[c]]
      /\ hint' = HintAfterFree(b + n, hint)
      /\ UNCHANGED <<ftb, roots, lock, gc, fault>>
  BY DEF Shrink, Idle
<1>2. HeapOK
  BY <1>1, QuietHeap
<1>3. b \in Blocks /\ n \in Nat /\ n > 0 /\ Blocks = 0 .. NBlocks - 1 /\ NBlocks \in Nat
  BY <1>1, <1>2, BlockNumbers DEF Owned, HeapOK
<1>4. ASSUME NEW c \in G
      PROVE  /\ kind[c] = "TAIL" /\ c \in Blocks /\ c >= b + n
             /\ c + 1 \in Blocks /\ kind[c + 1] = "TAIL" => c + 1 \in G
  <2> HIDE DEF b
  <2>1. c \in OwnBlocks(b) /\ c >= b + n
    BY <1>4
  <2>4. \A d \in OwnBlocks(b) : d >= b + n => d \in G
    OBVIOUS
  <2> HIDE DEF G
  <2>2. /\ c \in Blocks
        /\ c # b => kind[c] = "TAIL"
        /\ c + 1 \in Blocks /\ kind[c + 1] = "TAIL" => c + 1 \in OwnBlocks(b)
    BY <1>3, <2>1, OwnFacts
  <2>3. c \in Nat /\ c # b /\ c + 1 >= b + n
    BY <1>3, <2>1, <2>2
  <2> QED BY <2>1, <2>2, <2>3, <2>4
<1> HIDE DEF b, G
<1>5. G \cap Heads = {}
  BY <1>4 DEF Heads
<1>6. /\ word' \in [Blocks -> Blocks \cup {None}]
      /\ \A c \in Blocks : word'[c] = None \/ (kind'[c] # "FREE" /\ word'[c] \in Heads \ G)
  BY <1>1, <1>2, <1>5 DEF HeapOK, FreeIsClear
<1>7. Reshaped(G, no, NBlocks)
  BY <1>1, <1>2, <1>4, <1>5, <1>6 DEF Reshaped, HeapOK
<1>8. HeapOK'
  BY <1>2, <1>7, HeapReshaped
<1>9. hint' \in 0 .. gc_alloc_table_byte_len /\ NoneFreeBefore(hint)'
  <2>1. hint \in 0 .. gc_alloc_table_byte_len /\ NoneFreeBefore(hint)
    BY <1>1 DEF GInv, GTypes, HintInv
  <2>2. b + n \in 0 .. NBlocks
    BY <1>1, <1>3, <1>4
  <2>3. ASSUME NEW c \in Blocks, c < Edge(hint), c < b + n PROVE kind'[c] # "FREE"
    <3>1. kind[c] # "FREE"
      BY <2>1, <2>3 DEF NoneFreeBefore, Edge
    <3>2. c \notin G
      BY <1>3, <1>4, <2>3
    <3> QED BY <1>1, <3>1, <3>2
  <2> DEFINE m == b + n
  <2>4. hint' = HintAfterFree(m, hint) /\ m \in 0 .. NBlocks
        /\ \A c \in Blocks : c < Edge(hint) /\ c < m => kind'[c] # "FREE"
    BY <1>1, <2>2, <2>3 DEF b
  <2> HIDE DEF m
  <2> QED BY <2>1, <2>4, HintLowered
<1>10. phase' = "idle" /\ request' = None /\ fault' = "none"
  BY <1>1 DEF gc, GInv, GTypes
<1> QED BY <1>1, <1>8, <1>9, <1>10, QuietStep DEF gc

LEMMA ExpandStep ==
    ASSUME GInv, NEW r \in Roots, NEW n \in 1 .. MaxBlocks, Expand(r, n)
    PROVE  GInv'
<1> DEFINE b == roots[r]
           new == More(b, n)
           no == {}
<1>1. /\ phase = "idle" /\ fault = "none" /\ Owned(r) /\ FreeBehind(b, n)
      /\ kind' = [c \in Blocks |-> IF c \in new THEN "TAIL" ELSE kind[c]]
      /\ word' = [c \in Blocks |-> IF c \in new THEN None ELSE word[c]]
      /\ UNCHANGED <<ftb, roots, hint, lock, gc, fault>>
  BY DEF Expand, Idle
<1>2. HeapOK
  BY <1>1, QuietHeap
<1>3. b \in Blocks /\ b \in Heads /\ n \in Nat /\ n > 0 /\ Blocks = 0 .. NBlocks - 1 /\ NBlocks \in Nat
  BY <1>1, <1>2, BlockNumbers DEF Owned, HeapOK, Heads
<1>4. \A c \in new : c \in Blocks /\ kind[c] = "FREE"
  BY <1>1 DEF FreeBehind
<1>5. ASSUME NEW c \in new PROVE c > 0 /\ (c - 1 \in new \/ kind[c - 1] # "FREE")
  <2>1. c \in b .. b + n - 1 /\ c \notin OwnBlocks(b)
    BY DEF More
  <2>2. c # b
    BY <1>3, <2>1, OwnFacts
  <2>3. c > 0 /\ c - 1 \in b .. b + n - 1
    BY <1>3, <2>1, <2>2
  <2>4. CASE c - 1 \in OwnBlocks(b)
    <3>1. c - 1 = b \/ kind[c - 1] = "TAIL"
      BY <1>3, <2>4, OwnFacts
    <3> QED BY <1>3, <2>3, <3>1 DEF Heads
  <2>5. CASE c - 1 \notin OwnBlocks(b)
    BY <2>3, <2>5 DEF More
  <2> QED BY <2>3, <2>4, <2>5
<1> HIDE DEF b, new
<1>6. new \in SUBSET Blocks /\ NBlocks \notin new
  BY <1>3, <1>4
<1>7. kind' = [c \in Blocks |-> IF c \in new THEN IF c = NBlocks THEN "HEAD" ELSE "TAIL"
                                ELSE IF c \in no THEN "FREE" ELSE kind[c]]
  BY <1>1, <1>6
<1>8. /\ word' \in [Blocks -> Blocks \cup {None}]
      /\ \A c \in Blocks : word'[c] = None \/ (kind'[c] # "FREE" /\ word'[c] \in Heads \ no)
  BY <1>1, <1>2 DEF HeapOK, FreeIsClear
<1>9. Reshaped(no, new, NBlocks)
  BY <1>1, <1>2, <1>4, <1>5, <1>6, <1>7, <1>8 DEF Reshaped, HeapOK
<1>10. HeapOK'
  BY <1>2, <1>9, HeapReshaped
<1>11. hint' \in 0 .. gc_alloc_table_byte_len /\ NoneFreeBefore(hint)'
  <2>1. hint \in 0 .. gc_alloc_table_byte_len /\ NoneFreeBefore(hint)
    BY <1>1 DEF GInv, GTypes, HintInv
  <2> QED BY <1>1, <2>1 DEF NoneFreeBefore
<1>12. phase' = "idle" /\ request' = None /\ fault' = "none"
  BY <1>1 DEF gc, GInv, GTypes
<1> QED BY <1>1, <1>10, <1>11, <1>12, QuietStep DEF gc

(* The found run becomes an object; what gc_realloc moves is copied to it  *)
(* and then freed.                                                         *)
LEMMA PlaceStep ==
    ASSUME HeapOK, NEW r \in Roots, NEW fin \in BOOLEAN, NEW from,
           from = None \/ (from = roots[r] /\ Owned(r)),
           NEW end \in Blocks, NEW n_free \in Nat, n_free > 0,
           \A c \in Nat : c > end - n_free /\ c <= end => kind[c] = "FREE",
           hint \in 0 .. gc_alloc_table_byte_len, NoneFreeBefore(hint),
           n_free = 1 => \A c \in Edge(hint) .. end - 1 : kind[c] # "FREE",
           Place(r, fin, from, end, n_free)
    PROVE  HeapOK' /\ hint' \in 0 .. gc_alloc_table_byte_len /\ NoneFreeBefore(hint)'
<1> DEFINE start == end - n_free + 1
           new   == start .. end
           bits  == (IF fin THEN ftb \cup {start} ELSE ftb) \ {from}
           gone  == IF from = None THEN {} ELSE ChainOf(from, bits)
           next  == IF n_free = 1 THEN AtbFromBlock(end + 1) ELSE hint
           G     == gone \cap Blocks
<1>1. /\ start >= 0
      /\ kind' = [b \in Blocks |-> IF b = start THEN "HEAD" ELSE IF b \in new THEN "TAIL"
                                   ELSE IF b \in gone THEN "FREE" ELSE kind[b]]
      /\ word' = [b \in Blocks |->
                     IF b \in new
                     THEN IF from = None THEN None ELSE Copied(from, from + b - start)
                     ELSE IF b \in gone THEN None ELSE word[b]]
      /\ ftb' = bits \ PastBits(gone)
      /\ hint' = IF from = None THEN next ELSE HintAfterFree(from, next)
      /\ roots' = [roots EXCEPT ![r] = start]
  BY DEF Place
<1>2. NBlocks \in Nat /\ Blocks = 0 .. NBlocks - 1 /\ end \in Nat /\ None \notin Int
  BY BlockNumbers
<1>3. /\ start \in new /\ start \in Nat /\ new \in SUBSET Blocks
      /\ \A b \in new : kind[b] = "FREE" /\ (b = start \/ (b > 0 /\ b - 1 \in new))
  BY <1>1, <1>2
<1> HIDE DEF new, start
<1>4. G \in SUBSET Blocks /\ \A b \in Blocks : b \in gone <=> b \in G
  OBVIOUS
<1>5. /\ \A c \in G : /\ kind[c] # "FREE"
                      /\ c + 1 \in Blocks /\ kind[c + 1] = "TAIL" => c + 1 \in G
      /\ G \cap Heads \subseteq {from}
      /\ \A s \in Roots \ {r} : roots[s] \in (Heads \ G) \cup {None}
      /\ \A c \in Blocks : word[c] \in (Heads \ G) \cup {None}
      /\ from # None => from \in Blocks /\ \A c \in G : from <= c
  <2>1. CASE from = None
    <3>1. G = {}
      BY <2>1
    <3> HIDE DEF G
    <3> QED BY <2>1, <3>1 DEF HeapOK
  <2>2. CASE from # None
    <3>1. G = Chained(roots[r], bits) /\ from = roots[r]
      BY <2>2 DEF Chained
    <3> HIDE DEF G, bits
    <3> QED BY <2>2, <3>1, OwnedChain
  <2> QED BY <2>1, <2>2
<1> HIDE DEF G
<1>6. kind' = [b \in Blocks |-> IF b \in new THEN IF b = start THEN "HEAD" ELSE "TAIL"
                                ELSE IF b \in G THEN "FREE" ELSE kind[b]]
  BY <1>1, <1>3, <1>4
<1>7. /\ word' \in [Blocks -> Blocks \cup {None}]
      /\ \A b \in Blocks : word'[b] = None \/ (kind'[b] # "FREE" /\ word'[b] \in Heads \ G)
  <2>1. from # None =>
          \A c : Copied(from, c) = None \/ \E b \in Blocks : Copied(from, c) = word[b]
    BY <1>5, OwnFacts DEF Copied
  <2>2. \A b \in Blocks : /\ word'[b] \in (Heads \ G) \cup {None}
                          /\ b \in G \ new => word'[b] = None
                          /\ b \notin G \cup new => word'[b] = word[b]
    BY <1>1, <1>4, <1>5, <2>1
  <2>3. word' = [b \in Blocks |-> word'[b]]
    BY <1>1
  <2>4. Heads \subseteq Blocks
    BY DEF Heads
  <2>5. \A b \in Blocks : kind'[b] = "FREE" => word'[b] = None
    BY <1>6, <2>2 DEF HeapOK, FreeIsClear
  <2> QED BY <2>2, <2>3, <2>4, <2>5
<1>8. ftb' \subseteq (ftb \ G) \cup ({start} \cap new)
  <2>1. ftb' \subseteq (ftb \cup {start}) \ {from} /\ ftb \subseteq Heads
    BY <1>1 DEF HeapOK
  <2>2. ftb \ {from} \subseteq ftb \ G
    BY <1>5, <2>1
  <2> HIDE DEF bits
  <2> QED BY <1>3, <2>1, <2>2
<1>9. /\ roots' \in [Roots -> Blocks \cup {None}]
      /\ \A s \in Roots : roots'[s] \in (Heads \ G) \cup ({start} \cap new) \cup {None}
  BY <1>1, <1>3, <1>5 DEF HeapOK
<1>10. Reshaped(G, new, start)
  BY <1>3, <1>4, <1>5, <1>6, <1>7, <1>8, <1>9 DEF Reshaped
<1>11. HeapOK'
  BY <1>10, HeapReshaped
<1>12. next \in 0 .. gc_alloc_table_byte_len
       /\ \A c \in Blocks : c < Edge(next) /\ kind'[c] = "FREE" => c \in G
  <2>1. ASSUME NEW c \in Blocks, kind'[c] = "FREE", c \notin G
        PROVE  kind[c] = "FREE" /\ c \notin new
    BY <1>6, <2>1
  <2>2. CASE n_free # 1
    <3>1. next = hint
      BY <2>2
    <3> HIDE DEF next
    <3> QED BY <2>1, <3>1 DEF NoneFreeBefore, Edge
  <2>3. CASE n_free = 1
    <3>1. next = AtbFromBlock(end + 1) /\ new = {end}
      BY <1>2, <2>3 DEF new, start
    <3>2. end + 1 \in Nat /\ end + 1 <= NBlocks
      BY <1>2
    <3>3. next \in Nat /\ next <= gc_alloc_table_byte_len /\ Edge(next) <= end + 1 /\ Edge(next) \in Nat
      BY <3>1, <3>2, AtbBelow, EdgeGrows
    <3>4. Edge(hint) \in Nat
      BY EdgeGrows, BlockNumbers
    <3> HIDE DEF next
    <3>5. ASSUME NEW c \in Blocks, c < Edge(next), kind'[c] = "FREE", c \notin G PROVE FALSE
      <4>1. kind[c] = "FREE" /\ c # end /\ c \in Nat
        BY <2>1, <3>1, <3>5, <1>2
      <4>2. c <= end - 1
        BY <1>2, <3>3, <3>5, <4>1
      <4>3. ~(c < Edge(hint))
        BY <4>1 DEF NoneFreeBefore, Edge
      <4> QED BY <1>2, <2>3, <3>4, <4>1, <4>2, <4>3
    <3> QED BY <3>3, <3>5, BlockNumbers
  <2> QED BY <2>2, <2>3
<1> HIDE DEF next, bits, gone
<1>13. hint' \in 0 .. gc_alloc_table_byte_len /\ NoneFreeBefore(hint)'
  <2>1. CASE from = None
    <3>1. hint' = next /\ G = {}
      BY <1>1, <2>1 DEF G, gone
    <3>2. \A c \in Blocks : c < Edge(hint') => kind'[c] # "FREE"
      BY <1>12, <3>1
    <3> QED BY <1>12, <3>1, <3>2 DEF NoneFreeBefore, Edge
  <2>2. CASE from # None
    <3>1. hint' = HintAfterFree(from, next) /\ from \in 0 .. NBlocks
      BY <1>1, <1>2, <1>5, <2>2
    <3>2. ASSUME NEW c \in Blocks, c < Edge(next), c < from PROVE kind'[c] # "FREE"
      BY <1>2, <1>5, <1>12, <2>2, <3>2
    <3> QED BY <1>12, <3>1, <3>2, HintLowered
  <2> QED BY <2>1, <2>2
<1> QED BY <1>11, <1>13

LEMMA ServeStep ==
    ASSUME GInv, phase \in {"idle", "alloc"}, NEW q \in Request,
           q.n_free = 0 \/ hint = 0, NoneFreeBefore(hint),
           q.mover # None => Owned(q.mover),
           Serve(q)
    PROVE  /\ HeapOK' /\ hint' \in 0 .. gc_alloc_table_byte_len /\ NoneFreeBefore(hint)'
           /\ fault' \in {fault, "before_pool"}
<1> DEFINE first == hint * BLOCKS_PER_ATB
<1>1. HeapOK /\ hint \in 0 .. gc_alloc_table_byte_len
  BY QuietHeap DEF GInv, GTypes
<1>2. first \in Nat /\ first = Edge(hint) /\ (hint = 0 => first = 0)
  <2>1. hint \in Nat /\ BLOCKS_PER_ATB \in Nat
    BY <1>1, BlockNumbers
  <2>2. Edge(hint) \in Nat
    BY <2>1, EdgeGrows
  <2> QED BY <2>1, <2>2 DEF Edge
<1>3. /\ q.n \in Nat /\ q.n > 0 /\ q.n_free \in Nat /\ q.mover \in Roots \cup {None}
      /\ q.n_free = 0 \/ first = 0
  BY <1>2, BlockNumbers DEF Request
<1> DEFINE Run(end) == RunAt(first, q.n_free, end)
<1>4. PICK end \in Found(first, q.n_free, q.n) :
         \/ Misplace(end, Run(end))
         \/ /\ q.mover # None
            /\ Place(q.mover, FtbState(roots[q.mover]), roots[q.mover], end, Run(end))
         \/ /\ q.mover = None
            /\ \E r \in Roots, fin \in BOOLEAN : Place(r, fin, None, end, Run(end))
  BY DEF Serve
<1> DEFINE n_free == Run(end)
<1>5. /\ end \in Blocks /\ n_free \in Nat /\ q.n <= n_free
      /\ \A c \in Nat : c > end - n_free /\ c <= end => kind[c] = "FREE"
      /\ q.n <= 1 => \A c \in first .. end - 1 : kind[c] # "FREE"
  BY <1>2, <1>3, <1>4, FoundFacts
<1>6. /\ Misplace(end, n_free) \/
         /\ q.mover # None
         /\ Place(q.mover, FtbState(roots[q.mover]), roots[q.mover], end, n_free)
         \/ \E r \in Roots, fin \in BOOLEAN : Place(r, fin, None, end, n_free)
  BY <1>4
<1> HIDE DEF n_free, first, Run
<1>7. n_free > 0 /\ (n_free = 1 => \A c \in Edge(hint) .. end - 1 : kind[c] # "FREE")
  BY <1>2, <1>3, <1>5
<1>8. CASE Misplace(end, n_free)
  <2>1. UNCHANGED <<kind, ftb, word, roots, hint>> /\ fault' = "before_pool"
    BY <1>8 DEF Misplace, heap
  <2> QED BY <1>1, <2>1 DEF HeapOK, FreeIsClear, Heads, NoneFreeBefore
<1>9. ASSUME q.mover # None,
             Place(q.mover, FtbState(roots[q.mover]), roots[q.mover], end, n_free)
      PROVE  HeapOK' /\ hint' \in 0 .. gc_alloc_table_byte_len /\ NoneFreeBefore(hint)'
             /\ fault' = fault
  <2> DEFINE r == q.mover
             fin == FtbState(roots[r])
             from == roots[r]
  <2>1. r \in Roots /\ fin \in BOOLEAN /\ Owned(r)
    BY <1>3, <1>9 DEF FtbState
  <2>2. Place(r, fin, from, end, n_free)
    BY <1>9
  <2>3. from = None \/ (from = roots[r] /\ Owned(r))
    BY <2>1
  <2>4. fault' = fault
    BY <2>2 DEF Place
  <2> HIDE DEF r, fin, from
  <2> QED BY <1>1, <1>5, <1>7, <2>1, <2>2, <2>3, <2>4, PlaceStep
<1>10. ASSUME NEW r \in Roots, NEW fin \in BOOLEAN, Place(r, fin, None, end, n_free)
       PROVE  HeapOK' /\ hint' \in 0 .. gc_alloc_table_byte_len /\ NoneFreeBefore(hint)'
              /\ fault' = fault
  <2>1. fault' = fault
    BY <1>10 DEF Place
  <2> QED BY <1>1, <1>5, <1>7, <1>10, <2>1, PlaceStep
<1> QED BY <1>6, <1>8, <1>9, <1>10

(* A collection begins with every pointer live and no object marked.       *)
LEMMA CollectStartStep ==
    ASSUME GInv, phase = "idle", NEW q \in Request \cup {None},
           (q # None /\ q.mover # None) => Owned(q.mover),
           CollectStart(q)
    PROVE  GInv'
<1>1. /\ lock' = lock + 1 /\ overflow' = FALSE /\ stack' = <<>>
      /\ phase' = "roots" /\ root' = 1 /\ chain' = {} /\ request' = q
      /\ UNCHANGED <<kind, ftb, word, roots, hint, block, free_tail, fault>>
  BY DEF CollectStart, heap
<1>2. HeapOK /\ free_tail = FALSE
  BY QuietHeap
<1>3. stack' \in Seq(Blocks) /\ Len(stack') = 0
  BY <1>1
<1>4. MICROPY_ALLOC_GC_STACK_SIZE >= 0
  BY GcAssumption DEF GcAssumption, Positive
<1>5. GTypes'
  <2>1. lock' = 1 /\ phase' \in Phases /\ root' \in Nat \ {0} /\ chain' \subseteq Nat
    BY <1>1 DEF GInv, GTypes, Phases
  <2>2. Len(stack') <= MICROPY_ALLOC_GC_STACK_SIZE
    BY <1>3, <1>4
  <2> QED BY <1>1, <1>3, <2>1, <2>2 DEF GInv, GTypes
<1>6. Tables'
  BY <1>1, <1>2
  DEF GInv, Tables, TailsFollow, FreeTailInSweep, FreeIsClear, MarksInCollection, Heads
<1>7. HintInv'
  BY <1>1 DEF HintInv
<1>8. \A b \in Blocks : OwnBlocks(b)' = OwnBlocks(b)
  BY <1>1, OwnBlocksKept
<1>9. PointersLive'
  BY <1>1, <1>8 DEF GInv, PointersLive, Live, Heads
<1>10. \A b \in Blocks : kind'[b] # "MARK"
  BY <1>1, <1>2 DEF HeapOK
<1>11. \A r \in Roots : r >= 1
  BY BlockNumbers DEF Roots
<1>12. Traced'
  BY <1>1, <1>10, <1>11 DEF Traced
<1>13. MoverOwns'
  BY <1>1 DEF MoverOwns, Owned
<1> QED BY <1>5, <1>6, <1>7, <1>9, <1>12, <1>13 DEF GInv

LEMMA StartAllocStep ==
    ASSUME GInv, NEW q \in Request, q.n_free = 0, q.mover # None => Owned(q.mover),
           StartAlloc(q)
    PROVE  GInv'
<1>1. phase = "idle" /\ fault = "none" /\ request = None
  BY DEF StartAlloc, Idle, GInv, GTypes
<1>2. CASE Serve(q) /\ UNCHANGED <<lock, gc>>
  <2>1. NoneFreeBefore(hint)
    BY <1>1 DEF GInv, HintInv
  <2>2. /\ HeapOK' /\ hint' \in 0 .. gc_alloc_table_byte_len /\ NoneFreeBefore(hint)'
        /\ fault' \in {fault, "before_pool"}
    BY <1>1, <1>2, <2>1, ServeStep
  <2> QED BY <1>1, <1>2, <2>2, QuietStep DEF gc
<1>3. CASE CollectStart([q EXCEPT !.n_free = Trailing])
  <2> DEFINE p == [q EXCEPT !.n_free = Trailing]
  <2>1. Trailing \in Nat
    BY TrailingIsNat DEF GInv, GTypes
  <2>2. p \in Request /\ p.mover = q.mover
    BY <2>1 DEF Request
  <2>3. CollectStart(p)
    BY <1>3
  <2> HIDE DEF p
  <2> QED BY <1>1, <2>2, <2>3, CollectStartStep
<1> QED BY <1>2, <1>3 DEF StartAlloc

LEMMA AllocAgainStep ==
    ASSUME GInv, AllocAgain
    PROVE  GInv'
<1>1. /\ phase = "alloc" /\ fault = "none" /\ phase' = "idle" /\ request' = None
      /\ UNCHANGED <<lock, root, stack, overflow, chain, block, free_tail>>
      /\ Serve(request) \/ (InVain(request) /\ UNCHANGED <<heap, hint, fault>>)
  BY DEF AllocAgain
<1>2. /\ request \in Request /\ hint = 0 /\ hint \in 0 .. gc_alloc_table_byte_len
      /\ request.mover # None => Owned(request.mover)
  BY <1>1 DEF GInv, GTypes, HintInv, MoverOwns
<1>3. CASE Serve(request)
  <2>1. NoneFreeBefore(hint)
    BY <1>2, BlockNumbers DEF NoneFreeBefore
  <2>2. /\ HeapOK' /\ hint' \in 0 .. gc_alloc_table_byte_len /\ NoneFreeBefore(hint)'
        /\ fault' \in {fault, "before_pool"}
    BY <1>1, <1>2, <1>3, <2>1, ServeStep
  <2> QED BY <1>1, <2>2, QuietStep
<1>4. CASE UNCHANGED <<heap, hint, fault>>
  <2>1. HeapOK'
    BY <1>1, <1>4, QuietHeap DEF heap, HeapOK, FreeIsClear, Heads
  <2>2. hint' = 0 /\ NoneFreeBefore(hint)'
    BY <1>2, <1>4, BlockNumbers DEF NoneFreeBefore
  <2> QED BY <1>1, <1>2, <1>4, <2>1, <2>2, QuietStep
<1> QED BY <1>1, <1>3, <1>4

LEMMA UseStep ==
    ASSUME GInv, NEW r \in Roots, NEW s \in Roots, NEW b \in Blocks,
           Load(r, s, b) \/ Store(r, s, b) \/ Drop(r)
    PROVE  GInv'
<1>1. /\ phase = "idle" /\ fault = "none"
      /\ UNCHANGED <<kind, ftb, hint, lock, gc, fault>>
      /\ \/ roots' = [roots EXCEPT ![r] = word[b]] /\ UNCHANGED word
         \/ word' = [word EXCEPT ![b] = roots[r]] /\ UNCHANGED roots
            /\ kind[b] # "FREE"
         \/ roots' = [roots EXCEPT ![r] = None] /\ UNCHANGED word
  <2>1. CASE Load(r, s, b)
    BY <2>1 DEF Load, Idle
  <2>2. CASE Store(r, s, b)
    <3>1. /\ phase = "idle" /\ fault = "none"
          /\ UNCHANGED <<kind, ftb, roots, hint, lock, gc, fault>>
          /\ word' = [word EXCEPT ![b] = roots[r]]
          /\ roots[s] # None /\ b \in OwnBlocks(roots[s])
      BY <2>2 DEF Store, Idle
    <3>2. HeapOK
      BY <3>1, QuietHeap
    <3>3. roots[s] \in Heads /\ roots[s] \in Blocks
      BY <3>1, <3>2 DEF HeapOK
    <3>4. b = roots[s] \/ kind[b] = "TAIL"
      BY <3>1, <3>3, OwnFacts
    <3> QED BY <3>1, <3>3, <3>4 DEF Heads
  <2>3. CASE Drop(r)
    BY <2>3 DEF Drop, Idle
  <2> QED BY <2>1, <2>2, <2>3
<1>2. HeapOK
  BY <1>1, QuietHeap
<1>3. HeapOK'
  BY <1>1, <1>2 DEF HeapOK, FreeIsClear, Heads
<1>4. hint' \in 0 .. gc_alloc_table_byte_len /\ NoneFreeBefore(hint)'
  BY <1>1 DEF GInv, GTypes, HintInv, NoneFreeBefore
<1>5. phase' = "idle" /\ request' = None
  BY <1>1 DEF GInv, GTypes, gc
<1> QED BY <1>1, <1>3, <1>4, <1>5, QuietStep DEF gc

-----------------------------------------------------------------------------
(* The marking.                                                            *)
Marks(ptr) == /\ ptr \in Blocks /\ kind[ptr] = "HEAD"
              /\ kind' = [kind EXCEPT ![ptr] = "MARK"]

LEMMA MarkingKeeps ==
    ASSUME GInv, phase \in {"roots", "rescan"}, phase' \in {"roots", "rescan"},
           UNCHANGED kind \/ \E ptr : Marks(ptr),
           UNCHANGED <<ftb, word, roots, hint, lock, free_tail, request, fault>>
    PROVE  /\ kind' \in [Blocks -> Kinds] /\ Tables' /\ HintInv' /\ PointersLive' /\ MoverOwns'
           /\ \A b \in Blocks : OwnBlocks(b)' = OwnBlocks(b)
           /\ \A b \in Blocks : kind[b] = "MARK" => kind'[b] = "MARK"
           /\ \A ptr \in Blocks : kind'[ptr] = "HEAD" => kind[ptr] = "HEAD"
           /\ lock' = 1
<1>1. kind \in [Blocks -> Kinds] /\ free_tail = FALSE
  BY DEF GInv, GTypes, Tables, FreeTailInSweep
<1>2. /\ kind' \in [Blocks -> Kinds]
      /\ \A b \in Blocks : kind'[b] = kind[b] \/ (kind[b] = "HEAD" /\ kind'[b] = "MARK")
  BY <1>1 DEF Marks, Kinds
<1>3. \A b \in Blocks : OwnBlocks(b)' = OwnBlocks(b)
  BY <1>2, OwnBlocksKept
<1>4. Heads' = Heads
  BY <1>2 DEF Heads
<1>6. \A ptr \in Blocks : kind'[ptr] = "HEAD" => kind[ptr] = "HEAD"
  BY <1>2
<1>7. TailsFollow'
  <2>1. \A b \in Blocks : b > 0 => b - 1 \in Blocks
    BY BlockNumbers
  <2> QED BY <1>1, <1>2, <2>1 DEF GInv, Tables, TailsFollow
<1>8. Tables'
  BY <1>1, <1>2, <1>4, <1>7
  DEF GInv, Tables, FreeTailInSweep, FreeIsClear, MarksInCollection
<1>9. PointersLive'
  <2>1. /\ \A r \in Roots : roots[r] \in Heads \cup {None}
        /\ \A b \in Blocks : word[b] \in Heads \cup {None}
    BY DEF GInv, PointersLive, Live
  <2>2. Heads \subseteq Blocks
    BY DEF Heads
  <2>3. \A h \in Heads : \A b \in OwnBlocks(h)' : b \in Blocks
    BY <1>3, <2>2, OwnFacts
  <2> QED BY <1>4, <2>1, <2>3 DEF PointersLive, Live
<1>10. HintInv' /\ MoverOwns'
  BY DEF GInv, HintInv, MoverOwns, Owned
<1>11. lock' = 1
  BY DEF GInv, GTypes
<1> QED BY <1>2, <1>3, <1>6, <1>8, <1>9, <1>10, <1>11

LEMMA TraceRootStep ==
    ASSUME GInv, TraceRoot
    PROVE  GInv'
<1> DEFINE i == FirstOf(RootsLeft)
           h == roots[i]
<1>1. /\ phase = "roots" /\ fault = "none" /\ stack = <<>> /\ WordsLeft = {} /\ RootsLeft # {}
      /\ root' = i + 1
      /\ kind' = [kind EXCEPT ![h] = "MARK"]
      /\ chain' = ChainOf(h, ftb)
      /\ UNCHANGED <<ftb, word, roots, hint, lock, phase, stack, overflow, block,
                     free_tail, request, fault>>
  BY DEF TraceRoot, Drained, Marking
<1>2. RootsLeft \in SUBSET Roots /\ root \in Nat /\ Roots \subseteq Nat
  BY BlockNumbers DEF RootsLeft, GInv, GTypes, Roots
<1>3. i \in RootsLeft /\ \A j \in RootsLeft : i <= j
  BY <1>1, <1>2, FirstOfLeast
<1>4. i \in Roots /\ i \in Nat /\ root <= i /\ Unmarked(h)
  BY <1>2, <1>3, BlockNumbers DEF RootsLeft
<1>5. \A r \in Roots : Unmarked(roots[r]) => r \in RootsLeft
  BY <1>1, <1>2, BlockNumbers DEF GInv, Traced, Roots, RootsLeft
<1>6. h \in Blocks /\ Marks(h)
  BY <1>1, <1>4 DEF GInv, GTypes, Unmarked, Marks
<1> HIDE DEF i, h
<1>7. /\ kind' \in [Blocks -> Kinds] /\ Tables' /\ HintInv' /\ PointersLive' /\ MoverOwns'
      /\ \A b \in Blocks : OwnBlocks(b)' = OwnBlocks(b)
      /\ \A ptr \in Blocks : kind'[ptr] = "HEAD" => kind[ptr] = "HEAD"
      /\ lock' = 1
  BY <1>1, <1>6, MarkingKeeps
<1>8. GTypes'
  <2>1. chain' \subseteq Nat
    BY <1>1, <1>6, BlockNumbers DEF ChainOf
  <2>2. root' \in Nat \ {0}
    BY <1>1, <1>4
  <2> QED BY <1>1, <1>7, <2>1, <2>2 DEF GInv, GTypes
<1>9. ASSUME NEW r \in Roots, roots[r] # None, kind'[roots[r]] = "HEAD" PROVE r >= root'
  <2>1. Unmarked(roots[r])
    BY <1>7, <1>9 DEF GInv, GTypes, Unmarked
  <2>2. r \in RootsLeft
    BY <1>5, <2>1
  <2>3. roots[r] # h
    BY <1>1, <1>6, <1>9 DEF GInv, GTypes
  <2>4. r # i
    BY <2>3 DEF h
  <2> QED BY <1>1, <1>2, <1>3, <1>4, <2>2, <2>4
<1>10. ASSUME NEW x \in Blocks, NEW b \in OwnBlocks(x), kind'[x] = "MARK",
              word[b] # None, kind'[word[b]] = "HEAD"
       PROVE  b \in chain' \/ overflow'
  <2>1. b \in Blocks /\ Unmarked(word[b])
    <3>1. b \in Blocks
      BY OwnFacts
    <3> QED BY <1>7, <1>10, <3>1 DEF GInv, GTypes, Unmarked
  <2>2. CASE x = h
    BY <1>1, <2>1, <2>2, ChainInTable
  <2>3. CASE x # h
    <3>1. kind[x] = "MARK"
      BY <1>1, <1>10, <2>3
    <3>2. b \notin chain
      BY <1>1, <2>1 DEF WordsLeft
    <3> QED BY <1>1, <2>1, <3>1, <3>2 DEF GInv, Traced
  <2> QED BY <2>2, <2>3
<1>11. Traced'
  BY <1>1, <1>7, <1>9, <1>10 DEF Traced, Unmarked
<1> QED BY <1>7, <1>8, <1>11 DEF GInv

(* A marking step is one that leaves no word of a marked object behind.    *)
LEMMA MarkingStep ==
    ASSUME GInv, phase \in {"roots", "rescan"}, phase' \in {"roots", "rescan"},
           UNCHANGED kind \/ \E ptr : Marks(ptr),
           UNCHANGED <<ftb, word, roots, hint, lock, root, free_tail, request, fault>>,
           phase = "roots" /\ phase' = "rescan" => RootsLeft = {},
           stack' \in Seq(Blocks), Len(stack') <= MICROPY_ALLOC_GC_STACK_SIZE,
           block' \in Nat, overflow' \in BOOLEAN, chain' \subseteq Nat,
           \A x \in Blocks : \A b \in OwnBlocks(x) :
               /\ kind'[x] = "MARK" /\ word[b] # None /\ kind'[word[b]] = "HEAD"
               /\ b \in Blocks /\ Unmarked(word[b])
               => \/ b \in chain'
                  \/ \E i \in 1 .. Len(stack') : stack'[i] = x
                  \/ overflow'
                  \/ phase' = "rescan" /\ x >= block'
    PROVE  GInv'
<1>1. /\ kind' \in [Blocks -> Kinds] /\ Tables' /\ HintInv' /\ PointersLive' /\ MoverOwns'
      /\ \A b \in Blocks : OwnBlocks(b)' = OwnBlocks(b)
      /\ \A ptr \in Blocks : kind'[ptr] = "HEAD" => kind[ptr] = "HEAD"
      /\ lock' = 1
  BY MarkingKeeps
<1>2. GTypes'
  BY <1>1 DEF GInv, GTypes, Phases
<1>3. ASSUME NEW r \in Roots, roots[r] # None, kind'[roots[r]] = "HEAD"
      PROVE  phase' = "roots" /\ r >= root'
  <2>1. Unmarked(roots[r])
    BY <1>1, <1>3 DEF GInv, GTypes, Unmarked
  <2>2. phase = "roots" /\ r >= root
    BY <2>1 DEF GInv, Traced
  <2>3. r \in RootsLeft
    BY <2>1, <2>2, BlockNumbers DEF RootsLeft, Roots, GInv, GTypes
  <2> QED BY <2>2, <2>3
<1>4. ASSUME NEW x \in Blocks, NEW b \in OwnBlocks(x), kind'[x] = "MARK",
              word[b] # None, kind'[word[b]] = "HEAD"
       PROVE  \/ b \in chain'
              \/ \E i \in 1 .. Len(stack') : stack'[i] = x
              \/ overflow'
              \/ phase' = "rescan" /\ x >= block'
  <2>1. b \in Blocks
    BY OwnFacts
  <2>2. Unmarked(word[b])
    BY <1>1, <1>4, <2>1 DEF GInv, GTypes, Unmarked
  <2> QED BY <1>4, <2>1, <2>2
<1>5. Traced'
  BY <1>1, <1>3, <1>4 DEF Traced, Unmarked
<1> QED BY <1>1, <1>2, <1>5 DEF GInv

LEMMA PopStep ==
    ASSUME GInv, Pop
    PROVE  GInv'
<1> DEFINE h == stack[Len(stack)]
<1>1. /\ phase \in {"roots", "rescan"} /\ WordsLeft = {} /\ stack # <<>>
      /\ stack' = SubSeq(stack, 1, Len(stack) - 1)
      /\ chain' = ChainOf(h, ftb)
      /\ UNCHANGED <<kind, ftb, word, roots, hint, lock, phase, root, overflow, block,
                     free_tail, request, fault>>
  BY DEF Pop, Marking, heap
<1>2. stack \in Seq(Blocks) /\ Len(stack) \in Nat /\ Len(stack) > 0
      /\ Len(stack) <= MICROPY_ALLOC_GC_STACK_SIZE /\ MICROPY_ALLOC_GC_STACK_SIZE \in Nat
  BY <1>1, GcAssumption DEF GInv, GTypes, GcAssumption, Positive
<1>3. h \in Blocks
  BY <1>2
<1>4. /\ stack' \in Seq(Blocks) /\ Len(stack') = Len(stack) - 1
      /\ \A i \in 1 .. Len(stack) - 1 : stack'[i] = stack[i]
  <2> DEFINE n == Len(stack) - 1
  <2>1. n \in 0 .. Len(stack) /\ \A i \in 1 .. n : stack[i] \in Blocks
    BY <1>2
  <2>2. /\ SubSeq(stack, 1, n) \in Seq(Blocks) /\ Len(SubSeq(stack, 1, n)) = n
        /\ \A i \in 1 .. n : SubSeq(stack, 1, n)[i] = stack[i]
    <3>1. n \in Int /\ 1 \in Int /\ n \in Nat /\ n - 1 + 1 = n
      BY <1>2
    <3> HIDE DEF n
    <3>2. /\ SubSeq(stack, 1, n) \in Seq(Blocks)
          /\ Len(SubSeq(stack, 1, n)) = IF 1 <= n THEN n - 1 + 1 ELSE 0
          /\ \A i \in 1 .. n - 1 + 1 : SubSeq(stack, 1, n)[i] = stack[1 + i - 1]
      BY <2>1, <3>1, SubSeqProperties
    <3>3. Len(SubSeq(stack, 1, n)) = n
      BY <3>1, <3>2
    <3>4. ASSUME NEW i \in 1 .. n PROVE SubSeq(stack, 1, n)[i] = stack[i]
      <4>1. 1 + i - 1 = i /\ i \in 1 .. n - 1 + 1
        BY <3>1
      <4> QED BY <3>2, <4>1
    <3> QED BY <3>2, <3>3, <3>4
  <2> QED BY <1>1, <2>2
<1>5. \A i \in 1 .. Len(stack) : stack[i] = h \/ (i \in 1 .. Len(stack') /\ stack'[i] = stack[i])
  BY <1>2, <1>4
<1> HIDE DEF h
<1>6. chain' \subseteq Nat
  BY <1>1, <1>3, BlockNumbers DEF ChainOf
<1>7. ASSUME NEW x \in Blocks, NEW b \in OwnBlocks(x), kind[x] = "MARK",
             b \in Blocks, Unmarked(word[b])
      PROVE  \/ b \in chain'
             \/ \E i \in 1 .. Len(stack') : stack'[i] = x
             \/ overflow
             \/ phase = "rescan" /\ x >= block
  <2>1. b \notin chain
    BY <1>1, <1>7 DEF WordsLeft
  <2>2. \/ \E i \in 1 .. Len(stack) : stack[i] = x
        \/ overflow
        \/ phase = "rescan" /\ x >= block
    BY <1>1, <1>7, <2>1 DEF GInv, Traced
  <2>3. x = h => b \in chain'
    BY <1>1, <1>7, ChainInTable
  <2> QED BY <1>5, <2>2, <2>3
<1>8. Len(stack') <= MICROPY_ALLOC_GC_STACK_SIZE /\ block' \in Nat /\ overflow' \in BOOLEAN
  BY <1>1, <1>2, <1>4 DEF GInv, GTypes
<1> QED BY <1>1, <1>4, <1>6, <1>7, <1>8, MarkingStep

LEMMA ScanWordStep ==
    ASSUME GInv, ScanWord
    PROVE  GInv'
<1> DEFINE w == FirstOf(WordsLeft)
           ptr == word[w]
<1>1. /\ phase \in {"roots", "rescan"} /\ WordsLeft # {}
      /\ chain' = {b \in chain : b > w}
      /\ kind' = [kind EXCEPT ![ptr] = "MARK"]
      /\ \/ /\ Len(stack) < MICROPY_ALLOC_GC_STACK_SIZE
            /\ stack' = Append(stack, ptr) /\ UNCHANGED overflow
         \/ overflow' = TRUE /\ UNCHANGED stack
      /\ UNCHANGED <<ftb, word, roots, hint, lock, phase, root, block, free_tail,
                     request, fault>>
  BY DEF ScanWord, Marking, MarkAndPush
<1>2. WordsLeft \in SUBSET Nat
  BY BlockNumbers DEF WordsLeft
<1>3. w \in WordsLeft /\ \A b \in WordsLeft : w <= b
  BY <1>1, <1>2, FirstOfLeast
<1>4. w \in Blocks /\ w \in chain /\ Unmarked(ptr)
  BY <1>3 DEF WordsLeft
<1>5. ptr \in Blocks /\ Marks(ptr)
  BY <1>1, <1>4 DEF GInv, GTypes, Unmarked, Marks
<1> HIDE DEF w
<1>6. kind'[ptr] = "MARK" /\ \A x \in Blocks : x # ptr => kind'[x] = kind[x]
  BY <1>1, <1>5 DEF GInv, GTypes
<1> HIDE DEF ptr
<1>7. stack \in Seq(Blocks) /\ Len(stack) \in Nat /\ MICROPY_ALLOC_GC_STACK_SIZE \in Nat
      /\ Len(stack) <= MICROPY_ALLOC_GC_STACK_SIZE
  BY GcAssumption DEF GInv, GTypes, GcAssumption, Positive
<1>8. /\ stack' \in Seq(Blocks) /\ Len(stack') <= MICROPY_ALLOC_GC_STACK_SIZE
      /\ \A i \in 1 .. Len(stack) : i \in 1 .. Len(stack') /\ stack'[i] = stack[i]
      /\ overflow' \/ (Len(stack') = Len(stack) + 1 /\ stack'[Len(stack')] = ptr)
  <2>1. CASE stack' = Append(stack, ptr) /\ Len(stack) < MICROPY_ALLOC_GC_STACK_SIZE
    BY <1>5, <1>7, <2>1
  <2>2. CASE overflow' = TRUE /\ UNCHANGED stack
    BY <1>7, <2>2
  <2> QED BY <1>1, <2>1, <2>2
<1>9. overflow' \in BOOLEAN /\ (overflow => overflow') /\ block' \in Nat /\ chain' \subseteq Nat
  <2>1. chain \subseteq Nat /\ overflow \in BOOLEAN /\ block \in Nat
    BY DEF GInv, GTypes
  <2>2. chain' \subseteq Nat
    BY <1>1, <2>1
  <2> QED BY <1>1, <2>1, <2>2
<1>10. ASSUME NEW x \in Blocks, NEW b \in OwnBlocks(x), kind'[x] = "MARK",
              kind'[word[b]] = "HEAD", b \in Blocks, Unmarked(word[b])
       PROVE  \/ b \in chain'
              \/ \E i \in 1 .. Len(stack') : stack'[i] = x
              \/ overflow'
              \/ phase = "rescan" /\ x >= block
  <2>1. CASE x = ptr
    <3>1. overflow' \/ Len(stack') \in 1 .. Len(stack')
      BY <1>7, <1>8
    <3> QED BY <1>8, <2>1, <3>1
  <2>2. CASE x # ptr
    <3>1. kind[x] = "MARK"
      BY <1>6, <1>10, <2>2
    <3>2. \/ b \in chain
          \/ \E i \in 1 .. Len(stack) : stack[i] = x
          \/ overflow
          \/ phase = "rescan" /\ x >= block
      BY <1>1, <1>10, <3>1 DEF GInv, Traced
    <3>3. b \in chain => b > w
      <4> SUFFICES ASSUME b \in chain PROVE b > w
        OBVIOUS
      <4>1. b \in WordsLeft
        BY <1>10 DEF WordsLeft
      <4>2. b # w
        BY <1>6, <1>10 DEF ptr
      <4> QED BY <1>2, <1>3, <4>1, <4>2
    <3> QED BY <1>1, <1>8, <1>9, <3>2, <3>3
  <2> QED BY <2>1, <2>2
<1>11. \E p : Marks(p)
  BY <1>5
<1> QED BY <1>1, <1>8, <1>9, <1>10, <1>11, MarkingStep

LEMMA RoundDoneFacts ==
    ASSUME GInv, RoundDone
    PROVE  /\ phase \in {"roots", "rescan"} /\ stack = <<>>
           /\ \A r \in Roots : ~Unmarked(roots[r])
           /\ phase = "roots" => RootsLeft = {}
           /\ overflow \/ \A x \in Blocks : \A b \in OwnBlocks(x) :
                              ~(kind[x] = "MARK" /\ b \in Blocks /\ Unmarked(word[b]))
<1>1. /\ phase \in {"roots", "rescan"} /\ stack = <<>> /\ WordsLeft = {}
      /\ phase = "roots" => RootsLeft = {}
      /\ phase = "rescan" => MarksLeft = {}
  BY DEF RoundDone, Marking, Drained
<1>2. ASSUME NEW r \in Roots, Unmarked(roots[r]) PROVE FALSE
  <2>1. phase = "roots" /\ r >= root
    BY <1>1, <1>2 DEF GInv, Traced
  <2>2. r \in RootsLeft
    BY <1>2, <2>1, BlockNumbers DEF RootsLeft, Roots, GInv, GTypes
  <2> QED BY <1>1, <2>1, <2>2
<1>3. ASSUME ~overflow, NEW x \in Blocks, NEW b \in OwnBlocks(x),
             kind[x] = "MARK", b \in Blocks, Unmarked(word[b])
      PROVE  FALSE
  <2>1. b \notin chain
    BY <1>1, <1>3 DEF WordsLeft
  <2>2. ~\E i \in 1 .. Len(stack) : stack[i] = x
    BY <1>1
  <2>3. phase = "rescan" /\ x >= block
    BY <1>1, <1>3, <2>1, <2>2 DEF GInv, Traced
  <2> QED BY <1>1, <1>3, <2>3 DEF MarksLeft
<1> QED BY <1>1, <1>2, <1>3

LEMMA RescanStartStep ==
    ASSUME GInv, RescanStart
    PROVE  GInv'
<1>1. /\ RoundDone /\ phase' = "rescan" /\ block' = 0 /\ overflow' = FALSE /\ chain' = {}
      /\ UNCHANGED <<kind, ftb, word, roots, hint, lock, root, stack, free_tail, request, fault>>
  BY DEF RescanStart, heap
<1>2. phase \in {"roots", "rescan"} /\ (phase = "roots" => RootsLeft = {})
  BY <1>1, RoundDoneFacts
<1>3. /\ stack' \in Seq(Blocks) /\ Len(stack') <= MICROPY_ALLOC_GC_STACK_SIZE
      /\ block' \in Nat /\ overflow' \in BOOLEAN /\ chain' \subseteq Nat
  BY <1>1 DEF GInv, GTypes
<1>4. \A x \in Blocks : x >= block'
  BY <1>1, BlockNumbers
<1> QED BY <1>1, <1>2, <1>3, <1>4, MarkingStep

LEMMA RescanBlockStep ==
    ASSUME GInv, RescanBlock
    PROVE  GInv'
<1> DEFINE h == FirstOf(MarksLeft)
<1>1. /\ phase = "rescan" /\ stack = <<>> /\ WordsLeft = {} /\ MarksLeft # {}
      /\ block' = h + 1
      /\ chain' = ChainOf(h, ftb)
      /\ UNCHANGED <<kind, ftb, word, roots, hint, lock, phase, root, stack, overflow,
                     free_tail, request, fault>>
  BY DEF RescanBlock, Drained, heap
<1>2. MarksLeft \in SUBSET Nat
  BY BlockNumbers DEF MarksLeft
<1>3. h \in MarksLeft /\ \A b \in MarksLeft : h <= b
  BY <1>1, <1>2, FirstOfLeast
<1>4. h \in Blocks /\ h \in Nat /\ h >= block
  BY <1>2, <1>3 DEF MarksLeft
<1> HIDE DEF h
<1>5. /\ stack' \in Seq(Blocks) /\ Len(stack') <= MICROPY_ALLOC_GC_STACK_SIZE
      /\ block' \in Nat /\ overflow' \in BOOLEAN /\ block \in Nat
  BY <1>1, <1>4 DEF GInv, GTypes
<1>6. chain' \subseteq Nat
  BY <1>1, <1>4, BlockNumbers DEF ChainOf
<1>7. ASSUME NEW x \in Blocks, NEW b \in OwnBlocks(x), kind[x] = "MARK",
             b \in Blocks, Unmarked(word[b])
      PROVE  b \in chain' \/ overflow \/ x >= block'
  <2>1. b \notin chain
    BY <1>1, <1>7 DEF WordsLeft
  <2>2. overflow \/ x >= block
    BY <1>1, <1>7, <2>1 DEF GInv, Traced
  <2>3. x = h => b \in chain'
    BY <1>1, <1>7, ChainInTable
  <2>4. x >= block => x >= h
    BY <1>3, <1>7 DEF MarksLeft
  <2>5. x \in Nat
    BY BlockNumbers
  <2> QED BY <1>1, <1>4, <2>2, <2>3, <2>4, <2>5
<1> QED BY <1>1, <1>5, <1>6, <1>7, MarkingStep

-----------------------------------------------------------------------------
(* The sweep.  It begins with no marked object that points to an unmarked  *)
(* one.                                                                    *)
LEMMA SweepStartStep ==
    ASSUME GInv, SweepStart
    PROVE  GInv'
<1>1. /\ RoundDone /\ ~overflow
      /\ phase' = "sweep" /\ block' = 0 /\ free_tail' = FALSE /\ chain' = {}
      /\ UNCHANGED <<kind, ftb, word, roots, hint, lock, root, stack, overflow, request, fault>>
  BY DEF SweepStart, heap
<1>2. /\ phase \in {"roots", "rescan"}
      /\ \A r \in Roots : ~Unmarked(roots[r])
      /\ \A x \in Blocks : \A b \in OwnBlocks(x) :
            ~(kind[x] = "MARK" /\ b \in Blocks /\ Unmarked(word[b]))
  BY <1>1, RoundDoneFacts
<1>3. free_tail = FALSE
  BY <1>2 DEF GInv, GTypes, Tables, FreeTailInSweep
<1>4. GTypes'
  BY <1>1, <1>2 DEF GInv, GTypes, Phases
<1>5. \A b \in Blocks : ~(b < 0)
  BY BlockNumbers
<1>6. Tables'
  BY <1>1, <1>3, <1>5
  DEF GInv, Tables, TailsFollow, FreeTailInSweep, FreeIsClear, MarksInCollection, Heads
<1>7. Live' = {b \in Blocks : kind[b] = "MARK"}
  BY <1>1, <1>5 DEF Live
<1>8. \A b \in Blocks : OwnBlocks(b)' = OwnBlocks(b)
  BY <1>1, OwnBlocksKept
<1>9. \A ptr \in Heads \cup {None} : ~Unmarked(ptr) => ptr \in Live' \cup {None}
  BY <1>7 DEF Heads, Unmarked
<1>10. /\ \A r \in Roots : roots[r] \in Heads \cup {None}
       /\ \A b \in Blocks : word[b] \in Heads \cup {None}
  BY <1>2 DEF GInv, PointersLive, Live
<1>11. ASSUME NEW h \in Live', NEW b \in OwnBlocks(h)' PROVE word[b] \in Live' \cup {None}
  <2>1. h \in Blocks /\ kind[h] = "MARK"
    BY <1>7
  <2>2. b \in OwnBlocks(h) /\ b \in Blocks
    BY <1>8, <2>1, OwnFacts
  <2> QED BY <1>2, <1>9, <1>10, <2>1, <2>2
<1>12. PointersLive'
  <2>1. \A r \in Roots : roots'[r] \in Live' \cup {None}
    BY <1>1, <1>2, <1>9, <1>10
  <2> QED BY <1>1, <1>11, <2>1 DEF PointersLive
<1>13. HintInv' /\ Traced' /\ MoverOwns'
  BY <1>1 DEF GInv, HintInv, Traced, MoverOwns, Owned
<1> QED BY <1>4, <1>6, <1>12, <1>13 DEF GInv

(* What the sweep makes of block b.                                        *)
SweptAs(b) ==
    \/ kind[b] = "MARK" /\ kind'[b] = "HEAD" /\ free_tail' = FALSE
    \/ kind[b] = "HEAD" /\ kind'[b] = "FREE" /\ free_tail' = TRUE
    \/ kind[b] = "TAIL" /\ kind'[b] = "FREE" /\ free_tail = TRUE /\ free_tail' = TRUE
    \/ kind[b] = "TAIL" /\ kind'[b] = "TAIL" /\ free_tail = FALSE /\ free_tail' = FALSE

(* The whole step; and that of a finaliser that raises.                    *)
Swept(b) ==
    /\ kind' \in [Blocks -> Kinds] /\ \A c \in Blocks \ {b} : kind'[c] = kind[c]
    /\ SweptAs(b) /\ block' = b + 1
    /\ word' = IF kind'[b] = "FREE" THEN [word EXCEPT ![b] = None] ELSE word
    /\ ftb' = IF kind'[b] = "FREE" THEN ftb \ {b} ELSE ftb
    /\ UNCHANGED fault

Raises == UNCHANGED <<kind, word, ftb, free_tail, block>> /\ fault' = "finaliser"

Sweeps(b) == SweepMark(b) \/ SweepHead(b) \/ SweepRaises(b) \/ SweepTail(b)

LEMMA SweepFacts ==
    ASSUME GInv, NEW b \in Blocks, Sweeps(b)
    PROVE  /\ phase = "sweep" /\ b >= block /\ kind[b] # "FREE"
           /\ \A c \in Blocks : c >= block /\ c < b => kind[c] = "FREE"
           /\ UNCHANGED <<roots, hint, lock, phase, root, stack, overflow, chain, request>>
           /\ Swept(b) \/ Raises
<1> USE DEF Sweeps
<1>1. /\ phase = "sweep" /\ b \in UsedLeft /\ b = FirstOf(UsedLeft)
      /\ UNCHANGED <<roots, hint, lock, phase, root, stack, overflow, chain, request>>
  BY DEF SweepMark, SweepHead, SweepRaises, SweepTail, SweepAt
<1>2. kind \in [Blocks -> Kinds] /\ free_tail \in BOOLEAN /\ ftb \subseteq Heads
      /\ block \in Nat /\ Blocks = 0 .. NBlocks - 1 /\ NBlocks \in Nat
  BY BlockNumbers DEF GInv, GTypes, Tables
<1>3. ASSUME SweepMark(b) PROVE Swept(b)
  <2>1. /\ kind[b] = "MARK" /\ kind' = [kind EXCEPT ![b] = "HEAD"]
        /\ free_tail' = FALSE /\ block' = b + 1 /\ UNCHANGED <<ftb, word, fault>>
    BY <1>3 DEF SweepMark, SweepAt
  <2> QED BY <1>2, <2>1 DEF SweptAs, Kinds, Swept
<1>4. ASSUME SweepHead(b) PROVE Swept(b)
  <2>1. /\ kind[b] = "HEAD" /\ kind' = [kind EXCEPT ![b] = "FREE"]
        /\ word' = [word EXCEPT ![b] = None] /\ ftb' = ftb \ {b}
        /\ free_tail' = TRUE /\ block' = b + 1 /\ UNCHANGED fault
    BY <1>4 DEF SweepHead, SweepAt
  <2> QED BY <1>2, <2>1 DEF SweptAs, Kinds, Swept
<1>5. ASSUME SweepRaises(b) PROVE Raises
  BY <1>5 DEF SweepRaises, Raises
<1>6. ASSUME SweepTail(b) PROVE Swept(b)
  <2>1. /\ kind[b] = "TAIL"
        /\ \/ /\ free_tail = TRUE /\ kind' = [kind EXCEPT ![b] = "FREE"]
              /\ word' = [word EXCEPT ![b] = None]
           \/ free_tail = FALSE /\ UNCHANGED <<kind, word>>
        /\ block' = b + 1 /\ UNCHANGED <<ftb, free_tail, fault>>
    BY <1>2, <1>6 DEF SweepTail, SweepAt
  <2>2. SweptAs(b) /\ kind' \in [Blocks -> Kinds]
        /\ \A c \in Blocks \ {b} : kind'[c] = kind[c]
    BY <1>2, <2>1 DEF SweptAs, Kinds
  <2>3. word' = IF kind'[b] = "FREE" THEN [word EXCEPT ![b] = None] ELSE word
    BY <1>2, <2>1
  <2>4. ftb \ {b} = ftb
    BY <1>2, <2>1 DEF Heads
  <2> QED BY <2>1, <2>2, <2>3, <2>4 DEF Swept
<1>7. Swept(b) \/ Raises
  BY <1>3, <1>4, <1>5, <1>6
<1>8. /\ kind[b] # "FREE" /\ b >= block
      /\ \A c \in Blocks : c >= block /\ c < b => kind[c] = "FREE"
  <2>1. UsedLeft \in SUBSET Nat
    BY <1>2 DEF UsedLeft
  <2>2. \A c \in UsedLeft : b <= c
    BY <1>1, <2>1, FirstOfLeast
  <2> QED BY <1>1, <1>2, <2>2 DEF UsedLeft
<1> HIDE DEF Sweeps
<1> QED BY <1>1, <1>7, <1>8

LEMMA SweptBlock ==
    ASSUME GInv, NEW b \in Blocks, Sweeps(b), Swept(b)
    PROVE  GInv' /\ Live' = Live
<1>0. /\ phase = "sweep"
      /\ kind' \in [Blocks -> Kinds] /\ \A c \in Blocks \ {b} : kind'[c] = kind[c]
      /\ SweptAs(b) /\ block' = b + 1
      /\ word' = IF kind'[b] = "FREE" THEN [word EXCEPT ![b] = None] ELSE word
      /\ ftb' = IF kind'[b] = "FREE" THEN ftb \ {b} ELSE ftb
      /\ UNCHANGED <<roots, hint, lock, phase, root, stack, overflow, chain, request, fault>>
  BY SweepFacts DEF Swept
<1> USE <1>0
<1>1. Blocks = 0 .. NBlocks - 1 /\ NBlocks \in Nat /\ block \in Nat /\ kind \in [Blocks -> Kinds]
  BY BlockNumbers DEF GInv, GTypes
<1>2. /\ kind[b] # "FREE" /\ b >= block
      /\ \A c \in Blocks : c >= block /\ c < b => kind[c] = "FREE"
  BY SweepFacts
<1>3. free_tail \in BOOLEAN /\ free_tail' \in BOOLEAN
  BY DEF GInv, GTypes, SweptAs
<1>4. GTypes'
  <2>1. word' \in [Blocks -> Blocks \cup {None}] /\ block' \in Nat
    BY <1>1 DEF GInv, GTypes
  <2> QED BY <1>3, <2>1 DEF GInv, GTypes
<1>5. ASSUME NEW c \in Blocks, kind'[c] = "TAIL"
      PROVE  c > 0 /\ (kind'[c - 1] # "FREE" \/ (free_tail' /\ block' = c))
  <2>1. kind[c] = "TAIL"
    BY <1>5 DEF SweptAs
  <2>2. c > 0 /\ c - 1 \in Blocks /\ (kind[c - 1] # "FREE" \/ (free_tail /\ block = c))
    BY <1>1, <2>1 DEF GInv, Tables, TailsFollow
  <2>3. CASE c = b
    <3>1. free_tail = FALSE
      BY <1>5, <2>3 DEF SweptAs
    <3>2. c - 1 # b
      BY <1>1, <2>3
    <3> QED BY <2>2, <3>1, <3>2
  <2>4. CASE c # b /\ block = c
    BY <1>1, <1>2, <2>1, <2>4
  <2>5. CASE c # b /\ block # c /\ c - 1 = b
    <3>1. block' = c
      BY <1>1, <2>5
    <3> QED BY <2>2, <2>5, <3>1 DEF SweptAs
  <2>6. CASE c # b /\ block # c /\ c - 1 # b
    BY <2>2, <2>6
  <2> QED BY <2>3, <2>4, <2>5, <2>6
<1>6. FreeTailInSweep'
  <2>1. block' - 1 = b
    BY <1>1
  <2> QED BY <2>1 DEF FreeTailInSweep, SweptAs
<1>7. FreeIsClear'
  <2>1. \A c \in Blocks : kind'[c] = "FREE" => word'[c] = None
    BY <1>1, <1>2 DEF GInv, GTypes, Tables, FreeIsClear
  <2> QED BY <2>1 DEF FreeIsClear
<1>8. MarksInCollection'
  <2>1. ASSUME NEW c \in Blocks, c < block' PROVE kind'[c] # "MARK"
    <3>1. CASE c = b
      BY <3>1 DEF SweptAs
    <3>2. CASE c # b
      <4>1. kind'[c] = kind[c] /\ (c < block \/ (c >= block /\ c < b))
        BY <1>1, <2>1, <3>2
      <4> QED BY <1>2, <4>1 DEF GInv, Tables, MarksInCollection
    <3> QED BY <3>1, <3>2
  <2> QED BY <2>1 DEF MarksInCollection
<1>9. ftb' \subseteq Heads'
  <2>1. \A c \in ftb : c \in Blocks /\ kind[c] \in {"HEAD", "MARK"}
    BY DEF GInv, Tables, Heads
  <2>2. \A c \in ftb' : c \in Blocks /\ kind'[c] \in {"HEAD", "MARK"}
    BY <2>1 DEF SweptAs
  <2> QED BY <2>2 DEF Heads
<1>10. Live' = Live
  <2>1. ASSUME NEW c \in Blocks
        PROVE  (kind'[c] = "MARK" \/ (kind'[c] = "HEAD" /\ c < block'))
                 <=> (kind[c] = "MARK" \/ (kind[c] = "HEAD" /\ c < block))
    <3>1. CASE c = b
      BY <1>1, <1>2, <3>1 DEF SweptAs
    <3>2. CASE c # b
      <4>1. kind'[c] = kind[c] /\ (c < block' <=> c < block \/ (c >= block /\ c < b))
        BY <1>1, <1>2, <3>2
      <4> QED BY <1>2, <4>1
    <3> QED BY <3>1, <3>2
  <2> QED BY <2>1 DEF Live
<1>11. \A h \in Blocks : OwnBlocks(h)' \subseteq OwnBlocks(h)
  <2>1. \A c \in Blocks : kind'[c] = "TAIL" => kind[c] = "TAIL"
    BY DEF SweptAs
  <2> QED BY <1>1, <2>1 DEF OwnBlocks
<1>12. PointersLive'
  <2>1. /\ \A r \in Roots : roots'[r] \in Live' \cup {None}
    BY <1>10 DEF GInv, PointersLive
  <2>2. ASSUME NEW h \in Live', NEW c \in OwnBlocks(h)' PROVE word'[c] \in Live' \cup {None}
    <3>1. h \in Live /\ h \in Blocks
      BY <1>10 DEF Live
    <3>2. c \in OwnBlocks(h) /\ c \in Blocks
      BY <1>11, <3>1, OwnFacts
    <3>3. word[c] \in Live \cup {None}
      BY <3>1, <3>2 DEF GInv, PointersLive
    <3>4. word'[c] \in {word[c], None}
      BY <3>2 DEF GInv, GTypes
    <3> QED BY <1>10, <3>3, <3>4
  <2> QED BY <2>1, <2>2 DEF PointersLive
<1>13. HintInv' /\ Traced'
  BY DEF HintInv, Traced
<1>14. MoverOwns'
  <2>1. \A c \in Blocks : word'[c] \in {word[c], None}
    BY DEF GInv, GTypes
  <2> QED BY <2>1 DEF GInv, MoverOwns, Owned
<1>15. Tables'
  BY <1>5, <1>6, <1>7, <1>8, <1>9 DEF Tables, TailsFollow
<1> QED BY <1>4, <1>10, <1>12, <1>13, <1>14, <1>15 DEF GInv

LEMMA SweepStep ==
    ASSUME GInv, NEW b \in Blocks, Sweeps(b)
    PROVE  GInv' /\ Live' = Live
<1>1. /\ phase = "sweep"
      /\ Swept(b) \/ Raises
      /\ UNCHANGED <<roots, hint, lock, phase, root, stack, overflow, chain, request>>
  BY SweepFacts
<1>2. CASE Raises
  <2>1. UNCHANGED <<kind, word, ftb, free_tail, block>> /\ fault' = "finaliser"
    BY <1>2 DEF Raises
  <2>2. GTypes'
    BY <1>1, <2>1 DEF GInv, GTypes
  <2>3. Tables'
    BY <1>1, <2>1
    DEF GInv, Tables, TailsFollow, FreeTailInSweep, FreeIsClear, MarksInCollection, Heads
  <2>4. HintInv' /\ Traced' /\ MoverOwns'
    BY <1>1, <2>1 DEF GInv, HintInv, Traced, MoverOwns, Owned
  <2>5. PointersLive' /\ Live' = Live
    BY <1>1, <2>1 DEF GInv, PointersLive, Live, Heads, OwnBlocks
  <2> QED BY <2>2, <2>3, <2>4, <2>5 DEF GInv
<1> QED BY <1>1, <1>2, SweptBlock

(* A step of the sweep that leaves the head of an object leaves all of it: *)
(* a tail that is freed belongs to no object.                              *)
LEMMA HeadKept ==
    ASSUME GInv, NEW b \in Blocks, Sweeps(b), NEW h \in Heads, h \in Heads'
    PROVE  /\ OwnBlocks(h)' = OwnBlocks(h)
           /\ \A c \in OwnBlocks(h) : word'[c] = word[c]
<1>1. /\ phase = "sweep" /\ b >= block /\ kind[b] # "FREE"
      /\ \A c \in Blocks : c >= block /\ c < b => kind[c] = "FREE"
      /\ Swept(b) \/ Raises
  BY SweepFacts
<1>2. h \in Blocks
  BY DEF Heads
<1>3. Blocks = 0 .. NBlocks - 1 /\ NBlocks \in Nat /\ block \in Nat
      /\ word \in [Blocks -> Blocks \cup {None}]
  BY BlockNumbers DEF GInv, GTypes
<1>4. CASE Raises
  BY <1>4 DEF Raises, OwnBlocks
<1>5. CASE Swept(b)
  <2>1. /\ \A c \in Blocks \ {b} : kind'[c] = kind[c]
        /\ SweptAs(b)
        /\ word' = IF kind'[b] = "FREE" THEN [word EXCEPT ![b] = None] ELSE word
    BY <1>5 DEF Swept
  <2>3. ASSUME b \in OwnBlocks(h), kind'[b] = "FREE" PROVE FALSE
    <3>1. b # h
      BY <2>3 DEF Heads
    <3>2. kind[b] = "TAIL" /\ b - 1 \in OwnBlocks(h) /\ h <= b
      BY <1>2, <2>3, <3>1, OwnFacts
    <3>3. b - 1 \in Blocks /\ kind[b - 1] # "FREE"
      <4>1. b - 1 = h \/ kind[b - 1] = "TAIL"
        BY <1>2, <3>2, OwnFacts
      <4>2. b - 1 \in Blocks
        BY <1>2, <3>2, OwnFacts
      <4> QED BY <1>2, <4>1, <4>2 DEF Heads
    <3>4. b = block
      BY <1>1, <1>3, <3>3
    <3>5. free_tail
      BY <2>1, <2>3, <3>2 DEF SweptAs
    <3> QED BY <3>3, <3>4, <3>5 DEF GInv, Tables, FreeTailInSweep
  <2>4. OwnBlocks(h)' = OwnBlocks(h)
    <3>1. \A c \in Blocks : kind'[c] = "TAIL" => kind[c] = "TAIL"
      BY <2>1 DEF SweptAs
    <3>2. OwnBlocks(h)' \subseteq OwnBlocks(h)
      BY <1>2, <1>3, <3>1 DEF OwnBlocks
    <3>3. ASSUME NEW c \in OwnBlocks(h) PROVE c \in OwnBlocks(h)'
      <4>1. c \in h .. NBlocks - 1 /\ \A d \in h + 1 .. c : kind[d] = "TAIL"
        BY DEF OwnBlocks
      <4>2. ASSUME NEW d \in h + 1 .. c PROVE kind'[d] = "TAIL"
        <5>1. d \in Blocks /\ kind[d] = "TAIL"
          BY <1>2, <1>3, <4>1
        <5>2. d \in OwnBlocks(h)
          BY <1>2, <1>3, <4>1 DEF OwnBlocks
        <5>3. CASE d # b
          BY <2>1, <5>1, <5>3
        <5>4. CASE d = b
          BY <2>1, <2>3, <5>1, <5>2, <5>4 DEF SweptAs
        <5> QED BY <5>3, <5>4
      <4> QED BY <4>1, <4>2 DEF OwnBlocks
    <3> QED BY <3>2, <3>3
  <2>5. \A c \in OwnBlocks(h) : word'[c] = word[c]
    BY <1>3, <2>1, <2>3
  <2> QED BY <2>4, <2>5
<1> QED BY <1>1, <1>4, <1>5

(* A step of the sweep leaves what survives as it is.                      *)
LEMMA LiveKept ==
    ASSUME GInv, NEW b \in Blocks, Sweeps(b), NEW h \in Live
    PROVE  /\ h \in Heads /\ h \in Heads' /\ OwnBlocks(h)' = OwnBlocks(h)
           /\ \A c \in OwnBlocks(h) : word'[c] = word[c]
<1>1. h \in Heads
  BY DEF Live, Heads
<1>2. h \in Heads'
  <2>1. Live' = Live
    BY SweepStep
  <2> QED BY <2>1 DEF Live, Heads
<1> QED BY <1>1, <1>2, HeadKept

(* When the sweep is over, what is left is what was live, and every word   *)
(* that is left belongs to a live object.                                  *)
LEMMA CollectEndStep ==
    ASSUME GInv, CollectEnd
    PROVE  GInv'
<1>1. /\ phase = "sweep" /\ UsedLeft = {} /\ hint' = 0 /\ lock' = lock - 1
      /\ phase' = IF request = None THEN "idle" ELSE "alloc"
      /\ root' = 1 /\ block' = 0 /\ free_tail' = FALSE
      /\ UNCHANGED <<kind, ftb, word, roots, stack, overflow, chain, request, fault>>
  BY DEF CollectEnd, heap
<1>2. \A b \in Blocks : b >= block => kind[b] = "FREE"
  BY <1>1 DEF UsedLeft
<1>3. Blocks = 0 .. NBlocks - 1 /\ NBlocks \in Nat /\ block \in Nat /\ kind \in [Blocks -> Kinds]
  BY BlockNumbers DEF GInv, GTypes
<1>4. \A b \in Blocks : kind[b] # "MARK"
  BY <1>1, <1>2, <1>3 DEF GInv, Tables, MarksInCollection
<1>5. Live = Heads
  BY <1>1, <1>2, <1>3, <1>4 DEF Live, Heads
<1>6. \A b \in Blocks : kind[b] = "TAIL" => b > 0 /\ kind[b - 1] # "FREE"
  BY <1>2, <1>3 DEF GInv, Tables, TailsFollow
<1>7. ASSUME NEW b \in Blocks PROVE word[b] \in Heads \cup {None}
  <2>1. CASE kind[b] = "FREE"
    BY <2>1 DEF GInv, Tables, FreeIsClear
  <2>2. CASE kind[b] # "FREE"
    <3>1. PICK h \in Heads : b \in OwnBlocks(h)
      BY <1>3, <1>6, <2>2, OwnerExists
    <3> QED BY <1>5, <3>1 DEF GInv, PointersLive
  <2> QED BY <2>1, <2>2
<1>8. Heads' = Heads /\ Live' = Heads
  BY <1>1 DEF Heads, Live
<1>9. \A b \in Blocks : OwnBlocks(b)' = OwnBlocks(b)
  BY <1>1, OwnBlocksKept
<1>10. PointersLive'
  <2>1. \A r \in Roots : roots'[r] \in Live' \cup {None}
    BY <1>1, <1>5, <1>8 DEF GInv, PointersLive
  <2>2. \A h \in Live' : \A b \in OwnBlocks(h)' : word'[b] \in Live' \cup {None}
    <3>1. Heads \subseteq Blocks
      BY DEF Heads
    <3> QED BY <1>1, <1>7, <1>8, <1>9, <3>1, OwnFacts
  <2> QED BY <1>1, <1>7, <1>8, <2>1, <2>2 DEF PointersLive
<1>11. GTypes'
  <2>1. lock' = 0 /\ phase' \in Phases /\ phase' \in {"idle", "alloc"}
    BY <1>1 DEF GInv, GTypes, Phases
  <2>2. hint' \in 0 .. gc_alloc_table_byte_len /\ root' \in Nat \ {0} /\ block' \in Nat
    BY <1>1, BlockNumbers
  <2> QED BY <1>1, <2>1, <2>2 DEF GInv, GTypes
<1>12. Tables'
  BY <1>1, <1>4, <1>6, <1>8
  DEF GInv, Tables, TailsFollow, FreeTailInSweep, FreeIsClear, MarksInCollection
<1>13. HintInv'
  <2>1. 0 * BLOCKS_PER_ATB = 0
    BY BlockNumbers
  <2> QED BY <1>1, <1>3, <2>1 DEF HintInv, NoneFreeBefore
<1>14. Traced' /\ MoverOwns'
  BY <1>1 DEF GInv, Traced, MoverOwns, Owned
<1> QED BY <1>10, <1>11, <1>12, <1>13, <1>14 DEF GInv

-----------------------------------------------------------------------------
LEMMA GInvInit == Init => GInv
<1> SUFFICES ASSUME Init PROVE GInv
  OBVIOUS
<1> USE DEF Init
<1>1. Heads = {} /\ Live = {}
  BY DEF Heads, Live
<1>2. stack \in Seq(Blocks) /\ Len(stack) = 0
  OBVIOUS
<1>3. MICROPY_ALLOC_GC_STACK_SIZE \in Nat
  BY GcAssumption DEF GcAssumption, Positive
<1>4. GTypes
  <2>1. hint \in 0 .. gc_alloc_table_byte_len /\ root \in Nat \ {0}
    BY BlockNumbers
  <2>2. Len(stack) <= MICROPY_ALLOC_GC_STACK_SIZE
    BY <1>2, <1>3
  <2>3. kind \in [Blocks -> Kinds] /\ phase \in Phases
    BY DEF Kinds, Phases
  <2>4. word \in [Blocks -> Blocks \cup {None}] /\ roots \in [Roots -> Blocks \cup {None}]
    OBVIOUS
  <2>5. lock = IF phase \in {"idle", "alloc"} THEN 0 ELSE 1
    OBVIOUS
  <2>6. /\ block \in Nat /\ overflow \in BOOLEAN /\ free_tail \in BOOLEAN /\ chain \subseteq Nat
        /\ request = None /\ phase = "idle" /\ fault = "none"
    OBVIOUS
  <2> HIDE DEF Init
  <2> QED BY <1>2, <2>1, <2>2, <2>3, <2>4, <2>5, <2>6 DEF GTypes
<1>5. Tables
  BY <1>1 DEF Tables, TailsFollow, FreeTailInSweep, FreeIsClear, MarksInCollection
<1>6. NoneFreeBefore(0)
  BY BlockNumbers DEF NoneFreeBefore
<1>7. PointersLive
  BY <1>1 DEF PointersLive
<1> QED BY <1>4, <1>5, <1>6, <1>7 DEF GInv, HintInv, Traced, MoverOwns

LEMMA GInvStep == GInv /\ [Next]_vars => GInv'
<1> SUFFICES ASSUME GInv, [Next]_vars PROVE GInv'
  OBVIOUS
<1>1. ASSUME NEW n \in 1 .. MaxBlocks, GcAlloc(n) PROVE GInv'
  <2> DEFINE q == [n |-> n, n_free |-> 0, mover |-> None]
  <2>1. q \in Request /\ q.n_free = 0 /\ q.mover = None /\ StartAlloc(q)
    BY <1>1 DEF GcAlloc, Request
  <2> HIDE DEF q
  <2> QED BY <2>1, StartAllocStep
<1>2. ASSUME NEW n \in 1 .. MaxBlocks, NEW r \in Roots, MoveObject(r, n) PROVE GInv'
  <2> DEFINE q == [n |-> n, n_free |-> 0, mover |-> r]
  <2>1. q \in Request /\ q.n_free = 0 /\ q.mover = r /\ StartAlloc(q) /\ Owned(r)
    BY <1>2 DEF MoveObject, Request
  <2> HIDE DEF q
  <2> QED BY <2>1, StartAllocStep
<1>3. ASSUME NEW r \in Roots, Drop(r) PROVE GInv'
  BY <1>3, FirstBlock, UseStep
<1>4. CASE GcCollect
  <2>1. phase = "idle" /\ CollectStart(None)
    BY <1>4 DEF GcCollect, Idle
  <2> QED BY <2>1, CollectStartStep
<1>5. CASE Program
  <2>1. ASSUME NEW r \in Roots, GcFree(r) PROVE GInv'
    BY <2>1, GcFreeStep
  <2>2. ASSUME NEW r \in Roots, NEW n \in 1 .. MaxBlocks, Shrink(r, n) \/ Expand(r, n)
        PROVE  GInv'
    BY <2>2, ShrinkStep, ExpandStep
  <2>3. ASSUME NEW r \in Roots, NEW s \in Roots, NEW b \in Blocks, Load(r, s, b) \/ Store(r, s, b)
        PROVE  GInv'
    BY <2>3, UseStep
  <2> QED BY <1>1, <1>2, <1>3, <1>4, <1>5, <2>1, <2>2, <2>3 DEF Program
<1>6. CASE Collector
  BY <1>6, TraceRootStep, PopStep, ScanWordStep, RescanStartStep, RescanBlockStep,
     SweepStartStep, SweepStep, CollectEndStep, AllocAgainStep DEF Collector, Sweeps
<1>7. CASE UNCHANGED vars
  <2>1. UNCHANGED <<kind, ftb, word, roots, hint, lock, phase, root, stack, overflow, chain,
                    block, free_tail, request, fault>>
    BY <1>7 DEF vars, heap, gc
  <2>2. GTypes'
    BY <2>1 DEF GInv, GTypes
  <2>3. Tables' /\ HintInv' /\ MoverOwns'
    BY <2>1
    DEF GInv, Tables, TailsFollow, FreeTailInSweep, FreeIsClear, MarksInCollection, Heads,
        HintInv, NoneFreeBefore, MoverOwns, Owned
  <2>4. PointersLive'
    BY <2>1 DEF GInv, PointersLive, Live, Heads, OwnBlocks
  <2>5. Traced'
    BY <2>1 DEF GInv, Traced, Unmarked, OwnBlocks
  <2> QED BY <2>2, <2>3, <2>4, <2>5 DEF GInv
<1> QED BY <1>5, <1>6, <1>7 DEF Next

LEMMA GInvCorrect == Spec => []GInv
BY GInvInit, GInvStep, PTL DEF Spec

(* The tables stay well formed whatever is allocated, reallocated, freed   *)
(* and collected, also while a collection is half way (gc.c).              *)
THEOREM GcTypeCorrect == Spec => []GcTypeOK
<1>1. GInv => GcTypeOK
  <2> SUFFICES ASSUME GInv PROVE GcTypeOK
    OBVIOUS
  <2>1. /\ kind \in [Blocks -> {"FREE", "HEAD", "TAIL", "MARK"}]
        /\ word \in [Blocks -> Blocks \cup {None}]
        /\ roots \in [Roots -> Blocks \cup {None}]
        /\ hint \in 0 .. gc_alloc_table_byte_len
        /\ lock \in {0, 1}
        /\ phase \in {"idle", "roots", "rescan", "sweep", "alloc"}
        /\ Len(stack) <= MICROPY_ALLOC_GC_STACK_SIZE
        /\ fault \in {"none", "before_pool", "finaliser"}
    BY DEF GInv, GTypes, Kinds, Phases
  <2>2. \A b \in Blocks : kind[b] = "TAIL" =>
            b > 0 /\ (kind[b - 1] # "FREE" \/ (free_tail /\ block <= b))
    BY BlockNumbers DEF GInv, Tables, TailsFollow
  <2> QED BY <2>1, <2>2
      DEF GcTypeOK, GInv, Tables, MarksInCollection, FreeIsClear
<1> QED BY <1>1, GInvCorrect, PTL

(* gc_alloc may begin its search at the hint: every block before it is     *)
(* used, after every path that moves the hint or frees a block.            *)
THEOREM HintCorrect == Spec => []HintSound
<1>1. GInv => HintSound
  BY DEF GInv, HintInv, NoneFreeBefore, HintSound, Idle
<1> QED BY <1>1, GInvCorrect, PTL

(* Whatever can be reached is live.                                        *)
Step(R) == R \cup UNION {PointsTo(b) : b \in R \cap Heads}
RootSet == {roots[r] : r \in Roots} \ {None}

IsReach(f) ==
    f = [i \in Nat |-> IF i = 0 THEN {roots[r] : r \in Roots} \ {None}
                       ELSE LET R == f[i - 1] IN
                            R \cup UNION {PointsTo(b) : b \in R \cap Heads}]

LEMMA ReachExists ==
    ASSUME GInv
    PROVE  \E f : IsReach(f)
<1> DEFINE S == SUBSET Blocks
           G == [R \in S |-> Step(R)]
<1>1. RootSet \in S
  BY DEF RootSet, GInv, GTypes
<1>2. \A b \in Blocks : PointsTo(b) \subseteq Blocks
  <2>1. \A b \in Blocks : \A c \in OwnBlocks(b) : word[c] \in Blocks \cup {None}
    BY OwnFacts DEF GInv, GTypes
  <2> QED BY <2>1 DEF PointsTo
<1>3. \A R \in S : Step(R) \in S
  BY <1>2 DEF Step
<1>4. G \in [S -> S]
  BY <1>3
<1> HIDE DEF S
<1>5. \A R \in S : G[R] = Step(R)
  OBVIOUS
<1> HIDE DEF G
<1>6. PICK f \in [Nat -> S] : f[0] = RootSet /\ \A i \in Nat : f[i + 1] = G[f[i]]
  BY <1>1, <1>4, RecursionExists
<1>7. ASSUME NEW i \in Nat, i # 0 PROVE f[i] = Step(f[i - 1])
  <2>1. i - 1 \in Nat /\ (i - 1) + 1 = i
    BY <1>7
  <2>2. f[i] = G[f[i - 1]] /\ f[i - 1] \in S
    BY <1>6, <2>1
  <2> QED BY <1>5, <2>2
<1>8. IsReach(f)
  BY <1>6, <1>7 DEF IsReach, Step, RootSet
<1> QED BY <1>8

LEMMA ReachUnfolds ==
    ASSUME GInv
    PROVE  /\ ReachableIn[0] = RootSet
           /\ \A i \in Nat : ReachableIn[i + 1] = Step(ReachableIn[i])
<1> DEFINE f == CHOOSE g : IsReach(g)
<1>1. IsReach(f)
  BY ReachExists
<1>2. ReachableIn = f
  BY Zenon DEF ReachableIn, IsReach
<1> HIDE DEF f
<1>3. f[0] = RootSet
  BY <1>1 DEF IsReach, RootSet
<1>4. ASSUME NEW i \in Nat PROVE f[i + 1] = Step(f[i])
  <2>1. i + 1 \in Nat /\ i + 1 # 0 /\ (i + 1) - 1 = i
    OBVIOUS
  <2> QED BY <1>1, <2>1 DEF IsReach, Step
<1> QED BY <1>2, <1>3, <1>4

LEMMA ReachableIsLive ==
    ASSUME GInv
    PROVE  \A i \in Nat : ReachableIn[i] \subseteq Live
<1> DEFINE T == {i \in Nat : ReachableIn[i] \subseteq Live}
<1>1. RootSet \subseteq Live
  BY DEF RootSet, GInv, PointersLive
<1>2. \A R : R \subseteq Live => Step(R) \subseteq Live
  BY DEF Step, PointsTo, GInv, PointersLive
<1>3. 0 \in T
  BY <1>1, ReachUnfolds
<1>4. \A i \in Nat : i \in T => i + 1 \in T
  BY <1>2, ReachUnfolds
<1> HIDE DEF T
<1>5. Nat \subseteq T
  BY <1>3, <1>4, SetInduction
<1> QED BY <1>5 DEF T

(* No object that the program can reach is free, at any moment: in the     *)
(* middle of the marking, with the stack overflown, between two steps of   *)
(* the sweep, while an object moves (gc.c:197-329, 736-761).               *)
THEOREM ReachableCorrect == Spec => []ReachableKept
<1>1. GInv => ReachableKept
  <2> SUFFICES ASSUME GInv PROVE Reachable \subseteq Heads
    BY DEF ReachableKept
  <2>1. Reachable \subseteq Live
    BY ReachableIsLive, BlockNumbers DEF Reachable
  <2>2. Live \subseteq Heads
    BY DEF Live, Heads
  <2> QED BY <2>1, <2>2
<1> QED BY <1>1, GInvCorrect, PTL

-----------------------------------------------------------------------------
(* The finaliser bits.                                                     *)
BitsKept ==
    \A b \in ftb \ ftb' :
       \/ /\ kind'[b] = "FREE"
          /\ \A r \in Roots : roots[r] = b => roots'[r] \in ftb' \cup {None}
       \/ \E h \in Heads : NBlocks - 1 \in OwnBlocks(h) /\ kind'[h] = "FREE"

(* Only the chain of the object at the end of the pool leaves the table.   *)
LEMMA BitsCleared ==
    ASSUME NEW b \in Blocks, NEW bits, NEW x \in PastBits(ChainOf(b, bits))
    PROVE  NBlocks - 1 \in OwnBlocks(b)
<1>1. PICK c \in ChainOf(b, bits) : c \notin Blocks
  BY DEF PastBits
<1>2. NBlocks \in Nat /\ Blocks = 0 .. NBlocks - 1
  BY BlockNumbers
<1>3. c \in b .. NBlocks + NBlocks /\ \A d \in b + 1 .. c : d \in Blocks => kind[d] = "TAIL"
  BY DEF ChainOf
<1> QED BY <1>1, <1>2, <1>3 DEF OwnBlocks

LEMMA GcFreeBits ==
    ASSUME GInv, NEW r \in Roots, GcFree(r)
    PROVE  BitsKept
<1> DEFINE b == roots[r]
           bits == ftb \ {b}
<1>1. /\ phase = "idle" /\ Owned(r)
      /\ ftb' = bits \ PastBits(ChainOf(b, bits))
      /\ kind' = [c \in Blocks |-> IF c \in ChainOf(b, bits) THEN "FREE" ELSE kind[c]]
      /\ roots' = [roots EXCEPT ![r] = None]
      /\ roots \in [Roots -> Blocks \cup {None}]
  BY DEF GcFree, Idle, GInv, GTypes
<1>2. b \in Heads /\ b \in Blocks /\ b \in ChainOf(b, bits)
  <2>1. HeapOK
    BY <1>1, QuietHeap
  <2> HIDE DEF bits
  <2> QED BY <1>1, <2>1, OwnedChain DEF Chained
<1>3. kind'[b] = "FREE"
  BY <1>1, <1>2
<1>4. \A s \in Roots : roots[s] = b => roots'[s] = None
  BY <1>1 DEF Owned
<1>5. ASSUME NEW x \in ftb \ ftb', x # b PROVE NBlocks - 1 \in OwnBlocks(b)
  <2>1. x \in PastBits(ChainOf(b, bits))
    BY <1>1, <1>5
  <2> HIDE DEF bits, b
  <2> QED BY <1>2, <2>1, BitsCleared
<1> HIDE DEF bits, b
<1> QED BY <1>2, <1>3, <1>4, <1>5 DEF BitsKept

LEMMA PlaceBits ==
    ASSUME HeapOK, NEW r \in Roots, NEW fin \in BOOLEAN, NEW from,
           from = None \/ (from = roots[r] /\ Owned(r) /\ fin = FtbState(from)),
           NEW end \in Blocks, NEW n_free \in Nat, n_free > 0,
           \A c \in Nat : c > end - n_free /\ c <= end => kind[c] = "FREE",
           Place(r, fin, from, end, n_free)
    PROVE  BitsKept
<1> DEFINE start == end - n_free + 1
           bits  == (IF fin THEN ftb \cup {start} ELSE ftb) \ {from}
           chn   == ChainOf(from, bits)
<1>1. NBlocks \in Nat /\ Blocks = 0 .. NBlocks - 1 /\ end \in Nat /\ None \notin Int
      /\ ftb \subseteq Blocks
  BY BlockNumbers DEF HeapOK, Heads
<1>2. CASE from = None
  <2>1. ftb' = bits \ PastBits({})
    BY <1>2 DEF Place
  <2>2. PastBits({}) = {} /\ None \notin ftb
    <3>1. \A x \in PastBits({}) : FALSE
      BY DEF PastBits
    <3>2. ftb \subseteq Int
      BY <1>1
    <3> QED BY <1>1, <3>1, <3>2
  <2>3. ftb \subseteq ftb'
    BY <1>2, <2>1, <2>2
  <2> QED BY <2>3 DEF BitsKept
<1>3. CASE from # None
  <2>1. /\ start >= 0
        /\ kind' = [b \in Blocks |-> IF b = start THEN "HEAD"
                                     ELSE IF b \in start .. end THEN "TAIL"
                                     ELSE IF b \in chn THEN "FREE" ELSE kind[b]]
        /\ ftb' = bits \ PastBits(chn)
        /\ roots' = [roots EXCEPT ![r] = start]
        /\ from = roots[r] /\ Owned(r) /\ fin = (from \in ftb)
        /\ roots \in [Roots -> Blocks \cup {None}]
    BY <1>3 DEF Place, FtbState, HeapOK
  <2>2. from \in Heads /\ from \in Blocks /\ from \in chn
    <3>1. roots[r] \in Heads /\ roots[r] \in Blocks /\ roots[r] \in Chained(roots[r], bits)
      <4> HIDE DEF bits
      <4> QED BY <2>1, OwnedChain
    <3> QED BY <2>1, <3>1 DEF Chained
  <2>3. kind[from] # "FREE" /\ from \notin start .. end
    BY <1>1, <2>1, <2>2 DEF Heads
  <2>4. kind'[from] = "FREE" /\ start # from /\ start \in start .. end
    BY <1>1, <2>1, <2>2, <2>3
  <2>5. \A s \in Roots : roots[s] = from => roots'[s] = start
    BY <2>1 DEF Owned
  <2>6. CASE PastBits(chn) = {}
    <3>1. ftb' = bits
      BY <2>1, <2>6
    <3>2. \A x \in ftb \ ftb' : x = from /\ start \in ftb'
      BY <2>1, <2>4, <3>1
    <3> HIDE DEF start, bits, chn
    <3> QED BY <2>4, <2>5, <3>2 DEF BitsKept
  <2>7. CASE PastBits(chn) # {}
    <3>1. NBlocks - 1 \in OwnBlocks(from)
      <4>1. PICK x : x \in PastBits(chn)
        BY <2>7
      <4> HIDE DEF bits
      <4> QED BY <2>2, <4>1, BitsCleared
    <3> QED BY <2>2, <2>4, <3>1 DEF BitsKept
  <2> QED BY <2>6, <2>7
<1> QED BY <1>2, <1>3

(* What gc_alloc has found when it takes a run.                            *)
Placed(r, fin, from, end, n_free) ==
    /\ from = None \/ (from = roots[r] /\ Owned(r) /\ fin = FtbState(from))
    /\ n_free > 0
    /\ \A c \in Nat : c > end - n_free /\ c <= end => kind[c] = "FREE"
    /\ Place(r, fin, from, end, n_free)

LEMMA ServeFinds ==
    ASSUME GInv, phase \in {"idle", "alloc"}, NEW q \in Request,
           q.n_free = 0 \/ hint = 0, q.mover # None => Owned(q.mover), Serve(q)
    PROVE  \/ UNCHANGED heap
           \/ \E r \in Roots, fin \in BOOLEAN, end \in Blocks, n_free \in Nat :
                 \E from : Placed(r, fin, from, end, n_free)
<1> DEFINE first == hint * BLOCKS_PER_ATB
           Run(end) == RunAt(first, q.n_free, end)
<1>1. HeapOK /\ hint \in 0 .. gc_alloc_table_byte_len
  BY QuietHeap DEF GInv, GTypes
<1>2. first \in Nat /\ (hint = 0 => first = 0)
  <2>1. hint \in Nat /\ BLOCKS_PER_ATB \in Nat
    BY <1>1, BlockNumbers
  <2>2. Edge(hint) \in Nat
    BY <2>1, EdgeGrows
  <2> QED BY <2>1, <2>2 DEF Edge
<1>3. /\ q.n \in Nat /\ q.n > 0 /\ q.n_free \in Nat /\ q.mover \in Roots \cup {None}
      /\ q.n_free = 0 \/ first = 0
  BY <1>2, BlockNumbers DEF Request
<1>4. PICK end \in Found(first, q.n_free, q.n) :
         \/ Misplace(end, Run(end))
         \/ /\ q.mover # None
            /\ Place(q.mover, FtbState(roots[q.mover]), roots[q.mover], end, Run(end))
         \/ \E r \in Roots, fin \in BOOLEAN : Place(r, fin, None, end, Run(end))
  BY DEF Serve
<1>5. /\ end \in Blocks /\ Run(end) \in Nat /\ q.n <= Run(end)
      /\ \A c \in Nat : c > end - Run(end) /\ c <= end => kind[c] = "FREE"
  BY <1>2, <1>3, <1>4, FoundFacts
<1>6. Run(end) > 0
  BY <1>3, <1>5
<1> HIDE DEF first, Run
<1>7. CASE Misplace(end, Run(end))
  BY <1>7 DEF Misplace
<1>8. CASE /\ q.mover # None
           /\ Place(q.mover, FtbState(roots[q.mover]), roots[q.mover], end, Run(end))
  <2>1. q.mover \in Roots /\ FtbState(roots[q.mover]) \in BOOLEAN /\ Owned(q.mover)
    BY <1>3, <1>8 DEF FtbState
  <2>2. Placed(q.mover, FtbState(roots[q.mover]), roots[q.mover], end, Run(end))
    BY <1>5, <1>6, <1>8, <2>1 DEF Placed
  <2> QED BY <1>5, <2>1, <2>2
<1>9. ASSUME NEW r \in Roots, NEW fin \in BOOLEAN, Place(r, fin, None, end, Run(end))
      PROVE  Placed(r, fin, None, end, Run(end))
  BY <1>5, <1>6, <1>9 DEF Placed
<1> QED BY <1>4, <1>5, <1>7, <1>8, <1>9

LEMMA ServeBits ==
    ASSUME GInv, phase \in {"idle", "alloc"}, NEW q \in Request,
           q.n_free = 0 \/ hint = 0, q.mover # None => Owned(q.mover), Serve(q)
    PROVE  BitsKept
<1>1. HeapOK
  BY QuietHeap
<1>2. CASE UNCHANGED heap
  BY <1>2 DEF heap, BitsKept
<1>3. ASSUME NEW r \in Roots, NEW fin \in BOOLEAN, NEW end \in Blocks, NEW n_free \in Nat,
             NEW from, Placed(r, fin, from, end, n_free)
      PROVE  BitsKept
  BY <1>1, <1>3, PlaceBits DEF Placed
<1> QED BY <1>2, <1>3, ServeFinds

LEMMA BitsKeptStep ==
    ASSUME GInv, Next
    PROVE  BitsKept
<1>1. ASSUME UNCHANGED ftb PROVE BitsKept
  BY <1>1 DEF BitsKept
<1>2. ASSUME NEW q \in Request, q.n_free = 0, q.mover # None => Owned(q.mover), StartAlloc(q)
      PROVE  BitsKept
  <2>1. phase = "idle"
    BY <1>2 DEF StartAlloc, Idle
  <2>2. CASE Serve(q)
    BY <1>2, <2>1, <2>2, ServeBits
  <2>3. CASE CollectStart([q EXCEPT !.n_free = Trailing])
    BY <1>1, <2>3 DEF CollectStart, heap
  <2> QED BY <1>2, <2>2, <2>3 DEF StartAlloc
<1>3. ASSUME NEW n \in 1 .. MaxBlocks, GcAlloc(n) PROVE BitsKept
  <2> DEFINE q == [n |-> n, n_free |-> 0, mover |-> None]
  <2>1. q \in Request /\ q.n_free = 0 /\ q.mover = None /\ StartAlloc(q)
    BY <1>3 DEF GcAlloc, Request
  <2> HIDE DEF q
  <2> QED BY <1>2, <2>1
<1>4. ASSUME NEW n \in 1 .. MaxBlocks, NEW r \in Roots, MoveObject(r, n) PROVE BitsKept
  <2> DEFINE q == [n |-> n, n_free |-> 0, mover |-> r]
  <2>1. q \in Request /\ q.n_free = 0 /\ q.mover = r /\ StartAlloc(q) /\ Owned(r)
    BY <1>4 DEF MoveObject, Request
  <2> HIDE DEF q
  <2> QED BY <1>2, <2>1
<1>5. CASE Program
  <2>1. ASSUME NEW r \in Roots, GcFree(r) PROVE BitsKept
    BY <2>1, GcFreeBits
  <2>2. ASSUME NEW r \in Roots, NEW n \in 1 .. MaxBlocks, Shrink(r, n) \/ Expand(r, n)
        PROVE  BitsKept
    BY <1>1, <2>2 DEF Shrink, Expand
  <2>3. ASSUME NEW r \in Roots, NEW s \in Roots, NEW b \in Blocks, Load(r, s, b) \/ Store(r, s, b)
        PROVE  BitsKept
    BY <1>1, <2>3 DEF Load, Store
  <2>4. ASSUME NEW r \in Roots, Drop(r) PROVE BitsKept
    BY <1>1, <2>4 DEF Drop
  <2>5. CASE GcCollect
    BY <1>1, <2>5 DEF GcCollect, CollectStart, heap
  <2> QED BY <1>3, <1>4, <1>5, <2>1, <2>2, <2>3, <2>4, <2>5 DEF Program
<1>6. CASE AllocAgain
  <2>1. /\ phase = "alloc" /\ request \in Request /\ hint = 0
        /\ request.mover # None => Owned(request.mover)
    BY <1>6 DEF AllocAgain, GInv, GTypes, HintInv, MoverOwns
  <2>2. CASE Serve(request)
    BY <2>1, <2>2, ServeBits
  <2>3. CASE UNCHANGED heap
    BY <1>1, <2>3 DEF heap
  <2> QED BY <1>6, <2>2, <2>3 DEF AllocAgain
<1>7. ASSUME NEW b \in Blocks, SweepHead(b) PROVE BitsKept
  <2>1. /\ phase = "sweep" /\ b \in UsedLeft /\ kind[b] = "HEAD"
        /\ kind' = [kind EXCEPT ![b] = "FREE"] /\ ftb' = ftb \ {b} /\ UNCHANGED roots
    BY <1>7 DEF SweepHead, SweepAt
  <2>2. kind'[b] = "FREE"
    BY <2>1 DEF GInv, GTypes
  <2>3. b \notin Live
    BY <2>1, BlockNumbers DEF Live, UsedLeft, GInv, GTypes
  <2>4. \A r \in Roots : roots[r] # b
    BY <2>3, BlockNumbers DEF GInv, PointersLive
  <2> QED BY <2>1, <2>2, <2>4 DEF BitsKept
<1>8. CASE Collector
  <2>1. CASE TraceRoot \/ Pop \/ ScanWord \/ RescanStart \/ RescanBlock \/ SweepStart \/ CollectEnd
    BY <1>1, <2>1
    DEF TraceRoot, Pop, ScanWord, RescanStart, RescanBlock, SweepStart, CollectEnd, heap
  <2>2. ASSUME NEW b \in Blocks, SweepMark(b) \/ SweepRaises(b) \/ SweepTail(b) PROVE BitsKept
    BY <1>1, <2>2 DEF SweepMark, SweepRaises, SweepTail
  <2> QED BY <1>6, <1>7, <1>8, <2>1, <2>2 DEF Collector
<1> QED BY <1>5, <1>8 DEF Next

(* A finaliser goes with its object, and moves with it, whatever frees it: *)
(* but for the bits that freeing the object at the end of the pool clears  *)
(* by mistake (gc.c:276, 541, 737).                                        *)
THEOREM FinaliserCorrect == Spec => FinaliserKept
<1>1. GInv /\ [Next]_vars => [BitsKept]_vars
  BY BitsKeptStep
<1> QED BY <1>1, GInvCorrect, PTL DEF Spec, FinaliserKept, BitsKept

-----------------------------------------------------------------------------
(* What a collection marks, every set needs that the program's pointers do *)
(* not lead out of.  The reachable objects are such a set, so all that is  *)
(* left after the sweep is reachable.                                      *)
Closed(S) == RootSet \subseteq S /\ \A b \in S \cap Heads : PointsTo(b) \subseteq S

NeededBy(S) ==
    /\ phase \in {"roots", "rescan"} =>
          /\ \A b \in Blocks : kind[b] = "MARK" => b \in S
          /\ \A i \in 1 .. Len(stack) : stack[i] \in S \cap Heads
          /\ \A c \in chain \cap Blocks : word[c] \in S \cup {None}
    /\ phase = "sweep" => Live \subseteq S

MarkedNeeded == \A S : Closed(S) => NeededBy(S)

LEMMA ClosedKept ==
    ASSUME \A b \in Blocks : OwnBlocks(b)' = OwnBlocks(b), Heads' = Heads,
           UNCHANGED <<word, roots>>, NEW S
    PROVE  Closed(S)' <=> Closed(S)
<1>1. Heads \subseteq Blocks
  BY DEF Heads
<1>2. \A b \in Heads : PointsTo(b)' = PointsTo(b)
  BY <1>1 DEF PointsTo
<1>3. RootSet' = RootSet
  BY DEF RootSet
<1> QED BY <1>2, <1>3 DEF Closed

(* The words of an object that is needed are needed.                       *)
LEMMA WordsNeeded ==
    ASSUME NEW S, Closed(S), NEW h \in S, h \in Heads, NEW bits
    PROVE  \A c \in ChainOf(h, bits) \cap Blocks : word[c] \in S \cup {None}
<1>1. h \in Blocks
  BY DEF Heads
<1>2. \A c \in ChainOf(h, bits) \cap Blocks : c \in OwnBlocks(h)
  BY <1>1, ChainInTable
<1> QED BY <1>2 DEF Closed, PointsTo

LEMMA MarkingNeeds ==
    ASSUME GInv, TraceRoot \/ Pop \/ ScanWord \/ RescanBlock, NEW S, Closed(S), NeededBy(S)
    PROVE  NeededBy(S)' /\ Closed(S)'
<1>1. phase \in {"roots", "rescan"} /\ phase' = phase /\ UNCHANGED <<word, roots>>
  BY DEF TraceRoot, Pop, ScanWord, RescanBlock, Marking, heap
<1>2. /\ \A b \in Blocks : kind[b] = "MARK" => b \in S
      /\ \A i \in 1 .. Len(stack) : stack[i] \in S \cap Heads
      /\ \A c \in chain \cap Blocks : word[c] \in S \cup {None}
  BY <1>1 DEF NeededBy
<1>3. /\ kind \in [Blocks -> Kinds] /\ stack \in Seq(Blocks) /\ Len(stack) \in Nat
      /\ word \in [Blocks -> Blocks \cup {None}] /\ roots \in [Roots -> Blocks \cup {None}]
  BY DEF GInv, GTypes
<1>4. ASSUME \A b \in Blocks : kind'[b] = kind[b] \/ (kind[b] = "HEAD" /\ kind'[b] = "MARK" /\ b \in S),
             \A i \in 1 .. Len(stack') : stack'[i] \in S \cap Heads,
             \A c \in chain' \cap Blocks : word[c] \in S \cup {None}
      PROVE  NeededBy(S)' /\ Closed(S)'
  <2>1. Heads' = Heads
    BY <1>4 DEF Heads
  <2>2. \A b \in Blocks : OwnBlocks(b)' = OwnBlocks(b)
    BY <1>4, OwnBlocksKept
  <2>3. Closed(S)'
    BY <1>1, <2>1, <2>2, ClosedKept
  <2> QED BY <1>1, <1>2, <1>4, <2>1, <2>3 DEF NeededBy
<1>5. CASE TraceRoot
  <2> DEFINE i == FirstOf(RootsLeft)
             h == roots[i]
  <2>1. /\ RootsLeft # {} /\ stack = <<>> /\ stack' = stack
        /\ kind' = [kind EXCEPT ![h] = "MARK"] /\ chain' = ChainOf(h, ftb)
    BY <1>5 DEF TraceRoot, Drained
  <2>2. RootsLeft \in SUBSET Nat /\ RootsLeft \subseteq Roots
    BY BlockNumbers DEF RootsLeft, GInv, GTypes, Roots
  <2>3. i \in RootsLeft
    BY <2>1, <2>2, FirstOfLeast
  <2>4. i \in Roots /\ h # None /\ kind[h] = "HEAD" /\ h \in Blocks
    BY <1>3, <2>2, <2>3 DEF RootsLeft, Unmarked
  <2>5. h \in S /\ h \in Heads
    BY <2>4 DEF Closed, RootSet, Heads
  <2> HIDE DEF h, i
  <2>6. \A c \in chain' \cap Blocks : word[c] \in S \cup {None}
    BY <2>1, <2>5, WordsNeeded
  <2>7. \A b \in Blocks : kind'[b] = kind[b] \/ (kind[b] = "HEAD" /\ kind'[b] = "MARK" /\ b \in S)
    BY <1>3, <2>1, <2>4, <2>5
  <2> QED BY <1>2, <1>4, <2>1, <2>6, <2>7
<1>6. CASE Pop
  <2> DEFINE n == Len(stack) - 1
             h == stack[Len(stack)]
  <2>1. /\ stack # <<>> /\ stack' = SubSeq(stack, 1, n) /\ chain' = ChainOf(h, ftb)
        /\ kind' = kind
    BY <1>6 DEF Pop, heap
  <2>2. Len(stack) \in 1 .. Len(stack) /\ n \in Nat /\ n <= Len(stack)
    BY <1>3, <2>1
  <2>3. h \in S /\ h \in Heads
    BY <1>2, <2>2
  <2>4. ASSUME NEW i \in 1 .. Len(stack') PROVE stack'[i] \in S \cap Heads
    <3> HIDE DEF n, h
    <3>1. Len(stack') = n /\ i \in 1 .. n /\ stack'[i] = stack[i] /\ i \in 1 .. Len(stack)
      BY <1>3, <2>1, <2>2, <2>4
    <3> QED BY <1>2, <3>1
  <2> HIDE DEF h, n
  <2>5. \A c \in chain' \cap Blocks : word[c] \in S \cup {None}
    BY <2>1, <2>3, WordsNeeded
  <2> QED BY <1>4, <2>1, <2>4, <2>5
<1>7. CASE ScanWord
  <2> DEFINE w == FirstOf(WordsLeft)
             ptr == word[w]
  <2>1. /\ WordsLeft # {} /\ chain' = {b \in chain : b > w}
        /\ kind' = [kind EXCEPT ![ptr] = "MARK"]
        /\ stack' = Append(stack, ptr) \/ stack' = stack
    BY <1>7 DEF ScanWord, MarkAndPush
  <2>2. WordsLeft \in SUBSET Nat
    BY BlockNumbers DEF WordsLeft
  <2>3. w \in WordsLeft
    BY <2>1, <2>2, FirstOfLeast
  <2>4. w \in chain \cap Blocks /\ ptr # None /\ kind[ptr] = "HEAD"
    BY <2>3 DEF WordsLeft, Unmarked
  <2>5. ptr \in S /\ ptr \in Blocks /\ ptr \in Heads
    BY <1>2, <1>3, <2>4 DEF Heads
  <2> HIDE DEF ptr, w
  <2>6. \A c \in chain' \cap Blocks : word[c] \in S \cup {None}
    BY <1>2, <2>1
  <2>7. \A b \in Blocks : kind'[b] = kind[b] \/ (kind[b] = "HEAD" /\ kind'[b] = "MARK" /\ b \in S)
    BY <1>3, <2>1, <2>4, <2>5
  <2>8. \A i \in 1 .. Len(stack') : stack'[i] \in S \cap Heads
    <3>1. CASE stack' = stack
      BY <1>2, <3>1
    <3>2. CASE stack' = Append(stack, ptr)
      <4>1. Len(stack') = Len(stack) + 1
        BY <1>3, <2>5, <3>2
      <4>2. ASSUME NEW i \in 1 .. Len(stack') PROVE stack'[i] = ptr \/ (i \in 1 .. Len(stack) /\ stack'[i] = stack[i])
        BY <1>3, <2>5, <3>2, <4>1, <4>2
      <4> QED BY <1>2, <2>5, <4>2
    <3> QED BY <2>1, <3>1, <3>2
  <2> QED BY <1>4, <2>6, <2>7, <2>8
<1>8. CASE RescanBlock
  <2> DEFINE h == FirstOf(MarksLeft)
  <2>1. /\ MarksLeft # {} /\ chain' = ChainOf(h, ftb) /\ kind' = kind /\ stack' = stack
    BY <1>8 DEF RescanBlock, heap
  <2>2. MarksLeft \in SUBSET Nat
    BY BlockNumbers DEF MarksLeft
  <2>3. h \in MarksLeft
    BY <2>1, <2>2, FirstOfLeast
  <2>4. h \in S /\ h \in Heads
    BY <1>2, <2>3 DEF MarksLeft, Heads
  <2> HIDE DEF h
  <2>5. \A c \in chain' \cap Blocks : word[c] \in S \cup {None}
    BY <2>1, <2>4, WordsNeeded
  <2> QED BY <1>2, <1>4, <2>1, <2>5
<1> QED BY <1>5, <1>6, <1>7, <1>8

(* A set that is closed after a step of the sweep was closed before, but   *)
(* for what the program cannot reach.                                      *)
LEMMA SweepNeeds ==
    ASSUME GInv, MarkedNeeded, NEW b \in Blocks, Sweeps(b), NEW S, Closed(S)'
    PROVE  NeededBy(S)'
<1>1. phase = "sweep" /\ phase' = "sweep" /\ Live' = Live /\ UNCHANGED roots
  BY SweepFacts, SweepStep
<1> DEFINE T == {x \in S : x \in Live}
<1>2. RootSet \subseteq T
  <2>1. RootSet' = RootSet
    BY <1>1 DEF RootSet
  <2>2. \A x \in RootSet : x \in S
    BY <2>1 DEF Closed
  <2>3. \A x \in RootSet : x \in Live
    BY DEF GInv, PointersLive, RootSet
  <2> QED BY <2>2, <2>3
<1>3. ASSUME NEW h \in T, NEW x \in PointsTo(h) PROVE x \in T
  <2>1. h \in S /\ h \in Live
    OBVIOUS
  <2>2. PICK c \in OwnBlocks(h) : x = word[c] /\ x # None
    BY <1>3 DEF PointsTo
  <2>3. h \in Heads' /\ c \in OwnBlocks(h)' /\ word'[c] = x
    BY <2>1, <2>2, LiveKept
  <2>4. x \in S
    BY <2>1, <2>2, <2>3 DEF Closed, PointsTo
  <2>5. x \in Live
    BY <2>1, <2>2 DEF GInv, PointersLive
  <2> QED BY <2>4, <2>5
<1>4. Closed(T)
  <2> HIDE DEF T
  <2> QED BY <1>2, <1>3 DEF Closed
<1>5. Live \subseteq T
  BY <1>1, <1>4 DEF MarkedNeeded, NeededBy
<1>6. Live \subseteq S
  BY <1>5
<1> QED BY <1>1, <1>6 DEF NeededBy

LEMMA MarkedNeededStep ==
    ASSUME GInv, MarkedNeeded, [Next]_vars
    PROVE  MarkedNeeded'
<1> SUFFICES ASSUME NEW S, Closed(S)' PROVE NeededBy(S)'
  BY DEF MarkedNeeded
<1>1. ASSUME phase' \in {"idle", "alloc"} PROVE NeededBy(S)'
  BY <1>1 DEF NeededBy
<1>2. ASSUME phase = "idle", NEW q, CollectStart(q) PROVE NeededBy(S)'
  <2>1. phase' = "roots" /\ kind' = kind /\ Len(stack') = 0 /\ chain' = {}
    BY <1>2 DEF CollectStart, heap
  <2>2. \A b \in Blocks : kind[b] # "MARK"
    BY <1>2 DEF GInv, Tables, MarksInCollection
  <2> QED BY <2>1, <2>2 DEF NeededBy
<1>3. ASSUME NEW q, StartAlloc(q) PROVE NeededBy(S)'
  <2>1. phase = "idle"
    BY <1>3 DEF StartAlloc, Idle
  <2>2. CASE UNCHANGED <<lock, gc>>
    BY <1>1, <2>1, <2>2 DEF gc
  <2>3. CASE CollectStart([q EXCEPT !.n_free = Trailing])
    BY <1>2, <2>1, <2>3
  <2> QED BY <1>3, <2>2, <2>3 DEF StartAlloc
<1>4. CASE Program
  <2>1. ASSUME NEW n \in 1 .. MaxBlocks, GcAlloc(n) PROVE NeededBy(S)'
    BY <1>3, <2>1 DEF GcAlloc
  <2>2. ASSUME NEW n \in 1 .. MaxBlocks, NEW r \in Roots, MoveObject(r, n) PROVE NeededBy(S)'
    BY <1>3, <2>2 DEF MoveObject
  <2>3. ASSUME NEW r \in Roots, NEW n \in 1 .. MaxBlocks, Shrink(r, n) \/ Expand(r, n)
        PROVE  NeededBy(S)'
    BY <1>1, <2>3 DEF Shrink, Expand, Idle, gc
  <2>4. ASSUME NEW r \in Roots, GcFree(r) \/ Drop(r) PROVE NeededBy(S)'
    BY <1>1, <2>4 DEF GcFree, Drop, Idle, gc
  <2>5. ASSUME NEW r \in Roots, NEW s \in Roots, NEW b \in Blocks, Load(r, s, b) \/ Store(r, s, b)
        PROVE  NeededBy(S)'
    BY <1>1, <2>5 DEF Load, Store, Idle, gc
  <2>6. CASE GcCollect
    BY <1>2, <2>6 DEF GcCollect, Idle
  <2> QED BY <1>4, <2>1, <2>2, <2>3, <2>4, <2>5, <2>6 DEF Program
<1>5. ASSUME \A b \in Blocks : OwnBlocks(b)' = OwnBlocks(b), Heads' = Heads,
             UNCHANGED <<word, roots>>
      PROVE  NeededBy(S)
  <2>1. Closed(S)
    BY <1>5, ClosedKept
  <2> QED BY <2>1 DEF MarkedNeeded
<1>6. CASE TraceRoot \/ Pop \/ ScanWord \/ RescanBlock
  <2>1. /\ phase \in {"roots", "rescan"} /\ phase' = phase
        /\ UNCHANGED <<ftb, word, roots, hint, lock, free_tail, request, fault>>
    BY <1>6 DEF TraceRoot, Pop, ScanWord, RescanBlock, Marking, heap
  <2>2. UNCHANGED kind \/ \E ptr : Marks(ptr)
    <3>1. CASE TraceRoot
      <4>1. RootsLeft # {} /\ kind' = [kind EXCEPT ![roots[FirstOf(RootsLeft)]] = "MARK"]
        BY <3>1 DEF TraceRoot
      <4>2. RootsLeft \in SUBSET Nat /\ RootsLeft \subseteq Roots
        BY BlockNumbers DEF RootsLeft, GInv, GTypes, Roots
      <4>3. FirstOf(RootsLeft) \in RootsLeft
        BY <4>1, <4>2, FirstOfLeast
      <4>4. Unmarked(roots[FirstOf(RootsLeft)]) /\ FirstOf(RootsLeft) \in Roots
        BY <4>2, <4>3 DEF RootsLeft
      <4> QED BY <4>1, <4>4 DEF Marks, Unmarked, GInv, GTypes
    <3>2. CASE ScanWord
      <4>1. WordsLeft # {} /\ kind' = [kind EXCEPT ![word[FirstOf(WordsLeft)]] = "MARK"]
        BY <3>2 DEF ScanWord, MarkAndPush
      <4>2. WordsLeft \in SUBSET Nat
        BY BlockNumbers DEF WordsLeft
      <4>3. FirstOf(WordsLeft) \in WordsLeft
        BY <4>1, <4>2, FirstOfLeast
      <4>4. Unmarked(word[FirstOf(WordsLeft)]) /\ FirstOf(WordsLeft) \in Blocks
        BY <4>3 DEF WordsLeft
      <4> QED BY <4>1, <4>4 DEF Marks, Unmarked, GInv, GTypes
    <3>3. CASE Pop \/ RescanBlock
      BY <3>3 DEF Pop, RescanBlock, heap
    <3> QED BY <1>6, <3>1, <3>2, <3>3
  <2>3. \A b \in Blocks : OwnBlocks(b)' = OwnBlocks(b)
    BY <2>1, <2>2, MarkingKeeps
  <2>4. Heads' = Heads
    BY <2>2 DEF Heads, Marks, GInv, GTypes
  <2>5. NeededBy(S) /\ Closed(S)
    BY <1>5, <2>1, <2>3, <2>4, ClosedKept
  <2> QED BY <1>6, <2>5, MarkingNeeds
<1>7. CASE RescanStart \/ SweepStart
  <2>1. /\ RoundDone /\ UNCHANGED <<kind, word, roots, stack>> /\ chain' = {}
        /\ phase' = "rescan" \/ (phase' = "sweep" /\ block' = 0)
    BY <1>7 DEF RescanStart, SweepStart, heap
  <2>2. phase \in {"roots", "rescan"}
    BY <2>1 DEF RoundDone, Marking
  <2>3. NeededBy(S) /\ Heads' = Heads
    BY <1>5, <2>1 DEF Heads, OwnBlocks
  <2>4. /\ \A b \in Blocks : kind[b] = "MARK" => b \in S
        /\ \A i \in 1 .. Len(stack) : stack[i] \in S \cap Heads
    BY <2>2, <2>3 DEF NeededBy
  <2>5. CASE phase' = "rescan"
    BY <2>1, <2>3, <2>4, <2>5 DEF NeededBy
  <2>6. CASE phase' = "sweep" /\ block' = 0
    <3>1. \A b \in Live' : b \in Blocks /\ kind[b] = "MARK"
      BY <2>1, <2>6, BlockNumbers DEF Live
    <3> QED BY <2>4, <2>6, <3>1 DEF NeededBy
  <2> QED BY <2>1, <2>5, <2>6
<1>8. CASE Collector
  <2>1. CASE CollectEnd \/ AllocAgain
    BY <1>1, <2>1 DEF CollectEnd, AllocAgain
  <2>2. ASSUME NEW b \in Blocks, Sweeps(b) PROVE NeededBy(S)'
    BY <2>2, SweepNeeds
  <2> QED BY <1>6, <1>7, <1>8, <2>1, <2>2 DEF Collector, Sweeps
<1>9. CASE UNCHANGED vars
  <2>1. UNCHANGED <<kind, word, roots, stack, chain, phase, block>>
    BY <1>9 DEF vars, heap, gc
  <2>2. NeededBy(S) /\ Heads' = Heads /\ Live' = Live
    BY <1>5, <2>1 DEF Heads, OwnBlocks, Live
  <2> QED BY <2>1, <2>2 DEF NeededBy
<1> QED BY <1>4, <1>8, <1>9 DEF Next

(* NBlocks steps from the roots reach everything there is to reach.        *)
LEMMA ReachableClosed ==
    ASSUME GInv
    PROVE  Closed(Reachable)
<1> DEFINE R(i) == ReachableIn[i]
           T == {i \in Nat : R(i + 1) = R(i) \/ Cardinality(R(i)) >= i}
<1>1. /\ ReachableIn[0] = RootSet
      /\ \A i \in Nat : ReachableIn[i + 1] = Step(ReachableIn[i])
  BY ReachUnfolds
<1>2. NBlocks \in Nat /\ IsFiniteSet(Blocks) /\ Cardinality(Blocks) = NBlocks
  BY BlocksFinite
<1>3. \A i \in Nat : R(i) \subseteq R(i + 1) /\ R(i) \in SUBSET Blocks
  <2>1. \A i \in Nat : R(i) \subseteq R(i + 1)
    BY <1>1 DEF Step
  <2>2. Live \subseteq Blocks
    BY DEF Live, Heads
  <2> QED BY <2>1, <2>2, ReachableIsLive
<1>4. \A i \in Nat : IsFiniteSet(R(i)) /\ Cardinality(R(i)) \in Nat
  BY <1>2, <1>3, FS_Subset, FS_CardinalityType
<1> HIDE DEF R
<1>5. 0 \in T
  BY <1>4
<1>6. ASSUME NEW i \in Nat, i \in T PROVE i + 1 \in T
  <2>1. i + 1 \in Nat /\ (i + 1) + 1 \in Nat
    OBVIOUS
  <2>2. CASE R(i + 1) = R(i)
    <3>1. R((i + 1) + 1) = Step(R(i + 1)) /\ R(i + 1) = Step(R(i))
      BY <1>1, <2>1 DEF R
    <3> QED BY <2>1, <2>2, <3>1
  <2>3. CASE R(i + 1) # R(i)
    <3>1. Cardinality(R(i)) >= i
      BY <1>6, <2>3
    <3>2. R(i) \in SUBSET R(i + 1) /\ IsFiniteSet(R(i + 1))
      BY <1>3, <1>4, <2>1
    <3>3. Cardinality(R(i)) <= Cardinality(R(i + 1)) /\ Cardinality(R(i)) # Cardinality(R(i + 1))
      BY <2>3, <3>2, FS_Subset
    <3>4. Cardinality(R(i)) \in Nat /\ Cardinality(R(i + 1)) \in Nat
      BY <1>4, <2>1
    <3>5. Cardinality(R(i + 1)) >= i + 1
      BY <3>1, <3>3, <3>4
    <3> QED BY <2>1, <3>5
  <2> QED BY <2>2, <2>3
<1>7. NBlocks \in T
  <2> HIDE DEF T
  <2>1. \A i \in Nat : i \in T => i + 1 \in T
    BY <1>6
  <2> QED BY <1>2, <1>5, <2>1, SetInduction
<1>8. Step(R(NBlocks)) = R(NBlocks)
  <2>1. R(NBlocks + 1) = Step(R(NBlocks)) /\ NBlocks + 1 \in Nat
    BY <1>1, <1>2 DEF R
  <2>2. CASE R(NBlocks + 1) = R(NBlocks)
    BY <2>1, <2>2
  <2>3. CASE Cardinality(R(NBlocks)) >= NBlocks
    <3>1. Cardinality(R(NBlocks)) <= NBlocks /\ R(NBlocks) \in SUBSET Blocks
      BY <1>2, <1>3, FS_Subset
    <3>2. Cardinality(Blocks) = Cardinality(R(NBlocks))
      BY <1>2, <1>4, <2>3, <3>1
    <3>3. R(NBlocks) = Blocks
      BY <1>2, <3>1, <3>2, FS_Subset
    <3>4. R(NBlocks) \subseteq R(NBlocks + 1) /\ R(NBlocks + 1) \subseteq Blocks
      BY <1>2, <1>3, <2>1
    <3> QED BY <2>1, <3>3, <3>4
  <2> QED BY <1>7, <2>2, <2>3
<1>9. Reachable = R(NBlocks) /\ RootSet \subseteq R(NBlocks)
  <2> DEFINE Q == {i \in Nat : RootSet \subseteq R(i)}
  <2>1. 0 \in Q
    BY <1>1 DEF R
  <2>2. \A i \in Nat : i \in Q => i + 1 \in Q
    BY <1>3
  <2> HIDE DEF Q
  <2>3. Nat \subseteq Q
    BY <2>1, <2>2, SetInduction
  <2>4. NBlocks \in Q
    BY <1>2, <2>3
  <2> QED BY <2>4 DEF Q, R, Reachable
<1>10. \A b \in R(NBlocks) \cap Heads : PointsTo(b) \subseteq R(NBlocks)
  BY <1>8 DEF Step
<1> QED BY <1>9, <1>10 DEF Closed

LEMMA ReachableStays ==
    ASSUME UNCHANGED <<kind, word, roots>>
    PROVE  Reachable' = Reachable
BY DEF Reachable, ReachableIn, PointsTo, OwnBlocks, Heads

(* What the sweep leaves is reachable.                                     *)
LEMMA NoGarbageLeft ==
    ASSUME GInv, MarkedNeeded, [Next]_vars, phase = "sweep", phase' # "sweep"
    PROVE  (Heads \subseteq Reachable)'
<1>1. CollectEnd
  <2>1. ASSUME NEW b \in Blocks, Sweeps(b) PROVE FALSE
    <3>1. phase' = phase
      BY <2>1, SweepFacts
    <3> QED BY <3>1
  <2>2. ~UNCHANGED vars
    BY DEF vars, gc
  <2>3. ~Program
    BY DEF Program, GcAlloc, Shrink, Expand, MoveObject, GcFree, Drop, Load, Store, GcCollect,
           StartAlloc, Idle
  <2> QED BY <2>1, <2>2, <2>3
      DEF Next, Collector, TraceRoot, Pop, ScanWord, RescanStart, RescanBlock, SweepStart,
          RoundDone, Marking, AllocAgain, Sweeps
<1>2. UsedLeft = {} /\ UNCHANGED <<kind, word, roots>>
  BY <1>1 DEF CollectEnd, heap
<1>3. \A b \in Heads : b \in Live
  <2>1. \A b \in Blocks : b >= block => kind[b] = "FREE"
    BY <1>2 DEF UsedLeft
  <2> QED BY <2>1, BlockNumbers DEF Heads, Live, GInv, GTypes
<1>4. Live \subseteq Reachable
  BY ReachableClosed DEF MarkedNeeded, NeededBy
<1>5. Heads' = Heads /\ Reachable' = Reachable
  BY <1>2, ReachableStays DEF Heads
<1> QED BY <1>3, <1>4, <1>5

LEMMA MarkedNeededInit == Init => MarkedNeeded
BY DEF Init, MarkedNeeded, NeededBy

(* A collection frees every object that nothing reachable points to,       *)
(* however often the mark stack overflows (gc.c:250-298).                  *)
THEOREM GarbageCorrect == Spec => GarbageFreed
<1>1. GInv /\ MarkedNeeded /\ [Next]_vars => MarkedNeeded'
  BY MarkedNeededStep
<1>2. GInv /\ MarkedNeeded /\ [Next]_vars
      => [phase = "sweep" /\ phase' # "sweep" => (Heads \subseteq Reachable)']_vars
  BY NoGarbageLeft
<1> QED BY <1>1, <1>2, GInvCorrect, MarkedNeededInit, PTL DEF Spec, GarbageFreed

-----------------------------------------------------------------------------
(* Gc implements Heap.  An object is a run of blocks: a head, and the      *)
(* tails up to the next block that is none.                                *)
Ends(k, h, n) ==
    /\ n \in Nat /\ n > 0 /\ h + n <= NBlocks
    /\ \A d \in h + 1 .. h + n - 1 : k[d] = "TAIL"
    /\ h + n < NBlocks => k[h + n] # "TAIL"

LEMMA EndExists ==
    ASSUME NEW k, NEW h \in Blocks
    PROVE  \E n : Ends(k, h, n)
<1> DEFINE T == {n \in Nat : n > 0 /\ (h + n < NBlocks => k[h + n] # "TAIL")}
<1>1. NBlocks \in Nat /\ h \in Nat /\ h < NBlocks
  BY BlockNumbers
<1>2. T \in SUBSET Nat /\ NBlocks - h \in T
  BY <1>1
<1>3. PICK n \in T : \A m \in T : n <= m
  BY <1>2, LeastNatural
<1>4. n \in Nat /\ n > 0 /\ (h + n < NBlocks => k[h + n] # "TAIL")
  BY <1>3
<1>5. n <= NBlocks - h
  BY <1>2, <1>3
<1>6. ASSUME NEW d \in h + 1 .. h + n - 1 PROVE k[d] = "TAIL"
  <2>1. d - h \in Nat /\ d - h > 0 /\ d - h < n /\ h + (d - h) = d
    BY <1>1, <1>4
  <2>2. d - h \notin T
    BY <1>3, <1>4, <2>1
  <2> QED BY <2>1, <2>2
<1>7. h + n <= NBlocks
  BY <1>1, <1>4, <1>5
<1> QED BY <1>4, <1>6, <1>7 DEF Ends

LEMMA EndIsSpan ==
    ASSUME NEW k, NEW h \in Blocks, NEW n, Ends(k, h, n)
    PROVE  /\ Tails(k, h) = h .. h + n - 1 /\ Cardinality(Tails(k, h)) = n
           /\ n \in 1 .. NBlocks
<1>1. NBlocks \in Nat /\ h \in Nat /\ h < NBlocks /\ n \in Nat /\ n > 0 /\ h + n <= NBlocks
  BY BlockNumbers DEF Ends
<1>2. ASSUME NEW c \in h .. h + n - 1 PROVE c \in Tails(k, h)
  BY <1>1 DEF Ends, Tails
<1>3. ASSUME NEW c \in Tails(k, h) PROVE c \in h .. h + n - 1
  <2>1. c \in h .. NBlocks - 1 /\ \A d \in h + 1 .. c : k[d] = "TAIL"
    BY DEF Tails
  <2>2. ASSUME c >= h + n PROVE FALSE
    <3>1. h + n \in h + 1 .. c /\ h + n < NBlocks
      BY <1>1, <2>1, <2>2
    <3> QED BY <2>1, <3>1 DEF Ends
  <2> QED BY <1>1, <2>1, <2>2
<1>4. Tails(k, h) = h .. h + n - 1
  BY <1>2, <1>3
<1>5. Cardinality(h .. h + n - 1) = n
  <2> DEFINE e == h + n - 1
  <2>1. h \in Int /\ e \in Int /\ ~(h > e) /\ e - h + 1 = n
    BY <1>1
  <2> HIDE DEF e
  <2>2. Cardinality(h .. e) = IF h > e THEN 0 ELSE e - h + 1
    BY <2>1, FS_Interval
  <2>3. Cardinality(h .. e) = n
    BY <2>1, <2>2
  <2> QED BY <2>3 DEF e
<1> QED BY <1>1, <1>4, <1>5

(* The length of an object is where it ends.                               *)
LEMMA ObjectLength ==
    ASSUME NEW h \in Heads
    PROVE  /\ objects[h] \in 1 .. NBlocks /\ Ends(kind, h, objects[h])
           /\ OwnBlocks(h) = AbstractHeap!Span(h, objects[h])
           /\ OwnBlocks(h) = h .. h + objects[h] - 1
           /\ h \in Blocks /\ h \in DOMAIN objects
<1>1. h \in Blocks /\ h \in DOMAIN objects /\ objects[h] = Cardinality(OwnBlocks(h))
  BY DEF Heads, objects
<1>2. PICK n : Ends(kind, h, n)
  BY <1>1, EndExists
<1>3. Tails(kind, h) = h .. h + n - 1 /\ Cardinality(Tails(kind, h)) = n /\ n \in 1 .. NBlocks
  BY <1>1, <1>2, EndIsSpan
<1>4. objects[h] = n
  BY <1>1, <1>3, OwnIsTails
<1> QED BY <1>1, <1>2, <1>3, <1>4, OwnIsTails DEF AbstractHeap!Span

(* The objects after a step, from where they end.                          *)
LEMMA ObjectsAfter ==
    ASSUME NEW m, m = [h \in Heads' |-> m[h]], \A h \in Heads' : Ends(kind', h, m[h])
    PROVE  /\ objects' = m
           /\ \A h \in Heads' : OwnBlocks(h)' = AbstractHeap!Span(h, m[h])
<1>1. Heads' \subseteq Blocks
  BY DEF Heads
<1>2. ASSUME NEW h \in Heads'
      PROVE  OwnBlocks(h)' = h .. h + m[h] - 1 /\ Cardinality(OwnBlocks(h)') = m[h]
  <2>1. Ends(kind', h, m[h]) /\ h \in Blocks
    BY <1>1, <1>2
  <2> DEFINE k == kind'
             n == m[h]
  <2>2. Ends(k, h, n)
    BY <2>1
  <2> HIDE DEF k, n
  <2>3. Tails(k, h) = h .. h + n - 1 /\ Cardinality(Tails(k, h)) = n
    BY <2>1, <2>2, EndIsSpan
  <2> QED BY <2>3, OwnIsTails DEF k, n
<1>3. objects' = [h \in Heads' |-> Cardinality(OwnBlocks(h)')]
  BY DEF objects
<1>4. objects' = m
  BY <1>2, <1>3
<1> QED BY <1>2, <1>4 DEF AbstractHeap!Span

(* Two objects have no block in common.                                    *)
LEMMA ObjectsDisjoint ==
    ASSUME NEW g \in Heads, NEW h \in Heads, NEW c \in OwnBlocks(g), c \in OwnBlocks(h)
    PROVE  g = h
<1>1. g \in Blocks /\ h \in Blocks /\ kind[g] # "TAIL" /\ kind[h] # "TAIL"
  BY DEF Heads
<1>2. /\ c \in g .. NBlocks - 1 /\ \A d \in g + 1 .. c : kind[d] = "TAIL"
      /\ c \in h .. NBlocks - 1 /\ \A d \in h + 1 .. c : kind[d] = "TAIL"
  BY DEF OwnBlocks
<1> QED BY <1>1, <1>2, BlockNumbers

LEMMA TakenIsOwned ==
    /\ DOMAIN objects = Heads
    /\ AbstractHeap!Taken = UNION {OwnBlocks(h) : h \in Heads}
<1>1. DOMAIN objects = Heads
  BY DEF objects
<1>2. \A h \in Heads : OwnBlocks(h) = AbstractHeap!Span(h, objects[h])
  BY ObjectLength
<1> QED BY <1>1, <1>2 DEF AbstractHeap!Taken

LEMMA WordsIn ==
    /\ \A c \in Blocks : object_word[c] = IF c \in AbstractHeap!Taken THEN word[c] ELSE None
    /\ \A h \in Heads : \A c \in OwnBlocks(h) : object_word[c] = word[c]
<1>1. \A c \in Blocks : object_word[c] = IF c \in AbstractHeap!Taken THEN word[c] ELSE None
  BY TakenIsOwned DEF object_word
<1>2. \A h \in Heads : \A c \in OwnBlocks(h) : c \in Blocks /\ c \in AbstractHeap!Taken
  <2>1. Heads \subseteq Blocks
    BY DEF Heads
  <2> QED BY <2>1, OwnFacts, TakenIsOwned
<1> QED BY <1>1, <1>2

LEMMA WordsAfter ==
    /\ object_word' = [c \in Blocks |-> object_word'[c]]
    /\ \A c \in Blocks : object_word'[c] = IF \E h \in Heads' : c \in OwnBlocks(h)'
                                           THEN word'[c] ELSE None
BY DEF object_word

(* When no collection runs, every block in use belongs to an object, and   *)
(* what is free is clear.                                                  *)
LEMMA QuietWords == HeapOK => object_word = word
<1> SUFFICES ASSUME HeapOK PROVE object_word = word
  OBVIOUS
<1>1. \A c \in Blocks : kind[c] # "FREE" => \E h \in Heads : c \in OwnBlocks(h)
  BY OwnerExists DEF HeapOK, Kinds
<1>2. \A c \in Blocks : kind[c] # "FREE" => c \in AbstractHeap!Taken
  BY <1>1, TakenIsOwned
<1>3. \A c \in Blocks : kind[c] = "FREE" => word[c] = None
  BY DEF HeapOK, FreeIsClear
<1>4. \A c \in Blocks : object_word[c] = word[c]
  BY <1>2, <1>3, WordsIn
<1>5. object_word = [c \in Blocks |-> object_word[c]] /\ word = [c \in Blocks |-> word[c]]
  BY DEF object_word, HeapOK
<1> QED BY <1>4, <1>5

LEMMA QuietWordsAfter == HeapOK' => (object_word = word)'
BY QuietWords, PTL

LEMMA QuietHeapAfter == (GInv /\ phase \in {"idle", "alloc"})' => HeapOK'
<1>1. GInv /\ phase \in {"idle", "alloc"} => HeapOK
  BY QuietHeap
<1> QED BY <1>1, PTL

(* An object ends where it ended if its blocks stay and no tail is added   *)
(* behind them.                                                            *)
LEMMA EndKept ==
    ASSUME NEW h \in Heads, NEW k,
           \A d \in OwnBlocks(h) \ {h} : k[d] = kind[d],
           \A e \in Blocks : k[e] = "TAIL" /\ kind[e] # "TAIL" => e - 1 \notin OwnBlocks(h)
    PROVE  Ends(k, h, objects[h])
<1> DEFINE n == objects[h]
<1>1. Ends(kind, h, n) /\ OwnBlocks(h) = h .. h + n - 1 /\ h \in Blocks /\ n \in 1 .. NBlocks
  BY ObjectLength
<1> HIDE DEF n
<1>2. n \in Nat /\ h \in Nat /\ NBlocks \in Nat /\ Blocks = 0 .. NBlocks - 1
  BY <1>1, BlockNumbers
<1>3. ASSUME NEW d \in h + 1 .. h + n - 1 PROVE k[d] = "TAIL"
  <2>1. d \in OwnBlocks(h) \ {h} /\ kind[d] = "TAIL"
    BY <1>1, <1>2 DEF Ends
  <2> QED BY <2>1
<1>4. ASSUME h + n < NBlocks PROVE k[h + n] # "TAIL"
  <2>1. h + n \in Blocks /\ (h + n) - 1 \in OwnBlocks(h) /\ kind[h + n] # "TAIL"
    BY <1>1, <1>2, <1>4 DEF Ends
  <2> QED BY <2>1
<1> QED BY <1>1, <1>2, <1>3, <1>4 DEF Ends, n

(* In use is what belongs to an object.                                    *)
LEMMA OwnedIsUsed ==
    ASSUME NEW h \in Heads, NEW c \in OwnBlocks(h)
    PROVE  c \in Blocks /\ kind[c] # "FREE" /\ (c # h => kind[c] = "TAIL")
<1>1. h \in Blocks
  BY DEF Heads
<1>2. c \in Blocks /\ (c # h => kind[c] = "TAIL")
  BY <1>1, OwnFacts
<1> QED BY <1>2 DEF Heads

StartOf(end, n_free) == end - n_free + 1

(* What Heap sees of it.                                                   *)
PlaceView(r, from, start, n_free) ==
    /\ start \in Blocks /\ start \notin Heads /\ n_free \in 1 .. NBlocks
    /\ \A c \in AbstractHeap!Span(start, n_free) :
          c \in Blocks /\ c \notin AbstractHeap!Taken
    /\ objects' = [o \in (Heads \ {from}) \cup {start} |->
                      IF o = start THEN n_free ELSE objects[o]]
    /\ roots' = [roots EXCEPT ![r] = start]
    /\ from # None => from \in Heads
    /\ word' = [b \in Blocks |->
                   IF b \in AbstractHeap!Span(start, n_free)
                   THEN IF from = None THEN None ELSE Copied(from, from + b - start)
                   ELSE IF from # None /\ b \in OwnBlocks(from) THEN None ELSE word[b]]

LEMMA PlaceObjects ==
    ASSUME HeapOK, NEW r \in Roots, NEW fin \in BOOLEAN, NEW from,
           NEW end \in Blocks, NEW n_free \in Nat, Placed(r, fin, from, end, n_free),
           NEW start, start = StartOf(end, n_free)
    PROVE  PlaceView(r, from, start, n_free)
<1> USE DEF Placed
<1> DEFINE new   == start .. end
           bits  == (IF fin THEN ftb \cup {start} ELSE ftb) \ {from}
           gone  == IF from = None THEN {} ELSE ChainOf(from, bits)
           G     == {b \in Blocks : from # None /\ b \in OwnBlocks(from)}
           m     == [o \in (Heads \ {from}) \cup {start} |->
                        IF o = start THEN n_free ELSE objects[o]]
<1>0. start = end - n_free + 1
  BY DEF StartOf
<1>1. /\ start >= 0
      /\ kind' = [b \in Blocks |-> IF b = start THEN "HEAD" ELSE IF b \in new THEN "TAIL"
                                   ELSE IF b \in gone THEN "FREE" ELSE kind[b]]
      /\ word' = [b \in Blocks |->
                     IF b \in new
                     THEN IF from = None THEN None ELSE Copied(from, from + b - start)
                     ELSE IF b \in gone THEN None ELSE word[b]]
      /\ roots' = [roots EXCEPT ![r] = start]
  BY <1>0 DEF Place
<1>2. NBlocks \in Nat /\ Blocks = 0 .. NBlocks - 1 /\ end \in Nat /\ None \notin Int
      /\ start \in Nat /\ start + n_free = end + 1
  BY <1>0, <1>1, BlockNumbers
<1>3. /\ start \in new /\ start \in Blocks /\ n_free \in 1 .. NBlocks
      /\ new = AbstractHeap!Span(start, n_free)
      /\ \A b \in new : /\ b \in Blocks /\ kind[b] = "FREE"
                        /\ b = start \/ b - 1 \in new
  BY <1>2 DEF AbstractHeap!Span
<1>4. from # None => from \in Heads /\ from \in Blocks
  <2>1. from # None => from \in Heads
    BY DEF Owned, HeapOK
  <2> QED BY <2>1 DEF Heads
<1>5. \A b \in Blocks : b \in gone <=> b \in G
  <2>1. CASE from = None
    BY <2>1
  <2>2. CASE from # None
    <3> HIDE DEF bits
    <3> QED BY <1>4, <2>2, ChainInTable
  <2> QED BY <2>1, <2>2
<1> HIDE DEF gone, new
<1>6. /\ kind' = [b \in Blocks |-> IF b = start THEN "HEAD" ELSE IF b \in new THEN "TAIL"
                                   ELSE IF b \in G THEN "FREE" ELSE kind[b]]
      /\ word' = [b \in Blocks |->
                     IF b \in new
                     THEN IF from = None THEN None ELSE Copied(from, from + b - start)
                     ELSE IF b \in G THEN None ELSE word[b]]
  BY <1>1, <1>5
<1>7. \A h \in Heads \ {from} : \A c \in OwnBlocks(h) : c \notin G /\ c \notin new /\ c \in Blocks
  BY <1>3, <1>4, ObjectsDisjoint, OwnedIsUsed
<1>8. G \cap Heads \subseteq {from} /\ (from # None => from \in G)
  <2>1. \A c \in G : c \in Heads => c = from
    BY <1>4, OwnedIsUsed DEF Heads
  <2> QED BY <1>4, <2>1, OwnFacts
<1> HIDE DEF G
<1>9. \A b \in Blocks : kind[b] = "FREE" => b \notin Heads
  BY DEF Heads
<1>10. Heads' = (Heads \ {from}) \cup {start}
  <2>1. Heads \subseteq Blocks
    BY DEF Heads
  <2>2. ASSUME NEW b \in Blocks PROVE kind'[b] \in {"HEAD", "MARK"} <=> b \in (Heads \ {from}) \cup {start}
    <3>1. CASE b \in new
      BY <1>3, <1>6, <1>9, <3>1
    <3>2. CASE b \notin new /\ b \in G
      BY <1>3, <1>6, <1>8, <3>2
    <3>3. CASE b \notin new /\ b \notin G
      <4>1. kind'[b] = kind[b] /\ b # start /\ b # from
        BY <1>2, <1>3, <1>6, <1>8, <3>3
      <4> QED BY <4>1 DEF Heads
    <3> QED BY <3>1, <3>2, <3>3
  <2> QED BY <1>3, <2>1, <2>2 DEF Heads
<1>11. ASSUME NEW h \in Heads', h # start PROVE Ends(kind', h, m[h])
  <2>1. h \in Heads /\ h \in Heads \ {from} /\ m[h] = objects[h]
    BY <1>10, <1>11
  <2>2. \A d \in OwnBlocks(h) : kind'[d] = kind[d]
    BY <1>3, <1>6, <1>7, <2>1
  <2>3. \A e \in Blocks : kind'[e] = "TAIL" /\ kind[e] # "TAIL" => e \in new /\ e # start
    BY <1>6
  <2>4. \A e \in Blocks : kind'[e] = "TAIL" /\ kind[e] # "TAIL" => e - 1 \notin OwnBlocks(h)
    BY <1>3, <1>7, <2>1, <2>3
  <2> DEFINE k == kind'
  <2>5. /\ \A d \in OwnBlocks(h) \ {h} : k[d] = kind[d]
        /\ \A e \in Blocks : k[e] = "TAIL" /\ kind[e] # "TAIL" => e - 1 \notin OwnBlocks(h)
    BY <2>2, <2>4
  <2> HIDE DEF k, m
  <2>6. Ends(k, h, objects[h])
    BY <2>1, <2>5, EndKept
  <2> QED BY <2>1, <2>6 DEF k
<1>12. Ends(kind', start, m[start])
  <2>1. m[start] = n_free
    OBVIOUS
  <2>2. ASSUME NEW d \in start + 1 .. start + n_free - 1 PROVE kind'[d] = "TAIL"
    <3>1. d \in new /\ d \in Blocks /\ d # start
      BY <1>2 DEF new
    <3> QED BY <1>6, <3>1
  <2>3. ASSUME start + n_free < NBlocks PROVE kind'[start + n_free] # "TAIL"
    <3> DEFINE e == start + n_free
    <3>1. e \in Blocks /\ e \notin new /\ e # start /\ e - 1 = end
      BY <1>2, <2>3 DEF new
    <3>2. kind[end] = "FREE"
      BY <1>2
    <3>3. kind[e] # "TAIL"
      BY <3>1, <3>2 DEF HeapOK
    <3> HIDE DEF e
    <3>4. kind'[e] # "TAIL"
      BY <1>6, <3>1, <3>3
    <3> QED BY <3>4 DEF e
  <2>4. start + n_free <= NBlocks
    BY <1>2
  <2> HIDE DEF m
  <2> QED BY <2>1, <2>2, <2>3, <2>4 DEF Ends
<1>13. objects' = m
  <2>1. m = [h \in Heads' |-> m[h]]
    BY <1>10
  <2>2. \A h \in Heads' : Ends(kind', h, m[h])
    BY <1>11, <1>12
  <2> HIDE DEF m
  <2> QED BY <2>1, <2>2, ObjectsAfter
<1>14. ASSUME NEW c \in new PROVE c \notin AbstractHeap!Taken
  <2>1. kind[c] = "FREE"
    BY <1>3
  <2> QED BY <2>1, OwnedIsUsed, TakenIsOwned
<1>15. start \notin Heads
  BY <1>3, <1>9
<1>16. \A b \in Blocks : b \in G <=> from # None /\ b \in OwnBlocks(from)
  BY DEF G
<1> HIDE DEF m
<1>17. word' = [b \in Blocks |->
                  IF b \in AbstractHeap!Span(start, n_free)
                  THEN IF from = None THEN None ELSE Copied(from, from + b - start)
                  ELSE IF from # None /\ b \in OwnBlocks(from) THEN None ELSE word[b]]
  BY <1>3, <1>6, <1>16
<1> QED BY <1>1, <1>3, <1>4, <1>13, <1>14, <1>15, <1>17 DEF m, PlaceView

(* An operation that changes the objects is a step of Heap.                *)
LEMMA OperationIsStep ==
    ASSUME objects' # objects,
           \/ \E r \in Roots : AbstractHeap!Release(r)
           \/ \E b \in Blocks, r \in Roots, n \in 1 .. NBlocks :
                 \/ AbstractHeap!New(b, n, r) \/ AbstractHeap!Move(b, n, r)
                 \/ AbstractHeap!Resize(r, n)
    PROVE  AbstractHeap!HeapNext
<1>1. 1 .. NBlocks = 1 .. AbstractHeap!Cardinality(Blocks)
  <2>1. AbstractHeap!Cardinality(Blocks) = Cardinality(Blocks)
    BY Zenon DEF AbstractHeap!Cardinality, Cardinality
  <2> QED BY <2>1, BlocksFinite
<1> QED BY <1>1, Zenon DEF AbstractHeap!HeapNext

LEMMA PlaceIsStep ==
    ASSUME HeapOK, HeapOK', NEW r \in Roots, NEW fin \in BOOLEAN, NEW from,
           NEW end \in Blocks, NEW n_free \in Nat, Placed(r, fin, from, end, n_free)
    PROVE  AbstractHeap!HeapNext
<1> DEFINE start == StartOf(end, n_free)
           span == AbstractHeap!Span(start, n_free)
<1>1. /\ start \in Blocks /\ start \notin Heads /\ n_free \in 1 .. NBlocks
      /\ \A c \in span : c \in Blocks /\ c \notin AbstractHeap!Taken
      /\ objects' = [o \in (Heads \ {from}) \cup {start} |->
                        IF o = start THEN n_free ELSE objects[o]]
      /\ roots' = [roots EXCEPT ![r] = start]
      /\ from # None => from \in Heads
      /\ word' = [b \in Blocks |->
                     IF b \in span
                     THEN IF from = None THEN None ELSE Copied(from, from + b - start)
                     ELSE IF from # None /\ b \in OwnBlocks(from) THEN None ELSE word[b]]
  <2>1. start = StartOf(end, n_free)
    OBVIOUS
  <2> HIDE DEF start
  <2>2. PlaceView(r, from, start, n_free)
    BY <2>1, PlaceObjects
  <2> QED BY <2>2 DEF PlaceView
<1>2. object_word = word /\ object_word' = word'
  BY QuietWords, QuietWordsAfter
<1>3. DOMAIN objects = Heads /\ None \notin Int /\ Heads \subseteq Int /\ start \in DOMAIN objects'
  <2>1. Heads \subseteq Int
    BY BlockNumbers DEF Heads
  <2> HIDE DEF start, span
  <2> QED BY <1>1, <2>1, TakenIsOwned, BlockNumbers
<1>4. \A c \in span : c = start + (c - start) /\ start <= c /\ c < start + n_free
  BY <1>1, BlockNumbers DEF AbstractHeap!Span
<1> HIDE DEF start, span
<1>5. objects' # objects
  BY <1>1, <1>3
<1>6. CASE from = None
  <2>1. Heads \ {from} = Heads
    BY <1>3, <1>6
  <2>2. word' = [c \in Blocks |-> IF c \in span THEN None ELSE word[c]]
    BY <1>1, <1>6
  <2>3. span \subseteq Blocks \ AbstractHeap!Taken
    BY <1>1
  <2>4. objects' = [o \in DOMAIN objects \cup {start} |-> IF o = start THEN n_free ELSE objects[o]]
    BY <1>1, <1>3, <2>1
  <2>5. AbstractHeap!New(start, n_free, r)
    BY <1>1, <1>2, <2>2, <2>3, <2>4 DEF AbstractHeap!New, span
  <2> QED BY <1>1, <1>5, <2>5, OperationIsStep
<1>7. CASE from # None
  <2>1. from = roots[r] /\ from \in Heads /\ from \in DOMAIN objects
    BY <1>1, <1>3, <1>7 DEF Placed
  <2>2. span \subseteq Blocks \ AbstractHeap!Taken
    BY <1>1
  <2>3. objects' = [o \in (DOMAIN objects \ {from}) \cup {start} |->
                       IF o = start THEN n_free ELSE objects[o]]
    BY <1>1, <1>3
  <2>4. ASSUME NEW c \in span
        PROVE  word'[c] = IF c - start < objects[from] THEN word[c - start + from] ELSE None
    <3>1. word'[c] = Copied(from, from + c - start)
      BY <1>1, <1>7
    <3>2. /\ OwnBlocks(from) = from .. from + objects[from] - 1
          /\ objects[from] \in Nat /\ from \in Int
      <4>1. objects[from] \in 1 .. NBlocks /\ OwnBlocks(from) = from .. from + objects[from] - 1
        BY <2>1, ObjectLength
      <4>2. from \in Int
        BY <1>3, <2>1
      <4>3. objects[from] \in Nat
        BY <4>1, BlockNumbers
      <4> QED BY <4>1, <4>2, <4>3
    <3>3. start \in Int /\ c \in Int /\ start <= c
      BY <1>1, <1>4, BlockNumbers
    <3>4. from + c - start = c - start + from
      BY <3>2, <3>3
    <3>5. from + c - start \in OwnBlocks(from) <=> c - start < objects[from]
      <4> DEFINE n == objects[from]
      <4>1. n \in Nat /\ OwnBlocks(from) = from .. from + n - 1
        BY <3>2
      <4> HIDE DEF n
      <4>2. from + c - start \in OwnBlocks(from) <=> c - start < n
        BY <3>2, <3>3, <4>1
      <4> QED BY <4>2 DEF n
    <3> QED BY <3>1, <3>4, <3>5 DEF Copied
  <2>5. ASSUME NEW c \in AbstractHeap!Taken, c \notin AbstractHeap!Span(from, objects[from])
        PROVE  word'[c] = word[c]
    <3>1. PICK h \in Heads : c \in OwnBlocks(h)
      BY TakenIsOwned
    <3>2. c \in Blocks /\ c \notin span /\ c \notin OwnBlocks(from)
      BY <1>1, <2>1, <2>5, <3>1, OwnedIsUsed, ObjectLength
    <3> QED BY <1>1, <3>2
  <2>6. AbstractHeap!Move(start, n_free, r)
    <3> DEFINE taken == AbstractHeap!Taken
               old == AbstractHeap!Span(from, objects[from])
    <3>1. \A c \in taken \ old : word'[c] = word[c]
      BY <2>5
    <3> HIDE DEF taken, old
    <3>2. /\ roots[r] = from
          /\ from \in DOMAIN objects
          /\ span \subseteq Blocks \ taken
          /\ objects' = [o \in (DOMAIN objects \ {from}) \cup {start} |->
                           IF o = start THEN n_free ELSE objects[o]]
          /\ roots' = [roots EXCEPT ![r] = start]
          /\ \A c \in span :
                object_word'[c] = IF c - start < objects[from]
                                  THEN object_word[c - start + from] ELSE None
          /\ \A c \in taken \ old : object_word'[c] = object_word[c]
      BY <1>1, <1>2, <2>1, <2>2, <2>3, <2>4, <3>1 DEF taken
    <3> QED BY <3>2 DEF AbstractHeap!Move, span, taken, old
  <2> QED BY <1>1, <1>5, <2>6, OperationIsStep
<1> QED BY <1>6, <1>7

LEMMA ServeIsStep ==
    ASSUME GInv, HeapOK', phase \in {"idle", "alloc"}, NEW q \in Request,
           q.n_free = 0 \/ hint = 0, q.mover # None => Owned(q.mover), Serve(q)
    PROVE  AbstractHeap!HeapNext \/ UNCHANGED AbstractHeap!hvars
<1>1. HeapOK
  BY QuietHeap
<1>2. CASE UNCHANGED heap
  BY <1>2 DEF heap, AbstractHeap!hvars, objects, object_word, Heads, OwnBlocks
<1>3. ASSUME NEW r \in Roots, NEW fin \in BOOLEAN, NEW end \in Blocks, NEW n_free \in Nat,
             NEW from, Placed(r, fin, from, end, n_free)
      PROVE  AbstractHeap!HeapNext
  BY <1>1, <1>3, PlaceIsStep
<1> QED BY <1>2, <1>3, ServeFinds

LEMMA GcFreeIsStep ==
    ASSUME GInv, HeapOK', NEW r \in Roots, GcFree(r)
    PROVE  AbstractHeap!HeapNext
<1> DEFINE b == roots[r]
           chn == ChainOf(b, ftb \ {b})
           m == [o \in Heads \ {b} |-> objects[o]]
<1>1. /\ phase = "idle" /\ Owned(r)
      /\ kind' = [c \in Blocks |-> IF c \in chn THEN "FREE" ELSE kind[c]]
      /\ word' = [c \in Blocks |-> IF c \in chn THEN None ELSE word[c]]
      /\ roots' = [roots EXCEPT ![r] = None]
  BY DEF GcFree, Idle
<1>2. HeapOK
  BY <1>1, QuietHeap
<1>3. b \in Heads /\ b \in Blocks
  BY <1>1, <1>2 DEF Owned, HeapOK, Heads
<1>4. \A c \in Blocks : c \in chn <=> c \in OwnBlocks(b)
  BY <1>3, ChainInTable
<1> HIDE DEF chn
<1>5. /\ kind' = [c \in Blocks |-> IF c \in OwnBlocks(b) THEN "FREE" ELSE kind[c]]
      /\ word' = [c \in Blocks |-> IF c \in OwnBlocks(b) THEN None ELSE word[c]]
  BY <1>1, <1>4
<1>6. \A h \in Heads : h # b => \A c \in OwnBlocks(h) : c \in Blocks /\ c \notin OwnBlocks(b)
  BY <1>3, ObjectsDisjoint, OwnedIsUsed
<1>7. \A c \in Heads : c \in OwnBlocks(b) <=> c = b
  BY <1>3, OwnFacts, OwnedIsUsed DEF Heads
<1> HIDE DEF b
<1>8. Heads' = Heads \ {b}
  BY <1>5, <1>7 DEF Heads
<1>9. ASSUME NEW h \in Heads' PROVE Ends(kind', h, m[h])
  <2>1. h \in Heads /\ h # b /\ m[h] = objects[h]
    BY <1>8
  <2>2. \A d \in OwnBlocks(h) \ {h} : kind'[d] = kind[d]
    BY <1>5, <1>6, <2>1
  <2>3. \A e \in Blocks : ~(kind'[e] = "TAIL" /\ kind[e] # "TAIL")
    BY <1>5
  <2> DEFINE k == kind'
  <2>4. /\ \A d \in OwnBlocks(h) \ {h} : k[d] = kind[d]
        /\ \A e \in Blocks : k[e] = "TAIL" /\ kind[e] # "TAIL" => e - 1 \notin OwnBlocks(h)
    BY <2>2, <2>3
  <2> HIDE DEF k, m
  <2>5. Ends(k, h, objects[h])
    BY <2>1, <2>4, EndKept
  <2> QED BY <2>1, <2>5 DEF k
<1>10. objects' = m
  <2>1. m = [h \in Heads' |-> m[h]]
    BY <1>8
  <2> HIDE DEF m
  <2> QED BY <1>9, <2>1, ObjectsAfter
<1>11. object_word = word /\ object_word' = word'
  BY <1>2, QuietWords, QuietWordsAfter
<1>12. ASSUME NEW o \in DOMAIN objects', NEW c \in AbstractHeap!Span(o, objects'[o])
       PROVE  word'[c] = word[c]
  <2>1. o \in Heads /\ o # b /\ objects'[o] = objects[o]
    BY <1>10, <1>12
  <2>2. c \in OwnBlocks(o)
    BY <1>12, <2>1, ObjectLength
  <2> QED BY <1>5, <1>6, <2>1, <2>2
<1>13. roots[r] \in DOMAIN objects /\ DOMAIN objects = Heads
  BY <1>3, TakenIsOwned DEF b
<1>14. AbstractHeap!Release(r)
  <2>1. objects' = [o \in DOMAIN objects \ {roots[r]} |-> objects[o]]
    BY <1>10, <1>13 DEF b
  <2> QED BY <1>1, <1>11, <1>12, <1>13, <2>1 DEF AbstractHeap!Release
<1>15. objects' # objects
  BY <1>3, <1>10, <1>13
<1> QED BY <1>14, <1>15, OperationIsStep

(* An object changes its length, where it is: its first n blocks stay or   *)
(* become its own, and the others are, or become, free.                    *)
LEMMA ResizeIsStep ==
    ASSUME GInv, HeapOK', NEW r \in Roots, NEW n \in 1 .. MaxBlocks,
           Shrink(r, n) \/ Expand(r, n)
    PROVE  AbstractHeap!HeapNext
<1> DEFINE b == roots[r]
           s == objects[b]
           m == [objects EXCEPT ![b] = n]
<1>1. /\ phase = "idle" /\ Owned(r) /\ UNCHANGED roots
  BY DEF Shrink, Expand, Idle
<1>2. HeapOK /\ object_word = word /\ object_word' = word'
  BY <1>1, QuietHeap, QuietWords, QuietWordsAfter
<1>3. b \in Heads /\ b \in Blocks /\ kind[b] = "HEAD"
  BY <1>1, <1>2 DEF Owned, HeapOK, Heads
<1>4. /\ s \in 1 .. NBlocks /\ Ends(kind, b, s) /\ OwnBlocks(b) = b .. b + s - 1
      /\ OwnBlocks(b) = AbstractHeap!Span(b, s)
  BY <1>3, ObjectLength
<1>5. DOMAIN objects = Heads /\ AbstractHeap!Taken = UNION {OwnBlocks(h) : h \in Heads}
  BY TakenIsOwned
<1> HIDE DEF b, s
<1>6. /\ NBlocks \in Nat /\ Blocks = 0 .. NBlocks - 1 /\ b \in Nat /\ n \in Nat /\ n > 0
      /\ s \in Nat /\ s > 0 /\ b + s <= NBlocks
  BY <1>3, <1>4, BlockNumbers DEF Ends
(* The blocks up to the longer of the two lengths, and the rest.           *)
<1>7. /\ n # s /\ b + n <= NBlocks
      /\ \A c \in Blocks :
            /\ c \in b + 1 .. b + n - 1 => kind'[c] = "TAIL"
            /\ c > b /\ c >= b + n /\ c < b + s => kind'[c] = "FREE" /\ kind[c] = "TAIL"
            /\ c >= b + s /\ c < b + n => kind[c] = "FREE" /\ word'[c] = None
            /\ c <= b \/ (c >= b + n /\ c >= b + s) => kind'[c] = kind[c] /\ word'[c] = word[c]
            /\ c > b /\ c < b + n /\ c < b + s => word'[c] = word[c]
  <2>1. CASE Shrink(r, n)
    <3> DEFINE rest == {c \in OwnBlocks(b) : c >= b + n}
    <3>1. /\ rest # {}
          /\ kind' = [c \in Blocks |-> IF c \in rest THEN "FREE" ELSE kind[c]]
          /\ word' = [c \in Blocks |-> IF c \in rest THEN None ELSE word[c]]
      BY <2>1 DEF Shrink, b
    <3>2. n < s /\ \A c \in Blocks : c \in rest <=> c >= b + n /\ c < b + s
      BY <1>4, <1>6, <3>1
    <3>3. \A c \in Blocks : c > b /\ c < b + s => kind[c] = "TAIL"
      BY <1>4, <1>6 DEF Ends
    <3> HIDE DEF rest
    <3>4. ASSUME NEW c \in Blocks, c \in rest
          PROVE  kind'[c] = "FREE" /\ c > b /\ c >= b + n /\ c < b + s
      BY <1>6, <3>1, <3>2, <3>4
    <3>5. ASSUME NEW c \in Blocks, c \notin rest
          PROVE  kind'[c] = kind[c] /\ word'[c] = word[c] /\ ~(c >= b + n /\ c < b + s)
      BY <3>1, <3>2, <3>5
    <3> QED BY <1>6, <3>2, <3>3, <3>4, <3>5
  <2>2. CASE Expand(r, n)
    <3> DEFINE new == More(b, n)
    <3>1. /\ new # {} /\ FreeBehind(b, n)
          /\ kind' = [c \in Blocks |-> IF c \in new THEN "TAIL" ELSE kind[c]]
          /\ word' = [c \in Blocks |-> IF c \in new THEN None ELSE word[c]]
      BY <2>2 DEF Expand, b
    <3>2. s < n /\ \A c \in Int : c \in new <=> c >= b + s /\ c < b + n
      BY <1>4, <1>6, <3>1 DEF More
    <3>3. \A c \in Blocks : c > b /\ c < b + s => kind[c] = "TAIL"
      BY <1>4, <1>6 DEF Ends
    <3>4. \A c \in new : c \in Blocks /\ kind[c] = "FREE"
      BY <3>1 DEF FreeBehind
    <3>5. b + n <= NBlocks
      <4>1. b + n - 1 \in Int /\ b + n - 1 >= b + s /\ b + n - 1 < b + n
        BY <1>6, <3>2
      <4>2. b + n - 1 \in Blocks
        BY <3>2, <3>4, <4>1
      <4> QED BY <1>6, <4>2
    <3> HIDE DEF new
    <3>6. ASSUME NEW c \in Blocks, c \in new
          PROVE  /\ kind'[c] = "TAIL" /\ word'[c] = None /\ kind[c] = "FREE"
                 /\ c > b /\ c >= b + s /\ c < b + n
      BY <1>6, <3>1, <3>2, <3>4, <3>6
    <3>7. ASSUME NEW c \in Blocks, c \notin new
          PROVE  kind'[c] = kind[c] /\ word'[c] = word[c] /\ ~(c >= b + s /\ c < b + n)
      BY <1>6, <3>1, <3>2, <3>7
    <3> QED BY <1>6, <3>2, <3>3, <3>5, <3>6, <3>7
  <2> QED BY <2>1, <2>2
<1>8. Heads' = Heads
  <2>1. ASSUME NEW c \in Blocks PROVE kind'[c] \in {"HEAD", "MARK"} <=> kind[c] \in {"HEAD", "MARK"}
    <3>1. CASE c <= b \/ (c >= b + n /\ c >= b + s)
      BY <1>7, <3>1
    <3>2. CASE c > b /\ c < b + s
      <4>1. kind[c] = "TAIL"
        BY <1>4, <1>6, <3>2 DEF Ends
      <4>2. kind'[c] = "TAIL" \/ kind'[c] = "FREE"
        BY <1>6, <1>7, <3>2
      <4> QED BY <4>1, <4>2
    <3>3. CASE c >= b + s /\ c < b + n
      <4>1. kind[c] = "FREE" /\ c \in b + 1 .. b + n - 1
        BY <1>6, <1>7, <3>3
      <4> QED BY <1>7, <4>1
    <3> QED BY <1>6, <3>1, <3>2, <3>3
  <2> QED BY <2>1 DEF Heads
<1>9. ASSUME NEW h \in Heads, h # b
      PROVE  /\ Ends(kind', h, objects[h])
             /\ \A c \in OwnBlocks(h) : c \in Blocks /\ (c <= b \/ (c >= b + n /\ c >= b + s))
  <2>1. ASSUME NEW c \in OwnBlocks(h) PROVE c \in Blocks /\ (c < b \/ (c >= b + n /\ c >= b + s))
    <3>1. c \in Blocks /\ kind[c] # "FREE"
      BY <1>9, OwnedIsUsed
    <3>2. c \notin OwnBlocks(b)
      BY <1>3, <1>9, ObjectsDisjoint
    <3>3. c < b \/ c >= b + s
      BY <1>4, <1>6, <3>1, <3>2
    <3>4. c >= b + s => c >= b + n
      BY <1>6, <1>7, <3>1
    <3> QED BY <1>6, <3>1, <3>3, <3>4
  <2>2. \A d \in OwnBlocks(h) \ {h} : kind'[d] = kind[d]
    BY <1>6, <1>7, <2>1
  <2>3. ASSUME NEW e \in Blocks, kind'[e] = "TAIL", kind[e] # "TAIL", e - 1 \in OwnBlocks(h)
        PROVE  FALSE
    <3>1. ~(e <= b \/ (e >= b + n /\ e >= b + s))
      BY <1>7, <2>3
    <3>2. e - 1 < b \/ (e - 1 >= b + n /\ e - 1 >= b + s)
      BY <2>1, <2>3
    <3> QED BY <1>6, <3>1, <3>2
  <2> DEFINE k == kind'
  <2>4. /\ \A d \in OwnBlocks(h) \ {h} : k[d] = kind[d]
        /\ \A e \in Blocks : k[e] = "TAIL" /\ kind[e] # "TAIL" => e - 1 \notin OwnBlocks(h)
    BY <2>2, <2>3
  <2> HIDE DEF k
  <2>5. Ends(k, h, objects[h])
    BY <2>4, EndKept
  <2>6. \A c \in OwnBlocks(h) : c \in Blocks /\ (c <= b \/ (c >= b + n /\ c >= b + s))
    BY <1>6, <2>1
  <2> QED BY <2>5, <2>6 DEF k
<1>10. Ends(kind', b, n)
  <2>1. \A d \in b + 1 .. b + n - 1 : d \in Blocks /\ kind'[d] = "TAIL"
    BY <1>6, <1>7
  <2>2. ASSUME b + n < NBlocks PROVE kind'[b + n] # "TAIL"
    <3> DEFINE e == b + n
    <3>1. e \in Blocks /\ e > b /\ e - 1 \in Blocks
      BY <1>6, <2>2
    <3>2. CASE e < b + s
      BY <1>6, <1>7, <3>1, <3>2
    <3>3. CASE e > b + s
      <4>1. kind[e - 1] = "FREE"
        BY <1>6, <1>7, <3>1, <3>3
      <4>2. kind[e] # "TAIL"
        BY <1>2, <3>1, <4>1 DEF HeapOK
      <4>3. kind'[e] = kind[e]
        BY <1>6, <1>7, <3>1, <3>3
      <4> QED BY <4>2, <4>3
    <3> QED BY <1>6, <1>7, <3>2, <3>3
  <2> QED BY <1>6, <1>7, <2>1, <2>2 DEF Ends
<1>11. objects' = m
  <2>1. m = [h \in Heads' |-> m[h]] /\ m[b] = n /\ \A h \in Heads : h # b => m[h] = objects[h]
    BY <1>3, <1>5, <1>8 DEF objects
  <2> HIDE DEF m
  <2>2. \A h \in Heads' : Ends(kind', h, m[h])
    BY <1>8, <1>9, <1>10, <2>1
  <2> QED BY <2>1, <2>2, ObjectsAfter
<1>12. \A c \in AbstractHeap!Span(b, n) :
          c \in Blocks /\ (c \notin AbstractHeap!Taken \/ c \in AbstractHeap!Span(b, s))
  <2>1. ASSUME NEW c \in b .. b + n - 1 PROVE c \in Blocks /\ (kind[c] = "FREE" \/ c \in b .. b + s - 1)
    <3>1. c \in Blocks
      BY <1>6, <1>7
    <3>2. c >= b + s => kind[c] = "FREE"
      BY <1>6, <1>7, <3>1
    <3> QED BY <1>6, <3>1, <3>2
  <2>2. \A c \in Blocks : kind[c] = "FREE" => c \notin AbstractHeap!Taken
    BY <1>5, OwnedIsUsed
  <2> QED BY <2>1, <2>2 DEF AbstractHeap!Span
<1>13. ASSUME NEW c \in AbstractHeap!Taken,
              c \notin AbstractHeap!Span(b, s) \/ c \in AbstractHeap!Span(b, n)
       PROVE  word'[c] = word[c]
  <2>1. PICK h \in Heads : c \in OwnBlocks(h)
    BY <1>5
  <2>2. CASE h # b
    BY <1>7, <1>9, <2>1, <2>2
  <2>3. CASE h = b
    <3>1. c \in b .. b + s - 1 /\ c \in b .. b + n - 1 /\ c \in Blocks
      BY <1>4, <1>13, <2>1, <2>3, OwnedIsUsed DEF AbstractHeap!Span
    <3> QED BY <1>6, <1>7, <3>1
  <2> QED BY <2>2, <2>3
<1>14. ASSUME NEW c \in AbstractHeap!Span(b, n), c \notin AbstractHeap!Span(b, s)
       PROVE  word'[c] = None
  <2>1. c \in b .. b + n - 1 /\ c \notin b .. b + s - 1 /\ c \in Blocks
    BY <1>12, <1>14 DEF AbstractHeap!Span
  <2> QED BY <1>6, <1>7, <2>1
<1>15. AbstractHeap!Resize(r, n)
  <2> DEFINE taken == AbstractHeap!Taken
             old == AbstractHeap!Span(b, s)
             span == AbstractHeap!Span(b, n)
  <2>1. /\ \A c \in span : c \in Blocks /\ (c \notin taken \/ c \in old)
        /\ \A c \in taken : c \notin old \/ c \in span => word'[c] = word[c]
        /\ \A c \in span \ old : word'[c] = None
    BY <1>12, <1>13, <1>14
  <2> HIDE DEF taken, old, span
  <2>2. span \subseteq (Blocks \ taken) \cup old
    BY <2>1
  <2>3. /\ roots[r] = b /\ b \in DOMAIN objects /\ objects[b] = s
        /\ objects' = [objects EXCEPT ![b] = n]
    BY <1>3, <1>5, <1>11 DEF b, s
  <2> HIDE DEF m
  <2> QED BY <1>1, <1>2, <2>1, <2>2, <2>3 DEF AbstractHeap!Resize, taken, old, span
<1>16. objects' # objects
  <2>1. m[b] = n /\ objects[b] = s
    BY <1>3, <1>5 DEF s
  <2> QED BY <1>7, <1>11, <2>1
<1>17. n \in 1 .. NBlocks
  BY <1>6, <1>7
<1> QED BY <1>3, <1>15, <1>16, <1>17, OperationIsStep

(* The program copies pointers: no object changes.                         *)
LEMMA UseIsStep ==
    ASSUME GInv, HeapOK', NEW r \in Roots, NEW s \in Roots, NEW b \in Blocks,
           Load(r, s, b) \/ Store(r, s, b) \/ Drop(r)
    PROVE  AbstractHeap!HeapNext \/ UNCHANGED AbstractHeap!hvars
<1>1. /\ phase = "idle" /\ UNCHANGED kind
      /\ \/ roots' = [roots EXCEPT ![r] = word[b]] /\ UNCHANGED word
            /\ roots[s] # None /\ b \in OwnBlocks(roots[s])
         \/ word' = [word EXCEPT ![b] = roots[r]] /\ UNCHANGED roots
            /\ roots[s] # None /\ b \in OwnBlocks(roots[s])
         \/ roots' = [roots EXCEPT ![r] = None] /\ UNCHANGED word
  BY DEF Load, Store, Drop, Idle
<1>2. HeapOK /\ object_word = word /\ object_word' = word'
  BY <1>1, QuietHeap, QuietWords, QuietWordsAfter
<1>3. objects' = objects
  BY <1>1 DEF objects, Heads, OwnBlocks
<1>4. roots[s] # None /\ b \in OwnBlocks(roots[s]) => b \in AbstractHeap!Taken
  BY <1>2, TakenIsOwned DEF HeapOK
<1>5. CASE UNCHANGED <<word, roots>>
  BY <1>2, <1>3, <1>5 DEF AbstractHeap!hvars
<1>6. CASE UNCHANGED word /\ roots' # roots
  <2>1. \E p \in {None} \cup {word[c] : c \in AbstractHeap!Taken} :
           roots' = [roots EXCEPT ![r] = p]
    BY <1>1, <1>4, <1>6
  <2>2. AbstractHeap!Use
    BY <1>2, <1>3, <1>6, <2>1 DEF AbstractHeap!Use
  <2> QED BY <2>2 DEF AbstractHeap!HeapNext
<1>7. CASE UNCHANGED roots /\ word' # word
  <2>1. b \in AbstractHeap!Taken /\ word' = [word EXCEPT ![b] = roots[r]]
    BY <1>1, <1>4, <1>7
  <2>2. AbstractHeap!Use
    BY <1>2, <1>3, <1>7, <2>1 DEF AbstractHeap!Use
  <2> QED BY <2>2 DEF AbstractHeap!HeapNext
<1> QED BY <1>1, <1>5, <1>6, <1>7

(* Heap finds the same objects reachable as Gc.                            *)
IsHeapReach(f) ==
    f = [i \in Nat |->
            IF i = 0 THEN {roots[r] : r \in Roots} \ {None}
            ELSE LET R == f[i - 1] IN
                 R \cup UNION {AbstractHeap!PointsTo(b) : b \in R \cap DOMAIN objects}]

LEMMA SameReachable ==
    ASSUME GInv
    PROVE  AbstractHeap!Reachable = Reachable
<1> DEFINE f == CHOOSE g : IsHeapReach(g)
<1>1. \A b \in Heads : AbstractHeap!PointsTo(b) = PointsTo(b)
  <2> SUFFICES ASSUME NEW b \in Heads PROVE AbstractHeap!PointsTo(b) = PointsTo(b)
    OBVIOUS
  <2>1. OwnBlocks(b) = AbstractHeap!Span(b, objects[b])
    BY ObjectLength
  <2>2. \A c \in OwnBlocks(b) : object_word[c] = word[c]
    BY WordsIn
  <2> QED BY <2>1, <2>2 DEF AbstractHeap!PointsTo, PointsTo
<1>2. \A R : R \cup UNION {AbstractHeap!PointsTo(b) : b \in R \cap DOMAIN objects} = Step(R)
  <2>1. DOMAIN objects = Heads
    BY TakenIsOwned
  <2> QED BY <1>1, <2>1 DEF Step
<1>3. \A g : IsHeapReach(g) <=> IsReach(g)
  <2> SUFFICES ASSUME NEW g PROVE IsHeapReach(g) <=> IsReach(g)
    OBVIOUS
  <2>1. IsHeapReach(g) <=> g = [i \in Nat |-> IF i = 0 THEN RootSet ELSE Step(g[i - 1])]
    BY <1>2 DEF IsHeapReach, RootSet
  <2>2. IsReach(g) <=> g = [i \in Nat |-> IF i = 0 THEN RootSet ELSE Step(g[i - 1])]
    BY DEF IsReach, RootSet, Step
  <2> QED BY <2>1, <2>2
<1>4. IsReach(f)
  <2>1. \E g : IsHeapReach(g)
    BY <1>3, ReachExists
  <2>2. IsHeapReach(f)
    BY <2>1
  <2> QED BY <1>3, <2>2
<1>5. AbstractHeap!ReachableIn = f
  BY Zenon DEF AbstractHeap!ReachableIn, IsHeapReach
<1> HIDE DEF f
<1>6. f[0] = RootSet /\ \A i \in Nat : f[i + 1] = Step(f[i])
  <2>1. f = [i \in Nat |-> IF i = 0 THEN RootSet ELSE Step(f[i - 1])]
    BY <1>4 DEF IsReach, RootSet, Step
  <2> QED BY <2>1
<1>7. f[NBlocks] = ReachableIn[NBlocks]
  <2> DEFINE T == {i \in Nat : f[i] = ReachableIn[i]}
  <2>1. 0 \in T /\ \A i \in Nat : i \in T => i + 1 \in T
    BY <1>6, ReachUnfolds
  <2> HIDE DEF T
  <2>2. NBlocks \in T
    BY <2>1, BlockNumbers, SetInduction
  <2> QED BY <2>2 DEF T
<1>8. AbstractHeap!Cardinality(Blocks) = NBlocks
  <2>1. AbstractHeap!Cardinality(Blocks) = Cardinality(Blocks)
    BY Zenon DEF AbstractHeap!Cardinality, Cardinality
  <2> QED BY <2>1, BlocksFinite
<1> QED BY <1>5, <1>7, <1>8 DEF AbstractHeap!Reachable, Reachable

(* The objects whose head and tails stay.                                  *)
LEMMA ObjectsStay ==
    ASSUME Heads' \subseteq Heads,
           \A h \in Heads' : /\ OwnBlocks(h)' = OwnBlocks(h)
                             /\ \A c \in OwnBlocks(h) : word'[c] = word[c]
    PROVE  /\ objects' = [h \in Heads' |-> objects[h]]
           /\ \A h \in Heads' : \A c \in OwnBlocks(h) : object_word'[c] = object_word[c]
           /\ Heads' = Heads => UNCHANGED <<objects, object_word>>
<1>1. objects' = [h \in Heads' |-> objects[h]]
  BY DEF objects
<1>2. Heads \subseteq Blocks
  BY DEF Heads
<1>3. ASSUME NEW h \in Heads', NEW c \in OwnBlocks(h) PROVE object_word'[c] = object_word[c]
  <2>1. c \in Blocks /\ h \in Heads
    BY <1>2, <1>3, OwnFacts
  <2>2. object_word'[c] = word'[c]
    BY <1>3, <2>1, WordsAfter
  <2> QED BY <1>3, <2>1, <2>2, WordsIn
<1>4. ASSUME Heads' = Heads PROVE UNCHANGED <<objects, object_word>>
  <2>1. objects' = objects
    BY <1>1, <1>4 DEF objects
  <2>2. ASSUME NEW c \in Blocks PROVE object_word'[c] = object_word[c]
    <3>1. CASE \E h \in Heads : c \in OwnBlocks(h)
      BY <1>3, <1>4, <3>1
    <3>2. CASE ~\E h \in Heads : c \in OwnBlocks(h)
      <4>1. object_word'[c] = None
        BY <1>4, <3>2, WordsAfter
      <4>2. object_word[c] = None
        BY <3>2, WordsIn, TakenIsOwned
      <4> QED BY <4>1, <4>2
    <3> QED BY <3>1, <3>2
  <2>3. object_word = [c \in Blocks |-> object_word[c]]
    BY DEF object_word
  <2>4. object_word' = [c \in Blocks |-> object_word'[c]]
    BY WordsAfter
  <2>5. object_word' = object_word
    BY <2>2, <2>3, <2>4
  <2> QED BY <2>1, <2>5
<1> QED BY <1>1, <1>3, <1>4

(* The sweep takes one object after the other, each that it takes with its *)
(* head, and only what nothing reachable points to.                        *)
LEMMA SweepIsStep ==
    ASSUME GInv, NEW b \in Blocks, Sweeps(b)
    PROVE  AbstractHeap!HeapNext \/ UNCHANGED AbstractHeap!hvars
<1>1. /\ phase = "sweep" /\ b >= block /\ kind[b] # "FREE" /\ UNCHANGED roots
      /\ Swept(b) \/ Raises
  BY SweepFacts
<1>2. Heads' = Heads \/ (Heads' = Heads \ {b} /\ kind[b] = "HEAD")
  <2>1. CASE Raises
    BY <2>1 DEF Raises, Heads
  <2>2. CASE Swept(b)
    BY <2>2 DEF Swept, SweptAs, Heads
  <2> QED BY <1>1, <2>1, <2>2
<1>3. \A h \in Heads' : h \in Heads /\ OwnBlocks(h)' = OwnBlocks(h)
                        /\ \A c \in OwnBlocks(h) : word'[c] = word[c]
  BY <1>2, HeadKept
<1>4. /\ objects' = [h \in Heads' |-> objects[h]]
      /\ \A h \in Heads' : \A c \in OwnBlocks(h) : object_word'[c] = object_word[c]
      /\ Heads' = Heads => UNCHANGED <<objects, object_word>>
  BY <1>3, ObjectsStay
<1>5. CASE Heads' = Heads
  BY <1>1, <1>4, <1>5 DEF AbstractHeap!hvars
<1>6. CASE Heads' = Heads \ {b} /\ kind[b] = "HEAD"
  <2>1. DOMAIN objects = Heads /\ b \in Heads
    BY <1>6, TakenIsOwned DEF Heads
  <2>2. b \notin AbstractHeap!Reachable
    <3>1. b \notin Live
      BY <1>1, <1>6, BlockNumbers DEF Live, GInv, GTypes
    <3>2. Reachable \subseteq Live
      BY ReachableIsLive, BlockNumbers DEF Reachable
    <3> QED BY <3>1, <3>2, SameReachable
  <2>3. objects' = [o \in DOMAIN objects \ {b} |-> objects[o]]
    BY <1>4, <1>6, <2>1
  <2>4. ASSUME NEW o \in DOMAIN objects', NEW c \in AbstractHeap!Span(o, objects'[o])
        PROVE  object_word'[c] = object_word[c]
    <3>1. o \in Heads' /\ o \in Heads /\ objects'[o] = objects[o]
      BY <1>6, <2>1, <2>3
    <3>2. c \in OwnBlocks(o)
      BY <2>4, <3>1, ObjectLength
    <3> QED BY <1>4, <3>1, <3>2
  <2>5. AbstractHeap!Reclaim(b)
    BY <1>1, <2>1, <2>2, <2>3, <2>4 DEF AbstractHeap!Reclaim
  <2>6. objects' # objects
    BY <2>1, <2>3
  <2> QED BY <2>5, <2>6 DEF AbstractHeap!HeapNext
<1> QED BY <1>2, <1>5, <1>6

(* What neither takes nor frees a block does not show.                     *)
LEMMA SameTables ==
    ASSUME UNCHANGED <<word, roots>>,
           \A b \in Blocks : /\ kind'[b] = "TAIL" <=> kind[b] = "TAIL"
                             /\ kind'[b] \in {"HEAD", "MARK"} <=> kind[b] \in {"HEAD", "MARK"}
    PROVE  UNCHANGED AbstractHeap!hvars
<1>1. Heads' = Heads
  BY DEF Heads
<1>2. Heads \subseteq Blocks
  BY DEF Heads
<1>3. \A h \in Heads' : /\ OwnBlocks(h)' = OwnBlocks(h)
                        /\ \A c \in OwnBlocks(h) : word'[c] = word[c]
  BY <1>1, <1>2, OwnBlocksKept
<1>4. UNCHANGED <<objects, object_word>>
  BY <1>1, <1>3, ObjectsStay
<1> QED BY <1>4 DEF AbstractHeap!hvars

LEMMA SameHeap ==
    ASSUME UNCHANGED <<kind, word, roots>>
    PROVE  UNCHANGED AbstractHeap!hvars
BY SameTables

LEMMA MarkDoesNotShow ==
    ASSUME GInv, TraceRoot \/ ScanWord
    PROVE  UNCHANGED AbstractHeap!hvars
<1>1. ASSUME NEW ptr \in Blocks, kind[ptr] = "HEAD", kind' = [kind EXCEPT ![ptr] = "MARK"],
             UNCHANGED <<word, roots>>
      PROVE  UNCHANGED AbstractHeap!hvars
  <2>1. kind \in [Blocks -> Kinds]
    BY DEF GInv, GTypes
  <2>2. \A b \in Blocks : /\ kind'[b] = "TAIL" <=> kind[b] = "TAIL"
                          /\ kind'[b] \in {"HEAD", "MARK"} <=> kind[b] \in {"HEAD", "MARK"}
    BY <1>1, <2>1
  <2> QED BY <1>1, <2>2, SameTables
<1>2. CASE TraceRoot
  <2> DEFINE i == FirstOf(RootsLeft)
  <2>1. RootsLeft # {} /\ kind' = [kind EXCEPT ![roots[i]] = "MARK"] /\ UNCHANGED <<word, roots>>
    BY <1>2 DEF TraceRoot
  <2>2. RootsLeft \in SUBSET Nat /\ RootsLeft \in SUBSET Roots
    BY BlockNumbers DEF RootsLeft, Roots, GInv, GTypes
  <2>3. i \in RootsLeft
    BY <2>1, <2>2, FirstOfLeast
  <2>4. roots[i] \in Blocks /\ kind[roots[i]] = "HEAD"
    <3> HIDE DEF i
    <3> QED BY <2>2, <2>3 DEF RootsLeft, Unmarked, GInv, GTypes
  <2> QED BY <1>1, <2>1, <2>4
<1>3. CASE ScanWord
  <2> DEFINE w == FirstOf(WordsLeft)
  <2>1. WordsLeft # {} /\ kind' = [kind EXCEPT ![word[w]] = "MARK"] /\ UNCHANGED <<word, roots>>
    BY <1>3 DEF ScanWord, MarkAndPush
  <2>2. WordsLeft \in SUBSET Nat
    BY BlockNumbers DEF WordsLeft
  <2>3. w \in WordsLeft
    BY <2>1, <2>2, FirstOfLeast
  <2>4. word[w] \in Blocks /\ kind[word[w]] = "HEAD"
    <3> HIDE DEF w
    <3> QED BY <2>3 DEF WordsLeft, Unmarked, GInv, GTypes
  <2> QED BY <1>1, <2>1, <2>4
<1> QED BY <1>2, <1>3

LEMMA AllocIsStep ==
    ASSUME GInv, GInv', NEW q \in Request, q.n_free = 0, q.mover # None => Owned(q.mover),
           StartAlloc(q)
    PROVE  AbstractHeap!HeapNext \/ UNCHANGED AbstractHeap!hvars
<1>1. phase = "idle"
  BY DEF StartAlloc, Idle
<1>2. CASE Serve(q) /\ UNCHANGED <<lock, gc>>
  <2>1. HeapOK'
    BY <1>1, <1>2, QuietHeapAfter DEF gc
  <2> QED BY <1>1, <1>2, <2>1, ServeIsStep
<1>3. CASE CollectStart([q EXCEPT !.n_free = Trailing])
  BY <1>3, SameHeap DEF CollectStart, heap
<1> QED BY <1>2, <1>3 DEF StartAlloc

LEMMA AllocAgainIsStep ==
    ASSUME GInv, GInv', AllocAgain
    PROVE  AbstractHeap!HeapNext \/ UNCHANGED AbstractHeap!hvars
<1>1. /\ phase = "alloc" /\ phase' = "idle"
      /\ Serve(request) \/ UNCHANGED heap
  BY DEF AllocAgain
<1>2. /\ request \in Request /\ hint = 0
      /\ request.mover # None => Owned(request.mover)
  BY <1>1 DEF GInv, GTypes, HintInv, MoverOwns
<1>3. HeapOK'
  BY <1>1, QuietHeapAfter
<1>4. CASE Serve(request)
  BY <1>1, <1>2, <1>3, <1>4, ServeIsStep
<1>5. CASE UNCHANGED heap
  BY <1>5, SameHeap DEF heap
<1> QED BY <1>1, <1>4, <1>5

LEMMA ProgramIsStep ==
    ASSUME GInv, GInv', Program
    PROVE  AbstractHeap!HeapNext \/ UNCHANGED AbstractHeap!hvars
<1> DEFINE Done == AbstractHeap!HeapNext \/ UNCHANGED AbstractHeap!hvars
<1>1. ASSUME NEW n \in 1 .. MaxBlocks, GcAlloc(n) PROVE Done
  <2> DEFINE q == [n |-> n, n_free |-> 0, mover |-> None]
  <2>1. q \in Request /\ q.n_free = 0 /\ q.mover = None /\ StartAlloc(q)
    BY <1>1 DEF GcAlloc, Request
  <2> HIDE DEF q
  <2> QED BY <2>1, AllocIsStep
<1>2. ASSUME NEW n \in 1 .. MaxBlocks, NEW r \in Roots, MoveObject(r, n) PROVE Done
  <2> DEFINE q == [n |-> n, n_free |-> 0, mover |-> r]
  <2>1. q \in Request /\ q.n_free = 0 /\ q.mover = r /\ StartAlloc(q) /\ Owned(r)
    BY <1>2 DEF MoveObject, Request
  <2> HIDE DEF q
  <2> QED BY <2>1, AllocIsStep
<1>3. UNCHANGED gc /\ Idle => HeapOK'
  BY QuietHeapAfter DEF Idle, gc
<1>4. ASSUME NEW r \in Roots, NEW n \in 1 .. MaxBlocks, Shrink(r, n) \/ Expand(r, n) PROVE Done
  <2>1. HeapOK'
    BY <1>3, <1>4 DEF Shrink, Expand
  <2> QED BY <1>4, <2>1, ResizeIsStep
<1>5. ASSUME NEW r \in Roots, GcFree(r) PROVE Done
  <2>1. HeapOK'
    BY <1>3, <1>5 DEF GcFree
  <2> QED BY <1>5, <2>1, GcFreeIsStep
<1>6. ASSUME NEW r \in Roots, NEW s \in Roots, NEW b \in Blocks,
             Load(r, s, b) \/ Store(r, s, b) \/ Drop(r)
      PROVE  Done
  <2>1. HeapOK'
    BY <1>3, <1>6 DEF Load, Store, Drop
  <2> QED BY <1>6, <2>1, UseIsStep
<1>7. ASSUME NEW r \in Roots, Drop(r) PROVE Done
  BY <1>6, <1>7, FirstBlock
<1>8. CASE GcCollect
  BY <1>8, SameHeap DEF GcCollect, CollectStart, heap
<1> QED BY <1>1, <1>2, <1>4, <1>5, <1>6, <1>7, <1>8 DEF Program

LEMMA HeapStep == GInv /\ GInv' /\ [Next]_vars => [AbstractHeap!HeapNext]_(AbstractHeap!hvars)
<1> SUFFICES ASSUME GInv, GInv', [Next]_vars
             PROVE  AbstractHeap!HeapNext \/ UNCHANGED AbstractHeap!hvars
  OBVIOUS
<1>1. CASE Program
  BY <1>1, ProgramIsStep
<1>2. CASE Pop \/ RescanStart \/ RescanBlock \/ SweepStart \/ CollectEnd
  <2>1. UNCHANGED <<kind, word, roots>>
    BY <1>2 DEF Pop, RescanStart, RescanBlock, SweepStart, CollectEnd, heap
  <2> QED BY <2>1, SameHeap
<1>3. CASE UNCHANGED vars
  BY <1>3, SameHeap DEF vars, heap
<1> QED BY <1>1, <1>2, <1>3, MarkDoesNotShow, SweepIsStep, AllocAgainIsStep
    DEF Next, Collector, Sweeps

LEMMA HeapStart == Init => AbstractHeap!HeapInit
<1> SUFFICES ASSUME Init PROVE AbstractHeap!HeapInit
  OBVIOUS
<1>1. Heads = {}
  BY DEF Init, Heads
<1>2. objects = <<>>
  BY <1>1 DEF objects
<1>3. object_word = [b \in Blocks |-> None]
  BY <1>1 DEF object_word
<1> QED BY <1>2, <1>3 DEF Init, AbstractHeap!HeapInit

(* The allocator and the collector keep what Heap promises the program:    *)
(* objects do not overlap, keep their words and their length while the     *)
(* program uses them, and go only when their owner frees them or when      *)
(* nothing reachable points to them (gc.c:197-329, 425-774).               *)
THEOREM HeapCorrect == Spec => ImplementsHeap
BY HeapStart, HeapStep, GInvCorrect, PTL DEF Spec, ImplementsHeap, AbstractHeap!HeapSpec

=============================================================================
