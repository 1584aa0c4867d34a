-------------------------------- MODULE Gc --------------------------------
(***************************************************************************)
(* py/gc.c: the allocation table, gc_alloc, gc_realloc, gc_free and the    *)
(* mark and sweep collector that gc_collect of stmhal/gccollect.c drives.  *)
(*                                                                         *)
(* A block is 16 bytes; what the collector reads in it is one pointer      *)
(* here, None if it does not point to the start of a block of the pool.    *)
(* The roots stand for mp_state_ctx, the registers and the C stack.  The   *)
(* program uses only pointers to objects it has not given up.  A           *)
(* collection is cut at every pointer it looks at.                         *)
(*                                                                         *)
(* The allocation table is followed in memory by the finaliser table, and  *)
(* a chain of tails is followed without a look at where the first ends.    *)
(***************************************************************************)
EXTENDS Integers, Sequences, FiniteSets

CONSTANTS gc_alloc_table_byte_len,
          BLOCKS_PER_ATB,              \* blocks in a byte of the table
          MICROPY_ALLOC_GC_STACK_SIZE,
          NRoots,                      \* pointers the program holds (a bound)
          MaxBlocks,                   \* largest request (a bound)
          MaxWords,                    \* words that hold a pointer (a bound)
          MaxFinalisers,               \* finaliser bits set (a bound)
          MaxFree,                     \* free blocks when a collection starts
                                       \* (a bound)
          None

Positive == Nat \ {0}

ASSUME GcAssumption ==
    /\ gc_alloc_table_byte_len \in Positive /\ BLOCKS_PER_ATB \in Positive
    /\ MICROPY_ALLOC_GC_STACK_SIZE \in Positive /\ NRoots \in Nat
    /\ MaxBlocks \in Nat /\ MaxWords \in Nat
    /\ MaxFinalisers \in Nat /\ MaxFree \in Nat /\ None \notin Int

NBlocks == gc_alloc_table_byte_len * BLOCKS_PER_ATB
Blocks  == 0 .. NBlocks - 1
Roots   == 1 .. NRoots

AtbFromBlock(b) == b \div BLOCKS_PER_ATB

VARIABLES
    kind,       \* the allocation table: AT_FREE, AT_HEAD, AT_TAIL, AT_MARK
    ftb,        \* the finaliser table: blocks whose bit is set
    word,       \* the pointer in each block
    roots,      \* the pointers of the program
    hint,       \* gc_last_free_atb_index
    lock,       \* gc_lock_depth
    phase,      \* where a collection is, "idle" if none runs
    root,       \* the next root gc_collect_root traces
    stack,      \* gc_stack
    overflow,   \* gc_stack_overflow
    chain,      \* the words of the popped object still to be looked at
    block,      \* the counter of the rescan and of the sweep
    free_tail,
    request,    \* the gc_alloc that waits for the collection, or None
    fault       \* what broke the heap, "none" as long as nothing did

heap == <<kind, ftb, word, roots>>
gc   == <<phase, root, stack, overflow, chain, block, free_tail, request>>
vars == <<heap, hint, lock, gc, fault>>

----------------------------------------------------------------------------
(* The allocation table.                                                   *)

\* The blocks from b over all the tails that follow, the way gc_drain_stack
\* and gc_free find them.  Past the last block ATB_GET_KIND reads the
\* finaliser table, bits, where the bits of two blocks look like one entry.
ChainOf(b, bits) ==
    LET IsTail(c) == IF c \in Blocks THEN kind[c] = "TAIL"
                     ELSE /\ 2 * (c - NBlocks) + 1 \in bits
                          /\ 2 * (c - NBlocks) \notin bits
    IN {c \in b .. NBlocks + NBlocks : \A d \in b + 1 .. c : IsTail(d)}

\* The same within the table, as gc_realloc counts n_blocks.
OwnBlocks(b) ==
    {c \in b .. NBlocks - 1 : \A d \in b + 1 .. c : kind[d] = "TAIL"}

Heads == {b \in Blocks : kind[b] \in {"HEAD", "MARK"}}

\* n_free when the search that began at block first with n_free = carry has
\* looked at block i.
RunAt(first, carry, i) ==
    LET Used == {b \in first .. i : kind[b] # "FREE"} IN
    IF Used = {} THEN carry + i - first + 1
    ELSE i - CHOOSE u \in Used : \A v \in Used : v <= u

\* The blocks at which the search for n blocks ends.
Found(first, carry, n) ==
    {i \in first .. NBlocks - 1 :
        /\ RunAt(first, carry, i) >= n
        /\ \A j \in first .. i - 1 : RunAt(first, carry, j) < n}

\* n_free after a search in vain.
Trailing ==
    LET first == hint * BLOCKS_PER_ATB IN
    IF first = NBlocks THEN 0 ELSE RunAt(first, 0, NBlocks - 1)

Idle == phase = "idle" /\ fault = "none"

\* Only the owner of an object frees or reallocates it: nothing else points
\* to it.
Owned(r) ==
    /\ roots[r] # None
    /\ \A s \in Roots \ {r} : roots[s] # roots[r]
    /\ \A b \in Blocks : word[b] # roots[r]

Init ==
    /\ kind = [b \in Blocks |-> "FREE"] /\ ftb = {}
    /\ word = [b \in Blocks |-> None] /\ roots = [r \in Roots |-> None]
    /\ hint = 0 /\ lock = 0
    /\ phase = "idle" /\ root = 1 /\ stack = <<>> /\ overflow = FALSE
    /\ chain = {} /\ block = 0 /\ free_tail = FALSE /\ request = None
    /\ fault = "none"

----------------------------------------------------------------------------
(* gc_alloc, gc_realloc, gc_free.  Left out is what changes nothing: calls *)
(* with the heap locked by the program (gc_lock), a gc_alloc that finds no *)
(* room while gc_disable keeps it from collecting.  A gc_alloc that first  *)
(* collects because of gc_alloc_threshold is a GcCollect and a GcAlloc.    *)

\* gc_collect_start: the roots are to be traced, then request is served.
CollectStart(q) ==
    /\ Cardinality({b \in Blocks : kind[b] = "FREE"}) <= MaxFree
    /\ lock' = lock + 1 /\ overflow' = FALSE /\ stack' = <<>>
    /\ phase' = "roots" /\ root' = 1 /\ chain' = {}
    /\ request' = q
    /\ UNCHANGED <<heap, hint, block, free_tail, fault>>

\* The bits of the finaliser table that freeing these blocks clears because
\* they are past the last block.
PastBits(blocks) ==
    UNION {{2 * (c - NBlocks), 2 * (c - NBlocks) + 1} : c \in blocks \ Blocks}

\* Faulty variant, for the mutants: the hint is not moved.
HintAfterFree_Kept(b, last) == last

\* gc_last_free_atb_index when block b becomes free.
HintAfterFree(b, last) == IF AtbFromBlock(b) < last THEN AtbFromBlock(b) ELSE last

\* Faulty variant: nothing is copied.
Copied_Not(from, c) == None

\* The memcpy of gc_realloc: what was in block c of the object at from; the
\* new blocks are clear.
Copied(from, c) ==
    IF c \in OwnBlocks(from) THEN word[c] ELSE None

\* found: the run ends at block end and is for root r.  A gc_realloc copies
\* the old object, at from, to it and frees that.
Place(r, has_finaliser, from, end, n_free) ==
    LET start == end - n_free + 1
        new   == start .. end
        bits  == (IF has_finaliser THEN ftb \cup {start} ELSE ftb) \ {from}
        gone  == IF from = None THEN {} ELSE ChainOf(from, bits)
        next  == IF n_free = 1 THEN AtbFromBlock(end + 1) ELSE hint
    IN
    /\ start >= 0
    /\ kind' = [b \in Blocks |-> IF b = start THEN "HEAD"
                                 ELSE IF b \in new THEN "TAIL"
                                 ELSE IF b \in gone THEN "FREE" ELSE kind[b]]
    /\ word' = [b \in Blocks |->
                   IF b \in new
                   THEN IF from = None THEN None ELSE Copied(from, from + b - start)
                   ELSE IF b \in gone THEN None ELSE word[b]]
    /\ ftb' = bits \ PastBits(gone)
    /\ hint' = IF from = None THEN next ELSE HintAfterFree(from, next)
    /\ roots' = [roots EXCEPT ![r] = start]
    /\ UNCHANGED fault

\* A run that starts before the pool: its head and its tails are written
\* over what is there, whatever that is.
Misplace(end, n_free) ==
    /\ end - n_free + 1 < 0
    /\ fault' = "before_pool"
    /\ UNCHANGED <<heap, hint>>

\* Faulty variant: the bit of an object that moves is forgotten.
FtbState_Lost(b) == FALSE

FtbState(b) == b \in ftb

\* The search of gc_alloc for q.n blocks finds a run.  q.mover is the root
\* whose object gc_realloc moves, None if the request is for a new object;
\* where that goes and whether it has a finaliser matters only now.  What
\* has one, an open file, is longer than a block.
Serve(q) ==
    LET first == hint * BLOCKS_PER_ATB IN
    \E end \in Found(first, q.n_free, q.n) :
        LET n_free == RunAt(first, q.n_free, end) IN
        \/ Misplace(end, n_free)
        \/ /\ q.mover # None
           /\ Place(q.mover, FtbState(roots[q.mover]), roots[q.mover], end, n_free)
        \/ /\ q.mover = None
           /\ \E r \in Roots, has_finaliser \in BOOLEAN :
                  /\ has_finaliser => q.n > 1 /\ Cardinality(ftb) < MaxFinalisers
                  /\ Place(r, has_finaliser, None, end, n_free)

InVain(q) == Found(hint * BLOCKS_PER_ATB, q.n_free, q.n) = {}

\* gc_alloc up to the collection it may need.
StartAlloc(q) ==
    /\ Idle
    /\ \/ Serve(q) /\ UNCHANGED <<lock, gc>>
       \/ InVain(q) /\ CollectStart([q EXCEPT !.n_free = Trailing])

GcAlloc(n) == StartAlloc([n |-> n, n_free |-> 0, mover |-> None])

\* gc_alloc after the collection: it searches again, with the n_free that
\* the search before the collection has left, or returns NULL.
AllocAgain ==
    /\ phase = "alloc" /\ fault = "none"
    /\ \/ Serve(request)
       \/ InVain(request) /\ UNCHANGED <<heap, hint, fault>>
    /\ phase' = "idle" /\ request' = None
    /\ UNCHANGED <<lock, root, stack, overflow, chain, block, free_tail>>

GcFree(r) ==
    LET b == roots[r]
        gone == ChainOf(b, ftb \ {b})
    IN
    /\ Idle /\ Owned(r)
    /\ ftb' = (ftb \ {b}) \ PastBits(gone)
    /\ hint' = HintAfterFree(b, hint)
    /\ kind' = [c \in Blocks |-> IF c \in gone THEN "FREE" ELSE kind[c]]
    /\ word' = [c \in Blocks |-> IF c \in gone THEN None ELSE word[c]]
    /\ roots' = [roots EXCEPT ![r] = None]
    /\ UNCHANGED <<lock, gc, fault>>

\* gc_realloc to fewer blocks: the last ones become free.
Shrink(r, new_blocks) ==
    LET b == roots[r]
        rest == {c \in OwnBlocks(b) : c >= b + new_blocks}
    IN
    /\ Idle /\ Owned(r) /\ rest # {}
    /\ kind' = [c \in Blocks |-> IF c \in rest THEN "FREE" ELSE kind[c]]
    /\ word' = [c \in Blocks |-> IF c \in rest THEN None ELSE word[c]]
    /\ hint' = HintAfterFree(b + new_blocks, hint)
    /\ UNCHANGED <<ftb, roots, lock, gc, fault>>

\* The blocks gc_realloc lacks for new_blocks.
More(b, new_blocks) == (b .. b + new_blocks - 1) \ OwnBlocks(b)

\* Faulty variant: only the end of the heap is looked for.
FreeBehind_ToEnd(b, new_blocks) == More(b, new_blocks) \subseteq Blocks

FreeBehind(b, new_blocks) ==
    \A c \in More(b, new_blocks) : c \in Blocks /\ kind[c] = "FREE"

Expand(r, new_blocks) ==
    LET b == roots[r] IN
    /\ Idle /\ Owned(r)
    /\ More(b, new_blocks) # {} /\ FreeBehind(b, new_blocks)
    /\ kind' = [c \in Blocks |-> IF c \in More(b, new_blocks) THEN "TAIL" ELSE kind[c]]
    /\ word' = [c \in Blocks |-> IF c \in More(b, new_blocks) THEN None ELSE word[c]]
    /\ UNCHANGED <<ftb, roots, hint, lock, gc, fault>>

MoveObject(r, new_blocks) ==
    /\ Owned(r) /\ ~FreeBehind(roots[r], new_blocks)
    /\ StartAlloc([n |-> new_blocks, n_free |-> 0, mover |-> r])

----------------------------------------------------------------------------
(* The program and gc_collect.                                             *)

GcCollect == Idle /\ CollectStart(None)

\* A pointer is copied between the roots and an object a root points to.
Load(r, s, b) ==
    /\ Idle /\ roots[s] # None /\ b \in OwnBlocks(roots[s])
    /\ roots' = [roots EXCEPT ![r] = word[b]]
    /\ UNCHANGED <<kind, ftb, word, hint, lock, gc, fault>>

Store(r, s, b) ==
    /\ Idle /\ roots[s] # None /\ b \in OwnBlocks(roots[s])
    /\ word' = [word EXCEPT ![b] = roots[r]]
    /\ Cardinality({c \in Blocks : word'[c] # None}) <= MaxWords
    /\ UNCHANGED <<kind, ftb, roots, hint, lock, gc, fault>>

Drop(r) ==
    /\ Idle /\ roots' = [roots EXCEPT ![r] = None]
    /\ UNCHANGED <<kind, ftb, word, hint, lock, gc, fault>>

----------------------------------------------------------------------------
(* The collector.                                                          *)

Marking == phase \in {"roots", "rescan"} /\ fault = "none"

\* The first of these blocks for which a loop does anything.
FirstOf(S) == CHOOSE b \in S : \A c \in S : b <= c

Unmarked(ptr) == ptr # None /\ kind[ptr] = "HEAD"

\* Faulty variant: the loop ends before the last root.
RootsLeft_Short == {i \in root .. NRoots - 1 : Unmarked(roots[i])}

\* What is left of the loops: roots, words of the popped object and, for
\* the rescan, blocks that need tracing.
RootsLeft == {i \in root .. NRoots : Unmarked(roots[i])}
WordsLeft == {b \in chain \cap Blocks : Unmarked(word[b])}
MarksLeft == {b \in Blocks : b >= block /\ kind[b] = "MARK"}

Drained == stack = <<>> /\ WordsLeft = {}

\* gc_collect_root marks and pushes an object on the empty stack, and
\* gc_drain_stack pops it and finds its chain, which may go past the pool.
TraceRoot ==
    /\ Marking /\ phase = "roots" /\ Drained /\ RootsLeft # {}
    /\ LET i == FirstOf(RootsLeft) IN
       /\ root' = i + 1
       /\ kind' = [kind EXCEPT ![roots[i]] = "MARK"]
       /\ chain' = ChainOf(roots[i], ftb)
    /\ UNCHANGED <<ftb, word, roots, hint, lock, phase, stack, overflow, block,
                   free_tail, request, fault>>

\* gc_drain_stack goes on with the next block on the stack.
Pop ==
    /\ Marking /\ WordsLeft = {} /\ stack # <<>>
    /\ stack' = SubSeq(stack, 1, Len(stack) - 1)
    /\ chain' = ChainOf(stack[Len(stack)], ftb)
    /\ UNCHANGED <<heap, hint, lock, phase, root, overflow, block, free_tail,
                   request, fault>>

\* Faulty variant: a full stack is not noted.
MarkAndPush_Silent(ptr) ==
    /\ kind' = [kind EXCEPT ![ptr] = "MARK"]
    /\ stack' = IF Len(stack) < MICROPY_ALLOC_GC_STACK_SIZE THEN Append(stack, ptr) ELSE stack
    /\ UNCHANGED overflow

\* VERIFY_MARK_AND_PUSH of an unmarked head.
MarkAndPush(ptr) ==
    /\ kind' = [kind EXCEPT ![ptr] = "MARK"]
    /\ IF Len(stack) < MICROPY_ALLOC_GC_STACK_SIZE
       THEN stack' = Append(stack, ptr) /\ UNCHANGED overflow
       ELSE overflow' = TRUE /\ UNCHANGED stack

ScanWord ==
    /\ Marking /\ WordsLeft # {}
    /\ chain' = {b \in chain : b > FirstOf(WordsLeft)}
    /\ MarkAndPush(word[FirstOf(WordsLeft)])
    /\ UNCHANGED <<ftb, word, roots, hint, lock, phase, root, block, free_tail,
                   request, fault>>

\* Nothing is left to trace in this round.
RoundDone ==
    /\ Marking /\ Drained
    /\ phase = "roots" => RootsLeft = {}
    /\ phase = "rescan" => MarksLeft = {}

\* Faulty variant: the flag of the overflow is never cleared.
RescanStart_KeepsFlag ==
    /\ RoundDone /\ overflow
    /\ phase' = "rescan" /\ block' = 0 /\ chain' = {}
    /\ UNCHANGED <<heap, hint, lock, root, stack, overflow, free_tail, request, fault>>

\* gc_deal_with_stack_overflow: as long as the stack overflows, all marked
\* objects are traced again.
RescanStart ==
    /\ RoundDone /\ overflow
    /\ phase' = "rescan" /\ block' = 0
    /\ overflow' = FALSE /\ chain' = {}
    /\ UNCHANGED <<heap, hint, lock, root, stack, free_tail, request, fault>>

RescanBlock ==
    /\ Marking /\ phase = "rescan" /\ Drained /\ MarksLeft # {}
    /\ block' = FirstOf(MarksLeft) + 1
    /\ chain' = ChainOf(FirstOf(MarksLeft), ftb)
    /\ UNCHANGED <<heap, hint, lock, phase, root, stack, overflow, free_tail,
                   request, fault>>

SweepStart ==
    /\ RoundDone /\ ~overflow
    /\ phase' = "sweep" /\ block' = 0 /\ free_tail' = FALSE /\ chain' = {}
    /\ UNCHANGED <<heap, hint, lock, root, stack, overflow, request, fault>>

\* Faulty variant: the sweep skips a block.
UsedLeft_Skips == {b \in Blocks : b > block /\ kind[b] # "FREE"}

\* The sweep reaches block b, the next that is not free.
UsedLeft == {b \in Blocks : b >= block /\ kind[b] # "FREE"}

SweepAt(b, k) ==
    /\ phase = "sweep" /\ fault = "none"
    /\ b \in UsedLeft /\ b = FirstOf(UsedLeft) /\ kind[b] = k
    /\ UNCHANGED <<roots, hint, lock, phase, root, stack, overflow, chain,
                   request>>

SweepMark(b) ==
    /\ SweepAt(b, "MARK")
    /\ kind' = [kind EXCEPT ![b] = "HEAD"]
    /\ free_tail' = FALSE /\ block' = b + 1
    /\ UNCHANGED <<ftb, word, fault>>

\* An unmarked head: its finaliser, if it has one, has run.
SweepHead(b) ==
    /\ SweepAt(b, "HEAD")
    /\ kind' = [kind EXCEPT ![b] = "FREE"]
    /\ word' = [word EXCEPT ![b] = None]
    /\ ftb' = ftb \ {b}
    /\ free_tail' = TRUE /\ block' = b + 1
    /\ UNCHANGED fault

\* The finaliser raises: file_obj_close does if the file system fails.  The
\* collection is left where it is, its lock held.
SweepRaises(b) ==
    /\ SweepAt(b, "HEAD") /\ b \in ftb
    /\ fault' = "finaliser"
    /\ UNCHANGED <<kind, word, ftb, free_tail, block>>

SweepTail(b) ==
    /\ SweepAt(b, "TAIL")
    /\ IF free_tail THEN /\ kind' = [kind EXCEPT ![b] = "FREE"]
                         /\ word' = [word EXCEPT ![b] = None]
                    ELSE UNCHANGED <<kind, word>>
    /\ block' = b + 1
    /\ UNCHANGED <<ftb, free_tail, fault>>

\* The end of gc_collect_end; gc_alloc goes on if it made the collection.
CollectEnd ==
    /\ phase = "sweep" /\ fault = "none" /\ UsedLeft = {}
    /\ hint' = 0 /\ lock' = lock - 1
    /\ phase' = IF request = None THEN "idle" ELSE "alloc"
    /\ root' = 1 /\ block' = 0 /\ free_tail' = FALSE
    /\ UNCHANGED <<heap, stack, overflow, chain, request, fault>>

----------------------------------------------------------------------------
Program ==
    \/ \E n \in 1 .. MaxBlocks :
           \/ GcAlloc(n)
           \/ \E r \in Roots : Shrink(r, n) \/ Expand(r, n) \/ MoveObject(r, n)
    \/ \E r \in Roots : GcFree(r) \/ Drop(r)
    \/ \E r, s \in Roots, b \in Blocks : Load(r, s, b) \/ Store(r, s, b)
    \/ GcCollect

Collector ==
    \/ TraceRoot \/ Pop \/ ScanWord \/ RescanStart \/ RescanBlock
    \/ SweepStart
    \/ \E b \in Blocks : SweepMark(b) \/ SweepHead(b) \/ SweepRaises(b) \/ SweepTail(b)
    \/ CollectEnd \/ AllocAgain

Next == Program \/ Collector

\* A collection runs in the thread that started it, to its end.
Spec == Init /\ [][Next]_vars /\ WF_vars(Collector)

----------------------------------------------------------------------------
(* Properties.                                                             *)

\* A root or a reachable object points to it.
PointsTo(b) == {word[c] : c \in OwnBlocks(b)} \ {None}

ReachableIn[i \in Nat] ==
    IF i = 0 THEN {roots[r] : r \in Roots} \ {None}
    ELSE LET R == ReachableIn[i - 1] IN
         R \cup UNION {PointsTo(b) : b \in R \cap Heads}

Reachable == ReachableIn[NBlocks]

\* The tables stay well formed: a tail has a block in front of it (but while
\* a dead chain is being swept), only heads have finaliser bits, only a
\* collection marks, and what is free points nowhere.
GcTypeOK ==
    /\ kind \in [Blocks -> {"FREE", "HEAD", "TAIL", "MARK"}]
    /\ word \in [Blocks -> Blocks \cup {None}]
    /\ roots \in [Roots -> Blocks \cup {None}]
    /\ hint \in 0 .. gc_alloc_table_byte_len
    /\ lock \in {0, 1}
    /\ phase \in {"idle", "roots", "rescan", "sweep", "alloc"}
    /\ Len(stack) <= MICROPY_ALLOC_GC_STACK_SIZE
    /\ fault \in {"none", "before_pool", "finaliser"}
    /\ \A b \in Blocks : kind[b] = "TAIL" =>
           b > 0 /\ (kind[b - 1] # "FREE" \/ (free_tail /\ block <= b))
    /\ ftb \subseteq Heads
    /\ phase \in {"idle", "alloc"} => \A b \in Blocks : kind[b] # "MARK"
    /\ \A b \in Blocks : kind[b] = "FREE" => word[b] = None

\* Nothing the program can still reach is ever free: not while the mark
\* stack overflows, not while the sweep is half way, not when an object has
\* moved (gc.c:197-329, 736-761).
ReachableKept == fault = "none" => Reachable \subseteq Heads

\* "guarantees that there are no free blocks before this one": gc_alloc
\* looks for room only from gc_last_free_atb_index on (gc.c:454-461).
HintSound ==
    Idle => \A b \in Blocks : b < hint * BLOCKS_PER_ATB => kind[b] # "FREE"

\* A collection frees every object nothing reachable points to
\* (gc.c:250-298).
GarbageFreed ==
    [][phase = "sweep" /\ phase' # "sweep" => (Heads \subseteq Reachable)']_vars

\* The finaliser bit of an object goes only with the object, and moves with
\* it (gc.c:276, 541, 737), but for gc_free of the object that takes up the
\* last block: its walk over the tails reads on in the finaliser table and
\* clears bits there.
FinaliserKept ==
    [][\A b \in ftb \ ftb' :
          \/ /\ kind'[b] = "FREE"
             /\ \A r \in Roots : roots[r] = b => roots'[r] \in ftb' \cup {None}
          \/ \E h \in Heads : NBlocks - 1 \in OwnBlocks(h) /\ kind'[h] = "FREE"]_vars

\* The objects, and the words in them, as Heap sees them.
objects == [b \in Heads |-> Cardinality(OwnBlocks(b))]

object_word ==
    LET own == UNION {OwnBlocks(h) : h \in Heads}
    IN [b \in Blocks |-> IF b \in own THEN word[b] ELSE None]

AbstractHeap == INSTANCE Heap WITH word <- object_word

\* The allocator and the collector keep what Heap promises the program.
ImplementsHeap == AbstractHeap!HeapSpec

\* A collection ends, however often the mark stack overflows
\* (gc.c:234-248), unless a finaliser raises.
CollectionEnds == (phase # "idle") ~> (phase = "idle" \/ fault # "none")
=============================================================================
