------------------------------- MODULE Heap -------------------------------
(***************************************************************************)
(* What the allocator and the collector promise a program: objects that    *)
(* never overlap, keep their size and their words while they are reachable *)
(* and go away only when their owner releases them or when nothing that is *)
(* reachable points to them any more.                                      *)
(***************************************************************************)
EXTENDS Integers, FiniteSets

CONSTANTS Blocks,      \* the blocks of the heap, numbers
          Roots,       \* where the program keeps pointers
          None

VARIABLES
    objects,           \* the first block of each object |-> its length
    word,              \* the pointer in each block
    roots              \* the pointers of the program

hvars == <<objects, word, roots>>

Span(b, n) == b .. b + n - 1

\* The blocks some object takes up.
Taken == UNION {Span(b, objects[b]) : b \in DOMAIN objects}

PointsTo(b) == {word[c] : c \in Span(b, objects[b])} \ {None}

\* What the roots point to, and in every further step what the objects found
\* so far point to.
ReachableIn[i \in Nat] ==
    IF i = 0 THEN {roots[r] : r \in Roots} \ {None}
    ELSE LET R == ReachableIn[i - 1] IN
         R \cup UNION {PointsTo(b) : b \in R \cap DOMAIN objects}

Reachable == ReachableIn[Cardinality(Blocks)]

HeapInit == /\ objects = <<>>
            /\ word = [b \in Blocks |-> None]
            /\ roots = [r \in Roots |-> None]

\* A new object, of free blocks only and with clear words, for one root.
New(b, n, r) ==
    /\ Span(b, n) \subseteq Blocks \ Taken
    /\ objects' = [o \in DOMAIN objects \cup {b} |->
                       IF o = b THEN n ELSE objects[o]]
    /\ roots' = [roots EXCEPT ![r] = b]
    /\ word' = [c \in Blocks |-> IF c \in Span(b, n) THEN None ELSE word[c]]

\* The owner of an object moves it: the words it has go with it.
Move(b, n, r) ==
    LET old == roots[r] IN
    /\ old \in DOMAIN objects
    /\ Span(b, n) \subseteq Blocks \ Taken
    /\ objects' = [o \in (DOMAIN objects \ {old}) \cup {b} |->
                       IF o = b THEN n ELSE objects[o]]
    /\ roots' = [roots EXCEPT ![r] = b]
    /\ \A c \in Span(b, n) :
           word'[c] = IF c - b < objects[old] THEN word[c - b + old] ELSE None
    /\ \A c \in Taken \ Span(old, objects[old]) : word'[c] = word[c]

\* The owner changes the length of an object where it is.
Resize(r, n) ==
    LET b == roots[r] IN
    /\ b \in DOMAIN objects
    /\ Span(b, n) \subseteq (Blocks \ Taken) \cup Span(b, objects[b])
    /\ objects' = [objects EXCEPT ![b] = n]
    /\ \A c \in Taken : c \notin Span(b, objects[b]) \/ c \in Span(b, n)
                            => word'[c] = word[c]
    /\ \A c \in Span(b, n) \ Span(b, objects[b]) : word'[c] = None
    /\ UNCHANGED roots

\* The owner gives an object up.
Release(r) ==
    /\ roots[r] \in DOMAIN objects
    /\ objects' = [o \in DOMAIN objects \ {roots[r]} |-> objects[o]]
    /\ roots' = [roots EXCEPT ![r] = None]
    /\ \A o \in DOMAIN objects' : \A c \in Span(o, objects'[o]) :
           word'[c] = word[c]

\* The collector takes an object nothing reachable points to.
Reclaim(b) ==
    /\ b \in DOMAIN objects \ Reachable
    /\ objects' = [o \in DOMAIN objects \ {b} |-> objects[o]]
    /\ \A o \in DOMAIN objects' : \A c \in Span(o, objects'[o]) :
           word'[c] = word[c]
    /\ UNCHANGED roots

\* The program copies pointers between its roots and its objects.
Use ==
    /\ UNCHANGED objects
    /\ \/ /\ UNCHANGED word /\ roots' # roots
          /\ \E r \in Roots : \E p \in {None} \cup {word[c] : c \in Taken} :
                 roots' = [roots EXCEPT ![r] = p]
       \/ /\ UNCHANGED roots /\ word' # word
          /\ \E c \in Taken, r \in Roots : word' = [word EXCEPT ![c] = roots[r]]

HeapNext ==
    \/ Use
    \/ /\ objects' # objects
       /\ \/ \E b \in Blocks : Reclaim(b)
          \/ \E r \in Roots : Release(r)
          \/ \E b \in Blocks, r \in Roots, n \in 1 .. Cardinality(Blocks) :
                 New(b, n, r) \/ Move(b, n, r) \/ Resize(r, n)

HeapSpec == HeapInit /\ [][HeapNext]_hvars
=============================================================================
