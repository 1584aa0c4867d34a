---- MODULE MCGc ----
(* Instances of Gc for TLC. *)
EXTENDS Gc

\* gc_alloc takes "a run of n_blocks available blocks" (gc.c:428): never
\* memory outside the pool.
AllocatesInPool == fault # "before_pool"

\* A program that only allocates and links objects: it collects when the heap
\* is full.
LinkingSpec ==
    /\ Init
    /\ [][\/ \E n \in 1 .. MaxBlocks : GcAlloc(n)
          \/ \E r, s \in Roots, b \in Blocks : Store(r, s, b)
          \/ Collector]_vars
    /\ WF_vars(Collector)
====
