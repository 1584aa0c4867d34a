------------------------------ MODULE HashMap ------------------------------
(***************************************************************************)
(* py/map.c as py/objdict.c and py/objset.c drive it: the hash table with  *)
(* linear probing of a dict, the array of an OrderedDict and the hash      *)
(* table of a set.                                                         *)
(*                                                                         *)
(* Class says which keys are equal.  A qstr (an interned string) is one    *)
(* object, so two of them are equal only if they are the same; a string    *)
(* that is not interned is equal to the qstr with its characters, and no   *)
(* other object is equal to a string (py/obj.c:184-202).  Equal keys have  *)
(* one hash, chosen at the start.  The entry of a set is its     *)
(* element twice.  Any allocation may fail.                                *)
(*                                                                         *)
(* The model stops at a fault: when the map is torn, when a comparison     *)
(* takes the mark of a deleted slot for an object, or when an entry lies   *)
(* behind the end of the array.                                            *)
(***************************************************************************)
EXTENDS Integers, FiniteSets, FiniteSetsExt, Functions

CONSTANTS Keys, Values, Class,
          Qstrs,              \* the keys that are interned strings
          Strs,               \* the keys that are other strings
          None,               \* the answer for a key that is not there
          MemoryError,
          NULL, SENTINEL,     \* a slot never used, a slot whose key is gone
          MaxInit,            \* slots asked for at creation (a bound)
          MaxHash,            \* largest hash (a bound)
          MaxAlloc            \* slots of an OrderedDict (a bound)

ASSUME MapAssumption ==
    /\ Class \in [Keys -> Range(Class)] /\ Qstrs \cup Strs \subseteq Keys
    /\ \A q, p \in Qstrs : Class[q] = Class[p] => q = p
    /\ \A q \in Qstrs, k \in Keys : Class[q] = Class[k] => k \in Qstrs \cup Strs
    /\ NULL # SENTINEL
    /\ {NULL, SENTINEL} \cap [key : Keys, value : Values \cup Keys] = {}
    /\ MaxInit \in Nat /\ MaxHash \in Nat

VARIABLES
    kind,       \* "dict", "ordered" or "set"
    hash,       \* the hash of a class of equal keys
    map,        \* mp_map_t or mp_set_t: table, alloc, used, all_keys_are_qstrs
    result,     \* what the last call has returned
    fault       \* what broke the map, "none" as long as nothing did

vars == <<kind, hash, map, result, fault>>

NoSlot == -1

Slots(m) == 0 .. m.alloc - 1

MP_MAP_SLOT_IS_FILLED(m, i) == m.table[i] \notin {NULL, SENTINEL}

Entries(m) == {m.table[i] : i \in {j \in DOMAIN m.table : MP_MAP_SLOT_IS_FILLED(m, j)}}

Empty(n) == [table |-> [i \in 0 .. n - 1 |-> NULL], alloc |-> n, used |-> 0,
             all_keys_are_qstrs |-> kind # "set"]

hash_allocation_sizes ==
    {0, 2, 4, 6, 8, 10, 12, 17, 23, 29, 37, 47, 59, 73, 97, 127, 167, 223, 293, 389,
     521, 691, 919, 1223, 1627, 2161, 3229, 4831, 7243, 10861, 16273, 24407, 36607, 54907}

\* Beyond the table half as much again, made odd: (x + x / 2) | 1.
get_hash_alloc_greater_or_equal_to(x) ==
    LET enough == {n \in hash_allocation_sizes : n >= x}
        more   == x + x \div 2
    IN IF enough # {} THEN Min(enough) ELSE more + 1 - (more % 2)

----------------------------------------------------------------------------
(* The search. *)

IsString(k) == k \in Qstrs \cup Strs

ComparePtrs(m, k) == m.all_keys_are_qstrs /\ k \notin Strs

Same(m, e, k) ==
    e.key = k \/ (~ComparePtrs(m, k) /\ Class[e.key] = Class[k])

At(m, k, i) == (hash[Class[k]] + i) % m.alloc

\* How many slots the probing looks at before it meets one never used.
Stop(m, k) == Min({i \in Slots(m) : m.table[At(m, k, i)] = NULL} \cup {m.alloc})

Probe(m, k) ==
    IF kind = "ordered" THEN [i \in 0 .. m.used - 1 |-> i]
                        ELSE [i \in 0 .. Stop(m, k) - 1 |-> At(m, k, i)]

Find(m, k) ==
    LET p == Probe(m, k)
        hits == {i \in DOMAIN p : /\ MP_MAP_SLOT_IS_FILLED(m, p[i])
                                  /\ Same(m, m.table[p[i]], k)}
    IN IF hits = {} THEN NoSlot ELSE p[Min(hits)]

\* Only strings can be equal to a key that is a qstr.
Lookup(m, k) ==
    IF m.all_keys_are_qstrs /\ ~IsString(k) THEN NoSlot ELSE Find(m, k)

\* The array compares deleted slots too: a string is never equal to one, but
\* any other key asks the object at the address SENTINEL for its type.
MeetsSentinel(m, k) ==
    /\ kind = "ordered" /\ ~ComparePtrs(m, k) /\ ~IsString(k)
    /\ \E i \in 0 .. m.used - 1 :
          m.table[i] = SENTINEL /\ (Find(m, k) = NoSlot \/ i < Find(m, k))

----------------------------------------------------------------------------
(* Adding a key that is not there. *)

Free(m, k) ==
    IF kind = "ordered"
    THEN {i \in {m.used} : i < m.alloc}
    ELSE {i \in Slots(m) : /\ i <= Stop(m, k)
                           /\ ~MP_MAP_SLOT_IS_FILLED(m, At(m, k, i))}

Slot(m, k) == IF kind = "ordered" THEN m.used ELSE At(m, k, Min(Free(m, k)))

Added(m, e) ==
    [m EXCEPT !.table[Slot(m, e.key)] = e,
              !.used = @ + 1,
              !.all_keys_are_qstrs = @ /\ e.key \in Qstrs]

\* Faulty variant, for the mutants: the entries keep their places in the larger table.
Grown_InPlace(m) ==
    LET n == IF kind = "ordered" THEN m.alloc + 4
             ELSE get_hash_alloc_greater_or_equal_to(m.alloc + 1)
    IN [m EXCEPT !.alloc = n,
                 !.table = [i \in 0 .. n - 1 |-> IF i < m.alloc THEN m.table[i] ELSE NULL]]

\* One turn of the loop in mp_map_rehash and mp_set_rehash: slot i of m goes to n.
Move(n, m, i) ==
    IF MP_MAP_SLOT_IS_FILLED(m, i) THEN Added(n, m.table[i]) ELSE n

\* The rehash of a table; the array of an OrderedDict is extended.
Grown(m) ==
    IF kind = "ordered"
    THEN [m EXCEPT !.alloc = @ + 4,
                   !.table = [i \in 0 .. m.alloc + 3 |->
                                IF i < m.used THEN m.table[i] ELSE NULL]]
    ELSE LET moved[i \in 0 .. m.alloc] ==
               IF i = 0 THEN Empty(get_hash_alloc_greater_or_equal_to(m.alloc + 1))
               ELSE Move(moved[i - 1], m, i - 1)
         IN moved[m.alloc]

\* Faulty variant: a dict takes its new size before it has the table.
Torn_Early(m) ==
    [m EXCEPT !.alloc = IF kind = "ordered" THEN @ + 4
                        ELSE get_hash_alloc_greater_or_equal_to(@ + 1)]

\* What is left when the allocation fails.
Torn(m) ==
    CASE kind = "dict"    -> m
      [] kind = "ordered" -> [m EXCEPT !.alloc = @ + 4]
      [] kind = "set"     ->
            [m EXCEPT !.alloc = get_hash_alloc_greater_or_equal_to(@ + 1),
                      !.used = 0]

\* Faulty variant: an emptied slot always looks as if never used.
Vacated_Null(m, s) == [m EXCEPT !.table[s] = NULL, !.used = @ - 1]

\* The slot s of a hash table loses its key.
Vacated(m, s) ==
    [m EXCEPT !.table[s] = IF m.table[(s + 1) % m.alloc] = NULL
                           THEN NULL ELSE SENTINEL,
              !.used = @ - 1]

\* Faulty variant: an array closes the gap.
Removed_Shrinks(m, s) ==
    IF kind = "ordered"
    THEN [m EXCEPT !.table = [i \in Slots(m) |->
                                CASE i < s          -> m.table[i]
                                  [] i = m.alloc - 1 -> NULL
                                  [] OTHER          -> m.table[i + 1]],
                   !.used = @ - 1]
    ELSE Vacated(m, s)

Removed(m, s) ==
    IF kind = "ordered" THEN [m EXCEPT !.table[s] = SENTINEL] ELSE Vacated(m, s)

----------------------------------------------------------------------------
Init ==
    /\ kind \in {"dict", "ordered", "set"}
    /\ hash \in [Range(Class) -> IF kind = "ordered" THEN {0} ELSE 0 .. MaxHash]
    /\ \E n \in 0 .. MaxInit : map = Empty(IF kind = "ordered" THEN 0 ELSE n)
    /\ result = None /\ fault = "none"

Sound == fault = "none" /\ UNCHANGED <<kind, hash>>

\* The allocation for the key k: it makes the room, or fails.
Insert(m, e) ==
    \/ /\ Free(m, e.key) # {}
       /\ map' = Added(m, e) /\ result' = e.value /\ UNCHANGED fault
    \/ /\ Free(m, e.key) = {}
       /\ kind = "ordered" => m.alloc + 4 <= MaxAlloc
       /\ \/ map' = Added(Grown(m), e) /\ result' = e.value /\ UNCHANGED fault
          \/ /\ map' = Torn(m) /\ result' = MemoryError
             /\ fault' = IF kind = "dict" THEN fault ELSE "torn"

\* dict_subscr, dict_get and "in", also of a set.
Get(k) ==
    /\ Sound /\ ~MeetsSentinel(map, k)
    /\ LET s == Lookup(map, k)
       IN result' = IF s = NoSlot THEN None ELSE map.table[s].value
    /\ UNCHANGED <<map, fault>>

\* mp_obj_dict_store.
Store(k, v) ==
    /\ Sound /\ kind # "set" /\ ~MeetsSentinel(map, k)
    /\ LET s == Find(map, k)
       IN IF s = NoSlot
          THEN Insert(map, [key |-> k, value |-> v])
          ELSE /\ map' = [map EXCEPT !.table[s].value = v]
               /\ result' = v /\ UNCHANGED fault

\* dict_setdefault and set_add.
AddIfNotFound(k, v) ==
    /\ Sound /\ ~MeetsSentinel(map, k)
    /\ kind = "set" => v = k
    /\ LET s == Find(map, k)
       IN IF s = NoSlot
          THEN Insert(map, [key |-> k, value |-> v])
          ELSE result' = map.table[s].value /\ UNCHANGED <<map, fault>>

\* dict_pop, mp_obj_dict_delete, set_discard and set_remove.
RemoveIfFound(k) ==
    /\ Sound /\ ~MeetsSentinel(map, k)
    /\ LET s == Lookup(map, k)
       IN IF s = NoSlot
          THEN result' = None /\ UNCHANGED map
          ELSE result' = map.table[s].value /\ map' = Removed(map, s)
    /\ UNCHANGED fault

\* One element of set_symmetric_difference_update.
AddOrRemove(k) ==
    /\ fault = "none" /\ kind = "set"
    /\ IF Find(map, k) = NoSlot THEN AddIfNotFound(k, k) ELSE RemoveIfFound(k)

\* Out of memory for the tuple it returns, dict_popitem has removed the entry.
PopError == <<"popitem", MemoryError>>

\* dict_popitem and, for a set, mp_set_remove_first.
PopItem ==
    /\ Sound
    /\ \E s \in DOMAIN map.table :
          /\ MP_MAP_SLOT_IS_FILLED(map, s)
          /\ \A i \in 0 .. s - 1 : ~MP_MAP_SLOT_IS_FILLED(map, i)
          /\ map' = IF kind = "set" THEN Vacated(map, s)
                    ELSE [map EXCEPT !.table[s] = SENTINEL, !.used = @ - 1]
          /\ \/ result' = map.table[s].key
             \/ kind # "set" /\ result' = PopError
    /\ kind = "ordered" =>
          \A i \in map'.used .. map.alloc - 1 : ~MP_MAP_SLOT_IS_FILLED(map', i)
    /\ UNCHANGED fault

\* mp_map_clear and mp_set_clear.
Clear == Sound /\ map' = Empty(0) /\ result' = None /\ UNCHANGED fault

\* popitem takes the first entry of an array and shortens the array at its end.
LoseLast ==
    /\ Sound /\ kind = "ordered"
    /\ Cardinality(Entries(map)) > 1
    /\ MP_MAP_SLOT_IS_FILLED(map, map.used - 1)
    /\ fault' = "lost" /\ UNCHANGED <<map, result>>

CompareSentinel(k) ==
    /\ Sound /\ MeetsSentinel(map, k)
    /\ fault' = "sentinel" /\ UNCHANGED <<map, result>>

Next ==
    \/ \E k \in Keys : Get(k) \/ RemoveIfFound(k) \/ AddOrRemove(k)
    \/ \E k \in Keys, v \in Values : Store(k, v)
    \/ \E k \in Keys, v \in Values \cup Keys :
          (kind = "set" \/ v \in Values) /\ AddIfNotFound(k, v)
    \/ PopItem \/ Clear \/ LoseLast
    \/ \E k \in Keys : CompareSentinel(k)

Spec == Init /\ [][Next]_vars

----------------------------------------------------------------------------
(* Type invariant: the table has the size the map says, used counts the    *)
(* keys of a hash table and bounds those of an array, no two keys are      *)
(* equal, and the flag that turns comparisons into comparisons of          *)
(* addresses is set only while every key is a qstr.  A dict keeps all of   *)
(* this when it runs out of memory.                                        *)
MapTypeOK ==
    fault = "none" =>
        LET filled == {i \in DOMAIN map.table : MP_MAP_SLOT_IS_FILLED(map, i)} IN
        /\ DOMAIN map.table = Slots(map)
        /\ IF kind = "ordered" THEN \A i \in filled : i < map.used
                               ELSE map.used = Cardinality(filled)
        /\ \A i, j \in filled :
              Class[map.table[i].key] = Class[map.table[j].key] => i = j
        /\ map.all_keys_are_qstrs =>
              \A i \in filled : map.table[i].key \in Qstrs

(* A key that is in the map is found by every key equal to it, whatever    *)
(* was removed from the slots on its way and however the table has grown:  *)
(* the shortcuts of mp_map_lookup (addresses instead of equality, an empty *)
(* slot left behind instead of a mark) hide nothing.                       *)
ProbesReach ==
    fault = "none" =>
        \A i \in DOMAIN map.table, k \in Keys :
            (MP_MAP_SLOT_IS_FILLED(map, i) /\ Class[map.table[i].key] = Class[k])
                => Lookup(map, k) = i

(* While the table keeps its size an entry stays in its slot until it is   *)
(* removed, so a loop over a dict that is changed meanwhile still sees     *)
(* every entry that stays once; and the table grows only when all its      *)
(* slots are taken by keys (a hash table) or by keys and marks (an array). *)
EntriesStay ==
    [][/\ map'.alloc = map.alloc =>
             \A i \in DOMAIN map.table :
                MP_MAP_SLOT_IS_FILLED(map, i) =>
                    \/ ~MP_MAP_SLOT_IS_FILLED(map', i)
                    \/ map'.table[i].key = map.table[i].key
       /\ map'.alloc > map.alloc => map.used = map.alloc]_vars

Content ==
    LET E == Entries(map)
    IN [c \in {Class[e.key] : e \in E} |-> CHOOSE e \in E : Class[e.key] = c]

D == INSTANCE Dictionary WITH dict <- Content, broken <- fault # "none",
                              Values <- Values \cup Keys

(* The three tables implement the dictionary: what a call returns and      *)
(* leaves behind depends only on which equal keys were stored.  A failed   *)
(* allocation changes nothing in a dict, but for popitem, which loses its  *)
(* entry; an OrderedDict or a set is broken by one that should have grown  *)
(* it, and an OrderedDict by popitem.                                      *)
ImplementsDict == D!DictSpec
=============================================================================
