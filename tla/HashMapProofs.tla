---------------------------- MODULE HashMapProofs ----------------------------
(***************************************************************************)
(* Proofs about HashMap: for all keys, values, classes of equal keys and   *)
(* hashes, and tables of any size.                                         *)
(***************************************************************************)
EXTENDS HashMap, NatSets, FiniteSetTheorems

-----------------------------------------------------------------------------
(* The inductive invariant, of one map m.  An entry of a hash table can be *)
(* reached: no slot on the way from its hash to it looks never used.       *)
Kinds   == {"dict", "ordered", "set"}
Entry   == [key : Keys, value : Values \cup Keys]

Shape(m) ==
    /\ m = [table |-> m.table, alloc |-> m.alloc, used |-> m.used,
            all_keys_are_qstrs |-> m.all_keys_are_qstrs]
    /\ m.alloc \in Nat /\ m.used \in Nat /\ m.all_keys_are_qstrs \in BOOLEAN
    /\ m.table \in [Slots(m) -> Entry \cup {NULL, SENTINEL}]

Filled(m) == {i \in Slots(m) : MP_MAP_SLOT_IS_FILLED(m, i)}

Distinct(m) ==
    \A i, j \in Filled(m) : Class[m.table[i].key] = Class[m.table[j].key] => i = j

OnlyQstrs(m) == m.all_keys_are_qstrs => \A i \in Filled(m) : m.table[i].key \in Qstrs

InFront(m) == (\A i \in Filled(m) : i < m.used) /\ m.used <= m.alloc

Leads(m, k, d) == \A j \in 0 .. d - 1 : m.table[At(m, k, j)] # NULL

Reaches(m, i) ==
    \E d \in Slots(m) : At(m, m.table[i].key, d) = i /\ Leads(m, m.table[i].key, d)

Counted(m) == m.used = Cardinality(Filled(m))

Hashed(m) == Counted(m) /\ \A i \in Filled(m) : Reaches(m, i)

MapOK(m) ==
    /\ Shape(m) /\ Distinct(m) /\ OnlyQstrs(m)
    /\ IF kind = "ordered" THEN InFront(m) ELSE Hashed(m)

Hashes == hash \in [Range(Class) -> Nat]

MInv == kind \in Kinds /\ Hashes /\ (fault = "none" => MapOK(map))

-----------------------------------------------------------------------------
(* Arithmetic of the probing.                                              *)
LEMMA ModOfProduct ==
    ASSUME NEW q \in Nat, NEW r \in Nat, NEW n \in Nat \ {0}, r < n
    PROVE  (q * n + r) % n = r
  BY SMTT(30)

LEMMA ModOfSum ==
    ASSUME NEW h \in Nat, NEW n \in Nat \ {0}, NEW i \in 0 .. n - 1
    PROVE  /\ h % n \in 0 .. n - 1
           /\ (h + i) % n = IF (h % n) + i < n THEN (h % n) + i ELSE (h % n) + i - n
<1> DEFINE q == h \div n
           r == h % n
<1>1. q \in Nat /\ r \in 0 .. n - 1 /\ h = (q * n) + r
  BY SMTT(30)
<1>2. (q * n) \in Nat /\ (q + 1) * n = (q * n) + n
  BY <1>1
<1> HIDE DEF q, r
<1>3. CASE r + i < n
  <2>1. (q * n + (r + i)) % n = r + i
    BY <1>1, <1>3, ModOfProduct
  <2>2. h + i = q * n + (r + i)
    BY <1>1, <1>2
  <2> QED BY <1>1, <1>3, <2>1, <2>2 DEF r
<1>4. CASE ~(r + i < n)
  <2>1. r + i - n \in Nat /\ r + i - n < n /\ q + 1 \in Nat
    BY <1>1, <1>4
  <2>2. ((q + 1) * n + (r + i - n)) % n = r + i - n
    BY <2>1, ModOfProduct
  <2>3. h + i = (q + 1) * n + (r + i - n)
    BY <1>1, <1>2
  <2> QED BY <1>1, <1>4, <2>2, <2>3 DEF r
<1> QED BY <1>3, <1>4

LEMMA NextSlot ==
    ASSUME NEW n \in Nat \ {0}, NEW s \in 0 .. n - 1
    PROVE  (s + 1) % n = IF s + 1 < n THEN s + 1 ELSE 0
<1>1. CASE s + 1 < n
  <2>1. (0 * n + (s + 1)) % n = s + 1
    BY <1>1, ModOfProduct
  <2> QED BY <1>1, <2>1
<1>2. CASE s + 1 = n
  <2>1. (1 * n + 0) % n = 0
    BY ModOfProduct
  <2> QED BY <1>2, <2>1
<1> QED BY <1>1, <1>2

LEMMA LeastOf ==
    ASSUME NEW T \in SUBSET Nat, T # {}
    PROVE  Min(T) \in T /\ \A n \in T : Min(T) <= n
  BY LeastNatural DEF Min

(* The probing looks at every slot once, one after the other.              *)
LEMMA HashIsNat ==
    ASSUME Hashes, NEW k \in Keys PROVE hash[Class[k]] \in Nat
<1>1. Class[k] \in Range(Class)
  BY MapAssumption DEF Range
<1> QED BY <1>1 DEF Hashes

LEMMA ProbeForm ==
    ASSUME Hashes, NEW m, Shape(m), NEW k \in Keys, m.alloc # 0
    PROVE  \E r \in 0 .. m.alloc - 1 : \A i \in 0 .. m.alloc - 1 :
              At(m, k, i) = IF r + i < m.alloc THEN r + i ELSE r + i - m.alloc
<1> DEFINE n == m.alloc
           h == hash[Class[k]]
<1>1. n \in Nat \ {0} /\ h \in Nat
  BY HashIsNat DEF Shape
<1> HIDE DEF n, h
<1>2. 0 \in 0 .. n - 1
  BY <1>1
<1>3. h % n \in 0 .. n - 1
  BY <1>1, <1>2, ModOfSum
<1>4. ASSUME NEW i \in 0 .. n - 1
      PROVE  (h + i) % n = IF (h % n) + i < n THEN (h % n) + i ELSE (h % n) + i - n
  BY <1>1, ModOfSum
<1> QED BY <1>3, <1>4 DEF n, h, At

LEMMA ProbeVisits ==
    ASSUME Hashes, NEW m, Shape(m), NEW k \in Keys, m.alloc # 0
    PROVE  /\ \A i \in Slots(m) : At(m, k, i) \in Slots(m)
           /\ \A i, j \in Slots(m) : At(m, k, i) = At(m, k, j) => i = j
           /\ \A s \in Slots(m) : \E i \in Slots(m) : At(m, k, i) = s
           /\ \A i \in Slots(m) : i + 1 \in Slots(m) =>
                 At(m, k, i + 1) = (At(m, k, i) + 1) % m.alloc
<1>1. PICK r \in 0 .. m.alloc - 1 : \A i \in 0 .. m.alloc - 1 :
              At(m, k, i) = IF r + i < m.alloc THEN r + i ELSE r + i - m.alloc
  BY ProbeForm
<1>2. m.alloc \in Nat \ {0}
  BY DEF Shape
<1>3. ASSUME NEW i \in Slots(m) PROVE At(m, k, i) \in Slots(m)
  BY <1>1, <1>2 DEF Slots
<1>4. ASSUME NEW i \in Slots(m), NEW j \in Slots(m), At(m, k, i) = At(m, k, j) PROVE i = j
  BY <1>1, <1>2, <1>4 DEF Slots
<1>5. ASSUME NEW s \in Slots(m) PROVE \E i \in Slots(m) : At(m, k, i) = s
  <2> DEFINE i == IF s >= r THEN s - r ELSE s - r + m.alloc
  <2>1. i \in 0 .. m.alloc - 1 /\ (IF r + i < m.alloc THEN r + i ELSE r + i - m.alloc) = s
    BY <1>2 DEF Slots
  <2> HIDE DEF i
  <2> QED BY <1>1, <2>1 DEF Slots
<1>6. ASSUME NEW i \in Slots(m), i + 1 \in Slots(m)
      PROVE  At(m, k, i + 1) = (At(m, k, i) + 1) % m.alloc
  <2>1. (At(m, k, i) + 1) % m.alloc = IF At(m, k, i) + 1 < m.alloc THEN At(m, k, i) + 1 ELSE 0
    BY <1>2, <1>3, NextSlot DEF Slots
  <2> QED BY <1>1, <1>2, <1>6, <2>1 DEF Slots
<1> QED BY <1>3, <1>4, <1>5, <1>6

LEMMA StopsAtNull ==
    ASSUME Hashes, NEW m, Shape(m), NEW k \in Keys
    PROVE  /\ Stop(m, k) \in 0 .. m.alloc
           /\ \A i \in 0 .. Stop(m, k) - 1 : m.table[At(m, k, i)] # NULL
           /\ Stop(m, k) # m.alloc => m.table[At(m, k, Stop(m, k))] = NULL
<1> DEFINE T == {i \in Slots(m) : m.table[At(m, k, i)] = NULL} \cup {m.alloc}
<1>1. m.alloc \in Nat
  BY DEF Shape
<1>2. T \in SUBSET Nat /\ m.alloc \in T /\ T \subseteq 0 .. m.alloc
  BY <1>1 DEF Slots
<1>3. Stop(m, k) \in T /\ \A n \in T : Stop(m, k) <= n
  BY <1>2, LeastOf DEF Stop
<1>4. ASSUME NEW i \in 0 .. Stop(m, k) - 1 PROVE m.table[At(m, k, i)] # NULL
  <2>1. i \in Slots(m) /\ i \notin T
    BY <1>1, <1>2, <1>3 DEF Slots
  <2> QED BY <2>1
<1> QED BY <1>2, <1>3, <1>4

-----------------------------------------------------------------------------
(* The search finds the slot whose key is equal, if there is one.          *)
Holds(m, k, i) == i \in Filled(m) /\ Class[m.table[i].key] = Class[k]

LEMMA FilledEntry ==
    ASSUME NEW m, Shape(m), NEW i \in Filled(m)
    PROVE  i \in Slots(m) /\ m.table[i] \in Entry /\ m.table[i].key \in Keys
           /\ m.table[i].value \in Values \cup Keys
<1>1. m.table[i] \in Entry
  BY DEF Shape, Filled, MP_MAP_SLOT_IS_FILLED
<1> QED BY <1>1 DEF Filled, Entry

LEMMA EntryFills == \A e \in Entry : e \notin {NULL, SENTINEL}
  BY MapAssumption DEF Entry

LEMMA SameIsEqual ==
    ASSUME NEW m, Shape(m), OnlyQstrs(m), NEW k \in Keys, NEW i \in Filled(m)
    PROVE  Same(m, m.table[i], k) <=> Class[m.table[i].key] = Class[k]
<1> DEFINE e == m.table[i]
<1>1. e.key \in Keys /\ (m.all_keys_are_qstrs => e.key \in Qstrs)
  BY FilledEntry DEF OnlyQstrs
<1> HIDE DEF e
<1>2. ASSUME Class[e.key] = Class[k], ComparePtrs(m, k) PROVE e.key = k
  <2>1. e.key \in Qstrs /\ k \in Qstrs \cup Strs /\ k \notin Strs
    BY <1>1, <1>2, MapAssumption DEF ComparePtrs
  <2> QED BY <1>2, <2>1, MapAssumption
<1>3. Same(m, e, k) <=> Class[e.key] = Class[k]
  BY <1>2 DEF Same
<1> QED BY <1>3 DEF e

LEMMA ProbeCovers ==
    ASSUME kind \in Kinds, Hashes, NEW m, MapOK(m), NEW k \in Keys
    PROVE  /\ DOMAIN Probe(m, k) \subseteq Nat
           /\ \A d \in DOMAIN Probe(m, k) : Probe(m, k)[d] \in Slots(m)
           /\ \A i : Holds(m, k, i) => \E d \in DOMAIN Probe(m, k) : Probe(m, k)[d] = i
<1>1. Shape(m) /\ m.alloc \in Nat /\ m.used \in Nat
  BY DEF MapOK, Shape
<1>2. CASE kind = "ordered"
  <2>1. Probe(m, k) = [i \in 0 .. m.used - 1 |-> i] /\ InFront(m)
    BY <1>2 DEF Probe, MapOK
  <2>2. 0 .. m.used - 1 \subseteq Slots(m) /\ 0 .. m.used - 1 \subseteq Nat
    BY <1>1, <2>1 DEF InFront, Slots
  <2>3. ASSUME NEW i, Holds(m, k, i) PROVE i \in 0 .. m.used - 1
    BY <1>1, <2>1, <2>3 DEF Holds, InFront, Filled, Slots
  <2> QED BY <2>1, <2>2, <2>3
<1>3. CASE kind # "ordered"
  <2>1. Probe(m, k) = [i \in 0 .. Stop(m, k) - 1 |-> At(m, k, i)] /\ Hashed(m)
    BY <1>3 DEF Probe, MapOK
  <2>2. Stop(m, k) \in 0 .. m.alloc
        /\ (Stop(m, k) # m.alloc => m.table[At(m, k, Stop(m, k))] = NULL)
    BY <1>1, StopsAtNull
  <2>3. 0 .. Stop(m, k) - 1 \subseteq Slots(m) /\ 0 .. Stop(m, k) - 1 \subseteq Nat
    BY <1>1, <2>2 DEF Slots
  <2>4. \A d \in 0 .. Stop(m, k) - 1 : At(m, k, d) \in Slots(m)
    <3>1. CASE m.alloc = 0
      BY <2>2, <3>1
    <3>2. CASE m.alloc # 0
      BY <1>1, <2>3, <3>2, ProbeVisits
    <3> QED BY <3>1, <3>2
  <2>5. ASSUME NEW i, Holds(m, k, i) PROVE \E d \in 0 .. Stop(m, k) - 1 : At(m, k, d) = i
    <3>1. i \in Filled(m) /\ Class[m.table[i].key] = Class[k]
      BY <2>5 DEF Holds
    <3>2. PICK d \in Slots(m) : At(m, k, d) = i /\ Leads(m, k, d)
      BY <2>1, <3>1 DEF Hashed, Reaches, Leads, At
    <3>3. m.table[At(m, k, d)] # NULL
      BY <3>1, <3>2 DEF Filled, MP_MAP_SLOT_IS_FILLED
    <3>4. d < Stop(m, k)
      BY <1>1, <2>2, <3>2, <3>3 DEF Leads, Slots
    <3> QED BY <1>1, <2>2, <3>2, <3>4 DEF Slots
  <2> QED BY <2>1, <2>3, <2>4, <2>5
<1> QED BY <1>2, <1>3

LEMMA FindsEqual ==
    ASSUME kind \in Kinds, Hashes, NEW m, MapOK(m), NEW k \in Keys
    PROVE  \/ Find(m, k) = NoSlot /\ \A i : ~Holds(m, k, i)
           \/ Holds(m, k, Find(m, k)) /\ Find(m, k) # NoSlot
<1> DEFINE p == Probe(m, k)
           hits == {i \in DOMAIN p : /\ MP_MAP_SLOT_IS_FILLED(m, p[i])
                                     /\ Same(m, m.table[p[i]], k)}
<1>1. Shape(m) /\ OnlyQstrs(m)
  BY DEF MapOK
<1>2. hits \subseteq Nat
  BY ProbeCovers
<1>3. ASSUME NEW d \in hits PROVE Holds(m, k, p[d]) /\ p[d] # NoSlot
  <2>1. p[d] \in Filled(m) /\ Same(m, m.table[p[d]], k)
    BY ProbeCovers DEF Filled
  <2>2. Class[m.table[p[d]].key] = Class[k]
    BY <1>1, <2>1, SameIsEqual
  <2>3. p[d] # -1
    BY <1>1, <2>1 DEF Filled, Slots, Shape
  <2> QED BY <2>1, <2>2, <2>3 DEF Holds, NoSlot
<1>4. ASSUME NEW i, Holds(m, k, i) PROVE hits # {}
  <2>1. PICK d \in DOMAIN p : p[d] = i
    BY <1>4, ProbeCovers
  <2>2. i \in Filled(m) /\ Same(m, m.table[i], k)
    BY <1>1, <1>4, SameIsEqual DEF Holds
  <2> QED BY <2>1, <2>2 DEF Filled
<1>5. Find(m, k) = IF hits = {} THEN NoSlot ELSE p[Min(hits)]
  BY DEF Find
<1> HIDE DEF hits, p
<1> QED BY <1>2, <1>3, <1>4, <1>5, LeastOf

(* Also with the shortcut for keys that are not strings.                   *)
LEMMA LooksUpEqual ==
    ASSUME kind \in Kinds, Hashes, NEW m, MapOK(m), NEW k \in Keys
    PROVE  \/ Lookup(m, k) = NoSlot /\ \A i : ~Holds(m, k, i)
           \/ Holds(m, k, Lookup(m, k)) /\ Lookup(m, k) # NoSlot
<1>1. ASSUME m.all_keys_are_qstrs, ~IsString(k), NEW i, Holds(m, k, i) PROVE FALSE
  <2>1. m.table[i].key \in Qstrs /\ Class[m.table[i].key] = Class[k]
    BY <1>1 DEF MapOK, OnlyQstrs, Holds
  <2> QED BY <1>1, <2>1, MapAssumption DEF IsString
<1> QED BY <1>1, FindsEqual DEF Lookup

LEMMA OneHolds ==
    ASSUME NEW m, Distinct(m), NEW k, NEW i, NEW j, Holds(m, k, i), Holds(m, k, j)
    PROVE  i = j
  BY DEF Distinct, Holds

-----------------------------------------------------------------------------
(* One slot of m is written: n is the map after it.                        *)
Written(m, n, s, x) ==
    Shape(n) /\ n.alloc = m.alloc /\ n.table = [m.table EXCEPT ![s] = x]

\* The entries whose keys are not of class c.
Others(m, c) == {d \in Entries(m) : Class[d.key] # c}

LEMMA EntriesAreFilled ==
    ASSUME NEW m, Shape(m)
    PROVE  Entries(m) = {m.table[i] : i \in Filled(m)} /\ Entries(m) \subseteq Entry
<1>1. DOMAIN m.table = Slots(m)
  BY DEF Shape
<1> QED BY <1>1, FilledEntry DEF Entries, Filled

LEMMA WrittenFills ==
    ASSUME NEW m, Shape(m), NEW n, NEW s \in Slots(m), NEW x, Written(m, n, s, x)
    PROVE  /\ Slots(n) = Slots(m) /\ n.table[s] = x
           /\ \A i \in Slots(m) \ {s} : n.table[i] = m.table[i]
           /\ x \in Entry => Filled(n) = Filled(m) \cup {s}
           /\ x \in {NULL, SENTINEL} => Filled(n) = Filled(m) \ {s}
           /\ \A k, i : At(n, k, i) = At(m, k, i)
<1>1. Slots(n) = Slots(m) /\ \A k, i : At(n, k, i) = At(m, k, i)
  BY DEF Written, Slots, At
<1>2. n.table[s] = x /\ \A i \in Slots(m) \ {s} : n.table[i] = m.table[i]
  BY DEF Written, Shape
<1>3. x \in Entry => Filled(n) = Filled(m) \cup {s}
  BY <1>1, <1>2, EntryFills DEF Filled, MP_MAP_SLOT_IS_FILLED
<1>4. x \in {NULL, SENTINEL} => Filled(n) = Filled(m) \ {s}
  BY <1>1, <1>2 DEF Filled, MP_MAP_SLOT_IS_FILLED
<1> QED BY <1>1, <1>2, <1>3, <1>4

(* An entry takes a free slot and no equal one is there, or it takes the   *)
(* place of an equal one.                                                  *)
LEMMA EntryWritten ==
    ASSUME NEW m, Shape(m), Distinct(m), NEW n, NEW s \in Slots(m), NEW e \in Entry,
           Written(m, n, s, e),
           \A i : Holds(m, e.key, i) => i = s
    PROVE  Distinct(n) /\ (s \notin Filled(m) \/ Holds(m, e.key, s) =>
                              Entries(n) = Others(m, Class[e.key]) \cup {e})
<1>1. /\ n.table[s] = e /\ Filled(n) = Filled(m) \cup {s} /\ Shape(n)
      /\ \A i \in Slots(m) \ {s} : n.table[i] = m.table[i]
  BY WrittenFills DEF Written
<1>2. \A i \in Filled(m) \ {s} : /\ n.table[i] = m.table[i]
                                 /\ Class[m.table[i].key] # Class[e.key]
  BY <1>1, FilledEntry DEF Holds
<1>3. Distinct(n)
  BY <1>1, <1>2 DEF Distinct
<1>4. ASSUME s \notin Filled(m) \/ Holds(m, e.key, s)
      PROVE  Entries(n) = Others(m, Class[e.key]) \cup {e}
  <2>1. Entries(n) = {n.table[i] : i \in Filled(m) \cup {s}}
    BY <1>1, EntriesAreFilled
  <2>2. Entries(n) = {m.table[i] : i \in Filled(m) \ {s}} \cup {e}
    BY <1>1, <1>2, <2>1
  <2>3. Others(m, Class[e.key]) = {m.table[i] : i \in Filled(m) \ {s}}
    <3>1. Entries(m) = {m.table[i] : i \in Filled(m)}
      BY EntriesAreFilled
    <3>2. s \in Filled(m) => Class[m.table[s].key] = Class[e.key]
      BY <1>4 DEF Holds
    <3> QED BY <1>2, <3>1, <3>2 DEF Others
  <2> QED BY <2>2, <2>3
<1> QED BY <1>3, <1>4

LEMMA EntryErased ==
    ASSUME NEW m, Shape(m), Distinct(m), NEW n, NEW s \in Filled(m),
           NEW x \in {NULL, SENTINEL}, Written(m, n, s, x)
    PROVE  /\ Distinct(n) /\ Filled(n) = Filled(m) \ {s}
           /\ \A i \in Filled(n) : n.table[i] = m.table[i]
           /\ Entries(n) = Others(m, Class[m.table[s].key])
<1>1. /\ Filled(n) = Filled(m) \ {s} /\ Shape(n) /\ s \in Slots(m)
      /\ \A i \in Slots(m) \ {s} : n.table[i] = m.table[i]
  BY FilledEntry, WrittenFills DEF Written
<1>2. \A i \in Filled(m) \ {s} : /\ n.table[i] = m.table[i]
                                 /\ Class[m.table[i].key] # Class[m.table[s].key]
  BY <1>1, FilledEntry DEF Distinct
<1>3. Distinct(n)
  BY <1>1, <1>2 DEF Distinct
<1>4. Entries(n) = Others(m, Class[m.table[s].key])
  <2>1. Entries(n) = {n.table[i] : i \in Filled(m) \ {s}}
    BY <1>1, EntriesAreFilled
  <2>2. Entries(n) = {m.table[i] : i \in Filled(m) \ {s}}
    BY <1>2, <2>1
  <2>3. Entries(m) = {m.table[i] : i \in Filled(m)}
    BY EntriesAreFilled
  <2> QED BY <1>2, <2>2, <2>3 DEF Others
<1> QED BY <1>1, <1>2, <1>3, <1>4

(* As long as no slot becomes NULL, every entry stays in reach; and if one *)
(* does whose next is NULL already, no way to another entry went over it.  *)
LEMMA StillReaches ==
    ASSUME Hashes, NEW m, Shape(m), NEW n, NEW s \in Slots(m), NEW x, Written(m, n, s, x),
           x = NULL => m.table[s] # NULL /\ m.table[(s + 1) % m.alloc] = NULL,
           NEW i \in Filled(m), Reaches(m, i), n.table[i].key = m.table[i].key,
           x = NULL => i # s
    PROVE  Reaches(n, i)
<1> DEFINE k == m.table[i].key
<1>1. /\ Slots(n) = Slots(m) /\ n.table[s] = x
      /\ \A j \in Slots(m) \ {s} : n.table[j] = m.table[j]
      /\ \A j : At(n, k, j) = At(m, k, j)
  BY WrittenFills
<1>2. PICK d \in Slots(m) : At(m, k, d) = i /\ Leads(m, k, d)
  BY DEF Reaches
<1>3. m.alloc \in Nat /\ m.alloc # 0 /\ k \in Keys /\ m.table[i] # NULL
  BY FilledEntry DEF Shape, Slots, Filled, MP_MAP_SLOT_IS_FILLED
<1> HIDE DEF k
<1>4. ASSUME NEW j \in 0 .. d - 1 PROVE n.table[At(n, k, j)] # NULL
  <2>1. j \in Slots(m) /\ j + 1 \in Slots(m) /\ j + 1 \in 0 .. d
    BY <1>2, <1>3 DEF Slots
  <2>2. At(m, k, j) \in Slots(m) /\ m.table[At(m, k, j)] # NULL
    BY <1>2, <1>3, <2>1, ProbeVisits DEF Leads
  <2>3. m.table[At(m, k, j + 1)] # NULL
    <3>1. CASE j + 1 = d
      BY <1>2, <1>3, <3>1
    <3>2. CASE j + 1 \in 0 .. d - 1
      BY <1>2, <3>2 DEF Leads
    <3> QED BY <1>2, <1>3, <2>1, <3>1, <3>2 DEF Slots
  <2>4. At(m, k, j + 1) = (At(m, k, j) + 1) % m.alloc
    BY <1>3, <2>1, ProbeVisits
  <2> QED BY <1>1, <2>2, <2>3, <2>4
<1>5. Leads(n, k, d)
  BY <1>4 DEF Leads
<1> QED BY <1>1, <1>2, <1>5 DEF Reaches, k

LEMMA FilledFinite ==
    ASSUME NEW m, Shape(m)
    PROVE  /\ IsFiniteSet(Filled(m)) /\ Filled(m) \subseteq Slots(m)
           /\ Cardinality(Filled(m)) \in Nat /\ Cardinality(Filled(m)) <= m.alloc
           /\ Cardinality(Filled(m)) = m.alloc <=> Filled(m) = Slots(m)
<1>1. m.alloc \in Nat
  BY DEF Shape
<1>2. IsFiniteSet(Slots(m)) /\ Cardinality(Slots(m)) = m.alloc
  BY <1>1, FS_Interval DEF Slots
<1>3. Filled(m) \in SUBSET Slots(m)
  BY DEF Filled
<1> HIDE DEF Filled
<1> QED BY <1>2, <1>3, FS_Subset, FS_CardinalityType

(* Where a new key goes.                                                   *)
LEMMA SlotIsFree ==
    ASSUME kind \in Kinds, Hashes, NEW m, MapOK(m), NEW k \in Keys, Free(m, k) # {}
    PROVE  /\ Slot(m, k) \in Slots(m) \ Filled(m)
           /\ kind = "ordered" => Slot(m, k) = m.used /\ m.used < m.alloc
           /\ kind # "ordered" => \E d \in Slots(m) : At(m, k, d) = Slot(m, k) /\ Leads(m, k, d)
<1>1. Shape(m) /\ m.alloc \in Nat /\ m.used \in Nat
  BY DEF MapOK, Shape
<1>2. CASE kind = "ordered"
  <2>1. Slot(m, k) = m.used /\ m.used < m.alloc
    BY <1>2 DEF Slot, Free
  <2>2. m.used \notin Filled(m)
    BY <1>1, <1>2 DEF MapOK, InFront
  <2> QED BY <1>1, <1>2, <2>1, <2>2 DEF Slots
<1>3. CASE kind # "ordered"
  <2> DEFINE d == Min(Free(m, k))
  <2>1. Free(m, k) = {i \in Slots(m) : i <= Stop(m, k) /\ ~MP_MAP_SLOT_IS_FILLED(m, At(m, k, i))}
    BY <1>3 DEF Free
  <2>2. d \in Free(m, k) /\ \A i \in Free(m, k) : d <= i
    BY <1>1, <2>1, LeastOf DEF Slots
  <2>3. d \in Slots(m) /\ d <= Stop(m, k) /\ ~MP_MAP_SLOT_IS_FILLED(m, At(m, k, d))
    BY <2>1, <2>2
  <2>4. m.alloc # 0 /\ At(m, k, d) \in Slots(m) /\ Slot(m, k) = At(m, k, d)
    BY <1>1, <1>3, <2>3, ProbeVisits DEF Slots, Slot
  <2>5. Stop(m, k) \in 0 .. m.alloc
        /\ \A i \in 0 .. Stop(m, k) - 1 : m.table[At(m, k, i)] # NULL
    BY <1>1, StopsAtNull
  <2>6. Leads(m, k, d)
    BY <1>1, <2>3, <2>5 DEF Leads, Slots
  <2> QED BY <1>3, <2>3, <2>4, <2>6 DEF Filled
<1> QED BY <1>2, <1>3

(* A hash table refuses a key only when all its slots are taken.           *)
LEMMA FullWhenNotFree ==
    ASSUME kind \in Kinds, Hashes, NEW m, MapOK(m), NEW k \in Keys
    PROVE  Free(m, k) = {} <=> m.used = m.alloc
<1>1. Shape(m) /\ m.alloc \in Nat /\ m.used \in Nat
  BY DEF MapOK, Shape
<1>2. CASE kind = "ordered"
  BY <1>1, <1>2 DEF Free, MapOK, InFront
<1>3. CASE kind # "ordered"
  <2>1. m.used = Cardinality(Filled(m))
    BY <1>3 DEF MapOK, Hashed, Counted
  <2>2. Free(m, k) = {i \in Slots(m) : i <= Stop(m, k) /\ ~MP_MAP_SLOT_IS_FILLED(m, At(m, k, i))}
    BY <1>3 DEF Free
  <2>3. Stop(m, k) \in 0 .. m.alloc
        /\ (Stop(m, k) # m.alloc => m.table[At(m, k, Stop(m, k))] = NULL)
    BY <1>1, StopsAtNull
  <2>4. ASSUME Free(m, k) = {} PROVE Filled(m) = Slots(m)
    <3>1. Stop(m, k) = m.alloc
      BY <1>1, <2>2, <2>3, <2>4 DEF Slots, MP_MAP_SLOT_IS_FILLED
    <3>2. ASSUME NEW s \in Slots(m) PROVE s \in Filled(m)
      <4>1. m.alloc # 0
        BY <1>1, <3>2 DEF Slots
      <4>2. PICK d \in Slots(m) : At(m, k, d) = s
        BY <1>1, <4>1, ProbeVisits
      <4> QED BY <1>1, <2>2, <2>4, <3>1, <4>2 DEF Slots, Filled
    <3> QED BY <3>2 DEF Filled
  <2>5. ASSUME Filled(m) = Slots(m), NEW i \in Free(m, k) PROVE FALSE
    <3>1. m.alloc # 0 /\ At(m, k, i) \in Slots(m)
      BY <1>1, <2>2, <2>5, ProbeVisits DEF Slots
    <3> QED BY <2>2, <2>5, <3>1 DEF Filled
  <2> QED BY <1>1, <2>1, <2>4, <2>5, FilledFinite
<1> QED BY <1>2, <1>3

-----------------------------------------------------------------------------
(* What the changes of a map keep, and what they make of its entries.      *)
LEMMA AddedOK ==
    ASSUME kind \in Kinds, Hashes, NEW m, MapOK(m), NEW e \in Entry,
           \A i : ~Holds(m, e.key, i), Free(m, e.key) # {}
    PROVE  /\ MapOK(Added(m, e))
           /\ Added(m, e).alloc = m.alloc /\ Added(m, e).used = m.used + 1
           /\ Added(m, e).table = [m.table EXCEPT ![Slot(m, e.key)] = e]
           /\ Slot(m, e.key) \in Slots(m) \ Filled(m)
           /\ Entries(Added(m, e)) = Others(m, Class[e.key]) \cup {e}
<1> DEFINE n == Added(m, e)
           s == Slot(m, e.key)
<1>1. /\ Shape(m) /\ Distinct(m) /\ OnlyQstrs(m)
      /\ IF kind = "ordered" THEN InFront(m) ELSE Hashed(m)
  BY DEF MapOK
<1>2. m.alloc \in Nat /\ m.used \in Nat /\ m.all_keys_are_qstrs \in BOOLEAN
      /\ m.table \in [Slots(m) -> Entry \cup {NULL, SENTINEL}] /\ e.key \in Keys
  BY <1>1 DEF Shape, Entry
<1>3. /\ s \in Slots(m) \ Filled(m)
      /\ kind = "ordered" => s = m.used /\ m.used < m.alloc
      /\ kind # "ordered" => \E d \in Slots(m) : At(m, e.key, d) = s /\ Leads(m, e.key, d)
  BY <1>2, SlotIsFree
<1>4. n = [m EXCEPT !.table[s] = e, !.used = @ + 1, !.all_keys_are_qstrs = @ /\ e.key \in Qstrs]
  BY DEF Added
<1> HIDE DEF s
<1>5. /\ n = [table |-> n.table, alloc |-> n.alloc, used |-> n.used,
              all_keys_are_qstrs |-> n.all_keys_are_qstrs]
      /\ n.alloc = m.alloc /\ n.used = m.used + 1
      /\ n.table = [m.table EXCEPT ![s] = e]
      /\ n.all_keys_are_qstrs <=> m.all_keys_are_qstrs /\ e.key \in Qstrs
      /\ n.all_keys_are_qstrs \in BOOLEAN
  BY <1>1, <1>4 DEF Shape
<1> HIDE DEF n
<1>6. Written(m, n, s, e)
  BY <1>2, <1>3, <1>5 DEF Written, Shape, Slots
<1>7. /\ Slots(n) = Slots(m) /\ n.table[s] = e /\ Filled(n) = Filled(m) \cup {s}
      /\ \A i \in Slots(m) \ {s} : n.table[i] = m.table[i]
  <2>1. s \in Slots(m) /\ e \in Entry /\ Shape(m)
    BY <1>1, <1>3
  <2>2. Slots(n) = Slots(m) /\ n.table[s] = e /\ \A i \in Slots(m) \ {s} : n.table[i] = m.table[i]
    BY <1>6, <2>1, WrittenFills
  <2>3. Filled(n) = Filled(m) \cup {s}
    BY <1>6, <2>1, WrittenFills
  <2> QED BY <2>2, <2>3
<1>8. Distinct(n) /\ Entries(n) = Others(m, Class[e.key]) \cup {e}
  BY <1>1, <1>3, <1>6, EntryWritten
<1>9. \A i \in Filled(m) : n.table[i] = m.table[i] /\ i # s
  BY <1>1, <1>3, <1>7, FilledEntry
<1>10. OnlyQstrs(n)
  BY <1>1, <1>5, <1>7, <1>9 DEF OnlyQstrs
<1>11. CASE kind = "ordered"
  <2>1. InFront(n)
    BY <1>1, <1>2, <1>3, <1>5, <1>7, <1>11 DEF InFront, Filled, Slots
  <2> QED BY <1>3, <1>5, <1>6, <1>8, <1>10, <1>11, <2>1 DEF MapOK, Written, n, s
<1>12. CASE kind # "ordered"
  <2>1. Counted(n)
    <3>1. m.used = Cardinality(Filled(m)) /\ IsFiniteSet(Filled(m)) /\ s \notin Filled(m)
      BY <1>1, <1>3, <1>12, FilledFinite DEF Hashed, Counted
    <3>2. Cardinality(Filled(m) \cup {s}) = Cardinality(Filled(m)) + 1
      BY <3>1, FS_AddElement
    <3> QED BY <1>5, <1>7, <3>1, <3>2 DEF Counted
  <2>2. e # NULL
    BY EntryFills
  <2>3. ASSUME NEW i \in Filled(n) PROVE Reaches(n, i)
    <3>1. CASE i = s
      <4>1. PICK d \in Slots(m) : At(m, e.key, d) = s /\ Leads(m, e.key, d)
        BY <1>3, <1>12
      <4>2. m.alloc # 0
        BY <1>2, <4>1 DEF Slots
      <4>3. ASSUME NEW j \in 0 .. d - 1 PROVE n.table[At(n, e.key, j)] # NULL
        <5>1. j \in Slots(m)
          BY <1>2, <4>1 DEF Slots
        <5>2. At(m, e.key, j) \in Slots(m) /\ m.table[At(m, e.key, j)] # NULL
          BY <1>1, <1>2, <4>1, <4>2, <5>1, ProbeVisits DEF Leads
        <5>3. At(n, e.key, j) = At(m, e.key, j)
          BY <1>5 DEF At
        <5> QED BY <1>7, <2>2, <5>2, <5>3
      <4>4. At(n, e.key, d) = s
        BY <1>5, <4>1 DEF At
      <4> QED BY <1>7, <3>1, <4>3, <4>4 DEF Reaches, Leads
    <3>2. CASE i # s
      <4>1. i \in Filled(m) /\ n.table[i].key = m.table[i].key /\ Reaches(m, i)
        BY <1>1, <1>7, <1>9, <1>12, <3>2 DEF Hashed
      <4> QED BY <1>1, <1>3, <1>6, <2>2, <4>1, StillReaches
    <3> QED BY <3>1, <3>2
  <2> QED BY <1>3, <1>5, <1>6, <1>8, <1>10, <1>12, <2>1, <2>3 DEF MapOK, Written, Hashed, n, s
<1> QED BY <1>11, <1>12

LEMMA ReplacedOK ==
    ASSUME kind \in Kinds, Hashes, NEW m, MapOK(m), NEW s \in Filled(m),
           NEW v \in Values \cup Keys
    PROVE  LET n == [m EXCEPT !.table[s].value = v]
               e == [key |-> m.table[s].key, value |-> v]
           IN  /\ MapOK(n) /\ n.alloc = m.alloc
               /\ \A i \in Filled(m) : n.table[i].key = m.table[i].key
               /\ Entries(n) = Others(m, Class[e.key]) \cup {e}
<1> DEFINE n == [m EXCEPT !.table[s].value = v]
           e == [key |-> m.table[s].key, value |-> v]
<1>1. /\ Shape(m) /\ Distinct(m) /\ OnlyQstrs(m)
      /\ IF kind = "ordered" THEN InFront(m) ELSE Hashed(m)
  BY DEF MapOK
<1>2. /\ m.alloc \in Nat /\ m.used \in Nat /\ m.all_keys_are_qstrs \in BOOLEAN
      /\ m.table \in [Slots(m) -> Entry \cup {NULL, SENTINEL}]
      /\ s \in Slots(m) /\ m.table[s] \in Entry
  BY <1>1, FilledEntry DEF Shape
<1>3. [m.table[s] EXCEPT !.value = v] = e /\ e \in Entry /\ e.key = m.table[s].key
  BY <1>2 DEF Entry
<1>4. /\ n = [table |-> n.table, alloc |-> n.alloc, used |-> n.used,
              all_keys_are_qstrs |-> n.all_keys_are_qstrs]
      /\ n.alloc = m.alloc /\ n.used = m.used
      /\ n.table = [m.table EXCEPT ![s] = [m.table[s] EXCEPT !.value = v]]
      /\ n.all_keys_are_qstrs = m.all_keys_are_qstrs
  BY <1>1, <1>2 DEF Shape
<1> HIDE DEF n, e
<1>5. n.table = [m.table EXCEPT ![s] = e]
  BY <1>3, <1>4
<1>6. Written(m, n, s, e)
  BY <1>2, <1>3, <1>4, <1>5 DEF Written, Shape, Slots
<1>7. /\ Slots(n) = Slots(m) /\ n.table[s] = e /\ Filled(n) = Filled(m)
      /\ \A i \in Slots(m) \ {s} : n.table[i] = m.table[i]
  <2>1. Slots(n) = Slots(m) /\ n.table[s] = e /\ \A i \in Slots(m) \ {s} : n.table[i] = m.table[i]
    BY <1>1, <1>2, <1>6, WrittenFills
  <2>2. Filled(n) = Filled(m) \cup {s}
    BY <1>1, <1>2, <1>3, <1>6, WrittenFills
  <2> QED BY <2>1, <2>2
<1>8. Distinct(n) /\ Entries(n) = Others(m, Class[e.key]) \cup {e}
  <2>1. \A i : Holds(m, e.key, i) => i = s
    BY <1>1, <1>3 DEF Holds, Distinct
  <2>2. Holds(m, e.key, s)
    BY <1>3 DEF Holds
  <2>3. Distinct(n)
    BY <1>1, <1>2, <1>3, <1>6, <2>1, EntryWritten
  <2>4. Entries(n) = Others(m, Class[e.key]) \cup {e}
    BY <1>1, <1>2, <1>3, <1>6, <2>1, <2>2, EntryWritten
  <2> QED BY <2>3, <2>4
<1>9. \A i \in Filled(m) : n.table[i].key = m.table[i].key
  BY <1>1, <1>3, <1>7, FilledEntry
<1>10. OnlyQstrs(n)
  BY <1>1, <1>4, <1>7, <1>9 DEF OnlyQstrs
<1>11. CASE kind = "ordered"
  <2>1. InFront(n)
    BY <1>1, <1>4, <1>7, <1>11 DEF InFront
  <2> QED BY <1>4, <1>6, <1>8, <1>9, <1>10, <1>11, <2>1 DEF MapOK, Written, n, e
<1>12. CASE kind # "ordered"
  <2>1. Counted(n)
    BY <1>1, <1>4, <1>7, <1>12 DEF Hashed, Counted
  <2>2. e # NULL
    BY <1>3, EntryFills
  <2>3. ASSUME NEW i \in Filled(n) PROVE Reaches(n, i)
    BY <1>1, <1>2, <1>6, <1>7, <1>9, <1>12, <2>2, StillReaches DEF Hashed
  <2> QED BY <1>4, <1>6, <1>8, <1>9, <1>10, <1>12, <2>1, <2>3 DEF MapOK, Written, Hashed, n, e
<1> QED BY <1>11, <1>12

(* One slot loses its entry.  A hash table may leave NULL there if the     *)
(* next slot is NULL, and counts; an array keeps all entries before used.  *)
Erased(m, n, s, x, u) ==
    /\ n = [table |-> n.table, alloc |-> n.alloc, used |-> n.used,
            all_keys_are_qstrs |-> n.all_keys_are_qstrs]
    /\ n.table = [m.table EXCEPT ![s] = x] /\ n.alloc = m.alloc /\ n.used = u
    /\ n.all_keys_are_qstrs = m.all_keys_are_qstrs
    /\ x = NULL => kind # "ordered" /\ m.table[(s + 1) % m.alloc] = NULL
    /\ IF kind = "ordered" THEN /\ u \in Nat /\ u <= m.alloc
                                /\ \A i \in Filled(m) \ {s} : i < u
                           ELSE u = m.used - 1

LEMMA ErasedOK ==
    ASSUME kind \in Kinds, Hashes, NEW m, MapOK(m), NEW n, NEW s \in Filled(m),
           NEW x \in {NULL, SENTINEL}, NEW u, Erased(m, n, s, x, u)
    PROVE  /\ MapOK(n) /\ n.alloc = m.alloc
           /\ Entries(n) = Others(m, Class[m.table[s].key])
           /\ \A i \in Slots(m) \ {s} : n.table[i] = m.table[i]
           /\ ~MP_MAP_SLOT_IS_FILLED(n, s)
<1>1. /\ Shape(m) /\ Distinct(m) /\ OnlyQstrs(m) /\ m.table[s] # NULL
      /\ IF kind = "ordered" THEN InFront(m) ELSE Hashed(m)
  BY DEF MapOK, Filled, MP_MAP_SLOT_IS_FILLED
<1>2. /\ m.alloc \in Nat /\ m.used \in Nat /\ m.all_keys_are_qstrs \in BOOLEAN
      /\ m.table \in [Slots(m) -> Entry \cup {NULL, SENTINEL}] /\ s \in Slots(m)
  BY <1>1, FilledEntry DEF Shape
<1>3. kind # "ordered" =>
         /\ m.used = Cardinality(Filled(m)) /\ IsFiniteSet(Filled(m))
         /\ Cardinality(Filled(m) \ {s}) = m.used - 1 /\ m.used - 1 \in Nat
  <2>1. /\ IsFiniteSet(Filled(m))
        /\ Cardinality(Filled(m) \ {s}) = Cardinality(Filled(m)) - 1
        /\ IsFiniteSet(Filled(m) \ {s})
    BY <1>1, FilledFinite, FS_RemoveElement
  <2>2. Cardinality(Filled(m) \ {s}) \in Nat
    BY <2>1, FS_CardinalityType
  <2> QED BY <1>1, <2>1, <2>2 DEF Hashed, Counted
<1>4. u \in Nat
  BY <1>3 DEF Erased
<1>5. Written(m, n, s, x)
  BY <1>2, <1>4 DEF Written, Shape, Slots, Erased
<1>6. /\ Distinct(n) /\ Filled(n) = Filled(m) \ {s}
      /\ \A i \in Filled(n) : n.table[i] = m.table[i]
      /\ Entries(n) = Others(m, Class[m.table[s].key])
  BY <1>1, <1>5, EntryErased
<1>7. \A i \in Slots(m) \ {s} : n.table[i] = m.table[i]
  BY <1>2, <1>5 DEF Written
<1>8. OnlyQstrs(n)
  BY <1>1, <1>6 DEF OnlyQstrs, Erased
<1>9. ~MP_MAP_SLOT_IS_FILLED(n, s)
  BY <1>2 DEF Erased, MP_MAP_SLOT_IS_FILLED
<1>10. CASE kind = "ordered"
  <2>1. InFront(n)
    BY <1>6, <1>10 DEF InFront, Erased
  <2> QED BY <1>5, <1>6, <1>7, <1>8, <1>9, <1>10, <2>1 DEF MapOK, Written
<1>11. CASE kind # "ordered"
  <2>1. Counted(n)
    BY <1>3, <1>6, <1>11 DEF Counted, Erased
  <2>2. ASSUME NEW i \in Filled(n) PROVE Reaches(n, i)
    <3>1. i \in Filled(m) /\ i # s /\ n.table[i].key = m.table[i].key /\ Reaches(m, i)
      BY <1>1, <1>6, <1>11 DEF Hashed
    <3>2. x = NULL => m.table[s] # NULL /\ m.table[(s + 1) % m.alloc] = NULL
      BY <1>1 DEF Erased
    <3> QED BY <1>1, <1>2, <1>5, <3>1, <3>2, StillReaches
  <2> QED BY <1>5, <1>6, <1>7, <1>8, <1>9, <1>11, <2>1, <2>2 DEF MapOK, Written, Hashed
<1> QED BY <1>10, <1>11

LEMMA VacatedOK ==
    ASSUME kind \in Kinds, kind # "ordered", NEW m, Shape(m), NEW s \in Slots(m)
    PROVE  \E x \in {NULL, SENTINEL} : Erased(m, Vacated(m, s), s, x, m.used - 1)
<1> DEFINE x == IF m.table[(s + 1) % m.alloc] = NULL THEN NULL ELSE SENTINEL
<1>1. x = NULL => m.table[(s + 1) % m.alloc] = NULL
  BY MapAssumption
<1>2. Vacated(m, s) = [m EXCEPT !.table[s] = x, !.used = @ - 1]
  BY DEF Vacated
<1> HIDE DEF x
<1>3. Erased(m, Vacated(m, s), s, x, m.used - 1)
  BY <1>1, <1>2 DEF Erased, Shape
<1>4. x \in {NULL, SENTINEL}
  BY DEF x
<1> QED BY <1>3, <1>4

LEMMA RemovedOK ==
    ASSUME kind \in Kinds, NEW m, MapOK(m), NEW s \in Filled(m)
    PROVE  \E x \in {NULL, SENTINEL}, u \in Int : Erased(m, Removed(m, s), s, x, u)
<1>1. Shape(m) /\ s \in Slots(m) /\ m.used \in Nat /\ m.alloc \in Nat
  BY FilledEntry DEF MapOK, Shape
<1>2. CASE kind = "ordered"
  <2>1. Removed(m, s) = [m EXCEPT !.table[s] = SENTINEL] /\ InFront(m)
    BY <1>2 DEF Removed, MapOK
  <2>2. SENTINEL # NULL
    BY MapAssumption
  <2>3. Erased(m, Removed(m, s), s, SENTINEL, m.used)
    BY <1>1, <1>2, <2>1, <2>2 DEF Erased, Shape, InFront
  <2> QED BY <1>1, <2>3
<1>3. CASE kind # "ordered"
  <2>1. m.used - 1 \in Int /\ Removed(m, s) = Vacated(m, s)
    BY <1>1, <1>3 DEF Removed
  <2> QED BY <1>1, <1>3, <2>1, VacatedOK
<1> QED BY <1>2, <1>3

-----------------------------------------------------------------------------
(* Growth.                                                                 *)
LEMMA NewSizeGrows ==
    ASSUME NEW x \in Nat
    PROVE  /\ get_hash_alloc_greater_or_equal_to(x) \in Nat
           /\ get_hash_alloc_greater_or_equal_to(x) >= x
<1> DEFINE enough == {n \in hash_allocation_sizes : n >= x}
           more   == x + x \div 2
<1>1. enough \in SUBSET Nat /\ \A n \in enough : n >= x
  BY DEF hash_allocation_sizes
<1>2. more \in Nat /\ more >= x /\ more % 2 \in {0, 1}
  BY SMT
<1>3. get_hash_alloc_greater_or_equal_to(x) =
         IF enough # {} THEN Min(enough) ELSE more + 1 - (more % 2)
  BY DEF get_hash_alloc_greater_or_equal_to
<1> HIDE DEF enough, more
<1>4. CASE enough # {}
  <2>1. Min(enough) \in enough
    BY <1>1, <1>4, LeastOf
  <2> QED BY <1>1, <1>3, <1>4, <2>1
<1>5. CASE enough = {}
  BY <1>2, <1>3, <1>5
<1> QED BY <1>4, <1>5

LEMMA EmptyOK ==
    ASSUME kind \in Kinds, NEW n \in Nat
    PROVE  /\ MapOK(Empty(n)) /\ Filled(Empty(n)) = {} /\ Entries(Empty(n)) = {}
           /\ Empty(n).alloc = n /\ Empty(n).used = 0
<1> DEFINE m == Empty(n)
<1>1. m = [table |-> [i \in 0 .. n - 1 |-> NULL], alloc |-> n, used |-> 0,
           all_keys_are_qstrs |-> kind # "set"]
  BY DEF Empty
<1>2. /\ m = [table |-> m.table, alloc |-> m.alloc, used |-> m.used,
              all_keys_are_qstrs |-> m.all_keys_are_qstrs]
      /\ m.table = [i \in 0 .. n - 1 |-> NULL] /\ m.alloc = n /\ m.used = 0
      /\ m.all_keys_are_qstrs \in BOOLEAN
  BY <1>1
<1> HIDE DEF m
<1>3. Shape(m)
  BY <1>2 DEF Shape, Slots
<1>4. Filled(m) = {}
  BY <1>2 DEF Filled, Slots, MP_MAP_SLOT_IS_FILLED
<1>5. Entries(m) = {}
  BY <1>3, <1>4, EntriesAreFilled
<1>6. Counted(m)
  BY <1>2, <1>4, FS_EmptySet DEF Counted
<1> QED BY <1>2, <1>3, <1>4, <1>5, <1>6 DEF MapOK, Distinct, OnlyQstrs, InFront, Hashed, m

\* The loop of the rehash, of a map m into one with N slots.
Start(m) == Empty(get_hash_alloc_greater_or_equal_to(m.alloc + 1))
IsMoved(moved, m) ==
    moved = [i \in 0 .. m.alloc |-> IF i = 0 THEN Start(m) ELSE Move(moved[i - 1], m, i - 1)]

Tables(N) == [table : [0 .. N - 1 -> Entry \cup {NULL, SENTINEL}], alloc : {N},
              used : Int, all_keys_are_qstrs : BOOLEAN]

LEMMA MovedExists ==
    ASSUME kind \in Kinds, kind # "ordered", NEW m, Shape(m)
    PROVE  \E moved : IsMoved(moved, m)
<1> DEFINE L == m.alloc
           N == get_hash_alloc_greater_or_equal_to(L + 1)
           S == Tables(N)
           G == [s \in S |-> [i \in 1 .. L |-> Move(s, m, i - 1)]]
<1>1. L \in Nat /\ m.table \in [Slots(m) -> Entry \cup {NULL, SENTINEL}]
  BY DEF Shape
<1> HIDE DEF N
<1>2. ASSUME NEW s \in S, NEW e \in Entry PROVE Added(s, e) \in S
  <2>1. /\ s = [table |-> s.table, alloc |-> N, used |-> s.used,
                all_keys_are_qstrs |-> s.all_keys_are_qstrs]
        /\ s.table \in [0 .. N - 1 -> Entry \cup {NULL, SENTINEL}]
        /\ s.used \in Int /\ s.all_keys_are_qstrs \in BOOLEAN
    BY DEF Tables
  <2> DEFINE t == [s.table EXCEPT ![Slot(s, e.key)] = e]
  <2>2. t \in [0 .. N - 1 -> Entry \cup {NULL, SENTINEL}]
    BY <2>1
  <2> DEFINE a == Added(s, e)
  <2>3. a = [s EXCEPT !.table[Slot(s, e.key)] = e, !.used = @ + 1,
                      !.all_keys_are_qstrs = @ /\ e.key \in Qstrs]
    BY DEF Added
  <2> HIDE DEF a
  <2>4. /\ a = [table |-> a.table, alloc |-> a.alloc, used |-> a.used,
                all_keys_are_qstrs |-> a.all_keys_are_qstrs]
        /\ a.alloc = s.alloc /\ a.used = s.used + 1 /\ a.table = t
        /\ a.all_keys_are_qstrs <=> s.all_keys_are_qstrs /\ e.key \in Qstrs
        /\ a.all_keys_are_qstrs \in BOOLEAN
    BY <2>1, <2>3
  <2>5. s.alloc = N
    BY <2>1
  <2> HIDE DEF t
  <2> QED BY <2>1, <2>2, <2>4, <2>5 DEF Tables, a
<1>3. ASSUME NEW s \in S, NEW i \in 1 .. L PROVE Move(s, m, i - 1) \in S
  <2>1. i - 1 \in Slots(m)
    BY <1>1 DEF Slots
  <2>2. MP_MAP_SLOT_IS_FILLED(m, i - 1) => m.table[i - 1] \in Entry
    BY <1>1, <2>1 DEF MP_MAP_SLOT_IS_FILLED
  <2> HIDE DEF S
  <2> QED BY <1>2, <2>2 DEF Move
<1>4. Start(m) \in S
  <2>1. Start(m) = [table |-> [i \in 0 .. N - 1 |-> NULL], alloc |-> N, used |-> 0,
                    all_keys_are_qstrs |-> kind # "set"]
    BY DEF Start, Empty, N
  <2> QED BY <2>1 DEF Tables
<1> HIDE DEF S
<1>5. G \in [S -> [1 .. L -> S]] /\ \A s \in S : \A i \in 1 .. L : G[s][i] = Move(s, m, i - 1)
  BY <1>3
<1> HIDE DEF G
<1> HIDE DEF L
<1>6. PICK moved \in [0 .. L -> S] : IsIteration(moved, Start(m), G, L)
  BY <1>1, <1>4, <1>5, IterationExists
<1>7. \A i \in 0 .. L : i # 0 => moved[i] = Move(moved[i - 1], m, i - 1)
  <2>1. ASSUME NEW i \in 0 .. L, i # 0 PROVE moved[i] = Move(moved[i - 1], m, i - 1)
    <3>1. i \in 1 .. L /\ i - 1 \in 0 .. L
      BY <1>1, <2>1
    <3>2. moved[i - 1] \in S /\ moved[i] = G[moved[i - 1]][i]
      BY <1>6, <3>1 DEF IsIteration
    <3> QED BY <1>5, <3>1, <3>2
  <2> QED BY <2>1
<1>8. moved[0] = Start(m)
  BY <1>6 DEF IsIteration
<1>9. moved = [i \in 0 .. L |-> IF i = 0 THEN Start(m) ELSE Move(moved[i - 1], m, i - 1)]
  BY <1>6, <1>7, <1>8
<1> QED BY <1>9 DEF IsMoved, L

\* What n has after i turns of it.
HasMoved(n, m, i, N) ==
    /\ MapOK(n) /\ n.alloc = N /\ n.used <= i
    /\ Entries(n) = {m.table[j] : j \in {h \in Filled(m) : h < i}}

LEMMA MoveOK ==
    ASSUME kind \in Kinds, kind # "ordered", Hashes, NEW m, MapOK(m), NEW N \in Nat, m.alloc < N,
           NEW i \in Slots(m), NEW n, HasMoved(n, m, i, N)
    PROVE  HasMoved(Move(n, m, i), m, i + 1, N)
<1>1. Shape(m) /\ Distinct(m) /\ i \in Nat /\ i < m.alloc /\ m.alloc \in Nat
  BY DEF MapOK, Shape, Slots
<1>2. MapOK(n) /\ Shape(n) /\ n.used \in Nat
  BY DEF HasMoved, MapOK, Shape
<1>3. CASE i \notin Filled(m)
  <2>1. Move(n, m, i) = n
    BY <1>3 DEF Move, Filled
  <2>2. {h \in Filled(m) : h < i + 1} = {h \in Filled(m) : h < i}
    BY <1>1, <1>3 DEF Filled, Slots
  <2>3. n.used <= i + 1
    BY <1>1, <1>2 DEF HasMoved
  <2> QED BY <2>1, <2>2, <2>3 DEF HasMoved
<1>4. CASE i \in Filled(m)
  <2> DEFINE e == m.table[i]
  <2>1. Move(n, m, i) = Added(n, e) /\ e \in Entry /\ e.key \in Keys
    BY <1>1, <1>4, FilledEntry DEF Move, Filled
  <2>2. \A d \in Entries(n) : Class[d.key] # Class[e.key]
    <3>1. ASSUME NEW j \in Filled(m), j < i PROVE Class[m.table[j].key] # Class[e.key]
      BY <1>1, <1>4, <3>1 DEF Distinct, Filled, Slots
    <3> QED BY <3>1 DEF HasMoved
  <2> HIDE DEF e
  <2>3. \A j : ~Holds(n, e.key, j)
    BY <1>2, <2>2, EntriesAreFilled DEF Holds
  <2>4. Others(n, Class[e.key]) = Entries(n)
    BY <2>2 DEF Others
  <2>5. Free(n, e.key) # {}
    BY <1>1, <1>2, <2>1, FullWhenNotFree DEF HasMoved
  <2>6. /\ MapOK(Added(n, e)) /\ Added(n, e).alloc = n.alloc /\ Added(n, e).used = n.used + 1
        /\ Entries(Added(n, e)) = Others(n, Class[e.key]) \cup {e}
    BY <1>2, <2>1, <2>3, <2>5, AddedOK
  <2>7. {h \in Filled(m) : h < i + 1} = {h \in Filled(m) : h < i} \cup {i}
    BY <1>1, <1>4 DEF Filled, Slots
  <2>8. Entries(Added(n, e)) = {m.table[j] : j \in {h \in Filled(m) : h < i + 1}}
    BY <2>4, <2>6, <2>7 DEF HasMoved, e
  <2>9. n.used + 1 <= i + 1
    BY <1>1, <1>2 DEF HasMoved
  <2> QED BY <2>1, <2>6, <2>8, <2>9 DEF HasMoved
<1> QED BY <1>3, <1>4

LEMMA GrownOK ==
    ASSUME kind \in Kinds, Hashes, NEW m, MapOK(m), kind = "ordered" => m.used = m.alloc
    PROVE  /\ MapOK(Grown(m)) /\ Entries(Grown(m)) = Entries(m)
           /\ Grown(m).alloc > m.alloc /\ Grown(m).used <= m.alloc
<1>1. /\ Shape(m) /\ m.alloc \in Nat /\ m.used \in Nat /\ DOMAIN m.table = Slots(m)
      /\ m.table \in [Slots(m) -> Entry \cup {NULL, SENTINEL}]
      /\ m.all_keys_are_qstrs \in BOOLEAN /\ Distinct(m) /\ OnlyQstrs(m)
  BY DEF MapOK, Shape
<1>2. CASE kind = "ordered"
  <2> DEFINE n == Grown(m)
  <2>1. n = [m EXCEPT !.alloc = @ + 4,
                      !.table = [i \in 0 .. m.alloc + 3 |-> IF i < m.used THEN m.table[i] ELSE NULL]]
    BY <1>2 DEF Grown
  <2>2. /\ n = [table |-> n.table, alloc |-> n.alloc, used |-> n.used,
                all_keys_are_qstrs |-> n.all_keys_are_qstrs]
        /\ n.table = [i \in 0 .. m.alloc + 3 |-> IF i < m.used THEN m.table[i] ELSE NULL]
        /\ n.alloc = m.alloc + 4 /\ n.used = m.used /\ n.all_keys_are_qstrs = m.all_keys_are_qstrs
    BY <1>1, <2>1 DEF Shape
  <2> HIDE DEF n
  <2>3. Shape(n)
    <3>1. \A i \in 0 .. m.alloc + 3 : i < m.used => m.table[i] \in Entry \cup {NULL, SENTINEL}
      BY <1>1, <1>2 DEF Slots
    <3>2. n.table \in [0 .. n.alloc - 1 -> Entry \cup {NULL, SENTINEL}]
      BY <1>1, <2>2, <3>1
    <3> QED BY <1>1, <2>2, <3>2 DEF Shape, Slots
  <2>4. \A i \in Slots(m) : i \in Slots(n) /\ n.table[i] = m.table[i]
    BY <1>1, <1>2, <2>2 DEF Slots
  <2>5. \A i \in Slots(n) : i \notin Slots(m) => n.table[i] = NULL
    BY <1>1, <1>2, <2>2 DEF Slots
  <2>6. Filled(n) = Filled(m) /\ \A i \in Filled(n) : n.table[i] = m.table[i]
    BY <2>4, <2>5 DEF Filled, MP_MAP_SLOT_IS_FILLED
  <2>7. Entries(n) = Entries(m)
    <3>1. Entries(n) = {n.table[i] : i \in Filled(n)} /\ Entries(m) = {m.table[i] : i \in Filled(m)}
      BY <1>1, <2>3, EntriesAreFilled
    <3> QED BY <2>6, <3>1
  <2>8. InFront(m)
    BY <1>2 DEF MapOK
  <2>9. InFront(n)
    BY <1>1, <2>2, <2>6, <2>8 DEF InFront
  <2>10. Distinct(n) /\ OnlyQstrs(n)
    BY <1>1, <2>2, <2>6 DEF Distinct, OnlyQstrs
  <2> QED BY <1>1, <1>2, <2>2, <2>3, <2>7, <2>9, <2>10 DEF MapOK, n
<1>3. CASE kind # "ordered"
  <2> DEFINE L == m.alloc
             N == get_hash_alloc_greater_or_equal_to(L + 1)
             moved == CHOOSE f : IsMoved(f, m)
             T == {i \in Nat : i <= L => HasMoved(moved[i], m, i, N)}
  <2>1. IsMoved(moved, m)
    BY <1>1, <1>3, MovedExists
  <2>2. Grown(m) = moved[L]
    BY <1>3, Zenon DEF Grown, IsMoved, Start
  <2>3. N \in Nat /\ L < N
    BY <1>1, NewSizeGrows
  <2> HIDE DEF moved
  <2>4. moved[0] = Empty(N)
    <3>1. 0 \in 0 .. m.alloc
      BY <1>1
    <3>2. moved[0] = Start(m)
      BY <2>1, <3>1 DEF IsMoved
    <3> QED BY <3>2 DEF Start
  <2> HIDE DEF N
  <2>5. 0 \in T
    <3>1. {h \in Filled(m) : h < 0} = {}
      BY <1>1 DEF Filled, Slots
    <3>2. Entries(Empty(N)) = {m.table[j] : j \in {h \in Filled(m) : h < 0}}
      BY <2>3, <3>1, EmptyOK
    <3> QED BY <2>3, <2>4, <3>2, EmptyOK DEF HasMoved
  <2>6. ASSUME NEW i \in Nat, i \in T PROVE i + 1 \in T
    <3> SUFFICES ASSUME i + 1 <= L PROVE HasMoved(moved[i + 1], m, i + 1, N)
      OBVIOUS
    <3>1. i + 1 \in 0 .. L /\ i + 1 # 0 /\ (i + 1) - 1 = i /\ i \in Slots(m) /\ i <= L
      BY <1>1 DEF Slots
    <3> HIDE DEF L
    <3>2. moved[i + 1] = Move(moved[i], m, i)
      BY <2>1, <3>1 DEF IsMoved, L
    <3>3. HasMoved(moved[i], m, i, N)
      BY <2>6, <3>1
    <3> QED BY <1>3, <2>3, <3>1, <3>2, <3>3, MoveOK DEF L
  <2>7. L \in T
    <3> HIDE DEF T
    <3> QED BY <1>1, <2>5, <2>6, SetInduction
  <2>8. HasMoved(Grown(m), m, L, N)
    BY <1>1, <2>2, <2>7
  <2>9. {h \in Filled(m) : h < L} = Filled(m)
    BY <1>1 DEF Filled, Slots
  <2> QED BY <1>1, <2>3, <2>8, <2>9, EntriesAreFilled DEF HasMoved
<1> QED BY <1>2, <1>3

-----------------------------------------------------------------------------
(* The dictionary that a set of entries with different keys stands for.    *)
ContentOf(E) == [c \in {Class[e.key] : e \in E} |-> CHOOSE e \in E : Class[e.key] = c]

Unique(E) == \A d, e \in E : Class[d.key] = Class[e.key] => d = e

LEMMA ContentIs == Content = ContentOf(Entries(map)) /\ Content' = ContentOf(Entries(map'))
  BY DEF Content, ContentOf, Entries, MP_MAP_SLOT_IS_FILLED

LEMMA EntriesUnique ==
    ASSUME NEW m, MapOK(m) PROVE Unique(Entries(m))
<1>1. Shape(m) /\ Distinct(m)
  BY DEF MapOK
<1>2. Entries(m) = {m.table[i] : i \in Filled(m)}
  BY <1>1, EntriesAreFilled
<1> QED BY <1>1, <1>2 DEF Unique, Distinct

LEMMA ContentGives ==
    ASSUME NEW E, Unique(E)
    PROVE  /\ DOMAIN ContentOf(E) = {Class[e.key] : e \in E}
           /\ \A e \in E : ContentOf(E)[Class[e.key]] = e
<1>1. DOMAIN ContentOf(E) = {Class[e.key] : e \in E}
  BY DEF ContentOf
<1>2. ASSUME NEW e \in E PROVE ContentOf(E)[Class[e.key]] = e
  <2> DEFINE c == Class[e.key]
  <2>1. c \in {Class[d.key] : d \in E}
    OBVIOUS
  <2>2. ContentOf(E)[c] = CHOOSE d \in E : Class[d.key] = c
    BY <2>1 DEF ContentOf
  <2>3. (CHOOSE d \in E : Class[d.key] = c) \in E
        /\ Class[(CHOOSE d \in E : Class[d.key] = c).key] = c
    OBVIOUS
  <2> QED BY <2>2, <2>3 DEF Unique
<1> QED BY <1>1, <1>2

LEMMA ContentPut ==
    ASSUME NEW E, Unique(E), NEW e
    PROVE  LET c == Class[e.key]
               F == {d \in E : Class[d.key] # c} \cup {e}
           IN  ContentOf(F) = [d \in DOMAIN ContentOf(E) \cup {c} |->
                                  IF d = c THEN e ELSE ContentOf(E)[d]]
<1> DEFINE c == Class[e.key]
           F == {d \in E : Class[d.key] # c} \cup {e}
           C == ContentOf(E)
<1>1. Unique(F)
  BY DEF Unique
<1>2. DOMAIN C = {Class[d.key] : d \in E} /\ \A d \in E : C[Class[d.key]] = d
  BY ContentGives
<1>3. DOMAIN ContentOf(F) = {Class[d.key] : d \in F} /\ \A d \in F : ContentOf(F)[Class[d.key]] = d
  BY <1>1, ContentGives
<1>4. ContentOf(F) = [d \in DOMAIN ContentOf(F) |-> ContentOf(F)[d]]
  BY DEF ContentOf
<1> HIDE DEF C
<1>5. DOMAIN ContentOf(F) = DOMAIN C \cup {c}
  BY <1>2, <1>3
<1>6. ASSUME NEW d \in DOMAIN C \cup {c}
      PROVE  ContentOf(F)[d] = IF d = c THEN e ELSE C[d]
  <2>1. CASE d = c
    BY <1>3, <2>1
  <2>2. CASE d # c
    <3>1. PICK x \in E : Class[x.key] = d
      BY <1>2, <2>2
    <3>2. x \in F
      BY <2>2, <3>1
    <3> QED BY <1>2, <1>3, <2>2, <3>1, <3>2
  <2> QED BY <2>1, <2>2
<1> HIDE DEF F, c
<1>7. ContentOf(F) = [d \in DOMAIN C \cup {c} |-> IF d = c THEN e ELSE C[d]]
  BY <1>4, <1>5, <1>6
<1> QED BY <1>7 DEF C, F, c

LEMMA ContentWithout ==
    ASSUME NEW E, Unique(E), NEW c
    PROVE  LET F == {d \in E : Class[d.key] # c}
           IN  ContentOf(F) = [d \in DOMAIN ContentOf(E) \ {c} |-> ContentOf(E)[d]]
<1> DEFINE F == {d \in E : Class[d.key] # c}
           C == ContentOf(E)
<1>1. Unique(F)
  BY DEF Unique
<1>2. DOMAIN C = {Class[d.key] : d \in E} /\ \A d \in E : C[Class[d.key]] = d
  BY ContentGives
<1>3. DOMAIN ContentOf(F) = {Class[d.key] : d \in F} /\ \A d \in F : ContentOf(F)[Class[d.key]] = d
  BY <1>1, ContentGives
<1>4. ContentOf(F) = [d \in DOMAIN ContentOf(F) |-> ContentOf(F)[d]]
  BY DEF ContentOf
<1> HIDE DEF C
<1>5. DOMAIN ContentOf(F) = DOMAIN C \ {c}
  BY <1>2, <1>3
<1>6. ASSUME NEW d \in DOMAIN C \ {c} PROVE ContentOf(F)[d] = C[d]
  <2>1. PICK x \in E : Class[x.key] = d
    BY <1>2
  <2>2. x \in F
    BY <2>1
  <2> QED BY <1>2, <1>3, <2>1, <2>2
<1> HIDE DEF F
<1>7. ContentOf(F) = [d \in DOMAIN C \ {c} |-> C[d]]
  BY <1>4, <1>5, <1>6
<1> QED BY <1>7 DEF C, F

LEMMA ContentAt ==
    ASSUME MapOK(map), NEW k \in Keys
    PROVE  /\ (\A i : ~Holds(map, k, i)) => Class[k] \notin DOMAIN Content
           /\ \A i : Holds(map, k, i) => Class[k] \in DOMAIN Content
                                         /\ Content[Class[k]] = map.table[i]
<1>1. Shape(map) /\ Unique(Entries(map))
  BY EntriesUnique DEF MapOK
<1>2. Entries(map) = {map.table[i] : i \in Filled(map)}
  BY <1>1, EntriesAreFilled
<1>3. /\ DOMAIN Content = {Class[e.key] : e \in Entries(map)}
      /\ \A e \in Entries(map) : Content[Class[e.key]] = e
  BY <1>1, ContentGives, ContentIs
<1>4. ASSUME \A i : ~Holds(map, k, i) PROVE Class[k] \notin DOMAIN Content
  BY <1>2, <1>3, <1>4 DEF Holds
<1>5. ASSUME NEW i, Holds(map, k, i)
      PROVE  Class[k] \in DOMAIN Content /\ Content[Class[k]] = map.table[i]
  BY <1>2, <1>3, <1>5 DEF Holds
<1> QED BY <1>4, <1>5

-----------------------------------------------------------------------------
(* What a step does: the map stays well formed, entries stay where they    *)
(* are, and the dictionary makes the same step.                            *)
Stays(m, n) ==
    /\ n.alloc = m.alloc =>
          \A i \in DOMAIN m.table :
             MP_MAP_SLOT_IS_FILLED(m, i) =>
                 \/ ~MP_MAP_SLOT_IS_FILLED(n, i)
                 \/ n.table[i].key = m.table[i].key
    /\ n.alloc > m.alloc => m.used = m.alloc

Effect ==
    /\ Stays(map, map')
    /\ fault' = "none" => MapOK(map') /\ (D!Call \/ UNCHANGED <<Content, result>>)
    /\ fault' # "none" => kind # "dict"

LEMMA StaysItself ==
    ASSUME NEW m, Shape(m), NEW n, n.table = m.table, n.alloc > m.alloc => m.used = m.alloc
    PROVE  Stays(m, n)
  BY DEF Stays, Shape

LEMMA TornKeeps ==
    ASSUME kind \in Kinds, NEW m, Shape(m)
    PROVE  Torn(m).table = m.table /\ (kind = "dict" => Torn(m) = m)
<1>1. CASE kind = "dict"
  BY <1>1 DEF Torn
<1>2. CASE kind = "ordered"
  <2>1. Torn(m) = [m EXCEPT !.alloc = @ + 4]
    BY <1>2 DEF Torn
  <2> QED BY <1>2, <2>1 DEF Shape
<1>3. CASE kind = "set"
  <2>1. Torn(m) = [m EXCEPT !.alloc = get_hash_alloc_greater_or_equal_to(@ + 1), !.used = 0]
    BY <1>3 DEF Torn
  <2> QED BY <1>3, <2>1 DEF Shape
<1> QED BY <1>1, <1>2, <1>3 DEF Kinds

LEMMA InsertEffect ==
    ASSUME MInv, fault = "none", NEW k \in Keys, NEW v \in Values \cup Keys,
           \A i : ~Holds(map, k, i), Insert(map, [key |-> k, value |-> v])
    PROVE  Effect
<1> DEFINE e == [key |-> k, value |-> v]
           c == Class[k]
<1>1. /\ kind \in Kinds /\ Hashes /\ MapOK(map) /\ Shape(map)
      /\ e \in Entry /\ e.key = k /\ e.value = v
      /\ map.alloc \in Nat /\ map.used \in Nat /\ DOMAIN map.table = Slots(map)
  BY DEF MInv, MapOK, Shape, Entry
<1>2. Free(map, k) = {} <=> map.used = map.alloc
  BY <1>1, FullWhenNotFree
<1>3. Unique(Entries(map)) /\ c \notin DOMAIN Content
  BY <1>1, EntriesUnique, ContentAt
<1>4. ASSUME NEW n, Entries(n) = {d \in Entries(map) : Class[d.key] # c} \cup {e},
             map' = n, result' = v
      PROVE  D!Call
  <2>1. Content = ContentOf(Entries(map)) /\ Content' = ContentOf(Entries(n))
    BY <1>4, ContentIs
  <2>2. Content' = D!With(e)
    <3> HIDE DEF e
    <3>1. ContentOf({d \in Entries(map) : Class[d.key] # Class[e.key]} \cup {e})
             = [d \in DOMAIN ContentOf(Entries(map)) \cup {Class[e.key]} |->
                   IF d = Class[e.key] THEN e ELSE ContentOf(Entries(map))[d]]
      BY <1>3, ContentPut
    <3> QED BY <1>1, <1>4, <2>1, <3>1 DEF D!With
  <2>3. D!PutNew(k, v)
    BY <1>3, <1>4, <2>2 DEF D!PutNew
  <2> QED BY <2>3 DEF D!Call
<1>5. CASE Free(map, k) # {} /\ map' = Added(map, e) /\ result' = v /\ UNCHANGED fault
  <2>1. /\ MapOK(Added(map, e)) /\ Added(map, e).alloc = map.alloc
        /\ Added(map, e).table = [map.table EXCEPT ![Slot(map, k)] = e]
        /\ Slot(map, k) \in Slots(map) \ Filled(map)
        /\ Entries(Added(map, e)) = Others(map, c) \cup {e}
    <3> HIDE DEF e
    <3>1. Free(map, e.key) # {} /\ \A i : ~Holds(map, e.key, i)
      BY <1>1, <1>5
    <3> QED BY <1>1, <3>1, AddedOK
  <2>2. Stays(map, map')
    BY <1>1, <1>5, <2>1 DEF Stays, Filled
  <2>3. D!Call
    BY <1>4, <1>5, <2>1 DEF Others
  <2> QED BY <1>5, <2>1, <2>2, <2>3 DEF Effect
<1>6. CASE Free(map, k) = {} /\ map' = Added(Grown(map), e) /\ result' = v /\ UNCHANGED fault
  <2> DEFINE g == Grown(map)
  <2>1. MapOK(g) /\ Entries(g) = Entries(map) /\ g.alloc > map.alloc /\ g.used <= map.alloc
    BY <1>1, <1>2, <1>6, GrownOK
  <2> HIDE DEF g
  <2>2. Shape(g) /\ g.alloc \in Nat /\ g.used \in Nat
    BY <2>1 DEF MapOK, Shape
  <2>3. \A i : ~Holds(g, k, i)
    <3>1. \A d \in Entries(map) : Class[d.key] # c
      BY <1>1, EntriesAreFilled DEF Holds
    <3> QED BY <2>1, <2>2, <3>1, EntriesAreFilled DEF Holds
  <2>4. Free(g, k) # {}
    BY <1>1, <2>1, <2>2, FullWhenNotFree
  <2>5. /\ MapOK(Added(g, e)) /\ Added(g, e).alloc = g.alloc
        /\ Entries(Added(g, e)) = Others(g, c) \cup {e}
    <3> HIDE DEF e
    <3>1. Free(g, e.key) # {} /\ \A i : ~Holds(g, e.key, i)
      BY <1>1, <2>3, <2>4
    <3> QED BY <1>1, <2>1, <3>1, AddedOK
  <2>6. map'.alloc > map.alloc /\ map.used = map.alloc
    BY <1>2, <1>6, <2>1, <2>5 DEF g
  <2>7. Stays(map, map')
    BY <1>1, <2>1, <2>2, <2>5, <2>6, <1>6 DEF Stays, g
  <2>8. D!Call
    BY <1>4, <1>6, <2>1, <2>5 DEF Others, g
  <2> QED BY <1>6, <2>5, <2>7, <2>8 DEF Effect, g
<1>7. CASE /\ Free(map, k) = {} /\ map' = Torn(map) /\ result' = MemoryError
           /\ fault' = IF kind = "dict" THEN fault ELSE "torn"
  <2>1. map'.table = map.table /\ (kind = "dict" => map' = map)
    BY <1>1, <1>7, TornKeeps
  <2>2. fault' = "none" => MapOK(map')
    BY <1>1, <1>7, <2>1
  <2>3. Stays(map, map')
    BY <1>1, <1>2, <1>7, <2>1, StaysItself
  <2>4. Entries(map') = Entries(map)
    BY <2>1 DEF Entries, MP_MAP_SLOT_IS_FILLED
  <2>5. D!OutOfMemory
    BY <1>7, <2>4, ContentIs DEF D!OutOfMemory
  <2> QED BY <1>7, <2>2, <2>3, <2>5 DEF Effect, D!Call
<1>8. \/ Free(map, k) # {} /\ map' = Added(map, e) /\ result' = v /\ UNCHANGED fault
      \/ Free(map, k) = {} /\ map' = Added(Grown(map), e) /\ result' = v /\ UNCHANGED fault
      \/ /\ Free(map, k) = {} /\ map' = Torn(map) /\ result' = MemoryError
         /\ fault' = IF kind = "dict" THEN fault ELSE "torn"
  BY <1>1 DEF Insert
<1> QED BY <1>5, <1>6, <1>7, <1>8

\* A call that changes no entry.
LEMMA LookEffect ==
    ASSUME MInv, fault = "none", UNCHANGED <<map, fault>>,
           D!Call \/ UNCHANGED <<Content, result>>
    PROVE  Effect
  BY StaysItself DEF MInv, MapOK, Shape, Effect

LEMMA Answers ==
    ASSUME MapOK(map), NEW k \in Keys, NEW s, Holds(map, k, s)
    PROVE  /\ map.table[s].value = D!Answer(k) /\ s \in Filled(map)
           /\ map.table[s].value \in Values \cup Keys
<1>1. Class[k] \in DOMAIN Content /\ Content[Class[k]] = map.table[s]
  BY ContentAt
<1> QED BY <1>1, FilledEntry DEF D!Answer, Holds, MapOK

LEMMA GetEffect ==
    ASSUME MInv, NEW k \in Keys, Get(k) PROVE Effect
<1>1. /\ fault = "none" /\ UNCHANGED <<map, fault>> /\ MapOK(map) /\ kind \in Kinds /\ Hashes
      /\ result' = IF Lookup(map, k) = NoSlot THEN None ELSE map.table[Lookup(map, k)].value
  BY DEF Get, Sound, MInv
<1>2. result' = D!Answer(k)
  <2>1. CASE \A i : ~Holds(map, k, i)
    BY <1>1, <2>1, LooksUpEqual, ContentAt DEF D!Answer
  <2>2. CASE ~(\A i : ~Holds(map, k, i))
    BY <1>1, <2>2, LooksUpEqual, Answers
  <2> QED BY <2>1, <2>2
<1>3. Content' = Content
  BY <1>1, ContentIs
<1> QED BY <1>1, <1>2, <1>3, LookEffect DEF D!Call, D!Get

LEMMA StoreEffect ==
    ASSUME MInv, NEW k \in Keys, NEW v \in Values, Store(k, v) PROVE Effect
<1> DEFINE s == Find(map, k)
           c == Class[k]
<1>1. /\ fault = "none" /\ MapOK(map) /\ kind \in Kinds /\ Hashes /\ Shape(map)
      /\ v \in Values \cup Keys
  BY DEF Store, Sound, MInv, MapOK
<1>2. CASE s = NoSlot
  <2>1. (\A i : ~Holds(map, k, i)) /\ Insert(map, [key |-> k, value |-> v])
    BY <1>1, <1>2, FindsEqual DEF Store
  <2> QED BY <1>1, <2>1, InsertEffect
<1>3. CASE s # NoSlot
  <2> DEFINE n == [map EXCEPT !.table[s].value = v]
             e == [key |-> map.table[s].key, value |-> v]
  <2>1. map' = n /\ result' = v /\ UNCHANGED fault /\ Holds(map, k, s)
    BY <1>1, <1>3, FindsEqual DEF Store
  <2>2. s \in Filled(map) /\ Class[e.key] = c /\ e.key = map.table[s].key
        /\ Class[k] \in DOMAIN Content /\ Content[Class[k]] = map.table[s]
    BY <1>1, <2>1, ContentAt DEF Holds
  <2>3. /\ MapOK(n) /\ n.alloc = map.alloc
        /\ \A i \in Filled(map) : n.table[i].key = map.table[i].key
        /\ Entries(n) = Others(map, Class[e.key]) \cup {e}
    <3> HIDE DEF s
    <3> QED BY <1>1, <2>2, ReplacedOK
  <2> HIDE DEF n, s
  <2>4. Stays(map, map')
    BY <1>1, <2>1, <2>3 DEF Stays, Filled, MapOK, Shape
  <2>5. Content = ContentOf(Entries(map)) /\ Content' = ContentOf(Entries(n))
    BY <2>1, ContentIs
  <2>6. Unique(Entries(map))
    BY <1>1, EntriesUnique
  <2> HIDE DEF e
  <2>7. ContentOf({d \in Entries(map) : Class[d.key] # Class[e.key]} \cup {e})
           = [d \in DOMAIN ContentOf(Entries(map)) \cup {Class[e.key]} |->
                 IF d = Class[e.key] THEN e ELSE ContentOf(Entries(map))[d]]
    BY <2>6, ContentPut
  <2>8. Content' = D!With(e)
    BY <2>3, <2>5, <2>7 DEF D!With, Others
  <2>9. D!Put(k, v)
    <3>1. [key |-> IF Class[k] \in DOMAIN Content THEN Content[Class[k]].key ELSE k,
           value |-> v] = e
      BY <2>2 DEF e
    <3> QED BY <2>1, <2>8, <3>1 DEF D!Put
  <2> QED BY <1>1, <2>1, <2>3, <2>4, <2>9 DEF Effect, D!Call
<1> QED BY <1>2, <1>3

LEMMA AddEffect ==
    ASSUME MInv, NEW k \in Keys, NEW v \in Values \cup Keys, AddIfNotFound(k, v)
    PROVE  Effect
<1> DEFINE s == Find(map, k)
<1>1. fault = "none" /\ MapOK(map) /\ kind \in Kinds /\ Hashes
  BY DEF AddIfNotFound, Sound, MInv
<1>2. CASE s = NoSlot
  <2>1. (\A i : ~Holds(map, k, i)) /\ Insert(map, [key |-> k, value |-> v])
    BY <1>1, <1>2, FindsEqual DEF AddIfNotFound
  <2> QED BY <1>1, <2>1, InsertEffect
<1>3. CASE s # NoSlot
  <2>1. result' = map.table[s].value /\ UNCHANGED <<map, fault>> /\ Holds(map, k, s)
    BY <1>1, <1>3, FindsEqual DEF AddIfNotFound
  <2>2. result' = D!Answer(k)
    BY <1>1, <2>1, Answers
  <2>3. Content' = Content
    BY <2>1, ContentIs
  <2> QED BY <1>1, <2>1, <2>2, <2>3, LookEffect DEF D!Call, D!Get
<1> QED BY <1>2, <1>3

\* An entry of slot s goes, by whatever call.
LEMMA EraseEffect ==
    ASSUME MInv, fault = "none", NEW s \in Filled(map), NEW x \in {NULL, SENTINEL}, NEW u,
           Erased(map, map', s, x, u)
    PROVE  /\ MapOK(map') /\ Stays(map, map')
           /\ Content' = D!Without(Class[map.table[s].key])
<1>1. MapOK(map) /\ kind \in Kinds /\ Hashes /\ Shape(map) /\ DOMAIN map.table = Slots(map)
      /\ map.alloc \in Nat
  BY DEF MInv, MapOK, Shape
<1> DEFINE n == map'
           c == Class[map.table[s].key]
<1>2. Erased(map, n, s, x, u)
  OBVIOUS
<1> HIDE DEF n
<1>3. /\ MapOK(n) /\ n.alloc = map.alloc
      /\ Entries(n) = Others(map, c)
      /\ \A i \in Slots(map) \ {s} : n.table[i] = map.table[i]
      /\ ~MP_MAP_SLOT_IS_FILLED(n, s)
  BY <1>1, <1>2, ErasedOK
<1>4. Stays(map, n)
  BY <1>1, <1>3 DEF Stays
<1>5. Unique(Entries(map))
  BY <1>1, EntriesUnique
<1>6. ContentOf({d \in Entries(map) : Class[d.key] # c})
         = [d \in DOMAIN ContentOf(Entries(map)) \ {c} |-> ContentOf(Entries(map))[d]]
  BY <1>5, ContentWithout
<1>7. Content' = D!Without(c)
  BY <1>3, <1>6, ContentIs DEF D!Without, Others, n
<1> QED BY <1>3, <1>4, <1>7 DEF n

LEMMA RemoveEffect ==
    ASSUME MInv, NEW k \in Keys, RemoveIfFound(k) PROVE Effect
<1> DEFINE s == Lookup(map, k)
<1>1. fault = "none" /\ fault' = fault /\ MapOK(map) /\ kind \in Kinds /\ Hashes
  BY DEF RemoveIfFound, Sound, MInv
<1>2. CASE s = NoSlot
  <2>1. result' = None /\ UNCHANGED map /\ \A i : ~Holds(map, k, i)
    BY <1>1, <1>2, LooksUpEqual DEF RemoveIfFound
  <2>2. result' = D!Answer(k)
    BY <1>1, <2>1, ContentAt DEF D!Answer
  <2>3. Content' = Content
    BY <2>1, ContentIs
  <2> QED BY <1>1, <2>1, <2>2, <2>3, LookEffect DEF D!Call, D!Get
<1>3. CASE s # NoSlot
  <2>1. result' = map.table[s].value /\ map' = Removed(map, s) /\ Holds(map, k, s)
    BY <1>1, <1>3, LooksUpEqual DEF RemoveIfFound
  <2> HIDE DEF s
  <2>2. s \in Filled(map) /\ Class[map.table[s].key] = Class[k] /\ result' = D!Answer(k)
    BY <1>1, <2>1, Answers DEF Holds
  <2>3. PICK x \in {NULL, SENTINEL}, u \in Int : Erased(map, Removed(map, s), s, x, u)
    BY <1>1, <2>2, RemovedOK
  <2>4. /\ MapOK(map') /\ Stays(map, map')
        /\ Content' = D!Without(Class[map.table[s].key])
    BY <1>1, <2>1, <2>2, <2>3, EraseEffect
  <2>5. D!Remove(k)
    BY <2>2, <2>4 DEF D!Remove
  <2> QED BY <1>1, <2>4, <2>5 DEF Effect, D!Call
<1> QED BY <1>2, <1>3

LEMMA PopEffect ==
    ASSUME MInv, PopItem PROVE Effect
<1>1. /\ fault = "none" /\ MapOK(map) /\ kind \in Kinds /\ Hashes /\ Shape(map)
      /\ map.alloc \in Nat /\ map.used \in Nat /\ DOMAIN map.table = Slots(map)
  BY DEF PopItem, Sound, MInv, MapOK, Shape
<1>2. PICK s \in Slots(map) :
         /\ MP_MAP_SLOT_IS_FILLED(map, s)
         /\ map' = IF kind = "set" THEN Vacated(map, s)
                   ELSE [map EXCEPT !.table[s] = SENTINEL, !.used = @ - 1]
         /\ \/ result' = map.table[s].key
            \/ kind # "set" /\ result' = D!PopError
  BY <1>1 DEF PopItem, PopError, D!PopError
<1>3. s \in Filled(map)
  BY <1>2 DEF Filled
<1>4. \E x \in {NULL, SENTINEL} : Erased(map, map', s, x, map.used - 1)
  <2>1. CASE kind = "set"
    BY <1>1, <1>2, <2>1, VacatedOK
  <2>2. CASE kind = "dict"
    <3>1. SENTINEL # NULL
      BY MapAssumption
    <3>2. map' = [map EXCEPT !.table[s] = SENTINEL, !.used = @ - 1]
      BY <1>2, <2>2
    <3>3. Erased(map, map', s, SENTINEL, map.used - 1)
      BY <1>1, <2>2, <3>1, <3>2 DEF Erased, Shape
    <3> QED BY <3>3
  <2>3. CASE kind = "ordered"
    <3>1. SENTINEL # NULL
      BY MapAssumption
    <3>2. map' = [map EXCEPT !.table[s] = SENTINEL, !.used = @ - 1]
      BY <1>2, <2>3
    <3>3. \A i \in map'.used .. map.alloc - 1 : ~MP_MAP_SLOT_IS_FILLED(map', i)
      BY <2>3 DEF PopItem
    <3>4. map'.used = map.used - 1 /\ map'.table = [map.table EXCEPT ![s] = SENTINEL]
      BY <1>1, <3>2 DEF Shape
    <3>5. \A i \in Filled(map) : i < map.used /\ map.used <= map.alloc
      BY <1>1, <2>3 DEF MapOK, InFront
    <3>6. ASSUME NEW i \in Filled(map) \ {s} PROVE i < map.used - 1
      <4>1. i \in Slots(map) /\ map'.table[i] = map.table[i]
        BY <1>1, <3>4, <3>6 DEF Filled
      <4>2. MP_MAP_SLOT_IS_FILLED(map', i)
        BY <3>6, <4>1 DEF Filled, MP_MAP_SLOT_IS_FILLED
      <4> QED BY <1>1, <3>3, <3>4, <4>1, <4>2 DEF Slots
    <3>7. map.used - 1 \in Nat /\ map.used - 1 <= map.alloc
      BY <1>1, <1>3, <3>5 DEF Filled, Slots
    <3>8. Erased(map, map', s, SENTINEL, map.used - 1)
      BY <1>1, <2>3, <3>1, <3>2, <3>6, <3>7 DEF Erased, Shape
    <3> QED BY <3>8
  <2> QED BY <1>1, <2>1, <2>2, <2>3 DEF Kinds
<1>5. /\ MapOK(map') /\ Stays(map, map')
      /\ Content' = D!Without(Class[map.table[s].key])
  BY <1>1, <1>3, <1>4, EraseEffect
<1>6. D!RemoveAny \/ D!LoseAny
  <2>1. Holds(map, map.table[s].key, s) /\ map.table[s].key \in Keys
    BY <1>1, <1>3, FilledEntry DEF Holds
  <2>2. Class[map.table[s].key] \in DOMAIN Content
        /\ Content[Class[map.table[s].key]] = map.table[s]
    BY <1>1, <2>1, ContentAt
  <2> QED BY <1>2, <1>5, <2>2 DEF D!RemoveAny, D!LoseAny
<1>7. fault' = "none"
  BY <1>1 DEF PopItem
<1> QED BY <1>5, <1>6, <1>7 DEF Effect, D!Call

LEMMA NoContent == ContentOf({}) = <<>>
<1>1. DOMAIN ContentOf({}) = {} /\ ContentOf({}) = [c \in {} |-> CHOOSE e \in {} : Class[e.key] = c]
  BY DEF ContentOf
<1> QED BY <1>1

LEMMA ClearEffect ==
    ASSUME MInv, Clear PROVE Effect
<1>1. /\ fault = "none" /\ MapOK(map) /\ kind \in Kinds /\ Shape(map)
      /\ map' = Empty(0) /\ result' = None
  BY DEF Clear, Sound, MInv, MapOK
<1>2. MapOK(map') /\ Entries(map') = {} /\ map'.alloc = 0
  BY <1>1, EmptyOK
<1>3. Stays(map, map')
  BY <1>1, <1>2 DEF Stays, Shape, Slots
<1>4. D!Clear
  BY <1>1, <1>2, ContentIs, NoContent DEF D!Clear
<1> QED BY <1>1, <1>2, <1>3, <1>4 DEF Effect, D!Call, Clear

LEMMA StopEffect ==
    ASSUME MInv, fault = "none", fault' # "none", kind # "dict", UNCHANGED map PROVE Effect
<1>1. Stays(map, map')
  BY StaysItself DEF MInv, MapOK, Shape
<1> QED BY <1>1 DEF Effect

LEMMA NextEffect ==
    ASSUME MInv, Next PROVE Effect
<1>1. ASSUME NEW k \in Keys, Get(k) \/ RemoveIfFound(k) \/ AddOrRemove(k) PROVE Effect
  <2>1. AddOrRemove(k) => AddIfNotFound(k, k) \/ RemoveIfFound(k)
    BY DEF AddOrRemove
  <2> QED BY <1>1, <2>1, GetEffect, RemoveEffect, AddEffect
<1>2. ASSUME NEW k \in Keys, NEW v \in Values, Store(k, v) PROVE Effect
  BY <1>2, StoreEffect
<1>3. ASSUME NEW k \in Keys, NEW v \in Values \cup Keys, AddIfNotFound(k, v) PROVE Effect
  BY <1>3, AddEffect
<1>4. ASSUME LoseLast PROVE Effect
  BY <1>4, StopEffect DEF LoseLast, Sound
<1>5. ASSUME NEW k \in Keys, CompareSentinel(k) PROVE Effect
  BY <1>5, StopEffect DEF CompareSentinel, MeetsSentinel, Sound
<1> QED BY <1>1, <1>2, <1>3, <1>4, <1>5, PopEffect, ClearEffect DEF Next

LEMMA MInvInit == Init => MInv
<1> SUFFICES ASSUME Init PROVE MInv
  OBVIOUS
<1>1. PICK n \in 0 .. MaxInit : map = Empty(IF kind = "ordered" THEN 0 ELSE n)
  BY DEF Init
<1>2. (IF kind = "ordered" THEN 0 ELSE n) \in Nat /\ kind \in Kinds
  BY DEF Init, Kinds
<1>3. MapOK(map)
  BY <1>1, <1>2, EmptyOK
<1>4. Hashes
  <2>1. hash \in [Range(Class) -> IF kind = "ordered" THEN {0} ELSE 0 .. MaxHash]
    BY DEF Init
  <2>2. (IF kind = "ordered" THEN {0} ELSE 0 .. MaxHash) \subseteq Nat
    BY MapAssumption
  <2> QED BY <2>1, <2>2 DEF Hashes
<1> QED BY <1>2, <1>3, <1>4 DEF MInv

\* Every action but a fault leaves the kind and the hashes alone, and a fault too.
LEMMA KindKept ==
    ASSUME Next PROVE UNCHANGED <<kind, hash>>
  BY DEF Next, Get, RemoveIfFound, AddOrRemove, Store, AddIfNotFound, PopItem, Clear,
         LoseLast, CompareSentinel, Sound

LEMMA Working ==
    ASSUME Next PROVE fault = "none"
  BY DEF Next, Get, RemoveIfFound, AddOrRemove, Store, AddIfNotFound, PopItem, Clear,
         LoseLast, CompareSentinel, Sound

LEMMA MInvStep == MInv /\ [Next]_vars => MInv'
<1> SUFFICES ASSUME MInv, [Next]_vars PROVE MInv'
  OBVIOUS
<1>1. CASE Next
  <2>1. kind' = kind /\ hash' = hash
    BY <1>1, KindKept
  <2>2. fault' = "none" => MapOK(map')
    BY <1>1, NextEffect DEF Effect
  <2>3. MapOK(map') => MapOK(map)'
    BY <2>1 DEF MapOK, Shape, Slots, Distinct, OnlyQstrs, Filled, InFront, Hashed, Counted,
                Reaches, Leads, At, MP_MAP_SLOT_IS_FILLED
  <2> QED BY <2>1, <2>2, <2>3 DEF MInv, Hashes
<1>2. CASE UNCHANGED vars
  BY <1>2 DEF vars, MInv, Hashes, MapOK, Shape, Slots, Distinct, OnlyQstrs, Filled, InFront,
              Hashed, Counted, Reaches, Leads, At, MP_MAP_SLOT_IS_FILLED
<1> QED BY <1>1, <1>2

LEMMA MInvCorrect == Spec => []MInv
  BY MInvInit, MInvStep, PTL DEF Spec

-----------------------------------------------------------------------------
(* The table, its size, its count and its flag agree at every step, for    *)
(* tables of any size.                                                     *)
THEOREM MapTypeCorrect == Spec => []MapTypeOK
<1>1. MInv => MapTypeOK
  BY DEF MInv, MapTypeOK, MapOK, Shape, Distinct, OnlyQstrs, InFront, Hashed, Counted, Filled
<1> QED BY <1>1, MInvCorrect, PTL

(* Every key in the map is found by every key equal to it.                 *)
THEOREM ProbesCorrect == Spec => []ProbesReach
<1>1. ASSUME MInv PROVE ProbesReach
  <2> SUFFICES ASSUME fault = "none", NEW i \in DOMAIN map.table, NEW k \in Keys,
                      MP_MAP_SLOT_IS_FILLED(map, i), Class[map.table[i].key] = Class[k]
               PROVE  Lookup(map, k) = i
    BY DEF ProbesReach
  <2>1. MapOK(map) /\ kind \in Kinds /\ Hashes /\ Distinct(map) /\ DOMAIN map.table = Slots(map)
    BY <1>1 DEF MInv, MapOK, Shape
  <2>2. Holds(map, k, i)
    BY <2>1 DEF Holds, Filled
  <2> QED BY <2>1, <2>2, LooksUpEqual, OneHolds
<1> QED BY <1>1, MInvCorrect, PTL

(* An entry keeps its slot while the table keeps its size, and the table   *)
(* grows only when it is full.                                             *)
THEOREM EntriesStayCorrect == Spec => EntriesStay
<1>1. MInv /\ [Next]_vars =>
        [/\ map'.alloc = map.alloc =>
               \A i \in DOMAIN map.table :
                  MP_MAP_SLOT_IS_FILLED(map, i) =>
                      \/ ~MP_MAP_SLOT_IS_FILLED(map', i)
                      \/ map'.table[i].key = map.table[i].key
         /\ map'.alloc > map.alloc => map.used = map.alloc]_vars
  BY NextEffect DEF Effect, Stays
<1> QED BY <1>1, MInvCorrect, PTL DEF Spec, EntriesStay

(* The dict, the OrderedDict and the set implement the dictionary: probing,*)
(* marks and growth do not show.  Of a call that runs out of memory the    *)
(* refinement says what Dictionary says: nothing is changed, or popitem    *)
(* has lost its entry, or an OrderedDict or a set, but no dict, is broken. *)
THEOREM DictCorrect == Spec => ImplementsDict
<1>1. Init => D!DictInit
  <2> SUFFICES ASSUME Init PROVE D!DictInit
    OBVIOUS
  <2>1. PICK n \in 0 .. MaxInit : map = Empty(IF kind = "ordered" THEN 0 ELSE n)
    BY DEF Init
  <2>2. (IF kind = "ordered" THEN 0 ELSE n) \in Nat /\ kind \in Kinds
    BY DEF Init, Kinds
  <2>3. Entries(map) = {}
    BY <2>1, <2>2, EmptyOK
  <2> QED BY <2>3, ContentIs, NoContent DEF Init, D!DictInit
<1>2. MInv /\ [Next]_vars => [D!DictNext]_(D!dvars)
  <2>1. UNCHANGED vars => UNCHANGED D!dvars
    BY ContentIs DEF vars, D!dvars
  <2>2. ASSUME MInv, Next PROVE D!DictNext \/ UNCHANGED D!dvars
    <3>1. Effect /\ kind' = kind
      BY <2>2, NextEffect, KindKept
    <3>2. fault = "none"
      BY <2>2, Working
    <3>3. CASE fault' = "none"
      BY <3>1, <3>2, <3>3 DEF Effect, D!DictNext, D!dvars
    <3>4. CASE fault' # "none"
      BY <3>1, <3>2, <3>4 DEF Effect, D!DictNext
    <3> QED BY <3>3, <3>4
  <2> QED BY <2>1, <2>2
<1> QED BY <1>1, <1>2, MInvCorrect, PTL DEF Spec, ImplementsDict, D!DictSpec

=============================================================================
