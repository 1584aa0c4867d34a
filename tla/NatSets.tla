------------------------------ MODULE NatSets ------------------------------
EXTENDS Naturals, WellFoundedInduction, TLAPS

LEMMA LeastNatural ==
    ASSUME NEW T \in SUBSET Nat, T # {}
    PROVE  \E m \in T : \A n \in T : m <= n
<1> DEFINE less == OpToRel(<, Nat)
<1>1. IsWellFoundedOn(less, Nat)
  BY NatLessThanWellFounded
<1> HIDE DEF less
<1>2. PICK m \in T : \A n \in T : <<n, m>> \notin less
  BY <1>1, WFMin
<1>3. \A n \in T : <<n, m>> \in less <=> n < m
  BY <1>2 DEF less, OpToRel
<1>4. \A n \in T : ~(n < m)
  BY <1>2, <1>3
<1> QED BY <1>4

LEMMA SetInduction ==
    ASSUME NEW T, 0 \in T, \A n \in Nat : n \in T => n + 1 \in T
    PROVE  Nat \subseteq T
<1> SUFFICES ASSUME Nat \ T # {} PROVE FALSE
  OBVIOUS
<1>1. PICK m \in Nat \ T : \A n \in Nat \ T : m <= n
  BY LeastNatural
<1>2. m - 1 \in Nat /\ m - 1 \in T
  BY <1>1
<1> QED BY <1>1, <1>2

(* f is what a loop of len turns goes through that starts with s0 and      *)
(* whose turn i makes G[s][i] of s.                                        *)
IsIteration(f, s0, G, len) ==
    f[0] = s0 /\ \A i \in 1 .. len : f[i] = G[f[i - 1]][i]

LEMMA IterationExists ==
    ASSUME NEW S, NEW s0 \in S, NEW len \in Nat, NEW G \in [S -> [1 .. len -> S]]
    PROVE  \E f \in [0 .. len -> S] : IsIteration(f, s0, G, len)
<1> DEFINE T == {n \in Nat : n <= len => \E f \in [0 .. n -> S] : IsIteration(f, s0, G, n)}
<1>1. 0 \in T
  <2>1. [i \in 0 .. 0 |-> s0] \in [0 .. 0 -> S] /\ IsIteration([i \in 0 .. 0 |-> s0], s0, G, 0)
    BY DEF IsIteration
  <2> QED BY <2>1
<1>2. ASSUME NEW n \in Nat, n \in T, n + 1 <= len PROVE n + 1 \in T
  <2>1. PICK f \in [0 .. n -> S] : IsIteration(f, s0, G, n)
    BY <1>2
  <2> DEFINE g == [i \in 0 .. n + 1 |-> IF i = n + 1 THEN G[f[n]][n + 1] ELSE f[i]]
  <2>2. g \in [0 .. n + 1 -> S]
    BY <1>2
  <2>3. ASSUME NEW i \in 1 .. n + 1 PROVE g[i] = G[g[i - 1]][i]
    <3>1. CASE i = n + 1
      BY <3>1
    <3>2. CASE i \in 1 .. n
      <4>1. g[i] = f[i] /\ g[i - 1] = f[i - 1]
        BY <3>2
      <4> QED BY <2>1, <3>2, <4>1 DEF IsIteration
    <3> QED BY <3>1, <3>2
  <2>4. g[0] = s0
    BY <2>1 DEF IsIteration
  <2> HIDE DEF g
  <2>5. IsIteration(g, s0, G, n + 1)
    BY <2>3, <2>4 DEF IsIteration
  <2> QED BY <2>2, <2>5
<1>3. \A n \in Nat : n \in T => n + 1 \in T
  <2>1. ASSUME NEW n \in Nat, ~(n + 1 <= len) PROVE n + 1 \in T
    BY <2>1
  <2> HIDE DEF T
  <2> QED BY <1>2, <2>1
<1>4. len \in T
  <2> HIDE DEF T
  <2> QED BY <1>1, <1>3, SetInduction
<1> QED BY <1>4

(* f is the beginning of such a loop, and two of them agree.               *)
IsBeginning(f, s0, G, n) ==
    f[0] = s0 /\ \A i \in 0 .. n - 1 : f[i + 1] = G[f[i]]

LEMMA BeginningsAgree ==
    ASSUME NEW s0, NEW G, NEW n \in Nat, NEW f, NEW h,
           IsBeginning(f, s0, G, n), IsBeginning(h, s0, G, n)
    PROVE  f[n] = h[n]
<1> DEFINE T == {i \in Nat : i <= n => f[i] = h[i]}
<1>1. 0 \in T
  BY DEF IsBeginning
<1>2. ASSUME NEW i \in Nat, i \in T PROVE i + 1 \in T
  <2>1. i + 1 <= n => i \in 0 .. n - 1 /\ i <= n
    OBVIOUS
  <2> QED BY <1>2, <2>1 DEF IsBeginning
<1>3. n \in T
  <2> HIDE DEF T
  <2> QED BY <1>1, <1>2, SetInduction
<1> QED BY <1>3

(* A loop without an end: what a recursive function over Nat computes.     *)
LEMMA RecursionExists ==
    ASSUME NEW S, NEW s0 \in S, NEW G \in [S -> S]
    PROVE  \E g \in [Nat -> S] : g[0] = s0 /\ \A i \in Nat : g[i + 1] = G[g[i]]
<1> DEFINE Some(n) == CHOOSE f : f \in [0 .. n -> S] /\ IsBeginning(f, s0, G, n)
           g == [n \in Nat |-> Some(n)[n]]
<1>1. ASSUME NEW n \in Nat
      PROVE  \E f : f \in [0 .. n -> S] /\ IsBeginning(f, s0, G, n)
  <2> DEFINE H == [s \in S |-> [i \in 1 .. n |-> G[s]]]
  <2>1. H \in [S -> [1 .. n -> S]]
    OBVIOUS
  <2>2. \A s \in S : \A i \in 1 .. n : H[s][i] = G[s]
    OBVIOUS
  <2> HIDE DEF H
  <2>3. PICK f \in [0 .. n -> S] : IsIteration(f, s0, H, n)
    BY <2>1, IterationExists
  <2>4. ASSUME NEW i \in 0 .. n - 1 PROVE f[i + 1] = G[f[i]]
    <3>1. i + 1 \in 1 .. n /\ (i + 1) - 1 = i /\ f[i] \in S
      OBVIOUS
    <3> QED BY <2>2, <2>3, <3>1 DEF IsIteration
  <2>5. IsBeginning(f, s0, G, n)
    BY <2>3, <2>4 DEF IsBeginning, IsIteration
  <2> QED BY <2>5
<1>2. ASSUME NEW n \in Nat PROVE Some(n) \in [0 .. n -> S] /\ IsBeginning(Some(n), s0, G, n)
  BY <1>1
<1> HIDE DEF Some
<1>3. g \in [Nat -> S]
  BY <1>2
<1>4. g[0] = s0
  BY <1>2 DEF IsBeginning
<1>5. ASSUME NEW i \in Nat PROVE g[i + 1] = G[g[i]]
  <2>1. i + 1 \in Nat /\ i \in 0 .. (i + 1) - 1
    OBVIOUS
  <2>2. Some(i + 1)[i + 1] = G[Some(i + 1)[i]]
    BY <1>2, <2>1 DEF IsBeginning
  <2>3. IsBeginning(Some(i + 1), s0, G, i)
    <3>1. IsBeginning(Some(i + 1), s0, G, i + 1)
      BY <1>2, <2>1
    <3>2. \A j \in 0 .. i - 1 : j \in 0 .. (i + 1) - 1
      OBVIOUS
    <3> QED BY <3>1, <3>2 DEF IsBeginning
  <2>4. Some(i + 1)[i] = Some(i)[i]
    BY <1>2, <2>3, BeginningsAgree
  <2> QED BY <2>1, <2>2, <2>4
<1> HIDE DEF g
<1> QED BY <1>3, <1>4, <1>5
=============================================================================
