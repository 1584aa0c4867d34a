----------------------------- MODULE MCHashMap -----------------------------
(* Two interned strings, a string equal to the first of them, and an       *)
(* integer; the strings are found where the integers are or elsewhere.     *)
EXTENDS HashMap

CONSTANTS qa, sa, qb, i1, v1, v2

MCKeys   == {qa, sa, qb, i1}
MCValues == {v1, v2}
MCQstrs  == {qa, qb}
MCStrs   == {sa}
MCClass  == [k \in MCKeys |-> IF k = sa THEN qa ELSE k]
=============================================================================
