---------------------------- MODULE Dictionary ----------------------------
(***************************************************************************)
(* What a dict, an OrderedDict or a set promises: equal keys are one key,  *)
(* the first of them stays, and a call that runs out of memory changes     *)
(* nothing - except popitem, whose entry is gone by then.  An OrderedDict  *)
(* or a set may break for good; a dict never does.                         *)
(***************************************************************************)
CONSTANTS Keys, Values, Class, None, MemoryError

VARIABLES
    kind,         \* "dict", "ordered" or "set"
    dict,         \* the class of equal keys |-> the entry
    broken,       \* no call can be relied upon any more
    result        \* what the last call has returned

dvars == <<kind, dict, broken, result>>

\* The exception of the call that loses an entry.
PopError == <<"popitem", MemoryError>>

Answer(k) == IF Class[k] \in DOMAIN dict THEN dict[Class[k]].value ELSE None

Without(c) == [d \in DOMAIN dict \ {c} |-> dict[d]]

With(e) == LET c == Class[e.key]
           IN [d \in DOMAIN dict \cup {c} |-> IF d = c THEN e ELSE dict[d]]

DictInit ==
    kind \in {"dict", "ordered", "set"} /\ dict = <<>> /\ ~broken /\ result = None

Get(k) == result' = Answer(k) /\ UNCHANGED dict

Put(k, v) ==
    /\ dict' = With([key   |-> IF Class[k] \in DOMAIN dict
                               THEN dict[Class[k]].key ELSE k,
                     value |-> v])
    /\ result' = v

PutNew(k, v) ==
    /\ Class[k] \notin DOMAIN dict
    /\ dict' = With([key |-> k, value |-> v])
    /\ result' = v

Remove(k) == result' = Answer(k) /\ dict' = Without(Class[k])

RemoveAny ==
    \E c \in DOMAIN dict : result' = dict[c].key /\ dict' = Without(c)

LoseAny ==
    kind # "set" /\ result' = PopError /\ \E c \in DOMAIN dict : dict' = Without(c)

Clear == dict' = <<>> /\ result' = None

OutOfMemory == result' = MemoryError /\ UNCHANGED dict

Call ==
    \/ \E k \in Keys : Get(k) \/ Remove(k)
    \/ \E k \in Keys, v \in Values : Put(k, v) \/ PutNew(k, v)
    \/ RemoveAny \/ LoseAny \/ Clear \/ OutOfMemory

DictNext ==
    /\ ~broken /\ UNCHANGED kind
    /\ IF broken' THEN kind # "dict" ELSE Call

DictSpec == DictInit /\ [][DictNext]_dvars
=============================================================================
