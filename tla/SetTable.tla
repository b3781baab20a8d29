------------------------------ MODULE SetTable ------------------------------
(***************************************************************************)
(* The table of a set (setobject.c): open addressing with a perturbed      *)
(* linear congruential probe, never resized.  A set is built from an       *)
(* iterable and afterwards only printed: there is no removal, so the dummy *)
(* entries that the lookup allows for never occur.  Probing is modelled    *)
(* entry by entry.                                                         *)
(*   pc = "run"    between two elements of the iterable                    *)
(*        "probe"  in set_lookkey, at entry i                              *)
(*        "failed" set() has failed                                        *)
(*        "abort"  an assert has                                           *)
(***************************************************************************)
EXTENDS Integers, FiniteSets

CONSTANTS
    Key,        \* elements; distinct ones are unequal
    Hash,       \* COObject_Hash, as an unsigned number
    TypeOf,     \* elements of different types cannot be compared
    MASK,       \* COSet_MINSIZE - 1
    NULL

\* What an instance must satisfy.
SetAssumption ==
    /\ MASK \in Nat
    /\ Hash \in [Key -> Nat]
    /\ DOMAIN TypeOf = Key
    /\ NULL \notin Key

PERTURB_SHIFT == 5

VARIABLES
    table,      \* [0..MASK -> Key \cup {NULL}]
    fill, used,
    given,      \* the elements so far, for the properties
    pc,
    key, i, perturb     \* the call of set_lookkey

vars == <<table, fill, used, given, pc, key, i, perturb>>

Init ==
    /\ table = [x \in 0..MASK |-> NULL]
    /\ fill = 0
    /\ used = 0
    /\ given = {}
    /\ pc = "run"
    /\ key = NULL
    /\ i = 0
    /\ perturb = 0

\* set_add_key: the assert, then the lookup starts at the entry of the hash.
Add(k) ==
    /\ pc = "run"
    /\ IF fill <= MASK
       THEN /\ pc' = "probe"
            /\ key' = k
            /\ i' = Hash[k] % (MASK + 1)
            /\ perturb' = Hash[k]
       ELSE pc' = "abort" /\ UNCHANGED <<key, i, perturb>>
    /\ UNCHANGED <<table, fill, used, given>>

\* The entry holds another element whose hash is that of key.
Collides == table[i] \notin {NULL, key} /\ Hash[table[i]] = Hash[key]

\* Mutant: the hash is added unshifted at every step.
Probe_Unshifted ==
    /\ pc = "probe"
    /\ table[i] \notin {NULL, key}
    /\ Collides => TypeOf[table[i]] = TypeOf[key]
    /\ i' = (5 * i + perturb + 1) % (MASK + 1)
    /\ UNCHANGED <<table, fill, used, given, pc, key, perturb>>

\* set_lookkey, to the next entry of the probe sequence
Probe ==
    /\ pc = "probe"
    /\ table[i] \notin {NULL, key}
    /\ Collides => TypeOf[table[i]] = TypeOf[key]
    /\ i' = (5 * i + perturb + 1) % (MASK + 1)
    /\ perturb' = perturb \div 2^PERTURB_SHIFT
    /\ UNCHANGED <<table, fill, used, given, pc, key>>

\* The comparison raises TypeError: set_update_internal and set() fail.
Fail ==
    /\ pc = "probe"
    /\ Collides
    /\ TypeOf[table[i]] # TypeOf[key]
    /\ pc' = "failed"
    /\ UNCHANGED <<table, fill, used, given, key, i, perturb>>

Return ==
    /\ given' = given \cup {key}
    /\ pc' = "run"
    /\ key' = NULL
    /\ i' = 0
    /\ perturb' = 0

\* Mutant: an element that is there already is counted again.
InsertKey_Recounted ==
    /\ pc = "probe"
    /\ table[i] \in {NULL, key}
    /\ table' = [table EXCEPT ![i] = key]
    /\ fill' = IF table[i] = NULL THEN fill + 1 ELSE fill
    /\ used' = used + 1
    /\ Return

\* set_insert_key
InsertKey ==
    /\ pc = "probe"
    /\ \/ /\ table[i] = NULL
          /\ table' = [table EXCEPT ![i] = key]
          /\ fill' = fill + 1
          /\ used' = used + 1
       \/ /\ table[i] = key
          /\ UNCHANGED <<table, fill, used>>
    /\ Return

\* set_dealloc, and make_new_set for the next set
New ==
    /\ pc \in {"run", "failed"}
    /\ given # {}
    /\ table' = [x \in 0..MASK |-> NULL]
    /\ fill' = 0
    /\ used' = 0
    /\ given' = {}
    /\ pc' = "run"
    /\ key' = NULL
    /\ i' = 0
    /\ perturb' = 0

Lookup == Probe \/ Fail \/ InsertKey

Next == Lookup \/ New \/ \E k \in Key : Add(k)

\* The interpreter is one thread: a lookup runs to its end.
Fairness == WF_vars(Lookup)

Spec == Init /\ [][Next]_vars /\ Fairness

-----------------------------------------------------------------------------
(* Properties *)

\* The set holds what the iterable gave, each element once, however the probe
\* sequences of its elements cross (set_lookkey, set_insert_key).
SetExact ==
    pc # "probe" =>
        /\ {table[x] : x \in 0..MASK} \ {NULL} = given
        /\ used = Cardinality(given)
        /\ \A x, y \in 0..MASK : table[x] = table[y] /\ table[x] # NULL => x = y

\* Probing ends: the sequence meets the one empty entry that the assert of
\* set_add_key leaves, when nothing else stops it.
ProbeEnds == (pc = "probe") ~> (pc # "probe")

=============================================================================
