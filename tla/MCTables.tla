------------------------------ MODULE MCTables ------------------------------
(* Instances of Tables for TLC. *)
EXTENDS Tables, TLC

CONSTANTS k0, k1, k2, k3, k4, k5    \* keys of dicts

\* Keys that share the few slots of a small table; any other key is not hashable.
Distinct ==
    [k \in Key |-> CASE k = k0 -> 0 [] k = k1 -> 1 [] k = k2 -> 2 [] k = k3 -> 3
                     [] k = k4 -> 4 [] k = k5 -> 5 [] OTHER   -> -1]

\* Members of sets.  0, 8, 64 and a string start at the same entry, the string with
\* the hash of 0; two have hashes of many digits.
Members ==
    {[h |-> h, t |-> "int"] : h \in {0, 1, 5, 6, 8, 64, 1000003, 1073741816}}
        \cup {[h |-> 0, t |-> "str"]}

Hashes == [e \in Members |-> e.h]
Types  == [e \in Members |-> e.t]

ASSUME SetInstance == S!SetAssumption
ASSUME ListInstance == L!ListsAssumption

\* A program that only reads and assigns.
Assignments ==
    \/ \E k \in Key : Call("get", k, NULL) \/ \E v \in Value : Call("set", k, v)
    \/ Lookup

ReadsAndWrites == Start /\ [][Assignments /\ UNCHANGED <<sVars, lVars>>]_allVars

=============================================================================
