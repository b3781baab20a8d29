--------------------------------- MODULE Map ---------------------------------
(****************************************************************************)
(* What a dict promises (dictobject.h): a finite map that remembers the     *)
(* order of insertion, with one built-in cursor.  There is no table, no     *)
(* hashing and no search here.  A removed entry stays in the order, under   *)
(* the key DUMMY.  Dict implements this specification (Dict!ImplementsMap). *)
(****************************************************************************)
EXTENDS Integers, Sequences, FiniteSets

CONSTANTS
    Key,
    Value,
    Hashable,   \* the keys that can be hashed
    NULL,
    DUMMY       \* the key of a removed entry

VARIABLES
    entries,    \* Seq([key, value]), in the order of insertion
    pos,        \* the entry the cursor is at, Len(entries) + 1 at the end
    result      \* <<status, key, value>> of the last operation

vars == <<entries, pos, result>>

Init ==
    /\ entries = <<>>
    /\ pos = 1
    /\ result = <<0, NULL, NULL>>

\* Where k is: at most one place.
Places(k) == {i \in DOMAIN entries : entries[i].key = k}

Get(k) ==
    /\ \/ Places(k) = {} /\ result' = <<0, NULL, NULL>>
       \/ \E i \in Places(k) : result' = <<0, NULL, entries[i].value>>
    /\ UNCHANGED <<entries, pos>>

Put(k, v) ==
    /\ k \in Hashable
    /\ \/ Places(k) = {} /\ entries' = Append(entries, [key |-> k, value |-> v])
       \/ \E i \in Places(k) : entries' = [entries EXCEPT ![i].value = v]
    /\ result' = <<0, NULL, NULL>>
    /\ UNCHANGED pos

Remove(k) ==
    /\ \E i \in Places(k) : entries' = [entries EXCEPT ![i].key = DUMMY]
    /\ result' = <<0, NULL, NULL>>
    /\ UNCHANGED pos

\* Put of an unhashable key, Remove of a missing one, Iterate at the end.
Fail ==
    /\ \/ Key \ Hashable # {}
       \/ \E k \in Key : Places(k) = {}
       \/ pos > Len(entries)
    /\ result' = <<-1, NULL, NULL>>
    /\ UNCHANGED <<entries, pos>>

Iterate ==
    /\ pos \in DOMAIN entries
    /\ result' = <<0, entries[pos].key, entries[pos].value>>
    /\ pos' = pos + 1
    /\ UNCHANGED entries

Rewind == pos' = 1 /\ UNCHANGED <<entries, result>>

Size ==
    /\ result' = <<Cardinality({i \in DOMAIN entries : entries[i].key # DUMMY}), NULL, NULL>>
    /\ UNCHANGED <<entries, pos>>

Clear == entries' = <<>> /\ pos' = 1 /\ UNCHANGED result

Next ==
    \/ \E k \in Key : Get(k) \/ Remove(k) \/ \E v \in Value : Put(k, v)
    \/ Fail \/ Iterate \/ Rewind \/ Size \/ Clear

Spec == Init /\ [][Next]_vars

=============================================================================
