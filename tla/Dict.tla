-------------------------------- MODULE Dict --------------------------------
(***************************************************************************)
(* The hash table of dictobject.c: buckets chained from the slots of a     *)
(* table, threaded on one list in the order of insertion.                  *)
(*                                                                         *)
(* Buckets are only ever appended to the list and never taken out of it    *)
(* before the whole dict is cleared, so a bucket is named by its position  *)
(* in the list and 0 is the null pointer.  A lookup is modelled iteration  *)
(* by iteration; what the operation then does is its last step.            *)
(*   pc = "run"      between operations                                    *)
(*        "lookup"   in _dict_lookup, at bucket p                          *)
(*        "spin"     in its `continue', for ever                           *)
(*        "cleared"  cleared by the collector, about to be deallocated     *)
(* Reference counts and tracking belong to module GC.                      *)
(***************************************************************************)
EXTENDS Integers, Sequences, FiniteSets

CONSTANTS
    Key,
    Value,
    Hash,       \* COObject_Hash: a natural number, or -1: not hashable
    MINMASK,    \* CODict_MINSIZE - 1
    MaxBuckets, \* bound of an instance: insertions into one dict
    NULL,
    DUMMY       \* the key of a deleted bucket

ASSUME HashAssumption == Hash \in [Key -> Nat \cup {-1}]
ASSUME SizeAssumption == MINMASK \in Nat \ {0} /\ MaxBuckets \in Nat
ASSUME NameAssumption == DUMMY \notin Key /\ NULL \notin Key

VARIABLES
    buckets,    \* the list from pListHead to pListTail: Seq([key, item, h, next])
    table,      \* arBuckets
    mask,       \* nTableMask
    num,        \* nNumOfElements
    cursor,     \* pCursor
    pc,
    call,       \* the operation that is looking up its key
    p,          \* where the lookup is
    result      \* <<status, key, item>> of the last operation

list  == <<buckets, table, mask, num, cursor>>
vars  == <<buckets, table, mask, num, cursor, pc, call, p, result>>

Hashable == {k \in Key : Hash[k] # -1}

\* True of short strings; see the README for integers.
DistinctHashes == \A j, k \in Hashable : Hash[j] = Hash[k] => j = k

\* h & m, for the masks a dict goes through: MINMASK (all ones) and its left shifts.
SlotOf(h, m) == LET unit == m \div MINMASK IN ((h \div unit) % (MINMASK + 1)) * unit

\* Where the chain of key k begins.
Chain(k) == table[SlotOf(Hash[k], mask)]

NoCall == [op |-> "none", key |-> NULL, value |-> NULL]

Empty(m) == [x \in 0..m |-> 0]

Init ==
    /\ buckets = <<>>
    /\ table = Empty(MINMASK)
    /\ mask = MINMASK
    /\ num = 0
    /\ cursor = 0
    /\ pc = "run"
    /\ call = NoCall
    /\ p = 0
    /\ result = <<0, NULL, NULL>>

-----------------------------------------------------------------------------
(* Lookup *)

\* CODict_GetItem, CODict_SetItem and CODict_DelItem begin with _dict_lookup.
Call(op, k, v) ==
    /\ pc = "run"
    /\ op = "set" => Len(buckets) < MaxBuckets
    /\ IF k \in Hashable
       THEN /\ call' = [op |-> op, key |-> k, value |-> v]
            /\ p' = Chain(k)
            /\ pc' = "lookup"
            /\ UNCHANGED result
       ELSE /\ result' = <<IF op = "get" THEN 0 ELSE -1, NULL, NULL>>
            /\ UNCHANGED <<pc, call, p>>
    /\ UNCHANGED list

\* p->h == h
SameHash == p # 0 /\ buckets[p].h = Hash[call.key]

\* The lookup returns p, or NULL: at the end of the chain, or at another key with
\* the same hash.
Found ==
    /\ pc = "lookup"
    /\ SameHash
    /\ buckets[p].key = call.key

Missing ==
    /\ pc = "lookup"
    /\ p = 0 \/ (SameHash /\ buckets[p].key \notin {DUMMY, call.key})

Advance ==
    /\ pc = "lookup"
    /\ p # 0
    /\ ~SameHash
    /\ p' = buckets[p].next
    /\ UNCHANGED <<list, pc, call, result>>

\* `continue' does not advance.
Spin ==
    /\ pc = "lookup"
    /\ SameHash
    /\ buckets[p].key = DUMMY
    /\ pc' = "spin"
    /\ UNCHANGED <<list, call, p, result>>

Return(status, item) ==
    /\ result' = <<status, NULL, item>>
    /\ pc' = "run"
    /\ call' = NoCall
    /\ p' = 0

-----------------------------------------------------------------------------
(* The operations *)

GetItem ==
    /\ call.op = "get"
    /\ \/ Found /\ Return(0, buckets[p].item)
       \/ Missing /\ Return(0, NULL)
    /\ UNCHANGED list

Last(S) == CHOOSE i \in S : \A j \in S : j <= i

\* _dict_rehash: a slot ends up with the last bucket of the list that maps to it.
Rehash(bs, m) ==
    [x \in 0..m |->
        LET here == {i \in DOMAIN bs : SlotOf(bs[i].h, m) = x}
        IN  IF here = {} THEN 0 ELSE Last(here)]

\* Mutant: the slot is set before the new bucket takes over its chain.
Insert_SelfLinked(k, v) ==
    LET h  == Hash[k]
        n  == Len(buckets) + 1
        bs == Append(buckets, [key |-> k, item |-> v, h |-> h, next |-> n])
    IN  /\ buckets' = bs
        /\ cursor' = IF cursor = 0 THEN n ELSE cursor
        /\ num' = num + 1
        /\ IF num + 1 > mask + 1
           THEN mask' = 2 * mask /\ table' = Rehash(bs, 2 * mask)
           ELSE table' = [table EXCEPT ![SlotOf(h, mask)] = n] /\ UNCHANGED mask

\* Mutant: a cursor at the end stays there.
Insert_CursorKept(k, v) ==
    LET h  == Hash[k]
        bs == Append(buckets, [key |-> k, item |-> v, h |-> h, next |-> Chain(k)])
        n  == Len(bs)
    IN  /\ buckets' = bs
        /\ num' = num + 1
        /\ IF num + 1 > mask + 1
           THEN mask' = 2 * mask /\ table' = Rehash(bs, 2 * mask)
           ELSE table' = [table EXCEPT ![SlotOf(h, mask)] = n] /\ UNCHANGED mask
        /\ UNCHANGED cursor

\* _dict_insert and _dict_do_resize
Insert(k, v) ==
    LET h  == Hash[k]
        bs == Append(buckets, [key |-> k, item |-> v, h |-> h, next |-> Chain(k)])
        n  == Len(bs)
    IN  /\ buckets' = bs
        /\ cursor' = IF cursor = 0 THEN n ELSE cursor
        /\ num' = num + 1
        /\ IF num + 1 > mask + 1
           THEN mask' = 2 * mask /\ table' = Rehash(bs, 2 * mask)
           ELSE table' = [table EXCEPT ![SlotOf(h, mask)] = n] /\ UNCHANGED mask

SetItem ==
    /\ call.op = "set"
    /\ \/ /\ Found
          /\ buckets' = [buckets EXCEPT ![p].item = call.value]
          /\ UNCHANGED <<table, mask, num, cursor>>
       \/ Missing /\ Insert(call.key, call.value)
    /\ Return(0, NULL)

DelItem ==
    /\ call.op = "del"
    /\ \/ /\ Found
          /\ buckets' = [buckets EXCEPT ![p].key = DUMMY]
          /\ num' = num - 1
          /\ Return(0, NULL)
       \/ Missing /\ Return(-1, NULL) /\ UNCHANGED <<buckets, num>>
    /\ UNCHANGED <<table, mask, cursor>>

\* CODict_Next and CODict_Current
Iterate ==
    /\ pc = "run"
    /\ IF cursor = 0
       THEN result' = <<-1, NULL, NULL>> /\ UNCHANGED cursor
       ELSE /\ result' = <<0, buckets[cursor].key, buckets[cursor].item>>
            /\ cursor' = IF cursor = Len(buckets) THEN 0 ELSE cursor + 1
    /\ UNCHANGED <<buckets, table, mask, num, pc, call, p>>

Rewind ==
    /\ pc = "run"
    /\ cursor' = IF buckets = <<>> THEN 0 ELSE 1
    /\ UNCHANGED <<buckets, table, mask, num, pc, call, p, result>>

Size ==
    /\ pc = "run"
    /\ result' = <<num, NULL, NULL>>
    /\ UNCHANGED <<list, pc, call, p>>

\* CODict_Clear, which the collector calls on garbage; the cursor stays.
Clear ==
    /\ pc = "run"
    /\ buckets' = <<>>
    /\ table' = Empty(mask)
    /\ num' = 0
    /\ pc' = "cleared"
    /\ UNCHANGED <<mask, cursor, call, p, result>>

\* dict_dealloc, and CODict_New for the next dict
Recreate ==
    /\ pc = "cleared"
    /\ table' = Empty(MINMASK)
    /\ mask' = MINMASK
    /\ cursor' = 0
    /\ pc' = "run"
    /\ UNCHANGED <<buckets, num, call, p, result>>

Lookup == Advance \/ Spin \/ GetItem \/ SetItem \/ DelItem

Next ==
    \/ \E k \in Key : Call("get", k, NULL) \/ Call("del", k, NULL)
    \/ \E k \in Key, v \in Value : Call("set", k, v)
    \/ Lookup
    \/ Iterate \/ Rewind \/ Size \/ Clear \/ Recreate

\* A call runs to its end: the interpreter is one thread.
Spec == Init /\ [][Next]_vars /\ WF_vars(Lookup)

-----------------------------------------------------------------------------
(* Properties *)

Pointer == 0..Len(buckets)

Bucket == [key : Key \cup {DUMMY}, item : Value, h : Nat, next : Nat]

TypeOK ==
    /\ buckets \in Seq(Bucket)
    /\ \A i \in DOMAIN buckets : buckets[i].next < i
    /\ Len(buckets) <= MaxBuckets
    /\ mask \in Nat /\ mask >= MINMASK
    /\ table \in [0..mask -> Pointer]
    /\ num \in 0..MaxBuckets
    /\ cursor \in 0..MaxBuckets
    /\ pc \in {"run", "lookup", "spin", "cleared"}
    /\ call \in [op : {"none", "get", "set", "del"}, key : Key \cup {NULL},
                 value : Value \cup {NULL}]
    /\ p \in Pointer
    /\ result \in (-1..MaxBuckets) \X (Key \cup {DUMMY, NULL}) \X (Value \cup {NULL})

\* A lookup ends, whatever the chains have become (_dict_lookup), unless it meets a
\* deleted key.
LookupEnds == (pc = "lookup") ~> (pc \in {"run", "spin"})

Entries == [i \in DOMAIN buckets |-> [key |-> buckets[i].key, value |-> buckets[i].item]]
M == INSTANCE Map WITH entries <- Entries,
                       pos <- IF cursor \in DOMAIN buckets THEN cursor ELSE Len(buckets) + 1

\* Until the table grows, the dict is a map: gets, sets, deletions, iteration and the
\* cursor, in any order (distinct keys having distinct hashes).
ImplementsMap ==
    M!Init /\ [][M!Next \/ mask' # MINMASK]_<<M!vars>>

\* A lookup that comes back empty-handed was for a key that is not in the dict.
NoFalseMiss == Missing => \A i \in DOMAIN buckets : buckets[i].key # call.key

=============================================================================
