---------------------------- MODULE TablesProofs ----------------------------
(***************************************************************************)
(* Proofs about modules Dict and Tables.  A dict is a Map until its table  *)
(* grows; a set holds each element it was given, and holds it once, for    *)
(* any hashes and any size of the table; lists keep in a program what      *)
(* ListsProofs proves of them.                                             *)
(*                                                                         *)
(* Why a dict is a Map: while the mask keeps its first value, the chain of *)
(* a slot links every bucket of the slot, from the newest to the oldest    *)
(* (Chained).  So a lookup has behind it every newer bucket of its hash    *)
(* (Searching), and when it ends empty-handed there is none.               *)
(*                                                                         *)
(* Why a set is exact: a lookup for key walks from entry to entry (Onward) *)
(* until it meets key or an empty entry.  Entries are never emptied, so a  *)
(* walk that met key once meets it again: the way to an element of the set *)
(* is a set of places without an empty entry that the walk cannot leave    *)
(* (Way).  It is said with sets because the length of a walk has no bound  *)
(* here.                                                                   *)
(***************************************************************************)
EXTENDS Tables, FiniteSetTheorems, SequenceTheorems, TLAPS

-----------------------------------------------------------------------------
(* Dicts *)

N == Len(buckets)

\* The slot of bucket i.
Slot(i) == SlotOf(buckets[i].h, mask)

Kept == {i \in DOMAIN buckets : buckets[i].key # DUMMY}

(* The inductive invariant *)

\* A key is stored with its hash.
Hashed == \A i \in Kept : buckets[i].key \in Hashable /\ buckets[i].h = Hash[buckets[i].key]

Counted == num = Cardinality(Kept)

\* The cursor is in the list, unless the dict is waiting to be deallocated.
Pointed ==
    /\ IF pc = "cleared" THEN buckets = <<>> /\ num = 0 ELSE cursor \in Pointer
    /\ pc \in {"run", "cleared"} => p = 0

Called ==
    pc = "lookup" =>
        /\ call.key \in Hashable
        /\ call.op \in {"get", "set", "del"}
        /\ call.op = "set" => call.value \in Value /\ N < MaxBuckets

\* The table has not grown.
Plain == mask = MINMASK /\ DistinctHashes

\* Table entries and next links lead to the newest bucket of the slot, of all and of
\* the older ones.
Chained ==
    Plain =>
        /\ \A x \in 0..mask : table[x] # 0 => Slot(table[x]) = x
        /\ \A i \in 1..N : i <= table[Slot(i)]
        /\ \A i \in 1..N : buckets[i].next # 0 => Slot(buckets[i].next) = Slot(i)
        /\ \A i, j \in 1..N : j < i /\ Slot(j) = Slot(i) => j <= buckets[i].next
        /\ \A i, j \in 1..N : buckets[i].h = buckets[j].h => i = j

\* A lookup is in the slot of its key, and no bucket it has passed has the hash.
Searching ==
    Plain /\ pc = "lookup" =>
        /\ p # 0 => Slot(p) = SlotOf(Hash[call.key], mask)
        /\ \A i \in 1..N : i > p => buckets[i].h # Hash[call.key]

IInv == TypeOK /\ Hashed /\ Counted /\ Pointed /\ Called /\ Chained /\ Searching

-----------------------------------------------------------------------------
(* Masks and slots *)

\* h & m lies in the table.
LEMMA SlotInTable ==
    ASSUME NEW h \in Nat, NEW m \in Nat, m >= MINMASK
    PROVE  SlotOf(h, m) \in 0..m
<1> DEFINE unit == m \div MINMASK
           d    == (h \div unit) % (MINMASK + 1)
<1>1. MINMASK \in Nat /\ MINMASK > 0 BY SizeAssumption
<1>2. unit \in Nat /\ unit > 0 /\ MINMASK * unit <= m
  BY <1>1
<1>3. h \div unit \in Nat
  <2> HIDE DEF unit
  <2> QED BY <1>2
<1>4. d \in 0..MINMASK
  <2> HIDE DEF unit
  <2> QED BY <1>1, <1>3
<1>5. d * unit \in Nat /\ d * unit <= MINMASK * unit
  <2> HIDE DEF unit, d
  <2> QED BY <1>1, <1>2, <1>4
<1> QED
  <2> SlotOf(h, m) = d * unit BY DEF SlotOf
  <2> HIDE DEF unit, d
  <2> QED BY <1>1, <1>2, <1>5

LEMMA HashNat ==
    ASSUME NEW k \in Hashable
    PROVE  k \in Key /\ Hash[k] \in Nat
BY HashAssumption DEF Hashable

-----------------------------------------------------------------------------
(* What the invariant says about the parts *)

LEMMA Parts ==
    ASSUME TypeOK
    PROVE  /\ N \in Nat
           /\ DOMAIN buckets = 1..N
           /\ Kept \subseteq 1..N
           /\ IsFiniteSet(Kept)
           /\ Cardinality(Kept) \in 0..N
           /\ \A i \in 1..N : /\ buckets[i] \in Bucket
                             /\ buckets[i].key \in Key \cup {DUMMY}
                             /\ buckets[i].item \in Value
                             /\ buckets[i].h \in Nat
                             /\ buckets[i].next \in 0..N
                             /\ buckets[i].next < i
                             /\ Slot(i) \in 0..mask
<1>1. N \in Nat /\ DOMAIN buckets = 1..N
  BY DEF TypeOK, N
<1>2. Kept \subseteq 1..N
  BY <1>1 DEF Kept
<1>3. IsFiniteSet(Kept) /\ Cardinality(Kept) \in 0..N
  <2>1. IsFiniteSet(1..N) /\ Cardinality(1..N) = N
    BY <1>1, FS_Interval
  <2>2. IsFiniteSet(Kept) /\ Cardinality(Kept) <= Cardinality(1..N)
    BY <2>1, <1>2, FS_Subset
  <2>3. Cardinality(Kept) \in Nat
    BY <2>2, FS_CardinalityType
  <2> QED BY <2>1, <2>2, <2>3, <1>1
<1>4. ASSUME NEW i \in 1..N
      PROVE  /\ buckets[i] \in Bucket
             /\ buckets[i].key \in Key \cup {DUMMY}
             /\ buckets[i].item \in Value
             /\ buckets[i].h \in Nat
             /\ buckets[i].next \in 0..N
             /\ buckets[i].next < i
             /\ Slot(i) \in 0..mask
  <2>1. buckets[i] \in Bucket
    BY <1>1 DEF TypeOK
  <2>2. /\ buckets[i].key \in Key \cup {DUMMY}
        /\ buckets[i].item \in Value
        /\ buckets[i].h \in Nat
        /\ buckets[i].next \in Nat
    BY <2>1 DEF Bucket
  <2>3. buckets[i].next < i
    BY <1>1 DEF TypeOK
  <2>4. Slot(i) \in 0..mask
    BY <2>2, SlotInTable DEF TypeOK, Slot
  <2> QED BY <1>1, <2>1, <2>2, <2>3, <2>4
<1> QED BY <1>1, <1>2, <1>3, <1>4

\* Where a lookup begins: at a bucket, in the slot of the key, past none of its hash.
LEMMA Begin ==
    ASSUME IInv, NEW k \in Hashable
    PROVE  /\ SlotOf(Hash[k], mask) \in 0..mask
           /\ Chain(k) \in Pointer
           /\ Plain =>
                /\ Chain(k) # 0 => Slot(Chain(k)) = SlotOf(Hash[k], mask)
                /\ \A i \in 1..N : i > Chain(k) => Slot(i) # SlotOf(Hash[k], mask)
<1>1. SlotOf(Hash[k], mask) \in 0..mask
  BY HashNat, SlotInTable DEF IInv, TypeOK
<1>2. Chain(k) \in Pointer
  BY <1>1 DEF IInv, TypeOK, Chain
<1>3. ASSUME Plain
      PROVE  /\ Chain(k) # 0 => Slot(Chain(k)) = SlotOf(Hash[k], mask)
             /\ \A i \in 1..N : i > Chain(k) => Slot(i) # SlotOf(Hash[k], mask)
  <2>1. \A i \in 1..N : i <= table[Slot(i)]
    BY <1>3 DEF IInv, Chained
  <2>2. Chain(k) # 0 => Slot(Chain(k)) = SlotOf(Hash[k], mask)
    BY <1>1, <1>3 DEF IInv, Chained, Chain
  <2>3. ASSUME NEW i \in 1..N, i > Chain(k), Slot(i) = SlotOf(Hash[k], mask)
        PROVE  FALSE
    <3>1. i <= Chain(k)
      BY <2>1, <2>3 DEF Chain
    <3> QED BY <3>1, <2>3, <1>2 DEF Pointer, IInv, TypeOK
  <2> QED BY <2>2, <2>3
<1> QED BY <1>1, <1>2, <1>3

\* Two hashable keys of different hashes: buckets of key k have its hash.
LEMMA KeyHasHash ==
    ASSUME IInv, NEW k \in Key, NEW i \in 1..N, buckets[i].key = k
    PROVE  k \in Hashable /\ buckets[i].h = Hash[k]
BY Parts, NameAssumption DEF IInv, Hashed, Kept

-----------------------------------------------------------------------------
(* The invariant holds initially and is kept by steps that leave the buckets alone *)

LEMMA InitInv == Init => IInv
<1> SUFFICES ASSUME Init PROVE IInv
  OBVIOUS
<1>1. buckets = <<>> /\ N = 0 /\ DOMAIN buckets = {} /\ Kept = {}
  BY DEF Init, N, Kept
<1>2. TypeOK
  BY <1>1, SizeAssumption DEF Init, TypeOK, Empty, NoCall, Pointer, N
<1>3. Hashed /\ Counted
  BY <1>1, FS_EmptySet DEF Hashed, Counted, Init
<1>4. Pointed /\ Called
  BY <1>1 DEF Pointed, Called, Init, Pointer, N
<1>5. Chained /\ Searching
  BY <1>1 DEF Chained, Searching, Init, Empty
<1> QED BY <1>2, <1>3, <1>4, <1>5 DEF IInv

\* What follows when the table and the buckets do not change.
LEMMA SameBuckets ==
    ASSUME IInv, UNCHANGED <<buckets, table, mask, num>>
    PROVE  /\ N' = N /\ Kept' = Kept /\ Pointer' = Pointer
           /\ Hashed' /\ Counted' /\ Chained'
           /\ \A i \in 1..N : Slot(i)' = Slot(i)
<1>1. N' = N /\ Kept' = Kept /\ Pointer' = Pointer /\ \A i \in 1..N : Slot(i)' = Slot(i)
  BY DEF N, Kept, Pointer, Slot
<1>2. Hashed' /\ Counted'
  BY <1>1 DEF IInv, Hashed, Counted
<1>3. Chained'
  <2>1. \A x \in 0..mask : Slot(table[x])' = Slot(table[x])
    BY DEF Slot
  <2>2. \A i \in 1..N : Slot(buckets[i].next)' = Slot(buckets[i].next)
    BY DEF Slot
  <2> QED BY <1>1, <2>1, <2>2 DEF IInv, Chained, Plain
<1> QED BY <1>1, <1>2, <1>3

LEMMA CallInv ==
    ASSUME IInv, NEW op \in {"get", "set", "del"}, NEW k \in Key, NEW v \in Value \cup {NULL},
           op = "set" => v \in Value, Call(op, k, v)
    PROVE  IInv'
<1>1. UNCHANGED <<buckets, table, mask, num, cursor>>
  BY DEF Call, list
<1>2. TypeOK'
  <2>1. CASE k \in Hashable
    <3>1. call' \in [op : {"none", "get", "set", "del"}, key : Key \cup {NULL},
                     value : Value \cup {NULL}]
      BY <2>1 DEF Call
    <3> QED BY <1>1, <2>1, <3>1, Begin DEF Call, IInv, TypeOK, Pointer
  <2>2. CASE k \notin Hashable
    <3>1. result' \in (-1..MaxBuckets) \X (Key \cup {DUMMY, NULL}) \X (Value \cup {NULL})
      BY <2>2, SizeAssumption DEF Call
    <3> QED BY <1>1, <2>2, <3>1 DEF Call, IInv, TypeOK, Pointer
  <2> QED BY <2>1, <2>2
<1>3. Hashed' /\ Counted' /\ Chained' /\ N' = N
  BY <1>1, SameBuckets
<1>4. Pointed' /\ Called'
  BY <1>1, <1>3, SameBuckets DEF Call, IInv, Pointed, Called, N
<1>5. Searching'
  <2> SUFFICES ASSUME Plain', (pc = "lookup")'
               PROVE  /\ p' # 0 => Slot(p)' = SlotOf(Hash[call.key], mask)'
                      /\ \A i \in 1..N : i > p' => buckets[i].h # Hash[call'.key]
    BY <1>1, <1>3 DEF Searching
  <2>1. k \in Hashable /\ call'.key = k /\ p' = Chain(k) /\ Plain
    BY <1>1 DEF Call, Plain
  <2>2. p' # 0 => Slot(p)' = SlotOf(Hash[k], mask)
    BY <1>1, <2>1, Begin DEF Slot
  <2>3. \A i \in 1..N : i > p' => buckets[i].h # Hash[k]
    BY <2>1, Begin DEF Slot
  <2> QED BY <1>1, <2>1, <2>2, <2>3
<1> QED BY <1>2, <1>3, <1>4, <1>5 DEF IInv

LEMMA AdvanceInv ==
    ASSUME IInv, Advance
    PROVE  IInv'
<1>1. UNCHANGED <<buckets, table, mask, num, cursor, pc, call, result>>
  BY DEF Advance, list
<1>2. p \in 1..N /\ p' = buckets[p].next /\ p' \in 0..N /\ p' < p /\ pc = "lookup"
  BY Parts DEF Advance, IInv, TypeOK, Pointer, N
<1>3. TypeOK'
  BY <1>1, <1>2 DEF IInv, TypeOK, Pointer, N
<1>4. Hashed' /\ Counted' /\ Chained' /\ N' = N
  BY <1>1, SameBuckets
<1>5. Pointed' /\ Called'
  BY <1>1, <1>2, <1>4, SameBuckets DEF IInv, Pointed, Called
<1>6. Searching'
  <2> SUFFICES ASSUME Plain
               PROVE  /\ p' # 0 => Slot(p)' = SlotOf(Hash[call.key], mask)
                      /\ \A i \in 1..N : i > p' => buckets[i].h # Hash[call.key]
    BY <1>1, <1>4 DEF Searching, Plain
  <2>1. /\ Slot(p) = SlotOf(Hash[call.key], mask)
        /\ \A i \in 1..N : i > p => buckets[i].h # Hash[call.key]
        /\ buckets[p].h # Hash[call.key]
    BY <1>2 DEF IInv, Searching, Advance, SameHash
  <2>2. p' # 0 => Slot(p)' = SlotOf(Hash[call.key], mask)
    BY <1>1, <1>2, <2>1 DEF IInv, Chained, Slot
  <2>3. ASSUME NEW i \in 1..N, i > p', buckets[i].h = Hash[call.key]
        PROVE  FALSE
    <3>1. i < p
      BY <1>2, <2>1, <2>3, Parts DEF IInv
    <3>2. Slot(i) = Slot(p)
      BY <2>1, <2>3 DEF Slot
    <3>3. i <= buckets[p].next
      BY <1>2, <3>1, <3>2 DEF IInv, Chained
    <3> QED BY <1>2, <2>3, <3>3
  <2> QED BY <2>2, <2>3
<1> QED BY <1>3, <1>4, <1>5, <1>6 DEF IInv

\* Steps that change nothing but where the interpreter is and what it has returned.
LEMMA QuietInv ==
    ASSUME IInv, UNCHANGED <<buckets, table, mask, num>>, TypeOK', pc' \in {"run", "spin"},
           cursor' \in Pointer, pc' = "run" => p' = 0
    PROVE  IInv'
<1>1. Hashed' /\ Counted' /\ Chained' /\ Pointer' = Pointer
  BY SameBuckets
<1>2. Pointed' /\ Called' /\ Searching'
  BY <1>1 DEF Pointed, Called, Searching
<1> QED BY <1>1, <1>2 DEF IInv

-----------------------------------------------------------------------------
(* The operations keep the invariant *)

LEMMA SpinInv ==
    ASSUME IInv, Spin
    PROVE  IInv'
<1>1. TypeOK' /\ cursor' \in Pointer
  BY DEF IInv, TypeOK, Pointed, Spin, list, Pointer
<1> QED BY <1>1, QuietInv DEF Spin, list

LEMMA FoundThere ==
    ASSUME TypeOK, Found
    PROVE  p \in 1..N /\ buckets[p].key = call.key /\ buckets[p].h = Hash[call.key]
BY DEF Found, SameHash, TypeOK, Pointer, N

LEMMA ReturnTyped ==
    ASSUME NEW s \in {0, -1}, NEW x \in Value \cup {NULL}, Return(s, x)
    PROVE  /\ pc' = "run" /\ p' = 0
           /\ call' \in [op : {"none", "get", "set", "del"}, key : Key \cup {NULL},
                         value : Value \cup {NULL}]
           /\ result' \in (-1..MaxBuckets) \X (Key \cup {DUMMY, NULL}) \X (Value \cup {NULL})
<1>1. s \in -1..MaxBuckets
  BY SizeAssumption
<1> QED BY <1>1 DEF Return, NoCall

LEMMA GetItemInv ==
    ASSUME IInv, GetItem
    PROVE  IInv'
<1>1. UNCHANGED <<buckets, table, mask, num, cursor>>
  BY DEF GetItem, list
<1>2. \E x \in Value \cup {NULL} : Return(0, x)
  <2>1. CASE Found /\ Return(0, buckets[p].item)
    BY <2>1, FoundThere, Parts DEF IInv
  <2>2. CASE Return(0, NULL)
    BY <2>2
  <2> QED BY <2>1, <2>2 DEF GetItem
<1>3. TypeOK'
  BY <1>1, <1>2, ReturnTyped DEF IInv, TypeOK, Pointer
<1>4. cursor' \in Pointer /\ pc' = "run" /\ p' = 0
  BY <1>1, <1>2, ReturnTyped DEF IInv, Pointed, GetItem, Found, Missing
<1> QED BY <1>1, <1>3, <1>4, QuietInv

LEMMA IterateInv ==
    ASSUME IInv, Iterate
    PROVE  IInv'
<1>1. UNCHANGED <<buckets, table, mask, num, pc, call, p>> /\ pc = "run"
  BY DEF Iterate
<1>2. cursor \in 0..N /\ N \in Nat /\ N <= MaxBuckets
  BY <1>1, Parts DEF IInv, Pointed, Pointer, N, TypeOK
<1>3. /\ cursor' \in 0..N
      /\ result' \in (-1..MaxBuckets) \X (Key \cup {DUMMY, NULL}) \X (Value \cup {NULL})
  <2>1. CASE cursor = 0
    BY <1>2, <2>1, SizeAssumption DEF Iterate
  <2>2. CASE cursor # 0
    <3>1. cursor \in 1..N /\ cursor' \in 0..N
      BY <1>2, <2>2 DEF Iterate, N
    <3>2. buckets[cursor].key \in Key \cup {DUMMY} /\ buckets[cursor].item \in Value
      BY <3>1, Parts DEF IInv
    <3>3. result' = <<0, buckets[cursor].key, buckets[cursor].item>>
      BY <2>2 DEF Iterate
    <3> QED BY <3>1, <3>2, <3>3, SizeAssumption
  <2> QED BY <2>1, <2>2
<1>4. TypeOK'
  BY <1>1, <1>2, <1>3, SizeAssumption DEF IInv, TypeOK, Pointer
<1> QED BY <1>1, <1>3, <1>4, QuietInv DEF N, Pointer, IInv, Pointed

LEMMA RewindInv ==
    ASSUME IInv, Rewind
    PROVE  IInv'
<1>1. UNCHANGED <<buckets, table, mask, num, pc, call, p, result>> /\ pc = "run"
  BY DEF Rewind
<1>2. cursor' \in 0..N /\ N \in Nat /\ N <= MaxBuckets
  BY Parts DEF IInv, N, TypeOK, Rewind
<1>3. TypeOK'
  BY <1>1, <1>2, SizeAssumption DEF IInv, TypeOK, Pointer
<1> QED BY <1>1, <1>2, <1>3, QuietInv DEF N, Pointer, IInv, Pointed

LEMMA SizeInv ==
    ASSUME IInv, Size
    PROVE  IInv'
<1>1. UNCHANGED <<buckets, table, mask, num, cursor, pc, call, p>> /\ pc = "run"
  BY DEF Size, list
<1>2. result' \in (-1..MaxBuckets) \X (Key \cup {DUMMY, NULL}) \X (Value \cup {NULL})
  BY SizeAssumption DEF IInv, TypeOK, Size
<1>3. TypeOK' /\ cursor' \in Pointer
  BY <1>1, <1>2 DEF IInv, TypeOK, Pointed, Pointer
<1> QED BY <1>1, <1>3, QuietInv DEF IInv, Pointed

\* An empty dict with an empty table.
LEMMA EmptyInv ==
    ASSUME buckets' = <<>>, num' = 0, mask' \in Nat, mask' >= MINMASK, table' = Empty(mask'),
           cursor' \in 0..MaxBuckets, pc' = "cleared" \/ (pc' = "run" /\ cursor' = 0),
           call' \in [op : {"none", "get", "set", "del"}, key : Key \cup {NULL},
                     value : Value \cup {NULL}],
           p' = 0,
           result' \in (-1..MaxBuckets) \X (Key \cup {DUMMY, NULL}) \X (Value \cup {NULL})
    PROVE  IInv'
<1>1. N' = 0 /\ DOMAIN buckets' = {} /\ Kept' = {} /\ Pointer' = 0..0
  BY DEF N, Kept, Pointer
<1>2. TypeOK'
  BY <1>1, SizeAssumption DEF TypeOK, Empty
<1>3. Hashed' /\ Counted' /\ Pointed' /\ Called'
  BY <1>1, FS_EmptySet DEF Hashed, Counted, Pointed, Called
<1>4. Chained' /\ Searching'
  BY <1>1 DEF Chained, Searching, Empty
<1> QED BY <1>2, <1>3, <1>4 DEF IInv

LEMMA ClearInv ==
    ASSUME IInv, Clear
    PROVE  IInv'
<1>1. TypeOK /\ p = 0
  BY DEF IInv, Pointed, Clear
<1>2. /\ buckets' = <<>> /\ num' = 0 /\ mask' = mask /\ table' = Empty(mask') /\ pc' = "cleared"
      /\ UNCHANGED <<cursor, call, p, result>>
  BY DEF Clear
<1>3. /\ mask' \in Nat /\ mask' >= MINMASK
      /\ cursor' \in 0..MaxBuckets
      /\ call' \in [op : {"none", "get", "set", "del"}, key : Key \cup {NULL},
                    value : Value \cup {NULL}]
      /\ p' = 0
      /\ result' \in (-1..MaxBuckets) \X (Key \cup {DUMMY, NULL}) \X (Value \cup {NULL})
  BY <1>1, <1>2 DEF TypeOK
<1> QED BY <1>2, <1>3, EmptyInv

LEMMA RecreateInv ==
    ASSUME IInv, Recreate
    PROVE  IInv'
BY EmptyInv, SizeAssumption DEF IInv, TypeOK, Recreate, Pointed

-----------------------------------------------------------------------------
(* Writing to a bucket that is there *)

\* Bucket q becomes b, in the same place of the same chain.
LEMMA WriteInv ==
    ASSUME IInv, NEW q \in 1..N, NEW b \in Bucket,
           b.h = buckets[q].h, b.next = buckets[q].next,
           buckets' = [buckets EXCEPT ![q] = b],
           UNCHANGED <<table, mask>>
    PROVE  /\ N' = N
           /\ DOMAIN buckets' = 1..N
           /\ buckets' \in Seq(Bucket)
           /\ \A i \in 1..N : buckets'[i].next < i
           /\ \A i \in 1..N : buckets'[i] = IF i = q THEN b ELSE buckets[i]
           /\ Chained'
<1>1. N \in Nat /\ DOMAIN buckets = 1..N /\ \A i \in 1..N : buckets[i] \in Bucket
  BY Parts DEF IInv
<1>2. /\ N' = N
      /\ DOMAIN buckets' = 1..N
      /\ buckets' \in Seq(Bucket)
      /\ \A i \in 1..N : buckets'[i] = IF i = q THEN b ELSE buckets[i]
  BY <1>1 DEF IInv, TypeOK, N
<1>3. \A i \in 1..N : buckets'[i].h = buckets[i].h /\ buckets'[i].next = buckets[i].next
  BY <1>2
<1>4. \A i \in 1..N : buckets'[i].next < i
  BY <1>3, Parts DEF IInv
<1>5. \A i \in 1..N : Slot(i)' = Slot(i)
  BY <1>3 DEF Slot
<1>6. Chained'
  <2> SUFFICES ASSUME Plain
               PROVE  /\ \A x \in 0..mask : table[x] # 0 => Slot(table[x])' = x
                      /\ \A i \in 1..N : i <= table[Slot(i)']
                      /\ \A i \in 1..N :
                            buckets'[i].next # 0 => (Slot(buckets[i].next))' = Slot(i)'
                      /\ \A i, j \in 1..N : j < i /\ Slot(j)' = Slot(i)' => j <= buckets'[i].next
                      /\ \A i, j \in 1..N : buckets'[i].h = buckets'[j].h => i = j
    BY <1>2 DEF Chained, Plain
  <2>1. \A x \in 0..mask : table[x] # 0 => Slot(table[x])' = x
    <3>1. \A x \in 0..mask : table[x] \in 0..N
      BY DEF IInv, TypeOK, Pointer, N
    <3> QED BY <1>1, <1>5, <3>1 DEF IInv, Chained, Slot
  <2>2. \A i \in 1..N : buckets'[i].next # 0 => (Slot(buckets[i].next))' = Slot(i)'
    <3> SUFFICES ASSUME NEW i \in 1..N, buckets[i].next # 0
                 PROVE  SlotOf(buckets'[buckets[i].next].h, mask) = Slot(i)
      BY <1>3, <1>5 DEF Slot
    <3>1. buckets[i].next \in 1..N
      BY <1>1, Parts DEF IInv
    <3> QED BY <1>3, <3>1 DEF IInv, Chained, Slot
  <2> QED BY <1>3, <1>5, <2>1, <2>2 DEF IInv, Chained
<1> QED BY <1>2, <1>4, <1>6

LEMMA SetFoundInv ==
    ASSUME IInv, SetItem, Found
    PROVE  IInv'
<1>1. p \in 1..N /\ buckets[p] \in Bucket /\ buckets[p].key = call.key
  BY FoundThere, Parts DEF IInv
<1>2. call.value \in Value /\ call.key \in Hashable
  BY DEF IInv, Called, SetItem, Found
<1>3. ~Missing
  BY <1>1, HashNat, <1>2 DEF Missing, Found, SameHash, N
<1>4. /\ buckets' = [buckets EXCEPT ![p].item = call.value]
      /\ UNCHANGED <<table, mask, num, cursor>>
      /\ Return(0, NULL)
  BY <1>3 DEF SetItem
<1> DEFINE b == [buckets[p] EXCEPT !.item = call.value]
<1>5. b \in Bucket /\ b.h = buckets[p].h /\ b.next = buckets[p].next /\ b.key = buckets[p].key
  BY <1>1, <1>2 DEF Bucket
<1>6. buckets' = [buckets EXCEPT ![p] = b]
  BY <1>1, <1>4, Parts DEF IInv
<1> HIDE DEF b
<1>7. /\ N' = N
      /\ DOMAIN buckets' = 1..N
      /\ buckets' \in Seq(Bucket)
      /\ \A i \in 1..N : buckets'[i].next < i
      /\ \A i \in 1..N : buckets'[i] = IF i = p THEN b ELSE buckets[i]
      /\ Chained'
  BY <1>1, <1>4, <1>5, <1>6, WriteInv
<1>8. \A i \in 1..N : buckets'[i].key = buckets[i].key /\ buckets'[i].h = buckets[i].h
  BY <1>5, <1>7
<1>9. Kept' = Kept
  BY <1>7, <1>8, Parts DEF Kept, IInv
<1>10. TypeOK'
  BY <1>4, <1>7, ReturnTyped DEF IInv, TypeOK, Pointer, N
<1>11. Hashed' /\ Counted'
  BY <1>4, <1>8, <1>9, Parts DEF IInv, Hashed, Counted
<1>12. Pointed' /\ Called' /\ Searching'
  BY <1>4, <1>7, ReturnTyped DEF IInv, Pointed, Called, Searching, Found, Pointer, N
<1> QED BY <1>7, <1>10, <1>11, <1>12 DEF IInv

LEMMA DelItemInv ==
    ASSUME IInv, DelItem
    PROVE  IInv'
<1>1. CASE Return(-1, NULL) /\ UNCHANGED <<buckets, num>>
  <2>1. UNCHANGED <<buckets, table, mask, num, cursor>>
    BY <1>1 DEF DelItem
  <2>2. TypeOK'
    BY <1>1, <2>1, ReturnTyped DEF IInv, TypeOK, Pointer
  <2>3. cursor' \in Pointer /\ pc' = "run" /\ p' = 0
    BY <1>1, <2>1, ReturnTyped DEF IInv, Pointed, DelItem, Found, Missing
  <2> QED BY <2>1, <2>2, <2>3, QuietInv
<1>2. CASE /\ Found
           /\ buckets' = [buckets EXCEPT ![p].key = DUMMY]
           /\ num' = num - 1
           /\ Return(0, NULL)
  <2>1. p \in 1..N /\ buckets[p] \in Bucket /\ buckets[p].key = call.key
    BY <1>2, FoundThere, Parts DEF IInv
  <2>2. call.key \in Key
    BY <1>2, HashNat DEF IInv, Called, Found
  <2> DEFINE b == [buckets[p] EXCEPT !.key = DUMMY]
  <2>3. b \in Bucket /\ b.h = buckets[p].h /\ b.next = buckets[p].next /\ b.key = DUMMY
    BY <2>1 DEF Bucket
  <2>4. buckets' = [buckets EXCEPT ![p] = b]
    BY <1>2, <2>1, Parts DEF IInv
  <2> HIDE DEF b
  <2>5. UNCHANGED <<table, mask, cursor>>
    BY DEF DelItem
  <2>6. /\ N' = N
        /\ DOMAIN buckets' = 1..N
        /\ buckets' \in Seq(Bucket)
        /\ \A i \in 1..N : buckets'[i].next < i
        /\ \A i \in 1..N : buckets'[i] = IF i = p THEN b ELSE buckets[i]
        /\ Chained'
    BY <2>1, <2>3, <2>4, <2>5, WriteInv
  <2>7. Kept' = Kept \ {p} /\ p \in Kept
    BY <2>1, <2>2, <2>3, <2>6, Parts, NameAssumption DEF Kept, IInv
  <2>8. Cardinality(Kept') = Cardinality(Kept) - 1 /\ IsFiniteSet(Kept)
    BY <2>7, Parts, FS_RemoveElement DEF IInv
  <2>9. Hashed'
    BY <2>6, <2>7, Parts DEF IInv, Hashed
  <2>10. Counted' /\ num' \in 0..MaxBuckets
    <3>1. num = Cardinality(Kept) /\ Cardinality(Kept) # 0
      BY <2>7, Parts, FS_EmptySet DEF IInv, Counted
    <3> QED BY <1>2, <2>8, <3>1, SizeAssumption DEF Counted, IInv, TypeOK
  <2>11. TypeOK'
    BY <1>2, <2>5, <2>6, <2>10, ReturnTyped DEF IInv, TypeOK, Pointer, N
  <2>12. Pointed' /\ Called' /\ Searching'
    BY <1>2, <2>5, <2>6, ReturnTyped DEF IInv, Pointed, Called, Searching, Found, Pointer, N
  <2> QED BY <2>6, <2>9, <2>10, <2>11, <2>12 DEF IInv
<1> QED BY <1>1, <1>2 DEF DelItem

-----------------------------------------------------------------------------
(* Insertion *)

\* Until the table grows, a lookup that finds nothing has seen every bucket that could
\* have its hash.
LEMMA MissingMeansNone ==
    ASSUME IInv, Missing, Plain
    PROVE  \A i \in 1..N : buckets[i].h # Hash[call.key]
<1>1. call.key \in Hashable /\ \A i \in 1..N : i > p => buckets[i].h # Hash[call.key]
  BY DEF IInv, Called, Searching, Missing
<1>2. CASE p = 0
  BY <1>1, <1>2
<1>3. CASE p # 0 /\ SameHash /\ buckets[p].key \notin {DUMMY, call.key}
  <2>1. p \in 1..N
    BY <1>3 DEF IInv, TypeOK, Pointer, N
  <2>2. buckets[p].key \in Hashable /\ Hash[buckets[p].key] = buckets[p].h
    BY <1>3, <2>1, Parts DEF IInv, Hashed, Kept
  <2>3. buckets[p].key = call.key
    BY <1>1, <1>3, <2>2 DEF SameHash, Plain, DistinctHashes
  <2> QED BY <1>3, <2>3
<1> QED BY <1>2, <1>3 DEF Missing, SameHash

\* A nonempty set of positions has a last one.
LEMMA LastExists ==
    ASSUME NEW n \in Nat, NEW I, I \subseteq 1..n, I # {}
    PROVE  \E i \in I : \A j \in I : j <= i
<1> DEFINE Up(i) == {j \in I : j > i}
           T == {Up(i) : i \in I}
           R == StrictSubsetOrdering(1..n)
<1>1. IsWellFoundedOn(R, SUBSET (1..n))
  <2>1. IsFiniteSet(1..n)
    BY FS_Interval
  <2>2. FiniteSubsetsOf(1..n) = SUBSET (1..n)
    BY <2>1, FS_FiniteSubsetsOfFinite
  <2>3. IsWellFoundedOn(R, FiniteSubsetsOf(1..n))
    BY FS_StrictSubsetOrderingWellFounded
  <2> QED BY <2>2, <2>3
<1>2. T \subseteq SUBSET (1..n) /\ T # {}
  OBVIOUS
<1>3. \E t \in T : \A u \in T : <<u, t>> \notin R
  <2> HIDE DEF R, T
  <2> QED BY <1>1, <1>2, WFMin
<1>4. PICK i \in I : \A u \in T : <<u, Up(i)>> \notin R
  <2> HIDE DEF R
  <2> QED BY <1>3
<1>5. ASSUME NEW j \in I, j > i
      PROVE  FALSE
  <2>1. <<Up(j), Up(i)>> \notin R
    <3> HIDE DEF R
    <3> QED BY <1>4
  <2>2. Up(j) \subseteq Up(i)
    <3>1. \A k \in I : k \in Int
      OBVIOUS
    <3>2. \A k \in I : k > j => k > i
      BY <1>5, <3>1
    <3> QED BY <3>2
  <2>4. j \in Up(i) /\ j \notin Up(j)
    BY <1>5
  <2>3. <<Up(j), Up(i)>> \in (SUBSET (1..n)) \X (SUBSET (1..n))
    OBVIOUS
  <2> HIDE DEF Up
  <2> QED BY <2>1, <2>2, <2>3, <2>4 DEF StrictSubsetOrdering
<1> QED BY <1>5

LEMMA RehashTyped ==
    ASSUME NEW bs \in Seq(Bucket), NEW m \in Nat
    PROVE  Rehash(bs, m) \in [0..m -> 0..Len(bs)]
<1> DEFINE Here(x) == {i \in DOMAIN bs : SlotOf(bs[i].h, m) = x}
<1>1. ASSUME NEW x \in 0..m
      PROVE  (IF Here(x) = {} THEN 0 ELSE Last(Here(x))) \in 0..Len(bs)
  <2>1. Len(bs) \in Nat /\ Here(x) \subseteq 1..Len(bs)
    <3>1. Len(bs) \in Nat /\ DOMAIN bs = 1..Len(bs)
      OBVIOUS
    <3> QED BY <3>1
  <2> HIDE DEF Here
  <2>2. Here(x) # {} => Last(Here(x)) \in Here(x)
    <3>1. Here(x) # {} => \E i \in Here(x) : \A j \in Here(x) : j <= i
      BY <2>1, LastExists
    <3> QED BY <3>1 DEF Last
  <2> QED BY <2>1, <2>2
<1>2. Rehash(bs, m) = [x \in 0..m |-> IF Here(x) = {} THEN 0 ELSE Last(Here(x))]
  BY DEF Rehash
<1> HIDE DEF Here
<1> QED BY <1>1, <1>2

\* The new bucket is the last of the list, and no other changes.
LEMMA Appended ==
    ASSUME IInv, NEW k \in Hashable, NEW v \in Value, N < MaxBuckets, Insert(k, v)
    PROVE  /\ N' = N + 1 /\ DOMAIN buckets' = 1..N + 1
           /\ buckets' \in Seq(Bucket)
           /\ \A i \in 1..N : buckets'[i] = buckets[i]
           /\ buckets'[N + 1].key = k /\ buckets'[N + 1].item = v
           /\ buckets'[N + 1].h = Hash[k] /\ buckets'[N + 1].next = Chain(k)
           /\ \A i \in 1..N + 1 : buckets'[i].next < i
<1> DEFINE b == [key |-> k, item |-> v, h |-> Hash[k], next |-> Chain(k)]
<1>1. Chain(k) \in 0..N /\ N \in Nat /\ DOMAIN buckets = 1..N
  BY Begin, Parts DEF IInv, Pointer, N
<1>2. b \in Bucket
  BY <1>1, HashNat DEF Bucket
<1>3. buckets' = Append(buckets, b) /\ buckets \in Seq(Bucket)
  BY DEF Insert, IInv, TypeOK
<1>4. b.key = k /\ b.item = v /\ b.h = Hash[k] /\ b.next = Chain(k)
  OBVIOUS
<1>5. /\ N' = N + 1 /\ DOMAIN buckets' = 1..N + 1
      /\ buckets' \in Seq(Bucket)
      /\ \A i \in 1..N : buckets'[i] = buckets[i]
      /\ buckets'[N + 1] = b
  <2> HIDE DEF b
  <2> QED BY <1>1, <1>2, <1>3 DEF N
<1>6. \A i \in 1..N + 1 : buckets'[i].next < i
  <2> SUFFICES ASSUME NEW i \in 1..N + 1
               PROVE  buckets'[i].next < i
    OBVIOUS
  <2>1. CASE i = N + 1
    BY <1>1, <1>4, <1>5, <2>1
  <2>2. CASE i # N + 1
    <3>1. i \in 1..N
      BY <1>1, <2>2
    <3> QED BY <1>5, <3>1, Parts DEF IInv
  <2> QED BY <2>1, <2>2
<1> HIDE DEF b
<1> QED BY <1>4, <1>5, <1>6

\* The dict that has grown is no longer covered by Chained.
LEMMA GrownOrLinked ==
    ASSUME IInv, NEW k \in Hashable, NEW v \in Value, N < MaxBuckets, Insert(k, v)
    PROVE  /\ mask' \in Nat /\ mask' >= MINMASK
           /\ table' \in [0..mask' -> 0..N + 1]
           /\ \/ mask' # MINMASK
              \/ mask' = mask /\ table' = [table EXCEPT ![SlotOf(Hash[k], mask)] = N + 1]
<1>1. N \in Nat /\ N' = N + 1 /\ buckets' \in Seq(Bucket)
  BY Appended, Parts DEF IInv
<1>2. mask \in Nat /\ mask >= MINMASK /\ MINMASK \in Nat /\ MINMASK > 0
  BY SizeAssumption DEF IInv, TypeOK
<1>3. Len(buckets') = N + 1
  BY <1>1 DEF N
<1>4. CASE mask' = 2 * mask /\ table' = Rehash(buckets', 2 * mask)
  <2>1. 2 * mask \in Nat /\ 2 * mask # MINMASK /\ 2 * mask >= MINMASK
    BY <1>2
  <2>2. table' \in [0..2 * mask -> 0..N + 1]
    BY <1>1, <1>3, <1>4, <2>1, RehashTyped
  <2> QED BY <1>4, <2>1, <2>2
<1>5. CASE table' = [table EXCEPT ![SlotOf(Hash[k], mask)] = N + 1] /\ UNCHANGED mask
  <2>1. table \in [0..mask -> 0..N]
    BY DEF IInv, TypeOK, Pointer, N
  <2> DEFINE s == SlotOf(Hash[k], mask)
  <2>2. table' = [table EXCEPT ![s] = N + 1]
    BY <1>5
  <2> HIDE DEF s
  <2>3. \A x \in 0..mask : table[x] \in 0..N + 1
    BY <1>1, <2>1
  <2>4. table' \in [0..mask -> 0..N + 1]
    <3>1. table' = [x \in 0..mask |-> IF x = s THEN N + 1 ELSE table[x]]
      BY <2>1, <2>2
    <3> QED BY <1>1, <2>3, <3>1
  <2> QED BY <1>2, <1>5, <2>4
<1> QED BY <1>3, <1>4, <1>5 DEF Insert

LEMMA InsertChained ==
    ASSUME IInv, NEW k \in Hashable, NEW v \in Value, N < MaxBuckets, Insert(k, v),
           Plain => \A i \in 1..N : buckets[i].h # Hash[k]
    PROVE  Chained'
<1> DEFINE s      == SlotOf(Hash[k], mask)
           new(q) == SlotOf(buckets'[q].h, mask')
<1> SUFFICES ASSUME Plain'
             PROVE  /\ \A x \in 0..mask' : table'[x] # 0 => new(table'[x]) = x
                    /\ \A i \in 1..N' : i <= table'[new(i)]
                    /\ \A i \in 1..N' : buckets'[i].next # 0 => new(buckets'[i].next) = new(i)
                    /\ \A i, j \in 1..N' : j < i /\ new(j) = new(i) => j <= buckets'[i].next
                    /\ \A i, j \in 1..N' : buckets'[i].h = buckets'[j].h => i = j
  BY DEF Chained, Slot
<1>1. Plain /\ mask' = mask /\ mask = MINMASK /\ table' = [table EXCEPT ![s] = N + 1]
  <2>1. mask' = MINMASK /\ DistinctHashes
    BY DEF Plain
  <2>2. mask' = mask /\ table' = [table EXCEPT ![SlotOf(Hash[k], mask)] = N + 1]
    BY <2>1, GrownOrLinked
  <2> QED BY <2>1, <2>2 DEF Plain
<1>2. /\ N \in Nat /\ N' = N + 1
      /\ \A i \in 1..N : buckets'[i] = buckets[i]
      /\ buckets'[N + 1].h = Hash[k] /\ buckets'[N + 1].next = Chain(k)
  BY Appended, Parts DEF IInv
<1>3. s \in 0..mask /\ Chain(k) \in 0..N
      /\ (Chain(k) # 0 => Slot(Chain(k)) = s)
      /\ \A i \in 1..N : i > Chain(k) => Slot(i) # s
  BY <1>1, Begin DEF Pointer, N
<1>4. new(N + 1) = s /\ \A i \in 1..N : new(i) = Slot(i) /\ Slot(i) \in 0..mask
  BY <1>1, <1>2, Parts DEF Slot, IInv
<1>5. \A x \in 0..mask : table[x] \in 0..N /\ table'[x] = IF x = s THEN N + 1 ELSE table[x]
  <2>1. table \in [0..mask -> 0..N]
    BY DEF IInv, TypeOK, Pointer, N
  <2> QED BY <1>1, <1>3, <2>1
<1>6. \A i \in 1..N' : i \in 1..N \/ i = N + 1
  BY <1>2
<1>7. /\ \A x \in 0..mask : table[x] # 0 => Slot(table[x]) = x
      /\ \A i \in 1..N : i <= table[Slot(i)]
      /\ \A i \in 1..N : buckets[i].next # 0 => Slot(buckets[i].next) = Slot(i)
      /\ \A i, j \in 1..N : j < i /\ Slot(j) = Slot(i) => j <= buckets[i].next
      /\ \A i, j \in 1..N : buckets[i].h = buckets[j].h => i = j
  BY <1>1 DEF IInv, Chained
<1>8. \A i \in 1..N : buckets[i].next \in 0..N
  BY Parts DEF IInv
<1> HIDE DEF s, new
<1>9. ASSUME NEW x \in 0..mask', table'[x] # 0
      PROVE  new(table'[x]) = x
  <2>1. CASE x = s
    BY <1>1, <1>3, <1>4, <1>5, <2>1
  <2>2. CASE x # s
    <3>1. table'[x] = table[x] /\ table[x] \in 1..N
      BY <1>1, <1>2, <1>5, <1>9, <2>2
    <3> QED BY <1>1, <1>4, <1>7, <1>9, <3>1
  <2> QED BY <2>1, <2>2
<1>10. ASSUME NEW i \in 1..N'
       PROVE  i <= table'[new(i)]
  <2>1. new(i) \in 0..mask
    BY <1>3, <1>4, <1>6
  <2>2. CASE new(i) = s
    <3>1. table'[new(i)] = N + 1
      BY <1>5, <2>1, <2>2
    <3> QED BY <1>2, <3>1
  <2>3. CASE new(i) # s
    <3>1. i \in 1..N /\ table'[new(i)] = table[Slot(i)]
      BY <1>4, <1>5, <1>6, <2>1, <2>3
    <3> QED BY <1>7, <3>1
  <2> QED BY <2>2, <2>3
<1>11. ASSUME NEW i \in 1..N', buckets'[i].next # 0
       PROVE  new(buckets'[i].next) = new(i)
  <2>1. CASE i = N + 1
    <3>1. Chain(k) \in 1..N /\ buckets'[i].next = Chain(k)
      BY <1>2, <1>3, <1>11, <2>1
    <3> QED BY <1>3, <1>4, <2>1, <3>1
  <2>2. CASE i \in 1..N
    <3>1. buckets'[i].next = buckets[i].next /\ buckets[i].next \in 1..N
      BY <1>2, <1>8, <1>11, <2>2
    <3> QED BY <1>4, <1>7, <2>2, <3>1
  <2> QED BY <1>6, <2>1, <2>2
<1>12. ASSUME NEW i \in 1..N', NEW j \in 1..N', j < i, new(j) = new(i)
       PROVE  j <= buckets'[i].next
  <2>1. j \in 1..N
    BY <1>2, <1>12
  <2>2. CASE i = N + 1
    <3>1. ~(j > Chain(k))
      BY <1>3, <1>4, <1>12, <2>1, <2>2
    <3> QED BY <1>2, <1>3, <2>1, <2>2, <3>1
  <2>3. CASE i \in 1..N
    <3>1. buckets'[i].next = buckets[i].next /\ Slot(j) = Slot(i)
      BY <1>2, <1>4, <1>12, <2>1, <2>3
    <3> QED BY <1>7, <1>12, <2>1, <2>3, <3>1
  <2> QED BY <1>6, <2>2, <2>3
<1>13. ASSUME NEW i \in 1..N', NEW j \in 1..N', buckets'[i].h = buckets'[j].h
       PROVE  i = j
  <2>1. \A q \in 1..N : buckets'[q].h = buckets[q].h /\ buckets[q].h # Hash[k]
    BY <1>1, <1>2
  <2> QED BY <1>2, <1>6, <1>7, <1>13, <2>1
<1> QED BY <1>9, <1>10, <1>11, <1>12, <1>13

LEMMA SetMissingInv ==
    ASSUME IInv, SetItem, ~Found
    PROVE  IInv'
<1> DEFINE k == call.key
           v == call.value
<1>1. Missing /\ Insert(k, v) /\ Return(0, NULL)
  BY DEF SetItem
<1>2. k \in Hashable /\ v \in Value /\ N < MaxBuckets /\ k \in Key /\ k # DUMMY
  BY <1>1, HashNat, NameAssumption DEF IInv, Called, Missing, SetItem
<1> HIDE DEF k, v
<1>3. /\ N \in Nat /\ N' = N + 1 /\ DOMAIN buckets' = 1..N + 1
      /\ buckets' \in Seq(Bucket)
      /\ \A i \in 1..N : buckets'[i] = buckets[i]
      /\ buckets'[N + 1].key = k /\ buckets'[N + 1].h = Hash[k]
      /\ \A i \in 1..N + 1 : buckets'[i].next < i
  BY <1>1, <1>2, Appended, Parts DEF IInv
<1>4. Chained'
  <2>1. Plain => \A i \in 1..N : buckets[i].h # Hash[k]
    BY <1>1, MissingMeansNone DEF k
  <2> QED BY <1>1, <1>2, <2>1, InsertChained
<1>5. /\ mask' \in Nat /\ mask' >= MINMASK
      /\ table' \in [0..mask' -> 0..N + 1]
  BY <1>1, <1>2, GrownOrLinked
<1>6. Kept' = Kept \cup {N + 1} /\ N + 1 \notin Kept
  BY <1>2, <1>3, Parts DEF Kept, IInv
<1>7. num' = Cardinality(Kept') /\ num' \in 0..N + 1
  <2>1. Cardinality(Kept') = Cardinality(Kept) + 1
    BY <1>6, Parts, FS_AddElement DEF IInv
  <2>2. num' = num + 1 /\ num = Cardinality(Kept) /\ Cardinality(Kept) \in 0..N
    BY <1>1, Parts DEF Insert, IInv, Counted
  <2> QED BY <1>3, <2>1, <2>2
<1>8. cursor' \in 0..N + 1
  <2>1. cursor \in 0..N
    BY <1>1 DEF IInv, Pointed, Pointer, N, Missing
  <2>2. cursor' = IF cursor = 0 THEN N' ELSE cursor
    BY <1>1 DEF Insert, N
  <2> QED BY <1>3, <2>1, <2>2
<1>9. N + 1 \in Nat /\ N + 1 <= MaxBuckets /\ Len(buckets') = N + 1 /\ Pointer' = 0..N + 1
  BY <1>2, <1>3, SizeAssumption DEF N, Pointer
<1>10. TypeOK'
  <2>1. \A i \in DOMAIN buckets' : buckets'[i].next < i
    BY <1>3
  <2>2. num' \in 0..MaxBuckets /\ cursor' \in 0..MaxBuckets
    BY <1>7, <1>8, <1>9, SizeAssumption
  <2> QED BY <1>1, <1>3, <1>5, <1>9, <2>1, <2>2, ReturnTyped DEF TypeOK
<1>11. Hashed'
  <2>1. ASSUME NEW i \in Kept'
        PROVE  buckets'[i].key \in Hashable /\ buckets'[i].h = Hash[buckets'[i].key]
    <3>1. CASE i = N + 1
      BY <1>2, <1>3, <3>1
    <3>2. CASE i \in Kept
      <4>1. i \in 1..N /\ buckets'[i] = buckets[i]
        BY <1>3, <3>2, Parts DEF IInv
      <4> QED BY <3>2, <4>1 DEF IInv, Hashed
    <3> QED BY <1>6, <2>1, <3>1, <3>2
  <2> QED BY <2>1 DEF Hashed
<1>12. Counted' /\ Pointed' /\ Called' /\ Searching'
  BY <1>1, <1>7, <1>8, <1>9, ReturnTyped DEF Counted, Pointed, Called, Searching
<1> QED BY <1>4, <1>10, <1>11, <1>12 DEF IInv

-----------------------------------------------------------------------------
(* Every step keeps the invariant *)

LEMMA NextInv == IInv /\ [Next]_vars => IInv'
<1> SUFFICES ASSUME IInv, [Next]_vars
             PROVE  IInv'
  OBVIOUS
<1>1. ASSUME NEW k \in Key, Call("get", k, NULL) \/ Call("del", k, NULL)
      PROVE  IInv'
  BY <1>1, CallInv
<1>2. ASSUME NEW k \in Key, NEW v \in Value, Call("set", k, v)
      PROVE  IInv'
  BY <1>2, CallInv
<1>3. CASE Lookup
  BY <1>3, AdvanceInv, SpinInv, GetItemInv, SetFoundInv, SetMissingInv, DelItemInv DEF Lookup
<1>4. CASE Iterate \/ Rewind \/ Size
  BY <1>4, IterateInv, RewindInv, SizeInv
<1>5. CASE Clear \/ Recreate
  BY <1>5, ClearInv, RecreateInv
<1>6. CASE UNCHANGED vars
  BY <1>6 DEF vars, IInv, TypeOK, Hashed, Counted, Pointed, Called, Chained, Searching, Plain,
              Slot, Kept, Pointer, N
<1> QED BY <1>1, <1>2, <1>3, <1>4, <1>5, <1>6 DEF Next

LEMMA Invariance == Spec => []IInv
<1>1. Init => IInv
  BY InitInv
<1>2. IInv /\ [Next]_vars => IInv'
  BY NextInv
<1> QED BY <1>1, <1>2, PTL DEF Spec

\* The dict's variables keep their types, whatever the keys, their hashes and the size
\* of the table: no chain leads forward, no table entry and no lookup leads out of the
\* list of buckets (dictobject.c).
THEOREM TypeCorrect == Spec => []TypeOK
<1>1. IInv => TypeOK
  BY DEF IInv
<1> QED BY <1>1, Invariance, PTL

-----------------------------------------------------------------------------
(* A dict is a map until its table grows *)

Position == IF cursor \in DOMAIN buckets THEN cursor ELSE Len(buckets) + 1

LEMMA EntryFacts ==
    ASSUME TypeOK
    PROVE  /\ DOMAIN Entries = 1..N
           /\ \A i \in 1..N : Entries[i].key = buckets[i].key /\ Entries[i].value = buckets[i].item
           /\ \A i \in 1..N : Entries[i] = [key |-> buckets[i].key, value |-> buckets[i].item]
           /\ Entries \in Seq([key : Key \cup {DUMMY}, value : Value])
           /\ Len(Entries) = N
           /\ \A k : M!Places(k) = {i \in 1..N : buckets[i].key = k}
<1>1. DOMAIN Entries = 1..N /\ N \in Nat
  BY Parts DEF Entries
<1>2. \A i \in 1..N : Entries[i] = [key |-> buckets[i].key, value |-> buckets[i].item]
  BY Parts DEF Entries
<1>3. ASSUME NEW i \in 1..N
      PROVE  Entries[i].key = buckets[i].key /\ Entries[i].value = buckets[i].item
  <2>1. Entries[i] = [key |-> buckets[i].key, value |-> buckets[i].item]
    BY <1>2
  <2> QED BY <2>1
<1>4. Entries = [i \in 1..N |-> [key |-> buckets[i].key, value |-> buckets[i].item]]
  BY Parts DEF Entries
<1>5. Entries \in Seq([key : Key \cup {DUMMY}, value : Value]) /\ Len(Entries) = N
  <2>1. \A i \in 1..N : [key |-> buckets[i].key, value |-> buckets[i].item]
                          \in [key : Key \cup {DUMMY}, value : Value]
    BY Parts
  <2> DEFINE E == [key : Key \cup {DUMMY}, value : Value]
  <2>2. Entries \in [1..N -> E]
    BY <1>4, <2>1
  <2> HIDE DEF E
  <2>3. Entries \in Seq(E) /\ Len(Entries) = N
    BY <1>1, <2>2
  <2> QED BY <2>3 DEF E
<1>6. \A k : M!Places(k) = {i \in 1..N : buckets[i].key = k}
  BY <1>1, <1>3 DEF M!Places
<1> QED BY <1>1, <1>2, <1>3, <1>5, <1>6

\* Seen from the map, the cursor does not move when the list does not.
LEMMA SameView ==
    ASSUME UNCHANGED <<buckets, cursor>>
    PROVE  Entries' = Entries /\ Position' = Position
BY DEF Entries, Position

LEMMA MapInit == Init => M!Init
BY DEF Init, M!Init, Entries

\* What is missing is nowhere.
LEMMA MissingIsNowhere ==
    ASSUME IInv, Missing, Plain
    PROVE  M!Places(call.key) = {} /\ call.key \in Hashable /\ call.key \in Key
<1>1. call.key \in Hashable /\ call.key \in Key
  BY HashNat DEF IInv, Called, Missing
<1>2. ASSUME NEW i \in 1..N, buckets[i].key = call.key
      PROVE  FALSE
  <2>1. buckets[i].h = Hash[call.key]
    BY <1>1, <1>2, KeyHasHash
  <2> QED BY <2>1, MissingMeansNone
<1> QED BY <1>1, <1>2, EntryFacts DEF IInv

LEMMA FoundIsPlace ==
    ASSUME IInv, Found
    PROVE  /\ p \in M!Places(call.key) /\ call.key \in Key /\ call.key \in Hashable
           /\ p \in 1..N
           /\ Entries[p].value = buckets[p].item
<1>1. call.key \in Hashable /\ call.key \in Key
  BY HashNat DEF IInv, Called, Found
<1> QED BY <1>1, FoundThere, EntryFacts DEF IInv

LEMMA CallMaps ==
    ASSUME IInv, NEW op \in {"get", "set", "del"}, NEW k \in Key, NEW v, Call(op, k, v)
    PROVE  M!Next \/ UNCHANGED M!vars
<1>1. Entries' = Entries /\ Position' = Position
  BY SameView DEF Call, list
<1>2. CASE k \in Hashable
  BY <1>1, <1>2 DEF Call, M!vars, Position
<1>3. CASE k \notin Hashable /\ op = "get"
  <2>1. M!Places(k) = {}
    BY <1>3, KeyHasHash, EntryFacts DEF IInv
  <2>2. M!Get(k)
    BY <1>1, <1>3, <2>1 DEF Call, M!Get, Position
  <2> QED BY <2>2 DEF M!Next
<1>4. CASE k \notin Hashable /\ op # "get"
  <2>1. M!Fail
    BY <1>1, <1>4 DEF Call, M!Fail, Position
  <2> QED BY <2>1 DEF M!Next
<1> QED BY <1>2, <1>3, <1>4

LEMMA GetItemMaps ==
    ASSUME IInv, GetItem, Plain
    PROVE  M!Next
<1>1. Entries' = Entries /\ Position' = Position
  BY SameView DEF GetItem, list
<1>2. CASE Found /\ Return(0, buckets[p].item)
  <2>1. M!Get(call.key)
    BY <1>1, <1>2, FoundIsPlace DEF Return, M!Get, Position
  <2> QED BY <1>2, <2>1, FoundIsPlace DEF M!Next
<1>3. CASE Missing /\ Return(0, NULL)
  <2>1. M!Get(call.key)
    BY <1>1, <1>3, MissingIsNowhere DEF Return, M!Get, Position
  <2> QED BY <1>3, <2>1, MissingIsNowhere DEF M!Next
<1> QED BY <1>2, <1>3 DEF GetItem

LEMMA SetFoundMaps ==
    ASSUME IInv, SetItem, Found
    PROVE  M!Next
<1> DEFINE k == call.key
           v == call.value
<1>1. /\ p \in 1..N /\ p \in M!Places(k) /\ k \in Key /\ k \in Hashable
      /\ buckets[p].key = k
  BY FoundIsPlace, FoundThere DEF IInv
<1>2. v \in Value
  BY DEF IInv, Called, SetItem, Found
<1>3. /\ buckets' = [buckets EXCEPT ![p].item = v]
      /\ UNCHANGED cursor
      /\ Return(0, NULL)
  BY <1>1 DEF SetItem, Missing, Found, SameHash, N
<1> HIDE DEF k, v
<1>4. DOMAIN buckets' = 1..N /\ DOMAIN buckets = 1..N /\ Len(buckets') = N /\ Len(buckets) = N
  BY <1>1, <1>3, Parts DEF IInv, TypeOK, N
<1>5. \A i \in 1..N : /\ buckets'[i].key = buckets[i].key
                     /\ buckets'[i].item = IF i = p THEN v ELSE buckets[i].item
  <2> SUFFICES ASSUME NEW i \in 1..N
               PROVE  /\ buckets'[i].key = buckets[i].key
                      /\ buckets'[i].item = IF i = p THEN v ELSE buckets[i].item
    OBVIOUS
  <2>1. buckets[i] \in Bucket
    BY Parts DEF IInv
  <2>2. buckets'[i] = IF i = p THEN [buckets[p] EXCEPT !.item = v] ELSE buckets[i]
    BY <1>1, <1>3, <1>4
  <2> QED BY <2>1, <2>2 DEF Bucket
<1>6. Entries' = [i \in 1..N |-> [key |-> buckets[i].key,
                                value |-> IF i = p THEN v ELSE buckets[i].item]]
  BY <1>4, <1>5 DEF Entries
<1>7. Entries' = [Entries EXCEPT ![p].value = v]
  <2>1. Entries = [i \in 1..N |-> [key |-> buckets[i].key, value |-> buckets[i].item]]
    BY <1>4 DEF Entries
  <2>2. \A i \in 1..N : [Entries EXCEPT ![p].value = v][i] = Entries'[i]
    BY <1>1, <1>6, <2>1
  <2> QED BY <1>6, <2>1, <2>2
<1>8. Position' = Position
  BY <1>3, <1>4 DEF Position
<1>9. M!Put(k, v)
  BY <1>1, <1>3, <1>7, <1>8 DEF Return, M!Put, Position
<1> QED BY <1>1, <1>2, <1>9 DEF M!Next

LEMMA SetMissingMaps ==
    ASSUME IInv, SetItem, ~Found, Plain, mask' = MINMASK
    PROVE  M!Next
<1> DEFINE k == call.key
           v == call.value
<1>1. Missing /\ Insert(k, v) /\ Return(0, NULL)
  BY DEF SetItem
<1>2. k \in Hashable /\ k \in Key /\ v \in Value /\ N < MaxBuckets
  BY <1>1, HashNat DEF IInv, Called, Missing, SetItem
<1>3. M!Places(k) = {}
  BY <1>1, MissingIsNowhere
<1> HIDE DEF k, v
<1>4. /\ N \in Nat /\ N' = N + 1 /\ DOMAIN buckets = 1..N /\ DOMAIN buckets' = 1..N + 1
      /\ \A i \in 1..N : buckets'[i] = buckets[i]
      /\ buckets'[N + 1].key = k /\ buckets'[N + 1].item = v
  BY <1>1, <1>2, Appended, Parts DEF IInv
<1> DEFINE e == [key |-> k, value |-> v]
<1>5. Entries' = [i \in 1..N + 1 |-> IF i = N + 1 THEN e ELSE Entries[i]]
  <2>1. Entries' = [i \in 1..N + 1 |-> [key |-> buckets'[i].key, value |-> buckets'[i].item]]
    BY <1>4 DEF Entries
  <2>2. \A i \in 1..N + 1 : [key |-> buckets'[i].key, value |-> buckets'[i].item]
                                = IF i = N + 1 THEN e ELSE Entries[i]
    <3> SUFFICES ASSUME NEW i \in 1..N + 1
                 PROVE  [key |-> buckets'[i].key, value |-> buckets'[i].item]
                                = IF i = N + 1 THEN e ELSE Entries[i]
      OBVIOUS
    <3>1. CASE i = N + 1
      BY <1>4, <3>1
    <3>2. CASE i # N + 1
      <4>1. i \in 1..N
        BY <1>4, <3>2
      <4> QED BY <1>4, <3>2, <4>1, EntryFacts DEF IInv
    <3> QED BY <3>1, <3>2
  <2> HIDE DEF e
  <2> QED BY <2>1, <2>2
<1>6. Entries' = Append(Entries, e)
  <2> DEFINE E == [key : Key \cup {DUMMY}, value : Value]
  <2>1. e \in E
    BY <1>2
  <2>2. Entries \in Seq(E) /\ Len(Entries) = N
    BY EntryFacts DEF IInv
  <2> HIDE DEF E, e
  <2>3. DOMAIN Append(Entries, e) = 1..N + 1 /\ Append(Entries, e) \in Seq(E)
    BY <1>4, <2>1, <2>2
  <2>4. \A i \in 1..N + 1 : Append(Entries, e)[i] = IF i = N + 1 THEN e ELSE Entries[i]
    BY <1>4, <2>1, <2>2
  <2>5. Entries' \in Seq(E) /\ Len(Entries') = N + 1
    BY <1>4, <1>5, <2>1, <2>2
  <2>6. Append(Entries, e) \in Seq(E) /\ Len(Append(Entries, e)) = N + 1
    BY <2>1, <2>2
  <2>7. \A i \in 1..N + 1 : Entries'[i] = Append(Entries, e)[i]
    BY <1>5, <2>4
  <2> QED BY <2>5, <2>6, <2>7, SeqEqual
<1>7. Position' = Position
  <2>1. cursor \in 0..N /\ cursor' = IF cursor = 0 THEN N + 1 ELSE cursor
    BY <1>1, <1>4 DEF IInv, Pointed, Pointer, N, Missing, Insert
  <2>2. Position = IF cursor \in 1..N THEN cursor ELSE N + 1
    BY <1>4 DEF Position, N
  <2>3. Position' = IF cursor' \in 1..N + 1 THEN cursor' ELSE N + 2
    BY <1>4 DEF Position, N
  <2> QED BY <1>4, <2>1, <2>2, <2>3
<1>8. M!Put(k, v)
  BY <1>1, <1>2, <1>3, <1>6, <1>7 DEF Return, M!Put, Position
<1> QED BY <1>2, <1>8 DEF M!Next

LEMMA DelItemMaps ==
    ASSUME IInv, DelItem, Plain
    PROVE  M!Next
<1>1. CASE Missing /\ Return(-1, NULL) /\ UNCHANGED <<buckets, num>>
  <2>1. Entries' = Entries /\ Position' = Position
    BY <1>1, SameView DEF DelItem
  <2>2. M!Fail
    BY <1>1, <2>1, MissingIsNowhere DEF Return, M!Fail, Position
  <2> QED BY <2>2 DEF M!Next
<1>2. CASE /\ Found
           /\ buckets' = [buckets EXCEPT ![p].key = DUMMY]
           /\ Return(0, NULL)
  <2>1. p \in 1..N /\ p \in M!Places(call.key) /\ call.key \in Key
    BY <1>2, FoundIsPlace
  <2>2. UNCHANGED cursor
    BY DEF DelItem
  <2>3. DOMAIN buckets' = 1..N /\ DOMAIN buckets = 1..N /\ Len(buckets') = N /\ Len(buckets) = N
    BY <1>2, <2>1, Parts DEF IInv, TypeOK, N
  <2>4. \A i \in 1..N : /\ buckets'[i].item = buckets[i].item
                       /\ buckets'[i].key = IF i = p THEN DUMMY ELSE buckets[i].key
    <3> SUFFICES ASSUME NEW i \in 1..N
                 PROVE  /\ buckets'[i].item = buckets[i].item
                        /\ buckets'[i].key = IF i = p THEN DUMMY ELSE buckets[i].key
      OBVIOUS
    <3>1. buckets[i] \in Bucket
      BY Parts DEF IInv
    <3>2. buckets'[i] = IF i = p THEN [buckets[p] EXCEPT !.key = DUMMY] ELSE buckets[i]
      BY <1>2, <2>1, <2>3
    <3> QED BY <3>1, <3>2 DEF Bucket
  <2>5. Entries' = [i \in 1..N |-> [key |-> IF i = p THEN DUMMY ELSE buckets[i].key,
                                  value |-> buckets[i].item]]
    BY <2>3, <2>4 DEF Entries
  <2>6. Entries' = [Entries EXCEPT ![p].key = DUMMY]
    <3>1. Entries = [i \in 1..N |-> [key |-> buckets[i].key, value |-> buckets[i].item]]
      BY <2>3 DEF Entries
    <3>2. \A i \in 1..N : [Entries EXCEPT ![p].key = DUMMY][i] = Entries'[i]
      BY <2>1, <2>5, <3>1
    <3> QED BY <2>5, <3>1, <3>2
  <2>7. Position' = Position
    BY <2>2, <2>3 DEF Position
  <2>8. M!Remove(call.key)
    BY <1>2, <2>1, <2>6, <2>7 DEF Return, M!Remove, Position
  <2> QED BY <2>1, <2>8 DEF M!Next
<1> QED BY <1>1, <1>2 DEF DelItem

LEMMA IterateMaps ==
    ASSUME IInv, Iterate
    PROVE  M!Next
<1>1. /\ cursor \in 0..N /\ N \in Nat /\ DOMAIN buckets = 1..N /\ UNCHANGED buckets
  BY Parts DEF IInv, Pointed, Pointer, N, Iterate
<1>2. Entries' = Entries
  BY <1>1 DEF Entries
<1>3. CASE cursor = 0
  <2>1. Position = N + 1 /\ Position' = N + 1
    BY <1>1, <1>3 DEF Position, N, Iterate
  <2>2. M!Fail
    BY <1>1, <1>2, <1>3, <2>1, EntryFacts DEF Iterate, M!Fail, Position, IInv
  <2> QED BY <2>2 DEF M!Next
<1>4. CASE cursor # 0
  <2>1. cursor \in 1..N /\ Position = cursor
    BY <1>1, <1>4 DEF Position
  <2>2. Position' = cursor + 1
    <3>1. cursor' = IF cursor = N THEN 0 ELSE cursor + 1
      BY <1>4 DEF N, Iterate
    <3>2. Position' = IF cursor' \in 1..N THEN cursor' ELSE N + 1
      BY <1>1 DEF Position, N
    <3>3. CASE cursor = N
      BY <1>1, <3>1, <3>2, <3>3
    <3>4. CASE cursor # N
      <4>1. cursor' = cursor + 1 /\ cursor + 1 \in 1..N
        BY <1>1, <2>1, <3>1, <3>4
      <4> QED BY <3>2, <4>1
    <3> QED BY <3>3, <3>4
  <2>3. result' = <<0, Entries[cursor].key, Entries[cursor].value>>
    BY <1>4, <2>1, EntryFacts DEF Iterate, IInv
  <2>4. cursor \in DOMAIN Entries
    BY <2>1, EntryFacts DEF IInv
  <2>5. M!Iterate
    BY <1>2, <2>1, <2>2, <2>3, <2>4 DEF M!Iterate, Position
  <2> QED BY <2>5 DEF M!Next
<1> QED BY <1>3, <1>4

LEMMA RewindMaps ==
    ASSUME IInv, Rewind
    PROVE  M!Next
<1>1. DOMAIN buckets = 1..N /\ N \in Nat /\ UNCHANGED buckets
  BY Parts DEF IInv, Rewind
<1>2. Entries' = Entries
  BY <1>1 DEF Entries
<1>3. Position' = 1
  <2>1. CASE buckets = <<>>
    BY <1>1, <2>1 DEF Position, Rewind, N
  <2>2. CASE buckets # <<>>
    <3>1. N # 0
      BY <2>2 DEF IInv, TypeOK, N
    <3> QED BY <1>1, <2>2, <3>1 DEF Position, Rewind
  <2> QED BY <2>1, <2>2
<1>4. M!Rewind
  BY <1>2, <1>3 DEF Rewind, M!Rewind, Position
<1> QED BY <1>4 DEF M!Next

LEMMA SizeMaps ==
    ASSUME IInv, Size
    PROVE  M!Next
<1>1. Entries' = Entries /\ Position' = Position
  BY SameView DEF Size, list
<1>2. Kept = {i \in DOMAIN Entries : Entries[i].key # DUMMY}
  BY EntryFacts, Parts DEF Kept, IInv
<1>3. M!Cardinality(Kept) = Cardinality(Kept)
  BY Zenon DEF M!Cardinality, Cardinality
<1>4. M!Size
  BY <1>1, <1>2, <1>3 DEF Size, M!Size, IInv, Counted, Position
<1> QED BY <1>4 DEF M!Next

LEMMA ClearMaps ==
    ASSUME IInv, Clear
    PROVE  M!Next
<1>1. Entries' = <<>> /\ Position' = 1
  BY DEF Clear, Entries, Position
<1>2. M!Clear
  BY <1>1 DEF Clear, M!Clear, Position
<1> QED BY <1>2 DEF M!Next

LEMMA RecreateMaps ==
    ASSUME IInv, Recreate
    PROVE  UNCHANGED M!vars
<1>1. buckets = <<>> /\ buckets' = <<>> /\ UNCHANGED result
  BY DEF IInv, Pointed, Recreate
<1>2. Entries' = Entries /\ Position' = Position
  BY <1>1 DEF Entries, Position
<1> QED BY <1>1, <1>2 DEF M!vars, Position

\* A dict that has grown does not shrink before it is made anew.
LEMMA GrownStays ==
    ASSUME IInv, [Next]_vars, mask # MINMASK, ~Recreate
    PROVE  mask' # MINMASK
<1>1. mask' = mask \/ mask' = 2 * mask
  BY DEF Next, Lookup, Call, Advance, Spin, GetItem, SetItem, DelItem, Insert, Iterate, Rewind,
         Size, Clear, list, vars
<1> QED BY <1>1, SizeAssumption DEF IInv, TypeOK

\* A step of the dict is a step of the map, or none, until the table grows.
LEMMA StepMaps ==
    ASSUME DistinctHashes, IInv, [Next]_vars
    PROVE  [M!Next \/ mask' # MINMASK]_<<M!vars>>
<1> SUFFICES ASSUME mask' = MINMASK
             PROVE  M!Next \/ UNCHANGED M!vars
  BY DEF M!vars
<1>1. CASE Recreate
  BY <1>1, RecreateMaps
<1>2. CASE ~Recreate
  <2>1. Plain
    BY <1>2, GrownStays DEF Plain
  <2>2. ASSUME NEW k \in Key, Call("get", k, NULL) \/ Call("del", k, NULL)
        PROVE  M!Next \/ UNCHANGED M!vars
    BY <2>2, CallMaps
  <2>3. ASSUME NEW k \in Key, NEW v \in Value, Call("set", k, v)
        PROVE  M!Next \/ UNCHANGED M!vars
    BY <2>3, CallMaps
  <2>4. CASE Advance \/ Spin
    <3>1. Entries' = Entries /\ Position' = Position /\ result' = result
      BY <2>4, SameView DEF Advance, Spin, list
    <3> QED BY <3>1 DEF M!vars, Position
  <2>5. CASE GetItem \/ SetItem \/ DelItem
    BY <2>1, <2>5, GetItemMaps, SetFoundMaps, SetMissingMaps, DelItemMaps
  <2>6. CASE Iterate \/ Rewind \/ Size \/ Clear
    BY <2>6, IterateMaps, RewindMaps, SizeMaps, ClearMaps
  <2>7. CASE UNCHANGED vars
    <3>1. Entries' = Entries /\ Position' = Position /\ result' = result
      BY <2>7, SameView DEF vars
    <3> QED BY <3>1 DEF M!vars, Position
  <2> QED BY <1>2, <2>2, <2>3, <2>4, <2>5, <2>6, <2>7 DEF Next, Lookup
<1> QED BY <1>1, <1>2

\* The hash table of dictobject.c implements a map with insertion order, for every set of
\* keys with distinct hashes and every number of slots, as long as the table has not
\* grown: what is read is what was last written, nothing is lost or found twice, the
\* iteration follows the order of insertion and the size is the number of keys.
THEOREM MapImplemented ==
    ASSUME DistinctHashes
    PROVE  Spec => ImplementsMap
<1>1. Init => M!Init
  BY MapInit
<1>2. IInv /\ [Next]_vars => [M!Next \/ mask' # MINMASK]_<<M!vars>>
  BY StepMaps
<1> QED BY <1>1, <1>2, Invariance, PTL DEF Spec, ImplementsMap

-----------------------------------------------------------------------------
(* Dicts, sets and lists side by side *)

LP == INSTANCE ListsProofs WITH
        Item <- Value, items <- lItems, size <- lSize, count <- lCount, refs <- lRefs,
        held <- lHeld, index <- lIndex, use <- lUse, result <- lResult

Step == DictStep \/ SetStep \/ ListStep

-----------------------------------------------------------------------------
(* Sets *)

\* A place of a walk: an entry, and what is left of the hash.
Places == (0..SETMASK) \X Nat

WalkStart(k) == <<MemberHash[k] % (SETMASK + 1), MemberHash[k]>>

Onward(s) == <<(5 * s[1] + s[2] + 1) % (SETMASK + 1), s[2] \div 2^S!PERTURB_SHIFT>>

\* The walk for k stays in W until it finds k, and finds no empty entry before.
Way(k, W) ==
    /\ WalkStart(k) \in W
    /\ \A s \in W : sTable[s[1]] # NULL /\ (sTable[s[1]] # k => Onward(s) \in W)

Here == <<sI, sPerturb>>

\* P is the way the lookup has come.
Walked(P) ==
    /\ WalkStart(sKey) \in P \cup {Here}
    /\ \A s \in P : sTable[s[1]] \notin {NULL, sKey} /\ Onward(s) \in P \cup {Here}

(* The inductive invariant *)

SetTyped ==
    /\ sTable \in [0..SETMASK -> Member \cup {NULL}]
    /\ sGiven \in SUBSET Member
    /\ sUsed \in Int
    /\ sPc \in {"run", "probe", "failed", "abort"}
    /\ sPc = "probe" => sKey \in Member /\ sI \in 0..SETMASK /\ sPerturb \in Nat

SetExactly ==
    /\ {sTable[x] : x \in 0..SETMASK} \ {NULL} = sGiven
    /\ sUsed = Cardinality(sGiven)
    /\ \A x, y \in 0..SETMASK : sTable[x] = sTable[y] /\ sTable[x] # NULL => x = y

\* Every element can be found,
Findable == \A k \in sGiven : \E W \in SUBSET Places : Way(k, W)

\* and a lookup is on its way.
Walking ==
    sPc = "probe" =>
        /\ \E P \in SUBSET Places : Walked(P)
        /\ \A W \in SUBSET Places : Way(sKey, W) => Here \in W

SetInv == SetTyped /\ SetExactly /\ Findable /\ Walking

-----------------------------------------------------------------------------

LEMMA StartPlace ==
    ASSUME S!SetAssumption, NEW k \in Member
    PROVE  WalkStart(k) \in Places
<1>1. MemberHash[k] \in Nat /\ SETMASK \in Nat
    BY DEF S!SetAssumption
<1>2. MemberHash[k] % (SETMASK + 1) \in 0..SETMASK
    BY <1>1
<1> QED
    BY <1>1, <1>2 DEF WalkStart, Places

LEMMA OnwardPlace ==
    ASSUME S!SetAssumption, NEW s \in Places
    PROVE  Onward(s) \in Places
<1>1. s[1] \in 0..SETMASK /\ s[2] \in Nat /\ SETMASK \in Nat
    BY DEF S!SetAssumption, Places
<1>2. 5 * s[1] + s[2] + 1 \in Nat /\ s[2] \div 2^5 \in Nat
    BY <1>1
<1>3. (5 * s[1] + s[2] + 1) % (SETMASK + 1) \in 0..SETMASK
    BY <1>1, <1>2
<1> QED
    BY <1>2, <1>3 DEF Onward, Places, S!PERTURB_SHIFT

\* The elements of a set are as many as its entries in use: a finite number.
LEMMA GivenFinite ==
    ASSUME S!SetAssumption, SetTyped, SetExactly
    PROVE  IsFiniteSet(sGiven) /\ Cardinality(sGiven) \in Nat
<1> DEFINE all == {sTable[x] : x \in 0..SETMASK}
<1>1. IsFiniteSet(0..SETMASK)
    BY FS_Interval DEF S!SetAssumption
<1>2. sTable \in Surjection(0..SETMASK, all)
    BY DEF Surjection, SetTyped
<1>3. IsFiniteSet(all)
    BY <1>1, <1>2, FS_Surjection
<1>4. sGiven \subseteq all
    BY DEF SetExactly
<1> QED
    BY <1>3, <1>4, FS_Subset, FS_CardinalityType

LEMMA EmptySet ==
    ASSUME S!SetAssumption, sTable' = [x \in 0..SETMASK |-> NULL], sUsed' = 0, sGiven' = {}, sPc' = "run"
    PROVE  SetInv'
<1>1. SetTyped'
    BY DEF SetTyped
<1>2. {sTable'[x] : x \in 0..SETMASK} \subseteq {NULL}
    OBVIOUS
<1>3. SetExactly'
    BY <1>2, FS_EmptySet DEF SetExactly
<1>4. Findable' /\ Walking'
    BY DEF Findable, Walking
<1> QED
    BY <1>1, <1>3, <1>4 DEF SetInv

LEMMA SetInit == S!SetAssumption /\ S!Init => SetInv
<1> SUFFICES ASSUME S!SetAssumption, S!Init PROVE SetInv
    OBVIOUS
<1>1. SetTyped
    BY DEF S!Init, SetTyped
<1>2. SetExactly
  <2>1. {sTable[x] : x \in 0..SETMASK} \subseteq {NULL}
      BY DEF S!Init
  <2> QED
      BY <2>1, FS_EmptySet DEF S!Init, SetExactly
<1>3. Findable /\ Walking
    BY DEF S!Init, Findable, Walking
<1> QED
    BY <1>1, <1>2, <1>3 DEF SetInv

LEMMA SetAdd ==
    ASSUME S!SetAssumption, SetInv, NEW k \in Member, S!Add(k)
    PROVE  SetInv'
<1> USE DEF SetInv
<1>1. UNCHANGED <<sTable, sUsed, sGiven>>
    BY DEF S!Add
<1>2. SetExactly' /\ Findable'
    BY <1>1 DEF SetExactly, Findable, Way
<1>3. CASE sPc' = "abort"
    BY <1>1, <1>2, <1>3 DEF SetTyped, Walking
<1>4. CASE sPc' # "abort"
  <2>1. sPc' = "probe" /\ sKey' = k /\ sI' = MemberHash[k] % (SETMASK + 1) /\ sPerturb' = MemberHash[k]
      BY <1>4 DEF S!Add
  <2>2. Here' = WalkStart(sKey')
      BY <2>1 DEF Here, WalkStart
  <2>3. Here' \in Places
      BY <2>1, <2>2, StartPlace
  <2>4. SetTyped'
      BY <1>1, <2>1, <2>3 DEF SetTyped, Here, Places
  <2>5. Walking'
    <3>1. Walked({})'
        BY <2>2 DEF Walked
    <3>2. \A W \in SUBSET Places : Way(sKey, W)' => Here' \in W
        BY <2>2 DEF Way
    <3> QED
        BY <3>1, <3>2 DEF Walking
  <2> QED
      BY <1>2, <2>4, <2>5
<1> QED
    BY <1>3, <1>4

LEMMA SetProbe ==
    ASSUME S!SetAssumption, SetInv, S!Probe
    PROVE  SetInv'
<1> USE DEF SetInv
<1>1. /\ sPc = "probe" /\ sTable[sI] \notin {NULL, sKey} /\ UNCHANGED <<sTable, sUsed, sGiven, sPc, sKey>>
      /\ Here' = Onward(Here) /\ Here[1] = sI
    BY DEF S!Probe, Here, Onward
<1>2. Here \in Places /\ Here' \in Places
    BY <1>1, OnwardPlace DEF SetTyped, Here, Places
<1>3. SetTyped' /\ SetExactly' /\ Findable'
    BY <1>1, <1>2 DEF SetTyped, SetExactly, Findable, Way, Here, Places
<1>4. Walking'
  <2>1. PICK P \in SUBSET Places : Walked(P)
      BY <1>1 DEF Walking
  <2>2. PICK h \in Places : h = Here
      BY <1>2
  <2>3. Walked(P \cup {h})'
      BY <1>1, <2>1, <2>2 DEF Walked, WalkStart
  <2>4. P \cup {h} \in SUBSET Places
      OBVIOUS
  <2>5. \A W \in SUBSET Places : Way(sKey, W)' => Way(sKey, W)
      BY <1>1 DEF Way, WalkStart
  <2>6. \A W \in SUBSET Places : Way(sKey, W) => Here' \in W
      BY <1>1 DEF Way, Walking
  <2>7. \A W \in SUBSET Places : Way(sKey, W)' => Here' \in W
      BY <2>5, <2>6
  <2> QED
      BY <2>3, <2>4, <2>7 DEF Walking
<1> QED
    BY <1>3, <1>4

\* An empty entry on the way means that sKey is new.
LEMMA NewKey ==
    ASSUME SetInv, sPc = "probe", sTable[sI] = NULL
    PROVE  sKey \notin sGiven
BY DEF SetInv, Findable, Walking, Way, Here

LEMMA SetInsert ==
    ASSUME S!SetAssumption, SetInv, S!InsertKey
    PROVE  SetInv'
<1> USE DEF SetInv
<1>1. sPc = "probe" /\ sPc' = "run" /\ sGiven' = sGiven \cup {sKey} /\ sKey \in Member /\ sI \in 0..SETMASK
    BY DEF S!InsertKey, S!Return, SetTyped
<1>2. Walking'
    BY <1>1 DEF Walking
<1>3. CASE sTable[sI] = NULL
  <2>1. sTable' = [sTable EXCEPT ![sI] = sKey] /\ sUsed' = sUsed + 1
      BY <1>1, <1>3 DEF S!InsertKey, S!SetAssumption
  <2>2. sKey \notin sGiven /\ sKey # NULL
      BY <1>1, <1>3, NewKey DEF S!SetAssumption
  <2>3. \A x \in 0..SETMASK : sTable'[x] = IF x = sI THEN sKey ELSE sTable[x]
      BY <2>1 DEF SetTyped
  <2>4. SetTyped'
      BY <1>1, <2>1 DEF SetTyped
  <2>5. SetExactly'
    <3>1. {sTable'[x] : x \in 0..SETMASK} \ {NULL} = sGiven'
        BY <1>1, <1>3, <2>2, <2>3 DEF SetExactly
    <3>2. \A x \in 0..SETMASK : sTable[x] # sKey
        BY <2>2 DEF SetExactly
    <3>3. \A x, y \in 0..SETMASK : sTable'[x] = sTable'[y] /\ sTable'[x] # NULL => x = y
        BY <2>3, <3>2 DEF SetExactly
    <3>4. Cardinality(sGiven') = Cardinality(sGiven) + 1
        BY <1>1, <2>2, GivenFinite, FS_AddElement
    <3> QED
        BY <2>1, <3>1, <3>3, <3>4 DEF SetExactly
  <2>6. ASSUME NEW k \in sGiven
        PROVE  \E W \in SUBSET Places : Way(k, W)'
    <3>1. PICK W \in SUBSET Places : Way(k, W)
        BY DEF Findable
    <3>2. \A s \in W : s[1] \in 0..SETMASK /\ s[1] # sI
        BY <1>3, <3>1 DEF Way, Places
    <3>3. Way(k, W)'
        BY <2>3, <3>1, <3>2 DEF Way, WalkStart
    <3> QED
        BY <3>3
  <2>7. ASSUME NEW k \in Member, k = sKey
        PROVE  \E W \in SUBSET Places : Way(k, W)'
    <3>1. PICK P \in SUBSET Places : Walked(P)
        BY <1>1 DEF Walking
    <3>2. PICK h \in Places : h = Here
        BY <1>1 DEF Here, Places, SetTyped
    <3>4. h[1] = sI /\ \A s \in P : s[1] \in 0..SETMASK /\ s[1] # sI
        BY <1>3, <3>1, <3>2 DEF Walked, Places, Here
    <3>5. Way(k, P \cup {h})'
      <4>1. sTable'[sI] = k /\ \A s \in P : sTable'[s[1]] = sTable[s[1]]
          BY <1>1, <2>3, <2>7, <3>4
      <4>2. WalkStart(k) \in P \cup {h}
          BY <2>7, <3>1, <3>2 DEF Walked
      <4>3. \A s \in P : sTable'[s[1]] # NULL /\ Onward(s) \in P \cup {h}
          BY <3>1, <3>2, <4>1 DEF Walked
      <4>4. sTable'[h[1]] = k /\ k # NULL
          BY <3>4, <4>1 DEF S!SetAssumption
      <4> QED
          BY <4>2, <4>3, <4>4 DEF Way, WalkStart
    <3> QED
        BY <3>5
  <2> QED
      BY <1>1, <1>2, <2>4, <2>5, <2>6, <2>7 DEF Findable
<1>4. CASE sTable[sI] = sKey
  <2>1. UNCHANGED <<sTable, sUsed>>
      BY <1>1, <1>4 DEF S!InsertKey, S!SetAssumption
  <2>2. sGiven' = sGiven
      BY <1>1, <1>4 DEF SetExactly, S!SetAssumption
  <2>3. SetTyped' /\ SetExactly' /\ Findable'
      BY <1>1, <2>1, <2>2 DEF SetTyped, SetExactly, Findable, Way
  <2> QED
      BY <1>2, <2>3
<1> QED
    BY <1>3, <1>4 DEF S!InsertKey

LEMMA SetNext ==
    ASSUME S!SetAssumption, SetInv, [S!Next]_sVars
    PROVE  SetInv'
<1>1. ASSUME S!Fail
      PROVE  SetInv'
  <2>1. sPc' = "failed" /\ UNCHANGED <<sTable, sUsed, sGiven>>
      BY <1>1 DEF S!Fail
  <2> QED
      BY <2>1 DEF SetInv, SetTyped, SetExactly, Findable, Way, Walking
<1>2. ASSUME S!New
      PROVE  SetInv'
    BY <1>2, EmptySet DEF S!New
<1>3. ASSUME UNCHANGED sVars
      PROVE  SetInv'
  <2>1. SetInv
      OBVIOUS
  <2> QED
      BY <1>3, <2>1 DEF sVars, SetInv, SetTyped, SetExactly, Findable, Way, Walking, Walked, Here
<1> QED
    BY <1>1, <1>2, <1>3, SetAdd, SetProbe, SetInsert DEF S!Next, S!Lookup

-----------------------------------------------------------------------------
(* Lists *)

LEMMA ListInit == L!Init => LP!Init
BY DEF L!Init, LP!Init

LEMMA SameTimes ==
    /\ \A x, s : L!Times(x, s) = LP!Times(x, s)
    /\ L!Elements = LP!Elements
    /\ L!Element = LP!Element /\ L!Literals = LP!Literals
BY DEF L!Times, LP!Times, L!Cardinality, LP!Cardinality, L!Elements, LP!Elements,
       L!Element, LP!Element, L!Literals, LP!Literals

LEMMA SameDealloc ==
    /\ [x \in Value |-> lRefs[x] - L!Times(x, L!Elements)]
            = [x \in Value |-> lRefs[x] - LP!Times(x, LP!Elements)]
    /\ L!Dealloc <=> LP!Dealloc
<1>1. [x \in Value |-> lRefs[x] - L!Times(x, L!Elements)]
        = [x \in Value |-> lRefs[x] - LP!Times(x, LP!Elements)]
    BY SameTimes
<1> QED
    BY <1>1 DEF L!Dealloc, LP!Dealloc

LEMMA ListNext == L!Next => LP!Next
<1>1. \A xs : L!BuildList(xs) => LP!BuildList(xs)
  <2>1. \A xs : [x \in Value |-> L!Times(x, xs)] = [x \in Value |-> LP!Times(x, xs)]
      BY SameTimes
  <2> QED
      BY <2>1 DEF L!BuildList, LP!BuildList
<1>2. L!COList_New => LP!COList_New
    BY DEF L!COList_New, LP!COList_New
<1>3. \A x : L!COList_Append(x) => LP!COList_Append(x)
    BY DEF L!COList_Append, LP!COList_Append, L!COList_Insert, LP!COList_Insert,
           L!list_resize, LP!list_resize, L!Counted, LP!Counted, L!Failed,
           LP!Failed, L!Corrupt, LP!Corrupt
<1>4. \A i : L!COList_GetItem(i) => LP!COList_GetItem(i)
    BY DEF L!COList_GetItem, LP!COList_GetItem, L!Failed, LP!Failed
<1>5. \A i : L!COList_DelItem(i) => LP!COList_DelItem(i)
    BY DEF L!COList_DelItem, LP!COList_DelItem, L!Counted, LP!Counted, L!Failed,
           LP!Failed, L!Corrupt, LP!Corrupt, L!list_resize, LP!list_resize
<1>6. \A i, x : L!COList_SetItem(i, x) => LP!COList_SetItem(i, x)
    BY DEF L!COList_SetItem, LP!COList_SetItem, L!Counted, LP!Counted, L!Failed,
           LP!Failed, L!Corrupt, LP!Corrupt
<1>7. \A i : L!list_subscript(i) => LP!list_subscript(i)
    BY DEF L!list_subscript, LP!list_subscript, L!COList_GetItem, LP!COList_GetItem,
           L!Failed, LP!Failed
<1>8. L!list_iter => LP!list_iter
    BY DEF L!list_iter, LP!list_iter
<1>9. L!listiter_next => LP!listiter_next
    BY SameDealloc DEF L!listiter_next, LP!listiter_next, L!Release, LP!Release,
                       L!Corrupt, LP!Corrupt
<1>10. L!listiter_dealloc => LP!listiter_dealloc
    BY DEF L!listiter_dealloc, LP!listiter_dealloc, L!Corrupt, LP!Corrupt
<1>11. L!Drop => LP!Drop
    BY SameDealloc DEF L!Drop, LP!Drop, L!Release, LP!Release
<1>12. L!list_clear => LP!list_clear
    BY SameTimes, SameDealloc DEF L!list_clear, LP!list_clear
<1> QED
    BY <1>1, <1>2, <1>3, <1>4, <1>5, <1>6, <1>7, <1>8, <1>9, <1>10, <1>11, <1>12, SameTimes
       DEF L!Next, LP!Next

LEMMA SameAbstractList ==
    /\ LP!AbstractList!Init => L!AbstractList!Init
    /\ LP!AbstractList!Next => L!AbstractList!Next
    /\ L!AbstractList!vars = LP!AbstractList!vars
<1>0. L!Elements' = LP!Elements'
    BY DEF L!Elements, LP!Elements
<1>1. LP!AbstractList!Init => L!AbstractList!Init
    BY SameTimes DEF L!AbstractList!Init, LP!AbstractList!Init
<1>2. L!AbstractList!vars = LP!AbstractList!vars
    BY SameTimes DEF L!AbstractList!vars, LP!AbstractList!vars
<1>3. \A xs : LP!AbstractList!Make(xs) => L!AbstractList!Make(xs)
    BY <1>0, SameTimes DEF L!AbstractList!Make, LP!AbstractList!Make
<1>4. \A x : LP!AbstractList!Extend(x) => L!AbstractList!Extend(x)
    BY <1>0, SameTimes DEF L!AbstractList!Extend, LP!AbstractList!Extend
<1>5. \A i : LP!AbstractList!Remove(i) => L!AbstractList!Remove(i)
    BY <1>0, SameTimes DEF L!AbstractList!Remove, LP!AbstractList!Remove
<1>6. \A i, x : LP!AbstractList!Put(i, x) => L!AbstractList!Put(i, x)
    BY <1>0, SameTimes DEF L!AbstractList!Put, LP!AbstractList!Put
<1>7. \A i : LP!AbstractList!Get(i) => L!AbstractList!Get(i)
    BY <1>0, SameTimes DEF L!AbstractList!Get, LP!AbstractList!Get
<1>8. LP!AbstractList!Fail => L!AbstractList!Fail
    BY <1>0, SameTimes DEF L!AbstractList!Fail, LP!AbstractList!Fail
<1>9. LP!AbstractList!Loop => L!AbstractList!Loop
    BY <1>0, SameTimes DEF L!AbstractList!Loop, LP!AbstractList!Loop
<1>10. LP!AbstractList!Each => L!AbstractList!Each
    BY <1>0, SameTimes DEF L!AbstractList!Each, LP!AbstractList!Each
<1>11. LP!AbstractList!Done => L!AbstractList!Done
    BY <1>0, SameTimes DEF L!AbstractList!Done, LP!AbstractList!Done
<1>12. LP!AbstractList!Release => L!AbstractList!Release
    BY <1>0, SameTimes DEF L!AbstractList!Release, LP!AbstractList!Release
<1> QED
    BY <1>1, <1>2, <1>3, <1>4, <1>5, <1>6, <1>7, <1>8, <1>9, <1>10, <1>11, <1>12, SameTimes
       DEF L!AbstractList!Next, LP!AbstractList!Next

-----------------------------------------------------------------------------

LEMMA SetSteps == [Step]_allVars => [S!Next]_sVars
BY DEF Step, DictStep, SetStep, ListStep, NoSets, allVars

LEMMA ListSteps == [Step]_allVars => [LP!Next]_(LP!vars)
BY ListNext DEF Step, DictStep, SetStep, ListStep, NoList, allVars, lVars, LP!vars

LEMMA ListsRun == Tables => LP!Spec
<1>1. Start => LP!Init
    BY ListInit DEF Start
<1>2. [Step]_allVars => [LP!Next]_(LP!vars)
    BY ListSteps
<1> QED
    BY <1>1, <1>2, PTL DEF Tables, Step, LP!Spec

LEMMA SameListsAssumption == L!ListsAssumption => LP!ListsAssumption
BY DEF L!ListsAssumption, LP!ListsAssumption

\* A set holds the elements it was given, each of them once, in every program: whatever
\* their hashes and types, and the size of the table (set_lookkey, set_insert_key).
THEOREM SetsAreExact == ASSUME S!SetAssumption PROVE Tables => []SetExact
<1>1. Start => SetInv
    BY SetInit DEF Start
<1>2. SetInv /\ [Step]_allVars => SetInv'
    BY SetSteps, SetNext
<1>3. SetInv => SetExact
    BY DEF SetInv, SetExactly, SetExact, S!SetExact, S!Cardinality, Cardinality
<1> QED
    BY <1>1, <1>2, <1>3, PTL DEF Tables, Step

\* No append writes past the cells of a list, and no cell below co_size holds what realloc
\* left there, in every program and however long the list grows (list_resize,
\* COList_Insert).
THEOREM ListCellsAreValid == ASSUME L!ListsAssumption PROVE Tables => []CellsValid
<1>1. LP!Spec => []LP!CellsValid
    BY SameListsAssumption, LP!CellsAreValid
<1>2. LP!CellsValid => CellsValid
    BY SameTimes DEF LP!CellsValid, CellsValid, L!CellsValid
<1> QED
    BY <1>1, <1>2, ListsRun, PTL

\* The counts of a list, and those it gives its elements, are exact in every program, for
\* lists that contain themselves too (CO_INCREF and CO_DECREF in listobject.c).
THEOREM ListRefsAreExact == ASSUME L!ListsAssumption PROVE Tables => []RefsExact
<1>1. LP!Spec => []LP!RefsExact
    BY SameListsAssumption, LP!RefsAreExact
<1>2. LP!RefsExact => RefsExact
    BY SameTimes DEF LP!RefsExact, RefsExact, L!RefsExact
<1> QED
    BY <1>1, <1>2, ListsRun, PTL

\* In every program a list is the sequence that listobject.h promises, whatever cells are
\* spare, stale or rubbish: every step of the cells is a step of module List or none.
THEOREM ListsAreSequences == ASSUME L!ListsAssumption PROVE Tables => ImplementsList
<1>1. LP!Spec => LP!ImplementsList
    BY SameListsAssumption, LP!ListImplemented
<1>2. /\ LP!AbstractList!Init => L!AbstractList!Init
      /\ LP!AbstractList!Next => L!AbstractList!Next
      /\ L!AbstractList!vars = LP!AbstractList!vars
    BY SameAbstractList
<1>3. [LP!AbstractList!Next]_(LP!AbstractList!vars) => [L!AbstractList!Next]_(L!AbstractList!vars)
  <2>1. UNCHANGED LP!AbstractList!vars => UNCHANGED L!AbstractList!vars
      BY SameTimes DEF L!AbstractList!vars, LP!AbstractList!vars, L!Elements, LP!Elements
  <2> QED
      BY <1>2, <2>1
<1> QED
    BY <1>1, <1>2, <1>3, ListsRun, PTL
       DEF ImplementsList, L!ImplementsList, LP!ImplementsList, LP!AbstractList!Spec,
           L!AbstractList!Spec

=============================================================================
