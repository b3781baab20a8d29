---------------------------- MODULE MarshalProofs ----------------------------
(***************************************************************************)
(* Proofs about module Marshal, for every graph of objects, in whatever    *)
(* way they are shared: the bytes have room, a reference is found when it  *)
(* is read, and what is read equals what was written.                      *)
(*                                                                         *)
(* Why: what is written is a stream (Stream).  At each place where an      *)
(* object or a number begins, the stream knows the offset, the object that *)
(* was recorded last, and all that was still to be written.  The writer    *)
(* keeps it true (Written); the reader walks along the same places, and    *)
(* what its calls wait for is what was still to be written there (Calls).  *)
(* A reference is to the object recorded last (Latest), and that one the   *)
(* reader's dict finds, whatever it has lost (Found).  Every object in the *)
(* heap stands for one of the graph, and has what that one contains but    *)
(* for those whose calls are waiting (Heap).                               *)
(***************************************************************************)
EXTENDS Components, IntsProofs

Step == IntsStep \/ RangeStep \/ MarshalStep \/ ArenaStep \/ CodeStep

-----------------------------------------------------------------------------
(* The bytes and the dicts *)

\* The bytes of a sequence of tokens
Sized(T) == \A x \in T : x.n \in Nat

LEMMA BytesAre ==
    ASSUME NEW T, Sized(T), NEW s \in Seq(T)
    PROVE  \E f \in [0..Len(s) -> Nat] :
              /\ M!Bytes(s) = f[Len(s)]
              /\ \A i \in 0..Len(s) : f[i] = IF i = 0 THEN 0 ELSE f[i - 1] + s[i].n
<1> DEFINE n == Len(s)
           E(i, y) == y + s[i].n
           G == [i \in 0 + 1..n |-> [y \in Nat |-> E(i, y)]]
           Is(f) == f = [i \in 0..n |-> IF i = 0 THEN 0 ELSE E(i, f[i - 1])]
           h == CHOOSE f : Is(f)
<1>1. n \in Nat /\ n \in Int /\ 0 \in Int /\ 0 \in Nat /\ 0 <= n
    OBVIOUS
<1>2. M!Bytes(s) = h[n]
    BY DEF M!Bytes
<1>3. \A i \in 0 + 1..n : \A y \in Nat : E(i, y) \in Nat
  <2> TAKE i \in 0 + 1..n
  <2>1. s[i] \in T
      OBVIOUS
  <2>2. s[i].n \in Nat
      BY <2>1 DEF Sized
  <2> QED
      BY <2>2
<1>0. \A i, y : E(i, y) = y + s[i].n
    OBVIOUS
<1> HIDE DEF E
<1>5. Maps(G, 0, n, Nat)
    BY <1>1, <1>3 DEF Maps
<1>6. \A i \in 0..n : \A y \in Nat : i # 0 => G[i][y] = E(i, y)
    BY <1>1
<1> HIDE DEF G
<1>7. PICK f : f \in [0..n -> Nat] /\ Chained(f, 0, n, 0, G)
    BY <1>1, <1>5, Iteration, Zenon
<1>8. f = [i \in 0..n |-> IF i = 0 THEN 0 ELSE G[i][f[i - 1]]]
    BY <1>7 DEF Chained
<1>9. \A i \in 0..n : i # 0 => f[i - 1] \in Nat
    BY <1>1, <1>7
<1>10. Is(f)
    BY <1>6, <1>8, <1>9
<1>11. Is(h)
    BY <1>10
<1> HIDE DEF h
<1>12. h[0] \in Nat
    BY <1>1, <1>11
<1>13. ASSUME NEW i \in 0 + 1..n, h[i - 1] \in Nat
       PROVE  h[i] \in Nat
  <2>1. i \in 0..n /\ i # 0
      BY <1>1
  <2>2. h[i] = E(i, h[i - 1])
      BY <2>1, <1>11
  <2> QED
      BY <2>2, <1>13, <1>3
<1>14. \A i \in 0..n : h[i] \in Nat
    BY <1>1, <1>12, <1>13, Stays, Zenon
<1>15. h \in [0..n -> Nat] /\ \A i \in 0..n : h[i] = IF i = 0 THEN 0 ELSE h[i - 1] + s[i].n
    BY <1>11, <1>14, <1>0
<1> QED
    BY <1>2, <1>15

LEMMA BytesAdd ==
    ASSUME NEW T, Sized(T), NEW s \in Seq(T), NEW t \in Seq(T)
    PROVE  /\ M!Bytes(s) \in Nat /\ M!Bytes(t) \in Nat
           /\ M!Bytes(s \o t) = M!Bytes(s) + M!Bytes(t)
<1> DEFINE m == Len(s)
           n == Len(t)
<1>0. PICK u : u = s \o t
    OBVIOUS
<1>1. /\ u \in Seq(T) /\ Len(u) = m + n /\ m \in Nat /\ n \in Nat
      /\ \A i \in 1..m : u[i] = s[i]
      /\ \A i \in 1..n : u[m + i] = t[i]
    BY <1>0
<1> HIDE DEF m, n
<1>2. PICK f \in [0..m -> Nat] :
         M!Bytes(s) = f[m] /\ \A i \in 0..m : f[i] = IF i = 0 THEN 0 ELSE f[i - 1] + s[i].n
    BY BytesAre DEF m
<1>3. PICK g \in [0..n -> Nat] :
         M!Bytes(t) = g[n] /\ \A i \in 0..n : g[i] = IF i = 0 THEN 0 ELSE g[i - 1] + t[i].n
    BY BytesAre DEF n
<1>4. PICK h \in [0..m + n -> Nat] :
         M!Bytes(u) = h[m + n] /\ \A i \in 0..m + n : h[i] = IF i = 0 THEN 0 ELSE h[i - 1] + u[i].n
  <2>1. u \in Seq(T)
      BY <1>1
  <2>2. \E h \in [0..Len(u) -> Nat] :
           M!Bytes(u) = h[Len(u)] /\ \A i \in 0..Len(u) : h[i] = IF i = 0 THEN 0 ELSE h[i - 1] + u[i].n
      BY <2>1, BytesAre
  <2> QED
      BY <2>2, <1>1
<1> DEFINE S1 == {i \in Nat : i <= m => h[i] = f[i]}
           S2 == {i \in Nat : i <= n => h[m + i] = f[m] + g[i]}
<1>5. 0 \in S1
  <2>1. h[0] = 0 /\ f[0] = 0
      BY <1>1, <1>2, <1>4
  <2> QED
      BY <2>1
<1>6. ASSUME NEW i \in Nat, i \in S1
      PROVE  i + 1 \in S1
  <2> SUFFICES ASSUME i + 1 <= m
               PROVE  h[i + 1] = f[i + 1]
      OBVIOUS
  <2>1. i <= m /\ i + 1 \in 0..m /\ i + 1 \in 0..m + n /\ i + 1 \in 1..m /\ (i + 1) - 1 = i /\ i + 1 # 0
      BY <1>1
  <2>2. h[i] = f[i]
      BY <2>1, <1>6
  <2>3. h[i + 1] = h[i] + u[i + 1].n
      BY <2>1, <1>4
  <2>4. f[i + 1] = f[i] + s[i + 1].n
      BY <2>1, <1>2
  <2>5. u[i + 1] = s[i + 1]
      BY <2>1, <1>1
  <2> QED
      BY <2>2, <2>3, <2>4, <2>5
<1>7. h[m] = f[m]
  <2> HIDE DEF S1
  <2>1. m \in S1
      BY <1>1, <1>5, <1>6, Induction
  <2> QED
      BY <2>1, <1>1 DEF S1
<1>8. 0 \in S2
  <2>1. g[0] = 0 /\ f[m] \in Nat /\ m + 0 = m
      BY <1>1, <1>2, <1>3
  <2> QED
      BY <2>1, <1>7
<1>9. ASSUME NEW i \in Nat, i \in S2
      PROVE  i + 1 \in S2
  <2> SUFFICES ASSUME i + 1 <= n
               PROVE  h[m + (i + 1)] = f[m] + g[i + 1]
      OBVIOUS
  <2> DEFINE j == m + (i + 1)
  <2>1. /\ i <= n /\ i \in 0..n /\ i + 1 \in 0..n /\ i + 1 \in 1..n /\ (i + 1) - 1 = i /\ i + 1 # 0
        /\ j \in 0..m + n /\ j - 1 = m + i /\ j # 0 /\ m \in 0..m
    <3>1. m \in Nat /\ n \in Nat /\ i + 1 <= n
        BY <1>1
    <3>2. i <= n /\ i + 1 \in 1..n /\ (i + 1) - 1 = i
        BY <3>1
    <3>3. j \in Nat /\ j <= m + n /\ j - 1 = m + i /\ j # 0
        BY <3>1
    <3> QED
        BY <3>1, <3>2, <3>3
  <2>2. h[m + i] = f[m] + g[i]
      BY <2>1, <1>9
  <2>3. u[j] = t[i + 1]
      BY <2>1, <1>1
  <2> HIDE DEF j
  <2>4. h[j] = h[m + i] + u[j].n
      BY <2>1, <1>4
  <2>5. g[i + 1] = g[i] + t[i + 1].n
      BY <2>1, <1>3
  <2>6. t[i + 1] \in T
      BY <2>1 DEF n
  <2>7. t[i + 1].n \in Nat /\ g[i] \in Nat /\ f[m] \in Nat
      BY <2>1, <2>6, <1>2, <1>3 DEF Sized
  <2> QED
      BY <2>2, <2>3, <2>4, <2>5, <2>7 DEF j
<1>10. n \in S2
  <2> HIDE DEF S2
  <2> QED
      BY <1>1, <1>8, <1>9, Induction
<1>11. f[m] \in Nat /\ g[n] \in Nat
    BY <1>1
<1> QED
    BY <1>0, <1>1, <1>2, <1>3, <1>4, <1>10, <1>11

-----------------------------------------------------------------------------
\* A bytes object: the null byte has room, or there are no bytes yet.
Strings ==
    {s \in [size : Nat, alloc : Nat] : s.size < s.alloc \/ (s.size = 0 /\ s.alloc = 0)}

LEMMA ResizeIs ==
    ASSUME NEW s \in Strings, NEW size \in Nat
    PROVE  M!COBytes_Resize(s, size) \in Strings /\ M!COBytes_Resize(s, size).size = size
<1>1. s.size \in Nat /\ s.alloc \in Nat /\ s \in [size : Nat, alloc : Nat]
    BY DEF Strings
<1>2. CASE size = s.size
    BY <1>2 DEF M!COBytes_Resize
<1>3. CASE size # s.size /\ size >= s.alloc \div 2 /\ size < s.alloc
  <2> DEFINE t == [s EXCEPT !.size = size]
  <2>1. t \in [size : Nat, alloc : Nat] /\ t.size = size /\ t.alloc = s.alloc
      BY <1>1
  <2>2. M!COBytes_Resize(s, size) = t
      BY <1>3 DEF M!COBytes_Resize
  <2> QED
      BY <2>1, <2>2, <1>3 DEF Strings
<1>4. CASE size # s.size /\ ~ (size >= s.alloc \div 2 /\ size < s.alloc)
  <2> DEFINE t == [size |-> size, alloc |-> size + 1]
  <2>1. t \in Strings /\ t.size = size
      BY DEF Strings
  <2>2. M!COBytes_Resize(s, size) = t
      BY <1>4 DEF M!COBytes_Resize
  <2> QED
      BY <2>1, <2>2
<1> QED
    BY <1>2, <1>3, <1>4

LEMMA RoomIs ==
    ASSUME mStr \in Strings, mOffset \in Nat, mOffset <= mStr.size, MORE \in Nat \ {0}, NEW n \in Nat
    PROVE  M!Room(n) \in Strings /\ mOffset + n <= M!Room(n).size
<1> DEFINE E(k, s) == IF mOffset + k <= s.size THEN s
                      ELSE M!COBytes_Resize(s, s.size + s.size + MORE)
           G == [k \in 0 + 1..n |-> [s \in Strings |-> E(k, s)]]
           Is(f) == f = [k \in 0..n |-> IF k = 0 THEN mStr ELSE E(k, f[k - 1])]
           h == CHOOSE f : Is(f)
<1>1. n \in Int /\ 0 \in Int /\ 0 <= n
    OBVIOUS
<1>2. M!Room(n) = h[n]
    BY DEF M!Room
<1>3. \A k \in 0 + 1..n : \A s \in Strings :
        E(k, s) \in Strings /\ (mOffset + (k - 1) <= s.size => mOffset + k <= E(k, s).size)
  <2> TAKE k \in 0 + 1..n
  <2> TAKE s \in Strings
  <2> DEFINE more == s.size + s.size + MORE
  <2>1. s.size \in Nat /\ more \in Nat /\ k \in Nat
      BY DEF Strings
  <2>2. M!COBytes_Resize(s, more) \in Strings /\ M!COBytes_Resize(s, more).size = more
    <3> HIDE DEF more
    <3> QED
        BY <2>1, ResizeIs
  <2>3. mOffset + (k - 1) <= s.size => mOffset + k <= more
      BY <2>1
  <2> HIDE DEF more
  <2>4. E(k, s) = IF mOffset + k <= s.size THEN s ELSE M!COBytes_Resize(s, more)
      BY DEF more
  <2> QED
      BY <2>2, <2>3, <2>4
<1> HIDE DEF E
<1>5. Maps(G, 0, n, Strings)
    BY <1>1, <1>3 DEF Maps
<1>6. \A i \in 0..n : \A y \in Strings : i # 0 => G[i][y] = E(i, y)
    BY <1>1
<1> HIDE DEF G
<1>7. PICK f : f \in [0..n -> Strings] /\ Chained(f, 0, n, mStr, G)
    BY <1>1, <1>5, Iteration, Zenon
<1>8. f = [i \in 0..n |-> IF i = 0 THEN mStr ELSE G[i][f[i - 1]]]
    BY <1>7 DEF Chained
<1>9. \A i \in 0..n : i # 0 => f[i - 1] \in Strings
    BY <1>1, <1>7
<1>10. Is(f)
    BY <1>6, <1>8, <1>9
<1>11. Is(h)
    BY <1>10
<1> HIDE DEF h
<1> DEFINE S == {k \in Nat : k <= n => h[k] \in Strings /\ mOffset + k <= h[k].size}
<1>12. 0 \in S
  <2>1. h[0] = mStr
      BY <1>1, <1>11
  <2> QED
      BY <2>1
<1>13. ASSUME NEW k \in Nat, k \in S
       PROVE  k + 1 \in S
  <2> SUFFICES ASSUME k + 1 <= n
               PROVE  h[k + 1] \in Strings /\ mOffset + (k + 1) <= h[k + 1].size
      OBVIOUS
  <2>1. k <= n /\ k + 1 \in 0..n /\ k + 1 \in 0 + 1..n /\ k + 1 # 0 /\ (k + 1) - 1 = k
      OBVIOUS
  <2>2. h[k] \in Strings /\ mOffset + k <= h[k].size
      BY <2>1, <1>13
  <2>3. h[k + 1] = E(k + 1, h[k])
      BY <2>1, <1>11
  <2> QED
      BY <2>1, <2>2, <2>3, <1>3
<1>14. n \in S
  <2> HIDE DEF S
  <2> QED
      BY <1>12, <1>13, Induction
<1> QED
    BY <1>2, <1>14

\* A dict of marshal: buckets lead to earlier ones, the table is as long as the mask says.
Buckets == [key : Int, h : Nat, item : Int, next : Nat]

Sound(dict) ==
    /\ dict.buckets \in Seq(Buckets)
    /\ \A i \in 1..Len(dict.buckets) : dict.buckets[i].next < i
    /\ \E unit \in Nat \ {0} : dict.mask = (SLOTS - 1) * unit
    /\ dict.table \in [0..dict.mask -> 0..Len(dict.buckets)]

LEMMA SlotIs ==
    ASSUME NEW mask, NEW unit \in Nat \ {0}, NEW slots \in Nat \ {0}, mask = slots * unit, NEW h \in Nat
    PROVE  ((h \div (mask \div slots)) % (slots + 1)) * (mask \div slots) \in 0..mask
<1>1. mask \div slots = unit
  <2>1. mask \in Int /\ mask = slots * unit + 0 /\ unit \in Int /\ 0 \in Int /\ 0 <= 0 /\ 0 < slots
      OBVIOUS
  <2> QED
      BY <2>1, Quotient, Zenon
<1> DEFINE x == (h \div unit) % (slots + 1)
<1>2. x \in 0..slots
  <2>1. h \div unit \in Int
      BY Division
  <2>2. slots + 1 \in Nat \ {0} /\ (slots + 1) - 1 = slots
      OBVIOUS
  <2> QED
      BY <2>1, <2>2, Division
<1> HIDE DEF x
<1>3. x * unit <= slots * unit /\ x * unit \in Nat
  <2>1. unit * x <= unit * slots
      BY <1>2, Monotone
  <2> QED
      BY <2>1, <1>2
<1> QED
    BY <1>1, <1>3 DEF x

LEMMA SlotInTable ==
    ASSUME NEW mask, \E unit \in Nat \ {0} : mask = (SLOTS - 1) * unit,
           SLOTS - 1 \in Nat \ {0}, NEW h \in Nat
    PROVE  M!SlotOf(h, mask) \in 0..mask /\ mask \in Nat
<1> DEFINE slots == SLOTS - 1
<1>1. slots \in Nat \ {0} /\ SLOTS - 1 = slots
    OBVIOUS
<1>2. PICK unit \in Nat \ {0} : mask = slots * unit
    OBVIOUS
<1> HIDE DEF slots
<1>3. ((h \div (mask \div slots)) % (slots + 1)) * (mask \div slots) \in 0..mask
    BY <1>1, <1>2, SlotIs
<1>4. mask \in Nat
    BY <1>1, <1>2
<1> QED
    BY <1>1, <1>3, <1>4 DEF M!SlotOf

LEMMA NewIs ==
    ASSUME SLOTS - 1 \in Nat \ {0}
    PROVE  /\ Sound(M!CODict_New) /\ M!CODict_New.buckets = <<>>
           /\ \A slot \in 0..M!CODict_New.mask : M!CODict_New.table[slot] = 0
<1> DEFINE m == SLOTS - 1
<1>1. m \in Nat \ {0}
    OBVIOUS
<1> HIDE DEF m
<1>2. m = m * 1 /\ 1 \in Nat \ {0} /\ Len(<<>>) = 0 /\ 0 \in 0..0 /\ 1..0 = {}
    BY <1>1
<1>3. <<>> \in Seq(Buckets)
    BY EmptySeq
<1>4. [x \in 0..m |-> 0] \in [0..m -> 0..0]
    BY <1>2
<1>5. Sound([buckets |-> <<>>, table |-> [x \in 0..m |-> 0], mask |-> m])
  <2> DEFINE t == [x \in 0..m |-> 0]
  <2>1. t \in [0..m -> 0..0]
      BY <1>4
  <2> HIDE DEF t
  <2>2. Sound([buckets |-> <<>>, table |-> t, mask |-> m])
    <3>1. \E unit \in Nat \ {0} : m = m * unit
        BY <1>2
    <3> QED
        BY <1>2, <1>3, <2>1, <3>1 DEF Sound, m
  <2> QED
      BY <2>2 DEF t
<1> QED
    BY <1>5 DEF M!CODict_New, m

\* What is recorded last is the first in its slot, also when the table has grown.
LEMMA InsertedIs ==
    ASSUME SLOTS - 1 \in Nat \ {0}, NEW dict, Sound(dict),
           NEW k \in Int, NEW h \in Nat, NEW item \in Int, NEW new, new = M!Inserted(dict, k, h, item)
    PROVE  /\ Sound(new)
           /\ Len(new.buckets) = Len(dict.buckets) + 1
           /\ \A i \in 1..Len(dict.buckets) : new.buckets[i] = dict.buckets[i]
           /\ LET b == new.buckets[Len(new.buckets)] IN b.key = k /\ b.h = h /\ b.item = item
           /\ new.table[M!SlotOf(h, new.mask)] = Len(new.buckets)
<1> DEFINE slot == M!SlotOf(h, dict.mask)
           n == Len(dict.buckets)
           b == [key |-> k, h |-> h, item |-> item, next |-> dict.table[slot]]
           bs == Append(dict.buckets, b)
           last(S) == CHOOSE i \in S \cup {0} : \A j \in S : j <= i
           slotOf(x) == {i \in DOMAIN bs : M!SlotOf(bs[i].h, 2 * dict.mask) = x}
           grows == Len(bs) > dict.mask + 1
           mask == IF grows THEN 2 * dict.mask ELSE dict.mask
           rehashed == [x \in 0..2 * dict.mask |-> last(slotOf(x))]
           table == IF grows THEN rehashed ELSE [dict.table EXCEPT ![slot] = Len(bs)]
<1>1. dict.buckets \in Seq(Buckets) /\ n \in Nat /\ DOMAIN dict.buckets = 1..n
    BY DEF Sound
<1>2. slot \in 0..dict.mask /\ dict.mask \in Nat
    BY SlotInTable DEF Sound
<1>3. dict.table \in [0..dict.mask -> 0..n] /\ dict.table[slot] \in 0..n
    BY <1>2 DEF Sound
<1>4. b \in Buckets /\ b.next <= n
  <2>1. dict.table[slot] \in Nat /\ dict.table[slot] <= n
      BY <1>1, <1>3
  <2> HIDE DEF slot, n
  <2> QED
      BY <2>1 DEF Buckets
<1>0. b.key = k /\ b.h = h /\ b.item = item
    OBVIOUS
<1>5. new = [buckets |-> bs, mask |-> mask, table |-> table]
    BY DEF M!Inserted
<1> HIDE DEF b
<1>6. /\ bs \in Seq(Buckets) /\ Len(bs) = n + 1 /\ bs[n + 1] = b /\ DOMAIN bs = 1..n + 1
      /\ \A i \in 1..n : bs[i] = dict.buckets[i]
    BY <1>1, <1>4
<1> HIDE DEF bs
<1>7. \A i \in 1..n + 1 : bs[i].next < i
  <2> TAKE i \in 1..n + 1
  <2>1. CASE i = n + 1
      BY <2>1, <1>1, <1>4, <1>6 DEF Buckets
  <2>2. CASE i # n + 1
    <3>1. i \in 1..n
        BY <2>2, <1>1
    <3>2. dict.buckets[i].next < i
        BY <3>1 DEF Sound
    <3> QED
        BY <3>1, <3>2, <1>6
  <2> QED
      BY <2>1, <2>2
<1>8. \E unit \in Nat \ {0} : mask = (SLOTS - 1) * unit
  <2>1. PICK unit \in Nat \ {0} : dict.mask = (SLOTS - 1) * unit
      BY DEF Sound
  <2> DEFINE slots == SLOTS - 1
  <2>2. slots \in Nat \ {0} /\ dict.mask = slots * unit
      BY <2>1
  <2> HIDE DEF slots
  <2>3. 2 * unit \in Nat \ {0} /\ 2 * dict.mask = slots * (2 * unit)
      BY <2>2
  <2>4. CASE grows
    <3>1. mask = 2 * dict.mask
        BY <2>4
    <3> HIDE DEF mask, grows
    <3> QED
        BY <3>1, <2>3 DEF slots
  <2>5. CASE ~grows
    <3>1. mask = dict.mask
        BY <2>5
    <3> HIDE DEF mask, grows
    <3> QED
        BY <3>1, <2>1
  <2> QED
      BY <2>4, <2>5
<1>9. \A S \in SUBSET (1..n + 1) : last(S) \in 0..n + 1 /\ (n + 1 \in S => last(S) = n + 1)
  <2> TAKE S \in SUBSET (1..n + 1)
  <2>1. \E i \in S \cup {0} : \A j \in S : j <= i
    <3>1. CASE S = {}
        BY <3>1
    <3>2. CASE S # {}
      <4> DEFINE T == {x \in 0..n + 1 : (n + 1) - x \in S}
      <4>1. T \in SUBSET Nat
          OBVIOUS
      <4>2. T # {}
        <5>1. PICK y \in S : TRUE
            BY <3>2
        <5>2. y \in 1..n + 1 /\ (n + 1) - y \in 0..n + 1 /\ (n + 1) - ((n + 1) - y) = y
            BY <5>1, <1>1
        <5> QED
            BY <5>1, <5>2
      <4> HIDE DEF T
      <4>3. PICK x \in T : \A y \in T : x <= y
          BY <4>1, <4>2, Least
      <4> USE DEF T
      <4>4. x \in 0..n + 1 /\ (n + 1) - x \in S
          BY <4>3
      <4>5. \A j \in S : j <= (n + 1) - x
        <5> TAKE j \in S
        <5>1. j \in 1..n + 1
            OBVIOUS
        <5>2. (n + 1) - j \in 0..n + 1 /\ (n + 1) - ((n + 1) - j) = j
            BY <5>1, <1>1
        <5>3. (n + 1) - j \in T
            BY <5>2
        <5>4. x <= (n + 1) - j
            BY <5>3, <4>3
        <5>5. j \in Int /\ x \in Int /\ n \in Int
            BY <5>1, <4>4, <1>1
        <5> HIDE DEF T, last, n
        <5> QED
            BY <5>4, <5>5
      <4> QED
          BY <4>4, <4>5
    <3> QED
        BY <3>1, <3>2
  <2>2. last(S) \in S \cup {0} /\ \A j \in S : j <= last(S)
      BY <2>1
  <2> HIDE DEF last
  <2>3. last(S) \in 0..n + 1
    <3>1. PICK y : y = last(S)
        OBVIOUS
    <3>2. y = 0 \/ y \in 1..n + 1
        BY <2>2, <3>1
    <3>3. y \in 0..n + 1
        BY <3>2, <1>1
    <3> QED
        BY <3>1, <3>3
  <2>4. ASSUME n + 1 \in S
        PROVE  last(S) = n + 1
    <3>1. n + 1 <= last(S)
        BY <2>2, <2>4
    <3> QED
        BY <2>3, <3>1, <1>1
  <2> QED
      BY <2>3, <2>4
<1> HIDE DEF last
<1>10. \A x : slotOf(x) \in SUBSET (1..n + 1)
    BY <1>6
<1>11. M!SlotOf(h, mask) \in 0..mask /\ mask \in Nat
    BY <1>8, SlotInTable
<1>12. table \in [0..mask -> 0..n + 1] /\ table[M!SlotOf(h, mask)] = n + 1
  <2>1. CASE grows
    <3>1. mask = 2 * dict.mask /\ table = rehashed
        BY <2>1
    <3>2. n + 1 \in slotOf(M!SlotOf(h, mask))
      <4>1. bs[n + 1].h = h /\ n + 1 \in DOMAIN bs
          BY <1>0, <1>1, <1>6
      <4> QED
          BY <4>1, <3>1
    <3> HIDE DEF slotOf, mask, table, grows
    <3>3. table = [x \in 0..mask |-> last(slotOf(x))]
        BY <3>1
    <3> HIDE DEF rehashed
    <3>4. \A x \in 0..mask : table[x] = last(slotOf(x))
        BY <3>3
    <3>5. \A x \in 0..mask : last(slotOf(x)) \in 0..n + 1
        BY <1>9, <1>10
    <3>6. table[M!SlotOf(h, mask)] = last(slotOf(M!SlotOf(h, mask)))
        BY <3>4, <1>11
    <3>7. last(slotOf(M!SlotOf(h, mask))) = n + 1
        BY <3>2, <1>9, <1>10
    <3>8. table \in [0..mask -> 0..n + 1]
        BY <3>3, <3>5
    <3> QED
        BY <3>6, <3>7, <3>8
  <2>2. CASE ~grows
    <3>1. mask = dict.mask /\ table = [dict.table EXCEPT ![slot] = Len(bs)]
        BY <2>2
    <3> HIDE DEF mask, table, grows
    <3>2. M!SlotOf(h, mask) = slot
        BY <3>1
    <3> HIDE DEF slot
    <3>3. Len(bs) = n + 1 /\ n + 1 \in 0..n + 1 /\ \A x \in 0..n : x \in 0..n + 1
        BY <1>1, <1>6
    <3>4. dict.table \in [0..mask -> 0..n + 1]
        BY <1>3, <3>1, <3>3
    <3> QED
        BY <3>1, <3>2, <3>3, <3>4, <1>2
  <2> QED
      BY <2>1, <2>2
<1> HIDE DEF mask, table
<1>13. new.buckets = bs /\ new.mask = mask /\ new.table = table
    BY <1>5
<1>14. Sound(new)
    BY <1>13, <1>6, <1>7, <1>8, <1>12 DEF Sound
<1> QED
    BY <1>14, <1>13, <1>6, <1>12, <1>0

\* A lookup looks at the first bucket of a slot and goes on if that has another hash.
LEMMA LookupIs ==
    ASSUME SLOTS - 1 \in Nat \ {0}, NEW dict, Sound(dict), NEW k \in Int, NEW h \in Nat
    PROVE  LET i == dict.table[M!SlotOf(h, dict.mask)]
           IN  /\ i \in 0..Len(dict.buckets)
               /\ i = 0 => M!Lookup(dict, k, h) = 0
               /\ i # 0 /\ dict.buckets[i].h = h
                    => M!Lookup(dict, k, h) = IF dict.buckets[i].key = k THEN i ELSE 0
              /\ \/ M!Lookup(dict, k, h) = 0
                 \/ /\ M!Lookup(dict, k, h) \in 1..Len(dict.buckets)
                    /\ dict.buckets[M!Lookup(dict, k, h)].key = k
<1> DEFINE n == Len(dict.buckets)
           top == dict.table[M!SlotOf(h, dict.mask)]
           D == 0..n
           bs == dict.buckets
           rank == [i \in D |-> i]
           E(g, i) == IF i = 0 THEN 0
                      ELSE IF bs[i].h # h THEN g[bs[i].next]
                      ELSE IF bs[i].key = k THEN i ELSE 0
           F == [i \in D |-> [g \in [D -> D] |-> E(g, i)]]
           Is(g) == g = [i \in D |-> E(g, i)]
           from == CHOOSE g : Is(g)
<1>1. n \in Nat /\ bs \in Seq(Buckets) /\ DOMAIN bs = 1..n
    BY DEF Sound
<1>2. \A i \in D : i # 0 => bs[i].next \in D /\ bs[i].next < i
  <2> TAKE i \in D
  <2> HAVE i # 0
  <2>1. i \in 1..n
      BY <1>1
  <2>2. bs[i] \in Buckets /\ bs[i].next < i
      BY <2>1, <1>1 DEF Sound
  <2> HIDE DEF bs, n
  <2> QED
      BY <2>1, <2>2, <1>1 DEF Buckets
<1>3. top \in D
  <2>1. M!SlotOf(h, dict.mask) \in 0..dict.mask
      BY SlotInTable DEF Sound
  <2> QED
      BY <2>1 DEF Sound
<1>4. M!Lookup(dict, k, h) = from[top]
    BY DEF M!Lookup
<1> HIDE DEF top, bs, n
<1>5. \A g \in [D -> D] : \A i \in D : E(g, i) \in D
  <2> TAKE g \in [D -> D]
  <2> TAKE i \in D
  <2>1. i # 0 => g[bs[i].next] \in D
      BY <1>2
  <2>2. 0 \in D
      BY <1>1
  <2> HIDE DEF D
  <2> QED
      BY <2>1, <2>2
<1>6. F \in [D -> [[D -> D] -> D]]
    BY <1>5
<1>7. ASSUME NEW i \in D, NEW g \in [D -> D], NEW f \in [D -> D],
             \A j \in D : rank[j] < rank[i] => g[j] = f[j]
      PROVE  F[i][g] = F[i][f]
  <2>1. i # 0 => g[bs[i].next] = f[bs[i].next]
      BY <1>2, <1>7
  <2>2. E(g, i) = E(f, i)
      BY <2>1
  <2>3. F[i][g] = E(g, i) /\ F[i][f] = E(f, i)
      OBVIOUS
  <2> QED
      BY <2>2, <2>3
<1>8. rank \in [D -> 0..n] /\ D # {}
    BY <1>1
<1>9. \A i \in D : \A g \in [D -> D] : F[i][g] = E(g, i)
    OBVIOUS
<1> HIDE DEF F, rank, E
<1>10. Steps(F, D, rank, D)
    BY <1>6, <1>7 DEF Steps
<1>11. PICK g \in [D -> D] : \A i \in D : g[i] = F[i][g]
  <2>1. PICK V : V = D
      OBVIOUS
  <2> HIDE DEF D, Is, from
  <2>2. n \in Nat /\ rank \in [D -> 0..n] /\ V # {} /\ Steps(F, D, rank, V)
      BY <2>1, <1>1, <1>8, <1>10
  <2>3. \E g \in [D -> V] : \A i \in D : g[i] = F[i][g]
      BY <2>2, Recursion
  <2> QED
      BY <2>1, <2>3
<1>12. g = [i \in D |-> E(g, i)]
    BY <1>9, <1>11
<1>13. Is(from)
    BY <1>12
<1> HIDE DEF from
<1>14. \A i \in D : from[i] = E(from, i)
    BY <1>13
<1> USE DEF E
<1> DEFINE Right(x) == x = 0 \/ (x \in 1..n /\ bs[x].key = k)
           Bad == {i \in D : ~ Right(from[i])}
<1>15. ASSUME Bad # {} PROVE FALSE
  <2>1. Bad \in SUBSET Nat
      BY <1>1
  <2>2. PICK x \in Bad : \A y \in Bad : x <= y
    <3> HIDE DEF Bad
    <3> QED
        BY <1>15, <2>1, Least
  <2>3. x \in D /\ ~ Right(from[x])
      BY <2>2
  <2>4. x # 0 /\ bs[x].h # h
    <3>1. x # 0 => x \in 1..n
        BY <2>3, <1>1
    <3> QED
        BY <2>3, <3>1, <1>14
  <2>5. from[x] = from[bs[x].next] /\ bs[x].next \in D /\ bs[x].next < x
      BY <2>3, <2>4, <1>2, <1>14
  <2>6. bs[x].next \in Bad
      BY <2>3, <2>5
  <2>7. x \in Nat /\ bs[x].next \in Nat /\ x <= bs[x].next
    <3>1. x \in Nat /\ bs[x].next \in Nat
      <4>1. x \in D /\ bs[x].next \in D /\ D \subseteq Nat
          BY <2>3, <2>5, <1>1
      <4> HIDE DEF D
      <4> QED
          BY <4>1
    <3>2. x <= bs[x].next
      <4> HIDE DEF Bad
      <4> QED
          BY <2>2, <2>6
    <3> QED
        BY <3>1, <3>2
  <2> QED
      BY <2>5, <2>7
<1>16. Right(from[top])
    BY <1>15, <1>3
<1>17. from[top] = E(from, top)
    BY <1>14, <1>3
<1> QED
    BY <1>3, <1>4, <1>16, <1>17 DEF top, bs, n

LEMMA WholeIs ==
    ASSUME NEW g, M!Complete(g), NEW o \in 0..Len(g), o # 0
    PROVE  o \in DOMAIN g /\ M!Whole(g, o)
BY DEF M!Complete

LEMMA KidsAre ==
    ASSUME NEW g, M!Complete(g), NEW o \in DOMAIN g
    PROVE  /\ g[o].kids \in Seq(0..Len(g)) /\ Len(g[o].kids) \in Nat
           /\ DOMAIN g[o].kids = 1..Len(g[o].kids)
           /\ \A i \in DOMAIN g[o].kids : g[o].kids[i] \in 0..Len(g) /\ (g[o].kids[i] = 0 \/ g[o].kids[i] > o)
<1> DEFINE kids == g[o].kids
<1>1. kids \in Seq({0} \cup o + 1..Len(g)) /\ o \in 1..Len(g) /\ Len(g) \in Nat
    BY DEF M!Complete, M!Whole
<1>2. Len(kids) \in Nat /\ DOMAIN kids = 1..Len(kids) /\ kids = [i \in 1..Len(kids) |-> kids[i]]
    BY <1>1
<1>3. \A i \in 1..Len(kids) : kids[i] \in {0} \cup o + 1..Len(g)
    BY <1>1
<1> HIDE DEF kids
<1>4. \A i \in 1..Len(kids) : kids[i] \in 0..Len(g) /\ (kids[i] = 0 \/ kids[i] > o)
    BY <1>1, <1>3
<1>5. kids \in Seq(0..Len(g))
    BY <1>2, <1>4
<1> QED
    BY <1>2, <1>4, <1>5 DEF kids

-----------------------------------------------------------------------------
(* The stream: what is written at each place where an object or a number begins *)

Items(g) == ({"object"} \X (0..Len(g))) \cup ({"int64"} \X {0, 1})

Heading(g, co) ==
    IF co = 0 THEN <<M!Byte("null")>>
    ELSE CASE g[co].kind \in {"none", "false", "true"} -> <<M!Byte(g[co].kind)>>
           [] g[co].kind = "int"   -> <<M!Byte("int"), M!Int64(M!AsLong(g[co].val))>>
           [] g[co].kind = "float" -> <<>>
           [] g[co].kind \in {"list", "tuple"} -> <<M!Byte(g[co].kind), M!Int64(Len(g[co].kids))>>
           [] g[co].kind \in {"dict", "code"}  -> <<M!Byte(g[co].kind)>>
           [] g[co].kind \in {"str", "bytes"}  ->
                <<M!Byte(g[co].kind), M!Int64(Len(g[co].val)), [n |-> Len(g[co].val), x |-> g[co].val]>>

Inside(g, co) == [i \in DOMAIN g[co].kids |-> <<"object", g[co].kids[i]>>]

Contents(g, co) ==
    IF co = 0 THEN <<>>
    ELSE Inside(g, co) \o (CASE g[co].kind = "dict" -> <<<<"object", 0>>>>
                             [] g[co].kind = "code" -> <<<<"int64", 0>>, <<"int64", 1>>>>
                             [] OTHER -> <<>>)

\* The tokens of out from place i on are h.
Begins(out, i, h) == \A m \in 1..Len(h) : out[i + m - 1] = h[m]

\* At place i a number is written, a reference to what was recorded last, or an object, which
\* is recorded; k is the next place.
NumberAt(out, last, todo, i, k) ==
    /\ Head(todo[i])[1] = "int64"
    /\ k = i + 1 /\ todo[k] = Tail(todo[i]) /\ last[k] = last[i]

ReferenceAt(out, last, todo, names, i, k) ==
    /\ Head(todo[i])[1] = "object"
    /\ out[i].x = "refer" /\ out[i + 1].x = last[i]
    /\ last[i] \in Nat /\ names[last[i]] = Head(todo[i])[2]
    /\ k = i + 2 /\ todo[k] = Tail(todo[i]) /\ last[k] = last[i]

ObjectAt(g, out, off, last, todo, names, i, k) ==
    LET co == Head(todo[i])[2]
    IN  /\ Head(todo[i])[1] = "object"
        /\ Begins(out, i, Heading(g, co)) /\ names[off[i]] = co
        /\ k = i + Len(Heading(g, co)) /\ todo[k] = Contents(g, co) \o Tail(todo[i]) /\ last[k] = off[i]

Piece(g, out, off, last, todo, names, i, k) ==
    /\ todo[i] # <<>> /\ k - 1 \in i..Len(out)
    /\ off[k] = off[i] + M!Bytes(SubSeq(out, i, k - 1))
    /\ \/ NumberAt(out, last, todo, i, k)
       \/ ReferenceAt(out, last, todo, names, i, k)
       \/ ObjectAt(g, out, off, last, todo, names, i, k)

\* S are the places; off, last, todo and names what the writer knew there: the offset, the
\* offset recorded last (-1: none), what was still to be written; names[x] is the object
\* recorded under offset x.
Stream(g, out, S, off, last, todo, names) ==
    /\ S \in SUBSET (1..Len(out) + 1) /\ 1 \in S /\ Len(out) + 1 \in S
    /\ off \in [S -> Nat] /\ last \in [S -> Int]
    /\ todo \in [S -> Seq(Items(g))] /\ names \in [Nat -> 0..Len(g)]
    /\ off[1] = 0 /\ last[1] = -1 /\ todo[1] = <<<<"object", 1>>>>
    /\ \A i \in S : last[i] < off[i]
    /\ \A i \in S : i # Len(out) + 1 => off[i] < off[Len(out) + 1]
    /\ \A i \in S : i # Len(out) + 1 => \E k \in S : Piece(g, out, off, last, todo, names, i, k)

LEMMA StreamBegins ==
    ASSUME NEW g, Len(g) \in Nat \ {0}
    PROVE  Stream(g, <<>>, {1}, [i \in {1} |-> 0], [i \in {1} |-> -1],
                  [i \in {1} |-> <<<<"object", 1>>>>], [x \in Nat |-> 0])
<1>1. <<"object", 1>> \in Items(g)
    BY DEF Items
<1>2. <<<<"object", 1>>>> \in Seq(Items(g)) /\ Len(<<>>) = 0
    BY <1>1
<1>3. 0 \in 0..Len(g)
    OBVIOUS
<1> QED
    BY <1>2, <1>3 DEF Stream

LEMMA Slice ==
    ASSUME NEW T, NEW s \in Seq(T), NEW i \in Int, NEW k \in Int, 1 <= i, i <= k + 1, k <= Len(s)
    PROVE  /\ SubSeq(s, i, k) \in Seq(T) /\ Len(SubSeq(s, i, k)) = k - i + 1
           /\ \A j \in 1..k - i + 1 : SubSeq(s, i, k)[j] = s[i + j - 1]
<1>1. \A j \in i..k : s[j] \in T
    OBVIOUS
<1>2. /\ SubSeq(s, i, k) \in Seq(T) /\ Len(SubSeq(s, i, k)) = (IF i <= k THEN k - i + 1 ELSE 0)
      /\ \A j \in 1..k - i + 1 : SubSeq(s, i, k)[j] = s[i + j - 1]
    BY <1>1, SubSeqProperties
<1> QED
    BY <1>2

\* A sequence and what is appended to it
LEMMA Appended ==
    ASSUME NEW T, NEW out \in Seq(T), NEW t \in Seq(T), NEW new, new = out \o t
    PROVE  /\ new \in Seq(T) /\ Len(new) = Len(out) + Len(t)
           /\ \A i \in 1..Len(out) : new[i] = out[i]
           /\ \A i \in 1..Len(t) : new[Len(out) + i] = t[i]
           /\ \A i \in 1..Len(out) + 1 : \A k \in i - 1..Len(out) : SubSeq(new, i, k) = SubSeq(out, i, k)
           /\ SubSeq(new, Len(out) + 1, Len(out) + Len(t)) = t
<1>1. /\ new \in Seq(T) /\ Len(new) = Len(out) + Len(t) /\ Len(out) \in Nat /\ Len(t) \in Nat
      /\ \A i \in 1..Len(out) : new[i] = out[i]
      /\ \A i \in 1..Len(t) : new[Len(out) + i] = t[i]
    OBVIOUS
<1>2. ASSUME NEW i \in 1..Len(out) + 1, NEW k \in i - 1..Len(out)
      PROVE  SubSeq(new, i, k) = SubSeq(out, i, k)
  <2> DEFINE a == SubSeq(new, i, k)
             b == SubSeq(out, i, k)
  <2>1. \A j \in i..k : j \in 1..Len(out) /\ new[j] = out[j]
      BY <1>1
  <2>0. i \in Int /\ k \in Int /\ 1 <= i /\ i <= k + 1 /\ k <= Len(out) /\ k <= Len(new)
      BY <1>1
  <2>2. a \in Seq(T) /\ Len(a) = k - i + 1 /\ \A j \in 1..k - i + 1 : a[j] = new[i + j - 1]
      BY <1>1, <2>0, Slice
  <2>3. b \in Seq(T) /\ Len(b) = k - i + 1 /\ \A j \in 1..k - i + 1 : b[j] = out[i + j - 1]
      BY <2>0, Slice
  <2>4. \A j \in 1..Len(a) : a[j] = b[j]
    <3> TAKE j \in 1..Len(a)
    <3>1. j \in 1..k - i + 1 /\ i + j - 1 \in i..k
        BY <2>2
    <3> QED
        BY <3>1, <2>1, <2>2, <2>3
  <2> QED
      BY <2>2, <2>3, <2>4, SeqEqual
<1>3. SubSeq(new, Len(out) + 1, Len(out) + Len(t)) = t
  <2>00. PICK i : i = Len(out) + 1
      OBVIOUS
  <2>01. PICK k : k = Len(out) + Len(t)
      OBVIOUS
  <2> DEFINE a == SubSeq(new, i, k)
  <2>0. i \in Int /\ k \in Int /\ k - i + 1 = Len(t)
      BY <1>1, <2>00, <2>01
  <2>1. new \in Seq(T) /\ 1 <= i /\ i <= k + 1 /\ k <= Len(new)
      BY <1>1, <2>00, <2>01
  <2>2. a \in Seq(T) /\ Len(a) = k - i + 1 /\ \A j \in 1..k - i + 1 : a[j] = new[i + j - 1]
      BY <2>0, <2>1, Slice
  <2>3. Len(a) = Len(t)
      BY <2>0, <2>2
  <2>4. \A j \in 1..Len(a) : a[j] = t[j]
    <3> TAKE j \in 1..Len(a)
    <3>1. j \in 1..Len(t) /\ i + j - 1 = Len(out) + j
        BY <2>3, <1>1, <2>00
    <3>2. a[j] = new[i + j - 1]
        BY <3>1, <2>0, <2>2
    <3> QED
        BY <3>1, <3>2, <1>1
  <2> QED
      BY <2>2, <2>3, <2>4, <2>00, <2>01, SeqEqual
<1> QED
    BY <1>1, <1>2, <1>3

\* A function with a value at one more place
With(f, S, x, y) == [i \in S \cup {x} |-> IF i = x THEN y ELSE f[i]]

LEMMA HeadingIs ==
    ASSUME NEW g, M!Complete(g), NEW co \in 0..Len(g)
    PROVE  Len(Heading(g, co)) \in 0..3
<1>1. CASE co = 0
    BY <1>1 DEF Heading
<1>2. CASE co # 0
  <2>1. g[co].kind \in M!Types
      BY <1>2, WholeIs DEF M!Whole
  <2> QED
      BY <1>2, <2>1 DEF Heading, M!Types
<1> QED
    BY <1>1, <1>2

\* What makes a longer stream of out and t
Longer(g, out, t, S, off, last, todo, names, rest, late, known, new, off2, last2, todo2) ==
    LET end == Len(out) + 1
        far == end + Len(t)
    IN  /\ Stream(g, out, S, off, last, todo, names)
        /\ Len(t) > 0 /\ M!Bytes(t) > 0 /\ todo[end] # <<>>
        /\ rest \in Seq(Items(g)) /\ late \in Int /\ late < off[end] + M!Bytes(t)
        /\ known \in [Nat -> 0..Len(g)] /\ \A x \in Nat : x # off[end] => known[x] = names[x]
        /\ new = out \o t
        /\ off2 = With(off, S, far, off[end] + M!Bytes(t))
        /\ last2 = With(last, S, far, late)
        /\ todo2 = With(todo, S, far, rest)
        /\ \/ NumberAt(new, last2, todo2, end, far)
           \/ ReferenceAt(new, last2, todo2, known, end, far)
           \/ ObjectAt(g, new, off2, last2, todo2, known, end, far)

LEMMA StreamGrows ==
    ASSUME NEW g, M!Complete(g), NEW T, Sized(T), NEW out \in Seq(T), NEW t \in Seq(T),
           NEW S, NEW off, NEW last, NEW todo, NEW names, NEW rest, NEW late, NEW known,
           NEW new, NEW off2, NEW last2, NEW todo2,
           Longer(g, out, t, S, off, last, todo, names, rest, late, known, new, off2, last2, todo2)
    PROVE  Stream(g, new, S \cup {Len(out) + 1 + Len(t)}, off2, last2, todo2, known)
<1> DEFINE n == Len(out)
           end == n + 1
           far == end + Len(t)
           S2 == S \cup {far}
<1>0. n \in Nat /\ Len(t) \in Nat /\ M!Bytes(t) \in Nat
    BY BytesAdd
<1>00. /\ Stream(g, out, S, off, last, todo, names)
       /\ Len(t) > 0 /\ M!Bytes(t) > 0 /\ todo[end] # <<>>
       /\ rest \in Seq(Items(g)) /\ late \in Int /\ late < off[end] + M!Bytes(t)
       /\ known \in [Nat -> 0..Len(g)] /\ \A x \in Nat : x # off[end] => known[x] = names[x]
       /\ new = out \o t
       /\ off2 = With(off, S, far, off[end] + M!Bytes(t))
       /\ last2 = With(last, S, far, late)
       /\ todo2 = With(todo, S, far, rest)
       /\ \/ NumberAt(new, last2, todo2, end, far)
          \/ ReferenceAt(new, last2, todo2, known, end, far)
          \/ ObjectAt(g, new, off2, last2, todo2, known, end, far)
    BY DEF Longer
<1>1. /\ new \in Seq(T) /\ Len(new) = n + Len(t)
      /\ \A i \in 1..n : new[i] = out[i]
      /\ \A i \in 1..n + 1 : \A k \in i - 1..n : SubSeq(new, i, k) = SubSeq(out, i, k)
      /\ SubSeq(new, n + 1, n + Len(t)) = t
  <2>1. new = out \o t
      BY <1>00
  <2> QED
      BY <2>1, Appended
<1>2. /\ S \in SUBSET (1..n + 1) /\ 1 \in S /\ end \in S /\ end = n + 1
      /\ off \in [S -> Nat] /\ last \in [S -> Int]
      /\ todo \in [S -> Seq(Items(g))]
      /\ off[1] = 0 /\ last[1] = -1 /\ todo[1] = <<<<"object", 1>>>>
      /\ \A i \in S : last[i] < off[i]
      /\ \A i \in S : i # end => off[i] < off[end]
      /\ \A i \in S : i # end => \E k \in S : Piece(g, out, off, last, todo, names, i, k)
    BY <1>00 DEF Stream
<1>3. far = n + Len(t) + 1 /\ far \notin S /\ far \in Nat /\ far - 1 = n + Len(t)
  <2>1. far = n + Len(t) + 1 /\ far > n + 1
      BY <1>0, <1>00
  <2> QED
      BY <2>1, <1>0, <1>2
<1> HIDE DEF n, end, far
<1>4. /\ \A i \in S : off2[i] = off[i] /\ last2[i] = last[i] /\ todo2[i] = todo[i]
      /\ off2[far] = off[end] + M!Bytes(t) /\ last2[far] = late /\ todo2[far] = rest
    BY <1>3, <1>00 DEF With
<1>5. /\ off2 \in [S2 -> Nat] /\ last2 \in [S2 -> Int] /\ todo2 \in [S2 -> Seq(Items(g))]
  <2>1. off[end] + M!Bytes(t) \in Nat
      BY <1>0, <1>2
  <2> QED
      BY <2>1, <1>00, <1>2, <1>3 DEF With
<1>6. S2 \in SUBSET (1..Len(new) + 1) /\ 1 \in S2 /\ Len(new) + 1 = far /\ far \in S2
  <2>1. Len(new) + 1 = far /\ n + 1 <= far
      BY <1>0, <1>1, <1>3
  <2>2. \A i \in S2 : i \in 1..far
      BY <2>1, <1>0, <1>2, <1>3
  <2> QED
      BY <2>1, <2>2, <1>2
<1>7. ASSUME NEW i \in S2, i # far
      PROVE  off2[i] < off2[far] /\ last2[i] < off2[i] /\ i \in S
  <2>1. i \in S
      BY <1>7
  <2>2. off[i] <= off[end] /\ off[i] \in Nat /\ off[end] \in Nat
    <3>1. end \in S /\ off \in [S -> Nat] /\ (i # end => off[i] < off[end])
        BY <2>1, <1>2
    <3>2. off[i] \in Nat /\ off[end] \in Nat
        BY <2>1, <3>1
    <3> QED
        BY <3>1, <3>2
  <2>3. off[i] < off[end] + M!Bytes(t)
    <3> DEFINE b == M!Bytes(t)
    <3>1. b \in Nat /\ b > 0
        BY <1>0, <1>00
    <3> HIDE DEF b
    <3>2. off[i] < off[end] + b
        BY <2>2, <3>1
    <3> QED
        BY <3>2 DEF b
  <2> QED
      BY <2>1, <2>3, <1>2, <1>4
<1>8. last2[far] < off2[far]
    BY <1>4, <1>00
<1>9. ASSUME NEW i \in S, i # end
      PROVE  \E k \in S2 : Piece(g, new, off2, last2, todo2, known, i, k)
  <2>1. PICK k \in S : Piece(g, out, off, last, todo, names, i, k)
      BY <1>2, <1>9
  <2>2. /\ todo[i] # <<>> /\ k - 1 \in i..n
        /\ off[k] = off[i] + M!Bytes(SubSeq(out, i, k - 1))
      BY <2>1 DEF Piece, n
  <2>3. i \in 1..n /\ k \in Nat /\ i \in Nat /\ i <= k - 1 /\ k - 1 <= n
      BY <2>2, <1>0, <1>2, <1>9
  <2>4. SubSeq(new, i, k - 1) = SubSeq(out, i, k - 1)
    <3>1. i \in 1..n + 1 /\ k - 1 \in i - 1..n
        BY <2>3, <1>0
    <3> QED
        BY <3>1, <1>1
  <2>5. off[i] < off[end] /\ off[i] \in Nat /\ off[end] \in Nat /\ last[i] < off[i] /\ last[i] \in Int
      BY <1>2, <1>9
  <2>6. known[off[i]] = names[off[i]] /\ (last[i] \in Nat => known[last[i]] = names[last[i]])
    <3>1. off[i] # off[end] /\ last[i] # off[end]
        BY <2>5
    <3> QED
        BY <3>1, <2>5, <1>00
  <2>10. todo2[i] # <<>> /\ k - 1 \in i..Len(new) /\ off2[k] = off2[i] + M!Bytes(SubSeq(new, i, k - 1))
    <3>1. k - 1 <= Len(new)
        BY <2>3, <1>0, <1>1
    <3>2. k - 1 \in i..Len(new)
        BY <3>1, <2>3, <1>0, <1>1
    <3>3. todo2[i] = todo[i] /\ off2[k] = off[k] /\ off2[i] = off[i]
        BY <2>1, <1>4, <1>9
    <3> QED
        BY <3>2, <3>3, <2>2, <2>4
  <2>7. CASE NumberAt(out, last, todo, i, k)
    <3>1. NumberAt(new, last2, todo2, i, k)
        BY <2>7, <1>4 DEF NumberAt
    <3> QED
        BY <3>1, <2>10 DEF Piece
  <2>8. CASE ReferenceAt(out, last, todo, names, i, k)
    <3>1. i + 1 \in 1..n /\ i \in 1..n
        BY <2>3, <2>8, <1>0 DEF ReferenceAt
    <3>2. new[i] = out[i] /\ new[i + 1] = out[i + 1]
        BY <3>1, <1>1
    <3>3. ReferenceAt(new, last2, todo2, known, i, k)
        BY <3>2, <2>6, <2>8, <1>4 DEF ReferenceAt
    <3> QED
        BY <3>3, <2>10 DEF Piece
  <2>9. CASE ObjectAt(g, out, off, last, todo, names, i, k)
    <3> DEFINE h == Heading(g, Head(todo[i])[2])
    <3>1. Begins(out, i, h) /\ k = i + Len(h)
        BY <2>9 DEF ObjectAt
    <3>0. Len(h) \in Nat
      <4>1. todo[i] \in Seq(Items(g)) /\ todo[i] # <<>>
          BY <2>2, <1>2
      <4>2. Head(todo[i]) \in Items(g)
          BY <4>1
      <4>3. Head(todo[i])[2] \in 0..Len(g)
          BY <4>2, <2>9 DEF Items, ObjectAt
      <4> QED
          BY <4>3, HeadingIs
    <3> HIDE DEF h
    <3>2. \A m \in 1..Len(h) : i + m - 1 \in 1..n
      <4>1. Len(h) = k - i
          BY <3>1, <2>3, <3>0
      <4> TAKE m \in 1..Len(h)
      <4>2. m \in Int /\ 1 <= m /\ m <= k - i
          BY <4>1, <2>3
      <4> QED
          BY <4>2, <2>3, <1>0
    <3>3. Begins(new, i, h)
        BY <3>1, <3>2, <1>1 DEF Begins
    <3>4. ObjectAt(g, new, off2, last2, todo2, known, i, k)
        BY <3>1, <3>3, <2>6, <2>9, <1>4 DEF ObjectAt, h
    <3> QED
        BY <3>4, <2>10 DEF Piece
  <2> QED
      BY <2>1, <2>7, <2>8, <2>9 DEF Piece
<1>10. Piece(g, new, off2, last2, todo2, known, end, far)
  <2>1. todo2[end] # <<>>
      BY <1>00, <1>2, <1>4
  <2>2. far - 1 \in end..Len(new)
    <3>0. Len(t) > 0 /\ Len(new) = n + Len(t) /\ end = n + 1 /\ far - 1 = n + Len(t)
        BY <1>00, <1>1, <1>2, <1>3
    <3>1. end <= far - 1 /\ far - 1 = Len(new) /\ far - 1 \in Int /\ end \in Int
        BY <3>0, <1>0
    <3> QED
        BY <3>1
  <2>3. SubSeq(new, end, far - 1) = t
      BY <1>1, <1>2, <1>3
  <2>4. off2[far] = off2[end] + M!Bytes(SubSeq(new, end, far - 1))
      BY <2>3, <1>2, <1>4
  <2> QED
      BY <2>1, <2>2, <2>4, <1>00 DEF Piece
<1>11. \A i \in S2 : i # far => \E k \in S2 : Piece(g, new, off2, last2, todo2, known, i, k)
    BY <1>9, <1>10
<1>12. off2[1] = 0 /\ last2[1] = -1 /\ todo2[1] = <<<<"object", 1>>>>
    BY <1>2, <1>4
<1> HIDE DEF S2
<1> QED
  <2>1. Stream(g, new, S2, off2, last2, todo2, known)
    <3>1. known \in [Nat -> 0..Len(g)]
        BY <1>00
    <3>2. \A i \in S2 : last2[i] < off2[i] /\ (i # far => off2[i] < off2[far])
        BY <1>7, <1>8
    <3>3. Len(new) + 1 = far
        BY <1>6
    <3> QED
        BY <3>1, <3>2, <3>3, <1>5, <1>6, <1>11, <1>12 DEF Stream
  <2> QED
      BY <2>1 DEF S2, far, end, n

-----------------------------------------------------------------------------
(* The writer *)

Vals(g) == {g[o].val : o \in DOMAIN g}

Tokens(g) == [n : Nat, x : M!Types \cup {"null", "refer"} \cup Int \cup Vals(g)]

LEMMA TokensSized == ASSUME NEW g PROVE Sized(Tokens(g))
BY DEF Sized, Tokens

LEMMA BytesMore ==
    ASSUME NEW T, Sized(T), NEW t \in Seq(T), Len(t) > 0, t[1].n > 0
    PROVE  M!Bytes(t) > 0
<1>1. t[1] \in T /\ <<t[1]>> \in Seq(T) /\ Tail(t) \in Seq(T) /\ t = <<t[1]>> \o Tail(t)
    OBVIOUS
<1>2. M!Bytes(t) = M!Bytes(<<t[1]>>) + M!Bytes(Tail(t)) /\ M!Bytes(Tail(t)) \in Nat
    BY <1>1, BytesAdd
<1>3. PICK s : s = <<t[1]>>
    OBVIOUS
<1>4. s \in Seq(T) /\ Len(s) = 1 /\ s[1] = t[1]
    BY <1>1, <1>3
<1>5. PICK f \in [0..Len(s) -> Nat] :
         /\ M!Bytes(s) = f[Len(s)]
         /\ \A i \in 0..Len(s) : f[i] = IF i = 0 THEN 0 ELSE f[i - 1] + s[i].n
    BY <1>4, BytesAre
<1>6. f[1] = f[0] + t[1].n /\ f[0] = 0
    BY <1>4, <1>5
<1>7. t[1].n \in Nat
    BY <1>1 DEF Sized
<1> QED
    BY <1>2, <1>3, <1>4, <1>5, <1>6, <1>7

LEMMA HeadingTokens ==
    ASSUME NEW g, M!Complete(g), NEW co \in 0..Len(g)
    PROVE  /\ Heading(g, co) \in Seq(Tokens(g))
           /\ ~ (co # 0 /\ g[co].kind = "float") => M!Bytes(Heading(g, co)) > 0 /\ Len(Heading(g, co)) > 0
<1> DEFINE X == M!Types \cup {"null", "refer"} \cup Int \cup Vals(g)
           h == Heading(g, co)
<1>1. \A n \in Nat : \A x \in X : [n |-> n, x |-> x] \in Tokens(g)
    BY DEF Tokens
<1>2. \A x \in M!Types \cup {"null"} : M!Byte(x) \in Tokens(g) /\ M!Byte(x).n = 1
    BY DEF M!Byte, Tokens
<1>3. \A x \in Int \cup Vals(g) : M!Int64(x) \in Tokens(g)
    BY DEF M!Int64, Tokens
<1>4. co # 0 => g[co].kind \in M!Types /\ g[co].val \in Vals(g) /\ Len(g[co].kids) \in Nat
  <2>1. ASSUME co # 0 PROVE co \in DOMAIN g /\ M!Whole(g, co) /\ Len(g[co].kids) \in Nat
      BY <2>1, WholeIs, KidsAre
  <2> QED
      BY <2>1 DEF M!Whole, Vals
<1>5. co # 0 /\ g[co].kind \in {"str", "bytes"} => Len(g[co].val) \in Nat
    BY WholeIs DEF M!Whole
<1>6. co # 0 => M!AsLong(g[co].val) \in Int \cup Vals(g)
    BY <1>4 DEF M!AsLong
<1> HIDE DEF h
<1>7. \/ co # 0 /\ g[co].kind = "float" /\ h = <<>>
      \/ h \in Seq(Tokens(g)) /\ Len(h) > 0 /\ h[1].n = 1
  <2>1. CASE co = 0
    <3>1. h = <<M!Byte("null")>>
        BY <2>1 DEF h, Heading
    <3> QED
        BY <3>1, <1>2
  <2>2. CASE co # 0 /\ g[co].kind \in {"none", "false", "true", "dict", "code"}
    <3>1. h = <<M!Byte(g[co].kind)>>
        BY <2>2 DEF h, Heading
    <3> QED
        BY <3>1, <1>2, <1>4, <2>2
  <2>3. CASE co # 0 /\ g[co].kind = "int"
    <3>1. h = <<M!Byte(g[co].kind), M!Int64(M!AsLong(g[co].val))>>
        BY <2>3 DEF h, Heading
    <3>2. M!Byte(g[co].kind) \in Tokens(g) /\ M!Byte(g[co].kind).n = 1
        BY <1>2, <1>4, <2>3
    <3>3. M!Int64(M!AsLong(g[co].val)) \in Tokens(g)
        BY <1>3, <1>6, <2>3
    <3> QED
        BY <3>1, <3>2, <3>3
  <2>4. CASE co # 0 /\ g[co].kind \in {"list", "tuple"}
    <3>1. h = <<M!Byte(g[co].kind), M!Int64(Len(g[co].kids))>>
        BY <2>4 DEF h, Heading
    <3>2. M!Byte(g[co].kind) \in Tokens(g) /\ M!Byte(g[co].kind).n = 1
        BY <1>2, <1>4, <2>4
    <3>3. M!Int64(Len(g[co].kids)) \in Tokens(g)
        BY <1>3, <1>4, <2>4
    <3> QED
        BY <3>1, <3>2, <3>3
  <2>5. CASE co # 0 /\ g[co].kind \in {"str", "bytes"}
    <3> DEFINE x == [n |-> Len(g[co].val), x |-> g[co].val]
    <3>1. h = <<M!Byte(g[co].kind), M!Int64(Len(g[co].val)), x>>
        BY <2>5 DEF h, Heading
    <3>2. M!Byte(g[co].kind) \in Tokens(g) /\ M!Byte(g[co].kind).n = 1
        BY <1>2, <1>4, <2>5
    <3>3. M!Int64(Len(g[co].val)) \in Tokens(g)
        BY <1>3, <1>5, <2>5
    <3>4. x \in Tokens(g)
        BY <1>1, <1>4, <1>5, <2>5
    <3> HIDE DEF x
    <3> QED
        BY <3>1, <3>2, <3>3, <3>4
  <2>6. CASE co # 0 /\ g[co].kind = "float"
    <3>1. h = <<>>
        BY <2>6 DEF h, Heading
    <3> QED
        BY <3>1, <2>6
  <2> QED
      BY <2>1, <2>2, <2>3, <2>4, <2>5, <2>6, <1>4 DEF M!Types
<1>8. <<>> \in Seq(Tokens(g))
    OBVIOUS
<1>9. CASE co # 0 /\ g[co].kind = "float" /\ h = <<>>
    BY <1>8, <1>9 DEF h
<1>10. CASE h \in Seq(Tokens(g)) /\ Len(h) > 0 /\ h[1].n = 1
  <2>1. h[1].n > 0
      BY <1>10
  <2>2. M!Bytes(h) > 0
      BY <1>10, <2>1, TokensSized, BytesMore
  <2> QED
      BY <1>10, <2>2 DEF h
<1> QED
    BY <1>7, <1>9, <1>10

LEMMA ContentsItems ==
    ASSUME NEW g, M!Complete(g), NEW co \in 0..Len(g)
    PROVE  Contents(g, co) \in Seq(Items(g))
<1>1. CASE co = 0
    BY <1>1 DEF Contents
<1>2. CASE co # 0
  <2>1. g[co].kids \in Seq(0..Len(g))
      BY <1>2, WholeIs, KidsAre
  <2>2. Inside(g, co) \in Seq(Items(g))
    <3>1. \A x \in 0..Len(g) : <<"object", x>> \in Items(g)
        BY DEF Items
    <3>2. DOMAIN g[co].kids = 1..Len(g[co].kids) /\ Len(g[co].kids) \in Nat
        BY <2>1
    <3>3. \A i \in DOMAIN g[co].kids : g[co].kids[i] \in 0..Len(g)
        BY <2>1
    <3> QED
        BY <3>1, <3>2, <3>3 DEF Inside
  <2>3. <<>> \in Seq(Items(g)) /\ <<<<"object", 0>>>> \in Seq(Items(g))
    <3>1. <<"object", 0>> \in Items(g)
        BY DEF Items, M!Complete
    <3> QED
        BY <3>1
  <2>4. <<<<"int64", 0>>, <<"int64", 1>>>> \in Seq(Items(g))
    <3>1. <<"int64", 0>> \in Items(g) /\ <<"int64", 1>> \in Items(g)
        BY DEF Items
    <3> QED
        BY <3>1
  <2> DEFINE rest == CASE g[co].kind = "dict" -> <<<<"object", 0>>>>
                       [] g[co].kind = "code" -> <<<<"int64", 0>>, <<"int64", 1>>>>
                       [] OTHER -> <<>>
  <2>5. rest \in Seq(Items(g))
      BY <2>3, <2>4
  <2>6. Contents(g, co) = Inside(g, co) \o rest
      BY <1>2 DEF Contents
  <2> HIDE DEF rest
  <2> QED
      BY <2>2, <2>5, <2>6
<1> QED
    BY <1>1, <1>2

LEMMA ItemIs ==
    ASSUME NEW g, NEW s \in Seq(Items(g)), s # <<>>
    PROVE  /\ Head(s) \in Items(g) /\ Tail(s) \in Seq(Items(g))
           /\ Head(s)[1] = "object" => Head(s)[2] \in 0..Len(g)
           /\ Head(s)[1] # "object" => Head(s)[1] = "int64" /\ Head(s)[2] \in {0, 1}
<1>1. Head(s) \in Items(g) /\ Tail(s) \in Seq(Items(g))
    OBVIOUS
<1> QED
    BY <1>1 DEF Items

NoFloat(g) == \A o \in DOMAIN g : g[o].kind # "float"

\* The dict of the writer: every key has hash 0, so the first bucket of their slot is the last.
WriterDict(g, dict) ==
    /\ Sound(dict)
    /\ \A i \in 1..Len(dict.buckets) :
          /\ dict.buckets[i].key \in 0..Len(g) /\ dict.buckets[i].h = 0
          /\ dict.buckets[i].item \in Nat
    /\ dict.table[M!SlotOf(0, dict.mask)] = Len(dict.buckets)

\* What was recorded last, and under which offset
Latest(dict, at_, names) ==
    IF Len(dict.buckets) = 0 THEN at_ = -1
    ELSE LET b == dict.buckets[Len(dict.buckets)]
         IN  at_ = b.item /\ names[b.item] = b.key

Written(g, out, rest, offset, dict) ==
    \E S, off, last, todo, names :
       /\ Stream(g, out, S, off, last, todo, names)
       /\ todo[Len(out) + 1] = rest /\ off[Len(out) + 1] = offset
       /\ Latest(dict, last[Len(out) + 1], names)

\* What has been written, and the bytes it takes
BytesInv ==
    /\ mPc \in {"idle", "write", "read", "done", "assert"}
    /\ mPc # "idle" => mGraph \in Graphs
    /\ mStr \in Strings /\ mOut \in Seq(Tokens(mGraph))
    /\ mPc \in {"idle", "write"} => mOffset = M!Bytes(mOut) /\ mOffset <= mStr.size
    /\ mPc \notin {"idle", "write"} => mStr.size = M!Bytes(mOut)

WriteInv ==
    /\ mPc = "idle" => mOut = <<>> /\ mObjects = M!CODict_New
    /\ mPc \in {"idle", "write"} =>
          mAt = 1 /\ mHeap = <<>> /\ mStack = <<>> /\ mRs = -1 /\ WriterDict(mGraph, mObjects)
    /\ mPc = "write" => mTodo \in Seq(Items(mGraph))
    /\ mPc = "write" /\ NoFloat(mGraph) => Written(mGraph, mOut, mTodo, mOffset, mObjects)

LEMMA BytesNothing == M!Bytes(<<>>) = 0
<1>1. PICK s : s = <<>>
    OBVIOUS
<1>2. s \in Seq(Tokens(<<>>)) /\ Len(s) = 0
    BY <1>1
<1>3. PICK f \in [0..Len(s) -> Nat] :
         /\ M!Bytes(s) = f[Len(s)]
         /\ \A i \in 0..Len(s) : f[i] = IF i = 0 THEN 0 ELSE f[i - 1] + s[i].n
    BY <1>2, BytesAre, TokensSized
<1> QED
    BY <1>1, <1>2, <1>3

LEMMA WriterInit == ASSUME M!MarshalAssumption, M!Init PROVE BytesInv /\ WriteInv
<1>1. SLOTS - 1 \in Nat \ {0}
    BY DEF M!MarshalAssumption
<1>2. /\ Sound(M!CODict_New) /\ M!CODict_New.buckets = <<>>
      /\ \A slot \in 0..M!CODict_New.mask : M!CODict_New.table[slot] = 0
    BY <1>1, NewIs
<1>3. M!SlotOf(0, M!CODict_New.mask) \in 0..M!CODict_New.mask
    BY <1>1, <1>2, SlotInTable DEF Sound
<1>4. WriterDict(mGraph, M!CODict_New)
    BY <1>2, <1>3 DEF WriterDict
<1>5. WriteInv
    BY <1>4 DEF M!Init, WriteInv
<1>6. mStr \in Strings
    BY DEF M!Init, Strings
<1>7. BytesInv
    BY <1>6, BytesNothing DEF M!Init, BytesInv
<1> QED
    BY <1>5, <1>7

LEMMA BeginKeeps == ASSUME M!MarshalAssumption, BytesInv, WriteInv, M!Begin PROVE BytesInv' /\ WriteInv'
<1>1. /\ mPc = "idle" /\ mPc' = "write" /\ mGraph' \in Graphs /\ mTodo' = <<<<"object", 1>>>>
      /\ mOut' = mOut /\ mOffset' = mOffset /\ mStr' = mStr /\ mObjects' = mObjects
      /\ mAt' = mAt /\ mHeap' = mHeap /\ mStack' = mStack /\ mRs' = mRs
    BY DEF M!Begin
<1>2. mOut = <<>> /\ mOffset = M!Bytes(mOut) /\ mOffset <= mStr.size /\ mStr \in Strings /\ mOffset = 0
    BY <1>1, BytesNothing DEF BytesInv, WriteInv
<1>3. /\ mAt = 1 /\ mHeap = <<>> /\ mStack = <<>> /\ mRs = -1 /\ mObjects.buckets = <<>>
      /\ WriterDict(mGraph, mObjects)
  <2>1. SLOTS - 1 \in Nat \ {0}
      BY DEF M!MarshalAssumption
  <2> QED
      BY <1>1, <2>1, NewIs DEF WriteInv
<1>4. WriterDict(mGraph', mObjects')
    BY <1>1, <1>3 DEF WriterDict
<1>5. M!Complete(mGraph')
    BY <1>1 DEF M!MarshalAssumption
<1>6. Len(mGraph') \in Nat \ {0}
    BY <1>5 DEF M!Complete
<1>7. mTodo' \in Seq(Items(mGraph'))
  <2>1. <<"object", 1>> \in Items(mGraph')
      BY <1>6 DEF Items
  <2> QED
      BY <2>1, <1>1
<1>8. Written(mGraph', mOut', mTodo', mOffset', mObjects')
  <2> DEFINE off == [i \in {1} |-> 0]
             last == [i \in {1} |-> -1]
             todo == [i \in {1} |-> <<<<"object", 1>>>>]
             names == [x \in Nat |-> 0]
  <2>1. Stream(mGraph', <<>>, {1}, off, last, todo, names)
      BY <1>6, StreamBegins
  <2>2. off[1] = 0 /\ last[1] = -1 /\ todo[1] = <<<<"object", 1>>>>
      OBVIOUS
  <2> HIDE DEF off, last, todo, names
  <2>3. Latest(mObjects', last[1], names)
      BY <1>1, <1>3, <2>2 DEF Latest
  <2>4. Len(<<>>) + 1 = 1 /\ mOut' = <<>>
      BY <1>1, <1>2
  <2> QED
      BY <2>1, <2>2, <2>3, <2>4, <1>1, <1>2 DEF Written
<1>9. mOut' \in Seq(Tokens(mGraph'))
    BY <1>1, <1>2
<1>10. WriteInv'
    BY <1>1, <1>3, <1>4, <1>7, <1>8 DEF WriteInv
<1>11. BytesInv'
    BY <1>1, <1>2, <1>9 DEF BytesInv
<1> QED
    BY <1>10, <1>11

LEMMA WriteKeeps ==
    ASSUME M!MarshalAssumption, BytesInv, mPc = "write", mPc' = "write", mGraph' = mGraph,
           NEW t \in Seq(Tokens(mGraph)), M!Write(t)
    PROVE  BytesInv'
<1>1. mOut' = mOut \o t /\ mStr' = M!Room(M!Bytes(t)) /\ mOffset' = mOffset + M!Bytes(t)
    BY DEF M!Write
<1>2. /\ mOut \in Seq(Tokens(mGraph)) /\ mStr \in Strings /\ mGraph \in Graphs
      /\ mOffset = M!Bytes(mOut) /\ mOffset <= mStr.size
    BY DEF BytesInv
<1>3. /\ M!Bytes(mOut) \in Nat /\ M!Bytes(t) \in Nat
      /\ M!Bytes(mOut \o t) = M!Bytes(mOut) + M!Bytes(t)
    BY <1>2, TokensSized, BytesAdd
<1>4. MORE \in Nat \ {0}
    BY DEF M!MarshalAssumption
<1>5. M!Room(M!Bytes(t)) \in Strings /\ mOffset + M!Bytes(t) <= M!Room(M!Bytes(t)).size
    BY <1>2, <1>3, <1>4, RoomIs
<1>6. mOut' \in Seq(Tokens(mGraph))
    BY <1>1, <1>2
<1> QED
    BY <1>1, <1>2, <1>3, <1>5, <1>6 DEF BytesInv

LEMMA Recordable ==
    ASSUME NEW g, NEW dict, WriterDict(g, dict), SLOTS - 1 \in Nat \ {0},
           NEW co \in 0..Len(g), NEW offset \in Nat
    PROVE  LET h == M!int_hash(IF co = 0 THEN 0 ELSE 2, co)
               i == M!Lookup(dict, co, h)
               new == M!Inserted(dict, co, h, offset)
               n == Len(dict.buckets)
           IN  /\ i # 0 => i = n /\ n > 0 /\ dict.buckets[n].key = co /\ dict.buckets[n].item \in Nat
               /\ WriterDict(g, new) /\ Len(new.buckets) = n + 1 /\ n \in Nat
               /\ new.buckets[n + 1].key = co /\ new.buckets[n + 1].item = offset
<1> DEFINE n == Len(dict.buckets)
           new == M!Inserted(dict, co, 0, offset)
<1>1. M!int_hash(IF co = 0 THEN 0 ELSE 2, co) = 0
    BY DEF M!int_hash
<1>2. /\ Sound(dict) /\ dict.buckets \in Seq(Buckets) /\ n \in Nat
      /\ \A i \in 1..n : /\ dict.buckets[i].key \in 0..Len(g) /\ dict.buckets[i].h = 0
                         /\ dict.buckets[i].item \in Nat
      /\ dict.table[M!SlotOf(0, dict.mask)] = n
    BY DEF WriterDict, Sound
<1>3. co \in Int /\ 0 \in Nat /\ offset \in Int
    BY DEF M!SlotOf
<1>4. /\ n = 0 => M!Lookup(dict, co, 0) = 0
      /\ n # 0 => M!Lookup(dict, co, 0) = IF dict.buckets[n].key = co THEN n ELSE 0
  <2>1. n # 0 => dict.buckets[n].h = 0
      BY <1>2
  <2>2. LET i == dict.table[M!SlotOf(0, dict.mask)]
        IN  /\ i \in 0..Len(dict.buckets)
            /\ i = 0 => M!Lookup(dict, co, 0) = 0
            /\ i # 0 /\ dict.buckets[i].h = 0
                 => M!Lookup(dict, co, 0) = IF dict.buckets[i].key = co THEN i ELSE 0
      BY <1>2, <1>3, LookupIs
  <2> HIDE DEF n
  <2> QED
      BY <2>1, <2>2, <1>2
<1>5. /\ Sound(new)
      /\ Len(new.buckets) = n + 1
      /\ \A i \in 1..n : new.buckets[i] = dict.buckets[i]
      /\ LET b == new.buckets[Len(new.buckets)] IN b.key = co /\ b.h = 0 /\ b.item = offset
      /\ new.table[M!SlotOf(0, new.mask)] = Len(new.buckets)
    BY <1>2, <1>3, InsertedIs
<1> HIDE DEF n, new
<1>6. WriterDict(g, new)
  <2>1. \A i \in 1..n + 1 : i \in 1..n \/ i = n + 1
      BY <1>2
  <2> QED
      BY <2>1, <1>2, <1>5 DEF WriterDict
<1>7. new.buckets[n + 1].key = co /\ new.buckets[n + 1].item = offset
    BY <1>5
<1>8. M!Lookup(dict, co, 0) # 0 =>
        /\ M!Lookup(dict, co, 0) = n /\ n > 0
        /\ dict.buckets[n].key = co /\ dict.buckets[n].item \in Nat
    BY <1>2, <1>4
<1>9. Len(new.buckets) = n + 1
    BY <1>5
<1> QED
    BY <1>1, <1>2, <1>6, <1>7, <1>8, <1>9 DEF n, new

LEMMA Joined ==
    ASSUME NEW T, NEW s \in Seq(T), NEW t \in Seq(T)
    PROVE  /\ Len(s \o t) = Len(s) + Len(t) /\ Len(s) \in Nat /\ Len(t) \in Nat
OBVIOUS

LEMMA JoinedAt ==
    ASSUME NEW T, NEW s \in Seq(T), NEW t \in Seq(T)
    PROVE  \A i \in 1..Len(t) : (s \o t)[Len(s) + i] = t[i]
OBVIOUS

LEMMA WrittenNumber ==
    ASSUME NEW g, M!Complete(g), NEW out \in Seq(Tokens(g)), NEW todo, NEW offset, NEW dict,
           Written(g, out, todo, offset, dict), todo # <<>>, Head(todo)[1] = "int64",
           NEW t \in Seq(Tokens(g)), Len(t) = 1, M!Bytes(t) > 0
    PROVE  Written(g, out \o t, Tail(todo), offset + M!Bytes(t), dict)
<1> DEFINE end == Len(out) + 1
           far == end + Len(t)
<1>1. PICK S, off, last, rests, names :
         /\ Stream(g, out, S, off, last, rests, names)
         /\ rests[end] = todo /\ off[end] = offset
         /\ Latest(dict, last[end], names)
    BY DEF Written
<1>2. /\ end \in S /\ off[end] \in Nat /\ last[end] \in Int /\ last[end] < off[end]
      /\ S \in SUBSET (1..Len(out) + 1)
      /\ todo \in Seq(Items(g)) /\ names \in [Nat -> 0..Len(g)]
    BY <1>1 DEF Stream
<1>3. Len(out) \in Nat /\ M!Bytes(t) \in Nat /\ far = end + 1 /\ far \notin S /\ end \in Int
  <2>1. Len(out) \in Nat /\ far = end + 1 /\ end \in Int
      OBVIOUS
  <2>2. far \notin S
      BY <2>1, <1>2
  <2>3. M!Bytes(t) \in Nat
      BY TokensSized, BytesAdd
  <2> QED
      BY <2>1, <2>2, <2>3
<1> DEFINE off2 == With(off, S, far, off[end] + M!Bytes(t))
           last2 == With(last, S, far, last[end])
           rests2 == With(rests, S, far, Tail(todo))
           new == out \o t
<1>4. /\ last2[far] = last[end] /\ last2[end] = last[end]
      /\ rests2[far] = Tail(todo) /\ rests2[end] = todo
      /\ off2[far] = offset + M!Bytes(t)
    BY <1>1, <1>2, <1>3 DEF With
<1> HIDE DEF end, far
<1>5. NumberAt(new, last2, rests2, end, far)
    BY <1>3, <1>4 DEF NumberAt
<1>6. last[end] < off[end] + M!Bytes(t)
  <2>1. PICK b : b = M!Bytes(t)
      OBVIOUS
  <2>2. PICK x : x = last[end]
      OBVIOUS
  <2>3. PICK y : y = off[end]
      OBVIOUS
  <2>6. b \in Nat
      BY <1>3, <2>1
  <2>7. y \in Nat
      BY <1>2, <2>3
  <2>8. x \in Int
      BY <1>2, <2>2
  <2>9. x < y
      BY <1>2, <2>2, <2>3
  <2>4. b \in Nat /\ x \in Int /\ y \in Int /\ x < y
      BY <2>6, <2>7, <2>8, <2>9
  <2>5. x < y + b
      BY <2>4
  <2> QED
      BY <2>1, <2>2, <2>3, <2>5
<1>7. Tail(todo) \in Seq(Items(g))
    BY <1>2
<1>8. Longer(g, out, t, S, off, last, rests, names, Tail(todo), last[end], names, new, off2, last2, rests2)
  <2>1. end = Len(out) + 1 /\ far = Len(out) + 1 + Len(t) /\ rests[end] # <<>>
      BY <1>1 DEF end, far
  <2>2. new = out \o t
      OBVIOUS
  <2>3. Len(t) > 0 /\ M!Bytes(t) > 0
      OBVIOUS
  <2>4. last[end] \in Int
      BY <1>2
  <2>5. names \in [Nat -> 0..Len(g)] /\ \A x \in Nat : x # off[end] => names[x] = names[x]
      BY <1>2
  <2>6. off2 = With(off, S, far, off[end] + M!Bytes(t))
      OBVIOUS
  <2>7. last2 = With(last, S, far, last[end]) /\ rests2 = With(rests, S, far, Tail(todo))
      OBVIOUS
  <2> HIDE DEF new, off2, last2, rests2
  <2> QED
      BY <2>1, <2>2, <2>3, <2>4, <2>5, <2>6, <2>7, <1>1, <1>5, <1>6, <1>7 DEF Longer
<1>9. Stream(g, new, S \cup {Len(out) + 1 + Len(t)}, off2, last2, rests2, names)
  <2> HIDE DEF off2, last2, rests2, new
  <2> QED
      BY <1>8, TokensSized, StreamGrows
<1>10. Len(new) + 1 = far /\ far = Len(out) + 1 + Len(t)
  <2>0. PICK z : z = out \o t
      OBVIOUS
  <2>00. Len(z) = Len(out) + Len(t)
    <3>1. PICK T : T = Tokens(g)
        OBVIOUS
    <3>2. out \in Seq(T) /\ t \in Seq(T)
        BY <3>1
    <3> QED
        BY <2>0, <3>2, Joined
  <2>1. Len(out \o t) = Len(out) + Len(t) /\ Len(out) \in Nat /\ Len(t) \in Nat
      BY <2>0, <2>00
  <2> QED
      BY <2>1 DEF far, end
<1> HIDE DEF off2, last2, rests2, new
<1>11. Latest(dict, last2[far], names)
    BY <1>1, <1>4
<1>12. Written(g, new, Tail(todo), offset + M!Bytes(t), dict)
    BY <1>4, <1>9, <1>10, <1>11 DEF Written
<1> QED
    BY <1>12 DEF new

LEMMA WrittenReference ==
    ASSUME NEW g, M!Complete(g), NEW out \in Seq(Tokens(g)), NEW todo, NEW offset, NEW dict,
           Written(g, out, todo, offset, dict), todo # <<>>, Head(todo)[1] = "object",
           NEW n \in Nat \ {0}, n = Len(dict.buckets), dict.buckets[n].key = Head(todo)[2],
           dict.buckets[n].item \in Nat,
           NEW t \in Seq(Tokens(g)), Len(t) = 2, M!Bytes(t) > 0,
           t[1].x = "refer", t[2].x = dict.buckets[n].item
    PROVE  Written(g, out \o t, Tail(todo), offset + M!Bytes(t), dict)
<1> DEFINE end == Len(out) + 1
           far == end + Len(t)
<1>1. PICK S, off, last, rests, names :
         /\ Stream(g, out, S, off, last, rests, names)
         /\ rests[end] = todo /\ off[end] = offset
         /\ Latest(dict, last[end], names)
    BY DEF Written
<1>2. /\ end \in S /\ off[end] \in Nat /\ last[end] \in Int /\ last[end] < off[end]
      /\ S \in SUBSET (1..Len(out) + 1)
      /\ todo \in Seq(Items(g)) /\ names \in [Nat -> 0..Len(g)]
    BY <1>1 DEF Stream
<1>3. Len(out) \in Nat /\ M!Bytes(t) \in Nat /\ far = end + 2 /\ far \notin S /\ end \in Int
  <2>1. Len(out) \in Nat /\ far = end + 2 /\ end \in Int
      OBVIOUS
  <2>2. far \notin S
      BY <2>1, <1>2
  <2>3. M!Bytes(t) \in Nat
      BY TokensSized, BytesAdd
  <2> QED
      BY <2>1, <2>2, <2>3
<1> DEFINE off2 == With(off, S, far, off[end] + M!Bytes(t))
           last2 == With(last, S, far, last[end])
           rests2 == With(rests, S, far, Tail(todo))
           new == out \o t
<1>4. /\ last2[far] = last[end] /\ last2[end] = last[end]
      /\ rests2[far] = Tail(todo) /\ rests2[end] = todo
      /\ off2[far] = offset + M!Bytes(t)
    BY <1>1, <1>2, <1>3 DEF With
<1>13. /\ last[end] = dict.buckets[n].item /\ names[last[end]] = Head(todo)[2]
    BY <1>1 DEF Latest
<1>14. new[end] = t[1] /\ new[end + 1] = t[2]
  <2>0. PICK z : z = out \o t
      OBVIOUS
  <2>00. \A i \in 1..Len(t) : z[Len(out) + i] = t[i]
    <3>1. PICK T : T = Tokens(g)
        OBVIOUS
    <3>2. out \in Seq(T) /\ t \in Seq(T)
        BY <3>1
    <3> QED
      <4> HIDE DEF off2, last2, rests2, new, end, far
      <4>1. \A i \in 1..Len(t) : (out \o t)[Len(out) + i] = t[i]
          BY <3>2, JoinedAt
      <4> QED
          BY <2>0, <4>1
  <2>1. \A i \in 1..Len(t) : (out \o t)[Len(out) + i] = t[i]
      BY <2>0, <2>00
  <2>2. 1 \in 1..Len(t) /\ 2 \in 1..Len(t) /\ end + 1 = Len(out) + 2
      BY DEF end
  <2> QED
      BY <2>1, <2>2 DEF end
<1> HIDE DEF end, far, new
<1>5. ReferenceAt(new, last2, rests2, names, end, far)
    BY <1>3, <1>4, <1>13, <1>14 DEF ReferenceAt
<1>6. last[end] < off[end] + M!Bytes(t)
  <2>1. PICK b : b = M!Bytes(t)
      OBVIOUS
  <2>2. PICK x : x = last[end]
      OBVIOUS
  <2>3. PICK y : y = off[end]
      OBVIOUS
  <2>6. b \in Nat
      BY <1>3, <2>1
  <2>7. y \in Nat
      BY <1>2, <2>3
  <2>8. x \in Int
      BY <1>2, <2>2
  <2>9. x < y
      BY <1>2, <2>2, <2>3
  <2>4. b \in Nat /\ x \in Int /\ y \in Int /\ x < y
      BY <2>6, <2>7, <2>8, <2>9
  <2>5. x < y + b
      BY <2>4
  <2> QED
      BY <2>1, <2>2, <2>3, <2>5
<1>7. Tail(todo) \in Seq(Items(g))
    BY <1>2
<1>8. Longer(g, out, t, S, off, last, rests, names, Tail(todo), last[end], names, new, off2, last2, rests2)
  <2>1. end = Len(out) + 1 /\ far = Len(out) + 1 + Len(t) /\ rests[end] # <<>>
      BY <1>1 DEF end, far
  <2>2. new = out \o t
      BY DEF new
  <2>3. Len(t) > 0 /\ M!Bytes(t) > 0
      OBVIOUS
  <2>4. last[end] \in Int
      BY <1>2
  <2>5. names \in [Nat -> 0..Len(g)] /\ \A x \in Nat : x # off[end] => names[x] = names[x]
      BY <1>2
  <2>6. off2 = With(off, S, far, off[end] + M!Bytes(t))
      OBVIOUS
  <2>7. last2 = With(last, S, far, last[end]) /\ rests2 = With(rests, S, far, Tail(todo))
      OBVIOUS
  <2> HIDE DEF new, off2, last2, rests2
  <2> QED
      BY <2>1, <2>2, <2>3, <2>4, <2>5, <2>6, <2>7, <1>1, <1>5, <1>6, <1>7 DEF Longer
<1>9. Stream(g, new, S \cup {Len(out) + 1 + Len(t)}, off2, last2, rests2, names)
  <2> HIDE DEF off2, last2, rests2
  <2> QED
      BY <1>8, TokensSized, StreamGrows
<1>10. Len(new) + 1 = far /\ far = Len(out) + 1 + Len(t)
  <2>0. PICK z : z = out \o t
      OBVIOUS
  <2>00. Len(z) = Len(out) + Len(t)
    <3>1. PICK T : T = Tokens(g)
        OBVIOUS
    <3>2. out \in Seq(T) /\ t \in Seq(T)
        BY <3>1
    <3> QED
        BY <2>0, <3>2, Joined
  <2>1. Len(out \o t) = Len(out) + Len(t) /\ Len(out) \in Nat /\ Len(t) \in Nat
      BY <2>0, <2>00
  <2> QED
      BY <2>1 DEF far, end, new
<1> HIDE DEF off2, last2, rests2
<1>11. Latest(dict, last2[far], names)
    BY <1>1, <1>4
<1>12. Written(g, new, Tail(todo), offset + M!Bytes(t), dict)
    BY <1>4, <1>9, <1>10, <1>11 DEF Written
<1> QED
    BY <1>12 DEF new

LEMMA WrittenObject ==
    ASSUME NEW g, M!Complete(g), NEW out \in Seq(Tokens(g)), NEW todo, NEW offset, NEW dict,
           Written(g, out, todo, offset, dict), todo # <<>>, Head(todo)[1] = "object",
           NEW co, co = Head(todo)[2], NEW dict2, NEW n \in Nat \ {0}, n = Len(dict2.buckets),
           dict2.buckets[n].key = co, dict2.buckets[n].item = offset,
           NEW t \in Seq(Tokens(g)), t = Heading(g, co), Len(t) > 0, M!Bytes(t) > 0
    PROVE  Written(g, out \o t, Contents(g, co) \o Tail(todo), offset + M!Bytes(t), dict2)
<1> DEFINE end == Len(out) + 1
           far == end + Len(t)
           rest == Contents(g, co) \o Tail(todo)
<1>1. PICK S, off, last, rests, names :
         /\ Stream(g, out, S, off, last, rests, names)
         /\ rests[end] = todo /\ off[end] = offset
         /\ Latest(dict, last[end], names)
    BY DEF Written
<1>2. /\ end \in S /\ off[end] \in Nat /\ last[end] \in Int /\ last[end] < off[end]
      /\ S \in SUBSET (1..Len(out) + 1)
      /\ todo \in Seq(Items(g)) /\ names \in [Nat -> 0..Len(g)]
    BY <1>1 DEF Stream
<1>3. Len(out) \in Nat /\ M!Bytes(t) \in Nat /\ far \notin S /\ end \in Int
  <2>1. Len(out) \in Nat /\ far > Len(out) + 1 /\ end \in Int
      OBVIOUS
  <2>2. far \notin S
      BY <2>1, <1>2
  <2>3. M!Bytes(t) \in Nat
      BY TokensSized, BytesAdd
  <2> QED
      BY <2>1, <2>2, <2>3
<1>15. co \in 0..Len(g)
    BY <1>2, ItemIs
<1>7. rest \in Seq(Items(g))
  <2>1. Contents(g, co) \in Seq(Items(g))
      BY <1>15, ContentsItems
  <2>2. Tail(todo) \in Seq(Items(g))
      BY <1>2
  <2> QED
      BY <2>1, <2>2
<1> DEFINE off2 == With(off, S, far, off[end] + M!Bytes(t))
           last2 == With(last, S, far, off[end])
           rests2 == With(rests, S, far, rest)
           known == [names EXCEPT ![off[end]] = co]
           new == out \o t
<1>4. /\ last2[far] = off[end] /\ last2[end] = last[end]
      /\ rests2[far] = rest /\ rests2[end] = todo
      /\ off2[far] = offset + M!Bytes(t) /\ off2[end] = off[end]
    BY <1>1, <1>2, <1>3 DEF With
<1>13. /\ known[off[end]] = co /\ known \in [Nat -> 0..Len(g)]
       /\ \A x \in Nat : x # off[end] => known[x] = names[x]
    BY <1>2, <1>15
<1>14. Begins(new, end, t)
  <2>1. \A m \in 1..Len(t) : end + m - 1 = Len(out) + m /\ new[Len(out) + m] = t[m]
      BY DEF end, new
  <2> QED
      BY <2>1 DEF Begins
<1> HIDE DEF end, far, new, rest, known
<1>5. ObjectAt(g, new, off2, last2, rests2, known, end, far)
    BY <1>3, <1>4, <1>13, <1>14 DEF ObjectAt, far, rest
<1>6. off[end] < off[end] + M!Bytes(t)
  <2>1. PICK b : b = M!Bytes(t)
      OBVIOUS
  <2>2. PICK x : x = off[end]
      OBVIOUS
  <2>3. PICK y : y = off[end]
      OBVIOUS
  <2>6. b \in Nat /\ b > 0
      BY <1>3, <2>1
  <2>7. y \in Nat
      BY <1>2, <2>3
  <2>9. x = y
      BY <2>2, <2>3
  <2>8. x \in Int
      BY <2>7, <2>9
  <2>4. b \in Nat /\ b > 0 /\ x \in Int /\ y \in Int /\ x = y
      BY <2>6, <2>7, <2>8, <2>9
  <2>5. x < y + b
      BY <2>4
  <2> QED
      BY <2>1, <2>2, <2>3, <2>5
<1>8. Longer(g, out, t, S, off, last, rests, names, rest, off[end], known, new, off2, last2, rests2)
  <2>1. end = Len(out) + 1 /\ far = Len(out) + 1 + Len(t) /\ rests[end] # <<>>
      BY <1>1 DEF end, far
  <2>2. new = out \o t
      BY DEF new
  <2>3. Len(t) > 0 /\ M!Bytes(t) > 0
      OBVIOUS
  <2>41. off[end] \in Nat
      BY <1>2
  <2>4. off[end] \in Int
      BY <2>41
  <2>5. known \in [Nat -> 0..Len(g)] /\ \A x \in Nat : x # off[end] => known[x] = names[x]
      BY <1>2, <1>13
  <2>6. off2 = With(off, S, far, off[end] + M!Bytes(t))
      OBVIOUS
  <2>7. last2 = With(last, S, far, off[end]) /\ rests2 = With(rests, S, far, rest)
      OBVIOUS
  <2> HIDE DEF new, off2, last2, rests2
  <2> QED
      BY <2>1, <2>2, <2>3, <2>4, <2>5, <2>6, <2>7, <1>1, <1>5, <1>6, <1>7 DEF Longer
<1>9. Stream(g, new, S \cup {Len(out) + 1 + Len(t)}, off2, last2, rests2, known)
  <2> HIDE DEF off2, last2, rests2
  <2> QED
      BY <1>8, TokensSized, StreamGrows
<1>10. Len(new) + 1 = far /\ far = Len(out) + 1 + Len(t)
  <2>0. PICK z : z = out \o t
      OBVIOUS
  <2>00. Len(z) = Len(out) + Len(t)
    <3>1. PICK T : T = Tokens(g)
        OBVIOUS
    <3>2. out \in Seq(T) /\ t \in Seq(T)
        BY <3>1
    <3> QED
        BY <2>0, <3>2, Joined
  <2>1. Len(out \o t) = Len(out) + Len(t) /\ Len(out) \in Nat /\ Len(t) \in Nat
      BY <2>0, <2>00
  <2> QED
      BY <2>1 DEF far, end, new
<1> HIDE DEF off2, last2, rests2
<1>11. Latest(dict2, last2[far], known)
    BY <1>1, <1>4, <1>13 DEF Latest
<1>12. Written(g, new, rest, offset + M!Bytes(t), dict2)
    BY <1>4, <1>9, <1>10, <1>11 DEF Written
<1> QED
    BY <1>12 DEF new, rest

LEMMA WriteObjectKeeps ==
    ASSUME M!MarshalAssumption, BytesInv, WriteInv, M!w_object
    PROVE  BytesInv' /\ WriteInv'
<1> DEFINE co == Head(mTodo)[2]
<1>1. /\ mPc = "write" /\ mTodo # <<>> /\ Head(mTodo)[1] = "object"
      /\ mGraph' = mGraph /\ mAt' = mAt /\ mHeap' = mHeap /\ mStack' = mStack
      /\ mRs' = mRs /\ mPc' = mPc
      /\ IF M!Seen(co) # 0
         THEN /\ M!Write(<<M!Byte("refer"), M!Int64(mObjects.buckets[M!Seen(co)].item)>>)
              /\ mTodo' = Tail(mTodo)
              /\ mObjects' = mObjects
         ELSE /\ mObjects' = M!Recorded(co)
              /\ M!Write(M!Header(co))
              /\ mTodo' = M!Rest(co) \o Tail(mTodo)
    BY DEF M!w_object
<1>2. /\ mGraph \in Graphs /\ mTodo \in Seq(Items(mGraph)) /\ WriterDict(mGraph, mObjects)
      /\ mAt = 1 /\ mHeap = <<>> /\ mStack = <<>> /\ mRs = -1
      /\ mOut \in Seq(Tokens(mGraph)) /\ mOffset = M!Bytes(mOut)
    BY <1>1 DEF BytesInv, WriteInv
<1>3. M!Complete(mGraph) /\ SLOTS - 1 \in Nat \ {0}
    BY <1>2 DEF M!MarshalAssumption
<1>4. co \in 0..Len(mGraph) /\ Tail(mTodo) \in Seq(Items(mGraph))
    BY <1>1, <1>2, ItemIs
<1>5. mOffset \in Nat
  <2>1. M!Bytes(mOut) \in Nat
      BY <1>2, TokensSized, BytesAdd
  <2> QED
      BY <2>1, <1>2
<1>6. NoFloat(mGraph) => Written(mGraph, mOut, mTodo, mOffset, mObjects)
    BY <1>1 DEF WriteInv
<1> HIDE DEF co
<1> DEFINE n == Len(mObjects.buckets)
<1>7. /\ M!Seen(co) # 0 => /\ M!Seen(co) = n /\ n > 0
                           /\ mObjects.buckets[n].key = co /\ mObjects.buckets[n].item \in Nat
      /\ WriterDict(mGraph, M!Recorded(co)) /\ Len(M!Recorded(co).buckets) = n + 1 /\ n \in Nat
      /\ M!Recorded(co).buckets[n + 1].key = co /\ M!Recorded(co).buckets[n + 1].item = mOffset
  <2>1. PICK dict : dict = mObjects
      OBVIOUS
  <2>2. PICK x : x = mOffset
      OBVIOUS
  <2>3. LET h == M!int_hash(IF co = 0 THEN 0 ELSE 2, co)
            i == M!Lookup(dict, co, h)
            new == M!Inserted(dict, co, h, x)
            k == Len(dict.buckets)
        IN  /\ i # 0 => i = k /\ k > 0 /\ dict.buckets[k].key = co /\ dict.buckets[k].item \in Nat
            /\ WriterDict(mGraph, new) /\ Len(new.buckets) = k + 1 /\ k \in Nat
            /\ new.buckets[k + 1].key = co /\ new.buckets[k + 1].item = x
    <3>1. WriterDict(mGraph, dict) /\ x \in Nat
        BY <1>2, <1>5, <2>1, <2>2
    <3> QED
        BY <3>1, <1>3, <1>4, Recordable
  <2> QED
      BY <2>1, <2>2, <2>3 DEF M!Seen, M!Recorded
<1>8. CASE M!Seen(co) # 0
  <2> DEFINE x == mObjects.buckets[n].item
             t == <<M!Byte("refer"), M!Int64(x)>>
  <2>1. x \in Nat /\ n \in Nat \ {0} /\ mObjects.buckets[n].key = co /\ M!Seen(co) = n
      BY <1>7, <1>8
  <2>2. M!Write(t) /\ mTodo' = Tail(mTodo) /\ mObjects' = mObjects
      BY <1>1, <1>8, <2>1
  <2> HIDE DEF x, n
  <2>3. /\ M!Byte("refer") \in Tokens(mGraph) /\ M!Int64(x) \in Tokens(mGraph)
        /\ M!Byte("refer").n = 1 /\ M!Byte("refer").x = "refer" /\ M!Int64(x).x = x
      BY <2>1 DEF M!Byte, M!Int64, Tokens
  <2>4. t \in Seq(Tokens(mGraph)) /\ Len(t) = 2 /\ t[1].x = "refer" /\ t[2].x = x /\ t[1].n > 0
      BY <2>3
  <2> HIDE DEF t
  <2>5. M!Bytes(t) > 0
      BY <2>4, TokensSized, BytesMore
  <2>6. mOut' = mOut \o t /\ mOffset' = mOffset + M!Bytes(t)
      BY <2>2 DEF M!Write
  <2>7. BytesInv'
      BY <1>1, <2>2, <2>4, WriteKeeps
  <2>8. ASSUME NoFloat(mGraph)
        PROVE  Written(mGraph, mOut', mTodo', mOffset', mObjects')
    <3>1. /\ Written(mGraph, mOut, mTodo, mOffset, mObjects) /\ mTodo # <<>>
          /\ Head(mTodo)[1] = "object" /\ mObjects.buckets[n].key = Head(mTodo)[2]
          /\ mObjects.buckets[n].item \in Nat /\ t[2].x = mObjects.buckets[n].item
        BY <1>1, <1>6, <2>1, <2>4, <2>8 DEF x, co
    <3>2. n = Len(mObjects.buckets)
        BY DEF n
    <3>3. Written(mGraph, mOut \o t, Tail(mTodo), mOffset + M!Bytes(t), mObjects)
        BY <3>1, <3>2, <1>2, <1>3, <2>1, <2>4, <2>5, WrittenReference
    <3> QED
        BY <3>3, <2>2, <2>6
  <2>9. WriterDict(mGraph', mObjects')
      BY <1>1, <1>2, <2>2
  <2>10. WriteInv'
      BY <1>1, <1>2, <1>4, <2>2, <2>8, <2>9 DEF WriteInv
  <2> QED
      BY <2>7, <2>10
<1>9. CASE M!Seen(co) = 0
  <2> DEFINE t == M!Header(co)
  <2>1. M!Write(t) /\ mTodo' = Contents(mGraph, co) \o Tail(mTodo) /\ mObjects' = M!Recorded(co)
    <3>1. M!Rest(co) = Contents(mGraph, co)
        BY DEF M!Rest, Contents, Inside
    <3> QED
        BY <1>1, <1>9, <3>1
  <2>2. t = Heading(mGraph, co)
      BY DEF M!Header, Heading
  <2> HIDE DEF t
  <2>3. /\ t \in Seq(Tokens(mGraph))
        /\ NoFloat(mGraph) => M!Bytes(t) > 0 /\ Len(t) > 0
    <3>1. NoFloat(mGraph) => ~ (co # 0 /\ mGraph[co].kind = "float")
        BY <1>3, <1>4 DEF NoFloat, M!Complete
    <3> QED
        BY <3>1, <2>2, <1>3, <1>4, HeadingTokens
  <2>6. mOut' = mOut \o t /\ mOffset' = mOffset + M!Bytes(t)
      BY <2>1 DEF M!Write
  <2>7. BytesInv'
      BY <1>1, <2>1, <2>3, WriteKeeps
  <2>8. ASSUME NoFloat(mGraph)
        PROVE  Written(mGraph, mOut', mTodo', mOffset', mObjects')
    <3>1. /\ Written(mGraph, mOut, mTodo, mOffset, mObjects) /\ mTodo # <<>>
          /\ Head(mTodo)[1] = "object" /\ co = Head(mTodo)[2]
        BY <1>1, <1>6, <2>8 DEF co
    <3>2. PICK m : m = n + 1
        OBVIOUS
    <3>3. /\ m \in Nat \ {0} /\ m = Len(M!Recorded(co).buckets)
          /\ M!Recorded(co).buckets[m].key = co /\ M!Recorded(co).buckets[m].item = mOffset
        BY <3>2, <1>7
    <3>4. Written(mGraph, mOut \o t, Contents(mGraph, co) \o Tail(mTodo), mOffset + M!Bytes(t), M!Recorded(co))
        BY <3>1, <3>3, <1>2, <1>3, <2>2, <2>3, <2>8, WrittenObject
    <3> QED
        BY <3>4, <2>1, <2>6
  <2>9. WriterDict(mGraph', mObjects')
      BY <1>1, <1>7, <2>1
  <2>10. mTodo' \in Seq(Items(mGraph))
    <3>1. Contents(mGraph, co) \in Seq(Items(mGraph))
        BY <1>3, <1>4, ContentsItems
    <3> QED
        BY <3>1, <1>4, <2>1
  <2>11. WriteInv'
      BY <1>1, <1>2, <2>8, <2>9, <2>10 DEF WriteInv
  <2> QED
      BY <2>7, <2>11
<1> QED
    BY <1>8, <1>9

LEMMA WriteNumberKeeps ==
    ASSUME M!MarshalAssumption, BytesInv, WriteInv, M!w_int64
    PROVE  BytesInv' /\ WriteInv'
<1> DEFINE x == Head(mTodo)[2]
           t == <<M!Int64(x)>>
<1>1. /\ mPc = "write" /\ mTodo # <<>> /\ Head(mTodo)[1] = "int64"
      /\ mGraph' = mGraph /\ mAt' = mAt /\ mHeap' = mHeap /\ mStack' = mStack
      /\ mRs' = mRs /\ mPc' = mPc /\ mObjects' = mObjects /\ mTodo' = Tail(mTodo) /\ M!Write(t)
    BY DEF M!w_int64
<1>2. /\ mGraph \in Graphs /\ mTodo \in Seq(Items(mGraph)) /\ WriterDict(mGraph, mObjects)
      /\ mAt = 1 /\ mHeap = <<>> /\ mStack = <<>> /\ mRs = -1
      /\ mOut \in Seq(Tokens(mGraph))
    BY <1>1 DEF BytesInv, WriteInv
<1>3. M!Complete(mGraph) /\ SLOTS - 1 \in Nat \ {0}
    BY <1>2 DEF M!MarshalAssumption
<1>4. x \in {0, 1} /\ Tail(mTodo) \in Seq(Items(mGraph))
    BY <1>1, <1>2, ItemIs
<1> HIDE DEF x
<1>5. t \in Seq(Tokens(mGraph)) /\ Len(t) = 1 /\ t[1].n > 0
  <2>1. M!Int64(x) \in Tokens(mGraph) /\ M!Int64(x).n = 8
      BY <1>4 DEF M!Int64, Tokens
  <2> QED
      BY <2>1
<1> HIDE DEF t
<1>6. M!Bytes(t) > 0
    BY <1>5, TokensSized, BytesMore
<1>7. mOut' = mOut \o t /\ mOffset' = mOffset + M!Bytes(t)
    BY <1>1 DEF M!Write
<1>8. BytesInv'
    BY <1>1, <1>5, WriteKeeps
<1>9. ASSUME NoFloat(mGraph)
      PROVE  Written(mGraph, mOut', mTodo', mOffset', mObjects')
  <2>1. /\ Written(mGraph, mOut, mTodo, mOffset, mObjects) /\ mTodo # <<>>
        /\ Head(mTodo)[1] = "int64"
      BY <1>1, <1>9 DEF WriteInv
  <2>2. Written(mGraph, mOut \o t, Tail(mTodo), mOffset + M!Bytes(t), mObjects)
      BY <2>1, <1>2, <1>3, <1>5, <1>6, WrittenNumber
  <2> QED
      BY <2>2, <1>1, <1>7
<1>10. WriterDict(mGraph', mObjects')
    BY <1>1, <1>2
<1>11. WriteInv'
    BY <1>1, <1>2, <1>4, <1>9, <1>10 DEF WriteInv
<1> QED
    BY <1>8, <1>11

LEMMA TurnKeeps ==
    ASSUME M!MarshalAssumption, BytesInv, WriteInv, M!Turn
    PROVE  BytesInv' /\ WriteInv'
<1>1. /\ mPc = "write" /\ mPc' = "read" /\ mGraph' = mGraph /\ mOut' = mOut
      /\ mStr' = M!COBytes_Resize(mStr, mOffset)
    BY DEF M!Turn
<1>2. /\ mStr \in Strings /\ mOffset = M!Bytes(mOut) /\ mOut \in Seq(Tokens(mGraph))
      /\ mGraph \in Graphs
    BY <1>1 DEF BytesInv
<1>3. mOffset \in Nat
  <2>1. M!Bytes(mOut) \in Nat
      BY <1>2, TokensSized, BytesAdd
  <2> QED
      BY <2>1, <1>2
<1>4. M!COBytes_Resize(mStr, mOffset) \in Strings /\ M!COBytes_Resize(mStr, mOffset).size = mOffset
    BY <1>2, <1>3, ResizeIs
<1>5. WriteInv'
    BY <1>1 DEF WriteInv
<1>6. BytesInv'
    BY <1>1, <1>2, <1>4 DEF BytesInv
<1> QED
    BY <1>5, <1>6

LEMMA ReadKeepsBytes ==
    ASSUME BytesInv, M!unmarshal
    PROVE  BytesInv' /\ WriteInv'
<1>1. /\ mPc = "read" /\ mPc' \in {"read", "done", "assert"}
      /\ mGraph' = mGraph /\ mOut' = mOut /\ mStr' = mStr
    BY DEF M!unmarshal, M!ReadNull, M!ReadAtom, M!ReadSequence, M!ReadDict, M!ReadCode,
           M!ReadReference, M!ReceiveElement, M!ReceiveEntry, M!ReceivePart, M!Finish,
           M!Reading, M!Receiving
<1> QED
    BY <1>1 DEF BytesInv, WriteInv

LEMMA MarshalSteps == [Step]_allVars => [M!Next]_mVars
BY DEF Step, IntsStep, RangeStep, MarshalStep, ArenaStep, CodeStep, NoMarshal, allVars

LEMMA WriterStays == ASSUME BytesInv, WriteInv, UNCHANGED mVars PROVE BytesInv' /\ WriteInv'
<1>1. /\ mPc' = mPc /\ mGraph' = mGraph /\ mOut' = mOut /\ mStr' = mStr /\ mOffset' = mOffset
      /\ mObjects' = mObjects /\ mAt' = mAt /\ mHeap' = mHeap /\ mStack' = mStack /\ mRs' = mRs
      /\ mTodo' = mTodo
    BY DEF mVars
<1>2. WriterDict(mGraph', mObjects') = WriterDict(mGraph, mObjects)
    BY <1>1
<1>3. Written(mGraph', mOut', mTodo', mOffset', mObjects') = Written(mGraph, mOut, mTodo, mOffset, mObjects)
    BY <1>1
<1> QED
    BY <1>1, <1>2, <1>3 DEF BytesInv, WriteInv

LEMMA WriterNext ==
    ASSUME M!MarshalAssumption
    PROVE  BytesInv /\ WriteInv /\ [M!Next]_mVars => BytesInv' /\ WriteInv'
<1> SUFFICES ASSUME BytesInv, WriteInv, [M!Next]_mVars PROVE BytesInv' /\ WriteInv'
    OBVIOUS
<1>1. CASE M!Begin
    BY <1>1, BeginKeeps
<1>2. CASE M!w_object
    BY <1>2, WriteObjectKeeps
<1>3. CASE M!w_int64
    BY <1>3, WriteNumberKeeps
<1>4. CASE M!Turn
    BY <1>4, TurnKeeps
<1>5. CASE M!unmarshal
    BY <1>5, ReadKeepsBytes
<1>6. CASE UNCHANGED mVars
    BY <1>6, WriterStays
<1> QED
    BY <1>1, <1>2, <1>3, <1>4, <1>5, <1>6 DEF M!Next, M!marshal

LEMMA BytesAreEnough == ASSUME BytesInv PROVE M!BytesFit
<1>1. mStr.size < mStr.alloc \/ mStr.alloc = 0
    BY DEF BytesInv, Strings
<1> QED
    BY <1>1 DEF BytesInv, M!BytesFit

\* In every program that writes objects, whatever they are and however the bytes grow, each
\* byte has its place with a null byte behind it, and as many bytes are returned as were
\* written (w_more, COBytes_Resize).
THEOREM BytesHaveRoom == ASSUME M!MarshalAssumption PROVE Objects => []BytesFit
<1>1. Start => BytesInv /\ WriteInv
    BY WriterInit DEF Start
<1>2. BytesInv /\ WriteInv /\ [Step]_allVars => (BytesInv /\ WriteInv)'
    BY MarshalSteps, WriterNext
<1>3. BytesInv => BytesFit
    BY BytesAreEnough DEF BytesFit
<1> QED
    BY <1>1, <1>2, <1>3, PTL DEF Objects, Step

-----------------------------------------------------------------------------
(* The reader: its calls follow the stream *)

\* hobj[x] is what x in the heap stands for.
Reps(hobj, x, c) == IF c = 0 THEN x = 0 ELSE x \in DOMAIN hobj /\ hobj[x] = c

Put(f, n, x) == [j \in 0..n |-> IF j = n THEN x ELSE f[j]]

\* What is left of s behind its first i elements
Suffix(s, i, p) == i <= Len(s) /\ Len(p) = Len(s) - i /\ \A m \in 1..Len(p) : p[m] = s[i + m]

\* Of n calls, call j reads object fo[j] and waits for the result number fi[j]; when it is
\* there, pend[j] remains to be read.  The last one waits for co.
Wanted(g, fo, fi, n, co) ==
    IF n = 0 THEN co = 1 ELSE Contents(g, fo[n])[fi[n]] = <<"object", co>>

Call(g, fo, fi, pend, j) ==
    /\ fo[j] \in 1..Len(g) /\ fi[j] \in 1..Len(Contents(g, fo[j]))
    /\ pend[j] \in Seq(Items(g))
    /\ Suffix(Contents(g, fo[j]) \o pend[j - 1], fi[j], pend[j])
    /\ Wanted(g, fo, fi, j - 1, fo[j])

Calls(g, fo, fi, pend, n) ==
    pend[0] = <<>> /\ \A j \in 1..n : Call(g, fo, fi, pend, j)

\* rest remains to be read; rs is the result the last call waits for, or -1.
Answer(g, hobj, fo, fi, pend, n, rest, rs) ==
    \E co \in 0..Len(g) :
       /\ Wanted(g, fo, fi, n, co)
       /\ \/ rs = -1 /\ rest # <<>> /\ Head(rest) = <<"object", co>> /\ Tail(rest) = pend[n]
          \/ rs \in Nat /\ rest = pend[n] /\ Reps(hobj, rs, co)

LEMMA SuffixFirst ==
    ASSUME NEW T, NEW s \in Seq(T), s # <<>>
    PROVE  Suffix(s, 1, Tail(s)) /\ Head(s) = s[1] /\ Tail(s) \in Seq(T)
<1>1. /\ Len(s) \in Nat /\ Len(s) >= 1 /\ Len(Tail(s)) = Len(s) - 1
      /\ \A m \in 1..Len(s) - 1 : Tail(s)[m] = s[1 + m]
      /\ Head(s) = s[1] /\ Tail(s) \in Seq(T)
    OBVIOUS
<1> QED
    BY <1>1 DEF Suffix

LEMMA SuffixNext ==
    ASSUME NEW T, NEW s \in Seq(T), NEW i \in Nat, i < Len(s), NEW p \in Seq(T), Suffix(s, i, p)
    PROVE  p # <<>> /\ Head(p) = s[i + 1] /\ Tail(p) \in Seq(T) /\ Suffix(s, i + 1, Tail(p))
<1>1. /\ Len(s) \in Nat /\ Len(p) = Len(s) - i /\ \A m \in 1..Len(p) : p[m] = s[i + m]
    BY DEF Suffix
<1>2. p # <<>> /\ Len(p) >= 1
    BY <1>1
<1>3. /\ Len(Tail(p)) = Len(p) - 1 /\ Head(p) = p[1] /\ Tail(p) \in Seq(T)
      /\ \A m \in 1..Len(p) - 1 : Tail(p)[m] = p[m + 1]
    BY <1>2
<1>4. ASSUME NEW m \in 1..Len(Tail(p))
      PROVE  Tail(p)[m] = s[(i + 1) + m]
  <2>1. m \in 1..Len(p) - 1 /\ m + 1 \in 1..Len(p) /\ i + (m + 1) = (i + 1) + m
      BY <1>1, <1>3
  <2> QED
      BY <2>1, <1>1, <1>3
<1>5. p[1] = s[i + 1]
    BY <1>1, <1>2
<1>6. i + 1 <= Len(s) /\ Len(Tail(p)) = Len(s) - (i + 1)
    BY <1>1, <1>3
<1> QED
    BY <1>2, <1>3, <1>4, <1>5, <1>6 DEF Suffix

LEMMA SuffixBehind ==
    ASSUME NEW T, NEW a \in Seq(T), NEW b \in Seq(T), NEW p \in Seq(T), Suffix(a \o b, Len(a), p)
    PROVE  p = b
<1>1. PICK s : s = a \o b
    OBVIOUS
<1>2. Len(s) = Len(a) + Len(b) /\ Len(a) \in Nat /\ Len(b) \in Nat
    BY <1>1, Joined
<1>3. \A i \in 1..Len(b) : s[Len(a) + i] = b[i]
    BY <1>1, JoinedAt
<1>4. Len(p) = Len(s) - Len(a) /\ \A m \in 1..Len(p) : p[m] = s[Len(a) + m]
    BY <1>1 DEF Suffix
<1>5. Len(p) = Len(b)
    BY <1>2, <1>4
<1>6. \A m \in 1..Len(p) : p[m] = b[m]
    BY <1>3, <1>4, <1>5
<1> QED
    BY <1>5, <1>6, SeqEqual

LEMMA PutIs ==
    ASSUME NEW f, NEW n \in Nat, NEW x
    PROVE  Put(f, n, x)[n] = x /\ \A j \in 0..n : j # n => Put(f, n, x)[j] = f[j]
BY DEF Put

\* The same ghosts up to n
LEMMA CallsAlike ==
    ASSUME NEW g, NEW fo, NEW fi, NEW pend, NEW fo2, NEW fi2, NEW pend2, NEW n \in Nat,
           Calls(g, fo, fi, pend, n),
           pend2[0] = pend[0],
           \A j \in 1..n : fo2[j] = fo[j] /\ fi2[j] = fi[j] /\ pend2[j] = pend[j]
    PROVE  Calls(g, fo2, fi2, pend2, n)
<1>1. ASSUME NEW j \in 1..n
      PROVE  Call(g, fo2, fi2, pend2, j)
  <2>1. Call(g, fo, fi, pend, j)
      BY DEF Calls
  <2>2. j - 1 = 0 \/ j - 1 \in 1..n
      OBVIOUS
  <2>3. pend2[j - 1] = pend[j - 1] /\ (j - 1 # 0 => fo2[j - 1] = fo[j - 1] /\ fi2[j - 1] = fi[j - 1])
      BY <2>2
  <2>4. fo2[j] = fo[j] /\ fi2[j] = fi[j] /\ pend2[j] = pend[j]
      OBVIOUS
  <2> QED
      BY <2>1, <2>3, <2>4 DEF Call, Wanted
<1> QED
    BY <1>1 DEF Calls

\* The reader begins an object with something in it.
LEMMA CallOpens ==
    ASSUME NEW g, NEW hobj, NEW fo, NEW fi, NEW pend, NEW n \in Nat, Calls(g, fo, fi, pend, n),
           NEW co \in 1..Len(g), Wanted(g, fo, fi, n, co),
           Contents(g, co) \in Seq(Items(g)), Contents(g, co) # <<>>, pend[n] \in Seq(Items(g)),
           NEW kid \in 0..Len(g), Contents(g, co)[1] = <<"object", kid>>,
           NEW all, all = Contents(g, co) \o pend[n],
           NEW fo2, fo2 = Put(fo, n + 1, co), NEW fi2, fi2 = Put(fi, n + 1, 1),
           NEW pend2, pend2 = Put(pend, n + 1, Tail(all))
    PROVE  Calls(g, fo2, fi2, pend2, n + 1) /\ Answer(g, hobj, fo2, fi2, pend2, n + 1, all, -1)
<1>1. all \in Seq(Items(g)) /\ all # <<>> /\ all[1] = <<"object", kid>>
    OBVIOUS
<1>2. Suffix(all, 1, Tail(all)) /\ Head(all) = <<"object", kid>> /\ Tail(all) \in Seq(Items(g))
    BY <1>1, SuffixFirst
<1>3. /\ fo2[n + 1] = co /\ fi2[n + 1] = 1 /\ pend2[n + 1] = Tail(all)
      /\ \A j \in 0..n : fo2[j] = fo[j] /\ fi2[j] = fi[j] /\ pend2[j] = pend[j]
    BY DEF Put
<1>4. Calls(g, fo2, fi2, pend2, n)
    BY <1>3, CallsAlike
<1>5. (n + 1) - 1 = n /\ 1 \in 1..Len(Contents(g, co))
    OBVIOUS
<1>6. Wanted(g, fo2, fi2, n, co)
    BY <1>3 DEF Wanted
<1>7. Call(g, fo2, fi2, pend2, n + 1)
  <2>1. n \in 0..n /\ pend2[n] = pend[n]
      BY <1>3
  <2>2. Suffix(Contents(g, fo2[n + 1]) \o pend2[(n + 1) - 1], fi2[n + 1], pend2[n + 1])
      BY <2>1, <1>2, <1>3, <1>5
  <2>3. fo2[n + 1] \in 1..Len(g) /\ fi2[n + 1] \in 1..Len(Contents(g, fo2[n + 1]))
      BY <1>3, <1>5
  <2>4. Wanted(g, fo2, fi2, (n + 1) - 1, fo2[n + 1]) /\ pend2[n + 1] \in Seq(Items(g))
      BY <1>2, <1>3, <1>5, <1>6
  <2> QED
      BY <2>2, <2>3, <2>4 DEF Call
<1>8. Calls(g, fo2, fi2, pend2, n + 1)
  <2>1. \A j \in 1..n + 1 : j = n + 1 \/ j \in 1..n
      OBVIOUS
  <2> QED
      BY <2>1, <1>4, <1>7 DEF Calls
<1>9. Wanted(g, fo2, fi2, n + 1, kid)
    BY <1>3 DEF Wanted
<1> QED
    BY <1>1, <1>2, <1>3, <1>8, <1>9 DEF Answer

\* The last call goes on to its next result.
LEMMA CallGoesOn ==
    ASSUME NEW g, NEW hobj, NEW fo, NEW fi, NEW pend, NEW n \in Nat \ {0}, Calls(g, fo, fi, pend, n),
           Contents(g, fo[n]) \in Seq(Items(g)), pend[n - 1] \in Seq(Items(g)),
           fi[n] < Len(Contents(g, fo[n])),
           NEW kid \in 0..Len(g), Contents(g, fo[n])[fi[n] + 1] = <<"object", kid>>,
           NEW fi2, fi2 = Put(fi, n, fi[n] + 1), NEW pend2, pend2 = Put(pend, n, Tail(pend[n]))
    PROVE  Calls(g, fo, fi2, pend2, n) /\ Answer(g, hobj, fo, fi2, pend2, n, pend[n], -1)
<1>1. Call(g, fo, fi, pend, n)
    BY DEF Calls
<1>2. /\ fo[n] \in 1..Len(g) /\ fi[n] \in 1..Len(Contents(g, fo[n])) /\ pend[n] \in Seq(Items(g))
      /\ Suffix(Contents(g, fo[n]) \o pend[n - 1], fi[n], pend[n])
      /\ Wanted(g, fo, fi, n - 1, fo[n])
    BY <1>1 DEF Call
<1>3. PICK all : all = Contents(g, fo[n]) \o pend[n - 1]
    OBVIOUS
<1>4. PICK i : i = fi[n]
    OBVIOUS
<1>5. PICK T : T = Items(g)
    OBVIOUS
<1>6. PICK cs : cs = Contents(g, fo[n])
    OBVIOUS
<1>7. /\ all \in Seq(T) /\ i \in Nat /\ i < Len(all) /\ pend[n] \in Seq(T)
      /\ Suffix(all, i, pend[n]) /\ all[i + 1] = <<"object", kid>>
  <2>1. cs \in Seq(T) /\ pend[n - 1] \in Seq(T) /\ i \in 1..Len(cs) /\ i < Len(cs) /\ all = cs \o pend[n - 1]
      BY <1>2, <1>3, <1>4, <1>5, <1>6
  <2>2. all \in Seq(T) /\ i < Len(all) /\ all[i + 1] = cs[i + 1]
      BY <2>1
  <2>3. cs[i + 1] = <<"object", kid>>
      BY <1>4, <1>6
  <2>4. pend[n] \in Seq(T)
      BY <1>2, <1>5
  <2>5. Suffix(all, i, pend[n])
      BY <1>2, <1>3, <1>4
  <2>6. i \in Nat
      BY <2>1
  <2> QED
      BY <2>2, <2>3, <2>4, <2>5, <2>6
<1>8. /\ pend[n] # <<>> /\ Head(pend[n]) = <<"object", kid>> /\ Tail(pend[n]) \in Seq(T)
      /\ Suffix(all, i + 1, Tail(pend[n]))
    BY <1>7, SuffixNext
<1>9. /\ fi2[n] = i + 1 /\ pend2[n] = Tail(pend[n])
      /\ \A j \in 0..n - 1 : fi2[j] = fi[j] /\ pend2[j] = pend[j]
    BY <1>4 DEF Put
<1>10. Calls(g, fo, fi2, pend2, n - 1)
  <2>1. Calls(g, fo, fi, pend, n - 1)
      BY DEF Calls
  <2>2. pend2[0] = pend[0] /\ \A j \in 1..n - 1 : fi2[j] = fi[j] /\ pend2[j] = pend[j]
      BY <1>9
  <2>3. n - 1 \in Nat
      OBVIOUS
  <2> QED
      BY <2>1, <2>2, <2>3, CallsAlike
<1>11. Wanted(g, fo, fi2, n - 1, fo[n])
    BY <1>2, <1>9 DEF Wanted
<1>12. Call(g, fo, fi2, pend2, n)
  <2>1. fi2[n] \in 1..Len(Contents(g, fo[n]))
      BY <1>2, <1>4, <1>9
  <2>2. pend2[n - 1] = pend[n - 1]
      BY <1>9
  <2>3. Suffix(Contents(g, fo[n]) \o pend2[n - 1], fi2[n], pend2[n])
      BY <2>2, <1>3, <1>8, <1>9
  <2>4. pend2[n] \in Seq(Items(g))
      BY <1>5, <1>8, <1>9
  <2> QED
      BY <2>1, <2>3, <2>4, <1>2, <1>11 DEF Call
<1>13. Calls(g, fo, fi2, pend2, n)
  <2>1. \A j \in 1..n : j = n \/ j \in 1..n - 1
      OBVIOUS
  <2> QED
      BY <2>1, <1>10, <1>12 DEF Calls
<1>14. Wanted(g, fo, fi2, n, kid)
    BY <1>4, <1>9 DEF Wanted
<1> QED
    BY <1>8, <1>9, <1>13, <1>14 DEF Answer

\* The last call returns x.
LEMMA CallReturns ==
    ASSUME NEW g, NEW hobj, NEW fo, NEW fi, NEW pend, NEW n \in Nat \ {0}, Calls(g, fo, fi, pend, n),
           Contents(g, fo[n]) \in Seq(Items(g)), pend[n - 1] \in Seq(Items(g)),
           NEW rest \in Seq(Items(g)),
           Suffix(Contents(g, fo[n]) \o pend[n - 1], Len(Contents(g, fo[n])), rest),
           NEW x \in Nat, Reps(hobj, x, fo[n])
    PROVE  Calls(g, fo, fi, pend, n - 1) /\ Answer(g, hobj, fo, fi, pend, n - 1, rest, x)
<1>1. Calls(g, fo, fi, pend, n - 1)
    BY DEF Calls
<1>2. rest = pend[n - 1]
  <2>1. PICK T : T = Items(g)
      OBVIOUS
  <2>2. PICK cs : cs = Contents(g, fo[n])
      OBVIOUS
  <2>3. cs \in Seq(T) /\ pend[n - 1] \in Seq(T) /\ rest \in Seq(T) /\ Suffix(cs \o pend[n - 1], Len(cs), rest)
      BY <2>1, <2>2
  <2> QED
      BY <2>3, SuffixBehind
<1>3. Wanted(g, fo, fi, n - 1, fo[n]) /\ fo[n] \in 0..Len(g)
    BY DEF Calls, Call
<1> QED
    BY <1>1, <1>2, <1>3 DEF Answer

LEMMA PendIs ==
    ASSUME NEW g, NEW fo, NEW fi, NEW pend, NEW n \in Nat, Calls(g, fo, fi, pend, n), NEW j \in 0..n
    PROVE  pend[j] \in Seq(Items(g))
<1>1. j = 0 \/ j \in 1..n
    OBVIOUS
<1>2. <<>> \in Seq(Items(g))
    OBVIOUS
<1> QED
    BY <1>1, <1>2 DEF Calls, Call

\* What the heap holds for an object
ReadAs(g, o) == IF g[o].kind = "int" THEN M!AsLong(g[o].val) ELSE g[o].val

Values(g) == {ReadAs(g, o) : o \in DOMAIN g}

Nodes(g) == [kind : M!Types, val : Values(g), kids : Seq(Nat)]

FrameRecords == [co : Int, i : Nat, n : Int, got : Seq(Nat)]

\* The first k of kids stand for what o contains.
Firsts(g, hobj, kids, k, o) == \A m \in 1..k : Reps(hobj, kids[m], g[o].kids[m])

Full(g, heap, hobj, h) ==
    /\ Len(heap[h].kids) = Len(g[hobj[h]].kids)
    /\ Firsts(g, hobj, heap[h].kids, Len(heap[h].kids), hobj[h])

\* Every object that is read is like that of the graph, but for those still being read.
Heap(g, heap, hobj, stack) ==
    /\ heap \in Seq(Nodes(g)) /\ hobj \in [1..Len(heap) -> 1..Len(g)]
    /\ \A h \in 1..Len(heap) :
          /\ heap[h].kind = g[hobj[h]].kind /\ heap[h].val = ReadAs(g, hobj[h])
          /\ Full(g, heap, hobj, h) \/ \E j \in 1..Len(stack) : stack[j].co = h

\* A call that reads a list or a tuple, a dict, a code object
SequenceCall(g, heap, hobj, f, o, i) ==
    /\ f.co \in DOMAIN hobj /\ hobj[f.co] = o /\ g[o].kind \in {"list", "tuple"}
    /\ f.n = Len(g[o].kids) /\ f.i + 1 = i /\ i <= f.n /\ Len(heap[f.co].kids) = f.n
    /\ Firsts(g, hobj, heap[f.co].kids, f.i, o)

DictCall(g, heap, hobj, f, o, i) ==
    /\ f.co \in DOMAIN hobj /\ hobj[f.co] = o /\ g[o].kind = "dict" /\ f.n = -1
    /\ i = Len(heap[f.co].kids) + Len(f.got) + 1 /\ i <= Len(g[o].kids) + 1
    /\ Len(heap[f.co].kids) % 2 = 0
    /\ Firsts(g, hobj, heap[f.co].kids, Len(heap[f.co].kids), o)
    /\ f.got = <<>> \/ (Len(f.got) = 1 /\ Reps(hobj, f.got[1], g[o].kids[Len(heap[f.co].kids) + 1]))

CodeCall(g, hobj, names, f, o, i) ==
    /\ f.co < 0 /\ -f.co - 1 \in Nat /\ names[-f.co - 1] = o /\ g[o].kind = "code"
    /\ f.n = 6 /\ i = Len(f.got) + 1 /\ i <= 6
    /\ Firsts(g, hobj, f.got, Len(f.got), o)

Frame(g, heap, hobj, names, f, o, i) ==
    \/ SequenceCall(g, heap, hobj, f, o, i)
    \/ DictCall(g, heap, hobj, f, o, i)
    \/ CodeCall(g, hobj, names, f, o, i)

Frames(g, heap, hobj, names, stack, fo, fi) ==
    /\ stack \in Seq(FrameRecords)
    /\ \A j \in 1..Len(stack) : Frame(g, heap, hobj, names, stack[j], fo[j], fi[j])
    /\ \A j \in 1..Len(stack) : \A k \in 1..Len(stack) : j # k /\ stack[j].co > 0 => stack[j].co # stack[k].co

\* The dict of the reader: its buckets are right, and without code objects it finds what was
\* recorded last.
Found(g, dict, names, hobj, late) ==
    /\ Sound(dict)
    /\ \A i \in 1..Len(dict.buckets) :
          LET b == dict.buckets[i]
          IN  b.key \in Nat /\ b.h = b.key /\ Reps(hobj, b.item, names[b.key])
    /\ (\A o \in DOMAIN g : g[o].kind # "code") /\ late # -1 =>
          /\ Len(dict.buckets) > 0 /\ dict.buckets[Len(dict.buckets)].key = late
          /\ dict.table[M!SlotOf(late, dict.mask)] = Len(dict.buckets)

\* One more object in the heap
More(heap, hobj, node, o, heap2, hobj2) ==
    /\ heap2 = Append(heap, node)
    /\ hobj2 = [h \in 1..Len(heap) + 1 |-> IF h = Len(heap) + 1 THEN o ELSE hobj[h]]

LEMMA RepsMore ==
    ASSUME NEW g, NEW heap, NEW hobj, Len(heap) \in Nat, hobj \in [1..Len(heap) -> 1..Len(g)], NEW node, NEW o,
           NEW heap2, NEW hobj2, More(heap, hobj, node, o, heap2, hobj2)
    PROVE  /\ \A x, c : Reps(hobj, x, c) => Reps(hobj2, x, c)
           /\ \A kids, k, p : Firsts(g, hobj, kids, k, p) => Firsts(g, hobj2, kids, k, p)
<1>1. \A x, c : Reps(hobj, x, c) => Reps(hobj2, x, c)
    BY DEF Reps, More
<1> QED
    BY <1>1 DEF Firsts

LEMMA HeapMore ==
    ASSUME NEW g, NEW heap, NEW hobj, NEW stack, Heap(g, heap, hobj, stack), NEW node \in Nodes(g),
           NEW o \in 1..Len(g), node.kind = g[o].kind, node.val = ReadAs(g, o),
           NEW heap2, NEW hobj2, More(heap, hobj, node, o, heap2, hobj2),
           NEW stack2, \A j \in 1..Len(stack) : \E k \in 1..Len(stack2) : stack2[k].co = stack[j].co,
           \/ Len(node.kids) = Len(g[o].kids) /\ Firsts(g, hobj2, node.kids, Len(node.kids), o)
           \/ \E k \in 1..Len(stack2) : stack2[k].co = Len(heap) + 1
    PROVE  /\ Heap(g, heap2, hobj2, stack2) /\ Len(heap2) = Len(heap) + 1 /\ Len(heap) \in Nat
           /\ hobj2[Len(heap2)] = o /\ Reps(hobj2, Len(heap2), o)
           /\ \A h \in 1..Len(heap) : heap2[h] = heap[h] /\ hobj2[h] = hobj[h]
           /\ heap2[Len(heap) + 1] = node
<1> DEFINE n == Len(heap)
<1>1. /\ heap \in Seq(Nodes(g)) /\ n \in Nat /\ hobj \in [1..n -> 1..Len(g)]
      /\ \A h \in 1..n :
          /\ heap[h].kind = g[hobj[h]].kind /\ heap[h].val = ReadAs(g, hobj[h])
          /\ Full(g, heap, hobj, h) \/ \E j \in 1..Len(stack) : stack[j].co = h
  <2>1. heap \in Seq(Nodes(g)) /\ hobj \in [1..n -> 1..Len(g)]
      BY DEF Heap
  <2>2. n \in Nat
      BY <2>1
  <2> QED
      BY <2>1, <2>2 DEF Heap
<1>2. /\ heap2 \in Seq(Nodes(g)) /\ Len(heap2) = n + 1 /\ heap2[n + 1] = node
      /\ \A h \in 1..n : heap2[h] = heap[h]
    BY <1>1 DEF More
<1>3. /\ hobj2 \in [1..n + 1 -> 1..Len(g)] /\ hobj2[n + 1] = o
      /\ \A h \in 1..n : hobj2[h] = hobj[h]
  <2>1. hobj2 = [h \in 1..n + 1 |-> IF h = n + 1 THEN o ELSE hobj[h]]
      BY DEF More
  <2>2. \A h \in 1..n : h \in 1..n + 1 /\ h # n + 1 /\ n + 1 \in 1..n + 1
      BY <1>1
  <2>3. n + 1 \in 1..n + 1 /\ \A h \in 1..n + 1 : h = n + 1 \/ h \in 1..n
      BY <1>1
  <2> HIDE DEF n
  <2> QED
      BY <2>1, <2>2, <2>3, <1>1
<1>4. /\ \A x, c : Reps(hobj, x, c) => Reps(hobj2, x, c)
      /\ \A kids, k, p : Firsts(g, hobj, kids, k, p) => Firsts(g, hobj2, kids, k, p)
    BY <1>1, RepsMore
<1>5. ASSUME NEW h \in 1..n
      PROVE  /\ heap2[h].kind = g[hobj2[h]].kind /\ heap2[h].val = ReadAs(g, hobj2[h])
             /\ Full(g, heap2, hobj2, h) \/ \E j \in 1..Len(stack2) : stack2[j].co = h
  <2>1. heap2[h] = heap[h] /\ hobj2[h] = hobj[h]
      BY <1>2, <1>3
  <2>2. Full(g, heap, hobj, h) => Full(g, heap2, hobj2, h)
      BY <2>1, <1>4 DEF Full
  <2> QED
      BY <2>1, <2>2, <1>1
<1>6. /\ heap2[n + 1].kind = g[hobj2[n + 1]].kind /\ heap2[n + 1].val = ReadAs(g, hobj2[n + 1])
      /\ Full(g, heap2, hobj2, n + 1) \/ \E j \in 1..Len(stack2) : stack2[j].co = n + 1
    BY <1>2, <1>3 DEF Full
<1>7. Heap(g, heap2, hobj2, stack2)
  <2>1. \A h \in 1..n + 1 : h = n + 1 \/ h \in 1..n
      BY <1>1
  <2> HIDE DEF n
  <2> QED
      BY <2>1, <1>2, <1>3, <1>5, <1>6 DEF Heap
<1>8. Reps(hobj2, n + 1, o)
  <2>1. n + 1 \in DOMAIN hobj2 /\ o # 0
      BY <1>1, <1>3
  <2> QED
      BY <2>1, <1>3 DEF Reps
<1> QED
    BY <1>1, <1>2, <1>3, <1>7, <1>8

LEMMA FramesMore ==
    ASSUME NEW g, NEW heap, NEW hobj, NEW names, NEW stack, NEW fo, NEW fi,
           Frames(g, heap, hobj, names, stack, fo, fi), Len(heap) \in Nat,
           hobj \in [1..Len(heap) -> 1..Len(g)], NEW node, NEW o,
           NEW heap2, NEW hobj2, More(heap, hobj, node, o, heap2, hobj2),
           \A h \in 1..Len(heap) : heap2[h] = heap[h] /\ hobj2[h] = hobj[h]
    PROVE  Frames(g, heap2, hobj2, names, stack, fo, fi)
<1>1. /\ \A x, c : Reps(hobj, x, c) => Reps(hobj2, x, c)
      /\ \A kids, k, p : Firsts(g, hobj, kids, k, p) => Firsts(g, hobj2, kids, k, p)
    BY RepsMore
<1>2. DOMAIN hobj = 1..Len(heap) /\ \A h \in DOMAIN hobj : h \in DOMAIN hobj2 /\ heap2[h] = heap[h] /\ hobj2[h] = hobj[h]
    BY DEF More
<1>3. ASSUME NEW f, NEW p, NEW i, Frame(g, heap, hobj, names, f, p, i)
      PROVE  Frame(g, heap2, hobj2, names, f, p, i)
  <2>1. CASE SequenceCall(g, heap, hobj, f, p, i)
    <3>1. SequenceCall(g, heap2, hobj2, f, p, i)
        BY <2>1, <1>1, <1>2 DEF SequenceCall
    <3> QED
        BY <3>1 DEF Frame
  <2>2. CASE DictCall(g, heap, hobj, f, p, i)
    <3>1. DictCall(g, heap2, hobj2, f, p, i)
        BY <2>2, <1>1, <1>2 DEF DictCall
    <3> QED
        BY <3>1 DEF Frame
  <2>3. CASE CodeCall(g, hobj, names, f, p, i)
    <3>1. CodeCall(g, hobj2, names, f, p, i)
        BY <2>3, <1>1 DEF CodeCall
    <3> QED
        BY <3>1 DEF Frame
  <2> QED
      BY <1>3, <2>1, <2>2, <2>3 DEF Frame
<1> QED
    BY <1>3 DEF Frames

LEMMA FoundMore ==
    ASSUME SLOTS - 1 \in Nat \ {0}, NEW g, NEW dict, NEW names, NEW hobj, NEW late,
           Found(g, dict, names, hobj, late), NEW hobj2, \A x, c : Reps(hobj, x, c) => Reps(hobj2, x, c),
           NEW x \in Nat, NEW item \in Int, Reps(hobj2, item, names[x]),
           NEW new, new = M!Inserted(dict, x, M!int_hash(1, x), item),
           NEW later, later = x \/ \E o \in DOMAIN g : g[o].kind = "code"
    PROVE  Found(g, new, names, hobj2, later)
<1>1. M!int_hash(1, x) = x /\ x \in Int
    BY DEF M!int_hash
<1>2. /\ Sound(dict)
      /\ \A i \in 1..Len(dict.buckets) :
            /\ dict.buckets[i].key \in Nat /\ dict.buckets[i].h = dict.buckets[i].key
            /\ Reps(hobj, dict.buckets[i].item, names[dict.buckets[i].key])
    BY DEF Found
<1>3. /\ Sound(new)
      /\ Len(new.buckets) = Len(dict.buckets) + 1
      /\ \A i \in 1..Len(dict.buckets) : new.buckets[i] = dict.buckets[i]
      /\ LET b == new.buckets[Len(new.buckets)] IN b.key = x /\ b.h = x /\ b.item = item
      /\ new.table[M!SlotOf(x, new.mask)] = Len(new.buckets)
    BY <1>1, <1>2, InsertedIs
<1>4. Len(dict.buckets) \in Nat
    BY <1>2 DEF Sound
<1>5. ASSUME NEW i \in 1..Len(new.buckets)
      PROVE  /\ new.buckets[i].key \in Nat /\ new.buckets[i].h = new.buckets[i].key
             /\ Reps(hobj2, new.buckets[i].item, names[new.buckets[i].key])
  <2>1. CASE i = Len(new.buckets)
      BY <2>1, <1>3
  <2>2. CASE i # Len(new.buckets)
    <3>1. i \in 1..Len(dict.buckets)
        BY <2>2, <1>3, <1>4
    <3> QED
        BY <3>1, <1>2, <1>3
  <2> QED
      BY <2>1, <2>2
<1>6. later = x => /\ Len(new.buckets) > 0 /\ new.buckets[Len(new.buckets)].key = later
                   /\ new.table[M!SlotOf(later, new.mask)] = Len(new.buckets)
    BY <1>3, <1>4
<1> QED
    BY <1>3, <1>5, <1>6 DEF Found

LEMMA FoundIs ==
    ASSUME SLOTS - 1 \in Nat \ {0}, NEW g, NEW dict, NEW names, NEW hobj, NEW n \in Nat,
           hobj \in [1..n -> 1..Len(g)], NEW late \in Nat, Found(g, dict, names, hobj, late),
           NEW p, p = M!Lookup(dict, late, M!int_hash(1, late))
    PROVE  /\ p # 0 => dict.buckets[p].item \in Nat /\ Reps(hobj, dict.buckets[p].item, names[late])
           /\ p = 0 => \E o \in DOMAIN g : g[o].kind = "code"
<1>1. M!int_hash(1, late) = late /\ late \in Int
    BY DEF M!int_hash
<1>2. Sound(dict)
    BY DEF Found
<1>3. LET i == dict.table[M!SlotOf(late, dict.mask)]
      IN  /\ i \in 0..Len(dict.buckets)
          /\ i = 0 => M!Lookup(dict, late, late) = 0
          /\ i # 0 /\ dict.buckets[i].h = late
               => M!Lookup(dict, late, late) = IF dict.buckets[i].key = late THEN i ELSE 0
          /\ \/ M!Lookup(dict, late, late) = 0
             \/ /\ M!Lookup(dict, late, late) \in 1..Len(dict.buckets)
                /\ dict.buckets[M!Lookup(dict, late, late)].key = late
    BY <1>1, <1>2, LookupIs
<1>4. ASSUME p # 0
      PROVE  dict.buckets[p].item \in Nat /\ Reps(hobj, dict.buckets[p].item, names[late])
  <2>1. p \in 1..Len(dict.buckets) /\ dict.buckets[p].key = late
      BY <1>1, <1>3, <1>4
  <2>2. Reps(hobj, dict.buckets[p].item, names[late])
      BY <2>1 DEF Found
  <2>3. \A x \in DOMAIN hobj : x \in Nat
      OBVIOUS
  <2> QED
      BY <2>2, <2>3 DEF Reps
<1>5. ASSUME \A o \in DOMAIN g : g[o].kind # "code"
      PROVE  p # 0
  <2> DEFINE n2 == Len(dict.buckets)
  <2>1. n2 > 0 /\ dict.buckets[n2].key = late /\ dict.table[M!SlotOf(late, dict.mask)] = n2
      BY <1>5 DEF Found
  <2>2. n2 \in Nat
      BY <1>2 DEF Sound
  <2>3. dict.buckets[n2].h = late
      BY <2>1, <2>2 DEF Found
  <2> HIDE DEF n2
  <2> QED
      BY <2>1, <2>2, <2>3, <1>1, <1>3
<1> QED
    BY <1>4, <1>5

ReadState(g, out, place, offset, dict, heap, stack, rs, S, off, last, rests, names, hobj, fo, fi, pend) ==
    /\ Stream(g, out, S, off, last, rests, names) /\ rests[Len(out) + 1] = <<>>
    /\ place \in S /\ offset = off[place]
    /\ Found(g, dict, names, hobj, last[place])
    /\ Heap(g, heap, hobj, stack)
    /\ Frames(g, heap, hobj, names, stack, fo, fi)
    /\ Calls(g, fo, fi, pend, Len(stack))
    /\ Answer(g, hobj, fo, fi, pend, Len(stack), rests[place], rs)

\* What is read of a heading
LEMMA HeadingAt ==
    ASSUME NEW g, M!Complete(g), NoFloat(g), NEW co \in 0..Len(g), NEW out, NEW i \in Nat, Begins(out, i, Heading(g, co))
    PROVE  /\ out[i].x = (IF co = 0 THEN "null" ELSE g[co].kind)
           /\ co = 0 => Len(Heading(g, co)) = 1
           /\ co # 0 =>
                 /\ g[co].kind \in M!Types \ {"float"}
                 /\ g[co].kind \in {"none", "false", "true", "dict", "code"} => Len(Heading(g, co)) = 1
                 /\ g[co].kind = "int" => Len(Heading(g, co)) = 2 /\ out[i + 1].x = M!AsLong(g[co].val)
                 /\ g[co].kind \in {"list", "tuple"} => Len(Heading(g, co)) = 2 /\ out[i + 1].x = Len(g[co].kids)
                 /\ g[co].kind \in {"str", "bytes"} => Len(Heading(g, co)) = 3 /\ out[i + 2].x = g[co].val
<1> DEFINE h == Heading(g, co)
<1>1. \A m \in 1..Len(h) : out[i + m - 1] = h[m]
    BY DEF Begins
<1>2. i + 1 - 1 = i /\ i + 2 - 1 = i + 1 /\ i + 3 - 1 = i + 2
    OBVIOUS
<1>3. CASE co = 0
  <2>1. h = <<M!Byte("null")>>
      BY <1>3 DEF Heading
  <2>2. Len(h) = 1 /\ h[1].x = "null"
      BY <2>1 DEF M!Byte
  <2> HIDE DEF h
  <2>3. out[i] = h[1]
      BY <2>2, <1>1, <1>2
  <2> QED
      BY <1>3, <2>2, <2>3 DEF h
<1>4. CASE co # 0
  <2>1. g[co].kind \in M!Types \ {"float"}
      BY <1>4, WholeIs DEF M!Whole, NoFloat
  <2>2. CASE g[co].kind \in {"none", "false", "true", "dict", "code"}
    <3>1. h = <<M!Byte(g[co].kind)>>
        BY <1>4, <2>2 DEF Heading
    <3>2. Len(h) = 1 /\ h[1].x = g[co].kind
        BY <3>1 DEF M!Byte
    <3> HIDE DEF h
    <3>3. out[i] = h[1]
        BY <3>2, <1>1, <1>2
    <3> QED
        BY <1>4, <2>1, <2>2, <3>2, <3>3 DEF h
  <2>3. CASE g[co].kind = "int"
    <3>1. h = <<M!Byte("int"), M!Int64(M!AsLong(g[co].val))>>
        BY <1>4, <2>3 DEF Heading
    <3>2. Len(h) = 2 /\ h[1].x = "int" /\ h[2].x = M!AsLong(g[co].val)
        BY <3>1 DEF M!Byte, M!Int64
    <3> HIDE DEF h
    <3>3. out[i] = h[1] /\ out[i + 1] = h[2]
        BY <3>2, <1>1, <1>2
    <3> QED
        BY <1>4, <2>1, <2>3, <3>2, <3>3 DEF h
  <2>4. CASE g[co].kind \in {"list", "tuple"}
    <3>1. h = <<M!Byte(g[co].kind), M!Int64(Len(g[co].kids))>>
        BY <1>4, <2>4 DEF Heading
    <3>2. Len(h) = 2 /\ h[1].x = g[co].kind /\ h[2].x = Len(g[co].kids)
        BY <3>1 DEF M!Byte, M!Int64
    <3> HIDE DEF h
    <3>3. out[i] = h[1] /\ out[i + 1] = h[2]
        BY <3>2, <1>1, <1>2
    <3> QED
        BY <1>4, <2>1, <2>4, <3>2, <3>3 DEF h
  <2>5. CASE g[co].kind \in {"str", "bytes"}
    <3>1. h = <<M!Byte(g[co].kind), M!Int64(Len(g[co].val)), [n |-> Len(g[co].val), x |-> g[co].val]>>
        BY <1>4, <2>5 DEF Heading
    <3>2. Len(h) = 3 /\ h[1].x = g[co].kind /\ h[3].x = g[co].val
        BY <3>1 DEF M!Byte
    <3> HIDE DEF h
    <3>3. out[i] = h[1] /\ out[i + 2] = h[3]
        BY <3>2, <1>1, <1>2
    <3> QED
        BY <1>4, <2>1, <2>5, <3>2, <3>3 DEF h
  <2> QED
      BY <2>1, <2>2, <2>3, <2>4, <2>5 DEF M!Types
<1> QED
    BY <1>3, <1>4

\* At the reader's place there is a reference to what was recorded last, or an object; behind
\* remains to be read behind it, and k is the next place.
AtReference(last, rests, names, behind, k, co) ==
    /\ M!Token(0).x = "refer" /\ M!Token(1).x = last[mAt] /\ last[mAt] \in Nat
    /\ names[last[mAt]] = co
    /\ k = mAt + 2 /\ rests[k] = behind /\ last[k] = last[mAt]

AtObject(g, off, last, rests, names, behind, k, co) ==
    /\ M!Token(0).x = (IF co = 0 THEN "null" ELSE g[co].kind)
    /\ co = 0 => k = mAt + 1
    /\ co # 0 =>
          /\ g[co].kind \in M!Types \ {"float"}
          /\ g[co].kind \in {"none", "false", "true", "dict", "code"} => k = mAt + 1
          /\ g[co].kind = "int" => k = mAt + 2 /\ M!Token(1).x = M!AsLong(g[co].val)
          /\ g[co].kind \in {"list", "tuple"} => k = mAt + 2 /\ M!Token(1).x = Len(g[co].kids)
          /\ g[co].kind \in {"str", "bytes"} => k = mAt + 3 /\ M!Token(2).x = g[co].val
    /\ names[off[mAt]] = co
    /\ rests[k] = Contents(g, co) \o behind /\ last[k] = off[mAt]

\* A step that consumes what is there gets to the next place.
Reaches(off, k) == \A c \in Nat : k = mAt + c /\ M!Consume(c) => mAt' = k /\ mOffset' = off[k]

LEMMA Consumed ==
    ASSUME NEW T, Sized(T), mOut \in Seq(T), NEW off, mAt \in 1..Len(mOut), mOffset = off[mAt],
           NEW k \in Int, k - 1 \in mAt..Len(mOut), off[k] = off[mAt] + M!Bytes(SubSeq(mOut, mAt, k - 1))
    PROVE  Reaches(off, k)
<1> SUFFICES ASSUME NEW c \in Nat, k = mAt + c, M!Consume(c)
             PROVE  mAt' = k /\ mOffset' = off[k]
    BY DEF Reaches
<1>1. /\ mAt' = mAt + c
      /\ mOffset' = mOffset + M!Bytes(SubSeq(mOut, mAt, M!Smaller(mAt + c - 1, Len(mOut))))
    BY DEF M!Consume
<1>2. Len(mOut) \in Nat /\ mAt + c - 1 = k - 1
    OBVIOUS
<1>3. M!Smaller(k - 1, Len(mOut)) = k - 1
    BY <1>2 DEF M!Smaller
<1> QED
    BY <1>1, <1>2, <1>3

LEMMA TokensAt ==
    ASSUME NEW T, mOut \in Seq(T), mAt \in 1..Len(mOut), NEW k \in Int, k - 1 \in mAt..Len(mOut)
    PROVE  \A i \in Nat : mAt + i < k => M!Token(i) = mOut[mAt + i]
<1>1. \A i \in Nat : mAt + i < k => mAt + i \in DOMAIN mOut
    OBVIOUS
<1> QED
    BY <1>1 DEF M!Token

LEMMA PlaceIs ==
    ASSUME NEW g, M!Complete(g), NoFloat(g), mOut \in Seq(Tokens(g)), NEW S, NEW off, NEW last, NEW rests, NEW names,
           Stream(g, mOut, S, off, last, rests, names), rests[Len(mOut) + 1] = <<>>,
           mAt \in S, mOffset = off[mAt],
           NEW co \in 0..Len(g), rests[mAt] # <<>>, Head(rests[mAt]) = <<"object", co>>,
           NEW behind, behind = Tail(rests[mAt])
    PROVE  \E k \in S :
              /\ Reaches(off, k)
              /\ \/ AtReference(last, rests, names, behind, k, co)
                 \/ AtObject(g, off, last, rests, names, behind, k, co)
<1> DEFINE i == mAt
<1>1. /\ S \in SUBSET (1..Len(mOut) + 1) /\ Len(mOut) \in Nat
      /\ off \in [S -> Nat] /\ last \in [S -> Int]
  <2>1. Len(mOut) \in Nat
      OBVIOUS
  <2> QED
      BY <2>1 DEF Stream
<1>2. i # Len(mOut) + 1 /\ i \in 1..Len(mOut) /\ i \in Nat
    BY <1>1
<1>3. PICK k \in S : Piece(g, mOut, off, last, rests, names, i, k)
    BY <1>2 DEF Stream
<1>4. /\ k - 1 \in i..Len(mOut) /\ off[k] = off[i] + M!Bytes(SubSeq(mOut, i, k - 1)) /\ k \in Int
      /\ \/ NumberAt(mOut, last, rests, i, k)
         \/ ReferenceAt(mOut, last, rests, names, i, k)
         \/ ObjectAt(g, mOut, off, last, rests, names, i, k)
    BY <1>1, <1>3 DEF Piece
<1>5. Reaches(off, k)
    BY <1>2, <1>4, TokensSized, Consumed
<1>6. \A j \in Nat : mAt + j < k => M!Token(j) = mOut[mAt + j]
  <2>1. PICK T : T = Tokens(g)
      OBVIOUS
  <2>2. mOut \in Seq(T)
      BY <2>1
  <2> QED
      BY <2>2, <1>2, <1>4, TokensAt
<1>7. ~ NumberAt(mOut, last, rests, i, k)
    BY DEF NumberAt
<1>8. CASE ReferenceAt(mOut, last, rests, names, i, k)
  <2>1. /\ mOut[i].x = "refer" /\ mOut[i + 1].x = last[i]
        /\ last[i] \in Nat /\ names[last[i]] = co
        /\ k = i + 2 /\ rests[k] = behind /\ last[k] = last[i]
      BY <1>8 DEF ReferenceAt
  <2>2. M!Token(0) = mOut[i] /\ M!Token(1) = mOut[i + 1]
    <3>1. 0 \in Nat /\ 1 \in Nat /\ mAt + 0 < k /\ mAt + 1 < k /\ mAt + 0 = i
        BY <1>2, <2>1
    <3> QED
        BY <3>1, <1>6
  <2>3. AtReference(last, rests, names, behind, k, co)
      BY <2>1, <2>2 DEF AtReference
  <2> QED
      BY <2>3, <1>5
<1>9. CASE ObjectAt(g, mOut, off, last, rests, names, i, k)
  <2>1. /\ Begins(mOut, i, Heading(g, co)) /\ names[off[i]] = co
        /\ k = i + Len(Heading(g, co)) /\ rests[k] = Contents(g, co) \o behind /\ last[k] = off[i]
    <3>1. Head(rests[i])[2] = co
        OBVIOUS
    <3>2. PICK c : c = Head(rests[i])[2]
        OBVIOUS
    <3>3. /\ Begins(mOut, i, Heading(g, c)) /\ names[off[i]] = c
          /\ k = i + Len(Heading(g, c)) /\ rests[k] = Contents(g, c) \o behind /\ last[k] = off[i]
        BY <1>9, <3>2 DEF ObjectAt
    <3> QED
        BY <3>1, <3>2, <3>3
  <2>2. /\ mOut[i].x = (IF co = 0 THEN "null" ELSE g[co].kind)
        /\ co = 0 => Len(Heading(g, co)) = 1
        /\ co # 0 =>
              /\ g[co].kind \in M!Types \ {"float"}
              /\ g[co].kind \in {"none", "false", "true", "dict", "code"} => Len(Heading(g, co)) = 1
              /\ g[co].kind = "int" => Len(Heading(g, co)) = 2 /\ mOut[i + 1].x = M!AsLong(g[co].val)
              /\ g[co].kind \in {"list", "tuple"} => Len(Heading(g, co)) = 2 /\ mOut[i + 1].x = Len(g[co].kids)
              /\ g[co].kind \in {"str", "bytes"} => Len(Heading(g, co)) = 3 /\ mOut[i + 2].x = g[co].val
      BY <2>1, <1>2, HeadingAt
  <2>3. M!Token(0) = mOut[i]
    <3>1. 0 \in Nat /\ mAt + 0 < k /\ mAt + 0 = i
        BY <1>2, <1>4
    <3> QED
        BY <3>1, <1>6
  <2>4. k = i + 2 \/ k = i + 3 => M!Token(1) = mOut[i + 1]
    <3>1. k = i + 2 \/ k = i + 3 => 1 \in Nat /\ mAt + 1 < k
        BY <1>2, <1>4
    <3> QED
        BY <3>1, <1>6
  <2>5. k = i + 3 => M!Token(2) = mOut[i + 2]
    <3>1. k = i + 3 => 2 \in Nat /\ mAt + 2 < k
        BY <1>2, <1>4
    <3> QED
        BY <3>1, <1>6
  <2>6. AtObject(g, off, last, rests, names, behind, k, co)
      BY <2>1, <2>2, <2>3, <2>4, <2>5 DEF AtObject
  <2> QED
      BY <2>6, <1>5
<1> QED
    BY <1>4, <1>7, <1>8, <1>9

\* The reader in step with the stream
Ready(g, S, off, last, rests, names, hobj, fo, fi, pend) ==
    /\ SLOTS - 1 \in Nat \ {0} /\ M!Complete(g) /\ NoFloat(g) /\ mOut \in Seq(Tokens(g))
    /\ ReadState(g, mOut, mAt, mOffset, mObjects, mHeap, mStack, mRs, S, off, last, rests, names, hobj, fo, fi, pend)

Goes(g, S, off, last, rests, names, hobj, fo, fi, pend) ==
    ReadState(g, mOut, mAt', mOffset', mObjects', mHeap', mStack', mRs', S, off, last, rests, names, hobj, fo, fi, pend)

LEMMA ReadyIs ==
    ASSUME NEW g, NEW S, NEW off, NEW last, NEW rests, NEW names, NEW hobj, NEW fo, NEW fi, NEW pend,
           Ready(g, S, off, last, rests, names, hobj, fo, fi, pend)
    PROVE  /\ SLOTS - 1 \in Nat \ {0} /\ M!Complete(g) /\ NoFloat(g) /\ mOut \in Seq(Tokens(g))
           /\ Stream(g, mOut, S, off, last, rests, names) /\ rests[Len(mOut) + 1] = <<>>
           /\ mAt \in S /\ mOffset = off[mAt] /\ mOffset \in Nat
           /\ \A k \in S : rests[k] \in Seq(Items(g))
           /\ Found(g, mObjects, names, hobj, last[mAt])
           /\ Heap(g, mHeap, hobj, mStack) /\ Len(mHeap) \in Nat /\ hobj \in [1..Len(mHeap) -> 1..Len(g)]
           /\ Frames(g, mHeap, hobj, names, mStack, fo, fi) /\ Len(mStack) \in Nat
           /\ Calls(g, fo, fi, pend, Len(mStack))
           /\ \A j \in 0..Len(mStack) : pend[j] \in Seq(Items(g))
           /\ Answer(g, hobj, fo, fi, pend, Len(mStack), rests[mAt], mRs)
<1>1. /\ SLOTS - 1 \in Nat \ {0} /\ M!Complete(g) /\ NoFloat(g) /\ mOut \in Seq(Tokens(g))
      /\ Stream(g, mOut, S, off, last, rests, names) /\ rests[Len(mOut) + 1] = <<>>
      /\ mAt \in S /\ mOffset = off[mAt]
      /\ Found(g, mObjects, names, hobj, last[mAt])
      /\ Heap(g, mHeap, hobj, mStack)
      /\ Frames(g, mHeap, hobj, names, mStack, fo, fi)
      /\ Calls(g, fo, fi, pend, Len(mStack))
      /\ Answer(g, hobj, fo, fi, pend, Len(mStack), rests[mAt], mRs)
    BY DEF Ready, ReadState
<1>2. mOffset \in Nat /\ \A k \in S : rests[k] \in Seq(Items(g))
    BY <1>1 DEF Stream
<1>3. Len(mHeap) \in Nat /\ hobj \in [1..Len(mHeap) -> 1..Len(g)]
    BY <1>1 DEF Heap
<1>4. Len(mStack) \in Nat
    BY <1>1 DEF Frames
<1>5. \A j \in 0..Len(mStack) : pend[j] \in Seq(Items(g))
    BY <1>1, <1>4, PendIs
<1> QED
    BY <1>1, <1>2, <1>3, <1>4, <1>5

LEMMA AwaitingIs ==
    ASSUME NEW g, NEW S, NEW off, NEW last, NEW rests, NEW names, NEW hobj, NEW fo, NEW fi, NEW pend,
           Ready(g, S, off, last, rests, names, hobj, fo, fi, pend), mRs = -1
    PROVE  \E co \in 0..Len(g), k \in S :
              /\ Wanted(g, fo, fi, Len(mStack), co)
              /\ Reaches(off, k)
              /\ \/ AtReference(last, rests, names, pend[Len(mStack)], k, co)
                 \/ AtObject(g, off, last, rests, names, pend[Len(mStack)], k, co)
<1>1. PICK co \in 0..Len(g) :
         /\ Wanted(g, fo, fi, Len(mStack), co)
         /\ rests[mAt] # <<>> /\ Head(rests[mAt]) = <<"object", co>> /\ Tail(rests[mAt]) = pend[Len(mStack)]
    BY ReadyIs DEF Answer
<1>2. PICK behind : behind = Tail(rests[mAt])
    OBVIOUS
<1>3. /\ M!Complete(g) /\ NoFloat(g) /\ mOut \in Seq(Tokens(g))
      /\ Stream(g, mOut, S, off, last, rests, names) /\ rests[Len(mOut) + 1] = <<>>
      /\ mAt \in S /\ mOffset = off[mAt]
    BY ReadyIs
<1>4. \E k \in S :
         /\ Reaches(off, k)
         /\ \/ AtReference(last, rests, names, behind, k, co)
            \/ AtObject(g, off, last, rests, names, behind, k, co)
    BY <1>1, <1>2, <1>3, PlaceIs
<1> QED
    BY <1>1, <1>2, <1>4

LEMMA NullRead ==
    ASSUME NEW g, NEW S, NEW off, NEW last, NEW rests, NEW names, NEW hobj, NEW fo, NEW fi, NEW pend,
           Ready(g, S, off, last, rests, names, hobj, fo, fi, pend), M!ReadNull
    PROVE  Goes(g, S, off, last, rests, names, hobj, fo, fi, pend)
<1>1. /\ mRs = -1 /\ M!Token(0).x \in {"null", "eof"} /\ M!Consume(1)
      /\ mObjects' = M!Inserted(mObjects, mOffset, M!int_hash(1, mOffset), 0)
      /\ mRs' = 0 /\ mHeap' = mHeap /\ mStack' = mStack
    BY DEF M!ReadNull, M!Reading, M!SET_OBJECT
<1>2. PICK co \in 0..Len(g), k \in S :
         /\ Wanted(g, fo, fi, Len(mStack), co)
         /\ Reaches(off, k)
         /\ \/ AtReference(last, rests, names, pend[Len(mStack)], k, co)
            \/ AtObject(g, off, last, rests, names, pend[Len(mStack)], k, co)
    BY <1>1, AwaitingIs
<1>3. ~ AtReference(last, rests, names, pend[Len(mStack)], k, co)
    BY <1>1 DEF AtReference
<1>4. co = 0 /\ k = mAt + 1 /\ names[off[mAt]] = 0 /\ last[k] = off[mAt]
      /\ rests[k] = Contents(g, 0) \o pend[Len(mStack)]
  <2>1. co = 0
      BY <1>1, <1>2, <1>3 DEF AtObject, M!Types
  <2> QED
      BY <2>1, <1>2, <1>3 DEF AtObject
<1>5. rests[k] = pend[Len(mStack)]
  <2>1. PICK p \in Seq(Items(g)) : p = pend[Len(mStack)]
      BY ReadyIs
  <2>2. <<>> \o p = p
      OBVIOUS
  <2> QED
      BY <2>1, <2>2, <1>4 DEF Contents
<1>6. mAt' = k /\ mOffset' = off[k]
    BY <1>1, <1>2, <1>4 DEF Reaches
<1>7. Reps(hobj, 0, 0) /\ 0 \in Nat /\ 0 \in Int
    BY DEF Reps
<1>8. Found(g, mObjects', names, hobj, last[k])
  <2>1. PICK late : late = last[mAt]
      OBVIOUS
  <2>2. PICK later : later = last[k]
      OBVIOUS
  <2>3. /\ SLOTS - 1 \in Nat \ {0} /\ Found(g, mObjects, names, hobj, late) /\ mOffset \in Nat
        /\ Reps(hobj, 0, names[mOffset]) /\ later = mOffset
      BY <1>4, <1>7, <2>1, <2>2, ReadyIs
  <2>4. Found(g, mObjects', names, hobj, later)
      BY <2>3, <1>1, <1>7, FoundMore
  <2> QED
      BY <2>2, <2>4
<1>9. Answer(g, hobj, fo, fi, pend, Len(mStack), rests[k], 0)
    BY <1>2, <1>4, <1>5, <1>7 DEF Answer
<1> QED
    BY <1>1, <1>6, <1>8, <1>9, ReadyIs DEF Goes, ReadState

LEMMA ReferenceRead ==
    ASSUME NEW g, NEW S, NEW off, NEW last, NEW rests, NEW names, NEW hobj, NEW fo, NEW fi, NEW pend,
           Ready(g, S, off, last, rests, names, hobj, fo, fi, pend), M!ReadReference
    PROVE  \/ mPc' = "read" /\ Goes(g, S, off, last, rests, names, hobj, fo, fi, pend)
           \/ mPc' = "assert" /\ \E o \in DOMAIN g : g[o].kind = "code"
<1> DEFINE p == M!Lookup(mObjects, M!Token(1).x, M!int_hash(1, M!Token(1).x))
<1>1. /\ mRs = -1 /\ M!Token(0).x = "refer" /\ M!Consume(2) /\ mPc = "read"
      /\ mObjects' = mObjects /\ mHeap' = mHeap /\ mStack' = mStack
      /\ p # 0 => mRs' = mObjects.buckets[p].item /\ mPc' = mPc
      /\ p = 0 => mPc' = "assert"
    BY DEF M!ReadReference, M!Reading
<1>2. PICK co \in 0..Len(g), k \in S :
         /\ Wanted(g, fo, fi, Len(mStack), co)
         /\ Reaches(off, k)
         /\ \/ AtReference(last, rests, names, pend[Len(mStack)], k, co)
            \/ AtObject(g, off, last, rests, names, pend[Len(mStack)], k, co)
    BY <1>1, AwaitingIs
<1>3. ~ AtObject(g, off, last, rests, names, pend[Len(mStack)], k, co)
    BY <1>1 DEF AtObject, M!Types
<1>4. /\ M!Token(1).x = last[mAt] /\ last[mAt] \in Nat
      /\ names[last[mAt]] = co
      /\ k = mAt + 2 /\ rests[k] = pend[Len(mStack)] /\ last[k] = last[mAt]
    BY <1>2, <1>3 DEF AtReference
<1>5. mAt' = k /\ mOffset' = off[k]
    BY <1>1, <1>2, <1>4 DEF Reaches
<1>6. PICK late : late = last[mAt]
    OBVIOUS
<1>7. p = M!Lookup(mObjects, late, M!int_hash(1, late)) /\ late \in Nat /\ names[late] = co
    BY <1>4, <1>6
<1> HIDE DEF p
<1>8. /\ p # 0 => mObjects.buckets[p].item \in Nat /\ Reps(hobj, mObjects.buckets[p].item, co)
      /\ p = 0 => \E o \in DOMAIN g : g[o].kind = "code"
  <2>1. /\ SLOTS - 1 \in Nat \ {0} /\ Found(g, mObjects, names, hobj, late) /\ Len(mHeap) \in Nat
        /\ hobj \in [1..Len(mHeap) -> 1..Len(g)]
      BY <1>6, ReadyIs
  <2>2. /\ p # 0 => mObjects.buckets[p].item \in Nat /\ Reps(hobj, mObjects.buckets[p].item, names[late])
        /\ p = 0 => \E o \in DOMAIN g : g[o].kind = "code"
      BY <2>1, <1>7, FoundIs
  <2> QED
      BY <2>2, <1>7
<1>9. CASE p = 0
    BY <1>1, <1>8, <1>9
<1>10. CASE p # 0
  <2>1. Answer(g, hobj, fo, fi, pend, Len(mStack), rests[k], mRs')
      BY <1>1, <1>2, <1>4, <1>8, <1>10 DEF Answer
  <2>2. Found(g, mObjects', names, hobj, last[k])
      BY <1>1, <1>4, ReadyIs
  <2>3. Goes(g, S, off, last, rests, names, hobj, fo, fi, pend)
      BY <1>1, <1>5, <2>1, <2>2, ReadyIs DEF Goes, ReadState
  <2> QED
      BY <2>3, <1>1, <1>10
<1> QED
    BY <1>9, <1>10

\* Where co is read and put into the heap, and the reader is then at place k
Made(g, S, off, last, rests, names, fo, fi, pend, co, node, k) ==
    /\ co \in 1..Len(g) /\ Wanted(g, fo, fi, Len(mStack), co) /\ k \in S
    /\ names[off[mAt]] = co /\ last[k] = off[mAt]
    /\ rests[k] = Contents(g, co) \o pend[Len(mStack)]
    /\ node \in Nodes(g) /\ node.kind = g[co].kind /\ node.val = ReadAs(g, co)
    /\ mHeap' = Append(mHeap, node)
    /\ mObjects' = M!Inserted(mObjects, mOffset, M!int_hash(1, mOffset), Len(mHeap'))
    /\ mAt' = k /\ mOffset' = off[k]

LEMMA FoundMade ==
    ASSUME NEW g, NEW S, NEW off, NEW last, NEW rests, NEW names, NEW hobj, NEW fo, NEW fi, NEW pend,
           Ready(g, S, off, last, rests, names, hobj, fo, fi, pend), NEW co, NEW node, NEW k,
           Made(g, S, off, last, rests, names, fo, fi, pend, co, node, k),
           NEW hobj2, \A x, c : Reps(hobj, x, c) => Reps(hobj2, x, c),
           Len(mHeap') \in Nat, Reps(hobj2, Len(mHeap'), co)
    PROVE  Found(g, mObjects', names, hobj2, last[k])
<1>1. PICK late : late = last[mAt]
    OBVIOUS
<1>2. PICK later : later = last[k]
    OBVIOUS
<1>3. PICK item : item = Len(mHeap')
    OBVIOUS
<1>4. /\ SLOTS - 1 \in Nat \ {0} /\ Found(g, mObjects, names, hobj, late) /\ mOffset \in Nat
      /\ mOffset = off[mAt]
    BY <1>1, ReadyIs
<1>5. /\ names[mOffset] = co /\ later = mOffset /\ item \in Int
      /\ mObjects' = M!Inserted(mObjects, mOffset, M!int_hash(1, mOffset), item)
      /\ Reps(hobj2, item, names[mOffset])
    BY <1>2, <1>3, <1>4 DEF Made
<1>6. Found(g, mObjects', names, hobj2, later)
    BY <1>4, <1>5, FoundMore
<1> QED
    BY <1>2, <1>6

LEMMA LeafMade ==
    ASSUME NEW g, NEW S, NEW off, NEW last, NEW rests, NEW names, NEW hobj, NEW fo, NEW fi, NEW pend,
           Ready(g, S, off, last, rests, names, hobj, fo, fi, pend), NEW co, NEW node, NEW k,
           Made(g, S, off, last, rests, names, fo, fi, pend, co, node, k),
           Contents(g, co) = <<>>, Len(node.kids) = 0, Len(g[co].kids) = 0,
           mRs' = Len(mHeap'), mStack' = mStack
    PROVE  \E hobj2 : Goes(g, S, off, last, rests, names, hobj2, fo, fi, pend)
<1> DEFINE n == Len(mStack)
           hobj2 == [h \in 1..Len(mHeap) + 1 |-> IF h = Len(mHeap) + 1 THEN co ELSE hobj[h]]
<1>1. /\ Heap(g, mHeap, hobj, mStack) /\ Len(mHeap) \in Nat /\ hobj \in [1..Len(mHeap) -> 1..Len(g)]
      /\ Frames(g, mHeap, hobj, names, mStack, fo, fi) /\ n \in Nat
      /\ Calls(g, fo, fi, pend, n)
    BY ReadyIs
<1>2. /\ co \in 1..Len(g) /\ Wanted(g, fo, fi, n, co) /\ k \in S
      /\ rests[k] = Contents(g, co) \o pend[n]
      /\ node \in Nodes(g) /\ node.kind = g[co].kind /\ node.val = ReadAs(g, co)
      /\ mAt' = k /\ mOffset' = off[k] /\ mHeap' = Append(mHeap, node)
    BY DEF Made
<1>3. More(mHeap, hobj, node, co, mHeap', hobj2)
    BY <1>2 DEF More
<1> HIDE DEF hobj2
<1>4. Len(node.kids) = Len(g[co].kids) /\ Firsts(g, hobj2, node.kids, Len(node.kids), co)
    BY DEF Firsts
<1>6. PICK heap2 : heap2 = mHeap'
    OBVIOUS
<1>7. /\ Heap(g, heap2, hobj2, mStack) /\ Len(heap2) = Len(mHeap) + 1
      /\ Reps(hobj2, Len(heap2), co)
      /\ \A h \in 1..Len(mHeap) : heap2[h] = mHeap[h] /\ hobj2[h] = hobj[h]
  <2>1. PICK heap : heap = mHeap
      OBVIOUS
  <2>2. PICK stack : stack = mStack
      OBVIOUS
  <2> HIDE DEF n
  <2>3. \/ Len(node.kids) = Len(g[co].kids) /\ Firsts(g, hobj2, node.kids, Len(node.kids), co)
        \/ \E i \in 1..Len(stack) : stack[i].co = Len(heap) + 1
      BY <1>4
  <2>4. More(heap, hobj, node, co, heap2, hobj2)
      BY <2>1, <1>3, <1>6
  <2>5. Heap(g, heap, hobj, stack)
      BY <2>1, <2>2, <1>1
  <2>6. co \in 1..Len(g) /\ node \in Nodes(g) /\ node.kind = g[co].kind /\ node.val = ReadAs(g, co)
      BY <1>2
  <2>7. \A j \in 1..Len(stack) : \E i \in 1..Len(stack) : stack[i].co = stack[j].co
      OBVIOUS
  <2>8. /\ Heap(g, heap2, hobj2, stack) /\ Len(heap2) = Len(heap) + 1
        /\ Reps(hobj2, Len(heap2), co)
        /\ \A h \in 1..Len(heap) : heap2[h] = heap[h] /\ hobj2[h] = hobj[h]
      BY <2>3, <2>4, <2>5, <2>6, <2>7, HeapMore
  <2> QED
      BY <2>1, <2>2, <2>8
<1>8. \A x, c : Reps(hobj, x, c) => Reps(hobj2, x, c)
    BY <1>1, <1>3, RepsMore
<1>9. Frames(g, heap2, hobj2, names, mStack, fo, fi)
    BY <1>1, <1>3, <1>6, <1>7, FramesMore
<1>10. Len(heap2) \in Nat
    BY <1>1, <1>7
<1>11. Found(g, mObjects', names, hobj2, last[k])
    BY <1>6, <1>7, <1>8, <1>10, FoundMade
<1>12. rests[k] = pend[n]
  <2>1. PICK p \in Seq(Items(g)) : p = pend[n]
      BY ReadyIs, <1>1
  <2>2. <<>> \o p = p
      OBVIOUS
  <2> QED
      BY <2>1, <2>2, <1>2
<1>13. Answer(g, hobj2, fo, fi, pend, n, rests[k], mRs')
  <2>1. co \in 0..Len(g)
      BY <1>2
  <2> QED
      BY <2>1, <1>2, <1>6, <1>7, <1>10, <1>12 DEF Answer
<1>14. Goes(g, S, off, last, rests, names, hobj2, fo, fi, pend)
    BY <1>1, <1>2, <1>6, <1>7, <1>9, <1>11, <1>13, ReadyIs DEF Goes, ReadState
<1> QED
    BY <1>14

LEMMA AtomRead ==
    ASSUME NEW g, NEW S, NEW off, NEW last, NEW rests, NEW names, NEW hobj, NEW fo, NEW fi, NEW pend,
           Ready(g, S, off, last, rests, names, hobj, fo, fi, pend), M!ReadAtom
    PROVE  \E hobj2 : Goes(g, S, off, last, rests, names, hobj2, fo, fi, pend)
<1> DEFINE type == M!Token(0).x
           val == CASE type = "int" -> M!Token(1).x
                    [] type \in {"str", "bytes"} -> M!Token(2).x
                    [] OTHER -> 0
           c == CASE type = "int" -> 2 [] type \in {"str", "bytes"} -> 3 [] OTHER -> 1
           node == [kind |-> type, val |-> val, kids |-> <<>>]
<1>1. /\ mRs = -1 /\ type \in {"none", "false", "true", "int", "str", "bytes"} /\ M!Consume(c)
      /\ mHeap' = Append(mHeap, node)
      /\ mObjects' = M!Inserted(mObjects, mOffset, M!int_hash(1, mOffset), Len(mHeap'))
      /\ mRs' = Len(mHeap') /\ mStack' = mStack
    BY DEF M!ReadAtom, M!Reading, M!SET_OBJECT, M!New
<1>2. PICK co \in 0..Len(g), k \in S :
         /\ Wanted(g, fo, fi, Len(mStack), co)
         /\ Reaches(off, k)
         /\ \/ AtReference(last, rests, names, pend[Len(mStack)], k, co)
            \/ AtObject(g, off, last, rests, names, pend[Len(mStack)], k, co)
    BY <1>1, AwaitingIs
<1>3. ~ AtReference(last, rests, names, pend[Len(mStack)], k, co)
    BY <1>1 DEF AtReference
<1>4. co # 0 /\ type = g[co].kind
    BY <1>1, <1>2, <1>3 DEF AtObject
<1>5. /\ g[co].kind \in {"none", "false", "true", "dict", "code"} => k = mAt + 1
      /\ g[co].kind = "int" => k = mAt + 2 /\ M!Token(1).x = M!AsLong(g[co].val)
      /\ g[co].kind \in {"str", "bytes"} => k = mAt + 3 /\ M!Token(2).x = g[co].val
      /\ names[off[mAt]] = co
      /\ rests[k] = Contents(g, co) \o pend[Len(mStack)] /\ last[k] = off[mAt]
    BY <1>2, <1>3, <1>4 DEF AtObject
<1>6. M!Complete(g)
    BY ReadyIs
<1>7. co \in 1..Len(g) /\ co \in DOMAIN g /\ M!Whole(g, co)
    BY <1>4, <1>6, WholeIs
<1>8. c \in Nat /\ k = mAt + c
    BY <1>1, <1>4, <1>5
<1>9. mAt' = k /\ mOffset' = off[k]
    BY <1>1, <1>2, <1>8 DEF Reaches
<1>10. val = ReadAs(g, co)
  <2>1. g[co].kind \in {"none", "false", "true"} => g[co].val = 0
      BY <1>7 DEF M!Whole
  <2> QED
      BY <2>1, <1>1, <1>4, <1>5 DEF ReadAs
<1>11. g[co].kids = <<>>
    BY <1>1, <1>4, <1>7 DEF M!Whole
<1>12. Contents(g, co) = <<>>
  <2>1. Contents(g, co) = Inside(g, co) \o <<>>
      BY <1>1, <1>4 DEF Contents
  <2>2. Inside(g, co) = <<>>
      BY <1>11 DEF Inside
  <2> QED
      BY <2>1, <2>2
<1> HIDE DEF val, c
<1>13. node \in Nodes(g) /\ node.kind = g[co].kind /\ node.val = ReadAs(g, co) /\ node.kids = <<>>
  <2>1. val \in Values(g)
      BY <1>7, <1>10 DEF Values
  <2>2. <<>> \in Seq(Nat)
      OBVIOUS
  <2> QED
      BY <2>1, <2>2, <1>1, <1>4, <1>10 DEF Nodes, M!Types
<1> HIDE DEF node, type
<1>14. Made(g, S, off, last, rests, names, fo, fi, pend, co, node, k)
    BY <1>1, <1>2, <1>5, <1>7, <1>9, <1>13 DEF Made
<1> QED
  <2>1. Len(node.kids) = 0 /\ Len(g[co].kids) = 0
      BY <1>11, <1>13
  <2> QED
      BY <2>1, <1>1, <1>12, <1>14, LeafMade

LEMMA FramePushed ==
    ASSUME NEW g, NEW heap, NEW hobj, NEW names, NEW stack, NEW fo, NEW fi,
           Frames(g, heap, hobj, names, stack, fo, fi), NEW f \in FrameRecords,
           NEW co, Frame(g, heap, hobj, names, f, co, 1),
           \A j \in 1..Len(stack) : stack[j].co > 0 \/ f.co > 0 => stack[j].co # f.co,
           NEW stack2, stack2 = Append(stack, f),
           NEW fo2, fo2 = Put(fo, Len(stack) + 1, co), NEW fi2, fi2 = Put(fi, Len(stack) + 1, 1)
    PROVE  /\ Frames(g, heap, hobj, names, stack2, fo2, fi2) /\ Len(stack2) = Len(stack) + 1
           /\ stack2[Len(stack) + 1] = f /\ \A j \in 1..Len(stack) : stack2[j] = stack[j]
<1> DEFINE n == Len(stack)
<1>1. /\ stack2 \in Seq(FrameRecords) /\ Len(stack2) = n + 1 /\ n \in Nat
      /\ stack2[n + 1] = f /\ \A j \in 1..n : stack2[j] = stack[j]
  <2>1. stack \in Seq(FrameRecords)
      BY DEF Frames
  <2> QED
      BY <2>1
<1>2. /\ fo2[n + 1] = co /\ fi2[n + 1] = 1
      /\ \A j \in 1..n : fo2[j] = fo[j] /\ fi2[j] = fi[j]
    BY <1>1 DEF Put
<1>3. \A j \in 1..n + 1 : j = n + 1 \/ j \in 1..n
    BY <1>1
<1>4. \A j \in 1..n : Frame(g, heap, hobj, names, stack[j], fo[j], fi[j])
    BY DEF Frames
<1>5. \A j \in 1..n : \A k \in 1..n : j # k /\ stack[j].co > 0 => stack[j].co # stack[k].co
    BY DEF Frames
<1>8. \A j \in 1..n : stack[j].co > 0 \/ f.co > 0 => stack[j].co # f.co
    OBVIOUS
<1> HIDE DEF n
<1>6. \A j \in 1..n + 1 : Frame(g, heap, hobj, names, stack2[j], fo2[j], fi2[j])
    BY <1>1, <1>2, <1>3, <1>4
<1>7. \A j \in 1..n + 1 : \A k \in 1..n + 1 : j # k /\ stack2[j].co > 0 => stack2[j].co # stack2[k].co
    BY <1>1, <1>3, <1>5, <1>8
<1>9. Frames(g, heap, hobj, names, stack2, fo2, fi2)
    BY <1>1, <1>6, <1>7 DEF Frames
<1> QED
    BY <1>1, <1>9 DEF n

\* A frame reads an object of the heap, or a code object.
LEMMA FrameAt ==
    ASSUME NEW g, NEW heap, NEW hobj, NEW names, NEW f, NEW o, NEW i, Frame(g, heap, hobj, names, f, o, i)
    PROVE  f.co \in DOMAIN hobj \/ f.co < 0
BY DEF Frame, SequenceCall, DictCall, CodeCall

LEMMA ObjectOpens ==
    ASSUME NEW g, NEW S, NEW off, NEW last, NEW rests, NEW names, NEW hobj, NEW fo, NEW fi, NEW pend,
           Ready(g, S, off, last, rests, names, hobj, fo, fi, pend), NEW co, NEW node, NEW k,
           Made(g, S, off, last, rests, names, fo, fi, pend, co, node, k),
           NEW kid \in 0..Len(g), Contents(g, co) # <<>>, Contents(g, co)[1] = <<"object", kid>>,
           NEW f \in FrameRecords, f.co = Len(mHeap) + 1,
           NEW heap2, heap2 = mHeap',
           \A h2 : Len(mHeap) + 1 \in DOMAIN h2 /\ h2[Len(mHeap) + 1] = co /\ heap2[Len(mHeap) + 1] = node
                    => Frame(g, heap2, h2, names, f, co, 1),
           mRs' = -1, mStack' = Append(mStack, f)
    PROVE  \E hobj2, fo2, fi2, pend2 : Goes(g, S, off, last, rests, names, hobj2, fo2, fi2, pend2)
<1> DEFINE n == Len(mStack)
           hobj2 == [h \in 1..Len(mHeap) + 1 |-> IF h = Len(mHeap) + 1 THEN co ELSE hobj[h]]
           fo2 == Put(fo, n + 1, co)
           fi2 == Put(fi, n + 1, 1)
           pend2 == Put(pend, n + 1, Tail(rests[k]))
<1>1. /\ Heap(g, mHeap, hobj, mStack) /\ Len(mHeap) \in Nat /\ hobj \in [1..Len(mHeap) -> 1..Len(g)]
      /\ Frames(g, mHeap, hobj, names, mStack, fo, fi) /\ n \in Nat
      /\ Calls(g, fo, fi, pend, n) /\ pend[n] \in Seq(Items(g)) /\ M!Complete(g)
  <2>1. n \in Nat /\ \A j \in 0..n : pend[j] \in Seq(Items(g))
      BY ReadyIs
  <2>2. n \in 0..n
      BY <2>1
  <2> QED
      BY <2>1, <2>2, ReadyIs
<1>2. /\ co \in 1..Len(g) /\ Wanted(g, fo, fi, n, co) /\ k \in S
      /\ rests[k] = Contents(g, co) \o pend[n]
      /\ node \in Nodes(g) /\ node.kind = g[co].kind /\ node.val = ReadAs(g, co)
      /\ mAt' = k /\ mOffset' = off[k] /\ mHeap' = Append(mHeap, node)
    BY DEF Made
<1>3. More(mHeap, hobj, node, co, heap2, hobj2)
    BY <1>2 DEF More
<1>4. Calls(g, fo2, fi2, pend2, n + 1) /\ Answer(g, hobj2, fo2, fi2, pend2, n + 1, rests[k], -1)
  <2>1. Contents(g, co) \in Seq(Items(g))
    <3>1. co \in 0..Len(g)
        BY <1>2
    <3> QED
        BY <3>1, <1>1, ContentsItems
  <2>2. PICK all : all = rests[k]
      OBVIOUS
  <2>3. PICK p : p = Put(pend, n + 1, Tail(all))
      OBVIOUS
  <2> HIDE DEF hobj2, n
  <2>4. Calls(g, fo2, fi2, p, n + 1) /\ Answer(g, hobj2, fo2, fi2, p, n + 1, all, -1)
      BY <2>1, <2>2, <2>3, <1>1, <1>2, CallOpens
  <2> QED
      BY <2>2, <2>3, <2>4
<1> HIDE DEF hobj2, fo2, fi2, pend2
<1>5. PICK stack2 : stack2 = mStack'
    OBVIOUS
<1>6. /\ Len(stack2) = n + 1 /\ stack2[n + 1] = f
      /\ \A j \in 1..n : stack2[j] = mStack[j]
  <2>1. mStack \in Seq(FrameRecords)
      BY <1>1 DEF Frames
  <2> QED
      BY <2>1, <1>5
<1>7. /\ \A j \in 1..n : \E i \in 1..Len(stack2) : stack2[i].co = mStack[j].co
      /\ \E i \in 1..Len(stack2) : stack2[i].co = Len(mHeap) + 1
  <2>1. n \in Nat /\ n + 1 \in 1..Len(stack2) /\ \A j \in 1..n : j \in 1..Len(stack2)
      BY <1>1, <1>6
  <2>2. f.co = Len(mHeap) + 1
      OBVIOUS
  <2> HIDE DEF n
  <2>3. stack2[n + 1].co = Len(mHeap) + 1
      BY <2>2, <1>6
  <2>4. \A j \in 1..n : stack2[j].co = mStack[j].co
      BY <1>6
  <2> QED
      BY <2>1, <2>3, <2>4
<1>8. /\ Heap(g, heap2, hobj2, stack2) /\ Len(heap2) = Len(mHeap) + 1
      /\ Reps(hobj2, Len(heap2), co)
      /\ \A h \in 1..Len(mHeap) : heap2[h] = mHeap[h] /\ hobj2[h] = hobj[h]
      /\ heap2[Len(mHeap) + 1] = node
  <2>1. \/ Len(node.kids) = Len(g[co].kids) /\ Firsts(g, hobj2, node.kids, Len(node.kids), co)
        \/ \E i \in 1..Len(stack2) : stack2[i].co = Len(mHeap) + 1
      BY <1>7
  <2>3. Heap(g, mHeap, hobj, mStack)
      BY <1>1
  <2>4. co \in 1..Len(g) /\ node \in Nodes(g) /\ node.kind = g[co].kind /\ node.val = ReadAs(g, co)
      BY <1>2
  <2>5. \A j \in 1..Len(mStack) : \E i \in 1..Len(stack2) : stack2[i].co = mStack[j].co
      BY <1>7
  <2>6. More(mHeap, hobj, node, co, heap2, hobj2)
      BY <1>3
  <2> HIDE DEF n
  <2>7. /\ Heap(g, heap2, hobj2, stack2) /\ Len(heap2) = Len(mHeap) + 1 /\ Len(mHeap) \in Nat
        /\ hobj2[Len(heap2)] = co /\ Reps(hobj2, Len(heap2), co)
        /\ \A h \in 1..Len(mHeap) : heap2[h] = mHeap[h] /\ hobj2[h] = hobj[h]
        /\ heap2[Len(mHeap) + 1] = node
      BY <2>1, <2>3, <2>4, <2>5, <2>6, HeapMore
  <2> QED
      BY <2>7
<1>9. \A x, c : Reps(hobj, x, c) => Reps(hobj2, x, c)
    BY <1>1, <1>3, RepsMore
<1>10. Frames(g, heap2, hobj2, names, mStack, fo, fi)
    BY <1>1, <1>3, <1>8, FramesMore
<1>11. Frames(g, heap2, hobj2, names, stack2, fo2, fi2)
  <2>1. Frame(g, heap2, hobj2, names, f, co, 1)
    <3>1. Len(mHeap) + 1 \in DOMAIN hobj2 /\ hobj2[Len(mHeap) + 1] = co
        BY <1>1 DEF hobj2
    <3> QED
        BY <3>1, <1>8
  <2>2. \A j \in 1..n : mStack[j].co > 0 \/ f.co > 0 => mStack[j].co # f.co
    <3> TAKE j \in 1..n
    <3>1. Frame(g, mHeap, hobj, names, mStack[j], fo[j], fi[j])
        BY <1>1 DEF Frames
    <3>2. mStack[j].co \in DOMAIN hobj \/ mStack[j].co < 0
        BY <3>1, FrameAt
    <3> QED
        BY <3>2, <1>1
  <2>3. stack2 = Append(mStack, f) /\ fo2 = Put(fo, Len(mStack) + 1, co) /\ fi2 = Put(fi, Len(mStack) + 1, 1)
      BY <1>5 DEF fo2, fi2
  <2>4. \A j \in 1..Len(mStack) : mStack[j].co > 0 \/ f.co > 0 => mStack[j].co # f.co
      BY <2>2
  <2> QED
      BY <2>1, <2>3, <2>4, <1>10, FramePushed
<1>12. Len(heap2) \in Nat
    BY <1>1, <1>8
<1>13. Found(g, mObjects', names, hobj2, last[k])
    BY <1>8, <1>9, <1>12, FoundMade
<1>14. Goes(g, S, off, last, rests, names, hobj2, fo2, fi2, pend2)
  <2>1. /\ Stream(g, mOut, S, off, last, rests, names) /\ rests[Len(mOut) + 1] = <<>>
        /\ mAt' \in S /\ mOffset' = off[mAt']
      BY <1>2, ReadyIs
  <2>2. Found(g, mObjects', names, hobj2, last[mAt'])
      BY <1>2, <1>13
  <2>3. Heap(g, mHeap', hobj2, mStack') /\ Frames(g, mHeap', hobj2, names, mStack', fo2, fi2)
      BY <1>5, <1>8, <1>11
  <2>4. /\ Calls(g, fo2, fi2, pend2, Len(mStack'))
        /\ Answer(g, hobj2, fo2, fi2, pend2, Len(mStack'), rests[mAt'], mRs')
      BY <1>2, <1>4, <1>5, <1>6
  <2> QED
      BY <2>1, <2>2, <2>3, <2>4 DEF Goes, ReadState
<1> QED
    BY <1>14

LEMMA ContentsAre ==
    ASSUME NEW g, M!Complete(g), NEW co \in 1..Len(g)
    PROVE  LET kids == g[co].kids
           IN  /\ Len(kids) \in Nat /\ Contents(g, co) \in Seq(Items(g))
               /\ \A i \in 1..Len(kids) : kids[i] \in 0..Len(g) /\ Contents(g, co)[i] = <<"object", kids[i]>>
               /\ g[co].kind = "dict" =>
                     Len(Contents(g, co)) = Len(kids) + 1 /\ Contents(g, co)[Len(kids) + 1] = <<"object", 0>>
               /\ g[co].kind = "code" =>
                     /\ Len(kids) = 6 /\ Len(Contents(g, co)) = 8
                     /\ Contents(g, co)[7] = <<"int64", 0>> /\ Contents(g, co)[8] = <<"int64", 1>>
               /\ g[co].kind \notin {"dict", "code"} => Len(Contents(g, co)) = Len(kids)
<1> DEFINE kids == g[co].kids
           rest == CASE g[co].kind = "dict" -> <<<<"object", 0>>>>
                     [] g[co].kind = "code" -> <<<<"int64", 0>>, <<"int64", 1>>>>
                     [] OTHER -> <<>>
           s == Inside(g, co)
<1>1. co \in 0..Len(g) /\ co # 0 /\ co \in DOMAIN g /\ Len(g) \in Nat
    BY DEF M!Complete
<1>2. /\ Len(kids) \in Nat /\ DOMAIN kids = 1..Len(kids)
      /\ \A i \in DOMAIN kids : kids[i] \in 0..Len(g)
    BY <1>1, KidsAre
<1>3. Contents(g, co) \in Seq(Items(g))
    BY <1>1, ContentsItems
<1>4. Contents(g, co) = s \o rest
    BY <1>1 DEF Contents
<1>5. /\ s \in Seq(Items(g)) /\ Len(s) = Len(kids)
      /\ \A i \in 1..Len(kids) : s[i] = <<"object", kids[i]>>
  <2>1. s = [i \in 1..Len(kids) |-> <<"object", kids[i]>>]
      BY <1>2 DEF Inside
  <2>2. \A i \in 1..Len(kids) : <<"object", kids[i]>> \in Items(g)
      BY <1>2 DEF Items
  <2> HIDE DEF kids, s
  <2> QED
      BY <2>1, <2>2, <1>2
<1>6. /\ g[co].kind = "dict" => rest = <<<<"object", 0>>>>
      /\ g[co].kind = "code" => rest = <<<<"int64", 0>>, <<"int64", 1>>>>
      /\ g[co].kind \notin {"dict", "code"} => rest = <<>>
    OBVIOUS
<1>7. g[co].kind = "code" => Len(kids) = 6
    BY <1>1, WholeIs DEF M!Whole
<1>8. \/ g[co].kind = "dict" /\ rest = <<<<"object", 0>>>>
      \/ g[co].kind = "code" /\ rest = <<<<"int64", 0>>, <<"int64", 1>>>>
      \/ g[co].kind \notin {"dict", "code"} /\ rest = <<>>
    BY <1>6
<1> HIDE DEF kids, rest, s
<1>9. rest \in Seq(Items(g))
  <2>1. PICK T : T = Items(g)
      OBVIOUS
  <2>2. <<"object", 0>> \in T /\ <<"int64", 0>> \in T /\ <<"int64", 1>> \in T
      BY <1>1, <2>1 DEF Items
  <2>3. PICK x, y, z : x = <<"object", 0>> /\ y = <<"int64", 0>> /\ z = <<"int64", 1>>
      OBVIOUS
  <2>4. <<x>> \in Seq(T) /\ <<y, z>> \in Seq(T) /\ <<>> \in Seq(T)
      BY <2>2, <2>3
  <2> QED
      BY <2>1, <2>3, <2>4, <1>8
<1>10. /\ Len(s \o rest) = Len(s) + Len(rest)
       /\ \A i \in 1..Len(s) : (s \o rest)[i] = s[i]
       /\ \A i \in 1..Len(rest) : (s \o rest)[Len(s) + i] = rest[i]
  <2>1. PICK T : T = Items(g)
      OBVIOUS
  <2>2. s \in Seq(T) /\ rest \in Seq(T)
      BY <2>1, <1>5, <1>9
  <2> QED
      BY <2>2
<1>11. \A i \in 1..Len(kids) : Contents(g, co)[i] = <<"object", kids[i]>>
    BY <1>4, <1>5, <1>10
<1>12. g[co].kind = "dict" =>
          Len(Contents(g, co)) = Len(kids) + 1 /\ Contents(g, co)[Len(kids) + 1] = <<"object", 0>>
  <2> SUFFICES ASSUME g[co].kind = "dict"
               PROVE  Len(Contents(g, co)) = Len(kids) + 1 /\ Contents(g, co)[Len(kids) + 1] = <<"object", 0>>
      OBVIOUS
  <2>1. Len(rest) = 1 /\ rest[1] = <<"object", 0>> /\ 1 \in 1..Len(rest)
    <3>1. PICK x : x = <<"object", 0>>
        OBVIOUS
    <3>2. rest = <<x>>
        BY <3>1, <1>6
    <3> QED
        BY <3>1, <3>2
  <2> QED
      BY <2>1, <1>4, <1>5, <1>10
<1>13. g[co].kind = "code" =>
          /\ Len(Contents(g, co)) = 8
          /\ Contents(g, co)[7] = <<"int64", 0>> /\ Contents(g, co)[8] = <<"int64", 1>>
  <2> SUFFICES ASSUME g[co].kind = "code"
               PROVE  /\ Len(Contents(g, co)) = 8
                      /\ Contents(g, co)[7] = <<"int64", 0>> /\ Contents(g, co)[8] = <<"int64", 1>>
      OBVIOUS
  <2>1. Len(rest) = 2 /\ rest[1] = <<"int64", 0>> /\ rest[2] = <<"int64", 1>>
    <3>1. PICK y, z : y = <<"int64", 0>> /\ z = <<"int64", 1>>
        OBVIOUS
    <3>2. rest = <<y, z>>
        BY <3>1, <1>6
    <3> QED
        BY <3>1, <3>2
  <2>2. Len(kids) = 6 /\ Len(s) = Len(kids)
      BY <1>5, <1>7
  <2>3. Len(s) + 1 = 7 /\ Len(s) + 2 = 8 /\ 1 \in 1..Len(rest) /\ 2 \in 1..Len(rest)
      BY <2>1, <2>2
  <2>4. (s \o rest)[Len(s) + 1] = rest[1] /\ (s \o rest)[Len(s) + 2] = rest[2]
      BY <2>3, <1>10
  <2>5. Len(s \o rest) = 8
      BY <2>1, <2>2, <1>10
  <2> QED
      BY <2>1, <2>3, <2>4, <2>5, <1>4
<1>14. g[co].kind \notin {"dict", "code"} => Len(Contents(g, co)) = Len(kids)
  <2> SUFFICES ASSUME g[co].kind \notin {"dict", "code"}
               PROVE  Len(Contents(g, co)) = Len(kids)
      OBVIOUS
  <2>1. Len(rest) = 0
      BY <1>6
  <2> QED
      BY <2>1, <1>2, <1>4, <1>5, <1>10
<1> QED
    BY <1>2, <1>3, <1>7, <1>11, <1>12, <1>13, <1>14 DEF kids

LEMMA FirstsNone == \A g, hobj, kids, o : Firsts(g, hobj, kids, 0, o)
BY DEF Firsts

LEMMA SequenceRead ==
    ASSUME NEW g, NEW S, NEW off, NEW last, NEW rests, NEW names, NEW hobj, NEW fo, NEW fi, NEW pend,
           Ready(g, S, off, last, rests, names, hobj, fo, fi, pend), M!ReadSequence
    PROVE  \E hobj2, fo2, fi2, pend2 : Goes(g, S, off, last, rests, names, hobj2, fo2, fi2, pend2)
<1> DEFINE type == M!Token(0).x
           n == M!Token(1).x
           node == [kind |-> type, val |-> 0, kids |-> [i \in 1..n |-> 0]]
           f == [co |-> Len(mHeap'), i |-> 0, n |-> n, got |-> <<>>]
<1>1. /\ mRs = -1 /\ type \in {"list", "tuple"} /\ M!Consume(2)
      /\ mHeap' = Append(mHeap, node)
      /\ mObjects' = M!Inserted(mObjects, mOffset, M!int_hash(1, mOffset), Len(mHeap'))
      /\ IF n = 0 THEN mRs' = Len(mHeap') /\ mStack' = mStack
         ELSE mStack' = Append(mStack, f) /\ mRs' = mRs
    BY DEF M!ReadSequence, M!Reading, M!SET_OBJECT, M!New
<1>2. PICK co \in 0..Len(g), k \in S :
         /\ Wanted(g, fo, fi, Len(mStack), co)
         /\ Reaches(off, k)
         /\ \/ AtReference(last, rests, names, pend[Len(mStack)], k, co)
            \/ AtObject(g, off, last, rests, names, pend[Len(mStack)], k, co)
    BY <1>1, AwaitingIs
<1>3. ~ AtReference(last, rests, names, pend[Len(mStack)], k, co)
    BY <1>1 DEF AtReference
<1>4. co # 0 /\ type = g[co].kind
    BY <1>1, <1>2, <1>3 DEF AtObject
<1>5. /\ k = mAt + 2 /\ n = Len(g[co].kids)
      /\ names[off[mAt]] = co
      /\ rests[k] = Contents(g, co) \o pend[Len(mStack)] /\ last[k] = off[mAt]
    BY <1>1, <1>2, <1>3, <1>4 DEF AtObject
<1>6. M!Complete(g) /\ Len(mHeap) \in Nat /\ mHeap \in Seq(Nodes(g))
    BY ReadyIs DEF Heap
<1>7. co \in 1..Len(g) /\ co \in DOMAIN g /\ M!Whole(g, co)
    BY <1>4, <1>6, WholeIs
<1>8. mAt' = k /\ mOffset' = off[k]
    BY <1>1, <1>2, <1>5 DEF Reaches
<1>9. /\ n \in Nat
      /\ n > 0 => g[co].kids[1] \in 0..Len(g) /\ Contents(g, co)[1] = <<"object", g[co].kids[1]>>
      /\ Len(Contents(g, co)) = n /\ Contents(g, co) \in Seq(Items(g))
  <2>1. g[co].kind \notin {"dict", "code"}
      BY <1>1, <1>4
  <2>2. /\ Len(g[co].kids) \in Nat /\ Contents(g, co) \in Seq(Items(g))
        /\ \A i \in 1..Len(g[co].kids) : g[co].kids[i] \in 0..Len(g) /\ Contents(g, co)[i] = <<"object", g[co].kids[i]>>
        /\ Len(Contents(g, co)) = Len(g[co].kids)
      BY <2>1, <1>6, <1>7, ContentsAre
  <2> QED
      BY <2>2, <1>5
<1> HIDE DEF n
<1>10. /\ node \in Nodes(g) /\ node.kind = g[co].kind /\ node.val = ReadAs(g, co) /\ Len(node.kids) = n
  <2>1. ReadAs(g, co) = 0
      BY <1>1, <1>4, <1>7 DEF M!Whole, ReadAs
  <2>2. 0 \in Values(g)
      BY <2>1, <1>7 DEF Values
  <2>3. [i \in 1..n |-> 0] \in Seq(Nat) /\ Len([i \in 1..n |-> 0]) = n
      BY <1>9
  <2> QED
      BY <2>1, <2>2, <2>3, <1>1, <1>4 DEF Nodes, M!Types
<1>11. Len(mHeap') = Len(mHeap) + 1
  <2> HIDE DEF node
  <2> QED
      BY <1>1, <1>6, <1>10
<1> HIDE DEF node
<1>12. Made(g, S, off, last, rests, names, fo, fi, pend, co, node, k)
    BY <1>1, <1>2, <1>5, <1>7, <1>8, <1>10 DEF Made
<1>13. CASE n = 0
  <2>1. Contents(g, co) = <<>> /\ Len(node.kids) = 0 /\ Len(g[co].kids) = 0
      BY <1>5, <1>9, <1>10, <1>13
  <2>2. mRs' = Len(mHeap') /\ mStack' = mStack
      BY <1>1, <1>13
  <2> QED
      BY <2>1, <2>2, <1>12, LeafMade
<1>14. CASE n # 0
  <2>1. mStack' = Append(mStack, f) /\ mRs' = -1
      BY <1>1, <1>14
  <2>2. f \in FrameRecords /\ f.co = Len(mHeap) + 1 /\ f.n = n /\ f.i = 0 /\ f.got = <<>>
      BY <1>6, <1>9, <1>11 DEF FrameRecords
  <2> HIDE DEF f
  <2>3. PICK heap2 : heap2 = mHeap'
      OBVIOUS
  <2>4. ASSUME NEW h2, Len(mHeap) + 1 \in DOMAIN h2, h2[Len(mHeap) + 1] = co, heap2[Len(mHeap) + 1] = node
        PROVE  Frame(g, heap2, h2, names, f, co, 1)
    <3>1. f.i + 1 = 1 /\ 1 <= f.n
        BY <2>2, <1>9, <1>14
    <3>2. SequenceCall(g, heap2, h2, f, co, 1)
        BY <3>1, <2>2, <2>4, <1>1, <1>4, <1>5, <1>10, FirstsNone DEF SequenceCall
    <3> QED
        BY <3>2 DEF Frame
  <2>5. n > 0 /\ Contents(g, co) # <<>>
      BY <1>9, <1>14
  <2>6. PICK kid \in 0..Len(g) : Contents(g, co)[1] = <<"object", kid>>
      BY <2>5, <1>9
  <2> QED
      BY <2>1, <2>2, <2>3, <2>4, <2>5, <2>6, <1>12, ObjectOpens
<1> QED
    BY <1>13, <1>14

LEMMA DictRead ==
    ASSUME NEW g, NEW S, NEW off, NEW last, NEW rests, NEW names, NEW hobj, NEW fo, NEW fi, NEW pend,
           Ready(g, S, off, last, rests, names, hobj, fo, fi, pend), M!ReadDict
    PROVE  \E hobj2, fo2, fi2, pend2 : Goes(g, S, off, last, rests, names, hobj2, fo2, fi2, pend2)
<1> DEFINE node == [kind |-> "dict", val |-> 0, kids |-> <<>>]
           f == [co |-> Len(mHeap'), i |-> 0, n |-> -1, got |-> <<>>]
<1>1. /\ mRs = -1 /\ M!Token(0).x = "dict" /\ M!Consume(1)
      /\ mHeap' = Append(mHeap, node)
      /\ mObjects' = M!Inserted(mObjects, mOffset, M!int_hash(1, mOffset), Len(mHeap'))
      /\ mStack' = Append(mStack, f) /\ mRs' = mRs
    BY DEF M!ReadDict, M!Reading, M!SET_OBJECT, M!New
<1>2. PICK co \in 0..Len(g), k \in S :
         /\ Wanted(g, fo, fi, Len(mStack), co)
         /\ Reaches(off, k)
         /\ \/ AtReference(last, rests, names, pend[Len(mStack)], k, co)
            \/ AtObject(g, off, last, rests, names, pend[Len(mStack)], k, co)
    BY <1>1, AwaitingIs
<1>3. ~ AtReference(last, rests, names, pend[Len(mStack)], k, co)
    BY <1>1 DEF AtReference
<1>4. co # 0 /\ g[co].kind = "dict"
    BY <1>1, <1>2, <1>3 DEF AtObject
<1>5. /\ k = mAt + 1
      /\ names[off[mAt]] = co
      /\ rests[k] = Contents(g, co) \o pend[Len(mStack)] /\ last[k] = off[mAt]
    BY <1>2, <1>3, <1>4 DEF AtObject
<1>6. M!Complete(g) /\ Len(mHeap) \in Nat /\ mHeap \in Seq(Nodes(g))
    BY ReadyIs DEF Heap
<1>7. co \in 1..Len(g) /\ co \in DOMAIN g /\ M!Whole(g, co)
    BY <1>4, <1>6, WholeIs
<1>8. mAt' = k /\ mOffset' = off[k]
    BY <1>1, <1>2, <1>5 DEF Reaches
<1>9. /\ Len(g[co].kids) \in Nat /\ Contents(g, co) # <<>>
      /\ \E kid \in 0..Len(g) : Contents(g, co)[1] = <<"object", kid>>
  <2>2. /\ Len(g[co].kids) \in Nat /\ Contents(g, co) \in Seq(Items(g))
        /\ \A i \in 1..Len(g[co].kids) : g[co].kids[i] \in 0..Len(g) /\ Contents(g, co)[i] = <<"object", g[co].kids[i]>>
        /\ Len(Contents(g, co)) = Len(g[co].kids) + 1 /\ Contents(g, co)[Len(g[co].kids) + 1] = <<"object", 0>>
      BY <1>4, <1>6, <1>7, ContentsAre
  <2>3. CASE Len(g[co].kids) = 0
    <3>1. Len(g) \in Nat
        BY <1>6 DEF M!Complete
    <3>2. Len(Contents(g, co)) = 1
        BY <2>2, <2>3
    <3>3. Len(g[co].kids) + 1 = 1
        BY <2>3
    <3>4. 0 \in 0..Len(g) /\ Contents(g, co)[1] = <<"object", 0>>
        BY <2>2, <3>1, <3>3
    <3>5. Contents(g, co) # <<>>
        BY <3>2
    <3> QED
        BY <3>4, <3>5, <2>2
  <2>4. CASE Len(g[co].kids) # 0
    <3>1. 1 \in 1..Len(g[co].kids) /\ Contents(g, co) # <<>>
        BY <2>2, <2>4
    <3> QED
        BY <3>1, <2>2
  <2> QED
      BY <2>3, <2>4
<1>10. /\ node \in Nodes(g) /\ node.kind = g[co].kind /\ node.val = ReadAs(g, co) /\ node.kids = <<>>
  <2>1. ReadAs(g, co) = 0
      BY <1>4, <1>7 DEF M!Whole, ReadAs
  <2>2. 0 \in Values(g)
      BY <2>1, <1>7 DEF Values
  <2>3. <<>> \in Seq(Nat)
      OBVIOUS
  <2> QED
      BY <2>1, <2>2, <2>3, <1>4 DEF Nodes, M!Types
<1>11. Len(mHeap') = Len(mHeap) + 1
  <2> HIDE DEF node
  <2> QED
      BY <1>1, <1>6, <1>10
<1> HIDE DEF node
<1>12. Made(g, S, off, last, rests, names, fo, fi, pend, co, node, k)
    BY <1>1, <1>2, <1>5, <1>7, <1>8, <1>10 DEF Made
<1>13. f \in FrameRecords /\ f.co = Len(mHeap) + 1 /\ f.n = -1 /\ f.i = 0 /\ f.got = <<>>
  <2>1. <<>> \in Seq(Nat) /\ Len(mHeap') \in Int
      BY <1>6, <1>11
  <2> QED
      BY <2>1, <1>11 DEF FrameRecords
<1> HIDE DEF f
<1>14. PICK heap2 : heap2 = mHeap'
    OBVIOUS
<1>15. ASSUME NEW h2, Len(mHeap) + 1 \in DOMAIN h2, h2[Len(mHeap) + 1] = co, heap2[Len(mHeap) + 1] = node
       PROVE  Frame(g, heap2, h2, names, f, co, 1)
  <2>1. /\ Len(heap2[f.co].kids) = 0 /\ Len(f.got) = 0 /\ 1 = 0 + 0 + 1 /\ 0 % 2 = 0
        /\ 1 <= Len(g[co].kids) + 1
      BY <1>9, <1>10, <1>13, <1>15
  <2>2. DictCall(g, heap2, h2, f, co, 1)
      BY <2>1, <1>4, <1>13, <1>15, FirstsNone DEF DictCall
  <2> QED
      BY <2>2 DEF Frame
<1>16. PICK kid \in 0..Len(g) : Contents(g, co)[1] = <<"object", kid>>
    BY <1>9
<1>17. mRs' = -1 /\ mStack' = Append(mStack, f)
    BY <1>1 DEF f
<1>18. Contents(g, co) # <<>> /\ f \in FrameRecords /\ f.co = Len(mHeap) + 1
    BY <1>9, <1>13
<1> QED
    BY <1>12, <1>14, <1>15, <1>16, <1>17, <1>18, ObjectOpens

LEMMA CodeRead ==
    ASSUME NEW g, NEW S, NEW off, NEW last, NEW rests, NEW names, NEW hobj, NEW fo, NEW fi, NEW pend,
           Ready(g, S, off, last, rests, names, hobj, fo, fi, pend), M!ReadCode
    PROVE  \E fo2, fi2, pend2 : Goes(g, S, off, last, rests, names, hobj, fo2, fi2, pend2)
<1> DEFINE f == [co |-> -mOffset - 1, i |-> 0, n |-> 6, got |-> <<>>]
           n == Len(mStack)
<1>1. /\ mRs = -1 /\ M!Token(0).x = "code" /\ M!Consume(1)
      /\ mHeap' = mHeap /\ mObjects' = mObjects
      /\ mStack' = Append(mStack, f) /\ mRs' = -1
    BY DEF M!ReadCode, M!Reading
<1>2. PICK co \in 0..Len(g), k \in S :
         /\ Wanted(g, fo, fi, Len(mStack), co)
         /\ Reaches(off, k)
         /\ \/ AtReference(last, rests, names, pend[Len(mStack)], k, co)
            \/ AtObject(g, off, last, rests, names, pend[Len(mStack)], k, co)
    BY <1>1, AwaitingIs
<1>3. ~ AtReference(last, rests, names, pend[Len(mStack)], k, co)
    BY <1>1 DEF AtReference
<1>4. co # 0 /\ g[co].kind = "code"
    BY <1>1, <1>2, <1>3 DEF AtObject
<1>5. /\ k = mAt + 1
      /\ names[off[mAt]] = co
      /\ rests[k] = Contents(g, co) \o pend[n]
    BY <1>2, <1>3, <1>4 DEF AtObject
<1>6. /\ Heap(g, mHeap, hobj, mStack) /\ Len(mHeap) \in Nat /\ hobj \in [1..Len(mHeap) -> 1..Len(g)]
      /\ Frames(g, mHeap, hobj, names, mStack, fo, fi) /\ n \in Nat
      /\ Calls(g, fo, fi, pend, n) /\ pend[n] \in Seq(Items(g)) /\ M!Complete(g)
      /\ mOffset = off[mAt] /\ mOffset \in Nat
  <2>1. n \in Nat /\ \A j \in 0..n : pend[j] \in Seq(Items(g))
      BY ReadyIs
  <2>2. n \in 0..n
      BY <2>1
  <2> QED
      BY <2>1, <2>2, ReadyIs
<1>7. co \in 1..Len(g) /\ co \in DOMAIN g
    BY <1>4, <1>6, WholeIs
<1>8. mAt' = k /\ mOffset' = off[k]
    BY <1>1, <1>2, <1>5 DEF Reaches
<1>9. f \in FrameRecords /\ f.co < 0 /\ -f.co - 1 = mOffset /\ f.n = 6 /\ f.got = <<>>
  <2>1. <<>> \in Seq(Nat) /\ -mOffset - 1 \in Int /\ -mOffset - 1 < 0 /\ -(-mOffset - 1) - 1 = mOffset
      BY <1>6
  <2> QED
      BY <2>1 DEF FrameRecords
<1> HIDE DEF f
<1>10. Contents(g, co) \in Seq(Items(g)) /\ Contents(g, co) # <<>>
       /\ \E kid \in 0..Len(g) : Contents(g, co)[1] = <<"object", kid>>
  <2>1. /\ Len(g[co].kids) \in Nat /\ Contents(g, co) \in Seq(Items(g))
        /\ \A i \in 1..Len(g[co].kids) : g[co].kids[i] \in 0..Len(g) /\ Contents(g, co)[i] = <<"object", g[co].kids[i]>>
        /\ Len(g[co].kids) = 6 /\ Len(Contents(g, co)) = 8
    <3>1. co \in 1..Len(g) /\ M!Complete(g) /\ g[co].kind = "code"
        BY <1>4, <1>6, <1>7
    <3> HIDE DEF n
    <3> QED
        BY <3>1, ContentsAre
  <2>2. 1 \in 1..Len(g[co].kids)
      BY <2>1
  <2>3. Contents(g, co) # <<>>
    <3>1. Len(Contents(g, co)) = 8 /\ Len(<<>>) = 0
        BY <2>1
    <3> QED
        BY <3>1
  <2> QED
      BY <2>1, <2>2, <2>3
<1>11. PICK kid \in 0..Len(g) : Contents(g, co)[1] = <<"object", kid>>
    BY <1>10
<1>12. PICK fo2, fi2 : fo2 = Put(fo, n + 1, co) /\ fi2 = Put(fi, n + 1, 1)
    OBVIOUS
<1>13. PICK all : all = rests[k]
    OBVIOUS
<1>14. PICK pend2 : pend2 = Put(pend, n + 1, Tail(all))
    OBVIOUS
<1>15. PICK stack2 : stack2 = mStack'
    OBVIOUS
<1>16. Frame(g, mHeap, hobj, names, f, co, 1)
  <2>1. Len(f.got) = 0 /\ 1 = 0 + 1 /\ 1 <= 6
      BY <1>9
  <2>2. CodeCall(g, hobj, names, f, co, 1)
      BY <2>1, <1>4, <1>5, <1>6, <1>9, FirstsNone DEF CodeCall
  <2> QED
      BY <2>2 DEF Frame
<1>17. /\ Frames(g, mHeap, hobj, names, stack2, fo2, fi2) /\ Len(stack2) = n + 1
       /\ stack2[n + 1] = f /\ \A j \in 1..n : stack2[j] = mStack[j]
  <2>1. \A j \in 1..Len(mStack) : mStack[j].co > 0 \/ f.co > 0 => mStack[j].co # f.co
    <3> TAKE j \in 1..Len(mStack)
    <3>1. mStack[j].co \in Int /\ f.co \in Int
      <4>1. mStack \in Seq(FrameRecords)
          BY <1>6 DEF Frames
      <4>2. mStack[j] \in FrameRecords
          BY <4>1
      <4> QED
          BY <4>2, <1>9 DEF FrameRecords
    <3> QED
        BY <3>1, <1>9
  <2>2. stack2 = Append(mStack, f) /\ fo2 = Put(fo, Len(mStack) + 1, co) /\ fi2 = Put(fi, Len(mStack) + 1, 1)
      BY <1>1, <1>12, <1>15
  <2>3. /\ Frames(g, mHeap, hobj, names, stack2, fo2, fi2) /\ Len(stack2) = Len(mStack) + 1
        /\ stack2[Len(mStack) + 1] = f /\ \A j \in 1..Len(mStack) : stack2[j] = mStack[j]
    <3>1. Frames(g, mHeap, hobj, names, mStack, fo, fi)
        BY <1>6
    <3>2. f \in FrameRecords
        BY <1>9
    <3> HIDE DEF n
    <3>3. stack2 = Append(mStack, f)
        BY <2>2
    <3>4. fo2 = Put(fo, Len(mStack) + 1, co)
        BY <2>2
    <3>5. fi2 = Put(fi, Len(mStack) + 1, 1)
        BY <2>2
    <3>6. PICK heap, st, hs : heap = mHeap /\ st = mStack /\ hs = hobj
        OBVIOUS
    <3>7. Frames(g, heap, hs, names, st, fo, fi) /\ Frame(g, heap, hs, names, f, co, 1)
        BY <3>1, <3>6, <1>16
    <3>8. \A j \in 1..Len(st) : st[j].co > 0 \/ f.co > 0 => st[j].co # f.co
        BY <2>1, <3>6
    <3>9. stack2 = Append(st, f) /\ fo2 = Put(fo, Len(st) + 1, co) /\ fi2 = Put(fi, Len(st) + 1, 1)
        BY <3>3, <3>4, <3>5, <3>6
    <3>10. Frames(g, heap, hs, names, stack2, fo2, fi2)
        BY <3>2, <3>7, <3>8, <3>9, FramePushed
    <3>11. /\ Len(stack2) = Len(st) + 1
           /\ stack2[Len(st) + 1] = f /\ \A j \in 1..Len(st) : stack2[j] = st[j]
        BY <3>2, <3>7, <3>8, <3>9, FramePushed
    <3> QED
        BY <3>6, <3>10, <3>11
  <2> QED
      BY <2>3
<1>18. Calls(g, fo2, fi2, pend2, n + 1) /\ Answer(g, hobj, fo2, fi2, pend2, n + 1, all, -1)
  <2>1. all = Contents(g, co) \o pend[n]
      BY <1>5, <1>13
  <2> HIDE DEF n
  <2> QED
      BY <2>1, <1>2, <1>6, <1>7, <1>10, <1>11, <1>12, <1>14, CallOpens DEF n
<1>19. Heap(g, mHeap, hobj, stack2)
  <2>1. \A h : (\E j \in 1..n : mStack[j].co = h) => \E j \in 1..Len(stack2) : stack2[j].co = h
      BY <1>6, <1>17
  <2> QED
      BY <2>1, <1>6 DEF Heap
<1>20. Found(g, mObjects, names, hobj, last[k])
  <2>1. Found(g, mObjects, names, hobj, last[mAt])
      BY ReadyIs
  <2> QED
      BY <2>1, <1>4, <1>7 DEF Found
<1>21. Goes(g, S, off, last, rests, names, hobj, fo2, fi2, pend2)
  <2>1. /\ Stream(g, mOut, S, off, last, rests, names) /\ rests[Len(mOut) + 1] = <<>>
        /\ mAt' \in S /\ mOffset' = off[mAt']
      BY <1>2, <1>8, ReadyIs
  <2>2. Found(g, mObjects', names, hobj, last[mAt'])
      BY <1>1, <1>8, <1>20
  <2>3. Heap(g, mHeap', hobj, mStack') /\ Frames(g, mHeap', hobj, names, mStack', fo2, fi2)
      BY <1>1, <1>15, <1>17, <1>19
  <2>4. /\ Calls(g, fo2, fi2, pend2, Len(mStack'))
        /\ Answer(g, hobj, fo2, fi2, pend2, Len(mStack'), rests[mAt'], mRs')
      BY <1>1, <1>8, <1>13, <1>15, <1>17, <1>18
  <2> QED
      BY <2>1, <2>2, <2>3, <2>4 DEF Goes, ReadState
<1> QED
    BY <1>21

\* heap2 is heap but for what object c contains.
Touched(g, heap, c, heap2) ==
    /\ heap2 \in Seq(Nodes(g)) /\ Len(heap2) = Len(heap)
    /\ \A h \in 1..Len(heap) :
          /\ heap2[h].kind = heap[h].kind /\ heap2[h].val = heap[h].val
          /\ h # c => heap2[h] = heap[h]

LEMMA FrontIs ==
    ASSUME NEW T, NEW s \in Seq(T), s # <<>>
    PROVE  /\ Len(s) \in Nat \ {0} /\ M!Last(s) = s[Len(s)]
           /\ M!Front(s) \in Seq(T) /\ Len(M!Front(s)) = Len(s) - 1
           /\ \A j \in 1..Len(s) - 1 : M!Front(s)[j] = s[j]
<1>1. Len(s) \in Nat \ {0}
    OBVIOUS
<1>2. /\ SubSeq(s, 1, Len(s) - 1) \in Seq(T) /\ Len(SubSeq(s, 1, Len(s) - 1)) = Len(s) - 1
      /\ \A j \in 1..Len(s) - 1 : SubSeq(s, 1, Len(s) - 1)[j] = s[j]
  <2>1. PICK m : m = Len(s) - 1
      OBVIOUS
  <2>2. m \in 0..Len(s) /\ m \in Nat
      BY <1>1, <2>1
  <2>3. SubSeq(s, 1, m) = [i \in 1..m |-> s[1 + i - 1]]
      BY <2>2
  <2>4. \A j \in 1..m : s[j] \in T /\ 1 + j - 1 = j
      BY <2>1, <2>2, <1>1
  <2>5. SubSeq(s, 1, m) = [i \in 1..m |-> s[i]]
      BY <2>3, <2>4
  <2>6. SubSeq(s, 1, m) \in Seq(T) /\ Len(SubSeq(s, 1, m)) = m
      BY <2>2, <2>4, <2>5
  <2>7. \A j \in 1..m : SubSeq(s, 1, m)[j] = s[j]
      BY <2>5
  <2> QED
      BY <2>1, <2>6, <2>7
<1> QED
    BY <1>1, <1>2 DEF M!Last, M!Front

LEMMA HeapTouched ==
    ASSUME NEW g, NEW heap, NEW hobj, NEW stack, Heap(g, heap, hobj, stack),
           NEW c, NEW heap2, Touched(g, heap, c, heap2), NEW stack2,
           \A j \in 1..Len(stack) : stack[j].co = c \/ \E k \in 1..Len(stack2) : stack2[k].co = stack[j].co,
           c \in 1..Len(heap) => Full(g, heap2, hobj, c) \/ \E k \in 1..Len(stack2) : stack2[k].co = c
    PROVE  Heap(g, heap2, hobj, stack2)
<1>1. /\ hobj \in [1..Len(heap) -> 1..Len(g)]
      /\ \A h \in 1..Len(heap) :
          /\ heap[h].kind = g[hobj[h]].kind /\ heap[h].val = ReadAs(g, hobj[h])
          /\ Full(g, heap, hobj, h) \/ \E j \in 1..Len(stack) : stack[j].co = h
    BY DEF Heap
<1>2. /\ heap2 \in Seq(Nodes(g)) /\ Len(heap2) = Len(heap)
      /\ \A h \in 1..Len(heap) :
          /\ heap2[h].kind = heap[h].kind /\ heap2[h].val = heap[h].val
          /\ h # c => heap2[h] = heap[h]
    BY DEF Touched
<1>3. ASSUME NEW h \in 1..Len(heap)
      PROVE  Full(g, heap2, hobj, h) \/ \E k \in 1..Len(stack2) : stack2[k].co = h
  <2>1. CASE h = c
      BY <2>1
  <2>2. CASE h # c
    <3>1. Full(g, heap, hobj, h) => Full(g, heap2, hobj, h)
        BY <2>2, <1>2 DEF Full
    <3>2. CASE Full(g, heap, hobj, h)
        BY <3>1, <3>2
    <3>3. CASE ~ Full(g, heap, hobj, h)
      <4>1. PICK j \in 1..Len(stack) : stack[j].co = h
          BY <3>3, <1>1
      <4> QED
          BY <4>1, <2>2
    <3> QED
        BY <3>2, <3>3
  <2> QED
      BY <2>1, <2>2
<1> QED
    BY <1>1, <1>2, <1>3 DEF Heap

LEMMA FrameKept ==
    ASSUME NEW g, NEW heap, NEW hobj, NEW names, NEW f, NEW o, NEW i, Frame(g, heap, hobj, names, f, o, i),
           NEW heap2, f.co \in DOMAIN hobj => heap2[f.co] = heap[f.co]
    PROVE  Frame(g, heap2, hobj, names, f, o, i)
<1>1. CASE SequenceCall(g, heap, hobj, f, o, i)
  <2>1. SequenceCall(g, heap2, hobj, f, o, i)
      BY <1>1 DEF SequenceCall
  <2> QED
      BY <2>1 DEF Frame
<1>2. CASE DictCall(g, heap, hobj, f, o, i)
  <2>1. DictCall(g, heap2, hobj, f, o, i)
      BY <1>2 DEF DictCall
  <2> QED
      BY <2>1 DEF Frame
<1>3. CASE CodeCall(g, hobj, names, f, o, i)
    BY <1>3 DEF Frame
<1> QED
    BY <1>1, <1>2, <1>3 DEF Frame

\* The calls below the last one are not disturbed.
LEMMA FramesBelow ==
    ASSUME NEW g, NEW heap, NEW hobj, NEW names, NEW stack, NEW fo, NEW fi,
           Frames(g, heap, hobj, names, stack, fo, fi), Len(heap) \in Nat,
           hobj \in [1..Len(heap) -> 1..Len(g)], stack # <<>>,
           NEW n, n = Len(stack), NEW heap2, Touched(g, heap, stack[n].co, heap2)
    PROVE  \A j \in 1..n - 1 : Frame(g, heap2, hobj, names, stack[j], fo[j], fi[j])
<1>1. /\ stack \in Seq(FrameRecords) /\ n \in Nat \ {0}
      /\ \A j \in 1..n : Frame(g, heap, hobj, names, stack[j], fo[j], fi[j])
      /\ \A j \in 1..n : \A k \in 1..n : j # k /\ stack[j].co > 0 => stack[j].co # stack[k].co
  <2>1. stack \in Seq(FrameRecords)
      BY DEF Frames
  <2>2. n \in Nat \ {0}
      BY <2>1
  <2> QED
      BY <2>1, <2>2 DEF Frames
<1> TAKE j \in 1..n - 1
<1>2. j \in 1..n /\ n \in 1..n /\ j # n
    BY <1>1
<1>3. stack[j].co > 0 => stack[j].co # stack[n].co
    BY <1>1, <1>2
<1>4. stack[j].co \in DOMAIN hobj => heap2[stack[j].co] = heap[stack[j].co]
  <2> SUFFICES ASSUME stack[j].co \in DOMAIN hobj
               PROVE  heap2[stack[j].co] = heap[stack[j].co]
      OBVIOUS
  <2>1. stack[j].co \in 1..Len(heap) /\ stack[j].co > 0
      OBVIOUS
  <2> QED
      BY <2>1, <1>3 DEF Touched
<1>5. Frame(g, heap, hobj, names, stack[j], fo[j], fi[j])
    BY <1>1, <1>2
<1> QED
    BY <1>4, <1>5, FrameKept

LEMMA FramePopped ==
    ASSUME NEW g, NEW heap, NEW hobj, NEW names, NEW stack, NEW fo, NEW fi,
           Frames(g, heap, hobj, names, stack, fo, fi), Len(heap) \in Nat,
           hobj \in [1..Len(heap) -> 1..Len(g)], stack # <<>>,
           NEW n, n = Len(stack), NEW heap2, Touched(g, heap, stack[n].co, heap2),
           NEW stack2, stack2 = M!Front(stack)
    PROVE  /\ Frames(g, heap2, hobj, names, stack2, fo, fi)
           /\ n \in Nat \ {0} /\ Len(stack2) = n - 1
           /\ \A j \in 1..n - 1 : stack2[j] = stack[j]
<1>1. /\ stack \in Seq(FrameRecords)
      /\ \A j \in 1..n : \A k \in 1..n : j # k /\ stack[j].co > 0 => stack[j].co # stack[k].co
    BY DEF Frames
<1>2. /\ n \in Nat \ {0} /\ stack2 \in Seq(FrameRecords) /\ Len(stack2) = n - 1
      /\ \A j \in 1..n - 1 : stack2[j] = stack[j]
    BY <1>1, FrontIs
<1>3. \A j \in 1..n - 1 : Frame(g, heap2, hobj, names, stack[j], fo[j], fi[j])
    BY FramesBelow
<1>4. \A j \in 1..n - 1 : j \in 1..n
    BY <1>2
<1>5. Frames(g, heap2, hobj, names, stack2, fo, fi)
  <2>1. \A j \in 1..Len(stack2) : j \in 1..n - 1 /\ j \in 1..n /\ stack2[j] = stack[j]
      BY <1>2, <1>4
  <2>2. \A j \in 1..Len(stack2) : Frame(g, heap2, hobj, names, stack2[j], fo[j], fi[j])
      BY <2>1, <1>3
  <2>3. \A j \in 1..Len(stack2) : \A k \in 1..Len(stack2) :
           j # k /\ stack2[j].co > 0 => stack2[j].co # stack2[k].co
      BY <2>1, <1>1
  <2> QED
      BY <2>2, <2>3, <1>2 DEF Frames
<1> QED
    BY <1>2, <1>5

LEMMA FrameReplaced ==
    ASSUME NEW g, NEW heap, NEW hobj, NEW names, NEW stack, NEW fo, NEW fi,
           Frames(g, heap, hobj, names, stack, fo, fi), Len(heap) \in Nat,
           hobj \in [1..Len(heap) -> 1..Len(g)], stack # <<>>,
           NEW n, n = Len(stack), NEW heap2, Touched(g, heap, stack[n].co, heap2),
           NEW f \in FrameRecords, f.co = stack[n].co,
           NEW fi2, fi2 = Put(fi, n, fi[n] + 1), Frame(g, heap2, hobj, names, f, fo[n], fi[n] + 1),
           NEW stack2, stack2 = Append(M!Front(stack), f)
    PROVE  /\ Frames(g, heap2, hobj, names, stack2, fo, fi2)
           /\ n \in Nat \ {0} /\ Len(stack2) = n /\ stack2[n] = f
           /\ \A j \in 1..n - 1 : stack2[j] = stack[j]
<1>1. /\ stack \in Seq(FrameRecords)
      /\ \A j \in 1..n : \A k \in 1..n : j # k /\ stack[j].co > 0 => stack[j].co # stack[k].co
    BY DEF Frames
<1>2. PICK front : front = M!Front(stack)
    OBVIOUS
<1>3. /\ n \in Nat \ {0} /\ front \in Seq(FrameRecords) /\ Len(front) = n - 1
      /\ \A j \in 1..n - 1 : front[j] = stack[j]
    BY <1>1, <1>2, FrontIs
<1>4. /\ stack2 \in Seq(FrameRecords) /\ Len(stack2) = n /\ stack2[n] = f
      /\ \A j \in 1..n - 1 : stack2[j] = stack[j]
    BY <1>2, <1>3
<1>5. \A j \in 1..n - 1 : Frame(g, heap2, hobj, names, stack[j], fo[j], fi[j])
    BY FramesBelow
<1>6. fi2[n] = fi[n] + 1 /\ \A j \in 1..n - 1 : fi2[j] = fi[j]
    BY <1>3 DEF Put
<1>7. \A j \in 1..n : j = n \/ j \in 1..n - 1
    BY <1>3
<1>8. \A j \in 1..n : Frame(g, heap2, hobj, names, stack2[j], fo[j], fi2[j])
    BY <1>4, <1>5, <1>6, <1>7
<1>9. \A j \in 1..n : stack2[j].co = stack[j].co
    BY <1>4, <1>7
<1>10. \A j \in 1..n : \A k \in 1..n : j # k /\ stack2[j].co > 0 => stack2[j].co # stack2[k].co
  <2> TAKE j \in 1..n
  <2> TAKE k \in 1..n
  <2>1. stack2[j].co = stack[j].co
      BY <1>9
  <2>2. stack2[k].co = stack[k].co
      BY <1>9
  <2>3. j # k /\ stack[j].co > 0 => stack[j].co # stack[k].co
      BY <1>1
  <2> QED
      BY <2>1, <2>2, <2>3
<1>11. Frames(g, heap2, hobj, names, stack2, fo, fi2)
    BY <1>4, <1>8, <1>10 DEF Frames
<1> QED
    BY <1>3, <1>4, <1>11

\* The last call gets what it waits for.
Receives(g, rests, names, hobj, fo, fi, pend, n, f, o, i) ==
    /\ n = Len(mStack) /\ n \in Nat \ {0} /\ mStack # <<>> /\ mRs \in Nat
    /\ f = mStack[n] /\ f = M!Caller /\ f \in FrameRecords
    /\ o = fo[n] /\ i = fi[n] /\ o \in 1..Len(g) /\ i \in 1..Len(Contents(g, o))
    /\ Frame(g, mHeap, hobj, names, f, o, i)
    /\ \E co \in 0..Len(g) : Contents(g, o)[i] = <<"object", co>> /\ Reps(hobj, mRs, co)
    /\ rests[mAt] = pend[n] /\ pend[n] \in Seq(Items(g)) /\ pend[n - 1] \in Seq(Items(g))
    /\ Contents(g, o) \in Seq(Items(g))
    /\ Suffix(Contents(g, o) \o pend[n - 1], i, pend[n])

LEMMA ReceivingIs ==
    ASSUME NEW g, NEW S, NEW off, NEW last, NEW rests, NEW names, NEW hobj, NEW fo, NEW fi, NEW pend,
           Ready(g, S, off, last, rests, names, hobj, fo, fi, pend), M!Receiving
    PROVE  Receives(g, rests, names, hobj, fo, fi, pend, Len(mStack), M!Caller, fo[Len(mStack)], fi[Len(mStack)])
<1> DEFINE n == Len(mStack)
<1>1. mRs # -1 /\ mStack # <<>>
    BY DEF M!Receiving
<1>2. /\ Frames(g, mHeap, hobj, names, mStack, fo, fi) /\ n \in Nat
      /\ Calls(g, fo, fi, pend, n) /\ M!Complete(g)
      /\ \A j \in 0..n : pend[j] \in Seq(Items(g))
      /\ Answer(g, hobj, fo, fi, pend, n, rests[mAt], mRs)
    BY ReadyIs
<1>3. mStack \in Seq(FrameRecords)
    BY <1>2 DEF Frames
<1>4. n \in Nat \ {0} /\ mStack[n] \in FrameRecords /\ n \in 1..n /\ n - 1 \in 0..n /\ n \in 0..n
    BY <1>1, <1>3
<1>5. M!Caller = mStack[n]
    BY <1>1, <1>3, FrontIs DEF M!Caller
<1>6. Call(g, fo, fi, pend, n)
    BY <1>2, <1>4 DEF Calls
<1>7. /\ fo[n] \in 1..Len(g) /\ fi[n] \in 1..Len(Contents(g, fo[n]))
      /\ Suffix(Contents(g, fo[n]) \o pend[n - 1], fi[n], pend[n])
    BY <1>6 DEF Call
<1>8. Contents(g, fo[n]) \in Seq(Items(g))
  <2>1. fo[n] \in 0..Len(g)
      BY <1>7
  <2> QED
      BY <2>1, <1>2, ContentsItems
<1>9. /\ mRs \in Nat /\ rests[mAt] = pend[n]
      /\ \E co \in 0..Len(g) : Contents(g, fo[n])[fi[n]] = <<"object", co>> /\ Reps(hobj, mRs, co)
    BY <1>1, <1>2, <1>4 DEF Answer, Wanted
<1>10. Frame(g, mHeap, hobj, names, M!Caller, fo[n], fi[n])
    BY <1>2, <1>4, <1>5 DEF Frames
<1>11. pend[n] \in Seq(Items(g)) /\ pend[n - 1] \in Seq(Items(g))
    BY <1>2, <1>4
<1> QED
    BY <1>1, <1>4, <1>5, <1>7, <1>8, <1>9, <1>10, <1>11 DEF Receives

LEMMA CallerGoesOn ==
    ASSUME NEW g, NEW S, NEW off, NEW last, NEW rests, NEW names, NEW hobj, NEW fo, NEW fi, NEW pend,
           Ready(g, S, off, last, rests, names, hobj, fo, fi, pend), NEW n, NEW f, NEW o, NEW i,
           Receives(g, rests, names, hobj, fo, fi, pend, n, f, o, i),
           mAt' = mAt, mOffset' = mOffset, mObjects' = mObjects, Touched(g, mHeap, f.co, mHeap'),
           NEW f2 \in FrameRecords, f2.co = f.co, mStack' = Append(M!Front(mStack), f2), mRs' = -1,
           NEW heap2, heap2 = mHeap', Frame(g, heap2, hobj, names, f2, o, i + 1),
           i < Len(Contents(g, o)), NEW kid \in 0..Len(g), Contents(g, o)[i + 1] = <<"object", kid>>
    PROVE  \E fi2, pend2 : Goes(g, S, off, last, rests, names, hobj, fo, fi2, pend2)
<1>1. /\ n = Len(mStack) /\ n \in Nat \ {0} /\ mStack # <<>>
      /\ f = mStack[n] /\ o = fo[n] /\ i = fi[n]
      /\ rests[mAt] = pend[n] /\ pend[n - 1] \in Seq(Items(g))
      /\ Contents(g, o) \in Seq(Items(g))
    BY DEF Receives
<1>2. /\ Stream(g, mOut, S, off, last, rests, names) /\ rests[Len(mOut) + 1] = <<>>
      /\ mAt \in S /\ mOffset = off[mAt]
      /\ Found(g, mObjects, names, hobj, last[mAt])
      /\ Heap(g, mHeap, hobj, mStack) /\ Len(mHeap) \in Nat /\ hobj \in [1..Len(mHeap) -> 1..Len(g)]
      /\ Frames(g, mHeap, hobj, names, mStack, fo, fi)
      /\ Calls(g, fo, fi, pend, Len(mStack))
    BY ReadyIs
<1>3. PICK fi2, pend2, stack2 :
        fi2 = Put(fi, n, fi[n] + 1) /\ pend2 = Put(pend, n, Tail(pend[n])) /\ stack2 = mStack'
    OBVIOUS
<1>4. Calls(g, fo, fi2, pend2, n) /\ Answer(g, hobj, fo, fi2, pend2, n, pend[n], -1)
  <2>1. /\ Calls(g, fo, fi, pend, n) /\ Contents(g, fo[n]) \in Seq(Items(g))
        /\ fi[n] < Len(Contents(g, fo[n])) /\ Contents(g, fo[n])[fi[n] + 1] = <<"object", kid>>
      BY <1>1, <1>2
  <2>2. fi2 = Put(fi, n, fi[n] + 1) /\ pend2 = Put(pend, n, Tail(pend[n]))
      BY <1>3
  <2> QED
      BY <2>1, <2>2, <1>1, CallGoesOn
<1>5. Touched(g, mHeap, mStack[n].co, heap2) /\ f2.co = mStack[n].co
    BY <1>1
<1>6. /\ Frames(g, heap2, hobj, names, stack2, fo, fi2)
      /\ Len(stack2) = n /\ stack2[n] = f2
      /\ \A j \in 1..n - 1 : stack2[j] = mStack[j]
  <2>1. Frame(g, heap2, hobj, names, f2, fo[n], fi[n] + 1)
      BY <1>1
  <2>2. Frames(g, mHeap, hobj, names, mStack, fo, fi) /\ Len(mHeap) \in Nat
        /\ hobj \in [1..Len(mHeap) -> 1..Len(g)]
      BY <1>2
  <2>3. stack2 = Append(M!Front(mStack), f2)
      BY <1>3
  <2>4. fi2 = Put(fi, n, fi[n] + 1)
      BY <1>3
  <2>5. n = Len(mStack) /\ mStack # <<>>
      BY <1>1
  <2>6. Frames(g, heap2, hobj, names, stack2, fo, fi2)
      BY <2>1, <2>2, <2>3, <2>4, <2>5, <1>5, FrameReplaced
  <2>7. Len(stack2) = n /\ stack2[n] = f2 /\ \A j \in 1..n - 1 : stack2[j] = mStack[j]
    <3>1. mStack \in Seq(FrameRecords)
        BY <2>2 DEF Frames
    <3>2. PICK front : front = M!Front(mStack)
        OBVIOUS
    <3>3. /\ front \in Seq(FrameRecords) /\ Len(front) = n - 1 /\ n \in Nat \ {0}
          /\ \A j \in 1..n - 1 : front[j] = mStack[j]
        BY <3>1, <3>2, <2>5, FrontIs
    <3> QED
        BY <3>2, <3>3, <2>3
  <2> QED
      BY <2>6, <2>7
<1>7. Heap(g, heap2, hobj, stack2)
  <2>1. \A j \in 1..Len(mStack) : j = n \/ j \in 1..n - 1
      BY <1>1
  <2>2. n \in 1..Len(stack2) /\ stack2[n].co = f.co /\ mStack[n].co = f.co
      BY <1>1, <1>6
  <2>3. \A j \in 1..Len(mStack) : mStack[j].co = f.co \/ \E k \in 1..Len(stack2) : stack2[k].co = mStack[j].co
    <3> TAKE j \in 1..Len(mStack)
    <3>1. CASE j = n
        BY <3>1, <2>2
    <3>2. CASE j \in 1..n - 1
      <4>1. stack2[j] = mStack[j] /\ j \in 1..Len(stack2)
          BY <3>2, <1>1, <1>6
      <4> QED
          BY <4>1
    <3> QED
        BY <3>1, <3>2, <2>1
  <2>4. \E k \in 1..Len(stack2) : stack2[k].co = f.co
      BY <2>2
  <2>5. Heap(g, mHeap, hobj, mStack) /\ Touched(g, mHeap, f.co, heap2)
      BY <1>2
  <2> QED
      BY <2>3, <2>4, <2>5, HeapTouched
<1>8. Goes(g, S, off, last, rests, names, hobj, fo, fi2, pend2)
    BY <1>1, <1>2, <1>3, <1>4, <1>6, <1>7 DEF Goes, ReadState
<1> QED
    BY <1>8

LEMMA CallerReturns ==
    ASSUME NEW g, NEW S, NEW off, NEW last, NEW rests, NEW names, NEW hobj, NEW fo, NEW fi, NEW pend,
           Ready(g, S, off, last, rests, names, hobj, fo, fi, pend), NEW n, NEW f, NEW o, NEW i,
           Receives(g, rests, names, hobj, fo, fi, pend, n, f, o, i),
           mAt' = mAt, mOffset' = mOffset, mObjects' = mObjects, Touched(g, mHeap, f.co, mHeap'),
           mStack' = M!Front(mStack), mRs' = f.co,
           f.co \in DOMAIN hobj, hobj[f.co] = o, NEW heap2, heap2 = mHeap', Full(g, heap2, hobj, f.co),
           i = Len(Contents(g, o))
    PROVE  Goes(g, S, off, last, rests, names, hobj, fo, fi, pend)
<1>1. /\ n = Len(mStack) /\ n \in Nat \ {0} /\ mStack # <<>>
      /\ f = mStack[n] /\ o = fo[n] /\ i = fi[n] /\ o \in 1..Len(g)
      /\ rests[mAt] = pend[n] /\ pend[n - 1] \in Seq(Items(g)) /\ pend[n] \in Seq(Items(g))
      /\ Contents(g, o) \in Seq(Items(g))
      /\ Suffix(Contents(g, o) \o pend[n - 1], i, pend[n])
    BY DEF Receives
<1>2. /\ Stream(g, mOut, S, off, last, rests, names) /\ rests[Len(mOut) + 1] = <<>>
      /\ mAt \in S /\ mOffset = off[mAt]
      /\ Found(g, mObjects, names, hobj, last[mAt])
      /\ Heap(g, mHeap, hobj, mStack) /\ Len(mHeap) \in Nat /\ hobj \in [1..Len(mHeap) -> 1..Len(g)]
      /\ Frames(g, mHeap, hobj, names, mStack, fo, fi)
      /\ Calls(g, fo, fi, pend, Len(mStack))
    BY ReadyIs
<1>3. PICK stack2, x, rest : stack2 = mStack' /\ x = f.co /\ rest = pend[n]
    OBVIOUS
<1>4. Calls(g, fo, fi, pend, n - 1) /\ Answer(g, hobj, fo, fi, pend, n - 1, rest, x)
  <2>1. /\ Calls(g, fo, fi, pend, n) /\ Contents(g, fo[n]) \in Seq(Items(g)) /\ rest \in Seq(Items(g))
        /\ Suffix(Contents(g, fo[n]) \o pend[n - 1], Len(Contents(g, fo[n])), rest)
      BY <1>1, <1>2, <1>3
  <2>2. x \in Nat /\ Reps(hobj, x, fo[n])
    <3>1. x \in 1..Len(mHeap) /\ fo[n] # 0
        BY <1>1, <1>2, <1>3
    <3> QED
        BY <3>1, <1>1, <1>3 DEF Reps
  <2> QED
      BY <2>1, <2>2, <1>1, CallReturns
<1>5. Touched(g, mHeap, mStack[n].co, heap2)
    BY <1>1
<1>6. /\ Frames(g, heap2, hobj, names, stack2, fo, fi)
      /\ Len(stack2) = n - 1
      /\ \A j \in 1..n - 1 : stack2[j] = mStack[j]
  <2>2. Frames(g, mHeap, hobj, names, mStack, fo, fi) /\ Len(mHeap) \in Nat
        /\ hobj \in [1..Len(mHeap) -> 1..Len(g)]
      BY <1>2
  <2>3. stack2 = M!Front(mStack)
      BY <1>3
  <2>5. n = Len(mStack) /\ mStack # <<>>
      BY <1>1
  <2>6. Frames(g, heap2, hobj, names, stack2, fo, fi)
      BY <2>2, <2>3, <2>5, <1>5, FramePopped
  <2>7. Len(stack2) = n - 1 /\ \A j \in 1..n - 1 : stack2[j] = mStack[j]
    <3>1. mStack \in Seq(FrameRecords)
        BY <2>2 DEF Frames
    <3> QED
        BY <3>1, <2>3, <2>5, FrontIs
  <2> QED
      BY <2>6, <2>7
<1>7. Heap(g, heap2, hobj, stack2)
  <2>1. \A j \in 1..Len(mStack) : j = n \/ j \in 1..n - 1
      BY <1>1
  <2>3. \A j \in 1..Len(mStack) : mStack[j].co = f.co \/ \E k \in 1..Len(stack2) : stack2[k].co = mStack[j].co
    <3> TAKE j \in 1..Len(mStack)
    <3>1. CASE j = n
        BY <3>1, <1>1
    <3>2. CASE j \in 1..n - 1
      <4>1. stack2[j] = mStack[j] /\ j \in 1..Len(stack2)
          BY <3>2, <1>1, <1>6
      <4> QED
          BY <4>1
    <3> QED
        BY <3>1, <3>2, <2>1
  <2>5. Heap(g, mHeap, hobj, mStack) /\ Touched(g, mHeap, f.co, heap2)
      BY <1>2
  <2> QED
      BY <2>3, <2>5, HeapTouched
<1>8. Goes(g, S, off, last, rests, names, hobj, fo, fi, pend)
  <2>1. Answer(g, hobj, fo, fi, pend, Len(mStack'), rests[mAt'], mRs')
      BY <1>1, <1>3, <1>4, <1>6
  <2> QED
      BY <2>1, <1>1, <1>2, <1>3, <1>4, <1>6, <1>7 DEF Goes, ReadState
<1> QED
    BY <1>8

LEMMA KidsChanged ==
    ASSUME NEW g, NEW heap \in Seq(Nodes(g)), NEW c \in 1..Len(heap), NEW kids \in Seq(Nat),
           NEW heap2, heap2 = [heap EXCEPT ![c].kids = kids]
    PROVE  Touched(g, heap, c, heap2) /\ heap2[c].kids = kids
<1>1. PICK T : T = Nodes(g)
    OBVIOUS
<1>2. \A h \in 1..Len(heap) : heap[h] \in Nodes(g)
    OBVIOUS
<1>3. [heap[c] EXCEPT !.kids = kids] \in Nodes(g)
    BY <1>2 DEF Nodes
<1>4. /\ heap2 \in Seq(T) /\ Len(heap2) = Len(heap)
      /\ heap2[c] = [heap[c] EXCEPT !.kids = kids]
      /\ \A h \in 1..Len(heap) : h # c => heap2[h] = heap[h]
  <2>1. PICK x : x = [heap[c] EXCEPT !.kids = kids]
      OBVIOUS
  <2>2. heap2 = [heap EXCEPT ![c] = x] /\ x \in T /\ heap \in Seq(T)
      BY <2>1, <1>1, <1>3
  <2> QED
      BY <2>1, <2>2
<1>5. heap[c] \in Nodes(g)
    BY <1>2
<1>6. /\ heap2[c].kids = kids /\ heap2[c].kind = heap[c].kind /\ heap2[c].val = heap[c].val
    BY <1>4, <1>5 DEF Nodes
<1> QED
    BY <1>1, <1>4, <1>6 DEF Touched

\* What is read stands for the next thing the object contains.
LEMMA NextIs ==
    ASSUME NEW g, NEW o, NEW i, NEW kid, NEW hobj, NEW x,
           \E co \in 0..Len(g) : Contents(g, o)[i] = <<"object", co>> /\ Reps(hobj, x, co),
           Contents(g, o)[i] = <<"object", kid>>
    PROVE  Reps(hobj, x, kid)
OBVIOUS

LEMMA FirstsNext ==
    ASSUME NEW g, NEW hobj, NEW kids, NEW k \in Nat, NEW o, Firsts(g, hobj, kids, k, o),
           NEW new, \A m \in 1..k : new[m] = kids[m], Reps(hobj, new[k + 1], g[o].kids[k + 1])
    PROVE  Firsts(g, hobj, new, k + 1, o)
<1>1. \A m \in 1..k + 1 : m = k + 1 \/ m \in 1..k
    OBVIOUS
<1> QED
    BY <1>1 DEF Firsts

LEMMA ElementReceived ==
    ASSUME NEW g, NEW S, NEW off, NEW last, NEW rests, NEW names, NEW hobj, NEW fo, NEW fi, NEW pend,
           Ready(g, S, off, last, rests, names, hobj, fo, fi, pend), M!ReceiveElement
    PROVE  \E fi2, pend2 : Goes(g, S, off, last, rests, names, hobj, fo, fi2, pend2)
<1>1. PICK f, n, o, i : f = M!Caller /\ n = Len(mStack) /\ o = fo[n] /\ i = fi[n]
    OBVIOUS
<1>2. /\ M!Receiving /\ f.co > 0 /\ f.n >= 0
      /\ mHeap' = [mHeap EXCEPT ![f.co].kids[f.i + 1] = mRs]
      /\ IF f.i + 1 < f.n
         THEN mStack' = Append(M!Front(mStack), [f EXCEPT !.i = @ + 1]) /\ mRs' = -1
         ELSE mStack' = M!Front(mStack) /\ mRs' = f.co
      /\ mAt' = mAt /\ mOffset' = mOffset /\ mObjects' = mObjects
    BY <1>1 DEF M!ReceiveElement, M!Continue, M!Return
<1>3. Receives(g, rests, names, hobj, fo, fi, pend, n, f, o, i)
    BY <1>1, <1>2, ReceivingIs
<1>4. /\ f \in FrameRecords /\ o \in 1..Len(g) /\ mRs \in Nat
      /\ Frame(g, mHeap, hobj, names, f, o, i)
      /\ \E co \in 0..Len(g) : Contents(g, o)[i] = <<"object", co>> /\ Reps(hobj, mRs, co)
    BY <1>3 DEF Receives
<1>5. f.co \in Int /\ f.i \in Nat /\ f.n \in Int /\ f.got \in Seq(Nat)
    BY <1>4 DEF FrameRecords
<1>6. SequenceCall(g, mHeap, hobj, f, o, i)
  <2>1. ~ DictCall(g, mHeap, hobj, f, o, i)
    <3>1. f.n >= 0
        BY <1>2
    <3>2. f.n # -1
        BY <3>1, <1>5
    <3> QED
        BY <3>2 DEF DictCall
  <2>2. ~ CodeCall(g, hobj, names, f, o, i)
      BY <1>2, <1>5 DEF CodeCall
  <2> QED
      BY <2>1, <2>2, <1>4 DEF Frame
<1>7. /\ f.co \in DOMAIN hobj /\ hobj[f.co] = o /\ g[o].kind \in {"list", "tuple"}
      /\ f.n = Len(g[o].kids) /\ f.i + 1 = i /\ i <= f.n /\ Len(mHeap[f.co].kids) = f.n
      /\ Firsts(g, hobj, mHeap[f.co].kids, f.i, o)
    BY <1>6 DEF SequenceCall
<1>8. M!Complete(g) /\ mHeap \in Seq(Nodes(g)) /\ hobj \in [1..Len(mHeap) -> 1..Len(g)]
    BY ReadyIs DEF Heap
<1>9. /\ Len(g[o].kids) \in Nat
      /\ \A j \in 1..Len(g[o].kids) : g[o].kids[j] \in 0..Len(g) /\ Contents(g, o)[j] = <<"object", g[o].kids[j]>>
      /\ Len(Contents(g, o)) = Len(g[o].kids)
  <2>1. g[o].kind \notin {"dict", "code"}
      BY <1>7
  <2> QED
      BY <2>1, <1>4, <1>8, ContentsAre
<1>10. PICK c, old : c = f.co /\ old = mHeap[c].kids
    OBVIOUS
<1>11. c \in 1..Len(mHeap) /\ old \in Seq(Nat) /\ Len(old) = f.n
  <2>1. c \in 1..Len(mHeap)
      BY <1>7, <1>8, <1>10
  <2>2. mHeap[c] \in Nodes(g)
      BY <2>1, <1>8
  <2> QED
      BY <2>1, <2>2, <1>7, <1>10 DEF Nodes
<1>12. PICK kids : kids = [old EXCEPT ![i] = mRs]
    OBVIOUS
<1>13. i \in 1..Len(old) /\ i \in Nat
    BY <1>5, <1>7, <1>11
<1>14. /\ kids \in Seq(Nat) /\ Len(kids) = f.n /\ kids[i] = mRs
       /\ \A m \in 1..f.i : kids[m] = old[m]
  <2>1. kids \in Seq(Nat) /\ Len(kids) = Len(old) /\ kids[i] = mRs
        /\ \A m \in 1..Len(old) : m # i => kids[m] = old[m]
      BY <1>4, <1>11, <1>12, <1>13
  <2>2. \A m \in 1..f.i : m \in 1..Len(old) /\ m # i
      BY <1>5, <1>7, <1>11
  <2> QED
      BY <2>1, <2>2, <1>11
<1>15. PICK heap2 : heap2 = mHeap'
    OBVIOUS
<1>16. Touched(g, mHeap, c, heap2) /\ heap2[c].kids = kids
  <2>1. f.i + 1 = i /\ f.co = c
      BY <1>7, <1>10
  <2>2. heap2 = [mHeap EXCEPT ![c].kids[i] = mRs]
      BY <2>1, <1>2, <1>15
  <2>3. heap2 = [mHeap EXCEPT ![c].kids = kids]
      BY <2>2, <1>10, <1>12
  <2>4. PICK heap : heap = mHeap
      OBVIOUS
  <2>5. heap \in Seq(Nodes(g))
      BY <2>4, <1>8
  <2>6. c \in 1..Len(heap) /\ kids \in Seq(Nat)
      BY <2>4, <1>11, <1>14
  <2>7. heap2 = [heap EXCEPT ![c].kids = kids]
      BY <2>3, <2>4
  <2>8. Touched(g, heap, c, heap2)
      BY <2>5, <2>6, <2>7, KidsChanged
  <2>9. heap2[c].kids = kids
      BY <2>5, <2>6, <2>7, KidsChanged
  <2> QED
      BY <2>4, <2>8, <2>9
<1>17. Firsts(g, hobj, kids, i, o)
  <2>1. i \in 1..Len(g[o].kids)
      BY <1>7, <1>11, <1>13
  <2>2. Contents(g, o)[i] = <<"object", g[o].kids[i]>>
      BY <2>1, <1>9
  <2>3. PICK kid : kid = g[o].kids[i]
      OBVIOUS
  <2>4. Reps(hobj, mRs, kid)
      BY <2>2, <2>3, <1>4, NextIs
  <2>5. PICK k : k = f.i
      OBVIOUS
  <2>6. k \in Nat /\ k + 1 = i /\ Firsts(g, hobj, old, k, o) /\ \A m \in 1..k : kids[m] = old[m]
      BY <2>5, <1>5, <1>7, <1>10, <1>14
  <2>7. Reps(hobj, kids[k + 1], g[o].kids[k + 1])
      BY <2>3, <2>4, <2>6, <1>14
  <2>8. Firsts(g, hobj, kids, k + 1, o)
      BY <2>6, <2>7, FirstsNext
  <2> QED
      BY <2>6, <2>8
<1>18. CASE f.i + 1 < f.n
  <2>1. PICK f2 : f2 = [f EXCEPT !.i = @ + 1]
      OBVIOUS
  <2>2. f2 \in FrameRecords /\ f2.co = c /\ f2.i = i /\ f2.n = f.n
    <3>1. f = [co |-> f.co, i |-> f.i, n |-> f.n, got |-> f.got]
        BY <1>4 DEF FrameRecords
    <3>2. f2 = [co |-> f.co, i |-> f.i + 1, n |-> f.n, got |-> f.got]
        BY <2>1, <3>1
    <3> QED
        BY <3>2, <1>5, <1>7, <1>10 DEF FrameRecords
  <2>3. SequenceCall(g, heap2, hobj, f2, o, i + 1)
    <3>1. i + 1 <= f.n
        BY <1>5, <1>7, <1>13, <1>18
    <3> QED
        BY <3>1, <2>2, <1>7, <1>10, <1>14, <1>16, <1>17 DEF SequenceCall
  <2>4. Frame(g, heap2, hobj, names, f2, o, i + 1)
      BY <2>3 DEF Frame
  <2>5. i + 1 \in 1..Len(g[o].kids) /\ i < Len(Contents(g, o))
      BY <1>5, <1>7, <1>9, <1>13, <1>18
  <2>6. PICK kid \in 0..Len(g) : Contents(g, o)[i + 1] = <<"object", kid>>
      BY <2>5, <1>9
  <2>7. mStack' = Append(M!Front(mStack), f2) /\ mRs' = -1
      BY <2>1, <1>2, <1>18
  <2>8. Touched(g, mHeap, f.co, mHeap') /\ f2.co = f.co
      BY <2>2, <1>10, <1>15, <1>16
  <2>9. mAt' = mAt /\ mOffset' = mOffset /\ mObjects' = mObjects
      BY <1>2
  <2>10. f2 \in FrameRecords /\ i < Len(Contents(g, o))
      BY <2>2, <2>5
  <2> QED
      BY <2>4, <2>6, <2>7, <2>8, <2>9, <2>10, <1>3, <1>15, CallerGoesOn
<1>19. CASE ~ (f.i + 1 < f.n)
  <2>1. i = f.n /\ i = Len(Contents(g, o))
      BY <1>5, <1>7, <1>9, <1>13, <1>19
  <2>2. Full(g, heap2, hobj, f.co)
    <3>1. Len(heap2[c].kids) = Len(g[o].kids) /\ Firsts(g, hobj, heap2[c].kids, Len(heap2[c].kids), o)
        BY <2>1, <1>7, <1>14, <1>16, <1>17
    <3> QED
        BY <3>1, <1>7, <1>10 DEF Full
  <2>3. mStack' = M!Front(mStack) /\ mRs' = f.co
      BY <1>2, <1>19
  <2>4. Touched(g, mHeap, f.co, mHeap')
      BY <1>10, <1>15, <1>16
  <2>5. mAt' = mAt /\ mOffset' = mOffset /\ mObjects' = mObjects
      BY <1>2
  <2>6. f.co \in DOMAIN hobj /\ hobj[f.co] = o /\ i = Len(Contents(g, o))
      BY <2>1, <1>7
  <2>7. Goes(g, S, off, last, rests, names, hobj, fo, fi, pend)
      BY <2>2, <2>3, <2>4, <2>5, <2>6, <1>3, <1>15, CallerReturns
  <2> QED
      BY <2>7
<1> QED
    BY <1>18, <1>19

LEMMA NotTouched ==
    ASSUME NEW g, NEW heap \in Seq(Nodes(g)), NEW c
    PROVE  Touched(g, heap, c, heap)
BY DEF Touched

LEMMA EntryAdded ==
    ASSUME NEW g, NEW hobj, NEW old \in Seq(Nat), NEW o, Firsts(g, hobj, old, Len(old), o),
           NEW x \in Nat, NEW y \in Nat,
           Reps(hobj, x, g[o].kids[Len(old) + 1]), Reps(hobj, y, g[o].kids[Len(old) + 2]),
           NEW new, new = old \o <<x, y>>
    PROVE  new \in Seq(Nat) /\ Len(new) = Len(old) + 2 /\ Firsts(g, hobj, new, Len(new), o)
<1>1. PICK k : k = Len(old)
    OBVIOUS
<1>2. /\ k \in Nat /\ new \in Seq(Nat) /\ Len(new) = k + 2 /\ new[k + 1] = x /\ new[k + 2] = y
      /\ \A m \in 1..k : new[m] = old[m]
    BY <1>1
<1>3. Firsts(g, hobj, new, k + 1, o)
  <2>1. k \in Nat /\ Firsts(g, hobj, old, k, o) /\ \A m \in 1..k : new[m] = old[m]
      BY <1>1, <1>2
  <2>2. Reps(hobj, new[k + 1], g[o].kids[k + 1])
      BY <1>1, <1>2
  <2> QED
      BY <2>1, <2>2, FirstsNext
<1>4. Firsts(g, hobj, new, k + 2, o)
  <2>1. PICK j : j = k + 1
      OBVIOUS
  <2>5. k \in Nat
      BY <1>2
  <2>6. j \in Nat /\ j + 1 = k + 2
      BY <2>1, <2>5
  <2>7. Firsts(g, hobj, new, j, o)
      BY <2>1, <1>3
  <2>2. j \in Nat /\ j + 1 = k + 2 /\ Firsts(g, hobj, new, j, o)
      BY <2>6, <2>7
  <2>3. Reps(hobj, new[j + 1], g[o].kids[j + 1])
      BY <2>2, <1>1, <1>2
  <2>4. Firsts(g, hobj, new, j + 1, o)
      BY <2>2, <2>3, FirstsNext
  <2> QED
      BY <2>2, <2>4
<1> QED
    BY <1>1, <1>2, <1>4

LEMMA EntryReceived ==
    ASSUME NEW g, NEW S, NEW off, NEW last, NEW rests, NEW names, NEW hobj, NEW fo, NEW fi, NEW pend,
           Ready(g, S, off, last, rests, names, hobj, fo, fi, pend), M!ReceiveEntry
    PROVE  \E fi2, pend2 : Goes(g, S, off, last, rests, names, hobj, fo, fi2, pend2)
<1>1. PICK f, n, o, i : f = M!Caller /\ n = Len(mStack) /\ o = fo[n] /\ i = fi[n]
    OBVIOUS
<1>2. /\ M!Receiving /\ f.co > 0 /\ f.n = -1
      /\ \/ /\ f.got = <<>> /\ mRs = 0 /\ mStack' = M!Front(mStack) /\ mRs' = f.co /\ mHeap' = mHeap
         \/ /\ f.got = <<>> /\ mRs # 0 /\ mHeap' = mHeap
            /\ mStack' = Append(M!Front(mStack), [f EXCEPT !.got = <<mRs>>]) /\ mRs' = -1
         \/ /\ f.got # <<>>
            /\ mHeap' = [mHeap EXCEPT ![f.co].kids = IF mRs = 0 THEN @ ELSE @ \o <<f.got[1], mRs>>]
            /\ mStack' = Append(M!Front(mStack), [f EXCEPT !.got = <<>>]) /\ mRs' = -1
      /\ mAt' = mAt /\ mOffset' = mOffset /\ mObjects' = mObjects
    BY <1>1 DEF M!ReceiveEntry, M!Continue, M!Return
<1>3. Receives(g, rests, names, hobj, fo, fi, pend, n, f, o, i)
    BY <1>1, <1>2, ReceivingIs
<1>4. /\ f \in FrameRecords /\ o \in 1..Len(g) /\ mRs \in Nat
      /\ Frame(g, mHeap, hobj, names, f, o, i)
      /\ \E co \in 0..Len(g) : Contents(g, o)[i] = <<"object", co>> /\ Reps(hobj, mRs, co)
    BY <1>3 DEF Receives
<1>5. f.co \in Int /\ f.i \in Nat /\ f.n \in Int /\ f.got \in Seq(Nat)
    BY <1>4 DEF FrameRecords
<1>6. M!Complete(g) /\ mHeap \in Seq(Nodes(g)) /\ hobj \in [1..Len(mHeap) -> 1..Len(g)]
    BY ReadyIs DEF Heap
<1>7. o \in DOMAIN g /\ M!Whole(g, o)
    BY <1>4, <1>6, WholeIs
<1>8. PICK K, cs : K = g[o].kids /\ cs = Contents(g, o)
    OBVIOUS
<1>9. /\ Len(K) \in Nat
      /\ \A j \in 1..Len(K) : K[j] \in 0..Len(g) /\ cs[j] = <<"object", K[j]>>
    BY <1>4, <1>6, <1>8, ContentsAre
<1>10. DictCall(g, mHeap, hobj, f, o, i)
  <2>1. ~ SequenceCall(g, mHeap, hobj, f, o, i)
    <3>1. f.n = -1 /\ Len(g[o].kids) \in Nat
        BY <1>2, <1>8, <1>9
    <3>2. f.n # Len(g[o].kids)
        BY <3>1
    <3> QED
        BY <3>2 DEF SequenceCall
  <2>2. ~ CodeCall(g, hobj, names, f, o, i)
    <3>1. f.co > 0
        BY <1>2
    <3>2. ~ (f.co < 0)
        BY <3>1, <1>5
    <3> QED
        BY <3>2 DEF CodeCall
  <2> QED
      BY <2>1, <2>2, <1>4 DEF Frame
<1>11. PICK c, old : c = f.co /\ old = mHeap[c].kids
    OBVIOUS
<1>12. /\ c \in DOMAIN hobj /\ hobj[c] = o /\ g[o].kind = "dict" /\ f.n = -1
       /\ i = Len(old) + Len(f.got) + 1 /\ i <= Len(K) + 1 /\ Len(old) % 2 = 0
       /\ Firsts(g, hobj, old, Len(old), o)
       /\ f.got = <<>> \/ (Len(f.got) = 1 /\ Reps(hobj, f.got[1], K[Len(old) + 1]))
    BY <1>8, <1>10, <1>11 DEF DictCall
<1>13. c \in 1..Len(mHeap) /\ old \in Seq(Nat) /\ Len(old) \in Nat
  <2>1. c \in 1..Len(mHeap)
      BY <1>6, <1>12
  <2>2. mHeap[c] \in Nodes(g)
      BY <2>1, <1>6
  <2>3. old \in Seq(Nat)
      BY <2>2, <1>11 DEF Nodes
  <2> QED
      BY <2>1, <2>3
<1>14. Len(cs) = Len(K) + 1 /\ cs[Len(K) + 1] = <<"object", 0>>
    BY <1>4, <1>6, <1>8, <1>12, ContentsAre
<1>15. Len(K) % 2 = 0 /\ \A j \in 1..Len(K) : K[j] # 0
  <2>1. DOMAIN g[o].kids = 1..Len(g[o].kids)
      BY <1>4, <1>6, <1>7, KidsAre
  <2> QED
      BY <2>1, <1>7, <1>8, <1>12 DEF M!Whole
<1>16. \A j \in 1..Len(K) : i = j => Reps(hobj, mRs, K[j]) /\ mRs # 0
  <2> TAKE j \in 1..Len(K)
  <2> SUFFICES ASSUME i = j
               PROVE  Reps(hobj, mRs, K[j]) /\ mRs # 0
      OBVIOUS
  <2>1. PICK kid : kid = K[j]
      OBVIOUS
  <2>2. Contents(g, o)[i] = <<"object", kid>>
      BY <2>1, <1>8, <1>9
  <2>3. Reps(hobj, mRs, kid)
      BY <2>2, <1>4, NextIs
  <2>4. kid # 0 /\ 0 \notin DOMAIN hobj
      BY <2>1, <1>6, <1>15
  <2> QED
      BY <2>1, <2>3, <2>4 DEF Reps
<1>17. i = Len(K) + 1 => mRs = 0
  <2> SUFFICES ASSUME i = Len(K) + 1
               PROVE  mRs = 0
      OBVIOUS
  <2>1. Contents(g, o)[i] = <<"object", 0>>
      BY <1>8, <1>14
  <2>2. Reps(hobj, mRs, 0)
      BY <2>1, <1>4, NextIs
  <2> QED
      BY <2>2 DEF Reps
<1>18. ASSUME i \in Nat, i <= Len(K)
       PROVE  i < Len(Contents(g, o)) /\ \E kid \in 0..Len(g) : Contents(g, o)[i + 1] = <<"object", kid>>
  <2>1. i < Len(cs)
      BY <1>9, <1>14, <1>18
  <2>2. CASE i = Len(K)
    <3>1. Len(g) \in Nat
        BY <1>6 DEF M!Complete
    <3>2. 0 \in 0..Len(g) /\ cs[i + 1] = <<"object", 0>>
        BY <3>1, <2>2, <1>14
    <3> QED
        BY <2>1, <3>2, <1>8
  <2>3. CASE i # Len(K)
    <3>1. i + 1 \in 1..Len(K)
        BY <2>3, <1>9, <1>18
    <3> QED
        BY <2>1, <3>1, <1>8, <1>9
  <2> QED
      BY <2>2, <2>3
<1>19. PICK heap2 : heap2 = mHeap'
    OBVIOUS
<1>20. mAt' = mAt /\ mOffset' = mOffset /\ mObjects' = mObjects
    BY <1>2
<1>21. CASE f.got = <<>> /\ mRs = 0 /\ mStack' = M!Front(mStack) /\ mRs' = f.co /\ mHeap' = mHeap
  <2>1. Len(f.got) = 0
      BY <1>21
  <2>2. i = Len(old) + 1 /\ i \in Nat
      BY <2>1, <1>12, <1>13
  <2>3. i = Len(K) + 1
    <3>1. ~ (i \in 1..Len(K))
        BY <1>16, <1>21
    <3> QED
        BY <3>1, <2>2, <1>9, <1>12, <1>13
  <2>4. Len(old) = Len(K)
      BY <2>2, <2>3, <1>9, <1>13
  <2>5. Full(g, heap2, hobj, f.co)
      BY <2>4, <1>8, <1>11, <1>12, <1>19, <1>21 DEF Full
  <2>6. Touched(g, mHeap, f.co, mHeap')
    <3>1. Touched(g, mHeap, f.co, mHeap)
        BY <1>6, NotTouched
    <3> QED
        BY <3>1, <1>21
  <2>7. f.co \in DOMAIN hobj /\ hobj[f.co] = o /\ i = Len(Contents(g, o))
      BY <2>3, <1>8, <1>11, <1>12, <1>14
  <2>8. mStack' = M!Front(mStack) /\ mRs' = f.co
      BY <1>21
  <2>9. Goes(g, S, off, last, rests, names, hobj, fo, fi, pend)
      BY <2>5, <2>6, <2>7, <2>8, <1>3, <1>19, <1>20, CallerReturns
  <2> QED
      BY <2>9
<1>22. CASE /\ f.got = <<>> /\ mRs # 0 /\ mHeap' = mHeap
            /\ mStack' = Append(M!Front(mStack), [f EXCEPT !.got = <<mRs>>]) /\ mRs' = -1
  <2>1. Len(f.got) = 0
      BY <1>22
  <2>2. i = Len(old) + 1 /\ i \in Nat
      BY <2>1, <1>12, <1>13
  <2>3. i <= Len(K) /\ i \in 1..Len(K)
    <3>1. i # Len(K) + 1
        BY <1>17, <1>22
    <3>2. i <= Len(K) + 1 /\ Len(K) \in Nat /\ Len(old) \in Nat /\ i = Len(old) + 1
        BY <2>2, <1>9, <1>12, <1>13
    <3> QED
        BY <3>1, <3>2
  <2>4. Reps(hobj, mRs, K[Len(old) + 1])
      BY <2>2, <2>3, <1>16
  <2>5. PICK f2 : f2 = [f EXCEPT !.got = <<mRs>>]
      OBVIOUS
  <2>6. f2 \in FrameRecords /\ f2.co = f.co /\ f2.n = -1 /\ f2.got = <<mRs>>
    <3>1. f = [co |-> f.co, i |-> f.i, n |-> f.n, got |-> f.got]
        BY <1>4 DEF FrameRecords
    <3>2. f2 = [co |-> f.co, i |-> f.i, n |-> f.n, got |-> <<mRs>>]
        BY <2>5, <3>1
    <3>3. <<mRs>> \in Seq(Nat)
        BY <1>4
    <3> QED
        BY <3>2, <3>3, <1>5, <1>12 DEF FrameRecords
  <2>7. DictCall(g, heap2, hobj, f2, o, i + 1)
    <3>1. Len(f2.got) = 1 /\ f2.got[1] = mRs
        BY <2>6
    <3>2. i + 1 = Len(old) + Len(f2.got) + 1 /\ i + 1 <= Len(K) + 1
        BY <3>1, <2>2, <2>3, <1>9, <1>13
    <3> QED
        BY <3>1, <3>2, <2>4, <2>6, <1>8, <1>11, <1>12, <1>19, <1>22 DEF DictCall
  <2>8. Frame(g, heap2, hobj, names, f2, o, i + 1)
      BY <2>7 DEF Frame
  <2>9. Touched(g, mHeap, f.co, mHeap')
    <3>1. Touched(g, mHeap, f.co, mHeap)
        BY <1>6, NotTouched
    <3> QED
        BY <3>1, <1>22
  <2>10. mStack' = Append(M!Front(mStack), f2) /\ mRs' = -1
      BY <2>5, <1>22
  <2>11. i < Len(Contents(g, o)) /\ \E kid \in 0..Len(g) : Contents(g, o)[i + 1] = <<"object", kid>>
      BY <2>2, <2>3, <1>18
  <2>12. PICK kid \in 0..Len(g) : Contents(g, o)[i + 1] = <<"object", kid>>
      BY <2>11
  <2>13. f2 \in FrameRecords /\ i < Len(Contents(g, o)) /\ f2.co = f.co
      BY <2>6, <2>11
  <2> QED
      BY <2>8, <2>9, <2>10, <2>12, <2>13, <1>3, <1>19, <1>20, CallerGoesOn
<1>23. CASE /\ f.got # <<>>
            /\ mHeap' = [mHeap EXCEPT ![f.co].kids = IF mRs = 0 THEN @ ELSE @ \o <<f.got[1], mRs>>]
            /\ mStack' = Append(M!Front(mStack), [f EXCEPT !.got = <<>>]) /\ mRs' = -1
  <2>1. Len(f.got) = 1 /\ Reps(hobj, f.got[1], K[Len(old) + 1])
      BY <1>12, <1>23
  <2>2. i = Len(old) + 2 /\ i \in Nat
      BY <2>1, <1>12, <1>13
  <2>3. i <= Len(K) /\ i \in 1..Len(K)
    <3>1. PICK a, b : a = Len(old) /\ b = Len(K)
        OBVIOUS
    <3>2. a \in Nat /\ b \in Nat /\ a % 2 = 0 /\ b % 2 = 0 /\ i = a + 2 /\ i <= b + 1
        BY <3>1, <2>2, <1>9, <1>12, <1>13, <1>15
    <3>3. a + 1 # b
        BY <3>2
    <3> QED
        BY <3>1, <3>2, <3>3
  <2>4. mRs # 0 /\ Reps(hobj, mRs, K[Len(old) + 2])
      BY <2>2, <2>3, <1>16
  <2>5. PICK x, new : x = f.got[1] /\ new = old \o <<x, mRs>>
      OBVIOUS
  <2>6. x \in Nat
    <3>1. 1 \in 1..Len(f.got)
        BY <2>1
    <3> QED
        BY <3>1, <2>5, <1>5
  <2>7. new \in Seq(Nat) /\ Len(new) = Len(old) + 2 /\ Firsts(g, hobj, new, Len(new), o)
    <3>1. Reps(hobj, x, g[o].kids[Len(old) + 1]) /\ Reps(hobj, mRs, g[o].kids[Len(old) + 2])
        BY <2>1, <2>4, <2>5, <1>8
    <3>2. old \in Seq(Nat) /\ Firsts(g, hobj, old, Len(old), o) /\ mRs \in Nat
        BY <1>4, <1>12, <1>13
    <3>3. new \in Seq(Nat) /\ Len(new) = Len(old) + 2
        BY <1>4, <1>13, <2>5, <2>6
    <3>4. Firsts(g, hobj, new, Len(new), o)
        BY <3>1, <3>2, <2>5, <2>6, EntryAdded
    <3> QED
        BY <3>3, <3>4
  <2>8. Touched(g, mHeap, f.co, mHeap') /\ heap2[c].kids = new
    <3>1. PICK heap : heap = mHeap
        OBVIOUS
    <3>2. heap \in Seq(Nodes(g))
        BY <3>1, <1>6
    <3>3. c \in 1..Len(heap) /\ new \in Seq(Nat)
        BY <3>1, <2>7, <1>13
    <3>4. heap2 = [heap EXCEPT ![c].kids = new]
        BY <3>1, <2>4, <2>5, <1>11, <1>19, <1>23
    <3>5. Touched(g, heap, c, heap2)
        BY <3>2, <3>3, <3>4, KidsChanged
    <3>6. heap2[c].kids = new
        BY <3>2, <3>3, <3>4, KidsChanged
    <3> QED
        BY <3>1, <3>5, <3>6, <1>11, <1>19
  <2>9. PICK f2 : f2 = [f EXCEPT !.got = <<>>]
      OBVIOUS
  <2>10. f2 \in FrameRecords /\ f2.co = f.co /\ f2.n = -1 /\ f2.got = <<>>
    <3>1. f = [co |-> f.co, i |-> f.i, n |-> f.n, got |-> f.got]
        BY <1>4 DEF FrameRecords
    <3>2. f2 = [co |-> f.co, i |-> f.i, n |-> f.n, got |-> <<>>]
        BY <2>9, <3>1
    <3>3. <<>> \in Seq(Nat)
        OBVIOUS
    <3> QED
        BY <3>2, <3>3, <1>5, <1>12 DEF FrameRecords
  <2>11. DictCall(g, heap2, hobj, f2, o, i + 1)
    <3>1. Len(f2.got) = 0
        BY <2>10
    <3>2. i + 1 = Len(new) + Len(f2.got) + 1 /\ i + 1 <= Len(K) + 1
        BY <3>1, <2>2, <2>3, <2>7, <1>9, <1>13
    <3>3. Len(new) % 2 = 0
        BY <2>7, <1>12, <1>13
    <3> QED
        BY <3>2, <3>3, <2>7, <2>8, <2>10, <1>8, <1>11, <1>12 DEF DictCall
  <2>12. Frame(g, heap2, hobj, names, f2, o, i + 1)
      BY <2>11 DEF Frame
  <2>13. mStack' = Append(M!Front(mStack), f2) /\ mRs' = -1
      BY <2>9, <1>23
  <2>14. i < Len(Contents(g, o)) /\ \E kid \in 0..Len(g) : Contents(g, o)[i + 1] = <<"object", kid>>
      BY <2>2, <2>3, <1>18
  <2>15. PICK kid \in 0..Len(g) : Contents(g, o)[i + 1] = <<"object", kid>>
      BY <2>14
  <2>16. f2 \in FrameRecords /\ i < Len(Contents(g, o)) /\ f2.co = f.co
      BY <2>10, <2>14
  <2>17. Touched(g, mHeap, f.co, mHeap')
      BY <2>8
  <2> QED
      BY <2>12, <2>13, <2>15, <2>16, <2>17, <1>3, <1>19, <1>20, CallerGoesOn
<1> QED
    BY <1>2, <1>21, <1>22, <1>23

\* A number at place i is one token.
OneToken(out, S, off, rests, i) ==
    /\ i \in 1..Len(out) /\ i + 1 \in S /\ rests[i + 1] = Tail(rests[i])
    /\ off[i + 1] = off[i] + M!Bytes(SubSeq(out, i, i))

LEMMA NumberPlace ==
    ASSUME NEW g, NEW out, Len(out) \in Nat, NEW S, NEW off, NEW last, NEW rests, NEW names,
           Stream(g, out, S, off, last, rests, names), rests[Len(out) + 1] = <<>>,
           NEW i \in S, rests[i] # <<>>, Head(rests[i])[1] = "int64"
    PROVE  OneToken(out, S, off, rests, i)
<1>1. i \in 1..Len(out) + 1 /\ i # Len(out) + 1
    BY DEF Stream
<1>2. PICK k \in S : Piece(g, out, off, last, rests, names, i, k)
    BY <1>1 DEF Stream
<1>3. NumberAt(out, last, rests, i, k)
    BY <1>2 DEF Piece, ReferenceAt, ObjectAt
<1>4. k = i + 1 /\ rests[k] = Tail(rests[i])
    BY <1>3 DEF NumberAt
<1>5. off[k] = off[i] + M!Bytes(SubSeq(out, i, k - 1))
    BY <1>2 DEF Piece
<1>6. k - 1 = i
    BY <1>1, <1>4
<1> QED
    BY <1>1, <1>4, <1>5, <1>6 DEF OneToken

TwoTokens(out, S, off, rests, i) ==
    /\ i \in 1..Len(out) /\ i + 2 \in S /\ i + 1 <= Len(out) /\ rests[i + 2] = Tail(Tail(rests[i]))
    /\ off[i + 2] = off[i] + M!Bytes(SubSeq(out, i, i + 1))

LEMMA TwoNumbers ==
    ASSUME NEW g, NEW T, Sized(T), NEW out \in Seq(T), NEW S, NEW off, NEW last, NEW rests, NEW names,
           Stream(g, out, S, off, last, rests, names), rests[Len(out) + 1] = <<>>,
           NEW i \in S, rests[i] # <<>>, Head(rests[i])[1] = "int64",
           Tail(rests[i]) # <<>>, Head(Tail(rests[i]))[1] = "int64"
    PROVE  TwoTokens(out, S, off, rests, i)
<1>1. Len(out) \in Nat
    OBVIOUS
<1>2. /\ i \in 1..Len(out) /\ i + 1 \in S /\ rests[i + 1] = Tail(rests[i])
      /\ off[i + 1] = off[i] + M!Bytes(SubSeq(out, i, i))
  <2>1. OneToken(out, S, off, rests, i)
      BY <1>1, NumberPlace
  <2> QED
      BY <2>1 DEF OneToken
<1>3. PICK j : j = i + 1
    OBVIOUS
<1>4. j \in S /\ rests[j] # <<>> /\ Head(rests[j])[1] = "int64"
    BY <1>2, <1>3
<1>5. /\ j \in 1..Len(out) /\ j + 1 \in S /\ rests[j + 1] = Tail(rests[j])
      /\ off[j + 1] = off[j] + M!Bytes(SubSeq(out, j, j))
  <2>1. OneToken(out, S, off, rests, j)
      BY <1>1, <1>4, NumberPlace
  <2> QED
      BY <2>1 DEF OneToken
<1>6. j + 1 = i + 2 /\ i \in Int /\ j \in Int /\ j <= Len(out) /\ i <= Len(out) /\ 1 <= i /\ 1 <= j
    BY <1>2, <1>3, <1>5
<1>7. PICK a, b, c : a = SubSeq(out, i, i) /\ b = SubSeq(out, j, j) /\ c = SubSeq(out, i, j)
    OBVIOUS
<1>8. a \in Seq(T) /\ Len(a) = 1 /\ a[1] = out[i]
  <2>1. i <= i + 1 /\ i - i + 1 = 1
      BY <1>6
  <2>2. /\ SubSeq(out, i, i) \in Seq(T) /\ Len(SubSeq(out, i, i)) = i - i + 1
        /\ \A m \in 1..i - i + 1 : SubSeq(out, i, i)[m] = out[i + m - 1]
      BY <2>1, <1>6, Slice
  <2>3. i + 1 - 1 = i
      BY <1>6
  <2>4. SubSeq(out, i, i)[1] = out[i + 1 - 1]
      BY <2>1, <2>2
  <2> QED
      BY <2>1, <2>2, <2>3, <2>4, <1>7
<1>9. b \in Seq(T) /\ Len(b) = 1 /\ b[1] = out[j]
  <2>1. j <= j + 1 /\ j - j + 1 = 1
      BY <1>6
  <2>2. /\ SubSeq(out, j, j) \in Seq(T) /\ Len(SubSeq(out, j, j)) = j - j + 1
        /\ \A m \in 1..j - j + 1 : SubSeq(out, j, j)[m] = out[j + m - 1]
      BY <2>1, <1>6, Slice
  <2>3. j + 1 - 1 = j
      BY <1>6
  <2>4. SubSeq(out, j, j)[1] = out[j + 1 - 1]
      BY <2>1, <2>2
  <2> QED
      BY <2>1, <2>2, <2>3, <2>4, <1>7
<1>10. c \in Seq(T) /\ Len(c) = 2 /\ c[1] = out[i] /\ c[2] = out[j]
  <2>1. i <= j + 1 /\ j - i + 1 = 2
      BY <1>3, <1>6
  <2>2. /\ SubSeq(out, i, j) \in Seq(T) /\ Len(SubSeq(out, i, j)) = j - i + 1
        /\ \A m \in 1..j - i + 1 : SubSeq(out, i, j)[m] = out[i + m - 1]
      BY <2>1, <1>6, Slice
  <2>3. i + 1 - 1 = i /\ i + 2 - 1 = j
      BY <1>3, <1>6
  <2>4. SubSeq(out, i, j)[1] = out[i + 1 - 1] /\ SubSeq(out, i, j)[2] = out[i + 2 - 1]
      BY <2>1, <2>2
  <2> QED
      BY <2>1, <2>2, <2>3, <2>4, <1>7
<1>11. c = a \o b
  <2>1. PICK e : e = a \o b
      OBVIOUS
  <2>2. e \in Seq(T) /\ Len(e) = 2 /\ e[1] = out[i] /\ e[2] = out[j]
    <3>1. /\ e \in Seq(T) /\ Len(e) = Len(a) + Len(b)
          /\ \A m \in 1..Len(a) : e[m] = a[m]
          /\ \A m \in 1..Len(b) : e[Len(a) + m] = b[m]
      <4>1. a \in Seq(T) /\ b \in Seq(T)
          BY <1>8, <1>9
      <4> QED
          BY <4>1, <2>1
    <3>2. Len(a) = 1 /\ Len(b) = 1 /\ 1 \in 1..Len(a) /\ 1 \in 1..Len(b) /\ Len(a) + 1 = 2
        BY <1>8, <1>9
    <3>3. e[1] = a[1] /\ e[2] = b[1]
        BY <3>1, <3>2
    <3> QED
        BY <3>1, <3>2, <3>3, <1>8, <1>9
  <2>3. \A m \in 1..Len(c) : c[m] = e[m]
    <3> TAKE m \in 1..Len(c)
    <3>1. m = 1 \/ m = 2
        BY <1>10
    <3> QED
        BY <3>1, <2>2, <1>10
  <2> QED
      BY <2>1, <2>2, <2>3, <1>10, SeqEqual
<1>12. M!Bytes(a) \in Nat /\ M!Bytes(b) \in Nat /\ M!Bytes(c) = M!Bytes(a) + M!Bytes(b)
    BY <1>8, <1>9, <1>11, BytesAdd
<1>13. off[i] \in Nat
    BY DEF Stream
<1>14. off[i + 2] = off[i] + M!Bytes(c)
  <2>1. PICK x, y, z : x = M!Bytes(a) /\ y = M!Bytes(b) /\ z = M!Bytes(c)
      OBVIOUS
  <2>2. off[j] = off[i] + x /\ off[i + 2] = off[j] + y
      BY <2>1, <1>2, <1>3, <1>5, <1>6, <1>7
  <2> QED
      BY <2>1, <2>2, <1>12, <1>13
<1> QED
  <2>1. rests[i + 2] = Tail(Tail(rests[i]))
      BY <1>2, <1>3, <1>5, <1>6
  <2>2. off[i + 2] = off[i] + M!Bytes(SubSeq(out, i, i + 1))
      BY <1>3, <1>7, <1>14
  <2>3. i \in 1..Len(out) /\ i + 2 \in S /\ i + 1 <= Len(out)
      BY <1>2, <1>3, <1>5, <1>6
  <2> QED
      BY <2>1, <2>2, <2>3 DEF TwoTokens

\* What waits for the sixth part of a code object
CodeFrame(g, hobj, names, f, o, i) ==
    /\ f.co < 0 /\ -f.co - 1 \in Nat /\ names[-f.co - 1] = o /\ g[o].kind = "code" /\ o \in DOMAIN g
    /\ f.n = 6 /\ i = Len(f.got) + 1 /\ i \in 1..6 /\ f.got \in Seq(Nat)
    /\ Firsts(g, hobj, f.got, Len(f.got), o)
    /\ Len(g[o].kids) = 6 /\ Len(Contents(g, o)) = 8
    /\ Contents(g, o)[7] = <<"int64", 0>> /\ Contents(g, o)[8] = <<"int64", 1>>
    /\ \A j \in 1..6 : g[o].kids[j] \in 0..Len(g) /\ Contents(g, o)[j] = <<"object", g[o].kids[j]>>

LEMMA CodeFrameIs ==
    ASSUME NEW g, NEW S, NEW off, NEW last, NEW rests, NEW names, NEW hobj, NEW fo, NEW fi, NEW pend,
           Ready(g, S, off, last, rests, names, hobj, fo, fi, pend), NEW n, NEW f, NEW o, NEW i,
           Receives(g, rests, names, hobj, fo, fi, pend, n, f, o, i), f.co < 0
    PROVE  CodeFrame(g, hobj, names, f, o, i)
<1>1. /\ f \in FrameRecords /\ o \in 1..Len(g) /\ i \in 1..Len(Contents(g, o))
      /\ Frame(g, mHeap, hobj, names, f, o, i)
    BY DEF Receives
<1>2. f.got \in Seq(Nat) /\ f.co \in Int
    BY <1>1 DEF FrameRecords
<1>3. M!Complete(g) /\ hobj \in [1..Len(mHeap) -> 1..Len(g)] /\ Len(mHeap) \in Nat
    BY ReadyIs
<1>4. CodeCall(g, hobj, names, f, o, i)
  <2>1. f.co \notin DOMAIN hobj
      BY <1>2, <1>3
  <2> QED
      BY <2>1, <1>1 DEF Frame, SequenceCall, DictCall
<1>5. /\ -f.co - 1 \in Nat /\ names[-f.co - 1] = o /\ g[o].kind = "code"
      /\ f.n = 6 /\ i = Len(f.got) + 1 /\ i <= 6
      /\ Firsts(g, hobj, f.got, Len(f.got), o)
    BY <1>4 DEF CodeCall
<1>6. o \in DOMAIN g
  <2>1. o \in 0..Len(g) /\ o # 0
      BY <1>1
  <2> QED
      BY <2>1, <1>3, WholeIs
<1>7. /\ Len(g[o].kids) = 6 /\ Len(Contents(g, o)) = 8
      /\ Contents(g, o)[7] = <<"int64", 0>> /\ Contents(g, o)[8] = <<"int64", 1>>
      /\ \A j \in 1..Len(g[o].kids) : g[o].kids[j] \in 0..Len(g) /\ Contents(g, o)[j] = <<"object", g[o].kids[j]>>
    BY <1>1, <1>3, <1>5, ContentsAre
<1>8. i \in 1..6
  <2>1. i \in 1..8 /\ i <= 6
      BY <1>1, <1>5, <1>7
  <2> QED
      BY <2>1
<1> QED
    BY <1>2, <1>5, <1>6, <1>7, <1>8 DEF CodeFrame

\* One part more
PartsGot(g, hobj, got, i, o) == got \in Seq(Nat) /\ Len(got) = i /\ Firsts(g, hobj, got, i, o)

LEMMA PartAdded ==
    ASSUME NEW g, NEW S, NEW off, NEW last, NEW rests, NEW names, NEW hobj, NEW fo, NEW fi, NEW pend,
           Ready(g, S, off, last, rests, names, hobj, fo, fi, pend), NEW n, NEW f, NEW o, NEW i,
           Receives(g, rests, names, hobj, fo, fi, pend, n, f, o, i), CodeFrame(g, hobj, names, f, o, i),
           NEW got, got = Append(f.got, mRs)
    PROVE  PartsGot(g, hobj, got, i, o)
<1>1. mRs \in Nat /\ \E co \in 0..Len(g) : Contents(g, o)[i] = <<"object", co>> /\ Reps(hobj, mRs, co)
    BY DEF Receives
<1>2. PICK old, k : old = f.got /\ k = Len(old)
    OBVIOUS
<1>3. old \in Seq(Nat) /\ k \in Nat /\ k + 1 = i /\ i \in 1..6 /\ Firsts(g, hobj, old, k, o)
    BY <1>2 DEF CodeFrame
<1>4. /\ got \in Seq(Nat) /\ Len(got) = k + 1 /\ got[k + 1] = mRs
      /\ \A m \in 1..k : got[m] = old[m]
    BY <1>1, <1>2, <1>3
<1>5. PICK kid : kid = g[o].kids[i]
    OBVIOUS
<1>6. Contents(g, o)[i] = <<"object", kid>>
    BY <1>3, <1>5 DEF CodeFrame
<1>7. Reps(hobj, mRs, kid)
    BY <1>1, <1>6, NextIs
<1>8. Reps(hobj, got[k + 1], g[o].kids[k + 1])
    BY <1>3, <1>4, <1>5, <1>7
<1>9. Firsts(g, hobj, got, k + 1, o)
  <2>1. k \in Nat /\ Firsts(g, hobj, old, k, o) /\ \A m \in 1..k : got[m] = old[m]
      BY <1>3, <1>4
  <2> QED
      BY <2>1, <1>8, FirstsNext
<1> QED
    BY <1>3, <1>4, <1>9 DEF PartsGot

LEMMA PartGoesOn ==
    ASSUME NEW g, NEW S, NEW off, NEW last, NEW rests, NEW names, NEW hobj, NEW fo, NEW fi, NEW pend,
           Ready(g, S, off, last, rests, names, hobj, fo, fi, pend), NEW n, NEW f, NEW o, NEW i,
           Receives(g, rests, names, hobj, fo, fi, pend, n, f, o, i), CodeFrame(g, hobj, names, f, o, i),
           i < 6, mHeap' = mHeap, mObjects' = mObjects, mAt' = mAt, mOffset' = mOffset, mRs' = -1,
           mStack' = Append(M!Front(mStack), [f EXCEPT !.got = Append(@, mRs)])
    PROVE  \E fi2, pend2 : Goes(g, S, off, last, rests, names, hobj, fo, fi2, pend2)
<1>1. PICK got : got = Append(f.got, mRs)
    OBVIOUS
<1>2. got \in Seq(Nat) /\ Len(got) = i /\ Firsts(g, hobj, got, i, o)
  <2>1. PartsGot(g, hobj, got, i, o)
      BY <1>1, PartAdded
  <2> QED
      BY <2>1 DEF PartsGot
<1>3. f \in FrameRecords
    BY DEF Receives
<1>4. PICK f2 : f2 = [f EXCEPT !.got = got]
    OBVIOUS
<1>5. f2 \in FrameRecords /\ f2.co = f.co /\ f2.n = f.n /\ f2.got = got
  <2>1. f = [co |-> f.co, i |-> f.i, n |-> f.n, got |-> f.got] /\ f.co \in Int /\ f.i \in Nat /\ f.n \in Int
      BY <1>3 DEF FrameRecords
  <2>2. f2 = [co |-> f.co, i |-> f.i, n |-> f.n, got |-> got]
      BY <2>1, <1>4
  <2> QED
      BY <2>1, <2>2, <1>2 DEF FrameRecords
<1>6. /\ f.co < 0 /\ -f.co - 1 \in Nat /\ names[-f.co - 1] = o /\ g[o].kind = "code"
      /\ f.n = 6 /\ i \in 1..6 /\ Len(Contents(g, o)) = 8
      /\ \A j \in 1..6 : g[o].kids[j] \in 0..Len(g) /\ Contents(g, o)[j] = <<"object", g[o].kids[j]>>
    BY DEF CodeFrame
<1>7. PICK heap2 : heap2 = mHeap'
    OBVIOUS
<1>8. CodeCall(g, hobj, names, f2, o, i + 1)
  <2>1. i + 1 = Len(f2.got) + 1 /\ i + 1 <= 6 /\ Firsts(g, hobj, f2.got, Len(f2.got), o)
      BY <1>2, <1>5, <1>6
  <2> QED
      BY <2>1, <1>5, <1>6 DEF CodeCall
<1>9. Frame(g, heap2, hobj, names, f2, o, i + 1)
    BY <1>8 DEF Frame
<1>10. i + 1 \in 1..6 /\ i < Len(Contents(g, o))
    BY <1>6
<1>11. PICK kid \in 0..Len(g) : Contents(g, o)[i + 1] = <<"object", kid>>
    BY <1>6, <1>10
<1>12. Touched(g, mHeap, f.co, mHeap')
  <2>1. mHeap \in Seq(Nodes(g))
      BY ReadyIs DEF Heap
  <2>2. Touched(g, mHeap, f.co, mHeap)
      BY <2>1, NotTouched
  <2> QED
      BY <2>2
<1>13. mStack' = Append(M!Front(mStack), f2)
    BY <1>1, <1>4
<1>14. f2 \in FrameRecords /\ f2.co = f.co /\ i < Len(Contents(g, o))
    BY <1>5, <1>10
<1> QED
    BY <1>7, <1>9, <1>11, <1>12, <1>13, <1>14, CallerGoesOn

\* Behind the parts of a code object there are two numbers; k is the place behind them.
Behind(g, S, off, rests, pend, n, o, k) ==
    /\ k \in S /\ Tail(Tail(pend[n])) \in Seq(Items(g)) /\ rests[k] = Tail(Tail(pend[n]))
    /\ Suffix(Contents(g, o) \o pend[n - 1], Len(Contents(g, o)), rests[k])
    /\ M!Consume(2) => mAt' = k /\ mOffset' = off[k]

LEMMA NumbersBehind ==
    ASSUME NEW g, NEW S, NEW off, NEW last, NEW rests, NEW names, NEW hobj, NEW fo, NEW fi, NEW pend,
           Ready(g, S, off, last, rests, names, hobj, fo, fi, pend), NEW n, NEW f, NEW o,
           Receives(g, rests, names, hobj, fo, fi, pend, n, f, o, 6), CodeFrame(g, hobj, names, f, o, 6)
    PROVE  \E k \in S : Behind(g, S, off, rests, pend, n, o, k)
<1>1. PICK T, cs, p, all : T = Items(g) /\ cs = Contents(g, o) /\ p = pend[n] /\ all = cs \o pend[n - 1]
    OBVIOUS
<1>2. /\ cs \in Seq(T) /\ p \in Seq(T) /\ pend[n - 1] \in Seq(T) /\ Suffix(all, 6, p)
      /\ rests[mAt] = p
    BY <1>1 DEF Receives
<1>3. Len(cs) = 8 /\ cs[7] = <<"int64", 0>> /\ cs[8] = <<"int64", 1>>
    BY <1>1 DEF CodeFrame
<1>4. all \in Seq(T) /\ Len(all) >= 8 /\ all[7] = <<"int64", 0>> /\ all[8] = <<"int64", 1>>
  <2>1. PICK q0 : q0 = pend[n - 1]
      OBVIOUS
  <2>2. cs \in Seq(T) /\ q0 \in Seq(T) /\ all = cs \o q0
      BY <2>1, <1>1, <1>2
  <2>3. all \in Seq(T) /\ Len(all) = Len(cs) + Len(q0) /\ Len(q0) \in Nat
        /\ \A m \in 1..Len(cs) : all[m] = cs[m]
      BY <2>2
  <2>4. 7 \in 1..Len(cs) /\ 8 \in 1..Len(cs)
      BY <1>3
  <2> QED
      BY <2>3, <2>4, <1>3
<1>5. p # <<>> /\ Head(p) = <<"int64", 0>> /\ Tail(p) \in Seq(T) /\ Suffix(all, 7, Tail(p))
  <2>1. 6 < Len(all) /\ 6 + 1 = 7 /\ 6 \in Nat
      BY <1>4
  <2>2. p # <<>> /\ Head(p) = all[6 + 1] /\ Tail(p) \in Seq(T) /\ Suffix(all, 6 + 1, Tail(p))
      BY <2>1, <1>2, <1>4, SuffixNext
  <2> QED
      BY <2>1, <2>2, <1>4
<1>6. PICK t : t = Tail(p)
    OBVIOUS
<1>7. t # <<>> /\ Head(t) = <<"int64", 1>> /\ Tail(t) \in Seq(T) /\ Suffix(all, 8, Tail(t))
  <2>1. 7 < Len(all) /\ 7 + 1 = 8 /\ 7 \in Nat
      BY <1>4
  <2>2. t \in Seq(T) /\ Suffix(all, 7, t)
      BY <1>5, <1>6
  <2>3. t # <<>> /\ Head(t) = all[7 + 1] /\ Tail(t) \in Seq(T) /\ Suffix(all, 7 + 1, Tail(t))
      BY <2>1, <2>2, <1>4, SuffixNext
  <2> QED
      BY <2>1, <2>3, <1>4
<1>8. PICK i : i = mAt
    OBVIOUS
<1>9. /\ Stream(g, mOut, S, off, last, rests, names) /\ rests[Len(mOut) + 1] = <<>>
      /\ mOut \in Seq(Tokens(g)) /\ i \in S /\ mOffset = off[i]
    BY <1>8, ReadyIs
<1>10. /\ rests[i] # <<>> /\ Head(rests[i])[1] = "int64"
       /\ Tail(rests[i]) # <<>> /\ Head(Tail(rests[i]))[1] = "int64"
       /\ Tail(Tail(rests[i])) = Tail(t)
  <2>1. rests[i] = p /\ Tail(rests[i]) = t
      BY <1>2, <1>6, <1>8
  <2>2. p # <<>> /\ Head(p) = <<"int64", 0>> /\ t # <<>> /\ Head(t) = <<"int64", 1>>
      BY <1>5, <1>7
  <2>3. Head(p)[1] = "int64" /\ Head(t)[1] = "int64"
      BY <2>2
  <2> QED
      BY <2>1, <2>2, <2>3
<1>11. PICK W : W = Tokens(g)
    OBVIOUS
<1>12. Sized(W) /\ mOut \in Seq(W)
    BY <1>9, <1>11, TokensSized
<1>13. PICK out : out = mOut
    OBVIOUS
<1>14. /\ i \in 1..Len(out) /\ i + 2 \in S /\ i + 1 <= Len(out) /\ rests[i + 2] = Tail(Tail(rests[i]))
       /\ off[i + 2] = off[i] + M!Bytes(SubSeq(out, i, i + 1))
  <2>1. Stream(g, out, S, off, last, rests, names) /\ rests[Len(out) + 1] = <<>> /\ out \in Seq(W)
      BY <1>9, <1>12, <1>13
  <2>2. Sized(W) /\ i \in S
      BY <1>9, <1>12
  <2>3. TwoTokens(out, S, off, rests, i)
      BY <2>1, <2>2, <1>10, TwoNumbers
  <2> QED
      BY <2>3 DEF TwoTokens
<1>15. M!Consume(2) => mAt' = i + 2 /\ mOffset' = off[i + 2]
  <2> SUFFICES ASSUME M!Consume(2)
               PROVE  mAt' = i + 2 /\ mOffset' = off[i + 2]
      OBVIOUS
  <2>1. /\ mAt' = mAt + 2
        /\ mOffset' = mOffset + M!Bytes(SubSeq(mOut, mAt, M!Smaller(mAt + 2 - 1, Len(mOut))))
      BY DEF M!Consume
  <2>2. i + 2 - 1 = i + 1 /\ Len(out) \in Nat
      BY <1>12, <1>13, <1>14
  <2>3. M!Smaller(i + 1, Len(out)) = i + 1
      BY <2>2, <1>14 DEF M!Smaller
  <2> QED
      BY <2>1, <2>2, <2>3, <1>8, <1>9, <1>13, <1>14
<1>16. rests[i + 2] = Tail(Tail(pend[n])) /\ Tail(Tail(pend[n])) = Tail(t)
    BY <1>1, <1>2, <1>6, <1>8, <1>14
<1>17. Suffix(Contents(g, o) \o pend[n - 1], Len(Contents(g, o)), rests[i + 2])
    BY <1>1, <1>3, <1>7, <1>16
<1>18. Behind(g, S, off, rests, pend, n, o, i + 2)
    BY <1>1, <1>7, <1>14, <1>15, <1>16, <1>17 DEF Behind
<1> QED
    BY <1>14, <1>18

LEMMA HeapReturns ==
    ASSUME NEW g, NEW heap, NEW hobj, NEW stack, Heap(g, heap, hobj, stack), Len(heap) \in Nat,
           stack \in Seq(FrameRecords), stack # <<>>, stack[Len(stack)].co < 0,
           NEW stack2, stack2 = M!Front(stack)
    PROVE  Heap(g, heap, hobj, stack2)
<1>1. PICK n, c : n = Len(stack) /\ c = stack[n].co
    OBVIOUS
<1>2. n \in Nat \ {0} /\ Len(stack2) = n - 1 /\ \A j \in 1..n - 1 : stack2[j] = stack[j]
    BY <1>1, FrontIs
<1>3. \A j \in 1..n : stack[j].co = c \/ \E k \in 1..Len(stack2) : stack2[k].co = stack[j].co
  <2> TAKE j \in 1..n
  <2>1. CASE j = n
      BY <2>1, <1>1
  <2>2. CASE j # n
    <3>1. j \in 1..n - 1
        BY <2>2, <1>2
    <3>2. stack2[j] = stack[j] /\ j \in 1..Len(stack2)
        BY <3>1, <1>2
    <3> QED
        BY <3>2
  <2> QED
      BY <2>1, <2>2
<1>4. c \notin 1..Len(heap)
    BY <1>1
<1>5. Touched(g, heap, c, heap)
  <2>1. heap \in Seq(Nodes(g))
      BY DEF Heap
  <2> QED
      BY <2>1, NotTouched
<1> QED
    BY <1>1, <1>3, <1>4, <1>5, HeapTouched

LEMMA HeapCompleted ==
    ASSUME NEW g, NEW heap, NEW hobj, NEW stack, Heap(g, heap, hobj, stack), NEW node \in Nodes(g),
           NEW o \in 1..Len(g), node.kind = g[o].kind, node.val = ReadAs(g, o),
           NEW heap2, NEW hobj2, More(heap, hobj, node, o, heap2, hobj2),
           Len(node.kids) = Len(g[o].kids), Firsts(g, hobj2, node.kids, Len(node.kids), o)
    PROVE  Heap(g, heap2, hobj2, stack) /\ Reps(hobj2, Len(heap2), o)
<1>1. \A j \in 1..Len(stack) : \E k \in 1..Len(stack) : stack[k].co = stack[j].co
    OBVIOUS
<1>2. \/ Len(node.kids) = Len(g[o].kids) /\ Firsts(g, hobj2, node.kids, Len(node.kids), o)
      \/ \E k \in 1..Len(stack) : stack[k].co = Len(heap) + 1
    OBVIOUS
<1>3. Heap(g, heap2, hobj2, stack)
    BY <1>1, <1>2, HeapMore
<1>4. Reps(hobj2, Len(heap2), o)
    BY <1>1, <1>2, HeapMore
<1> QED
    BY <1>3, <1>4

LEMMA CodeMade ==
    ASSUME NEW g, NEW S, NEW off, NEW last, NEW rests, NEW names, NEW hobj, NEW fo, NEW fi, NEW pend,
           Ready(g, S, off, last, rests, names, hobj, fo, fi, pend), NEW n, NEW f, NEW o,
           Receives(g, rests, names, hobj, fo, fi, pend, n, f, o, 6), CodeFrame(g, hobj, names, f, o, 6),
           NEW got, got = Append(f.got, mRs), NEW node, node = [kind |-> "code", val |-> 0, kids |-> got],
           mHeap' = Append(mHeap, node),
           mObjects' = M!Inserted(mObjects, -f.co - 1, M!int_hash(1, -f.co - 1), Len(mHeap')),
           M!Consume(2), mStack' = M!Front(mStack), mRs' = Len(mHeap')
    PROVE  \E hobj2 : Goes(g, S, off, last, rests, names, hobj2, fo, fi, pend)
<1> DEFINE hobj2 == [h \in 1..Len(mHeap) + 1 |-> IF h = Len(mHeap) + 1 THEN o ELSE hobj[h]]
<1>1. /\ n = Len(mStack) /\ n \in Nat \ {0} /\ mStack # <<>>
      /\ f = mStack[n] /\ o = fo[n] /\ o \in 1..Len(g)
      /\ pend[n - 1] \in Seq(Items(g)) /\ Contents(g, o) \in Seq(Items(g))
    BY DEF Receives
<1>2. /\ Stream(g, mOut, S, off, last, rests, names) /\ rests[Len(mOut) + 1] = <<>>
      /\ Found(g, mObjects, names, hobj, last[mAt]) /\ SLOTS - 1 \in Nat \ {0} /\ M!Complete(g)
      /\ Heap(g, mHeap, hobj, mStack) /\ Len(mHeap) \in Nat /\ hobj \in [1..Len(mHeap) -> 1..Len(g)]
      /\ Frames(g, mHeap, hobj, names, mStack, fo, fi)
      /\ Calls(g, fo, fi, pend, Len(mStack))
    BY ReadyIs
<1>3. /\ f.co < 0 /\ -f.co - 1 \in Nat /\ names[-f.co - 1] = o /\ g[o].kind = "code" /\ o \in DOMAIN g
      /\ Len(g[o].kids) = 6
    BY DEF CodeFrame
<1>4. got \in Seq(Nat) /\ Len(got) = 6 /\ Firsts(g, hobj, got, 6, o)
  <2>1. PartsGot(g, hobj, got, 6, o)
      BY PartAdded
  <2> QED
      BY <2>1 DEF PartsGot
<1>5. PICK k \in S : Behind(g, S, off, rests, pend, n, o, k)
    BY NumbersBehind
<1>6. /\ mAt' = k /\ mOffset' = off[k]
      /\ rests[k] \in Seq(Items(g))
      /\ Suffix(Contents(g, o) \o pend[n - 1], Len(Contents(g, o)), rests[k])
    BY <1>5 DEF Behind
<1>7. PICK heap2, stack2 : heap2 = mHeap' /\ stack2 = mStack'
    OBVIOUS
<1>8. node \in Nodes(g) /\ node.kind = g[o].kind /\ node.val = ReadAs(g, o) /\ node.kids = got
  <2>1. M!Whole(g, o)
      BY <1>2, <1>3 DEF M!Complete
  <2>2. ReadAs(g, o) = 0
      BY <2>1, <1>3 DEF M!Whole, ReadAs
  <2>3. 0 \in Values(g)
      BY <2>2, <1>3 DEF Values
  <2> QED
      BY <2>2, <2>3, <1>3, <1>4 DEF Nodes, M!Types
<1>9. More(mHeap, hobj, node, o, heap2, hobj2)
    BY <1>7 DEF More
<1> HIDE DEF hobj2
<1>10. /\ \A x, c : Reps(hobj, x, c) => Reps(hobj2, x, c)
       /\ \A kids, m, p : Firsts(g, hobj, kids, m, p) => Firsts(g, hobj2, kids, m, p)
    BY <1>2, <1>9, RepsMore
<1>11. mHeap \in Seq(Nodes(g)) /\ mStack \in Seq(FrameRecords)
    BY <1>2 DEF Heap, Frames
<1>12. Touched(g, mHeap, f.co, mHeap)
    BY <1>11, NotTouched
<1>13. /\ Len(stack2) = n - 1
       /\ \A j \in 1..n - 1 : stack2[j] = mStack[j]
  <2>1. stack2 = M!Front(mStack)
      BY <1>7
  <2> QED
      BY <2>1, <1>1, <1>11, FrontIs
<1>14. Frames(g, mHeap, hobj, names, stack2, fo, fi)
  <2>1. Frames(g, mHeap, hobj, names, mStack, fo, fi) /\ Len(mHeap) \in Nat
        /\ hobj \in [1..Len(mHeap) -> 1..Len(g)]
      BY <1>2
  <2>2. n = Len(mStack) /\ mStack # <<>>
      BY <1>1
  <2>3. Touched(g, mHeap, mStack[n].co, mHeap)
      BY <1>1, <1>12
  <2>4. stack2 = M!Front(mStack)
      BY <1>7
  <2> QED
      BY <2>1, <2>2, <2>3, <2>4, FramePopped
<1>15. Heap(g, mHeap, hobj, stack2)
  <2>1. stack2 = M!Front(mStack) /\ mStack[Len(mStack)].co < 0
      BY <1>1, <1>3, <1>7
  <2> QED
      BY <2>1, <1>1, <1>2, <1>11, HeapReturns
<1>16. Len(node.kids) = Len(g[o].kids) /\ Firsts(g, hobj2, node.kids, Len(node.kids), o)
    BY <1>3, <1>4, <1>8, <1>10
<1>17. /\ Heap(g, heap2, hobj2, stack2) /\ Len(heap2) = Len(mHeap) + 1
       /\ Reps(hobj2, Len(heap2), o)
       /\ \A h \in 1..Len(mHeap) : heap2[h] = mHeap[h] /\ hobj2[h] = hobj[h]
  <2>1. o \in 1..Len(g) /\ node \in Nodes(g) /\ node.kind = g[o].kind /\ node.val = ReadAs(g, o)
      BY <1>1, <1>8
  <2>2. Len(node.kids) = Len(g[o].kids)
      BY <1>16
  <2>3. Firsts(g, hobj2, node.kids, Len(node.kids), o)
      BY <1>16
  <2>4. Heap(g, heap2, hobj2, stack2)
      BY <2>1, <2>2, <2>3, <1>9, <1>15, HeapCompleted
  <2>5. Len(heap2) = Len(mHeap) + 1
      BY <1>9, <1>11 DEF More
  <2>6. Reps(hobj2, Len(heap2), o)
      BY <2>1, <2>2, <2>3, <1>9, <1>15, HeapCompleted
  <2>7. \A h \in 1..Len(mHeap) : heap2[h] = mHeap[h] /\ hobj2[h] = hobj[h]
      BY <1>2, <1>9, <1>11 DEF More
  <2> QED
      BY <2>4, <2>5, <2>6, <2>7
<1>18. Frames(g, heap2, hobj2, names, stack2, fo, fi)
    BY <1>2, <1>9, <1>14, <1>17, FramesMore
<1>19. Len(heap2) \in Nat /\ Len(heap2) \in Int
    BY <1>2, <1>17
<1>20. Found(g, mObjects', names, hobj2, last[k])
  <2>1. PICK late, later, x, item : late = last[mAt] /\ later = last[k] /\ x = -f.co - 1 /\ item = Len(heap2)
      OBVIOUS
  <2>2. SLOTS - 1 \in Nat \ {0} /\ Found(g, mObjects, names, hobj, late) /\ x \in Nat /\ item \in Int
      BY <2>1, <1>2, <1>3, <1>19
  <2>3. Reps(hobj2, item, names[x])
      BY <2>1, <1>3, <1>17
  <2>4. mObjects' = M!Inserted(mObjects, x, M!int_hash(1, x), item)
      BY <2>1, <1>7
  <2>5. later = x \/ \E p \in DOMAIN g : g[p].kind = "code"
      BY <1>3
  <2>6. \A y, c : Reps(hobj, y, c) => Reps(hobj2, y, c)
      BY <1>10
  <2>7. Found(g, mObjects', names, hobj2, later)
      BY <2>2, <2>3, <2>4, <2>5, <2>6, FoundMore
  <2> QED
      BY <2>1, <2>7
<1>21. Calls(g, fo, fi, pend, n - 1) /\ Answer(g, hobj2, fo, fi, pend, n - 1, rests[k], Len(heap2))
  <2>1. PICK rest, x : rest = rests[k] /\ x = Len(heap2)
      OBVIOUS
  <2>2. /\ Calls(g, fo, fi, pend, n) /\ Contents(g, fo[n]) \in Seq(Items(g)) /\ rest \in Seq(Items(g))
        /\ Suffix(Contents(g, fo[n]) \o pend[n - 1], Len(Contents(g, fo[n])), rest)
      BY <2>1, <1>1, <1>2, <1>6
  <2>3. x \in Nat /\ Reps(hobj2, x, fo[n])
      BY <2>1, <1>1, <1>17, <1>19
  <2>4. Calls(g, fo, fi, pend, n - 1) /\ Answer(g, hobj2, fo, fi, pend, n - 1, rest, x)
      BY <2>2, <2>3, <1>1, CallReturns
  <2> QED
      BY <2>1, <2>4
<1>22. Goes(g, S, off, last, rests, names, hobj2, fo, fi, pend)
  <2>1. /\ mAt' \in S /\ mOffset' = off[mAt'] /\ Found(g, mObjects', names, hobj2, last[mAt'])
      BY <1>6, <1>20
  <2>2. Heap(g, mHeap', hobj2, mStack') /\ Frames(g, mHeap', hobj2, names, mStack', fo, fi)
      BY <1>7, <1>17, <1>18
  <2>3. /\ Calls(g, fo, fi, pend, Len(mStack'))
        /\ Answer(g, hobj2, fo, fi, pend, Len(mStack'), rests[mAt'], mRs')
      BY <1>6, <1>7, <1>13, <1>21
  <2> QED
      BY <2>1, <2>2, <2>3, <1>2 DEF Goes, ReadState
<1> QED
    BY <1>22

LEMMA PartReceived ==
    ASSUME NEW g, NEW S, NEW off, NEW last, NEW rests, NEW names, NEW hobj, NEW fo, NEW fi, NEW pend,
           Ready(g, S, off, last, rests, names, hobj, fo, fi, pend), M!ReceivePart
    PROVE  \E hobj2, fi2, pend2 : Goes(g, S, off, last, rests, names, hobj2, fo, fi2, pend2)
<1>1. PICK f, n, o, i : f = M!Caller /\ n = Len(mStack) /\ o = fo[n] /\ i = fi[n]
    OBVIOUS
<1>2. /\ M!Receiving /\ f.co < 0
      /\ IF Len(f.got) + 1 < f.n
         THEN /\ mStack' = Append(M!Front(mStack), [f EXCEPT !.got = Append(@, mRs)]) /\ mRs' = -1
              /\ mHeap' = mHeap /\ mObjects' = mObjects /\ mAt' = mAt /\ mOffset' = mOffset
         ELSE /\ mHeap' = Append(mHeap, [kind |-> "code", val |-> 0, kids |-> Append(f.got, mRs)])
              /\ mObjects' = M!Inserted(mObjects, -f.co - 1, M!int_hash(1, -f.co - 1), Len(mHeap'))
              /\ M!Consume(2) /\ mStack' = M!Front(mStack) /\ mRs' = Len(mHeap')
    BY <1>1 DEF M!ReceivePart, M!Continue, M!Return, M!New
<1>3. Receives(g, rests, names, hobj, fo, fi, pend, n, f, o, i)
    BY <1>1, <1>2, ReceivingIs
<1>4. CodeFrame(g, hobj, names, f, o, i)
  <2>1. f.co < 0
      BY <1>2
  <2> QED
      BY <2>1, <1>3, CodeFrameIs
<1>5. f.n = 6 /\ i = Len(f.got) + 1 /\ i \in 1..6
    BY <1>4 DEF CodeFrame
<1>6. CASE i < 6
  <2>1. Len(f.got) + 1 < f.n
      BY <1>5, <1>6
  <2>2. mStack' = Append(M!Front(mStack), [f EXCEPT !.got = Append(@, mRs)])
      BY <2>1, <1>2
  <2>3. mHeap' = mHeap /\ mObjects' = mObjects /\ mAt' = mAt /\ mOffset' = mOffset /\ mRs' = -1
      BY <2>1, <1>2
  <2>4. \E fi2, pend2 : Goes(g, S, off, last, rests, names, hobj, fo, fi2, pend2)
      BY <2>2, <2>3, <1>3, <1>4, <1>6, PartGoesOn
  <2> QED
      BY <2>4
<1>7. CASE ~ (i < 6)
  <2>1. i = 6 /\ ~ (Len(f.got) + 1 < f.n)
      BY <1>5, <1>7
  <2>2. PICK got : got = Append(f.got, mRs)
      OBVIOUS
  <2>3. PICK node : node = [kind |-> "code", val |-> 0, kids |-> got]
      OBVIOUS
  <2>4. mHeap' = Append(mHeap, node)
      BY <2>1, <2>2, <2>3, <1>2
  <2>5. mObjects' = M!Inserted(mObjects, -f.co - 1, M!int_hash(1, -f.co - 1), Len(mHeap'))
      BY <2>1, <1>2
  <2>6. M!Consume(2) /\ mStack' = M!Front(mStack) /\ mRs' = Len(mHeap')
      BY <2>1, <1>2
  <2>7. Receives(g, rests, names, hobj, fo, fi, pend, n, f, o, 6) /\ CodeFrame(g, hobj, names, f, o, 6)
      BY <2>1, <1>3, <1>4
  <2>8. \E hobj2 : Goes(g, S, off, last, rests, names, hobj2, fo, fi, pend)
      BY <2>2, <2>3, <2>4, <2>5, <2>6, <2>7, CodeMade
  <2> QED
      BY <2>8
<1> QED
    BY <1>6, <1>7

Following == \E S, off, last, rests, names, hobj, fo, fi, pend :
                Ready(mGraph, S, off, last, rests, names, hobj, fo, fi, pend)

\* The reader follows the stream; a reference it does not find is one in the presence of code
\* objects.
ReadInv ==
    /\ mPc \in {"read", "done"} /\ NoFloat(mGraph) => Following
    /\ mPc = "done" => mStack = <<>> /\ mRs # -1
    /\ mPc = "assert" /\ NoFloat(mGraph) => \E o \in DOMAIN mGraph : mGraph[o].kind = "code"

LEMMA ReadBegins ==
    ASSUME NEW g, M!Complete(g), NoFloat(g), SLOTS - 1 \in Nat \ {0}, NEW out \in Seq(Tokens(g)),
           NEW offset, NEW dict, Written(g, out, <<>>, offset, dict)
    PROVE  \E S, off, last, rests, names, hobj, fo, fi, pend :
              ReadState(g, out, 1, 0, M!CODict_New, <<>>, <<>>, -1,
                        S, off, last, rests, names, hobj, fo, fi, pend)
<1>1. PICK S, off, last, rests, names :
         /\ Stream(g, out, S, off, last, rests, names)
         /\ rests[Len(out) + 1] = <<>>
    BY DEF Written
<1>2. 1 \in S /\ off[1] = 0 /\ last[1] = -1 /\ rests[1] = <<<<"object", 1>>>>
    BY <1>1 DEF Stream
<1>3. PICK dict0 : dict0 = M!CODict_New
    OBVIOUS
<1>4. Sound(dict0) /\ dict0.buckets = <<>> /\ Len(dict0.buckets) = 0
  <2>1. Sound(dict0) /\ dict0.buckets = <<>>
      BY <1>3, NewIs
  <2> QED
      BY <2>1
<1> DEFINE hobj == [h \in 1..0 |-> 1]
           pend == [j \in {0} |-> <<>>]
<1>5. Found(g, dict0, names, hobj, last[1])
  <2>1. 1..0 = {}
      OBVIOUS
  <2> HIDE DEF hobj
  <2> QED
      BY <2>1, <1>2, <1>4 DEF Found
<1>6. Heap(g, <<>>, hobj, <<>>)
  <2>1. Len(<<>>) = 0 /\ 1..0 = {} /\ <<>> \in Seq(Nodes(g))
      OBVIOUS
  <2>2. hobj \in [1..0 -> 1..Len(g)]
      BY <2>1
  <2> HIDE DEF hobj
  <2> QED
      BY <2>1, <2>2 DEF Heap
<1>7. Frames(g, <<>>, hobj, names, <<>>, hobj, hobj)
  <2>1. Len(<<>>) = 0 /\ 1..0 = {} /\ <<>> \in Seq(FrameRecords)
      OBVIOUS
  <2> HIDE DEF hobj
  <2> QED
      BY <2>1 DEF Frames
<1>8. Calls(g, hobj, hobj, pend, Len(<<>>))
  <2>1. Len(<<>>) = 0 /\ 1..0 = {} /\ pend[0] = <<>>
      OBVIOUS
  <2> HIDE DEF hobj, pend
  <2> QED
      BY <2>1 DEF Calls
<1>9. Answer(g, hobj, hobj, hobj, pend, Len(<<>>), rests[1], -1)
  <2>1. Len(<<>>) = 0 /\ pend[0] = <<>>
      OBVIOUS
  <2>2. PICK x, rest : x = <<"object", 1>> /\ rest = <<x>>
      OBVIOUS
  <2>3. rest # <<>> /\ Head(rest) = x /\ Tail(rest) = <<>>
      BY <2>2
  <2>4. 1 \in 0..Len(g)
      BY DEF M!Complete
  <2>5. Wanted(g, hobj, hobj, 0, 1)
      BY DEF Wanted
  <2> HIDE DEF hobj, pend
  <2> QED
      BY <2>1, <2>2, <2>3, <2>4, <2>5, <1>2 DEF Answer
<1> HIDE DEF hobj, pend
<1>10. ReadState(g, out, 1, 0, M!CODict_New, <<>>, <<>>, -1,
                 S, off, last, rests, names, hobj, hobj, hobj, pend)
    BY <1>1, <1>2, <1>3, <1>5, <1>6, <1>7, <1>8, <1>9 DEF ReadState
<1> QED
    BY <1>10

LEMMA TurnReads ==
    ASSUME M!MarshalAssumption, BytesInv, WriteInv, ReadInv, M!Turn
    PROVE  ReadInv'
<1>1. /\ mPc = "write" /\ mTodo = <<>> /\ mPc' = "read" /\ mGraph' = mGraph /\ mOut' = mOut
      /\ mOffset' = 0 /\ mObjects' = M!CODict_New
      /\ mAt' = mAt /\ mHeap' = mHeap /\ mStack' = mStack /\ mRs' = mRs
    BY DEF M!Turn
<1>2. /\ mGraph \in Graphs /\ mAt = 1 /\ mHeap = <<>> /\ mStack = <<>> /\ mRs = -1
      /\ mOut \in Seq(Tokens(mGraph))
    BY <1>1 DEF BytesInv, WriteInv
<1>3. M!Complete(mGraph) /\ SLOTS - 1 \in Nat \ {0}
    BY <1>2 DEF M!MarshalAssumption
<1>4. ASSUME NoFloat(mGraph')
      PROVE  Following'
  <2>1. NoFloat(mGraph) /\ Written(mGraph, mOut, <<>>, mOffset, mObjects)
      BY <1>1, <1>4 DEF WriteInv
  <2>2. PICK S, off, last, rests, names, hobj, fo, fi, pend :
          ReadState(mGraph, mOut, 1, 0, M!CODict_New, <<>>, <<>>, -1,
                    S, off, last, rests, names, hobj, fo, fi, pend)
      BY <2>1, <1>2, <1>3, ReadBegins
  <2>3. Ready(mGraph, S, off, last, rests, names, hobj, fo, fi, pend)'
      BY <2>1, <2>2, <1>1, <1>2, <1>3 DEF Ready
  <2> QED
      BY <2>3 DEF Following
<1> QED
    BY <1>1, <1>4 DEF ReadInv

LEMMA Followed ==
    ASSUME NEW S, NEW off, NEW last, NEW rests, NEW names, NEW hobj, NEW fo, NEW fi, NEW pend,
           Ready(mGraph, S, off, last, rests, names, hobj, fo, fi, pend),
           NEW hobj2, NEW fo2, NEW fi2, NEW pend2,
           Goes(mGraph, S, off, last, rests, names, hobj2, fo2, fi2, pend2),
           mGraph' = mGraph, mOut' = mOut
    PROVE  Following'
<1>1. Ready(mGraph, S, off, last, rests, names, hobj2, fo2, fi2, pend2)'
    BY DEF Ready, Goes
<1> QED
    BY <1>1 DEF Following

LEMMA ReadsOn ==
    ASSUME M!MarshalAssumption, BytesInv, ReadInv, M!unmarshal
    PROVE  ReadInv'
<1>1. /\ mPc = "read" /\ mGraph' = mGraph /\ mOut' = mOut /\ mPc' \in {"read", "done", "assert"}
      /\ mPc' = "done" => M!Finish
      /\ mPc' = "assert" => M!ReadReference
    BY DEF M!unmarshal, M!ReadNull, M!ReadAtom, M!ReadSequence, M!ReadDict, M!ReadCode,
           M!ReadReference, M!ReceiveElement, M!ReceiveEntry, M!ReceivePart, M!Finish,
           M!Reading, M!Receiving
<1>2. mPc' = "done" => mStack' = <<>> /\ mRs' # -1
    BY <1>1 DEF M!Finish
<1>3. CASE ~ NoFloat(mGraph)
    BY <1>1, <1>2, <1>3 DEF ReadInv
<1>4. CASE NoFloat(mGraph)
  <2>1. PICK S, off, last, rests, names, hobj, fo, fi, pend :
           Ready(mGraph, S, off, last, rests, names, hobj, fo, fi, pend)
      BY <1>1, <1>4 DEF ReadInv, Following
  <2>2. CASE M!Finish
    <3>1. Goes(mGraph, S, off, last, rests, names, hobj, fo, fi, pend)
        BY <2>1, <2>2 DEF M!Finish, Goes, Ready
    <3>2. Following'
        BY <2>1, <3>1, <1>1, Followed
    <3> QED
        BY <2>2, <3>2, <1>2 DEF ReadInv, M!Finish
  <2>3. CASE M!ReadReference
    <3>1. \/ mPc' = "read" /\ Goes(mGraph, S, off, last, rests, names, hobj, fo, fi, pend)
          \/ mPc' = "assert" /\ \E o \in DOMAIN mGraph : mGraph[o].kind = "code"
        BY <2>1, <2>3, ReferenceRead
    <3>2. CASE mPc' = "read" /\ Goes(mGraph, S, off, last, rests, names, hobj, fo, fi, pend)
      <4>1. Following'
          BY <2>1, <3>2, <1>1, Followed
      <4> QED
          BY <3>2, <4>1 DEF ReadInv
    <3>3. CASE mPc' = "assert" /\ \E o \in DOMAIN mGraph : mGraph[o].kind = "code"
        BY <3>3, <1>1 DEF ReadInv
    <3> QED
        BY <3>1, <3>2, <3>3
  <2>4. ASSUME \E hobj2, fo2, fi2, pend2 : Goes(mGraph, S, off, last, rests, names, hobj2, fo2, fi2, pend2),
               mPc' = "read"
        PROVE  ReadInv'
    <3>1. PICK hobj2, fo2, fi2, pend2 : Goes(mGraph, S, off, last, rests, names, hobj2, fo2, fi2, pend2)
        BY <2>4
    <3>2. Following'
        BY <2>1, <3>1, <1>1, Followed
    <3> QED
        BY <2>4, <3>2 DEF ReadInv
  <2>5. CASE M!ReadNull
    <3>1. Goes(mGraph, S, off, last, rests, names, hobj, fo, fi, pend)
        BY <2>1, <2>5, NullRead
    <3>2. mPc' = "read"
        BY <2>5, <1>1 DEF M!ReadNull
    <3> QED
        BY <3>1, <3>2, <2>4
  <2>6. CASE M!ReadAtom
    <3>1. \E hobj2 : Goes(mGraph, S, off, last, rests, names, hobj2, fo, fi, pend)
        BY <2>1, <2>6, AtomRead
    <3>2. mPc' = "read"
        BY <2>6, <1>1 DEF M!ReadAtom
    <3> QED
        BY <3>1, <3>2, <2>4
  <2>7. CASE M!ReadSequence
    <3>1. \E hobj2, fo2, fi2, pend2 : Goes(mGraph, S, off, last, rests, names, hobj2, fo2, fi2, pend2)
        BY <2>1, <2>7, SequenceRead
    <3>2. mPc' = "read"
        BY <2>7, <1>1 DEF M!ReadSequence
    <3> QED
        BY <3>1, <3>2, <2>4
  <2>8. CASE M!ReadDict
    <3>1. \E hobj2, fo2, fi2, pend2 : Goes(mGraph, S, off, last, rests, names, hobj2, fo2, fi2, pend2)
        BY <2>1, <2>8, DictRead
    <3>2. mPc' = "read"
        BY <2>8, <1>1 DEF M!ReadDict
    <3> QED
        BY <3>1, <3>2, <2>4
  <2>9. CASE M!ReadCode
    <3>1. \E fo2, fi2, pend2 : Goes(mGraph, S, off, last, rests, names, hobj, fo2, fi2, pend2)
        BY <2>1, <2>9, CodeRead
    <3>2. mPc' = "read"
        BY <2>9, <1>1 DEF M!ReadCode
    <3> QED
        BY <3>1, <3>2, <2>4
  <2>10. CASE M!ReceiveElement
    <3>1. \E fi2, pend2 : Goes(mGraph, S, off, last, rests, names, hobj, fo, fi2, pend2)
        BY <2>1, <2>10, ElementReceived
    <3>2. mPc' = "read"
        BY <2>10, <1>1 DEF M!ReceiveElement
    <3> QED
        BY <3>1, <3>2, <2>4
  <2>11. CASE M!ReceiveEntry
    <3>1. \E fi2, pend2 : Goes(mGraph, S, off, last, rests, names, hobj, fo, fi2, pend2)
        BY <2>1, <2>11, EntryReceived
    <3>2. mPc' = "read"
        BY <2>11, <1>1 DEF M!ReceiveEntry
    <3> QED
        BY <3>1, <3>2, <2>4
  <2>12. CASE M!ReceivePart
    <3>1. \E hobj2, fi2, pend2 : Goes(mGraph, S, off, last, rests, names, hobj2, fo, fi2, pend2)
        BY <2>1, <2>12, PartReceived
    <3>2. mPc' = "read"
        BY <2>12, <1>1 DEF M!ReceivePart
    <3> QED
        BY <3>1, <3>2, <2>4
  <2> QED
      BY <2>2, <2>3, <2>5, <2>6, <2>7, <2>8, <2>9, <2>10, <2>11, <2>12 DEF M!unmarshal
<1> QED
    BY <1>3, <1>4

MarshalInv == BytesInv /\ WriteInv /\ ReadInv

LEMMA MarshalInit == ASSUME M!MarshalAssumption, M!Init PROVE MarshalInv
<1>1. mPc = "idle"
    BY DEF M!Init
<1> QED
    BY <1>1, WriterInit DEF MarshalInv, ReadInv

LEMMA MarshalNext == ASSUME M!MarshalAssumption PROVE MarshalInv /\ [M!Next]_mVars => MarshalInv'
<1> SUFFICES ASSUME MarshalInv, [M!Next]_mVars PROVE MarshalInv'
    OBVIOUS
<1>1. BytesInv' /\ WriteInv'
    BY WriterNext DEF MarshalInv
<1>2. CASE M!Begin
  <2>1. mPc' = "write"
      BY <1>2 DEF M!Begin
  <2> QED
      BY <1>1, <2>1 DEF MarshalInv, ReadInv
<1>3. CASE M!w_object
  <2>1. mPc' = "write"
      BY <1>3 DEF M!w_object
  <2> QED
      BY <1>1, <2>1 DEF MarshalInv, ReadInv
<1>4. CASE M!w_int64
  <2>1. mPc' = "write"
      BY <1>4 DEF M!w_int64
  <2> QED
      BY <1>1, <2>1 DEF MarshalInv, ReadInv
<1>5. CASE M!Turn
    BY <1>1, <1>5, TurnReads DEF MarshalInv
<1>6. CASE M!unmarshal
    BY <1>1, <1>6, ReadsOn DEF MarshalInv
<1>7. CASE UNCHANGED mVars
  <2>1. ReadInv'
    <3>1. ReadInv
        BY DEF MarshalInv
    <3>2. Following' <=> Following
        BY <1>7 DEF Following, Ready, mVars
    <3> QED
        BY <1>7, <3>1, <3>2 DEF ReadInv, mVars
  <2> QED
      BY <1>1, <2>1 DEF MarshalInv
<1> QED
    BY <1>2, <1>3, <1>4, <1>5, <1>6, <1>7 DEF M!Next, M!marshal

LEMMA ReferencesAreFound == ASSUME MarshalInv PROVE M!Resolves
<1> SUFFICES ASSUME mPc = "assert"
             PROVE  M!Kinds \cap {"code", "float"} # {}
    BY DEF M!Resolves
<1>1. CASE NoFloat(mGraph)
  <2>1. PICK o \in DOMAIN mGraph : mGraph[o].kind = "code"
      BY <1>1 DEF MarshalInv, ReadInv
  <2> QED
      BY <2>1 DEF M!Kinds
<1>2. CASE ~ NoFloat(mGraph)
  <2>1. PICK o \in DOMAIN mGraph : mGraph[o].kind = "float"
      BY <1>2 DEF NoFloat
  <2> QED
      BY <2>1 DEF M!Kinds
<1> QED
    BY <1>1, <1>2

\* Without code objects and floats, whatever else is written and in whatever order, a reference
\* is found when it is read: the offsets of both sides agree, and the reader's dict, which
\* forgets objects when it grows and when two share a slot, has the last one (w_object, r_object).
THEOREM ReferencesResolve == ASSUME M!MarshalAssumption PROVE Objects => []Resolves
<1>1. Start => MarshalInv
    BY MarshalInit DEF Start
<1>2. MarshalInv /\ [Step]_allVars => MarshalInv'
    BY MarshalSteps, MarshalNext
<1>3. MarshalInv => Resolves
    BY ReferencesAreFound DEF Resolves
<1> QED
    BY <1>1, <1>2, <1>3, PTL DEF Objects, Step

-----------------------------------------------------------------------------
(* What is read equals what was written. *)

\* What an object is, with those in it given by t
Branch(objs, t, o) ==
    IF o = 0 THEN <<>>
    ELSE <<objs[o].kind, objs[o].val, [i \in DOMAIN objs[o].kids |-> t[objs[o].kids[i]]]>>

IsTree(objs, t) == t = [o \in 0..Len(objs) |-> Branch(objs, t, o)]

LEMMA TreesAre ==
    ASSUME NEW objs, \E t : IsTree(objs, t)
    PROVE  IsTree(objs, M!Trees(objs))
<1> DEFINE tree == CHOOSE t : IsTree(objs, t)
<1>1. M!Trees(objs) = tree
    BY DEF M!Trees, IsTree, Branch
<1>2. IsTree(objs, tree)
    OBVIOUS
<1> HIDE DEF tree
<1> QED
    BY <1>1, <1>2

\* Objects that contain only later ones are trees: the last ones are, and those before them.
LEMMA GraphsAreTrees == ASSUME NEW g, M!Complete(g) PROVE \E t : IsTree(g, t)
<1> DEFINE n == Len(g)
           Right(t, m) == \A o \in 0..n : o = 0 \/ o > n - m => t[o] = Branch(g, t, o)
           D == {m \in Nat : \E t : t = [o \in 0..n |-> t[o]] /\ Right(t, m)}
<1>1. n \in Nat /\ DOMAIN g = 1..n /\ \A o \in 1..n : M!Whole(g, o)
    BY DEF M!Complete
<1>2. \A o \in 1..n : \A i \in DOMAIN g[o].kids :
         g[o].kids[i] \in 0..n /\ (g[o].kids[i] = 0 \/ g[o].kids[i] > o)
  <2> TAKE o \in 1..n
  <2> TAKE i \in DOMAIN g[o].kids
  <2>1. g[o].kids \in Seq({0} \cup o + 1..Len(g))
      BY <1>1 DEF M!Whole
  <2>2. g[o].kids[i] \in {0} \cup o + 1..n
      BY <2>1
  <2> QED
      BY <1>1, <2>2
<1>3. 0 \in D
  <2> DEFINE t == [o \in 0..n |-> <<>>]
  <2>1. t = [o \in 0..n |-> t[o]]
      OBVIOUS
  <2>2. Right(t, 0)
      BY <1>1 DEF Branch
  <2> HIDE DEF t
  <2> QED
      BY <2>1, <2>2
<1>4. \A m \in Nat : m \in D => m + 1 \in D
  <2> TAKE m \in Nat
  <2> HAVE m \in D
  <2>1. PICK t : t = [o \in 0..n |-> t[o]] /\ Right(t, m)
      OBVIOUS
  <2> DEFINE t2 == [o \in 0..n |-> IF o = n - m THEN Branch(g, t, o) ELSE t[o]]
  <2>2. t2 = [o \in 0..n |-> t2[o]]
      OBVIOUS
  <2>3. \A o \in 0..n : t2[o] = IF o = n - m THEN Branch(g, t, o) ELSE t[o]
      OBVIOUS
  <2>4. \A o \in 0..n : o = 0 \/ o > n - m => t[o] = Branch(g, t, o)
      BY <2>1
  <2> HIDE DEF t2
  <2>5. \A o \in 0..n : o = 0 \/ o > n - m => t2[o] = t[o]
      BY <2>3, <2>4, <1>1
  <2>6. ASSUME NEW o \in 0..n, o = 0 \/ o > n - (m + 1)
        PROVE  t2[o] = Branch(g, t2, o)
    <3>1. t2[o] = Branch(g, t, o)
      <4>1. CASE o = n - m
          BY <4>1, <2>3
      <4>2. CASE o # n - m
        <5>1. o = 0 \/ o > n - m
            BY <4>2, <2>6, <1>1
        <5>2. t[o] = Branch(g, t, o)
            BY <5>1, <2>4
        <5> QED
            BY <4>2, <5>2, <2>3
      <4> QED
          BY <4>1, <4>2
    <3>2. Branch(g, t, o) = Branch(g, t2, o)
      <4>1. CASE o = 0
          BY <4>1 DEF Branch
      <4>2. CASE o # 0
        <5>1. o \in 1..n
            BY <4>2, <1>1
        <5>2. \A i \in DOMAIN g[o].kids : t2[g[o].kids[i]] = t[g[o].kids[i]]
          <6> TAKE i \in DOMAIN g[o].kids
          <6>1. g[o].kids[i] \in 0..n /\ (g[o].kids[i] = 0 \/ g[o].kids[i] > o)
              BY <1>2, <5>1
          <6>2. PICK kid : kid = g[o].kids[i]
              OBVIOUS
          <6>3. kid \in 0..n /\ (kid = 0 \/ kid > n - m)
              BY <6>1, <6>2, <2>6, <5>1, <1>1
          <6> QED
              BY <6>2, <6>3, <2>5
        <5>3. [i \in DOMAIN g[o].kids |-> t2[g[o].kids[i]]] = [i \in DOMAIN g[o].kids |-> t[g[o].kids[i]]]
            BY <5>2
        <5> QED
            BY <4>2, <5>3 DEF Branch
      <4> QED
          BY <4>1, <4>2
    <3> QED
        BY <3>1, <3>2
  <2>7. Right(t2, m + 1)
      BY <2>6
  <2> HIDE DEF Right
  <2> QED
      BY <2>2, <2>7
<1>5. n \in D
  <2> HIDE DEF D
  <2> QED
      BY <1>1, <1>3, <1>4, Induction
<1>6. PICK t : t = [o \in 0..n |-> t[o]] /\ Right(t, n)
    BY <1>5
<1>7. \A o \in 0..n : t[o] = Branch(g, t, o)
    BY <1>6, <1>1
<1>8. t = [o \in 0..n |-> Branch(g, t, o)]
    BY <1>6, <1>7
<1> QED
    BY <1>8 DEF IsTree

\* The heap's trees are those of the objects it stands for.
LEMMA HeapTrees ==
    ASSUME NEW g, M!Complete(g), \A o \in DOMAIN g : ReadAs(g, o) = g[o].val,
           NEW heap, NEW hobj, Heap(g, heap, hobj, <<>>),
           NEW x, x \in DOMAIN hobj
    PROVE  M!Trees(heap)[x] = M!Trees(g)[hobj[x]]
<1> DEFINE n == Len(g)
           k == Len(heap)
<1>1. n \in Nat /\ DOMAIN g = 1..n /\ \A o \in 1..n : M!Whole(g, o)
    BY DEF M!Complete
<1>2. k \in Nat /\ heap \in Seq(Nodes(g)) /\ hobj \in [1..k -> 1..n]
    BY DEF Heap
<1>3. \A h \in 1..k : /\ heap[h].kind = g[hobj[h]].kind /\ heap[h].val = g[hobj[h]].val
                      /\ heap[h].kids \in Seq(Nat) /\ g[hobj[h]].kids \in Seq({0} \cup hobj[h] + 1..Len(g))
                      /\ Len(heap[h].kids) = Len(g[hobj[h]].kids)
                      /\ Firsts(g, hobj, heap[h].kids, Len(heap[h].kids), hobj[h])
  <2> TAKE h \in 1..k
  <2>1. hobj[h] \in 1..n
      BY <1>2
  <2>2. heap[h].kind = g[hobj[h]].kind /\ heap[h].val = g[hobj[h]].val
      BY <2>1, <1>1 DEF Heap
  <2>3. Full(g, heap, hobj, h)
    <3>1. Len(<<>>) = 0 /\ 1..0 = {}
        OBVIOUS
    <3> QED
        BY <3>1 DEF Heap
  <2>4. heap[h] \in Nodes(g)
      BY <1>2
  <2>5. heap[h].kids \in Seq(Nat)
      BY <2>4 DEF Nodes
  <2>6. g[hobj[h]].kids \in Seq({0} \cup hobj[h] + 1..Len(g))
      BY <2>1, <1>1 DEF M!Whole
  <2> QED
      BY <2>2, <2>3, <2>5, <2>6 DEF Full
<1>4. \A h \in 1..k : /\ DOMAIN heap[h].kids = DOMAIN g[hobj[h]].kids
                      /\ \A i \in DOMAIN heap[h].kids :
                            \/ heap[h].kids[i] = 0 /\ g[hobj[h]].kids[i] = 0
                            \/ /\ heap[h].kids[i] \in 1..k /\ hobj[heap[h].kids[i]] = g[hobj[h]].kids[i]
                               /\ hobj[heap[h].kids[i]] > hobj[h]
  <2> TAKE h \in 1..k
  <2>1. PICK a, b, o : a = heap[h].kids /\ b = g[hobj[h]].kids /\ o = hobj[h]
      OBVIOUS
  <2>2. /\ a \in Seq(Nat) /\ b \in Seq({0} \cup o + 1..n) /\ Len(a) = Len(b) /\ o \in 1..n
        /\ \A m \in 1..Len(a) : Reps(hobj, a[m], b[m])
      BY <1>2, <1>3, <2>1 DEF Firsts
  <2>3. DOMAIN a = 1..Len(a) /\ DOMAIN b = 1..Len(a)
      BY <2>2
  <2>4. ASSUME NEW i \in DOMAIN a
        PROVE  \/ a[i] = 0 /\ b[i] = 0
               \/ a[i] \in 1..k /\ hobj[a[i]] = b[i] /\ hobj[a[i]] > o
    <3>1. b[i] \in {0} \cup o + 1..n /\ Reps(hobj, a[i], b[i])
        BY <2>2, <2>3
    <3> QED
        BY <3>1, <1>1, <1>2, <2>2 DEF Reps
  <2> QED
      BY <2>1, <2>3, <2>4
<1>5. PICK G : G = M!Trees(g) /\ G = [o \in 0..n |-> Branch(g, G, o)]
    BY GraphsAreTrees, TreesAre DEF IsTree
<1>6. G[0] = <<>> /\ \A o \in 1..n : G[o] = Branch(g, G, o)
  <2>1. 0 \in 0..n /\ \A o \in 1..n : o \in 0..n
      BY <1>1
  <2>2. \A o \in 0..n : G[o] = Branch(g, G, o)
      BY <1>5
  <2> QED
      BY <2>1, <2>2 DEF Branch
<1> DEFINE T == [h \in 0..k |-> IF h = 0 THEN <<>> ELSE G[hobj[h]]]
<1>7. T[0] = <<>> /\ \A h \in 1..k : T[h] = G[hobj[h]]
    BY <1>2
<1>8. T = [h \in 0..k |-> T[h]]
    OBVIOUS
<1> HIDE DEF T, n, k
<1>9. IsTree(heap, T)
  <2>1. ASSUME NEW h \in 0..k
        PROVE  T[h] = Branch(heap, T, h)
    <3>1. CASE h = 0
        BY <3>1, <1>7 DEF Branch
    <3>2. CASE h # 0
      <4>1. h \in 1..k /\ hobj[h] \in 1..n /\ hobj[h] # 0
          BY <3>2, <1>1, <1>2
      <4>2. \A i \in DOMAIN heap[h].kids : T[heap[h].kids[i]] = G[g[hobj[h]].kids[i]]
          BY <4>1, <1>4, <1>6, <1>7
      <4>3. DOMAIN heap[h].kids = DOMAIN g[hobj[h]].kids
          BY <4>1, <1>4
      <4>4. [i \in DOMAIN heap[h].kids |-> T[heap[h].kids[i]]] = [i \in DOMAIN g[hobj[h]].kids |-> G[g[hobj[h]].kids[i]]]
          BY <4>2, <4>3
      <4>5. heap[h].kind = g[hobj[h]].kind /\ heap[h].val = g[hobj[h]].val
          BY <4>1, <1>3
      <4>6. Branch(heap, T, h) = Branch(g, G, hobj[h])
          BY <4>1, <4>4, <4>5, <3>2 DEF Branch
      <4> QED
          BY <4>1, <4>6, <1>6, <1>7
    <3> QED
        BY <3>1, <3>2
  <2>2. T = [h \in 0..k |-> Branch(heap, T, h)]
      BY <2>1, <1>8
  <2> QED
      BY <2>2 DEF IsTree, k
<1>10. PICK F : F = M!Trees(heap) /\ F = [h \in 0..k |-> Branch(heap, F, h)]
    BY <1>9, TreesAre DEF IsTree, k
<1>11. /\ F[0] = <<>> /\ \A h \in 1..k : F[h] = Branch(heap, F, h)
       /\ \A h \in 1..k : T[h] = Branch(heap, T, h)
  <2>1. 0 \in 0..k /\ \A h \in 1..k : h \in 0..k
      BY <1>2
  <2>2. F[0] = <<>> /\ \A h \in 1..k : F[h] = Branch(heap, F, h)
      BY <2>1, <1>10 DEF Branch
  <2>3. \A h \in 0..k : T[h] = Branch(heap, T, h)
      BY <1>9 DEF IsTree, k
  <2> QED
      BY <2>1, <2>2, <2>3
<1> DEFINE D == {m \in Nat : \A h \in 1..k : hobj[h] > n - m => F[h] = T[h]}
<1>12. 0 \in D
    BY <1>1, <1>2
<1>13. \A m \in Nat : m \in D => m + 1 \in D
  <2> TAKE m \in Nat
  <2> HAVE m \in D
  <2>1. ASSUME NEW h \in 1..k, hobj[h] > n - (m + 1)
        PROVE  F[h] = T[h]
    <3>1. \A i \in DOMAIN heap[h].kids : F[heap[h].kids[i]] = T[heap[h].kids[i]]
      <4> TAKE i \in DOMAIN heap[h].kids
      <4>1. PICK kid : kid = heap[h].kids[i]
          OBVIOUS
      <4>2. kid = 0 \/ (kid \in 1..k /\ hobj[kid] > hobj[h])
          BY <4>1, <1>4
      <4>3. CASE kid = 0
          BY <4>1, <4>3, <1>7, <1>11
      <4>4. CASE kid \in 1..k /\ hobj[kid] > hobj[h]
        <5>1. hobj[kid] \in Nat /\ hobj[h] \in Nat
            BY <4>4, <1>1, <1>2
        <5>2. hobj[kid] > n - m
            BY <5>1, <4>4, <2>1, <1>1
        <5> QED
            BY <5>2, <4>1, <4>4
      <4> QED
          BY <4>2, <4>3, <4>4
    <3>2. [i \in DOMAIN heap[h].kids |-> F[heap[h].kids[i]]] = [i \in DOMAIN heap[h].kids |-> T[heap[h].kids[i]]]
        BY <3>1
    <3>3. h # 0
        BY <1>2
    <3>4. Branch(heap, F, h) = Branch(heap, T, h)
        BY <3>2, <3>3 DEF Branch
    <3> QED
        BY <3>4, <1>11
  <2> QED
      BY <2>1
<1>14. n \in D
  <2> HIDE DEF D
  <2> QED
      BY <1>1, <1>12, <1>13, Induction
<1>15. x \in 1..k /\ hobj[x] > n - n
    BY <1>1, <1>2
<1>16. F[x] = T[x]
    BY <1>14, <1>15
<1> QED
    BY <1>5, <1>7, <1>10, <1>15, <1>16

LEMMA CopyEquals == ASSUME MarshalInv PROVE M!RoundTrip
<1> SUFFICES ASSUME mPc = "done", M!Storable
             PROVE  M!Trees(mHeap)[mRs] = M!Trees(mGraph)[1]
    BY DEF M!RoundTrip
<1>1. NoFloat(mGraph)
    BY DEF M!Storable, M!Kinds, NoFloat
<1>2. Following /\ mStack = <<>> /\ mRs # -1
    BY <1>1 DEF MarshalInv, ReadInv
<1>3. PICK S, off, last, rests, names, hobj, fo, fi, pend :
         Ready(mGraph, S, off, last, rests, names, hobj, fo, fi, pend)
    BY <1>2 DEF Following
<1>4. /\ M!Complete(mGraph) /\ Heap(mGraph, mHeap, hobj, <<>>)
      /\ Answer(mGraph, hobj, fo, fi, pend, Len(mStack), rests[mAt], mRs)
    BY <1>2, <1>3, ReadyIs
<1>5. mRs \in DOMAIN hobj /\ hobj[mRs] = 1
  <2>1. Len(mStack) = 0
      BY <1>2
  <2> QED
      BY <2>1, <1>2, <1>4 DEF Answer, Wanted, Reps
<1>6. \A o \in DOMAIN mGraph : ReadAs(mGraph, o) = mGraph[o].val
    BY DEF M!Storable, ReadAs, M!AsLong
<1> QED
    BY <1>4, <1>5, <1>6, HeapTrees

\* What is read equals what was written, part by part, however objects are shared and although
\* either dict loses some of them: every result stands for an object of the graph, and an
\* object of the heap whose call has ended holds what its object holds (w_object, r_object).
THEOREM CopiesAreEqual == ASSUME M!MarshalAssumption PROVE Objects => []RoundTrip
<1>1. Start => MarshalInv
    BY MarshalInit DEF Start
<1>2. MarshalInv /\ [Step]_allVars => MarshalInv'
    BY MarshalSteps, MarshalNext
<1>3. MarshalInv => RoundTrip
    BY CopyEquals DEF RoundTrip
<1> QED
    BY <1>1, <1>2, <1>3, PTL DEF Objects, Step

=============================================================================
