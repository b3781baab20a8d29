---------------------------- MODULE ListsProofs ----------------------------
(****************************************************************************)
(* Proofs about module Lists: the cells below co_size are valid, the counts *)
(* are exact, and a list is the sequence of module List, for any elements   *)
(* and any length.                                                          *)
(*                                                                          *)
(* Why: only a queue grows or shrinks, and nothing loops over a queue, so   *)
(* the iterator of a literal never stands past the end (Shaped); and each   *)
(* operation changes the number of occurrences of an element (Times) by     *)
(* what it counts.                                                          *)
(****************************************************************************)
EXTENDS Lists, FiniteSetTheorems, SequenceTheorems, TLAPS

Cell == Element \cup {JUNK}

(* The inductive invariant *)

Typed ==
    /\ items \in Seq(Cell)
    /\ size \in Nat
    /\ count \in Int
    /\ refs \in [Item -> Int]
    /\ held \in BOOLEAN
    /\ index \in Int /\ index >= -1
    /\ use \in {"none", "literal", "queue", "overrun", "corrupt"}

Shaped ==
    /\ use = "none" => items = <<>> /\ ~held /\ index = -1
    /\ use = "queue" => held /\ index = -1 /\ \A i \in 1..size : items[i] \in Item
    /\ use = "literal" => Len(items) = size /\ index <= size

IInv == Typed /\ Shaped /\ CellsValid /\ RefsExact

-----------------------------------------------------------------------------
(* Occurrences *)

\* Where x is.
At(x, s) == {i \in 1..Len(s) : s[i] = x}

LEMMA TimesNat ==
    ASSUME NEW S, NEW s \in Seq(S), NEW x
    PROVE  /\ IsFiniteSet(At(x, s))
           /\ Times(x, s) = Cardinality(At(x, s))
           /\ Times(x, s) \in Nat
           /\ s = <<>> => Times(x, s) = 0
<1>1. Len(s) \in Nat /\ DOMAIN s = 1..Len(s)
    BY LenProperties
<1>2. IsFiniteSet(1..Len(s))
    BY <1>1, FS_Interval
<1>3. IsFiniteSet(At(x, s))
    BY <1>2, FS_Subset DEF At
<1>4. s = <<>> => At(x, s) = {}
    BY <1>1 DEF At
<1>5. {i \in DOMAIN s : s[i] = x} = At(x, s)
    BY <1>1 DEF At
<1>6. Times(x, s) = Cardinality(At(x, s))
    BY <1>5 DEF Times
<1> QED
    BY <1>3, <1>4, <1>6, FS_CardinalityType, FS_EmptySet

LEMMA TimesAppend ==
    ASSUME NEW S, NEW s \in Seq(S), NEW y \in S, NEW x
    PROVE  Times(x, Append(s, y)) = Times(x, s) + (IF x = y THEN 1 ELSE 0)
<1> DEFINE t == Append(s, y)
<1>1. /\ t \in Seq(S) /\ Len(t) = Len(s) + 1 /\ Len(s) \in Nat
      /\ t[Len(s) + 1] = y /\ \A i \in 1..Len(s) : t[i] = s[i]
    BY AppendProperties, LenProperties
<1>2. /\ Times(x, s) = Cardinality(At(x, s)) /\ Times(x, t) = Cardinality(At(x, t))
      /\ IsFiniteSet(At(x, s)) /\ Cardinality(At(x, s)) \in Nat
    BY <1>1, TimesNat
<1>3. At(x, t) = IF x = y THEN At(x, s) \cup {Len(s) + 1} ELSE At(x, s)
    BY <1>1 DEF At
<1>4. Len(s) + 1 \notin At(x, s)
    BY <1>1 DEF At
<1> HIDE DEF t
<1>5. Cardinality(At(x, s) \cup {Len(s) + 1}) = Cardinality(At(x, s)) + 1
    BY <1>2, <1>4, FS_AddElement
<1>6. Times(x, t) = Times(x, s) + (IF x = y THEN 1 ELSE 0)
    BY <1>2, <1>3, <1>5
<1> QED
    BY <1>6 DEF t

LEMMA TimesExcept ==
    ASSUME NEW S, NEW s \in Seq(S), NEW k \in 1..Len(s), NEW y \in S, NEW x
    PROVE  Times(x, [s EXCEPT ![k] = y]) =
               Times(x, s) + (IF x = y THEN 1 ELSE 0) - (IF x = s[k] THEN 1 ELSE 0)
<1> DEFINE t == [s EXCEPT ![k] = y]
           rest == At(x, s) \ {k}
<1>1. t \in Seq(S) /\ Len(t) = Len(s) /\ \A i \in 1..Len(s) : t[i] = IF i = k THEN y ELSE s[i]
    BY ExceptSeq
<1>2. /\ Times(x, s) = Cardinality(At(x, s)) /\ Times(x, t) = Cardinality(At(x, t))
      /\ IsFiniteSet(At(x, s)) /\ Cardinality(At(x, s)) \in Nat
    BY <1>1, TimesNat
<1>3. At(x, t) = IF x = y THEN rest \cup {k} ELSE rest
    BY <1>1 DEF At
<1>4. At(x, s) = IF x = s[k] THEN rest \cup {k} ELSE rest
    BY DEF At
<1>5. k \notin rest
    OBVIOUS
<1> HIDE DEF t
<1>6. IsFiniteSet(rest) /\ Cardinality(rest) \in Nat
    BY <1>2, FS_RemoveElement, FS_CardinalityType
<1> HIDE DEF rest
<1>7. Cardinality(rest \cup {k}) = Cardinality(rest) + 1
    BY <1>5, <1>6, FS_AddElement
<1>8. Times(x, t) = Times(x, s) + (IF x = y THEN 1 ELSE 0) - (IF x = s[k] THEN 1 ELSE 0)
    BY <1>2, <1>3, <1>4, <1>6, <1>7
<1> QED
    BY <1>8 DEF t

\* The sequence without its element k.
Without(s, k) == SubSeq(s, 1, k - 1) \o SubSeq(s, k + 1, Len(s))

LEMMA WithoutSeq ==
    ASSUME NEW S, NEW s \in Seq(S), NEW k \in 1..Len(s)
    PROVE  /\ Without(s, k) \in Seq(S)
           /\ Len(Without(s, k)) = Len(s) - 1
           /\ \A i \in 1 .. Len(s) - 1 : Without(s, k)[i] = IF i < k THEN s[i] ELSE s[i + 1]
<1> DEFINE n == Len(s)
           a == SubSeq(s, 1, k - 1)
           b == SubSeq(s, k + 1, n)
<1>1. n \in Nat /\ k \in 1..n /\ \A i \in 1..n : s[i] \in S
    BY LenProperties, ElementOfSeq
<1> HIDE DEF n
<1>2. a \in Seq(S) /\ Len(a) = k - 1 /\ \A i \in 1 .. k - 1 : a[i] = s[i]
  <2>1. /\ \A i \in 1 .. k - 1 : s[i] \in S
        /\ k - 1 \in Int
      BY <1>1
  <2>2. /\ a \in Seq(S)
        /\ Len(a) = IF 1 <= k - 1 THEN k - 1 - 1 + 1 ELSE 0
        /\ \A i \in 1 .. k - 1 - 1 + 1 : a[i] = s[1 + i - 1]
      BY <2>1, SubSeqProperties
  <2> HIDE DEF a
  <2> QED
      BY <1>1, <2>2
<1>3. b \in Seq(S) /\ Len(b) = n - k /\ \A i \in 1 .. n - k : b[i] = s[k + i]
  <2>1. /\ \A i \in k + 1 .. n : s[i] \in S
        /\ k + 1 \in Int /\ n \in Int
      BY <1>1
  <2>2. /\ b \in Seq(S)
        /\ Len(b) = IF k + 1 <= n THEN n - (k + 1) + 1 ELSE 0
        /\ \A i \in 1 .. n - (k + 1) + 1 : b[i] = s[k + 1 + i - 1]
      BY <2>1, SubSeqProperties
  <2> HIDE DEF b
  <2> QED
      BY <1>1, <2>2
<1>4. Without(s, k) = a \o b
    BY DEF Without, n
<1> HIDE DEF a, b
<1>5. /\ a \o b \in Seq(S)
      /\ Len(a \o b) = Len(a) + Len(b)
      /\ \A i \in 1 .. Len(a) + Len(b) : (a \o b)[i] = IF i <= Len(a) THEN a[i] ELSE b[i - Len(a)]
    BY <1>2, <1>3, ConcatProperties
<1>6. ASSUME NEW i \in 1 .. n - 1
      PROVE  (a \o b)[i] = IF i < k THEN s[i] ELSE s[i + 1]
  <2>1. CASE i < k
      BY <1>1, <1>2, <1>3, <1>5, <2>1
  <2>2. CASE i >= k
    <3>1. i - (k - 1) \in 1 .. n - k /\ k + (i - (k - 1)) = i + 1
        BY <1>1, <2>2
    <3>2. (a \o b)[i] = b[i - (k - 1)]
        BY <1>1, <1>2, <1>3, <1>5, <2>2
    <3>3. b[i - (k - 1)] = s[k + (i - (k - 1))]
        BY <1>3, <3>1
    <3> QED
        BY <2>2, <3>1, <3>2, <3>3, <1>1
  <2>3. i < k \/ i >= k
      BY <1>1
  <2> QED
      BY <2>1, <2>2, <2>3
<1> QED
    BY <1>1, <1>2, <1>3, <1>4, <1>5, <1>6 DEF n

LEMMA TimesWithout ==
    ASSUME NEW S, NEW s \in Seq(S), NEW k \in 1..Len(s), NEW x
    PROVE  Times(x, Without(s, k)) = Times(x, s) - (IF x = s[k] THEN 1 ELSE 0)
<1> DEFINE n == Len(s)
           t == Without(s, k)
           rest == At(x, s) \ {k}
           back == [i \in At(x, t) |-> IF i < k THEN i ELSE i + 1]
<1>1. /\ t \in Seq(S) /\ Len(t) = n - 1
      /\ \A i \in 1 .. n - 1 : t[i] = IF i < k THEN s[i] ELSE s[i + 1]
    BY WithoutSeq
<1>2. /\ Times(x, s) = Cardinality(At(x, s)) /\ Times(x, t) = Cardinality(At(x, t))
      /\ IsFiniteSet(At(x, s)) /\ IsFiniteSet(At(x, t)) /\ Cardinality(At(x, s)) \in Nat
    BY <1>1, TimesNat
<1>3. n \in Nat /\ k \in 1..n
    BY LenProperties
<1>4. \A i \in At(x, t) : back[i] \in rest
    BY <1>1, <1>3 DEF At
<1>5. \A i, j \in At(x, t) : back[i] = back[j] => i = j
    BY <1>1, <1>3 DEF At
<1>6. \A j \in rest : \E i \in At(x, t) : back[i] = j
  <2> TAKE j \in rest
  <2>1. CASE j < k
    <3>1. j \in At(x, t)
        BY <1>1, <1>3, <2>1 DEF At
    <3> QED
        BY <2>1, <3>1
  <2>2. CASE j > k
    <3>1. j - 1 \in At(x, t)
        BY <1>1, <1>3, <2>2 DEF At
    <3>2. back[j - 1] = j
        BY <1>1, <1>3, <2>2, <3>1 DEF At
    <3> QED
        BY <3>1, <3>2
  <2>3. j < k \/ j > k
      BY <1>3 DEF At
  <2> QED
      BY <2>1, <2>2, <2>3
<1>7. back \in Bijection(At(x, t), rest)
    BY <1>4, <1>5, <1>6 DEF Bijection, Injection, Surjection, IsInjective
<1>8. Cardinality(rest) = Cardinality(At(x, t))
    BY <1>2, <1>7, FS_Bijection DEF ExistsBijection
<1>9. k \in At(x, s) <=> x = s[k]
    BY <1>3 DEF At
<1> HIDE DEF t
<1>10. Cardinality(rest) = IF k \in At(x, s) THEN Cardinality(At(x, s)) - 1 ELSE Cardinality(At(x, s))
    BY <1>2, FS_RemoveElement
<1>11. Times(x, t) = Times(x, s) - (IF x = s[k] THEN 1 ELSE 0)
    BY <1>2, <1>8, <1>9, <1>10
<1> QED
    BY <1>11 DEF t

-----------------------------------------------------------------------------
(* The elements, and how they change *)

\* The first n of the cells s are a sequence.
LEMMA PrefixSeq ==
    ASSUME NEW S, NEW s, NEW n \in Nat, \A i \in 1..n : s[i] \in S
    PROVE  /\ SubSeq(s, 1, n) \in Seq(S)
           /\ Len(SubSeq(s, 1, n)) = n
           /\ \A i \in 1..n : SubSeq(s, 1, n)[i] = s[i]
<1>1. /\ SubSeq(s, 1, n) \in Seq(S)
      /\ Len(SubSeq(s, 1, n)) = IF 1 <= n THEN n - 1 + 1 ELSE 0
      /\ \A i \in 1 .. n - 1 + 1 : SubSeq(s, 1, n)[i] = s[1 + i - 1]
    BY SubSeqProperties
<1> QED
    BY <1>1

\* It is the only one with the same elements.
LEMMA PrefixIs ==
    ASSUME NEW S, NEW s, NEW t \in Seq(S), \A i \in 1..Len(t) : s[i] = t[i]
    PROVE  SubSeq(s, 1, Len(t)) = t
<1>1. Len(t) \in Nat /\ \A i \in 1..Len(t) : s[i] \in S
    BY LenProperties, ElementOfSeq
<1> QED
    BY <1>1, PrefixSeq, SeqEqual

LEMMA ElementsSeq ==
    ASSUME Typed, CellsValid
    PROVE  /\ Elements \in Seq(Element)
           /\ Len(Elements) = size
           /\ \A i \in 1..size : Elements[i] = items[i]
BY PrefixSeq DEF Typed, CellsValid, Elements

\* Counted counts what a sequence gains and loses.
LEMMA CountedFollows ==
    ASSUME ListsAssumption, Typed, CellsValid, RefsExact, use \notin {"overrun", "corrupt"},
           NEW new, NEW old, Counted(new, old), Typed', CellsValid', UNCHANGED <<held, index>>,
           \A x \in Element : Times(x, Elements') =
               Times(x, Elements) + (IF x = new THEN 1 ELSE 0) - (IF x = old THEN 1 ELSE 0)
    PROVE  /\ count' = (IF held' THEN 1 ELSE 0) + (IF index' # -1 THEN 1 ELSE 0)
                           + Times(SELF, Elements)'
           /\ \A x \in Item : refs'[x] = Times(x, Elements)'
<1>1. \A x \in Element : Times(x, Elements) \in Nat /\ Times(x, Elements') \in Nat
  <2>1. Elements \in Seq(Element)
      BY ElementsSeq
  <2>2. Elements' \in Seq(Element)
      BY PrefixSeq DEF Typed, CellsValid, Elements
  <2> QED
      BY <2>1, <2>2, TimesNat
<1> QED
    BY <1>1 DEF Counted, RefsExact, Element, Typed

\* It stays in use while the program holds it.
LEMMA HeldCounted ==
    ASSUME ListsAssumption, Typed, CellsValid, RefsExact, use \notin {"overrun", "corrupt"},
           NEW new, NEW old, Counted(new, old), Typed', CellsValid', UNCHANGED <<held, index, use>>,
           held, use # "none",
           \A x \in Element : Times(x, Elements') =
               Times(x, Elements) + (IF x = new THEN 1 ELSE 0) - (IF x = old THEN 1 ELSE 0)
    PROVE  RefsExact'
<1>1. /\ count' = (IF held' THEN 1 ELSE 0) + (IF index' # -1 THEN 1 ELSE 0)
                       + Times(SELF, Elements)'
      /\ \A x \in Item : refs'[x] = Times(x, Elements)'
    BY CountedFollows
<1>2. Elements' \in Seq(Element)
    BY PrefixSeq DEF Typed, CellsValid, Elements
<1>3. Times(SELF, Elements)' \in Nat
    BY <1>2, TimesNat
<1> QED
    BY <1>1, <1>3 DEF RefsExact

\* list_resize keeps the cells that are in use, and makes room.
LEMMA Resized ==
    ASSUME Typed, CellsValid, NEW n \in Nat, n > size
    PROVE  /\ list_resize(n) \in Seq(Cell)
           /\ Len(list_resize(n)) >= n
           /\ \A i \in 1..size : list_resize(n)[i] = items[i]
<1> DEFINE m == n + (n \div 8) + (IF n < 9 THEN 3 ELSE 6)
           more == [i \in 1..m |-> IF i <= Len(items) THEN items[i] ELSE JUNK]
<1>1. Len(items) \in Nat /\ size \in Nat /\ size <= Len(items) /\ \A i \in 1..Len(items) : items[i] \in Cell
    BY LenProperties, ElementOfSeq DEF Typed, CellsValid
<1>2. n # 0 /\ n \div 8 \in Nat
    BY <1>1
<1>3. m \in Nat /\ m >= n
    BY <1>2
<1>4. list_resize(n) = IF Len(items) >= n /\ n >= Len(items) \div 2 THEN items ELSE more
    BY <1>2 DEF list_resize
<1> HIDE DEF m
<1>5. more \in [1..m -> Cell]
    BY <1>1 DEF Cell
<1>6. more \in Seq(Cell) /\ Len(more) = m
    BY <1>3, <1>5, SeqDef
<1>7. \A i \in 1..size : i \in 1..m /\ more[i] = items[i]
    BY <1>1, <1>3
<1> HIDE DEF more
<1> QED
    BY <1>1, <1>3, <1>4, <1>6, <1>7 DEF Typed

LEMMA InitInv == Init => IInv
<1> SUFFICES ASSUME Init PROVE IInv
    OBVIOUS
<1>1. Typed /\ Shaped /\ CellsValid
  <2>1. <<>> \in Seq(Cell) /\ Len(<<>>) = 0
      BY EmptySeq
  <2>2. Typed
    <3>1. items \in Seq(Cell)
        BY <2>1 DEF Init
    <3>2. refs \in [Item -> Int]
        BY DEF Init
    <3>3. use \in {"none", "literal", "queue", "overrun", "corrupt"}
        BY DEF Init
    <3>4. size \in Nat /\ count \in Int /\ index \in Int /\ index >= -1
        BY DEF Init
    <3>5. held \in BOOLEAN
        BY DEF Init
    <3> QED
        BY <3>1, <3>2, <3>3, <3>4, <3>5 DEF Typed
  <2>3. Shaped
      BY DEF Init, Shaped
  <2>4. CellsValid
      BY <2>1 DEF Init, CellsValid
  <2> QED
      BY <2>2, <2>3, <2>4
<1>2. Elements = <<>>
    BY <1>1, ElementsSeq, EmptySeq DEF Init
<1>3. \A x : Times(x, Elements) = 0
    BY <1>1, <1>2, ElementsSeq, TimesNat
<1> QED
    BY <1>1, <1>3 DEF Init, IInv, RefsExact

\* A state in which nothing has happened to the list but that its memory is corrupt.
LEMMA CorruptInv == IInv /\ Corrupt("corrupt") => IInv'
BY DEF IInv, Typed, Shaped, CellsValid, RefsExact, Corrupt, Elements

LEMMA SameListInv ==
    ASSUME IInv, UNCHANGED <<items, size, count, refs, held, index, use>>
    PROVE  IInv'
BY DEF IInv, Typed, Shaped, CellsValid, RefsExact, Elements

LEMMA BuildListInv ==
    ASSUME IInv, NEW xs \in Literals, ListsAssumption, BuildList(xs)
    PROVE  IInv'
<1> USE DEF IInv
<1>1. PICK n \in 0..MaxLiteral : xs \in [1..n -> Item]
    BY DEF Literals
<1>2. n \in Nat /\ xs \in Seq(Item)
    BY <1>1, SeqDef DEF ListsAssumption
<1>3. xs \in Seq(Element) /\ xs \in Seq(Cell) /\ Len(xs) = n /\ \A i \in 1..n : xs[i] \in Item
    BY <1>1, <1>2, SeqMonotonic DEF Element, Cell
<1>4. \A x : Times(x, xs) \in Nat
    BY <1>3, TimesNat
<1>5. Typed' /\ Shaped' /\ CellsValid'
    BY <1>2, <1>3, <1>4 DEF BuildList, Typed, Shaped, CellsValid, Element
<1>6. Elements' = xs
    BY <1>3, PrefixIs DEF BuildList, Elements
<1>7. Times(SELF, xs) = 0
  <2>1. At(SELF, xs) = {}
      BY <1>3 DEF At, ListsAssumption
  <2> QED
      BY <1>3, <2>1, TimesNat, FS_EmptySet
<1>8. index = -1
    BY DEF BuildList, Shaped
<1> QED
    BY <1>4, <1>5, <1>6, <1>7, <1>8 DEF BuildList, RefsExact

LEMMA NewInv ==
    ASSUME IInv, COList_New
    PROVE  IInv'
<1> USE DEF IInv
<1>1. items = <<>> /\ index = -1 /\ Typed' /\ Shaped' /\ CellsValid'
    BY DEF COList_New, Typed, Shaped, CellsValid
<1>2. Elements' = Elements /\ count = 0
    BY DEF COList_New, Elements, RefsExact
<1>3. Times(SELF, Elements) = 0
  <2>1. Times(SELF, Elements) \in Nat
      BY ElementsSeq, TimesNat
  <2> QED
      BY <1>1, <1>2, <2>1 DEF RefsExact, COList_New, Shaped, Typed
<1> QED
    BY <1>1, <1>2, <1>3 DEF COList_New, RefsExact, Typed

\* What an append does to the elements.
LEMMA AppendElements ==
    ASSUME IInv, NEW x \in Item, COList_Append(x)
    PROVE  /\ items' \in Seq(Cell) /\ size' = size + 1 /\ size < Len(items') /\ use' = "queue"
           /\ Elements' = Append(Elements, x)
           /\ \A i \in 1..size : items'[i] = items[i]
           /\ items'[size + 1] = x
           /\ Counted(x, NULL)
           /\ result' = <<"ok", NULL>>
           /\ UNCHANGED <<held, index, use>>
<1> USE DEF IInv
<1> DEFINE cells == list_resize(size + 1)
           next == [j \in DOMAIN cells |->
                       IF j = size + 1 THEN x
                       ELSE IF j \in size + 3 .. size + 2 THEN cells[j - 1] ELSE cells[j]]
<1>1. size \in Nat /\ size + 1 \in Nat /\ size + 1 > size
    BY DEF Typed
<1>2. /\ cells \in Seq(Cell) /\ Len(cells) >= size + 1 /\ Len(cells) \in Nat
      /\ \A i \in 1..size : cells[i] = items[i]
    BY <1>1, Resized, LenProperties
<1>3. DOMAIN cells = 1..Len(cells) /\ \A j \in 1..Len(cells) : cells[j] \in Cell
    BY <1>2, LenProperties, ElementOfSeq
<1>4. /\ use = "queue" /\ items' = next /\ size' = size + 1 /\ Counted(x, NULL)
      /\ result' = <<"ok", NULL>> /\ UNCHANGED <<held, index, use>>
  <2>1. ~ size < -size /\ ~ size < 0 /\ ~ size > size
      BY <1>1
  <2>2. ~ size + 1 > Len(cells)
      BY <1>1, <1>2
  <2> QED
      BY <2>1, <2>2 DEF COList_Append, COList_Insert
<1> HIDE DEF cells
<1>5. next \in [1..Len(cells) -> Cell]
    BY <1>1, <1>3 DEF Cell, Element
<1>6. next \in Seq(Cell) /\ Len(next) = Len(cells)
    BY <1>2, <1>5, SeqDef
<1>7. \A j \in 1..size : next[j] = items[j]
    BY <1>1, <1>2, <1>3
<1>8. next[size + 1] = x
    BY <1>1, <1>2, <1>3
<1> HIDE DEF next
<1>9. Elements' = Append(Elements, x)
  <2>1. /\ Elements \in Seq(Element) /\ Len(Elements) = size
        /\ \A i \in 1..size : Elements[i] = items[i]
      BY ElementsSeq
  <2>2. x \in Element
      BY DEF Element
  <2>3. /\ Append(Elements, x) \in Seq(Element) /\ Len(Append(Elements, x)) = size + 1
        /\ Append(Elements, x)[size + 1] = x
        /\ \A i \in 1..size : Append(Elements, x)[i] = items[i]
      BY <2>1, <2>2, AppendProperties
  <2>4. \A i \in 1..size + 1 : next[i] = Append(Elements, x)[i]
      BY <1>1, <1>7, <1>8, <2>3
  <2>5. SubSeq(next, 1, size + 1) = Append(Elements, x)
      BY <2>3, <2>4, PrefixIs
  <2> QED
      BY <1>4, <2>5 DEF Elements
<1> QED
    BY <1>1, <1>2, <1>4, <1>6, <1>7, <1>8, <1>9

LEMMA AppendInv ==
    ASSUME ListsAssumption, IInv, NEW x \in Item, COList_Append(x)
    PROVE  IInv'
<1> USE DEF IInv
<1>1. /\ items' \in Seq(Cell) /\ size' = size + 1 /\ size < Len(items') /\ use = "queue" /\ use' = "queue"
      /\ Elements' = Append(Elements, x) /\ Counted(x, NULL) /\ UNCHANGED <<held, index, use>>
      /\ \A i \in 1..size : items'[i] = items[i]
      /\ items'[size + 1] = x
    BY AppendElements
<1>2. /\ Elements \in Seq(Element) /\ Len(Elements) = size /\ x \in Element
      /\ \A i \in 1..size : Elements[i] = items[i]
    BY ElementsSeq DEF Element
<1>3. Typed' /\ Shaped'
  <2>1. Typed'
      BY <1>1 DEF Typed, Counted
  <2>2. \A i \in 1 .. size + 1 : items'[i] \in Item
    <3>1. \A i \in 1 .. size + 1 : i \in 1..size \/ i = size + 1
        BY DEF Typed
    <3>2. \A i \in 1..size : items[i] \in Item
        BY <1>1 DEF Shaped
    <3> QED
        BY <1>1, <3>1, <3>2
  <2> QED
      BY <1>1, <2>1, <2>2 DEF Shaped
<1>4. CellsValid'
  <2>1. Len(items') \in Nat /\ size \in Nat
      BY <1>1, LenProperties DEF Typed
  <2> QED
      BY <1>1, <1>2, <2>1 DEF CellsValid
<1>5. \A y \in Element : Times(y, Elements') =
          Times(y, Elements) + (IF y = x THEN 1 ELSE 0) - (IF y = NULL THEN 1 ELSE 0)
    BY <1>1, <1>2, TimesAppend, TimesNat DEF ListsAssumption, Element
<1> QED
    BY <1>1, <1>3, <1>4, <1>5, HeldCounted DEF Shaped

\* What a deletion does to them, if there is an element to delete.
LEMMA DeleteElements ==
    ASSUME IInv, NEW i \in Int, COList_DelItem(i), 0 <= i, i < size
    PROVE  /\ items' \in Seq(Cell) /\ Len(items') = Len(items) /\ size' = size - 1
           /\ i + 1 \in 1..size /\ Elements[i + 1] = items[i + 1]
           /\ Elements' = Without(Elements, i + 1)
           /\ \A j \in 1 .. size - 1 : \E k \in 1..size : items'[j] = items[k]
           /\ Counted(NULL, items[i + 1])
           /\ result' = <<"ok", NULL>>
           /\ UNCHANGED <<held, index, use>>
<1> USE DEF IInv
<1> DEFINE next == [j \in DOMAIN items |->
                       IF j \in i + 1 .. size - 1 THEN items[j + 1] ELSE items[j]]
<1>1. /\ size \in Nat /\ Len(items) \in Nat /\ size <= Len(items) /\ i + 1 \in 1..size
      /\ DOMAIN items = 1..Len(items)
      /\ \A j \in 1..Len(items) : items[j] \in Cell
    BY LenProperties, ElementOfSeq DEF Typed, CellsValid
<1>2. /\ items' = next /\ size' = size - 1 /\ Counted(NULL, items[i + 1])
      /\ result' = <<"ok", NULL>> /\ UNCHANGED <<held, index, use>>
    BY <1>1 DEF COList_DelItem
<1>3. next \in [1..Len(items) -> Cell]
    BY <1>1
<1>4. next \in Seq(Cell) /\ Len(next) = Len(items)
    BY <1>1, <1>3, SeqDef
<1>5. \A j \in 1 .. size - 1 : next[j] = IF j < i + 1 THEN items[j] ELSE items[j + 1]
    BY <1>1
<1> HIDE DEF next
<1>6. /\ Elements \in Seq(Element) /\ Len(Elements) = size
      /\ \A j \in 1..size : Elements[j] = items[j]
    BY ElementsSeq
<1> DEFINE t == Without(Elements, i + 1)
<1>7. /\ t \in Seq(Element) /\ Len(t) = size - 1
      /\ \A j \in 1 .. size - 1 : t[j] = IF j < i + 1 THEN Elements[j] ELSE Elements[j + 1]
    BY <1>1, <1>6, WithoutSeq
<1> HIDE DEF t
<1>8. \A j \in 1 .. size - 1 : next[j] = t[j] /\ \E k \in 1..size : next[j] = items[k]
  <2>1. \A j \in 1 .. size - 1 : j \in 1..size /\ j + 1 \in 1..size
      BY <1>1
  <2> QED
      BY <1>5, <1>6, <1>7, <2>1
<1>9. SubSeq(next, 1, size - 1) = t
    BY <1>7, <1>8, PrefixIs
<1> QED
    BY <1>1, <1>2, <1>4, <1>6, <1>8, <1>9 DEF Elements, t

LEMMA DelItemInv ==
    ASSUME ListsAssumption, IInv, NEW i \in Int, COList_DelItem(i)
    PROVE  IInv'
<1> USE DEF IInv
<1>1. CASE i < 0 \/ i >= size
    BY <1>1, SameListInv DEF COList_DelItem, Failed
<1>2. CASE 0 <= i /\ i < size
  <2>1. /\ items' \in Seq(Cell) /\ Len(items') = Len(items) /\ size' = size - 1
        /\ i + 1 \in 1..size /\ Elements[i + 1] = items[i + 1]
        /\ Elements' = Without(Elements, i + 1)
        /\ \A j \in 1 .. size - 1 : \E k \in 1..size : items'[j] = items[k]
        /\ Counted(NULL, items[i + 1]) /\ UNCHANGED <<held, index, use>>
      BY <1>2, DeleteElements
  <2>2. /\ Elements \in Seq(Element) /\ Len(Elements) = size /\ use = "queue"
        /\ Len(items) \in Nat /\ size \in Nat
      BY ElementsSeq, LenProperties DEF COList_DelItem, Typed
  <2>3. Typed' /\ Shaped'
    <3>1. Typed'
        BY <2>1, <2>2 DEF Typed, Counted
    <3>2. \A j \in 1 .. size - 1 : items'[j] \in Item
        BY <2>1, <2>2 DEF Shaped
    <3> QED
        BY <2>1, <2>2, <3>1, <3>2 DEF Shaped
  <2>4. CellsValid'
      BY <2>1, <2>2 DEF CellsValid
  <2> DEFINE k == i + 1
             old == items[k]
  <2>5. /\ Counted(NULL, old) /\ Elements[k] = old /\ k \in 1..Len(Elements)
        /\ Elements' = Without(Elements, k)
      BY <2>1, <2>2
  <2> HIDE DEF k, old
  <2>6. \A x \in Element : Times(x, Elements') =
            Times(x, Elements) + (IF x = NULL THEN 1 ELSE 0) - (IF x = old THEN 1 ELSE 0)
    <3> TAKE x \in Element
    <3>1. Times(x, Without(Elements, k)) = Times(x, Elements) - (IF x = Elements[k] THEN 1 ELSE 0)
        BY <2>2, <2>5, TimesWithout
    <3>2. x # NULL /\ Times(x, Elements) \in Nat
        BY <2>2, TimesNat DEF ListsAssumption, Element
    <3> QED
        BY <2>5, <3>1, <3>2
  <2>7. held /\ use # "none" /\ use \notin {"overrun", "corrupt"}
      BY <2>2 DEF Shaped
  <2> QED
      BY <2>1, <2>3, <2>4, <2>5, <2>6, <2>7, HeldCounted
<1> QED
    BY <1>1, <1>2 DEF Typed

\* What an assignment does to them.
LEMMA PutElements ==
    ASSUME IInv, NEW i \in Int, NEW x \in Element, COList_SetItem(i, x), 0 <= i, i < size
    PROVE  /\ items' \in Seq(Cell) /\ Len(items') = Len(items) /\ size' = size
           /\ i + 1 \in 1..size /\ Elements[i + 1] = items[i + 1]
           /\ Elements' = [Elements EXCEPT ![i + 1] = x]
           /\ \A j \in 1..size : items'[j] \in Element
           /\ Counted(x, items[i + 1])
           /\ result' = <<"ok", NULL>>
           /\ UNCHANGED <<held, index, use>>
<1> USE DEF IInv
<1>1. size \in Nat /\ Len(items) \in Nat /\ size <= Len(items) /\ i + 1 \in 1..size
    BY LenProperties DEF Typed, CellsValid
<1>2. /\ items' = [items EXCEPT ![i + 1] = x] /\ Counted(x, items[i + 1])
      /\ result' = <<"ok", NULL>> /\ UNCHANGED <<size, held, index, use>>
  <2>1. ~ i >= size /\ ~ i < 0
      BY <1>1
  <2> QED
      BY <2>1 DEF COList_SetItem
<1>3. x \in Cell /\ i + 1 \in 1..Len(items) /\ items \in Seq(Cell)
    BY <1>1 DEF Cell, Typed
<1>4. /\ items' \in Seq(Cell) /\ Len(items') = Len(items)
      /\ \A j \in 1..Len(items) : items'[j] = IF j = i + 1 THEN x ELSE items[j]
    BY <1>2, <1>3, ExceptSeq
<1>5. /\ Elements \in Seq(Element) /\ Len(Elements) = size
      /\ \A j \in 1..size : Elements[j] = items[j]
    BY ElementsSeq
<1> DEFINE t == [Elements EXCEPT ![i + 1] = x]
<1>6. /\ t \in Seq(Element) /\ Len(t) = size
      /\ \A j \in 1..size : t[j] = IF j = i + 1 THEN x ELSE Elements[j]
    BY <1>1, <1>5, ExceptSeq
<1> HIDE DEF t
<1>7. \A j \in 1..size : items'[j] = t[j] /\ t[j] \in Element
    BY <1>1, <1>4, <1>5, <1>6, ElementOfSeq
<1>8. SubSeq(items', 1, size) = t
    BY <1>6, <1>7, PrefixIs
<1> QED
    BY <1>1, <1>2, <1>4, <1>5, <1>7, <1>8 DEF Elements, t

LEMMA SetItemInv ==
    ASSUME ListsAssumption, IInv, NEW i \in Int, NEW x \in Element, COList_SetItem(i, x)
    PROVE  IInv'
<1> USE DEF IInv
<1>1. CASE i >= size
    BY <1>1, SameListInv DEF COList_SetItem, Failed
<1>2. CASE i < size /\ i < 0
  <2>1. Corrupt("corrupt")
      BY <1>2 DEF COList_SetItem, Typed
  <2> QED
      BY <2>1, CorruptInv
<1>3. CASE 0 <= i /\ i < size
  <2>1. /\ items' \in Seq(Cell) /\ Len(items') = Len(items) /\ size' = size
        /\ i + 1 \in 1..size /\ Elements[i + 1] = items[i + 1]
        /\ Elements' = [Elements EXCEPT ![i + 1] = x]
        /\ \A j \in 1..size : items'[j] \in Element
        /\ Counted(x, items[i + 1]) /\ UNCHANGED <<held, index, use>>
      BY <1>3, PutElements
  <2>2. /\ Elements \in Seq(Element) /\ Len(Elements) = size /\ use = "literal" /\ held
      BY ElementsSeq DEF COList_SetItem
  <2>3. Typed' /\ Shaped'
      BY <2>1, <2>2 DEF Typed, Shaped, Counted
  <2>4. CellsValid'
      BY <2>1, <2>2 DEF CellsValid
  <2> DEFINE old == items[i + 1]
  <2>5. Counted(x, old) /\ Elements[i + 1] = old
      BY <2>1
  <2> HIDE DEF old
  <2>6. \A y \in Element : Times(y, Elements') =
            Times(y, Elements) + (IF y = x THEN 1 ELSE 0) - (IF y = old THEN 1 ELSE 0)
    <3> TAKE y \in Element
    <3> DEFINE k == i + 1
    <3>1. k \in 1..Len(Elements) /\ Elements \in Seq(Element)
        BY <2>1, <2>2
    <3> HIDE DEF k
    <3>2. Times(y, [Elements EXCEPT ![k] = x]) =
              Times(y, Elements) + (IF y = x THEN 1 ELSE 0) - (IF y = Elements[k] THEN 1 ELSE 0)
        BY <3>1, TimesExcept
    <3> QED
        BY <2>1, <2>5, <3>2 DEF k
  <2>7. held /\ use # "none" /\ use \notin {"overrun", "corrupt"}
      BY <2>2
  <2>8. UNCHANGED <<held, index, use>>
      BY <2>1
  <2> QED
      BY <2>3, <2>4, <2>5, <2>6, <2>7, <2>8, HeldCounted
<1> QED
    BY <1>1, <1>2, <1>3 DEF Typed

\* A list nobody else refers to is gone with its last reference; any other stays.
LEMMA ReleaseInv ==
    ASSUME ListsAssumption, IInv, Release, use # "none",
           use \notin {"overrun", "corrupt"},
           \/ held' = held /\ index # -1 /\ index' = -1
           \/ index' = index /\ held = TRUE /\ held' = FALSE
    PROVE  /\ IInv'
           /\ (held' \/ index' # -1) => UNCHANGED <<items, size, use>>
<1> USE DEF IInv
<1>1. /\ Elements \in Seq(Element) /\ Times(SELF, Elements) \in Nat
      /\ \A x \in Item : Times(x, Elements) \in Nat
    BY ElementsSeq, TimesNat
<1>2. /\ count = (IF held THEN 1 ELSE 0) + (IF index # -1 THEN 1 ELSE 0) + Times(SELF, Elements)
      /\ \A x \in Item : refs[x] = Times(x, Elements)
      /\ count # 0 /\ count' = count - 1
    BY DEF RefsExact, Release
<1>3. count' = (IF held' THEN 1 ELSE 0) + (IF index' # -1 THEN 1 ELSE 0) + Times(SELF, Elements)
    BY <1>1, <1>2 DEF Typed
<1>4. /\ held' \in BOOLEAN /\ index' \in Int /\ index' >= -1 /\ index' <= index
      /\ size \in Nat /\ Len(items) \in Nat
  <2>1. held' \in BOOLEAN
      BY DEF Typed
  <2>2. index' \in Int /\ index' >= -1 /\ index' <= index
      BY DEF Typed
  <2> QED
      BY <2>1, <2>2, LenProperties DEF Typed
<1>5. use = "queue" => count = 1
  <2>1. ASSUME use = "queue"
        PROVE  Times(SELF, Elements) = 0
    <3>1. At(SELF, Elements) = {}
        BY <2>1, ElementsSeq DEF At, Shaped, ListsAssumption
    <3> QED
        BY <1>1, <3>1, TimesNat, FS_EmptySet
  <2> QED
      BY <1>2, <2>1 DEF Shaped
<1>6. CASE count = 1
  <2>1. ~held' /\ index' = -1 /\ Times(SELF, Elements) = 0
      BY <1>1, <1>2, <1>3, <1>6 DEF Typed
  <2>2. /\ items' = <<>> /\ size' = 0 /\ use' = "none"
        /\ \A x \in Item : refs'[x] = 0
        /\ refs' \in [Item -> Int]
    <3>1. /\ items' = <<>> /\ size' = 0 /\ use' = "none"
          /\ refs' = [x \in Item |-> refs[x] - Times(x, Elements)]
        BY <1>6 DEF Release, Dealloc
    <3>2. \A x \in Item : refs[x] - Times(x, Elements) = 0
        BY <1>1, <1>2
    <3> QED
        BY <3>1, <3>2
  <2>3. /\ items' \in Seq(Cell) /\ Len(items') = 0
      BY <2>2, EmptySeq
  <2>4. Typed'
      BY <1>2, <1>4, <1>6, <2>1, <2>2, <2>3 DEF Typed
  <2>5. Shaped' /\ CellsValid'
      BY <2>1, <2>2, <2>3 DEF Shaped, CellsValid
  <2>6. \A x : Times(x, Elements)' = 0
    <3>1. Elements' = <<>>
        BY <2>2, SubSeqEmpty DEF Elements
    <3> QED
        BY <2>3, <2>2, <3>1, TimesNat
  <2> QED
      BY <1>2, <1>6, <2>1, <2>2, <2>4, <2>5, <2>6 DEF RefsExact
<1>7. CASE count # 1
  <2>1. UNCHANGED <<refs, items, size, use>>
      BY <1>7 DEF Release
  <2>2. Typed' /\ CellsValid' /\ Elements' = Elements
      BY <1>2, <1>4, <2>1 DEF Typed, CellsValid, Elements
  <2>3. Shaped'
      BY <1>4, <1>5, <1>7, <2>1 DEF Shaped
  <2> QED
      BY <1>2, <1>3, <1>7, <2>1, <2>2, <2>3 DEF RefsExact, Typed
<1> QED
    BY <1>6, <1>7

LEMMA IterInv ==
    ASSUME IInv, list_iter
    PROVE  IInv'
<1> USE DEF IInv
<1>1. Typed' /\ Shaped' /\ CellsValid' /\ Elements' = Elements
    BY DEF list_iter, Typed, Shaped, CellsValid, Elements
<1>2. Times(SELF, Elements) \in Nat
    BY ElementsSeq, TimesNat
<1> QED
    BY <1>1, <1>2 DEF list_iter, RefsExact, Typed

LEMMA IteratorInv ==
    ASSUME ListsAssumption, IInv, listiter_next
    PROVE  IInv'
<1>1. CASE index < size
  <2>1. /\ index' = index + 1 /\ index # -1 /\ use = "literal"
        /\ UNCHANGED <<items, size, count, refs, use, held>>
      BY <1>1 DEF listiter_next
  <2> QED
      BY <1>1, <2>1 DEF IInv, Typed, Shaped, CellsValid, RefsExact, Elements
<1>2. CASE ~ index < size
  <2>1. Release /\ index # -1 /\ index' = -1 /\ held' = held /\ use = "literal"
      BY <1>2 DEF listiter_next
  <2> QED
      BY <2>1, ReleaseInv
<1> QED
    BY <1>1, <1>2

LEMMA DropInv ==
    ASSUME ListsAssumption, IInv, Drop
    PROVE  IInv'
<1>1. Release /\ index' = index /\ held = TRUE /\ held' = FALSE /\ use \in {"literal", "queue"}
    BY DEF Drop, IInv, Typed
<1> QED
    BY <1>1, ReleaseInv

\* Nothing but its own cells refers to a list that is cleared, so it is freed.
LEMMA ClearInv ==
    ASSUME IInv, list_clear
    PROVE  IInv' /\ use' = "none"
<1> USE DEF IInv
<1>1. /\ Elements \in Seq(Element) /\ Times(SELF, Elements) \in Nat
      /\ \A x \in Item : Times(x, Elements) \in Nat
    BY ElementsSeq, TimesNat
<1>2. /\ count' = 0 /\ items' = <<>> /\ size' = 0 /\ use' = "none" /\ ~held' /\ index' = -1
      /\ held' = held
  <2>1. count = Times(SELF, Elements)
      BY <1>1 DEF list_clear, RefsExact
  <2>2. count' = 0
      BY <1>1, <2>1 DEF list_clear
  <2> QED
      BY <2>2 DEF list_clear
<1>3. \A x \in Item : refs[x] - Times(x, Elements) = 0
    BY <1>1 DEF list_clear, RefsExact
<1>4. refs' \in [Item -> Int] /\ \A x \in Item : refs'[x] = 0
    BY <1>3 DEF list_clear
<1>5. items' \in Seq(Cell) /\ Len(items') = 0
    BY <1>2, EmptySeq
<1>6. Typed' /\ Shaped' /\ CellsValid'
  <2>1. Typed'
      BY <1>2, <1>4, <1>5 DEF Typed
  <2> QED
      BY <1>2, <1>5, <2>1 DEF Shaped, CellsValid
<1>7. \A x : Times(x, Elements)' = 0
  <2>1. Elements' = <<>>
      BY <1>2, SubSeqEmpty DEF Elements
  <2> QED
      BY <1>2, <1>5, <2>1, TimesNat
<1> QED
    BY <1>2, <1>4, <1>6, <1>7 DEF RefsExact

LEMMA NextInv == ListsAssumption /\ IInv /\ [Next]_vars => IInv'
<1> SUFFICES ASSUME ListsAssumption, IInv, [Next]_vars
             PROVE  IInv'
    OBVIOUS
<1>1. ASSUME NEW xs \in Literals, BuildList(xs) PROVE IInv'
    BY <1>1, BuildListInv
<1>2. CASE COList_New
    BY <1>2, NewInv
<1>3. ASSUME NEW x \in Item, COList_Append(x) PROVE IInv'
    BY <1>3, AppendInv
<1>4. CASE COList_GetItem(0)
    BY <1>4, SameListInv DEF COList_GetItem, Failed
<1>5. ASSUME NEW i \in {-1, 0, size}, COList_DelItem(i) PROVE IInv'
  <2>1. i \in Int
      BY DEF IInv, Typed
  <2> QED
      BY <1>5, <2>1, DelItemInv
<1>6. ASSUME NEW i \in -1 - MaxLiteral .. MaxLiteral, list_subscript(i) PROVE IInv'
    BY <1>6, SameListInv DEF list_subscript, Failed
<1>7. ASSUME NEW i \in -1 - MaxLiteral .. MaxLiteral, NEW x \in Element, COList_SetItem(i, x)
      PROVE  IInv'
  <2>1. i \in Int
      BY DEF ListsAssumption
  <2> QED
      BY <1>7, <2>1, SetItemInv
<1>8. CASE list_iter
    BY <1>8, IterInv
<1>9. CASE listiter_next
    BY <1>9, IteratorInv
<1>10. CASE listiter_dealloc
    BY <1>10, CorruptInv DEF listiter_dealloc
<1>11. CASE Drop
    BY <1>11, DropInv
<1>12. CASE list_clear
    BY <1>12, ClearInv
<1>13. CASE UNCHANGED vars
    BY <1>13, SameListInv DEF vars
<1> QED
    BY <1>1, <1>2, <1>3, <1>4, <1>5, <1>6, <1>7, <1>8, <1>9, <1>10, <1>11, <1>12, <1>13 DEF Next

LEMMA Invariance ==
    ASSUME ListsAssumption
    PROVE  Spec => []IInv
<1>1. IInv /\ [Next]_vars => IInv'
    BY NextInv
<1> QED
    BY <1>1, InitInv, PTL DEF Spec

\* However long a queue grows and whatever is deleted from it, no append writes past the
\* cells and no cell below co_size holds what realloc left there.
THEOREM CellsAreValid ==
    ASSUME ListsAssumption
    PROVE  Spec => []CellsValid
<1>1. IInv => CellsValid
    BY DEF IInv
<1> QED
    BY <1>1, Invariance, PTL

\* The counts of a list, and those it gives its elements, are exact for literals and queues
\* of any length, for lists that contain themselves too.
THEOREM RefsAreExact ==
    ASSUME ListsAssumption
    PROVE  Spec => []RefsExact
<1>1. IInv => RefsExact
    BY DEF IInv
<1> QED
    BY <1>1, Invariance, PTL

-----------------------------------------------------------------------------
(* A list is a sequence *)

\* What module List calls elems.
Seen == IF held \/ index # -1 THEN Elements ELSE <<>>

Follows == AbstractList!Next \/ UNCHANGED <<Seen, held, index, result>>

LEMMA SeenSeq ==
    ASSUME IInv, held \/ index # -1
    PROVE  /\ Seen = Elements /\ Seen \in Seq(Element) /\ Len(Seen) = size
           /\ DOMAIN Seen = 1..size /\ \A i \in 1..size : Seen[i] = items[i]
<1>1. /\ Elements \in Seq(Element) /\ Len(Elements) = size
      /\ \A i \in 1..size : Elements[i] = items[i]
    BY ElementsSeq DEF IInv
<1> QED
    BY <1>1, LenProperties DEF Seen

LEMMA MakeMaps ==
    ASSUME ListsAssumption, IInv, NEW xs \in Literals, BuildList(xs)
    PROVE  Follows
<1>1. PICK n \in 0..MaxLiteral : xs \in [1..n -> Item]
    BY DEF Literals
<1>2. xs \in Seq(Item)
    BY <1>1, SeqDef DEF ListsAssumption
<1>3. Elements' = xs
    BY <1>2, SubSeqFull DEF BuildList, Elements
<1>4. ~held /\ index = -1 /\ held' = TRUE /\ Seen' = xs
    BY <1>3 DEF BuildList, IInv, Shaped, Seen
<1>5. AbstractList!Make(xs)
    BY <1>3, <1>4 DEF BuildList, AbstractList!Make
<1> QED
    BY <1>5 DEF Follows, AbstractList!Next

LEMMA NewMaps ==
    ASSUME ListsAssumption, IInv, COList_New
    PROVE  Follows
<1>1. ~held /\ index = -1 /\ held' = TRUE /\ items' = <<>> /\ size' = size
    BY DEF COList_New, IInv, Shaped
<1>2. size = 0
    BY <1>1, EmptySeq DEF IInv, Typed, CellsValid, Shaped, COList_New
<1>3. Elements' = <<>>
    BY <1>1, <1>2, SubSeqEmpty DEF Elements
<1>4. <<>> \in Literals
  <2>1. <<>> \in [1..0 -> Item] /\ 0 \in 0..MaxLiteral
      BY DEF ListsAssumption
  <2> QED
      BY <2>1 DEF Literals
<1>5. AbstractList!Make(<<>>)
    BY <1>1, <1>3 DEF COList_New, AbstractList!Make
<1> QED
    BY <1>4, <1>5 DEF Follows, AbstractList!Next

LEMMA AppendMaps ==
    ASSUME IInv, NEW x \in Item, COList_Append(x)
    PROVE  Follows
<1>1. /\ Elements' = Append(Elements, x) /\ result' = <<"ok", NULL>>
      /\ UNCHANGED <<held, index>>
    BY AppendElements
<1>2. held
    BY DEF COList_Append, COList_Insert, IInv, Shaped
<1>3. AbstractList!Extend(x)
    BY <1>1, <1>2 DEF AbstractList!Extend
<1>4. x \in Element
    BY DEF Element
<1> QED
    BY <1>3, <1>4 DEF Follows, AbstractList!Next

LEMMA FailMaps ==
    ASSUME IInv, held, NEW status \in {"IndexError", "fail"}, Failed(status)
    PROVE  Follows
<1>1. UNCHANGED <<items, size, held, index>> /\ result' = <<status, NULL>>
    BY DEF Failed
<1>2. Elements' = Elements
    BY <1>1 DEF Elements
<1>3. AbstractList!Fail
    BY <1>1, <1>2 DEF AbstractList!Fail
<1> QED
    BY <1>3 DEF Follows, AbstractList!Next

\* Reading the element of cell k.
LEMMA GetMaps ==
    ASSUME IInv, held, NEW k \in 1..size, result' = <<"ok", items[k]>>,
           UNCHANGED <<items, size, held, index>>
    PROVE  Follows
<1>1. k \in DOMAIN Seen /\ Seen[k] = items[k]
    BY SeenSeq
<1>2. Elements' = Elements
    BY DEF Elements
<1>3. AbstractList!Get(k)
    BY <1>1, <1>2 DEF AbstractList!Get, Seen
<1> QED
    BY <1>1, <1>3 DEF Follows, AbstractList!Next, Seen

LEMMA DelItemMaps ==
    ASSUME IInv, NEW i \in Int, COList_DelItem(i)
    PROVE  Follows
<1>1. held /\ use = "queue" /\ size \in Nat
    BY DEF COList_DelItem, IInv, Shaped, Typed
<1>2. CASE i < 0 \/ i >= size
    BY <1>1, <1>2, FailMaps DEF COList_DelItem
<1>3. CASE 0 <= i /\ i < size
  <2> DEFINE k == i + 1
  <2>1. /\ k \in 1..size /\ Elements' = Without(Elements, k) /\ result' = <<"ok", NULL>>
        /\ UNCHANGED <<held, index>>
      BY <1>3, DeleteElements
  <2> HIDE DEF k
  <2>2. k \in DOMAIN Seen
      BY <1>1, <2>1, SeenSeq
  <2>3. AbstractList!Remove(k)
      BY <1>1, <2>1 DEF AbstractList!Remove, Without
  <2> QED
      BY <2>2, <2>3 DEF Follows, AbstractList!Next, Seen
<1> QED
    BY <1>1, <1>2, <1>3

\* A cell before the first can be written: that is no change of the list.
LEMMA CorruptMaps == Corrupt("corrupt") => Follows
BY DEF Corrupt, Follows, Seen, Elements

LEMMA SetItemMaps ==
    ASSUME IInv, NEW i \in Int, NEW x \in Element, COList_SetItem(i, x)
    PROVE  Follows
<1>1. held /\ use = "literal" /\ size \in Nat
    BY DEF COList_SetItem, IInv, Typed
<1>2. CASE i >= size
    BY <1>1, <1>2, FailMaps DEF COList_SetItem
<1>3. CASE ~ i >= size /\ i < 0
    BY <1>3, CorruptMaps DEF COList_SetItem
<1>4. CASE 0 <= i /\ i < size
  <2> DEFINE k == i + 1
  <2>1. /\ k \in 1..size /\ Elements' = [Elements EXCEPT ![k] = x] /\ result' = <<"ok", NULL>>
        /\ UNCHANGED <<held, index>>
      BY <1>4, PutElements
  <2> HIDE DEF k
  <2>2. k \in DOMAIN Seen
      BY <1>1, <2>1, SeenSeq
  <2>3. AbstractList!Put(k, x)
      BY <1>1, <2>1 DEF AbstractList!Put
  <2> QED
      BY <2>2, <2>3 DEF Follows, AbstractList!Next, Seen
<1> QED
    BY <1>1, <1>2, <1>3, <1>4

LEMMA SubscriptMaps ==
    ASSUME IInv, NEW i \in Int, list_subscript(i)
    PROVE  Follows
<1> DEFINE at == IF i < 0 THEN i + size ELSE i
<1>1. held /\ size \in Nat /\ at \in Int
    BY DEF list_subscript, IInv, Typed
<1>2. CASE at < 0 \/ at >= size
    BY <1>1, <1>2, FailMaps DEF list_subscript
<1>3. CASE ~ (at < 0 \/ at >= size)
  <2>1. result' = <<"ok", items[at + 1]>> /\ UNCHANGED <<items, size, held, index>>
      BY <1>3 DEF list_subscript
  <2> HIDE DEF at
  <2>2. at + 1 \in 1..size
      BY <1>1, <1>3
  <2> QED
      BY <1>1, <2>1, <2>2, GetMaps
<1> QED
    BY <1>2, <1>3

LEMMA LoopMaps ==
    ASSUME IInv, list_iter
    PROVE  Follows
<1>1. /\ held /\ index = -1 /\ index' = 0 /\ held' = held /\ result' = result
      /\ Elements' = Elements
    BY DEF list_iter, Elements
<1>2. AbstractList!Loop
    BY <1>1 DEF AbstractList!Loop
<1> QED
    BY <1>2 DEF Follows, AbstractList!Next

\* The element a loop is at, or its end: a loop over a literal never stands past it.
LEMMA IteratorMaps ==
    ASSUME ListsAssumption, IInv, listiter_next
    PROVE  Follows
<1>1. index \in Int /\ index >= -1 /\ index # -1 /\ size \in Nat /\ use = "literal" /\ held' = held
    BY DEF listiter_next, IInv, Typed
<1>2. /\ Seen = Elements /\ DOMAIN Seen = 1..size /\ Len(Seen) = size
      /\ \A i \in 1..size : Seen[i] = items[i]
    BY <1>1, SeenSeq
<1>3. CASE index < size
  <2>1. result' = <<"ok", items[index + 1]>> /\ index' = index + 1 /\ UNCHANGED <<items, size>>
      BY <1>3 DEF listiter_next
  <2>2. index + 1 \in 1..size /\ Elements' = Elements /\ index' # -1
      BY <1>1, <1>3, <2>1 DEF Elements
  <2>3. AbstractList!Each
      BY <1>1, <1>2, <2>1, <2>2 DEF AbstractList!Each, Seen
  <2> QED
      BY <2>3 DEF Follows, AbstractList!Next
<1>4. CASE ~ index < size
  <2>1. Release /\ index' = -1 /\ result' = <<"end", NULL>>
      BY <1>4 DEF listiter_next
  <2>2. held' \/ index' # -1 => UNCHANGED <<items, size, use>>
      BY <1>1, <2>1, ReleaseInv
  <2>3. index = size
      BY <1>1, <1>4 DEF IInv, Shaped
  <2>4. held => Elements' = Elements
      BY <1>1, <2>2 DEF Elements
  <2>5. AbstractList!Done
      BY <1>1, <1>2, <2>1, <2>3, <2>4 DEF AbstractList!Done, Seen
  <2> QED
      BY <2>5 DEF Follows, AbstractList!Next
<1> QED
    BY <1>3, <1>4

LEMMA DropMaps ==
    ASSUME ListsAssumption, IInv, Drop
    PROVE  Follows
<1>1. /\ Release /\ index' = index /\ held = TRUE /\ held' = FALSE /\ use \in {"literal", "queue"}
      /\ result' = result /\ index \in Int
    BY DEF Drop, IInv, Typed
<1>2. held' \/ index' # -1 => UNCHANGED <<items, size, use>>
    BY <1>1, ReleaseInv
<1>3. index # -1 => Elements' = Elements
    BY <1>1, <1>2 DEF Elements
<1>4. AbstractList!Release
    BY <1>1, <1>3 DEF AbstractList!Release
<1> QED
    BY <1>4 DEF Follows, AbstractList!Next

LEMMA StepMaps ==
    ASSUME ListsAssumption, IInv, [Next]_vars
    PROVE  Follows
<1>1. ASSUME NEW xs \in Literals, BuildList(xs) PROVE Follows
    BY <1>1, MakeMaps
<1>2. CASE COList_New
    BY <1>2, NewMaps
<1>3. ASSUME NEW x \in Item, COList_Append(x) PROVE Follows
    BY <1>3, AppendMaps
<1>4. CASE COList_GetItem(0)
  <2>1. held /\ size \in Nat
      BY <1>4 DEF COList_GetItem, IInv, Shaped, Typed
  <2>2. CASE 0 >= size
      BY <1>4, <2>1, <2>2, FailMaps DEF COList_GetItem
  <2>3. CASE ~ 0 >= size
    <3>1. 1 \in 1..size /\ result' = <<"ok", items[1]>> /\ UNCHANGED <<items, size, held, index>>
        BY <1>4, <2>1, <2>3 DEF COList_GetItem
    <3> QED
        BY <2>1, <3>1, GetMaps
  <2> QED
      BY <2>2, <2>3
<1>5. ASSUME NEW i \in {-1, 0, size}, COList_DelItem(i) PROVE Follows
  <2>1. i \in Int
      BY DEF IInv, Typed
  <2> QED
      BY <1>5, <2>1, DelItemMaps
<1>6. ASSUME NEW i \in -1 - MaxLiteral .. MaxLiteral PROVE i \in Int
    BY <1>6 DEF ListsAssumption
<1>7. ASSUME NEW i \in -1 - MaxLiteral .. MaxLiteral, list_subscript(i) PROVE Follows
    BY <1>6, <1>7, SubscriptMaps
<1>8. ASSUME NEW i \in -1 - MaxLiteral .. MaxLiteral, NEW x \in Element, COList_SetItem(i, x)
      PROVE  Follows
    BY <1>6, <1>8, SetItemMaps
<1>9. CASE list_iter
    BY <1>9, LoopMaps
<1>10. CASE listiter_next
    BY <1>10, IteratorMaps
<1>11. CASE listiter_dealloc
    BY <1>11, CorruptMaps DEF listiter_dealloc
<1>12. CASE Drop
    BY <1>12, DropMaps
<1>13. CASE list_clear
    BY <1>13 DEF list_clear, Follows, Seen
<1>14. CASE UNCHANGED vars
    BY <1>14 DEF vars, Follows, Seen, Elements
<1> QED
    BY <1>1, <1>2, <1>3, <1>4, <1>5, <1>7, <1>8, <1>9, <1>10, <1>11, <1>12, <1>13, <1>14 DEF Next

\* The operations of a list are those of a sequence: a loop visits each element there is when
\* it gets to it, and what is stored, appended or deleted is what is read afterwards.
THEOREM ListImplemented ==
    ASSUME ListsAssumption
    PROVE  Spec => ImplementsList
<1>1. Init => AbstractList!Init
    BY DEF Init, AbstractList!Init
<1>2. IInv /\ [Next]_vars => [AbstractList!Next]_(AbstractList!vars)
  <2> SUFFICES ASSUME IInv, [Next]_vars, ~ AbstractList!Next
               PROVE  UNCHANGED AbstractList!vars
      OBVIOUS
  <2>1. UNCHANGED <<Seen, held, index, result>>
      BY StepMaps DEF Follows
  <2> QED
      BY <2>1 DEF AbstractList!vars, Seen
<1> QED
    BY <1>1, <1>2, Invariance, PTL DEF Spec, ImplementsList, AbstractList!Spec

=============================================================================
