----------------------------- MODULE IntsProofs -----------------------------
(***************************************************************************)
(* Proofs about module Ints, whatever the operands, the size of a digit    *)
(* and that of a long: integers are always in normal form, and a division  *)
(* of several digits finds the digits of the quotient.                     *)
(*                                                                         *)
(* Why normal: int_normalize leaves no leading zero, so what has to be     *)
(* shown is that what it is given are digits: that no loop over the digits *)
(* of a number leaves more in a place than a digit holds.  Each such loop  *)
(* is a function on the places of the number (Iteration, Descent say that  *)
(* it exists), and each has its own reason: a carry of 0 or 1, a row of a  *)
(* product that ends where z is still zero (AddRowFits), a remainder below *)
(* the divisor (BelowIs), fewer than SHIFT bits in the accumulator         *)
(* (ReadBitsIs), a group of decimal digits that fits in a digit            *)
(* (ConvwidthIs).                                                          *)
(*                                                                         *)
(* Why the estimates are close: ValueOf gives digits their number, and a   *)
(* loop that hands a carry on keeps it (CarriesKept).  Between two steps   *)
(* the highest digits of v, the remainder, are below the divisor           *)
(* (Dividing).  So the next digit of the quotient is a digit               *)
(* (DigitDueIs), and Knuth's argument applies: the quotient of the highest *)
(* digits is not too small (EstimateEnough), at most 2 too large           *)
(* (EstimateHigh), and after the test 1 at most (CorrectLow, AcceptHigh);  *)
(* the step that subtracts leaves a remainder below the divisor            *)
(* (SubtractIs).                                                           *)
(*                                                                         *)
(* Why the asserts hold: those of x_divrem bound an estimate that is       *)
(* close.  Those of the conversions say that what is written fits in what  *)
(* was allocated: the loops keep the number the digits stand for (Worth,   *)
(* MultipliedIs) and leave no leading zeros, so a number of g places is at *)
(* least the weight of the highest (WorthAbove), and the digits converted  *)
(* are too few for a number above that (DecimalRoom, ReprRoom).            *)
(***************************************************************************)
EXTENDS Ints, SequenceTheorems, FiniteSetTheorems, FunctionTheorems,
        WellFoundedInduction, TLAPS

-----------------------------------------------------------------------------
(* Numbers *)

\* Induction, for a set: what the library says of operators the provers cannot use.
Less == {p \in Nat \X Nat : p[1] < p[2]}

LEMMA LessWellFounded == IsWellFoundedOn(Less, Nat)
<1>1. OpToRel(<, Nat) = Less
    BY DEF OpToRel, Less
<1> QED
    BY <1>1, NatLessThanWellFounded

\* Every set of numbers has a least one.
LEMMA Least ==
    ASSUME NEW S \in SUBSET Nat, S # {}
    PROVE  \E x \in S : \A y \in S : x <= y
<1>1. PICK x \in S : \A y \in S : ~ (<<y, x>> \in Less)
    BY LessWellFounded, WFMin
<1>2. ASSUME NEW y \in S
      PROVE  x <= y
  <2>1. <<y, x>> \in Nat \X Nat /\ ~ (<<y, x>> \in Less)
      BY <1>1
  <2>2. ~ (y < x)
      BY <2>1 DEF Less
  <2> QED
      BY <2>2
<1> QED
    BY <1>2

\* Induction over the numbers, and over an interval, upwards and downwards
LEMMA Induction ==
    ASSUME NEW S, 0 \in S, \A n \in Nat : n \in S => n + 1 \in S
    PROVE  \A n \in Nat : n \in S
<1> SUFFICES ASSUME Nat \ S # {}
             PROVE  FALSE
    OBVIOUS
<1>1. PICK x \in Nat \ S : \A y \in Nat \ S : x <= y
    BY Least
<1>2. x - 1 \in Nat /\ x - 1 \in S
    BY <1>1
<1> QED
    BY <1>2

LEMMA Up ==
    ASSUME NEW S, NEW a \in Int, NEW b \in Int, a <= b,
           a \in S, \A n \in a..b - 1 : n \in S => n + 1 \in S
    PROVE  \A n \in a..b : n \in S
<1> DEFINE T == {k \in Nat : a + k <= b => a + k \in S}
<1>1. 0 \in T
    OBVIOUS
<1>2. \A k \in Nat : k \in T => k + 1 \in T
    OBVIOUS
<1> HIDE DEF T
<1>3. \A k \in Nat : k \in T
    BY <1>1, <1>2, Induction
<1>4. \A n \in a..b : n - a \in Nat /\ a + (n - a) = n
    OBVIOUS
<1> QED
    BY <1>3, <1>4 DEF T

\* Division and remainder
LEMMA Division ==
    ASSUME NEW a \in Int, NEW n \in Nat \ {0}
    PROVE  a % n \in 0..n - 1 /\ a \div n \in Int /\ a = n * (a \div n) + (a % n)
OBVIOUS

LEMMA Quotient ==
    ASSUME NEW a \in Int, NEW n \in Nat \ {0}, NEW k \in Int, NEW rem \in Int, 0 <= rem, rem < n, a = n * k + rem
    PROVE  a % n = rem /\ a \div n = k
OBVIOUS

LEMMA Monotone ==
    ASSUME NEW n \in Nat, NEW i \in Int, NEW j \in Int, i <= j
    PROVE  n * i <= n * j
OBVIOUS

\* How many multiples of s there are up to top
LEMMA Fitting ==
    ASSUME NEW s \in Nat \ {0}, NEW top \in Nat
    PROVE  /\ top \div s \in 0..top
           /\ \A i \in Nat : i <= top \div s <=> s * i <= top
<1> DEFINE k == top \div s
           rem == top % s
<1>1. k \in Int /\ rem \in 0..s - 1 /\ top = s * k + rem
    BY Division
<1> HIDE DEF k, rem
<1>2. k >= 0
  <2>1. CASE k < 0
    <3>1. s * k <= s * (-1)
        BY <2>1, <1>1, Monotone
    <3> QED
        BY <3>1, <1>1
  <2> QED
      BY <2>1, <1>1
<1>3. k <= top
  <2>1. 1 * k <= s * k
      BY <1>1, <1>2
  <2> QED
      BY <2>1, <1>1
<1>4. ASSUME NEW i \in Nat
      PROVE  i <= k <=> s * i <= top
  <2>1. CASE i <= k
      BY <2>1, <1>1, Monotone
  <2>2. CASE i > k
    <3>1. s * (k + 1) <= s * i
        BY <2>2, <1>1, Monotone
    <3>2. s * (k + 1) = s * k + s
        BY <1>1
    <3> QED
        BY <3>1, <3>2, <1>1, <2>2
  <2> QED
      BY <2>1, <2>2, <1>1
<1> QED
    BY <1>1, <1>2, <1>3, <1>4 DEF k

\* The subsets of 1..n are as many as 2^n.
LEMMA Powers ==
    ASSUME NEW n \in Nat
    PROVE  2^n \in Nat \ {0} /\ 2^(n + 1) = 2 * 2^n
<1> DEFINE S(k) == SUBSET (1..k)
           Longer == {x \cup {n + 1} : x \in S(n)}
<1>1. \A k \in Nat : IsFiniteSet(1..k) /\ Cardinality(1..k) = k
    BY FS_Interval
<1>2. \A k \in Nat : IsFiniteSet(S(k)) /\ Cardinality(S(k)) = 2^k
    BY <1>1, FS_SUBSET
<1>3. 2^n \in Nat \ {0}
  <2>1. {} \in S(n)
      OBVIOUS
  <2> QED
      BY <2>1, <1>2, FS_EmptySet, FS_CardinalityType
<1>4. S(n + 1) = S(n) \cup Longer
  <2>1. ASSUME NEW x \in S(n + 1), x \notin S(n)
        PROVE  x \in Longer
    <3>1. x \ {n + 1} \in S(n) /\ n + 1 \in x
        BY <2>1
    <3>2. x = (x \ {n + 1}) \cup {n + 1}
        BY <3>1
    <3> QED
        BY <3>1, <3>2
  <2>2. 1..n \subseteq 1..n + 1 /\ n + 1 \in 1..n + 1
      OBVIOUS
  <2> QED
      BY <2>1, <2>2
<1>5. S(n) \cap Longer = {}
  <2>1. n + 1 \notin 1..n
      OBVIOUS
  <2> QED
      BY <2>1
<1>6. IsFiniteSet(Longer) /\ Cardinality(Longer) = Cardinality(S(n))
  <2> DEFINE f == [x \in S(n) |-> x \cup {n + 1}]
  <2>1. f \in Bijection(S(n), Longer)
    <3>1. \A x, y \in S(n) : f[x] = f[y] => x = y
      <4> TAKE x, y \in S(n)
      <4>1. n + 1 \notin x /\ n + 1 \notin y
          OBVIOUS
      <4> QED
          BY <4>1
    <3>2. f \in [S(n) -> Longer]
        OBVIOUS
    <3>3. \A t \in Longer : \E x \in S(n) : f[x] = t
        OBVIOUS
    <3> HIDE DEF f, Longer, S
    <3> QED
        BY <3>1, <3>2, <3>3, Fun_IsBij
  <2> HIDE DEF f, Longer, S
  <2> QED
      BY <2>1, <1>2, FS_Bijection DEF ExistsBijection
<1> HIDE DEF S, Longer
<1>7. Cardinality(S(n + 1)) = Cardinality(S(n)) + Cardinality(Longer)
  <2>1. Cardinality({}) = 0
      BY FS_EmptySet
  <2>2. Cardinality(S(n) \cup Longer) = Cardinality(S(n)) + Cardinality(Longer) - Cardinality(S(n) \cap Longer)
      BY <1>2, <1>6, FS_Union
  <2>3. Cardinality(S(n)) \in Nat /\ Cardinality(Longer) \in Nat
      BY <1>2, <1>6, FS_CardinalityType
  <2>4. Cardinality(S(n + 1)) = Cardinality(S(n) \cup Longer)
      BY <1>4
  <2>5. Cardinality(S(n) \cap Longer) = 0
      BY <2>1, <1>5
  <2> QED
      BY <2>2, <2>3, <2>4, <2>5
<1> QED
    BY <1>2, <1>3, <1>6, <1>7

LEMMA Down ==
    ASSUME NEW S, NEW a \in Int, NEW b \in Int, a <= b,
           b \in S, \A n \in a + 1..b : n \in S => n - 1 \in S
    PROVE  \A n \in a..b : n \in S
<1> DEFINE T == {k \in Nat : a <= b - k => b - k \in S}
<1>1. 0 \in T
    OBVIOUS
<1>2. \A k \in Nat : k \in T => k + 1 \in T
  <2> TAKE k \in Nat
  <2> HAVE k \in T
  <2>1. ASSUME a <= b - (k + 1)
        PROVE  b - (k + 1) \in S
    <3>1. b - k \in a + 1..b /\ (b - k) - 1 = b - (k + 1)
        BY <2>1
    <3> QED
        BY <3>1, <2>1
  <2> QED
      BY <2>1
<1> HIDE DEF T
<1>3. \A k \in Nat : k \in T
    BY <1>1, <1>2, Induction
<1>4. ASSUME NEW n \in a..b
      PROVE  n \in S
  <2>1. b - n \in Nat /\ b - (b - n) = n
      OBVIOUS
  <2>2. b - n \in T
      BY <2>1, <1>3
  <2> QED
      BY <2>1, <2>2 DEF T
<1> QED
    BY <1>4

\* A bound on a quotient
LEMMA Under ==
    ASSUME NEW n \in Nat \ {0}, NEW x \in Nat, NEW k \in Nat, x < n * (k + 1)
    PROVE  x \div n \in 0..k
<1>1. x \div n \in 0..x /\ (k + 1 <= x \div n <=> n * (k + 1) <= x)
  <2>1. k + 1 \in Nat
      OBVIOUS
  <2> QED
      BY <2>1, Fitting
<1>2. n * (k + 1) \in Nat
    OBVIOUS
<1>3. ~ (n * (k + 1) <= x)
    BY <1>2
<1> QED
    BY <1>1, <1>3

\* Recursion: a function exists whose value at each argument follows from those of lower rank.
Steps(F, D, rank, V) ==
    /\ F \in [D -> [[D -> V] -> V]]
    /\ \A x \in D : \A g, h \in [D -> V] :
         (\A y \in D : rank[y] < rank[x] => g[y] = h[y]) => F[x][g] = F[x][h]

LEMMA Recursion ==
    ASSUME NEW D, NEW V, V # {}, NEW N \in Nat, NEW rank \in [D -> 0..N],
           NEW F, Steps(F, D, rank, V)
    PROVE  \E g \in [D -> V] : \A x \in D : g[x] = F[x][g]
<1> USE DEF Steps
<1> DEFINE Good(k, g) == \A x \in D : rank[x] < k => g[x] = F[x][g]
           S == {k \in Nat : \E g \in [D -> V] : Good(k, g)}
<1>1. 0 \in S
  <2>1. PICK c \in V : TRUE
      OBVIOUS
  <2>2. [x \in D |-> c] \in [D -> V] /\ \A x \in D : ~ (rank[x] < 0)
      OBVIOUS
  <2> QED
      BY <2>2
<1>2. ASSUME NEW k \in Nat, k \in S
      PROVE  k + 1 \in S
  <2>1. PICK g \in [D -> V] : Good(k, g)
      BY <1>2
  <2> DEFINE h == [x \in D |-> IF rank[x] <= k THEN F[x][g] ELSE g[x]]
  <2>2. h \in [D -> V]
      OBVIOUS
  <2>3. \A x \in D : rank[x] < k => h[x] = g[x]
      BY <2>1
  <2>4. \A x \in D : rank[x] <= k => h[x] = F[x][g]
      OBVIOUS
  <2> HIDE DEF h
  <2>5. ASSUME NEW x \in D, rank[x] < k + 1
        PROVE  h[x] = F[x][h]
    <3>1. rank[x] <= k
        BY <2>5
    <3>2. \A y \in D : rank[y] < rank[x] => g[y] = h[y]
        BY <3>1, <2>3
    <3>3. F[x][g] = F[x][h]
        BY <3>2, <2>2
    <3> QED
        BY <3>1, <3>3, <2>4
  <2>6. Good(k + 1, h)
      BY <2>5
  <2> HIDE DEF Good
  <2> QED
      BY <2>2, <2>6
<1> HIDE DEF S
<1>3. N + 1 \in S
    BY <1>1, <1>2, Induction
<1>4. PICK g \in [D -> V] : Good(N + 1, g)
    BY <1>3 DEF S
<1>5. \A x \in D : rank[x] < N + 1
    OBVIOUS
<1> QED
    BY <1>4, <1>5

\* The same where a value follows from the one before.
Maps(G, a, b, V) == G \in [a + 1..b -> [V -> V]]

Chained(f, a, b, c, G) == f = [i \in a..b |-> IF i = a THEN c ELSE G[i][f[i - 1]]]

LEMMA Iteration ==
    ASSUME NEW a \in Int, NEW b \in Int, NEW V, NEW c \in V, NEW G, Maps(G, a, b, V)
    PROVE  \E f : f \in [a..b -> V] /\ Chained(f, a, b, c, G)
<1> USE DEF Maps
<1> DEFINE D == a..b
           rank == [i \in D |-> i - a]
           F == [i \in D |-> [g \in [D -> V] |-> IF i = a THEN c ELSE G[i][g[i - 1]]]]
           N == IF a <= b THEN b - a ELSE 0
<1>1. N \in Nat /\ rank \in [D -> 0..N]
    OBVIOUS
<1>2. \A i \in D : i # a => i \in a + 1..b /\ i - 1 \in D
    OBVIOUS
<1>3. F \in [D -> [[D -> V] -> V]]
  <2>1. ASSUME NEW i \in D, NEW g \in [D -> V]
        PROVE  (IF i = a THEN c ELSE G[i][g[i - 1]]) \in V
      BY <1>2
  <2> QED
      BY <2>1
<1>4. \A i \in D : \A g \in [D -> V] : F[i][g] = IF i = a THEN c ELSE G[i][g[i - 1]]
    OBVIOUS
<1>5. \A i \in D : i # a => rank[i - 1] < rank[i]
    BY <1>2
<1> HIDE DEF F, rank
<1>6. ASSUME NEW i \in D, NEW g \in [D -> V], NEW h \in [D -> V],
             \A j \in D : rank[j] < rank[i] => g[j] = h[j]
      PROVE  F[i][g] = F[i][h]
  <2>1. CASE i = a
      BY <2>1, <1>4
  <2>2. CASE i # a
    <3>1. g[i - 1] = h[i - 1]
        BY <2>2, <1>2, <1>5, <1>6
    <3> QED
        BY <3>1, <2>2, <1>4
  <2> QED
      BY <2>1, <2>2
<1>7. Steps(F, D, rank, V)
    BY <1>3, <1>6 DEF Steps
<1> HIDE DEF N, D
<1>8. PICK f \in [D -> V] : \A i \in D : f[i] = F[i][f]
    BY <1>1, <1>7, Recursion
<1>9. f = [i \in D |-> F[i][f]]
    BY <1>8
<1>10. [i \in D |-> F[i][f]] = [i \in D |-> IF i = a THEN c ELSE G[i][f[i - 1]]]
    BY <1>4
<1> QED
    BY <1>8, <1>9, <1>10 DEF D, Chained

\* What such a function keeps: f[i] stays in V.
LEMMA Stays ==
    ASSUME NEW a \in Int, NEW b \in Int, a <= b, NEW V, NEW f, f[a] \in V,
           \A i \in a + 1..b : f[i - 1] \in V => f[i] \in V
    PROVE  \A i \in a..b : f[i] \in V
<1> DEFINE S == {i \in a..b : f[i] \in V}
<1>1. a \in S
    OBVIOUS
<1>2. ASSUME NEW i \in a..b - 1, i \in S
      PROVE  i + 1 \in S
  <2>1. i + 1 \in a + 1..b /\ i + 1 - 1 = i /\ i + 1 \in a..b
      OBVIOUS
  <2>2. f[i] \in V
      BY <1>2
  <2> QED
      BY <2>1, <2>2
<1> HIDE DEF S
<1>3. \A i \in a..b : i \in S
    BY <1>1, <1>2, Up
<1> QED
    BY <1>3 DEF S

\* ... or from the one after
Descends(G, a, b, V) == G \in [a..b - 1 -> [V -> V]]

Unwound(f, a, b, c, G) == f = [i \in a..b |-> IF i = b THEN c ELSE G[i][f[i + 1]]]

LEMMA Descent ==
    ASSUME NEW a \in Int, NEW b \in Int, NEW V, NEW c \in V, NEW G, Descends(G, a, b, V)
    PROVE  \E f : f \in [a..b -> V] /\ Unwound(f, a, b, c, G)
<1> USE DEF Descends
<1> DEFINE D == a..b
           rank == [i \in D |-> b - i]
           F == [i \in D |-> [g \in [D -> V] |-> IF i = b THEN c ELSE G[i][g[i + 1]]]]
           N == IF a <= b THEN b - a ELSE 0
<1>1. N \in Nat /\ rank \in [D -> 0..N]
    OBVIOUS
<1>2. \A i \in D : i # b => i \in a..b - 1 /\ i + 1 \in D
    OBVIOUS
<1>3. F \in [D -> [[D -> V] -> V]]
  <2>1. ASSUME NEW i \in D, NEW g \in [D -> V]
        PROVE  (IF i = b THEN c ELSE G[i][g[i + 1]]) \in V
      BY <1>2
  <2> QED
      BY <2>1
<1>4. \A i \in D : \A g \in [D -> V] : F[i][g] = IF i = b THEN c ELSE G[i][g[i + 1]]
    OBVIOUS
<1>5. \A i \in D : i # b => rank[i + 1] < rank[i]
    BY <1>2
<1> HIDE DEF F, rank
<1>6. ASSUME NEW i \in D, NEW g \in [D -> V], NEW h \in [D -> V],
             \A j \in D : rank[j] < rank[i] => g[j] = h[j]
      PROVE  F[i][g] = F[i][h]
  <2>1. CASE i = b
      BY <2>1, <1>4
  <2>2. CASE i # b
    <3>1. g[i + 1] = h[i + 1]
        BY <2>2, <1>2, <1>5, <1>6
    <3> QED
        BY <3>1, <2>2, <1>4
  <2> QED
      BY <2>1, <2>2
<1>7. Steps(F, D, rank, V)
    BY <1>3, <1>6 DEF Steps
<1> HIDE DEF N, D
<1>8. PICK f \in [D -> V] : \A i \in D : f[i] = F[i][f]
    BY <1>1, <1>7, Recursion
<1>9. f = [i \in D |-> F[i][f]]
    BY <1>8
<1>10. [i \in D |-> F[i][f]] = [i \in D |-> IF i = b THEN c ELSE G[i][f[i + 1]]]
    BY <1>4
<1> QED
    BY <1>8, <1>9, <1>10 DEF D, Unwound

LEMMA Remains ==
    ASSUME NEW a \in Int, NEW b \in Int, a <= b, NEW V, NEW f, f[b] \in V,
           \A i \in a..b - 1 : f[i + 1] \in V => f[i] \in V
    PROVE  \A i \in a..b : f[i] \in V
<1> DEFINE S == {i \in a..b : f[i] \in V}
<1>1. b \in S
    OBVIOUS
<1>2. ASSUME NEW i \in a + 1..b, i \in S
      PROVE  i - 1 \in S
  <2>1. i - 1 \in a..b - 1 /\ i - 1 + 1 = i /\ i - 1 \in a..b
      OBVIOUS
  <2>2. f[i] \in V
      BY <1>2
  <2> QED
      BY <2>1, <2>2
<1> HIDE DEF S
<1>3. \A i \in a..b : i \in S
    BY <1>1, <1>2, Down
<1> QED
    BY <1>3 DEF S

-----------------------------------------------------------------------------
(* Powers of two, digits and the normal form *)

\* Shifts add up; a digit holds SHIFT bits, at least 4.
LEMMA TwoPowers == \A i, j \in Nat : 2^(i + j) = 2^i * 2^j
<1> SUFFICES ASSUME NEW i \in Nat
             PROVE  \A j \in Nat : 2^(i + j) = 2^i * 2^j
    OBVIOUS
<1> DEFINE S == {j \in Nat : 2^(i + j) = 2^i * 2^j}
<1>1. 0 \in S
  <2>1. 2^i \in Nat
      BY Powers
  <2> QED
      BY <2>1
<1>2. ASSUME NEW j \in Nat, j \in S
      PROVE  j + 1 \in S
  <2>1. 2^(i + j + 1) = 2 * 2^(i + j) /\ 2^(j + 1) = 2 * 2^j /\ 2^i \in Nat /\ 2^j \in Nat
      BY Powers
  <2>2. 2^(i + j) = 2^i * 2^j
      BY <1>2
  <2>3. i + (j + 1) = i + j + 1
      OBVIOUS
  <2> HIDE DEF S
  <2>4. 2 * (2^i * 2^j) = 2^i * (2 * 2^j)
      BY <2>1
  <2>5. 2^(i + (j + 1)) = 2^i * 2^(j + 1)
      BY <2>1, <2>2, <2>3, <2>4
  <2> QED
      BY <2>5 DEF S
<1> HIDE DEF S
<1>3. \A j \in Nat : j \in S
    BY <1>1, <1>2, Induction
<1> QED
    BY <1>3 DEF S

LEMMA DigitSizes ==
    /\ SHIFT \in Nat /\ SHIFT >= 4
    /\ BASE \in Nat /\ BASE >= 16 /\ BASE = 2^SHIFT
    /\ MASK \in Nat /\ MASK = BASE - 1
<1>1. SHIFT \in Nat /\ SHIFT - 4 \in Nat
    BY DigitsAssumption
<1>2. 2^(4 + (SHIFT - 4)) = 2^4 * 2^(SHIFT - 4)
    BY <1>1, TwoPowers
<1>3. 2^(SHIFT - 4) \in Nat \ {0} /\ 2^SHIFT \in Nat
    BY <1>1, Powers
<1>4. 2^4 = 16 /\ 4 + (SHIFT - 4) = SHIFT
    BY <1>1
<1>5. 2^SHIFT = 16 * 2^(SHIFT - 4)
    BY <1>2, <1>4
<1>6. 2^SHIFT >= 16
    BY <1>3, <1>5
<1> QED
    BY <1>1, <1>3, <1>6 DEF BASE, MASK

\* A number falls into its lowest digit and the rest.
LEMMA Remainder ==
    \A x \in Int : /\ x % BASE \in 0..MASK /\ x \div BASE \in Int
                  /\ x = BASE * (x \div BASE) + (x % BASE)
<1> TAKE x \in Int
<1>1. BASE \in Nat \ {0}
    BY DigitSizes
<1>2. x % BASE \in 0..BASE - 1 /\ x \div BASE \in Int /\ x = BASE * (x \div BASE) + (x % BASE)
    BY <1>1, Division
<1> QED
    BY <1>2, DigitSizes

LEMMA Natural == ASSUME NEW n \in Nat \ {0}, NEW x \in Nat PROVE x \div n \in 0..x
BY Fitting

\* Max of a finite set is its greatest element.
LEMMA Greatest ==
    ASSUME NEW n \in Nat, NEW S \in SUBSET (0..n), S # {}
    PROVE  Max(S) \in S /\ \A y \in S : Max(S) >= y
<1> DEFINE T == {n - y : y \in S}
<1>1. T \in SUBSET Nat /\ T # {}
  <2>1. \A y \in S : n - y \in Nat
      OBVIOUS
  <2> QED
      BY <2>1
<1>2. PICK z \in T : \A y \in T : z <= y
    BY <1>1, Least
<1>3. PICK x \in S : z = n - x
    BY <1>2
<1>4. \A y \in S : n - y \in T
    OBVIOUS
<1>5. \A y \in S : x >= y
    BY <1>2, <1>3, <1>4
<1> QED
    BY <1>5 DEF Max

LEMMA Prefix ==
    ASSUME NEW S, NEW x \in Seq(S), NEW k \in 0..Len(x)
    PROVE  /\ SubSeq(x, 1, k) \in Seq(S) /\ Len(SubSeq(x, 1, k)) = k
           /\ \A i \in 1..k : SubSeq(x, 1, k)[i] = x[i]
<1>1. k \in Int /\ \A i \in 1..k : x[i] \in S
  <2>1. Len(x) \in Nat
      OBVIOUS
  <2> QED
      BY <2>1
<1> DEFINE z == SubSeq(x, 1, k)
<1>2. /\ z \in Seq(S) /\ Len(z) = IF 1 <= k THEN k - 1 + 1 ELSE 0
      /\ \A i \in 1..k - 1 + 1 : z[i] = x[1 + i - 1]
    BY <1>1, SubSeqProperties
<1> HIDE DEF z
<1>3. (IF 1 <= k THEN k - 1 + 1 ELSE 0) = k /\ k - 1 + 1 = k /\ \A i \in 1..k : 1 + i - 1 = i
    OBVIOUS
<1>4. \A i \in 1..k : z[i] = x[i]
    BY <1>2, <1>3
<1> QED
    BY <1>2, <1>3, <1>4 DEF z

\* What is left of x when leading zeros are gone
Trimmed(x, k) ==
    /\ k \in 0..Len(x)
    /\ int_normalize(x) \in Seq(0..MASK) /\ Len(int_normalize(x)) = k
    /\ \A i \in 1..k : int_normalize(x)[i] = x[i]
    /\ k > 0 => x[k] # 0
    /\ \A i \in k + 1..Len(x) : x[i] = 0

\* int_normalize finds where the leading zeros end.
LEMMA NormalizeIs == ASSUME NEW x \in Seq(0..MASK) PROVE \E k : Trimmed(x, k)
<1> DEFINE S == {0} \cup {i \in DOMAIN x : x[i] # 0}
           k == Max(S)
<1>1. S \in SUBSET (0..Len(x)) /\ S # {} /\ Len(x) \in Nat
    OBVIOUS
<1> HIDE DEF S
<1>2. k \in S /\ \A y \in S : k >= y
    BY <1>1, Greatest
<1> HIDE DEF k
<1>3. k \in 0..Len(x)
    BY <1>1, <1>2
<1>4. k > 0 => x[k] # 0
    BY <1>2 DEF S
<1>5. \A i \in k + 1..Len(x) : x[i] = 0
  <2> TAKE i \in k + 1..Len(x)
  <2>1. i \in DOMAIN x /\ ~ (k >= i)
      BY <1>3
  <2> QED
      BY <2>1, <1>2 DEF S
<1>6. int_normalize(x) = SubSeq(x, 1, k)
    BY DEF int_normalize, k, S
<1>7. /\ SubSeq(x, 1, k) \in Seq(0..MASK) /\ Len(SubSeq(x, 1, k)) = k
      /\ \A i \in 1..k : SubSeq(x, 1, k)[i] = x[i]
    BY <1>3, Prefix
<1> QED
    BY <1>3, <1>4, <1>5, <1>6, <1>7 DEF Trimmed

\* It returns a number in normal form.
LEMMA NormalizeVector == ASSUME NEW x \in Seq(0..MASK) PROVE Vector(int_normalize(x))
<1>1. PICK k : Trimmed(x, k)
    BY NormalizeIs
<1>2. int_normalize(x) # <<>> => k > 0
    BY <1>1 DEF Trimmed
<1>3. k > 0 => int_normalize(x)[k] # 0
    BY <1>1 DEF Trimmed
<1> QED
    BY <1>1, <1>2, <1>3 DEF Vector, Trimmed

\* What a digit may be
Digit == 0..MASK

LEMMA DigitIs == \A x \in Digit : x \in Nat /\ x < BASE
BY DigitSizes DEF Digit

LEMMA Shrinks == \A x \in Nat \ {0} : x \div BASE \in 0..x - 1
<1> TAKE x \in Nat \ {0}
<1>1. x \div BASE \in 0..x
    BY DigitSizes, Natural
<1>2. x = BASE * (x \div BASE) + (x % BASE) /\ x % BASE \in 0..MASK
    BY Remainder
<1>3. 2 * (x \div BASE) <= BASE * (x \div BASE)
    BY <1>1, DigitSizes, Monotone
<1> QED
    BY <1>1, <1>2, <1>3, DigitSizes

\* The function of FromUnsigned exists: a digit, and the digits of the rest.
LEMMA FromUnsignedIs ==
    ASSUME NEW n \in Nat
    PROVE  \E f : /\ f = [m \in 0..n |-> IF m = 0 THEN <<>> ELSE <<m % BASE>> \o f[m \div BASE]]
                  /\ FromUnsigned(n) = f[n]
<1> DEFINE D == 0..n
           V == Seq(Digit)
           rank == [m \in D |-> m]
           F == [m \in D |-> [g \in [D -> V] |-> IF m = 0 THEN <<>> ELSE <<m % BASE>> \o g[m \div BASE]]]
<1>1. V # {} /\ rank \in [D -> 0..n]
  <2>1. <<>> \in V
      OBVIOUS
  <2> QED
      BY <2>1
<1>2. \A m \in D : m # 0 => m \div BASE \in D /\ m \div BASE < m /\ m % BASE \in Digit
    BY Shrinks, Remainder DEF Digit
<1>3. F \in [D -> [[D -> V] -> V]]
  <2>1. ASSUME NEW m \in D, NEW g \in [D -> V], m # 0
        PROVE  <<m % BASE>> \o g[m \div BASE] \in V
    <3>1. <<m % BASE>> \in V /\ g[m \div BASE] \in V
        BY <2>1, <1>2
    <3> QED
        BY <3>1, ConcatProperties
  <2>2. <<>> \in V
      OBVIOUS
  <2> QED
      BY <2>1, <2>2
<1>4. \A m \in D : \A g \in [D -> V] :
          F[m][g] = IF m = 0 THEN <<>> ELSE <<m % BASE>> \o g[m \div BASE]
    OBVIOUS
<1>5. \A m \in D : \A g, h \in [D -> V] :
          (\A y \in D : rank[y] < rank[m] => g[y] = h[y]) => F[m][g] = F[m][h]
    BY <1>2, <1>4
<1> HIDE DEF F, rank, V, D
<1>6. Steps(F, D, rank, V)
    BY <1>3, <1>5 DEF Steps
<1>7. PICK f \in [D -> V] : \A m \in D : f[m] = F[m][f]
    BY <1>1, <1>6, Recursion
<1>8. \A m \in D : f[m] = IF m = 0 THEN <<>> ELSE <<m % BASE>> \o f[m \div BASE]
    BY <1>4, <1>7
<1>9. f = [m \in D |-> IF m = 0 THEN <<>> ELSE <<m % BASE>> \o f[m \div BASE]]
    BY <1>7, <1>8
<1> QED
    BY <1>9 DEF FromUnsigned, D

LEMMA FromUnsignedVector == \A n \in Nat : Vector(FromUnsigned(n))
<1> TAKE n \in Nat
<1>1. PICK f : /\ f = [m \in 0..n |-> IF m = 0 THEN <<>> ELSE <<m % BASE>> \o f[m \div BASE]]
               /\ FromUnsigned(n) = f[n]
    BY FromUnsignedIs
<1>2. \A m \in 0..n : f[m] = IF m = 0 THEN <<>> ELSE <<m % BASE>> \o f[m \div BASE]
    BY <1>1
<1> DEFINE P(m) == f[m] \in Seq(Digit) /\ Vector(f[m]) /\ (m > 0 => f[m] # <<>>)
           S == {k \in Nat : \A m \in 0..n : m <= k => P(m)}
<1>3. 0 \in S
  <2>1. f[0] = <<>> /\ <<>> \in Seq(Digit) /\ <<>> \in Seq(0..MASK)
    <3>1. 0 \in 0..n
        OBVIOUS
    <3>2. f[0] = <<>>
        BY <3>1, <1>2
    <3> QED
        BY <3>2, EmptySeq
  <2>2. P(0)
      BY <2>1 DEF Vector
  <2> QED
      BY <2>2
<1>4. ASSUME NEW k \in Nat, k \in S, k + 1 \in 0..n
      PROVE  P(k + 1)
  <2> DEFINE m == k + 1
             x == m % BASE
             y == m \div BASE
  <2>1. x \in Digit /\ y \in 0..k /\ y \in 0..n /\ m = BASE * y + x
    <3>1. m \in Nat \ {0} /\ m \in 0..n /\ m \in Int /\ m - 1 = k
        BY <1>4
    <3>2. y \in 0..m - 1
        BY <3>1, Shrinks
    <3>3. x \in 0..MASK /\ m = BASE * y + x
        BY <3>1, Remainder
    <3> QED
        BY <3>1, <3>2, <3>3 DEF Digit
  <2>2. f[m] = <<x>> \o f[y]
    <3>1. m \in 0..n /\ m # 0
        BY <1>4
    <3> QED
        BY <3>1, <1>2
  <2>3. P(y)
      BY <2>1, <1>4
  <2> HIDE DEF m, x, y
  <2>4. /\ f[m] \in Seq(Digit) /\ Len(f[m]) = 1 + Len(f[y])
        /\ \A i \in 1..1 + Len(f[y]) : f[m][i] = IF i <= 1 THEN x ELSE f[y][i - 1]
    <3>1. <<x>> \in Seq(Digit) /\ Len(<<x>>) = 1 /\ <<x>>[1] = x
        BY <2>1
    <3>2. \A i \in 1..1 + Len(f[y]) : i <= 1 => i = 1
        BY <2>3
    <3> QED
        BY <3>1, <3>2, <2>2, <2>3, ConcatProperties
  <2>5. f[m][Len(f[m])] # 0
    <3>1. CASE f[y] = <<>>
      <4>1. y = 0
          BY <3>1, <2>1, <2>3
      <4>2. x = m
        <5>1. BASE * 0 = 0 /\ x \in Int
            BY <2>1, DigitSizes DEF Digit
        <5> QED
            BY <4>1, <5>1, <2>1
      <4>3. Len(f[m]) = 1 /\ f[m][1] = x
          BY <3>1, <2>4
      <4> QED
          BY <4>2, <4>3, <1>4 DEF m
    <3>2. CASE f[y] # <<>>
      <4>1. Len(f[y]) \in Nat \ {0} /\ f[y][Len(f[y])] # 0
          BY <3>2, <2>3, EmptySeq DEF Vector
      <4> QED
          BY <4>1, <2>4
    <3> QED
        BY <3>1, <3>2
  <2>6. f[m] # <<>>
      BY <2>3, <2>4
  <2> QED
      BY <2>4, <2>5, <2>6 DEF Vector, Digit, m
<1>5. ASSUME NEW k \in Nat, k \in S
      PROVE  k + 1 \in S
  <2>1. \A m \in 0..n : m <= k + 1 => m <= k \/ m = k + 1
      OBVIOUS
  <2> HIDE DEF P
  <2> QED
      BY <2>1, <1>4, <1>5
<1> HIDE DEF S
<1>6. n \in S
    BY <1>3, <1>5, Induction
<1> QED
    BY <1>6, <1>1 DEF S

-----------------------------------------------------------------------------
(* Sums and differences *)

LEMMA AtDigit == ASSUME NEW a \in Seq(Digit), NEW i \in Int PROVE At(a, i) \in Digit /\ At(a, i) \in Nat
<1>1. 0 \in Digit
    BY DigitSizes DEF Digit
<1>2. i \in DOMAIN a => a[i] \in Digit
    OBVIOUS
<1>3. At(a, i) \in Digit
    BY <1>1, <1>2 DEF At
<1> QED
    BY <1>3, DigitIs

LEMMA Larger == \A m, n \in Nat : Max({m, n}) \in Nat /\ Max({m, n}) >= m /\ Max({m, n}) >= n
<1> TAKE m, n \in Nat
<1>1. {m, n} \in SUBSET (0..m + n) /\ {m, n} # {}
    OBVIOUS
<1>2. Max({m, n}) \in {m, n} /\ \A y \in {m, n} : Max({m, n}) >= y
    BY <1>1, Greatest
<1> QED
    BY <1>2

\* A carry
Bit == {0, 1}

Sum(f, i, a, b) == f[i - 1] + At(a, i) + At(b, i)

\* x_add is a chain of carries, each 0 or 1.
LEMMA AddIs ==
    ASSUME NEW a \in Seq(Digit), NEW b \in Seq(Digit), NEW n \in Nat, n = Max({Len(a), Len(b)})
    PROVE  \E f :
              /\ f = [i \in 0..n |-> IF i = 0 THEN 0 ELSE Sum(f, i, a, b) \div BASE]
              /\ x_add(a, b) = int_normalize([i \in 1..n + 1 |-> IF i > n THEN f[n] ELSE Sum(f, i, a, b) % BASE])
<1> DEFINE G == [i \in 0 + 1..n |-> [y \in Int |-> (y + At(a, i) + At(b, i)) \div BASE]]
           Is(f) == f = [i \in 0..n |-> IF i = 0 THEN 0 ELSE (f[i - 1] + At(a, i) + At(b, i)) \div BASE]
           h == CHOOSE f : Is(f)
<1>1. ASSUME NEW i \in 0 + 1..n, NEW y \in Int
      PROVE  (y + At(a, i) + At(b, i)) \div BASE \in Int
  <2>1. At(a, i) \in Nat /\ At(b, i) \in Nat
      BY AtDigit
  <2>2. y + At(a, i) + At(b, i) \in Int
      BY <2>1
  <2> QED
      BY <2>2, Remainder
<1>3. Maps(G, 0, n, Int)
    BY <1>1 DEF Maps
<1>5. \A i \in 0..n : \A y \in Int : i # 0 => G[i][y] = (y + At(a, i) + At(b, i)) \div BASE
    OBVIOUS
<1> HIDE DEF G
<1>4. PICK f : f \in [0..n -> Int] /\ Chained(f, 0, n, 0, G)
  <2>1. 0 \in Int /\ n \in Int
      OBVIOUS
  <2> QED
      BY <1>3, <2>1, Iteration, Zenon
<1>6. f = [i \in 0..n |-> IF i = 0 THEN 0 ELSE G[i][f[i - 1]]]
    BY <1>4 DEF Chained
<1>7. \A i \in 0..n : i # 0 => f[i - 1] \in Int
    BY <1>4
<1>8. Is(f)
    BY <1>5, <1>6, <1>7
<1>9. Is(h)
    BY <1>8
<1> HIDE DEF h
<1>10. x_add(a, b) = int_normalize([i \in 1..n + 1 |-> IF i > n THEN h[n]
                                                  ELSE (h[i - 1] + At(a, i) + At(b, i)) % BASE])
    BY DEF x_add, h
<1> QED
    BY <1>9, <1>10 DEF Sum

LEMMA AddVector == ASSUME NEW a \in Seq(Digit), NEW b \in Seq(Digit) PROVE Vector(x_add(a, b))
<1> DEFINE n == Max({Len(a), Len(b)})
<1>1. n \in Nat
    BY Larger
<1> HIDE DEF n
<1>2. PICK f :
        /\ f = [i \in 0..n |-> IF i = 0 THEN 0 ELSE Sum(f, i, a, b) \div BASE]
        /\ x_add(a, b) = int_normalize([i \in 1..n + 1 |-> IF i > n THEN f[n] ELSE Sum(f, i, a, b) % BASE])
    BY <1>1, AddIs DEF n
<1>3. \A i \in 0..n : f[i] \in Bit
  <2>1. f[0] \in Bit
      BY <1>1, <1>2 DEF Bit
  <2>2. ASSUME NEW i \in 0 + 1..n, f[i - 1] \in Bit
        PROVE  f[i] \in Bit
    <3>1. At(a, i) \in Digit /\ At(b, i) \in Digit
        BY AtDigit
    <3>2. Sum(f, i, a, b) \in Int /\ 0 <= Sum(f, i, a, b) /\ Sum(f, i, a, b) < 2 * BASE
        BY <3>1, <2>2, DigitSizes DEF Sum, Digit, Bit
    <3>3. f[i] = Sum(f, i, a, b) \div BASE
      <4>1. i \in 0..n /\ i # 0
          BY <1>1
      <4> QED
          BY <4>1, <1>2
    <3>4. Sum(f, i, a, b) \div BASE \in Bit
      <4>1. Sum(f, i, a, b) \in Nat /\ BASE \in Nat \ {0} /\ 1 \in Nat /\ Sum(f, i, a, b) < BASE * (1 + 1)
          BY <3>2, DigitSizes
      <4>2. Sum(f, i, a, b) \div BASE \in 0..1
          BY <4>1, Under
      <4> QED
          BY <4>2 DEF Bit
    <3> QED
        BY <3>3, <3>4
  <2> QED
    <3>1. 0 \in Int /\ n \in Int /\ 0 <= n
        BY <1>1
    <3>2. \A i \in 0 + 1..n : f[i - 1] \in Bit => f[i] \in Bit
        BY <2>2
    <3> QED
        BY <2>1, <3>1, <3>2, Stays
<1> DEFINE z == [i \in 1..n + 1 |-> IF i > n THEN f[n] ELSE Sum(f, i, a, b) % BASE]
<1>4. \A i \in 1..n + 1 : z[i] \in 0..MASK
  <2> TAKE i \in 1..n + 1
  <2>1. CASE i > n
      BY <2>1, <1>1, <1>3, DigitSizes DEF Bit
  <2>2. CASE i <= n
    <3>1. At(a, i) \in Nat /\ At(b, i) \in Nat
        BY AtDigit
    <3>2. f[i - 1] \in Bit
        BY <2>2, <1>1, <1>3
    <3>3. Sum(f, i, a, b) \in Int
        BY <3>1, <3>2 DEF Sum, Bit
    <3> QED
        BY <3>3, <2>2, <1>1, Remainder
  <2> QED
      BY <2>1, <2>2, <1>1
<1>5. z \in Seq(0..MASK)
    BY <1>1, <1>4
<1> QED
    BY <1>2, <1>5, NormalizeVector

LEMMA Wrapped == \A x \in Int : uint32(x) \in Nat
<1> TAKE x \in Int
<1>1. SHIFT + 2 \in Nat
    BY DigitSizes
<1>2. 2^(SHIFT + 2) \in Nat \ {0}
    BY <1>1, Powers
<1>3. x % 2^(SHIFT + 2) \in 0..2^(SHIFT + 2) - 1
    BY <1>2, Division
<1> QED
    BY <1>2, <1>3 DEF uint32

\* x_sub, when a is not below b: the loop with its borrow, whatever wraps around
LEMMA SubtractedVector ==
    ASSUME NEW a \in Seq(Digit), NEW b \in Seq(Digit)
    PROVE  Vector(Subtracted(a, b))
<1> DEFINE n == Len(a)
           E(i, y) == (uint32(At(a, i) - At(b, i) - y) \div BASE) % 2
           G == [i \in 0 + 1..n |-> [y \in Int |-> E(i, y)]]
           Is(f) == f = [i \in 0..n |-> IF i = 0 THEN 0 ELSE E(i, f[i - 1])]
           h == CHOOSE f : Is(f)
<1>1. ASSUME NEW i \in 0..n, NEW y \in Int
      PROVE  uint32(At(a, i) - At(b, i) - y) \in Nat
  <2>1. At(a, i) \in Nat /\ At(b, i) \in Nat
      BY AtDigit
  <2>2. At(a, i) - At(b, i) - y \in Int
      BY <2>1
  <2> QED
      BY <2>2, Wrapped
<1>2. ASSUME NEW i \in 0..n, NEW y \in Int
      PROVE  E(i, y) \in Int
  <2> DEFINE x == uint32(At(a, i) - At(b, i) - y)
  <2>1. x \in Int
      BY <1>1
  <2> HIDE DEF x
  <2>2. x \div BASE \in Int
      BY <2>1, Remainder
  <2> QED
      BY <2>2 DEF x
<1> HIDE DEF E
<1>3. Maps(G, 0, n, Int)
    BY <1>2 DEF Maps
<1>4. \A i \in 0..n : \A y \in Int : i # 0 => G[i][y] = E(i, y)
    OBVIOUS
<1>5. 0 \in Int /\ n \in Int /\ n \in Nat
    OBVIOUS
<1> HIDE DEF G
<1>6. PICK f : f \in [0..n -> Int] /\ Chained(f, 0, n, 0, G)
    BY <1>3, <1>5, Iteration, Zenon
<1>7. f = [i \in 0..n |-> IF i = 0 THEN 0 ELSE G[i][f[i - 1]]]
    BY <1>6 DEF Chained
<1>8. \A i \in 0..n : i # 0 => f[i - 1] \in Int
    BY <1>6
<1>9. Is(f)
    BY <1>4, <1>7, <1>8
<1>10. Is(h)
    BY <1>9
<1> HIDE DEF h
<1>11. \A i \in 0..n : h[i] \in Int
  <2>1. h[0] \in Int
      BY <1>5, <1>10
  <2>2. ASSUME NEW i \in 0 + 1..n, h[i - 1] \in Int
        PROVE  h[i] \in Int
    <3>1. i \in 0..n /\ i # 0
        BY <1>5
    <3>2. h[i] = E(i, h[i - 1])
        BY <3>1, <1>10
    <3> QED
        BY <3>1, <3>2, <2>2, <1>2
  <2>3. \A i \in 0 + 1..n : h[i - 1] \in Int => h[i] \in Int
      BY <2>2
  <2>4. 0 <= n
      BY <1>5
  <2> QED
      BY <2>1, <2>3, <2>4, <1>5, Stays, Zenon
<1> DEFINE z == [i \in DOMAIN a |-> uint32(a[i] - At(b, i) - h[i - 1]) % BASE]
<1>12. \A i \in DOMAIN a : uint32(a[i] - At(b, i) - h[i - 1]) % BASE \in 0..MASK
  <2> TAKE i \in DOMAIN a
  <2>1. i \in 0..n /\ At(a, i) = a[i] /\ i - 1 \in 0..n
      BY DEF At
  <2>2. uint32(a[i] - At(b, i) - h[i - 1]) \in Nat
      BY <2>1, <1>1, <1>11
  <2> QED
      BY <2>2, Remainder
<1>13. z \in Seq(0..MASK)
  <2>1. DOMAIN a = 1..n
      OBVIOUS
  <2> QED
      BY <2>1, <1>12, <1>5
<1>14. Subtracted(a, b) = int_normalize(z)
    BY DEF Subtracted, h, E
<1> QED
    BY <1>13, <1>14, NormalizeVector

LEMMA SubVector ==
    ASSUME NEW a \in Seq(Digit), NEW b \in Seq(Digit)
    PROVE  Vector(x_sub(a, b).v)
<1>1. Vector(<<>>)
    BY EmptySeq DEF Vector
<1> QED
    BY <1>1, SubtractedVector DEF x_sub

-----------------------------------------------------------------------------
(* Products *)

\* z after a row, where s are the sums
Row(z, i, s, n) ==
    [p \in DOMAIN z |-> IF p \in i..i + n - 1 THEN s[p - i + 1] % BASE
                        ELSE IF p = i + n /\ n > 0 THEN z[p] + ((s[n] \div BASE) % BASE)
                        ELSE z[p]]

RowSums(s, z, i, x, b) ==
    \A j \in 1..Len(b) : s[j] = z[i + j - 1] + b[j] * x + (IF j = 1 THEN 0 ELSE s[j - 1] \div BASE)

\* A turn of the outer loop of x_mul adds a row to z.
LEMMA AddRowIs ==
    ASSUME NEW b \in Seq(Digit), NEW m \in Nat, NEW z \in [1..m -> Int],
           NEW i \in Nat \ {0}, i + Len(b) - 1 <= m, NEW x \in Digit
    PROVE  \E s \in [1..Len(b) -> Int] : RowSums(s, z, i, x, b) /\ AddRow(z, i, x, b) = Row(z, i, s, Len(b))
<1> DEFINE n == Len(b)
           E(j, y) == z[i + j - 1] + b[j] * x + y
           c == IF n = 0 THEN 0 ELSE E(1, 0)
           G == [j \in 1 + 1..n |-> [y \in Int |-> E(j, y \div BASE)]]
           Is(f) == f = [j \in 1..n |-> E(j, IF j = 1 THEN 0 ELSE f[j - 1] \div BASE)]
           h == CHOOSE f : Is(f)
<1>1. ASSUME NEW j \in 1..n, NEW y \in Int
      PROVE  E(j, y) \in Int
  <2>1. i + j - 1 \in 1..m /\ b[j] \in Digit
      OBVIOUS
  <2>2. z[i + j - 1] \in Int /\ b[j] \in Nat /\ x \in Nat
      BY <2>1, DigitIs
  <2> DEFINE p == b[j] * x
  <2>3. p \in Int
      BY <2>2
  <2>4. E(j, y) = z[i + j - 1] + p + y
      OBVIOUS
  <2> HIDE DEF p, E
  <2> QED
      BY <2>2, <2>3, <2>4
<1> HIDE DEF E
<1>2. \A j \in 1..n : \A y \in Int : E(j, y \div BASE) \in Int
    BY <1>1, Remainder
<1>3. Maps(G, 1, n, Int)
    BY <1>2 DEF Maps
<1>4. \A j \in 1..n : \A y \in Int : j # 1 => G[j][y] = E(j, y \div BASE)
    OBVIOUS
<1>5. 1 \in Int /\ n \in Int /\ n \in Nat /\ c \in Int
    BY <1>1
<1> HIDE DEF G
<1>6. PICK f : f \in [1..n -> Int] /\ Chained(f, 1, n, c, G)
    BY <1>3, <1>5, Iteration, Zenon
<1>7. f = [j \in 1..n |-> IF j = 1 THEN c ELSE G[j][f[j - 1]]]
    BY <1>6 DEF Chained
<1>8. \A j \in 1..n : j # 1 => f[j - 1] \in Int
  <2> TAKE j \in 1..n
  <2>1. j # 1 => j - 1 \in 1..n
      BY <1>5
  <2> QED
      BY <2>1, <1>6
<1>9. ASSUME NEW j \in 1..n
      PROVE  f[j] = E(j, IF j = 1 THEN 0 ELSE f[j - 1] \div BASE)
  <2>1. CASE j = 1
      BY <2>1, <1>7 DEF c
  <2>2. CASE j # 1
      BY <2>2, <1>4, <1>7, <1>8
  <2> QED
      BY <2>1, <2>2
<1>10. Is(f)
    BY <1>6, <1>9
<1>11. Is(h)
    BY <1>10
<1> HIDE DEF h
<1>12. h \in [1..n -> Int]
  <2>1. \A j \in 1..n : h[j] = E(j, IF j = 1 THEN 0 ELSE h[j - 1] \div BASE)
      BY <1>11
  <2>2. CASE n >= 1
    <3>1. h[1] \in Int
      <4>1. 1 \in 1..n /\ 0 \in Int
          BY <2>2, <1>5
      <4> QED
          BY <4>1, <2>1, <1>1
    <3>2. \A j \in 1 + 1..n : h[j - 1] \in Int => h[j] \in Int
      <4> TAKE j \in 1 + 1..n
      <4>1. j \in 1..n /\ j # 1
          BY <1>5
      <4> QED
          BY <4>1, <2>1, <1>2
    <3>3. \A j \in 1..n : h[j] \in Int
        BY <3>1, <3>2, <2>2, <1>5, Stays
    <3> QED
        BY <3>3, <1>11
  <2>3. CASE n = 0
      BY <2>3, <1>11
  <2> QED
      BY <2>2, <2>3, <1>5
<1>13. AddRow(z, i, x, b) = Row(z, i, h, n)
    BY DEF AddRow, Row, h, E
<1>14. RowSums(h, z, i, x, b)
    BY <1>11 DEF RowSums, E
<1> QED
    BY <1>12, <1>13, <1>14

SquaredRow(z, i, s, n) ==
    [p \in DOMAIN z |-> IF p \in 2 * i - 1..i + n THEN s[p - i + 1] % BASE
                        ELSE IF p = i + n + 1 THEN z[p] + ((s[n + 1] \div BASE) % BASE)
                        ELSE z[p]]

\* The same for the square of a number: it uses every product twice.
SquareTerm(a, i, j) == IF j = i THEN a[i] * a[i] ELSE At(a, j) * 2 * a[i]

SquareSums(s, z, i, a) ==
    \A j \in i..Len(a) + 1 :
        s[j] = z[i + j - 1] + SquareTerm(a, i, j) + (IF j = i THEN 0 ELSE s[j - 1] \div BASE)

LEMMA SquareRowIs ==
    ASSUME NEW a \in Seq(Digit), NEW z \in [1..Len(a) + Len(a) -> Int], NEW i \in 1..Len(a)
    PROVE  \E s \in [i..Len(a) + 1 -> Int] : SquareSums(s, z, i, a) /\ SquareRow(z, i, a) = SquaredRow(z, i, s, Len(a))
<1> DEFINE n == Len(a)
           t(j) == IF j = i THEN a[i] * a[i] ELSE At(a, j) * 2 * a[i]
           E(j, y) == z[i + j - 1] + t(j) + y
           G == [j \in i + 1..n + 1 |-> [y \in Int |-> E(j, y \div BASE)]]
           c == E(i, 0)
           Is(f) == f = [j \in i..n + 1 |-> E(j, IF j = i THEN 0 ELSE f[j - 1] \div BASE)]
           h == CHOOSE f : Is(f)
<1>1. ASSUME NEW j \in i..n + 1, NEW y \in Int
      PROVE  E(j, y) \in Int
  <2>1. i + j - 1 \in 1..n + n /\ a[i] \in Digit
      OBVIOUS
  <2>2. z[i + j - 1] \in Int /\ a[i] \in Nat /\ At(a, j) \in Nat
    <3>1. At(a, j) \in Nat
        BY AtDigit
    <3> QED
        BY <2>1, <3>1, DigitIs
  <2>3. a[i] * a[i] \in Int /\ At(a, j) * 2 * a[i] \in Int
      BY <2>2
  <2>4. t(j) \in Int
      BY <2>3
  <2> HIDE DEF t
  <2> QED
      BY <2>2, <2>4
<1> HIDE DEF E, t
<1>2. \A j \in i..n + 1 : \A y \in Int : E(j, y \div BASE) \in Int
    BY <1>1, Remainder
<1>3. Maps(G, i, n + 1, Int)
    BY <1>2 DEF Maps
<1>4. \A j \in i..n + 1 : \A y \in Int : j # i => G[j][y] = E(j, y \div BASE)
    OBVIOUS
<1>5. i \in Int /\ n + 1 \in Int /\ n \in Nat /\ i <= n + 1
    OBVIOUS
<1>6. c \in Int
  <2>1. i \in i..n + 1 /\ 0 \in Int
      OBVIOUS
  <2> QED
      BY <2>1, <1>1
<1> HIDE DEF G
<1>7. PICK f : f \in [i..n + 1 -> Int] /\ Chained(f, i, n + 1, c, G)
    BY <1>3, <1>5, <1>6, Iteration, Zenon
<1>8. f = [j \in i..n + 1 |-> IF j = i THEN c ELSE G[j][f[j - 1]]]
    BY <1>7 DEF Chained
<1>9. \A j \in i..n + 1 : j # i => f[j - 1] \in Int
  <2> TAKE j \in i..n + 1
  <2>1. j # i => j - 1 \in i..n + 1
      BY <1>5
  <2> QED
      BY <2>1, <1>7
<1>10. ASSUME NEW j \in i..n + 1
       PROVE  f[j] = E(j, IF j = i THEN 0 ELSE f[j - 1] \div BASE)
  <2>1. CASE j = i
      BY <2>1, <1>8 DEF c
  <2>2. CASE j # i
      BY <2>2, <1>4, <1>8, <1>9
  <2> QED
      BY <2>1, <2>2
<1>11. Is(f)
    BY <1>7, <1>10
<1>12. Is(h)
    BY <1>11
<1> HIDE DEF h
<1>13. h \in [i..n + 1 -> Int]
  <2>1. \A j \in i..n + 1 : h[j] = E(j, IF j = i THEN 0 ELSE h[j - 1] \div BASE)
      BY <1>12
  <2>2. h[i] \in Int
    <3>1. i \in i..n + 1
        BY <1>5
    <3> QED
        BY <3>1, <2>1, <1>6
  <2>3. \A j \in i + 1..n + 1 : h[j - 1] \in Int => h[j] \in Int
    <3> TAKE j \in i + 1..n + 1
    <3>1. j \in i..n + 1 /\ j # i
        BY <1>5
    <3> QED
        BY <3>1, <2>1, <1>2
  <2>4. \A j \in i..n + 1 : h[j] \in Int
      BY <2>2, <2>3, <1>5, Stays
  <2> QED
      BY <2>4, <1>12
<1>14. SquareRow(z, i, a) = SquaredRow(z, i, h, n)
    BY DEF SquareRow, SquaredRow, h, E, t
<1>15. SquareSums(h, z, i, a)
    BY <1>12 DEF SquareSums, SquareTerm, E, t
<1> QED
    BY <1>13, <1>14, <1>15

\* The digits of a product, all 0 above k
Partial(m, k) == {z \in [1..m -> Digit] : \A p \in 1..m : p > k => z[p] = 0}

\* A row ends within its places: the carry out of it is a digit, and the place it goes to is still 0.
LEMMA AddRowFits ==
    ASSUME NEW b \in Seq(Digit), NEW m \in Nat, NEW i \in Nat \ {0}, i + Len(b) <= m, NEW x \in Digit,
           NEW z \in Partial(m, i - 1 + Len(b))
    PROVE  AddRow(z, i, x, b) \in Partial(m, i + Len(b))
<1> DEFINE n == Len(b)
<1>1. z \in [1..m -> Int] /\ z \in [1..m -> Digit] /\ n \in Nat /\ i + Len(b) - 1 <= m
    BY DigitIs DEF Partial
<1>2. PICK s \in [1..n -> Int] : AddRow(z, i, x, b) = Row(z, i, s, n)
    BY <1>1, AddRowIs
<1> HIDE DEF n
<1>3. ASSUME NEW p \in 1..m
      PROVE  Row(z, i, s, n)[p] \in Digit /\ (p > i + n => Row(z, i, s, n)[p] = 0)
  <2>1. CASE p \in i..i + n - 1
    <3>1. p - i + 1 \in 1..n
        BY <2>1, <1>1
    <3>2. s[p - i + 1] % BASE \in Digit
        BY <3>1, Remainder DEF Digit
    <3>3. Row(z, i, s, n)[p] = s[p - i + 1] % BASE
        BY <2>1, <1>1 DEF Row
    <3> QED
        BY <3>2, <3>3, <2>1, <1>1
  <2>2. CASE p = i + n /\ n > 0
    <3>1. s[n] \in Int /\ z[p] = 0
      <4>1. n \in 1..n /\ p > i - 1 + n
          BY <2>2, <1>1
      <4>2. \A k \in 1..m : k > i - 1 + n => z[k] = 0
          BY DEF Partial, n
      <4> QED
          BY <4>1, <4>2
    <3>2. s[n] \div BASE \in Int
        BY <3>1, Remainder
    <3>3. (s[n] \div BASE) % BASE \in 0..MASK
        BY <3>2, Remainder
    <3>4. 0 + ((s[n] \div BASE) % BASE) \in Digit
        BY <3>3, DigitSizes DEF Digit
    <3>5. Row(z, i, s, n)[p] = z[p] + ((s[n] \div BASE) % BASE)
        BY <2>2, <1>1 DEF Row
    <3> QED
        BY <3>1, <3>4, <3>5, <2>2
  <2>3. CASE p \notin i..i + n - 1 /\ ~ (p = i + n /\ n > 0)
    <3>1. Row(z, i, s, n)[p] = z[p]
        BY <2>3, <1>1 DEF Row
    <3> QED
        BY <3>1, <1>1 DEF Partial, n
  <2> QED
      BY <2>1, <2>2, <2>3
<1>4. DOMAIN z = 1..m
    BY <1>1
<1>5. Row(z, i, s, n) \in [1..m -> Digit]
    BY <1>3, <1>4 DEF Row
<1> QED
    BY <1>2, <1>3, <1>5 DEF Partial, n

LEMMA SquareRowFits ==
    ASSUME NEW a \in Seq(Digit), NEW i \in 1..Len(a), NEW z \in Partial(Len(a) + Len(a), i + Len(a))
    PROVE  SquareRow(z, i, a) \in Partial(Len(a) + Len(a), i + Len(a) + 1)
<1> DEFINE n == Len(a)
           m == n + n
<1>1. z \in [1..m -> Int] /\ z \in [1..m -> Digit] /\ n \in Nat /\ m \in Nat
    BY DigitIs DEF Partial
<1>2. PICK s \in [i..n + 1 -> Int] : SquareRow(z, i, a) = SquaredRow(z, i, s, n)
    BY <1>1, SquareRowIs
<1>3. \A p \in 1..m : p > i + n => z[p] = 0
    BY DEF Partial
<1> HIDE DEF n, m
<1>4. ASSUME NEW p \in 1..m
      PROVE  SquaredRow(z, i, s, n)[p] \in Digit /\ (p > i + n + 1 => SquaredRow(z, i, s, n)[p] = 0)
  <2>1. CASE p \in 2 * i - 1..i + n
    <3>1. p - i + 1 \in i..n + 1
        BY <2>1, <1>1
    <3>2. s[p - i + 1] % BASE \in Digit
        BY <3>1, Remainder DEF Digit
    <3>3. SquaredRow(z, i, s, n)[p] = s[p - i + 1] % BASE
        BY <2>1, <1>1 DEF SquaredRow
    <3> QED
        BY <3>2, <3>3, <2>1, <1>1
  <2>2. CASE p = i + n + 1
    <3>0. n + 1 \in i..n + 1
        BY <1>1 DEF n
    <3>1. s[n + 1] \in Int /\ z[p] = 0
        BY <3>0, <2>2, <1>1, <1>3
    <3>2. s[n + 1] \div BASE \in Int
        BY <3>1, Remainder
    <3>3. (s[n + 1] \div BASE) % BASE \in 0..MASK
        BY <3>2, Remainder
    <3>4. 0 + ((s[n + 1] \div BASE) % BASE) \in Digit
        BY <3>3, DigitSizes DEF Digit
    <3>5. SquaredRow(z, i, s, n)[p] = z[p] + ((s[n + 1] \div BASE) % BASE)
        BY <2>2, <1>1 DEF SquaredRow
    <3> QED
        BY <3>1, <3>4, <3>5, <2>2, <1>1
  <2>3. CASE p \notin 2 * i - 1..i + n /\ p # i + n + 1
    <3>1. SquaredRow(z, i, s, n)[p] = z[p]
        BY <2>3, <1>1 DEF SquaredRow
    <3> QED
        BY <3>1, <1>1, <1>3
  <2> QED
      BY <2>1, <2>2, <2>3
<1>5. DOMAIN z = 1..m
    BY <1>1
<1>6. SquaredRow(z, i, s, n) \in [1..m -> Digit]
    BY <1>4, <1>5 DEF SquaredRow
<1> QED
    BY <1>2, <1>4, <1>6 DEF Partial, n, m

LEMMA Parts == \A x \in Int : x % BASE \in Int /\ (x \div BASE) % BASE \in Int
<1> TAKE x \in Int
<1>1. x \div BASE \in Int /\ x % BASE \in 0..MASK
    BY Remainder
<1>2. (x \div BASE) % BASE \in 0..MASK
    BY <1>1, Remainder
<1> QED
    BY <1>1, <1>2, DigitSizes

\* After the last row all is digits, because each row left zeros above.
\* The rows of the product of a and b: the digits h[i] after i of them
Rows(h, a, b, same) ==
    /\ h[0] = [p \in 1..Len(a) + Len(b) |-> 0]
    /\ \A i \in 0..Len(a) : h[i] \in Partial(Len(a) + Len(b), i + Len(b) + (IF same THEN 1 ELSE 0))
    /\ \A i \in 1..Len(a) :
            h[i] = IF same THEN SquareRow(h[i - 1], i, a) ELSE AddRow(h[i - 1], i, a[i], b)

LEMMA MulRows ==
    ASSUME NEW a \in Seq(Digit), NEW b \in Seq(Digit), NEW same \in BOOLEAN, same => a = b
    PROVE  \E h : Rows(h, a, b, same) /\ x_mul(a, b, same) = int_normalize(h[Len(a)])
<1> DEFINE n == Len(a)
           m == Len(a) + Len(b)
           V == [1..m -> Int]
           c == [p \in 1..m |-> 0]
           E(i, z) == IF same THEN SquareRow(z, i, a) ELSE AddRow(z, i, a[i], b)
           G == [i \in 0 + 1..n |-> [z \in V |-> E(i, z)]]
           Is(f) == f = [i \in 0..n |-> IF i = 0 THEN c ELSE E(i, f[i - 1])]
           h == CHOOSE f : Is(f)
           k == IF same THEN 1 ELSE 0
           W(i) == Partial(m, i + Len(b) + k)
<1>1. n \in Nat /\ m \in Nat /\ 0 \in Int /\ n \in Int /\ c \in V /\ \A i \in 1..n : a[i] \in Digit
    OBVIOUS
<1>2. ASSUME NEW i \in 1..n, NEW z \in V
      PROVE  E(i, z) \in V
  <2>1. CASE same
    <3>1. PICK s \in [i..n + 1 -> Int] : SquareRow(z, i, a) = SquaredRow(z, i, s, n)
        BY <2>1, SquareRowIs
    <3>2. \A p \in DOMAIN z : SquaredRow(z, i, s, n)[p] \in Int
      <4> TAKE p \in DOMAIN z
      <4>1. p \in 2 * i - 1..i + n => p - i + 1 \in i..n + 1
          OBVIOUS
      <4>2. n + 1 \in i..n + 1 /\ z[p] \in Int
          OBVIOUS
      <4> HIDE DEF n
      <4>3. CASE p \in 2 * i - 1..i + n
        <5>1. s[p - i + 1] \in Int
            BY <4>1, <4>3
        <5>2. SquaredRow(z, i, s, n)[p] = s[p - i + 1] % BASE
            BY <4>3 DEF SquaredRow
        <5> QED
            BY <5>1, <5>2, Parts
      <4>4. CASE p \notin 2 * i - 1..i + n /\ p = i + n + 1
        <5>1. s[n + 1] \in Int
            BY <4>2
        <5>2. (s[n + 1] \div BASE) % BASE \in Int
            BY <5>1, Parts
        <5>3. SquaredRow(z, i, s, n)[p] = z[p] + ((s[n + 1] \div BASE) % BASE)
            BY <4>4 DEF SquaredRow
        <5> QED
            BY <5>2, <5>3, <4>2
      <4>5. CASE p \notin 2 * i - 1..i + n /\ p # i + n + 1
          BY <4>2, <4>5 DEF SquaredRow
      <4> QED
          BY <4>3, <4>4, <4>5
    <3>3. SquaredRow(z, i, s, n) = [p \in 1..m |-> SquaredRow(z, i, s, n)[p]]
        BY DEF SquaredRow
    <3> HIDE DEF n, m
    <3>4. DOMAIN z = 1..m
        OBVIOUS
    <3> QED
        BY <3>1, <3>2, <3>3, <3>4, <2>1
  <2>2. CASE ~same
    <3>1. i + Len(b) - 1 <= m /\ a[i] \in Digit /\ i \in Nat \ {0}
        BY <1>1
    <3>2. PICK s \in [1..Len(b) -> Int] : AddRow(z, i, a[i], b) = Row(z, i, s, Len(b))
        BY <3>1, <1>1, AddRowIs
    <3>3. \A p \in DOMAIN z : Row(z, i, s, Len(b))[p] \in Int
      <4> TAKE p \in DOMAIN z
      <4>1. p \in i..i + Len(b) - 1 => p - i + 1 \in 1..Len(b)
          OBVIOUS
      <4>2. (Len(b) > 0 => Len(b) \in 1..Len(b)) /\ z[p] \in Int
          OBVIOUS
      <4>3. CASE p \in i..i + Len(b) - 1
        <5>1. s[p - i + 1] \in Int
            BY <4>1, <4>3
        <5>2. Row(z, i, s, Len(b))[p] = s[p - i + 1] % BASE
            BY <4>3 DEF Row
        <5> QED
            BY <5>1, <5>2, Parts
      <4>4. CASE p \notin i..i + Len(b) - 1 /\ p = i + Len(b) /\ Len(b) > 0
        <5>1. s[Len(b)] \in Int
            BY <4>2, <4>4
        <5>2. (s[Len(b)] \div BASE) % BASE \in Int
            BY <5>1, Parts
        <5>3. Row(z, i, s, Len(b))[p] = z[p] + ((s[Len(b)] \div BASE) % BASE)
            BY <4>4 DEF Row
        <5> QED
            BY <5>2, <5>3, <4>2
      <4>5. CASE p \notin i..i + Len(b) - 1 /\ ~ (p = i + Len(b) /\ Len(b) > 0)
          BY <4>2, <4>5 DEF Row
      <4> QED
          BY <4>3, <4>4, <4>5
    <3>4. Row(z, i, s, Len(b)) = [p \in 1..m |-> Row(z, i, s, Len(b))[p]]
        BY DEF Row
    <3> HIDE DEF n, m
    <3>5. DOMAIN z = 1..m
        OBVIOUS
    <3> QED
        BY <3>2, <3>3, <3>4, <3>5, <2>2
  <2> QED
      BY <2>1, <2>2
<1>3. ASSUME NEW i \in 1..n, NEW z \in W(i - 1)
      PROVE  E(i, z) \in W(i)
  <2>1. i \in Nat \ {0} /\ a[i] \in Digit
      BY <1>1
  <2>2. CASE same
    <3>1. W(i - 1) = Partial(n + n, i + n) /\ W(i) = Partial(n + n, i + n + 1)
      <4>1. i - 1 + n + 1 = i + n
          OBVIOUS
      <4> QED
          BY <2>2, <4>1
    <3>2. z \in Partial(Len(a) + Len(a), i + Len(a)) /\ i \in 1..Len(a)
        BY <3>1, <1>3
    <3>3. SquareRow(z, i, a) \in W(i)
        BY <3>1, <3>2, SquareRowFits
    <3> QED
        BY <3>3, <2>2
  <2>3. CASE ~same
    <3>1. W(i - 1) = Partial(m, i - 1 + Len(b)) /\ W(i) = Partial(m, i + Len(b))
      <4>1. i - 1 + Len(b) + 0 = i - 1 + Len(b) /\ i + Len(b) + 0 = i + Len(b)
          OBVIOUS
      <4> QED
          BY <2>3, <4>1
    <3>2. z \in Partial(m, i - 1 + Len(b)) /\ i + Len(b) <= m
        BY <3>1, <1>3
    <3>3. AddRow(z, i, a[i], b) \in W(i)
        BY <3>1, <3>2, <2>1, <1>1, AddRowFits
    <3> QED
        BY <3>3, <2>3
  <2> QED
      BY <2>2, <2>3
<1>4. c \in W(0)
  <2>1. 0 \in Digit
      BY DigitSizes DEF Digit
  <2> QED
      BY <2>1 DEF Partial
<1>5. W(n) \subseteq [1..m -> Digit]
    BY DEF Partial
<1>6. x_mul(a, b, same) = int_normalize(h[n])
    BY DEF x_mul
<1> HIDE DEF E, V, W, c, m, n, k
<1>7. Maps(G, 0, n, V)
    BY <1>1, <1>2 DEF Maps
<1>8. \A i \in 0..n : \A z \in V : i # 0 => G[i][z] = E(i, z)
    OBVIOUS
<1> HIDE DEF G
<1>9. PICK f : f \in [0..n -> V] /\ Chained(f, 0, n, c, G)
    BY <1>1, <1>7, Iteration, Zenon
<1>10. f = [i \in 0..n |-> IF i = 0 THEN c ELSE G[i][f[i - 1]]]
    BY <1>9 DEF Chained
<1>11. \A i \in 0..n : i # 0 => f[i - 1] \in V
    BY <1>1, <1>9
<1>12. Is(f)
    BY <1>8, <1>10, <1>11
<1>13. Is(h)
    BY <1>12
<1> HIDE DEF h
<1>14. \A i \in 1..n : h[i] = E(i, h[i - 1])
    BY <1>1, <1>13
<1>15. h[0] = c
    BY <1>1, <1>13
<1>16. \A i \in 0..n : h[i] \in W(i)
  <2> DEFINE S == {i \in 0..n : h[i] \in W(i)}
  <2>1. 0 \in S
      BY <1>1, <1>4, <1>15
  <2>2. \A i \in 0..n - 1 : i \in S => i + 1 \in S
    <3> TAKE i \in 0..n - 1
    <3> DEFINE j == i + 1
    <3>1. j \in 1..n /\ j \in 0..n /\ j - 1 = i
        BY <1>1
    <3> HIDE DEF j
    <3>2. h[j] = E(j, h[i])
        BY <3>1, <1>14
    <3>3. i \in S => h[i] \in W(j - 1)
        BY <3>1
    <3>4. i \in S => h[j] \in W(j)
        BY <3>1, <3>2, <3>3, <1>3
    <3> QED
        BY <3>1, <3>4 DEF j
  <2>3. 0 <= n
      BY <1>1
  <2> HIDE DEF S
  <2>4. \A i \in 0..n : i \in S
      BY <2>1, <2>2, <2>3, <1>1, Up
  <2> QED
      BY <2>4 DEF S
<1>17. Rows(h, a, b, same)
    BY <1>14, <1>15, <1>16 DEF Rows, E, W, c, m, n, k
<1> QED
    BY <1>6, <1>17 DEF n

LEMMA MulVector ==
    ASSUME NEW a \in Seq(Digit), NEW b \in Seq(Digit), NEW same \in BOOLEAN, same => a = b
    PROVE  Vector(x_mul(a, b, same))
<1>1. PICK h : Rows(h, a, b, same) /\ x_mul(a, b, same) = int_normalize(h[Len(a)])
    BY MulRows
<1>2. Len(a) \in 0..Len(a) /\ Len(a) + Len(b) \in Nat
    OBVIOUS
<1>3. h[Len(a)] \in [1..Len(a) + Len(b) -> Digit]
    BY <1>1, <1>2 DEF Rows, Partial
<1>4. h[Len(a)] \in Seq(0..MASK)
  <2>1. \A m \in Nat : \A z \in [1..m -> Digit] : z \in Seq(Digit)
      OBVIOUS
  <2>2. h[Len(a)] \in Seq(Digit)
      BY <1>2, <1>3, <2>1
  <2> QED
      BY <2>2 DEF Digit
<1> QED
    BY <1>1, <1>4, NormalizeVector

-----------------------------------------------------------------------------
(* Shifts *)

\* A digit shifted left by e bits falls into two parts.
LEMMA Halves ==
    ASSUME NEW e \in 0..SHIFT
    PROVE  2^e \in Nat \ {0} /\ 2^(SHIFT - e) \in Nat \ {0} /\ 2^e * 2^(SHIFT - e) = BASE
<1>1. e \in Nat /\ SHIFT - e \in Nat /\ e + (SHIFT - e) = SHIFT
    BY DigitSizes
<1>2. 2^(e + (SHIFT - e)) = 2^e * 2^(SHIFT - e)
    BY <1>1, TwoPowers
<1> QED
    BY <1>1, <1>2, Powers, DigitSizes

LEMMA LowPart ==
    ASSUME NEW e \in 0..SHIFT, NEW x \in Nat
    PROVE  /\ (x * 2^e) % BASE = 2^e * (x % 2^(SHIFT - e))
           /\ (x * 2^e) \div BASE = x \div 2^(SHIFT - e)
<1> DEFINE m == 2^e
           k == 2^(SHIFT - e)
<1>1. m \in Nat \ {0} /\ k \in Nat \ {0} /\ m * k = BASE
    BY Halves
<1> HIDE DEF m, k
<1> DEFINE y == x \div k
           z == x % k
<1>2. y \in Int /\ z \in 0..k - 1 /\ x = k * y + z
  <2>1. x \in Int
      OBVIOUS
  <2> QED
      BY <1>1, <2>1, Division
<1> HIDE DEF y, z
<1>3. x * m = BASE * y + m * z
  <2>1. x * m = (k * y) * m + z * m
      BY <1>1, <1>2
  <2>2. (k * y) * m = (m * k) * y /\ z * m = m * z
      BY <1>1, <1>2
  <2> QED
      BY <2>1, <2>2, <1>1
<1>4. 0 <= m * z /\ m * z < BASE /\ m * z \in Int
  <2>1. m * z <= m * (k - 1)
      BY <1>1, <1>2, Monotone
  <2>2. m * (k - 1) = m * k - m
      BY <1>1
  <2>3. m * z \in Nat
      BY <1>1, <1>2
  <2> QED
      BY <2>1, <2>2, <2>3, <1>1
<1>5. x * m \in Int /\ BASE \in Nat \ {0}
    BY <1>1, DigitSizes
<1>6. (x * m) % BASE = m * z /\ (x * m) \div BASE = y
    BY <1>2, <1>3, <1>4, <1>5, Quotient
<1> QED
    BY <1>6 DEF m, k, y, z

\* The bits that come in from the digit below fit in the room the others left.
LEMMA ShiftedDigit ==
    ASSUME NEW e \in 0..SHIFT, NEW x \in Digit, NEW y \in Digit
    PROVE  ((x * 2^e) % BASE) + ((y * 2^e) \div BASE) \in Digit /\ (y * 2^e) \div BASE \in Digit
<1> DEFINE m == 2^e
           k == 2^(SHIFT - e)
<1>1. m \in Nat \ {0} /\ k \in Nat \ {0} /\ m * k = BASE
    BY Halves
<1>2. x \in Nat /\ y \in Nat /\ y < BASE
    BY DigitIs
<1>3. /\ (x * 2^e) % BASE = m * (x % k)
      /\ (y * 2^e) \div BASE = y \div k
    BY <1>2, LowPart
<1> HIDE DEF m, k
<1>4. x % k \in 0..k - 1
  <2>1. x \in Int
      BY <1>2
  <2> QED
      BY <2>1, <1>1, Division
<1>5. m * (x % k) <= m * (k - 1) /\ m * (k - 1) = m * k - m /\ m * (x % k) \in Nat
    BY <1>1, <1>4, Monotone
<1>6. y \div k \in 0..m - 1
  <2>1. y < k * (m - 1 + 1) /\ m - 1 \in Nat
      BY <1>1, <1>2
  <2> QED
      BY <2>1, <1>1, <1>2, Under
<1>7. m * (x % k) + (y \div k) \in 0..BASE - 1
    BY <1>5, <1>6, <1>1, DigitSizes
<1>8. y \div k \in 0..BASE - 1
  <2>1. m * 1 <= m * k
      BY <1>1, Monotone
  <2> QED
      BY <2>1, <1>6, <1>1, DigitSizes
<1> QED
    BY <1>3, <1>7, <1>8, DigitSizes DEF Digit

LEMMA LoweredDigit ==
    ASSUME NEW e \in 0..SHIFT, NEW x \in Digit, NEW y \in Digit
    PROVE  x \div 2^e + (y % 2^e) * 2^(SHIFT - e) \in Digit
<1> DEFINE m == 2^e
           k == 2^(SHIFT - e)
<1>1. m \in Nat \ {0} /\ k \in Nat \ {0} /\ m * k = BASE
    BY Halves
<1>2. x \in Nat /\ y \in Nat /\ x < BASE
    BY DigitIs
<1> HIDE DEF m, k
<1>3. y % m \in 0..m - 1
  <2>1. y \in Int
      BY <1>2
  <2> QED
      BY <2>1, <1>1, Division
<1>4. x \div m \in 0..k - 1
  <2>1. x < m * (k - 1 + 1) /\ k - 1 \in Nat
      BY <1>1, <1>2
  <2> QED
      BY <2>1, <1>1, <1>2, Under
<1>5. k * (y % m) <= k * (m - 1) /\ k * (m - 1) = k * m - k /\ k * (y % m) \in Nat
    BY <1>1, <1>3, Monotone
<1>6. (y % m) * k = k * (y % m) /\ k * m = m * k
    BY <1>1, <1>3
<1>7. x \div m + (y % m) * k \in 0..BASE - 1
    BY <1>1, <1>4, <1>5, <1>6, DigitSizes
<1> QED
    BY <1>7, DigitSizes DEF m, k, Digit

\* The shifts of x_divrem keep digits.
LEMMA LeftDigits ==
    ASSUME NEW a \in Seq(Digit), NEW e \in 0..SHIFT
    PROVE  /\ v_lshift(a, e) \in Seq(Digit) /\ Len(v_lshift(a, e)) = Len(a)
           /\ v_lshift_carry(a, e) \in Digit
<1>1. \A i \in DOMAIN a : ((a[i] * 2^e) % BASE) + ((At(a, i - 1) * 2^e) \div BASE) \in Digit
  <2> TAKE i \in DOMAIN a
  <2>1. a[i] \in Digit /\ i - 1 \in Int
      OBVIOUS
  <2>2. At(a, i - 1) \in Digit
      BY <2>1, AtDigit
  <2> QED
      BY <2>1, <2>2, ShiftedDigit
<1>2. DOMAIN a = 1..Len(a) /\ Len(a) \in Nat
    OBVIOUS
<1>3. v_lshift(a, e) \in Seq(Digit) /\ Len(v_lshift(a, e)) = Len(a)
    BY <1>1, <1>2 DEF v_lshift
<1>4. v_lshift_carry(a, e) \in Digit
  <2>1. CASE a = <<>>
      BY <2>1, DigitSizes DEF v_lshift_carry, Digit
  <2>2. CASE a # <<>>
    <3>1. a[Len(a)] \in Digit
        BY <2>2, <1>2, EmptySeq
    <3> QED
        BY <3>1, <2>2, ShiftedDigit DEF v_lshift_carry
  <2> QED
      BY <2>1, <2>2
<1> QED
    BY <1>3, <1>4

LEMMA RightDigits ==
    ASSUME NEW a \in Seq(Digit), NEW e \in 0..SHIFT
    PROVE  v_rshift(a, e) \in Seq(Digit)
<1>1. \A i \in DOMAIN a : a[i] \div 2^e + ((At(a, i + 1) % 2^e) * 2^(SHIFT - e)) \in Digit
  <2> TAKE i \in DOMAIN a
  <2>1. a[i] \in Digit /\ i + 1 \in Int
      OBVIOUS
  <2>2. At(a, i + 1) \in Digit
      BY <2>1, AtDigit
  <2> QED
      BY <2>1, <2>2, LoweredDigit
<1>2. DOMAIN a = 1..Len(a) /\ Len(a) \in Nat
    OBVIOUS
<1> QED
    BY <1>1, <1>2 DEF v_rshift

\* A shift by n bits: whole digits, and bits within a digit
LEMMA WordShift ==
    ASSUME NEW n \in Nat
    PROVE  n \div SHIFT \in Nat /\ n % SHIFT \in 0..SHIFT - 1 /\ n % SHIFT \in 0..SHIFT
<1>1. SHIFT \in Nat \ {0} /\ n \in Int
    BY DigitSizes
<1>2. n % SHIFT \in 0..SHIFT - 1
    BY <1>1, Division
<1>3. n \div SHIFT \in 0..n
    BY <1>1, Natural
<1> QED
    BY <1>1, <1>2, <1>3

LEMMA LshiftVector == ASSUME NEW a \in Seq(Digit), NEW n \in Nat PROVE Vector(int_lshift(a, n))
<1> DEFINE e == n % SHIFT
           word == n \div SHIFT
           top == IF e = 0 THEN <<>> ELSE <<v_lshift_carry(a, e)>>
           zeros == [i \in 1..word |-> 0]
           x == zeros \o v_lshift(a, e) \o top
<1>1. e \in 0..SHIFT /\ word \in Nat
    BY WordShift
<1> HIDE DEF e, word
<1>2. v_lshift(a, e) \in Seq(Digit) /\ v_lshift_carry(a, e) \in Digit
    BY <1>1, LeftDigits
<1>3. top \in Seq(Digit)
    BY <1>2
<1>4. zeros \in Seq(Digit)
  <2>1. 0 \in Digit
      BY DigitSizes DEF Digit
  <2> QED
      BY <2>1, <1>1
<1>5. zeros \o v_lshift(a, e) \in Seq(Digit)
    BY <1>2, <1>4, ConcatProperties
<1>6. x \in Seq(0..MASK)
    BY <1>3, <1>5, ConcatProperties DEF Digit
<1>7. int_lshift(a, n) = int_normalize(x)
    BY DEF int_lshift, e, word
<1> HIDE DEF x
<1> QED
    BY <1>6, <1>7, NormalizeVector

LEMMA RshiftVector == ASSUME NEW a \in Seq(Digit), NEW n \in Nat PROVE Vector(int_rshift(a, n))
<1> DEFINE lo == n % SHIFT
           hi == SHIFT - lo
           word == n \div SHIFT
           m == Len(a) - word
           E(i) == ((a[word + i] \div 2^lo) % 2^hi) + (IF i = m THEN 0 ELSE (a[word + i + 1] * 2^hi) % BASE)
           x == [i \in 1..m |-> E(i)]
<1>1. lo \in 0..SHIFT /\ word \in Nat /\ Len(a) \in Nat /\ hi \in 0..SHIFT /\ SHIFT - hi = lo
  <2>1. lo \in 0..SHIFT /\ word \in Nat /\ Len(a) \in Nat
    <3>1. Len(a) \in Nat
        OBVIOUS
    <3>2. lo \in 0..SHIFT /\ word \in Nat
        BY WordShift
    <3> QED
        BY <3>1, <3>2
  <2> HIDE DEF lo
  <2> QED
      BY <2>1, DigitSizes
<1>2. int_rshift(a, n) = int_normalize(x)
    BY DEF int_rshift
<1> HIDE DEF lo, word, hi
<1>3. ASSUME NEW i \in 1..m
      PROVE  E(i) \in Digit
  <2> DEFINE y == a[word + i]
             k == 2^lo
             s == 2^hi
  <2>1. k \in Nat \ {0} /\ s \in Nat \ {0} /\ k * s = BASE /\ s * k = BASE
    <3>1. 2^lo \in Nat \ {0} /\ 2^(SHIFT - lo) \in Nat \ {0} /\ 2^lo * 2^(SHIFT - lo) = BASE
        BY <1>1, Halves
    <3> QED
        BY <3>1 DEF hi
  <2>2. y \in Digit /\ y \in Nat /\ y < BASE
      BY <1>1, DigitIs
  <2> HIDE DEF y
  <2>3. (y \div k) % s \in 0..s - 1
    <3>1. y \div k \in Int
      <4>1. y \in Int
          BY <2>2
      <4> QED
          BY <4>1, <2>1, Division
    <3> HIDE DEF k, s
    <3> QED
        BY <3>1, <2>1, Division
  <2>4. CASE i = m
    <3>1. E(i) = (y \div k) % s
        BY <2>4, <2>3 DEF y
    <3>2. s * 1 <= s * k
      <4> HIDE DEF k, s
      <4> QED
          BY <2>1, Monotone
    <3>3. (y \div k) % s \in 0..BASE - 1
      <4> HIDE DEF k, s
      <4> QED
          BY <3>2, <2>1, <2>3, DigitSizes
    <3> QED
        BY <3>1, <3>3, DigitSizes DEF Digit
  <2>5. CASE i # m
    <3> DEFINE z == a[word + i + 1]
    <3>1. z \in Nat
        BY <2>5, <1>1, DigitIs
    <3> HIDE DEF z
    <3>2. (z * 2^hi) % BASE = 2^hi * (z % 2^(SHIFT - hi))
        BY <3>1, <1>1, LowPart
    <3>3. (z * s) % BASE = s * (z % k)
        BY <3>2, <1>1
    <3>4. E(i) = ((y \div k) % s) + s * (z % k)
        BY <2>5, <3>3 DEF y, z
    <3> HIDE DEF k, s
    <3>5. z % k \in 0..k - 1
      <4>1. z \in Int
          BY <3>1
      <4> QED
          BY <4>1, <2>1, Division
    <3>6. s * (z % k) <= s * (k - 1) /\ s * (k - 1) = s * k - s /\ s * (z % k) \in Nat
        BY <2>1, <3>5, Monotone
    <3>7. ((y \div k) % s) + s * (z % k) \in 0..BASE - 1
        BY <2>1, <2>3, <3>6, DigitSizes
    <3> QED
        BY <3>4, <3>7, DigitSizes DEF Digit
  <2> QED
      BY <2>4, <2>5
<1> HIDE DEF E
<1>4. x \in Seq(0..MASK)
  <2>0. m \in Int /\ 1..m = 1..(IF m < 0 THEN 0 ELSE m) /\ (IF m < 0 THEN 0 ELSE m) \in Nat
      BY <1>1
  <2> HIDE DEF m
  <2>1. x \in Seq(Digit)
      BY <2>0, <1>3
  <2> QED
      BY <2>1 DEF Digit
<1> HIDE DEF x
<1> QED
    BY <1>2, <1>4, NormalizeVector

-----------------------------------------------------------------------------
(* Short division, and the conversions of numbers *)

\* Remainders of inplace_divrem1 stay below the divisor.
LEMMA BelowIs ==
    ASSUME NEW a \in Seq(Digit), NEW n \in Nat \ {0}
    PROVE  /\ \A i \in 1..Len(a) + 1 : inplace_divrem1(a, n)[i] \in 0..n - 1
           /\ inplace_divrem1(a, n)[Len(a) + 1] = 0
           /\ \A i \in 1..Len(a) :
                  inplace_divrem1(a, n)[i] = (inplace_divrem1(a, n)[i + 1] * BASE + a[i]) % n
<1> DEFINE V == 0..n - 1
           top == Len(a) + 1
           E(i, y) == (y * BASE + a[i]) % n
           G == [i \in 1..top - 1 |-> [y \in V |-> E(i, y)]]
           Is(f) == f = [i \in 1..top |-> IF i > Len(a) THEN 0 ELSE E(i, f[i + 1])]
           h == CHOOSE f : Is(f)
<1>1. ASSUME NEW i \in 1..Len(a), NEW y \in V
      PROVE  E(i, y) \in V
  <2>1. a[i] \in Digit
      OBVIOUS
  <2>2. a[i] \in Nat /\ BASE \in Nat /\ y \in Nat
      BY <2>1, DigitIs, DigitSizes
  <2>3. y * BASE + a[i] \in Int
      BY <2>2
  <2> QED
      BY <2>3, Division
<1>2. Len(a) \in Nat /\ top \in Int /\ 1 \in Int /\ top - 1 = Len(a) /\ 0 \in V /\ 1 <= top
    OBVIOUS
<1>3. \A i \in 1..top : (i > Len(a) <=> i = top) /\ (i # top => i \in 1..Len(a) /\ i + 1 \in 1..top)
    OBVIOUS
<1>4. inplace_divrem1(a, n) = h
    BY DEF inplace_divrem1
<1> HIDE DEF E, V, top
<1>5. Descends(G, 1, top, V)
    BY <1>1, <1>2 DEF Descends
<1>6. \A i \in 1..Len(a) : \A y \in V : G[i][y] = E(i, y)
    BY <1>2
<1> HIDE DEF G
<1>7. PICK f : f \in [1..top -> V] /\ Unwound(f, 1, top, 0, G)
    BY <1>2, <1>5, Descent, Zenon
<1>8. f = [i \in 1..top |-> IF i = top THEN 0 ELSE G[i][f[i + 1]]]
    BY <1>7 DEF Unwound
<1>9. Is(f)
    BY <1>3, <1>6, <1>7, <1>8
<1>10. Is(h)
    BY <1>9
<1> HIDE DEF h
<1>11. h[top] \in V
  <2>1. top \in 1..top
      BY <1>2
  <2> QED
      BY <2>1, <1>2, <1>3, <1>10
<1>12. ASSUME NEW i \in 1..top - 1, h[i + 1] \in V
       PROVE  h[i] \in V
  <2>1. i \in 1..top /\ i # top /\ i \in 1..Len(a) /\ ~ (i > Len(a))
      BY <1>2
  <2>2. h[i] = E(i, h[i + 1])
      BY <2>1, <1>10
  <2> QED
      BY <2>1, <2>2, <1>12, <1>1
<1>13. \A i \in 1..top : h[i] \in V
    BY <1>2, <1>11, <1>12, Remains
<1>14. h[top] = 0
  <2>1. top \in 1..top
      BY <1>2
  <2> QED
      BY <2>1, <1>3, <1>10
<1>15. \A i \in 1..Len(a) : h[i] = E(i, h[i + 1])
  <2> TAKE i \in 1..Len(a)
  <2>1. i \in 1..top /\ i # top /\ ~ (i > Len(a))
      BY <1>2
  <2> QED
      BY <2>1, <1>10
<1> QED
    BY <1>4, <1>13, <1>14, <1>15 DEF V, top, E

QuotientDigits(a, n) == [i \in DOMAIN a |-> (inplace_divrem1(a, n)[i + 1] * BASE + a[i]) \div n]

LEMMA DivremIs ==
    ASSUME NEW a \in Seq(Digit), NEW n \in Nat \ {0}
    PROVE  /\ QuotientDigits(a, n) \in Seq(Digit) /\ Len(QuotientDigits(a, n)) = Len(a)
           /\ divrem1(a, n) = [q |-> int_normalize(QuotientDigits(a, n)), r |-> inplace_divrem1(a, n)[1]]
<1> DEFINE rem == inplace_divrem1(a, n)
           x == [i \in DOMAIN a |-> (rem[i + 1] * BASE + a[i]) \div n]
<1>1. \A i \in 1..Len(a) + 1 : rem[i] \in 0..n - 1
    BY BelowIs
<1>2. divrem1(a, n) = [q |-> int_normalize(x), r |-> rem[1]]
    BY DEF divrem1
<1> HIDE DEF rem
<1>3. ASSUME NEW i \in DOMAIN a
      PROVE  (rem[i + 1] * BASE + a[i]) \div n \in Digit
  <2> DEFINE y == rem[i + 1]
  <2>1. i + 1 \in 1..Len(a) + 1 /\ a[i] \in Digit
      OBVIOUS
  <2>2. y \in 0..n - 1 /\ a[i] \in Nat /\ a[i] < BASE /\ BASE \in Nat
      BY <2>1, <1>1, DigitIs, DigitSizes
  <2> HIDE DEF y
  <2>3. y * BASE + a[i] \in Nat
      BY <2>2
  <2>4. BASE * y <= BASE * (n - 1) /\ BASE * (n - 1) = BASE * n - BASE /\ BASE * y = y * BASE /\ BASE * n = n * BASE
      BY <2>2, Monotone
  <2>5. y * BASE + a[i] < n * (BASE - 1 + 1) /\ BASE - 1 \in Nat
      BY <2>2, <2>4, DigitSizes
  <2>6. (y * BASE + a[i]) \div n \in 0..BASE - 1
      BY <2>3, <2>5, Under
  <2> QED
      BY <2>6, DigitSizes DEF y, Digit
<1>4. x \in Seq(Digit) /\ Len(x) = Len(a)
  <2>1. DOMAIN a = 1..Len(a) /\ Len(a) \in Nat
      OBVIOUS
  <2> QED
      BY <2>1, <1>3
<1> QED
    BY <1>2, <1>4 DEF QuotientDigits, rem

LEMMA DivremVector ==
    ASSUME NEW a \in Seq(Digit), NEW n \in Nat \ {0}
    PROVE  Vector(divrem1(a, n).q) /\ divrem1(a, n).r \in Nat
<1>1. /\ QuotientDigits(a, n) \in Seq(0..MASK)
      /\ divrem1(a, n) = [q |-> int_normalize(QuotientDigits(a, n)), r |-> inplace_divrem1(a, n)[1]]
    BY DivremIs DEF Digit
<1>2. inplace_divrem1(a, n)[1] \in Nat
  <2>1. 1 \in 1..Len(a) + 1
      OBVIOUS
  <2>2. inplace_divrem1(a, n)[1] \in 0..n - 1
      BY <2>1, BelowIs
  <2> QED
      BY <2>2
<1> QED
    BY <1>1, <1>2, NormalizeVector

\* The loops that read a number: COInt_AsSsize_t and Number
\* The loop of COInt_AsSsize_t keeps remainders, too: of a word.
LEMMA AccumulatedIs ==
    ASSUME NEW a \in Seq(Digit)
    PROVE  /\ 2^LONG_BITS \in Nat \ {0}
           /\ Accumulated(a).value = inplace_divrem1(a, 2^LONG_BITS)[1]
           /\ Accumulated(a).value \in Nat
           /\ Accumulated(a).overflow =
                  \E i \in DOMAIN a : inplace_divrem1(a, 2^LONG_BITS)[i] \div BASE
                                        # inplace_divrem1(a, 2^LONG_BITS)[i + 1]
<1>1. 2^LONG_BITS \in Nat \ {0}
    BY DigitsAssumption, Powers
<1> DEFINE h == inplace_divrem1(a, 2^LONG_BITS)
<1>2. Accumulated(a) = [overflow |-> \E i \in DOMAIN a : h[i] \div BASE # h[i + 1], value |-> h[1]]
    BY DEF Accumulated, inplace_divrem1
<1>3. h[1] \in 0..2^LONG_BITS - 1
  <2>1. 1 \in 1..Len(a) + 1
      OBVIOUS
  <2> QED
      BY <2>1, <1>1, BelowIs
<1>4. h[1] \in Nat
  <2>1. PICK n : n = 2^LONG_BITS
      OBVIOUS
  <2> QED
      BY <2>1, <1>1, <1>3
<1> HIDE DEF h
<1> QED
    BY <1>1, <1>2, <1>4 DEF h

LEMMA NumberIs ==
    ASSUME NEW x, x.v \in Seq(Digit)
    PROVE  Number(x) \in Int /\ (~x.neg => Number(x) \in Nat)
<1> DEFINE n == Len(x.v)
           E(i, y) == y + x.v[i] * 2^(SHIFT * (i - 1))
           G == [i \in 0 + 1..n |-> [y \in Nat |-> E(i, y)]]
           Is(f) == f = [i \in 0..n |-> IF i = 0 THEN 0 ELSE E(i, f[i - 1])]
           h == CHOOSE f : Is(f)
<1>1. n \in Nat /\ n \in Int /\ 0 \in Int /\ 0 \in Nat /\ 0 <= n /\ \A i \in 1..n : x.v[i] \in Digit
    OBVIOUS
<1>2. Number(x) = IF x.neg THEN -h[n] ELSE h[n]
    BY DEF Number
<1>3. ASSUME NEW i \in 1..n, NEW y \in Nat
      PROVE  E(i, y) \in Nat
  <2>1. x.v[i] \in Nat
      BY <1>1, DigitIs
  <2>2. SHIFT * (i - 1) \in Nat
      BY DigitSizes
  <2>3. 2^(SHIFT * (i - 1)) \in Nat
      BY <2>2, Powers
  <2> QED
      BY <2>1, <2>3
<1> HIDE DEF E, n
<1>5. Maps(G, 0, n, Nat)
    BY <1>1, <1>3 DEF Maps
<1>6. \A i \in 0..n : \A y \in Nat : i # 0 => G[i][y] = E(i, y)
    BY <1>1
<1> HIDE DEF G
<1>7. PICK f : f \in [0..n -> Nat] /\ Chained(f, 0, n, 0, G)
    BY <1>1, <1>5, Iteration, Zenon
<1>8. f = [i \in 0..n |-> IF i = 0 THEN 0 ELSE G[i][f[i - 1]]]
    BY <1>7 DEF Chained
<1>9. \A i \in 0..n : i # 0 => f[i - 1] \in Nat
    BY <1>1, <1>7
<1>10. Is(f)
    BY <1>6, <1>8, <1>9
<1>11. Is(h)
    BY <1>10
<1> HIDE DEF h
<1>12. h[0] \in Nat
    BY <1>1, <1>11
<1>13. ASSUME NEW i \in 0 + 1..n, h[i - 1] \in Nat
       PROVE  h[i] \in Nat
  <2>1. i \in 0..n /\ i # 0 /\ i \in 1..n
      BY <1>1
  <2>2. h[i] = E(i, h[i - 1])
      BY <2>1, <1>11
  <2> QED
      BY <2>1, <2>2, <1>13, <1>3
<1>14. \A i \in 0..n : h[i] \in Nat
    BY <1>1, <1>12, <1>13, Stays, Zenon
<1>15. n \in 0..n
    BY <1>1
<1>16. h[n] \in Nat
    BY <1>14, <1>15
<1> QED
    BY <1>2, <1>16

\* Numerals exist in every base, and their digits are below it: f gives those of 0..n in base b.
LEMMA Shorter == ASSUME NEW b \in Nat, b >= 2, NEW m \in Nat, m > 0 PROVE m \div b \in 0..m - 1
<1>1. m \div b \in 0..m /\ (m <= m \div b <=> b * m <= m)
    BY Fitting
<1>2. 2 * m <= b * m
    BY Monotone
<1>3. b * m \in Nat
    OBVIOUS
<1> QED
    BY <1>1, <1>2, <1>3

Numbering(f, n, b) ==
    \A m \in 0..n : /\ f[m] \in Seq(0..b - 1)
                    /\ f[m] = IF m < b THEN <<m>> ELSE Append(f[m \div b], m % b)

LEMMA NumeralChain ==
    ASSUME NEW n \in Nat, NEW b \in Nat, b >= 2
    PROVE  \E f : Numbering(f, n, b) /\ Exact!Numeral(n, b) = f[n]
<1> DEFINE D == 0..n
           U == 0..b - 1
           V == Seq(U)
           rank == [m \in D |-> m]
           E(m, g) == IF m < b THEN <<m>> ELSE Append(g[m \div b], m % b)
           F == [m \in D |-> [g \in [D -> V] |-> E(m, g)]]
           Is(f) == f = [m \in D |-> E(m, f)]
           h == CHOOSE f : Is(f)
<1>1. V # {} /\ rank \in [D -> 0..n]
  <2>1. <<>> \in V
      OBVIOUS
  <2> QED
      BY <2>1
<1>2. \A m \in D : ~ (m < b) => m \div b \in D /\ m \div b < m
  <2> TAKE m \in D
  <2> HAVE ~ (m < b)
  <2>1. m \in Nat /\ m > 0
      OBVIOUS
  <2>2. m \div b \in 0..m - 1
      BY <2>1, Shorter
  <2> QED
      BY <2>2
<1>3. \A m \in D : m % b \in U /\ (m < b => m \in U)
  <2> TAKE m \in D
  <2>1. m \in Int /\ b \in Nat \ {0}
      OBVIOUS
  <2>2. m % b \in 0..b - 1
      BY <2>1, Division
  <2> QED
      BY <2>2
<1>4. Exact!Numeral(n, b) = h[n]
    BY DEF Exact!Numeral
<1> HIDE DEF V
<1>5. ASSUME NEW m \in D, NEW g, ~ (m < b) => g[m \div b] \in V
      PROVE  E(m, g) \in V
  <2>1. CASE m < b
    <3>1. m \in U
        BY <2>1, <1>3
    <3> HIDE DEF U
    <3>2. <<m>> \in V
        BY <3>1 DEF V
    <3> QED
        BY <3>2, <2>1
  <2>2. CASE ~ (m < b)
    <3> DEFINE y == g[m \div b]
               z == m % b
    <3>1. z \in U /\ y \in V
        BY <1>3, <1>5, <2>2
    <3> HIDE DEF y, z, U
    <3>2. Append(y, z) \in V
        BY <3>1, AppendProperties DEF V
    <3> QED
        BY <3>2, <2>2 DEF y, z
  <2> QED
      BY <2>1, <2>2
<1>6. ASSUME NEW m \in D, NEW g, NEW k, ~ (m < b) => g[m \div b] = k[m \div b]
      PROVE  E(m, g) = E(m, k)
    BY <1>6
<1> HIDE DEF E
<1>7. ASSUME NEW m \in D, NEW g \in [D -> V], ~ (m < b)
      PROVE  g[m \div b] \in V
    BY <1>2, <1>7
<1>8. F \in [D -> [[D -> V] -> V]] /\ \A m \in D : \A g \in [D -> V] : F[m][g] = E(m, g)
    BY <1>5, <1>7
<1>9. \A m \in D : \A y \in D : rank[y] = y
    OBVIOUS
<1> HIDE DEF F, rank, D
<1>10. ASSUME NEW m \in D, NEW g \in [D -> V], NEW k \in [D -> V],
             \A y \in D : rank[y] < rank[m] => g[y] = k[y]
       PROVE  F[m][g] = F[m][k]
  <2>1. ~ (m < b) => g[m \div b] = k[m \div b]
      BY <1>2, <1>9, <1>10
  <2> QED
      BY <2>1, <1>6, <1>8
<1>11. Steps(F, D, rank, V)
    BY <1>8, <1>10 DEF Steps
<1>12. PICK f \in [D -> V] : \A m \in D : f[m] = F[m][f]
    BY <1>1, <1>11, Recursion
<1>13. Is(f)
    BY <1>8, <1>12
<1>14. Is(h)
    BY <1>13
<1> HIDE DEF h
<1>15. \A m \in D : h[m] = E(m, h)
    BY <1>14
<1> DEFINE S == {k \in Nat : \A m \in D : m <= k => h[m] \in V}
<1>16. 0 \in S
  <2>1. ASSUME NEW m \in D, m <= 0
        PROVE  m < b
      BY <2>1 DEF D
  <2> QED
      BY <2>1, <1>5, <1>15
<1>17. ASSUME NEW k \in Nat, k \in S
       PROVE  k + 1 \in S
  <2>1. ASSUME NEW m \in D, m <= k + 1
        PROVE  h[m] \in V
    <3>1. ~ (m < b) => m \div b \in D /\ m \div b <= k
        BY <1>2, <2>1 DEF D
    <3>2. ~ (m < b) => h[m \div b] \in V
        BY <3>1, <1>17
    <3> QED
        BY <3>2, <1>5, <1>15
  <2> QED
      BY <2>1
<1> HIDE DEF S
<1>18. \A m \in D : m \in Nat /\ h[m] \in V
  <2> TAKE m \in D
  <2>1. m \in Nat /\ m <= m
      BY DEF D
  <2>2. m \in S
      BY <2>1, <1>16, <1>17, Induction
  <2> QED
      BY <2>1, <2>2 DEF S
<1>19. \A m \in D : h[m] = IF m < b THEN <<m>> ELSE Append(h[m \div b], m % b)
    BY <1>15, Zenon DEF E
<1>20. Numbering(h, n, b)
    BY <1>18, <1>19, Zenon DEF V, U, D, Numbering
<1> QED
    BY <1>4, <1>20

LEMMA NumeralIs ==
    ASSUME NEW n \in Nat, NEW b \in Nat, b >= 2
    PROVE  Exact!Numeral(n, b) \in Seq(0..b - 1)
<1>1. PICK f : Numbering(f, n, b) /\ Exact!Numeral(n, b) = f[n]
    BY NumeralChain
<1>2. n \in 0..n
    OBVIOUS
<1>3. f[n] \in Seq(0..b - 1)
    BY <1>1, <1>2 DEF Numbering
<1> QED
    BY <1>1, <1>3

-----------------------------------------------------------------------------
(* Literals of a power of two *)

\* The bits read so far that do not fill a digit
Readings == {st \in [accum : Nat, bits : Nat, v : Seq(Digit)] : st.bits < SHIFT /\ st.accum < 2^st.bits}

Filled(st, x, e) == [accum |-> x \div BASE, bits |-> st.bits + e - SHIFT, v |-> Append(st.v, x % BASE)]

Gathered(st, x, e) == [st EXCEPT !.accum = x, !.bits = @ + e]

\* What a turn of the loop of int_from_binary_base does to its state
LEMMA GatheredIs ==
    ASSUME NEW st \in [accum : Nat, bits : Nat, v : Seq(Digit)], NEW x, NEW e
    PROVE  Gathered(st, x, e) = [accum |-> x, bits |-> st.bits + e, v |-> st.v]
<1> DEFINE y == Gathered(st, x, e)
<1>1. y.accum = x /\ y.bits = st.bits + e /\ y.v = st.v
    BY DEF Gathered
<1>2. DOMAIN y = {"accum", "bits", "v"} /\ y = [i \in DOMAIN y |-> y[i]]
    BY DEF Gathered
<1> HIDE DEF y
<1>3. y = [accum |-> y.accum, bits |-> y.bits, v |-> y.v]
    BY <1>2
<1> QED
    BY <1>1, <1>3 DEF y

LEMMA FilledIs ==
    ASSUME NEW st, NEW x, NEW e
    PROVE  Filled(st, x, e) = [accum |-> x \div BASE, bits |-> st.bits + e - SHIFT, v |-> Append(st.v, x % BASE)]
BY DEF Filled

ReadBits(st, c, e) ==
    IF st.bits + e >= SHIFT THEN Filled(st, st.accum + c * 2^st.bits, e)
    ELSE Gathered(st, st.accum + c * 2^st.bits, e)

\* The accumulator never holds SHIFT bits between two turns.
LEMMA ReadBitsIs ==
    ASSUME NEW e \in 1..SHIFT, NEW st \in Readings, NEW c \in 0..2^e - 1
    PROVE  ReadBits(st, c, e) \in Readings
<1> DEFINE have == st.bits
           m == 2^have
           k == 2^e
           x == st.accum + c * m
           total == have + e
<1>1. st.accum \in Nat /\ have \in Nat /\ st.v \in Seq(Digit) /\ have < SHIFT /\ st.accum < m
    BY DEF Readings
<1>2. e \in Nat /\ e <= SHIFT /\ SHIFT \in Nat
    BY DigitSizes
<1>3. m \in Nat \ {0} /\ k \in Nat \ {0} /\ 2^total = m * k /\ 2^total \in Nat
  <2>1. 2^(have + e) = 2^have * 2^e
      BY <1>1, <1>2, TwoPowers
  <2>2. 2^have \in Nat \ {0} /\ 2^e \in Nat \ {0}
      BY <1>1, <1>2, Powers
  <2> QED
      BY <2>1, <2>2
<1>4. x \in Nat /\ x < 2^total
  <2> DEFINE all == 2^total
             y == st.accum
  <2>1. c \in Nat /\ c <= k - 1
      BY <1>3
  <2> HIDE DEF m, k, all, y
  <2>2. m * c <= m * (k - 1) /\ m * (k - 1) = m * k - m /\ c * m = m * c /\ c * m \in Nat
      BY <2>1, <1>3, Monotone
  <2>3. y \in Nat /\ y <= m - 1 /\ all = m * k
      BY <1>1, <1>3 DEF all, y
  <2>4. y + c * m \in Nat /\ y + c * m < all
      BY <2>2, <2>3, <1>3
  <2> QED
      BY <2>4 DEF all, y
<1>5. ReadBits(st, c, e) = IF total >= SHIFT THEN Filled(st, x, e) ELSE Gathered(st, x, e)
    BY DEF ReadBits
<1> HIDE DEF x
<1>6. Filled(st, x, e) = [accum |-> x \div BASE, bits |-> total - SHIFT, v |-> Append(st.v, x % BASE)]
  <2>1. st.bits + e - SHIFT = total - SHIFT
      BY <1>1, <1>2
  <2> HIDE DEF total, have
  <2> QED
      BY <2>1, FilledIs
<1>7. Gathered(st, x, e) = [accum |-> x, bits |-> total, v |-> st.v]
  <2>1. st \in [accum : Nat, bits : Nat, v : Seq(Digit)]
      BY DEF Readings
  <2> QED
      BY <2>1, GatheredIs
<1> HIDE DEF m, k
<1>8. CASE total >= SHIFT
  <2> DEFINE more == total - SHIFT
  <2>1. more \in Nat /\ more < SHIFT /\ SHIFT + more = total
      BY <1>1, <1>2, <1>8
  <2>2. 2^more \in Nat \ {0} /\ 2^total = BASE * 2^more
    <3>1. 2^(SHIFT + more) = 2^SHIFT * 2^more
        BY <2>1, <1>2, TwoPowers
    <3> QED
        BY <3>1, <2>1, Powers, DigitSizes
  <2>3. x \div BASE \in 0..2^more - 1
    <3>1. x < BASE * (2^more - 1 + 1) /\ 2^more - 1 \in Nat /\ BASE \in Nat \ {0}
        BY <2>2, <1>4, DigitSizes
    <3> QED
        BY <3>1, <1>4, Under
  <2>4. x % BASE \in Digit
    <3>1. x \in Int
        BY <1>4
    <3> QED
        BY <3>1, Remainder DEF Digit
  <2>5. Append(st.v, x % BASE) \in Seq(Digit)
      BY <2>4, <1>1, AppendProperties
  <2> HIDE DEF more
  <2>6. Filled(st, x, e) = [accum |-> x \div BASE, bits |-> more, v |-> Append(st.v, x % BASE)]
      BY <1>6 DEF more
  <2>7. Filled(st, x, e) \in Readings
      BY <2>1, <2>2, <2>3, <2>5, <2>6 DEF Readings
  <2> QED
      BY <2>7, <1>5, <1>8
<1>9. CASE ~ (total >= SHIFT)
  <2> DEFINE g == Gathered(st, x, e)
  <2>1. total \in Nat /\ total < SHIFT
      BY <1>1, <1>2, <1>9
  <2>2. g = [accum |-> x, bits |-> total, v |-> st.v]
      BY <1>7
  <2> HIDE DEF g, total, have
  <2>3. g \in Readings
      BY <2>1, <2>2, <1>1, <1>4 DEF Readings
  <2> QED
      BY <2>3, <1>5, <1>9 DEF g
<1> QED
    BY <1>8, <1>9

\* How many bits a state of the loop holds
BitsHeld(st) == SHIFT * Len(st.v) + st.bits

LEMMA ReadBitsHeld ==
    ASSUME NEW e \in 1..SHIFT, NEW st \in Readings, NEW c
    PROVE  BitsHeld(ReadBits(st, c, e)) = BitsHeld(st) + e
<1> DEFINE x == st.accum + c * 2^st.bits
           n == Len(st.v)
           have == st.bits
<1>1. n \in Nat /\ have \in Nat /\ e \in Nat /\ SHIFT \in Nat /\ st.v \in Seq(Digit)
      /\ st \in [accum : Nat, bits : Nat, v : Seq(Digit)]
    BY DigitSizes DEF Readings
<1>2. ReadBits(st, c, e) = IF have + e >= SHIFT THEN Filled(st, x, e) ELSE Gathered(st, x, e)
    BY DEF ReadBits
<1>3. BitsHeld(st) = SHIFT * n + have
    BY DEF BitsHeld
<1> HIDE DEF x
<1>4. Filled(st, x, e).v = Append(st.v, x % BASE) /\ Filled(st, x, e).bits = have + e - SHIFT
    BY FilledIs
<1>5. Gathered(st, x, e).v = st.v /\ Gathered(st, x, e).bits = have + e
    BY <1>1, GatheredIs
<1>6. Len(Append(st.v, x % BASE)) = n + 1
    BY <1>1
<1>7. BitsHeld(Filled(st, x, e)) = SHIFT * (n + 1) + (have + e - SHIFT)
    BY <1>4, <1>6 DEF BitsHeld
<1>8. BitsHeld(Gathered(st, x, e)) = SHIFT * n + (have + e)
    BY <1>5 DEF BitsHeld
<1> HIDE DEF n, have
<1>9. SHIFT * (n + 1) = SHIFT * n + SHIFT /\ SHIFT * n \in Nat
    BY <1>1
<1> DEFINE k == SHIFT * n
<1>10. SHIFT * (n + 1) = k + SHIFT /\ k \in Nat /\ BitsHeld(st) = k + have
    BY <1>3, <1>9
<1>11. BitsHeld(Gathered(st, x, e)) = k + (have + e)
    BY <1>8
<1>12. BitsHeld(Filled(st, x, e)) = k + SHIFT + (have + e - SHIFT)
    BY <1>7, <1>10
<1> HIDE DEF k
<1>13. k + SHIFT + (have + e - SHIFT) = k + have + e /\ k + (have + e) = k + have + e
    BY <1>1, <1>10
<1> QED
    BY <1>2, <1>10, <1>11, <1>12, <1>13

Reading(h, s, bits) ==
    /\ \A i \in 0..Len(s) : h[i] \in Readings
    /\ h[0] = [accum |-> 0, bits |-> 0, v |-> <<>>]
    /\ \A i \in 1..Len(s) : h[i] = ReadBits(h[i - 1], s[Len(s) + 1 - i], bits)

ReadOut(st) == st.v \o (IF st.bits > 0 THEN <<st.accum>> ELSE <<>>)

LEMMA BinaryChain ==
    ASSUME NEW bits \in 1..SHIFT, NEW s \in Seq(0..2^bits - 1)
    PROVE  \E h : Reading(h, s, bits) /\ int_from_binary_base(s, bits) = ReadOut(h[Len(s)])
<1> DEFINE n == Len(s)
           V == Readings
           c == [accum |-> 0, bits |-> 0, v |-> <<>>]
           E(i, st) == ReadBits(st, s[n + 1 - i], bits)
           G == [i \in 0 + 1..n |-> [st \in V |-> E(i, st)]]
           Is(f) == f = [i \in 0..n |-> IF i = 0 THEN c ELSE E(i, f[i - 1])]
           h == CHOOSE f : Is(f)
<1>1. n \in Nat /\ n \in Int /\ 0 \in Int /\ 0 <= n /\ \A i \in 1..n : s[n + 1 - i] \in 0..2^bits - 1
    OBVIOUS
<1>2. c \in V
  <2>1. <<>> \in Seq(Digit) /\ 2^0 = 1
      BY EmptySeq
  <2>2. 0 < SHIFT
      BY DigitSizes
  <2> QED
    <3>1. c.accum = 0 /\ c.bits = 0 /\ c.v = <<>> /\ c \in [accum : Nat, bits : Nat, v : Seq(Digit)]
        BY <2>1
    <3> HIDE DEF c
    <3>2. c.bits < SHIFT /\ c.accum < 2^c.bits
        BY <3>1, <2>1, <2>2
    <3> QED
        BY <3>1, <3>2 DEF Readings
<1>3. int_from_binary_base(s, bits) = ReadOut(h[n])
    BY DEF int_from_binary_base, ReadBits, Filled, Gathered, ReadOut
<1>4. ASSUME NEW i \in 1..n, NEW st \in V
      PROVE  E(i, st) \in V
    BY <1>1, ReadBitsIs
<1> HIDE DEF E, n, V, c
<1>5. Maps(G, 0, n, V)
    BY <1>1, <1>4 DEF Maps
<1>6. \A i \in 0..n : \A y \in V : i # 0 => G[i][y] = E(i, y)
    BY <1>1
<1> HIDE DEF G
<1>7. PICK f : f \in [0..n -> V] /\ Chained(f, 0, n, c, G)
    BY <1>1, <1>2, <1>5, Iteration, Zenon
<1>8. f = [i \in 0..n |-> IF i = 0 THEN c ELSE G[i][f[i - 1]]]
    BY <1>7 DEF Chained
<1>9. \A i \in 0..n : i # 0 => f[i - 1] \in V
    BY <1>1, <1>7
<1>10. Is(f)
    BY <1>6, <1>8, <1>9
<1>11. Is(h)
    BY <1>10
<1> HIDE DEF h
<1>12. h[0] \in V
    BY <1>1, <1>2, <1>11
<1>13. ASSUME NEW i \in 0 + 1..n, h[i - 1] \in V
       PROVE  h[i] \in V
  <2>1. i \in 0..n /\ i # 0 /\ i \in 1..n
      BY <1>1
  <2>2. h[i] = E(i, h[i - 1])
      BY <2>1, <1>11
  <2> QED
      BY <2>1, <2>2, <1>13, <1>4
<1>14. \A i \in 0..n : h[i] \in V
    BY <1>1, <1>12, <1>13, Stays, Zenon
<1>15. \A i \in 1..n : h[i] = ReadBits(h[i - 1], s[n + 1 - i], bits)
  <2> TAKE i \in 1..n
  <2>1. i \in 0..n /\ i # 0
      BY <1>1
  <2> QED
      BY <2>1, <1>11 DEF E
<1>16. h[0] = c
    BY <1>1, <1>11
<1>17. Reading(h, s, bits)
    BY <1>14, <1>15, <1>16 DEF Reading, n, V, c
<1> QED
    BY <1>3, <1>17 DEF n

LEMMA BinaryIs ==
    ASSUME NEW bits \in 1..SHIFT, NEW s \in Seq(0..2^bits - 1)
    PROVE  /\ int_from_binary_base(s, bits) \in Seq(Digit)
           /\ Len(int_from_binary_base(s, bits)) <= BinarySize(Len(s), bits)
<1> DEFINE n == Len(s)
           V == Readings
           c == [accum |-> 0, bits |-> 0, v |-> <<>>]
           E(i, st) == ReadBits(st, s[n + 1 - i], bits)
<1>1. n \in Nat /\ n \in Int /\ 0 \in Int /\ 0 <= n /\ \A i \in 1..n : s[n + 1 - i] \in 0..2^bits - 1
    OBVIOUS
<1>2. PICK h : Reading(h, s, bits) /\ int_from_binary_base(s, bits) = ReadOut(h[n])
    BY BinaryChain
<1>3. int_from_binary_base(s, bits) = h[n].v \o (IF h[n].bits > 0 THEN <<h[n].accum>> ELSE <<>>)
    BY <1>2 DEF ReadOut
<1>20. ASSUME NEW i \in 1..n, NEW st \in V
       PROVE  BitsHeld(E(i, st)) = BitsHeld(st) + bits
    BY <1>1, ReadBitsHeld
<1>21. BitsHeld(c) = 0
  <2>1. Len(<<>>) = 0 /\ c.v = <<>> /\ c.bits = 0
      BY EmptySeq
  <2> HIDE DEF c
  <2> QED
      BY <2>1, DigitSizes DEF BitsHeld
<1>11. h[0] = c /\ \A i \in 0..n : i # 0 => h[i] = E(i, h[i - 1])
    BY <1>1, <1>2 DEF Reading
<1>14. \A i \in 0..n : h[i] \in V
    BY <1>2 DEF Reading
<1> HIDE DEF E, n, V, c
<1>15. n \in 0..n
    BY <1>1
<1> DEFINE st == h[n]
<1>16. st \in Readings
    BY <1>14, <1>15 DEF V
<1> HIDE DEF st
<1>17. st.v \in Seq(Digit) /\ st.accum \in Digit
  <2>1. st.bits \in 0..SHIFT /\ st.bits \in Nat /\ st.accum \in Nat /\ st.accum < 2^st.bits /\ st.v \in Seq(Digit)
      BY <1>16, DigitSizes DEF Readings
  <2> DEFINE m == 2^st.bits
             k == 2^(SHIFT - st.bits)
  <2>2. m \in Nat \ {0} /\ k \in Nat \ {0} /\ m * k = BASE
      BY <2>1, Halves
  <2>3. st.accum < m
      BY <2>1
  <2> HIDE DEF m, k
  <2>4. m * 1 <= m * k
      BY <2>2, Monotone
  <2>5. m <= BASE
      BY <2>2, <2>4
  <2> QED
      BY <2>1, <2>3, <2>5, <2>2, DigitSizes DEF Digit
<1>18. (IF st.bits > 0 THEN <<st.accum>> ELSE <<>>) \in Seq(Digit)
    BY <1>17
<1>19. int_from_binary_base(s, bits) = st.v \o (IF st.bits > 0 THEN <<st.accum>> ELSE <<>>)
    BY <1>3 DEF st
<1> DEFINE x == IF st.bits > 0 THEN <<st.accum>> ELSE <<>>
<1>22. \A i \in 0..n : BitsHeld(h[i]) = i * bits
  <2> DEFINE S == {i \in 0..n : BitsHeld(h[i]) = i * bits}
  <2>1. 0 \in S
    <3>1. h[0] = c /\ 0 \in 0..n /\ 0 * bits = 0
        BY <1>1, <1>11
    <3> QED
        BY <3>1, <1>21
  <2>2. ASSUME NEW i \in 0..n - 1, i \in S
        PROVE  i + 1 \in S
    <3> DEFINE j == i + 1
    <3>1. j \in 0..n /\ j # 0 /\ j \in 1..n /\ j - 1 = i /\ i \in 0..n /\ i \in Nat
        BY <1>1
    <3> HIDE DEF j
    <3>2. h[j] = E(j, h[i]) /\ h[i] \in V
        BY <3>1, <1>11, <1>14
    <3>3. BitsHeld(h[j]) = BitsHeld(h[i]) + bits
        BY <3>1, <3>2, <1>20
    <3>4. BitsHeld(h[i]) = i * bits
        BY <2>2
    <3>5. BitsHeld(h[j]) = j * bits
        BY <3>1, <3>3, <3>4 DEF j
    <3> QED
        BY <3>1, <3>5 DEF j
  <2> HIDE DEF S
  <2>3. \A i \in 0..n : i \in S
      BY <2>1, <2>2, <1>1, Up
  <2> QED
      BY <2>3 DEF S
<1>23. Len(st.v \o x) <= BinarySize(n, bits)
  <2> DEFINE l == Len(st.v)
             k == st.bits
             m == n * bits
  <2>1. SHIFT * l + k = m
      BY <1>15, <1>22 DEF st, BitsHeld
  <2>2. l \in Nat /\ k \in Nat /\ k < SHIFT /\ SHIFT \in Nat \ {0}
      BY <1>16, DigitSizes DEF Readings
  <2>3. Len(st.v \o x) = IF k > 0 THEN l + 1 ELSE l
    <3>1. Len(<<st.accum>>) = 1 /\ Len(<<>>) = 0 /\ <<st.accum>> \in Seq(Digit) /\ <<>> \in Seq(Digit)
        BY <1>17, EmptySeq
    <3>2. Len(x) = (IF k > 0 THEN 1 ELSE 0) /\ x \in Seq(Digit)
        BY <3>1
    <3> HIDE DEF x, k
    <3>3. Len(st.v \o x) = l + Len(x)
        BY <3>2, <1>17, ConcatProperties
    <3> HIDE DEF l
    <3> QED
        BY <3>2, <3>3, <2>2
  <2> DEFINE y == SHIFT * l
             all == m + SHIFT - 1
             size == BinarySize(n, bits)
             given == Len(st.v \o x)
  <2>4. size = all \div SHIFT
      BY DEF BinarySize
  <2> HIDE DEF l, k, m, size
  <2>3a. given = IF k > 0 THEN l + 1 ELSE l
      BY <2>3
  <2> HIDE DEF given
  <2>5. y \in Nat /\ all = y + k + SHIFT - 1 /\ SHIFT * (l + 1) = y + SHIFT /\ all \in Int
      BY <2>1, <2>2
  <2> HIDE DEF y, all
  <2>6. CASE k > 0
    <3>1. all = SHIFT * (l + 1) + (k - 1) /\ k - 1 \in Int /\ 0 <= k - 1 /\ k - 1 < SHIFT /\ l + 1 \in Int
        BY <2>2, <2>5, <2>6
    <3>2. all \div SHIFT = l + 1
        BY <3>1, <2>2, <2>5, Quotient, Zenon
    <3>3. size = l + 1
        BY <3>2, <2>4, Zenon
    <3>4. given <= size
        BY <3>3, <2>2, <2>3a, <2>6
    <3> QED
        BY <3>4 DEF size, given
  <2>7. CASE ~ (k > 0)
    <3>1. all = SHIFT * l + (SHIFT - 1) /\ SHIFT - 1 \in Int /\ 0 <= SHIFT - 1 /\ SHIFT - 1 < SHIFT /\ l \in Int
        BY <2>2, <2>5, <2>7 DEF y
    <3>2. all \div SHIFT = l
        BY <3>1, <2>2, <2>5, Quotient, Zenon
    <3>3. size = l
        BY <3>2, <2>4, Zenon
    <3>4. given <= size
        BY <3>3, <2>2, <2>3a, <2>7
    <3> QED
        BY <3>4 DEF size, given
  <2> QED
      BY <2>6, <2>7
<1>24. st.v \o x \in Seq(Digit)
    BY <1>17, <1>18, ConcatProperties
<1>25. int_from_binary_base(s, bits) = st.v \o x
    BY <1>19
<1> HIDE DEF x
<1> QED
    BY <1>23, <1>24, <1>25 DEF n

-----------------------------------------------------------------------------
(* Decimal literals *)

LEMMA Smaller2 == \A m, n \in Nat : Min({m, n}) \in {m, n} /\ Min({m, n}) <= m /\ Min({m, n}) <= n
<1> TAKE m, n \in Nat
<1>1. {m, n} \in SUBSET Nat /\ {m, n} # {}
    OBVIOUS
<1>2. \E x \in {m, n} : \A y \in {m, n} : x <= y
    BY <1>1, Least
<1>3. Min({m, n}) \in {m, n} /\ \A y \in {m, n} : Min({m, n}) <= y
    BY <1>2 DEF Min
<1> QED
    BY <1>3

\* Power(b, n) is the product it should be, and grows at least like 2^n.
LEMMA PowerIs ==
    ASSUME NEW b \in Nat, NEW n \in Nat
    PROVE  \E f \in [0..n -> Nat] :
              /\ Power(b, n) = f[n]
              /\ \A i \in 0..n : f[i] = IF i = 0 THEN 1 ELSE b * f[i - 1]
<1> DEFINE E(i, y) == b * y
           G == [i \in 0 + 1..n |-> [y \in Nat |-> E(i, y)]]
           Is(f) == f = [i \in 0..n |-> IF i = 0 THEN 1 ELSE E(i, f[i - 1])]
           h == CHOOSE f : Is(f)
<1>1. n \in Int /\ 0 \in Int /\ 1 \in Nat /\ 0 <= n
    OBVIOUS
<1>2. Power(b, n) = h[n]
    BY DEF Power
<1>3. \A i : \A y \in Nat : E(i, y) \in Nat
    OBVIOUS
<1>0. \A i, y : E(i, y) = b * y
    OBVIOUS
<1> HIDE DEF E
<1>5. Maps(G, 0, n, Nat)
    BY <1>1, <1>3 DEF Maps
<1>6. \A i \in 0..n : \A y \in Nat : i # 0 => G[i][y] = E(i, y)
    BY <1>1
<1> HIDE DEF G
<1>7. PICK f : f \in [0..n -> Nat] /\ Chained(f, 0, n, 1, G)
    BY <1>1, <1>5, Iteration, Zenon
<1>8. f = [i \in 0..n |-> IF i = 0 THEN 1 ELSE G[i][f[i - 1]]]
    BY <1>7 DEF Chained
<1>9. \A i \in 0..n : i # 0 => f[i - 1] \in Nat
    BY <1>1, <1>7
<1>10. Is(f)
    BY <1>6, <1>8, <1>9
<1>11. Is(h)
    BY <1>10
<1> HIDE DEF h
<1>12. h[0] \in Nat
    BY <1>1, <1>11
<1>13. ASSUME NEW i \in 0 + 1..n, h[i - 1] \in Nat
       PROVE  h[i] \in Nat
  <2>1. i \in 0..n /\ i # 0
      BY <1>1
  <2>2. h[i] = E(i, h[i - 1])
      BY <2>1, <1>11
  <2> QED
      BY <2>1, <2>2, <1>13, <1>3
<1>14. \A i \in 0..n : h[i] \in Nat
    BY <1>1, <1>12, <1>13, Stays, Zenon
<1>15. h \in [0..n -> Nat] /\ \A i \in 0..n : h[i] = IF i = 0 THEN 1 ELSE b * h[i - 1]
    BY <1>11, <1>14, <1>0
<1> QED
    BY <1>2, <1>15

LEMMA PowerNext ==
    ASSUME NEW b \in Nat, NEW n \in Nat
    PROVE  Power(b, 0) = 1 /\ Power(b, n) \in Nat /\ Power(b, n + 1) = b * Power(b, n)
<1>1. PICK f \in [0..n -> Nat] : Power(b, n) = f[n] /\ \A i \in 0..n : f[i] = IF i = 0 THEN 1 ELSE b * f[i - 1]
    BY PowerIs
<1>2. PICK g \in [0..n + 1 -> Nat] :
        Power(b, n + 1) = g[n + 1] /\ \A i \in 0..n + 1 : g[i] = IF i = 0 THEN 1 ELSE b * g[i - 1]
  <2>1. n + 1 \in Nat
      OBVIOUS
  <2> QED
      BY <2>1, PowerIs
<1>3. PICK z \in [0..0 -> Nat] : Power(b, 0) = z[0] /\ \A i \in 0..0 : z[i] = IF i = 0 THEN 1 ELSE b * z[i - 1]
    BY PowerIs
<1> DEFINE S == {i \in 0..n : f[i] = g[i]}
<1>4. 0 \in S
    BY <1>1, <1>2
<1>5. \A i \in 0..n - 1 : i \in S => i + 1 \in S
  <2> TAKE i \in 0..n - 1
  <2> DEFINE j == i + 1
  <2>1. j \in 0..n /\ j \in 0..n + 1 /\ j # 0 /\ j - 1 = i
      OBVIOUS
  <2> HIDE DEF j
  <2>2. f[j] = b * f[i] /\ g[j] = b * g[i]
      BY <2>1, <1>1, <1>2
  <2> QED
      BY <2>1, <2>2 DEF j
<1> HIDE DEF S
<1>6. n \in S
  <2>1. 0 \in Int /\ n \in Int /\ 0 <= n /\ n \in 0..n
      OBVIOUS
  <2> QED
      BY <2>1, <1>4, <1>5, Up
<1>7. n + 1 \in 0..n + 1 /\ n + 1 # 0 /\ n + 1 - 1 = n /\ n \in 0..n
    OBVIOUS
<1>8. g[n + 1] = b * g[n]
  <2> DEFINE j == n + 1
  <2>1. j \in 0..n + 1 /\ j # 0 /\ j - 1 = n
      BY <1>7
  <2> HIDE DEF j
  <2>2. g[j] = b * g[n]
      BY <2>1, <1>2
  <2> QED
      BY <2>2 DEF j
<1> QED
    BY <1>1, <1>2, <1>3, <1>6, <1>7, <1>8 DEF S

LEMMA PowerGrows ==
    ASSUME NEW b \in Nat, b >= 2
    PROVE  /\ \A n \in Nat : Power(b, n) \in Nat /\ Power(b, n) >= 2^n
           /\ \A m, n \in Nat : m <= n => Power(b, m) <= Power(b, n)
<1>1. \A n \in Nat : Power(b, n) >= 2^n
  <2> DEFINE S == {n \in Nat : Power(b, n) >= 2^n}
  <2>1. 0 \in S
    <3>1. Power(b, 0) = 1
        BY PowerNext
    <3> QED
        BY <3>1
  <2>2. ASSUME NEW n \in Nat, n \in S
        PROVE  n + 1 \in S
    <3> DEFINE x == Power(b, n)
               y == 2^n
    <3>1. x \in Nat /\ Power(b, n + 1) = b * x
        BY PowerNext
    <3>2. y \in Nat \ {0} /\ 2^(n + 1) = 2 * y
        BY Powers
    <3>3. x >= y
        BY <2>2
    <3> HIDE DEF x, y, S
    <3>4. x * 2 <= x * b /\ x * b = b * x
        BY <3>1, Monotone
    <3>5. b * x >= 2 * y
        BY <3>1, <3>2, <3>3, <3>4
    <3>6. Power(b, n + 1) >= 2^(n + 1)
        BY <3>1, <3>2, <3>5
    <3> QED
        BY <3>6 DEF S
  <2> HIDE DEF S
  <2>3. \A n \in Nat : n \in S
      BY <2>1, <2>2, Induction
  <2> QED
      BY <2>3 DEF S
<1>2. ASSUME NEW m \in Nat, NEW n \in Nat, m <= n
      PROVE  Power(b, m) <= Power(b, n)
  <2> DEFINE S == {i \in m..n : Power(b, m) <= Power(b, i)}
  <2>1. m \in S
      BY <1>2, PowerNext
  <2>2. \A i \in m..n - 1 : i \in S => i + 1 \in S
    <3> TAKE i \in m..n - 1
    <3> HAVE i \in S
    <3> DEFINE x == Power(b, i)
    <3>1. x \in Nat /\ Power(b, i + 1) = b * x /\ Power(b, m) \in Nat
      <4>1. i \in Nat
          OBVIOUS
      <4> QED
          BY <4>1, PowerNext
    <3>2. x * 1 <= x * b /\ x * b = b * x
      <4> HIDE DEF x
      <4> QED
          BY <3>1, Monotone
    <3>3. Power(b, m) <= x
        OBVIOUS
    <3>4. Power(b, m) <= Power(b, i + 1)
      <4> HIDE DEF x
      <4> QED
          BY <3>1, <3>2, <3>3
    <3> QED
        BY <3>4
  <2> HIDE DEF S
  <2>3. n \in S
    <3>1. n \in m..n /\ m \in Int /\ n \in Int
        BY <1>2
    <3> QED
        BY <3>1, <2>1, <2>2, <1>2, Up
  <2> QED
      BY <2>3 DEF S
<1> QED
    BY <1>1, <1>2, PowerNext

\* Between 1 and SHIFT decimal digits are converted at a time, and they fit in a digit.
LEMMA ConvwidthIs == convwidth(10) \in 1..SHIFT /\ Power(10, convwidth(10)) <= BASE
<1> DEFINE S == {i \in Nat : Power(10, i + 1) > BASE}
<1>1. SHIFT \in S
  <2>1. SHIFT \in Nat /\ SHIFT + 1 \in Nat
      BY DigitSizes
  <2>2. Power(10, SHIFT + 1) \in Nat /\ Power(10, SHIFT + 1) >= 2^(SHIFT + 1)
      BY <2>1, PowerGrows
  <2>3. 2^(SHIFT + 1) = 2 * BASE
      BY <2>1, Powers, DigitSizes
  <2> QED
      BY <2>1, <2>2, <2>3, DigitSizes
<1>2. PICK i \in S : \A j \in S : i <= j
  <2>1. S \in SUBSET Nat /\ S # {}
      BY <1>1
  <2> HIDE DEF S
  <2> QED
      BY <2>1, Least
<1>3. i # 0
  <2>1. Power(10, 0 + 1) = 10 * 1
      BY PowerNext
  <2> QED
      BY <2>1, DigitSizes
<1>4. i - 1 \in Nat /\ i - 1 \notin S /\ i - 1 + 1 = i
    BY <1>2, <1>3
<1>5. Power(10, i) <= BASE
  <2>1. ~ (Power(10, i) > BASE)
      BY <1>4
  <2> QED
      BY <2>1, PowerNext, DigitSizes
<1>6. i \in 1..SHIFT
    BY <1>1, <1>2, <1>3, DigitSizes
<1>7. Power(10, i + 1) > BASE
    OBVIOUS
<1> QED
    BY <1>5, <1>6, <1>7 DEF convwidth

\* A group of digits is below the power of the base that multiplies the number so far,
LEMMA EvaluatedIs ==
    ASSUME NEW b \in Nat, b >= 2, NEW s \in Seq(0..b - 1)
    PROVE  Evaluated(s, b) \in Nat /\ Evaluated(s, b) < Power(b, Len(s))
<1> DEFINE n == Len(s)
           E(i, y) == b * y + s[i]
           G == [i \in 0 + 1..n |-> [y \in Nat |-> E(i, y)]]
           Is(f) == f = [i \in 0..n |-> IF i = 0 THEN 0 ELSE E(i, f[i - 1])]
           h == CHOOSE f : Is(f)
<1>1. n \in Nat /\ n \in Int /\ 0 \in Int /\ 0 \in Nat /\ 0 <= n /\ \A i \in 1..n : s[i] \in 0..b - 1
    OBVIOUS
<1>2. Evaluated(s, b) = h[n]
    BY DEF Evaluated
<1>3. ASSUME NEW i \in 1..n, NEW y \in Nat
      PROVE  E(i, y) \in Nat /\ E(i, y) <= b * y + b - 1
    BY <1>1
<1> HIDE DEF E, n
<1>5. Maps(G, 0, n, Nat)
    BY <1>1, <1>3 DEF Maps
<1>6. \A i \in 0..n : \A y \in Nat : i # 0 => G[i][y] = E(i, y)
    BY <1>1
<1> HIDE DEF G
<1>7. PICK f : f \in [0..n -> Nat] /\ Chained(f, 0, n, 0, G)
    BY <1>1, <1>5, Iteration, Zenon
<1>8. f = [i \in 0..n |-> IF i = 0 THEN 0 ELSE G[i][f[i - 1]]]
    BY <1>7 DEF Chained
<1>9. \A i \in 0..n : i # 0 => f[i - 1] \in Nat
    BY <1>1, <1>7
<1>10. Is(f)
    BY <1>6, <1>8, <1>9
<1>11. Is(h)
    BY <1>10
<1> HIDE DEF h
<1> DEFINE S == {i \in 0..n : h[i] \in Nat /\ h[i] < Power(b, i)}
<1>12. 0 \in S
  <2>1. h[0] = 0
      BY <1>1, <1>11
  <2>2. Power(b, 0) = 1
      BY PowerNext
  <2>3. h[0] \in Nat /\ h[0] < Power(b, 0) /\ 0 \in 0..n
      BY <2>1, <2>2, <1>1
  <2> QED
      BY <2>3
<1>13. ASSUME NEW i \in 0..n - 1, i \in S
       PROVE  i + 1 \in S
  <2> DEFINE j == i + 1
  <2>1. i \in Nat /\ j \in 0..n /\ j # 0 /\ j \in 1..n /\ j - 1 = i
      BY <1>1
  <2> HIDE DEF j
  <2>2. h[j] = E(j, h[i])
      BY <2>1, <1>11
  <2> DEFINE y == h[i]
             p == Power(b, i)
  <2>3. p \in Nat /\ Power(b, j) = b * p /\ y \in Nat /\ y < p
    <3>1. y \in Nat /\ y < p
        BY <1>13
    <3> QED
        BY <3>1, <2>1, PowerNext DEF j
  <2>4. E(j, y) \in Nat /\ E(j, y) <= b * y + b - 1
      BY <2>1, <2>3, <1>3
  <2> HIDE DEF y, p
  <2>5. b * (y + 1) <= b * p /\ b * (y + 1) = b * y + b /\ b * y \in Nat /\ b * p \in Nat
      BY <2>3, Monotone
  <2>6. E(j, y) < b * p
      BY <2>4, <2>5
  <2> QED
      BY <2>1, <2>2, <2>3, <2>4, <2>6 DEF y, j
<1> HIDE DEF S
<1>14. n \in S
  <2>1. n \in 0..n
      BY <1>1
  <2> QED
      BY <2>1, <1>1, <1>12, <1>13, Up
<1> QED
    BY <1>2, <1>14 DEF S, n

\* so the carries of the multiplication fit, and the result is digits.
LEMMA MultiplyAddIs ==
    ASSUME NEW a \in Seq(Digit), NEW m \in 1..BASE, NEW c \in 0..m - 1
    PROVE  MultiplyAdd(a, m, c) \in Seq(Digit)
<1> DEFINE n == Len(a)
           V == {x \in Nat : x < BASE * m}
           first == c * BASE
           E(i, y) == y \div BASE + a[i] * m
           G == [i \in 0 + 1..n |-> [y \in V |-> E(i, y)]]
           Is(f) == f = [i \in 0..n |-> IF i = 0 THEN first ELSE E(i, f[i - 1])]
           h == CHOOSE f : Is(f)
           top == h[n] \div BASE
           x == [i \in DOMAIN a |-> h[i] % BASE]
           y == IF top = 0 THEN <<>> ELSE <<top>>
<1>1. n \in Nat /\ n \in Int /\ 0 \in Int /\ 0 <= n /\ \A i \in 1..n : a[i] \in Digit
    OBVIOUS
<1>2. MultiplyAdd(a, m, c) = x \o y
    BY DEF MultiplyAdd
<1>0. m \in Nat /\ c \in Nat /\ c <= m - 1 /\ m - 1 \in Nat /\ m - 1 + 1 = m /\ BASE \in Nat /\ BASE \in Nat \ {0} /\ m <= BASE
    BY DigitSizes
<1>3. first \in V
  <2>1. BASE * c <= BASE * (m - 1) /\ BASE * (m - 1) = BASE * m - BASE /\ BASE * c = c * BASE /\ BASE * c \in Nat
      BY <1>0, Monotone
  <2> QED
      BY <2>1, <1>0
<1>4. ASSUME NEW z \in V
      PROVE  z \div BASE \in 0..m - 1
    BY <1>0, Under
<1>5. ASSUME NEW i \in 1..n, NEW z \in V
      PROVE  E(i, z) \in V
  <2> DEFINE k == z \div BASE
  <2> HIDE DEF V
  <2>0. k \in 0..m - 1
      BY <1>4
  <2>1. k \in Nat /\ k <= m - 1
      BY <2>0, <1>0
  <2>2. a[i] \in Nat /\ a[i] <= BASE - 1
      BY <1>0, <1>1, DigitIs
  <2> HIDE DEF k
  <2>3. m * a[i] <= m * (BASE - 1) /\ m * (BASE - 1) = m * BASE - m /\ m * BASE = BASE * m /\ m * a[i] = a[i] * m
            /\ m * a[i] \in Nat
      BY <1>0, <2>2, Monotone
  <2>4. k + a[i] * m \in Nat /\ k + a[i] * m < BASE * m
      BY <2>1, <2>3, <1>0
  <2> QED
      BY <2>4 DEF k, V
<1> HIDE DEF E, n, V, first
<1>6. Maps(G, 0, n, V)
    BY <1>1, <1>5 DEF Maps
<1>7. \A i \in 0..n : \A z \in V : i # 0 => G[i][z] = E(i, z)
    BY <1>1
<1> HIDE DEF G
<1>8. PICK f : f \in [0..n -> V] /\ Chained(f, 0, n, first, G)
    BY <1>1, <1>3, <1>6, Iteration, Zenon
<1>9. f = [i \in 0..n |-> IF i = 0 THEN first ELSE G[i][f[i - 1]]]
    BY <1>8 DEF Chained
<1>10. \A i \in 0..n : i # 0 => f[i - 1] \in V
    BY <1>1, <1>8
<1>11. Is(f)
    BY <1>7, <1>9, <1>10
<1>12. Is(h)
    BY <1>11
<1> HIDE DEF h
<1>13. h[0] \in V
    BY <1>1, <1>3, <1>12
<1>14. ASSUME NEW i \in 0 + 1..n, h[i - 1] \in V
       PROVE  h[i] \in V
  <2>1. i \in 0..n /\ i # 0 /\ i \in 1..n
      BY <1>1
  <2>2. h[i] = E(i, h[i - 1])
      BY <2>1, <1>12
  <2> QED
      BY <2>1, <2>2, <1>14, <1>5
<1>15. \A i \in 0..n : h[i] \in V
    BY <1>1, <1>13, <1>14, Stays, Zenon
<1>16. top \in Digit
  <2>1. h[n] \in V
      BY <1>1, <1>15
  <2>2. top \in 0..m - 1
      BY <2>1, <1>4
  <2> HIDE DEF top
  <2> QED
      BY <2>2, <1>0, DigitSizes DEF Digit
<1>17. x \in Seq(Digit)
  <2>1. \A i \in 1..n : h[i] % BASE \in Digit
    <3> TAKE i \in 1..n
    <3>1. h[i] \in Int
        BY <1>1, <1>15 DEF V
    <3> QED
        BY <3>1, Remainder DEF Digit
  <2>2. DOMAIN a = 1..n
      BY DEF n
  <2> QED
      BY <2>1, <2>2, <1>1
<1>18. y \in Seq(Digit)
  <2> HIDE DEF top
  <2> QED
      BY <1>16
<1> HIDE DEF x, y
<1> QED
    BY <1>2, <1>17, <1>18, ConcatProperties

-----------------------------------------------------------------------------
(* The operations on objects *)

\* An integer object in normal form
Normal(x) == Vector(x.v) /\ (x.neg => x.v # <<>>)

LEMMA VectorDigits == ASSUME NEW x, Vector(x) PROVE x \in Seq(Digit)
BY DEF Vector, Digit

LEMMA NormalDigits == ASSUME NEW a, Normal(a) PROVE a.v \in Seq(Digit)
BY VectorDigits DEF Normal

LEMMA MakeNormal == ASSUME NEW x, NEW b, Vector(x) PROVE Normal(Make(b, x))
BY DEF Normal, Make

LEMMA FromLongNormal == ASSUME NEW x \in Int PROVE Normal(COInt_FromLong(x))
<1> DEFINE m == IF x < 0 THEN -x ELSE x
<1>1. m \in Nat
    OBVIOUS
<1> HIDE DEF m
<1>2. Vector(FromUnsigned(m))
    BY <1>1, FromUnsignedVector
<1>3. Normal(Make(x < 0, FromUnsigned(m)))
    BY <1>2, MakeNormal
<1> QED
    BY <1>3 DEF COInt_FromLong, m

LEMMA OneDigit == ASSUME NEW a, Normal(a) PROVE ONEDIGIT_VALUE(a) \in Int
<1>1. At(a.v, 1) \in Nat
    BY NormalDigits, AtDigit
<1> QED
    BY <1>1 DEF ONEDIGIT_VALUE

LEMMA AddNormal == ASSUME NEW a, NEW b, Normal(a), Normal(b) PROVE Normal(int_add(a, b))
<1>1. a.v \in Seq(Digit) /\ b.v \in Seq(Digit)
    BY NormalDigits
<1>2. Normal(COInt_FromLong(ONEDIGIT_VALUE(a) + ONEDIGIT_VALUE(b)))
  <2>1. ONEDIGIT_VALUE(a) + ONEDIGIT_VALUE(b) \in Int
      BY OneDigit
  <2> QED
      BY <2>1, FromLongNormal
<1>3. Normal(Make(a.neg, x_add(a.v, b.v)))
    BY <1>1, AddVector, MakeNormal
<1>4. \A n : Normal(Make(n, x_sub(b.v, a.v).v)) /\ Normal(Make(n, x_sub(a.v, b.v).v))
    BY <1>1, SubVector, MakeNormal
<1> QED
    BY <1>2, <1>3, <1>4 DEF int_add

LEMMA SubNormal == ASSUME NEW a, NEW b, Normal(a), Normal(b) PROVE Normal(int_sub(a, b))
<1>1. a.v \in Seq(Digit) /\ b.v \in Seq(Digit)
    BY NormalDigits
<1>2. Normal(COInt_FromLong(ONEDIGIT_VALUE(a) - ONEDIGIT_VALUE(b)))
  <2>1. ONEDIGIT_VALUE(a) - ONEDIGIT_VALUE(b) \in Int
      BY OneDigit
  <2> QED
      BY <2>1, FromLongNormal
<1>3. Normal(Make(a.neg, x_add(a.v, b.v)))
    BY <1>1, AddVector, MakeNormal
<1>4. \A n : Normal(Make(n, x_sub(a.v, b.v).v))
    BY <1>1, SubVector, MakeNormal
<1> QED
    BY <1>2, <1>3, <1>4 DEF int_sub

LEMMA MulNormal ==
    ASSUME NEW a, NEW b, NEW same \in BOOLEAN, Normal(a), Normal(b), same => a = b
    PROVE  Normal(int_mul(a, b, same))
<1>1. a.v \in Seq(Digit) /\ b.v \in Seq(Digit) /\ (same => a.v = b.v)
    BY NormalDigits
<1>2. Vector(x_mul(a.v, b.v, same))
    BY <1>1, MulVector
<1> QED
    BY <1>2, MakeNormal DEF int_mul

LEMMA NegNormal == ASSUME NEW a, Normal(a) PROVE Normal(int_neg(a))
<1>1. Normal(COInt_FromLong(-ONEDIGIT_VALUE(a)))
  <2>1. -ONEDIGIT_VALUE(a) \in Int
      BY OneDigit
  <2> QED
      BY <2>1, FromLongNormal
<1>2. Normal(Make(~a.neg, a.v))
    BY MakeNormal DEF Normal
<1> QED
    BY <1>1, <1>2 DEF int_neg

LEMMA InvertNormal == ASSUME NEW a, Normal(a) PROVE Normal(int_invert(a))
<1>1. Normal(COInt_FromLong(-(ONEDIGIT_VALUE(a) + 1)))
  <2>1. -(ONEDIGIT_VALUE(a) + 1) \in Int
      BY OneDigit
  <2> QED
      BY <2>1, FromLongNormal
<1>2. Normal(int_add(a, COInt_FromLong(1)))
  <2>1. 1 \in Int
      OBVIOUS
  <2> QED
      BY <2>1, FromLongNormal, AddNormal
<1>3. \A n : Normal(Make(n, int_add(a, COInt_FromLong(1)).v))
    BY <1>2, MakeNormal DEF Normal
<1> QED
    BY <1>1, <1>3 DEF int_invert

LEMMA SsizeIs == ASSUME NEW a, Normal(a) PROVE COInt_AsSsize_t(a).value \in Int
<1> DEFINE acc == Accumulated(a.v)
<1>1. acc.value \in Nat
    BY NormalDigits, AccumulatedIs
<1>2. ONEDIGIT_VALUE(a) \in Int
    BY OneDigit
<1>3. LONG_MIN \in Int
  <2>1. LONG_BITS - 1 \in Nat
      BY DigitsAssumption
  <2>2. 2^(LONG_BITS - 1) \in Nat
      BY <2>1, Powers
  <2> QED
      BY <2>2 DEF LONG_MIN
<1> HIDE DEF acc
<1> DEFINE A == Short(a)
           B == ~Short(a) /\ ~acc.overflow /\ acc.value <= LONG_MAX
           C == ~Short(a) /\ ~acc.overflow /\ a.neg /\ acc.value = -LONG_MIN
           z == IF a.neg THEN -acc.value ELSE acc.value
<1>4. COInt_AsSsize_t(a) =
        CASE A -> [fits |-> TRUE, value |-> ONEDIGIT_VALUE(a)]
          [] B -> [fits |-> TRUE, value |-> z]
          [] C -> [fits |-> TRUE, value |-> LONG_MIN]
          [] OTHER -> [fits |-> FALSE, value |-> -1]
    BY DEF COInt_AsSsize_t, acc
<1>5. z \in Int
    BY <1>1
<1>6. ~ (A /\ B) /\ ~ (A /\ C)
    OBVIOUS
<1> HIDE DEF A, B, C, z
<1> QED
    BY <1>2, <1>3, <1>4, <1>5, <1>6

-----------------------------------------------------------------------------
(* Numbers in any base *)

\* The weights of the places of a number in base b
Weights(p, b) == p[0] = 1 /\ \A i \in Nat : p[i] \in Nat \ {0} /\ p[i + 1] = b * p[i]

\* f[k] is the number that the lowest k of the n digits a make.
Totals(f, a, n, p) ==
    /\ \A k \in 0..n : f[k] \in Int
    /\ f[0] = 0
    /\ \A k \in 1..n : f[k] = f[k - 1] + a[k] * p[k - 1]

\* z are the sums before they are cut to a digit in base b, s what is left of them.
PassedOn(z, t, n, b) ==
    \A i \in 1..n : /\ t[i] \in Int /\ z[i] \in Int
                    /\ z[i] = t[i] + (IF i = 1 THEN 0 ELSE z[i - 1] \div b)

CutIn(s, z, n, b) == \A i \in 1..n : s[i] = z[i] % b

LEMMA TotalsKept ==
    ASSUME NEW b \in Nat \ {0}, NEW p, Weights(p, b), NEW n \in Nat \ {0}, NEW t, NEW z, PassedOn(z, t, n, b),
           NEW s, CutIn(s, z, n, b), NEW f, Totals(f, t, n, p), NEW g, Totals(g, s, n, p)
    PROVE  g[n] + (z[n] \div b) * p[n] = f[n]
<1> USE DEF PassedOn, CutIn
<1> DEFINE c(k) == IF k = 0 THEN 0 ELSE z[k] \div b
           S == {k \in 0..n : g[k] + c(k) * p[k] = f[k]}
<1>0. p[0] = 1
    BY DEF Weights
<1>1. 0 \in S
  <2>1. f[0] = 0 /\ g[0] = 0 /\ c(0) = 0 /\ 0 * p[0] = 0
      BY <1>0 DEF Totals
  <2> QED
      BY <2>1, <1>0
<1>2. ASSUME NEW k \in 0..n - 1, k \in S
      PROVE  k + 1 \in S
  <2>1. k + 1 \in 1..n /\ k + 1 - 1 = k /\ k + 1 \in 0..n /\ k \in Nat /\ k \in 0..n
      OBVIOUS
  <2> DEFINE x == t[k + 1]
             y == z[k + 1]
             m == p[k]
             lo == y % b
             hi == y \div b
  <2>2. x \in Int /\ y \in Int /\ y = x + c(k)
      BY <2>1
  <2>3. lo \in Int /\ hi \in Int /\ y = b * hi + lo
    <3>1. y \in Int /\ b \in Nat \ {0}
        BY <2>1
    <3> HIDE DEF y, c, S
    <3>2. y % b \in 0..b - 1 /\ y \div b \in Int /\ y = b * (y \div b) + (y % b)
        BY <3>1, Division, Zenon
    <3>3. \A k1 \in 0..b - 1 : k1 \in Int
        BY <3>1
    <3> QED
        BY <3>2, <3>3, Zenon
  <2>4. c(k) \in Int
    <3>1. CASE k = 0
        BY <3>1
    <3>2. CASE k # 0
      <4>1. k \in 1..n
          BY <3>2
      <4>2. z[k] \in Int
          BY <4>1
      <4>3. z[k] \div b \in Int
          BY <4>2, Division
      <4> QED
          BY <4>3, <3>2
    <3> QED
        BY <3>1, <3>2
  <2>5. c(k + 1) = hi
      BY <2>1
  <2>6. f[k + 1] = f[k] + x * m /\ g[k + 1] = g[k] + lo * m /\ f[k] \in Int /\ g[k] \in Int
      BY <2>1 DEF Totals
  <2>7. m \in Nat /\ p[k + 1] = b * m
      BY <2>1 DEF Weights
  <2>8. g[k] + c(k) * m = f[k]
      BY <1>2
  <2> DEFINE e == c(k)
             i == f[k]
             j == g[k]
  <2> HIDE DEF c
  <2>9. /\ x \in Int /\ y = x + e /\ e \in Int /\ lo \in Int /\ hi \in Int /\ m \in Int /\ i \in Int /\ j \in Int
        /\ f[k + 1] = i + x * m /\ g[k + 1] = j + lo * m /\ j + e * m = i /\ b \in Int /\ y = b * hi + lo
      BY <2>2, <2>3, <2>4, <2>6, <2>7, <2>8
  <2> HIDE DEF x, y, lo, hi, m, e, i, j, c, S
  <2>10. hi * (b * m) + lo * m = x * m + e * m
    <3>1. hi * (b * m) + lo * m = (b * hi + lo) * m /\ (x + e) * m = x * m + e * m
        BY <2>9
    <3> QED
        BY <3>1, <2>9
  <2>11. g[k + 1] + hi * (b * m) = f[k + 1]
    <3>1. hi * (b * m) \in Int /\ lo * m \in Int /\ x * m \in Int /\ e * m \in Int
        BY <2>9
    <3> DEFINE k1 == hi * (b * m)
               k2 == lo * m
               k3 == x * m
               k4 == e * m
    <3>2. /\ k1 \in Int /\ k2 \in Int /\ k3 \in Int /\ k4 \in Int /\ k1 + k2 = k3 + k4
          /\ f[k + 1] = i + k3 /\ g[k + 1] = j + k2 /\ j + k4 = i /\ i \in Int /\ j \in Int
        BY <3>1, <2>9, <2>10
    <3> HIDE DEF k1, k2, k3, k4
    <3>3. g[k + 1] + k1 = f[k + 1]
        BY <3>2
    <3> QED
        BY <3>3 DEF k1
  <2> QED
      BY <2>1, <2>5, <2>7, <2>11 DEF S
<1> HIDE DEF S
<1>3. n \in S
  <2>1. 0 \in Int /\ n \in Int /\ 0 <= n /\ n \in 0..n
      OBVIOUS
  <2>2. \A k \in 0..n - 1 : k \in S => k + 1 \in S
      BY <1>2
  <2> QED
      BY <2>1, <2>2, <1>1, Up, Zenon
<1>4. n # 0
    OBVIOUS
<1> QED
    BY <1>3, <1>4 DEF S

\* Every sequence of numbers has its totals,
LEMMA TotalsExist ==
    ASSUME NEW n \in Nat, NEW a, \A k \in 1..n : a[k] \in Nat, NEW b, NEW p, Weights(p, b)
    PROVE  \E f : Totals(f, a, n, p)
<1> DEFINE E(i, y) == y + a[i] * p[i - 1]
           G == [i \in 0 + 1..n |-> [y \in Int |-> E(i, y)]]
<1>1. n \in Nat /\ n \in Int /\ 0 \in Int /\ 0 <= n
    OBVIOUS
<1>2. \A i : \A y : E(i, y) = y + a[i] * p[i - 1]
    OBVIOUS
<1>3. \A i \in 1..n : \A y \in Int : E(i, y) \in Int
  <2> TAKE i \in 1..n
  <2>1. i - 1 \in Nat /\ a[i] \in Nat
      OBVIOUS
  <2>2. p[i - 1] \in Nat
      BY <2>1 DEF Weights
  <2> DEFINE x == a[i] * p[i - 1]
  <2>3. x \in Int
      BY <2>1, <2>2
  <2> HIDE DEF x
  <2>4. \A y \in Int : y + x \in Int
      BY <2>3
  <2> QED
      BY <2>4 DEF x
<1> HIDE DEF E
<1>5. Maps(G, 0, n, Int)
    BY <1>1, <1>3 DEF Maps
<1>6. \A i \in 0..n : \A y \in Int : i # 0 => G[i][y] = E(i, y)
    BY <1>1
<1> HIDE DEF G
<1>7. PICK f : f \in [0..n -> Int] /\ Chained(f, 0, n, 0, G)
    BY <1>1, <1>5, Iteration, Zenon
<1>8. f = [i \in 0..n |-> IF i = 0 THEN 0 ELSE G[i][f[i - 1]]]
    BY <1>7 DEF Chained
<1>9. \A k \in 0..n : f[k] \in Int
    BY <1>7
<1>10. f[0] = 0
    BY <1>1, <1>8
<1>11. ASSUME NEW k \in 1..n
       PROVE  f[k] = f[k - 1] + a[k] * p[k - 1]
  <2>1. k \in 0..n /\ k # 0 /\ k - 1 \in 0..n
      BY <1>1
  <2>2. f[k - 1] \in Int
      BY <2>1, <1>9
  <2>3. f[k] = G[k][f[k - 1]]
      BY <2>1, <1>8
  <2>4. f[k] = E(k, f[k - 1])
      BY <2>1, <2>2, <2>3, <1>6
  <2> QED
      BY <2>4, <1>2
<1> QED
    BY <1>9, <1>10, <1>11 DEF Totals

\* and they are at least the weight of the highest place with a digit.
LEMMA TotalsAbove ==
    ASSUME NEW n \in Nat, NEW a, \A k \in 1..n : a[k] \in Nat, NEW b, NEW p, Weights(p, b), NEW f, Totals(f, a, n, p)
    PROVE  f[n] \in Nat /\ (n # 0 /\ a[n] # 0 => p[n - 1] <= f[n])
<1> DEFINE S == {k \in 0..n : f[k] \in Nat}
<1>1. 0 \in S
    BY DEF Totals
<1>2. ASSUME NEW k \in 0..n - 1, k \in S
      PROVE  k + 1 \in S
  <2>1. k + 1 \in 1..n /\ k + 1 - 1 = k /\ k + 1 \in 0..n /\ k \in Nat
      OBVIOUS
  <2> DEFINE j == k + 1
             x == a[j]
             m == p[k]
  <2>2. f[j] = f[k] + x * m /\ x \in Nat /\ m \in Nat
      BY <2>1 DEF Totals, Weights
  <2>3. x * m \in Nat
    <3> HIDE DEF x, m
    <3> QED
        BY <2>2
  <2> HIDE DEF x, m, j
  <2>4. f[j] \in Nat
      BY <2>2, <2>3, <1>2
  <2> QED
      BY <2>1, <2>4 DEF j
<1> HIDE DEF S
<1>3. \A k \in 0..n : k \in S
    BY <1>1, <1>2, Up
<1>4. n \in S
    BY <1>3
<1>5. ASSUME n # 0, a[n] # 0
      PROVE  p[n - 1] <= f[n]
  <2>1. n \in 1..n /\ n - 1 \in 0..n /\ n - 1 \in Nat
      BY <1>5
  <2>2. n - 1 \in S
      BY <2>1, <1>3
  <2> DEFINE j == n - 1
             x == a[n]
             m == p[j]
  <2>3. f[n] = f[j] + x * m /\ x \in Nat \ {0} /\ m \in Nat /\ f[j] \in Nat
      BY <2>1, <2>2, <1>5 DEF Totals, Weights, S
  <2> HIDE DEF x, m, j
  <2>4. m * 1 <= m * x /\ m * x = x * m /\ x * m \in Nat
      BY <2>3, Monotone
  <2>5. m <= f[n]
      BY <2>3, <2>4
  <2> QED
      BY <2>5 DEF m, j
<1> QED
    BY <1>4, <1>5 DEF S

-----------------------------------------------------------------------------
(* The number that digits make *)

\* The weight of a digit above i others
Place(i) == 2^(SHIFT * i)

LEMMA Places == \A i \in Nat : Place(i) \in Nat \ {0} /\ Place(i + 1) = BASE * Place(i)
<1> TAKE i \in Nat
<1>1. SHIFT * i \in Nat /\ SHIFT \in Nat /\ SHIFT * (i + 1) = SHIFT + SHIFT * i
    BY DigitSizes
<1> DEFINE k == SHIFT * i
<1> HIDE DEF k
<1>2. k \in Nat /\ SHIFT * (i + 1) = SHIFT + k
    BY <1>1 DEF k
<1>3. 2^k \in Nat \ {0} /\ 2^(SHIFT + k) = 2^SHIFT * 2^k
    BY <1>1, <1>2, Powers, TwoPowers
<1> QED
    BY <1>2, <1>3 DEF Place, k, BASE

LEMMA FirstPlace == Place(0) = 1
<1>1. SHIFT * 0 = 0
    BY DigitSizes
<1>2. 2^0 = 1
    OBVIOUS
<1> QED
    BY <1>1, <1>2 DEF Place

\* f[k] is the number that the lowest k of the n digits a make.
Sums(f, a, n) ==
    /\ \A k \in 0..n : f[k] \in Int
    /\ f[0] = 0
    /\ \A k \in 1..n : f[k] = f[k - 1] + a[k] * Place(k - 1)

LEMMA PlaceWeights == Weights([i \in Nat |-> Place(i)], BASE)
<1> DEFINE p == [i \in Nat |-> Place(i)]
<1>1. p[0] = 1
    BY FirstPlace
<1>2. \A i \in Nat : p[i] \in Nat \ {0} /\ p[i + 1] = BASE * p[i]
  <2> TAKE i \in Nat
  <2>1. i + 1 \in Nat
      OBVIOUS
  <2>2. p[i] = Place(i) /\ p[i + 1] = Place(i + 1)
      BY <2>1
  <2> HIDE DEF p
  <2> QED
      BY <2>2, Places
<1> HIDE DEF p
<1>3. Weights(p, BASE)
    BY <1>1, <1>2 DEF Weights
<1> QED
    BY <1>3 DEF p

LEMMA SumsAreTotals ==
    ASSUME NEW n \in Nat, NEW a, NEW f
    PROVE  Sums(f, a, n) <=> Totals(f, a, n, [i \in Nat |-> Place(i)])
<1>1. \A k \in 1..n : k - 1 \in Nat
    OBVIOUS
<1> QED
    BY <1>1 DEF Sums, Totals

\* The digits of a number make it.
ValueOf(a) == Number(Make(FALSE, a))

LEMMA ValueIs ==
    ASSUME NEW a \in Seq(Digit)
    PROVE  \E f : Sums(f, a, Len(a)) /\ f[Len(a)] = ValueOf(a)
<1> DEFINE n == Len(a)
           E(i, y) == y + a[i] * 2^(SHIFT * (i - 1))
           G == [i \in 0 + 1..n |-> [y \in Int |-> E(i, y)]]
           Is(f) == f = [i \in 0..n |-> IF i = 0 THEN 0 ELSE E(i, f[i - 1])]
           h == CHOOSE f : Is(f)
<1>1. n \in Nat /\ n \in Int /\ 0 \in Int /\ 0 \in Nat /\ 0 <= n /\ \A i \in 1..n : a[i] \in Digit
    OBVIOUS
<1>2. ValueOf(a) = h[n]
  <2>1. Make(FALSE, a).v = a /\ Make(FALSE, a).neg = FALSE
      BY DEF Make
  <2> DEFINE x == Make(FALSE, a)
  <2> HIDE DEF x, h
  <2>2. Number(x) = (CHOOSE f : f = [i \in 0..Len(x.v) |->
            IF i = 0 THEN 0 ELSE f[i - 1] + x.v[i] * 2^(SHIFT * (i - 1))])[Len(x.v)]
      BY <2>1 DEF Number, x
  <2> QED
      BY <2>1, <2>2 DEF ValueOf, x, h
<1>3. ASSUME NEW i \in 1..n, NEW y \in Int
      PROVE  E(i, y) \in Int
  <2>1. a[i] \in Nat
      BY <1>1, DigitIs
  <2>2. i - 1 \in Nat /\ 2^(SHIFT * (i - 1)) = Place(i - 1)
      BY DEF Place
  <2>3. 2^(SHIFT * (i - 1)) \in Nat
      BY <2>2, Places
  <2> QED
      BY <2>1, <2>3
<1> HIDE DEF E, n
<1>5. Maps(G, 0, n, Int)
    BY <1>1, <1>3 DEF Maps
<1>6. \A i \in 0..n : \A y \in Int : i # 0 => G[i][y] = E(i, y)
    BY <1>1
<1> HIDE DEF G
<1>7. PICK f : f \in [0..n -> Int] /\ Chained(f, 0, n, 0, G)
    BY <1>1, <1>5, Iteration, Zenon
<1>8. f = [i \in 0..n |-> IF i = 0 THEN 0 ELSE G[i][f[i - 1]]]
    BY <1>7 DEF Chained
<1>9. \A i \in 0..n : i # 0 => f[i - 1] \in Int
    BY <1>1, <1>7
<1>10. Is(f)
    BY <1>6, <1>8, <1>9
<1>11. Is(h)
    BY <1>10
<1> HIDE DEF h
<1>12. h[0] = 0 /\ \A i \in 1..n : h[i] = E(i, h[i - 1])
    BY <1>1, <1>11
<1>13. \A i \in 0..n : h[i] \in Int
  <2>1. ASSUME NEW i \in 0 + 1..n, h[i - 1] \in Int
        PROVE  h[i] \in Int
    <3>1. i \in 1..n
        BY <1>1
    <3>2. h[i] = E(i, h[i - 1])
        BY <3>1, <1>12
    <3> QED
        BY <3>1, <3>2, <2>1, <1>3
  <2>2. h[0] \in Int
      BY <1>12
  <2> QED
      BY <2>1, <2>2, <1>1, Stays, Zenon
<1>14. \A i \in 1..n : h[i] = h[i - 1] + a[i] * Place(i - 1)
    BY <1>12 DEF E, Place
<1>15. Sums(h, a, n)
    BY <1>12, <1>13, <1>14 DEF Sums
<1> QED
    BY <1>2, <1>15 DEF n

\* k digits make a number below the weight of the next.
LEMMA SumsBelow ==
    ASSUME NEW n \in Nat, NEW a, \A k \in 1..n : a[k] \in Digit, NEW f, Sums(f, a, n)
    PROVE  \A k \in 0..n : f[k] \in Nat /\ f[k] < Place(k)
<1> DEFINE S == {k \in 0..n : f[k] \in Nat /\ f[k] < Place(k)}
<1>1. 0 \in S
    BY FirstPlace DEF Sums
<1>2. ASSUME NEW k \in 0..n - 1, k \in S
      PROVE  k + 1 \in S
  <2>1. k + 1 \in 1..n /\ k + 1 - 1 = k /\ k + 1 \in 0..n /\ k \in Nat
      OBVIOUS
  <2>2. f[k + 1] = f[k] + a[k + 1] * Place(k)
      BY <2>1 DEF Sums
  <2> DEFINE x == a[k + 1]
             p == Place(k)
  <2>3. x \in Nat /\ x < BASE
      BY <2>1, DigitIs
  <2>4. p \in Nat \ {0} /\ Place(k + 1) = BASE * p
      BY <2>1, Places
  <2>5. f[k] \in Nat /\ f[k] < p
      BY <1>2
  <2> HIDE DEF x, p, S
  <2>6. p * (x + 1) <= p * BASE
      BY <2>3, <2>4, DigitSizes, Monotone
  <2>7. p * (x + 1) = x * p + p /\ p * BASE = BASE * p /\ x * p \in Nat /\ BASE * p \in Nat
      BY <2>3, <2>4, DigitSizes
  <2>8. f[k + 1] = f[k] + x * p
      BY <2>2 DEF x, p
  <2>9. f[k + 1] \in Nat /\ f[k + 1] < BASE * p
      BY <2>4, <2>5, <2>6, <2>7, <2>8
  <2> QED
      BY <2>1, <2>4, <2>9 DEF S
<1> HIDE DEF S
<1>3. \A k \in 0..n : k \in S
    BY <1>1, <1>2, Up
<1> QED
    BY <1>3 DEF S

LEMMA ValueBelow ==
    ASSUME NEW a \in Seq(Digit)
    PROVE  ValueOf(a) \in Nat /\ ValueOf(a) < Place(Len(a))
<1>1. PICK f : Sums(f, a, Len(a)) /\ f[Len(a)] = ValueOf(a)
    BY ValueIs
<1>2. Len(a) \in Nat /\ Len(a) \in 0..Len(a) /\ \A k \in 1..Len(a) : a[k] \in Digit
    OBVIOUS
<1> QED
    BY <1>1, <1>2, SumsBelow

\* From the second digit on: b is a without its lowest digit.
Above(a, b, n) == \A k \in 1..n : b[k] \in Int /\ b[k] = a[k + 1]

LEMMA SumsShifted ==
    ASSUME NEW n \in Nat, NEW a, NEW b, a[1] \in Int, Above(a, b, n),
           NEW f, Sums(f, a, n + 1), NEW g, Sums(g, b, n)
    PROVE  f[n + 1] = a[1] + BASE * g[n]
<1> DEFINE S == {k \in 0..n : f[k + 1] = a[1] + BASE * g[k]}
<1>1. 0 \in S
  <2>1. 1 \in 1..n + 1 /\ 1 - 1 = 0
      OBVIOUS
  <2>2. f[1] = f[0] + a[1] * Place(0) /\ f[0] = 0 /\ g[0] = 0
      BY <2>1 DEF Sums
  <2>3. f[0 + 1] = a[1] + BASE * g[0]
      BY <2>2, FirstPlace, DigitSizes
  <2> QED
      BY <2>3
<1>2. ASSUME NEW k \in 0..n - 1, k \in S
      PROVE  k + 1 \in S
  <2>1. k + 1 \in 1..n /\ k + 1 - 1 = k /\ k + 1 \in 0..n /\ k \in Nat /\ k + 2 \in 1..n + 1 /\ k + 2 - 1 = k + 1
        /\ k + 1 + 1 = k + 2 /\ k \in 0..n
      OBVIOUS
  <2>2. f[k + 2] = f[k + 1] + a[k + 2] * Place(k + 1) /\ g[k + 1] = g[k] + b[k + 1] * Place(k)
      BY <2>1 DEF Sums
  <2>3. a[k + 2] = b[k + 1] /\ b[k + 1] \in Int
      BY <2>1 DEF Above
  <2>4. f[k + 1] = a[1] + BASE * g[k] /\ g[k] \in Int
      BY <1>2, <2>1 DEF Sums
  <2>5. Place(k) \in Nat /\ Place(k + 1) = BASE * Place(k)
      BY <2>1, Places
  <2> DEFINE x == b[k + 1]
             p == Place(k)
             y == g[k]
  <2>6. x \in Int /\ p \in Int /\ y \in Int
      BY <2>3, <2>4, <2>5
  <2>7. f[k + 2] = a[1] + BASE * y + x * (BASE * p) /\ g[k + 1] = y + x * p
      BY <2>2, <2>3, <2>4, <2>5
  <2> HIDE DEF x, p, y, S
  <2>8. BASE * (y + x * p) = BASE * y + x * (BASE * p) /\ BASE * y \in Int /\ x * (BASE * p) \in Int
      BY <2>6, DigitSizes
  <2>9. f[k + 2] = a[1] + BASE * g[k + 1]
      BY <2>7, <2>8
  <2> QED
      BY <2>1, <2>9 DEF S
<1> HIDE DEF S
<1>3. \A k \in 0..n : k \in S
    BY <1>1, <1>2, Up
<1>4. n \in 0..n
    OBVIOUS
<1> QED
    BY <1>3, <1>4 DEF S

\* A loop that hands on a carry keeps the number: z are the sums before they are cut to a
\* digit, s what is left of them.
HandedOn(z, t, n) ==
    \A i \in 1..n : /\ t[i] \in Int /\ z[i] \in Int
                    /\ z[i] = t[i] + (IF i = 1 THEN 0 ELSE z[i - 1] \div BASE)

CutTo(s, z, n) == \A i \in 1..n : s[i] = z[i] % BASE

LEMMA CarriesKept ==
    ASSUME NEW n \in Nat \ {0}, NEW t, NEW z, HandedOn(z, t, n), NEW s, CutTo(s, z, n),
           NEW f, Sums(f, t, n), NEW g, Sums(g, s, n)
    PROVE  g[n] + (z[n] \div BASE) * Place(n) = f[n]
<1> DEFINE p == [i \in Nat |-> Place(i)]
<1>1. Weights(p, BASE) /\ BASE \in Nat \ {0}
    BY PlaceWeights, DigitSizes
<1>2. Totals(f, t, n, p) /\ Totals(g, s, n, p)
    BY SumsAreTotals
<1>3. PassedOn(z, t, n, BASE) /\ CutIn(s, z, n, BASE)
    BY DEF HandedOn, CutTo, PassedOn, CutIn
<1>4. p[n] = Place(n)
    OBVIOUS
<1> HIDE DEF p
<1>5. g[n] + (z[n] \div BASE) * p[n] = f[n]
    BY <1>1, <1>2, <1>3, TotalsKept
<1> QED
    BY <1>4, <1>5

\* The two or three highest digits of a number
LEMMA TopTwo ==
    ASSUME NEW a \in Seq(Digit), NEW m, m = Len(a), m >= 2
    PROVE  \E lo \in 0..Place(m - 2) - 1 : ValueOf(a) = (a[m] * BASE + a[m - 1]) * Place(m - 2) + lo
<1>1. PICK f : Sums(f, a, Len(a)) /\ f[Len(a)] = ValueOf(a)
    BY ValueIs
<1>2. Len(a) \in Nat /\ \A k \in 1..Len(a) : a[k] \in Digit
    OBVIOUS
<1>3. m \in Nat /\ m \in 1..m /\ m - 1 \in 1..m /\ m - 2 \in 0..m /\ m - 1 - 1 = m - 2 /\ m - 2 \in Nat /\ m - 2 + 1 = m - 1
    BY <1>2
<1>4. f[m - 2] \in Nat /\ f[m - 2] < Place(m - 2)
    BY <1>1, <1>2, <1>3, SumsBelow
<1>5. f[m] = f[m - 1] + a[m] * Place(m - 1) /\ f[m - 1] = f[m - 2] + a[m - 1] * Place(m - 2)
    BY <1>1, <1>3 DEF Sums
<1>6. Place(m - 2) \in Nat /\ Place(m - 1) = BASE * Place(m - 2)
    BY <1>3, Places
<1> DEFINE x == a[m]
           y == a[m - 1]
           p == Place(m - 2)
           l == f[m - 2]
<1>7. x \in Nat /\ y \in Nat
    BY <1>2, <1>3, DigitIs
<1>8. /\ p \in Nat /\ l \in Nat /\ l < p /\ BASE \in Nat
      /\ f[m] = l + y * p + x * (BASE * p)
    BY <1>4, <1>5, <1>6, DigitSizes
<1> HIDE DEF x, y, p, l
<1>9. (x * BASE + y) * p = x * (BASE * p) + y * p /\ x * (BASE * p) \in Int /\ y * p \in Int
    BY <1>7, <1>8
<1>10. f[m] = (x * BASE + y) * p + l /\ l \in 0..p - 1
    BY <1>8, <1>9
<1> QED
    BY <1>1, <1>10 DEF x, y, p

LEMMA TopThree ==
    ASSUME NEW a \in Seq(Digit), NEW m, m = Len(a), m >= 3
    PROVE  \E lo \in 0..Place(m - 3) - 1 :
               ValueOf(a) = ((a[m] * BASE + a[m - 1]) * BASE + a[m - 2]) * Place(m - 3) + lo
<1>1. PICK f : Sums(f, a, Len(a)) /\ f[Len(a)] = ValueOf(a)
    BY ValueIs
<1>2. Len(a) \in Nat /\ \A k \in 1..Len(a) : a[k] \in Digit
    OBVIOUS
<1>3. /\ m \in Nat /\ m \in 1..m /\ m - 1 \in 1..m /\ m - 2 \in 1..m /\ m - 3 \in 0..m
      /\ m - 1 - 1 = m - 2 /\ m - 2 - 1 = m - 3 /\ m - 2 \in Nat /\ m - 2 + 1 = m - 1 /\ m - 3 \in Nat /\ m - 3 + 1 = m - 2
    BY <1>2
<1>4. f[m - 3] \in Nat /\ f[m - 3] < Place(m - 3)
    BY <1>1, <1>2, <1>3, SumsBelow
<1>5. /\ f[m] = f[m - 1] + a[m] * Place(m - 1) /\ f[m - 1] = f[m - 2] + a[m - 1] * Place(m - 2)
      /\ f[m - 2] = f[m - 3] + a[m - 2] * Place(m - 3)
    BY <1>1, <1>3 DEF Sums
<1>6. Place(m - 3) \in Nat /\ Place(m - 2) = BASE * Place(m - 3) /\ Place(m - 1) = BASE * Place(m - 2)
    BY <1>3, Places
<1> DEFINE x == a[m]
           y == a[m - 1]
           z == a[m - 2]
           p == Place(m - 3)
           l == f[m - 3]
<1>7. x \in Nat /\ y \in Nat /\ z \in Nat
    BY <1>2, <1>3, DigitIs
<1>8. /\ p \in Nat /\ l \in Nat /\ l < p /\ BASE \in Nat
      /\ f[m] = l + z * p + y * (BASE * p) + x * (BASE * (BASE * p))
    BY <1>4, <1>5, <1>6, DigitSizes
<1> HIDE DEF x, y, z, p, l
<1>9. x * (BASE * (BASE * p)) + y * (BASE * p) + z * p = ((x * BASE + y) * BASE + z) * p
  <2> DEFINE b == BASE
  <2>1. b \in Nat
      BY DigitSizes
  <2> HIDE DEF b
  <2>2. x * (b * (b * p)) + y * (b * p) + z * p = ((x * b + y) * b + z) * p
      BY <1>7, <1>8, <2>1
  <2> QED
      BY <2>2 DEF b
<1>10. f[m] = ((x * BASE + y) * BASE + z) * p + l /\ l \in 0..p - 1
  <2>1. z * p \in Int /\ y * (BASE * p) \in Int /\ x * (BASE * (BASE * p)) \in Int
      BY <1>7, <1>8
  <2> QED
      BY <2>1, <1>8, <1>9
<1> QED
    BY <1>1, <1>10 DEF x, y, z, p

\* A number is its lowest digit and BASE times the others.
LEMMA LowDigit ==
    ASSUME NEW a \in Seq(Digit), NEW b \in Seq(Digit), Len(a) = Len(b) + 1, \A k \in 1..Len(b) : b[k] = a[k + 1]
    PROVE  ValueOf(a) = a[1] + BASE * ValueOf(b)
<1>1. PICK f : Sums(f, a, Len(a)) /\ f[Len(a)] = ValueOf(a)
    BY ValueIs
<1>2. PICK g : Sums(g, b, Len(b)) /\ g[Len(b)] = ValueOf(b)
    BY ValueIs
<1>3. Len(b) \in Nat /\ a[1] \in Int /\ Len(b) \in 0..Len(b)
  <2>1. 1 \in 1..Len(a) /\ Len(b) \in Nat
      OBVIOUS
  <2>2. a[1] \in Digit
      BY <2>1
  <2> QED
      BY <2>1, <2>2, DigitIs
<1>4. \A k \in 1..Len(b) : b[k] \in Int /\ b[k] = a[k + 1]
  <2> TAKE k \in 1..Len(b)
  <2>1. b[k] \in Digit
      OBVIOUS
  <2> QED
      BY <2>1, DigitIs
<1> DEFINE n == Len(b)
<1>5. n \in Nat /\ Sums(f, a, n + 1) /\ Sums(g, b, n) /\ Above(a, b, n)
    BY <1>1, <1>2, <1>3, <1>4 DEF Above
<1> HIDE DEF n
<1>6. f[n + 1] = a[1] + BASE * g[n]
    BY <1>3, <1>5, SumsShifted
<1> QED
    BY <1>1, <1>2, <1>6 DEF n

\* Part of a sequence
LEMMA PartIs ==
    ASSUME NEW a \in Seq(Digit), NEW i \in 1..Len(a) + 1, NEW j \in i - 1..Len(a)
    PROVE  /\ SubSeq(a, i, j) \in Seq(Digit) /\ Len(SubSeq(a, i, j)) = j - i + 1
           /\ \A k \in 1..j - i + 1 : SubSeq(a, i, j)[k] = a[i + k - 1]
<1>1. Len(a) \in Nat
    OBVIOUS
<1>2. i \in Int /\ j \in Int /\ \A k \in i..j : a[k] \in Digit
    BY <1>1
<1> DEFINE z == SubSeq(a, i, j)
<1>3. /\ z \in Seq(Digit) /\ Len(z) = IF i <= j THEN j - i + 1 ELSE 0
      /\ \A k \in 1..j - i + 1 : z[k] = a[i + k - 1]
    BY <1>2, SubSeqProperties
<1> HIDE DEF z
<1>4. Len(z) = j - i + 1
    BY <1>1, <1>3
<1> QED
    BY <1>3, <1>4 DEF z

-----------------------------------------------------------------------------
(* The digits of a quotient (Knuth, section 4.3.1) *)

LEMMA Cancels == ASSUME NEW n \in Nat \ {0}, NEW i \in Int, NEW j \in Int, n * i < n * j PROVE i < j
<1>1. j <= i => n * j <= n * i
    BY Monotone
<1>2. n * j \in Int /\ n * i \in Int
    OBVIOUS
<1> QED
    BY <1>1, <1>2

\* the first estimate e is not too small
LEMMA EstimateLow ==
    ASSUME NEW b \in Nat \ {0}, NEW x \in Nat \ {0}, NEW w1 \in Nat \ {0}, NEW wl \in Nat, NEW u1 \in Nat, NEW ul \in Nat,
           ul < x, NEW W, NEW U,
           W = w1 * x + wl, U = u1 * x + ul,
           NEW D \in Nat, D * W <= U,
           NEW e \in Nat, NEW s \in Nat, s < w1, u1 = w1 * e + s
    PROVE  D <= e
<1>1. D * (w1 * x) <= D * W
  <2>1. w1 * x \in Int /\ W \in Int /\ w1 * x <= W
      OBVIOUS
  <2> QED
      BY <2>1, Monotone
<1>2. U < (u1 + 1) * x
    OBVIOUS
<1>3. D * (w1 * x) = x * (D * w1) /\ (u1 + 1) * x = x * (u1 + 1)
    OBVIOUS
<1>4. x * (D * w1) < x * (u1 + 1)
  <2>1. x * (D * w1) \in Int /\ x * (u1 + 1) \in Int /\ U \in Int /\ D * W \in Int
      OBVIOUS
  <2> QED
      BY <2>1, <1>1, <1>2, <1>3
<1>5. D * w1 < u1 + 1
  <2>1. D * w1 \in Int /\ u1 + 1 \in Int
      OBVIOUS
  <2> QED
      BY <2>1, <1>4, Cancels
<1>6. D * w1 < w1 * (e + 1)
  <2>1. w1 * (e + 1) = w1 * e + w1
      OBVIOUS
  <2>2. w1 * e \in Int /\ D * w1 \in Int
      OBVIOUS
  <2> QED
      BY <2>1, <2>2, <1>5
<1>7. w1 * D < w1 * (e + 1)
    BY <1>6
<1>8. D < e + 1
    BY <1>7, Cancels
<1> QED
    BY <1>8

\* the divisor, the remainder so far, and that with the next digit; y is the place of the
\* second highest digit of the divisor
Divided(b, y, w1, w2, wl, W, u1, u2, u3, rl, rem, ul, U, D) ==
    /\ b \in Nat \ {0} /\ y \in Nat \ {0}
    /\ w1 \in 0..b - 1 /\ w2 \in 0..b - 1 /\ wl \in 0..y - 1 /\ W = (w1 * b + w2) * y + wl
    /\ u1 \in 0..b - 1 /\ u2 \in 0..b - 1 /\ rl \in Nat /\ rem = (u1 * b + u2) * y + rl
    /\ u3 \in 0..b - 1 /\ ul \in 0..y - 1 /\ U = ((u1 * b + u2) * b + u3) * y + ul
    /\ b <= 2 * w1 /\ rem < W
    /\ D \in Nat /\ D < b /\ D * W <= U /\ U < (D + 1) * W

LEMMA TopDigits ==
    ASSUME NEW b, NEW y, NEW w1, NEW w2, NEW wl, NEW W, NEW u1, NEW u2, NEW u3, NEW rl, NEW rem,
           NEW ul, NEW U, NEW D, Divided(b, y, w1, w2, wl, W, u1, u2, u3, rl, rem, ul, U, D)
    PROVE  u1 * b + u2 <= w1 * b + w2
<1> USE DEF Divided
<1>1. w1 * b + w2 \in Int /\ u1 * b + u2 \in Int
    OBVIOUS
<1>2. W < (w1 * b + w2 + 1) * y
    OBVIOUS
<1>3. (u1 * b + u2) * y <= rem
    OBVIOUS
<1> HIDE DEF Divided
<1> DEFINE m == w1 * b + w2
           k == u1 * b + u2
<1>4. m \in Int /\ k \in Int /\ y \in Nat \ {0}
    BY <1>1 DEF Divided
<1>5. W < (m + 1) * y /\ k * y <= rem /\ rem < W /\ W \in Int /\ rem \in Int
    BY <1>2, <1>3 DEF Divided
<1> HIDE DEF m, k
<1>6. y * k < y * (m + 1)
    BY <1>4, <1>5
<1>7. k < m + 1
    BY <1>4, <1>6, Cancels
<1>8. k <= m
    BY <1>4, <1>7
<1> QED
    BY <1>8 DEF m, k

LEMMA TopDigit ==
    ASSUME NEW b, NEW y, NEW w1, NEW w2, NEW wl, NEW W, NEW u1, NEW u2, NEW u3, NEW rl, NEW rem,
           NEW ul, NEW U, NEW D, Divided(b, y, w1, w2, wl, W, u1, u2, u3, rl, rem, ul, U, D)
    PROVE  u1 <= w1 /\ (u1 = w1 => u2 <= w2)
<1>1. u1 * b + u2 <= w1 * b + w2
    BY TopDigits
<1>2. b \in Nat \ {0} /\ w1 \in 0..b - 1 /\ w2 \in 0..b - 1 /\ u1 \in 0..b - 1 /\ u2 \in 0..b - 1
    BY DEF Divided
<1>3. b * u1 < b * (w1 + 1)
    BY <1>1, <1>2
<1>4. u1 < w1 + 1
    BY <1>2, <1>3, Cancels
<1> QED
    BY <1>1, <1>2, <1>4

LEMMA EstimateHigh ==
    ASSUME NEW b, NEW y, NEW w1, NEW w2, NEW wl, NEW W, NEW u1, NEW u2, NEW u3, NEW rl, NEW rem,
           NEW ul, NEW U, NEW D, Divided(b, y, w1, w2, wl, W, u1, u2, u3, rl, rem, ul, U, D),
           NEW e \in Nat, NEW s \in Nat, u1 * b + u2 = w1 * e + s
    PROVE  e <= D + 2 /\ e <= b + 1
<1>1. b \in Nat \ {0} /\ w1 \in 0..b - 1 /\ w2 \in 0..b - 1 /\ u1 \in 0..b - 1 /\ u2 \in 0..b - 1
      /\ b <= 2 * w1 /\ D \in Nat /\ D < b /\ y \in Nat \ {0}
    BY DEF Divided
<1> DEFINE x == b * y
           g == w1 * e
<1>2. x \in Nat \ {0} /\ g \in Nat
    BY <1>1
<1>3. g * x <= U
  <2>1. g <= u1 * b + u2
      BY <1>1
  <2>2. U >= (u1 * b + u2) * x
      BY DEF Divided
  <2>3. x * g <= x * (u1 * b + u2)
    <3>1. u1 * b + u2 \in Int
        BY <1>1
    <3> QED
        BY <3>1, <2>1, <1>2, Monotone
  <2>4. U \in Int
      BY DEF Divided
  <2> HIDE DEF x, g
  <2>5. x * g = g * x /\ x * (u1 * b + u2) = (u1 * b + u2) * x /\ x * g \in Int /\ x * (u1 * b + u2) \in Int
      BY <1>1, <1>2
  <2> QED
      BY <2>2, <2>3, <2>4, <2>5
<1>4. W <= (w1 + 1) * x
  <2>1. W < (w1 * b + b) * y
      BY DEF Divided
  <2>2. (w1 * b + b) * y = (w1 + 1) * x
      BY <1>1
  <2>3. W \in Int
      BY DEF Divided
  <2> QED
      BY <2>1, <2>2, <2>3, <1>1
<1>5. U < (D + 1) * W /\ U \in Int /\ W \in Int
    BY DEF Divided
<1> HIDE DEF x
<1>6. (D + 1) * W <= (D + 1) * ((w1 + 1) * x)
  <2>1. D + 1 \in Nat /\ (w1 + 1) * x \in Int
      BY <1>1, <1>2
  <2> QED
      BY <2>1, <1>4, <1>5, Monotone
<1>7. x * g < x * ((D + 1) * (w1 + 1))
  <2>1. x * g = g * x /\ x * ((D + 1) * (w1 + 1)) = (D + 1) * ((w1 + 1) * x)
      BY <1>1, <1>2
  <2>2. g * x \in Int /\ (D + 1) * W \in Int /\ (D + 1) * ((w1 + 1) * x) \in Int
      BY <1>1, <1>2, <1>5
  <2> HIDE DEF g
  <2> QED
      BY <2>1, <2>2, <1>3, <1>5, <1>6
<1>8. g < (D + 1) * (w1 + 1)
  <2>1. (D + 1) * (w1 + 1) \in Int
      BY <1>1
  <2> QED
      BY <2>1, <1>2, <1>7, Cancels
<1>9. e <= D + 2
  <2> SUFFICES ASSUME D + 3 <= e PROVE FALSE
      BY <1>1
  <2>1. w1 * (D + 3) <= g
      BY <1>1, Monotone
  <2>2. w1 * (D + 3) = w1 * D + 3 * w1 /\ (D + 1) * (w1 + 1) = w1 * D + w1 + D + 1 /\ w1 * D \in Int
      BY <1>1
  <2> HIDE DEF g
  <2> QED
      BY <2>1, <2>2, <1>1, <1>2, <1>8
<1>10. e <= b + 1
  <2>1. u1 <= w1
      BY TopDigit
  <2>2. b * u1 <= b * w1
      BY <2>1, <1>1, Monotone
  <2>3. g < w1 * (b + 2)
    <3>1. g <= u1 * b + u2
        BY <1>1
    <3> HIDE DEF g
    <3>2. u1 * b = b * u1 /\ w1 * (b + 2) = b * w1 + 2 * w1 /\ b * u1 \in Int /\ b * w1 \in Int
        BY <1>1
    <3> QED
        BY <3>1, <3>2, <2>2, <1>1, <1>2
  <2>4. w1 \in Nat \ {0} /\ b + 2 \in Int
      BY <1>1
  <2>5. e < b + 2
      BY <2>3, <2>4, Cancels
  <2> QED
      BY <2>5, <1>1
<1> QED
    BY <1>9, <1>10

LEMMA EstimateEnough ==
    ASSUME NEW b, NEW y, NEW w1, NEW w2, NEW wl, NEW W, NEW u1, NEW u2, NEW u3, NEW rl, NEW rem,
           NEW ul, NEW U, NEW D, Divided(b, y, w1, w2, wl, W, u1, u2, u3, rl, rem, ul, U, D),
           NEW e \in Nat, NEW s \in Nat, s < w1, u1 * b + u2 = w1 * e + s
    PROVE  D <= e
<1>1. b \in Nat \ {0} /\ w1 \in 0..b - 1 /\ w2 \in 0..b - 1 /\ u1 \in 0..b - 1 /\ u2 \in 0..b - 1
      /\ b <= 2 * w1 /\ D \in Nat /\ D < b /\ y \in Nat \ {0} /\ wl \in 0..y - 1 /\ u3 \in 0..b - 1
      /\ ul \in 0..y - 1
    BY DEF Divided
<1> DEFINE x == b * y
           m == w2 * y + wl
           n == u3 * y + ul
<1>2. x \in Nat \ {0} /\ m \in Nat /\ n \in Nat
    BY <1>1
<1>3. n < x
  <2>1. y * (u3 + 1) <= y * b
      BY <1>1, Monotone
  <2>2. y * (u3 + 1) = u3 * y + y /\ y * b = b * y /\ u3 * y \in Int /\ b * y \in Int
      BY <1>1
  <2> QED
      BY <2>1, <2>2, <1>1
<1>4. W = w1 * x + m
  <2>1. W = (w1 * b + w2) * y + wl
      BY DEF Divided
  <2>2. (w1 * b + w2) * y = w1 * x + w2 * y
      BY <1>1
  <2>3. w1 * x \in Int /\ w2 * y \in Int
      BY <1>1, <1>2
  <2> HIDE DEF x
  <2> QED
      BY <2>1, <2>2, <2>3, <1>1
<1>5. U = (u1 * b + u2) * x + n
  <2>1. U = ((u1 * b + u2) * b + u3) * y + ul
      BY DEF Divided
  <2> DEFINE k == u1 * b + u2
  <2>2. k \in Int
      BY <1>1
  <2> HIDE DEF k
  <2>3. (k * b + u3) * y = k * x + u3 * y
      BY <1>1, <2>2
  <2>4. k * x \in Int /\ u3 * y \in Int
      BY <1>1, <1>2, <2>2
  <2>5. U = (k * b + u3) * y + ul
      BY <2>1 DEF k
  <2> HIDE DEF x
  <2>6. U = k * x + n
      BY <2>3, <2>4, <2>5, <1>1
  <2> QED
      BY <2>6 DEF k
<1>6. w1 \in Nat \ {0} /\ u1 * b + u2 \in Nat
    BY <1>1
<1>7. D * W <= U
    BY DEF Divided
<1> HIDE DEF x, m, n
<1> QED
    BY <1>1, <1>2, <1>3, <1>4, <1>5, <1>6, <1>7, EstimateLow

\* What is left of the two highest digits, with the third, next to what e takes of them
Exceeding(e, s, b, w2, u3) == w2 * e > s * b + u3

LEMMA TwoDigits ==
    ASSUME NEW b \in Nat, NEW w1 \in Nat, NEW w2 \in Nat, NEW k \in Nat, NEW u3 \in Nat, NEW e \in Nat, NEW s \in Nat,
           k = w1 * e + s
    PROVE  Exceeding(e, s, b, w2, u3) <=> e * (w1 * b + w2) > k * b + u3
<1>1. e * (w1 * b + w2) = b * (w1 * e) + w2 * e
    OBVIOUS
<1>2. k * b = b * (w1 * e) + s * b
    OBVIOUS
<1>3. b * (w1 * e) \in Int /\ w2 * e \in Int /\ s * b \in Int
    OBVIOUS
<1> DEFINE z == b * (w1 * e)
<1> HIDE DEF z
<1>4. e * (w1 * b + w2) = z + w2 * e /\ k * b = z + s * b /\ z \in Int
    BY <1>1, <1>2, <1>3 DEF z
<1> QED
    BY <1>3, <1>4 DEF Exceeding

LEMMA CorrectLow ==
    ASSUME NEW b, NEW y, NEW w1, NEW w2, NEW wl, NEW W, NEW u1, NEW u2, NEW u3, NEW rl, NEW rem,
           NEW ul, NEW U, NEW D, Divided(b, y, w1, w2, wl, W, u1, u2, u3, rl, rem, ul, U, D),
           NEW e \in Nat, NEW s \in Nat, u1 * b + u2 = w1 * e + s, Exceeding(e, s, b, w2, u3)
    PROVE  D < e
<1>1. b \in Nat \ {0} /\ w1 \in 0..b - 1 /\ w2 \in 0..b - 1 /\ u1 \in 0..b - 1 /\ u2 \in 0..b - 1
      /\ D \in Nat /\ y \in Nat \ {0} /\ wl \in 0..y - 1 /\ u3 \in 0..b - 1 /\ ul \in 0..y - 1
    BY DEF Divided
<1> DEFINE m == w1 * b + w2
           k == u1 * b + u2
           n == k * b + u3
<1>2. m \in Nat /\ k \in Nat
    BY <1>1
<1>3. W = m * y + wl /\ U = n * y + ul /\ D * W <= U
    BY DEF Divided
<1>4. e * m > n
  <2>1. k = w1 * e + s
      OBVIOUS
  <2>2. b \in Nat /\ w1 \in Nat /\ w2 \in Nat /\ u3 \in Nat
      BY <1>1
  <2> HIDE DEF k
  <2>3. e * (w1 * b + w2) > k * b + u3
      BY <2>1, <2>2, <1>2, TwoDigits, Zenon
  <2> QED
      BY <2>3
<1> HIDE DEF m, k
<1>5. n \in Nat
    BY <1>1, <1>2
<1> HIDE DEF n
<1>6. y * (n + 1) <= y * (e * m)
  <2>1. e * m \in Int /\ n + 1 \in Int /\ n + 1 <= e * m
      BY <1>2, <1>4, <1>5
  <2> QED
      BY <2>1, <1>1, Monotone
<1>7. U < y * (n + 1)
  <2>1. y * (n + 1) = n * y + y /\ n * y \in Int
      BY <1>1, <1>5
  <2> QED
      BY <2>1, <1>1, <1>3
<1>8. y * (e * m) <= e * W
  <2>1. y * (e * m) = e * (m * y) /\ m * y \in Int
      BY <1>1, <1>2
  <2>2. m * y <= W /\ W \in Int
      BY <2>1, <1>1, <1>3
  <2> QED
      BY <2>1, <2>2, Monotone
<1>9. D * W < e * W /\ W \in Nat
  <2>1. m * y \in Nat /\ n * y \in Nat /\ e * m \in Nat
      BY <1>1, <1>2, <1>5
  <2>2. W \in Nat /\ U \in Nat
      BY <2>1, <1>1, <1>3
  <2>3. D * W \in Int /\ e * W \in Int /\ y * (n + 1) \in Int /\ y * (e * m) \in Int
      BY <2>1, <2>2, <1>1, <1>5
  <2> QED
      BY <2>2, <2>3, <1>3, <1>6, <1>7, <1>8
<1>10. W * D < W * e
    BY <1>1, <1>9
<1>11. W # 0
    BY <1>1, <1>9
<1> QED
    BY <1>1, <1>9, <1>10, <1>11, Cancels

LEMMA AcceptCap ==
    ASSUME NEW b, NEW y, NEW w1, NEW w2, NEW wl, NEW W, NEW u1, NEW u2, NEW u3, NEW rl, NEW rem,
           NEW ul, NEW U, NEW D, Divided(b, y, w1, w2, wl, W, u1, u2, u3, rl, rem, ul, U, D),
           NEW e \in Nat, NEW s \in Nat, u1 * b + u2 = w1 * e + s, ~Exceeding(e, s, b, w2, u3)
    PROVE  e <= b
<1>1. b \in Nat \ {0} /\ w1 \in 0..b - 1 /\ w2 \in 0..b - 1 /\ u1 \in 0..b - 1 /\ u2 \in 0..b - 1
      /\ u3 \in 0..b - 1 /\ b <= 2 * w1
    BY DEF Divided
<1> SUFFICES ASSUME e > b PROVE FALSE
    BY <1>1
<1>2. e = b + 1
  <2>1. e <= b + 1
      BY EstimateHigh, Zenon
  <2> QED
      BY <2>1, <1>1
<1>3. u1 <= w1 /\ (u1 = w1 => u2 <= w2)
    BY TopDigit
<1>4. u1 * b + u2 = w1 * b + w1 + s
  <2>1. w1 * (b + 1) = w1 * b + w1
      BY <1>1
  <2> QED
      BY <2>1, <1>2
<1>5. u1 = w1
  <2> SUFFICES ASSUME u1 + 1 <= w1 PROVE FALSE
      BY <1>1, <1>3
  <2>1. b * (u1 + 1) <= b * w1
      BY <1>1, Monotone
  <2>2. b * (u1 + 1) = u1 * b + b /\ b * w1 = w1 * b /\ u1 * b \in Int /\ w1 * b \in Int
      BY <1>1
  <2> QED
      BY <2>1, <2>2, <1>1, <1>4
<1>6. u2 = w1 + s
  <2>1. w1 * b \in Int
      BY <1>1
  <2> QED
      BY <2>1, <1>1, <1>4, <1>5
<1>7. w1 + s <= w2
    BY <1>1, <1>3, <1>5, <1>6
<1>8. w2 * (b + 1) <= s * b + u3
  <2>1. w2 * (b + 1) \in Int /\ s * b \in Int
      BY <1>1
  <2> QED
      BY <2>1, <1>1, <1>2 DEF Exceeding
<1>9. (b + 1) * (w1 + s) <= (b + 1) * w2
    BY <1>1, <1>7, Monotone
<1>10. (b + 1) * (w1 + s) = b * w1 + w1 + s * b + s /\ (b + 1) * w2 = w2 * (b + 1)
    BY <1>1
<1>11. b * 1 <= b * w1
    BY <1>1, Monotone
<1>12. b * w1 \in Int /\ s * b \in Int /\ w2 * (b + 1) \in Int /\ b * 1 = b
    BY <1>1
<1> QED
    BY <1>1, <1>8, <1>9, <1>10, <1>11, <1>12

LEMMA AcceptHigh ==
    ASSUME NEW b, NEW y, NEW w1, NEW w2, NEW wl, NEW W, NEW u1, NEW u2, NEW u3, NEW rl, NEW rem,
           NEW ul, NEW U, NEW D, Divided(b, y, w1, w2, wl, W, u1, u2, u3, rl, rem, ul, U, D),
           NEW e \in Nat, NEW s \in Nat, u1 * b + u2 = w1 * e + s, ~Exceeding(e, s, b, w2, u3)
    PROVE  e <= D + 1
<1>1. b \in Nat \ {0} /\ w1 \in 0..b - 1 /\ w2 \in 0..b - 1 /\ u1 \in 0..b - 1 /\ u2 \in 0..b - 1
      /\ D \in Nat /\ y \in Nat \ {0} /\ wl \in 0..y - 1 /\ u3 \in 0..b - 1 /\ ul \in 0..y - 1 /\ b <= 2 * w1
    BY DEF Divided
<1> DEFINE m == w1 * b + w2
           k == u1 * b + u2
           n == k * b + u3
<1>2. m \in Nat /\ k \in Nat
    BY <1>1
<1>3. W = m * y + wl /\ U = n * y + ul /\ U < (D + 1) * W
    BY DEF Divided
<1>4. e * m <= n
  <2>1. k = w1 * e + s
      OBVIOUS
  <2>4. b \in Nat /\ w1 \in Nat /\ w2 \in Nat /\ u3 \in Nat
      BY <1>1
  <2> HIDE DEF k
  <2>2. ~ (e * (w1 * b + w2) > k * b + u3)
      BY <2>1, <2>4, <1>2, TwoDigits, Zenon
  <2>3. e * m \in Int /\ n \in Int
      BY <1>1, <1>2
  <2> QED
      BY <2>2, <2>3
<1>5. e <= b
    BY AcceptCap
<1>6. b <= m
  <2>1. b * 1 <= b * w1
      BY <1>1, Monotone
  <2>2. b * w1 \in Int /\ b * w1 = w1 * b /\ b * 1 = b
      BY <1>1
  <2> QED
      BY <2>1, <2>2, <1>1
<1> HIDE DEF m, k
<1>7. n \in Nat
    BY <1>1, <1>2
<1> HIDE DEF n
<1> SUFFICES ASSUME D + 2 <= e PROVE FALSE
    BY <1>1
<1>8. y * (e * m) <= y * n
  <2>1. e * m \in Int
      BY <1>2
  <2> QED
      BY <2>1, <1>1, <1>4, <1>7, Monotone
<1>9. e * W = y * (e * m) + e * wl /\ y * (e * m) \in Int /\ e * wl \in Int
  <2>1. e * (m * y + wl) = y * (e * m) + e * wl
      BY <1>1, <1>2
  <2>2. wl \in Int
      BY <1>1
  <2> QED
      BY <2>1, <2>2, <1>1, <1>2, <1>3
<1>10. e * wl <= m * y - m
  <2>1. wl * e <= wl * m
      BY <1>1, <1>2, <1>5, <1>6, Monotone
  <2>2. m * wl <= m * (y - 1)
      BY <1>1, <1>2, Monotone
  <2>3. wl * e = e * wl /\ wl * m = m * wl /\ m * (y - 1) = m * y - m /\ m * y \in Int /\ m * wl \in Int
      BY <1>1, <1>2
  <2> QED
      BY <2>1, <2>2, <2>3, <1>2, <1>9
<1>11. W * (D + 2) <= W * e /\ W \in Nat
  <2>1. m * y \in Nat
      BY <1>1, <1>2
  <2>2. W \in Nat
      BY <2>1, <1>1, <1>3
  <2> QED
      BY <2>2, <1>1, Monotone
<1>12. W * (D + 2) = (D + 1) * W + W /\ W * e = e * W /\ (D + 1) * W \in Int /\ e * W \in Int
    BY <1>1, <1>11
<1>13. y * n <= U /\ y * n \in Int /\ m * y \in Int
  <2>1. y * n = n * y /\ n * y \in Int /\ m * y \in Int
      BY <1>1, <1>2, <1>7
  <2> QED
      BY <2>1, <1>1, <1>3
<1>14. m * y <= W /\ m > 0
    BY <1>1, <1>2, <1>3, <1>6, <1>13
<1>15. U \in Int
  <2>1. n * y \in Int
      BY <1>1, <1>7
  <2> QED
      BY <2>1, <1>1, <1>3
<1>16. e * W <= U + m * y - m
    BY <1>2, <1>8, <1>9, <1>10, <1>13, <1>15
<1> QED
    BY <1>2, <1>3, <1>11, <1>12, <1>13, <1>14, <1>15, <1>16

-----------------------------------------------------------------------------
(* What a step of the division takes away *)

\* Where the digits are that a step of the division reads
LEMMA PlacesRead ==
    ASSUME v \in Seq(Digit), w \in Seq(Digit), quot \in Seq(Digit), Len(w) >= 2
    PROVE  /\ at \in Int /\ size_w \in Nat /\ size_w = Len(w) /\ at + size_w = Len(v) - Len(quot)
           /\ at > 0 => /\ at + size_w \in 1..Len(v) /\ at + size_w - 1 \in 1..Len(v)
                        /\ at + size_w - 2 \in 1..Len(v)
                        /\ \A i \in 1..size_w : at + i - 1 \in 1..Len(v)
           /\ size_w \in 1..Len(w) /\ size_w - 1 \in 1..Len(w)
<1>1. Len(v) \in Nat /\ Len(w) \in Nat /\ Len(quot) \in Nat
    OBVIOUS
<1>2. at = Len(v) - Len(w) - Len(quot) /\ size_w = Len(w)
    BY DEF at, size_w
<1> QED
    BY <1>1, <1>2

\* What is left of v by the digits of the quotient so far, and that with the next digit
Remaining == ValueOf(SubSeq(v, at + 1, at + size_w))
Extended == ValueOf(SubSeq(v, at, at + size_w))

\* The next digit of the quotient
DigitDue == Extended \div ValueOf(w)

\* The digits v and w are those of two numbers, and w fills its highest digit.
Shifted == v \in Seq(Digit) /\ w \in Seq(Digit) /\ quot \in Seq(Digit) /\ Len(w) >= 2 /\ BASE <= 2 * w[size_w]

\* What is read of them for the next digit is there.
LEMMA PlacesShifted ==
    ASSUME Shifted, at > 0
    PROVE  /\ v \in Seq(Digit) /\ w \in Seq(Digit) /\ quot \in Seq(Digit) /\ BASE <= 2 * w[size_w]
           /\ at \in Int /\ size_w \in Nat /\ size_w = Len(w) /\ size_w >= 2 /\ Len(v) \in Nat
           /\ at + size_w \in 1..Len(v) /\ at + size_w - 1 \in 1..Len(v) /\ at + size_w - 2 \in 1..Len(v)
           /\ \A i \in 1..size_w : at + i - 1 \in 1..Len(v)
           /\ size_w \in 1..Len(w) /\ size_w - 1 \in 1..Len(w)
<1>1. v \in Seq(Digit) /\ w \in Seq(Digit) /\ quot \in Seq(Digit) /\ Len(w) >= 2 /\ BASE <= 2 * w[size_w]
    BY DEF Shifted
<1>2. Len(v) \in Nat
    BY <1>1
<1>3. /\ at \in Int /\ size_w \in Nat /\ size_w = Len(w)
      /\ at + size_w \in 1..Len(v) /\ at + size_w - 1 \in 1..Len(v) /\ at + size_w - 2 \in 1..Len(v)
      /\ \A i \in 1..size_w : at + i - 1 \in 1..Len(v)
      /\ size_w \in 1..Len(w) /\ size_w - 1 \in 1..Len(w)
    BY <1>1, PlacesRead
<1> QED
    BY <1>1, <1>2, <1>3

LEMMA PartsOfV ==
    ASSUME Shifted, at > 0
    PROVE  /\ SubSeq(v, at, at + size_w) \in Seq(Digit) /\ Len(SubSeq(v, at, at + size_w)) = size_w + 1
           /\ \A k \in 1..size_w + 1 : SubSeq(v, at, at + size_w)[k] = v[at + k - 1]
           /\ SubSeq(v, at + 1, at + size_w) \in Seq(Digit) /\ Len(SubSeq(v, at + 1, at + size_w)) = size_w
           /\ \A k \in 1..size_w : SubSeq(v, at + 1, at + size_w)[k] = v[at + k]
<1>1. at \in Int /\ size_w \in Nat /\ at + size_w \in 1..Len(v) /\ Len(v) \in Nat
    BY PlacesShifted
<1> DEFINE i == at
           j == at + size_w
<1>2. i \in 1..Len(v) + 1 /\ j \in i - 1..Len(v) /\ i + 1 \in 1..Len(v) + 1 /\ j \in i + 1 - 1..Len(v)
      /\ j - i + 1 = size_w + 1 /\ j - (i + 1) + 1 = size_w
    BY <1>1
<1> HIDE DEF i, j
<1>3. /\ SubSeq(v, i, j) \in Seq(Digit) /\ Len(SubSeq(v, i, j)) = j - i + 1
      /\ \A k \in 1..j - i + 1 : SubSeq(v, i, j)[k] = v[i + k - 1]
    BY <1>2, PartIs DEF Shifted
<1>4. /\ SubSeq(v, i + 1, j) \in Seq(Digit) /\ Len(SubSeq(v, i + 1, j)) = j - (i + 1) + 1
      /\ \A k \in 1..j - (i + 1) + 1 : SubSeq(v, i + 1, j)[k] = v[i + 1 + k - 1]
    BY <1>2, PartIs DEF Shifted
<1>5. \A k \in 1..size_w : i + 1 + k - 1 = i + k
    BY <1>1 DEF i
<1>6. \A k \in 1..size_w : SubSeq(v, i + 1, j)[k] = v[i + k]
    BY <1>2, <1>4, <1>5
<1> QED
    BY <1>2, <1>3, <1>4, <1>6 DEF i, j

\* The lowest digit of Extended is the one that is new.
LEMMA NextDigit ==
    ASSUME Shifted, at > 0
    PROVE  /\ Extended = v[at] + BASE * Remaining
           /\ Remaining \in Nat /\ Extended \in Nat /\ v[at] \in Digit
           /\ ValueOf(w) \in Nat \ {0}
<1> DEFINE a == SubSeq(v, at, at + size_w)
           b == SubSeq(v, at + 1, at + size_w)
<1>1. at \in Int /\ size_w \in Nat /\ size_w = Len(w) /\ size_w >= 2 /\ at + size_w \in 1..Len(v) /\ Len(v) \in Nat
    BY PlacesShifted
<1>2. /\ a \in Seq(Digit) /\ Len(a) = size_w + 1 /\ \A k \in 1..size_w + 1 : a[k] = v[at + k - 1]
      /\ b \in Seq(Digit) /\ Len(b) = size_w /\ \A k \in 1..size_w : b[k] = v[at + k]
    BY PartsOfV
<1> HIDE DEF a, b
<1>3. \A k \in 1..size_w : b[k] = a[k + 1]
  <2> TAKE k \in 1..size_w
  <2>1. k + 1 \in 1..size_w + 1 /\ at + (k + 1) - 1 = at + k
      BY <1>1
  <2> QED
      BY <2>1, <1>2
<1>4. a[1] = v[at]
  <2>1. 1 \in 1..size_w + 1 /\ at + 1 - 1 = at
      BY <1>1
  <2> QED
      BY <2>1, <1>2
<1>5. Len(a) = Len(b) + 1 /\ \A k \in 1..Len(b) : b[k] = a[k + 1]
    BY <1>2, <1>3
<1>6. ValueOf(a) = a[1] + BASE * ValueOf(b)
    BY <1>2, <1>5, LowDigit
<1>7. ValueOf(a) \in Nat /\ ValueOf(b) \in Nat
    BY <1>2, ValueBelow
<1>8. v[at] \in Digit
  <2>1. at \in 1..Len(v)
      BY <1>1
  <2> QED
      BY <2>1 DEF Shifted
<1>9. ValueOf(w) \in Nat \ {0}
  <2>1. w \in Seq(Digit) /\ size_w = Len(w)
      BY <1>1 DEF Shifted
  <2>2. PICK lo \in 0..Place(size_w - 2) - 1 :
            ValueOf(w) = (w[size_w] * BASE + w[size_w - 1]) * Place(size_w - 2) + lo
      BY <2>1, <1>1, TopTwo
  <2> DEFINE x == w[size_w]
             y == w[size_w - 1]
             p == Place(size_w - 2)
  <2>3. x \in Nat /\ y \in Nat /\ BASE <= 2 * x
    <3>1. size_w \in 1..Len(w) /\ size_w - 1 \in 1..Len(w)
        BY <1>1
    <3>2. x \in Digit /\ y \in Digit
        BY <3>1, <2>1
    <3> QED
        BY <3>2, DigitIs DEF Shifted
  <2>4. p \in Nat \ {0}
    <3>1. size_w - 2 \in Nat
        BY <1>1
    <3> QED
        BY <3>1, Places
  <2>5. lo \in Nat /\ ValueOf(w) = (x * BASE + y) * p + lo
      BY <2>2, <2>4
  <2> HIDE DEF x, y, p
  <2>6. x * BASE + y \in Nat \ {0}
      BY <2>3, DigitSizes
  <2> DEFINE z == x * BASE + y
  <2>7. ValueOf(w) = z * p + lo /\ z \in Nat \ {0}
      BY <2>5, <2>6
  <2> HIDE DEF z
  <2>8. z * p \in Nat \ {0}
      BY <2>4, <2>7
  <2> QED
      BY <2>5, <2>7, <2>8
<1> QED
    BY <1>4, <1>6, <1>7, <1>8, <1>9 DEF a, b, Remaining, Extended

\* The next digit is one digit.
LEMMA DigitDueIs ==
    ASSUME Shifted, at > 0, Remaining < ValueOf(w)
    PROVE  /\ DigitDue \in Nat /\ DigitDue < BASE
           /\ DigitDue * ValueOf(w) <= Extended /\ Extended < (DigitDue + 1) * ValueOf(w)
<1> DEFINE x == v[at]
           y == Remaining
           z == ValueOf(w)
           t == Extended
           D == DigitDue
<1>1. /\ t = x + BASE * y /\ y \in Nat /\ t \in Nat /\ x \in Nat /\ x < BASE /\ z \in Nat \ {0} /\ y < z
      /\ D = t \div z
    BY NextDigit, DigitIs DEF DigitDue
<1> HIDE DEF x, y, z, t, D
<1>2. BASE \in Nat \ {0}
    BY DigitSizes
<1>3. t < z * (BASE - 1 + 1)
  <2>1. BASE * (y + 1) <= BASE * z
      BY <1>1, <1>2, Monotone
  <2>2. BASE * (y + 1) = BASE * y + BASE /\ z * (BASE - 1 + 1) = BASE * z /\ BASE * y \in Int /\ BASE * z \in Int
      BY <1>1, <1>2
  <2> QED
      BY <2>1, <2>2, <1>1, <1>2
<1>4. D \in 0..BASE - 1
  <2>1. BASE - 1 \in Nat
      BY <1>2
  <2> QED
      BY <2>1, <1>1, <1>3, Under
<1>5. t % z \in 0..z - 1 /\ t = z * D + (t % z)
  <2>1. t \in Int
      BY <1>1
  <2> QED
      BY <2>1, <1>1, Division
<1>6. D * z <= t /\ t < (D + 1) * z
  <2>1. z * D = D * z /\ (D + 1) * z = D * z + z /\ D * z \in Int
      BY <1>1, <1>2, <1>4
  <2> DEFINE s == t % z
  <2>2. s \in 0..z - 1 /\ t = z * D + s
      BY <1>5
  <2> HIDE DEF s
  <2> QED
      BY <2>1, <2>2, <1>1
<1>7. D \in Nat /\ D < BASE
    BY <1>2, <1>4
<1> QED
    BY <1>6, <1>7 DEF D, z, t

\* What Knuth's argument needs
LEMMA DividedIs ==
    ASSUME Shifted, at > 0, Remaining < ValueOf(w)
    PROVE  \E y, wl, rl, ul :
             Divided(BASE, y, w[size_w], w[size_w - 1], wl, ValueOf(w), v[at + size_w], v[at + size_w - 1],
                     v[at + size_w - 2], rl, Remaining, ul, Extended, DigitDue)
<1> DEFINE n == size_w
           a == SubSeq(v, at, at + n)
           b == SubSeq(v, at + 1, at + n)
           y == Place(n - 2)
<1>1. /\ at \in Int /\ n \in Nat /\ n = Len(w) /\ n >= 2 /\ at + n \in 1..Len(v) /\ Len(v) \in Nat
      /\ n \in 1..Len(w) /\ n - 1 \in 1..Len(w) /\ w \in Seq(Digit) /\ v \in Seq(Digit) /\ BASE <= 2 * w[n]
      /\ at + n - 1 \in 1..Len(v) /\ at + n - 2 \in 1..Len(v)
    BY PlacesShifted
<1>2. /\ a \in Seq(Digit) /\ Len(a) = n + 1 /\ \A k \in 1..n + 1 : a[k] = v[at + k - 1]
      /\ b \in Seq(Digit) /\ Len(b) = n /\ \A k \in 1..n : b[k] = v[at + k]
    BY PartsOfV
<1>3. Remaining = ValueOf(b) /\ Extended = ValueOf(a)
    BY DEF Remaining, Extended
<1> HIDE DEF n, a, b, y
<1>4. PICK wl \in 0..y - 1 : ValueOf(w) = (w[n] * BASE + w[n - 1]) * y + wl
    BY <1>1, TopTwo DEF y
<1>5. PICK rl \in 0..y - 1 : ValueOf(b) = (b[n] * BASE + b[n - 1]) * y + rl
  <2>1. b \in Seq(Digit) /\ n = Len(b) /\ n >= 2
      BY <1>1, <1>2
  <2> QED
      BY <2>1, TopTwo DEF y
<1>6. PICK ul \in 0..y - 1 : ValueOf(a) = ((a[n + 1] * BASE + a[n]) * BASE + a[n - 1]) * y + ul
  <2> DEFINE m == n + 1
  <2>1. m = Len(a) /\ m >= 3 /\ m - 1 = n /\ m - 2 = n - 1 /\ m - 3 = n - 2
      BY <1>1, <1>2
  <2> HIDE DEF m
  <2>2. \E lo \in 0..Place(m - 3) - 1 :
            ValueOf(a) = ((a[m] * BASE + a[m - 1]) * BASE + a[m - 2]) * Place(m - 3) + lo
      BY <2>1, <1>2, TopThree
  <2> QED
      BY <2>1, <2>2 DEF y, m
<1>7. /\ b[n] = v[at + n] /\ b[n - 1] = v[at + n - 1]
      /\ a[n + 1] = v[at + n] /\ a[n] = v[at + n - 1] /\ a[n - 1] = v[at + n - 2]
  <2>1. /\ n \in 1..n /\ n - 1 \in 1..n /\ at + (n - 1) = at + n - 1
        /\ n + 1 \in 1..n + 1 /\ n \in 1..n + 1 /\ n - 1 \in 1..n + 1
        /\ at + (n + 1) - 1 = at + n /\ at + (n - 1) - 1 = at + n - 2
      BY <1>1
  <2>2. b[n] = v[at + n] /\ b[n - 1] = v[at + (n - 1)]
      BY <2>1, <1>2
  <2>3. a[n + 1] = v[at + (n + 1) - 1] /\ a[n] = v[at + n - 1] /\ a[n - 1] = v[at + (n - 1) - 1]
      BY <2>1, <1>2
  <2> QED
      BY <2>1, <2>2, <2>3
<1>8. y \in Nat \ {0} /\ rl \in Nat
  <2>1. n - 2 \in Nat
      BY <1>1
  <2>2. y \in Nat \ {0}
      BY <2>1, Places DEF y
  <2> QED
      BY <2>2
<1>9. /\ w[n] \in 0..BASE - 1 /\ w[n - 1] \in 0..BASE - 1
      /\ v[at + n] \in 0..BASE - 1 /\ v[at + n - 1] \in 0..BASE - 1 /\ v[at + n - 2] \in 0..BASE - 1
  <2>1. /\ w[n] \in Digit /\ w[n - 1] \in Digit
        /\ v[at + n] \in Digit /\ v[at + n - 1] \in Digit /\ v[at + n - 2] \in Digit
      BY <1>1
  <2> QED
      BY <2>1, DigitSizes DEF Digit
<1>10. BASE \in Nat \ {0}
    BY DigitSizes
<1>11. /\ DigitDue \in Nat /\ DigitDue < BASE
       /\ DigitDue * ValueOf(w) <= Extended /\ Extended < (DigitDue + 1) * ValueOf(w)
    BY DigitDueIs
<1>12. Divided(BASE, y, w[n], w[n - 1], wl, ValueOf(w), v[at + n], v[at + n - 1],
               v[at + n - 2], rl, Remaining, ul, Extended, DigitDue)
    BY <1>1, <1>3, <1>4, <1>5, <1>6, <1>7, <1>8, <1>9, <1>10, <1>11 DEF Divided
<1> QED
    BY <1>12 DEF n

\* The sums before they are cut to digits, when q times w is subtracted
Borrowing(z) ==
    /\ \A i \in 1..size_w : /\ z[i] \in Int
                            /\ z[i] = v[at + i - 1] - q * w[i] + (IF i = 1 THEN 0 ELSE z[i - 1] \div BASE)
    /\ Difference = [v |-> [i \in 1..size_w |-> z[i] % BASE], borrow |-> z[size_w] \div BASE]

LEMMA DifferenceChain ==
    ASSUME Shifted, at > 0, q \in Nat
    PROVE  \E z : Borrowing(z)
<1> USE DEF Shifted
<1> DEFINE n == size_w
           E(i, y) == v[at + i - 1] - q * w[i] + y
           c == E(1, 0)
           G == [i \in 1 + 1..n |-> [y \in Int |-> E(i, y \div BASE)]]
           Is(f) == f = [i \in 1..n |-> E(i, IF i = 1 THEN 0 ELSE f[i - 1] \div BASE)]
           h == CHOOSE f : Is(f)
<1>1. n \in Nat /\ n \in Int /\ 1 \in Int /\ 1 <= n /\ 0 \in Int
    BY PlacesRead
<1>2. ASSUME NEW i \in 1..n
      PROVE  v[at + i - 1] \in Digit /\ v[at + i - 1] \in Nat /\ w[i] \in Nat
  <2>1. at + i - 1 \in 1..Len(v) /\ i \in 1..Len(w)
      BY PlacesRead
  <2>2. v[at + i - 1] \in Digit /\ w[i] \in Digit
      BY <2>1
  <2> QED
      BY <2>2, DigitIs
<1>3. ASSUME NEW i \in 1..n, NEW y \in Int
      PROVE  E(i, y) \in Int
  <2> DEFINE x == v[at + i - 1]
             z == q * w[i]
  <2>1. x \in Int /\ z \in Int
      BY <1>2
  <2>2. E(i, y) = x - z + y
      OBVIOUS
  <2> HIDE DEF x, z, E
  <2> QED
      BY <2>1, <2>2
<1>5. Difference = [v |-> [i \in 1..n |-> h[i] % BASE], borrow |-> h[n] \div BASE]
    BY DEF Difference
<1> HIDE DEF E, n
<1>6. \A i \in 1..n : \A y \in Int : E(i, y \div BASE) \in Int
    BY <1>3, Remainder
<1>7. c \in Int
    BY <1>1, <1>3
<1>8. Maps(G, 1, n, Int)
    BY <1>6 DEF Maps
<1>9. \A i \in 1..n : \A y \in Int : i # 1 => G[i][y] = E(i, y \div BASE)
    BY <1>1
<1> HIDE DEF G
<1>10. PICK f : f \in [1..n -> Int] /\ Chained(f, 1, n, c, G)
    BY <1>1, <1>7, <1>8, Iteration, Zenon
<1>11. f = [i \in 1..n |-> IF i = 1 THEN c ELSE G[i][f[i - 1]]]
    BY <1>10 DEF Chained
<1>12. \A i \in 1..n : i # 1 => f[i - 1] \in Int
  <2> TAKE i \in 1..n
  <2>1. i # 1 => i - 1 \in 1..n
      BY <1>1
  <2> QED
      BY <2>1, <1>10
<1>13. ASSUME NEW i \in 1..n
       PROVE  f[i] = E(i, IF i = 1 THEN 0 ELSE f[i - 1] \div BASE)
  <2>1. CASE i = 1
      BY <2>1, <1>11
  <2>2. CASE i # 1
      BY <2>2, <1>9, <1>11, <1>12
  <2> QED
      BY <2>1, <2>2
<1>14. Is(f)
    BY <1>10, <1>13
<1>15. Is(h)
    BY <1>14
<1> HIDE DEF h
<1>16. \A i \in 1..n : h[i] = E(i, IF i = 1 THEN 0 ELSE h[i - 1] \div BASE)
    BY <1>15
<1>17. h[1] = E(1, 0)
  <2>1. 1 \in 1..n
      BY <1>1
  <2> QED
      BY <2>1, <1>16
<1>18. ASSUME NEW i \in 1 + 1..n
       PROVE  i \in 1..n /\ i - 1 \in 1..n /\ h[i] = E(i, h[i - 1] \div BASE)
  <2>1. i \in 1..n /\ i # 1 /\ i - 1 \in 1..n
      BY <1>1
  <2> QED
      BY <2>1, <1>16
<1>19. \A i \in 1..n : h[i] \in Int
  <2>1. h[1] \in Int
      BY <1>7, <1>17
  <2>2. \A i \in 1 + 1..n : h[i - 1] \in Int => h[i] \in Int
      BY <1>6, <1>18
  <2> QED
      BY <2>1, <2>2, <1>1, Stays, Zenon
<1>20. ASSUME NEW i \in 1..n
       PROVE  h[i] = v[at + i - 1] - q * w[i] + (IF i = 1 THEN 0 ELSE h[i - 1] \div BASE)
    BY <1>16 DEF E
<1>21. Borrowing(h)
    BY <1>5, <1>19, <1>20 DEF Borrowing, n
<1> QED
    BY <1>21

\* The same when w is added back
Carrying(z, a) ==
    /\ \A i \in 1..size_w : /\ z[i] \in Int
                            /\ z[i] = a[i] + w[i] + (IF i = 1 THEN 0 ELSE z[i - 1] \div BASE)
    /\ PlusDivisor(a) = [i \in 1..size_w |-> z[i] % BASE]

LEMMA PlusChain ==
    ASSUME NEW a, Shifted, \A i \in 1..size_w : a[i] \in Digit
    PROVE  \E z : Carrying(z, a)
<1> USE DEF Shifted
<1> DEFINE n == size_w
           E(i, y) == a[i] + w[i] + y
           c == E(1, 0)
           G == [i \in 1 + 1..n |-> [y \in Int |-> E(i, y \div BASE)]]
           Is(f) == f = [i \in 1..n |-> E(i, IF i = 1 THEN 0 ELSE f[i - 1] \div BASE)]
           h == CHOOSE f : Is(f)
<1>1. n \in Nat /\ n \in Int /\ 1 \in Int /\ 1 <= n /\ 0 \in Int
    BY DEF size_w
<1>3. ASSUME NEW i \in 1..n, NEW y \in Int
      PROVE  E(i, y) \in Int
  <2>1. a[i] \in Digit /\ w[i] \in Digit
      BY DEF size_w
  <2>2. a[i] \in Nat /\ w[i] \in Nat
      BY <2>1, DigitIs
  <2> QED
      BY <2>2
<1>5. PlusDivisor(a) = [i \in 1..n |-> h[i] % BASE]
    BY DEF PlusDivisor
<1> HIDE DEF E, n
<1>6. \A i \in 1..n : \A y \in Int : E(i, y \div BASE) \in Int
    BY <1>3, Remainder
<1>7. c \in Int
    BY <1>1, <1>3
<1>8. Maps(G, 1, n, Int)
    BY <1>6 DEF Maps
<1>9. \A i \in 1..n : \A y \in Int : i # 1 => G[i][y] = E(i, y \div BASE)
    BY <1>1
<1> HIDE DEF G
<1>10. PICK f : f \in [1..n -> Int] /\ Chained(f, 1, n, c, G)
    BY <1>1, <1>7, <1>8, Iteration, Zenon
<1>11. f = [i \in 1..n |-> IF i = 1 THEN c ELSE G[i][f[i - 1]]]
    BY <1>10 DEF Chained
<1>12. \A i \in 1..n : i # 1 => f[i - 1] \in Int
  <2> TAKE i \in 1..n
  <2>1. i # 1 => i - 1 \in 1..n
      BY <1>1
  <2> QED
      BY <2>1, <1>10
<1>13. ASSUME NEW i \in 1..n
       PROVE  f[i] = E(i, IF i = 1 THEN 0 ELSE f[i - 1] \div BASE)
  <2>1. CASE i = 1
      BY <2>1, <1>11
  <2>2. CASE i # 1
      BY <2>2, <1>9, <1>11, <1>12
  <2> QED
      BY <2>1, <2>2
<1>14. Is(f)
    BY <1>10, <1>13
<1>15. Is(h)
    BY <1>14
<1> HIDE DEF h
<1>16. \A i \in 1..n : h[i] = E(i, IF i = 1 THEN 0 ELSE h[i - 1] \div BASE)
    BY <1>15
<1>19. \A i \in 1..n : h[i] \in Int
  <2>1. h[1] \in Int
    <3>1. 1 \in 1..n
        BY <1>1
    <3> QED
        BY <3>1, <1>7, <1>16
  <2>2. \A i \in 1 + 1..n : h[i - 1] \in Int => h[i] \in Int
    <3> TAKE i \in 1 + 1..n
    <3>1. i \in 1..n /\ i # 1
        BY <1>1
    <3> QED
        BY <3>1, <1>6, <1>16
  <2> QED
      BY <2>1, <2>2, <1>1, Stays, Zenon
<1>20. ASSUME NEW i \in 1..n
       PROVE  h[i] = a[i] + w[i] + (IF i = 1 THEN 0 ELSE h[i - 1] \div BASE)
    BY <1>16 DEF E
<1>21. Carrying(h, a)
    BY <1>5, <1>19, <1>20 DEF Carrying, n
<1> QED
    BY <1>21

\* Digits cut from sums
LEMMA CutDigits ==
    ASSUME NEW n \in Nat, NEW z, \A i \in 1..n : z[i] \in Int
    PROVE  [i \in 1..n |-> z[i] % BASE] \in Seq(Digit) /\ Len([i \in 1..n |-> z[i] % BASE]) = n
<1>1. \A i \in 1..n : z[i] % BASE \in Digit
    BY Remainder DEF Digit
<1> QED
    BY <1>1

\* What the subtraction leaves in the digits of v, and what it borrows from the next
LEMMA DifferenceValue ==
    ASSUME Shifted, at > 0, q \in Nat
    PROVE  /\ Difference.v \in Seq(Digit) /\ Len(Difference.v) = size_w /\ Difference.borrow \in Int
           /\ ValueOf(Difference.v) + (v[at + size_w] + Difference.borrow) * Place(size_w)
                = Extended - q * ValueOf(w)
<1> DEFINE n == size_w
           a == SubSeq(v, at, at + n)
<1>1. PICK z : Borrowing(z)
    BY DifferenceChain
<1>2. /\ at \in Int /\ n \in Nat /\ n = Len(w) /\ n >= 2 /\ at + n \in 1..Len(v) /\ w \in Seq(Digit) /\ v \in Seq(Digit)
    BY PlacesShifted
<1>3. /\ a \in Seq(Digit) /\ Len(a) = n + 1 /\ \A k \in 1..n + 1 : a[k] = v[at + k - 1]
      /\ Extended = ValueOf(a)
    BY PartsOfV DEF Extended
<1> HIDE DEF a
<1> DEFINE s == [i \in 1..n |-> z[i] % BASE]
           c == z[n] \div BASE
<1>4. Difference.v = s /\ Difference.borrow = c /\ \A i \in 1..n : z[i] \in Int
    BY <1>1 DEF Borrowing
<1>5. s \in Seq(Digit) /\ Len(s) = n
    BY <1>2, <1>4, CutDigits
<1> DEFINE t == [i \in 1..n |-> a[i] - q * w[i]]
<1>6. \A i \in 1..n : a[i] \in Int /\ w[i] \in Int
  <2> TAKE i \in 1..n
  <2>1. i \in 1..Len(a) /\ i \in 1..Len(w)
      BY <1>2, <1>3
  <2>2. a[i] \in Digit /\ w[i] \in Digit
      BY <2>1, <1>2, <1>3
  <2> QED
      BY <2>2, DigitIs
<1>7. \A i \in 1..n : t[i] \in Int /\ z[i] \in Int /\ z[i] = t[i] + (IF i = 1 THEN 0 ELSE z[i - 1] \div BASE)
  <2> TAKE i \in 1..n
  <2>1. a[i] = v[at + i - 1]
    <3>1. i \in 1..n + 1
        BY <1>2
    <3> QED
        BY <3>1, <1>3
  <2>2. t[i] = v[at + i - 1] - q * w[i]
      BY <2>1
  <2>3. t[i] \in Int
    <3>1. a[i] \in Int /\ q * w[i] \in Int
        BY <1>6
    <3> HIDE DEF a
    <3> QED
        BY <3>1
  <2>4. z[i] \in Int /\ z[i] = v[at + i - 1] - q * w[i] + (IF i = 1 THEN 0 ELSE z[i - 1] \div BASE)
      BY <1>1 DEF Borrowing
  <2> HIDE DEF t
  <2> QED
      BY <2>2, <2>3, <2>4
<1>8. PICK f : Sums(f, a, n + 1) /\ f[n + 1] = Extended
    BY <1>3, ValueIs
<1>9. PICK g : Sums(g, w, n) /\ g[n] = ValueOf(w)
    BY <1>2, ValueIs
<1>10. PICK h : Sums(h, s, n) /\ h[n] = ValueOf(s)
    BY <1>5, ValueIs
<1> DEFINE T == [k \in 0..n |-> f[k] - q * g[k]]
<1> HIDE DEF n
<1>11. Sums(T, t, n)
  <2>1. \A k \in 0..n : f[k] \in Int /\ g[k] \in Int
      BY <1>2, <1>8, <1>9 DEF Sums
  <2>2. \A k \in 0..n : T[k] \in Int
    <3> TAKE k \in 0..n
    <3>1. f[k] \in Int /\ q * g[k] \in Int
        BY <2>1
    <3> QED
        BY <3>1
  <2>3. T[0] = 0
    <3>1. f[0] = 0 /\ g[0] = 0 /\ 0 \in 0..n
        BY <1>2, <1>8, <1>9 DEF Sums
    <3> QED
        BY <3>1
  <2>4. ASSUME NEW k \in 1..n
        PROVE  T[k] = T[k - 1] + t[k] * Place(k - 1)
    <3>1. k \in 1..n + 1 /\ k - 1 \in 0..n /\ k \in 0..n /\ k - 1 \in Nat
        BY <1>2
    <3>2. f[k] = f[k - 1] + a[k] * Place(k - 1) /\ g[k] = g[k - 1] + w[k] * Place(k - 1)
        BY <3>1, <1>8, <1>9 DEF Sums
    <3>3. T[k] = f[k] - q * g[k] /\ T[k - 1] = f[k - 1] - q * g[k - 1] /\ t[k] = a[k] - q * w[k]
        BY <3>1
    <3> DEFINE x == a[k]
               y == w[k]
               p == Place(k - 1)
               i == f[k - 1]
               j == g[k - 1]
    <3>4. x \in Int /\ y \in Int /\ p \in Int /\ i \in Int /\ j \in Int
        BY <3>1, <2>1, <1>6, Places
    <3>5. f[k] = i + x * p /\ g[k] = j + y * p
        BY <3>2
    <3> HIDE DEF T, t
    <3>8. T[k] = f[k] - q * g[k] /\ T[k - 1] = i - q * j /\ t[k] = x - q * y
        BY <3>3
    <3> HIDE DEF x, y, p, i, j
    <3>6. q * (j + y * p) = q * j + q * (y * p) /\ (x - q * y) * p = x * p - q * (y * p)
          /\ q * j \in Int /\ q * (y * p) \in Int /\ x * p \in Int
        BY <3>4
    <3>7. T[k] = T[k - 1] + t[k] * p
        BY <3>4, <3>5, <3>6, <3>8
    <3> QED
        BY <3>7 DEF p
  <2> HIDE DEF T, t
  <2> QED
      BY <2>2, <2>3, <2>4 DEF Sums
<1>12. CutTo(s, z, n) /\ HandedOn(z, t, n) /\ n \in Nat \ {0}
    BY <1>2, <1>7 DEF CutTo, HandedOn
<1> HIDE DEF t, s, T
<1>13. h[n] + (z[n] \div BASE) * Place(n) = T[n]
    BY <1>10, <1>11, <1>12, CarriesKept
<1>14. h[n] + c * Place(n) = f[n] - q * g[n]
  <2>1. n \in 0..n
      BY <1>2
  <2> QED
      BY <2>1, <1>13 DEF T
<1>15. Extended = f[n] + v[at + n] * Place(n) /\ f[n] \in Int
  <2>1. n + 1 \in 1..n + 1 /\ n + 1 - 1 = n /\ n \in 0..n + 1 /\ at + (n + 1) - 1 = at + n
      BY <1>2
  <2>2. f[n + 1] = f[n] + a[n + 1] * Place(n) /\ f[n] \in Int
      BY <2>1, <1>8 DEF Sums
  <2>3. a[n + 1] = v[at + n]
      BY <2>1, <1>3
  <2> QED
      BY <2>2, <2>3, <1>8
<1>16. c \in Int /\ v[at + n] \in Int /\ Place(n) \in Int /\ h[n] \in Int /\ g[n] \in Int
  <2>1. v[at + n] \in Digit
      BY <1>2
  <2>2. n \in 1..n /\ n \in 0..n
      BY <1>2
  <2>3. z[n] \in Int
      BY <2>2, <1>4 DEF n
  <2>4. c \in Int
      BY <2>3, Remainder
  <2>5. v[at + n] \in Int
      BY <2>1, DigitIs
  <2>6. Place(n) \in Int
      BY <1>2, Places
  <2>7. h[n] \in Int /\ g[n] \in Int
      BY <2>2, <1>9, <1>10 DEF Sums
  <2> QED
      BY <2>4, <2>5, <2>6, <2>7
<1> DEFINE x == v[at + n]
           p == Place(n)
           i == f[n]
           j == h[n]
           m == q * g[n]
<1>17. j + (x + c) * p = Extended - m
  <2>1. /\ j + c * p = i - m /\ Extended = i + x * p /\ i \in Int /\ c \in Int /\ x \in Int /\ p \in Int /\ j \in Int
        /\ m \in Int
      BY <1>14, <1>15, <1>16
  <2> HIDE DEF x, p, i, j, m, c
  <2>2. (x + c) * p = x * p + c * p /\ x * p \in Int /\ c * p \in Int
      BY <2>1
  <2> QED
      BY <2>1, <2>2
<1> QED
    BY <1>4, <1>5, <1>9, <1>10, <1>16, <1>17 DEF n, s

LEMMA PlusValue ==
    ASSUME NEW a \in Seq(Digit), Len(a) = size_w, Shifted
    PROVE  /\ PlusDivisor(a) \in Seq(Digit) /\ Len(PlusDivisor(a)) = size_w
           /\ \E c \in Int : ValueOf(PlusDivisor(a)) + c * Place(size_w) = ValueOf(a) + ValueOf(w)
<1> DEFINE n == size_w
<1>1. n \in Nat \ {0} /\ n = Len(w) /\ n = Len(a) /\ w \in Seq(Digit)
    BY DEF Shifted, size_w
<1>2. \A i \in 1..n : a[i] \in Digit /\ w[i] \in Digit
  <2> HIDE DEF n
  <2> TAKE i \in 1..n
  <2>1. a \in Seq(Digit) /\ w \in Seq(Digit) /\ i \in 1..Len(a) /\ i \in 1..Len(w)
      BY <1>1
  <2> QED
      BY <2>1
<1>3. PICK z : Carrying(z, a)
    BY <1>2, PlusChain
<1> DEFINE s == [i \in 1..n |-> z[i] % BASE]
           c == z[n] \div BASE
           t == [i \in 1..n |-> a[i] + w[i]]
<1>4. PlusDivisor(a) = s /\ \A i \in 1..n : z[i] \in Int
    BY <1>3 DEF Carrying
<1>5. s \in Seq(Digit) /\ Len(s) = n
    BY <1>1, <1>4, CutDigits
<1>6. \A i \in 1..n : a[i] \in Int /\ w[i] \in Int
    BY <1>2, DigitIs
<1>7. HandedOn(z, t, n)
  <2>1. \A i \in 1..n : z[i] \in Int /\ z[i] = a[i] + w[i] + (IF i = 1 THEN 0 ELSE z[i - 1] \div BASE)
      BY <1>3 DEF Carrying
  <2>2. \A i \in 1..n : t[i] = a[i] + w[i] /\ t[i] \in Int
      BY <1>6
  <2> HIDE DEF t, n
  <2> QED
      BY <2>1, <2>2 DEF HandedOn
<1>8. CutTo(s, z, n)
    BY DEF CutTo
<1>9. PICK f : Sums(f, a, n) /\ f[n] = ValueOf(a)
    BY <1>1, ValueIs
<1>10. PICK g : Sums(g, w, n) /\ g[n] = ValueOf(w)
    BY <1>1, ValueIs
<1>11. PICK h : Sums(h, s, n) /\ h[n] = ValueOf(s)
    BY <1>5, ValueIs
<1> DEFINE T == [k \in 0..n |-> f[k] + g[k]]
<1> HIDE DEF n
<1>12. Sums(T, t, n)
  <2>1. \A k \in 0..n : f[k] \in Int /\ g[k] \in Int
      BY <1>9, <1>10 DEF Sums
  <2>2. \A k \in 0..n : T[k] \in Int
      BY <2>1
  <2>3. T[0] = 0
    <3>1. f[0] = 0 /\ g[0] = 0 /\ 0 \in 0..n
        BY <1>1, <1>9, <1>10 DEF Sums
    <3> QED
        BY <3>1
  <2>4. ASSUME NEW k \in 1..n
        PROVE  T[k] = T[k - 1] + t[k] * Place(k - 1)
    <3>1. k - 1 \in 0..n /\ k \in 0..n /\ k - 1 \in Nat
        BY <1>1
    <3> DEFINE x == a[k]
               y == w[k]
               p == Place(k - 1)
               i == f[k - 1]
               j == g[k - 1]
    <3>2. f[k] = i + x * p /\ g[k] = j + y * p
        BY <1>9, <1>10 DEF Sums
    <3>3. x \in Int /\ y \in Int /\ p \in Int /\ i \in Int /\ j \in Int
        BY <3>1, <2>1, <1>6, Places
    <3>4. T[k] = f[k] + g[k] /\ T[k - 1] = i + j /\ t[k] = x + y
        BY <3>1
    <3> HIDE DEF T, t, x, y, p, i, j
    <3>5. (x + y) * p = x * p + y * p /\ x * p \in Int /\ y * p \in Int
        BY <3>3
    <3>6. T[k] = T[k - 1] + t[k] * p
        BY <3>2, <3>3, <3>4, <3>5
    <3> QED
        BY <3>6 DEF p
  <2> HIDE DEF T, t
  <2> QED
      BY <2>2, <2>3, <2>4 DEF Sums
<1> HIDE DEF t, s, T
<1>13. h[n] + c * Place(n) = T[n]
    BY <1>1, <1>7, <1>8, <1>11, <1>12, CarriesKept
<1>14. T[n] = f[n] + g[n]
  <2>1. n \in 0..n
      BY <1>1
  <2> QED
      BY <2>1 DEF T
<1>15. c \in Int
  <2>1. n \in 1..n
      BY <1>1
  <2>2. z[n] \in Int
      BY <2>1, <1>4 DEF n
  <2> QED
      BY <2>2, Remainder
<1>16. ValueOf(s) + c * Place(n) = ValueOf(a) + ValueOf(w)
    BY <1>9, <1>10, <1>11, <1>13, <1>14
<1> QED
    BY <1>4, <1>5, <1>15, <1>16 DEF n, s

\* A number between 0 and p that differs from one between -p and p by a multiple of p
LEMMA Multiples ==
    ASSUME NEW p \in Nat, NEW x \in Nat, x < p, NEW y \in Int, NEW c \in Int, x + c * p = y
    PROVE  /\ 0 <= y /\ y < p => c = 0 /\ x = y
           /\ -p <= y /\ y < 0 => c = -1 /\ x = y + p
<1>1. p \in Nat \ {0}
    OBVIOUS
<1>2. ASSUME 0 <= y, y < p
      PROVE  c = 0 /\ x = y
  <2>1. c < 1
    <3> SUFFICES ASSUME c >= 1 PROVE FALSE
        OBVIOUS
    <3>1. p * 1 <= p * c
        BY Monotone
    <3>2. p * 1 = p /\ p * c = c * p /\ c * p \in Int
        OBVIOUS
    <3> QED
        BY <3>1, <3>2, <1>2
  <2>2. c > -1
    <3> SUFFICES ASSUME c <= -1 PROVE FALSE
        OBVIOUS
    <3>1. p * c <= p * (-1)
        BY Monotone
    <3>2. p * (-1) = -p /\ p * c = c * p /\ c * p \in Int
        OBVIOUS
    <3> QED
        BY <3>1, <3>2, <1>2
  <2>3. c = 0
      BY <2>1, <2>2
  <2>4. 0 * p = 0
      OBVIOUS
  <2> QED
      BY <2>3, <2>4
<1>3. ASSUME -p <= y, y < 0
      PROVE  c = -1 /\ x = y + p
  <2>1. c < 0
    <3> SUFFICES ASSUME c >= 0 PROVE FALSE
        OBVIOUS
    <3>1. p * 0 <= p * c
        BY Monotone
    <3>2. p * 0 = 0 /\ p * c = c * p /\ c * p \in Int
        OBVIOUS
    <3> QED
        BY <3>1, <3>2, <1>3
  <2>2. c > -2
    <3> SUFFICES ASSUME c <= -2 PROVE FALSE
        OBVIOUS
    <3>1. p * c <= p * (-2)
        BY Monotone
    <3>2. p * (-2) = -2 * p /\ p * c = c * p /\ c * p \in Int
        OBVIOUS
    <3> QED
        BY <3>1, <3>2, <1>3
  <2>3. c = -1
      BY <2>1, <2>2
  <2>4. (-1) * p = -p
      OBVIOUS
  <2> QED
      BY <2>3, <2>4
<1> QED
    BY <1>2, <1>3

\* The digit that is found is the right one, and what is left is below the divisor.
LEMMA SubtractIs ==
    ASSUME Shifted, at > 0, Remaining < ValueOf(w), q \in DigitDue..DigitDue + 1,
           NEW rest, rest = v[at + size_w] + Difference.borrow,
           NEW a, a = IF rest < 0 THEN PlusDivisor(Difference.v) ELSE Difference.v
    PROVE  /\ rest \in {-1, 0} /\ (IF rest < 0 THEN q - 1 ELSE q) = DigitDue
           /\ a \in Seq(Digit) /\ Len(a) = size_w
           /\ ValueOf(a) = Extended - DigitDue * ValueOf(w) /\ ValueOf(a) < ValueOf(w)
<1> DEFINE n == size_w
           D == DigitDue
           y == ValueOf(w)
           U == Extended
           p == Place(n)
           s == Difference.v
           x == ValueOf(s)
<1>1. D \in Nat /\ D * y <= U /\ U < (D + 1) * y
    BY DigitDueIs
<1>2. U \in Nat /\ y \in Nat \ {0}
    BY NextDigit
<1>3. n \in Nat /\ n = Len(w) /\ w \in Seq(Digit) /\ at + n \in 1..Len(v) /\ v \in Seq(Digit)
    BY PlacesShifted
<1>4. y < p /\ p \in Nat
    BY <1>3, ValueBelow, Places
<1>5. q \in Nat
    BY <1>1
<1>6. /\ s \in Seq(Digit) /\ Len(s) = n /\ Difference.borrow \in Int
      /\ x + rest * p = U - q * y
    BY <1>5, DifferenceValue
<1>7. x \in Nat /\ x < p
    BY <1>6, ValueBelow
<1>8. rest \in Int
  <2>1. v[at + n] \in Digit
      BY <1>3
  <2> QED
      BY <2>1, <1>6, DigitIs
<1>9. /\ PlusDivisor(s) \in Seq(Digit) /\ Len(PlusDivisor(s)) = n
      /\ \E c \in Int : ValueOf(PlusDivisor(s)) + c * p = x + y
    BY <1>6, PlusValue
<1>10. ValueOf(PlusDivisor(s)) \in Nat /\ ValueOf(PlusDivisor(s)) < p
    BY <1>9, ValueBelow
<1> DEFINE R == U - D * y
           e == ValueOf(PlusDivisor(s))
<1>11. R \in Nat /\ R < y
  <2>1. D * y \in Int /\ (D + 1) * y = D * y + y
      BY <1>1, <1>2
  <2> HIDE DEF U, y
  <2> QED
      BY <2>1, <1>1, <1>2
<1>12. q = D \/ q = D + 1
    BY <1>1
<1>13. CASE q = D
  <2>1. x + rest * p = R
      BY <1>6, <1>13
  <2> HIDE DEF R, x, p, y
  <2>2. rest = 0 /\ x = R
    <3>1. 0 <= R /\ R < p /\ R \in Int
        BY <1>2, <1>4, <1>11
    <3> QED
        BY <3>1, <2>1, <1>4, <1>7, <1>8, Multiples
  <2>3. a = s
      BY <2>2
  <2> QED
      BY <2>2, <2>3, <1>6, <1>11, <1>13 DEF x, R, y
<1>14. CASE q = D + 1
  <2>1. x + rest * p = R - y
    <3>1. (D + 1) * y = D * y + y /\ D * y \in Int
        BY <1>1, <1>2
    <3> HIDE DEF U, y, D, x, p
    <3> QED
        BY <3>1, <1>2, <1>6, <1>14
  <2> HIDE DEF R, p, y, x
  <2>2. rest = -1 /\ x = R - y + p
    <3> DEFINE m == R - y
    <3>1. -p <= m /\ m < 0 /\ m \in Int /\ x + rest * p = m
        BY <2>1, <1>2, <1>4, <1>11
    <3> HIDE DEF m
    <3>2. rest = -1 /\ x = m + p
        BY <3>1, <1>4, <1>7, <1>8, Multiples
    <3> QED
        BY <3>2 DEF m
  <2>3. PICK c \in Int : e + c * p = x + y
      BY <1>9 DEF x, y, p
  <2>4. e \in Nat /\ e < p
      BY <1>10 DEF p
  <2> HIDE DEF e
  <2>5. e = R
    <3>1. e + (c - 1) * p = R
      <4>1. (c - 1) * p = c * p - p /\ c * p \in Int
          BY <1>4
      <4> QED
          BY <4>1, <2>2, <2>3, <2>4, <1>2, <1>4, <1>11
    <3>2. 0 <= R /\ R < p /\ R \in Int /\ c - 1 \in Int
        BY <1>2, <1>4, <1>11
    <3> DEFINE k == c - 1
    <3>3. e + k * p = R /\ k \in Int
        BY <3>1, <3>2
    <3> HIDE DEF k
    <3> QED
        BY <3>2, <3>3, <2>4, <1>4, Multiples
  <2>6. a = PlusDivisor(s)
      BY <2>2
  <2>7. rest \in {-1, 0} /\ (IF rest < 0 THEN q - 1 ELSE q) = D
      BY <2>2, <1>1, <1>14
  <2> QED
      BY <2>5, <2>6, <2>7, <1>9, <1>11 DEF e, R, y
<1> QED
    BY <1>12, <1>13, <1>14

-----------------------------------------------------------------------------
(* Numbers made of digits, with any weights *)

\* The lowest n digits a make the number x, in places of weights p.
Makes(a, n, x, p) == \E f : Totals(f, a, n, p) /\ f[n] = x

\* There are such sums whatever the digits, negative ones included.
LEMMA TotalsWhole ==
    ASSUME NEW n \in Nat, NEW a, \A k \in 1..n : a[k] \in Int, NEW b, NEW p, Weights(p, b)
    PROVE  \E f : Totals(f, a, n, p)
<1> DEFINE E(i, y) == y + a[i] * p[i - 1]
           G == [i \in 0 + 1..n |-> [y \in Int |-> E(i, y)]]
<1>1. n \in Nat /\ n \in Int /\ 0 \in Int /\ 0 <= n
    OBVIOUS
<1>2. \A i : \A y : E(i, y) = y + a[i] * p[i - 1]
    OBVIOUS
<1>3. \A i \in 1..n : \A y \in Int : E(i, y) \in Int
  <2> TAKE i \in 1..n
  <2>1. i - 1 \in Nat /\ a[i] \in Int
      OBVIOUS
  <2>2. p[i - 1] \in Nat
      BY <2>1 DEF Weights
  <2> DEFINE x == a[i] * p[i - 1]
  <2>3. x \in Int
      BY <2>1, <2>2
  <2> HIDE DEF x
  <2>4. \A y \in Int : y + x \in Int
      BY <2>3
  <2> QED
      BY <2>4 DEF x
<1> HIDE DEF E
<1>5. Maps(G, 0, n, Int)
    BY <1>1, <1>3 DEF Maps
<1>6. \A i \in 0..n : \A y \in Int : i # 0 => G[i][y] = E(i, y)
    BY <1>1
<1> HIDE DEF G
<1>7. PICK f : f \in [0..n -> Int] /\ Chained(f, 0, n, 0, G)
    BY <1>1, <1>5, Iteration, Zenon
<1>8. f = [i \in 0..n |-> IF i = 0 THEN 0 ELSE G[i][f[i - 1]]]
    BY <1>7 DEF Chained
<1>9. \A k \in 0..n : f[k] \in Int
    BY <1>7
<1>10. f[0] = 0
    BY <1>1, <1>8
<1>11. ASSUME NEW k \in 1..n
       PROVE  f[k] = f[k - 1] + a[k] * p[k - 1]
  <2>1. k \in 0..n /\ k # 0 /\ k - 1 \in 0..n
      BY <1>1
  <2>2. f[k - 1] \in Int
      BY <2>1, <1>9
  <2>3. f[k] = G[k][f[k - 1]]
      BY <2>1, <1>8
  <2>4. f[k] = E(k, f[k - 1])
      BY <2>1, <2>2, <2>3, <1>6
  <2> QED
      BY <2>4, <1>2
<1> QED
    BY <1>9, <1>10, <1>11 DEF Totals

LEMMA MakesExists ==
    ASSUME NEW n \in Nat, NEW a, \A k \in 1..n : a[k] \in Int, NEW b, NEW p, Weights(p, b)
    PROVE  \E x \in Int : Makes(a, n, x, p)
<1>1. PICK f : Totals(f, a, n, p)
    BY TotalsWhole
<1>2. f[n] \in Int
  <2>1. n \in 0..n
      OBVIOUS
  <2> QED
      BY <2>1, <1>1 DEF Totals
<1> QED
    BY <1>1, <1>2 DEF Makes

\* Digit by digit, e is s times a and t times c.
Combined(e, s, a, t, c, n) == \A k \in 1..n : a[k] \in Int /\ c[k] \in Int /\ e[k] = s * a[k] + t * c[k]

\* The sums of a combination.
Mixed(h, s, f, t, g, n) == \A k \in 0..n : h[k] = s * f[k] + t * g[k]

\* The totals of a sum are sums of totals.
LEMMA TotalsAdd ==
    ASSUME NEW b, NEW p, Weights(p, b), NEW n \in Nat, NEW s \in Int, NEW t \in Int,
           NEW a, NEW c, NEW e, Combined(e, s, a, t, c, n),
           NEW f, Totals(f, a, n, p), NEW g, Totals(g, c, n, p),
           NEW h, Mixed(h, s, f, t, g, n)
    PROVE  Totals(h, e, n, p)
<1> USE DEF Combined, Mixed
<1>1. \A k \in 0..n : f[k] \in Int /\ g[k] \in Int
    BY DEF Totals
<1>2. \A k \in 0..n : h[k] \in Int
  <2> TAKE k \in 0..n
  <2>1. s * f[k] \in Int /\ t * g[k] \in Int
      BY <1>1
  <2> QED
      BY <2>1
<1>3. h[0] = 0
  <2>1. f[0] = 0 /\ g[0] = 0 /\ 0 \in 0..n
      BY DEF Totals
  <2> QED
      BY <2>1
<1>4. ASSUME NEW k \in 1..n
      PROVE  h[k] = h[k - 1] + e[k] * p[k - 1]
  <2>1. k \in 0..n /\ k - 1 \in 0..n /\ k - 1 \in Nat
      OBVIOUS
  <2>2. f[k] = f[k - 1] + a[k] * p[k - 1] /\ g[k] = g[k - 1] + c[k] * p[k - 1]
      BY DEF Totals
  <2>3. h[k] = s * f[k] + t * g[k] /\ h[k - 1] = s * f[k - 1] + t * g[k - 1] /\ e[k] = s * a[k] + t * c[k]
      BY <2>1
  <2> DEFINE x == a[k]
             y == c[k]
             u == p[k - 1]
             i == f[k - 1]
             j == g[k - 1]
  <2>4. x \in Int /\ y \in Int /\ u \in Int /\ i \in Int /\ j \in Int
      BY <2>1, <1>1 DEF Weights
  <2>5. h[k] = s * (i + x * u) + t * (j + y * u) /\ h[k - 1] = s * i + t * j /\ e[k] = s * x + t * y
      BY <2>2, <2>3
  <2> HIDE DEF x, y, u, i, j
  <2>6. /\ s * (i + x * u) = s * i + s * (x * u) /\ t * (j + y * u) = t * j + t * (y * u)
        /\ (s * x + t * y) * u = s * (x * u) + t * (y * u)
        /\ s * i \in Int /\ t * j \in Int /\ s * (x * u) \in Int /\ t * (y * u) \in Int
      BY <2>4
  <2>7. h[k] = h[k - 1] + e[k] * u
      BY <2>5, <2>6
  <2> QED
      BY <2>7 DEF u
<1> QED
    BY <1>2, <1>3, <1>4 DEF Totals

\* A combination of digits makes the combination of the numbers.
LEMMA MakesAdd ==
    ASSUME NEW b, NEW p, Weights(p, b), NEW n \in Nat, NEW s \in Int, NEW t \in Int,
           NEW a, NEW c, NEW e, Combined(e, s, a, t, c, n),
           NEW x, Makes(a, n, x, p), NEW y, Makes(c, n, y, p)
    PROVE  Makes(e, n, s * x + t * y, p)
<1>1. PICK f : Totals(f, a, n, p) /\ f[n] = x
    BY DEF Makes
<1>2. PICK g : Totals(g, c, n, p) /\ g[n] = y
    BY DEF Makes
<1>3. PICK h : h = [k \in 0..n |-> s * f[k] + t * g[k]]
    OBVIOUS
<1>4. Totals(h, e, n, p)
  <2>1. Mixed(h, s, f, t, g, n)
      BY <1>3 DEF Mixed
  <2> QED
      BY <2>1, <1>1, <1>2, TotalsAdd
<1>5. h[n] = s * x + t * y
  <2>1. n \in 0..n
      OBVIOUS
  <2> QED
      BY <2>1, <1>1, <1>2, <1>3
<1> QED
    BY <1>4, <1>5 DEF Makes

\* Digits make one number.
LEMMA TotalsSame ==
    ASSUME NEW n \in Nat, NEW p, NEW a, NEW c, \A k \in 1..n : a[k] = c[k],
           NEW f, Totals(f, a, n, p), NEW g, Totals(g, c, n, p)
    PROVE  \A k \in 0..n : f[k] = g[k]
<1> DEFINE S == {k \in 0..n : f[k] = g[k]}
<1>1. 0 \in S
    BY DEF Totals
<1>2. ASSUME NEW k \in 0..n - 1, k \in S
      PROVE  k + 1 \in S
  <2>1. k + 1 \in 1..n /\ k + 1 - 1 = k /\ k + 1 \in 0..n
      OBVIOUS
  <2>2. f[k + 1] = f[k] + a[k + 1] * p[k] /\ g[k + 1] = g[k] + c[k + 1] * p[k]
      BY <2>1 DEF Totals
  <2>3. a[k + 1] = c[k + 1]
      BY <2>1
  <2> QED
      BY <2>1, <2>2, <2>3, <1>2
<1> HIDE DEF S
<1>3. \A k \in 0..n : k \in S
    BY <1>1, <1>2, Up
<1> QED
    BY <1>3 DEF S

\* The same digits make one number.
LEMMA MakesSame ==
    ASSUME NEW n \in Nat, NEW p, NEW a, NEW c, \A k \in 1..n : a[k] = c[k],
           NEW x, Makes(a, n, x, p), NEW y, Makes(c, n, y, p)
    PROVE  x = y
<1>1. PICK f : Totals(f, a, n, p) /\ f[n] = x
    BY DEF Makes
<1>2. PICK g : Totals(g, c, n, p) /\ g[n] = y
    BY DEF Makes
<1>3. \A k \in 0..n : f[k] = g[k]
    BY <1>1, <1>2, TotalsSame
<1>4. n \in 0..n
    OBVIOUS
<1> QED
    BY <1>1, <1>2, <1>3, <1>4

LEMMA MakesOther ==
    ASSUME NEW n \in Nat, NEW p, NEW a, NEW c, \A k \in 1..n : a[k] = c[k], NEW x, Makes(a, n, x, p)
    PROVE  Makes(c, n, x, p)
<1>1. PICK f : Totals(f, a, n, p) /\ f[n] = x
    BY DEF Makes
<1>2. Totals(f, c, n, p)
    BY <1>1 DEF Totals
<1> QED
    BY <1>1, <1>2 DEF Makes

LEMMA MakesWhole ==
    ASSUME NEW n \in Nat, NEW p, NEW a, NEW x, Makes(a, n, x, p)
    PROVE  x \in Int
<1>1. PICK f : Totals(f, a, n, p) /\ f[n] = x
    BY DEF Makes
<1>2. n \in 0..n
    OBVIOUS
<1> QED
    BY <1>1, <1>2 DEF Totals

LEMMA MakesNothing == ASSUME NEW p, NEW a PROVE Makes(a, 0, 0, p)
<1>1. Totals([k \in 0..0 |-> 0], a, 0, p)
    BY DEF Totals
<1>2. [k \in 0..0 |-> 0][0] = 0
    OBVIOUS
<1> QED
    BY <1>1, <1>2 DEF Makes

\* The highest place on its own
LEMMA MakesNext ==
    ASSUME NEW n \in Nat, NEW b, NEW p, Weights(p, b), NEW a, a[n + 1] \in Int, NEW x, Makes(a, n, x, p)
    PROVE  Makes(a, n + 1, x + a[n + 1] * p[n], p)
<1>1. PICK f : Totals(f, a, n, p) /\ f[n] = x
    BY DEF Makes
<1>2. x \in Int /\ p[n] \in Int
    BY MakesWhole DEF Weights
<1> DEFINE y == x + a[n + 1] * p[n]
<1>3. y \in Int
  <2>1. a[n + 1] * p[n] \in Int
      BY <1>2
  <2> QED
      BY <2>1, <1>2
<1>4. PICK z : z = y
    OBVIOUS
<1> HIDE DEF y
<1> DEFINE g == [k \in 0..n + 1 |-> IF k = n + 1 THEN z ELSE f[k]]
<1>5. \A k \in 0..n : g[k] = f[k]
    OBVIOUS
<1>6. g[n + 1] = z
    OBVIOUS
<1> HIDE DEF g
<1>7. \A k \in 0..n + 1 : g[k] \in Int
  <2> TAKE k \in 0..n + 1
  <2>1. CASE k = n + 1
      BY <2>1, <1>3, <1>4, <1>6
  <2>2. CASE k # n + 1
    <3>1. k \in 0..n
        BY <2>2
    <3> QED
        BY <3>1, <1>1, <1>5 DEF Totals
  <2> QED
      BY <2>1, <2>2
<1>8. g[0] = 0
  <2>1. 0 \in 0..n
      OBVIOUS
  <2> QED
      BY <2>1, <1>1, <1>5 DEF Totals
<1>9. ASSUME NEW k \in 1..n + 1
      PROVE  g[k] = g[k - 1] + a[k] * p[k - 1]
  <2>1. k - 1 \in 0..n
      OBVIOUS
  <2>2. CASE k = n + 1
    <3>1. n \in 0..n /\ k - 1 = n
        BY <2>2
    <3>2. g[n] = x
        BY <3>1, <1>1, <1>5
    <3> QED
        BY <3>1, <3>2, <2>2, <1>4, <1>6 DEF y
  <2>3. CASE k # n + 1
    <3>1. k \in 0..n /\ k \in 1..n
        BY <2>3
    <3>2. f[k] = f[k - 1] + a[k] * p[k - 1]
        BY <3>1, <1>1 DEF Totals
    <3> QED
        BY <3>1, <3>2, <2>1, <1>5
  <2> QED
      BY <2>2, <2>3
<1>10. Totals(g, a, n + 1, p)
    BY <1>7, <1>8, <1>9 DEF Totals
<1>11. g[n + 1] = y
    BY <1>4, <1>6
<1>12. Makes(a, n + 1, y, p)
    BY <1>10, <1>11 DEF Makes
<1> QED
    BY <1>12 DEF y

\* The number without its highest digit.
LEMMA MakesLast ==
    ASSUME NEW n \in Nat, NEW p, NEW a, NEW x, Makes(a, n + 1, x, p)
    PROVE  \E y \in Int : Makes(a, n, y, p) /\ x = y + a[n + 1] * p[n]
<1>1. PICK f : Totals(f, a, n + 1, p) /\ f[n + 1] = x
    BY DEF Makes
<1>2. n + 1 \in 1..n + 1 /\ n + 1 - 1 = n /\ n \in 0..n + 1 /\ 0..n \subseteq 0..n + 1 /\ 1..n \subseteq 1..n + 1
    OBVIOUS
<1>3. f[n + 1] = f[n] + a[n + 1] * p[n] /\ f[n] \in Int
    BY <1>1, <1>2 DEF Totals
<1>4. Totals(f, a, n, p)
    BY <1>1, <1>2 DEF Totals
<1> QED
    BY <1>1, <1>3, <1>4 DEF Makes

\* Weights of places add up.
LEMMA WeightsSum ==
    ASSUME NEW b \in Nat, NEW p, Weights(p, b), NEW m \in Nat
    PROVE  \A n \in Nat : p[m + n] = p[m] * p[n]
<1> DEFINE S == {n \in Nat : p[m + n] = p[m] * p[n]}
<1>1. 0 \in S
  <2>1. p[0] = 1 /\ p[m] \in Nat /\ m + 0 = m
      BY DEF Weights
  <2>2. p[m] * 1 = p[m]
      BY <2>1
  <2> QED
      BY <2>1, <2>2
<1>2. ASSUME NEW n \in Nat, n \in S
      PROVE  n + 1 \in S
  <2>1. p[m + n] = p[m] * p[n] /\ m + n \in Nat /\ m + (n + 1) = (m + n) + 1 /\ n + 1 \in Nat
      BY <1>2
  <2>2. p[(m + n) + 1] = b * p[m + n] /\ p[n + 1] = b * p[n] /\ p[m] \in Nat /\ p[n] \in Nat
      BY <2>1 DEF Weights
  <2> DEFINE x == p[m]
             y == p[n]
  <2>3. x \in Nat /\ y \in Nat
      BY <2>2
  <2> HIDE DEF x, y, S
  <2>4. b * (x * y) = x * (b * y)
      BY <2>3
  <2>5. p[m + (n + 1)] = p[m] * p[n + 1]
      BY <2>1, <2>2, <2>4 DEF x, y
  <2> QED
      BY <2>1, <2>5 DEF S
<1> HIDE DEF S
<1>3. \A n \in Nat : n \in S
    BY <1>1, <1>2, Induction
<1> QED
    BY <1>3 DEF S

\* a goes on with c from place m + 1 on.
Continued(a, c, m, n) == \A k \in 1..n : c[k] \in Int /\ a[m + k] = c[k]

\* Digits c above the m digits of a.
LEMMA MakesJoined ==
    ASSUME NEW b \in Nat, NEW p, Weights(p, b), NEW m \in Nat, NEW n \in Nat, NEW a, NEW c, Continued(a, c, m, n),
           NEW x, Makes(a, m, x, p), NEW y, Makes(c, n, y, p)
    PROVE  Makes(a, m + n, x + p[m] * y, p)
<1>1. PICK f : Totals(f, c, n, p) /\ f[n] = y
    BY DEF Makes
<1>0. x \in Int /\ p[m] \in Int
    BY MakesWhole DEF Weights
<1> DEFINE S == {k \in 0..n : Makes(a, m + k, x + p[m] * f[k], p)}
<1>2. 0 \in S
  <2>1. f[0] = 0 /\ m + 0 = m
      BY <1>1 DEF Totals
  <2>2. x + p[m] * 0 = x
      BY <1>0
  <2> QED
      BY <2>1, <2>2
<1>3. ASSUME NEW k \in 0..n - 1, k \in S
      PROVE  k + 1 \in S
  <2>1. k + 1 \in 1..n /\ k + 1 - 1 = k /\ k + 1 \in 0..n /\ k \in Nat /\ k \in 0..n /\ m + k \in Nat /\ m + (k + 1) = (m + k) + 1
      OBVIOUS
  <2>2. f[k + 1] = f[k] + c[k + 1] * p[k] /\ f[k] \in Int
      BY <2>1, <1>1 DEF Totals
  <2>3. c[k + 1] \in Int /\ a[(m + k) + 1] = c[k + 1]
      BY <2>1 DEF Continued
  <2>4. Makes(a, m + k, x + p[m] * f[k], p)
      BY <1>3
  <2>5. PICK j, z : j = m + k /\ z = x + p[m] * f[k]
      OBVIOUS
  <2>6. Makes(a, j + 1, z + a[j + 1] * p[j], p)
    <3>1. j \in Nat /\ a[j + 1] \in Int /\ Makes(a, j, z, p)
        BY <2>1, <2>3, <2>4, <2>5
    <3> QED
        BY <3>1, MakesNext
  <2>7. p[j] = p[m] * p[k] /\ p[k] \in Int
    <3>1. p[m + k] = p[m] * p[k]
        BY <2>1, WeightsSum
    <3> QED
        BY <2>1, <2>5, <3>1 DEF Weights
  <2> DEFINE u == p[m]
             o == p[k]
             e == c[k + 1]
             i == f[k]
  <2>8. u \in Int /\ o \in Int /\ e \in Int /\ i \in Int
      BY <1>0, <2>2, <2>3, <2>7
  <2>9. z + a[j + 1] * p[j] = (x + u * i) + e * (u * o) /\ f[k + 1] = i + e * o
      BY <2>2, <2>3, <2>5, <2>7
  <2> HIDE DEF u, o, e, i, S
  <2>10. u * (i + e * o) = u * i + e * (u * o) /\ u * i \in Int /\ e * (u * o) \in Int
      BY <2>8
  <2>11. z + a[j + 1] * p[j] = x + u * f[k + 1]
      BY <2>8, <2>9, <2>10, <1>0
  <2>12. Makes(a, m + (k + 1), x + p[m] * f[k + 1], p)
      BY <2>1, <2>5, <2>6, <2>11 DEF u
  <2> QED
      BY <2>1, <2>12 DEF S
<1> HIDE DEF S
<1>4. \A k \in 0..n : k \in S
    BY <1>2, <1>3, Up
<1>5. n \in 0..n
    OBVIOUS
<1> QED
    BY <1>1, <1>4, <1>5 DEF S

LEMMA MakesZero ==
    ASSUME NEW b, NEW p, Weights(p, b), NEW n \in Nat, NEW a, \A k \in 1..n : a[k] = 0
    PROVE  Makes(a, n, 0, p)
<1>1. Totals([k \in 0..n |-> 0], a, n, p)
  <2> DEFINE f == [k \in 0..n |-> 0]
  <2>1. \A k \in 0..n : f[k] = 0
      OBVIOUS
  <2>2. 0 \in 0..n
      OBVIOUS
  <2>3. \A k \in 1..n : k - 1 \in 0..n /\ k \in 0..n /\ k - 1 \in Nat
      OBVIOUS
  <2>4. \A k \in 1..n : p[k - 1] \in Int
      BY <2>3 DEF Weights
  <2> HIDE DEF f
  <2>5. \A k \in 1..n : f[k] = f[k - 1] + a[k] * p[k - 1]
    <3> TAKE k \in 1..n
    <3>1. f[k] = 0 /\ f[k - 1] = 0 /\ a[k] = 0 /\ p[k - 1] \in Int
        BY <2>1, <2>3, <2>4
    <3> QED
        BY <3>1
  <2> QED
      BY <2>1, <2>2, <2>5 DEF Totals, f
<1>2. n \in 0..n
    OBVIOUS
<1>3. [k \in 0..n |-> 0][n] = 0
    BY <1>2
<1> QED
    BY <1>1, <1>3 DEF Makes

\* Zeros above change nothing.
LEMMA MakesPadded ==
    ASSUME NEW b \in Nat, NEW p, Weights(p, b), NEW m \in Nat, NEW n \in Nat, m <= n, NEW a, \A k \in m + 1..n : a[k] = 0,
           NEW x
    PROVE  Makes(a, m, x, p) <=> Makes(a, n, x, p)
<1>1. PICK i \in Nat : n = m + i
  <2>1. n - m \in Nat /\ n = m + (n - m)
      OBVIOUS
  <2> QED
      BY <2>1
<1>2. PICK c : c = [k \in 1..i |-> 0]
    OBVIOUS
<1>3. Makes(c, i, 0, p)
    BY <1>1, <1>2, MakesZero
<1>4. Continued(a, c, m, i)
  <2> SUFFICES ASSUME NEW k \in 1..i
               PROVE  c[k] \in Int /\ a[m + k] = c[k]
      BY DEF Continued
  <2>1. m + k \in m + 1..n
      BY <1>1
  <2> QED
      BY <2>1, <1>2
<1>5. ASSUME NEW y, Makes(a, m, y, p)
      PROVE  Makes(a, n, y, p)
  <2>1. Makes(a, m + i, y + p[m] * 0, p)
      BY <1>1, <1>3, <1>4, <1>5, MakesJoined
  <2>2. y \in Int /\ p[m] \in Int
      BY <1>5, MakesWhole DEF Weights
  <2>3. y + p[m] * 0 = y
      BY <2>2
  <2> QED
      BY <2>1, <2>3, <1>1
<1>6. ASSUME Makes(a, n, x, p)
      PROVE  Makes(a, m, x, p)
  <2>1. PICK f : Totals(f, a, n, p) /\ f[n] = x
      BY <1>6 DEF Makes
  <2>2. m \in 0..n /\ 0..m \subseteq 0..n /\ 1..m \subseteq 1..n
      OBVIOUS
  <2>3. Totals(f, a, m, p)
      BY <2>1, <2>2 DEF Totals
  <2>4. Makes(a, m, f[m], p)
      BY <2>3 DEF Makes
  <2>5. Makes(a, n, f[m], p)
      BY <2>4, <1>5
  <2>6. f[m] = x
    <3>1. \A k \in 1..n : a[k] = a[k]
        OBVIOUS
    <3> QED
        BY <3>1, <2>5, <1>6, MakesSame
  <2> QED
      BY <2>4, <2>6
<1> QED
    BY <1>5, <1>6

\* Handing carries on
LEMMA MakesCarried ==
    ASSUME NEW b \in Nat \ {0}, NEW p, Weights(p, b), NEW n \in Nat, NEW t, NEW z, PassedOn(z, t, n, b),
           NEW s, CutIn(s, z, n, b), NEW x, Makes(t, n, x, p),
           NEW c, c = IF n = 0 THEN 0 ELSE z[n] \div b
    PROVE  Makes(s, n, x - c * p[n], p)
<1>0. x \in Int /\ p[n] \in Int
    BY MakesWhole DEF Weights
<1>1. CASE n = 0
  <2>1. x = 0
    <3>1. Makes(t, 0, 0, p)
        BY MakesNothing
    <3>2. \A k \in 1..n : t[k] = t[k]
        OBVIOUS
    <3> QED
        BY <3>1, <3>2, <1>1, MakesSame
  <2>2. c = 0
      BY <1>1
  <2>3. x - c * p[n] = 0
      BY <2>1, <2>2, <1>0
  <2> QED
      BY <2>3, <1>1, MakesNothing
<1>2. CASE n # 0
  <2>1. PICK f : Totals(f, t, n, p) /\ f[n] = x
      BY DEF Makes
  <2>2. \A k \in 1..n : z[k] \in Int
      BY DEF PassedOn
  <2>3. \A k \in 1..n : s[k] \in Int
    <3> TAKE k \in 1..n
    <3>1. z[k] % b \in Int
      <4>1. z[k] \in Int
          BY <2>2
      <4>2. z[k] % b \in 0..b - 1
          BY <4>1, Division
      <4> QED
          BY <4>2
    <3> QED
        BY <3>1 DEF CutIn
  <2>4. PICK g : Totals(g, s, n, p)
      BY <2>3, TotalsWhole
  <2>5. g[n] + (z[n] \div b) * p[n] = f[n]
      BY <1>2, <2>1, <2>4, TotalsKept
  <2>6. c = z[n] \div b
      BY <1>2
  <2>7. n \in 1..n /\ n \in 0..n
      BY <1>2
  <2>8. z[n] \in Int
      BY <2>2, <2>7
  <2>9. c \in Int /\ g[n] \in Int
      BY <2>4, <2>6, <2>7, <2>8, Division DEF Totals
  <2>10. c * p[n] \in Int
      BY <2>9, <1>0
  <2>11. g[n] + c * p[n] = x
      BY <2>1, <2>5, <2>6
  <2>12. g[n] = x - c * p[n]
      BY <2>9, <2>10, <2>11, <1>0
  <2> QED
      BY <2>4, <2>12 DEF Makes
<1> QED
    BY <1>1, <1>2

\* Digits below b make a number below the weight of the next place.
LEMMA MakesBelow ==
    ASSUME NEW b \in Nat \ {0}, NEW p, Weights(p, b), NEW n \in Nat, NEW a, \A k \in 1..n : a[k] \in 0..b - 1,
           NEW x, Makes(a, n, x, p)
    PROVE  x \in Nat /\ x < p[n]
<1>1. PICK f : Totals(f, a, n, p) /\ f[n] = x
    BY DEF Makes
<1> DEFINE S == {k \in 0..n : f[k] \in Nat /\ f[k] < p[k]}
<1>2. 0 \in S
  <2>1. f[0] = 0 /\ p[0] = 1
      BY <1>1 DEF Totals, Weights
  <2> QED
      BY <2>1
<1>3. ASSUME NEW k \in 0..n - 1, k \in S
      PROVE  k + 1 \in S
  <2>1. k + 1 \in 1..n /\ k + 1 - 1 = k /\ k + 1 \in 0..n /\ k \in Nat
      OBVIOUS
  <2>2. f[k + 1] = f[k] + a[k + 1] * p[k]
      BY <2>1, <1>1 DEF Totals
  <2>3. p[k] \in Nat \ {0} /\ p[k + 1] = b * p[k]
      BY <2>1 DEF Weights
  <2> DEFINE y == a[k + 1]
             u == p[k]
  <2>4. y \in Nat /\ y + 1 <= b /\ u \in Nat \ {0}
      BY <2>1, <2>3
  <2>5. f[k] \in Nat /\ f[k] < u
      BY <1>3
  <2>6. f[k + 1] = f[k] + y * u /\ p[k + 1] = b * u
      BY <2>2, <2>3
  <2> HIDE DEF y, u, S
  <2>7. u * (y + 1) <= u * b
      BY <2>4, Monotone
  <2>8. u * (y + 1) = y * u + u /\ u * b = b * u /\ y * u \in Nat /\ b * u \in Nat
      BY <2>4
  <2>9. f[k + 1] \in Nat /\ f[k + 1] < b * u
      BY <2>4, <2>5, <2>6, <2>7, <2>8
  <2> QED
      BY <2>1, <2>6, <2>9 DEF S
<1> HIDE DEF S
<1>4. \A k \in 0..n : k \in S
    BY <1>2, <1>3, Up
<1>5. n \in 0..n
    OBVIOUS
<1> QED
    BY <1>1, <1>4, <1>5 DEF S

\* The places of the integers
Weight == [i \in Nat |-> Place(i)]

\* The weights of the places of a vector.
LEMMA WeightIs ==
    /\ Weights(Weight, BASE) /\ BASE \in Nat \ {0} /\ BASE \in Nat
BY PlaceWeights, DigitSizes DEF Weight

LEMMA WeightAt == ASSUME NEW i \in Nat PROVE Weight[i] = Place(i) /\ Weight[i] \in Nat \ {0} /\ Weight[i] \in Int
<1>1. Weight[i] = Place(i)
    BY DEF Weight
<1>2. Place(i) \in Nat \ {0}
    BY Places
<1> QED
    BY <1>1, <1>2

\* The digits of a vector make its number, and only that.
LEMMA ValueMakes == ASSUME NEW a \in Seq(Digit) PROVE Makes(a, Len(a), ValueOf(a), Weight)
<1>1. PICK f : Sums(f, a, Len(a)) /\ f[Len(a)] = ValueOf(a)
    BY ValueIs
<1>2. Len(a) \in Nat
    OBVIOUS
<1>3. Totals(f, a, Len(a), Weight)
    BY <1>1, <1>2, SumsAreTotals DEF Weight
<1> QED
    BY <1>1, <1>3 DEF Makes

LEMMA MakesValue ==
    ASSUME NEW a \in Seq(Digit), NEW c, \A k \in 1..Len(a) : a[k] = c[k], NEW x, Makes(c, Len(a), x, Weight)
    PROVE  ValueOf(a) = x
<1>1. Makes(a, Len(a), ValueOf(a), Weight)
    BY ValueMakes
<1>2. Len(a) \in Nat
    OBVIOUS
<1> QED
    BY <1>1, <1>2, MakesSame

\* The number of an object has the sign of the object.
LEMMA NumberSigned ==
    ASSUME NEW x, x.v \in Seq(Digit)
    PROVE  Number(x) = IF x.neg THEN -ValueOf(x.v) ELSE ValueOf(x.v)
<1>1. PICK y : y = Make(FALSE, x.v)
    OBVIOUS
<1>2. y.v = x.v /\ y.neg = FALSE
    BY <1>1 DEF Make
<1>3. ValueOf(x.v) = Number(y)
    BY <1>1 DEF ValueOf
<1> QED
    BY <1>2, <1>3 DEF Number

LEMMA Minus == ASSUME NEW i \in Int PROVE -i = 0 - i /\ -i \in Int
OBVIOUS

LEMMA NumberMade ==
    ASSUME NEW b, NEW a \in Seq(Digit)
    PROVE  Number(Make(b, a)) = IF b THEN -ValueOf(a) ELSE ValueOf(a)
<1>1. PICK y : y = Make(b, a)
    OBVIOUS
<1>2. y.v = a /\ y.neg = (b /\ a # <<>>)
    BY <1>1 DEF Make
<1>3. Number(y) = IF y.neg THEN -ValueOf(a) ELSE ValueOf(a)
    BY <1>2, NumberSigned
<1>4. a = <<>> => ValueOf(a) = 0
  <2> SUFFICES ASSUME a = <<>>
               PROVE  ValueOf(a) = 0
      OBVIOUS
  <2>1. Len(a) = 0 /\ \A k \in 1..Len(a) : a[k] = a[k]
      OBVIOUS
  <2>2. Makes(a, Len(a), 0, Weight)
      BY <2>1, MakesNothing
  <2> QED
      BY <2>1, <2>2, MakesValue
<1>5. \A i \in Int : i = 0 => -i = i
  <2>1. \A i \in Int : -i = 0 - i
      BY Minus
  <2>2. \A i \in Int : i = 0 => 0 - i = i
      OBVIOUS
  <2> QED
      BY <2>1, <2>2
<1>6. a = <<>> => -ValueOf(a) = ValueOf(a)
    BY <1>4, <1>5
<1> QED
    BY <1>1, <1>2, <1>3, <1>6

\* Leading zeros count for nothing.
LEMMA NormalizeValue == ASSUME NEW x \in Seq(Digit) PROVE ValueOf(int_normalize(x)) = ValueOf(x)
<1>0. x \in Seq(0..MASK)
    BY DEF Digit
<1>1. PICK k : Trimmed(x, k)
    BY <1>0, NormalizeIs
<1>2. PICK y : y = int_normalize(x)
    OBVIOUS
<1>3. k \in Nat /\ Len(x) \in Nat /\ k <= Len(x) /\ \A i \in k + 1..Len(x) : x[i] = 0
    BY <1>1 DEF Trimmed
<1>4. y \in Seq(Digit) /\ Len(y) = k /\ \A i \in 1..k : y[i] = x[i]
    BY <1>1, <1>2 DEF Trimmed, Digit
<1>5. Makes(x, Len(x), ValueOf(x), Weight)
    BY ValueMakes
<1>6. Makes(x, k, ValueOf(x), Weight)
    BY <1>3, <1>5, MakesPadded, WeightIs
<1>7. ValueOf(y) = ValueOf(x)
    BY <1>4, <1>6, MakesValue
<1> QED
    BY <1>2, <1>7

-----------------------------------------------------------------------------
(* The digits that a conversion writes *)

\* x is the number that a stands for, the weights of its places being p.
Worth(a, p, x) == a \in Seq(Nat) /\ \E f : Totals(f, a, Len(a), p) /\ f[Len(a)] = x

\* No leading zeros
Leading(a) == a = <<>> \/ a[Len(a)] # 0

LEMMA WorthNothing == ASSUME NEW p PROVE Worth(<<>>, p, 0)
<1> DEFINE f == [k \in 0..0 |-> 0]
<1>1. <<>> \in Seq(Nat) /\ Len(<<>>) = 0
    BY EmptySeq
<1>2. Totals(f, <<>>, 0, p) /\ f[0] = 0
    BY DEF Totals
<1> QED
    BY <1>1, <1>2 DEF Worth

LEMMA WorthAppend ==
    ASSUME NEW p, NEW b, Weights(p, b), NEW a, NEW x, Worth(a, p, x), NEW y \in Nat
    PROVE  Worth(Append(a, y), p, x + y * p[Len(a)])
<1> DEFINE n == Len(a)
           s == Append(a, y)
           more == y * p[n]
<1>1. PICK f : Totals(f, a, n, p) /\ f[n] = x
    BY DEF Worth
<1>2. n \in Nat /\ a \in Seq(Nat)
    BY DEF Worth
<1>3. s \in Seq(Nat) /\ Len(s) = n + 1 /\ s[n + 1] = y /\ \A k \in 1..n : s[k] = a[k]
  <2>1. \A k \in 1..Len(a) : Append(a, y)[k] = a[k]
      BY <1>2
  <2> QED
      BY <2>1, <1>2
<1>4. p[n] \in Nat /\ more \in Int
  <2>1. p[n] \in Nat
      BY <1>2 DEF Weights
  <2> QED
      BY <2>1
<1>5. x \in Int
    BY <1>1, <1>2 DEF Totals
<1> DEFINE g == [k \in 0..n + 1 |-> IF k = n + 1 THEN x + more ELSE f[k]]
<1> HIDE DEF s, more
<1>6. \A k \in 0..n + 1 : g[k] \in Int
  <2>1. \A k \in 0..n + 1 : k # n + 1 => k \in 0..n
      BY <1>2
  <2>2. x + more \in Int
      BY <1>4, <1>5
  <2> QED
      BY <2>1, <2>2, <1>1 DEF Totals
<1>7. g[0] = 0 /\ g[n + 1] = x + more
  <2>1. 0 # n + 1 /\ 0 \in 0..n + 1 /\ n + 1 \in 0..n + 1
      BY <1>2
  <2> QED
      BY <2>1, <1>1 DEF Totals
<1>8. ASSUME NEW k \in 1..n + 1
      PROVE  g[k] = g[k - 1] + s[k] * p[k - 1]
  <2>1. CASE k = n + 1
    <3>1. k - 1 = n /\ n \in 0..n + 1 /\ n # n + 1
        BY <2>1, <1>2
    <3>2. g[k] = x + more /\ g[k - 1] = x /\ s[k] * p[k - 1] = more
        BY <3>1, <2>1, <1>1, <1>3, <1>7 DEF more
    <3> QED
        BY <3>2
  <2>2. CASE k # n + 1
    <3>1. k \in 1..n /\ k - 1 \in 0..n + 1 /\ k - 1 # n + 1 /\ k \in 0..n + 1
        BY <2>2, <1>2
    <3>2. g[k] = f[k] /\ g[k - 1] = f[k - 1] /\ s[k] = a[k]
        BY <3>1, <2>2, <1>3
    <3>3. f[k] = f[k - 1] + a[k] * p[k - 1]
        BY <3>1, <1>1 DEF Totals
    <3> QED
        BY <3>2, <3>3
  <2> QED
      BY <2>1, <2>2
<1> HIDE DEF g
<1>9. Totals(g, s, n + 1, p)
    BY <1>6, <1>7, <1>8 DEF Totals
<1>10. Worth(s, p, x + more)
    BY <1>3, <1>7, <1>9 DEF Worth
<1> QED
    BY <1>10 DEF s, more

\* A number is at least the weight of its highest place.
LEMMA WorthAbove ==
    ASSUME NEW p, NEW b, Weights(p, b), NEW a, NEW x, Worth(a, p, x)
    PROVE  x \in Nat /\ (a # <<>> /\ Leading(a) => Len(a) - 1 \in Nat /\ p[Len(a) - 1] <= x)
<1>1. PICK f : Totals(f, a, Len(a), p) /\ f[Len(a)] = x
    BY DEF Worth
<1>2. a \in Seq(Nat) /\ Len(a) \in Nat /\ \A k \in 1..Len(a) : a[k] \in Nat
    BY DEF Worth
<1> DEFINE n == Len(a)
<1>3. n \in Nat /\ (\A k \in 1..n : a[k] \in Nat) /\ Totals(f, a, n, p)
    BY <1>1, <1>2
<1>4. a # <<>> => n # 0 /\ n - 1 \in Nat
    BY <1>2, EmptySeq
<1> HIDE DEF n
<1>5. f[n] \in Nat /\ (n # 0 /\ a[n] # 0 => p[n - 1] <= f[n])
    BY <1>3, TotalsAbove
<1> QED
    BY <1>1, <1>4, <1>5 DEF n, Leading

\* A loop that multiplies a number by m and adds c
Multiplying(h, a, m, c, b) ==
    /\ h[0] = c * b
    /\ \A i \in 0..Len(a) : h[i] \in Nat
    /\ \A i \in 1..Len(a) : h[i] = h[i - 1] \div b + a[i] * m

\* What it leaves in the places of the number, and the carry, are the product.
LEMMA MultipliedIs ==
    ASSUME NEW b \in Nat \ {0}, NEW p, Weights(p, b), NEW a, NEW x, Worth(a, p, x), Leading(a),
           NEW m \in Nat \ {0}, NEW c \in Nat, NEW h, Multiplying(h, a, m, c, b), NEW s, s \in Seq(Nat), Len(s) = Len(a),
           CutIn(s, h, Len(a), b), NEW top, top = h[Len(a)] \div b
    PROVE  /\ top \in Nat /\ (top = 0 => Leading(s))
           /\ \E y \in Nat : Worth(s, p, y) /\ y + top * p[Len(a)] = x * m + c
<1> DEFINE n == Len(a)
<1>1. n \in Nat /\ a \in Seq(Nat) /\ (\A k \in 1..n : a[k] \in Nat) /\ (\A k \in 1..n : s[k] \in Nat) /\ n \in 0..n
  <2>1. a \in Seq(Nat)
      BY DEF Worth
  <2>2. n \in Nat /\ \A k \in 1..n : a[k] \in Nat
      BY <2>1
  <2>3. \A k \in 1..n : s[k] \in Nat
      OBVIOUS
  <2>4. n \in 0..n
      BY <2>2
  <2> QED
      BY <2>1, <2>2, <2>3, <2>4
<1>2. PICK f : Totals(f, a, n, p) /\ f[n] = x
    BY DEF Worth
<1>3. h[n] \in Nat
    BY <1>1 DEF Multiplying
<1>4. top \in Nat
  <2> DEFINE z == h[n]
  <2>1. z \in Nat /\ top = z \div b
      BY <1>3
  <2> HIDE DEF z
  <2>2. z \div b \in 0..z
      BY <2>1, Natural
  <2> QED
      BY <2>1, <2>2
<1>5. x \in Nat
    BY WorthAbove
<1>6. CASE n = 0
  <2>1. a = <<>> /\ s = <<>>
      BY <1>1, <1>6, EmptySeq
  <2>2. x = 0
      BY <1>2, <1>6 DEF Totals
  <2>3. top = c
    <3>1. h[n] = b * c + 0 /\ b * c + 0 \in Int /\ 0 <= 0 /\ 0 < b
        BY <1>6 DEF Multiplying
    <3>2. h[n] \in Int /\ c \in Int /\ 0 \in Int
        BY <3>1
    <3> DEFINE z == h[n]
    <3> HIDE DEF z
    <3>3. z \in Int /\ z = b * c + 0 /\ top = z \div b
        BY <3>1, <3>2 DEF z
    <3>4. z \div b = c
        BY <3>1, <3>2, <3>3, Quotient, Zenon
    <3> QED
        BY <3>3, <3>4
  <2>4. p[0] = 1
      BY DEF Weights
  <2>5. 0 + top * p[n] = x * m + c
    <3>1. x * m = 0
        BY <2>2
    <3> QED
        BY <3>1, <2>3, <2>4, <1>6
  <2>6. Worth(s, p, 0) /\ Leading(s)
      BY <2>1, WorthNothing DEF Leading
  <2> QED
      BY <2>5, <2>6, <1>4
<1>7. CASE n # 0
  <2> DEFINE t == [i \in 1..n |-> a[i] * m + (IF i = 1 THEN c ELSE 0)]
             T == [k \in 0..n |-> IF k = 0 THEN 0 ELSE f[k] * m + c]
  <2>1. n \in Nat \ {0} /\ 1 \in 1..n
      BY <1>1, <1>7
  <2>2. PassedOn(h, t, n, b)
    <3>1. ASSUME NEW i \in 1..n
          PROVE  t[i] \in Int /\ h[i] \in Int /\ h[i] = t[i] + (IF i = 1 THEN 0 ELSE h[i - 1] \div b)
      <4> DEFINE u == a[i] * m
                 e == h[i - 1] \div b
      <4>1. a[i] \in Nat /\ u \in Nat
          BY <1>1
      <4>2. h[i] = e + u /\ h[i] \in Nat /\ h[i - 1] \in Nat
          BY <1>1 DEF Multiplying
      <4>3. t[i] = u + (IF i = 1 THEN c ELSE 0)
          OBVIOUS
      <4>4. e \in Int
        <5> DEFINE z == h[i - 1]
        <5>1. z \in Int
            BY <4>2
        <5> HIDE DEF z
        <5>2. z \div b \in Int
            BY <5>1, Division
        <5> QED
            BY <5>2 DEF z
      <4>5. i = 1 => e = c
        <5> HAVE i = 1
        <5> DEFINE z == h[i - 1]
        <5>1. z = b * c + 0 /\ z \in Int /\ c \in Int /\ 0 \in Int /\ 0 <= 0 /\ 0 < b
            BY <4>2 DEF Multiplying
        <5> HIDE DEF z
        <5>2. z \div b = c
            BY <5>1, Quotient, Zenon
        <5> QED
            BY <5>2 DEF z
      <4> HIDE DEF u, e, t
      <4>6. h[i] = t[i] + (IF i = 1 THEN 0 ELSE e)
          BY <4>1, <4>2, <4>3, <4>4, <4>5
      <4>7. t[i] \in Int
          BY <4>1, <4>3
      <4> QED
          BY <4>2, <4>6, <4>7 DEF e
    <3> HIDE DEF t
    <3> QED
        BY <3>1 DEF PassedOn
  <2>3. Totals(T, t, n, p)
    <3>1. \A k \in 0..n : T[k] \in Int
      <4> TAKE k \in 0..n
      <4>1. f[k] \in Int
          BY <1>2 DEF Totals
      <4>2. f[k] * m + c \in Int
          BY <4>1
      <4> QED
          BY <4>2
    <3>2. T[0] = 0
        BY <1>1
    <3>3. ASSUME NEW k \in 1..n
          PROVE  T[k] = T[k - 1] + t[k] * p[k - 1]
      <4> DEFINE i == k - 1
                 u == a[k]
                 e == p[i]
      <4>1. k \in 0..n /\ k # 0 /\ i \in 0..n /\ i \in Nat
          BY <1>1
      <4>2. f[k] = f[i] + u * e /\ f[i] \in Int /\ u \in Nat /\ e \in Nat
          BY <4>1, <1>1, <1>2 DEF Totals, Weights
      <4>3. T[k] = f[k] * m + c
          BY <4>1
      <4>4. CASE k = 1
        <5>1. f[i] = 0 /\ e = 1 /\ T[i] = 0 /\ t[k] = u * m + c
            BY <4>4, <2>1, <1>2 DEF Totals, Weights
        <5> HIDE DEF T, t, u, e, i
        <5>2. f[k] = u /\ (u * m + c) * e = u * m + c /\ u * m + c \in Int
            BY <4>2, <5>1
        <5> QED
            BY <4>3, <5>1, <5>2 DEF i, e
      <4>5. CASE k # 1
        <5>1. T[i] = f[i] * m + c /\ t[k] = u * m + 0 /\ u * m + 0 = u * m
            BY <4>5, <4>1, <4>2
        <5> HIDE DEF T, t, u, e, i
        <5>2. (f[i] + u * e) * m = f[i] * m + (u * m) * e /\ f[i] * m \in Int /\ (u * m) * e \in Int
            BY <4>2
        <5> QED
            BY <4>2, <4>3, <5>1, <5>2 DEF i, e
      <4> QED
          BY <4>4, <4>5
    <3> HIDE DEF T, t
    <3> QED
        BY <3>1, <3>2, <3>3 DEF Totals
  <2>4. T[n] = x * m + c
      BY <1>2, <2>1
  <2> HIDE DEF T, t
  <2>5. PICK g : Totals(g, s, n, p)
      BY <1>1, TotalsExist
  <2>6. g[n] \in Nat
      BY <1>1, <2>5, TotalsAbove
  <2>7. CutIn(s, h, n, b)
      OBVIOUS
  <2>8. g[n] + (h[n] \div b) * p[n] = T[n]
      BY <2>1, <2>2, <2>3, <2>5, <2>7, TotalsKept
  <2>9. Worth(s, p, g[n])
      BY <2>5 DEF Worth
  <2>10. ASSUME top = 0
         PROVE  Leading(s)
    <3> DEFINE z == h[n]
               u == a[n] * m
               e == h[n - 1] \div b
    <3>1. n \in 1..n /\ n - 1 \in 0..n
        BY <2>1
    <3>2. z = e + u /\ s[n] = z % b
        BY <3>1 DEF Multiplying, CutIn
    <3>3. a[n] # 0 /\ a[n] \in Nat
        BY <3>1, <1>1, <2>1, EmptySeq DEF Leading
    <3>4. u \in Nat \ {0}
        BY <3>3
    <3>5. e \in Nat
      <4> DEFINE y == h[n - 1]
      <4>1. y \in Nat
          BY <3>1 DEF Multiplying
      <4> HIDE DEF y
      <4>2. y \div b \in 0..y
          BY <4>1, Natural
      <4> QED
          BY <4>1, <4>2 DEF y
    <3>7. z \div b = 0
        BY <2>10
    <3> HIDE DEF z, u, e
    <3>6. z \in Int /\ z # 0
        BY <3>2, <3>4, <3>5
    <3>8. z = b * (z \div b) + (z % b) /\ z % b \in 0..b - 1
        BY <3>6, Division
    <3> DEFINE y == z % b
    <3>9. z = b * 0 + y /\ y \in 0..b - 1
        BY <3>7, <3>8
    <3> HIDE DEF y
    <3>10. y # 0
        BY <3>6, <3>9
    <3> QED
        BY <3>2, <3>10 DEF y, Leading
  <2> QED
      BY <1>4, <2>4, <2>6, <2>8, <2>9, <2>10
<1> QED
    BY <1>6, <1>7

\* Such a loop runs for every number,
LEMMA MultiplyChain ==
    ASSUME NEW b \in Nat \ {0}, NEW a \in Seq(Nat), NEW m \in Nat, NEW c \in Nat, NEW h,
           h = CHOOSE f : f = [i \in 0..Len(a) |-> IF i = 0 THEN c * b ELSE f[i - 1] \div b + a[i] * m]
    PROVE  Multiplying(h, a, m, c, b)
<1> DEFINE n == Len(a)
           first == c * b
           E(i, y) == y \div b + a[i] * m
           G == [i \in 0 + 1..n |-> [y \in Nat |-> E(i, y)]]
           Is(f) == f = [i \in 0..n |-> IF i = 0 THEN first ELSE E(i, f[i - 1])]
<1>1. n \in Nat /\ n \in Int /\ 0 \in Int /\ 0 <= n /\ first \in Nat /\ \A i \in 1..n : a[i] \in Nat
    OBVIOUS
<1>2. \A i : \A y : E(i, y) = y \div b + a[i] * m
    OBVIOUS
<1>3. h = CHOOSE f : Is(f)
    OBVIOUS
<1>4. first = c * b
    OBVIOUS
<1>5. ASSUME NEW i \in 1..n, NEW y \in Nat
      PROVE  E(i, y) \in Nat
  <2>1. y \div b \in 0..y
      BY Natural
  <2> DEFINE x == y \div b
  <2>2. x \in Nat /\ a[i] \in Nat
      BY <2>1, <1>1
  <2> HIDE DEF x
  <2>3. x + a[i] * m \in Nat
      BY <2>2
  <2> QED
      BY <2>3 DEF x
<1> HIDE DEF E, n, first
<1>6. Maps(G, 0, n, Nat)
    BY <1>1, <1>5 DEF Maps
<1>7. \A i \in 0..n : \A z \in Nat : i # 0 => G[i][z] = E(i, z)
    BY <1>1
<1> HIDE DEF G
<1>8. PICK f : f \in [0..n -> Nat] /\ Chained(f, 0, n, first, G)
    BY <1>1, <1>6, Iteration, Zenon
<1>9. f = [i \in 0..n |-> IF i = 0 THEN first ELSE G[i][f[i - 1]]]
    BY <1>8 DEF Chained
<1>10. \A i \in 0..n : i # 0 => f[i - 1] \in Nat
    BY <1>1, <1>8
<1>11. Is(f)
    BY <1>7, <1>9, <1>10
<1>12. Is(h)
    BY <1>3, <1>11
<1>13. h[0] = first /\ h[0] \in Nat
  <2>1. 0 \in 0..n
      BY <1>1
  <2>2. h[0] = first
      BY <2>1, <1>12
  <2> QED
      BY <2>2, <1>1
<1>14. \A i \in 0 + 1..n : h[i] = E(i, h[i - 1])
  <2> TAKE i \in 0 + 1..n
  <2>1. i \in 0..n /\ i # 0
      BY <1>1
  <2> QED
      BY <2>1, <1>12
<1>15. ASSUME NEW i \in 0 + 1..n, h[i - 1] \in Nat
       PROVE  h[i] \in Nat
  <2>1. i \in 1..n
      BY <1>1
  <2> QED
      BY <2>1, <1>14, <1>15, <1>5
<1>16. \A i \in 0..n : h[i] \in Nat
    BY <1>1, <1>13, <1>15, Stays, Zenon
<1>17. \A i \in 1..n : h[i] = h[i - 1] \div b + a[i] * m
  <2> TAKE i \in 1..n
  <2>1. i \in 0 + 1..n
      BY <1>1
  <2> QED
      BY <2>1, <1>2, <1>14
<1> QED
    BY <1>4, <1>13, <1>16, <1>17 DEF Multiplying, n

\* and leaves the number multiplied.
LEMMA MultiplyAddWorth ==
    ASSUME NEW p, Weights(p, BASE), NEW a \in Seq(Digit), NEW x, Worth(a, p, x), Leading(a),
           NEW m \in Nat \ {0}, NEW c \in Nat
    PROVE  Leading(MultiplyAdd(a, m, c)) /\ Worth(MultiplyAdd(a, m, c), p, x * m + c)
<1> DEFINE n == Len(a)
           h == CHOOSE f : f = [i \in 0..n |-> IF i = 0 THEN c * BASE ELSE f[i - 1] \div BASE + a[i] * m]
           top == h[n] \div BASE
           s == [i \in DOMAIN a |-> h[i] % BASE]
           y == IF top = 0 THEN <<>> ELSE <<top>>
<1>1. MultiplyAdd(a, m, c) = s \o y
    BY DEF MultiplyAdd
<1>2. a \in Seq(Nat) /\ BASE \in Nat \ {0} /\ n \in Nat
    BY DigitSizes DEF Worth
<1>3. Multiplying(h, a, m, c, BASE)
    BY <1>2, MultiplyChain, Zenon
<1> HIDE DEF h
<1>4. \A i \in 1..n : h[i] % BASE \in Nat
  <2> TAKE i \in 1..n
  <2>1. h[i] \in Int
      BY <1>2, <1>3 DEF Multiplying
  <2>2. h[i] % BASE \in Digit
      BY <2>1, Remainder DEF Digit
  <2> QED
      BY <2>2, DigitIs
<1>5. s \in Seq(Nat) /\ Len(s) = n /\ CutIn(s, h, n, BASE)
  <2>1. DOMAIN a = 1..n
      OBVIOUS
  <2>2. s \in Seq(Nat) /\ Len(s) = n /\ \A i \in 1..n : s[i] = h[i] % BASE
      BY <1>2, <1>4, <2>1
  <2> QED
      BY <2>2 DEF CutIn
<1> HIDE DEF s
<1>6. /\ top \in Nat /\ (top = 0 => Leading(s))
      /\ \E z \in Nat : Worth(s, p, z) /\ z + top * p[n] = x * m + c
    BY <1>2, <1>3, <1>5, MultipliedIs
<1> HIDE DEF top
<1>7. PICK z \in Nat : Worth(s, p, z) /\ z + top * p[n] = x * m + c
    BY <1>6
<1>8. CASE top = 0
  <2>1. s \o y = s
      BY <1>8, <1>5
  <2>2. top * p[n] = 0 /\ z = x * m + c
    <3>1. p[n] \in Nat
        BY <1>2 DEF Weights
    <3>2. top * p[n] = 0
        BY <3>1, <1>8
    <3>3. z + 0 = x * m + c /\ z + 0 = z
        BY <3>2, <1>7
    <3> QED
        BY <3>2, <3>3
  <2> QED
      BY <2>1, <2>2, <1>1, <1>6, <1>7, <1>8
<1>9. CASE top # 0
  <2>1. s \o y = Append(s, top)
      BY <1>9, <1>5, <1>6
  <2>2. Worth(Append(s, top), p, z + top * p[Len(s)])
      BY <1>2, <1>6, <1>7, WorthAppend
  <2>3. Leading(Append(s, top))
    <3>1. Len(Append(s, top)) = n + 1 /\ Append(s, top)[n + 1] = top
        BY <1>5, <1>6, <1>2
    <3> QED
        BY <3>1, <1>9 DEF Leading
  <2> QED
      BY <2>1, <2>2, <2>3, <1>1, <1>5, <1>7
<1> QED
    BY <1>8, <1>9

LEMMA PowerSum ==
    ASSUME NEW b \in Nat, NEW m \in Nat
    PROVE  \A n \in Nat : Power(b, m + n) = Power(b, m) * Power(b, n)
<1> DEFINE S == {n \in Nat : Power(b, m + n) = Power(b, m) * Power(b, n)}
           x == Power(b, m)
<1>0. x \in Nat
    BY PowerNext
<1>1. 0 \in S
  <2>1. Power(b, 0) = 1
      BY PowerNext
  <2>2. x * 1 = x
      BY <1>0
  <2> HIDE DEF x
  <2>3. m + 0 = m
      OBVIOUS
  <2> QED
      BY <2>1, <2>2, <2>3 DEF x
<1>2. ASSUME NEW n \in Nat, n \in S
      PROVE  n + 1 \in S
  <2> DEFINE y == Power(b, n)
             z == Power(b, m + n)
  <2>1. y \in Nat /\ Power(b, n + 1) = b * y
      BY PowerNext
  <2>2. z \in Nat /\ Power(b, m + n + 1) = b * z
    <3>1. m + n \in Nat
        OBVIOUS
    <3> QED
        BY <3>1, PowerNext
  <2>3. z = x * y
      BY <1>2
  <2>4. m + (n + 1) = m + n + 1 /\ n + 1 \in Nat
      OBVIOUS
  <2> HIDE DEF x, y, z, S
  <2>5. b * (x * y) = x * (b * y)
      BY <1>0, <2>1
  <2>6. Power(b, m + (n + 1)) = x * Power(b, n + 1)
      BY <2>1, <2>2, <2>3, <2>4, <2>5
  <2> QED
      BY <2>4, <2>6 DEF S, x
<1> HIDE DEF S
<1>3. \A n \in Nat : n \in S
    BY <1>1, <1>2, Induction
<1> QED
    BY <1>3 DEF S

\* The places of base b
Powered(b) == [i \in Nat |-> Power(b, i)]

LEMMA PowerWeights == ASSUME NEW b \in Nat, b >= 2 PROVE Weights(Powered(b), b)
<1> DEFINE p == Powered(b)
<1>1. \A i \in Nat : p[i] = Power(b, i)
    BY DEF Powered
<1> HIDE DEF p
<1>2. p[0] = 1
  <2>1. 0 \in Nat
      OBVIOUS
  <2>2. Power(b, 0) = 1
      BY <2>1, PowerNext, Zenon
  <2> QED
      BY <2>1, <2>2, <1>1, Zenon
<1>3. \A i \in Nat : p[i] \in Nat \ {0} /\ p[i + 1] = b * p[i]
  <2> TAKE i \in Nat
  <2>1. i + 1 \in Nat
      OBVIOUS
  <2>2. Power(b, i) \in Nat /\ Power(b, i) >= 2^i /\ Power(b, i + 1) = b * Power(b, i)
      BY PowerNext, PowerGrows
  <2>3. 2^i \in Nat \ {0}
      BY Powers
  <2> QED
      BY <2>1, <2>2, <2>3, <1>1
<1> QED
    BY <1>2, <1>3 DEF Weights, p

\* A function on 1..n is a sequence.
LEMMA Listed ==
    ASSUME NEW n \in Nat, NEW S, NEW s, s = [i \in 1..n |-> s[i]], \A i \in 1..n : s[i] \in S
    PROVE  s \in Seq(S) /\ Len(s) = n
<1>1. s \in [1..n -> S]
    OBVIOUS
<1>2. s \in Seq(S)
    BY <1>1
<1>3. DOMAIN s = 1..n
    BY <1>1
<1> QED
    BY <1>2, <1>3

\* The digits e are the digits a, after every place has taken b times its part c from the next.
Passes(e, a, c, n, b) ==
    /\ \A k \in 0..n : c[k] \in Int
    /\ \A k \in 1..n : a[k] \in Int /\ e[k] = a[k] + c[k - 1] - b * c[k]

\* What goes from one place to the next leaves the number as it is.
LEMMA MakesHandedOn ==
    ASSUME NEW b \in Nat, NEW p, Weights(p, b), NEW n \in Nat, NEW a, NEW e, NEW c, Passes(e, a, c, n, b),
           NEW x, Makes(a, n, x, p)
    PROVE  Makes(e, n, x + c[0] - c[n] * p[n], p)
<1>1. PICK f : Totals(f, a, n, p) /\ f[n] = x
    BY DEF Makes
<1> DEFINE h == [k \in 0..n |-> f[k] + c[0] - c[k] * p[k]]
<1>2. 0 \in 0..n /\ n \in 0..n
    OBVIOUS
<1>3. \A k \in 0..n : f[k] \in Int /\ c[k] \in Int /\ p[k] \in Int /\ c[k] * p[k] \in Int
  <2> TAKE k \in 0..n
  <2>1. f[k] \in Int /\ c[k] \in Int
      BY <1>1 DEF Totals, Passes
  <2>2. p[k] \in Int
      BY DEF Weights
  <2> QED
      BY <2>1, <2>2
<1>4. \A k \in 0..n : h[k] = f[k] + c[0] - c[k] * p[k]
    OBVIOUS
<1> HIDE DEF h
<1>5. \A k \in 0..n : h[k] \in Int
    BY <1>2, <1>3, <1>4
<1>6. h[0] = 0
  <2>1. f[0] = 0 /\ p[0] = 1
      BY <1>1 DEF Totals, Weights
  <2> QED
      BY <2>1, <1>2, <1>3, <1>4
<1>7. ASSUME NEW k \in 1..n
      PROVE  h[k] = h[k - 1] + e[k] * p[k - 1]
  <2>1. k \in 0..n /\ k - 1 \in 0..n /\ k - 1 \in Nat /\ (k - 1) + 1 = k
      OBVIOUS
  <2>2. f[k] = f[k - 1] + a[k] * p[k - 1]
      BY <1>1 DEF Totals
  <2>3. p[k] = b * p[k - 1]
      BY <2>1 DEF Weights
  <2>4. e[k] = a[k] + c[k - 1] - b * c[k] /\ a[k] \in Int
      BY DEF Passes
  <2>5. h[k] = f[k] + c[0] - c[k] * p[k] /\ h[k - 1] = f[k - 1] + c[0] - c[k - 1] * p[k - 1]
      BY <2>1, <1>4
  <2>6. PICK y, u, i, j, g, z : y = a[k] /\ u = p[k - 1] /\ i = c[k] /\ j = c[k - 1] /\ g = f[k - 1] /\ z = c[0]
      OBVIOUS
  <2>7. y \in Int /\ u \in Int /\ i \in Int /\ j \in Int /\ g \in Int /\ z \in Int
      BY <2>1, <2>4, <2>6, <1>2, <1>3
  <2>8. h[k] = (g + y * u) + z - i * (b * u) /\ h[k - 1] = g + z - j * u /\ e[k] = y + j - b * i
      BY <2>2, <2>3, <2>4, <2>5, <2>6
  <2>9. (y + j - b * i) * u = y * u + j * u - i * (b * u)
      BY <2>7
  <2>10. y * u \in Int /\ j * u \in Int /\ i * (b * u) \in Int
      BY <2>7
  <2>11. h[k] = h[k - 1] + e[k] * u
      BY <2>7, <2>8, <2>9, <2>10
  <2> QED
      BY <2>6, <2>11
<1>8. Totals(h, e, n, p)
    BY <1>5, <1>6, <1>7 DEF Totals
<1>9. h[n] = x + c[0] - c[n] * p[n]
    BY <1>1, <1>2, <1>4
<1> QED
    BY <1>8, <1>9 DEF Makes

\* The loop that reads a string of digits.
EvaluatedBy(f, s, b) ==
    /\ \A i \in 0..Len(s) : f[i] \in Nat
    /\ f[0] = 0
    /\ \A i \in 1..Len(s) : f[i] = b * f[i - 1] + s[i]

\* What a string of digits is worth, digit by digit.
LEMMA EvaluatedChain ==
    ASSUME NEW b \in Nat, NEW s \in Seq(Nat)
    PROVE  \E f : EvaluatedBy(f, s, b) /\ Evaluated(s, b) = f[Len(s)]
<1> DEFINE n == Len(s)
           E(i, y) == b * y + s[i]
           G == [i \in 0 + 1..n |-> [y \in Nat |-> E(i, y)]]
           Is(f) == f = [i \in 0..n |-> IF i = 0 THEN 0 ELSE E(i, f[i - 1])]
           h == CHOOSE f : Is(f)
<1>1. n \in Nat /\ n \in Int /\ 0 \in Int /\ 0 \in Nat /\ 0 <= n /\ \A i \in 1..n : s[i] \in Nat
    OBVIOUS
<1>2. Evaluated(s, b) = h[n]
    BY DEF Evaluated
<1>3. ASSUME NEW i \in 1..n, NEW y \in Nat
      PROVE  E(i, y) \in Nat
    BY <1>1
<1>4. \A i \in 1..n : \A y \in Nat : E(i, y) = b * y + s[i]
    OBVIOUS
<1> HIDE DEF E, n
<1>5. Maps(G, 0, n, Nat)
    BY <1>1, <1>3 DEF Maps
<1>6. \A i \in 0..n : \A y \in Nat : i # 0 => G[i][y] = E(i, y)
    BY <1>1
<1> HIDE DEF G
<1>7. PICK f : f \in [0..n -> Nat] /\ Chained(f, 0, n, 0, G)
    BY <1>1, <1>5, Iteration, Zenon
<1>8. f = [i \in 0..n |-> IF i = 0 THEN 0 ELSE G[i][f[i - 1]]]
    BY <1>7 DEF Chained
<1>9. \A i \in 0..n : i # 0 => f[i - 1] \in Nat
    BY <1>1, <1>7
<1>10. Is(f)
    BY <1>6, <1>8, <1>9
<1>11. Is(h)
    BY <1>10
<1> HIDE DEF h
<1>12. \A i \in 0..n : h[i] = IF i = 0 THEN 0 ELSE E(i, h[i - 1])
    BY <1>11
<1>13. h[0] = 0 /\ h[0] \in Nat
    BY <1>12, <1>1
<1>14. \A i \in 1..n : h[i] = E(i, h[i - 1])
    BY <1>12, <1>1
<1>15. ASSUME NEW i \in 0 + 1..n, h[i - 1] \in Nat
       PROVE  h[i] \in Nat
  <2>1. i \in 1..n
      OBVIOUS
  <2> QED
      BY <2>1, <1>3, <1>14, <1>15
<1>16. \A i \in 0..n : h[i] \in Nat
    BY <1>1, <1>13, <1>15, Stays, Zenon
<1>17. \A i \in 1..n : h[i] = b * h[i - 1] + s[i]
  <2> TAKE i \in 1..n
  <2>1. i - 1 \in 0..n
      BY <1>1
  <2> QED
      BY <2>1, <1>4, <1>14, <1>16
<1>18. EvaluatedBy(h, s, b)
    BY <1>13, <1>16, <1>17 DEF EvaluatedBy, n
<1> QED
    BY <1>2, <1>18 DEF n

\* A string of digits from its end, as the digits of a number are kept.
Backward(s) == [k \in 1..Len(s) |-> s[Len(s) + 1 - k]]

\* Read backward, the digits make that number.
LEMMA EvaluatedMakes ==
    ASSUME NEW b \in Nat, b >= 2, NEW s \in Seq(Nat)
    PROVE  /\ Makes(Backward(s), Len(s), Evaluated(s, b), Powered(b))
           /\ \A k \in 1..Len(s) : Backward(s)[k] = s[Len(s) + 1 - k] /\ Backward(s)[k] \in Nat
<1> DEFINE n == Len(s)
           a == Backward(s)
           p == Powered(b)
<1>1. PICK f : EvaluatedBy(f, s, b) /\ Evaluated(s, b) = f[n]
    BY EvaluatedChain
<1>2. n \in Nat /\ \A k \in 1..n : a[k] = s[n + 1 - k] /\ a[k] \in Nat /\ a[k] \in Int
    BY DEF Backward
<1>3. /\ \A i \in 0..n : f[i] \in Nat
      /\ f[0] = 0
      /\ \A i \in 1..n : f[i] = b * f[i - 1] + s[i]
    BY <1>1 DEF EvaluatedBy
<1>4. Weights(p, b)
    BY PowerWeights
<1> DEFINE c == [k \in 0..n |-> 0 - f[n - k]]
           e == [k \in 1..n |-> 0]
<1> HIDE DEF n, a, p
<1>5. \A k \in 0..n : c[k] \in Int /\ c[k] = 0 - f[n - k]
  <2> TAKE k \in 0..n
  <2>1. n - k \in 0..n
      BY <1>2
  <2>2. f[n - k] \in Nat
      BY <2>1, <1>3
  <2>3. c[k] = 0 - f[n - k]
      OBVIOUS
  <2> HIDE DEF c
  <2> QED
      BY <2>2, <2>3
<1>6. \A k \in 1..n : e[k] = a[k] + c[k - 1] - b * c[k]
  <2> TAKE k \in 1..n
  <2>1. PICK i : i = n + 1 - k
      OBVIOUS
  <2>2. i \in 1..n /\ i - 1 = n - k /\ i = n - (k - 1) /\ k \in 0..n /\ k - 1 \in 0..n /\ i \in 0..n /\ i - 1 \in 0..n
      BY <1>2, <2>1
  <2>3. c[k] = 0 - f[i - 1] /\ c[k - 1] = 0 - f[i] /\ a[k] = s[i] /\ f[i] = b * f[i - 1] + s[i]
      BY <1>2, <1>3, <1>5, <2>1, <2>2
  <2>4. f[i] \in Nat /\ f[i - 1] \in Nat /\ s[i] \in Nat
      BY <1>2, <1>3, <2>1, <2>2
  <2>5. PICK x : x = f[i]
      OBVIOUS
  <2>6. PICK y : y = f[i - 1]
      OBVIOUS
  <2>7. PICK z : z = s[i]
      OBVIOUS
  <2>8. x \in Nat /\ y \in Nat /\ z \in Nat /\ x = b * y + z
      BY <2>3, <2>4, <2>5, <2>6, <2>7
  <2>9. b * (0 - y) = 0 - b * y /\ b * y \in Nat
      BY <2>8
  <2>10. z + (0 - x) - b * (0 - y) = 0
      BY <2>8, <2>9
  <2>11. e[k] = 0
      OBVIOUS
  <2> QED
      BY <2>3, <2>5, <2>6, <2>7, <2>10, <2>11
<1>6a. \A k \in 1..n : e[k] = 0
    OBVIOUS
<1> HIDE DEF c, e
<1>7. PICK x \in Int : Makes(a, n, x, p)
    BY <1>2, <1>4, MakesExists
<1>8. Passes(e, a, c, n, b)
    BY <1>2, <1>5, <1>6 DEF Passes
<1>9. Makes(e, n, x + c[0] - c[n] * p[n], p)
    BY <1>2, <1>4, <1>7, <1>8, MakesHandedOn
<1>10. Makes(e, n, 0, p)
    BY <1>2, <1>4, <1>6a, MakesZero
<1>11. x + c[0] - c[n] * p[n] = 0
    BY <1>2, <1>9, <1>10, MakesSame
<1>12. c[0] = 0 - f[n] /\ c[n] = 0 /\ f[n] \in Nat
  <2>1. 0 \in 0..n /\ n \in 0..n /\ n - 0 = n /\ n - n = 0
      BY <1>2
  <2>2. c[0] = 0 - f[n - 0] /\ c[n] = 0 - f[n - n]
      BY <2>1, <1>5
  <2>3. c[0] = 0 - f[n] /\ c[n] = 0 - f[0]
      BY <2>1, <2>2
  <2> QED
      BY <2>1, <2>3, <1>3
<1>13. p[n] \in Nat
    BY <1>2, <1>4 DEF Weights
<1>14. x = f[n]
  <2>1. x + (0 - f[n]) - 0 * p[n] = 0
      BY <1>11, <1>12
  <2>2. 0 * p[n] = 0
      BY <1>13
  <2> QED
      BY <2>1, <2>2, <1>12
<1> QED
    BY <1>1, <1>2, <1>7, <1>14 DEF n, a, p

\* Reading goes on where the first part of a string ends.
LEMMA EvaluatedJoined ==
    ASSUME NEW b \in Nat, b >= 2, NEW s \in Seq(Nat), NEW g \in Seq(Nat)
    PROVE  /\ Evaluated(s \o g, b) = Evaluated(s, b) * Power(b, Len(g)) + Evaluated(g, b)
           /\ Evaluated(s, b) \in Int /\ Evaluated(g, b) \in Int /\ Power(b, Len(g)) \in Nat
<1> DEFINE m == Len(s)
           n == Len(g)
           t == s \o g
           p == Powered(b)
<1>1. m \in Nat /\ n \in Nat /\ t \in Seq(Nat) /\ Len(t) = n + m
    BY ConcatProperties
<1>2. \A i \in 1..m : t[i] = s[i]
    BY ConcatProperties
<1>3. \A i \in 1..n : t[m + i] = g[i]
    OBVIOUS
<1>4. Weights(p, b)
    BY PowerWeights
<1> HIDE DEF t
<1>5. Makes(Backward(s), m, Evaluated(s, b), p) /\ \A k \in 1..m : Backward(s)[k] = s[m + 1 - k] /\ Backward(s)[k] \in Nat
    BY EvaluatedMakes
<1>6. Makes(Backward(g), n, Evaluated(g, b), p) /\ \A k \in 1..n : Backward(g)[k] = g[n + 1 - k] /\ Backward(g)[k] \in Nat
    BY EvaluatedMakes
<1>7. Makes(Backward(t), n + m, Evaluated(t, b), p) /\ \A k \in 1..n + m : Backward(t)[k] = t[n + m + 1 - k]
    BY <1>1, EvaluatedMakes
<1> HIDE DEF p, m, n
<1>8. \A k \in 1..n : Backward(g)[k] = Backward(t)[k]
  <2> TAKE k \in 1..n
  <2>1. PICK i : i = n + 1 - k
      OBVIOUS
  <2>2. i \in 1..n /\ n + m + 1 - k = m + i /\ k \in 1..n + m
      BY <2>1, <1>1
  <2> QED
      BY <2>1, <2>2, <1>3, <1>6, <1>7
<1>9. \A k \in 1..m : Backward(s)[k] \in Int /\ Backward(t)[n + k] = Backward(s)[k]
  <2> TAKE k \in 1..m
  <2>1. PICK i : i = m + 1 - k
      OBVIOUS
  <2>2. i \in 1..m /\ n + m + 1 - (n + k) = i /\ n + k \in 1..n + m
      BY <2>1, <1>1
  <2>3. Backward(t)[n + k] = t[i]
      BY <2>2, <1>7
  <2> QED
      BY <2>1, <2>2, <2>3, <1>2, <1>5
<1>10. Makes(Backward(t), n, Evaluated(g, b), p)
    BY <1>1, <1>6, <1>8, MakesOther
<1>11. Continued(Backward(t), Backward(s), n, m)
    BY <1>9 DEF Continued
<1>12. Makes(Backward(t), n + m, Evaluated(g, b) + p[n] * Evaluated(s, b), p)
    BY <1>1, <1>4, <1>5, <1>10, <1>11, MakesJoined
<1>13. Evaluated(t, b) = Evaluated(g, b) + p[n] * Evaluated(s, b)
  <2>1. n + m \in Nat
      BY <1>1
  <2> QED
      BY <2>1, <1>7, <1>12, MakesSame
<1>14. Evaluated(g, b) \in Int /\ Evaluated(s, b) \in Int
    BY <1>1, <1>5, <1>6, MakesWhole
<1>15. p[n] = Power(b, n) /\ Power(b, n) \in Nat
  <2>1. p[n] = Power(b, n)
      BY <1>1 DEF p, Powered
  <2> QED
      BY <2>1, <1>1, PowerNext
<1> QED
    BY <1>13, <1>14, <1>15 DEF t, n

\* No digit, one digit.
LEMMA EvaluatedNothing == ASSUME NEW b \in Nat PROVE Evaluated(<<>>, b) = 0
<1>1. <<>> \in Seq(Nat) /\ Len(<<>>) = 0
    BY EmptySeq
<1>2. PICK f : EvaluatedBy(f, <<>>, b) /\ Evaluated(<<>>, b) = f[Len(<<>>)]
    BY <1>1, EvaluatedChain
<1> QED
    BY <1>1, <1>2 DEF EvaluatedBy

LEMMA EvaluatedSingle == ASSUME NEW b \in Nat, NEW x \in Nat PROVE Evaluated(<<x>>, b) = x
<1> DEFINE s == <<x>>
<1>1. s \in Seq(Nat) /\ Len(s) = 1 /\ s[1] = x
    OBVIOUS
<1> HIDE DEF s
<1>2. PICK f : EvaluatedBy(f, s, b) /\ Evaluated(s, b) = f[Len(s)]
    BY <1>1, EvaluatedChain
<1>3. f[0] = 0 /\ f[1] = b * f[0] + s[1]
    BY <1>1, <1>2 DEF EvaluatedBy
<1> QED
    BY <1>1, <1>2, <1>3 DEF s

\* One more digit.
LEMMA EvaluatedAppend ==
    ASSUME NEW b \in Nat, b >= 2, NEW s \in Seq(Nat), NEW x \in Nat
    PROVE  Evaluated(Append(s, x), b) = b * Evaluated(s, b) + x /\ Evaluated(s, b) \in Int
<1> DEFINE g == <<x>>
<1>1. g \in Seq(Nat) /\ Len(g) = 1 /\ Append(s, x) = s \o g
    OBVIOUS
<1>2. Evaluated(g, b) = x
    BY EvaluatedSingle
<1> HIDE DEF g
<1>3. /\ Evaluated(s \o g, b) = Evaluated(s, b) * Power(b, 1) + Evaluated(g, b)
      /\ Evaluated(s, b) \in Int
    BY <1>1, EvaluatedJoined
<1>4. Power(b, 1) = b
  <2>1. Power(b, 0) = 1 /\ Power(b, 0 + 1) = b * Power(b, 0)
      BY PowerNext
  <2> QED
      BY <2>1
<1> QED
    BY <1>1, <1>2, <1>3, <1>4

\* Leading zeros add nothing.
LEMMA EvaluatedZeros ==
    ASSUME NEW b \in Nat, b >= 2, NEW n \in Nat, NEW g \in Seq(Nat)
    PROVE  Evaluated([i \in 1..n |-> 0] \o g, b) = Evaluated(g, b)
<1> DEFINE s == [i \in 1..n |-> 0]
<1>1. s \in Seq(Nat) /\ Len(s) = n
    OBVIOUS
<1>2. Makes(Backward(s), n, Evaluated(s, b), Powered(b)) /\ \A k \in 1..n : Backward(s)[k] = s[n + 1 - k]
    BY <1>1, EvaluatedMakes
<1>3. \A k \in 1..n : Backward(s)[k] = 0
  <2> TAKE k \in 1..n
  <2>1. n + 1 - k \in 1..n
      OBVIOUS
  <2> QED
      BY <2>1, <1>2
<1> HIDE DEF s
<1>4. Makes(Backward(s), n, 0, Powered(b))
    BY <1>3, MakesZero, PowerWeights
<1>5. Evaluated(s, b) = 0
    BY <1>2, <1>4, MakesSame
<1>6. /\ Evaluated(s \o g, b) = Evaluated(s, b) * Power(b, Len(g)) + Evaluated(g, b)
      /\ Evaluated(g, b) \in Int /\ Power(b, Len(g)) \in Nat
    BY <1>1, EvaluatedJoined
<1> QED
    BY <1>5, <1>6 DEF s

\* Digits are numbers.
LEMMA DigitsWhole ==
    ASSUME NEW b \in Nat, NEW s \in Seq(0..b - 1)
    PROVE  s \in Seq(Nat)
<1>1. Len(s) \in Nat /\ \A i \in 1..Len(s) : s[i] \in Nat
    OBVIOUS
<1>2. s = [i \in 1..Len(s) |-> s[i]]
    OBVIOUS
<1> QED
    BY <1>1, <1>2, Listed

\* A prefix in two parts.
LEMMA TwoParts ==
    ASSUME NEW S, NEW s \in Seq(S), NEW m \in 0..Len(s), NEW l \in m..Len(s)
    PROVE  SubSeq(s, 1, l) = SubSeq(s, 1, m) \o SubSeq(s, m + 1, l)
<1>1. Len(s) \in Nat /\ m \in Nat /\ l \in Nat /\ m <= l /\ l <= Len(s) /\ l \in 0..Len(s)
    OBVIOUS
<1> DEFINE x == SubSeq(s, 1, l)
           y == SubSeq(s, 1, m)
           z == SubSeq(s, m + 1, l)
<1>2. x \in Seq(S) /\ Len(x) = l /\ \A i \in 1..l : x[i] = s[i]
    BY <1>1, Prefix
<1>3. y \in Seq(S) /\ Len(y) = m /\ \A i \in 1..m : y[i] = s[i]
    BY Prefix
<1>4. z \in Seq(S) /\ Len(z) = l - m /\ \A i \in 1..l - m : z[i] = s[m + i]
  <2>1. \A i \in m + 1..l : s[i] \in S
      BY <1>1
  <2>2. m + 1 \in Int /\ l \in Int
      BY <1>1
  <2>3. /\ z \in Seq(S) /\ Len(z) = IF m + 1 <= l THEN l - (m + 1) + 1 ELSE 0
        /\ \A i \in 1..l - (m + 1) + 1 : z[i] = s[(m + 1) + i - 1]
      BY <2>1, <2>2, SubSeqProperties
  <2> HIDE DEF z
  <2>4. l - (m + 1) + 1 = l - m /\ (IF m + 1 <= l THEN l - (m + 1) + 1 ELSE 0) = l - m
      BY <1>1
  <2>5. \A i \in 1..l - m : (m + 1) + i - 1 = m + i
      BY <1>1
  <2> QED
      BY <2>3, <2>4, <2>5
<1> HIDE DEF x, y, z
<1>5. y \o z \in Seq(S) /\ Len(y \o z) = l
    BY <1>1, <1>3, <1>4, ConcatProperties
<1>6. \A i \in 1..l : (y \o z)[i] = x[i]
  <2> TAKE i \in 1..l
  <2>1. CASE i <= m
    <3>1. i \in 1..m
        BY <2>1, <1>1
    <3>2. (y \o z)[i] = y[i]
        BY <3>1, <1>3, <1>4, ConcatProperties
    <3> QED
        BY <3>1, <3>2, <1>2, <1>3
  <2>2. CASE ~ (i <= m)
    <3>1. PICK k : k = i - m
        OBVIOUS
    <3>2. k \in 1..l - m /\ i = m + k
        BY <2>2, <3>1, <1>1
    <3>3. (y \o z)[m + k] = z[k]
        BY <3>2, <1>3, <1>4
    <3> QED
        BY <3>2, <3>3, <1>2, <1>4
  <2> QED
      BY <2>1, <2>2
<1>7. x = y \o z
    BY <1>2, <1>5, <1>6, SeqEqual
<1> QED
    BY <1>7 DEF x, y, z

\* The groups that a string of decimal digits is read in.
LEMMA GroupAt ==
    ASSUME NEW S, NEW s \in Seq(S), NEW k \in Nat \ {0}, NEW i \in 1..(Len(s) + k - 1) \div k
    PROVE  LET g == SubSeq(s, (i - 1) * k + 1, Min({i * k, Len(s)}))
           IN  /\ g \in Seq(S) /\ Len(g) <= k
               /\ Min({(i - 1) * k, Len(s)}) \in Nat
               /\ Min({i * k, Len(s)}) = Min({(i - 1) * k, Len(s)}) + Len(g)
               /\ SubSeq(s, 1, Min({i * k, Len(s)})) = SubSeq(s, 1, Min({(i - 1) * k, Len(s)})) \o g
<1> DEFINE n == Len(s)
           all == n + k - 1
           m == all \div k
           x == (i - 1) * k
           y == i * k
           lo == x + 1
           hi == Min({y, n})
           g == SubSeq(s, lo, hi)
<1>0. n \in Nat /\ all \in Nat /\ m \in Nat /\ i \in Nat /\ i <= m /\ i >= 1
  <2>1. all \in Nat /\ n \in Nat
      OBVIOUS
  <2> HIDE DEF all
  <2>2. m \in 0..all
      BY <2>1, Natural
  <2> HIDE DEF m
  <2>3. m \in Nat
      BY <2>1, <2>2
  <2> QED
      BY <2>1, <2>3 DEF m, all
<1>1. x \in Nat /\ y = x + k /\ y \in Nat
  <2>1. k * i = k * (i - 1) + k * 1 /\ k * i = i * k /\ k * (i - 1) = (i - 1) * k /\ (i - 1) * k \in Nat
      BY <1>0
  <2> QED
      BY <2>1
<1>2. y <= all
  <2> HIDE DEF all
  <2>1. all = k * m + (all % k) /\ all % k \in 0..k - 1
    <3>1. all \in Int
        BY <1>0
    <3> QED
        BY <3>1, Division, Zenon
  <2>2. k * i <= k * m /\ k * i = y /\ k * m \in Nat
      BY <1>0, Monotone
  <2> DEFINE e == all % k
             u == k * m
  <2> HIDE DEF e, u, y, m
  <2>3. e \in Nat /\ all = u + e /\ y <= u /\ u \in Nat
      BY <2>1, <2>2 DEF e, u, m
  <2> QED
      BY <2>3, <1>0, <1>1
<1>3. x < n
  <2> HIDE DEF x, y
  <2> QED
      BY <1>0, <1>1, <1>2
<1>4. hi \in {y, n} /\ hi <= y /\ hi <= n
    BY <1>0, <1>1, Smaller2
<1>5. Min({x, n}) = x
  <2>1. Min({x, n}) \in {x, n} /\ Min({x, n}) <= n /\ Min({x, n}) <= x
      BY <1>0, <1>1, Smaller2
  <2> HIDE DEF x, n
  <2> QED
      BY <2>1, <1>0, <1>1, <1>3
<1> HIDE DEF x, y, hi
<1>6. lo \in Int /\ lo >= 1 /\ hi <= lo + k - 1 /\ hi \in Nat /\ lo <= hi /\ hi - lo + 1 = hi - x
    BY <1>0, <1>1, <1>3, <1>4
<1>7. \A j \in lo..hi : s[j] \in S
  <2> HIDE DEF lo
  <2> QED
      BY <1>0, <1>4, <1>6
<1>10. SubSeq(s, 1, hi) = SubSeq(s, 1, x) \o g
  <2>1. x \in 0..n /\ hi \in x..n
      BY <1>0, <1>1, <1>3, <1>4, <1>6
  <2> QED
      BY <2>1, TwoParts
<1> HIDE DEF lo
<1>8. g \in Seq(S) /\ Len(g) = IF lo <= hi THEN hi - lo + 1 ELSE 0
    BY <1>6, <1>7, SubSeqProperties
<1> HIDE DEF g, n
<1>9. g \in Seq(S) /\ Len(g) <= k /\ hi = x + Len(g) /\ x \in Nat
    BY <1>1, <1>6, <1>8
<1> QED
    BY <1>5, <1>9, <1>10 DEF g, lo, hi, x, y, n

\* The groups are all of the string.
LEMMA GroupsCover ==
    ASSUME NEW n \in Nat, NEW k \in Nat \ {0}
    PROVE  Min({((n + k - 1) \div k) * k, n}) = n
<1>1. PICK all : all = n + k - 1
    OBVIOUS
<1>2. PICK m : m = all \div k
    OBVIOUS
<1>3. PICK e : e = all % k
    OBVIOUS
<1>4. all \in Nat /\ all \in Int
    BY <1>1
<1>5. e \in 0..k - 1 /\ m \in Int /\ all = k * m + e
    BY <1>2, <1>3, <1>4, Division
<1>6. m \in Nat
  <2>1. m \in 0..all
      BY <1>2, <1>4, Natural
  <2> QED
      BY <2>1, <1>4
<1>7. PICK y : y = m * k
    OBVIOUS
<1>8. y \in Nat /\ y = k * m
    BY <1>6, <1>7
<1>9. n <= y
    BY <1>1, <1>5, <1>8
<1>10. Min({y, n}) \in {y, n} /\ Min({y, n}) <= y /\ Min({y, n}) <= n
    BY <1>8, Smaller2
<1>11. Min({y, n}) = n
    BY <1>8, <1>9, <1>10
<1> QED
    BY <1>1, <1>2, <1>7, <1>11

\* a are the digits of the number s stands for.
ReadDecimal(a, s) ==
    /\ a \in Seq(Digit) /\ Leading(a)
    /\ Worth(a, Powered(BASE), Evaluated(s, 10))
    /\ Evaluated(s, 10) < Power(10, Len(s))

\* Every group is multiplied in: the digits are those of the number, without leading zeros.
LEMMA FromDigitsAre ==
    ASSUME NEW s \in Seq(0..9)
    PROVE  ReadDecimal(FromDigits(s, 10), s)
<1> DEFINE k == convwidth(10)
           L == Len(s)
           Done(i) == Min({i * k, L})
           Group(i) == SubSeq(s, (i - 1) * k + 1, Done(i))
           n == (L + k - 1) \div k
           E(i, y) == MultiplyAdd(y, Power(10, Len(Group(i))), Evaluated(Group(i), 10))
           G == [i \in 0 + 1..n |-> [y \in Seq(Digit) |-> E(i, y)]]
           Is(f) == f = [i \in 0..n |-> IF i = 0 THEN <<>> ELSE E(i, f[i - 1])]
           h == CHOOSE f : Is(f)
           p == Powered(BASE)
<1>1. FromDigits(s, 10) = h[n]
    BY DEF FromDigits
<1>2. k \in Nat \ {0} /\ Power(10, k) <= BASE /\ L \in Nat
    BY ConvwidthIs, DigitSizes
<1>3. n \in Nat /\ n \in Int /\ 0 \in Int /\ 0 <= n /\ <<>> \in Seq(Digit)
  <2>1. L + k - 1 \in Nat
      BY <1>2
  <2> HIDE DEF k, L
  <2>2. n \in 0..L + k - 1
      BY <2>1, <1>2, Natural
  <2>3. <<>> \in Seq(Digit)
      BY EmptySeq
  <2> QED
      BY <2>1, <2>2, <2>3
<1>4. Weights(p, BASE)
    BY PowerWeights, DigitSizes
<1>5. ASSUME NEW i \in 1..n
      PROVE  LET g == Group(i)
             IN  /\ g \in Seq(0..9) /\ Len(g) \in Nat /\ Len(g) <= k
                 /\ Done(i - 1) \in Nat /\ Done(i) = Done(i - 1) + Len(g)
                 /\ SubSeq(s, 1, Done(i)) = SubSeq(s, 1, Done(i - 1)) \o g
  <2> DEFINE g == Group(i)
  <2>1. i \in 1..(Len(s) + k - 1) \div k
      OBVIOUS
  <2> HIDE DEF k
  <2>2. /\ g \in Seq(0..9) /\ Len(g) <= k /\ Done(i - 1) \in Nat /\ Done(i) = Done(i - 1) + Len(g)
        /\ SubSeq(s, 1, Done(i)) = SubSeq(s, 1, Done(i - 1)) \o g
      BY <2>1, <1>2, GroupAt
  <2> HIDE DEF g, Done
  <2>3. Len(g) \in Nat
      BY <2>2
  <2> QED
      BY <2>2, <2>3 DEF g
<1>6. Done(0) = 0 /\ Done(n) = L
  <2>1. 0 * k = 0 /\ n * k \in Nat
    <3> HIDE DEF k, n
    <3> QED
        BY <1>2, <1>3
  <2> DEFINE y == n * k
             z == 0 * k
  <2> HIDE DEF y, z, L
  <2>2. y \in Nat /\ z = 0 /\ z \in Nat
      BY <2>1 DEF y, z
  <2>3. Min({y, L}) \in {y, L} /\ Min({y, L}) <= L /\ Min({z, L}) <= z /\ Min({z, L}) \in {z, L}
      BY <2>2, <1>2, Smaller2
  <2>4. Min({z, L}) = 0
      BY <2>2, <2>3, <1>2
  <2>5. Min({y, L}) = L
      BY <1>2, GroupsCover DEF y
  <2> QED
      BY <2>4, <2>5 DEF y, z
<1>22. \A i \in 0..n : Done(i) \in 0..Len(s)
  <2> TAKE i \in 0..n
  <2>1. i * k \in Nat
    <3> HIDE DEF k, n
    <3> QED
        BY <1>2, <1>3
  <2> DEFINE y == i * k
  <2> HIDE DEF y, L
  <2>2. y \in Nat
      BY <2>1 DEF y
  <2>3. Min({y, L}) \in {y, L} /\ Min({y, L}) <= L
      BY <2>2, <1>2, Smaller2
  <2>4. Min({y, L}) \in 0..L
      BY <2>2, <2>3, <1>2
  <2> QED
      BY <2>4 DEF y, L
<1> HIDE DEF n, k, L, p, Done, Group
<1>7. ASSUME NEW i \in 1..n
      PROVE  LET g == Group(i)
                 m == Power(10, Len(g))
                 c == Evaluated(g, 10)
             IN  m \in 1..BASE /\ c \in 0..m - 1 /\ m \in Nat \ {0} /\ c \in Nat
  <2> DEFINE g == Group(i)
             m == Power(10, Len(g))
             c == Evaluated(g, 10)
  <2>1. g \in Seq(0..10 - 1) /\ Len(g) \in Nat /\ Len(g) <= k /\ k \in Nat
    <3>1. g \in Seq(0..9) /\ Len(g) \in Nat /\ Len(g) <= k
        BY <1>5
    <3> HIDE DEF g
    <3>2. 10 - 1 = 9 /\ k \in Nat
        BY <1>2
    <3> QED
        BY <3>1, <3>2
  <2> HIDE DEF g
  <2>3. m \in Nat /\ m <= Power(10, k)
    <3>1. \A i1, i2 \in Nat : i1 <= i2 => Power(10, i1) <= Power(10, i2)
        BY PowerGrows
    <3>2. m \in Nat
        BY <2>1, PowerNext
    <3> QED
        BY <2>1, <3>1, <3>2
  <2>4. c \in Nat /\ c < m
      BY <2>1, EvaluatedIs
  <2> HIDE DEF m, c
  <2>5. Power(10, k) \in Nat
      BY <2>1, PowerNext
  <2>6. m \in 1..BASE /\ c \in 0..m - 1 /\ m \in Nat \ {0}
      BY <2>3, <2>4, <2>5, <1>2, DigitSizes
  <2> QED
      BY <2>4, <2>6 DEF m, c, g
<1>8. ASSUME NEW i \in 1..n, NEW y \in Seq(Digit)
      PROVE  E(i, y) \in Seq(Digit)
    BY <1>7, MultiplyAddIs
<1>9. \A i : \A y : E(i, y) = MultiplyAdd(y, Power(10, Len(Group(i))), Evaluated(Group(i), 10))
    OBVIOUS
<1> HIDE DEF E
<1>10. Maps(G, 0, n, Seq(Digit))
    BY <1>3, <1>8 DEF Maps
<1>11. \A i \in 0..n : \A y \in Seq(Digit) : i # 0 => G[i][y] = E(i, y)
    BY <1>3
<1> HIDE DEF G
<1>12. PICK f : f \in [0..n -> Seq(Digit)] /\ Chained(f, 0, n, <<>>, G)
    BY <1>3, <1>10, Iteration, Zenon
<1>13. f = [i \in 0..n |-> IF i = 0 THEN <<>> ELSE G[i][f[i - 1]]]
    BY <1>12 DEF Chained
<1>14. \A i \in 0..n : i # 0 => f[i - 1] \in Seq(Digit)
    BY <1>3, <1>12
<1>15. Is(f)
    BY <1>11, <1>13, <1>14
<1>16. Is(h)
    BY <1>15
<1> HIDE DEF h
<1>21. \A i \in 0..n : SubSeq(s, 1, Done(i)) \in Seq(0..9)
  <2> TAKE i \in 0..n
  <2>1. Done(i) \in 0..Len(s)
      BY <1>22
  <2> QED
      BY <2>1, Prefix
<1> DEFINE Whole(i) == SubSeq(s, 1, Done(i))
           Fits(i) == h[i] \in Seq(Digit) /\ Leading(h[i]) /\ Worth(h[i], p, Evaluated(Whole(i), 10))
           S == {i \in 0..n : Fits(i)}
<1>17. 0 \in S
  <2>1. 0 \in 0..n
      BY <1>3
  <2>2. h[0] = <<>>
      BY <2>1, <1>16
  <2>3. Whole(0) = <<>> /\ Evaluated(<<>>, 10) = 0
    <3>1. SubSeq(s, 1, 0) = <<>>
        OBVIOUS
    <3> QED
        BY <3>1, <1>6, EvaluatedNothing
  <2>4. Worth(<<>>, p, 0) /\ Leading(<<>>)
      BY WorthNothing DEF Leading
  <2> QED
      BY <2>1, <2>2, <2>3, <2>4, <1>3
<1>18. ASSUME NEW i \in 0..n - 1, i \in S
       PROVE  i + 1 \in S
  <2> DEFINE j == i + 1
             g == Group(j)
             m == Power(10, Len(g))
             c == Evaluated(g, 10)
             y == h[i]
             x == Evaluated(Whole(i), 10)
  <2>1. j \in 0..n /\ j # 0 /\ j \in 1..n /\ j - 1 = i
      BY <1>3
  <2> HIDE DEF j
  <2>2. h[j] = MultiplyAdd(y, m, c)
      BY <2>1, <1>9, <1>16
  <2>3. Worth(y, p, x)
      BY <1>18
  <2>4. y \in Seq(Digit) /\ Leading(y)
      BY <1>18
  <2>5. m \in 1..BASE /\ c \in 0..m - 1 /\ m \in Nat \ {0} /\ c \in Nat
      BY <2>1, <1>7
  <2>6. Evaluated(Whole(j), 10) = x * m + c
    <3>1. Whole(j) = Whole(i) \o g /\ g \in Seq(0..9) /\ Done(i) \in Nat /\ Done(j) = Done(i) + Len(g) /\ Len(g) \in Nat
        BY <2>1, <1>5
    <3> HIDE DEF g
    <3>2. g \in Seq(Nat)
      <4>1. g \in Seq(0..10 - 1)
        <5>1. 10 - 1 = 9
            OBVIOUS
        <5> QED
            BY <3>1, <5>1
      <4> QED
          BY <4>1, DigitsWhole
    <3>3. Whole(i) \in Seq(Nat)
      <4>1. Whole(i) \in Seq(0..9)
        <5>1. i \in 0..n
            BY <1>3
        <5> QED
            BY <5>1, <1>21
      <4> HIDE DEF Whole
      <4>2. Whole(i) \in Seq(0..10 - 1)
        <5>1. 10 - 1 = 9
            OBVIOUS
        <5> QED
            BY <4>1, <5>1
      <4> QED
          BY <4>2, DigitsWhole
    <3> HIDE DEF Whole
    <3> QED
        BY <3>1, <3>2, <3>3, EvaluatedJoined
  <2> HIDE DEF m, c, g, y, S, x
  <2>7. Leading(h[j]) /\ Worth(h[j], p, x * m + c)
      BY <2>2, <2>3, <2>4, <2>5, <1>4, MultiplyAddWorth
  <2>8. h[j] \in Seq(Digit)
      BY <2>2, <2>4, <2>5, MultiplyAddIs
  <2> QED
      BY <2>1, <2>6, <2>7, <2>8 DEF S, j
<1> HIDE DEF S
<1>19. n \in S
  <2>1. n \in 0..n
      BY <1>3
  <2> QED
      BY <2>1, <1>3, <1>17, <1>18, Up
<1>20. Whole(n) = s /\ Evaluated(s, 10) < Power(10, Len(s))
  <2>1. SubSeq(s, 1, L) = s
      BY DEF L
  <2>2. s \in Seq(0..10 - 1)
    <3>1. 10 - 1 = 9
        OBVIOUS
    <3> QED
        BY <3>1
  <2>3. Evaluated(s, 10) < Power(10, Len(s))
      BY <2>2, EvaluatedIs
  <2> QED
      BY <2>1, <2>3, <1>6
<1> QED
    BY <1>1, <1>19, <1>20 DEF S, p, ReadDecimal

LEMMA PoweredWeight == Powered(BASE) = Weight
<1> DEFINE S == {i \in Nat : Power(BASE, i) = Place(i)}
<1>1. Weights(Powered(BASE), BASE) /\ Weights(Weight, BASE)
    BY PowerWeights, WeightIs, DigitSizes
<1>2. \A i \in Nat : Powered(BASE)[i] = Power(BASE, i) /\ Weight[i] = Place(i)
    BY DEF Powered, Weight
<1>3. 0 \in S
    BY <1>1, <1>2 DEF Weights
<1>4. ASSUME NEW i \in Nat, i \in S
      PROVE  i + 1 \in S
  <2>1. /\ Powered(BASE)[i + 1] = BASE * Powered(BASE)[i]
        /\ Weight[i + 1] = BASE * Weight[i]
      BY <1>1 DEF Weights
  <2>2. i + 1 \in Nat /\ Powered(BASE)[i] = Weight[i]
      BY <1>2, <1>4
  <2> QED
      BY <2>1, <2>2, <1>2
<1> HIDE DEF S
<1>5. \A i \in Nat : i \in S
    BY <1>3, <1>4, Induction
<1>6. \A i \in Nat : Power(BASE, i) = Place(i)
    BY <1>5 DEF S
<1> QED
    BY <1>6 DEF Powered, Weight

\* FromDigits reads a decimal literal.
LEMMA DecimalValue ==
    ASSUME NEW s \in Seq(0..9)
    PROVE  FromDigits(s, 10) \in Seq(Digit) /\ ValueOf(FromDigits(s, 10)) = Evaluated(s, 10)
<1>1. PICK a : a = FromDigits(s, 10)
    OBVIOUS
<1>2. a \in Seq(Digit) /\ Worth(a, Powered(BASE), Evaluated(s, 10))
    BY <1>1, FromDigitsAre DEF ReadDecimal
<1>3. Makes(a, Len(a), Evaluated(s, 10), Powered(BASE))
    BY <1>2 DEF Worth, Makes
<1>4. Makes(a, Len(a), ValueOf(a), Weight)
    BY <1>2, ValueMakes
<1>5. Powered(BASE) = Weight
    BY PoweredWeight
<1>6. Len(a) \in Nat
    BY <1>2
<1>7. ValueOf(a) = Evaluated(s, 10)
    BY <1>3, <1>4, <1>5, <1>6, MakesSame
<1> QED
    BY <1>1, <1>2, <1>7

\* There is a digit for every power of BASE up to that number.
LEMMA DecimalRoom ==
    ASSUME NEW s \in Seq(0..9)
    PROVE  Len(FromDigits(s, 10)) <= DecimalSize(Len(s), 10)
<1> DEFINE a == FromDigits(s, 10)
           L == Len(s)
           g == Len(a)
           y == Power(10, L)
           Fit(k) == Power(10, L) \div Power(BASE, k) \in 1..MASK
           K == CHOOSE k \in 0..L : Fit(k)
           T == {i \in Nat : y < Power(BASE, i + 1)}
<1>0. ReadDecimal(a, s)
    BY FromDigitsAre, Zenon
<1> HIDE DEF a
<1>1. PICK x : Worth(a, Powered(BASE), x) /\ x < Power(10, Len(s))
    BY <1>0 DEF ReadDecimal
<1>2. a \in Seq(Digit) /\ Leading(a)
    BY <1>0 DEF ReadDecimal
<1>3. Weights(Powered(BASE), BASE) /\ BASE \in Nat /\ BASE >= 16 /\ MASK = BASE - 1
    BY PowerWeights, DigitSizes
<1>4. L \in Nat /\ y \in Nat /\ g \in Nat
  <2>1. L \in Nat /\ g \in Nat
      BY <1>2
  <2> QED
      BY <2>1, PowerNext
<1>5. \A i \in Nat : /\ Power(BASE, i) \in Nat \ {0} /\ Power(BASE, i + 1) = BASE * Power(BASE, i)
                     /\ \A j \in Nat : i <= j => Power(BASE, i) <= Power(BASE, j)
  <2> TAKE i \in Nat
  <2>1. Power(BASE, i) >= 2^i /\ 2^i \in Nat \ {0} /\ Power(BASE, i) \in Nat /\ Power(BASE, i + 1) = BASE * Power(BASE, i)
    <3>1. 2^i \in Nat \ {0}
        BY Powers
    <3>2. Power(BASE, i) >= 2^i
        BY <1>3, PowerGrows
    <3>3. Power(BASE, i) \in Nat /\ Power(BASE, i + 1) = BASE * Power(BASE, i)
        BY <1>3, PowerNext
    <3> QED
        BY <3>1, <3>2, <3>3
  <2>2. \A j \in Nat : i <= j => Power(BASE, i) <= Power(BASE, j)
      BY <1>3, PowerGrows
  <2>3. Power(BASE, i) \in Nat \ {0}
      BY <2>1
  <2> QED
      BY <2>1, <2>2, <2>3
<1>6. \A i \in Nat : Power(10, i) < Power(BASE, i + 1)
  <2> DEFINE S == {i \in Nat : Power(10, i) < Power(BASE, i + 1)}
  <2>1. 0 \in S
    <3>1. Power(10, 0) = 1 /\ Power(BASE, 0) = 1
        BY <1>3, PowerNext
    <3>2. Power(BASE, 0 + 1) = BASE * 1
        BY <3>1, <1>5
    <3> QED
        BY <3>1, <3>2, <1>3
  <2>2. ASSUME NEW i \in Nat, i \in S
        PROVE  i + 1 \in S
    <3> DEFINE u == Power(10, i)
               z == Power(BASE, i + 1)
    <3>1. i + 1 \in Nat /\ u \in Nat /\ Power(10, i + 1) = 10 * u /\ z \in Nat /\ Power(BASE, i + 1 + 1) = BASE * z /\ u < z
        BY <1>5, <2>2, PowerNext
    <3> HIDE DEF u, z, S
    <3>2. z * 10 <= z * BASE /\ z * BASE = BASE * z /\ BASE * z \in Nat
        BY <3>1, <1>3, Monotone
    <3>3. 10 * u < BASE * z
        BY <3>1, <3>2
    <3> QED
        BY <3>1, <3>3 DEF S
  <2> HIDE DEF S
  <2>3. \A i \in Nat : i \in S
      BY <2>1, <2>2, Induction
  <2> QED
      BY <2>3 DEF S
<1>7. L \in T
    BY <1>4, <1>6
<1>8. PICK k \in T : \A j \in T : k <= j
  <2>1. T \in SUBSET Nat /\ T # {}
      BY <1>7
  <2> HIDE DEF T
  <2> QED
      BY <2>1, Least
<1>9. k \in 0..L /\ k \in Nat
    BY <1>4, <1>7, <1>8
<1> HIDE DEF y
<1>10. Power(BASE, k) <= y /\ y < BASE * Power(BASE, k)
  <2>1. y < BASE * Power(BASE, k)
      BY <1>5, <1>8, <1>9
  <2>2. CASE k = 0
    <3>1. Power(BASE, k) = 1
        BY <2>2, <1>3, PowerNext
    <3>2. y >= 2^L /\ 2^L \in Nat \ {0}
        BY <1>4, PowerGrows, Powers DEF y
    <3>3. 1 <= y
        BY <3>2, <1>4
    <3> QED
        BY <3>1, <3>3, <2>1
  <2>3. CASE k # 0
    <3>0. k - 1 \in Nat /\ k - 1 + 1 = k /\ ~ (k <= k - 1)
        BY <2>3, <1>9
    <3>1. k - 1 \in Nat /\ k - 1 \notin T /\ k - 1 + 1 = k
      <4>1. k - 1 \notin T
          BY <3>0, <1>8
      <4> QED
          BY <3>0, <4>1
    <3>2. ~ (y < Power(BASE, k))
        BY <3>1
    <3>3. Power(BASE, k) \in Nat
        BY <1>5, <1>9
    <3> QED
        BY <3>2, <3>3, <2>1, <1>4
  <2> QED
      BY <2>2, <2>3
<1>11. Fit(k)
  <2> DEFINE z == Power(BASE, k)
             e == y \div z
  <2>1. z \in Nat \ {0} /\ z <= y /\ y < BASE * z
      BY <1>5, <1>9, <1>10
  <2> HIDE DEF z
  <2>2. e \in Int /\ y % z \in 0..z - 1 /\ y = z * e + (y % z)
      BY <2>1, <1>4, Division
  <2> DEFINE u == y % z
  <2> HIDE DEF e, u
  <2>3. e \in Int /\ u \in Nat /\ u < z /\ y = z * e + u
      BY <2>1, <2>2 DEF u
  <2>4. 1 <= e
    <3> SUFFICES ASSUME e <= 0
                 PROVE  FALSE
        BY <2>3
    <3>1. z * e <= z * 0 /\ z * 0 = 0 /\ z * e \in Int
        BY <2>1, <2>3
    <3> DEFINE b == z * e
    <3> HIDE DEF b
    <3>2. b \in Int /\ b <= 0 /\ y = b + u
        BY <3>1, <2>3 DEF b
    <3> QED
        BY <3>2, <2>1, <2>3
  <2>5. e < BASE
    <3> SUFFICES ASSUME BASE <= e
                 PROVE  FALSE
        BY <2>3, <1>3
    <3>1. z * BASE <= z * e /\ z * e \in Int /\ BASE * z = z * BASE
        BY <2>1, <2>3, <1>3, Monotone
    <3> DEFINE b == z * e
               c == BASE * z
    <3> HIDE DEF b, c
    <3>2. b \in Int /\ c \in Int /\ c <= b /\ y = b + u /\ y < c
        BY <3>1, <2>1, <2>3, <1>3 DEF b, c
    <3> QED
        BY <3>2, <2>3, <1>3, <1>4
  <2>6. e \in 1..MASK
      BY <2>3, <2>4, <2>5, <1>3
  <2> QED
      BY <2>6 DEF e, z, y
<1>12. K \in 0..L /\ Fit(K)
    BY <1>9, <1>11
<1>13. DecimalSize(Len(s), 10) = 1 + K
    BY DEF DecimalSize
<1> HIDE DEF K, T
<1>14. K \in Nat /\ y < Power(BASE, K + 1)
  <2> DEFINE z == Power(BASE, K)
             e == y \div z
  <2>1. K \in Nat /\ z \in Nat \ {0} /\ Power(BASE, K + 1) = BASE * z /\ e \in 1..MASK
    <3>1. K \in Nat
        BY <1>4, <1>12
    <3> QED
        BY <3>1, <1>5, <1>12 DEF y
  <2> HIDE DEF z
  <2>2. y % z \in 0..z - 1 /\ y = z * e + (y % z)
    <3>1. y \in Int
        BY <1>4
    <3> QED
        BY <3>1, <2>1, Division, Zenon
  <2> DEFINE u == y % z
  <2> HIDE DEF e, u
  <2>3. e \in Nat /\ e + 1 <= BASE /\ u \in Nat /\ u < z /\ y = z * e + u
      BY <2>1, <2>2, <1>3 DEF u
  <2>4. z * (e + 1) <= z * BASE /\ z * (e + 1) = z * e + z /\ z * BASE = BASE * z /\ z * e \in Nat
      BY <2>1, <2>3, <1>3, Monotone
  <2> DEFINE b == z * e
             c == BASE * z
  <2> HIDE DEF b, c
  <2>5. b \in Nat /\ c \in Int /\ b + z <= c /\ y = b + u
      BY <2>1, <2>3, <2>4, <1>3 DEF b, c
  <2>6. y < c
      BY <2>1, <2>3, <2>5, <1>3
  <2> QED
      BY <2>1, <2>6 DEF c
<1>15. ASSUME g # 0
       PROVE  g <= 1 + K
  <2>1. a # <<>>
      BY <1>15, <1>2
  <2>2. x \in Nat /\ g - 1 \in Nat /\ Powered(BASE)[g - 1] <= x
      BY <2>1, <1>1, <1>2, <1>3, WorthAbove
  <2>3. Power(BASE, g - 1) <= x
      BY <2>2 DEF Powered
  <2> HIDE DEF g
  <2> SUFFICES ASSUME 1 + K < g
               PROVE  FALSE
      BY <1>4, <1>14
  <2>4. K + 1 \in Nat /\ K + 1 <= g - 1
      BY <1>4, <1>14
  <2>5. Power(BASE, K + 1) <= Power(BASE, g - 1)
      BY <2>2, <2>4, <1>5
  <2>6. x < y
      BY <1>1 DEF y
  <2>7. Power(BASE, K + 1) \in Nat /\ Power(BASE, g - 1) \in Nat
      BY <2>2, <2>4, <1>5
  <2> QED
      BY <2>2, <2>3, <2>5, <2>6, <2>7, <1>4, <1>14
<1> HIDE DEF g
<1>16. g <= 1 + K
    BY <1>4, <1>14, <1>15
<1> QED
    BY <1>13, <1>16 DEF g, a

\* The carry out of the top place is one place more, or two.
Pushed(s, hi, b) ==
    IF hi >= b THEN s \o <<hi % b, hi \div b>> ELSE IF hi > 0 THEN Append(s, hi) ELSE s

LEMMA PushWorth ==
    ASSUME NEW b \in Nat, b >= 2, NEW p, Weights(p, b), NEW s, NEW z, Worth(s, p, z),
           NEW hi \in Nat, hi = 0 => Leading(s), NEW t, t = Pushed(s, hi, b)
    PROVE  Leading(t) /\ Worth(t, p, z + hi * p[Len(s)])
<1> DEFINE n == Len(s)
<1>1. s \in Seq(Nat) /\ n \in Nat
    BY DEF Worth
<1>2. p[n] \in Nat \ {0} /\ p[n + 1] = b * p[n]
    BY <1>1 DEF Weights
<1>3. z \in Nat
    BY WorthAbove
<1>4. ASSUME NEW a, a \in Seq(Nat), NEW y \in Nat, y # 0
      PROVE  Leading(Append(a, y))
  <2>1. Len(Append(a, y)) = Len(a) + 1 /\ Append(a, y)[Len(a) + 1] = y
      BY <1>4
  <2> QED
      BY <2>1, <1>4 DEF Leading
<1>5. CASE hi = 0
  <2>1. t = s
      BY <1>5 DEF Pushed
  <2>2. 0 * p[n] = 0 /\ z + 0 = z
      BY <1>2, <1>3
  <2> QED
      BY <2>1, <2>2, <1>5
<1>6. CASE hi > 0 /\ ~ (hi >= b)
  <2>1. t = Append(s, hi)
      BY <1>6 DEF Pushed
  <2>2. Worth(t, p, z + hi * p[n])
      BY <2>1, WorthAppend, Zenon
  <2>3. hi # 0
      BY <1>6
  <2>4. Leading(t)
      BY <2>1, <2>3, <1>1, <1>4
  <2> QED
      BY <2>2, <2>4
<1>7. CASE hi >= b
  <2> DEFINE lo == hi % b
             up == hi \div b
             u == Append(s, lo)
             m == p[n]
  <2>1. lo \in Nat /\ up \in Nat /\ hi = b * up + lo /\ lo < b
    <3>1. lo \in 0..b - 1 /\ up \in Int /\ hi = b * up + lo
      <4>1. hi \in Int /\ b \in Nat \ {0}
          OBVIOUS
      <4> QED
          BY <4>1, Division, Zenon
    <3>2. up \in 0..hi
        BY Natural
    <3> HIDE DEF lo, up
    <3> QED
        BY <3>1, <3>2
  <2>2. up # 0
    <3> HIDE DEF lo, up
    <3> SUFFICES ASSUME up = 0
                 PROVE  FALSE
        OBVIOUS
    <3>1. b * up = 0
        OBVIOUS
    <3> QED
        BY <3>1, <2>1, <1>7
  <2>3. t = Append(u, up)
    <3>1. t = s \o <<lo, up>>
        BY <1>7 DEF Pushed
    <3> HIDE DEF lo, up
    <3>2. s \o <<lo, up>> = Append(Append(s, lo), up)
        BY <1>1, <2>1
    <3> QED
        BY <3>1, <3>2
  <2> HIDE DEF lo, up
  <2>4. u \in Seq(Nat) /\ Len(u) = n + 1
      BY <1>1, <2>1
  <2>5. Worth(u, p, z + lo * m)
      BY <2>1, WorthAppend
  <2>6. Worth(t, p, z + lo * m + up * p[n + 1])
    <3> HIDE DEF u, m
    <3> QED
        BY <2>1, <2>3, <2>4, <2>5, WorthAppend
  <2>7. z + lo * m + up * p[n + 1] = z + hi * m
    <3>1. m \in Nat /\ p[n + 1] = b * m
        BY <1>2
    <3> HIDE DEF m
    <3>2. (b * up + lo) * m = up * (b * m) + lo * m /\ up * (b * m) \in Nat /\ lo * m \in Nat
        BY <3>1, <2>1
    <3> DEFINE i == up * (b * m)
               j == lo * m
               k == hi * m
    <3>3. i \in Nat /\ j \in Nat /\ k = i + j /\ up * p[n + 1] = i
        BY <3>1, <3>2, <2>1
    <3> HIDE DEF i, j, k
    <3> QED
        BY <3>3, <1>3 DEF j, k
  <2>8. Leading(t)
      BY <2>1, <2>2, <2>3, <2>4, <1>4
  <2> QED
      BY <2>6, <2>7, <2>8
<1> QED
    BY <1>5, <1>6, <1>7

LEMMA StepWorth ==
    ASSUME NEW b \in Nat, b >= 2, NEW p, Weights(p, b), NEW a, NEW x, Worth(a, p, x), Leading(a),
           NEW m \in Nat \ {0}, NEW c \in Nat, NEW h, Multiplying(h, a, m, c, b),
           NEW s, s \in Seq(Nat), Len(s) = Len(a), CutIn(s, h, Len(a), b), NEW t, t = Pushed(s, h[Len(a)] \div b, b)
    PROVE  Leading(t) /\ Worth(t, p, x * m + c)
<1> DEFINE n == Len(a)
           hi == h[n] \div b
<1>1. a \in Seq(Nat) /\ n \in Nat /\ b \in Nat \ {0} /\ m \in Nat
    BY DEF Worth
<1>5. /\ hi \in Nat /\ (hi = 0 => Leading(s))
      /\ \E z \in Nat : Worth(s, p, z) /\ z + hi * p[n] = x * m + c
  <2>1. PICK k : k = h[Len(a)] \div b
      OBVIOUS
  <2>2. /\ k \in Nat /\ (k = 0 => Leading(s))
        /\ \E z \in Nat : Worth(s, p, z) /\ z + k * p[Len(a)] = x * m + c
      BY <2>1, <1>1, MultipliedIs
  <2> QED
      BY <2>1, <2>2
<1>6. PICK z \in Nat : Worth(s, p, z) /\ z + hi * p[n] = x * m + c
    BY <1>5
<1>7. Leading(t) /\ Worth(t, p, z + hi * p[Len(s)])
    BY <1>5, <1>6, PushWorth, Zenon
<1> QED
    BY <1>6, <1>7

LEMMA NothingValue == ValueOf(<<>>) = 0
<1>1. PICK a : a = <<>>
    OBVIOUS
<1>2. a \in Seq(Digit) /\ Len(a) = 0 /\ \A k \in 1..Len(a) : a[k] = a[k]
    BY <1>1
<1>3. Makes(a, Len(a), 0, Weight)
    BY <1>2, MakesNothing
<1> QED
    BY <1>1, <1>2, <1>3, MakesValue

LEMMA EachDigit == ASSUME NEW a \in Seq(Digit) PROVE \A k \in 1..Len(a) : a[k] \in Digit
OBVIOUS

\* One vector of digits above another.
LEMMA JoinedValue ==
    ASSUME NEW a \in Seq(Digit), NEW c \in Seq(Digit)
    PROVE  /\ a \o c \in Seq(Digit) /\ Len(a \o c) = Len(a) + Len(c)
           /\ ValueOf(a \o c) = ValueOf(a) + Weight[Len(a)] * ValueOf(c)
<1>1. a \o c \in Seq(Digit) /\ Len(a \o c) = Len(a) + Len(c)
    BY ConcatProperties
<1>2. Len(a) \in Nat /\ Len(c) \in Nat
    OBVIOUS
<1>3. \A k \in 1..Len(a) : a[k] = (a \o c)[k]
    OBVIOUS
<1>4. \A k \in 1..Len(c) : c[k] \in Int /\ (a \o c)[Len(a) + k] = c[k]
  <2> TAKE k \in 1..Len(c)
  <2>1. c[k] \in Digit
      BY <1>2, EachDigit
  <2>2. (a \o c)[Len(a) + k] = c[k]
      OBVIOUS
  <2> QED
      BY <2>1, <2>2, DigitIs
<1> DEFINE x == a \o c
<1>5. Makes(a, Len(a), ValueOf(a), Weight) /\ Makes(c, Len(c), ValueOf(c), Weight)
    BY ValueMakes
<1> HIDE DEF x
<1>6. Makes(x, Len(a), ValueOf(a), Weight)
    BY <1>2, <1>3, <1>5, MakesOther DEF x
<1>7. Continued(x, c, Len(a), Len(c))
    BY <1>4 DEF Continued, x
<1>8. Makes(x, Len(a) + Len(c), ValueOf(a) + Weight[Len(a)] * ValueOf(c), Weight)
    BY <1>2, <1>5, <1>6, <1>7, MakesJoined, WeightIs
<1>9. ValueOf(x) = ValueOf(a) + Weight[Len(a)] * ValueOf(c)
  <2>1. PICK j : j = ValueOf(a) + Weight[Len(a)] * ValueOf(c)
      OBVIOUS
  <2>2. x \in Seq(Digit) /\ Makes(x, Len(x), j, Weight) /\ \A k \in 1..Len(x) : x[k] = x[k]
      BY <2>1, <1>1, <1>8 DEF x
  <2> QED
      BY <2>1, <2>2, MakesValue
<1> QED
    BY <1>1, <1>9 DEF x

\* A vector of digits, split at a place.
LEMMA SplitValue ==
    ASSUME NEW a \in Seq(Digit), NEW m \in 0..Len(a)
    PROVE  /\ SubSeq(a, 1, m) \in Seq(Digit) /\ Len(SubSeq(a, 1, m)) = m
           /\ SubSeq(a, m + 1, Len(a)) \in Seq(Digit) /\ Len(SubSeq(a, m + 1, Len(a))) = Len(a) - m
           /\ \A k \in 1..Len(a) - m : SubSeq(a, m + 1, Len(a))[k] = a[m + k]
           /\ ValueOf(a) = ValueOf(SubSeq(a, 1, m)) + Weight[m] * ValueOf(SubSeq(a, m + 1, Len(a)))
<1> DEFINE n == Len(a)
           b == SubSeq(a, 1, m)
           u == SubSeq(a, m + 1, n)
<1>1. n \in Nat /\ m \in Nat /\ m <= n
    OBVIOUS
<1>2. b \in Seq(Digit) /\ Len(b) = m /\ \A k \in 1..m : b[k] = a[k]
  <2>1. 1 \in 1..Len(a) + 1 /\ m \in 1 - 1..Len(a)
      OBVIOUS
  <2>2. /\ SubSeq(a, 1, m) \in Seq(Digit) /\ Len(SubSeq(a, 1, m)) = m - 1 + 1
        /\ \A k \in 1..m - 1 + 1 : SubSeq(a, 1, m)[k] = a[1 + k - 1]
      BY <2>1, PartIs
  <2>3. m - 1 + 1 = m /\ \A k \in 1..m : 1 + k - 1 = k
      BY <1>1
  <2> QED
      BY <2>2, <2>3
<1>3. u \in Seq(Digit) /\ Len(u) = n - m /\ \A k \in 1..n - m : u[k] = a[m + k]
  <2>1. m + 1 \in 1..Len(a) + 1 /\ Len(a) \in (m + 1) - 1..Len(a)
      OBVIOUS
  <2>2. /\ SubSeq(a, m + 1, Len(a)) \in Seq(Digit) /\ Len(SubSeq(a, m + 1, Len(a))) = Len(a) - (m + 1) + 1
        /\ \A k \in 1..Len(a) - (m + 1) + 1 : SubSeq(a, m + 1, Len(a))[k] = a[(m + 1) + k - 1]
      BY <2>1, PartIs
  <2>3. Len(a) - (m + 1) + 1 = n - m /\ \A k \in 1..n - m : (m + 1) + k - 1 = m + k
      BY <1>1
  <2> QED
      BY <2>2, <2>3
<1> HIDE DEF b, u
<1>4. /\ b \o u \in Seq(Digit) /\ Len(b \o u) = Len(b) + Len(u)
      /\ ValueOf(b \o u) = ValueOf(b) + Weight[Len(b)] * ValueOf(u)
    BY <1>2, <1>3, JoinedValue
<1>5. b \o u = a
  <2>1. Len(b \o u) = n /\ b \o u \in Seq(Digit)
      BY <1>1, <1>2, <1>3, <1>4
  <2>2. \A k \in 1..n : (b \o u)[k] = a[k]
    <3> TAKE k \in 1..n
    <3>1. CASE k <= m
      <4>1. (b \o u)[k] = b[k]
          BY <3>1, <1>1, <1>2, <1>3
      <4> QED
          BY <4>1, <3>1, <1>2
    <3>2. CASE ~(k <= m)
      <4>0. k > m
          BY <3>2, <1>1
      <4>1. (b \o u)[k] = u[k - m] /\ k - m \in 1..n - m
          BY <4>0, <1>1, <1>2, <1>3
      <4>2. m + (k - m) = k
          BY <1>1
      <4> QED
          BY <4>1, <4>2, <1>3
    <3> QED
        BY <3>1, <3>2
  <2>3. Len(a) = n /\ \A k \in 1..Len(a) : (b \o u)[k] = a[k]
      BY <2>2
  <2> HIDE DEF n
  <2> QED
      BY <2>1, <2>3, SeqEqual
<1> QED
    BY <1>2, <1>3, <1>4, <1>5 DEF b, u

\* The digits of a from place k up.
Upper(a, k) == ValueOf(SubSeq(a, k, Len(a)))

\* The number of the digits from k on.
LEMMA UpperIs ==
    ASSUME NEW a \in Seq(Digit), NEW k \in 1..Len(a)
    PROVE  /\ Upper(a, k) \in Nat /\ Upper(a, k + 1) \in Nat /\ a[k] \in Nat /\ a[k] < BASE
           /\ Upper(a, k) = Upper(a, k + 1) * BASE + a[k]
           /\ Upper(a, k) <= ValueOf(a)
<1>1. Len(a) \in Nat /\ k \in Nat /\ k <= Len(a) /\ 1 <= k
    OBVIOUS
<1> DEFINE n == Len(a)
           x == SubSeq(a, k, n)
           y == SubSeq(a, k + 1, n)
<1>2. k \in 1..n + 1 /\ n \in k - 1..n /\ k + 1 \in 1..n + 1 /\ n \in (k + 1) - 1..n
    BY <1>1
<1>3. x \in Seq(Digit) /\ Len(x) = n - k + 1 /\ \A i \in 1..n - k + 1 : x[i] = a[k + i - 1]
    BY <1>2, PartIs
<1>4. y \in Seq(Digit) /\ Len(y) = n - (k + 1) + 1 /\ \A i \in 1..n - (k + 1) + 1 : y[i] = a[(k + 1) + i - 1]
    BY <1>2, PartIs
<1> HIDE DEF x, y
<1>5. Len(x) = Len(y) + 1 /\ Len(y) = n - k
    BY <1>1, <1>3, <1>4
<1>6. \A i \in 1..Len(y) : y[i] = x[i + 1]
  <2> TAKE i \in 1..Len(y)
  <2>1. i \in 1..n - (k + 1) + 1 /\ i + 1 \in 1..n - k + 1 /\ (k + 1) + i - 1 = k + (i + 1) - 1
      BY <1>1, <1>5
  <2>2. y[i] = a[(k + 1) + i - 1] /\ x[i + 1] = a[k + (i + 1) - 1]
      BY <2>1, <1>3, <1>4
  <2> QED
      BY <2>1, <2>2
<1>7. ValueOf(x) = x[1] + BASE * ValueOf(y)
    BY <1>3, <1>4, <1>5, <1>6, LowDigit
<1>8. x[1] = a[k]
  <2>1. 1 \in 1..n - k + 1 /\ k + 1 - 1 = k
      BY <1>1
  <2> QED
      BY <2>1, <1>3
<1>9. a[k] \in Nat /\ a[k] < BASE
  <2>1. a[k] \in Digit
      OBVIOUS
  <2> QED
      BY <2>1, DigitIs
<1>10. ValueOf(x) \in Nat /\ ValueOf(y) \in Nat
    BY <1>3, <1>4, ValueBelow
<1>11. ValueOf(x) = ValueOf(y) * BASE + a[k]
  <2>1. PICK X, Y, z : X = ValueOf(x) /\ Y = ValueOf(y) /\ z = a[k]
      OBVIOUS
  <2>2. X = z + BASE * Y /\ Y \in Nat /\ z \in Nat
      BY <2>1, <1>7, <1>8, <1>9, <1>10
  <2>3. BASE * Y = Y * BASE /\ BASE * Y \in Int
      BY <2>2, DigitSizes
  <2>4. X = Y * BASE + z
      BY <2>2, <2>3
  <2> QED
      BY <2>1, <2>4
<1>12. ValueOf(x) <= ValueOf(a)
  <2>1. PICK m : m = k - 1
      OBVIOUS
  <2>2. m \in 0..n /\ m \in Nat /\ m + 1 = k
      BY <2>1, <1>1
  <2>3. SubSeq(a, 1, m) \in Seq(Digit) /\ ValueOf(a) = ValueOf(SubSeq(a, 1, m)) + Weight[m] * ValueOf(SubSeq(a, m + 1, n))
      BY <2>2, SplitValue
  <2>4. PICK L, P, X : L = ValueOf(SubSeq(a, 1, m)) /\ P = Weight[m] /\ X = ValueOf(x)
      OBVIOUS
  <2>5. L \in Nat /\ P \in Nat \ {0} /\ X \in Nat /\ ValueOf(a) = L + P * X
      BY <2>2, <2>3, <2>4, <1>10, WeightAt, ValueBelow DEF x
  <2>6. X * 1 <= X * P
    <3>1. 1 \in Int /\ P \in Int /\ 1 <= P
        BY <2>5
    <3> QED
        BY <3>1, <2>5, Monotone
  <2>7. X * P = P * X /\ X * P \in Int
      BY <2>5
  <2> QED
      BY <2>4, <2>5, <2>6, <2>7
<1> QED
    BY <1>9, <1>10, <1>11, <1>12 DEF Upper, x, y, n

\* Two digits of DECIMAL_BASE hold a digit.
LEMMA DecimalBase ==
    /\ DECIMAL_BASE \in Nat /\ DECIMAL_BASE >= 10 /\ DECIMAL_BASE \in Nat \ {0}
    /\ BASE <= DECIMAL_BASE * DECIMAL_BASE
<1>1. PICK k : k = DECIMAL_SHIFT
    OBVIOUS
<1>2. k \in Nat /\ 1 <= k /\ 1 \in Nat /\ 0 \in Nat /\ 10 \in Nat
    BY <1>1, DigitsAssumption
<1>3. PICK b : b = Power(10, k)
    OBVIOUS
<1>4. b \in Nat /\ Power(10, 1) <= b
  <2>1. \A i, j \in Nat : i <= j => Power(10, i) <= Power(10, j)
      BY PowerGrows
  <2> QED
      BY <2>1, <1>2, <1>3, PowerNext
<1>5. Power(10, 1) = 10
  <2>1. Power(10, 0) = 1 /\ Power(10, 0 + 1) = 10 * Power(10, 0)
      BY <1>2, PowerNext
  <2> QED
      BY <2>1
<1>6. DECIMAL_BASE = b
    BY <1>1, <1>3 DEF DECIMAL_BASE
<1>7. b \in Nat /\ b >= 10
    BY <1>4, <1>5
<1>8. BASE < 10 * b /\ BASE \in Nat
    BY <1>6, DecimalAssumption, DigitSizes
<1>9. b * 10 <= b * b /\ b * 10 = 10 * b /\ b * b \in Nat
    BY <1>7, Monotone
<1>10. BASE <= b * b
    BY <1>7, <1>8, <1>9
<1> QED
    BY <1>6, <1>7, <1>10

\* A carry stays below the factor.
LEMMA CarryBelow ==
    ASSUME NEW b \in Nat \ {0}, NEW a \in Seq(0..b - 1), NEW m \in Nat \ {0}, NEW c \in 0..m - 1,
           NEW h, Multiplying(h, a, m, c, b)
    PROVE  h[Len(a)] \div b \in 0..m - 1
<1> DEFINE n == Len(a)
           B == 0..b - 1
<1>1. h[0] = c * b /\ \A i \in 0..n : h[i] \in Nat
    BY DEF Multiplying
<1>2. \A i \in 1..n : h[i] = h[i - 1] \div b + a[i] * m
    BY DEF Multiplying
<1>3. n \in Nat /\ n \in Int /\ 0 <= n /\ 0 \in Int
    OBVIOUS
<1>3a. \A i \in 1..n : a[i] \in B
  <2> HIDE DEF B
  <2>1. a \in Seq(B)
      BY DEF B
  <2> QED
      BY <2>1
<1>4. c \in Nat /\ c < m /\ c + 1 <= m
    OBVIOUS
<1> HIDE DEF n
<1> DEFINE S == {i \in 0..n : h[i] < b * m}
<1>5. 0 \in S
  <2>1. b * (c + 1) <= b * m /\ b * (c + 1) = c * b + b
      BY <1>4, Monotone
  <2>2. c * b \in Nat /\ b * m \in Nat
      BY <1>4
  <2>3. c * b < b * m
      BY <2>1, <2>2
  <2> QED
      BY <2>3, <1>1, <1>3
<1>6. ASSUME NEW i \in 0..n - 1, i \in S
      PROVE  i + 1 \in S
  <2>1. PICK j : j = i + 1
      OBVIOUS
  <2>2. j \in 1..n /\ j - 1 = i /\ i \in 0..n /\ j \in 0..n
      BY <2>1, <1>3
  <2>3. PICK x : x = h[i]
      OBVIOUS
  <2>4. PICK y : y = a[j]
      OBVIOUS
  <2>5. PICK u : u = x \div b
      OBVIOUS
  <2>6. x \in Nat /\ x < b * m /\ y \in Nat /\ y + 1 <= b
    <3>1. y \in B
        BY <2>2, <2>4, <1>3a
    <3> QED
        BY <3>1, <2>2, <2>3, <1>1, <1>6
  <2>7. u \in 0..m - 1
    <3>1. m - 1 \in Nat /\ b * ((m - 1) + 1) = b * m
        OBVIOUS
    <3>2. x < b * ((m - 1) + 1)
        BY <3>1, <2>6
    <3> QED
        BY <3>1, <3>2, <2>5, <2>6, Under
  <2>8. m * (y + 1) <= m * b /\ m * (y + 1) = y * m + m /\ m * b = b * m /\ y * m \in Nat /\ b * m \in Nat
      BY <2>6, Monotone
  <2>9. u + y * m < b * m
      BY <2>7, <2>8
  <2>10. h[j] = u + y * m
      BY <2>2, <2>3, <2>4, <2>5, <1>2
  <2> QED
      BY <2>1, <2>2, <2>9, <2>10
<1> HIDE DEF S
<1>7. n \in S
  <2>1. n \in 0..n
      BY <1>3
  <2> QED
      BY <2>1, <1>3, <1>5, <1>6, Up
<1>8. PICK x : x = h[n]
    OBVIOUS
<1>9. x \in Nat /\ x < b * ((m - 1) + 1) /\ m - 1 \in Nat
  <2>1. n \in 0..n /\ b * ((m - 1) + 1) = b * m
      BY <1>3
  <2>2. x < b * m
      BY <1>7, <1>8 DEF S
  <2> QED
      BY <2>1, <2>2, <1>1, <1>8
<1> QED
    BY <1>8, <1>9, Under DEF n

\* A carry of up to two digits is pushed.
LEMMA PushBelow ==
    ASSUME NEW b \in Nat \ {0}, NEW s \in Seq(0..b - 1), NEW hi \in Nat, hi < b * b
    PROVE  Pushed(s, hi, b) \in Seq(0..b - 1)
<1> DEFINE B == 0..b - 1
<1>1. hi % b \in B /\ hi \div b \in B
  <2>1. hi \in Int
      OBVIOUS
  <2>2. hi % b \in 0..b - 1
      BY <2>1, Division
  <2>3. b - 1 \in Nat /\ b * ((b - 1) + 1) = b * b
      OBVIOUS
  <2>4. hi \div b \in 0..b - 1
      BY <2>3, Under
  <2> QED
      BY <2>2, <2>4
<1>2. ~ (hi >= b) => hi \in B
    OBVIOUS
<1>3. s \in Seq(B)
    OBVIOUS
<1> HIDE DEF B
<1>4. CASE hi >= b
  <2>1. PICK x : x = hi % b
      OBVIOUS
  <2>2. PICK y : y = hi \div b
      OBVIOUS
  <2>3. Pushed(s, hi, b) = s \o <<x, y>>
      BY <1>4, <2>1, <2>2 DEF Pushed
  <2>4. <<x, y>> \in Seq(B)
      BY <1>1, <2>1, <2>2
  <2>5. s \o <<x, y>> \in Seq(B)
      BY <2>4, <1>3, ConcatProperties
  <2> QED
      BY <2>3, <2>5 DEF B
<1>5. CASE ~ (hi >= b)
  <2>1. CASE hi > 0
    <3>1. Pushed(s, hi, b) = Append(s, hi)
        BY <1>5, <2>1 DEF Pushed
    <3>2. Append(s, hi) \in Seq(B)
        BY <1>2, <1>3, <1>5, AppendProperties
    <3> QED
        BY <3>1, <3>2 DEF B
  <2>2. CASE ~ (hi > 0)
    <3>1. Pushed(s, hi, b) = s
        BY <1>5, <2>2 DEF Pushed
    <3> QED
        BY <3>1
  <2> QED
      BY <2>1, <2>2
<1> QED
    BY <1>4, <1>5

\* s are the decimal groups of the number of the digits a, a number 0 having none.
InGroups(s, a) ==
    s \in Seq(0..DECIMAL_BASE - 1) /\ Leading(s) /\ Worth(s, Powered(DECIMAL_BASE), ValueOf(a))

\* The groups int_repr makes of a number are its digits in base DECIMAL_BASE.
LEMMA GroupsMade ==
    ASSUME NEW a \in Seq(Digit)
    PROVE  \E s : InGroups(s, a) /\ DecimalGroups(a) = IF s = <<>> THEN <<0>> ELSE s
<1> DEFINE n == Len(a)
           b == DECIMAL_BASE
           p == Powered(b)
           B == 0..b - 1
           V == {y \in Seq(B) : Leading(y)}
           Chain(i, y) ==
               CHOOSE f : f = [j \in 0..Len(y) |-> IF j = 0 THEN a[i] * b ELSE f[j - 1] \div b + y[j] * BASE]
           E(i, y) == Pushed([j \in DOMAIN y |-> Chain(i, y)[j] % b], Chain(i, y)[Len(y)] \div b, b)
           G == [i \in 1..n + 1 - 1 |-> [y \in V |-> E(i, y)]]
           Is(f) == f = [i \in 1..n + 1 |-> IF i > n THEN <<>> ELSE E(i, f[i + 1])]
           h == CHOOSE f : Is(f)
<1>1. DecimalGroups(a) = IF h[1] = <<>> THEN <<0>> ELSE h[1]
    BY DEF DecimalGroups, Pushed
<1>2. n \in Nat /\ n + 1 \in Int /\ 1 \in Int /\ 1 <= n + 1 /\ <<>> \in V
  <2> HIDE DEF B
  <2>1. <<>> \in Seq(B)
      BY EmptySeq
  <2> QED
      BY <2>1 DEF Leading
<1>3. b \in Nat /\ b >= 2 /\ b \in Nat \ {0}
    BY DecimalBase
<1>4. Weights(p, b)
    BY <1>3, PowerWeights
<1>5. ASSUME NEW i \in 1..n, NEW y, y \in Seq(B), NEW x, Worth(y, p, x), Leading(y)
      PROVE  E(i, y) \in Seq(B) /\ Leading(E(i, y)) /\ Worth(E(i, y), p, x * BASE + a[i])
  <2> DEFINE f == Chain(i, y)
             s == [j \in DOMAIN y |-> f[j] % b]
  <2>0. a[i] \in 0..BASE - 1
    <3>1. a[i] \in Digit
        BY <1>2
    <3> QED
        BY <3>1, DigitSizes DEF Digit
  <2>1. y \in Seq(Nat) /\ a[i] \in Nat /\ BASE \in Nat \ {0} /\ BASE \in Nat /\ b \in Nat \ {0} /\ Len(y) \in Nat
    <3>1. a[i] \in Digit
        BY <1>2
    <3> QED
        BY <3>1, <1>3, <1>5, DigitIs, DigitSizes DEF Worth
  <2>1a. y \in Seq(0..b - 1)
      BY <1>5
  <2> HIDE DEF b, p
  <2>2. Multiplying(f, y, BASE, a[i], b)
      BY <2>1, MultiplyChain, Zenon
  <2> HIDE DEF Chain
  <2>3. \A j \in 1..Len(y) : f[j] % b \in Nat
    <3> TAKE j \in 1..Len(y)
    <3> DEFINE z == f[j]
    <3>1. z \in Int
        BY <2>1, <2>2 DEF Multiplying
    <3> HIDE DEF z
    <3>2. z % b \in 0..b - 1
        BY <3>1, <2>1, Division, Zenon
    <3> QED
        BY <3>2, <1>3 DEF z
  <2>3a. \A j \in 1..Len(y) : f[j] % b \in 0..b - 1
    <3> TAKE j \in 1..Len(y)
    <3> DEFINE z == f[j]
    <3>1. z \in Int
        BY <2>1, <2>2 DEF Multiplying
    <3> HIDE DEF z
    <3>2. z % b \in 0..b - 1
        BY <3>1, <2>1, Division, Zenon
    <3> QED
        BY <3>2 DEF z
  <2>4. s \in Seq(Nat) /\ Len(s) = Len(y) /\ CutIn(s, f, Len(y), b)
    <3>1. DOMAIN y = 1..Len(y)
        BY <2>1
    <3>2. s \in Seq(Nat) /\ Len(s) = Len(y) /\ \A j \in 1..Len(y) : s[j] = f[j] % b
        BY <2>1, <2>3, <3>1
    <3> QED
        BY <3>2 DEF CutIn
  <2>5. E(i, y) = Pushed(s, f[Len(y)] \div b, b)
      OBVIOUS
  <2>6. s \in Seq(B)
    <3>1. DOMAIN y = 1..Len(y)
        BY <2>1
    <3>2. \A j \in 1..Len(y) : f[j] % b \in B
        BY <2>3a
    <3> HIDE DEF f, B
    <3> QED
        BY <2>1, <3>1, <3>2
  <2>7. f[Len(y)] \div b \in 0..BASE - 1
    <3> HIDE DEF E, s, f
    <3> QED
        BY <2>0, <2>1, <2>1a, <2>2, CarryBelow
  <2>8. E(i, y) \in Seq(B)
    <3>1. PICK hi : hi = f[Len(y)] \div b
        OBVIOUS
    <3>2. hi \in Nat /\ hi < b * b
      <4>1. hi \in 0..BASE - 1
          BY <2>7, <3>1
      <4>2. BASE <= b * b /\ b * b \in Nat
          BY <1>3, DecimalBase DEF b
      <4> HIDE DEF b
      <4> QED
          BY <4>1, <4>2, <2>1
    <3> HIDE DEF E, s, f
    <3>3. s \in Seq(0..b - 1)
        BY <2>6
    <3>4. Pushed(s, hi, b) \in Seq(0..b - 1)
        BY <3>2, <3>3, <2>1, PushBelow
    <3> QED
        BY <3>1, <3>4, <2>5
  <2> HIDE DEF E, s, f
  <2>9. Leading(E(i, y)) /\ Worth(E(i, y), p, x * BASE + a[i])
      BY <2>1, <2>2, <2>4, <2>5, <1>3, <1>4, <1>5, StepWorth, Zenon
  <2> QED
      BY <2>8, <2>9
<1>6. ASSUME NEW i \in 1..n, NEW y \in V
      PROVE  E(i, y) \in V
  <2>0. y \in Seq(0..b - 1) /\ Leading(y)
      OBVIOUS
  <2>1. y \in Seq(Nat) /\ Leading(y) /\ Len(y) \in Nat /\ \A k \in 1..Len(y) : y[k] \in Nat
    <3> HIDE DEF b, B, V, E, p
    <3>1. y \in Seq(Nat)
        BY <2>0, <1>3, DigitsWhole
    <3> QED
        BY <3>1, <2>0
  <2> HIDE DEF p, b, E, V
  <2>2. PICK f : Totals(f, y, Len(y), p)
      BY <2>1, <1>3, <1>4, TotalsExist
  <2>3. Worth(y, p, f[Len(y)])
      BY <2>1, <2>2 DEF Worth
  <2>4. Leading(E(i, y)) /\ E(i, y) \in Seq(B)
      BY <2>0, <2>3, <1>5
  <2> QED
      BY <2>4 DEF V
<1>20. \A y : y \in V <=> y \in Seq(B) /\ Leading(y)
    OBVIOUS
<1> HIDE DEF E, b, p, Chain, V, B
<1>7. Descends(G, 1, n + 1, V)
  <2>1. 1..n + 1 - 1 = 1..n
      BY <1>2
  <2> QED
      BY <2>1, <1>6 DEF Descends
<1>8. \A i \in 1..n : \A y \in V : G[i][y] = E(i, y)
  <2>1. 1..n + 1 - 1 = 1..n
      BY <1>2
  <2> QED
      BY <2>1
<1> HIDE DEF G
<1>9. PICK f : f \in [1..n + 1 -> V] /\ Unwound(f, 1, n + 1, <<>>, G)
    BY <1>2, <1>7, Descent, Zenon
<1>10. f = [i \in 1..n + 1 |-> IF i = n + 1 THEN <<>> ELSE G[i][f[i + 1]]]
    BY <1>9 DEF Unwound
<1> HIDE DEF n
<1>11. ASSUME NEW i \in 1..n + 1
       PROVE  f[i] = IF i > n THEN <<>> ELSE E(i, f[i + 1])
  <2>1. CASE i = n + 1
      BY <2>1, <1>2, <1>10
  <2>2. CASE i # n + 1
    <3>1. i \in 1..n /\ i + 1 \in 1..n + 1 /\ ~ (i > n)
        BY <2>2, <1>2
    <3>2. f[i + 1] \in V
        BY <3>1, <1>9
    <3> QED
        BY <3>1, <3>2, <2>2, <1>8, <1>10
  <2> QED
      BY <2>1, <2>2
<1>12. Is(f)
  <2>1. f = [i \in 1..n + 1 |-> f[i]]
      BY <1>9
  <2> QED
      BY <2>1, <1>11
<1>13. Is(h)
    BY <1>12
<1> HIDE DEF h
<1> DEFINE Good(i) == h[i] \in V /\ Worth(h[i], p, Upper(a, i))
           S == {i \in 1..n + 1 : Good(i)}
<1>14. n + 1 \in S
  <2>1. n + 1 \in 1..n + 1 /\ n + 1 > n
      BY <1>2
  <2>2. h[n + 1] = <<>>
      BY <2>1, <1>13
  <2>3. Upper(a, n + 1) = 0
    <3>1. SubSeq(a, n + 1, Len(a)) = <<>>
        BY <1>2 DEF n
    <3> QED
        BY <3>1, NothingValue DEF Upper
  <2>4. Worth(<<>>, p, 0)
      BY WorthNothing
  <2> QED
      BY <2>1, <2>2, <2>3, <2>4, <1>2
<1>15. ASSUME NEW i \in 1 + 1..n + 1, i \in S
       PROVE  i - 1 \in S
  <2> DEFINE j == i - 1
  <2>1. j \in 1..n /\ j \in 1..n + 1 /\ ~ (j > n) /\ j + 1 = i
      BY <1>2
  <2> HIDE DEF j
  <2>2. h[j] = E(j, h[i])
      BY <2>1, <1>13
  <2>3. Worth(h[i], p, Upper(a, i))
      BY <1>15
  <2>4. h[i] \in Seq(B) /\ Leading(h[i])
      BY <1>15, <1>20
  <2> HIDE DEF S
  <2>5. h[j] \in V /\ Worth(h[j], p, Upper(a, i) * BASE + a[j])
      BY <2>1, <2>2, <2>3, <2>4, <1>5, <1>20
  <2>6. Upper(a, j) = Upper(a, i) * BASE + a[j]
    <3>1. j \in 1..Len(a)
        BY <2>1 DEF n
    <3>2. Upper(a, j) = Upper(a, j + 1) * BASE + a[j]
        BY <3>1, UpperIs
    <3> QED
        BY <3>2, <2>1
  <2> QED
      BY <2>1, <2>5, <2>6 DEF S, j
<1> HIDE DEF S
<1>16. 1 \in S
  <2>1. 1 \in 1..n + 1
      BY <1>2
  <2>2. \A i \in 1 + 1..n + 1 : i \in S => i - 1 \in S
      BY <1>15
  <2> QED
      BY <2>1, <2>2, <1>2, <1>14, Down, Zenon
<1>17. InGroups(h[1], a)
  <2>1. Upper(a, 1) = ValueOf(a)
    <3>1. SubSeq(a, 1, Len(a)) = a
        OBVIOUS
    <3> QED
        BY <3>1 DEF Upper
  <2>2. h[1] \in V /\ Worth(h[1], p, Upper(a, 1))
      BY <1>16 DEF S
  <2>3. h[1] \in Seq(B) /\ Leading(h[1])
      BY <2>2, <1>20
  <2> QED
      BY <2>1, <2>2, <2>3 DEF InGroups, p, b, B
<1> QED
    BY <1>1, <1>17

\* The powers of a number of e bits and more
LEMMA PowerBits ==
    ASSUME NEW b \in Nat, NEW e \in Nat, 2^e <= b
    PROVE  \A k \in Nat : 2^(e * k) <= Power(b, k)
<1> DEFINE S == {k \in Nat : 2^(e * k) <= Power(b, k)}
<1>1. 0 \in S
  <2>1. e * 0 = 0
      OBVIOUS
  <2>4. 2^0 = 1
      OBVIOUS
  <2>2. Power(b, 0) = 1
      BY PowerNext
  <2>3. 2^(e * 0) <= Power(b, 0)
    <3>1. 2^(e * 0) = 2^0
        BY <2>1, Zenon
    <3> DEFINE z == 2^(e * 0)
    <3> HIDE DEF z
    <3>2. z = 1
        BY <3>1, <2>4 DEF z
    <3>3. z <= Power(b, 0)
        BY <3>2, <2>2
    <3> QED
        BY <3>3 DEF z
  <2> QED
      BY <2>3
<1>2. ASSUME NEW k \in Nat, k \in S
      PROVE  k + 1 \in S
  <2> DEFINE i == e * k
             x == 2^i
             y == Power(b, k)
             m == 2^e
  <2>1. i \in Nat /\ e * (k + 1) = e + i
      OBVIOUS
  <2> HIDE DEF i
  <2>2. x \in Nat /\ m \in Nat /\ 2^(e + i) = m * x
      BY <2>1, Powers, TwoPowers
  <2>3. y \in Nat /\ Power(b, k + 1) = b * y
      BY PowerNext
  <2>4. x <= y
      BY <1>2 DEF i
  <2> HIDE DEF x, y, S
  <2>5. m \in Nat /\ m <= b
      BY <2>2
  <2> HIDE DEF m
  <2>6. m * x <= m * y /\ y * m <= y * b /\ m * y = y * m /\ y * b = b * y /\ m * x \in Nat /\ m * y \in Nat /\ b * y \in Nat
      BY <2>2, <2>3, <2>4, <2>5, Monotone
  <2> DEFINE i1 == m * x
             i2 == m * y
             i3 == b * y
  <2>7. i1 \in Nat /\ i2 \in Nat /\ i3 \in Nat /\ i1 <= i2 /\ i2 <= i3
      BY <2>6
  <2> HIDE DEF i1, i2, i3
  <2>8. i1 <= i3
      BY <2>7
  <2>9. 2^(e * (k + 1)) <= Power(b, k + 1)
      BY <2>1, <2>2, <2>3, <2>8 DEF i1, i3
  <2> QED
      BY <2>9 DEF S
<1> HIDE DEF S
<1>3. \A k \in Nat : k \in S
    BY <1>1, <1>2, Induction
<1> QED
    BY <1>3 DEF S

\* A decimal digit has more than three bits, so the groups allocated are enough.
LEMMA ReprRoom ==
    ASSUME NEW a \in Seq(Digit)
    PROVE  Len(DecimalGroups(a)) <= ReprSize(a)
<1> DEFINE n == Len(a)
           e == 3 * DECIMAL_SHIFT
           b == DECIMAL_BASE
           x == n * SHIFT
           k == x \div e
<1>1. PICK s : InGroups(s, a) /\ DecimalGroups(a) = IF s = <<>> THEN <<0>> ELSE s
    BY GroupsMade
<1>2. PICK y : Worth(s, Powered(b), y) /\ y < Place(n)
  <2>1. ValueOf(a) < Place(n)
      BY ValueBelow
  <2> QED
      BY <2>1, <1>1 DEF InGroups
<1>3. Leading(s) /\ s \in Seq(Nat) /\ Len(s) \in Nat
    BY <1>1, <1>2 DEF InGroups, Worth
<1>4. e \in Nat \ {0} /\ n \in Nat /\ x \in Nat /\ DECIMAL_SHIFT \in Nat /\ SHIFT \in Nat
  <2>1. DECIMAL_SHIFT \in Nat \ {0}
      BY DigitsAssumption
  <2>2. n \in Nat /\ SHIFT \in Nat
      BY DigitSizes
  <2> QED
      BY <2>1, <2>2
<1>5. ReprSize(a) = 1 + k
    BY DEF ReprSize
<1>6. k \in Nat
  <2> HIDE DEF x, e
  <2>1. k \in 0..x
      BY <1>4, Natural
  <2> QED
      BY <2>1, <1>4
<1>7. CASE s = <<>>
  <2>1. Len(DecimalGroups(a)) = 1
      BY <1>1, <1>7
  <2> HIDE DEF k
  <2> QED
      BY <2>1, <1>5, <1>6
<1>8. CASE s # <<>>
  <2> DEFINE g == Len(s) - 1
  <2>1. 2^e <= b
    <3>1. 2^3 <= 10
        OBVIOUS
    <3>2. 2^(3 * DECIMAL_SHIFT) <= Power(10, DECIMAL_SHIFT)
        BY <3>1, <1>4, PowerBits
    <3> QED
        BY <3>2 DEF DECIMAL_BASE
  <2>2. b \in Nat /\ b >= 2
    <3>1. b \in Nat
        BY <1>4, PowerNext DEF DECIMAL_BASE
    <3>2. e = (e - 1) + 1 /\ e - 1 \in Nat
        BY <1>4
    <3>3. 2^(e - 1) \in Nat \ {0} /\ 2^e = 2 * 2^(e - 1)
        BY <3>2, Powers
    <3> DEFINE z == 2^(e - 1)
    <3>4. z \in Nat \ {0} /\ 2 * z <= b
        BY <3>3, <2>1
    <3> HIDE DEF z, b
    <3> QED
        BY <3>1, <3>4
  <2> HIDE DEF b, e
  <2>3. y \in Nat /\ g \in Nat /\ Powered(b)[g] <= y
      BY <2>2, <1>2, <1>3, <1>8, PowerWeights, WorthAbove
  <2>4. Powered(b)[g] = Power(b, g) /\ 2^(e * g) <= Power(b, g)
    <3> HIDE DEF g
    <3>1. Powered(b)[g] = Power(b, g)
        BY <2>3 DEF Powered
    <3>2. \A i \in Nat : 2^(e * i) <= Power(b, i)
        BY <2>1, <2>2, <1>4, PowerBits
    <3> QED
        BY <3>1, <3>2, <2>3
  <2> DEFINE i == e * g
  <2>5. i \in Nat /\ SHIFT * n = x
    <3> HIDE DEF g, n
    <3> QED
        BY <2>3, <1>4
  <2> HIDE DEF i, x, n
  <2>6. 2^i \in Nat /\ 2^x \in Nat /\ 2^i < 2^x
    <3>1. 2^i \in Nat /\ 2^x \in Nat
        BY <2>5, <1>4, Powers
    <3>2. Place(n) = 2^x
        BY <2>5 DEF Place
    <3>3. Power(b, g) \in Nat /\ 2^i <= Power(b, g)
        BY <2>2, <2>3, <2>4, PowerNext DEF i
    <3> QED
        BY <3>1, <3>2, <3>3, <2>3, <2>4, <1>2
  <2>7. i <= x
    <3> SUFFICES ASSUME x < i
                 PROVE  FALSE
        BY <2>5, <1>4
    <3>1. x <= i
        BY <2>5, <1>4
    <3>2. 2^x <= 2^i
      <4> DEFINE k1 == i - x
                 m == 2^x
                 z == 2^k1
      <4>1. k1 \in Nat /\ i = x + k1
          BY <3>1, <2>5, <1>4
      <4> HIDE DEF k1
      <4>2. z \in Nat \ {0} /\ m \in Nat /\ 2^(x + k1) = m * z
          BY <4>1, <1>4, Powers, TwoPowers
      <4>3. 2^i = m * z
          BY <4>1, <4>2
      <4> HIDE DEF m, z
      <4>4. m * 1 <= m * z /\ m * z \in Nat /\ m * 1 = m
          BY <4>2, Monotone
      <4>5. m <= m * z
          BY <4>4
      <4> QED
          BY <4>3, <4>5 DEF m
    <3> QED
        BY <3>2, <2>6
  <2>8. g <= k
    <3>1. g \in Nat /\ e * g <= x
        BY <2>3, <2>7 DEF i
    <3> HIDE DEF g
    <3> QED
        BY <3>1, <1>4, Fitting, Zenon
  <2>9. Len(DecimalGroups(a)) = g + 1
      BY <1>1, <1>3, <1>8
  <2> HIDE DEF g, k
  <2> QED
      BY <2>3, <2>8, <2>9, <1>5, <1>6
<1> QED
    BY <1>7, <1>8

-----------------------------------------------------------------------------
(* The shifts that x_divrem starts with *)

\* The top digit of a divisor, shifted, fills its digit.
LEMMA BitsIs ==
    ASSUME NEW x \in Digit, x # 0
    PROVE  bits_in_digit(x) \in 1..SHIFT /\ 2^bits_in_digit(x) > x /\ 2^(bits_in_digit(x) - 1) <= x
<1> DEFINE S == {n \in Nat : 2^n > x}
<1>0. x \in Nat /\ x < BASE /\ x >= 1
    BY DigitIs
<1>1. SHIFT \in S /\ SHIFT \in Nat
    BY <1>0, DigitSizes
<1>2. PICK n \in S : \A k \in S : n <= k
  <2>1. S \in SUBSET Nat /\ S # {}
      BY <1>1
  <2> HIDE DEF S
  <2> QED
      BY <2>1, Least
<1>3. n \in 0..SHIFT /\ 2^n > x
    BY <1>1, <1>2
<1>4. n # 0 => 2^(n - 1) <= x
  <2> HAVE n # 0
  <2>1. n - 1 \in Nat /\ n - 1 \notin S
      BY <1>2, <1>3
  <2>2. 2^(n - 1) \in Nat /\ ~ (2^(n - 1) > x)
      BY <2>1, Powers
  <2> QED
      BY <2>2, <1>0
<1> DEFINE b == bits_in_digit(x)
<1>5. b \in 0..SHIFT /\ 2^b > x /\ (b = 0 \/ 2^(b - 1) <= x)
    BY <1>3, <1>4 DEF bits_in_digit
<1>6. b # 0
  <2>1. ~ (2^0 > x)
      BY <1>0
  <2>2. \A k : k = 0 => ~ (2^k > x)
      BY <2>1, Zenon
  <2> QED
      BY <2>2, <1>5
<1> HIDE DEF b
<1>7. b \in 1..SHIFT
    BY <1>5, <1>6, DigitSizes
<1> QED
    BY <1>5, <1>6, <1>7 DEF b

\* What x_divrem shifts by
Shifts(x, e) == e \in 0..SHIFT - 1 /\ x * 2^e < BASE /\ BASE <= 2 * (x * 2^e) /\ 2 * 2^e <= BASE

LEMMA ShiftIs ==
    ASSUME NEW x \in Digit, x # 0
    PROVE  Shifts(x, SHIFT - bits_in_digit(x))
<1> DEFINE b == bits_in_digit(x)
           e == SHIFT - b
<1>1. b \in 1..SHIFT /\ 2^b > x /\ 2^(b - 1) <= x
    BY BitsIs
<1> HIDE DEF b
<1>2. e \in 0..SHIFT - 1 /\ b \in Nat /\ e \in Nat /\ b + e = SHIFT /\ b - 1 \in Nat /\ b - 1 + 1 = b
    BY <1>1, DigitSizes
<1> HIDE DEF e
<1> DEFINE m == 2^e
           k == 2^b
           h == 2^(b - 1)
<1>3. k * m = BASE /\ m \in Nat \ {0} /\ k = 2 * h /\ h \in Nat \ {0} /\ k \in Nat
  <2>1. 2^(b + e) = 2^b * 2^e
      BY <1>2, TwoPowers
  <2>2. 2^(b - 1 + 1) = 2 * 2^(b - 1) /\ 2^(b - 1) \in Nat \ {0} /\ 2^e \in Nat \ {0}
      BY <1>2, Powers
  <2> QED
      BY <2>1, <2>2, <1>2 DEF BASE
<1>4. h <= x /\ x + 1 <= k /\ x \in Nat
    BY <1>1, <1>3, DigitIs
<1> HIDE DEF m, k, h
<1>5. m * h <= m * x /\ m * (x + 1) <= m * k
    BY <1>3, <1>4, Monotone
<1>6. m * (x + 1) = x * m + m /\ m * k = BASE /\ m * x = x * m /\ 2 * (m * h) = BASE /\ x * m \in Nat /\ m * h \in Nat
    BY <1>3, <1>4
<1>7. x * m < BASE /\ BASE <= 2 * (x * m)
    BY <1>3, <1>5, <1>6, DigitSizes
<1>8. m * 1 <= m * h
    BY <1>3, Monotone
<1>9. 2 * m <= BASE
    BY <1>3, <1>6, <1>8, DigitSizes
<1> QED
    BY <1>2, <1>7, <1>9 DEF e, b, m, Shifts

\* The divisor, shifted: nothing is lost, and the highest bit is set.
LEMMA DivisorTop ==
    ASSUME NEW a \in Seq(Digit), Len(a) >= 2, NEW e, Shifts(a[Len(a)], e)
    PROVE  /\ v_lshift_carry(a, e) = 0
           /\ v_lshift(a, e)[Len(a)] \in Nat /\ BASE <= 2 * v_lshift(a, e)[Len(a)]
<1> DEFINE n == Len(a)
           x == a[n]
           y == At(a, n - 1)
           m == 2^e
<1>0. e \in 0..SHIFT
    BY DigitSizes DEF Shifts
<1>1. n \in DOMAIN a /\ a # <<>> /\ x \in Nat /\ y \in Nat
  <2>1. n \in DOMAIN a /\ a # <<>>
      BY EmptySeq
  <2>2. x \in Digit
      BY <2>1
  <2>3. n - 1 \in Int
      OBVIOUS
  <2> QED
      BY <2>1, <2>2, <2>3, AtDigit, DigitIs
<1>2. m \in Nat \ {0} /\ x * m < BASE /\ BASE <= 2 * (x * m)
    BY <1>0, Halves DEF Shifts
<1>3. v_lshift_carry(a, e) = (x * m) \div BASE
    BY <1>1 DEF v_lshift_carry
<1>4. v_lshift(a, e)[n] = ((x * m) % BASE) + ((y * m) \div BASE)
    BY <1>1 DEF v_lshift
<1> HIDE DEF x, y, m
<1>5. x * m \in Nat /\ y * m \in Nat /\ BASE \in Nat \ {0}
    BY <1>1, <1>2, DigitSizes
<1>6. (x * m) % BASE = x * m /\ (x * m) \div BASE = 0
  <2> DEFINE z == x * m
  <2>1. z = BASE * 0 + z /\ z \in Int /\ 0 <= z /\ z < BASE /\ 0 \in Int /\ BASE \in Nat \ {0}
      BY <1>2, <1>5
  <2> HIDE DEF z
  <2>2. z % BASE = z /\ z \div BASE = 0
      BY <2>1, Quotient, Zenon
  <2> QED
      BY <2>2 DEF z
<1>7. (y * m) \div BASE \in Nat
  <2>1. (y * m) \div BASE \in 0..y * m
      BY <1>5, Natural
  <2> QED
      BY <2>1, <1>5
<1>8. v_lshift(a, e)[n] \in Nat /\ BASE <= 2 * v_lshift(a, e)[n]
  <2> DEFINE z == x * m
             c == (y * m) \div BASE
  <2>1. v_lshift(a, e)[n] = z + c /\ z \in Nat /\ c \in Nat /\ BASE <= 2 * z
      BY <1>2, <1>4, <1>5, <1>6, <1>7
  <2> HIDE DEF z, c
  <2> QED
      BY <2>1, DigitSizes
<1> QED
    BY <1>3, <1>6, <1>8

\* The bits shifted out of the number that is divided make a small number.
LEMMA CarryLess ==
    ASSUME NEW a \in Seq(Digit), a # <<>>, NEW e, NEW x, Shifts(x, e), NEW y \in Nat, BASE <= 2 * y
    PROVE  v_lshift_carry(a, e) \in Nat /\ v_lshift_carry(a, e) < y
<1> DEFINE z == a[Len(a)]
           m == 2^e
<1>0. e \in 0..SHIFT
    BY DigitSizes DEF Shifts
<1>1. z \in Nat /\ z < BASE
  <2>1. z \in Digit
      BY EmptySeq
  <2> QED
      BY <2>1, DigitIs
<1>2. m \in Nat \ {0} /\ 2 * m <= BASE
    BY <1>0, Halves DEF Shifts
<1>3. v_lshift_carry(a, e) = (z * m) \div BASE
    BY DEF v_lshift_carry
<1> HIDE DEF z, m
<1>4. (z * m) \div BASE \in 0..m - 1
  <2>1. z * m < BASE * (m - 1 + 1)
    <3>1. m * (z + 1) <= m * BASE
        BY <1>1, <1>2, DigitSizes, Monotone
    <3>2. m * (z + 1) = z * m + m /\ BASE * (m - 1 + 1) = m * BASE /\ z * m \in Nat /\ m * BASE \in Nat
        BY <1>1, <1>2, DigitSizes
    <3> QED
        BY <3>1, <3>2, <1>2
  <2>2. z * m \in Nat /\ m - 1 \in Nat /\ BASE \in Nat \ {0}
      BY <1>1, <1>2, DigitSizes
  <2> QED
      BY <2>1, <2>2, Under
<1> DEFINE c == v_lshift_carry(a, e)
<1>5. c \in 0..m - 1
    BY <1>3, <1>4
<1> HIDE DEF c
<1>6. c \in Nat /\ c < y
    BY <1>2, <1>5, DigitSizes
<1> QED
    BY <1>6 DEF c

\* Shifted bits leave zeros behind.
LEMMA LowZeros ==
    ASSUME NEW a \in Seq(Digit), Len(a) >= 1, NEW e \in 0..SHIFT
    PROVE  v_lshift(a, e)[1] % 2^e = 0
<1> DEFINE x == a[1]
           m == 2^e
           y == x % 2^(SHIFT - e)
<1>1. 1 \in DOMAIN a /\ a[1] \in Digit /\ At(a, 0) = 0
    BY DEF At
<1>2. x \in Nat
    BY <1>1, DigitIs
<1>3. m \in Nat \ {0} /\ 2^(SHIFT - e) \in Nat \ {0}
    BY Halves
<1>4. v_lshift(a, e)[1] = ((x * m) % BASE) + ((0 * m) \div BASE)
    BY <1>1 DEF v_lshift
<1>5. (x * m) % BASE = m * y
    BY <1>2, LowPart
<1>6. y \in Nat
  <2>1. x \in Int
      BY <1>2
  <2>2. y \in 0..2^(SHIFT - e) - 1
      BY <2>1, <1>3, Division
  <2> QED
      BY <2>2, <1>3
<1> HIDE DEF x, m, y
<1>7. (0 * m) \div BASE = 0
  <2>1. 0 * m = 0 /\ BASE \in Nat \ {0}
      BY <1>3, DigitSizes
  <2>2. 0 \div BASE \in 0..0
      BY <2>1, Natural
  <2> QED
      BY <2>1, <2>2
<1>8. v_lshift(a, e)[1] = m * y
  <2>1. m * y \in Nat
      BY <1>3, <1>6
  <2> QED
      BY <2>1, <1>4, <1>5, <1>7
<1>9. (m * y) % m = 0
  <2>1. m * y = m * y + 0 /\ m * y \in Int /\ y \in Int
      BY <1>3, <1>6
  <2> QED
      BY <2>1, <1>3, Quotient
<1> QED
    BY <1>8, <1>9 DEF m

\* Cutting to a digit keeps them.
LEMMA ZerosKept ==
    ASSUME NEW e \in 0..SHIFT, NEW x \in Int, x % 2^e = 0
    PROVE  (x % BASE) % 2^e = 0
<1> DEFINE m == 2^e
           k == 2^(SHIFT - e)
           i == x \div m
           j == x \div BASE
           l == x % BASE
<1>1. m \in Nat \ {0} /\ k \in Nat \ {0} /\ m * k = BASE
    BY Halves
<1>2. i \in Int /\ x = m * i
  <2>1. i \in Int /\ x = m * i + (x % m)
      BY <1>1, Division
  <2>2. x % m = 0
      OBVIOUS
  <2> HIDE DEF m, i
  <2> QED
      BY <2>1, <2>2, <1>1
<1>3. j \in Int /\ l \in Int /\ x = BASE * j + l
    BY Remainder
<1> HIDE DEF m, k, i, j, l
<1>4. l = m * (i - k * j)
  <2>1. BASE * j = m * (k * j) /\ m * (i - k * j) = m * i - m * (k * j) /\ m * i \in Int /\ m * (k * j) \in Int
      BY <1>1, <1>2, <1>3
  <2> QED
      BY <2>1, <1>2, <1>3
<1>5. l % m = 0
  <2> DEFINE y == i - k * j
  <2>1. y \in Int /\ l = m * y
      BY <1>1, <1>2, <1>3, <1>4
  <2> HIDE DEF y
  <2>2. l = m * y + 0 /\ 0 \in Int /\ 0 <= 0 /\ 0 < m
      BY <2>1, <1>1
  <2>3. l \in Int /\ m \in Nat \ {0} /\ y \in Int
      BY <2>1, <1>1, <1>3
  <2> HIDE DEF y
  <2> QED
      BY <2>2, <2>3, Quotient, Zenon
<1> QED
    BY <1>5 DEF l, m

LEMMA ZerosAdd ==
    ASSUME NEW e \in 0..SHIFT, NEW x \in Int, NEW y \in Int, NEW z \in Int, x % 2^e = 0, y % 2^e = 0
    PROVE  (x - z * y) % 2^e = 0 /\ (x + y) % 2^e = 0
<1> DEFINE m == 2^e
           i == x \div m
           j == y \div m
<1>1. m \in Nat \ {0}
    BY Halves
<1>2. i \in Int /\ x = m * i + (x % m) /\ j \in Int /\ y = m * j + (y % m)
    BY <1>1, Division
<1>3. x % m = 0 /\ y % m = 0
    OBVIOUS
<1> HIDE DEF m, i, j
<1>4. x = m * i /\ y = m * j
    BY <1>1, <1>2, <1>3
<1>5. x - z * y = m * (i - z * j) + 0 /\ x + y = m * (i + j) + 0
    BY <1>1, <1>2, <1>4
<1>6. (x - z * y) % m = 0
  <2> DEFINE k == i - z * j
             l == x - z * y
  <2>1. k \in Int /\ l \in Int /\ l = m * k + 0
      BY <1>2, <1>5
  <2> HIDE DEF k, l
  <2>2. l % m = 0
      BY <2>1, <1>1, Quotient
  <2> QED
      BY <2>2 DEF l
<1>7. (x + y) % m = 0
  <2> DEFINE k == i + j
             l == x + y
  <2>1. k \in Int /\ l \in Int /\ l = m * k + 0
      BY <1>2, <1>5
  <2> HIDE DEF k, l
  <2>2. l % m = 0
      BY <2>1, <1>1, Quotient
  <2> QED
      BY <2>2 DEF l
<1> QED
    BY <1>6, <1>7 DEF m

\* The number with the smaller top digit is the smaller.
LEMMA TopLess ==
    ASSUME NEW a \in Seq(Digit), NEW b \in Seq(Digit), NEW n, n = Len(a), n = Len(b), n >= 1, a[n] < b[n]
    PROVE  ValueOf(a) < ValueOf(b)
<1>1. PICK f : Sums(f, a, n) /\ f[n] = ValueOf(a)
    BY ValueIs
<1>2. PICK g : Sums(g, b, n) /\ g[n] = ValueOf(b)
    BY ValueIs
<1>3. n \in Nat /\ n \in 1..n /\ n - 1 \in 0..n /\ n - 1 \in Nat
    OBVIOUS
<1>4. (\A k \in 1..n : a[k] \in Digit) /\ (\A k \in 1..n : b[k] \in Digit)
  <2>1. \A k \in 1..n : k \in 1..Len(a) /\ k \in 1..Len(b)
      OBVIOUS
  <2>2. (\A k \in 1..Len(a) : a[k] \in Digit) /\ (\A k \in 1..Len(b) : b[k] \in Digit)
      BY EachDigit, Zenon
  <2> QED
      BY <2>1, <2>2
<1>5. f[n - 1] \in Nat /\ f[n - 1] < Place(n - 1)
    BY <1>1, <1>3, <1>4, SumsBelow
<1>6. g[n - 1] \in Nat
    BY <1>2, <1>3, <1>4, SumsBelow
<1> DEFINE x == a[n]
           y == b[n]
           p == Place(n - 1)
<1>7. f[n] = f[n - 1] + x * p /\ g[n] = g[n - 1] + y * p
    BY <1>1, <1>2, <1>3 DEF Sums
<1>8. x \in Nat /\ y \in Nat /\ x < y /\ p \in Nat
    BY <1>3, <1>4, DigitIs, Places
<1> HIDE DEF x, y, p
<1>9. p * (x + 1) <= p * y
    BY <1>8, Monotone
<1>10. p * (x + 1) = x * p + p /\ p * y = y * p /\ x * p \in Nat /\ y * p \in Nat
    BY <1>8
<1> DEFINE t == f[n - 1]
           u == g[n - 1]
<1>11. t \in Nat /\ t < p /\ u \in Nat /\ f[n] = t + x * p /\ g[n] = u + y * p
    BY <1>5, <1>6, <1>7 DEF p
<1> HIDE DEF t, u
<1>12. f[n] < g[n]
    BY <1>8, <1>9, <1>10, <1>11
<1> QED
    BY <1>1, <1>2, <1>12

-----------------------------------------------------------------------------
(* The steps of a division *)

Literals == {"bin", "oct", "dec", "hex"}

\* Between two steps of x_divrem: Knuth's conditions on the operands, a remainder below the
\* divisor, and the zeros that the shift has left in both.
Dividing ==
    /\ op \in {"div", "mod"}
    /\ Shifted /\ at >= 0
    /\ Remaining < ValueOf(w)
    /\ v[1] % 2^d = 0 /\ w[1] % 2^d = 0

\* The estimate before the test, and after it
Estimated ==
    /\ at > 0
    /\ v[at + size_w] * BASE + v[at + size_w - 1] = w[size_w] * q + r
    /\ q \in DigitDue..DigitDue + 2 /\ q <= BASE + 1

Corrected == at > 0 /\ q \in DigitDue..DigitDue + 1 /\ q <= BASE

\* The inductive invariant
IntsInv ==
    /\ TypeOK /\ AssertsHold
    /\ Normal(left) /\ Normal(right)
    /\ result[1] = "int" => Normal(result[2])
    /\ pc = "ready" /\ op \in Literals => ~left.neg
    /\ pc \in {"idle", "ready", "done"} => quot = <<>>
    /\ pc \in {"estimate", "correct", "subtract"} => Dividing
    /\ pc = "correct" => Estimated
    /\ pc = "subtract" => Corrected

LEMMA DividingStays ==
    ASSUME Dividing, UNCHANGED <<op, v, w, d, quot>>
    PROVE  Dividing' /\ at' = at /\ size_w' = size_w /\ DigitDue' = DigitDue
<1>1. at' = at /\ size_w' = size_w
    BY DEF at, size_w
<1>2. Remaining' = Remaining /\ Extended' = Extended
    BY <1>1 DEF Remaining, Extended
<1>3. DigitDue' = DigitDue
    BY <1>2 DEF DigitDue
<1>4. Shifted'
    BY <1>1 DEF Dividing, Shifted
<1> QED
    BY <1>1, <1>2, <1>3, <1>4 DEF Dividing

\* The digits that are read
LEMMA DigitsRead ==
    ASSUME Shifted, at > 0
    PROVE  /\ v[at + size_w] \in Nat /\ v[at + size_w - 1] \in Nat /\ v[at + size_w - 2] \in Nat
           /\ w[size_w] \in Nat \ {0} /\ w[size_w - 1] \in Nat
<1>1. /\ v \in Seq(Digit) /\ w \in Seq(Digit) /\ BASE <= 2 * w[size_w]
      /\ at + size_w \in 1..Len(v) /\ at + size_w - 1 \in 1..Len(v) /\ at + size_w - 2 \in 1..Len(v)
      /\ size_w \in 1..Len(w) /\ size_w - 1 \in 1..Len(w)
    BY PlacesShifted
<1>2. /\ v[at + size_w] \in Digit /\ v[at + size_w - 1] \in Digit /\ v[at + size_w - 2] \in Digit
      /\ w[size_w] \in Digit /\ w[size_w - 1] \in Digit
    BY <1>1
<1>3. w[size_w] \in Nat /\ BASE <= 2 * w[size_w]
    BY <1>1, <1>2, DigitIs
<1>4. w[size_w] # 0
    BY <1>3, DigitSizes
<1> QED
    BY <1>2, <1>3, <1>4, DigitIs

\* The estimate is the quotient of two digits and the highest of the divisor.
LEMMA EstimateIs ==
    ASSUME Shifted, at > 0, Remaining < ValueOf(w), NEW e \in Int, NEW s \in Nat, s < w[size_w],
           v[at + size_w] * BASE + v[at + size_w - 1] = w[size_w] * e + s
    PROVE  e \in DigitDue..DigitDue + 2 /\ e <= BASE + 1 /\ v[at + size_w] <= w[size_w]
<1> DEFINE u1 == v[at + size_w]
           u2 == v[at + size_w - 1]
           u3 == v[at + size_w - 2]
           w1 == w[size_w]
           w2 == w[size_w - 1]
           D == DigitDue
<1>1. \E y, wl, rl, ul : Divided(BASE, y, w1, w2, wl, ValueOf(w), u1, u2, u3, rl, Remaining, ul, Extended, D)
    BY DividedIs
<1>2. u1 \in Nat /\ u2 \in Nat /\ w1 \in Nat \ {0} /\ D \in Nat
    BY DigitsRead, DigitDueIs
<1>3. u1 * BASE + u2 = w1 * e + s /\ s < w1
    OBVIOUS
<1> HIDE DEF u1, u2, u3, w1, w2, D
<1>4. PICK y, wl, rl, ul : Divided(BASE, y, w1, w2, wl, ValueOf(w), u1, u2, u3, rl, Remaining, ul, Extended, D)
    BY <1>1
<1>5. e \in Nat
  <2> SUFFICES ASSUME e <= -1 PROVE FALSE
      OBVIOUS
  <2>1. w1 * e <= w1 * (-1)
      BY <1>2, Monotone
  <2>2. w1 * (-1) = -w1 /\ w1 * e \in Int /\ u1 * BASE \in Nat
      BY <1>2, DigitSizes
  <2> QED
      BY <2>1, <2>2, <1>2, <1>3
<1>6. D <= e
    BY <1>3, <1>4, <1>5, EstimateEnough
<1>7. e <= D + 2 /\ e <= BASE + 1
    BY <1>3, <1>4, <1>5, EstimateHigh
<1>8. u1 <= w1
    BY <1>4, TopDigit
<1> QED
    BY <1>2, <1>5, <1>6, <1>7, <1>8 DEF u1, w1, D

LEMMA EstimateStep == ASSUME IntsInv, Estimate PROVE IntsInv' /\ pc' = "correct"
<1> USE DEF IntsInv, AssertsHold
<1>1. Dividing /\ pc = "estimate" /\ at > 0
    BY DEF Estimate
<1>2. Shifted /\ Remaining < ValueOf(w)
    BY <1>1 DEF Dividing
<1> DEFINE x == v[at + size_w]
           y == v[at + size_w - 1]
           z == w[size_w]
           vv == x * BASE + y
           e == vv \div z
           s == vv % z
<1>3. x \in Nat /\ y \in Nat /\ z \in Nat \ {0}
    BY <1>1, <1>2, DigitsRead
<1>4. q' = uint32(e) /\ r' = s /\ pc' = (IF x <= z THEN "correct" ELSE "abort")
    BY DEF Estimate, Continue
<1>5. e \in Int /\ s \in 0..z - 1 /\ vv = z * e + s
  <2> HIDE DEF x, y, z
  <2>1. vv \in Int
      BY <1>3, DigitSizes
  <2> HIDE DEF vv
  <2> QED
      BY <2>1, <1>3, Division
<1>6. e \in DigitDue..DigitDue + 2 /\ e <= BASE + 1 /\ x <= z
  <2>1. s \in Nat /\ s < z
      BY <1>3, <1>5
  <2>2. x * BASE + y = z * e + s
      BY <1>5
  <2> HIDE DEF e, s
  <2> QED
      BY <2>1, <2>2, <1>1, <1>2, <1>5, EstimateIs
<1> HIDE DEF e, s, vv
<1>7. DigitDue \in Nat
    BY <1>1, <1>2, DigitDueIs
<1>8. e \in Nat /\ e <= BASE + 1
    BY <1>6, <1>7
<1>9. uint32(e) = e
  <2> DEFINE m == 2^(SHIFT + 2)
  <2>1. m = 4 * BASE
    <3>1. SHIFT \in Nat /\ 2 \in Nat
        BY DigitSizes
    <3>2. 2^(SHIFT + 2) = 2^SHIFT * 2^2
        BY <3>1, TwoPowers
    <3>3. 2^2 = 4
        OBVIOUS
    <3> QED
        BY <3>2, <3>3, DigitSizes
  <2> HIDE DEF m
  <2>2. e = m * 0 + e /\ 0 <= e /\ e < m /\ e \in Int /\ 0 \in Int /\ m \in Nat \ {0}
      BY <2>1, <1>8, DigitSizes
  <2>3. e % m = e
      BY <2>2, Quotient, Zenon
  <2> QED
      BY <2>3 DEF uint32, m
<1>10. UNCHANGED <<op, left, right, result, v, w, d, quot>>
    BY DEF Estimate, Continue
<1>11. Dividing' /\ at' = at /\ size_w' = size_w /\ DigitDue' = DigitDue
    BY <1>1, <1>10, DividingStays
<1>12. pc' = "correct" /\ q' = e /\ r' = s
    BY <1>4, <1>6, <1>9
<1>13. Estimated'
  <2>1. x * BASE + y = z * e + s
      BY <1>5 DEF vv
  <2>2. (v[at + size_w] * BASE + v[at + size_w - 1])' = x * BASE + y /\ w[size_w]' = z
      BY <1>10, <1>11
  <2>3. (v[at + size_w] * BASE + v[at + size_w - 1])' = (w[size_w] * q + r)'
      BY <2>1, <2>2, <1>12
  <2> QED
      BY <2>3, <1>1, <1>6, <1>11, <1>12 DEF Estimated
<1>14. TypeOK'
  <2>1. q' \in 0..BASE + 1
      BY <1>8, <1>12, DigitSizes
  <2>2. r' \in Nat
      BY <1>3, <1>5, <1>12
  <2> QED
      BY <2>1, <2>2, <1>10, <1>12 DEF TypeOK
<1> QED
    BY <1>10, <1>11, <1>12, <1>13, <1>14 DEF Normal

\* A turn of the loop: the estimate was too large, and is not too small now.
LEMMA CorrectStep == ASSUME IntsInv, Correct PROVE IntsInv'
<1> USE DEF IntsInv, AssertsHold
<1>1. Dividing /\ pc = "correct" /\ Estimated
    BY DEF Correct
<1>2. Shifted /\ Remaining < ValueOf(w) /\ at > 0 /\ q \in Nat /\ r \in Nat
    BY <1>1 DEF Dividing, Estimated, TypeOK
<1> DEFINE u1 == v[at + size_w]
           u2 == v[at + size_w - 1]
           u3 == v[at + size_w - 2]
           w1 == w[size_w]
           w2 == w[size_w - 1]
           D == DigitDue
<1>3. u1 * BASE + u2 = w1 * q + r /\ q \in D..D + 2 /\ q <= BASE + 1
    BY <1>1 DEF Estimated
<1>4. \E y, wl, rl, ul : Divided(BASE, y, w1, w2, wl, ValueOf(w), u1, u2, u3, rl, Remaining, ul, Extended, D)
    BY <1>2, DividedIs
<1>5. u1 \in Nat /\ u2 \in Nat /\ u3 \in Nat /\ w1 \in Nat \ {0} /\ w2 \in Nat /\ D \in Nat
    BY <1>2, DigitsRead, DigitDueIs
<1>6. w2 * q > r * BASE + u3
    BY DEF Correct, TooLarge
<1>7. q' = q - 1 /\ r' = r + w1 /\ pc' = (IF r + w1 >= BASE THEN "subtract" ELSE "correct")
    BY DEF Correct
<1>8. UNCHANGED <<op, left, right, result, v, w, d, quot>>
    BY DEF Correct
<1>9. Dividing' /\ at' = at /\ size_w' = size_w /\ DigitDue' = DigitDue
    BY <1>1, <1>8, DividingStays
<1>10. (v[at + size_w] * BASE + v[at + size_w - 1])' = u1 * BASE + u2 /\ w[size_w]' = w1 /\ DigitDue' = D
    BY <1>8, <1>9
<1> HIDE DEF u1, u2, u3, w1, w2, D
<1>11. PICK y, wl, rl, ul : Divided(BASE, y, w1, w2, wl, ValueOf(w), u1, u2, u3, rl, Remaining, ul, Extended, D)
    BY <1>4
<1>12. D < q
    BY <1>2, <1>3, <1>6, <1>11, CorrectLow DEF Exceeding
<1> DEFINE e == q - 1
           s == r + w1
<1>13. e \in Nat /\ s \in Nat /\ e \in D..D + 1 /\ e <= BASE
  <2>1. q \in Nat /\ r \in Nat /\ w1 \in Nat /\ D \in Nat /\ BASE \in Nat /\ D < q /\ q <= D + 2 /\ q <= BASE + 1
      BY <1>2, <1>3, <1>5, <1>12, DigitSizes
  <2> QED
      BY <2>1
<1>14. u1 * BASE + u2 = w1 * e + s
  <2>1. w1 * (q - 1) = w1 * q - w1 /\ w1 * q \in Int
      BY <1>2, <1>5
  <2> QED
      BY <2>1, <1>2, <1>3, <1>5
<1>15. q' = e /\ r' = s /\ pc' \in {"subtract", "correct"}
    BY <1>7
<1> HIDE DEF e, s
<1>16. Estimated'
  <2>1. (v[at + size_w] * BASE + v[at + size_w - 1])' = (w[size_w] * q + r)'
      BY <1>10, <1>14, <1>15
  <2>2. q' \in DigitDue'..DigitDue' + 2 /\ q' <= BASE + 1
      BY <1>5, <1>10, <1>13, <1>15, DigitSizes
  <2> QED
      BY <2>1, <2>2, <1>2, <1>9 DEF Estimated
<1>17. Corrected'
  <2>1. q' \in DigitDue'..DigitDue' + 1 /\ q' <= BASE
      BY <1>10, <1>13, <1>15
  <2> QED
      BY <2>1, <1>2, <1>9 DEF Corrected
<1>18. TypeOK'
  <2>1. q' \in 0..BASE + 1 /\ r' \in Nat
      BY <1>13, <1>15, DigitSizes
  <2> QED
      BY <2>1, <1>8, <1>15 DEF TypeOK
<1> QED
    BY <1>8, <1>9, <1>15, <1>16, <1>17, <1>18 DEF Normal

\* The test fails: the estimate is at most one too large, and fits in the assert.
LEMMA AcceptStep == ASSUME IntsInv, Accept PROVE IntsInv' /\ pc' = "subtract"
<1> USE DEF IntsInv, AssertsHold
<1>1. Dividing /\ pc = "correct" /\ Estimated
    BY DEF Accept
<1>2. Shifted /\ Remaining < ValueOf(w) /\ at > 0 /\ q \in Nat /\ r \in Nat
    BY <1>1 DEF Dividing, Estimated, TypeOK
<1> DEFINE u1 == v[at + size_w]
           u2 == v[at + size_w - 1]
           u3 == v[at + size_w - 2]
           w1 == w[size_w]
           w2 == w[size_w - 1]
           D == DigitDue
<1>3. u1 * BASE + u2 = w1 * q + r /\ q \in D..D + 2
    BY <1>1 DEF Estimated
<1>4. \E y, wl, rl, ul : Divided(BASE, y, w1, w2, wl, ValueOf(w), u1, u2, u3, rl, Remaining, ul, Extended, D)
    BY <1>2, DividedIs
<1>5. D \in Nat
    BY <1>2, DigitDueIs
<1>6. ~ (w2 * q > r * BASE + u3)
    BY DEF Accept, TooLarge
<1>7. UNCHANGED <<op, left, right, result, v, w, d, quot, q, r>> /\ pc' = (IF q <= BASE THEN "subtract" ELSE "abort")
    BY DEF Accept, Continue, dividing
<1>8. Dividing' /\ at' = at /\ DigitDue' = DigitDue
    BY <1>1, <1>7, DividingStays
<1>9. DigitDue' = D
    BY <1>8
<1> HIDE DEF u1, u2, u3, w1, w2, D
<1>10. PICK y, wl, rl, ul : Divided(BASE, y, w1, w2, wl, ValueOf(w), u1, u2, u3, rl, Remaining, ul, Extended, D)
    BY <1>4
<1>11. ~ Exceeding(q, r, BASE, w2, u3)
    BY <1>6 DEF Exceeding
<1>12. q <= BASE /\ q <= D + 1
    BY <1>2, <1>3, <1>10, <1>11, AcceptCap, AcceptHigh
<1>13. Corrected'
    BY <1>2, <1>3, <1>5, <1>7, <1>8, <1>9, <1>12 DEF Corrected
<1>14. pc' = "subtract"
    BY <1>7, <1>12
<1>15. TypeOK'
    BY <1>7, <1>14 DEF TypeOK
<1> QED
    BY <1>7, <1>8, <1>13, <1>14, <1>15 DEF Normal

\* The digits a take the place of those that were divided.
LEMMA ReplacedIs ==
    ASSUME Shifted, at > 0, NEW a \in Seq(Digit), Len(a) = size_w
    PROVE  /\ Replaced(a) \in Seq(Digit) /\ Len(Replaced(a)) = Len(v)
           /\ SubSeq(Replaced(a), at, at + size_w - 1) = a
           /\ Replaced(a)[1] = IF at = 1 THEN a[1] ELSE v[1]
<1> DEFINE n == size_w
           z == Replaced(a)
           s == SubSeq(z, at, at + n - 1)
<1>1. v \in Seq(Digit) /\ at \in Int /\ n \in Nat /\ n >= 2 /\ at + n \in 1..Len(v) /\ Len(v) \in Nat
    BY PlacesShifted
<1>2. DOMAIN v = 1..Len(v) /\ DOMAIN a = 1..n
    BY <1>1
<1>3. z = [i \in 1..Len(v) |-> IF i \in at..at + n - 1 THEN a[i - at + 1] ELSE v[i]]
    BY <1>2 DEF Replaced
<1> HIDE DEF z
<1>4. z \in Seq(Digit) /\ Len(z) = Len(v)
  <2>1. ASSUME NEW i \in 1..Len(v)
        PROVE  (IF i \in at..at + n - 1 THEN a[i - at + 1] ELSE v[i]) \in Digit
    <3>1. i \in at..at + n - 1 => i - at + 1 \in 1..Len(a)
        BY <1>1
    <3> QED
        BY <3>1, <1>1
  <2> QED
      BY <2>1, <1>1, <1>3
<1>5. s = a
  <2> DEFINE i == at
             j == at + n - 1
  <2>1. i \in 1..Len(z) + 1 /\ j \in i - 1..Len(z) /\ j - i + 1 = n
      BY <1>1, <1>4
  <2> HIDE DEF i, j
  <2>2. /\ SubSeq(z, i, j) \in Seq(Digit) /\ Len(SubSeq(z, i, j)) = j - i + 1
        /\ \A k \in 1..j - i + 1 : SubSeq(z, i, j)[k] = z[i + k - 1]
      BY <2>1, <1>4, PartIs
  <2>3. s \in Seq(Digit) /\ Len(s) = n /\ \A k \in 1..n : s[k] = z[at + k - 1]
      BY <2>1, <2>2 DEF i, j
  <2> HIDE DEF s
  <2>4. ASSUME NEW k \in 1..n
        PROVE  s[k] = a[k]
    <3>1. at + k - 1 \in at..at + n - 1 /\ at + k - 1 \in 1..Len(v) /\ (at + k - 1) - at + 1 = k
        BY <1>1
    <3>2. z[at + k - 1] = a[(at + k - 1) - at + 1]
        BY <3>1, <1>3
    <3> QED
        BY <3>1, <3>2, <2>3
  <2> QED
      BY <2>3, <2>4, SeqEqual
<1>6. z[1] = IF at = 1 THEN a[1] ELSE v[1]
  <2>1. 1 \in 1..Len(v) /\ (1 \in at..at + n - 1 <=> at = 1) /\ 1 - 1 + 1 = 1
      BY <1>1
  <2> QED
      BY <2>1, <1>3
<1> QED
    BY <1>4, <1>5, <1>6 DEF z

\* The lowest digit of the difference keeps the zeros that the shift has left.
LEMMA DifferenceZeros ==
    ASSUME Shifted, at > 0, q \in Nat, NEW e \in 0..SHIFT, v[at] % 2^e = 0, w[1] % 2^e = 0
    PROVE  Difference.v[1] % 2^e = 0
<1>1. PICK z : Borrowing(z)
    BY DifferenceChain
<1>2. at \in Int /\ size_w \in Nat /\ size_w >= 2 /\ at \in 1..Len(v) /\ 1 \in 1..Len(w)
  <2>1. at \in Int /\ size_w \in Nat /\ size_w = Len(w) /\ at + size_w \in 1..Len(v) /\ Len(v) \in Nat /\ Len(w) >= 2
      BY PlacesShifted
  <2> QED
      BY <2>1
<1>3. 1 \in 1..size_w /\ at + 1 - 1 = at
    BY <1>2
<1>4. z[1] = v[at + 1 - 1] - q * w[1] + 0 /\ Difference.v[1] = z[1] % BASE
    BY <1>1, <1>3 DEF Borrowing
<1>5. v[at] \in Int /\ w[1] \in Int
  <2>1. v[at] \in Digit /\ w[1] \in Digit
      BY <1>2 DEF Shifted
  <2> QED
      BY <2>1, DigitIs
<1> DEFINE x == v[at]
           y == w[1]
           t == x - q * y
<1>6. x \in Int /\ y \in Int /\ x % 2^e = 0 /\ y % 2^e = 0 /\ z[1] = v[at] - q * w[1] + 0
    BY <1>3, <1>4, <1>5
<1>7. z[1] = t + 0
    BY <1>6
<1> HIDE DEF x, y
<1>8. t % 2^e = 0 /\ t \in Int
  <2>1. q \in Int
      OBVIOUS
  <2>2. t % 2^e = 0
      BY <2>1, <1>6, ZerosAdd
  <2> QED
      BY <2>1, <2>2, <1>6
<1>9. (t % BASE) % 2^e = 0
  <2> HIDE DEF t
  <2> QED
      BY <1>8, ZerosKept
<1>10. z[1] = t
    BY <1>7, <1>8
<1> QED
    BY <1>4, <1>9, <1>10

LEMMA PlusZeros ==
    ASSUME Shifted, NEW a \in Seq(Digit), Len(a) = size_w, NEW e \in 0..SHIFT, a[1] % 2^e = 0, w[1] % 2^e = 0
    PROVE  PlusDivisor(a)[1] % 2^e = 0
<1>1. size_w \in Nat /\ size_w >= 2 /\ size_w = Len(w) /\ w \in Seq(Digit)
    BY DEF Shifted, size_w
<1>2. \A i \in 1..size_w : a[i] \in Digit
    BY EachDigit
<1>3. PICK z : Carrying(z, a)
    BY <1>2, PlusChain
<1>4. 1 \in 1..size_w /\ 1 \in 1..Len(w) /\ 1 \in 1..Len(a)
    BY <1>1
<1>5. z[1] = a[1] + w[1] + 0 /\ PlusDivisor(a)[1] = z[1] % BASE
    BY <1>3, <1>4 DEF Carrying
<1>6. a[1] \in Int /\ w[1] \in Int
  <2>1. a[1] \in Digit /\ w[1] \in Digit
      BY <1>1, <1>4
  <2> QED
      BY <2>1, DigitIs
<1> DEFINE x == a[1]
           y == w[1]
           t == x + y
<1>7. x \in Int /\ y \in Int /\ x % 2^e = 0 /\ y % 2^e = 0 /\ z[1] = t + 0
    BY <1>5, <1>6
<1> HIDE DEF x, y
<1>8. t % 2^e = 0 /\ t \in Int
  <2>1. 0 \in Int
      OBVIOUS
  <2>2. t % 2^e = 0
      BY <2>1, <1>7, ZerosAdd
  <2> QED
      BY <2>2, <1>7
<1>9. (t % BASE) % 2^e = 0
  <2> HIDE DEF t
  <2> QED
      BY <1>8, ZerosKept
<1>10. z[1] = t
    BY <1>7, <1>8
<1> QED
    BY <1>5, <1>9, <1>10

\* One more digit of the quotient: the asserts hold, and what is left is below the divisor.
LEMMA SubtractStep ==
    ASSUME IntsInv, Subtract
    PROVE  IntsInv' /\ pc' = "estimate" /\ quot' = <<DigitDue>> \o quot
<1> USE DEF IntsInv, AssertsHold
<1>1. Dividing /\ pc = "subtract" /\ Corrected /\ TypeOK
    BY DEF Subtract
<1>2. Shifted /\ Remaining < ValueOf(w) /\ at > 0 /\ q \in DigitDue..DigitDue + 1
      /\ v[1] % 2^d = 0 /\ w[1] % 2^d = 0 /\ d \in 0..SHIFT - 1
    BY <1>1 DEF Dividing, Corrected, TypeOK
<1> DEFINE s == Difference.v
           rest == v[at + size_w] + Difference.borrow
           a == IF rest < 0 THEN PlusDivisor(s) ELSE s
           digit == IF rest < 0 THEN q - 1 ELSE q
<1>3. /\ v' = Replaced(IF rest < 0 THEN PlusDivisor(s) ELSE s)
      /\ quot' = <<digit>> \o quot
      /\ pc' = (IF rest \in {-1, 0} /\ digit < BASE THEN "estimate" ELSE "abort")
      /\ UNCHANGED <<op, left, right, result, w, d, q, r>>
    BY DEF Subtract, Continue
<1>4. DigitDue \in Nat /\ DigitDue < BASE
    BY <1>2, DigitDueIs
<1>5. q \in Nat
    BY <1>2, <1>4
<1>6. /\ rest \in {-1, 0} /\ digit = DigitDue
      /\ a \in Seq(Digit) /\ Len(a) = size_w /\ ValueOf(a) < ValueOf(w)
    BY <1>2, SubtractIs
<1>7. s \in Seq(Digit) /\ Len(s) = size_w
    BY <1>2, <1>5, DifferenceValue
<1>8. v[at] % 2^d = 0 /\ at = 1 => a[1] % 2^d = 0
  <2> HAVE v[at] % 2^d = 0 /\ at = 1
  <2>1. d \in 0..SHIFT
      BY <1>2, DigitSizes
  <2>2. s[1] % 2^d = 0
      BY <2>1, <1>2, <1>5, DifferenceZeros
  <2> HIDE DEF s, rest
  <2>3. PlusDivisor(s)[1] % 2^d = 0
      BY <2>1, <2>2, <1>2, <1>7, PlusZeros
  <2> QED
      BY <2>2, <2>3
<1>9. v' = Replaced(a) /\ quot' = <<DigitDue>> \o quot /\ pc' = "estimate"
    BY <1>3, <1>4, <1>6
<1> HIDE DEF a, rest, digit, s
<1>10. /\ v' \in Seq(Digit) /\ Len(v') = Len(v)
       /\ SubSeq(v', at, at + size_w - 1) = a
       /\ v'[1] = IF at = 1 THEN a[1] ELSE v[1]
    BY <1>2, <1>6, <1>9, ReplacedIs
<1>11. quot' \in Seq(Digit) /\ Len(quot') = Len(quot) + 1
  <2>1. DigitDue \in Digit
      BY <1>4, DigitSizes DEF Digit
  <2>2. <<DigitDue>> \in Seq(Digit) /\ Len(<<DigitDue>>) = 1
      BY <2>1
  <2>3. quot \in Seq(Digit)
      BY <1>2 DEF Shifted
  <2> QED
      BY <2>2, <2>3, <1>9, ConcatProperties
<1>12. at' = at - 1 /\ size_w' = size_w /\ at \in Int
  <2>1. Len(v) \in Nat /\ Len(w) \in Nat /\ Len(quot) \in Nat /\ Len(w') = Len(w)
      BY <1>2, <1>3 DEF Shifted
  <2>2. at = Len(v) - Len(w) - Len(quot) /\ at' = Len(v') - Len(w') - Len(quot')
      BY DEF at, size_w
  <2>3. size_w' = size_w
      BY <1>3 DEF size_w
  <2> QED
      BY <2>1, <2>2, <2>3, <1>10, <1>11
<1>13. Remaining' = ValueOf(a) /\ ValueOf(w)' = ValueOf(w)
  <2>1. at' + 1 = at /\ at' + size_w' = at + size_w - 1
    <3>1. size_w \in Nat
        BY <1>2 DEF Shifted, size_w
    <3> QED
        BY <3>1, <1>12
  <2>2. Remaining' = ValueOf(SubSeq(v', at' + 1, at' + size_w'))
      BY DEF Remaining
  <2>3. Remaining' = ValueOf(SubSeq(v', at, at + size_w - 1))
      BY <2>1, <2>2
  <2> QED
      BY <2>3, <1>3, <1>10
<1>14. Shifted'
    BY <1>2, <1>3, <1>10, <1>11, <1>12 DEF Shifted
<1>15. v'[1] % 2^d' = 0 /\ w'[1] % 2^d' = 0
    BY <1>2, <1>3, <1>8, <1>10
<1>16. Dividing'
    BY <1>1, <1>2, <1>3, <1>6, <1>12, <1>13, <1>14, <1>15 DEF Dividing
<1>17. TypeOK'
    BY <1>1, <1>3, <1>9, <1>10, <1>11 DEF TypeOK, Digit
<1> QED
    BY <1>3, <1>9, <1>16, <1>17 DEF Normal

\* What x_divrem starts with: the remainder, the highest digits of the dividend, is below the
\* divisor, as its top digit is.
LEMMA StartBelow ==
    ASSUME NEW a \in Seq(Digit), NEW b \in Seq(Digit), NEW i \in Nat, NEW n \in Nat, n = Len(b), n >= 1,
           i + n = Len(a), a[i + n] < b[n]
    PROVE  ValueOf(SubSeq(a, i + 1, i + n)) < ValueOf(b)
<1> DEFINE k == i + 1
           j == i + n
           z == SubSeq(a, k, j)
<1>1. k \in 1..Len(a) + 1 /\ j \in k - 1..Len(a) /\ j - k + 1 = n /\ k + n - 1 = j
    OBVIOUS
<1> HIDE DEF k, j
<1>2. z \in Seq(Digit) /\ Len(z) = n /\ z[n] = a[j]
  <2>1. /\ SubSeq(a, k, j) \in Seq(Digit) /\ Len(SubSeq(a, k, j)) = j - k + 1
        /\ \A m \in 1..j - k + 1 : SubSeq(a, k, j)[m] = a[k + m - 1]
      BY <1>1, PartIs
  <2>2. n \in 1..j - k + 1
      BY <1>1
  <2> QED
      BY <2>1, <2>2, <1>1
<1>3. z[n] < b[n]
    BY <1>2 DEF j
<1> HIDE DEF z
<1>4. ValueOf(z) < ValueOf(b)
    BY <1>2, <1>3, TopLess
<1> QED
    BY <1>4 DEF z, k, j

LEMMA StartStep == ASSUME IntsInv, StartDivision PROVE IntsInv' /\ pc' = "estimate"
<1> USE DEF IntsInv, AssertsHold
<1> DEFINE a == v_lshift(left.v, d')
           carry == v_lshift_carry(left.v, d')
           n == Len(right.v)
           x == right.v[n]
<1>1. /\ left.v \in Seq(Digit) /\ right.v \in Seq(Digit) /\ n >= 2 /\ pc = "ready" /\ quot = <<>>
      /\ n \in Nat /\ Len(left.v) \in Nat
    BY NormalDigits DEF StartDivision
<1>2. Len(left.v) >= n
    BY <1>1 DEF StartDivision, Smaller
<1>3. right.v # <<>> /\ n \in DOMAIN right.v /\ x # 0 /\ x \in Digit /\ left.v # <<>>
  <2>1. right.v # <<>> /\ n \in DOMAIN right.v /\ left.v # <<>>
      BY <1>1, <1>2, EmptySeq
  <2> QED
      BY <1>1, <2>1 DEF Normal, Vector
<1>4. Shifts(x, d')
  <2>1. Top(right) = x
      BY <1>3 DEF Top, At
  <2>2. d' = SHIFT - bits_in_digit(x)
      BY <2>1 DEF StartDivision
  <2> HIDE DEF x
  <2> QED
      BY <2>2, <1>3, ShiftIs
<1>5. d' \in 0..SHIFT - 1 /\ d' \in 0..SHIFT
    BY <1>4, DigitSizes DEF Shifts
<1>6. w' = v_lshift(right.v, d')
    BY DEF StartDivision
<1>7. /\ w' \in Seq(Digit) /\ Len(w') = n
      /\ a \in Seq(Digit) /\ Len(a) = Len(left.v) /\ carry \in Digit
    BY <1>1, <1>5, <1>6, LeftDigits
<1>8. v_lshift_carry(right.v, d') = 0 /\ w'[n] \in Nat /\ BASE <= 2 * w'[n]
    BY <1>1, <1>4, <1>6, DivisorTop
<1>9. carry \in Nat /\ carry < w'[n]
    BY <1>1, <1>3, <1>4, <1>8, CarryLess
<1>10. v' = (IF carry # 0 \/ a[Len(a)] >= w'[n] THEN Append(a, carry) ELSE a)
       /\ pc' = (IF v_lshift_carry(right.v, d') = 0 THEN "estimate" ELSE "abort")
       /\ UNCHANGED <<op, left, right, result, quot, q, r>> /\ op \in {"div", "mod"}
    BY <1>7 DEF StartDivision, Continue
<1>11. a[1] % 2^d' = 0 /\ w'[1] % 2^d' = 0
  <2>1. Len(left.v) >= 1 /\ Len(right.v) >= 1
      BY <1>1, <1>2
  <2> QED
      BY <2>1, <1>1, <1>5, <1>6, LowZeros
<1>12. 1 \in 1..Len(a) /\ Len(a) \in 1..Len(a) /\ a[Len(a)] \in Nat /\ Len(a) \in Nat /\ Len(a) >= n
  <2>1. 1 \in 1..Len(a) /\ Len(a) \in 1..Len(a) /\ Len(a) \in Nat /\ Len(a) >= n
      BY <1>1, <1>2, <1>7
  <2>2. a[Len(a)] \in Digit
      BY <2>1, <1>7
  <2> QED
      BY <2>1, <2>2, DigitIs
<1> HIDE DEF a, carry, n, x
<1>13. /\ v' \in Seq(Digit) /\ v'[1] = a[1] /\ Len(v') \in Nat /\ Len(v') >= n
       /\ v'[Len(v')] < w'[n]
  <2>1. CASE carry # 0 \/ a[Len(a)] >= w'[n]
    <3>1. v' = Append(a, carry)
        BY <2>1, <1>10
    <3>2. v' \in Seq(Digit) /\ Len(v') = Len(a) + 1 /\ v'[1] = a[1] /\ v'[Len(a) + 1] = carry
        BY <3>1, <1>7, <1>12, AppendProperties
    <3> QED
        BY <3>2, <1>1, <1>9, <1>12
  <2>2. CASE ~ (carry # 0 \/ a[Len(a)] >= w'[n])
    <3>1. v' = a
        BY <2>2, <1>10
    <3> QED
        BY <3>1, <2>2, <1>7, <1>8, <1>12
  <2> QED
      BY <2>1, <2>2
<1>14. quot' = <<>> /\ Len(quot') = 0 /\ quot' \in Seq(Digit)
    BY <1>1, <1>10, EmptySeq
<1>15. size_w' = n /\ at' \in Nat /\ at' + n = Len(v')
  <2>1. size_w' = Len(w') /\ at' = Len(v') - Len(w') - Len(quot')
      BY DEF at, size_w
  <2>2. size_w' = n /\ at' = Len(v') - n - 0
      BY <2>1, <1>7, <1>14
  <2> QED
      BY <2>2, <1>1, <1>13
<1>16. Shifted'
    BY <1>1, <1>7, <1>8, <1>13, <1>14, <1>15 DEF Shifted
<1>17. Remaining' < ValueOf(w)'
  <2>1. n >= 1
      BY <1>1
  <2> DEFINE i == at'
  <2>2. i \in Nat /\ i + n = Len(v') /\ n = Len(w')
      BY <1>7, <1>15
  <2> HIDE DEF i
  <2>3. v'[i + n] < w'[n]
      BY <1>13, <2>2, Zenon
  <2>4. ValueOf(SubSeq(v', i + 1, i + n)) < ValueOf(w')
      BY <2>1, <2>2, <2>3, <1>1, <1>7, <1>13, StartBelow
  <2>5. Remaining' = ValueOf(SubSeq(v', at' + 1, at' + size_w'))
      BY DEF Remaining
  <2>6. Remaining' = ValueOf(SubSeq(v', i + 1, i + n))
      BY <2>5, <1>15 DEF i
  <2>7. ValueOf(w)' = ValueOf(w')
      OBVIOUS
  <2> QED
      BY <2>4, <2>6, <2>7
<1>18. Dividing'
  <2>1. at' >= 0
      BY <1>15
  <2> QED
      BY <2>1, <1>10, <1>11, <1>13, <1>16, <1>17 DEF Dividing
<1>19. pc' = "estimate"
    BY <1>8, <1>10
<1>20. TypeOK'
    BY <1>5, <1>7, <1>10, <1>13, <1>14, <1>19 DEF TypeOK, Digit
<1> QED
    BY <1>10, <1>18, <1>19, <1>20 DEF Normal

\* The last step: what the shift has left of the remainder is zeros.
LEMMA EndStep == ASSUME IntsInv, EndDivision PROVE IntsInv' /\ pc' = "done"
<1> USE DEF IntsInv, AssertsHold
<1>1. Dividing /\ pc = "estimate" /\ at = 0 /\ TypeOK
    BY DEF EndDivision
<1>2. Shifted /\ v[1] % 2^d = 0 /\ d \in 0..SHIFT - 1
    BY <1>1 DEF Dividing, TypeOK
<1>3. v \in Seq(Digit) /\ size_w \in 0..Len(v) /\ size_w >= 2 /\ quot \in Seq(Digit)
  <2>1. /\ v \in Seq(Digit) /\ size_w \in Nat /\ at + size_w = Len(v) - Len(quot) /\ size_w = Len(w)
        /\ Len(quot) \in Nat /\ Len(v) \in Nat /\ Len(w) >= 2 /\ quot \in Seq(Digit)
      BY <1>2, PlacesRead DEF Shifted
  <2> QED
      BY <2>1, <1>1
<1> DEFINE rem == SubSeq(v, 1, size_w)
           x == Make(left.neg # right.neg, int_normalize(quot))
           y == Make(left.neg, int_normalize(v_rshift(rem, d)))
<1>4. Normal(x)
    BY <1>3, NormalizeVector, MakeNormal DEF Digit
<1>5. rem \in Seq(Digit) /\ rem[1] = v[1]
  <2>1. 1 \in 1..size_w
      BY <1>3
  <2> DEFINE k == size_w
  <2>2. k \in 0..Len(v) /\ 1 \in 1..k
      BY <2>1, <1>3
  <2> HIDE DEF k
  <2>3. SubSeq(v, 1, k) \in Seq(Digit) /\ \A i \in 1..k : SubSeq(v, 1, k)[i] = v[i]
      BY <2>2, <1>3, Prefix
  <2> QED
      BY <2>2, <2>3 DEF k
<1>6. Normal(y)
  <2>1. d \in 0..SHIFT
      BY <1>2, DigitSizes
  <2>2. v_rshift(rem, d) \in Seq(Digit)
      BY <2>1, <1>5, RightDigits
  <2> HIDE DEF rem
  <2> QED
      BY <2>2, NormalizeVector, MakeNormal DEF Digit
<1>7. result' = <<"int", IF op = "div" THEN x ELSE y>> /\ pc' = (IF rem[1] % 2^d = 0 THEN "done" ELSE "abort")
    BY DEF EndDivision, Return
<1>8. /\ v' = <<>> /\ w' = <<>> /\ d' = 0 /\ quot' = <<>> /\ q' = 0 /\ r' = 0
      /\ UNCHANGED <<op, left, right>>
    BY DEF EndDivision, Return
<1> HIDE DEF x, y, rem
<1>9. pc' = "done"
    BY <1>2, <1>5, <1>7
<1>10. Normal(result[2])'
    BY <1>4, <1>6, <1>7 DEF Normal
<1>11. TypeOK'
  <2>1. 0 \in 0..SHIFT - 1 /\ 0 \in 0..BASE + 1 /\ <<>> \in Seq(0..MASK)
      BY DigitSizes, EmptySeq
  <2> QED
      BY <2>1, <1>1, <1>8, <1>9 DEF TypeOK
<1> QED
    BY <1>7, <1>8, <1>9, <1>10, <1>11 DEF Normal

-----------------------------------------------------------------------------
(* The other actions *)

\* An operation whose asserts hold, and that returns a normal number, keeps the invariant.
LEMMA ReturnStep ==
    ASSUME IntsInv, NEW o, NEW x, NEW asserts, Checked(o, x, asserts), asserts, x[1] = "int" => Normal(x[2])
    PROVE  IntsInv'
<1>1. /\ pc' = "done" /\ result' = x /\ pc = "ready"
      /\ UNCHANGED <<op, left, right, v, w, d, quot, q, r>>
    BY DEF Checked, Return, dividing
<1>2. (result[1] = "int" => Normal(result[2]))'
    BY <1>1 DEF Normal
<1>3. TypeOK'
    BY <1>1 DEF IntsInv, TypeOK
<1>4. quot' = <<>>
    BY <1>1 DEF IntsInv
<1> QED
    BY <1>1, <1>2, <1>3, <1>4 DEF IntsInv, AssertsHold, Normal

LEMMA OperationStep ==
    ASSUME IntsInv, NEW o, NEW x, Operation(o, x), x[1] = "int" => Normal(x[2])
    PROVE  IntsInv'
BY ReturnStep DEF Operation

LEMMA TakeStep == ASSUME IntsInv, Take PROVE IntsInv'
<1>1. PICK p \in Operands : /\ left' = COInt_FromLong(p[1])
                            /\ right' = COInt_FromLong(p[2])
                            /\ Possible(op', left', right')
    BY DEF Take
<1>2. p[1] \in Int /\ p[2] \in Int
    BY IntsAssumption
<1>3. Normal(COInt_FromLong(p[1])) /\ Normal(COInt_FromLong(p[2]))
    BY <1>2, FromLongNormal
<1>4. Normal(left)' /\ Normal(right)'
    BY <1>1, <1>3 DEF Normal
<1>5. pc' = "ready" /\ op' \in Exact!Ops /\ UNCHANGED <<result, v, w, d, quot, q, r>> /\ pc = "idle"
    BY DEF Take, dividing
<1>6. op' \in Literals => ~left'.neg
    BY <1>1 DEF Possible, Literals
<1>7. TypeOK'
    BY <1>5 DEF IntsInv, TypeOK
<1>8. quot' = <<>>
    BY <1>5 DEF IntsInv
<1> QED
    BY <1>4, <1>5, <1>6, <1>7, <1>8 DEF IntsInv, AssertsHold, Normal

LEMMA ReleaseStep == ASSUME IntsInv, Release PROVE IntsInv'
<1>1. Normal(Zero)
    BY EmptySeq, MakeNormal DEF Zero, Vector
<1>2. Normal(left)' /\ Normal(right)'
    BY <1>1 DEF Release, Normal
<1>3. pc' = "idle" /\ op' = "none" /\ result' = <<"none">> /\ UNCHANGED <<v, w, d, quot, q, r>> /\ pc = "done"
    BY DEF Release, dividing
<1>4. result'[1] # "int"
    BY <1>3
<1>5. TypeOK'
    BY <1>3 DEF IntsInv, TypeOK
<1>6. quot' = <<>>
    BY <1>3 DEF IntsInv
<1> QED
    BY <1>2, <1>3, <1>4, <1>5, <1>6 DEF IntsInv, AssertsHold

LEMMA ShiftStep == ASSUME IntsInv, Lshift \/ Rshift PROVE IntsInv'
<1> DEFINE n == COInt_AsSsize_t(right)
           k == n.value
<1>1. k \in Int /\ Normal(left)
    BY SsizeIs DEF IntsInv
<1>2. left.v \in Seq(Digit)
    BY <1>1, NormalDigits
<1>3. ASSUME Lshift
      PROVE  IntsInv'
  <2>1. \/ Operation("lshift", <<"OverflowError">>)
        \/ Operation("lshift", <<"ValueError">>)
        \/ k >= 0 /\ Operation("lshift", <<"int", Make(left.neg, int_lshift(left.v, k))>>)
      BY <1>3 DEF Lshift
  <2> HIDE DEF n, k
  <2>2. k >= 0 => Normal(Make(left.neg, int_lshift(left.v, k)))
    <3> HAVE k >= 0
    <3>1. k \in Nat
        BY <1>1
    <3> QED
        BY <3>1, <1>2, LshiftVector, MakeNormal
  <2> QED
      BY <2>1, <2>2, OperationStep
<1>4. ASSUME Rshift
      PROVE  IntsInv'
  <2> DEFINE x == Make(FALSE, int_rshift(left.v, k))
             y == int_invert(Make(FALSE, int_rshift(int_invert(left).v, k)))
  <2>1. \/ Operation("rshift", <<"OverflowError">>)
        \/ Operation("rshift", <<"ValueError">>)
        \/ k >= 0 /\ Operation("rshift", <<"int", x>>)
        \/ k >= 0 /\ Operation("rshift", <<"int", y>>)
      BY <1>4 DEF Rshift
  <2> HIDE DEF n, k
  <2>2. k >= 0 => Normal(x) /\ Normal(y)
    <3> HAVE k >= 0
    <3>1. k \in Nat
        BY <1>1
    <3>2. int_invert(left).v \in Seq(Digit)
        BY <1>1, InvertNormal, NormalDigits
    <3> QED
        BY <3>1, <3>2, <1>2, RshiftVector, MakeNormal, InvertNormal
  <2> HIDE DEF x, y
  <2> QED
      BY <2>1, <2>2, OperationStep
<1> QED
    BY <1>3, <1>4

LEMMA LiteralStep == ASSUME IntsInv, BinaryLiteral \/ DecimalLiteral PROVE IntsInv'
<1> DEFINE k == Number(left)
<1>1. op \in Literals /\ pc = "ready"
  <2>1. CASE DecimalLiteral
    <3>1. \E x, y : Checked("dec", x, y)
        BY <2>1 DEF DecimalLiteral
    <3> QED
        BY <3>1 DEF Checked, Literals
  <2>2. CASE BinaryLiteral
    <3>1. \E lit \in {<<"bin", 1>>, <<"oct", 3>>, <<"hex", 4>>} : \E x, y : Checked(lit[1], x, y)
        BY <2>2 DEF BinaryLiteral
    <3> QED
        BY <3>1 DEF Checked, Literals
  <2> QED
      BY <2>1, <2>2
<1>2. k \in Nat
  <2>1. left.v \in Seq(Digit) /\ ~left.neg
      BY <1>1, NormalDigits DEF IntsInv
  <2> QED
      BY <2>1, NumberIs
<1>3. ASSUME BinaryLiteral
      PROVE  IntsInv'
  <2>1. PICK zeros \in 0..SHIFT, lit \in {<<"bin", 1>>, <<"oct", 3>>, <<"hex", 4>>} :
            LET s == [i \in 1..zeros |-> 0] \o Exact!Numeral(Number(left), 2^lit[2])
                digits == int_from_binary_base(s, lit[2])
            IN  Checked(lit[1], <<"int", Make(FALSE, int_normalize(digits))>>,
                        Len(digits) <= BinarySize(Len(s), lit[2]))
      BY <1>3 DEF BinaryLiteral
  <2> DEFINE e == lit[2]
             b == 2^e
             x == [i \in 1..zeros |-> 0]
             y == Exact!Numeral(k, b)
             s == x \o y
             digits == int_from_binary_base(s, e)
  <2>2. e \in 1..SHIFT /\ e \in Nat /\ e >= 1
      BY DigitSizes
  <2>3. zeros \in Nat
      OBVIOUS
  <2>4. Checked(lit[1], <<"int", Make(FALSE, int_normalize(digits))>>, Len(digits) <= BinarySize(Len(s), e))
      BY <2>1
  <2> HIDE DEF e
  <2>5. b \in Nat /\ b >= 2
    <3>1. e - 1 \in Nat /\ e - 1 + 1 = e
        BY <2>2
    <3>2. 2^(e - 1) \in Nat \ {0} /\ 2^(e - 1 + 1) = 2 * 2^(e - 1)
        BY <3>1, Powers
    <3> QED
        BY <3>1, <3>2
  <2> HIDE DEF b, k
  <2>6. y \in Seq(0..b - 1)
      BY <2>5, <1>2, NumeralIs
  <2>7. x \in Seq(0..b - 1)
    <3>1. 0 \in 0..b - 1
        BY <2>5
    <3> QED
        BY <3>1, <2>3
  <2> HIDE DEF x, y
  <2>8. s \in Seq(0..2^e - 1)
      BY <2>6, <2>7, ConcatProperties DEF b
  <2> HIDE DEF s
  <2>9. digits \in Seq(Digit) /\ Len(digits) <= BinarySize(Len(s), e)
      BY <2>2, <2>8, BinaryIs
  <2> HIDE DEF digits
  <2>10. Normal(Make(FALSE, int_normalize(digits)))
      BY <2>9, NormalizeVector, MakeNormal DEF Digit
  <2> QED
      BY <2>4, <2>9, <2>10, ReturnStep
<1>4. ASSUME DecimalLiteral
      PROVE  IntsInv'
  <2> DEFINE s == Exact!Numeral(k, 10)
             digits == FromDigits(s, 10)
  <2>1. Checked("dec", <<"int", Make(FALSE, int_normalize(digits))>>, Len(digits) <= DecimalSize(Len(s), 10))
      BY <1>4 DEF DecimalLiteral
  <2> HIDE DEF k
  <2>2. s \in Seq(0..9)
    <3>1. 10 \in Nat /\ 10 >= 2 /\ 10 - 1 = 9
        OBVIOUS
    <3>2. s \in Seq(0..10 - 1)
        BY <3>1, <1>2, NumeralIs, Zenon
    <3> QED
        BY <3>1, <3>2
  <2> HIDE DEF s
  <2>3. digits \in Seq(Digit) /\ Len(digits) <= DecimalSize(Len(s), 10)
      BY <2>2, DecimalValue, DecimalRoom
  <2> HIDE DEF digits
  <2>4. Normal(Make(FALSE, int_normalize(digits)))
      BY <2>3, NormalizeVector, MakeNormal DEF Digit
  <2> DEFINE x == <<"int", Make(FALSE, int_normalize(digits))>>
  <2>5. x[1] = "int" => Normal(x[2])
      BY <2>4
  <2> HIDE DEF x
  <2>6. \E y : y /\ Checked("dec", x, y)
      BY <2>1, <2>3 DEF x
  <2> QED
      BY <2>5, <2>6, ReturnStep
<1> QED
    BY <1>3, <1>4

LEMMA SmallDivisionStep == ASSUME IntsInv, DivideByZero \/ DivideSmaller \/ DivideByDigit PROVE IntsInv'
<1>1. Normal(left) /\ Normal(right) /\ left.v \in Seq(Digit) /\ right.v \in Seq(Digit)
    BY NormalDigits DEF IntsInv
<1>2. ASSUME NEW x, NEW y, DivRem(x, y), x[1] = "int" => Normal(x[2]), y[1] = "int" => Normal(y[2])
      PROVE  IntsInv'
    BY <1>2, OperationStep DEF DivRem
<1>3. CASE DivideByZero
    BY <1>2, <1>3 DEF DivideByZero
<1>4. CASE DivideSmaller
  <2>1. DivRem(<<"int", COInt_FromLong(0)>>, <<"int", left>>)
      BY <1>4 DEF DivideSmaller
  <2>2. Normal(COInt_FromLong(0))
      BY FromLongNormal
  <2> QED
      BY <2>1, <2>2, <1>1, <1>2
<1>5. CASE DivideByDigit
  <2> DEFINE n == right.v[1]
             res == divrem1(left.v, n)
             x == Make(left.neg # right.neg, res.q)
             y == Make(left.neg, COInt_FromLong(res.r).v)
  <2>1. Len(right.v) = 1 /\ DivRem(<<"int", x>>, <<"int", y>>)
      BY <1>5 DEF DivideByDigit
  <2>2. n \in Nat \ {0}
    <3>1. right.v # <<>> /\ 1 \in DOMAIN right.v
        BY <2>1, <1>1, EmptySeq
    <3>2. n \in Digit /\ n # 0
        BY <3>1, <2>1, <1>1 DEF Normal, Vector
    <3> HIDE DEF n
    <3> QED
        BY <3>2, DigitIs
  <2> HIDE DEF n
  <2>3. Vector(res.q) /\ res.r \in Nat
      BY <2>2, <1>1, DivremVector
  <2>4. Normal(x)
      BY <2>3, MakeNormal
  <2>5. Normal(y)
    <3>1. res.r \in Int
        BY <2>3
    <3> HIDE DEF res
    <3>2. Vector(COInt_FromLong(res.r).v)
        BY <3>1, FromLongNormal DEF Normal
    <3> QED
        BY <3>2, MakeNormal
  <2> HIDE DEF x, y
  <2> QED
      BY <2>1, <2>4, <2>5, <1>2
<1> QED
    BY <1>3, <1>4, <1>5

LEMMA IntsNext == ASSUME IntsInv, [Next]_vars PROVE IntsInv'
<1>1. Normal(left) /\ Normal(right)
    BY DEF IntsInv
<1>2. CASE Take
    BY <1>2, TakeStep
<1>3. CASE Release
    BY <1>3, ReleaseStep
<1>4. CASE Add
    BY <1>1, <1>4, AddNormal, OperationStep DEF Add
<1>5. CASE Sub
    BY <1>1, <1>5, SubNormal, OperationStep DEF Sub
<1>6. CASE Mul
  <2>1. Normal(int_mul(left, right, FALSE)) /\ (left = right => Normal(int_mul(left, right, TRUE)))
      BY <1>1, MulNormal
  <2> QED
      BY <2>1, <1>6, OperationStep DEF Mul
<1>7. CASE Neg
    BY <1>1, <1>7, NegNormal, OperationStep DEF Neg
<1>8. CASE Invert
    BY <1>1, <1>8, InvertNormal, OperationStep DEF Invert
<1>9. CASE Compare
    BY <1>9, OperationStep DEF Compare
<1>10. CASE Lshift \/ Rshift
    BY <1>10, ShiftStep
<1>11. CASE Long
  <2>1. PICK x \in {COInt_AsLong(left)} :
            Operation("long", IF x.fits THEN <<"long", x.value>> ELSE <<"OverflowError">>)
      BY <1>11 DEF Long
  <2>2. (IF x.fits THEN <<"long", x.value>> ELSE <<"OverflowError">>)[1] # "int"
      OBVIOUS
  <2> QED
      BY <2>1, <2>2, OperationStep
<1>12. CASE Repr
  <2>1. Len(DecimalGroups(left.v)) <= ReprSize(left.v)
      BY <1>1, NormalDigits, ReprRoom
  <2>2. PICK x, y : y /\ Checked("repr", <<"text", left.neg, x>>, y)
      BY <2>1, <1>12 DEF Repr
  <2>3. <<"text", left.neg, x>>[1] # "int"
      OBVIOUS
  <2> QED
      BY <2>2, <2>3, ReturnStep
<1>13. CASE BinaryLiteral \/ DecimalLiteral
    BY <1>13, LiteralStep
<1>14. CASE DivideByZero \/ DivideSmaller \/ DivideByDigit
    BY <1>14, SmallDivisionStep
<1>15. CASE StartDivision
    BY <1>15, StartStep
<1>16. CASE Estimate
    BY <1>16, EstimateStep
<1>17. CASE Correct
    BY <1>17, CorrectStep
<1>18. CASE Accept
    BY <1>18, AcceptStep
<1>19. CASE Subtract
    BY <1>19, SubtractStep
<1>20. CASE EndDivision
    BY <1>20, EndStep
<1>21. CASE UNCHANGED vars
  <2>1. UNCHANGED <<op, left, right, pc, result, v, w, d, quot, q, r>>
      BY <1>21 DEF vars, dividing
  <2>2. TypeOK'
      BY <2>1 DEF IntsInv, TypeOK
  <2>3. Dividing => Dividing' /\ at' = at /\ size_w' = size_w /\ DigitDue' = DigitDue
      BY <2>1, DividingStays
  <2>4. Dividing /\ Estimated => Estimated'
      BY <2>1, <2>3 DEF Estimated
  <2>5. Dividing /\ Corrected => Corrected'
      BY <2>1, <2>3 DEF Corrected
  <2> QED
      BY <2>1, <2>2, <2>3, <2>4, <2>5 DEF IntsInv, AssertsHold, Normal
<1> QED
    BY <1>2, <1>3, <1>4, <1>5, <1>6, <1>7, <1>8, <1>9, <1>10, <1>11, <1>12, <1>13, <1>14, <1>15, <1>16,
       <1>17, <1>18, <1>19, <1>20, <1>21 DEF Next

LEMMA IntsInit == ASSUME Init PROVE IntsInv
<1>1. Normal(Zero)
    BY EmptySeq, MakeNormal DEF Zero, Vector
<1>2. /\ quot = <<>> /\ pc = "idle" /\ result[1] # "int" /\ left = Zero /\ right = Zero
      /\ op = "none" /\ v = <<>> /\ w = <<>> /\ d = 0 /\ q = 0 /\ r = 0
    BY DEF Init
<1>3. 0 \in 0..SHIFT - 1 /\ 0 \in 0..BASE + 1 /\ <<>> \in Seq(0..MASK)
    BY DigitSizes, EmptySeq
<1>4. TypeOK
    BY <1>2, <1>3 DEF TypeOK
<1> QED
    BY <1>1, <1>2, <1>4 DEF IntsInv, AssertsHold

LEMMA IntsNormal == ASSUME IntsInv PROVE Normalized
BY DEF IntsInv, Normalized, Normal

LEMMA IntsClose == ASSUME IntsInv PROVE EstimateClose
<1> SUFFICES ASSUME pc \in {"correct", "subtract"}
             PROVE  q \in DigitDue..DigitDue + (IF pc = "correct" THEN 2 ELSE 1)
    BY DEF EstimateClose, DigitDue, Extended, ValueOf
<1> QED
    BY DEF IntsInv, Estimated, Corrected

\* Every digit is in range, and the estimate of one, too large by 2 at most, is in the range
\* of twodigits: the loop of x_divrem subtracts from it, the assert behind it holds
\* (intobject.c).
THEOREM IntsTyped == Spec => []TypeOK
<1>1. Init => IntsInv
    BY IntsInit
<1>2. IntsInv /\ [Next]_vars => IntsInv'
    BY IntsNext
<1>3. IntsInv => TypeOK
    BY DEF IntsInv
<1> QED
    BY <1>1, <1>2, <1>3, PTL DEF Spec

\* No assert of intobject.c fails, and int_repr and COInt_FromString allocate enough digits
\* for what they write: whatever the operands, for every size of a digit.
THEOREM IntsAssertsHold == Spec => []AssertsHold
<1>1. Init => IntsInv
    BY IntsInit
<1>2. IntsInv /\ [Next]_vars => IntsInv'
    BY IntsNext
<1>3. IntsInv => AssertsHold
    BY DEF IntsInv
<1> QED
    BY <1>1, <1>2, <1>3, PTL DEF Spec

\* No integer has leading zeros or a digit out of range, and zero has no sign: every way to
\* make an integer ends in int_normalize or shortens what it is given as that does
\* (intobject.c).  int_cmp and int_bool take it for granted.
THEOREM NumbersAreNormal == Spec => []Normalized
<1>1. Init => IntsInv
    BY IntsInit
<1>2. IntsInv /\ [Next]_vars => IntsInv'
    BY IntsNext
<1>3. IntsInv => Normalized
    BY IntsNormal
<1> QED
    BY <1>1, <1>2, <1>3, PTL DEF Spec

\* Every digit of a quotient is at first estimated at most 2 too large, and 1 after the test
\* on the second digit of the divisor; never too small (x_divrem, Knuth's algorithm D).
THEOREM EstimatesAreClose == Spec => []EstimateClose
<1>1. Init => IntsInv
    BY IntsInit
<1>2. IntsInv /\ [Next]_vars => IntsInv'
    BY IntsNext
<1>3. IntsInv => EstimateClose
    BY IntsClose
<1> QED
    BY <1>1, <1>2, <1>3, PTL DEF Spec

=============================================================================
