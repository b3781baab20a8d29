-------------------------- MODULE ComponentsProofs --------------------------
(***************************************************************************)
(* The parts of module Components keep their promises side by side: what   *)
(* is proved of integers, said of the behaviours that the runs check, and  *)
(* proofs about ranges, bytecode and arenas.  The lemmas about numbers are *)
(* those of IntsProofs.                                                    *)
(***************************************************************************)
EXTENDS Components, ArithmeticProofs

Step == IntsStep \/ RangeStep \/ MarshalStep \/ ArenaStep \/ CodeStep

-----------------------------------------------------------------------------
(* Integers *)

LEMMA IntsSteps == [Step]_allVars => [Next]_vars
BY DEF Step, IntsStep, RangeStep, MarshalStep, ArenaStep, CodeStep, NoInts, allVars

\* In every program no integer has leading zeros or a digit out of range, and zero has no
\* sign, whatever the operands, the size of a digit and that of a long: int_cmp and the
\* sizes in int_divrem take it for granted (int_normalize).
THEOREM NumbersStayNormal == Objects => []Normalized
<1>1. Start => IntsInv
    BY IntsInit DEF Start
<1>2. IntsInv /\ [Step]_allVars => IntsInv'
    BY IntsSteps, IntsNext
<1>3. IntsInv => Normalized
    BY IntsNormal
<1> QED
    BY <1>1, <1>2, <1>3, PTL DEF Objects, Step

\* In every program the digits of a dividend, a divisor and a quotient stay digits, and an
\* estimated digit in the range of twodigits (x_divrem).
THEOREM DigitsStayInRange == Objects => []TypeOK
<1>1. Start => IntsInv
    BY IntsInit DEF Start
<1>2. IntsInv /\ [Step]_allVars => IntsInv'
    BY IntsSteps, IntsNext
<1>3. IntsInv => TypeOK
    BY DEF IntsInv
<1> QED
    BY <1>1, <1>2, <1>3, PTL DEF Objects, Step

\* In every program, whatever the operands, x_divrem estimates a digit of the quotient at most
\* 2 too large, 1 after its loop, and never too small.
THEOREM EstimatesStayClose == Objects => []EstimateClose
<1>1. Start => IntsInv
    BY IntsInit DEF Start
<1>2. IntsInv /\ [Step]_allVars => IntsInv'
    BY IntsSteps, IntsNext
<1>3. IntsInv => EstimateClose
    BY IntsClose
<1> QED
    BY <1>1, <1>2, <1>3, PTL DEF Objects, Step

\* In every program no assert of intobject.c fails, and int_repr and COInt_FromString write
\* no digit past those they have allocated, whatever the number and the size of a digit.
THEOREM AssertsKeepHolding == Objects => []AssertsHold
<1>1. Start => IntsInv
    BY IntsInit DEF Start
<1>2. IntsInv /\ [Step]_allVars => IntsInv'
    BY IntsSteps, IntsNext
<1>3. IntsInv => AssertsHold
    BY DEF IntsInv
<1> QED
    BY <1>1, <1>2, <1>3, PTL DEF Objects, Step

\* In every program each operation on integers is one of exact arithmetic on the numbers, and
\* the many steps of a division are one, whatever the operands, the size of a digit and that
\* of a long (intobject.c).
THEOREM IntegersStayExact == Objects => ImplementsArithmetic
<1>1. Start => IntsInv /\ ExactInv /\ Exact!Init
    BY IntsInit, ExactInit DEF Start
<1>2. IntsInv /\ ExactInv /\ [Step]_allVars => (IntsInv /\ ExactInv)'
    BY IntsSteps, IntsNext, NextRefines
<1>3. IntsInv /\ ExactInv /\ [Step]_allVars => [Exact!Next]_(Exact!vars)
    BY IntsSteps, NextRefines DEF Refines
<1> QED
    BY <1>1, <1>2, <1>3, PTL DEF Objects, Step, ImplementsArithmetic, Exact!Spec

-----------------------------------------------------------------------------
(* Ranges *)

\* In a long: the numbers from -m to m - 1
LEMMA Words ==
    ASSUME R!RangesAssumption
    PROVE  \E m \in Nat \ {0} : 2^BITS = 2 * m /\ R!LONG_MAX = m - 1 /\ R!LONG_MIN = -m
<1>1. BITS - 1 \in Nat /\ (BITS - 1) + 1 = BITS
    BY DEF R!RangesAssumption
<1>2. 2^(BITS - 1) \in Nat \ {0} /\ 2^((BITS - 1) + 1) = 2 * 2^(BITS - 1)
    BY <1>1, Powers
<1> QED
    BY <1>1, <1>2 DEF R!LONG_MAX, R!LONG_MIN

LEMMA Unsigned ==
    ASSUME R!RangesAssumption, NEW x \in 0..2^BITS - 1
    PROVE  R!ulong(x) = x
<1>1. PICK m \in Nat \ {0} : 2^BITS = 2 * m
    BY Words
<1>2. x = (2 * m) * 0 + x
    BY <1>1
<1> QED
    BY <1>1, <1>2, Quotient DEF R!ulong

LEMMA Signed ==
    ASSUME R!RangesAssumption, NEW x \in R!LONG_MIN..R!LONG_MAX
    PROVE  R!long(x) = x
<1>1. PICK m \in Nat \ {0} : 2^BITS = 2 * m /\ R!LONG_MAX = m - 1 /\ R!LONG_MIN = -m
    BY Words
<1>2. CASE x >= 0
  <2>1. R!ulong(x) = x
      BY <1>1, <1>2, Unsigned
  <2> QED
      BY <2>1, <1>1, <1>2 DEF R!long
<1>3. CASE x < 0
  <2>1. x = (2 * m) * (-1) + (x + 2 * m)
      BY <1>1
  <2> DEFINE n == 2 * m
  <2>3. n \in Nat \ {0} /\ x + n \in Int /\ 0 <= x + n /\ x + n < n /\ x = n * (-1) + (x + n)
      BY <2>1, <1>1, <1>3
  <2>2. x % (2 * m) = x + 2 * m
    <3> HIDE DEF n
    <3>1. x % n = x + n
        BY <2>3, Quotient
    <3> QED
        BY <3>1 DEF n
  <2> QED
      BY <2>2, <1>1, <1>3 DEF R!long, R!ulong
<1> QED
    BY <1>2, <1>3, <1>1

Within(lo, hi, step, x) ==
    \/ step > 0 /\ lo <= x /\ x < hi /\ (x - lo) % step = 0
    \/ step < 0 /\ hi < x /\ x <= lo /\ (lo - x) % (-step) = 0

LEMMA Between ==
    ASSUME NEW s \in Nat \ {0}, NEW dist \in Nat, NEW y \in Nat
    PROVE  (y <= dist /\ y % s = 0) <=> \E i \in 0..dist \div s : y = s * i
<1>1. ASSUME NEW i \in 0..dist \div s, y = s * i
      PROVE  y <= dist /\ y % s = 0
  <2>1. dist \div s \in 0..dist
      BY Fitting
  <2>2. i \in Nat
      BY <2>1, <1>1
  <2>3. y = s * i + 0
      BY <1>1, <2>2
  <2>4. y % s = 0
    <3>1. y \in Int /\ i \in Int /\ 0 \in 0..s - 1
        BY <2>2
    <3> HIDE <1>1
    <3> QED
        BY <3>1, <2>3, Quotient
  <2>5. s * i <= dist
      BY <2>2, <2>1, Fitting
  <2> QED
      BY <2>4, <2>5, <1>1
<1>2. ASSUME y <= dist, y % s = 0
      PROVE  \E i \in 0..dist \div s : y = s * i
  <2>1. y \div s \in 0..y
      BY Fitting
  <2>2. y \div s \in Nat /\ y = s * (y \div s)
    <3>1. y = s * (y \div s) + (y % s)
        BY Division
    <3> QED
        BY <3>1, <2>1, <1>2
  <2>3. y \div s <= dist \div s
      BY <2>2, <1>2, Fitting
  <2>4. dist \div s \in 0..dist
      BY Fitting
  <2>5. y \div s \in 0..dist \div s
      BY <2>2, <2>3, <2>4
  <2> QED
      BY <2>2, <2>5
<1> QED
    BY <1>1, <1>2

LEMMA Lengths ==
    ASSUME R!RangesAssumption, NEW lo \in R!LONG_MIN..R!LONG_MAX,
           NEW hi \in R!LONG_MIN..R!LONG_MAX, NEW step \in R!LONG_MIN..R!LONG_MAX, step # 0
    PROVE  LET len == R!get_len_of_range(lo, hi, step)
           IN  /\ len \in Nat
               /\ \A x \in Int : Within(lo, hi, step, x) <=> \E i \in 0..len - 1 : x = lo + i * step
<1> DEFINE len == R!get_len_of_range(lo, hi, step)
<1>1. PICK m \in Nat \ {0} : 2^BITS = 2 * m /\ R!LONG_MAX = m - 1 /\ R!LONG_MIN = -m
    BY Words
<1> USE <1>1
<1>2. CASE step > 0 /\ lo < hi
  <2> DEFINE dist == hi - 1 - lo
  <2>1. dist \in 0..2 * m - 2 /\ step \in Nat \ {0} /\ dist \in Nat
      BY <1>2
  <2>2. R!ulong(dist) = dist
      BY <2>1, Unsigned
  <2>3. dist \div step \in 0..dist
      BY <2>1, Fitting
  <2>4. R!ulong(1 + (dist \div step)) = 1 + (dist \div step)
      BY <2>1, <2>3, Unsigned
  <2>5. len = 1 + (dist \div step)
      BY <2>2, <2>4, <1>2 DEF R!get_len_of_range
  <2>6. ASSUME NEW x \in Int
        PROVE  Within(lo, hi, step, x) <=> \E i \in 0..dist \div step : x = lo + i * step
    <3>1. CASE x < lo
      <4>1. \A i \in 0..dist \div step : i \in Nat /\ 0 <= i * step
          BY <2>1, <2>3
      <4> QED
          BY <3>1, <4>1, <2>1 DEF Within
    <3>2. CASE x >= lo
      <4>1. x - lo \in Nat
          BY <3>2
      <4>2. Within(lo, hi, step, x) <=> (x - lo <= dist /\ (x - lo) % step = 0)
          BY <3>2, <2>1 DEF Within
      <4>3. \A i \in 0..dist \div step : i \in Nat /\ (x - lo = step * i <=> x = lo + i * step)
          BY <2>1, <2>3
      <4> HIDE DEF dist
      <4>4. (x - lo <= dist /\ (x - lo) % step = 0) <=> \E i \in 0..dist \div step : x - lo = step * i
          BY <4>1, <2>1, Between
      <4> QED
          BY <4>2, <4>3, <4>4
    <3> QED
        BY <3>1, <3>2
  <2> HIDE DEF dist, len
  <2>7. len \in Nat /\ 0..len - 1 = 0..dist \div step
      BY <2>1, <2>3, <2>5
  <2> QED
      BY <2>6, <2>7 DEF len
<1>3. CASE step < 0 /\ lo > hi
  <2> DEFINE dist == lo - 1 - hi
             s == -step
  <2>1. dist \in 0..2 * m - 2 /\ s \in Nat \ {0} /\ dist \in Nat /\ s \in 0..m
      BY <1>3
  <2>2. R!ulong(dist) = dist /\ R!ulong(s) = s
      BY <2>1, Unsigned
  <2>3. dist \div s \in 0..dist
      BY <2>1, Fitting
  <2>4. R!ulong(1 + (dist \div s)) = 1 + (dist \div s)
      BY <2>1, <2>3, Unsigned
  <2>5. len = 1 + (dist \div s)
      BY <2>2, <2>4, <1>3 DEF R!get_len_of_range
  <2>6. ASSUME NEW x \in Int
        PROVE  Within(lo, hi, step, x) <=> \E i \in 0..dist \div s : x = lo + i * step
    <3>1. CASE x > lo
      <4>1. \A i \in 0..dist \div s : i \in Nat /\ 0 <= i * s /\ i * step = -(i * s)
          BY <2>1, <2>3
      <4> QED
          BY <3>1, <4>1, <2>1, <1>3 DEF Within
    <3>2. CASE x <= lo
      <4>1. lo - x \in Nat
          BY <3>2
      <4>2. Within(lo, hi, step, x) <=> (lo - x <= dist /\ (lo - x) % s = 0)
          BY <3>2, <2>1, <1>3 DEF Within
      <4>3. \A i \in 0..dist \div s : i \in Nat /\ (lo - x = s * i <=> x = lo + i * step)
          BY <2>1, <2>3
      <4> HIDE DEF dist, s
      <4>4. (lo - x <= dist /\ (lo - x) % s = 0) <=> \E i \in 0..dist \div s : lo - x = s * i
          BY <4>1, <2>1, Between
      <4> QED
          BY <4>2, <4>3, <4>4
    <3> QED
        BY <3>1, <3>2
  <2> HIDE DEF dist, len, s
  <2>7. len \in Nat /\ 0..len - 1 = 0..dist \div s
      BY <2>1, <2>3, <2>5
  <2> QED
      BY <2>6, <2>7 DEF len
<1>4. CASE ~ (step > 0 /\ lo < hi) /\ ~ (step < 0 /\ lo > hi)
  <2>1. len = 0
      BY <1>4 DEF R!get_len_of_range
  <2>2. \A x \in Int : ~ Within(lo, hi, step, x)
      BY <1>4 DEF Within
  <2> HIDE DEF len
  <2>3. len \in Nat /\ 0..len - 1 = {}
      BY <2>1
  <2> QED
      BY <2>2, <2>3 DEF len
<1> QED
    BY <1>2, <1>3, <1>4

Longs == R!LONG_MIN..R!LONG_MAX
Bounds == R!Bounds
Count == R!get_len_of_range(Bounds.start, Bounds.stop, Bounds.step)

Sensible == rArgs \in UNION {[1..k -> Given] : k \in 1..3} /\ Bounds.step # 0

RangeInv ==
    /\ rPc \in {"new", "range", "iter", "end", "overflow", "error", "trap"}
    /\ rPc \in {"range", "iter", "end", "overflow"} => Sensible
    /\ rAlive => rPc \in {"range", "iter", "end", "overflow"}
    /\ rItems \in Seq(Int)
    /\ rPc \notin {"iter", "end"} => rItems = <<>>
    /\ rPc \in {"iter", "end"} =>
         /\ rIt = [start |-> Bounds.start, step |-> Bounds.step, len |-> Count, index |-> Len(rItems)]
         /\ Count <= R!LONG_MAX /\ Len(rItems) <= Count
         /\ \A i \in DOMAIN rItems : rItems[i] = Bounds.start + (i - 1) * Bounds.step
    /\ rPc = "end" => Len(rItems) = Count
    /\ rPc = "overflow" => rError /\ Count > R!LONG_MAX

LEMMA BoundsAre ==
    ASSUME R!RangesAssumption, Sensible
    PROVE  Bounds.start \in Longs /\ Bounds.stop \in Longs /\ Bounds.step \in Longs
<1>1. PICK m \in Nat \ {0} : 2^BITS = 2 * m /\ R!LONG_MAX = m - 1 /\ R!LONG_MIN = -m
    BY Words
<1>2. \A x \in Int : R!AsLong(x) \in Longs
    BY <1>1 DEF R!AsLong, R!Fits, Longs
<1>3. PICK k \in 1..3 : rArgs \in [1..k -> Given]
    BY DEF Sensible
<1>4. Len(rArgs) = k /\ \A i \in 1..k : rArgs[i] \in Int
  <2>1. rArgs \in Seq(Given) /\ Len(rArgs) = k
      BY <1>3
  <2>2. Given \subseteq Int
      BY DEF R!RangesAssumption
  <2> QED
      BY <2>1, <2>2, <1>3
<1>5. CASE k = 1
    BY <1>2, <1>4, <1>5 DEF Bounds, R!Bounds
<1>6. CASE k = 2
    BY <1>2, <1>4, <1>6 DEF Bounds, R!Bounds
<1>7. CASE k = 3
    BY <1>2, <1>4, <1>7 DEF Bounds, R!Bounds
<1> QED
    BY <1>5, <1>6, <1>7

\* What a range and its length promise of each other
LEMMA Promised ==
    ASSUME R!RangesAssumption, Sensible
    PROVE  /\ Count \in Nat
           /\ \A i \in 0..Count - 1 : Bounds.start + i * Bounds.step \in R!Progression
           /\ \A x \in R!Progression : \E i \in 0..Count - 1 : x = Bounds.start + i * Bounds.step
<1>1. PICK m \in Nat \ {0} : 2^BITS = 2 * m /\ R!LONG_MAX = m - 1 /\ R!LONG_MIN = -m
    BY Words
<1>2. Bounds.start \in Longs /\ Bounds.stop \in Longs /\ Bounds.step \in Longs /\ Bounds.step # 0
    BY BoundsAre DEF Sensible
<1>3. /\ Count \in Nat
      /\ \A x \in Int : Within(Bounds.start, Bounds.stop, Bounds.step, x) <=>
                            \E i \in 0..Count - 1 : x = Bounds.start + i * Bounds.step
    BY <1>2, Lengths DEF Count, Longs
<1>4. R!Progression = {x \in Longs : Within(Bounds.start, Bounds.stop, Bounds.step, x)}
    BY DEF R!Progression, Bounds, Longs, Within
<1>5. \A x \in Int : Within(Bounds.start, Bounds.stop, Bounds.step, x) => x \in Longs
    BY <1>1, <1>2 DEF Within, Longs
<1>6. \A i \in 0..Count - 1 : Bounds.start + i * Bounds.step \in Int
    BY <1>1, <1>2, <1>3 DEF Longs
<1>7. Longs \subseteq Int
    BY <1>1 DEF Longs
<1> QED
    BY <1>3, <1>4, <1>5, <1>6, <1>7

LEMMA RangeInit == R!Init => RangeInv
BY DEF R!Init, RangeInv

LEMMA NewKeeps == ASSUME R!RangesAssumption, RangeInv, R!New PROVE RangeInv'
<1>1. rArgs' \in UNION {[1..k -> Given] : k \in 1..3} /\ rItems' = <<>>
    BY DEF R!New, RangeInv
<1>2. rPc' = "trap" \/ (rPc' = "range" /\ ~ R!Traps(R!Bounds)')
    BY DEF R!New
<1>3. rPc' = "range" => Sensible'
    BY <1>1, <1>2 DEF Sensible, R!Traps, Bounds
<1>4. rAlive' => rPc' = "range"
    BY DEF R!New
<1> QED
    BY <1>1, <1>2, <1>3, <1>4 DEF RangeInv

LEMMA Unmoved == ASSUME rArgs' = rArgs PROVE Bounds' = Bounds /\ Count' = Count /\ Sensible' = Sensible
<1>1. Bounds' = Bounds
    BY DEF Bounds, R!Bounds, R!AsLong, R!Fits, R!LONG_MIN, R!LONG_MAX
<1>2. Count' = Count
    BY <1>1 DEF Count, R!get_len_of_range, R!ulong
<1> QED
    BY <1>1, <1>2 DEF Sensible

LEMMA IterateKeeps == ASSUME R!RangesAssumption, RangeInv, R!Iterate PROVE RangeInv'
<1>1. rArgs' = rArgs /\ rItems' = <<>> /\ rAlive' = rAlive
    BY DEF R!Iterate
<1>2. Sensible /\ Sensible' /\ Bounds' = Bounds /\ Count' = Count
    BY <1>1, Unmoved DEF R!Iterate, RangeInv
<1>3. PICK m \in Nat \ {0} : R!LONG_MAX = m - 1
    BY Words
<1>4. Count \in Nat
    BY <1>2, Promised
<1>5. CASE Count > R!LONG_MAX
  <2>1. rPc' = "overflow" /\ rError'
      BY <1>5 DEF R!Iterate, Count, Bounds
  <2> QED
      BY <2>1, <1>1, <1>2, <1>5 DEF RangeInv
<1>6. CASE ~ (Count > R!LONG_MAX)
  <2>1. /\ rPc' = "iter"
        /\ rIt' = [start |-> Bounds.start, step |-> Bounds.step, len |-> Count, index |-> 0]
      BY <1>6 DEF R!Iterate, Count, Bounds
  <2>2. Count <= R!LONG_MAX
      BY <1>3, <1>4, <1>6
  <2> QED
      BY <2>1, <2>2, <1>1, <1>2, <1>4 DEF RangeInv
<1> QED
    BY <1>5, <1>6

LEMMA ItemKeeps == ASSUME R!RangesAssumption, RangeInv, R!Item PROVE RangeInv'
<1>1. rArgs' = rArgs /\ rAlive' = rAlive /\ rPc = "iter"
    BY DEF R!Item
<1>2. Sensible /\ Sensible' /\ Bounds' = Bounds /\ Count' = Count
    BY <1>1, Unmoved DEF RangeInv
<1>3. PICK m \in Nat \ {0} : 2^BITS = 2 * m /\ R!LONG_MAX = m - 1 /\ R!LONG_MIN = -m
    BY Words
<1>4. /\ Count \in Nat /\ Count <= R!LONG_MAX
      /\ rItems \in Seq(Int) /\ Len(rItems) <= Count
      /\ rIt = [start |-> Bounds.start, step |-> Bounds.step, len |-> Count, index |-> Len(rItems)]
      /\ \A i \in DOMAIN rItems : rItems[i] = Bounds.start + (i - 1) * Bounds.step
    BY <1>1, <1>2, Promised DEF RangeInv
<1>5. CASE Len(rItems) < Count
  <2> DEFINE n == Len(rItems)
             x == Bounds.start + n * Bounds.step
  <2>1. n \in Nat /\ n \in 0..2^BITS - 1
      BY <1>3, <1>4, <1>5
  <2>2. x \in Longs
      BY <1>2, <1>4, <1>5, <2>1, Promised DEF R!Progression, Longs
  <2>3. R!long(Bounds.start + R!ulong(n) * Bounds.step) = x
      BY <2>1, <2>2, Unsigned, Signed DEF Longs
  <2>4. /\ rItems' = Append(rItems, x) /\ rPc' = "iter"
        /\ rIt' = [rIt EXCEPT !.index = @ + 1]
      BY <1>1, <1>4, <1>5, <2>3 DEF R!Item
  <2>5. x \in Int
      BY <2>2, <1>3 DEF Longs
  <2> HIDE DEF x
  <2>6. /\ rItems' \in Seq(Int) /\ Len(rItems') = n + 1
        /\ \A i \in 1..n : rItems'[i] = rItems[i]
        /\ rItems'[n + 1] = x
      BY <2>4, <2>5, <1>4
  <2>7. \A i \in DOMAIN rItems' : rItems'[i] = Bounds.start + (i - 1) * Bounds.step
    <3>1. DOMAIN rItems' = 1..n + 1 /\ DOMAIN rItems = 1..n
        BY <2>6, <1>4
    <3>2. (n + 1) - 1 = n
        BY <2>1
    <3>3. rItems'[n + 1] = Bounds.start + ((n + 1) - 1) * Bounds.step
        BY <2>6, <3>2 DEF x
    <3>4. \A i \in 1..n : rItems'[i] = Bounds.start + (i - 1) * Bounds.step
        BY <2>6, <3>1, <1>4
    <3> HIDE DEF n
    <3>5. \A i \in 1..n + 1 : i \in 1..n \/ i = n + 1
        BY <2>1
    <3> QED
        BY <3>1, <3>3, <3>4, <3>5
  <2>8. rIt' = [start |-> Bounds.start, step |-> Bounds.step, len |-> Count, index |-> Len(rItems')]
      BY <2>4, <2>6, <1>4
  <2>9. Len(rItems') <= Count
      BY <2>6, <2>1, <1>4, <1>5
  <2> QED
      BY <2>4, <2>6, <2>7, <2>8, <2>9, <1>1, <1>2, <1>4 DEF RangeInv
<1>6. CASE ~ (Len(rItems) < Count)
  <2>1. rPc' = "end" /\ rItems' = rItems /\ rIt' = rIt
      BY <1>4, <1>6 DEF R!Item
  <2>2. Len(rItems) = Count
      BY <1>4, <1>6
  <2> QED
      BY <2>1, <2>2, <1>1, <1>2, <1>4 DEF RangeInv
<1> QED
    BY <1>5, <1>6

LEMMA RangeNext == ASSUME R!RangesAssumption PROVE RangeInv /\ [R!Next]_rVars => RangeInv'
<1> SUFFICES ASSUME RangeInv, [R!Next]_rVars
             PROVE  RangeInv'
    OBVIOUS
<1>1. CASE R!New
    BY <1>1, NewKeeps
<1>2. CASE R!Fail
    BY <1>2 DEF R!Fail, RangeInv
<1>3. CASE R!Iterate
    BY <1>3, IterateKeeps
<1>4. CASE R!Item
    BY <1>4, ItemKeeps
<1>5. CASE R!Dealloc \/ UNCHANGED rVars
  <2>1. /\ rArgs' = rArgs /\ rPc' = rPc /\ rIt' = rIt /\ rItems' = rItems /\ rError' = rError
        /\ rAlive' => rAlive
      BY <1>5 DEF R!Dealloc, rVars
  <2> QED
      BY <2>1, Unmoved DEF RangeInv
<1> QED
    BY <1>1, <1>2, <1>3, <1>4, <1>5 DEF R!Next

LEMMA ExactOnes == ASSUME R!RangesAssumption, RangeInv PROVE R!RangeExact
<1>1. CASE rPc \notin {"iter", "end", "overflow"}
    BY <1>1 DEF RangeInv, R!RangeExact
<1>2. CASE rPc \in {"iter", "end"}
  <2>1. /\ Sensible /\ rItems \in Seq(Int) /\ Len(rItems) <= Count
        /\ \A i \in DOMAIN rItems : rItems[i] = Bounds.start + (i - 1) * Bounds.step
        /\ rPc = "end" => Len(rItems) = Count
      BY <1>2 DEF RangeInv
  <2>2. /\ Count \in Nat
        /\ \A i \in 0..Count - 1 : Bounds.start + i * Bounds.step \in R!Progression
        /\ \A x \in R!Progression : \E i \in 0..Count - 1 : x = Bounds.start + i * Bounds.step
      BY <2>1, Promised
  <2>3. Bounds.start \in Int /\ Bounds.step \in Int
    <3>1. PICK m \in Nat \ {0} : R!LONG_MAX = m - 1 /\ R!LONG_MIN = -m
        BY Words
    <3> QED
        BY <2>1, <3>1, BoundsAre DEF Longs
  <2>4. \A i \in DOMAIN rItems : rItems[i] \in R!Progression
    <3> TAKE i \in DOMAIN rItems
    <3>1. i - 1 \in 0..Count - 1
        BY <2>1, <2>2
    <3> QED
        BY <3>1, <2>1, <2>2
  <2>5. \A i \in 2..Len(rItems) : rItems[i] = rItems[i - 1] + Bounds.step
    <3> TAKE i \in 2..Len(rItems)
    <3>1. rItems[i] = Bounds.start + (i - 1) * Bounds.step /\ rItems[i - 1] = Bounds.start + ((i - 1) - 1) * Bounds.step
        BY <2>1
    <3>2. (i - 1) * Bounds.step = ((i - 1) - 1) * Bounds.step + Bounds.step
      <4>1. \A j \in Int : j * Bounds.step = (j - 1) * Bounds.step + Bounds.step
          BY <2>3
      <4>2. i - 1 \in Int
          OBVIOUS
      <4> QED
          BY <4>1, <4>2
    <3>3. ((i - 1) - 1) * Bounds.step \in Int
        BY <2>3
    <3> QED
        BY <3>1, <3>2, <3>3, <2>3
  <2>6. rItems # <<>> => rItems[1] = Bounds.start
    <3>1. rItems # <<>> => 1 \in DOMAIN rItems
        BY <2>1
    <3>2. (1 - 1) * Bounds.step = 0
        BY <2>3
    <3> QED
        BY <3>1, <3>2, <2>1, <2>3
  <2>7. rPc = "end" => \A x \in R!Progression : \E i \in DOMAIN rItems : rItems[i] = x
    <3> HAVE rPc = "end"
    <3> TAKE x \in R!Progression
    <3>1. PICK i \in 0..Count - 1 : x = Bounds.start + i * Bounds.step
        BY <2>2
    <3>2. i + 1 \in DOMAIN rItems /\ (i + 1) - 1 = i
        BY <2>1, <2>2
    <3> QED
        BY <3>1, <3>2, <2>1
  <2> QED
      BY <2>4, <2>5, <2>6, <2>7, <1>2 DEF R!RangeExact, Bounds
<1>3. CASE rPc = "overflow"
  <2>1. Sensible /\ rError /\ Count > R!LONG_MAX /\ rItems = <<>>
      BY <1>3 DEF RangeInv
  <2>2. PICK m \in Nat \ {0} : R!LONG_MAX = m - 1 /\ R!LONG_MIN = -m
      BY Words
  <2>3. /\ Count \in Nat /\ Bounds.start \in Int /\ Bounds.step \in Int /\ Bounds.step # 0
        /\ \A i \in 0..Count - 1 : Bounds.start + i * Bounds.step \in R!Progression
      BY <2>1, <2>2, Promised, BoundsAre DEF Sensible, Longs
  <2>4. IsFiniteSet(R!Progression)
    <3>1. R!Progression \subseteq Longs
        BY DEF R!Progression, Longs
    <3>2. IsFiniteSet(Longs)
        BY <2>2, FS_Interval DEF Longs
    <3> QED
        BY <3>1, <3>2, FS_Subset
  <2> DEFINE f == [i \in 0..Count - 1 |-> Bounds.start + i * Bounds.step]
  <2>5. f \in Injection(0..Count - 1, R!Progression)
    <3>1. f \in [0..Count - 1 -> R!Progression]
        BY <2>3
    <3>2. \A i, j \in 0..Count - 1 : f[i] = f[j] => i = j
        BY <2>3
    <3> QED
        BY <3>1, <3>2, Fun_IsInj
  <2>6. Cardinality(0..Count - 1) = Count
      BY <2>3, FS_Interval
  <2>7. Count <= Cardinality(R!Progression) /\ Cardinality(R!Progression) \in Nat
      BY <2>4, <2>5, <2>6, FS_Injection, FS_CardinalityType
  <2>8. Cardinality(R!Progression) > R!LONG_MAX
      BY <2>1, <2>2, <2>3, <2>7
  <2>9. rPc # "end" /\ rError
      BY <2>1, <1>3
  <2> HIDE DEF f
  <2>10. R!Cardinality(R!Progression) = Cardinality(R!Progression)
      BY DEF R!Cardinality, Cardinality
  <2> QED
      BY <2>1, <2>8, <2>10, <2>9 DEF R!RangeExact
<1> QED
    BY <1>1, <1>2, <1>3

LEMMA RangeSteps == [Step]_allVars => [R!Next]_rVars
BY DEF Step, IntsStep, RangeStep, MarshalStep, ArenaStep, CodeStep, NoRange, allVars, rVars

\* A loop over a range sees every number from start in steps of step before stop, once and
\* in order, and no other, for every width of a long, and all starts, stops and steps that are
\* longs or not, up and down: no length or product that wraps around is ever used; or there
\* is an OverflowError, and more numbers than a long can count (get_len_of_range, rangeiter_next).
THEOREM RangesAreExact == ASSUME R!RangesAssumption PROVE Objects => []RangeExact
<1>1. Start => RangeInv
    BY RangeInit DEF Start
<1>2. RangeInv /\ [Step]_allVars => RangeInv'
    BY RangeSteps, RangeNext
<1>3. RangeInv => RangeExact
    BY ExactOnes DEF RangeExact
<1> QED
    BY <1>1, <1>2, <1>3, PTL DEF Objects, Step

-----------------------------------------------------------------------------
(* Bytecode *)

Byte == 0..255

Instrs == Args \cup {NONE}
Value(x) == IF x = NONE THEN NONE ELSE x % 65536
Width(x) == Len(C!Encoded(x))

\* The instructions before the next one to assemble, s the addresses behind each of them
Laid(s) ==
    /\ s \in Seq(Nat) /\ Len(s) = cNext
    /\ s[1] = 0 /\ s[cNext] = cOffset
    /\ \A k \in 1..cNext - 1 :
         /\ s[k + 1] = s[k] + Width(cInstrs[k]) /\ s[k + 1] <= cOffset
         /\ \A j \in 1..Width(cInstrs[k]) : cBytes[s[k] + j] = C!Encoded(cInstrs[k])[j]

CodeInv ==
    /\ cPc \in {"visit", "assemble", "done", "corrupt"}
    /\ cInstrs \in Seq(Instrs)
    /\ cPc \in {"visit", "corrupt"} => cOffset = 0 /\ cNext = 1
    /\ cNext \in 1..Len(cInstrs) + 1
    /\ cBytes \in Seq(Int) /\ cOffset \in 0..Len(cBytes)
    /\ cPc # "done" => Len(cBytes) >= 4
    /\ cPc = "done" => cNext = Len(cInstrs) + 1 /\ Len(cBytes) = cOffset
    /\ \A i \in 1..cOffset : cBytes[i] \in Byte
    /\ \E s : Laid(s)

LEMMA TwoBytes ==
    ASSUME NEW x \in Int, NEW y \in Int, 0 <= x, x <= 255, 0 <= y, y <= 255
    PROVE  0 <= x + 256 * y /\ x + 256 * y < 65536
<1>1. 256 * 0 <= 256 * y /\ 256 * y <= 256 * 255
    BY Monotone
<1> QED
    BY <1>1

LEMMA EncodedIs ==
    ASSUME C!AssemblerAssumption, NEW x \in Instrs
    PROVE  /\ C!Encoded(x) \in Seq(Byte) /\ Width(x) \in {1, 3}
           /\ \/ Width(x) = 1 /\ x = NONE /\ C!Encoded(x)[1] = 0
              \/ /\ Width(x) = 3 /\ x # NONE /\ C!Encoded(x)[1] = 1
                 /\ C!Encoded(x)[2] + 256 * C!Encoded(x)[3] = Value(x)
<1>1. CASE x = NONE
  <2>1. C!Encoded(x) = <<0>>
      BY <1>1 DEF C!Encoded
  <2> QED
      BY <2>1, <1>1 DEF Width, Byte
<1>2. CASE x # NONE
  <2>1. x \in Nat
      BY <1>2 DEF Instrs, C!AssemblerAssumption
  <2>2. PICK low \in 0..255, high \in Int : low = x % 256 /\ high = x \div 256 /\ x = 256 * high + low
      BY <2>1
  <2>3. PICK mid \in 0..255, top \in Int : mid = high % 256 /\ high = 256 * top + mid
    <3>1. high % 256 \in 0..255 /\ high \div 256 \in Int /\ high = 256 * (high \div 256) + (high % 256)
        OBVIOUS
    <3> QED
        BY <3>1
  <2>4. C!Encoded(x) = <<1, low, mid>>
      BY <1>2, <2>2, <2>3 DEF C!Encoded
  <2>5. x = 65536 * top + (low + 256 * mid)
      BY <2>2, <2>3
  <2>6. 0 <= low + 256 * mid /\ low + 256 * mid < 65536
      BY TwoBytes
  <2>7. x % 65536 = low + 256 * mid
    <3> DEFINE y == low + 256 * mid
    <3>1. y \in Int /\ 0 <= y /\ y < 65536 /\ x = 65536 * top + y
        BY <2>5, <2>6
    <3>2. x \in Int /\ 65536 \in Nat \ {0}
        BY <2>1
    <3> HIDE DEF y
    <3>3. x % 65536 = y
        BY <3>1, <3>2, Quotient
    <3> QED
        BY <3>3 DEF y
  <2> QED
      BY <2>4, <2>7, <1>2 DEF Width, Value, Byte
<1> QED
    BY <1>1, <1>2

\* What the machine fetches at an address, if anything is there
Fetch(g, pos) ==
    IF pos = Len(cBytes) + 1 THEN <<>>
    ELSE IF cBytes[pos] = 0 \/ pos + 2 > Len(cBytes) THEN <<NONE>> \o g[pos + 1]
    ELSE <<cBytes[pos + 1] + 256 * cBytes[pos + 2]>> \o g[pos + 3]

LEMMA FetchedIs ==
    ASSUME cBytes \in Seq(Int)
    PROVE  \E f : f = [pos \in 1..Len(cBytes) + 1 |-> Fetch(f, pos)] /\ C!Fetched = f[1]
<1> DEFINE n == Len(cBytes)
           V == Seq(Int \cup {NONE})
           D == 1..n + 1
           rank == [pos \in D |-> n + 1 - pos]
           F == [pos \in D |-> [g \in [D -> V] |-> Fetch(g, pos)]]
<1>1. n \in Nat /\ 1 <= n + 1 /\ <<>> \in V
    OBVIOUS
<1>2. ASSUME NEW pos \in 1..n, NEW g \in [1..n + 1 -> V]
      PROVE  Fetch(g, pos) \in V
  <2>1. CASE cBytes[pos] = 0 \/ pos + 2 > n
    <3>1. g[pos + 1] \in V /\ <<NONE>> \in V
      <4>1. pos + 1 \in 1..n + 1
          BY <1>1
      <4>2. <<NONE>> \in V
          OBVIOUS
      <4> HIDE DEF V, n
      <4> QED
          BY <4>1, <4>2
    <3>2. Fetch(g, pos) = <<NONE>> \o g[pos + 1]
      <4>1. pos # Len(cBytes) + 1
          BY <1>1
      <4> HIDE DEF D, V, F, rank
      <4> QED
          BY <2>1, <4>1 DEF Fetch
    <3> QED
        BY <3>1, <3>2
  <2>2. CASE ~ (cBytes[pos] = 0 \/ pos + 2 > n)
    <3>1. pos + 3 \in 1..n + 1 /\ pos + 1 \in 1..n /\ pos + 2 \in 1..n
        BY <2>2, <1>1
    <3>2. g[pos + 3] \in V
        BY <3>1
    <3>3. cBytes[pos + 1] + 256 * cBytes[pos + 2] \in Int
        BY <3>1
    <3>4. <<cBytes[pos + 1] + 256 * cBytes[pos + 2]>> \in V
        BY <3>3
    <3>5. Fetch(g, pos) = <<cBytes[pos + 1] + 256 * cBytes[pos + 2]>> \o g[pos + 3]
      <4>1. pos # Len(cBytes) + 1
          BY <1>1
      <4> HIDE DEF D, V, F, rank
      <4> QED
          BY <2>2, <4>1 DEF Fetch
    <3> QED
        BY <3>2, <3>4, <3>5
  <2> QED
      BY <2>1, <2>2
<1>3. F \in [D -> [[D -> V] -> V]]
  <2>1. ASSUME NEW pos \in D, NEW g \in [D -> V]
        PROVE  Fetch(g, pos) \in V
    <3>1. CASE pos = n + 1
        BY <3>1, <1>1 DEF Fetch
    <3>2. CASE pos # n + 1
      <4>1. pos \in 1..n
          BY <3>2, <1>1
      <4> QED
          BY <4>1, <2>1, <1>2
    <3> QED
        BY <3>1, <3>2
  <2> HIDE DEF D, V
  <2> QED
      BY <2>1
<1>4. ASSUME NEW pos \in D, NEW g \in [D -> V], NEW h \in [D -> V],
             \A j \in D : rank[j] < rank[pos] => g[j] = h[j]
      PROVE  F[pos][g] = F[pos][h]
  <2>1. \A j \in D : j > pos => g[j] = h[j]
      BY <1>1, <1>4
  <2>2. pos # n + 1 => pos + 1 \in D
      BY <1>1
  <2>3. ~ (pos + 2 > n) => pos + 3 \in D
      BY <1>1
  <2>4. pos # n + 1 => g[pos + 1] = h[pos + 1]
      BY <2>1, <2>2, <1>1
  <2>5. ~ (pos + 2 > n) => g[pos + 3] = h[pos + 3]
      BY <2>1, <2>3, <1>1
  <2>6. F[pos][g] = Fetch(g, pos) /\ F[pos][h] = Fetch(h, pos)
    <3> HIDE DEF D, V
    <3> QED
        OBVIOUS
  <2>7. Fetch(g, pos) = Fetch(h, pos)
    <3> HIDE DEF D, V, F
    <3> QED
        BY <2>4, <2>5 DEF Fetch
  <2> QED
      BY <2>6, <2>7
<1>5. \A pos \in D : \A g \in [D -> V] : F[pos][g] = Fetch(g, pos)
    OBVIOUS
<1>6. rank \in [D -> 0..n] /\ n \in Nat
    BY <1>1
<1>8. V # {}
    BY <1>1
<1> HIDE DEF F, V, D, rank
<1>7. Steps(F, D, rank, V)
    BY <1>3, <1>4 DEF Steps
<1>9. PICK g \in [D -> V] : \A i \in D : g[i] = F[i][g]
    BY <1>6, <1>7, <1>8, Recursion
<1>10. g = [pos \in D |-> Fetch(g, pos)]
    BY <1>5, <1>9
<1> QED
    BY <1>10 DEF C!Fetched, Fetch, D, n

LEMMA CodeInit == C!AssemblerAssumption /\ C!Init => CodeInv
<1> SUFFICES ASSUME C!AssemblerAssumption, C!Init
             PROVE  CodeInv
    OBVIOUS
<1>1. cBytes \in Seq(Int) /\ Len(cBytes) >= 4
    BY DEF C!Init, C!Fresh, C!JUNK, C!AssemblerAssumption
<1>2. Laid(<<0>>)
    BY DEF C!Init, Laid
<1> QED
    BY <1>1, <1>2 DEF C!Init, CodeInv

LEMMA EmitKeeps == ASSUME CodeInv, NEW x \in Instrs, C!Emit(x) PROVE CodeInv'
<1>1. /\ cInstrs' = Append(cInstrs, x) /\ cPc = "visit" /\ cPc' \in {"visit", "corrupt"}
      /\ cBytes' = cBytes /\ cOffset' = cOffset /\ cNext' = cNext
    BY DEF C!Emit
<1>2. cOffset = 0 /\ cNext = 1 /\ cInstrs \in Seq(Instrs) /\ cBytes \in Seq(Int) /\ Len(cBytes) >= 4
    BY <1>1 DEF CodeInv
<1>3. Laid(<<0>>)'
    BY <1>1, <1>2 DEF Laid
<1>4. cInstrs' \in Seq(Instrs) /\ cNext' \in 1..Len(cInstrs') + 1
    BY <1>1, <1>2
<1> QED
    BY <1>1, <1>2, <1>3, <1>4 DEF CodeInv

LEMMA AssembleKeeps == ASSUME CodeInv, C!assemble PROVE CodeInv'
<1>1. /\ cPc' = "assemble" /\ cPc = "visit" /\ cInstrs' = cInstrs
      /\ cBytes' = cBytes /\ cOffset' = cOffset /\ cNext' = cNext
    BY DEF C!assemble
<1>2. \A s : Laid(s) => Laid(s)'
    BY <1>1 DEF Laid
<1> QED
    BY <1>1, <1>2 DEF CodeInv

LEMMA MakecodeKeeps == ASSUME C!AssemblerAssumption, CodeInv, C!makecode PROVE CodeInv'
<1>1. /\ cPc' = "done" /\ cPc = "assemble" /\ cInstrs' = cInstrs
      /\ cBytes' = SubSeq(cBytes, 1, cOffset) /\ cOffset' = cOffset /\ cNext' = cNext
      /\ cNext > Len(cInstrs)
    BY DEF C!makecode
<1>2. /\ cInstrs \in Seq(Instrs) /\ cNext \in 1..Len(cInstrs) + 1
      /\ cBytes \in Seq(Int) /\ cOffset \in 0..Len(cBytes)
    BY DEF CodeInv
<1>3. /\ cBytes' \in Seq(Int) /\ Len(cBytes') = cOffset
      /\ \A i \in 1..cOffset : cBytes'[i] = cBytes[i]
    BY <1>1, <1>2
<1>4. cNext = Len(cInstrs) + 1
    BY <1>1, <1>2
<1>5. PICK s : Laid(s)
    BY DEF CodeInv
<1>6. Laid(s)'
  <2>1. ASSUME NEW k \in 1..cNext - 1, NEW j \in 1..Width(cInstrs[k])
        PROVE  s[k] + j \in 1..cOffset
    <3>1. k \in DOMAIN cInstrs /\ k \in 1..Len(s)
        BY <1>2, <1>5 DEF Laid
    <3>2. Width(cInstrs[k]) \in {1, 3} /\ s[k] \in Nat
      <4>1. cInstrs[k] \in Instrs
          BY <3>1, <1>2
      <4>2. s[k] \in Nat
          BY <3>1, <1>5 DEF Laid
      <4> QED
          BY <4>1, <4>2, EncodedIs
    <3>3. s[k] + Width(cInstrs[k]) <= cOffset /\ cOffset \in Nat
        BY <1>5, <1>2 DEF Laid
    <3>4. j \in Nat /\ 1 <= j /\ j <= Width(cInstrs[k])
        BY <3>2
    <3>5. s[k] + j <= s[k] + Width(cInstrs[k]) /\ 1 <= s[k] + j
        BY <3>2, <3>4
    <3>6. s[k] \in Nat /\ Width(cInstrs[k]) \in Nat /\ cOffset \in Nat
        BY <3>2, <3>3
    <3> HIDE DEF Width
    <3> QED
        BY <3>3, <3>4, <3>5, <3>6
  <2>2. \A k \in 1..cNext - 1 : \A j \in 1..Width(cInstrs[k]) : cBytes'[s[k] + j] = cBytes[s[k] + j]
      BY <2>1, <1>3
  <2>3. \A k \in 1..cNext - 1 :
           /\ s[k + 1] = s[k] + Width(cInstrs[k]) /\ s[k + 1] <= cOffset
           /\ \A j \in 1..Width(cInstrs[k]) : cBytes'[s[k] + j] = C!Encoded(cInstrs[k])[j]
    <3> HIDE DEF Width
    <3> QED
        BY <2>2, <1>5 DEF Laid
  <2>4. s \in Seq(Nat) /\ Len(s) = cNext /\ s[1] = 0 /\ s[cNext] = cOffset
      BY <1>5 DEF Laid
  <2> HIDE DEF Width
  <2> QED
      BY <2>3, <2>4, <1>1 DEF Laid
<1> QED
    BY <1>1, <1>2, <1>3, <1>4, <1>6 DEF CodeInv

LEMMA EmitCodeKeeps == ASSUME C!AssemblerAssumption, CodeInv, C!assembler_emit PROVE CodeInv'
<1> DEFINE x == cInstrs[cNext]
           code == C!Encoded(x)
           size == Len(code)
           room == C!Resized(size)
           n == Len(cBytes)
<1>1. /\ cPc = "assemble" /\ cNext <= Len(cInstrs) /\ cNext' = cNext + 1
      /\ cInstrs' = cInstrs /\ cPc' = cPc /\ cOffset' = cOffset + size
      /\ cBytes' = [i \in DOMAIN room |-> IF i \in cOffset + 1..cOffset + size
                                          THEN code[i - cOffset] ELSE room[i]]
    BY DEF C!assembler_emit
<1>2. /\ cInstrs \in Seq(Instrs) /\ cNext \in 1..Len(cInstrs)
      /\ cBytes \in Seq(Int) /\ n \in Nat /\ n = Len(cBytes) /\ cOffset \in 0..n /\ n >= 4
      /\ \A i \in 1..cOffset : cBytes[i] \in Byte
    BY <1>1 DEF CodeInv
<1>3. x \in Instrs
    BY <1>2
<1>4. code \in Seq(Byte) /\ size \in {1, 3} /\ size = Width(x) /\ size = Len(code)
    BY <1>3, EncodedIs DEF Width
<1> HIDE DEF x, code, size, n
<1>5. C!Fresh(n) \in Seq(Int) /\ Len(C!Fresh(n)) = n
    BY <1>2 DEF C!Fresh, C!JUNK
<1>6. /\ room \in Seq(Int) /\ cOffset + size < Len(room) /\ Len(room) >= n
      /\ \A i \in 1..n : room[i] = cBytes[i]
  <2>1. CASE cOffset + size >= Len(cBytes)
    <3>1. room = cBytes \o C!Fresh(n)
        BY <2>1 DEF C!Resized, n
    <3> HIDE DEF room
    <3>2. room \in Seq(Int) /\ Len(room) = Len(cBytes) + Len(C!Fresh(n))
        BY <3>1, <1>2, <1>5, ConcatProperties
    <3>3. \A i \in 1..Len(cBytes) : room[i] = cBytes[i]
        BY <3>1, <1>2, <1>5, ConcatProperties
    <3>4. Len(room) = n + n
        BY <3>2, <1>2, <1>5
    <3>5. cOffset <= n /\ cOffset \in Nat /\ n \in Nat /\ n >= 4
        BY <1>2
    <3>6. size <= 3 /\ size \in Nat
        BY <1>4
    <3>7. cOffset + size < n + n /\ n + n >= n
        BY <3>5, <3>6
    <3>8. n = Len(cBytes)
        BY <1>2
    <3> QED
        BY <3>2, <3>3, <3>4, <3>7, <3>8
  <2>2. CASE ~ (cOffset + size >= Len(cBytes))
    <3>1. room = cBytes
        BY <2>2 DEF C!Resized
    <3> QED
        BY <3>1, <2>2, <1>2, <1>4
  <2> QED
      BY <2>1, <2>2
<1> HIDE DEF room
<1>7. /\ cBytes' \in Seq(Int) /\ Len(cBytes') = Len(room)
      /\ \A i \in 1..cOffset : cBytes'[i] = cBytes[i]
      /\ \A j \in 1..size : cBytes'[cOffset + j] = code[j]
  <2>1. DOMAIN room = 1..Len(room) /\ Len(room) \in Nat
      BY <1>6
  <2>2. \A i \in cOffset + 1..cOffset + size : code[i - cOffset] \in Byte
    <3>1. \A i \in cOffset + 1..cOffset + size : i - cOffset \in 1..size
        BY <1>2, <1>4
    <3> QED
        BY <3>1, <1>4
  <2>3. \A i \in DOMAIN room : cBytes'[i] \in Int
    <3>1. \A i \in DOMAIN room : room[i] \in Int
        BY <1>6
    <3>2. Byte \subseteq Int
        BY DEF Byte
    <3> QED
        BY <1>1, <2>2, <3>1, <3>2
  <2>4. DOMAIN cBytes' = 1..Len(room) /\ cBytes' = [i \in 1..Len(room) |-> cBytes'[i]]
      BY <1>1, <2>1
  <2>5. cBytes' \in Seq(Int) /\ Len(cBytes') = Len(room)
      BY <2>1, <2>3, <2>4
  <2>6. \A i \in 1..cOffset : cBytes'[i] = cBytes[i]
    <3> TAKE i \in 1..cOffset
    <3>0. cOffset \in Nat /\ size \in Nat /\ Len(room) \in Nat /\ cOffset <= n /\ n <= Len(room) /\ n \in Nat
        BY <1>2, <1>4, <1>6
    <3>1. i \in 1..Len(room) /\ i \notin cOffset + 1..cOffset + size /\ i \in 1..n
      <4> HIDE DEF room, n, size
      <4> QED
          BY <3>0
    <3>2. i \in DOMAIN room
        BY <3>1, <2>1
    <3> QED
        BY <3>1, <3>2, <1>1, <1>6
  <2>7. \A j \in 1..size : cBytes'[cOffset + j] = code[j]
    <3> TAKE j \in 1..size
    <3>1. /\ cOffset + j \in DOMAIN room /\ cOffset + j \in cOffset + 1..cOffset + size
          /\ (cOffset + j) - cOffset = j
        BY <1>2, <1>4, <1>6, <2>1
    <3> QED
        BY <3>1, <1>1
  <2> QED
      BY <2>5, <2>6, <2>7
<1>8. PICK s : Laid(s)
    BY DEF CodeInv
<1>12. PICK t : t = Append(s, cOffset + size)
    OBVIOUS
<1>9. Laid(t)'
  <2>1. s \in Seq(Nat) /\ Len(s) = cNext /\ s[1] = 0 /\ s[cNext] = cOffset
      BY <1>8 DEF Laid
  <2>2. /\ t \in Seq(Nat) /\ Len(t) = cNext + 1 /\ t[cNext + 1] = cOffset + size
        /\ \A k \in 1..cNext : t[k] = s[k]
      BY <2>1, <1>2, <1>4, <1>12
  <2>3. ASSUME NEW k \in 1..cNext
        PROVE  /\ t[k + 1] = t[k] + Width(cInstrs[k]) /\ t[k + 1] <= cOffset + size
               /\ \A j \in 1..Width(cInstrs[k]) : cBytes'[t[k] + j] = C!Encoded(cInstrs[k])[j]
    <3>1. CASE k = cNext
      <4>1. t[k] = cOffset /\ t[k + 1] = cOffset + size /\ cInstrs[k] = x
          BY <3>1, <2>1, <2>2 DEF x
      <4>2. Width(cInstrs[k]) = size /\ C!Encoded(cInstrs[k]) = code
          BY <4>1, <1>4 DEF code
      <4>3. cOffset + size \in Int
          BY <1>2, <1>4
      <4> QED
          BY <4>1, <4>2, <4>3, <1>7
    <3>2. CASE k # cNext
      <4>1. k \in 1..cNext - 1 /\ k + 1 \in 1..cNext /\ k \in DOMAIN cInstrs
          BY <3>2, <1>2
      <4>2. /\ s[k + 1] = s[k] + Width(cInstrs[k]) /\ s[k + 1] <= cOffset
            /\ \A j \in 1..Width(cInstrs[k]) : cBytes[s[k] + j] = C!Encoded(cInstrs[k])[j]
          BY <4>1, <1>8 DEF Laid
      <4>3. Width(cInstrs[k]) \in {1, 3} /\ s[k] \in Nat
          BY <4>1, <1>2, <2>1, EncodedIs
      <4>4. ASSUME NEW j \in 1..Width(cInstrs[k])
            PROVE  s[k] + j \in 1..cOffset
        <5>1. j \in Nat /\ 1 <= j /\ j <= Width(cInstrs[k])
            BY <4>3
        <5>2. s[k] + j <= s[k] + Width(cInstrs[k]) /\ 1 <= s[k] + j
            BY <4>3, <5>1
        <5>3. s[k] \in Nat /\ Width(cInstrs[k]) \in Nat /\ cOffset \in Nat
            BY <4>3, <1>2
        <5> QED
            BY <4>2, <5>1, <5>2, <5>3
      <4>5. t[k] = s[k] /\ t[k + 1] = s[k + 1]
          BY <4>1, <2>2
      <4>6. t[k + 1] <= cOffset + size
          BY <4>2, <4>3, <4>5, <1>2, <1>4
      <4> QED
          BY <4>2, <4>4, <4>5, <4>6, <1>7
    <3> QED
        BY <3>1, <3>2
  <2>4. t[1] = 0
      BY <2>1, <2>2, <1>2
  <2>5. (cNext + 1) - 1 = cNext
      BY <1>2
  <2>6. /\ cNext' = cNext + 1 /\ cNext' - 1 = cNext /\ cInstrs' = cInstrs
        /\ cOffset' = cOffset + size
      BY <2>5, <1>1
  <2> QED
      BY <2>2, <2>3, <2>4, <2>6 DEF Laid
<1>10. \A i \in 1..cOffset + size : cBytes'[i] \in Byte
  <2> TAKE i \in 1..cOffset + size
  <2>1. CASE i \in 1..cOffset
      BY <2>1, <1>2, <1>7
  <2>2. CASE i \notin 1..cOffset
    <3>1. i - cOffset \in 1..size /\ cOffset + (i - cOffset) = i
        BY <2>2, <1>2, <1>4
    <3>2. cBytes'[i] = code[i - cOffset]
      <4> DEFINE j == i - cOffset
      <4>1. cBytes'[cOffset + j] = code[j]
          BY <3>1, <1>7
      <4> QED
          BY <4>1, <3>1
    <3>3. code[i - cOffset] \in Byte
        BY <3>1, <1>4
    <3> QED
        BY <3>2, <3>3
  <2> QED
      BY <2>1, <2>2
<1>11. cOffset' \in 0..Len(cBytes') /\ Len(cBytes') >= 4 /\ cNext' \in 1..Len(cInstrs') + 1
  <2>1. Len(room) \in Nat /\ Len(cInstrs) \in Nat /\ cOffset \in Nat /\ cNext \in Nat /\ size \in Nat
      BY <1>2, <1>4, <1>6
  <2>2. cOffset + size < Len(room) /\ Len(room) >= 4
      BY <2>1, <1>2, <1>6
  <2>3. cOffset' \in 0..Len(cBytes')
      BY <2>1, <2>2, <1>1, <1>7
  <2>4. cNext' \in 1..Len(cInstrs') + 1
      BY <2>1, <1>1, <1>2
  <2> QED
      BY <2>2, <2>3, <2>4, <1>7
<1> QED
    BY <1>1, <1>2, <1>7, <1>9, <1>10, <1>11 DEF CodeInv

LEMMA CodeNext == C!AssemblerAssumption /\ CodeInv /\ [C!Next]_cVars => CodeInv'
<1> SUFFICES ASSUME C!AssemblerAssumption, CodeInv, [C!Next]_cVars
             PROVE  CodeInv'
    OBVIOUS
<1>1. ASSUME UNCHANGED cVars
      PROVE  CodeInv'
  <2>1. \A s : Laid(s)' <=> Laid(s)
      BY <1>1 DEF cVars, Laid
  <2> QED
      BY <1>1, <2>1 DEF cVars, CodeInv
<1> QED
    BY <1>1, EmitKeeps, AssembleKeeps, EmitCodeKeeps, MakecodeKeeps DEF C!Next, Instrs

LEMMA CodeIsExact == ASSUME C!AssemblerAssumption, CodeInv PROVE C!CodeExact
<1> DEFINE n == Len(cBytes)
           l == Len(cInstrs)
           Meaning == [i \in DOMAIN cInstrs |-> IF cInstrs[i] = NONE THEN NONE ELSE cInstrs[i] % 65536]
           Rest(k) == [i \in 1..l + 1 - k |-> Value(cInstrs[k + i - 1])]
<1>1. cBytes \in Seq(Int) /\ cOffset \in 0..n /\ cInstrs \in Seq(Instrs) /\ l \in Nat /\ n \in Nat
    BY DEF CodeInv
<1>2. ASSUME cPc = "done"
      PROVE  (\A i \in DOMAIN cBytes : cBytes[i] # C!JUNK) /\ C!Fetched = Meaning
  <2>1. cNext = l + 1 /\ cOffset = n /\ \A i \in 1..n : cBytes[i] \in Byte
      BY <1>2 DEF CodeInv
  <2>2. PICK s : Laid(s)
      BY DEF CodeInv
  <2>3. PICK f : f = [pos \in 1..n + 1 |-> Fetch(f, pos)] /\ C!Fetched = f[1]
      BY <1>1, FetchedIs
  <2>4. s \in Seq(Nat) /\ Len(s) = l + 1 /\ s[1] = 0 /\ s[l + 1] = n
      BY <2>1, <2>2 DEF Laid
  <2> DEFINE S == {k \in 1..l + 1 : f[s[k] + 1] = Rest(k)}
  <2>5. l + 1 \in S
    <3>1. f[n + 1] = Fetch(f, n + 1) /\ Fetch(f, n + 1) = <<>>
        BY <2>3, <1>1 DEF Fetch
    <3>2. l + 1 - (l + 1) = 0 /\ l + 1 \in 1..l + 1
        BY <1>1
    <3>3. Rest(l + 1) = <<>>
        BY <3>2
    <3> QED
        BY <3>1, <3>2, <3>3, <2>4
  <2>6. ASSUME NEW m \in 1 + 1..l + 1, m \in S
        PROVE  m - 1 \in S
    <3> DEFINE k == m - 1
               x == cInstrs[k]
               a == s[k] + 1
    <3>1. k \in 1..l /\ k + 1 = m /\ k \in DOMAIN cInstrs /\ k \in 1..l + 1
        BY <1>1
    <3>2. x \in Instrs /\ s[k] \in Nat /\ a \in Nat \ {0}
      <4>1. s[k] \in Nat
          BY <3>1, <2>4
      <4>2. x \in Instrs
          BY <3>1, <1>1
      <4> QED
          BY <4>1, <4>2
    <3>3. /\ s[m] = s[k] + Width(x) /\ s[m] <= n
          /\ \A j \in 1..Width(x) : cBytes[s[k] + j] = C!Encoded(x)[j]
        BY <3>1, <2>1, <2>2 DEF Laid
    <3>4. f[s[m] + 1] = Rest(m)
        BY <2>6
    <3>5. f[a] = <<Value(x)>> \o f[s[m] + 1]
      <4> HIDE DEF k, x
      <4>1. CASE Width(x) = 1 /\ x = NONE /\ C!Encoded(x)[1] = 0
        <5>1. a \in 1..n /\ s[m] + 1 = a + 1 /\ a # n + 1 /\ a \in 1..n + 1
            BY <4>1, <3>2, <3>3, <1>1
        <5>2. cBytes[a] = 0
            BY <4>1, <3>3
        <5>3. Fetch(f, a) = <<NONE>> \o f[a + 1]
            BY <5>1, <5>2 DEF Fetch
        <5>4. f[a] = Fetch(f, a) /\ Value(x) = NONE
            BY <5>1, <4>1, <2>3 DEF Value
        <5> QED
            BY <5>1, <5>3, <5>4
      <4>2. CASE /\ Width(x) = 3 /\ x # NONE /\ C!Encoded(x)[1] = 1
                 /\ C!Encoded(x)[2] + 256 * C!Encoded(x)[3] = Value(x)
        <5>0. s[m] = s[k] + 3 /\ s[k] + 3 <= n
            BY <4>2, <3>3
        <5>1. a \in 1..n /\ s[m] + 1 = a + 3 /\ a # n + 1 /\ a \in 1..n + 1 /\ ~ (a + 2 > n)
          <6> DEFINE y == s[k]
          <6>1. s[m] = y + 3 /\ y + 3 <= n /\ y \in Nat /\ a = y + 1 /\ n \in Nat
              BY <5>0, <3>2, <1>1
          <6> HIDE DEF y, n, a
          <6> QED
              BY <6>1
        <5>2. cBytes[a] = 1 /\ cBytes[s[k] + 2] = C!Encoded(x)[2] /\ cBytes[s[k] + 3] = C!Encoded(x)[3]
            BY <4>2, <3>3
        <5>3. s[k] + 2 = a + 1 /\ s[k] + 3 = a + 2
            BY <3>2
        <5>4. cBytes[a + 1] + 256 * cBytes[a + 2] = Value(x)
            BY <5>2, <5>3, <4>2
        <5> HIDE DEF a
        <5>5. Fetch(f, a) = <<Value(x)>> \o f[a + 3]
          <6>1. a # Len(cBytes) + 1 /\ ~ (cBytes[a] = 0 \/ a + 2 > Len(cBytes))
              BY <5>1, <5>2
          <6> QED
              BY <5>4, <6>1 DEF Fetch
        <5>6. f[a] = Fetch(f, a)
            BY <5>1, <2>3
        <5> QED
            BY <5>1, <5>5, <5>6
      <4> QED
          BY <4>1, <4>2, <3>2, EncodedIs
    <3>6. <<Value(x)>> \o Rest(m) = Rest(k)
      <4>1. l + 1 - m \in Nat /\ l + 1 - k = (l + 1 - m) + 1
          BY <3>1, <1>1
      <4> DEFINE p == l + 1 - m
      <4>2. Rest(m) \in Seq({Value(cInstrs[i]) : i \in 1..l}) /\ Len(Rest(m)) = p
        <5>1. \A i \in 1..p : m + i - 1 \in 1..l
            BY <3>1, <1>1
        <5> QED
            BY <4>1, <5>1
      <4>3. Len(Rest(k)) = p + 1 /\ DOMAIN Rest(k) = 1..p + 1
          BY <4>1
      <4>4. ASSUME NEW i \in 1..p + 1
            PROVE  (<<Value(x)>> \o Rest(m))[i] = Rest(k)[i]
        <5>1. CASE i = 1
          <6>1. k + 1 - 1 = k
              BY <3>1
          <6> QED
              BY <5>1, <6>1, <4>1, <4>2
        <5>2. CASE i # 1
          <6>1. i - 1 \in 1..p /\ m + (i - 1) - 1 = k + i - 1
              BY <5>2, <4>1, <3>1
          <6>2. (<<Value(x)>> \o Rest(m))[i] = Rest(m)[i - 1]
              BY <6>1, <4>2
          <6> QED
              BY <6>1, <6>2, <4>1
        <5> QED
            BY <5>1, <5>2
      <4>5. DOMAIN (<<Value(x)>> \o Rest(m)) = 1..p + 1
          BY <4>1, <4>2
      <4> QED
          BY <4>3, <4>4, <4>5
    <3> QED
        BY <3>1, <3>4, <3>5, <3>6
  <2> HIDE DEF S
  <2>7. \A k \in 1..l + 1 : k \in S
    <3>1. 1 \in Int /\ l + 1 \in Int /\ 1 <= l + 1
        BY <1>1
    <3>2. \A m \in 1 + 1..l + 1 : m \in S => m - 1 \in S
        BY <2>6
    <3> HIDE DEF l
    <3> QED
        BY <3>1, <3>2, <2>5, Down
  <2>8. 1 \in S
      BY <2>7, <1>1
  <2>9. f[1] = Rest(1)
      BY <2>8, <2>4 DEF S
  <2>10. Rest(1) = Meaning
    <3>1. l + 1 - 1 = l /\ DOMAIN cInstrs = 1..l /\ \A i \in 1..l : 1 + i - 1 = i
        BY <1>1
    <3> QED
        BY <3>1 DEF Value
  <2>11. \A i \in DOMAIN cBytes : cBytes[i] # C!JUNK
    <3>1. DOMAIN cBytes = 1..n
        BY <1>1
    <3>2. C!JUNK \notin Byte
        BY DEF C!JUNK, Byte
    <3> QED
        BY <3>1, <3>2, <2>1
  <2> QED
      BY <2>3, <2>9, <2>10, <2>11
<1>3. cOffset <= n
    BY <1>1
<1> QED
    BY <1>2, <1>3 DEF C!CodeExact

LEMMA CodeSteps == [Step]_allVars => [C!Next]_cVars
BY DEF Step, IntsStep, RangeStep, MarshalStep, ArenaStep, CodeStep, NoCode, allVars, cVars

\* The machine fetches from the finished bytecode the instructions that were compiled, with
\* their arguments modulo 2^16, for functions of any length and a bytecode that begins with
\* any size from four bytes on: no instruction is written outside, and none is lost when the
\* bytecode is moved (assembler_emit, COBytes_Resize).
THEOREM BytecodeIsExact == ASSUME C!AssemblerAssumption PROVE Objects => []CodeExact
<1>1. Start => CodeInv
    BY CodeInit DEF Start
<1>2. CodeInv /\ [Step]_allVars => CodeInv'
    BY CodeSteps, CodeNext
<1>3. CodeInv => CodeExact
    BY CodeIsExact DEF CodeExact
<1> QED
    BY <1>1, <1>2, <1>3, PTL DEF Objects, Step

-----------------------------------------------------------------------------
(* Arenas: blocks of any size, any alignment, as many nodes and objects as there may be.  What
   is passed out of a block lies below its b_offset, which is always a multiple of ALIGNMENT
   (PiecesPlaced); a_cur is the last block of the list, and a set of blocks that holds a_head
   and with each block its b_next is all of them (BlocksLinked). *)

Block == [size : Nat, offset : Nat, next : Nat]

Aligned(x) == x \in Nat /\ x % ALIGNMENT = 0

\* S holds the first block of mem, and with each block the one that follows.
Closed(S, mem) == 1 \in S /\ \A m \in S : mem[m].next \in S \cup {0}

\* The inductive invariant

ArenaTyped ==
    /\ aMemory \in Seq(Block)
    /\ aObjects \in Seq(Constants)
    /\ aKept \in [Constants -> Int]
    /\ aRefs \in [Constants -> Int]

BlocksLinked ==
    /\ aHead \in {0, 1}
    /\ aHead = 0 => aMemory = <<>>
    /\ aHead = 1 =>
        /\ aCur = Len(aMemory) /\ aCur # 0
        /\ aMemory[aCur].next = 0
        /\ \A b \in DOMAIN aMemory : aMemory[b].next \in DOMAIN aMemory \cup {0}
        /\ \A S \in SUBSET DOMAIN aMemory : Closed(S, aMemory) => S = DOMAIN aMemory

PiecesPlaced ==
    /\ \A b \in DOMAIN aMemory : Aligned(aMemory[b].offset) /\ aMemory[b].offset <= aMemory[b].size
    /\ \A x \in aPieces :
        /\ x.block \in DOMAIN aMemory
        /\ Aligned(x.from) /\ x.to \in Nat /\ x.to <= aMemory[x.block].offset

Disjoint == \A x, y \in aPieces : x.block = y.block /\ x # y => x.to <= y.from \/ y.to <= x.from

ArenaInv == ArenaTyped /\ BlocksLinked /\ PiecesPlaced /\ Disjoint /\ A!ObjectsCounted

\* What is rounded up is aligned, and no smaller.
LEMMA RoundedUp ==
    ASSUME A!ArenaAssumption, NEW x \in Nat
    PROVE  Aligned(A!ROUNDUP(x)) /\ A!ROUNDUP(x) >= x
<1> DEFINE k == (x + ALIGNMENT - 1) \div ALIGNMENT
<1>1. ALIGNMENT \in Nat \ {0}
    BY DEF A!ArenaAssumption
<1>2. k \in Nat /\ k * ALIGNMENT > x - 1
    BY <1>1
<1>3. k * ALIGNMENT \in Nat /\ (k * ALIGNMENT) % ALIGNMENT = 0
    BY <1>1, <1>2
<1> QED
    BY <1>2, <1>3 DEF A!ROUNDUP, Aligned

\* Aligned numbers add up to one.
LEMMA AlignedSum ==
    ASSUME A!ArenaAssumption, NEW x, NEW y, Aligned(x), Aligned(y)
    PROVE  Aligned(x + y)
<1>1. ALIGNMENT \in Nat \ {0} /\ x \in Nat /\ y \in Nat
    BY DEF A!ArenaAssumption, Aligned
<1>2. PICK i \in Nat, j \in Nat : x = i * ALIGNMENT /\ y = j * ALIGNMENT
  <2>1. x = (x \div ALIGNMENT) * ALIGNMENT /\ y = (y \div ALIGNMENT) * ALIGNMENT
      BY <1>1 DEF Aligned
  <2>2. x \div ALIGNMENT \in Nat /\ y \div ALIGNMENT \in Nat
      BY <1>1
  <2> QED
      BY <2>1, <2>2
<1>3. PICK k \in Nat : k = i + j /\ x + y = k * ALIGNMENT
    BY <1>1, <1>2
<1>4. (k * ALIGNMENT) % ALIGNMENT = 0
    BY <1>1
<1> QED
    BY <1>1, <1>3, <1>4 DEF Aligned

\* How often o occurs in s.
Occurs(o, s) == Cardinality({i \in DOMAIN s : s[i] = o})

LEMMA OccursAppend ==
    ASSUME NEW T, NEW s \in Seq(T), NEW x \in T, NEW o
    PROVE  /\ Occurs(o, s) \in Nat
           /\ Occurs(o, Append(s, x)) = Occurs(o, s) + (IF x = o THEN 1 ELSE 0)
<1> DEFINE before == {i \in DOMAIN s : s[i] = o}
           after == {i \in DOMAIN Append(s, x) : Append(s, x)[i] = o}
           n  == Len(s) + 1
<1>1. /\ DOMAIN s = 1..Len(s) /\ Len(s) \in Nat /\ n \notin DOMAIN s
      /\ DOMAIN Append(s, x) = DOMAIN s \cup {n}
      /\ \A i \in DOMAIN s : Append(s, x)[i] = s[i]
      /\ Append(s, x)[n] = x
    OBVIOUS
<1>2. IsFiniteSet(1..Len(s))
    BY <1>1, FS_Interval
<1>3. IsFiniteSet(before) /\ Cardinality(before) \in Nat
    BY <1>1, <1>2, FS_Subset, FS_CardinalityType
<1>4. after = IF x = o THEN before \cup {n} ELSE before
    BY <1>1
<1>5. n \notin before
    BY <1>1
<1>6. Cardinality(after) = Cardinality(before) + (IF x = o THEN 1 ELSE 0)
  <2>1. Cardinality(before \cup {n}) = Cardinality(before) + 1
      BY <1>3, <1>5, FS_AddElement
  <2> HIDE DEF before, after
  <2> QED
      BY <1>3, <1>4, <2>1
<1> QED
    BY <1>3, <1>6 DEF Occurs

LEMMA SameCount == \A S : A!Cardinality(S) = Cardinality(S)
BY DEF A!Cardinality, Cardinality

LEMMA TimesOccurs ==
    /\ \A o : A!Times(o) = Occurs(o, aObjects) /\ A!Times(o)' = Occurs(o, aObjects')
    /\ \A o : Occurs(o, <<>>) = 0
<1>1. \A o : {i \in DOMAIN <<>> : <<>>[i] = o} = {}
    OBVIOUS
<1>2. \A o : Occurs(o, <<>>) = 0
    BY <1>1, FS_EmptySet DEF Occurs
<1>3. \A o : A!Times(o) = Occurs(o, aObjects)
    BY SameCount DEF A!Times, Occurs
<1>4. \A o : A!Times(o)' = Occurs(o, aObjects')
    BY DEF A!Times, Occurs, A!Cardinality, Cardinality
<1> QED
    BY <1>2, <1>3, <1>4

LEMMA ArenaInit == A!Init => ArenaInv
<1> SUFFICES ASSUME A!Init PROVE ArenaInv
    OBVIOUS
<1>1. ArenaTyped
    BY DEF A!Init, ArenaTyped
<1>2. BlocksLinked /\ PiecesPlaced /\ Disjoint
    BY DEF A!Init, BlocksLinked, PiecesPlaced, Disjoint
<1>3. A!ObjectsCounted
    BY TimesOccurs DEF A!Init, A!ObjectsCounted
<1> QED
    BY <1>1, <1>2, <1>3 DEF ArenaInv

LEMMA ArenaNew ==
    ASSUME A!ArenaAssumption, ArenaInv, A!arena_new
    PROVE  ArenaInv'
<1> DEFINE b == A!block_new(DEFAULT_BLOCK_SIZE)
<1>1. b \in Block /\ b.offset = 0 /\ b.next = 0 /\ b.size \in Nat
    BY DEF A!ArenaAssumption, Block, A!block_new
<1> HIDE DEF b
<1>2. aMemory' = <<b>> /\ aHead' = 1 /\ aCur' = 1 /\ UNCHANGED <<aPieces, aObjects, aKept, aRefs>>
    BY DEF A!arena_new, b
<1>3. DOMAIN aMemory' = {1} /\ Len(aMemory') = 1 /\ aMemory'[1] = b /\ aMemory' \in Seq(Block)
    BY <1>1, <1>2
<1>4. aPieces = {}
    BY DEF ArenaInv, BlocksLinked, PiecesPlaced, A!arena_new
<1>5. ArenaTyped'
    BY <1>2, <1>3 DEF ArenaInv, ArenaTyped
<1>6. BlocksLinked'
  <2>1. \A S \in SUBSET DOMAIN aMemory' : 1 \in S => S = DOMAIN aMemory'
      BY <1>3
  <2>2. aMemory'[1].next = 0
      BY <1>1, <1>3
  <2> QED
      BY <1>2, <1>3, <2>1, <2>2 DEF BlocksLinked, Closed
<1>7. Aligned(0)
    BY DEF Aligned, A!ArenaAssumption
<1>8. PiecesPlaced' /\ Disjoint'
    BY <1>1, <1>2, <1>3, <1>4, <1>7 DEF PiecesPlaced, Disjoint
<1>9. A!ObjectsCounted'
    BY <1>2 DEF ArenaInv, A!ObjectsCounted, A!Times
<1> QED
    BY <1>5, <1>6, <1>8, <1>9 DEF ArenaInv

LEMMA ArenaFree ==
    ASSUME ArenaInv, A!arena_free
    PROVE  ArenaInv'
<1>1. /\ aMemory' = <<>> /\ aHead' = 0 /\ aPieces' = {} /\ aObjects' = <<>> /\ aKept' = aKept
      /\ aRefs' = [o \in Constants |-> aRefs[o] - A!Times(o)]
    BY DEF A!arena_free
<1>2. \A o \in Constants : aRefs'[o] = aKept[o] /\ aKept[o] \in Int
    BY <1>1, TimesOccurs, OccursAppend DEF ArenaInv, ArenaTyped, A!ObjectsCounted
<1>3. ArenaTyped'
    BY <1>1, <1>2 DEF ArenaInv, ArenaTyped
<1>4. BlocksLinked' /\ PiecesPlaced' /\ Disjoint'
    BY <1>1 DEF BlocksLinked, PiecesPlaced, Disjoint
<1>5. \A o \in Constants : A!Times(o)' = 0
    BY <1>1, TimesOccurs
<1>6. A!ObjectsCounted'
    BY <1>1, <1>2, <1>5 DEF A!ObjectsCounted
<1> QED
    BY <1>3, <1>4, <1>6 DEF ArenaInv


LEMMA ArenaObject ==
    ASSUME ArenaInv, NEW o \in Constants, A!arena_addobject(o) \/ A!compiler_add(o) \/ A!Drop(o)
    PROVE  ArenaInv'
<1>1. UNCHANGED <<aMemory, aHead, aCur, aPieces>>
    BY DEF A!arena_addobject, A!compiler_add, A!Drop
<1>2. aObjects \in Seq(Constants) /\ aKept \in [Constants -> Int] /\ aRefs \in [Constants -> Int]
    BY DEF ArenaInv, ArenaTyped
<1>3. ArenaTyped'
  <2>1. CASE A!arena_addobject(o)
      BY <1>1, <1>2, <2>1 DEF ArenaInv, ArenaTyped, A!arena_addobject
  <2>2. CASE A!compiler_add(o)
      BY <1>1, <1>2, <2>2 DEF ArenaInv, ArenaTyped, A!compiler_add
  <2>3. CASE A!Drop(o)
      BY <1>1, <1>2, <2>3 DEF ArenaInv, ArenaTyped, A!Drop
  <2> QED
      BY <2>1, <2>2, <2>3
<1>4. BlocksLinked' /\ PiecesPlaced' /\ Disjoint'
    BY <1>1 DEF ArenaInv, BlocksLinked, PiecesPlaced, Disjoint
<1>5. ASSUME NEW x \in Constants
      PROVE  aRefs'[x] = A!Times(x)' + aKept'[x]
  <2>1. aRefs[x] = Occurs(x, aObjects) + aKept[x] /\ Occurs(x, aObjects) \in Nat
      BY <1>2, TimesOccurs, OccursAppend DEF ArenaInv, A!ObjectsCounted
  <2>2. A!Times(x)' = Occurs(x, aObjects')
      BY TimesOccurs
  <2>3. CASE A!arena_addobject(o)
    <3>1. /\ aObjects' = Append(aObjects, o) /\ aKept' = aKept
          /\ aRefs' = [aRefs EXCEPT ![o] = @ + 1 + 1 - 1]
        BY <2>3 DEF A!arena_addobject
    <3>2. Occurs(x, aObjects') = Occurs(x, aObjects) + (IF o = x THEN 1 ELSE 0)
        BY <1>2, <3>1, OccursAppend
    <3>3. aRefs'[x] = IF o = x THEN aRefs[x] + 1 ELSE aRefs[x]
        BY <1>2, <3>1
    <3> QED
        BY <1>2, <2>1, <2>2, <3>1, <3>2, <3>3
  <2>4. CASE A!compiler_add(o) \/ A!Drop(o)
    <3>1. aObjects' = aObjects
        BY <2>4 DEF A!compiler_add, A!Drop
    <3>2. aRefs'[x] - aKept'[x] = aRefs[x] - aKept[x] /\ aRefs'[x] \in Int /\ aKept'[x] \in Int
        BY <1>2, <2>4 DEF A!compiler_add, A!Drop
    <3> QED
        BY <1>2, <2>1, <2>2, <3>1, <3>2
  <2> QED
      BY <2>3, <2>4
<1> QED
    BY <1>1, <1>3, <1>4, <1>5 DEF ArenaInv, A!ObjectsCounted

Fit(size, bytes) ==
    /\ aHead # 0
    /\ A!Fits(size)
    /\ aMemory' = [aMemory EXCEPT ![aCur].offset = @ + size]
    /\ aPieces' = aPieces \cup {A!Piece(aCur, aMemory[aCur].offset, bytes)}
    /\ UNCHANGED <<aHead, aCur, aObjects, aKept, aRefs>>

More(size, bytes) ==
    /\ aHead # 0
    /\ aMemory' = Append([aMemory EXCEPT ![aCur].next = Len(aMemory) + 1],
                        [A!block_new(A!Larger(size, DEFAULT_BLOCK_SIZE)) EXCEPT !.offset = size])
    /\ aPieces' = aPieces \cup {A!Piece(Len(aMemory) + 1, 0, bytes)}
    /\ aCur' = Len(aMemory) + 1
    /\ UNCHANGED <<aHead, aObjects, aKept, aRefs>>

LEMMA FitInv ==
    ASSUME A!ArenaAssumption, ArenaInv, NEW bytes \in Nat, NEW size, Aligned(size), size >= bytes,
           Fit(size, bytes)
    PROVE  ArenaInv'
<1> DEFINE b == aMemory[aCur]
           p == A!Piece(aCur, b.offset, bytes)
<1>1. /\ aHead = 1 /\ aCur \in DOMAIN aMemory /\ b \in Block /\ aMemory \in Seq(Block)
      /\ Aligned(b.offset) /\ b.offset + size <= b.size
    BY DEF ArenaInv, ArenaTyped, BlocksLinked, PiecesPlaced, Fit, A!Fits
<1>2. b.offset \in Nat /\ b.size \in Nat /\ size \in Nat
    BY <1>1 DEF Block, Aligned
<1>3. p.block = aCur /\ p.from = b.offset /\ p.to = b.offset + bytes
    BY DEF A!Piece
<1>4. aPieces' = aPieces \cup {p} /\ UNCHANGED <<aHead, aCur, aObjects, aKept, aRefs>>
    BY DEF Fit
<1>5. /\ DOMAIN aMemory' = DOMAIN aMemory /\ aMemory' \in Seq(Block) /\ Len(aMemory') = Len(aMemory)
      /\ \A i \in DOMAIN aMemory :
            aMemory'[i] = IF i = aCur THEN [aMemory[i] EXCEPT !.offset = @ + size] ELSE aMemory[i]
  <2> DEFINE e == [b EXCEPT !.offset = @ + size]
  <2>1. e \in Block
      BY <1>1, <1>2 DEF Block
  <2>2. aMemory' = [aMemory EXCEPT ![aCur] = e]
      BY <1>1 DEF Fit
  <2> HIDE DEF e
  <2>3. /\ aMemory' \in Seq(Block) /\ Len(aMemory') = Len(aMemory)
        /\ \A i \in 1..Len(aMemory) : aMemory'[i] = IF i = aCur THEN e ELSE aMemory[i]
      BY <1>1, <2>1, <2>2, ExceptSeq
  <2> QED
      BY <1>1, <2>3 DEF e
<1>6. \A i \in DOMAIN aMemory :
        /\ aMemory'[i].next = aMemory[i].next /\ aMemory'[i].size = aMemory[i].size
        /\ aMemory'[i].offset = IF i = aCur THEN aMemory[i].offset + size ELSE aMemory[i].offset
    BY <1>1, <1>5 DEF Block
<1> HIDE DEF b, p
<1>7. ArenaTyped'
    BY <1>4, <1>5 DEF ArenaInv, ArenaTyped
<1>8. BlocksLinked'
  <2>1. \A S \in SUBSET DOMAIN aMemory : Closed(S, aMemory') => Closed(S, aMemory)
      BY <1>6 DEF Closed
  <2> QED
      BY <1>1, <1>4, <1>5, <1>6, <2>1 DEF ArenaInv, BlocksLinked
<1>9. PiecesPlaced'
  <2>1. \A i \in DOMAIN aMemory' :
          Aligned(aMemory'[i].offset) /\ aMemory'[i].offset <= aMemory'[i].size
      BY <1>1, <1>5, <1>6, AlignedSum DEF ArenaInv, PiecesPlaced, b
  <2>2. \A x \in aPieces : x.to <= aMemory'[x.block].offset
      BY <1>1, <1>2, <1>6 DEF ArenaInv, PiecesPlaced, b
  <2>3. p.to \in Nat /\ p.to <= aMemory'[p.block].offset /\ Aligned(p.from) /\ p.block \in DOMAIN aMemory
      BY <1>1, <1>2, <1>3, <1>6 DEF b
  <2> QED
      BY <1>4, <1>5, <2>1, <2>2, <2>3 DEF ArenaInv, PiecesPlaced
<1>10. Disjoint'
  <2>1. \A x \in aPieces : x.block = p.block => x.to <= p.from
      BY <1>3 DEF ArenaInv, PiecesPlaced, b
  <2> QED
      BY <1>4, <2>1 DEF ArenaInv, Disjoint
<1>11. A!ObjectsCounted'
    BY <1>4 DEF ArenaInv, A!ObjectsCounted, A!Times
<1> QED
    BY <1>7, <1>8, <1>9, <1>10, <1>11 DEF ArenaInv

LEMMA MoreInv ==
    ASSUME A!ArenaAssumption, ArenaInv, NEW bytes \in Nat, NEW size, Aligned(size), size >= bytes,
           More(size, bytes)
    PROVE  ArenaInv'
<1> DEFINE n == Len(aMemory) + 1
           b == [A!block_new(A!Larger(size, DEFAULT_BLOCK_SIZE)) EXCEPT !.offset = size]
           p == A!Piece(n, 0, bytes)
<1>1. /\ aHead = 1 /\ aCur = Len(aMemory) /\ aCur \in DOMAIN aMemory /\ aMemory \in Seq(Block)
      /\ DOMAIN aMemory = 1..aCur /\ n = aCur + 1 /\ aCur \in Nat
    BY DEF ArenaInv, ArenaTyped, BlocksLinked, More
<1>2. size \in Nat /\ DEFAULT_BLOCK_SIZE \in Nat
    BY DEF Aligned, A!ArenaAssumption
<1>3. b \in Block /\ b.offset = size /\ size <= b.size /\ b.next = 0
    BY <1>2 DEF Block, A!block_new, A!Larger
<1>4. p.block = n /\ p.from = 0 /\ p.to = bytes
    BY DEF A!Piece
<1>5. aPieces' = aPieces \cup {p} /\ aCur' = n /\ UNCHANGED <<aHead, aObjects, aKept, aRefs>>
    BY DEF More
<1>6. aMemory' = Append([aMemory EXCEPT ![aCur].next = n], b)
    BY DEF More
<1> HIDE DEF b, p
<1>7. /\ DOMAIN aMemory' = 1..n /\ aMemory' \in Seq(Block) /\ Len(aMemory') = n /\ aMemory'[n] = b
      /\ \A i \in DOMAIN aMemory :
            aMemory'[i] = IF i = aCur THEN [aMemory[i] EXCEPT !.next = n] ELSE aMemory[i]
  <2> DEFINE e == [aMemory[aCur] EXCEPT !.next = n]
             linked == [aMemory EXCEPT ![aCur].next = n]
  <2>1. aMemory[aCur] \in Block /\ n \in Nat
      BY <1>1
  <2>2. e \in Block
      BY <2>1 DEF Block
  <2>3. linked = [aMemory EXCEPT ![aCur] = e]
      OBVIOUS
  <2>4. aMemory' = Append(linked, b)
      BY <1>6
  <2> HIDE DEF e, linked
  <2>5. /\ linked \in Seq(Block) /\ Len(linked) = Len(aMemory)
        /\ \A i \in 1..Len(aMemory) : linked[i] = IF i = aCur THEN e ELSE aMemory[i]
      BY <1>1, <2>2, <2>3, ExceptSeq
  <2>6. /\ aMemory' \in Seq(Block) /\ Len(aMemory') = n /\ aMemory'[n] = b
        /\ \A i \in 1..aCur : aMemory'[i] = linked[i]
      BY <1>1, <1>3, <2>4, <2>5, AppendProperties
  <2> QED
      BY <1>1, <2>5, <2>6 DEF e
<1>8. \A i \in DOMAIN aMemory :
        /\ aMemory'[i].offset = aMemory[i].offset /\ aMemory'[i].size = aMemory[i].size
        /\ aMemory'[i].next = IF i = aCur THEN n ELSE aMemory[i].next
  <2>1. \A i \in DOMAIN aMemory : aMemory[i] \in Block
      BY <1>1
  <2> QED
      BY <1>7, <2>1 DEF Block
<1>9. ArenaTyped'
    BY <1>5, <1>7 DEF ArenaInv, ArenaTyped
<1>10. BlocksLinked'
  <2>1. ASSUME NEW S \in SUBSET DOMAIN aMemory', Closed(S, aMemory')
        PROVE  S = DOMAIN aMemory'
    <3>1. Closed(S \cap DOMAIN aMemory, aMemory)
        BY <1>1, <1>8, <2>1 DEF Closed, ArenaInv, BlocksLinked
    <3>2. DOMAIN aMemory \subseteq S
        BY <1>1, <3>1 DEF ArenaInv, BlocksLinked
    <3>3. n \in S
        BY <1>1, <1>8, <2>1, <3>2 DEF Closed
    <3> QED
      <4>1. DOMAIN aMemory' = DOMAIN aMemory \cup {n}
          BY <1>1, <1>7
      <4> QED
          BY <3>2, <3>3, <4>1
  <2>2. \A i \in DOMAIN aMemory' : aMemory'[i].next \in DOMAIN aMemory' \cup {0}
      BY <1>1, <1>3, <1>7, <1>8 DEF ArenaInv, BlocksLinked
  <2> QED
      BY <1>1, <1>3, <1>5, <1>7, <2>1, <2>2 DEF BlocksLinked
<1>11. PiecesPlaced'
  <2>1. Aligned(0)
      BY DEF Aligned, A!ArenaAssumption
  <2>2. \A i \in DOMAIN aMemory' :
          Aligned(aMemory'[i].offset) /\ aMemory'[i].offset <= aMemory'[i].size
      BY <1>1, <1>3, <1>7, <1>8 DEF ArenaInv, PiecesPlaced
  <2>3. \A x \in aPieces : x.block \in DOMAIN aMemory' /\ x.to <= aMemory'[x.block].offset
      BY <1>1, <1>7, <1>8 DEF ArenaInv, PiecesPlaced
  <2>4. p.to \in Nat /\ p.to <= aMemory'[p.block].offset /\ p.block \in DOMAIN aMemory'
      BY <1>1, <1>3, <1>4, <1>7
  <2> QED
      BY <1>4, <1>5, <2>1, <2>2, <2>3, <2>4 DEF ArenaInv, PiecesPlaced
<1>12. Disjoint'
  <2>1. \A x \in aPieces : x.block # p.block
      BY <1>1, <1>4 DEF ArenaInv, PiecesPlaced
  <2> QED
      BY <1>5, <2>1 DEF ArenaInv, Disjoint
<1>13. A!ObjectsCounted'
    BY <1>5 DEF ArenaInv, A!ObjectsCounted, A!Times
<1> QED
    BY <1>9, <1>10, <1>11, <1>12, <1>13 DEF ArenaInv

LEMMA ArenaNext ==
    ASSUME A!ArenaAssumption, ArenaInv, [A!Next]_(A!vars)
    PROVE  ArenaInv'
<1>1. ASSUME NEW bytes \in Sizes, A!arena_malloc(bytes)
      PROVE  ArenaInv'
  <2> DEFINE size == A!ROUNDUP(bytes)
  <2>1. bytes \in Nat /\ Aligned(size) /\ size >= bytes
      BY RoundedUp DEF A!ArenaAssumption
  <2>2. Fit(size, bytes) \/ More(size, bytes)
      BY <1>1 DEF A!arena_malloc, Fit, More
  <2> HIDE DEF size
  <2> QED
      BY <2>1, <2>2, FitInv, MoreInv
<1>2. CASE UNCHANGED A!vars
    BY <1>2 DEF A!vars, ArenaInv, ArenaTyped, BlocksLinked, PiecesPlaced, Disjoint, A!ObjectsCounted, A!Times
<1> QED
    BY <1>1, <1>2, ArenaNew, ArenaFree, ArenaObject DEF A!Next

LEMMA ArenaKeeps ==
    ASSUME A!ArenaAssumption, ArenaInv
    PROVE  A!PiecesApart /\ A!AllFreed /\ A!ObjectsCounted
<1>1. A!PiecesApart
  <2>1. \A x \in aPieces : x.from % ALIGNMENT = 0
      BY DEF ArenaInv, PiecesPlaced, Aligned
  <2>2. \A x \in aPieces : x.to <= aMemory[x.block].size
    <3> SUFFICES ASSUME NEW x \in aPieces
                 PROVE  x.to <= aMemory[x.block].size
        OBVIOUS
    <3>1. /\ x.block \in DOMAIN aMemory /\ x.to \in Nat /\ x.to <= aMemory[x.block].offset
          /\ aMemory[x.block].offset <= aMemory[x.block].size /\ aMemory[x.block] \in Block
        BY DEF ArenaInv, PiecesPlaced, ArenaTyped
    <3> QED
        BY <3>1 DEF Block
  <2> QED
      BY <2>1, <2>2 DEF A!PiecesApart, ArenaInv, Disjoint
<1>2. A!AllFreed
  <2> SUFFICES ASSUME aHead # 0
               PROVE  A!Linked(aHead) = DOMAIN aMemory /\ aMemory[aCur].next = 0
      BY DEF A!AllFreed
  <2>1. aHead = 1 /\ aMemory[aCur].next = 0
      BY DEF ArenaInv, BlocksLinked
  <2>2. \A S \in SUBSET DOMAIN aMemory :
          1 \in S /\ (\A m \in S : aMemory[m].next \in S \cup {0}) => S = DOMAIN aMemory
      BY <2>1 DEF ArenaInv, BlocksLinked, Closed
  <2> QED
      BY <2>1, <2>2 DEF A!Linked
<1> QED
    BY <1>1, <1>2 DEF ArenaInv

LEMMA ArenaSteps == [Step]_allVars => [A!Next]_(A!vars)
BY DEF Step, IntsStep, RangeStep, MarshalStep, ArenaStep, CodeStep, NoArena, allVars, aVars, A!vars

LEMMA ArenaInvariance == ASSUME A!ArenaAssumption PROVE Objects => []ArenaInv
<1>1. Start => ArenaInv
    BY ArenaInit DEF Start
<1>2. ArenaInv /\ [Step]_allVars => ArenaInv'
    BY ArenaSteps, ArenaNext
<1> QED
    BY <1>1, <1>2, PTL DEF Objects, Step

\* Two nodes of a syntax tree never share a byte, and each is aligned and inside its block,
\* for nodes of any size, any alignment and any number of blocks (arena_malloc, block_alloc).
THEOREM NodesAreApart == ASSUME A!ArenaAssumption PROVE Objects => []PiecesApart
<1>1. ArenaInv => PiecesApart
    BY ArenaKeeps DEF PiecesApart
<1> QED
    BY <1>1, ArenaInvariance, PTL

\* arena_free reaches every block that was allocated, however many there are: no b_next is
\* overwritten (arena_malloc, block_free).
THEOREM BlocksAreFreed == ASSUME A!ArenaAssumption PROVE Objects => []AllFreed
<1>1. ArenaInv => AllFreed
    BY ArenaKeeps DEF AllFreed
<1> QED
    BY <1>1, ArenaInvariance, PTL

\* The count of a constant or a name is the number of its places in the tree and in code
\* objects, also when it occurs many times (arena_addobject, arena_free).
THEOREM ConstantsAreCounted == ASSUME A!ArenaAssumption PROVE Objects => []ObjectsCounted
<1>1. ArenaInv => ObjectsCounted
    BY ArenaKeeps DEF ObjectsCounted
<1> QED
    BY <1>1, ArenaInvariance, PTL

=============================================================================
