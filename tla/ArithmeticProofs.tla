-------------------------- MODULE ArithmeticProofs --------------------------
(***************************************************************************)
(* Proof that module Ints implements module Arithmetic: whatever the       *)
(* operands, the size of a digit and that of a long, an operation of       *)
(* intobject.c answers what exact arithmetic answers, and the many steps   *)
(* of a division are one.                                                  *)
(*                                                                         *)
(* Why: an object stands for the number its digits make (Makes, of         *)
(* IntsProofs), and what a loop hands from one place to the next does not  *)
(* change what the digits make (MakesHandedOn).  So each loop over digits  *)
(* makes the sum, the difference, the product, the multiple, the quotient  *)
(* by a power of two or by one digit (AddValue, SubtractedValue,           *)
(* AddRowValue, SquareRowValue, LeftValue, RightValue, DivremValue); and   *)
(* the operations on objects, with their signs and sizes, do what they are *)
(* named for to the numbers (AddNumber, CompareNumber, ..., AsSsizeNumber).*)
(*                                                                         *)
(* Conversions: a numeral is unique (NumeralUnique): digits below the base *)
(* without leading zeros that are worth n are the numeral of n.  What the  *)
(* readers of literals and int_repr leave is such (BinaryValue,            *)
(* DecimalValue, ReprText).                                                *)
(*                                                                         *)
(* Division by several digits: from one digit of the quotient to the next, *)
(* shifted dividend = shifted divisor * digits found + what is left        *)
(* (DividendKept).  IntsProofs shows that what is left is below the        *)
(* divisor, so that when no digit is left the quotient is the truncated    *)
(* one (EndDividend, Truncation), and the signs are those int_divrem gives *)
(* them (TruncatedNumber).                                                 *)
(*                                                                         *)
(* ExactInv says that of every state; with IntsInv it is inductive, and    *)
(* under the two every step is one of Arithmetic or none (Refines).        *)
(***************************************************************************)
EXTENDS IntsProofs

-----------------------------------------------------------------------------
(* Sums and differences *)

\* A vector, read as if zeros followed.
LEMMA AtMakes ==
    ASSUME NEW a \in Seq(Digit), NEW n \in Nat, Len(a) <= n, NEW c, \A k \in 1..n : c[k] = At(a, k)
    PROVE  Makes(c, n, ValueOf(a), Weight)
<1>1. Makes(a, Len(a), ValueOf(a), Weight) /\ Len(a) \in Nat
    BY ValueMakes
<1>2. \A k \in 1..Len(a) : a[k] = c[k]
  <2> TAKE k \in 1..Len(a)
  <2>1. k \in DOMAIN a /\ k \in 1..n
      OBVIOUS
  <2> QED
      BY <2>1 DEF At
<1>3. Makes(c, Len(a), ValueOf(a), Weight)
    BY <1>1, <1>2, MakesOther
<1>4. \A k \in Len(a) + 1..n : c[k] = 0
  <2> TAKE k \in Len(a) + 1..n
  <2>1. k \notin DOMAIN a /\ k \in 1..n
      OBVIOUS
  <2> QED
      BY <2>1 DEF At
<1> QED
    BY <1>1, <1>3, <1>4, MakesPadded, WeightIs

\* x_add adds.
LEMMA AddValue ==
    ASSUME NEW a \in Seq(Digit), NEW b \in Seq(Digit)
    PROVE  ValueOf(x_add(a, b)) = ValueOf(a) + ValueOf(b)
<1> DEFINE n == Max({Len(a), Len(b)})
<1>1. n \in Nat /\ Len(a) <= n /\ Len(b) <= n
    BY Larger
<1> HIDE DEF n
<1>2. PICK f :
        /\ f = [i \in 0..n |-> IF i = 0 THEN 0 ELSE Sum(f, i, a, b) \div BASE]
        /\ x_add(a, b) = int_normalize([i \in 1..n + 1 |-> IF i > n THEN f[n] ELSE Sum(f, i, a, b) % BASE])
    BY <1>1, AddIs DEF n
<1>3. f[0] = 0 /\ \A i \in 1..n : f[i] = Sum(f, i, a, b) \div BASE
  <2>1. \A i \in 0..n : f[i] = IF i = 0 THEN 0 ELSE Sum(f, i, a, b) \div BASE
      BY <1>2
  <2>2. 0 \in 0..n /\ \A i \in 1..n : i \in 0..n /\ i # 0
      BY <1>1
  <2> QED
      BY <2>1, <2>2
<1>4. \A i \in 0..n : f[i] \in Int
  <2>1. f[0] \in Int
      BY <1>3
  <2>2. ASSUME NEW i \in 0 + 1..n, f[i - 1] \in Int
        PROVE  f[i] \in Int
    <3>1. At(a, i) \in Nat /\ At(b, i) \in Nat
        BY AtDigit
    <3>2. Sum(f, i, a, b) \in Int
        BY <3>1, <2>2 DEF Sum
    <3>3. Sum(f, i, a, b) \div BASE \in Int
        BY <3>2, Remainder
    <3> QED
        BY <3>3, <1>3
  <2>3. 0 \in Int /\ n \in Int /\ 0 <= n
      BY <1>1
  <2>4. \A i \in 0 + 1..n : f[i - 1] \in Int => f[i] \in Int
      BY <2>2
  <2> QED
      BY <2>1, <2>3, <2>4, Stays
<1> DEFINE A == [i \in 1..n |-> At(a, i)]
           B == [i \in 1..n |-> At(b, i)]
           t == [i \in 1..n |-> At(a, i) + At(b, i)]
           z == [i \in 1..n |-> Sum(f, i, a, b)]
           s == [i \in 1..n + 1 |-> IF i > n THEN f[n] ELSE Sum(f, i, a, b) % BASE]
<1>5. Makes(A, n, ValueOf(a), Weight) /\ Makes(B, n, ValueOf(b), Weight)
  <2>1. Makes(A, n, ValueOf(a), Weight)
      BY <1>1, AtMakes
  <2>2. Makes(B, n, ValueOf(b), Weight)
      BY <1>1, AtMakes
  <2> QED
      BY <2>1, <2>2
<1>6. \A i \in 1..n : At(a, i) \in Nat /\ At(b, i) \in Nat
    BY AtDigit
<1>7. Combined(t, 1, A, 1, B, n)
    BY <1>6 DEF Combined
<1>8. PassedOn(z, t, n, BASE)
  <2> SUFFICES ASSUME NEW i \in 1..n
               PROVE  t[i] \in Int /\ z[i] \in Int /\ z[i] = t[i] + (IF i = 1 THEN 0 ELSE z[i - 1] \div BASE)
      BY DEF PassedOn
  <2>1. i - 1 \in 0..n /\ f[i - 1] \in Int
      BY <1>1, <1>4
  <2>2. f[i - 1] = IF i = 1 THEN 0 ELSE z[i - 1] \div BASE
    <3>1. CASE i = 1
        BY <3>1, <1>3
    <3>2. CASE i # 1
      <4>1. i - 1 \in 1..n
          BY <3>2, <1>1
      <4> QED
          BY <4>1, <3>2, <1>3
    <3> QED
        BY <3>1, <3>2
  <2>3. t[i] = At(a, i) + At(b, i) /\ z[i] = f[i - 1] + At(a, i) + At(b, i)
      BY DEF Sum
  <2> HIDE DEF t, z
  <2> QED
      BY <2>1, <2>2, <2>3, <1>6
<1>9. CutIn(s, z, n, BASE)
  <2> SUFFICES ASSUME NEW i \in 1..n
               PROVE  s[i] = z[i] % BASE
      BY DEF CutIn
  <2>1. i \in 1..n + 1 /\ ~ (i > n)
      BY <1>1
  <2> QED
      BY <2>1
<1>10. f[n] = IF n = 0 THEN 0 ELSE z[n] \div BASE
  <2>1. n # 0 => n \in 1..n
      BY <1>1
  <2> QED
      BY <2>1, <1>3
<1>11. s[n + 1] = f[n]
  <2>1. n + 1 \in 1..n + 1 /\ n + 1 > n
      BY <1>1
  <2> QED
      BY <2>1
<1>12. s \in Seq(0..MASK) /\ Len(s) = n + 1
  <2>1. \A i \in 1..n + 1 : s[i] \in 0..MASK
    <3> TAKE i \in 1..n + 1
    <3>1. CASE i > n
      <4>1. f[n] \in Bit
        <5>1. \A k \in 0..n : f[k] \in Bit
          <6>1. f[0] \in Bit
              BY <1>3 DEF Bit
          <6>2. ASSUME NEW k \in 0 + 1..n, f[k - 1] \in Bit
                PROVE  f[k] \in Bit
            <7>1. At(a, k) \in Digit /\ At(b, k) \in Digit
                BY AtDigit
            <7>2. Sum(f, k, a, b) \in Nat /\ Sum(f, k, a, b) < BASE * (1 + 1)
                BY <7>1, <6>2, DigitSizes DEF Sum, Digit, Bit
            <7>3. Sum(f, k, a, b) \div BASE \in 0..1
                BY <7>2, DigitSizes, Under
            <7>4. f[k] = Sum(f, k, a, b) \div BASE
                BY <1>3
            <7> QED
                BY <7>3, <7>4 DEF Bit
          <6>3. 0 \in Int /\ n \in Int /\ 0 <= n
              BY <1>1
          <6>4. \A k \in 0 + 1..n : f[k - 1] \in Bit => f[k] \in Bit
              BY <6>2
          <6> QED
              BY <6>1, <6>3, <6>4, Stays
        <5>2. n \in 0..n
            BY <1>1
        <5> QED
            BY <5>1, <5>2
      <4> QED
          BY <4>1, <3>1, DigitSizes DEF Bit
    <3>2. CASE ~ (i > n)
      <4>1. i \in 1..n
          BY <3>2, <1>1
      <4>2. s[i] = z[i] % BASE /\ z[i] \in Int
          BY <4>1, <1>8, <1>9 DEF CutIn, PassedOn
      <4> HIDE DEF s, z
      <4> QED
          BY <4>2, Remainder
    <3> QED
        BY <3>1, <3>2
  <2>2. DOMAIN s = 1..n + 1
      OBVIOUS
  <2>3. PICK y : y = s
      OBVIOUS
  <2>4. y = [i \in 1..n + 1 |-> y[i]]
      BY <2>3
  <2> HIDE DEF s
  <2>5. n + 1 \in Nat /\ \A i \in 1..n + 1 : y[i] \in 0..MASK
      BY <1>1, <2>1, <2>3
  <2>6. y \in Seq(0..MASK) /\ Len(y) = n + 1
      BY <2>4, <2>5, Listed
  <2> QED
      BY <2>3, <2>6
<1> HIDE DEF A, B, t, z, s
<1>13. Makes(t, n, ValueOf(a) + ValueOf(b), Weight)
  <2> DEFINE x == ValueOf(a)
             y == ValueOf(b)
  <2>1. x \in Int /\ y \in Int
      BY ValueBelow
  <2>2. Makes(A, n, x, Weight) /\ Makes(B, n, y, Weight) /\ 1 \in Int
      BY <1>5
  <2> HIDE DEF x, y
  <2>3. Makes(t, n, 1 * x + 1 * y, Weight)
      BY <2>2, <1>1, <1>7, MakesAdd, WeightIs
  <2>4. 1 * x + 1 * y = x + y
      BY <2>1
  <2> QED
      BY <2>3, <2>4 DEF x, y
<1>14. PICK x : x = ValueOf(a) + ValueOf(b)
    OBVIOUS
<1>15. Makes(s, n + 1, x, Weight)
  <2>1. x \in Int /\ f[n] \in Int /\ Weight[n] \in Int
    <3>1. n \in 0..n /\ ValueOf(a) \in Int /\ ValueOf(b) \in Int
        BY <1>1, ValueBelow
    <3>2. Weight[n] \in Int
        BY <1>1, WeightAt
    <3> QED
        BY <3>1, <3>2, <1>4, <1>14
  <2>2. PICK y : y = x - f[n] * Weight[n]
      OBVIOUS
  <2>3. y + f[n] * Weight[n] = x
    <3>1. PICK j : j = f[n] * Weight[n]
        OBVIOUS
    <3>2. j \in Int
        BY <2>1, <3>1
    <3> QED
        BY <3>1, <3>2, <2>1, <2>2
  <2>4. Makes(s, n, y, Weight)
    <3>1. Makes(t, n, x, Weight)
        BY <1>13, <1>14
    <3>2. Makes(s, n, x - f[n] * Weight[n], Weight)
        BY <3>1, <1>1, <1>8, <1>9, <1>10, MakesCarried, WeightIs
    <3> QED
        BY <3>2, <2>2
  <2>5. s[n + 1] \in Int
      BY <2>1, <1>11
  <2>6. Makes(s, n + 1, y + s[n + 1] * Weight[n], Weight)
      BY <2>4, <2>5, <1>1, MakesNext, WeightIs
  <2> QED
      BY <2>3, <2>6, <1>11
<1>16. ValueOf(s) = ValueOf(a) + ValueOf(b)
  <2>1. s \in Seq(Digit) /\ \A k \in 1..Len(s) : s[k] = s[k]
      BY <1>12 DEF Digit
  <2>2. Makes(s, Len(s), x, Weight)
      BY <1>12, <1>15
  <2> QED
      BY <2>1, <2>2, <1>14, MakesValue
<1>17. x_add(a, b) = int_normalize(s)
    BY <1>2 DEF s
<1>18. s \in Seq(Digit)
    BY <1>12 DEF Digit
<1> QED
    BY <1>16, <1>17, <1>18, NormalizeValue

\* A digit has SHIFT + 2 bits.
LEMMA WordSize == 2^(SHIFT + 2) = 4 * BASE
<1>1. 2^(SHIFT + 2) = 2^SHIFT * 2^2
    BY TwoPowers, DigitSizes
<1>2. 2^2 = 4
    OBVIOUS
<1> QED
    BY <1>1, <1>2, DigitSizes

\* A borrow is the negative carry.
LEMMA BorrowIs ==
    ASSUME NEW x \in Int, -BASE <= x, x < BASE
    PROVE  /\ uint32(x) % BASE = x % BASE
           /\ (uint32(x) \div BASE) % 2 = IF x < 0 THEN 1 ELSE 0
           /\ x \div BASE = IF x < 0 THEN -1 ELSE 0
<1>1. BASE \in Nat \ {0} /\ BASE \in Int /\ 4 * BASE \in Nat \ {0} /\ uint32(x) = x % (4 * BASE) /\ 2 \in Nat \ {0}
    BY DigitSizes, WordSize DEF uint32
<1>2. CASE x < 0
  <2>1. PICK y \in Int : y = x + 4 * BASE
      BY <1>1
  <2>2. uint32(x) = y
    <3>1. 0 <= y /\ y < 4 * BASE /\ x = (4 * BASE) * (-1) + y /\ -1 \in Int
        BY <2>1, <1>1, <1>2
    <3>2. x % (4 * BASE) = y
        BY <3>1, <1>1, Quotient
    <3> QED
        BY <3>2, <1>1
  <2>3. PICK u \in Int : u = x + BASE
      BY <1>1
  <2>4. 0 <= u /\ u < BASE /\ y = BASE * 3 + u /\ x = BASE * (-1) + u /\ 3 \in Int /\ -1 \in Int
      BY <2>1, <2>3, <1>1, <1>2
  <2>5. y % BASE = u /\ y \div BASE = 3
    <3>1. y % BASE = u
        BY <2>4, <1>1, Quotient
    <3>2. y \div BASE = 3
        BY <2>4, <1>1, Quotient
    <3> QED
        BY <3>1, <3>2
  <2>6. x % BASE = u /\ x \div BASE = -1
    <3>1. x % BASE = u
        BY <2>4, <1>1, Quotient
    <3>2. x \div BASE = -1
        BY <2>4, <1>1, Quotient
    <3> QED
        BY <3>1, <3>2
  <2>7. 3 % 2 = 1
      OBVIOUS
  <2> QED
      BY <2>2, <2>5, <2>6, <2>7, <1>2
<1>3. CASE x >= 0
  <2>1. uint32(x) = x
    <3>1. 0 <= x /\ x < 4 * BASE /\ x = (4 * BASE) * 0 + x /\ 0 \in Int
        BY <1>1, <1>3
    <3>2. x % (4 * BASE) = x
        BY <3>1, <1>1, Quotient
    <3> QED
        BY <3>2, <1>1
  <2>2. x \div BASE = 0
    <3>1. 0 <= x /\ x < BASE /\ x = BASE * 0 + x /\ 0 \in Int
        BY <1>1, <1>3
    <3> QED
        BY <3>1, <1>1, Quotient
  <2>3. 0 % 2 = 0
      OBVIOUS
  <2> QED
      BY <2>1, <2>2, <2>3, <1>3
<1> QED
    BY <1>2, <1>3

\* The difference of two digits and a borrow
Less1(f, i, a, b) == At(a, i) - At(b, i) - f[i - 1]

\* The borrows of a subtraction.
LEMMA SubtractedIs ==
    ASSUME NEW a \in Seq(Digit), NEW b \in Seq(Digit), NEW n \in Nat, n = Len(a)
    PROVE  \E f :
              /\ f[0] = 0 /\ \A i \in 0..n : f[i] \in Bit
              /\ \A i \in 1..n : f[i] = (uint32(Less1(f, i, a, b)) \div BASE) % 2
              /\ Subtracted(a, b) = int_normalize([i \in 1..n |-> uint32(Less1(f, i, a, b)) % BASE])
<1> DEFINE G == [i \in 0 + 1..n |-> [y \in Bit |-> (uint32(At(a, i) - At(b, i) - y) \div BASE) % 2]]
           Is(f) == f = [i \in 0..n |-> IF i = 0 THEN 0 ELSE (uint32(At(a, i) - At(b, i) - f[i - 1]) \div BASE) % 2]
           h == CHOOSE f : Is(f)
<1>1. ASSUME NEW i \in 0 + 1..n, NEW y \in Bit
      PROVE  (uint32(At(a, i) - At(b, i) - y) \div BASE) % 2 \in Bit
  <2>1. At(a, i) \in Nat /\ At(b, i) \in Nat
      BY AtDigit
  <2>2. At(a, i) - At(b, i) - y \in Int
      BY <2>1 DEF Bit
  <2>3. uint32(At(a, i) - At(b, i) - y) \in Nat
      BY <2>2, Wrapped
  <2>4. uint32(At(a, i) - At(b, i) - y) \div BASE \in Int
      BY <2>3, Remainder
  <2>5. 2 \in Nat \ {0}
      OBVIOUS
  <2>6. (uint32(At(a, i) - At(b, i) - y) \div BASE) % 2 \in 0..2 - 1
      BY <2>4, <2>5, Division
  <2> QED
      BY <2>6 DEF Bit
<1>3. Maps(G, 0, n, Bit)
    BY <1>1 DEF Maps
<1>5. \A i \in 0..n : \A y \in Bit : i # 0 => G[i][y] = (uint32(At(a, i) - At(b, i) - y) \div BASE) % 2
    OBVIOUS
<1> HIDE DEF G
<1>4. PICK f : f \in [0..n -> Bit] /\ Chained(f, 0, n, 0, G)
  <2>1. 0 \in Int /\ n \in Int /\ 0 \in Bit
      BY DEF Bit
  <2> QED
      BY <1>3, <2>1, Iteration, Zenon
<1>6. f = [i \in 0..n |-> IF i = 0 THEN 0 ELSE G[i][f[i - 1]]]
    BY <1>4 DEF Chained
<1>7. \A i \in 0..n : i # 0 => f[i - 1] \in Bit
    BY <1>4
<1>8. Is(f)
    BY <1>5, <1>6, <1>7
<1>9. Is(h)
    BY <1>8
<1>10. DOMAIN a = 1..n
    OBVIOUS
<1> HIDE DEF h
<1>11. Subtracted(a, b) = int_normalize([i \in 1..n |-> uint32(At(a, i) - At(b, i) - h[i - 1]) % BASE])
  <2>1. Subtracted(a, b) = int_normalize([i \in DOMAIN a |-> uint32(a[i] - At(b, i) - h[i - 1]) % BASE])
      BY DEF Subtracted, h
  <2>2. \A i \in DOMAIN a : a[i] = At(a, i)
      BY DEF At
  <2>3. [i \in DOMAIN a |-> uint32(a[i] - At(b, i) - h[i - 1]) % BASE]
          = [i \in 1..n |-> uint32(At(a, i) - At(b, i) - h[i - 1]) % BASE]
      BY <2>2, <1>10
  <2> QED
      BY <2>1, <2>3
<1>12. \A i \in 0..n : h[i] = IF i = 0 THEN 0 ELSE (uint32(At(a, i) - At(b, i) - h[i - 1]) \div BASE) % 2
    BY <1>9
<1>13. 0 \in 0..n /\ \A i \in 1..n : i \in 0..n /\ i # 0
    OBVIOUS
<1>14. h[0] = 0 /\ \A i \in 1..n : h[i] = (uint32(At(a, i) - At(b, i) - h[i - 1]) \div BASE) % 2
    BY <1>12, <1>13
<1>15. \A i \in 0..n : h[i] \in Bit
  <2>1. h[0] \in Bit
      BY <1>14 DEF Bit
  <2>2. \A i \in 0 + 1..n : h[i - 1] \in Bit => h[i] \in Bit
      BY <1>1, <1>14
  <2>3. 0 \in Int /\ n \in Int /\ 0 <= n
      OBVIOUS
  <2> QED
      BY <2>1, <2>2, <2>3, Stays
<1> QED
    BY <1>11, <1>14, <1>15 DEF Less1

\* With the borrows in unsigned arithmetic, the greater less the smaller.
LEMMA SubtractedValue ==
    ASSUME NEW a \in Seq(Digit), NEW b \in Seq(Digit), Len(b) <= Len(a), ValueOf(b) <= ValueOf(a)
    PROVE  ValueOf(Subtracted(a, b)) = ValueOf(a) - ValueOf(b)
<1>1. PICK n \in Nat : n = Len(a)
    OBVIOUS
<1>2. PICK f :
         /\ f[0] = 0 /\ \A i \in 0..n : f[i] \in Bit
         /\ \A i \in 1..n : f[i] = (uint32(Less1(f, i, a, b)) \div BASE) % 2
         /\ Subtracted(a, b) = int_normalize([i \in 1..n |-> uint32(Less1(f, i, a, b)) % BASE])
    BY <1>1, SubtractedIs
<1>3. \A i \in 1..n : At(a, i) \in Digit /\ At(b, i) \in Digit /\ At(a, i) \in Nat /\ At(b, i) \in Nat
  <2> TAKE i \in 1..n
  <2>1. i \in Int
      OBVIOUS
  <2>2. At(a, i) \in Digit /\ At(a, i) \in Nat
      BY <2>1, AtDigit
  <2>3. At(b, i) \in Digit /\ At(b, i) \in Nat
      BY <2>1, AtDigit
  <2> QED
      BY <2>2, <2>3
<1> DEFINE A == [i \in 1..n |-> At(a, i)]
           B == [i \in 1..n |-> At(b, i)]
           t == [i \in 1..n |-> At(a, i) - At(b, i)]
           z == [i \in 1..n |-> Less1(f, i, a, b)]
           s == [i \in 1..n |-> uint32(Less1(f, i, a, b)) % BASE]
<1>4. ASSUME NEW i \in 1..n
      PROVE  z[i] \in Int /\ s[i] = z[i] % BASE /\ f[i] = -(z[i] \div BASE)
  <2>1. z[i] = At(a, i) - At(b, i) - f[i - 1]
      BY DEF Less1
  <2>2. f[i - 1] \in {0, 1}
    <3>1. i - 1 \in 0..n
        BY <1>1
    <3> QED
        BY <3>1, <1>2 DEF Bit
  <2>3. z[i] \in Int /\ -BASE <= z[i] /\ z[i] < BASE
    <3>1. At(a, i) \in Nat /\ At(b, i) \in Nat /\ At(a, i) < BASE /\ At(b, i) < BASE
        BY <1>3, DigitIs
    <3> HIDE DEF z
    <3> QED
        BY <3>1, <2>1, <2>2, DigitSizes
  <2>4. s[i] = uint32(z[i]) % BASE /\ f[i] = (uint32(z[i]) \div BASE) % 2
      BY <1>2
  <2> HIDE DEF z, s
  <2>5. /\ uint32(z[i]) % BASE = z[i] % BASE
        /\ (uint32(z[i]) \div BASE) % 2 = IF z[i] < 0 THEN 1 ELSE 0
        /\ z[i] \div BASE = IF z[i] < 0 THEN -1 ELSE 0
      BY <2>3, BorrowIs
  <2>6. f[i] = -(z[i] \div BASE)
    <3>1. CASE z[i] < 0
      <4>1. f[i] = 1 /\ z[i] \div BASE = -1
          BY <2>4, <2>5, <3>1
      <4> QED
          BY <4>1
    <3>2. CASE ~ (z[i] < 0)
      <4>1. f[i] = 0 /\ z[i] \div BASE = 0
          BY <2>4, <2>5, <3>2
      <4>2. -(z[i] \div BASE) = 0 - (z[i] \div BASE)
          BY <4>1, Minus
      <4> QED
          BY <4>1, <4>2
    <3> QED
        BY <3>1, <3>2
  <2> QED
      BY <2>3, <2>4, <2>5, <2>6
<1>5. Makes(A, n, ValueOf(a), Weight) /\ Makes(B, n, ValueOf(b), Weight)
  <2>1. Makes(A, n, ValueOf(a), Weight)
      BY <1>1, AtMakes
  <2>2. Makes(B, n, ValueOf(b), Weight)
      BY <1>1, AtMakes
  <2> QED
      BY <2>1, <2>2
<1>6. Combined(t, 1, A, -1, B, n)
    BY <1>3 DEF Combined
<1>7. PassedOn(z, t, n, BASE)
  <2> SUFFICES ASSUME NEW i \in 1..n
               PROVE  t[i] \in Int /\ z[i] \in Int /\ z[i] = t[i] + (IF i = 1 THEN 0 ELSE z[i - 1] \div BASE)
      BY DEF PassedOn
  <2>1. z[i] = At(a, i) - At(b, i) - f[i - 1] /\ t[i] = At(a, i) - At(b, i) /\ z[i] \in Int
      BY <1>4 DEF Less1
  <2>2. t[i] \in Int
      BY <2>1, <1>3
  <2> HIDE DEF t, z, s
  <2>3. CASE i = 1
    <3>1. f[i - 1] = 0
        BY <2>3, <1>2
    <3> QED
        BY <2>1, <2>2, <2>3, <3>1, <1>3
  <2>4. CASE i # 1
    <3>1. i - 1 \in 1..n
        BY <2>4, <1>1
    <3>2. f[i - 1] = -(z[i - 1] \div BASE) /\ z[i - 1] \in Int
        BY <3>1, <1>4
    <3>3. z[i - 1] \div BASE \in Int
        BY <3>2, Remainder
    <3> QED
        BY <2>1, <2>2, <2>4, <3>2, <3>3, <1>3
  <2> QED
      BY <2>3, <2>4
<1>8. CutIn(s, z, n, BASE)
    BY <1>4 DEF CutIn
<1>9. s \in Seq(Digit) /\ Len(s) = n
  <2>1. \A i \in 1..n : s[i] \in Digit
    <3> TAKE i \in 1..n
    <3>1. s[i] = z[i] % BASE /\ z[i] \in Int
        BY <1>4
    <3> HIDE DEF s, z
    <3> QED
        BY <3>1, Remainder DEF Digit
  <2>2. PICK y : y = s
      OBVIOUS
  <2>3. y = [i \in 1..n |-> y[i]]
      BY <2>2
  <2> HIDE DEF s
  <2>4. \A i \in 1..n : y[i] \in Digit
      BY <2>1, <2>2
  <2>5. y \in Seq(Digit) /\ Len(y) = n
      BY <2>3, <2>4, Listed
  <2> QED
      BY <2>2, <2>5
<1>10. Subtracted(a, b) = int_normalize(s)
    BY <1>2
<1>11. PICK c : c = IF n = 0 THEN 0 ELSE z[n] \div BASE
  <2> HIDE DEF z
  <2> QED
      OBVIOUS
<1>12. c \in Int
  <2>1. CASE n = 0
      BY <2>1, <1>11
  <2>2. CASE n # 0
    <3>1. n \in 1..n
        BY <2>2
    <3>2. z[n] \in Int
        BY <3>1, <1>4
    <3> HIDE DEF z
    <3> QED
        BY <2>2, <3>2, <1>11, Remainder
  <2> QED
      BY <2>1, <2>2
<1> HIDE DEF A, B, t, z, s
<1>13. PICK x, y : x = ValueOf(a) /\ y = ValueOf(b)
    OBVIOUS
<1>14. x \in Nat /\ y \in Nat /\ y <= x /\ x < Weight[n] /\ Weight[n] \in Nat /\ x - y \in Nat /\ x - y < Weight[n]
  <2>1. x \in Nat /\ x < Place(n) /\ y \in Nat
      BY <1>1, <1>13, ValueBelow
  <2>2. Weight[n] = Place(n) /\ Weight[n] \in Nat
      BY <1>1, WeightAt
  <2>3. y <= x
      BY <1>13
  <2> QED
      BY <2>1, <2>2, <2>3
<1>15. Makes(t, n, x - y, Weight)
  <2>1. Makes(A, n, x, Weight) /\ Makes(B, n, y, Weight) /\ 1 \in Int /\ -1 \in Int
      BY <1>5, <1>13
  <2>2. Makes(t, n, 1 * x + (-1) * y, Weight)
      BY <2>1, <1>6, MakesAdd, WeightIs
  <2>3. 1 * x + (-1) * y = x - y
      BY <1>14
  <2> QED
      BY <2>2, <2>3
<1>16. PICK e : e = x - y
    OBVIOUS
<1>17. Makes(s, n, e - c * Weight[n], Weight)
  <2>1. Makes(t, n, e, Weight)
      BY <1>15, <1>16
  <2> QED
      BY <2>1, <1>7, <1>8, <1>11, MakesCarried, WeightIs
<1>18. ValueOf(s) = e - c * Weight[n]
  <2>1. PICK j : j = e - c * Weight[n]
      OBVIOUS
  <2>2. Makes(s, Len(s), j, Weight) /\ s \in Seq(Digit) /\ \A k \in 1..Len(s) : s[k] = s[k]
      BY <2>1, <1>9, <1>17
  <2> QED
      BY <2>1, <2>2, MakesValue
<1>19. ValueOf(s) = e
  <2>1. PICK j, p : j = ValueOf(s) /\ p = Weight[n]
      OBVIOUS
  <2>2. j \in Nat /\ j < p /\ p \in Nat
    <3>1. j \in Nat /\ j < Place(n)
        BY <2>1, <1>9, ValueBelow
    <3>2. Weight[n] = Place(n)
        BY <1>1, WeightAt
    <3> QED
        BY <2>1, <3>1, <3>2, <1>14
  <2>3. e \in Int /\ 0 <= e /\ e < p /\ j + c * p = e
    <3>1. PICK u : u = c * p
        OBVIOUS
    <3>2. u \in Int
        BY <3>1, <2>2, <1>12
    <3>3. j = e - u /\ e \in Int /\ 0 <= e /\ e < p
        BY <3>1, <2>1, <1>14, <1>16, <1>18
    <3> QED
        BY <3>1, <3>2, <3>3, <2>2
  <2>4. j = e
      BY <2>2, <2>3, <1>12, Multiples
  <2> QED
      BY <2>1, <2>4
<1> QED
    BY <1>9, <1>10, <1>13, <1>16, <1>19, NormalizeValue

\* The highest place where they differ decides.
LEMMA MakesLess ==
    ASSUME NEW n \in Nat, NEW a, NEW c, \A k \in 1..n : a[k] \in Digit /\ c[k] \in Digit,
           NEW x, Makes(a, n, x, Weight), NEW y, Makes(c, n, y, Weight),
           NEW i \in 1..n, a[i] > c[i], \A j \in i + 1..n : a[j] = c[j]
    PROVE  x > y
<1>1. PICK f : Totals(f, a, n, Weight) /\ f[n] = x
    BY DEF Makes
<1>2. PICK g : Totals(g, c, n, Weight) /\ g[n] = y
    BY DEF Makes
<1>3. Sums(f, a, n) /\ Sums(g, c, n)
    BY <1>1, <1>2, SumsAreTotals DEF Weight
<1>4. (\A k \in 0..n : f[k] \in Nat /\ f[k] < Place(k)) /\ (\A k \in 0..n : g[k] \in Nat /\ g[k] < Place(k))
  <2>1. (\A k \in 1..n : a[k] \in Digit) /\ (\A k \in 1..n : c[k] \in Digit)
      OBVIOUS
  <2>2. \A k \in 0..n : f[k] \in Nat /\ f[k] < Place(k)
      BY <2>1, <1>3, SumsBelow
  <2>3. \A k \in 0..n : g[k] \in Nat /\ g[k] < Place(k)
      BY <2>1, <1>3, SumsBelow
  <2> QED
      BY <2>2, <2>3
<1> DEFINE S == {k \in i..n : f[k] > g[k]}
<1>5. i \in S
  <2>1. i - 1 \in 0..n /\ i - 1 \in Nat /\ i \in 1..n /\ i \in i..n
      OBVIOUS
  <2>2. f[i] = f[i - 1] + a[i] * Place(i - 1) /\ g[i] = g[i - 1] + c[i] * Place(i - 1)
      BY <1>3 DEF Sums
  <2> DEFINE p == Place(i - 1)
             u == a[i]
             o == c[i]
  <2>3. p \in Nat \ {0} /\ u \in Nat /\ o \in Nat /\ o + 1 <= u
      BY <2>1, Places, DigitIs
  <2>4. f[i - 1] \in Nat /\ g[i - 1] \in Nat /\ g[i - 1] < p
      BY <2>1, <1>4
  <2>5. f[i] = f[i - 1] + u * p /\ g[i] = g[i - 1] + o * p
      BY <2>2
  <2> HIDE DEF p, u, o, S
  <2>6. p * (o + 1) <= p * u
      BY <2>3, Monotone
  <2>7. p * (o + 1) = o * p + p /\ p * u = u * p /\ o * p \in Nat /\ u * p \in Nat
      BY <2>3
  <2>8. f[i] > g[i]
      BY <2>3, <2>4, <2>5, <2>6, <2>7
  <2> QED
      BY <2>1, <2>8 DEF S
<1>6. ASSUME NEW k \in i..n - 1, k \in S
      PROVE  k + 1 \in S
  <2>1. k + 1 \in 1..n /\ k + 1 - 1 = k /\ k + 1 \in i..n /\ k \in Nat /\ k \in 0..n /\ k + 1 \in 0..n /\ k + 1 \in i + 1..n
      OBVIOUS
  <2>2. f[k + 1] = f[k] + a[k + 1] * Place(k) /\ g[k + 1] = g[k] + c[k + 1] * Place(k)
      BY <2>1, <1>3 DEF Sums
  <2>3. a[k + 1] = c[k + 1] /\ f[k] > g[k]
      BY <2>1, <1>6
  <2> DEFINE j == c[k + 1] * Place(k)
  <2>4. j \in Int
    <3>1. c[k + 1] \in Nat /\ Place(k) \in Nat
        BY <2>1, DigitIs, Places
    <3> QED
        BY <3>1
  <2>5. f[k + 1] = f[k] + j /\ g[k + 1] = g[k] + j /\ f[k] \in Int /\ g[k] \in Int
      BY <2>1, <2>2, <2>3, <1>4
  <2> HIDE DEF j, S
  <2>6. f[k + 1] > g[k + 1]
      BY <2>3, <2>4, <2>5
  <2> QED
      BY <2>1, <2>6 DEF S
<1> HIDE DEF S
<1>7. i \in Int /\ n \in Int /\ i <= n
    OBVIOUS
<1>8. \A k \in i..n : k \in S
    BY <1>5, <1>6, <1>7, Up
<1>9. n \in i..n
    OBVIOUS
<1> QED
    BY <1>1, <1>2, <1>8, <1>9 DEF S

\* What the code takes for the greater is the greater.
LEMMA ExceedsValue ==
    ASSUME NEW a, NEW b, Vector(a), Vector(b), Exceeds(a, b)
    PROVE  ValueOf(a) > ValueOf(b)
<1>1. a \in Seq(Digit) /\ b \in Seq(Digit)
    BY VectorDigits
<1>2. PICK n \in Nat : n = Len(a)
    BY <1>1
<1>3. DOMAIN a = 1..n /\ Len(b) \in Nat /\ Len(b) <= n /\ \A k \in 1..n : a[k] \in Digit
    BY <1>1, <1>2 DEF Exceeds
<1>4. PICK c : c = [k \in 1..n |-> At(b, k)]
    OBVIOUS
<1>5. \A k \in 1..n : c[k] = At(b, k) /\ c[k] \in Digit
  <2> TAKE k \in 1..n
  <2>1. k \in Int /\ c[k] = At(b, k)
      BY <1>4
  <2> QED
      BY <2>1, <1>1, AtDigit
<1>6. Makes(c, n, ValueOf(b), Weight)
    BY <1>1, <1>3, <1>5, AtMakes
<1>7. Makes(a, n, ValueOf(a), Weight)
    BY <1>1, <1>2, ValueMakes
<1>8. \E i \in 1..n : a[i] > c[i] /\ \A j \in i + 1..n : a[j] = c[j]
  <2>1. CASE n > Len(b)
    <3>1. n \in 1..n /\ n \notin DOMAIN b /\ a # <<>>
        BY <2>1, <1>1, <1>2, <1>3
    <3>2. c[n] = 0
        BY <3>1, <1>5 DEF At
    <3>3. a[n] # 0 /\ a[n] \in Nat
        BY <3>1, <1>2, <1>3, DigitIs DEF Vector
    <3>4. a[n] > c[n] /\ \A j \in n + 1..n : a[j] = c[j]
        BY <3>2, <3>3
    <3> QED
        BY <3>1, <3>4
  <2>2. CASE ~ (n > Len(b))
    <3>1. PICK i \in DOMAIN a : a[i] > b[i] /\ \A j \in i + 1..Len(a) : a[j] = b[j]
        BY <2>2, <1>2, <1>3 DEF Exceeds
    <3>2. Len(b) = n /\ DOMAIN b = 1..n
        BY <2>2, <1>1, <1>3
    <3>3. \A k \in 1..n : c[k] = b[k]
        BY <3>2, <1>5 DEF At
    <3>4. i \in 1..n /\ \A j \in i + 1..n : j \in 1..n
        BY <3>1, <1>3
    <3>5. a[i] > c[i] /\ \A j \in i + 1..n : a[j] = c[j]
        BY <3>1, <3>3, <3>4, <1>2
    <3> QED
        BY <3>4, <3>5
  <2> QED
      BY <2>1, <2>2
<1>9. PICK i \in 1..n : a[i] > c[i] /\ \A j \in i + 1..n : a[j] = c[j]
    BY <1>8
<1>10. PICK x, y : x = ValueOf(a) /\ y = ValueOf(b)
    OBVIOUS
<1>11. \A k \in 1..n : a[k] \in Digit /\ c[k] \in Digit
    BY <1>3, <1>5
<1>12. Makes(a, n, x, Weight) /\ Makes(c, n, y, Weight)
    BY <1>6, <1>7, <1>10
<1>13. x > y
    BY <1>9, <1>11, <1>12, MakesLess
<1> QED
    BY <1>10, <1>13

\* Of two different vectors one exceeds the other.
LEMMA HighestDifference ==
    ASSUME NEW a \in Seq(Digit), NEW b \in Seq(Digit), Len(a) = Len(b), a # b
    PROVE  LET diff == {i \in DOMAIN a : a[i] # b[i]}
           IN  /\ diff # {} /\ Max(diff) \in diff /\ Max(diff) \in 1..Len(a)
               /\ a[Max(diff)] # b[Max(diff)] /\ a[Max(diff)] \in Nat /\ b[Max(diff)] \in Nat
               /\ \A j \in Max(diff) + 1..Len(a) : a[j] = b[j]
<1>1. PICK n \in Nat : n = Len(a)
    OBVIOUS
<1>2. DOMAIN a = 1..n /\ DOMAIN b = 1..n /\ Len(b) = n
    BY <1>1
<1> DEFINE diff == {i \in DOMAIN a : a[i] # b[i]}
<1>3. diff # {}
  <2> SUFFICES ASSUME diff = {} PROVE FALSE
      OBVIOUS
  <2>1. \A i \in 1..n : a[i] = b[i]
      BY <1>2
  <2>2. a = [i \in 1..n |-> a[i]] /\ b = [i \in 1..n |-> b[i]]
      BY <1>2
  <2> QED
      BY <2>1, <2>2
<1>4. diff \in SUBSET (0..n)
    BY <1>2
<1>5. \A i : i \in diff <=> i \in 1..n /\ a[i] # b[i]
    BY <1>2
<1>6. PICK S : S = diff
    OBVIOUS
<1> HIDE DEF diff
<1>7. PICK m : m = Max(S)
    OBVIOUS
<1>8. m \in S /\ \A y \in S : m >= y
    BY <1>3, <1>4, <1>6, <1>7, Greatest
<1>9. m \in 1..n /\ a[m] # b[m]
    BY <1>5, <1>6, <1>8
<1>10. a[m] \in Nat /\ b[m] \in Nat
  <2>1. a[m] \in Digit /\ b[m] \in Digit
      BY <1>2, <1>9
  <2> QED
      BY <2>1, DigitIs
<1>11. \A j \in m + 1..n : a[j] = b[j]
  <2> TAKE j \in m + 1..n
  <2>1. j \in 1..n /\ ~ (m >= j)
      BY <1>9
  <2> QED
      BY <2>1, <1>5, <1>6, <1>8
<1>12. m \in diff /\ m = Max(diff)
    BY <1>6, <1>7, <1>8
<1> QED
    BY <1>1, <1>3, <1>9, <1>10, <1>11, <1>12 DEF diff

LEMMA ExceedsOther ==
    ASSUME NEW a \in Seq(Digit), NEW b \in Seq(Digit), a # b, ~ Exceeds(a, b)
    PROVE  Exceeds(b, a)
<1>1. Len(a) \in Nat /\ Len(b) \in Nat /\ DOMAIN a = 1..Len(a) /\ DOMAIN b = 1..Len(b)
    OBVIOUS
<1>2. CASE Len(a) # Len(b)
  <2>1. ~ (Len(a) > Len(b))
      BY DEF Exceeds
  <2>2. Len(b) > Len(a)
    <3>1. \A i, j \in Nat : i # j /\ ~ (i > j) => j > i
        OBVIOUS
    <3>2. Len(a) \in Nat /\ Len(b) \in Nat
        BY <1>1
    <3> QED
        BY <3>1, <3>2, <2>1, <1>2
  <2> QED
      BY <2>2 DEF Exceeds
<1>3. CASE Len(a) = Len(b)
  <2>1. PICK m \in 1..Len(a) : a[m] # b[m] /\ a[m] \in Nat /\ b[m] \in Nat /\ \A j \in m + 1..Len(a) : a[j] = b[j]
      BY <1>3, HighestDifference
  <2>2. ~ (a[m] > b[m])
      BY <2>1, <1>1, <1>3 DEF Exceeds
  <2>3. b[m] > a[m]
      BY <2>1, <2>2
  <2>4. m \in DOMAIN b /\ \A j \in m + 1..Len(b) : b[j] = a[j]
      BY <2>1, <1>1, <1>3
  <2> QED
      BY <2>3, <2>4, <1>3 DEF Exceeds
<1> QED
    BY <1>2, <1>3

\* |a| - |b|
LEMMA SubValue ==
    ASSUME NEW a, NEW b, Vector(a), Vector(b)
    PROVE  LET diff == x_sub(a, b)
           IN  /\ diff.neg \in BOOLEAN
               /\ ValueOf(a) - ValueOf(b) = IF diff.neg THEN -ValueOf(diff.v) ELSE ValueOf(diff.v)
<1>1. a \in Seq(Digit) /\ b \in Seq(Digit)
    BY VectorDigits
<1>2. PICK x, y : x = ValueOf(a) /\ y = ValueOf(b)
    OBVIOUS
<1>3. x \in Nat /\ y \in Nat
    BY <1>1, <1>2, ValueBelow
<1>4. PICK diff : diff = x_sub(a, b)
    OBVIOUS
<1>5. CASE a = b
  <2>1. diff.neg = FALSE /\ diff.v = <<>>
      BY <1>4, <1>5 DEF x_sub
  <2>2. x - y = 0
      BY <1>2, <1>3, <1>5
  <2> QED
      BY <2>1, <2>2, <1>2, <1>4, NothingValue
<1>6. CASE a # b /\ Exceeds(a, b)
  <2>1. diff.neg = FALSE /\ diff.v = Subtracted(a, b)
      BY <1>4, <1>6 DEF x_sub
  <2>2. x > y
      BY <1>2, <1>6, ExceedsValue
  <2>3. Len(b) <= Len(a)
    <3>1. Len(a) \in Nat /\ Len(b) \in Nat
        BY <1>1
    <3> QED
        BY <3>1, <1>6 DEF Exceeds
  <2>4. ValueOf(b) <= ValueOf(a)
      BY <2>2, <1>2, <1>3
  <2>5. ValueOf(Subtracted(a, b)) = ValueOf(a) - ValueOf(b)
      BY <2>3, <2>4, <1>1, SubtractedValue
  <2> QED
      BY <2>1, <2>5, <1>4
<1>7. CASE a # b /\ ~ Exceeds(a, b)
  <2>1. diff.neg = TRUE /\ diff.v = Subtracted(b, a)
      BY <1>4, <1>7 DEF x_sub
  <2>2. Exceeds(b, a)
      BY <1>1, <1>7, ExceedsOther
  <2>3. y > x
      BY <2>2, <1>2, ExceedsValue
  <2>4. Len(a) <= Len(b)
    <3>1. Len(a) \in Nat /\ Len(b) \in Nat
        BY <1>1
    <3> QED
        BY <3>1, <2>2 DEF Exceeds
  <2>5. ValueOf(a) <= ValueOf(b)
      BY <2>3, <1>2, <1>3
  <2>6. ValueOf(diff.v) = y - x
      BY <2>1, <2>4, <2>5, <1>1, <1>2, SubtractedValue
  <2>7. x - y = -ValueOf(diff.v)
      BY <2>6, <1>3
  <2> QED
      BY <2>1, <2>7, <1>2, <1>4
<1> QED
    BY <1>5, <1>6, <1>7

-----------------------------------------------------------------------------
(* The operations on objects *)

\* The digits of an unsigned number are those of the number.
LEMMA FromUnsignedValue == ASSUME NEW n \in Nat PROVE FromUnsigned(n) \in Seq(Digit) /\ ValueOf(FromUnsigned(n)) = n
<1>1. PICK f : /\ f = [m \in 0..n |-> IF m = 0 THEN <<>> ELSE <<m % BASE>> \o f[m \div BASE]]
               /\ FromUnsigned(n) = f[n]
    BY FromUnsignedIs
<1>2. \A m \in 0..n : f[m] = IF m = 0 THEN <<>> ELSE <<m % BASE>> \o f[m \div BASE]
    BY <1>1
<1> DEFINE P(m) == f[m] \in Seq(Digit) /\ ValueOf(f[m]) = m
           S == {k \in Nat : \A m \in 0..n : m <= k => P(m)}
<1>3. 0 \in S
  <2>1. f[0] = <<>> /\ <<>> \in Seq(Digit)
    <3>1. 0 \in 0..n
        OBVIOUS
    <3>2. f[0] = <<>>
        BY <3>1, <1>2
    <3> QED
        BY <3>2, EmptySeq
  <2>2. P(0)
      BY <2>1, NothingValue
  <2> QED
      BY <2>2
<1>4. ASSUME NEW k \in Nat, k \in S, k + 1 \in 0..n
      PROVE  P(k + 1)
  <2> DEFINE m == k + 1
             x == m % BASE
             y == m \div BASE
  <2>1. x \in Digit /\ y \in 0..k /\ y \in 0..n /\ m = BASE * y + x
    <3>1. m \in Nat \ {0} /\ m \in 0..n /\ m \in Int /\ m - 1 = k
        BY <1>4
    <3>2. y \in 0..m - 1
        BY <3>1, Shrinks
    <3>3. x \in 0..MASK /\ m = BASE * y + x
        BY <3>1, Remainder
    <3> QED
        BY <3>1, <3>2, <3>3 DEF Digit
  <2>2. f[m] = <<x>> \o f[y]
    <3>1. m \in 0..n /\ m # 0
        BY <1>4
    <3> QED
        BY <3>1, <1>2
  <2>3. P(y)
      BY <2>1, <1>4
  <2> HIDE DEF m, x, y
  <2>4. /\ f[m] \in Seq(Digit) /\ Len(f[m]) = 1 + Len(f[y])
        /\ \A i \in 1..1 + Len(f[y]) : f[m][i] = IF i <= 1 THEN x ELSE f[y][i - 1]
    <3>1. <<x>> \in Seq(Digit) /\ Len(<<x>>) = 1 /\ <<x>>[1] = x
        BY <2>1
    <3>2. \A i \in 1..1 + Len(f[y]) : i <= 1 => i = 1
        BY <2>3
    <3> QED
        BY <3>1, <3>2, <2>2, <2>3, ConcatProperties
  <2>5. Len(f[y]) \in Nat
      BY <2>3
  <2>6. Len(f[m]) = Len(f[y]) + 1 /\ f[m][1] = x
      BY <2>4, <2>5
  <2>7. \A i \in 1..Len(f[y]) : f[y][i] = f[m][i + 1]
    <3> TAKE i \in 1..Len(f[y])
    <3>1. i + 1 \in 1..1 + Len(f[y]) /\ ~ (i + 1 <= 1) /\ i + 1 - 1 = i
        BY <2>5
    <3> QED
        BY <3>1, <2>4
  <2>8. ValueOf(f[m]) = f[m][1] + BASE * ValueOf(f[y])
      BY <2>3, <2>4, <2>6, <2>7, LowDigit
  <2>9. x \in Nat /\ BASE * y \in Nat
      BY <2>1, DigitSizes DEF Digit
  <2>10. ValueOf(f[m]) = m
    <3>1. ValueOf(f[m]) = x + BASE * y
        BY <2>8, <2>6, <2>3
    <3> QED
        BY <3>1, <2>9, <2>1
  <2> QED
      BY <2>4, <2>10 DEF m
<1>5. ASSUME NEW k \in Nat, k \in S
      PROVE  k + 1 \in S
  <2>1. \A m \in 0..n : m <= k + 1 => m <= k \/ m = k + 1
      OBVIOUS
  <2> HIDE DEF P
  <2> QED
      BY <2>1, <1>4, <1>5
<1> HIDE DEF S
<1>6. n \in S
    BY <1>3, <1>5, Induction
<1> QED
    BY <1>6, <1>1 DEF S

\* An integer object as the operations make it
Integer(x) == Normal(x) /\ x.neg \in BOOLEAN

\* An object made of a normal vector.
LEMMA IntegerMade ==
    ASSUME NEW a, Vector(a), NEW b \in BOOLEAN
    PROVE  Integer(Make(b, a)) /\ Number(Make(b, a)) = IF b THEN -ValueOf(a) ELSE ValueOf(a)
<1>1. Normal(Make(b, a))
    BY MakeNormal
<1>2. Make(b, a).neg \in BOOLEAN
    BY DEF Make
<1>3. a \in Seq(Digit)
    BY VectorDigits
<1> QED
    BY <1>1, <1>2, <1>3, NumberMade DEF Integer

LEMMA IntegerIs ==
    ASSUME NEW x, Integer(x)
    PROVE  /\ x.v \in Seq(Digit) /\ Vector(x.v) /\ x.neg \in BOOLEAN
           /\ Number(x) = IF x.neg THEN -ValueOf(x.v) ELSE ValueOf(x.v)
           /\ ValueOf(x.v) \in Nat
<1>1. Vector(x.v) /\ x.neg \in BOOLEAN
    BY DEF Integer, Normal
<1>2. x.v \in Seq(Digit)
    BY <1>1, VectorDigits
<1>3. Number(x) = IF x.neg THEN -ValueOf(x.v) ELSE ValueOf(x.v)
    BY <1>2, NumberSigned
<1>4. ValueOf(x.v) \in Nat
    BY <1>2, ValueBelow
<1> QED
    BY <1>1, <1>2, <1>3, <1>4

\* COInt_FromLong makes the number.
LEMMA FromLongNumber ==
    ASSUME NEW x \in Int
    PROVE  Integer(COInt_FromLong(x)) /\ Number(COInt_FromLong(x)) = x
<1> DEFINE m == IF x < 0 THEN -x ELSE x
           b == x < 0
<1>1. m \in Nat /\ b \in BOOLEAN /\ x = IF b THEN -m ELSE m
    OBVIOUS
<1>2. COInt_FromLong(x) = Make(b, FromUnsigned(m))
    BY DEF COInt_FromLong
<1> HIDE DEF m, b
<1>3. Vector(FromUnsigned(m)) /\ ValueOf(FromUnsigned(m)) = m
    BY <1>1, FromUnsignedVector, FromUnsignedValue
<1>4. Integer(Make(b, FromUnsigned(m))) /\ Number(Make(b, FromUnsigned(m))) = IF b THEN -ValueOf(FromUnsigned(m)) ELSE ValueOf(FromUnsigned(m))
    BY <1>1, <1>3, IntegerMade
<1> QED
    BY <1>1, <1>2, <1>3, <1>4

\* A number of one digit is that digit.
LEMMA OneDigitValue ==
    ASSUME NEW a \in Seq(Digit), Len(a) <= 1
    PROVE  ValueOf(a) = At(a, 1)
<1>1. Len(a) \in Nat
    OBVIOUS
<1>2. CASE Len(a) = 0
  <2>1. a = <<>>
      BY <1>2, EmptySeq
  <2>2. 1 \notin DOMAIN a
      BY <2>1, EmptySeq
  <2> QED
      BY <2>1, <2>2, NothingValue DEF At
<1>3. CASE Len(a) = 1
  <2>1. 1 \in DOMAIN a /\ a[1] \in Digit
      BY <1>3
  <2>2. PICK b : b = <<>>
      OBVIOUS
  <2>3. b \in Seq(Digit) /\ Len(b) = 0 /\ ValueOf(b) = 0
      BY <2>2, NothingValue
  <2>4. \A k \in 1..Len(b) : b[k] = a[k + 1]
      BY <2>3
  <2>5. Len(a) = Len(b) + 1
      BY <1>3, <2>3
  <2>6. ValueOf(a) = a[1] + BASE * ValueOf(b)
      BY <2>3, <2>4, <2>5, LowDigit
  <2>7. a[1] \in Nat /\ BASE * 0 = 0
      BY <2>1, DigitIs, DigitSizes
  <2> QED
      BY <2>1, <2>3, <2>6, <2>7 DEF At
<1>4. Len(a) = 0 \/ Len(a) = 1
  <2>1. \A n \in Nat : n <= 1 => n = 0 \/ n = 1
      OBVIOUS
  <2> QED
      BY <1>1, <2>1, Zenon
<1> QED
    BY <1>2, <1>3, <1>4

\* ONEDIGIT_VALUE is the number of an object of one digit or none.
LEMMA OneDigitNumber ==
    ASSUME NEW x, Integer(x), Short(x)
    PROVE  ONEDIGIT_VALUE(x) = Number(x) /\ Number(x) \in Int
<1>1. x.v \in Seq(Digit) /\ ValueOf(x.v) \in Nat /\ Number(x) = IF x.neg THEN -ValueOf(x.v) ELSE ValueOf(x.v)
    BY IntegerIs
<1>2. ValueOf(x.v) = At(x.v, 1)
    BY <1>1, OneDigitValue DEF Short
<1> QED
    BY <1>1, <1>2 DEF ONEDIGIT_VALUE

\* int_add adds, int_sub subtracts, whatever the signs.
LEMMA AddNumber ==
    ASSUME NEW a, NEW b, Integer(a), Integer(b)
    PROVE  Integer(int_add(a, b)) /\ Number(int_add(a, b)) = Number(a) + Number(b)
<1>1. /\ a.v \in Seq(Digit) /\ Vector(a.v) /\ a.neg \in BOOLEAN /\ ValueOf(a.v) \in Nat
      /\ Number(a) = IF a.neg THEN -ValueOf(a.v) ELSE ValueOf(a.v)
    BY IntegerIs
<1>2. /\ b.v \in Seq(Digit) /\ Vector(b.v) /\ b.neg \in BOOLEAN /\ ValueOf(b.v) \in Nat
      /\ Number(b) = IF b.neg THEN -ValueOf(b.v) ELSE ValueOf(b.v)
    BY IntegerIs
<1>3. CASE Short(a) /\ Short(b)
  <2>1. ONEDIGIT_VALUE(a) = Number(a) /\ Number(a) \in Int
      BY <1>3, OneDigitNumber
  <2>2. ONEDIGIT_VALUE(b) = Number(b) /\ Number(b) \in Int
      BY <1>3, OneDigitNumber
  <2>3. PICK x \in Int : x = Number(a) + Number(b)
      BY <2>1, <2>2
  <2>4. int_add(a, b) = COInt_FromLong(x)
      BY <1>3, <2>1, <2>2, <2>3 DEF int_add
  <2> QED
      BY <2>3, <2>4, FromLongNumber
<1>4. CASE ~ (Short(a) /\ Short(b)) /\ a.neg = b.neg
  <2>1. int_add(a, b) = Make(a.neg, x_add(a.v, b.v))
      BY <1>4 DEF int_add
  <2>2. Vector(x_add(a.v, b.v)) /\ ValueOf(x_add(a.v, b.v)) = ValueOf(a.v) + ValueOf(b.v)
      BY <1>1, <1>2, AddVector, AddValue
  <2>3. /\ Integer(Make(a.neg, x_add(a.v, b.v)))
        /\ Number(Make(a.neg, x_add(a.v, b.v))) = IF a.neg THEN -ValueOf(x_add(a.v, b.v)) ELSE ValueOf(x_add(a.v, b.v))
      BY <1>1, <2>2, IntegerMade
  <2>4. Number(Make(a.neg, x_add(a.v, b.v))) = Number(a) + Number(b)
      BY <1>1, <1>2, <1>4, <2>2, <2>3
  <2> QED
      BY <2>1, <2>3, <2>4
<1>5. CASE ~ (Short(a) /\ Short(b)) /\ a.neg # b.neg
  <2> DEFINE diff == IF a.neg THEN x_sub(b.v, a.v) ELSE x_sub(a.v, b.v)
  <2>1. int_add(a, b) = Make(diff.neg, diff.v)
      BY <1>5 DEF int_add
  <2>2. /\ diff.neg \in BOOLEAN /\ Vector(diff.v)
        /\ (IF a.neg THEN ValueOf(b.v) - ValueOf(a.v) ELSE ValueOf(a.v) - ValueOf(b.v))
              = IF diff.neg THEN -ValueOf(diff.v) ELSE ValueOf(diff.v)
      BY <1>1, <1>2, SubValue, SubVector
  <2> HIDE DEF diff
  <2>3. /\ Integer(Make(diff.neg, diff.v))
        /\ Number(Make(diff.neg, diff.v)) = IF diff.neg THEN -ValueOf(diff.v) ELSE ValueOf(diff.v)
      BY <2>2, IntegerMade
  <2>4. Number(Make(diff.neg, diff.v)) = Number(a) + Number(b)
    <3>1. Number(Make(diff.neg, diff.v)) = IF a.neg THEN ValueOf(b.v) - ValueOf(a.v) ELSE ValueOf(a.v) - ValueOf(b.v)
        BY <2>2, <2>3
    <3> QED
        BY <3>1, <1>1, <1>2, <1>5
  <2> QED
      BY <2>1, <2>3, <2>4
<1> QED
    BY <1>3, <1>4, <1>5

LEMMA SubNumber ==
    ASSUME NEW a, NEW b, Integer(a), Integer(b)
    PROVE  Integer(int_sub(a, b)) /\ Number(int_sub(a, b)) = Number(a) - Number(b)
<1>1. /\ a.v \in Seq(Digit) /\ Vector(a.v) /\ a.neg \in BOOLEAN /\ ValueOf(a.v) \in Nat
      /\ Number(a) = IF a.neg THEN -ValueOf(a.v) ELSE ValueOf(a.v)
    BY IntegerIs
<1>2. /\ b.v \in Seq(Digit) /\ Vector(b.v) /\ b.neg \in BOOLEAN /\ ValueOf(b.v) \in Nat
      /\ Number(b) = IF b.neg THEN -ValueOf(b.v) ELSE ValueOf(b.v)
    BY IntegerIs
<1>3. CASE Short(a) /\ Short(b)
  <2>1. ONEDIGIT_VALUE(a) = Number(a) /\ Number(a) \in Int
      BY <1>3, OneDigitNumber
  <2>2. ONEDIGIT_VALUE(b) = Number(b) /\ Number(b) \in Int
      BY <1>3, OneDigitNumber
  <2>3. PICK x \in Int : x = Number(a) - Number(b)
      BY <2>1, <2>2
  <2>4. int_sub(a, b) = COInt_FromLong(x)
      BY <1>3, <2>1, <2>2, <2>3 DEF int_sub
  <2> QED
      BY <2>3, <2>4, FromLongNumber
<1>4. CASE ~ (Short(a) /\ Short(b)) /\ a.neg # b.neg
  <2>1. int_sub(a, b) = Make(a.neg, x_add(a.v, b.v))
      BY <1>4 DEF int_sub
  <2>2. Vector(x_add(a.v, b.v)) /\ ValueOf(x_add(a.v, b.v)) = ValueOf(a.v) + ValueOf(b.v)
      BY <1>1, <1>2, AddVector, AddValue
  <2>3. /\ Integer(Make(a.neg, x_add(a.v, b.v)))
        /\ Number(Make(a.neg, x_add(a.v, b.v))) = IF a.neg THEN -ValueOf(x_add(a.v, b.v)) ELSE ValueOf(x_add(a.v, b.v))
      BY <1>1, <2>2, IntegerMade
  <2>4. Number(Make(a.neg, x_add(a.v, b.v))) = Number(a) - Number(b)
      BY <1>1, <1>2, <1>4, <2>2, <2>3
  <2> QED
      BY <2>1, <2>3, <2>4
<1>5. CASE ~ (Short(a) /\ Short(b)) /\ a.neg = b.neg
  <2> DEFINE diff == x_sub(a.v, b.v)
             s == diff.neg # a.neg
  <2>1. int_sub(a, b) = Make(s, diff.v)
      BY <1>5 DEF int_sub
  <2>2. /\ diff.neg \in BOOLEAN /\ Vector(diff.v)
        /\ ValueOf(a.v) - ValueOf(b.v) = IF diff.neg THEN -ValueOf(diff.v) ELSE ValueOf(diff.v)
      BY <1>1, <1>2, SubValue, SubVector
  <2>3. s \in BOOLEAN /\ (s <=> ~ (diff.neg <=> a.neg))
      BY <2>2, <1>1
  <2>5. ValueOf(diff.v) \in Nat
      BY <2>2, VectorDigits, ValueBelow
  <2> HIDE DEF diff, s
  <2>4. /\ Integer(Make(s, diff.v))
        /\ Number(Make(s, diff.v)) = IF s THEN -ValueOf(diff.v) ELSE ValueOf(diff.v)
      BY <2>2, <2>3, IntegerMade
  <2>6. Number(Make(s, diff.v)) = Number(a) - Number(b)
      BY <1>1, <1>2, <1>5, <2>2, <2>3, <2>4, <2>5
  <2> QED
      BY <2>1, <2>4, <2>6
<1> QED
    BY <1>3, <1>4, <1>5

\* int_neg and int_invert.
LEMMA NegNumber ==
    ASSUME NEW a, Integer(a)
    PROVE  Integer(int_neg(a)) /\ Number(int_neg(a)) = -Number(a)
<1>1. /\ a.v \in Seq(Digit) /\ Vector(a.v) /\ a.neg \in BOOLEAN /\ ValueOf(a.v) \in Nat
      /\ Number(a) = IF a.neg THEN -ValueOf(a.v) ELSE ValueOf(a.v)
    BY IntegerIs
<1>2. CASE Short(a)
  <2>1. ONEDIGIT_VALUE(a) = Number(a) /\ Number(a) \in Int
      BY <1>2, OneDigitNumber
  <2>2. PICK x \in Int : x = -Number(a)
      BY <2>1
  <2>3. int_neg(a) = COInt_FromLong(x)
      BY <1>2, <2>1, <2>2 DEF int_neg
  <2> QED
      BY <2>2, <2>3, FromLongNumber
<1>3. CASE ~Short(a)
  <2>1. int_neg(a) = Make(~a.neg, a.v)
      BY <1>3 DEF int_neg
  <2>2. (~a.neg) \in BOOLEAN
      OBVIOUS
  <2>3. /\ Integer(Make(~a.neg, a.v))
        /\ Number(Make(~a.neg, a.v)) = IF ~a.neg THEN -ValueOf(a.v) ELSE ValueOf(a.v)
      BY <1>1, <2>2, IntegerMade
  <2> QED
      BY <1>1, <2>1, <2>3
<1> QED
    BY <1>2, <1>3

LEMMA InvertNumber ==
    ASSUME NEW a, Integer(a)
    PROVE  Integer(int_invert(a)) /\ Number(int_invert(a)) = -Number(a) - 1
<1>1. CASE Short(a)
  <2>1. ONEDIGIT_VALUE(a) = Number(a) /\ Number(a) \in Int
      BY <1>1, OneDigitNumber
  <2>2. PICK x \in Int : x = -(Number(a) + 1)
      BY <2>1
  <2>3. int_invert(a) = COInt_FromLong(x)
      BY <1>1, <2>1, <2>2 DEF int_invert
  <2>4. x = -Number(a) - 1
      BY <2>1, <2>2
  <2> QED
      BY <2>3, <2>4, FromLongNumber
<1>2. CASE ~Short(a)
  <2>1. 1 \in Int
      OBVIOUS
  <2>2. Integer(COInt_FromLong(1)) /\ Number(COInt_FromLong(1)) = 1
      BY <2>1, FromLongNumber
  <2>3. PICK x : x = int_add(a, COInt_FromLong(1))
      OBVIOUS
  <2>4. Integer(x) /\ Number(x) = Number(a) + 1
      BY <2>2, <2>3, AddNumber
  <2>5. /\ Vector(x.v) /\ x.neg \in BOOLEAN /\ ValueOf(x.v) \in Nat
        /\ Number(x) = IF x.neg THEN -ValueOf(x.v) ELSE ValueOf(x.v)
      BY <2>4, IntegerIs
  <2>6. int_invert(a) = Make(~x.neg, x.v)
      BY <1>2, <2>3 DEF int_invert
  <2>7. (~x.neg) \in BOOLEAN
      OBVIOUS
  <2>8. /\ Integer(Make(~x.neg, x.v))
        /\ Number(Make(~x.neg, x.v)) = IF ~x.neg THEN -ValueOf(x.v) ELSE ValueOf(x.v)
      BY <2>5, <2>7, IntegerMade
  <2>9. Number(a) \in Int
    <3>1. Number(a) = IF a.neg THEN -ValueOf(a.v) ELSE ValueOf(a.v)
        BY IntegerIs
    <3>2. ValueOf(a.v) \in Nat
        BY IntegerIs
    <3> QED
        BY <3>1, <3>2
  <2>10. Number(Make(~x.neg, x.v)) = -Number(a) - 1
      BY <2>4, <2>5, <2>8, <2>9
  <2> QED
      BY <2>6, <2>8, <2>10
<1> QED
    BY <1>1, <1>2

\* Of two vectors without leading zeros the longer one is the greater number.
LEMMA LongerValue ==
    ASSUME NEW a, NEW b, Vector(a), Vector(b), Len(a) > Len(b)
    PROVE  ValueOf(a) > ValueOf(b)
BY ExceedsValue DEF Exceeds

\* A normal vector that is not empty makes a positive number.
LEMMA PositiveValue ==
    ASSUME NEW a, Vector(a), a # <<>>
    PROVE  ValueOf(a) > 0 /\ Len(a) > 0
<1>1. a \in Seq(Digit)
    BY VectorDigits
<1>2. Len(a) \in Nat /\ Len(a) # 0
    BY <1>1, EmptySeq
<1>3. PICK b : b = <<>>
    OBVIOUS
<1>4. Vector(b) /\ Len(b) = 0 /\ ValueOf(b) = 0
    BY <1>3, NothingValue DEF Vector
<1>5. Len(a) > Len(b)
    BY <1>2, <1>4
<1>6. ValueOf(a) > ValueOf(b)
    BY <1>4, <1>5, LongerValue
<1> QED
    BY <1>2, <1>4, <1>6

\* co_size orders integers that differ in it, sign included.
Size(x) == IF x.neg THEN -Len(x.v) ELSE Len(x.v)

\* int_cmp first compares the sizes, negative ones for negative numbers.
LEMMA SizeOrder ==
    ASSUME NEW a, NEW b, Integer(a), Integer(b), Size(a) < Size(b)
    PROVE  Number(a) < Number(b)
<1>1. /\ a.v \in Seq(Digit) /\ Vector(a.v) /\ a.neg \in BOOLEAN /\ ValueOf(a.v) \in Nat
      /\ Number(a) = IF a.neg THEN -ValueOf(a.v) ELSE ValueOf(a.v)
    BY IntegerIs
<1>2. /\ b.v \in Seq(Digit) /\ Vector(b.v) /\ b.neg \in BOOLEAN /\ ValueOf(b.v) \in Nat
      /\ Number(b) = IF b.neg THEN -ValueOf(b.v) ELSE ValueOf(b.v)
    BY IntegerIs
<1>3. Len(a.v) \in Nat /\ Len(b.v) \in Nat
    BY <1>1, <1>2
<1>4. a.neg => a.v # <<>>
    BY DEF Integer, Normal
<1>5. a.neg => ValueOf(a.v) > 0
    BY <1>1, <1>4, PositiveValue
<1>6. CASE a.neg /\ ~b.neg
    BY <1>1, <1>2, <1>5, <1>6
<1>7. CASE a.neg /\ b.neg
  <2>1. Len(a.v) > Len(b.v)
      BY <1>3, <1>7 DEF Size
  <2>2. ValueOf(a.v) > ValueOf(b.v)
      BY <2>1, <1>1, <1>2, LongerValue
  <2> QED
      BY <2>2, <1>1, <1>2, <1>7
<1>8. CASE ~a.neg
  <2>1. ~b.neg
      BY <1>3, <1>8 DEF Size
  <2>2. Len(b.v) > Len(a.v)
      BY <1>3, <1>8, <2>1 DEF Size
  <2>3. ValueOf(b.v) > ValueOf(a.v)
      BY <2>2, <1>1, <1>2, LongerValue
  <2> QED
      BY <2>1, <2>3, <1>1, <1>2, <1>8
<1> QED
    BY <1>1, <1>2, <1>6, <1>7, <1>8

\* int_cmp compares.
LEMMA CompareNumber ==
    ASSUME NEW a, NEW b, Integer(a), Integer(b)
    PROVE  int_cmp(a, b) = Exact!Sign(Number(a) - Number(b))
<1>1. /\ a.v \in Seq(Digit) /\ Vector(a.v) /\ a.neg \in BOOLEAN /\ ValueOf(a.v) \in Nat
      /\ Number(a) = IF a.neg THEN -ValueOf(a.v) ELSE ValueOf(a.v)
    BY IntegerIs
<1>2. /\ b.v \in Seq(Digit) /\ Vector(b.v) /\ b.neg \in BOOLEAN /\ ValueOf(b.v) \in Nat
      /\ Number(b) = IF b.neg THEN -ValueOf(b.v) ELSE ValueOf(b.v)
    BY IntegerIs
<1>3. Number(a) \in Int /\ Number(b) \in Int
    BY <1>1, <1>2
<1> DEFINE diff == {i \in DOMAIN a.v : a.v[i] # b.v[i]}
           larger == IF a.neg THEN -1 ELSE 1
           apart == a.neg # b.neg \/ Len(a.v) # Len(b.v)
<1>4. int_cmp(a, b) =
        IF apart THEN (IF Size(a) < Size(b) THEN -1 ELSE 1)
        ELSE IF diff = {} THEN 0
        ELSE IF a.v[Max(diff)] > b.v[Max(diff)] THEN larger ELSE -larger
    BY DEF int_cmp, Size
<1>5. Len(a.v) \in Nat /\ Len(b.v) \in Nat
    BY <1>1, <1>2
<1>6. CASE apart
  <2>1. Size(a) # Size(b)
    <3>1. (a.neg => Len(a.v) > 0) /\ (b.neg => Len(b.v) > 0)
        BY <1>1, <1>2, PositiveValue DEF Integer, Normal
    <3> QED
        BY <3>1, <1>1, <1>2, <1>5, <1>6 DEF Size
  <2>2. Size(a) \in Int /\ Size(b) \in Int
      BY <1>5 DEF Size
  <2>3. CASE Size(a) < Size(b)
    <3>1. Number(a) < Number(b)
        BY <2>3, SizeOrder
    <3>2. int_cmp(a, b) = -1
        BY <1>4, <1>6, <2>3
    <3> QED
        BY <3>1, <3>2, <1>3 DEF Exact!Sign
  <2>4. CASE Size(b) < Size(a)
    <3>1. Number(b) < Number(a)
        BY <2>4, SizeOrder
    <3>2. int_cmp(a, b) = 1
        BY <1>4, <1>6, <2>4, <2>2
    <3>3. ~ (Number(a) - Number(b) < 0) /\ Number(a) - Number(b) # 0
        BY <3>1, <1>3
    <3> QED
        BY <3>2, <3>3 DEF Exact!Sign
  <2> QED
      BY <2>1, <2>2, <2>3, <2>4
<1>7. CASE ~apart /\ a.v = b.v
  <2>1. diff = {}
      BY <1>7
  <2>2. int_cmp(a, b) = 0
      BY <1>4, <1>7, <2>1
  <2>3. Number(a) = Number(b)
      BY <1>1, <1>2, <1>7
  <2>4. Number(a) - Number(b) = 0
      BY <2>3, <1>3
  <2> QED
      BY <2>2, <2>4 DEF Exact!Sign
<1>8. CASE ~apart /\ a.v # b.v
  <2> DEFINE m == Max(diff)
             x == a.v
             y == b.v
  <2>0. Len(x) = Len(y) /\ x # y /\ a.neg = b.neg
      BY <1>8
  <2>1. /\ diff # {} /\ m \in 1..Len(x)
        /\ x[m] # y[m] /\ x[m] \in Nat /\ y[m] \in Nat /\ \A j \in m + 1..Len(x) : x[j] = y[j]
    <3> PICK u : u = a.v
        OBVIOUS
    <3> PICK t : t = b.v
        OBVIOUS
    <3>1. u \in Seq(Digit) /\ t \in Seq(Digit) /\ Len(u) = Len(t) /\ u # t
        BY <1>1, <1>2, <2>0
    <3>2. LET e == {i \in DOMAIN u : u[i] # t[i]}
          IN  /\ e # {} /\ Max(e) \in e /\ Max(e) \in 1..Len(u)
              /\ u[Max(e)] # t[Max(e)] /\ u[Max(e)] \in Nat /\ t[Max(e)] \in Nat
              /\ \A j \in Max(e) + 1..Len(u) : u[j] = t[j]
        BY <3>1, HighestDifference
    <3> QED
        BY <3>2
  <2>2. int_cmp(a, b) = IF x[m] > y[m] THEN larger ELSE -larger
      BY <1>4, <1>8, <2>1
  <2>3. DOMAIN x = 1..Len(x) /\ DOMAIN y = 1..Len(y)
      BY <1>1, <1>2
  <2> HIDE DEF m
  <2>4. CASE x[m] > y[m]
    <3>1. Exceeds(x, y)
      <4>1. m \in DOMAIN x
          BY <2>1, <2>3
      <4> QED
          BY <2>0, <2>1, <2>4, <4>1 DEF Exceeds
    <3>2. ValueOf(x) > ValueOf(y)
        BY <3>1, <1>1, <1>2, ExceedsValue
    <3>3. int_cmp(a, b) = IF a.neg THEN -1 ELSE 1
        BY <2>2, <2>4
    <3> HIDE DEF x, y
    <3>4. IF a.neg THEN Number(a) < Number(b) ELSE Number(b) < Number(a)
        BY <3>2, <1>1, <1>2, <2>0 DEF x, y
    <3>5. CASE a.neg
      <4>1. Number(a) - Number(b) < 0
          BY <3>4, <3>5, <1>3
      <4> QED
          BY <4>1, <3>3, <3>5 DEF Exact!Sign
    <3>6. CASE ~a.neg
      <4>1. ~ (Number(a) - Number(b) < 0) /\ Number(a) - Number(b) # 0
          BY <3>4, <3>6, <1>3
      <4> QED
          BY <4>1, <3>3, <3>6 DEF Exact!Sign
    <3> QED
        BY <3>5, <3>6
  <2>5. CASE ~ (x[m] > y[m])
    <3>0. y[m] > x[m]
        BY <2>1, <2>5
    <3>1. Exceeds(y, x)
      <4>1. m \in DOMAIN y
          BY <2>0, <2>1, <2>3
      <4>2. \A j \in m + 1..Len(y) : y[j] = x[j]
          BY <2>0, <2>1
      <4> QED
          BY <2>0, <3>0, <4>1, <4>2 DEF Exceeds
    <3>2. ValueOf(y) > ValueOf(x)
        BY <3>1, <1>1, <1>2, ExceedsValue
    <3>3. int_cmp(a, b) = IF a.neg THEN 1 ELSE -1
        BY <2>2, <2>5
    <3> HIDE DEF x, y
    <3>4. IF a.neg THEN Number(b) < Number(a) ELSE Number(a) < Number(b)
        BY <3>2, <1>1, <1>2, <2>0 DEF x, y
    <3>5. CASE ~a.neg
      <4>1. Number(a) - Number(b) < 0
          BY <3>4, <3>5, <1>3
      <4> QED
          BY <4>1, <3>3, <3>5 DEF Exact!Sign
    <3>6. CASE a.neg
      <4>1. ~ (Number(a) - Number(b) < 0) /\ Number(a) - Number(b) # 0
          BY <3>4, <3>6, <1>3
      <4> QED
          BY <4>1, <3>3, <3>6 DEF Exact!Sign
    <3> QED
        BY <3>5, <3>6
  <2> QED
      BY <2>4, <2>5
<1> QED
    BY <1>6, <1>7, <1>8

-----------------------------------------------------------------------------
(* Products *)

\* A row of a product takes the sums s of the terms e and the digits of z at their places, and
\* puts the carry out of it in the next place, if there is one.
RowOf(z, y, s, e, k, n, m) ==
    /\ \A j \in 1..n : /\ e[j] \in Int /\ s[j] \in Int
                       /\ s[j] = z[k + j] + e[j] + (IF j = 1 THEN 0 ELSE s[j - 1] \div BASE)
    /\ \A j \in 1..k : y[j] = z[j]
    /\ \A j \in 1..n : y[k + j] = s[j] % BASE
    /\ k + n < m => y[k + n + 1] = (s[n] \div BASE) % BASE
    /\ \A j \in k + n + 2..m : y[j] = 0

\* What a carry out of a row can be
LEMMA RowCarry ==
    ASSUME NEW p \in Nat \ {0}, NEW y \in Nat, y < p, NEW e \in Nat, e < (BASE - 1) * p, NEW c \in Int,
           NEW g \in Nat, g < p, g = y + e - c * p
    PROVE  c \in 0..BASE - 1 /\ (y + e < p => c = 0)
<1>1. BASE \in Nat \ {0} /\ BASE \in Int /\ BASE - 1 \in Int
    BY DigitSizes
<1>2. PICK b : b = BASE
    OBVIOUS
<1>3. b \in Nat \ {0} /\ e < (b - 1) * p
    BY <1>1, <1>2
<1>4. (b - 1) * p = b * p - p /\ b * p \in Int /\ c * p \in Int
    BY <1>3
<1>5. c * p < b * p /\ c * p > 0 - p
    BY <1>3, <1>4
<1>6. c < b
  <2>1. CASE c >= b
    <3>1. p * b <= p * c
        BY <2>1, <1>3, Monotone
    <3>2. p * b = b * p /\ p * c = c * p
        BY <1>3
    <3> QED
        BY <3>1, <3>2, <1>5, <1>4
  <2> QED
      BY <2>1, <1>3
<1>7. c >= 0
  <2>1. CASE c <= -1
    <3>1. p * c <= p * (-1)
        BY <2>1, Monotone
    <3>2. p * (-1) = 0 - p /\ p * c = c * p
        OBVIOUS
    <3> QED
        BY <3>1, <3>2, <1>5, <1>4
  <2> QED
      BY <2>1
<1>8. ASSUME y + e < p
      PROVE  c = 0
  <2>1. CASE c >= 1
    <3>1. p * 1 <= p * c
        BY <2>1, Monotone
    <3>2. p * 1 = p /\ p * c = c * p
        OBVIOUS
    <3> QED
        BY <3>1, <3>2, <1>8, <1>4
  <2> QED
      BY <2>1, <1>7
<1> QED
    BY <1>2, <1>3, <1>6, <1>7, <1>8

\* A row adds the value of its terms, at its place.
LEMMA RowValue ==
    ASSUME NEW k \in Nat, NEW n \in Nat \ {0}, NEW m \in Nat, k + n <= m,
           NEW z \in Partial(m, k + n), NEW y, NEW s, NEW e, RowOf(z, y, s, e, k, n, m),
           NEW V, Makes(z, m, V, Weight), NEW E \in Nat, Makes(e, n, E, Weight), E < (BASE - 1) * Weight[n],
           k + n = m => V + Weight[k] * E < Weight[m]
    PROVE  Makes(y, m, V + Weight[k] * E, Weight)
<1> DEFINE p == Weight
           u == [j \in 1..n |-> z[k + j]]
           t == [j \in 1..n |-> z[k + j] + e[j]]
           g == [j \in 1..n |-> s[j] % BASE]
<1>0. Weights(p, BASE) /\ BASE \in Nat \ {0} /\ BASE \in Nat /\ n \in Nat /\ k + n \in Nat
    BY WeightIs
<1>1. \A j \in 1..m : z[j] \in Digit /\ z[j] \in Int
    BY DigitIs DEF Partial
<1>2. \A j \in 1..n : k + j \in 1..m
    OBVIOUS
<1>3. \A j \in 1..k : j \in 1..m
    OBVIOUS
<1>4. PICK X \in Int : Makes(z, k, X, p)
  <2>1. \A j \in 1..k : z[j] \in Int
      BY <1>1, <1>3
  <2> QED
      BY <2>1, <1>0, MakesExists
<1>5. \A j \in 1..n : u[j] = z[k + j] /\ u[j] \in Digit /\ u[j] \in Int
    BY <1>1, <1>2
<1> HIDE DEF u
<1>6. PICK Y \in Int : Makes(u, n, Y, p)
  <2>1. \A j \in 1..n : u[j] \in Int
      BY <1>5
  <2> QED
      BY <2>1, <1>0, MakesExists
<1>7. Y \in Nat /\ Y < p[n]
  <2>1. \A j \in 1..n : u[j] \in 0..BASE - 1
      BY <1>5, DigitSizes DEF Digit
  <2> QED
      BY <2>1, <1>0, <1>6, MakesBelow
<1>8. V = X + p[k] * Y
  <2>1. Continued(z, u, k, n)
      BY <1>5 DEF Continued
  <2>2. Makes(z, k + n, X + p[k] * Y, p)
      BY <2>1, <1>0, <1>4, <1>6, MakesJoined
  <2>3. \A j \in k + n + 1..m : z[j] = 0
    <3> TAKE j \in k + n + 1..m
    <3>1. j \in 1..m /\ j > k + n
        OBVIOUS
    <3> QED
        BY <3>1 DEF Partial
  <2>4. Makes(z, m, X + p[k] * Y, p)
      BY <2>2, <2>3, <1>0, MakesPadded
  <2> QED
      BY <2>4, MakesSame
<1>9. \A j \in 1..n : t[j] = z[k + j] + e[j] /\ e[j] \in Int
    BY DEF RowOf
<1> HIDE DEF t
<1>10. Makes(t, n, 1 * Y + 1 * E, p)
  <2>1. Combined(t, 1, u, 1, e, n)
      BY <1>5, <1>9 DEF Combined
  <2>2. 1 \in Int
      OBVIOUS
  <2> QED
      BY <2>1, <2>2, <1>0, <1>6, MakesAdd
<1>11. 1 * Y + 1 * E = Y + E /\ Y + E \in Int
    BY <1>6
<1>12. PassedOn(s, t, n, BASE)
  <2>1. \A j \in 1..n : t[j] \in Int /\ s[j] \in Int /\ s[j] = t[j] + (IF j = 1 THEN 0 ELSE s[j - 1] \div BASE)
      BY <1>5, <1>9 DEF RowOf
  <2> QED
      BY <2>1 DEF PassedOn
<1>13. CutIn(g, s, n, BASE) /\ \A j \in 1..n : g[j] = s[j] % BASE /\ s[j] \in Int
    BY DEF CutIn, RowOf
<1> HIDE DEF g
<1>14. n \in 1..n /\ s[n] \in Int
    BY <1>13
<1>15. PICK c \in Int : c = s[n] \div BASE
    BY <1>14, Remainder
<1>16. PICK G : G = Y + E - c * p[n]
    OBVIOUS
<1>17. Makes(g, n, G, p)
  <2>1. c = IF n = 0 THEN 0 ELSE s[n] \div BASE
      BY <1>15
  <2>2. PICK W : W = Y + E
      OBVIOUS
  <2>3. Makes(t, n, W, p)
      BY <2>2, <1>10, <1>11
  <2>4. CutIn(g, s, n, BASE)
      BY <1>13
  <2> HIDE DEF p
  <2>5. Makes(g, n, W - c * p[n], p)
      BY <2>1, <2>3, <2>4, <1>0, <1>12, MakesCarried
  <2>6. PICK T \in Int : T = p[n]
      BY <1>0 DEF Weights
  <2>7. G = Y + E - c * T
      BY <2>6, <1>16 DEF p
  <2>8. W - c * T = G
      BY <2>2, <2>7
  <2> QED
      BY <2>5, <2>6, <2>8
<1>18. G \in Nat /\ G < p[n]
  <2>1. \A j \in 1..n : g[j] \in 0..BASE - 1
      BY <1>13, Remainder, DigitSizes
  <2> QED
      BY <2>1, <1>0, <1>17, MakesBelow
<1>19. p[n] \in Nat \ {0} /\ p[k] \in Nat \ {0} /\ p[m] \in Nat \ {0} /\ p[k + n] = p[k] * p[n]
    BY <1>0, WeightsSum DEF Weights
<1>20. c \in 0..BASE - 1 /\ (Y + E < p[n] => c = 0)
    BY <1>7, <1>15, <1>16, <1>18, <1>19, RowCarry
<1> HIDE DEF p
<1>21. Makes(y, k + n, X + p[k] * G, p)
  <2>1. \A j \in 1..k : z[j] = y[j]
      BY DEF RowOf
  <2>2. Makes(y, k, X, p)
      BY <2>1, <1>4, MakesOther
  <2>3. Continued(y, g, k, n)
    <3>1. \A j \in 1..n : g[j] \in Int /\ y[k + j] = g[j]
        BY <1>13, Remainder DEF RowOf
    <3> QED
        BY <3>1 DEF Continued
  <2> QED
      BY <2>2, <2>3, <1>0, <1>17, MakesJoined
<1>22. X + p[k] * G + c * p[k + n] = V + p[k] * E
  <2>1. PICK a \in Nat : a = p[k]
      BY <1>19
  <2>2. PICK b \in Nat : b = p[n]
      BY <1>19
  <2>3. a * (Y + E - c * b) = a * Y + a * E - c * (a * b)
      BY <1>6, <1>15
  <2>4. X + a * G + c * (a * b) = X + a * Y + a * E
    <3>1. a * G = a * Y + a * E - c * (a * b)
        BY <2>2, <2>3, <1>16
    <3>2. a * Y \in Int /\ a * E \in Int /\ c * (a * b) \in Int
        BY <1>6, <1>15
    <3> QED
        BY <3>1, <3>2, <1>4
  <2>5. p[k + n] = a * b /\ V = X + a * Y
      BY <2>1, <2>2, <1>8, <1>19 DEF p
  <2>6. X + a * G + c * (a * b) = V + a * E
      BY <2>4, <2>5
  <2> QED
      BY <2>1, <2>5, <2>6
<1>23. CASE k + n < m
  <2>1. y[k + n + 1] = c
    <3>1. y[k + n + 1] = c % BASE
        BY <1>15, <1>23 DEF RowOf
    <3>2. c % BASE = c
        BY <1>20, <1>0
    <3> QED
        BY <3>1, <3>2
  <2>2. Makes(y, k + n + 1, X + p[k] * G + c * p[k + n], p)
    <3>1. y[k + n + 1] \in Int
        BY <2>1
    <3>2. Makes(y, k + n + 1, X + p[k] * G + y[k + n + 1] * p[k + n], p)
        BY <3>1, <1>0, <1>21, MakesNext
    <3> QED
        BY <3>2, <2>1
  <2>3. \A j \in k + n + 1 + 1..m : y[j] = 0
    <3>1. k + n + 1 + 1 = k + n + 2
        OBVIOUS
    <3> QED
        BY <3>1 DEF RowOf
  <2>4. k + n + 1 \in Nat /\ k + n + 1 <= m
      BY <1>23
  <2>5. Makes(y, m, X + p[k] * G + c * p[k + n], p)
      BY <2>2, <2>3, <2>4, <1>0, MakesPadded
  <2> QED
      BY <2>5, <1>22 DEF p
<1>24. CASE k + n = m
  <2>1. Y + E < p[n]
    <3>1. V + p[k] * E < p[k] * p[n]
        BY <1>19, <1>24 DEF p
    <3>2. PICK a \in Nat \ {0} : a = p[k]
        BY <1>19
    <3>3. PICK b \in Nat : b = p[n]
        BY <1>19
    <3>4. V + a * E < a * b /\ V = X + a * Y
        BY <3>1, <3>2, <3>3, <1>8 DEF p
    <3>5. X >= 0
      <4>1. \A j \in 1..k : z[j] \in 0..BASE - 1
          BY <1>1, <1>3, DigitSizes DEF Digit
      <4> QED
          BY <4>1, <1>0, <1>4, MakesBelow DEF p
    <3>6. a * (Y + E) = a * Y + a * E /\ a * Y \in Int /\ a * E \in Int /\ a * b \in Int
        BY <1>6
    <3>7. a * (Y + E) < a * b
        BY <3>4, <3>5, <3>6, <1>4
    <3>8. CASE b <= Y + E
      <4>1. a * b <= a * (Y + E)
          BY <3>8, <1>11, Monotone
      <4>2. a * (Y + E) \in Int
          BY <3>6
      <4> QED
          BY <4>1, <4>2, <3>6, <3>7
    <3> QED
        BY <3>3, <3>8, <1>11
  <2>2. c = 0
      BY <2>1, <1>20
  <2>3. X + p[k] * G = V + p[k] * E
    <3>1. c * p[k + n] = 0
        BY <2>2, <1>19
    <3>2. p[k] * G \in Int
        BY <1>18, <1>19
    <3> QED
        BY <3>1, <3>2, <1>4, <1>22
  <2> QED
      BY <2>3, <1>21, <1>24 DEF p
<1> QED
    BY <1>23, <1>24

\* Products of smaller and greater numbers.
LEMMA MonotoneTwo ==
    ASSUME NEW x \in Nat, NEW y \in Nat, NEW b \in Nat, NEW c \in Nat, x <= y, b <= c
    PROVE  x * b <= y * c /\ x * b \in Nat /\ y * c \in Nat
<1>1. x * b <= x * c
    BY Monotone
<1>2. c * x <= c * y /\ c * x = x * c /\ c * y = y * c
    BY Monotone
<1> QED
    BY <1>1, <1>2

LEMMA ScaledBelow ==
    ASSUME NEW x \in Nat, NEW c \in Nat \ {0}, x <= c, NEW y \in Nat, NEW p \in Nat, y < p
    PROVE  x * y < c * p /\ x * y \in Nat
<1>1. x * y <= c * y /\ x * y \in Nat /\ c * y \in Nat
    BY MonotoneTwo
<1>2. c * (y + 1) <= c * p
    BY Monotone
<1>3. c * (y + 1) = c * y + c /\ c * p \in Nat
    OBVIOUS
<1> QED
    BY <1>1, <1>2, <1>3

\* Row i of a product adds digit i of one factor times the other factor, at place i.
LEMMA AddRowValue ==
    ASSUME NEW b \in Seq(Digit), NEW m \in Nat, NEW i \in Nat \ {0}, i + Len(b) <= m, NEW x \in Digit,
           NEW z \in Partial(m, i - 1 + Len(b)), NEW V, Makes(z, m, V, Weight)
    PROVE  Makes(AddRow(z, i, x, b), m, V + Weight[i - 1] * (x * ValueOf(b)), Weight)
<1> DEFINE n == Len(b)
           k == i - 1
           e == [j \in 1..n |-> b[j] * x]
<1>1. z \in [1..m -> Int] /\ n \in Nat /\ k \in Nat /\ i + Len(b) - 1 <= m /\ k + n < m /\ k + 1 = i
    BY DigitIs DEF Partial
<1>2. PICK s \in [1..n -> Int] : RowSums(s, z, i, x, b) /\ AddRow(z, i, x, b) = Row(z, i, s, n)
    BY <1>1, AddRowIs
<1>3. PICK y : y = AddRow(z, i, x, b)
    OBVIOUS
<1>4. y \in Partial(m, i + n)
    BY <1>3, AddRowFits
<1>5. y = Row(z, i, s, n)
    BY <1>2, <1>3
<1>6. PICK B \in Nat : B = ValueOf(b)
    BY ValueBelow
<1>7. Makes(b, n, B, Weight) /\ B < Weight[n]
    BY <1>6, ValueMakes, ValueBelow, WeightAt, <1>1
<1>8. x \in Nat /\ x <= BASE - 1
    BY DigitSizes DEF Digit
<1>9. \A j \in 1..n : b[j] \in Nat
    BY DigitIs
<1>10. \A j \in 1..m : y[j] = IF j \in i..i + n - 1 THEN s[j - i + 1] % BASE
                              ELSE IF j = i + n /\ n > 0 THEN z[j] + ((s[n] \div BASE) % BASE)
                              ELSE z[j]
    BY <1>1, <1>5 DEF Row
<1> HIDE DEF n, k
<1>11. CASE n = 0
  <2>1. B = 0
    <3>1. Len(b) = 0
        BY <1>11 DEF n
    <3>2. b = <<>>
        BY <3>1, EmptySeq
    <3> QED
        BY <3>2, <1>6, NothingValue
  <2>2. \A j \in 1..m : z[j] = y[j]
    <3> TAKE j \in 1..m
    <3>1. ~ (j \in i..i + n - 1) /\ ~ (n > 0)
        BY <1>11
    <3> QED
        BY <3>1, <1>10
  <2>3. Makes(y, m, V, Weight)
      BY <2>2, MakesOther
  <2>4. V + Weight[k] * (x * B) = V
    <3>1. V \in Int
        BY MakesWhole
    <3>2. Weight[k] \in Int
        BY <1>1, WeightAt
    <3> QED
        BY <3>1, <3>2, <2>1, <1>8
  <2> QED
      BY <2>3, <2>4, <1>3, <1>6 DEF k
<1>12. CASE n # 0
  <2>1. n \in Nat \ {0} /\ k + n <= m
      BY <1>1, <1>12
  <2>2. z \in Partial(m, k + n)
      BY DEF k, n
  <2>3. \A j \in 1..n : e[j] = b[j] * x /\ e[j] \in Int
      BY <1>8, <1>9
  <2> HIDE DEF e
  <2>4. Makes(e, n, x * B, Weight)
    <3>1. Combined(e, x, b, 0, b, n)
      <4>1. \A j \in 1..n : b[j] * x = x * b[j] + 0 * b[j] /\ b[j] \in Int
          BY <1>8, <1>9
      <4> QED
          BY <4>1, <2>3 DEF Combined
    <3>2. Makes(e, n, x * B + 0 * B, Weight)
      <4>1. x \in Int /\ 0 \in Int
          BY <1>8
      <4> QED
          BY <3>1, <4>1, <1>1, <1>7, WeightIs, MakesAdd
    <3>3. x * B + 0 * B = x * B
        BY <1>8
    <3> QED
        BY <3>2, <3>3
  <2>5. x * B \in Nat /\ x * B < (BASE - 1) * Weight[n]
    <3>1. PICK p \in Nat \ {0} : p = Weight[n]
        BY <1>1, WeightAt
    <3>2. PICK c \in Nat \ {0} : c = BASE - 1
        BY DigitSizes
    <3>3. x * B < c * p /\ x * B \in Nat
        BY <1>7, <1>8, <3>1, <3>2, ScaledBelow
    <3> QED
        BY <3>1, <3>2, <3>3
  <2>6. RowOf(z, y, s, e, k, n, m)
    <3>1. ASSUME NEW j \in 1..n
          PROVE  /\ e[j] \in Int /\ s[j] \in Int
                 /\ s[j] = z[k + j] + e[j] + (IF j = 1 THEN 0 ELSE s[j - 1] \div BASE)
      <4>1. s[j] = z[i + j - 1] + b[j] * x + (IF j = 1 THEN 0 ELSE s[j - 1] \div BASE)
          BY <1>2 DEF RowSums, n
      <4>2. i + j - 1 = k + j
          BY <1>1
      <4>3. s[j] \in Int
          BY <1>2
      <4> QED
          BY <4>1, <4>2, <4>3, <2>3
    <3>2. ASSUME NEW j \in 1..k
          PROVE  y[j] = z[j]
      <4>1. j \in 1..m /\ ~ (j \in i..i + n - 1) /\ j # i + n
          BY <1>1
      <4> QED
          BY <4>1, <1>10
    <3>3. ASSUME NEW j \in 1..n
          PROVE  y[k + j] = s[j] % BASE
      <4>1. PICK t : t = k + j
          OBVIOUS
      <4>2. t \in 1..m /\ t \in i..i + n - 1 /\ t - i + 1 = j
          BY <1>1, <4>1
      <4>3. y[t] = s[t - i + 1] % BASE
          BY <4>2, <1>10
      <4> QED
          BY <4>1, <4>2, <4>3
    <3>4. y[k + n + 1] = (s[n] \div BASE) % BASE
      <4>1. k + n + 1 \in 1..m /\ ~ (k + n + 1 \in i..i + n - 1) /\ k + n + 1 = i + n /\ n > 0 /\ k + n + 1 > k + n
          BY <1>1, <2>1
      <4>2. z[k + n + 1] = 0
          BY <2>2, <4>1 DEF Partial
      <4>3. (s[n] \div BASE) % BASE \in Int
        <5>1. s[n] \in Int
            BY <1>2, <2>1
        <5> QED
            BY <5>1, Parts
      <4>4. y[k + n + 1] = z[k + n + 1] + ((s[n] \div BASE) % BASE)
        <5>1. PICK j : j = k + n + 1
            OBVIOUS
        <5>2. j \in 1..m /\ ~ (j \in i..i + n - 1) /\ j = i + n /\ n > 0
            BY <5>1, <4>1
        <5>3. y[j] = z[j] + ((s[n] \div BASE) % BASE)
            BY <5>2, <1>10
        <5> QED
            BY <5>1, <5>3
      <4> QED
          BY <4>2, <4>3, <4>4
    <3>5. ASSUME NEW j \in k + n + 2..m
          PROVE  y[j] = 0
      <4>1. j \in 1..m /\ j > i + n
          BY <1>1
      <4> QED
          BY <4>1, <1>4 DEF Partial
    <3> QED
        BY <3>1, <3>2, <3>3, <3>4, <3>5 DEF RowOf
  <2>7. k + n = m => V + Weight[k] * (x * B) < Weight[m]
      BY <1>1
  <2>8. PICK E \in Nat : E = x * B
      BY <2>5
  <2>9. Makes(e, n, E, Weight) /\ E < (BASE - 1) * Weight[n] /\ (k + n = m => V + Weight[k] * E < Weight[m])
      BY <2>4, <2>5, <2>7, <2>8
  <2>10. Makes(y, m, V + Weight[k] * E, Weight)
      BY <2>1, <2>2, <2>6, <2>9, <1>1, RowValue
  <2> QED
      BY <2>8, <2>10, <1>3, <1>6 DEF k
<1> QED
    BY <1>11, <1>12

\* The value of the first digits of a number
LEMMA MakesPart ==
    ASSUME NEW a, NEW n \in Nat, NEW p, NEW f, Totals(f, a, n, p), NEW k \in 0..n
    PROVE  Makes(a, k, f[k], p)
<1>1. Totals(f, a, k, p)
    BY DEF Totals
<1> QED
    BY <1>1 DEF Makes

\* What the terms of row i of a square add up to
SquaredTerms(a, i, N) == [j \in 1..N |-> SquareTerm(a, i, i - 1 + j)]

\* What the row of a square adds up to: H are the digits from i on.
LEMMA SquareTermsMake ==
    ASSUME NEW a \in Seq(Digit), NEW i \in 1..Len(a), NEW N, N = Len(a) + 2 - i,
           NEW f, Totals(f, a, Len(a), Weight)
    PROVE  \E H \in Nat :
              /\ f[Len(a)] = f[i - 1] + Weight[i - 1] * H
              /\ a[i] \in Nat /\ a[i] <= H /\ H < Weight[N - 1]
              /\ Makes(SquaredTerms(a, i, N), N, (2 * a[i]) * H - a[i] * a[i], Weight)
<1> DEFINE n == Len(a)
           k == i - 1
           x == a[i]
           h == [j \in 1..N |-> At(a, k + j)]
           g == [j \in 1..n + 1 |-> At(a, j)]
           u == [j \in 1..N - 1 |-> At(a, i + j)]
           t == [j \in 1..N |-> IF j = 1 THEN x ELSE 0]
           e == SquaredTerms(a, i, N)
<1>1. n \in Nat /\ k \in Nat /\ N \in Nat /\ N >= 2 /\ N - 1 \in Nat /\ i \in Nat /\ k + N = n + 1 /\ k + 1 = i /\ k \in 0..n /\ n \in 0..n
    OBVIOUS
<1>2. x \in Digit /\ x \in Nat /\ At(a, i) = x
    BY DigitIs DEF At
<1>3. \A j \in Int : At(a, j) \in Digit /\ At(a, j) \in Nat
    BY AtDigit
<1>4. \A j \in 1..N : h[j] = At(a, k + j) /\ h[j] \in Nat /\ h[j] \in Int /\ h[j] \in 0..BASE - 1
  <2> TAKE j \in 1..N
  <2>1. h[j] = At(a, k + j) /\ k + j \in Int
      BY <1>1
  <2>2. h[j] \in Digit /\ h[j] \in Nat
      BY <2>1, <1>3
  <2>3. Digit = 0..BASE - 1
      BY DigitSizes DEF Digit
  <2> QED
      BY <2>1, <2>2, <2>3
<1>5. \A j \in 1..N - 1 : u[j] = At(a, i + j) /\ u[j] \in Int /\ u[j] \in 0..BASE - 1
  <2> TAKE j \in 1..N - 1
  <2>1. u[j] = At(a, i + j) /\ i + j \in Int
      BY <1>1
  <2>2. u[j] \in Digit /\ u[j] \in Nat
      BY <2>1, <1>3
  <2>3. Digit = 0..BASE - 1
      BY DigitSizes DEF Digit
  <2> QED
      BY <2>1, <2>2, <2>3
<1>6. \A j \in 1..n + 1 : g[j] = At(a, j)
    OBVIOUS
<1>7. \A j \in 1..N : t[j] = IF j = 1 THEN x ELSE 0
    OBVIOUS
<1>8. \A j \in 1..N : e[j] = SquareTerm(a, i, k + j)
    BY DEF SquaredTerms
<1> HIDE DEF h, g, u, t, e, x
<1>9. Weights(Weight, BASE) /\ BASE \in Nat /\ BASE \in Nat \ {0}
    BY WeightIs
<1>10. PICK H \in Int : Makes(h, N, H, Weight)
    BY <1>1, <1>4, <1>9, MakesExists
<1>11. f[n] = f[k] + Weight[k] * H
  <2>1. Makes(a, k, f[k], Weight) /\ Makes(a, n, f[n], Weight)
      BY <1>1, MakesPart
  <2>2. \A j \in 1..k : a[j] = g[j]
    <3> TAKE j \in 1..k
    <3>1. j \in 1..n + 1 /\ j \in DOMAIN a
        BY <1>1
    <3> QED
        BY <3>1, <1>6 DEF At
  <2>3. Makes(g, k, f[k], Weight)
      BY <2>1, <2>2, <1>1, MakesOther
  <2>4. Continued(g, h, k, N)
    <3>1. ASSUME NEW j \in 1..N
          PROVE  h[j] \in Int /\ g[k + j] = h[j]
      <4>1. k + j \in 1..n + 1
          BY <1>1
      <4> QED
          BY <4>1, <1>4, <1>6
    <3> QED
        BY <3>1 DEF Continued
  <2>5. Makes(g, k + N, f[k] + Weight[k] * H, Weight)
      BY <2>3, <2>4, <1>1, <1>9, <1>10, MakesJoined
  <2>6. PICK m \in Nat : m = n + 1
      BY <1>1
  <2>7. Makes(g, m, f[k] + Weight[k] * H, Weight)
      BY <2>5, <2>6, <1>1
  <2>8. ValueOf(a) = f[n]
    <3>1. Makes(a, n, ValueOf(a), Weight)
        BY ValueMakes
    <3> QED
        BY <3>1, <2>1, <1>1, MakesSame
  <2>9. Makes(g, m, f[n], Weight)
    <3>1. n <= m /\ \A j \in 1..m : g[j] = At(a, j)
        BY <1>1, <1>6, <2>6
    <3>2. Makes(g, m, ValueOf(a), Weight)
        BY <3>1, AtMakes
    <3> QED
        BY <3>2, <2>8
  <2> QED
      BY <2>7, <2>9, MakesSame
<1>12. Makes(h, 1, x, Weight)
  <2>1. h[1] = x
    <3>1. 1 \in 1..N
        BY <1>1
    <3> QED
        BY <3>1, <1>1, <1>2, <1>4
  <2>2. Makes(h, 0, 0, Weight)
      BY MakesNothing
  <2>3. 0 \in Nat /\ h[0 + 1] \in Int
      BY <2>1, <1>2
  <2>4. Makes(h, 0 + 1, 0 + h[0 + 1] * Weight[0], Weight)
      BY <2>2, <2>3, <1>9, MakesNext
  <2>5. 0 + 1 = 1 /\ 0 + h[0 + 1] * Weight[0] = x
    <3>1. Weight[0] = 1
        BY <1>9 DEF Weights
    <3> QED
        BY <3>1, <2>1, <1>2
  <2> QED
      BY <2>4, <2>5
<1>13. x <= H
  <2>1. PICK U \in Int : Makes(u, N - 1, U, Weight)
      BY <1>1, <1>5, <1>9, MakesExists
  <2>2. U \in Nat
      BY <2>1, <1>1, <1>5, <1>9, MakesBelow
  <2>3. Continued(h, u, 1, N - 1)
    <3>1. ASSUME NEW j \in 1..N - 1
          PROVE  u[j] \in Int /\ h[1 + j] = u[j]
      <4>1. 1 + j \in 1..N /\ k + (1 + j) = i + j
          BY <1>1
      <4>2. h[1 + j] = At(a, k + (1 + j))
          BY <4>1, <1>4
      <4> QED
          BY <4>1, <4>2, <1>5
    <3> QED
        BY <3>1 DEF Continued
  <2>4. Makes(h, 1 + (N - 1), x + Weight[1] * U, Weight)
    <3>1. 1 \in Nat
        OBVIOUS
    <3> QED
        BY <3>1, <2>1, <2>3, <1>1, <1>9, <1>12, MakesJoined
  <2>5. 1 + (N - 1) = N
      BY <1>1
  <2>6. H = x + Weight[1] * U
      BY <2>4, <2>5, <1>1, <1>10, MakesSame
  <2>7. PICK z \in Nat : z = Weight[1]
      BY WeightAt
  <2>8. z * U \in Nat
      BY <2>2
  <2> QED
      BY <2>6, <2>7, <2>8, <1>2
<1>14. H \in Nat /\ H < Weight[N - 1]
  <2>1. \A j \in N - 1 + 1..N : h[j] = 0
    <3> TAKE j \in N - 1 + 1..N
    <3>1. j = N /\ j \in 1..N /\ k + N = n + 1
        BY <1>1
    <3>2. n + 1 \notin DOMAIN a
        BY <1>1
    <3> QED
        BY <3>1, <3>2, <1>4 DEF At
  <2>2. PICK M \in Nat : M = N - 1
      BY <1>1
  <2>3. M <= N /\ \A j \in M + 1..N : h[j] = 0
      BY <2>1, <2>2, <1>1
  <2>4. Makes(h, M, H, Weight)
      BY <2>3, <1>1, <1>9, <1>10, MakesPadded
  <2>5. \A j \in 1..M : h[j] \in 0..BASE - 1
    <3> TAKE j \in 1..M
    <3>1. j \in 1..N
        BY <2>3, <1>1
    <3> QED
        BY <3>1, <1>4
  <2>6. H \in Nat /\ H < Weight[M]
      BY <2>4, <2>5, <1>9, MakesBelow
  <2> QED
      BY <2>2, <2>6
<1>15. Makes(t, N, x, Weight)
  <2>1. Makes(t, 1, x, Weight)
    <3>1. \A j \in 1..1 : h[j] = t[j]
      <4> TAKE j \in 1..1
      <4>1. j = 1 /\ j \in 1..N /\ k + j = i
          BY <1>1
      <4> QED
          BY <4>1, <1>2, <1>4, <1>7
    <3>2. 1 \in Nat
        OBVIOUS
    <3> QED
        BY <3>1, <3>2, <1>12, MakesOther
  <2>2. PICK M \in Nat : M = 1
      OBVIOUS
  <2>4. M <= N /\ Makes(t, M, x, Weight)
      BY <2>1, <2>2, <1>1
  <2>3. \A j \in M + 1..N : t[j] = 0
    <3> TAKE j \in M + 1..N
    <3>1. j \in 1..N /\ j # 1
        BY <1>1, <2>2
    <3> QED
        BY <3>1, <1>7
  <2> QED
      BY <2>3, <2>4, <1>1, <1>9, MakesPadded
<1>16. Makes(e, N, (2 * x) * H - x * x, Weight)
  <2>1. ASSUME NEW j \in 1..N
        PROVE  h[j] \in Int /\ t[j] \in Int /\ e[j] = (2 * x) * h[j] + (0 - x) * t[j]
    <3>1. h[j] \in Int /\ t[j] \in Int
        BY <1>2, <1>4, <1>7
    <3>2. CASE j = 1
      <4>1. k + j = i
          BY <3>2, <1>1
      <4>2. e[j] = x * x /\ h[j] = x /\ t[j] = x
          BY <4>1, <3>2, <1>2, <1>4, <1>7, <1>8 DEF SquareTerm, x
      <4>3. x * x = (2 * x) * x + (0 - x) * x
          BY <1>2
      <4> QED
          BY <3>1, <4>2, <4>3
    <3>3. CASE j # 1
      <4>1. k + j # i
          BY <3>3, <1>1
      <4>2. e[j] = h[j] * 2 * x /\ t[j] = 0
          BY <4>1, <3>3, <1>4, <1>7, <1>8 DEF SquareTerm, x
      <4>3. h[j] * 2 * x = (2 * x) * h[j] + (0 - x) * 0
          BY <1>2, <3>1
      <4> QED
          BY <3>1, <4>2, <4>3
    <3> QED
        BY <3>2, <3>3
  <2>2. PICK c \in Int : c = 2 * x
      BY <1>2
  <2>3. PICK b \in Int : b = 0 - x
      BY <1>2
  <2>4. Combined(e, c, h, b, t, N)
      BY <2>1, <2>2, <2>3 DEF Combined
  <2>5. Makes(e, N, c * H + b * x, Weight)
      BY <2>4, <1>1, <1>9, <1>10, <1>15, MakesAdd
  <2>6. c * H + b * x = (2 * x) * H - x * x
      BY <2>2, <2>3, <1>2
  <2> QED
      BY <2>5, <2>6
<1> QED
    BY <1>2, <1>11, <1>13, <1>14, <1>16 DEF x, e

\* The arithmetic of a row: what is missing from a square after it
LEMMA SquareGrows ==
    ASSUME NEW A \in Int, NEW l \in Int, NEW p \in Int, NEW h \in Int, NEW x \in Int, A = l + p * h
    PROVE  A * A - (A - l) * (A - l) + (p * p) * ((2 * x) * h - x * x)
             = A * A - (A - (l + x * p)) * (A - (l + x * p))
<1> DEFINE g == p * h
           y == x * p
<1>1. g \in Int /\ y \in Int /\ A - l = g /\ A - (l + y) = g - y
    OBVIOUS
<1>2. (p * p) * ((2 * x) * h - x * x) = 2 * (y * g) - y * y
  <2>1. (p * p) * ((2 * x) * h - x * x) = (p * p) * ((2 * x) * h) - (p * p) * (x * x)
      OBVIOUS
  <2>2. (p * p) * (x * x) = y * y
      OBVIOUS
  <2>3. (p * p) * ((2 * x) * h) = 2 * (y * g)
      OBVIOUS
  <2> QED
      BY <2>1, <2>2, <2>3
<1> HIDE DEF g, y
<1>3. (g - y) * (g - y) = g * g - 2 * (y * g) + y * y
    BY <1>1
<1>4. A * A \in Int /\ g * g \in Int /\ y * g \in Int /\ y * y \in Int
    BY <1>1
<1>5. A * A - g * g + (2 * (y * g) - y * y) = A * A - (g - y) * (g - y)
    BY <1>3, <1>4
<1> QED
    BY <1>1, <1>2, <1>5 DEF y

\* After row i of a square, what is missing is the square of the digits not yet seen.
LEMMA SquareRowValue ==
    ASSUME NEW a \in Seq(Digit), NEW i \in 1..Len(a), NEW z \in Partial(Len(a) + Len(a), i + Len(a)),
           NEW f, Totals(f, a, Len(a), Weight), NEW A, A = f[Len(a)],
           Makes(z, Len(a) + Len(a), A * A - (A - f[i - 1]) * (A - f[i - 1]), Weight)
    PROVE  Makes(SquareRow(z, i, a), Len(a) + Len(a), A * A - (A - f[i]) * (A - f[i]), Weight)
<1> DEFINE n == Len(a)
           m == n + n
           k == 2 * i - 2
           N == n + 2 - i
           e == SquaredTerms(a, i, N)
           x == a[i]
<1>1. n \in Nat /\ m \in Nat /\ k \in Nat /\ N \in Nat /\ N \in Nat \ {0} /\ N >= 2 /\ N - 1 \in Nat /\ k + N = i + n /\ k + N <= m
      /\ i \in Nat /\ i - 1 \in Nat /\ k = (i - 1) + (i - 1)
    OBVIOUS
<1>2. PICK H \in Nat :
        /\ f[n] = f[i - 1] + Weight[i - 1] * H
        /\ x \in Nat /\ x <= H /\ H < Weight[N - 1]
        /\ Makes(e, N, (2 * x) * H - x * x, Weight)
    BY SquareTermsMake
<1>3. z \in [1..m -> Int] /\ z \in Partial(m, k + N)
    BY <1>1, DigitIs DEF Partial
<1>4. PICK s \in [i..n + 1 -> Int] : SquareSums(s, z, i, a) /\ SquareRow(z, i, a) = SquaredRow(z, i, s, n)
    BY <1>3, SquareRowIs
<1>5. PICK y : y = SquareRow(z, i, a)
    OBVIOUS
<1>6. y \in Partial(m, i + n + 1)
    BY <1>5, SquareRowFits
<1>7. \A j \in 1..m : y[j] = IF j \in 2 * i - 1..i + n THEN s[j - i + 1] % BASE
                             ELSE IF j = i + n + 1 THEN z[j] + ((s[n + 1] \div BASE) % BASE)
                             ELSE z[j]
    BY <1>3, <1>4, <1>5 DEF SquaredRow
<1>8. \A j \in 1..N : e[j] = SquareTerm(a, i, i - 1 + j) /\ e[j] \in Int
  <2> TAKE j \in 1..N
  <2>1. e[j] = SquareTerm(a, i, i - 1 + j)
      BY DEF SquaredTerms
  <2>2. i - 1 + j \in Int
      BY <1>1
  <2>3. PICK t \in Nat : t = At(a, i - 1 + j)
      BY <2>2, AtDigit
  <2>4. x * x \in Int /\ t * 2 * x \in Int
      BY <1>2
  <2> QED
      BY <2>1, <2>3, <2>4 DEF SquareTerm
<1>9. PICK E \in Int : E = (2 * x) * H - x * x
    BY <1>2
<1>10. x <= BASE - 1
  <2>1. x \in Digit
      OBVIOUS
  <2> QED
      BY <2>1, DigitSizes DEF Digit
<1> HIDE DEF n, m, k, N, e, x
<1>11. Weights(Weight, BASE) /\ BASE \in Nat /\ BASE \in Nat \ {0} /\ BASE >= 16
    BY WeightIs, DigitSizes
<1>12. PICK P \in Nat \ {0} : P = Weight[i - 1]
    BY <1>1, WeightAt
<1>13. Weight[k] = P * P
  <2>1. PICK j \in Nat : j = i - 1
      BY <1>1
  <2>2. Weight[j + j] = Weight[j] * Weight[j]
      BY <1>11, WeightsSum
  <2> QED
      BY <2>1, <2>2, <1>1, <1>12
<1>14. E \in Nat /\ E < (BASE - 1) * Weight[N]
  <2>1. E = x * (2 * H - x) /\ x * (2 * H - x) = x * H + x * (H - x)
      BY <1>2, <1>9
  <2>2. x * H \in Nat /\ x * (H - x) \in Nat /\ x * (H - x) <= x * H
    <3>1. H - x \in Nat /\ H - x <= H
        BY <1>2
    <3>2. x * (H - x) <= x * H
        BY <3>1, <1>2, Monotone
    <3> QED
        BY <3>1, <3>2, <1>2
  <2>3. E \in Nat /\ E <= x * (2 * H)
    <3>1. x * (2 * H) = x * H + x * H
        BY <1>2
    <3> QED
        BY <2>1, <2>2, <3>1
  <2>4. PICK T \in Nat \ {0} : T = Weight[N - 1]
      BY <1>1, WeightAt
  <2>5. Weight[N] = BASE * T
    <3>1. PICK M \in Nat : M = N - 1
        BY <1>1
    <3>2. M + 1 = N /\ Weight[M + 1] = BASE * Weight[M]
        BY <3>1, <1>1, <1>11 DEF Weights
    <3> QED
        BY <3>1, <3>2, <2>4
  <2>6. 2 * H < BASE * T
    <3>1. 2 * T <= BASE * T
        BY <1>11, MonotoneTwo
    <3> QED
        BY <3>1, <2>4, <1>2, <1>11
  <2>7. PICK c \in Nat \ {0} : c = BASE - 1
      BY <1>11
  <2>8. PICK u \in Nat : u = BASE * T
      BY <1>11
  <2>9. 2 * H \in Nat /\ 2 * H < u /\ x \in Nat /\ x <= c
      BY <2>6, <2>7, <2>8, <1>2, <1>10
  <2>10. x * (2 * H) < c * u /\ x * (2 * H) \in Nat
      BY <2>9, ScaledBelow
  <2> QED
      BY <2>3, <2>5, <2>7, <2>8, <2>10
<1>15. RowOf(z, y, [j \in 1..N |-> s[i - 1 + j]], e, k, N, m)
  <2> DEFINE t == [j \in 1..N |-> s[i - 1 + j]]
  <2>1. \A j \in 1..N : t[j] = s[i - 1 + j]
      OBVIOUS
  <2>2. i - 1 + N = n + 1
      BY <1>1 DEF N
  <2> HIDE DEF t
  <2>3. ASSUME NEW j \in 1..N
        PROVE  /\ e[j] \in Int /\ t[j] \in Int
               /\ t[j] = z[k + j] + e[j] + (IF j = 1 THEN 0 ELSE t[j - 1] \div BASE)
    <3>1. PICK g \in Int : g = i - 1 + j
        BY <1>1
    <3>2. g \in i..n + 1 /\ i + g - 1 = k + j /\ (g = i <=> j = 1)
        BY <3>1, <2>2, <1>1
    <3>3. s[g] \in Int /\ t[j] = s[g] /\ e[j] = SquareTerm(a, i, g)
        BY <3>1, <3>2, <2>1, <1>4, <1>8
    <3>4. s[g] = z[i + g - 1] + SquareTerm(a, i, g) + (IF g = i THEN 0 ELSE s[g - 1] \div BASE)
        BY <3>2, <1>4 DEF SquareSums, n
    <3>5. j # 1 => t[j - 1] = s[g - 1]
      <4>1. j # 1 => j - 1 \in 1..N /\ i - 1 + (j - 1) = g - 1
          BY <3>1, <1>1
      <4> QED
          BY <4>1, <2>1
    <3> QED
        BY <3>2, <3>3, <3>4, <3>5, <1>8
  <2>4. ASSUME NEW j \in 1..k
        PROVE  y[j] = z[j]
    <3>1. j \in 1..m /\ ~ (j \in 2 * i - 1..i + n) /\ j # i + n + 1
        BY <1>1
    <3> QED
        BY <3>1, <1>7
  <2>5. ASSUME NEW j \in 1..N
        PROVE  y[k + j] = t[j] % BASE
    <3>1. PICK g : g = k + j
        OBVIOUS
    <3>2. g \in 1..m /\ g \in 2 * i - 1..i + n /\ g - i + 1 = i - 1 + j
        BY <3>1, <1>1
    <3>3. y[g] = s[g - i + 1] % BASE
        BY <3>2, <1>7
    <3> QED
        BY <3>1, <3>2, <3>3, <2>1
  <2>6. ASSUME k + N < m
        PROVE  y[k + N + 1] = (t[N] \div BASE) % BASE
    <3>1. PICK g : g = k + N + 1
        OBVIOUS
    <3>2. g \in 1..m /\ ~ (g \in 2 * i - 1..i + n) /\ g = i + n + 1 /\ g > k + N
        BY <3>1, <2>6, <1>1
    <3>3. z[g] = 0
        BY <3>2, <1>3 DEF Partial
    <3>4. t[N] = s[n + 1] /\ s[n + 1] \in Int
      <4>1. N \in 1..N /\ n + 1 \in i..n + 1
          BY <1>1, <2>2
      <4> QED
          BY <4>1, <2>1, <2>2, <1>4
    <3>5. (s[n + 1] \div BASE) % BASE \in Int
        BY <3>4, Parts
    <3>6. y[g] = z[g] + ((s[n + 1] \div BASE) % BASE)
        BY <3>2, <1>7
    <3> QED
        BY <3>1, <3>3, <3>4, <3>5, <3>6
  <2>7. ASSUME NEW j \in k + N + 2..m
        PROVE  y[j] = 0
    <3>1. j \in 1..m /\ j > i + n + 1
        BY <1>1
    <3> QED
        BY <3>1, <1>6 DEF Partial
  <2> QED
      BY <2>3, <2>4, <2>5, <2>6, <2>7 DEF RowOf, t
<1>16. A \in Int /\ f[i - 1] \in Int /\ f[i] = f[i - 1] + x * P
  <2>1. i - 1 \in 0..n /\ i \in 1..n /\ n \in 0..n
      BY <1>1 DEF n
  <2> QED
      BY <2>1, <1>12 DEF Totals, n, x
<1>17. PICK V : V = A * A - (A - f[i - 1]) * (A - f[i - 1])
    OBVIOUS
<1>18. V + Weight[k] * E = A * A - (A - f[i]) * (A - f[i])
  <2>1. PICK l \in Int : l = f[i - 1]
      BY <1>16
  <2>2. A = l + P * H
      BY <2>1, <1>2, <1>12 DEF n
  <2>3. A * A - (A - l) * (A - l) + (P * P) * ((2 * x) * H - x * x) = A * A - (A - (l + x * P)) * (A - (l + x * P))
      BY <2>2, <1>2, <1>16, SquareGrows
  <2> QED
      BY <2>1, <2>3, <1>9, <1>13, <1>16, <1>17
<1>19. V + Weight[k] * E < Weight[m]
  <2>0. x * P \in Int
      BY <1>2, <1>12
  <2>1. PICK g \in Int : g = A - f[i]
      BY <2>0, <1>16
  <2>2. PICK W \in Nat \ {0} : W = Weight[n]
      BY <1>1, WeightAt
  <2>3. A \in Nat /\ A < W
    <3>1. \A j \in 1..n : a[j] \in 0..BASE - 1
      <4>1. \A j \in 1..n : a[j] \in Digit
          BY DEF n
      <4>2. Digit = 0..BASE - 1
          BY DigitSizes DEF Digit
      <4> QED
          BY <4>1, <4>2
    <3>2. Makes(a, n, A, Weight)
      <4>1. n \in 0..n
          BY <1>1
      <4> QED
          BY <4>1, <1>1, MakesPart DEF n
    <3> QED
        BY <3>1, <3>2, <2>2, <1>1, <1>11, MakesBelow
  <2>4. Weight[m] = W * W
      BY <2>2, <1>1, <1>11, WeightsSum DEF m
  <2>5. g * g >= 0 /\ g * g \in Int
    <3>1. CASE g >= 0
        BY <3>1
    <3>2. CASE g < 0
      <4>1. PICK t \in Nat : t = 0 - g
          BY <3>2
      <4>2. g * g = t * t
          BY <4>1
      <4> QED
          BY <4>2
    <3> QED
        BY <3>1, <3>2
  <2>6. A * A < W * W /\ A * A \in Nat
    <3>1. A <= W
        BY <2>2, <2>3
    <3> QED
        BY <3>1, <2>2, <2>3, ScaledBelow
  <2>7. A * A - g * g < W * W
      BY <2>2, <2>5, <2>6
  <2> QED
      BY <2>1, <2>4, <2>7, <1>18
<1>20. PICK t : t = [j \in 1..N |-> s[i - 1 + j]]
    OBVIOUS
<1>21. RowOf(z, y, t, e, k, N, m)
    BY <1>15, <1>20
<1>22. Makes(z, m, V, Weight)
    BY <1>17 DEF m, n
<1>23. Makes(e, N, E, Weight)
    BY <1>2, <1>9
<1>24. Makes(y, m, V + Weight[k] * E, Weight)
    BY <1>1, <1>3, <1>14, <1>19, <1>21, <1>22, <1>23, RowValue
<1> QED
    BY <1>5, <1>18, <1>24 DEF m, n

\* The digits of a product are its digits.
LEMMA MulValue ==
    ASSUME NEW a \in Seq(Digit), NEW b \in Seq(Digit), NEW same \in BOOLEAN, same => a = b
    PROVE  ValueOf(x_mul(a, b, same)) = ValueOf(a) * ValueOf(b)
<1> DEFINE n == Len(a)
           m == Len(a) + Len(b)
<1>1. n \in Nat /\ m \in Nat /\ Len(b) \in Nat /\ m = n + Len(b)
    OBVIOUS
<1>2. PICK h : Rows(h, a, b, same) /\ x_mul(a, b, same) = int_normalize(h[n])
    BY MulRows
<1>3. PICK f : Totals(f, a, n, Weight) /\ f[n] = ValueOf(a)
    BY ValueMakes DEF Makes
<1>4. PICK B \in Nat : B = ValueOf(b)
    BY ValueBelow
<1>5. PICK A \in Nat : A = ValueOf(a)
    BY ValueBelow
<1>6. \A i \in 0..n : f[i] \in Int
    BY <1>3 DEF Totals
<1>7. f[0] = 0 /\ \A i \in 1..n : f[i] = f[i - 1] + a[i] * Weight[i - 1]
    BY <1>3 DEF Totals
<1> DEFINE T(i) == IF same THEN A * A - (A - f[i]) * (A - f[i]) ELSE f[i] * B
           S == {i \in 0..n : Makes(h[i], m, T(i), Weight)}
<1>8. 0 \in S
  <2>1. 0 \in 0..n
      BY <1>1
  <2>2. \A p \in 1..m : h[0][p] = 0
      BY <1>2 DEF Rows
  <2>3. Makes(h[0], m, 0, Weight)
      BY <2>2, <1>1, WeightIs, MakesZero
  <2>4. T(0) = 0
    <3>1. A * A - (A - 0) * (A - 0) = 0 /\ 0 * B = 0
        OBVIOUS
    <3> QED
        BY <3>1, <1>7
  <2> QED
      BY <2>1, <2>3, <2>4
<1>9. ASSUME NEW j \in 0..n - 1, j \in S
      PROVE  j + 1 \in S
  <2> DEFINE i == j + 1
  <2>1. i \in 1..n /\ i \in 0..n /\ i - 1 = j /\ j \in 0..n /\ i \in Nat \ {0} /\ j \in Nat
      BY <1>1
  <2> HIDE DEF i
  <2>2. Makes(h[i - 1], m, T(i - 1), Weight)
      BY <2>1, <1>9
  <2>3. h[i - 1] \in Partial(m, i - 1 + Len(b) + (IF same THEN 1 ELSE 0))
      BY <2>1, <1>2 DEF Rows
  <2>4. h[i] = IF same THEN SquareRow(h[i - 1], i, a) ELSE AddRow(h[i - 1], i, a[i], b)
      BY <2>1, <1>2 DEF Rows
  <2>5. CASE same
    <3>1. m = Len(a) + Len(a)
        BY <2>5
    <3>2. h[i - 1] \in Partial(Len(a) + Len(a), i + Len(a))
      <4>1. i - 1 + Len(b) + 1 = i + Len(a)
          BY <2>1, <2>5, <1>1
      <4> QED
          BY <4>1, <3>1, <2>3, <2>5
    <3>3. Makes(h[i - 1], Len(a) + Len(a), A * A - (A - f[i - 1]) * (A - f[i - 1]), Weight)
        BY <2>2, <2>5, <3>1
    <3>4. A = f[Len(a)] /\ Totals(f, a, Len(a), Weight)
        BY <1>3, <1>5
    <3>5. PICK z : z = h[i - 1]
        OBVIOUS
    <3>6. /\ z \in Partial(Len(a) + Len(a), i + Len(a))
          /\ Makes(z, Len(a) + Len(a), A * A - (A - f[i - 1]) * (A - f[i - 1]), Weight)
        BY <3>2, <3>3, <3>5
    <3>7. i \in 1..Len(a)
        BY <2>1
    <3>8. Makes(SquareRow(z, i, a), Len(a) + Len(a), A * A - (A - f[i]) * (A - f[i]), Weight)
        BY <3>4, <3>6, <3>7, SquareRowValue
    <3>9. Makes(h[i], m, T(i), Weight)
        BY <3>1, <3>5, <3>8, <2>4, <2>5
    <3> QED
        BY <3>9, <2>1 DEF i
  <2>6. CASE ~same
    <3>1. PICK z : z = h[i - 1]
        OBVIOUS
    <3>2. z \in Partial(m, i - 1 + Len(b))
      <4>1. i - 1 + Len(b) + 0 = i - 1 + Len(b)
          BY <2>1, <1>1
      <4> QED
          BY <4>1, <3>1, <2>3, <2>6
    <3>3. PICK F \in Int : F = f[i - 1]
        BY <2>1, <1>6
    <3>4. Makes(z, m, F * B, Weight)
        BY <3>1, <3>3, <2>2, <2>6
    <3>5. PICK x \in Digit : x = a[i]
        BY <2>1
    <3>6. i + Len(b) <= m
        BY <2>1, <1>1
    <3>7. Makes(AddRow(z, i, x, b), m, F * B + Weight[i - 1] * (x * ValueOf(b)), Weight)
        BY <3>2, <3>4, <3>6, <2>1, <1>1, AddRowValue
    <3>8. F * B + Weight[i - 1] * (x * B) = f[i] * B
      <4>1. PICK p \in Nat : p = Weight[i - 1]
          BY <2>1, WeightAt
      <4>2. f[i] = F + x * p
          BY <4>1, <3>3, <3>5, <2>1, <1>7
      <4>3. x \in Nat
          BY DigitIs
      <4>4. (F + x * p) * B = F * B + p * (x * B)
          BY <4>3
      <4> QED
          BY <4>1, <4>2, <4>4
    <3>9. Makes(h[i], m, T(i), Weight)
        BY <3>1, <3>5, <3>7, <3>8, <2>4, <2>6, <1>4
    <3> QED
        BY <3>9, <2>1 DEF i
  <2> QED
      BY <2>5, <2>6
<1> HIDE DEF S
<1>10. n \in S
  <2>1. \A j \in 0..n : j \in S
    <3>1. 0 \in Int /\ n \in Int /\ 0 <= n
        BY <1>1
    <3>2. \A j \in 0..n - 1 : j \in S => j + 1 \in S
        BY <1>9
    <3> HIDE DEF n
    <3> QED
        BY <3>1, <3>2, <1>8, Up
  <2> QED
      BY <2>1, <1>1
<1>11. T(n) = A * B
  <2>1. f[n] = A
      BY <1>3, <1>5
  <2>2. CASE same
    <3>1. A = B
        BY <2>2, <1>4, <1>5
    <3>2. A * A - (A - A) * (A - A) = A * A
        OBVIOUS
    <3> QED
        BY <3>1, <3>2, <2>1, <2>2
  <2>3. CASE ~same
      BY <2>1, <2>3
  <2> QED
      BY <2>2, <2>3
<1>12. Makes(h[n], m, A * B, Weight)
    BY <1>10, <1>11 DEF S
<1>13. PICK z : z = h[n]
    OBVIOUS
<1>14. z \in Seq(Digit) /\ Len(z) = m
  <2>1. \A t \in [1..m -> Digit] : t \in Seq(Digit) /\ Len(t) = m
      BY <1>1
  <2>2. n \in 0..n
      BY <1>1
  <2>3. z \in [1..m -> Digit]
      BY <2>2, <1>2, <1>13 DEF Rows, Partial
  <2> QED
      BY <2>1, <2>3
<1>15. ValueOf(z) = A * B
  <2>1. Makes(z, Len(z), A * B, Weight)
      BY <1>12, <1>13, <1>14
  <2>2. \A k \in 1..Len(z) : z[k] = z[k]
      OBVIOUS
  <2> QED
      BY <2>1, <2>2, <1>14, MakesValue
<1> QED
    BY <1>2, <1>4, <1>5, <1>13, <1>14, <1>15, NormalizeValue

\* int_mul multiplies, and squares when it is given one object twice.
LEMMA MulNumber ==
    ASSUME NEW a, NEW b, NEW same \in BOOLEAN, Integer(a), Integer(b), same => a = b
    PROVE  Integer(int_mul(a, b, same)) /\ Number(int_mul(a, b, same)) = Number(a) * Number(b)
<1>1. /\ a.v \in Seq(Digit) /\ Vector(a.v) /\ a.neg \in BOOLEAN /\ ValueOf(a.v) \in Nat
      /\ Number(a) = IF a.neg THEN -ValueOf(a.v) ELSE ValueOf(a.v)
    BY IntegerIs
<1>2. /\ b.v \in Seq(Digit) /\ Vector(b.v) /\ b.neg \in BOOLEAN /\ ValueOf(b.v) \in Nat
      /\ Number(b) = IF b.neg THEN -ValueOf(b.v) ELSE ValueOf(b.v)
    BY IntegerIs
<1>3. same => a.v = b.v
    OBVIOUS
<1>4. PICK x : x = x_mul(a.v, b.v, same)
    OBVIOUS
<1>5. Vector(x) /\ ValueOf(x) = ValueOf(a.v) * ValueOf(b.v)
    BY <1>1, <1>2, <1>3, <1>4, MulVector, MulValue
<1> DEFINE s == a.neg # b.neg
<1>6. int_mul(a, b, same) = Make(s, x)
    BY <1>4 DEF int_mul
<1>7. s \in BOOLEAN /\ (s <=> ~ (a.neg <=> b.neg))
    BY <1>1, <1>2
<1> HIDE DEF s
<1>8. Integer(Make(s, x)) /\ Number(Make(s, x)) = IF s THEN -ValueOf(x) ELSE ValueOf(x)
    BY <1>5, <1>7, IntegerMade
<1>9. Number(Make(s, x)) = Number(a) * Number(b)
  <2>1. PICK A \in Nat : A = ValueOf(a.v)
      BY <1>1
  <2>2. PICK B \in Nat : B = ValueOf(b.v)
      BY <1>2
  <2>3. ValueOf(x) = A * B /\ A * B \in Int
      BY <2>1, <2>2, <1>5
  <2>4. (-A) * (-B) = A * B /\ (-A) * B = -(A * B) /\ A * (-B) = -(A * B)
      OBVIOUS
  <2>5. CASE a.neg /\ b.neg
      BY <2>1, <2>2, <2>3, <2>4, <2>5, <1>1, <1>2, <1>7, <1>8
  <2>6. CASE a.neg /\ ~b.neg
      BY <2>1, <2>2, <2>3, <2>4, <2>6, <1>1, <1>2, <1>7, <1>8
  <2>7. CASE ~a.neg /\ b.neg
      BY <2>1, <2>2, <2>3, <2>4, <2>7, <1>1, <1>2, <1>7, <1>8
  <2>8. CASE ~a.neg /\ ~b.neg
      BY <2>1, <2>2, <2>3, <2>8, <1>1, <1>2, <1>7, <1>8
  <2> QED
      BY <2>5, <2>6, <2>7, <2>8
<1> QED
    BY <1>6, <1>8, <1>9

-----------------------------------------------------------------------------
(* Shifts and short division *)

\* A multiple of the digits is the multiple of the number.
LEMMA MakesScaled ==
    ASSUME NEW b, NEW p, Weights(p, b), NEW n \in Nat, NEW s \in Int,
           NEW a, NEW e, \A k \in 1..n : a[k] \in Int /\ e[k] = s * a[k],
           NEW x, Makes(a, n, x, p)
    PROVE  Makes(e, n, s * x, p)
<1>1. \A k \in 1..n : a[k] \in Int /\ a[k] \in Int /\ e[k] = s * a[k] + 0 * a[k]
  <2> TAKE k \in 1..n
  <2>1. a[k] \in Int /\ e[k] = s * a[k]
      OBVIOUS
  <2>2. PICK y, z : y = a[k] /\ z = s * a[k]
      OBVIOUS
  <2>3. y \in Int /\ z \in Int
      BY <2>1, <2>2
  <2>4. z = z + 0 * y
      BY <2>3
  <2> QED
      BY <2>1, <2>2, <2>4
<1>2. Combined(e, s, a, 0, a, n)
    BY <1>1 DEF Combined
<1>3. Makes(e, n, s * x + 0 * x, p)
  <2>1. 0 \in Int
      OBVIOUS
  <2> QED
      BY <2>1, <1>2, MakesAdd
<1>4. x \in Int
    BY MakesWhole
<1>5. s * x + 0 * x = s * x
  <2>1. PICK z : z = s * x
      OBVIOUS
  <2>2. z \in Int
      BY <2>1, <1>4
  <2>3. z + 0 * x = z
      BY <2>2, <1>4
  <2> QED
      BY <2>1, <2>3
<1> QED
    BY <1>3, <1>5

\* Digits shifted left within their places: the number times a power of two, less what leaves the top.
LEMMA LeftValue ==
    ASSUME NEW a \in Seq(Digit), NEW e \in 0..SHIFT
    PROVE  ValueOf(v_lshift(a, e)) = 2^e * ValueOf(a) - v_lshift_carry(a, e) * Weight[Len(a)]
<1> DEFINE n == Len(a)
           D == 2^e
           x == v_lshift(a, e)
           c == [k \in 0..n |-> (At(a, k) * D) \div BASE]
           t == [k \in 1..n |-> D * a[k]]
<1>1. n \in Nat /\ DOMAIN a = 1..n /\ 0 \in 0..n /\ n \in 0..n
    OBVIOUS
<1>2. D \in Nat
    BY Halves
<1>3. \A k \in 0..n : At(a, k) \in Digit /\ At(a, k) \in Nat
  <2> TAKE k \in 0..n
  <2>1. k \in Int
      BY <1>1
  <2> QED
      BY <2>1, AtDigit
<1>4. \A k \in 1..n : a[k] = At(a, k) /\ a[k] \in Nat
  <2>1. \A k \in 1..n : a[k] = At(a, k)
      BY <1>1 DEF At
  <2> QED
      BY <2>1, <1>1, <1>3
<1>5. \A k \in 1..n : x[k] = ((a[k] * D) % BASE) + c[k - 1]
  <2> TAKE k \in 1..n
  <2>1. k - 1 \in 0..n
      BY <1>1
  <2> QED
      BY <2>1, <1>1 DEF v_lshift
<1>6. \A k \in 0..n : c[k] = (At(a, k) * D) \div BASE
    OBVIOUS
<1>7. \A k \in 1..n : t[k] = D * a[k]
    OBVIOUS
<1>8. Len(x) = n /\ x \in Seq(Digit)
    BY LeftDigits
<1> HIDE DEF n, D, x, c, t
<1>9. \A k \in 0..n : c[k] \in Int
  <2> TAKE k \in 0..n
  <2>1. At(a, k) * D \in Int
      BY <1>2, <1>3
  <2>2. (At(a, k) * D) \div BASE \in Int
      BY <2>1, Remainder
  <2> QED
      BY <2>2, <1>6
<1>10. \A k \in 1..n : t[k] \in Int /\ x[k] = t[k] + c[k - 1] - BASE * c[k]
  <2> TAKE k \in 1..n
  <2>1. k \in 0..n /\ k - 1 \in 0..n
      BY <1>1
  <2>2. PICK y : y = a[k] * D
      OBVIOUS
  <2>3. y \in Int /\ t[k] = y
      BY <2>2, <1>2, <1>4, <1>7
  <2>4. c[k] = y \div BASE /\ c[k] \in Int /\ c[k - 1] \in Int
      BY <2>1, <2>2, <1>4, <1>6, <1>9
  <2>5. x[k] = (y % BASE) + c[k - 1]
      BY <2>2, <1>5
  <2>6. y = BASE * (y \div BASE) + (y % BASE) /\ y % BASE \in 0..MASK
      BY <2>3, Remainder
  <2>7. PICK g, m : g = BASE * (y \div BASE) /\ m = y % BASE
      OBVIOUS
  <2>8. g \in Int /\ m \in Int
      BY <2>4, <2>6, <2>7, DigitSizes
  <2>9. x[k] = m + c[k - 1] /\ y = g + m /\ BASE * c[k] = g
      BY <2>4, <2>5, <2>6, <2>7
  <2> QED
      BY <2>3, <2>4, <2>8, <2>9
<1>11. Passes(x, t, c, n, BASE)
    BY <1>9, <1>10 DEF Passes
<1>12. Makes(t, n, D * ValueOf(a), Weight)
  <2>1. Makes(a, n, ValueOf(a), Weight)
      BY ValueMakes DEF n
  <2>2. \A k \in 1..n : a[k] \in Int /\ t[k] = D * a[k]
      BY <1>4, <1>7
  <2>3. D \in Int
      BY <1>2
  <2> QED
      BY <2>1, <2>2, <2>3, <1>1, MakesScaled, WeightIs
<1>13. PICK y : y = D * ValueOf(a)
    OBVIOUS
<1>14. Makes(x, n, y + c[0] - c[n] * Weight[n], Weight)
  <2>1. Makes(t, n, y, Weight)
      BY <1>12, <1>13
  <2> QED
      BY <2>1, <1>1, <1>11, MakesHandedOn, WeightIs
<1>15. c[0] = 0
  <2>1. At(a, 0) = 0
      BY <1>1 DEF At
  <2>2. 0 * D = 0
      BY <1>2
  <2>3. 0 \div BASE = 0
    <3>1. BASE \in Nat \ {0} /\ 0 \in Int
        BY DigitSizes
    <3>2. 0 <= 0 /\ 0 < BASE /\ 0 = BASE * 0 + 0
        BY <3>1
    <3> QED
        BY <3>1, <3>2, Quotient
  <2> QED
      BY <2>1, <2>2, <2>3, <1>1, <1>6
<1>16. c[n] = v_lshift_carry(a, e)
  <2>1. CASE a = <<>>
    <3>1. n = 0
        BY <2>1 DEF n
    <3> QED
        BY <2>1, <3>1, <1>15 DEF v_lshift_carry
  <2>2. CASE a # <<>>
    <3>1. n \in 1..n
        BY <2>2, EmptySeq DEF n
    <3>2. c[n] = (a[n] * D) \div BASE
        BY <3>1, <1>1, <1>4, <1>6
    <3> QED
        BY <3>2, <2>2 DEF v_lshift_carry, n, D
  <2> QED
      BY <2>1, <2>2
<1>17. y \in Int /\ c[n] * Weight[n] \in Int
  <2>1. ValueOf(a) \in Nat
      BY ValueBelow
  <2>2. c[n] \in Int /\ Weight[n] \in Int
      BY <1>1, <1>9, WeightAt
  <2> QED
      BY <2>1, <2>2, <1>2, <1>13
<1>18. ValueOf(x) = y + c[0] - c[n] * Weight[n]
  <2>1. PICK j : j = y + c[0] - c[n] * Weight[n]
      OBVIOUS
  <2>2. Makes(x, Len(x), j, Weight) /\ \A k \in 1..Len(x) : x[k] = x[k]
      BY <2>1, <1>8, <1>14
  <2> QED
      BY <2>1, <2>2, <1>8, MakesValue
<1>19. ValueOf(x) = y - c[n] * Weight[n]
    BY <1>15, <1>17, <1>18
<1> QED
    BY <1>13, <1>16, <1>19 DEF x, D, n

\* Vectors of zeros, and of one digit.
LEMMA ZerosValue ==
    ASSUME NEW n \in Nat
    PROVE  /\ [i \in 1..n |-> 0] \in Seq(Digit) /\ Len([i \in 1..n |-> 0]) = n
           /\ ValueOf([i \in 1..n |-> 0]) = 0
<1> DEFINE z == [i \in 1..n |-> 0]
<1>1. 0 \in Digit
    BY DigitSizes DEF Digit
<1>2. z \in Seq(Digit) /\ Len(z) = n
    BY <1>1
<1>3. \A k \in 1..n : z[k] = 0
    OBVIOUS
<1> HIDE DEF z
<1>4. Makes(z, n, 0, Weight)
    BY <1>3, MakesZero, WeightIs
<1>5. ValueOf(z) = 0
  <2>1. Makes(z, Len(z), 0, Weight) /\ \A k \in 1..Len(z) : z[k] = z[k]
      BY <1>2, <1>4
  <2> QED
      BY <2>1, <1>2, MakesValue
<1> QED
    BY <1>2, <1>5 DEF z

LEMMA SingleValue == ASSUME NEW x \in Digit PROVE <<x>> \in Seq(Digit) /\ Len(<<x>>) = 1 /\ ValueOf(<<x>>) = x
<1>1. <<x>> \in Seq(Digit) /\ Len(<<x>>) = 1 /\ Len(<<x>>) <= 1
    OBVIOUS
<1>2. At(<<x>>, 1) = x
    BY DEF At
<1> QED
    BY <1>1, <1>2, OneDigitValue

\* Whole digits and bits within a digit, as powers of two.
LEMMA WordPower ==
    ASSUME NEW n \in Nat
    PROVE  2^n = Weight[n \div SHIFT] * 2^(n % SHIFT)
<1>1. n \div SHIFT \in Nat /\ n % SHIFT \in Nat
  <2>1. n % SHIFT \in 0..SHIFT - 1 /\ n \div SHIFT \in Nat
      BY WordShift
  <2> QED
      BY <2>1, DigitSizes
<1>2. n = SHIFT * (n \div SHIFT) + (n % SHIFT)
  <2>1. SHIFT \in Nat \ {0} /\ n \in Int
      BY DigitSizes
  <2> QED
      BY <2>1, Division
<1>3. PICK i, j : i = n \div SHIFT /\ j = n % SHIFT
    OBVIOUS
<1>4. i \in Nat /\ j \in Nat /\ n = SHIFT * i + j
    BY <1>1, <1>2, <1>3
<1>5. SHIFT * i \in Nat
    BY <1>4, DigitSizes
<1>6. 2^(SHIFT * i + j) = 2^(SHIFT * i) * 2^j
    BY <1>4, <1>5, TwoPowers
<1>7. Weight[i] = 2^(SHIFT * i)
    BY <1>4, WeightAt DEF Place
<1> QED
    BY <1>3, <1>4, <1>6, <1>7

\* int_lshift multiplies by the power of two.
LEMMA LshiftValue ==
    ASSUME NEW a \in Seq(Digit), NEW n \in Nat
    PROVE  ValueOf(int_lshift(a, n)) = ValueOf(a) * 2^n
<1> DEFINE e == n % SHIFT
           word == n \div SHIFT
           y == v_lshift(a, e)
           g == v_lshift_carry(a, e)
           top == IF e = 0 THEN <<>> ELSE <<g>>
           zeros == [i \in 1..word |-> 0]
           x == zeros \o y \o top
<1>1. e \in 0..SHIFT /\ word \in Nat
    BY WordShift
<1>2. 2^n = Weight[word] * 2^e
    BY WordPower
<1> HIDE DEF e, word
<1>3. y \in Seq(Digit) /\ Len(y) = Len(a) /\ g \in Digit /\ Len(a) \in Nat
    BY <1>1, LeftDigits
<1>4. ValueOf(y) = 2^e * ValueOf(a) - g * Weight[Len(a)]
    BY <1>1, LeftValue
<1>5. int_lshift(a, n) = int_normalize(x)
    BY DEF int_lshift, e, word
<1> HIDE DEF y, g
<1>6. top \in Seq(Digit) /\ ValueOf(top) = g
  <2>1. CASE e = 0
    <3>1. top = <<>>
        BY <2>1
    <3>2. g = 0
      <4>1. \A z \in Digit : (z * 2^e) \div BASE = 0
        <5> TAKE z \in Digit
        <5>1. z \in Int /\ 0 <= z /\ z < BASE /\ BASE \in Nat \ {0}
            BY DigitIs, DigitSizes
        <5>2. z * 2^e = z
          <6>1. 2^0 = 1
              BY TwoPowers
          <6> QED
              BY <6>1, <5>1, <2>1
        <5>3. z = BASE * 0 + z
            BY <5>1
        <5> QED
            BY <5>1, <5>2, <5>3, Quotient
      <4>2. a # <<>> => a[Len(a)] \in Digit
          BY EmptySeq
      <4> QED
          BY <4>1, <4>2 DEF g, v_lshift_carry
    <3> QED
        BY <3>1, <3>2, NothingValue
  <2>2. CASE e # 0
      BY <2>2, <1>3, SingleValue
  <2> QED
      BY <2>1, <2>2
<1> HIDE DEF top
<1>7. zeros \in Seq(Digit) /\ Len(zeros) = word /\ ValueOf(zeros) = 0
    BY <1>1, ZerosValue
<1> HIDE DEF zeros
<1>8. /\ zeros \o y \in Seq(Digit) /\ Len(zeros \o y) = word + Len(a)
      /\ ValueOf(zeros \o y) = 0 + Weight[word] * ValueOf(y)
    BY <1>3, <1>7, JoinedValue
<1> DEFINE s == zeros \o y
<1>9. x = s \o top
    OBVIOUS
<1> HIDE DEF s, x
<1>10. x \in Seq(Digit) /\ ValueOf(x) = ValueOf(s) + Weight[Len(s)] * ValueOf(top)
    BY <1>6, <1>8, <1>9, JoinedValue DEF s
<1>11. Weight[word + Len(a)] = Weight[word] * Weight[Len(a)]
    BY <1>1, <1>3, WeightIs, WeightsSum
<1>12. ValueOf(x) = (0 + Weight[word] * ValueOf(y)) + (Weight[word] * Weight[Len(a)]) * g
    BY <1>6, <1>8, <1>10, <1>11 DEF s
<1>13. PICK p, u, V, D, Y : p = Weight[word] /\ u = Weight[Len(a)] /\ V = ValueOf(a) /\ D = 2^e /\ Y = ValueOf(y)
    OBVIOUS
<1>14. p \in Int /\ u \in Int /\ V \in Int /\ D \in Int /\ g \in Int
  <2>1. Weight[word] \in Int /\ Weight[Len(a)] \in Int
      BY <1>1, <1>3, WeightAt
  <2>2. ValueOf(a) \in Nat
      BY ValueBelow
  <2>3. 2^e \in Nat
      BY <1>1, Halves
  <2>4. g \in Nat
      BY <1>3, DigitIs
  <2> QED
      BY <2>1, <2>2, <2>3, <2>4, <1>13
<1>15. Y = D * V - g * u /\ ValueOf(x) = (0 + p * Y) + (p * u) * g /\ 2^n = p * D
    BY <1>2, <1>4, <1>12, <1>13
<1>16. p * (D * V - g * u) = V * (p * D) - (p * u) * g
    BY <1>14
<1>17. V * (p * D) \in Int /\ (p * u) * g \in Int
    BY <1>14
<1>18. ValueOf(x) = V * (p * D)
    BY <1>15, <1>16, <1>17
<1>19. ValueOf(x) = ValueOf(a) * 2^n
    BY <1>13, <1>15, <1>18
<1> QED
    BY <1>5, <1>10, <1>19, NormalizeValue

LEMMA LshiftNumber ==
    ASSUME NEW a, Integer(a), NEW n \in Nat
    PROVE  /\ Integer(Make(a.neg, int_lshift(a.v, n)))
           /\ Number(Make(a.neg, int_lshift(a.v, n))) = Number(a) * 2^n
<1>1. /\ a.v \in Seq(Digit) /\ a.neg \in BOOLEAN /\ ValueOf(a.v) \in Nat
      /\ Number(a) = IF a.neg THEN -ValueOf(a.v) ELSE ValueOf(a.v)
    BY IntegerIs
<1>2. Vector(int_lshift(a.v, n))
    BY <1>1, LshiftVector
<1> DEFINE y == Make(a.neg, int_lshift(a.v, n))
<1>3. Integer(y) /\ Number(y) = IF a.neg THEN -ValueOf(int_lshift(a.v, n)) ELSE ValueOf(int_lshift(a.v, n))
    BY <1>1, <1>2, IntegerMade
<1>4. ValueOf(int_lshift(a.v, n)) = ValueOf(a.v) * 2^n
    BY <1>1, LshiftValue
<1> HIDE DEF y
<1>5. Number(y) = Number(a) * 2^n
  <2>1. PICK V, P, X, Y : V = ValueOf(a.v) /\ P = 2^n /\ X = Number(a) /\ Y = Number(y)
      OBVIOUS
  <2>2. V \in Int /\ P \in Int /\ X = (IF a.neg THEN -V ELSE V) /\ Y = (IF a.neg THEN -(V * P) ELSE V * P)
    <3>1. 2^n \in Nat
        BY Powers
    <3> QED
        BY <3>1, <2>1, <1>1, <1>3, <1>4
  <2>3. (-V) * P = -(V * P)
      BY <2>2
  <2>4. Y = X * P
      BY <2>2, <2>3
  <2> QED
      BY <2>1, <2>4
<1> QED
    BY <1>3, <1>5 DEF y

\* Digits shifted right within their places: what is below the lowest place is dropped.
RightPart(y, z, e) == y \div 2^e + ((z % 2^e) * 2^(SHIFT - e))

\* A digit shifted to the right, with the low bits of the next one.
LEMMA RightPartIs ==
    ASSUME NEW y \in Nat, NEW z \in Nat, NEW e \in 0..SHIFT
    PROVE  2^e * RightPart(y, z, e) = y - (y % 2^e) + BASE * (z % 2^e) /\ y % 2^e \in 0..2^e - 1 /\ z % 2^e \in 0..2^e - 1
<1>1. PICK D, k : D = 2^e /\ k = 2^(SHIFT - e)
    OBVIOUS
<1>2. D \in Nat \ {0} /\ k \in Nat \ {0} /\ D * k = BASE
    BY <1>1, Halves
<1>3. y \div D \in Int /\ y % D \in 0..D - 1 /\ y = D * (y \div D) + (y % D)
  <2>1. y \in Int
      OBVIOUS
  <2> QED
      BY <2>1, <1>2, Division
<1>4. z % D \in 0..D - 1
  <2>1. z \in Int
      OBVIOUS
  <2> QED
      BY <2>1, <1>2, Division
<1>5. PICK g, m, s, x : g = y \div D /\ m = y % D /\ s = z % D /\ x = RightPart(y, z, e)
    OBVIOUS
<1>6. x = g + s * k
    BY <1>1, <1>5 DEF RightPart
<1>7. g \in Int /\ m \in Int /\ s \in Int /\ y = D * g + m
    BY <1>2, <1>3, <1>4, <1>5
<1>8. D * (g + s * k) = D * g + (D * k) * s
    BY <1>2, <1>7
<1>9. D * g \in Int /\ BASE * s \in Int
    BY <1>2, <1>7, DigitSizes
<1>10. D * x = y - m + BASE * s
    BY <1>2, <1>6, <1>7, <1>8, <1>9
<1> QED
    BY <1>1, <1>3, <1>4, <1>5, <1>10

\* v_rshift divides by the power of two, exactly where no bit is lost.
LEMMA RightValue ==
    ASSUME NEW a \in Seq(Digit), NEW e \in 0..SHIFT
    PROVE  /\ v_rshift(a, e) \in Seq(Digit) /\ Len(v_rshift(a, e)) = Len(a)
           /\ ValueOf(v_rshift(a, e)) \in Nat
           /\ 2^e * ValueOf(v_rshift(a, e)) = ValueOf(a) - (At(a, 1) % 2^e)
<1> DEFINE n == Len(a)
           D == 2^e
           x == v_rshift(a, e)
           c == [k \in 0..n |-> -(At(a, k + 1) % D)]
           t == [k \in 1..n |-> D * x[k]]
<1>1. n \in Nat /\ DOMAIN a = 1..n /\ 0 \in 0..n /\ n \in 0..n
    OBVIOUS
<1>2. D \in Nat \ {0} /\ D \in Nat /\ D \in Int
    BY Halves
<1>3. \A k \in 0..n : At(a, k + 1) \in Digit /\ At(a, k + 1) \in Nat
  <2> TAKE k \in 0..n
  <2>1. k + 1 \in Int
      BY <1>1
  <2> QED
      BY <2>1, AtDigit
<1>4. \A k \in 1..n : a[k] = At(a, k) /\ a[k] \in Nat
  <2> TAKE k \in 1..n
  <2>1. a[k] = At(a, k)
      BY <1>1 DEF At
  <2>2. k \in Int
      BY <1>1
  <2> QED
      BY <2>1, <2>2, AtDigit
<1>5. \A k \in 1..n : x[k] = RightPart(a[k], At(a, k + 1), e)
    BY <1>1 DEF v_rshift, RightPart
<1>6. \A k \in 0..n : c[k] = -(At(a, k + 1) % D)
    OBVIOUS
<1>7. \A k \in 1..n : t[k] = D * x[k]
    OBVIOUS
<1>8. Len(x) = n /\ x \in Seq(Digit)
  <2>1. x \in Seq(Digit)
      BY RightDigits
  <2>2. DOMAIN x = 1..n
      BY <1>1 DEF v_rshift
  <2>3. DOMAIN x = 1..Len(x) /\ Len(x) \in Nat
      BY <2>1
  <2> HIDE DEF x, n
  <2> QED
      BY <2>1, <2>2, <2>3, <1>1
<1>9. ValueOf(x) \in Nat /\ ValueOf(a) \in Nat
    BY <1>8, ValueBelow
<1>10. \A k \in 0..n : At(a, k + 1) % D \in Int /\ c[k] \in Int
  <2> TAKE k \in 0..n
  <2>1. At(a, k + 1) \in Int
      BY <1>3
  <2>2. At(a, k + 1) % D \in 0..D - 1
      BY <2>1, <1>2, Division
  <2>3. PICK z : z = At(a, k + 1) % D
      OBVIOUS
  <2>4. z \in Int
      BY <2>2, <2>3, <1>2
  <2>5. c[k] = -z
      BY <2>3, <1>6
  <2> QED
      BY <2>3, <2>4, <2>5
<1>11. \A k \in 1..n : x[k] \in Int
    BY <1>8, EachDigit, DigitIs
<1> HIDE DEF n, x, c, t
<1>12. \A k \in 1..n : a[k] \in Int /\ t[k] = a[k] + c[k - 1] - BASE * c[k]
  <2> TAKE k \in 1..n
  <2>1. k \in 0..n /\ k - 1 \in 0..n /\ (k - 1) + 1 = k
      BY <1>1
  <2>2. PICK y, z, g, m : y = a[k] /\ z = At(a, k + 1) /\ g = y % D /\ m = z % D
      OBVIOUS
  <2>3. y \in Nat /\ z \in Nat
      BY <2>1, <2>2, <1>3, <1>4
  <2>4. /\ 2^e * RightPart(y, z, e) = y - (y % 2^e) + BASE * (z % 2^e)
        /\ y % 2^e \in 0..2^e - 1 /\ z % 2^e \in 0..2^e - 1
      BY <2>3, RightPartIs
  <2>5. g \in Int /\ m \in Int
      BY <2>2, <2>4, <1>2
  <2>6. t[k] = y - g + BASE * m
      BY <2>2, <2>4, <1>5, <1>7
  <2>7. c[k - 1] = -g /\ c[k] = -m
    <3>1. c[k - 1] = -(At(a, (k - 1) + 1) % D)
        BY <2>1, <1>6
    <3>2. At(a, (k - 1) + 1) = y
        BY <2>1, <2>2, <1>4
    <3>3. c[k] = -(At(a, k + 1) % D)
        BY <2>1, <1>6
    <3> QED
        BY <3>1, <3>2, <3>3, <2>2
  <2>8. BASE * m \in Int /\ BASE * (-m) = -(BASE * m)
      BY <2>5, DigitSizes
  <2>9. t[k] = y + c[k - 1] - BASE * c[k]
      BY <2>3, <2>5, <2>6, <2>7, <2>8
  <2> QED
      BY <2>2, <2>3, <2>9
<1>13. Passes(t, a, c, n, BASE)
    BY <1>10, <1>12 DEF Passes
<1>14. Makes(t, n, D * ValueOf(x), Weight)
  <2>1. Makes(x, n, ValueOf(x), Weight)
      BY <1>8, ValueMakes
  <2>2. \A k \in 1..n : x[k] \in Int /\ t[k] = D * x[k]
      BY <1>7, <1>11
  <2> HIDE DEF D
  <2> QED
      BY <2>1, <2>2, <1>1, <1>2, MakesScaled, WeightIs
<1>15. Makes(t, n, ValueOf(a) + c[0] - c[n] * Weight[n], Weight)
  <2>1. Makes(a, n, ValueOf(a), Weight)
      BY ValueMakes DEF n
  <2> QED
      BY <2>1, <1>1, <1>13, MakesHandedOn, WeightIs
<1>16. D * ValueOf(x) = ValueOf(a) + c[0] - c[n] * Weight[n]
  <2>1. PICK i, j : i = D * ValueOf(x) /\ j = ValueOf(a) + c[0] - c[n] * Weight[n]
      OBVIOUS
  <2>2. Makes(t, n, i, Weight) /\ Makes(t, n, j, Weight)
      BY <2>1, <1>14, <1>15
  <2>3. \A k \in 1..n : t[k] = t[k]
      OBVIOUS
  <2> QED
      BY <2>1, <2>2, <2>3, <1>1, MakesSame
<1>17. c[n] = 0
  <2>1. At(a, n + 1) = 0
      BY <1>1 DEF At
  <2>2. 0 % D = 0
    <3>1. 0 \in Int /\ 0 <= 0 /\ 0 < D /\ 0 = D * 0 + 0
        BY <1>2
    <3> HIDE DEF D
    <3> QED
        BY <3>1, <1>2, Quotient
  <2>3. c[n] = -(At(a, n + 1) % D)
      BY <1>1, <1>6
  <2> QED
      BY <2>1, <2>2, <2>3
<1>18. c[0] = -(At(a, 1) % D) /\ At(a, 1) % D \in Int
  <2>1. c[0] = -(At(a, 0 + 1) % D) /\ At(a, 0 + 1) % D \in Int
      BY <1>1, <1>6, <1>10
  <2>2. 0 + 1 = 1
      OBVIOUS
  <2> QED
      BY <2>1, <2>2
<1>19. D * ValueOf(x) = ValueOf(a) - (At(a, 1) % D)
  <2>1. PICK g, u : g = At(a, 1) % D /\ u = Weight[n]
      OBVIOUS
  <2>2. u \in Int /\ g \in Int
      BY <2>1, <1>1, <1>18, WeightAt
  <2>3. 0 * u = 0 /\ c[0] = -g
      BY <2>1, <2>2, <1>18
  <2> QED
      BY <2>1, <2>2, <2>3, <1>9, <1>16, <1>17
<1> QED
    BY <1>8, <1>9, <1>19 DEF x, n, D

\* A number divided in two steps.
LEMMA TwoQuotients ==
    ASSUME NEW P \in Nat \ {0}, NEW D \in Nat \ {0}, NEW L \in Nat, L < P, NEW g \in Nat, g < D,
           NEW X \in Int, NEW U \in Int, U = D * X + g, NEW V \in Int, V = L + P * U
    PROVE  V \div (P * D) = X
<1>1. P * U = (P * D) * X + P * g
    BY Zenon, SMT
<1>2. P * D \in Nat \ {0} /\ P * g \in Int /\ (P * D) * X \in Int
  <2>1. P * D \in Nat
      OBVIOUS
  <2>2. P * 1 <= P * D
      BY Monotone
  <2>3. P * g \in Int /\ (P * D) * X \in Int
      OBVIOUS
  <2> QED
      BY <2>1, <2>2, <2>3
<1>3. P * (g + 1) <= P * D
  <2>1. P \in Nat /\ g + 1 \in Int /\ D \in Int /\ g + 1 <= D
      OBVIOUS
  <2> QED
      BY <2>1, Monotone
<1>4. P * 0 <= P * g
  <2>1. P \in Nat /\ 0 \in Int /\ g \in Int /\ 0 <= g
      OBVIOUS
  <2> QED
      BY <2>1, Monotone
<1>5. P * (g + 1) = P * g + P /\ P * 0 = 0
    OBVIOUS
<1>6. PICK z, n, y : z = P * g + L /\ n = P * D /\ y = (P * D) * X
    OBVIOUS
<1>7. z \in Int /\ 0 <= z /\ z < n /\ n \in Nat \ {0} /\ V = y + z /\ y = n * X
    BY <1>1, <1>2, <1>3, <1>4, <1>5, <1>6
<1>8. V = n * X + z
    BY <1>7
<1>9. V \div n = X
    BY <1>7, <1>8, Quotient
<1> QED
    BY <1>6, <1>9

LEMMA WeightsGrow ==
    ASSUME NEW m \in Nat, NEW n \in Nat, m <= n
    PROVE  Weight[m] <= Weight[n]
<1>1. PICK k : k = n - m
    OBVIOUS
<1>2. k \in Nat /\ n = m + k
    BY <1>1
<1>3. Weight[m + k] = Weight[m] * Weight[k]
    BY <1>2, WeightIs, WeightsSum
<1>4. Weight[m] \in Nat /\ Weight[k] \in Nat \ {0}
    BY <1>2, WeightAt
<1>5. Weight[m] * 1 <= Weight[m] * Weight[k]
  <2>1. 1 \in Int /\ Weight[k] \in Int /\ 1 <= Weight[k]
      BY <1>4
  <2> QED
      BY <2>1, <1>4, Monotone
<1> QED
    BY <1>2, <1>3, <1>4, <1>5

\* What int_rshift computes from the digits above the words it drops is their shift within a place.
LEMMA RshiftIs ==
    ASSUME NEW a \in Seq(Digit), NEW n \in Nat, n \div SHIFT < Len(a)
    PROVE  int_rshift(a, n) = int_normalize(v_rshift(SubSeq(a, (n \div SHIFT) + 1, Len(a)), n % SHIFT))
<1> DEFINE lo == n % SHIFT
           hi == SHIFT - lo
           word == n \div SHIFT
           m == Len(a) - word
           u == SubSeq(a, word + 1, Len(a))
           E(i) == ((a[word + i] \div 2^lo) % 2^hi) + (IF i = m THEN 0 ELSE (a[word + i + 1] * 2^hi) % BASE)
           F(i) == u[i] \div 2^lo + ((At(u, i + 1) % 2^lo) * 2^(SHIFT - lo))
<1>1. lo \in 0..SHIFT /\ word \in Nat /\ Len(a) \in Nat
  <2>1. Len(a) \in Nat
      OBVIOUS
  <2>2. lo \in 0..SHIFT /\ word \in Nat
      BY WordShift
  <2> QED
      BY <2>1, <2>2
<1>2. int_rshift(a, n) = int_normalize([i \in 1..m |-> E(i)])
    BY DEF int_rshift
<1>3. word < Len(a)
    OBVIOUS
<1> HIDE DEF lo, word
<1>4. m \in Nat /\ word \in 0..Len(a)
    BY <1>1, <1>3
<1>5. u \in Seq(Digit) /\ Len(u) = m /\ \A k \in 1..m : u[k] = a[word + k]
    BY <1>4, SplitValue
<1>6. hi \in 0..SHIFT /\ SHIFT - hi = lo
    BY <1>1, DigitSizes
<1> HIDE DEF u, m, hi
<1>7. DOMAIN u = 1..m
    BY <1>5
<1>8. PICK D, k : D = 2^lo /\ k = 2^hi
    OBVIOUS
<1>9. D \in Nat \ {0} /\ k \in Nat \ {0} /\ D * k = BASE
    BY <1>1, <1>8, Halves DEF hi
<1>10. ASSUME NEW i \in 1..m
       PROVE  E(i) = F(i)
  <2>1. u[i] = a[word + i] /\ u[i] \in Digit
      BY <1>5, EachDigit
  <2>2. PICK y, z : y = u[i] /\ z = At(u, i + 1)
      OBVIOUS
  <2>3. y \in Nat /\ y < BASE /\ z \in Nat
    <3>1. i + 1 \in Int
        BY <1>4
    <3>2. z \in Nat
        BY <3>1, <2>2, <1>5, AtDigit
    <3> QED
        BY <3>2, <2>1, <2>2, DigitIs
  <2>4. (y \div D) % k = y \div D
    <3>1. y \div D \in Int /\ y % D \in 0..D - 1 /\ y = D * (y \div D) + (y % D)
      <4>1. y \in Int
          BY <2>3
      <4> QED
          BY <4>1, <1>9, Division
    <3>2. PICK g, r1 : g = y \div D /\ r1 = y % D
        OBVIOUS
    <3>3. g \in Int /\ r1 \in Int /\ 0 <= r1 /\ y = D * g + r1
        BY <3>1, <3>2, <1>9
    <3>4. D * g < D * k
      <4>1. D * g \in Int /\ D * k = BASE /\ D * g <= y
          BY <3>3, <1>9
      <4> QED
          BY <4>1, <2>3, DigitSizes
    <3>5. g < k
        BY <3>3, <3>4, <1>9, Cancels
    <3>6. 0 <= g
      <4>1. D * (0 - 1) < D * g
        <5>1. r1 < D
            BY <3>1, <3>2, <1>9
        <5>2. D * (0 - 1) = 0 - D /\ D * g \in Int
            BY <3>3, <1>9
        <5> QED
            BY <5>1, <5>2, <3>3, <2>3, <1>9
      <4>2. 0 - 1 < g
        <5>1. 0 - 1 \in Int
            OBVIOUS
        <5> QED
            BY <5>1, <4>1, <3>3, <1>9, Cancels
      <4> QED
          BY <4>2, <3>3
    <3>7. g = k * 0 + g /\ 0 \in Int
        BY <3>3, <1>9
    <3>8. g % k = g
        BY <3>3, <3>5, <3>6, <3>7, <1>9, Quotient
    <3> QED
        BY <3>2, <3>8
  <2>5. E(i) = y \div D + (IF i = m THEN 0 ELSE (a[word + i + 1] * k) % BASE)
      BY <2>1, <2>2, <2>4, <1>8
  <2>6. F(i) = y \div D + ((z % D) * k)
      BY <2>2, <1>8 DEF hi
  <2>7. (IF i = m THEN 0 ELSE (a[word + i + 1] * k) % BASE) = (z % D) * k
    <3>1. CASE i = m
      <4>1. z = 0
        <5>1. i + 1 \notin 1..m
            BY <3>1, <1>4
        <5> QED
            BY <5>1, <2>2, <1>7 DEF At
      <4>2. 0 % D = 0
        <5>1. 0 \in Int /\ 0 <= 0 /\ 0 < D /\ 0 = D * 0 + 0
            BY <1>9
        <5> QED
            BY <5>1, <1>9, Quotient
      <4>3. 0 * k = 0
          BY <1>9
      <4> QED
          BY <4>1, <4>2, <4>3, <3>1
    <3>2. CASE i # m
      <4>1. z = a[word + i + 1]
        <5>1. i + 1 \in 1..m
            BY <3>2, <1>4
        <5>2. word + (i + 1) = word + i + 1
            BY <1>1, <1>4
        <5>3. At(u, i + 1) = u[i + 1] /\ u[i + 1] = a[word + (i + 1)]
            BY <5>1, <1>5, <1>7 DEF At
        <5> QED
            BY <5>2, <5>3, <2>2
      <4>2. (z * 2^hi) % BASE = 2^hi * (z % 2^(SHIFT - hi))
          BY <2>3, <1>6, LowPart
      <4>3. (z * k) % BASE = k * (z % D)
          BY <4>2, <1>6, <1>8
      <4>4. k * (z % D) = (z % D) * k
        <5>1. z % D \in 0..D - 1
          <6>1. z \in Int
              BY <2>3
          <6> QED
              BY <6>1, <1>9, Division
        <5>2. PICK g : g = z % D
            OBVIOUS
        <5>3. g \in Int
            BY <5>1, <5>2, <1>9
        <5>4. k * g = g * k
            BY <5>3, <1>9
        <5> QED
            BY <5>2, <5>4
      <4> QED
          BY <4>1, <4>3, <4>4, <3>2
    <3> QED
        BY <3>1, <3>2
  <2> QED
      BY <2>5, <2>6, <2>7
<1> HIDE DEF E, F
<1>11. [i \in 1..m |-> E(i)] = [i \in 1..m |-> F(i)]
    BY <1>10
<1>12. v_rshift(u, lo) = [i \in 1..m |-> F(i)]
    BY <1>7 DEF v_rshift, F
<1> QED
    BY <1>2, <1>11, <1>12 DEF u, lo, word

\* Shifted right by n, the number is divided by 2^n.
LEMMA RshiftValue ==
    ASSUME NEW a \in Seq(Digit), NEW n \in Nat
    PROVE  ValueOf(int_rshift(a, n)) = ValueOf(a) \div 2^n
<1> DEFINE lo == n % SHIFT
           word == n \div SHIFT
<1>1. lo \in 0..SHIFT /\ word \in Nat
    BY WordShift
<1>2. 2^n = Weight[word] * 2^lo
    BY WordPower
<1>3. word < Len(a) => int_rshift(a, n) = int_normalize(v_rshift(SubSeq(a, word + 1, Len(a)), lo))
    BY RshiftIs
<1>4. ~(word < Len(a)) => int_rshift(a, n) = int_normalize(<<>>)
  <2> SUFFICES ASSUME ~(word < Len(a))
               PROVE  int_rshift(a, n) = int_normalize(<<>>)
      OBVIOUS
  <2>1. PICK m : m = Len(a) - word
      OBVIOUS
  <2>2. 1..m = {}
    <3>1. Len(a) \in Nat
        OBVIOUS
    <3>2. m \in Int /\ m <= 0
      <4> HIDE DEF word
      <4> QED
          BY <3>1, <2>1, <1>1
    <3> QED
        BY <3>2
  <2> DEFINE E(i) == ((a[word + i] \div 2^lo) % 2^(SHIFT - lo))
                       + (IF i = m THEN 0 ELSE (a[word + i + 1] * 2^(SHIFT - lo)) % BASE)
  <2>3. int_rshift(a, n) = int_normalize([i \in 1..m |-> E(i)])
      BY <2>1 DEF int_rshift
  <2> HIDE DEF E
  <2>4. [i \in 1..m |-> E(i)] = <<>>
      BY <2>2
  <2> QED
      BY <2>3, <2>4
<1> HIDE DEF lo, word
<1>5. PICK P, D, V : P = Weight[word] /\ D = 2^lo /\ V = ValueOf(a)
    OBVIOUS
<1>6. P \in Nat \ {0} /\ D \in Nat \ {0} /\ V \in Nat /\ V < Place(Len(a)) /\ Len(a) \in Nat
  <2>1. Weight[word] \in Nat \ {0}
      BY <1>1, WeightAt
  <2>2. 2^lo \in Nat \ {0}
      BY <1>1, Halves
  <2>3. ValueOf(a) \in Nat /\ ValueOf(a) < Place(Len(a))
      BY ValueBelow
  <2> QED
      BY <2>1, <2>2, <2>3, <1>5
<1>7. CASE ~(word < Len(a))
  <2>1. Weight[Len(a)] <= P /\ Weight[Len(a)] = Place(Len(a)) /\ Weight[Len(a)] \in Nat
    <3>1. Len(a) <= word
        BY <1>1, <1>6, <1>7
    <3> QED
        BY <3>1, <1>1, <1>5, <1>6, WeightsGrow, WeightAt
  <2>2. P * 1 <= P * D
    <3>1. 1 \in Int /\ D \in Int /\ 1 <= D
        BY <1>6
    <3> QED
        BY <3>1, <1>6, Monotone
  <2>3. PICK N : N = P * D
      OBVIOUS
  <2>4. N \in Nat \ {0} /\ V < N /\ V \in Int /\ 0 <= V
    <3>1. P * D \in Nat /\ P * 1 = P
        BY <1>6
    <3> QED
        BY <3>1, <2>1, <2>2, <2>3, <1>6
  <2>5. V = N * 0 + V
      BY <2>4
  <2>6. V \div N = 0
      BY <2>4, <2>5, Quotient
  <2>7. ValueOf(int_normalize(<<>>)) = 0
    <3>1. <<>> \in Seq(Digit)
        OBVIOUS
    <3> QED
        BY <3>1, NormalizeValue, NothingValue
  <2> QED
      BY <2>3, <2>6, <2>7, <1>2, <1>4, <1>5, <1>7
<1>8. CASE word < Len(a)
  <2> DEFINE b == SubSeq(a, 1, word)
             u == SubSeq(a, word + 1, Len(a))
             x == v_rshift(u, lo)
  <2>1. word \in 0..Len(a)
      BY <1>1, <1>6, <1>8
  <2>2. /\ b \in Seq(Digit) /\ Len(b) = word /\ u \in Seq(Digit)
        /\ ValueOf(a) = ValueOf(b) + Weight[word] * ValueOf(u)
      BY <2>1, SplitValue
  <2> HIDE DEF b, u
  <2>3. /\ x \in Seq(Digit) /\ ValueOf(x) \in Nat
        /\ 2^lo * ValueOf(x) = ValueOf(u) - (At(u, 1) % 2^lo)
      BY <2>2, <1>1, RightValue
  <2> HIDE DEF x
  <2>4. PICK L, g, X, U : L = ValueOf(b) /\ g = At(u, 1) % D /\ X = ValueOf(x) /\ U = ValueOf(u)
      OBVIOUS
  <2>5. L \in Nat /\ L < P
    <3>1. ValueOf(b) \in Nat /\ ValueOf(b) < Place(Len(b))
        BY <2>2, ValueBelow
    <3>2. Place(word) = P
        BY <1>1, <1>5, WeightAt
    <3> QED
        BY <3>1, <3>2, <2>2, <2>4
  <2>6. g \in Nat /\ g < D
    <3>1. At(u, 1) \in Int
      <4>1. 1 \in Int
          OBVIOUS
      <4>2. At(u, 1) \in Nat
          BY <4>1, <2>2, AtDigit
      <4> QED
          BY <4>2
    <3>2. At(u, 1) % D \in 0..D - 1
        BY <3>1, <1>6, Division
    <3> QED
        BY <3>2, <2>4, <1>6
  <2>7. X \in Int /\ U \in Int /\ U = D * X + g
    <3>1. ValueOf(u) \in Nat
        BY <2>2, ValueBelow
    <3>2. D * X = U - g
        BY <2>3, <2>4, <1>5
    <3>3. X \in Int /\ U \in Int /\ D * X \in Int
        BY <3>1, <2>3, <2>4, <1>6
    <3> QED
        BY <3>2, <3>3, <2>6
  <2>8. V \in Int /\ V = L + P * U
      BY <2>2, <2>4, <1>5, <1>6
  <2>9. V \div (P * D) = X
      BY <2>5, <2>6, <2>7, <2>8, <1>6, TwoQuotients
  <2>10. ValueOf(int_normalize(x)) = ValueOf(x)
      BY <2>3, NormalizeValue
  <2> QED
      BY <2>4, <2>9, <2>10, <1>2, <1>3, <1>5, <1>8 DEF x, u
<1> QED
    BY <1>7, <1>8

\* A shift to the right divides, rounding down.
LEMMA FloorComplement ==
    ASSUME NEW D \in Nat \ {0}, NEW x \in Int
    PROVE  -((-x - 1) \div D) - 1 = x \div D
<1>1. PICK y : y = -x - 1
    OBVIOUS
<1>2. y \in Int
    BY <1>1
<1>3. y % D \in 0..D - 1 /\ y \div D \in Int /\ y = D * (y \div D) + (y % D)
    BY <1>2, Division
<1>4. PICK g, m : g = y \div D /\ m = y % D
    OBVIOUS
<1>5. g \in Int /\ m \in Int /\ 0 <= m /\ m < D /\ y = D * g + m
    BY <1>3, <1>4
<1>6. PICK k, e : k = -g - 1 /\ e = D - 1 - m
    OBVIOUS
<1>7. k \in Int /\ e \in Int /\ 0 <= e /\ e < D
    BY <1>5, <1>6
<1>8. D * k = -(D * g) - D /\ D * g \in Int
    BY <1>5, <1>6
<1>9. x = D * k + e
    BY <1>1, <1>5, <1>6, <1>8
<1>10. x \div D = k
    BY <1>7, <1>9, Quotient
<1> QED
    BY <1>1, <1>4, <1>6, <1>10

\* What int_rshift returns.
RightShifted(a, n) ==
    IF a.neg THEN int_invert(Make(FALSE, int_rshift(int_invert(a).v, n)))
    ELSE Make(FALSE, int_rshift(a.v, n))

\* The loop of int_rshift, and the complement it takes of a negative number, round down.
LEMMA RshiftNumber ==
    ASSUME NEW a, Integer(a), NEW n \in Nat
    PROVE  Integer(RightShifted(a, n)) /\ Number(RightShifted(a, n)) = Number(a) \div 2^n
<1>1. ASSUME NEW b, Integer(b), ~b.neg
      PROVE  /\ Integer(Make(FALSE, int_rshift(b.v, n)))
             /\ Number(Make(FALSE, int_rshift(b.v, n))) = Number(b) \div 2^n
  <2>1. b.v \in Seq(Digit) /\ Number(b) = ValueOf(b.v)
      BY <1>1, IntegerIs
  <2>2. Vector(int_rshift(b.v, n)) /\ FALSE \in BOOLEAN
      BY <2>1, RshiftVector
  <2>3. ValueOf(int_rshift(b.v, n)) = ValueOf(b.v) \div 2^n
      BY <2>1, RshiftValue
  <2> QED
      BY <2>1, <2>2, <2>3, IntegerMade
<1>2. CASE ~a.neg
    BY <1>2, <1>1 DEF RightShifted
<1>3. CASE a.neg
  <2>1. Integer(int_invert(a)) /\ Number(int_invert(a)) = -Number(a) - 1
      BY InvertNumber
  <2>2. Number(a) \in Int /\ Number(a) < 0
    <3>1. /\ a.v \in Seq(Digit) /\ Vector(a.v) /\ ValueOf(a.v) \in Nat
          /\ Number(a) = IF a.neg THEN -ValueOf(a.v) ELSE ValueOf(a.v)
        BY IntegerIs
    <3>2. a.v # <<>>
        BY <1>3 DEF Integer, Normal
    <3>3. ValueOf(a.v) > 0
        BY <3>1, <3>2, PositiveValue
    <3> QED
        BY <3>1, <3>3, <1>3
  <2> DEFINE b == int_invert(a)
  <2>3. PICK c : c = b
      OBVIOUS
  <2>4. Integer(c) /\ Number(c) = -Number(a) - 1
      BY <2>1, <2>3
  <2>5. ~c.neg
    <3>1. /\ c.v \in Seq(Digit) /\ Vector(c.v) /\ ValueOf(c.v) \in Nat /\ c.neg \in BOOLEAN
          /\ Number(c) = IF c.neg THEN -ValueOf(c.v) ELSE ValueOf(c.v)
        BY <2>4, IntegerIs
    <3>2. c.neg => ValueOf(c.v) > 0
      <4>1. c.neg => c.v # <<>>
          BY <2>4 DEF Integer, Normal
      <4> QED
          BY <4>1, <3>1, PositiveValue
    <3>3. PICK i, j, k : i = Number(a) /\ j = Number(c) /\ k = ValueOf(c.v)
        OBVIOUS
    <3>4. i \in Int /\ i < 0 /\ j = -i - 1 /\ k \in Nat
        BY <3>1, <3>3, <2>2, <2>4
    <3>5. c.neg => j = -k /\ k > 0
        BY <3>1, <3>2, <3>3
    <3> QED
        BY <3>4, <3>5
  <2> DEFINE x == Make(FALSE, int_rshift(c.v, n))
  <2>6. Integer(x) /\ Number(x) = Number(c) \div 2^n
      BY <2>4, <2>5, <1>1
  <2>7. RightShifted(a, n) = int_invert(x)
      BY <2>3, <1>3 DEF RightShifted
  <2> HIDE DEF x
  <2>8. Integer(int_invert(x)) /\ Number(int_invert(x)) = -Number(x) - 1
      BY <2>6, InvertNumber
  <2>9. -((-Number(a) - 1) \div 2^n) - 1 = Number(a) \div 2^n
    <3>1. 2^n \in Nat \ {0}
        BY Powers
    <3> QED
        BY <3>1, <2>2, FloorComplement
  <2> QED
      BY <2>4, <2>6, <2>7, <2>8, <2>9
<1> QED
    BY <1>2, <1>3

\* Division by one digit.
LEMMA DivremValue ==
    ASSUME NEW a \in Seq(Digit), NEW n \in Digit, n # 0
    PROVE  /\ divrem1(a, n).r \in 0..n - 1 /\ Vector(divrem1(a, n).q)
           /\ ValueOf(a) = n * ValueOf(divrem1(a, n).q) + divrem1(a, n).r
<1> DEFINE L == Len(a)
           rem == inplace_divrem1(a, n)
           x == QuotientDigits(a, n)
           c == [k \in 0..L |-> -rem[k + 1]]
           t == [k \in 1..L |-> n * x[k]]
<1>0. n \in Nat \ {0} /\ n \in Int
    BY DigitIs
<1>1. L \in Nat /\ DOMAIN a = 1..L /\ 0 \in 0..L /\ L \in 0..L
    OBVIOUS
<1>2. /\ \A i \in 1..L + 1 : rem[i] \in 0..n - 1
      /\ rem[L + 1] = 0
      /\ \A i \in 1..L : rem[i] = (rem[i + 1] * BASE + a[i]) % n
    BY <1>0, BelowIs
<1>3. x \in Seq(Digit) /\ Len(x) = L /\ divrem1(a, n) = [q |-> int_normalize(x), r |-> rem[1]]
    BY <1>0, DivremIs
<1>4. \A i \in 1..L : x[i] = (rem[i + 1] * BASE + a[i]) \div n
    BY <1>1 DEF QuotientDigits
<1>5. (\A k \in 0..L : c[k] = -rem[k + 1]) /\ (\A k \in 1..L : t[k] = n * x[k])
    OBVIOUS
<1>6. Vector(divrem1(a, n).q)
    BY <1>0, DivremVector
<1>7. ValueOf(int_normalize(x)) = ValueOf(x)
    BY <1>3, NormalizeValue
<1> HIDE DEF L, rem, x, c, t
<1>8. \A k \in 0..L : rem[k + 1] \in Int /\ c[k] \in Int
  <2> TAKE k \in 0..L
  <2>1. k + 1 \in 1..L + 1
      BY <1>1
  <2>2. rem[k + 1] \in 0..n - 1
      BY <2>1, <1>2
  <2>3. rem[k + 1] \in Int
      BY <2>2, <1>0
  <2> QED
      BY <2>3, <1>5
<1>9. \A k \in 1..L : a[k] \in Int /\ x[k] \in Int /\ t[k] = a[k] + c[k - 1] - BASE * c[k]
  <2> TAKE k \in 1..L
  <2>1. k \in 0..L /\ k - 1 \in 0..L /\ (k - 1) + 1 = k
      BY <1>1
  <2>2. PICK y, u, s, g : y = a[k] /\ u = rem[k + 1] /\ s = rem[k] /\ g = x[k]
      OBVIOUS
  <2>3. y \in Int /\ u \in Int /\ s \in Int /\ c[k] = -u /\ c[k - 1] = -s
    <3>1. a[k] \in Digit
        BY <1>1
    <3>2. rem[(k - 1) + 1] \in Int /\ c[k - 1] = -rem[(k - 1) + 1]
        BY <2>1, <1>5, <1>8
    <3> QED
        BY <3>1, <3>2, <2>1, <2>2, <1>5, <1>8, DigitIs
  <2>4. s = (u * BASE + y) % n /\ g = (u * BASE + y) \div n
      BY <2>2, <1>2, <1>4
  <2>5. u * BASE + y \in Int /\ u * BASE \in Int /\ BASE * (-u) = -(u * BASE)
      BY <2>3, DigitSizes
  <2>6. g \in Int /\ u * BASE + y = n * g + s
    <3>1. PICK z : z = u * BASE + y
        OBVIOUS
    <3>2. z \in Int
        BY <3>1, <2>5
    <3>3. z \div n \in Int /\ z = n * (z \div n) + (z % n)
        BY <3>2, <1>0, Division
    <3> QED
        BY <3>1, <3>3, <2>4
  <2>7. t[k] = n * g
      BY <2>2, <1>5
  <2>8. t[k] = y + c[k - 1] - BASE * c[k]
    <3>1. PICK i, j : i = u * BASE /\ j = n * g
        OBVIOUS
    <3>2. i \in Int /\ j \in Int /\ i + y = j + s
        BY <3>1, <2>5, <2>6, <1>0
    <3>3. t[k] = j
        BY <3>1, <2>7
    <3>4. BASE * c[k] = -i
        BY <3>1, <2>3, <2>5
    <3> QED
        BY <3>2, <3>3, <3>4, <2>3
  <2> QED
      BY <2>2, <2>3, <2>6, <2>8
<1>10. Passes(t, a, c, L, BASE)
    BY <1>8, <1>9 DEF Passes
<1>11. Makes(t, L, n * ValueOf(x), Weight)
  <2>1. Makes(x, L, ValueOf(x), Weight)
      BY <1>3, ValueMakes
  <2>2. \A k \in 1..L : x[k] \in Int /\ t[k] = n * x[k]
      BY <1>5, <1>9
  <2> QED
      BY <2>1, <2>2, <1>0, <1>1, MakesScaled, WeightIs
<1>12. Makes(t, L, ValueOf(a) + c[0] - c[L] * Weight[L], Weight)
  <2>1. Makes(a, L, ValueOf(a), Weight)
      BY ValueMakes DEF L
  <2> QED
      BY <2>1, <1>1, <1>10, MakesHandedOn, WeightIs
<1>13. n * ValueOf(x) = ValueOf(a) + c[0] - c[L] * Weight[L]
  <2>1. PICK i, j : i = n * ValueOf(x) /\ j = ValueOf(a) + c[0] - c[L] * Weight[L]
      OBVIOUS
  <2>2. Makes(t, L, i, Weight) /\ Makes(t, L, j, Weight)
      BY <2>1, <1>11, <1>12
  <2>3. \A k \in 1..L : t[k] = t[k]
      OBVIOUS
  <2> QED
      BY <2>1, <2>2, <2>3, <1>1, MakesSame
<1>14. c[L] = 0 /\ c[0] = -rem[1] /\ rem[1] \in 0..n - 1
  <2>1. c[L] = -rem[L + 1] /\ c[0] = -rem[0 + 1] /\ 0 + 1 = 1 /\ 1 \in 1..L + 1
      BY <1>1, <1>5
  <2>2. rem[1] \in 0..n - 1
      BY <2>1, <1>2
  <2>3. -rem[L + 1] = 0
    <3>1. rem[L + 1] = 0
        BY <1>2
    <3>2. -0 = 0
      <4>1. 0 \in Int
          OBVIOUS
      <4>2. -0 = 0 - 0
          BY <4>1, Minus
      <4>3. 0 - 0 = 0
          OBVIOUS
      <4> QED
          BY <4>2, <4>3
    <3> QED
        BY <3>1, <3>2, Zenon
  <2> QED
      BY <2>1, <2>2, <2>3
<1>15. ValueOf(a) = n * ValueOf(x) + rem[1]
  <2>1. PICK V, X, s, u : V = ValueOf(a) /\ X = n * ValueOf(x) /\ s = rem[1] /\ u = Weight[L]
      OBVIOUS
  <2>2. V \in Int /\ s \in Int /\ u \in Int
    <3>1. ValueOf(a) \in Nat
        BY ValueBelow
    <3>2. Weight[L] \in Int
        BY <1>1, WeightAt
    <3> QED
        BY <3>1, <3>2, <2>1, <1>0, <1>14
  <2>3. X = V + (-s) - 0 * u
      BY <2>1, <1>13, <1>14
  <2>4. 0 * u = 0
      BY <2>2
  <2>5. V = X + s
      BY <2>2, <2>3, <2>4
  <2> QED
      BY <2>1, <2>5
<1> QED
    BY <1>3, <1>6, <1>7, <1>14, <1>15

-----------------------------------------------------------------------------
(* Conversion to a long *)

\* A step of COInt_AsSsize_t: nothing is lost exactly when the number fits the word.
Reduced(h, y, x, b, M) ==
    /\ M \in Nat \ {0} /\ b \in Nat \ {0} /\ b <= M /\ y \in Nat /\ x \in Nat /\ x < b
    /\ h = (y * b + x) % M

\* Shifted back, the word is what it was just when no bit was lost.
LEMMA KeptStep ==
    ASSUME NEW h, NEW y, NEW x, NEW b, NEW M, Reduced(h, y, x, b, M)
    PROVE  (y * b + x < M => h = y * b + x /\ h \div b = y) /\ (h \div b = y => h = y * b + x)
<1>0. /\ M \in Nat \ {0} /\ b \in Nat \ {0} /\ b <= M /\ y \in Nat /\ x \in Nat /\ x < b
      /\ h = (y * b + x) % M
    BY DEF Reduced
<1>1. PICK z : z = y * b + x
    OBVIOUS
<1>2. z \in Nat /\ z \in Int /\ y * b \in Nat /\ y * b = b * y
    BY <1>0, <1>1
<1>3. z % M \in 0..M - 1 /\ z \div M \in Int /\ z = M * (z \div M) + (z % M)
    BY <1>0, <1>2, Division
<1>4. PICK k : k = z \div M
    OBVIOUS
<1>5. h \in Int /\ 0 <= h /\ h < M /\ k \in Int /\ z = M * k + h
    BY <1>0, <1>1, <1>3, <1>4
<1>6. z = b * y + x
    BY <1>0, <1>1, <1>2
<1>7. z < M => h = z
  <2> SUFFICES ASSUME z < M PROVE h = z
      OBVIOUS
  <2>1. 0 <= z /\ z = M * 0 + z
      BY <1>0, <1>2
  <2>2. z % M = z
      BY <2>1, <1>0, <1>2, Quotient
  <2> QED
      BY <2>2, <1>0, <1>1
<1>8. z \div b = y
  <2>1. 0 <= x /\ x \in Int /\ y \in Int
      BY <1>0
  <2> QED
      BY <2>1, <1>0, <1>2, <1>6, Quotient
<1>9. h \div b = y => h = z
  <2> SUFFICES ASSUME h \div b = y PROVE h = z
      OBVIOUS
  <2>1. h % b \in 0..b - 1 /\ h = b * (h \div b) + (h % b)
      BY <1>0, <1>5, Division
  <2>2. PICK e : e = h % b
      OBVIOUS
  <2>3. e \in Int /\ 0 <= e /\ e < b /\ h = b * y + e
      BY <2>1, <2>2, <1>0, <1>5
  <2>4. M * k = x - e /\ M * k \in Int
    <3>1. M * k \in Int /\ b * y \in Int
        BY <1>0, <1>5
    <3> QED
        BY <3>1, <2>3, <1>0, <1>5, <1>6
  <2>5. M * k < M * 1 /\ M * (0 - 1) < M * k
    <3>1. M * 1 = M /\ M * (0 - 1) = 0 - M
        BY <1>0
    <3> QED
        BY <3>1, <2>3, <2>4, <1>0
  <2>6. k < 1 /\ 0 - 1 < k
    <3>1. 1 \in Int /\ 0 - 1 \in Int
        OBVIOUS
    <3> QED
        BY <3>1, <2>5, <1>0, <1>5, Cancels
  <2>7. k = 0
      BY <2>6, <1>5
  <2>8. M * 0 = 0
      BY <1>0
  <2> QED
      BY <2>7, <2>8, <1>5
<1> QED
    BY <1>1, <1>7, <1>8, <1>9

\* COInt_AsSsize_t notices an overflow exactly when there is one.
LEMMA AccumulatedValue ==
    ASSUME NEW a \in Seq(Digit)
    PROVE  /\ Accumulated(a).overflow <=> ValueOf(a) >= 2^LONG_BITS
           /\ ~Accumulated(a).overflow => Accumulated(a).value = ValueOf(a)
<1> DEFINE n == Len(a)
           Z == 2^LONG_BITS
           rem == inplace_divrem1(a, Z)
           acc == Accumulated(a)
           T == {k \in 1..n + 1 : rem[k] = Upper(a, k)}
<1>1. n \in Nat /\ DOMAIN a = 1..n
    OBVIOUS
<1>2. Z \in Nat \ {0} /\ acc.value = rem[1] /\ (acc.overflow <=> \E i \in 1..n : rem[i] \div BASE # rem[i + 1])
  <2>1. Z \in Nat \ {0}
      BY AccumulatedIs
  <2>2. acc.value = rem[1]
      BY AccumulatedIs
  <2>3. acc.overflow = \E i \in DOMAIN a : rem[i] \div BASE # rem[i + 1]
      BY AccumulatedIs
  <2> HIDE DEF acc, rem
  <2> QED
      BY <2>1, <2>2, <2>3, <1>1
<1>3. BASE <= Z /\ BASE \in Nat \ {0}
  <2>1. PICK k : k = LONG_BITS - SHIFT
      OBVIOUS
  <2>2. k \in Nat /\ SHIFT \in Nat /\ LONG_BITS = SHIFT + k
      BY <2>1, DigitsAssumption, DigitSizes
  <2>3. Z = BASE * 2^k
      BY <2>2, TwoPowers DEF BASE
  <2>4. 2^k \in Nat \ {0} /\ BASE \in Nat \ {0}
      BY <2>2, Powers, DigitSizes
  <2>5. PICK z : z = 2^k
      OBVIOUS
  <2>6. BASE * 1 <= BASE * z
    <3>1. 1 \in Int /\ z \in Int /\ 1 <= z
        BY <2>4, <2>5
    <3> QED
        BY <3>1, <2>4, Monotone
  <2>7. BASE * 1 = BASE
      BY <2>4
  <2> QED
      BY <2>3, <2>4, <2>5, <2>6, <2>7
<1>4. /\ \A i \in 1..n + 1 : rem[i] \in 0..Z - 1
      /\ rem[n + 1] = 0
      /\ \A i \in 1..n : rem[i] = (rem[i + 1] * BASE + a[i]) % Z
    BY <1>2, BelowIs
<1> HIDE DEF Z, rem, acc
<1>5. n + 1 \in T
  <2>1. SubSeq(a, n + 1, n) = <<>>
    <3>1. n + 1 \in 1..Len(a) + 1 /\ Len(a) \in (n + 1) - 1..Len(a)
        BY <1>1
    <3>2. SubSeq(a, n + 1, n) \in Seq(Digit) /\ Len(SubSeq(a, n + 1, n)) = n - (n + 1) + 1
        BY <3>1, PartIs
    <3>3. n - (n + 1) + 1 = 0
        BY <1>1
    <3> QED
        BY <3>2, <3>3, EmptySeq
  <2>2. Upper(a, n + 1) = 0
      BY <2>1, NothingValue DEF Upper
  <2>3. n + 1 \in 1..n + 1
      BY <1>1
  <2> QED
      BY <2>2, <2>3, <1>4
<1>6. ASSUME NEW k \in 1..n, k + 1 \in T
      PROVE  /\ Upper(a, k) < Z => k \in T /\ rem[k] \div BASE = rem[k + 1]
             /\ rem[k] \div BASE = rem[k + 1] => k \in T
  <2>1. /\ Upper(a, k) \in Nat /\ Upper(a, k + 1) \in Nat /\ a[k] \in Nat /\ a[k] < BASE
        /\ Upper(a, k) = Upper(a, k + 1) * BASE + a[k]
      BY UpperIs
  <2>2. rem[k + 1] = Upper(a, k + 1) /\ rem[k] = (rem[k + 1] * BASE + a[k]) % Z /\ k \in 1..n + 1
      BY <1>1, <1>4, <1>6
  <2>3. PICK y, x, g : y = rem[k + 1] /\ x = a[k] /\ g = rem[k]
      OBVIOUS
  <2>4. y \in Nat /\ x \in Nat /\ x < BASE /\ g = (y * BASE + x) % Z /\ Upper(a, k) = y * BASE + x
      BY <2>1, <2>2, <2>3
  <2>5. (y * BASE + x < Z => g = y * BASE + x /\ g \div BASE = y) /\ (g \div BASE = y => g = y * BASE + x)
    <3>1. Z \in Nat \ {0} /\ BASE \in Nat \ {0} /\ BASE <= Z
        BY <1>2, <1>3
    <3>2. y \in Nat /\ x \in Nat /\ x < BASE /\ g = (y * BASE + x) % Z
        BY <2>4
    <3>3. Reduced(g, y, x, BASE, Z)
        BY <3>1, <3>2 DEF Reduced
    <3> QED
        BY <3>3, KeptStep
  <2> QED
      BY <2>2, <2>3, <2>4, <2>5
<1>7. 1 \in Int /\ n + 1 \in Int /\ 1 <= n + 1 /\ 1 \in 1..n + 1
    BY <1>1
<1>8. 1 \in T => rem[1] = ValueOf(a)
  <2>1. SubSeq(a, 1, n) = a
    <3>1. n \in 0..Len(a)
        BY <1>1
    <3>2. SubSeq(a, 1, n) \in Seq(Digit) /\ Len(SubSeq(a, 1, n)) = n /\ \A i \in 1..n : SubSeq(a, 1, n)[i] = a[i]
        BY <3>1, Prefix
    <3>3. Len(a) = n
        OBVIOUS
    <3> HIDE DEF n
    <3> QED
        BY <3>2, <3>3, SeqEqual
  <2> QED
      BY <2>1 DEF Upper
<1>9. ValueOf(a) \in Nat
    BY ValueBelow
<1>10. ASSUME ValueOf(a) < Z
       PROVE  ~acc.overflow
  <2>1. \A k \in 1 + 1..n + 1 : k \in T => k - 1 \in T
    <3> TAKE k \in 1 + 1..n + 1
    <3> SUFFICES ASSUME k \in T PROVE k - 1 \in T
        OBVIOUS
    <3>1. PICK i : i = k - 1
        OBVIOUS
    <3>2. i \in 1..n /\ i + 1 = k
        BY <3>1, <1>1
    <3>3. Upper(a, i) \in Nat /\ Upper(a, i) <= ValueOf(a)
        BY <3>2, UpperIs
    <3>4. Upper(a, i) < Z
        BY <3>3, <1>2, <1>9, <1>10
    <3> QED
        BY <3>1, <3>2, <3>4, <1>6
  <2> HIDE DEF T, n
  <2>2. \A k \in 1..n + 1 : k \in T
      BY <2>1, <1>5, <1>7, Down
  <2>3. ASSUME NEW i \in 1..n
        PROVE  rem[i] \div BASE = rem[i + 1]
    <3>1. i + 1 \in 1..n + 1
        BY <1>1
    <3>2. i + 1 \in T
        BY <3>1, <2>2
    <3>3. Upper(a, i) \in Nat /\ Upper(a, i) <= ValueOf(a)
        BY UpperIs DEF n
    <3>4. Upper(a, i) < Z
        BY <3>3, <1>2, <1>9, <1>10
    <3> QED
        BY <3>2, <3>4, <1>6
  <2> QED
      BY <2>3, <1>2
<1>11. ASSUME ~acc.overflow
       PROVE  acc.value = ValueOf(a) /\ ValueOf(a) < Z
  <2>1. \A k \in 1 + 1..n + 1 : k \in T => k - 1 \in T
    <3> TAKE k \in 1 + 1..n + 1
    <3> SUFFICES ASSUME k \in T PROVE k - 1 \in T
        OBVIOUS
    <3>1. PICK i : i = k - 1
        OBVIOUS
    <3>2. i \in 1..n /\ i + 1 = k
        BY <3>1, <1>1
    <3>3. rem[i] \div BASE = rem[i + 1]
        BY <3>2, <1>2, <1>11
    <3> QED
        BY <3>1, <3>2, <3>3, <1>6
  <2> HIDE DEF T, n
  <2>2. \A k \in 1..n + 1 : k \in T
      BY <2>1, <1>5, <1>7, Down
  <2>3. rem[1] = ValueOf(a)
      BY <2>2, <1>7, <1>8
  <2>4. rem[1] \in 0..Z - 1
      BY <1>4, <1>7
  <2> QED
      BY <2>3, <2>4, <1>2
<1>12. (~acc.overflow => acc.value = ValueOf(a)) /\ (acc.overflow <=> ValueOf(a) >= Z)
    BY <1>2, <1>9, <1>10, <1>11
<1> QED
    BY <1>12 DEF acc, Z

\* The limits of a long.
LEMMA LongLimits ==
    \E K \in Nat : /\ LONG_MAX = K - 1 /\ LONG_MIN = -K /\ 2^LONG_BITS = 2 * K /\ BASE <= K
<1>1. PICK m : m = LONG_BITS - 1
    OBVIOUS
<1>2. m \in Nat /\ m + 1 = LONG_BITS
    BY <1>1, DigitsAssumption
<1>3. PICK K : K = 2^m
    OBVIOUS
<1>4. K \in Nat /\ 2^(m + 1) = 2 * K
    BY <1>2, <1>3, Powers
<1>5. LONG_MAX = K - 1 /\ LONG_MIN = -K
    BY <1>1, <1>3 DEF LONG_MAX, LONG_MIN
<1>6. BASE <= K
  <2>1. PICK k : k = m - SHIFT
      OBVIOUS
  <2>2. k \in Nat /\ SHIFT \in Nat /\ m = SHIFT + k
    <3>1. SHIFT < LONG_BITS /\ SHIFT \in Nat /\ LONG_BITS \in Nat
        BY DigitsAssumption
    <3> QED
        BY <3>1, <2>1, <1>1
  <2>3. K = BASE * 2^k
      BY <2>2, <1>3, TwoPowers DEF BASE
  <2>4. PICK z : z = 2^k
      OBVIOUS
  <2>5. z \in Nat \ {0} /\ BASE \in Nat
      BY <2>2, <2>4, Powers, DigitSizes
  <2>6. BASE * 1 <= BASE * z
    <3>1. 1 \in Int /\ z \in Int /\ 1 <= z
        BY <2>5
    <3> QED
        BY <3>1, <2>5, Monotone
  <2> QED
      BY <2>3, <2>4, <2>5, <2>6
<1> QED
    BY <1>2, <1>4, <1>5, <1>6

\* A number of one digit fits in a long.
LEMMA ShortNumber ==
    ASSUME NEW a, Integer(a), Short(a), NEW K \in Nat, BASE <= K
    PROVE  ONEDIGIT_VALUE(a) = Number(a) /\ Number(a) \in Int /\ -K <= Number(a) /\ Number(a) <= K - 1
<1>1. ONEDIGIT_VALUE(a) = Number(a) /\ Number(a) \in Int
    BY OneDigitNumber
<1>2. a.v \in Seq(Digit)
    BY IntegerIs
<1>3. At(a.v, 1) \in Nat /\ At(a.v, 1) < BASE
  <2>1. 1 \in Int
      OBVIOUS
  <2>2. At(a.v, 1) \in Digit
      BY <2>1, <1>2, AtDigit
  <2> QED
      BY <2>2, DigitIs
<1>4. PICK z, N : z = At(a.v, 1) /\ N = Number(a)
    OBVIOUS
<1>5. N = IF a.neg THEN -z ELSE z
    BY <1>1, <1>4 DEF ONEDIGIT_VALUE
<1>6. -K <= N /\ N <= K - 1
    BY <1>3, <1>4, <1>5, DigitSizes
<1> QED
    BY <1>1, <1>4, <1>6

\* COInt_AsSsize_t gives the number, or says that it does not fit.
LEMMA AsSsizeNumber ==
    ASSUME NEW a, Integer(a)
    PROVE  LET n == COInt_AsSsize_t(a)
           IN  /\ n.fits \in BOOLEAN
               /\ n.fits <=> Number(a) \in LONG_MIN..LONG_MAX
               /\ n.fits => n.value = Number(a)
               /\ ~n.fits => n.value = -1
<1> DEFINE acc == Accumulated(a.v)
           z == IF a.neg THEN -acc.value ELSE acc.value
           A == Short(a)
           B == ~Short(a) /\ ~acc.overflow /\ acc.value <= LONG_MAX
           D == ~Short(a) /\ ~acc.overflow /\ a.neg /\ acc.value = -LONG_MIN
           n == COInt_AsSsize_t(a)
<1>1. n = CASE A -> [fits |-> TRUE, value |-> ONEDIGIT_VALUE(a)]
            [] B -> [fits |-> TRUE, value |-> z]
            [] D -> [fits |-> TRUE, value |-> LONG_MIN]
            [] OTHER -> [fits |-> FALSE, value |-> -1]
    BY DEF COInt_AsSsize_t
<1>2. PICK K \in Nat : LONG_MAX = K - 1 /\ LONG_MIN = -K /\ 2^LONG_BITS = 2 * K /\ BASE <= K
    BY LongLimits
<1>3. /\ a.v \in Seq(Digit) /\ a.neg \in BOOLEAN /\ ValueOf(a.v) \in Nat
      /\ Number(a) = IF a.neg THEN -ValueOf(a.v) ELSE ValueOf(a.v)
    BY IntegerIs
<1>4. PICK V, N : V = ValueOf(a.v) /\ N = Number(a)
    OBVIOUS
<1>5. V \in Nat /\ N = (IF a.neg THEN -V ELSE V) /\ N \in Int
    BY <1>3, <1>4
<1>6. (acc.overflow <=> V >= 2 * K) /\ (~acc.overflow => acc.value = V)
    BY <1>2, <1>3, <1>4, AccumulatedValue
<1>7. A => ONEDIGIT_VALUE(a) = N /\ -K <= N /\ N <= K - 1
    BY <1>2, <1>4, ShortNumber
<1>8. ~A => /\ B <=> V <= K - 1
            /\ D <=> a.neg /\ V = K
            /\ B => z = N
  <2> SUFFICES ASSUME ~A PROVE (B <=> V <= K - 1) /\ (D <=> a.neg /\ V = K) /\ (B => z = N)
      OBVIOUS
  <2>1. B <=> V <= K - 1
      BY <1>2, <1>5, <1>6
  <2>2. D <=> a.neg /\ V = K
    <3>1. -LONG_MIN = K
        BY <1>2
    <3>2. K > 0
        BY <1>2, DigitSizes
    <3>3. ~acc.overflow /\ acc.value = K <=> V = K
        BY <3>2, <1>5, <1>6
    <3> HIDE DEF acc
    <3> QED
        BY <3>1, <3>3
  <2>3. B => z = N
      BY <1>5, <1>6
  <2> QED
      BY <2>1, <2>2, <2>3
<1>9. /\ A => ~B /\ ~D
      /\ n.fits \in BOOLEAN /\ (n.fits <=> A \/ B \/ D)
      /\ A => n.value = ONEDIGIT_VALUE(a)
      /\ ~(B /\ D) => /\ B => n.value = z
                      /\ D => n.value = LONG_MIN
      /\ ~n.fits => n.value = -1
  <2>1. ~(A /\ B) /\ ~(A /\ D)
      OBVIOUS
  <2> HIDE DEF A, B, D, z, n
  <2> QED
      BY <2>1, <1>1
<1> HIDE DEF A, B, D, z, n
<1>10. n.fits <=> -K <= N /\ N <= K - 1
  <2>1. CASE A
      BY <2>1, <1>7, <1>9
  <2>2. CASE ~A
    <3>1. (B \/ D) <=> -K <= N /\ N <= K - 1
      <4>1. (B <=> V <= K - 1) /\ (D <=> a.neg /\ V = K)
          BY <2>2, <1>8
      <4>2. CASE a.neg
        <5>1. N = -V
            BY <4>2, <1>5
        <5>2. -K <= N /\ N <= K - 1 <=> V <= K - 1 \/ V = K
          <6>1. K > 0
              BY <1>2, DigitSizes
          <6> QED
              BY <6>1, <5>1, <1>5
        <5> QED
            BY <5>2, <4>1, <4>2
      <4>3. CASE ~a.neg
        <5>1. -K <= N /\ N <= K - 1 <=> V <= K - 1
            BY <4>3, <1>5
        <5> QED
            BY <5>1, <4>1, <4>3
      <4> QED
          BY <4>2, <4>3
    <3> QED
        BY <3>1, <2>2, <1>9
  <2> QED
      BY <2>1, <2>2
<1>11. n.fits => n.value = N
  <2>1. CASE A
      BY <2>1, <1>7, <1>9
  <2>2. CASE ~A
    <3>1. ~(B /\ D)
        BY <2>2, <1>5, <1>8
    <3>2. D => N = -K
        BY <2>2, <1>5, <1>8
    <3> QED
        BY <3>1, <3>2, <2>2, <1>2, <1>8, <1>9
  <2> QED
      BY <2>1, <2>2
<1>12. N \in LONG_MIN..LONG_MAX <=> -K <= N /\ N <= K - 1
    BY <1>2, <1>5
<1> QED
    BY <1>4, <1>9, <1>10, <1>11, <1>12 DEF n

-----------------------------------------------------------------------------
(* Numerals and literals *)

\* A numeral stands for its number.
LEMMA NumeralValue ==
    ASSUME NEW n \in Nat, NEW b \in Nat, b >= 2
    PROVE  Evaluated(Exact!Numeral(n, b), b) = n
<1>1. PICK f : Numbering(f, n, b) /\ Exact!Numeral(n, b) = f[n]
    BY NumeralChain
<1>2. \A m \in 0..n : /\ f[m] \in Seq(0..b - 1)
                      /\ f[m] = IF m < b THEN <<m>> ELSE Append(f[m \div b], m % b)
    BY <1>1 DEF Numbering
<1> DEFINE S == {k \in Nat : \A m \in 0..n : m <= k => Evaluated(f[m], b) = m}
<1>3. ASSUME NEW m \in 0..n, m < b
      PROVE  Evaluated(f[m], b) = m
  <2>0. m \in Nat
      OBVIOUS
  <2>1. m \in Nat /\ f[m] = <<m>>
      BY <2>0, <1>2, <1>3, Zenon
  <2>2. Evaluated(<<m>>, b) = m
      BY <2>1, EvaluatedSingle
  <2> QED
      BY <2>1, <2>2
<1>4. 0 \in S
  <2>1. ASSUME NEW m \in 0..n, m <= 0
        PROVE  m < b
      BY <2>1
  <2> QED
      BY <2>1, <1>3
<1>5. ASSUME NEW k \in Nat, k \in S
      PROVE  k + 1 \in S
  <2>1. ASSUME NEW m \in 0..n, m <= k + 1
        PROVE  Evaluated(f[m], b) = m
    <3>1. CASE m < b
        BY <3>1, <1>3
    <3>2. CASE ~ (m < b)
      <4>1. PICK y : y = m \div b
          OBVIOUS
      <4>2. PICK x : x = m % b
          OBVIOUS
      <4>3. m \in Nat /\ m > 0 /\ m \in Int /\ b \in Nat \ {0}
          BY <3>2
      <4>4. y \in 0..m - 1
          BY <4>1, <4>3, Shorter
      <4>5. x \in 0..b - 1 /\ m = b * y + x
          BY <4>1, <4>2, <4>3, Division
      <4>6. y \in 0..n /\ y <= k /\ x \in Nat
          BY <4>3, <4>4, <4>5, <2>1
      <4>7. Evaluated(f[y], b) = y
          BY <4>6, <1>5
      <4>8. f[y] \in Seq(Nat)
        <5>1. f[y] \in Seq(0..b - 1)
            BY <4>6, <1>2
        <5> QED
            BY <5>1, DigitsWhole
      <4>9. f[m] = Append(f[y], x)
          BY <1>2, <3>2, <4>1, <4>2
      <4>10. Evaluated(Append(f[y], x), b) = b * Evaluated(f[y], b) + x
          BY <4>6, <4>8, EvaluatedAppend
      <4> QED
          BY <4>5, <4>7, <4>9, <4>10
    <3> QED
        BY <3>1, <3>2
  <2> QED
      BY <2>1
<1> HIDE DEF S
<1>6. n \in S
    BY <1>4, <1>5, Induction
<1>7. n \in 0..n /\ n <= n
    OBVIOUS
<1> QED
    BY <1>1, <1>6, <1>7 DEF S

\* A numeral without leading zeros.
Plain(s, b) == s \in Seq(0..b - 1) /\ Len(s) >= 1 /\ (Len(s) = 1 \/ s[1] # 0)

\* A string that does not start with a zero is worth something.
LEMMA PlainPositive ==
    ASSUME NEW b \in Nat, b >= 2, NEW s \in Seq(Nat), Len(s) >= 1, s[1] # 0
    PROVE  Evaluated(s, b) >= 1
<1>1. PICK f : EvaluatedBy(f, s, b) /\ Evaluated(s, b) = f[Len(s)]
    BY EvaluatedChain
<1> DEFINE n == Len(s)
<1>2. /\ \A i \in 0..n : f[i] \in Nat
      /\ f[0] = 0
      /\ \A i \in 1..n : f[i] = b * f[i - 1] + s[i]
    BY <1>1 DEF EvaluatedBy
<1>3. n \in Nat /\ n >= 1 /\ n \in Int /\ 1 \in Int /\ s[1] \in Nat /\ s[1] >= 1 /\ \A i \in 1..n : s[i] \in Nat
    OBVIOUS
<1> HIDE DEF n
<1> DEFINE S == {i \in 1..n : f[i] >= 1}
<1>4. 1 \in S
  <2>1. 1 \in 1..n /\ 0 \in 0..n /\ 1 - 1 = 0
      BY <1>3
  <2>2. f[1] = b * f[0] + s[1]
      BY <2>1, <1>2
  <2>3. f[1] = s[1]
      BY <2>2, <1>2, <1>3
  <2> QED
      BY <2>1, <2>3, <1>3
<1>5. ASSUME NEW i \in 1..n - 1, i \in S
      PROVE  i + 1 \in S
  <2>1. i + 1 \in 1..n /\ (i + 1) - 1 = i /\ i \in 0..n
      BY <1>3
  <2>2. f[i + 1] = b * f[i] + s[i + 1]
      BY <2>1, <1>2
  <2>3. PICK y : y = f[i]
      OBVIOUS
  <2>4. PICK z : z = s[i + 1]
      OBVIOUS
  <2>5. y \in Nat /\ y >= 1 /\ z \in Nat
      BY <2>1, <2>3, <2>4, <1>2, <1>3, <1>5
  <2>6. b * 1 <= b * y /\ b * y \in Nat
      BY <2>5, Monotone
  <2>7. b * y + z >= 1
      BY <2>5, <2>6
  <2> QED
      BY <2>1, <2>2, <2>3, <2>4, <2>7
<1> HIDE DEF S
<1>6. \A i \in 1..n : i \in S
    BY <1>3, <1>4, <1>5, Up
<1>7. n \in S
    BY <1>3, <1>6
<1> QED
    BY <1>1, <1>7 DEF S, n

\* There is one numeral for a number.
LEMMA NumeralUnique ==
    ASSUME NEW b \in Nat, b >= 2, NEW t, Plain(t, b), NEW n \in Nat, n = Evaluated(t, b)
    PROVE  Exact!Numeral(n, b) = t
<1>1. PICK f : Numbering(f, n, b) /\ Exact!Numeral(n, b) = f[n]
    BY NumeralChain
<1>2. \A m \in 0..n : /\ f[m] \in Seq(0..b - 1)
                      /\ f[m] = IF m < b THEN <<m>> ELSE Append(f[m \div b], m % b)
    BY <1>1 DEF Numbering
<1> DEFINE Ok(l) == \A s : \A m \in 0..n : Plain(s, b) /\ Len(s) = l + 1 /\ Evaluated(s, b) = m => f[m] = s
           S == {l \in Nat : Ok(l)}
<1>3. 0 \in S
  <2>1. ASSUME NEW s, NEW m \in 0..n, Plain(s, b), Len(s) = 0 + 1, Evaluated(s, b) = m
        PROVE  f[m] = s
    <3>1. s \in Seq(0..b - 1) /\ Len(s) = 1
        BY <2>1 DEF Plain
    <3>2. s = <<s[1]>> /\ s[1] \in 0..b - 1 /\ s[1] \in Nat
      <4>1. 1 \in 1..Len(s)
          BY <3>1
      <4>2. s[1] \in 0..b - 1
          BY <4>1, <3>1, ElementOfSeq
      <4>3. s = <<s[1]>>
          BY <3>1
      <4> QED
          BY <4>2, <4>3
    <3>3. m = s[1]
        BY <2>1, <3>2, EvaluatedSingle
    <3>4. m < b
        BY <3>2, <3>3
    <3> QED
        BY <3>2, <3>3, <3>4, <1>2
  <2> QED
      BY <2>1
<1>4. ASSUME NEW l \in Nat, l \in S
      PROVE  l + 1 \in S
  <2>1. ASSUME NEW s, NEW m \in 0..n, Plain(s, b), Len(s) = (l + 1) + 1, Evaluated(s, b) = m
        PROVE  f[m] = s
    <3>1. s \in Seq(0..b - 1) /\ s[1] # 0
        BY <2>1 DEF Plain
    <3> DEFINE U == 0..b - 1
    <3>2. PICK k : k = l + 1
        OBVIOUS
    <3>3. k \in Nat /\ k >= 1 /\ Len(s) = k + 1
        BY <2>1, <3>2
    <3>4. PICK g : g = SubSeq(s, 1, k)
        OBVIOUS
    <3>5. PICK x : x = s[k + 1]
        OBVIOUS
    <3>6. g \in Seq(U) /\ Len(g) = k /\ \A i \in 1..k : g[i] = s[i]
      <4>1. k \in 0..Len(s)
          BY <3>3
      <4> QED
          BY <4>1, <3>1, <3>4, Prefix
    <3>7. x \in U /\ x \in Nat /\ x < b
        BY <3>1, <3>3, <3>5
    <3> HIDE DEF U
    <3>8. s = Append(g, x)
      <4>1. Append(g, x) \in Seq(U) /\ Len(Append(g, x)) = k + 1 /\ Append(g, x)[k + 1] = x
          BY <3>6, <3>7
      <4>2. \A i \in 1..k : Append(g, x)[i] = g[i]
          BY <3>6, <3>7
      <4>3. \A i \in 1..k + 1 : Append(g, x)[i] = s[i]
        <5> TAKE i \in 1..k + 1
        <5>1. CASE i = k + 1
            BY <5>1, <4>1, <3>5
        <5>2. CASE i # k + 1
          <6>1. i \in 1..k
              BY <5>2, <3>3
          <6> QED
              BY <6>1, <4>2, <3>6
        <5> QED
            BY <5>1, <5>2
      <4>4. s \in Seq(U)
          BY <3>1 DEF U
      <4> QED
          BY <4>1, <4>3, <4>4, <3>3, SeqEqual
    <3>9. Plain(g, b)
      <4>1. 1 \in 1..k
          BY <3>3
      <4>2. g[1] # 0
          BY <4>1, <3>1, <3>6
      <4> QED
          BY <4>2, <3>3, <3>6 DEF Plain, U
    <3>10. g \in Seq(Nat)
      <4>1. g \in Seq(0..b - 1)
          BY <3>6 DEF U
      <4> QED
          BY <4>1, DigitsWhole
    <3>11. PICK y : y = Evaluated(g, b)
        OBVIOUS
    <3>12. m = b * y + x /\ y \in Int
      <4>1. Evaluated(Append(g, x), b) = b * Evaluated(g, b) + x /\ Evaluated(g, b) \in Int
          BY <3>7, <3>10, EvaluatedAppend
      <4> QED
          BY <4>1, <3>8, <3>11, <2>1
    <3>13. y >= 1
      <4>1. g[1] # 0 /\ Len(g) >= 1
        <5>1. 1 \in 1..k
            BY <3>3
        <5> QED
            BY <5>1, <3>1, <3>3, <3>6
      <4> QED
          BY <4>1, <3>10, <3>11, PlainPositive
    <3>14. m % b = x /\ m \div b = y
      <4>1. m \in Int /\ b \in Nat \ {0} /\ y \in Int /\ x \in Int /\ 0 <= x /\ x < b
          BY <3>7, <3>12
      <4> QED
          BY <4>1, <3>12, Quotient
    <3>15. b * 1 <= b * y /\ 2 * y <= b * y /\ b * y \in Int
      <4>1. b * 1 <= b * y
          BY <3>12, <3>13, Monotone
      <4>2. y * 2 <= y * b /\ y * 2 = 2 * y /\ y * b = b * y
        <5>1. y \in Nat /\ 2 \in Int /\ b \in Int /\ 2 <= b
            BY <3>12, <3>13
        <5>2. y * 2 <= y * b
            BY <5>1, Monotone
        <5> QED
            BY <5>1, <5>2
      <4> QED
          BY <4>1, <4>2, <3>12
    <3>16. ~ (m < b) /\ y \in 0..n
      <4>1. b * y \in Int /\ m = b * y + x /\ b * 1 <= b * y /\ 2 * y <= b * y /\ m \in Int
          BY <3>12, <3>15
      <4>2. m <= n /\ x >= 0 /\ x \in Int /\ y \in Int /\ y >= 1
          BY <3>7, <3>12, <3>13
      <4>3. PICK z : z = b * y
          OBVIOUS
      <4>4. z \in Int /\ m = z + x /\ b <= z /\ 2 * y <= z
          BY <4>1, <4>3
      <4> QED
          BY <4>2, <4>4
    <3>17. f[y] = g
        BY <1>4, <3>2, <3>6, <3>9, <3>11, <3>16
    <3>18. f[m] = Append(f[m \div b], m % b)
        BY <1>2, <3>16
    <3> QED
        BY <3>8, <3>14, <3>17, <3>18
  <2> QED
      BY <2>1
<1> HIDE DEF S
<1>5. \A l \in Nat : l \in S
    BY <1>3, <1>4, Induction
<1>6. PICK l : l = Len(t) - 1
    OBVIOUS
<1>7. l \in Nat /\ Len(t) = l + 1
    BY <1>6 DEF Plain
<1>8. n \in 0..n /\ l \in S
    BY <1>5, <1>7
<1> QED
    BY <1>1, <1>7, <1>8 DEF S

\* A digit on top of a vector.
LEMMA AppendValue ==
    ASSUME NEW a \in Seq(Digit), NEW x \in Digit
    PROVE  /\ Append(a, x) \in Seq(Digit) /\ Len(Append(a, x)) = Len(a) + 1
           /\ ValueOf(Append(a, x)) = ValueOf(a) + Weight[Len(a)] * x
<1>1. PICK c : c = <<x>>
    OBVIOUS
<1>2. c \in Seq(Digit) /\ Len(c) = 1 /\ ValueOf(c) = x
    BY <1>1, SingleValue
<1>3. Append(a, x) = a \o c
    BY <1>1
<1>4. /\ a \o c \in Seq(Digit) /\ Len(a \o c) = Len(a) + Len(c)
      /\ ValueOf(a \o c) = ValueOf(a) + Weight[Len(a)] * ValueOf(c)
    BY <1>2, JoinedValue
<1> QED
    BY <1>2, <1>3, <1>4

\* What has been read so far, and the weight of the next bit.
Held(st) == ValueOf(st.v) + st.accum * Weight[Len(st.v)]

\* The weight of the next digit of the string.
Scale(st) == Weight[Len(st.v)] * 2^st.bits

\* What is held while a literal is read.
LEMMA ReadingIs ==
    ASSUME NEW st \in Readings
    PROVE  /\ st.v \in Seq(Digit) /\ Len(st.v) \in Nat /\ st.accum \in Nat /\ st.bits \in Nat /\ st.bits < SHIFT
           /\ ValueOf(st.v) \in Nat /\ Weight[Len(st.v)] \in Nat \ {0} /\ 2^st.bits \in Nat \ {0}
<1>1. st.v \in Seq(Digit) /\ Len(st.v) \in Nat /\ st.accum \in Nat /\ st.bits \in Nat /\ st.bits < SHIFT
    BY DEF Readings
<1>2. Weight[Len(st.v)] \in Nat \ {0}
    BY <1>1, WeightAt
<1>3. 2^st.bits \in Nat \ {0}
    BY <1>1, Powers
<1>4. ValueOf(st.v) \in Nat
  <2>1. PICK x : x = st.v
      OBVIOUS
  <2>2. Makes(x, Len(x), ValueOf(x), Weight) /\ \A k \in 1..Len(x) : x[k] \in 0..BASE - 1 /\ Len(x) \in Nat
      BY <2>1, <1>1, ValueMakes, EachDigit, DigitSizes DEF Digit
  <2> QED
      BY <2>1, <2>2, <1>1, WeightIs, MakesBelow
<1> QED
    BY <1>1, <1>2, <1>3, <1>4

\* A word split at SHIFT bits.
LEMMA SplitWord ==
    ASSUME NEW W \in Nat, NEW V \in Nat, NEW x \in Nat
    PROVE  V + W * (x % BASE) + (x \div BASE) * (BASE * W) = V + x * W
<1>1. PICK y : y = x \div BASE
    OBVIOUS
<1>2. PICK z : z = x % BASE
    OBVIOUS
<1>3. y \in Int /\ z \in Int /\ x = BASE * y + z /\ BASE \in Int
    BY <1>1, <1>2, Remainder, DigitSizes DEF Digit
<1>4. W * z + y * (BASE * W) = (BASE * y + z) * W
    BY <1>3
<1>5. W * z \in Int /\ y * (BASE * W) \in Int
    BY <1>3
<1>6. V + W * z + y * (BASE * W) = V + (BASE * y + z) * W
    BY <1>4, <1>5
<1> QED
    BY <1>1, <1>2, <1>3, <1>6

\* Another digit of the string is read.
LEMMA ReadBitsValue ==
    ASSUME NEW e \in 1..SHIFT, NEW st \in Readings, NEW c \in 0..2^e - 1
    PROVE  /\ Held(ReadBits(st, c, e)) = Held(st) + c * Scale(st)
           /\ Scale(ReadBits(st, c, e)) = 2^e * Scale(st)
<1>1. e \in Nat /\ 2^e \in Nat \ {0} /\ SHIFT \in Nat
    BY Powers, DigitSizes
<1>2. /\ st.v \in Seq(Digit) /\ Len(st.v) \in Nat /\ st.accum \in Nat /\ st.bits \in Nat /\ st.bits < SHIFT
      /\ ValueOf(st.v) \in Nat /\ Weight[Len(st.v)] \in Nat \ {0} /\ 2^st.bits \in Nat \ {0}
    BY ReadingIs
<1>3. c \in Nat
    BY <1>1
<1>4. PICK k : k = st.bits
    OBVIOUS
<1>5. PICK B : B = 2^k
    OBVIOUS
<1>6. PICK W : W = Weight[Len(st.v)]
    OBVIOUS
<1>7. PICK acc : acc = st.accum
    OBVIOUS
<1>8. PICK val : val = ValueOf(st.v)
    OBVIOUS
<1>9. PICK x : x = acc + c * B
    OBVIOUS
<1>10. k \in Nat /\ B \in Nat \ {0} /\ W \in Nat \ {0} /\ acc \in Nat /\ val \in Nat
    BY <1>2, <1>4, <1>5, <1>6, <1>7, <1>8
<1>11. x \in Nat
    BY <1>3, <1>9, <1>10
<1>12. Held(st) = val + acc * W /\ Scale(st) = W * B
    BY <1>4, <1>5, <1>6, <1>7, <1>8 DEF Held, Scale
<1>13. val + x * W = Held(st) + c * Scale(st)
  <2>1. x * W = acc * W + c * (W * B) /\ acc * W \in Int /\ c * (W * B) \in Int
      BY <1>3, <1>9, <1>10
  <2>2. PICK g : g = c * (W * B)
      OBVIOUS
  <2>3. PICK l : l = acc * W
      OBVIOUS
  <2>4. val + (l + g) = (val + l) + g
      BY <2>1, <2>2, <2>3, <1>10
  <2> QED
      BY <2>1, <2>2, <2>3, <2>4, <1>12
<1>14. 2^(k + e) = B * 2^e
    BY <1>1, <1>5, <1>10, TwoPowers
<1>15. W * (B * 2^e) = 2^e * Scale(st)
    BY <1>1, <1>10, <1>12
<1>16. CASE st.bits + e >= SHIFT
  <2>1. PICK to : to = ReadBits(st, c, e)
      OBVIOUS
  <2>2. to = [accum |-> x \div BASE, bits |-> k + e - SHIFT, v |-> Append(st.v, x % BASE)]
    <3>1. to = Filled(st, x, e)
        BY <2>1, <1>4, <1>5, <1>7, <1>9, <1>16 DEF ReadBits
    <3> QED
        BY <3>1, <1>4, FilledIs
  <2>3. to.accum = x \div BASE /\ to.bits = k + e - SHIFT /\ to.v = Append(st.v, x % BASE)
      BY <2>2
  <2>4. x % BASE \in Digit /\ x % BASE \in Int
      BY <1>11, Remainder, DigitSizes DEF Digit
  <2>5. Len(to.v) = Len(st.v) + 1 /\ ValueOf(to.v) = val + W * (x % BASE)
      BY <2>3, <2>4, <1>2, <1>6, <1>8, AppendValue
  <2>6. Weight[Len(to.v)] = BASE * W
    <3>1. Weight[Len(st.v) + 1] = BASE * Weight[Len(st.v)]
        BY <1>2, WeightIs DEF Weights
    <3> QED
        BY <3>1, <2>5, <1>6
  <2>7. Held(to) = val + W * (x % BASE) + (x \div BASE) * (BASE * W)
      BY <2>3, <2>5, <2>6 DEF Held
  <2>8. Held(to) = val + x * W
      BY <2>7, <1>10, <1>11, SplitWord
  <2>9. 2^to.bits * BASE = B * 2^e
    <3>1. k + e - SHIFT \in Nat /\ (k + e - SHIFT) + SHIFT = k + e
        BY <1>1, <1>4, <1>10, <1>16
    <3>2. PICK j : j = k + e - SHIFT
        OBVIOUS
    <3>3. 2^(j + SHIFT) = 2^j * 2^SHIFT
        BY <3>1, <3>2, <1>1, TwoPowers
    <3> QED
        BY <3>1, <3>2, <3>3, <2>3, <1>14, DigitSizes
  <2>10. Scale(to) = W * (B * 2^e)
    <3>1. PICK j : j = 2^to.bits
        OBVIOUS
    <3>2. j \in Nat
      <4>1. to.bits \in Nat
          BY <2>3, <1>1, <1>4, <1>10, <1>16
      <4> QED
          BY <4>1, <3>1, Powers
    <3>3. (BASE * W) * j = W * (j * BASE)
        BY <3>2, <1>10, DigitSizes
    <3> QED
        BY <3>1, <3>3, <2>6, <2>9 DEF Scale
  <2> QED
      BY <2>1, <2>8, <2>10, <1>13, <1>15
<1>17. CASE ~ (st.bits + e >= SHIFT)
  <2>1. PICK to : to = ReadBits(st, c, e)
      OBVIOUS
  <2>2. to = [accum |-> x, bits |-> k + e, v |-> st.v]
    <3>1. to = Gathered(st, x, e)
        BY <2>1, <1>4, <1>5, <1>7, <1>9, <1>17 DEF ReadBits
    <3>2. st \in [accum : Nat, bits : Nat, v : Seq(Digit)]
        BY DEF Readings
    <3> QED
        BY <3>1, <3>2, <1>4, GatheredIs
  <2>3. to.accum = x /\ to.bits = k + e /\ to.v = st.v
      BY <2>2
  <2>4. Held(to) = val + x * W /\ Scale(to) = W * (B * 2^e)
      BY <2>3, <1>6, <1>8, <1>14 DEF Held, Scale
  <2> QED
      BY <2>1, <2>4, <1>13, <1>15
<1> QED
    BY <1>16, <1>17

\* A literal in base 2^bits gives its number.
LEMMA BinaryValue ==
    ASSUME NEW bits \in 1..SHIFT, NEW s \in Seq(0..2^bits - 1)
    PROVE  ValueOf(int_from_binary_base(s, bits)) = Evaluated(s, 2^bits)
<1> DEFINE n == Len(s)
           b == 2^bits
           p == Powered(b)
           a == Backward(s)
<1>1. b \in Nat /\ b >= 2
  <2>1. PICK i : i = bits - 1
      OBVIOUS
  <2>2. i \in Nat /\ bits = i + 1
      BY <2>1, DigitSizes
  <2>3. 2^i \in Nat \ {0} /\ 2^(i + 1) = 2 * 2^i
      BY <2>2, Powers
  <2> QED
      BY <2>2, <2>3
<1>2. n \in Nat /\ s \in Seq(Nat) /\ \A i \in 1..n : s[n + 1 - i] \in 0..2^bits - 1
  <2>1. s \in Seq(0..b - 1)
      OBVIOUS
  <2> HIDE DEF b
  <2>2. s \in Seq(Nat)
      BY <2>1, <1>1, DigitsWhole
  <2> DEFINE U == 0..b - 1
  <2>3. \A i \in 1..n : s[n + 1 - i] \in U
    <3> HIDE DEF U
    <3>1. s \in Seq(U)
        BY <2>1 DEF U
    <3> QED
        BY <3>1
  <2> QED
      BY <2>2, <2>3 DEF b
<1>3. Weights(p, b)
    BY <1>1, PowerWeights
<1>4. Makes(a, n, Evaluated(s, b), p) /\ \A k \in 1..n : a[k] = s[n + 1 - k]
    BY <1>1, <1>2, EvaluatedMakes
<1>5. PICK t : Totals(t, a, n, p) /\ t[n] = Evaluated(s, b)
    BY <1>4 DEF Makes
<1>6. t[0] = 0 /\ \A k \in 1..n : t[k] = t[k - 1] + a[k] * p[k - 1]
    BY <1>5 DEF Totals
<1>7. PICK h : Reading(h, s, bits) /\ int_from_binary_base(s, bits) = ReadOut(h[n])
    BY BinaryChain
<1>8. /\ \A i \in 0..n : h[i] \in Readings
      /\ h[0] = [accum |-> 0, bits |-> 0, v |-> <<>>]
      /\ \A i \in 1..n : h[i] = ReadBits(h[i - 1], s[n + 1 - i], bits)
    BY <1>7 DEF Reading
<1>9. p[0] = 1 /\ \A i \in Nat : p[i + 1] = b * p[i]
    BY <1>3 DEF Weights
<1> HIDE DEF p, n, a
<1> DEFINE S == {i \in 0..n : Held(h[i]) = t[i] /\ Scale(h[i]) = p[i]}
<1>10. 0 \in S
  <2>1. h[0].accum = 0 /\ h[0].bits = 0 /\ h[0].v = <<>> /\ Len(<<>>) = 0
      BY <1>8
  <2>2. Weight[0] = 1 /\ 2^0 = 1
      BY WeightIs DEF Weights
  <2>3. Held(h[0]) = 0 /\ Scale(h[0]) = 1
      BY <2>1, <2>2, NothingValue DEF Held, Scale
  <2>4. 0 \in 0..n
      BY <1>2
  <2> QED
      BY <2>3, <2>4, <1>6, <1>9
<1>11. ASSUME NEW i \in 0..n - 1, i \in S
       PROVE  i + 1 \in S
  <2>1. PICK j : j = i + 1
      OBVIOUS
  <2>2. i \in Nat /\ i \in 0..n /\ j \in 1..n /\ j - 1 = i /\ j \in 0..n
      BY <2>1, <1>2
  <2>3. PICK c : c = s[n + 1 - j]
      OBVIOUS
  <2>4. c \in 0..2^bits - 1 /\ a[j] = c
      BY <2>2, <2>3, <1>2, <1>4
  <2>5. h[j] = ReadBits(h[i], c, bits) /\ h[i] \in Readings
      BY <2>2, <2>3, <1>8
  <2>6. Held(h[j]) = Held(h[i]) + c * Scale(h[i]) /\ Scale(h[j]) = 2^bits * Scale(h[i])
      BY <2>4, <2>5, ReadBitsValue
  <2>7. t[j] = t[i] + c * p[i]
      BY <2>2, <2>4, <1>6
  <2>8. p[j] = b * p[i]
      BY <2>1, <2>2, <1>9
  <2>9. Held(h[i]) = t[i] /\ Scale(h[i]) = p[i]
      BY <1>11
  <2> QED
      BY <2>1, <2>2, <2>6, <2>7, <2>8, <2>9
<1> HIDE DEF S
<1>12. n \in S
  <2>1. 0 \in Int /\ n \in Int /\ 0 <= n /\ n \in 0..n
      BY <1>2
  <2> QED
      BY <2>1, <1>10, <1>11, Up
<1>13. PICK st : st = h[n]
    OBVIOUS
<1>14. Held(st) = Evaluated(s, b)
    BY <1>5, <1>12, <1>13 DEF S
<1>15. st \in Readings
  <2>1. n \in 0..n
      BY <1>2
  <2> QED
      BY <2>1, <1>8, <1>13
<1>16. /\ st.v \in Seq(Digit) /\ Len(st.v) \in Nat /\ st.accum \in Nat /\ st.bits \in Nat /\ st.bits < SHIFT
       /\ ValueOf(st.v) \in Nat /\ Weight[Len(st.v)] \in Nat \ {0} /\ 2^st.bits \in Nat \ {0}
    BY <1>15, ReadingIs
<1>17. st.accum < 2^st.bits
    BY <1>15 DEF Readings
<1>18. CASE st.bits > 0
  <2>1. st.accum \in Digit
    <3>1. st.bits \in 0..SHIFT
        BY <1>16, DigitSizes
    <3>2. 2^st.bits \in Nat \ {0} /\ 2^(SHIFT - st.bits) \in Nat \ {0} /\ 2^st.bits * 2^(SHIFT - st.bits) = BASE
        BY <3>1, Halves
    <3>3. PICK x : x = 2^st.bits
        OBVIOUS
    <3>4. PICK y : y = 2^(SHIFT - st.bits)
        OBVIOUS
    <3>5. x * 1 <= x * y
        BY <3>2, <3>3, <3>4, Monotone
    <3>6. st.accum < BASE
        BY <3>2, <3>3, <3>4, <3>5, <1>16, <1>17
    <3> QED
        BY <3>6, <1>16, DigitSizes DEF Digit
  <2>2. ReadOut(st) = Append(st.v, st.accum)
    <3>1. ReadOut(st) = st.v \o <<st.accum>>
        BY <1>18 DEF ReadOut
    <3> QED
        BY <3>1, <1>16, <2>1
  <2>3. ValueOf(Append(st.v, st.accum)) = ValueOf(st.v) + Weight[Len(st.v)] * st.accum
      BY <1>16, <2>1, AppendValue
  <2>4. Weight[Len(st.v)] * st.accum = st.accum * Weight[Len(st.v)]
      BY <1>16
  <2> QED
      BY <2>2, <2>3, <2>4, <1>7, <1>13, <1>14 DEF Held
<1>19. CASE ~ (st.bits > 0)
  <2>1. st.bits = 0 /\ 2^0 = 1
      BY <1>16, <1>19
  <2>2. st.accum = 0
      BY <2>1, <1>16, <1>17
  <2>3. ReadOut(st) = st.v
    <3>1. ReadOut(st) = st.v \o <<>>
        BY <1>19 DEF ReadOut
    <3> QED
        BY <3>1, <1>16
  <2>4. Held(st) = ValueOf(st.v)
      BY <2>2, <1>16 DEF Held
  <2> QED
      BY <2>3, <2>4, <1>7, <1>13, <1>14
<1> QED
    BY <1>18, <1>19

-----------------------------------------------------------------------------
(* Decimal text *)

\* Dividing twice.
LEMMA Nested ==
    ASSUME NEW x \in Nat, NEW m \in Nat \ {0}, NEW n \in Nat \ {0}
    PROVE  x \div (m * n) = (x \div m) \div n
<1>1. PICK U : U = x \div m
    OBVIOUS
<1>2. PICK L : L = x % m
    OBVIOUS
<1>3. PICK X : X = U \div n
    OBVIOUS
<1>4. PICK g : g = U % n
    OBVIOUS
<1>5. x \in Int
    OBVIOUS
<1>6. L \in 0..m - 1 /\ U \in Int /\ x = m * U + L
    BY <1>1, <1>2, <1>5, Division
<1>7. g \in 0..n - 1 /\ X \in Int /\ U = n * X + g
    BY <1>3, <1>4, <1>6, Division
<1>8. L \in Nat /\ L < m /\ g \in Nat /\ g < n
    BY <1>6, <1>7
<1>9. x = L + m * U
    BY <1>6, <1>8
<1>10. x \div (m * n) = X
    BY <1>5, <1>6, <1>7, <1>8, <1>9, TwoQuotients
<1> QED
    BY <1>1, <1>3, <1>10

\* Powers of ten.
LEMMA TenPowers ==
    ASSUME NEW n \in Nat
    PROVE  Power(10, 0) = 1 /\ Power(10, n) \in Nat \ {0} /\ Power(10, n + 1) = Power(10, n) * 10
<1>1. Power(10, 0) = 1 /\ Power(10, n) \in Nat /\ Power(10, n + 1) = 10 * Power(10, n)
    BY PowerNext
<1>2. Power(10, n) >= 2^n /\ 2^n \in Nat \ {0}
    BY PowerGrows, Powers
<1> QED
    BY <1>1, <1>2

\* The digits of a group.
LEMMA DecimalsAre ==
    ASSUME NEW x \in Nat, NEW n \in Nat
    PROVE  /\ Decimals(x, n) \in Seq(0..9) /\ Decimals(x, n) \in Seq(Nat) /\ Len(Decimals(x, n)) = n
           /\ \A i \in 1..n : Decimals(x, n)[i] = (x \div Power(10, n - i)) % 10
<1> DEFINE s == Decimals(x, n)
<1>1. s = [i \in 1..n |-> (x \div Power(10, n - i)) % 10]
    BY DEF Decimals
<1> HIDE DEF s
<1>2. \A i \in 1..n : s[i] = (x \div Power(10, n - i)) % 10
    BY <1>1
<1>3. \A i \in 1..n : s[i] \in 0..9 /\ s[i] \in Nat
  <2> TAKE i \in 1..n
  <2>1. n - i \in Nat
      OBVIOUS
  <2>2. PICK P : P = Power(10, n - i)
      OBVIOUS
  <2>3. P \in Nat \ {0}
      BY <2>1, <2>2, TenPowers
  <2>4. PICK U : U = x \div P
      OBVIOUS
  <2>5. U \in Int
      BY <2>3, <2>4, Division
  <2>6. U % 10 \in 0..9
      BY <2>5
  <2> QED
      BY <2>2, <2>4, <2>6, <1>2
<1>4. s \in Seq(0..9) /\ s \in Seq(Nat) /\ Len(s) = n
  <2> DEFINE U == 0..9
  <2>1. \A i \in 1..n : s[i] \in U
      BY <1>3
  <2>2. s = [i \in 1..n |-> s[i]]
      BY <1>1
  <2> HIDE DEF U
  <2>3. s \in Seq(U) /\ Len(s) = n
      BY <2>1, <2>2, Listed
  <2>4. s \in Seq(Nat)
      BY <1>3, <2>2, Listed
  <2> QED
      BY <2>3, <2>4 DEF U
<1> QED
    BY <1>2, <1>4 DEF s

LEMMA DecimalsValue ==
    ASSUME NEW x \in Nat, NEW n \in Nat, x < Power(10, n)
    PROVE  /\ Evaluated(Decimals(x, n), 10) = x
           /\ n >= 1 /\ Power(10, n - 1) <= x => Decimals(x, n)[1] # 0
<1> DEFINE s == Decimals(x, n)
<1>1. s \in Seq(Nat) /\ Len(s) = n /\ \A i \in 1..n : s[i] = (x \div Power(10, n - i)) % 10
    BY DecimalsAre
<1> HIDE DEF s
<1>2. PICK f : EvaluatedBy(f, s, 10) /\ Evaluated(s, 10) = f[n]
    BY <1>1, EvaluatedChain
<1>3. f[0] = 0 /\ \A i \in 1..n : f[i] = 10 * f[i - 1] + s[i]
    BY <1>1, <1>2 DEF EvaluatedBy
<1> DEFINE S == {i \in 0..n : f[i] = x \div Power(10, n - i)}
<1>4. 0 \in S
  <2>1. PICK P : P = Power(10, n)
      OBVIOUS
  <2>2. P \in Nat \ {0} /\ x < P
      BY <2>1, TenPowers
  <2>3. x \in Int /\ 0 \in Int /\ 0 <= x /\ x = P * 0 + x
      BY <2>2
  <2>4. x \div P = 0
      BY <2>2, <2>3, Quotient
  <2>5. n - 0 = n /\ 0 \in 0..n
      OBVIOUS
  <2> QED
      BY <2>1, <2>4, <2>5, <1>3
<1>5. ASSUME NEW i \in 0..n - 1, i \in S
      PROVE  i + 1 \in S
  <2>1. PICK j : j = i + 1
      OBVIOUS
  <2>2. PICK k : k = n - j
      OBVIOUS
  <2>3. j \in 1..n /\ j \in 0..n /\ j - 1 = i /\ k \in Nat /\ n - i = k + 1
      BY <2>1, <2>2
  <2>4. PICK P : P = Power(10, k)
      OBVIOUS
  <2>5. P \in Nat \ {0} /\ Power(10, k + 1) = P * 10
      BY <2>3, <2>4, TenPowers
  <2>6. PICK U : U = x \div P
      OBVIOUS
  <2>7. U \in Int
      BY <2>5, <2>6, Division
  <2>8. f[i] = x \div (P * 10)
      BY <2>3, <2>5, <1>5
  <2>9. 10 \in Nat \ {0}
      OBVIOUS
  <2>10. f[i] = U \div 10
      BY <2>5, <2>6, <2>8, <2>9, Nested
  <2>11. s[j] = U % 10
      BY <2>2, <2>3, <2>4, <2>6, <1>1
  <2>12. f[j] = 10 * (U \div 10) + (U % 10)
      BY <2>3, <2>10, <2>11, <1>3
  <2>13. f[j] = U
      BY <2>7, <2>9, <2>12, Division
  <2> QED
      BY <2>1, <2>2, <2>3, <2>4, <2>6, <2>13
<1> HIDE DEF S
<1>6. n \in S
  <2>1. 0 \in Int /\ n \in Int /\ 0 <= n /\ n \in 0..n
      OBVIOUS
  <2> QED
      BY <2>1, <1>4, <1>5, Up
<1>7. Evaluated(s, 10) = x
  <2>1. n - n = 0 /\ Power(10, 0) = 1 /\ x \div 1 = x
    <3>1. Power(10, 0) = 1
        BY TenPowers
    <3>2. x \in Int /\ 1 \in Nat \ {0} /\ 0 \in Int /\ 0 <= 0 /\ 0 < 1 /\ x = 1 * x + 0
        OBVIOUS
    <3>3. x \div 1 = x
        BY <3>2, Quotient
    <3> QED
        BY <3>1, <3>3
  <2>2. f[n] = x \div Power(10, n - n)
      BY <1>6 DEF S
  <2> QED
      BY <2>1, <2>2, <1>2
<1>8. ASSUME n >= 1, Power(10, n - 1) <= x
      PROVE  s[1] # 0
  <2>1. PICK k : k = n - 1
      OBVIOUS
  <2>2. k \in Nat /\ n = k + 1 /\ 1 \in 1..n
      BY <2>1, <1>8
  <2>3. PICK P : P = Power(10, k)
      OBVIOUS
  <2>4. P \in Nat \ {0} /\ P <= x /\ x < P * 10
      BY <2>1, <2>2, <2>3, <1>8, TenPowers
  <2>5. PICK U : U = x \div P
      OBVIOUS
  <2>6. PICK g : g = x % P
      OBVIOUS
  <2>7. x \in Int
      OBVIOUS
  <2>8. U \in Int /\ g \in 0..P - 1 /\ x = P * U + g
      BY <2>4, <2>5, <2>6, <2>7, Division
  <2>9. 9 \in Nat /\ x < P * (9 + 1)
      BY <2>4
  <2>10. U \in 0..9
      BY <2>4, <2>5, <2>9, Under
  <2>11. U # 0
    <3>1. ASSUME U = 0
          PROVE  FALSE
      <4>1. P * U = 0
          BY <3>1, <2>4
      <4> QED
          BY <4>1, <2>4, <2>8
    <3> QED
        BY <3>1
  <2>12. s[1] = U % 10
      BY <2>1, <2>2, <2>3, <2>5, <1>1
  <2>13. U % 10 = U
      BY <2>10
  <2> QED
      BY <2>11, <2>12, <2>13
<1> QED
    BY <1>7, <1>8 DEF s

\* The groups joined one after the other.
Flattening(f, t, S) ==
    /\ \A i \in 1..Len(t) : f[i] \in Seq(S)
    /\ f[1] = t[1]
    /\ \A i \in 2..Len(t) : f[i] = f[i - 1] \o t[i]

LEMMA FlattenIs ==
    ASSUME NEW S, NEW t, t \in Seq(Seq(S)), Len(t) >= 1
    PROVE  \E f : Flattening(f, t, S) /\ FlattenSeq(t) = f[Len(t)]
<1> DEFINE n == Len(t)
           V == Seq(S)
           c == t[1]
           E(i, y) == y \o t[i]
           G == [i \in 1 + 1..n |-> [y \in V |-> E(i, y)]]
           Is(f) == f = [i \in 1..n |-> IF i = 1 THEN c ELSE E(i, f[i - 1])]
           h == CHOOSE f : Is(f)
<1>1. n \in Nat /\ n \in Int /\ 1 \in Int /\ 1 <= n /\ n # 0 /\ c \in V
    OBVIOUS
<1>2. FlattenSeq(t) = h[n]
    BY <1>1 DEF FlattenSeq
<1>3. ASSUME NEW i \in 1 + 1..n, NEW y \in V
      PROVE  E(i, y) \in V
  <2>1. i \in 1..n
      BY <1>1
  <2>2. t[i] \in Seq(S)
      BY <2>1
  <2> QED
      BY <2>2, ConcatProperties
<1>4. \A i : \A y : E(i, y) = y \o t[i]
    OBVIOUS
<1> HIDE DEF E, n, V, c
<1>5. Maps(G, 1, n, V)
    BY <1>1, <1>3 DEF Maps
<1>6. \A i \in 1..n : \A y \in V : i # 1 => G[i][y] = E(i, y)
    BY <1>1
<1> HIDE DEF G
<1>7. PICK f : f \in [1..n -> V] /\ Chained(f, 1, n, c, G)
    BY <1>1, <1>5, Iteration, Zenon
<1>8. f = [i \in 1..n |-> IF i = 1 THEN c ELSE G[i][f[i - 1]]]
    BY <1>7 DEF Chained
<1>9. \A i \in 1..n : i # 1 => f[i - 1] \in V
    BY <1>1, <1>7
<1>10. Is(f)
    BY <1>6, <1>8, <1>9
<1>11. Is(h)
    BY <1>10
<1> HIDE DEF h
<1>12. \A i \in 1..n : h[i] = IF i = 1 THEN c ELSE E(i, h[i - 1])
    BY <1>11
<1>13. h[1] = c /\ h[1] \in V
    BY <1>1, <1>12
<1>14. \A i \in 1 + 1..n : h[i] = E(i, h[i - 1])
    BY <1>1, <1>12
<1>15. ASSUME NEW i \in 1 + 1..n, h[i - 1] \in V
       PROVE  h[i] \in V
    BY <1>3, <1>14, <1>15
<1>16. \A i \in 1..n : h[i] \in V
    BY <1>1, <1>13, <1>15, Stays, Zenon
<1>17. \A i \in 2..n : h[i] = h[i - 1] \o t[i]
  <2>1. 1 + 1 = 2
      OBVIOUS
  <2> QED
      BY <2>1, <1>4, <1>14
<1> QED
    BY <1>2, <1>13, <1>16, <1>17 DEF Flattening, n, V, c

\* How many digits the highest group has.
Digitwise(x, n) == Power(10, n) > x /\ (n = 1 \/ Power(10, n - 1) <= x)

\* The first group has as many digits as it needs.
LEMMA TopWidth ==
    ASSUME NEW x \in 0..DECIMAL_BASE - 1
    PROVE  \E n \in 1..DECIMAL_SHIFT : Digitwise(x, n)
<1>1. PICK k : k = DECIMAL_SHIFT
    OBVIOUS
<1>2. k \in Nat \ {0} /\ Power(10, k) = DECIMAL_BASE /\ x \in Nat /\ x < DECIMAL_BASE
    BY <1>1, DecimalBase, DigitsAssumption DEF DECIMAL_BASE
<1> DEFINE T == {n \in Nat : n >= 1 /\ x < Power(10, n)}
<1>3. k \in T
    BY <1>2
<1>4. PICK n \in T : \A m \in T : n <= m
  <2>1. T \in SUBSET Nat /\ T # {}
      BY <1>3
  <2> HIDE DEF T
  <2> QED
      BY <2>1, Least
<1>5. n \in Nat /\ n >= 1 /\ x < Power(10, n) /\ n <= k
    BY <1>3, <1>4
<1>6. n # 1 => Power(10, n - 1) <= x
  <2>1. ASSUME n # 1
        PROVE  Power(10, n - 1) <= x
    <3>1. PICK m : m = n - 1
        OBVIOUS
    <3>2. m \in Nat /\ m >= 1 /\ ~ (n <= m)
        BY <3>1, <2>1, <1>5
    <3>3. m \notin T
        BY <3>2, <1>4
    <3>4. ~ (x < Power(10, m))
        BY <3>2, <3>3
    <3>5. Power(10, m) \in Nat
        BY <3>2, TenPowers
    <3> QED
        BY <3>1, <3>4, <3>5, <1>2
  <2> QED
      BY <2>1
<1>7. Power(10, n) \in Nat
    BY <1>5, TenPowers
<1>8. n \in 1..DECIMAL_SHIFT /\ Power(10, n) > x
    BY <1>1, <1>2, <1>5, <1>7
<1> QED
    BY <1>6, <1>8 DEF Digitwise

\* How many digits of a group are written.
GroupWidth(g, i) == IF i < Len(g) THEN DECIMAL_SHIFT ELSE CHOOSE n \in 1..DECIMAL_SHIFT : Digitwise(g[i], n)

LEMMA WidthIs ==
    ASSUME NEW g \in Seq(0..DECIMAL_BASE - 1), NEW i \in 1..Len(g)
    PROVE  LET n == GroupWidth(g, i)
           IN  /\ n \in Nat /\ n >= 1 /\ g[i] \in Nat /\ g[i] < Power(10, n)
               /\ i < Len(g) => Power(10, n) = DECIMAL_BASE
               /\ i = Len(g) => n = 1 \/ Power(10, n - 1) <= g[i]
<1> DEFINE U == 0..DECIMAL_BASE - 1
<1>1. g[i] \in U
  <2> HIDE DEF U
  <2>1. g \in Seq(U)
      BY DEF U
  <2> QED
      BY <2>1
<1>2. PICK x : x = g[i]
    OBVIOUS
<1>3. x \in 0..DECIMAL_BASE - 1 /\ x \in Nat /\ x < DECIMAL_BASE
    BY <1>1, <1>2, DecimalBase
<1>4. DECIMAL_SHIFT \in Nat \ {0} /\ Power(10, DECIMAL_SHIFT) = DECIMAL_BASE
    BY DigitsAssumption DEF DECIMAL_BASE
<1>5. PICK n : n = GroupWidth(g, i)
    OBVIOUS
<1>6. CASE i < Len(g)
  <2>1. n = DECIMAL_SHIFT /\ i # Len(g)
      BY <1>5, <1>6 DEF GroupWidth
  <2>2. n \in Nat /\ n >= 1 /\ Power(10, n) = DECIMAL_BASE
      BY <2>1, <1>4
  <2> QED
      BY <2>1, <2>2, <1>2, <1>3, <1>5
<1>7. CASE ~ (i < Len(g))
  <2>1. n = CHOOSE m \in 1..DECIMAL_SHIFT : Digitwise(x, m)
      BY <1>2, <1>5, <1>7 DEF GroupWidth
  <2>2. \E m \in 1..DECIMAL_SHIFT : Digitwise(x, m)
      BY <1>3, TopWidth
  <2>3. n \in 1..DECIMAL_SHIFT /\ Digitwise(x, n)
      BY <2>1, <2>2
  <2>4. n \in Nat /\ n >= 1
      BY <2>3, <1>4
  <2>5. Power(10, n) > x /\ (n = 1 \/ Power(10, n - 1) <= x) /\ Power(10, n) \in Nat
      BY <2>3, <2>4, TenPowers DEF Digitwise
  <2>6. x < Power(10, n)
      BY <2>5, <1>3
  <2> QED
      BY <2>4, <2>5, <2>6, <1>2, <1>3, <1>5, <1>7
<1> QED
    BY <1>6, <1>7

\* What is written, group by group.
TextParts(g) == [i \in 1..Len(g) |-> Decimals(g[Len(g) + 1 - i], GroupWidth(g, Len(g) + 1 - i))]

LEMMA TextIs ==
    ASSUME NEW g \in Seq(0..DECIMAL_BASE - 1)
    PROVE  DecimalText(g) = FlattenSeq(TextParts(g))
<1> DEFINE W(i) == IF i < Len(g) THEN DECIMAL_SHIFT
                   ELSE CHOOSE n \in 1..DECIMAL_SHIFT : Power(10, n) > g[i] /\ (n = 1 \/ Power(10, n - 1) <= g[i])
           t == [i \in DOMAIN g |-> Decimals(g[i], W(i))]
<1>1. DecimalText(g) = FlattenSeq(Reverse(t))
    BY DEF DecimalText
<1>2. \A i : W(i) = GroupWidth(g, i)
    BY DEF GroupWidth, Digitwise
<1> HIDE DEF W
<1>3. DOMAIN g = 1..Len(g) /\ Len(g) \in Nat
    OBVIOUS
<1>4. DOMAIN t = 1..Len(g) /\ Len(t) = Len(g)
    BY <1>3
<1>5. \A i \in 1..Len(g) : t[i] = Decimals(g[i], GroupWidth(g, i))
    BY <1>2, <1>3
<1> HIDE DEF t
<1>6. Reverse(t) = [i \in 1..Len(g) |-> t[(Len(g) - i) + 1]]
    BY <1>4 DEF Reverse
<1>7. \A i \in 1..Len(g) : (Len(g) - i) + 1 = Len(g) + 1 - i /\ Len(g) + 1 - i \in 1..Len(g)
    BY <1>3
<1>8. \A i \in 1..Len(g) : t[(Len(g) - i) + 1] = Decimals(g[Len(g) + 1 - i], GroupWidth(g, Len(g) + 1 - i))
  <2> TAKE i \in 1..Len(g)
  <2> QED
      BY <1>5, <1>7
<1>9. Reverse(t) = TextParts(g)
    BY <1>6, <1>8 DEF TextParts
<1> QED
    BY <1>1, <1>9

\* The decimal text of groups that make x is the numeral of x.
LEMMA TextValue ==
    ASSUME NEW g \in Seq(0..DECIMAL_BASE - 1), Len(g) >= 1, Len(g) = 1 \/ g[Len(g)] # 0,
           NEW x, Makes(g, Len(g), x, Powered(DECIMAL_BASE))
    PROVE  Plain(DecimalText(g), 10) /\ Evaluated(DecimalText(g), 10) = x
<1> DEFINE n == Len(g)
           b == DECIMAL_BASE
           U == 0..9
           t == TextParts(g)
<1>1. n \in Nat /\ n >= 1 /\ b \in Nat /\ b >= 2 /\ g \in Seq(Nat)
  <2>1. b \in Nat /\ b >= 2
      BY DecimalBase
  <2> HIDE DEF b
  <2>2. g \in Seq(0..b - 1)
      BY DEF b
  <2> QED
      BY <2>1, <2>2, DigitsWhole
<1> DEFINE rev == Backward(g)
<1>2. \A i \in 1..n : rev[i] = g[n + 1 - i] /\ n + 1 - i \in 1..n
    BY <1>1 DEF Backward
<1>3. rev \in Seq(Nat) /\ Len(rev) = n
  <2>1. rev = [i \in 1..n |-> rev[i]]
      BY DEF Backward
  <2> HIDE DEF rev, n
  <2>2. \A i \in 1..n : rev[i] \in Nat
    <3> TAKE i \in 1..n
    <3>1. PICK j : j = n + 1 - i
        OBVIOUS
    <3>2. rev[i] = g[j] /\ j \in 1..n
        BY <3>1, <1>2
    <3>3. g[j] \in Nat
        BY <3>2, <1>1 DEF n
    <3> QED
        BY <3>2, <3>3
  <2> QED
      BY <2>1, <2>2, <1>1, Listed
<1>4. \A i \in 1..n : LET y == rev[i]
                          k == GroupWidth(g, n + 1 - i)
                      IN  /\ k \in Nat /\ k >= 1 /\ y \in Nat /\ y < Power(10, k)
                          /\ i > 1 => Power(10, k) = b
                          /\ i = 1 => k = 1 \/ Power(10, k - 1) <= y
                          /\ t[i] = Decimals(y, k)
  <2> TAKE i \in 1..n
  <2>1. PICK j : j = n + 1 - i
      OBVIOUS
  <2>2. j \in 1..n /\ rev[i] = g[j] /\ (i > 1 => j < n) /\ (i = 1 => j = n)
      BY <2>1, <1>1, <1>2
  <2>3. t[i] = Decimals(g[j], GroupWidth(g, j))
      BY <2>1, <2>2 DEF TextParts
  <2> HIDE DEF rev, t, n, b
  <2>4. PICK k : k = GroupWidth(g, j)
      OBVIOUS
  <2>5. /\ k \in Nat /\ k >= 1 /\ g[j] \in Nat /\ g[j] < Power(10, k)
        /\ j < n => Power(10, k) = b
        /\ j = n => k = 1 \/ Power(10, k - 1) <= g[j]
      BY <2>2, <2>4, WidthIs DEF n, b
  <2> QED
      BY <2>1, <2>2, <2>3, <2>4, <2>5
<1>5. t \in Seq(Seq(U)) /\ Len(t) = n
  <2>1. t = [i \in 1..n |-> t[i]]
      BY DEF TextParts
  <2>2. \A i \in 1..n : t[i] \in Seq(U)
    <3> TAKE i \in 1..n
    <3>1. PICK k : k = GroupWidth(g, n + 1 - i)
        OBVIOUS
    <3>2. k \in Nat /\ rev[i] \in Nat /\ t[i] = Decimals(rev[i], k)
        BY <3>1, <1>4
    <3> HIDE DEF rev, t
    <3> QED
        BY <3>2, DecimalsAre
  <2> HIDE DEF t, U
  <2> QED
      BY <2>1, <2>2, <1>1, Listed
<1> HIDE DEF rev, t
<1>6. PICK f : Flattening(f, t, U) /\ FlattenSeq(t) = f[n]
    BY <1>1, <1>5, FlattenIs
<1>7. /\ \A i \in 1..n : f[i] \in Seq(U)
      /\ f[1] = t[1]
      /\ \A i \in 2..n : f[i] = f[i - 1] \o t[i]
    BY <1>5, <1>6 DEF Flattening
<1>8. DecimalText(g) = f[n]
    BY <1>6, TextIs DEF t
<1>9. PICK e : EvaluatedBy(e, rev, b) /\ Evaluated(rev, b) = e[n]
    BY <1>1, <1>3, EvaluatedChain
<1>10. e[0] = 0 /\ \A i \in 1..n : e[i] = b * e[i - 1] + rev[i] /\ e[i - 1] \in Nat
  <2>1. e[0] = 0 /\ (\A i \in 1..n : e[i] = b * e[i - 1] + rev[i]) /\ \A i \in 0..n : e[i] \in Nat
      BY <1>3, <1>9 DEF EvaluatedBy
  <2>2. \A i \in 1..n : i - 1 \in 0..n
      BY <1>1
  <2> QED
      BY <2>1, <2>2
<1>11. \A y : y \in Seq(U) => y \in Seq(Nat)
  <2> TAKE y
  <2> HAVE y \in Seq(U)
  <2>1. 10 - 1 = 9 /\ 10 \in Nat
      OBVIOUS
  <2>2. y \in Seq(0..10 - 1)
      BY <2>1
  <2> QED
      BY <2>1, <2>2, DigitsWhole
<1> HIDE DEF U, n, b
<1> DEFINE Good(i) == Evaluated(f[i], 10) = e[i] /\ Len(f[i]) >= 1 /\ f[i][1] = t[1][1]
           S == {i \in 1..n : Good(i)}
<1>12. PICK k1 : k1 = GroupWidth(g, n + 1 - 1)
    OBVIOUS
<1>13. PICK y1 : y1 = rev[1]
    OBVIOUS
<1>14. k1 \in Nat /\ k1 >= 1 /\ y1 \in Nat /\ y1 < Power(10, k1) /\ (k1 = 1 \/ Power(10, k1 - 1) <= y1) /\ t[1] = Decimals(y1, k1)
  <2>1. 1 \in 1..n
      BY <1>1
  <2> QED
      BY <2>1, <1>4, <1>12, <1>13
<1>15. Len(t[1]) = k1 /\ Evaluated(t[1], 10) = y1
    BY <1>14, DecimalsAre, DecimalsValue
<1>16. 1 \in S
  <2>1. e[1] = b * e[0] + rev[1] /\ 1 \in 1..n
    <3>1. 1 \in 1..n /\ 1 - 1 = 0
        BY <1>1
    <3> QED
        BY <3>1, <1>10
  <2>2. e[1] = y1
      BY <2>1, <1>1, <1>10, <1>13, <1>14
  <2> QED
      BY <2>1, <2>2, <1>7, <1>14, <1>15
<1>17. ASSUME NEW i \in 1..n - 1, i \in S
       PROVE  i + 1 \in S
  <2>1. PICK j : j = i + 1
      OBVIOUS
  <2>2. j \in 1..n /\ j \in 2..n /\ j - 1 = i /\ j > 1 /\ i \in 1..n
      BY <2>1, <1>1
  <2>3. PICK k : k = GroupWidth(g, n + 1 - j)
      OBVIOUS
  <2>4. PICK y : y = rev[j]
      OBVIOUS
  <2>5. k \in Nat /\ k >= 1 /\ y \in Nat /\ y < Power(10, k) /\ Power(10, k) = b /\ t[j] = Decimals(y, k)
      BY <2>2, <2>3, <2>4, <1>4
  <2>6. t[j] \in Seq(Nat) /\ Len(t[j]) = k /\ Evaluated(t[j], 10) = y
      BY <2>5, DecimalsAre, DecimalsValue
  <2>7. f[j] = f[i] \o t[j] /\ f[i] \in Seq(Nat)
      BY <2>2, <1>7, <1>11
  <2>8. Evaluated(f[i] \o t[j], 10) = Evaluated(f[i], 10) * Power(10, Len(t[j])) + Evaluated(t[j], 10)
      BY <2>6, <2>7, EvaluatedJoined
  <2>9. Evaluated(f[i], 10) = e[i] /\ Len(f[i]) >= 1 /\ f[i][1] = t[1][1]
      BY <1>17
  <2>10. e[j] = b * e[i] + y /\ e[i] \in Nat
      BY <2>2, <2>4, <1>10
  <2>11. e[i] * b = b * e[i]
      BY <2>10, <1>1
  <2>12. Evaluated(f[j], 10) = e[j]
      BY <2>5, <2>6, <2>7, <2>8, <2>9, <2>10, <2>11
  <2>13. Len(f[j]) >= 1 /\ f[j][1] = f[i][1]
    <3>1. PICK u : u = f[i]
        OBVIOUS
    <3>2. PICK z : z = t[j]
        OBVIOUS
    <3>3. u \in Seq(Nat) /\ z \in Seq(Nat) /\ Len(u) >= 1 /\ f[j] = u \o z
        BY <3>1, <3>2, <2>6, <2>7, <2>9
    <3>4. Len(u \o z) = Len(u) + Len(z) /\ (u \o z)[1] = u[1]
        BY <3>3
    <3>5. Len(u) \in Nat /\ Len(z) \in Nat
        BY <3>3
    <3> QED
        BY <3>1, <3>3, <3>4, <3>5
  <2> QED
      BY <2>1, <2>2, <2>9, <2>12, <2>13
<1> HIDE DEF S
<1>18. n \in S
  <2>1. 1 \in Int /\ n \in Int /\ 1 <= n /\ n \in 1..n
      BY <1>1
  <2> QED
      BY <2>1, <1>16, <1>17, Up
<1>19. Evaluated(f[n], 10) = Evaluated(rev, b) /\ Len(f[n]) >= 1 /\ f[n][1] = t[1][1]
    BY <1>9, <1>18 DEF S
<1>20. Evaluated(rev, b) = x
  <2>1. /\ Makes(Backward(rev), n, Evaluated(rev, b), Powered(b))
        /\ \A k \in 1..n : Backward(rev)[k] = rev[n + 1 - k]
      BY <1>1, <1>3, EvaluatedMakes
  <2>2. \A k \in 1..n : Backward(rev)[k] = g[k]
    <3> TAKE k \in 1..n
    <3>1. PICK i : i = n + 1 - k
        OBVIOUS
    <3>2. i \in 1..n /\ n + 1 - i = k
        BY <3>1, <1>1
    <3> QED
        BY <3>1, <3>2, <2>1, <1>2
  <2>3. Makes(g, n, x, Powered(b))
      BY DEF n, b
  <2> QED
      BY <2>1, <2>2, <2>3, <1>1, MakesSame
<1>21. CASE n = 1 /\ k1 = 1
  <2>1. f[n] = t[1] /\ Len(f[n]) = 1
      BY <1>7, <1>15, <1>21
  <2>2. f[n] \in Seq(U)
      BY <1>1, <1>7, <1>21
  <2>3. f[n] \in Seq(0..10 - 1)
    <3>1. 10 - 1 = 9
        OBVIOUS
    <3> QED
        BY <2>2, <3>1 DEF U
  <2> QED
      BY <2>1, <2>3, <1>8, <1>19, <1>20 DEF Plain
<1>22. CASE ~ (n = 1 /\ k1 = 1)
  <2>1. Power(10, k1 - 1) <= y1
    <3>1. CASE k1 # 1
        BY <3>1, <1>14
    <3>2. CASE k1 = 1
      <4>1. n # 1 /\ y1 = g[n]
        <5>1. 1 \in 1..n /\ n + 1 - 1 = n
            BY <1>1
        <5> QED
            BY <5>1, <3>2, <1>2, <1>13, <1>22
      <4>2. y1 # 0
          BY <4>1 DEF n
      <4>3. k1 - 1 = 0 /\ Power(10, 0) = 1
          BY <3>2, TenPowers
      <4> QED
          BY <4>2, <4>3, <1>14
    <3> QED
        BY <3>1, <3>2
  <2>2. t[1][1] # 0
      BY <2>1, <1>14, DecimalsValue
  <2>3. f[n] \in Seq(U)
    <3>1. n \in 1..n
        BY <1>1
    <3> QED
        BY <3>1, <1>7
  <2>4. f[n] \in Seq(0..10 - 1)
    <3>1. 10 - 1 = 9
        OBVIOUS
    <3> QED
        BY <2>3, <3>1 DEF U
  <2> QED
      BY <2>2, <2>4, <1>8, <1>19, <1>20 DEF Plain
<1> QED
    BY <1>21, <1>22

\* int_repr gives the numeral.
LEMMA ReprText ==
    ASSUME NEW a \in Seq(Digit)
    PROVE  DecimalText(DecimalGroups(a)) = Exact!Numeral(ValueOf(a), 10)
<1>1. PICK s : InGroups(s, a) /\ DecimalGroups(a) = IF s = <<>> THEN <<0>> ELSE s
    BY GroupsMade
<1>2. s \in Seq(0..DECIMAL_BASE - 1) /\ Leading(s) /\ Worth(s, Powered(DECIMAL_BASE), ValueOf(a))
    BY <1>1 DEF InGroups
<1>3. Makes(s, Len(s), ValueOf(a), Powered(DECIMAL_BASE))
    BY <1>2 DEF Worth, Makes
<1>4. Weights(Powered(DECIMAL_BASE), DECIMAL_BASE)
    BY PowerWeights, DecimalBase
<1>5. PICK g : g = DecimalGroups(a)
    OBVIOUS
<1>6. /\ g \in Seq(0..DECIMAL_BASE - 1) /\ Len(g) >= 1 /\ (Len(g) = 1 \/ g[Len(g)] # 0)
      /\ Makes(g, Len(g), ValueOf(a), Powered(DECIMAL_BASE))
  <2>1. CASE s = <<>>
    <3>1. g = <<0>> /\ Len(s) = 0
        BY <2>1, <1>1, <1>5
    <3>2. g[1] = 0 /\ Len(g) = 1
        BY <3>1
    <3>3. 0 \in 0..DECIMAL_BASE - 1
        BY DecimalBase
    <3>4. g \in Seq(0..DECIMAL_BASE - 1)
        BY <3>1, <3>3
    <3>5. Makes(s, 0, 0, Powered(DECIMAL_BASE))
        BY MakesNothing
    <3>6. ValueOf(a) = 0
        BY <3>1, <3>5, <1>3, MakesSame
    <3>7. \A k \in 1..1 : g[k] = 0
        BY <3>2
    <3>8. Makes(g, 1, 0, Powered(DECIMAL_BASE))
        BY <3>7, <1>4, MakesZero
    <3> QED
        BY <3>2, <3>4, <3>6, <3>8
  <2>2. CASE s # <<>>
    <3>1. g = s
        BY <2>2, <1>1, <1>5
    <3>2. Len(s) >= 1
      <4> DEFINE U == 0..DECIMAL_BASE - 1
      <4> HIDE DEF U
      <4>1. s \in Seq(U)
          BY <1>2 DEF U
      <4> QED
          BY <4>1, <2>2
    <3>3. s[Len(s)] # 0
        BY <2>2, <1>2 DEF Leading
    <3> QED
        BY <3>1, <3>2, <3>3, <1>2, <1>3
  <2> QED
      BY <2>1, <2>2
<1>7. Plain(DecimalText(g), 10) /\ Evaluated(DecimalText(g), 10) = ValueOf(a)
    BY <1>6, TextValue
<1>8. ValueOf(a) \in Nat
    BY ValueBelow
<1>9. Exact!Numeral(ValueOf(a), 10) = DecimalText(g)
  <2>1. PICK y : y = ValueOf(a)
      OBVIOUS
  <2>2. PICK t : t = DecimalText(g)
      OBVIOUS
  <2>3. y \in Nat /\ Plain(t, 10) /\ y = Evaluated(t, 10)
      BY <2>1, <2>2, <1>7, <1>8
  <2> QED
      BY <2>1, <2>2, <2>3, NumeralUnique
<1> QED
    BY <1>5, <1>9

\* What the digits below m + n make, in two parts.
LEMMA PartsValue ==
    ASSUME NEW a \in Seq(Digit), NEW m \in Nat, NEW n \in Nat, m + n <= Len(a)
    PROVE  /\ SubSeq(a, 1, m) \in Seq(Digit) /\ SubSeq(a, m + 1, m + n) \in Seq(Digit)
           /\ ValueOf(SubSeq(a, 1, m + n)) = ValueOf(SubSeq(a, 1, m)) + Weight[m] * ValueOf(SubSeq(a, m + 1, m + n))
<1>1. PICK l : l = m + n
    OBVIOUS
<1>2. Len(a) \in Nat /\ m \in 0..Len(a) /\ l \in m..Len(a)
    BY <1>1
<1>3. SubSeq(a, 1, l) = SubSeq(a, 1, m) \o SubSeq(a, m + 1, l)
    BY <1>2, TwoParts
<1>4. SubSeq(a, 1, m) \in Seq(Digit) /\ Len(SubSeq(a, 1, m)) = m
    BY <1>2, Prefix
<1>5. SubSeq(a, m + 1, l) \in Seq(Digit)
  <2>1. m + 1 \in 1..Len(a) + 1 /\ l \in m + 1 - 1..Len(a)
      BY <1>2
  <2>2. PICK k : k = m + 1
      OBVIOUS
  <2>3. k \in 1..Len(a) + 1 /\ l \in k - 1..Len(a)
      BY <2>1, <2>2
  <2> QED
      BY <2>2, <2>3, PartIs
<1>6. PICK x : x = SubSeq(a, 1, m)
    OBVIOUS
<1>7. PICK y : y = SubSeq(a, m + 1, l)
    OBVIOUS
<1>8. x \in Seq(Digit) /\ y \in Seq(Digit) /\ Len(x) = m /\ SubSeq(a, 1, l) = x \o y
    BY <1>3, <1>4, <1>5, <1>6, <1>7
<1>9. ValueOf(x \o y) = ValueOf(x) + Weight[Len(x)] * ValueOf(y)
    BY <1>8, JoinedValue
<1> QED
    BY <1>1, <1>6, <1>7, <1>8, <1>9

\* A digit put in front.
LEMMA FrontValue ==
    ASSUME NEW x \in Digit, NEW a \in Seq(Digit)
    PROVE  ValueOf(<<x>> \o a) = x + BASE * ValueOf(a)
<1>1. PICK s : s = <<x>>
    OBVIOUS
<1>2. s \in Seq(Digit) /\ Len(s) = 1 /\ ValueOf(s) = x
    BY <1>1, SingleValue
<1>3. ValueOf(s \o a) = ValueOf(s) + Weight[Len(s)] * ValueOf(a)
    BY <1>2, JoinedValue
<1>4. Weight[1] = BASE
  <2>1. Weight[0] = 1 /\ Weight[0 + 1] = BASE * Weight[0] /\ BASE \in Nat
      BY WeightIs DEF Weights
  <2>2. 0 + 1 = 1 /\ BASE * 1 = BASE
      BY <2>1
  <2> QED
      BY <2>1, <2>2
<1> QED
    BY <1>1, <1>2, <1>3, <1>4

-----------------------------------------------------------------------------
(* Division *)

\* The dividend that is left: the digits not yet divided, and what remains of the others.
Lower == ValueOf(SubSeq(v, 1, at + size_w))

\* The loops of x_divrem keep |left| = |right| * quot + what is left, both shifted.
DividendKept ==
    /\ ValueOf(w) = 2^d * ValueOf(right.v)
    /\ 2^d * ValueOf(left.v) = Weight[at] * (ValueOf(quot) * ValueOf(w)) + Lower

\* The digits below the one divided stay.
LEMMA LowerIs ==
    ASSUME Shifted, at > 0, NEW a \in Seq(Digit), Len(a) = size_w
    PROVE  \E L \in Nat :
              /\ Lower = L + Weight[at - 1] * Extended
              /\ ValueOf(SubSeq(Replaced(a), 1, at + size_w - 1)) = L + Weight[at - 1] * ValueOf(a)
<1>1. /\ v \in Seq(Digit) /\ at \in Int /\ size_w \in Nat /\ size_w >= 2 /\ Len(v) \in Nat
      /\ at + size_w \in 1..Len(v)
    BY PlacesShifted
<1>2. PICK m : m = at - 1
    OBVIOUS
<1>3. PICK n : n = size_w + 1
    OBVIOUS
<1>4. PICK k : k = size_w
    OBVIOUS
<1>5. m \in Nat /\ n \in Nat /\ k \in Nat /\ m + n = at + size_w /\ m + 1 = at /\ m + n <= Len(v) /\ m + k = at + size_w - 1
      /\ m + k <= Len(v)
    BY <1>1, <1>2, <1>3, <1>4
<1>6. ValueOf(SubSeq(v, 1, m + n)) = ValueOf(SubSeq(v, 1, m)) + Weight[m] * ValueOf(SubSeq(v, m + 1, m + n))
    BY <1>1, <1>5, PartsValue
<1>7. Lower = ValueOf(SubSeq(v, 1, m)) + Weight[m] * Extended
    BY <1>5, <1>6 DEF Lower, Extended
<1>8. PICK z : z = Replaced(a)
    OBVIOUS
<1>9. z \in Seq(Digit) /\ Len(z) = Len(v) /\ SubSeq(z, at, at + size_w - 1) = a
    BY <1>8, ReplacedIs
<1>10. ValueOf(SubSeq(z, 1, m + k)) = ValueOf(SubSeq(z, 1, m)) + Weight[m] * ValueOf(SubSeq(z, m + 1, m + k))
    BY <1>1, <1>5, <1>9, PartsValue
<1>11. SubSeq(z, 1, m) = SubSeq(v, 1, m)
  <2>1. \A i \in 1..m : z[i] = v[i]
    <3> TAKE i \in 1..m
    <3>1. i \in DOMAIN v /\ i \notin at..at + size_w - 1
        BY <1>1, <1>5
    <3> QED
        BY <3>1, <1>8 DEF Replaced
  <2>2. m \in 0..Len(v) /\ m \in 0..Len(z)
      BY <1>1, <1>5, <1>9
  <2>3. PICK x : x = SubSeq(z, 1, m)
      OBVIOUS
  <2>4. PICK y : y = SubSeq(v, 1, m)
      OBVIOUS
  <2>5. x \in Seq(Digit) /\ Len(x) = m /\ \A i \in 1..m : x[i] = z[i]
      BY <2>2, <2>3, <1>9, Prefix
  <2>6. y \in Seq(Digit) /\ Len(y) = m /\ \A i \in 1..m : y[i] = v[i]
      BY <2>2, <2>4, <1>1, Prefix
  <2>7. \A i \in 1..m : x[i] = y[i]
      BY <2>1, <2>5, <2>6
  <2>8. x = y
      BY <2>5, <2>6, <2>7, SeqEqual
  <2> QED
      BY <2>3, <2>4, <2>8
<1>12. ValueOf(SubSeq(z, 1, at + size_w - 1)) = ValueOf(SubSeq(v, 1, m)) + Weight[m] * ValueOf(a)
    BY <1>5, <1>9, <1>10, <1>11
<1>13. ValueOf(SubSeq(v, 1, m)) \in Nat
  <2>1. SubSeq(v, 1, m) \in Seq(Digit)
    <3>1. m \in 0..Len(v)
        BY <1>1, <1>5
    <3> QED
        BY <3>1, <1>1, Prefix
  <2> QED
      BY <2>1, ValueBelow
<1> QED
    BY <1>2, <1>7, <1>8, <1>12, <1>13

\* The products of the step, put together.
LEMMA QuotientGrows ==
    ASSUME NEW X \in Int, NEW P \in Int, NEW L \in Int, NEW b \in Int, NEW Q \in Int, NEW W \in Int, NEW D \in Int, NEW E \in Int,
           X = (b * P) * (Q * W) + (L + P * E)
    PROVE  X = P * ((D + b * Q) * W) + (L + P * (E - D * W))
<1>1. (b * P) * (Q * W) = P * ((b * Q) * W)
    OBVIOUS
<1>2. (D + b * Q) * W = D * W + (b * Q) * W
    OBVIOUS
<1>3. P * (D * W + (b * Q) * W) = P * (D * W) + P * ((b * Q) * W)
    OBVIOUS
<1>4. P * (E - D * W) = P * E - P * (D * W)
    OBVIOUS
<1>5. PICK k1 \in Int : k1 = P * (D * W)
    OBVIOUS
<1>6. PICK k2 \in Int : k2 = P * ((b * Q) * W)
    OBVIOUS
<1>7. PICK k3 \in Int : k3 = P * E
    OBVIOUS
<1>8. X = k2 + (L + k3)
    BY <1>1, <1>6, <1>7
<1>9. P * ((D + b * Q) * W) = k1 + k2
    BY <1>2, <1>3, <1>5, <1>6
<1>10. P * (E - D * W) = k3 - k1
    BY <1>4, <1>5, <1>7
<1> QED
    BY <1>8, <1>9, <1>10

\* The dividend is kept when a digit of the quotient is found.
LEMMA SubtractExact ==
    ASSUME IntsInv, Integer(left), Integer(right), DividendKept, Subtract
    PROVE  DividendKept'
<1> USE DEF IntsInv, AssertsHold
<1>1. Dividing /\ pc = "subtract" /\ Corrected
    BY DEF Subtract
<1>2. Shifted /\ Remaining < ValueOf(w) /\ at > 0 /\ q \in DigitDue..DigitDue + 1
    BY <1>1 DEF Dividing, Corrected
<1> DEFINE s == Difference.v
           rest == v[at + size_w] + Difference.borrow
           a == IF rest < 0 THEN PlusDivisor(s) ELSE s
           digit == IF rest < 0 THEN q - 1 ELSE q
<1>3. /\ v' = Replaced(IF rest < 0 THEN PlusDivisor(s) ELSE s)
      /\ quot' = <<digit>> \o quot
      /\ UNCHANGED <<left, right, w, d>>
    BY DEF Subtract, Continue
<1>4. DigitDue \in Nat /\ DigitDue < BASE
    BY <1>2, DigitDueIs
<1>5. /\ digit = DigitDue
      /\ a \in Seq(Digit) /\ Len(a) = size_w /\ ValueOf(a) = Extended - DigitDue * ValueOf(w)
    BY <1>2, SubtractIs
<1>6. v' = Replaced(a) /\ quot' = <<DigitDue>> \o quot
    BY <1>3, <1>5
<1> HIDE DEF a, rest, digit, s
<1>7. v' \in Seq(Digit) /\ Len(v') = Len(v)
    BY <1>2, <1>5, <1>6, ReplacedIs
<1>8. quot \in Seq(Digit) /\ DigitDue \in Digit /\ v \in Seq(Digit) /\ w \in Seq(Digit)
    BY <1>2, <1>4, DigitSizes DEF Shifted, Digit
<1>9. Len(quot') = Len(quot) + 1 /\ ValueOf(quot') = DigitDue + BASE * ValueOf(quot)
  <2>1. <<DigitDue>> \in Seq(Digit) /\ Len(<<DigitDue>>) = 1
      BY <1>8
  <2>2. Len(quot') = 1 + Len(quot)
      BY <2>1, <1>6, <1>8, ConcatProperties
  <2>3. ValueOf(<<DigitDue>> \o quot) = DigitDue + BASE * ValueOf(quot)
      BY <1>8, FrontValue
  <2>4. Len(quot) \in Nat
      BY <1>8
  <2> QED
      BY <2>2, <2>3, <2>4, <1>6
<1>10. at' = at - 1 /\ size_w' = size_w /\ at \in Int /\ size_w \in Nat
  <2>1. Len(v) \in Nat /\ Len(w) \in Nat /\ Len(quot) \in Nat /\ Len(w') = Len(w)
      BY <1>3, <1>8
  <2>2. at = Len(v) - Len(w) - Len(quot) /\ at' = Len(v') - Len(w') - Len(quot') /\ size_w = Len(w)
      BY DEF at, size_w
  <2>3. size_w' = size_w
      BY <1>3 DEF size_w
  <2> QED
      BY <2>1, <2>2, <2>3, <1>7, <1>9
<1>11. PICK L \in Nat : /\ Lower = L + Weight[at - 1] * Extended
                        /\ ValueOf(SubSeq(Replaced(a), 1, at + size_w - 1)) = L + Weight[at - 1] * ValueOf(a)
    BY <1>2, <1>5, LowerIs
<1>12. Lower' = L + Weight[at - 1] * ValueOf(a)
  <2>1. at' + size_w' = at + size_w - 1
      BY <1>10
  <2>2. Lower' = ValueOf(SubSeq(v', 1, at' + size_w'))
      BY DEF Lower
  <2> QED
      BY <2>1, <2>2, <1>6, <1>11
<1>13. Weight[at] = BASE * Weight[at - 1] /\ Weight[at - 1] \in Int /\ BASE \in Int
  <2>1. PICK m : m = at - 1
      OBVIOUS
  <2>2. m \in Nat /\ m + 1 = at
      BY <2>1, <1>2, <1>10
  <2>3. Weight[m + 1] = BASE * Weight[m] /\ Weight[m] \in Nat /\ BASE \in Nat
      BY <2>2, WeightIs DEF Weights
  <2> QED
      BY <2>1, <2>2, <2>3
<1>14. Extended \in Int /\ ValueOf(w) \in Int /\ ValueOf(quot) \in Int /\ DigitDue \in Int
  <2>1. Extended \in Nat /\ ValueOf(w) \in Nat \ {0}
      BY <1>2, NextDigit
  <2>2. ValueOf(quot) \in Nat
      BY <1>8, ValueBelow
  <2> QED
      BY <2>1, <2>2, <1>4
<1>15. PICK X : X = 2^d * ValueOf(left.v)
    OBVIOUS
<1>16. X \in Int
  <2>1. d \in Nat
      BY DigitSizes DEF TypeOK
  <2>2. 2^d \in Nat /\ ValueOf(left.v) \in Nat
      BY <2>1, Powers, IntegerIs
  <2> QED
      BY <2>2, <1>15
<1>17. X = (BASE * Weight[at - 1]) * (ValueOf(quot) * ValueOf(w)) + (L + Weight[at - 1] * Extended)
    BY <1>11, <1>13, <1>15 DEF DividendKept
<1>18. X = Weight[at - 1] * ((DigitDue + BASE * ValueOf(quot)) * ValueOf(w)) + (L + Weight[at - 1] * (Extended - DigitDue * ValueOf(w)))
  <2>1. PICK P : P = Weight[at - 1]
      OBVIOUS
  <2>2. PICK Q : Q = ValueOf(quot)
      OBVIOUS
  <2>3. PICK W : W = ValueOf(w)
      OBVIOUS
  <2>4. PICK b : b = BASE
      OBVIOUS
  <2>5. PICK D : D = DigitDue
      OBVIOUS
  <2>6. PICK E : E = Extended
      OBVIOUS
  <2>7. P \in Int /\ Q \in Int /\ W \in Int /\ b \in Int /\ D \in Int /\ E \in Int /\ L \in Int
      BY <2>1, <2>2, <2>3, <2>4, <2>5, <2>6, <1>13, <1>14
  <2>8. X = (b * P) * (Q * W) + (L + P * E)
      BY <2>1, <2>2, <2>3, <2>4, <2>6, <1>17
  <2>9. X = P * ((D + b * Q) * W) + (L + P * (E - D * W))
      BY <2>7, <2>8, <1>16, QuotientGrows
  <2> QED
      BY <2>1, <2>2, <2>3, <2>4, <2>5, <2>6, <2>9
<1>19. 2^d' * ValueOf(left'.v) = Weight[at'] * (ValueOf(quot') * ValueOf(w')) + Lower'
  <2>1. w' = w /\ left' = left /\ d' = d
      BY <1>3
  <2> QED
      BY <2>1, <1>5, <1>9, <1>10, <1>12, <1>15, <1>18
<1>20. ValueOf(w') = 2^d' * ValueOf(right'.v)
    BY <1>3 DEF DividendKept
<1> QED
    BY <1>19, <1>20 DEF DividendKept

\* Nothing is lost by the shift at the start.
LEMMA StartExact ==
    ASSUME IntsInv, Integer(left), Integer(right), StartDivision
    PROVE  DividendKept'
<1> DEFINE a == v_lshift(left.v, d')
           carry == v_lshift_carry(left.v, d')
<1>1. /\ left.v \in Seq(Digit) /\ right.v \in Seq(Digit) /\ Len(right.v) \in Nat /\ Len(left.v) \in Nat
      /\ pc = "ready" /\ quot = <<>>
    BY IntegerIs DEF StartDivision, IntsInv
<1>2. IntsInv' /\ pc' = "estimate"
    BY StartStep
<1>3. d' \in 0..SHIFT /\ d' \in Nat
    BY <1>2, DigitSizes DEF IntsInv, TypeOK
<1>4. /\ w' = v_lshift(right.v, d') /\ v_lshift_carry(right.v, d') = 0
      /\ v' = (IF carry # 0 \/ a[Len(a)] >= w'[Len(w')] THEN Append(a, carry) ELSE a)
      /\ UNCHANGED <<left, right, quot>>
    BY <1>2 DEF StartDivision, Continue
<1>5. a \in Seq(Digit) /\ Len(a) = Len(left.v) /\ carry \in Digit /\ w' \in Seq(Digit)
    BY <1>1, <1>3, <1>4, LeftDigits
<1>6. /\ ValueOf(a) = 2^d' * ValueOf(left.v) - carry * Weight[Len(left.v)]
      /\ ValueOf(w') = 2^d' * ValueOf(right.v) - v_lshift_carry(right.v, d') * Weight[Len(right.v)]
    BY <1>1, <1>3, <1>4, LeftValue
<1>7. 2^d' \in Nat /\ ValueOf(left.v) \in Nat /\ ValueOf(right.v) \in Nat
    BY <1>1, <1>3, Powers, ValueBelow
<1>8. Weight[Len(left.v)] \in Nat /\ Weight[Len(right.v)] \in Nat
    BY <1>1, WeightAt
<1>9. PICK x \in Nat : x = 2^d' * ValueOf(left.v)
    BY <1>7
<1>10. PICK y \in Nat : y = 2^d' * ValueOf(right.v)
    BY <1>7
<1>11. ValueOf(w') = y
    BY <1>4, <1>6, <1>8, <1>10
<1> HIDE DEF a, carry
<1>12. v' \in Seq(Digit) /\ ValueOf(v') = x
  <2>1. carry \in Nat
      BY <1>5, DigitIs
  <2>2. CASE carry # 0 \/ a[Len(a)] >= w'[Len(w')]
    <3>1. v' = Append(a, carry)
        BY <2>2, <1>4
    <3>2. v' \in Seq(Digit) /\ ValueOf(v') = ValueOf(a) + Weight[Len(a)] * carry
        BY <3>1, <1>5, AppendValue
    <3>3. PICK k \in Nat : k = carry * Weight[Len(left.v)]
        BY <2>1, <1>8
    <3>4. Weight[Len(a)] * carry = k
        BY <2>1, <3>3, <1>5, <1>8
    <3> QED
        BY <3>2, <3>3, <3>4, <1>6, <1>9
  <2>3. CASE ~ (carry # 0 \/ a[Len(a)] >= w'[Len(w')])
    <3>1. v' = a /\ carry = 0
        BY <2>3, <1>4
    <3> QED
        BY <3>1, <1>5, <1>6, <1>8, <1>9
  <2> QED
      BY <2>2, <2>3
<1>13. Lower' = x
  <2>1. Lower' = ValueOf(SubSeq(v', 1, at' + size_w'))
      BY DEF Lower
  <2>2. at' + size_w' = Len(v')
    <3>1. at' = Len(v') - Len(w') - Len(quot') /\ size_w' = Len(w')
        BY DEF at, size_w
    <3>2. Len(quot') = 0 /\ Len(w') \in Nat /\ Len(v') \in Nat
        BY <1>1, <1>4, <1>5, <1>12
    <3> QED
        BY <3>1, <3>2
  <2>3. SubSeq(v', 1, Len(v')) = v'
    <3>1. PICK s : s = v'
        OBVIOUS
    <3>2. s \in Seq(Digit)
        BY <3>1, <1>12
    <3>3. SubSeq(s, 1, Len(s)) = s
        BY <3>2
    <3> QED
        BY <3>1, <3>3
  <2> QED
      BY <2>1, <2>2, <2>3, <1>12
<1>14. ValueOf(quot') = 0
    BY <1>1, <1>4, NothingValue
<1>15. Weight[at'] \in Int
  <2>1. at' \in Nat
    <3>1. Shifted' /\ at' >= 0
        BY <1>2 DEF IntsInv, Dividing
    <3>2. at' = Len(v') - Len(w') - Len(quot')
        BY DEF at, size_w
    <3>3. Len(v') \in Nat /\ Len(w') \in Nat /\ Len(quot') = 0
        BY <1>1, <1>4, <1>5, <1>12
    <3> QED
        BY <3>1, <3>2, <3>3
  <2> QED
      BY <2>1, WeightAt
<1>16. Weight[at'] * (ValueOf(quot') * ValueOf(w')) = 0
    BY <1>11, <1>14, <1>15
<1>17. 2^d' * ValueOf(left'.v) = Weight[at'] * (ValueOf(quot') * ValueOf(w')) + Lower'
    BY <1>4, <1>9, <1>13, <1>16
<1>18. ValueOf(w') = 2^d' * ValueOf(right'.v)
    BY <1>4, <1>10, <1>11
<1> QED
    BY <1>17, <1>18 DEF DividendKept

\* What x_divrem ends with, the shift undone.
LEMMA EndDividend ==
    ASSUME IntsInv, Integer(left), Integer(right), DividendKept, EndDivision
    PROVE  LET rem == v_rshift(SubSeq(v, 1, size_w), d)
           IN  /\ quot \in Seq(Digit) /\ rem \in Seq(Digit)
               /\ ValueOf(rem) \in Nat /\ ValueOf(quot) \in Nat
               /\ ValueOf(rem) < ValueOf(right.v)
               /\ ValueOf(left.v) = ValueOf(right.v) * ValueOf(quot) + ValueOf(rem)
<1> USE DEF IntsInv, AssertsHold
<1>1. Dividing /\ pc = "estimate" /\ at = 0 /\ TypeOK
    BY DEF EndDivision
<1>2. Shifted /\ v[1] % 2^d = 0 /\ d \in 0..SHIFT - 1 /\ Remaining < ValueOf(w)
    BY <1>1 DEF Dividing, TypeOK
<1>3. v \in Seq(Digit) /\ size_w \in 0..Len(v) /\ size_w >= 2 /\ quot \in Seq(Digit) /\ w \in Seq(Digit)
  <2>1. /\ v \in Seq(Digit) /\ size_w \in Nat /\ at + size_w = Len(v) - Len(quot) /\ size_w = Len(w)
        /\ Len(quot) \in Nat /\ Len(v) \in Nat /\ Len(w) >= 2 /\ quot \in Seq(Digit) /\ w \in Seq(Digit)
      BY <1>2, PlacesRead DEF Shifted
  <2> QED
      BY <2>1, <1>1
<1>4. d \in 0..SHIFT /\ d \in Nat
    BY <1>2, DigitSizes
<1>5. PICK n : n = size_w
    OBVIOUS
<1>6. PICK s : s = SubSeq(v, 1, n)
    OBVIOUS
<1>7. s \in Seq(Digit) /\ Len(s) = n /\ s[1] = v[1] /\ n >= 2
  <2>1. n \in 0..Len(v) /\ 1 \in 1..n /\ n >= 2
      BY <1>3, <1>5
  <2>2. SubSeq(v, 1, n) \in Seq(Digit) /\ Len(SubSeq(v, 1, n)) = n /\ \A i \in 1..n : SubSeq(v, 1, n)[i] = v[i]
      BY <2>1, <1>3, Prefix
  <2> QED
      BY <2>1, <2>2, <1>6
<1>8. PICK rem : rem = v_rshift(s, d)
    OBVIOUS
<1>9. /\ rem \in Seq(Digit) /\ ValueOf(rem) \in Nat
      /\ 2^d * ValueOf(rem) = ValueOf(s) - (At(s, 1) % 2^d)
    BY <1>4, <1>7, <1>8, RightValue
<1>10. At(s, 1) % 2^d = 0
  <2>1. At(s, 1) = s[1]
      BY <1>7 DEF At
  <2> QED
      BY <2>1, <1>2, <1>7
<1>11. ValueOf(s) = Remaining /\ ValueOf(s) = Lower
  <2>1. at + 1 = 1 /\ at + size_w = n
      BY <1>1, <1>3, <1>5
  <2> QED
      BY <2>1, <1>6 DEF Remaining, Lower
<1>12. ValueOf(s) \in Nat /\ ValueOf(quot) \in Nat /\ ValueOf(left.v) \in Nat /\ ValueOf(right.v) \in Nat
    BY <1>3, <1>7, ValueBelow, IntegerIs
<1>13. 2^d \in Nat \ {0}
    BY <1>4, Powers
<1>14. PICK p \in Nat \ {0} : p = 2^d
    BY <1>13
<1>15. PICK x \in Nat : x = ValueOf(left.v)
    BY <1>12
<1>16. PICK y \in Nat : y = ValueOf(right.v)
    BY <1>12
<1>17. PICK k \in Nat : k = ValueOf(quot)
    BY <1>12
<1>18. PICK m \in Nat : m = ValueOf(rem)
    BY <1>9
<1>19. p * m = ValueOf(s)
    BY <1>9, <1>10, <1>12, <1>14, <1>18
<1>20. ValueOf(w) = p * y
    BY <1>14, <1>16 DEF DividendKept
<1>21. p * x = k * (p * y) + p * m
  <2>1. Weight[at] = 1
      BY <1>1, WeightIs DEF Weights
  <2>2. p * x = 1 * (k * (p * y)) + Lower
      BY <2>1, <1>14, <1>15, <1>17, <1>20 DEF DividendKept
  <2>3. k * (p * y) \in Int
      OBVIOUS
  <2> QED
      BY <2>2, <2>3, <1>11, <1>19
<1>22. x = y * k + m
  <2>1. k * (p * y) = p * (y * k)
      OBVIOUS
  <2>2. p * (y * k) + p * m = p * (y * k + m)
      OBVIOUS
  <2>3. p * x = p * (y * k + m)
      BY <2>1, <2>2, <1>21
  <2>4. PICK z \in Nat : z = y * k + m
      OBVIOUS
  <2>5. ASSUME x # z
        PROVE  FALSE
    <3>1. CASE x <= z - 1
      <4>1. p * x <= p * (z - 1)
          BY <3>1, Monotone
      <4>2. p * (z - 1) = p * z - p
          OBVIOUS
      <4>3. p * x \in Int /\ p * z \in Int
          OBVIOUS
      <4> QED
          BY <4>1, <4>2, <4>3, <2>3, <2>4
    <3>2. CASE z <= x - 1
      <4>1. p * z <= p * (x - 1)
          BY <3>2, Monotone
      <4>2. p * (x - 1) = p * x - p
          OBVIOUS
      <4>3. p * x \in Int /\ p * z \in Int
          OBVIOUS
      <4> QED
          BY <4>1, <4>2, <4>3, <2>3, <2>4
    <3> QED
        BY <3>1, <3>2, <2>5
  <2> QED
      BY <2>4, <2>5
<1>23. m < y
  <2>1. p * m < p * y
      BY <1>2, <1>11, <1>19, <1>20
  <2>2. CASE y <= m
    <3>1. p * y <= p * m
        BY <2>2, Monotone
    <3>2. p * y \in Int /\ p * m \in Int
        OBVIOUS
    <3> QED
        BY <3>1, <3>2, <2>1
  <2> QED
      BY <2>2
<1> QED
    BY <1>3, <1>5, <1>6, <1>8, <1>9, <1>12, <1>15, <1>16, <1>17, <1>18, <1>22, <1>23

\* The quotient and the remainder of the magnitudes, with their signs.
LEMMA Truncation ==
    ASSUME NEW x \in Nat, NEW y \in Nat, NEW k \in Nat, NEW m \in Nat, m < y, x = y * k + m,
           NEW b \in BOOLEAN, NEW c \in BOOLEAN,
           NEW i, i = IF b THEN -x ELSE x, NEW j, j = IF c THEN -y ELSE y
    PROVE  /\ j # 0
           /\ Exact!Quotient(i, j) = IF b # c THEN -k ELSE k
           /\ Exact!Remainder(i, j) = IF b THEN -m ELSE m
<1>1. y \in Nat \ {0} /\ i \in Int /\ j \in Int /\ j # 0
    OBVIOUS
<1>2. x \div y = k
  <2>1. x \in Int /\ k \in Int /\ m \in Int /\ 0 <= m
      OBVIOUS
  <2> QED
      BY <2>1, <1>1, Quotient
<1>3. x = 0 => k = 0 /\ m = 0
  <2> HAVE x = 0
  <2>1. 0 \div y = 0
    <3>1. 0 \in Int /\ 0 <= 0 /\ 0 < y /\ 0 = y * 0 + 0
        BY <1>1
    <3> QED
        BY <3>1, <1>1, Quotient
  <2>2. k = 0
      BY <2>1, <1>2
  <2>3. y * k = 0
      BY <2>2
  <2> QED
      BY <2>2, <2>3
<1>4. Exact!Magnitude(i) = x /\ Exact!Magnitude(j) = y
    BY DEF Exact!Magnitude
<1>5. Exact!Sign(j) = IF c THEN -1 ELSE 1
    BY <1>1 DEF Exact!Sign
<1>6. Exact!Sign(i) = IF x = 0 THEN 0 ELSE IF b THEN -1 ELSE 1
    BY DEF Exact!Sign
<1>7. Exact!Quotient(i, j) = (Exact!Sign(i) * Exact!Sign(j)) * k
    BY <1>2, <1>4 DEF Exact!Quotient
<1>8. Exact!Quotient(i, j) = IF b # c THEN -k ELSE k
  <2>1. CASE x = 0
    <3>1. Exact!Sign(i) = 0 /\ k = 0 /\ Exact!Sign(j) \in Int
        BY <2>1, <1>3, <1>5, <1>6
    <3> QED
        BY <3>1, <1>7
  <2>2. CASE x # 0
    <3>1. CASE b = c
      <4>1. Exact!Sign(i) * Exact!Sign(j) = 1
        <5>1. CASE b
            BY <5>1, <2>2, <3>1, <1>5, <1>6
        <5>2. CASE ~ b
            BY <5>2, <2>2, <3>1, <1>5, <1>6
        <5> QED
            BY <5>1, <5>2
      <4> QED
          BY <4>1, <3>1, <1>7
    <3>2. CASE b # c
      <4>1. Exact!Sign(i) * Exact!Sign(j) = -1
        <5>1. CASE b
          <6>1. c = FALSE /\ Exact!Sign(j) = 1
              BY <5>1, <3>2, <1>5
          <6>2. Exact!Sign(i) = -1
              BY <5>1, <2>2, <1>6
          <6> QED
              BY <6>1, <6>2
        <5>2. CASE ~ b
          <6>1. c = TRUE /\ Exact!Sign(j) = -1
              BY <5>2, <3>2, <1>5
          <6>2. Exact!Sign(i) = 1
              BY <5>2, <2>2, <1>6
          <6> QED
              BY <6>1, <6>2
        <5> QED
            BY <5>1, <5>2
      <4> QED
          BY <4>1, <3>2, <1>7
    <3> QED
        BY <3>1, <3>2
  <2> QED
      BY <2>1, <2>2
<1>9. Exact!Remainder(i, j) = i - j * Exact!Quotient(i, j)
    BY DEF Exact!Remainder
<1>10. j * Exact!Quotient(i, j) = IF b THEN -(y * k) ELSE y * k
  <2>1. (-y) * (-k) = y * k /\ (-y) * k = -(y * k) /\ y * (-k) = -(y * k)
      OBVIOUS
  <2>2. CASE b /\ c
      BY <2>1, <2>2, <1>8
  <2>3. CASE b /\ ~ c
      BY <2>1, <2>3, <1>8
  <2>4. CASE ~ b /\ c
      BY <2>1, <2>4, <1>8
  <2>5. CASE ~ b /\ ~ c
      BY <2>1, <2>5, <1>8
  <2> QED
      BY <2>2, <2>3, <2>4, <2>5
<1>11. PICK t \in Nat : t = y * k
    OBVIOUS
<1>12. Exact!Remainder(i, j) = IF b THEN -m ELSE m
  <2>1. CASE b
      BY <2>1, <1>9, <1>10, <1>11
  <2>2. CASE ~ b
      BY <2>2, <1>9, <1>10, <1>11
  <2> QED
      BY <2>1, <2>2
<1> QED
    BY <1>1, <1>8, <1>12

\* The same for the objects.
LEMMA TruncatedNumber ==
    ASSUME NEW a, NEW b, Integer(a), Integer(b), NEW k \in Nat, NEW m \in Nat, m < ValueOf(b.v),
           ValueOf(a.v) = ValueOf(b.v) * k + m
    PROVE  /\ Number(b) # 0
           /\ Exact!Quotient(Number(a), Number(b)) = IF a.neg # b.neg THEN -k ELSE k
           /\ Exact!Remainder(Number(a), Number(b)) = IF a.neg THEN -m ELSE m
<1>1. /\ a.neg \in BOOLEAN /\ ValueOf(a.v) \in Nat
      /\ Number(a) = IF a.neg THEN -ValueOf(a.v) ELSE ValueOf(a.v)
    BY IntegerIs
<1>2. /\ b.neg \in BOOLEAN /\ ValueOf(b.v) \in Nat
      /\ Number(b) = IF b.neg THEN -ValueOf(b.v) ELSE ValueOf(b.v)
    BY IntegerIs
<1>3. PICK x : x = ValueOf(a.v)
    OBVIOUS
<1>4. PICK y : y = ValueOf(b.v)
    OBVIOUS
<1>5. PICK e : e = a.neg
    OBVIOUS
<1>6. PICK c : c = b.neg
    OBVIOUS
<1>7. PICK i : i = Number(a)
    OBVIOUS
<1>8. PICK j : j = Number(b)
    OBVIOUS
<1>9. /\ x \in Nat /\ y \in Nat /\ m < y /\ x = y * k + m /\ e \in BOOLEAN /\ c \in BOOLEAN
      /\ i = (IF e THEN -x ELSE x) /\ j = IF c THEN -y ELSE y
    BY <1>1, <1>2, <1>3, <1>4, <1>5, <1>6, <1>7, <1>8
<1>10. /\ j # 0
       /\ Exact!Quotient(i, j) = IF e # c THEN -k ELSE k
       /\ Exact!Remainder(i, j) = IF e THEN -m ELSE m
    BY <1>9, Truncation
<1> QED
    BY <1>5, <1>6, <1>7, <1>8, <1>10

\* The shortcut for great powers changes nothing.
LEMMA LoweredIs ==
    ASSUME NEW m \in Int, NEW n \in Nat
    PROVE  Exact!Lowered(m, n) = m \div 2^n
<1>1. CASE ~ (n >= 30 /\ Exact!Magnitude(m) < 2^30)
    BY <1>1 DEF Exact!Lowered
<1>2. CASE n >= 30 /\ Exact!Magnitude(m) < 2^30
  <2>1. PICK k : k = n - 30
      OBVIOUS
  <2>2. k \in Nat /\ n = 30 + k
      BY <2>1, <1>2
  <2>3. PICK h : h = 30
      OBVIOUS
  <2>4. h \in Nat /\ 2^(h + k) = 2^h * 2^k /\ 2^h \in Nat \ {0} /\ 2^k \in Nat \ {0}
      BY <2>2, <2>3, TwoPowers, Powers
  <2>5. PICK P : P = 2^h
      OBVIOUS
  <2>6. PICK Q : Q = 2^k
      OBVIOUS
  <2>7. PICK T : T = 2^n
      OBVIOUS
  <2>8. P \in Nat \ {0} /\ Q \in Nat \ {0} /\ T = P * Q
      BY <2>2, <2>3, <2>4, <2>5, <2>6, <2>7
  <2>9. T \in Nat \ {0} /\ P <= T
    <3>1. P * 1 <= P * Q
        BY <2>8, Monotone
    <3> QED
        BY <3>1, <2>8
  <2>10. Exact!Magnitude(m) < P
      BY <1>2, <2>3, <2>5
  <2>11. -T < m /\ m < T
      BY <2>8, <2>9, <2>10 DEF Exact!Magnitude
  <2>12. Exact!Lowered(m, n) = IF m < 0 THEN -1 ELSE 0
      BY <1>2 DEF Exact!Lowered
  <2>13. CASE m < 0
    <3>1. m = T * (-1) + (m + T) /\ 0 <= m + T /\ m + T < T /\ -1 \in Int /\ m + T \in Int
        BY <2>9, <2>11, <2>13
    <3>2. m \div T = -1
        BY <3>1, <2>9, Quotient
    <3> QED
        BY <3>2, <2>7, <2>12, <2>13
  <2>14. CASE ~ (m < 0)
    <3>1. m = T * 0 + m /\ 0 <= m /\ m < T /\ 0 \in Int
        BY <2>9, <2>11, <2>14
    <3>2. m \div T = 0
        BY <3>1, <2>9, Quotient
    <3> QED
        BY <3>2, <2>7, <2>12, <2>14
  <2> QED
      BY <2>13, <2>14
<1> QED
    BY <1>1, <1>2

-----------------------------------------------------------------------------
(* What each operation gives *)

\* What a result stands for.
Answer(x) == IF x[1] = "int" THEN <<"int", Number(x[2])>> ELSE x

\* The operation gives x, and that is the exact answer.
IsExact(x) == Answer(x) = Exact!Exact /\ x[1] # "none"

LEMMA AnswerInt == ASSUME NEW x PROVE Answer(<<"int", x>>) = <<"int", Number(x)>> /\ <<"int", x>>[1] # "none"
BY DEF Answer

\* Every operation of one step.
LEMMA AddExact == ASSUME Integer(left), Integer(right), op = "add" PROVE IsExact(<<"int", int_add(left, right)>>)
<1>1. Number(int_add(left, right)) = Number(left) + Number(right)
    BY AddNumber
<1>2. Exact!Exact = <<"int", Number(left) + Number(right)>>
    BY DEF Exact!Exact
<1> QED
    BY <1>1, <1>2, AnswerInt DEF IsExact

LEMMA SubExact == ASSUME Integer(left), Integer(right), op = "sub" PROVE IsExact(<<"int", int_sub(left, right)>>)
<1>1. Number(int_sub(left, right)) = Number(left) - Number(right)
    BY SubNumber
<1>2. Exact!Exact = <<"int", Number(left) - Number(right)>>
    BY DEF Exact!Exact
<1> QED
    BY <1>1, <1>2, AnswerInt DEF IsExact

LEMMA MulExact ==
    ASSUME Integer(left), Integer(right), op = "mul", NEW same \in BOOLEAN, same => left = right
    PROVE  IsExact(<<"int", int_mul(left, right, same)>>)
<1>1. Number(int_mul(left, right, same)) = Number(left) * Number(right)
    BY MulNumber
<1>2. Exact!Exact = <<"int", Number(left) * Number(right)>>
    BY DEF Exact!Exact
<1> QED
    BY <1>1, <1>2, AnswerInt DEF IsExact

LEMMA NegExact == ASSUME Integer(left), op = "neg" PROVE IsExact(<<"int", int_neg(left)>>)
<1>1. Number(int_neg(left)) = -Number(left)
    BY NegNumber
<1>2. Exact!Exact = <<"int", -Number(left)>>
    BY DEF Exact!Exact
<1> QED
    BY <1>1, <1>2, AnswerInt DEF IsExact

LEMMA InvertExact == ASSUME Integer(left), op = "invert" PROVE IsExact(<<"int", int_invert(left)>>)
<1>1. Number(int_invert(left)) = -Number(left) - 1
    BY InvertNumber
<1>2. Exact!Exact = <<"int", -Number(left) - 1>>
    BY DEF Exact!Exact
<1> QED
    BY <1>1, <1>2, AnswerInt DEF IsExact

LEMMA CompareExact == ASSUME Integer(left), Integer(right), op = "compare" PROVE IsExact(<<"order", int_cmp(left, right)>>)
<1>1. int_cmp(left, right) = Exact!Sign(Number(left) - Number(right))
    BY CompareNumber
<1>2. Exact!Exact = <<"order", Exact!Sign(Number(left) - Number(right))>>
    BY DEF Exact!Exact
<1> QED
    BY <1>1, <1>2 DEF IsExact, Answer

LEMMA LongExact ==
    ASSUME Integer(left), op = "long"
    PROVE  LET x == COInt_AsLong(left)
           IN  IsExact(IF x.fits THEN <<"long", x.value>> ELSE <<"OverflowError">>)
<1>1. PICK x : x = COInt_AsSsize_t(left)
    OBVIOUS
<1>2. /\ x.fits \in BOOLEAN /\ x.fits <=> Number(left) \in LONG_MIN..LONG_MAX
      /\ x.fits => x.value = Number(left)
    BY <1>1, AsSsizeNumber
<1>3. Exact!Exact = IF Number(left) \in LONG_MIN..LONG_MAX THEN <<"long", Number(left)>> ELSE <<"OverflowError">>
    BY DEF Exact!Exact
<1>4. CASE x.fits
    BY <1>2, <1>3, <1>4, <1>1 DEF IsExact, Answer, COInt_AsLong
<1>5. CASE ~ x.fits
    BY <1>2, <1>3, <1>5, <1>1 DEF IsExact, Answer, COInt_AsLong
<1> QED
    BY <1>2, <1>4, <1>5

LEMMA ShiftExact ==
    ASSUME Integer(left), Integer(right)
    PROVE  LET n == COInt_AsSsize_t(right)
           IN  /\ op = "lshift" =>
                    /\ ~n.fits => IsExact(<<"OverflowError">>)
                    /\ n.fits /\ n.value < 0 => IsExact(<<"ValueError">>)
                    /\ n.fits /\ n.value >= 0 => IsExact(<<"int", Make(left.neg, int_lshift(left.v, n.value))>>)
               /\ op = "rshift" =>
                    /\ ~n.fits => IsExact(<<"OverflowError">>)
                    /\ n.fits /\ n.value < 0 => IsExact(<<"ValueError">>)
                    /\ n.fits /\ n.value >= 0 => IsExact(<<"int", RightShifted(left, n.value)>>)
<1>1. PICK n : n = COInt_AsSsize_t(right)
    OBVIOUS
<1>2. PICK k : k = Number(right)
    OBVIOUS
<1>3. /\ n.fits \in BOOLEAN /\ n.fits <=> k \in LONG_MIN..LONG_MAX
      /\ n.fits => n.value = k
    BY <1>1, <1>2, AsSsizeNumber
<1>4. k \in Int /\ Number(left) \in Int
    BY <1>2, IntegerIs
<1>5. op = "lshift" => Exact!Exact = Exact!Shift(Number(left) * 2^k)
    BY <1>2 DEF Exact!Exact
<1>6. op = "rshift" => Exact!Exact = Exact!Shift(Exact!Lowered(Number(left), k))
    BY <1>2 DEF Exact!Exact
<1>7. \A x : Exact!Shift(x) = IF k \notin LONG_MIN..LONG_MAX THEN <<"OverflowError">>
                             ELSE IF k < 0 THEN <<"ValueError">> ELSE <<"int", x>>
    BY <1>2 DEF Exact!Shift
<1>8. CASE ~ n.fits
  <2>1. \A x : Exact!Shift(x) = <<"OverflowError">>
      BY <1>3, <1>7, <1>8
  <2> QED
      BY <2>1, <1>1, <1>5, <1>6, <1>8 DEF IsExact, Answer
<1>9. CASE n.fits /\ k < 0
  <2>1. \A x : Exact!Shift(x) = <<"ValueError">>
      BY <1>3, <1>7, <1>9
  <2>2. n.fits /\ n.value = k /\ ~ (k >= 0)
      BY <1>3, <1>4, <1>9
  <2> QED
      BY <2>1, <2>2, <1>1, <1>5, <1>6 DEF IsExact, Answer
<1>10. CASE n.fits /\ ~ (k < 0)
  <2>1. \A x : Exact!Shift(x) = <<"int", x>>
      BY <1>3, <1>7, <1>10
  <2>2. n.fits /\ n.value = k /\ ~ (k < 0) /\ k \in Nat
      BY <1>3, <1>4, <1>10
  <2>3. Number(Make(left.neg, int_lshift(left.v, k))) = Number(left) * 2^k
      BY <2>2, LshiftNumber
  <2>4. Number(RightShifted(left, k)) = Number(left) \div 2^k
      BY <2>2, RshiftNumber
  <2>5. Exact!Lowered(Number(left), k) = Number(left) \div 2^k
      BY <2>2, <1>4, LoweredIs
  <2>6. op = "lshift" => IsExact(<<"int", Make(left.neg, int_lshift(left.v, k))>>)
      BY <2>1, <2>3, <1>5, AnswerInt DEF IsExact
  <2>7. op = "rshift" => IsExact(<<"int", RightShifted(left, k)>>)
      BY <2>1, <2>4, <2>5, <1>6, AnswerInt DEF IsExact
  <2> QED
      BY <2>2, <2>6, <2>7, <1>1
<1> QED
    BY <1>8, <1>9, <1>10

\* int_repr gives the numeral, and the sign.
LEMMA ReprExact ==
    ASSUME Integer(left), op = "repr"
    PROVE  IsExact(<<"text", left.neg, DecimalText(DecimalGroups(left.v))>>)
<1>1. /\ left.v \in Seq(Digit) /\ Vector(left.v) /\ left.neg \in BOOLEAN /\ (left.neg => left.v # <<>>)
      /\ ValueOf(left.v) \in Nat
      /\ Number(left) = IF left.neg THEN -ValueOf(left.v) ELSE ValueOf(left.v)
    BY IntegerIs DEF Integer, Normal
<1>2. PICK x \in Nat : x = ValueOf(left.v)
    BY <1>1
<1>3. left.neg => x > 0
  <2> HAVE left.neg
  <2> QED
      BY <1>1, <1>2, PositiveValue
<1>4. PICK b \in BOOLEAN : b = left.neg
    BY <1>1
<1>5. PICK i : i = Number(left)
    OBVIOUS
<1>6. i = IF b THEN -x ELSE x
    BY <1>1, <1>2, <1>4, <1>5
<1>7. Exact!Magnitude(i) = x /\ (i < 0 <=> b)
    BY <1>3, <1>4, <1>6 DEF Exact!Magnitude
<1>8. DecimalText(DecimalGroups(left.v)) = Exact!Numeral(x, 10)
    BY <1>1, <1>2, ReprText
<1>9. Exact!Exact = <<"text", i < 0, Exact!Numeral(Exact!Magnitude(i), 10)>>
    BY <1>5 DEF Exact!Exact
<1>10. (i < 0) = b
    BY <1>7
<1>11. Exact!Exact = <<"text", b, Exact!Numeral(x, 10)>>
    BY <1>7, <1>9, <1>10
<1> QED
    BY <1>4, <1>8, <1>11 DEF IsExact, Answer

\* A literal is the number whose numeral it is, however many zeros are in front.
LEMMA BinaryExact ==
    ASSUME Integer(left), ~left.neg, op \in {"bin", "oct", "hex"}, NEW zeros \in Nat, NEW e \in 1..SHIFT
    PROVE  IsExact(<<"int", Make(FALSE, int_normalize(
                    int_from_binary_base([i \in 1..zeros |-> 0] \o Exact!Numeral(Number(left), 2^e), e)))>>)
<1>1. PICK k : k = Number(left)
    OBVIOUS
<1>2. k \in Nat
    BY <1>1, IntegerIs
<1>3. PICK b : b = 2^e
    OBVIOUS
<1>4. b \in Nat /\ b >= 2 /\ e \in Nat
  <2>1. e \in Nat /\ e - 1 \in Nat /\ e - 1 + 1 = e
      BY DigitSizes
  <2>2. 2^(e - 1) \in Nat \ {0} /\ 2^(e - 1 + 1) = 2 * 2^(e - 1)
      BY <2>1, Powers
  <2> QED
      BY <2>1, <2>2, <1>3
<1>5. PICK y : y = Exact!Numeral(k, b)
    OBVIOUS
<1>6. PICK z : z = [i \in 1..zeros |-> 0]
    OBVIOUS
<1>7. y \in Seq(0..b - 1) /\ y \in Seq(Nat)
    BY <1>2, <1>4, <1>5, NumeralIs, DigitsWhole
<1>8. z \in Seq(0..b - 1)
  <2>1. 0 \in 0..b - 1
      BY <1>4
  <2> QED
      BY <2>1, <1>6
<1>9. PICK s : s = z \o y
    OBVIOUS
<1>10. s \in Seq(0..b - 1)
    BY <1>7, <1>8, <1>9, ConcatProperties
<1>11. Evaluated(s, b) = k
  <2>1. Evaluated([i \in 1..zeros |-> 0] \o y, b) = Evaluated(y, b)
      BY <1>4, <1>7, EvaluatedZeros
  <2>2. Evaluated(y, b) = k
      BY <1>2, <1>4, <1>5, NumeralValue
  <2> QED
      BY <2>1, <2>2, <1>6, <1>9
<1>12. PICK a : a = int_from_binary_base(s, e)
    OBVIOUS
<1>13. s \in Seq(0..2^e - 1)
    BY <1>3, <1>10
<1>14. a \in Seq(Digit) /\ ValueOf(a) = k
  <2>1. a \in Seq(Digit)
      BY <1>12, <1>13, BinaryIs
  <2>2. ValueOf(a) = Evaluated(s, 2^e)
      BY <1>12, <1>13, BinaryValue
  <2> QED
      BY <2>1, <2>2, <1>3, <1>11
<1>15. Vector(int_normalize(a)) /\ ValueOf(int_normalize(a)) = k
    BY <1>14, NormalizeVector, NormalizeValue DEF Digit
<1>16. Number(Make(FALSE, int_normalize(a))) = k
    BY <1>15, IntegerMade
<1>17. Exact!Exact = <<"int", Number(left)>>
    BY DEF Exact!Exact
<1> QED
    BY <1>1, <1>3, <1>5, <1>6, <1>9, <1>12, <1>16, <1>17, AnswerInt DEF IsExact

\* The same for a decimal literal.
LEMMA DecimalExact ==
    ASSUME Integer(left), ~left.neg, op = "dec"
    PROVE  IsExact(<<"int", Make(FALSE, int_normalize(FromDigits(Exact!Numeral(Number(left), 10), 10)))>>)
<1>1. PICK k : k = Number(left)
    OBVIOUS
<1>2. k \in Nat
    BY <1>1, IntegerIs
<1>3. PICK s : s = Exact!Numeral(k, 10)
    OBVIOUS
<1>4. s \in Seq(0..9)
  <2>1. 10 \in Nat /\ 10 >= 2 /\ 10 - 1 = 9
      OBVIOUS
  <2>2. s \in Seq(0..10 - 1)
      BY <2>1, <1>2, <1>3, NumeralIs, Zenon
  <2> QED
      BY <2>1, <2>2
<1>5. Evaluated(s, 10) = k
  <2>1. 10 \in Nat /\ 10 >= 2
      OBVIOUS
  <2> QED
      BY <2>1, <1>2, <1>3, NumeralValue
<1>6. PICK a : a = FromDigits(s, 10)
    OBVIOUS
<1>7. a \in Seq(Digit) /\ ValueOf(a) = k
    BY <1>4, <1>5, <1>6, DecimalValue
<1>8. Vector(int_normalize(a)) /\ ValueOf(int_normalize(a)) = k
    BY <1>7, NormalizeVector, NormalizeValue DEF Digit
<1>9. Number(Make(FALSE, int_normalize(a))) = k
    BY <1>8, IntegerMade
<1>10. Exact!Exact = <<"int", Number(left)>>
    BY DEF Exact!Exact
<1> QED
    BY <1>1, <1>3, <1>6, <1>9, <1>10, AnswerInt DEF IsExact

\* A quotient, and a remainder below the divisor, with the signs int_divrem gives them.
LEMMA DivideExact ==
    ASSUME Integer(left), Integer(right), NEW k, NEW m, Vector(k), Vector(m),
           ValueOf(m) < ValueOf(right.v),
           ValueOf(left.v) = ValueOf(right.v) * ValueOf(k) + ValueOf(m)
    PROVE  /\ op = "div" => IsExact(<<"int", Make(left.neg # right.neg, k)>>)
           /\ op = "mod" => IsExact(<<"int", Make(left.neg, m)>>)
<1>1. k \in Seq(Digit) /\ m \in Seq(Digit)
    BY VectorDigits
<1>2. ValueOf(k) \in Nat /\ ValueOf(m) \in Nat
    BY <1>1, ValueBelow
<1>3. /\ Number(right) # 0
      /\ Exact!Quotient(Number(left), Number(right)) = IF left.neg # right.neg THEN -ValueOf(k) ELSE ValueOf(k)
      /\ Exact!Remainder(Number(left), Number(right)) = IF left.neg THEN -ValueOf(m) ELSE ValueOf(m)
    BY <1>2, TruncatedNumber
<1>4. Number(Make(left.neg # right.neg, k)) = IF left.neg # right.neg THEN -ValueOf(k) ELSE ValueOf(k)
    BY <1>1, NumberMade
<1>5. Number(Make(left.neg, m)) = IF left.neg THEN -ValueOf(m) ELSE ValueOf(m)
    BY <1>1, NumberMade
<1>6. \A x : Exact!Divide(x) = <<"int", x>>
    BY <1>3 DEF Exact!Divide
<1>7. op = "div" => Exact!Exact = Exact!Divide(Exact!Quotient(Number(left), Number(right)))
    BY DEF Exact!Exact
<1>8. op = "mod" => Exact!Exact = Exact!Divide(Exact!Remainder(Number(left), Number(right)))
    BY DEF Exact!Exact
<1>9. op = "div" => IsExact(<<"int", Make(left.neg # right.neg, k)>>)
    BY <1>3, <1>4, <1>6, <1>7, AnswerInt DEF IsExact
<1>10. op = "mod" => IsExact(<<"int", Make(left.neg, m)>>)
    BY <1>3, <1>5, <1>6, <1>8, AnswerInt DEF IsExact
<1> QED
    BY <1>9, <1>10

\* A zero divisor is an error.
LEMMA ZeroExact ==
    ASSUME right = Zero, op \in {"div", "mod"}
    PROVE  IsExact(<<"ValueError">>)
<1>1. Number(right) = 0
  <2>1. <<>> \in Seq(Digit)
      OBVIOUS
  <2>2. Number(Make(FALSE, <<>>)) = ValueOf(<<>>)
      BY <2>1, NumberMade
  <2> QED
      BY <2>2, NothingValue DEF Zero
<1>2. \A x : Exact!Divide(x) = <<"ValueError">>
    BY <1>1 DEF Exact!Divide
<1>3. CASE op = "div"
  <2>1. Exact!Exact = Exact!Divide(Exact!Quotient(Number(left), Number(right)))
      BY <1>3 DEF Exact!Exact
  <2> QED
      BY <2>1, <1>2 DEF IsExact, Answer
<1>4. CASE op = "mod"
  <2>1. Exact!Exact = Exact!Divide(Exact!Remainder(Number(left), Number(right)))
      BY <1>4 DEF Exact!Exact
  <2> QED
      BY <2>1, <1>2 DEF IsExact, Answer
<1> QED
    BY <1>3, <1>4

\* The operation returns an exact answer for whatever quotient and remainder it gives.
BothExact(x, y) == (op = "div" => IsExact(x)) /\ (op = "mod" => IsExact(y))

\* The quotient is 0 when the dividend is smaller.
LEMMA SmallerExact ==
    ASSUME Integer(left), Integer(right), Smaller
    PROVE  BothExact(<<"int", COInt_FromLong(0)>>, <<"int", left>>)
<1>1. /\ left.v \in Seq(Digit) /\ Vector(left.v) /\ ValueOf(left.v) \in Nat
      /\ Number(left) = IF left.neg THEN -ValueOf(left.v) ELSE ValueOf(left.v)
    BY IntegerIs
<1>2. right.v \in Seq(Digit) /\ Vector(right.v) /\ ValueOf(right.v) \in Nat
    BY IntegerIs
<1>3. ValueOf(left.v) < ValueOf(right.v)
  <2>1. CASE Len(left.v) < Len(right.v)
    <3>1. Len(right.v) > Len(left.v)
        BY <2>1, <1>1, <1>2
    <3>2. ValueOf(right.v) > ValueOf(left.v)
        BY <3>1, <1>1, <1>2, LongerValue
    <3> QED
        BY <3>2, <1>1, <1>2
  <2>2. CASE Len(left.v) = Len(right.v) /\ Top(left) < Top(right)
    <3>1. PICK n : n = Len(left.v)
        OBVIOUS
    <3>2. n \in Nat /\ n = Len(right.v)
        BY <2>2, <3>1, <1>1
    <3>6. DOMAIN left.v = 1..n /\ DOMAIN right.v = 1..n
      <4>1. DOMAIN left.v = 1..Len(left.v)
          BY <1>1
      <4>2. DOMAIN right.v = 1..Len(right.v)
          BY <1>2
      <4> QED
          BY <4>1, <4>2, <3>1, <3>2
    <3>3. CASE n = 0
      <4>1. 0 \notin DOMAIN left.v /\ 0 \notin DOMAIN right.v
          BY <3>6
      <4>2. Top(left) = 0 /\ Top(right) = 0
          BY <4>1, <3>1, <3>2, <3>3 DEF Top, At
      <4> QED
          BY <4>2, <2>2
    <3>4. CASE n # 0
      <4>1. n >= 1 /\ n \in DOMAIN left.v /\ n \in DOMAIN right.v
        <5>1. n >= 1 /\ n \in 1..n
            BY <3>2, <3>4
        <5> QED
            BY <5>1, <3>6
      <4>2. left.v[n] < right.v[n]
          BY <4>1, <2>2, <3>1, <3>2 DEF Top, At
      <4> QED
          BY <4>1, <4>2, <3>1, <3>2, <1>1, <1>2, TopLess
    <3> QED
        BY <3>3, <3>4
  <2> QED
      BY <2>1, <2>2 DEF Smaller
<1>4. Vector(<<>>) /\ ValueOf(<<>>) = 0
    BY EmptySeq, NothingValue DEF Vector
<1>5. ValueOf(left.v) = ValueOf(right.v) * ValueOf(<<>>) + ValueOf(left.v)
    BY <1>1, <1>2, <1>4
<1>6. /\ op = "div" => IsExact(<<"int", Make(left.neg # right.neg, <<>>)>>)
      /\ op = "mod" => IsExact(<<"int", Make(left.neg, left.v)>>)
    BY <1>1, <1>3, <1>4, <1>5, DivideExact
<1>7. Number(Make(left.neg # right.neg, <<>>)) = Number(COInt_FromLong(0))
  <2>1. <<>> \in Seq(Digit)
      OBVIOUS
  <2>2. Number(Make(left.neg # right.neg, <<>>)) = IF left.neg # right.neg THEN -0 ELSE 0
      BY <2>1, <1>4, NumberMade
  <2>3. -0 = 0 /\ 0 \in Int
    <3>1. 0 \in Int /\ 0 - 0 = 0
        OBVIOUS
    <3>2. -0 = 0 - 0
        BY <3>1, Minus
    <3> QED
        BY <3>1, <3>2
  <2>4. Number(COInt_FromLong(0)) = 0
      BY <2>3, FromLongNumber
  <2> QED
      BY <2>2, <2>3, <2>4
<1>8. Number(Make(left.neg, left.v)) = Number(left)
    BY <1>1, NumberMade
<1> QED
    BY <1>6, <1>7, <1>8, AnswerInt DEF IsExact, BothExact

\* Division by one digit.
LEMMA DigitExact ==
    ASSUME Integer(left), Integer(right), Len(right.v) = 1
    PROVE  LET res == divrem1(left.v, right.v[1])
               rem == COInt_FromLong(res.r)
           IN  BothExact(<<"int", Make(left.neg # right.neg, res.q)>>, <<"int", Make(left.neg, rem.v)>>)
<1>1. left.v \in Seq(Digit) /\ ValueOf(left.v) \in Nat
    BY IntegerIs
<1>2. right.v \in Seq(Digit) /\ Vector(right.v) /\ ValueOf(right.v) \in Nat
    BY IntegerIs
<1>3. PICK n : n = right.v[1]
    OBVIOUS
<1>4. n \in Digit /\ n # 0 /\ ValueOf(right.v) = n /\ n \in Nat
  <2>1. right.v # <<>> /\ 1 \in DOMAIN right.v
      BY <1>2, EmptySeq
  <2>2. n \in Digit /\ n # 0
      BY <2>1, <1>2, <1>3 DEF Vector
  <2>3. ValueOf(right.v) = At(right.v, 1)
    <3>1. Len(right.v) <= 1
        OBVIOUS
    <3> QED
        BY <3>1, <1>2, OneDigitValue
  <2> QED
      BY <2>1, <2>2, <2>3, <1>3, DigitIs DEF At
<1>5. PICK res : res = divrem1(left.v, n)
    OBVIOUS
<1>6. /\ res.r \in 0..n - 1 /\ Vector(res.q)
      /\ ValueOf(left.v) = n * ValueOf(res.q) + res.r
    BY <1>1, <1>4, <1>5, DivremValue
<1>7. PICK x : x = res.r
    OBVIOUS
<1>8. x \in Nat /\ x < n
    BY <1>4, <1>6, <1>7
<1>9. PICK m : m = COInt_FromLong(x).v
    OBVIOUS
<1>10. Vector(m) /\ ValueOf(m) = x
  <2>1. COInt_FromLong(x).v = FromUnsigned(x)
      BY <1>8 DEF COInt_FromLong, Make
  <2>2. Vector(FromUnsigned(x)) /\ ValueOf(FromUnsigned(x)) = x
      BY <1>8, FromUnsignedVector, FromUnsignedValue
  <2> QED
      BY <2>1, <2>2, <1>9
<1>11. PICK k : k = res.q
    OBVIOUS
<1>12. /\ op = "div" => IsExact(<<"int", Make(left.neg # right.neg, k)>>)
       /\ op = "mod" => IsExact(<<"int", Make(left.neg, m)>>)
  <2>1. Vector(k) /\ ValueOf(m) < ValueOf(right.v) /\ ValueOf(left.v) = ValueOf(right.v) * ValueOf(k) + ValueOf(m)
      BY <1>4, <1>6, <1>7, <1>8, <1>10, <1>11
  <2> QED
      BY <2>1, <1>10, DivideExact
<1> QED
    BY <1>3, <1>5, <1>7, <1>9, <1>11, <1>12 DEF BothExact

\* Division by several digits.
LEMMA EndExact ==
    ASSUME IntsInv, Integer(left), Integer(right), DividendKept, EndDivision
    PROVE  IsExact(result')
<1>1. op \in {"div", "mod"}
    BY DEF IntsInv, EndDivision, Dividing
<1>2. PICK rem : rem = v_rshift(SubSeq(v, 1, size_w), d)
    OBVIOUS
<1>3. /\ quot \in Seq(Digit) /\ rem \in Seq(Digit)
      /\ ValueOf(rem) < ValueOf(right.v)
      /\ ValueOf(left.v) = ValueOf(right.v) * ValueOf(quot) + ValueOf(rem)
    BY <1>2, EndDividend
<1>4. result' = <<"int", IF op = "div" THEN Make(left.neg # right.neg, int_normalize(quot))
                         ELSE Make(left.neg, int_normalize(rem))>>
    BY <1>2 DEF EndDivision, Return
<1>5. PICK k : k = int_normalize(quot)
    OBVIOUS
<1>6. PICK m : m = int_normalize(rem)
    OBVIOUS
<1>7. Vector(k) /\ Vector(m) /\ ValueOf(k) = ValueOf(quot) /\ ValueOf(m) = ValueOf(rem)
    BY <1>3, <1>5, <1>6, NormalizeVector, NormalizeValue DEF Digit
<1>8. /\ op = "div" => IsExact(<<"int", Make(left.neg # right.neg, k)>>)
      /\ op = "mod" => IsExact(<<"int", Make(left.neg, m)>>)
    BY <1>3, <1>7, DivideExact
<1>9. CASE op = "div"
    BY <1>4, <1>5, <1>8, <1>9
<1>10. CASE op = "mod"
    BY <1>4, <1>6, <1>8, <1>10
<1> QED
    BY <1>1, <1>9, <1>10

-----------------------------------------------------------------------------
(* Integers implement exact arithmetic *)

\* What a state says of the arithmetic: the operands are integers, a result is there when the
\* operation is done, and a division loses nothing.
ExactInv ==
    /\ Integer(left) /\ Integer(right)
    /\ pc = "idle" => op = "none"
    /\ pc # "idle" => op \in Exact!Ops
    /\ pc # "done" => result = <<"none">>
    /\ pc = "done" => result[1] # "none"
    /\ pc \in {"estimate", "correct", "subtract"} => DividendKept

\* A step of exact arithmetic, or none.
Refines == Exact!Next \/ UNCHANGED Exact!vars

\* A step that leaves the operands and the result alone.
LEMMA StutterRefines == ASSUME UNCHANGED <<op, left, right, result>> PROVE Refines
BY DEF Refines, Exact!vars

\* What an operation returns is what exact arithmetic answers.
LEMMA ReturnRefines ==
    ASSUME ExactInv, pc \notin {"idle", "done"}, IsExact(result'), pc' = "done", UNCHANGED <<op, left, right>>
    PROVE  ExactInv' /\ Refines
<1>1. op \in Exact!Ops /\ result = <<"none">> /\ Integer(left) /\ Integer(right)
    BY DEF ExactInv
<1>2. Answer(result') = Exact!Exact /\ result'[1] # "none"
    BY DEF IsExact
<1>3. Exact!Operate
    BY <1>1, <1>2 DEF Exact!Operate, Answer
<1>4. ExactInv'
    BY <1>1, <1>2 DEF ExactInv, Integer, Normal
<1> QED
    BY <1>3, <1>4 DEF Refines, Exact!Next

\* An operation of one step whose result is exact.
LEMMA CheckedRefines ==
    ASSUME ExactInv, NEW o, NEW x, NEW asserts, Checked(o, x, asserts), asserts, op = o => IsExact(x)
    PROVE  ExactInv' /\ Refines
<1>1. pc = "ready" /\ op = o /\ pc' = "done" /\ result' = x /\ UNCHANGED <<op, left, right>>
    BY DEF Checked, Return
<1> QED
    BY <1>1, ReturnRefines

LEMMA OperationRefines ==
    ASSUME ExactInv, NEW o, NEW x, Operation(o, x), op = o => IsExact(x)
    PROVE  ExactInv' /\ Refines
BY CheckedRefines DEF Operation

\* New operands, and the end.
LEMMA TakeRefines == ASSUME ExactInv, Take PROVE ExactInv' /\ Refines
<1>1. PICK p \in Operands : left' = COInt_FromLong(p[1]) /\ right' = COInt_FromLong(p[2])
    BY DEF Take
<1>2. p[1] \in Int /\ p[2] \in Int /\ p = <<p[1], p[2]>>
    BY IntsAssumption
<1>3. /\ Integer(COInt_FromLong(p[1])) /\ Number(COInt_FromLong(p[1])) = p[1]
      /\ Integer(COInt_FromLong(p[2])) /\ Number(COInt_FromLong(p[2])) = p[2]
    BY <1>2, FromLongNumber
<1>4. pc = "idle" /\ pc' = "ready" /\ op' \in Exact!Ops /\ result' = result /\ op = "none" /\ result = <<"none">>
    BY DEF Take, ExactInv
<1>5. Exact!Take
  <2>1. <<Number(left'), Number(right')>> \in Operands
      BY <1>1, <1>2, <1>3
  <2> QED
      BY <2>1, <1>4 DEF Exact!Take
<1>6. ExactInv'
    BY <1>1, <1>3, <1>4 DEF ExactInv, Integer, Normal
<1> QED
    BY <1>5, <1>6 DEF Refines, Exact!Next

LEMMA ZeroInteger == Integer(Zero) /\ Number(Zero) = 0
<1>1. Vector(<<>>) /\ ValueOf(<<>>) = 0
    BY EmptySeq, NothingValue DEF Vector
<1> QED
    BY <1>1, IntegerMade DEF Zero

LEMMA ReleaseRefines == ASSUME ExactInv, Release PROVE ExactInv' /\ Refines
<1>1. /\ pc = "done" /\ op' = "none" /\ left' = Zero /\ right' = Zero /\ pc' = "idle" /\ result' = <<"none">>
      /\ result[1] # "none"
    BY DEF Release, ExactInv
<1>2. Answer(result) # <<"none">>
    BY <1>1 DEF Answer
<1>3. Exact!Release
    BY <1>1, <1>2, ZeroInteger DEF Exact!Release, Answer
<1>4. ExactInv'
    BY <1>1, ZeroInteger DEF ExactInv, Integer, Normal
<1> QED
    BY <1>3, <1>4 DEF Refines, Exact!Next

\* In a division: the state goes on to another, and nothing is answered.
LEMMA DivisionRefines ==
    ASSUME ExactInv, pc # "done", pc' \in {"estimate", "correct", "subtract"},
           UNCHANGED <<op, left, right, result>>, op \in Exact!Ops, DividendKept'
    PROVE  ExactInv' /\ Refines
<1>1. Refines
    BY StutterRefines
<1>2. ExactInv'
    BY DEF ExactInv, Integer, Normal
<1> QED
    BY <1>1, <1>2

\* Every action is a step of exact arithmetic, or none.
LEMMA ShiftRefines == ASSUME ExactInv, Lshift \/ Rshift PROVE ExactInv' /\ Refines
<1> DEFINE n == COInt_AsSsize_t(right)
           x == Make(left.neg, int_lshift(left.v, n.value))
           y == Make(FALSE, int_rshift(left.v, n.value))
           z == int_invert(Make(FALSE, int_rshift(int_invert(left).v, n.value)))
<1>1. Integer(left) /\ Integer(right) /\ left.neg \in BOOLEAN
    BY DEF ExactInv, Integer
<1>2. /\ op = "lshift" =>
            /\ ~n.fits => IsExact(<<"OverflowError">>)
            /\ n.fits /\ n.value < 0 => IsExact(<<"ValueError">>)
            /\ n.fits /\ n.value >= 0 => IsExact(<<"int", x>>)
      /\ op = "rshift" =>
            /\ ~n.fits => IsExact(<<"OverflowError">>)
            /\ n.fits /\ n.value < 0 => IsExact(<<"ValueError">>)
            /\ n.fits /\ n.value >= 0 => IsExact(<<"int", RightShifted(left, n.value)>>)
    BY <1>1, ShiftExact
<1>3. RightShifted(left, n.value) = IF left.neg THEN z ELSE y
    BY DEF RightShifted
<1>4. ASSUME Lshift
      PROVE  ExactInv' /\ Refines
  <2>1. \/ ~n.fits /\ Operation("lshift", <<"OverflowError">>)
        \/ n.fits /\ n.value < 0 /\ Operation("lshift", <<"ValueError">>)
        \/ n.fits /\ n.value >= 0 /\ Operation("lshift", <<"int", x>>)
      BY <1>4 DEF Lshift
  <2> HIDE DEF n, x
  <2> QED
      BY <2>1, <1>2, OperationRefines
<1>5. ASSUME Rshift
      PROVE  ExactInv' /\ Refines
  <2>1. \/ ~n.fits /\ Operation("rshift", <<"OverflowError">>)
        \/ n.fits /\ n.value < 0 /\ Operation("rshift", <<"ValueError">>)
        \/ n.fits /\ n.value >= 0 /\ ~left.neg /\ Operation("rshift", <<"int", y>>)
        \/ n.fits /\ n.value >= 0 /\ left.neg /\ Operation("rshift", <<"int", z>>)
      BY <1>5 DEF Rshift
  <2> HIDE DEF n, y, z
  <2>2. left.neg => RightShifted(left, n.value) = z
      BY <1>3
  <2>3. ~left.neg => RightShifted(left, n.value) = y
      BY <1>3
  <2> QED
      BY <2>1, <2>2, <2>3, <1>2, OperationRefines
<1> QED
    BY <1>4, <1>5

LEMMA LiteralRefines ==
    ASSUME IntsInv, ExactInv, BinaryLiteral \/ DecimalLiteral
    PROVE  ExactInv' /\ Refines
<1>1. IntsInv' /\ Integer(left)
    BY LiteralStep DEF ExactInv
<1>2. ASSUME BinaryLiteral
      PROVE  ExactInv' /\ Refines
  <2>1. PICK zeros \in 0..SHIFT, lit \in {<<"bin", 1>>, <<"oct", 3>>, <<"hex", 4>>} :
            LET s == [i \in 1..zeros |-> 0] \o Exact!Numeral(Number(left), 2^lit[2])
                digits == int_from_binary_base(s, lit[2])
            IN  Checked(lit[1], <<"int", Make(FALSE, int_normalize(digits))>>,
                        Len(digits) <= BinarySize(Len(s), lit[2]))
      BY <1>2 DEF BinaryLiteral
  <2>2. PICK e : e = lit[2]
      OBVIOUS
  <2>3. e \in 1..SHIFT /\ lit[1] \in {"bin", "oct", "hex"} /\ zeros \in Nat
      BY <2>2, DigitSizes
  <2> DEFINE s == [i \in 1..zeros |-> 0] \o Exact!Numeral(Number(left), 2^e)
             x == <<"int", Make(FALSE, int_normalize(int_from_binary_base(s, e)))>>
  <2>4. PICK asserts : Checked(lit[1], x, asserts)
      BY <2>1, <2>2
  <2> HIDE DEF x
  <2>5. pc = "ready" /\ op = lit[1] /\ result' = x /\ UNCHANGED <<op, left, right>>
      BY <2>4 DEF Checked, Return
  <2>6. asserts
      BY <2>4, <1>1 DEF Checked, Return, IntsInv, AssertsHold
  <2>7. ~left.neg
      BY <2>3, <2>5 DEF IntsInv, Literals
  <2>8. op = lit[1] => IsExact(x)
    <3> HAVE op = lit[1]
    <3>1. op \in {"bin", "oct", "hex"}
        BY <2>3
    <3> QED
        BY <3>1, <2>3, <2>7, <1>1, BinaryExact DEF x
  <2> QED
      BY <2>4, <2>6, <2>8, CheckedRefines
<1>3. ASSUME DecimalLiteral
      PROVE  ExactInv' /\ Refines
  <2> DEFINE x == <<"int", Make(FALSE, int_normalize(FromDigits(Exact!Numeral(Number(left), 10), 10)))>>
  <2>1. PICK asserts : Checked("dec", x, asserts)
      BY <1>3 DEF DecimalLiteral
  <2> HIDE DEF x
  <2>2. asserts /\ op = "dec" /\ pc = "ready"
      BY <2>1, <1>1 DEF Checked, Return, IntsInv, AssertsHold
  <2>3. ~left.neg
      BY <2>2 DEF IntsInv, Literals
  <2>4. IsExact(x)
      BY <2>2, <2>3, <1>1, DecimalExact DEF x
  <2> QED
      BY <2>1, <2>2, <2>4, CheckedRefines
<1> QED
    BY <1>2, <1>3

LEMMA SmallDivisionRefines ==
    ASSUME ExactInv, DivideByZero \/ DivideSmaller \/ DivideByDigit
    PROVE  ExactInv' /\ Refines
<1>1. Integer(left) /\ Integer(right)
    BY DEF ExactInv
<1>2. ASSUME NEW x, NEW y, DivRem(x, y), BothExact(x, y)
      PROVE  ExactInv' /\ Refines
    BY <1>2, OperationRefines DEF DivRem, BothExact
<1>3. CASE DivideByZero
  <2>1. right = Zero /\ DivRem(<<"ValueError">>, <<"ValueError">>)
      BY <1>3 DEF DivideByZero
  <2>2. BothExact(<<"ValueError">>, <<"ValueError">>)
      BY <2>1, ZeroExact DEF BothExact
  <2> QED
      BY <2>1, <2>2, <1>2
<1>4. CASE DivideSmaller
  <2>1. Smaller /\ DivRem(<<"int", COInt_FromLong(0)>>, <<"int", left>>)
      BY <1>4 DEF DivideSmaller
  <2>2. BothExact(<<"int", COInt_FromLong(0)>>, <<"int", left>>)
      BY <2>1, <1>1, SmallerExact
  <2> QED
      BY <2>1, <2>2, <1>2
<1>5. CASE DivideByDigit
  <2> DEFINE res == divrem1(left.v, right.v[1])
             x == <<"int", Make(left.neg # right.neg, res.q)>>
             y == <<"int", Make(left.neg, COInt_FromLong(res.r).v)>>
  <2>1. Len(right.v) = 1 /\ DivRem(x, y)
      BY <1>5 DEF DivideByDigit
  <2>2. BothExact(x, y)
      BY <2>1, <1>1, DigitExact
  <2> HIDE DEF x, y
  <2> QED
      BY <2>1, <2>2, <1>2
<1> QED
    BY <1>3, <1>4, <1>5

LEMMA EstimateRefines == ASSUME IntsInv, ExactInv, Estimate \/ Correct \/ Accept PROVE ExactInv' /\ Refines
<1>1. pc' \in {"estimate", "correct", "subtract"}
  <2>1. CASE Estimate
      BY <2>1, EstimateStep
  <2>2. CASE Correct
      BY <2>2 DEF Correct
  <2>3. CASE Accept
      BY <2>3, AcceptStep
  <2> QED
      BY <2>1, <2>2, <2>3
<1>2. /\ UNCHANGED <<op, left, right, result>> /\ UNCHANGED <<v, w, d, quot>>
      /\ pc \in {"estimate", "correct", "subtract"}
    BY DEF Estimate, Correct, Accept, Continue, dividing
<1>3. op \in Exact!Ops /\ DividendKept
    BY <1>2 DEF ExactInv
<1>4. DividendKept'
    BY <1>2, <1>3 DEF DividendKept, Lower, at, size_w
<1> QED
    BY <1>1, <1>2, <1>3, <1>4, DivisionRefines

LEMMA DivideRefines ==
    ASSUME IntsInv, ExactInv, StartDivision \/ Subtract \/ EndDivision
    PROVE  ExactInv' /\ Refines
<1>1. Integer(left) /\ Integer(right)
    BY DEF ExactInv
<1>2. CASE StartDivision
  <2>1. pc' = "estimate" /\ DividendKept'
      BY <1>1, <1>2, StartStep, StartExact
  <2>2. UNCHANGED <<op, left, right, result>> /\ pc = "ready" /\ op \in Exact!Ops
      BY <1>2 DEF StartDivision, Continue, ExactInv
  <2> QED
      BY <2>1, <2>2, DivisionRefines
<1>3. CASE Subtract
  <2>1. UNCHANGED <<op, left, right, result>> /\ pc = "subtract"
      BY <1>3 DEF Subtract, Continue
  <2>2. op \in Exact!Ops /\ DividendKept
      BY <2>1 DEF ExactInv
  <2>3. pc' = "estimate" /\ DividendKept'
      BY <2>2, <1>1, <1>3, SubtractStep, SubtractExact
  <2> QED
      BY <2>1, <2>2, <2>3, DivisionRefines
<1>4. CASE EndDivision
  <2>1. UNCHANGED <<op, left, right>> /\ pc = "estimate"
      BY <1>4 DEF EndDivision, Return
  <2>2. DividendKept
      BY <2>1 DEF ExactInv
  <2>3. pc' = "done" /\ IsExact(result')
      BY <2>2, <1>1, <1>4, EndStep, EndExact
  <2> QED
      BY <2>1, <2>3, ReturnRefines
<1> QED
    BY <1>2, <1>3, <1>4

LEMMA NextRefines == ASSUME IntsInv, ExactInv, [Next]_vars PROVE ExactInv' /\ Refines
<1>1. Integer(left) /\ Integer(right)
    BY DEF ExactInv
<1>2. CASE Take
    BY <1>2, TakeRefines
<1>3. CASE Release
    BY <1>3, ReleaseRefines
<1>4. CASE Add
    BY <1>1, <1>4, AddExact, OperationRefines DEF Add
<1>5. CASE Sub
    BY <1>1, <1>5, SubExact, OperationRefines DEF Sub
<1>6. CASE Mul
  <2>1. /\ op = "mul" => IsExact(<<"int", int_mul(left, right, FALSE)>>)
        /\ left = right /\ op = "mul" => IsExact(<<"int", int_mul(left, right, TRUE)>>)
      BY <1>1, MulExact
  <2> QED
      BY <2>1, <1>6, OperationRefines DEF Mul
<1>7. CASE Neg
    BY <1>1, <1>7, NegExact, OperationRefines DEF Neg
<1>8. CASE Invert
    BY <1>1, <1>8, InvertExact, OperationRefines DEF Invert
<1>9. CASE Compare
    BY <1>1, <1>9, CompareExact, OperationRefines DEF Compare
<1>10. CASE Lshift \/ Rshift
    BY <1>10, ShiftRefines
<1>11. CASE Long
  <2>1. PICK x \in {COInt_AsLong(left)} :
            Operation("long", IF x.fits THEN <<"long", x.value>> ELSE <<"OverflowError">>)
      BY <1>11 DEF Long
  <2>2. op = "long" => IsExact(IF x.fits THEN <<"long", x.value>> ELSE <<"OverflowError">>)
      BY <1>1, LongExact
  <2> QED
      BY <2>1, <2>2, OperationRefines
<1>12. CASE Repr
  <2> DEFINE x == <<"text", left.neg, DecimalText(DecimalGroups(left.v))>>
  <2>1. Len(DecimalGroups(left.v)) <= ReprSize(left.v)
      BY <1>1, IntegerIs, ReprRoom
  <2>2. PICK y : y /\ Checked("repr", x, y)
      BY <2>1, <1>12 DEF Repr
  <2>3. op = "repr" => IsExact(x)
      BY <1>1, ReprExact
  <2> HIDE DEF x
  <2> QED
      BY <2>2, <2>3, CheckedRefines
<1>13. CASE BinaryLiteral \/ DecimalLiteral
    BY <1>13, LiteralRefines
<1>14. CASE DivideByZero \/ DivideSmaller \/ DivideByDigit
    BY <1>14, SmallDivisionRefines
<1>15. CASE StartDivision \/ Subtract \/ EndDivision
    BY <1>15, DivideRefines
<1>16. CASE Estimate \/ Correct \/ Accept
    BY <1>16, EstimateRefines
<1>17. CASE UNCHANGED vars
  <2>1. UNCHANGED <<op, left, right, pc, result, v, w, d, quot, q, r>>
      BY <1>17 DEF vars, dividing
  <2>2. DividendKept => DividendKept'
      BY <2>1 DEF DividendKept, Lower, at, size_w
  <2>3. ExactInv'
      BY <2>1, <2>2 DEF ExactInv, Integer, Normal
  <2> QED
      BY <2>1, <2>3, StutterRefines
<1> QED
    BY <1>2, <1>3, <1>4, <1>5, <1>6, <1>7, <1>8, <1>9, <1>10, <1>11, <1>12, <1>13, <1>14, <1>15, <1>16,
       <1>17 DEF Next

\* Both begin alike.
LEMMA ExactInit == ASSUME Init PROVE ExactInv /\ Exact!Init
<1>1. op = "none" /\ left = Zero /\ right = Zero /\ pc = "idle" /\ result = <<"none">>
    BY DEF Init
<1>2. ExactInv
    BY <1>1, ZeroInteger DEF ExactInv
<1>3. Exact!Init
    BY <1>1, ZeroInteger DEF Exact!Init
<1> QED
    BY <1>2, <1>3

\* The integers of the language are the integers: every step of intobject.c answers as exact
\* arithmetic does, or answers nothing yet.
THEOREM IntegersAreExact == Spec => ImplementsArithmetic
<1>1. Init => IntsInv /\ ExactInv /\ Exact!Init
    BY IntsInit, ExactInit
<1>2. IntsInv /\ ExactInv /\ [Next]_vars => (IntsInv /\ ExactInv)'
    BY IntsNext, NextRefines
<1>3. IntsInv /\ ExactInv /\ [Next]_vars => [Exact!Next]_(Exact!vars)
    BY NextRefines DEF Refines
<1> QED
    BY <1>1, <1>2, <1>3, PTL DEF Spec, ImplementsArithmetic, Exact!Spec

=============================================================================
