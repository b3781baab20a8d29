-------------------------------- MODULE Digits --------------------------------
(****************************************************************************)
(* The digit vectors of integers (intobject.c), least significant digit     *)
(* first, and the loops over them.  A loop that hands a carry from digit to *)
(* digit is the recursive function that gives the carry into every digit.   *)
(* A `digit` is an unsigned number of SHIFT + 2 bits.                       *)
(****************************************************************************)
EXTENDS Integers, Sequences, SequencesExt

CONSTANTS
    SHIFT,          \* COInt_SHIFT: bits of a digit in use (30 in the code)
    DECIMAL_SHIFT,  \* COInt_DECIMAL_SHIFT: decimal digits that fit in a digit (9)
    LONG_BITS       \* bits of a long and of an ssize_t (64)

\* What an instance must satisfy.
ASSUME DigitsAssumption ==
    /\ SHIFT \in Nat \ 0..3
    /\ DECIMAL_SHIFT \in Nat \ {0}
    /\ LONG_BITS \in Nat
    /\ SHIFT < LONG_BITS

BASE == 2^SHIFT
MASK == BASE - 1

\* base^n, as a loop multiplies it
Power(base, n) ==
    LET power[i \in 0..n] == IF i = 0 THEN 1 ELSE base * power[i - 1] IN power[n]

DECIMAL_BASE == Power(10, DECIMAL_SHIFT)

\* As many decimal digits as fit.
ASSUME DecimalAssumption == DECIMAL_BASE <= BASE /\ BASE < 10 * DECIMAL_BASE

LONG_MAX == 2^(LONG_BITS - 1) - 1
LONG_MIN == -2^(LONG_BITS - 1)

uint32(x) == x % 2^(SHIFT + 2)

\* The digit of v at i: 0 above its end, where the code has left the loop.
At(v, i) == IF i \in DOMAIN v THEN v[i] ELSE 0

\* Mutant: leading zeros stay.
int_normalize_Kept(v) == v

\* leading zeros removed
int_normalize(v) ==
    SubSeq(v, 1, Max({0} \cup {i \in DOMAIN v : v[i] # 0}))

\* |a| + |b|
x_add(a, b) ==
    LET n == Max({Len(a), Len(b)})
        carry[i \in 0..n] ==
            IF i = 0 THEN 0 ELSE (carry[i - 1] + At(a, i) + At(b, i)) \div BASE
    IN  int_normalize(
            [i \in 1..n + 1 |-> IF i > n THEN carry[n]
                                ELSE (carry[i - 1] + At(a, i) + At(b, i)) % BASE])

\* The vectors differ, and a holds the greater number.
Exceeds(a, b) ==
    \/ Len(a) > Len(b)
    \/ /\ Len(a) = Len(b)
       /\ \E i \in DOMAIN a :
            /\ a[i] > b[i]
            /\ \A j \in i + 1..Len(a) : a[j] = b[j]

\* a - b, where a is the greater: the borrow is computed in unsigned arithmetic
Subtracted(a, b) ==
    LET borrow[i \in 0..Len(a)] ==
            IF i = 0 THEN 0
            ELSE (uint32(At(a, i) - At(b, i) - borrow[i - 1]) \div BASE) % 2
    IN  int_normalize([i \in DOMAIN a |-> uint32(a[i] - At(b, i) - borrow[i - 1]) % BASE])

\* |a| - |b|: whether the result is negative, and its digits
x_sub(a, b) ==
    IF a = b THEN [neg |-> FALSE, v |-> <<>>]
    ELSE IF Exceeds(a, b) THEN [neg |-> FALSE, v |-> Subtracted(a, b)]
    ELSE [neg |-> TRUE, v |-> Subtracted(b, a)]

\* Row i of the product: z plus f times b, f being digit i of the other factor.
AddRow(z, i, f, b) ==
    LET n == Len(b)
        sum[j \in 1..n] ==
            z[i + j - 1] + b[j] * f + (IF j = 1 THEN 0 ELSE sum[j - 1] \div BASE)
    IN  [p \in DOMAIN z |->
            IF p \in i..i + n - 1 THEN sum[p - i + 1] % BASE
            ELSE IF p = i + n /\ n > 0 THEN z[p] + ((sum[n] \div BASE) % BASE)
            ELSE z[p]]

\* Row i of a square: the square of digit i, and twice its product with each higher one.
\* The carry out of the row can be of two digits.
SquareRow(z, i, a) ==
    LET n == Len(a)
        sum[j \in i..n + 1] ==
            z[i + j - 1]
                + (IF j = i THEN a[i] * a[i] ELSE At(a, j) * 2 * a[i])
                + (IF j = i THEN 0 ELSE sum[j - 1] \div BASE)
    IN  [p \in DOMAIN z |->
            IF p \in 2 * i - 1..i + n THEN sum[p - i + 1] % BASE
            ELSE IF p = i + n + 1 THEN z[p] + ((sum[n + 1] \div BASE) % BASE)
            ELSE z[p]]

\* |a| * |b|; `same` when they are one object
x_mul(a, b, same) ==
    LET zeros == [p \in 1..Len(a) + Len(b) |-> 0]
        Row(z, i) == IF same THEN SquareRow(z, i, a) ELSE AddRow(z, i, a[i], b)
        rows[i \in 0..Len(a)] == IF i = 0 THEN zeros ELSE Row(rows[i - 1], i)
    IN  int_normalize(rows[Len(a)])

-----------------------------------------------------------------------------
(* Shifts and division by one digit *)

bits_in_digit(x) == CHOOSE n \in 0..SHIFT : 2^n > x /\ (n = 0 \/ 2^(n - 1) <= x)

\* The d bits shifted out of the top of v, for 0 <= d < SHIFT.
v_lshift_carry(v, d) == IF v = <<>> THEN 0 ELSE (v[Len(v)] * 2^d) \div BASE

v_lshift(v, d) ==
    [i \in DOMAIN v |-> ((v[i] * 2^d) % BASE) + ((At(v, i - 1) * 2^d) \div BASE)]

v_rshift(v, d) ==
    [i \in DOMAIN v |-> v[i] \div 2^d + ((At(v, i + 1) % 2^d) * 2^(SHIFT - d))]

\* The remainder of v[i..] and the digit n.
inplace_divrem1(v, n) ==
    LET rem[i \in 1..Len(v) + 1] ==
            IF i > Len(v) THEN 0 ELSE (rem[i + 1] * BASE + v[i]) % n
    IN  rem

\* quotient and remainder of v and the digit n
divrem1(v, n) ==
    LET rem == inplace_divrem1(v, n)
    IN  [q |-> int_normalize([i \in DOMAIN v |-> (rem[i + 1] * BASE + v[i]) \div n]),
         r |-> rem[1]]

\* The loop of int_lshift: whole digits, then bits.
int_lshift(v, n) ==
    LET word == n \div SHIFT
        rem  == n % SHIFT
        top  == IF rem = 0 THEN <<>> ELSE <<v_lshift_carry(v, rem)>>
    IN  int_normalize([i \in 1..word |-> 0] \o v_lshift(v, rem) \o top)

\* The loop of int_rshift.
int_rshift(v, n) ==
    LET word == n \div SHIFT
        lo   == n % SHIFT
        hi   == SHIFT - lo
    IN  int_normalize([i \in 1..Len(v) - word |->
            ((v[word + i] \div 2^lo) % 2^hi)
                + (IF i = Len(v) - word THEN 0
                   ELSE (v[word + i + 1] * 2^hi) % BASE)])

-----------------------------------------------------------------------------
(* Conversions *)

\* The digits of an unsigned long.
FromUnsigned(n) ==
    LET digits[m \in 0..n] ==
            IF m = 0 THEN <<>> ELSE <<m % BASE>> \o digits[m \div BASE]
    IN  digits[n]

\* Mutant: only the last step is checked for lost bits.
Accumulated_Once(v) ==
    LET acc[i \in 1..Len(v) + 1] ==
            IF i > Len(v) THEN 0 ELSE (acc[i + 1] * BASE + v[i]) % 2^LONG_BITS
    IN  [overflow |-> v # <<>> /\ acc[1] \div BASE # acc[2], value |-> acc[1]]

\* The loop of COInt_AsSsize_t and COInt_AsLong: an unsigned number of LONG_BITS bits, and
\* whether bits were lost on the way.
Accumulated(v) ==
    LET acc[i \in 1..Len(v) + 1] ==
            IF i > Len(v) THEN 0 ELSE (acc[i + 1] * BASE + v[i]) % 2^LONG_BITS
    IN  [overflow |-> \E i \in DOMAIN v : acc[i] \div BASE # acc[i + 1],
         value |-> acc[1]]

\* Mutant: rounded down.
BinarySize_Down(n, bits) == (n * bits) \div SHIFT

\* How many digits int_from_binary_base allocates for a string of n characters.
BinarySize(n, bits) == (n * bits + SHIFT - 1) \div SHIFT

\* A string of digits in base 2^bits, read from the right.
int_from_binary_base(s, bits) ==
    LET Read(st, c) ==
            LET accum == st.accum + c * 2^st.bits
            IN  IF st.bits + bits >= SHIFT
                THEN [accum |-> accum \div BASE, bits |-> st.bits + bits - SHIFT,
                      v |-> Append(st.v, accum % BASE)]
                ELSE [st EXCEPT !.accum = accum, !.bits = @ + bits]
        read[i \in 0..Len(s)] ==
            IF i = 0 THEN [accum |-> 0, bits |-> 0, v |-> <<>>]
            ELSE Read(read[i - 1], s[Len(s) + 1 - i])
        end == read[Len(s)]
    IN  end.v \o (IF end.bits > 0 THEN <<end.accum>> ELSE <<>>)

\* log_base_BASE[base] times the length of the string, and one
DecimalSize(n, base) ==
    1 + CHOOSE k \in 0..n : Power(base, n) \div Power(BASE, k) \in 1..MASK

\* The number a string of digits stands for.
Evaluated(s, base) ==
    LET value[i \in 0..Len(s)] == IF i = 0 THEN 0 ELSE base * value[i - 1] + s[i]
    IN  value[Len(s)]

convwidth(base) == CHOOSE i \in 1..SHIFT : Power(base, i) <= BASE /\ Power(base, i + 1) > BASE

\* v times mult, plus c
MultiplyAdd(v, mult, c) ==
    LET sum[i \in 0..Len(v)] == IF i = 0 THEN c * BASE ELSE sum[i - 1] \div BASE + v[i] * mult
        top == sum[Len(v)] \div BASE
    IN  [i \in DOMAIN v |-> sum[i] % BASE] \o (IF top = 0 THEN <<>> ELSE <<top>>)

\* A string of digits in another base, convwidth of them at a time.
FromDigits(s, base) ==
    LET width == convwidth(base)
        Group(i) == SubSeq(s, (i - 1) * width + 1, Min({i * width, Len(s)}))
        groups == (Len(s) + width - 1) \div width
        read[i \in 0..groups] ==
            IF i = 0 THEN <<>>
            ELSE MultiplyAdd(read[i - 1], Power(base, Len(Group(i))), Evaluated(Group(i), base))
    IN  read[groups]

\* How many decimal groups int_repr allocates.
ReprSize(v) == 1 + ((Len(v) * SHIFT) \div (3 * DECIMAL_SHIFT))

\* The n decimal digits of x, the most significant first.
Decimals(x, n) == [i \in 1..n |-> (x \div Power(10, n - i)) % 10]

\* The first loop of int_repr: v in base DECIMAL_BASE.
DecimalGroups(v) ==
    LET Push(out, hi) ==
            IF hi >= DECIMAL_BASE
            THEN out \o <<hi % DECIMAL_BASE, hi \div DECIMAL_BASE>>
            ELSE IF hi > 0 THEN Append(out, hi) ELSE out
        Step(out, i) ==
            LET sum[j \in 0..Len(out)] ==
                    IF j = 0 THEN v[i] * DECIMAL_BASE
                    ELSE sum[j - 1] \div DECIMAL_BASE + out[j] * BASE
            IN  Push([j \in DOMAIN out |-> sum[j] % DECIMAL_BASE],
                     sum[Len(out)] \div DECIMAL_BASE)
        groups[i \in 1..Len(v) + 1] ==
            IF i > Len(v) THEN <<>> ELSE Step(groups[i + 1], i)
    IN  IF groups[1] = <<>> THEN <<0>> ELSE groups[1]

\* The rest of int_repr: every group but the first has DECIMAL_SHIFT digits.
DecimalText(groups) ==
    LET Width(i) == IF i < Len(groups) THEN DECIMAL_SHIFT
                    ELSE CHOOSE n \in 1..DECIMAL_SHIFT :
                            Power(10, n) > groups[i] /\ (n = 1 \/ Power(10, n - 1) <= groups[i])
    IN  FlattenSeq(Reverse([i \in DOMAIN groups |-> Decimals(groups[i], Width(i))]))

=============================================================================
