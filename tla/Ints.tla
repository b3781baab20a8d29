-------------------------------- MODULE Ints --------------------------------
(***************************************************************************)
(* The integer objects of the language (intobject.c): two operands and one *)
(* operation of the instructions of the VM, of COInt_FromString for a      *)
(* literal and of the conversions to a C long.  Division by an integer of  *)
(* several digits goes step by step, a step for each turn of the loops of  *)
(* x_divrem; everything else is one step.                                  *)
(*   pc = "idle"     no operands                                           *)
(*        "ready"    operands, no operation yet                            *)
(*        "estimate", "correct", "subtract", "unshift"   in x_divrem       *)
(*        "done"     the operation has returned                            *)
(*        "abort"    an assert has failed, or a buffer was too small       *)
(* The table of preallocated small integers, which only says which object  *)
(* stands for a number, is left out.                                       *)
(***************************************************************************)
EXTENDS Digits

CONSTANTS
    Operands,   \* pairs of numbers, each within a few digits
    MaxDigits   \* bound on the digits of a product or a left shift

\* What an instance must satisfy.
ASSUME IntsAssumption == Operands \subseteq Int \X Int

VARIABLES
    op,             \* the operation
    left, right,    \* integer objects
    pc,
    result,
    v, w, d,        \* x_divrem: the shifted operands, and by how much
    quot,           \* the digits of the quotient so far
    q, r            \* the digit being estimated

dividing == <<v, w, d, quot, q, r>>
vars == <<op, left, right, pc, result, dividing>>

\* An integer object: co_size is the length of v, negative if neg.
Make(neg, digits) == [neg |-> neg /\ digits # <<>>, v |-> digits]

Zero == Make(FALSE, <<>>)

COInt_FromLong(x) == Make(x < 0, FromUnsigned(IF x < 0 THEN -x ELSE x))

\* At most one digit, and the number it is (ONEDIGIT_VALUE).
Short(a) == Len(a.v) <= 1

ONEDIGIT_VALUE(a) == IF a.neg THEN -At(a.v, 1) ELSE At(a.v, 1)

int_add(a, b) ==
    IF Short(a) /\ Short(b) THEN COInt_FromLong(ONEDIGIT_VALUE(a) + ONEDIGIT_VALUE(b))
    ELSE IF a.neg = b.neg THEN Make(a.neg, x_add(a.v, b.v))
    ELSE LET diff == IF a.neg THEN x_sub(b.v, a.v) ELSE x_sub(a.v, b.v)
         IN  Make(diff.neg, diff.v)

int_sub(a, b) ==
    IF Short(a) /\ Short(b) THEN COInt_FromLong(ONEDIGIT_VALUE(a) - ONEDIGIT_VALUE(b))
    ELSE IF a.neg # b.neg THEN Make(a.neg, x_add(a.v, b.v))
    ELSE LET diff == x_sub(a.v, b.v) IN Make(diff.neg # a.neg, diff.v)

int_mul(a, b, same) == Make(a.neg # b.neg, x_mul(a.v, b.v, same))

int_neg(a) ==
    IF Short(a) THEN COInt_FromLong(-ONEDIGIT_VALUE(a)) ELSE Make(~a.neg, a.v)

\* -(a + 1)
int_invert(a) ==
    IF Short(a) THEN COInt_FromLong(-(ONEDIGIT_VALUE(a) + 1))
    ELSE LET x == int_add(a, COInt_FromLong(1)) IN Make(~x.neg, x.v)

int_cmp(a, b) ==
    LET diff == {i \in DOMAIN a.v : a.v[i] # b.v[i]}
        larger == IF a.neg THEN -1 ELSE 1
    IN  IF a.neg # b.neg \/ Len(a.v) # Len(b.v)
        THEN LET size(x) == IF x.neg THEN -Len(x.v) ELSE Len(x.v)
             IN  IF size(a) < size(b) THEN -1 ELSE 1
        ELSE IF diff = {} THEN 0
        ELSE IF a.v[Max(diff)] > b.v[Max(diff)] THEN larger ELSE -larger

\* -1 stands for an overflow, too: `fits` tells them apart.
COInt_AsSsize_t(a) ==
    LET acc == Accumulated(a.v)
    IN  CASE Short(a) -> [fits |-> TRUE, value |-> ONEDIGIT_VALUE(a)]
          [] ~Short(a) /\ ~acc.overflow /\ acc.value <= LONG_MAX ->
                [fits |-> TRUE, value |-> IF a.neg THEN -acc.value ELSE acc.value]
          [] ~Short(a) /\ ~acc.overflow /\ a.neg /\ acc.value = -LONG_MIN ->
                [fits |-> TRUE, value |-> LONG_MIN]
          [] OTHER -> [fits |-> FALSE, value |-> -1]

\* The same loop and the same limits, for a long.
COInt_AsLong(a) == COInt_AsSsize_t(a)

\* The number an object stands for.
Number(x) ==
    LET sum[i \in 0..Len(x.v)] ==
            IF i = 0 THEN 0 ELSE sum[i - 1] + x.v[i] * 2^(SHIFT * (i - 1))
    IN  IF x.neg THEN -sum[Len(x.v)] ELSE sum[Len(x.v)]

Exact == INSTANCE Arithmetic WITH
    Longs <- LONG_MIN..LONG_MAX, left <- Number(left), right <- Number(right),
    answer <- IF result[1] = "int" THEN <<"int", Number(result[2])>> ELSE result

Init ==
    /\ op = "none"
    /\ left = Zero
    /\ right = Zero
    /\ pc = "idle"
    /\ result = <<"none">>
    /\ v = <<>> /\ w = <<>> /\ d = 0
    /\ quot = <<>> /\ q = 0 /\ r = 0

\* The operations whose result, bounded by MaxDigits, TLC can compute, and the numerals
\* there are.
Possible(o, a, b) ==
    /\ o = "mul" => Len(a.v) + Len(b.v) <= MaxDigits
    /\ o = "lshift" /\ COInt_AsSsize_t(b).fits =>
            Len(a.v) + (COInt_AsSsize_t(b).value \div SHIFT) + 1 <= MaxDigits
    /\ o \in {"bin", "oct", "dec", "hex"} => ~a.neg

Take ==
    /\ pc = "idle"
    /\ op' \in Exact!Ops
    /\ \E p \in Operands :
        /\ left' = COInt_FromLong(p[1])
        /\ right' = COInt_FromLong(p[2])
        /\ Possible(op', left', right')
    /\ pc' = "ready"
    /\ UNCHANGED <<result, dividing>>

\* The operation returns x, unless an assert fails on the way.
Return(x, asserts) ==
    /\ pc' = IF asserts THEN "done" ELSE "abort"
    /\ result' = x
    /\ UNCHANGED <<op, left, right>>

Checked(o, x, asserts) ==
    /\ pc = "ready"
    /\ op = o
    /\ Return(x, asserts)
    /\ UNCHANGED dividing

Operation(o, x) == Checked(o, x, TRUE)

\* x_divrem goes on at next, unless an assert fails.
Continue(next, asserts) ==
    /\ pc' = IF asserts THEN next ELSE "abort"
    /\ UNCHANGED <<op, left, right, result>>

Add     == Operation("add", <<"int", int_add(left, right)>>)
Sub     == Operation("sub", <<"int", int_sub(left, right)>>)
Neg     == Operation("neg", <<"int", int_neg(left)>>)
Invert  == Operation("invert", <<"int", int_invert(left)>>)
Compare == Operation("compare", <<"order", int_cmp(left, right)>>)

\* The operands may be one object.
Mul ==
    \/ Operation("mul", <<"int", int_mul(left, right, FALSE)>>)
    \/ left = right /\ Operation("mul", <<"int", int_mul(left, right, TRUE)>>)

Lshift ==
    /\ op = "lshift"
    /\ \E n \in {COInt_AsSsize_t(right)} :
        \/ ~n.fits /\ Operation("lshift", <<"OverflowError">>)
        \/ n.fits /\ n.value < 0 /\ Operation("lshift", <<"ValueError">>)
        \/ /\ n.fits /\ n.value >= 0
           /\ Operation("lshift", <<"int", Make(left.neg, int_lshift(left.v, n.value))>>)

\* Of a negative number, the complement is shifted.
Rshift ==
    /\ op = "rshift"
    /\ \E n \in {COInt_AsSsize_t(right)} :
        \/ ~n.fits /\ Operation("rshift", <<"OverflowError">>)
        \/ n.fits /\ n.value < 0 /\ Operation("rshift", <<"ValueError">>)
        \/ n.fits /\ n.value >= 0 /\ ~left.neg
             /\ Operation("rshift", <<"int", Make(FALSE, int_rshift(left.v, n.value))>>)
        \/ n.fits /\ n.value >= 0 /\ left.neg
             /\ Operation("rshift", <<"int", int_invert(
                    Make(FALSE, int_rshift(int_invert(left).v, n.value)))>>)

Long ==
    \E x \in {COInt_AsLong(left)} :
        Operation("long", IF x.fits THEN <<"long", x.value>> ELSE <<"OverflowError">>)

\* int_repr: the groups fit in the digits allocated for them.
Repr ==
    LET groups == DecimalGroups(left.v)
    IN  Checked("repr", <<"text", left.neg, DecimalText(groups)>>,
                Len(groups) <= ReprSize(left.v))

\* COInt_FromString of a literal of the scanner: its digits in the base its prefix names,
\* leading zeros among them.  They fit in the digits allocated.
BinaryLiteral ==
    \E zeros \in 0..SHIFT, lit \in {<<"bin", 1>>, <<"oct", 3>>, <<"hex", 4>>} :
        LET s == [i \in 1..zeros |-> 0] \o Exact!Numeral(Number(left), 2^lit[2])
            digits == int_from_binary_base(s, lit[2])
        IN  Checked(lit[1], <<"int", Make(FALSE, int_normalize(digits))>>,
                    Len(digits) <= BinarySize(Len(s), lit[2]))

\* The same for a decimal literal.
DecimalLiteral ==
    LET s == Exact!Numeral(Number(left), 10)
        digits == FromDigits(s, 10)
    IN  Checked("dec", <<"int", Make(FALSE, int_normalize(digits))>>,
                Len(digits) <= DecimalSize(Len(s), 10))

-----------------------------------------------------------------------------
(* Division *)

Top(a) == At(a.v, Len(a.v))

\* |left| < |right| for certain: the quotient is 0 and left the remainder.
Smaller ==
    \/ Len(left.v) < Len(right.v)
    \/ Len(left.v) = Len(right.v) /\ Top(left) < Top(right)

\* int_divrem computes both; the instruction wants one of them.
DivRem(quotient, remainder) ==
    \/ Operation("div", quotient)
    \/ Operation("mod", remainder)

DivideByZero == right = Zero /\ DivRem(<<"ValueError">>, <<"ValueError">>)

DivideSmaller ==
    /\ right # Zero
    /\ Smaller
    /\ DivRem(<<"int", COInt_FromLong(0)>>, <<"int", left>>)

DivideByDigit ==
    /\ ~Smaller
    /\ Len(right.v) = 1
    /\ LET res == divrem1(left.v, right.v[1])
           rem == COInt_FromLong(res.r)
       IN  DivRem(<<"int", Make(left.neg # right.neg, res.q)>>,
                  <<"int", Make(left.neg, rem.v)>>)

\* x_divrem: both operands are shifted until the top bit of the divisor is set.
StartDivision ==
    /\ pc = "ready"
    /\ op \in {"div", "mod"}
    /\ ~Smaller
    /\ Len(right.v) >= 2
    /\ d' = SHIFT - bits_in_digit(Top(right))
    /\ w' = v_lshift(right.v, d')
    /\ LET a == v_lshift(left.v, d')
           carry == v_lshift_carry(left.v, d')
       IN  v' = IF carry # 0 \/ a[Len(a)] >= w'[Len(w')] THEN Append(a, carry) ELSE a
    /\ Continue("estimate", v_lshift_carry(right.v, d') = 0)
    /\ UNCHANGED <<quot, q, r>>

\* The digit of the quotient to be found next: v[at..at + size_w] is divided by w.
size_w == Len(w)
at == Len(v) - size_w - Len(quot)

Estimate ==
    /\ pc = "estimate"
    /\ at > 0
    /\ LET vv == v[at + size_w] * BASE + v[at + size_w - 1]
       IN  q' = uint32(vv \div w[size_w]) /\ r' = vv % w[size_w]
    /\ Continue("correct", v[at + size_w] <= w[size_w])
    /\ UNCHANGED <<v, w, d, quot>>

\* Mutant: the digit is corrected when it fits exactly.
TooLarge_OrEqual == w[size_w - 1] * q >= r * BASE + v[at + size_w - 2]

TooLarge == w[size_w - 1] * q > r * BASE + v[at + size_w - 2]

\* A turn of the while loop.
Correct ==
    /\ pc = "correct"
    /\ TooLarge
    /\ q' = q - 1
    /\ r' = r + w[size_w]
    /\ pc' = IF r' >= BASE THEN "subtract" ELSE "correct"
    /\ UNCHANGED <<op, left, right, result, v, w, d, quot>>

Accept ==
    /\ pc = "correct"
    /\ ~TooLarge
    /\ Continue("subtract", q <= BASE)
    /\ UNCHANGED dividing

\* v[at..at + size_w - 1] less q times w, and the borrow from v[at + size_w]
Difference ==
    LET z[i \in 1..size_w] ==
            v[at + i - 1] - q * w[i] + (IF i = 1 THEN 0 ELSE z[i - 1] \div BASE)
    IN  [v |-> [i \in 1..size_w |-> z[i] % BASE], borrow |-> z[size_w] \div BASE]

\* The digits of a + w, a carry out of the top dropped.
PlusDivisor(a) ==
    LET sum[i \in 1..size_w] == a[i] + w[i] + (IF i = 1 THEN 0 ELSE sum[i - 1] \div BASE)
    IN  [i \in 1..size_w |-> sum[i] % BASE]

Replaced(a) == [i \in DOMAIN v |-> IF i \in at..at + size_w - 1 THEN a[i - at + 1] ELSE v[i]]

\* Mutant: the divisor is never added back.
Subtract_NotBack ==
    /\ pc = "subtract"
    /\ LET diff == Difference
       IN  /\ v' = Replaced(diff.v)
           /\ quot' = <<q>> \o quot
           /\ Continue("estimate", v[at + size_w] + diff.borrow \in {-1, 0} /\ q < BASE)
    /\ UNCHANGED <<w, d, q, r>>

\* The divisor is added back when the digit was still too large.
Subtract ==
    /\ pc = "subtract"
    /\ LET diff == Difference
           rest == v[at + size_w] + diff.borrow
           digit == IF rest < 0 THEN q - 1 ELSE q
       IN  /\ v' = Replaced(IF rest < 0 THEN PlusDivisor(diff.v) ELSE diff.v)
           /\ quot' = <<digit>> \o quot
           /\ Continue("estimate", rest \in {-1, 0} /\ digit < BASE)
    /\ UNCHANGED <<w, d, q, r>>

\* The rest of x_divrem and of int_divrem.
EndDivision ==
    /\ pc = "estimate"
    /\ at = 0
    /\ LET rem == SubSeq(v, 1, size_w)
       IN  Return(<<"int", IF op = "div" THEN Make(left.neg # right.neg, int_normalize(quot))
                           ELSE Make(left.neg, int_normalize(v_rshift(rem, d)))>>,
                  rem[1] % 2^d = 0)
    /\ v' = <<>> /\ w' = <<>> /\ d' = 0
    /\ quot' = <<>> /\ q' = 0 /\ r' = 0

Release ==
    /\ pc = "done"
    /\ op' = "none"
    /\ left' = Zero
    /\ right' = Zero
    /\ pc' = "idle"
    /\ result' = <<"none">>
    /\ UNCHANGED dividing

Next ==
    \/ Take \/ Release
    \/ Add \/ Sub \/ Mul \/ Neg \/ Invert \/ Compare \/ Lshift \/ Rshift
    \/ Long \/ Repr \/ BinaryLiteral \/ DecimalLiteral
    \/ DivideByZero \/ DivideSmaller \/ DivideByDigit
    \/ StartDivision \/ Estimate \/ Correct \/ Accept \/ Subtract \/ EndDivision

Spec == Init /\ [][Next]_vars

-----------------------------------------------------------------------------
(* Properties *)

Vector(digits) == digits \in Seq(0..MASK) /\ (digits # <<>> => digits[Len(digits)] # 0)

TypeOK ==
    /\ op \in Exact!Ops \cup {"none"}
    /\ pc \in {"idle", "ready", "estimate", "correct", "subtract", "done", "abort"}
    /\ v \in Seq(0..MASK)
    /\ w \in Seq(0..MASK)
    /\ quot \in Seq(0..MASK)
    /\ d \in 0..SHIFT - 1
    /\ q \in 0..BASE + 1
    /\ r \in Nat

\* Every number has one representation: no operation leaves a leading zero or a negative
\* zero behind (int_normalize; int_cmp, int_hash and the sizes in int_divrem rely on it).
Normalized ==
    \A x \in {left, right} \cup (IF result[1] = "int" THEN {result[2]} ELSE {}) :
        Vector(x.v) /\ (x.neg => x.v # <<>>)

\* No assert of intobject.c fails, and no digit is written past what was allocated.
AssertsHold == pc # "abort"

\* The estimate of a quotient digit is never too small, and at most two too large before it
\* is corrected, one after (x_divrem).
EstimateClose ==
    pc \in {"correct", "subtract"} =>
        LET digit == Number(Make(FALSE, SubSeq(v, at, at + size_w))) \div Number(Make(FALSE, w))
        IN  q \in digit..digit + (IF pc = "correct" THEN 2 ELSE 1)

\* The integers of the language are the integers: whatever the carries between digits do,
\* every operation gives the exact result, or the error that a number too large for a long,
\* a negative shift or a zero divisor calls for.
ImplementsArithmetic == Exact!Spec

=============================================================================
