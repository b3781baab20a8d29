------------------------------ MODULE Arithmetic ------------------------------
(***************************************************************************)
(* What the integers of the language promise: exact arithmetic on numbers  *)
(* of any size, and conversions that say so when a number does not fit.    *)
(* There are no digits, carries or words here.  Ints implements this       *)
(* specification (Ints!ImplementsArithmetic).                              *)
(***************************************************************************)
EXTENDS Integers, Sequences

CONSTANTS
    Operands,   \* pairs of numbers to compute with
    Longs       \* the numbers a long can hold

VARIABLES
    op, left, right,    \* what is asked for
    answer              \* what the operation gave, <<"none">> before

vars == <<op, left, right, answer>>

\* add, sub, ... of the two numbers, or of the left one; the numeral of the left one in a
\* base, read; its decimal numeral; its value as a long.
Ops == {"add", "sub", "mul", "div", "mod", "lshift", "rshift", "compare",
        "neg", "invert", "long", "repr", "bin", "oct", "dec", "hex"}

Magnitude(n) == IF n < 0 THEN -n ELSE n

Sign(n) == IF n < 0 THEN -1 ELSE IF n = 0 THEN 0 ELSE 1

\* Division truncates, and the remainder has the sign of the dividend.
Quotient(m, n) == Sign(m) * Sign(n) * (Magnitude(m) \div Magnitude(n))

Remainder(m, n) == m - n * Quotient(m, n)

\* m \div 2^n, where TLC can compute no greater power
Lowered(m, n) ==
    IF n >= 30 /\ Magnitude(m) < 2^30 THEN (IF m < 0 THEN -1 ELSE 0) ELSE m \div 2^n

\* The digits of n >= 0 in base b, the most significant first.
Numeral(n, b) ==
    LET numeral[m \in 0..n] ==
            IF m < b THEN <<m>> ELSE Append(numeral[m \div b], m % b)
    IN  numeral[n]

Shift(n) ==
    IF right \notin Longs THEN <<"OverflowError">>
    ELSE IF right < 0 THEN <<"ValueError">>
    ELSE <<"int", n>>

Divide(n) == IF right = 0 THEN <<"ValueError">> ELSE <<"int", n>>

Exact ==
    CASE op = "add"     -> <<"int", left + right>>
      [] op = "sub"     -> <<"int", left - right>>
      [] op = "mul"     -> <<"int", left * right>>
      [] op = "div"     -> Divide(Quotient(left, right))
      [] op = "mod"     -> Divide(Remainder(left, right))
      [] op = "lshift"  -> Shift(left * 2^right)
      [] op = "rshift"  -> Shift(Lowered(left, right))
      [] op = "compare" -> <<"order", Sign(left - right)>>
      [] op = "neg"     -> <<"int", -left>>
      [] op = "invert"  -> <<"int", -left - 1>>
      [] op = "long"    -> IF left \in Longs THEN <<"long", left>> ELSE <<"OverflowError">>
      [] op = "repr"    -> <<"text", left < 0, Numeral(Magnitude(left), 10)>>
      [] OTHER          -> <<"int", left>>

Init ==
    /\ op = "none"
    /\ left = 0
    /\ right = 0
    /\ answer = <<"none">>

Take ==
    /\ op = "none"
    /\ op' \in Ops
    /\ <<left', right'>> \in Operands
    /\ UNCHANGED answer

Operate ==
    /\ op \in Ops
    /\ answer = <<"none">>
    /\ answer' = Exact
    /\ UNCHANGED <<op, left, right>>

Release ==
    /\ answer # <<"none">>
    /\ op' = "none"
    /\ left' = 0
    /\ right' = 0
    /\ answer' = <<"none">>

Next == Take \/ Operate \/ Release

Spec == Init /\ [][Next]_vars

=============================================================================
