------------------------------- MODULE Ranges -------------------------------
(****************************************************************************)
(* range() and its iterator (rangeobject.c, rangeiterobject.c), in longs of *)
(* BITS bits and, where the code casts, in unsigned ones.                   *)
(*   pc = "new"       before the call of range                              *)
(*        "range"     the object is made                                    *)
(*        "iter"      there is an iterator, which supplies items            *)
(*        "end"       it has none left                                      *)
(*        "overflow"  OverflowError: there is none                          *)
(*        "error"     range has failed                                      *)
(*        "trap"      the processor has stopped the program                 *)
(****************************************************************************)
EXTENDS Integers, Sequences, FiniteSets

CONSTANTS
    BITS,       \* bits of a long
    Given       \* the numbers a program passes to range, not all of them longs

\* What an instance must satisfy.
RangesAssumption == BITS \in Nat \ {0} /\ Given \subseteq Int

LONG_MAX == 2^(BITS - 1) - 1
LONG_MIN == -2^(BITS - 1)

VARIABLES
    args,       \* the arguments, from 1 to 3
    pc,
    alive,      \* the range object is there
    refs,       \* references to start, stop and step that range_new counted
    it,         \* the iterator: start, step, len, index
    items,      \* what it has supplied
    error       \* an exception is set

vars == <<args, pc, alive, refs, it, items, error>>

ulong(x) == x % 2^BITS

\* Conversion to a long, which is also what an overflowing sum becomes.
long(x) == IF ulong(x) > LONG_MAX THEN ulong(x) - 2^BITS ELSE ulong(x)

Fits(x) == x \in LONG_MIN..LONG_MAX

\* COInt_AsLong: -1 and an exception, which no caller here looks for.
AsLong(x) == IF Fits(x) THEN x ELSE -1

\* start, stop and step as the code reads them; range_new supplies what is missing.
Bounds ==
    LET given == IF Len(args) = 1 THEN <<0, args[1], 1>>
                 ELSE IF Len(args) = 2 THEN <<args[1], args[2], 1>> ELSE args
    IN  [start |-> AsLong(given[1]), stop |-> AsLong(given[2]), step |-> AsLong(given[3])]

Init ==
    /\ args = <<>>
    /\ pc = "new"
    /\ alive = FALSE
    /\ refs = 0
    /\ it = [start |-> 0, step |-> 0, len |-> 0, index |-> 0]
    /\ items = <<>>
    /\ error = FALSE

\* The division of compute_range_length stops the program: the step is 0, or the quotient
\* of LONG_MIN and -1 is none.
Traps(b) == b.step = 0 \/ (b.step = -1 /\ long(b.stop - b.start) = LONG_MIN)

\* range_new and make_range_object.  With two arguments COObject_ParseArgs reads the step
\* past the end of the tuple: NULL, and the step is 1, or an address of nothing.  The objects
\* range_new makes itself are counted, those of the caller are not.  Without arguments it
\* fails and COObject_Call sets the exception.
New ==
    /\ pc = "new"
    /\ args' \in UNION {[1..k -> Given] : k \in 1..3}
    /\ pc' \in {IF Traps(Bounds') THEN "trap" ELSE "range"}
                \cup (IF Len(args') = 2 THEN {"trap"} ELSE {})
    /\ alive' = (pc' = "range")
    /\ refs' = IF ~alive' THEN 0 ELSE CASE Len(args') = 1 -> 2 [] Len(args') = 2 -> 1 [] OTHER -> 0
    /\ error' = \E i \in DOMAIN args' : ~Fits(args'[i])
    /\ UNCHANGED <<it, items>>

\* A wrong number of arguments.
Fail ==
    /\ pc = "new"
    /\ pc' = "error"
    /\ error' = TRUE
    /\ UNCHANGED <<args, alive, refs, it, items>>

\* Mutant: the last item is forgotten when the step does not divide the distance.
get_len_of_range_Down(lo, hi, step) ==
    IF step > 0 /\ lo < hi THEN ulong(hi - lo) \div step
    ELSE IF step < 0 /\ lo > hi THEN ulong(lo - hi) \div ulong(-step)
    ELSE 0

\* unsigned throughout
get_len_of_range(lo, hi, step) ==
    IF step > 0 /\ lo < hi THEN ulong(1 + (ulong(hi - 1 - lo) \div step))
    ELSE IF step < 0 /\ lo > hi THEN ulong(1 + (ulong(lo - 1 - hi) \div ulong(-step)))
    ELSE 0

\* fast_range_iter
Iterate ==
    /\ pc \in {"range", "iter", "end", "overflow"}
    /\ alive
    /\ LET b == Bounds
           len == get_len_of_range(b.start, b.stop, b.step)
       IN  IF len > LONG_MAX
           THEN pc' = "overflow" /\ error' = TRUE /\ UNCHANGED it
           ELSE /\ pc' = "iter"
                /\ it' = [start |-> b.start, step |-> b.step, len |-> len, index |-> 0]
                /\ UNCHANGED error
    /\ items' = <<>>
    /\ UNCHANGED <<args, alive, refs>>

\* rangeiter_next
Item ==
    /\ pc = "iter"
    /\ IF it.index < it.len
       THEN /\ items' = Append(items, long(it.start + ulong(it.index) * it.step))
            /\ it' = [it EXCEPT !.index = @ + 1]
            /\ UNCHANGED pc
       ELSE pc' = "end" /\ UNCHANGED <<items, it>>
    /\ UNCHANGED <<args, alive, refs, error>>

\* range_dealloc: the iterator needs no range.
Dealloc ==
    /\ alive
    /\ alive' = FALSE
    /\ refs' = refs - 3
    /\ UNCHANGED <<args, pc, it, items, error>>

Next == New \/ Fail \/ Iterate \/ Item \/ Dealloc

Spec == Init /\ [][Next]_vars

-----------------------------------------------------------------------------
(* Properties *)

\* The numbers from start in steps of step that come before stop, in exact arithmetic.
Progression ==
    LET b == Bounds
    IN  {x \in LONG_MIN..LONG_MAX :
            \/ b.step > 0 /\ b.start <= x /\ x < b.stop /\ (x - b.start) % b.step = 0
            \/ b.step < 0 /\ b.stop < x /\ x <= b.start /\ (b.start - x) % (-b.step) = 0}

\* A loop over a range sees every number of the progression, once and in order, and no
\* other, though lengths and products wrap around (get_len_of_range, rangeiter_next); or
\* there is an OverflowError, and then there are more numbers than a long can count.
RangeExact ==
    /\ \A i \in DOMAIN items : items[i] \in Progression
    /\ \A i \in 2..Len(items) : items[i] = items[i - 1] + Bounds.step
    /\ items # <<>> => items[1] = Bounds.start
    /\ pc = "end" =>
         \A x \in Progression : \E i \in DOMAIN items : items[i] = x
    /\ pc = "overflow" => error /\ Cardinality(Progression) > LONG_MAX

\* A range holds one counted reference to each of start, stop and step while it is there,
\* and gives up exactly those when it goes (range_new, range_dealloc).
RefsCounted == refs = IF alive THEN 3 ELSE 0

=============================================================================
