------------------------------ MODULE MCObjects ------------------------------
(* Instances of Components for TLC. *)
EXTENDS Components

\* Numbers of k digits from a set, the top one not 0.
Numbers(k, digit) ==
    {Number(Make(FALSE, x)) : x \in {y \in [1..k -> digit] : y[k] # 0}}

Signed(S) == S \cup {-x : x \in S}

\* The digits at the edges: the smallest and largest, and the one with the top bit alone.
Edge == {0, 1, BASE \div 2, MASK}

\* Few digits, with signs and the limits of a long.
Plain == Signed({0} \cup Numbers(1, Edge) \cup Numbers(2, {0, 1, MASK}))
            \cup {LONG_MAX, LONG_MAX + 1, LONG_MIN, LONG_MIN - 1, -(BASE^3)}

\* Long divisions.
Dividends == Numbers(3, Edge) \cup Numbers(4, Edge \ {1})
Divisors  == Numbers(2, Edge) \cup Numbers(3, Edge \ {1}) \cup {1 + BASE^2}

\* Shift counts.
Counts == {0, 1, SHIFT - 1, SHIFT, SHIFT + 1, 2 * SHIFT + 3}

Pairs == (Plain \X (Plain \cup Counts)) \cup (Dividends \X Divisors)

\* What programs pass to range: some of the numbers are no longs of four bits.
RangeNumbers == -9..8 \ {-6, -5, -4, 3, 4, 5}

-----------------------------------------------------------------------------
(* Objects to write *)

Obj(kind, val, kids) == [kind |-> kind, val |-> val, kids |-> kids]

SeqsUpTo(S, n) == UNION {[1..k -> S] : k \in 0..n}

\* A list of up to three elements, with any sharing among a container, a tuple and a string.
Containers ==
    {Obj(kind, 0, kids) : kind \in {"list", "tuple"}, kids \in SeqsUpTo({3, 4}, 2)}
        \cup {Obj("dict", 0, kids) : kids \in {<<>>, <<4, 3>>, <<4, 4>>}}

Small ==
    {<<Obj("list", 0, top), c, Obj("tuple", 0, kids), Obj("str", <<"a", "b">>, <<>>)>> :
        top \in SeqsUpTo({0, 2, 3, 4}, 3), c \in Containers, kids \in SeqsUpTo({4}, 2)}

\* Lists of ten different objects or more: the dicts grow.
Atoms == <<Obj("none", 0, <<>>), Obj("true", 0, <<>>), Obj("false", 0, <<>>)>>
            \o [i \in 1..7 |-> Obj(IF i % 2 = 0 THEN "int" ELSE "bytes",
                                   IF i % 2 = 0 THEN i ELSE [j \in 1..i |-> "x"], <<>>)]

Growing ==
    {<<Obj("list", 0, top)>> \o Atoms :
        top \in {[i \in 1..20 |-> 2 + ((i - 1) \div 2)], [i \in 1..14 |-> 2 + (i % 10)]}}

\* A code object with a name of n bytes, another as a constant or not, and next to it the
\* last variable of its upvals, an integer, a dict of dicts.
Codes ==
    {<<Obj("list", 0, <<2, next, 3>>), Obj("code", 0, <<7, 8, 4, 9, 10, 6>>),
       Obj("dict", 0, <<11, 13>>), Obj("tuple", 0, consts), Obj("code", 0, <<7, 8, 10, 9, 10, 10>>),
       Obj("tuple", 0, <<11>>), Obj("str", [j \in 1..n |-> "f"], <<>>), Obj("bytes", <<"1">>, <<>>),
       Obj("tuple", 0, <<>>), Obj("tuple", 0, <<>>), Obj("str", <<"u">>, <<>>),
       Obj("int", 1, <<>>), Obj("dict", 0, <<>>)>> :
        n \in 0..7, next \in {11, 12}, consts \in {<<>>, <<5>>, <<12, 5, 12>>}}

\* What is not written as it is, once or twice.
Odd == {<<Obj("list", 0, <<2, last>>), x, Obj("none", 0, <<>>)>> :
            last \in {2, 3}, x \in {Obj("int", BIG, <<>>), Obj("float", 0, <<>>)}}

Written == Small \cup Growing \cup Codes \cup Odd

ASSUME RangesInstance == R!RangesAssumption
ASSUME MarshalInstance == M!MarshalAssumption
ASSUME ArenaInstance == A!ArenaAssumption
ASSUME AssemblerInstance == C!AssemblerAssumption

=============================================================================
