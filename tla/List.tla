-------------------------------- MODULE List --------------------------------
(****************************************************************************)
(* What a list promises (listobject.h): a sequence that can be changed at   *)
(* its ends and in place, and that a loop can walk while it changes.  It    *)
(* is there while the program or a loop holds it.  There are no cells here, *)
(* no spare room and no reference counts.  Lists implements this            *)
(* specification (Lists!ImplementsList).                                    *)
(****************************************************************************)
EXTENDS Integers, Sequences

CONSTANTS
    Element,
    Literal,    \* the sequences a program can write down
    NULL

VARIABLES
    elems,
    held,       \* the program holds the list
    pos,        \* the element a loop is at, 0 if there is no loop
    result      \* <<status, element>> of the last operation

vars == <<elems, held, pos, result>>

Init ==
    /\ elems = <<>>
    /\ held = FALSE
    /\ pos = 0
    /\ result = <<"ok", NULL>>

Make(xs) ==
    /\ ~held /\ pos = 0
    /\ elems' = xs
    /\ held' = TRUE
    /\ result' = <<"ok", NULL>>
    /\ UNCHANGED pos

Extend(x) ==
    /\ held
    /\ elems' = Append(elems, x)
    /\ result' = <<"ok", NULL>>
    /\ UNCHANGED <<held, pos>>

Remove(i) ==
    /\ held
    /\ elems' = SubSeq(elems, 1, i - 1) \o SubSeq(elems, i + 1, Len(elems))
    /\ result' = <<"ok", NULL>>
    /\ UNCHANGED <<held, pos>>

Put(i, x) ==
    /\ held
    /\ elems' = [elems EXCEPT ![i] = x]
    /\ result' = <<"ok", NULL>>
    /\ UNCHANGED <<held, pos>>

Get(i) ==
    /\ held
    /\ result' = <<"ok", elems[i]>>
    /\ UNCHANGED <<elems, held, pos>>

Fail ==
    /\ held
    /\ result' \in {<<"IndexError", NULL>>, <<"fail", NULL>>}
    /\ UNCHANGED <<elems, held, pos>>

Loop == held /\ pos = 0 /\ pos' = 1 /\ UNCHANGED <<elems, held, result>>

\* The next element; the end of a loop.
Each ==
    /\ pos \in DOMAIN elems
    /\ result' = <<"ok", elems[pos]>>
    /\ pos' = pos + 1
    /\ UNCHANGED <<elems, held>>

Done ==
    /\ pos = Len(elems) + 1
    /\ result' = <<"end", NULL>>
    /\ pos' = 0
    /\ elems' = IF held THEN elems ELSE <<>>
    /\ UNCHANGED held

\* The last holder lets go: the list is gone.
Release ==
    /\ held
    /\ held' = FALSE
    /\ elems' = IF pos = 0 THEN <<>> ELSE elems
    /\ UNCHANGED <<pos, result>>

Next ==
    \/ \E xs \in Literal : Make(xs)
    \/ \E x \in Element : Extend(x) \/ \E i \in DOMAIN elems : Put(i, x)
    \/ \E i \in DOMAIN elems : Get(i) \/ Remove(i)
    \/ Fail \/ Loop \/ Each \/ Done \/ Release

Spec == Init /\ [][Next]_vars

=============================================================================
