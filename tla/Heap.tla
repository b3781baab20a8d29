-------------------------------- MODULE Heap --------------------------------
(****************************************************************************)
(* The reference graph of a running program.  A slot is a place that holds  *)
(* a reference: field f of container o is <<o, f>> (an element of a list or *)
(* tuple, a value of a dict), and <<STACK, f>> is a reference the program   *)
(* holds directly (evaluation stack, locals, globals).  NULL in a slot      *)
(* stands for "no container": a free slot, or an atom (number, string...)   *)
(* that can take no part in a cycle.                                        *)
(****************************************************************************)
EXTENDS Integers, FiniteSets

CONSTANTS
    Obj,      \* blocks of memory a container can live in
    Field,    \* the slots of one container, and of STACK
    NULL,     \* no container
    STACK     \* the owner of the references the program holds

ASSUME HeapAssumption ==
    /\ IsFiniteSet(Obj)
    /\ IsFiniteSet(Field)
    /\ NULL \notin Obj
    /\ STACK \notin Obj

Slot == (Obj \cup {STACK}) \X Field

\* What a slot may hold.
Ref == Obj \cup {NULL}

\* Every reference found on STACK or in a member of S leads into S.
Closed(h, S) ==
    \A x \in ({STACK} \cup S) \X Field : h[x] \in S \cup {NULL}

\* The containers the program can still get at in heap h.
Live(h) ==
    LET closed == {S \in SUBSET Obj : Closed(h, S)}
    IN  {o \in Obj : \A S \in closed : o \in S}

\* The part of heap h the program can see.
Visible(h) ==
    LET seen == {STACK} \cup Live(h)
    IN  [x \in Slot |-> IF x[1] \in seen THEN h[x] ELSE NULL]

=============================================================================
