--------------------------------- MODULE GC ---------------------------------
(***************************************************************************)
(* Memory management of container objects: reference counting (object.h)   *)
(* and the generational collector of reference cycles (gc.c, gc.h), driven *)
(* by the container operations of the virtual machine (vm.c, listobject.c, *)
(* dictobject.c, tupleobject.c).                                           *)
(*                                                                         *)
(* The interpreter is one thread; pc says which routine it is in:          *)
(*   "run"       the program executes an instruction                       *)
(*   "init"      COObject_GC_Malloc is about to return a fresh block       *)
(*   "update", "subtract", "move", "delete", "clear", "relink"             *)
(*               the phases of collect()                                   *)
(*   "abort"     an assert of gc.c failed                                  *)
(*   "wild"      a node that is in no list was unlinked (undefined)        *)
(* A CO_DECREF that reaches 0 calls tp_dealloc at once, recursively.  Here *)
(* the object is in Dying until Dealloc has dropped its references one by  *)
(* one and freed it; nothing but Dealloc steps happens meanwhile.  Their   *)
(* order is left open, which includes the depth-first order of the code.   *)
(***************************************************************************)
EXTENDS Heap

CONSTANTS
    Kinds,        \* the container types in use: "list", "tuple", "dict"
    Subscripted,  \* the ones the program reads with the subscript operator
    Threshold     \* generations[i].threshold

ASSUME KindsAssumption ==
    /\ Kinds \subseteq {"list", "tuple", "dict"}
    /\ Subscripted \subseteq Kinds \ {"tuple"}   \* tuples have no tp_mapping_interface
    /\ NULL \notin {"list", "tuple", "dict"}
    /\ NULL \notin Obj \X Kinds \X Field

ASSUME ThresholdAssumption == Threshold \in [0..2 -> Nat]

VARIABLES
    ptr,        \* [Slot -> Ref], the references
    refcnt,     \* [Obj -> Nat], co_refcnt; 0 in a free block
    kind,       \* the type of the container in a block; NULL: the block is free
    gc_refs,    \* the collector's scratch word, also the tracking state
    list,       \* the gc list a block's node is linked into
    count,      \* generations[i].count
    pc,
    gen,        \* the generation being collected
    todo,       \* move_unreachable: the nodes of young at or right of the cursor
    cur,        \* delete_garbage: the object being cleared
    garbage,    \* what move_unreachable found (collect() keeps only their number)
    new         \* the allocation in progress, NULL if none

heap      == <<ptr, refcnt, kind>>
collector == <<gen, todo, cur, garbage>>
vars      == <<ptr, refcnt, kind, gc_refs, list, count, pc, gen, todo, cur, garbage, new>>

\* Values of gc_refs.
UNTRACKED               == -1
REACHABLE               == -2
TENTATIVELY_UNREACHABLE == -3
LOWEST                  == -4   \* stands for all lower values, which behave alike

\* Values of list: a generation, collect()'s local list, or no list.
GENERATIONS == 0..2
UNREACHABLE == 3
UNLINKED    == -1

PCs == {"run", "init", "update", "subtract", "move", "delete", "clear", "relink",
        "abort", "wild"}

Alive == {o \in Obj : kind[o] # NULL}
Dying == {o \in Alive : refcnt[o] = 0}

Young       == {o \in Obj : list[o] = gen}
Unreachable == {o \in Obj : list[o] = UNREACHABLE}
Old         == IF gen < 2 THEN gen + 1 ELSE gen

\* What tp_traverse of o visits.
Referents(o) == {ptr[<<o, f>>] : f \in Field} \ {NULL}

Init ==
    /\ ptr = [x \in Slot |-> NULL]
    /\ refcnt = [o \in Obj |-> 0]
    /\ kind = [o \in Obj |-> NULL]
    /\ gc_refs = [o \in Obj |-> UNTRACKED]
    /\ list = [o \in Obj |-> UNLINKED]
    /\ count = [i \in GENERATIONS |-> 0]
    /\ pc = "run"
    /\ gen = 0
    /\ todo = {}
    /\ cur = NULL
    /\ garbage = {}
    /\ new = NULL

-----------------------------------------------------------------------------
(* Reference counts *)

\* refcnt after a reference to a becomes a reference to b: CO_XINCREF(b), CO_XDECREF(a).
Recount(a, b) ==
    [o \in Obj |-> refcnt[o] + (IF o = b THEN 1 ELSE 0) - (IF o = a THEN 1 ELSE 0)]

\* Slot x now holds r, and the counts follow.
Redirect(x, r) ==
    /\ ptr' = [ptr EXCEPT ![x] = r]
    /\ refcnt' = Recount(ptr[x], r)

\* Mutant: the guard of the counter is forgotten.
GC_Free_Unguarded(o) ==
    /\ kind' = [kind EXCEPT ![o] = NULL]
    /\ gc_refs' = [gc_refs EXCEPT ![o] = UNTRACKED]
    /\ list' = [list EXCEPT ![o] = UNLINKED]
    /\ count' = [count EXCEPT ![0] = @ - 1]
    /\ pc' = IF gc_refs[o] # UNTRACKED /\ list[o] = UNLINKED THEN "wild" ELSE pc

\* Mutant: the tp_dealloc of tuples forgets COObject_GC_Del.
GC_Free_NotTuples(o) ==
    /\ kind' = [kind EXCEPT ![o] = IF @ = "tuple" THEN @ ELSE NULL]
    /\ gc_refs' = [gc_refs EXCEPT ![o] = UNTRACKED]
    /\ list' = [list EXCEPT ![o] = UNLINKED]
    /\ count' = [count EXCEPT ![0] = IF @ > 0 THEN @ - 1 ELSE 0]
    /\ pc' = IF gc_refs[o] # UNTRACKED /\ list[o] = UNLINKED THEN "wild" ELSE pc

\* COObject_GC_Free, the last thing a tp_dealloc does.
GC_Free(o) ==
    /\ kind' = [kind EXCEPT ![o] = NULL]
    /\ gc_refs' = [gc_refs EXCEPT ![o] = UNTRACKED]
    /\ list' = [list EXCEPT ![o] = UNLINKED]
    /\ count' = [count EXCEPT ![0] = IF @ > 0 THEN @ - 1 ELSE 0]
    /\ pc' = IF gc_refs[o] # UNTRACKED /\ list[o] = UNLINKED THEN "wild" ELSE pc

\* One step of a tp_dealloc: drop a reference, or free the block.
Dealloc(o) ==
    /\ pc \notin {"abort", "wild"}
    /\ o \in Dying
    /\ IF Referents(o) # {}
       THEN /\ \E f \in Field : ptr[<<o, f>>] # NULL /\ Redirect(<<o, f>>, NULL)
            /\ UNCHANGED <<kind, gc_refs, list, count, pc>>
       ELSE GC_Free(o) /\ UNCHANGED <<ptr, refcnt>>
    /\ UNCHANGED <<collector, new>>

-----------------------------------------------------------------------------
(* The program *)

Running == pc = "run" /\ Dying = {}

\* What the program can use as an operand: an atom or what is on the stack.
Operand == {NULL} \cup {ptr[<<STACK, f>>] : f \in Field}

\* Beginning of collect(g), with generation counters c.
BeginCollect(g, c) ==
    /\ count' = [i \in GENERATIONS |-> CASE i <= g    -> 0
                                         [] i = g + 1 -> c[i] + 1
                                         [] OTHER     -> c[i]]
    /\ list' = [o \in Obj |-> IF list[o] \in 0..g THEN g ELSE list[o]]
    /\ gen' = g
    /\ pc' = "update"

\* COObject_GC_Malloc for a container of type k, to be pushed in slot s; err is
\* COErr_Occurred().  A collection it triggers runs before the block is initialised.
GC_Malloc(o, k, s, err) ==
    LET c    == [count EXCEPT ![0] = @ + 1]
        full == {i \in GENERATIONS : c[i] > Threshold[i]}
    IN  /\ Running
        /\ kind[o] = NULL
        /\ ptr[<<STACK, s>>] = NULL
        /\ new' = <<o, k, s>>
        /\ IF 0 \in full /\ ~err
           THEN \E g \in full : (\A i \in full : i <= g) /\ BeginCollect(g, c)
           ELSE count' = c /\ pc' = "init" /\ UNCHANGED <<list, gen>>
        /\ UNCHANGED <<heap, gc_refs, todo, cur, garbage>>

\* COObject_GC_New returns.  COList_New and COTuple_New track the object and it is
\* filled with the operands; CODict_New leaves an empty dict untracked.
InitObject(operands) ==
    LET o == new[1]
        k == new[2]
        x == <<STACK, new[3]>>
    IN  /\ pc = "init"
        /\ \A f \in Field : operands[f] \in Operand
        /\ k = "dict" => operands = [f \in Field |-> NULL]
        /\ kind' = [kind EXCEPT ![o] = k]
        /\ ptr' = [y \in Slot |-> CASE y = x    -> o
                                    [] y[1] = o -> operands[y[2]]
                                    [] OTHER    -> ptr[y]]
        /\ refcnt' = [p \in Obj |->
                        IF p = o THEN 1
                        ELSE refcnt[p] + Cardinality({y \in {o} \X Field : operands[y[2]] = p})]
        /\ IF k = "dict"
           THEN UNCHANGED <<gc_refs, list>>
           ELSE /\ gc_refs' = [gc_refs EXCEPT ![o] = REACHABLE]
                /\ list' = [list EXCEPT ![o] = 0]
        /\ new' = NULL
        /\ pc' = "run"
        /\ UNCHANGED <<count, collector>>

\* OP_STORE_SUBSCRIPT: COList_SetItem or CODict_SetItem; a dict is tracked from the
\* first value on that may be part of a cycle (MAINTAIN_TRACKING).
StoreSubscript(s, f, item) ==
    LET c == ptr[<<STACK, s>>]
    IN  /\ Running
        /\ c # NULL
        /\ kind[c] \in {"list", "dict"}
        /\ item \in Operand
        /\ Redirect(<<c, f>>, item)
        /\ IF /\ kind[c] = "dict"
              /\ gc_refs[c] = UNTRACKED
              /\ item # NULL
              /\ kind[item] = "tuple" => gc_refs[item] # UNTRACKED
           THEN /\ gc_refs' = [gc_refs EXCEPT ![c] = REACHABLE]
                /\ list' = [list EXCEPT ![c] = 0]
           ELSE UNCHANGED <<gc_refs, list>>
        /\ UNCHANGED <<kind, count, pc, collector, new>>

\* OP_LOAD_NAME, OP_LOAD_LOCAL, OP_DUP_TOP
Load(s, t) ==
    /\ Running
    /\ ptr[<<STACK, s>>] # NULL
    /\ ptr[<<STACK, t>>] = NULL
    /\ Redirect(<<STACK, t>>, ptr[<<STACK, s>>])
    /\ UNCHANGED <<kind, gc_refs, list, count, pc, collector, new>>

\* Mutant: list_item returns the list's own reference.
BinarySubscript_Borrowed(s, f) ==
    LET c == ptr[<<STACK, s>>]
    IN  /\ Running
        /\ c # NULL
        /\ kind[c] \in Subscripted
        /\ ptr' = [ptr EXCEPT ![<<STACK, s>>] = ptr[<<c, f>>]]
        /\ refcnt' = Recount(c, NULL)
        /\ UNCHANGED <<kind, gc_refs, list, count, pc, collector, new>>

\* OP_BINARY_SUBSCRIPT: the element replaces the container on the stack.  list_item
\* returns a reference of its own, dict_subscript the one the dict holds.
BinarySubscript(s, f) ==
    LET c == ptr[<<STACK, s>>]
        x == ptr[<<c, f>>]
    IN  /\ Running
        /\ c # NULL
        /\ kind[c] \in Subscripted
        /\ IF kind[c] = "list"
           THEN Redirect(<<STACK, s>>, x)
           ELSE /\ ptr' = [ptr EXCEPT ![<<STACK, s>>] = x]
                /\ refcnt' = Recount(c, NULL)
        /\ UNCHANGED <<kind, gc_refs, list, count, pc, collector, new>>

\* OP_POP_TOP, the end of a local variable, rebinding a name
Pop(s) ==
    /\ Running
    /\ ptr[<<STACK, s>>] # NULL
    /\ Redirect(<<STACK, s>>, NULL)
    /\ UNCHANGED <<kind, gc_refs, list, count, pc, collector, new>>

\* COObject_GC_Collect, the built-in gc_collect()
GC_Collect ==
    /\ Running
    /\ BeginCollect(2, count)
    /\ UNCHANGED <<heap, gc_refs, todo, cur, garbage, new>>

-----------------------------------------------------------------------------
(* The collector *)

\* update_refs
UpdateRefs ==
    /\ pc = "update"
    /\ IF \A o \in Young : gc_refs[o] = REACHABLE /\ refcnt[o] # 0
       THEN /\ gc_refs' = [o \in Obj |-> IF o \in Young THEN refcnt[o] ELSE gc_refs[o]]
            /\ pc' = "subtract"
       ELSE pc' = "abort" /\ UNCHANGED gc_refs
    /\ UNCHANGED <<heap, list, count, collector, new>>

\* Mutant: an object that refers twice to o counts once.
Internal_Once(o) == {x \in Young : o \in Referents(x)}

\* The references visit_decref meets when subtract_refs traverses young.
Internal(o) == {x \in Young \X Field : ptr[x] = o}

\* subtract_refs; visit_decref takes one off any container, tracked or not, in young
\* or not.  The word of an object that is not in young may sink without end.
SubtractRefs ==
    /\ pc = "subtract"
    /\ gc_refs' = [o \in Obj |-> LET refs == gc_refs[o] - Cardinality(Internal(o))
                                 IN  IF refs < LOWEST THEN LOWEST ELSE refs]
    /\ todo' = Young
    /\ pc' = "move"
    /\ UNCHANGED <<heap, list, count, gen, cur, garbage, new>>

\* Mutant: visit_reachable leaves what has been set aside where it is.
VisitReachable_NoReturn(o) ==
    LET refs  == [gc_refs EXCEPT ![o] = REACHABLE]
        found == {t \in Referents(o) : refs[t] = 0}
    IN  IF \E t \in Referents(o) : refs[t] < TENTATIVELY_UNREACHABLE
        THEN pc' = "abort" /\ UNCHANGED <<gc_refs, list, todo>>
        ELSE /\ gc_refs' = [t \in Obj |-> IF t \in found THEN 1 ELSE refs[t]]
             /\ todo' = todo \ {o}
             /\ UNCHANGED <<list, pc>>

\* Mutant: move_unreachable does not mark the object GC_REACHABLE.
VisitReachable_Unmarked(o) ==
    LET found == {t \in Referents(o) : gc_refs[t] \in {0, TENTATIVELY_UNREACHABLE}}
        back  == {t \in Referents(o) : gc_refs[t] = TENTATIVELY_UNREACHABLE}
    IN  IF \E t \in Referents(o) : gc_refs[t] < TENTATIVELY_UNREACHABLE
        THEN pc' = "abort" /\ UNCHANGED <<gc_refs, list, todo>>
        ELSE /\ gc_refs' = [t \in Obj |-> IF t \in found THEN 1 ELSE gc_refs[t]]
             /\ list' = [t \in Obj |-> IF t \in back THEN gen ELSE list[t]]
             /\ todo' = (todo \ {o}) \cup back
             /\ pc' = IF \E t \in back : list[t] = UNLINKED THEN "wild" ELSE pc

\* Mutant: what is known to be reachable is put back at the end of young as well.
VisitReachable_Again(o) ==
    LET refs  == [gc_refs EXCEPT ![o] = REACHABLE]
        found == {t \in Referents(o) : refs[t] \in {0, TENTATIVELY_UNREACHABLE}}
        back  == {t \in Referents(o) : refs[t] \in {REACHABLE, TENTATIVELY_UNREACHABLE}}
    IN  IF \E t \in Referents(o) : refs[t] < TENTATIVELY_UNREACHABLE
        THEN pc' = "abort" /\ UNCHANGED <<gc_refs, list, todo>>
        ELSE /\ gc_refs' = [t \in Obj |-> IF t \in found THEN 1 ELSE refs[t]]
             /\ list' = [t \in Obj |-> IF t \in back THEN gen ELSE list[t]]
             /\ todo' = (todo \ {o}) \cup back
             /\ pc' = IF \E t \in back : list[t] = UNLINKED THEN "wild" ELSE pc

\* visit_reachable on everything o refers to.  A node moved back to young is appended
\* at its end, so the walk comes to it again.
VisitReachable(o) ==
    LET refs  == [gc_refs EXCEPT ![o] = REACHABLE]
        found == {t \in Referents(o) : refs[t] \in {0, TENTATIVELY_UNREACHABLE}}
        back  == {t \in Referents(o) : refs[t] = TENTATIVELY_UNREACHABLE}
    IN  IF \E t \in Referents(o) : refs[t] < TENTATIVELY_UNREACHABLE
        THEN pc' = "abort" /\ UNCHANGED <<gc_refs, list, todo>>
        ELSE /\ gc_refs' = [t \in Obj |-> IF t \in found THEN 1 ELSE refs[t]]
             /\ list' = [t \in Obj |-> IF t \in back THEN gen ELSE list[t]]
             /\ todo' = (todo \ {o}) \cup back
             /\ pc' = IF \E t \in back : list[t] = UNLINKED THEN "wild" ELSE pc

\* One node of move_unreachable's walk.
MoveUnreachable(o) ==
    /\ pc = "move"
    /\ o \in todo
    /\ IF gc_refs[o] # 0
       THEN VisitReachable(o)
       ELSE /\ gc_refs' = [gc_refs EXCEPT ![o] = TENTATIVELY_UNREACHABLE]
            /\ list' = [list EXCEPT ![o] = UNREACHABLE]
            /\ todo' = todo \ {o}
            /\ UNCHANGED pc
    /\ UNCHANGED <<heap, count, gen, cur, garbage, new>>

\* The walk is over: collect() moves the survivors to the next generation.
Survive ==
    /\ pc = "move"
    /\ todo = {}
    /\ list' = [o \in Obj |-> IF o \in Young THEN Old ELSE list[o]]
    /\ garbage' = Unreachable
    /\ pc' = "delete"
    /\ UNCHANGED <<heap, gc_refs, count, gen, todo, cur, new>>

\* delete_garbage takes the first object; it clears it under a reference of its own,
\* or puts it back if its type has no tp_clear.
DeleteGarbage(o) ==
    /\ pc = "delete"
    /\ o \in Unreachable
    /\ CASE gc_refs[o] # TENTATIVELY_UNREACHABLE ->
                pc' = "abort" /\ UNCHANGED <<refcnt, gc_refs, list, cur>>
         [] gc_refs[o] = TENTATIVELY_UNREACHABLE /\ kind[o] = "tuple" ->
                /\ list' = [list EXCEPT ![o] = Old]
                /\ gc_refs' = [gc_refs EXCEPT ![o] = REACHABLE]
                /\ UNCHANGED <<refcnt, pc, cur>>
         [] OTHER ->
                /\ cur' = o
                /\ refcnt' = Recount(NULL, o)
                /\ pc' = "clear"
                /\ UNCHANGED <<gc_refs, list>>
    /\ UNCHANGED <<ptr, kind, count, gen, todo, garbage, new>>

\* One reference dropped by list_clear or CODict_Clear.
ClearSlot(f) ==
    /\ pc = "clear"
    /\ Dying = {}
    /\ ptr[<<cur, f>>] # NULL
    /\ Redirect(<<cur, f>>, NULL)
    /\ UNCHANGED <<kind, gc_refs, list, count, pc, collector, new>>

\* Mutant: delete_garbage keeps its reference.
Cleared_Kept ==
    /\ pc = "clear"
    /\ Dying = {}
    /\ Referents(cur) = {}
    /\ pc' = "relink"
    /\ UNCHANGED <<heap, gc_refs, list, count, collector, new>>

\* tp_clear is over: the CO_DECREF of delete_garbage.
Cleared ==
    /\ pc = "clear"
    /\ Dying = {}
    /\ Referents(cur) = {}
    /\ refcnt' = Recount(cur, NULL)
    /\ pc' = "relink"
    /\ UNCHANGED <<ptr, kind, gc_refs, list, count, collector, new>>

\* If the object is still the first of the list it was not freed: it is moved to the
\* next generation and will die later.
Relink ==
    /\ pc = "relink"
    /\ Dying = {}
    /\ IF cur \in Unreachable
       THEN /\ list' = [list EXCEPT ![cur] = Old]
            /\ gc_refs' = [gc_refs EXCEPT ![cur] = REACHABLE]
       ELSE UNCHANGED <<list, gc_refs>>
    /\ cur' = NULL
    /\ pc' = "delete"
    /\ UNCHANGED <<heap, count, gen, todo, garbage, new>>

\* collect() returns, to COObject_GC_Malloc or to the program.
EndCollect ==
    /\ pc = "delete"
    /\ Unreachable = {}
    /\ garbage' = {}
    /\ gen' = 0
    /\ pc' = IF new = NULL THEN "run" ELSE "init"
    /\ UNCHANGED <<heap, gc_refs, list, count, todo, cur, new>>

-----------------------------------------------------------------------------
Program ==
    \/ \E o \in Obj, k \in Kinds, s \in Field, err \in BOOLEAN : GC_Malloc(o, k, s, err)
    \/ \E operands \in [Field -> Operand] : InitObject(operands)
    \/ \E s, f \in Field, item \in Operand : StoreSubscript(s, f, item)
    \/ \E s, t \in Field : Load(s, t)
    \/ \E s, f \in Field : BinarySubscript(s, f)
    \/ \E s \in Field : Pop(s)
    \/ GC_Collect

Collect ==
    \/ UpdateRefs
    \/ SubtractRefs
    \/ \E o \in Obj : MoveUnreachable(o)
    \/ Survive
    \/ \E o \in Obj : DeleteGarbage(o)
    \/ \E f \in Field : ClearSlot(f)
    \/ Cleared
    \/ Relink
    \/ EndCollect

Release == \E o \in Obj : Dealloc(o)

Next == Program \/ Collect \/ Release

Spec == Init /\ [][Next]_vars

(* The interpreter is one thread that never waits: a collection that has begun and a *)
(* deallocation that has begun run on.                                               *)
FairSpec == Spec /\ WF_vars(Collect) /\ WF_vars(Release)

-----------------------------------------------------------------------------
(* Properties *)

\* The variables hold values of their types.
TypeOK ==
    /\ ptr \in [Slot -> Ref]
    /\ refcnt \in [Obj -> Int]
    /\ kind \in [Obj -> Kinds \cup {NULL}]
    /\ gc_refs \in [Obj -> Int]
    /\ list \in [Obj -> {UNLINKED, UNREACHABLE} \cup GENERATIONS]
    /\ count \in [GENERATIONS -> Nat]
    /\ pc \in PCs
    /\ gen \in GENERATIONS
    /\ todo \subseteq Obj
    /\ cur \in Ref
    /\ garbage \subseteq Obj
    /\ new \in (Obj \X Kinds \X Field) \cup {NULL}

\* The slots that refer to o.
RefsTo(o) == {x \in Slot : ptr[x] = o}

\* The references to o that are in no slot: delete_garbage's own.
Held(o) == IF pc = "clear" /\ cur = o THEN 1 ELSE 0

\* co_refcnt is the number of references there are, at every moment of a collection
\* and of a deallocation included: one more and the object leaks, one less and it is
\* freed under the program.
RefcountExact ==
    pc # "wild" => \A o \in Obj : refcnt[o] = Cardinality(RefsTo(o)) + Held(o)

\* No reference leads to a freed block, and a freed block holds none.
NoDangling ==
    \A x \in Slot : ptr[x] # NULL =>
        /\ kind[ptr[x]] # NULL
        /\ x[1] # STACK => kind[x[1]] # NULL

\* While move_unreachable walks (gc.c:222-233), whatever refers to an object that has
\* been set aside has been set aside too, or is still to be walked; an object behind
\* the cursor that stayed is marked reachable, and so is all it refers to in young.
WalkInvariant ==
    pc = "move" =>
        /\ \A o \in Unreachable : \A x \in RefsTo(o) : x[1] \in Unreachable \cup todo
        /\ \A o \in Young \ todo :
              /\ gc_refs[o] = REACHABLE
              /\ \A t \in Referents(o) \cap todo : gc_refs[t] > 0

\* From the end of the walk to the end of delete_garbage, an object that is to be
\* deleted is referred to by such objects only: nothing the program or a survivor
\* holds is ever cleared.
GarbageClosed ==
    pc \in {"delete", "clear", "relink"} =>
        \A x \in Slot : ptr[x] \in garbage => x[1] \in garbage

Stopped == pc \in {"abort", "wild"}

\* The asserts of gc.c:131, 136, 201 and 275 hold, and no unlinked node is unlinked.
AssertsHold == ~ Stopped

\* Between collections every object is untracked and in no list, or GC_REACHABLE and
\* in the list of a generation (gc.h:77-88).
TrackingStates ==
    pc \in {"run", "init"} =>
        \A o \in Obj :
            \/ gc_refs[o] = UNTRACKED /\ list[o] = UNLINKED
            \/ gc_refs[o] = REACHABLE /\ list[o] \in GENERATIONS

\* No step, of a collection or of a deallocation, frees what the program can reach.
NeverFreesLive ==
    [][\A o \in Obj : kind[o] # NULL /\ kind'[o] = NULL => o \notin Live(ptr)]_vars

Returns == pc = "delete" /\ pc' \in {"run", "init"}

\* All that move_unreachable set aside is freed when collect() returns, tuples (which
\* have no tp_clear) and objects moved to an older generation to die later included:
\* the number collect() returns is the number of objects it freed.
GarbageFreed == [][Returns => \A o \in garbage : kind[o] = NULL]_vars

\* After a collection of the oldest generation nothing is left that the program cannot
\* reach: no cycle survives gc_collect().
FullCollectionComplete == [][Returns /\ gen = 2 => Alive \subseteq Live(ptr)]_vars

\* A collection that has begun ends, however often its walk goes back over young
\* (gc.c:234) and whatever the deallocations it sets off.
CollectionEnds == pc = "update" ~> pc \in {"run", "init"} \/ Stopped

\* An object whose last reference is dropped is freed, in the program or in a collection.
Reclaimed == \A o \in Obj : o \in Dying ~> kind[o] = NULL \/ Stopped

Ideal == INSTANCE IdealHeap WITH val <- Visible(ptr)

\* To the program, reference counts, collections and deallocations do not exist: it
\* sees the heap of IdealHeap.
ImplementsIdeal == Ideal!IdealSpec

=============================================================================
