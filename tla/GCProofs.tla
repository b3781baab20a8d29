------------------------------ MODULE GCProofs ------------------------------
(****************************************************************************)
(* Proofs about GC, for every set of objects, thresholds and types in use:  *)
(* reference counts are exact and the lists of the generations sound; and   *)
(* what memory management is for: the program sees the heap of IdealHeap, a *)
(* collection frees all that it found, a full one finds all that the        *)
(* program cannot reach, and the asserts of gc.c hold where they do.        *)
(****************************************************************************)
EXTENDS GC, FiniteSetTheorems, TLAPS

USE DEF GENERATIONS, UNREACHABLE, UNLINKED

\* An allocation is in progress exactly when GC_Malloc has not returned.
Pending == pc = "init" => new # NULL

\* Any set of slots is finite.
LEMMA SlotsFinite ==
    ASSUME NEW S \in SUBSET Slot
    PROVE  IsFiniteSet(S) /\ Cardinality(S) \in Nat
<1>1. IsFiniteSet(Obj \cup {STACK})
    BY HeapAssumption, FS_AddElement
<1>2. IsFiniteSet(Slot)
    BY <1>1, HeapAssumption, FS_Product DEF Slot
<1> QED
    BY <1>2, FS_Subset, FS_CardinalityType

\* What slots hold.
LEMMA OperandTyped == TypeOK => Operand \subseteq Ref
<1>1. \A f \in Field : <<STACK, f>> \in Slot
    BY DEF Slot
<1>2. TypeOK => \A f \in Field : ptr[<<STACK, f>>] \in Ref
    BY <1>1 DEF TypeOK
<1> QED
    BY <1>2 DEF Operand, Ref

LEMMA ReferentsTyped ==
    ASSUME TypeOK, NEW o \in Obj
    PROVE  Referents(o) \subseteq Obj
<1>1. \A f \in Field : <<o, f>> \in Slot
    BY DEF Slot
<1>2. \A f \in Field : ptr[<<o, f>>] \in Ref
    BY <1>1 DEF TypeOK
<1> QED
    BY <1>2 DEF Referents, Ref

\* Moving references keeps the types.
LEMMA RecountTyped ==
    ASSUME TypeOK, NEW a, NEW b
    PROVE  Recount(a, b) \in [Obj -> Int]
BY DEF TypeOK, Recount

LEMMA RedirectTyped ==
    ASSUME TypeOK, NEW x, NEW r \in Ref, Redirect(x, r)
    PROVE  ptr' \in [Slot -> Ref] /\ refcnt' \in [Obj -> Int]
BY RecountTyped DEF TypeOK, Redirect

LEMMA InitTyped == Init => TypeOK /\ Pending
BY HeapAssumption DEF Init, TypeOK, Pending, Ref, PCs, UNTRACKED

\* Every step keeps the types.
LEMMA NextTyped == TypeOK /\ Pending /\ [Next]_vars => TypeOK' /\ Pending'
<1> SUFFICES ASSUME TypeOK, Pending, [Next]_vars
             PROVE  TypeOK' /\ Pending'
    OBVIOUS
<1> USE HeapAssumption, KindsAssumption DEF TypeOK, Pending, Ref, PCs, Slot
<1>1. ASSUME NEW o \in Obj, NEW k \in Kinds, NEW s \in Field, NEW err \in BOOLEAN,
             GC_Malloc(o, k, s, err)
      PROVE  TypeOK' /\ Pending'
    BY <1>1 DEF GC_Malloc, BeginCollect, heap
<1>2. ASSUME NEW operands \in [Field -> Operand], InitObject(operands)
      PROVE  TypeOK' /\ Pending'
  <2> DEFINE o == new[1]
             Own(p) == {y \in {o} \X Field : operands[y[2]] = p}
  <2>1. new \in Obj \X Kinds \X Field
      BY <1>2 DEF InitObject
  <2>2. ptr' \in [Slot -> Ref]
    <3>1. \A f \in Field : operands[f] \in Ref
        BY OperandTyped
    <3> QED
        BY <1>2, <2>1, <3>1 DEF InitObject
  <2>3. refcnt' \in [Obj -> Int]
    <3>1. \A p \in Obj : Cardinality(Own(p)) \in Nat
      <4> TAKE p \in Obj
      <4>1. Own(p) \in SUBSET Slot
          BY <2>1
      <4> QED
          BY <4>1, SlotsFinite
    <3>2. refcnt' = [p \in Obj |-> IF p = o THEN 1 ELSE refcnt[p] + Cardinality(Own(p))]
        BY <1>2 DEF InitObject
    <3> QED
        BY <3>1, <3>2
  <2> QED
      BY <1>2, <2>1, <2>2, <2>3 DEF InitObject, collector, REACHABLE
<1>3. ASSUME NEW s \in Field, NEW f \in Field, NEW item \in Operand,
             StoreSubscript(s, f, item)
      PROVE  TypeOK' /\ Pending'
  <2>1. item \in Ref
      BY OperandTyped
  <2>2. ptr' \in [Slot -> Ref] /\ refcnt' \in [Obj -> Int]
      BY <1>3, <2>1, RedirectTyped DEF StoreSubscript
  <2>3. /\ gc_refs' \in [Obj -> Int]
        /\ list' \in [Obj -> {UNLINKED, UNREACHABLE} \cup GENERATIONS]
      BY <1>3 DEF StoreSubscript, REACHABLE
  <2> QED
      BY <1>3, <2>2, <2>3 DEF StoreSubscript, collector
<1>4. ASSUME NEW s \in Field, NEW t \in Field, Load(s, t)
      PROVE  TypeOK' /\ Pending'
    BY <1>4, RedirectTyped DEF Load, collector
<1>5. ASSUME NEW s \in Field, NEW f \in Field, BinarySubscript(s, f)
      PROVE  TypeOK' /\ Pending'
  <2> DEFINE c == ptr[<<STACK, s>>]
  <2>1. c \in Obj /\ ptr[<<c, f>>] \in Ref
      BY <1>5 DEF BinarySubscript
  <2>2. ptr' \in [Slot -> Ref] /\ refcnt' \in [Obj -> Int]
      BY <1>5, <2>1, RedirectTyped, RecountTyped DEF BinarySubscript
  <2> QED
      BY <1>5, <2>2 DEF BinarySubscript, collector
<1>6. ASSUME NEW s \in Field, Pop(s)
      PROVE  TypeOK' /\ Pending'
    BY <1>6, RedirectTyped DEF Pop, collector
<1>7. CASE GC_Collect
    BY <1>7 DEF GC_Collect, BeginCollect, heap
<1>8. CASE UpdateRefs
    BY <1>8 DEF UpdateRefs, heap, collector
<1>9. CASE SubtractRefs
  <2>1. \A o \in Obj : Cardinality(Internal(o)) \in Nat
    <3> TAKE o \in Obj
    <3>1. Internal(o) \in SUBSET Slot
        BY DEF Internal, Young
    <3> QED
        BY <3>1, SlotsFinite
  <2>2. gc_refs' \in [Obj -> Int]
      BY <1>9, <2>1 DEF SubtractRefs, LOWEST
  <2>3. todo' \subseteq Obj
      BY <1>9 DEF SubtractRefs, Young
  <2> QED
      BY <1>9, <2>2, <2>3 DEF SubtractRefs, heap
<1>10. ASSUME NEW o \in Obj, MoveUnreachable(o)
       PROVE  TypeOK' /\ Pending'
  <2>1. CASE gc_refs[o] # 0
    <3>1. Referents(o) \subseteq Obj
        BY ReferentsTyped
    <3>2. [gc_refs EXCEPT ![o] = REACHABLE] \in [Obj -> Int]
        BY DEF REACHABLE
    <3> QED
        BY <1>10, <2>1, <3>1, <3>2 DEF MoveUnreachable, VisitReachable, heap
  <2>2. CASE gc_refs[o] = 0
      BY <1>10, <2>2 DEF MoveUnreachable, heap, TENTATIVELY_UNREACHABLE
  <2> QED
      BY <2>1, <2>2
<1>11. CASE Survive
    BY <1>11 DEF Survive, heap, Old, Unreachable
<1>12. ASSUME NEW o \in Obj, DeleteGarbage(o)
       PROVE  TypeOK' /\ Pending'
    BY <1>12 DEF DeleteGarbage, Recount, Old, REACHABLE
<1>13. ASSUME NEW f \in Field, ClearSlot(f)
       PROVE  TypeOK' /\ Pending'
    BY <1>13, RedirectTyped DEF ClearSlot, collector
<1>14. CASE Cleared
    BY <1>14 DEF Cleared, Recount, collector
<1>15. CASE Relink
    BY <1>15 DEF Relink, Old, REACHABLE, heap
<1>16. CASE EndCollect
    BY <1>16 DEF EndCollect, heap
<1>17. ASSUME NEW o \in Obj, Dealloc(o)
       PROVE  TypeOK' /\ Pending'
  <2>1. CASE Referents(o) # {}
    <3>1. PICK f \in Field : Redirect(<<o, f>>, NULL)
        BY <1>17, <2>1 DEF Dealloc
    <3>2. ptr' \in [Slot -> Ref] /\ refcnt' \in [Obj -> Int]
        BY <3>1, RedirectTyped
    <3> QED
        BY <1>17, <2>1, <3>2 DEF Dealloc, collector
  <2>2. CASE Referents(o) = {}
      BY <1>17, <2>2 DEF Dealloc, GC_Free, collector, UNTRACKED
  <2> QED
      BY <2>1, <2>2
<1>18. CASE UNCHANGED vars
    BY <1>18 DEF vars
<1> QED
    BY <1>1, <1>2, <1>3, <1>4, <1>5, <1>6, <1>7, <1>8, <1>9, <1>10, <1>11, <1>12,
       <1>13, <1>14, <1>15, <1>16, <1>17, <1>18 DEF Next, Program, Collect, Release

\* Type correctness.
THEOREM TypeCorrect == Spec => []TypeOK
BY InitTyped, NextTyped, PTL DEF Spec

-----------------------------------------------------------------------------
(* Reference counts.  The invariant that makes exact counts inductive says where    *)
(* a count may be 0, that the block being allocated is unused and free, and that    *)
(* only objects are linked into lists.                                              *)

Allocating ==
    new # NULL =>
        /\ pc # "run"
        /\ kind[new[1]] = NULL
        /\ ptr[<<STACK, new[3]>>] = NULL

Quiet == pc \in {"init", "update", "subtract", "move", "delete"} => Dying = {}

Clearing == pc = "clear" => cur \in Alive

Linked == \A o \in Obj : list[o] # UNLINKED => o \in Alive

Walking == pc = "move" => \A o \in todo : list[o] = gen

Counts ==
    /\ TypeOK
    /\ Pending
    /\ Walking
    /\ Allocating
    /\ Quiet
    /\ Clearing
    /\ Linked
    /\ RefcountExact
    /\ NoDangling

\* Moving one reference moves one count.
LEMMA RedirectCounts ==
    ASSUME TypeOK, NEW x \in Slot, NEW r \in Ref, Redirect(x, r), NEW o \in Obj
    PROVE  refcnt'[o] - Cardinality(RefsTo(o)') = refcnt[o] - Cardinality(RefsTo(o))
<1>1. IsFiniteSet(RefsTo(o)) /\ Cardinality(RefsTo(o)) \in Nat
  <2>1. RefsTo(o) \in SUBSET Slot
      BY DEF RefsTo
  <2> QED
      BY <2>1, SlotsFinite
<1>2. /\ \A y \in Slot : ptr'[y] = IF y = x THEN r ELSE ptr[y]
      /\ refcnt[o] \in Int
    BY DEF Redirect, TypeOK
<1>3. refcnt'[o] = refcnt[o] + (IF o = r THEN 1 ELSE 0) - (IF o = ptr[x] THEN 1 ELSE 0)
    BY DEF Redirect, Recount
<1>4. CASE o = r /\ o # ptr[x]
  <2>1. \A y : y \in RefsTo(o)' <=> y \in RefsTo(o) \/ y = x
      BY <1>2, <1>4 DEF RefsTo
  <2>2. RefsTo(o)' = RefsTo(o) \cup {x} /\ x \notin RefsTo(o)
      BY <2>1, <1>4, Zenon DEF RefsTo
  <2>3. Cardinality(RefsTo(o)') = Cardinality(RefsTo(o)) + 1
      BY <1>1, <2>2, FS_AddElement
  <2>4. refcnt'[o] = refcnt[o] + 1
      BY <1>2, <1>3, <1>4
  <2> QED
      BY <1>1, <1>2, <2>3, <2>4
<1>5. CASE o # r /\ o = ptr[x]
  <2>1. \A y : y \in RefsTo(o)' <=> y \in RefsTo(o) /\ y # x
      BY <1>2, <1>5 DEF RefsTo
  <2>2. RefsTo(o)' = RefsTo(o) \ {x} /\ x \in RefsTo(o)
      BY <2>1, <1>5, Zenon DEF RefsTo
  <2>3. Cardinality(RefsTo(o)') = Cardinality(RefsTo(o)) - 1
      BY <1>1, <2>2, FS_RemoveElement
  <2>4. refcnt'[o] = refcnt[o] - 1
      BY <1>2, <1>3, <1>5
  <2> QED
      BY <1>1, <1>2, <2>3, <2>4
<1>6. CASE (o = r) <=> (o = ptr[x])
  <2>1. RefsTo(o)' = RefsTo(o)
      BY <1>2, <1>6 DEF RefsTo
  <2> QED
      BY <1>1, <1>2, <1>3, <1>6, <2>1
<1> QED
    BY <1>4, <1>5, <1>6

\* A slot that the program, a deallocation or the collector owns is redirected to an
\* object that exists: counts stay exact, and no reference dangles.
LEMMA RedirectSafe ==
    ASSUME TypeOK, RefcountExact, NoDangling,
           NEW x \in Slot, x[1] # STACK => kind[x[1]] # NULL,
           NEW r \in Ref, r # NULL => kind[r] # NULL,
           Redirect(x, r), pc # "wild", UNCHANGED <<kind, pc, cur>>
    PROVE  RefcountExact' /\ NoDangling'
<1>1. RefcountExact'
  <2> SUFFICES ASSUME NEW o \in Obj
               PROVE  refcnt'[o] = Cardinality(RefsTo(o)') + Held(o)'
      BY DEF RefcountExact
  <2>1. Held(o)' = Held(o) /\ Held(o) \in Int
      BY DEF Held
  <2>2. refcnt[o] = Cardinality(RefsTo(o)) + Held(o)
      BY DEF RefcountExact
  <2>3. Cardinality(RefsTo(o)) \in Nat /\ Cardinality(RefsTo(o)') \in Nat
    <3>1. RefsTo(o) \in SUBSET Slot /\ RefsTo(o)' \in SUBSET Slot
        BY DEF RefsTo
    <3> QED
        BY <3>1, SlotsFinite
  <2>4. refcnt'[o] \in Int
      BY RedirectTyped
  <2> QED
      BY <2>1, <2>2, <2>3, <2>4, RedirectCounts
<1>2. NoDangling'
    BY DEF NoDangling, Redirect, TypeOK
<1> QED
    BY <1>1, <1>2

\* A step that leaves the heap alone keeps what the counts say.
LEMMA SameHeap ==
    ASSUME RefcountExact, NoDangling, UNCHANGED heap,
           pc \notin {"clear", "wild"}, pc' # "clear"
    PROVE  RefcountExact' /\ NoDangling' /\ Alive' = Alive /\ Dying' = Dying
BY DEF RefcountExact, NoDangling, heap, Held, RefsTo, Alive, Dying

\* Nothing refers to an object that is being deallocated.
LEMMA DyingUnreferenced ==
    ASSUME TypeOK, RefcountExact, NEW o \in Dying, pc # "wild"
    PROVE  RefsTo(o) = {} /\ Held(o) = 0
<1>1. o \in Obj /\ refcnt[o] = 0
    BY DEF Dying, Alive
<1>2. IsFiniteSet(RefsTo(o)) /\ Cardinality(RefsTo(o)) \in Nat
  <2>1. RefsTo(o) \in SUBSET Slot
      BY DEF RefsTo
  <2> QED
      BY <2>1, SlotsFinite
<1>3. Held(o) \in {0, 1}
    BY DEF Held
<1>4. Cardinality(RefsTo(o)) = 0 /\ Held(o) = 0
    BY <1>1, <1>2, <1>3 DEF RefcountExact
<1> QED
    BY <1>2, <1>4, FS_EmptySet

\* The steps of the invariant other than types, one lemma per part of the system.
Rest == Walking /\ Allocating /\ Quiet /\ Clearing /\ Linked /\ RefcountExact /\ NoDangling

LEMMA InitCounts == Init => Counts
<1> SUFFICES ASSUME Init PROVE Counts
    OBVIOUS
<1>1. TypeOK /\ Pending
    BY InitTyped
<1>2. \A o \in Obj : RefsTo(o) = {}
    BY HeapAssumption DEF Init, RefsTo
<1>3. RefcountExact
    BY <1>2, FS_EmptySet DEF Init, RefcountExact, Held
<1> QED
    BY <1>1, <1>3 DEF Init, Counts, Walking, Allocating, Quiet, Clearing, Linked, NoDangling, Dying, Alive

\* A step of the program.
LEMMA ProgramCounts ==
    ASSUME "dict" \notin Subscripted, Counts, TypeOK', Program
    PROVE  Rest'
<1> USE HeapAssumption, KindsAssumption DEF Ref, Counts, Rest
<1>1. ASSUME NEW o \in Obj, NEW k \in Kinds, NEW s \in Field, NEW err \in BOOLEAN,
             GC_Malloc(o, k, s, err)
      PROVE  Rest'
  <2>1. /\ pc = "run" /\ Dying = {} /\ UNCHANGED heap /\ pc' \in {"init", "update"}
        /\ new' = <<o, k, s>> /\ kind[o] = NULL /\ ptr[<<STACK, s>>] = NULL
      BY <1>1 DEF GC_Malloc, BeginCollect, Running
  <2>2. RefcountExact' /\ NoDangling' /\ Alive' = Alive /\ Dying' = Dying
      BY <2>1, SameHeap
  <2>3. Linked'
      BY <1>1, <2>2 DEF GC_Malloc, BeginCollect, Linked
  <2> QED
      BY <2>1, <2>2, <2>3 DEF Walking, Allocating, Quiet, Clearing, heap
<1>2. ASSUME NEW operands \in [Field -> Operand], InitObject(operands)
      PROVE  Rest'
  <2>0. pc = "init" /\ new \in Obj \X Kinds \X Field
      BY <1>2 DEF InitObject, Pending, TypeOK
  <2>00. /\ new[1] \in Obj /\ new[2] \in Kinds /\ new[3] \in Field
        /\ new = <<new[1], new[2], new[3]>>
      BY <2>0
  <2> PICK o \in Obj, k \in Kinds, s \in Field : new = <<o, k, s>>
      BY <2>00, Zenon
  <2> DEFINE x == <<STACK, s>>
             Own(p) == {y \in {o} \X Field : operands[y[2]] = p}
  <2>1. kind[o] = NULL /\ ptr[x] = NULL /\ pc = "init"
      BY <2>0 DEF TypeOK, Allocating
  <2>2. /\ kind' = [kind EXCEPT ![o] = k]
        /\ ptr' = [y \in Slot |-> CASE y = x    -> o
                                    [] y[1] = o -> operands[y[2]]
                                    [] OTHER    -> ptr[y]]
        /\ refcnt' = [p \in Obj |-> IF p = o THEN 1 ELSE refcnt[p] + Cardinality(Own(p))]
        /\ new' = NULL /\ pc' = "run" /\ cur' = cur
        /\ \A p \in Obj : list'[p] = list[p] \/ p = o
      BY <1>2 DEF InitObject, collector, TypeOK
  <2>3. \A y \in Slot : ptr[y] # o /\ (y[1] = o => ptr[y] = NULL)
      BY <2>1 DEF NoDangling, Slot
  <2>4. \A f \in Field : operands[f] # NULL => operands[f] \in Obj /\ kind[operands[f]] # NULL
    <3>1. \A f \in Field : operands[f] \in Operand
        OBVIOUS
    <3>2. \A f \in Field : <<STACK, f>> \in Slot
        BY DEF Slot
    <3> QED
        BY <3>1, <3>2, OperandTyped DEF Operand, NoDangling
  <2>5. x \in Slot /\ x[1] # o
      BY <2>1 DEF Slot
  <2>6. RefcountExact'
    <3> SUFFICES ASSUME NEW p \in Obj
                 PROVE  refcnt'[p] = Cardinality(RefsTo(p)') + Held(p)'
        BY DEF RefcountExact
    <3>1. Held(p)' = 0 /\ refcnt[p] = Cardinality(RefsTo(p))
      <4>1. Held(p)' = 0 /\ Held(p) = 0
          BY <2>1, <2>2 DEF Held
      <4>2. Cardinality(RefsTo(p)) \in Nat
        <5>1. RefsTo(p) \in SUBSET Slot
            BY DEF RefsTo
        <5> QED
            BY <5>1, SlotsFinite
      <4> QED
          BY <2>1, <4>1, <4>2 DEF RefcountExact
    <3>2. CASE p = o
      <4>1. \A y : y \in RefsTo(o)' <=> y = x
        <5>1. ASSUME NEW y \in Slot, y # x PROVE ptr'[y] # o
          <6>1. CASE y[1] = o
            <7>1. y[2] \in Field
                BY DEF Slot
            <7> QED
                BY <6>1, <7>1, <5>1, <2>1, <2>2, <2>4
          <6>2. CASE y[1] # o
              BY <6>2, <5>1, <2>2, <2>3
          <6> QED
              BY <6>1, <6>2
        <5>2. ptr'[x] = o
            BY <2>2, <2>5
        <5>3. RefsTo(o)' = {y \in Slot : ptr'[y] = o}
            BY DEF RefsTo
        <5> HIDE DEF x
        <5> QED
            BY <5>1, <5>2, <5>3, <2>5
      <4>2. RefsTo(o)' = {x}
          BY <4>1
      <4>3. Cardinality(RefsTo(o)') = 1
          BY <4>2, FS_Singleton
      <4>4. refcnt'[p] = 1
          BY <3>2, <2>2
      <4> QED
          BY <3>1, <3>2, <4>3, <4>4
    <3>3. CASE p # o
      <4>1. \A y : y \in RefsTo(p)' <=> y \in RefsTo(p) \/ y \in Own(p)
        <5>1. ASSUME NEW y \in Slot
              PROVE  ptr'[y] = p <=> ptr[y] = p \/ (y[1] = o /\ operands[y[2]] = p)
          <6>1. CASE y = x
              BY <6>1, <2>1, <2>2, <2>5, <3>3
          <6>2. CASE y # x /\ y[1] = o
              BY <6>2, <2>2, <2>3
          <6>3. CASE y # x /\ y[1] # o
              BY <6>3, <2>2
          <6> QED
              BY <6>1, <6>2, <6>3
        <5>2. \A y : y \in Own(p) <=> y \in Slot /\ y[1] = o /\ operands[y[2]] = p
            BY <2>1 DEF Slot
        <5> HIDE DEF Own
        <5> QED
            BY <5>1, <5>2 DEF RefsTo
      <4>2. RefsTo(p)' = RefsTo(p) \cup Own(p)
          BY <4>1
      <4>3. RefsTo(p) \cap Own(p) = {}
          BY <2>3 DEF RefsTo
      <4>4. /\ IsFiniteSet(RefsTo(p)) /\ IsFiniteSet(Own(p))
            /\ Cardinality(RefsTo(p)) \in Nat /\ Cardinality(Own(p)) \in Nat
        <5>1. RefsTo(p) \in SUBSET Slot /\ Own(p) \in SUBSET Slot
            BY <2>1 DEF RefsTo, Slot
        <5> HIDE DEF Own
        <5> QED
            BY <5>1, SlotsFinite
      <4>5. Cardinality(RefsTo(p)') = Cardinality(RefsTo(p)) + Cardinality(Own(p))
        <5>1. Cardinality({}) = 0
            BY FS_EmptySet
        <5> HIDE DEF Own
        <5>2. /\ Cardinality(RefsTo(p) \cup Own(p)) =
                  Cardinality(RefsTo(p)) + Cardinality(Own(p)) - Cardinality(RefsTo(p) \cap Own(p))
            BY <4>4, FS_Union
        <5>3. Cardinality(RefsTo(p)') = Cardinality(RefsTo(p) \cup Own(p))
            BY <4>2
        <5>4. Cardinality(RefsTo(p) \cap Own(p)) = 0
            BY <4>3, <5>1
        <5> QED
            BY <4>4, <5>2, <5>3, <5>4
      <4>6. refcnt'[p] = refcnt[p] + Cardinality(Own(p))
          BY <2>2, <3>3
      <4> HIDE DEF Own
      <4> QED
          BY <3>1, <4>4, <4>5, <4>6
    <3> QED
        BY <3>2, <3>3
  <2>7. NoDangling'
    <3> SUFFICES ASSUME NEW y \in Slot, ptr'[y] # NULL
                 PROVE  kind'[ptr'[y]] # NULL /\ (y[1] # STACK => kind'[y[1]] # NULL)
        BY DEF NoDangling
    <3>1. CASE y = x
        BY <3>1, <2>1, <2>2 DEF TypeOK
    <3>2. CASE y # x /\ y[1] = o
      <4>1. y[2] \in Field
          BY DEF Slot
      <4>2. ptr'[y] = operands[y[2]]
          BY <3>2, <2>2
      <4> QED
          BY <3>2, <4>1, <4>2, <2>1, <2>2, <2>4 DEF TypeOK
    <3>3. CASE y # x /\ y[1] # o
      <4>1. ptr'[y] = ptr[y] /\ ptr[y] \in Obj
          BY <3>3, <2>2 DEF TypeOK
      <4> QED
          BY <3>3, <4>1, <2>1, <2>2 DEF TypeOK, NoDangling, Slot
    <3> QED
        BY <3>1, <3>2, <3>3
  <2>8. Linked'
      BY <2>1, <2>2 DEF Linked, Alive, TypeOK
  <2> QED
      BY <2>2, <2>6, <2>7, <2>8 DEF Walking, Allocating, Quiet, Clearing

<1>3. ASSUME NEW x \in Slot, NEW r \in Ref,
             x[1] # STACK => kind[x[1]] # NULL, r # NULL => kind[r] # NULL,
             Redirect(x, r), pc = "run", UNCHANGED <<kind, pc, cur, new>>,
             \A o \in Obj : list'[o] # UNLINKED => list[o] # UNLINKED \/ o \in Alive
      PROVE  Rest'
  <2>1. RefcountExact' /\ NoDangling'
      BY <1>3, RedirectSafe
  <2>2. Alive' = Alive
      BY <1>3 DEF Alive
  <2> QED
      BY <1>3, <2>1, <2>2 DEF Walking, Allocating, Quiet, Clearing, Linked
<1>4. \A f \in Field : /\ <<STACK, f>> \in Slot
                       /\ ptr[<<STACK, f>>] \in Ref
                       /\ ptr[<<STACK, f>>] # NULL => kind[ptr[<<STACK, f>>]] # NULL
  <2>1. \A f \in Field : <<STACK, f>> \in Slot
      BY DEF Slot
  <2> QED
      BY <2>1 DEF TypeOK, NoDangling
<1>5. ASSUME NEW s \in Field, NEW f \in Field, NEW item \in Operand,
             StoreSubscript(s, f, item)
      PROVE  Rest'
  <2> DEFINE c == ptr[<<STACK, s>>]
  <2>1. c \in Obj /\ kind[c] # NULL /\ <<c, f>> \in Slot
      BY <1>4, <1>5 DEF StoreSubscript, Slot
  <2>2. item \in Ref /\ (item # NULL => kind[item] # NULL)
      BY <1>4, OperandTyped DEF Operand
  <2>3. \A o \in Obj : list'[o] # UNLINKED => list[o] # UNLINKED \/ o \in Alive
      BY <1>5, <2>1 DEF StoreSubscript, Alive, TypeOK
  <2>4. /\ Redirect(<<c, f>>, item)
        /\ pc = "run" /\ UNCHANGED <<kind, pc, cur, new>>
      BY <1>5 DEF StoreSubscript, Running, collector
  <2> HIDE DEF c
  <2> QED
      BY <1>3, <2>1, <2>2, <2>3, <2>4
<1>6. ASSUME NEW s \in Field, NEW t \in Field, Load(s, t)
      PROVE  Rest'
  <2>1. /\ Redirect(<<STACK, t>>, ptr[<<STACK, s>>])
        /\ pc = "run" /\ UNCHANGED <<kind, pc, cur, new, list>>
      BY <1>6 DEF Load, Running, collector
  <2> QED
      BY <1>3, <1>4, <2>1
<1>7. ASSUME NEW s \in Field, NEW f \in Field, BinarySubscript(s, f)
      PROVE  Rest'
  <2> DEFINE c == ptr[<<STACK, s>>]
  <2>1. c \in Obj /\ <<c, f>> \in Slot
      BY <1>4, <1>7 DEF BinarySubscript, Slot
  <2>2. ptr[<<c, f>>] \in Ref /\ (ptr[<<c, f>>] # NULL => kind[ptr[<<c, f>>]] # NULL)
      BY <2>1 DEF TypeOK, NoDangling
  <2>3. kind[c] = "list"
      BY <1>7 DEF BinarySubscript
  <2>4. /\ Redirect(<<STACK, s>>, ptr[<<c, f>>])
        /\ pc = "run" /\ UNCHANGED <<kind, pc, cur, new, list>>
      BY <1>7, <2>3 DEF BinarySubscript, Running, collector
  <2> HIDE DEF c
  <2> QED
      BY <1>3, <1>4, <2>2, <2>4
<1>8. ASSUME NEW s \in Field, Pop(s)
      PROVE  Rest'
  <2>1. /\ Redirect(<<STACK, s>>, NULL)
        /\ pc = "run" /\ UNCHANGED <<kind, pc, cur, new, list>>
      BY <1>8 DEF Pop, Running, collector
  <2> QED
      BY <1>3, <1>4, <2>1
<1>9. CASE GC_Collect
  <2>1. pc = "run" /\ Dying = {} /\ UNCHANGED heap /\ pc' = "update" /\ UNCHANGED new
      BY <1>9 DEF GC_Collect, BeginCollect, Running
  <2>2. RefcountExact' /\ NoDangling' /\ Alive' = Alive /\ Dying' = Dying
      BY <2>1, SameHeap
  <2>3. Linked'
      BY <1>9, <2>2 DEF GC_Collect, BeginCollect, Linked
  <2> QED
      BY <2>1, <2>2, <2>3 DEF Walking, Allocating, Quiet, Clearing, heap
<1> QED
    BY <1>1, <1>2, <1>5, <1>6, <1>7, <1>8, <1>9 DEF Program

\* A step of the collector.
LEMMA CollectCounts ==
    ASSUME Counts, TypeOK', Collect
    PROVE  Rest'
<1> USE HeapAssumption DEF Counts, Rest
<1>1. ASSUME UNCHANGED <<heap, new>>, pc' # "clear", pc' # "run",
             pc \in {"update", "subtract", "move", "delete"},
             \A o \in Obj : list'[o] # UNLINKED => o \in Alive,
             Walking'
      PROVE  Rest'
  <2>1. RefcountExact' /\ NoDangling' /\ Alive' = Alive /\ Dying' = Dying
      BY <1>1, SameHeap
  <2> QED
      BY <1>1, <2>1 DEF Walking, Allocating, Quiet, Clearing, Linked, heap
<1>2. CASE UpdateRefs
    BY <1>1, <1>2 DEF UpdateRefs, Linked, Walking, collector
<1>3. CASE SubtractRefs
    BY <1>1, <1>3 DEF SubtractRefs, Linked, Walking, Young
<1>4. ASSUME NEW o \in Obj, MoveUnreachable(o)
      PROVE  Rest'
  <2>1. UNCHANGED <<heap, new>> /\ pc = "move" /\ o \in todo
      BY <1>4 DEF MoveUnreachable
  <2>2. o \in Alive
      BY <2>1 DEF Linked, Walking, TypeOK
  <2>5. Walking'
      BY <1>4, <2>1 DEF MoveUnreachable, VisitReachable, Walking, TypeOK
  <2>3. CASE gc_refs[o] # 0
    <3>1. \A t \in Referents(o) : t \in Alive
      <4>1. \A f \in Field : <<o, f>> \in Slot
          BY DEF Slot
      <4> QED
          BY <4>1, ReferentsTyped DEF Referents, NoDangling, Alive
    <3>2. \A t \in Obj : list'[t] # UNLINKED => t \in Alive
        BY <1>4, <2>3, <3>1 DEF MoveUnreachable, VisitReachable, Linked
    <3>3. pc' # "clear" /\ pc' # "run"
        BY <1>4, <2>1, <2>3 DEF MoveUnreachable, VisitReachable
    <3> QED
        BY <1>1, <2>1, <2>5, <3>2, <3>3
  <2>4. CASE gc_refs[o] = 0
      BY <1>1, <1>4, <2>1, <2>2, <2>4, <2>5 DEF MoveUnreachable, Linked, TypeOK
  <2> QED
      BY <2>3, <2>4
<1>5. CASE Survive
  <2>1. \A o \in Obj : list'[o] # UNLINKED => list[o] # UNLINKED
      BY <1>5 DEF Survive, Young, TypeOK
  <2> QED
      BY <1>1, <1>5, <2>1 DEF Survive, Linked, Walking
<1>6. ASSUME NEW o \in Obj, DeleteGarbage(o)
      PROVE  Rest'
  <2>1. pc = "delete" /\ o \in Alive /\ UNCHANGED <<ptr, kind, new>>
      BY <1>6 DEF DeleteGarbage, Unreachable, Linked
  <2>2. \A p \in Obj : list'[p] # UNLINKED => p \in Alive
      BY <1>6, <2>1 DEF DeleteGarbage, Linked, TypeOK
  <2>3. CASE pc' # "clear"
    <3>1. UNCHANGED <<heap, new>> /\ pc' \in {"delete", "abort"}
        BY <1>6, <2>1, <2>3 DEF DeleteGarbage, heap
    <3> QED
        BY <1>1, <2>1, <2>2, <2>3, <3>1 DEF Walking
  <2>4. CASE pc' = "clear"
    <3>1. cur' = o /\ refcnt' = Recount(NULL, o)
        BY <1>6, <2>1, <2>4 DEF DeleteGarbage
    <3>2. \A p \in Obj : RefsTo(p)' = RefsTo(p)
        BY <2>1 DEF RefsTo
    <3>3. \A p \in Obj : Held(p) = 0 /\ Held(p)' = IF p = o THEN 1 ELSE 0
        BY <2>1, <2>4, <3>1 DEF Held
    <3>4. \A p \in Obj : refcnt'[p] = refcnt[p] + IF p = o THEN 1 ELSE 0
        BY <3>1 DEF Recount, TypeOK
    <3>5. \A p \in Obj : Cardinality(RefsTo(p)) \in Nat
      <4> TAKE p \in Obj
      <4>1. RefsTo(p) \in SUBSET Slot
          BY DEF RefsTo
      <4> QED
          BY <4>1, SlotsFinite
    <3>6. RefcountExact'
      <4> SUFFICES ASSUME NEW p \in Obj
                   PROVE  refcnt'[p] = Cardinality(RefsTo(p)') + Held(p)'
          BY DEF RefcountExact
      <4>1. refcnt[p] = Cardinality(RefsTo(p)) + Held(p)
          BY <2>1 DEF RefcountExact
      <4>2. Cardinality(RefsTo(p)') = Cardinality(RefsTo(p))
          BY <3>2
      <4> QED
          BY <3>3, <3>4, <3>5, <4>1, <4>2
    <3>7. NoDangling' /\ Alive' = Alive
        BY <2>1 DEF NoDangling, Alive
    <3> QED
        BY <2>1, <2>2, <2>4, <3>1, <3>6, <3>7 DEF Walking, Allocating, Quiet, Clearing, Linked
  <2> QED
      BY <2>3, <2>4
<1>7. ASSUME NEW f \in Field, ClearSlot(f)
      PROVE  Rest'
  <2>1. cur \in Obj /\ kind[cur] # NULL /\ <<cur, f>> \in Slot
      BY <1>7 DEF ClearSlot, Clearing, Alive, Slot
  <2>2. /\ Redirect(<<cur, f>>, NULL)
        /\ pc = "clear" /\ UNCHANGED <<kind, pc, cur, new, list>>
      BY <1>7 DEF ClearSlot, collector
  <2>3. RefcountExact' /\ NoDangling'
      BY <2>1, <2>2, RedirectSafe DEF Ref
  <2>4. Alive' = Alive
      BY <2>2 DEF Alive
  <2>5. Allocating'
    <3>1. \A x \in Slot : ptr[x] = NULL => ptr'[x] = NULL
        BY <2>2 DEF Redirect, TypeOK
    <3>2. new # NULL => <<STACK, new[3]>> \in Slot
        BY DEF TypeOK, Slot
    <3> QED
        BY <2>2, <3>1, <3>2 DEF Allocating
  <2> QED
      BY <2>2, <2>3, <2>4, <2>5 DEF Walking, Quiet, Clearing, Linked
<1>8. CASE Cleared
  <2>1. /\ pc = "clear" /\ pc' = "relink" /\ cur \in Alive
        /\ UNCHANGED <<ptr, kind, new, list>> /\ refcnt' = Recount(cur, NULL)
      BY <1>8 DEF Cleared, Clearing, collector
  <2>2. \A p \in Obj : RefsTo(p)' = RefsTo(p)
      BY <2>1 DEF RefsTo
  <2>3. \A p \in Obj : Held(p)' = 0 /\ Held(p) = IF p = cur THEN 1 ELSE 0
      BY <2>1 DEF Held
  <2>4. \A p \in Obj : refcnt'[p] = refcnt[p] - IF p = cur THEN 1 ELSE 0
      BY <2>1 DEF Recount, TypeOK, Ref
  <2>5. RefcountExact'
    <3> SUFFICES ASSUME NEW p \in Obj
                 PROVE  refcnt'[p] = Cardinality(RefsTo(p)') + Held(p)'
        BY DEF RefcountExact
    <3>1. Cardinality(RefsTo(p)) \in Nat /\ Cardinality(RefsTo(p)') = Cardinality(RefsTo(p))
      <4>1. RefsTo(p) \in SUBSET Slot
          BY DEF RefsTo
      <4> QED
          BY <2>2, <4>1, SlotsFinite
    <3>2. refcnt[p] = Cardinality(RefsTo(p)) + Held(p)
        BY <2>1 DEF RefcountExact
    <3> QED
        BY <2>3, <2>4, <3>1, <3>2
  <2>6. NoDangling' /\ Alive' = Alive
      BY <2>1 DEF NoDangling, Alive
  <2> QED
      BY <2>1, <2>5, <2>6 DEF Walking, Allocating, Quiet, Clearing, Linked
<1>9. CASE Relink
  <2>1. /\ pc = "relink" /\ Dying = {} /\ pc' = "delete" /\ UNCHANGED <<heap, new>>
        /\ \A o \in Obj : list'[o] # UNLINKED => list[o] # UNLINKED
      BY <1>9 DEF Relink, Unreachable, TypeOK
  <2>2. RefcountExact' /\ NoDangling' /\ Alive' = Alive /\ Dying' = Dying
      BY <2>1, SameHeap
  <2> QED
      BY <2>1, <2>2 DEF Walking, Allocating, Quiet, Clearing, Linked, heap
<1>10. CASE EndCollect
  <2>1. /\ pc = "delete" /\ pc' = (IF new = NULL THEN "run" ELSE "init")
        /\ UNCHANGED <<heap, new, list>>
      BY <1>10 DEF EndCollect
  <2>2. RefcountExact' /\ NoDangling' /\ Alive' = Alive /\ Dying' = Dying
      BY <2>1, SameHeap
  <2> QED
      BY <2>1, <2>2 DEF Walking, Allocating, Quiet, Clearing, Linked, heap
<1> QED
    BY <1>2, <1>3, <1>4, <1>5, <1>6, <1>7, <1>8, <1>9, <1>10 DEF Collect

\* A step of a deallocation.
LEMMA ReleaseCounts ==
    ASSUME Counts, TypeOK', NEW o \in Obj, Dealloc(o)
    PROVE  Rest'
<1> USE HeapAssumption DEF Counts, Rest
<1>1. o \in Dying /\ pc \notin {"abort", "wild"} /\ kind[o] # NULL
    BY DEF Dealloc, Dying, Alive
<1>2. pc \in {"run", "clear", "relink"}
    BY <1>1 DEF Quiet, TypeOK, PCs
<1>3. CASE Referents(o) # {}
  <2>1. PICK f \in Field : Redirect(<<o, f>>, NULL)
      BY <1>3 DEF Dealloc
  <2>2. UNCHANGED <<kind, pc, cur, new, list>>
      BY <1>3 DEF Dealloc, collector
  <2>3. <<o, f>> \in Slot
      BY DEF Slot
  <2>4. RefcountExact' /\ NoDangling'
      BY <1>1, <2>1, <2>2, <2>3, RedirectSafe DEF Ref
  <2>5. Alive' = Alive
      BY <2>2 DEF Alive
  <2>6. Allocating'
    <3>1. \A x \in Slot : ptr[x] = NULL => ptr'[x] = NULL
        BY <2>1 DEF Redirect, TypeOK
    <3>2. new # NULL => <<STACK, new[3]>> \in Slot
        BY DEF TypeOK, Slot
    <3> QED
        BY <2>2, <3>1, <3>2 DEF Allocating
  <2> QED
      BY <1>2, <2>2, <2>4, <2>5, <2>6 DEF Walking, Quiet, Clearing, Linked
<1>4. CASE Referents(o) = {}
  <2>1. /\ GC_Free(o)
        /\ UNCHANGED <<ptr, refcnt, collector, new>>
        /\ pc' \in {pc, "wild"}
        /\ kind' = [kind EXCEPT ![o] = NULL]
        /\ list' = [list EXCEPT ![o] = UNLINKED]
      BY <1>4 DEF Dealloc, GC_Free
  <2>2. RefsTo(o) = {} /\ Held(o) = 0
      BY <1>1, DyingUnreferenced
  <2>3. NoDangling'
    <3> SUFFICES ASSUME NEW x \in Slot, ptr[x] # NULL
                 PROVE  kind'[ptr[x]] # NULL /\ (x[1] # STACK => kind'[x[1]] # NULL)
        BY <2>1 DEF NoDangling
    <3>1. ptr[x] # o
        BY <2>2 DEF RefsTo
    <3>2. x[1] # o
      <4>1. ASSUME x[1] = o PROVE FALSE
        <5>1. x[2] \in Field /\ x = <<o, x[2]>>
            BY <4>1 DEF Slot
        <5> QED
            BY <1>4, <5>1 DEF Referents
      <4> QED
          BY <4>1
    <3>3. ptr[x] \in Obj /\ (x[1] # STACK => x[1] \in Obj)
        BY DEF TypeOK, Ref, Slot
    <3> QED
        BY <2>1, <3>1, <3>2, <3>3 DEF NoDangling, TypeOK
  <2>4. RefcountExact'
    <3>1. \A p \in Obj : RefsTo(p)' = RefsTo(p) /\ (pc' # "wild" => Held(p)' = Held(p))
        BY <2>1 DEF RefsTo, Held, collector
    <3> QED
        BY <1>1, <2>1, <3>1 DEF RefcountExact
  <2>5. Alive' = Alive \ {o}
      BY <2>1 DEF Alive, TypeOK
  <2>6. Linked'
      BY <2>1, <2>5 DEF Linked, TypeOK
  <2>7. Clearing'
      BY <2>1, <2>2, <2>5 DEF Clearing, Held, Alive, collector
  <2>8. Allocating'
    <3>1. new # NULL => new[1] \in Obj
        BY DEF TypeOK
    <3> QED
        BY <2>1, <3>1 DEF Allocating, TypeOK
  <2> QED
      BY <1>2, <2>1, <2>3, <2>4, <2>6, <2>7, <2>8 DEF Walking, Quiet
<1> QED
    BY <1>3, <1>4

LEMMA NextCounts ==
    ASSUME "dict" \notin Subscripted, Counts, [Next]_vars
    PROVE  Counts'
<1>1. TypeOK' /\ Pending'
    BY NextTyped DEF Counts
<1>2. Rest'
  <2>1. CASE Program
      BY <1>1, <2>1, ProgramCounts
  <2>2. CASE Collect
      BY <1>1, <2>2, CollectCounts
  <2>3. CASE Release
      BY <1>1, <2>3, ReleaseCounts DEF Release
  <2>4. CASE UNCHANGED vars
      BY <2>4 DEF vars, Counts, Rest, Walking, Allocating, Quiet, Clearing, Linked,
                  RefcountExact, NoDangling, Dying, Alive, RefsTo, Held
  <2> QED
      BY <2>1, <2>2, <2>3, <2>4 DEF Next
<1> QED
    BY <1>1, <1>2 DEF Counts, Rest

\* Types and counts are right at every moment (gc.c, gc.h, object.h).
THEOREM CountsInvariant ==
    ASSUME "dict" \notin Subscripted
    PROVE  Spec => []Counts
BY InitCounts, NextCounts, PTL DEF Spec

\* Reference counts are exact whatever the program, the thresholds and the types in
\* use, as long as dicts are not read with the subscript operator (dictobject.c:133
\* returns a reference without counting it).
THEOREM CountsExact ==
    ASSUME "dict" \notin Subscripted
    PROVE  Spec => []RefcountExact
<1>1. Counts => RefcountExact
    BY DEF Counts
<1> QED
    BY <1>1, CountsInvariant, PTL

\* No reference leads to a freed block.
THEOREM NothingDangles ==
    ASSUME "dict" \notin Subscripted
    PROVE  Spec => []NoDangling
<1>1. Counts => NoDangling
    BY DEF Counts
<1> QED
    BY <1>1, CountsInvariant, PTL

\* An object is freed only when nothing refers to it, so it is out of the program's
\* reach: the set of all other objects is closed.
LEMMA FreedUnreachable ==
    ASSUME Counts, [Next]_vars, NEW o \in Obj, kind[o] # NULL, kind'[o] = NULL
    PROVE  o \notin Live(ptr)
<1> USE HeapAssumption DEF Counts
<1>1. Dealloc(o) \/ kind'[o] = kind[o] \/ \E operands \in [Field -> Operand] : InitObject(operands)
  <2>1. CASE Program
      BY <2>1 DEF Program, GC_Malloc, StoreSubscript, Load, BinarySubscript, Pop, GC_Collect, heap
  <2>2. CASE Collect
      BY <2>2 DEF Collect, UpdateRefs, SubtractRefs, MoveUnreachable, Survive, DeleteGarbage,
                  ClearSlot, Cleared, Relink, EndCollect, heap
  <2>3. ASSUME NEW p \in Obj, Dealloc(p)
        PROVE  Dealloc(o) \/ kind'[o] = kind[o]
      BY <2>3 DEF Dealloc, GC_Free, TypeOK
  <2>4. CASE UNCHANGED vars
      BY <2>4 DEF vars
  <2> QED
      BY <2>1, <2>2, <2>3, <2>4 DEF Next, Release
<1>2. ASSUME NEW operands \in [Field -> Operand], InitObject(operands)
      PROVE  FALSE
    BY <1>2, KindsAssumption DEF InitObject, TypeOK, Pending
<1>3. o \in Dying /\ pc # "wild"
    BY <1>1, <1>2 DEF Dealloc
<1>4. RefsTo(o) = {}
    BY <1>3, DyingUnreferenced
<1>5. Closed(ptr, Obj \ {o})
  <2>1. \A x \in ({STACK} \cup (Obj \ {o})) \X Field : x \in Slot
      BY DEF Slot
  <2> QED
      BY <1>4, <2>1 DEF Closed, RefsTo, TypeOK, Ref
<1>6. Obj \ {o} \in SUBSET Obj
    OBVIOUS
<1> QED
    BY <1>5, <1>6, Zenon DEF Live

\* No step, of a collection or of a deallocation, frees what the program can reach.
THEOREM LiveNeverFreed ==
    ASSUME "dict" \notin Subscripted
    PROVE  Spec => NeverFreesLive
<1>1. Counts /\ [Next]_vars =>
        [\A o \in Obj : kind[o] # NULL /\ kind'[o] = NULL => o \notin Live(ptr)]_vars
    BY FreedUnreachable
<1> QED
    BY <1>1, CountsInvariant, PTL DEF Spec, NeverFreesLive

-----------------------------------------------------------------------------
(* The collector.  What subtract_refs leaves in gc_refs is the number of references *)
(* from outside young, so an object with none there is referred to from young only; *)
(* the walk keeps that true of what it has set aside and what it has yet to visit.  *)

\* No list but a collection's own holds garbage.
NoneAside == pc \in {"run", "init", "update", "subtract"} => Unreachable = {}

CountsCopied == pc = "subtract" => \A o \in Young : gc_refs[o] = refcnt[o]

\* Of the objects that are not known to be reachable, every referrer is in sight.
Enclosed ==
    pc = "move" =>
        /\ \A o \in todo : gc_refs[o] >= 0
        /\ \A o \in Unreachable : gc_refs[o] = TENTATIVELY_UNREACHABLE
        /\ \A o \in todo : gc_refs[o] = 0 => \A x \in RefsTo(o) : x[1] \in Unreachable \cup todo

Collecting ==
    /\ NoneAside
    /\ CountsCopied
    /\ Enclosed
    /\ WalkInvariant
    /\ GarbageClosed

LEMMA InitCollecting == Init => Collecting
BY DEF Init, Collecting, NoneAside, CountsCopied, Enclosed, WalkInvariant, GarbageClosed,
       Unreachable, UNLINKED, UNREACHABLE

\* subtract_refs leaves the number of references from outside young.
LEMMA SubtractExternal ==
    ASSUME Counts, CountsCopied, SubtractRefs, NEW o \in Young
    PROVE  /\ gc_refs'[o] \in Nat
           /\ gc_refs'[o] = 0 => \A x \in RefsTo(o) : x[1] \in Young
           /\ gc_refs'[o] # 0 => \E x \in RefsTo(o) : x[1] \notin Young
<1> USE DEF Counts
<1>1. o \in Obj /\ pc = "subtract"
    BY DEF Young, SubtractRefs
<1>2. refcnt[o] = Cardinality(RefsTo(o))
  <2>1. Cardinality(RefsTo(o)) \in Nat
    <3>1. RefsTo(o) \in SUBSET Slot
        BY DEF RefsTo
    <3> QED
        BY <3>1, SlotsFinite
  <2>2. Held(o) = 0
      BY <1>1 DEF Held
  <2> QED
      BY <1>1, <2>1, <2>2 DEF RefcountExact
<1>3. Internal(o) \in SUBSET RefsTo(o) /\ RefsTo(o) \in SUBSET Slot
    BY DEF Internal, RefsTo, Young, Slot
<1>4. /\ IsFiniteSet(RefsTo(o)) /\ Cardinality(RefsTo(o)) \in Nat
      /\ Cardinality(Internal(o)) \in Nat
      /\ Cardinality(Internal(o)) <= Cardinality(RefsTo(o))
      /\ Cardinality(RefsTo(o)) = Cardinality(Internal(o)) => RefsTo(o) = Internal(o)
  <2>1. IsFiniteSet(RefsTo(o)) /\ Cardinality(RefsTo(o)) \in Nat
      BY <1>3, SlotsFinite
  <2>2. Internal(o) \in SUBSET Slot
      BY <1>3
  <2>3. Cardinality(Internal(o)) \in Nat
      BY <2>2, SlotsFinite
  <2> QED
      BY <1>3, <2>1, <2>3, FS_Subset
<1>5. gc_refs'[o] = Cardinality(RefsTo(o)) - Cardinality(Internal(o))
  <2>1. gc_refs[o] = Cardinality(RefsTo(o))
      BY <1>1, <1>2 DEF CountsCopied
  <2> QED
      BY <1>1, <1>4, <2>1 DEF SubtractRefs, LOWEST
<1>6. \A x \in Internal(o) : x[1] \in Young
    BY DEF Internal
<1>7. \A x \in RefsTo(o) : x[1] \in Young => x \in Internal(o)
    BY DEF Internal, RefsTo, Slot
<1>8. gc_refs'[o] # 0 => RefsTo(o) # Internal(o)
    BY <1>4, <1>5
<1> QED
    BY <1>3, <1>4, <1>5, <1>6, <1>7, <1>8

\* One step of the walk.
LEMMA WalkStep ==
    ASSUME Counts, Collecting, NEW o \in Obj, MoveUnreachable(o), pc' = "move"
    PROVE  Enclosed' /\ WalkInvariant'
<1> USE HeapAssumption DEF Counts, Collecting
<1>1. /\ pc = "move" /\ o \in todo /\ UNCHANGED <<heap, gen>>
      /\ list[o] = gen /\ o \notin Unreachable /\ gc_refs[o] >= 0 /\ gen \in GENERATIONS
    BY DEF MoveUnreachable, Walking, Enclosed, Unreachable, TypeOK
<1>2. \A p \in Obj : RefsTo(p)' = RefsTo(p) /\ Referents(p)' = Referents(p)
    BY <1>1 DEF RefsTo, Referents, heap
<1>3. \A p, t \in Obj : t \in Referents(p) <=> \E x \in RefsTo(t) : x[1] = p
  <2> SUFFICES ASSUME NEW p \in Obj, NEW t \in Obj
               PROVE  t \in Referents(p) <=> \E x \in RefsTo(t) : x[1] = p
      OBVIOUS
  <2>1. ASSUME t \in Referents(p) PROVE \E x \in RefsTo(t) : x[1] = p
    <3>1. PICK f \in Field : t = ptr[<<p, f>>]
        BY <2>1 DEF Referents
    <3>2. <<p, f>> \in Slot
        BY DEF Slot
    <3> QED
        BY <3>1, <3>2 DEF RefsTo
  <2>2. ASSUME NEW x \in RefsTo(t), x[1] = p PROVE t \in Referents(p)
    <3>1. x[2] \in Field /\ x = <<p, x[2]>> /\ ptr[x] = t
        BY <2>2 DEF RefsTo, Slot
    <3> QED
        BY <3>1 DEF Referents
  <2> QED
      BY <2>1, <2>2
<1>4. CASE gc_refs[o] # 0
  <2> DEFINE back == {t \in Referents(o) : t # o /\ gc_refs[t] = TENTATIVELY_UNREACHABLE}
  <2>1. /\ todo' = (todo \ {o}) \cup back
        /\ \A t \in Obj : list'[t] = IF t \in back THEN gen ELSE list[t]
        /\ \A t \in Obj : gc_refs'[t] =
              IF t = o THEN REACHABLE
              ELSE IF t \in Referents(o) /\ gc_refs[t] \in {0, TENTATIVELY_UNREACHABLE} THEN 1
              ELSE gc_refs[t]
    <3>1. VisitReachable(o) /\ pc' # "abort"
        BY <1>4 DEF MoveUnreachable
    <3>2. \A t \in Obj : [gc_refs EXCEPT ![o] = REACHABLE][t] =
                            IF t = o THEN REACHABLE ELSE gc_refs[t]
        BY DEF TypeOK
    <3>3. Referents(o) \subseteq Obj
        BY ReferentsTyped
    <3> QED
        BY <3>1, <3>2, <3>3 DEF VisitReachable, REACHABLE, TENTATIVELY_UNREACHABLE
  <2>2. back \subseteq Obj
      BY ReferentsTyped
  <2>3. Unreachable' = Unreachable \ back
      BY <1>1, <2>1, <2>2 DEF Unreachable
  <2>4. Young' = Young \cup back
      BY <1>1, <2>1, <2>2 DEF Young
  <2>5. \A t \in Unreachable' : t \notin Referents(o) /\ t # o
      BY <1>1, <2>3 DEF Enclosed
  <2>6. \A t \in todo' : gc_refs'[t] = 0 =>
            t \in todo /\ gc_refs[t] = 0 /\ t \notin Referents(o) /\ t # o
      BY <1>1, <2>1, <2>2 DEF Enclosed, TypeOK, TENTATIVELY_UNREACHABLE
  <2>7. \A p : p \in Unreachable \cup todo /\ p # o => p \in Unreachable' \cup todo'
      BY <2>1, <2>3
  <2> HIDE DEF back
  <2>8. \A t \in Unreachable' : \A x \in RefsTo(t) : x[1] \in Unreachable' \cup todo'
      BY <1>1, <1>3, <2>3, <2>5, <2>7 DEF WalkInvariant, Unreachable
  <2>9. \A t \in todo' : gc_refs'[t] = 0 =>
            \A x \in RefsTo(t) : x[1] \in Unreachable' \cup todo'
      BY <1>1, <1>3, <2>6, <2>7 DEF Enclosed, TypeOK
  <2>10. \A t \in Unreachable' : gc_refs'[t] = TENTATIVELY_UNREACHABLE
      BY <1>1, <2>1, <2>3, <2>5 DEF Enclosed, Unreachable
  <2>11. \A t \in todo' : gc_refs'[t] >= 0
      BY <1>1, <2>1, <2>2 DEF Enclosed, TypeOK, back
  <2>12. Enclosed'
    <3>1. todo' \subseteq Obj
        BY <2>1, <2>2 DEF TypeOK
    <3>2. \A t \in todo' : RefsTo(t)' = RefsTo(t)
        BY <1>2, <3>1
    <3> QED
        BY <2>9, <2>10, <2>11, <3>2 DEF Enclosed
  <2>13. \A p \in Young' \ todo' :
            /\ gc_refs'[p] = REACHABLE
            /\ \A t \in Referents(p) \cap todo' : gc_refs'[t] > 0
    <3> SUFFICES ASSUME NEW p \in Young' \ todo'
                 PROVE  /\ gc_refs'[p] = REACHABLE
                        /\ \A t \in Referents(p) \cap todo' : gc_refs'[t] > 0
        OBVIOUS
    <3>1. p = o \/ p \in Young \ todo
        BY <2>1, <2>4
    <3>2. p \in Obj
        BY DEF Young
    <3>3. CASE p = o
      <4>1. gc_refs'[p] = REACHABLE
          BY <2>1, <3>2, <3>3
      <4>2. \A t \in Referents(p) \cap todo' : gc_refs'[t] \in Int /\ gc_refs'[t] >= 0 /\ gc_refs'[t] # 0
        <5>1. todo' \subseteq Obj /\ gc_refs \in [Obj -> Int]
            BY <2>1, <2>2 DEF TypeOK
        <5>2. \A t \in todo' : gc_refs'[t] \in Int
            BY <2>1, <5>1 DEF REACHABLE
        <5> QED
            BY <2>6, <2>11, <3>3, <5>2
      <4> QED
          BY <4>1, <4>2
    <3>4. CASE p \in Young \ todo
      <4>1. p # o /\ gc_refs[p] = REACHABLE
          BY <1>1, <3>4 DEF WalkInvariant
      <4>2. gc_refs'[p] = REACHABLE
          BY <2>1, <3>2, <4>1 DEF REACHABLE, TENTATIVELY_UNREACHABLE
      <4>3. \A t \in Referents(p) \cap todo : gc_refs[t] > 0
          BY <1>1, <3>4 DEF WalkInvariant
      <4>4. \A t \in Referents(p) \cap todo' : gc_refs'[t] # 0
          BY <2>6, <4>3
      <4>5. \A t \in todo' : gc_refs'[t] \in Int
        <5>1. todo' \subseteq Obj /\ gc_refs \in [Obj -> Int]
            BY <2>1, <2>2 DEF TypeOK
        <5> QED
            BY <2>1, <5>1 DEF REACHABLE
      <4> QED
          BY <2>11, <4>2, <4>4, <4>5
    <3> QED
        BY <3>1, <3>3, <3>4
  <2>14. WalkInvariant'
      BY <1>2, <2>8, <2>13 DEF WalkInvariant, Unreachable, Young
  <2> QED
      BY <2>12, <2>14
<1>5. CASE gc_refs[o] = 0
  <2>1. /\ todo' = todo \ {o}
        /\ \A t \in Obj : list'[t] = IF t = o THEN UNREACHABLE ELSE list[t]
        /\ \A t \in Obj : gc_refs'[t] = IF t = o THEN TENTATIVELY_UNREACHABLE ELSE gc_refs[t]
      BY <1>5 DEF MoveUnreachable, TypeOK
  <2>2. Unreachable' = Unreachable \cup {o}
      BY <2>1 DEF Unreachable
  <2>3. Young' = Young \ {o}
      BY <1>1, <2>1 DEF Young
  <2>4. Unreachable' \cup todo' = Unreachable \cup todo
      BY <1>1, <2>1, <2>2
  <2>5. Enclosed'
      BY <1>1, <1>2, <2>1, <2>2, <2>4 DEF Enclosed, TypeOK, Unreachable
  <2>6. \A t \in Unreachable' : \A x \in RefsTo(t) : x[1] \in Unreachable' \cup todo'
      BY <1>1, <1>5, <2>2, <2>4 DEF Enclosed, WalkInvariant
  <2>7. \A p \in Young' \ todo' :
            /\ gc_refs'[p] = REACHABLE
            /\ \A t \in Referents(p) \cap todo' : gc_refs'[t] > 0
      BY <1>1, <2>1, <2>3 DEF WalkInvariant, Young, TypeOK
  <2> QED
      BY <1>2, <2>5, <2>6, <2>7 DEF WalkInvariant, Unreachable, Young
<1> QED
    BY <1>4, <1>5

LEMMA NextCollecting ==
    ASSUME Counts, Collecting, [Next]_vars
    PROVE  Collecting'
<1> USE HeapAssumption DEF Counts, Collecting
<1>1. CASE Program
  <2>1. pc \in {"run", "init"} /\ pc' \in {"run", "init", "update"}
      BY <1>1 DEF Program, GC_Malloc, BeginCollect, InitObject, StoreSubscript, Load,
                  BinarySubscript, Pop, GC_Collect, Running
  <2>2. \A o \in Obj : list[o] # UNREACHABLE
      BY <2>1 DEF NoneAside, Unreachable
  <2>3. \A o \in Obj : list'[o] # UNREACHABLE
    <3> USE <2>2 DEF UNREACHABLE
    <3>1. ASSUME NEW g \in GENERATIONS, NEW c, BeginCollect(g, c)
          PROVE  \A o \in Obj : list'[o] # UNREACHABLE
        BY <3>1 DEF BeginCollect, GENERATIONS
    <3>2. CASE \E o \in Obj, k \in Kinds, s \in Field, err \in BOOLEAN : GC_Malloc(o, k, s, err)
        BY <3>1, <3>2 DEF GC_Malloc
    <3>3. CASE \E operands \in [Field -> Operand] : InitObject(operands)
        BY <3>3 DEF InitObject, TypeOK
    <3>4. CASE \E s, f \in Field, item \in Operand : StoreSubscript(s, f, item)
        BY <3>4 DEF StoreSubscript, TypeOK
    <3>5. CASE UNCHANGED list
        BY <3>5
    <3>6. CASE GC_Collect
        BY <3>1, <3>6 DEF GC_Collect, GENERATIONS
    <3> QED
        BY <1>1, <3>2, <3>3, <3>4, <3>5, <3>6 DEF Program, Load, BinarySubscript, Pop
  <2> QED
      BY <2>1, <2>3 DEF NoneAside, CountsCopied, Enclosed, WalkInvariant, GarbageClosed,
                        Unreachable
<1>2. CASE UpdateRefs
  <2>1. pc = "update" /\ pc' \in {"subtract", "abort"} /\ UNCHANGED <<heap, list, gen>>
      BY <1>2 DEF UpdateRefs, collector
  <2>2. CountsCopied'
      BY <1>2, <2>1 DEF UpdateRefs, CountsCopied, Young, heap
  <2> QED
      BY <2>1, <2>2 DEF NoneAside, Enclosed, WalkInvariant, GarbageClosed, Unreachable
<1>3. CASE SubtractRefs
  <2>1. /\ pc = "subtract" /\ pc' = "move" /\ todo' = Young
        /\ UNCHANGED <<heap, list, gen>> /\ Unreachable' = {} /\ Young' = Young
      BY <1>3 DEF SubtractRefs, NoneAside, Unreachable, Young
  <2>2. \A o \in Young : /\ gc_refs'[o] \in Nat
                         /\ gc_refs'[o] = 0 => \A x \in RefsTo(o) : x[1] \in Young
      BY <1>3, SubtractExternal
  <2>3. \A o \in Young : RefsTo(o)' = RefsTo(o)
      BY <2>1 DEF RefsTo, heap
  <2>4. Enclosed'
      BY <2>1, <2>2, <2>3 DEF Enclosed
  <2> QED
      BY <2>1, <2>4 DEF NoneAside, CountsCopied, WalkInvariant, GarbageClosed
<1>4. ASSUME NEW o \in Obj, MoveUnreachable(o)
      PROVE  Collecting'
  <2>1. pc = "move" /\ pc' \in {"move", "abort", "wild"}
      BY <1>4 DEF MoveUnreachable, VisitReachable
  <2>2. CASE pc' = "move"
      BY <1>4, <2>1, <2>2, WalkStep DEF NoneAside, CountsCopied, GarbageClosed
  <2>3. CASE pc' # "move"
      BY <2>1, <2>3 DEF NoneAside, CountsCopied, Enclosed, WalkInvariant, GarbageClosed
  <2> QED
      BY <2>2, <2>3
<1>5. CASE Survive
  <2>1. pc = "move" /\ pc' = "delete" /\ todo = {} /\ garbage' = Unreachable /\ ptr' = ptr
      BY <1>5 DEF Survive, heap
  <2>2. GarbageClosed'
      BY <2>1 DEF GarbageClosed, WalkInvariant, RefsTo, Unreachable
  <2> QED
      BY <2>1, <2>2 DEF NoneAside, CountsCopied, Enclosed, WalkInvariant
<1>6. ASSUME pc \in {"delete", "clear", "relink"}, UNCHANGED garbage,
             pc' \in {"delete", "clear", "relink", "abort", "wild"},
             \A x \in Slot : ptr'[x] \in {ptr[x], NULL}
      PROVE  Collecting'
  <2>1. NULL \notin garbage
      BY DEF TypeOK
  <2> QED
      BY <1>6, <2>1 DEF NoneAside, CountsCopied, Enclosed, WalkInvariant, GarbageClosed
<1>7. ASSUME NEW o \in Obj, DeleteGarbage(o)
      PROVE  Collecting'
    BY <1>6, <1>7 DEF DeleteGarbage
<1>8. ASSUME NEW f \in Field, ClearSlot(f)
      PROVE  Collecting'
    BY <1>6, <1>8 DEF ClearSlot, Redirect, TypeOK, collector
<1>9. CASE Cleared
    BY <1>6, <1>9 DEF Cleared, collector
<1>10. CASE Relink
    BY <1>6, <1>10 DEF Relink, heap
<1>11. CASE EndCollect
    BY <1>11 DEF EndCollect, NoneAside, CountsCopied, Enclosed, WalkInvariant, GarbageClosed,
                 Unreachable
<1>12. ASSUME NEW o \in Obj, Dealloc(o)
       PROVE  Collecting'
  <2>1. /\ pc \in {"run", "clear", "relink"} /\ pc' \in {pc, "wild"}
        /\ UNCHANGED garbage
        /\ \A p \in Obj : list'[p] # UNREACHABLE \/ list'[p] = list[p]
    <3>1. o \in Dying
        BY <1>12 DEF Dealloc
    <3> QED
        BY <1>12, <3>1 DEF Dealloc, GC_Free, Quiet, TypeOK, PCs, collector
  <2>2. \A x \in Slot : ptr'[x] \in {ptr[x], NULL}
      BY <1>12 DEF Dealloc, Redirect, GC_Free, TypeOK
  <2>3. CASE pc = "run"
      BY <2>1, <2>3 DEF NoneAside, CountsCopied, Enclosed, WalkInvariant, GarbageClosed,
                        Unreachable
  <2>4. CASE pc # "run"
      BY <1>6, <2>1, <2>2, <2>4
  <2> QED
      BY <2>3, <2>4
<1>13. CASE UNCHANGED vars
    BY <1>13 DEF vars, NoneAside, CountsCopied, Enclosed, WalkInvariant, GarbageClosed,
                 Unreachable, Young, RefsTo, Referents
<1> QED
    BY <1>1, <1>2, <1>3, <1>4, <1>5, <1>7, <1>8, <1>9, <1>10, <1>11, <1>12, <1>13
    DEF Next, Collect, Release

\* So is what the walk of move_unreachable has done so far.
THEOREM CollectingInvariant ==
    ASSUME "dict" \notin Subscripted
    PROVE  Spec => []Collecting
<1>1. Counts /\ Collecting /\ [Next]_vars => Collecting'
    BY NextCollecting
<1> QED
    BY <1>1, InitCollecting, CountsInvariant, PTL DEF Spec

\* move_unreachable keeps the loop invariant its comment states (gc.c:222-233).
THEOREM WalkCorrect ==
    ASSUME "dict" \notin Subscripted
    PROVE  Spec => []WalkInvariant
<1>1. Collecting => WalkInvariant
    BY DEF Collecting
<1> QED
    BY <1>1, CollectingInvariant, PTL

\* Nothing but garbage refers to what delete_garbage clears, in every collection of
\* every generation.
THEOREM GarbageIsClosed ==
    ASSUME "dict" \notin Subscripted
    PROVE  Spec => []GarbageClosed
<1>1. Collecting => GarbageClosed
    BY DEF Collecting
<1> QED
    BY <1>1, CollectingInvariant, PTL

-----------------------------------------------------------------------------
(* What can be reached in a heap *)

\* Live is the least closed set.
LEMMA LiveLeast ==
    ASSUME NEW h \in [Slot -> Ref]
    PROVE  /\ Live(h) \in SUBSET Obj
           /\ Closed(h, Live(h))
           /\ \A S \in SUBSET Obj : Closed(h, S) => Live(h) \subseteq S
<1>1. Live(h) \in SUBSET Obj /\ \A S \in SUBSET Obj : Closed(h, S) => Live(h) \subseteq S
    BY DEF Live
<1>2. ASSUME NEW x \in ({STACK} \cup Live(h)) \X Field, h[x] # NULL
      PROVE  h[x] \in Live(h)
  <2>1. h[x] \in Obj
      BY <1>1, <1>2 DEF Slot, Ref
  <2>2. ASSUME NEW S \in SUBSET Obj, Closed(h, S)
        PROVE  h[x] \in S
    <3>1. x \in ({STACK} \cup S) \X Field
        BY <1>1, <2>2
    <3> QED
        BY <1>2, <2>2, <3>1 DEF Closed
  <2> QED
      BY <2>1, <2>2 DEF Live
<1> QED
    BY <1>1, <1>2 DEF Closed

\* Heaps that agree on a closed set look the same to the program.
LEMMA SameView ==
    ASSUME NEW p \in [Slot -> Ref], NEW q \in [Slot -> Ref], NEW L \in SUBSET Obj,
           Closed(p, L), \A x \in ({STACK} \cup L) \X Field : q[x] = p[x]
    PROVE  Live(q) = Live(p) /\ Visible(q) = Visible(p) /\ Live(p) \subseteq L
<1>1. Live(p) \subseteq L /\ Closed(p, Live(p)) /\ Live(p) \in SUBSET Obj
    BY LiveLeast
<1>2. Closed(q, L)
    BY DEF Closed
<1>3. Live(q) \subseteq L /\ Closed(q, Live(q)) /\ Live(q) \in SUBSET Obj
    BY <1>2, LiveLeast
<1>4. Closed(q, Live(p)) /\ Closed(p, Live(q))
    BY <1>1, <1>3 DEF Closed
<1>5. Live(q) = Live(p)
    BY <1>1, <1>3, <1>4, LiveLeast
<1>6. ASSUME NEW x \in Slot, x[1] \in {STACK} \cup Live(p)
      PROVE  q[x] = p[x]
  <2>1. x \in ({STACK} \cup L) \X Field
      BY <1>1, <1>6 DEF Slot
  <2> QED
      BY <2>1
<1> QED
    BY <1>1, <1>5, <1>6 DEF Visible

\* The part the program can see is a heap of its own.
LEMMA VisibleHeap ==
    ASSUME NEW h \in [Slot -> Ref]
    PROVE  /\ Visible(h) \in [Slot -> Ref]
           /\ \A x \in ({STACK} \cup Live(h)) \X Field : Visible(h)[x] = h[x]
           /\ Live(Visible(h)) = Live(h)
           /\ Visible(Visible(h)) = Visible(h)
<1>1. Visible(h) \in [Slot -> Ref]
    BY DEF Visible, Ref
<1>2. \A x \in ({STACK} \cup Live(h)) \X Field : Visible(h)[x] = h[x]
  <2>1. Live(h) \in SUBSET Obj
      BY LiveLeast
  <2> QED
      BY <2>1 DEF Visible, Slot
<1> QED
    BY <1>1, <1>2, LiveLeast, SameView

\* Writing what the program has at hand into a slot it can see.
LEMMA VisibleWrite ==
    ASSUME NEW h \in [Slot -> Ref], NEW x \in Slot, x[1] \in {STACK} \cup Live(h),
           NEW r \in Live(h) \cup {NULL}
    PROVE  Visible([h EXCEPT ![x] = r]) = Visible([Visible(h) EXCEPT ![x] = r])
<1> DEFINE p == [h EXCEPT ![x] = r]
           q == [Visible(h) EXCEPT ![x] = r]
<1>1. Live(h) \in SUBSET Obj /\ Closed(h, Live(h))
    BY LiveLeast
<1>2. p \in [Slot -> Ref] /\ q \in [Slot -> Ref]
    BY <1>1, VisibleHeap DEF Ref
<1>3. \A y \in ({STACK} \cup Live(h)) \X Field : y \in Slot
    BY <1>1 DEF Slot
<1>4. Closed(p, Live(h))
    BY <1>1, <1>3 DEF Closed
<1>5. \A y \in ({STACK} \cup Live(h)) \X Field : q[y] = p[y]
    BY <1>3, VisibleHeap, <1>2
<1> QED
  <2> HIDE DEF p, q
  <2>1. Visible(q) = Visible(p)
      BY <1>1, <1>2, <1>4, <1>5, SameView
  <2> QED
      BY <2>1 DEF p, q

\* Dropping a reference the program cannot see.
LEMMA InvisibleWrite ==
    ASSUME NEW h \in [Slot -> Ref], NEW x \in Slot, x[1] \notin {STACK} \cup Live(h)
    PROVE  /\ Live([h EXCEPT ![x] = NULL]) = Live(h)
           /\ Visible([h EXCEPT ![x] = NULL]) = Visible(h)
<1> DEFINE q == [h EXCEPT ![x] = NULL]
<1>1. q \in [Slot -> Ref]
    BY DEF Ref
<1>2. \A y \in ({STACK} \cup Live(h)) \X Field : q[y] = h[y]
  <2>1. \A y \in ({STACK} \cup Live(h)) \X Field : y \in Slot /\ y # x
      BY LiveLeast DEF Slot
  <2> QED
      BY <2>1
<1> HIDE DEF q
<1>3. Live(h) \in SUBSET Obj /\ Closed(h, Live(h))
    BY LiveLeast
<1>4. Live(q) = Live(h) /\ Visible(q) = Visible(h)
    BY <1>1, <1>2, <1>3, SameView
<1> QED
    BY <1>4 DEF q

-----------------------------------------------------------------------------
(* What the program cannot see *)

\* What is to be deleted is found in garbage.
Owned ==
    /\ pc \in {"delete", "clear", "relink"} => Unreachable \subseteq garbage
    /\ pc \in {"clear", "relink"} => cur \in garbage

LEMMA InitOwned == Init => Owned
BY DEF Init, Owned

LEMMA NextOwned ==
    ASSUME TypeOK, Owned, [Next]_vars
    PROVE  Owned'
<1> USE DEF Owned, Unreachable
<1>1. CASE Program
    BY <1>1 DEF Program, GC_Malloc, BeginCollect, InitObject, StoreSubscript, Load,
                BinarySubscript, Pop, GC_Collect, Running
<1>2. CASE Collect
  <2>1. CASE UpdateRefs \/ SubtractRefs \/ Survive \/ EndCollect
      BY <2>1 DEF UpdateRefs, SubtractRefs, Survive, EndCollect, collector, Young, TypeOK, Old
  <2>2. ASSUME NEW o \in Obj, MoveUnreachable(o)
        PROVE  Owned'
      BY <2>2 DEF MoveUnreachable, VisitReachable
  <2>3. ASSUME NEW o \in Obj, DeleteGarbage(o)
        PROVE  Owned'
      BY <2>3 DEF DeleteGarbage, TypeOK, Old
  <2>4. CASE Cleared \/ \E f \in Field : ClearSlot(f)
      BY <2>4 DEF Cleared, ClearSlot, collector
  <2>5. CASE Relink
      BY <2>5 DEF Relink, TypeOK, Old
  <2> QED
      BY <1>2, <2>1, <2>2, <2>3, <2>4, <2>5 DEF Collect
<1>3. ASSUME NEW o \in Obj, Dealloc(o)
      PROVE  Owned'
    BY <1>3 DEF Dealloc, GC_Free, collector, TypeOK
<1>4. CASE UNCHANGED vars
    BY <1>4 DEF vars
<1> QED
    BY <1>1, <1>2, <1>3, <1>4 DEF Next, Release

\* Nothing the program can reach is garbage.
LEMMA GarbageInvisible ==
    ASSUME TypeOK, GarbageClosed, pc \in {"delete", "clear", "relink"}
    PROVE  Live(ptr) \cap garbage = {}
<1>1. Obj \ garbage \in SUBSET Obj
    OBVIOUS
<1>2. Closed(ptr, Obj \ garbage)
  <2>1. ASSUME NEW x \in ({STACK} \cup (Obj \ garbage)) \X Field
        PROVE  ptr[x] \in (Obj \ garbage) \cup {NULL}
    <3>1. x \in Slot /\ x[1] \notin garbage
        BY HeapAssumption DEF Slot, TypeOK
    <3> QED
        BY <3>1 DEF GarbageClosed, TypeOK, Ref
  <2> QED
      BY <2>1 DEF Closed
<1> QED
    BY <1>1, <1>2, LiveLeast DEF TypeOK

\* Nothing the program can reach is being deallocated.
LEMMA DyingInvisible ==
    ASSUME Counts, NEW o \in Dying, pc # "wild"
    PROVE  o \notin Live(ptr)
<1>1. RefsTo(o) = {} /\ o \in Obj
    BY DyingUnreferenced DEF Counts, Dying, Alive
<1>2. Closed(ptr, Obj \ {o})
  <2>1. \A x \in ({STACK} \cup (Obj \ {o})) \X Field : x \in Slot
      BY DEF Slot
  <2> QED
      BY <1>1, <2>1 DEF Closed, RefsTo, Counts, TypeOK, Ref
<1>3. Obj \ {o} \in SUBSET Obj
    OBVIOUS
<1> QED
    BY <1>2, <1>3, LiveLeast DEF Counts, TypeOK

Hidden == Counts /\ Collecting /\ Owned

\* The collector and the deallocations leave what the program sees as it is.
LEMMA CollectorInvisible ==
    ASSUME Hidden, Collect \/ Release
    PROVE  Live(ptr') = Live(ptr) /\ Visible(ptr') = Visible(ptr)
<1> USE DEF Hidden
<1>1. TypeOK /\ GarbageClosed
    BY DEF Counts, Collecting
<1>2. ASSUME NEW x \in Slot, x[1] \notin {STACK} \cup Live(ptr), ptr' = [ptr EXCEPT ![x] = NULL]
      PROVE  Live(ptr') = Live(ptr) /\ Visible(ptr') = Visible(ptr)
    BY <1>1, <1>2, InvisibleWrite DEF TypeOK
<1>3. ASSUME NEW f \in Field, ClearSlot(f)
      PROVE  Live(ptr') = Live(ptr) /\ Visible(ptr') = Visible(ptr)
  <2>1. cur \in garbage /\ cur \in Obj /\ pc = "clear"
      BY <1>1, <1>3 DEF ClearSlot, Owned, TypeOK
  <2>2. <<cur, f>> \in Slot /\ cur \notin {STACK} \cup Live(ptr)
      BY <1>1, <2>1, GarbageInvisible, HeapAssumption DEF Slot
  <2>3. ptr' = [ptr EXCEPT ![<<cur, f>>] = NULL]
      BY <1>3 DEF ClearSlot, Redirect
  <2> QED
      BY <1>2, <2>2, <2>3
<1>4. ASSUME NEW o \in Obj, Dealloc(o)
      PROVE  Live(ptr') = Live(ptr) /\ Visible(ptr') = Visible(ptr)
  <2>1. CASE Referents(o) = {}
      BY <1>4, <2>1 DEF Dealloc
  <2>2. CASE Referents(o) # {}
    <3>1. PICK f \in Field : ptr' = [ptr EXCEPT ![<<o, f>>] = NULL]
        BY <1>4, <2>2 DEF Dealloc, Redirect
    <3>2. <<o, f>> \in Slot /\ o \notin {STACK} \cup Live(ptr)
        BY <1>4, DyingInvisible, HeapAssumption DEF Slot, Dealloc
    <3> QED
        BY <1>2, <3>1, <3>2
  <2> QED
      BY <2>1, <2>2
<1>5. CASE UNCHANGED ptr
    BY <1>5
<1> QED
    BY <1>3, <1>4, <1>5 DEF Collect, Release, UpdateRefs, SubtractRefs, MoveUnreachable, Survive,
                            DeleteGarbage, Cleared, Relink, EndCollect, heap

-----------------------------------------------------------------------------
(* The operations of the program *)

\* IdealHeap has the definitions of Heap.
LEMMA SameHeaps ==
    ASSUME NEW h
    PROVE  Ideal!Slot = Slot /\ Ideal!Live(h) = Live(h) /\ Ideal!Visible(h) = Visible(h)
<1>1. Ideal!Slot = Slot
    BY DEF Ideal!Slot, Slot
<1>2. Ideal!Live(h) = Live(h)
    BY DEF Ideal!Live, Live, Ideal!Closed, Closed
<1> QED
    BY <1>1, <1>2 DEF Ideal!Visible, Visible

\* What is at hand is seen, and is live.
LEMMA AtHand ==
    ASSUME TypeOK
    PROVE  /\ \A s \in Field : Visible(ptr)[<<STACK, s>>] = ptr[<<STACK, s>>]
           /\ Operand \subseteq Live(ptr) \cup {NULL}
           /\ Ideal!Operands(Visible(ptr)) = Operand
           /\ Ideal!Full(Visible(ptr)) = {s \in Field : ptr[<<STACK, s>>] # NULL}
<1>1. \A s \in Field : <<STACK, s>> \in ({STACK} \cup Live(ptr)) \X Field
    OBVIOUS
<1>2. \A s \in Field : Visible(ptr)[<<STACK, s>>] = ptr[<<STACK, s>>]
    BY <1>1, VisibleHeap DEF TypeOK
<1>3. \A s \in Field : ptr[<<STACK, s>>] \in Live(ptr) \cup {NULL}
    BY <1>1, LiveLeast DEF TypeOK, Closed
<1>4. Ideal!Full(Visible(ptr)) = {s \in Field : ptr[<<STACK, s>>] # NULL}
    BY <1>2 DEF Ideal!Full
<1>5. Operand \subseteq Live(ptr) \cup {NULL}
    BY <1>3 DEF Operand
<1>6. Ideal!Operands(Visible(ptr)) = Operand
    BY <1>2, <1>4 DEF Ideal!Operands, Operand
<1> QED
    BY <1>2, <1>4, <1>5, <1>6

\* A container of the program, and its elements.
LEMMA Reached ==
    ASSUME TypeOK, NEW s \in Field, ptr[<<STACK, s>>] # NULL, NEW f \in Field
    PROVE  LET c == ptr[<<STACK, s>>]
           IN  /\ c \in Live(ptr) /\ c \in Obj
               /\ <<c, f>> \in Slot
               /\ Visible(ptr)[<<c, f>>] = ptr[<<c, f>>]
               /\ ptr[<<c, f>>] \in Live(ptr) \cup {NULL}
<1> DEFINE c == ptr[<<STACK, s>>]
<1>1. c \in Live(ptr)
    BY AtHand DEF Operand
<1>2. c \in Obj
    BY <1>1, LiveLeast DEF TypeOK
<1>3. <<c, f>> \in ({STACK} \cup Live(ptr)) \X Field
    BY <1>1
<1>4. Visible(ptr)[<<c, f>>] = ptr[<<c, f>>]
    BY <1>3, VisibleHeap DEF TypeOK
<1>5. ptr[<<c, f>>] \in Live(ptr) \cup {NULL}
    BY <1>3, LiveLeast DEF TypeOK, Closed
<1> QED
    BY <1>1, <1>2, <1>4, <1>5 DEF Slot

\* The heap of IdealHeap takes a step, or none.
Follows == Visible(ptr') = Visible(ptr) \/ Ideal!Step(Visible(ptr), Visible(ptr'))

LEMMA PopMaps ==
    ASSUME TypeOK, NEW s \in Field, Pop(s)
    PROVE  Follows
<1>1. <<STACK, s>> \in Slot /\ NULL \in Live(ptr) \cup {NULL} /\ ptr \in [Slot -> Ref]
    BY DEF Slot, TypeOK
<1>2. Visible(ptr') = Visible([Visible(ptr) EXCEPT ![<<STACK, s>>] = NULL])
    BY <1>1, VisibleWrite DEF Pop, Redirect
<1>3. Visible(ptr') = Ideal!Forget(Visible(ptr), s)
    BY <1>2, SameHeaps DEF Ideal!Forget
<1>4. s \in Ideal!Full(Visible(ptr))
    BY AtHand DEF Pop
<1> QED
    BY <1>3, <1>4 DEF Follows, Ideal!Step

LEMMA LoadMaps ==
    ASSUME TypeOK, NEW s \in Field, NEW t \in Field, Load(s, t)
    PROVE  Follows
<1> DEFINE h == Visible(ptr)
           x == <<STACK, t>>
           r == ptr[<<STACK, s>>]
<1>1. x \in Slot /\ ptr \in [Slot -> Ref] /\ ptr' = [ptr EXCEPT ![x] = r] /\ ptr[x] = NULL
    BY DEF Slot, TypeOK, Load, Redirect
<1>2. s \in Ideal!Full(h) /\ t \in Field \ Ideal!Full(h)
    BY AtHand DEF Load
<1>3. r \in Live(ptr) /\ h[<<STACK, s>>] = r
    BY AtHand DEF Operand, Load
<1>4. Live(ptr) \in SUBSET Obj /\ Closed(ptr, Live(ptr))
    BY <1>1, LiveLeast
<1>5. ptr' \in [Slot -> Ref]
    BY <1>1, <1>3, <1>4 DEF Ref
<1>6. Live(ptr') = Live(ptr)
  <2>1. Closed(ptr', Live(ptr))
      BY <1>1, <1>3, <1>4 DEF Closed, Slot
  <2>2. Live(ptr') \in SUBSET Obj /\ Closed(ptr', Live(ptr')) /\ Live(ptr') \subseteq Live(ptr)
      BY <1>4, <1>5, <2>1, LiveLeast
  <2>3. Closed(ptr, Live(ptr'))
      BY <1>1, <2>2 DEF Closed, Slot
  <2> QED
      BY <1>1, <2>2, <2>3, LiveLeast
<1>7. Visible(ptr') = [h EXCEPT ![x] = r]
  <2>1. ASSUME NEW y \in Slot
        PROVE  Visible(ptr')[y] = IF y = x THEN r ELSE Visible(ptr)[y]
    <3>1. CASE y = x
      <4>1. y[1] = STACK
          BY <3>1
      <4> QED
          BY <1>1, <3>1, <4>1 DEF Visible
    <3>2. CASE y # x
      <4>1. ptr'[y] = ptr[y]
          BY <1>1, <3>2
      <4> QED
          BY <1>6, <3>2, <4>1 DEF Visible
    <3> QED
        BY <3>1, <3>2
  <2>2. /\ Visible(ptr') = [y \in Slot |-> Visible(ptr')[y]]
        /\ h = [y \in Slot |-> Visible(ptr)[y]]
      BY DEF Visible
  <2> QED
      BY <1>1, <2>1, <2>2
<1>8. Visible(ptr') = Ideal!Copy(h, s, t)
    BY <1>3, <1>7 DEF Ideal!Copy
<1> QED
    BY <1>2, <1>8 DEF Follows, Ideal!Step

LEMMA BinarySubscriptMaps ==
    ASSUME TypeOK, "dict" \notin Subscripted,
           NEW s \in Field, NEW f \in Field, BinarySubscript(s, f)
    PROVE  Follows
<1> DEFINE c == ptr[<<STACK, s>>]
<1>1. ptr \in [Slot -> Ref] /\ <<STACK, s>> \in Slot /\ c # NULL
    BY DEF TypeOK, Slot, BinarySubscript
<1>2. ptr' = [ptr EXCEPT ![<<STACK, s>>] = ptr[<<c, f>>]]
    BY DEF BinarySubscript, Redirect
<1>3. /\ ptr[<<c, f>>] \in Live(ptr) \cup {NULL}
      /\ Visible(ptr)[<<c, f>>] = ptr[<<c, f>>]
    BY <1>1, Reached
<1>4. Visible(ptr)[<<STACK, s>>] = c /\ s \in Ideal!Full(Visible(ptr))
    BY <1>1, AtHand
<1>5. Visible(ptr') = Visible([Visible(ptr) EXCEPT ![<<STACK, s>>] = ptr[<<c, f>>]])
    BY <1>1, <1>2, <1>3, VisibleWrite
<1>6. Visible(ptr') = Ideal!Select(Visible(ptr), s, f)
    BY <1>3, <1>4, <1>5, SameHeaps DEF Ideal!Select
<1> QED
    BY <1>4, <1>6 DEF Follows, Ideal!Step

LEMMA StoreSubscriptMaps ==
    ASSUME TypeOK, NEW s \in Field, NEW f \in Field, NEW item \in Operand,
           StoreSubscript(s, f, item)
    PROVE  Follows
<1> DEFINE c == ptr[<<STACK, s>>]
<1>1. ptr \in [Slot -> Ref] /\ c # NULL
    BY DEF TypeOK, StoreSubscript
<1>2. ptr' = [ptr EXCEPT ![<<c, f>>] = item]
    BY DEF StoreSubscript, Redirect
<1>3. c \in Live(ptr) /\ <<c, f>> \in Slot
    BY <1>1, Reached
<1>4. item \in Live(ptr) \cup {NULL} /\ item \in Ideal!Operands(Visible(ptr))
    BY AtHand
<1>5. Visible(ptr)[<<STACK, s>>] = c /\ s \in Ideal!Full(Visible(ptr))
    BY <1>1, AtHand
<1>6. Visible(ptr') = Visible([Visible(ptr) EXCEPT ![<<c, f>>] = item])
    BY <1>1, <1>2, <1>3, <1>4, VisibleWrite
<1>7. Visible(ptr') = Ideal!Assign(Visible(ptr), s, f, item)
    BY <1>5, <1>6, SameHeaps DEF Ideal!Assign
<1> QED
    BY <1>4, <1>5, <1>7 DEF Follows, Ideal!Step

\* A new container: what the program could reach, and the container.
LEMMA InitObjectMaps ==
    ASSUME Counts, NEW operands \in [Field -> Operand], InitObject(operands)
    PROVE  Follows
<1> USE DEF Counts
<1>1. pc = "init" /\ new \in Obj \X Kinds \X Field
    BY DEF InitObject, Pending, TypeOK
<1>2. /\ new[1] \in Obj /\ new[2] \in Kinds /\ new[3] \in Field
      /\ new = <<new[1], new[2], new[3]>>
    BY <1>1
<1> PICK o \in Obj, k \in Kinds, s \in Field : new = <<o, k, s>>
    BY <1>2, Zenon
<1> DEFINE x == <<STACK, s>>
           h == Visible(ptr)
           L == Live(ptr) \cup {o}
<1>3. kind[o] = NULL /\ ptr[x] = NULL
    BY <1>1, KindsAssumption DEF Allocating, TypeOK
<1>4. ptr' = [y \in Slot |-> CASE y = x    -> o
                               [] y[1] = o -> operands[y[2]]
                               [] OTHER    -> ptr[y]]
    BY DEF InitObject
<1>5. /\ ptr \in [Slot -> Ref] /\ x \in Slot /\ o # STACK /\ o # NULL
      /\ \A y \in Slot : y[1] \in Obj \cup {STACK} /\ y[2] \in Field /\ y = <<y[1], y[2]>>
    BY HeapAssumption DEF TypeOK, Slot
<1>6. \A y \in Slot : ptr[y] # o
    BY <1>3, <1>5 DEF NoDangling
<1>7. \A f \in Field : operands[f] \in Live(ptr) \cup {NULL}
    BY AtHand
<1>8. Live(ptr) \in SUBSET Obj /\ Closed(ptr, Live(ptr))
    BY <1>5, LiveLeast
<1>9. o \notin Live(ptr)
  <2>1. Closed(ptr, Obj \ {o})
      BY <1>5, <1>6 DEF Closed, Slot, Ref
  <2>2. Obj \ {o} \in SUBSET Obj
      OBVIOUS
  <2> QED
      BY <2>1, <2>2, <1>5, LiveLeast
<1>10. ptr' \in [Slot -> Ref]
    BY <1>4, <1>5, <1>7, <1>8 DEF Ref
<1>11. ASSUME NEW y \in Slot
       PROVE  /\ y = x => ptr'[y] = o
              /\ y # x /\ y[1] = o => ptr'[y] \in Live(ptr) \cup {NULL} /\ ptr'[y] = operands[y[2]]
              /\ y # x /\ y[1] # o => ptr'[y] = ptr[y]
    BY <1>4, <1>5, <1>7
<1>12. Live(ptr') = L
  <2>1. L \in SUBSET Obj /\ \A y \in ({STACK} \cup L) \X Field : y \in Slot
      BY <1>8 DEF Slot
  <2>2. Closed(ptr', L)
    <3> SUFFICES ASSUME NEW y \in ({STACK} \cup L) \X Field
                 PROVE  ptr'[y] \in L \cup {NULL}
        BY DEF Closed
    <3>1. CASE y = x
        BY <2>1, <3>1, <1>11
    <3>2. CASE y # x /\ y[1] = o
        BY <2>1, <3>2, <1>11
    <3>3. CASE y # x /\ y[1] # o
      <4>1. y \in ({STACK} \cup Live(ptr)) \X Field
          BY <3>3
      <4> QED
          BY <2>1, <3>3, <4>1, <1>8, <1>11 DEF Closed
    <3> QED
        BY <3>1, <3>2, <3>3
  <2>3. Live(ptr') \subseteq L /\ Closed(ptr', Live(ptr')) /\ Live(ptr') \in SUBSET Obj
      BY <2>1, <2>2, <1>10, LiveLeast
  <2>4. o \in Live(ptr')
    <3>1. x \in ({STACK} \cup Live(ptr')) \X Field /\ ptr'[x] = o
        BY <1>5, <1>11
    <3> QED
        BY <2>3, <3>1, <1>5 DEF Closed
  <2>5. Closed(ptr, Live(ptr') \ {o})
    <3> SUFFICES ASSUME NEW y \in ({STACK} \cup (Live(ptr') \ {o})) \X Field
                 PROVE  ptr[y] \in (Live(ptr') \ {o}) \cup {NULL}
        BY DEF Closed
    <3>1. y \in Slot /\ y[1] # o /\ y \in ({STACK} \cup Live(ptr')) \X Field
        BY <2>3, <1>5 DEF Slot
    <3>2. CASE y = x
        BY <3>2, <1>3
    <3>3. CASE y # x
        BY <3>1, <3>3, <2>3, <1>6, <1>11 DEF Closed
    <3> QED
        BY <3>2, <3>3
  <2>6. Live(ptr) \subseteq Live(ptr') \ {o}
      BY <2>3, <2>5, <1>5, LiveLeast
  <2> QED
      BY <2>3, <2>4, <2>6
<1>13. Visible(ptr') = Ideal!New(h, o, s, operands)
  <2>1. ASSUME NEW y \in Slot
        PROVE  Visible(ptr')[y] = CASE y = x    -> o
                                    [] y[1] = o -> operands[y[2]]
                                    [] OTHER    -> h[y]
    <3>1. CASE y = x
      <4>1. y[1] = STACK /\ y[1] # o
          BY <3>1, <1>5
      <4>2. Visible(ptr')[y] = o
          BY <3>1, <4>1, <1>11 DEF Visible
      <4> QED
          BY <3>1, <4>1, <4>2
    <3>2. CASE y # x /\ y[1] = o
        BY <3>2, <1>11, <1>12 DEF Visible
    <3>3. CASE y # x /\ y[1] # o
        BY <3>3, <1>11, <1>12 DEF Visible
    <3> QED
        BY <3>1, <3>2, <3>3
  <2>2. Visible(ptr') = [y \in Slot |-> Visible(ptr')[y]]
      BY DEF Visible
  <2>3. Visible(ptr') = [y \in Slot |-> CASE y = x    -> o
                                         [] y[1] = o -> operands[y[2]]
                                         [] OTHER    -> h[y]]
    <3> HIDE DEF x, h
    <3> QED
        BY <2>1, <2>2
  <2> QED
      BY <2>3, SameHeaps DEF Ideal!New
<1>14. /\ o \in Obj \ Ideal!Live(h)
       /\ s \in Field \ Ideal!Full(h)
       /\ operands \in [Field -> Ideal!Operands(h)]
    BY <1>3, <1>5, <1>9, AtHand, SameHeaps, VisibleHeap
<1> QED
    BY <1>13, <1>14 DEF Follows, Ideal!Step

LEMMA StepMaps ==
    ASSUME "dict" \notin Subscripted, Hidden, [Next]_vars
    PROVE  Follows
<1>1. TypeOK /\ Counts
    BY DEF Hidden, Counts
<1>2. CASE Program
  <2>1. CASE UNCHANGED ptr
      BY <2>1 DEF Follows
  <2> QED
      BY <1>1, <1>2, <2>1, PopMaps, LoadMaps, BinarySubscriptMaps, StoreSubscriptMaps,
         InitObjectMaps DEF Program, GC_Malloc, GC_Collect, heap
<1>3. CASE Collect \/ Release
    BY <1>3, CollectorInvisible DEF Follows
<1>4. CASE UNCHANGED vars
    BY <1>4 DEF vars, Follows
<1> QED
    BY <1>2, <1>3, <1>4 DEF Next

\* What is proved of counts and of the walk holds together, with Owned.
THEOREM HiddenInvariant ==
    ASSUME "dict" \notin Subscripted
    PROVE  Spec => []Hidden
<1>1. Counts /\ Owned /\ [Next]_vars => Owned'
    BY NextOwned DEF Counts
<1> QED
    BY <1>1, InitOwned, CountsInvariant, CollectingInvariant, PTL DEF Spec, Hidden

\* To the program, reference counts, collections and deallocations do not exist: whatever
\* interleaving of them gc.c produces, it sees the heap of IdealHeap, where an object is there
\* as long as it can be reached (if dicts are not read with the subscript operator).
THEOREM IdealImplemented ==
    ASSUME "dict" \notin Subscripted
    PROVE  Spec => ImplementsIdeal
<1>1. Init => Ideal!IdealInit
    BY DEF Init, Ideal!IdealInit, Visible, SameHeaps, Ideal!Slot, Slot
<1>2. Hidden /\ [Next]_vars => [Ideal!IdealNext]_(Visible(ptr))
    BY StepMaps DEF Ideal!IdealNext, Follows
<1> QED
    BY <1>1, <1>2, HiddenInvariant, PTL DEF Spec, ImplementsIdeal, Ideal!IdealSpec

-----------------------------------------------------------------------------
(* Completeness: all that is set aside is freed.  A tuple is not cleared; it goes when    *)
(* what refers to it goes, because tuples, which are never changed, form no cycle.        *)

Tuples == {o \in Obj : kind[o] = "tuple"}

\* In any set of tuples there is one that none of them refers to: the last that was made.
Acyclic ==
    \A S \in SUBSET Tuples : S # {} => \E o \in S : \A x \in RefsTo(o) : x[1] \notin S

\* What is still to be deleted, tuples apart, is still in the list; what is not has been cleared.
Swept ==
    /\ pc \in {"delete", "clear", "relink"} =>
         \A o \in garbage :
            kind[o] = NULL \/ kind[o] = "tuple" \/ o \in Unreachable \/ Referents(o) = {}
    /\ pc = "relink" => kind[cur] = NULL \/ Referents(cur) = {}

Complete == Acyclic /\ Swept

\* Steps that only drop references and free blocks make no cycle.
LEMMA AcyclicKept ==
    ASSUME Acyclic, Tuples' \subseteq Tuples,
           \A x \in Slot : x[1] \in Tuples => ptr'[x] \in {ptr[x], NULL}
    PROVE  Acyclic'
<1> SUFFICES ASSUME NEW S \in SUBSET Tuples', S # {}
             PROVE  \E o \in S : \A x \in RefsTo(o)' : x[1] \notin S
    BY DEF Acyclic
<1>1. PICK o \in S : \A x \in RefsTo(o) : x[1] \notin S
    BY DEF Acyclic
<1>2. ASSUME NEW x \in RefsTo(o)', x[1] \in S
      PROVE  FALSE
  <2>1. x \in Slot /\ ptr'[x] = o /\ x[1] \in Tuples /\ o \in Obj
      BY <1>2 DEF RefsTo, Tuples
  <2>2. ptr[x] = o
      BY <2>1, HeapAssumption
  <2> QED
      BY <1>1, <1>2, <2>1, <2>2 DEF RefsTo
<1> QED
    BY <1>2

LEMMA AcyclicNew ==
    ASSUME Counts, Acyclic, NEW operands \in [Field -> Operand], InitObject(operands)
    PROVE  Acyclic'
<1> USE DEF Counts
<1>1. pc = "init" /\ new \in Obj \X Kinds \X Field
    BY DEF InitObject, Pending, TypeOK
<1>2. /\ new[1] \in Obj /\ new[2] \in Kinds /\ new[3] \in Field
      /\ new = <<new[1], new[2], new[3]>>
    BY <1>1
<1> PICK o \in Obj, k \in Kinds, s \in Field : new = <<o, k, s>>
    BY <1>2, Zenon
<1>3. kind[o] = NULL /\ ptr[<<STACK, s>>] = NULL /\ kind' = [kind EXCEPT ![o] = k]
    BY <1>1, KindsAssumption DEF Allocating, TypeOK, InitObject
<1>4. \A y \in Slot : ptr[y] # o
    BY <1>3, HeapAssumption DEF NoDangling
<1>5. /\ \A y \in Slot : y[1] # o /\ y[1] # STACK => ptr'[y] = ptr[y]
      /\ \A y \in Slot : y[1] = o => ptr'[y] # o
  <2>1. \A f \in Field : <<STACK, f>> \in Slot
      BY DEF Slot
  <2>2. \A f \in Field : operands[f] # o
      BY <1>4, <2>1, HeapAssumption DEF Operand
  <2>3. ptr' = [y \in Slot |-> CASE y = <<STACK, s>> -> o
                                 [] y[1] = o -> operands[y[2]]
                                 [] OTHER    -> ptr[y]]
      BY DEF InitObject
  <2>4. \A y \in Slot : y[2] \in Field
      BY DEF Slot
  <2> QED
      BY <2>2, <2>3, <2>4, HeapAssumption
<1>6. Tuples' \subseteq Tuples \cup {o} /\ STACK \notin Tuples'
    BY <1>3, HeapAssumption DEF Tuples, TypeOK
<1> SUFFICES ASSUME NEW S \in SUBSET Tuples', S # {}
             PROVE  \E t \in S : \A x \in RefsTo(t)' : x[1] \notin S
    BY DEF Acyclic
<1>7. CASE o \in S
  <2>1. \A x \in RefsTo(o)' : x[1] \notin S
    <3>1. \A x \in Slot : x[1] # STACK => ptr'[x] # o
        BY <1>4, <1>5
    <3> QED
        BY <1>6, <3>1 DEF RefsTo
  <2> QED
      BY <1>7, <2>1
<1>8. CASE o \notin S
  <2>1. PICK t \in S : \A x \in RefsTo(t) : x[1] \notin S
      BY <1>6, <1>8 DEF Acyclic
  <2>2. \A x \in RefsTo(t)' : x[1] \in S => x \in RefsTo(t)
      BY <1>5, <1>6, <1>8 DEF RefsTo
  <2> QED
      BY <2>1, <2>2
<1> QED
    BY <1>7, <1>8

LEMMA InitComplete == Init => Complete
BY KindsAssumption DEF Init, Complete, Acyclic, Swept, Tuples

LEMMA NextAcyclic ==
    ASSUME Counts, Acyclic, [Next]_vars
    PROVE  Acyclic'
<1> USE HeapAssumption, KindsAssumption DEF Counts
<1>1. \A s \in Field : <<STACK, s>> \in Slot /\ STACK \notin Tuples
    BY DEF Slot, Tuples
<1>2. CASE \E operands \in [Field -> Operand] : InitObject(operands)
    BY <1>2, AcyclicNew
<1>3. CASE UNCHANGED heap \/ UNCHANGED <<ptr, kind>>
    BY <1>3, AcyclicKept DEF heap, Tuples
<1>4. ASSUME NEW s \in Field, NEW f \in Field, NEW item \in Operand, StoreSubscript(s, f, item)
      PROVE  Acyclic'
  <2>1. /\ UNCHANGED kind
        /\ ptr' = [ptr EXCEPT ![<<ptr[<<STACK, s>>], f>>] = item]
        /\ ptr[<<STACK, s>>] \notin Tuples
      BY <1>4 DEF StoreSubscript, Redirect, Tuples
  <2>2. \A x \in Slot : x[1] \in Tuples => ptr'[x] = ptr[x]
      BY <2>1 DEF TypeOK
  <2> QED
      BY <2>1, <2>2, AcyclicKept DEF Tuples
<1>5. ASSUME NEW s \in Field, NEW r, UNCHANGED kind, ptr' = [ptr EXCEPT ![<<STACK, s>>] = r]
      PROVE  Acyclic'
    BY <1>1, <1>5, AcyclicKept DEF TypeOK, Tuples
<1>6. ASSUME NEW x, UNCHANGED kind, ptr' = [ptr EXCEPT ![x] = NULL]
      PROVE  Acyclic'
    BY <1>6, AcyclicKept DEF TypeOK, Tuples
<1>7. CASE Program
  <2>1. ASSUME NEW s \in Field, NEW t \in Field, Load(s, t) \/ BinarySubscript(s, t) \/ Pop(s)
        PROVE  Acyclic'
    <3>1. CASE Load(s, t)
        BY <1>5, <3>1 DEF Load, Redirect
    <3>2. CASE BinarySubscript(s, t)
        BY <1>5, <3>2 DEF BinarySubscript, Redirect
    <3>3. CASE Pop(s)
        BY <1>5, <3>3 DEF Pop, Redirect
    <3> QED
        BY <2>1, <3>1, <3>2, <3>3
  <2>2. CASE \E o \in Obj, k \in Kinds, s \in Field, err \in BOOLEAN : GC_Malloc(o, k, s, err)
      BY <1>3, <2>2 DEF GC_Malloc
  <2>3. CASE GC_Collect
      BY <1>3, <2>3 DEF GC_Collect
  <2> QED
      BY <1>2, <1>4, <1>7, <2>1, <2>2, <2>3 DEF Program
<1>8. CASE Collect
  <2>1. ASSUME NEW f \in Field, ClearSlot(f)
        PROVE  Acyclic'
      BY <1>6, <2>1 DEF ClearSlot, Redirect
  <2> QED
      BY <1>3, <1>8, <2>1 DEF Collect, UpdateRefs, SubtractRefs, MoveUnreachable, Survive,
                              DeleteGarbage, Cleared, Relink, EndCollect, heap
<1>9. ASSUME NEW o \in Obj, Dealloc(o)
      PROVE  Acyclic'
  <2>1. CASE Referents(o) # {}
      BY <1>6, <1>9, <2>1 DEF Dealloc, Redirect
  <2>2. CASE Referents(o) = {}
    <3>1. UNCHANGED ptr /\ Tuples' \subseteq Tuples
        BY <1>9, <2>2 DEF Dealloc, GC_Free, Tuples, TypeOK
    <3> QED
        BY <3>1, AcyclicKept
  <2> QED
      BY <2>1, <2>2
<1> QED
    BY <1>3, <1>7, <1>8, <1>9 DEF Next, Release, vars

LEMMA NextSwept ==
    ASSUME Hidden, Swept, [Next]_vars
    PROVE  Swept'
<1> USE HeapAssumption DEF Hidden, Counts
<1>1. TypeOK /\ NULL \notin garbage /\ garbage \subseteq Obj
    BY DEF TypeOK
<1>2. CASE pc \in {"run", "init", "update", "subtract"}
  <2>1. pc' \notin {"delete", "clear", "relink"}
    <3>1. CASE Program
        BY <3>1 DEF Program, GC_Malloc, BeginCollect, InitObject, StoreSubscript, Load,
                    BinarySubscript, Pop, GC_Collect, Running
    <3>2. CASE Collect
        BY <1>2, <3>2 DEF Collect, UpdateRefs, SubtractRefs, MoveUnreachable, Survive,
                          DeleteGarbage, ClearSlot, Cleared, Relink, EndCollect
    <3>3. CASE Release \/ UNCHANGED vars
        BY <1>2, <3>3 DEF Release, Dealloc, GC_Free, vars
    <3> QED
        BY <3>1, <3>2, <3>3 DEF Next
  <2> QED
      BY <2>1 DEF Swept
<1>3. CASE pc = "move"
  <2>1. pc' \in {"delete", "clear", "relink"} => Survive
    <3>1. CASE Program
        BY <1>3, <3>1 DEF Program, GC_Malloc, InitObject, StoreSubscript, Load,
                    BinarySubscript, Pop, GC_Collect, Running
    <3>2. CASE Collect
        BY <1>3, <3>2 DEF Collect, UpdateRefs, SubtractRefs, MoveUnreachable, VisitReachable,
                          DeleteGarbage, ClearSlot, Cleared, Relink, EndCollect
    <3>3. CASE Release \/ UNCHANGED vars
        BY <1>3, <3>3 DEF Release, Dealloc, GC_Free, vars
    <3> QED
        BY <3>1, <3>2, <3>3 DEF Next
  <2>2. Survive => Unreachable' = garbage' /\ pc' = "delete"
      BY DEF Survive, Unreachable, Young, TypeOK, Old
  <2> QED
      BY <2>1, <2>2 DEF Swept
<1>4. CASE pc \in {"delete", "clear", "relink"}
  <2>1. CASE Program
      BY <1>4, <2>1 DEF Program, GC_Malloc, InitObject, StoreSubscript, Load,
                        BinarySubscript, Pop, GC_Collect, Running
  <2>2. ASSUME NEW o \in Obj, DeleteGarbage(o)
        PROVE  Swept'
    <3>1. UNCHANGED <<ptr, kind, garbage>> /\ pc = "delete" /\ pc' # "relink"
        BY <2>2 DEF DeleteGarbage
    <3>2. CASE gc_refs[o] # TENTATIVELY_UNREACHABLE
        BY <2>2, <3>2 DEF DeleteGarbage, Swept
    <3>3. CASE gc_refs[o] = TENTATIVELY_UNREACHABLE /\ kind[o] = "tuple"
      <4>1. \A t \in Unreachable : t # o => t \in Unreachable'
          BY <2>2, <3>3 DEF DeleteGarbage, Unreachable, TypeOK
      <4> QED
          BY <3>1, <3>3, <4>1 DEF Swept, Referents
    <3>4. CASE gc_refs[o] = TENTATIVELY_UNREACHABLE /\ kind[o] # "tuple"
      <4>1. UNCHANGED list
          BY <2>2, <3>4 DEF DeleteGarbage
      <4> QED
          BY <3>1, <4>1 DEF Swept, Referents, Unreachable
    <3> QED
        BY <3>2, <3>3, <3>4
  <2>3. ASSUME NEW f \in Field, ClearSlot(f)
        PROVE  Swept'
    <3>1. \A o \in Obj : Referents(o)' \subseteq Referents(o)
        BY <2>3 DEF ClearSlot, Redirect, Referents, TypeOK, Slot
    <3> QED
        BY <1>1, <2>3, <3>1 DEF ClearSlot, Swept, Unreachable, collector
  <2>4. CASE Cleared
      BY <2>4 DEF Cleared, Swept, Unreachable, Referents, collector
  <2>5. CASE Relink
    <3>1. cur \in garbage /\ (kind[cur] = NULL \/ Referents(cur) = {})
        BY <2>5 DEF Relink, Swept, Owned
    <3>2. /\ pc' = "delete" /\ UNCHANGED <<garbage, kind, ptr>>
          /\ \A o \in Unreachable : o # cur => o \in Unreachable'
        BY <2>5 DEF Relink, heap, Unreachable, TypeOK
    <3> QED
        BY <1>4, <3>1, <3>2 DEF Swept, Referents
  <2>6. CASE EndCollect
      BY <2>6 DEF EndCollect, Swept
  <2>7. ASSUME NEW o \in Obj, Dealloc(o)
        PROVE  Swept'
    <3>1. CASE Referents(o) # {}
      <4>1. \A t \in Obj : Referents(t)' \subseteq Referents(t)
          BY <2>7, <3>1 DEF Dealloc, Redirect, Referents, TypeOK, Slot
      <4> QED
          BY <1>1, <2>7, <3>1, <4>1 DEF Dealloc, Swept, Unreachable, collector, Owned
    <3>2. CASE Referents(o) = {}
      <4>1. /\ UNCHANGED <<ptr, garbage, cur>> /\ pc' \in {pc, "wild"}
            /\ \A t \in Obj : kind'[t] = IF t = o THEN NULL ELSE kind[t]
            /\ \A t \in Unreachable : t # o => t \in Unreachable'
          BY <2>7, <3>2 DEF Dealloc, GC_Free, Unreachable, collector, TypeOK
      <4>2. \A t \in Obj : Referents(t)' = Referents(t)
          BY <4>1 DEF Referents
      <4>3. pc = "relink" => cur \in garbage
          BY DEF Owned
      <4> QED
          BY <1>1, <1>4, <4>1, <4>2, <4>3 DEF Swept
    <3> QED
        BY <3>1, <3>2
  <2>8. CASE UpdateRefs \/ SubtractRefs \/ Survive \/ \E o \in Obj : MoveUnreachable(o)
      BY <1>4, <2>8 DEF UpdateRefs, SubtractRefs, Survive, MoveUnreachable
  <2>9. CASE UNCHANGED vars
      BY <2>9 DEF vars, Swept, Unreachable, Referents
  <2> QED
      BY <2>1, <2>2, <2>3, <2>4, <2>5, <2>6, <2>7, <2>8, <2>9 DEF Next, Collect, Release
<1>5. CASE pc \in {"abort", "wild"}
  <2>1. pc' \in {"abort", "wild"}
    <3>1. CASE Program
        BY <1>5, <3>1 DEF Program, GC_Malloc, InitObject, StoreSubscript, Load,
                    BinarySubscript, Pop, GC_Collect, Running
    <3>2. CASE Collect
        BY <1>5, <3>2 DEF Collect, UpdateRefs, SubtractRefs, MoveUnreachable, Survive,
                          DeleteGarbage, ClearSlot, Cleared, Relink, EndCollect
    <3>3. CASE Release \/ UNCHANGED vars
        BY <1>5, <3>3 DEF Release, Dealloc, vars
    <3> QED
        BY <3>1, <3>2, <3>3 DEF Next
  <2> QED
      BY <2>1 DEF Swept
<1> QED
    BY <1>2, <1>3, <1>4, <1>5 DEF TypeOK, PCs

\* Only EndCollect leaves collect().
LEMMA ReturnsAtEnd ==
    ASSUME TypeOK, Quiet, [Next]_vars, Returns
    PROVE  EndCollect
<1>1. ~ Program
    BY DEF Returns, Program, GC_Malloc, InitObject, StoreSubscript, Load,
           BinarySubscript, Pop, GC_Collect, Running
<1>2. ~ Release /\ ~ UNCHANGED vars
  <2>1. Dying = {}
      BY DEF Quiet, Returns
  <2> QED
      BY <2>1 DEF Returns, Release, Dealloc, vars
<1>3. CASE Collect
    BY <1>3 DEF Returns, Collect, UpdateRefs, SubtractRefs, MoveUnreachable, Survive, DeleteGarbage,
                ClearSlot, Cleared, Relink
<1> QED
    BY <1>1, <1>2, <1>3 DEF Next

\* When the list is empty: an object left over would be referred to, by a tuple that is
\* left over, which would be referred to by another, and so on.
LEMMA AllFreed ==
    ASSUME Hidden, Complete, pc = "delete", Unreachable = {}
    PROVE  \A o \in garbage : kind[o] = NULL
<1> USE DEF Hidden, Counts, Complete
<1> DEFINE T == {o \in garbage : kind[o] = "tuple"}
<1>1. GarbageClosed /\ TypeOK /\ garbage \subseteq Obj /\ STACK \notin garbage
    BY HeapAssumption DEF Collecting, TypeOK
<1>2. ASSUME NEW o \in garbage, kind[o] # NULL
      PROVE  \E x \in RefsTo(o) : x[1] \in T
  <2>1. o \in Obj /\ refcnt[o] # 0 /\ Held(o) = 0
      BY <1>1, <1>2 DEF Quiet, Dying, Alive, Held
  <2>2. IsFiniteSet(RefsTo(o)) /\ Cardinality(RefsTo(o)) \in Nat
    <3>1. RefsTo(o) \in SUBSET Slot
        BY DEF RefsTo
    <3> QED
        BY <3>1, SlotsFinite
  <2>3. Cardinality(RefsTo(o)) # 0
      BY <2>1, <2>2 DEF RefcountExact
  <2>4. PICK x \in RefsTo(o) : TRUE
      BY <2>3, FS_EmptySet
  <2>5. x \in Slot /\ ptr[x] = o /\ x = <<x[1], x[2]>> /\ x[2] \in Field
      BY DEF RefsTo, Slot
  <2>6. x[1] \in garbage
      BY <1>1, <2>5 DEF GarbageClosed
  <2>7. kind[x[1]] # NULL /\ o # NULL
      BY <1>1, <2>1, <2>5, <2>6, HeapAssumption DEF NoDangling
  <2>8. o \in Referents(x[1])
    <3> DEFINE u == x[1]
               f == x[2]
    <3>1. ptr[<<u, f>>] = o /\ f \in Field
        BY <2>5
    <3> HIDE DEF u, f
    <3>2. o \in Referents(u)
        BY <2>7, <3>1 DEF Referents
    <3> QED
        BY <3>2 DEF u
  <2>9. kind[x[1]] = "tuple"
      BY <2>6, <2>7, <2>8 DEF Swept
  <2> QED
      BY <2>6, <2>9
<1>3. T = {}
  <2> SUFFICES ASSUME T # {} PROVE FALSE
      OBVIOUS
  <2>1. T \in SUBSET Tuples
      BY <1>1 DEF Tuples
  <2>2. PICK o \in T : \A x \in RefsTo(o) : x[1] \notin T
      BY <2>1, Zenon DEF Acyclic
  <2>3. o \in garbage /\ kind[o] # NULL
      BY KindsAssumption
  <2> HIDE DEF T
  <2> QED
      BY <1>2, <2>2, <2>3
<1> HIDE DEF T
<1> QED
    BY <1>2, <1>3

\* At every moment of a collection (collect(), delete_garbage) nothing set aside is forgotten.
THEOREM CompleteInvariant ==
    ASSUME "dict" \notin Subscripted
    PROVE  Spec => []Complete
<1>1. Hidden /\ Complete /\ [Next]_vars => Complete'
    BY NextAcyclic, NextSwept DEF Hidden, Complete
<1> QED
    BY <1>1, InitComplete, HiddenInvariant, PTL DEF Spec

\* The number collect() returns is the number of objects it freed: all that
\* move_unreachable set aside is gone, cycles through tuples, which have no tp_clear,
\* and objects that were moved to an older generation while they died included.
THEOREM GarbageIsFreed ==
    ASSUME "dict" \notin Subscripted
    PROVE  Spec => GarbageFreed
<1>1. Hidden /\ Complete /\ [Next]_vars => [Returns => \A o \in garbage : kind[o] = NULL]_vars
  <2> SUFFICES ASSUME Hidden, Complete, [Next]_vars, Returns
               PROVE  \A o \in garbage : kind[o] = NULL
      OBVIOUS
  <2>1. EndCollect
      BY ReturnsAtEnd DEF Hidden, Counts
  <2> QED
      BY <2>1, AllFreed DEF EndCollect
<1> QED
    BY <1>1, HiddenInvariant, CompleteInvariant, PTL DEF Spec, GarbageFreed

-----------------------------------------------------------------------------
(* A collection of the oldest generation finds all garbage.  There all objects are in    *)
(* young, so what subtract_refs leaves are the references of the program itself.          *)

\* Every container is in a list (dicts need not be).
Tracked == \A o \in Alive : list[o] # UNLINKED

Whole ==
    pc \in {"update", "subtract", "move"} /\ gen = 2 =>
        \A o \in Alive : list[o] \in {2, UNREACHABLE}

\* What is not taken for unreachable can be reached.
Marked ==
    pc = "move" /\ gen = 2 => \A o \in Young : gc_refs[o] # 0 => o \in Live(ptr)

\* What was not set aside can be reached.
Found ==
    pc \in {"delete", "clear", "relink"} /\ gen = 2 => Alive \subseteq Live(ptr) \cup garbage

Full == Tracked /\ Whole /\ Marked /\ Found

LEMMA InitFull == Init => Full
BY DEF Init, Full, Tracked, Whole, Marked, Found, Alive

LEMMA NextTracked ==
    ASSUME "dict" \notin Kinds, Counts, Tracked, [Next]_vars
    PROVE  Tracked'
<1> USE DEF Counts, Tracked, Alive, TypeOK
<1>1. ASSUME NEW g \in GENERATIONS, NEW c, BeginCollect(g, c), UNCHANGED kind
      PROVE  Tracked'
    BY <1>1 DEF BeginCollect
<1>2. CASE Program
  <2>1. CASE \E o \in Obj, k \in Kinds, s \in Field, err \in BOOLEAN : GC_Malloc(o, k, s, err)
      BY <1>1, <2>1 DEF GC_Malloc, heap
  <2>2. ASSUME NEW operands \in [Field -> Operand], InitObject(operands)
        PROVE  Tracked'
    <3>1. new[2] \in Kinds
        BY <2>2 DEF InitObject, Pending
    <3> QED
        BY <2>2, <3>1 DEF InitObject
  <2>3. CASE \E s, f \in Field, item \in Operand : StoreSubscript(s, f, item)
      BY <2>3 DEF StoreSubscript
  <2>4. CASE GC_Collect
      BY <1>1, <2>4 DEF GC_Collect, heap
  <2> QED
      BY <1>2, <2>1, <2>2, <2>3, <2>4 DEF Program, Load, BinarySubscript, Pop
<1>3. CASE Collect
  <2>1. CASE \E o \in Obj : MoveUnreachable(o)
      BY <2>1 DEF MoveUnreachable, VisitReachable, heap
  <2>2. CASE \E o \in Obj : DeleteGarbage(o)
      BY <2>2 DEF DeleteGarbage, Old
  <2>3. CASE Survive \/ Relink
      BY <2>3 DEF Survive, Relink, Old, Young, heap
  <2> QED
      BY <1>3, <2>1, <2>2, <2>3
      DEF Collect, UpdateRefs, SubtractRefs, ClearSlot, Cleared, EndCollect, heap
<1>4. ASSUME NEW o \in Obj, Dealloc(o)
      PROVE  Tracked'
    BY <1>4 DEF Dealloc, GC_Free
<1>5. CASE UNCHANGED vars
    BY <1>5 DEF vars
<1> QED
    BY <1>2, <1>3, <1>4, <1>5 DEF Next, Release

\* No object is in young that is not referred to by STACK or from young.
LEMMA SubtractMarks ==
    ASSUME Hidden, Whole, gen = 2, SubtractRefs, NEW o \in Young, gc_refs'[o] # 0
    PROVE  o \in Live(ptr)
<1> USE DEF Hidden, Counts, Collecting
<1>1. PICK x \in RefsTo(o) : x[1] \notin Young
    BY SubtractExternal
<1>2. x \in Slot /\ ptr[x] = o /\ o \in Obj /\ pc = "subtract"
    BY DEF RefsTo, Young, SubtractRefs
<1>3. x[1] = STACK
  <2> SUFFICES ASSUME x[1] # STACK PROVE FALSE
      OBVIOUS
  <2>1. x[1] \in Obj /\ kind[x[1]] # NULL
      BY <1>2, HeapAssumption DEF Slot, NoDangling
  <2>2. list[x[1]] \in {2, UNREACHABLE}
      BY <1>2, <2>1 DEF Whole, Alive
  <2> QED
      BY <1>1, <1>2, <2>1, <2>2 DEF Young, NoneAside, Unreachable
<1>4. x \in ({STACK} \cup Live(ptr)) \X Field /\ o # NULL
    BY <1>2, <1>3, HeapAssumption DEF Slot
<1> QED
    BY <1>2, <1>4, LiveLeast DEF TypeOK, Closed

\* The walk marks only what the marked refer to.
LEMMA WalkMarks ==
    ASSUME Hidden, Marked, gen = 2, NEW o \in Obj, MoveUnreachable(o), pc' = "move"
    PROVE  Marked'
<1> USE DEF Hidden, Counts, Collecting
<1>1. /\ pc = "move" /\ o \in Young /\ UNCHANGED <<ptr, gen>>
      /\ gc_refs \in [Obj -> Int] /\ list \in [Obj -> {UNLINKED, UNREACHABLE} \cup GENERATIONS]
    BY DEF MoveUnreachable, heap, Walking, Young, TypeOK
<1>2. CASE gc_refs[o] = 0
  <2>1. \A t \in Young' : t \in Young /\ gc_refs'[t] = gc_refs[t]
      BY <1>1, <1>2 DEF MoveUnreachable, Young, TypeOK
  <2> QED
      BY <1>1, <2>1 DEF Marked
<1>3. CASE gc_refs[o] # 0
  <2>1. o \in Live(ptr)
      BY <1>1, <1>3 DEF Marked
  <2>2. Referents(o) \subseteq Live(ptr)
    <3>1. Closed(ptr, Live(ptr))
        BY LiveLeast DEF TypeOK
    <3>2. ASSUME NEW f \in Field
          PROVE  ptr[<<o, f>>] \in Live(ptr) \cup {NULL}
      <4>1. <<o, f>> \in ({STACK} \cup Live(ptr)) \X Field
          BY <2>1
      <4> QED
          BY <3>1, <4>1 DEF Closed
    <3> QED
        BY <3>2 DEF Referents
  <2>3. \A t \in Obj : t \notin Referents(o) /\ t # o => gc_refs'[t] = gc_refs[t] /\ list'[t] = list[t]
      BY <1>1, <1>3 DEF MoveUnreachable, VisitReachable
  <2> QED
      BY <1>1, <2>1, <2>2, <2>3 DEF Marked, Young
<1> QED
    BY <1>2, <1>3

LEMMA NextWhole ==
    ASSUME Hidden, Tracked, Whole, [Next]_vars
    PROVE  Whole'
<1> USE DEF Hidden, Counts, TypeOK
<1>1. ASSUME NEW g \in GENERATIONS, NEW c, BeginCollect(g, c), UNCHANGED kind, pc = "run"
      PROVE  Whole'
  <2>1. \A o \in Alive : list[o] \in GENERATIONS
      BY <1>1 DEF Tracked, Alive, Collecting, NoneAside, Unreachable
  <2> QED
      BY <1>1, <2>1 DEF BeginCollect, Whole, Alive
<1>2. CASE Program
  <2>1. CASE \E o \in Obj, k \in Kinds, s \in Field, err \in BOOLEAN : GC_Malloc(o, k, s, err)
      BY <1>1, <2>1 DEF GC_Malloc, Running, heap, Whole
  <2>2. CASE GC_Collect
      BY <1>1, <2>2 DEF GC_Collect, Running, heap
  <2> QED
      BY <1>2, <2>1, <2>2
      DEF Program, InitObject, StoreSubscript, Load, BinarySubscript, Pop, Running, Whole
<1>3. CASE Collect
  <2>1. ASSUME NEW o \in Obj, MoveUnreachable(o)
        PROVE  Whole'
    <3>1. pc = "move" /\ UNCHANGED <<kind, gen>>
        BY <2>1 DEF MoveUnreachable, heap
    <3>2. \A t \in Obj : list'[t] \in {list[t], gen, UNREACHABLE}
        BY <2>1 DEF MoveUnreachable, VisitReachable
    <3> QED
        BY <3>1, <3>2 DEF Whole, Alive
  <2> QED
      BY <1>3, <2>1 DEF Collect, UpdateRefs, SubtractRefs, Survive, DeleteGarbage, ClearSlot,
                        Cleared, Relink, EndCollect, heap, collector, Whole, Alive
<1>4. CASE Release
    BY <1>4 DEF Release, Dealloc, GC_Free, Quiet, Whole
<1>5. CASE UNCHANGED vars
    BY <1>5 DEF vars, Whole, Alive
<1> QED
    BY <1>2, <1>3, <1>4, <1>5 DEF Next

LEMMA NextMarked ==
    ASSUME Hidden, Whole, Marked, [Next]_vars
    PROVE  Marked'
<1> USE DEF Hidden, Counts
<1>1. CASE Program
    BY <1>1 DEF Program, GC_Malloc, BeginCollect, InitObject, StoreSubscript, Load,
                BinarySubscript, Pop, GC_Collect, Running, Marked
<1>2. CASE SubtractRefs
  <2>1. UNCHANGED <<ptr, list, gen>>
      BY <1>2 DEF SubtractRefs, heap
  <2>2. gen = 2 => \A o \in Young : gc_refs'[o] # 0 => o \in Live(ptr)
      BY <1>2, SubtractMarks
  <2> QED
      BY <2>1, <2>2 DEF Marked, Young
<1>3. ASSUME NEW o \in Obj, MoveUnreachable(o)
      PROVE  Marked'
  <2>1. gen' = gen
      BY <1>3 DEF MoveUnreachable
  <2>2. pc' = "move" /\ gen = 2 => Marked'
      BY <1>3, WalkMarks
  <2> QED
      BY <2>1, <2>2 DEF Marked
<1>4. CASE Collect /\ ~ SubtractRefs /\ ~ \E o \in Obj : MoveUnreachable(o)
    BY <1>4 DEF Collect, UpdateRefs, Survive, DeleteGarbage, ClearSlot, Cleared, Relink,
                EndCollect, Marked
<1>5. CASE Release
    BY <1>5 DEF Release, Dealloc, GC_Free, Quiet, Marked
<1>6. CASE UNCHANGED vars
    BY <1>6 DEF vars, Marked, Young
<1> QED
    BY <1>1, <1>2, <1>3, <1>4, <1>5, <1>6 DEF Next

\* When the walk is over young holds what it marked.
LEMMA SurviveFinds ==
    ASSUME Hidden, Whole, Marked, Survive
    PROVE  Found'
<1> USE DEF Hidden, Counts, Collecting
<1>1. pc = "move" /\ todo = {} /\ garbage' = Unreachable /\ UNCHANGED <<ptr, kind, gen>>
    BY DEF Survive, heap
<1>2. ASSUME gen = 2, NEW o \in Alive, o \notin Unreachable
      PROVE  o \in Live(ptr)
  <2>1. o \in Young
      BY <1>1, <1>2 DEF Whole, Alive, Young, Unreachable
  <2>2. gc_refs[o] = REACHABLE
      BY <1>1, <2>1 DEF WalkInvariant
  <2> QED
      BY <1>1, <1>2, <2>1, <2>2 DEF Marked, REACHABLE
<1> QED
    BY <1>1, <1>2 DEF Found, Alive

LEMMA NextFound ==
    ASSUME Hidden, Whole, Marked, Found, [Next]_vars
    PROVE  Found'
<1> USE DEF Hidden, Counts
<1>1. CASE Program
    BY <1>1 DEF Program, GC_Malloc, BeginCollect, InitObject, StoreSubscript, Load,
                BinarySubscript, Pop, GC_Collect, Running, Found
<1>2. CASE Survive
    BY <1>2, SurviveFinds
<1>3. CASE (Collect \/ Release) /\ ~ Survive
  <2>1. Live(ptr') = Live(ptr)
      BY <1>3, CollectorInvisible
  <2>2. Alive' \subseteq Alive
    <3>1. kind' = kind \/ \E o \in Obj : kind' = [kind EXCEPT ![o] = NULL]
        BY <1>3 DEF Collect, UpdateRefs, SubtractRefs, MoveUnreachable, DeleteGarbage, ClearSlot,
                    Cleared, Relink, EndCollect, Release, Dealloc, GC_Free, heap
    <3> QED
        BY <3>1 DEF Alive, TypeOK
  <2>3. pc' \in {"delete", "clear", "relink"} =>
            pc \in {"delete", "clear", "relink"} /\ UNCHANGED <<gen, garbage>>
      BY <1>3 DEF Collect, UpdateRefs, SubtractRefs, MoveUnreachable, VisitReachable,
                  DeleteGarbage, ClearSlot, Cleared, Relink, EndCollect, Release, Dealloc,
                  GC_Free, collector
  <2> QED
      BY <2>1, <2>2, <2>3 DEF Found
<1>4. CASE UNCHANGED vars
    BY <1>4 DEF vars, Found, Alive
<1> QED
    BY <1>1, <1>2, <1>3, <1>4 DEF Next

LEMMA ListsOnly == ASSUME "dict" \notin Kinds PROVE "dict" \notin Subscripted
BY KindsAssumption

\* A collection of the oldest generation looks at every container, and keeps none that the
\* program cannot reach (update_refs, move_unreachable).
THEOREM FullInvariant ==
    ASSUME "dict" \notin Kinds
    PROVE  Spec => []Full
<1>1. Hidden /\ Full /\ [Next]_vars => Full'
    BY NextTracked, NextWhole, NextMarked, NextFound DEF Hidden, Full
<1>2. Spec => []Hidden
    BY ListsOnly, HiddenInvariant
<1> QED
    BY <1>1, <1>2, InitFull, PTL DEF Spec

\* gc_collect(), and an allocation that collects the oldest generation, leave nothing that
\* the program cannot reach, whatever cycles of lists and tuples there were and whatever
\* the walk of move_unreachable did first.
THEOREM CollectionIsComplete ==
    ASSUME "dict" \notin Kinds
    PROVE  Spec => FullCollectionComplete
<1>1. Hidden /\ Complete /\ Full /\ [Next]_vars =>
          [Returns /\ gen = 2 => Alive \subseteq Live(ptr)]_vars
  <2> SUFFICES ASSUME Hidden, Complete, Full, [Next]_vars, Returns, gen = 2
               PROVE  Alive \subseteq Live(ptr)
      OBVIOUS
  <2>1. EndCollect /\ pc = "delete"
      BY ReturnsAtEnd DEF Hidden, Counts, Returns
  <2>2. \A o \in garbage : kind[o] = NULL
      BY <2>1, AllFreed DEF EndCollect
  <2> QED
      BY <2>1, <2>2 DEF Full, Found, Alive
<1>2. Spec => []Hidden /\ []Complete
    BY ListsOnly, HiddenInvariant, CompleteInvariant, PTL
<1> QED
    BY <1>1, <1>2, FullInvariant, PTL DEF Spec, FullCollectionComplete

-----------------------------------------------------------------------------
(* The asserts of the collector, for a program of lists and tuples that has no more       *)
(* containers than generation 0 may hold: each of its collections is a full one, begun    *)
(* by gc_collect().                                                                        *)

Settled(o) == gc_refs[o] = REACHABLE /\ list[o] \in GENERATIONS

States ==
    /\ ~ Stopped
    /\ \A o \in Obj \ Alive : gc_refs[o] = UNTRACKED
    /\ pc \notin {"run", "init"} => gen = 2
    /\ pc \in {"run", "init", "update"} => \A o \in Alive : Settled(o)
    /\ pc \in {"delete", "clear", "relink"} =>
           \A o \in Alive : Settled(o) \/ (list[o] = UNREACHABLE /\ gc_refs[o] = TENTATIVELY_UNREACHABLE)

\* Generation 0 does not count more than there are.
Counted == count[0] <= Cardinality(Alive) + (IF new = NULL THEN 0 ELSE 1)

Sound == Hidden /\ Full /\ States /\ Counted

\* Taking a block into use adds one, freeing it takes one.
LEMMA AliveCount ==
    ASSUME NEW S \in SUBSET Obj, NEW o \in Obj
    PROVE  /\ Cardinality(S) \in Nat
           /\ o \notin S => Cardinality(S \cup {o}) = Cardinality(S) + 1 /\ Cardinality(S) < Cardinality(Obj)
           /\ o \in S => Cardinality(S \ {o}) = Cardinality(S) - 1
<1>1. IsFiniteSet(S) /\ Cardinality(S) \in Nat
    BY HeapAssumption, FS_Subset, FS_CardinalityType
<1>2. ASSUME o \notin S
      PROVE  Cardinality(S \cup {o}) = Cardinality(S) + 1 /\ Cardinality(S) < Cardinality(Obj)
  <2>1. Cardinality(S \cup {o}) = Cardinality(S) + 1
      BY <1>1, <1>2, FS_AddElement
  <2>2. S \cup {o} \subseteq Obj
      OBVIOUS
  <2>3. Cardinality(S \cup {o}) <= Cardinality(Obj) /\ Cardinality(Obj) \in Nat
      BY <2>2, HeapAssumption, FS_Subset, FS_CardinalityType
  <2> QED
      BY <1>1, <2>1, <2>3
<1>3. o \in S => Cardinality(S \ {o}) = Cardinality(S) - 1
    BY <1>1, FS_RemoveElement
<1> QED
    BY <1>1, <1>2, <1>3

LEMMA InitSound == Init => Counted /\ States
<1> SUFFICES ASSUME Init PROVE Counted /\ States
    OBVIOUS
<1>1. Alive = {} /\ Cardinality(Alive) = 0
    BY FS_EmptySet DEF Init, Alive
<1> QED
    BY <1>1 DEF Init, Counted, States, Stopped

LEMMA NextCounted ==
    ASSUME Counts, Counted, [Next]_vars
    PROVE  Counted'
<1> USE DEF Counts, TypeOK
<1>1. \A o \in Obj : /\ Cardinality(Alive) \in Nat
                     /\ o \notin Alive => Cardinality(Alive \cup {o}) = Cardinality(Alive) + 1
                     /\ o \in Alive => Cardinality(Alive \ {o}) = Cardinality(Alive) - 1
    BY AliveCount DEF Alive
<1>2. Cardinality(Alive) \in Nat
    BY HeapAssumption, FS_Subset, FS_CardinalityType DEF Alive
<1>3. ASSUME NEW g \in GENERATIONS, NEW c, BeginCollect(g, c)
      PROVE  count'[0] = 0
    BY <1>3 DEF BeginCollect
<1>4. ASSUME NEW o \in Obj, NEW k \in Kinds, NEW s \in Field, NEW err \in BOOLEAN,
             GC_Malloc(o, k, s, err)
      PROVE  Counted'
  <2>1. new' # NULL /\ Alive' = Alive /\ new = NULL
      BY <1>4, KindsAssumption DEF GC_Malloc, heap, Alive, Allocating, Running
  <2>2. count'[0] \in {0, count[0] + 1}
      BY <1>3, <1>4 DEF GC_Malloc
  <2> QED
      BY <1>2, <2>1, <2>2 DEF Counted
<1>5. ASSUME NEW operands \in [Field -> Operand], InitObject(operands)
      PROVE  Counted'
  <2>1. new # NULL /\ new' = NULL /\ UNCHANGED count
      BY <1>5 DEF InitObject, Pending
  <2>2. new[1] \in Obj \ Alive /\ new[2] \in Kinds
      BY <2>1 DEF Allocating, Alive
  <2>3. Alive' = Alive \cup {new[1]}
      BY <1>5, <2>2, KindsAssumption DEF InitObject, Alive
  <2> QED
      BY <1>1, <2>1, <2>2, <2>3 DEF Counted
<1>6. ASSUME NEW o \in Obj, Dealloc(o)
      PROVE  Counted'
  <2>1. CASE Referents(o) # {}
      BY <1>6, <2>1 DEF Dealloc, Counted, Alive
  <2>2. CASE Referents(o) = {}
    <3>1. o \in Alive /\ Alive' = Alive \ {o} /\ new' = new
        BY <1>6, <2>2 DEF Dealloc, GC_Free, Alive, Dying
    <3>2. count[0] \in Nat /\ count'[0] = IF count[0] > 0 THEN count[0] - 1 ELSE 0
        BY <1>6, <2>2 DEF Dealloc, GC_Free
    <3>3. Alive \ {o} \in SUBSET Obj
        BY DEF Alive
    <3>4. Cardinality(Alive') \in Nat
        BY <3>1, <3>3, HeapAssumption, FS_Subset, FS_CardinalityType
    <3>5. Cardinality(Alive') = Cardinality(Alive) - 1
        BY <1>1, <3>1
    <3> QED
        BY <1>2, <3>1, <3>2, <3>4, <3>5 DEF Counted
  <2> QED
      BY <2>1, <2>2
<1>7. CASE GC_Collect
  <2>1. count'[0] = 0 /\ UNCHANGED <<new, kind>>
      BY <1>3, <1>7 DEF GC_Collect, heap
  <2> QED
      BY <1>2, <2>1 DEF Counted, Alive
<1>8. ASSUME UNCHANGED <<count, kind, new>>
      PROVE  Counted'
    BY <1>8 DEF Counted, Alive
<1>9. CASE Collect
    BY <1>8, <1>9 DEF Collect, UpdateRefs, SubtractRefs, MoveUnreachable, Survive, DeleteGarbage,
                      ClearSlot, Cleared, Relink, EndCollect, heap
<1>10. CASE Program
    BY <1>4, <1>5, <1>7, <1>8, <1>10 DEF Program, StoreSubscript, Load, BinarySubscript, Pop
<1> QED
    BY <1>6, <1>8, <1>9, <1>10 DEF Next, Release, vars

LEMMA ProgramStates ==
    ASSUME "dict" \notin Kinds, Cardinality(Obj) <= Threshold[0], Sound, Program
    PROVE  States'
<1> USE DEF Sound, Hidden, Counts, TypeOK, Full
<1>1. ASSUME NEW c, BeginCollect(2, c), UNCHANGED <<kind, gc_refs>>, pc = "run"
      PROVE  States'
    BY <1>1 DEF BeginCollect, States, Stopped, Alive, Settled
<1>2. ASSUME NEW o \in Obj, NEW k \in Kinds, NEW s \in Field, NEW err \in BOOLEAN,
             GC_Malloc(o, k, s, err)
      PROVE  States'
  <2>1. o \notin Alive /\ new = NULL /\ pc = "run"
      BY <1>2 DEF GC_Malloc, Alive, Allocating, Running
  <2>2. Cardinality(Alive) < Cardinality(Obj) /\ Cardinality(Alive) \in Nat /\ Cardinality(Obj) \in Nat
      BY <2>1, AliveCount, HeapAssumption, FS_CardinalityType DEF Alive
  <2>3. count[0] + 1 <= Threshold[0] /\ Threshold[0] \in Nat
      BY <2>1, <2>2, ThresholdAssumption DEF Counted
  <2>4. pc' = "init" /\ UNCHANGED <<heap, gc_refs, list>>
      BY <1>2, <2>3 DEF GC_Malloc
  <2> QED
      BY <2>1, <2>4 DEF States, Stopped, Alive, heap, Settled
<1>3. ASSUME NEW operands \in [Field -> Operand], InitObject(operands)
      PROVE  States'
  <2>1. new # NULL /\ pc = "init" /\ pc' = "run"
      BY <1>3 DEF InitObject, Pending
  <2>2. new[1] \in Obj \ Alive /\ new[2] \in Kinds
      BY <2>1 DEF Allocating, Alive
  <2>3. Alive' = Alive \cup {new[1]}
      BY <1>3, <2>2, KindsAssumption DEF InitObject, Alive
  <2>4. /\ gc_refs' = [gc_refs EXCEPT ![new[1]] = REACHABLE]
        /\ list' = [list EXCEPT ![new[1]] = 0]
      BY <1>3, <2>2 DEF InitObject
  <2> QED
      BY <2>1, <2>2, <2>3, <2>4 DEF States, Stopped, Settled
<1>4. ASSUME NEW s \in Field, NEW f \in Field, NEW item \in Operand, StoreSubscript(s, f, item)
      PROVE  States'
  <2>1. ptr[<<STACK, s>>] \in Obj
      BY <1>4 DEF StoreSubscript, Slot, Ref
  <2>2. kind[ptr[<<STACK, s>>]] # "dict"
      BY <2>1, KindsAssumption
  <2>3. UNCHANGED <<kind, gc_refs, list, pc>>
      BY <1>4, <2>2 DEF StoreSubscript
  <2> QED
      BY <1>4, <2>3 DEF States, Stopped, Alive, Settled, StoreSubscript, Running
<1>5. CASE GC_Collect
    BY <1>1, <1>5 DEF GC_Collect, Running, heap
<1>6. ASSUME UNCHANGED <<kind, gc_refs, list, pc, collector>>
      PROVE  States'
    BY <1>6 DEF States, Stopped, Alive, Settled, collector
<1>7. CASE \E s, t \in Field : Load(s, t) \/ BinarySubscript(s, t) \/ Pop(s)
    BY <1>6, <1>7 DEF Load, BinarySubscript, Pop
<1> QED
    BY <1>2, <1>3, <1>4, <1>5, <1>7 DEF Program

\* In the walk of a full collection every container is to be walked, walked or set aside.
LEMMA WalkStates ==
    ASSUME Sound, NEW o \in Obj, MoveUnreachable(o)
    PROVE  States'
<1> USE DEF Sound, Hidden, Counts, Collecting, Full
<1>1. /\ pc = "move" /\ o \in todo /\ o \in Alive /\ gen = 2
      /\ Alive' = Alive /\ gen' = gen
    BY DEF MoveUnreachable, heap, Walking, Young, Linked, TypeOK, States, Alive
<1>2. \A t \in Alive : gc_refs[t] >= TENTATIVELY_UNREACHABLE
  <2>1. \A t \in Alive : t \in todo \/ t \in Young \ todo \/ t \in Unreachable
      BY <1>1 DEF Whole, Young, Unreachable, Alive
  <2>2. \A t \in todo : gc_refs[t] >= 0 /\ gc_refs[t] \in Int
      BY <1>1 DEF Enclosed, TypeOK
  <2>3. \A t \in Young \ todo : gc_refs[t] = REACHABLE
      BY <1>1 DEF WalkInvariant
  <2>4. \A t \in Unreachable : gc_refs[t] = TENTATIVELY_UNREACHABLE
      BY <1>1 DEF Enclosed
  <2> QED
      BY <2>1, <2>2, <2>3, <2>4 DEF REACHABLE, TENTATIVELY_UNREACHABLE
<1>3. Referents(o) \subseteq Alive
  <2>1. Referents(o) \subseteq Obj /\ \A f \in Field : <<o, f>> \in Slot
      BY ReferentsTyped DEF Slot
  <2> QED
      BY <2>1 DEF Referents, NoDangling, Alive
<1>4. ~ Stopped' /\ \A t \in Obj \ Alive : gc_refs'[t] = gc_refs[t]
  <2>1. CASE gc_refs[o] = 0
      BY <1>1, <2>1 DEF MoveUnreachable, Stopped, TypeOK
  <2>2. CASE gc_refs[o] # 0
    <3>1. \A t \in Obj : [gc_refs EXCEPT ![o] = REACHABLE][t] = IF t = o THEN REACHABLE ELSE gc_refs[t]
        BY DEF TypeOK
    <3>2. \A t \in Referents(o) : ~ [gc_refs EXCEPT ![o] = REACHABLE][t] < TENTATIVELY_UNREACHABLE
        BY <1>2, <1>3, <3>1 DEF Alive, REACHABLE, TENTATIVELY_UNREACHABLE, TypeOK
    <3>3. \A t \in Referents(o) : list[t] # UNLINKED
        BY <1>3 DEF Tracked
    <3>4. VisitReachable(o)
        BY <2>2 DEF MoveUnreachable
    <3> QED
        BY <1>1, <1>3, <3>1, <3>2, <3>3, <3>4 DEF VisitReachable, Stopped, Alive
  <2> QED
      BY <2>1, <2>2
<1>5. pc' = "move"
    BY <1>1, <1>4 DEF MoveUnreachable, VisitReachable, Stopped
<1> QED
    BY <1>1, <1>4, <1>5 DEF States

LEMMA CollectStates ==
    ASSUME Sound, Collect
    PROVE  States'
<1> USE DEF Sound, Hidden, Counts, Collecting, Full
<1>1. TypeOK
    OBVIOUS
<1>2. CASE UpdateRefs
  <2>1. pc = "update" /\ gen = 2 /\ \A o \in Alive : Settled(o) /\ refcnt[o] # 0
      BY <1>2 DEF UpdateRefs, States, Quiet, Dying
  <2>2. Young \subseteq Alive
      BY <1>1, <2>1 DEF Young, Linked
  <2>3. pc' = "subtract" /\ \A o \in Obj \ Alive : gc_refs'[o] = gc_refs[o]
      BY <1>2, <2>1, <2>2 DEF UpdateRefs, Settled
  <2> QED
      BY <1>2, <2>1, <2>3 DEF UpdateRefs, States, Stopped, Alive, heap, collector
<1>3. CASE SubtractRefs
  <2>1. ASSUME NEW o \in Obj \ Alive
        PROVE  gc_refs'[o] = gc_refs[o]
    <3>1. Internal(o) = {}
      <4>1. Young \X Field \subseteq Slot
          BY DEF Young, Slot
      <4> QED
          BY <2>1, <4>1, HeapAssumption DEF Internal, NoDangling, Alive
    <3>2. Cardinality(Internal(o)) = 0
        BY <3>1, FS_EmptySet
    <3>3. gc_refs[o] = UNTRACKED
        BY DEF States
    <3> QED
        BY <1>3, <3>2, <3>3 DEF SubtractRefs, UNTRACKED, LOWEST
  <2> QED
      BY <1>3, <2>1 DEF SubtractRefs, States, Stopped, Alive, heap
<1>4. CASE Survive
  <2>1. /\ pc = "move" /\ gen = 2 /\ todo = {} /\ pc' = "delete" /\ gen' = 2 /\ Alive' = Alive
        /\ UNCHANGED gc_refs
      BY <1>4 DEF Survive, States, Alive, heap
  <2>2. ASSUME NEW o \in Alive
        PROVE  Settled(o)' \/ (list'[o] = UNREACHABLE /\ gc_refs'[o] = TENTATIVELY_UNREACHABLE)
    <3>1. CASE o \in Young
        BY <1>4, <2>1, <3>1 DEF Survive, WalkInvariant, Settled, Old, Young
    <3>2. CASE o \in Unreachable
        BY <1>1, <1>4, <2>1, <3>2 DEF Survive, Enclosed, Old, Young, Unreachable
    <3> QED
        BY <2>1, <3>1, <3>2 DEF Whole, Alive, Young, Unreachable
  <2> QED
      BY <2>1, <2>2 DEF States, Stopped
<1>5. ASSUME NEW o \in Obj, DeleteGarbage(o)
      PROVE  States'
  <2>1. pc = "delete" /\ o \in Alive /\ list[o] = UNREACHABLE /\ gen = 2 /\ UNCHANGED <<kind, gen>>
      BY <1>5 DEF DeleteGarbage, Unreachable, Linked, States
  <2>2. gc_refs[o] = TENTATIVELY_UNREACHABLE
      BY <2>1 DEF States, Settled
  <2>3. CASE kind[o] = "tuple"
    <3>1. /\ list' = [list EXCEPT ![o] = Old]
          /\ gc_refs' = [gc_refs EXCEPT ![o] = REACHABLE]
          /\ UNCHANGED pc
        BY <1>5, <2>2, <2>3 DEF DeleteGarbage
    <3> QED
        BY <1>1, <2>1, <3>1 DEF States, Stopped, Alive, Settled, Old, TypeOK
  <2>4. CASE kind[o] # "tuple"
    <3>1. pc' = "clear" /\ UNCHANGED <<gc_refs, list>>
        BY <1>5, <2>2, <2>4 DEF DeleteGarbage
    <3> QED
        BY <2>1, <3>1 DEF States, Stopped, Alive, Settled
  <2> QED
      BY <2>3, <2>4
<1>6. CASE Relink
  <2>1. pc = "relink" /\ pc' = "delete" /\ UNCHANGED <<kind, gen>> /\ gen = 2
      BY <1>6 DEF Relink, heap, States
  <2>2. CASE cur \in Unreachable
    <3>1. /\ list' = [list EXCEPT ![cur] = Old]
          /\ gc_refs' = [gc_refs EXCEPT ![cur] = REACHABLE]
        BY <1>6, <2>2 DEF Relink
    <3>2. cur \in Alive
        BY <2>2 DEF Unreachable, Linked
    <3> QED
        BY <1>1, <2>1, <3>1, <3>2 DEF States, Stopped, Alive, Settled, Old, TypeOK
  <2>3. CASE cur \notin Unreachable
      BY <1>6, <2>1, <2>3 DEF Relink, States, Stopped, Alive, Settled
  <2> QED
      BY <2>2, <2>3
<1>7. CASE EndCollect
  <2>1. \A o \in Alive : Settled(o)
      BY <1>7 DEF EndCollect, States, Unreachable, Alive
  <2> QED
      BY <1>7, <2>1 DEF EndCollect, States, Stopped, Alive, Settled, heap
<1>8. CASE Cleared \/ \E f \in Field : ClearSlot(f)
    BY <1>8 DEF Cleared, ClearSlot, States, Stopped, Alive, Settled, collector
<1> QED
    BY <1>2, <1>3, <1>4, <1>5, <1>6, <1>7, <1>8, WalkStates DEF Collect

LEMMA ReleaseStates ==
    ASSUME Sound, NEW o \in Obj, Dealloc(o)
    PROVE  States'
<1> USE DEF Sound, Hidden, Counts, Full
<1>1. o \in Alive /\ list[o] # UNLINKED
    BY DEF Dealloc, Dying, Tracked
<1>2. CASE Referents(o) # {}
    BY <1>2 DEF Dealloc, States, Stopped, Alive, Settled, collector
<1>3. CASE Referents(o) = {}
  <2>1. GC_Free(o) /\ gen' = gen
      BY <1>3 DEF Dealloc, collector
  <2> QED
      BY <1>1, <2>1 DEF GC_Free, States, Stopped, Alive, Settled, TypeOK
<1> QED
    BY <1>2, <1>3

\* In a program of lists and tuples that gc_collect() alone collects, gc_refs and the list of
\* an object agree at every moment (gc.c).
THEOREM SoundInvariant ==
    ASSUME "dict" \notin Kinds, Cardinality(Obj) <= Threshold[0]
    PROVE  Spec => []Sound
<1>1. Hidden /\ Full /\ States /\ Counted /\ [Next]_vars => States'
  <2> SUFFICES ASSUME Hidden, Full, States, Counted, [Next]_vars
               PROVE  States'
      OBVIOUS
  <2>1. CASE UNCHANGED vars
      BY <2>1 DEF vars, States, Stopped, Alive, Settled
  <2> QED
      BY <2>1, ProgramStates, CollectStates, ReleaseStates DEF Sound, Next, Release
<1>2. Hidden /\ Counted /\ [Next]_vars => Counted'
    BY NextCounted DEF Hidden
<1>3. Spec => []Hidden
    BY ListsOnly, HiddenInvariant
<1> QED
    BY <1>1, <1>2, <1>3, FullInvariant, InitSound, PTL DEF Spec, Sound

\* In such a program no assert of gc.c fails and no node that is in no list is unlinked:
\* those that do fail (minor collections, dicts) need an allocation that collects, or a dict.
THEOREM AssertsAreMet ==
    ASSUME "dict" \notin Kinds, Cardinality(Obj) <= Threshold[0]
    PROVE  Spec => []AssertsHold
<1>1. Sound => AssertsHold
    BY DEF Sound, States, AssertsHold
<1> QED
    BY <1>1, SoundInvariant, PTL

\* And between its collections every container is in a list and marked GC_REACHABLE, every
\* free block in none and GC_UNTRACKED.
THEOREM StatesAreTracked ==
    ASSUME "dict" \notin Kinds, Cardinality(Obj) <= Threshold[0]
    PROVE  Spec => []TrackingStates
<1>1. Sound => TrackingStates
    BY DEF Sound, Hidden, Counts, States, TrackingStates, Settled, Linked
<1> QED
    BY <1>1, SoundInvariant, PTL

=============================================================================
