\* Every allocation collects, generation 0, then 1, then 2. Asserts may stop the program.
SPECIFICATION Spec
CONSTANTS
  Obj = {o1, o2, o3}
  Field = {f1, f2}
  NULL = NULL
  STACK = STACK
  Kinds = {"list", "tuple"}
  Subscripted = {"list"}
  Threshold <- Eager
SYMMETRY Symmetry
CHECK_DEADLOCK FALSE
INVARIANTS
  RefcountExact
  NoDangling
  GarbageClosed
PROPERTIES
  NeverFreesLive
  GarbageFreed
  FullCollectionComplete
