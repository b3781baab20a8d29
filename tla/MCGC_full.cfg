\* Lists and tuples, collected by gc_collect() only: every collection is a full one.
SPECIFICATION Spec
CONSTANTS
  Obj = {o1, o2, o3}
  Field = {f1, f2}
  NULL = NULL
  STACK = STACK
  Kinds = {"list", "tuple"}
  Subscripted = {"list"}
  Threshold <- Never
SYMMETRY Symmetry
INVARIANTS
  TypeOK
  WalkInvariant
  AssertsHold
  TrackingStates
