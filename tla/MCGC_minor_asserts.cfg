\* Lists, every allocation collects: the asserts of gc.c.
SPECIFICATION Spec
CONSTANTS
  Obj = {o1, o2, o3}
  Field = {f1, f2}
  NULL = NULL
  STACK = STACK
  Kinds = {"list"}
  Subscripted = {"list"}
  Threshold <- Eager
SYMMETRY Symmetry
INVARIANTS
  AssertsHold
CHECK_DEADLOCK FALSE
