\* Lists, tuples and dicts, every allocation collects: what the program sees of it, and
\* that what has begun ends. An assert, or an unlinked node, may stop the program.
SPECIFICATION FairSpec
CONSTANTS
  Obj = {o1, o2}
  Field = {f1, f2}
  NULL = NULL
  STACK = STACK
  Kinds = {"list", "tuple", "dict"}
  Subscripted = {"list"}
  Threshold <- Eager
INVARIANTS
  RefcountExact
  NoDangling
PROPERTIES
  ImplementsIdeal
  CollectionEnds
  Reclaimed
CHECK_DEADLOCK FALSE
