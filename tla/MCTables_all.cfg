\* Dicts: three keys and an unhashable one, two slots, four insertions.  Sets: the real table
\* of eight entries, filled with nine elements.  Lists: literals of up to three, queues of up
\* to nine elements.  A set that is full, a dict in which a deleted key is looked up, or a
\* list whose memory is corrupt, stops the interpreter.
SPECIFICATION Tables
CONSTANTS
  k0 = k0
  k1 = k1
  k2 = k2
  k3 = k3
  k4 = k4
  k5 = k5
  Key = {k0, k1, k2, kx}
  Value = {v1, v2}
  Hash <- Distinct
  MINMASK = 1
  MaxBuckets = 4
  NULL = NULL
  DUMMY = DUMMY
  Member <- Members
  MemberHash <- Hashes
  MemberType <- Types
  SETMASK = 7
  SELF = SELF
  JUNK = JUNK
  MaxLiteral = 3
  MaxQueue = 9
INVARIANTS
  TypeOK
  SetExact
  CellsValid
  RefsExact
PROPERTIES
  LookupEnds
  ImplementsMap
  ProbeEnds
  ImplementsList
CHECK_DEADLOCK FALSE
