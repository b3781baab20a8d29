\* Three keys in a table of two slots, which doubles at the third.
SPECIFICATION ReadsAndWrites
CONSTANTS
  k0 = k0
  k1 = k1
  k2 = k2
  k3 = k3
  k4 = k4
  k5 = k5
  Key = {k0, k1, k2}
  Value = {v1}
  Hash <- Distinct
  MINMASK = 1
  MaxBuckets = 4
  NULL = NULL
  DUMMY = DUMMY
  Member <- Members
  MemberHash <- Hashes
  MemberType <- Types
  SETMASK = 7
  SELF = SELF
  JUNK = JUNK
  MaxLiteral = 3
  MaxQueue = 9
INVARIANTS
  NoFalseMiss
CHECK_DEADLOCK FALSE
