SPECIFICATION FairSpec
CONSTANTS
  FRAME_MAXBLOCKS = 20
  MaxChoices = 3
  Family = "supported"
  Programs <- MCPrograms
  Codes <- MCCodes
INVARIANTS
  
  BlocksMatch
  PlainStackFits
PROPERTIES
  Ends
CHECK_DEADLOCK FALSE
