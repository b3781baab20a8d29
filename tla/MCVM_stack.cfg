SPECIFICATION Spec
CONSTANTS
  FRAME_MAXBLOCKS = 20
  MaxChoices = 3
  Family = "catches"
  Programs <- MCPrograms
  Codes <- MCCodes
INVARIANT LoopsKeepStack
CHECK_DEADLOCK FALSE
