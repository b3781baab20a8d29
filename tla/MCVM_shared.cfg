SPECIFICATION Spec
CONSTANTS
  FRAME_MAXBLOCKS = 20
  MaxChoices = 3
  Family = "shared"
  Programs <- MCPrograms
  Codes <- MCCodes
INVARIANT SharesVariables
CHECK_DEADLOCK FALSE
