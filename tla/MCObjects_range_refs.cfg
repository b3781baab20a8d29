\* Ranges alone.
SPECIFICATION RangesOnly
CONSTANTS
  SHIFT = 7
  DECIMAL_SHIFT = 2
  LONG_BITS = 16
  MaxDigits = 4
  Operands <- Pairs
  BITS = 4
  Given <- RangeNumbers
  Graphs <- Written
  SLOTS = 8
  MORE = 24
  BIG = BIG
  ALIGNMENT = 8
  DEFAULT_BLOCK_SIZE = 32
  Sizes = {5, 8, 20, 40}
  Constants = {x, y}
  MaxPieces = 4
  MaxRefs = 2
  DEFAULT_INSTR_SIZE = 4
  DEFAULT_BYTECODE_SIZE = 4
  SIZEOF = 2
  Args = {0, 255, 256, 65537}
  NONE = NONE
  MaxInstrs = 5
INVARIANT RefsCounted
CHECK_DEADLOCK FALSE
