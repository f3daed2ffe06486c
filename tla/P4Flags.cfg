SPECIFICATION Spec
CONSTANTS
  k1 = k1
  k2 = k2
  Keys <- MCKeys
  hash <- MCHash
  CELLS = 2
  CYCLE = 16
  CAP = 1
  CELL_VALUES = 4
  MaxPackets = 6
INVARIANT NewDataIsFlagged
CHECK_DEADLOCK FALSE
