SPECIFICATION MCSpec
CONSTANTS
  k1 = k1
  k2 = k2
  k3 = k3
  byte1 = byte1
  byte2 = byte2
  Keys <- MCKeys
  window_size = 2
  EPOCHS = 8
  MaxInserts = 25
  MaxClears = 1
  d = 2
  width = 2
  hash <- MCHash
  CAP = 2
  SCALE = 4
  NoKey = NoKey
  FewKeys <- TwoKeys
  cm_hash <- CMHash
  cm_cap = 1
  MAX_COUNT = 9
  cs_rows = 3
  cs_hash <- CSHash
  cs_signs <- CSSigns
  LOW <- CSLow
  HIGH = 1
  AreaInserts = 9
  bf_width = 3
  bf_positions <- BFPositions
  p4_hash <- P4Hash
  p4_cells = 2
  CYCLE = 16
  p4_cap = 3
  CELL_VALUES = 5
  MaxPackets = 9
  cu_rows = 2
  cu_cells = 6
  cu_hash <- SlidHash
  cu_window = 3
  cu_day = 2
  ct_rows = 3
  ct_cells = 6
  ct_hash <- SlidSignedHash
  ct_signs <- SlidSigns
  ct_window = 6
  ct_day = 3
  bs_cells = 4
  bs_positions <- SlidPositions
  bs_window = 4
  bs_day = 3
  hs_rows = 2
  hs_cells = 4
  hs_hash <- SlidRowHash
  hs_prefix <- SlidPrefix
  hs_day = 2
  hs_window = 4
  hs_heap = {0}
  hs_keys2 <- KeysOnOneCell
  hs_window2 = 8
  hs_heap2 <- OldHeap
INVARIANTS
  WindowExact CountBounds KeeperCellsOwn KeeperBounds
  BloomBounds MedianBounds SwitchCounts
CHECK_DEADLOCK FALSE
