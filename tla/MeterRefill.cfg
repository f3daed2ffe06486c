SPECIFICATION Spec
CONSTANTS
  Pmds = {p1}
  Configs <- MCConfigs
  Batches <- MCBatches
  SCALE = 1000
  DELTA_VALUES = 65536
  Meters = {1}
  MaxTime = 2
  MaxBatches = 2
  None = None
INVARIANT IdleFills
CHECK_DEADLOCK FALSE
