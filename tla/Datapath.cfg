SPECIFICATION MCSpec
CONSTANTS
  Keys <- CacheKeys
  Megas <- CacheMegas
  mega_of <- MegaOf
  key_hash <- KeyHash
  emc_pos <- EmcPos
  smc_sig <- SmcSig
  Flows = {1, 2}
  EMC_ENTRIES = {1, 2}
  SMC_ENTRIES = {1}
  TABLE_SLOTS = {1, 2}
  SMC_INDEXES = {1}
  Settings <- InUse
  Batches <- CacheBatches
  Runt = Runt
  None = None
  key_a = key_a
  key_b = key_b
  key_c = key_c
  ma = ma
  mb = mb
  Pmds = {p1, p2}
  OffloadMegas = {m1, m2}
  r1 = r1
  r2 = r2
  r3 = r3
  k1 = k1
  k2 = k2
  match1 = match1
  match2 = match2
  Ports = {o1, o2}
  Sources = {src1, src2}
SYMMETRY Symmetry
ACTION_CONSTRAINTS InOrder LocalFirst
INVARIANTS
  RefsExact RightFlow OrderKept
  OffloadSound LookupIsAtomic MeterConforms
  OutputOrder FlushedInTime
CHECK_DEADLOCK FALSE
