SPECIFICATION Spec
CONSTANTS
  main = main
  pmd1 = pmd1
  pmd2 = pmd2
  r1 = r1
  r2 = r2
  rb_0 = rb_0
  rb_x = rb_x
  Threads <- MCThreads
  Names <- MCNames
  ring_name <- MCRingName
  Readers = {r1, r2}
  reader_name <- MCReaderName
  RB_SIZE = 2
  MaxObjects = 4
INVARIANT RingPerThread
CHECK_DEADLOCK FALSE
