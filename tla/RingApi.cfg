SPECIFICATION MCSpec
CONSTANTS
  RB_SIZE = 3
  RB_BATCH = 2
  Tuples = {t1, t2}
  NoTuple = NoTuple
  ApiCalls = {"writerFlush", "readerFlush", "readComplete"}
  MaxStores = 5
  pmd0 = pmd0
  pmd1 = pmd1
  pmd2 = pmd2
  r1 = r1
  r2 = r2
  rb_0 = rb_0
  rb_x = rb_x
  Threads <- PollThreads
  Names <- RingNames
  ring_name <- NameOf
  Readers <- Programs
  reader_name <- ConnectsTo
  MaxObjects = 4
  RingSize = 2
CONSTRAINT FewKilledPublishes
INVARIANT IInv
PROPERTIES FifoQueue SetupSound
