SPECIFICATION Spec
CONSTANTS
  MAX_RINGBUFFER_NUM = 2
  Zero = Zero
  MaxSent = 4
  MaxSignals = 1
INVARIANTS CountedOnce ResultLines
PROPERTIES StopsWhenTold EveryRingIsRead
CHECK_DEADLOCK FALSE
