SPECIFICATION RestartSpec
CONSTANTS
  RB_SIZE = 4
  RB_BATCH = 1
  Tuples = {t1}
  NoTuple = NoTuple
  ApiCalls = {}
  MaxRestarts = 2
INVARIANTS CopiesApart ReportsHonest
PROPERTIES WriteReturns StoredIsRead
