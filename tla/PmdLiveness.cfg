SPECIFICATION MCSpec
CONSTANTS
    Pmds = {d1, d2}
    Megas = {m1, m2}
    Flows = {f1, f2}
    MAX_MARK = 1
    MaxQueue = 1
    None = None
    Cores = {c1, c2}
    NonPmd = n0
    p1 = p1
    Rxqs = {q1, q2}
INVARIANTS MarksOwned HardwareOwned
PROPERTIES ReloadsEnd RemovedFlowsAreFreed
