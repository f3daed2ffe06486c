SPECIFICATION Spec
CONSTANTS
    Cores = {c1, c2}
    NonPmd = n0
    p1 = p1
    p2 = p2
    q1 = q1
    q2 = q2
    Ports = {p1, p2}
    PmdPorts = {p1}
    Rxqs = {q1, q2}
    PortOf <- MCPortOf
    MaxTxq <- MCMaxTxq
    None = None
INVARIANTS ReloadInv NoDoublePoll PortQuiescent TxQidsDistinct TxQueuesSound ReconfigurationTakesEffect
