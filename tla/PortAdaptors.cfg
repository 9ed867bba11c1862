CONSTANTS
    t1 = t1
    t2 = t2
    l1 = l1
    FtTrans = {t1, t2}
    LtTrans = {l1}
    None = None
    TotalCapacity = 1
    Setups <- MCSetups
SPECIFICATION Spec
INVARIANTS
    BaseProtocolKept
    NothingIsForgotten
