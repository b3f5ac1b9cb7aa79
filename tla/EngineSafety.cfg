SPECIFICATION Spec
CONSTANTS
    c1 = c1
    c2 = c2
    a1 = a1
    a2 = a2
    a3 = a3
    Conns = {c1, c2}
    Workers = {w1, w2}
    Apps = {a1, a2, a3}
    None = None
    Chosen = "safety"
    AppConn <- MCAppConn
    Configs <- MCConfigs
SYMMETRY WorkerSymmetry
INVARIANT ExclusiveExecution
INVARIANT Ownership
INVARIANT WireInOrder
INVARIANT PendingAccounted
INVARIANT GracefulClose
INVARIANT PauseWillEnd
PROPERTY ClosedIsFinal
CHECK_DEADLOCK FALSE
