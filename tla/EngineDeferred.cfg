SPECIFICATION FairSpec
CONSTANTS
    c1 = c1
    c2 = c2
    a1 = a1
    a2 = a2
    a3 = a3
    Conns = {c1, c2}
    Workers = {w1}
    Apps = {a1, a2, a3}
    None = None
    Chosen = "deferred"
    AppConn <- MCAppConn
    Configs <- MCConfigs
PROPERTY InputServed
CHECK_DEADLOCK FALSE
