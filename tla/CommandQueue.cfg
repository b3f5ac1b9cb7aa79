SPECIFICATION FairSpec
CONSTANTS
    c1 = c1
    c2 = c2
    c3 = c3
    c4 = c4
    w = w
    a = a
    Commands = {c1, c2, c3, c4}
    Workers = {w}
    Apps = {a}
    Stopper = stopper
    Loop = loop
    None = None
    Owner <- MCOwner
    Chained <- MCChained
CHECK_DEADLOCK FALSE
INVARIANT NoLostWakeup
INVARIANT WorkersServed
PROPERTY Implements
PROPERTY Handled
