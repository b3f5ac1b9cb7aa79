SPECIFICATION Spec
CONSTANTS
    t1 = t1
    t2 = t2
    t3 = t3
    t4 = t4
    s1 = s1
    s2 = s2
    Tasks = {t1, t2, t3, t4}
    Slots = {w1, w2}
    Single = {s2}
    Stopper = stopper
    Janitor = janitor
    Resizer = resizer
    Dispatcher = dispatcher
    None = None
    MaxShrinks = 2
    MaxResizes = 1
    maxConcurrent = 2
    Submitters <- LargeSubmitters
    Batch <- LargeBatch
    queueSize <- LargeQueues
    Sizings <- LargeSizings
    First <- OneToTwo
SYMMETRY SlotSymmetry
INVARIANT NoLostWakeup
INVARIANT Counted
PROPERTY Implements
