SPECIFICATION FairSpec
CONSTANTS
    t1 = t1
    t2 = t2
    t3 = t3
    t4 = t4
    s1 = s1
    s2 = s2
    Tasks = {t1, t2, t3}
    Slots = {w1, w2}
    Single = {s2}
    Stopper = stopper
    Janitor = janitor
    Resizer = resizer
    Dispatcher = dispatcher
    None = None
    MaxShrinks = 0
    MaxResizes = 1
    maxConcurrent = 2
    Submitters <- SmallSubmitters
    Batch <- SmallBatch
    queueSize <- SmallQueues
    Sizings <- SmallSizings
    First <- OneToTwo
PROPERTY TasksRun
PROPERTY CallsReturn
PROPERTY CeilingReached
CHECK_DEADLOCK FALSE
