SPECIFICATION EndingSpec
CONSTANTS
    w1 = w1
    w2 = w2
    t1 = t1
    t2 = t2
    Threads = {w1, w2}
    JoinedThreads = {w1, w2}
    Tasks = {t1}
    NoTask = NoTask
    MayDestroy = TRUE
PROPERTIES DestroyReturns
CHECK_DEADLOCK FALSE
