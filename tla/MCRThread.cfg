SPECIFICATION FairSpec
CONSTANTS
    w1 = w1
    w2 = w2
    t1 = t1
    t2 = t2
    Threads = {w1, w2}
    JoinedThreads = {w1}
    Tasks = {t1, t2}
    NoTask = NoTask
    MayDestroy = TRUE
INVARIANTS TypeOK NoUseAfterFree TakenOnce FirstComeFirstServed QueueIsReleased
PROPERTIES AddedIsStarted
CHECK_DEADLOCK FALSE
