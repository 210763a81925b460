SPECIFICATION FairSpec
CONSTANTS
    m1 = m1
    m2 = m2
    Msg = {m1, m2}
    NoMsg = NoMsg
    LOG_CMD_BUF_LEN = 3
    KernelQueueLen = 2
INVARIANTS TypeOK SemCountsQueue PopFindsMessage
PROPERTIES RejectOnlyWhenFull ImplementsFifo ImplementsFairFifo AcceptedIsWritten
