SPECIFICATION FairDaemonSpec
CONSTANTS
    m1 = m1
    Msg = {m1}
    NoMsg = NoMsg
    LOG_CMD_BUF_LEN = 1
    KernelQueueLen = 1
    LOG_CHECKFILESIZE_INTERVAL = 3
    log_file_maxcount = 2
    log_file_maxsize = 1
    InitFiles = 2
    ClientSends = 4
    MaxClock = 4
    Faults = {"disk", "rm", "shell"}
    MaxFaults = 1
INVARIANTS DaemonTypeOK SurplusIsAnnounced FileSizeBounded
PROPERTIES OpenFileIsKept ComesToRest SurplusIsRemoved
CHECK_DEADLOCK FALSE
