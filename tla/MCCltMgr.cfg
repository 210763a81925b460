SPECIFICATION FairSpec
CONSTANTS
    listen = listen
    Fds = {1, 2}
    MaxConns = 2
    MaxMsgs = 3
    Cmds = {"bind", "unknown"}
    TCP_TIMEOUT = 1
    MaxAge = 1
INVARIANTS TypeOK ShakenIsTracked AnswerIsSent
PROPERTIES UpgradeIsClosed
CHECK_DEADLOCK FALSE
