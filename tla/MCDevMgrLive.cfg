SPECIFICATION FairSpec
CONSTANTS
    a = a
    b = b
    u = u
    listen = listen
    Ids = {a}
    Known = {a}
    Fds = {1}
    MaxConns = 2
    MaxMsgs = 2
    Cmds = {"register", "fw_request"}
    TCP_TIMEOUT = 1
    MaxAge = 1
PROPERTIES SilenceIsCleaned MessageIsRead
CHECK_DEADLOCK FALSE
