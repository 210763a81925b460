SPECIFICATION Spec
CONSTANTS
    a = a
    b = b
    u = u
    listen = listen
    Ids = {a, u}
    Known = {a}
    Fds = {1, 2}
    MaxConns = 2
    MaxMsgs = 2
    Cmds = {"register", "heart_beat", "updata_status", "fw_request", "unknown"}
    TCP_TIMEOUT = 1
    MaxAge = 1
INVARIANTS TypeOK NoDescriptorLeak NoDeafConnection ListMatchesTable
CHECK_DEADLOCK FALSE
