SPECIFICATION Spec
CONSTANTS
    a = a
    b = b
    u = u
    listen = listen
    Ids = {a}
    Known = {a}
    Fds = {1}
    MaxConns = 2
    MaxMsgs = 1
    Cmds = {"register", "heart_beat", "updata_status", "fw_request"}
    TCP_TIMEOUT = 1
    MaxAge = 1
INVARIANTS LaterCloseFails
CHECK_DEADLOCK FALSE
