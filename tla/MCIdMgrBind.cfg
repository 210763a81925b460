SPECIFICATION LookupSpec
CONSTANTS
    d1 = d1
    d2 = d2
    o1 = o1
    o2 = o2
    NoOpenid = NoOpenid
    Uuids = {d1}
    Openids = {o1, o2}
    Failures = {}
    MayBeEmpty = {}
    MaxCrashes = 0
    MaxAppRequests = 3
    MaxPages = 3
    OldRows <- NoRows
    NextId = 1
    MaxLookups = 0
INVARIANTS BindSuccessMeansBound
CHECK_DEADLOCK FALSE
