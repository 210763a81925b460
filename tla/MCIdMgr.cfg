SPECIFICATION LookupSpec
CONSTANTS
    d1 = d1
    d2 = d2
    o1 = o1
    o2 = o2
    NoOpenid = NoOpenid
    Uuids = {d1, d2}
    Openids = {o1, o2}
    Failures = {"exec", "delete", "commit"}
    MayBeEmpty = {"secret"}
    MaxCrashes = 1
    MaxAppRequests = 2
    MaxPages = 2
    OldRows <- TwoRows
    NextId = 3
    MaxLookups = 1
INVARIANTS TypeOK UuidUnique LookupIsRight
PROPERTIES BindNeverSteals BindingReachesDisk
CHECK_DEADLOCK FALSE
