SPECIFICATION Spec
CONSTANTS
    k1 = k1
    k2 = k2
    k3 = k3
    k4 = k4
    NULL = NULL
    Keys = {k1, k2, k3, k4}
    HashFn <- MCHash
    primes <- MCPrimes
    minsize = 1
    e1 = e1
    e2 = e2
    e3 = e3
    Cells = {e1, e2, e3}
    Visitors = {"clt"}
INVARIANTS TypeOK BucketsInOrder SearchIsRight
PROPERTIES ImplementsMap
CHECK_DEADLOCK FALSE
SYMMETRY Symmetry
