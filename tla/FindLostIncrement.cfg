SPECIFICATION SafeStore
CONSTANTS
    w1 = w1
    w2 = w2
    w3 = w3
    Workers <- MCWorkers
    Ops <- MCReadersAndUpdates
    Faults <- MCNoFaults
CHECK_DEADLOCK FALSE
INVARIANT IncrementsCount
