SPECIFICATION StoreSpec
CONSTANTS
    w1 = w1
    w2 = w2
    w3 = w3
    Workers <- MCTwoWorkers
    Ops <- AllOps
    Faults <- MCSomeFaults
CHECK_DEADLOCK FALSE
INVARIANTS CacheShowsCommitted FieldsStay UpdatesCount
PROPERTIES MethodsEnd CacheHeals
