SPECIFICATION Spec
CONSTANTS
    w1 = w1
    w2 = w2
    w3 = w3
    NoToken = NoToken
    Workers <- MCTwoWorkers
    InitialDelay = 1
    MaxDelay = 2
    AcquireTimeout = 8
CHECK_DEADLOCK FALSE
INVARIANTS MutexUnlessExpired
PROPERTIES OnlyHolderOrTtlFrees AttemptsEnd OrphansGo ImplementsLease
