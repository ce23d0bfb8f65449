SPECIFICATION SocketSpec
CONSTANTS
    h1 = h1
    k1 = k1
    k2 = k2
    i1 = i1
    Streams <- MCTwoStreams
    Scoped <- MCScoped
    Prompts <- MCNone
    Requests <- MCRequests
    Signals <- MCNone
    Faults <- MCNoFaults
CHECK_DEADLOCK FALSE
INVARIANT RunningIsActive
