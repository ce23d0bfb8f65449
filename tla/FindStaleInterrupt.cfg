SPECIFICATION SocketSpec
CONSTANTS
    h1 = h1
    k1 = k1
    k2 = k2
    i1 = i1
    Streams <- MCStreams
    Scoped <- MCScoped
    Prompts <- MCPrompts
    Requests <- MCRequests
    Signals <- MCSignals
    Faults <- MCNoFaults
CHECK_DEADLOCK FALSE
INVARIANT NoStaleSignal
