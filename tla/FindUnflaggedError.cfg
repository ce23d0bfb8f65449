SPECIFICATION HalvesSpec
CONSTANTS
    Parts = {"queue"}
    QueueSize = 2
    MaxEvents = 4
    MayLeave = FALSE
    Faults <- MCNoFaults
    Blocks <- MCBlocks
    Messages <- MCMessages
    MaxMessages = 3
INVARIANT ErrorsAreFlagged
