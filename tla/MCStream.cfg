SPECIFICATION HalvesSpec
CONSTANTS
    Parts = {"events", "queue"}
    QueueSize = 2
    MaxEvents = 4
    MayLeave = TRUE
    Faults <- MCAllFaults
    Blocks <- MCBlocks
    Messages <- MCMessages
    MaxMessages = 3
INVARIANTS
    NothingLost
    FailureReported
    StopsPulling
    StatusMatchesEvents
    StreamWellFormed
    SameOutcome
    ChunksWellFormed
    FilesMatchEvents
PROPERTIES
    EndsUnlessFull
