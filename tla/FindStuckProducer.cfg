SPECIFICATION HalvesSpec
CONSTANTS
    Parts = {"queue"}
    QueueSize = 2
    MaxEvents = 4
    MayLeave = TRUE
    Faults <- MCNoFaults
    Blocks <- MCBlocks
    Messages <- MCMessages
    MaxMessages = 3
PROPERTY DisconnectUnblocksProducer
