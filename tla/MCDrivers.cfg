CONSTANTS
    MaxTransfersPerPoll = 4
    MaxFramesPerTransfer = 3
    MaxFramesPerPoll = 3
    MaxLoads = 3
    MaxFramesPerRead = 3
    MaxReadChunks = 2
    ChunkItems = 2
    MaxAttempts = 2
    MaxLine = 3
    Bitrates = {125, 500, 800}
    CommandLength = 3
    MaxCommands = 3
    QueueDepth = 3
    EmergencyReserve = 1
    EmergencyRetryLimit = 2
    Priorities <- MCPriorities
    EmergencyPriority = 0
    CommandPriority = 4
    NoFrame = NoFrame
    MaxSends = 5
SPECIFICATION DriversSpec
INVARIANTS
    
    TypeOK
    ReserveKept
    OneFrameWithDriver
    ReportedExactlyOnce
    EmergencyNotGivenUp
    EveryFrameAccountedFor
PROPERTIES
    
    ReportsAreTrue
    EveryHandshakeEnds
    RefusedOnlyWhenNothingYields
    ImplementsDelivery
CHECK_DEADLOCK FALSE
