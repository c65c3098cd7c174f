SPECIFICATION MCSpec
CONSTANTS
    MaxTransfersPerPoll = 4
    MaxFramesPerTransfer = 3
    MaxFramesPerPoll = 3
    MaxLoads = 3
    MaxFramesPerRead = 3
    MaxReadChunks = 2
    ChunkItems = 2
    MaxAttempts = 2
    MaxLine = 3
    Bitrates = {125, 500, 800}
    CommandLength = 3
    MaxCommands = 3
INVARIANT
    ChangesAreTold
