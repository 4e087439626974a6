SPECIFICATION FairSession
CONSTANTS
    Channels = {ch1}
    NFiles = 2
    FileSize <- EmptyFirst
    arg_transfer_block_size = 1
    TRANSFER_BLOCK_SIZE_INIT = 1
    MAX_TRANSFER_BLOCK_SIZE = 1
    ALIGN = 1
    SECOND = 1
    ElapsedTimes = {1}
    WireCap = 1
    Upload = TRUE
    GateCount = 1
    Faults = {"loss", "portalLoss", "interrupt", "shutdown", "crash"}
    MaxFaults = 2
INVARIANTS
    SessionInv
    ExitOkMeansCompleteUnlessLost
PROPERTIES
    BothSidesEnd
    NothingRunsForever
CHECK_DEADLOCK FALSE
