SPECIFICATION SessionSpec
CONSTANTS
    Channels = {ch1, ch2}
    NFiles = 1
    FileSize <- OneBlock
    arg_transfer_block_size = 1
    TRANSFER_BLOCK_SIZE_INIT = 1
    MAX_TRANSFER_BLOCK_SIZE = 1
    ALIGN = 1
    SECOND = 1
    ElapsedTimes = {1}
    WireCap = 1
    Upload = TRUE
    GateCount = 1
    Faults = {}
    MaxFaults = 0
SYMMETRY ChannelSymmetry
INVARIANTS
    ExitOkMeansComplete
CHECK_DEADLOCK FALSE
