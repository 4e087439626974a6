SPECIFICATION Spec
CONSTANTS
    Channels = {ch1, ch2}
    NFiles = 1
    FileSize <- OddFile
    arg_transfer_block_size = 2
    TRANSFER_BLOCK_SIZE_INIT = 2
    MAX_TRANSFER_BLOCK_SIZE = 2
    ALIGN = 1
    SECOND = 1
    ElapsedTimes = {1}
    WireCap = 1
SYMMETRY ChannelSymmetry
INVARIANTS
    DisposedMeansUnmapped
CHECK_DEADLOCK FALSE
