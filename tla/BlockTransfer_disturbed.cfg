SPECIFICATION Spec
CONSTANTS
    Channels = {ch1, ch2}
    NFiles = 2
    FileSize <- EmptyThenOdd
    arg_transfer_block_size = 0
    TRANSFER_BLOCK_SIZE_INIT = 2
    MAX_TRANSFER_BLOCK_SIZE = 2
    ALIGN = 1
    SECOND = 2
    ElapsedTimes = {0, 1, 5}
    WireCap = 1
SYMMETRY ChannelSymmetry
CONSTRAINT AtMostTwoDisturbances
INVARIANTS
    BlockInv
    DeliveryInv
    AllTailsMeanWholeFiles
    AllTailsMeanPutAway
PROPERTIES
    CopiesFiles
CHECK_DEADLOCK FALSE
