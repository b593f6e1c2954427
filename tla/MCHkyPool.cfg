CONSTANTS
    PoolSize = 128
    Header = 80
    DataHeader = 32
    LargeHeader = 16
    CleanupHeader = 24
    FileData = 24
    PageMax = 4095
    Alignment = 8
    AllocTest = "compare"
    Sizes = {33, 49}
    HeapIds = {h1, h2, h3, h4, h5, h6}
    Fds = {3, 4}
    NULL = NULL
    MaxBlocks = 2
SPECIFICATION Spec
SYMMETRY HeapSymmetry
INVARIANTS TypeOK MemorySafe NoDoubleClose LargeOwned
PROPERTIES ArenaSpec
