CONSTANTS
    Arrays      = {"a"}
    Lengths     = {1, 2}
    BlockEnd    = 6
    MemoryEnd   = 10
    MaxOthers   = 1
    MaxElements = 4
    Heads       = {"h1", "h2"}
    Elements    = {"e1", "e2", "e3"}
    Key         <- Keys
SPECIFICATION ContainersSpec
INVARIANT ElementsKept
PROPERTY QueuesRight
CHECK_DEADLOCK FALSE
