CONSTANTS
    Chains <- MCChains
    Limits = {0, 3}
    ReadChains <- MCReadChains
    ReadSizes = {1, 3}
    SendIovs = 2
    ReadIovs = 2
    Capacity = 3
    Methods = {"level", "epoll", "rdhup", "kqueue"}
    DatagramChains <- MCDatagramChains
    DatagramLimits = {0, 2}
    DatagramSizes = {1, 3}
    DatagramIovs = 2
    KernelRoom = 2
SPECIFICATION SocketsSpec
INVARIANTS NoEventLost DatagramsWhole NoDatagramStuck
PROPERTIES StreamSpec Completes
CHECK_DEADLOCK FALSE
