CONSTANTS
    Confs <- MCConfs
    Fds = {5, 6}
    Levels = {2, 6}
    MaxCycles = 3
    MaxCleanups = 2
    MaxTime = 2
SPECIFICATION Spec
INVARIANTS EachLogReached SendsGuarded SocketsOwned
