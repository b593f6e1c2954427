CONSTANTS
    Confs <- SocketConfs
    Inherited <- SocketTables
    Process = "master"
    Addrs = {"a", "b", "d", "u"}
    Family <- Families
    Dgram = {"d"}
    Files = {"log", ""}
    StderrName = ""
    ZeroKinds = {}
    Pids = {"p"}
    Fds = {3, 4, 5, 6, 7}
    Segs = {}
    DefaultBacklog = 5
    Tries = 5
    NULL = NULL
    MaxReloads = 3
    MaxConns = 0
SPECIFICATION FairSpec
INVARIANTS FdsOwned RightDescriptor NoMisuse
PROPERTIES ServiceSpec ReloadEnds
CHECK_DEADLOCK FALSE
