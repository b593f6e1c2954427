CONSTANTS
    Confs <- ZoneConfs
    Inherited <- NoSockets
    Process = "single"
    Addrs = {}
    Family <- Families
    Dgram = {}
    Files = {}
    StderrName = ""
    ZeroKinds = {"none"}
    Pids = {"p", "q"}
    Fds = {3, 4}
    Segs = {"s1", "s2", "s3", "s4"}
    DefaultBacklog = 5
    Tries = 5
    NULL = NULL
    MaxReloads = 3
    MaxConns = 1
SPECIFICATION FairSpec
INVARIANTS ZonesMapped
PROPERTIES LiveKept RetiredFreed PidfileStays
CHECK_DEADLOCK FALSE
