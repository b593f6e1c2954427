CONSTANTS
    Confs <- Inet6Confs
    Inherited <- NoSockets
    Process = "master"
    Addrs = {"v6a", "v6b"}
    Family <- Families
    Dgram = {}
    Files = {}
    StderrName = ""
    ZeroKinds = {}
    Pids = {"p"}
    Fds = {3, 4, 5}
    Segs = {}
    DefaultBacklog = 5
    Tries = 5
    NULL = NULL
    MaxReloads = 2
    MaxConns = 0
SPECIFICATION Spec
INVARIANTS RightDescriptor
CHECK_DEADLOCK FALSE
