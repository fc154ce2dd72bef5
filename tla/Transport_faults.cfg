\* Everything that may fail, on the RDMA side and on the TCP side.
SPECIFICATION Spec
CONSTANTS
    N = 2
    Threads <- ThreeAndOne
    Menu = {"send", "recv", "exchange", "barrier", "maintain", "heartbeat"}
    Faults = {"cancel", "provider", "expire", "tcp"}
    MaxOps = 1
    Chunks = 1
    None = None
    a = a
    b = b
    c = c
    z = z
CHECK_DEADLOCK FALSE
INVARIANTS LocksCover FailedRunPoisons
PROPERTY RankGates
SYMMETRY ThreeAlike
