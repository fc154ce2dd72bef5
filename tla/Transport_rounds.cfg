\* Three ranks: rounds of Maintain through the hub, next to heartbeats.
SPECIFICATION FairSpec
CONSTANTS
    N = 3
    Threads <- OneEach
    Menu = {"maintain", "heartbeat"}
    Faults = {}
    MaxOps = 2
    Chunks = 1
    None = None
    a = a
    b = b
    c = c
    z = z
CHECK_DEADLOCK FALSE
INVARIANTS ReopensAfterAll
PROPERTY MaintainCompletes
