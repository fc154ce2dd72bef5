\* Posts, polls and barriers that fail.
SPECIFICATION Spec
CONSTANTS
    N = 2
    Threads <- OneEach
    Menu = {"exchange", "maintain"}
    Faults = {"provider", "tcp"}
    MaxOps = 1
    Chunks = 1
    None = None
    a = a
    b = b
    c = c
    z = z
CHECK_DEADLOCK FALSE
INVARIANT FailedCallPoisons
