\* Two ranks, every call but Barrier; heartbeats may time out, messages be dropped.
SPECIFICATION Spec
CONSTANTS
    N = 2
    Threads <- TwoEach
    Menu = {"send", "recv", "exchange", "maintain", "heartbeat"}
    Faults = {"timeout", "drop"}
    MaxOps = 1
    Chunks = 2
    None = None
    a = a
    b = b
    c = c
    z = z
CHECK_DEADLOCK FALSE
INVARIANTS NoPostWhenPoisoned Quiescent NoCrossMatch OwnCompletions
SYMMETRY TwoAlike
