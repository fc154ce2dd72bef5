\* Transfers and collectives of two clients that may vanish at any point.
SPECIFICATION Spec
CONSTANTS
    Clients = {c1, c2}
    Size = 4
    Pools <- OnePair
    GroupSize = 2
    Sizes = {1}
    Menu = {"transfer", "reduce", "gather"}
    FreesBusy = FALSE
    MaxLeases = 4
    MaxWork = 1
    MaxTime = 0
CHECK_DEADLOCK FALSE
INVARIANTS OneOwner WorkHoldsRanges
SYMMETRY Alike
