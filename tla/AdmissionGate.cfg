\* Three data operations, two maintainers, every call cancellable.
SPECIFICATION FairSpec
CONSTANTS
    Ops = {p1, p2, p3}
    Maintainers = {m1, m2}
    None = None
INVARIANTS IInv
PROPERTIES DrainReturns EntersAfterMaintenance ImplementsGate
