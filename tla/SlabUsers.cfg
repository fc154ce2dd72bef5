\* Every sequence of up to five allocations on a slab of six bytes.
SPECIFICATION Spec
CONSTANTS
    Size = 6
    MaxAllocs = 5
INVARIANTS FreeListExact FailsOnlyWhenFull
PROPERTY ImplementsSlab
CHECK_DEADLOCK FALSE
