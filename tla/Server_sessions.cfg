\* Sessions and their deadlines; queue pairs run out before completion queues,
\* and bytes before or after them.
SPECIFICATION FairSpec
CONSTANTS
    Clients = {c1, c2}
    Size = 3
    Pools <- OneOfEither
    GroupSize = 2
    Sizes = {1, 2}
    Menu = {"session", "transfer", "gather"}
    FreesBusy = TRUE
    MaxLeases = 3
    MaxWork = 1
    MaxTime = 1
CHECK_DEADLOCK FALSE
INVARIANTS HandlesExact
PROPERTIES ExpiredStaysExpired 
