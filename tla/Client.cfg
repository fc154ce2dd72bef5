SPECIFICATION FairSpec
CONSTANTS
    Ops = {"send", "recv", "coll", "barrier"}
    Contexts = {"deadline", "cancel"}
    MaxCalls = 2
    Faults = {"memory", "transport", "hang", "close"}
CHECK_DEADLOCK FALSE
INVARIANTS AnswersOwn LeasesReturned UnmappedOnlyInRace
PROPERTIES DeadlineReturns CloseReleases
