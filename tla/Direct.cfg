SPECIFICATION FairSpec
CONSTANTS
    N = 3
    Names = {"a", "b"}
    Main = "a"
    Scenarios <- DirectScenarios
    Width = 2
    None = None
CHECK_DEADLOCK FALSE
INVARIANTS OneActive DataExact CollectiveExact BarrierMeets ReadyTogether TornOnlyInside ChooseExact
PROPERTIES AllReturn CancelReturns
