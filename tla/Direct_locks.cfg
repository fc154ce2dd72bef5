SPECIFICATION FairSpec
CONSTANTS
    N = 3
    Names = {"a", "b"}
    Main = "a"
    Scenarios <- SecondCollective
    Width = 2
    None = None
CHECK_DEADLOCK FALSE
PROPERTIES AllReturn
