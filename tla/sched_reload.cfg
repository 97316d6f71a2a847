SPECIFICATION Spec
CONSTANTS
    o1 = o1
    o2 = o2
    o3 = o3
    NoObject = NoObject
    Object = {o1, o2}
    Name = {"a"}
    Config <- ConfigA
    Lists <- ReloadLists
    Loops = 2
    Horizon = 2
    FailCap = 1
    CanReload = TRUE
    CanCrash = TRUE
    CanStop = TRUE
SYMMETRY Symmetry
INVARIANTS
    LoopAlive
    Spaced
    NoOverlapPerJob
    SecondLoopOnlyAfterStop
PROPERTY RecordKept
