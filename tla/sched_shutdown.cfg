SPECIFICATION FairSpec
CONSTANTS
    o1 = o1
    o2 = o2
    o3 = o3
    NoObject = NoObject
    Object = {o1}
    Name = {"a"}
    Config <- ConfigA
    Lists <- OneOnStart
    Loops = 1
    Horizon = 2
    FailCap = 2
    CanReload = FALSE
    CanCrash = FALSE
    CanStop = FALSE
PROPERTY NoDuplicateStartRun
