SPECIFICATION Spec
CONSTANTS
    o1 = o1
    o2 = o2
    o3 = o3
    NoObject = NoObject
    Object = {o1, o2}
    Name = {"a"}
    Config <- ConfigA
    Lists <- OnePlain
    Loops = 1
    Horizon = 2
    FailCap = 2
    CanReload = TRUE
    CanCrash = FALSE
    CanStop = FALSE
INVARIANT NoOverlapPerName
