SPECIFICATION Spec
CONSTANTS
    o1 = o1
    o2 = o2
    o3 = o3
    NoObject = NoObject
    Object = {o1, o2}
    Name = {"a", "b"}
    Config <- ConfigABSlow
    Lists <- RestartLists
    Loops = 1
    Horizon = 3
    FailCap = 2
    CanReload = FALSE
    CanCrash = TRUE
    CanStop = FALSE
SYMMETRY Symmetry
INVARIANTS
    TypeOK
    StoreMatchesMemory
PROPERTIES
    DueByRecord
    FailuresCounted
    RecordsRuns
