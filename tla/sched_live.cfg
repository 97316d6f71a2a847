SPECIFICATION FairSpec
CONSTANTS
    o1 = o1
    o2 = o2
    o3 = o3
    NoObject = NoObject
    Object = {o1, o2}
    Name = {"a"}
    Config <- ConfigLive
    Lists <- LiveLists
    Loops = 1
    Horizon = 1
    FailCap = 1
    CanReload = TRUE
    CanCrash = FALSE
    CanStop = FALSE
PROPERTIES
    DueByMemory
    JobsKeepRunning
    StoppedLoopsEnd
