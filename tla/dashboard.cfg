SPECIFICATION FairSpec
CONSTANTS
    s1 = s1
    h1 = h1
    h2 = h2
    NoStatus = NoStatus
    Failed = Failed
    Source = {s1}
    Handler = {h1, h2}
    Configs <- MCConfigs
    Bundles <- MCBundles
    MaxRuns = 2
INVARIANTS
    TypeOK
    StatusMeansCached
    SyncedMeansCached
    SpinnerTruthful
    QuietMeansAnswered
PROPERTIES
    SavedNewest
    PanelNotOlder
    SpinnerStops
