SPECIFICATION Spec
CONSTANTS
    job = job
    manual = manual
    Source = {job, manual}
    MinSamples = 2
    MaxSamples = 2
    Consecutive = 2
    MaxResults = 4
    Plugin = "cpu"
    Other = {"net"}
    Configs <- MCConfigs
    DefaultWindow = 2
    HistoryLimit = 2
    Horizon = 2
SYMMETRY Symmetry
INVARIANTS
    TypeOK
    SamplesFollowCount
    NoSampleInvented
    NoSampleLost
PROPERTIES
    DriftAfterRow
    CorrelationTriggers
    AlertsOnRecord
