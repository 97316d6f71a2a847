SPECIFICATION Spec
CONSTANTS
    t1 = t1
    t2 = t2
    p1 = p1
    p2 = p2
    NoToken = NoToken
    Token = {t1, t2}
    Typed = {t1}
    Plugin = {p1, p2}
    Files <- MCFiles
    HistoryLimit = 1
    MaxResults = 2
INVARIANT TriggerRuns
