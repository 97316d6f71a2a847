SPECIFICATION Spec
CONSTANTS
    Id = {"x"}
    RetentionDays = 2
    MaxUptime = 1
INVARIANT ResultsListed
