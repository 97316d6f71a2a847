SPECIFICATION Spec
CONSTANTS
    Id = {"x", "y"}
    RetentionDays = 1
    MaxUptime = 1
INVARIANTS
    TypeOK
    NoBaselineOutlives
PROPERTY OnlyExpiredRemoved
