SPECIFICATION Spec
CONSTANTS
    MaxIndex = 2
    MaxFabrics = 2
    Versions = {1, 2}
    Labels = {1}
    MayAbandon = TRUE
    MaxFailures = 0
    MaxCrashes = 0
INVARIANT NocMatchesKey
