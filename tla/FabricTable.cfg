SPECIFICATION Spec
CONSTANTS
    MaxIndex = 2
    MaxFabrics = 2
    Versions = {1, 2}
    Labels = {1, 2}
    MayAbandon = FALSE
    MaxFailures = 1
    MaxCrashes = 2
INVARIANTS NoLeftovers MemoryMatchesStorage CleanupNamesUncommitted TableIsConsistent
           CommitIsNeverInconsistent
PROPERTY ImplementsFabricStore
