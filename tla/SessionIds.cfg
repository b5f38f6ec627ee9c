SPECIFICATION Spec
CONSTANTS
    IdSpace = 8
    Bucket = 2
    PoolSize = 3
INVARIANTS
    SearchIsExact
PROPERTIES
    ReuseIsLate
