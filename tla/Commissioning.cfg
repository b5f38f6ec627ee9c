SPECIFICATION FairSpec
CONSTANTS
    Fabrics = {1, 2, 3}
    MaxAttempts = 3
    MaxEvents = 4
INVARIANTS
    WindowHasDeadline
    HandshakesAreBounded
    PaseHasFailSafe
    HandshakeFindsFailSafeFree
    FailSafeIsPases
PROPERTIES
    PaseIsTemporary
