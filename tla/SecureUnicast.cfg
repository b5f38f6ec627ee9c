CONSTANTS
    Mod = 8
    WindowSize = 2
    InitialPredecessors = {0, 3}
    Addresses = {a1, a2}
SPECIFICATION Spec
INVARIANTS WindowIsExact
PROPERTIES NoReplay ReplayKeepsPeerAddress
