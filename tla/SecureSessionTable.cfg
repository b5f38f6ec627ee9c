SPECIFICATION Spec
CONSTANTS
    Slots = {s1, s2, s3, s4}
    Peers <- OnePeer
    CATs = {"c", "d"}
    Initiators = {"p"}
    PASEInitiators = {"p"}
    Holders = {h1, h2}
    Shifters = {h1}
    Keepers = {h2}
    None = None
SYMMETRY Symmetry
INVARIANTS
    ReferencesAreSound
    ServerWillRestart
    NeverDies
PROPERTIES
    HolderKeepsPeer
    FailureCostsNothing
    KeptUnlessOneLingers
