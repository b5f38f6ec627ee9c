CONSTANTS
    Mod = 16
    Epoch = 2
    InitialValues = {0, 7, 14, 15}
    Increments = {7, 15}
    NotFound = NotFound
    WritesMayFail = TRUE
SPECIFICATION Spec
INVARIANTS StoredIsAhead
PROPERTIES NoReuse
