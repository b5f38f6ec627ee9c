SPECIFICATION Spec
CONSTANTS
  wide = wide
  narrow = narrow
  reader = reader
  reader2 = reader2
  Handlers = {wide, narrow, reader, reader2}
  Readers = {reader, reader2}
  Listeners = {wide}
  Request <- Paths
  Attributes <- DataModel
  Changes <- OneByOne
  MaxInFlight = 1
  DirtyMax = 2
  IndexModulus = 16
  MayFail = TRUE
  MaxInputs = 6
INVARIANTS InFlightIsExact NothingIsLost ClustersAreCoherent NobodyIsForgotten UrgentEventsAreDue
PROPERTY MinIntervalIsKept
CHECK_DEADLOCK FALSE
