SPECIFICATION Safety
CONSTANTS
  Robots = {r1}
  States = {moving, error}
  Faults = {}
  Topics = {pose, scan}
  BufferMax <- TwoEach
  MaxRows <- RelayRows
  MaxBatch = 2
  MaxMalformed = 1
  MaxFailures = 1
INVARIANTS
  ArrivalOrder
  CatalogComplete
PROPERTIES
  LeavesOnlyStored
CHECK_DEADLOCK FALSE
