SPECIFICATION Spec
CONSTANTS
  Robots = {r1}
  States = {moving}
  Faults = {estop}
  Topics = {pose}
  BufferMax <- TwoEach
  MaxRows <- StatusRows
  MaxBatch = 1
  MaxMalformed = 0
  MaxFailures = 2
INVARIANTS
  CopiesExplained
  DropsCounted
  KeepsReconnecting
PROPERTIES
  ImplementsArchive
CHECK_DEADLOCK FALSE
