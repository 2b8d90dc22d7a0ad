SPECIFICATION Spec
CONSTANTS
  Configs <- McConfigs
  Histories <- McHistories
  BufferMax = 2
  MaxBatch = 2
  Copies = 2
  DedupWindow = 2
  MaxOffered = 3
  MaxFaults = 2
INVARIANTS
  FilterKeepsUp
  RecordedOnceInOrder
  LossCounted
PROPERTIES
  ImplementsRelay
CHECK_DEADLOCK FALSE
