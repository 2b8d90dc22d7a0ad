SPECIFICATION Safety
CONSTANTS
  Configs <- McConfigs
  Histories <- McHistories
  BufferMax = 3
  MaxBatch = 3
  Copies = 2
  DedupWindow = 2
  MaxOffered = 3
  MaxFaults = 2
INVARIANTS
  NeverLostSilently
CHECK_DEADLOCK FALSE
