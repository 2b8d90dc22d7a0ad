SPECIFICATION FairSpec
CONSTANTS
  Retention = 1
  Ahead = 2
  Backfill = 1
  Future = 1
  Horizon = 2
INVARIANTS
  DefaultHasCause
PROPERTIES
  AheadStays
  KeptUntilExpiry
  ComesBack
  Swept
CHECK_DEADLOCK FALSE
