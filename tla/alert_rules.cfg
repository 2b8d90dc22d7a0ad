SPECIFICATION Spec
CONSTANTS
  Rules = {1}
  Critical = {1}
  Edits = {e1, e2}
  MaxFaults = 2
INVARIANTS
  HistoryAgrees
PROPERTIES
  BadFires
  GoodResolves
CHECK_DEADLOCK FALSE
