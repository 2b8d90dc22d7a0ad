SPECIFICATION Spec
CONSTANTS
  Connections = {c1, c2, c3}
  UserOf <- McUserOf
  Topics <- McTopics
  Filters <- McFilters
  MaxMessages = 2
  Levels = {"a", "b", "$SYS"}
  CloseWaits = TRUE
SYMMETRY McSymmetry
INVARIANTS
  MatchesConform
  RetainedReaches
  KickSilences
PROPERTIES
  WillMeansLost
CHECK_DEADLOCK FALSE
