SPECIFICATION Spec
CONSTANTS
  Connections = {c1, c2, c3}
  OfflineAfter = 1
  StaleAfter = 3
INVARIANTS
  PresenceJustified
  TrailAgrees
PROPERTIES
  SilenceShows
  ReportingRecovers
CHECK_DEADLOCK FALSE
