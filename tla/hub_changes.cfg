SPECIFICATION Spec
CONSTANTS
  Robots = {amr}
  Sockets = {ws1, ws2}
  MaxRev = 2
INVARIANTS
  BelievedWasSent
PROPERTIES
  ImplementsRoster
CHECK_DEADLOCK FALSE
