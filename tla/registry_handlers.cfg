SPECIFICATION Spec
CONSTANTS
  Robots = {amr}
  Requests = {q1, q2}
  Earlier = Earlier
PROPERTIES
  RevokeTakesEffect
  EnrolledCanConnect
  CacheCatchesUp
CHECK_DEADLOCK FALSE
