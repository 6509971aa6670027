SPECIFICATION FairSpec
CONSTANTS
  Request = {"q1", "q2"}
  Client = {"c1"}
  Patience = "terminal"
  MaxParts = 0
  MaxFailures = 1
  MaxCrashes = 0
PROPERTIES
  TurnsAndStreamsConclude
CHECK_DEADLOCK FALSE
