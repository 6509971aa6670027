SPECIFICATION FairSpec
CONSTANTS
  s1 = s1
  Req = {1, 2, 3}
  Plain = {2}
  Hooked = {}
  Session = {s1}
  SessionOf <- MCSessionOf
  MaxReqs = 2
  Attempts = 1
  MaxStops = 2
  MaxLost = 0
PROPERTIES
  RequestsConclude
CHECK_DEADLOCK FALSE
