SPECIFICATION Spec
CONSTANTS
  s1 = s1
  Req = {1, 2, 3}
  Plain = {2}
  Hooked = {1}
  Session = {s1}
  SessionOf <- MCSessionOf
  MaxReqs = 2
  Attempts = 2
  MaxStops = 2
  MaxLost = 1
INVARIANTS
  StoreSound
  SessionHeldByLive
  BusyCoversLive
  CallerToldRecord
PROPERTIES
  CapRespected
  StatusSpec
CHECK_DEADLOCK FALSE
