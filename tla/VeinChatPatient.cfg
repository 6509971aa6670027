SPECIFICATION Spec
CONSTANTS
  Request = {q1, q2, q3}
  Client = {"c1"}
  Patience = "finished"
  MaxParts = 1
  MaxFailures = 1
  MaxCrashes = 1
SYMMETRY RequestSymmetry
INVARIANTS
  ChatWellFormed
  ContextIsTranscript
  StreamWhole
  MetaTellsLastTurn
CHECK_DEADLOCK FALSE
