SPECIFICATION Spec
CONSTANTS
  Concept = {"c", "d"}
  Doc = {"old", "new"}
  FirstDoc = {"old"}
  Proposal = {"p"}
  Request = {r1, r2, r3}
  Call <- MCCall
  MaxFailures = 2
  MaxCrashes = 1
SYMMETRY RequestSymmetry
INVARIANTS
  OneDecider
  RefusalsWriteNothing
  AcceptedBacked
CHECK_DEADLOCK FALSE
