SPECIFICATION Spec
CONSTANTS
  Change = {"p", "k"}
  Pull = {"p"}
  Concept = {"f"}
  Runner = {r1, r2}
  MaxTime = 2
  Lookback = 1
  MaxFaults = 2
  MaxTogether = 0
SYMMETRY RunnerSymmetry
INVARIANTS
  CheckpointCovers
  LinksOnRecord
  DecisionKept
