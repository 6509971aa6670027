SPECIFICATION FairSpec
CONSTANTS
  NumSteps = 3
  Flows <- AllFlows
INVARIANTS
  AncestorsResolved
  SkipsComeFromGates
  FailureStopsDescendants
PROPERTIES
  PromiseSpec
  AttemptsAccounted
  FlowConcludes
CHECK_DEADLOCK FALSE
