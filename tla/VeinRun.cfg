SPECIFICATION FairSpec
CONSTANTS
  Job = {"r1"}
  RunId = {"r1"}
  Client = {"c1"}
  RunIdOf <- OwnIds
  ViaOf <- Detached
  MaxStepEvents = 2
  MaxFailures = 2
  MaxCrashes = 1
INVARIANTS
  SummaryBacked
  LogsWellFormed
  TeardownFollowsStart
  AnswersHold
PROPERTIES
  StatusSpec
  RunConcludes
CHECK_DEADLOCK FALSE
