SPECIFICATION SyncSpec
CONSTANTS
  File = {"f", "g"}
  Text = {"a", "b"}
  First <- MCFirst
  Calls <- MCCalls
  Mark <- MCMark
  MaxRevs = 4
  MaxFaults = 2
INVARIANTS
  HashBacked
  MarksSurvive
