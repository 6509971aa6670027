SPECIFICATION FairSpec
CONSTANTS
  Writer = {"w1", "w2"}
  Scripts <- SmallAndBig
PROPERTIES
  TailPromised
  ReaderCatchesUp
CHECK_DEADLOCK FALSE
