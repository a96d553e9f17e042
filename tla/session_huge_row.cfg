SPECIFICATION Spec
CONSTANTS
  SeqMod = 8
  Responses <- HugeResponses
  Preparations <- PrepareResponses
  Counts = {9}
  All = 9
  MaxRequests = 1
INVARIANTS AllDataRetrieved
CHECK_DEADLOCK FALSE
