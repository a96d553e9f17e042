SPECIFICATION FairSpec
CONSTANTS
  SeqMod = 8
  Responses <- QueryResponses
  Preparations <- PrepareResponses
  Counts = {9}
  All = 9
  MaxRequests = 1
PROPERTIES FetchAllCompletes
CHECK_DEADLOCK FALSE
