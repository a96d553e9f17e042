SPECIFICATION FairSpec
CONSTANTS
  SeqMod = 4
  Responses <- QueryResponses
  Preparations <- PrepareResponses
  Counts = {0, 1, 2, 9}
  All = 9
  MaxRequests = 4
INVARIANTS TypeOK InStep MismatchOnlyAfterAbandon RowsInOrder StarvedOnlyAfterFailedEnd MisreadOnlyAfterWrap
PROPERTIES FetchManyContract OperationsReturn
CHECK_DEADLOCK FALSE
