SPECIFICATION FairSpec
CONSTANTS
  MaxPacket = 2
  SeqMod = 4
  RequestSizes = {0, 1, 4, 5}
  ReplySizes = {0, 2, 5}
  MaxRequests = 2
  MaxReplies = 3
INVARIANTS TypeOK NoFalseMismatch SeqAgreement StarvesOnlyAtExactMultiple
PROPERTIES ReliableMessages OperationsComplete RepliesArrive
CHECK_DEADLOCK FALSE
