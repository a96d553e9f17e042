SPECIFICATION FairSpec
CONSTANTS
  SeqMod = 4
  Lengths = {0, 1, 3}
  MaxSessions = 3
INVARIANTS TypeOK EstablishedIsFresh StaleStreamOnlyQuits MismatchOnlyOnReuse
PROPERTIES FailuresCloseSocket ClosingEnds
CHECK_DEADLOCK FALSE
