SPECIFICATION Spec
CONSTANTS
  Replies <- MCReplies
  Cuts = {1, 2, 4, 5, 7, 8}
  Tails <- MCTails
INVARIANTS TimesAreInRange
CHECK_DEADLOCK FALSE
