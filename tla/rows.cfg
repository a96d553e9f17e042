SPECIFICATION Spec
CONSTANTS
  Replies <- MCReplies
  Cuts = {1, 2, 4, 5, 7, 8}
  Tails <- MCTails
INVARIANTS TypeOK RowIsWhatWasSent ResponseIsWhatWasSent FieldTypesAgree ValuesReadBack DamageIsNoticed
CHECK_DEADLOCK FALSE
