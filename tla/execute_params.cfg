SPECIFICATION Spec
CONSTANTS
  Texts <- MCTexts
  Answers <- MCAnswers
  ParamLists <- MCParamLists
INVARIANTS MessageFitsBuffer ServerGetsRequests
CHECK_DEADLOCK FALSE
