SPECIFICATION FairSpec
CONSTANTS
  Ids = {r1, r2}
  None = None
  MaxChanges = 1
INVARIANTS
  TypeOK
  AtMostOneAnswer
  ExactlyOneHolder
  AnswerSeesEdits
  RefusalsAreExplained
  EffectsOnlyOfAccepted
PROPERTIES
  EventuallyAnswered
CHECK_DEADLOCK FALSE
