SPECIFICATION MCSpec
CONSTANTS
  Kind <- MCKind
  Text <- MCText
  MAX_NESTING_DEPTH = 8
  MAX_IF_ARMS = 3
INVARIANTS
  TypeOK
  IndentsAreClosed
  WellLaidOutIsAccepted
  BlocksFollowColumns
  ExpressionsFollowPowers
  ContinuationsAlign
  LimitsAreExact
PROPERTIES
  BracketsJoinLines
CHECK_DEADLOCK FALSE
