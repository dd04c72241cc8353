SPECIFICATION MCInARowSpec
CONSTANTS
  Kind <- MCKind
  Text <- MCText
  MAX_NESTING_DEPTH = 8
  MAX_IF_ARMS = 3
INVARIANT
  WellLaidOutIsAccepted
CHECK_DEADLOCK FALSE
