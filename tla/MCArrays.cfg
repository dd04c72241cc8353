SPECIFICATION FairArraySpec
CONSTANTS
  MaxInt = 7
  Source <- MCSource
  Code <- MCCode
INVARIANTS
  TypeOK
  StaysInBounds
  ForSeesTheRange
  ArrayHoldsTheRange
  InAgreesWithFor
  OperatorsKeepDirection
  BothBoundsReached
  AccessesInBounds
  SelectsItsPart
  IndexErrorsAreExact
  LiteralIndicesNeverTrap
  AssignsItsPart
  LoopsMeetEveryElement
PROPERTIES
  LoopsWithRoomEnd
CHECK_DEADLOCK FALSE
