SPECIFICATION Spec
CONSTANTS
  Name <- StaleName
  ProgramNamed <- Program
INVARIANTS
  NothingMisused
CHECK_DEADLOCK FALSE
