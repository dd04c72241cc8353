SPECIFICATION Spec
CONSTANTS
  Name <- ResultName
  ProgramNamed <- Program
INVARIANTS
  NothingLeftBehind
CHECK_DEADLOCK FALSE
