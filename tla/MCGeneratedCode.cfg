SPECIFICATION Spec
CONSTANTS
  Name <- MCName
  ProgramNamed <- Program
  TypeGiven <- TypeOf
  Noted <- NotedBySema
  Solved <- LeastSolution
  Unread <- UnreadWrites
  Expr <- MCExpr
  Stmt <- MCStmt
  MaxBuildSteps = 60
  Symbol = {"a", "b", "c", "i", "j", "reached"}
  Ignored = "_"
  Reached = "reached"
INVARIANTS
  TypeOK
  GraphFollowsCode
  UnreachableNeverRuns
  UnreadWritesAreUnread
  ReadsFindStoredSlots
CHECK_DEADLOCK FALSE
