SPECIFICATION Spec
CONSTANTS
  Name <- HoleName
  ProgramNamed <- Program
  TypeGiven <- TypeOf
  Noted <- NotedBySema
  Solved <- LeastSolution
  Unread <- UnreadWrites
  Expr <- MCExpr
  Stmt <- MCStmt
  MaxBuildSteps = 60
  Symbol = {"a", "b", "c", "i", "j", "reached"}
  Ignored = "_"
  Reached = "reached"
INVARIANT UnreadWritesAreUnread
CHECK_DEADLOCK FALSE
