SPECIFICATION Spec
CONSTANTS
  Name <- DescendingName
  ProgramNamed <- Program
  TypeGiven <- TypeOf
  Noted <- NotedBySema
  Solved <- LeastSolution
  Unread <- UnreadWrites
  Expr <- MCExpr
  Stmt <- MCStmt
  MaxBuildSteps = 60
  Symbol = {"a", "b", "c", "i", "j", "reached"}
  Ignored = "_"
  Reached = "reached"
INVARIANT UnreachableNeverRuns
CHECK_DEADLOCK FALSE
