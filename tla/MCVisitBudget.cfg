SPECIFICATION FastSpec
CONSTANTS
  MaxBuildSteps = 60
  Problem <- MCProblem
  Symbol <- MCSymbol
  Ignored = 0
  Reached = 0
INVARIANT ConvergesWithinBudget
CHECK_DEADLOCK FALSE
