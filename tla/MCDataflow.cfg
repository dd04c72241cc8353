SPECIFICATION FairSpec
CONSTANTS
  MaxBuildSteps = 60
  Problem <- MCProblem
  Symbol = {"a", "b"}
  Ignored = "_"
  Reached = "a"
INVARIANTS
  TypeOK
  SettledOffTheWorklist
  AnswerIsLeastSolution
  AnswerMeansPaths
  VisitsPaidFor
  AffordableIsAnswered
PROPERTIES
  FactsOnlyGrow
  RefinesChaoticIteration
  EverySolveAnswers
CHECK_DEADLOCK FALSE
