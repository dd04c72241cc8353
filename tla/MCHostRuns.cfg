SPECIFICATION HostSpec
CONSTANTS
  Name <- MCName
  ProgramNamed <- Program
  MaxErrors = 1
  Symbol <- MCSymbol
  Expr <- MCExpr
  Stmt <- MCStmt
  Writes <- MCWrites
INVARIANTS
  TypeOK
  EveryBufferHasOneOwner
  NothingMisused
  RunsCleanUp
