------------------------------- MODULE Trees -------------------------------
(***************************************************************************)
(* The units the theorems of GeneratedCode_proofs are about: which trees a *)
(* unit consists of.  What the parser gives is such a unit, and a function *)
(* that is called is defined.                                              *)
(***************************************************************************)
EXTENDS Cfg

CONSTANTS
  Expr(_),    \* the expressions of a unit and of the functions it may call
  Stmt(_)     \* their statements

BlocksIn(p) == [kind : {"block"}, stmts : Seq(Stmt(p)), result : Expr(p) \cup {Missing}]

(* Sema takes nothing but a Bool for a condition, and no range is one.      *)
Conditions(p) == {e \in Expr(p) : e.kind # "range"}
ArmsIn(p) == [cond : Conditions(p), body : BlocksIn(p)]

IsExpr(p, e) ==
  \/ e.kind = "computed" /\ e.calls \in Seq(DOMAIN p.functions)
  \/ e.kind = "bool" /\ e.value \in BOOLEAN
  \/ /\ e.kind = "range" /\ e.literal \in BOOLEAN
     /\ e.start \in Int /\ e.stop \in Int
     /\ e.rangeKind \in {"Inclusive", "UpExclusive", "DownExclusive"}
  \/ /\ e.kind = "if" /\ e.arms \in Seq(ArmsIn(p))
     /\ e.elseBlock \in BlocksIn(p) \cup {Missing}

(* A `for` has at least one loop variable.                                  *)
IsStmt(p, s) ==
  \/ s.kind = "expr" /\ s.expr \in Expr(p)
  \/ s.kind = "assign" /\ s.value \in Expr(p)
  \/ s.kind = "while" /\ s.cond \in Conditions(p) /\ s.body \in BlocksIn(p)
  \/ s.kind = "loop" /\ s.cond \in Conditions(p) /\ s.body \in BlocksIn(p) /\ s.until \in BOOLEAN
  \/ /\ s.kind = "for" /\ s.source \in Expr(p) /\ s.body \in BlocksIn(p)
     /\ s.binders \in Seq(ToSet(s.binders)) \ {<<>>}

IsUnit(p) ==
  /\ \A e \in Expr(p) : IsExpr(p, e)
  /\ \A s \in Stmt(p) : IsStmt(p, s)
  /\ UnitStmts(p) \in Seq(Stmt(p))
  /\ p.body.result \in Expr(p) \cup {Missing}
  /\ \A name \in DOMAIN p.functions : p.functions[name].body \in BlocksIn(p)
=============================================================================
