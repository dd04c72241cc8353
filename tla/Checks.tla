------------------------------- MODULE Checks -------------------------------
(***************************************************************************)
(* The checker of unused bindings and dead stores                          *)
(* (src/analysis/checks/liveness.rs), and the solutions that it and the    *)
(* checker of unreachable code read.                                       *)
(***************************************************************************)
EXTENDS Reachability

CONSTANT Ignored    \* the name `_`, about which nothing is ever reported

RECURSIVE ReadsOfExpr(_), ReadsOfBlock(_), GlobalNodes(_), GlobalNodesOfStmts(_)

-----------------------------------------------------------------------------
(* What statements read and write.                                          *)

(* Everything an expression reads, the arms of a nested `if` included.      *)
ReadsOfExpr(e) ==
  CASE e.kind = "computed" -> e.vars \cup e.globals \cup e.holes
    [] e.kind = "range" -> e.vars
    [] e.kind = "if" ->
         (UNION {ReadsOfExpr(a.cond) \cup ReadsOfBlock(a.body) : a \in ToSet(e.arms)})
           \cup ReadsOfBlock(e.elseBlock)
    [] OTHER -> {}

ReadsOfStmt(s) ==
  CASE s.kind = "assign" -> ReadsOfExpr(s.value)
    [] s.kind = "expr" -> ReadsOfExpr(s.expr)
    [] s.kind \in {"while", "loop"} -> ReadsOfExpr(s.cond) \cup ReadsOfBlock(s.body)
    [] s.kind = "for" -> ReadsOfExpr(s.source) \cup ReadsOfBlock(s.body)

ReadsOfBlock(b) ==
  IF b = Missing THEN {}
  ELSE (UNION {ReadsOfStmt(s) : s \in ToSet(b.stmts)}) \cup ReadsOfExpr(b.result)

ReadsOfAction(a) ==
  CASE a.kind = "statement" -> ReadsOfStmt(a.stmt)
    [] a.kind = "evaluate" -> ReadsOfExpr(a.expr)
    [] a.kind = "bind" -> {}

ReadsOfTerminator(t) ==
  CASE t.kind = "branch" -> ReadsOfExpr(t.cond)
    [] t.kind = "return" -> ReadsOfExpr(t.result)
    [] OTHER -> {}

(* Only an assignment to a whole binding writes; writes inside an atomic    *)
(* `if` expression are not looked for.                                      *)
WritesOfStmt(s) ==
  IF s.kind = "assign" THEN {t.sym : t \in ToSet(s.targets)} ELSE {}

-----------------------------------------------------------------------------
(* Symbols that outlive the unit under analysis: those a `::name` node of   *)
(* the program mentions, and those a `::name = ...` at the top level        *)
(* assigns.  The target of an assignment is parsed as an expression, so it  *)
(* leaves a node behind too; the hole of an f-string does not.              *)

GlobalNodes(e) ==
  CASE e.kind = "computed" -> e.globals
    [] e.kind = "if" ->
         (UNION {GlobalNodes(a.cond) \cup GlobalNodes(a.body) : a \in ToSet(e.arms)})
           \cup GlobalNodes(e.elseBlock)
    [] e.kind = "block" -> GlobalNodesOfStmts(e.stmts) \cup GlobalNodes(e.result)
    [] OTHER -> {}

GlobalNodesOfStmts(stmts) ==
  UNION {CASE s.kind = "assign" -> {t.sym : t \in {u \in ToSet(s.targets) : u.global}}
                                     \cup GlobalNodes(s.value)
           [] s.kind = "expr" -> GlobalNodes(s.expr)
           [] s.kind = "for" -> GlobalNodes(s.source) \cup GlobalNodes(s.body)
           [] s.kind = "define" -> {}
           [] OTHER -> GlobalNodes(s.cond) \cup GlobalNodes(s.body)
         : s \in ToSet(stmts)}

(* A mistake: only the unit itself is searched.                             *)
EscapingFromUnit(program) == GlobalNodes(program.body)

EscapingSymbols(program) ==
  GlobalNodes(program.body)
    \cup UNION {GlobalNodes(program.functions[f].body) : f \in DOMAIN program.functions}

-----------------------------------------------------------------------------
(* Liveness as a dataflow problem, backward from the escaping symbols.      *)

Effect(kill, gen) == [kill |-> kill, gen |-> gen]

(* First the effect `first`, then `second`.                                 *)
Then(second, first) ==
  Effect(first.kill \cup second.kill, (first.gen \ second.kill) \cup second.gen)

LivenessOfAction(a) ==
  CASE a.kind = "statement" -> Effect(WritesOfStmt(a.stmt), ReadsOfStmt(a.stmt))
    [] a.kind = "evaluate" -> Effect({}, ReadsOfExpr(a.expr))
    [] a.kind = "bind" -> Effect({a.sym}, {})

(* Against program order: the terminator, then the actions from the last.   *)
LivenessOfBlock(block) ==
  FoldRight(LAMBDA a, later : Then(LivenessOfAction(a), later), block.actions,
            Effect({}, ReadsOfTerminator(block.terminator)))

LivenessProblem(program) ==
  LET g == Build(program) IN
  [count |-> Len(g.blocks), allowed |-> VISIT_BUDGET_PER_BLOCK, entry |-> g.entry, exit |-> g.exit,
   direction |-> "Backward", boundary |-> EscapingSymbols(program),
   succs |-> g.succs, preds |-> g.preds, live |-> g.succs,
   gen |-> [b \in DOMAIN g.succs |-> LivenessOfBlock(g.blocks[b + 1]).gen],
   kill |-> [b \in DOMAIN g.succs |-> LivenessOfBlock(g.blocks[b + 1]).kill]]

-----------------------------------------------------------------------------
(* The checker, given the solution of its problem.                          *)

(* The facts of the least solution, by iterating from nothing known.        *)
RECURSIVE Iterated(_, _)
Iterated(q, facts) ==
  LET next == [b \in Blocks(q) |-> Equation(q, facts, b)]
  IN  IF next = facts THEN facts ELSE Iterated(q, next)

LeastSolution(q) == Iterated(q, NothingKnown(q))

EverRead(g) ==
  UNION {(UNION {ReadsOfAction(a) : a \in ToSet(block.actions)})
           \cup ReadsOfTerminator(block.terminator) : block \in ToSet(g.blocks)}

(* What is needed after action i of a block, from what is needed after it.  *)
NeededAfter(block, i, needed) ==
  LET rest == LivenessOfBlock([block EXCEPT !.actions = SubSeq(@, i + 1, Len(@))])
  IN  (needed \ rest.kill) \cup rest.gen

(* The writes reported, as pairs of a statement and a symbol: those of a    *)
(* binding nothing in the graph reads, and those of a value that is not     *)
(* needed after the statement.                                              *)
UnreadWrites(program) ==
  LET g == Build(program)
      q == LivenessProblem(program)
      s == LeastSolution(q)
      exempt == EscapingSymbols(program) \cup {Ignored}
      InBlock(b) ==
        LET block == g.blocks[b + 1] IN
        UNION {{<<block.actions[i].stmt.id, x>> :
                  x \in {y \in WritesOfStmt(block.actions[i].stmt) \ exempt :
                           \/ y \notin EverRead(g)
                           \/ y \notin NeededAfter(block, i, Gathered(q, s, b))}}
               : i \in {j \in DOMAIN block.actions : block.actions[j].kind = "statement"}}
  IN  UNION {InBlock(b) : b \in Blocks(q)}
=============================================================================
