-------------------------------- MODULE Cfg --------------------------------
(***************************************************************************)
(* The control-flow graph of one unit and its construction                 *)
(* (src/analysis/cfg.rs).  CfgBuilder walks the tree and mutates a vector  *)
(* of blocks.  Here the walk is a sequence of steps: a builder has the     *)
(* blocks so far, the block control is in, and the list of what is still   *)
(* to do.  Nothing in the language leaves a body early, so control always  *)
(* is in some block.                                                       *)
(***************************************************************************)
EXTENDS Ast

CONSTANT MaxBuildSteps    \* a bound on the steps of a walk

ASSUME StepsAssumption == MaxBuildSteps \in Nat

Goto(target) == [kind |-> "goto", target |-> target]
Branch(cond, thenBlock, elseBlock) ==
  [kind |-> "branch", cond |-> cond, thenBlock |-> thenBlock,
   elseBlock |-> elseBlock]
Return(result) == [kind |-> "return", result |-> result]
Exit == [kind |-> "exit"]

Statement(stmt) == [kind |-> "statement", stmt |-> stmt]
Evaluate(expr) == [kind |-> "evaluate", expr |-> expr]
Bind(sym) == [kind |-> "bind", sym |-> sym]

-----------------------------------------------------------------------------
(* Blocks are numbered from 0: block b is blocks[b + 1].                    *)

Added(blocks, n) ==
  blocks \o [i \in 1 .. n |-> [actions |-> <<>>, terminator |-> Exit]]

Terminate(blocks, b, terminator) ==
  [blocks EXCEPT ![b + 1].terminator = terminator]

Push(blocks, b, actions) ==
  [blocks EXCEPT ![b + 1].actions = @ \o actions]

-----------------------------------------------------------------------------
(* What a walk has to do: build a statement; evaluate the result of a       *)
(* block; lower the rest of an `if`, from the next arm on; end the current  *)
(* block and go on in another.                                              *)

ToBuild(stmt) == [do |-> "build", stmt |-> stmt]
ToYield(expr) == [do |-> "yield", expr |-> expr]
ToTest(arms, elseBlock, merge) ==
  [do |-> "test", arms |-> arms, elseBlock |-> elseBlock, merge |-> merge]
ToEnd(terminator, next) == [do |-> "end", terminator |-> terminator, next |-> next]

Builder(todo, blocks, current) == [todo |-> todo, blocks |-> blocks, current |-> current]

(* A nested block: its statements, then its result evaluated where it ends. *)
BuildBlock(block) ==
  [i \in DOMAIN block.stmts |-> ToBuild(block.stmts[i])]
    \o (IF block.result = Missing THEN <<>> ELSE <<ToYield(block.result)>>)

(* The operators below say what becomes of a builder b when one thing is    *)
(* taken from what it has to do and `rest` is left.                         *)

BuildIf(expr, b, rest) ==
  Builder(<<ToTest(expr.arms, expr.elseBlock, Len(b.blocks))>> \o rest,
          Added(b.blocks, 1), b.current)

(* One diamond per arm, joined at `merge`; the else branch, or nothing, is  *)
(* in the block the last test falls through to.                             *)
BuildArm(arms, elseBlock, merge, b, rest) ==
  LET then == Len(b.blocks)
      next == then + 1
  IN  IF arms = <<>>
        THEN Builder((IF elseBlock = Missing THEN <<>> ELSE BuildBlock(elseBlock))
                       \o <<ToEnd(Goto(merge), merge)>> \o rest,
                     b.blocks, b.current)
        ELSE Builder(BuildBlock(Head(arms).body)
                       \o <<ToEnd(Goto(merge), next), ToTest(Tail(arms), elseBlock, merge)>>
                       \o rest,
                     Terminate(Added(b.blocks, 2), b.current, Branch(Head(arms).cond, then, next)),
                     then)

(* Pre-test loop: header, body, exit, in that order.                        *)
BuildWhile(stmt, b, rest) ==
  LET header == Len(b.blocks)
      body == header + 1
      exit == header + 2
      entered == Terminate(Added(b.blocks, 3), b.current, Goto(header))
  IN  Builder(BuildBlock(stmt.body) \o <<ToEnd(Goto(header), exit)>> \o rest,
              Terminate(entered, header, Branch(stmt.cond, body, exit)), body)

(* A mistake: `until` is taken for `while`.                                 *)
BuildLoopAsWhile(stmt, b, rest) ==
  LET body == Len(b.blocks)
      exit == body + 1
  IN  Builder(BuildBlock(stmt.body) \o <<ToEnd(Branch(stmt.cond, body, exit), exit)>> \o rest,
              Terminate(Added(b.blocks, 2), b.current, Goto(body)), body)

(* Post-test loop: `until` swaps the successors of the test.                *)
BuildLoop(stmt, b, rest) ==
  LET body == Len(b.blocks)
      exit == body + 1
      test == IF stmt.until THEN Branch(stmt.cond, exit, body)
                            ELSE Branch(stmt.cond, body, exit)
  IN  Builder(BuildBlock(stmt.body) \o <<ToEnd(test, exit)>> \o rest,
              Terminate(Added(b.blocks, 2), b.current, Goto(body)), body)

(* `for`: the source is evaluated once, before the header; the header       *)
(* branches on it, and each pass binds the loop variables first.            *)
BuildCountedLoop(stmt, b, rest) ==
  LET header == Len(b.blocks)
      body == header + 1
      exit == header + 2
      evaluated == Push(b.blocks, b.current, <<Evaluate(stmt.source)>>)
      entered == Terminate(Added(evaluated, 3), b.current, Goto(header))
      tested == Terminate(entered, header, Branch(stmt.source, body, exit))
  IN  Builder(BuildBlock(stmt.body) \o <<ToEnd(Goto(header), exit)>> \o rest,
              Push(tested, body, [i \in DOMAIN stmt.binders |-> Bind(stmt.binders[i])]), body)

(* An `if` in statement position is control flow; anywhere else it is part  *)
(* of one atomic statement.                                                 *)
BuildStmt(stmt, b, rest) ==
  CASE stmt.kind = "expr" /\ stmt.expr.kind = "if" -> BuildIf(stmt.expr, b, rest)
    [] stmt.kind = "while" -> BuildWhile(stmt, b, rest)
    [] stmt.kind = "loop" -> BuildLoop(stmt, b, rest)
    [] stmt.kind = "for" -> BuildCountedLoop(stmt, b, rest)
    [] OTHER -> Builder(rest, Push(b.blocks, b.current, <<Statement(stmt)>>), b.current)

BuildStep(b) ==
  IF b.todo = <<>> THEN b
  ELSE LET item == Head(b.todo)
           rest == Tail(b.todo)
       IN  CASE item.do = "build" -> BuildStmt(item.stmt, b, rest)
             [] item.do = "yield" ->
                  Builder(rest, Push(b.blocks, b.current, <<Evaluate(item.expr)>>), b.current)
             [] item.do = "test" -> BuildArm(item.arms, item.elseBlock, item.merge, b, rest)
             [] item.do = "end" ->
                  Builder(rest, Terminate(b.blocks, b.current, item.terminator), item.next)

-----------------------------------------------------------------------------

SuccessorsOf(blocks, exit, b) ==
  LET t == blocks[b + 1].terminator IN
  CASE t.kind = "goto" -> <<t.target>>
    [] t.kind = "branch" -> <<t.thenBlock, t.elseBlock>>
    [] t.kind = "return" -> <<exit>>
    [] t.kind = "exit" -> <<>>

(* finish: append the unique exit and wire the predecessors, which list the *)
(* blocks in ascending order.                                               *)
Finish(blocks) ==
  LET exit == Len(blocks)
      all == Added(blocks, 1)
      ids == 0 .. exit
      succs == [b \in ids |-> SuccessorsOf(all, exit, b)]
      Reaches(b, s) == \E i \in DOMAIN succs[b] : succs[b][i] = s
      ascending == [i \in 1 .. exit + 1 |-> i - 1]
  IN  [blocks |-> all, entry |-> 0, exit |-> exit, succs |-> succs,
       preds |-> [s \in ids |-> SelectSeq(ascending, LAMBDA b : Reaches(b, s))]]

(* build_entry, which skips the function definitions, and build_function.   *)
UnitStmts(program) == SelectSeq(program.body.stmts, LAMBDA s : s.kind # "define")
Started(program) ==
  Builder(BuildBlock(Block(UnitStmts(program), Missing)), Added(<<>>, 1), 0)

Walk(program) ==
  LET After[n \in Nat] == IF n = 0 THEN Started(program) ELSE BuildStep(After[n - 1])
  IN  After[MaxBuildSteps]

Build(program) ==
  LET end == Walk(program)
  IN  Finish(Terminate(end.blocks, end.current, Return(program.body.result)))
=============================================================================
