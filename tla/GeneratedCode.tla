---------------------------- MODULE GeneratedCode ----------------------------
(***************************************************************************)
(* What the generated code does when it runs (src/codegen/stmt.rs,         *)
(* src/codegen/lower.rs), next to what the analyses said of it.            *)
(*                                                                         *)
(* `todo` is the code still to run, as a stack of small items; Code says   *)
(* which items a statement is lowered to.  `frames` are the scopes of the  *)
(* running function, each mapping a name to its slot: the type it was made *)
(* for, and the id of the statement that stored last.  Names are resolved  *)
(* when the code runs, with the rules the generator applies when it emits  *)
(* it; a block is entered at its top and left at its end, so the two agree.*)
(*                                                                         *)
(* `at` follows the run in the control-flow graph the analyses looked at.  *)
(***************************************************************************)
EXTENDS Reachability, Trees

CONSTANTS
  Name,              \* names of the units considered
  ProgramNamed(_),   \* and the unit each stands for
  TypeGiven(_),      \* the type sema filled in for an expression
  Noted(_),          \* what sema noted of the assignments of a program
  Solved(_),         \* what solve returns for a problem
  Unread(_)          \* the writes the liveness checker reports of a program

ASSUME UnitAssumption == \A name \in Name : IsUnit(ProgramNamed(name))

(* The walks that build the graphs come to their end.                       *)
ASSUME BuildAssumption == \A name \in Name : Walk(ProgramNamed(name)).todo = <<>>

(* What solve returns is a solution (LeastSolutionReturned of               *)
(* DataflowSolver_proofs).                                                  *)
ASSUME SolvedAssumption ==
  \A name \in Name :
    LET q == ReachabilityProblem(Build(ProgramNamed(name))) IN
    WellFormed(q) /\ Solution(q, Solved(q))

VARIABLES
  unit,       \* the unit that runs, its graph, and what was reported of it
  todo,       \* the code left to run
  frames,     \* the scopes of the running function, innermost last
  saved,      \* those of its callers
  globals,    \* the module globals
  at,         \* <<block, i>>: the graph is before action i of the block
  lastRead    \* what the last step read: the name, the statement that stored
              \* last to the slot it was found in, and the type of the slot

program == unit.program
graph == unit.graph

Analysed(p) ==
  LET g == Build(p)
      q == ReachabilityProblem(g)
  IN  [program |-> p, graph |-> g, unreachable |-> Unreachable(q, Solved(q)),
       unread |-> Unread(p), bound |-> Noted(p)]

vars == <<unit, todo, frames, saved, globals, at, lastRead>>

(* What a slot holds before the first store, and one that a call or a loop  *)
(* filled in; statements have ids from 1.                                   *)
Unwritten == 0
Bound == -1

Slot(type, by) == [type |-> type, by |-> by]
Filled(types) == [x \in DOMAIN types |-> Slot(types[x], Bound)]

-----------------------------------------------------------------------------
(* The code of a statement.  `shown` says whether the statement stands in   *)
(* the graph by itself; inside an expression nothing does.                  *)

DoStmt(stmt, shown) == [do |-> "stmt", stmt |-> stmt, shown |-> shown]
DoBlock(block, shown) == [do |-> "block", block |-> block, shown |-> shown]
Value(expr) == [do |-> "value", expr |-> expr]
Load(expr) == [do |-> "load", expr |-> expr]
Call(name) == [do |-> "call", name |-> name]
Arms(arms, elseBlock, shown) ==
  [do |-> "arms", arms |-> arms, elseBlock |-> elseBlock, shown |-> shown]
Pass(stmt, shown) == [do |-> "pass", stmt |-> stmt, shown |-> shown]
Store(stmt) == [do |-> "store", stmt |-> stmt]
Fork(cond, yes, no, shown) ==
  [do |-> "fork", cond |-> cond, yes |-> yes, no |-> no, shown |-> shown]
Round(stmt, counter, shown) ==
  [do |-> "round", stmt |-> stmt, counter |-> counter, shown |-> shown]
Binders(stmt, shown) == [do |-> "bind", stmt |-> stmt, shown |-> shown]
CloseScope == [do |-> "close"]
Back == [do |-> "back"]

(* The mark that the graph shows `action` here.                             *)
Reach(action) == [do |-> "reach", action |-> action]
Marked(action, shown) == IF shown THEN <<Reach(action)>> ELSE <<>>

(* An unconditional branch to another block.                                *)
Jump == [do |-> "jump"]
Jumping(shown) == IF shown THEN <<Jump>> ELSE <<>>

Stmts(stmts, shown) == [i \in DOMAIN stmts |-> DoStmt(stmts[i], shown)]

(* The statements of a block and its result, evaluated in their scope.      *)
Body(block, shown) ==
  Stmts(block.stmts, shown)
    \o (IF block.result = Missing THEN <<>>
        ELSE Marked(Evaluate(block.result), shown) \o <<Value(block.result)>>)

(* gen_if: a chain of diamonds that meet; the else branch needs no test.    *)
ArmsCode(arms, elseBlock, shown) ==
  IF arms = <<>>
    THEN (IF elseBlock = Missing THEN <<>> ELSE <<DoBlock(elseBlock, shown)>>) \o Jumping(shown)
    ELSE <<Value(Head(arms).cond),
           Fork(Head(arms).cond, <<DoBlock(Head(arms).body, shown)>> \o Jumping(shown),
                <<Arms(Tail(arms), elseBlock, shown)>>, shown)>>

(* A pass of a post-test loop, after which it comes back to itself.         *)
PassCode(stmt, shown) ==
  LET again == <<Pass(stmt, shown)>> IN
  <<DoBlock(stmt.body, shown), Value(stmt.cond),
    IF stmt.until THEN Fork(stmt.cond, <<>>, again, shown)
                  ELSE Fork(stmt.cond, again, <<>>, shown)>>

(* The counter of a `for`; over an array or open bounds it is not followed. *)
IsLiteralRange(e) == e.kind = "range" /\ e.literal
FirstCounter(e) == IF IsLiteralRange(e) THEN e.start ELSE 0

(* The step that an omitted one stands for.                                 *)
DefaultStep(e) ==
  CASE e.rangeKind = "UpExclusive" -> 1
    [] e.rangeKind = "DownExclusive" -> -1
    [] e.rangeKind = "Inclusive" -> IF e.stop >= e.start THEN 1 ELSE -1

NextCounter(e, counter) == IF IsLiteralRange(e) THEN counter + DefaultStep(e) ELSE counter

(* A pass of a `for`: the latch advances the counter and goes back to the   *)
(* header.                                                                  *)
RoundCode(stmt, counter, shown) ==
  <<Binders(stmt, shown), DoBlock(stmt.body, shown), CloseScope>>
    \o Jumping(shown) \o <<Round(stmt, NextCounter(stmt.source, counter), shown)>>

(* gen_stmt.  A pre-test loop runs its body and then comes back to itself.  *)
Code(stmt, shown) ==
  CASE stmt.kind = "expr" /\ stmt.expr.kind = "if" /\ shown ->
         <<Arms(stmt.expr.arms, stmt.expr.elseBlock, shown)>>
    [] stmt.kind = "expr" /\ ~(stmt.expr.kind = "if" /\ shown) ->
         Marked(Statement(stmt), shown) \o <<Value(stmt.expr)>>
    [] stmt.kind = "assign" ->
         Marked(Statement(stmt), shown) \o <<Value(stmt.value), Store(stmt)>>
    [] stmt.kind = "while" ->
         Jumping(shown)
           \o <<Value(stmt.cond),
                Fork(stmt.cond, <<DoBlock(stmt.body, shown), DoStmt(stmt, shown)>>, <<>>, shown)>>
    [] stmt.kind = "loop" -> Jumping(shown) \o <<Pass(stmt, shown)>>
    [] stmt.kind = "for" ->
         Marked(Evaluate(stmt.source), shown) \o <<Value(stmt.source)>>
           \o Jumping(shown) \o <<Round(stmt, FirstCounter(stmt.source), shown)>>

-----------------------------------------------------------------------------
(* Whether another pass of a range follows.                                 *)
RangeContinue(e, counter) ==
  IF DefaultStep(e) > 0
    THEN counter < e.stop \/ (e.rangeKind = "Inclusive" /\ counter = e.stop)
    ELSE counter > e.stop \/ (e.rangeKind = "Inclusive" /\ counter = e.stop)

(* The ways a test can come out: bounds that are not literals, arrays and   *)
(* conditions that are not literals leave both open.                        *)
Outcomes(cond, counter) ==
  CASE cond.kind = "bool" -> {cond.value}
    [] IsLiteralRange(cond) -> {RangeContinue(cond, counter)}
    [] OTHER -> BOOLEAN

-----------------------------------------------------------------------------
(* Slots.                                                                   *)

InFunction == saved # <<>> \/ ~program.isEntry

FramesWith(x, scopes) == {i \in DOMAIN scopes : x \in DOMAIN scopes[i]}

(* var_slot; a name with no slot holds nothing.                             *)
Found(x, global) ==
  IF ~global /\ FramesWith(x, frames) # {}
    THEN frames[Max(FramesWith(x, frames))][x]
    ELSE IF x \in DOMAIN globals THEN globals[x] ELSE Slot("none", Unwritten)

Read(x, global) == [name |-> x, by |-> Found(x, global).by, type |-> Found(x, global).type]

Loads(e) ==
  CASE e.kind = "computed" ->
         {Read(x, FALSE) : x \in e.vars} \cup {Read(x, TRUE) : x \in e.globals \cup e.holes}
    [] e.kind = "range" -> {Read(x, FALSE) : x \in e.vars}
    [] OTHER -> {}

(* resolve_place: the scope a target is in, 0 for the globals: that of the  *)
(* nearest local, at the top level else a global of the name, and otherwise *)
(* the innermost scope.                                                     *)
PlaceOf(target) ==
  LET local == FramesWith(target.sym, frames)
      isGlobal == \/ target.global
                  \/ local = {} /\ ~InFunction /\ target.sym \in DOMAIN globals
  IN  IF isGlobal THEN 0 ELSE IF local = {} THEN Len(frames) ELSE Max(local)

(* A scope after the store: a slot that is made there has the type of the   *)
(* value.                                                                   *)
Stored(scope, place, stmt) ==
  LET names == {t.sym : t \in {t \in ToSet(stmt.targets) : PlaceOf(t) = place}} IN
  [x \in names |-> IF x \in DOMAIN scope THEN [scope[x] EXCEPT !.by = stmt.id]
                                        ELSE Slot(TypeGiven(stmt.value), stmt.id)] @@ scope

(* declare_globals: one for every name assigned at the top level, of the    *)
(* type of the first value in the text.                                     *)
DeclaredGlobals(p) ==
  LET assigns == SelectSeq(p.body.stmts, LAMBDA s : p.isEntry /\ s.kind = "assign")
      Slots(s) == [x \in {t.sym : t \in ToSet(s.targets)} |-> Slot(TypeGiven(s.value), Unwritten)]
  IN  FoldLeft(LAMBDA declared, s : declared @@ Slots(s), <<>>, assigns)

-----------------------------------------------------------------------------
(* The walk through the graph.                                              *)

(* What the graph has at a position: an action, or the terminator.          *)
ShownAt(g, p) ==
  LET block == g.blocks[p[1] + 1] IN
  IF p[2] <= Len(block.actions) THEN block.actions[p[2]] ELSE block.terminator

After(p, n) == <<p[1], p[2] + n>>

Jumped(g, p) == <<ShownAt(g, p).target, 1>>

Taken(g, p, outcome) ==
  LET t == ShownAt(g, p) IN <<IF outcome THEN t.thenBlock ELSE t.elseBlock, 1>>

(* A return leads to the exit block.                                        *)
Passed(g, p) == IF ShownAt(g, p).kind = "return" THEN <<g.exit, 1>> ELSE After(p, 1)

-----------------------------------------------------------------------------
(* One action for each item.                                                *)

Top(item) == todo # <<>> /\ Head(todo).do = item
Item == Head(todo)
Continue(items) == todo' = items \o Tail(todo)
Quietly == lastRead' = {} /\ UNCHANGED <<unit, saved, globals>>

RunStmt ==
  /\ Top("stmt")
  /\ Continue(Code(Item.stmt, Item.shown))
  /\ Quietly /\ UNCHANGED <<frames, at>>

RunArms ==
  /\ Top("arms")
  /\ Continue(ArmsCode(Item.arms, Item.elseBlock, Item.shown))
  /\ Quietly /\ UNCHANGED <<frames, at>>

RunPass ==
  /\ Top("pass")
  /\ Continue(PassCode(Item.stmt, Item.shown))
  /\ Quietly /\ UNCHANGED <<frames, at>>

(* gen_block: push a scope, run, pop it.                                    *)
EnterBlock ==
  /\ Top("block")
  /\ Continue(Body(Item.block, Item.shown) \o <<CloseScope>>)
  /\ frames' = Append(frames, <<>>)
  /\ Quietly /\ UNCHANGED at

(* A mistake: the scope stays.                                              *)
KeepScope ==
  /\ Top("close")
  /\ Continue(<<>>)
  /\ Quietly /\ UNCHANGED <<frames, at>>

LeaveScope ==
  /\ Top("close")
  /\ Continue(<<>>)
  /\ frames' = Front(frames)
  /\ Quietly /\ UNCHANGED at

ReachAction ==
  /\ Top("reach")
  /\ Continue(<<>>)
  /\ at' = Passed(graph, at)
  /\ Quietly /\ UNCHANGED frames

FollowJump ==
  /\ Top("jump")
  /\ Continue(<<>>)
  /\ at' = Jumped(graph, at)
  /\ Quietly /\ UNCHANGED frames

(* An expression: its parts in either order, or the arms of an `if`.        *)
Evaluated ==
  /\ Top("value")
  /\ LET e == Item.expr
         calls == IF e.kind = "computed" THEN [i \in DOMAIN e.calls |-> Call(e.calls[i])]
                                         ELSE <<>>
     IN  \/ e.kind = "if" /\ Continue(<<Arms(e.arms, e.elseBlock, FALSE)>>)
         \/ e.kind # "if" /\ Continue(calls \o <<Load(e)>>)
         \/ e.kind # "if" /\ calls # <<>> /\ Continue(<<Load(e)>> \o calls)
  /\ Quietly /\ UNCHANGED <<frames, at>>

LoadSlots ==
  /\ Top("load")
  /\ Continue(<<>>)
  /\ lastRead' = Loads(Item.expr)
  /\ UNCHANGED <<unit, frames, saved, globals, at>>

StoreValues ==
  /\ Top("store")
  /\ Continue(<<>>)
  /\ frames' = [i \in DOMAIN frames |-> Stored(frames[i], i, Item.stmt)]
  /\ globals' = Stored(globals, 0, Item.stmt)
  /\ lastRead' = {}
  /\ UNCHANGED <<unit, saved, at>>

Test ==
  /\ Top("fork")
  /\ \E outcome \in Outcomes(Item.cond, 0) :
       /\ Continue(IF outcome THEN Item.yes ELSE Item.no)
       /\ at' = IF Item.shown THEN Taken(graph, at, outcome) ELSE at
  /\ Quietly /\ UNCHANGED frames

(* The header of a `for`.                                                   *)
TestRange ==
  /\ Top("round")
  /\ \E outcome \in Outcomes(Item.stmt.source, Item.counter) :
       /\ Continue(IF outcome THEN RoundCode(Item.stmt, Item.counter, Item.shown) ELSE <<>>)
       /\ at' = IF Item.shown THEN Taken(graph, at, outcome) ELSE at
  /\ Quietly /\ UNCHANGED frames

BindLoopVariables ==
  /\ Top("bind")
  /\ Continue(<<>>)
  /\ frames' = Append(frames, Filled(BinderTypes(Item.stmt)))
  /\ at' = IF Item.shown THEN After(at, Len(Item.stmt.binders)) ELSE at
  /\ Quietly

CallFunction ==
  /\ Top("call")
  /\ LET f == program.functions[Item.name] IN
       /\ Continue(Body(f.body, FALSE) \o <<Back>>)
       /\ frames' = <<Filled(f.params)>>
  /\ saved' = Append(saved, frames)
  /\ lastRead' = {}
  /\ UNCHANGED <<unit, globals, at>>

ReturnToCaller ==
  /\ Top("back")
  /\ Continue(<<>>)
  /\ frames' = Last(saved)
  /\ saved' = Front(saved)
  /\ lastRead' = {}
  /\ UNCHANGED <<unit, globals, at>>

(* gen_entry and gen_function: the statements, then the result.             *)
UnitCode(p) ==
  Stmts(UnitStmts(p), TRUE)
    \o <<Reach(Return(p.body.result))>>
    \o (IF p.body.result = Missing THEN <<>> ELSE <<Value(p.body.result)>>)

Init ==
  /\ \E name \in Name : unit = Analysed(ProgramNamed(name))
  /\ todo = UnitCode(program)
  /\ frames = <<Filled(program.params)>>
  /\ saved = <<>>
  /\ globals = DeclaredGlobals(program)
  /\ at = <<graph.entry, 1>>
  /\ lastRead = {}

Next ==
  \/ RunStmt \/ RunArms \/ RunPass \/ EnterBlock \/ LeaveScope
  \/ ReachAction \/ FollowJump \/ Evaluated \/ LoadSlots \/ StoreValues
  \/ Test \/ TestRange \/ BindLoopVariables \/ CallFunction \/ ReturnToCaller

Spec == Init /\ [][Next]_vars

-----------------------------------------------------------------------------

(* What the graph must show where the code is about to run an item that     *)
(* stands in the graph by itself.                                           *)
Agrees(item, p) ==
  LET shown == ShownAt(graph, p) IN
  /\ item.do = "reach" => shown = item.action
  /\ item.do = "jump" => shown.kind = "goto"
  /\ item.do = "fork" /\ item.shown => shown.kind = "branch" /\ shown.cond = item.cond
  /\ item.do = "round" /\ item.shown =>
       shown.kind = "branch" /\ shown.cond = item.stmt.source
  /\ item.do = "bind" /\ item.shown =>
       \A i \in DOMAIN item.stmt.binders :
         ShownAt(graph, After(p, i - 1)) = Bind(item.stmt.binders[i])

(* The graph the analyses look at shows every action, every test and every  *)
(* jump of the code, in the order in which the code runs them, and nothing  *)
(* else: the lowering of src/analysis/cfg.rs and that of                    *)
(* src/codegen/stmt.rs, two separate walks of the tree, describe the same   *)
(* program.                                                                 *)
GraphFollowsCode ==
  IF todo # <<>> THEN Agrees(Item, at) ELSE ShownAt(graph, at) = Exit

(* The walk stays in the graph, and scopes and callers are balanced.        *)
TypeOK ==
  /\ at[1] \in DOMAIN graph.succs
  /\ at[2] \in 1 .. Len(graph.blocks[at[1] + 1].actions) + 1
  /\ Len(frames) >= 1
  /\ todo = <<>> => Len(frames) = 1 /\ saved = <<>>

(* Code reported as unreachable never runs.                                 *)
UnreachableNeverRuns == at[1] \notin unit.unreachable

(* A value reported as unused or overwritten is never read, in the unit     *)
(* itself or in a function it calls.                                        *)
UnreadWritesAreUnread == {<<r.by, r.name>> : r \in lastRead} \cap unit.unread = {}

(* Every name the accepted program reads has a slot that was stored to      *)
(* before, and the slot was made for the type that sema gave the name where *)
(* it was stored: the scopes of src/sema and the separate ones the          *)
(* generator resolves names with agree on every path, in what there is and  *)
(* in its type.                                                             *)
ReadsFindStoredSlots ==
  \A r \in lastRead : r.by = Bound \/ <<r.by, r.name, r.type>> \in unit.bound
=============================================================================
