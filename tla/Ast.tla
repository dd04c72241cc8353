-------------------------------- MODULE Ast --------------------------------
(***************************************************************************)
(* The syntax tree as the analyses and the control-flow lowering see it    *)
(* (src/parser/ast.rs).  An expression is what it reads, the literal it    *)
(* may be, its type, and the nested blocks of an `if`; operators are left  *)
(* out.  Every statement and expression carries an id, as every node has   *)
(* its ExprId and every finding its span.                                  *)
(***************************************************************************)
EXTENDS Integers, SequencesExt

Missing == [kind |-> "missing"]    \* an absent result, else branch or step

(* A target of an assignment: a bare name or a `::` global.                 *)
Local(x)  == [global |-> FALSE, sym |-> x]
Global(x) == [global |-> TRUE, sym |-> x]

-----------------------------------------------------------------------------
(* Expressions.                                                             *)

(* Any expression without nested blocks: the bare names it reads, the `::`  *)
(* names it reads, the `::` names in the holes of its f-strings, and the    *)
(* functions it calls, in order.  A comparison or an index makes a value of *)
(* one type from those of others, so the type stands by itself.             *)
Computed(id, vars, globals, holes, calls) ==
  [kind |-> "computed", id |-> id, vars |-> vars, globals |-> globals,
   holes |-> holes, calls |-> calls, type |-> "Int"]

Reads(id, vars) == Computed(id, vars, {}, {}, <<>>)
OfType(type, e) == [e EXCEPT !.type = type]

Bool(id, value) == [kind |-> "bool", id |-> id, value |-> value]

(* `start..stop` with literal bounds, or with bounds that are expressions   *)
(* reading `vars`; rangeKind is the operator.                               *)
LiteralRange(id, start, stop, rangeKind) ==
  [kind |-> "range", id |-> id, literal |-> TRUE, start |-> start,
   stop |-> stop, rangeKind |-> rangeKind, vars |-> {}]
OpenRange(id, vars) ==
  [kind |-> "range", id |-> id, literal |-> FALSE, start |-> 0, stop |-> 0,
   rangeKind |-> "Inclusive", vars |-> vars]

IfArm(cond, body) == [cond |-> cond, body |-> body]
If(id, arms, elseBlock) ==
  [kind |-> "if", id |-> id, arms |-> arms, elseBlock |-> elseBlock]

Block(stmts, result) == [kind |-> "block", stmts |-> stmts, result |-> result]

-----------------------------------------------------------------------------
(* Statements.  An indexed assignment reads the array it updates and        *)
(* replaces no binding, so here it is an expression statement.              *)

Assign(id, targets, value) ==
  [kind |-> "assign", id |-> id, targets |-> targets, value |-> value]
ExprStmt(expr) == [kind |-> "expr", id |-> expr.id, expr |-> expr]
While(id, cond, body) ==
  [kind |-> "while", id |-> id, cond |-> cond, body |-> body]
Loop(id, body, cond, until) ==
  [kind |-> "loop", id |-> id, body |-> body, cond |-> cond, until |-> until]
For(id, binders, source, body) ==
  [kind |-> "for", id |-> id, binders |-> binders, source |-> source,
   body |-> body]

(* A range counts in Int; the elements of an array have a type of their own,*)
(* and the names before the last are positions.                             *)
ElementType(source) == IF source.kind = "range" THEN "Int" ELSE source.type
BinderTypes(s) ==
  [x \in ToSet(s.binders) |-> IF x = Last(s.binders) THEN ElementType(s.source) ELSE "Int"]

-----------------------------------------------------------------------------
(* A program: the unit under analysis, which is the top-level statements or *)
(* the body of one function, and the other functions it may call.  Among    *)
(* top-level statements, Define marks where a function definition stands.   *)

Define(name) == [kind |-> "define", name |-> name]

(* Parameters are a function from their names to their types.               *)
Function(params, body) == [params |-> params, body |-> body]

Entry(stmts, functions) ==
  [isEntry |-> TRUE, params |-> <<>>, body |-> Block(stmts, Missing),
   functions |-> functions]
FunctionUnit(params, body) ==
  [isEntry |-> FALSE, params |-> params, body |-> body, functions |-> <<>>]
=============================================================================
