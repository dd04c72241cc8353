------------------------------- MODULE Scopes -------------------------------
(***************************************************************************)
(* Which programs semantic analysis accepts, and the type it gives to each *)
(* name that is assigned (src/sema/analyzer.rs): bare names resolve        *)
(* outward through the block scopes of the current function, `::` names in *)
(* the global scope only, a name first assigned in a block dies with it,   *)
(* loop variables are read-only, a value must fit the name it is assigned  *)
(* to, and a function can be called after its definition.                  *)
(*                                                                         *)
(* The analysis carries an environment through the program.  Its scopes    *)
(* map names to types; scopes[1] is the global one, and env.base is where  *)
(* those of the current function start.  env.bound records what each       *)
(* assignment found, as triples <<statement, name, type of the name>>.     *)
(* That conditions are Bool is left out.                                   *)
(***************************************************************************)
EXTENDS Ast

(* Bool widens to Int, and both to Float.                                   *)
Assignable(from, to) ==
  from = to \/ <<from, to>> \in {<<"Bool", "Int">>, <<"Bool", "Float">>, <<"Int", "Float">>}

(* The type all of these widen to, if one of them is.                       *)
Join(types) ==
  IF \E t \in types : \A from \in types : Assignable(from, t)
    THEN CHOOSE t \in types : \A from \in types : Assignable(from, t)
    ELSE "Void"

(* An `if` has a value when it has an else and every branch has a result.   *)
RECURSIVE TypeOf(_)
TypeOf(e) ==
  CASE e.kind = "computed" -> e.type
    [] e.kind = "bool" -> "Bool"
    [] e.kind = "range" -> "Range"
    [] e.kind = "missing" -> "Void"
    [] e.kind = "if" ->
         Join({IF e.elseBlock = Missing THEN "Void" ELSE TypeOf(e.elseBlock.result)}
                \cup {TypeOf(a.body.result) : a \in ToSet(e.arms)})

(* validate_literal_range: an exclusive operator must point the right way.  *)
DirectionOk(e) ==
  e.literal =>
    /\ e.rangeKind = "UpExclusive" => e.start <= e.stop
    /\ e.rangeKind = "DownExclusive" => e.start >= e.stop

-----------------------------------------------------------------------------

Require(ok, env) == [env EXCEPT !.ok = @ /\ ok]
ScopeOpened(env, scope) == [env EXCEPT !.scopes = Append(@, scope)]

(* A mistake: the scope of a block is left in place.                        *)
ScopeLeftOpen(env) == env

ScopeClosed(env) == [env EXCEPT !.scopes = Front(@)]

(* The scopes in which a bare name may be found, and those that have it.    *)
Visible(env) == UNION {DOMAIN env.scopes[i] : i \in env.base .. Len(env.scopes)}
ScopesWith(x, env, global) ==
  {i \in IF global THEN {1} ELSE env.base .. Len(env.scopes) : x \in DOMAIN env.scopes[i]}

RECURSIVE AnalyzeExpr(_, _), AnalyzeBlock(_, _), Analyzed(_, _)

AnalyzeExpr(e, env) ==
  CASE e.kind = "computed" ->
         Require(/\ e.vars \subseteq Visible(env)
                 /\ e.globals \cup e.holes \subseteq DOMAIN env.scopes[1]
                 /\ ToSet(e.calls) \subseteq env.funcs, env)
    [] e.kind = "range" -> Require(e.vars \subseteq Visible(env) /\ DirectionOk(e), env)
    [] e.kind = "if" ->
         LET arms == FoldLeft(LAMBDA m, a : AnalyzeBlock(a.body, AnalyzeExpr(a.cond, m)),
                              env, e.arms)
         IN  IF e.elseBlock = Missing THEN arms ELSE AnalyzeBlock(e.elseBlock, arms)
    [] OTHER -> env

(* A body in a scope of its own, popped on the way out.                     *)
AnalyzeBlock(block, env) ==
  ScopeClosed(AnalyzeExpr(block.result, Analyzed(block.stmts, ScopeOpened(env, <<>>))))

(* One target of statement s, given a value of this type: a global must     *)
(* exist; a bare name updates the nearest binding, or introduces one in the *)
(* innermost scope.                                                         *)
AssignPlace(s, target, type, env) ==
  LET x == target.sym
      found == ScopesWith(x, env, target.global)
      held == IF found = {} THEN type ELSE env.scopes[Max(found)][x]
      refused == IF target.global THEN found = {} ELSE x \in env.loopVars
  IN  IF refused
        THEN Require(FALSE, env)
        ELSE [Require(Assignable(type, held), env) EXCEPT
                !.bound = @ \cup {<<s.id, x, held>>},
                !.scopes[Len(env.scopes)] = IF found = {} THEN (x :> type) @@ @ ELSE @]

AnalyzeAssign(s, env) ==
  LET type == TypeOf(s.value)
      typed == Require(type # "Void", AnalyzeExpr(s.value, env))
  IN  FoldLeft(LAMBDA m, t : AssignPlace(s, t, type, m), typed, s.targets)

AnalyzeFor(s, env) ==
  LET names == ToSet(s.binders)
      inside == [ScopeOpened(AnalyzeExpr(s.source, env), BinderTypes(s)) EXCEPT
                   !.loopVars = @ \cup names]
  IN  [ScopeClosed(AnalyzeBlock(s.body, inside)) EXCEPT !.loopVars = env.loopVars]

(* Statements and result share the scope of the parameters, and see no      *)
(* other but the global one, by `::`.                                       *)
AnalyzeFunc(f, env) ==
  LET inside == [ScopeOpened(env, f.params) EXCEPT !.base = Len(env.scopes) + 1]
      end == AnalyzeExpr(f.body.result, Analyzed(f.body.stmts, inside))
  IN  [ScopeClosed(end) EXCEPT !.base = env.base]

(* A function is analysed where it stands, against the globals and the      *)
(* functions so far, and can be called from there on.                       *)
DefineFunc(name, env) ==
  [AnalyzeFunc(env.functions[name], env) EXCEPT !.funcs = @ \cup {name}]

AnalyzeStmt(s, env) ==
  CASE s.kind = "expr" -> AnalyzeExpr(s.expr, env)
    [] s.kind = "assign" -> AnalyzeAssign(s, env)
    [] s.kind = "while" -> AnalyzeBlock(s.body, AnalyzeExpr(s.cond, env))
    [] s.kind = "loop" -> AnalyzeExpr(s.cond, AnalyzeBlock(s.body, env))
    [] s.kind = "for" -> AnalyzeFor(s, env)
    [] s.kind = "define" -> DefineFunc(s.name, env)

Analyzed(stmts, env) ==
  IF stmts = <<>> THEN env ELSE Analyzed(Tail(stmts), AnalyzeStmt(Head(stmts), env))

-----------------------------------------------------------------------------

(* A program, or one function by itself.                                    *)
Analysis(program) ==
  LET start == [scopes |-> << <<>> >>, base |-> 1, loopVars |-> {}, funcs |-> {},
                functions |-> program.functions, bound |-> {}, ok |-> TRUE]
  IN  IF program.isEntry THEN Analyzed(program.body.stmts, start)
                         ELSE AnalyzeFunc(program, start)

Accepted(program) == Analysis(program).ok
=============================================================================
