----------------------------- MODULE StringTypes -----------------------------
(***************************************************************************)
(* The programs the theorems of StringTypes_proofs and HostRuns_proofs are *)
(* about: which trees they have, that their types agree as sema settles    *)
(* them (src/sema/analyzer.rs, as far as strings go), and what they may    *)
(* assign.                                                                 *)
(*                                                                         *)
(* And what sema does not ask for.  Typed: no block that is run for its    *)
(* effect yields a string, which nobody would free.  Careful: a value read *)
(* from a variable is used before the variable is assigned again.          *)
(* MCStringCode has a program that breaks each of the two, and what the    *)
(* generated code then does.                                               *)
(***************************************************************************)
EXTENDS HostRuns

CONSTANTS
  Symbol,         \* the names of variables
  Expr(_),        \* the expressions of a program
  Stmt(_),        \* its statements, and what is left of its loops
  Writes(_, _)    \* the places an expression or statement of it may assign

-----------------------------------------------------------------------------
(* Types.                                                                   *)

(* A global that is named as one is declared.                               *)
IsPlace(p, place) ==
  /\ place.global \in BOOLEAN /\ place.sym \in Symbol
  /\ place.global => place.sym \in DeclaredGlobals(p)

IsBlock(p, b) ==
  /\ b # Missing
  /\ b.stmts \in Seq(Stmt(p))
  /\ b.result = Missing \/ b.result \in Expr(p)

BlockWrites(p, b) ==
  (UNION {Writes(p, b.stmts[i]) : i \in DOMAIN b.stmts})
    \cup (IF b.result = Missing THEN {} ELSE Writes(p, b.result))

(* A block run for its effect; it yields no string, although sema would     *)
(* accept one.                                                              *)
IsEffect(p, b) == b = Missing \/ (IsBlock(p, b) /\ ~Yields(b))
EffectWrites(p, b) == IF b = Missing THEN {} ELSE BlockWrites(p, b)

(* What a call may assign of what its caller sees.                          *)
CallWrites(p, name) == {place \in BlockWrites(p, p.functions[name]) : place.global}

Operands(p, e, of) == of \in Expr(p) /\ Writes(p, of) \subseteq Writes(p, e)

IsExpr(p, e) ==
  \/ e.kind = "scalar" /\ ~e.str
  \/ e.kind = "literal" /\ e.str
  \/ e.kind = "var" /\ e.str /\ IsPlace(p, e.place)
  \/ /\ e.kind = "concat" /\ e.str
     /\ e.parts \in Seq(Expr(p))
     /\ \A i \in DOMAIN e.parts : Operands(p, e, e.parts[i])
  \/ e.kind = "str" /\ e.str /\ Operands(p, e, e.of)
  \/ e.kind = "len" /\ ~e.str /\ Operands(p, e, e.of) /\ e.of.str
  \/ /\ e.kind = "compare" /\ ~e.str
     /\ \A of \in {e.left, e.right} : Operands(p, e, of) /\ of.str
  \/ /\ e.kind = "call"
     /\ e.name \in DOMAIN p.functions
     /\ e.str = p.functions[e.name].result.str
     /\ CallWrites(p, e.name) \subseteq Writes(p, e)
  \/ /\ e.kind = "if"
     /\ \A b \in {e.yes, e.no} :
          /\ IF e.str THEN IsBlock(p, b) /\ Yields(b) ELSE IsEffect(p, b)
          /\ EffectWrites(p, b) \subseteq Writes(p, e)

IsStmt(p, s) ==
  \/ /\ s.kind = "assign"
     /\ s.values \in Seq(Expr(p)) /\ s.values # <<>>
     /\ \A i \in DOMAIN s.values : Operands(p, s, s.values[i]) /\ s.values[i].str
     /\ Len(s.groups) \in Nat \ {0} /\ DOMAIN s.groups = 1 .. Len(s.groups)
     /\ \A g \in DOMAIN s.groups :
          /\ DOMAIN s.groups[g] = DOMAIN s.values
          /\ \A i \in DOMAIN s.values :
               IsPlace(p, s.groups[g][i]) /\ s.groups[g][i] \in Writes(p, s)
  \/ s.kind = "expr" /\ Operands(p, s, s.expr)
  \/ /\ s.kind = "loop"
     /\ Operands(p, s, s.cond) /\ ~s.cond.str
     /\ IsEffect(p, s.body) /\ EffectWrites(p, s.body) \subseteq Writes(p, s)
     /\ [s EXCEPT !.pretest = TRUE] \in Stmt(p)
     /\ Writes(p, [s EXCEPT !.pretest = TRUE]) \subseteq Writes(p, s)
  \/ /\ s.kind = "for"
     /\ Operands(p, s, s.source) /\ ~s.source.str
     /\ Turns(s.body) \in Stmt(p) /\ Writes(p, Turns(s.body)) \subseteq Writes(p, s)
  \/ /\ s.kind = "turns"
     /\ IsEffect(p, s.body) /\ EffectWrites(p, s.body) \subseteq Writes(p, s)

Typed(p) ==
  /\ p.stmts \in Seq(Stmt(p)) /\ p.stmts # <<>>
  /\ \A name \in DOMAIN p.functions :
       IsBlock(p, p.functions[name]) /\ p.functions[name].result # Missing
  /\ \A e \in Expr(p) : e # Missing /\ e.str \in BOOLEAN /\ IsExpr(p, e)
  /\ \A s \in Stmt(p) : IsStmt(p, s)

ASSUME TypedAssumption == \A name \in Name : Typed(ProgramNamed(name))

-----------------------------------------------------------------------------
(* Care.                                                                    *)

MayWrite(p, tree, x) == \E place \in Writes(p, tree) : place.sym = x

(* What `first` reads from a variable outlives the evaluation of `later`.   *)
Outlives(p, first, later) == first.kind = "var" => ~MayWrite(p, later, first.place.sym)

(* No place of an assignment up to (group, index), but after the one that   *)
(* took value number i, is the variable that took it.                       *)
Keeps(s, i, group, index) ==
  \A g \in DOMAIN s.groups, j \in DOMAIN s.values :
     /\ g > 1 \/ j > i
     /\ g < group \/ (g = group /\ j < index)
     => s.groups[g][j].sym # s.groups[1][i].sym

Careful(p) ==
  /\ \A e \in Expr(p) :
       /\ e.kind = "concat" =>
            \A i, j \in DOMAIN e.parts : i < j => Outlives(p, e.parts[i], e.parts[j])
       /\ e.kind = "compare" => Outlives(p, e.left, e.right)
  /\ \A s \in Stmt(p) :
       s.kind = "assign" =>
         \A g \in DOMAIN s.groups, i \in DOMAIN s.values : g > 1 => Keeps(s, i, g, i)
  /\ LET last == Last(p.stmts) IN
       last.kind = "assign" =>
         Keeps(last, Len(last.values), Len(last.groups) + 1, 1)
=============================================================================
