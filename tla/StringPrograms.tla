--------------------------- MODULE StringPrograms ---------------------------
(***************************************************************************)
(* The programs StringCode is run on.  All begin with `s = '...'` and      *)
(* `t = '...'`, both too long for a descriptor, and have a function f.     *)
(* An operand is a word; an expression a tuple <<form, operand, ...>>; a   *)
(* statement <<form, expression>>; a program                               *)
(* <<what f does, statement, last statement>>.                             *)
(***************************************************************************)
EXTENDS StringCode

s == Local("s")
t == Local("t")
Long == Literal(TRUE)

Operand(word) ==
  CASE word = "long" -> Long
    [] word = "short" -> Literal(FALSE)
    [] word = "s" -> Var(s)
    [] word = "t" -> Var(t)
    [] word = "f()" -> Call("f", TRUE)
    [] word = "1" -> Scalar

Words == {"long", "short", "s", "t", "f()"}
Only(e) == Block(<<>>, e)

Expression(x) ==
  CASE x[1] = "just" -> Operand(x[2])
    [] x[1] = "join" -> Concat(<<Operand(x[2]), Operand(x[3])>>)
    [] x[1] = "nested" -> Concat(<<Operand(x[2]), Concat(<<Operand(x[3]), Scalar>>)>>)
    [] x[1] = "if" -> If(Only(Operand(x[2])), Only(Operand(x[3])))
    [] x[1] = "str" -> Str(Operand(x[2]))
    [] x[1] = "if u" ->    \* if ?: u = x; u + x  else: s
         If(Block(<<Assign(<<<<Local("u")>>>>, <<Operand(x[2])>>)>>,
                  Concat(<<Var(Local("u")), Operand(x[2])>>)),
            Only(Var(s)))
    [] x[1] = "compare" -> Compare(Operand(x[2]), Operand(x[3]))
    [] x[1] = "len" -> LenOf(Operand(x[2]))

StringExpressions ==
  {<<form, x, y>> : form \in {"join", "nested"}, x \in Words, y \in Words}
    \cup {<<"join", "1", y>> : y \in Words}
    \cup {<<"if", x, y>> : x \in {"long", "s"}, y \in {"t", "f()", "short"}}
    \cup {<<form, x>> : form \in {"just", "str", "if u"}, x \in Words}
Expressions ==
  StringExpressions
    \cup {<<"compare", x, y>> : x \in Words, y \in Words} \cup {<<"len", x>> : x \in Words}
    \cup {<<"str", "1">>}

Becomes(place, e) == Assign(<<<<place>>>>, <<e>>)

Statement(st) ==
  LET e == Expression(st[2])
      u == Local("u") IN
  CASE st[1] = "discard" -> ExprStmt(e)
    [] st[1] = "s =" -> Becomes(s, e)
    [] st[1] = "s = t =" -> Assign(<<<<s>>, <<t>>>>, <<e>>)
    [] st[1] = "s, t = t," -> Assign(<<<<s, t>>>>, <<Var(t), e>>)
    [] st[1] = "s, s = t," -> Assign(<<<<s, s>>>>, <<Var(t), e>>)
    [] st[1] = "s = s =" -> Assign(<<<<s>>, <<s>>>>, <<e>>)
    [] st[1] = "while" ->    \* while t == x: u = e; s = u; s + x; s = u
         Loop(Compare(Var(t), Long),
              Block(<<Becomes(u, e), Becomes(s, Var(u)), ExprStmt(Concat(<<Var(s), Long>>)),
                      Becomes(s, Var(u))>>, Missing), TRUE)
    [] st[1] = "for" ->    \* for i in ..: u = e; s = u
         For(Scalar, Block(<<Becomes(u, e), Becomes(s, Var(u))>>, Missing))
    [] st[1] = "loop" -> Loop(Compare(Var(s), e), Block(<<Becomes(s, e)>>, Missing), FALSE)
    [] st[1] = "if" ->
         ExprStmt(If(Block(<<Becomes(u, e), Becomes(t, Var(u))>>, Missing), Missing))
    [] st[1] = "while:" -> Loop(Scalar, Only(e), TRUE)
    [] st[1] = "if:" -> ExprStmt(If(Only(e), Missing))

(* What f does to the globals before it returns a string.                   *)
F(does) ==
  CASE does = "writes t" -> Block(<<Becomes(Global("t"), Long)>>, Var(Global("t")))
    [] does = "reads" -> Block(<<>>, Concat(<<Var(Global("s")), Var(Global("t"))>>))
    [] does = "fails" ->    \* or may, with a string alive in its frame
         Block(<<Becomes(Local("v"), Long), Becomes(Global("t"), Long), ExprStmt(Scalar)>>,
               Concat(<<Var(Local("v")), Var(Global("t"))>>))
    [] does = "own" -> Block(<<Becomes(Local("v"), Long)>>, Var(Local("v")))

Program(n) ==
  [stmts |-> <<Becomes(s, Long), Becomes(t, Long), Statement(n[2]), Statement(n[3])>>,
   functions |-> [f \in {"f"} |-> F(n[1])]]

(* A value of `t` is read, and then f frees it, before what was read is used. *)
ReadBeforeCall(x) ==
  \/ x[1] \in {"join", "nested", "compare"} /\ x[2] = "t" /\ x[3] = "f()"
=============================================================================
