--------------------------- MODULE MCGeneratedCode ---------------------------
(* GeneratedCode over every accepted program of a small family.             *)
EXTENDS GeneratedCode, Checks, Programs

NotedBySema(p) == Analysis(p).bound

(* The trees of a unit.                                                     *)
RECURSIVE TreesOf(_)
TreesOfBlock(b) ==
  IF b = Missing THEN {}
  ELSE (UNION {TreesOf(s) : s \in ToSet(b.stmts)})
         \cup (IF b.result = Missing THEN {} ELSE TreesOf(b.result))
TreesOf(x) ==
  {x} \cup
  CASE x.kind \in {"computed", "bool", "range", "define"} -> {}
    [] x.kind = "if" ->
         (UNION {TreesOf(a.cond) \cup TreesOfBlock(a.body) : a \in ToSet(x.arms)})
           \cup TreesOfBlock(x.elseBlock)
    [] x.kind = "expr" -> TreesOf(x.expr)
    [] x.kind = "assign" -> TreesOf(x.value)
    [] x.kind \in {"while", "loop"} -> TreesOf(x.cond) \cup TreesOfBlock(x.body)
    [] x.kind = "for" -> TreesOf(x.source) \cup TreesOfBlock(x.body)

AllTrees(p) ==
  TreesOfBlock(p.body)
    \cup UNION {TreesOfBlock(p.functions[f].body) : f \in DOMAIN p.functions}
IsExpression(x) == x.kind \in {"computed", "bool", "range", "if"}
MCExpr(p) == {x \in AllTrees(p) : IsExpression(x)}
MCStmt(p) == {x \in AllTrees(p) : ~IsExpression(x) /\ x.kind # "define"}

Shapes == {"sequence", "if", "if else", "if elif", "if true", "while", "while false",
           "while true", "loop", "until", "loop once", "for open", "for array", "for a", "while (if)",
           "while if", "if while", "for loop"}

Ranges == {<<"Inclusive", 1, 3>>, <<"Inclusive", 2, 2>>, <<"UpExclusive", 1, 1>>,
           <<"UpExclusive", 1, 2>>, <<"DownExclusive", 2, 1>>, <<"DownExclusive", 1, 1>>}

First == {"set a", "bump a", "b = a", "a = b = a", "set c", "a + f()", "b = if"}
Second == {"use c", "b = a", "set a", "a = f()"}

Named ==
  {<<"entry", shape, s, t, last, f>> : shape \in Shapes, s \in First,
     t \in Second, last \in {"use a", "use b"}, f \in {"reads", "writes", "own"}}
  \cup {<<"counted", range, s, t, "use a", "reads">> : range \in Ranges, s \in First,
          t \in Second}
  \cup {<<"function", shape, s, t, last>> : shape \in Shapes, s \in First,
          t \in Second, last \in {"a", "b"}}

(* A name of a block with a type of its own, and the same name after it.    *)
Typed == {"set c", "c = 1.5"}
TypedNames ==
  {<<"entry", shape, s, t, last, "reads">> : shape \in Shapes, s \in Typed,
     t \in Typed \cup {"use c"}, last \in {"use a", "use c", "set c"}}
  \cup {<<"function", shape, s, t, last>> : shape \in Shapes, s \in Typed,
          t \in Typed \cup {"use c"}, last \in {"a", "c"}}

Middle(n) ==
  IF n[1] = "counted" THEN Counted(n[2], Simple(3, n[3]), Simple(4, n[4]))
                      ELSE Shape(n[2], Simple(3, n[3]), Simple(4, n[4]))

Program(n) ==
  IF n[1] = "function" THEN FunctionProgram(Middle(n), Reads(60, {n[5]}))
                       ELSE EntryProgram(Middle(n), Simple(5, n[5]), n[6])

(* Accepted programs, kept apart from the family above, in which a `for`    *)
(* counts down over an inclusive range, or a function names a global only   *)
(* in the hole of an f-string.                                              *)
Descending == {<<"counted", <<"Inclusive", 5, stop>>, s, "b = a", "use a", "reads">> :
                 stop \in {1, 5}, s \in First}
ReadInAHole == {<<"entry", shape, s, "a = f()", "use b", "hole">> :
                  shape \in Shapes, s \in First}

DescendingName == {n \in Descending : Accepted(Program(n))}
HoleName == {n \in ReadInAHole : Accepted(Program(n))}

(* A name of a block that is also a global of another type: the generator   *)
(* takes the one for the other.                                             *)
TakenForGlobal(p) ==
  LET declared == DeclaredGlobals(p) IN
  \E b \in Analysis(p).bound : b[2] \in DOMAIN declared /\ declared[b[2]].type # b[3]

TakenName == {n \in TypedNames : Accepted(Program(n)) /\ TakenForGlobal(Program(n))}

MCName ==
  {n \in Named \cup TypedNames : Accepted(Program(n)) /\ ~TakenForGlobal(Program(n))}
=============================================================================
