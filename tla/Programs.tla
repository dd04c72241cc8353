------------------------------ MODULE Programs ------------------------------
(***************************************************************************)
(* The programs the models are run on: every control-flow shape of the     *)
(* language around a few simple statements over two names.  A program is   *)
(* named by a tuple <<shape, first, second, last>>; Program says what it   *)
(* is.  Statement ids are the places: 1, 2 the prologue, 3 and 4 inside    *)
(* the shape, 5 after it, 6 and up in a function.                          *)
(***************************************************************************)
EXTENDS Scopes

(* What each place may hold.  `f` is the function of the program.           *)
Simple(n, what) ==
  CASE what = "set a" -> Assign(n, <<Local("a")>>, Reads(10 * n, {}))
    [] what = "bump a" -> Assign(n, <<Local("a")>>, Reads(10 * n, {"a"}))
    [] what = "b = a" -> Assign(n, <<Local("b")>>, Reads(10 * n, {"a"}))
    [] what = "a = b = a" ->
         Assign(n, <<Local("a"), Local("b")>>, Reads(10 * n, {"a"}))
    [] what = "set c" -> Assign(n, <<Local("c")>>, Reads(10 * n, {}))
    [] what = "c = 1.5" -> Assign(n, <<Local("c")>>, OfType("Float", Reads(10 * n, {})))
    [] what = "use a" -> ExprStmt(Reads(10 * n, {"a"}))
    [] what = "use b" -> ExprStmt(Reads(10 * n, {"b"}))
    [] what = "use c" -> ExprStmt(Reads(10 * n, {"c"}))
    [] what = "a + f()" -> ExprStmt(Computed(10 * n, {"a"}, {}, {}, <<"f">>))
    [] what = "a = f()" ->
         Assign(n, <<Local("a")>>, Computed(10 * n, {}, {}, {}, <<"f">>))
    [] what = "b = if" ->    \* b = (if ?: a = 0; a  else: b)
         Assign(n, <<Local("b")>>,
                If(10 * n,
                   <<IfArm(Reads(10 * n + 1, {}),
                           Block(<<Assign(10 * n + 2, <<Local("a")>>, Reads(10 * n + 3, {}))>>,
                                 Reads(10 * n + 4, {"a"})))>>,
                   Block(<<>>, Reads(10 * n + 5, {"b"}))))

Plain(what) == Block(<<what>>, Missing)
Ending(what, x) == Block(<<what>>, Reads(60, {x}))

(* The control-flow shapes around two statements.                           *)
Shape(shape, s, t) ==
  LET c == Reads(70, {"a"})
      free == Reads(71, {}) IN
  CASE shape = "sequence" -> <<s, t>>
    [] shape = "if" -> <<ExprStmt(If(80, <<IfArm(c, Block(<<s, t>>, Missing))>>, Missing))>>
    [] shape = "if else" ->
         <<ExprStmt(If(80, <<IfArm(c, Plain(s))>>, Ending(t, "a")))>>
    [] shape = "if elif" ->
         <<ExprStmt(If(80, <<IfArm(free, Plain(s)), IfArm(c, Plain(t))>>, Missing))>>
    [] shape = "if true" ->
         <<ExprStmt(If(80, <<IfArm(Bool(72, TRUE), Plain(s))>>, Plain(t)))>>
    [] shape = "while" -> <<While(81, c, Block(<<s, t>>, Missing))>>
    [] shape = "while false" -> <<While(81, Bool(72, FALSE), Plain(s)), t>>
    [] shape = "while true" -> <<While(81, Bool(72, TRUE), Plain(s)), t>>
    [] shape = "loop" -> <<Loop(82, Block(<<s, t>>, Missing), free, FALSE)>>
    [] shape = "until" -> <<Loop(82, Plain(s), c, TRUE), t>>
    [] shape = "loop once" -> <<Loop(82, Plain(s), Bool(72, TRUE), TRUE), t>>
    [] shape = "for open" -> <<For(83, <<"i">>, OpenRange(73, {"a"}), Block(<<s, t>>, Missing))>>
    [] shape = "for array" ->
         <<For(83, <<"i", "j">>, Reads(73, {"a"}), Plain(s)), t>>
    [] shape = "for a" ->    \* the loop variable hides the outer `a`
         <<For(83, <<"a">>, OpenRange(73, {}), Block(<<s, t>>, Missing))>>
    [] shape = "while (if)" ->    \* while (a if ? else b)
         <<While(81, If(74, <<IfArm(free, Block(<<>>, Reads(77, {"a"})))>>,
                        Block(<<>>, Reads(78, {"b"}))),
                 Block(<<s, t>>, Missing))>>
    [] shape = "while if" ->
         <<While(81, free, Plain(ExprStmt(If(80, <<IfArm(c, Plain(s))>>, Plain(t)))))>>
    [] shape = "if while" ->
         <<ExprStmt(If(80, <<IfArm(c, Plain(While(81, free, Plain(s))))>>, Plain(t)))>>
    [] shape = "for loop" ->
         <<For(83, <<"i">>, LiteralRange(73, 1, 2, "Inclusive"),
               Plain(Loop(82, Plain(s), free, TRUE))), t>>

(* A `for` over literal bounds; the shape is <<operator, start, stop>>.     *)
Counted(range, s, t) ==
  <<For(83, <<"i">>, LiteralRange(73, range[2], range[3], range[1]), Plain(s)), t>>

(* The function of the program, over the global `a`.                        *)
F(what) ==
  Function(<<>>, Block(
    CASE what = "reads" -> <<ExprStmt(Computed(90, {}, {"a"}, {}, <<>>))>>
      [] what = "writes" -> <<Assign(9, <<Global("a")>>, Reads(90, {}))>>
      [] what = "hole" -> <<ExprStmt(Computed(90, {}, {}, {"a"}, <<>>))>>
      [] what = "own" -> <<Assign(9, <<Local("a")>>, Reads(90, {}))>>,
    IF what = "own" THEN Reads(91, {"a"}) ELSE Reads(91, {})))

(* The top-level unit: `a` and `b` are assigned first, then `f` is defined. *)
EntryProgram(middle, last, f) ==
  Entry(<<Simple(1, "set a"), Assign(2, <<Local("b")>>, Reads(20, {})), Define("f")>>
          \o middle \o <<last>>,
        [name \in {"f"} |-> F(f)])

(* The same inside a function with parameter `a`, ending in a result.       *)
FunctionProgram(middle, last) ==
  FunctionUnit([x \in {"a"} |-> "Int"],
    Block(<<Assign(2, <<Local("b")>>, Reads(20, {}))>> \o middle, last))
=============================================================================
