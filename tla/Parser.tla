------------------------------- MODULE Parser -------------------------------
(***************************************************************************)
(* The parser, src/parser/{mod,item,expr}.rs: recursive descent over the   *)
(* tokens of Layout, with precedence climbing for expressions.             *)
(*                                                                         *)
(* A method of Parser is an operator from the parser before the call to    *)
(* the parser after it; what the method returns is in `node`.  The first   *)
(* error ends the parse: every operator hands on a parser that has failed. *)
(* A node carries the token it was made at; its parts are its children.    *)
(***************************************************************************)
EXTENDS Layout

CONSTANTS MAX_NESTING_DEPTH, MAX_IF_ARMS

VARIABLES
  pos,          \* where the next top-level item is looked for
  nesting,      \* `depth` after the last item
  top_level,
  verdict       \* "parsing", "accepted" or the kind of error

parserVars == <<pos, nesting, top_level, verdict>>
vars == <<layoutVars, parserVars>>

Nothing == "nothing"
Node(form, token, parts) == [form |-> form, token |-> token, parts |-> parts]

(* The cursor.                                                              *)
Kinds == {"Newline", "Indent", "Dedent"}
Here(p) == tokens[p.pos]
Peek(p) == tokens[p.pos].kind
Advance(p) == [p EXCEPT !.pos = @ + 1]
Yield(p, node) == [p EXCEPT !.node = node]
Failed(p) == p.error # "none"
Fail(p, why) == IF Failed(p) THEN p ELSE [p EXCEPT !.error = why]

Expect(p, kind) ==
  IF Failed(p) THEN p ELSE IF Peek(p) = kind THEN Advance(p) ELSE Fail(p, "Unexpected")

EnterNesting(p) ==
  IF p.depth = MAX_NESTING_DEPTH THEN Fail(p, "TooDeeplyNested") ELSE [p EXCEPT !.depth = @ + 1]
LeaveNesting(p) == [p EXCEPT !.depth = @ - 1]

(* The first token from i on that is not layout.                            *)
Beyond(i) ==
  CHOOSE n \in i .. Len(tokens) :
    tokens[n].kind \notin Kinds /\ \A m \in i .. n - 1 : tokens[m].kind \in Kinds

(* A mistake: the indent a wrapped line opens is not remembered.            *)
ContinueForgetting(p) == [p EXCEPT !.pos = Beyond(p.pos)]

(* On to a line that continues this one; the blocks it seems to open are    *)
(* closed later by dedents that end no block.                               *)
Continue(p) ==
  LET next == Beyond(p.pos) IN
  [p EXCEPT !.pos = next,
            !.pending_dedents =
              @ + Cardinality({i \in p.pos .. next - 1 : tokens[i].kind = "Indent"})]

(* The methods that call one another come back to one of these.             *)
RECURSIVE Parse(_, _, _)
ParseExpr(p, min_bp) == Parse("expression", p, min_bp)
ParseBlock(p) == Parse("block", p, 0)
ParseStmt(p) == Parse("statement", p, 0)

RECURSIVE Infix(_, _, _), Chain(_, _), Arms(_, _), Args(_, _), Row(_, _), Rows(_, _, _),
          Statements(_, _), Items(_, _, _), Groups(_, _), Binders(_, _), Params(_, _, _)

-----------------------------------------------------------------------------
(* Expressions.                                                             *)

Comparisons == {"EqEq", "Ne", "Lt", "Gt", "Le", "Ge"}
RangeOperators == {"DotDot", "DotDotLt", "DotDotGt"}

CONDITIONAL_BP == 10
COMPARISON_BP == 45
MEMBERSHIP_BP == 45
RANGE_BP == 50
UNARY_MINUS_BP == 75
POSTFIX_BP == 90

(* A mistake: `^` joins to the left.                                        *)
RightLeftAssociative(kind) ==
  CASE kind = "KwOr" -> 21 [] kind = "KwXor" -> 26 [] kind = "KwAnd" -> 31
    [] kind \in {"Plus", "Minus"} -> 61
    [] kind \in {"Star", "Slash", "KwDiv", "KwMod"} -> 71
    [] kind = "Caret" -> 81

(* How tightly an operator binds to the left: the table of `infix` and the  *)
(* bands handled before it.                                                 *)
Left(kind) ==
  CASE kind = "KwIf" -> CONDITIONAL_BP
    [] kind = "KwOr" -> 20
    [] kind = "KwXor" -> 25
    [] kind = "KwAnd" -> 30
    [] kind \in Comparisons -> COMPARISON_BP
    [] kind = "KwIn" -> MEMBERSHIP_BP
    [] kind \in RangeOperators -> RANGE_BP
    [] kind \in {"Plus", "Minus"} -> 60
    [] kind \in {"Star", "Slash", "KwDiv", "KwMod"} -> 70
    [] kind = "Caret" -> 80
    [] kind \in {"LBracket", "Dot"} -> POSTFIX_BP
    [] OTHER -> -1

(* ... and to the right, for the operators of `infix`.                      *)
Right(kind) ==
  CASE kind = "KwOr" -> 21 [] kind = "KwXor" -> 26 [] kind = "KwAnd" -> 31
    [] kind \in {"Plus", "Minus"} -> 61
    [] kind \in {"Star", "Slash", "KwDiv", "KwMod"} -> 71
    [] kind = "Caret" -> 80

Direction(kind) ==
  CASE kind \in {"Lt", "Le"} -> "Ascending" [] kind \in {"Gt", "Ge"} -> "Descending"
    [] kind = "EqEq" -> "Equality" [] kind = "Ne" -> "none"

(* check_monotonic: several comparisons in a row keep one direction.        *)
Monotonic(operators) ==
  Len(operators) > 1 =>
    \A i \in DOMAIN operators :
      Direction(operators[i]) # "none" /\ Direction(operators[i]) = Direction(operators[1])

Just(node) == Node("Block", node.token, <<Node("Result", node.token, <<node>>)>>)

ParseConditional(p, start_col) ==
  LET cond == ParseExpr(Advance(p), 0)
      q == Continue(cond)
      tail == ParseExpr(Advance(q), CONDITIONAL_BP)
  IN  IF Failed(cond) THEN cond
      ELSE IF Peek(q) # "KwElse" THEN Fail(q, "Unexpected")
      ELSE IF q.pos # cond.pos /\ Here(q).col # start_col THEN Fail(q, "Layout")
      ELSE Yield(tail, Node("If", Here(p),
                            <<Node("Arm", Here(p), <<cond.node, Just(p.node)>>),
                              Node("Else", Here(q), <<Just(tail.node)>>)>>))

(* The operators of a chain and the conjunction built of it so far.         *)
Chain(p, so) ==
  LET next == ParseExpr(Advance(p), COMPARISON_BP + 1)
      link == Node("Bin", Here(p), <<so.prev, next.node>>)
      more == [prev |-> next.node, operators |-> Append(so.operators, Peek(p)),
               result |-> IF so.operators = <<>> THEN link
                          ELSE Node("And", Here(p), <<so.result, link>>)]
  IN  IF ~Failed(p) /\ Peek(p) \in Comparisons THEN Chain(next, more)
      ELSE IF ~Monotonic(so.operators) THEN Fail(p, "Unexpected")
      ELSE Yield(p, so.result)

ParseComparisonChain(p) ==
  Chain(p, [prev |-> p.node, operators |-> <<>>, result |-> p.node])

ParseRangeTail(p) ==
  LET stop == ParseExpr(Advance(p), RANGE_BP + 1)
      step == ParseExpr(Advance(stop), RANGE_BP + 1)
  IN  IF ~Failed(stop) /\ Peek(stop) = "Colon"
        THEN Yield(step, Node("Range", Here(p), <<p.node, stop.node, step.node>>))
        ELSE Yield(stop, Node("Range", Here(p), <<p.node, stop.node>>))

ParseDimSelector(p) ==
  IF ~Failed(p) /\ Peek(p) = "Colon" /\ Peek(Advance(p)) \in {"Comma", "RBracket"}
    THEN Yield(Advance(p), Node("FullExtent", Here(p), <<>>))
    ELSE ParseExpr(p, 0)

ParseIndex(p) ==
  LET row == ParseDimSelector(Advance(p))
      col == ParseDimSelector(Advance(row))
  IN  IF ~Failed(row) /\ Peek(row) = "Comma"
        THEN Yield(Expect(col, "RBracket"), Node("Index2D", Here(p), <<p.node, row.node, col.node>>))
        ELSE Yield(Expect(row, "RBracket"), Node("Index", Here(p), <<p.node, row.node>>))

ParseMember(p) ==
  LET name == Advance(p)
  IN  Yield(Expect(name, "Identifier"),
            Node("Member", Here(p), <<p.node, Node("Name", Here(name), <<>>)>>))

ParseBinary(p, right) ==
  LET rhs == ParseExpr(Advance(p), right)
  IN  Yield(rhs, Node("Bin", Here(p), <<p.node, rhs.node>>))

(* The loop of parse_expr: the operand so far takes up every operator that  *)
(* binds at least as tightly as min_bp.                                     *)
Infix(p, min_bp, start_col) ==
  IF Failed(p) \/ Left(Peek(p)) < min_bp THEN p
  ELSE Infix(CASE Peek(p) = "KwIf" -> ParseConditional(p, start_col)
               [] Peek(p) \in Comparisons -> ParseComparisonChain(p)
               [] Peek(p) \in RangeOperators -> ParseRangeTail(p)
               [] Peek(p) = "KwIn" -> ParseBinary(p, MEMBERSHIP_BP + 1)
               [] Peek(p) = "LBracket" -> ParseIndex(p)
               [] Peek(p) = "Dot" -> ParseMember(p)
               [] OTHER -> ParseBinary(p, Right(Peek(p))),
             min_bp, start_col)

(* `if` with blocks.                                                        *)
Arms(p, arms) ==
  LET cond == ParseExpr(Advance(p), 0)
      body == ParseBlock(cond)
      more == Append(arms, Node("Arm", Here(p), <<cond.node, body.node>>))
      last == ParseBlock(Advance(p))
  IN  IF Failed(p) THEN p
      ELSE IF arms = <<>> \/ Peek(p) = "KwElif"
        THEN IF ~Failed(body) /\ Len(more) > MAX_IF_ARMS THEN Fail(body, "TooManyArms")
                                                        ELSE Arms(body, more)
      ELSE IF Peek(p) = "KwElse"
        THEN Yield(last, Append(arms, Node("Else", Here(p), <<last.node>>)))
      ELSE Yield(p, arms)

ParseIf(p) == LET q == Arms(p, <<>>) IN Yield(q, Node("If", Here(p), q.node))

Args(p, args) ==
  LET q == ParseExpr(p, 0)
      more == Append(args, q.node)
  IN  IF ~Failed(q) /\ Peek(q) = "Comma" THEN Args(Advance(q), more)
      ELSE Yield(Expect(q, "RParen"), more)

ParseCall(p) ==
  LET open == Advance(Advance(p))
      q == IF Peek(open) = "RParen" THEN Yield(Advance(open), <<>>) ELSE Args(open, <<>>)
  IN  Yield(q, Node("Call", Here(p), q.node))

(* The rest of a row of a literal, after its first element.                 *)
Row(p, row) ==
  LET after == Advance(p)
      next == ParseExpr(after, 0)
  IN  IF Failed(p) THEN p
      ELSE IF Peek(p) # "Comma" THEN Yield(p, row)
      ELSE IF Peek(after) = "RBracket" THEN Yield(after, row)
      ELSE IF Peek(after) = "Semicolon" THEN Fail(after, "Unexpected")
      ELSE Row(next, Append(row, next.node))

Rows(p, rows, anchor_col) ==
  LET after == Advance(p)
      first == ParseExpr(after, 0)
      row == Row(first, <<first.node>>)
  IN  IF Failed(p) \/ Peek(p) # "Semicolon" THEN Yield(p, rows)
      ELSE IF Peek(after) = "RBracket" THEN Fail(after, "Unexpected")
      ELSE IF Here(after).line # Here(p).line /\ Here(after).col # anchor_col
        THEN Fail(after, "Layout")
      ELSE Rows(row, Append(rows, Node("Row", Here(after), row.node)), anchor_col)

Types == {"bool", "int", "float", "str", "void"}

ParseType(p) ==
  IF ~Failed(p) /\ Peek(p) = "Identifier" /\ Here(p).text \notin Types THEN Fail(p, "Unexpected")
  ELSE Expect(p, "Identifier")

(* `for var[:type] in source]`, after the element.                          *)
ParseComprehension(p) ==
  LET name == Expect(Advance(p), "Identifier")
      typed == IF ~Failed(name) /\ Peek(name) = "Colon" THEN ParseType(Advance(name)) ELSE name
      range == ParseExpr(Expect(typed, "KwIn"), 0)
  IN  Yield(Expect(range, "RBracket"), Node("Comprehension", Here(p), <<p.node, range.node>>))

ParseArrayOrComprehension(p) ==
  LET open == Advance(p)
      first == ParseExpr(open, 0)
      row == Row(first, <<first.node>>)
      rows == Rows(row, <<Node("Row", Here(open), row.node)>>, Here(open).col)
  IN  IF Peek(open) = "RBracket" THEN Fail(open, "Unexpected")
      ELSE IF ~Failed(first) /\ Peek(first) = "KwFor" THEN ParseComprehension(first)
      ELSE IF ~Failed(row) /\ Peek(row) = "Semicolon"
        THEN Yield(Expect(rows, "RBracket"), Node("MatrixLiteral", Here(p), rows.node))
        ELSE Yield(Expect(row, "RBracket"), Node("ArrayLiteral", Here(p), row.node))

Literals == {"Int", "Float", "KwTrue", "KwFalse", "Str", "FStr"}

ParsePrimary(p) ==
  LET next == Advance(p) IN
  CASE Peek(p) \in Literals -> Yield(next, Node("Literal", Here(p), <<>>))
    [] Peek(p) = "Identifier" ->
         IF Peek(next) = "LParen" THEN ParseCall(p) ELSE Yield(next, Node("Var", Here(p), <<>>))
    [] Peek(p) = "ColonColon" -> Yield(Expect(next, "Identifier"), Node("Global", Here(next), <<>>))
    [] Peek(p) = "KwIf" -> ParseIf(p)
    [] Peek(p) = "LParen" -> Expect(ParseExpr(next, 0), "RParen")
    [] Peek(p) = "LBracket" -> ParseArrayOrComprehension(p)
    [] OTHER -> Fail(p, "Unexpected")

ParsePrefix(p) ==
  LET operand == ParseExpr(Advance(p), UNARY_MINUS_BP)
  IN  IF Failed(p) THEN p
      ELSE IF Peek(p) \in {"Minus", "KwNot"}
        THEN Yield(operand, Node("Unary", Here(p), <<operand.node>>))
        ELSE ParsePrimary(p)

(* A mistake: what a nested expression used up is not given back.           *)
ExpressionLeaking(p, min_bp) == Infix(ParsePrefix(EnterNesting(p)), min_bp, Here(p).col)

Expression(p, min_bp) ==
  LeaveNesting(Infix(ParsePrefix(EnterNesting(p)), min_bp, Here(p).col))

-----------------------------------------------------------------------------
(* Blocks and loops.                                                        *)

EndedAtLayout(p) == tokens[p.pos - 1].kind \in Kinds

SwallowPendingDedents(p) ==
  LET start == IF Peek(p) = "Newline" THEN p.pos + 1 ELSE p.pos
      Dedents(n) == \A i \in start .. start + n - 1 : tokens[i].kind = "Dedent"
      n == CHOOSE k \in 0 .. p.pending_dedents :
             Dedents(k) /\ (k = p.pending_dedents \/ ~Dedents(k + 1))
  IN  IF Failed(p) \/ p.pending_dedents = 0 THEN p
      ELSE [p EXCEPT !.pos = start + n, !.pending_dedents = @ - n]

(* Past the end of a statement; the node says whether the block ends too.   *)
ReachedBlockEnd(p) ==
  LET q == IF Peek(p) = "Newline" THEN Advance(p) ELSE p
  IN  IF Failed(p) THEN p
      ELSE IF Peek(q) = "Dedent" THEN Yield(Advance(q), TRUE)
      ELSE IF Peek(q) = "Eof" THEN Yield(q, TRUE)
      ELSE IF Peek(p) = "Newline" \/ EndedAtLayout(p) THEN Yield(q, FALSE)
      ELSE Fail(p, "Unexpected")

(* take_trailing_result: a last expression is what the block yields.        *)
TakeTrailingResult(stmts) ==
  IF Last(stmts).form = "Expr"
    THEN Append(Front(stmts), Node("Result", Last(stmts).token, Last(stmts).parts))
    ELSE stmts

Statements(p, stmts) ==
  LET stmt == ParseStmt(p)
      end == ReachedBlockEnd(SwallowPendingDedents(stmt))
      more == Append(stmts, stmt.node)
  IN  IF Failed(end) THEN end ELSE IF end.node THEN Yield(end, more) ELSE Statements(end, more)

Block(p) ==
  LET open == Expect(Expect(EnterNesting(p), "Newline"), "Indent")
      q == Statements(open, <<>>)
  IN  IF Failed(open) THEN open
      ELSE IF Failed(q) THEN q
      ELSE LeaveNesting(Yield(q, Node("Block", Here(p), TakeTrailingResult(q.node))))

ParseWhile(p) ==
  LET cond == ParseExpr(Advance(p), 0)
      body == ParseBlock(cond)
  IN  Yield(body, Node("While", Here(p), <<cond.node, body.node>>))

ParseLoop(p) ==
  LET body == ParseBlock(Advance(p))
      cond == ParseExpr(Advance(body), 0)
  IN  IF ~Failed(body) /\ Peek(body) \notin {"KwWhile", "KwUntil"} THEN Fail(body, "Unexpected")
      ELSE Yield(cond, Node("Loop", Here(p), <<body.node, cond.node>>))

ExpectBinder(p) ==
  IF Failed(p) THEN p
  ELSE IF Peek(p) \in {"Identifier", "Underscore"} THEN Advance(p) ELSE Fail(p, "Unexpected")

Binders(p, names) ==
  LET q == ExpectBinder(p)
      more == Append(names, Node("Name", Here(p), <<>>))
  IN  IF ~Failed(q) /\ Peek(q) = "Comma" THEN Binders(Advance(q), more) ELSE Yield(q, more)

ParseFor(p) ==
  LET names == Binders(Advance(p), <<>>)
      range == ParseExpr(Expect(names, "KwIn"), 0)
      body == ParseBlock(range)
  IN  IF ~Failed(names) /\ Len(names.node) > 3 THEN Fail(names, "Unexpected")
      ELSE Yield(body, Node("For", Here(p), names.node \o <<range.node, body.node>>))

-----------------------------------------------------------------------------
(* Statements.                                                              *)

CompoundAssign == {"PlusEq", "MinusEq", "StarEq", "SlashEq", "CaretEq", "DivEq", "ModEq"}
IsPlace(node) == node.form \in {"Var", "Global"}

(* The rest of a comma list; a comma that ends a line continues it on the   *)
(* next, at the column where the list began.                                *)
Items(p, items, list_col) ==
  LET item == ParseExpr(p, 0)
      more == Append(items, item.node)
      after == Advance(item)
      next == Continue(after)
  IN  IF Failed(item) THEN item
      ELSE IF Peek(item) # "Comma" THEN Yield(item, more)
      ELSE IF Peek(after) # "Newline" THEN Items(after, more, list_col)
      ELSE IF Here(next).col # list_col THEN Fail(next, "Layout")
      ELSE Items(next, more, list_col)

(* A mistake: the column is that of the margin.                             *)
ParseExprListAtMargin(p) == IF Failed(p) THEN p ELSE Items(p, <<>>, 1)

ParseExprList(p) == IF Failed(p) THEN p ELSE Items(p, <<>>, Here(p).col)

Groups(p, groups) ==
  LET group == ParseExprList(Advance(p))
  IN  IF Failed(p) \/ Peek(p) # "Equal" THEN Yield(p, groups)
      ELSE Groups(group, Append(groups, group.node))

FinishAssignment(p, groups, token) ==
  LET values == Last(groups)
      Targets(group) == Len(group) = Len(values) /\ \A i \in DOMAIN group : IsPlace(group[i])
  IN  IF \A i \in 1 .. Len(groups) - 1 : Targets(groups[i])
        THEN Yield(p, Node("Assign", token, FlattenSeq(groups)))
        ELSE Fail(p, "Unexpected")

(* Expression statements and assignments.                                   *)
ParseAssignment(p) ==
  LET first == ParseExprList(p)
      target == first.node[1]
      single == Len(first.node) = 1
      value == ParseExpr(Advance(first), 0)
      groups == Groups(first, <<first.node>>)
  IN  IF Failed(first) THEN first
      ELSE IF single /\ target.form \in {"Index", "Index2D"}
                     /\ Peek(first) \in CompoundAssign \cup {"Equal"}
        THEN IF IsPlace(target.parts[1])
               THEN Yield(value, Node("IndexedAssign", Here(p), <<target, value.node>>))
               ELSE Fail(first, "Unexpected")
      ELSE IF single /\ Peek(first) \in CompoundAssign
        THEN IF IsPlace(target)
               THEN Yield(value, Node("Assign", Here(p),
                                      <<target, Node("Bin", Here(first), <<target, value.node>>)>>))
               ELSE Fail(first, "Unexpected")
      ELSE IF Peek(first) = "Equal"
        THEN IF Failed(groups) THEN groups ELSE FinishAssignment(groups, groups.node, Here(p))
      ELSE IF single THEN Yield(first, Node("Expr", Here(p), <<target>>))
      ELSE IF tokens[Beyond(first.pos)].kind = "Comma" THEN Fail(first, "Layout")
      ELSE Fail(first, "Unexpected")

Statement(p) ==
  CASE Peek(p) = "KwWhile" -> ParseWhile(p)
    [] Peek(p) = "KwLoop" -> ParseLoop(p)
    [] Peek(p) = "KwFor" -> ParseFor(p)
    [] OTHER -> ParseAssignment(p)

-----------------------------------------------------------------------------
(* Functions.                                                               *)

(* The `)` of the `(` at index lparen, or 0.                                *)
MatchingParen(lparen) ==
  LET Count(kind, i) == Cardinality({j \in lparen .. i : tokens[j].kind = kind})
      closing == {i \in lparen .. Len(tokens) : Count("LParen", i) = Count("RParen", i)}
  IN  IF closing = {} THEN 0 ELSE Min(closing)

LooksLikeFuncDef(p) ==
  /\ Peek(p) = "Identifier"
  /\ Peek(Advance(p)) = "LParen"
  /\ LET close == MatchingParen(p.pos + 1)
         colon == close < Len(tokens) /\ tokens[close + 1].kind = "Colon"
         cursor == IF colon THEN close + 3 ELSE close + 1
     IN  close # 0 /\ cursor <= Len(tokens) /\ tokens[cursor].kind = "KwIs"

(* A parameter on a line of its own is in the column of the first one.      *)
Params(p, params, first) ==
  LET name == Expect(p, "Identifier")
      typed == ParseType(Expect(name, "Colon"))
      more == Append(params, Node("Param", Here(p), <<>>))
  IN  IF Failed(p) THEN p
      ELSE IF Here(p).line # first.line /\ Here(p).col # first.col THEN Fail(p, "Layout")
      ELSE IF ~Failed(typed) /\ Peek(typed) = "Comma" THEN Params(Advance(typed), more, first)
      ELSE Yield(typed, more)

ParseParams(p, function) ==
  IF Failed(p) THEN p
  ELSE IF Peek(p) = "RParen" THEN Yield(p, <<>>)
  ELSE IF Here(p).line # function.line /\ Here(p).col <= function.col THEN Fail(p, "Layout")
  ELSE Params(p, <<>>, Here(p))

ParseFuncBody(p, has_return_type) ==
  LET block == ParseBlock(p)
      line == ParseExpr(p, 0)
  IN  IF Failed(p) THEN p
      ELSE IF Peek(p) = "Newline"
        THEN IF ~Failed(block) /\ Last(block.node.parts).form # "Result" THEN Fail(block, "Unexpected")
                                                                         ELSE block
      ELSE IF ~has_return_type THEN Fail(p, "Unexpected")
      ELSE IF ~Failed(line) /\ Peek(line) \notin {"Newline", "Eof"} THEN Fail(line, "Unexpected")
      ELSE Yield(line, Just(line.node))

ParseFuncDef(p) ==
  LET params == ParseParams(Expect(Advance(p), "LParen"), Here(p))
      close == Expect(params, "RParen")
      typed == ~Failed(close) /\ Peek(close) = "Colon"
      is == Expect(IF typed THEN ParseType(Advance(close)) ELSE close, "KwIs")
      names == {params.node[i].token.text : i \in DOMAIN params.node}
      body == ParseFuncBody(is, typed)
  IN  IF Failed(is) THEN is
      ELSE IF Cardinality(names) # Len(params.node) THEN Fail(is, "Unexpected")
      ELSE Yield(body, Node("Func", Here(p), params.node \o <<body.node>>))

-----------------------------------------------------------------------------
(* parse_program                                                            *)

(* A statement reaches the end of its line, or ends on a layout token.      *)
EndsStatement(p) == Peek(p) \in {"Newline", "Eof", "Dedent"} \/ EndedAtLayout(p)

Item(p) ==
  LET q == IF LooksLikeFuncDef(p) THEN ParseFuncDef(p) ELSE ParseStmt(p)
  IN  IF ~Failed(q) /\ q.node.form # "Func" /\ ~EndsStatement(q) THEN Fail(q, "Unexpected") ELSE q

Parse(what, p, min_bp) ==
  IF Failed(p) THEN p
  ELSE CASE what = "expression" -> Expression(p, min_bp)
         [] what = "block" -> Block(p)
         [] what = "statement" -> Statement(p)
         [] what = "item" -> Item(p)

ParserInit ==
  /\ LayoutInit
  /\ pos = 1
  /\ nesting = 0
  /\ top_level = <<>>
  /\ verdict = "parsing"

(* The parser at the next item.                                             *)
Start ==
  [pos |-> Beyond(pos), pending_dedents |-> 0, depth |-> 0, error |-> "none", node |-> Nothing]

Parsing == status = "lexed" /\ verdict = "parsing"

Outcome == Parse("item", Start, 0)

ParseItem ==
  /\ Parsing
  /\ Peek(Start) # "Eof"
  /\ LET q == Outcome IN
       /\ ~Failed(q)
       /\ pos' = q.pos
       /\ nesting' = q.depth
       /\ top_level' = Append(top_level, q.node)
  /\ UNCHANGED <<layoutVars, verdict>>

Reject ==
  /\ Parsing
  /\ Peek(Start) # "Eof"
  /\ Failed(Outcome)
  /\ verdict' = Outcome.error
  /\ UNCHANGED <<layoutVars, pos, nesting, top_level>>

RejectLex ==
  /\ status = "error"
  /\ verdict = "parsing"
  /\ verdict' = "Lex"
  /\ UNCHANGED <<layoutVars, pos, nesting, top_level>>

Accept ==
  /\ Parsing
  /\ Peek(Start) = "Eof"
  /\ verdict' = "accepted"
  /\ UNCHANGED <<layoutVars, pos, nesting, top_level>>

Next ==
  \/ ReadNewline /\ UNCHANGED parserVars
  \/ ReadWord /\ UNCHANGED parserVars
  \/ EndOfInput /\ UNCHANGED parserVars
  \/ RejectWord /\ UNCHANGED parserVars
  \/ RejectIndent /\ UNCHANGED parserVars
  \/ ParseItem \/ Reject \/ RejectLex \/ Accept

Spec == ParserInit /\ [][Next]_vars
=============================================================================
