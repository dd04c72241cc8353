------------------------------ MODULE MCParser ------------------------------
(* The lexer and the parser on families of texts: all texts of three lines, *)
(* well laid out texts of up to ten, expressions with three operators, and  *)
(* lines that continue a line before them, in every column.                 *)
EXTENDS Texts

MCKind == {"Identifier", "KwIf", "KwElif", "KwElse", "KwWhile", "KwLoop", "KwUntil", "KwFor", "KwIs"}
            \cup {"Equal", "Comma", "Colon", "Semicolon", "LParen", "RParen", "LBracket", "RBracket"}
            \cup {"Minus", "KwNot", "KwOr", "KwXor", "KwAnd", "Lt", "Ge", "EqEq", "Ne", "KwIn",
                  "DotDot", "Plus", "Star", "Caret", "Dot"}
MCText == Names \cup {""}

Lines(columns, forms) == {Line(i, <<f>>) : i \in columns, f \in forms}

(* Every text of three lines, of a few forms.                               *)
ThreeLines ==
  \E x, y, z \in Lines(0 .. 2, {"use", "neg", "wrap", "tail", "while", "if", "else", "blank"}) :
    source = <<x, y, z>>

(* Well laid out texts that open with a header, with more in its body.      *)
MoreLines ==
  \E h \in Lines({0}, {"while", "if", "set if", "loop", "for", "func"}),
     b \in Lines({2}, {"use", "wrap", "while", "if", "call", "list"}),
     i \in Lines({2, 4, 6}, {"use", "tail", "set"}) \cup Lines({2}, {"close", "else"}),
     r \in Lines({0, 2}, {"use", "else", "blank"}) \cup Lines({0}, {"elif", "until"}),
     s \in Lines({0, 2}, {"use", "else"}) \cup Lines({0}, {"elif", "until"}) :
    source = <<h, b, i, r, s>>

Operator == {<<"KwOr">>, <<"KwXor">>, <<"KwAnd">>, <<"Lt">>, <<"Ge">>, <<"EqEq">>, <<"Ne">>, <<"KwIn">>,
             <<"DotDot">>, <<"Plus">>, <<"Star">>, <<"Caret">>, <<"Dot">>, <<"KwIf", "a", "KwElse">>}
Signed == {<<"a">>, <<"Minus", "a">>}
Group == {<<"a">>, <<"KwNot", "a">>, <<"LParen", "a", "Plus", "a", "RParen">>,
          <<"a", "LBracket", "a", "KwOr", "a", "RBracket">>}

Expressions ==
  \/ \E x, y \in Signed, o1, o2, o3 \in Operator :
       source = <<Line(0, x \o o1 \o y \o o2 \o <<"a">> \o o3 \o <<"a">>)>>
  \/ \E x, y, z \in Group, o1, o2 \in Operator :
       source = <<Line(0, x \o o1 \o y \o o2 \o z)>>

(* A member is a name.                                                      *)
MembersAreNames ==
  \A i \in DOMAIN rest : rest[i].kind = "Dot" => rest[i + 1].kind = "Identifier"

Nested ==
  \E n \in 2 .. MAX_NESTING_DEPTH + 2 :
    source = <<Line(0, [i \in 1 .. 2 * n + 1 |->
                         IF i <= n THEN "LParen" ELSE IF i = n + 1 THEN "a" ELSE "RParen"])>>

(* An `if` with up to four arms more.                                       *)
LongChain ==
  \E n \in 0 .. 4, open \in {"if", "set if"} :
    source = <<Line(0, <<open>>), Line(2, <<"use">>)>>
               \o [i \in 1 .. 2 * n |-> IF i % 2 = 1 THEN Line(0, <<"elif">>) ELSE Line(2, <<"use">>)]

(* Lines, and lines that continue them, in every column.                    *)
Wrapped ==
  {<<<<"a", "Equal", "a", "KwIf", "a">>, <<"KwElse", "a">>>>,
   <<<<"a", "KwIf", "a">>, <<"KwElse", "a">>>>,
   <<<<"a", "Comma", "b", "Equal", "a", "Comma">>, <<"a", "Plus", "b">>>>,
   <<<<"a", "Comma">>, <<"b", "Equal", "a", "Comma", "a">>>>,
   <<<<"f", "LParen", "a", "Colon", "int", "Comma">>,
     <<"b", "Colon", "int", "RParen", "Colon", "int", "KwIs", "a">>>>,
   <<<<"f", "LParen">>, <<"b", "Colon", "int", "RParen", "Colon", "int", "KwIs", "a">>>>,
   <<<<"a", "Equal", "LBracket", "a", "Comma", "a", "Semicolon">>, <<"a", "Comma", "a", "RBracket">>>>}
Continued == \E c \in Wrapped, n \in 0 .. 8 : source = <<Line(0, c[1]), Line(n, c[2])>>

(* Words with something else among them, and brackets that do not match.    *)
Mistyped ==
  \E n \in 0 .. 2, wrong \in Wrong \cup {"RParen", "RBracket"} :
    source = <<Line(0, <<"while">>), Line(n, <<"f", wrong, "LParen", wrong>>)>>

(* None of the texts that the code is known to misread, and of the longer   *)
(* ones only those that are well laid out.                                  *)
LeftOut ==
  Laid /\ (AfterIf \/ IndentedStart \/ EndsInSpaces \/ (Len(source) > 3 /\ ~WellLaidOut))

TextsOfTheRun ==
  ThreeLines \/ MoreLines \/ LongChain \/ Expressions \/ Nested \/ Continued \/ Mistyped

MCInit ==
  /\ TextsOfTheRun
  /\ ~LeftOut
  /\ rest = Lexemes(source)
  /\ OneLine => MembersAreNames
  /\ ParserInit
MCSpec == MCInit /\ [][Next]_vars

(* Two `if`s in a row, one of the things LeftOut leaves out.                *)
IfsInARow == source = <<Line(0, <<"if">>), Line(2, <<"use">>), Line(0, <<"if">>), Line(2, <<"use">>)>>
MCInARowSpec == IfsInARow /\ rest = Lexemes(source) /\ ParserInit /\ [][Next]_vars
=============================================================================
