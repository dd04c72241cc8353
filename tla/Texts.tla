-------------------------------- MODULE Texts --------------------------------
(***************************************************************************)
(* Texts, and what the parser should make of them.  A text is a sequence   *)
(* of lines, each with its indent and a form that says which words it has; *)
(* every word is one column wide.  The rules of layout are stated on the   *)
(* lines and their indents, without tokens: they are those of              *)
(* specs/0002, 0003, 0006 and 0008.  What the code is known to read in     *)
(* another way has an operator of its own, which the properties leave out. *)
(***************************************************************************)
EXTENDS Parser

Line(indent, form) == [indent |-> indent, form |-> form]

(* The words of a line.  A form that is a tuple is the words themselves.    *)
Words(form) ==
  CASE form = <<"blank">> -> <<>>
    [] form = <<"use">> -> <<"a">>
    [] form = <<"set">> -> <<"a", "Equal", "a">>
    [] form = <<"neg">> -> <<"Minus", "a">>
    [] form = <<"wrap">> -> <<"a", "Equal", "a", "KwIf", "a">>
    [] form = <<"tail">> -> <<"KwElse", "a">>
    [] form = <<"list">> -> <<"a", "Comma", "b", "Equal", "a", "Comma">>
    [] form = <<"call">> -> <<"f", "LParen">>
    [] form = <<"close">> -> <<"a", "RParen">>
    [] form = <<"while">> -> <<"KwWhile", "a">>
    [] form = <<"for">> -> <<"KwFor", "a", "KwIn", "a">>
    [] form = <<"loop">> -> <<"KwLoop">>
    [] form = <<"until">> -> <<"KwUntil", "a">>
    [] form = <<"if">> -> <<"KwIf", "a">>
    [] form = <<"set if">> -> <<"a", "Equal", "KwIf", "a">>
    [] form = <<"elif">> -> <<"KwElif", "a">>
    [] form = <<"else">> -> <<"KwElse">>
    [] form = <<"func">> -> <<"f", "LParen", "RParen", "KwIs">>
    [] OTHER -> form

Names == {"a", "b", "f", "int"}

Lexemes(text) ==
  LET LineOf(i) ==
        LET words == Words(text[i].form)
            Place(k) == [kind |-> IF words[k] \in Names THEN "Identifier" ELSE words[k],
                         text |-> IF words[k] \in Names THEN words[k] ELSE "",
                         line |-> i, col |-> text[i].indent + k]
            break == IF i = 1 THEN <<>>
                     ELSE <<[kind |-> "NewlineIndent", indent |-> text[i].indent]>>
        IN  break \o [k \in DOMAIN words |-> Place(k)]
  IN  FlattenSeq([i \in DOMAIN text |-> LineOf(i)])

-----------------------------------------------------------------------------
(* Layout by columns.                                                       *)

Form(k) == source[k].form[1]
Indent(k) == source[k].indent
Last0(S) == IF S = {} THEN 0 ELSE Max(S)

Written == {k \in DOMAIN source : Form(k) # "blank"}

(* Lines that a line after them completes.                                  *)
Open == {k \in Written : Form(k) \in {"wrap", "list", "call"}}
Before(k) == Last0({j \in Written : j < k})
Continuation(k) == Before(k) \in Open /\ Before(k) # 0

(* The lines that begin something.                                          *)
Logical == {k \in Written : ~Continuation(k)}

Header == {"while", "for", "loop", "if", "set if", "elif", "else", "func"}
Branch == {"if", "set if", "elif"}

(* Every line that begins something, with the header whose block it is in:  *)
(* the nearest one with a smaller indent that no line since has gone back   *)
(* to, or 0 for the margin.                                                 *)
OwnerAmong(lines, k) ==
  Last0({h \in lines : /\ h < k
                      /\ Form(h) \in Header
                      /\ \A j \in lines : h < j /\ j <= k => Indent(j) > Indent(h)})
Tree == UNION {{<<k, OwnerAmong(lines, k)>> : k \in lines} : lines \in {Logical}}

Members(tree, owner) == {e[1] : e \in {x \in tree : x[2] = owner}}
Elder(tree, e) == Last0({k \in Members(tree, e[2]) : k < e[1]})

(* The layout the specifications ask for: a block under every header, its   *)
(* lines at one indent deeper than the header's; an `elif`, `else` or       *)
(* `until` under its own construct; continuations at their column; a        *)
(* function that ends in a value.                                           *)
WellLaidOut ==
  \E tree \in {Tree} :
  /\ Written # {}
  /\ Max(Written) \notin Open
  /\ \A k \in Written : Continuation(k) =>
       CASE Form(Before(k)) = "call" -> Form(k) = "close"
         [] Form(Before(k)) = "wrap" -> Form(k) = "tail" /\ Indent(k) = Indent(Before(k)) + 2
         [] Form(Before(k)) = "list" -> Form(k) = "use" /\ Indent(k) = Indent(Before(k)) + 4
  /\ \A e \in tree :
       LET k == e[1]
           parts == Members(tree, k)
           elder == Elder(tree, e)
       IN  /\ Form(k) \notin {"tail", "close"}
           /\ IF e[2] = 0 THEN Indent(k) = 0
              ELSE \A j \in Members(tree, e[2]) : Indent(j) = Indent(k)
           /\ Form(k) \in Header => parts # {}
           /\ Form(k) \in {"elif", "else"} => elder # 0 /\ Form(elder) \in Branch
           /\ Form(k) = "until" <=> elder # 0 /\ Form(elder) = "loop"
           /\ Form(k) = "loop" => \E y \in tree : Elder(tree, y) = k
           /\ Form(k) = "func" => e[2] = 0 /\ Form(Max(parts)) \in {"use", "neg"}

(* Where the code is known to read a text in another way than its layout    *)
(* says: see the hazards.                                                   *)
AfterIf ==
  \E tree \in {Tree} :
  \E e \in tree : /\ Form(e[1]) \in {"if", "neg"}
                  /\ Elder(tree, e) # 0
                  /\ Form(Elder(tree, e)) \in Branch \cup {"else"}
IndentedStart == Written # {} /\ Indent(Min(Written)) # 0
EndsInSpaces == Form(Len(source)) = "blank" /\ Indent(Len(source)) # 0

-----------------------------------------------------------------------------
(* What the parser made of the text: the lines its statements begin on,     *)
(* each with the line whose block it is in.                                 *)

RECURSIVE Inside(_)
Inside(node) ==
  UNION {LET part == node.parts[i] IN
         Inside(part) \cup
         (IF part.form = "Block" /\ part.token.kind = "Newline"
            THEN {<<part.parts[j].token.line, node.token.line>> : j \in DOMAIN part.parts}
            ELSE {}) : i \in DOMAIN node.parts}

Containment ==
  UNION {Inside(top_level[i]) \cup {<<top_level[i].token.line, 0>>} : i \in DOMAIN top_level}

(* Which words belong together, by the powers of the operators alone: an    *)
(* expression is split at its weakest operator that no sign in front of it  *)
(* has taken into its operand.                                              *)

Opens == {"LParen", "LBracket", "KwIf"}
Closes == {"RParen", "RBracket", "KwElse"}

(* i is not inside a bracket, or a condition, that opens at lo or later.    *)
Outside(lo, i) ==
  Cardinality({j \in lo .. i - 1 : tokens[j].kind \in Opens})
    = Cardinality({j \in lo .. i : tokens[j].kind \in Closes})

Operators(lo, hi) ==
  {i \in lo + 1 .. hi : /\ Left(tokens[i].kind) > 0
                        /\ tokens[i - 1].kind \in {"Identifier", "RParen", "RBracket"}
                        /\ Outside(lo, i)}
Sign(i) == tokens[i].kind \in {"Minus", "KwNot"}
Power(i) == Left(tokens[i].kind)

(* The operators of lo .. hi that are in the operand of no sign.            *)
Free(lo, hi) ==
  LET ops == Operators(lo, hi)
      Signs == {u \in lo .. hi : Sign(u) /\ u \notin ops /\ Outside(lo, u)}
  IN  {i \in ops : ~\E u \in Signs :
         u < i /\ \A j \in ops : u < j /\ j <= i => Power(j) >= UNARY_MINUS_BP}

RECURSIVE Grouped(_, _)
Grouped(lo, hi) ==
  LET free == Free(lo, hi)
      weakest == {i \in free : \A j \in free : Power(i) <= Power(j)}
      split == IF \E i \in weakest : tokens[i].kind \in {"KwIf", "Caret"}
                 THEN Min(weakest) ELSE Max(weakest)
      kind == tokens[split].kind
      at == tokens[split]
      else == Min({i \in split .. hi : tokens[i].kind = "KwElse" /\ Outside(lo, i)})
      \* the comparisons in a row that end at split
      chain == {i \in weakest : \A j \in weakest : i <= j => tokens[j].kind \in Comparisons}
      links == SetToSortSeq(chain, <)
      From(n) == IF n = 1 THEN lo ELSE links[n - 1] + 1
      To(n) == IF n = Len(links) THEN hi ELSE links[n + 1] - 1
      Link(n) == Node("Bin", tokens[links[n]],
                      <<Grouped(From(n), links[n] - 1), Grouped(links[n] + 1, To(n))>>)
      Both == [n \in DOMAIN links |-> Link(n)]
      left == Grouped(lo, split - 1)
      two == <<left, Grouped(split + 1, hi)>>
  IN  CASE free = {} /\ Sign(lo) -> Node("Unary", tokens[lo], <<Grouped(lo + 1, hi)>>)
        [] free = {} /\ tokens[lo].kind = "LParen" -> Grouped(lo + 1, hi - 1)
        [] free = {} /\ lo = hi -> Node("Var", tokens[lo], <<>>)
        [] free # {} /\ kind = "KwIf" ->
             Node("If", at, <<Node("Arm", at, <<Grouped(split + 1, else - 1), Just(left)>>),
                              Node("Else", tokens[else], <<Just(Grouped(else + 1, hi))>>)>>)
        [] free # {} /\ kind \in Comparisons ->
             FoldLeftDomain(LAMBDA so, n : IF n = 1 THEN Both[1]
                                             ELSE Node("And", tokens[links[n]], <<so, Both[n]>>),
                            Both[1], Both)
        [] free # {} /\ kind \in RangeOperators -> Node("Range", at, two)
        [] free # {} /\ kind = "LBracket" ->
             Node("Index", at, <<left, Grouped(split + 1, hi - 1)>>)
        [] free # {} /\ kind = "Dot" ->
             Node("Member", at, <<two[1], Node("Name", tokens[hi], <<>>)>>)
        [] OTHER -> Node("Bin", at, two)

(* Two comparisons with nothing but tighter operators between them.         *)
Linked(i, j) ==
  /\ i < j
  /\ tokens[i].kind \in Comparisons /\ tokens[j].kind \in Comparisons
  /\ Outside(i, j)
  /\ \A k \in i + 1 .. j - 1 :
       /\ Cardinality({m \in i .. k : tokens[m].kind \in Closes})
            <= Cardinality({m \in i .. k : tokens[m].kind \in Opens})
       /\ Outside(i, k) => Left(tokens[k].kind) \in {-1} \cup COMPARISON_BP + 1 .. POSTFIX_BP

ChainsKeepDirection ==
  \A i, j \in DOMAIN tokens :
    Linked(i, j) => Direction(tokens[i].kind) = Direction(tokens[j].kind)
                      /\ Direction(tokens[i].kind) # "none"

-----------------------------------------------------------------------------
(* A text is laid out of named forms.  One line that is not is an           *)
(* expression; two are a first element and one that must be in its column.  *)
Laid == \A k \in DOMAIN source : Len(source[k].form) = 1
OneLine == Len(source) = 1 /\ ~Laid
TwoLines == Len(source) = 2 /\ \A k \in 1 .. 2 : Len(source[k].form) > 1

TypeOK ==
  /\ LayoutTypeOK
  /\ pos \in 1 .. Len(tokens) + 1
  /\ nesting \in 0 .. MAX_NESTING_DEPTH
  /\ verdict \in {"parsing", "accepted", "Lex", "Unexpected", "Layout", "TooDeeplyNested",
                  "TooManyArms"}

(* A text laid out as the specifications ask is accepted, whatever mix of   *)
(* blocks, wrapped lines, joined lines and blank lines it has; only its     *)
(* number of arms can be held against it.                                   *)
WellLaidOutIsAccepted ==
  Laid /\ WellLaidOut => verdict \in {"parsing", "accepted", "TooManyArms"}

(* In a text that is accepted, well laid out or not, every line that begins *)
(* a statement is in the block its column puts it in, and no line is lost.  *)
BlocksFollowColumns ==
  Laid /\ verdict = "accepted" =>
    Containment = {e \in Tree : Form(e[1]) \notin {"elif", "else", "until"}}

(* An expression is grouped by the powers of its operators, and rejected    *)
(* only for a chain of comparisons that turns around.                       *)
ExpressionsFollowPowers ==
  OneLine =>
    /\ verdict = "accepted" =>
         top_level[1].parts[1] = Grouped(1, Len(tokens) - 1) /\ ChainsKeepDirection
    /\ verdict \notin {"parsing", "accepted", "TooDeeplyNested"} => ~ChainsKeepDirection

(* The column the second of two lines must be in: that of the first element *)
(* of what it continues, after the last `=` or bracket of the first line;   *)
(* and the first parameter of a function is in the first line (specs/0002,  *)
(* 12-13), so without one there no column is right.                         *)
Aligned ==
  LET words == source[1].form
      anchor == Last0({i \in DOMAIN words : words[i] \in {"Equal", "LParen", "LBracket"}}) + 1
  IN  anchor <= Len(words) /\ Indent(2) + 1 = anchor

(* Where the code departs from that: it takes a first parameter from a line *)
(* of its own, in any column past the function's.                           *)
HungParameter == Last(source[1].form) = "LParen" /\ Indent(2) > Indent(1)

(* A line that continues a list, a conditional, parameters or the rows of a *)
(* matrix is accepted in the column of the first element and in no other;   *)
(* leaving out the first parameter on a line of its own.                    *)
ContinuationsAlign ==
  TwoLines /\ ~HungParameter /\ verdict # "parsing" =>
    verdict = (IF Aligned THEN "accepted" ELSE "Layout")

(* Parentheses, the one construct that needs no operator to nest.           *)
Parentheses == Cardinality(Places("LParen"))

(* The branches of the chain of `if` and `elif` that a line opens.          *)
Branches(tree, e) ==
  {j \in Members(tree, e[2]) :
     /\ e[1] <= j /\ Form(j) \in Branch
     /\ \A k \in Members(tree, e[2]) : e[1] < k /\ k <= j => Form(k) = "elif"}
ChainTooLong ==
  \E tree \in {Tree} :
    \E e \in tree : Form(e[1]) \in Branch /\ Cardinality(Branches(tree, e)) > MAX_IF_ARMS

(* The two limits refuse what is over them and nothing else: parentheses    *)
(* nested too deep, and an `if` with too many arms.  What one statement     *)
(* used of the nesting limit is there again for the next.                   *)
LimitsAreExact ==
  /\ nesting = 0
  /\ OneLine /\ Parentheses > 1 /\ verdict # "parsing" =>
       (verdict = "TooDeeplyNested" <=> Parentheses >= MAX_NESTING_DEPTH)
  /\ Laid /\ verdict \in {"accepted", "TooManyArms"} =>
       (verdict = "TooManyArms" <=> ChainTooLong)
=============================================================================
