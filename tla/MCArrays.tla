------------------------------ MODULE MCArrays ------------------------------
(* The ranges of MCRanges; and of a few of them, arrays of up to six        *)
(* elements, matrices built of those, and every selector that fits or       *)
(* misses by one or two.                                                    *)
EXTENDS Arrays, MCRanges

Nothing == [form |-> "all", start |-> 0, stop |-> 0,
            kind |-> "Inclusive", literal |-> FALSE]

Indices(length) ==
  [form : {"index"}, start : (-length - 1)..length, stop : {0},
   kind : {"Inclusive"}, literal : BOOLEAN]
Slices(length) ==
  [form : {"slice"}, start : -1..length, stop : 0..length + 1,
   kind : Kinds, literal : {TRUE}]

(* What of these sema accepts, when it is used alone.                       *)
SelectorsOf(length) ==
  {s \in Indices(length) \cup Slices(length) \cup {Nothing} :
     SelectorOk(s, length)}

Shapes == {<<2, 1>>, <<2, 2>>, <<2, 3>>, <<3, 1>>, <<3, 2>>}

Does(make, rows, cols, do, row, col) ==
  [make |-> make, rows |-> rows, cols |-> cols, do |-> do,
   row |-> row, col |-> col]

DoNothing == Does("nothing", 0, 0, "nothing", Nothing, Nothing)

(* With the first array, of `length` elements, or a second one of them.     *)
ArrayCodes(make, length) ==
  {Does(make, 0, length, do, Nothing, col) :
     do \in {"read", "assign", "add"}, col \in SelectorsOf(length)}
    \cup {Does(make, 0, length, do, Nothing, Nothing) :
            do \in {"walk", "walkWithIndices"}}

(* With a matrix of that shape, or the identity.                            *)
MatrixCodes(make, rows, cols) ==
  {Does(make, rows, cols, "read", row, col) :
     row \in SelectorsOf(rows), col \in SelectorsOf(cols)}
    \cup {Does(make, rows, cols, do, row, col) :
            do \in {"assign", "add"},
            row \in Indices(rows), col \in Indices(cols)}
    \cup {Does(make, rows, cols, do, Nothing, Nothing) :
            do \in {"walk", "walkWithIndices"}}

(* `[2..7]`, six elements; `[7..3:-2]`, three; `[i for i in 1..<5]`, four.  *)
Written(use, start, stop, step, kind) ==
  [use |-> use, start |-> start, stop |-> stop, step |-> step, kind |-> kind,
   literal |-> TRUE, literalStep |-> TRUE]
SixElements == Written("array", 2, 7, Omitted, "Inclusive")
ThreeElements == Written("array", 7, 3, -2, "Inclusive")
FourElements == Written("comprehension", 1, 5, Omitted, "UpExclusive")

CodesOf(s) ==
  {DoNothing} \cup
  CASE s = SixElements ->
         ArrayCodes("nothing", 6) \cup ArrayCodes("array", 3)
           \cup UNION {MatrixCodes("matrix", shape[1], shape[2]) : shape \in Shapes}
           \cup MatrixCodes("identity", 2, 2)
    [] s = ThreeElements -> ArrayCodes("nothing", 3)
    [] s = FourElements -> ArrayCodes("nothing", 4)
    [] OTHER -> {}

MCCode == [s \in MCSource |-> CodesOf(s)]
=============================================================================
