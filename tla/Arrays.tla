------------------------------- MODULE Arrays -------------------------------
(***************************************************************************)
(* Arrays and matrices: what sema accepts of them and of their indices     *)
(* (src/sema/analyzer.rs), the buffers the generated code keeps them in,   *)
(* and the cells it reads and writes (src/codegen/expr.rs, stmt.rs).       *)
(*                                                                         *)
(* A program fills an array from a range, which is what Ranges says, may   *)
(* build a second array or a matrix from its elements, and then reads,     *)
(* writes or walks the last one it built.  Elements are words; buffers are *)
(* never released, and fit into the memory, so no offset wraps.            *)
(***************************************************************************)
EXTENDS Ranges, Sequences

CONSTANT Code     \* what a program may do with the array of each range

Forms == {"index", "slice", "all"}     \* `i`, `start..stop`, `:`
Selectors ==
  [form : Forms, start : Int, stop : Int, kind : Kinds, literal : BOOLEAN]

(* The second array, the operation, and the selectors it comes with; an     *)
(* array has one dimension, `col`, and counts as one row.                   *)
Codes ==
  [make : {"nothing", "array", "matrix", "identity"}, rows : Nat, cols : Nat,
   do : {"nothing", "read", "assign", "add", "walk", "walkWithIndices"},
   row : Selectors, col : Selectors]

ASSUME CodeAssumption == Code \in [Source -> SUBSET Codes]

VARIABLES
  code,       \* what the program does with the array
  at,         \* "range", "making", "made", "turning", "finished", "trapped"
  heap,       \* the buffers allocated so far, each a sequence of cells
  turn,       \* the counter of the loop that is running
  touched,    \* the cells of the last step, as buffer and offset
  out         \* what the program has read, or its loop's body was given

arrayVars == <<code, at, heap, turn, touched, out>>

Unset == MinInt - 1   \* what a new buffer holds: not a word
NewBuffer(size) == [i \in 1..size |-> Unset]
Zeros(size) == [i \in 1..size |-> 0]
Value == 1            \* what assignments write, and add

(* An offset outside of the buffer reads anything, and writes elsewhere.    *)
Loaded(buffer, offset) ==
  IF offset + 1 \in DOMAIN heap[buffer] THEN heap[buffer][offset + 1] ELSE Unset
Stored(buffer, offset, value) ==
  [heap EXCEPT ![buffer] =
     IF offset + 1 \in DOMAIN @ THEN [@ EXCEPT ![offset + 1] = value] ELSE @]

-----------------------------------------------------------------------------
(* Sema: the type of an array has its length, that of a matrix its rows     *)
(* and columns.                                                             *)
IsMatrix(c) == c.make \in {"matrix", "identity"}
Cols(s, c) == IF c.make = "nothing" THEN LiteralRangeLength(s) ELSE c.cols
Rows(c) == IF IsMatrix(c) THEN c.rows ELSE 1

(* A mistake: an index is compared with the length and may be equal to it.  *)
OutsideBeyond(i, length) == i < 0 \/ i > length

(* The test of a bounds check.                                              *)
Outside(i, length) == i < 0 \/ i >= length

(* A mistake: a negative index counts from the last element, not behind it. *)
FromLast(i, length) == IF i < 0 THEN i + length - 1 ELSE i

(* normalize_index: a negative index counts from the end.                   *)
Normalized(i, length) == IF i < 0 THEN i + length ELSE i

(* A mistake: an index below zero is left to the check at run time.         *)
LiteralIndexBelow(selector, length) ==
  selector.literal => selector.start < length

(* check_literal_index: an index that is not a literal is left to the       *)
(* generated code.                                                          *)
LiteralIndexOk(selector, length) ==
  selector.literal => ~Outside(Normalized(selector.start, length), length)

(* slice_type: literals, upwards, not empty, and inside.                    *)
SliceOk(selector, length) ==
  /\ selector.literal
  /\ selector.start >= 0
  /\ \/ /\ selector.kind = "Inclusive"
        /\ selector.start <= selector.stop /\ selector.stop < length
     \/ /\ selector.kind = "UpExclusive"
        /\ selector.start < selector.stop /\ selector.stop <= length

(* classify_dim_selector: in one dimension of a matrix.                     *)
SelectorOk(selector, length) ==
  /\ selector.form = "index" => LiteralIndexOk(selector, length)
  /\ selector.form = "slice" => SliceOk(selector, length)

(* array_literal_type, matrix_literal_type, identity_call_type: the         *)
(* elements are those of the first array, by literal indices; a matrix is   *)
(* written with at least two rows.                                          *)
MakingOk(s, c) ==
  /\ c.make = "array" => c.cols \in 1..LiteralRangeLength(s)
  /\ c.make = "matrix" =>
       c.rows >= 2 /\ c.cols >= 1 /\ c.rows * c.cols <= LiteralRangeLength(s)
  /\ c.make = "identity" => c.rows = c.cols /\ c.cols >= 2

Elementwise(c) == c.col.form = "index" /\ (IsMatrix(c) => c.row.form = "index")

(* index_type, matrix_index2d_type, indexed_assign_check,                   *)
(* indexed_assign2d_check: parts of a matrix are read, never assigned.  The *)
(* operator of a compound assignment to a slice is not looked at.           *)
OperationOk(s, c) ==
  c.do \in {"read", "assign", "add"} =>
    IF IsMatrix(c)
    THEN /\ SelectorOk(c.row, c.rows) /\ SelectorOk(c.col, c.cols)
         /\ c.do # "read" => Elementwise(c)
    ELSE c.col.form # "all" /\ SelectorOk(c.col, Cols(s, c))

CodeAccepted(s, c) ==
  /\ s.use = "for" => c.make = "nothing" /\ c.do = "nothing"
  /\ MakingOk(s, c) /\ OperationOk(s, c)

-----------------------------------------------------------------------------
(* The generated code: addresses.                                           *)
Length == LiteralRangeLength(source)
RowCount == Rows(code)
ColCount == Cols(source, code)
Operand == IF code.make = "nothing" THEN 1 ELSE 2     \* its buffer

(* bounds_check_and_gep, bounds_check_and_gep_2d: the check of each index   *)
(* of an element; and those of a slice of a row or of a column, which do    *)
(* not count from the end.                                                  *)
CheckFails ==
  IF Elementwise(code)
  THEN \/ Outside(Normalized(code.col.start, ColCount), ColCount)
       \/ /\ IsMatrix(code)
          /\ Outside(Normalized(code.row.start, RowCount), RowCount)
  ELSE \/ code.col.form = "index" /\ Outside(code.col.start, ColCount)
       \/ /\ IsMatrix(code) /\ code.row.form = "index"
          /\ Outside(code.row.start, RowCount)

ElementOffset ==
  LET col == Normalized(code.col.start, ColCount)
  IN  IF IsMatrix(code)
      THEN (Normalized(code.row.start, RowCount) * ColCount) + col
      ELSE col

(* classify_2d_selector, read_slice_range: where a slice starts, and how    *)
(* many positions it has.                                                   *)
First(selector) == IF selector.form = "all" THEN 0 ELSE selector.start
SliceLength(selector, length) ==
  IF selector.form = "all" THEN length
  ELSE IF selector.form = "index" THEN 1
  ELSE IF selector.kind = "Inclusive" THEN selector.stop - selector.start + 1
  ELSE selector.stop - selector.start

PartCols == SliceLength(code.col, ColCount)
PartRows == IF IsMatrix(code) THEN SliceLength(code.row, RowCount) ELSE 1

(* A mistake: the counter is taken apart by the columns of the matrix.      *)
SubmatrixOffsetOfWhole(k) ==
  ((First(code.row) + (k \div ColCount)) * ColCount)
    + (First(code.col) + (k % ColCount))

(* gen_index2d_submatrix: the k-th cell of the part.                        *)
SubmatrixOffset(k) ==
  ((First(code.row) + (k \div PartCols)) * ColCount)
    + (First(code.col) + (k % PartCols))

(* gen_slice, gen_index2d_row_slice, gen_index2d_col_slice.                 *)
SliceOffset(k) == First(code.col) + k
RowSliceOffset(k) == (code.row.start * ColCount) + (First(code.col) + k)
ColSliceOffset(k) == ((First(code.row) + k) * ColCount) + code.col.start

PartOffset(k) ==
  IF ~IsMatrix(code) THEN SliceOffset(k)
  ELSE IF code.row.form = "index" THEN RowSliceOffset(k)
  ELSE IF code.col.form = "index" THEN ColSliceOffset(k)
  ELSE SubmatrixOffset(k)

-----------------------------------------------------------------------------
(* The generated code: steps.                                               *)
ArrayInit ==
  /\ Init
  /\ code \in Code[source]
  /\ CodeAccepted(source, code)
  /\ at = "range" /\ heap = <<>> /\ turn = 0 /\ touched = {} /\ out = <<>>

(* gen_array_from_range and gen_comprehension allocate before their loop.   *)
AllocateArray ==
  /\ source.use # "for"
  /\ BuildRange
  /\ heap' = <<NewBuffer(Length)>>
  /\ UNCHANGED <<code, at, turn, touched, out>>

(* Each turn of that loop stores the element it computes.                   *)
StoreElement ==
  /\ Fill \/ Collect
  /\ heap' = Stored(1, index, counter)
  /\ touched' = {<<1, index>>}
  /\ UNCHANGED <<code, at, turn, out>>

(* The other steps of Ranges allocate nothing.                              *)
RangeStep ==
  /\ (source.use = "for" /\ BuildRange) \/ Trap \/ Turn \/ Leave
  /\ UNCHANGED arrayVars

(* gen_array_literal, gen_matrix_literal: a buffer, then the elements.      *)
AllocateLiteral ==
  /\ pc = "done" /\ at = "range" /\ code.make \in {"array", "matrix"}
  /\ heap' = Append(heap, NewBuffer(RowCount * ColCount))
  /\ at' = "making" /\ turn' = 0
  /\ UNCHANGED <<vars, code, touched, out>>

(* One element, in the order of the text: a read of the first array, and    *)
(* the store at the flat offset of its row and column.                      *)
StoreLiteral ==
  /\ at = "making" /\ code.make \in {"array", "matrix"}
  /\ turn < RowCount * ColCount
  /\ LET row == turn \div ColCount
         col == turn % ColCount
         offset == (row * ColCount) + col
     IN  /\ heap' = Stored(2, offset, Loaded(1, turn))
         /\ touched' = {<<1, turn>>, <<2, offset>>}
  /\ turn' = turn + 1
  /\ UNCHANGED <<vars, code, at, out>>

(* gen_identity: a buffer of zeros, then the diagonal.                      *)
AllocateIdentity ==
  /\ pc = "done" /\ at = "range" /\ code.make = "identity"
  /\ heap' = Append(heap, Zeros(RowCount * ColCount))
  /\ at' = "making" /\ turn' = 0
  /\ UNCHANGED <<vars, code, touched, out>>

StoreDiagonal ==
  /\ at = "making" /\ code.make = "identity" /\ turn < RowCount
  /\ heap' = Stored(2, (turn * ColCount) + turn, 1)
  /\ touched' = {<<2, (turn * ColCount) + turn>>}
  /\ turn' = turn + 1
  /\ UNCHANGED <<vars, code, at, out>>

FinishMaking ==
  /\ at = "making"
  /\ turn = IF code.make = "identity" THEN RowCount ELSE RowCount * ColCount
  /\ at' = "made"
  /\ UNCHANGED <<vars, code, heap, turn, touched, out>>

(* The operand is there, and the operation begins.                          *)
Begins(operation) ==
  /\ pc = "done"
  /\ at = IF code.make = "nothing" THEN "range" ELSE "made"
  /\ code.do = operation

(* The failing side of a bounds check.                                      *)
TrapIndex ==
  /\ Begins("read") \/ Begins("assign") \/ Begins("add")
  /\ CheckFails
  /\ at' = "trapped"
  /\ UNCHANGED <<vars, code, heap, turn, touched, out>>

(* gen_index, gen_index2d_elem.                                             *)
ReadElement ==
  /\ Begins("read") /\ Elementwise(code) /\ ~CheckFails
  /\ out' = <<Loaded(Operand, ElementOffset)>>
  /\ touched' = {<<Operand, ElementOffset>>}
  /\ at' = "finished"
  /\ UNCHANGED <<vars, code, heap, turn>>

(* gen_stmt (IndexedAssign), gen_indexed_assign2d: one element, located     *)
(* once, whether it is also read or not.                                    *)
AssignElement ==
  /\ Begins("assign") \/ Begins("add")
  /\ Elementwise(code) /\ ~CheckFails
  /\ LET old == Loaded(Operand, ElementOffset)
     IN  heap' = Stored(Operand, ElementOffset,
                        IF code.do = "add" THEN Wrap(old + Value) ELSE Value)
  /\ touched' = {<<Operand, ElementOffset>>}
  /\ at' = "finished"
  /\ UNCHANGED <<vars, code, turn, out>>

(* The result of a slice is a new buffer.                                   *)
AllocatePart ==
  /\ Begins("read") /\ ~Elementwise(code) /\ ~CheckFails
  /\ heap' = Append(heap, NewBuffer(PartRows * PartCols))
  /\ at' = "turning" /\ turn' = 0
  /\ UNCHANGED <<vars, code, touched, out>>

CopyCell ==
  /\ at = "turning" /\ code.do = "read" /\ turn < PartRows * PartCols
  /\ heap' = Stored(Len(heap), turn, Loaded(Operand, PartOffset(turn)))
  /\ touched' = {<<Operand, PartOffset(turn)>>, <<Len(heap), turn>>}
  /\ turn' = turn + 1
  /\ UNCHANGED <<vars, code, at, out>>

StartFill ==
  /\ Begins("assign") \/ Begins("add")
  /\ ~Elementwise(code)
  /\ at' = "turning" /\ turn' = 0
  /\ UNCHANGED <<vars, code, heap, touched, out>>

(* A mistake: the slice is filled from the start of the array.              *)
FillFromStart ==
  /\ at = "turning" /\ code.do \in {"assign", "add"} /\ turn < PartCols
  /\ heap' = Stored(Operand, turn, Value)
  /\ touched' = {<<Operand, turn>>}
  /\ turn' = turn + 1
  /\ UNCHANGED <<vars, code, at, out>>

(* gen_slice_assign: the value, whatever the operator.                      *)
FillCell ==
  /\ at = "turning" /\ code.do \in {"assign", "add"} /\ turn < PartCols
  /\ heap' = Stored(Operand, SliceOffset(turn), Value)
  /\ touched' = {<<Operand, SliceOffset(turn)>>}
  /\ turn' = turn + 1
  /\ UNCHANGED <<vars, code, at, out>>

StartWalk ==
  /\ Begins("walk") \/ Begins("walkWithIndices")
  /\ at' = "turning" /\ turn' = 0
  /\ UNCHANGED <<vars, code, heap, touched, out>>

(* A mistake: the counter is taken apart by the number of rows.             *)
BindersByRows(value) ==
  IF code.do = "walk" THEN <<value>>
  ELSE IF IsMatrix(code) THEN <<turn \div RowCount, turn % RowCount, value>>
  ELSE <<turn, value>>

(* What the binders of the loop are given: gen_for_array_single,            *)
(* gen_for_array_2 and gen_for_array_3.                                     *)
Binders(value) ==
  IF code.do = "walk" THEN <<value>>
  ELSE IF IsMatrix(code) THEN <<turn \div ColCount, turn % ColCount, value>>
  ELSE <<turn, value>>

WalkCell ==
  /\ at = "turning" /\ code.do \in {"walk", "walkWithIndices"}
  /\ turn < RowCount * ColCount
  /\ out' = Append(out, Binders(Loaded(Operand, turn)))
  /\ touched' = {<<Operand, turn>>}
  /\ turn' = turn + 1
  /\ UNCHANGED <<vars, code, at, heap>>

Finish ==
  /\ at = "turning"
  /\ turn = CASE code.do = "read" -> PartRows * PartCols
              [] code.do \in {"assign", "add"} -> PartCols
              [] OTHER -> RowCount * ColCount
  /\ at' = "finished"
  /\ UNCHANGED <<vars, code, heap, turn, touched, out>>

ArrayNext ==
  \/ RangeStep \/ AllocateArray \/ StoreElement
  \/ AllocateLiteral \/ StoreLiteral \/ AllocateIdentity \/ StoreDiagonal
  \/ FinishMaking
  \/ TrapIndex \/ ReadElement \/ AssignElement \/ AllocatePart \/ CopyCell
  \/ StartFill \/ FillCell \/ StartWalk \/ WalkCell \/ Finish

ArraySpec == ArrayInit /\ [][ArrayNext]_<<vars, arrayVars>>

(* The code runs by itself until the operation is over.                     *)
FairArraySpec == ArraySpec /\ WF_<<vars, arrayVars>>(ArrayNext)

-----------------------------------------------------------------------------
(* Properties.                                                              *)

(* The positions a selector names, as a reader of the program takes it.     *)
Named(selector, length) ==
  IF selector.form = "index" THEN {selector.start % length}
  ELSE IF selector.form = "all" THEN 0..length - 1
  ELSE IF selector.kind = "Inclusive" THEN selector.start..selector.stop
  ELSE selector.start..selector.stop - 1

Part ==
  (IF IsMatrix(code) THEN Named(code.row, RowCount) ELSE {0})
    \X Named(code.col, ColCount)

Whole == (0..RowCount - 1) \X (0..ColCount - 1)

(* Row by row, and in a row from left to right.                             *)
Before(p, q) == p[1] < q[1] \/ (p[1] = q[1] /\ p[2] < q[2])
Position(place, places) == Cardinality({p \in places : Before(p, place)}) + 1

(* The cells are what `content` has in its places, in that order.           *)
Lists(cells, content) ==
  LET places == DOMAIN content IN
  /\ DOMAIN cells = 1..Cardinality(places)
  /\ \A place \in places : cells[Position(place, places)] = content[place]

(* The element there, as the program was written.                           *)
Element(place) ==
  IF code.make = "identity"
  THEN IF place[1] = place[2] THEN 1 ELSE 0
  ELSE range.start + ((place[1] * ColCount + place[2]) * range.step)

(* No step reads or writes outside of a buffer: what sema accepts and the   *)
(* bounds checks let through stays inside (the code has no other check).    *)
AccessesInBounds ==
  \A cell \in touched :
    cell[1] \in DOMAIN heap /\ cell[2] + 1 \in DOMAIN heap[cell[1]]

(* A read yields the elements its indices and slices name, in order, of the *)
(* array or matrix the program wrote: through the range, the literal, the   *)
(* flat offsets and the copy.                                               *)
SelectsItsPart ==
  at = "finished" /\ code.do = "read" =>
    Lists(IF Elementwise(code) THEN out ELSE heap[Len(heap)],
          [place \in Part |-> Element(place)])

(* The positions an index may have: from the start, or from the end when it *)
(* is negative (specs/0012, 82-85), in whichever row or column selector it  *)
(* stands (specs/0013, 575-582).                                            *)
Reachable(length) == -length..length - 1

OutOfReach(selector, length) ==
  selector.form = "index" /\ selector.start \notin Reachable(length)

(* Where the code departs from that: the row of a row slice, or the column  *)
(* of a column slice, counted from the end.  Sema takes it, literal or not, *)
(* and the generated code stops with an index error.                        *)
CountsFromEndOfSlice ==
  /\ IsMatrix(code) /\ ~Elementwise(code)
  /\ \/ code.row.form = "index" /\ code.row.start \in -RowCount..-1
     \/ code.col.form = "index" /\ code.col.start \in -ColCount..-1

(* A runtime error comes exactly when an index is out of reach, and in      *)
(* place of the operation; leaving out the indices that count from the end  *)
(* of a slice.                                                              *)
IndexErrorsAreExact ==
  /\ at \in {"trapped", "finished"} /\ code.do \in {"read", "assign", "add"}
  /\ ~CountsFromEndOfSlice
  => (at = "trapped" <=>
        \/ OutOfReach(code.col, ColCount)
        \/ IsMatrix(code) /\ OutOfReach(code.row, RowCount))

(* Sema and the generated code check an index alike: a program stops with   *)
(* an index error because of an index that is not a literal, in an element, *)
(* a row slice or a column slice; the same indices left out.                *)
LiteralIndicesNeverTrap ==
  at = "trapped" /\ ~CountsFromEndOfSlice =>
    \/ ~code.col.literal /\ OutOfReach(code.col, ColCount)
    \/ IsMatrix(code) /\ ~code.row.literal /\ OutOfReach(code.row, RowCount)

(* An assignment changes the elements it names and no other, in its own     *)
(* array and in the one it was built from.  An operator with a slice, which *)
(* the code ignores, is left out.                                           *)
AssignsItsPart ==
  LET Changed(place) ==
        IF place \notin Part THEN Element(place)
        ELSE IF code.do = "add" THEN Wrap(Element(place) + Value) ELSE Value
  IN  /\ at = "finished"
      /\ code.do = "assign" \/ (code.do = "add" /\ Elementwise(code))
      =>
      /\ Lists(heap[Operand], [place \in Whole |-> Changed(place)])
      /\ Operand = 2 =>
           heap[1] = [i \in 1..Length |-> range.start + ((i - 1) * range.step)]

(* A loop over an array or a matrix meets every element once, row by row,   *)
(* with its own indices.                                                    *)
LoopsMeetEveryElement ==
  at = "finished" /\ code.do \in {"walk", "walkWithIndices"} =>
    Lists(out, [place \in Whole |->
                  IF code.do = "walk" THEN <<Element(place)>>
                  ELSE IF IsMatrix(code) THEN <<place[1], place[2], Element(place)>>
                  ELSE <<place[2], Element(place)>>])
=============================================================================
