---------------------------- MODULE Arrays_proofs ----------------------------
(***************************************************************************)
(* Theorems about arrays and matrices, for ranges, shapes, selectors and   *)
(* words of every size.                                                    *)
(***************************************************************************)
EXTENDS Arrays, Ranges_proofs, SequenceTheorems

USE MaxIntAssumption, SourceAssumption, CodeAssumption

-----------------------------------------------------------------------------
(* Ranges goes on below: each step of an array's program is a step of the   *)
(* range it is filled from, or leaves that alone.                           *)
LEMMA RangeIsStepped ==
  ASSUME [ArrayNext]_<<vars, arrayVars>>
  PROVE  [Next]_vars
<1>1. CASE RangeStep
  BY <1>1 DEF RangeStep, Next
<1>2. CASE AllocateArray
  BY <1>2 DEF AllocateArray, Next
<1>3. CASE StoreElement
  BY <1>3 DEF StoreElement, Next
<1>4. CASE AllocateLiteral \/ StoreLiteral \/ AllocateIdentity
           \/ StoreDiagonal \/ FinishMaking
  BY <1>4 DEF AllocateLiteral, StoreLiteral, AllocateIdentity, StoreDiagonal,
              FinishMaking
<1>5. CASE TrapIndex \/ ReadElement \/ AssignElement \/ AllocatePart \/ CopyCell
  BY <1>5 DEF TrapIndex, ReadElement, AssignElement, AllocatePart, CopyCell
<1>6. CASE StartFill \/ FillCell \/ StartWalk \/ WalkCell \/ Finish
  BY <1>6 DEF StartFill, FillCell, StartWalk, WalkCell, Finish
<1>7. CASE UNCHANGED <<vars, arrayVars>>
  BY <1>7
<1> QED
  BY <1>1, <1>2, <1>3, <1>4, <1>5, <1>6, <1>7 DEF ArrayNext

(* A program with arrays implements Ranges: what is proved of a range holds *)
(* of the ranges that arrays are filled from.                               *)
THEOREM ImplementsRanges == ArraySpec => Spec
<1>1. ArrayInit => Init
  BY DEF ArrayInit
<1>2. [ArrayNext]_<<vars, arrayVars>> => [Next]_vars
  BY RangeIsStepped
<1> QED
  BY <1>1, <1>2, PTL DEF ArraySpec, Spec

-----------------------------------------------------------------------------
(* Numbers.                                                                 *)

(* The wrapped sum of the generated code is an integer.                     *)
LEMMA WrapIsInt ==
  ASSUME NEW x \in Int
  PROVE  Wrap(x) \in Int
BY DEF Wrap

(* The division that literal_range_length makes is one of integers.         *)
LEMMA QuotientIsInt ==
  ASSUME NEW a \in Int, NEW b \in Int, b # 0
  PROVE  Quotient(a, b) \in Int
<1>1. Magnitude(a) \in Nat /\ Magnitude(b) \in Nat \ {0}
  BY DEF Magnitude
<1>2. Magnitude(a) \div Magnitude(b) \in Int
  BY <1>1
<1> QED
  BY <1>2 DEF Quotient

(* The length sema gives an array is a number, if not always the right one. *)
LEMMA LengthIsInt ==
  ASSUME NEW s \in Source
  PROVE  LiteralRangeLength(s) \in Int
<1>1. /\ s.start \in Int /\ s.stop \in Int
      /\ StepOf(s) \in Int
  <2>1. s \in Sources
    BY SourceAssumption
  <2> QED
    BY <2>1, StepIsWord DEF Sources, Int64, MinInt
<1> DEFINE step == StepOf(s)
           up == Wrap(s.stop - s.start)
           down == Wrap(s.start - s.stop)
<1>2. up \in Int /\ down \in Int
  BY <1>1, WrapIsInt
<1>3. /\ Wrap(Wrap(up + step) - 1) \in Int
      /\ Wrap(Wrap(down - step) - 1) \in Int
  BY <1>1, <1>2, WrapIsInt
<1>4. ASSUME step > 0
      PROVE  /\ Wrap(Quotient(up, step) + 1) \in Int
             /\ Quotient(Wrap(Wrap(up + step) - 1), step) \in Int
  BY <1>1, <1>2, <1>3, <1>4, QuotientIsInt, WrapIsInt, SMTT(30)
<1>5. ASSUME step < 0
      PROVE  /\ Wrap(Quotient(down, -step) + 1) \in Int
             /\ Quotient(Wrap(Wrap(down - step) - 1), -step) \in Int
  <2> HIDE DEF step, up, down
  <2>1. -step \in Int /\ -step # 0
    BY <1>1, <1>5 DEF step
  <2>2. Quotient(down, -step) \in Int
    BY <1>2, <2>1, QuotientIsInt
  <2>3. Quotient(Wrap(Wrap(down - step) - 1), -step) \in Int
    BY <1>3, <2>1, QuotientIsInt
  <2>4. Wrap(Quotient(down, -step) + 1) \in Int
    BY <2>2, WrapIsInt
  <2> QED
    BY <2>3, <2>4
<1>6. 0 \in Int
  OBVIOUS
<1> QED
  BY <1>4, <1>5, <1>6, ZenonT(30) DEF LiteralRangeLength

(* A row and a column inside give an offset inside.                         *)
LEMMA FlatIsInside ==
  ASSUME NEW rows \in Nat, NEW cols \in Int,
         NEW r \in 0..rows - 1, NEW c \in 0..cols - 1
  PROVE  (r * cols) + c \in 0..(rows * cols) - 1
<1>1. cols \in Nat /\ r \in Nat /\ c \in Nat
  OBVIOUS
<1>2. (r + 1) * cols <= rows * cols
  <2>1. r + 1 <= rows
    OBVIOUS
  <2> QED
    BY <1>1, <2>1
<1>3. (r + 1) * cols = (r * cols) + cols
  BY <1>1
<1>4. r * cols \in Nat /\ rows * cols \in Nat
  BY <1>1
<1> QED
  BY <1>1, <1>2, <1>3, <1>4

(* A counter taken apart by the columns gives a row and a column inside.    *)
LEMMA CounterIsApart ==
  ASSUME NEW rows \in Nat, NEW cols \in Nat, NEW k \in Nat, k < rows * cols
  PROVE  k \div cols \in 0..rows - 1 /\ k % cols \in 0..cols - 1
<1>1. cols > 0
  <2>1. cols # 0
    <3>1. SUFFICES ASSUME cols = 0 PROVE FALSE
      OBVIOUS
    <3>2. rows * cols = 0
      BY <3>1
    <3> QED
      BY <3>2
  <2> QED
    BY <2>1
<1> DEFINE q == k \div cols
<1>2. k = (q * cols) + (k % cols) /\ q \in Nat /\ k % cols \in 0..cols - 1
  BY <1>1
<1>3. q < rows
  <2>1. SUFFICES ASSUME q >= rows PROVE FALSE
    BY <1>2
  <2>2. q * cols >= rows * cols
    BY <1>2, <2>1
  <2>3. q * cols \in Nat /\ rows * cols \in Nat
    BY <1>2
  <2> QED
    BY <1>2, <2>2, <2>3
<1> QED
  BY <1>2, <1>3

-----------------------------------------------------------------------------
(* Buffers.                                                                 *)

Buffers == UNION {[1..n -> Int] : n \in Int}

(* An array of any length starts as a buffer.                               *)
LEMMA NewIsBuffer ==
  ASSUME NEW n \in Int
  PROVE  /\ NewBuffer(n) \in Buffers /\ DOMAIN NewBuffer(n) = 1..n
         /\ Zeros(n) \in Buffers /\ DOMAIN Zeros(n) = 1..n
<1>1. Unset \in Int
  BY DEF Unset, MinInt
<1>2. NewBuffer(n) \in [1..n -> Int] /\ Zeros(n) \in [1..n -> Int]
  BY <1>1 DEF NewBuffer, Zeros
<1> QED
  BY <1>2 DEF Buffers

(* What a cell holds is a number, and what a step stores in it changes the  *)
(* size of no buffer.                                                       *)
LEMMA CellsAreNumbers ==
  ASSUME heap \in Seq(Buffers), NEW b \in 1..Len(heap), NEW o \in Int
  PROVE  Loaded(b, o) \in Int
<1>1. heap[b] \in Buffers
  OBVIOUS
<1>2. PICK n \in Int : heap[b] \in [1..n -> Int]
  BY <1>1 DEF Buffers
<1>3. Unset \in Int
  BY DEF Unset, MinInt
<1> QED
  BY <1>2, <1>3 DEF Loaded

(* A store changes no buffer's size, and releases none.                     *)
LEMMA StoreKeepsSizes ==
  ASSUME heap \in Seq(Buffers), NEW b \in 1..Len(heap), NEW o \in Int,
         NEW v \in Int
  PROVE  /\ Stored(b, o, v) \in Seq(Buffers)
         /\ Len(Stored(b, o, v)) = Len(heap)
         /\ DOMAIN Stored(b, o, v) = DOMAIN heap
         /\ \A i \in DOMAIN heap : DOMAIN Stored(b, o, v)[i] = DOMAIN heap[i]
<1>1. heap[b] \in Buffers
  OBVIOUS
<1>2. PICK n \in Int : heap[b] \in [1..n -> Int]
  BY <1>1 DEF Buffers
<1> DEFINE cells == IF o + 1 \in DOMAIN heap[b]
                    THEN [heap[b] EXCEPT ![o + 1] = v] ELSE heap[b]
<1>3. cells \in [1..n -> Int] /\ DOMAIN cells = DOMAIN heap[b]
  BY <1>2
<1>4. cells \in Buffers
  BY <1>3 DEF Buffers
<1>5. Stored(b, o, v) = [heap EXCEPT ![b] = cells]
  BY DEF Stored
<1> HIDE DEF cells
<1>6. [heap EXCEPT ![b] = cells] \in Seq(Buffers)
      /\ Len([heap EXCEPT ![b] = cells]) = Len(heap)
      /\ DOMAIN [heap EXCEPT ![b] = cells] = DOMAIN heap
  BY <1>4
<1>7. \A i \in DOMAIN heap : DOMAIN [heap EXCEPT ![b] = cells][i] = DOMAIN heap[i]
  BY <1>3
<1> QED
  BY <1>5, <1>6, <1>7

(* A new buffer leaves the others where they are.                           *)
LEMMA AllocationKeepsBuffers ==
  ASSUME heap \in Seq(Buffers), NEW new \in Buffers
  PROVE  /\ Append(heap, new) \in Seq(Buffers)
         /\ Len(Append(heap, new)) = Len(heap) + 1
         /\ Append(heap, new)[Len(heap) + 1] = new
         /\ \A i \in 1..Len(heap) : Append(heap, new)[i] = heap[i]
OBVIOUS

-----------------------------------------------------------------------------
(* Selectors.                                                               *)

(* What sema has accepted: the code has the form it assumes.                *)
Accepting ==
  source \in Source /\ code \in Code[source] /\ CodeAccepted(source, code)

(* The lengths sema gave the array or matrix are numbers.                   *)
LEMMA ShapeIsNumbers ==
  ASSUME Accepting
  PROVE  /\ code \in Codes
         /\ code.row \in Selectors /\ code.col \in Selectors
         /\ Length \in Int /\ RowCount \in Nat /\ ColCount \in Int
         /\ MakingOk(source, code) /\ OperationOk(source, code)
         /\ IsMatrix(code) => RowCount = code.rows /\ ColCount = code.cols
         /\ ~IsMatrix(code) => RowCount = 1
         /\ code.make = "nothing" => ~IsMatrix(code) /\ ColCount = Length
         /\ code.make = "array" => RowCount * ColCount <= Length
<1>1. code \in Codes
  BY DEF Accepting
<1>2. code.row \in Selectors /\ code.col \in Selectors
      /\ code.rows \in Nat /\ code.cols \in Nat
  BY <1>1 DEF Codes
<1>3. Length \in Int
  BY LengthIsInt DEF Accepting, Length
<1>4. MakingOk(source, code) /\ OperationOk(source, code)
  BY DEF Accepting, CodeAccepted
<1>5. code.make = "nothing" => ~IsMatrix(code) /\ ColCount = Length
  BY DEF IsMatrix, ColCount, Cols, Length
<1>6. code.make # "nothing" => ColCount = code.cols
  BY DEF ColCount, Cols
<1>7. RowCount = IF IsMatrix(code) THEN code.rows ELSE 1
  BY DEF RowCount, Rows
<1>8. code.make = "array" => ~IsMatrix(code) /\ code.cols <= Length
  BY <1>2, <1>3, <1>4 DEF MakingOk, IsMatrix, Length
<1>9. IsMatrix(code) => code.make # "nothing"
  BY DEF IsMatrix
<1> QED
  BY <1>1, <1>2, <1>3, <1>4, <1>5, <1>6, <1>7, <1>8, <1>9

(* A position of an accepted slice is a position of its dimension.          *)
LEMMA SliceIsInside ==
  ASSUME NEW sel \in Selectors, NEW length \in Int, sel.form # "index",
         SelectorOk(sel, length)
  PROVE  /\ SliceLength(sel, length) \in Int
         /\ sel.form = "slice" => SliceLength(sel, length) >= 0
         /\ length >= 0 => SliceLength(sel, length) >= 0
         /\ \A j \in 0..SliceLength(sel, length) - 1 :
              First(sel) + j \in 0..length - 1
<1>1. /\ sel.start \in Int /\ sel.stop \in Int
      /\ sel.form \in {"slice", "all"} /\ sel.kind \in Kinds
  BY DEF Selectors, Forms
<1>2. CASE sel.form = "all"
  <2>1. SliceLength(sel, length) = length
    BY <1>2 DEF SliceLength
  <2>2. First(sel) = 0
    BY <1>2 DEF First
  <2> QED
    BY <1>2, <2>1, <2>2
<1>3. CASE sel.form = "slice" /\ sel.kind = "Inclusive"
  <2>1. SliceLength(sel, length) = sel.stop - sel.start + 1
    BY <1>3 DEF SliceLength
  <2>2. 0 <= sel.start /\ sel.start <= sel.stop /\ sel.stop < length
    BY <1>3 DEF SelectorOk, SliceOk
  <2>3. First(sel) = sel.start
    BY <1>3 DEF First
  <2> QED
    BY <1>1, <2>1, <2>2, <2>3
<1>4. CASE sel.form = "slice" /\ sel.kind # "Inclusive"
  <2>1. SliceLength(sel, length) = sel.stop - sel.start
    BY <1>4 DEF SliceLength
  <2>2. 0 <= sel.start /\ sel.start < sel.stop /\ sel.stop <= length
    BY <1>4 DEF SelectorOk, SliceOk
  <2>3. First(sel) = sel.start
    BY <1>4 DEF First
  <2> QED
    BY <1>1, <2>1, <2>2, <2>3
<1> QED
  BY <1>1, <1>2, <1>3, <1>4

(* An index that passes the check is a position of its dimension.           *)
LEMMA CheckedIsInside ==
  ASSUME NEW i \in Int, NEW length \in Int, ~Outside(i, length)
  PROVE  i \in 0..length - 1
BY DEF Outside

(* The element an operation has checked is a cell of the operand.           *)
LEMMA ElementIsInside ==
  ASSUME Accepting, Elementwise(code), ~CheckFails
  PROVE  ElementOffset \in 0..(RowCount * ColCount) - 1
<1> DEFINE c == Normalized(code.col.start, ColCount)
           r == Normalized(code.row.start, RowCount)
<1>1. /\ RowCount \in Nat /\ ColCount \in Int
      /\ code.row.start \in Int /\ code.col.start \in Int
      /\ ~IsMatrix(code) => RowCount = 1
  BY ShapeIsNumbers DEF Selectors
<1>2. c \in Int /\ r \in Int
  BY <1>1 DEF Normalized
<1>3. ~Outside(c, ColCount) /\ (IsMatrix(code) => ~Outside(r, RowCount))
  BY DEF CheckFails
<1> HIDE DEF c, r
<1>4. c \in 0..ColCount - 1
  BY <1>1, <1>2, <1>3, CheckedIsInside
<1>5. CASE IsMatrix(code)
  <2>1. r \in 0..RowCount - 1
    BY <1>1, <1>2, <1>3, <1>5, CheckedIsInside
  <2>2. ElementOffset = (r * ColCount) + c
    BY <1>5 DEF ElementOffset, c, r
  <2> QED
    BY <1>1, <1>4, <2>1, <2>2, FlatIsInside
<1>6. CASE ~IsMatrix(code)
  <2>1. ElementOffset = c /\ RowCount * ColCount = ColCount
    BY <1>1, <1>6 DEF ElementOffset, c
  <2> QED
    BY <1>4, <2>1
<1> QED
  BY <1>5, <1>6

(* Each cell of the part a slice reads is a cell of the operand.            *)
LEMMA PartIsInside ==
  ASSUME Accepting, code.do = "read", ~Elementwise(code), ~CheckFails
  PROVE  /\ PartRows * PartCols \in Int
         /\ \A k \in Nat : k < PartRows * PartCols =>
              PartOffset(k) \in 0..(RowCount * ColCount) - 1
<1> DEFINE row == code.row
           col == code.col
<1>1. /\ row \in Selectors /\ col \in Selectors
      /\ RowCount \in Nat /\ ColCount \in Int
      /\ OperationOk(source, code) /\ code \in Codes
  BY ShapeIsNumbers
<1>2. CASE ~IsMatrix(code)
  <2>1. col.form # "index" /\ SelectorOk(col, ColCount)
    BY <1>1, <1>2 DEF OperationOk, Elementwise, ColCount
  <2>2. PartRows = 1 /\ PartCols = SliceLength(col, ColCount) /\ RowCount = 1
    BY <1>2, ShapeIsNumbers DEF PartRows, PartCols
  <2>3. /\ PartCols \in Int
        /\ \A j \in 0..PartCols - 1 : First(col) + j \in 0..ColCount - 1
    BY <1>1, <2>1, <2>2, SliceIsInside
  <2>4. \A k : PartOffset(k) = First(col) + k
    BY <1>2 DEF PartOffset, SliceOffset
  <2>5. PartRows * PartCols = PartCols /\ RowCount * ColCount = ColCount
    BY <1>1, <2>2, <2>3
  <2> QED
    BY <2>3, <2>4, <2>5
<1>3. CASE IsMatrix(code)
  <2>1. /\ RowCount = code.rows /\ ColCount = code.cols /\ ColCount \in Nat
        /\ SelectorOk(row, RowCount) /\ SelectorOk(col, ColCount)
    BY <1>1, <1>3, ShapeIsNumbers DEF OperationOk, Codes
  <2>2. /\ PartRows = SliceLength(row, RowCount)
        /\ PartCols = SliceLength(col, ColCount)
    BY <1>3 DEF PartRows, PartCols
  <2>3. row.start \in Int /\ col.start \in Int
    BY <1>1 DEF Selectors
  <2> DEFINE rows == RowCount
             cols == ColCount
  <2>4. CASE row.form = "index"
    <3>1. col.form # "index"
      BY <1>3, <2>4 DEF Elementwise
    <3>2. row.start \in 0..rows - 1
      <4>1. ~Outside(row.start, rows)
        BY <1>3, <2>4, <3>1 DEF CheckFails, Elementwise
      <4> QED
        BY <1>1, <2>3, <4>1, CheckedIsInside
    <3>3. PartRows = 1
      BY <2>2, <2>4 DEF SliceLength
    <3>4. /\ PartCols \in Int
          /\ \A j \in 0..PartCols - 1 : First(col) + j \in 0..cols - 1
      BY <1>1, <2>1, <2>2, <3>1, SliceIsInside
    <3>5. \A k : PartOffset(k) = (row.start * cols) + (First(col) + k)
      BY <1>3, <2>4 DEF PartOffset, RowSliceOffset
    <3>6. ASSUME NEW k \in Nat, k < PartCols
          PROVE  PartOffset(k) \in 0..(rows * cols) - 1
      <4>1. First(col) + k \in 0..cols - 1
        BY <3>4, <3>6
      <4> QED
        BY <1>1, <3>2, <3>5, <4>1, FlatIsInside
    <3>7. PartRows * PartCols = PartCols
      BY <3>3, <3>4
    <3> QED
      BY <3>4, <3>6, <3>7
  <2>5. CASE row.form # "index" /\ col.form = "index"
    <3>1. col.start \in 0..cols - 1
      <4>1. ~Outside(col.start, cols)
        BY <1>3, <2>5 DEF CheckFails, Elementwise
      <4> QED
        BY <1>1, <2>3, <4>1, CheckedIsInside
    <3>2. PartCols = 1
      BY <2>2, <2>5 DEF SliceLength
    <3>3. /\ PartRows \in Int
          /\ \A j \in 0..PartRows - 1 : First(row) + j \in 0..rows - 1
      BY <1>1, <2>1, <2>2, <2>5, SliceIsInside
    <3>4. \A k : PartOffset(k) = ((First(row) + k) * cols) + col.start
      BY <1>3, <2>5 DEF PartOffset, ColSliceOffset
    <3>5. ASSUME NEW k \in Nat, k < PartRows
          PROVE  PartOffset(k) \in 0..(rows * cols) - 1
      <4>1. First(row) + k \in 0..rows - 1
        BY <3>3, <3>5
      <4> QED
        BY <1>1, <3>1, <3>4, <4>1, FlatIsInside
    <3>6. PartRows * PartCols = PartRows
      BY <3>2, <3>3
    <3> QED
      BY <3>3, <3>5, <3>6
  <2>6. CASE row.form # "index" /\ col.form # "index"
    <3>1. /\ PartRows \in Nat
          /\ \A j \in 0..PartRows - 1 : First(row) + j \in 0..rows - 1
      BY <1>1, <2>1, <2>2, <2>6, SliceIsInside
    <3>2. /\ PartCols \in Nat
          /\ \A j \in 0..PartCols - 1 : First(col) + j \in 0..cols - 1
      BY <1>1, <2>1, <2>2, <2>6, SliceIsInside
    <3>3. \A k : PartOffset(k) =
                   ((First(row) + (k \div PartCols)) * cols)
                     + (First(col) + (k % PartCols))
      BY <1>3, <2>6 DEF PartOffset, SubmatrixOffset
    <3>4. ASSUME NEW k \in Nat, k < PartRows * PartCols
          PROVE  PartOffset(k) \in 0..(rows * cols) - 1
      <4>1. k \div PartCols \in 0..PartRows - 1 /\ k % PartCols \in 0..PartCols - 1
        BY <3>1, <3>2, <3>4, CounterIsApart
      <4>2. /\ First(row) + (k \div PartCols) \in 0..rows - 1
            /\ First(col) + (k % PartCols) \in 0..cols - 1
        BY <3>1, <3>2, <4>1
      <4> QED
        BY <1>1, <3>3, <4>2, FlatIsInside
    <3>5. PartRows * PartCols \in Int
      BY <3>1, <3>2
    <3> QED
      BY <3>4, <3>5
  <2> QED
    BY <2>4, <2>5, <2>6
<1> QED
  BY <1>2, <1>3

(* Each cell a slice assignment fills is a cell of the array.               *)
LEMMA FillIsInside ==
  ASSUME Accepting, code.do \in {"assign", "add"}, ~Elementwise(code)
  PROVE  /\ PartCols \in Int
         /\ \A k \in Nat : k < PartCols =>
              SliceOffset(k) \in 0..(RowCount * ColCount) - 1
<1>1. /\ code.col \in Selectors /\ RowCount \in Nat /\ ColCount \in Int
      /\ OperationOk(source, code)
  BY ShapeIsNumbers
<1>2. ~IsMatrix(code)
  BY <1>1 DEF OperationOk
<1>3. code.col.form # "index" /\ SelectorOk(code.col, ColCount) /\ RowCount = 1
  BY <1>1, <1>2, ShapeIsNumbers DEF OperationOk, Elementwise, ColCount
<1>4. /\ PartCols \in Int
      /\ \A j \in 0..PartCols - 1 : First(code.col) + j \in 0..ColCount - 1
  BY <1>1, <1>3, SliceIsInside DEF PartCols
<1>5. RowCount * ColCount = ColCount
  BY <1>1, <1>3
<1> QED
  BY <1>4, <1>5 DEF SliceOffset

-----------------------------------------------------------------------------
(* The invariant: which buffers there are, and how large.                   *)

HeapTypeOK == heap \in Seq(Buffers) /\ turn \in Nat

(* Nothing happens to an array before it is filled, and each phase has a    *)
(* program that calls for it.                                               *)
PhasesInOrder ==
  /\ pc = "build" => touched = {}
  /\ at # "range" =>
       pc = "done" /\ (code.make # "nothing" \/ code.do # "nothing")
  /\ at = "making" => code.make # "nothing"
  /\ at = "turning" => code.do # "nothing"
  /\ at = "turning" /\ code.do \in {"read", "assign", "add"} =>
       ~Elementwise(code) /\ ~CheckFails

BuffersAreThere ==
  /\ pc \in {"loop", "done"} /\ source.use # "for" =>
       /\ Len(heap) >= 1 /\ DOMAIN heap[1] = 1..Length
       /\ at = "range" => Len(heap) = 1
  /\ at # "range" /\ code.make # "nothing" =>
       Len(heap) >= 2 /\ DOMAIN heap[2] = 1..RowCount * ColCount
  /\ at = "turning" /\ code.do = "read" =>
       /\ Len(heap) > Operand
       /\ DOMAIN heap[Len(heap)] = 1..PartRows * PartCols

IInv ==
  Accepting /\ HeapTypeOK /\ PhasesInOrder /\ BuffersAreThere /\ AccessesInBounds

(* The operand of an operation is there, with its rows and columns.         *)
LEMMA OperandIsThere ==
  ASSUME Accepting, HeapTypeOK, BuffersAreThere, pc = "done",
         code.make # "nothing" \/ code.do # "nothing",
         code.make # "nothing" => at # "range"
  PROVE  Operand \in 1..Len(heap) /\ DOMAIN heap[Operand] = 1..RowCount * ColCount
<1>1. Len(heap) \in Nat
  BY DEF HeapTypeOK
<1>2. source.use # "for"
  BY DEF Accepting, CodeAccepted
<1>3. CASE code.make = "nothing"
  <2>1. Operand = 1 /\ Len(heap) >= 1 /\ DOMAIN heap[1] = 1..Length
    BY <1>2, <1>3 DEF Operand, BuffersAreThere
  <2>2. RowCount = 1 /\ ColCount = Length /\ Length \in Int
    BY <1>3, ShapeIsNumbers
  <2>3. RowCount * ColCount = Length
    BY <2>2
  <2> QED
    BY <1>1, <2>1, <2>3
<1>4. CASE code.make # "nothing"
  BY <1>1, <1>4 DEF Operand, BuffersAreThere
<1> QED
  BY <1>3, <1>4

(* A step that keeps the program keeps its shape.                           *)
LEMMA ShapeIsKept ==
  ASSUME source' = source, code' = code
  PROVE  /\ Length' = Length /\ RowCount' = RowCount /\ ColCount' = ColCount
         /\ Operand' = Operand /\ PartRows' = PartRows /\ PartCols' = PartCols
         /\ Elementwise(code)' = Elementwise(code)
         /\ CheckFails' = CheckFails
         /\ Accepting' = Accepting
BY DEF Length, RowCount, ColCount, Operand, PartRows, PartCols, CheckFails,
       Accepting

(* Sizes that are kept leave every buffer in its place.                     *)
LEMMA SizesKept ==
  ASSUME BuffersAreThere, HeapTypeOK, source' = source, code' = code,
         pc' = pc, at' = at, Len(heap') = Len(heap),
         \A i \in DOMAIN heap : DOMAIN heap'[i] = DOMAIN heap[i]
  PROVE  BuffersAreThere'
<1>1. /\ Length' = Length /\ RowCount' = RowCount /\ ColCount' = ColCount
      /\ Operand' = Operand /\ PartRows' = PartRows /\ PartCols' = PartCols
  BY ShapeIsKept
<1>2. DOMAIN heap = 1..Len(heap) /\ Len(heap) \in Nat
  BY DEF HeapTypeOK
<1>3. Operand \in {1, 2}
  BY DEF Operand
<1>4. /\ Len(heap) >= 1 => DOMAIN heap'[1] = DOMAIN heap[1]
      /\ Len(heap) >= 2 => DOMAIN heap'[2] = DOMAIN heap[2]
      /\ Len(heap) > Operand => DOMAIN heap'[Len(heap')] = DOMAIN heap[Len(heap)]
  BY <1>2, <1>3
<1> QED
  BY <1>1, <1>4 DEF BuffersAreThere

(* Steps that touch no buffer and keep the program and its range.           *)
LEMMA QuietSteps ==
  ASSUME IInv, UNCHANGED <<vars, code, heap, touched>>, turn' \in Nat
  PROVE  Accepting' /\ HeapTypeOK' /\ AccessesInBounds'
BY ShapeIsKept DEF IInv, vars, HeapTypeOK, AccessesInBounds

(* A store to a cell that is there, and what it was computed from.          *)
LEMMA StoreIsSafe ==
  ASSUME IInv, NEW b \in 1..Len(heap), NEW o \in Nat, o + 1 \in DOMAIN heap[b],
         NEW v \in Int, heap' = Stored(b, o, v), source' = source, code' = code,
         \A cell \in touched' :
           cell = <<b, o>> \/ (cell[1] \in DOMAIN heap
                               /\ cell[2] + 1 \in DOMAIN heap[cell[1]])
  PROVE  /\ heap' \in Seq(Buffers) /\ Len(heap') = Len(heap)
         /\ \A i \in DOMAIN heap : DOMAIN heap'[i] = DOMAIN heap[i]
         /\ AccessesInBounds'
<1>1. heap \in Seq(Buffers)
  BY DEF IInv, HeapTypeOK
<1>2. /\ heap' \in Seq(Buffers) /\ Len(heap') = Len(heap)
      /\ DOMAIN heap' = DOMAIN heap
      /\ \A i \in DOMAIN heap : DOMAIN heap'[i] = DOMAIN heap[i]
  BY <1>1, StoreKeepsSizes
<1>3. b \in DOMAIN heap
  BY <1>1
<1>4. AccessesInBounds'
  <2> SUFFICES ASSUME NEW cell \in touched'
               PROVE  cell[1] \in DOMAIN heap' /\ cell[2] + 1 \in DOMAIN heap'[cell[1]]
    BY DEF AccessesInBounds
  <2>1. cell[1] \in DOMAIN heap /\ cell[2] + 1 \in DOMAIN heap[cell[1]]
    BY <1>3
  <2> QED
    BY <1>2, <2>1
<1> QED
  BY <1>2, <1>4

(* Before the first step nothing has been allocated or touched.             *)
LEMMA InitEstablishes == ArrayInit => IInv
<1> SUFFICES ASSUME ArrayInit PROVE IInv
  OBVIOUS
<1>1. source \in Source /\ pc = "build"
  BY DEF ArrayInit, Init
<1> QED
  BY <1>1 DEF ArrayInit, IInv, Accepting, HeapTypeOK, PhasesInOrder,
              BuffersAreThere, AccessesInBounds

(* The steps in which the array is filled.                                  *)
LEMMA FillingPreserves ==
  ASSUME TypeOK, IInv, RangeStep \/ AllocateArray \/ StoreElement
  PROVE  IInv'
<1>1. /\ Length \in Int /\ index \in Nat /\ counter \in Int
      /\ pc # "done" => at = "range"
      /\ heap \in Seq(Buffers) /\ turn \in Nat /\ Accepting
  BY ShapeIsNumbers DEF IInv, TypeOK, Int64, MinInt, HeapTypeOK, PhasesInOrder
<1>2. CASE RangeStep
  <2>1. /\ source' = source /\ UNCHANGED arrayVars
        /\ pc # "done" /\ pc' # "build"
        /\ source.use # "for" => (pc' \in {"loop", "done"} => pc = "loop")
    BY <1>2 DEF RangeStep, BuildRange, Trap, Turn, Leave
  <2>2. Accepting' /\ Length' = Length
    BY <1>1, <2>1, ShapeIsKept DEF arrayVars
  <2>3. HeapTypeOK' /\ AccessesInBounds'
    BY <2>1 DEF IInv, HeapTypeOK, AccessesInBounds, arrayVars
  <2>4. at' = "range"
    BY <1>1, <2>1 DEF arrayVars
  <2>5. BuffersAreThere'
    BY <2>1, <2>2, <2>4 DEF IInv, BuffersAreThere, arrayVars
  <2> QED
    BY <2>1, <2>2, <2>3, <2>4, <2>5 DEF IInv, PhasesInOrder
<1>3. CASE AllocateArray
  <2>1. /\ source' = source /\ code' = code /\ at' = "range" /\ turn' = turn
        /\ heap' = <<NewBuffer(Length)>> /\ touched' = touched
        /\ pc = "build" /\ pc' = "loop"
    BY <1>1, <1>3 DEF AllocateArray, BuildRange
  <2>2. Accepting' /\ Length' = Length
    BY <1>1, <2>1, ShapeIsKept
  <2>3. NewBuffer(Length) \in Buffers /\ DOMAIN NewBuffer(Length) = 1..Length
    BY <1>1, NewIsBuffer
  <2>4. heap' \in Seq(Buffers) /\ Len(heap') = 1 /\ DOMAIN heap'[1] = 1..Length
    BY <2>1, <2>3
  <2>5. touched = {}
    BY <2>1 DEF IInv, PhasesInOrder
  <2>6. HeapTypeOK' /\ BuffersAreThere' /\ AccessesInBounds'
    BY <1>1, <2>1, <2>2, <2>4, <2>5
    DEF HeapTypeOK, BuffersAreThere, AccessesInBounds
  <2> QED
    BY <2>1, <2>2, <2>6 DEF IInv, PhasesInOrder
<1>4. CASE StoreElement
  <2>1. /\ source' = source /\ code' = code /\ at' = at /\ turn' = turn
        /\ pc = "loop" /\ pc' = pc /\ source.use # "for" /\ index < Length
        /\ heap' = Stored(1, index, counter) /\ touched' = {<<1, index>>}
    BY <1>4 DEF StoreElement, Fill, Collect, Goes, Length
  <2>2. Len(heap) >= 1 /\ DOMAIN heap[1] = 1..Length
    BY <2>1 DEF IInv, BuffersAreThere
  <2>3. 1 \in 1..Len(heap) /\ index + 1 \in DOMAIN heap[1]
    BY <1>1, <2>1, <2>2
  <2>4. /\ heap' \in Seq(Buffers) /\ Len(heap') = Len(heap)
        /\ \A i \in DOMAIN heap : DOMAIN heap'[i] = DOMAIN heap[i]
        /\ AccessesInBounds'
    BY <1>1, <2>1, <2>3, StoreIsSafe
  <2>5. BuffersAreThere'
    BY <2>1, <2>4, SizesKept DEF IInv
  <2>6. Accepting' /\ HeapTypeOK'
    BY <1>1, <2>1, <2>4, ShapeIsKept DEF HeapTypeOK
  <2> QED
    BY <1>1, <2>1, <2>4, <2>5, <2>6 DEF IInv, PhasesInOrder
<1> QED
  BY <1>2, <1>3, <1>4

(* The steps in which a second array or a matrix is made.                   *)
LEMMA AllocationPreserves ==
  ASSUME IInv, NEW new \in Buffers, heap' = Append(heap, new),
         UNCHANGED <<vars, code, touched>>
  PROVE  /\ Accepting' /\ heap' \in Seq(Buffers) /\ AccessesInBounds'
         /\ Len(heap') = Len(heap) + 1 /\ heap'[Len(heap')] = new
         /\ \A i \in 1..Len(heap) : heap'[i] = heap[i]
<1>1. heap \in Seq(Buffers) /\ Len(heap) \in Nat /\ DOMAIN heap = 1..Len(heap)
  BY DEF IInv, HeapTypeOK
<1>2. /\ heap' \in Seq(Buffers) /\ Len(heap') = Len(heap) + 1
      /\ heap'[Len(heap')] = new
      /\ \A i \in 1..Len(heap) : heap'[i] = heap[i]
  BY <1>1, AllocationKeepsBuffers
<1>3. DOMAIN heap' = 1..Len(heap) + 1
  BY <1>2
<1>4. AccessesInBounds'
  <2> SUFFICES ASSUME NEW cell \in touched
               PROVE  cell[1] \in DOMAIN heap' /\ cell[2] + 1 \in DOMAIN heap'[cell[1]]
    BY DEF AccessesInBounds
  <2>1. cell[1] \in 1..Len(heap) /\ cell[2] + 1 \in DOMAIN heap[cell[1]]
    BY <1>1 DEF IInv, AccessesInBounds
  <2> QED
    BY <1>1, <1>2, <1>3, <2>1
<1>5. Accepting'
  BY ShapeIsKept DEF IInv, vars
<1> QED
  BY <1>2, <1>4, <1>5

(* Allocating the second buffer and storing its elements stay inside it.    *)
LEMMA MakingPreserves ==
  ASSUME IInv,
         \/ AllocateLiteral \/ StoreLiteral \/ AllocateIdentity
         \/ StoreDiagonal \/ FinishMaking
  PROVE  IInv'
<1> DEFINE total == RowCount * ColCount
<1>1. /\ Length \in Int /\ RowCount \in Nat /\ ColCount \in Int /\ total \in Int
      /\ heap \in Seq(Buffers) /\ Len(heap) \in Nat /\ turn \in Nat
      /\ Accepting
  BY ShapeIsNumbers DEF IInv, HeapTypeOK
<1>2. pc = "done" /\ pc' = pc /\ source' = source /\ code' = code
      /\ code.make # "nothing"
  BY DEF IInv, PhasesInOrder, AllocateLiteral, StoreLiteral, AllocateIdentity,
         StoreDiagonal, FinishMaking, vars
<1>3. source.use # "for" /\ Operand = 2
  BY <1>1, <1>2 DEF Accepting, CodeAccepted, Operand
<1>4. /\ Length' = Length /\ RowCount' = RowCount /\ ColCount' = ColCount
      /\ Accepting'
  BY <1>1, <1>2, ShapeIsKept
<1>5. Len(heap) >= 1 /\ DOMAIN heap[1] = 1..Length
  BY <1>2, <1>3 DEF IInv, BuffersAreThere
<1>6. CASE AllocateLiteral \/ AllocateIdentity
  <2>1. /\ at = "range" /\ at' = "making" /\ turn' = 0
        /\ UNCHANGED <<vars, code, touched>>
        /\ \/ heap' = Append(heap, NewBuffer(total))
           \/ heap' = Append(heap, Zeros(total))
    BY <1>6 DEF AllocateLiteral, AllocateIdentity
  <2>2. Len(heap) = 1
    BY <1>2, <1>3, <2>1 DEF IInv, BuffersAreThere
  <2>3. PICK new \in Buffers : heap' = Append(heap, new) /\ DOMAIN new = 1..total
    BY <1>1, <2>1, NewIsBuffer
  <2>4. /\ heap' \in Seq(Buffers) /\ AccessesInBounds'
        /\ Len(heap') = 2 /\ heap'[2] = new /\ heap'[1] = heap[1]
    BY <1>5, <2>1, <2>2, <2>3, AllocationPreserves
  <2>5. BuffersAreThere'
    BY <1>4, <1>5, <2>1, <2>3, <2>4 DEF BuffersAreThere
  <2> QED
    BY <1>2, <1>4, <2>1, <2>4, <2>5 DEF IInv, HeapTypeOK, PhasesInOrder
<1>7. CASE StoreLiteral
  <2> DEFINE offset == ((turn \div ColCount) * ColCount) + (turn % ColCount)
  <2>1. /\ at = "making" /\ at' = at /\ turn < total /\ turn' = turn + 1
        /\ code.make \in {"array", "matrix"}
        /\ heap' = Stored(2, offset, Loaded(1, turn))
        /\ touched' = {<<1, turn>>, <<2, offset>>}
    BY <1>7 DEF StoreLiteral
  <2>2. Len(heap) >= 2 /\ DOMAIN heap[2] = 1..total
    BY <1>2, <2>1 DEF IInv, BuffersAreThere
  <2>3. ColCount \in Nat /\ total <= Length
    <3>1. code \in Codes /\ MakingOk(source, code)
      BY <1>1, ShapeIsNumbers
    <3>2. code.rows \in Nat /\ code.cols \in Nat
      BY <3>1 DEF Codes
    <3>3. ColCount = code.cols
      BY <1>2 DEF ColCount, Cols
    <3>4. CASE code.make = "array"
      BY <1>1, <3>2, <3>3, <3>4, ShapeIsNumbers
    <3>5. CASE code.make = "matrix"
      <4>1. RowCount = code.rows
        BY <3>5 DEF RowCount, Rows, IsMatrix
      <4>2. code.rows * code.cols <= LiteralRangeLength(source)
        BY <3>1, <3>5 DEF MakingOk
      <4> QED
        BY <3>2, <3>3, <4>1, <4>2 DEF Length
    <3> QED
      BY <2>1, <3>4, <3>5
  <2>4. offset \in 0..total - 1
    <3>1. turn \div ColCount \in 0..RowCount - 1 /\ turn % ColCount \in 0..ColCount - 1
      BY <1>1, <2>1, <2>3, CounterIsApart
    <3> QED
      BY <1>1, <3>1, FlatIsInside
  <2> HIDE DEF offset
  <2>5. offset \in Nat /\ offset + 1 \in DOMAIN heap[2] /\ 2 \in 1..Len(heap)
    BY <1>1, <2>2, <2>4
  <2>6. /\ 1 \in DOMAIN heap /\ turn + 1 \in DOMAIN heap[1]
        /\ Loaded(1, turn) \in Int
    <3>1. 1 \in DOMAIN heap /\ 1 \in 1..Len(heap)
      BY <1>1, <1>5
    <3>2. turn + 1 \in 1..Length
      BY <1>1, <2>1, <2>3
    <3>3. Loaded(1, turn) \in Int
      BY <1>1, <3>1, CellsAreNumbers
    <3> QED
      BY <1>5, <3>1, <3>2, <3>3
  <2>7. /\ heap' \in Seq(Buffers) /\ Len(heap') = Len(heap)
        /\ \A i \in DOMAIN heap : DOMAIN heap'[i] = DOMAIN heap[i]
        /\ AccessesInBounds'
    <3>1. \A cell \in touched' :
             cell = <<2, offset>> \/ (cell[1] \in DOMAIN heap
                                      /\ cell[2] + 1 \in DOMAIN heap[cell[1]])
      BY <2>1, <2>6
    <3> QED
      BY <1>2, <2>1, <2>5, <2>6, <3>1, StoreIsSafe
  <2>8. BuffersAreThere'
    BY <1>2, <2>1, <2>7, SizesKept DEF IInv
  <2> QED
    BY <1>1, <1>2, <1>4, <2>1, <2>7, <2>8 DEF IInv, HeapTypeOK, PhasesInOrder
<1>8. CASE StoreDiagonal
  <2> DEFINE offset == (turn * ColCount) + turn
  <2>1. /\ at = "making" /\ at' = at /\ turn < RowCount /\ turn' = turn + 1
        /\ code.make = "identity"
        /\ heap' = Stored(2, offset, 1) /\ touched' = {<<2, offset>>}
    BY <1>8 DEF StoreDiagonal
  <2>2. Len(heap) >= 2 /\ DOMAIN heap[2] = 1..total
    BY <1>2, <2>1 DEF IInv, BuffersAreThere
  <2>3. RowCount = ColCount
    BY <1>1, <2>1, ShapeIsNumbers DEF MakingOk, IsMatrix
  <2>4. offset \in 0..total - 1
    BY <1>1, <2>1, <2>3, FlatIsInside
  <2> HIDE DEF offset
  <2>5. offset \in Nat /\ offset + 1 \in DOMAIN heap[2] /\ 2 \in 1..Len(heap)
    BY <1>1, <2>2, <2>4
  <2>6. /\ heap' \in Seq(Buffers) /\ Len(heap') = Len(heap)
        /\ \A i \in DOMAIN heap : DOMAIN heap'[i] = DOMAIN heap[i]
        /\ AccessesInBounds'
    <3>1. \A cell \in touched' : cell = <<2, offset>>
      BY <2>1
    <3> QED
      BY <1>2, <2>1, <2>5, <3>1, StoreIsSafe
  <2>7. BuffersAreThere'
    BY <1>2, <2>1, <2>6, SizesKept DEF IInv
  <2> QED
    BY <1>1, <1>2, <1>4, <2>1, <2>6, <2>7 DEF IInv, HeapTypeOK, PhasesInOrder
<1>9. CASE FinishMaking
  <2>1. /\ at = "making" /\ at' = "made"
        /\ UNCHANGED <<vars, code, heap, turn, touched>>
    BY <1>9 DEF FinishMaking
  <2>2. BuffersAreThere'
    BY <1>4, <2>1 DEF IInv, BuffersAreThere, vars
  <2> QED
    BY <1>1, <1>2, <2>1, <2>2, QuietSteps DEF IInv, PhasesInOrder
<1> QED
  BY <1>6, <1>7, <1>8, <1>9

(* The operations.                                                          *)
LEMMA OperationPreserves ==
  ASSUME IInv,
         \/ TrapIndex \/ ReadElement \/ AssignElement \/ AllocatePart
         \/ StartFill \/ StartWalk
  PROVE  IInv'
<1> DEFINE total == RowCount * ColCount
<1>1. /\ RowCount \in Nat /\ ColCount \in Int /\ total \in Int
      /\ heap \in Seq(Buffers) /\ Len(heap) \in Nat /\ turn \in Nat
      /\ Accepting
  BY ShapeIsNumbers DEF IInv, HeapTypeOK
<1>2. /\ pc = "done" /\ pc' = pc /\ source' = source /\ code' = code
      /\ UNCHANGED vars
      /\ code.do # "nothing"
      /\ at = IF code.make = "nothing" THEN "range" ELSE "made"
  BY DEF TrapIndex, ReadElement, AssignElement, AllocatePart, StartFill,
         StartWalk, Begins, vars
<1>3. /\ Length' = Length /\ RowCount' = RowCount /\ ColCount' = ColCount
      /\ Operand' = Operand /\ PartRows' = PartRows /\ PartCols' = PartCols
      /\ Elementwise(code)' = Elementwise(code) /\ CheckFails' = CheckFails
      /\ Accepting'
  BY <1>1, <1>2, ShapeIsKept
<1>4. Operand \in 1..Len(heap) /\ DOMAIN heap[Operand] = 1..total
  BY <1>1, <1>2, OperandIsThere DEF IInv
<1>5. ASSUME at' # "range", at' # "making", at' # "turning",
             heap' \in Seq(Buffers), Len(heap') = Len(heap),
             \A i \in DOMAIN heap : DOMAIN heap'[i] = DOMAIN heap[i]
      PROVE  BuffersAreThere' /\ PhasesInOrder'
  <2>1. /\ Len(heap) >= 1 => DOMAIN heap'[1] = DOMAIN heap[1]
        /\ Len(heap) >= 2 => DOMAIN heap'[2] = DOMAIN heap[2]
    BY <1>1, <1>5
  <2> QED
    BY <1>2, <1>3, <1>5, <2>1 DEF IInv, BuffersAreThere, PhasesInOrder
<1>6. CASE TrapIndex
  <2>1. at' = "trapped" /\ UNCHANGED <<vars, code, heap, turn, touched>>
    BY <1>6 DEF TrapIndex
  <2> QED
    BY <1>1, <1>5, <2>1, QuietSteps DEF IInv
<1>7. CASE ReadElement
  <2>1. /\ at' = "finished" /\ heap' = heap /\ turn' = turn
        /\ touched' = {<<Operand, ElementOffset>>}
        /\ Elementwise(code) /\ ~CheckFails
    BY <1>7 DEF ReadElement
  <2>2. ElementOffset \in 0..total - 1
    BY <1>1, <2>1, ElementIsInside
  <2>3. AccessesInBounds'
    BY <1>1, <1>4, <2>1, <2>2 DEF AccessesInBounds
  <2> QED
    BY <1>1, <1>3, <1>5, <2>1, <2>3 DEF IInv, HeapTypeOK
<1>8. CASE AssignElement
  <2> DEFINE o == ElementOffset
             v == IF code.do = "add" THEN Wrap(Loaded(Operand, o) + Value) ELSE Value
  <2>1. /\ at' = "finished" /\ turn' = turn /\ touched' = {<<Operand, o>>}
        /\ heap' = Stored(Operand, o, v)
        /\ Elementwise(code) /\ ~CheckFails
    BY <1>8 DEF AssignElement
  <2>2. o \in 0..total - 1
    BY <1>1, <2>1, ElementIsInside
  <2>3. v \in Int
    <3>1. Loaded(Operand, o) \in Int
      BY <1>1, <1>4, <2>2, CellsAreNumbers
    <3> QED
      BY <3>1, WrapIsInt DEF Value
  <2> HIDE DEF o, v
  <2>4. o \in Nat /\ o + 1 \in DOMAIN heap[Operand]
    BY <1>1, <1>4, <2>2
  <2>5. \A cell \in touched' : cell = <<Operand, o>>
    BY <2>1
  <2>6. /\ heap' \in Seq(Buffers) /\ Len(heap') = Len(heap)
        /\ \A i \in DOMAIN heap : DOMAIN heap'[i] = DOMAIN heap[i]
        /\ AccessesInBounds'
    BY <1>2, <1>4, <2>1, <2>3, <2>4, <2>5, StoreIsSafe
  <2> QED
    BY <1>1, <1>3, <1>5, <2>1, <2>6 DEF IInv, HeapTypeOK
<1>9. CASE AllocatePart
  <2>1. /\ at' = "turning" /\ turn' = 0 /\ UNCHANGED <<vars, code, touched>>
        /\ heap' = Append(heap, NewBuffer(PartRows * PartCols))
        /\ code.do = "read" /\ ~Elementwise(code) /\ ~CheckFails
    BY <1>9 DEF AllocatePart, Begins
  <2>2. PartRows * PartCols \in Int
    BY <1>1, <2>1, PartIsInside
  <2> DEFINE size == PartRows * PartCols
             new == NewBuffer(size)
  <2>3. new \in Buffers /\ DOMAIN new = 1..size
    BY <2>2, NewIsBuffer
  <2>4. heap' = Append(heap, new)
    BY <2>1
  <2> HIDE DEF new
  <2>5. /\ heap' \in Seq(Buffers) /\ AccessesInBounds'
        /\ Len(heap') = Len(heap) + 1 /\ heap'[Len(heap')] = new
        /\ \A i \in 1..Len(heap) : heap'[i] = heap[i]
    BY <2>1, <2>3, <2>4, AllocationPreserves
  <2>6. Len(heap') > Operand
    BY <1>1, <1>4, <2>5
  <2>7. /\ Len(heap) >= 1 => heap'[1] = heap[1]
        /\ Len(heap) >= 2 => heap'[2] = heap[2]
    BY <1>1, <2>5
  <2>8. BuffersAreThere'
    BY <1>1, <1>2, <1>3, <2>1, <2>3, <2>5, <2>6, <2>7 DEF IInv, BuffersAreThere
  <2> QED
    BY <1>2, <1>3, <2>1, <2>5, <2>8 DEF IInv, HeapTypeOK, PhasesInOrder
<1>10. CASE StartFill \/ StartWalk
  <2>1. /\ at' = "turning" /\ turn' = 0 /\ UNCHANGED <<vars, code, heap, touched>>
        /\ code.do # "read"
        /\ code.do \in {"assign", "add"} => ~Elementwise(code)
    BY <1>10 DEF StartFill, StartWalk, Begins
  <2>2. code.do \in {"assign", "add"} => ~CheckFails
    <3>1. SUFFICES ASSUME code.do \in {"assign", "add"} PROVE ~CheckFails
      OBVIOUS
    <3>2. ~Elementwise(code) /\ OperationOk(source, code)
      BY <1>1, <2>1, <3>1, ShapeIsNumbers
    <3>3. ~IsMatrix(code) /\ code.col.form # "index"
      BY <3>1, <3>2 DEF OperationOk, Elementwise
    <3> QED
      BY <3>2, <3>3 DEF CheckFails
  <2>3. Accepting' /\ HeapTypeOK' /\ AccessesInBounds'
    BY <2>1, QuietSteps
  <2>4. BuffersAreThere'
    BY <1>2, <1>3, <2>1 DEF IInv, BuffersAreThere
  <2>5. PhasesInOrder'
    BY <1>2, <1>3, <2>1, <2>2 DEF PhasesInOrder
  <2> QED
    BY <2>3, <2>4, <2>5 DEF IInv
<1> QED
  BY <1>6, <1>7, <1>8, <1>9, <1>10

(* The turns of the loops.                                                  *)
LEMMA TurnPreserves ==
  ASSUME IInv, CopyCell \/ FillCell \/ WalkCell \/ Finish
  PROVE  IInv'
<1> DEFINE total == RowCount * ColCount
<1>1. /\ RowCount \in Nat /\ ColCount \in Int /\ total \in Int
      /\ heap \in Seq(Buffers) /\ Len(heap) \in Nat /\ turn \in Nat
      /\ Accepting /\ BuffersAreThere /\ HeapTypeOK
  BY ShapeIsNumbers DEF IInv, HeapTypeOK
<1>2. /\ at = "turning" /\ code.do # "nothing" /\ pc = "done"
      /\ UNCHANGED <<vars, code>>
  BY DEF CopyCell, FillCell, WalkCell, Finish, IInv, PhasesInOrder
<1>3. source' = source /\ code' = code /\ pc' = pc
  BY <1>2 DEF vars
<1>4. /\ Length' = Length /\ RowCount' = RowCount /\ ColCount' = ColCount
      /\ Elementwise(code)' = Elementwise(code) /\ CheckFails' = CheckFails
      /\ Accepting'
  BY <1>1, <1>3, ShapeIsKept
<1>5. Operand \in 1..Len(heap) /\ DOMAIN heap[Operand] = 1..total
  BY <1>1, <1>2, OperandIsThere
<1>6. code.do \in {"read", "assign", "add"} => ~Elementwise(code) /\ ~CheckFails
  BY <1>2 DEF IInv, PhasesInOrder
<1>7. CASE CopyCell
  <2> DEFINE from == PartOffset(turn)
             to == Len(heap)
             v == Loaded(Operand, from)
  <2>1. /\ code.do = "read" /\ turn < PartRows * PartCols /\ at' = at
        /\ turn' = turn + 1
        /\ heap' = Stored(to, turn, v)
        /\ touched' = {<<Operand, from>>, <<to, turn>>}
    BY <1>7 DEF CopyCell
  <2>2. /\ PartRows * PartCols \in Int
        /\ from \in 0..total - 1
    BY <1>1, <1>6, <2>1, PartIsInside
  <2>3. DOMAIN heap[to] = 1..PartRows * PartCols /\ to \in 1..Len(heap)
    BY <1>1, <1>2, <1>5, <2>1 DEF BuffersAreThere
  <2>4. v \in Int
    BY <1>1, <1>5, <2>2, CellsAreNumbers
  <2> HIDE DEF from, to, v
  <2>5. turn + 1 \in DOMAIN heap[to]
    BY <1>1, <2>1, <2>2, <2>3
  <2>6. Operand \in DOMAIN heap /\ from + 1 \in DOMAIN heap[Operand]
    BY <1>1, <1>5, <2>2
  <2>7. \A cell \in touched' :
           cell = <<to, turn>> \/ (cell[1] \in DOMAIN heap
                                   /\ cell[2] + 1 \in DOMAIN heap[cell[1]])
    BY <2>1, <2>6
  <2>8. /\ heap' \in Seq(Buffers) /\ Len(heap') = Len(heap)
        /\ \A i \in DOMAIN heap : DOMAIN heap'[i] = DOMAIN heap[i]
        /\ AccessesInBounds'
    BY <1>1, <1>3, <2>1, <2>3, <2>4, <2>5, <2>7, StoreIsSafe
  <2>9. BuffersAreThere'
    BY <1>1, <1>3, <2>1, <2>8, SizesKept
  <2> QED
    BY <1>1, <1>2, <1>3, <1>4, <1>6, <2>1, <2>8, <2>9
    DEF IInv, HeapTypeOK, PhasesInOrder
<1>8. CASE FillCell
  <2> DEFINE o == SliceOffset(turn)
  <2>1. /\ code.do \in {"assign", "add"} /\ turn < PartCols /\ at' = at
        /\ turn' = turn + 1
        /\ heap' = Stored(Operand, o, Value) /\ touched' = {<<Operand, o>>}
    BY <1>8 DEF FillCell
  <2>2. o \in 0..total - 1
    BY <1>1, <1>6, <2>1, FillIsInside
  <2> HIDE DEF o
  <2>3. o \in Nat /\ o + 1 \in DOMAIN heap[Operand]
    BY <1>1, <1>5, <2>2
  <2>4. \A cell \in touched' : cell = <<Operand, o>>
    BY <2>1
  <2>5. Value \in Int
    BY DEF Value
  <2>6. /\ heap' \in Seq(Buffers) /\ Len(heap') = Len(heap)
        /\ \A i \in DOMAIN heap : DOMAIN heap'[i] = DOMAIN heap[i]
        /\ AccessesInBounds'
    BY <1>3, <1>5, <2>1, <2>3, <2>4, <2>5, StoreIsSafe
  <2>7. BuffersAreThere'
    BY <1>1, <1>3, <2>1, <2>6, SizesKept
  <2> QED
    BY <1>1, <1>2, <1>3, <1>4, <1>6, <2>1, <2>6, <2>7
    DEF IInv, HeapTypeOK, PhasesInOrder
<1>9. CASE WalkCell
  <2>1. /\ turn < total /\ at' = at /\ turn' = turn + 1 /\ heap' = heap
        /\ touched' = {<<Operand, turn>>}
    BY <1>9 DEF WalkCell
  <2>2. AccessesInBounds'
    BY <1>1, <1>5, <2>1 DEF AccessesInBounds
  <2>3. BuffersAreThere'
    BY <1>1, <1>3, <2>1, SizesKept
  <2> QED
    BY <1>1, <1>2, <1>3, <1>4, <1>6, <2>1, <2>2, <2>3
    DEF IInv, HeapTypeOK, PhasesInOrder
<1>10. CASE Finish
  <2>1. at' = "finished" /\ UNCHANGED <<vars, code, heap, turn, touched>>
    BY <1>10 DEF Finish
  <2>2. BuffersAreThere'
    BY <1>1, <1>2, <1>3, <1>4, <2>1 DEF BuffersAreThere
  <2> QED
    BY <1>1, <1>2, <1>3, <2>1, <2>2, QuietSteps DEF IInv, PhasesInOrder
<1> QED
  BY <1>7, <1>8, <1>9, <1>10

(* Every step of the generated code keeps the invariant.                    *)
LEMMA StepPreserves ==
  ASSUME TypeOK, IInv, [ArrayNext]_<<vars, arrayVars>>
  PROVE  IInv'
<1>1. CASE UNCHANGED <<vars, arrayVars>>
  <2>1. source' = source /\ code' = code /\ pc' = pc /\ at' = at
        /\ heap' = heap /\ turn' = turn /\ touched' = touched
    BY <1>1 DEF vars, arrayVars
  <2>2. /\ Elementwise(code)' = Elementwise(code) /\ CheckFails' = CheckFails
        /\ Accepting'
    BY <2>1, ShapeIsKept DEF IInv
  <2>3. BuffersAreThere'
    BY <2>1, SizesKept DEF IInv
  <2> QED
    BY <2>1, <2>2, <2>3 DEF IInv, HeapTypeOK, PhasesInOrder, AccessesInBounds
<1> QED
  BY <1>1, FillingPreserves, MakingPreserves, OperationPreserves, TurnPreserves
  DEF ArrayNext

-----------------------------------------------------------------------------
(* The theorems.                                                            *)

(* Whatever arrays a program builds and however it selects of them, no step *)
(* of its code reads or writes outside of a buffer: the checks of sema, on  *)
(* literals and slices, and of the generated code, on the other indices,    *)
(* are enough between them.                                                 *)
THEOREM NoAccessOutside == ArraySpec => []AccessesInBounds
<1>1. ArrayInit => IInv
  BY InitEstablishes
<1>2. TypeOK /\ IInv /\ [ArrayNext]_<<vars, arrayVars>> => IInv'
  BY StepPreserves
<1>3. IInv => AccessesInBounds
  BY DEF IInv
<1> QED
  BY <1>1, <1>2, <1>3, ImplementsRanges, TypeCorrect, PTL DEF ArraySpec

-----------------------------------------------------------------------------
(* Which indices trap.  How an operation ends is what its bounds checks say,*)
(* and they say what the indices are, for lengths of every size.            *)
Selecting == code.do \in {"read", "assign", "add"}
EndsAsChecked ==
  /\ at = "trapped" => Selecting /\ CheckFails
  /\ at = "finished" /\ Selecting => ~CheckFails

(* Every step of the generated code keeps this.                             *)
LEMMA OutcomeIsKept ==
  ASSUME IInv, EndsAsChecked, [ArrayNext]_<<vars, arrayVars>>
  PROVE  EndsAsChecked'
<1>1. CASE UNCHANGED <<vars, arrayVars>>
  <2>1. source' = source /\ code' = code /\ at' = at
    BY <1>1 DEF vars, arrayVars
  <2>2. CheckFails' = CheckFails
    BY <2>1, ShapeIsKept
  <2> QED
    BY <2>1, <2>2 DEF EndsAsChecked, Selecting
<1>2. CASE RangeStep
  <2>1. code' = code /\ at' = at /\ source' = source
    BY <1>2 DEF RangeStep, arrayVars, BuildRange, Trap, Turn, Leave
  <2>2. CheckFails' = CheckFails
    BY <2>1, ShapeIsKept
  <2> QED
    BY <2>1, <2>2 DEF EndsAsChecked, Selecting
<1>3. CASE \/ AllocateArray \/ StoreElement \/ AllocateLiteral \/ StoreLiteral
           \/ AllocateIdentity \/ StoreDiagonal \/ FinishMaking
  <2>1. source' = source /\ code' = code
    BY <1>3 DEF AllocateArray, BuildRange, StoreElement, Fill, Collect,
                AllocateLiteral, StoreLiteral, AllocateIdentity, StoreDiagonal,
                FinishMaking, vars
  <2>2. at' = at \/ at' \in {"making", "made"}
    BY <1>3 DEF AllocateArray, StoreElement, AllocateLiteral, StoreLiteral,
                AllocateIdentity, StoreDiagonal, FinishMaking
  <2>3. CheckFails' = CheckFails
    BY <2>1, ShapeIsKept
  <2> QED
    BY <2>1, <2>2, <2>3 DEF EndsAsChecked, Selecting
<1>4. CASE TrapIndex \/ ReadElement \/ AssignElement
  <2>1. source' = source /\ code' = code /\ Selecting
    BY <1>4 DEF TrapIndex, ReadElement, AssignElement, Begins, Selecting, vars
  <2>2. \/ at' = "trapped" /\ CheckFails
        \/ at' = "finished" /\ ~CheckFails
    BY <1>4 DEF TrapIndex, ReadElement, AssignElement
  <2>3. CheckFails' = CheckFails
    BY <2>1, ShapeIsKept
  <2> QED
    BY <2>1, <2>2, <2>3 DEF EndsAsChecked, Selecting
<1>5. CASE AllocatePart \/ CopyCell \/ StartFill \/ FillCell \/ StartWalk \/ WalkCell
  <2>1. source' = source /\ code' = code /\ at' = "turning"
    BY <1>5 DEF AllocatePart, CopyCell, StartFill, FillCell, StartWalk, WalkCell,
                vars
  <2> QED
    BY <2>1 DEF EndsAsChecked
<1>6. CASE Finish
  <2>1. source' = source /\ code' = code /\ at = "turning" /\ at' = "finished"
    BY <1>6 DEF Finish, vars
  <2>2. Selecting => ~CheckFails
    BY <2>1 DEF IInv, PhasesInOrder, Selecting
  <2>3. CheckFails' = CheckFails
    BY <2>1, ShapeIsKept
  <2> QED
    BY <2>1, <2>2, <2>3 DEF EndsAsChecked, Selecting
<1> QED
  BY <1>1, <1>2, <1>3, <1>4, <1>5, <1>6 DEF ArrayNext

(* The outcome of every run.                                                *)
LEMMA OutcomeIsChecked == ArraySpec => [](IInv /\ EndsAsChecked)
<1>1. ArrayInit => IInv /\ EndsAsChecked
  BY InitEstablishes DEF ArrayInit, EndsAsChecked
<1>2. TypeOK /\ IInv /\ EndsAsChecked /\ [ArrayNext]_<<vars, arrayVars>>
        => (IInv /\ EndsAsChecked)'
  BY StepPreserves, OutcomeIsKept
<1> QED
  BY <1>1, <1>2, ImplementsRanges, TypeCorrect, PTL DEF ArraySpec

(* The two comparisons of a check: with counting from the end, and without, *)
(* where no index counts from there.                                        *)
LEMMA OutsideIsUnreachable ==
  ASSUME NEW i \in Int, NEW n \in Int
  PROVE  /\ Outside(Normalized(i, n), n) <=> i \notin Reachable(n)
         /\ i \notin -n..-1 => (Outside(i, n) <=> i \notin Reachable(n))
BY DEF Outside, Normalized, Reachable

(* The checks of an operation fail when one of its indices is out of reach. *)
LEMMA FailingIsUnreachable ==
  ASSUME Accepting, ~CountsFromEndOfSlice
  PROVE  CheckFails <=>
           \/ OutOfReach(code.col, ColCount)
           \/ IsMatrix(code) /\ OutOfReach(code.row, RowCount)
<1>1. /\ code.row \in Selectors /\ code.col \in Selectors
      /\ RowCount \in Int /\ ColCount \in Int
  BY ShapeIsNumbers
<1>2. code.row.start \in Int /\ code.col.start \in Int
  BY <1>1 DEF Selectors
<1>3. CASE Elementwise(code)
  <2>1. code.col.form = "index" /\ (IsMatrix(code) => code.row.form = "index")
    BY <1>3 DEF Elementwise
  <2> QED
    BY <1>1, <1>2, <1>3, <2>1, OutsideIsUnreachable DEF CheckFails, OutOfReach
<1>4. CASE ~Elementwise(code)
  <2>1. /\ code.col.form = "index" => IsMatrix(code)
        /\ IsMatrix(code) /\ code.col.form = "index" =>
             code.col.start \notin -ColCount..-1
        /\ IsMatrix(code) /\ code.row.form = "index" =>
             code.row.start \notin -RowCount..-1
    BY <1>4 DEF CountsFromEndOfSlice, Elementwise
  <2>2. /\ code.col.form = "index" =>
             (Outside(code.col.start, ColCount)
                <=> code.col.start \notin Reachable(ColCount))
        /\ IsMatrix(code) /\ code.row.form = "index" =>
             (Outside(code.row.start, RowCount)
                <=> code.row.start \notin Reachable(RowCount))
    BY <1>1, <1>2, <2>1, OutsideIsUnreachable
  <2> QED
    BY <1>4, <2>2 DEF CheckFails, OutOfReach
<1> QED
  BY <1>3, <1>4

(* In an array or a matrix of every size, a runtime error comes exactly     *)
(* when an index is out of reach, from the front and from the end; unless   *)
(* it is the row or the column of a slice, counted from the end.            *)
THEOREM ErrorsAreExact == ArraySpec => []IndexErrorsAreExact
<1>1. IInv /\ EndsAsChecked => IndexErrorsAreExact
  BY FailingIsUnreachable DEF IInv, EndsAsChecked, Selecting, IndexErrorsAreExact
<1> QED
  BY <1>1, OutcomeIsChecked, PTL

(* A literal that sema lets pass is within reach.                           *)
LEMMA AcceptedIsReachable ==
  ASSUME NEW selector \in Selectors, NEW n \in Int, SelectorOk(selector, n),
         OutOfReach(selector, n)
  PROVE  ~selector.literal
<1>1. /\ selector.form = "index" /\ selector.start \notin Reachable(n)
      /\ selector.start \in Int
  BY DEF OutOfReach, Selectors
<1>2. Outside(Normalized(selector.start, n), n)
  BY <1>1, OutsideIsUnreachable
<1> QED
  BY <1>1, <1>2 DEF SelectorOk, LiteralIndexOk

(* The generated code never stops at a literal index that sema has let      *)
(* pass, of an element, of a row slice or of a column slice; unless it is   *)
(* the row or the column of a slice, counted from the end.                  *)
THEOREM LiteralsAreSafe == ArraySpec => []LiteralIndicesNeverTrap
<1>1. ASSUME IInv, EndsAsChecked, at = "trapped", ~CountsFromEndOfSlice
      PROVE  \/ ~code.col.literal /\ OutOfReach(code.col, ColCount)
             \/ /\ IsMatrix(code) /\ ~code.row.literal
                /\ OutOfReach(code.row, RowCount)
  <2>1. Accepting /\ CheckFails /\ code.do \in {"read", "assign", "add"}
    BY <1>1 DEF IInv, EndsAsChecked, Selecting
  <2>2. /\ code.row \in Selectors /\ code.col \in Selectors
        /\ RowCount \in Int /\ ColCount \in Int
    BY <2>1, ShapeIsNumbers
  <2>3. /\ SelectorOk(code.col, ColCount)
        /\ IsMatrix(code) => SelectorOk(code.row, RowCount)
    <3>1. /\ OperationOk(source, code)
          /\ IsMatrix(code) => RowCount = code.rows /\ ColCount = code.cols
      BY <2>1, ShapeIsNumbers
    <3> QED
      BY <2>1, <3>1 DEF OperationOk, ColCount
  <2>4. \/ OutOfReach(code.col, ColCount)
        \/ IsMatrix(code) /\ OutOfReach(code.row, RowCount)
    BY <1>1, <2>1, FailingIsUnreachable
  <2> QED
    BY <2>2, <2>3, <2>4, AcceptedIsReachable
<1>2. IInv /\ EndsAsChecked => LiteralIndicesNeverTrap
  BY <1>1 DEF LiteralIndicesNeverTrap
<1> QED
  BY <1>2, OutcomeIsChecked, PTL

-----------------------------------------------------------------------------
(* What the cells of arrays and matrices hold: a selection reads the part   *)
(* it names, an assignment changes that part and nothing else, and a loop   *)
(* meets every element, for arrays and matrices of every size and shape.    *)

-----------------------------------------------------------------------------
(* The elements an array is filled with are words, so no sum that the loop  *)
(* computes them with wraps, even where the length sema counted is wrong.   *)

(* Whatever the sums of literal_range_length wrap to, a position below the  *)
(* length lies within the span of the range.                                *)
LEMMA LengthStaysWithin ==
  ASSUME NEW span \in Nat, span <= 2 * MaxInt + 1,
         NEW d \in Nat, 0 < d, d <= MaxInt + 1, NEW k \in Nat
  PROVE  /\ k < Wrap(Quotient(Wrap(span), d) + 1) => k * d <= span
         /\ span > 0 /\ k < Quotient(Wrap(Wrap(Wrap(span) + d) - 1), d) => k * d <= span
<1>1. \A n \in Nat : Quotient(n, d) = n \div d /\ n \div d \in Nat
  BY DEF Quotient, Magnitude
<1>2. ASSUME NEW n \in Int, n < 0
      PROVE  Quotient(n, d) \in Int /\ Quotient(n, d) <= 0
  <2>1. (-n) \div d \in Nat
    BY <1>2
  <2>2. Quotient(n, d) = -((-n) \div d)
    BY <1>2 DEF Quotient, Magnitude
  <2> QED
    BY <2>1, <2>2
<1>3. ASSUME k < Wrap(Quotient(Wrap(span), d) + 1)
      PROVE  k * d <= span
  <2>1. CASE span <= MaxInt
    <3>1. Wrap(span) = span
      BY <2>1 DEF Wrap, MinInt
    <3>2. k < Wrap((span \div d) + 1)
      BY <1>1, <1>3, <3>1
    <3>3. k <= span \div d
      BY <1>1, <3>2 DEF Wrap, MinInt
    <3> QED
      BY <3>3, QuotientCounts
  <2>2. CASE span > MaxInt
    <3>1. Wrap(span) \in Int /\ Wrap(span) < 0
      BY <2>2 DEF Wrap, MinInt
    <3>2. Quotient(Wrap(span), d) \in Int /\ Quotient(Wrap(span), d) <= 0
      BY <1>2, <3>1
    <3> DEFINE q == Quotient(Wrap(span), d)
    <3> HIDE DEF q
    <3>3. q \in Int /\ q <= 0 /\ k < Wrap(q + 1)
      BY <1>3, <3>2 DEF q
    <3>4. ASSUME q + 1 < MinInt
          PROVE  FALSE
      <4>1. Wrap(span) >= MinInt
        BY <2>2 DEF Wrap, MinInt
      <4>2. q >= Wrap(span)
        <5> DEFINE n == -Wrap(span)
        <5>1. n \in Nat
          BY <3>1
        <5> HIDE DEF n
        <5>2. n \div d \in Nat /\ n = d * (n \div d) + (n % d) /\ n % d \in 0 .. d - 1
          BY <5>1
        <5>3. d * (n \div d) >= n \div d
          <6> DEFINE m == n \div d
          <6>1. m \in Nat
            BY <5>2
          <6> HIDE DEF m
          <6>2. (d - 1) * m \in Nat /\ d * m = ((d - 1) * m) + m
            BY <6>1
          <6>3. d * m >= m
            BY <6>1, <6>2
          <6> QED
            BY <6>3 DEF m
        <5>4. n \div d <= n
          BY <5>1, <5>2, <5>3
        <5>5. q = -(n \div d)
          BY <3>1 DEF q, n, Quotient, Magnitude
        <5> QED
          BY <3>1, <5>2, <5>4, <5>5 DEF n
      <4> QED
        BY <3>1, <3>3, <3>4, <4>1, <4>2 DEF MinInt
    <3>5. Wrap(q + 1) <= 1
      BY <3>3, <3>4 DEF Wrap, MinInt
    <3>6. k = 0
      BY <3>3, <3>5 DEF Wrap, MinInt
    <3> QED
      BY <3>6
  <2> QED
    BY <2>1, <2>2
<1>4. ASSUME span > 0, k < Quotient(Wrap(Wrap(Wrap(span) + d) - 1), d)
      PROVE  k * d <= span
  <2> DEFINE w == Wrap(Wrap(Wrap(span) + d) - 1)
  <2>1. w \in Int /\ (w < 0 \/ w <= span + d - 1)
    BY <1>4 DEF Wrap, MinInt
  <2> HIDE DEF w
  <2>2. ~(w < 0)
    <3>1. k < Quotient(w, d)
      BY <1>4 DEF w
    <3> QED
      BY <1>2, <2>1, <3>1
  <2>3. w \in Nat /\ w <= span + d - 1
    BY <2>1, <2>2
  <2>4. k + 1 <= w \div d
    BY <1>1, <1>4, <2>3 DEF w
  <2>5. (k + 1) * d <= w
    BY <2>3, <2>4, QuotientCounts
  <2>6. (k + 1) * d = k * d + d /\ k * d \in Nat
    OBVIOUS
  <2> QED
    BY <2>3, <2>5, <2>6
<1> QED
  BY <1>3, <1>4

(* An accepted source with a length has a step.                             *)
LEMMA SourceHasStep ==
  ASSUME NEW s \in Source, Accepted(s), s.use # "for"
  PROVE  /\ StepOf(s) \in Int64 \ {0} /\ s.kind \in Kinds
         /\ s.start \in Int64 /\ s.stop \in Int64
<1>1. s \in Sources
  OBVIOUS
<1>2. /\ s.step \in Int64 \cup {Omitted} /\ s.kind \in Kinds
      /\ s.start \in Int64 /\ s.stop \in Int64
  BY <1>1 DEF Sources
<1>3. s.step # 0
  BY DEF Accepted, RangeAccepted
<1>4. DefaultStep(s.kind, s.start, s.stop) \in {-1, 1}
  BY <1>2 DEF Kinds, DefaultStep
<1>5. StepOf(s) # 0
  BY <1>3, <1>4 DEF StepOf
<1> QED
  BY <1>2, <1>5, StepIsWord

(* An element of an accepted array is a word, between the bounds.           *)
LEMMA ElementIsWord ==
  ASSUME NEW s \in Source, Accepted(s), s.use # "for",
         NEW k \in Nat, k < LiteralRangeLength(s)
  PROVE  s.start + k * StepOf(s) \in Int64
<1> DEFINE step == StepOf(s)
           start == s.start
           stop == s.stop
<1>1. /\ step \in Int64 \ {0} /\ s.kind \in Kinds
      /\ start \in Int64 /\ stop \in Int64
  BY SourceHasStep
<1>2. LiteralRangeLength(s) # 0
  BY DEF Accepted
<1>3. \/ /\ s.kind = "Inclusive" /\ step > 0 /\ stop >= start
         /\ LiteralRangeLength(s) = Wrap(Quotient(Wrap(stop - start), step) + 1)
      \/ /\ s.kind = "Inclusive" /\ step < 0 /\ start >= stop
         /\ LiteralRangeLength(s) = Wrap(Quotient(Wrap(start - stop), -step) + 1)
      \/ /\ s.kind = "UpExclusive" /\ step > 0 /\ stop > start
         /\ LiteralRangeLength(s) =
              Quotient(Wrap(Wrap(Wrap(stop - start) + step) - 1), step)
      \/ /\ s.kind = "DownExclusive" /\ step < 0 /\ start > stop
         /\ LiteralRangeLength(s) =
              Quotient(Wrap(Wrap(Wrap(start - stop) - step) - 1), -step)
  <2>1. step \in Int /\ step # 0
    BY <1>1 DEF Int64, MinInt
  <2> QED
    BY <1>1, <1>2, <2>1, LengthCases
<1> DEFINE length == LiteralRangeLength(s)
<1> HIDE DEF step, start, stop, length
<1>4. /\ step \in Int /\ start \in Int /\ stop \in Int /\ step # 0
      /\ -MaxInt - 1 <= start /\ start <= MaxInt /\ -MaxInt - 1 <= stop /\ stop <= MaxInt
      /\ -MaxInt - 1 <= step /\ step <= MaxInt
  BY <1>1 DEF Int64, MinInt
<1>5. CASE step > 0 /\ stop >= start
  <2> DEFINE span == stop - start
  <2>1. span \in Nat /\ span <= 2 * MaxInt + 1 /\ step \in Nat /\ step <= MaxInt + 1
    BY <1>4, <1>5
  <2>2. k * step <= span
    <3>1. k < length
      BY DEF length
    <3>2. \/ length = Wrap(Quotient(Wrap(span), step) + 1)
          \/ span > 0 /\ length = Quotient(Wrap(Wrap(Wrap(span) + step) - 1), step)
      BY <1>3, <1>4, <1>5 DEF length
    <3> HIDE DEF span
    <3> QED
      BY <1>5, <2>1, <3>1, <3>2, LengthStaysWithin
  <2>3. k * step \in Nat
    BY <2>1
  <2>4. start + k * step \in Int64
    BY <1>4, <2>2, <2>3 DEF Int64, MinInt
  <2> QED
    BY <2>4 DEF start, step
<1>6. CASE step < 0 /\ start >= stop
  <2> DEFINE span == start - stop
             d == -step
  <2>1. span \in Nat /\ span <= 2 * MaxInt + 1 /\ d \in Nat /\ 0 < d /\ d <= MaxInt + 1
    BY <1>4, <1>6
  <2>2. k * d <= span
    <3>1. k < length
      BY DEF length
    <3>2. \A w \in Int : w - step = w + d
      BY <1>4
    <3>3. Wrap(span) \in Int
      BY <2>1, WrapIsInt
    <3>4. \/ length = Wrap(Quotient(Wrap(span), d) + 1)
          \/ span > 0 /\ length = Quotient(Wrap(Wrap(Wrap(span) + d) - 1), d)
      <4>1. \/ length = Wrap(Quotient(Wrap(span), d) + 1)
            \/ start > stop /\ length = Quotient(Wrap(Wrap(Wrap(span) - step) - 1), d)
        BY <1>3, <1>4, <1>6 DEF length
      <4>2. start > stop => span > 0
        BY <1>4
      <4> HIDE DEF span, d
      <4> QED
        BY <3>2, <3>3, <4>1, <4>2
    <3> HIDE DEF span, d
    <3> QED
      BY <2>1, <3>1, <3>4, LengthStaysWithin
  <2>3. k * step = -(k * d) /\ k * d \in Nat
    BY <1>4, <2>1
  <2>4. start + k * step \in Int64
    BY <1>4, <2>2, <2>3 DEF Int64, MinInt
  <2> QED
    BY <2>4 DEF start, step
<1> QED
  BY <1>3, <1>4, <1>5, <1>6

-----------------------------------------------------------------------------
(* Places, row by row.                                                      *)

(* What a row and a column make is taken apart into them again.             *)
LEMMA FlatIsApart ==
  ASSUME NEW n \in Nat, NEW i \in Nat, NEW j \in 0..n - 1
  PROVE  ((i * n) + j) \div n = i /\ ((i * n) + j) % n = j
<1> DEFINE k == (i * n) + j
           q == k \div n
           m == k % n
<1>1. k \in Nat /\ n > 0
  OBVIOUS
<1>2. q \in Nat /\ m \in 0..n - 1 /\ k = (q * n) + m
  BY <1>1
<1>3. (i * n) + j = (q * n) + m
  BY <1>2
<1> HIDE DEF k, q, m
<1>4. ASSUME q > i
      PROVE  FALSE
  <2>1. (q - i) * n >= n
    BY <1>1, <1>2, <1>4
  <2>2. (q - i) * n = (q * n) - (i * n) /\ q * n \in Nat /\ i * n \in Nat
    BY <1>2
  <2> QED
    BY <1>2, <1>3, <2>1, <2>2
<1>5. ASSUME q < i
      PROVE  FALSE
  <2>1. (i - q) * n >= n
    BY <1>1, <1>2, <1>5
  <2>2. (i - q) * n = (i * n) - (q * n) /\ q * n \in Nat /\ i * n \in Nat
    BY <1>2
  <2> QED
    BY <1>2, <1>3, <2>1, <2>2
<1>6. q = i
  BY <1>2, <1>4, <1>5
<1>7. m = j
  <2>1. i * n \in Nat
    OBVIOUS
  <2> QED
    BY <1>2, <1>3, <1>6, <2>1
<1> QED
  BY <1>6, <1>7 DEF q, m, k

(* A block: so many rows and columns, from a first one on.                  *)
Block(row, rows, col, cols) == (row..row + rows - 1) \X (col..col + cols - 1)

(* The number of integers in a run of them.                                 *)
LEMMA RunLength ==
  ASSUME NEW a \in Int, NEW n \in Nat
  PROVE  IsFiniteSet(a..a + n - 1) /\ Cardinality(a..a + n - 1) = n
<1> DEFINE b == a + n - 1
<1>1. b \in Int /\ (IF a > b THEN 0 ELSE b - a + 1) = n
  OBVIOUS
<1> HIDE DEF b
<1>2. IsFiniteSet(a..b) /\ Cardinality(a..b) = IF a > b THEN 0 ELSE b - a + 1
  BY <1>1, FS_Interval
<1> QED
  BY <1>1, <1>2 DEF b

(* A block has as many places as its rows have columns.                     *)
LEMMA BlockSize ==
  ASSUME NEW row \in Int, NEW rows \in Nat, NEW col \in Int, NEW cols \in Nat
  PROVE  /\ IsFiniteSet(Block(row, rows, col, cols))
         /\ Cardinality(Block(row, rows, col, cols)) = rows * cols
<1> DEFINE R == row..row + rows - 1
           C == col..col + cols - 1
<1>1. IsFiniteSet(R) /\ Cardinality(R) = rows /\ IsFiniteSet(C) /\ Cardinality(C) = cols
  BY RunLength
<1> HIDE DEF R, C
<1>2. IsFiniteSet(R \X C) /\ Cardinality(R \X C) = rows * cols
  BY <1>1, FS_Product
<1> QED
  BY <1>2 DEF R, C, Block

(* The position of a place counts the full rows above it and the places to  *)
(* its left.                                                                *)
CountsRowByRow(row, rows, col, cols) ==
  \A i \in 0..rows - 1, j \in 0..cols - 1 :
    Position(<<row + i, col + j>>, Block(row, rows, col, cols)) = (i * cols) + j + 1

(* It does so in every block.                                               *)
LEMMA PositionInBlock ==
  ASSUME NEW row \in Int, NEW rows \in Nat, NEW col \in Int, NEW cols \in Nat
  PROVE  CountsRowByRow(row, rows, col, cols)
<1> SUFFICES ASSUME NEW i \in 0..rows - 1, NEW j \in 0..cols - 1
             PROVE  Position(<<row + i, col + j>>, Block(row, rows, col, cols)) =
                      (i * cols) + j + 1
  BY DEF CountsRowByRow
<1> DEFINE above == Block(row, i, col, cols)
           left == Block(row + i, 1, col, j)
           place == <<row + i, col + j>>
           places == Block(row, rows, col, cols)
<1>1. i \in Nat /\ j \in Nat /\ row + i \in Int
  OBVIOUS
<1>2. /\ IsFiniteSet(above) /\ Cardinality(above) = i * cols
      /\ IsFiniteSet(left) /\ Cardinality(left) = 1 * j
  <2>1. IsFiniteSet(above) /\ Cardinality(above) = i * cols
    <3>1. i \in Nat
      BY <1>1
    <3> HIDE DEF above
    <3>2. IsFiniteSet(Block(row, i, col, cols)) /\ Cardinality(Block(row, i, col, cols)) = i * cols
      BY <3>1, BlockSize, ZenonT(30)
    <3> QED
      BY <3>2 DEF above
  <2> DEFINE r == row + i
             one == 1
  <2>2. r \in Int
    BY <1>1
  <2>4. one \in Nat
    OBVIOUS
  <2>5. j \in Nat
    BY <1>1
  <2> HIDE DEF r, one
  <2>3. IsFiniteSet(Block(r, one, col, j)) /\ Cardinality(Block(r, one, col, j)) = one * j
    BY <2>2, <2>4, <2>5, BlockSize, ZenonT(30)
  <2> QED
    BY <2>1, <2>3 DEF r, one
<1>3. above \cap left = {}
  <2> SUFFICES ASSUME NEW p \in above, p \in left
               PROVE  FALSE
    OBVIOUS
  <2>1. p[1] \in row..row + i - 1 /\ p[1] \in row + i..row + i + 1 - 1
    BY DEF Block
  <2> QED
    BY <1>1, <2>1
<1>4. {p \in places : Before(p, place)} = above \cup left
  <2>1. ASSUME NEW p \in places, Before(p, place)
        PROVE  p \in above \cup left
    <3>1. /\ p = <<p[1], p[2]>> /\ p[1] \in row..row + rows - 1
          /\ p[2] \in col..col + cols - 1
      BY DEF Block
    <3>2. p[1] < row + i \/ (p[1] = row + i /\ p[2] < col + j)
      BY <2>1 DEF Before
    <3>3. \/ p[1] \in row..row + i - 1 /\ p[2] \in col..col + cols - 1
          \/ p[1] \in row + i..row + i + 1 - 1 /\ p[2] \in col..col + j - 1
      BY <1>1, <3>1, <3>2
    <3> QED
      BY <3>1, <3>3 DEF Block
  <2>2. ASSUME NEW p \in above \cup left
        PROVE  p \in places /\ Before(p, place)
    <3>1. p = <<p[1], p[2]>>
      BY DEF Block
    <3>2. \/ p[1] \in row..row + i - 1 /\ p[2] \in col..col + cols - 1
          \/ p[1] \in row + i..row + i + 1 - 1 /\ p[2] \in col..col + j - 1
      BY DEF Block
    <3>3. /\ p[1] \in row..row + rows - 1 /\ p[2] \in col..col + cols - 1
          /\ p[1] < row + i \/ (p[1] = row + i /\ p[2] < col + j)
      BY <1>1, <3>2
    <3> QED
      BY <3>1, <3>3 DEF Block, Before
  <2> QED
    BY <2>1, <2>2
<1> HIDE DEF above, left, place, places
<1>5. Cardinality(above \cup left) = (i * cols) + j
  <2>1. Cardinality(above \cup left) =
          Cardinality(above) + Cardinality(left) - Cardinality(above \cap left)
    BY <1>2, FS_Union
  <2>2. Cardinality(above \cap left) = 0
    BY <1>3, FS_EmptySet
  <2>3. i * cols \in Nat
    BY <1>1
  <2> QED
    BY <1>1, <1>2, <2>1, <2>2, <2>3
<1>6. Position(place, places) = (i * cols) + j + 1
  BY <1>4, <1>5 DEF Position
<1> QED
  BY <1>6 DEF place, places

(* The cells have the content by rows and columns.                          *)
RowByRow(cells, content, row, rows, col, cols) ==
  \A i \in 0..rows - 1, j \in 0..cols - 1 :
    cells[(i * cols) + j + 1] = content[<<row + i, col + j>>]

(* Cells that hold a block's content by rows and columns list it.           *)
LEMMA BlockIsListed ==
  ASSUME NEW row \in Int, NEW rows \in Nat, NEW col \in Int, NEW cols \in Nat,
         NEW content, DOMAIN content = Block(row, rows, col, cols),
         NEW cells, DOMAIN cells = 1..rows * cols,
         RowByRow(cells, content, row, rows, col, cols)
  PROVE  Lists(cells, content)
<1> DEFINE places == Block(row, rows, col, cols)
<1>1. DOMAIN cells = 1..Cardinality(places)
  <2>1. Cardinality(places) = rows * cols
    BY BlockSize
  <2> QED
    BY <2>1
<1>2. CountsRowByRow(row, rows, col, cols)
  BY PositionInBlock
<1>3. ASSUME NEW place \in places
      PROVE  cells[Position(place, places)] = content[place]
  <2>1. /\ place = <<place[1], place[2]>> /\ place[1] \in row..row + rows - 1
        /\ place[2] \in col..col + cols - 1
    BY DEF Block
  <2> DEFINE i == place[1] - row
             j == place[2] - col
  <2>2. /\ i \in 0..rows - 1 /\ j \in 0..cols - 1
        /\ place[1] = row + i /\ place[2] = col + j
    <3> DEFINE x == place[1]
               y == place[2]
    <3>1. x \in row..row + rows - 1
      BY <2>1
    <3>2. y \in col..col + cols - 1
      BY <2>1
    <3> HIDE DEF x, y
    <3>3. x - row \in 0..rows - 1 /\ x = row + (x - row)
      BY <3>1
    <3>4. y - col \in 0..cols - 1 /\ y = col + (y - col)
      BY <3>2
    <3> QED
      BY <3>3, <3>4 DEF x, y
  <2> HIDE DEF i, j
  <2>3. place = <<row + i, col + j>>
    BY <2>1, <2>2
  <2>4. Position(<<row + i, col + j>>, Block(row, rows, col, cols)) = (i * cols) + j + 1
    BY <1>2, <2>2 DEF CountsRowByRow
  <2> QED
    BY <2>2, <2>3, <2>4 DEF RowByRow
<1> QED
  BY <1>1, <1>3 DEF Lists

-----------------------------------------------------------------------------
(* What a selection names, and where the generated code looks for it.       *)

(* The remainder of an index that counts from either end is its position.   *)
LEMMA IndexIsNormalized ==
  ASSUME NEW n \in Nat, NEW i \in -n..n - 1
  PROVE  i % n = Normalized(i, n) /\ Normalized(i, n) \in 0..n - 1
<1>1. n > 0
  OBVIOUS
<1> DEFINE q == i \div n
           m == i % n
<1>2. q \in Int /\ m \in 0..n - 1 /\ i = (q * n) + m
  BY <1>1
<1> HIDE DEF q, m
<1>3. q >= -1 /\ q <= 0
  <2>1. ASSUME q > 0
        PROVE  FALSE
    <3>1. q * n >= n
      BY <1>1, <1>2, <2>1
    <3>2. q * n \in Int
      BY <1>2
    <3> QED
      BY <1>2, <3>1, <3>2
  <2>2. ASSUME q < -1
        PROVE  FALSE
    <3>1. (-1 - q) * n >= n
      BY <1>1, <1>2, <2>2
    <3>2. (-1 - q) * n = -n - (q * n) /\ q * n \in Int
      BY <1>2
    <3> QED
      BY <1>2, <3>1, <3>2
  <2> QED
    BY <1>2, <2>1, <2>2
<1>4. q = 0 \/ q = -1
  BY <1>2, <1>3
<1>5. CASE q = 0
  <2>1. i = m
    BY <1>2, <1>5
  <2> QED
    BY <1>2, <2>1 DEF Normalized, m
<1>6. CASE q = -1
  <2>1. i = m - n
    BY <1>2, <1>6
  <2>2. Normalized(i, n) = m
    BY <1>2, <2>1 DEF Normalized
  <2> QED
    BY <1>2, <2>2 DEF m
<1> QED
  BY <1>4, <1>5, <1>6

(* An accepted selector with an index inside names a run of positions.      *)
LEMMA NamedIsRun ==
  ASSUME NEW sel \in Selectors, NEW length \in Int, SelectorOk(sel, length),
         sel.form = "index" => sel.start \in 0..length - 1,
         sel.form = "all" => length >= 0
  PROVE  /\ SliceLength(sel, length) \in Nat /\ First(sel) \in Nat
         /\ First(sel) + SliceLength(sel, length) <= length
         /\ Named(sel, length) = First(sel)..First(sel) + SliceLength(sel, length) - 1
<1>1. /\ sel.start \in Int /\ sel.stop \in Int /\ sel.kind \in Kinds
      /\ sel.form \in {"index", "slice", "all"}
  BY DEF Selectors, Forms
<1>2. CASE sel.form = "index"
  <2>1. SliceLength(sel, length) = 1 /\ First(sel) = sel.start
    BY <1>2 DEF SliceLength, First
  <2>2. sel.start % length = sel.start
    <3>1. length \in Nat /\ sel.start \in -length..length - 1
      BY <1>2
    <3> QED
      BY <1>2, <3>1, IndexIsNormalized DEF Normalized
  <2>3. Named(sel, length) = {sel.start}
    BY <1>2, <2>2 DEF Named
  <2> QED
    BY <1>1, <1>2, <2>1, <2>3
<1>3. CASE sel.form = "all"
  <2>1. SliceLength(sel, length) = length /\ First(sel) = 0
    BY <1>3 DEF SliceLength, First
  <2>2. Named(sel, length) = 0..length - 1
    BY <1>3 DEF Named
  <2> QED
    BY <1>3, <2>1, <2>2
<1>4. CASE sel.form = "slice" /\ sel.kind = "Inclusive"
  <2>1. /\ SliceLength(sel, length) = sel.stop - sel.start + 1 /\ First(sel) = sel.start
        /\ Named(sel, length) = sel.start..sel.stop
    BY <1>4 DEF SliceLength, First, Named
  <2>2. 0 <= sel.start /\ sel.start <= sel.stop /\ sel.stop < length
    BY <1>4 DEF SelectorOk, SliceOk
  <2> QED
    BY <1>1, <2>1, <2>2
<1>5. CASE sel.form = "slice" /\ sel.kind # "Inclusive"
  <2>1. /\ SliceLength(sel, length) = sel.stop - sel.start /\ First(sel) = sel.start
        /\ Named(sel, length) = sel.start..sel.stop - 1
    BY <1>5 DEF SliceLength, First, Named
  <2>2. 0 <= sel.start /\ sel.start < sel.stop /\ sel.stop <= length
    BY <1>5 DEF SelectorOk, SliceOk
  <2> QED
    BY <1>1, <2>1, <2>2
<1> QED
  BY <1>1, <1>2, <1>3, <1>4, <1>5

(* The element an operation has checked is the one place it names.          *)
LEMMA ElementIsPlace ==
  ASSUME Accepting, Elementwise(code), ~CheckFails
  PROVE  \E row \in 0..RowCount - 1, col \in 0..ColCount - 1 :
           /\ Part = Block(row, 1, col, 1)
           /\ ElementOffset = (row * ColCount) + col
<1> DEFINE col == Normalized(code.col.start, ColCount)
           row == IF IsMatrix(code) THEN Normalized(code.row.start, RowCount) ELSE 0
<1>1. /\ code.row \in Selectors /\ code.col \in Selectors
      /\ RowCount \in Nat /\ ColCount \in Int
      /\ ~IsMatrix(code) => RowCount = 1
  BY ShapeIsNumbers
<1>2. code.row.start \in Int /\ code.col.start \in Int
  BY <1>1 DEF Selectors
<1>3. /\ code.col.form = "index" /\ ~Outside(col, ColCount)
      /\ IsMatrix(code) => code.row.form = "index" /\ ~Outside(row, RowCount)
  BY DEF Elementwise, CheckFails
<1>4. /\ ColCount \in Nat /\ code.col.start \in -ColCount..ColCount - 1
      /\ IsMatrix(code) => code.row.start \in -RowCount..RowCount - 1
  BY <1>1, <1>2, <1>3 DEF Outside, Normalized
<1>5. code.col.start % ColCount = col /\ col \in 0..ColCount - 1
  BY <1>4, IndexIsNormalized
<1>6. CASE IsMatrix(code)
  <2>1. code.row.start % RowCount = row /\ row \in 0..RowCount - 1
    BY <1>1, <1>4, <1>6, IndexIsNormalized
  <2>2. ElementOffset = (row * ColCount) + col
    BY <1>6 DEF ElementOffset
  <2>3. Part = {row} \X {col}
    BY <1>3, <1>5, <1>6, <2>1 DEF Part, Named
  <2> HIDE DEF row, col
  <2>4. row..row + 1 - 1 = {row} /\ col..col + 1 - 1 = {col}
    BY <1>5, <2>1
  <2> QED
    BY <1>5, <2>1, <2>2, <2>3, <2>4 DEF Block
<1>7. CASE ~IsMatrix(code)
  <2>1. row = 0 /\ row \in 0..RowCount - 1
    BY <1>1, <1>7
  <2>2. ElementOffset = (row * ColCount) + col
    BY <1>4, <1>5, <1>7, <2>1 DEF ElementOffset
  <2>3. Part = {row} \X {col}
    BY <1>3, <1>5, <1>7, <2>1 DEF Part, Named
  <2> HIDE DEF row, col
  <2>4. row..row + 1 - 1 = {row} /\ col..col + 1 - 1 = {col}
    BY <1>5, <2>1
  <2> QED
    BY <1>5, <2>1, <2>2, <2>3, <2>4 DEF Block
<1> QED
  BY <1>6, <1>7

PartTop == IF IsMatrix(code) THEN First(code.row) ELSE 0
PartLeft == First(code.col)

(* Any other selection names a block of places, inside of the operand.      *)
LEMMA PartIsBlock ==
  ASSUME Accepting, Selecting, ~Elementwise(code), ~CheckFails
  PROVE  /\ PartTop \in Nat /\ PartRows \in Nat /\ PartTop + PartRows <= RowCount
         /\ PartLeft \in Nat /\ PartCols \in Nat /\ PartLeft + PartCols <= ColCount
         /\ Part = Block(PartTop, PartRows, PartLeft, PartCols)
<1>1. /\ code.row \in Selectors /\ code.col \in Selectors
      /\ RowCount \in Nat /\ ColCount \in Int
      /\ OperationOk(source, code)
      /\ IsMatrix(code) => RowCount = code.rows /\ ColCount = code.cols
      /\ ~IsMatrix(code) => RowCount = 1
      /\ code \in Codes
  BY ShapeIsNumbers
<1>2. code.row.start \in Int /\ code.col.start \in Int /\ code.cols \in Nat
  BY <1>1 DEF Selectors, Codes
<1>3. /\ SelectorOk(code.col, ColCount)
      /\ IsMatrix(code) => SelectorOk(code.row, RowCount)
      /\ ~IsMatrix(code) => code.col.form # "all" /\ code.col.form # "index"
  BY <1>1 DEF OperationOk, Selecting, Elementwise, ColCount
<1>4. /\ code.col.form = "index" => code.col.start \in 0..ColCount - 1
      /\ IsMatrix(code) /\ code.row.form = "index" => code.row.start \in 0..RowCount - 1
  BY <1>1, <1>2, CheckedIsInside DEF CheckFails
<1>5. /\ PartCols \in Nat /\ PartLeft \in Nat /\ PartLeft + PartCols <= ColCount
      /\ Named(code.col, ColCount) = PartLeft..PartLeft + PartCols - 1
  <2>1. code.col.form = "all" => ColCount >= 0
    BY <1>1, <1>2, <1>3
  <2> QED
    BY <1>1, <1>3, <1>4, <2>1, NamedIsRun DEF PartCols, PartLeft
<1>6. CASE IsMatrix(code)
  <2>1. PartRows = SliceLength(code.row, RowCount) /\ PartTop = First(code.row)
    BY <1>6 DEF PartRows, PartTop
  <2>2. /\ PartRows \in Nat /\ PartTop \in Nat /\ PartTop + PartRows <= RowCount
        /\ Named(code.row, RowCount) = PartTop..PartTop + PartRows - 1
    BY <1>1, <1>3, <1>4, <1>6, <2>1, NamedIsRun
  <2> QED
    BY <1>5, <1>6, <2>2 DEF Part, Block
<1>7. CASE ~IsMatrix(code)
  <2>1. PartRows = 1 /\ PartTop = 0 /\ RowCount = 1
    BY <1>1, <1>7 DEF PartRows, PartTop
  <2>2. {0} = PartTop..PartTop + PartRows - 1
    BY <2>1
  <2> QED
    BY <1>5, <1>7, <2>1, <2>2 DEF Part, Block
<1> QED
  BY <1>6, <1>7

(* The counter of the loop that copies a part runs over its places.         *)
LEMMA PartIsFound ==
  ASSUME Accepting, Selecting, ~Elementwise(code), ~CheckFails,
         NEW i \in 0..PartRows - 1, NEW j \in 0..PartCols - 1
  PROVE  /\ PartTop + i \in 0..RowCount - 1 /\ PartLeft + j \in 0..ColCount - 1
         /\ PartOffset((i * PartCols) + j) = ((PartTop + i) * ColCount) + (PartLeft + j)
<1>1. /\ PartTop \in Nat /\ PartRows \in Nat /\ PartTop + PartRows <= RowCount
      /\ PartLeft \in Nat /\ PartCols \in Nat /\ PartLeft + PartCols <= ColCount
  BY PartIsBlock
<1>2. RowCount \in Nat /\ ColCount \in Int
  BY ShapeIsNumbers
<1>3. PartTop + i \in 0..RowCount - 1 /\ PartLeft + j \in 0..ColCount - 1
  BY <1>1, <1>2
<1>4. ((i * PartCols) + j) \div PartCols = i /\ ((i * PartCols) + j) % PartCols = j
  BY <1>1, FlatIsApart
<1>5. CASE ~IsMatrix(code)
  <2>1. PartRows = 1 /\ PartTop = 0
    BY <1>5 DEF PartRows, PartTop
  <2>2. i = 0
    BY <2>1
  <2>3. (i * PartCols) + j = j /\ (PartTop + i) * ColCount = 0
    BY <1>1, <1>2, <2>1, <2>2
  <2>4. PartOffset(j) = PartLeft + j
    BY <1>5 DEF PartOffset, SliceOffset, PartLeft
  <2> QED
    BY <1>1, <1>3, <2>3, <2>4
<1>6. CASE IsMatrix(code) /\ code.row.form = "index"
  <2>1. PartRows = 1 /\ PartTop = code.row.start
    BY <1>6 DEF PartRows, PartTop, SliceLength, First
  <2>2. i = 0
    BY <2>1
  <2>3. (i * PartCols) + j = j /\ PartTop + i = PartTop
    BY <1>1, <2>2
  <2>4. PartOffset(j) = (PartTop * ColCount) + (PartLeft + j)
    BY <1>6, <2>1 DEF PartOffset, RowSliceOffset, PartLeft
  <2> QED
    BY <1>3, <2>3, <2>4
<1>7. CASE IsMatrix(code) /\ code.row.form # "index" /\ code.col.form = "index"
  <2>1. PartCols = 1 /\ PartLeft = code.col.start /\ PartTop = First(code.row)
    BY <1>7 DEF PartCols, PartTop, PartLeft, SliceLength, First
  <2>2. j = 0
    BY <2>1
  <2>3. (i * PartCols) + j = i /\ PartLeft + j = PartLeft
    BY <1>1, <2>1, <2>2
  <2>4. PartOffset(i) = ((PartTop + i) * ColCount) + PartLeft
    BY <1>7, <2>1 DEF PartOffset, ColSliceOffset
  <2> QED
    BY <1>3, <2>3, <2>4
<1>8. CASE IsMatrix(code) /\ code.row.form # "index" /\ code.col.form # "index"
  <2>1. PartTop = First(code.row) /\ PartLeft = First(code.col)
    BY <1>8 DEF PartTop, PartLeft
  <2>2. PartOffset((i * PartCols) + j) = ((PartTop + i) * ColCount) + (PartLeft + j)
    BY <1>4, <1>8, <2>1 DEF PartOffset, SubmatrixOffset
  <2> QED
    BY <1>3, <2>2
<1> QED
  BY <1>5, <1>6, <1>7, <1>8

-----------------------------------------------------------------------------
(* The invariant: what the cells hold, in each phase.                       *)

(* Element number i of the range, from 0.                                   *)
Wanted(i) == range.start + (i * range.step)

OperandAt(row, col) == heap[Operand][(row * ColCount) + col + 1]

(* While the array is filled, and as long as nothing is assigned to it.     *)
ArrayFilled ==
  pc \in {"loop", "done"} /\ source.use # "for" =>
    /\ index < Length => counter = Wanted(index)
    /\ at = "range" \/ code.make # "nothing" =>
         \A i \in Nat : i < index /\ i < Length => heap[1][i + 1] = Wanted(i)

(* While a second array or a matrix is made.                                *)
OperandMade ==
  at = "making" =>
    IF code.make = "identity"
    THEN \A row \in 0..RowCount - 1, col \in 0..ColCount - 1 :
           OperandAt(row, col) = IF row = col /\ row < turn THEN 1 ELSE 0
    ELSE \A i \in Nat : i < turn /\ i < RowCount * ColCount => heap[2][i + 1] = Wanted(i)

(* The operand is as the program wrote it.                                  *)
OperandKept ==
  \A row \in 0..RowCount - 1, col \in 0..ColCount - 1 :
    OperandAt(row, col) = Element(<<row, col>>)

Working == at \in {"turning", "finished"}

(* A read leaves the operand alone, and has copied the cells of the part up *)
(* to where its loop is.                                                    *)
ReadSoFar ==
  Working /\ code.do = "read" =>
    /\ OperandKept
    /\ Elementwise(code) => out = <<heap[Operand][ElementOffset + 1]>>
    /\ ~Elementwise(code) =>
         /\ Len(heap) > Operand /\ DOMAIN heap[Len(heap)] = 1..PartRows * PartCols
         /\ \A k \in Nat : k < turn /\ k < PartRows * PartCols =>
              heap[Len(heap)][k + 1] = heap[Operand][PartOffset(k) + 1]
         /\ at = "finished" => turn = PartRows * PartCols

(* What an assignment makes of an element it names.                         *)
Assigned(element) == IF code.do = "add" THEN Wrap(element + Value) ELSE Value

(* An assignment has changed the element it names, or the first cells of    *)
(* the slice, and no others.                                                *)
AssignedSoFar ==
  Working /\ code.do \in {"assign", "add"} =>
    /\ Elementwise(code) =>
         \A row \in 0..RowCount - 1, col \in 0..ColCount - 1 :
           OperandAt(row, col) =
             IF (row * ColCount) + col = ElementOffset THEN Assigned(Element(<<row, col>>))
                                                       ELSE Element(<<row, col>>)
    /\ ~Elementwise(code) =>
         /\ \A col \in 0..ColCount - 1 :
              OperandAt(0, col) =
                IF PartLeft <= col /\ col < PartLeft + turn THEN Value
                                                            ELSE Element(<<0, col>>)
         /\ at = "finished" => turn = PartCols

(* What the body of a loop is given with the cell at offset k.              *)
Given(k) ==
  LET value == heap[Operand][k + 1] IN
  IF code.do = "walk" THEN <<value>>
  ELSE IF IsMatrix(code) THEN <<k \div ColCount, k % ColCount, value>>
  ELSE <<k, value>>

WalkedSoFar ==
  Working /\ code.do \in {"walk", "walkWithIndices"} =>
    /\ OperandKept
    /\ out \in Seq(Seq(Int)) /\ Len(out) = turn
    /\ \A k \in Nat : k < turn => out[k + 1] = Given(k)
    /\ at = "finished" => turn = RowCount * ColCount

ContentsInv ==
  /\ ArrayFilled /\ OperandMade
  /\ at = "made" => OperandKept
  /\ ReadSoFar /\ AssignedSoFar /\ WalkedSoFar
  /\ ~Working => out = <<>>

(* What the theorems of Ranges and Arrays say of each state.                *)
Known == TypeOK /\ FillInv /\ IInv

(* What the array is filled from, as the source says it.                    *)
LEMMA RangeOfSource ==
  ASSUME Known, pc \in {"loop", "done"}
  PROVE  /\ range.start = source.start /\ range.step = StepOf(source)
         /\ range.start \in Int /\ range.step \in Int /\ index \in Nat /\ counter \in Int64
         /\ source \in Source /\ Accepted(source)
         /\ \A i \in Nat : Wanted(i) \in Int
<1>1. range = Built(source) /\ Accepted(source) /\ source \in Source
  BY DEF Known, FillInv, TypeOK
<1>2. range.start = source.start /\ range.step = StepOf(source)
  BY <1>1 DEF Built
<1>3. range \in Ranges /\ index \in Nat /\ counter \in Int64
  BY DEF Known, TypeOK
<1>4. range.start \in Int /\ range.step \in Int
  BY <1>3 DEF Ranges, Int64, MinInt
<1> QED
  BY <1>1, <1>2, <1>3, <1>4 DEF Wanted

(* The next element, as the generated code computes it.                     *)
LEMMA NextWanted ==
  ASSUME Known, pc \in {"loop", "done"}, source.use # "for",
         NEW i \in Nat, i + 1 < Length
  PROVE  Wrap(Wanted(i) + range.step) = Wanted(i + 1)
<1>1. /\ range.start = source.start /\ range.step = StepOf(source)
      /\ range.start \in Int /\ range.step \in Int /\ source \in Source /\ Accepted(source)
  BY RangeOfSource
<1>2. i + 1 \in Nat
  OBVIOUS
<1>3. source.start + ((i + 1) * StepOf(source)) \in Int64
  BY <1>1, <1>2, ElementIsWord DEF Length
<1> DEFINE step == range.step
<1>4. step \in Int
  BY <1>1
<1> HIDE DEF step
<1>5. (i + 1) * step = (i * step) + step
  BY <1>4
<1>6. i * step \in Int
  BY <1>4
<1>7. Wanted(i + 1) = Wanted(i) + range.step /\ Wanted(i + 1) \in Int64
  BY <1>1, <1>3, <1>4, <1>5, <1>6 DEF Wanted, step
<1> QED
  BY <1>7, WrapOfWord

(* A store changes the one cell.                                            *)
LEMMA StoreAt ==
  ASSUME heap \in Seq(Buffers), NEW b \in 1..Len(heap), NEW o \in Nat,
         o + 1 \in DOMAIN heap[b], NEW v, heap' = Stored(b, o, v)
  PROVE  /\ Len(heap') = Len(heap)
         /\ \A c \in 1..Len(heap) : c # b => heap'[c] = heap[c]
         /\ \A p \in DOMAIN heap[b] : heap'[b][p] = IF p = o + 1 THEN v ELSE heap[b][p]
<1>1. heap[b] \in Buffers /\ DOMAIN heap = 1..Len(heap)
  OBVIOUS
<1>2. PICK n \in Int : heap[b] \in [1..n -> Int]
  BY <1>1 DEF Buffers
<1>3. heap' = [heap EXCEPT ![b] = [heap[b] EXCEPT ![o + 1] = v]]
  BY DEF Stored
<1> QED
  BY <1>1, <1>2, <1>3

(* Two places with one offset are one place.                                *)
LEMMA OffsetsDiffer ==
  ASSUME NEW cols \in Int, NEW i \in Nat, NEW k \in Nat,
         NEW j \in 0..cols - 1, NEW m \in 0..cols - 1,
         (i * cols) + j = (k * cols) + m
  PROVE  i = k /\ j = m
<1>1. cols \in Nat
  OBVIOUS
<1>2. ((i * cols) + j) \div cols = i /\ ((i * cols) + j) % cols = j
  BY <1>1, FlatIsApart
<1>3. ((k * cols) + m) \div cols = k /\ ((k * cols) + m) % cols = m
  BY <1>1, FlatIsApart
<1> QED
  BY <1>2, <1>3

-----------------------------------------------------------------------------
(* Facts the steps share.                                                   *)

(* A step that keeps the program and its range keeps what they say.         *)
LEMMA ProgramKept ==
  ASSUME UNCHANGED <<vars, code>>
  PROVE  /\ Length' = Length /\ RowCount' = RowCount /\ ColCount' = ColCount
         /\ Operand' = Operand /\ PartRows' = PartRows /\ PartCols' = PartCols
         /\ PartLeft' = PartLeft /\ ElementOffset' = ElementOffset
         /\ Elementwise(code)' = Elementwise(code) /\ IsMatrix(code)' = IsMatrix(code)
         /\ \A k : PartOffset(k)' = PartOffset(k)
         /\ \A i : Wanted(i)' = Wanted(i)
         /\ \A row, col : Element(<<row, col>>)' = Element(<<row, col>>)
         /\ \A e : Assigned(e)' = Assigned(e)
<1>1. source' = source /\ range' = range /\ code' = code
  BY DEF vars
<1>2. /\ Length' = Length /\ RowCount' = RowCount /\ ColCount' = ColCount
      /\ Operand' = Operand /\ PartRows' = PartRows /\ PartCols' = PartCols
      /\ Elementwise(code)' = Elementwise(code)
  BY <1>1, ShapeIsKept
<1>3. PartLeft' = PartLeft /\ ElementOffset' = ElementOffset
  BY <1>1, <1>2 DEF PartLeft, ElementOffset
<1>4. \A k : PartOffset(k)' = PartOffset(k)
  BY <1>1, <1>2
  DEF PartOffset, SliceOffset, RowSliceOffset, ColSliceOffset, SubmatrixOffset
<1>5. /\ \A i : Wanted(i)' = Wanted(i)
      /\ \A row, col : Element(<<row, col>>)' = Element(<<row, col>>)
      /\ \A e : Assigned(e)' = Assigned(e)
  BY <1>1, <1>2 DEF Wanted, Element, Assigned
<1> QED
  BY <1>1, <1>2, <1>3, <1>4, <1>5

(* What every state says of the operand's shape.                            *)
LEMMA OperandShape ==
  ASSUME Known, pc = "done", code.make # "nothing" \/ code.do # "nothing",
         code.make # "nothing" => at # "range"
  PROVE  /\ Operand \in 1..Len(heap) /\ DOMAIN heap[Operand] = 1..RowCount * ColCount
         /\ RowCount \in Nat /\ ColCount \in Int /\ heap \in Seq(Buffers) /\ turn \in Nat
         /\ Accepting /\ source.use # "for" /\ Operand \in {1, 2}
         /\ \A row \in 0..RowCount - 1, col \in 0..ColCount - 1 :
              (row * ColCount) + col \in 0..(RowCount * ColCount) - 1
<1>1. /\ Accepting /\ HeapTypeOK /\ BuffersAreThere /\ heap \in Seq(Buffers) /\ turn \in Nat
  BY DEF Known, IInv, HeapTypeOK
<1>2. RowCount \in Nat /\ ColCount \in Int
  BY <1>1, ShapeIsNumbers
<1>3. Operand \in 1..Len(heap) /\ DOMAIN heap[Operand] = 1..RowCount * ColCount
  BY <1>1, OperandIsThere
<1>4. source.use # "for"
  BY <1>1 DEF Accepting, CodeAccepted
<1>5. \A row \in 0..RowCount - 1, col \in 0..ColCount - 1 :
        (row * ColCount) + col \in 0..(RowCount * ColCount) - 1
  BY <1>2, FlatIsInside
<1> QED
  BY <1>1, <1>2, <1>3, <1>4, <1>5 DEF Operand

(* The first array stays as it is when its buffer does.                     *)
LEMMA ArrayStays ==
  ASSUME ArrayFilled, UNCHANGED <<vars, code>>, at' = "range" => at = "range",
         code.make # "nothing" \/ at' = "range" => heap'[1] = heap[1]
  PROVE  ArrayFilled'
<1>1. /\ source' = source /\ code' = code /\ pc' = pc /\ index' = index
      /\ counter' = counter
  BY DEF vars
<1>2. Length' = Length /\ \A i : Wanted(i)' = Wanted(i)
  BY ProgramKept
<1> QED
  BY <1>1, <1>2 DEF ArrayFilled

(* The operand stays as the program wrote it when its buffer does.          *)
LEMMA OperandStays ==
  ASSUME OperandKept, UNCHANGED <<vars, code>>, heap'[Operand] = heap[Operand]
  PROVE  OperandKept'
BY ProgramKept DEF OperandKept, OperandAt

(* An array by itself is what it was filled with.                           *)
LEMMA ElementsOfArray ==
  ASSUME Known, pc = "done", code.make # "identity",
         code.make # "nothing" \/ code.do # "nothing",
         code.make # "nothing" => at # "range",
         \A i \in Nat : i < RowCount * ColCount => heap[Operand][i + 1] = Wanted(i)
  PROVE  OperandKept
<1>1. \A row \in 0..RowCount - 1, col \in 0..ColCount - 1 :
        (row * ColCount) + col \in 0..(RowCount * ColCount) - 1
  BY OperandShape
<1>2. RowCount \in Nat /\ ColCount \in Int
  BY OperandShape
<1> SUFFICES ASSUME NEW row \in 0..RowCount - 1, NEW col \in 0..ColCount - 1
             PROVE  OperandAt(row, col) = Element(<<row, col>>)
  BY DEF OperandKept
<1> DEFINE k == (row * ColCount) + col
           total == RowCount * ColCount
<1>3. k \in 0..total - 1
  BY <1>1
<1>4. total \in Int
  BY <1>2
<1>5. Element(<<row, col>>) = Wanted(k) /\ OperandAt(row, col) = heap[Operand][k + 1]
  BY DEF Element, Wanted, OperandAt
<1> HIDE DEF k
<1>6. k \in Nat /\ k < total
  BY <1>3, <1>4
<1> QED
  BY <1>5, <1>6

(* When an operation begins its operand is as the program wrote it.         *)
LEMMA OperandReady ==
  ASSUME Known, ContentsInv, NEW operation, Begins(operation), operation # "nothing"
  PROVE  /\ OperandKept
         /\ pc = "done" /\ code.do = operation
         /\ code.make # "nothing" => at = "made"
         /\ out = <<>>
<1>1. /\ pc = "done" /\ code.do = operation
      /\ at = IF code.make = "nothing" THEN "range" ELSE "made"
  BY DEF Begins
<1>2. out = <<>>
  BY <1>1 DEF ContentsInv, Working
<1>3. CASE code.make # "nothing"
  BY <1>1, <1>2, <1>3 DEF ContentsInv
<1>4. CASE code.make = "nothing"
  <2>1. /\ Accepting /\ source.use # "for" /\ Operand = 1
    BY <1>1, <1>4, OperandShape DEF Operand
  <2>2. RowCount = 1 /\ ColCount = Length /\ Length \in Int
    BY <1>4, <2>1, ShapeIsNumbers
  <2>3. ~(index < Length) /\ index \in Nat
    BY <1>1, <2>1 DEF Known, FillInv, TypeOK, Length
  <2>4. \A i \in Nat : i < index /\ i < Length => heap[1][i + 1] = Wanted(i)
    BY <1>1, <1>4, <2>1 DEF ContentsInv, ArrayFilled
  <2>5. RowCount * ColCount = Length
    BY <2>2
  <2>6. \A i \in Nat : i < RowCount * ColCount => heap[Operand][i + 1] = Wanted(i)
    BY <2>1, <2>2, <2>3, <2>4, <2>5
  <2> QED
    BY <1>1, <1>2, <1>4, <2>6, ElementsOfArray
<1> QED
  BY <1>3, <1>4

-----------------------------------------------------------------------------
(* The steps, in the order of a run.                                        *)

(* Nothing more is said before the work on the operand begins.              *)
LEMMA NotWorkingYet ==
  ASSUME at' \notin {"making", "made", "turning", "finished"}, out' = <<>>, ArrayFilled'
  PROVE  ContentsInv'
BY DEF ContentsInv, OperandMade, ReadSoFar, AssignedSoFar, WalkedSoFar, Working

(* The steps in which the array is filled.                                  *)
LEMMA FillingKeepsContents ==
  ASSUME Known, Known', ContentsInv, RangeStep \/ AllocateArray \/ StoreElement
  PROVE  ContentsInv'
<1>1. /\ Length \in Int /\ index \in Nat /\ counter \in Int
      /\ pc # "done" => at = "range"
      /\ heap \in Seq(Buffers) /\ Accepting /\ source \in Source
  BY ShapeIsNumbers
  DEF Known, IInv, TypeOK, Int64, MinInt, HeapTypeOK, PhasesInOrder
<1>2. pc # "done" => out = <<>>
  BY <1>1 DEF ContentsInv, Working
<1>3. CASE RangeStep
  <2>1. /\ source' = source /\ UNCHANGED arrayVars
        /\ pc # "done" /\ pc' # "build"
        /\ source.use # "for" /\ pc' \in {"loop", "done"} =>
             pc = "loop" /\ UNCHANGED <<range, counter, index>>
    BY <1>3 DEF RangeStep, BuildRange, Trap, Turn, Leave
  <2>2. Length' = Length
    BY <2>1 DEF Length
  <2>3. ArrayFilled'
    BY <2>1, <2>2 DEF ContentsInv, ArrayFilled, Wanted, arrayVars
  <2> QED
    BY <1>1, <1>2, <2>1, <2>3, NotWorkingYet DEF arrayVars
<1>4. CASE AllocateArray
  <2>1. /\ source' = source /\ pc = "build" /\ pc' = "loop" /\ at' = at /\ out' = out
        /\ counter' = source.start /\ index' = index
        /\ range'.start = source.start /\ range'.step = StepOf(source)
    BY <1>4 DEF AllocateArray, BuildRange
  <2>2. index' = 0
    BY <2>1 DEF Known, FillInv
  <2>3. source.start \in Int /\ StepOf(source) \in Int
    <3>1. source \in Sources
      BY <1>1
    <3>2. StepOf(source) \in Int64 /\ source.start \in Int64
      BY <1>1, <3>1, StepIsWord DEF Sources
    <3> QED
      BY <3>2 DEF Int64, MinInt
  <2>4. Wanted(0)' = source.start
    BY <2>1, <2>3 DEF Wanted
  <2>5. ArrayFilled'
    BY <2>1, <2>2, <2>4 DEF ArrayFilled
  <2> QED
    BY <1>1, <1>2, <2>1, <2>5, NotWorkingYet
<1>5. CASE StoreElement
  <2>1. /\ source' = source /\ range' = range /\ code' = code /\ at' = at /\ out' = out
        /\ pc = "loop" /\ pc' = pc /\ source.use # "for" /\ index < Length
        /\ heap' = Stored(1, index, counter)
        /\ index' = index + 1 /\ counter' = Wrap(counter + range.step)
    BY <1>5 DEF StoreElement, Fill, Collect, Goes, Length
  <2>2. Len(heap) >= 1 /\ DOMAIN heap[1] = 1..Length
    BY <2>1 DEF Known, IInv, BuffersAreThere
  <2>3. 1 \in 1..Len(heap) /\ index + 1 \in DOMAIN heap[1]
    BY <1>1, <2>1, <2>2
  <2>4. \A p \in 1..Length :
          heap'[1][p] = IF p = index + 1 THEN counter ELSE heap[1][p]
    BY <1>1, <2>1, <2>2, <2>3, StoreAt
  <2>5. at = "range" /\ counter = Wanted(index)
    BY <1>1, <2>1 DEF ContentsInv, ArrayFilled
  <2>6. \A i \in Nat : i < index /\ i < Length => heap[1][i + 1] = Wanted(i)
    BY <2>1, <2>5 DEF ContentsInv, ArrayFilled
  <2>7. ASSUME NEW i \in Nat, i < index + 1, i < Length
        PROVE  heap'[1][i + 1] = Wanted(i)
    <3>1. i + 1 \in 1..Length
      BY <1>1, <2>7
    <3>2. CASE i = index
      BY <2>4, <2>5, <3>1, <3>2
    <3>3. CASE i # index
      <4>1. i < index /\ i + 1 # index + 1
        BY <1>1, <2>7, <3>3
      <4> QED
        BY <2>4, <2>6, <2>7, <3>1, <4>1
    <3> QED
      BY <3>2, <3>3
  <2>8. ASSUME index + 1 < Length
        PROVE  counter' = Wanted(index + 1)
    BY <1>1, <2>1, <2>5, <2>8, NextWanted
  <2>9. Length' = Length /\ \A i : Wanted(i)' = Wanted(i)
    BY <2>1 DEF Length, Wanted
  <2>10. ArrayFilled'
    BY <2>1, <2>7, <2>8, <2>9 DEF ArrayFilled
  <2> QED
    BY <1>1, <1>2, <2>1, <2>10, NotWorkingYet
<1> QED
  BY <1>3, <1>4, <1>5

(* Nothing is said of an operation while a second array is made.            *)
LEMMA NotWorkingStill ==
  ASSUME at' \in {"making", "made"}, out' = <<>>, ArrayFilled', OperandMade',
         at' = "made" => OperandKept'
  PROVE  ContentsInv'
BY DEF ContentsInv, ReadSoFar, AssignedSoFar, WalkedSoFar, Working

(* What making a second array or a matrix starts from.                      *)
LEMMA MakingShape ==
  ASSUME Known, ContentsInv, pc = "done", at \in {"range", "making"}, code.make # "nothing"
  PROVE  /\ RowCount \in Nat /\ ColCount \in Nat /\ Length \in Int
         /\ heap \in Seq(Buffers) /\ turn \in Nat /\ Accepting /\ source.use # "for"
         /\ Operand = 2 /\ out = <<>>
         /\ Len(heap) >= 1 /\ DOMAIN heap[1] = 1..Length
         /\ at = "range" => Len(heap) = 1
         /\ at = "making" => Len(heap) >= 2 /\ DOMAIN heap[2] = 1..RowCount * ColCount
         /\ code.make = "identity" => RowCount = ColCount
         /\ code.make # "identity" => RowCount * ColCount <= Length
         /\ \A i \in Nat : i < Length => heap[1][i + 1] = Wanted(i)
<1>1. /\ Accepting /\ heap \in Seq(Buffers) /\ turn \in Nat /\ BuffersAreThere
  BY DEF Known, IInv, HeapTypeOK
<1>2. /\ RowCount \in Nat /\ ColCount \in Int /\ Length \in Int
      /\ code \in Codes /\ MakingOk(source, code)
      /\ IsMatrix(code) => RowCount = code.rows /\ ColCount = code.cols
      /\ code.make = "array" => RowCount * ColCount <= Length
  BY <1>1, ShapeIsNumbers
<1>3. code.rows \in Nat /\ code.cols \in Nat
      /\ code.make \in {"nothing", "array", "matrix", "identity"}
  BY <1>2 DEF Codes
<1>4. ColCount = code.cols
  BY DEF ColCount, Cols
<1>5. source.use # "for"
  BY <1>1 DEF Accepting, CodeAccepted
<1>6. Operand = 2 /\ out = <<>>
  BY DEF Operand, ContentsInv, Working
<1>7. code.make = "identity" => RowCount = ColCount
  BY <1>2, <1>4 DEF MakingOk, IsMatrix
<1>8. code.make # "identity" => RowCount * ColCount <= Length
  <2>1. CASE code.make = "matrix"
    <3>1. RowCount = code.rows
      BY <1>2, <2>1 DEF IsMatrix
    <3>2. code.rows * code.cols <= LiteralRangeLength(source)
      BY <1>2, <2>1 DEF MakingOk
    <3> QED
      BY <1>4, <3>1, <3>2 DEF Length
  <2> QED
    BY <1>2, <1>3, <2>1
<1>9. /\ Len(heap) >= 1 /\ DOMAIN heap[1] = 1..Length
      /\ at = "range" => Len(heap) = 1
      /\ at = "making" => Len(heap) >= 2 /\ DOMAIN heap[2] = 1..RowCount * ColCount
  BY <1>1, <1>5 DEF BuffersAreThere
<1>10. \A i \in Nat : i < Length => heap[1][i + 1] = Wanted(i)
  <2>1. ~(index < Length) /\ index \in Nat
    BY <1>5 DEF Known, FillInv, TypeOK, Length
  <2>2. \A i \in Nat : i < index /\ i < Length => heap[1][i + 1] = Wanted(i)
    BY <1>5 DEF ContentsInv, ArrayFilled
  <2> QED
    BY <1>2, <2>1, <2>2
<1> QED
  BY <1>1, <1>2, <1>3, <1>4, <1>5, <1>6, <1>7, <1>8, <1>9, <1>10

(* The steps in which a second array or a matrix is made.                   *)
LEMMA MakingKeepsContents ==
  ASSUME Known, Known', ContentsInv,
         \/ AllocateLiteral \/ StoreLiteral \/ AllocateIdentity
         \/ StoreDiagonal \/ FinishMaking
  PROVE  ContentsInv'
<1> DEFINE total == RowCount * ColCount
<1>1. /\ pc = "done" /\ UNCHANGED <<vars, code>> /\ at \in {"range", "making"}
      /\ code.make # "nothing" /\ out' = out /\ at' \in {"making", "made"}
  BY DEF Known, IInv, PhasesInOrder, AllocateLiteral, StoreLiteral, AllocateIdentity,
         StoreDiagonal, FinishMaking, vars
<1>2. /\ RowCount \in Nat /\ ColCount \in Nat /\ Length \in Int
      /\ heap \in Seq(Buffers) /\ turn \in Nat
      /\ Operand = 2 /\ out = <<>>
      /\ Len(heap) >= 1 /\ DOMAIN heap[1] = 1..Length
      /\ at = "range" => Len(heap) = 1
      /\ at = "making" => Len(heap) >= 2 /\ DOMAIN heap[2] = 1..total
      /\ code.make = "identity" => RowCount = ColCount
      /\ code.make # "identity" => total <= Length
      /\ \A i \in Nat : i < Length => heap[1][i + 1] = Wanted(i)
  BY <1>1, MakingShape
<1>3. /\ total \in Nat
      /\ RowCount \in Nat /\ ColCount \in Int
  BY <1>2
<1>4. /\ RowCount' = RowCount /\ ColCount' = ColCount /\ Operand' = 2
      /\ \A i : Wanted(i)' = Wanted(i) /\ code' = code
  BY <1>1, <1>2, ProgramKept
<1>5. heap'[1] = heap[1] => ArrayFilled'
  BY <1>1, ArrayStays DEF ContentsInv
<1>6. \A row \in 0..RowCount - 1, col \in 0..ColCount - 1 :
        (row * ColCount) + col \in 0..total - 1
  BY <1>3, FlatIsInside
<1>7. \A row, col : OperandAt(row, col)' = heap'[2][(row * ColCount) + col + 1]
  BY <1>4 DEF OperandAt
<1>8. \A row, col : OperandAt(row, col) = heap[2][(row * ColCount) + col + 1]
  BY <1>2 DEF OperandAt
<1>9. CASE AllocateLiteral
  <2>1. /\ at = "range" /\ at' = "making" /\ turn' = 0
        /\ code.make \in {"array", "matrix"} /\ heap' = Append(heap, NewBuffer(total))
    BY <1>9 DEF AllocateLiteral
  <2>2. heap'[1] = heap[1]
    <3>1. NewBuffer(total) \in Buffers
      BY <1>3, NewIsBuffer
    <3> QED
      BY <1>2, <2>1, <3>1, AllocationKeepsBuffers
  <2>3. OperandMade'
    BY <1>4, <2>1 DEF OperandMade
  <2> QED
    BY <1>1, <1>2, <1>5, <2>1, <2>2, <2>3, NotWorkingStill
<1>10. CASE AllocateIdentity
  <2>1. /\ at = "range" /\ at' = "making" /\ turn' = 0
        /\ code.make = "identity" /\ heap' = Append(heap, Zeros(total))
    BY <1>10 DEF AllocateIdentity
  <2>2. heap'[1] = heap[1] /\ heap'[2] = Zeros(total)
    <3> DEFINE new == Zeros(total)
    <3>1. new \in Buffers
      BY <1>3, NewIsBuffer
    <3>2. heap' = Append(heap, new) /\ Len(heap) = 1 /\ heap \in Seq(Buffers)
      BY <1>2, <2>1
    <3> HIDE DEF new
    <3>3. Append(heap, new)[1] = heap[1] /\ Append(heap, new)[Len(heap) + 1] = new
      BY <3>1, <3>2, AllocationKeepsBuffers
    <3>4. Len(heap) + 1 = 2
      BY <3>2
    <3> QED
      BY <3>2, <3>3, <3>4 DEF new
  <2>3. ASSUME NEW row \in 0..RowCount - 1, NEW col \in 0..ColCount - 1
        PROVE  OperandAt(row, col)' = 0
    <3> DEFINE k == (row * ColCount) + col
    <3>1. k \in 0..total - 1
      BY <1>6
    <3> HIDE DEF k
    <3>2. heap'[2][k + 1] = 0
      BY <1>3, <2>2, <3>1 DEF Zeros
    <3> QED
      BY <1>7, <3>2 DEF k
  <2>4. OperandMade'
    BY <1>4, <2>1, <2>3 DEF OperandMade
  <2> QED
    BY <1>1, <1>2, <1>5, <2>1, <2>2, <2>4, NotWorkingStill
<1>11. CASE StoreLiteral
  <2> DEFINE offset == ((turn \div ColCount) * ColCount) + (turn % ColCount)
             v == Loaded(1, turn)
  <2>1. /\ at = "making" /\ at' = at /\ turn < total /\ turn' = turn + 1
        /\ code.make \in {"array", "matrix"}
        /\ heap' = Stored(2, offset, v)
    BY <1>11 DEF StoreLiteral
  <2>2. offset = turn
    <3>1. ColCount # 0
      <4>1. SUFFICES ASSUME ColCount = 0 PROVE FALSE
        OBVIOUS
      <4>2. total = 0
        BY <1>2, <4>1
      <4> QED
        BY <1>2, <2>1, <4>2
    <3> DEFINE n == ColCount
    <3>2. n \in Nat /\ n > 0
      BY <1>2, <3>1
    <3>3. turn \in Nat
      BY <1>2
    <3> HIDE DEF n
    <3>4. ((turn \div n) * n) + (turn % n) = turn
      BY <3>2, <3>3
    <3> QED
      BY <3>4 DEF n
  <2>3. v = Wanted(turn)
    <3>1. turn < Length /\ turn + 1 \in 1..Length
      BY <1>2, <1>3, <2>1
    <3> QED
      BY <1>2, <3>1 DEF Loaded
  <2> HIDE DEF offset, v, total
  <2>4. /\ heap'[1] = heap[1]
        /\ \A p \in 1..total : heap'[2][p] = IF p = turn + 1 THEN v ELSE heap[2][p]
    <3>1. heap \in Seq(Buffers)
      BY <1>2
    <3>2. 2 \in 1..Len(heap)
      BY <1>2, <2>1
    <3>3. DOMAIN heap[2] = 1..total
      BY <1>2, <2>1 DEF total
    <3>4. turn \in Nat
      BY <1>2
    <3>5. turn + 1 \in DOMAIN heap[2]
      BY <1>2, <1>3, <2>1, <3>3
    <3>6. heap' = Stored(2, turn, v)
      BY <2>1, <2>2
    <3>7. \A c \in 1..Len(heap) : c # 2 => heap'[c] = heap[c]
      BY <3>1, <3>2, <3>4, <3>5, <3>6, StoreAt
    <3>8. \A p \in DOMAIN heap[2] : heap'[2][p] = IF p = turn + 1 THEN v ELSE heap[2][p]
      BY <3>1, <3>2, <3>4, <3>5, <3>6, StoreAt
    <3>9. 1 \in 1..Len(heap)
      BY <1>2
    <3> QED
      BY <3>3, <3>7, <3>8, <3>9
  <2>5. \A i \in Nat : i < turn /\ i < total => heap[2][i + 1] = Wanted(i)
    BY <2>1 DEF ContentsInv, OperandMade, total
  <2>6. ASSUME NEW i \in Nat, i < turn + 1, i < total
        PROVE  heap'[2][i + 1] = Wanted(i)
    <3>1. i + 1 \in 1..total
      BY <1>3, <2>6
    <3>2. CASE i = turn
      BY <2>3, <2>4, <3>1, <3>2
    <3>3. CASE i # turn
      <4>1. i < turn /\ i + 1 # turn + 1
        BY <1>2, <2>6, <3>3
      <4> QED
        BY <2>4, <2>5, <2>6, <3>1, <4>1
    <3> QED
      BY <3>2, <3>3
  <2>7. OperandMade'
    BY <1>4, <2>1, <2>6 DEF OperandMade, total
  <2> QED
    BY <1>1, <1>2, <1>5, <2>1, <2>4, <2>7, NotWorkingStill
<1>12. CASE StoreDiagonal
  <2> DEFINE offset == (turn * ColCount) + turn
  <2>1. /\ at = "making" /\ at' = at /\ turn < RowCount /\ turn' = turn + 1
        /\ code.make = "identity" /\ heap' = Stored(2, offset, 1)
    BY <1>12 DEF StoreDiagonal
  <2>2. turn \in 0..RowCount - 1 /\ turn \in 0..ColCount - 1 /\ offset \in 0..total - 1
    <3>1. turn \in 0..RowCount - 1 /\ turn \in 0..ColCount - 1
      BY <1>2, <2>1
    <3> QED
      BY <1>6, <3>1
  <2> HIDE DEF offset, total
  <2>3. /\ heap'[1] = heap[1]
        /\ \A p \in 1..total : heap'[2][p] = IF p = offset + 1 THEN 1 ELSE heap[2][p]
    <3>1. heap \in Seq(Buffers)
      BY <1>2
    <3>2. 2 \in 1..Len(heap)
      BY <1>2, <2>1
    <3>3. DOMAIN heap[2] = 1..total
      BY <1>2, <2>1 DEF total
    <3>4. offset \in Nat
      BY <1>3, <2>2
    <3>5. offset + 1 \in DOMAIN heap[2]
      BY <1>3, <2>2, <3>3
    <3>6. heap' = Stored(2, offset, 1)
      BY <2>1, <2>2
    <3>7. \A c \in 1..Len(heap) : c # 2 => heap'[c] = heap[c]
      BY <3>1, <3>2, <3>4, <3>5, <3>6, StoreAt
    <3>8. \A p \in DOMAIN heap[2] : heap'[2][p] = IF p = offset + 1 THEN 1 ELSE heap[2][p]
      BY <3>1, <3>2, <3>4, <3>5, <3>6, StoreAt
    <3>9. 1 \in 1..Len(heap)
      BY <1>2
    <3> QED
      BY <3>3, <3>7, <3>8, <3>9
  <2>4. ASSUME NEW row \in 0..RowCount - 1, NEW col \in 0..ColCount - 1
        PROVE  OperandAt(row, col)' = IF row = col /\ row < turn + 1 THEN 1 ELSE 0
    <3> DEFINE k == (row * ColCount) + col
    <3>1. k \in 0..total - 1
      BY <1>6 DEF total
    <3>2. heap[2][k + 1] = IF row = col /\ row < turn THEN 1 ELSE 0
      BY <1>8, <2>1 DEF ContentsInv, OperandMade
    <3>3. k = offset => row = turn /\ col = turn
      <4>1. row \in Nat /\ turn \in Nat /\ ColCount \in Int
        BY <1>2
      <4>2. turn \in 0..ColCount - 1
        BY <2>2
      <4>3. (row * ColCount) + col = (turn * ColCount) + turn => row = turn /\ col = turn
        BY <4>1, <4>2, OffsetsDiffer
      <4> QED
        BY <4>3 DEF offset
    <3>4. row = turn /\ col = turn => k = offset
      BY DEF offset
    <3> HIDE DEF k
    <3>5. k + 1 \in 1..total /\ (k + 1 = offset + 1 <=> k = offset)
      BY <1>3, <2>2, <3>1 DEF total
    <3>6. heap'[2][k + 1] = IF k = offset THEN 1 ELSE heap[2][k + 1]
      BY <2>3, <3>5
    <3>7. row = col /\ row < turn + 1 <=> (row = col /\ row < turn) \/ (row = turn /\ col = turn)
      BY <1>2
    <3>8. OperandAt(row, col)' = heap'[2][k + 1]
      BY <1>7 DEF k
    <3> QED
      BY <3>2, <3>3, <3>4, <3>6, <3>7, <3>8
  <2>5. OperandMade'
    BY <1>4, <2>1, <2>4 DEF OperandMade
  <2> QED
    BY <1>1, <1>2, <1>5, <2>1, <2>3, <2>5, NotWorkingStill
<1>13. CASE FinishMaking
  <2>1. /\ at = "making" /\ at' = "made" /\ heap' = heap
        /\ turn = IF code.make = "identity" THEN RowCount ELSE total
    BY <1>13 DEF FinishMaking
  <2>2. OperandKept
    <3>1. CASE code.make = "identity"
      <4>1. ASSUME NEW row \in 0..RowCount - 1, NEW col \in 0..ColCount - 1
            PROVE  OperandAt(row, col) = Element(<<row, col>>)
        <5>1. OperandAt(row, col) = IF row = col /\ row < turn THEN 1 ELSE 0
          BY <2>1, <3>1 DEF ContentsInv, OperandMade
        <5>2. row < turn
          BY <1>2, <2>1, <3>1
        <5> QED
          BY <3>1, <5>1, <5>2 DEF Element
      <4> QED
        BY <4>1 DEF OperandKept
    <3>2. CASE code.make # "identity"
      <4>1. \A i \in Nat : i < total => heap[2][i + 1] = Wanted(i)
        BY <2>1, <3>2 DEF ContentsInv, OperandMade
      <4> QED
        BY <1>1, <1>2, <2>1, <3>2, <4>1, ElementsOfArray
    <3> QED
      BY <3>1, <3>2
  <2>3. OperandKept'
    BY <1>1, <2>1, <2>2, OperandStays
  <2>4. OperandMade'
    BY <2>1 DEF OperandMade
  <2> QED
    BY <1>1, <1>2, <1>5, <2>1, <2>3, <2>4, NotWorkingStill
<1> QED
  BY <1>9, <1>10, <1>11, <1>12, <1>13

(* While an operation works, its own part of the invariant is what counts.  *)
LEMMA WorkingNow ==
  ASSUME at' \in {"turning", "finished"}, ArrayFilled',
         ReadSoFar', AssignedSoFar', WalkedSoFar'
  PROVE  ContentsInv'
BY DEF ContentsInv, OperandMade, Working

(* What the slices that are assigned to look like.                          *)
LEMMA FillShape ==
  ASSUME Known, code.do \in {"assign", "add"}, ~Elementwise(code)
  PROVE  /\ RowCount = 1 /\ PartLeft \in Nat /\ PartCols \in Nat
         /\ PartLeft + PartCols <= ColCount /\ ~IsMatrix(code)
         /\ \A k : SliceOffset(k) = PartLeft + k
<1>1. Accepting /\ Selecting
  BY DEF Known, IInv, Selecting
<1>2. /\ RowCount \in Nat /\ ColCount \in Int /\ OperationOk(source, code)
      /\ ~IsMatrix(code) => RowCount = 1
  BY <1>1, ShapeIsNumbers
<1>3. ~IsMatrix(code) /\ code.col.form # "index"
  BY <1>2 DEF OperationOk, Elementwise
<1>4. ~CheckFails
  BY <1>3 DEF CheckFails
<1>5. PartLeft \in Nat /\ PartCols \in Nat /\ PartLeft + PartCols <= ColCount
  BY <1>1, <1>4, PartIsBlock
<1> QED
  BY <1>2, <1>3, <1>5 DEF SliceOffset, PartLeft

(* The beginning of an operation, and the operations of one step.           *)
LEMMA OperationKeepsContents ==
  ASSUME Known, Known', ContentsInv,
         \/ TrapIndex \/ ReadElement \/ AssignElement \/ AllocatePart
         \/ StartFill \/ StartWalk
  PROVE  ContentsInv'
<1> DEFINE total == RowCount * ColCount
<1>1. /\ code.do \in {"read", "assign", "add", "walk", "walkWithIndices"}
      /\ Begins(code.do) /\ UNCHANGED <<vars, code>>
      /\ at' \in {"trapped", "turning", "finished"}
  BY DEF TrapIndex, ReadElement, AssignElement, AllocatePart, StartFill, StartWalk, Begins
<1>2. /\ OperandKept /\ pc = "done" /\ code.do # "nothing"
      /\ code.make # "nothing" => at = "made"
      /\ out = <<>>
  BY <1>1, OperandReady
<1>3. /\ Operand \in 1..Len(heap) /\ DOMAIN heap[Operand] = 1..total
      /\ RowCount \in Nat /\ ColCount \in Int /\ heap \in Seq(Buffers)
      /\ Accepting /\ Operand \in {1, 2}
      /\ code.make # "nothing" => Operand = 2
      /\ \A row \in 0..RowCount - 1, col \in 0..ColCount - 1 :
           (row * ColCount) + col \in 0..total - 1
  BY <1>2, OperandShape DEF Operand
<1>4. /\ RowCount' = RowCount /\ ColCount' = ColCount /\ Operand' = Operand
      /\ PartRows' = PartRows /\ PartCols' = PartCols /\ PartLeft' = PartLeft
      /\ ElementOffset' = ElementOffset /\ Elementwise(code)' = Elementwise(code)
      /\ \A k : PartOffset(k)' = PartOffset(k)
      /\ \A row, col : Element(<<row, col>>)' = Element(<<row, col>>)
      /\ \A e : Assigned(e)' = Assigned(e)
      /\ code' = code /\ pc' = pc /\ at' # "range"
  BY <1>1, ProgramKept DEF vars
<1>5. code.make # "nothing" => Len(heap) >= 2
  BY <1>3
<1>6. (code.make # "nothing" => heap'[1] = heap[1]) => ArrayFilled'
  BY <1>1, <1>4, ArrayStays DEF ContentsInv
<1>7. heap'[Operand] = heap[Operand] => OperandKept'
  BY <1>1, <1>2, OperandStays
<1>8. CASE TrapIndex
  <2>1. at' = "trapped" /\ heap' = heap /\ out' = out
    BY <1>8 DEF TrapIndex
  <2> QED
    BY <1>2, <1>6, <2>1, NotWorkingYet
<1>9. CASE ReadElement
  <2>1. /\ at' = "finished" /\ heap' = heap /\ code.do = "read"
        /\ Elementwise(code) /\ ~CheckFails
        /\ out' = <<Loaded(Operand, ElementOffset)>>
    BY <1>9 DEF ReadElement, Begins
  <2>2. ElementOffset \in 0..total - 1
    BY <1>3, <2>1, ElementIsInside
  <2>3. total \in Int
    BY <1>3
  <2>4. ElementOffset + 1 \in DOMAIN heap[Operand]
    BY <1>3, <2>2, <2>3
  <2>5. out' = <<heap[Operand][ElementOffset + 1]>>
    BY <2>1, <2>4 DEF Loaded
  <2>6. ReadSoFar'
    BY <1>4, <1>7, <2>1, <2>5 DEF ReadSoFar
  <2>7. AssignedSoFar' /\ WalkedSoFar'
    BY <1>4, <2>1 DEF AssignedSoFar, WalkedSoFar
  <2> QED
    BY <1>6, <2>1, <2>6, <2>7, WorkingNow
<1>10. CASE AssignElement
  <2> DEFINE o == ElementOffset
             v == Assigned(Loaded(Operand, o))
             b == Operand
  <2>1. /\ at' = "finished" /\ code.do \in {"assign", "add"}
        /\ Elementwise(code) /\ ~CheckFails
        /\ heap' = Stored(b, o, v)
    BY <1>10 DEF AssignElement, Begins, Assigned
  <2>2. o \in 0..total - 1
    BY <1>3, <2>1, ElementIsInside
  <2>3. total \in Int
    BY <1>3
  <2>4. o + 1 \in DOMAIN heap[b]
    BY <1>3, <2>2, <2>3
  <2>5. o \in Nat
    BY <2>2
  <2>6. b \in 1..Len(heap)
    BY <1>3
  <2>7. heap \in Seq(Buffers)
    BY <1>3
  <2>8. Loaded(b, o) = heap[b][o + 1]
    BY <2>4 DEF Loaded
  <2>9. code.make # "nothing" => b = 2
    BY <1>3
  <2> HIDE DEF o, v, b, total
  <2>10. \A c \in 1..Len(heap) : c # b => heap'[c] = heap[c]
    BY <2>1, <2>4, <2>5, <2>6, <2>7, StoreAt
  <2>11. \A p \in DOMAIN heap[b] : heap'[b][p] = IF p = o + 1 THEN v ELSE heap[b][p]
    BY <2>1, <2>4, <2>5, <2>6, <2>7, StoreAt
  <2>12. code.make # "nothing" => heap'[1] = heap[1]
    BY <1>5, <2>7, <2>9, <2>10
  <2>13. ASSUME NEW row \in 0..RowCount - 1, NEW col \in 0..ColCount - 1
         PROVE  OperandAt(row, col)' =
                  IF (row * ColCount) + col = o THEN Assigned(Element(<<row, col>>))
                                                ELSE Element(<<row, col>>)
    <3> DEFINE k == (row * ColCount) + col
    <3>1. k \in 0..total - 1
      BY <1>3 DEF total
    <3>2. OperandAt(row, col) = heap[b][k + 1] /\ OperandAt(row, col)' = heap'[b][k + 1]
      BY <1>4 DEF OperandAt, b
    <3>3. OperandAt(row, col) = Element(<<row, col>>)
      BY <1>2 DEF OperandKept
    <3> HIDE DEF k
    <3>4. DOMAIN heap[b] = 1..total
      BY <1>3 DEF b, total
    <3>5. k + 1 \in DOMAIN heap[b] /\ (k + 1 = o + 1 <=> k = o)
      BY <2>3, <2>5, <3>1, <3>4
    <3>6. heap'[b][k + 1] = IF k = o THEN v ELSE heap[b][k + 1]
      BY <2>11, <3>5
    <3>7. k = o => v = Assigned(heap[b][k + 1])
      BY <2>8 DEF v, b
    <3>8. OperandAt(row, col)' = IF k = o THEN Assigned(Element(<<row, col>>))
                                          ELSE Element(<<row, col>>)
      BY <3>2, <3>3, <3>6, <3>7
    <3> QED
      BY <3>8 DEF k
  <2>14. AssignedSoFar'
    BY <1>4, <2>1, <2>13 DEF AssignedSoFar, o
  <2>15. ReadSoFar' /\ WalkedSoFar'
    BY <1>4, <2>1 DEF ReadSoFar, WalkedSoFar
  <2> QED
    BY <1>6, <2>1, <2>12, <2>14, <2>15, WorkingNow
<1>11. CASE AllocatePart
  <2> DEFINE size == PartRows * PartCols
             new == NewBuffer(size)
  <2>1. /\ at' = "turning" /\ turn' = 0 /\ code.do = "read"
        /\ ~Elementwise(code) /\ ~CheckFails /\ heap' = Append(heap, new)
    BY <1>11 DEF AllocatePart, Begins
  <2>2. size \in Int
    BY <1>3, <2>1, PartIsInside
  <2>3. new \in Buffers /\ DOMAIN new = 1..size
    BY <2>2, NewIsBuffer
  <2>4. heap \in Seq(Buffers)
    BY <1>3
  <2> HIDE DEF new, size
  <2>5. /\ Len(heap') = Len(heap) + 1 /\ heap'[Len(heap) + 1] = new
        /\ \A i \in 1..Len(heap) : heap'[i] = heap[i]
    BY <2>1, <2>3, <2>4, AllocationKeepsBuffers
  <2>6. heap'[Operand] = heap[Operand] /\ Len(heap') > Operand
    BY <1>3, <2>5
  <2>7. code.make # "nothing" => heap'[1] = heap[1]
    BY <1>5, <2>4, <2>5
  <2>8. DOMAIN heap'[Len(heap')] = 1..PartRows * PartCols
    BY <2>3, <2>5 DEF size
  <2>9. ReadSoFar'
    BY <1>4, <1>7, <2>1, <2>6, <2>8 DEF ReadSoFar
  <2>10. AssignedSoFar' /\ WalkedSoFar'
    BY <1>4, <2>1 DEF AssignedSoFar, WalkedSoFar
  <2> QED
    BY <1>6, <2>1, <2>7, <2>9, <2>10, WorkingNow
<1>12. CASE StartFill
  <2>1. /\ at' = "turning" /\ turn' = 0 /\ heap' = heap
        /\ code.do \in {"assign", "add"} /\ ~Elementwise(code)
    BY <1>12 DEF StartFill, Begins
  <2>2. RowCount = 1 /\ PartLeft \in Nat
    BY <2>1, FillShape
  <2>3. ASSUME NEW col \in 0..ColCount - 1
        PROVE  OperandAt(0, col)' = Element(<<0, col>>)
    <3>1. 0 \in 0..RowCount - 1
      BY <2>2
    <3>2. OperandAt(0, col) = Element(<<0, col>>)
      BY <1>2, <3>1 DEF OperandKept
    <3> QED
      BY <1>4, <2>1, <3>2 DEF OperandAt
  <2>4. \A col \in 0..ColCount - 1 : ~(PartLeft <= col /\ col < PartLeft + 0)
    BY <2>2
  <2>5. AssignedSoFar'
    BY <1>4, <2>1, <2>3, <2>4 DEF AssignedSoFar
  <2>6. ReadSoFar' /\ WalkedSoFar'
    BY <1>4, <2>1 DEF ReadSoFar, WalkedSoFar
  <2> QED
    BY <1>6, <2>1, <2>5, <2>6, WorkingNow
<1>13. CASE StartWalk
  <2>1. /\ at' = "turning" /\ turn' = 0 /\ heap' = heap /\ out' = <<>>
        /\ code.do \in {"walk", "walkWithIndices"}
    BY <1>2, <1>13 DEF StartWalk, Begins
  <2>2. out' \in Seq(Seq(Int)) /\ Len(out') = 0
    BY <2>1
  <2>3. \A k \in Nat : ~(k < 0)
    OBVIOUS
  <2>4. WalkedSoFar'
    BY <1>4, <1>7, <2>1, <2>2, <2>3 DEF WalkedSoFar
  <2>5. ReadSoFar' /\ AssignedSoFar'
    BY <1>4, <2>1 DEF ReadSoFar, AssignedSoFar
  <2> QED
    BY <1>6, <2>1, <2>4, <2>5, WorkingNow
<1> QED
  BY <1>8, <1>9, <1>10, <1>11, <1>12, <1>13

(* The turns of the loops.                                                  *)
LEMMA TurnKeepsContents ==
  ASSUME Known, Known', ContentsInv, CopyCell \/ FillCell \/ WalkCell \/ Finish
  PROVE  ContentsInv'
<1> DEFINE total == RowCount * ColCount
<1>1. /\ at = "turning" /\ UNCHANGED <<vars, code>> /\ at' \in {"turning", "finished"}
      /\ pc = "done" /\ code.do # "nothing"
  BY DEF CopyCell, FillCell, WalkCell, Finish, Known, IInv, PhasesInOrder
<1>2. Working /\ ReadSoFar /\ AssignedSoFar /\ WalkedSoFar
  BY <1>1 DEF ContentsInv, Working
<1>3. /\ Operand \in 1..Len(heap) /\ DOMAIN heap[Operand] = 1..total
      /\ RowCount \in Nat /\ ColCount \in Int /\ heap \in Seq(Buffers) /\ turn \in Nat
      /\ Accepting /\ Operand \in {1, 2}
      /\ code.make # "nothing" => Operand = 2
      /\ \A row \in 0..RowCount - 1, col \in 0..ColCount - 1 :
           (row * ColCount) + col \in 0..total - 1
  BY <1>1, OperandShape DEF Operand
<1>4. /\ RowCount' = RowCount /\ ColCount' = ColCount /\ Operand' = Operand
      /\ PartRows' = PartRows /\ PartCols' = PartCols /\ PartLeft' = PartLeft
      /\ ElementOffset' = ElementOffset /\ Elementwise(code)' = Elementwise(code)
      /\ IsMatrix(code)' = IsMatrix(code)
      /\ \A k : PartOffset(k)' = PartOffset(k)
      /\ \A row, col : Element(<<row, col>>)' = Element(<<row, col>>)
      /\ \A e : Assigned(e)' = Assigned(e)
      /\ code' = code /\ at' # "range"
  BY <1>1, ProgramKept
<1>5. code.make # "nothing" => Len(heap) >= 2
  BY <1>3
<1>6. (code.make # "nothing" => heap'[1] = heap[1]) => ArrayFilled'
  BY <1>1, <1>4, ArrayStays DEF ContentsInv
<1>7. OperandKept /\ heap'[Operand] = heap[Operand] => OperandKept'
  BY <1>1, OperandStays
<1>8. code.do \in {"read", "assign", "add"} => ~Elementwise(code) /\ ~CheckFails
  BY <1>1 DEF Known, IInv, PhasesInOrder
<1>9. total \in Int
  BY <1>3
<1>10. CASE CopyCell
  <2> DEFINE size == PartRows * PartCols
             from == PartOffset(turn)
             v == Loaded(Operand, from)
             b == Len(heap)
  <2>1. /\ code.do = "read" /\ turn < size /\ at' = "turning" /\ turn' = turn + 1
        /\ heap' = Stored(b, turn, v)
    BY <1>1, <1>10 DEF CopyCell
  <2>2. size \in Int /\ from \in 0..total - 1
    BY <1>3, <1>8, <2>1, PartIsInside
  <2>3. /\ OperandKept /\ Len(heap) > Operand /\ DOMAIN heap[b] = 1..size
        /\ \A k \in Nat : k < turn /\ k < size => heap[b][k + 1] = heap[Operand][PartOffset(k) + 1]
    BY <1>2, <1>8, <2>1 DEF ReadSoFar
  <2>4. v = heap[Operand][from + 1]
    <3>1. from + 1 \in DOMAIN heap[Operand]
      BY <1>3, <1>9, <2>2
    <3> QED
      BY <3>1 DEF Loaded
  <2>5. heap \in Seq(Buffers)
    BY <1>3
  <2>6. turn \in Nat
    BY <1>3
  <2>7. b \in 1..Len(heap)
    BY <1>3
  <2> HIDE DEF size, v, b, from
  <2>8. turn + 1 \in DOMAIN heap[b]
    BY <2>1, <2>2, <2>3, <2>6
  <2>9. Len(heap') = Len(heap) /\ \A c \in 1..Len(heap) : c # b => heap'[c] = heap[c]
    BY <2>1, <2>5, <2>6, <2>7, <2>8, StoreAt
  <2>10. \A p \in DOMAIN heap[b] : heap'[b][p] = IF p = turn + 1 THEN v ELSE heap[b][p]
    BY <2>1, <2>5, <2>6, <2>7, <2>8, StoreAt
  <2>11. Operand # b /\ heap'[Operand] = heap[Operand]
    BY <1>3, <2>3, <2>9 DEF b
  <2>12. code.make # "nothing" => heap'[1] = heap[1]
    BY <1>3, <1>5, <2>3, <2>9 DEF b
  <2>13. ASSUME NEW k \in Nat, k < turn + 1, k < size
         PROVE  heap'[b][k + 1] = heap'[Operand][PartOffset(k) + 1]
    <3>1. k + 1 \in DOMAIN heap[b]
      BY <2>2, <2>3, <2>13
    <3>2. CASE k = turn
      BY <2>4, <2>10, <2>11, <3>1, <3>2 DEF from
    <3>3. CASE k # turn
      <4>1. k < turn /\ k + 1 # turn + 1
        BY <2>6, <2>13, <3>3
      <4> QED
        BY <2>3, <2>10, <2>11, <2>13, <3>1, <4>1
    <3> QED
      BY <3>2, <3>3
  <2>14. Len(heap') = b /\ Len(heap') > Operand
    BY <2>3, <2>9 DEF b
  <2>15. DOMAIN heap'[Len(heap')] = 1..PartRows * PartCols
    BY <1>4, <2>1 DEF Known, IInv, BuffersAreThere
  <2>16. ReadSoFar'
    BY <1>4, <1>7, <1>8, <2>1, <2>3, <2>11, <2>13, <2>14, <2>15 DEF ReadSoFar, size
  <2>17. AssignedSoFar' /\ WalkedSoFar'
    BY <1>4, <2>1 DEF AssignedSoFar, WalkedSoFar
  <2> QED
    BY <1>1, <1>6, <2>12, <2>16, <2>17, WorkingNow
<1>11. CASE FillCell
  <2> DEFINE o == SliceOffset(turn)
             b == Operand
  <2>1. /\ code.do \in {"assign", "add"} /\ turn < PartCols /\ at' = "turning"
        /\ turn' = turn + 1 /\ heap' = Stored(b, o, Value)
    BY <1>1, <1>11 DEF FillCell
  <2>2. ~Elementwise(code)
    BY <1>8, <2>1
  <2>3. /\ RowCount = 1 /\ PartLeft \in Nat /\ PartCols \in Nat
        /\ PartLeft + PartCols <= ColCount /\ o = PartLeft + turn
    BY <2>1, <2>2, FillShape
  <2>4. heap \in Seq(Buffers)
    BY <1>3
  <2>5. turn \in Nat
    BY <1>3
  <2>6. o \in Nat
    BY <2>3, <2>5
  <2>7. b \in 1..Len(heap)
    BY <1>3
  <2>8. total = ColCount /\ DOMAIN heap[b] = 1..ColCount
    BY <1>3, <2>3
  <2>9. code.make # "nothing" => b = 2
    BY <1>3
  <2> HIDE DEF o, b, total
  <2>10. o + 1 \in DOMAIN heap[b]
    BY <1>3, <2>1, <2>3, <2>5, <2>8
  <2>11. \A c \in 1..Len(heap) : c # b => heap'[c] = heap[c]
    BY <2>1, <2>4, <2>6, <2>7, <2>10, StoreAt
  <2>12. \A p \in DOMAIN heap[b] : heap'[b][p] = IF p = o + 1 THEN Value ELSE heap[b][p]
    BY <2>1, <2>4, <2>6, <2>7, <2>10, StoreAt
  <2>13. code.make # "nothing" => heap'[1] = heap[1]
    BY <1>5, <2>4, <2>9, <2>11
  <2>14. ASSUME NEW col \in 0..ColCount - 1
         PROVE  OperandAt(0, col)' =
                  IF PartLeft <= col /\ col < PartLeft + (turn + 1) THEN Value
                                                                    ELSE Element(<<0, col>>)
    <3>1. (0 * ColCount) + col = col
      BY <1>3
    <3>2. OperandAt(0, col) = heap[b][col + 1] /\ OperandAt(0, col)' = heap'[b][col + 1]
      BY <1>4, <3>1 DEF OperandAt, b
    <3>3. OperandAt(0, col) = IF PartLeft <= col /\ col < PartLeft + turn
                              THEN Value ELSE Element(<<0, col>>)
      BY <1>2, <2>1, <2>2 DEF AssignedSoFar
    <3>4. col + 1 \in DOMAIN heap[b]
      BY <1>3, <2>8
    <3>5. heap'[b][col + 1] = IF col = PartLeft + turn THEN Value ELSE heap[b][col + 1]
      BY <2>3, <2>5, <2>12, <3>4
    <3>6. PartLeft <= col /\ col < PartLeft + (turn + 1) <=>
            col = PartLeft + turn \/ (PartLeft <= col /\ col < PartLeft + turn)
      BY <2>3, <2>5
    <3> QED
      BY <3>2, <3>3, <3>5, <3>6
  <2>15. AssignedSoFar'
    BY <1>4, <2>1, <2>2, <2>14 DEF AssignedSoFar
  <2>16. ReadSoFar' /\ WalkedSoFar'
    BY <1>4, <2>1 DEF ReadSoFar, WalkedSoFar
  <2> QED
    BY <1>1, <1>6, <2>13, <2>15, <2>16, WorkingNow
<1>12. CASE WalkCell
  <2> DEFINE given == Given(turn)
  <2>1. /\ code.do \in {"walk", "walkWithIndices"} /\ turn < total /\ at' = "turning"
        /\ turn' = turn + 1 /\ heap' = heap
        /\ out' = Append(out, Binders(Loaded(Operand, turn)))
    BY <1>1, <1>12 DEF WalkCell
  <2>2. /\ OperandKept /\ out \in Seq(Seq(Int)) /\ Len(out) = turn
        /\ \A k \in Nat : k < turn => out[k + 1] = Given(k)
    BY <1>2, <2>1 DEF WalkedSoFar
  <2>3. turn \in Nat
    BY <1>3
  <2>4. Loaded(Operand, turn) = heap[Operand][turn + 1]
    <3>1. turn + 1 \in DOMAIN heap[Operand]
      BY <1>3, <1>9, <2>1, <2>3
    <3> QED
      BY <3>1 DEF Loaded
  <2>5. Binders(Loaded(Operand, turn)) = given
    BY <2>4 DEF Binders, Given
  <2>6. given \in Seq(Int)
    <3>1. Loaded(Operand, turn) \in Int
      <4>1. turn \in Int
        BY <2>3
      <4> QED
        BY <1>3, <4>1, CellsAreNumbers
    <3> DEFINE n == ColCount
    <3>2. IsMatrix(code) => turn \div n \in Int /\ turn % n \in Int
      <4>1. SUFFICES ASSUME IsMatrix(code)
                     PROVE  turn \div n \in Int /\ turn % n \in Int
        OBVIOUS
      <4>2. n \in Nat
        <5>1. code \in Codes /\ ColCount = code.cols
          BY <1>3, <4>1, ShapeIsNumbers
        <5> QED
          BY <5>1 DEF Codes
      <4>3. n # 0
        <5>1. SUFFICES ASSUME n = 0 PROVE FALSE
          OBVIOUS
        <5>2. total = 0
          BY <1>3, <5>1
        <5> QED
          BY <2>1, <2>3, <5>2
      <4> HIDE DEF n
      <4> QED
        BY <2>3, <4>2, <4>3
    <3> HIDE DEF n
    <3>3. heap[Operand][turn + 1] \in Int
      BY <2>4, <3>1
    <3> QED
      BY <2>3, <3>2, <3>3 DEF Given, n
  <2> HIDE DEF given
  <2>7. out' = Append(out, given)
    BY <2>1, <2>5
  <2>8. out' \in Seq(Seq(Int)) /\ Len(out') = turn + 1 /\ out'[turn + 1] = given
        /\ \A i \in 1..turn : out'[i] = out[i]
    BY <2>2, <2>3, <2>6, <2>7
  <2>9. \A k : Given(k)' = Given(k)
    BY <1>4, <2>1 DEF Given
  <2>10. ASSUME NEW k \in Nat, k < turn + 1
         PROVE  out'[k + 1] = Given(k)
    <3>1. CASE k = turn
      BY <2>8, <3>1 DEF given
    <3>2. CASE k # turn
      <4>1. k < turn /\ k + 1 \in 1..turn
        BY <2>3, <2>10, <3>2
      <4> QED
        BY <2>2, <2>8, <4>1
    <3> QED
      BY <3>1, <3>2
  <2>11. WalkedSoFar'
    BY <1>4, <1>7, <2>1, <2>2, <2>8, <2>9, <2>10 DEF WalkedSoFar
  <2>12. ReadSoFar' /\ AssignedSoFar'
    BY <1>4, <2>1 DEF ReadSoFar, AssignedSoFar
  <2> QED
    BY <1>1, <1>6, <2>1, <2>11, <2>12, WorkingNow
<1>13. CASE Finish
  <2>1. /\ at' = "finished" /\ UNCHANGED <<heap, turn, out>>
        /\ turn = CASE code.do = "read" -> PartRows * PartCols
                    [] code.do \in {"assign", "add"} -> PartCols
                    [] OTHER -> total
    BY <1>13 DEF Finish
  <2>2. /\ code.do = "read" => turn = PartRows * PartCols
        /\ code.do \in {"assign", "add"} => turn = PartCols
        /\ code.do \in {"walk", "walkWithIndices"} => turn = total
    BY <2>1
  <2>3. /\ \A row, col : OperandAt(row, col)' = OperandAt(row, col)
        /\ \A k : Given(k)' = Given(k)
    BY <1>4, <2>1 DEF OperandAt, Given
  <2>4. ReadSoFar'
    BY <1>2, <1>4, <1>7, <2>1, <2>2 DEF ReadSoFar
  <2>5. AssignedSoFar'
    BY <1>2, <1>4, <2>1, <2>2, <2>3 DEF AssignedSoFar
  <2>6. WalkedSoFar'
    BY <1>2, <1>4, <1>7, <2>1, <2>2, <2>3 DEF WalkedSoFar
  <2> QED
    BY <1>1, <1>6, <2>1, <2>4, <2>5, <2>6, WorkingNow
<1> QED
  BY <1>10, <1>11, <1>12, <1>13

(* Every step of the generated code keeps this.                             *)
LEMMA StepKeepsContents ==
  ASSUME Known, Known', ContentsInv, [ArrayNext]_<<vars, arrayVars>>
  PROVE  ContentsInv'
<1>1. CASE UNCHANGED <<vars, arrayVars>>
  <2>1. UNCHANGED <<vars, code>> /\ UNCHANGED <<at, heap, turn, out>> /\ code' = code
    BY <1>1 DEF arrayVars
  <2>2. /\ RowCount' = RowCount /\ ColCount' = ColCount /\ Operand' = Operand
        /\ PartRows' = PartRows /\ PartCols' = PartCols /\ PartLeft' = PartLeft
        /\ ElementOffset' = ElementOffset /\ Elementwise(code)' = Elementwise(code)
        /\ \A k : PartOffset(k)' = PartOffset(k)
        /\ \A i : Wanted(i)' = Wanted(i)
        /\ \A row, col : Element(<<row, col>>)' = Element(<<row, col>>)
        /\ \A e : Assigned(e)' = Assigned(e)
    BY <2>1, ProgramKept
  <2>3. /\ \A row, col : OperandAt(row, col)' = OperandAt(row, col)
        /\ \A k : Given(k)' = Given(k)
        /\ OperandKept => OperandKept'
    BY <2>1, <2>2, OperandStays DEF OperandAt, Given
  <2>4. ArrayFilled' /\ OperandMade'
    BY <2>1, <2>2, <2>3, ArrayStays DEF ContentsInv, OperandMade
  <2>5. ReadSoFar' /\ AssignedSoFar' /\ WalkedSoFar'
    BY <2>1, <2>2, <2>3 DEF ContentsInv, ReadSoFar, AssignedSoFar, WalkedSoFar, Working
  <2> QED
    BY <2>1, <2>3, <2>4, <2>5 DEF ContentsInv, Working
<1> QED
  BY <1>1, FillingKeepsContents, MakingKeepsContents, OperationKeepsContents,
     TurnKeepsContents DEF ArrayNext

(* The cells of every run hold what the program says.                       *)
LEMMA ContentsCorrect == ArraySpec => [](Known /\ ContentsInv /\ EndsAsChecked)
<1>1. ArrayInit => IInv /\ ContentsInv
  <2>1. ArrayInit => pc = "build" /\ at = "range" /\ out = <<>>
    BY DEF ArrayInit, Init
  <2> QED
    BY <2>1, InitEstablishes
    DEF ContentsInv, ArrayFilled, OperandMade, ReadSoFar, AssignedSoFar, WalkedSoFar, Working
<1>2. ArraySpec => []TypeOK /\ []FillInv
  BY ImplementsRanges, TypeCorrect, FillCorrect, PTL
<1>3. ArraySpec => []IInv /\ []EndsAsChecked
  BY OutcomeIsChecked, PTL
<1>4. TypeOK /\ FillInv /\ IInv <=> Known
  BY DEF Known
<1>5. Known /\ Known' /\ ContentsInv /\ [ArrayNext]_<<vars, arrayVars>> => ContentsInv'
  BY StepKeepsContents
<1>6. ArraySpec => []Known
  BY <1>2, <1>3, <1>4, PTL
<1>7. ArraySpec => []ContentsInv
  BY <1>1, <1>5, <1>6, PTL DEF ArraySpec
<1> QED
  BY <1>3, <1>6, <1>7, PTL

-----------------------------------------------------------------------------
(* The theorems.                                                            *)

(* The operand of a finished operation is a block of places.                *)
LEMMA WholeIsBlock ==
  ASSUME Known, ContentsInv, EndsAsChecked, at = "finished", code.do # "nothing"
  PROVE  /\ RowCount \in Nat /\ ColCount \in Nat /\ Whole = Block(0, RowCount, 0, ColCount)
         /\ DOMAIN heap[Operand] = 1..RowCount * ColCount
         /\ Accepting
         /\ ~IsMatrix(code) => RowCount = 1
<1>1. Accepting /\ turn \in Nat /\ pc = "done" /\ code \in Codes
  BY ShapeIsNumbers DEF Known, IInv, HeapTypeOK, PhasesInOrder
<1>2. /\ RowCount \in Nat /\ ColCount \in Int
      /\ DOMAIN heap[Operand] = 1..RowCount * ColCount
  BY <1>1, OperandShape
<1>3. ~IsMatrix(code) => RowCount = 1
  BY <1>1, ShapeIsNumbers
<1>4. ColCount \in Nat
  <2>1. CASE Selecting
    <3>1. ~CheckFails
      BY <2>1 DEF EndsAsChecked
    <3>2. CASE Elementwise(code)
      <4>1. \E col \in 0..ColCount - 1 : TRUE
        BY <1>1, <3>1, <3>2, ElementIsPlace
      <4> QED
        BY <1>2, <4>1
    <3>3. CASE ~Elementwise(code)
      <4>1. PartLeft \in Nat /\ PartCols \in Nat /\ PartLeft + PartCols <= ColCount
        BY <1>1, <2>1, <3>1, <3>3, PartIsBlock
      <4> QED
        BY <1>2, <4>1
    <3> QED
      BY <3>2, <3>3
  <2>2. CASE ~Selecting
    <3>1. turn = RowCount * ColCount
      <4>1. code.do \in {"walk", "walkWithIndices"}
        BY <1>1, <2>2 DEF Codes, Selecting
      <4> QED
        BY <4>1 DEF ContentsInv, WalkedSoFar, Working
    <3>2. CASE IsMatrix(code)
      <4>1. ColCount = code.cols
        BY <1>1, <3>2, ShapeIsNumbers
      <4> QED
        BY <1>1, <4>1 DEF Codes
    <3>3. CASE ~IsMatrix(code)
      BY <1>1, <1>2, <1>3, <3>1, <3>3
    <3> QED
      BY <3>2, <3>3
  <2> QED
    BY <2>1, <2>2
<1>5. Whole = Block(0, RowCount, 0, ColCount)
  BY <1>2 DEF Whole, Block
<1> QED
  BY <1>1, <1>2, <1>3, <1>4, <1>5

(* Whatever a program reads of an array or a matrix, by indices from either *)
(* end, by slices or by whole rows and columns, it gets the elements it     *)
(* names, in order, however large the array is and wherever its range lies. *)
THEOREM ReadsAreExact == ArraySpec => []SelectsItsPart
<1>1. ASSUME Known, ContentsInv, EndsAsChecked, at = "finished", code.do = "read"
      PROVE  Lists(IF Elementwise(code) THEN out ELSE heap[Len(heap)],
                   [place \in Part |-> Element(place)])
  <2> DEFINE content == [place \in Part |-> Element(place)]
  <2>1. /\ Accepting /\ Selecting /\ ~CheckFails /\ OperandKept /\ ReadSoFar /\ Working
    BY <1>1 DEF Known, IInv, EndsAsChecked, Selecting, ContentsInv, ReadSoFar, Working
  <2>2. CASE Elementwise(code)
    <3>1. PICK row \in 0..RowCount - 1, col \in 0..ColCount - 1 :
            Part = Block(row, 1, col, 1) /\ ElementOffset = (row * ColCount) + col
      BY <2>1, <2>2, ElementIsPlace
    <3>2. out = <<OperandAt(row, col)>>
      BY <1>1, <2>1, <2>2, <3>1 DEF ReadSoFar, OperandAt
    <3>3. OperandAt(row, col) = Element(<<row, col>>)
      BY <2>1 DEF OperandKept
    <3>4. <<row, col>> \in Part
      <4>1. row \in row..row + 1 - 1 /\ col \in col..col + 1 - 1
        OBVIOUS
      <4> QED
        BY <3>1, <4>1 DEF Block
    <3>5. DOMAIN content = Block(row, 1, col, 1) /\ content[<<row, col>>] = Element(<<row, col>>)
      BY <3>1, <3>4
    <3> HIDE DEF content
    <3>6. DOMAIN out = 1..1 * 1
      BY <3>2
    <3>7. \A i \in 0..1 - 1, j \in 0..1 - 1 :
            out[(i * 1) + j + 1] = content[<<row + i, col + j>>]
      <4> SUFFICES ASSUME NEW i \in 0..1 - 1, NEW j \in 0..1 - 1
                   PROVE  out[(i * 1) + j + 1] = content[<<row + i, col + j>>]
        OBVIOUS
      <4>1. (i * 1) + j + 1 = 1 /\ row + i = row /\ col + j = col
        OBVIOUS
      <4> QED
        BY <3>2, <3>3, <3>5, <4>1
    <3>8. row \in Int
      OBVIOUS
    <3>9. col \in Int
      OBVIOUS
    <3> DEFINE one == 1
    <3>10. one \in Nat
      OBVIOUS
    <3>11. /\ DOMAIN content = Block(row, one, col, one) /\ DOMAIN out = 1..one * one
           /\ RowByRow(out, content, row, one, col, one)
      BY <3>5, <3>6, <3>7 DEF RowByRow
    <3> HIDE DEF one
    <3>12. Lists(out, content)
      BY <3>8, <3>9, <3>10, <3>11, BlockIsListed
    <3> QED
      BY <2>2, <3>12 DEF content
  <2>3. CASE ~Elementwise(code)
    <3> DEFINE cells == heap[Len(heap)]
    <3>1. /\ PartTop \in Nat /\ PartRows \in Nat /\ PartTop + PartRows <= RowCount
          /\ PartLeft \in Nat /\ PartCols \in Nat /\ PartLeft + PartCols <= ColCount
          /\ Part = Block(PartTop, PartRows, PartLeft, PartCols)
      BY <2>1, <2>3, PartIsBlock
    <3>2. /\ DOMAIN cells = 1..PartRows * PartCols /\ turn = PartRows * PartCols
          /\ \A k \in Nat : k < turn => cells[k + 1] = heap[Operand][PartOffset(k) + 1]
      BY <1>1, <2>1, <2>3 DEF ReadSoFar
    <3> HIDE DEF cells
    <3>3. ASSUME NEW i \in 0..PartRows - 1, NEW j \in 0..PartCols - 1
          PROVE  cells[(i * PartCols) + j + 1] = content[<<PartTop + i, PartLeft + j>>]
      <4> DEFINE k == (i * PartCols) + j
                 row == PartTop + i
                 col == PartLeft + j
                 total == PartRows * PartCols
      <4>1. k \in 0..total - 1
        BY <3>1, FlatIsInside
      <4>2. total \in Int
        BY <3>1
      <4>3. /\ row \in 0..RowCount - 1 /\ col \in 0..ColCount - 1
            /\ PartOffset(k) = (row * ColCount) + col
        BY <2>1, <2>3, PartIsFound
      <4>4. <<row, col>> \in Part
        <5>1. row \in PartTop..PartTop + PartRows - 1 /\ col \in PartLeft..PartLeft + PartCols - 1
          BY <3>1
        <5> QED
          BY <3>1, <5>1 DEF Block
      <4>5. content[<<row, col>>] = Element(<<row, col>>)
        BY <4>4
      <4> HIDE DEF k, row, col, content, total
      <4>6. OperandAt(row, col) = Element(<<row, col>>)
        BY <2>1, <4>3 DEF OperandKept
      <4>7. cells[k + 1] = heap[Operand][PartOffset(k) + 1]
        BY <3>2, <4>1, <4>2 DEF total
      <4>8. cells[k + 1] = OperandAt(row, col)
        BY <4>3, <4>7 DEF OperandAt
      <4>9. cells[k + 1] = content[<<row, col>>]
        BY <4>5, <4>6, <4>8
      <4> QED
        BY <4>9 DEF k, row, col
    <3>4. DOMAIN content = Block(PartTop, PartRows, PartLeft, PartCols)
      BY <3>1
    <3> HIDE DEF content
    <3>5. PartTop \in Int
      BY <3>1
    <3>6. PartLeft \in Int
      BY <3>1
    <3>7. RowByRow(cells, content, PartTop, PartRows, PartLeft, PartCols)
      BY <3>3 DEF RowByRow
    <3>8. PartRows \in Nat
      BY <3>1
    <3>9. PartCols \in Nat
      BY <3>1
    <3>10. Lists(cells, content)
      BY <3>2, <3>4, <3>5, <3>6, <3>7, <3>8, <3>9, BlockIsListed
    <3> QED
      BY <2>3, <3>10 DEF content, cells
  <2> QED
    BY <2>2, <2>3
<1>2. Known /\ ContentsInv /\ EndsAsChecked => SelectsItsPart
  BY <1>1 DEF SelectsItsPart
<1> QED
  BY <1>2, ContentsCorrect, PTL

(* What an assignment makes of the place, in the words of AssignsItsPart.   *)
Changed(place) ==
  IF place \notin Part THEN Element(place)
  ELSE IF code.do = "add" THEN Wrap(Element(place) + Value) ELSE Value

(* The cells of a changed operand, by rows and columns.                     *)
LEMMA ChangedByPlace ==
  ASSUME Known, ContentsInv, EndsAsChecked, at = "finished",
         code.do = "assign" \/ (code.do = "add" /\ Elementwise(code)),
         NEW row \in 0..RowCount - 1, NEW col \in 0..ColCount - 1
  PROVE  OperandAt(row, col) = Changed(<<row, col>>)
<1>1. /\ Accepting /\ Selecting /\ ~CheckFails /\ AssignedSoFar /\ Working
  BY DEF Known, IInv, EndsAsChecked, Selecting, ContentsInv, Working
<1>2. RowCount \in Nat /\ ColCount \in Nat
  BY WholeIsBlock
<1>3. CASE Elementwise(code)
  <2>1. PICK r \in 0..RowCount - 1, c \in 0..ColCount - 1 :
          Part = Block(r, 1, c, 1) /\ ElementOffset = (r * ColCount) + c
    BY <1>1, <1>3, ElementIsPlace
  <2>2. <<row, col>> \in Part <=> row = r /\ col = c
    <3>1. \A x \in Int : x..x + 1 - 1 = {x}
      OBVIOUS
    <3>2. Part = {r} \X {c}
      BY <2>1, <3>1 DEF Block
    <3> QED
      BY <3>2
  <2>3. (row * ColCount) + col = ElementOffset <=> row = r /\ col = c
    <3>1. row \in Nat /\ r \in Nat /\ ColCount \in Int
      BY <1>2
    <3>2. (row * ColCount) + col = (r * ColCount) + c => row = r /\ col = c
      BY <3>1, OffsetsDiffer
    <3> QED
      BY <2>1, <3>2
  <2>4. OperandAt(row, col) =
          IF (row * ColCount) + col = ElementOffset THEN Assigned(Element(<<row, col>>))
                                                    ELSE Element(<<row, col>>)
    BY <1>1, <1>3 DEF AssignedSoFar
  <2> QED
    BY <2>2, <2>3, <2>4 DEF Changed, Assigned
<1>4. CASE ~Elementwise(code)
  <2>1. /\ RowCount = 1 /\ PartLeft \in Nat /\ PartCols \in Nat /\ ~IsMatrix(code)
        /\ code.do = "assign"
    BY <1>4, FillShape
  <2>2. PartTop = 0 /\ PartRows = 1
    BY <2>1 DEF PartTop, PartRows
  <2>3. row = 0
    BY <2>1
  <2>4. <<row, col>> \in Part <=> PartLeft <= col /\ col < PartLeft + PartCols
    <3>1. Part = Block(0, 1, PartLeft, PartCols)
      BY <1>1, <1>4, <2>2, PartIsBlock
    <3> QED
      BY <2>1, <2>3, <3>1 DEF Block
  <2>5. OperandAt(0, col) = IF PartLeft <= col /\ col < PartLeft + PartCols
                            THEN Value ELSE Element(<<0, col>>)
    BY <1>1, <1>4 DEF AssignedSoFar
  <2> QED
    BY <2>1, <2>3, <2>4, <2>5 DEF Changed
<1> QED
  BY <1>3, <1>4

(* The array a second one was built from is as the range filled it.         *)
LEMMA FirstArrayIsKept ==
  ASSUME Known, ContentsInv, at = "finished", Operand = 2
  PROVE  heap[1] = [i \in 1..Length |-> range.start + ((i - 1) * range.step)]
<1>1. /\ Accepting /\ heap \in Seq(Buffers) /\ BuffersAreThere /\ pc = "done"
      /\ code.make # "nothing"
  BY DEF Known, IInv, HeapTypeOK, PhasesInOrder, Operand
<1>2. source.use # "for" /\ Length \in Int
  BY <1>1, ShapeIsNumbers DEF Accepting, CodeAccepted
<1>3. Len(heap) >= 1 /\ DOMAIN heap[1] = 1..Length
  BY <1>1, <1>2 DEF BuffersAreThere
<1>4. heap[1] \in Buffers
  BY <1>1, <1>3
<1>5. PICK n \in Int : heap[1] \in [1..n -> Int]
  BY <1>4 DEF Buffers
<1>6. \A i \in Nat : i < Length => heap[1][i + 1] = Wanted(i)
  <2>1. ~(index < Length) /\ index \in Nat
    BY <1>1, <1>2 DEF Known, FillInv, TypeOK, Length
  <2>2. \A i \in Nat : i < index /\ i < Length => heap[1][i + 1] = Wanted(i)
    BY <1>1, <1>2 DEF ContentsInv, ArrayFilled
  <2> QED
    BY <1>2, <2>1, <2>2
<1>7. ASSUME NEW i \in 1..Length
      PROVE  heap[1][i] = range.start + ((i - 1) * range.step)
  <2> DEFINE k == i - 1
  <2>1. k \in Nat /\ k < Length /\ k + 1 = i
    BY <1>2
  <2>2. heap[1][k + 1] = Wanted(k)
    BY <1>6, <2>1
  <2> QED
    BY <2>1, <2>2 DEF Wanted
<1> QED
  BY <1>3, <1>5, <1>7

(* An assignment changes exactly the elements it names, and nothing of the  *)
(* array that its own was built from.                                       *)
THEOREM AssignmentsAreExact == ArraySpec => []AssignsItsPart
<1>1. ASSUME Known, ContentsInv, EndsAsChecked, at = "finished",
             code.do = "assign" \/ (code.do = "add" /\ Elementwise(code))
      PROVE  Lists(heap[Operand], [place \in Whole |-> Changed(place)])
  <2> DEFINE content == [place \in Whole |-> Changed(place)]
             cells == heap[Operand]
  <2>1. /\ RowCount \in Nat /\ ColCount \in Nat /\ Whole = Block(0, RowCount, 0, ColCount)
        /\ DOMAIN cells = 1..RowCount * ColCount
    BY <1>1, WholeIsBlock
  <2>2. ASSUME NEW i \in 0..RowCount - 1, NEW j \in 0..ColCount - 1
        PROVE  cells[(i * ColCount) + j + 1] = content[<<0 + i, 0 + j>>]
    <3>1. 0 + i = i /\ 0 + j = j /\ <<i, j>> \in Whole
      BY DEF Whole
    <3>2. OperandAt(i, j) = Changed(<<i, j>>)
      BY <1>1, ChangedByPlace
    <3> QED
      BY <3>1, <3>2 DEF OperandAt
  <2>3. DOMAIN content = Block(0, RowCount, 0, ColCount)
    BY <2>1
  <2> HIDE DEF content, cells
  <2> DEFINE zero == 0
  <2>4. RowByRow(cells, content, zero, RowCount, zero, ColCount)
    BY <2>2 DEF RowByRow
  <2>5. RowCount \in Nat
    BY <2>1
  <2>6. ColCount \in Nat
    BY <2>1
  <2>7. zero \in Int
    OBVIOUS
  <2>8. /\ DOMAIN content = Block(zero, RowCount, zero, ColCount)
        /\ DOMAIN cells = 1..RowCount * ColCount
    BY <2>1, <2>3
  <2> HIDE DEF zero
  <2>9. Lists(cells, content)
    BY <2>4, <2>5, <2>6, <2>7, <2>8, BlockIsListed
  <2> QED
    BY <2>9 DEF content, cells
<1>2. Known /\ ContentsInv /\ EndsAsChecked => AssignsItsPart
  BY <1>1, FirstArrayIsKept DEF AssignsItsPart, Changed
<1> QED
  BY <1>2, ContentsCorrect, PTL

(* The body of a loop is given every element once, row by row, with the     *)
(* indices of its place, for arrays and matrices of every shape.            *)
THEOREM LoopsAreExact == ArraySpec => []LoopsMeetEveryElement
<1> DEFINE content ==
             [place \in Whole |->
                IF code.do = "walk" THEN <<Element(place)>>
                ELSE IF IsMatrix(code) THEN <<place[1], place[2], Element(place)>>
                ELSE <<place[2], Element(place)>>]
<1>1. ASSUME Known, ContentsInv, EndsAsChecked, at = "finished",
             code.do \in {"walk", "walkWithIndices"}
      PROVE  Lists(out, content)
  <2>1. /\ RowCount \in Nat /\ ColCount \in Nat /\ Whole = Block(0, RowCount, 0, ColCount)
        /\ ~IsMatrix(code) => RowCount = 1
    BY <1>1, WholeIsBlock
  <2>2. /\ OperandKept /\ out \in Seq(Seq(Int)) /\ Len(out) = RowCount * ColCount
        /\ \A k \in Nat : k < RowCount * ColCount => out[k + 1] = Given(k)
    BY <1>1 DEF ContentsInv, WalkedSoFar, Working
  <2>3. ASSUME NEW i \in 0..RowCount - 1, NEW j \in 0..ColCount - 1
        PROVE  out[(i * ColCount) + j + 1] = content[<<0 + i, 0 + j>>]
    <3> DEFINE k == (i * ColCount) + j
               total == RowCount * ColCount
    <3>1. k \in 0..total - 1
      BY <2>1, FlatIsInside
    <3>2. total \in Int
      BY <2>1
    <3>3. k \div ColCount = i /\ k % ColCount = j
      <4>1. i \in Nat
        OBVIOUS
      <4> QED
        BY <2>1, <4>1, FlatIsApart
    <3>4. ~IsMatrix(code) => k = j
      <4>1. SUFFICES ASSUME ~IsMatrix(code) PROVE k = j
        OBVIOUS
      <4>2. i = 0
        BY <2>1, <4>1
      <4>3. 0 * ColCount = 0
        BY <2>1
      <4> QED
        BY <4>2, <4>3
    <3>5. heap[Operand][k + 1] = Element(<<i, j>>)
      BY <2>2 DEF OperandKept, OperandAt
    <3>6. 0 + i = i /\ 0 + j = j /\ <<i, j>> \in Whole
      BY DEF Whole
    <3>7. out[k + 1] = Given(k)
      <4> HIDE DEF k, total
      <4> QED
        BY <2>2, <3>1, <3>2 DEF total
    <3>8. content[<<i, j>>] =
            IF code.do = "walk" THEN <<Element(<<i, j>>)>>
            ELSE IF IsMatrix(code) THEN <<i, j, Element(<<i, j>>)>>
            ELSE <<j, Element(<<i, j>>)>>
      BY <3>6
    <3> HIDE DEF k, content
    <3>9. Given(k) = content[<<i, j>>]
      BY <3>3, <3>4, <3>5, <3>8 DEF Given
    <3>10. out[k + 1] = content[<<0 + i, 0 + j>>]
      BY <3>6, <3>7, <3>9
    <3> QED
      BY <3>10 DEF k
  <2>4. DOMAIN content = Block(0, RowCount, 0, ColCount)
    BY <2>1
  <2> HIDE DEF content
  <2> DEFINE zero == 0
  <2>5. RowByRow(out, content, zero, RowCount, zero, ColCount)
    BY <2>3 DEF RowByRow
  <2>6. RowCount \in Nat
    BY <2>1
  <2>7. ColCount \in Nat
    BY <2>1
  <2>8. zero \in Int
    OBVIOUS
  <2>9. /\ DOMAIN content = Block(zero, RowCount, zero, ColCount)
        /\ DOMAIN out = 1..RowCount * ColCount
    BY <2>2, <2>4
  <2> HIDE DEF zero
  <2> QED
    BY <2>5, <2>6, <2>7, <2>8, <2>9, BlockIsListed
<1>2. Known /\ ContentsInv /\ EndsAsChecked => LoopsMeetEveryElement
  BY <1>1 DEF LoopsMeetEveryElement
<1> QED
  BY <1>2, ContentsCorrect, PTL
=============================================================================
