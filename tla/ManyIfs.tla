------------------------------ MODULE ManyIfs ------------------------------
(* A program of m `if`s and its liveness problem: m names are assigned, and *)
(* then each is read in the body of an `if` of its own.  A statement stands *)
(* between two `if`s: the parser does not take one right after another.     *)
EXTENDS Checks

ManyIfsProgram(m) ==
  Entry(<<Assign(1, [i \in 1 .. m |-> Local(i)], Reads(2, {}))>>
          \o FlattenSeq([i \in 1 .. m |->
               <<ExprStmt(If(1000 + i,
                             <<IfArm(Reads(2000 + i, {}),
                                     Block(<<ExprStmt(Reads(3000 + i, {i}))>>, Missing))>>,
                             Missing)),
                 ExprStmt(Reads(4000 + i, {}))>>]),
        <<>>)

(* The `if`s of ManyIfsProgram(m) are blocks Merge(i), Taken(i) and Skipped(i),  *)
(* after the entry block 0 and before the exit.                             *)
Merge(i) == IF i = 0 THEN 0 ELSE 3 * i - 2
Taken(i) == 3 * i - 1
Skipped(i) == 3 * i

(* The liveness problem of ManyIfsProgram(m), written down directly.             *)
Sequential(m) ==
  LET exit == 3 * m + 1
      blocks == 0 .. exit
      Of(b) == (b + 2) \div 3    \* the `if` that block b belongs to
      IsMerge(b) == b = Merge(Of(b))
      succs == [b \in blocks |->
                  CASE b = exit -> <<>>
                    [] b # exit /\ ~IsMerge(b) -> <<Merge(Of(b))>>
                    [] IsMerge(b) /\ b = Merge(m) -> <<exit>>
                    [] IsMerge(b) /\ b < Merge(m) -> <<Taken(Of(b) + 1), Skipped(Of(b) + 1)>>]
      preds == [b \in blocks |->
                  CASE b = 0 -> <<>>
                    [] b = exit -> <<Merge(m)>>
                    [] b \notin {0, exit} /\ IsMerge(b) -> <<Taken(Of(b)), Skipped(Of(b))>>
                    [] b # exit /\ ~IsMerge(b) -> <<Merge(Of(b) - 1)>>]
  IN  [count |-> exit + 1, allowed |-> VISIT_BUDGET_PER_BLOCK,
       entry |-> 0, exit |-> exit, direction |-> "Backward",
       boundary |-> {}, succs |-> succs, preds |-> preds, live |-> succs,
       gen |-> [b \in blocks |-> IF b # 0 /\ b # exit /\ b = Taken(Of(b)) THEN {Of(b)} ELSE {}],
       kill |-> [b \in blocks |-> IF b = 0 THEN 1 .. m ELSE {}]]

(* ... which for short programs is what the graph builder and the checker give. *)
ASSUME SequentialIsLiveness ==
  \A m \in 1 .. 4 : Sequential(m) = LivenessProblem(ManyIfsProgram(m))
=============================================================================
