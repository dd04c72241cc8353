---------------------------- MODULE MCVisitBudget ----------------------------
(* The solver, with the budget of the code, on the liveness problem of one  *)
(* longer program, Length `if`s.                                            *)
EXTENDS DataflowSolver, ManyIfs

Length == 100

MCSymbol == 1 .. Length
MCProblem == {Sequential(Length)}

-----------------------------------------------------------------------------
(* DataflowSolver, many visits to a step: the run is deterministic and the  *)
(* facts of a long program are large.                                       *)

Doublings == 10    \* 2^10 visits to a step

(* One turn of the loop, as Visit and Panic have it.                        *)
Turn(s) ==
  LET b == Last(s.worklist)
      rest == Front(s.worklist)
      fact == Equation(problem, s.outgoing, b)
      counted == [s EXCEPT !.visits = @ + 1]
  IN  IF s.visits >= Budget THEN [counted EXCEPT !.worklist = rest, !.status = "panicked"]
      ELSE IF fact = s.outgoing[b] THEN [counted EXCEPT !.worklist = rest]
      ELSE [counted EXCEPT !.worklist = rest \o Requeue(problem, b), !.outgoing[b] = fact]

(* 2^n turns, fewer when the loop ends before.                              *)
RECURSIVE Turns(_, _)
Turns(s, n) ==
  IF s.worklist = <<>> \/ s.status = "panicked" THEN s
  ELSE IF n = 0 THEN Turn(s) ELSE Turns(Turns(s, n - 1), n - 1)

ManyVisits ==
  /\ status = "running"
  /\ worklist # <<>>
  /\ LET s == Turns([worklist |-> worklist, outgoing |-> outgoing, visits |-> visits,
                     status |-> status], Doublings)
     IN  /\ worklist' = s.worklist
         /\ outgoing' = s.outgoing
         /\ visits' = s.visits
         /\ status' = s.status
  /\ UNCHANGED <<problem, incoming>>

FastSpec == Init /\ [][ManyVisits \/ ReturnSolution]_vars

(* A monotone analysis over a lattice of finite height, such as liveness,   *)
(* is solved within the visit budget: the assertion is a guard against      *)
(* analyses that are not, and programs do not run into it.                  *)
ConvergesWithinBudget == status # "panicked"
=============================================================================
