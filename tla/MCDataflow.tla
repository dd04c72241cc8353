----------------------------- MODULE MCDataflow -----------------------------
(* The solver on the liveness and reachability problems of small programs.  *)
EXTENDS DataflowSolver, ManyIfs, Programs

Shapes == {"if", "if else", "if true", "while", "while false", "while true", "loop",
           "until", "for open", "while if", "if while"}

MCPrograms ==
  {p \in {EntryProgram(Shape(shape, Simple(3, s), Simple(4, t)), Simple(5, "use a"), f) :
            shape \in Shapes, s \in {"set a", "a = b = a"}, t \in {"set a", "use b"},
            f \in {"reads", "own"}}
         \cup {FunctionProgram(Shape(shape, Simple(3, s), Simple(4, t)), Reads(60, {"b"})) :
                 shape \in Shapes, s \in {"b = a"}, t \in {"set a", "use b"}}
     : Accepted(p)}

(* The problem as far as the symbols of the model go.                       *)
Within(q) ==
  [q EXCEPT !.boundary = @ \cap Symbol,
            !.gen = [b \in Blocks(q) |-> q.gen[b] \cap Symbol],
            !.kill = [b \in Blocks(q) |-> q.kill[b] \cap Symbol]]

Small ==
  {q \in {Within(LivenessProblem(p)) : p \in MCPrograms}
         \cup {ReachabilityProblem(Build(p)) : p \in MCPrograms}
     : q.count <= 8}

(* Each with the budget of the code, and with one visit for each block.     *)
MCProblem == Small \cup {[q EXCEPT !.allowed = 1] : q \in Small}

(* With the budget of the code a small graph is solved; the assertion on    *)
(* the visits is never what ends the loop.                                  *)
EverySolveAnswers == problem.allowed = VISIT_BUDGET_PER_BLOCK ~> status = "done"
=============================================================================
