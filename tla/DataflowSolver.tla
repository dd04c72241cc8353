--------------------------- MODULE DataflowSolver ---------------------------
(***************************************************************************)
(* The worklist solver, `solve` of src/analysis/dataflow.rs.  The worklist *)
(* is a stack that may hold a block several times; a visit recomputes the  *)
(* block from what its neighbours hold now and pushes the neighbours on    *)
(* the other side when the result changed.                                 *)
(***************************************************************************)
EXTENDS Dataflow, FiniteSets

CONSTANT Problem    \* the problems considered

ASSUME ProblemAssumption == \A q \in Problem : WellFormed(q)

(* A program has finitely many names.                                       *)
ASSUME SymbolAssumption == IsFiniteSet(Symbol)

VARIABLES
  problem,    \* what solve is called with: graph and analysis
  worklist,   \* blocks still to visit, the next one last
  incoming,   \* the merged fact of each block's last visit
  outgoing,   \* what the transfer functions made of it
  visits,
  status      \* "running", "done" or "panicked"

vars == <<problem, worklist, incoming, outgoing, visits, status>>

(* The two sides of a block in program order, as Solution names them.       *)
before == IF problem.direction = "Forward" THEN incoming ELSE outgoing
after  == IF problem.direction = "Forward" THEN outgoing ELSE incoming

Budget == problem.count * problem.allowed + 1

(* A mistake, kept for the runs to notice: blocks are numbered from 1.      *)
SeededFromOne == [i \in 1 .. problem.count |-> i]

(* All blocks, in the order that makes the entry block the first one popped *)
(* when facts flow forward and the exit block when they flow backward.      *)
Seeded ==
  [i \in 1 .. problem.count |-> IF problem.direction = "Forward" THEN problem.count - i ELSE i - 1]

(* A mistake: facts that start from everything.      *)
InitOptimistic ==
  /\ problem \in Problem
  /\ worklist = Seeded
  /\ incoming = NothingKnown(problem)
  /\ outgoing = [b \in Blocks(problem) |-> Symbol]
  /\ visits = 0
  /\ status = "running"

Init ==
  /\ problem \in Problem
  /\ worklist = Seeded
  /\ incoming = NothingKnown(problem)
  /\ outgoing = NothingKnown(problem)
  /\ visits = 0
  /\ status = "running"

Top == Last(worklist)
Popped == Front(worklist)

(* A mistake: every visit puts its neighbours back.                         *)
VisitAlwaysRequeues ==
  /\ status = "running"
  /\ worklist # <<>>
  /\ visits < Budget
  /\ visits' = visits + 1
  /\ incoming' = [incoming EXCEPT ![Top] = Gathered(problem, outgoing, Top)]
  /\ outgoing' = [outgoing EXCEPT ![Top] = Equation(problem, outgoing, Top)]
  /\ worklist' = Popped \o Requeue(problem, Top)
  /\ UNCHANGED <<problem, status>>

Visit ==
  /\ status = "running"
  /\ worklist # <<>>
  /\ visits < Budget
  /\ visits' = visits + 1
  /\ incoming' = [incoming EXCEPT ![Top] = Gathered(problem, outgoing, Top)]
  /\ LET fact == Equation(problem, outgoing, Top) IN
       \/ /\ fact = outgoing[Top]
          /\ worklist' = Popped
          /\ UNCHANGED outgoing
       \/ /\ fact # outgoing[Top]
          /\ outgoing' = [outgoing EXCEPT ![Top] = fact]
          /\ worklist' = Popped \o Requeue(problem, Top)
  /\ UNCHANGED <<problem, status>>

(* The assertion on the visit count: the block is popped and counted first. *)
Panic ==
  /\ status = "running"
  /\ worklist # <<>>
  /\ visits >= Budget
  /\ visits' = visits + 1
  /\ worklist' = Popped
  /\ status' = "panicked"
  /\ UNCHANGED <<problem, incoming, outgoing>>

ReturnSolution ==
  /\ status = "running"
  /\ worklist = <<>>
  /\ status' = "done"
  /\ UNCHANGED <<problem, worklist, incoming, outgoing, visits>>

Next == Visit \/ Panic \/ ReturnSolution

Spec == Init /\ [][Next]_vars

(* `solve` is a loop of one thread: it runs until it returns or panics.     *)
FairSpec == Spec /\ WF_vars(Next)

-----------------------------------------------------------------------------

TypeOK ==
  /\ problem \in Problem
  /\ worklist \in Seq(Blocks(problem))
  /\ incoming \in FactsOf(problem)
  /\ outgoing \in FactsOf(problem)
  /\ visits \in Nat
  /\ status \in {"running", "done", "panicked"}

(* A block that is not waiting on the worklist needs no visit: its facts    *)
(* are what its equation gives from its neighbours as they stand.           *)
SettledOffTheWorklist ==
  status # "panicked" =>
    \A b \in Blocks(problem) \ ToSet(worklist) :
      /\ incoming[b] = Gathered(problem, outgoing, b)
      /\ outgoing[b] = Equation(problem, outgoing, b)

(* Nothing is ever learnt that an equation does not support.                *)
BelowEquation ==
  \A b \in Blocks(problem) : outgoing[b] \subseteq Equation(problem, outgoing, b)

(* ... nor that some solution does without.                                 *)
BelowEverySolution ==
  \A s \in FactsOf(problem) :
    Solution(problem, s) => \A b \in Blocks(problem) : outgoing[b] \subseteq s[b]

(* When solve returns, the facts satisfy every block's equation, and every  *)
(* solution says at least as much: nothing is missing and nothing is        *)
(* invented, whatever order the worklist was served in.                     *)
AnswerIsLeastSolution ==
  status = "done" =>
    /\ Solution(problem, outgoing)
    /\ \A b \in Blocks(problem) : incoming[b] = Gathered(problem, outgoing, b)
    /\ BelowEverySolution

(* The answer of solve means paths: a block is reported as reached exactly  *)
(* if some path of edges that can be taken leads to it from the entry, and  *)
(* a symbol as live exactly if some path leads to a read of it, or to the   *)
(* end of the unit and past it, with no write before.                       *)
AnswerMeansPaths ==
  status = "done" =>
    LET paths == PathsOf(problem) IN
    \A b \in Blocks(problem) :
      outgoing[b] = {x \in Symbol : \E path \in paths :
                                      Last(path) = b /\ Carries(problem, path, x)}

(* The blocks that the facts put on the worklist when they were learnt, if  *)
(* each symbol came by itself.                                              *)
Requeued(q, facts) ==
  LET Sum[n \in 0 .. q.count] ==
        IF n = 0 THEN 0
        ELSE Sum[n - 1] + Cardinality(facts[n - 1]) * Len(Requeue(q, n - 1))
  IN  Sum[q.count]

(* Every visit is paid for: by the seeding of the worklist, or by a symbol  *)
(* that some block gained and that put its neighbours on the list.          *)
VisitsPaidFor == visits + Len(worklist) <= problem.count + Requeued(problem, outgoing)

(* So the assertion on the visits never ends a run whose budget allows what *)
(* all symbols together can put on the list.  The budget of the code is 64  *)
(* per block: enough for any graph when there are up to 31 symbols to know  *)
(* about (no block has more than two successors).                           *)
Known(q) == q.boundary \cup UNION {q.gen[b] : b \in Blocks(q)}
MostVisits(q) == q.count + Requeued(q, [b \in Blocks(q) |-> Known(q)])
AffordableIsAnswered == MostVisits(problem) <= Budget => status # "panicked"

(* A fact a block once held is never taken back.  The comment on            *)
(* MergeableFact::merge asks for it; here it follows from the analyses'     *)
(* transfer functions and from visiting with up-to-date neighbours.         *)
FactsOnlyGrow ==
  [][\A b \in Blocks(problem) : outgoing[b] \subseteq outgoing'[b]]_vars

(* The solver is the abstract iteration: a visit is one re-evaluation or    *)
(* changes nothing, and an answer comes only from a solution.               *)
Abstract == INSTANCE ChaoticIteration WITH facts <- outgoing
RefinesChaoticIteration == Abstract!Spec
=============================================================================
