-------------------------- MODULE ChaoticIteration --------------------------
(***************************************************************************)
(* What src/analysis/dataflow.rs promises its analyses, with no worklist:  *)
(* start every block knowing nothing, re-evaluate blocks whose equation    *)
(* does not hold, and hand out an answer only when all of them hold.  Or   *)
(* give up, without an answer.                                             *)
(***************************************************************************)
EXTENDS Dataflow

CONSTANT Problem    \* the problems considered

VARIABLES
  problem,    \* the problem being solved
  facts,    \* what is known on the far side of each block
  status    \* "running", "done" or "panicked"

vars == <<problem, facts, status>>

Init ==
  /\ problem \in Problem
  /\ facts = NothingKnown(problem)
  /\ status = "running"

Reevaluate(b) ==
  /\ status = "running"
  /\ facts[b] # Equation(problem, facts, b)
  /\ facts' = [facts EXCEPT ![b] = Equation(problem, facts, b)]
  /\ UNCHANGED <<problem, status>>

Answer ==
  /\ status = "running"
  /\ Solution(problem, facts)
  /\ status' = "done"
  /\ UNCHANGED <<problem, facts>>

GiveUp ==
  /\ status = "running"
  /\ status' = "panicked"
  /\ UNCHANGED <<problem, facts>>

Next ==
  \/ \E b \in Blocks(problem) : Reevaluate(b)
  \/ Answer
  \/ GiveUp

Spec == Init /\ [][Next]_vars
=============================================================================
