---------------------------- MODULE Reachability ----------------------------
(***************************************************************************)
(* The checker of unreachable code (src/analysis/checks/reachability.rs):  *)
(* a dataflow problem, forward from the entry along the edges that a       *)
(* literal condition leaves open, and a reading of its solution.           *)
(***************************************************************************)
EXTENDS Cfg, Dataflow

CONSTANT Reached    \* the one symbol of a reachability fact

(* A mistake: an inclusive range of one element is taken to be empty.       *)
EmptyWhenInclusiveMeets(e) ==
  /\ e.literal
  /\ CASE e.rangeKind \in {"Inclusive", "UpExclusive"} -> e.start >= e.stop
       [] e.rangeKind = "DownExclusive" -> e.start <= e.stop

(* What the checker takes an empty range to be: the operator alone decides, *)
(* whatever the step.                                                       *)
LiteralRangeIsEmpty(e) ==
  /\ e.literal
  /\ CASE e.rangeKind = "Inclusive" -> e.start > e.stop
       [] e.rangeKind = "UpExclusive" -> e.start >= e.stop
       [] e.rangeKind = "DownExclusive" -> e.start <= e.stop

LiveSuccessors(g, b) ==
  LET t == g.blocks[b + 1].terminator IN
  CASE t.kind = "branch" /\ t.cond.kind = "bool" ->
         IF t.cond.value THEN <<t.thenBlock>> ELSE <<t.elseBlock>>
    [] t.kind = "branch" /\ t.cond.kind = "range" /\ LiteralRangeIsEmpty(t.cond) ->
         <<t.elseBlock>>
    [] OTHER -> g.succs[b]

ReachabilityProblem(g) ==
  [count |-> Len(g.blocks), allowed |-> VISIT_BUDGET_PER_BLOCK, entry |-> g.entry, exit |-> g.exit,
   direction |-> "Forward", boundary |-> {Reached},
   succs |-> g.succs, preds |-> g.preds,
   live |-> [b \in DOMAIN g.succs |-> LiveSuccessors(g, b)],
   gen |-> [b \in DOMAIN g.succs |-> {}],
   kill |-> [b \in DOMAIN g.succs |-> {}]]

(* The blocks reported, given a solution of the problem.                    *)
Unreachable(q, facts) == {b \in Blocks(q) : Reached \notin Gathered(q, facts, b)}
=============================================================================
