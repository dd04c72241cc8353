------------------------------ MODULE Dataflow ------------------------------
(***************************************************************************)
(* What a dataflow problem is, before anyone solves it: a control-flow     *)
(* graph, the edges an analysis believes in, a direction, a boundary fact, *)
(* and what each block does to a fact (src/analysis/dataflow.rs).          *)
(*                                                                         *)
(* A fact is a set of symbols, merged by union.  SymbolSetFact is that     *)
(* literally; ReachabilityFact is the case of a single symbol, in the set  *)
(* when the point is reached.  Every transfer function in the repository   *)
(* removes some symbols and then adds some, so the effect of a whole block *)
(* is a pair [kill, gen].                                                  *)
(***************************************************************************)
EXTENDS Integers, SequencesExt

CONSTANT Symbol    \* the members a fact may have

(* The visits solve allows for each block.                                  *)
VISIT_BUDGET_PER_BLOCK == 64

(* Blocks are numbered from 0.                                              *)
Blocks(q) == 0 .. q.count - 1

Directions == {"Forward", "Backward"}

(* `allowed` is VISIT_BUDGET_PER_BLOCK for the problems of the checkers; a  *)
(* smaller number lets a small problem run out of visits.                   *)
WellFormed(q) ==
  /\ q.count \in Nat \ {0}
  /\ q.allowed \in Nat
  /\ q.entry \in Blocks(q)
  /\ q.exit \in Blocks(q)
  /\ q.direction \in Directions
  /\ q.boundary \subseteq Symbol
  /\ q.succs \in [Blocks(q) -> Seq(Blocks(q))]
  /\ q.preds \in [Blocks(q) -> Seq(Blocks(q))]
  /\ q.live \in [Blocks(q) -> Seq(Blocks(q))]
  /\ q.gen \in [Blocks(q) -> SUBSET Symbol]
  /\ q.kill \in [Blocks(q) -> SUBSET Symbol]
  \* predecessors are the successors read backwards, and an analysis may drop
  \* an edge of the graph but not invent one
  /\ \A b, c \in Blocks(q) :
        c \in ToSet(q.preds[b]) <=> b \in ToSet(q.succs[c])
  /\ \A b \in Blocks(q) : ToSet(q.live[b]) \subseteq ToSet(q.succs[b])

(* The block the boundary fact enters through.                              *)
Start(q) == IF q.direction = "Forward" THEN q.entry ELSE q.exit

(* The blocks whose result flows into b: over the edges that can be taken.  *)
Feeders(q, b) ==
  IF q.direction = "Forward"
    THEN {f \in ToSet(q.preds[b]) : b \in ToSet(q.live[f])}
    ELSE ToSet(q.live[b])

(* A mistake: the direction of the analysis is forgotten.                   *)
RequeueForward(q, b) == q.live[b]

(* The blocks to look at again when the result of b has changed.            *)
Requeue(q, b) ==
  IF q.direction = "Forward" THEN q.live[b] ELSE q.preds[b]

(* What the feeders of b and the boundary know together.                    *)
Gathered(q, facts, b) ==
  (UNION {facts[f] : f \in Feeders(q, b)})
    \cup (IF b = Start(q) THEN q.boundary ELSE {})

(* A mistake: what a block adds is removed again.                           *)
KillLast(q, b, fact) == (fact \cup q.gen[b]) \ q.kill[b]

Transfer(q, b, fact) == (fact \ q.kill[b]) \cup q.gen[b]

(* The right-hand side of the equation of b.                                *)
Equation(q, facts, b) == Transfer(q, b, Gathered(q, facts, b))

FactsOf(q) == [Blocks(q) -> SUBSET Symbol]

Solution(q, facts) == \A b \in Blocks(q) : facts[b] = Equation(q, facts, b)

NothingKnown(q) == [b \in Blocks(q) |-> {}]

-----------------------------------------------------------------------------
(* What the equations mean along paths.                                     *)

(* By their number of edges, the paths an analysis believes in, in its      *)
(* direction: a block after one that feeds it.                              *)
PathsOfLength(q) ==
  LET Paths[n \in Nat] ==
        IF n = 0 THEN {<<b>> : b \in Blocks(q)}
        ELSE {Append(step[1], step[2]) : step \in
                {s \in Paths[n - 1] \X Blocks(q) : Last(s[1]) \in Feeders(q, s[2])}}
  IN  Paths

(* Those no longer than a path needs to be that meets no block twice.       *)
PathsOf(q) == UNION {PathsOfLength(q)[n] : n \in 0 .. q.count - 1}

(* The first block of the path makes x known, or it is known at the         *)
(* boundary and the path begins there; and no block on the way removes it.  *)
Carries(q, path, x) ==
  /\ \/ x \in q.gen[path[1]]
     \/ path[1] = Start(q) /\ x \in q.boundary \ q.kill[path[1]]
  /\ \A i \in 2 .. Len(path) : x \notin q.kill[path[i]]
=============================================================================
