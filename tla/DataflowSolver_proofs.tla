------------------------ MODULE DataflowSolver_proofs ------------------------
(***************************************************************************)
(* Theorems about the worklist solver, for every set of well-formed        *)
(* problems and every visit budget.                                        *)
(***************************************************************************)
EXTENDS DataflowSolver, SequenceTheorems, FiniteSetTheorems, WellFoundedInduction, TLAPS

-----------------------------------------------------------------------------
(* Sequences: what taking the last element off and appending leave.         *)

(* Popping the worklist takes one of its blocks and leaves the others.      *)
LEMMA Pop ==
  ASSUME NEW S, NEW w \in Seq(S), w # <<>>
  PROVE  /\ Last(w) \in S
         /\ Front(w) \in Seq(S)
         /\ Len(w) \in Nat /\ Len(Front(w)) = Len(w) - 1
         /\ ToSet(w) = ToSet(Front(w)) \cup {Last(w)}
<1> DEFINE n == Len(w)
<1>1. n \in Nat \ {0} /\ DOMAIN w = 1 .. n
  BY EmptySeq, LenProperties
<1>2. \A i \in 1 .. n : w[i] \in S
  BY ElementOfSeq
<1>3. /\ Front(w) \in Seq(S)
      /\ Len(Front(w)) = n - 1
      /\ \A i \in 1 .. n - 1 : Front(w)[i] = w[i]
  BY <1>1, <1>2, SubSeqProperties DEF Front
<1>4. DOMAIN Front(w) = 1 .. n - 1
  BY <1>3, LenProperties
<1>5. 1 .. n = (1 .. n - 1) \cup {n}
  BY <1>1
<1> QED
  BY <1>1, <1>2, <1>3, <1>4, <1>5 DEF ToSet, Last

(* What pushing several blocks at once leaves on the worklist.              *)
LEMMA SetOfConcat ==
  ASSUME NEW S, NEW s \in Seq(S), NEW t \in Seq(S)
  PROVE  /\ s \o t \in Seq(S)
         /\ ToSet(s \o t) = ToSet(s) \cup ToSet(t)
<1>1. /\ s \o t \in Seq(S)
      /\ Len(s \o t) = Len(s) + Len(t)
      /\ \A i \in 1 .. Len(s) + Len(t) :
           (s \o t)[i] = IF i <= Len(s) THEN s[i] ELSE t[i - Len(s)]
  BY ConcatProperties
<1>2. /\ Len(s) \in Nat /\ DOMAIN s = 1 .. Len(s)
      /\ Len(t) \in Nat /\ DOMAIN t = 1 .. Len(t)
      /\ DOMAIN (s \o t) = 1 .. Len(s) + Len(t)
  BY <1>1, LenProperties
<1>3. ToSet(s \o t) \subseteq ToSet(s) \cup ToSet(t)
  <2> SUFFICES ASSUME NEW i \in 1 .. Len(s) + Len(t)
               PROVE  (s \o t)[i] \in ToSet(s) \cup ToSet(t)
    BY <1>2 DEF ToSet
  <2>1. CASE i <= Len(s)
    BY <1>1, <1>2, <2>1 DEF ToSet
  <2>2. CASE i > Len(s)
    <3>1. i - Len(s) \in DOMAIN t
      BY <1>2, <2>2
    <3> QED
      BY <1>1, <1>2, <2>2, <3>1 DEF ToSet
  <2> QED
    BY <1>2, <2>1, <2>2
<1>4. ToSet(s) \subseteq ToSet(s \o t)
  BY <1>1, <1>2 DEF ToSet
<1>5. ToSet(t) \subseteq ToSet(s \o t)
  <2> SUFFICES ASSUME NEW i \in 1 .. Len(t)
               PROVE  t[i] \in ToSet(s \o t)
    BY <1>2 DEF ToSet
  <2>1. Len(s) + i \in 1 .. Len(s) + Len(t) /\ ~(Len(s) + i <= Len(s))
    BY <1>2
  <2>2. (s \o t)[Len(s) + i] = t[i]
    BY <1>1, <1>2, <2>1
  <2> QED
    BY <1>2, <2>1, <2>2 DEF ToSet
<1> QED
  BY <1>1, <1>3, <1>4, <1>5

-----------------------------------------------------------------------------
(* Equations.                                                               *)

(* An equation makes facts of facts.                                        *)
LEMMA EquationType ==
  ASSUME NEW q, WellFormed(q), NEW f \in FactsOf(q), NEW b \in Blocks(q)
  PROVE  Gathered(q, f, b) \subseteq Symbol /\ Equation(q, f, b) \subseteq Symbol
<1>1. Feeders(q, b) \subseteq Blocks(q)
  <2>1. ToSet(q.preds[b]) \subseteq Blocks(q) /\ ToSet(q.live[b]) \subseteq Blocks(q)
    BY ElementOfSeq DEF WellFormed, ToSet
  <2> QED
    BY <2>1 DEF Feeders
<1>2. Gathered(q, f, b) \subseteq Symbol
  BY <1>1 DEF Gathered, FactsOf, WellFormed
<1> QED
  BY <1>2 DEF Equation, Transfer, WellFormed

(* Knowing more before a block never means knowing less after it.           *)
LEMMA EquationMonotone ==
  ASSUME NEW q, WellFormed(q), NEW f, NEW g, NEW b \in Blocks(q),
         \A c \in Blocks(q) : f[c] \subseteq g[c]
  PROVE  Equation(q, f, b) \subseteq Equation(q, g, b)
<1>1. Feeders(q, b) \subseteq Blocks(q)
  <2>1. ToSet(q.preds[b]) \subseteq Blocks(q) /\ ToSet(q.live[b]) \subseteq Blocks(q)
    BY ElementOfSeq DEF WellFormed, ToSet
  <2> QED
    BY <2>1 DEF Feeders
<1>2. Gathered(q, f, b) \subseteq Gathered(q, g, b)
  BY <1>1 DEF Gathered
<1> QED
  BY <1>2 DEF Equation, Transfer

(* A change of the result of `top` that leaves b off the requeued blocks    *)
(* leaves what b gathers alone.                                             *)
LEMMA RequeueSuffices ==
  ASSUME NEW q, WellFormed(q), NEW f \in FactsOf(q), NEW top \in Blocks(q), NEW fact,
         NEW b \in Blocks(q), b \notin ToSet(Requeue(q, top))
  PROVE  Gathered(q, [f EXCEPT ![top] = fact], b) = Gathered(q, f, b)
<1>1. top \notin Feeders(q, b)
  <2>1. CASE q.direction = "Forward"
    BY <2>1 DEF Requeue, Feeders
  <2>2. CASE q.direction # "Forward"
    BY <2>2 DEF Requeue, Feeders, WellFormed
  <2> QED
    BY <2>1, <2>2
<1>2. \A c \in Feeders(q, b) : [f EXCEPT ![top] = fact][c] = f[c]
  BY <1>1 DEF FactsOf
<1> QED
  BY <1>2 DEF Gathered

-----------------------------------------------------------------------------
(* Every value keeps its type: visits read and write blocks of the graph    *)
(* and sets of symbols, and the worklist holds blocks only.                 *)
THEOREM TypeCorrect == Spec => []TypeOK
<1> USE ProblemAssumption
<1>1. Init => TypeOK
  <2> SUFFICES ASSUME Init PROVE TypeOK
    OBVIOUS
  <2>1. WellFormed(problem) /\ problem.count \in Nat \ {0}
    BY DEF Init, WellFormed
  <2>2. Seeded \in Seq(Blocks(problem))
    <3>1. Seeded \in [1 .. problem.count -> Blocks(problem)]
      BY <2>1 DEF Seeded, Blocks
    <3> QED
      BY <2>1, <3>1, IsASeq
  <2>3. NothingKnown(problem) \in FactsOf(problem)
    BY DEF NothingKnown, FactsOf
  <2> QED
    BY <2>2, <2>3 DEF Init, TypeOK
<1>2. TypeOK /\ [Next]_vars => TypeOK'
  <2> SUFFICES ASSUME TypeOK, [Next]_vars PROVE TypeOK'
    OBVIOUS
  <2>1. WellFormed(problem)
    BY DEF TypeOK
  <2>2. CASE Visit
    <3>1. /\ Top \in Blocks(problem)
          /\ Popped \in Seq(Blocks(problem))
      BY <2>2, Pop DEF TypeOK, Visit, Top, Popped
    <3>2. /\ Gathered(problem, outgoing, Top) \subseteq Symbol
          /\ Equation(problem, outgoing, Top) \subseteq Symbol
      BY <2>1, <3>1, EquationType DEF TypeOK
    <3>3. Popped \o Requeue(problem, Top) \in Seq(Blocks(problem))
      BY <2>1, <3>1, SetOfConcat DEF Requeue, WellFormed
    <3>4. problem' = problem /\ status' = status /\ visits' \in Nat
      BY <2>2 DEF Visit, TypeOK
    <3>5. incoming' \in FactsOf(problem) /\ outgoing' \in FactsOf(problem)
      BY <2>2, <3>1, <3>2 DEF Visit, TypeOK, FactsOf
    <3>6. worklist' \in Seq(Blocks(problem))
      BY <2>2, <3>1, <3>3 DEF Visit
    <3> QED
      BY <3>4, <3>5, <3>6 DEF TypeOK
  <2>3. CASE Panic
    <3>1. Popped \in Seq(Blocks(problem))
      BY <2>3, Pop DEF TypeOK, Panic, Popped
    <3> QED
      BY <2>3, <3>1 DEF TypeOK, Panic
  <2>4. CASE ReturnSolution
    BY <2>4 DEF TypeOK, ReturnSolution
  <2>5. CASE UNCHANGED vars
    BY <2>5 DEF TypeOK, vars
  <2> QED
    BY <2>2, <2>3, <2>4, <2>5 DEF Next
<1> QED
  BY <1>1, <1>2, PTL DEF Spec

-----------------------------------------------------------------------------
(* A block off the worklist satisfies its equation: a visit establishes the *)
(* equation of the block it takes off, and requeues every block whose       *)
(* equation it may have broken.                                             *)

(* A visit settles the block it pops, and wakes every block it unsettles.   *)
LEMMA VisitSettles ==
  ASSUME TypeOK, SettledOffTheWorklist, Visit
  PROVE  SettledOffTheWorklist'
<1> USE ProblemAssumption
<1>1. WellFormed(problem)
  BY DEF TypeOK
<1>2. /\ Top \in Blocks(problem)
      /\ Popped \in Seq(Blocks(problem))
      /\ ToSet(worklist) = ToSet(Popped) \cup {Top}
  BY Pop DEF TypeOK, Visit, Top, Popped
<1>3. problem' = problem /\ status = "running"
  BY DEF Visit
<1>4. \A b \in Blocks(problem) \ ToSet(worklist) :
        /\ incoming[b] = Gathered(problem, outgoing, b)
        /\ outgoing[b] = Equation(problem, outgoing, b)
  BY <1>3 DEF SettledOffTheWorklist
<1>5. incoming' = [incoming EXCEPT ![Top] = Gathered(problem, outgoing, Top)]
  BY DEF Visit
<1> SUFFICES ASSUME NEW b \in Blocks(problem), b \notin ToSet(worklist')
             PROVE  /\ incoming'[b] = Gathered(problem, outgoing', b)
                    /\ outgoing'[b] = Equation(problem, outgoing', b)
  BY <1>3 DEF SettledOffTheWorklist
<1>6. CASE Equation(problem, outgoing, Top) = outgoing[Top]
  <2>1. worklist' = Popped /\ outgoing' = outgoing
    BY <1>6 DEF Visit
  <2>2. CASE b = Top
    BY <1>2, <1>5, <1>6, <2>1, <2>2 DEF TypeOK, FactsOf
  <2>3. CASE b # Top
    <3>1. b \notin ToSet(worklist)
      BY <1>2, <2>1, <2>3
    <3> QED
      BY <1>4, <1>5, <2>1, <2>3, <3>1 DEF TypeOK, FactsOf
  <2> QED
    BY <2>2, <2>3
<1>7. CASE Equation(problem, outgoing, Top) # outgoing[Top]
  <2>1. /\ worklist' = Popped \o Requeue(problem, Top)
        /\ outgoing' = [outgoing EXCEPT ![Top] = Equation(problem, outgoing, Top)]
    BY <1>7 DEF Visit
  <2>2. ToSet(worklist') = ToSet(Popped) \cup ToSet(Requeue(problem, Top))
    BY <1>1, <1>2, <2>1, SetOfConcat DEF Requeue, WellFormed
  <2>3. Gathered(problem, outgoing', b) = Gathered(problem, outgoing, b)
    <3>1. b \notin ToSet(Requeue(problem, Top)) /\ outgoing \in FactsOf(problem)
      BY <2>2 DEF TypeOK
    <3>2. \A fact : Gathered(problem, [outgoing EXCEPT ![Top] = fact], b)
                      = Gathered(problem, outgoing, b)
      BY <1>1, <1>2, <3>1, RequeueSuffices, ZenonT(30)
    <3> QED
      BY <2>1, <3>2
  <2>4. Equation(problem, outgoing', b) = Equation(problem, outgoing, b)
    BY <2>3 DEF Equation
  <2>5. CASE b = Top
    BY <1>2, <1>5, <2>1, <2>3, <2>4, <2>5 DEF TypeOK, FactsOf
  <2>6. CASE b # Top
    <3>1. b \notin ToSet(worklist)
      BY <1>2, <2>2, <2>6
    <3> QED
      BY <1>4, <1>5, <2>1, <2>3, <2>4, <2>6, <3>1 DEF TypeOK, FactsOf
  <2> QED
    BY <2>5, <2>6
<1> QED
  BY <1>6, <1>7

(* A block that is off the worklist satisfies its equation, in every run.   *)
THEOREM Settled == Spec => []SettledOffTheWorklist
<1> USE ProblemAssumption
<1>1. Init => SettledOffTheWorklist
  <2> SUFFICES ASSUME Init, NEW b \in Blocks(problem)
               PROVE  b \in ToSet(worklist)
    BY DEF SettledOffTheWorklist
  <2>1. problem.count \in Nat /\ b \in 0 .. problem.count - 1
    BY DEF Init, WellFormed, Blocks
  <2>2. DOMAIN Seeded = 1 .. problem.count
    BY DEF Seeded
  <2>3. CASE problem.direction = "Forward"
    <3>1. problem.count - b \in 1 .. problem.count
      BY <2>1
    <3>2. Seeded[problem.count - b] = b
      BY <2>1, <2>3, <3>1 DEF Seeded
    <3> QED
      BY <2>2, <3>1, <3>2 DEF Init, ToSet
  <2>4. CASE problem.direction # "Forward"
    <3>1. b + 1 \in 1 .. problem.count
      BY <2>1
    <3>2. Seeded[b + 1] = b
      BY <2>1, <2>4, <3>1 DEF Seeded
    <3> QED
      BY <2>2, <3>1, <3>2 DEF Init, ToSet
  <2> QED
    BY <2>3, <2>4
<1>2. TypeOK /\ SettledOffTheWorklist /\ [Next]_vars => SettledOffTheWorklist'
  <2> SUFFICES ASSUME TypeOK, SettledOffTheWorklist, [Next]_vars
               PROVE  SettledOffTheWorklist'
    OBVIOUS
  <2>1. CASE Visit
    BY <2>1, VisitSettles
  <2>2. CASE Panic
    BY <2>2 DEF Panic, SettledOffTheWorklist
  <2>3. CASE ReturnSolution
    BY <2>3 DEF ReturnSolution, SettledOffTheWorklist
  <2>4. CASE UNCHANGED vars
    BY <2>4 DEF vars, SettledOffTheWorklist
  <2> QED
    BY <2>1, <2>2, <2>3, <2>4 DEF Next
<1> QED
  BY <1>1, <1>2, TypeCorrect, PTL DEF Spec

-----------------------------------------------------------------------------
(* What a visit changes, for the theorems below.                            *)
LEMMA VisitChanges ==
  ASSUME TypeOK, Visit
  PROVE  /\ Top \in Blocks(problem)
         /\ UNCHANGED <<problem, status>>
         /\ status = "running"
         /\ \/ UNCHANGED outgoing
            \/ /\ outgoing[Top] # Equation(problem, outgoing, Top)
               /\ outgoing' = [outgoing EXCEPT ![Top] = Equation(problem, outgoing, Top)]
  BY Pop DEF TypeOK, Visit, Top

(* Giving up and returning leave the facts as they are.                     *)
LEMMA OthersKeep ==
  ASSUME TypeOK
  PROVE  Panic \/ ReturnSolution \/ UNCHANGED vars => UNCHANGED <<problem, outgoing>>
  BY DEF Panic, ReturnSolution, vars

-----------------------------------------------------------------------------
(* Facts only grow.  The invariant behind it: every fact a block holds is   *)
(* one its equation still supports, so evaluating it again takes nothing    *)
(* away.                                                                    *)

(* A visit takes nothing out of any fact.                                   *)
LEMMA VisitGrows ==
  ASSUME TypeOK, BelowEquation, Visit
  PROVE  \A b \in Blocks(problem) : outgoing[b] \subseteq outgoing'[b]
  BY VisitChanges DEF BelowEquation, TypeOK, FactsOf

(* A visit leaves every fact supported by its equation.                     *)
LEMMA VisitStaysBelowEquation ==
  ASSUME TypeOK, BelowEquation, Visit
  PROVE  BelowEquation'
<1> USE ProblemAssumption
<1>1. WellFormed(problem) /\ problem' = problem
  BY VisitChanges DEF TypeOK
<1> SUFFICES ASSUME NEW b \in Blocks(problem)
             PROVE  outgoing'[b] \subseteq Equation(problem, outgoing', b)
  BY <1>1 DEF BelowEquation
<1>2. Equation(problem, outgoing, b) \subseteq Equation(problem, outgoing', b)
  BY <1>1, VisitGrows, EquationMonotone
<1>3. outgoing'[b] \subseteq Equation(problem, outgoing, b)
  BY VisitChanges DEF BelowEquation, TypeOK, FactsOf
<1> QED
  BY <1>2, <1>3

(* Facts are at most what their equations give now, in every run.           *)
THEOREM SupportedFacts == Spec => []BelowEquation
<1>1. Init => BelowEquation
  BY DEF Init, BelowEquation, NothingKnown
<1>2. TypeOK /\ BelowEquation /\ [Next]_vars => BelowEquation'
  <2> SUFFICES ASSUME TypeOK, BelowEquation, [Next]_vars PROVE BelowEquation'
    OBVIOUS
  <2>1. CASE Visit
    BY <2>1, VisitStaysBelowEquation
  <2>2. CASE Panic \/ ReturnSolution \/ UNCHANGED vars
    BY <2>2, OthersKeep DEF BelowEquation
  <2> QED
    BY <2>1, <2>2 DEF Next
<1> QED
  BY <1>1, <1>2, TypeCorrect, PTL DEF Spec

(* No visit takes back a fact that `solve` already has for a block.         *)
THEOREM Growth == Spec => FactsOnlyGrow
<1>1. TypeOK /\ BelowEquation /\ [Next]_vars
        => [\A b \in Blocks(problem) : outgoing[b] \subseteq outgoing'[b]]_vars
  <2> SUFFICES ASSUME TypeOK, BelowEquation, [Next]_vars
               PROVE  \A b \in Blocks(problem) : outgoing[b] \subseteq outgoing'[b]
    OBVIOUS
  <2>1. CASE Visit
    BY <2>1, VisitGrows
  <2>2. CASE Panic \/ ReturnSolution \/ UNCHANGED vars
    BY <2>2, OthersKeep
  <2> QED
    BY <2>1, <2>2 DEF Next
<1> QED
  BY <1>1, TypeCorrect, SupportedFacts, PTL DEF Spec, FactsOnlyGrow

-----------------------------------------------------------------------------
(* Nothing is invented: what `solve` knows of a block is part of every      *)
(* solution of the equations.                                               *)

(* A visit adds nothing that some solution does without.                    *)
LEMMA VisitStaysBelowSolutions ==
  ASSUME TypeOK, BelowEverySolution, Visit
  PROVE  BelowEverySolution'
<1> USE ProblemAssumption
<1>1. WellFormed(problem) /\ problem' = problem
  BY VisitChanges DEF TypeOK
<1> SUFFICES ASSUME NEW s \in FactsOf(problem), Solution(problem, s),
                    NEW b \in Blocks(problem)
             PROVE  outgoing'[b] \subseteq s[b]
  BY <1>1 DEF BelowEverySolution
<1>2. \A c \in Blocks(problem) : outgoing[c] \subseteq s[c]
  BY DEF BelowEverySolution
<1>3. Equation(problem, outgoing, Top) \subseteq Equation(problem, s, Top)
  BY <1>1, <1>2, VisitChanges, EquationMonotone
<1>4. Equation(problem, s, Top) = s[Top]
  BY VisitChanges DEF Solution
<1> QED
  BY <1>2, <1>3, <1>4, VisitChanges DEF TypeOK, FactsOf

(* Facts are within every solution of the equations, in every run.          *)
THEOREM NothingInvented == Spec => []BelowEverySolution
<1>1. Init => BelowEverySolution
  BY DEF Init, BelowEverySolution, NothingKnown
<1>2. TypeOK /\ BelowEverySolution /\ [Next]_vars => BelowEverySolution'
  <2> SUFFICES ASSUME TypeOK, BelowEverySolution, [Next]_vars PROVE BelowEverySolution'
    OBVIOUS
  <2>1. CASE Visit
    BY <2>1, VisitStaysBelowSolutions
  <2>2. CASE Panic \/ ReturnSolution \/ UNCHANGED vars
    BY <2>2, OthersKeep DEF BelowEverySolution
  <2> QED
    BY <2>1, <2>2 DEF Next
<1> QED
  BY <1>1, <1>2, TypeCorrect, PTL DEF Spec

(* An answer is handed out only with an empty worklist.                     *)
EmptyWhenDone == status = "done" => worklist = <<>>

(* solve returns only when nothing is on the worklist.                      *)
LEMMA DoneIsEmpty == Spec => []EmptyWhenDone
<1>1. Init => EmptyWhenDone
  BY DEF Init, EmptyWhenDone
<1>2. EmptyWhenDone /\ [Next]_vars => EmptyWhenDone'
  BY DEF EmptyWhenDone, Next, Visit, Panic, ReturnSolution, vars
<1> QED
  BY <1>1, <1>2, PTL DEF Spec

(* What `solve` returns is the least solution of the equations, whatever    *)
(* the graph, the direction and the transfer functions.                     *)
THEOREM LeastSolutionReturned == Spec => []AnswerIsLeastSolution
<1>1. SettledOffTheWorklist /\ BelowEverySolution /\ EmptyWhenDone => AnswerIsLeastSolution
  BY DEF SettledOffTheWorklist, EmptyWhenDone, AnswerIsLeastSolution, Solution, ToSet
<1> QED
  BY <1>1, Settled, NothingInvented, DoneIsEmpty, PTL

-----------------------------------------------------------------------------
(* Induction, and functions given by recursion, on numbers.                 *)

(* A set of numbers has a least one.                                        *)
LEMMA LeastNumber ==
  ASSUME NEW T \in SUBSET Nat, T # {}
  PROVE  \E x \in T : \A y \in T : x <= y
<1> DEFINE R == {ss \in Nat \X Nat : ss[1] < ss[2]}
<1>1. IsWellFoundedOn(R, Nat)
  BY NatLessThanWellFounded DEF OpToRel
<1>2. \A x, y \in Nat : <<y, x>> \in R <=> y < x
  OBVIOUS
<1> HIDE DEF R
<1>3. \E x \in T : \A y \in T : ~ (<<y, x>> \in R)
  BY <1>1, WFMin
<1>4. PICK x \in T : \A y \in T : ~ (<<y, x>> \in R)
  BY <1>3
<1>5. \A y \in T : y \in Nat /\ x \in Nat /\ ~(y < x)
  BY <1>2, <1>4
<1> QED
  BY <1>5

(* A set of numbers with 0 that is closed under successor has them all.     *)
LEMMA Induction ==
  ASSUME NEW T, 0 \in T, \A n \in Nat : n \in T => n + 1 \in T
  PROVE  Nat \subseteq T
<1> SUFFICES ASSUME Nat \ T # {} PROVE FALSE
  OBVIOUS
<1>1. PICK x \in Nat \ T : \A y \in Nat \ T : x <= y
  BY LeastNumber
<1>2. x - 1 \in Nat /\ ~(x <= x - 1)
  BY <1>1
<1> QED
  BY <1>1, <1>2

(* What f computes up to m is given by recursion: from a, with G.            *)
Recurs(f, m, a, G) == \A n \in 0 .. m : f[n] = IF n = 0 THEN a ELSE G[n][f[n - 1]]

(* Such functions exist,  *)
LEMMA RecursionUpTo ==
  ASSUME NEW S, NEW a \in S, NEW G \in [Nat -> [S -> S]]
  PROVE  \A m \in Nat : \E f \in [0 .. m -> S] : Recurs(f, m, a, G)
<1> DEFINE T == {m \in Nat : \E f \in [0 .. m -> S] : Recurs(f, m, a, G)}
<1>1. 0 \in T
  <2> DEFINE f == [n \in 0 .. 0 |-> a]
  <2>1. f \in [0 .. 0 -> S] /\ Recurs(f, 0, a, G)
    BY DEF Recurs
  <2> QED
    BY <2>1
<1>2. ASSUME NEW m \in Nat, m \in T PROVE m + 1 \in T
  <2>1. PICK f \in [0 .. m -> S] : Recurs(f, m, a, G)
    BY <1>2
  <2> DEFINE g == [n \in 0 .. m + 1 |-> IF n = m + 1 THEN G[m + 1][f[m]] ELSE f[n]]
  <2>2. g \in [0 .. m + 1 -> S]
    BY <2>1
  <2>3. Recurs(g, m + 1, a, G)
    BY <2>1 DEF Recurs
  <2> HIDE DEF g
  <2> QED
    BY <2>2, <2>3
<1> HIDE DEF T
<1>3. Nat \subseteq T
  BY <1>1, <1>2, Induction
<1> QED
  BY <1>3 DEF T

(* and agree as far as they go.                                             *)
LEMMA RecursionUnique ==
  ASSUME NEW a, NEW G, NEW m \in Nat, NEW k \in Nat, NEW f, NEW g,
         Recurs(f, m, a, G), Recurs(g, k, a, G)
  PROVE  \A n \in Nat : n <= m /\ n <= k => f[n] = g[n]
<1> DEFINE T == {n \in Nat : n <= m /\ n <= k => f[n] = g[n]}
<1>1. 0 \in T
  BY DEF Recurs
<1>2. ASSUME NEW n \in Nat, n \in T PROVE n + 1 \in T
  BY <1>2 DEF Recurs
<1> HIDE DEF T
<1>3. Nat \subseteq T
  BY <1>1, <1>2, Induction
<1> QED
  BY <1>3 DEF T

(* So there is one on all numbers.                                          *)
LEMMA Recursion ==
  ASSUME NEW S, NEW a \in S, NEW G \in [Nat -> [S -> S]]
  PROVE  \E f \in [Nat -> S] : \A n \in Nat : f[n] = IF n = 0 THEN a ELSE G[n][f[n - 1]]
<1> DEFINE F == [m \in Nat |-> CHOOSE f \in [0 .. m -> S] : Recurs(f, m, a, G)]
           h == [n \in Nat |-> F[n][n]]
<1>1. \A m \in Nat : F[m] \in [0 .. m -> S] /\ Recurs(F[m], m, a, G)
  BY RecursionUpTo
<1> HIDE DEF F
<1>2. \A m, k, n \in Nat : n <= m /\ n <= k => F[m][n] = F[k][n]
  BY <1>1, RecursionUnique
<1>3. ASSUME NEW n \in Nat
      PROVE  /\ F[n][n] \in S
             /\ F[n][n] = IF n = 0 THEN a ELSE G[n][F[n - 1][n - 1]]
  <2> n \in 0 .. n
    OBVIOUS
  <2>1. /\ F[n] \in [0 .. n -> S]
        /\ F[n][n] = IF n = 0 THEN a ELSE G[n][F[n][n - 1]]
    BY <1>1 DEF Recurs
  <2>2. CASE n = 0
    BY <2>1, <2>2
  <2>3. CASE n # 0
    <3>1. n - 1 \in Nat /\ F[n][n - 1] = F[n - 1][n - 1]
      BY <1>2, <2>3
    <3> QED
      BY <2>1, <2>3, <3>1
  <2> QED
    BY <2>2, <2>3
<1>4. h \in [Nat -> S]
  BY <1>3
<1>5. \A n \in Nat : h[n] = IF n = 0 THEN a ELSE G[n][h[n - 1]]
  BY <1>3
<1> HIDE DEF h
<1> QED
  BY <1>4, <1>5

-----------------------------------------------------------------------------
(* Paths.                                                                   *)

(* What PathsOfLength is to have: sequences of blocks that feed each other. *)
IsPath(q, p, n) ==
  /\ p \in Seq(Blocks(q)) /\ Len(p) = n + 1
  /\ \A i \in 1 .. n : p[i] \in Feeders(q, p[i + 1])

Extended(q, Ps) ==
  {Append(step[1], step[2]) : step \in
     {s \in Ps \X Blocks(q) : Last(s[1]) \in Feeders(q, s[2])}}

(* A path of one block.                                                     *)
LEMMA SingleBlock ==
  ASSUME NEW S, NEW b \in S
  PROVE  <<b>> \in Seq(S) /\ Len(<<b>>) = 1 /\ <<b>>[1] = b
<1>1. <<b>> = [i \in 1 .. 1 |-> b]
  OBVIOUS
<1>2. [i \in 1 .. 1 |-> b] \in Seq(S)
  BY IsASeq
<1> QED
  BY <1>1, <1>2

(* The recursion PathsOfLength is defined by.                               *)
LEMMA PathsByLength ==
  ASSUME NEW q
  PROVE  /\ PathsOfLength(q)[0] = {<<b>> : b \in Blocks(q)}
         /\ \A n \in Nat : PathsOfLength(q)[n + 1] = Extended(q, PathsOfLength(q)[n])
<1> DEFINE S == SUBSET Seq(Blocks(q))
           a == {<<b>> : b \in Blocks(q)}
           G == [n \in Nat |-> [Ps \in S |-> Extended(q, Ps)]]
           R(f) == [n \in Nat |-> IF n = 0 THEN a ELSE Extended(q, f[n - 1])]
<1>1. a \in S
  BY SingleBlock
<1>2. \A Ps \in S : Extended(q, Ps) \in S
  BY AppendProperties DEF Extended
<1>3. G \in [Nat -> [S -> S]] /\ \A n \in Nat, Ps \in S : G[n][Ps] = Extended(q, Ps)
  BY <1>2
<1> HIDE DEF S, a, G
<1>4. PICK f \in [Nat -> S] : \A n \in Nat : f[n] = IF n = 0 THEN a ELSE G[n][f[n - 1]]
  BY <1>1, <1>3, Recursion
<1>5. \A n \in Nat : f[n] = IF n = 0 THEN a ELSE Extended(q, f[n - 1])
  <2> SUFFICES ASSUME NEW n \in Nat, n # 0 PROVE G[n][f[n - 1]] = Extended(q, f[n - 1])
    BY <1>4
  <2>1. f[n - 1] \in S
    OBVIOUS
  <2> QED
    BY <1>3, <2>1
<1>6. f = R(f)
  BY <1>5
<1>7. PathsOfLength(q) = CHOOSE g : g = R(g)
  BY DEF PathsOfLength, a, Extended
<1>8. PathsOfLength(q) = R(PathsOfLength(q))
  BY <1>6, <1>7
<1>9. \A n \in Nat : n + 1 \in Nat /\ n + 1 # 0 /\ n + 1 - 1 = n
  OBVIOUS
<1> QED
  BY <1>8, <1>9 DEF a

(* ... and what it has.                                                     *)
LEMMA PathsAreWalks ==
  ASSUME NEW q
  PROVE  \A n \in Nat : \A p : p \in PathsOfLength(q)[n] <=> IsPath(q, p, n)
<1> DEFINE P == PathsOfLength(q)
           T == {n \in Nat : \A p : p \in P[n] <=> IsPath(q, p, n)}
<1>1. 0 \in T
  <2>1. P[0] = {<<b>> : b \in Blocks(q)}
    BY PathsByLength
  <2>2. ASSUME NEW p PROVE p \in {<<b>> : b \in Blocks(q)} <=> IsPath(q, p, 0)
    <3>1. IsPath(q, p, 0) => p \in {<<b>> : b \in Blocks(q)}
      <4> SUFFICES ASSUME p \in Seq(Blocks(q)), Len(p) = 1
                   PROVE  p[1] \in Blocks(q) /\ p = <<p[1]>>
        BY DEF IsPath
      <4>1. p[1] \in Blocks(q)
        BY ElementOfSeq
      <4> QED
        BY <4>1, SingleBlock, SeqEqual
    <3>2. ASSUME NEW b \in Blocks(q) PROVE IsPath(q, <<b>>, 0)
      BY SingleBlock DEF IsPath
    <3> QED
      BY <3>1, <3>2
  <2> QED
    BY <2>1, <2>2
<1>2. ASSUME NEW n \in Nat, n \in T PROVE n + 1 \in T
  <2>1. P[n + 1] = Extended(q, P[n])
    BY PathsByLength
  <2>2. \A p : p \in P[n] <=> IsPath(q, p, n)
    BY <1>2
  <2> HIDE DEF P
  <2>3. ASSUME NEW p, p \in Extended(q, P[n]) PROVE IsPath(q, p, n + 1)
    <3>1. PICK r \in P[n], b \in Blocks(q) : Last(r) \in Feeders(q, b) /\ p = Append(r, b)
      BY <2>3 DEF Extended
    <3>2. r \in Seq(Blocks(q)) /\ Len(r) = n + 1
          /\ \A i \in 1 .. n : r[i] \in Feeders(q, r[i + 1])
      BY <2>2, <3>1 DEF IsPath
    <3>3. p \in Seq(Blocks(q)) /\ Len(p) = n + 2 /\ p[n + 2] = b
          /\ \A i \in 1 .. n + 1 : p[i] = r[i]
      BY <3>1, <3>2, AppendProperties
    <3>4. r[n + 1] \in Feeders(q, b)
      BY <3>1, <3>2 DEF Last
    <3> QED
      BY <3>2, <3>3, <3>4 DEF IsPath
  <2>4. ASSUME NEW p, IsPath(q, p, n + 1) PROVE p \in Extended(q, P[n])
    <3> DEFINE r == SubSeq(p, 1, n + 1)
    <3>1. p \in Seq(Blocks(q)) /\ Len(p) = n + 2
          /\ \A i \in 1 .. n + 1 : p[i] \in Feeders(q, p[i + 1])
      BY <2>4 DEF IsPath
    <3>2. \A i \in 1 .. n + 2 : p[i] \in Blocks(q)
      BY <3>1, ElementOfSeq
    <3>3. r \in Seq(Blocks(q)) /\ Len(r) = n + 1 /\ \A i \in 1 .. n + 1 : r[i] = p[i]
      BY <3>1, <3>2, SubSeqProperties
    <3>4. IsPath(q, r, n)
      BY <3>1, <3>3 DEF IsPath
    <3>5. p = Append(r, p[n + 2])
      <4> DEFINE t == Append(r, p[n + 2])
      <4>1. t \in Seq(Blocks(q)) /\ Len(t) = n + 2 /\ t[n + 2] = p[n + 2]
            /\ \A i \in 1 .. n + 1 : t[i] = r[i]
        BY <3>2, <3>3, AppendProperties
      <4> HIDE DEF t, r
      <4>2. \A i \in 1 .. n + 2 : t[i] = p[i]
        BY <3>3, <4>1
      <4> QED
        BY <3>1, <4>1, <4>2, SeqEqual DEF t
    <3>6. Last(r) \in Feeders(q, p[n + 2])
      <4>1. Last(r) = p[n + 1]
        BY <3>3 DEF Last
      <4>2. p[n + 1] \in Feeders(q, p[n + 1 + 1])
        BY <3>1
      <4> QED
        BY <4>1, <4>2
    <3> HIDE DEF r
    <3>7. r \in P[n] /\ p[n + 2] \in Blocks(q)
      BY <2>2, <3>2, <3>4
    <3>8. <<r, p[n + 2]>> \in {s \in P[n] \X Blocks(q) : Last(s[1]) \in Feeders(q, s[2])}
      BY <3>6, <3>7
    <3> QED
      BY <3>5, <3>8 DEF Extended
  <2> QED
    BY <2>1, <2>3, <2>4
<1> HIDE DEF T
<1>3. Nat \subseteq T
  BY <1>1, <1>2, Induction
<1> QED
  BY <1>3 DEF T

(* x is known at b along some path.                                         *)
Arrives(q, b, x) ==
  \E n \in Nat : \E p : IsPath(q, p, n) /\ Last(p) = b /\ Carries(q, p, x)

ByPaths(q) == [b \in Blocks(q) |-> {x \in Symbol : Arrives(q, b, x)}]

(* A path is made of blocks.                                                *)
LEMMA PathBlocks ==
  ASSUME NEW q, NEW n \in Nat, NEW p, IsPath(q, p, n)
  PROVE  /\ \A i \in 1 .. n + 1 : p[i] \in Blocks(q)
         /\ Last(p) = p[n + 1]
  BY ElementOfSeq DEF IsPath, Last

(* Where x is known before a block that does not remove it, it is known     *)
(* after; and what a block adds is.                                         *)
LEMMA EquationHas ==
  ASSUME NEW q, NEW s, NEW b, NEW x
  PROVE  x \in Equation(q, s, b) <=>
           \/ x \in q.gen[b]
           \/ /\ x \notin q.kill[b]
              /\ (b = Start(q) /\ x \in q.boundary) \/ \E f \in Feeders(q, b) : x \in s[f]
<1>1. x \in Gathered(q, s, b) <=>
        (b = Start(q) /\ x \in q.boundary) \/ \E f \in Feeders(q, b) : x \in s[f]
  BY DEF Gathered
<1> QED
  BY <1>1 DEF Equation, Transfer

(* Every solution knows what a path carries.                                *)
LEMMA CarriedIsKnown ==
  ASSUME NEW q, NEW s, Solution(q, s), NEW n \in Nat, NEW p, IsPath(q, p, n),
         NEW x, Carries(q, p, x)
  PROVE  x \in s[Last(p)]
<1> DEFINE T == {i \in Nat : i <= n => x \in s[p[i + 1]]}
<1>1. \A i \in 1 .. n + 1 : x \in Equation(q, s, p[i]) => x \in s[p[i]]
  BY PathBlocks DEF Solution
<1>2. 0 \in T
  <2>1. x \in Equation(q, s, p[1])
    BY EquationHas DEF Carries
  <2> QED
    BY <1>1, <2>1
<1>3. ASSUME NEW i \in Nat, i \in T PROVE i + 1 \in T
  <2> SUFFICES ASSUME i + 1 <= n PROVE x \in s[p[i + 2]]
    BY <1>3
  <2>1. x \in s[p[i + 1]] /\ i + 1 \in 1 .. n
    BY <1>3
  <2>2. p[i + 1] \in Feeders(q, p[i + 2])
    BY <2>1 DEF IsPath
  <2>3. i + 2 \in 2 .. Len(p) /\ i + 2 \in 1 .. n + 1
    BY DEF IsPath
  <2>4. x \notin q.kill[p[i + 2]]
    BY <2>3 DEF Carries
  <2>5. x \in Equation(q, s, p[i + 2])
    BY <2>1, <2>2, <2>4, EquationHas
  <2> QED
    BY <1>1, <2>3, <2>5
<1> HIDE DEF T
<1>4. Nat \subseteq T
  BY <1>2, <1>3, Induction
<1>5. x \in s[p[n + 1]]
  BY <1>4 DEF T
<1> QED
  BY <1>5, PathBlocks

(* A path that carries x may go on.                                         *)
LEMMA PathGoesOn ==
  ASSUME NEW q, NEW n \in Nat, NEW p, IsPath(q, p, n), NEW x, Carries(q, p, x),
         NEW b \in Blocks(q), Last(p) \in Feeders(q, b), x \notin q.kill[b]
  PROVE  Arrives(q, b, x)
<1> DEFINE r == Append(p, b)
<1>1. /\ r \in Seq(Blocks(q)) /\ Len(r) = n + 2 /\ r[n + 2] = b
      /\ \A i \in 1 .. n + 1 : r[i] = p[i]
  BY AppendProperties DEF IsPath
<1> HIDE DEF r
<1>2. \A i \in 1 .. n + 1 : r[i] \in Feeders(q, r[i + 1])
  BY <1>1, PathBlocks DEF IsPath
<1>3. IsPath(q, r, n + 1) /\ Last(r) = b
  BY <1>1, <1>2 DEF IsPath, Last
<1>4. Carries(q, r, x)
  <2>1. r[1] = p[1] /\ Len(p) = n + 1
    BY <1>1 DEF IsPath
  <2>2. ASSUME NEW i \in 2 .. Len(r) PROVE x \notin q.kill[r[i]]
    <3>1. CASE i = n + 2
      BY <1>1, <3>1
    <3>2. CASE i # n + 2
      <4>1. i \in 2 .. Len(p) /\ r[i] = p[i]
        BY <1>1, <2>1, <3>2
      <4> QED
        BY <4>1 DEF Carries
    <3> QED
      BY <3>1, <3>2
  <2> QED
    BY <2>1, <2>2 DEF Carries
<1> QED
  BY <1>3, <1>4 DEF Arrives

(* A path may begin where the equation of its block says so.                *)
LEMMA PathBegins ==
  ASSUME NEW q, NEW b \in Blocks(q), NEW x,
         x \in q.gen[b] \/ (b = Start(q) /\ x \in q.boundary \ q.kill[b])
  PROVE  Arrives(q, b, x)
<1>1. <<b>> \in Seq(Blocks(q)) /\ Len(<<b>>) = 1 /\ <<b>>[1] = b
  BY SingleBlock
<1> DEFINE p == <<b>>
<1> HIDE DEF p
<1>2. IsPath(q, p, 0) /\ Last(p) = b /\ Carries(q, p, x)
  BY <1>1 DEF IsPath, Last, Carries, p
<1> QED
  BY <1>2 DEF Arrives

(* What paths carry solves the equations.                                   *)
LEMMA PathsSolve ==
  ASSUME NEW q, WellFormed(q)
  PROVE  ByPaths(q) \in FactsOf(q) /\ Solution(q, ByPaths(q))
<1> DEFINE s == ByPaths(q)
<1>1. s \in FactsOf(q) /\ \A b \in Blocks(q) : \A x : x \in s[b] <=> x \in Symbol /\ Arrives(q, b, x)
  BY DEF ByPaths, FactsOf
<1> HIDE DEF s
<1>2. \A b \in Blocks(q) : Feeders(q, b) \subseteq Blocks(q)
  BY ElementOfSeq DEF WellFormed, ToSet, Feeders
<1>3. ASSUME NEW b \in Blocks(q), NEW x, x \in Equation(q, s, b) PROVE x \in s[b]
  <2>1. x \in Symbol
    BY <1>1, <1>3, EquationType
  <2>2. CASE x \in q.gen[b] \/ (b = Start(q) /\ x \in q.boundary \ q.kill[b])
    BY <1>1, <2>1, <2>2, PathBegins
  <2>3. CASE x \notin q.kill[b] /\ \E f \in Feeders(q, b) : x \in s[f]
    <3>1. PICK f \in Feeders(q, b) : x \in s[f]
      BY <2>3
    <3>2. PICK n, p : n \in Nat /\ IsPath(q, p, n) /\ Last(p) = f /\ Carries(q, p, x)
      BY <1>1, <1>2, <3>1 DEF Arrives
    <3> QED
      BY <1>1, <2>1, <2>3, <3>1, <3>2, PathGoesOn
  <2> QED
    BY <1>3, <2>2, <2>3, EquationHas
<1>4. ASSUME NEW b \in Blocks(q), NEW x, x \in s[b] PROVE x \in Equation(q, s, b)
  <2>1. PICK n, p : n \in Nat /\ IsPath(q, p, n) /\ Last(p) = b /\ Carries(q, p, x)
    BY <1>1, <1>4 DEF Arrives
  <2>2. CASE n = 0
    <3>1. p[1] = b
      BY <2>1, <2>2, PathBlocks
    <3> QED
      BY <2>1, <3>1, EquationHas DEF Carries
  <2>3. CASE n # 0
    <3> n \in Nat
      BY <2>1
    <3> DEFINE r == SubSeq(p, 1, n)
    <3>1. /\ p \in Seq(Blocks(q)) /\ Len(p) = n + 1 /\ p[n + 1] = b
          /\ \A i \in 1 .. n + 1 : p[i] \in Blocks(q)
          /\ \A i \in 1 .. n : p[i] \in Feeders(q, p[i + 1])
      BY <2>1, PathBlocks DEF IsPath
    <3>2. r \in Seq(Blocks(q)) /\ Len(r) = n /\ \A i \in 1 .. n : r[i] = p[i]
      BY <3>1, SubSeqProperties
    <3> HIDE DEF r
    <3>3. n - 1 \in Nat /\ Len(r) = n - 1 + 1 /\ n \in 1 .. n /\ 1 \in 1 .. n
      BY <2>3, <3>2
    <3>4. IsPath(q, r, n - 1) /\ Last(r) = p[n]
      BY <3>1, <3>2, <3>3 DEF IsPath, Last
    <3>5. Carries(q, r, x)
      <4>1. \A i \in 2 .. Len(r) : i \in 2 .. Len(p) /\ r[i] = p[i]
        BY <3>1, <3>2
      <4> QED
        BY <2>1, <3>2, <3>3, <4>1 DEF Carries
    <3>6. p[n] \in Feeders(q, b) /\ p[n] \in Blocks(q)
      BY <3>1, <3>3
    <3>7. x \in s[p[n]]
      BY <1>1, <1>4, <3>3, <3>4, <3>5, <3>6 DEF Arrives
    <3>8. x \notin q.kill[b]
      <4>1. n + 1 \in 2 .. Len(p)
        BY <2>3, <3>1
      <4> QED
        BY <2>1, <3>1, <4>1 DEF Carries
    <3> QED
      BY <3>6, <3>7, <3>8, EquationHas
  <2> QED
    BY <2>2, <2>3
<1>5. \A b \in Blocks(q) : s[b] = Equation(q, s, b)
  BY <1>3, <1>4
<1> QED
  BY <1>1, <1>5 DEF Solution, s

(* A path that meets a block twice can do without what is between.          *)
LEMMA PathShortens ==
  ASSUME NEW q, NEW n \in Nat, NEW p, IsPath(q, p, n), NEW x, Carries(q, p, x),
         NEW i \in 1 .. n + 1, NEW j \in 1 .. n + 1, i < j, p[i] = p[j]
  PROVE  \E r : /\ IsPath(q, r, n - (j - i))
                /\ Last(r) = Last(p) /\ Carries(q, r, x)
<1> DEFINE m == n - (j - i)
           of(k) == IF k <= i THEN k ELSE k + (j - i)
           r == [k \in 1 .. m + 1 |-> p[of(k)]]
<1>1. m \in Nat /\ i \in 1 .. m + 1 /\ j = i + (j - i) /\ n + 1 = (m + 1) + (j - i)
  OBVIOUS
<1>2. \A k \in 1 .. m + 1 : of(k) \in 1 .. n + 1 /\ r[k] = p[of(k)]
  OBVIOUS
<1>3. r \in Seq(Blocks(q)) /\ Len(r) = m + 1
  <2>1. r \in [1 .. m + 1 -> Blocks(q)]
    BY <1>2, PathBlocks
  <2> HIDE DEF m, r
  <2> QED
    BY <1>1, <2>1, IsASeq
<1>4. ASSUME NEW k \in 1 .. m PROVE r[k] \in Feeders(q, r[k + 1])
  <2>1. CASE k < i
    <3>1. r[k] = p[k] /\ r[k + 1] = p[k + 1] /\ k \in 1 .. n
      BY <1>1, <2>1
    <3> QED
      BY <3>1 DEF IsPath
  <2>2. CASE k = i
    <3>1. r[k] = p[j] /\ r[k + 1] = p[j + 1] /\ j \in 1 .. n
      BY <1>1, <2>2
    <3> QED
      BY <3>1 DEF IsPath
  <2>3. CASE k > i
    <3> DEFINE l == k + (j - i)
    <3>1. r[k] = p[l] /\ r[k + 1] = p[l + 1] /\ l \in 1 .. n
      BY <1>1, <2>3
    <3> HIDE DEF l
    <3> QED
      BY <3>1 DEF IsPath
  <2> QED
    BY <2>1, <2>2, <2>3
<1>5. r[1] = p[1]
  BY <1>1
<1>6. r[m + 1] = p[n + 1]
  <2>1. CASE m + 1 <= i
    BY <1>1, <2>1
  <2>2. CASE m + 1 > i
    BY <1>1, <2>2
  <2> QED
    BY <1>1, <2>1, <2>2
<1>7. \A k \in 2 .. m + 1 : of(k) \in 2 .. n + 1
  OBVIOUS
<1> HIDE DEF m, r, of
<1>8. IsPath(q, r, m)
  BY <1>3, <1>4 DEF IsPath
<1>9. Last(r) = Last(p)
  BY <1>1, <1>6, <1>8, PathBlocks
<1>10. Carries(q, r, x)
  <2>1. Len(p) = n + 1 /\ \A k \in 2 .. m + 1 : k \in 1 .. m + 1
    BY <1>1 DEF IsPath
  <2>2. \A k \in 2 .. Len(r) : of(k) \in 2 .. Len(p) /\ r[k] = p[of(k)]
    BY <1>2, <1>3, <1>7, <2>1
  <2> QED
    BY <1>5, <2>2 DEF Carries
<1> QED
  BY <1>8, <1>9, <1>10 DEF m

(* What arrives, arrives on a path of PathsOf.                              *)
LEMMA ShortPathsSuffice ==
  ASSUME NEW q, WellFormed(q), NEW b, NEW x, Arrives(q, b, x)
  PROVE  \E p \in PathsOf(q) : Last(p) = b /\ Carries(q, p, x)
<1> DEFINE N == {n \in Nat : \E p : IsPath(q, p, n) /\ Last(p) = b /\ Carries(q, p, x)}
<1>1. N \in SUBSET Nat /\ N # {}
  BY DEF Arrives
<1>2. PICK n \in N : \A m \in N : n <= m
  BY <1>1, LeastNumber
<1>3. PICK p : IsPath(q, p, n) /\ Last(p) = b /\ Carries(q, p, x)
  BY <1>2
<1>4. q.count \in Nat \ {0} /\ Blocks(q) = 0 .. q.count - 1 /\ n \in Nat
  BY <1>2 DEF WellFormed, Blocks
<1>5. n < q.count
  <2> SUFFICES ASSUME ~(n < q.count) PROVE FALSE
    OBVIOUS
  <2>1. /\ IsFiniteSet(1 .. n + 1) /\ Cardinality(1 .. n + 1) = n + 1
        /\ IsFiniteSet(Blocks(q)) /\ Cardinality(Blocks(q)) = q.count
    <3>1. Cardinality(1 .. n + 1) = n + 1 /\ IsFiniteSet(1 .. n + 1)
      BY <1>4, FS_Interval
    <3>2. Cardinality(0 .. q.count - 1) = q.count /\ IsFiniteSet(0 .. q.count - 1)
      <4> DEFINE last == q.count - 1
      <4>1. last \in Int /\ ~(0 > last) /\ last - 0 + 1 = q.count
        BY <1>4
      <4> HIDE DEF last
      <4>2. Cardinality(0 .. last) = q.count /\ IsFiniteSet(0 .. last)
        BY <4>1, FS_Interval
      <4> QED
        BY <4>2 DEF last
    <3> QED
      BY <1>4, <3>1, <3>2
  <2>2. Cardinality(Blocks(q)) < Cardinality(1 .. n + 1)
    BY <1>4, <2>1
  <2> DEFINE f == [k \in 1 .. n + 1 |-> p[k]]
  <2>3. f \in [1 .. n + 1 -> Blocks(q)]
    BY <1>3, <1>4, PathBlocks
  <2> HIDE DEF f
  <2>4. PICK k \in 1 .. n + 1, l \in 1 .. n + 1 : k # l /\ f[k] = f[l]
    BY <2>1, <2>2, <2>3, FS_PigeonHole
  <2>5. PICK i \in 1 .. n + 1, j \in 1 .. n + 1 : i < j /\ p[i] = p[j]
    <3>1. CASE k < l
      BY <2>4, <3>1 DEF f
    <3>2. CASE l < k
      BY <2>4, <3>2 DEF f
    <3> QED
      BY <2>4, <3>1, <3>2, <1>4
  <2>6. PICK r : IsPath(q, r, n - (j - i)) /\ Last(r) = Last(p) /\ Carries(q, r, x)
    BY <1>3, <1>4, <2>5, PathShortens
  <2>7. n - (j - i) \in Nat /\ n - (j - i) < n
    BY <1>4, <2>5
  <2>8. n - (j - i) \in N
    BY <1>3, <2>6, <2>7
  <2> QED
    BY <1>2, <1>4, <2>7, <2>8
<1>6. p \in PathsOfLength(q)[n] /\ n \in 0 .. q.count - 1
  BY <1>3, <1>4, <1>5, PathsAreWalks
<1>7. p \in PathsOf(q)
  BY <1>6 DEF PathsOf
<1> QED
  BY <1>3, <1>7

(* An answer of solve means paths.                                          *)
THEOREM AnswersArePaths == Spec => []AnswerMeansPaths
<1> USE ProblemAssumption
<1>1. TypeOK /\ AnswerIsLeastSolution => AnswerMeansPaths
  <2> SUFFICES ASSUME TypeOK, AnswerIsLeastSolution, status = "done",
                      NEW b \in Blocks(problem)
               PROVE  outgoing[b] = {x \in Symbol : \E path \in PathsOf(problem) :
                                        Last(path) = b /\ Carries(problem, path, x)}
    BY DEF AnswerMeansPaths
  <2>1. WellFormed(problem) /\ Solution(problem, outgoing) /\ BelowEverySolution
        /\ outgoing[b] \subseteq Symbol
    BY DEF TypeOK, AnswerIsLeastSolution, FactsOf
  <2>2. ASSUME NEW x \in outgoing[b]
        PROVE  \E path \in PathsOf(problem) : Last(path) = b /\ Carries(problem, path, x)
    <3>1. outgoing[b] \subseteq ByPaths(problem)[b]
      BY <2>1, PathsSolve DEF BelowEverySolution
    <3>2. Arrives(problem, b, x)
      BY <3>1 DEF ByPaths
    <3> QED
      BY <2>1, <3>2, ShortPathsSuffice
  <2>3. ASSUME NEW x, NEW path \in PathsOf(problem), Last(path) = b, Carries(problem, path, x)
        PROVE  x \in outgoing[b]
    <3>1. PICK n \in 0 .. problem.count - 1 : path \in PathsOfLength(problem)[n]
      BY DEF PathsOf
    <3>2. n \in Nat /\ IsPath(problem, path, n)
      BY <2>1, <3>1, PathsAreWalks DEF WellFormed
    <3> QED
      BY <2>1, <2>3, <3>2, CarriedIsKnown
  <2> QED
    BY <2>1, <2>2, <2>3
<1> QED
  BY <1>1, TypeCorrect, LeastSolutionReturned, PTL

-----------------------------------------------------------------------------
(* The number of visits.                                                    *)

Weight(q, facts, b) == Cardinality(facts[b]) * Len(Requeue(q, b))

(* The sum Requeued is defined by.                                          *)
LEMMA RequeuedIsSum ==
  ASSUME NEW q, WellFormed(q), NEW facts, \A b \in Blocks(q) : IsFiniteSet(facts[b])
  PROVE  \E f \in [Nat -> Nat] :
           /\ f[0] = 0
           /\ \A n \in 0 .. q.count - 1 : f[n + 1] = f[n] + Weight(q, facts, n)
           /\ Requeued(q, facts) = f[q.count]
<1> DEFINE w == [n \in Nat |-> IF n \in 1 .. q.count THEN Weight(q, facts, n - 1) ELSE 0]
           G == [n \in Nat |-> [x \in Nat |-> x + w[n]]]
           R(g) == [n \in 0 .. q.count |-> IF n = 0 THEN 0 ELSE g[n - 1] + Weight(q, facts, n - 1)]
<1>1. q.count \in Nat /\ Blocks(q) = 0 .. q.count - 1
  BY DEF WellFormed, Blocks
<1>2. \A b \in Blocks(q) : Weight(q, facts, b) \in Nat
  <2> SUFFICES ASSUME NEW b \in Blocks(q) PROVE Weight(q, facts, b) \in Nat
    OBVIOUS
  <2>1. Cardinality(facts[b]) \in Nat
    BY FS_CardinalityType
  <2>2. Requeue(q, b) \in Seq(Blocks(q))
    BY DEF Requeue, WellFormed
  <2>3. Len(Requeue(q, b)) \in Nat
    BY <2>2, LenProperties
  <2> QED
    BY <2>1, <2>3 DEF Weight
<1>3. w \in [Nat -> Nat] /\ \A n \in 1 .. q.count : w[n] = Weight(q, facts, n - 1)
  <2>1. \A n \in 1 .. q.count : n - 1 \in Blocks(q)
    BY <1>1
  <2> QED
    BY <1>2, <2>1
<1> HIDE DEF w
<1>4. G \in [Nat -> [Nat -> Nat]] /\ \A n, x \in Nat : G[n][x] = x + w[n]
  BY <1>3
<1> HIDE DEF G
<1>5. PICK f \in [Nat -> Nat] : \A n \in Nat : f[n] = IF n = 0 THEN 0 ELSE G[n][f[n - 1]]
  <2> DEFINE S == Nat
             a == 0
  <2>1. a \in S /\ G \in [Nat -> [S -> S]]
    BY <1>4
  <2> HIDE DEF S, a
  <2>2. \E f \in [Nat -> S] : \A n \in Nat : f[n] = IF n = 0 THEN a ELSE G[n][f[n - 1]]
    BY <2>1, Recursion
  <2> QED
    BY <2>2 DEF S, a
<1>6. \A n \in 1 .. q.count : f[n] = f[n - 1] + Weight(q, facts, n - 1)
  <2> SUFFICES ASSUME NEW n \in 1 .. q.count PROVE f[n] = f[n - 1] + w[n]
    BY <1>3
  <2>1. n \in Nat /\ n # 0 /\ n - 1 \in Nat
    BY <1>1
  <2>2. f[n] = G[n][f[n - 1]] /\ f[n - 1] \in Nat
    BY <1>5, <2>1
  <2> QED
    BY <1>4, <2>1, <2>2
<1>7. f[0] = 0
  BY <1>5
<1> DEFINE g == [n \in 0 .. q.count |-> f[n]]
<1>8. g = R(g) /\ g[q.count] = f[q.count]
  <2>1. \A n \in 0 .. q.count : n # 0 => n \in 1 .. q.count /\ n - 1 \in 0 .. q.count
    BY <1>1
  <2>2. q.count \in 0 .. q.count
    BY <1>1
  <2> QED
    BY <1>6, <1>7, <2>1, <2>2
<1> HIDE DEF g
<1>9. Requeued(q, facts) = (CHOOSE h : h = R(h))[q.count]
  BY DEF Requeued, Weight
<1> DEFINE c == CHOOSE h : h = R(h)
<1>10. c = R(c)
  BY <1>8
<1> HIDE DEF c
<1>11. c[q.count] = f[q.count]
  <2> DEFINE T == {n \in Nat : n <= q.count => c[n] = f[n]}
  <2>1. 0 \in T
    BY <1>1, <1>7, <1>10
  <2>2. ASSUME NEW n \in Nat, n \in T PROVE n + 1 \in T
    <3> SUFFICES ASSUME n + 1 <= q.count PROVE c[n + 1] = f[n + 1]
      OBVIOUS
    <3>1. n + 1 \in 1 .. q.count /\ n + 1 \in 0 .. q.count /\ n + 1 # 0 /\ n + 1 - 1 = n
      BY <1>1
    <3>2. c[n + 1] = c[n] + Weight(q, facts, n)
      <4>1. R(c)[n + 1] = c[n] + Weight(q, facts, n)
        BY <3>1
      <4> HIDE DEF R
      <4> QED
        BY <1>10, <4>1
    <3>3. f[n + 1] = f[n] + Weight(q, facts, n)
      BY <1>6, <3>1
    <3>4. c[n] = f[n]
      <4>1. n <= q.count
        BY <1>1
      <4> QED
        BY <2>2, <4>1
    <3> QED
      BY <3>2, <3>3, <3>4
  <2> HIDE DEF T
  <2>3. Nat \subseteq T
    BY <2>1, <2>2, Induction
  <2> QED
    BY <1>1, <2>3 DEF T
<1>12. \A n \in 0 .. q.count - 1 : f[n + 1] = f[n] + Weight(q, facts, n)
  <2>1. \A n \in 0 .. q.count - 1 : n + 1 \in 1 .. q.count /\ n + 1 - 1 = n
    BY <1>1
  <2> QED
    BY <1>6, <2>1
<1> QED
  BY <1>7, <1>9, <1>11, <1>12 DEF c

(* One symbol more is worth at least the neighbours it is passed on to.     *)
LEMMA MoreWeighsMore ==
  ASSUME NEW k \in Nat, NEW m \in Nat, NEW l \in Nat, k + 1 <= m
  PROVE  k * l + l <= m * l
<1>1. (m - (k + 1)) * l \in Nat /\ m - (k + 1) \in Nat
  OBVIOUS
<1>2. m * l = (m - (k + 1)) * l + (k * l + l)
  OBVIOUS
<1> QED
  BY <1>1, <1>2

(* Blocks that know more have put as much on the worklist, and one that     *)
(* gained a symbol has put its neighbours there once more.                  *)
LEMMA GainsArePaid ==
  ASSUME NEW q, WellFormed(q), NEW facts, NEW more,
         \A b \in Blocks(q) : IsFiniteSet(more[b]) /\ facts[b] \subseteq more[b]
  PROVE  /\ Requeued(q, facts) \in Nat /\ Requeued(q, more) \in Nat
         /\ Requeued(q, facts) <= Requeued(q, more)
         /\ \A t \in Blocks(q) : facts[t] # more[t] =>
              Requeued(q, facts) + Len(Requeue(q, t)) <= Requeued(q, more)
<1>1. /\ q.count \in Nat
      /\ \A n \in Blocks(q) : n \in Nat /\ n < q.count
      /\ \A n \in Nat : n + 1 <= q.count => n \in Blocks(q) /\ n \in 0 .. q.count - 1
  BY DEF WellFormed, Blocks
<1>2. \A b \in Blocks(q) : IsFiniteSet(facts[b])
  BY FS_Subset
<1>3. \A b \in Blocks(q) : /\ Cardinality(facts[b]) \in Nat /\ Cardinality(more[b]) \in Nat
                           /\ Cardinality(facts[b]) <= Cardinality(more[b])
                           /\ facts[b] # more[b] => Cardinality(facts[b]) + 1 <= Cardinality(more[b])
  <2> SUFFICES ASSUME NEW b \in Blocks(q)
               PROVE  /\ Cardinality(facts[b]) \in Nat /\ Cardinality(more[b]) \in Nat
                      /\ Cardinality(facts[b]) <= Cardinality(more[b])
                      /\ facts[b] # more[b] => Cardinality(facts[b]) + 1 <= Cardinality(more[b])
    OBVIOUS
  <2>1. /\ IsFiniteSet(more[b]) /\ facts[b] \in SUBSET more[b]
        /\ Cardinality(facts[b]) \in Nat /\ Cardinality(more[b]) \in Nat
    BY <1>2, FS_CardinalityType
  <2>2. /\ Cardinality(facts[b]) <= Cardinality(more[b])
        /\ Cardinality(facts[b]) = Cardinality(more[b]) => facts[b] = more[b]
    BY <2>1, FS_Subset
  <2> QED
    BY <2>1, <2>2
<1>4. \A b \in Blocks(q) : Len(Requeue(q, b)) \in Nat
  <2>1. \A b \in Blocks(q) : Requeue(q, b) \in Seq(Blocks(q))
    BY DEF Requeue, WellFormed
  <2> QED
    BY <2>1, LenProperties
<1>5. \A b \in Blocks(q) :
        /\ Weight(q, facts, b) \in Nat /\ Weight(q, more, b) \in Nat
        /\ Weight(q, facts, b) <= Weight(q, more, b)
        /\ facts[b] # more[b] => Weight(q, facts, b) + Len(Requeue(q, b)) <= Weight(q, more, b)
  <2> SUFFICES ASSUME NEW b \in Blocks(q), NEW k \in Nat, NEW m \in Nat, NEW l \in Nat,
                      k = Cardinality(facts[b]), m = Cardinality(more[b]),
                      l = Len(Requeue(q, b)), k <= m
               PROVE  /\ k * l \in Nat /\ m * l \in Nat /\ k * l <= m * l
                      /\ k + 1 <= m => k * l + l <= m * l
    BY <1>3, <1>4 DEF Weight
  <2>1. k * l \in Nat /\ m * l \in Nat
    OBVIOUS
  <2>2. k + 1 <= m => k * l + l <= m * l
    BY MoreWeighsMore
  <2>3. k = m \/ k + 1 <= m
    OBVIOUS
  <2> QED
    BY <2>1, <2>2, <2>3
<1>6. PICK f \in [Nat -> Nat] :
           /\ f[0] = 0
           /\ \A n \in 0 .. q.count - 1 : f[n + 1] = f[n] + Weight(q, facts, n)
           /\ Requeued(q, facts) = f[q.count]
  BY <1>2, RequeuedIsSum
<1>7. PICK g \in [Nat -> Nat] :
           /\ g[0] = 0
           /\ \A n \in 0 .. q.count - 1 : g[n + 1] = g[n] + Weight(q, more, n)
           /\ Requeued(q, more) = g[q.count]
  BY RequeuedIsSum
<1>8. f[q.count] <= g[q.count]
  <2> DEFINE T == {n \in Nat : n <= q.count => f[n] <= g[n]}
  <2>1. 0 \in T
    BY <1>6, <1>7
  <2>2. ASSUME NEW n \in Nat, n \in T PROVE n + 1 \in T
    <3> SUFFICES ASSUME n + 1 <= q.count PROVE f[n + 1] <= g[n + 1]
      OBVIOUS
    <3>1. n \in 0 .. q.count - 1 /\ n \in Blocks(q)
      BY <1>1
    <3> f[n] <= g[n]
      BY <1>1, <2>2
    <3>2. f[n] \in Nat /\ g[n] \in Nat /\ Weight(q, facts, n) \in Nat /\ Weight(q, more, n) \in Nat
      BY <1>5, <3>1
    <3>3. /\ f[n + 1] = f[n] + Weight(q, facts, n) /\ g[n + 1] = g[n] + Weight(q, more, n)
          /\ Weight(q, facts, n) <= Weight(q, more, n)
      BY <1>5, <1>6, <1>7, <3>1
    <3> QED
      BY <3>2, <3>3
  <2> HIDE DEF T
  <2>3. Nat \subseteq T
    BY <2>1, <2>2, Induction
  <2> QED
    BY <1>1, <2>3 DEF T
<1>9. ASSUME NEW t \in Blocks(q), facts[t] # more[t]
      PROVE  f[q.count] + Len(Requeue(q, t)) <= g[q.count]
  <2> DEFINE l == Len(Requeue(q, t))
             T == {n \in Nat : n <= q.count => f[n] <= g[n] /\ (t < n => f[n] + l <= g[n])}
  <2>1. l \in Nat /\ t \in Nat /\ t < q.count
    BY <1>1, <1>4
  <2>2. 0 \in T
    BY <1>1, <1>6, <1>7
  <2>3. Weight(q, facts, t) + l <= Weight(q, more, t)
    BY <1>5, <1>9
  <2> HIDE DEF l
  <2>4. ASSUME NEW n \in Nat, n \in T PROVE n + 1 \in T
    <3> SUFFICES ASSUME n + 1 <= q.count
                 PROVE  f[n + 1] <= g[n + 1] /\ (t < n + 1 => f[n + 1] + l <= g[n + 1])
      OBVIOUS
    <3>1. n \in 0 .. q.count - 1 /\ n \in Blocks(q)
      BY <1>1
    <3> f[n] <= g[n] /\ (t < n => f[n] + l <= g[n])
      BY <1>1, <2>4
    <3>2. f[n] \in Nat /\ g[n] \in Nat /\ Weight(q, facts, n) \in Nat /\ Weight(q, more, n) \in Nat
      BY <1>5, <3>1
    <3>3. /\ f[n + 1] = f[n] + Weight(q, facts, n) /\ g[n + 1] = g[n] + Weight(q, more, n)
          /\ Weight(q, facts, n) <= Weight(q, more, n)
      BY <1>5, <1>6, <1>7, <3>1
    <3>4. CASE t = n
      BY <2>1, <2>3, <3>1, <3>2, <3>3, <3>4
    <3>5. CASE t # n
      BY <2>1, <3>1, <3>2, <3>3, <3>5
    <3> QED
      BY <3>4, <3>5
  <2> HIDE DEF T
  <2>5. Nat \subseteq T
    BY <2>2, <2>4, Induction
  <2>6. q.count \in T
    BY <1>1, <2>5
  <2>7. f[q.count] + l <= g[q.count]
    BY <1>1, <2>1, <2>6 DEF T
  <2> QED
    BY <2>7 DEF l
<1> QED
  BY <1>1, <1>6, <1>7, <1>8, <1>9

(* Facts are finite sets.                                                   *)
LEMMA FactsAreFinite ==
  ASSUME NEW q, NEW facts \in FactsOf(q)
  PROVE  \A b \in Blocks(q) : IsFiniteSet(facts[b])
  BY SymbolAssumption, FS_Subset DEF FactsOf

(* Each visit was paid for, by the seeding or by a symbol gained.           *)
THEOREM VisitsArePaidFor == Spec => []VisitsPaidFor
<1> USE ProblemAssumption
<1>1. Init => VisitsPaidFor
  <2> SUFFICES ASSUME Init PROVE VisitsPaidFor
    OBVIOUS
  <2>1. WellFormed(problem) /\ problem.count \in Nat
    BY DEF Init, WellFormed
  <2>2. Len(worklist) = problem.count
    <3>1. Seeded \in [1 .. problem.count -> Blocks(problem)]
      BY <2>1 DEF Seeded, Blocks
    <3>2. Seeded \in Seq(Blocks(problem))
      BY <2>1, <3>1, IsASeq
    <3> QED
      BY <2>1, <3>1, <3>2, LenProperties DEF Init
  <2>3. outgoing \in FactsOf(problem)
    BY DEF Init, NothingKnown, FactsOf
  <2>4. Requeued(problem, outgoing) \in Nat
    BY <2>1, <2>3, FactsAreFinite, GainsArePaid
  <2> QED
    BY <2>1, <2>2, <2>4 DEF Init, VisitsPaidFor
<1>2. TypeOK /\ BelowEquation /\ VisitsPaidFor /\ [Next]_vars => VisitsPaidFor'
  <2> SUFFICES ASSUME TypeOK, BelowEquation, VisitsPaidFor, [Next]_vars
               PROVE  VisitsPaidFor'
    OBVIOUS
  <2>1. WellFormed(problem) /\ problem.count \in Nat /\ visits \in Nat
    BY DEF TypeOK, WellFormed
  <2>2. worklist # <<>> => /\ Popped \in Seq(Blocks(problem)) /\ Top \in Blocks(problem)
                           /\ Len(worklist) \in Nat /\ Len(Popped) = Len(worklist) - 1
    <3> SUFFICES ASSUME worklist # <<>>
                 PROVE  /\ Popped \in Seq(Blocks(problem)) /\ Top \in Blocks(problem)
                        /\ Len(worklist) \in Nat /\ Len(Popped) = Len(worklist) - 1
      OBVIOUS
    <3>1. worklist \in Seq(Blocks(problem))
      BY DEF TypeOK
    <3> QED
      BY <3>1, Pop DEF Popped, Top
  <2>3. \A b \in Blocks(problem) : IsFiniteSet(outgoing[b])
    BY FactsAreFinite DEF TypeOK
  <2>4. Requeued(problem, outgoing) \in Nat
    BY <2>1, <2>3, GainsArePaid
  <2>5. CASE Visit
    <3>1. worklist # <<>> /\ visits' = visits + 1 /\ problem' = problem
      BY <2>5 DEF Visit
    <3>2. CASE Equation(problem, outgoing, Top) = outgoing[Top]
      <4>1. worklist' = Popped /\ outgoing' = outgoing
        BY <2>5, <3>2 DEF Visit
      <4> QED
        BY <2>1, <2>2, <2>4, <3>1, <4>1 DEF VisitsPaidFor
    <3>3. CASE Equation(problem, outgoing, Top) # outgoing[Top]
      <4> DEFINE more == [outgoing EXCEPT ![Top] = Equation(problem, outgoing, Top)]
                 again == Requeue(problem, Top)
      <4>1. worklist' = Popped \o again /\ outgoing' = more
        BY <2>5, <3>3 DEF Visit
      <4>2. Equation(problem, outgoing, Top) \subseteq Symbol
        BY <2>1, <2>2, <3>1, EquationType DEF TypeOK
      <4>3. /\ \A b \in Blocks(problem) : IsFiniteSet(more[b]) /\ outgoing[b] \subseteq more[b]
            /\ more[Top] # outgoing[Top]
        <5>1. more \in FactsOf(problem)
          BY <4>2 DEF TypeOK, FactsOf
        <5>2. \A b \in Blocks(problem) : outgoing[b] \subseteq more[b]
          BY DEF BelowEquation, TypeOK, FactsOf
        <5>3. more[Top] = Equation(problem, outgoing, Top)
          BY <2>2, <3>1 DEF TypeOK, FactsOf
        <5> HIDE DEF more
        <5> QED
          BY <3>3, <5>1, <5>2, <5>3, FactsAreFinite
      <4> HIDE DEF more
      <4>4. /\ Requeued(problem, more) \in Nat
            /\ Requeued(problem, outgoing) + Len(again) <= Requeued(problem, more)
        BY <2>1, <2>2, <3>1, <4>3, GainsArePaid
      <4>5. Len(again) \in Nat /\ Len(worklist') = Len(worklist) - 1 + Len(again)
        <5>1. again \in Seq(Blocks(problem))
          BY <2>1, <2>2, <3>1 DEF Requeue, WellFormed
        <5> HIDE DEF again
        <5> QED
          BY <2>2, <3>1, <4>1, <5>1, ConcatProperties, LenProperties
      <4> HIDE DEF again
      <4> QED
        BY <2>1, <2>2, <2>4, <3>1, <4>1, <4>4, <4>5 DEF VisitsPaidFor
    <3> QED
      BY <3>2, <3>3
  <2>6. CASE Panic
    BY <2>1, <2>2, <2>4, <2>6 DEF Panic, VisitsPaidFor
  <2>7. CASE ReturnSolution \/ UNCHANGED vars
    BY <2>7 DEF ReturnSolution, vars, VisitsPaidFor
  <2> QED
    BY <2>5, <2>6, <2>7 DEF Next
<1> QED
  BY <1>1, <1>2, TypeCorrect, SupportedFacts, PTL DEF Spec

(* Nobody knows a symbol that no block adds and the boundary does not have. *)
KnownOnly == \A b \in Blocks(problem) : outgoing[b] \subseteq Known(problem)

LEMMA OnlyKnown == Spec => []KnownOnly
<1> USE ProblemAssumption
<1>1. Init => KnownOnly
  BY DEF Init, NothingKnown, KnownOnly
<1>2. TypeOK /\ KnownOnly /\ [Next]_vars => KnownOnly'
  <2> SUFFICES ASSUME TypeOK, KnownOnly, [Next]_vars PROVE KnownOnly'
    OBVIOUS
  <2>1. CASE Visit
    <3>1. WellFormed(problem) /\ Top \in Blocks(problem)
      BY <2>1, VisitChanges DEF TypeOK
    <3>2. Feeders(problem, Top) \subseteq Blocks(problem)
      BY <3>1, ElementOfSeq DEF WellFormed, ToSet, Feeders
    <3>3. Equation(problem, outgoing, Top) \subseteq Known(problem)
      BY <3>1, <3>2 DEF KnownOnly, Equation, Transfer, Gathered, Known
    <3>4. problem' = problem
      BY <2>1, VisitChanges
    <3> SUFFICES ASSUME NEW b \in Blocks(problem) PROVE outgoing'[b] \subseteq Known(problem)
      BY <3>4 DEF KnownOnly
    <3> QED
      BY <2>1, <3>3, VisitChanges DEF KnownOnly, TypeOK, FactsOf
  <2>2. CASE Panic \/ ReturnSolution \/ UNCHANGED vars
    BY <2>2, OthersKeep DEF KnownOnly
  <2> QED
    BY <2>1, <2>2 DEF Next
<1> QED
  BY <1>1, <1>2, TypeCorrect, PTL DEF Spec

(* solve does not run out of visits when its budget allows for all symbols. *)
THEOREM BudgetSuffices == Spec => []AffordableIsAnswered
<1> USE ProblemAssumption
<1>1. Init => AffordableIsAnswered
  BY DEF Init, AffordableIsAnswered
<1>2. TypeOK /\ KnownOnly /\ VisitsPaidFor /\ AffordableIsAnswered /\ [Next]_vars
        => AffordableIsAnswered'
  <2> SUFFICES ASSUME TypeOK, KnownOnly, VisitsPaidFor, AffordableIsAnswered, [Next]_vars
               PROVE  AffordableIsAnswered'
    OBVIOUS
  <2>1. CASE Panic
    <3>1. WellFormed(problem) /\ problem.count \in Nat /\ problem.allowed \in Nat /\ visits \in Nat
      BY DEF TypeOK, WellFormed
    <3>2. Budget \in Nat
      BY <3>1 DEF Budget
    <3>3. Len(worklist) \in Nat \ {0} /\ Budget <= visits
      BY <2>1, <3>1, <3>2, EmptySeq, LenProperties DEF Panic, TypeOK
    <3>4. Known(problem) \subseteq Symbol
      BY <3>1 DEF Known, WellFormed
    <3> DEFINE all == [b \in Blocks(problem) |-> Known(problem)]
    <3>5. \A b \in Blocks(problem) : IsFiniteSet(all[b]) /\ outgoing[b] \subseteq all[b]
      BY <3>4, SymbolAssumption, FS_Subset DEF KnownOnly
    <3> HIDE DEF all
    <3>6. /\ Requeued(problem, outgoing) \in Nat /\ Requeued(problem, all) \in Nat
          /\ Requeued(problem, outgoing) <= Requeued(problem, all)
      BY <3>1, <3>5, GainsArePaid
    <3>7. MostVisits(problem) = problem.count + Requeued(problem, all)
      BY DEF MostVisits, all
    <3>8. ~(MostVisits(problem) <= Budget)
      BY <3>1, <3>2, <3>3, <3>6, <3>7 DEF VisitsPaidFor
    <3>9. problem' = problem /\ Budget' = Budget
      BY <2>1 DEF Panic, Budget
    <3> QED
      BY <3>8, <3>9 DEF AffordableIsAnswered
  <2>2. CASE Visit \/ ReturnSolution \/ UNCHANGED vars
    <3>1. problem' = problem /\ Budget' = Budget /\ (status' = "panicked" => status = "panicked")
      BY <2>2 DEF Visit, ReturnSolution, vars, Budget
    <3> QED
      BY <3>1 DEF AffordableIsAnswered
  <2> QED
    BY <2>1, <2>2 DEF Next
<1> QED
  BY <1>1, <1>2, TypeCorrect, OnlyKnown, VisitsArePaidFor, PTL DEF Spec

-----------------------------------------------------------------------------
(* The abstract specification talks of the same equations.                  *)
LEMMA SameEquations ==
  ASSUME NEW q, NEW f
  PROVE  /\ Abstract!Blocks(q) = Blocks(q)
         /\ Abstract!NothingKnown(q) = NothingKnown(q)
         /\ \A b : Abstract!Equation(q, f, b) = Equation(q, f, b)
<1>1. Abstract!Blocks(q) = Blocks(q)
  BY DEF Blocks, Abstract!Blocks
<1>2. Abstract!NothingKnown(q) = NothingKnown(q)
  BY <1>1 DEF NothingKnown, Abstract!NothingKnown
<1>3. \A b : Abstract!Equation(q, f, b) = Equation(q, f, b)
  <2> SUFFICES ASSUME NEW b
               PROVE  Abstract!Equation(q, f, b) = Equation(q, f, b)
    OBVIOUS
  <2>1. Abstract!Feeders(q, b) = Feeders(q, b)
    BY DEF Feeders, Abstract!Feeders, ToSet, Abstract!ToSet
  <2>2. Abstract!Gathered(q, f, b) = Gathered(q, f, b)
    BY <2>1 DEF Gathered, Abstract!Gathered, Start, Abstract!Start
  <2> QED
    BY <2>2 DEF Equation, Abstract!Equation, Transfer, Abstract!Transfer
<1> QED
  BY <1>1, <1>2, <1>3

(* The worklist solver implements the abstract iteration: a visit that      *)
(* changes a result re-evaluates a block whose equation did not hold, any   *)
(* other visit is invisible, and an answer is given only when all equations *)
(* hold.                                                                    *)
THEOREM Implementation == Spec => RefinesChaoticIteration
<1>1. Init => Abstract!Init
  BY SameEquations DEF Init, Abstract!Init
<1>2. TypeOK /\ SettledOffTheWorklist /\ [Next]_vars => [Abstract!Next]_(Abstract!vars)
  <2> SUFFICES ASSUME TypeOK, SettledOffTheWorklist, [Next]_vars
               PROVE  Abstract!Next \/ UNCHANGED Abstract!vars
    OBVIOUS
  <2>1. CASE Visit
    <3>1. CASE UNCHANGED outgoing
      BY <2>1, <3>1, VisitChanges DEF Abstract!vars
    <3>2. CASE outgoing' # outgoing
      <4>1. Abstract!Reevaluate(Top)
        BY <2>1, <3>2, VisitChanges, SameEquations DEF Abstract!Reevaluate
      <4> QED
        BY <2>1, <4>1, VisitChanges, SameEquations DEF Abstract!Next
    <3> QED
      BY <3>1, <3>2
  <2>2. CASE Panic
    BY <2>2 DEF Panic, Abstract!Next, Abstract!GiveUp
  <2>3. CASE ReturnSolution
    <3>1. Abstract!Solution(problem, outgoing)
      BY <2>3, SameEquations
      DEF ReturnSolution, SettledOffTheWorklist, ToSet, Abstract!Solution
    <3> QED
      BY <2>3, <3>1 DEF ReturnSolution, Abstract!Next, Abstract!Answer
  <2>4. CASE UNCHANGED vars
    BY <2>4 DEF vars, Abstract!vars
  <2> QED
    BY <2>1, <2>2, <2>3, <2>4 DEF Next
<1> QED
  BY <1>1, <1>2, TypeCorrect, Settled, PTL
  DEF Spec, RefinesChaoticIteration, Abstract!Spec
=============================================================================
