---------------------------- MODULE Ranges_proofs ----------------------------
(***************************************************************************)
(* Theorems about ranges, for words of every size.                         *)
(***************************************************************************)
EXTENDS Ranges, FiniteSetTheorems, TLAPS

USE MaxIntAssumption, SourceAssumption

-----------------------------------------------------------------------------
(* Words.                                                                   *)

(* The sum and the difference of two words wrap to a word, and to           *)
(* themselves where they are words already.                                 *)
LEMMA WrapIsWord ==
  ASSUME NEW x \in Int, -2 * (MaxInt + 1) <= x, x <= 2 * MaxInt + 1
  PROVE  Wrap(x) \in Int64
BY DEF Wrap, Int64, MinInt

(* A word is not changed.                                                   *)
LEMMA WrapOfWord ==
  ASSUME NEW x \in Int64
  PROVE  Wrap(x) = x
BY DEF Wrap, Int64, MinInt

(* The step of a source is a word, given or omitted.                        *)
LEMMA StepIsWord ==
  ASSUME NEW s \in Source
  PROVE  StepOf(s) \in Int64
<1>1. s \in Sources
  OBVIOUS
<1>2. s.step \in Int64 \cup {Omitted} /\ s.kind \in Kinds
  BY <1>1 DEF Sources
<1>3. DefaultStep(s.kind, s.start, s.stop) \in {-1, 1}
  BY <1>2 DEF Kinds, DefaultStep
<1>4. -1 \in Int64 /\ 1 \in Int64
  BY DEF Int64, MinInt
<1> QED
  BY <1>2, <1>3, <1>4 DEF StepOf

-----------------------------------------------------------------------------
(* Types: in particular, a range that is used has a step.                   *)
THEOREM TypeCorrect == Spec => []TypeOK
<1>1. Init => TypeOK
  BY DEF Init, TypeOK, Ranges, Int64, MinInt
<1>2. TypeOK /\ [Next]_vars => TypeOK'
  <2> SUFFICES ASSUME TypeOK, [Next]_vars
               PROVE  TypeOK'
    OBVIOUS
  <2> USE DEF TypeOK
  <2>1. CASE BuildRange
    <3>1. source \in Sources
      OBVIOUS
    <3>2. /\ source.start \in Int64 /\ source.stop \in Int64
          /\ StepOf(source) \in Int64 \ {0}
      BY <2>1, <3>1, StepIsWord DEF BuildRange, Sources
    <3>3. range' \in Ranges
      BY <2>1, <3>2 DEF BuildRange, Ranges
    <3> QED
      BY <2>1, <3>2, <3>3 DEF BuildRange
  <2>2. CASE Trap
    BY <2>2 DEF Trap
  <2>3. CASE Turn \/ Fill \/ Collect
    <3>1. range.step \in Int64
      BY DEF Ranges
    <3>2. counter + range.step \in Int
          /\ -2 * (MaxInt + 1) <= counter + range.step
          /\ counter + range.step <= 2 * MaxInt + 1
      BY <3>1 DEF Int64, MinInt
    <3>3. counter' \in Int64
      BY <2>3, <3>2, WrapIsWord DEF Turn, Fill, Collect
    <3> QED
      BY <2>3, <3>3 DEF Turn, Fill, Collect
  <2>4. CASE Leave
    BY <2>4 DEF Leave
  <2>5. CASE UNCHANGED vars
    BY <2>5 DEF vars
  <2> QED
    BY <2>1, <2>2, <2>3, <2>4, <2>5 DEF Next
<1> QED
  BY <1>1, <1>2, PTL DEF Spec

-----------------------------------------------------------------------------
(* Multiples.                                                               *)

Multiple(n, d) == \E k \in Nat : n = k * d

(* One step after a multiple comes a multiple.                              *)
LEMMA NextMultiple ==
  ASSUME NEW n \in Int, NEW d \in Int, Multiple(n, d)
  PROVE  Multiple(n + d, d)
<1>1. PICK k \in Nat : n = k * d
  BY DEF Multiple
<1>2. n + d = (k + 1) * d /\ k + 1 \in Nat
  BY <1>1
<1> QED
  BY <1>2 DEF Multiple

(* Between a multiple and the next there is no other.                       *)
LEMMA NoneBetween ==
  ASSUME NEW m \in Int, NEW n \in Int, NEW d \in Int, d > 0,
         Multiple(m, d), Multiple(n, d), m <= n, n < m + d
  PROVE  n = m
<1>1. PICK j \in Nat : m = j * d
  BY DEF Multiple
<1>2. PICK k \in Nat : n = k * d
  BY DEF Multiple
<1>3. n - m = (k - j) * d
  BY <1>1, <1>2
<1>4. CASE k - j >= 1
  <2>1. (k - j) * d >= d
    BY <1>4
  <2> QED
    BY <1>3, <2>1
<1>5. CASE k - j <= -1
  <2>1. (k - j) * d <= -d
    BY <1>5
  <2> QED
    BY <1>3, <2>1
<1>6. CASE k = j
  BY <1>1, <1>2, <1>6
<1> QED
  BY <1>4, <1>5, <1>6

(* To be a multiple is to leave no remainder.                               *)
LEMMA MultipleIsRemainder ==
  ASSUME NEW n \in Nat, NEW d \in Nat, d > 0
  PROVE  Multiple(n, d) <=> n % d = 0
<1>1. /\ n = (d * (n \div d)) + (n % d)
      /\ n \div d \in Nat
      /\ n % d \in 0 .. d - 1
  OBVIOUS
<1>2. ASSUME n % d = 0
      PROVE  Multiple(n, d)
  BY <1>1, <1>2 DEF Multiple
<1>3. ASSUME Multiple(n, d)
      PROVE  n % d = 0
  <2> DEFINE m == (n \div d) * d
  <2>1. Multiple(m, d) /\ m \in Int
    BY <1>1 DEF Multiple
  <2>2. m <= n /\ n < m + d
    BY <1>1
  <2>3. n = m
    BY <1>3, <2>1, <2>2, NoneBetween
  <2> QED
    BY <1>1, <2>3
<1> QED
  BY <1>2, <1>3

(* A factor is no larger than its product.                                  *)
LEMMA BoundedFactor ==
  ASSUME NEW n \in Nat, NEW d \in Nat, d > 0, NEW k \in Nat, n = k * d
  PROVE  k <= n
<1>1. k * d >= k
  OBVIOUS
<1> QED
  BY <1>1

-----------------------------------------------------------------------------
(* How far a value is from the start, in the direction of the step, and how *)
(* large the step is: with these a range up and a range down are alike.     *)

Distance(r, v) == IF r.step > 0 THEN v - r.start ELSE r.start - v
Size(r) == Magnitude(r.step)

(* The parts of a range, and distances in it, are numbers.                  *)
LEMMA DistanceTypes ==
  ASSUME NEW r \in Ranges, NEW v \in Int64
  PROVE  /\ r.start \in Int64 /\ r.stop \in Int64 /\ r.inclusive \in BOOLEAN
         /\ r.step \in Int64 \ {0}
         /\ Distance(r, v) \in Int /\ Distance(r, v) <= 2 * MaxInt + 1
         /\ Size(r) \in Nat /\ Size(r) > 0
<1>1. /\ r.start \in Int64 /\ r.stop \in Int64 /\ r.inclusive \in BOOLEAN
      /\ r.step \in Int64 \ {0}
  BY DEF Ranges
<1>2. Size(r) \in Nat /\ Size(r) > 0
  BY <1>1 DEF Size, Magnitude, Int64, MinInt
<1>3. Distance(r, v) \in Int /\ Distance(r, v) <= 2 * MaxInt + 1
  BY <1>1 DEF Distance, Int64, MinInt
<1> QED
  BY <1>1, <1>2, <1>3

(* A value between the bounds is one the loop goes on with, not before the  *)
(* start.                                                                   *)
LEMMA BetweenIsContinue ==
  ASSUME NEW r \in Ranges, NEW v \in Int64
  PROVE  Between(r, v) <=> RangeContinue(r, v) /\ Distance(r, v) >= 0
<1>1. /\ r.start \in Int64 /\ r.stop \in Int64 /\ r.inclusive \in BOOLEAN
      /\ r.step \in Int64 \ {0}
  BY DistanceTypes
<1> QED
  BY <1>1 DEF Between, RangeContinue, Distance, Int64, MinInt

(* A difference and its opposite.                                           *)
LEMMA Opposite ==
  ASSUME NEW a \in Int, NEW b \in Int, NEW p \in Int
  PROVE  b = a + p <=> a - b = -p
OBVIOUS

(* To be on step is to be a multiple of the step away.                      *)
LEMMA OnStepIsMultiple ==
  ASSUME NEW r \in Ranges, NEW v \in Int64, Distance(r, v) >= 0
  PROVE  OnStep(r.start, r.step, v) <=> Multiple(Distance(r, v), Size(r))
<1>1. /\ r.start \in Int /\ r.step \in Int /\ r.step # 0 /\ v \in Int
      /\ Distance(r, v) \in Nat /\ Distance(r, v) <= 2 * MaxInt + 1
      /\ Size(r) \in Nat /\ Size(r) > 0
  BY DistanceTypes DEF Int64, MinInt
<1>2. \A k \in Int : v = r.start + k * r.step <=> Distance(r, v) = k * Size(r)
  <2> TAKE k \in Int
  <2>1. CASE r.step > 0
    BY <1>1, <2>1 DEF Distance, Size, Magnitude
  <2>2. CASE r.step < 0
    <3>1. Distance(r, v) = r.start - v /\ Size(r) = -r.step
      BY <1>1, <2>2 DEF Distance, Size, Magnitude
    <3> DEFINE p == k * r.step
    <3>2. p \in Int
      BY <1>1
    <3>3. k * Size(r) = -p
      BY <1>1, <3>1
    <3>4. v = r.start + p <=> r.start - v = -p
      BY <1>1, <3>2, Opposite
    <3> QED
      BY <3>1, <3>3, <3>4
  <2> QED
    BY <1>1, <2>1, <2>2
<1>3. ASSUME Multiple(Distance(r, v), Size(r))
      PROVE  OnStep(r.start, r.step, v)
  <2>1. PICK k \in Nat : Distance(r, v) = k * Size(r)
    BY <1>3 DEF Multiple
  <2>2. k <= Distance(r, v)
    BY <1>1, <2>1, BoundedFactor
  <2>3. k \in 0 .. 2 * MaxInt + 1
    BY <1>1, <2>2
  <2> QED
    BY <1>2, <2>1, <2>3 DEF OnStep
<1>4. ASSUME OnStep(r.start, r.step, v)
      PROVE  Multiple(Distance(r, v), Size(r))
  BY <1>2, <1>4 DEF OnStep, Multiple
<1> QED
  BY <1>3, <1>4

-----------------------------------------------------------------------------
(* The loop.                                                                *)

(* Where a `for` stands: its counter is a whole number of steps from the    *)
(* start, and it has seen the values of the range up to there.              *)
Upto(r, n) ==
  {v \in Int64 : /\ Between(r, v) /\ Multiple(Distance(r, v), Size(r))
                 /\ Distance(r, v) < n}

LoopInv ==
  /\ pc \in {"build", "trapped"} => seen = {}
  /\ pc \in {"loop", "done"} /\ source.use = "for" /\ Room(range) =>
       /\ Distance(range, counter) >= 0
       /\ Multiple(Distance(range, counter), Size(range))
       /\ seen = Upto(range, Distance(range, counter))
  /\ pc = "done" /\ source.use = "for" => ~RangeContinue(range, counter)

(* With room at its end, a turn takes the counter exactly one step further. *)
LEMMA Advance ==
  ASSUME NEW r \in Ranges, NEW c \in Int64, Room(r), RangeContinue(r, c)
  PROVE  /\ Wrap(c + r.step) = c + r.step
         /\ Distance(r, c + r.step) = Distance(r, c) + Size(r)
<1>1. /\ r.start \in Int64 /\ r.stop \in Int64 /\ r.inclusive \in BOOLEAN
      /\ r.step \in Int64 \ {0}
  BY DistanceTypes
<1>2. c + r.step \in Int64
  BY <1>1 DEF Room, RangeContinue, Int64, MinInt
<1>3. Wrap(c + r.step) = c + r.step
  BY <1>2, WrapOfWord
<1>4. Distance(r, c + r.step) = Distance(r, c) + Size(r)
  BY <1>1 DEF Distance, Size, Magnitude, Int64, MinInt
<1> QED
  BY <1>3, <1>4

(* One step further there is one value more.                                *)
LEMMA OneMore ==
  ASSUME NEW r \in Ranges, NEW c \in Int64, RangeContinue(r, c),
         Distance(r, c) >= 0, Multiple(Distance(r, c), Size(r))
  PROVE  Upto(r, Distance(r, c) + Size(r)) = Upto(r, Distance(r, c)) \cup {c}
<1> DEFINE n == Distance(r, c)
           d == Size(r)
<1>1. n \in Nat /\ d \in Nat /\ d > 0
  BY DistanceTypes
<1>2. \A v \in Int64 : Distance(r, v) \in Int
  BY DistanceTypes
<1>3. c \in Upto(r, n + d)
  BY <1>1, BetweenIsContinue DEF Upto
<1>4. Upto(r, n) \subseteq Upto(r, n + d)
  BY <1>1, <1>2 DEF Upto
<1>5. ASSUME NEW v \in Upto(r, n + d), v \notin Upto(r, n)
      PROVE  v = c
  <2>1. /\ v \in Int64 /\ Multiple(Distance(r, v), d)
        /\ n <= Distance(r, v) /\ Distance(r, v) < n + d
    BY <1>1, <1>2, <1>5 DEF Upto
  <2>2. Distance(r, v) = n
    BY <1>1, <1>2, <2>1, NoneBetween
  <2>3. r.start \in Int /\ v \in Int /\ c \in Int
    BY <2>1, DistanceTypes DEF Int64, MinInt
  <2> QED
    BY <2>2, <2>3 DEF Distance
<1> QED
  BY <1>3, <1>4, <1>5

(* LoopInv holds throughout; it is what makes the properties inductive.     *)
THEOREM LoopCorrect == Spec => []LoopInv
<1>1. Init => LoopInv
  BY DEF Init, LoopInv
<1>2. TypeOK /\ LoopInv /\ [Next]_vars => LoopInv'
  <2> SUFFICES ASSUME TypeOK, LoopInv, [Next]_vars
               PROVE  LoopInv'
    OBVIOUS
  <2>1. range \in Ranges /\ counter \in Int64 /\ source \in Source
    BY DEF TypeOK
  <2>2. CASE BuildRange
    <3>1. /\ pc = "build" /\ pc' = "loop" /\ seen' = {}
          /\ counter' = range'.start
      BY <2>2 DEF BuildRange, LoopInv
    <3>2. range' \in Ranges
      <4>1. source \in Sources
        BY <2>1
      <4>2. StepOf(source) \in Int64 \ {0}
        BY <2>1, <2>2, StepIsWord DEF BuildRange
      <4> QED
        BY <2>2, <4>1, <4>2 DEF BuildRange, Sources, Ranges
    <3>3. range'.start \in Int64
      BY <3>2 DEF Ranges
    <3>4. Distance(range', counter') = 0
      BY <3>1, <3>3 DEF Distance, Int64, MinInt
    <3>5. /\ Size(range') \in Int
          /\ \A v \in Int64 : Between(range', v) => Distance(range', v) >= 0
          /\ \A v \in Int64 : Distance(range', v) \in Int
      <4>1. Size(range') \in Int
        BY <3>2, <3>3, DistanceTypes
      <4>2. \A v \in Int64 : Between(range', v) => Distance(range', v) >= 0
        BY <3>2, BetweenIsContinue
      <4>3. \A v \in Int64 : Distance(range', v) \in Int
        BY <3>2, DistanceTypes
      <4> QED
        BY <4>1, <4>2, <4>3
    <3>6. Multiple(0, Size(range'))
      <4>1. 0 = 0 * Size(range')
        BY <3>5
      <4> QED
        BY <4>1 DEF Multiple
    <3>7. Upto(range', 0) = {}
      BY <3>5 DEF Upto
    <3> QED
      BY <3>1, <3>4, <3>6, <3>7 DEF LoopInv
  <2>3. CASE Trap
    BY <2>3 DEF Trap, LoopInv
  <2>4. CASE Turn
    <3>1. /\ pc = "loop" /\ pc' = "loop" /\ source' = source /\ range' = range
          /\ seen' = seen \cup {counter}
          /\ counter' = Wrap(counter + range.step)
          /\ RangeContinue(range, counter)
      BY <2>4 DEF Turn, Goes
    <3> SUFFICES ASSUME source.use = "for", Room(range)
                 PROVE  /\ Distance(range, counter') >= 0
                        /\ Multiple(Distance(range, counter'), Size(range))
                        /\ seen' = Upto(range, Distance(range, counter'))
      BY <3>1 DEF LoopInv
    <3>2. /\ Distance(range, counter) >= 0
          /\ Multiple(Distance(range, counter), Size(range))
          /\ seen = Upto(range, Distance(range, counter))
      BY <3>1 DEF LoopInv
    <3>3. Distance(range, counter') = Distance(range, counter) + Size(range)
      BY <2>1, <3>1, Advance
    <3>4. /\ Distance(range, counter) \in Int /\ Size(range) \in Nat
          /\ Size(range) > 0
      BY <2>1, DistanceTypes
    <3>5. Distance(range, counter') >= 0
      BY <3>2, <3>3, <3>4
    <3>6. Multiple(Distance(range, counter'), Size(range))
      BY <3>2, <3>3, <3>4, NextMultiple
    <3>7. seen' = Upto(range, Distance(range, counter'))
      BY <2>1, <3>1, <3>2, <3>3, OneMore
    <3> QED
      BY <3>5, <3>6, <3>7
  <2>5. CASE Fill \/ Collect
    BY <2>5 DEF Fill, Collect, LoopInv
  <2>6. CASE Leave
    BY <2>6 DEF Leave, Goes, LoopInv
  <2>7. CASE UNCHANGED vars
    BY <2>7 DEF vars, LoopInv
  <2> QED
    BY <2>2, <2>3, <2>4, <2>5, <2>6, <2>7 DEF Next
<1> QED
  BY <1>1, <1>2, TypeCorrect, PTL DEF Spec

-----------------------------------------------------------------------------
(* What a `for` does.                                                       *)

(* No turn of a loop with room at its end sees a value outside the bounds.  *)
THEOREM InBounds == Spec => []StaysInBounds
<1>1. TypeOK /\ LoopInv => StaysInBounds
  BY DEF TypeOK, LoopInv, StaysInBounds, Upto
<1> QED
  BY <1>1, TypeCorrect, LoopCorrect, PTL

(* Once the loop has passed `stop`, no value of the range lies ahead.       *)
LEMMA NothingAhead ==
  ASSUME NEW r \in Ranges, NEW c \in Int64, ~RangeContinue(r, c),
         NEW v \in Int64, Between(r, v), Distance(r, c) >= 0
  PROVE  Distance(r, v) < Distance(r, c)
<1>1. /\ r.start \in Int64 /\ r.stop \in Int64 /\ r.inclusive \in BOOLEAN
      /\ r.step \in Int64 \ {0}
  BY DistanceTypes
<1> QED
  BY <1>1 DEF RangeContinue, Between, Distance, Int64, MinInt

(* The values from the start on, in the direction of the step.              *)
Along(r) == {v \in Int64 : Between(r, v) /\ OnStep(r.start, r.step, v)}

(* These are as many steps away from the start.                             *)
LEMMA AlongIsMultiples ==
  ASSUME NEW r \in Ranges
  PROVE  Along(r) =
           {v \in Int64 : Between(r, v) /\ Multiple(Distance(r, v), Size(r))}
<1>1. \A v \in Int64 :
         Between(r, v) =>
           (OnStep(r.start, r.step, v) <=> Multiple(Distance(r, v), Size(r)))
  BY BetweenIsContinue, OnStepIsMultiple
<1> QED
  BY <1>1 DEF Along

(* What a `for` that is over has run with.                                  *)
ForGoesAlong ==
  pc = "done" /\ source.use = "for" /\ Room(range) => seen = Along(range)

(* Every value along the step, and no other.                                *)
LEMMA LoopGoesAlong == Spec => []ForGoesAlong
<1>1. TypeOK /\ LoopInv => ForGoesAlong
  <2> SUFFICES ASSUME TypeOK, LoopInv,
                      pc = "done", source.use = "for", Room(range)
               PROVE  seen = Along(range)
    BY DEF ForGoesAlong
  <2>1. range \in Ranges /\ counter \in Int64
    BY DEF TypeOK
  <2>2. /\ Distance(range, counter) >= 0
        /\ seen = Upto(range, Distance(range, counter))
        /\ ~RangeContinue(range, counter)
    BY DEF LoopInv
  <2>3. \A v \in Int64 :
           Between(range, v) => Distance(range, v) < Distance(range, counter)
    BY <2>1, <2>2, NothingAhead
  <2> QED
    BY <2>1, <2>2, <2>3, AlongIsMultiples DEF Upto
<1> QED
  BY <1>1, TypeCorrect, LoopCorrect, PTL

-----------------------------------------------------------------------------
(* What `in` does.                                                          *)

(* A signed remainder is zero for multiples, whatever the signs.            *)
LEMMA RemainderZero ==
  ASSUME NEW a \in Int, NEW b \in Int, b # 0
  PROVE  Remainder(a, b) = 0 <=> Multiple(Magnitude(a), Magnitude(b))
<1>1. /\ Magnitude(a) \in Nat /\ Magnitude(b) \in Nat /\ Magnitude(b) > 0
  BY DEF Magnitude
<1>2. Magnitude(a) % Magnitude(b) \in Int
  BY <1>1
<1>3. Remainder(a, b) = 0 <=> Magnitude(a) % Magnitude(b) = 0
  <2>1. CASE a >= 0
    BY <2>1 DEF Remainder, Magnitude
  <2>2. CASE a < 0
    <3>1. Remainder(a, b) = -(Magnitude(a) % Magnitude(b))
      BY <2>2 DEF Remainder
    <3> QED
      BY <1>2, <3>1
  <2> QED
    BY <2>1, <2>2
<1> QED
  BY <1>1, <1>3, MultipleIsRemainder

(* The closed form of `in` is the meaning of the range, as long as the      *)
(* distance of the value from the start is a word.                          *)
LEMMA MembershipIsValue ==
  ASSUME NEW r \in Ranges, NEW v \in Int64, v - r.start \in Int64 \ {MinInt}
  PROVE  \A answer \in Membership(r, v) : answer <=> v \in Along(r)
<1> DEFINE diff == v - r.start
           fromStart == IF r.step > 0 THEN v >= r.start ELSE v <= r.start
<1>1. /\ r.start \in Int /\ r.step \in Int /\ r.step # 0 /\ v \in Int
      /\ diff \in Int /\ Wrap(diff) = diff /\ diff # MinInt
  BY DistanceTypes, WrapOfWord DEF Int64, MinInt
<1>2. fromStart <=> Distance(r, v) >= 0
  BY <1>1 DEF Distance
<1>3. Between(r, v) => Magnitude(diff) = Distance(r, v)
  <2>1. Between(r, v) => Distance(r, v) >= 0
    BY BetweenIsContinue
  <2> QED
    BY <1>1, <2>1 DEF Distance, Magnitude
<1>4. Remainder(diff, r.step) = 0 <=> Multiple(Magnitude(diff), Size(r))
  BY <1>1, RemainderZero DEF Size
<1>5. Membership(r, v) =
        {Remainder(diff, r.step) = 0 /\ RangeContinue(r, v) /\ fromStart}
  BY <1>1 DEF Membership
<1>6. (Remainder(diff, r.step) = 0 /\ RangeContinue(r, v) /\ fromStart)
        <=> Between(r, v) /\ Multiple(Distance(r, v), Size(r))
  BY <1>2, <1>3, <1>4, BetweenIsContinue
<1>7. (Remainder(diff, r.step) = 0 /\ RangeContinue(r, v) /\ fromStart)
        <=> v \in Along(r)
  BY <1>6, AlongIsMultiples
<1> HIDE DEF diff, fromStart
<1> QED
  BY <1>5, <1>7, Zenon

(* `v in r` answers as if the loop over r had been run: `for` and `in` read *)
(* a range alike.                                                           *)
THEOREM Agreement == Spec => []InAgreesWithFor
<1>1. TypeOK /\ ForGoesAlong => InAgreesWithFor
  <2> SUFFICES ASSUME TypeOK, ForGoesAlong,
                      pc = "done", source.use = "for", Room(range),
                      NEW v \in Int64, v - range.start \in Int64 \ {MinInt}
               PROVE  \A answer \in Membership(range, v) : answer <=> v \in seen
    BY DEF InAgreesWithFor
  <2>1. \A answer \in Membership(range, v) : answer <=> v \in Along(range)
    BY MembershipIsValue DEF TypeOK
  <2>2. seen = Along(range)
    BY DEF ForGoesAlong
  <2> QED
    BY <2>1, <2>2
<1> QED
  BY <1>1, TypeCorrect, LoopGoesAlong, PTL

-----------------------------------------------------------------------------
(* What sema's checks are worth.                                            *)

(* The range a source is built into.                                        *)
Built(s) ==
  [start |-> s.start, stop |-> s.stop, step |-> StepOf(s),
   inclusive |-> s.kind = "Inclusive"]

(* A range is what its source says, and sema has accepted that; before its  *)
(* first turn a loop stands at the start.                                   *)
SourceInv ==
  /\ RangeAccepted(source)
  /\ pc \in {"build", "trapped"} => seen = {}
  /\ pc \in {"loop", "done"} =>
       range = [start |-> source.start, stop |-> source.stop,
                step |-> StepOf(source), inclusive |-> source.kind = "Inclusive"]
  /\ pc = "loop" /\ seen = {} => counter = range.start

(* What validate_literal_range rejects of exclusive operators.              *)
LEMMA ExclusiveDirection ==
  ASSUME NEW s \in Source, RangeAccepted(s), s.literal
  PROVE  /\ s.kind = "UpExclusive" => s.start <= s.stop
         /\ s.kind = "DownExclusive" => s.start >= s.stop
BY DEF RangeAccepted

(* SourceInv holds throughout, and with it what it was introduced for.      *)
LEMMA SourceKept == Spec => [](SourceInv /\ OperatorsKeepDirection)
<1>1. Init => SourceInv /\ OperatorsKeepDirection
  BY DEF Init, Accepted, SourceInv, OperatorsKeepDirection
<1>2. TypeOK /\ SourceInv /\ OperatorsKeepDirection /\ [Next]_vars
        => SourceInv' /\ OperatorsKeepDirection'
  <2> SUFFICES ASSUME TypeOK, SourceInv, OperatorsKeepDirection, [Next]_vars
               PROVE  SourceInv' /\ OperatorsKeepDirection'
    OBVIOUS
  <2>1. CASE BuildRange
    <3>1. /\ pc = "build" /\ pc' = "loop" /\ seen = {} /\ seen' = {}
          /\ source' = source /\ counter' = range'.start
          /\ range' = [start |-> source.start, stop |-> source.stop,
                       step |-> StepOf(source),
                       inclusive |-> source.kind = "Inclusive"]
      BY <2>1 DEF BuildRange, SourceInv
    <3>2. RangeAccepted(source')
      BY <3>1 DEF SourceInv
    <3>3. range' = [start |-> source'.start, stop |-> source'.stop,
                    step |-> StepOf(source'),
                    inclusive |-> source'.kind = "Inclusive"]
      BY <3>1
    <3>4. SourceInv'
      BY <3>1, <3>2, <3>3 DEF SourceInv
    <3> QED
      BY <3>1, <3>4 DEF OperatorsKeepDirection
  <2>2. CASE Trap
    BY <2>2 DEF Trap, SourceInv, OperatorsKeepDirection
  <2>3. CASE Turn
    <3>1. /\ pc = "loop" /\ pc' = "loop" /\ source' = source /\ range' = range
          /\ seen' = seen \cup {counter}
          /\ RangeContinue(range, counter)
      BY <2>3 DEF Turn, Goes
    <3>2. SourceInv'
      BY <3>1 DEF SourceInv
    <3>3. CASE seen # {}
      BY <3>1, <3>2, <3>3 DEF OperatorsKeepDirection
    <3>4. CASE seen = {}
      <4> SUFFICES ASSUME source.literal, source.use = "for"
                   PROVE  /\ source.kind = "UpExclusive" => range.step > 0
                          /\ source.kind = "DownExclusive" => range.step < 0
        BY <3>1, <3>2 DEF OperatorsKeepDirection
      <4>1. range = [start |-> source.start, stop |-> source.stop,
                     step |-> StepOf(source),
                     inclusive |-> source.kind = "Inclusive"]
        BY <3>1 DEF SourceInv
      <4>2. /\ RangeContinue(range, range.start)
            /\ range.start = source.start /\ range.stop = source.stop
        BY <3>1, <3>4, <4>1 DEF SourceInv
      <4>3. source.kind # "Inclusive" => ~range.inclusive
        BY <4>1
      <4>4. /\ source.kind = "UpExclusive" => source.start <= source.stop
            /\ source.kind = "DownExclusive" => source.start >= source.stop
        BY ExclusiveDirection DEF TypeOK, SourceInv
      <4>5. /\ range.start \in Int /\ range.stop \in Int /\ range.step \in Int
            /\ range.step # 0
        BY DEF TypeOK, Ranges, Int64
      <4> QED
        BY <4>2, <4>3, <4>4, <4>5 DEF RangeContinue
    <3> QED
      BY <3>2, <3>3, <3>4
  <2>4. CASE Fill \/ Collect
    BY <2>4 DEF Fill, Collect, SourceInv, OperatorsKeepDirection
  <2>5. CASE Leave
    BY <2>5 DEF Leave, SourceInv, OperatorsKeepDirection
  <2>6. CASE UNCHANGED vars
    BY <2>6 DEF vars, SourceInv, OperatorsKeepDirection
  <2> QED
    BY <2>1, <2>2, <2>3, <2>4, <2>5, <2>6 DEF Next
<1> QED
  BY <1>1, <1>2, TypeCorrect, PTL DEF Spec

(* Where the bounds are literals, a loop that turns at all goes the way its *)
(* exclusive operator points.                                               *)
THEOREM Direction == Spec => []OperatorsKeepDirection
BY SourceKept, PTL

(* An inclusive range without a step takes its direction from its bounds,   *)
(* and its loop runs with both of them.                                     *)
THEOREM BothBounds == Spec => []BothBoundsReached
<1>1. TypeOK /\ SourceInv /\ ForGoesAlong => BothBoundsReached
  <2> SUFFICES ASSUME TypeOK, SourceInv, ForGoesAlong,
                      pc = "done", source.use = "for", Room(range),
                      source.kind = "Inclusive", source.step = Omitted
               PROVE  {range.start, range.stop} \subseteq Along(range)
    BY DEF BothBoundsReached, ForGoesAlong
  <2> DEFINE start == range.start
             stop == range.stop
  <2>1. range = [start |-> source.start, stop |-> source.stop,
                 step |-> StepOf(source), inclusive |-> source.kind = "Inclusive"]
    BY DEF SourceInv
  <2>2. /\ start \in Int64 /\ stop \in Int64 /\ range.inclusive
        /\ range.step = IF stop >= start THEN 1 ELSE -1
    <3>1. start \in Int64 /\ stop \in Int64
      BY DEF TypeOK, Ranges
    <3>2. range.step = DefaultStep("Inclusive", start, stop)
      BY <2>1 DEF StepOf
    <3> QED
      BY <2>1, <3>1, <3>2 DEF DefaultStep
  <2>3. Between(range, start) /\ Between(range, stop)
    BY <2>2 DEF Between, Int64, MinInt
  <2>4. OnStep(start, range.step, start)
    <3>1. start = start + 0 * range.step /\ 0 \in 0 .. 2 * MaxInt + 1
      BY <2>2 DEF Int64, MinInt
    <3> QED
      BY <3>1 DEF OnStep
  <2>5. OnStep(start, range.step, stop)
    <3>1. CASE stop >= start
      <4>1. /\ stop = start + (stop - start) * range.step
            /\ stop - start \in 0 .. 2 * MaxInt + 1
        BY <2>2, <3>1 DEF Int64, MinInt
      <4> QED
        BY <4>1 DEF OnStep
    <3>2. CASE stop < start
      <4>1. /\ stop = start + (start - stop) * range.step
            /\ start - stop \in 0 .. 2 * MaxInt + 1
        BY <2>2, <3>2 DEF Int64, MinInt
      <4> QED
        BY <4>1 DEF OnStep
    <3> QED
      BY <2>2, <3>1, <3>2 DEF Int64, MinInt
  <2> QED
    BY <2>2, <2>3, <2>4, <2>5 DEF Along
<1> QED
  BY <1>1, TypeCorrect, SourceKept, LoopGoesAlong, PTL

(* Built from an accepted source that does not run against its operator, a  *)
(* range has along its step the values its source denotes.                  *)
LEMMA AlongIsValues ==
  ASSUME NEW s \in Sources, RangeAccepted(s), StepOf(s) # 0,
         ~RunsAgainstOperator(s)
  PROVE  Along(Built(s)) = Values(s)
<1> DEFINE r == Built(s)
           step == StepOf(s)
<1>1. /\ r.start = s.start /\ r.stop = s.stop /\ r.step = step
      /\ r.inclusive = (s.kind = "Inclusive")
  BY DEF Built
<1>2. /\ s.start \in Int /\ s.stop \in Int /\ s.kind \in Kinds
      /\ s.step \in Int /\ Omitted > 0 /\ step \in Int /\ step # 0
  BY MaxIntAssumption DEF Sources, Int64, MinInt, Omitted, StepOf, DefaultStep
<1> HIDE DEF r, step
<1>3. ASSUME NEW v \in Int64
      PROVE  Between(r, v) /\ OnStep(r.start, r.step, v) <=>
               /\ v = s.stop => s.kind = "Inclusive"
               /\ \/ /\ Ascends(s) /\ Stride(s, 1) > 0
                     /\ s.start <= v /\ v <= s.stop
                     /\ OnStep(s.start, Stride(s, 1), v)
                  \/ /\ Descends(s) /\ Stride(s, -1) < 0
                     /\ s.stop <= v /\ v <= s.start
                     /\ OnStep(s.start, Stride(s, -1), v)
  <2>1. v \in Int
    BY <1>3 DEF Int64, MinInt
  <2>2. CASE v = s.start
    <3>1. \A k \in Int : OnStep(s.start, k, v)
      <4> TAKE k \in Int
      <4>1. v = s.start + 0 * k /\ 0 \in 0 .. 2 * MaxInt + 1
        BY <1>2, <2>2, MaxIntAssumption
      <4> QED
        BY <4>1 DEF OnStep
    <3>2. Stride(s, 1) \in Int /\ Stride(s, -1) \in Int
      BY <1>2 DEF Stride
    <3>3. /\ OnStep(r.start, r.step, v)
          /\ OnStep(s.start, Stride(s, 1), v) /\ OnStep(s.start, Stride(s, -1), v)
      BY <1>1, <1>2, <3>1, <3>2
    <3>4. Between(r, v) <=>
            /\ v = s.stop => s.kind = "Inclusive"
            /\ \/ /\ Ascends(s) /\ Stride(s, 1) > 0
                  /\ s.start <= v /\ v <= s.stop
               \/ /\ Descends(s) /\ Stride(s, -1) < 0
                  /\ s.stop <= v /\ v <= s.start
      <4>1. CASE s.kind = "Inclusive"
        <5>1. Between(r, v) <=> IF step > 0 THEN s.start <= s.stop ELSE s.stop <= s.start
          <6>1. /\ r.inclusive /\ r.start = v /\ r.stop = s.stop /\ r.step = step
                /\ s.start = v
            BY <1>1, <2>2, <4>1
          <6>2. v <= v
            BY <2>1
          <6> QED
            BY <6>1, <6>2 DEF Between
        <5> QED
          BY <1>2, <2>2, <4>1, <5>1
          DEF Ascends, Descends, Stride, step, StepOf, DefaultStep
      <4>2. CASE s.kind # "Inclusive"
        <5>1. Between(r, v) <=>
                /\ IF step > 0 THEN s.start <= s.stop ELSE s.stop <= s.start
                /\ s.start # s.stop
          <6>1. /\ ~r.inclusive /\ r.start = v /\ r.stop = s.stop /\ r.step = step
                /\ s.start = v
            BY <1>1, <2>2, <4>2
          <6>2. v <= v
            BY <2>1
          <6> QED
            BY <6>1, <6>2 DEF Between
        <5> QED
          BY <1>2, <2>2, <4>2, <5>1
          DEF Ascends, Descends, Stride, step, StepOf, DefaultStep, Kinds,
              RunsAgainstOperator
      <4> QED
        BY <4>1, <4>2
    <3> QED
      BY <3>3, <3>4
  <2>3. CASE v # s.start
    <3>1. CASE step > 0
      <4>1. Ascends(s) /\ s.start <= v /\ v <= s.stop => Stride(s, 1) = step
        BY <1>2, <2>1, <2>3, <3>1 DEF Ascends, Stride, step, StepOf, DefaultStep, Kinds
      <4>2. Between(r, v) => Ascends(s) /\ Stride(s, 1) > 0
        BY <1>1, <1>2, <2>1, <2>3, <3>1
        DEF Between, Ascends, Stride, step, StepOf, DefaultStep, Kinds,
            RunsAgainstOperator
      <4>3. Between(r, v) <=> /\ s.start <= v /\ v <= s.stop
                              /\ v = s.stop => s.kind = "Inclusive"
        BY <1>1, <3>1 DEF Between
      <4>4. ~(Descends(s) /\ Stride(s, -1) < 0 /\ s.stop <= v /\ v <= s.start)
        BY <1>2, <2>1, <2>3, <3>1 DEF Descends, Stride, step, StepOf, DefaultStep, Kinds
      <4> QED
        BY <1>1, <3>1, <4>1, <4>2, <4>3, <4>4
    <3>2. CASE step < 0
      <4>1. Descends(s) /\ s.stop <= v /\ v <= s.start => Stride(s, -1) = step
        BY <1>2, <2>1, <2>3, <3>2 DEF Descends, Stride, step, StepOf, DefaultStep, Kinds
      <4>2. Between(r, v) => Descends(s) /\ Stride(s, -1) < 0
        BY <1>1, <1>2, <2>1, <2>3, <3>2
        DEF Between, Descends, Stride, step, StepOf, DefaultStep, Kinds,
            RunsAgainstOperator
      <4>3. Between(r, v) <=> /\ s.stop <= v /\ v <= s.start
                              /\ v = s.stop => s.kind = "Inclusive"
        <5>1. ~(r.step > 0)
          BY <1>1, <1>2, <3>2
        <5> QED
          BY <1>1, <5>1 DEF Between
      <4>4. ~(Ascends(s) /\ Stride(s, 1) > 0 /\ s.start <= v /\ v <= s.stop)
        BY <1>2, <2>1, <2>3, <3>2 DEF Ascends, Stride, step, StepOf, DefaultStep, Kinds
      <4> QED
        BY <1>1, <3>2, <4>1, <4>2, <4>3, <4>4
    <3> QED
      BY <1>2, <3>1, <3>2
  <2> QED
    BY <2>2, <2>3
<1> QED
  BY <1>3 DEF Along, Values, r

(* A `for` over a range with room at its end runs with every value the      *)
(* range denotes and with no other, whatever the width of a word; unless    *)
(* its computed bounds and step both go against its operator.               *)
THEOREM Iteration == Spec => []ForSeesTheRange
<1>1. TypeOK /\ SourceInv /\ ForGoesAlong => ForSeesTheRange
  <2> SUFFICES ASSUME TypeOK, SourceInv, ForGoesAlong,
                      pc = "done", source.use = "for", Room(range),
                      ~RunsAgainstOperator(source)
               PROVE  seen = Values(source)
    BY DEF ForSeesTheRange
  <2>1. /\ source \in Sources /\ RangeAccepted(source)
        /\ range = Built(source) /\ StepOf(source) # 0
    <3>1. /\ source \in Sources /\ RangeAccepted(source)
          /\ range = Built(source)
      BY SourceAssumption DEF TypeOK, SourceInv, Built
    <3>2. range.step # 0
      BY DEF TypeOK, Ranges
    <3> QED
      BY <3>1, <3>2 DEF Built
  <2>2. Along(range) = Values(source)
    BY <2>1, AlongIsValues
  <2> QED
    BY <2>2 DEF ForGoesAlong
<1> QED
  BY <1>1, TypeCorrect, SourceKept, LoopGoesAlong, PTL

-----------------------------------------------------------------------------
(* Arrays and comprehensions: what sema counts is what the loop fills.      *)

(* A factor keeps the order of what it multiplies, strictly if it is not    *)
(* zero.                                                                    *)
LEMMA ProductOrder ==
  ASSUME NEW j \in Int, NEW k \in Int, NEW d \in Nat, d > 0
  PROVE  j <= k <=> j * d <= k * d
<1>1. ASSUME j <= k
      PROVE  j * d <= k * d
  <2>1. (k - j) * d >= 0
    BY <1>1
  <2> QED
    BY <2>1
<1>2. ASSUME j > k
      PROVE  j * d > k * d
  <2>1. (j - k) * d >= d
    BY <1>2
  <2> QED
    BY <2>1
<1> QED
  BY <1>1, <1>2

(* A quotient counts the multiples of the divisor up to a number.           *)
LEMMA QuotientCounts ==
  ASSUME NEW n \in Nat, NEW d \in Nat, d > 0, NEW k \in Nat
  PROVE  /\ n \div d \in Nat
         /\ k <= n \div d <=> k * d <= n
<1> DEFINE q == n \div d
<1>1. n = d * q + (n % d) /\ q \in Nat /\ n % d \in 0 .. d - 1
  OBVIOUS
<1>2. q * d = d * q
  BY <1>1
<1> HIDE DEF q
<1>3. q * d <= n /\ n < q * d + d
  BY <1>1, <1>2
<1>4. ASSUME k <= q
      PROVE  k * d <= n
  <2>1. k * d <= q * d
    BY <1>1, <1>4, ProductOrder
  <2> QED
    BY <1>1, <1>3, <2>1
<1>5. ASSUME k > q
      PROVE  k * d > n
  <2>1. q + 1 <= k /\ q + 1 \in Int
    BY <1>1, <1>5
  <2>2. (q + 1) * d <= k * d
    BY <2>1, ProductOrder
  <2>3. (q + 1) * d = q * d + d
    BY <1>1
  <2> QED
    BY <1>1, <1>3, <2>2, <2>3
<1>6. k <= q <=> k * d <= n
  BY <1>1, <1>4, <1>5
<1> QED
  BY <1>1, <1>6 DEF q

(* A length computed in words is the one computed in numbers, as long as    *)
(* the span and a step together are a word.                                 *)
LEMMA LengthUp ==
  ASSUME NEW span \in Nat, NEW d \in Nat, d > 0, span + d <= MaxInt
  PROVE  /\ Wrap(Quotient(Wrap(span), d) + 1) = span \div d + 1
         /\ Quotient(Wrap(Wrap(Wrap(span) + d) - 1), d) = (span + d - 1) \div d
<1>1. /\ Wrap(span) = span /\ Wrap(span + d) = span + d
      /\ Wrap(span + d - 1) = span + d - 1
  BY WrapOfWord DEF Int64, MinInt
<1>2. \A n \in Nat : Quotient(n, d) = n \div d
  BY DEF Quotient, Magnitude
<1>3. span \div d \in Nat /\ span \div d <= span
  <2>1. span = d * (span \div d) + (span % d) /\ span \div d \in Nat
        /\ span % d \in 0 .. d - 1
    OBVIOUS
  <2>2. d * (span \div d) >= span \div d
    BY <2>1
  <2> QED
    BY <2>1, <2>2
<1>4. Wrap(span \div d + 1) = span \div d + 1
  BY <1>3, WrapOfWord DEF Int64, MinInt
<1> QED
  BY <1>1, <1>2, <1>4

(* Whether a distance is short of the bound.                                *)
Reached(r, n) ==
  IF r.inclusive THEN n <= Distance(r, r.stop) ELSE n < Distance(r, r.stop)

(* The four ways in which literal_range_length comes to a length.           *)
LEMMA LengthCases ==
  ASSUME NEW s, s.kind \in Kinds, NEW step \in Int, step = StepOf(s), step # 0,
         LiteralRangeLength(s) # 0
  PROVE  \/ /\ s.kind = "Inclusive" /\ step > 0 /\ s.stop >= s.start
            /\ LiteralRangeLength(s) =
                 Wrap(Quotient(Wrap(s.stop - s.start), step) + 1)
         \/ /\ s.kind = "Inclusive" /\ step < 0 /\ s.start >= s.stop
            /\ LiteralRangeLength(s) =
                 Wrap(Quotient(Wrap(s.start - s.stop), -step) + 1)
         \/ /\ s.kind = "UpExclusive" /\ step > 0 /\ s.stop > s.start
            /\ LiteralRangeLength(s) =
                 Quotient(Wrap(Wrap(Wrap(s.stop - s.start) + step) - 1), step)
         \/ /\ s.kind = "DownExclusive" /\ step < 0 /\ s.start > s.stop
            /\ LiteralRangeLength(s) =
                 Quotient(Wrap(Wrap(Wrap(s.start - s.stop) - step) - 1), -step)
BY DEF LiteralRangeLength, Kinds

(* What literal_range_length computes, in numbers.                          *)
LEMMA LengthInNumbers ==
  ASSUME NEW s \in Source, Built(s) \in Ranges, SpanFits(Built(s)),
         LiteralRangeLength(s) # 0
  PROVE  LET span == Distance(Built(s), s.stop)
             d == Size(Built(s))
         IN  /\ span \in Nat
             /\ s.kind # "Inclusive" => span > 0
             /\ LiteralRangeLength(s) =
                  IF s.kind = "Inclusive" THEN span \div d + 1
                                          ELSE (span + d - 1) \div d
<1> DEFINE r == Built(s)
           span == Distance(r, s.stop)
           d == Size(r)
           step == StepOf(s)
           start == s.start
           stop == s.stop
<1>1. /\ r.start = start /\ r.stop = stop /\ r.step = step
      /\ r.inclusive = (s.kind = "Inclusive")
  BY DEF Built
<1>2. s \in Sources
  OBVIOUS
<1>3. s.start \in Int64 /\ s.stop \in Int64 /\ s.kind \in Kinds
  BY <1>2 DEF Sources
<1>4. /\ step \in Int /\ step # 0 /\ start \in Int /\ stop \in Int
      /\ d \in Nat /\ d > 0
  BY <1>1, <1>3, DistanceTypes DEF Int64, MinInt
<1>5. span = IF step > 0 THEN stop - start ELSE start - stop
  BY <1>1 DEF Distance
<1>6. d = IF step > 0 THEN step ELSE -step
  BY <1>1, <1>4 DEF Size, Magnitude
<1>7. Magnitude(stop - start) + d <= MaxInt
  BY <1>1 DEF SpanFits, Size
<1>8. /\ step > 0 /\ stop >= start => span >= 0 /\ span + d <= MaxInt
      /\ step < 0 /\ start >= stop => span >= 0 /\ span + d <= MaxInt
  <2> HIDE DEF span, d, step, start, stop
  <2> QED
    BY <1>4, <1>5, <1>6, <1>7 DEF Magnitude
<1>9. \/ /\ s.kind = "Inclusive" /\ step > 0 /\ stop >= start
         /\ LiteralRangeLength(s) = Wrap(Quotient(Wrap(span), d) + 1)
      \/ /\ s.kind = "Inclusive" /\ step < 0 /\ start >= stop
         /\ LiteralRangeLength(s) = Wrap(Quotient(Wrap(span), d) + 1)
      \/ /\ s.kind = "UpExclusive" /\ step > 0 /\ stop > start
         /\ LiteralRangeLength(s) = Quotient(Wrap(Wrap(Wrap(span) + d) - 1), d)
      \/ /\ s.kind = "DownExclusive" /\ step < 0 /\ start > stop
         /\ LiteralRangeLength(s) = Quotient(Wrap(Wrap(Wrap(span) + d) - 1), d)
  <2>1. \A w \in Int : step < 0 => w - step = w + d
    <3> HIDE DEF span, d, step
    <3> QED
      BY <1>4, <1>6
  <2>2. Wrap(start - stop) \in Int
    <3> HIDE DEF start, stop
    <3> QED
      BY <1>4 DEF Wrap, MinInt
  <2>3. ~(step > 0 /\ step < 0)
    BY <1>4
  <2>4. \/ /\ s.kind = "Inclusive" /\ step > 0 /\ stop >= start
           /\ LiteralRangeLength(s) =
                Wrap(Quotient(Wrap(stop - start), step) + 1)
        \/ /\ s.kind = "Inclusive" /\ step < 0 /\ start >= stop
           /\ LiteralRangeLength(s) =
                Wrap(Quotient(Wrap(start - stop), -step) + 1)
        \/ /\ s.kind = "UpExclusive" /\ step > 0 /\ stop > start
           /\ LiteralRangeLength(s) =
                Quotient(Wrap(Wrap(Wrap(stop - start) + step) - 1), step)
        \/ /\ s.kind = "DownExclusive" /\ step < 0 /\ start > stop
           /\ LiteralRangeLength(s) =
                Quotient(Wrap(Wrap(Wrap(start - stop) - step) - 1), -step)
    BY <1>3, <1>4, LengthCases
  <2> HIDE DEF span, d, step, start, stop
  <2> QED
    BY <1>5, <1>6, <2>1, <2>2, <2>3, <2>4
<1>10. /\ span >= 0 /\ span + d <= MaxInt /\ span \in Nat
       /\ s.kind # "Inclusive" => span > 0
  <2> HIDE DEF span, d, step, start, stop
  <2> QED
    BY <1>4, <1>5, <1>8, <1>9
<1>11. /\ Wrap(Quotient(Wrap(span), d) + 1) = span \div d + 1
       /\ Quotient(Wrap(Wrap(Wrap(span) + d) - 1), d) = (span + d - 1) \div d
  <2> HIDE DEF span, d
  <2> QED
    BY <1>4, <1>10, LengthUp
<1> HIDE DEF span, d, step, start, stop
<1>12. LiteralRangeLength(s) = IF s.kind = "Inclusive" THEN span \div d + 1
                                                     ELSE (span + d - 1) \div d
  BY <1>9, <1>11
<1> QED
  BY <1>10, <1>12 DEF span, d

(* The length sema gives a range is the number of its steps: the positions  *)
(* below the length are those whose values the range has.                   *)
LEMMA LengthCounts ==
  ASSUME NEW s \in Source, Built(s) \in Ranges, SpanFits(Built(s)),
         LiteralRangeLength(s) # 0
  PROVE  /\ LiteralRangeLength(s) \in Nat
         /\ Distance(Built(s), s.stop) >= 0
         /\ \A k \in Nat :
              k < LiteralRangeLength(s) <=> Reached(Built(s), k * Size(Built(s)))
<1> DEFINE r == Built(s)
           span == Distance(r, s.stop)
           d == Size(r)
           length == LiteralRangeLength(s)
<1>1. r.stop = s.stop /\ r.inclusive = (s.kind = "Inclusive")
  BY DEF Built
<1>2. /\ span \in Nat
      /\ s.kind # "Inclusive" => span > 0
      /\ length = IF s.kind = "Inclusive" THEN span \div d + 1
                                          ELSE (span + d - 1) \div d
  BY LengthInNumbers
<1>3. d \in Nat /\ d > 0
  <2>1. s \in Sources
    OBVIOUS
  <2> QED
    BY <2>1, DistanceTypes DEF Sources
<1>4. \A n : Reached(r, n) <=> IF s.kind = "Inclusive" THEN n <= span ELSE n < span
  BY <1>1 DEF Reached
<1> HIDE DEF span, d, length
<1>5. CASE s.kind = "Inclusive"
  <2>1. \A k \in Nat : /\ span \div d \in Nat
                       /\ k <= span \div d <=> k * d <= span
    BY <1>2, <1>3, QuotientCounts
  <2>2. length \in Nat
    BY <1>2, <1>5, <2>1
  <2>3. \A k \in Nat : k < length <=> k * d <= span
    BY <1>2, <1>5, <2>1
  <2>4. \A k \in Nat : k < length <=> Reached(r, k * d)
    BY <1>4, <1>5, <2>3
  <2> QED
    BY <1>2, <2>2, <2>4 DEF span, d, length
<1>6. CASE s.kind # "Inclusive"
  <2> DEFINE n == span + d - 1
  <2>1. n \in Nat
    BY <1>2, <1>3, <1>6
  <2> HIDE DEF n
  <2>2. \A k \in Nat : n \div d \in Nat /\ (k <= n \div d <=> k * d <= n)
    BY <1>3, <2>1, QuotientCounts
  <2>3. length = n \div d /\ length \in Nat
    BY <1>2, <1>6, <2>2 DEF n
  <2>4. \A k \in Nat : k < length <=> k * d < span
    <3> TAKE k \in Nat
    <3>1. k + 1 <= length <=> (k + 1) * d <= n
      BY <2>2, <2>3
    <3>2. (k + 1) * d = k * d + d /\ k * d \in Int
      BY <1>3
    <3>3. k + 1 <= length <=> k * d + d <= span + d - 1
      BY <3>1, <3>2 DEF n
    <3> DEFINE p == k * d
    <3> HIDE DEF p
    <3>4. p \in Int /\ (p + d <= span + d - 1 <=> p < span)
      BY <1>2, <1>3, <3>2 DEF p
    <3> QED
      BY <2>3, <3>3, <3>4 DEF p
  <2>5. \A k \in Nat : k < length <=> Reached(r, k * d)
    BY <1>4, <1>6, <2>4
  <2> QED
    BY <1>2, <2>3, <2>5 DEF span, d, length
<1> QED
  BY <1>5, <1>6

(* Where the filling of an array or a comprehension stands: as many         *)
(* positions are filled as steps were taken, with the values of the range   *)
(* up to there, and while there is a position left the counter is a word    *)
(* that has not wrapped.                                                    *)
FillInv ==
  /\ Accepted(source)
  /\ pc = "build" => index = 0 /\ seen = {}
  /\ pc \in {"loop", "done"} => range = Built(source)
  /\ pc \in {"loop", "done"} /\ source.use # "for" /\ SpanFits(range) =>
       /\ index <= LiteralRangeLength(source)
       /\ index < LiteralRangeLength(source) =>
            Distance(range, counter) = index * Size(range)
       /\ seen = Upto(range, index * Size(range))
       /\ IsFiniteSet(seen) /\ Cardinality(seen) = index
  /\ pc = "done" /\ source.use # "for" => ~(index < LiteralRangeLength(source))

(* Before the loop nothing is seen.                                         *)
LEMMA NothingBeforeStart ==
  ASSUME NEW r \in Ranges
  PROVE  Upto(r, 0) = {}
<1>1. \A v \in Int64 : Between(r, v) => Distance(r, v) >= 0
  BY BetweenIsContinue
<1>2. \A v \in Int64 : Distance(r, v) \in Int
  BY DistanceTypes
<1> QED
  BY <1>1, <1>2 DEF Upto

(* A value that is short of the bound is one the loop goes on with.         *)
LEMMA ReachedIsContinue ==
  ASSUME NEW r \in Ranges, NEW c \in Int64, Distance(r, c) >= 0
  PROVE  Reached(r, Distance(r, c)) <=> RangeContinue(r, c)
<1>1. /\ r.start \in Int64 /\ r.stop \in Int64 /\ r.inclusive \in BOOLEAN
      /\ r.step \in Int64 \ {0}
  BY DistanceTypes
<1> QED
  BY <1>1 DEF Reached, RangeContinue, Distance, Int64, MinInt

(* A step that does not pass the bound stays in the words.                  *)
LEMMA AdvanceWithin ==
  ASSUME NEW r \in Ranges, NEW c \in Int64, Distance(r, c) >= 0,
         Reached(r, Distance(r, c) + Size(r))
  PROVE  /\ Wrap(c + r.step) = c + r.step
         /\ Distance(r, c + r.step) = Distance(r, c) + Size(r)
<1>1. /\ r.start \in Int64 /\ r.stop \in Int64 /\ r.inclusive \in BOOLEAN
      /\ r.step \in Int64 \ {0}
  BY DistanceTypes
<1>2. c + r.step \in Int64
  BY <1>1 DEF Reached, Distance, Size, Magnitude, Int64, MinInt
<1>3. Wrap(c + r.step) = c + r.step
  BY <1>2, WrapOfWord
<1>4. Distance(r, c + r.step) = Distance(r, c) + Size(r)
  BY <1>1 DEF Distance, Size, Magnitude, Int64, MinInt
<1> QED
  BY <1>3, <1>4

(* What an array's range is: as LengthCounts has it.                        *)
LEMMA FilledRange ==
  ASSUME NEW s \in Source, Accepted(s), s.use # "for", NEW r \in Ranges,
         r = Built(s), SpanFits(r)
  PROVE  /\ LiteralRangeLength(s) \in Nat /\ LiteralRangeLength(s) > 0
         /\ \A k \in Nat :
              k < LiteralRangeLength(s) <=> Reached(r, k * Size(r))
<1>1. LiteralRangeLength(s) # 0
  BY DEF Accepted
<1> QED
  BY <1>1, LengthCounts

(* One position more: the turn of the loop that fills it.                   *)
LEMMA OnePosition ==
  ASSUME TypeOK, FillInv, Fill \/ Collect, SpanFits(range)
  PROVE  /\ index' <= LiteralRangeLength(source)
         /\ index' < LiteralRangeLength(source) =>
              Distance(range, counter') = index' * Size(range)
         /\ seen' = Upto(range, index' * Size(range))
         /\ IsFiniteSet(seen') /\ Cardinality(seen') = index'
<1> DEFINE length == LiteralRangeLength(source)
           d == Size(range)
           n == Distance(range, counter)
<1>1. /\ range \in Ranges /\ counter \in Int64 /\ source \in Source
      /\ index \in Nat
  BY DEF TypeOK
<1>2. /\ pc = "loop" /\ source.use # "for" /\ Goes
      /\ seen' = seen \cup {counter} /\ index' = index + 1
      /\ counter' = Wrap(counter + range.step)
  BY DEF Fill, Collect
<1>3. index < length
  BY <1>2 DEF Goes
<1>4. /\ length \in Nat
      /\ \A k \in Nat : k < length <=> Reached(range, k * d)
  BY <1>1, <1>2, FilledRange DEF FillInv
<1>5. /\ n = index * d /\ seen = Upto(range, n)
      /\ IsFiniteSet(seen) /\ Cardinality(seen) = index
  BY <1>2, <1>3 DEF FillInv
<1>6. d \in Nat /\ d > 0
  BY <1>1, DistanceTypes
<1>7. n \in Nat /\ Multiple(n, d)
  BY <1>1, <1>5, <1>6 DEF Multiple
<1>8. index' * d = n + d
  BY <1>1, <1>2, <1>5, <1>6
<1>9. RangeContinue(range, counter)
  BY <1>1, <1>3, <1>4, <1>5, <1>7, ReachedIsContinue
<1>10. seen' = Upto(range, index' * d)
  BY <1>1, <1>2, <1>5, <1>7, <1>8, <1>9, OneMore
<1>11. counter \notin seen
  BY <1>5, <1>7 DEF Upto
<1>12. IsFiniteSet(seen') /\ Cardinality(seen') = index'
  BY <1>2, <1>5, <1>11, FS_AddElement
<1>13. ASSUME index' < length
       PROVE  Distance(range, counter') = index' * d
  <2>1. Reached(range, n + d)
    BY <1>1, <1>2, <1>4, <1>8, <1>13
  <2> QED
    BY <1>1, <1>2, <1>7, <1>8, <2>1, AdvanceWithin
<1>14. index' <= length
  <2> HIDE DEF length
  <2> QED
    BY <1>1, <1>2, <1>3, <1>4
<1> QED
  BY <1>10, <1>12, <1>13, <1>14

(* FillInv holds throughout.                                                *)
LEMMA FillCorrect == Spec => []FillInv
<1>1. Init => FillInv
  BY DEF Init, FillInv
<1>2. TypeOK /\ TypeOK' /\ FillInv /\ [Next]_vars => FillInv'
  <2> SUFFICES ASSUME TypeOK, TypeOK', FillInv, [Next]_vars
               PROVE  FillInv'
    OBVIOUS
  <2>1. CASE BuildRange
    <3>1. /\ pc' = "loop" /\ source' = source /\ range' = Built(source)
          /\ counter' = range'.start /\ index' = 0 /\ seen' = {}
      BY <2>1 DEF BuildRange, FillInv, Built
    <3>2. range' \in Ranges /\ source \in Source
      BY DEF TypeOK
    <3>3. Size(range') \in Nat /\ Distance(range', counter') = 0
      <4>1. range'.start \in Int64
        BY <3>2 DEF Ranges
      <4>2. Size(range') \in Nat /\ range'.start \in Int
        BY <3>2, <4>1, DistanceTypes DEF Int64, MinInt
      <4> QED
        BY <3>1, <4>2 DEF Distance
    <3>4. index' * Size(range') = 0
      BY <3>1, <3>3
    <3>5. seen' = Upto(range', index' * Size(range'))
      BY <3>1, <3>2, <3>4, NothingBeforeStart
    <3>6. IsFiniteSet(seen') /\ Cardinality(seen') = index'
      BY <3>1, FS_EmptySet
    <3>7. ASSUME source'.use # "for", SpanFits(range')
          PROVE  index' <= LiteralRangeLength(source')
      BY <3>1, <3>2, <3>7, FilledRange DEF FillInv
    <3> QED
      BY <3>1, <3>3, <3>4, <3>5, <3>6, <3>7 DEF FillInv
  <2>2. CASE Trap
    BY <2>2 DEF Trap, FillInv
  <2>3. CASE Turn
    BY <2>3 DEF Turn, FillInv
  <2>4. CASE Fill \/ Collect
    <3>1. /\ pc = "loop" /\ pc' = "loop" /\ source' = source /\ range' = range
      BY <2>4 DEF Fill, Collect
    <3>2. SpanFits(range) =>
            /\ index' <= LiteralRangeLength(source)
            /\ index' < LiteralRangeLength(source) =>
                 Distance(range, counter') = index' * Size(range)
            /\ seen' = Upto(range, index' * Size(range))
            /\ IsFiniteSet(seen') /\ Cardinality(seen') = index'
      BY <2>4, OnePosition
    <3> QED
      BY <3>1, <3>2 DEF FillInv
  <2>5. CASE Leave
    BY <2>5 DEF Leave, Goes, FillInv
  <2>6. CASE UNCHANGED vars
    BY <2>6 DEF vars, FillInv
  <2> QED
    BY <2>1, <2>2, <2>3, <2>4, <2>5, <2>6 DEF Next
<1> QED
  BY <1>1, <1>2, TypeCorrect, PTL DEF Spec

(* Sema counts what the generated code fills: an array and a comprehension  *)
(* hold exactly the values of their range, and their length is the number   *)
(* of these, for words of every width.                                      *)
THEOREM LengthIsExact == Spec => []ArrayHoldsTheRange
<1>1. TypeOK /\ FillInv => ArrayHoldsTheRange
  <2> SUFFICES ASSUME TypeOK, FillInv,
                      pc = "done", source.use # "for", SpanFits(range)
               PROVE  /\ seen = Values(source)
                      /\ Cardinality(seen) = LiteralRangeLength(source)
    BY DEF ArrayHoldsTheRange
  <2> DEFINE length == LiteralRangeLength(source)
             d == Size(range)
  <2>1. range \in Ranges /\ source \in Source /\ index \in Nat
    BY DEF TypeOK
  <2>2. /\ length \in Nat
        /\ \A k \in Nat : k < length <=> Reached(range, k * d)
    BY <2>1, FilledRange DEF FillInv
  <2>3. /\ index <= length /\ ~(index < length)
        /\ seen = Upto(range, index * d) /\ Cardinality(seen) = index
    BY DEF FillInv
  <2>4. index = length
    <3> HIDE DEF length
    <3> QED
      BY <2>1, <2>2, <2>3
  <2>5. ASSUME NEW v \in Int64, Between(range, v),
               Multiple(Distance(range, v), d)
        PROVE  Distance(range, v) < index * d
    <3>1. PICK k \in Nat : Distance(range, v) = k * d
      BY <2>5 DEF Multiple
    <3>2. Reached(range, k * d)
      BY <2>1, <2>5, <3>1, BetweenIsContinue, ReachedIsContinue
    <3>3. k < index
      BY <2>2, <2>4, <3>2
    <3>4. d \in Nat /\ d > 0
      BY <2>1, <2>5, DistanceTypes
    <3>5. ~(index <= k) /\ (index <= k <=> index * d <= k * d)
      BY <2>1, <3>3, <3>4, ProductOrder
    <3> DEFINE a == index * d
               b == k * d
    <3>6. a \in Int /\ b \in Int
      BY <2>1, <3>4
    <3> HIDE DEF a, b
    <3>7. b < a
      BY <3>5, <3>6 DEF a, b
    <3> QED
      BY <3>1, <3>7 DEF a, b
  <2>6. Along(range) = Upto(range, index * d)
    BY <2>1, <2>5, AlongIsMultiples DEF Upto
  <2>7. Along(range) = Values(source)
    <3>1. /\ source \in Sources /\ RangeAccepted(source) /\ source.literal
          /\ range = Built(source)
      BY <2>1, SourceAssumption DEF FillInv, Accepted
    <3>2. StepOf(source) # 0
      BY <2>1, <3>1 DEF Built, Ranges
    <3>3. source.start \in Int /\ source.stop \in Int
      BY <3>1 DEF Sources, Int64
    <3>4. ~RunsAgainstOperator(source)
      BY <2>1, <3>1, <3>3, ExclusiveDirection DEF RunsAgainstOperator
    <3> QED
      BY <3>1, <3>2, <3>4, AlongIsValues
  <2> QED
    BY <2>3, <2>4, <2>6, <2>7
<1> QED
  BY <1>1, TypeCorrect, FillCorrect, PTL
=============================================================================
