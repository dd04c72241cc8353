------------------------------- MODULE Ranges -------------------------------
(***************************************************************************)
(* Ranges: what sema accepts and computes of one                           *)
(* (src/sema/analyzer.rs), how the generated code builds it, and its uses: *)
(* a `for` loop, an array filled from it (`[1..9:2]`), a comprehension     *)
(* over it, and the test `value in range` (src/codegen/stmt.rs, expr.rs).  *)
(*                                                                         *)
(* A word is an integer between MinInt and MaxInt; sums and differences of *)
(* words wrap.  The program has 64-bit words, a model may have small ones. *)
(***************************************************************************)
EXTENDS Integers, FiniteSets

CONSTANTS
  MaxInt,     \* the largest word
  Source      \* the ranges considered, as written in a program and used there

MinInt == -MaxInt - 1
Int64 == MinInt..MaxInt

Kinds == {"Inclusive", "UpExclusive", "DownExclusive"}
Uses == {"for", "array", "comprehension"}
Omitted == MaxInt + 1     \* not a word

(* A range in the source: `literal` says whether the bounds are literals,   *)
(* and `literalStep` whether the step is.                                   *)
Sources ==
  [use : Uses, start : Int64, stop : Int64, step : Int64 \cup {Omitted},
   kind : Kinds, literal : BOOLEAN, literalStep : BOOLEAN]

(* A range as the code that uses it sees it.                                *)
Ranges ==
  [start : Int64, stop : Int64, step : Int64 \ {0}, inclusive : BOOLEAN]

ASSUME MaxIntAssumption == MaxInt \in Nat \ {0}
ASSUME SourceAssumption == Source \subseteq Sources

VARIABLES
  source,     \* the range the program uses
  range,      \* its value, once it is built
  pc,         \* "build", then "loop", then "done"; or "trapped"
  counter,    \* the counter of the loop
  index,      \* in an array, the position to fill next
  seen        \* the values the body has run with, or the array is made from

vars == <<source, range, pc, counter, index, seen>>

(* The sum or the difference of two words.                                  *)
Wrap(x) ==
  CASE x > MaxInt -> x - 2 * (MaxInt + 1)
    [] x < MinInt -> x + 2 * (MaxInt + 1)
    [] OTHER -> x

-----------------------------------------------------------------------------
(* Sema.                                                                    *)

(* A mistake: an exclusive operator may point either way.                   *)
AnyDirectionAccepted(s) ==
  /\ ~(s.literalStep /\ s.step = 0)
  /\ s.literal /\ s.literalStep /\ s.step # Omitted /\ s.kind = "Inclusive" =>
       /\ s.start < s.stop => s.step >= 0
       /\ s.start > s.stop => s.step <= 0

(* validate_literal_range, and the check of a zero step before it.          *)
RangeAccepted(s) ==
  /\ ~(s.literalStep /\ s.step = 0)
  /\ s.literal =>
       CASE s.kind = "Inclusive" ->
              s.literalStep /\ s.step # Omitted =>
                /\ s.start < s.stop => s.step >= 0
                /\ s.start > s.stop => s.step <= 0
         [] s.kind = "UpExclusive" -> s.start <= s.stop
         [] OTHER -> s.start >= s.stop

(* A mistake: the inclusive form always goes up.                            *)
DefaultStepUp(kind, start, stop) == IF kind = "DownExclusive" THEN -1 ELSE 1

(* What an omitted step stands for.                                         *)
DefaultStep(kind, start, stop) ==
  CASE kind = "UpExclusive" -> 1
    [] kind = "DownExclusive" -> -1
    [] OTHER -> IF stop >= start THEN 1 ELSE -1

StepOf(s) ==
  IF s.step = Omitted THEN DefaultStep(s.kind, s.start, s.stop) ELSE s.step

(* Signed division, which truncates, and the remainder that goes with it.   *)
Magnitude(a) == IF a >= 0 THEN a ELSE -a
Quotient(a, b) ==
  LET size == Magnitude(a) \div Magnitude(b)
  IN  IF (a >= 0) = (b > 0) THEN size ELSE -size
Remainder(a, b) ==
  IF a >= 0 THEN a % Magnitude(b) ELSE -(Magnitude(a) % Magnitude(b))

(* A mistake: a step that does not divide the span loses its last value.    *)
LengthRoundedDown(s) ==
  LET step == StepOf(s)
      span == IF step > 0 THEN Wrap(s.stop - s.start) ELSE Wrap(s.start - s.stop)
      trips == Quotient(span, Magnitude(step))
  IN  IF s.kind = "Inclusive" THEN trips + 1 ELSE trips

(* literal_range_length: how many values a range of literals has, as a      *)
(* release build computes it.  A debug build stops where a sum wraps; a     *)
(* negative length is later taken for a very large one.                     *)
LiteralRangeLength(s) ==
  LET step == StepOf(s)
      up == Wrap(s.stop - s.start)
      down == Wrap(s.start - s.stop)
  IN  CASE s.kind = "Inclusive" /\ step > 0 /\ s.stop >= s.start ->
             Wrap(Quotient(up, step) + 1)
        [] s.kind = "Inclusive" /\ step < 0 /\ s.start >= s.stop ->
             Wrap(Quotient(down, -step) + 1)
        [] s.kind = "UpExclusive" /\ step > 0 /\ s.stop > s.start ->
             Quotient(Wrap(Wrap(up + step) - 1), step)
        [] s.kind = "DownExclusive" /\ step < 0 /\ s.start > s.stop ->
             Quotient(Wrap(Wrap(down - step) - 1), -step)
        [] OTHER -> 0

(* range_type, array_from_range_type and comprehension_type: what has a     *)
(* length needs literals throughout, and at least one value.                *)
Accepted(s) ==
  /\ RangeAccepted(s)
  /\ s.use # "for" =>
       s.literal /\ s.literalStep /\ LiteralRangeLength(s) # 0

-----------------------------------------------------------------------------
(* The generated code.                                                      *)

(* A mistake: the loop ends when it meets `stop`, not when it passes it.    *)
RangeContinueToStop(r, value) == value # r.stop \/ r.inclusive

(* range_continue: the counter has not passed `stop`.                       *)
RangeContinue(r, value) ==
  \/ r.inclusive /\ value = r.stop
  \/ r.step > 0 /\ value < r.stop
  \/ ~(r.step > 0) /\ value > r.stop

(* A mistake: only the side of `stop` is tested.                            *)
MembershipOfStopSide(r, value) ==
  {Remainder(Wrap(value - r.start), r.step) = 0 /\ RangeContinue(r, value)}

(* gen_membership: what `value in r` may come out as.  The least word       *)
(* divided by -1 overflows, which is undefined; a build that does not stop  *)
(* there yields either value.                                               *)
Membership(r, value) ==
  LET diff == Wrap(value - r.start)
      fromStart == IF r.step > 0 THEN value >= r.start ELSE value <= r.start
  IN  IF diff = MinInt /\ r.step = -1 THEN BOOLEAN
      ELSE {Remainder(diff, r.step) = 0 /\ RangeContinue(r, value) /\ fromStart}

Init ==
  /\ source \in {s \in Source : Accepted(s)}
  /\ range = [start |-> 0, stop |-> 0, step |-> 1, inclusive |-> FALSE]
  /\ pc = "build"
  /\ counter = 0 /\ index = 0 /\ seen = {}

(* A mistake: a range is built whatever its step.                           *)
BuildUnguarded ==
  /\ pc = "build"
  /\ range' = [start |-> source.start, stop |-> source.stop,
               step |-> StepOf(source), inclusive |-> source.kind = "Inclusive"]
  /\ counter' = source.start
  /\ pc' = "loop"
  /\ UNCHANGED <<source, index, seen>>

(* gen_range, and the stores before the loop.                               *)
BuildRange ==
  /\ pc = "build"
  /\ StepOf(source) # 0
  /\ range' = [start |-> source.start, stop |-> source.stop,
               step |-> StepOf(source), inclusive |-> source.kind = "Inclusive"]
  /\ counter' = source.start
  /\ pc' = "loop"
  /\ UNCHANGED <<source, index, seen>>

(* guard_zero_step: a runtime error.                                        *)
Trap ==
  /\ pc = "build"
  /\ StepOf(source) = 0
  /\ pc' = "trapped"
  /\ UNCHANGED <<source, range, counter, index, seen>>

(* The test in the header of a `for`, and in those of the other two, which  *)
(* count the positions filled.                                              *)
Goes ==
  IF source.use = "for" THEN RangeContinue(range, counter)
                        ELSE index < LiteralRangeLength(source)

(* A mistake: the body sees the counter after it has advanced.              *)
TurnAdvancedFirst ==
  /\ pc = "loop" /\ source.use = "for" /\ Goes
  /\ counter' = Wrap(counter + range.step)
  /\ seen' = seen \cup {counter'}
  /\ UNCHANGED <<source, range, pc, index>>

(* gen_stmt: the body of a `for`, and the latch.                            *)
Turn ==
  /\ pc = "loop" /\ source.use = "for" /\ Goes
  /\ seen' = seen \cup {counter}
  /\ counter' = Wrap(counter + range.step)
  /\ UNCHANGED <<source, range, pc, index>>

(* gen_array_from_range: an element is the counter.                         *)
Fill ==
  /\ pc = "loop" /\ source.use = "array" /\ Goes
  /\ seen' = seen \cup {counter}
  /\ counter' = Wrap(counter + range.step)
  /\ index' = index + 1
  /\ UNCHANGED <<source, range, pc>>

(* gen_comprehension: an element is computed with the counter as variable.  *)
Collect ==
  /\ pc = "loop" /\ source.use = "comprehension" /\ Goes
  /\ seen' = seen \cup {counter}
  /\ index' = index + 1
  /\ counter' = Wrap(counter + range.step)
  /\ UNCHANGED <<source, range, pc>>

(* The exit of each loop.                                                   *)
Leave ==
  /\ pc = "loop" /\ ~Goes
  /\ pc' = "done"
  /\ UNCHANGED <<source, range, counter, index, seen>>

Next == BuildRange \/ Trap \/ Turn \/ Fill \/ Collect \/ Leave

Spec == Init /\ [][Next]_vars

(* The code runs by itself until it leaves the loop.                        *)
FairSpec == Spec /\ WF_vars(Next)

-----------------------------------------------------------------------------
(* Properties.                                                              *)

(* One step past the last value the loop may reach is still a word, so the  *)
(* counter does not wrap on its way out.                                    *)
Room(r) ==
  LET last == IF r.inclusive THEN r.stop
              ELSE IF r.step > 0 THEN r.stop - 1 ELSE r.stop + 1
  IN  last + r.step \in Int64

(* No sum that counts the values of a literal range wraps.                  *)
SpanFits(r) ==
  Magnitude(r.stop - r.start) + Magnitude(r.step) <= MaxInt

(* The value lies between the bounds of a range that is built, in the        *)
(* direction of its step.                                                   *)
Between(r, v) ==
  /\ IF r.step > 0 THEN r.start <= v /\ v <= r.stop
                   ELSE r.stop <= v /\ v <= r.start
  /\ v = r.stop => r.inclusive

OnStep(start, step, v) == \E k \in 0..2 * MaxInt + 1 : v = start + k * step

(* What the source of a range denotes, by specs/0008 and not by the code.   *)
(* The operator fixes the direction (8-12), and with the inclusive one the  *)
(* bounds do; the stop bound of the other two is excluded.  A range whose   *)
(* bounds or whose step go against its direction is empty (55, 241-242).    *)
Ascends(s) ==
  s.kind = "UpExclusive" \/ (s.kind = "Inclusive" /\ s.start <= s.stop)
Descends(s) ==
  s.kind = "DownExclusive" \/ (s.kind = "Inclusive" /\ s.start >= s.stop)

Stride(s, default) == IF s.step = Omitted THEN default ELSE s.step

Values(s) ==
  {v \in Int64 :
     /\ v = s.stop => s.kind = "Inclusive"
     /\ \/ /\ Ascends(s) /\ Stride(s, 1) > 0
           /\ s.start <= v /\ v <= s.stop
           /\ OnStep(s.start, Stride(s, 1), v)
        \/ /\ Descends(s) /\ Stride(s, -1) < 0
           /\ s.stop <= v /\ v <= s.start
           /\ OnStep(s.start, Stride(s, -1), v)}

(* Where the code departs from that: bounds and step agree, and go against  *)
(* the operator.  The loop runs, by the sign of the step alone.  Sema lets  *)
(* only computed bounds come to this.                                       *)
RunsAgainstOperator(s) ==
  \/ s.kind = "UpExclusive" /\ s.start > s.stop /\ StepOf(s) < 0
  \/ s.kind = "DownExclusive" /\ s.start < s.stop /\ StepOf(s) > 0

(* Types; and a range that is used has a step, because building one with a  *)
(* step of zero traps (guard_zero_step).                                    *)
TypeOK ==
  /\ source \in Source
  /\ range \in Ranges
  /\ pc \in {"build", "loop", "done", "trapped"}
  /\ counter \in Int64
  /\ index \in Nat
  /\ seen \subseteq Int64

(* With room at its end, a loop runs its body only with values between      *)
(* `start` and `stop`, in the direction of the step, from the first turn to *)
(* the last: the counter never comes round from the other side.             *)
StaysInBounds ==
  source.use = "for" /\ Room(range) => \A v \in seen : Between(range, v)

(* When a `for` over a range with room at its end is over, its body has run *)
(* with exactly the values the range denotes: none is skipped, none comes   *)
(* again from the other end of the words, and a range that is empty runs    *)
(* nothing; leaving out the one that runs against its operator.             *)
ForSeesTheRange ==
  /\ pc = "done" /\ source.use = "for" /\ Room(range)
  /\ ~RunsAgainstOperator(source)
  => seen = Values(source)

(* Sema counts the values, the generated code produces them: an array, and  *)
(* a comprehension, is filled from exactly the values it denotes, and the   *)
(* length sema gave it is their number, as far as the sums of               *)
(* literal_range_length are words.                                          *)
ArrayHoldsTheRange ==
  pc = "done" /\ source.use # "for" /\ SpanFits(range) =>
    /\ seen = Values(source)
    /\ Cardinality(seen) = LiteralRangeLength(source)

(* `value in r` answers as the loop over r would, that is, whether its body *)
(* runs with the value, as far as the distance from `start` is a word, and  *)
(* not the least one (which divided by -1 overflows).                       *)
InAgreesWithFor ==
  pc = "done" /\ source.use = "for" /\ Room(range) =>
    \A v \in Int64 :
      v - range.start \in Int64 \ {MinInt} =>
        \A answer \in Membership(range, v) : answer <=> v \in seen

(* Where sema has seen the bounds, an exclusive operator keeps its promise  *)
(* whatever the step turns out to be: the loop goes the way the operator    *)
(* points or not at all.                                                    *)
OperatorsKeepDirection ==
  source.literal /\ source.use = "for" /\ seen # {} =>
    /\ source.kind = "UpExclusive" => range.step > 0
    /\ source.kind = "DownExclusive" => range.step < 0

(* An inclusive range without a step, up or down, reaches both its bounds.  *)
BothBoundsReached ==
  /\ pc = "done" /\ source.use = "for" /\ Room(range)
  /\ source.kind = "Inclusive" /\ source.step = Omitted
  => {range.start, range.stop} \subseteq seen

(* With room at its end the loop of a range ends: the counter passes stop. *)
LoopsWithRoomEnd == pc = "loop" /\ Room(range) ~> pc = "done"

(* The comment on the header (src/codegen/stmt.rs, 138-140): a step is never *)
(* zero, "so the counter always advances and the loop terminates".          *)
LoopsEnd == pc = "loop" ~> pc = "done"
=============================================================================
