------------------------ MODULE GeneratedCode_proofs ------------------------
(***************************************************************************)
(* The graph the analyses look at follows the code that runs, code         *)
(* reported as unreachable never runs, and the scopes and calls that are   *)
(* begun are ended once, for every unit.                                   *)
(***************************************************************************)
EXTENDS GeneratedCode, SequenceTheorems, WellFoundedInduction, TLAPS

-----------------------------------------------------------------------------
(* Chains.  A link is an item, where it begins and where it ends; a         *)
(* sequence of items leads from p to q when each has a link that begins     *)
(* where the one before it ends.                                            *)

Chain(E, s, p, q) ==
  \E pos : /\ pos[1] = p /\ pos[Len(s) + 1] = q
           /\ \A i \in 1 .. Len(s) : <<s[i], pos[i], pos[i + 1]>> \in E

(* The sequence of one item.                                                *)
LEMMA Single ==
  ASSUME NEW S, NEW x \in S
  PROVE  <<x>> \in Seq(S) /\ Len(<<x>>) = 1 /\ <<x>>[1] = x
<1>1. <<x>> = [i \in 1 .. 1 |-> x]
  OBVIOUS
<1>2. [i \in 1 .. 1 |-> x] \in Seq(S)
  BY IsASeq
<1> QED
  BY <1>1, <1>2

(* Nothing leads nowhere.                                                   *)
LEMMA ChainEmpty ==
  ASSUME NEW E, NEW p, NEW q
  PROVE  Chain(E, <<>>, p, q) <=> p = q
<1>1. Len(<<>>) = 0
  BY EmptySeq
<1>2. ASSUME p = q PROVE Chain(E, <<>>, p, q)
  <2> DEFINE pos == [i \in {1} |-> p]
  <2>1. pos[1] = p /\ pos[0 + 1] = q
    BY <1>2
  <2> HIDE DEF pos
  <2> QED
    BY <1>1, <2>1 DEF Chain
<1> QED
  BY <1>1, <1>2 DEF Chain

(* One item leads as far as its links do.                                   *)
LEMMA ChainOne ==
  ASSUME NEW E, NEW x, NEW p, NEW q
  PROVE  Chain(E, <<x>>, p, q) <=> <<x, p, q>> \in E
<1>1. Len(<<x>>) = 1 /\ <<x>>[1] = x
  BY Single
<1>2. ASSUME <<x, p, q>> \in E PROVE Chain(E, <<x>>, p, q)
  <2> DEFINE pos == [i \in {1, 2} |-> IF i = 1 THEN p ELSE q]
  <2>1. pos[1] = p /\ pos[1 + 1] = q
    OBVIOUS
  <2> HIDE DEF pos
  <2> QED
    BY <1>1, <1>2, <2>1 DEF Chain
<1> QED
  BY <1>1, <1>2 DEF Chain

(* One sequence after another leads on from where the first one led.        *)
LEMMA ChainConcat ==
  ASSUME NEW E, NEW S, NEW s \in Seq(S), NEW t \in Seq(S), NEW p, NEW q
  PROVE  Chain(E, s \o t, p, q) <=> \E r : Chain(E, s, p, r) /\ Chain(E, t, r, q)
<1> DEFINE m == Len(s)
           n == Len(t)
           st == s \o t
<1>1. m \in Nat /\ n \in Nat
  BY LenProperties
<1>2. /\ Len(st) = m + n
      /\ \A i \in 1 .. m + n : st[i] = IF i <= m THEN s[i] ELSE t[i - m]
  BY ConcatProperties
<1> HIDE DEF m, n, st
<1>3. ASSUME Chain(E, st, p, q)
      PROVE  \E r : Chain(E, s, p, r) /\ Chain(E, t, r, q)
  <2>1. PICK pos : /\ pos[1] = p /\ pos[m + n + 1] = q
                   /\ \A i \in 1 .. m + n : <<st[i], pos[i], pos[i + 1]>> \in E
    BY <1>2, <1>3 DEF Chain
  <2> DEFINE rest == [i \in 1 .. n + 1 |-> pos[m + i]]
  <2>2. Chain(E, s, p, pos[m + 1])
    <3>1. \A i \in 1 .. m : i \in 1 .. m + n /\ st[i] = s[i]
      BY <1>1, <1>2
    <3> QED
      BY <2>1, <3>1 DEF Chain, m
  <2>3. Chain(E, t, pos[m + 1], q)
    <3>1. ASSUME NEW i \in 1 .. n
          PROVE  <<t[i], rest[i], rest[i + 1]>> \in E
      <4>1. /\ m + i \in 1 .. m + n /\ ~(m + i <= m) /\ m + i - m = i
            /\ m + i + 1 = m + (i + 1) /\ i + 1 \in 1 .. n + 1 /\ i \in 1 .. n + 1
        BY <1>1
      <4>2. <<st[m + i], pos[m + i], pos[m + i + 1]>> \in E
        BY <2>1, <4>1
      <4>3. st[m + i] = t[i]
        BY <1>1, <1>2, <4>1
      <4> QED
        BY <4>1, <4>2, <4>3
    <3>2. rest[1] = pos[m + 1] /\ rest[n + 1] = q
      <4>1. 1 \in 1 .. n + 1 /\ n + 1 \in 1 .. n + 1 /\ m + (n + 1) = m + n + 1
        BY <1>1
      <4> QED
        BY <2>1, <4>1
    <3> HIDE DEF rest
    <3> QED
      BY <3>1, <3>2 DEF Chain, n
  <2> QED
    BY <2>2, <2>3
<1>4. ASSUME NEW r, Chain(E, s, p, r), Chain(E, t, r, q)
      PROVE  Chain(E, st, p, q)
  <2>1. PICK f : /\ f[1] = p /\ f[m + 1] = r
                 /\ \A i \in 1 .. m : <<s[i], f[i], f[i + 1]>> \in E
    BY <1>4 DEF Chain, m
  <2>2. PICK g : /\ g[1] = r /\ g[n + 1] = q
                 /\ \A i \in 1 .. n : <<t[i], g[i], g[i + 1]>> \in E
    BY <1>4 DEF Chain, n
  <2> DEFINE pos == [i \in 1 .. m + n + 1 |-> IF i <= m THEN f[i] ELSE g[i - m]]
  <2>3. ASSUME NEW i \in 1 .. m + n
        PROVE  <<st[i], pos[i], pos[i + 1]>> \in E
    <3>1. i \in 1 .. m + n + 1 /\ i + 1 \in 1 .. m + n + 1
      BY <1>1
    <3>2. CASE i < m
      <4>1. i <= m /\ i + 1 <= m /\ i \in 1 .. m
        BY <1>1, <3>2
      <4> QED
        BY <1>2, <2>1, <3>1, <4>1
    <3>3. CASE i = m
      <4>1. i <= m /\ ~(i + 1 <= m) /\ i \in 1 .. m /\ i + 1 - m = 1
        BY <1>1, <3>3
      <4>2. pos[i] = f[i] /\ pos[i + 1] = f[i + 1]
        BY <2>1, <2>2, <3>1, <3>3, <4>1
      <4> QED
        BY <1>2, <2>1, <4>1, <4>2
    <3>4. CASE i > m
      <4>1. /\ ~(i <= m) /\ ~(i + 1 <= m) /\ i - m \in 1 .. n
            /\ i + 1 - m = (i - m) + 1
        BY <1>1, <3>4
      <4>2. pos[i] = g[i - m] /\ pos[i + 1] = g[i + 1 - m]
        BY <1>1, <3>1, <4>1
      <4> QED
        BY <1>2, <2>2, <4>1, <4>2
    <3> QED
      BY <1>1, <3>2, <3>3, <3>4
  <2>4. pos[1] = p
    <3>1. 1 \in 1 .. m + n + 1
      BY <1>1
    <3>2. CASE m = 0
      BY <1>1, <2>1, <2>2, <3>1, <3>2
    <3>3. CASE m # 0
      BY <1>1, <2>1, <3>1, <3>3
    <3> QED
      BY <3>2, <3>3
  <2>5. pos[m + n + 1] = q
    <3>1. /\ m + n + 1 \in 1 .. m + n + 1 /\ ~(m + n + 1 <= m)
          /\ m + n + 1 - m = n + 1
      BY <1>1
    <3>2. pos[m + n + 1] = g[m + n + 1 - m]
      BY <1>1, <3>1
    <3> QED
      BY <2>2, <3>1, <3>2
  <2> HIDE DEF pos
  <2> QED
    BY <1>2, <2>3, <2>4, <2>5 DEF Chain
<1> QED
  BY <1>3, <1>4 DEF st

(* The first item leads to where the others lead on from.                   *)
LEMMA ChainHead ==
  ASSUME NEW E, NEW S, NEW s \in Seq(S), s # <<>>, NEW p, NEW q
  PROVE  Chain(E, s, p, q) <=> \E r : <<Head(s), p, r>> \in E /\ Chain(E, Tail(s), r, q)
<1>1. /\ Head(s) \in S /\ Tail(s) \in Seq(S) /\ Len(Tail(s)) = Len(s) - 1
      /\ \A i \in 1 .. Len(Tail(s)) : Tail(s)[i] = s[i + 1]
  BY HeadTailProperties
<1>2. <<Head(s)>> \in Seq(S) /\ Len(<<Head(s)>>) = 1 /\ <<Head(s)>>[1] = Head(s)
  BY <1>1, Single
<1>3. s = <<Head(s)>> \o Tail(s)
  <2>1. Len(s) \in Nat \ {0} /\ Head(s) = s[1]
    BY EmptySeq DEF Head
  <2>2. /\ <<Head(s)>> \o Tail(s) \in Seq(S)
        /\ Len(<<Head(s)>> \o Tail(s)) = Len(s)
        /\ \A i \in 1 .. Len(s) :
             (<<Head(s)>> \o Tail(s))[i]
               = IF i <= 1 THEN <<Head(s)>>[i] ELSE Tail(s)[i - 1]
    BY <1>1, <1>2, <2>1, ConcatProperties
  <2>3. \A i \in 1 .. Len(s) : s[i] = (<<Head(s)>> \o Tail(s))[i]
    <3> SUFFICES ASSUME NEW i \in 1 .. Len(s)
                 PROVE  s[i] = (<<Head(s)>> \o Tail(s))[i]
      OBVIOUS
    <3>1. CASE i = 1
      BY <1>2, <2>1, <2>2, <3>1
    <3>2. CASE i # 1
      <4>1. i - 1 \in 1 .. Len(Tail(s)) /\ ~(i <= 1) /\ i - 1 + 1 = i
        BY <1>1, <2>1, <3>2
      <4> QED
        BY <1>1, <2>2, <4>1
    <3> QED
      BY <3>1, <3>2
  <2> QED
    BY <2>2, <2>3, SeqEqual
<1>4. Chain(E, s, p, q)
        <=> \E r : Chain(E, <<Head(s)>>, p, r) /\ Chain(E, Tail(s), r, q)
  BY <1>1, <1>2, <1>3, ChainConcat
<1> QED
  BY <1>4, ChainOne

(* More links lead at least as far.                                         *)
LEMMA ChainMonotone ==
  ASSUME NEW E, NEW F, NEW s, NEW p, NEW q, Chain(E, s, p, q),
         \A x, a, b : <<x, a, b>> \in E => <<x, a, b>> \in F
  PROVE  Chain(F, s, p, q)
BY DEF Chain

(* Items that lead from p to p, in sequence.                                *)
LEMMA ChainQuiet ==
  ASSUME NEW E, NEW S, NEW s \in Seq(S), NEW p, \A x \in S : <<x, p, p>> \in E
  PROVE  Chain(E, s, p, p)
<1> DEFINE pos == [i \in 1 .. Len(s) + 1 |-> p]
<1>1. Len(s) \in Nat /\ \A i \in 1 .. Len(s) : s[i] \in S
  BY LenProperties, ElementOfSeq
<1>2. pos[1] = p /\ pos[Len(s) + 1] = p
  BY <1>1
<1>3. \A i \in 1 .. Len(s) : pos[i] = p /\ pos[i + 1] = p
  BY <1>1
<1> HIDE DEF pos
<1> QED
  BY <1>1, <1>2, <1>3 DEF Chain

(* Where links end in P, a chain from P does.                               *)
LEMMA ChainStays ==
  ASSUME NEW E, NEW S, NEW s \in Seq(S), NEW P, NEW p \in P, NEW q, Chain(E, s, p, q),
         \A x, a, b : <<x, a, b>> \in E => b \in P
  PROVE  q \in P
<1>1. Len(s) \in Nat
  BY LenProperties
<1>2. PICK pos : /\ pos[1] = p /\ pos[Len(s) + 1] = q
                 /\ \A i \in 1 .. Len(s) : <<s[i], pos[i], pos[i + 1]>> \in E
  BY DEF Chain
<1>3. CASE Len(s) = 0
  BY <1>2, <1>3
<1>4. CASE Len(s) # 0
  <2>1. Len(s) \in 1 .. Len(s)
    BY <1>1, <1>4
  <2> QED
    BY <1>2, <2>1
<1> QED
  BY <1>3, <1>4

-----------------------------------------------------------------------------
(* The items the code of a unit consists of: those that stand in the graph, *)
(* and those that do not.                                                   *)

Loops(u) == {s \in Stmt(u) : s.kind = "loop"}
Counted(u) == {s \in Stmt(u) : s.kind = "for"}

(* A `for` that counts down over an inclusive range, which the checker of   *)
(* unreachable code takes to be empty.                                      *)
Descending(e) == IsLiteralRange(e) /\ e.rangeKind = "Inclusive" /\ e.start > e.stop

(* The counters a `for` over e may have: of any other range that is taken   *)
(* to be empty, all of them are past the end.                               *)
Counters(e) ==
  {c \in Int : IsLiteralRange(e) /\ LiteralRangeIsEmpty(e) /\ ~Descending(e)
                 => ~RangeContinue(e, c)}

(* What a test may lead to.                                                 *)
Plain(u, shown) ==
  [do : {"stmt"}, stmt : Stmt(u), shown : {shown}]
    \cup [do : {"block"}, block : BlocksIn(u), shown : {shown}]
    \cup [do : {"arms"}, arms : Seq(ArmsIn(u)), elseBlock : BlocksIn(u) \cup {Missing},
          shown : {shown}]
    \cup [do : {"pass"}, stmt : Loops(u), shown : {shown}]
    \cup (IF shown THEN {Jump} ELSE {})

(* The tests that code leads to, and the start of a pass of a `for`.        *)
Tests(u, shown) ==
  [do : {"fork"}, cond : Conditions(u), yes : Seq(Plain(u, shown)), no : Seq(Plain(u, shown)),
   shown : {shown}]
    \cup {x \in [do : {"round"}, stmt : Counted(u), counter : Int, shown : {shown}] :
             x.counter \in Counters(x.stmt.source)}
    \cup [do : {"bind"}, stmt : Counted(u), shown : {shown}]

(* The items that never stand in the graph.                                 *)
Leaves(u) ==
  [do : {"value", "load"}, expr : Expr(u)]
    \cup [do : {"call"}, name : DOMAIN u.functions]
    \cup [do : {"store"}, stmt : Stmt(u)]
    \cup {CloseScope, Back}

(* The marks of what the graph shows.                                       *)
Reaches(u) ==
  [do : {"reach"},
   action : {Statement(s) : s \in Stmt(u)} \cup {Evaluate(e) : e \in Expr(u)}
              \cup {Return(e) : e \in Expr(u) \cup {Missing}}]

Family(u, shown) ==
  Plain(u, shown) \cup Tests(u, shown) \cup Leaves(u) \cup (IF shown THEN Reaches(u) ELSE {})

Items(u) == Family(u, TRUE) \cup Family(u, FALSE)

(* A sequence over a set is one over a larger set.                          *)
LEMMA MoreSequences ==
  ASSUME NEW S, NEW T, S \subseteq T
  PROVE  Seq(S) \subseteq Seq(T)
OBVIOUS

(* Sequences written out, item by item.                                     *)
LEMMA Pair ==
  ASSUME NEW S, NEW x \in S, NEW y \in S
  PROVE  <<x, y>> \in Seq(S) /\ <<x, y>> = <<x>> \o <<y>>
<1>1. <<x, y>> \in Seq(S) /\ Len(<<x, y>>) = 2
  <2>1. <<x, y>> = [i \in 1 .. 2 |-> IF i = 1 THEN x ELSE y]
    OBVIOUS
  <2>2. [i \in 1 .. 2 |-> IF i = 1 THEN x ELSE y] \in Seq(S)
    BY IsASeq
  <2> QED
    BY <2>1, <2>2, LenProperties
<1>2. /\ <<x>> \o <<y>> \in Seq(S) /\ Len(<<x>> \o <<y>>) = 2
      /\ \A i \in 1 .. 2 : (<<x>> \o <<y>>)[i] = <<x, y>>[i]
  BY Single, ConcatProperties
<1> QED
  BY <1>1, <1>2, SeqEqual

(* Three members are a sequence, and the first one before the other two.    *)
LEMMA Triple ==
  ASSUME NEW S, NEW x \in S, NEW y \in S, NEW z \in S
  PROVE  <<x, y, z>> \in Seq(S) /\ <<x, y, z>> = <<x>> \o <<y, z>>
<1>1. <<x, y, z>> \in Seq(S) /\ Len(<<x, y, z>>) = 3
  <2>1. <<x, y, z>> = [i \in 1 .. 3 |-> IF i = 1 THEN x ELSE IF i = 2 THEN y ELSE z]
    OBVIOUS
  <2>2. [i \in 1 .. 3 |-> IF i = 1 THEN x ELSE IF i = 2 THEN y ELSE z] \in Seq(S)
    BY IsASeq
  <2> QED
    BY <2>1, <2>2, LenProperties
<1>2. <<y, z>> \in Seq(S) /\ Len(<<y, z>>) = 2
  BY Pair, LenProperties
<1>3. /\ <<x>> \o <<y, z>> \in Seq(S) /\ Len(<<x>> \o <<y, z>>) = 3
      /\ \A i \in 1 .. 3 : (<<x>> \o <<y, z>>)[i] = <<x, y, z>>[i]
  BY <1>2, Single, ConcatProperties
<1> QED
  BY <1>1, <1>3, SeqEqual

(* Those of them that are not the beginning or the end of a scope or of a   *)
(* call, by themselves.                                                     *)
Flat(u, shown) == {x \in Family(u, shown) : x.do \notin {"close", "bind", "back"}}

(* What holds of the family of a program holds of its flat items.           *)
LEMMA FlatIsFamily ==
  \A u, shown : Flat(u, shown) \subseteq Family(u, shown)
                 /\ Seq(Flat(u, shown)) \subseteq Seq(Family(u, shown))
<1> TAKE u, shown
<1>1. Flat(u, shown) \subseteq Family(u, shown)
  BY DEF Flat
<1> QED
  BY <1>1, MoreSequences

(* What a test leads to.                                                    *)
LEMMA PlainIsFlat ==
  ASSUME NEW u, NEW shown \in BOOLEAN
  PROVE  Plain(u, shown) \subseteq Flat(u, shown)
<1> SUFFICES ASSUME NEW x \in Plain(u, shown) PROVE x \in Flat(u, shown)
  OBVIOUS
<1>1. x \in Family(u, shown)
  BY DEF Family
<1>2. CASE x = Jump
  BY <1>1, <1>2 DEF Flat, Jump
<1>3. CASE x # Jump
  BY <1>1, <1>3 DEF Flat, Plain
<1> QED
  BY <1>2, <1>3

(* What a statement, a block, the arms of an `if` and a pass of a loop are  *)
(* lowered to are items of the unit; inside an expression none stands in    *)
(* the graph.                                                               *)
LEMMA BodyTyped ==
  ASSUME NEW u, NEW b \in BlocksIn(u), NEW shown \in BOOLEAN
  PROVE  /\ Stmts(b.stmts, shown) \in Seq(Flat(u, shown))
         /\ Body(b, shown) \in Seq(Flat(u, shown))
<1>1. b.stmts \in Seq(Stmt(u)) /\ b.result \in Expr(u) \cup {Missing}
  BY DEF BlocksIn
<1>2. Stmts(b.stmts, shown) \in Seq(Flat(u, shown))
  <2>1. Len(b.stmts) \in Nat /\ DOMAIN b.stmts = 1 .. Len(b.stmts)
    BY <1>1, LenProperties
  <2>2. \A i \in 1 .. Len(b.stmts) : DoStmt(b.stmts[i], shown) \in Flat(u, shown)
    BY <1>1, ElementOfSeq DEF DoStmt, Flat, Family, Plain
  <2> QED
    BY <2>1, <2>2, IsASeq DEF Stmts
<1>3. CASE b.result = Missing
  BY <1>2, <1>3, ConcatEmptySeq DEF Body
<1>4. CASE b.result # Missing
  <2>1. Value(b.result) \in Flat(u, shown)
    BY <1>1, <1>4 DEF Value, Flat, Family, Leaves
  <2>2. Marked(Evaluate(b.result), shown) \in Seq(Flat(u, shown))
    <3>1. shown => Reach(Evaluate(b.result)) \in Flat(u, shown)
      BY <1>1, <1>4 DEF Reach, Flat, Family, Reaches
    <3> QED
      BY <3>1, Single, EmptySeq DEF Marked
  <2>3. Marked(Evaluate(b.result), shown) \o <<Value(b.result)>> \in Seq(Flat(u, shown))
    BY <2>1, <2>2, Single, ConcatProperties
  <2> QED
    BY <1>2, <1>4, <2>3, ConcatProperties DEF Body
<1> QED
  BY <1>2, <1>3, <1>4

(* The jump that ends an arm is an item where the graph shows it.           *)
LEMMA JumpTyped ==
  ASSUME NEW u, NEW shown \in BOOLEAN
  PROVE  /\ Jumping(shown) \in Seq(Plain(u, shown))
         /\ Jumping(shown) \in Seq(Flat(u, shown))
<1>1. CASE shown
  <2>1. Jump \in Plain(u, shown) /\ Jump \in Flat(u, shown)
    BY <1>1, PlainIsFlat DEF Plain
  <2> QED
    BY <1>1, <2>1, Single DEF Jumping
<1>2. CASE ~shown
  BY <1>2, EmptySeq DEF Jumping
<1> QED
  BY <1>1, <1>2

(* The arms of an `if`, and what their code is, are items of the unit.      *)
LEMMA ArmsTyped ==
  ASSUME NEW u, NEW arms \in Seq(ArmsIn(u)), NEW elseBlock \in BlocksIn(u) \cup {Missing},
         NEW shown \in BOOLEAN
  PROVE  /\ Arms(arms, elseBlock, shown) \in Plain(u, shown)
         /\ ArmsCode(arms, elseBlock, shown) \in Seq(Flat(u, shown))
<1>1. Arms(arms, elseBlock, shown) \in Plain(u, shown)
  BY DEF Arms, Plain
<1>2. CASE arms = <<>>
  <2>1. (IF elseBlock = Missing THEN <<>> ELSE <<DoBlock(elseBlock, shown)>>)
          \in Seq(Flat(u, shown))
    <3>1. CASE elseBlock = Missing
      BY <3>1, EmptySeq
    <3>2. CASE elseBlock # Missing
      <4>1. DoBlock(elseBlock, shown) \in Flat(u, shown)
        BY <3>2 DEF DoBlock, Flat, Family, Plain
      <4> QED
        BY <3>2, <4>1, Single
    <3> QED
      BY <3>1, <3>2
  <2> QED
    BY <1>1, <1>2, <2>1, JumpTyped, ConcatProperties DEF ArmsCode
<1>3. CASE arms # <<>>
  <2> DEFINE cond == Head(arms).cond
             yes == <<DoBlock(Head(arms).body, shown)>> \o Jumping(shown)
             no == <<Arms(Tail(arms), elseBlock, shown)>>
  <2>1. Head(arms) \in ArmsIn(u) /\ Tail(arms) \in Seq(ArmsIn(u))
    BY <1>3, HeadTailProperties
  <2>2. cond \in Conditions(u) /\ Head(arms).body \in BlocksIn(u)
    BY <2>1 DEF ArmsIn
  <2>3. yes \in Seq(Plain(u, shown))
    <3>1. DoBlock(Head(arms).body, shown) \in Plain(u, shown)
      BY <2>2 DEF DoBlock, Plain
    <3> QED
      BY <3>1, Single, JumpTyped, ConcatProperties
  <2>4. no \in Seq(Plain(u, shown))
    <3>1. Arms(Tail(arms), elseBlock, shown) \in Plain(u, shown)
      BY <2>1 DEF Arms, Plain
    <3> QED
      BY <3>1, Single
  <2> HIDE DEF cond, yes, no
  <2>5. Value(cond) \in Flat(u, shown) /\ Fork(cond, yes, no, shown) \in Flat(u, shown)
    BY <2>2, <2>3, <2>4 DEF Value, Fork, Flat, Family, Leaves, Tests, Conditions
  <2> QED
    BY <1>1, <1>3, <2>5, Pair DEF ArmsCode, cond, yes, no
<1> QED
  BY <1>2, <1>3

(* A pass of a `loop`, and what its code is, are items of the unit.         *)
LEMMA PassTyped ==
  ASSUME NEW u, IsUnit(u), NEW stmt \in Loops(u), NEW shown \in BOOLEAN
  PROVE  /\ Pass(stmt, shown) \in Plain(u, shown)
         /\ PassCode(stmt, shown) \in Seq(Flat(u, shown))
<1>1. /\ stmt.cond \in Conditions(u) /\ stmt.body \in BlocksIn(u) /\ stmt.until \in BOOLEAN
  <2>1. IsStmt(u, stmt) /\ stmt.kind = "loop"
    BY DEF Loops, IsUnit
  <2> QED
    BY <2>1 DEF IsStmt
<1>2. Pass(stmt, shown) \in Plain(u, shown)
  BY DEF Pass, Plain
<1> DEFINE again == <<Pass(stmt, shown)>>
           test == IF stmt.until THEN Fork(stmt.cond, <<>>, again, shown)
                                 ELSE Fork(stmt.cond, again, <<>>, shown)
<1>3. again \in Seq(Plain(u, shown)) /\ <<>> \in Seq(Plain(u, shown))
  BY <1>2, Single, EmptySeq
<1> HIDE DEF again
<1>4. test \in Flat(u, shown)
  BY <1>1, <1>3 DEF Fork, Flat, Family, Tests
<1> HIDE DEF test
<1>5. DoBlock(stmt.body, shown) \in Flat(u, shown) /\ Value(stmt.cond) \in Flat(u, shown)
  BY <1>1 DEF DoBlock, Value, Flat, Family, Plain, Leaves, Conditions
<1> QED
  BY <1>2, <1>4, <1>5, Triple DEF PassCode, test, again

(* The counter of a `for` begins among these, and stays among them.         *)
LEMMA CountersTyped ==
  ASSUME NEW u, NEW e, IsExpr(u, e)
  PROVE  /\ FirstCounter(e) \in Counters(e)
         /\ \A c \in Counters(e) : NextCounter(e, c) \in Counters(e)
<1>1. CASE ~IsLiteralRange(e)
  BY <1>1 DEF FirstCounter, NextCounter, Counters
<1>2. CASE IsLiteralRange(e)
  <2>1. /\ e.start \in Int /\ e.stop \in Int
        /\ e.rangeKind \in {"Inclusive", "UpExclusive", "DownExclusive"}
    BY <1>2 DEF IsLiteralRange, IsExpr
  <2>2. /\ FirstCounter(e) = e.start
        /\ \A c : NextCounter(e, c) = c + DefaultStep(e)
    BY <1>2 DEF FirstCounter, NextCounter
  <2>3. CASE e.rangeKind = "Inclusive"
    <3>1. DefaultStep(e) \in {1, -1}
      BY <2>3 DEF DefaultStep
    <3>2. LiteralRangeIsEmpty(e) => Descending(e)
      BY <1>2, <2>3 DEF LiteralRangeIsEmpty, Descending
    <3> QED
      BY <2>1, <2>2, <3>1, <3>2 DEF Counters
  <2>4. CASE e.rangeKind = "UpExclusive"
    <3>1. DefaultStep(e) = 1
      BY <2>4 DEF DefaultStep
    <3>2. LiteralRangeIsEmpty(e) => e.start >= e.stop
      BY <2>4 DEF LiteralRangeIsEmpty
    <3>3. \A c : RangeContinue(e, c) <=> c < e.stop
      BY <2>4, <3>1 DEF RangeContinue
    <3> QED
      BY <2>1, <2>2, <3>1, <3>2, <3>3 DEF Counters
  <2>5. CASE e.rangeKind = "DownExclusive"
    <3>1. DefaultStep(e) = -1
      BY <2>5 DEF DefaultStep
    <3>2. LiteralRangeIsEmpty(e) => e.start <= e.stop
      BY <2>5 DEF LiteralRangeIsEmpty
    <3>3. \A c : RangeContinue(e, c) <=> c > e.stop
      BY <2>5, <3>1 DEF RangeContinue
    <3> QED
      BY <2>1, <2>2, <3>1, <3>2, <3>3 DEF Counters
  <2> QED
    BY <2>1, <2>3, <2>4, <2>5
<1> QED
  BY <1>1, <1>2

(* A round of a `for`, its counters and its code are items of the unit.     *)
LEMMA RoundTyped ==
  ASSUME NEW u, IsUnit(u), NEW stmt \in Counted(u), NEW counter \in Counters(stmt.source),
         NEW shown \in BOOLEAN
  PROVE  /\ FirstCounter(stmt.source) \in Counters(stmt.source)
         /\ NextCounter(stmt.source, counter) \in Counters(stmt.source)
         /\ Round(stmt, counter, shown) \in Flat(u, shown)
         /\ <<Binders(stmt, shown), DoBlock(stmt.body, shown), CloseScope>>
              \in Seq(Family(u, shown))
         /\ RoundCode(stmt, counter, shown) \in Seq(Family(u, shown))
<1>1. stmt.source \in Expr(u) /\ stmt.body \in BlocksIn(u)
  <2>1. IsStmt(u, stmt) /\ stmt.kind = "for"
    BY DEF Counted, IsUnit
  <2> QED
    BY <2>1 DEF IsStmt
<1>2. /\ FirstCounter(stmt.source) \in Counters(stmt.source)
      /\ NextCounter(stmt.source, counter) \in Counters(stmt.source)
  <2>1. IsExpr(u, stmt.source)
    BY <1>1 DEF IsUnit
  <2> QED
    BY <2>1, CountersTyped
<1>3. /\ Binders(stmt, shown) \in Family(u, shown)
      /\ DoBlock(stmt.body, shown) \in Family(u, shown)
      /\ CloseScope \in Family(u, shown)
  BY <1>1 DEF Binders, DoBlock, Family, Plain, Tests, Leaves
<1>4. \A c \in Counters(stmt.source) : Round(stmt, c, shown) \in Flat(u, shown)
  BY DEF Round, Flat, Family, Tests, Counters
<1>5. <<Binders(stmt, shown), DoBlock(stmt.body, shown), CloseScope>> \in Seq(Family(u, shown))
  BY <1>3, Triple
<1>6. <<Round(stmt, NextCounter(stmt.source, counter), shown)>> \in Seq(Family(u, shown))
  BY <1>2, <1>4, Single, FlatIsFamily
<1>7. RoundCode(stmt, counter, shown) \in Seq(Family(u, shown))
  <2>1. <<Binders(stmt, shown), DoBlock(stmt.body, shown), CloseScope>> \o Jumping(shown)
          \in Seq(Family(u, shown))
    BY <1>5, JumpTyped, FlatIsFamily, ConcatProperties
  <2> QED
    BY <1>6, <2>1, ConcatProperties DEF RoundCode
<1> QED
  BY <1>2, <1>4, <1>5, <1>7

(* A statement or an expression, shown or hidden, is items of the unit.     *)
LEMMA MarkedTyped ==
  ASSUME NEW u, NEW shown \in BOOLEAN, NEW action
  PROVE  /\ action \in {Statement(s) : s \in Stmt(u)} \cup {Evaluate(e) : e \in Expr(u)}
              => Marked(action, shown) \in Seq(Flat(u, shown))
         /\ \A e \in Expr(u) : /\ <<Value(e)>> \in Seq(Flat(u, shown))
                               /\ Value(e) \in Flat(u, shown)
<1>1. ASSUME action \in {Statement(s) : s \in Stmt(u)} \cup {Evaluate(e) : e \in Expr(u)}
      PROVE  Marked(action, shown) \in Seq(Flat(u, shown))
  <2>1. CASE shown
    <3>1. Reach(action) \in Flat(u, shown)
      BY <1>1, <2>1 DEF Reach, Flat, Family, Reaches
    <3> QED
      BY <2>1, <3>1, Single DEF Marked
  <2>2. CASE ~shown
    BY <2>2, EmptySeq DEF Marked
  <2> QED
    BY <2>1, <2>2
<1>2. ASSUME NEW e \in Expr(u)
      PROVE  <<Value(e)>> \in Seq(Flat(u, shown)) /\ Value(e) \in Flat(u, shown)
  <2>1. Value(e) \in Flat(u, shown)
    BY DEF Value, Flat, Family, Leaves
  <2> QED
    BY <2>1, Single
<1> QED
  BY <1>1, <1>2

(* The test of a `while`, and what follows it, are items of the unit.       *)
LEMMA WhileTyped ==
  ASSUME NEW u, IsUnit(u), NEW stmt \in Stmt(u), stmt.kind = "while", NEW shown \in BOOLEAN
  PROVE  LET yes == <<DoBlock(stmt.body, shown), DoStmt(stmt, shown)>> IN
         /\ yes \in Seq(Plain(u, shown)) /\ yes \in Seq(Flat(u, shown))
         /\ <<>> \in Seq(Plain(u, shown))
         /\ Fork(stmt.cond, yes, <<>>, shown) \in Flat(u, shown)
         /\ <<Value(stmt.cond), Fork(stmt.cond, yes, <<>>, shown)>> \in Seq(Flat(u, shown))
<1> DEFINE yes == <<DoBlock(stmt.body, shown), DoStmt(stmt, shown)>>
<1>1. stmt.cond \in Conditions(u) /\ stmt.body \in BlocksIn(u)
  <2>1. IsStmt(u, stmt)
    BY DEF IsUnit
  <2> QED
    BY <2>1 DEF IsStmt
<1>2. DoBlock(stmt.body, shown) \in Plain(u, shown) /\ DoStmt(stmt, shown) \in Plain(u, shown)
  BY <1>1 DEF DoBlock, DoStmt, Plain
<1>3. yes \in Seq(Plain(u, shown)) /\ <<>> \in Seq(Plain(u, shown))
  BY <1>2, Pair, EmptySeq
<1>4. yes \in Seq(Flat(u, shown))
  BY <1>2, Pair, PlainIsFlat
<1> HIDE DEF yes
<1>5. Fork(stmt.cond, yes, <<>>, shown) \in Flat(u, shown)
  BY <1>1, <1>3 DEF Fork, Flat, Family, Tests
<1>6. Value(stmt.cond) \in Flat(u, shown)
  BY <1>1 DEF Value, Flat, Family, Leaves, Conditions
<1> QED
  BY <1>3, <1>4, <1>5, <1>6, Pair DEF yes

(* The code of every kind of statement is items of the unit.                *)
LEMMA CodeTyped ==
  ASSUME NEW u, IsUnit(u), NEW stmt \in Stmt(u), NEW shown \in BOOLEAN
  PROVE  Code(stmt, shown) \in Seq(Flat(u, shown))
<1>1. IsStmt(u, stmt)
  BY DEF IsUnit
<1>2. CASE stmt.kind = "expr" /\ stmt.expr.kind = "if" /\ shown
  <2>1. stmt.expr \in Expr(u)
    BY <1>1, <1>2 DEF IsStmt
  <2>2. IsExpr(u, stmt.expr)
    BY <2>1 DEF IsUnit
  <2>3. stmt.expr.arms \in Seq(ArmsIn(u)) /\ stmt.expr.elseBlock \in BlocksIn(u) \cup {Missing}
    BY <1>2, <2>2 DEF IsExpr
  <2>4. Arms(stmt.expr.arms, stmt.expr.elseBlock, shown) \in Flat(u, shown)
    BY <2>3, ArmsTyped, PlainIsFlat
  <2> QED
    BY <1>2, <2>4, Single DEF Code
<1>3. CASE stmt.kind = "expr" /\ ~(stmt.expr.kind = "if" /\ shown)
  <2>1. stmt.expr \in Expr(u)
    BY <1>1, <1>3 DEF IsStmt
  <2>2. Marked(Statement(stmt), shown) \o <<Value(stmt.expr)>> \in Seq(Flat(u, shown))
    BY <2>1, MarkedTyped, ConcatProperties
  <2> QED
    BY <1>3, <2>2 DEF Code
<1>4. CASE stmt.kind = "assign"
  <2>1. stmt.value \in Expr(u)
    BY <1>1, <1>4 DEF IsStmt
  <2>2. Value(stmt.value) \in Flat(u, shown) /\ Store(stmt) \in Flat(u, shown)
    BY <2>1, MarkedTyped DEF Store, Flat, Family, Leaves
  <2>3. <<Value(stmt.value), Store(stmt)>> \in Seq(Flat(u, shown))
    BY <2>2, Pair
  <2>4. Marked(Statement(stmt), shown) \o <<Value(stmt.value), Store(stmt)>>
          \in Seq(Flat(u, shown))
    BY <2>3, MarkedTyped, ConcatProperties
  <2> QED
    BY <1>4, <2>4 DEF Code
<1>5. CASE stmt.kind = "while"
  BY <1>5, WhileTyped, JumpTyped, ConcatProperties DEF Code
<1>6. CASE stmt.kind = "loop"
  <2>1. stmt \in Loops(u)
    BY <1>6 DEF Loops
  <2>2. <<Pass(stmt, shown)>> \in Seq(Flat(u, shown))
    BY <2>1, PassTyped, PlainIsFlat, Single
  <2> QED
    BY <1>6, <2>2, JumpTyped, ConcatProperties DEF Code
<1>7. CASE stmt.kind = "for"
  <2>1. stmt.source \in Expr(u) /\ stmt \in Counted(u)
    BY <1>1, <1>7 DEF IsStmt, Counted
  <2>2. FirstCounter(stmt.source) \in Counters(stmt.source)
    BY <1>1, <2>1, CountersTyped DEF IsUnit
  <2>3. <<Round(stmt, FirstCounter(stmt.source), shown)>> \in Seq(Flat(u, shown))
    BY <2>1, <2>2, RoundTyped, Single
  <2>4. Marked(Evaluate(stmt.source), shown) \o <<Value(stmt.source)>> \in Seq(Flat(u, shown))
    BY <2>1, MarkedTyped, ConcatProperties
  <2>5. Marked(Evaluate(stmt.source), shown) \o <<Value(stmt.source)>> \o Jumping(shown)
          \in Seq(Flat(u, shown))
    BY <2>4, JumpTyped, ConcatProperties
  <2> QED
    BY <1>7, <2>3, <2>5, ConcatProperties DEF Code
<1> QED
  BY <1>1, <1>2, <1>3, <1>4, <1>5, <1>6, <1>7 DEF IsStmt

(* What an expression and a call are lowered to does not stand in the graph.*)
LEMMA ExpressionTyped ==
  ASSUME NEW u, IsUnit(u), NEW e \in Expr(u)
  PROVE  /\ e.kind = "if"
              => /\ e.arms \in Seq(ArmsIn(u)) /\ e.elseBlock \in BlocksIn(u) \cup {Missing}
                 /\ <<Arms(e.arms, e.elseBlock, FALSE)>> \in Seq(Flat(u, FALSE))
         /\ <<Load(e)>> \in Seq(Flat(u, FALSE))
         /\ e.kind = "computed"
              => [i \in DOMAIN e.calls |-> Call(e.calls[i])] \in Seq(Flat(u, FALSE))
<1>1. IsExpr(u, e)
  BY DEF IsUnit
<1>2. ASSUME e.kind = "if"
      PROVE  /\ e.arms \in Seq(ArmsIn(u)) /\ e.elseBlock \in BlocksIn(u) \cup {Missing}
             /\ <<Arms(e.arms, e.elseBlock, FALSE)>> \in Seq(Flat(u, FALSE))
  <2>1. e.arms \in Seq(ArmsIn(u)) /\ e.elseBlock \in BlocksIn(u) \cup {Missing}
    BY <1>1, <1>2 DEF IsExpr
  <2>2. Arms(e.arms, e.elseBlock, FALSE) \in Flat(u, FALSE)
    BY <2>1, ArmsTyped, PlainIsFlat
  <2> QED
    BY <2>1, <2>2, Single
<1>3. <<Load(e)>> \in Seq(Flat(u, FALSE))
  <2>1. Load(e) \in Flat(u, FALSE)
    BY DEF Load, Flat, Family, Leaves
  <2> QED
    BY <2>1, Single
<1>4. ASSUME e.kind = "computed"
      PROVE  [i \in DOMAIN e.calls |-> Call(e.calls[i])] \in Seq(Flat(u, FALSE))
  <2>1. e.calls \in Seq(DOMAIN u.functions)
    BY <1>1, <1>4 DEF IsExpr
  <2>2. Len(e.calls) \in Nat /\ DOMAIN e.calls = 1 .. Len(e.calls)
    BY <2>1, LenProperties
  <2>3. \A i \in 1 .. Len(e.calls) : Call(e.calls[i]) \in Flat(u, FALSE)
    BY <2>1, ElementOfSeq DEF Call, Flat, Family, Leaves
  <2> DEFINE calls == [i \in DOMAIN e.calls |-> Call(e.calls[i])]
  <2>4. calls \in [1 .. Len(e.calls) -> Flat(u, FALSE)]
    BY <2>2, <2>3
  <2> HIDE DEF calls
  <2>5. calls \in Seq(Flat(u, FALSE))
    BY <2>2, <2>4, SeqDef
  <2> QED
    BY <2>5 DEF calls
<1> QED
  BY <1>2, <1>3, <1>4

(* The code of a unit, with its result or without one, is items of the      *)
(* unit.                                                                    *)
LEMMA UnitTyped ==
  ASSUME NEW u, IsUnit(u)
  PROVE  /\ Stmts(UnitStmts(u), TRUE) \in Seq(Flat(u, TRUE))
         /\ Reach(Return(u.body.result)) \in Flat(u, TRUE)
         /\ u.body.result # Missing
              => <<Value(u.body.result)>> \in Seq(Flat(u, TRUE))
         /\ UnitCode(u) \in Seq(Flat(u, TRUE))
<1> DEFINE last == IF u.body.result = Missing THEN <<>> ELSE <<Value(u.body.result)>>
<1>1. UnitStmts(u) \in Seq(Stmt(u)) /\ u.body.result \in Expr(u) \cup {Missing}
  BY DEF IsUnit
<1>2. Stmts(UnitStmts(u), TRUE) \in Seq(Flat(u, TRUE))
  <2> DEFINE b == [kind |-> "block", stmts |-> UnitStmts(u), result |-> Missing]
  <2>1. b \in BlocksIn(u)
    BY <1>1 DEF BlocksIn
  <2> QED
    BY <2>1, BodyTyped
<1>3. Reach(Return(u.body.result)) \in Flat(u, TRUE)
  BY <1>1 DEF Reach, Flat, Family, Reaches
<1>4. last \in Seq(Flat(u, TRUE))
  BY <1>1, MarkedTyped, EmptySeq
<1>5. Stmts(UnitStmts(u), TRUE) \o <<Reach(Return(u.body.result))>> \in Seq(Flat(u, TRUE))
  BY <1>2, <1>3, Single, ConcatProperties
<1> HIDE DEF last
<1>6. (Stmts(UnitStmts(u), TRUE) \o <<Reach(Return(u.body.result))>>) \o last
        \in Seq(Flat(u, TRUE))
  BY <1>4, <1>5, ConcatProperties
<1> QED
  BY <1>2, <1>3, <1>4, <1>6 DEF UnitCode, last

-----------------------------------------------------------------------------
(* Simulation.  A graph shows an item from p to q when what the item is     *)
(* lowered to leads from p to q; items that do not stand in the graph lead  *)
(* nowhere.  What an item is lowered to may contain the item again: the     *)
(* links of a graph are the largest set that is justified by itself.        *)

(* The positions of a graph: before an action of a block, or before its     *)
(* terminator.                                                              *)
Places(g) ==
  {p \in Nat \X Nat : /\ p[1] \in 0 .. Len(g.blocks) - 1
                      /\ p[2] \in 1 .. Len(g.blocks[p[1] + 1].actions) + 1}

(* The items that stand in the graph, and what a set of links may hold of   *)
(* them.                                                                    *)
Standing(u) == Plain(u, TRUE) \cup Tests(u, TRUE) \cup Reaches(u)

Triples(u, g) == Standing(u) \X Places(g) \X Places(g)

(* The links of the items that do not: they lead nowhere.                   *)
Quiet(u, g) == {t \in Family(u, FALSE) \X Places(g) \X Places(g) : t[2] = t[3]}

Links(u, g, R) == R \cup Quiet(u, g)

IsBranch(g, p, cond) == ShownAt(g, p).kind = "branch" /\ ShownAt(g, p).cond = cond

(* What the graph must have between p and q to show x, by the links E.      *)
Shows(g, E, x, p, q) ==
  CASE x.do = "stmt" -> Chain(E, Code(x.stmt, TRUE), p, q)
    [] x.do = "block" -> Chain(E, Body(x.block, TRUE) \o <<CloseScope>>, p, q)
    [] x.do = "arms" -> Chain(E, ArmsCode(x.arms, x.elseBlock, TRUE), p, q)
    [] x.do = "pass" -> Chain(E, PassCode(x.stmt, TRUE), p, q)
    [] x.do = "jump" -> ShownAt(g, p).kind = "goto" /\ q = Jumped(g, p)
    [] x.do = "reach" -> ShownAt(g, p) = x.action /\ q = Passed(g, p)
    [] x.do = "fork" ->
         /\ IsBranch(g, p, x.cond)
         /\ Chain(E, x.yes, Taken(g, p, TRUE), q)
         /\ Chain(E, x.no, Taken(g, p, FALSE), q)
    [] x.do = "round" ->
         /\ IsBranch(g, p, x.stmt.source)
         /\ Chain(E, RoundCode(x.stmt, x.counter, TRUE), Taken(g, p, TRUE), q)
         /\ q = Taken(g, p, FALSE)
    [] x.do = "bind" ->
         /\ \A i \in DOMAIN x.stmt.binders :
              ShownAt(g, After(p, i - 1)) = Bind(x.stmt.binders[i])
         /\ q = After(p, Len(x.stmt.binders))

(* A set of links that justifies itself, and the largest one.               *)
Simulation(u, g, R) ==
  \A x, p, q : <<x, p, q>> \in R => Shows(g, Links(u, g, R), x, p, q)

Same(u, g) == UNION {R \in SUBSET Triples(u, g) : Simulation(u, g, R)}

Leads(u, g) == Links(u, g, Same(u, g))

(* More links show no less.                                                 *)
LEMMA ShowsMonotone ==
  ASSUME NEW u, NEW g, NEW E, NEW F, E \subseteq F,
         NEW x \in Standing(u), NEW p, NEW q, Shows(g, E, x, p, q)
  PROVE  Shows(g, F, x, p, q)
<1>1. \A s, a, b : Chain(E, s, a, b) => Chain(F, s, a, b)
  BY ChainMonotone
<1>2. x.do \in {"stmt", "block", "arms", "pass", "jump", "reach", "fork", "round", "bind"}
  <2>1. CASE x \in Plain(u, TRUE)
    <3>1. CASE x = Jump
      BY <3>1 DEF Jump
    <3>2. CASE x # Jump
      BY <2>1, <3>2 DEF Plain
    <3> QED
      BY <3>1, <3>2
  <2>2. CASE x \in Tests(u, TRUE)
    BY <2>2 DEF Tests
  <2>3. CASE x \in Reaches(u)
    BY <2>3 DEF Reaches
  <2> QED
    BY <2>1, <2>2, <2>3 DEF Standing
<1>3. CASE x.do \in {"stmt", "block", "arms", "pass"}
  BY <1>1, <1>3 DEF Shows
<1>4. CASE x.do \in {"jump", "reach", "bind"}
  BY <1>4 DEF Shows
<1>5. CASE x.do = "fork"
  BY <1>1, <1>5 DEF Shows
<1>6. CASE x.do = "round"
  BY <1>1, <1>6 DEF Shows
<1> QED
  BY <1>2, <1>3, <1>4, <1>5, <1>6

(* The links of a graph are justified by themselves.                        *)
LEMMA SameIsSimulation ==
  ASSUME NEW u, NEW g
  PROVE  /\ Same(u, g) \subseteq Triples(u, g)
         /\ \A x, p, q : <<x, p, q>> \in Same(u, g) => Shows(g, Leads(u, g), x, p, q)
<1>1. Same(u, g) \subseteq Triples(u, g)
  BY DEF Same
<1>2. ASSUME NEW x, NEW p, NEW q, <<x, p, q>> \in Same(u, g)
      PROVE  Shows(g, Leads(u, g), x, p, q)
  <2>1. PICK R \in SUBSET Triples(u, g) : Simulation(u, g, R) /\ <<x, p, q>> \in R
    BY <1>2 DEF Same
  <2>2. Shows(g, Links(u, g, R), x, p, q)
    BY <2>1 DEF Simulation
  <2>3. R \subseteq Same(u, g)
    BY <2>1 DEF Same
  <2>4. Links(u, g, R) \subseteq Leads(u, g)
    BY <2>3 DEF Links, Leads
  <2>5. x \in Standing(u)
    BY <2>1 DEF Triples
  <2> QED
    BY <2>2, <2>4, <2>5, ShowsMonotone
<1> QED
  BY <1>1, <1>2

(* Coinduction: links that are justified by themselves and by links of the  *)
(* graph are links of the graph.                                            *)
LEMMA Coinduction ==
  ASSUME NEW u, NEW g, NEW T \in SUBSET Triples(u, g),
         \A x, p, q : <<x, p, q>> \in T
                        => Shows(g, Links(u, g, Same(u, g) \cup T), x, p, q)
  PROVE  T \subseteq Same(u, g)
<1> DEFINE R == Same(u, g) \cup T
<1>1. R \in SUBSET Triples(u, g)
  BY SameIsSimulation
<1>2. Leads(u, g) \subseteq Links(u, g, R)
  BY DEF Leads, Links
<1>3. ASSUME NEW x, NEW p, NEW q, <<x, p, q>> \in R
      PROVE  Shows(g, Links(u, g, R), x, p, q)
  <2>1. CASE <<x, p, q>> \in T
    BY <2>1
  <2>2. CASE <<x, p, q>> \in Same(u, g)
    <3>1. x \in Standing(u) /\ Shows(g, Leads(u, g), x, p, q)
      BY <2>2, SameIsSimulation DEF Triples
    <3> QED
      BY <1>2, <3>1, ShowsMonotone
  <2> QED
    BY <1>3, <2>1, <2>2
<1>4. Simulation(u, g, R)
  BY <1>3 DEF Simulation
<1> QED
  BY <1>1, <1>4 DEF Same

(* What the graph shows by its links is one of them.                        *)
LEMMA ShownIsLink ==
  ASSUME NEW u, NEW g, NEW x \in Standing(u), NEW p \in Places(g), NEW q \in Places(g),
         Shows(g, Leads(u, g), x, p, q)
  PROVE  <<x, p, q>> \in Same(u, g) /\ <<x, p, q>> \in Leads(u, g)
<1> DEFINE T == {<<x, p, q>>}
<1>1. T \in SUBSET Triples(u, g)
  BY DEF Triples
<1>2. Leads(u, g) \subseteq Links(u, g, Same(u, g) \cup T)
  BY DEF Leads, Links
<1>3. Shows(g, Links(u, g, Same(u, g) \cup T), x, p, q)
  BY <1>2, ShowsMonotone
<1>4. ASSUME NEW y, NEW a, NEW b, <<y, a, b>> \in T
      PROVE  Shows(g, Links(u, g, Same(u, g) \cup T), y, a, b)
  <2>1. y = x /\ a = p /\ b = q
    BY <1>4
  <2> QED
    BY <1>3, <2>1
<1>5. T \subseteq Same(u, g)
  BY <1>1, <1>4, Coinduction
<1> QED
  BY <1>5 DEF Leads, Links

(* Links begin and end in the graph.                                        *)
LEMMA LinkPlaces ==
  ASSUME NEW u, NEW g, NEW R \in SUBSET Triples(u, g), NEW x, NEW p, NEW q,
         <<x, p, q>> \in Links(u, g, R)
  PROVE  /\ p \in Places(g) /\ q \in Places(g)
         /\ \/ <<x, p, q>> \in R /\ x \in Standing(u)
            \/ x \in Family(u, FALSE) /\ p = q
BY DEF Links, Quiet, Triples

-----------------------------------------------------------------------------
(* What the graph must show for each statement to be one of its links.      *)

(* Evaluating and storing lead nowhere.                                     *)
LEMMA QuietLink ==
  ASSUME NEW u, NEW g, NEW R, NEW x \in Leaves(u), NEW p \in Places(g)
  PROVE  <<x, p, p>> \in Links(u, g, R)
<1>1. x \in Family(u, FALSE)
  BY DEF Family
<1> QED
  BY <1>1 DEF Links, Quiet

(* A jump leads to the start of the block the graph goes to.                *)
LEMMA JumpLink ==
  ASSUME NEW u, NEW g, NEW p \in Places(g), NEW n, <<n, 1>> \in Places(g),
         ShownAt(g, p) = Goto(n)
  PROVE  <<Jump, p, <<n, 1>> >> \in Same(u, g)
<1>1. Jump \in Standing(u) /\ Jump.do = "jump"
  BY DEF Standing, Plain, Jump
<1>2. ShownAt(g, p).kind = "goto" /\ Jumped(g, p) = <<n, 1>>
  BY DEF Goto, Jumped
<1>3. Shows(g, Leads(u, g), Jump, p, <<n, 1>>)
  BY <1>1, <1>2 DEF Shows
<1> QED
  BY <1>1, <1>3, ShownIsLink

(* An action the graph shows leads to the place after it.                   *)
LEMMA ReachLink ==
  ASSUME NEW u, NEW g, NEW p \in Places(g), NEW action, Reach(action) \in Reaches(u),
         ShownAt(g, p) = action, Passed(g, p) \in Places(g)
  PROVE  <<Reach(action), p, Passed(g, p)>> \in Same(u, g)
<1>1. Reach(action) \in Standing(u) /\ Reach(action).do = "reach" /\ Reach(action).action = action
  BY DEF Standing, Reach
<1>2. Shows(g, Leads(u, g), Reach(action), p, Passed(g, p))
  BY <1>1 DEF Shows
<1> QED
  BY <1>1, <1>2, ShownIsLink

(* A statement in one piece: an expression or an assignment.                *)
LEMMA AtomicLink ==
  ASSUME NEW u, NEW g, IsUnit(u), NEW s \in Stmt(u), NEW p \in Places(g),
         (s.kind = "expr" /\ s.expr.kind # "if") \/ s.kind = "assign",
         ShownAt(g, p) = Statement(s), After(p, 1) \in Places(g)
  PROVE  <<DoStmt(s, TRUE), p, After(p, 1)>> \in Same(u, g)
<1> DEFINE E == Leads(u, g)
           q == After(p, 1)
<1>1. <<Reach(Statement(s)), p, q>> \in E /\ Reach(Statement(s)) \in Family(u, TRUE)
  <2>1. Reach(Statement(s)) \in Reaches(u)
    BY DEF Reach, Reaches
  <2>2. Passed(g, p) = q
    BY DEF Passed, Statement
  <2>3. <<Reach(Statement(s)), p, q>> \in Same(u, g)
    BY <2>1, <2>2, ReachLink
  <2> QED
    BY <2>1, <2>3 DEF Leads, Links, Family
<1>2. Chain(E, <<Reach(Statement(s))>>, p, q) /\ <<Reach(Statement(s))>> \in Seq(Family(u, TRUE))
  BY <1>1, ChainOne, Single
<1>3. IsStmt(u, s)
  BY DEF IsUnit
<1>4. Marked(Statement(s), TRUE) = <<Reach(Statement(s))>>
  BY DEF Marked
<1>5. Chain(E, Code(s, TRUE), p, q)
  <2>1. CASE s.kind = "expr" /\ s.expr.kind # "if"
    <3>1. Code(s, TRUE) = <<Reach(Statement(s))>> \o <<Value(s.expr)>>
      BY <1>4, <2>1 DEF Code
    <3>2. s.expr \in Expr(u)
      BY <1>3, <2>1 DEF IsStmt
    <3>3. Value(s.expr) \in Leaves(u) /\ Value(s.expr) \in Family(u, TRUE)
      BY <3>2 DEF Value, Leaves, Family
    <3>4. Chain(E, <<Value(s.expr)>>, q, q) /\ <<Value(s.expr)>> \in Seq(Family(u, TRUE))
      BY <3>3, QuietLink, ChainOne, Single DEF Leads
    <3> QED
      BY <1>2, <3>1, <3>4, ChainConcat
  <2>2. CASE s.kind = "assign"
    <3>1. Code(s, TRUE) = <<Reach(Statement(s))>> \o <<Value(s.value), Store(s)>>
      BY <1>4, <2>2 DEF Code
    <3>2. s.value \in Expr(u)
      BY <1>3, <2>2 DEF IsStmt
    <3>3. {Value(s.value), Store(s)} \subseteq Leaves(u)
      BY <3>2 DEF Value, Store, Leaves
    <3>4. <<Value(s.value), Store(s)>> \in Seq(Leaves(u))
      BY <3>3, Pair
    <3>5. Chain(E, <<Value(s.value), Store(s)>>, q, q)
      BY <3>4, QuietLink, ChainQuiet DEF Leads
    <3>6. <<Value(s.value), Store(s)>> \in Seq(Family(u, TRUE))
      BY <3>3, Pair DEF Family
    <3> QED
      BY <1>2, <3>1, <3>5, <3>6, ChainConcat
  <2> QED
    BY <2>1, <2>2
<1>6. DoStmt(s, TRUE) \in Standing(u) /\ DoStmt(s, TRUE).do = "stmt" /\ DoStmt(s, TRUE).stmt = s
  BY DEF DoStmt, Standing, Plain
<1>7. Shows(g, E, DoStmt(s, TRUE), p, q)
  BY <1>5, <1>6 DEF Shows
<1> QED
  BY <1>6, <1>7, ShownIsLink

(* The arms of an `if`, from the first one on.                              *)
LEMMA ArmLink ==
  ASSUME NEW u, NEW g, NEW arms \in Seq(ArmsIn(u)), arms # <<>>,
         NEW elseBlock \in BlocksIn(u) \cup {Missing}, NEW p \in Places(g),
         NEW then, NEW next, NEW merge, NEW r,
         <<then, 1>> \in Places(g), <<next, 1>> \in Places(g), <<merge, 1>> \in Places(g),
         ShownAt(g, p) = Branch(Head(arms).cond, then, next),
         <<DoBlock(Head(arms).body, TRUE), <<then, 1>>, r>> \in Same(u, g),
         r \in Places(g), ShownAt(g, r) = Goto(merge),
         <<Arms(Tail(arms), elseBlock, TRUE), <<next, 1>>, <<merge, 1>> >> \in Same(u, g)
  PROVE  <<Arms(arms, elseBlock, TRUE), p, <<merge, 1>> >> \in Same(u, g)
<1> DEFINE E == Leads(u, g)
           q == <<merge, 1>>
           cond == Head(arms).cond
           body == DoBlock(Head(arms).body, TRUE)
           yes == <<body>> \o <<Jump>>
           no == <<Arms(Tail(arms), elseBlock, TRUE)>>
           test == Fork(cond, yes, no, TRUE)
<1>1. Head(arms) \in ArmsIn(u) /\ Tail(arms) \in Seq(ArmsIn(u))
  BY HeadTailProperties
<1>2. cond \in Conditions(u) /\ Head(arms).body \in BlocksIn(u)
  BY <1>1 DEF ArmsIn
<1>3. body \in Plain(u, TRUE) /\ Jump \in Plain(u, TRUE)
  BY <1>2 DEF DoBlock, Plain
<1>4. <<body>> \in Seq(Plain(u, TRUE)) /\ <<Jump>> \in Seq(Plain(u, TRUE))
  BY <1>3, Single
<1>5. Chain(E, yes, <<then, 1>>, q)
  <2>1. Chain(E, <<body>>, <<then, 1>>, r)
    BY ChainOne DEF Leads, Links
  <2>2. Chain(E, <<Jump>>, r, q)
    BY JumpLink, ChainOne DEF Leads, Links
  <2> QED
    BY <1>4, <2>1, <2>2, ChainConcat
<1>6. Chain(E, no, <<next, 1>>, q)
  BY ChainOne DEF Leads, Links
<1>7. yes \in Seq(Plain(u, TRUE)) /\ no \in Seq(Plain(u, TRUE))
  <2>1. Arms(Tail(arms), elseBlock, TRUE) \in Plain(u, TRUE)
    BY <1>1, ArmsTyped
  <2> QED
    BY <1>4, <2>1, Single, ConcatProperties
<1>8. Taken(g, p, TRUE) = <<then, 1>> /\ Taken(g, p, FALSE) = <<next, 1>> /\ IsBranch(g, p, cond)
  BY DEF Taken, IsBranch, Branch
<1>9. ArmsCode(arms, elseBlock, TRUE) = <<Value(cond), test>>
  BY DEF ArmsCode, Jumping
<1> HIDE DEF yes, no, cond, body
<1>10. test \in Standing(u) /\ test.do = "fork" /\ test.yes = yes /\ test.no = no /\ test.cond = cond
  BY <1>2, <1>7 DEF Fork, Standing, Tests
<1> HIDE DEF test, E
<1>11. Shows(g, E, test, p, q)
  BY <1>5, <1>6, <1>8, <1>10 DEF Shows
<1>12. <<test, p, q>> \in E
  BY <1>10, <1>11, ShownIsLink DEF E
<1>13. Value(cond) \in Leaves(u) /\ <<Value(cond), p, p>> \in E
  <2>1. Value(cond) \in Leaves(u)
    BY <1>2 DEF Value, Leaves, Conditions
  <2> QED
    BY <2>1, QuietLink DEF E, Leads
<1>14. Chain(E, <<Value(cond), test>>, p, q)
  <2> DEFINE S == Leaves(u) \cup Standing(u)
  <2>1. /\ <<Value(cond), test>> = <<Value(cond)>> \o <<test>>
        /\ <<Value(cond)>> \in Seq(S) /\ <<test>> \in Seq(S)
    BY <1>10, <1>13, Pair, Single
  <2>2. Chain(E, <<Value(cond)>>, p, p) /\ Chain(E, <<test>>, p, q)
    BY <1>12, <1>13, ChainOne
  <2> QED
    BY <2>1, <2>2, ChainConcat
<1> DEFINE all == Arms(arms, elseBlock, TRUE)
<1>15. /\ all \in Standing(u) /\ all.do = "arms"
       /\ all.arms = arms /\ all.elseBlock = elseBlock
  BY ArmsTyped DEF Standing, Arms
<1> HIDE DEF all
<1>16. Shows(g, E, all, p, q)
  BY <1>9, <1>14, <1>15 DEF Shows
<1> QED
  BY <1>15, <1>16, ShownIsLink DEF E, all

(* No arm is left: the else branch, or nothing, and on where the arms meet. *)
LEMMA ElseLink ==
  ASSUME NEW u, NEW g, NEW elseBlock \in BlocksIn(u) \cup {Missing},
         NEW p \in Places(g), NEW r \in Places(g), NEW merge, <<merge, 1>> \in Places(g),
         IF elseBlock = Missing THEN r = p
                                ELSE <<DoBlock(elseBlock, TRUE), p, r>> \in Same(u, g),
         ShownAt(g, r) = Goto(merge)
  PROVE  <<Arms(<<>>, elseBlock, TRUE), p, <<merge, 1>> >> \in Same(u, g)
<1> DEFINE E == Leads(u, g)
           q == <<merge, 1>>
           first == IF elseBlock = Missing THEN <<>> ELSE <<DoBlock(elseBlock, TRUE)>>
           all == Arms(<<>>, elseBlock, TRUE)
<1>1. Chain(E, first, p, r) /\ first \in Seq(Plain(u, TRUE))
  <2>1. CASE elseBlock = Missing
    BY <2>1, ChainEmpty, EmptySeq
  <2>2. CASE elseBlock # Missing
    <3>1. DoBlock(elseBlock, TRUE) \in Plain(u, TRUE)
      BY <2>2 DEF DoBlock, Plain
    <3>2. <<DoBlock(elseBlock, TRUE), p, r>> \in E
      BY <2>2 DEF Leads, Links
    <3> QED
      BY <2>2, <3>1, <3>2, ChainOne, Single
  <2> QED
    BY <2>1, <2>2
<1>2. Chain(E, <<Jump>>, r, q) /\ <<Jump>> \in Seq(Plain(u, TRUE))
  <2>1. Jump \in Plain(u, TRUE)
    BY DEF Plain
  <2> QED
    BY <2>1, JumpLink, ChainOne, Single DEF Leads, Links
<1>3. ArmsCode(<<>>, elseBlock, TRUE) = first \o <<Jump>>
  BY DEF ArmsCode, Jumping
<1> HIDE DEF first, E
<1>4. Chain(E, ArmsCode(<<>>, elseBlock, TRUE), p, q)
  BY <1>1, <1>2, <1>3, ChainConcat
<1>5. all \in Standing(u) /\ all.do = "arms" /\ all.arms = <<>> /\ all.elseBlock = elseBlock
  BY ArmsTyped, EmptySeq DEF Standing, Arms
<1> HIDE DEF all
<1>6. Shows(g, E, all, p, q)
  BY <1>4, <1>5 DEF Shows
<1> QED
  BY <1>5, <1>6, ShownIsLink DEF E, all

(* An `if` is its arms.                                                     *)
LEMMA IfLink ==
  ASSUME NEW u, NEW g, NEW s \in Stmt(u), s.kind = "expr", s.expr.kind = "if",
         NEW p \in Places(g), NEW q \in Places(g),
         <<Arms(s.expr.arms, s.expr.elseBlock, TRUE), p, q>> \in Same(u, g)
  PROVE  <<DoStmt(s, TRUE), p, q>> \in Same(u, g)
<1>1. Code(s, TRUE) = <<Arms(s.expr.arms, s.expr.elseBlock, TRUE)>>
  BY DEF Code
<1>2. Chain(Leads(u, g), Code(s, TRUE), p, q)
  BY <1>1, ChainOne DEF Leads, Links
<1>3. DoStmt(s, TRUE) \in Standing(u) /\ DoStmt(s, TRUE).do = "stmt" /\ DoStmt(s, TRUE).stmt = s
  BY DEF DoStmt, Standing, Plain
<1>4. Shows(g, Leads(u, g), DoStmt(s, TRUE), p, q)
  BY <1>2, <1>3 DEF Shows
<1> QED
  BY <1>3, <1>4, ShownIsLink

(* Two items in sequence.                                                   *)
LEMMA ChainTwo ==
  ASSUME NEW E, NEW S, NEW x \in S, NEW y \in S, NEW p, NEW r, NEW q,
         <<x, p, r>> \in E, <<y, r, q>> \in E
  PROVE  Chain(E, <<x, y>>, p, q)
<1>1. Chain(E, <<x>>, p, r) /\ Chain(E, <<y>>, r, q)
  BY ChainOne
<1>2. <<x>> \in Seq(S) /\ <<y>> \in Seq(S) /\ <<x, y>> = <<x>> \o <<y>>
  BY Single, Pair
<1> QED
  BY <1>1, <1>2, ChainConcat

(* A pre-test loop: the way in and the end of the body lead to the header.  *)
LEMMA WhileLink ==
  ASSUME NEW u, NEW g, IsUnit(u), NEW s \in Stmt(u), s.kind = "while", NEW p \in Places(g),
         NEW header, NEW body, NEW exit, NEW r \in Places(g),
         <<header, 1>> \in Places(g), <<body, 1>> \in Places(g), <<exit, 1>> \in Places(g),
         ShownAt(g, p) = Goto(header),
         ShownAt(g, <<header, 1>>) = Branch(s.cond, body, exit),
         <<DoBlock(s.body, TRUE), <<body, 1>>, r>> \in Same(u, g),
         ShownAt(g, r) = Goto(header)
  PROVE  <<DoStmt(s, TRUE), p, <<exit, 1>> >> \in Same(u, g)
<1> DEFINE q == <<exit, 1>>
           h == <<header, 1>>
           again == DoStmt(s, TRUE)
           inner == DoBlock(s.body, TRUE)
           yes == <<inner, again>>
           test == Fork(s.cond, yes, <<>>, TRUE)
           T == {<<again, p, q>>, <<again, r, q>>, <<test, h, q>>}
           F == Links(u, g, Same(u, g) \cup T)
<1>1. s.cond \in Conditions(u) /\ s.body \in BlocksIn(u)
  <2>1. IsStmt(u, s)
    BY DEF IsUnit
  <2> QED
    BY <2>1 DEF IsStmt
<1>2. inner \in Plain(u, TRUE) /\ again \in Plain(u, TRUE)
  BY <1>1 DEF DoBlock, DoStmt, Plain
<1>3. yes \in Seq(Plain(u, TRUE)) /\ <<>> \in Seq(Plain(u, TRUE))
  BY <1>2, Pair, EmptySeq
<1>4. Code(s, TRUE) = <<Jump>> \o <<Value(s.cond), test>>
  BY DEF Code, Jumping
<1>5. Taken(g, h, TRUE) = <<body, 1>> /\ Taken(g, h, FALSE) = q /\ IsBranch(g, h, s.cond)
  BY DEF Taken, IsBranch, Branch
<1>6. again \in Standing(u) /\ again.do = "stmt" /\ again.stmt = s
  BY <1>2 DEF Standing, DoStmt
<1> HIDE DEF again, yes, inner
<1>7. /\ test \in Standing(u) /\ test.do = "fork"
      /\ test.yes = yes /\ test.no = <<>> /\ test.cond = s.cond
  BY <1>1, <1>3 DEF Fork, Standing, Tests
<1> HIDE DEF test
<1>8. T \in SUBSET Triples(u, g)
  BY <1>6, <1>7 DEF Triples
<1>9. Same(u, g) \subseteq F /\ T \subseteq F
  BY DEF Links
<1>10. \A a \in Places(g) : \A x \in Leaves(u) : <<x, a, a>> \in F
  BY QuietLink
<1> HIDE DEF T, F
<1>11. Chain(F, yes, <<body, 1>>, q)
  <2>1. <<inner, <<body, 1>>, r>> \in F
    BY <1>9 DEF inner
  <2>2. <<again, r, q>> \in F
    BY <1>9 DEF T
  <2> QED
    BY <1>2, <2>1, <2>2, ChainTwo DEF yes, inner, again
<1>12. Chain(F, <<>>, q, q)
  BY ChainEmpty
<1>13. Shows(g, F, test, h, q)
  BY <1>5, <1>7, <1>11, <1>12 DEF Shows
<1>14. ASSUME NEW a \in Places(g), ShownAt(g, a) = Goto(header)
       PROVE  Shows(g, F, again, a, q)
  <2>1. Value(s.cond) \in Leaves(u)
    BY <1>1 DEF Value, Leaves, Conditions
  <2> DEFINE S == Leaves(u) \cup Standing(u)
  <2>2. <<Value(s.cond), h, h>> \in F /\ <<test, h, q>> \in F
    BY <1>9, <1>10, <2>1 DEF T
  <2>3. Chain(F, <<Value(s.cond), test>>, h, q) /\ <<Value(s.cond), test>> \in Seq(S)
    <3>1. Value(s.cond) \in S /\ test \in S
      BY <1>7, <2>1
    <3> HIDE DEF S
    <3> QED
      BY <2>2, <3>1, ChainTwo, Pair
  <2>4. Chain(F, <<Jump>>, a, h) /\ <<Jump>> \in Seq(S)
    <3>1. <<Jump, a, h>> \in F
      BY <1>9, <1>14, JumpLink
    <3>2. Jump \in S
      BY DEF Standing, Plain
    <3> QED
      BY <3>1, <3>2, ChainOne, Single
  <2>5. Chain(F, Code(s, TRUE), a, q)
    BY <1>4, <2>3, <2>4, ChainConcat
  <2> QED
    BY <1>6, <2>5 DEF Shows
<1>15. ASSUME NEW x, NEW a, NEW b, <<x, a, b>> \in T
       PROVE  Shows(g, F, x, a, b)
  <2>1. CASE x = again /\ b = q /\ a \in {p, r}
    BY <1>14, <2>1
  <2>2. CASE x = test /\ a = h /\ b = q
    BY <1>13, <2>2
  <2> QED
    BY <1>15, <2>1, <2>2 DEF T
<1>16. T \subseteq Same(u, g)
  BY <1>8, <1>15, Coinduction DEF F
<1> QED
  BY <1>16 DEF T, again

(* A post-test loop comes back to the first block of its body.              *)
LEMMA LoopLink ==
  ASSUME NEW u, NEW g, IsUnit(u), NEW s \in Stmt(u), s.kind = "loop", NEW p \in Places(g),
         NEW body, NEW exit, NEW r \in Places(g),
         <<body, 1>> \in Places(g), <<exit, 1>> \in Places(g),
         ShownAt(g, p) = Goto(body),
         <<DoBlock(s.body, TRUE), <<body, 1>>, r>> \in Same(u, g),
         ShownAt(g, r) = IF s.until THEN Branch(s.cond, exit, body)
                                    ELSE Branch(s.cond, body, exit)
  PROVE  <<DoStmt(s, TRUE), p, <<exit, 1>> >> \in Same(u, g)
<1> DEFINE q == <<exit, 1>>
           b == <<body, 1>>
           pass == Pass(s, TRUE)
           again == <<pass>>
           inner == DoBlock(s.body, TRUE)
           test == IF s.until THEN Fork(s.cond, <<>>, again, TRUE)
                              ELSE Fork(s.cond, again, <<>>, TRUE)
           T == {<<pass, b, q>>, <<test, r, q>>}
           F == Links(u, g, Same(u, g) \cup T)
<1>1. s.cond \in Conditions(u) /\ s.body \in BlocksIn(u) /\ s.until \in BOOLEAN
  <2>1. IsStmt(u, s)
    BY DEF IsUnit
  <2> QED
    BY <2>1 DEF IsStmt
<1>2. inner \in Plain(u, TRUE) /\ pass \in Plain(u, TRUE)
  BY <1>1 DEF DoBlock, Pass, Plain, Loops
<1>3. again \in Seq(Plain(u, TRUE)) /\ <<>> \in Seq(Plain(u, TRUE))
  BY <1>2, Single, EmptySeq
<1>4. /\ Code(s, TRUE) = <<Jump>> \o <<pass>>
      /\ PassCode(s, TRUE) = <<inner, Value(s.cond), test>>
  BY DEF Code, Jumping, PassCode
<1>5. /\ IsBranch(g, r, s.cond)
      /\ s.until => Taken(g, r, TRUE) = q /\ Taken(g, r, FALSE) = b
      /\ ~s.until => Taken(g, r, TRUE) = b /\ Taken(g, r, FALSE) = q
  BY <1>1 DEF Taken, IsBranch, Branch
<1>6. pass \in Standing(u) /\ pass.do = "pass" /\ pass.stmt = s
  BY <1>2 DEF Standing, Pass
<1> HIDE DEF pass, again, inner
<1>7. /\ test \in Standing(u) /\ test.do = "fork" /\ test.cond = s.cond
      /\ s.until => test.yes = <<>> /\ test.no = again
      /\ ~s.until => test.yes = again /\ test.no = <<>>
  BY <1>1, <1>3 DEF Fork, Standing, Tests
<1> HIDE DEF test
<1>8. T \in SUBSET Triples(u, g)
  BY <1>6, <1>7 DEF Triples
<1>9. Same(u, g) \subseteq F /\ T \subseteq F
  BY DEF Links
<1>10. \A a \in Places(g) : \A x \in Leaves(u) : <<x, a, a>> \in F
  BY QuietLink
<1> HIDE DEF T, F
<1>11. Chain(F, again, b, q)
  <2>1. <<pass, b, q>> \in F
    BY <1>9 DEF T
  <2> QED
    BY <2>1, ChainOne DEF again
<1>12. Chain(F, <<>>, q, q)
  BY ChainEmpty
<1>13. Shows(g, F, test, r, q)
  BY <1>1, <1>5, <1>7, <1>11, <1>12 DEF Shows
<1>14. Shows(g, F, pass, b, q)
  <2>1. Value(s.cond) \in Leaves(u)
    BY <1>1 DEF Value, Leaves, Conditions
  <2> DEFINE S == Leaves(u) \cup Standing(u)
  <2>2. <<Value(s.cond), r, r>> \in F /\ <<test, r, q>> \in F
    BY <1>9, <1>10, <2>1 DEF T
  <2>3. Chain(F, <<Value(s.cond), test>>, r, q) /\ <<Value(s.cond), test>> \in Seq(S)
    <3>1. Value(s.cond) \in S /\ test \in S
      BY <1>7, <2>1
    <3> HIDE DEF S
    <3> QED
      BY <2>2, <3>1, ChainTwo, Pair
  <2>4. Chain(F, <<inner>>, b, r) /\ inner \in S
    <3>1. <<inner, b, r>> \in F
      BY <1>9 DEF inner
    <3> QED
      BY <1>2, <3>1, ChainOne DEF inner, Standing
  <2>5. Chain(F, <<inner>> \o <<Value(s.cond), test>>, b, q)
    BY <2>3, <2>4, ChainConcat, Single
  <2>6. <<inner, Value(s.cond), test>> = <<inner>> \o <<Value(s.cond), test>>
    <3>1. Value(s.cond) \in S /\ test \in S
      BY <1>7, <2>1
    <3> HIDE DEF S
    <3> QED
      BY <2>4, <3>1, Triple
  <2> QED
    BY <1>4, <1>6, <2>5, <2>6 DEF Shows
<1>15. ASSUME NEW x, NEW a, NEW c, <<x, a, c>> \in T
       PROVE  Shows(g, F, x, a, c)
  <2>1. CASE x = pass /\ a = b /\ c = q
    BY <1>14, <2>1
  <2>2. CASE x = test /\ a = r /\ c = q
    BY <1>13, <2>2
  <2> QED
    BY <1>15, <2>1, <2>2 DEF T
<1>16. T \subseteq Same(u, g)
  BY <1>8, <1>15, Coinduction DEF F
<1> DEFINE all == DoStmt(s, TRUE)
<1>17. Chain(Leads(u, g), Code(s, TRUE), p, q)
  <2>1. Jump \in Standing(u)
    BY DEF Standing, Plain
  <2>2. <<Jump, p, b>> \in Leads(u, g) /\ <<pass, b, q>> \in Leads(u, g)
    BY <1>16, JumpLink DEF T, Leads, Links
  <2>3. <<Jump>> \in Seq(Standing(u)) /\ <<pass>> \in Seq(Standing(u))
    BY <1>6, <2>1, Single
  <2>4. Chain(Leads(u, g), <<Jump>>, p, b) /\ Chain(Leads(u, g), <<pass>>, b, q)
    BY <2>2, ChainOne
  <2> QED
    BY <1>4, <2>3, <2>4, ChainConcat
<1>18. all \in Standing(u) /\ all.do = "stmt" /\ all.stmt = s
  BY DEF DoStmt, Standing, Plain
<1> HIDE DEF all
<1>19. Shows(g, Leads(u, g), all, p, q)
  BY <1>17, <1>18 DEF Shows
<1> QED
  BY <1>18, <1>19, ShownIsLink DEF all

(* A `for`: the source is evaluated once, and each pass binds the loop      *)
(* variables first.                                                         *)
LEMMA CountedLink ==
  ASSUME NEW u, NEW g, IsUnit(u), NEW s \in Counted(u), NEW p \in Places(g),
         NEW header, NEW body, NEW exit, NEW r \in Places(g),
         After(p, 1) \in Places(g), <<header, 1>> \in Places(g), <<body, 1>> \in Places(g),
         After(<<body, 1>>, Len(s.binders)) \in Places(g), <<exit, 1>> \in Places(g),
         ShownAt(g, p) = Evaluate(s.source),
         ShownAt(g, After(p, 1)) = Goto(header),
         ShownAt(g, <<header, 1>>) = Branch(s.source, body, exit),
         \A i \in DOMAIN s.binders :
           ShownAt(g, After(<<body, 1>>, i - 1)) = Bind(s.binders[i]),
         <<DoBlock(s.body, TRUE), After(<<body, 1>>, Len(s.binders)), r>> \in Same(u, g),
         ShownAt(g, r) = Goto(header)
  PROVE  <<DoStmt(s, TRUE), p, <<exit, 1>> >> \in Same(u, g)
<1> DEFINE q == <<exit, 1>>
           h == <<header, 1>>
           b == <<body, 1>>
           bound == After(b, Len(s.binders))
           C == Counters(s.source)
           T == {<<Round(s, c, TRUE), h, q>> : c \in C}
           F == Links(u, g, Same(u, g) \cup T)
           binders == Binders(s, TRUE)
           inner == DoBlock(s.body, TRUE)
           pass == <<binders, inner, CloseScope>>
           S == Family(u, TRUE)
<1>1. s.source \in Expr(u) /\ s.body \in BlocksIn(u) /\ s \in Stmt(u) /\ s.kind = "for"
  <2>1. IsStmt(u, s) /\ s.kind = "for" /\ s \in Stmt(u)
    BY DEF IsUnit, Counted
  <2> QED
    BY <2>1 DEF IsStmt
<1>2. <<binders, b, bound>> \in Same(u, g) /\ binders \in S
  <2>1. binders \in Standing(u) /\ binders.do = "bind" /\ binders.stmt = s
    BY DEF Binders, Standing, Tests
  <2> HIDE DEF binders
  <2>2. Shows(g, Leads(u, g), binders, b, bound)
    BY <2>1 DEF Shows
  <2>3. binders \in S
    BY <2>1 DEF Standing, Family
  <2> QED
    BY <2>1, <2>2, <2>3, ShownIsLink
<1>3. <<inner, bound, r>> \in Same(u, g) /\ inner \in S
  BY <1>1 DEF DoBlock, Family, Plain
<1>4. CloseScope \in Leaves(u) /\ CloseScope \in S /\ Jump \in S
  BY DEF Leaves, Family, Plain
<1>5. Taken(g, h, TRUE) = b /\ Taken(g, h, FALSE) = q /\ IsBranch(g, h, s.source)
  BY DEF Taken, IsBranch, Branch
<1>6. \A c \in C : /\ Round(s, c, TRUE) \in Standing(u) /\ Round(s, c, TRUE) \in S
                     /\ Round(s, c, TRUE).do = "round" /\ Round(s, c, TRUE).stmt = s
                     /\ Round(s, c, TRUE).counter = c
  BY DEF Round, Standing, Family, Tests, Counters
<1>7. FirstCounter(s.source) \in C /\ \A c \in C : NextCounter(s.source, c) \in C
  <2>1. IsExpr(u, s.source)
    BY <1>1 DEF IsUnit
  <2> QED
    BY <2>1, CountersTyped
<1>8. \A c \in C : RoundCode(s, c, TRUE)
                       = (pass \o <<Jump>>) \o <<Round(s, NextCounter(s.source, c), TRUE)>>
  BY DEF RoundCode, Jumping
<1>9. T \in SUBSET Triples(u, g)
  <2> SUFFICES ASSUME NEW c \in C PROVE <<Round(s, c, TRUE), h, q>> \in Triples(u, g)
    OBVIOUS
  <2> QED
    BY <1>6 DEF Triples
<1>10. Same(u, g) \subseteq F /\ T \subseteq F
  BY DEF Links
<1>11. \A a \in Places(g) : <<CloseScope, a, a>> \in F
  BY <1>4, QuietLink
<1>12. \A c \in C : <<Round(s, c, TRUE), h, q>> \in T
  OBVIOUS
<1> HIDE DEF T, F, binders, inner, S, C, bound, b
<1>13. Chain(F, pass, b, r) /\ pass \in Seq(S)
  <2>1. Chain(F, <<inner, CloseScope>>, bound, r)
    BY <1>3, <1>4, <1>10, <1>11, ChainTwo
  <2>2. Chain(F, <<binders>>, b, bound)
    BY <1>2, <1>10, ChainOne
  <2>3. pass = <<binders>> \o <<inner, CloseScope>> /\ pass \in Seq(S)
    BY <1>2, <1>3, <1>4, Triple
  <2>4. <<binders>> \in Seq(S) /\ <<inner, CloseScope>> \in Seq(S)
    BY <1>2, <1>3, <1>4, Single, Pair
  <2> QED
    BY <2>1, <2>2, <2>3, <2>4, ChainConcat
<1> HIDE DEF pass
<1>14. Chain(F, pass \o <<Jump>>, b, h) /\ pass \o <<Jump>> \in Seq(S)
  <2>1. <<Jump, r, h>> \in F
    BY <1>10, JumpLink
  <2>2. Chain(F, <<Jump>>, r, h) /\ <<Jump>> \in Seq(S)
    BY <1>4, <2>1, ChainOne, Single
  <2> QED
    BY <1>13, <2>2, ChainConcat, ConcatProperties
<1>15. ASSUME NEW c \in C
       PROVE  Shows(g, F, Round(s, c, TRUE), h, q)
  <2> DEFINE next == Round(s, NextCounter(s.source, c), TRUE)
             this == Round(s, c, TRUE)
  <2>1. <<next, h, q>> \in F /\ next \in S
    BY <1>6, <1>7, <1>10, <1>12
  <2>2. Chain(F, <<next>>, h, q) /\ <<next>> \in Seq(S)
    BY <2>1, ChainOne, Single
  <2>3. Chain(F, RoundCode(s, c, TRUE), b, q)
    BY <1>8, <1>14, <2>2, ChainConcat
  <2>4. this.do = "round" /\ this.stmt = s /\ this.counter = c
    BY <1>6
  <2> HIDE DEF this, next
  <2>5. Shows(g, F, this, h, q)
    BY <1>5, <2>3, <2>4 DEF Shows
  <2> QED
    BY <2>5 DEF this
<1>16. ASSUME NEW x, NEW a, NEW c, <<x, a, c>> \in T
       PROVE  Shows(g, F, x, a, c)
  <2>1. PICK n \in C : x = Round(s, n, TRUE) /\ a = h /\ c = q
    BY <1>16 DEF T
  <2> QED
    BY <1>15, <2>1
<1>17. T \subseteq Same(u, g)
  BY <1>9, <1>16, Coinduction DEF F
<1> DEFINE E == Leads(u, g)
           mark == Reach(Evaluate(s.source))
           value == Value(s.source)
           round == Round(s, FirstCounter(s.source), TRUE)
           all == DoStmt(s, TRUE)
           p2 == After(p, 1)
<1>18. Code(s, TRUE) = ((<<mark>> \o <<value>>) \o <<Jump>>) \o <<round>>
  BY <1>1 DEF Code, Marked, Jumping
<1>19. <<mark, p, p2>> \in E /\ mark \in S
  <2>1. mark \in Reaches(u)
    BY <1>1 DEF Reach, Reaches
  <2>2. Passed(g, p) = p2
    BY DEF Passed, Evaluate
  <2>3. <<mark, p, p2>> \in Same(u, g)
    BY <2>1, <2>2, ReachLink
  <2> QED
    BY <2>1, <2>3 DEF Leads, Links, Family, S
<1>20. <<value, p2, p2>> \in E /\ value \in S
  <2>1. value \in Leaves(u)
    BY <1>1 DEF Value, Leaves
  <2> QED
    BY <2>1, QuietLink DEF Leads, S, Family
<1>21. <<Jump, p2, h>> \in E
  BY JumpLink DEF Leads, Links
<1>22. <<round, h, q>> \in E /\ round \in S
  <2>1. FirstCounter(s.source) \in C
    BY <1>7
  <2>2. <<round, h, q>> \in Same(u, g) /\ round \in S
    BY <1>6, <1>12, <1>17, <2>1
  <2> QED
    BY <2>2 DEF Leads, Links
<1>23. all \in Standing(u) /\ all.do = "stmt" /\ all.stmt = s
  BY <1>1 DEF DoStmt, Standing, Plain
<1> HIDE DEF E, mark, value, round, all, p2
<1>24. Chain(E, Code(s, TRUE), p, q)
  <2>1. /\ <<mark>> \in Seq(S) /\ <<value>> \in Seq(S)
        /\ <<Jump>> \in Seq(S) /\ <<round>> \in Seq(S)
    BY <1>4, <1>19, <1>20, <1>22, Single
  <2>2. /\ Chain(E, <<mark>>, p, p2) /\ Chain(E, <<value>>, p2, p2)
        /\ Chain(E, <<Jump>>, p2, h) /\ Chain(E, <<round>>, h, q)
    BY <1>19, <1>20, <1>21, <1>22, ChainOne
  <2>3. Chain(E, <<mark>> \o <<value>>, p, p2) /\ <<mark>> \o <<value>> \in Seq(S)
    BY <2>1, <2>2, ChainConcat, ConcatProperties
  <2>4. /\ Chain(E, (<<mark>> \o <<value>>) \o <<Jump>>, p, h)
        /\ (<<mark>> \o <<value>>) \o <<Jump>> \in Seq(S)
    BY <2>1, <2>2, <2>3, ChainConcat, ConcatProperties
  <2> QED
    BY <1>18, <2>1, <2>2, <2>4, ChainConcat
<1>25. Shows(g, E, all, p, q)
  BY <1>23, <1>24 DEF Shows
<1> QED
  BY <1>23, <1>25, ShownIsLink DEF E, all

-----------------------------------------------------------------------------
(* What a builder has to do.  In the finished graph, a thing to do leads    *)
(* from where the builder is before it to where the builder is after it.    *)

(* What a block may end with while it is built.                             *)
Terminators(u) ==
  {Exit} \cup {Goto(n) : n \in Nat} \cup {Return(e) : e \in Expr(u) \cup {Missing}}
    \cup [kind : {"branch"}, cond : Expr(u), thenBlock : Nat, elseBlock : Nat]

(* What there may be to build.                                              *)
BuildItems(u) ==
  [do : {"build"}, stmt : Stmt(u)]
    \cup [do : {"yield"}, expr : Expr(u)]
    \cup [do : {"test"}, arms : Seq(ArmsIn(u)), elseBlock : BlocksIn(u) \cup {Missing},
          merge : Nat]
    \cup [do : {"end"}, terminator : Terminators(u), next : Nat]

(* What the finished graph must have between p and q for x to be built      *)
(* there.                                                                   *)
Planned(u, g, x, p, q) ==
  CASE x.do = "build" -> <<DoStmt(x.stmt, TRUE), p, q>> \in Same(u, g)
    [] x.do = "yield" -> ShownAt(g, p) = Evaluate(x.expr) /\ q = After(p, 1)
    [] x.do = "test" ->
         /\ <<Arms(x.arms, x.elseBlock, TRUE), p, q>> \in Same(u, g)
         /\ q = <<x.merge, 1>>
    [] x.do = "end" -> ShownAt(g, p) = x.terminator /\ q = <<x.next, 1>>

Plan(u, g) ==
  {t \in BuildItems(u) \X Places(g) \X Places(g) : Planned(u, g, t[1], t[2], t[3])}

(* What it is to be in the plan of the build, term by term.                 *)
LEMMA PlanMember ==
  ASSUME NEW u, NEW g, NEW x, NEW p, NEW q
  PROVE  <<x, p, q>> \in Plan(u, g)
           <=> /\ x \in BuildItems(u) /\ p \in Places(g) /\ q \in Places(g)
               /\ Planned(u, g, x, p, q)
BY DEF Plan

(* Building statements one after another is running them.                   *)
LEMMA StmtsLink ==
  ASSUME NEW u, NEW g, NEW stmts \in Seq(Stmt(u)), NEW p, NEW q,
         Chain(Plan(u, g), [i \in DOMAIN stmts |-> ToBuild(stmts[i])], p, q)
  PROVE  Chain(Leads(u, g), Stmts(stmts, TRUE), p, q)
<1> DEFINE builds == [i \in DOMAIN stmts |-> ToBuild(stmts[i])]
           n == Len(stmts)
<1>1. n \in Nat /\ DOMAIN stmts = 1 .. n
  BY LenProperties
<1>2. Len(builds) = n /\ \A i \in 1 .. n : builds[i] = ToBuild(stmts[i])
  <2>1. builds = [i \in 1 .. n |-> ToBuild(stmts[i])]
    BY <1>1
  <2>2. DOMAIN builds = 1 .. n
    BY <1>1
  <2>3. \A i \in 1 .. n : ToBuild(stmts[i]) \in BuildItems(u)
    BY ElementOfSeq DEF ToBuild, BuildItems
  <2>4. builds \in [1 .. n -> BuildItems(u)]
    BY <2>1, <2>3
  <2> HIDE DEF builds
  <2>5. builds \in Seq(BuildItems(u))
    BY <1>1, <2>4, SeqDef
  <2>6. Len(builds) = n
    BY <1>1, <2>2, <2>5, LenProperties
  <2> QED
    BY <1>1, <2>6 DEF builds
<1>3. Len(Stmts(stmts, TRUE)) = n /\ \A i \in 1 .. n : Stmts(stmts, TRUE)[i] = DoStmt(stmts[i], TRUE)
  <2> DEFINE code == [i \in 1 .. n |-> DoStmt(stmts[i], TRUE)]
  <2>1. Stmts(stmts, TRUE) = code
    BY <1>1 DEF Stmts
  <2>2. code \in [1 .. n -> Plain(u, TRUE)]
    BY ElementOfSeq DEF DoStmt, Plain
  <2>3. DOMAIN code = 1 .. n
    OBVIOUS
  <2> HIDE DEF code
  <2>4. code \in Seq(Plain(u, TRUE))
    BY <1>1, <2>2, SeqDef
  <2>5. Len(code) = n
    BY <1>1, <2>3, <2>4, LenProperties
  <2> QED
    BY <2>1, <2>5 DEF code
<1> HIDE DEF builds, n
<1>4. PICK pos : /\ pos[1] = p /\ pos[n + 1] = q
                 /\ \A i \in 1 .. n : <<builds[i], pos[i], pos[i + 1]>> \in Plan(u, g)
  BY <1>2 DEF Chain, builds
<1>5. ASSUME NEW i \in 1 .. n
      PROVE  <<Stmts(stmts, TRUE)[i], pos[i], pos[i + 1]>> \in Leads(u, g)
  <2>1. Planned(u, g, ToBuild(stmts[i]), pos[i], pos[i + 1])
    BY <1>2, <1>4, PlanMember
  <2>2. <<DoStmt(stmts[i], TRUE), pos[i], pos[i + 1]>> \in Same(u, g)
    BY <2>1 DEF Planned, ToBuild
  <2> QED
    BY <1>3, <2>2 DEF Leads, Links
<1> QED
  BY <1>3, <1>4, <1>5 DEF Chain

(* What there is to do for a block.                                         *)
LEMMA BuildTyped ==
  ASSUME NEW u, NEW block \in BlocksIn(u)
  PROVE  /\ [i \in DOMAIN block.stmts |-> ToBuild(block.stmts[i])]
              \in Seq([do : {"build"}, stmt : Stmt(u)])
         /\ BuildBlock(block) \in Seq([do : {"build"}, stmt : Stmt(u)]
                                        \cup [do : {"yield"}, expr : Expr(u)])
         /\ BuildBlock(block) \in Seq(BuildItems(u))
<1> DEFINE Stmts1 == [do : {"build"}, stmt : Stmt(u)]
           S == Stmts1 \cup [do : {"yield"}, expr : Expr(u)]
           builds == [i \in DOMAIN block.stmts |-> ToBuild(block.stmts[i])]
           n == Len(block.stmts)
<1>1. block.stmts \in Seq(Stmt(u)) /\ block.result \in Expr(u) \cup {Missing}
  BY DEF BlocksIn
<1>2. n \in Nat /\ DOMAIN block.stmts = 1 .. n /\ \A i \in 1 .. n : block.stmts[i] \in Stmt(u)
  BY <1>1, LenProperties, ElementOfSeq
<1>3. builds \in [1 .. n -> Stmts1]
  BY <1>2 DEF ToBuild
<1> HIDE DEF builds, Stmts1, n
<1>4. builds \in Seq(Stmts1)
  BY <1>2, <1>3, SeqDef
<1>5. builds \in Seq(S)
  BY <1>4, SeqMonotonic
<1>6. (IF block.result = Missing THEN <<>> ELSE <<ToYield(block.result)>>) \in Seq(S)
  <2>1. CASE block.result = Missing
    BY <2>1, EmptySeq
  <2>2. CASE block.result # Missing
    <3>1. ToYield(block.result) \in S
      BY <1>1, <2>2 DEF ToYield
    <3> QED
      BY <2>2, <3>1, Single
  <2> QED
    BY <2>1, <2>2
<1>7. BuildBlock(block) \in Seq(S)
  BY <1>5, <1>6, ConcatProperties DEF BuildBlock, builds
<1>8. S \subseteq BuildItems(u)
  BY DEF BuildItems, Stmts1
<1>9. BuildBlock(block) \in Seq(BuildItems(u))
  BY <1>7, <1>8, SeqMonotonic
<1> QED
  BY <1>4, <1>7, <1>9 DEF builds, Stmts1

(* A block that was built runs from where it begins to where it ends.       *)
LEMMA BlockLink ==
  ASSUME NEW u, NEW g, NEW block \in BlocksIn(u), NEW p \in Places(g), NEW q,
         Chain(Plan(u, g), BuildBlock(block), p, q)
  PROVE  <<DoBlock(block, TRUE), p, q>> \in Same(u, g) /\ q \in Places(g)
<1> DEFINE E == Leads(u, g)
           builds == [i \in DOMAIN block.stmts |-> ToBuild(block.stmts[i])]
           last == IF block.result = Missing THEN <<>> ELSE <<ToYield(block.result)>>
           S == Family(u, TRUE)
           inner == Stmts(block.stmts, TRUE)
           rest == IF block.result = Missing THEN <<>>
                   ELSE <<Reach(Evaluate(block.result))>> \o <<Value(block.result)>>
           all == DoBlock(block, TRUE)
<1>1. block.stmts \in Seq(Stmt(u)) /\ block.result \in Expr(u) \cup {Missing}
  BY DEF BlocksIn
<1>2. q \in Places(g)
  <2>1. \A x, a, b : <<x, a, b>> \in Plan(u, g) => b \in Places(g)
    BY PlanMember
  <2>2. BuildBlock(block) \in Seq(BuildItems(u))
    BY BuildTyped
  <2> QED
    BY <2>1, <2>2, ChainStays
<1>3. PICK m : Chain(Plan(u, g), builds, p, m) /\ Chain(Plan(u, g), last, m, q)
  <2> DEFINE B == BuildItems(u)
  <2>1. builds \in Seq(B)
    <3>1. [do : {"build"}, stmt : Stmt(u)] \subseteq B
      BY DEF BuildItems
    <3> QED
      BY <3>1, BuildTyped, SeqMonotonic
  <2>2. last \in Seq(B)
    <3>1. CASE block.result = Missing
      BY <3>1, EmptySeq
    <3>2. CASE block.result # Missing
      <4>1. ToYield(block.result) \in B
        BY <1>1, <3>2 DEF ToYield, BuildItems
      <4> QED
        BY <3>2, <4>1, Single
    <3> QED
      BY <3>1, <3>2
  <2>3. BuildBlock(block) = builds \o last
    BY DEF BuildBlock
  <2> HIDE DEF builds, last, B
  <2> QED
    BY <2>1, <2>2, <2>3, ChainConcat
<1>4. Chain(E, inner, p, m) /\ inner \in Seq(S)
  BY <1>1, <1>3, StmtsLink, BodyTyped, FlatIsFamily
<1>5. Chain(E, rest, m, q) /\ rest \in Seq(S)
  <2>1. CASE block.result = Missing
    BY <1>3, <2>1, ChainEmpty, EmptySeq
  <2>2. CASE block.result # Missing
    <3> DEFINE e == block.result
    <3>1. <<ToYield(e), m, q>> \in Plan(u, g) /\ e \in Expr(u)
      BY <1>1, <1>3, <2>2, ChainOne
    <3>2. m \in Places(g) /\ Planned(u, g, ToYield(e), m, q)
      BY <3>1, PlanMember
    <3>3. ShownAt(g, m) = Evaluate(e) /\ q = After(m, 1)
      BY <3>2 DEF Planned, ToYield
    <3>4. Reach(Evaluate(e)) \in Reaches(u) /\ Value(e) \in Leaves(u)
      BY <3>1 DEF Reach, Reaches, Value, Leaves
    <3>5. Passed(g, m) = q
      BY <3>3 DEF Passed, Evaluate
    <3>6. <<Reach(Evaluate(e)), m, q>> \in E
      BY <1>2, <3>2, <3>3, <3>4, <3>5, ReachLink DEF Leads, Links
    <3>7. <<Value(e), q, q>> \in E
      BY <1>2, <3>4, QuietLink DEF Leads
    <3>8. <<Reach(Evaluate(e))>> \in Seq(S) /\ <<Value(e)>> \in Seq(S)
      BY <3>4, Single DEF Family
    <3>9. Chain(E, <<Reach(Evaluate(e))>>, m, q) /\ Chain(E, <<Value(e)>>, q, q)
      BY <3>6, <3>7, ChainOne
    <3>10. rest = <<Reach(Evaluate(e))>> \o <<Value(e)>>
      BY <2>2
    <3> QED
      BY <3>8, <3>9, <3>10, ChainConcat, ConcatProperties
  <2> QED
    BY <2>1, <2>2
<1>6. Body(block, TRUE) = inner \o rest
  BY DEF Body, Marked
<1>7. CloseScope \in Leaves(u) /\ CloseScope \in S
  BY DEF Leaves, Family
<1>8. Chain(E, <<CloseScope>>, q, q) /\ <<CloseScope>> \in Seq(S)
  BY <1>2, <1>7, QuietLink, ChainOne, Single DEF Leads
<1> HIDE DEF inner, rest, E, S
<1>9. Chain(E, Body(block, TRUE), p, q) /\ Body(block, TRUE) \in Seq(S)
  BY <1>4, <1>5, <1>6, ChainConcat, ConcatProperties
<1>10. Chain(E, Body(block, TRUE) \o <<CloseScope>>, p, q)
  BY <1>8, <1>9, ChainConcat
<1>11. all \in Standing(u) /\ all.do = "block" /\ all.block = block
  BY DEF DoBlock, Standing, Plain
<1> HIDE DEF all
<1>12. Shows(g, E, all, p, q)
  BY <1>10, <1>11 DEF Shows
<1> QED
  BY <1>2, <1>11, <1>12, ShownIsLink DEF E, all

-----------------------------------------------------------------------------
(* Builders.  The blocks a builder will go on in later are those that what  *)
(* it has to do waits for, each of them once; they are empty until then.    *)

(* What the blocks of a graph consist of.                                   *)
LoopVariables(u) == UNION {ToSet(s.binders) : s \in Counted(u)}

ShownActions(u) ==
  [kind : {"statement"}, stmt : Stmt(u)]
    \cup [kind : {"evaluate"}, expr : Expr(u)]
    \cup [kind : {"bind"}, sym : LoopVariables(u)]

Records(u) == [actions : Seq(ShownActions(u)), terminator : Terminators(u)]

Untouched == [actions |-> <<>>, terminator |-> Exit]

(* Block c, as blocks are numbered from 0.                                  *)
Nth(blocks, c) == blocks[c + 1]

(* How taking an item from what there is to do changes what it waits for.   *)
Awaited(u) ==
  {t \in BuildItems(u) \X (SUBSET Nat) \X (SUBSET Nat) :
     CASE t[1].do = "test" -> t[1].merge \in t[2] /\ t[3] = t[2] \ {t[1].merge}
       [] t[1].do = "end" -> t[1].next \in t[2] /\ t[3] = t[2] \ {t[1].next}
       [] t[1].do \in {"build", "yield"} -> t[3] = t[2]}

(* A builder is fit to go on: all that is left has its form, and A are the  *)
(* blocks that wait for control, empty as yet.                              *)
Fits(u, b, A) ==
  /\ b.todo \in Seq(BuildItems(u))
  /\ b.blocks \in Seq(Records(u))
  /\ b.current \in 0 .. Len(b.blocks) - 1
  /\ A \subseteq (0 .. Len(b.blocks) - 1) \ {b.current}
  /\ \A c \in A : Nth(b.blocks, c).actions = <<>>
  /\ Chain(Awaited(u), b.todo, A, {})

(* Where the builder is: after the last action of the block control is in.  *)
Here(b) == <<b.current, Len(Nth(b.blocks, b.current).actions) + 1>>

(* The finished graph has the blocks that are done as they are, and what    *)
(* was pushed to the current one.                                           *)
Framed(u, b, A, g) ==
  /\ g.blocks \in Seq(Records(u))
  /\ Len(b.blocks) <= Len(g.blocks)
  /\ \A c \in 0 .. Len(b.blocks) - 1 :
        c \notin A /\ c # b.current => Nth(g.blocks, c) = Nth(b.blocks, c)
  /\ Len(Nth(b.blocks, b.current).actions) <= Len(Nth(g.blocks, b.current).actions)
  /\ \A i \in 1 .. Len(Nth(b.blocks, b.current).actions) :
        Nth(g.blocks, b.current).actions[i] = Nth(b.blocks, b.current).actions[i]

(* A step that may be taken: if what there is to do after it leads through  *)
(* a finished graph, so did what there was to do before it.                 *)
Stepping(u, b, A, c) ==
  \E B : /\ Fits(u, c, B)
         /\ \A g, q : Framed(u, c, B, g) /\ Chain(Plan(u, g), c.todo, Here(c), q)
                        => Framed(u, b, A, g) /\ Chain(Plan(u, g), b.todo, Here(b), q)

(* What the three operations on blocks do.                                  *)
LEMMA AddedBlocks ==
  ASSUME NEW u, NEW blocks \in Seq(Records(u)), NEW n \in Nat
  PROVE  /\ Added(blocks, n) \in Seq(Records(u))
         /\ Len(Added(blocks, n)) = Len(blocks) + n
         /\ \A c \in 0 .. Len(blocks) - 1 : Nth(Added(blocks, n), c) = Nth(blocks, c)
         /\ \A i \in 0 .. n - 1 : Nth(Added(blocks, n), Len(blocks) + i) = Untouched
<1> DEFINE new == [i \in 1 .. n |-> Untouched]
           m == Len(blocks)
           all == blocks \o new
<1>1. Untouched \in Records(u)
  BY EmptySeq DEF Untouched, Records, Terminators
<1>2. new \in [1 .. n -> Records(u)] /\ DOMAIN new = 1 .. n /\ \A i \in 1 .. n : new[i] = Untouched
  BY <1>1
<1>3. Added(blocks, n) = all
  BY DEF Added, Untouched
<1> HIDE DEF new
<1>4. new \in Seq(Records(u)) /\ m \in Nat
  BY <1>2, SeqDef, LenProperties
<1>5. Len(new) = n
  BY <1>2, <1>4, LenProperties
<1>6. /\ all \in Seq(Records(u)) /\ Len(all) = m + n
      /\ \A i \in 1 .. m + n : all[i] = IF i <= m THEN blocks[i] ELSE new[i - m]
  BY <1>4, <1>5, ConcatProperties
<1> HIDE DEF all, m
<1>7. \A c \in 0 .. m - 1 : Nth(all, c) = Nth(blocks, c)
  BY <1>4, <1>6 DEF Nth
<1>8. ASSUME NEW i \in 0 .. n - 1 PROVE Nth(all, m + i) = Untouched
  <2>1. /\ m + i + 1 \in 1 .. m + n /\ ~(m + i + 1 <= m) /\ m + i + 1 - m = i + 1
        /\ i + 1 \in 1 .. n
    BY <1>4
  <2> QED
    BY <1>2, <1>4, <1>6, <2>1 DEF Nth
<1> QED
  BY <1>3, <1>6, <1>7, <1>8 DEF m

(* Blocks are new where block c of them ends with t instead.                *)
IsTerminated(u, blocks, c, t, new) ==
  /\ new \in Seq(Records(u)) /\ Len(new) = Len(blocks)
  /\ Nth(new, c) = [actions |-> Nth(blocks, c).actions, terminator |-> t]
  /\ \A d \in 0 .. Len(blocks) - 1 : d # c => Nth(new, d) = Nth(blocks, d)

(* A block is terminated, and keeps its actions.                            *)
LEMMA TerminatedBlocks ==
  ASSUME NEW u, NEW blocks \in Seq(Records(u)), NEW c \in 0 .. Len(blocks) - 1,
         NEW t \in Terminators(u)
  PROVE  IsTerminated(u, blocks, c, t, Terminate(blocks, c, t))
<1> DEFINE new == [actions |-> Nth(blocks, c).actions, terminator |-> t]
<1>1. Len(blocks) \in Nat /\ c + 1 \in 1 .. Len(blocks) /\ DOMAIN blocks = 1 .. Len(blocks)
  BY LenProperties
<1>2. Nth(blocks, c) \in Records(u)
  BY <1>1, ElementOfSeq DEF Nth
<1>3. new \in Records(u)
  BY <1>2 DEF Records
<1>4. [Nth(blocks, c) EXCEPT !.terminator = t] = new
  BY <1>2 DEF Records
<1>5. Terminate(blocks, c, t) = [blocks EXCEPT ![c + 1] = new]
  BY <1>1, <1>4 DEF Terminate, Nth
<1> HIDE DEF new
<1>6. /\ Terminate(blocks, c, t) \in Seq(Records(u))
      /\ Len(Terminate(blocks, c, t)) = Len(blocks)
      /\ \A j \in 1 .. Len(blocks) :
           Terminate(blocks, c, t)[j] = IF j = c + 1 THEN new ELSE blocks[j]
  BY <1>1, <1>3, <1>5, ExceptSeq
<1>7. \A d \in 0 .. Len(blocks) - 1 : d + 1 \in 1 .. Len(blocks) /\ (d # c => d + 1 # c + 1)
  BY <1>1
<1> QED
  BY <1>1, <1>6, <1>7 DEF new, Nth, IsTerminated

(* Blocks are new where block c of them has the actions as added.           *)
IsPushed(u, blocks, c, as, new) ==
  /\ new \in Seq(Records(u)) /\ Len(new) = Len(blocks)
  /\ Nth(new, c)
       = [actions |-> Nth(blocks, c).actions \o as, terminator |-> Nth(blocks, c).terminator]
  /\ \A d \in 0 .. Len(blocks) - 1 : d # c => Nth(new, d) = Nth(blocks, d)

(* Actions are added to those of a block.                                   *)
LEMMA PushedBlocks ==
  ASSUME NEW u, NEW blocks \in Seq(Records(u)), NEW c \in 0 .. Len(blocks) - 1,
         NEW as \in Seq(ShownActions(u))
  PROVE  IsPushed(u, blocks, c, as, Push(blocks, c, as))
<1> DEFINE new == [actions |-> Nth(blocks, c).actions \o as,
                   terminator |-> Nth(blocks, c).terminator]
<1>1. Len(blocks) \in Nat /\ c + 1 \in 1 .. Len(blocks) /\ DOMAIN blocks = 1 .. Len(blocks)
  BY LenProperties
<1>2. Nth(blocks, c) \in Records(u)
  BY <1>1, ElementOfSeq DEF Nth
<1>3. new \in Records(u)
  <2>1. Nth(blocks, c).actions \in Seq(ShownActions(u))
    BY <1>2 DEF Records
  <2>2. Nth(blocks, c).actions \o as \in Seq(ShownActions(u))
    BY <2>1, ConcatProperties
  <2> QED
    BY <1>2, <2>2 DEF Records
<1>4. [Nth(blocks, c) EXCEPT !.actions = @ \o as] = new
  <2> DEFINE r == Nth(blocks, c)
             all == r.actions \o as
  <2>1. [r EXCEPT !.actions = @ \o as] = [r EXCEPT !.actions = all]
    OBVIOUS
  <2> HIDE DEF all, r
  <2>2. [r EXCEPT !.actions = all] = [actions |-> all, terminator |-> r.terminator]
    BY <1>2 DEF Records, r, Nth
  <2> QED
    BY <2>1, <2>2 DEF all, r
<1>5. Push(blocks, c, as) = [blocks EXCEPT ![c + 1] = new]
  BY <1>1, <1>4 DEF Push, Nth
<1> HIDE DEF new
<1>6. /\ Push(blocks, c, as) \in Seq(Records(u))
      /\ Len(Push(blocks, c, as)) = Len(blocks)
      /\ \A j \in 1 .. Len(blocks) :
           Push(blocks, c, as)[j] = IF j = c + 1 THEN new ELSE blocks[j]
  BY <1>1, <1>3, <1>5, ExceptSeq
<1>7. \A d \in 0 .. Len(blocks) - 1 : d + 1 \in 1 .. Len(blocks) /\ (d # c => d + 1 # c + 1)
  BY <1>1
<1> QED
  BY <1>1, <1>6, <1>7 DEF new, Nth, IsPushed

(* What a graph shows along a block.                                        *)
LEMMA BlockShown ==
  ASSUME NEW u, NEW g, g.blocks \in Seq(Records(u)), NEW c \in 0 .. Len(g.blocks) - 1
  PROVE  /\ Len(Nth(g.blocks, c).actions) \in Nat
         /\ Nth(g.blocks, c).actions \in Seq(ShownActions(u))
         /\ \A i \in 1 .. Len(Nth(g.blocks, c).actions) + 1 : <<c, i>> \in Places(g)
         /\ \A i \in 1 .. Len(Nth(g.blocks, c).actions) :
              ShownAt(g, <<c, i>>) = Nth(g.blocks, c).actions[i]
         /\ ShownAt(g, <<c, Len(Nth(g.blocks, c).actions) + 1>>) = Nth(g.blocks, c).terminator
<1> DEFINE actions == Nth(g.blocks, c).actions
           n == Len(actions)
<1>1. Len(g.blocks) \in Nat /\ c + 1 \in 1 .. Len(g.blocks) /\ c \in Nat
  BY LenProperties
<1>2. Nth(g.blocks, c) \in Records(u)
  BY <1>1, ElementOfSeq DEF Nth
<1>3. actions \in Seq(ShownActions(u)) /\ n \in Nat
  BY <1>2, LenProperties DEF Records
<1>4. \A i \in 1 .. n + 1 : <<c, i>> \in Places(g)
  BY <1>1, <1>3 DEF Places, Nth
<1>5. \A i \in 1 .. n : ShownAt(g, <<c, i>>) = actions[i]
  BY <1>3 DEF ShownAt, Nth
<1>6. ShownAt(g, <<c, n + 1>>) = Nth(g.blocks, c).terminator
  <2>1. ~(n + 1 <= n)
    BY <1>3
  <2> QED
    BY <2>1 DEF ShownAt, Nth
<1> QED
  BY <1>3, <1>4, <1>5, <1>6

(* A finished graph that frames a builder frames the one before it.         *)
LEMMA FramedBack ==
  ASSUME NEW u, NEW b, NEW A, Fits(u, b, A), NEW c, NEW B, Fits(u, c, B),
         Len(b.blocks) <= Len(c.blocks),
         \A d \in 0 .. Len(b.blocks) - 1 : d # b.current => Nth(c.blocks, d) = Nth(b.blocks, d),
         Len(Nth(b.blocks, b.current).actions) <= Len(Nth(c.blocks, b.current).actions),
         \A i \in 1 .. Len(Nth(b.blocks, b.current).actions) :
           Nth(c.blocks, b.current).actions[i] = Nth(b.blocks, b.current).actions[i],
         b.current \notin B,
         \A d \in 0 .. Len(b.blocks) - 1 : d \in B \/ d = c.current => d \in A \/ d = b.current,
         NEW g, Framed(u, c, B, g)
  PROVE  Framed(u, b, A, g)
<1> DEFINE cur == b.current
           was == Nth(b.blocks, cur).actions
           is == Nth(c.blocks, cur).actions
           shall == Nth(g.blocks, cur).actions
<1>1. Len(b.blocks) \in Nat /\ Len(c.blocks) \in Nat /\ Len(g.blocks) \in Nat
  BY LenProperties DEF Fits, Framed
<1>2. cur \in 0 .. Len(b.blocks) - 1 /\ cur \in 0 .. Len(c.blocks) - 1
  BY <1>1 DEF Fits
<1>3. Len(b.blocks) <= Len(g.blocks) /\ cur \in 0 .. Len(g.blocks) - 1
  BY <1>1, <1>2 DEF Framed
<1>4. Len(was) \in Nat /\ Len(is) \in Nat /\ Len(shall) \in Nat
  <2>1. /\ Nth(b.blocks, cur) \in Records(u) /\ Nth(c.blocks, cur) \in Records(u)
        /\ Nth(g.blocks, cur) \in Records(u)
    <3>1. /\ cur + 1 \in 1 .. Len(b.blocks) /\ cur + 1 \in 1 .. Len(c.blocks)
          /\ cur + 1 \in 1 .. Len(g.blocks)
      BY <1>1, <1>2, <1>3
    <3> QED
      BY <3>1, ElementOfSeq DEF Fits, Framed, Nth
  <2> QED
    BY <2>1, LenProperties DEF Records
<1>5. \A d \in 0 .. Len(b.blocks) - 1 : d \notin A /\ d # cur => Nth(g.blocks, d) = Nth(b.blocks, d)
  <2> SUFFICES ASSUME NEW d \in 0 .. Len(b.blocks) - 1, d \notin A, d # cur
               PROVE  Nth(g.blocks, d) = Nth(b.blocks, d)
    OBVIOUS
  <2>1. d \notin B /\ d # c.current /\ d \in 0 .. Len(c.blocks) - 1
    BY <1>1
  <2> QED
    BY <2>1 DEF Framed
<1>6. Len(is) <= Len(shall) /\ \A i \in 1 .. Len(is) : shall[i] = is[i]
  <2>1. CASE cur = c.current
    BY <2>1 DEF Framed
  <2>2. CASE cur # c.current
    <3>1. shall = is
      BY <1>2, <2>2 DEF Framed
    <3> QED
      BY <1>4, <3>1
  <2> QED
    BY <2>1, <2>2
<1>7. Len(was) <= Len(shall) /\ \A i \in 1 .. Len(was) : shall[i] = was[i]
  <2>1. Len(was) <= Len(is) /\ \A i \in 1 .. Len(was) : is[i] = was[i]
    OBVIOUS
  <2>2. \A i \in 1 .. Len(was) : i \in 1 .. Len(is)
    BY <1>4, <2>1
  <2> HIDE DEF was, is, shall
  <2> QED
    BY <1>4, <1>6, <2>1, <2>2
<1> QED
  BY <1>3, <1>5, <1>7 DEF Framed

(* A block, and the end of it: what this waits for, and what it shows.      *)
LEMMA BlockThenEnd ==
  ASSUME NEW u, NEW todos \in Seq([do : {"build"}, stmt : Stmt(u)]
                                    \cup [do : {"yield"}, expr : Expr(u)]),
         NEW t \in Terminators(u), NEW next \in Nat, NEW rest \in Seq(BuildItems(u)),
         NEW B \in SUBSET Nat, next \in B, Chain(Awaited(u), rest, B \ {next}, {})
  PROVE  LET all == todos \o <<ToEnd(t, next)>> \o rest IN
         /\ all \in Seq(BuildItems(u))
         /\ Chain(Awaited(u), all, B, {})
         /\ \A g : \A p \in Places(g) : \A q :
              Chain(Plan(u, g), all, p, q)
                => \E r \in Places(g) :
                     /\ Chain(Plan(u, g), todos, p, r)
                     /\ ShownAt(g, r) = t
                     /\ <<next, 1>> \in Places(g)
                     /\ Chain(Plan(u, g), rest, <<next, 1>>, q)
<1> DEFINE S == [do : {"build"}, stmt : Stmt(u)] \cup [do : {"yield"}, expr : Expr(u)]
           I == BuildItems(u)
           end == ToEnd(t, next)
           some == todos \o <<end>>
           all == some \o rest
<1>1. S \subseteq I /\ todos \in Seq(I)
  <2>1. S \subseteq I
    BY DEF BuildItems
  <2> QED
    BY <2>1, SeqMonotonic
<1>2. end \in I /\ end.do = "end" /\ end.next = next /\ end.terminator = t
  BY DEF ToEnd, BuildItems
<1>3. <<end>> \in Seq(I)
  BY <1>2, Single
<1>4. some \in Seq(I) /\ all \in Seq(I)
  BY <1>1, <1>3, ConcatProperties
<1>5. Chain(Awaited(u), todos, B, B)
  <2>1. \A x \in S : <<x, B, B>> \in Awaited(u)
    BY <1>1 DEF Awaited
  <2> QED
    BY <2>1, ChainQuiet
<1> HIDE DEF S, I, end
<1>6. Chain(Awaited(u), all, B, {})
  <2>1. <<end, B, B \ {next}>> \in Awaited(u)
    BY <1>2 DEF Awaited, I
  <2>2. Chain(Awaited(u), <<end>>, B, B \ {next})
    BY <2>1, ChainOne
  <2>3. Chain(Awaited(u), some, B, B \ {next})
    BY <1>1, <1>3, <1>5, <2>2, ChainConcat
  <2> HIDE DEF some
  <2> QED
    BY <1>4, <2>3, ChainConcat DEF I
<1>7. ASSUME NEW g, NEW p \in Places(g), NEW q, Chain(Plan(u, g), all, p, q)
      PROVE  \E r \in Places(g) :
               /\ Chain(Plan(u, g), todos, p, r)
               /\ ShownAt(g, r) = t
               /\ <<next, 1>> \in Places(g)
               /\ Chain(Plan(u, g), rest, <<next, 1>>, q)
  <2>1. PICK m : Chain(Plan(u, g), some, p, m) /\ Chain(Plan(u, g), rest, m, q)
    <3> HIDE DEF some
    <3> QED
      BY <1>4, <1>7, ChainConcat DEF I
  <2>2. PICK r : Chain(Plan(u, g), todos, p, r) /\ Chain(Plan(u, g), <<end>>, r, m)
    BY <1>1, <1>3, <2>1, ChainConcat
  <2>3. <<end, r, m>> \in Plan(u, g)
    BY <2>2, ChainOne
  <2>4. r \in Places(g) /\ m \in Places(g) /\ Planned(u, g, end, r, m)
    BY <2>3, PlanMember
  <2>5. ShownAt(g, r) = t /\ m = <<next, 1>>
    BY <1>2, <2>4 DEF Planned
  <2> QED
    BY <2>1, <2>2, <2>4, <2>5
<1> QED
  BY <1>4, <1>6, <1>7 DEF I, end

-----------------------------------------------------------------------------
(* One step of a builder for each thing there is to do.                     *)

(* What the first thing to do waits for, and the others.                    *)
LEMMA FirstToDo ==
  ASSUME NEW u, NEW b, NEW A, Fits(u, b, A), b.todo # <<>>
  PROVE  LET x == Head(b.todo)
             rest == Tail(b.todo)
         IN  /\ x \in BuildItems(u) /\ rest \in Seq(BuildItems(u)) /\ A \in SUBSET Nat
             /\ x.do \in {"build", "yield"} => Chain(Awaited(u), rest, A, {})
             /\ x.do = "test"
                  => x.merge \in A /\ Chain(Awaited(u), rest, A \ {x.merge}, {})
             /\ x.do = "end"
                  => x.next \in A /\ Chain(Awaited(u), rest, A \ {x.next}, {})
             /\ \A g, p, q, r :
                  /\ <<x, p, r>> \in Plan(u, g)
                  /\ Chain(Plan(u, g), rest, r, q)
                  => Chain(Plan(u, g), b.todo, p, q)
             /\ Len(b.blocks) \in Nat /\ b.current \in Nat
             /\ Len(Nth(b.blocks, b.current).actions) \in Nat
             /\ Nth(b.blocks, b.current) \in Records(u)
<1> DEFINE x == Head(b.todo)
           rest == Tail(b.todo)
<1>1. b.todo \in Seq(BuildItems(u)) /\ Chain(Awaited(u), b.todo, A, {})
  BY DEF Fits
<1>2. x \in BuildItems(u) /\ rest \in Seq(BuildItems(u))
  BY <1>1, HeadTailProperties
<1>3. PICK B : <<x, A, B>> \in Awaited(u) /\ Chain(Awaited(u), rest, B, {})
  BY <1>1, ChainHead
<1>4. \A g, p, q, r :
        <<x, p, r>> \in Plan(u, g) /\ Chain(Plan(u, g), rest, r, q)
          => Chain(Plan(u, g), b.todo, p, q)
  BY <1>1, ChainHead
<1>5. Len(b.blocks) \in Nat /\ b.current \in 0 .. Len(b.blocks) - 1
  BY LenProperties DEF Fits
<1>6. b.current + 1 \in 1 .. Len(b.blocks) /\ b.current \in Nat
  BY <1>5
<1>7. Nth(b.blocks, b.current) \in Records(u)
  BY <1>6, ElementOfSeq DEF Fits, Nth
<1>8. Len(Nth(b.blocks, b.current).actions) \in Nat
  BY <1>7, LenProperties DEF Records
<1> HIDE DEF x, rest
<1>9. /\ A \in SUBSET Nat
      /\ x.do \in {"build", "yield"} => B = A
      /\ x.do = "test" => x.merge \in A /\ B = A \ {x.merge}
      /\ x.do = "end" => x.next \in A /\ B = A \ {x.next}
  BY <1>3 DEF Awaited
<1> QED
  BY <1>2, <1>3, <1>4, <1>5, <1>6, <1>7, <1>8, <1>9 DEF x, rest

(* An action is pushed to the current block.                                *)
LEMMA StepPush ==
  ASSUME NEW u, NEW b, NEW A, Fits(u, b, A), b.todo # <<>>,
         Head(b.todo).do \in {"build", "yield"}, NEW a \in ShownActions(u),
         \A g : \A p \in Places(g) :
           ShownAt(g, p) = a /\ After(p, 1) \in Places(g)
             => Planned(u, g, Head(b.todo), p, After(p, 1))
  PROVE  Stepping(u, b, A, Builder(Tail(b.todo), Push(b.blocks, b.current, <<a>>), b.current))
<1> DEFINE x == Head(b.todo)
           rest == Tail(b.todo)
           cur == b.current
           n == Len(b.blocks)
           acts == Nth(b.blocks, cur).actions
           k == Len(acts)
           now == acts \o <<a>>
           blocks == Push(b.blocks, cur, <<a>>)
           c == Builder(rest, blocks, cur)
<1>1. /\ x \in BuildItems(u) /\ rest \in Seq(BuildItems(u)) /\ Chain(Awaited(u), rest, A, {})
      /\ n \in Nat /\ cur \in Nat /\ k \in Nat /\ acts \in Seq(ShownActions(u))
  BY FirstToDo DEF Records
<1>2. cur \in 0 .. n - 1 /\ b.blocks \in Seq(Records(u))
  BY DEF Fits
<1>3. <<a>> \in Seq(ShownActions(u)) /\ Len(<<a>>) = 1 /\ <<a>>[1] = a
  BY Single
<1>4. /\ blocks \in Seq(Records(u)) /\ Len(blocks) = n
      /\ Nth(blocks, cur).actions = now
      /\ \A d \in 0 .. n - 1 : d # cur => Nth(blocks, d) = Nth(b.blocks, d)
  <2> HIDE DEF blocks
  <2>1. /\ blocks \in Seq(Records(u)) /\ Len(blocks) = n
        /\ Nth(blocks, cur) = [actions |-> now, terminator |-> Nth(b.blocks, cur).terminator]
        /\ \A d \in 0 .. n - 1 : d # cur => Nth(blocks, d) = Nth(b.blocks, d)
    BY <1>2, <1>3, PushedBlocks DEF blocks, IsPushed
  <2> HIDE DEF now
  <2> QED
    BY <2>1
<1>5. c.todo = rest /\ c.blocks = blocks /\ c.current = cur
  BY DEF Builder
<1>6. Here(b) = <<cur, k + 1>> /\ Here(c) = <<cur, Len(now) + 1>>
  BY <1>4, <1>5 DEF Here
<1>7. /\ Len(now) = k + 1
      /\ \A i \in 1 .. k + 1 : now[i] = IF i <= k THEN acts[i] ELSE <<a>>[i - k]
  BY <1>1, <1>3, ConcatProperties
<1> HIDE DEF c, blocks, now, k, n
<1>8. now[k + 1] = a /\ \A i \in 1 .. k : now[i] = acts[i]
  <2>1. k + 1 \in 1 .. k + 1 /\ ~(k + 1 <= k) /\ k + 1 - k = 1
    BY <1>1
  <2>2. now[k + 1] = <<a>>[1]
    BY <1>1, <1>7, <2>1
  <2> QED
    BY <1>1, <1>3, <1>7, <2>2
<1>9. Fits(u, c, A)
  <2>1. A \subseteq (0 .. n - 1) \ {cur} /\ \A d \in A : Nth(b.blocks, d).actions = <<>>
    BY DEF Fits, n
  <2>2. \A d \in A : Nth(blocks, d).actions = <<>>
    BY <1>4, <2>1
  <2> QED
    BY <1>1, <1>2, <1>4, <1>5, <2>1, <2>2 DEF Fits
<1>10. ASSUME NEW g, NEW q, Framed(u, c, A, g), Chain(Plan(u, g), c.todo, Here(c), q)
       PROVE  Framed(u, b, A, g) /\ Chain(Plan(u, g), b.todo, Here(b), q)
  <2>1. Framed(u, b, A, g)
    <3>1. cur \notin A
      BY DEF Fits
    <3>2. n <= Len(c.blocks) /\ k <= Len(Nth(c.blocks, cur).actions)
      BY <1>1, <1>4, <1>5, <1>7
    <3>3. \A i \in 1 .. k : Nth(c.blocks, cur).actions[i] = acts[i]
      BY <1>4, <1>5, <1>8
    <3> QED
      BY <1>4, <1>5, <1>9, <1>10, <3>1, <3>2, <3>3, FramedBack DEF n, k
  <2> DEFINE shall == Nth(g.blocks, cur).actions
             l == Len(shall)
             p == <<cur, k + 1>>
  <2>2. /\ g.blocks \in Seq(Records(u)) /\ Len(g.blocks) \in Nat /\ n <= Len(g.blocks)
        /\ k + 1 <= l /\ \A i \in 1 .. k + 1 : shall[i] = now[i]
    BY <1>4, <1>5, <1>7, <1>10, LenProperties DEF Framed
  <2>3. cur \in 0 .. Len(g.blocks) - 1
    BY <1>1, <1>2, <2>2
  <2>4. /\ l \in Nat
        /\ \A i \in 1 .. l + 1 : <<cur, i>> \in Places(g)
        /\ \A i \in 1 .. l : ShownAt(g, <<cur, i>>) = shall[i]
    <3> HIDE DEF cur
    <3>1. g.blocks \in Seq(Records(u)) /\ cur \in 0 .. Len(g.blocks) - 1
      BY <2>2, <2>3
    <3>2. l \in Nat
      BY <3>1, BlockShown
    <3>3. \A i \in 1 .. l + 1 : <<cur, i>> \in Places(g)
      BY <3>1, BlockShown
    <3>4. ASSUME NEW i \in 1 .. l PROVE ShownAt(g, <<cur, i>>) = shall[i]
      BY <3>1, BlockShown
    <3> QED
      BY <3>2, <3>3, <3>4
  <2> HIDE DEF shall, l
  <2>5. After(p, 1) = Here(c)
    BY <1>1, <1>6, <1>7 DEF After
  <2>6. /\ k + 1 \in 1 .. l /\ k + 1 \in 1 .. l + 1
        /\ k + 1 + 1 \in 1 .. l + 1 /\ k + 1 \in 1 .. k + 1
    BY <1>1, <2>2, <2>4
  <2>7. p \in Places(g) /\ Here(c) \in Places(g) /\ ShownAt(g, p) = a
    BY <1>6, <1>7, <1>8, <2>2, <2>4, <2>6
  <2>8. Planned(u, g, x, p, Here(c))
    BY <2>5, <2>7
  <2>9. <<x, p, Here(c)>> \in Plan(u, g)
    BY <1>1, <2>7, <2>8, PlanMember
  <2>10. Chain(Plan(u, g), b.todo, p, q)
    BY <1>5, <1>10, <2>9, FirstToDo
  <2> QED
    BY <1>6, <2>1, <2>10
<1> QED
  BY <1>9, <1>10 DEF Stepping, c, blocks

(* What a graph that frames a builder shows: the blocks that are done as    *)
(* they are, and what was pushed to the current one.                        *)
LEMMA FramedShown ==
  ASSUME NEW u, NEW b, NEW A, Fits(u, b, A), NEW g, Framed(u, b, A, g)
  PROVE  /\ \A d \in 0 .. Len(b.blocks) - 1 : <<d, 1>> \in Places(g)
         /\ Here(b) \in Places(g)
         /\ \A i \in 1 .. Len(Nth(b.blocks, b.current).actions) :
              /\ <<b.current, i>> \in Places(g)
              /\ ShownAt(g, <<b.current, i>>) = Nth(b.blocks, b.current).actions[i]
         /\ \A d \in 0 .. Len(b.blocks) - 1 : d \notin A /\ d # b.current
              => /\ \A i \in 1 .. Len(Nth(b.blocks, d).actions) + 1 : <<d, i>> \in Places(g)
                 /\ \A i \in 1 .. Len(Nth(b.blocks, d).actions) :
                      ShownAt(g, <<d, i>>) = Nth(b.blocks, d).actions[i]
                 /\ ShownAt(g, <<d, Len(Nth(b.blocks, d).actions) + 1>>)
                      = Nth(b.blocks, d).terminator
<1> DEFINE cur == b.current
           n == Len(b.blocks)
           was == Nth(b.blocks, cur).actions
           shall == Nth(g.blocks, cur).actions
           k == Len(was)
           l == Len(shall)
<1>1. /\ g.blocks \in Seq(Records(u)) /\ b.blocks \in Seq(Records(u))
      /\ n \in Nat /\ Len(g.blocks) \in Nat /\ n <= Len(g.blocks)
      /\ cur \in 0 .. n - 1 /\ k <= l /\ \A i \in 1 .. k : shall[i] = was[i]
  BY LenProperties DEF Fits, Framed
<1>2. \A d \in 0 .. n - 1 : d \in 0 .. Len(g.blocks) - 1
  BY <1>1
<1>3. ASSUME NEW d \in 0 .. n - 1
      PROVE  <<d, 1>> \in Places(g)
  <2>1. Len(Nth(g.blocks, d).actions) \in Nat
    BY <1>1, <1>2, BlockShown
  <2>2. 1 \in 1 .. Len(Nth(g.blocks, d).actions) + 1
    BY <2>1
  <2> QED
    BY <1>1, <1>2, <2>2, BlockShown
<1>4. ASSUME NEW d \in 0 .. n - 1, d \notin A, d # cur
      PROVE  /\ \A i \in 1 .. Len(Nth(b.blocks, d).actions) + 1 : <<d, i>> \in Places(g)
             /\ \A i \in 1 .. Len(Nth(b.blocks, d).actions) :
                  ShownAt(g, <<d, i>>) = Nth(b.blocks, d).actions[i]
             /\ ShownAt(g, <<d, Len(Nth(b.blocks, d).actions) + 1>>) = Nth(b.blocks, d).terminator
  <2>1. Nth(g.blocks, d) = Nth(b.blocks, d)
    BY <1>4 DEF Framed
  <2>2. d \in 0 .. Len(g.blocks) - 1
    BY <1>2
  <2>3. \A i \in 1 .. Len(Nth(g.blocks, d).actions) + 1 : <<d, i>> \in Places(g)
    BY <1>1, <2>2, BlockShown
  <2>4. ASSUME NEW i \in 1 .. Len(Nth(g.blocks, d).actions)
        PROVE  ShownAt(g, <<d, i>>) = Nth(g.blocks, d).actions[i]
    <3>1. g.blocks \in Seq(Records(u))
      BY <1>1
    <3> QED
      BY <2>2, <3>1, BlockShown
  <2>5. ShownAt(g, <<d, Len(Nth(g.blocks, d).actions) + 1>>) = Nth(g.blocks, d).terminator
    BY <1>1, <2>2, BlockShown
  <2> QED
    BY <2>1, <2>3, <2>4, <2>5
<1>5. cur \in 0 .. Len(g.blocks) - 1
  BY <1>1, <1>2
<1>6. k \in Nat
  <2>1. cur + 1 \in 1 .. n
    BY <1>1
  <2>2. Nth(b.blocks, cur) \in Records(u)
    BY <1>1, <2>1, ElementOfSeq DEF Nth
  <2> QED
    BY <2>2, LenProperties DEF Records
<1>7. /\ l \in Nat /\ \A i \in 1 .. l + 1 : <<cur, i>> \in Places(g)
  <2> HIDE DEF cur
  <2>1. l \in Nat
    BY <1>1, <1>5, BlockShown
  <2>2. \A i \in 1 .. l + 1 : <<cur, i>> \in Places(g)
    BY <1>1, <1>5, BlockShown
  <2> QED
    BY <2>1, <2>2
<1>8. ASSUME NEW i \in 1 .. l PROVE ShownAt(g, <<cur, i>>) = shall[i]
  <2> HIDE DEF cur
  <2>1. g.blocks \in Seq(Records(u))
    BY <1>1
  <2> QED
    BY <1>5, <2>1, BlockShown
<1>9. Here(b) = <<cur, k + 1>>
  BY DEF Here
<1> HIDE DEF cur, n, was, shall, k, l
<1>10. k + 1 \in 1 .. l + 1 /\ \A i \in 1 .. k : i \in 1 .. l /\ i \in 1 .. l + 1
  BY <1>1, <1>6, <1>7
<1>11. Here(b) \in Places(g)
  BY <1>7, <1>9, <1>10
<1>12. \A i \in 1 .. k : <<cur, i>> \in Places(g) /\ ShownAt(g, <<cur, i>>) = was[i]
  BY <1>1, <1>7, <1>8, <1>10
<1> QED
  BY <1>3, <1>4, <1>11, <1>12 DEF cur, n, was, k

(* A block that is done ends as it is terminated.                           *)
LEMMA DoneShown ==
  ASSUME NEW u, NEW b, NEW A, Fits(u, b, A), NEW g, Framed(u, b, A, g),
         NEW d \in 0 .. Len(b.blocks) - 1, d \notin A, d # b.current
  PROVE  ShownAt(g, <<d, Len(Nth(b.blocks, d).actions) + 1>>) = Nth(b.blocks, d).terminator
BY FramedShown

(* And before that it shows its actions.                                    *)
LEMMA DoneActions ==
  ASSUME NEW u, NEW b, NEW A, Fits(u, b, A), NEW g, Framed(u, b, A, g),
         NEW d \in 0 .. Len(b.blocks) - 1, d \notin A, d # b.current,
         NEW i \in 1 .. Len(Nth(b.blocks, d).actions)
  PROVE  ShownAt(g, <<d, i>>) = Nth(b.blocks, d).actions[i]
<1>1. Nth(g.blocks, d) = Nth(b.blocks, d)
  BY DEF Framed
<1>2. g.blocks \in Seq(Records(u))
  BY DEF Framed
<1>3. d \in 0 .. Len(g.blocks) - 1
  BY LenProperties DEF Fits, Framed
<1>4. i \in 1 .. Len(Nth(g.blocks, d).actions)
  BY <1>1
<1>5. ShownAt(g, <<d, i>>) = Nth(g.blocks, d).actions[i]
  BY <1>2, <1>3, <1>4, BlockShown
<1> QED
  BY <1>1, <1>5

(* A step may be taken when it leaves the blocks that are done alone, waits *)
(* for no block but new ones, and is planned as what it was taken for.      *)
LEMMA StepTaken ==
  ASSUME NEW u, NEW b, NEW A, Fits(u, b, A), b.todo # <<>>, NEW c, NEW B, Fits(u, c, B),
         Len(b.blocks) <= Len(c.blocks),
         \A d \in 0 .. Len(b.blocks) - 1 : d # b.current => Nth(c.blocks, d) = Nth(b.blocks, d),
         Len(Nth(b.blocks, b.current).actions) <= Len(Nth(c.blocks, b.current).actions),
         \A i \in 1 .. Len(Nth(b.blocks, b.current).actions) :
           Nth(c.blocks, b.current).actions[i] = Nth(b.blocks, b.current).actions[i],
         b.current \notin B,
         \A d \in 0 .. Len(b.blocks) - 1 : d \in B \/ d = c.current => d \in A \/ d = b.current,
         \A g, q : Framed(u, b, A, g) /\ Framed(u, c, B, g) /\ Chain(Plan(u, g), c.todo, Here(c), q)
                     => \E r : /\ <<Head(b.todo), Here(b), r>> \in Plan(u, g)
                               /\ Chain(Plan(u, g), Tail(b.todo), r, q)
  PROVE  Stepping(u, b, A, c)
<1>1. ASSUME NEW g, NEW q, Framed(u, c, B, g), Chain(Plan(u, g), c.todo, Here(c), q)
      PROVE  Framed(u, b, A, g) /\ Chain(Plan(u, g), b.todo, Here(b), q)
  <2>1. Framed(u, b, A, g)
    BY <1>1, FramedBack
  <2>2. PICK r : <<Head(b.todo), Here(b), r>> \in Plan(u, g) /\ Chain(Plan(u, g), Tail(b.todo), r, q)
    BY <1>1, <2>1
  <2> QED
    BY <2>1, <2>2, FirstToDo
<1> QED
  BY <1>1 DEF Stepping

(* One thing to do before others.                                           *)
LEMMA OneThenRest ==
  ASSUME NEW E, NEW S, NEW x \in S, NEW rest \in Seq(S), NEW p, NEW q
  PROVE  /\ <<x>> \o rest \in Seq(S)
         /\ Chain(E, <<x>> \o rest, p, q) <=> \E r : <<x, p, r>> \in E /\ Chain(E, rest, r, q)
<1>1. <<x>> \in Seq(S)
  BY Single
<1>2. <<x>> \o rest \in Seq(S)
  BY <1>1, ConcatProperties
<1>3. Chain(E, <<x>> \o rest, p, q) <=> \E r : Chain(E, <<x>>, p, r) /\ Chain(E, rest, r, q)
  BY <1>1, ChainConcat
<1> QED
  BY <1>2, <1>3, ChainOne

(* The current block ends.                                                  *)
LEMMA StepEnd ==
  ASSUME NEW u, NEW b, NEW A, Fits(u, b, A), b.todo # <<>>, Head(b.todo).do = "end"
  PROVE  Stepping(u, b, A,
                  Builder(Tail(b.todo), Terminate(b.blocks, b.current, Head(b.todo).terminator),
                          Head(b.todo).next))
<1> DEFINE x == Head(b.todo)
           rest == Tail(b.todo)
           cur == b.current
           n == Len(b.blocks)
           acts == Nth(b.blocks, cur).actions
           next == x.next
           B == A \ {next}
           blocks == Terminate(b.blocks, cur, x.terminator)
           c == Builder(rest, blocks, next)
<1>1. /\ x \in BuildItems(u) /\ rest \in Seq(BuildItems(u)) /\ next \in A
      /\ Chain(Awaited(u), rest, B, {}) /\ n \in Nat /\ Len(acts) \in Nat
  BY FirstToDo
<1>2. x.terminator \in Terminators(u)
  BY <1>1 DEF BuildItems
<1>3. /\ cur \in 0 .. n - 1 /\ b.blocks \in Seq(Records(u))
      /\ A \subseteq (0 .. n - 1) \ {cur} /\ \A d \in A : Nth(b.blocks, d).actions = <<>>
  BY DEF Fits
<1>4. /\ blocks \in Seq(Records(u)) /\ Len(blocks) = n
      /\ Nth(blocks, cur) = [actions |-> acts, terminator |-> x.terminator]
      /\ \A d \in 0 .. n - 1 : d # cur => Nth(blocks, d) = Nth(b.blocks, d)
  BY <1>2, <1>3, TerminatedBlocks DEF IsTerminated
<1>5. c.todo = rest /\ c.blocks = blocks /\ c.current = next
  BY DEF Builder
<1> HIDE DEF c, blocks, n
<1>6. /\ Nth(blocks, cur).actions = acts /\ Nth(blocks, cur).terminator = x.terminator
  BY <1>4
<1>7. next \in 0 .. n - 1 /\ next # cur /\ Nth(blocks, next).actions = <<>>
  BY <1>1, <1>3, <1>4
<1>8. Here(c) = <<next, 1>>
  <2>1. Len(<<>>) + 1 = 1
    BY EmptySeq
  <2> QED
    BY <1>5, <1>7, <2>1 DEF Here
<1>9. Fits(u, c, B)
  <2>1. B \subseteq (0 .. n - 1) \ {next} /\ \A d \in B : Nth(blocks, d).actions = <<>>
    BY <1>3, <1>4
  <2> QED
    BY <1>1, <1>4, <1>5, <1>7, <2>1 DEF Fits
<1>10. ASSUME NEW g, NEW q, Framed(u, b, A, g), Framed(u, c, B, g),
              Chain(Plan(u, g), c.todo, Here(c), q)
       PROVE  \E r : <<x, Here(b), r>> \in Plan(u, g) /\ Chain(Plan(u, g), rest, r, q)
  <2>1. cur \in 0 .. Len(c.blocks) - 1 /\ cur \notin B /\ cur # c.current
    BY <1>3, <1>4, <1>5, <1>7
  <2>2. ShownAt(g, <<cur, Len(acts) + 1>>) = x.terminator
    BY <1>5, <1>6, <1>9, <1>10, <2>1, FramedShown
  <2>3. Here(b) = <<cur, Len(acts) + 1>>
    BY DEF Here
  <2>4. Here(b) \in Places(g) /\ Here(c) \in Places(g)
    BY <1>9, <1>10, FramedShown
  <2>5. Planned(u, g, x, Here(b), Here(c))
    BY <1>8, <2>2, <2>3 DEF Planned
  <2>6. <<x, Here(b), Here(c)>> \in Plan(u, g)
    BY <1>1, <2>4, <2>5, PlanMember
  <2> QED
    BY <1>5, <1>10, <2>6
<1>11. /\ n <= Len(c.blocks) /\ Nth(c.blocks, cur).actions = acts /\ Len(acts) <= Len(acts)
       /\ cur \notin B
  BY <1>1, <1>3, <1>4, <1>5, <1>6
<1> HIDE DEF B
<1>12. Stepping(u, b, A, c)
  <2>1. \A d \in 0 .. n - 1 : d \in B \/ d = c.current => d \in A \/ d = cur
    BY <1>1, <1>5 DEF B
  <2> QED
    BY <1>4, <1>5, <1>9, <1>10, <1>11, <2>1, StepTaken DEF n
<1> QED
  BY <1>12 DEF c, blocks

(* An `if` waits for the block its arms meet in.                            *)
LEMMA StepIf ==
  ASSUME NEW u, IsUnit(u), NEW b, NEW A, Fits(u, b, A), b.todo # <<>>, Head(b.todo).do = "build",
         Head(b.todo).stmt.kind = "expr", Head(b.todo).stmt.expr.kind = "if"
  PROVE  Stepping(u, b, A, BuildIf(Head(b.todo).stmt.expr, b, Tail(b.todo)))
<1> DEFINE x == Head(b.todo)
           rest == Tail(b.todo)
           cur == b.current
           n == Len(b.blocks)
           acts == Nth(b.blocks, cur).actions
           e == x.stmt.expr
           test == ToTest(e.arms, e.elseBlock, n)
           blocks == Added(b.blocks, 1)
           items == <<test>> \o rest
           B == A \cup {n}
           c == Builder(items, blocks, cur)
<1>1. /\ x \in BuildItems(u) /\ rest \in Seq(BuildItems(u)) /\ A \in SUBSET Nat
      /\ Chain(Awaited(u), rest, A, {}) /\ n \in Nat /\ Len(acts) \in Nat
  BY FirstToDo
<1>2. /\ cur \in 0 .. n - 1 /\ b.blocks \in Seq(Records(u))
      /\ A \subseteq (0 .. n - 1) \ {cur} /\ \A d \in A : Nth(b.blocks, d).actions = <<>>
  BY DEF Fits
<1>3. x.stmt \in Stmt(u) /\ e.arms \in Seq(ArmsIn(u)) /\ e.elseBlock \in BlocksIn(u) \cup {Missing}
  <2>1. x.stmt \in Stmt(u)
    BY <1>1 DEF BuildItems
  <2>2. e \in Expr(u)
    BY <2>1 DEF IsUnit, IsStmt
  <2> QED
    BY <2>1, <2>2 DEF IsUnit, IsExpr
<1>4. /\ test \in BuildItems(u) /\ test.do = "test" /\ test.merge = n
      /\ test.arms = e.arms /\ test.elseBlock = e.elseBlock
  BY <1>1, <1>3 DEF ToTest, BuildItems
<1>5. /\ blocks \in Seq(Records(u)) /\ Len(blocks) = n + 1
      /\ \A d \in 0 .. n - 1 : Nth(blocks, d) = Nth(b.blocks, d)
      /\ Nth(blocks, n) = Untouched
  <2>1. 0 \in 0 .. 1 - 1 /\ n + 0 = n /\ 1 \in Nat
    BY <1>1
  <2>2. blocks \in Seq(Records(u)) /\ Len(blocks) = n + 1
    BY <1>2, <2>1, AddedBlocks
  <2>5. \A d \in 0 .. n - 1 : Nth(blocks, d) = Nth(b.blocks, d)
    BY <1>2, <2>1, AddedBlocks
  <2>3. \A i \in 0 .. 1 - 1 : Nth(blocks, n + i) = Untouched
    BY <1>2, <2>1, AddedBlocks
  <2> HIDE DEF blocks, n
  <2>4. Nth(blocks, n + 0) = Untouched
    BY <2>1, <2>3
  <2> QED
    BY <2>1, <2>2, <2>4, <2>5
<1>6. c.todo = items /\ c.blocks = blocks /\ c.current = cur
  BY DEF Builder
<1>7. BuildIf(e, b, rest) = c
  BY DEF BuildIf
<1> HIDE DEF c, blocks, n, test
<1>8. /\ B \subseteq (0 .. n) \ {cur} /\ n \in B /\ B \ {n} = A /\ n # cur
      /\ \A d \in B : Nth(blocks, d).actions = <<>>
  <2>1. Nth(blocks, n).actions = <<>>
    BY <1>5 DEF Untouched
  <2> QED
    BY <1>1, <1>2, <1>5, <2>1
<1>9. items \in Seq(BuildItems(u)) /\ Chain(Awaited(u), items, B, {})
  <2>1. B \in SUBSET Nat
    BY <1>1
  <2>2. <<test, B, A>> \in Awaited(u)
    BY <1>1, <1>4, <1>8, <2>1 DEF Awaited
  <2> QED
    BY <1>1, <1>4, <2>2, OneThenRest
<1> HIDE DEF items, B
<1>10. Fits(u, c, B)
  <2>1. cur \in 0 .. (n + 1) - 1 /\ B \subseteq (0 .. (n + 1) - 1) \ {cur}
    BY <1>1, <1>2, <1>8
  <2> QED
    BY <1>5, <1>6, <1>8, <1>9, <2>1 DEF Fits
<1>11. Here(c) = Here(b)
  BY <1>2, <1>5, <1>6 DEF Here, n
<1>12. ASSUME NEW g, NEW q, Framed(u, b, A, g), Framed(u, c, B, g),
              Chain(Plan(u, g), c.todo, Here(c), q)
       PROVE  \E r : <<x, Here(b), r>> \in Plan(u, g) /\ Chain(Plan(u, g), rest, r, q)
  <2>1. PICK r : <<test, Here(b), r>> \in Plan(u, g) /\ Chain(Plan(u, g), rest, r, q)
    BY <1>1, <1>4, <1>6, <1>11, <1>12, OneThenRest DEF items
  <2>2. Here(b) \in Places(g) /\ r \in Places(g) /\ Planned(u, g, test, Here(b), r)
    BY <2>1, PlanMember
  <2>3. <<Arms(e.arms, e.elseBlock, TRUE), Here(b), r>> \in Same(u, g)
    BY <1>4, <2>2 DEF Planned
  <2>4. <<DoStmt(x.stmt, TRUE), Here(b), r>> \in Same(u, g)
    BY <1>3, <2>2, <2>3, IfLink
  <2>5. Planned(u, g, x, Here(b), r)
    BY <2>4 DEF Planned
  <2>6. <<x, Here(b), r>> \in Plan(u, g)
    BY <1>1, <2>2, <2>5, PlanMember
  <2> QED
    BY <2>1, <2>6
<1>13. Stepping(u, b, A, c)
  <2>1. n <= Len(c.blocks) /\ cur \notin B
    BY <1>1, <1>5, <1>6, <1>8
  <2>2. Nth(c.blocks, cur) = Nth(b.blocks, cur) /\ Len(acts) <= Len(acts)
    BY <1>1, <1>2, <1>5, <1>6
  <2>3. \A d \in 0 .. n - 1 : d \in B \/ d = c.current => d \in A \/ d = cur
    BY <1>1, <1>6 DEF B
  <2> QED
    BY <1>5, <1>6, <1>10, <1>12, <2>1, <2>2, <2>3, StepTaken DEF n
<1> QED
  BY <1>7, <1>13

(* The last test of an `if` has failed.                                     *)
LEMMA StepElse ==
  ASSUME NEW u, IsUnit(u), NEW b, NEW A, Fits(u, b, A), b.todo # <<>>, Head(b.todo).do = "test",
         Head(b.todo).arms = <<>>
  PROVE  Stepping(u, b, A,
                  BuildArm(<<>>, Head(b.todo).elseBlock, Head(b.todo).merge, b, Tail(b.todo)))
<1> DEFINE x == Head(b.todo)
           rest == Tail(b.todo)
           cur == b.current
           n == Len(b.blocks)
           acts == Nth(b.blocks, cur).actions
           merge == x.merge
           todos == IF x.elseBlock = Missing THEN <<>> ELSE BuildBlock(x.elseBlock)
           items == todos \o <<ToEnd(Goto(merge), merge)>> \o rest
           c == Builder(items, b.blocks, cur)
           S == [do : {"build"}, stmt : Stmt(u)] \cup [do : {"yield"}, expr : Expr(u)]
<1>1. /\ x \in BuildItems(u) /\ rest \in Seq(BuildItems(u)) /\ A \in SUBSET Nat
      /\ merge \in A /\ Chain(Awaited(u), rest, A \ {merge}, {})
      /\ n \in Nat /\ Len(acts) \in Nat
  BY FirstToDo
<1>2. x.elseBlock \in BlocksIn(u) \cup {Missing} /\ merge \in Nat /\ Goto(merge) \in Terminators(u)
  BY <1>1 DEF BuildItems, Terminators
<1>3. todos \in Seq(S)
  <2>1. CASE x.elseBlock = Missing
    BY <2>1, EmptySeq
  <2>2. CASE x.elseBlock # Missing
    BY <1>2, <2>2, BuildTyped
  <2> QED
    BY <2>1, <2>2
<1> HIDE DEF todos
<1>4. /\ items \in Seq(BuildItems(u)) /\ Chain(Awaited(u), items, A, {})
      /\ \A g : \A p \in Places(g) : \A q :
           Chain(Plan(u, g), items, p, q)
             => \E r \in Places(g) :
                  /\ Chain(Plan(u, g), todos, p, r)
                  /\ ShownAt(g, r) = Goto(merge)
                  /\ <<merge, 1>> \in Places(g)
                  /\ Chain(Plan(u, g), rest, <<merge, 1>>, q)
  BY <1>1, <1>2, <1>3, BlockThenEnd
<1>5. c.todo = items /\ c.blocks = b.blocks /\ c.current = cur
  BY DEF Builder
<1>6. BuildArm(<<>>, x.elseBlock, merge, b, rest) = c
  BY DEF BuildArm, todos
<1> HIDE DEF c, items
<1>7. Fits(u, c, A)
  BY <1>4, <1>5 DEF Fits
<1>8. Here(c) = Here(b)
  BY <1>5 DEF Here
<1>9. ASSUME NEW g, NEW q, Framed(u, b, A, g), Framed(u, c, A, g),
             Chain(Plan(u, g), c.todo, Here(c), q)
      PROVE  \E r : <<x, Here(b), r>> \in Plan(u, g) /\ Chain(Plan(u, g), rest, r, q)
  <2>1. Here(b) \in Places(g)
    BY <1>9, FramedShown
  <2>2. PICK r \in Places(g) :
               /\ Chain(Plan(u, g), todos, Here(b), r)
               /\ ShownAt(g, r) = Goto(merge)
               /\ <<merge, 1>> \in Places(g)
               /\ Chain(Plan(u, g), rest, <<merge, 1>>, q)
    BY <1>4, <1>5, <1>8, <1>9, <2>1
  <2>3. IF x.elseBlock = Missing THEN r = Here(b)
        ELSE <<DoBlock(x.elseBlock, TRUE), Here(b), r>> \in Same(u, g)
    <3>1. CASE x.elseBlock = Missing
      BY <2>2, <3>1, ChainEmpty DEF todos
    <3>2. CASE x.elseBlock # Missing
      BY <1>2, <2>1, <2>2, <3>2, BlockLink DEF todos
    <3> QED
      BY <3>1, <3>2
  <2>4. <<Arms(<<>>, x.elseBlock, TRUE), Here(b), <<merge, 1>> >> \in Same(u, g)
    BY <1>2, <2>1, <2>2, <2>3, ElseLink
  <2>5. Planned(u, g, x, Here(b), <<merge, 1>>)
    BY <2>4 DEF Planned
  <2>6. <<x, Here(b), <<merge, 1>> >> \in Plan(u, g)
    BY <1>1, <2>1, <2>2, <2>5, PlanMember
  <2> QED
    BY <2>2, <2>6
<1>10. Stepping(u, b, A, c)
  <2>1. n <= Len(c.blocks) /\ cur \notin A /\ Len(acts) <= Len(acts)
    BY <1>1, <1>5 DEF Fits
  <2> QED
    BY <1>5, <1>7, <1>9, <2>1, StepTaken
<1> QED
  BY <1>6, <1>10

(* The current block ends where new ones are added.                         *)
Opened(blocks, k, c, t) == Terminate(Added(blocks, k), c, t)

(* What such blocks are.                                                    *)
IsOpened(u, blocks, k, c, t, new) ==
  /\ Len(blocks) \in Nat /\ new \in Seq(Records(u)) /\ Len(new) = Len(blocks) + k
  /\ Nth(new, c).actions = Nth(blocks, c).actions /\ Nth(new, c).terminator = t
  /\ \A d \in 0 .. Len(blocks) - 1 : d # c => Nth(new, d) = Nth(blocks, d)
  /\ \A d \in Len(blocks) .. Len(blocks) + k - 1 : Nth(new, d) = Untouched

(* They are so.                                                             *)
LEMMA OpenedBlocks ==
  ASSUME NEW u, NEW blocks \in Seq(Records(u)), NEW k \in Nat, NEW c \in 0 .. Len(blocks) - 1,
         NEW t \in Terminators(u)
  PROVE  IsOpened(u, blocks, k, c, t, Opened(blocks, k, c, t))
<1> DEFINE more == Added(blocks, k)
           new == Opened(blocks, k, c, t)
           n == Len(blocks)
<1>1. n \in Nat
  BY LenProperties
<1>2. more \in Seq(Records(u)) /\ Len(more) = n + k
  BY AddedBlocks
<1>3. \A d \in 0 .. n - 1 : Nth(more, d) = Nth(blocks, d)
  BY AddedBlocks
<1>4. \A i \in 0 .. k - 1 : Nth(more, n + i) = Untouched
  BY AddedBlocks
<1> HIDE DEF more, n
<1>5. c \in 0 .. Len(more) - 1 /\ c \in 0 .. n - 1
  BY <1>1, <1>2 DEF n
<1>6. /\ new \in Seq(Records(u)) /\ Len(new) = Len(more)
      /\ Nth(new, c) = [actions |-> Nth(more, c).actions, terminator |-> t]
      /\ \A d \in 0 .. Len(more) - 1 : d # c => Nth(new, d) = Nth(more, d)
  BY <1>2, <1>5, TerminatedBlocks DEF IsTerminated, Opened, more
<1> HIDE DEF new
<1>7. Nth(new, c).actions = Nth(blocks, c).actions /\ Nth(new, c).terminator = t
  BY <1>3, <1>5, <1>6
<1>8. ASSUME NEW d \in 0 .. n - 1, d # c PROVE Nth(new, d) = Nth(blocks, d)
  <2>1. d \in 0 .. Len(more) - 1
    BY <1>1, <1>2
  <2> QED
    BY <1>3, <1>6, <1>8, <2>1
<1>9. ASSUME NEW d \in n .. n + k - 1 PROVE Nth(new, d) = Untouched
  <2>1. d - n \in 0 .. k - 1 /\ n + (d - n) = d /\ d \in 0 .. Len(more) - 1 /\ d # c
    BY <1>1, <1>2, <1>5
  <2>2. Nth(more, n + (d - n)) = Untouched
    BY <1>4, <2>1
  <2> QED
    BY <1>6, <2>1, <2>2
<1> QED
  BY <1>1, <1>2, <1>6, <1>7, <1>8, <1>9 DEF new, more, n, IsOpened

(* A test of an `if`: the arm is built next, then the rest of the `if`.     *)
LEMMA StepArm ==
  ASSUME NEW u, IsUnit(u), NEW b, NEW A, Fits(u, b, A), b.todo # <<>>, Head(b.todo).do = "test",
         Head(b.todo).arms # <<>>
  PROVE  Stepping(u, b, A,
                  BuildArm(Head(b.todo).arms, Head(b.todo).elseBlock, Head(b.todo).merge,
                           b, Tail(b.todo)))
<1> DEFINE x == Head(b.todo)
           rest == Tail(b.todo)
           cur == b.current
           n == Len(b.blocks)
           acts == Nth(b.blocks, cur).actions
           arms == x.arms
           body == Head(arms).body
           merge == x.merge
           end == ToEnd(Goto(merge), n + 1)
           test == ToTest(Tail(arms), x.elseBlock, merge)
           branch == Branch(Head(arms).cond, n, n + 1)
           blocks == Opened(b.blocks, 2, cur, branch)
           more == <<test>> \o rest
           todos == BuildBlock(body)
           items == (todos \o <<end>>) \o more
           B == A \cup {n + 1}
           c == Builder(items, blocks, n)
           I == BuildItems(u)
           S == [do : {"build"}, stmt : Stmt(u)] \cup [do : {"yield"}, expr : Expr(u)]
<1>1. /\ x \in I /\ rest \in Seq(I) /\ A \in SUBSET Nat
      /\ merge \in A /\ Chain(Awaited(u), rest, A \ {merge}, {})
      /\ n \in Nat /\ Len(acts) \in Nat
  BY FirstToDo
<1>2. /\ cur \in 0 .. n - 1 /\ b.blocks \in Seq(Records(u))
      /\ A \subseteq (0 .. n - 1) \ {cur} /\ \A d \in A : Nth(b.blocks, d).actions = <<>>
  BY DEF Fits
<1>3. arms \in Seq(ArmsIn(u)) /\ x.elseBlock \in BlocksIn(u) \cup {Missing} /\ merge \in Nat
  BY <1>1 DEF BuildItems
<1>4. /\ Head(arms) \in ArmsIn(u) /\ Tail(arms) \in Seq(ArmsIn(u))
  BY <1>3, HeadTailProperties
<1>5. Head(arms).cond \in Expr(u) /\ body \in BlocksIn(u)
  BY <1>4 DEF ArmsIn, Conditions
<1>6. branch \in Terminators(u) /\ Goto(merge) \in Terminators(u)
  BY <1>1, <1>3, <1>5 DEF Branch, Terminators
<1>7. /\ test \in I /\ test.do = "test" /\ test.merge = merge
      /\ test.arms = Tail(arms) /\ test.elseBlock = x.elseBlock
  BY <1>3, <1>4 DEF ToTest, BuildItems
<1>8. end \in I
  BY <1>1, <1>6 DEF ToEnd, BuildItems
<1>9. todos \in Seq(S) /\ todos \in Seq(I)
  BY <1>5, BuildTyped
<1>10. /\ blocks \in Seq(Records(u)) /\ Len(blocks) = n + 2
       /\ Nth(blocks, cur).actions = acts /\ Nth(blocks, cur).terminator = branch
       /\ \A d \in 0 .. n - 1 : d # cur => Nth(blocks, d) = Nth(b.blocks, d)
       /\ \A d \in n .. n + 2 - 1 : Nth(blocks, d) = Untouched
  <2> DEFINE k == 2
  <2> HIDE DEF branch, cur, acts, k
  <2>1. k \in Nat /\ cur \in 0 .. n - 1 /\ b.blocks \in Seq(Records(u)) /\ branch \in Terminators(u)
    BY <1>2, <1>6 DEF k
  <2>2. IsOpened(u, b.blocks, k, cur, branch, Opened(b.blocks, k, cur, branch))
    BY <2>1, OpenedBlocks
  <2>3. IsOpened(u, b.blocks, 2, cur, branch, blocks)
    BY <2>2 DEF k
  <2> HIDE DEF blocks
  <2> QED
    BY <2>3 DEF IsOpened, acts
<1>11. c.todo = items /\ c.blocks = blocks /\ c.current = n
  BY DEF Builder
<1> HIDE DEF I, S, todos, end, test, blocks, c
<1>12. more \in Seq(I) /\ todos \o <<end, test>> \o rest = items
  <2>1. <<end>> \in Seq(I) /\ <<test>> \in Seq(I) /\ <<end, test>> = <<end>> \o <<test>>
    BY <1>7, <1>8, Single, Pair
  <2>2. todos \o (<<end>> \o <<test>>) = (todos \o <<end>>) \o <<test>>
    BY <1>9, <2>1, ConcatAssociative
  <2>3. todos \o <<end>> \in Seq(I)
    BY <1>9, <2>1, ConcatProperties
  <2>4. ((todos \o <<end>>) \o <<test>>) \o rest = (todos \o <<end>>) \o (<<test>> \o rest)
    <3> DEFINE first == todos \o <<end>>
    <3> HIDE DEF first, rest
    <3>1. (first \o <<test>>) \o rest = first \o (<<test>> \o rest)
      BY <1>1, <2>1, <2>3, ConcatAssociative DEF first
    <3> QED
      BY <3>1 DEF first
  <2> QED
    BY <1>1, <2>1, <2>2, <2>4, ConcatProperties
<1>13. BuildArm(arms, x.elseBlock, merge, b, rest) = c
  <2>1. BuildArm(arms, x.elseBlock, merge, b, rest)
          = Builder(todos \o <<end, test>> \o rest, blocks, n)
    BY DEF BuildArm, todos, end, test, blocks, Opened
  <2> QED
    BY <1>12, <2>1 DEF c
<1>14. /\ B \subseteq (0 .. n + 2 - 1) \ {n} /\ n + 1 \in B /\ B \ {n + 1} = A /\ n # cur
       /\ cur \notin B /\ \A d \in B : Nth(blocks, d).actions = <<>> /\ B \in SUBSET Nat
       /\ n \in 0 .. n + 2 - 1 /\ Nth(blocks, n).actions = <<>>
  <2>1. n \in n .. n + 2 - 1 /\ n + 1 \in n .. n + 2 - 1
    BY <1>1
  <2>2. Nth(blocks, n).actions = <<>> /\ Nth(blocks, n + 1).actions = <<>>
    BY <1>10, <2>1 DEF Untouched
  <2>3. \A d \in A : d \in 0 .. n - 1 /\ d # cur /\ d # n + 1
    BY <1>1, <1>2
  <2>4. \A d \in A : Nth(blocks, d).actions = <<>>
    BY <1>2, <1>10, <2>3
  <2> HIDE DEF n
  <2>5. \A d \in B : d \in Nat /\ d \in (0 .. n + 2 - 1) \ {n}
    BY <1>1, <2>3
  <2> QED
    BY <1>1, <1>2, <2>2, <2>3, <2>4, <2>5
<1>15. Chain(Awaited(u), more, A, {})
  <2>1. <<test, A, A \ {merge}>> \in Awaited(u)
    BY <1>1, <1>7 DEF Awaited, I
  <2> QED
    BY <1>1, <1>7, <2>1, OneThenRest
<1> HIDE DEF more, n
<1>16. /\ items \in Seq(I) /\ Chain(Awaited(u), items, B, {})
       /\ \A g : \A p \in Places(g) : \A q :
            Chain(Plan(u, g), items, p, q)
              => \E r \in Places(g) :
                   /\ Chain(Plan(u, g), todos, p, r)
                   /\ ShownAt(g, r) = Goto(merge)
                   /\ <<n + 1, 1>> \in Places(g)
                   /\ Chain(Plan(u, g), more, <<n + 1, 1>>, q)
  <2> DEFINE next == n + 1
  <2>1. next \in Nat /\ next \in B /\ B \ {next} = A
    BY <1>1, <1>14
  <2> HIDE DEF next, B
  <2>2. Chain(Awaited(u), more, B \ {next}, {}) /\ end = ToEnd(Goto(merge), next)
    BY <1>15, <2>1 DEF end, next
  <2>3. LET all == todos \o <<ToEnd(Goto(merge), next)>> \o more IN
         /\ all \in Seq(BuildItems(u))
         /\ Chain(Awaited(u), all, B, {})
         /\ \A g : \A p \in Places(g) : \A q :
              Chain(Plan(u, g), all, p, q)
                => \E r \in Places(g) :
                     /\ Chain(Plan(u, g), todos, p, r)
                     /\ ShownAt(g, r) = Goto(merge)
                     /\ <<next, 1>> \in Places(g)
                     /\ Chain(Plan(u, g), more, <<next, 1>>, q)
    BY <1>6, <1>9, <1>12, <1>14, <2>1, <2>2, BlockThenEnd DEF I, S
  <2> QED
    BY <2>2, <2>3 DEF next, I
<1> HIDE DEF items, B
<1>17. Fits(u, c, B)
  BY <1>10, <1>11, <1>14, <1>16 DEF Fits, I
<1>18. Here(c) = <<n, 1>>
  <2>1. Len(<<>>) + 1 = 1
    BY EmptySeq
  <2> QED
    BY <1>11, <1>14, <2>1 DEF Here
<1>19. ASSUME NEW g, NEW q, Framed(u, b, A, g), Framed(u, c, B, g),
              Chain(Plan(u, g), c.todo, Here(c), q)
       PROVE  \E r : <<x, Here(b), r>> \in Plan(u, g) /\ Chain(Plan(u, g), rest, r, q)
  <2>1. Here(c) \in Places(g) /\ Here(b) \in Places(g)
    BY <1>17, <1>19, FramedShown
  <2>2. PICK r \in Places(g) :
               /\ Chain(Plan(u, g), todos, Here(c), r)
               /\ ShownAt(g, r) = Goto(merge)
               /\ <<n + 1, 1>> \in Places(g)
               /\ Chain(Plan(u, g), more, <<n + 1, 1>>, q)
    BY <1>11, <1>16, <1>19, <2>1
  <2>3. PICK m : <<test, <<n + 1, 1>>, m>> \in Plan(u, g) /\ Chain(Plan(u, g), rest, m, q)
    BY <1>1, <1>7, <2>2, OneThenRest DEF more
  <2>4. m \in Places(g) /\ Planned(u, g, test, <<n + 1, 1>>, m)
    BY <2>3, PlanMember
  <2>5. m = <<merge, 1>> /\ <<Arms(Tail(arms), x.elseBlock, TRUE), <<n + 1, 1>>, m>> \in Same(u, g)
    BY <1>7, <2>4 DEF Planned
  <2>6. <<DoBlock(body, TRUE), <<n, 1>>, r>> \in Same(u, g)
    BY <1>5, <1>18, <2>1, <2>2, BlockLink DEF todos
  <2>7. ShownAt(g, Here(b)) = branch
    <3>1. cur \in 0 .. Len(c.blocks) - 1 /\ cur \notin B /\ cur # c.current
      BY <1>1, <1>2, <1>10, <1>11, <1>14
    <3>2. ShownAt(g, <<cur, Len(acts) + 1>>) = branch
      BY <1>10, <1>11, <1>17, <1>19, <3>1, FramedShown
    <3> QED
      BY <3>2 DEF Here
  <2>8. <<Arms(arms, x.elseBlock, TRUE), Here(b), <<merge, 1>> >> \in Same(u, g)
    BY <1>3, <1>18, <2>1, <2>2, <2>4, <2>5, <2>6, <2>7, ArmLink
  <2>9. Planned(u, g, x, Here(b), m)
    BY <2>5, <2>8 DEF Planned
  <2>10. <<x, Here(b), m>> \in Plan(u, g)
    BY <1>1, <2>1, <2>4, <2>9, PlanMember DEF I
  <2> QED
    BY <2>3, <2>10
<1>20. Stepping(u, b, A, c)
  <2>1. n <= Len(c.blocks) /\ Len(acts) <= Len(acts)
    BY <1>1, <1>10, <1>11
  <2>2. \A d \in 0 .. n - 1 : d \in B \/ d = c.current => d \in A \/ d = cur
    BY <1>1, <1>11 DEF B
  <2> QED
    BY <1>10, <1>11, <1>14, <1>17, <1>19, <2>1, <2>2, StepTaken DEF n
<1> QED
  BY <1>13, <1>20

(* A loop: its body is built in a new block, and control goes on in another *)
(* one, which the step waits for.                                           *)
LEMMA StepBody ==
  ASSUME NEW u, NEW b, NEW A, Fits(u, b, A), b.todo # <<>>, Head(b.todo).do = "build",
         NEW body \in BlocksIn(u), NEW t \in Terminators(u),
         NEW blocks \in Seq(Records(u)), Len(b.blocks) <= Len(blocks),
         NEW now \in Len(b.blocks) .. Len(blocks) - 1,
         NEW exit \in Len(b.blocks) .. Len(blocks) - 1, exit # now,
         Nth(blocks, exit).actions = <<>>,
         \A d \in 0 .. Len(b.blocks) - 1 : d # b.current => Nth(blocks, d) = Nth(b.blocks, d),
         Len(Nth(b.blocks, b.current).actions) <= Len(Nth(blocks, b.current).actions),
         \A i \in 1 .. Len(Nth(b.blocks, b.current).actions) :
           Nth(blocks, b.current).actions[i] = Nth(b.blocks, b.current).actions[i],
         NEW c, c = Builder(BuildBlock(body) \o <<ToEnd(t, exit)>> \o Tail(b.todo), blocks, now),
         Fits(u, c, A \cup {exit})
           => \A g : \A r \in Places(g) :
                /\ Framed(u, b, A, g) /\ Framed(u, c, A \cup {exit}, g)
                /\ <<DoBlock(body, TRUE), Here(c), r>> \in Same(u, g) /\ ShownAt(g, r) = t
                => <<DoStmt(Head(b.todo).stmt, TRUE), Here(b), <<exit, 1>> >> \in Same(u, g)
  PROVE  Stepping(u, b, A, c)
<1> DEFINE x == Head(b.todo)
           rest == Tail(b.todo)
           cur == b.current
           n == Len(b.blocks)
           m == Len(blocks)
           acts == Nth(b.blocks, cur).actions
           todos == BuildBlock(body)
           items == todos \o <<ToEnd(t, exit)>> \o rest
           B == A \cup {exit}
           S == [do : {"build"}, stmt : Stmt(u)] \cup [do : {"yield"}, expr : Expr(u)]
<1>1. /\ x \in BuildItems(u) /\ rest \in Seq(BuildItems(u)) /\ A \in SUBSET Nat
      /\ Chain(Awaited(u), rest, A, {}) /\ n \in Nat /\ m \in Nat
  BY FirstToDo, LenProperties
<1>2. /\ cur \in 0 .. n - 1 /\ b.blocks \in Seq(Records(u))
      /\ A \subseteq (0 .. n - 1) \ {cur} /\ \A d \in A : Nth(b.blocks, d).actions = <<>>
  BY DEF Fits
<1>3. c.todo = items /\ c.blocks = blocks /\ c.current = now
  BY DEF Builder
<1>4. todos \in Seq(S)
  BY BuildTyped
<1>5. exit \in Nat /\ exit \in B /\ exit \notin A /\ B \ {exit} = A /\ B \in SUBSET Nat /\ exit # cur
  <2>1. exit \in Nat /\ exit \notin A /\ exit # cur
    BY <1>1, <1>2
  <2> QED
    BY <1>1, <2>1
<1> HIDE DEF todos
<1>6. /\ items \in Seq(BuildItems(u)) /\ Chain(Awaited(u), items, B, {})
      /\ \A g : \A p \in Places(g) : \A q :
           Chain(Plan(u, g), items, p, q)
             => \E r \in Places(g) :
                  /\ Chain(Plan(u, g), todos, p, r)
                  /\ ShownAt(g, r) = t
                  /\ <<exit, 1>> \in Places(g)
                  /\ Chain(Plan(u, g), rest, <<exit, 1>>, q)
  <2> HIDE DEF B, rest
  <2> QED
    BY <1>1, <1>4, <1>5, BlockThenEnd
<1> HIDE DEF items, n, m
<1>7. \A d \in B : d \in (0 .. m - 1) \ {now} /\ Nth(blocks, d).actions = <<>>
  <2> SUFFICES ASSUME NEW d \in B
               PROVE  d \in (0 .. m - 1) \ {now} /\ Nth(blocks, d).actions = <<>>
    OBVIOUS
  <2>1. CASE d = exit
    BY <1>1, <2>1 DEF n, m
  <2>2. CASE d # exit
    <3>1. d \in A
      BY <2>2
    <3>2. d \in 0 .. n - 1 /\ d # cur
      BY <1>2, <3>1
    <3>3. d \in (0 .. m - 1) \ {now}
      BY <1>1, <3>2 DEF n, m
    <3> QED
      BY <1>2, <3>1, <3>2, <3>3 DEF n
  <2> QED
    BY <2>1, <2>2
<1>8. now \in 0 .. m - 1
  BY <1>1 DEF n, m
<1>9. Fits(u, c, B)
  BY <1>3, <1>6, <1>7, <1>8 DEF Fits, m
<1>10. ASSUME NEW g, NEW q, Framed(u, b, A, g), Framed(u, c, B, g),
              Chain(Plan(u, g), c.todo, Here(c), q)
       PROVE  \E r : <<x, Here(b), r>> \in Plan(u, g) /\ Chain(Plan(u, g), rest, r, q)
  <2>1. Here(c) \in Places(g) /\ Here(b) \in Places(g)
    BY <1>9, <1>10, FramedShown
  <2>2. PICK r \in Places(g) :
               /\ Chain(Plan(u, g), todos, Here(c), r)
               /\ ShownAt(g, r) = t
               /\ <<exit, 1>> \in Places(g)
               /\ Chain(Plan(u, g), rest, <<exit, 1>>, q)
    BY <1>3, <1>6, <1>10, <2>1
  <2>3. <<DoBlock(body, TRUE), Here(c), r>> \in Same(u, g)
    BY <2>1, <2>2, BlockLink DEF todos
  <2>4. <<DoStmt(x.stmt, TRUE), Here(b), <<exit, 1>> >> \in Same(u, g)
    BY <1>9, <1>10, <2>2, <2>3
  <2>5. Planned(u, g, x, Here(b), <<exit, 1>>)
    BY <2>4 DEF Planned
  <2>6. <<x, Here(b), <<exit, 1>> >> \in Plan(u, g)
    BY <1>1, <2>1, <2>2, <2>5, PlanMember
  <2> QED
    BY <2>2, <2>6
<1>11. cur \notin B
  BY <1>2, <1>5
<1> HIDE DEF B
<1>12. \A d \in 0 .. n - 1 : d \in B \/ d = c.current => d \in A \/ d = cur
  BY <1>1, <1>3 DEF B, n
<1> QED
  BY <1>3, <1>9, <1>10, <1>11, <1>12, StepTaken DEF n

(* A pre-test loop.                                                         *)
LEMMA StepWhile ==
  ASSUME NEW u, IsUnit(u), NEW b, NEW A, Fits(u, b, A), b.todo # <<>>, Head(b.todo).do = "build",
         Head(b.todo).stmt.kind = "while"
  PROVE  Stepping(u, b, A, BuildWhile(Head(b.todo).stmt, b, Tail(b.todo)))
<1> DEFINE stmt == Head(b.todo).stmt
           cur == b.current
           n == Len(b.blocks)
           acts == Nth(b.blocks, cur).actions
           branch == Branch(stmt.cond, n + 1, n + 2)
           entered == Opened(b.blocks, 3, cur, Goto(n))
           blocks == Terminate(entered, n, branch)
           exit == n + 2
           now == n + 1
           B == A \cup {exit}
           c == Builder(BuildBlock(stmt.body) \o <<ToEnd(Goto(n), exit)>> \o Tail(b.todo), blocks, now)
<1>1. Head(b.todo) \in BuildItems(u) /\ n \in Nat /\ Len(acts) \in Nat
  BY FirstToDo
<1>2. cur \in 0 .. n - 1 /\ b.blocks \in Seq(Records(u)) /\ A \subseteq (0 .. n - 1) \ {cur}
  BY DEF Fits
<1>3. stmt \in Stmt(u) /\ stmt.cond \in Expr(u) /\ stmt.body \in BlocksIn(u)
  <2>1. stmt \in Stmt(u)
    BY <1>1 DEF BuildItems
  <2> QED
    BY <2>1 DEF IsUnit, IsStmt, Conditions
<1>4. branch \in Terminators(u) /\ Goto(n) \in Terminators(u)
  BY <1>1, <1>3 DEF Branch, Terminators
<1>5. BuildWhile(stmt, b, Tail(b.todo)) = c
  BY DEF BuildWhile, Opened
<1>6. /\ entered \in Seq(Records(u)) /\ Len(entered) = n + 3
      /\ Nth(entered, cur).actions = acts /\ Nth(entered, cur).terminator = Goto(n)
      /\ \A d \in 0 .. n - 1 : d # cur => Nth(entered, d) = Nth(b.blocks, d)
      /\ \A d \in n .. n + 3 - 1 : Nth(entered, d) = Untouched
  <2> DEFINE k == 3
             go == Goto(n)
  <2> HIDE DEF cur, acts, k, go
  <2>1. k \in Nat /\ cur \in 0 .. n - 1 /\ b.blocks \in Seq(Records(u)) /\ go \in Terminators(u)
    BY <1>2, <1>4 DEF k, go
  <2>2. IsOpened(u, b.blocks, k, cur, go, Opened(b.blocks, k, cur, go))
    BY <2>1, OpenedBlocks
  <2>3. IsOpened(u, b.blocks, 3, cur, go, entered)
    BY <2>2 DEF k, go
  <2> HIDE DEF entered
  <2> QED
    BY <2>3 DEF IsOpened, acts, go
<1> HIDE DEF entered, branch
<1>7. n \in 0 .. Len(entered) - 1 /\ cur \in 0 .. Len(entered) - 1 /\ n # cur
  BY <1>1, <1>2, <1>6
<1>8. /\ blocks \in Seq(Records(u)) /\ Len(blocks) = Len(entered)
      /\ Nth(blocks, n) = [actions |-> Nth(entered, n).actions, terminator |-> branch]
      /\ \A d \in 0 .. Len(entered) - 1 : d # n => Nth(blocks, d) = Nth(entered, d)
  <2> HIDE DEF n
  <2>1. IsTerminated(u, entered, n, branch, blocks)
    BY <1>4, <1>6, <1>7, TerminatedBlocks
  <2> HIDE DEF blocks
  <2> QED
    BY <2>1 DEF IsTerminated
<1> HIDE DEF c, blocks
<1>9. Len(<<>>) = 0 /\ Len(<<>>) + 1 = 1
  BY EmptySeq
<1>10. /\ Nth(blocks, n).actions = <<>> /\ Nth(blocks, n).terminator = branch
       /\ Nth(blocks, now).actions = <<>> /\ Nth(blocks, exit).actions = <<>>
       /\ Nth(blocks, cur).actions = acts /\ Nth(blocks, cur).terminator = Goto(n)
  <2>1. /\ n \in n .. n + 3 - 1 /\ now \in n .. n + 3 - 1 /\ exit \in n .. n + 3 - 1
        /\ now \in 0 .. Len(entered) - 1 /\ exit \in 0 .. Len(entered) - 1 /\ now # n /\ exit # n
    BY <1>1, <1>6
  <2>2. Nth(entered, n) = Untouched /\ Nth(blocks, now) = Untouched /\ Nth(blocks, exit) = Untouched
    BY <1>6, <1>8, <2>1
  <2>3. Nth(blocks, cur) = Nth(entered, cur)
    BY <1>7, <1>8
  <2> QED
    BY <1>6, <1>8, <2>2, <2>3 DEF Untouched
<1>11. \A d \in 0 .. n - 1 : d # cur => Nth(blocks, d) = Nth(b.blocks, d)
  <2>1. \A d \in 0 .. n - 1 : d \in 0 .. Len(entered) - 1 /\ d # n
    BY <1>1, <1>6
  <2> QED
    BY <1>6, <1>8, <2>1
<1>12. c.blocks = blocks /\ c.current = now
  BY DEF c, Builder
<1>13. Here(c) = <<now, 1>> /\ Here(b) = <<cur, Len(acts) + 1>>
  BY <1>9, <1>10, <1>12 DEF Here
<1> HIDE DEF B
<1>14. ASSUME Fits(u, c, B), NEW g, NEW r \in Places(g), Framed(u, b, A, g), Framed(u, c, B, g),
              <<DoBlock(stmt.body, TRUE), Here(c), r>> \in Same(u, g), ShownAt(g, r) = Goto(n)
       PROVE  <<DoStmt(stmt, TRUE), Here(b), <<exit, 1>> >> \in Same(u, g)
  <2>1. /\ cur \in 0 .. Len(c.blocks) - 1 /\ cur \notin B /\ cur # c.current
        /\ n \in 0 .. Len(c.blocks) - 1 /\ n \notin B /\ n # c.current
        /\ now \in 0 .. Len(c.blocks) - 1 /\ exit \in 0 .. Len(c.blocks) - 1
    <3>1. Len(c.blocks) = n + 3
      BY <1>6, <1>8, <1>12
    <3> QED
      BY <1>1, <1>2, <1>12, <3>1 DEF B
  <2>2. /\ <<n, 1>> \in Places(g) /\ <<now, 1>> \in Places(g) /\ <<exit, 1>> \in Places(g)
        /\ Here(b) \in Places(g)
    BY <1>14, <2>1, FramedShown
  <2>3. ShownAt(g, <<cur, Len(Nth(blocks, cur).actions) + 1>>) = Goto(n)
    BY <1>10, <1>12, <1>14, <2>1, DoneShown
  <2>4. ShownAt(g, <<n, Len(Nth(blocks, n).actions) + 1>>) = branch
    BY <1>10, <1>12, <1>14, <2>1, DoneShown
  <2>5. ShownAt(g, <<n, 1>>) = branch
    BY <1>9, <1>10, <2>4
  <2> QED
    BY <1>3, <1>10, <1>13, <1>14, <2>2, <2>3, <2>5, WhileLink DEF branch
<1>15. Stepping(u, b, A, c)
  <2>1. /\ n <= Len(blocks) /\ now \in n .. Len(blocks) - 1 /\ exit \in n .. Len(blocks) - 1
        /\ exit # now /\ Len(acts) <= Len(acts)
    BY <1>1, <1>6, <1>8
  <2> HIDE DEF now, exit
  <2> QED
    BY <1>3, <1>4, <1>8, <1>10, <1>11, <1>14, <2>1, StepBody DEF B, c
<1> QED
  BY <1>5, <1>15

(* A post-test loop.                                                        *)
LEMMA StepLoop ==
  ASSUME NEW u, IsUnit(u), NEW b, NEW A, Fits(u, b, A), b.todo # <<>>, Head(b.todo).do = "build",
         Head(b.todo).stmt.kind = "loop"
  PROVE  Stepping(u, b, A, BuildLoop(Head(b.todo).stmt, b, Tail(b.todo)))
<1> DEFINE stmt == Head(b.todo).stmt
           cur == b.current
           n == Len(b.blocks)
           acts == Nth(b.blocks, cur).actions
           exit == n + 1
           test == IF stmt.until THEN Branch(stmt.cond, exit, n) ELSE Branch(stmt.cond, n, exit)
           blocks == Opened(b.blocks, 2, cur, Goto(n))
           B == A \cup {exit}
           c == Builder(BuildBlock(stmt.body) \o <<ToEnd(test, exit)>> \o Tail(b.todo), blocks, n)
<1>1. Head(b.todo) \in BuildItems(u) /\ n \in Nat /\ Len(acts) \in Nat
  BY FirstToDo
<1>2. cur \in 0 .. n - 1 /\ b.blocks \in Seq(Records(u)) /\ A \subseteq (0 .. n - 1) \ {cur}
  BY DEF Fits
<1>3. stmt \in Stmt(u) /\ stmt.cond \in Expr(u) /\ stmt.body \in BlocksIn(u)
  <2>1. stmt \in Stmt(u)
    BY <1>1 DEF BuildItems
  <2> QED
    BY <2>1 DEF IsUnit, IsStmt, Conditions
<1>4. test \in Terminators(u) /\ Goto(n) \in Terminators(u)
  <2>1. Branch(stmt.cond, exit, n) \in Terminators(u) /\ Branch(stmt.cond, n, exit) \in Terminators(u)
    BY <1>1, <1>3 DEF Branch, Terminators
  <2> QED
    BY <1>1, <2>1 DEF Terminators
<1>5. BuildLoop(stmt, b, Tail(b.todo)) = c
  BY DEF BuildLoop, Opened
<1>6. /\ blocks \in Seq(Records(u)) /\ Len(blocks) = n + 2
      /\ Nth(blocks, cur).actions = acts /\ Nth(blocks, cur).terminator = Goto(n)
      /\ \A d \in 0 .. n - 1 : d # cur => Nth(blocks, d) = Nth(b.blocks, d)
      /\ \A d \in n .. n + 2 - 1 : Nth(blocks, d) = Untouched
  <2> DEFINE k == 2
             go == Goto(n)
  <2> HIDE DEF cur, acts, k, go
  <2>1. k \in Nat /\ cur \in 0 .. n - 1 /\ b.blocks \in Seq(Records(u)) /\ go \in Terminators(u)
    BY <1>2, <1>4 DEF k, go
  <2>2. IsOpened(u, b.blocks, k, cur, go, Opened(b.blocks, k, cur, go))
    BY <2>1, OpenedBlocks
  <2>3. IsOpened(u, b.blocks, 2, cur, go, blocks)
    BY <2>2 DEF k, go
  <2> HIDE DEF blocks
  <2> QED
    BY <2>3 DEF IsOpened, acts, go
<1> HIDE DEF blocks, c
<1>7. Len(<<>>) = 0 /\ Len(<<>>) + 1 = 1
  BY EmptySeq
<1>8. Nth(blocks, n).actions = <<>> /\ Nth(blocks, exit).actions = <<>>
  <2>1. n \in n .. n + 2 - 1 /\ exit \in n .. n + 2 - 1
    BY <1>1
  <2> QED
    BY <1>6, <2>1 DEF Untouched
<1>9. c.blocks = blocks /\ c.current = n
  BY DEF c, Builder
<1>10. Here(c) = <<n, 1>> /\ Here(b) = <<cur, Len(acts) + 1>>
  BY <1>7, <1>8, <1>9 DEF Here
<1> HIDE DEF B
<1>11. ASSUME Fits(u, c, B), NEW g, NEW r \in Places(g), Framed(u, b, A, g), Framed(u, c, B, g),
              <<DoBlock(stmt.body, TRUE), Here(c), r>> \in Same(u, g), ShownAt(g, r) = test
       PROVE  <<DoStmt(stmt, TRUE), Here(b), <<exit, 1>> >> \in Same(u, g)
  <2>1. /\ cur \in 0 .. Len(c.blocks) - 1 /\ cur \notin B /\ cur # c.current
        /\ n \in 0 .. Len(c.blocks) - 1 /\ exit \in 0 .. Len(c.blocks) - 1
    <3>1. Len(c.blocks) = n + 2
      BY <1>6, <1>9
    <3> QED
      BY <1>1, <1>2, <1>9, <3>1 DEF B
  <2>2. <<n, 1>> \in Places(g) /\ <<exit, 1>> \in Places(g) /\ Here(b) \in Places(g)
    BY <1>11, <2>1, FramedShown
  <2>3. ShownAt(g, <<cur, Len(Nth(blocks, cur).actions) + 1>>) = Goto(n)
    <3>1. ShownAt(g, <<cur, Len(Nth(c.blocks, cur).actions) + 1>>) = Nth(c.blocks, cur).terminator
      BY <1>11, <2>1, DoneShown
    <3> QED
      BY <1>6, <1>9, <3>1
  <2>4. ShownAt(g, r) = IF stmt.until THEN Branch(stmt.cond, exit, n)
                                      ELSE Branch(stmt.cond, n, exit)
    BY <1>11
  <2> QED
    BY <1>3, <1>6, <1>10, <1>11, <2>2, <2>3, <2>4, LoopLink
<1>12. Stepping(u, b, A, c)
  <2>1. /\ n <= Len(blocks) /\ n \in n .. Len(blocks) - 1 /\ exit \in n .. Len(blocks) - 1
        /\ exit # n /\ Len(acts) <= Len(acts)
    BY <1>1, <1>6
  <2> HIDE DEF exit, test
  <2> QED
    BY <1>3, <1>4, <1>6, <1>8, <1>11, <2>1, StepBody DEF B, c
<1> QED
  BY <1>5, <1>12

(* The actions that bind the loop variables.                                *)
LEMMA BindsTyped ==
  ASSUME NEW u, IsUnit(u), NEW s \in Counted(u)
  PROVE  LET binds == [i \in DOMAIN s.binders |-> Bind(s.binders[i])] IN
         /\ binds \in Seq(ShownActions(u)) /\ Len(binds) = Len(s.binders)
         /\ Len(s.binders) \in Nat /\ DOMAIN s.binders = 1 .. Len(s.binders)
         /\ \A i \in 1 .. Len(s.binders) : binds[i] = Bind(s.binders[i])
<1> DEFINE binds == [i \in DOMAIN s.binders |-> Bind(s.binders[i])]
           n == Len(s.binders)
<1>1. s.binders \in Seq(ToSet(s.binders))
  BY DEF Counted, IsUnit, IsStmt
<1>2. n \in Nat /\ DOMAIN s.binders = 1 .. n /\ \A i \in 1 .. n : s.binders[i] \in ToSet(s.binders)
  BY <1>1, LenProperties, ElementOfSeq
<1>3. ASSUME NEW i \in 1 .. n PROVE Bind(s.binders[i]) \in ShownActions(u)
  <2>1. s.binders[i] \in LoopVariables(u)
    BY <1>2 DEF LoopVariables
  <2> QED
    BY <2>1 DEF Bind, ShownActions
<1>4. binds \in [1 .. n -> ShownActions(u)] /\ DOMAIN binds = 1 .. n
  BY <1>2, <1>3
<1>5. \A i \in 1 .. n : binds[i] = Bind(s.binders[i])
  BY <1>2
<1> HIDE DEF binds, n
<1>6. binds \in Seq(ShownActions(u))
  BY <1>2, <1>4, SeqDef
<1>7. Len(binds) = n
  BY <1>2, <1>4, <1>6, LenProperties
<1> QED
  BY <1>2, <1>5, <1>6, <1>7 DEF binds, n

(* A `for`: the source is evaluated where the current block ends, and each  *)
(* pass binds the loop variables first.                                     *)
LEMMA StepFor ==
  ASSUME NEW u, IsUnit(u), NEW b, NEW A, Fits(u, b, A), b.todo # <<>>, Head(b.todo).do = "build",
         Head(b.todo).stmt.kind = "for"
  PROVE  Stepping(u, b, A, BuildCountedLoop(Head(b.todo).stmt, b, Tail(b.todo)))
<1> DEFINE stmt == Head(b.todo).stmt
           cur == b.current
           n == Len(b.blocks)
           acts == Nth(b.blocks, cur).actions
           k == Len(acts)
           e == Evaluate(stmt.source)
           more == acts \o <<e>>
           binds == [i \in DOMAIN stmt.binders |-> Bind(stmt.binders[i])]
           v == Len(stmt.binders)
           branch == Branch(stmt.source, n + 1, n + 2)
           evaluated == Push(b.blocks, cur, <<e>>)
           entered == Opened(evaluated, 3, cur, Goto(n))
           tested == Terminate(entered, n, branch)
           exit == n + 2
           now == n + 1
           blocks == Push(tested, now, binds)
           B == A \cup {exit}
           c == Builder(BuildBlock(stmt.body) \o <<ToEnd(Goto(n), exit)>> \o Tail(b.todo), blocks, now)
<1>1. /\ Head(b.todo) \in BuildItems(u) /\ n \in Nat /\ k \in Nat
      /\ acts \in Seq(ShownActions(u))
  BY FirstToDo DEF Records
<1>2. cur \in 0 .. n - 1 /\ b.blocks \in Seq(Records(u)) /\ A \subseteq (0 .. n - 1) \ {cur}
  BY DEF Fits
<1>3. stmt \in Counted(u) /\ stmt.source \in Expr(u) /\ stmt.body \in BlocksIn(u)
  <2>1. stmt \in Stmt(u)
    BY <1>1 DEF BuildItems
  <2> QED
    BY <2>1 DEF IsUnit, IsStmt, Counted
<1>4. branch \in Terminators(u) /\ Goto(n) \in Terminators(u) /\ e \in ShownActions(u)
  BY <1>1, <1>3 DEF Branch, Terminators, Evaluate, ShownActions
<1>5. BuildCountedLoop(stmt, b, Tail(b.todo)) = c
  BY DEF BuildCountedLoop, Opened
<1>6. /\ binds \in Seq(ShownActions(u)) /\ Len(binds) = v /\ v \in Nat
      /\ DOMAIN stmt.binders = 1 .. v /\ \A i \in 1 .. v : binds[i] = Bind(stmt.binders[i])
  BY <1>3, BindsTyped
<1>7. <<e>> \in Seq(ShownActions(u)) /\ Len(<<e>>) = 1 /\ <<e>>[1] = e
  BY <1>4, Single
<1>8. /\ Len(more) = k + 1
      /\ \A i \in 1 .. k + 1 : more[i] = IF i <= k THEN acts[i] ELSE <<e>>[i - k]
  BY <1>1, <1>7, ConcatProperties
<1> HIDE DEF e, more, k, c
<1>9. more[k + 1] = e /\ \A i \in 1 .. k : more[i] = acts[i]
  <2>1. k + 1 \in 1 .. k + 1 /\ ~(k + 1 <= k) /\ k + 1 - k = 1
    BY <1>1
  <2>2. more[k + 1] = <<e>>[1]
    BY <1>1, <1>8, <2>1
  <2> QED
    BY <1>1, <1>7, <1>8, <2>2
<1>10. /\ evaluated \in Seq(Records(u)) /\ Len(evaluated) = n
       /\ Nth(evaluated, cur).actions = more
       /\ \A d \in 0 .. n - 1 : d # cur => Nth(evaluated, d) = Nth(b.blocks, d)
  <2>1. IsPushed(u, b.blocks, cur, <<e>>, evaluated)
    BY <1>2, <1>7, PushedBlocks
  <2> HIDE DEF evaluated
  <2> QED
    BY <2>1 DEF IsPushed, more
<1> HIDE DEF evaluated
<1>11. /\ entered \in Seq(Records(u)) /\ Len(entered) = n + 3
       /\ Nth(entered, cur).actions = more /\ Nth(entered, cur).terminator = Goto(n)
       /\ \A d \in 0 .. n - 1 : d # cur => Nth(entered, d) = Nth(b.blocks, d)
       /\ \A d \in n .. n + 3 - 1 : Nth(entered, d) = Untouched
  <2> DEFINE j == 3
             go == Goto(n)
  <2> HIDE DEF cur, acts, j, go
  <2>1. /\ j \in Nat /\ cur \in 0 .. Len(evaluated) - 1 /\ evaluated \in Seq(Records(u))
        /\ go \in Terminators(u)
    BY <1>2, <1>4, <1>10 DEF j, go
  <2>2. IsOpened(u, evaluated, j, cur, go, Opened(evaluated, j, cur, go))
    BY <2>1, OpenedBlocks
  <2>3. IsOpened(u, evaluated, 3, cur, go, entered)
    BY <2>2 DEF j, go
  <2> HIDE DEF entered, n
  <2> QED
    BY <1>10, <2>3 DEF IsOpened, go
<1> HIDE DEF entered, branch, n
<1>12. /\ n \in 0 .. Len(entered) - 1 /\ cur \in 0 .. Len(entered) - 1 /\ n # cur
       /\ now \in 0 .. Len(entered) - 1 /\ exit \in 0 .. Len(entered) - 1
       /\ now # n /\ exit # n /\ now # cur /\ now # exit
  BY <1>1, <1>2, <1>11 DEF n
<1>13. /\ tested \in Seq(Records(u)) /\ Len(tested) = Len(entered)
       /\ Nth(tested, n) = [actions |-> Nth(entered, n).actions, terminator |-> branch]
       /\ \A d \in 0 .. Len(entered) - 1 : d # n => Nth(tested, d) = Nth(entered, d)
  <2>1. IsTerminated(u, entered, n, branch, tested)
    BY <1>4, <1>11, <1>12, TerminatedBlocks DEF n
  <2> HIDE DEF tested
  <2> QED
    BY <2>1 DEF IsTerminated
<1> HIDE DEF tested, binds, now
<1>14. /\ blocks \in Seq(Records(u)) /\ Len(blocks) = Len(entered)
       /\ Nth(blocks, now).actions = Nth(tested, now).actions \o binds
       /\ \A d \in 0 .. Len(entered) - 1 : d # now => Nth(blocks, d) = Nth(tested, d)
  <2>1. IsPushed(u, tested, now, binds, blocks)
    BY <1>6, <1>12, <1>13, PushedBlocks
  <2> HIDE DEF blocks
  <2> QED
    BY <1>13, <2>1 DEF IsPushed
<1> HIDE DEF blocks
<1>15. Len(<<>>) = 0 /\ Len(<<>>) + 1 = 1
  BY EmptySeq
<1>16. /\ n \in n .. n + 3 - 1 /\ now \in n .. n + 3 - 1 /\ exit \in n .. n + 3 - 1
  BY <1>1 DEF now, n
<1>17. Nth(entered, n) = Untouched /\ Nth(entered, now) = Untouched /\ Nth(entered, exit) = Untouched
  BY <1>11, <1>16
<1>18. Nth(blocks, n).actions = <<>> /\ Nth(blocks, n).terminator = branch
  <2>1. Nth(blocks, n) = Nth(tested, n)
    BY <1>12, <1>14
  <2> QED
    BY <1>13, <1>17, <2>1 DEF Untouched
<1>19. Nth(blocks, exit).actions = <<>>
  <2>1. Nth(blocks, exit) = Nth(entered, exit)
    BY <1>12, <1>13, <1>14
  <2> QED
    BY <1>17, <2>1 DEF Untouched
<1>20. Nth(blocks, now).actions = binds
  <2>1. Nth(tested, now) = Nth(entered, now)
    BY <1>12, <1>13
  <2>2. Nth(blocks, now).actions = <<>> \o binds
    BY <1>14, <1>17, <2>1 DEF Untouched
  <2> QED
    BY <1>6, <2>2, ConcatEmptySeq
<1>21. Nth(blocks, cur).actions = more /\ Nth(blocks, cur).terminator = Goto(n)
  <2>1. Nth(blocks, cur) = Nth(entered, cur)
    BY <1>12, <1>13, <1>14
  <2> QED
    BY <1>11, <2>1
<1>22. \A d \in 0 .. n - 1 : d # cur => Nth(blocks, d) = Nth(b.blocks, d)
  <2>1. \A d \in 0 .. n - 1 : d \in 0 .. Len(entered) - 1 /\ d # n /\ d # now
    BY <1>1, <1>11 DEF n, now
  <2> QED
    BY <1>11, <1>13, <1>14, <2>1
<1>23. c.blocks = blocks /\ c.current = now
  BY DEF c, Builder
<1>24. Here(c) = <<now, v + 1>> /\ Here(b) = <<cur, k + 1>>
  BY <1>6, <1>20, <1>23 DEF Here, k
<1> HIDE DEF B, cur, v, exit, acts
<1>25. ASSUME Fits(u, c, B), NEW g, NEW r \in Places(g), Framed(u, b, A, g), Framed(u, c, B, g),
              <<DoBlock(stmt.body, TRUE), Here(c), r>> \in Same(u, g), ShownAt(g, r) = Goto(n)
       PROVE  <<DoStmt(stmt, TRUE), Here(b), <<exit, 1>> >> \in Same(u, g)
  <2>1. Len(c.blocks) = n + 3
    BY <1>11, <1>14, <1>23
  <2>2. /\ cur \in 0 .. Len(c.blocks) - 1 /\ cur \notin B /\ cur # c.current
        /\ n \in 0 .. Len(c.blocks) - 1 /\ n \notin B /\ n # c.current
        /\ now \in 0 .. Len(c.blocks) - 1 /\ exit \in 0 .. Len(c.blocks) - 1
    <3>1. cur \notin A /\ n \notin A /\ exit # cur
      BY <1>1, <1>2 DEF n, cur, exit
    <3>2. cur \notin B /\ n \notin B
      BY <1>12, <3>1 DEF B
    <3> QED
      BY <1>12, <1>14, <1>23, <3>2
  <2>3. /\ <<n, 1>> \in Places(g) /\ <<now, 1>> \in Places(g) /\ <<exit, 1>> \in Places(g)
        /\ Here(b) \in Places(g) /\ Here(c) \in Places(g)
    BY <1>25, <2>2, FramedShown
  <2>4. \A i \in 1 .. Len(Nth(c.blocks, cur).actions) + 1 : <<cur, i>> \in Places(g)
    BY <1>25, <2>2, FramedShown
  <2>5. ASSUME NEW i \in 1 .. Len(Nth(c.blocks, cur).actions)
        PROVE  ShownAt(g, <<cur, i>>) = Nth(c.blocks, cur).actions[i]
    BY <1>25, <2>2, DoneActions
  <2>6. ShownAt(g, <<cur, Len(Nth(c.blocks, cur).actions) + 1>>) = Nth(c.blocks, cur).terminator
    BY <1>25, <2>2, DoneShown
  <2>7. After(Here(b), 1) = <<cur, k + 2>>
    BY <1>1, <1>24 DEF After
  <2>8. /\ After(Here(b), 1) \in Places(g) /\ ShownAt(g, Here(b)) = e
        /\ ShownAt(g, After(Here(b), 1)) = Goto(n)
    <3>1. Nth(c.blocks, cur).actions = more /\ Nth(c.blocks, cur).terminator = Goto(n)
      BY <1>21, <1>23
    <3>2. k + 2 \in 1 .. (k + 1) + 1 /\ k + 2 = (k + 1) + 1 /\ k + 1 \in 1 .. k + 1
      BY <1>1
    <3>3. <<cur, k + 2>> \in Places(g)
      BY <1>8, <2>4, <3>1, <3>2
    <3>4. ShownAt(g, <<cur, k + 1>>) = more[k + 1]
      BY <1>8, <2>5, <3>1, <3>2
    <3>5. ShownAt(g, <<cur, k + 2>>) = Goto(n)
      BY <1>8, <2>6, <3>1, <3>2
    <3> QED
      BY <1>9, <1>24, <2>7, <3>3, <3>4, <3>5
  <2>9. ShownAt(g, <<n, 1>>) = branch
    <3>1. ShownAt(g, <<n, Len(Nth(c.blocks, n).actions) + 1>>) = Nth(c.blocks, n).terminator
      BY <1>25, <2>2, DoneShown
    <3> QED
      BY <1>15, <1>18, <1>23, <3>1
  <2>10. ASSUME NEW i \in 1 .. v
         PROVE  ShownAt(g, After(<<now, 1>>, i - 1)) = Bind(stmt.binders[i])
    <3>1. \A j \in 1 .. Len(Nth(c.blocks, c.current).actions) :
            ShownAt(g, <<c.current, j>>) = Nth(c.blocks, c.current).actions[j]
      BY <1>25, FramedShown
    <3>2. ShownAt(g, <<now, i>>) = binds[i]
      BY <1>6, <1>20, <1>23, <3>1
    <3>3. After(<<now, 1>>, i - 1) = <<now, i>>
      BY <1>6 DEF After
    <3> QED
      BY <1>6, <3>2, <3>3
  <2>11. After(<<now, 1>>, v) = Here(c)
    BY <1>6, <1>24 DEF After
  <2> HIDE DEF stmt
  <2>12. \A i \in DOMAIN stmt.binders :
           ShownAt(g, After(<<now, 1>>, i - 1)) = Bind(stmt.binders[i])
    BY <1>6, <2>10
  <2>13. /\ <<DoBlock(stmt.body, TRUE), After(<<now, 1>>, Len(stmt.binders)), r>> \in Same(u, g)
         /\ After(<<now, 1>>, Len(stmt.binders)) \in Places(g)
    BY <1>25, <2>3, <2>11 DEF v
  <2>14. ShownAt(g, Here(b)) = Evaluate(stmt.source)
    BY <2>8 DEF e
  <2>15. ShownAt(g, <<n, 1>>) = Branch(stmt.source, now, exit)
    BY <2>9 DEF branch, now, exit
  <2> QED
    BY <1>3, <1>25, <2>3, <2>8, <2>12, <2>13, <2>14, <2>15, CountedLink
<1>26. Stepping(u, b, A, c)
  <2>1. /\ n <= Len(blocks) /\ now \in n .. Len(blocks) - 1 /\ exit \in n .. Len(blocks) - 1
        /\ exit # now
    BY <1>1, <1>11, <1>12, <1>14 DEF n, now, exit
  <2>2. /\ Len(acts) <= Len(Nth(blocks, cur).actions)
        /\ \A i \in 1 .. Len(acts) : Nth(blocks, cur).actions[i] = acts[i]
    BY <1>1, <1>8, <1>9, <1>21 DEF k
  <2> HIDE DEF stmt
  <2>3. c = Builder(BuildBlock(stmt.body) \o <<ToEnd(Goto(n), exit)>> \o Tail(b.todo), blocks, now)
    BY DEF c
  <2> QED
    BY <1>3, <1>4, <1>14, <1>19, <1>22, <1>25, <2>1, <2>2, <2>3, StepBody DEF B, n, cur, acts, stmt
<1> QED
  BY <1>5, <1>26

(* Whatever there is to do, its step may be taken.                          *)
LEMMA EveryStep ==
  ASSUME NEW u, IsUnit(u), NEW b, NEW A, Fits(u, b, A), b.todo # <<>>
  PROVE  Stepping(u, b, A, BuildStep(b))
<1> DEFINE x == Head(b.todo)
           rest == Tail(b.todo)
<1>1. x \in BuildItems(u)
  BY FirstToDo
<1>2. CASE x.do = "build"
  <2>1. x.stmt \in Stmt(u) /\ BuildStep(b) = BuildStmt(x.stmt, b, rest)
    BY <1>1, <1>2 DEF BuildItems, BuildStep
  <2>2. IsStmt(u, x.stmt)
    BY <2>1 DEF IsUnit
  <2>3. CASE x.stmt.kind = "expr" /\ x.stmt.expr.kind = "if"
    <3>1. BuildStmt(x.stmt, b, rest) = BuildIf(x.stmt.expr, b, rest)
      BY <2>3 DEF BuildStmt
    <3> QED
      BY <1>2, <2>1, <2>3, <3>1, StepIf
  <2>4. CASE x.stmt.kind = "while"
    <3>1. BuildStmt(x.stmt, b, rest) = BuildWhile(x.stmt, b, rest)
      BY <2>4 DEF BuildStmt
    <3> QED
      BY <1>2, <2>1, <2>4, <3>1, StepWhile
  <2>5. CASE x.stmt.kind = "loop"
    <3>1. BuildStmt(x.stmt, b, rest) = BuildLoop(x.stmt, b, rest)
      BY <2>5 DEF BuildStmt
    <3> QED
      BY <1>2, <2>1, <2>5, <3>1, StepLoop
  <2>6. CASE x.stmt.kind = "for"
    <3>1. BuildStmt(x.stmt, b, rest) = BuildCountedLoop(x.stmt, b, rest)
      BY <2>6 DEF BuildStmt
    <3> QED
      BY <1>2, <2>1, <2>6, <3>1, StepFor
  <2>7. CASE (x.stmt.kind = "expr" /\ x.stmt.expr.kind # "if") \/ x.stmt.kind = "assign"
    <3> DEFINE a == Statement(x.stmt)
    <3>1. BuildStmt(x.stmt, b, rest) = Builder(rest, Push(b.blocks, b.current, <<a>>), b.current)
      BY <2>7 DEF BuildStmt
    <3>2. a \in ShownActions(u)
      BY <2>1 DEF Statement, ShownActions
    <3>3. ASSUME NEW g, NEW p \in Places(g), ShownAt(g, p) = a, After(p, 1) \in Places(g)
          PROVE  Planned(u, g, x, p, After(p, 1))
      <4>1. <<DoStmt(x.stmt, TRUE), p, After(p, 1)>> \in Same(u, g)
        BY <2>1, <2>7, <3>3, AtomicLink
      <4> QED
        BY <1>2, <4>1 DEF Planned
    <3> HIDE DEF a
    <3> QED
      BY <1>2, <2>1, <3>1, <3>2, <3>3, StepPush
  <2> QED
    BY <2>2, <2>3, <2>4, <2>5, <2>6, <2>7 DEF IsStmt
<1>3. CASE x.do = "yield"
  <2> DEFINE a == Evaluate(x.expr)
  <2>1. BuildStep(b) = Builder(rest, Push(b.blocks, b.current, <<a>>), b.current)
    BY <1>3 DEF BuildStep
  <2>2. a \in ShownActions(u)
    BY <1>1, <1>3 DEF BuildItems, Evaluate, ShownActions
  <2>3. ASSUME NEW g, NEW p \in Places(g), ShownAt(g, p) = a, After(p, 1) \in Places(g)
        PROVE  Planned(u, g, x, p, After(p, 1))
    BY <1>3, <2>3 DEF Planned
  <2> HIDE DEF a
  <2> QED
    BY <1>3, <2>1, <2>2, <2>3, StepPush
<1>4. CASE x.do = "test"
  <2>1. BuildStep(b) = BuildArm(x.arms, x.elseBlock, x.merge, b, rest)
    BY <1>4 DEF BuildStep
  <2> QED
    BY <1>4, <2>1, StepElse, StepArm
<1>5. CASE x.do = "end"
  <2>1. BuildStep(b) = Builder(rest, Terminate(b.blocks, b.current, x.terminator), x.next)
    BY <1>5 DEF BuildStep
  <2> QED
    BY <1>5, <2>1, StepEnd
<1> QED
  BY <1>1, <1>2, <1>3, <1>4, <1>5 DEF BuildItems

(* And where nothing is left to do, a step does nothing.                    *)
LEMMA StepOn ==
  ASSUME NEW u, IsUnit(u), NEW b, NEW A, Fits(u, b, A)
  PROVE  Stepping(u, b, A, BuildStep(b))
<1>1. CASE b.todo = <<>>
  <2>1. BuildStep(b) = b
    BY <1>1 DEF BuildStep
  <2> QED
    BY <2>1 DEF Stepping
<1> QED
  BY <1>1, EveryStep

-----------------------------------------------------------------------------
(* The walk, step after step.                                               *)

(* A set of numbers has a least one.                                        *)
LEMMA LeastNumber ==
  ASSUME NEW T \in SUBSET Nat, T # {}
  PROVE  \E x \in T : \A y \in T : x <= y
<1> DEFINE R == {ss \in Nat \X Nat : ss[1] < ss[2]}
<1>1. IsWellFoundedOn(R, Nat)
  BY NatLessThanWellFounded DEF OpToRel
<1>2. \A x, y \in Nat : <<y, x>> \in R <=> y < x
  OBVIOUS
<1> HIDE DEF R
<1>3. \E x \in T : \A y \in T : ~ (<<y, x>> \in R)
  BY <1>1, WFMin
<1>4. PICK x \in T : \A y \in T : ~ (<<y, x>> \in R)
  BY <1>3
<1>5. \A y \in T : y \in Nat /\ x \in Nat /\ ~(y < x)
  BY <1>2, <1>4
<1> QED
  BY <1>5

(* A set of numbers with 0 that is closed under successor has them all.     *)
LEMMA Induction ==
  ASSUME NEW T, 0 \in T, \A n \in Nat : n \in T => n + 1 \in T
  PROVE  Nat \subseteq T
<1> SUFFICES ASSUME Nat \ T # {} PROVE FALSE
  OBVIOUS
<1>1. PICK x \in Nat \ T : \A y \in Nat \ T : x <= y
  BY LeastNumber
<1>2. x - 1 \in Nat /\ ~(x <= x - 1)
  BY <1>1
<1> QED
  BY <1>1, <1>2

(* What f holds up to m begins with a, and G leads from each to the next.   *)
Recurs(f, m, a, G) == \A n \in 0 .. m : f[n] = IF n = 0 THEN a ELSE G[f[n - 1]]

(* Such functions exist,  *)
LEMMA RecursionUpTo ==
  ASSUME NEW S, NEW a \in S, NEW G \in [S -> S]
  PROVE  \A m \in Nat : \E f \in [0 .. m -> S] : Recurs(f, m, a, G)
<1> DEFINE T == {m \in Nat : \E f \in [0 .. m -> S] : Recurs(f, m, a, G)}
<1>1. 0 \in T
  <2> DEFINE f == [n \in 0 .. 0 |-> a]
  <2>1. f \in [0 .. 0 -> S] /\ Recurs(f, 0, a, G)
    BY DEF Recurs
  <2> QED
    BY <2>1
<1>2. ASSUME NEW m \in Nat, m \in T PROVE m + 1 \in T
  <2>1. PICK f \in [0 .. m -> S] : Recurs(f, m, a, G)
    BY <1>2
  <2> DEFINE g == [n \in 0 .. m + 1 |-> IF n = m + 1 THEN G[f[m]] ELSE f[n]]
  <2>2. g \in [0 .. m + 1 -> S]
    BY <2>1
  <2>3. Recurs(g, m + 1, a, G)
    BY <2>1 DEF Recurs
  <2> HIDE DEF g
  <2> QED
    BY <2>2, <2>3
<1> HIDE DEF T
<1>3. Nat \subseteq T
  BY <1>1, <1>2, Induction
<1> QED
  BY <1>3 DEF T

(* and agree as far as they go.                                             *)
LEMMA RecursionUnique ==
  ASSUME NEW a, NEW G, NEW m \in Nat, NEW k \in Nat, NEW f, NEW g,
         Recurs(f, m, a, G), Recurs(g, k, a, G)
  PROVE  \A n \in Nat : n <= m /\ n <= k => f[n] = g[n]
<1> DEFINE T == {n \in Nat : n <= m /\ n <= k => f[n] = g[n]}
<1>1. 0 \in T
  BY DEF Recurs
<1>2. ASSUME NEW n \in Nat, n \in T PROVE n + 1 \in T
  BY <1>2 DEF Recurs
<1> HIDE DEF T
<1>3. Nat \subseteq T
  BY <1>1, <1>2, Induction
<1> QED
  BY <1>3 DEF T

(* So there is one on all numbers.                                          *)
LEMMA Recursion ==
  ASSUME NEW S, NEW a \in S, NEW G \in [S -> S]
  PROVE  \E f \in [Nat -> S] : \A n \in Nat : f[n] = IF n = 0 THEN a ELSE G[f[n - 1]]
<1> DEFINE F == [m \in Nat |-> CHOOSE f \in [0 .. m -> S] : Recurs(f, m, a, G)]
           h == [n \in Nat |-> F[n][n]]
<1>1. \A m \in Nat : F[m] \in [0 .. m -> S] /\ Recurs(F[m], m, a, G)
  BY RecursionUpTo
<1> HIDE DEF F
<1>2. \A m, k, n \in Nat : n <= m /\ n <= k => F[m][n] = F[k][n]
  BY <1>1, RecursionUnique
<1>3. ASSUME NEW n \in Nat
      PROVE  /\ F[n][n] \in S
             /\ F[n][n] = IF n = 0 THEN a ELSE G[F[n - 1][n - 1]]
  <2> n \in 0 .. n
    OBVIOUS
  <2>1. /\ F[n] \in [0 .. n -> S]
        /\ F[n][n] = IF n = 0 THEN a ELSE G[F[n][n - 1]]
    BY <1>1 DEF Recurs
  <2>2. CASE n = 0
    BY <2>1, <2>2
  <2>3. CASE n # 0
    <3>1. n - 1 \in Nat /\ F[n][n - 1] = F[n - 1][n - 1]
      BY <1>2, <2>3
    <3> QED
      BY <2>1, <2>3, <3>1
  <2> QED
    BY <2>2, <2>3
<1>4. h \in [Nat -> S]
  BY <1>3
<1>5. \A n \in Nat : h[n] = IF n = 0 THEN a ELSE G[h[n - 1]]
  BY <1>3
<1> HIDE DEF h
<1> QED
  BY <1>4, <1>5

-----------------------------------------------------------------------------
(* The builders of a walk.                                                  *)

Builders(u) ==
  {b \in [todo : Seq(BuildItems(u)), blocks : Seq(Records(u)), current : Nat] :
     \E A : Fits(u, b, A)}

(* A builder that was made and fits is one of them.                         *)
LEMMA MadeBuilder ==
  ASSUME NEW u, NEW todos, NEW blocks, NEW current, NEW A,
         Fits(u, Builder(todos, blocks, current), A)
  PROVE  Builder(todos, blocks, current) \in Builders(u)
<1> DEFINE b == Builder(todos, blocks, current)
<1>1. b.todo = todos /\ b.blocks = blocks /\ b.current = current
  BY DEF Builder
<1>2. b.todo \in Seq(BuildItems(u)) /\ b.blocks \in Seq(Records(u)) /\ b.current \in Nat
  BY LenProperties DEF Fits
<1>3. b \in [todo : Seq(BuildItems(u)), blocks : Seq(Records(u)), current : Nat]
  BY <1>1, <1>2 DEF Builder
<1> QED
  BY <1>3 DEF Builders

(* A step makes one of one.                                                 *)
LEMMA StepBuilder ==
  ASSUME NEW u, IsUnit(u), NEW b \in Builders(u)
  PROVE  BuildStep(b) \in Builders(u)
<1>1. PICK A : Fits(u, b, A)
  BY DEF Builders
<1>2. PICK B : Fits(u, BuildStep(b), B)
  BY <1>1, StepOn DEF Stepping
<1>3. CASE b.todo = <<>>
  BY <1>3 DEF BuildStep
<1>4. CASE b.todo # <<>>
  <2> DEFINE x == Head(b.todo)
             rest == Tail(b.todo)
  <2>1. x \in BuildItems(u)
    BY <1>1, <1>4, FirstToDo
  <2> HIDE DEF x, rest
  <2>2. \E ts, bs, c : BuildStep(b) = Builder(ts, bs, c)
    <3>1. CASE x.do = "build"
      <4>1. BuildStep(b) = BuildStmt(x.stmt, b, rest)
        BY <1>4, <3>1 DEF BuildStep, x, rest
      <4>2. \/ BuildStep(b) = BuildIf(x.stmt.expr, b, rest)
            \/ BuildStep(b) = BuildWhile(x.stmt, b, rest)
            \/ BuildStep(b) = BuildLoop(x.stmt, b, rest)
            \/ BuildStep(b) = BuildCountedLoop(x.stmt, b, rest)
            \/ BuildStep(b) = Builder(rest, Push(b.blocks, b.current, <<Statement(x.stmt)>>), b.current)
        <5>1. x.stmt \in Stmt(u)
          BY <2>1, <3>1 DEF BuildItems
        <5>2. IsStmt(u, x.stmt)
          BY <5>1 DEF IsUnit
        <5> QED
          BY <4>1, <5>2 DEF BuildStmt, IsStmt
      <4> QED
        BY <4>2 DEF BuildIf, BuildWhile, BuildLoop, BuildCountedLoop
    <3>2. CASE x.do = "yield"
      BY <1>4, <3>2 DEF BuildStep, x
    <3>3. CASE x.do = "test"
      <4>1. BuildStep(b) = BuildArm(x.arms, x.elseBlock, x.merge, b, rest)
        BY <1>4, <3>3 DEF BuildStep, x, rest
      <4> QED
        BY <4>1 DEF BuildArm
    <3>4. CASE x.do = "end"
      BY <1>4, <3>4 DEF BuildStep, x
    <3> QED
      BY <2>1, <3>1, <3>2, <3>3, <3>4 DEF BuildItems
  <2> QED
    BY <1>2, <2>2, MadeBuilder
<1> QED
  BY <1>3, <1>4

(* The builder a walk starts from.                                          *)
LEMMA StartFits ==
  ASSUME NEW u, IsUnit(u)
  PROVE  /\ Fits(u, Started(u), {}) /\ Started(u) \in Builders(u)
         /\ Here(Started(u)) = <<0, 1>>
         /\ Started(u).todo = [i \in DOMAIN UnitStmts(u) |-> ToBuild(UnitStmts(u)[i])]
<1> DEFINE stmts == UnitStmts(u)
           block == Block(stmts, Missing)
           builds == [i \in DOMAIN stmts |-> ToBuild(stmts[i])]
           blocks == Added(<<>>, 1)
           S == [do : {"build"}, stmt : Stmt(u)]
           b == Builder(BuildBlock(block), blocks, 0)
<1>1. block \in BlocksIn(u) /\ block.stmts = stmts /\ block.result = Missing
  BY DEF Block, BlocksIn, IsUnit
<1>2. builds \in Seq(S) /\ S \subseteq BuildItems(u)
  <2>1. [i \in DOMAIN block.stmts |-> ToBuild(block.stmts[i])] \in Seq(S)
    BY <1>1, BuildTyped
  <2> QED
    BY <1>1, <2>1 DEF BuildItems
<1>3. BuildBlock(block) = builds
  <2>1. BuildBlock(block) = builds \o <<>>
    BY <1>1 DEF BuildBlock
  <2> QED
    BY <1>2, <2>1, ConcatEmptySeq
<1>4. b.todo = builds /\ b.blocks = blocks /\ b.current = 0
  BY <1>3 DEF Builder
<1>5. builds \in Seq(BuildItems(u))
  BY <1>2, SeqMonotonic
<1>6. Chain(Awaited(u), builds, {}, {})
  <2>1. \A x \in S : <<x, {}, {}>> \in Awaited(u)
    BY <1>2 DEF Awaited
  <2> QED
    BY <1>2, <2>1, ChainQuiet
<1>7. /\ blocks \in Seq(Records(u)) /\ Len(blocks) = 1 /\ Nth(blocks, 0) = Untouched
  <2>1. <<>> \in Seq(Records(u)) /\ Len(<<>>) = 0 /\ 1 \in Nat
    BY EmptySeq
  <2>2. blocks \in Seq(Records(u)) /\ Len(blocks) = Len(<<>>) + 1
    BY <2>1, AddedBlocks
  <2>3. \A i \in 0 .. 1 - 1 : Nth(blocks, Len(<<>>) + i) = Untouched
    BY <2>1, AddedBlocks
  <2> HIDE DEF blocks
  <2>4. 0 \in 0 .. 1 - 1 /\ Len(<<>>) + 0 = 0
    BY <2>1
  <2> QED
    BY <2>1, <2>2, <2>3, <2>4
<1>8. Started(u) = b
  BY DEF Started
<1> HIDE DEF b, builds, blocks
<1>9. Fits(u, b, {})
  <2>1. 0 \in 0 .. Len(blocks) - 1
    BY <1>7
  <2> QED
    BY <1>4, <1>5, <1>6, <1>7, <2>1 DEF Fits
<1>10. Here(b) = <<0, 1>>
  <2>1. Nth(blocks, 0).actions = <<>> /\ Len(<<>>) + 1 = 1
    BY <1>7, EmptySeq DEF Untouched
  <2> QED
    BY <1>4, <2>1 DEF Here
<1>11. b \in Builders(u)
  BY <1>9, MadeBuilder DEF b
<1> QED
  BY <1>4, <1>8, <1>9, <1>10, <1>11 DEF builds

(* The recursion a walk is defined by.                                      *)
LEMMA WalkSteps ==
  ASSUME NEW u, IsUnit(u)
  PROVE  \E f \in [Nat -> Builders(u)] :
           /\ f[0] = Started(u)
           /\ \A n \in Nat : f[n + 1] = BuildStep(f[n])
           /\ Walk(u) = f[MaxBuildSteps]
<1> DEFINE S == Builders(u)
           a == Started(u)
           G == [b \in S |-> BuildStep(b)]
           R(f) == [n \in Nat |-> IF n = 0 THEN a ELSE BuildStep(f[n - 1])]
           W == CHOOSE g : g = R(g)
<1>1. a \in S
  BY StartFits
<1>2. G \in [S -> S] /\ \A b \in S : G[b] = BuildStep(b)
  BY StepBuilder
<1> HIDE DEF S, a, G
<1>3. PICK f \in [Nat -> S] : \A n \in Nat : f[n] = IF n = 0 THEN a ELSE G[f[n - 1]]
  BY <1>1, <1>2, Recursion
<1>4. \A n \in Nat : f[n] = IF n = 0 THEN a ELSE BuildStep(f[n - 1])
  <2> SUFFICES ASSUME NEW n \in Nat, n # 0 PROVE G[f[n - 1]] = BuildStep(f[n - 1])
    BY <1>3
  <2>1. f[n - 1] \in S
    OBVIOUS
  <2> QED
    BY <1>2, <2>1
<1>5. f = R(f)
  BY <1>4
<1>6. W = R(W)
  BY <1>5
<1>7. Walk(u) = W[MaxBuildSteps]
  BY DEF Walk, a
<1> HIDE DEF W
<1>8. \A n \in Nat : W[n] = IF n = 0 THEN a ELSE BuildStep(W[n - 1])
  BY <1>6
<1>9. W[0] = a /\ \A n \in Nat : W[n + 1] = BuildStep(W[n])
  <2>1. \A n \in Nat : n + 1 \in Nat /\ n + 1 # 0 /\ n + 1 - 1 = n
    OBVIOUS
  <2> QED
    BY <1>8, <2>1
<1>10. W \in [Nat -> S]
  <2> DEFINE T == {n \in Nat : W[n] \in S}
  <2>1. 0 \in T
    BY <1>1, <1>9
  <2>2. ASSUME NEW n \in Nat, n \in T PROVE n + 1 \in T
    BY <1>2, <1>9, <2>2, StepBuilder DEF S
  <2> HIDE DEF T
  <2>3. Nat \subseteq T
    BY <2>1, <2>2, Induction
  <2>4. \A n \in Nat : W[n] \in S
    BY <2>3 DEF T
  <2> QED
    BY <1>6, <2>4
<1> QED
  BY <1>7, <1>9, <1>10 DEF a, S

(* What a walk leads to when it comes to its end: through a graph that has  *)
(* its blocks, the statements of the unit lead to where it ends.            *)
LEMMA WalkLeads ==
  ASSUME NEW u, IsUnit(u)
  PROVE  \E A : /\ Fits(u, Walk(u), A)
                /\ \A g, q : /\ Framed(u, Walk(u), A, g)
                             /\ Chain(Plan(u, g), Walk(u).todo, Here(Walk(u)), q)
                             => Chain(Plan(u, g), Started(u).todo, <<0, 1>>, q)
<1> DEFINE Good(b) == \E A : /\ Fits(u, b, A)
                             /\ \A g, q : /\ Framed(u, b, A, g)
                                          /\ Chain(Plan(u, g), b.todo, Here(b), q)
                                          => Chain(Plan(u, g), Started(u).todo, <<0, 1>>, q)
<1>1. PICK f \in [Nat -> Builders(u)] :
        /\ f[0] = Started(u)
        /\ \A n \in Nat : f[n + 1] = BuildStep(f[n])
        /\ Walk(u) = f[MaxBuildSteps]
  BY WalkSteps
<1>2. Good(Started(u))
  BY StartFits
<1>3. ASSUME NEW b, Good(b) PROVE Good(BuildStep(b))
  <2>1. PICK A : /\ Fits(u, b, A)
                 /\ \A g, q : /\ Framed(u, b, A, g)
                              /\ Chain(Plan(u, g), b.todo, Here(b), q)
                              => Chain(Plan(u, g), Started(u).todo, <<0, 1>>, q)
    BY <1>3
  <2>2. Stepping(u, b, A, BuildStep(b))
    BY <2>1, StepOn
  <2> DEFINE c == BuildStep(b)
  <2> HIDE DEF c
  <2>3. PICK B : /\ Fits(u, c, B)
                 /\ \A g, q : Framed(u, c, B, g) /\ Chain(Plan(u, g), c.todo, Here(c), q)
                                => Framed(u, b, A, g) /\ Chain(Plan(u, g), b.todo, Here(b), q)
    BY <2>2 DEF Stepping, c
  <2>4. \A g, q : Framed(u, c, B, g) /\ Chain(Plan(u, g), c.todo, Here(c), q)
                    => Chain(Plan(u, g), Started(u).todo, <<0, 1>>, q)
    BY <2>1, <2>3
  <2> QED
    BY <2>3, <2>4 DEF c
<1> HIDE DEF Good
<1> DEFINE T == {n \in Nat : Good(f[n])}
<1>4. 0 \in T
  BY <1>1, <1>2
<1>5. ASSUME NEW n \in Nat, n \in T PROVE n + 1 \in T
  BY <1>1, <1>3, <1>5
<1> HIDE DEF T
<1>6. Nat \subseteq T
  BY <1>4, <1>5, Induction
<1>7. Good(Walk(u))
  BY <1>1, <1>6, StepsAssumption DEF T
<1> QED
  BY <1>7 DEF Good

(* In the graph of a unit, its code leads from the entry to the exit, which *)
(* is the last block.                                                       *)
LEMMA LaidOut ==
  ASSUME NEW u, IsUnit(u), Walk(u).todo = <<>>
  PROVE  LET g == Build(u) IN
         /\ Chain(Leads(u, g), UnitCode(u), <<g.entry, 1>>, <<g.exit, 1>>)
         /\ <<g.entry, 1>> \in Places(g) /\ <<g.exit, 1>> \in Places(g)
         /\ ShownAt(g, <<g.exit, 1>>) = Exit
         /\ g.blocks \in Seq(Records(u)) /\ Len(g.blocks) = g.exit + 1
<1> DEFINE e == Walk(u)
           result == u.body.result
           ended == Terminate(e.blocks, e.current, Return(result))
           all == Added(ended, 1)
           g == Build(u)
           n == Len(ended)
           out == <<n, 1>>
           here == Here(e)
           S == Family(u, TRUE)
           E == Leads(u, g)
<1>1. PICK A : /\ Fits(u, e, A)
               /\ \A h, q : /\ Framed(u, e, A, h)
                            /\ Chain(Plan(u, h), e.todo, Here(e), q)
                            => Chain(Plan(u, h), Started(u).todo, <<0, 1>>, q)
  BY WalkLeads
<1> HIDE DEF e
<1>2. A = {} /\ e.todo = <<>>
  <2>1. Chain(Awaited(u), <<>>, A, {})
    BY <1>1 DEF Fits, e
  <2> QED
    BY <2>1, ChainEmpty DEF e
<1>3. /\ e.blocks \in Seq(Records(u)) /\ e.current \in 0 .. Len(e.blocks) - 1
      /\ Return(result) \in Terminators(u) /\ result \in Expr(u) \cup {Missing}
  BY <1>1 DEF Fits, IsUnit, Terminators
<1>4. IsTerminated(u, e.blocks, e.current, Return(result), ended)
  BY <1>3, TerminatedBlocks
<1> HIDE DEF ended
<1>5. /\ ended \in Seq(Records(u)) /\ n = Len(e.blocks) /\ n \in Nat
      /\ Nth(ended, e.current) = [actions |-> Nth(e.blocks, e.current).actions,
                                  terminator |-> Return(result)]
      /\ \A d \in 0 .. n - 1 : d # e.current => Nth(ended, d) = Nth(e.blocks, d)
  BY <1>4, LenProperties DEF IsTerminated
<1>6. /\ all \in Seq(Records(u)) /\ Len(all) = n + 1 /\ Nth(all, n) = Untouched
      /\ \A d \in 0 .. n - 1 : Nth(all, d) = Nth(ended, d)
  <2> DEFINE k == 1
  <2>1. k \in Nat
    OBVIOUS
  <2> HIDE DEF k
  <2>2. Added(ended, k) \in Seq(Records(u)) /\ Len(Added(ended, k)) = n + k
    BY <1>5, <2>1, AddedBlocks
  <2>3. \A i \in 0 .. k - 1 : Nth(Added(ended, k), n + i) = Untouched
    BY <1>5, <2>1, AddedBlocks
  <2>4. \A d \in 0 .. n - 1 : Nth(Added(ended, k), d) = Nth(ended, d)
    BY <1>5, <2>1, AddedBlocks
  <2>5. Nth(Added(ended, k), n + 0) = Untouched
    <3>1. 0 \in 0 .. k - 1
      BY DEF k
    <3> QED
      BY <2>3, <3>1
  <2>6. n + 0 = n
    BY <1>5
  <2> QED
    BY <2>2, <2>4, <2>5, <2>6 DEF k
<1>7. g.blocks = all /\ g.entry = 0 /\ g.exit = n
  BY DEF Build, Finish, ended, e
<1> HIDE DEF g, all, n
<1>8. Framed(u, e, {}, g)
  <2>1. Len(e.blocks) <= Len(g.blocks)
    BY <1>5, <1>6, <1>7
  <2>2. \A d \in 0 .. Len(e.blocks) - 1 : d # e.current => Nth(g.blocks, d) = Nth(e.blocks, d)
    BY <1>5, <1>6, <1>7
  <2>3. Nth(g.blocks, e.current).actions = Nth(e.blocks, e.current).actions
    BY <1>3, <1>5, <1>6, <1>7
  <2>4. Len(Nth(e.blocks, e.current).actions) \in Nat
    <3>1. e.current + 1 \in 1 .. Len(e.blocks)
      BY <1>3, <1>5
    <3>2. Nth(e.blocks, e.current) \in Records(u)
      BY <1>3, <3>1, ElementOfSeq DEF Nth
    <3> QED
      BY <3>2, LenProperties DEF Records
  <2> QED
    BY <1>6, <1>7, <2>1, <2>2, <2>3, <2>4 DEF Framed
<1>9. Chain(Plan(u, g), Started(u).todo, <<0, 1>>, here)
  <2>1. Chain(Plan(u, g), e.todo, here, here)
    BY <1>2, ChainEmpty
  <2> QED
    BY <1>1, <1>2, <1>8, <2>1
<1>10. Chain(E, Stmts(UnitStmts(u), TRUE), <<0, 1>>, here)
  BY <1>9, StartFits, StmtsLink DEF IsUnit
<1>11. /\ here \in Places(g) /\ <<0, 1>> \in Places(g) /\ out \in Places(g)
       /\ ShownAt(g, here) = Return(result) /\ ShownAt(g, out) = Exit
  <2>1. here \in Places(g)
    BY <1>1, <1>2, <1>8, FramedShown
  <2>2. 0 \in 0 .. Len(e.blocks) - 1
    BY <1>3, <1>5
  <2>3. <<0, 1>> \in Places(g)
    BY <1>1, <1>2, <1>8, <2>2, FramedShown
  <2>4. g.blocks \in Seq(Records(u))
    BY <1>6, <1>7
  <2>5. e.current \in 0 .. Len(g.blocks) - 1 /\ n \in 0 .. Len(g.blocks) - 1
    BY <1>3, <1>5, <1>6, <1>7
  <2>6. /\ ShownAt(g, <<n, Len(Nth(g.blocks, n).actions) + 1>>) = Nth(g.blocks, n).terminator
        /\ ShownAt(g, <<e.current, Len(Nth(g.blocks, e.current).actions) + 1>>)
             = Nth(g.blocks, e.current).terminator
    BY <2>4, <2>5, BlockShown
  <2>7. ShownAt(g, here) = Return(result)
    <3>1. /\ Nth(g.blocks, e.current).actions = Nth(e.blocks, e.current).actions
          /\ Nth(g.blocks, e.current).terminator = Return(result)
      BY <1>3, <1>5, <1>6, <1>7
    <3> QED
      BY <2>6, <3>1 DEF Here
  <2>8. Nth(g.blocks, n).actions = <<>> /\ Nth(g.blocks, n).terminator = Exit /\ Len(<<>>) + 1 = 1
    BY <1>6, <1>7, EmptySeq DEF Untouched
  <2>9. ShownAt(g, out) = Exit
    BY <2>6, <2>8
  <2>10. out \in Places(g)
    <3>1. \A i \in 1 .. Len(Nth(g.blocks, n).actions) + 1 : <<n, i>> \in Places(g)
      BY <2>4, <2>5, BlockShown
    <3>2. 1 \in 1 .. 1
      OBVIOUS
    <3> QED
      BY <2>8, <3>1, <3>2
  <2> QED
    BY <2>1, <2>3, <2>7, <2>9, <2>10
<1>12. Chain(E, <<Reach(Return(result))>>, here, out) /\ <<Reach(Return(result))>> \in Seq(S)
  <2>1. Reach(Return(result)) \in Reaches(u)
    BY <1>3 DEF Reach, Reaches
  <2>2. Passed(g, here) = out
    BY <1>7, <1>11 DEF Passed, Return
  <2>3. <<Reach(Return(result)), here, out>> \in Same(u, g)
    BY <1>11, <2>1, <2>2, ReachLink
  <2> QED
    BY <2>1, <2>3, ChainOne, Single DEF Leads, Links, Family
<1> DEFINE last == IF result = Missing THEN <<>> ELSE <<Value(result)>>
<1>13. Chain(E, last, out, out) /\ last \in Seq(S)
  <2>1. CASE result = Missing
    BY <2>1, ChainEmpty, EmptySeq
  <2>2. CASE result # Missing
    <3>1. Value(result) \in Leaves(u)
      BY <1>3, <2>2 DEF Value, Leaves
    <3>2. <<Value(result), out, out>> \in E /\ Value(result) \in S
      BY <1>11, <3>1, QuietLink DEF Leads, Family
    <3> QED
      BY <2>2, <3>2, ChainOne, Single
  <2> QED
    BY <2>1, <2>2
<1>14. Stmts(UnitStmts(u), TRUE) \in Seq(S)
  <2> DEFINE block == Block(UnitStmts(u), Missing)
  <2>1. block \in BlocksIn(u) /\ block.stmts = UnitStmts(u)
    BY DEF Block, BlocksIn, IsUnit
  <2> QED
    BY <2>1, BodyTyped, FlatIsFamily
<1>15. UnitCode(u) = (Stmts(UnitStmts(u), TRUE) \o <<Reach(Return(result))>>) \o last
  BY DEF UnitCode
<1> HIDE DEF last, E, S, here, out
<1>16. /\ Chain(E, Stmts(UnitStmts(u), TRUE) \o <<Reach(Return(result))>>, <<0, 1>>, out)
       /\ Stmts(UnitStmts(u), TRUE) \o <<Reach(Return(result))>> \in Seq(S)
  BY <1>10, <1>12, <1>14, ChainConcat, ConcatProperties
<1>17. Chain(E, UnitCode(u), <<0, 1>>, out)
  BY <1>13, <1>15, <1>16, ChainConcat
<1> QED
  BY <1>6, <1>7, <1>11, <1>17 DEF g, E, out

-----------------------------------------------------------------------------
(* The run.  The code left to run leads from where the run is to the exit.  *)

(* Where links begin in P, a chain to P does.                               *)
LEMMA ChainBegins ==
  ASSUME NEW E, NEW S, NEW s \in Seq(S), NEW P, NEW p, NEW q \in P, Chain(E, s, p, q),
         \A x, a, b : <<x, a, b>> \in E => a \in P
  PROVE  p \in P
<1>1. Len(s) \in Nat
  BY LenProperties
<1>2. PICK pos : /\ pos[1] = p /\ pos[Len(s) + 1] = q
                 /\ \A i \in 1 .. Len(s) : <<s[i], pos[i], pos[i + 1]>> \in E
  BY DEF Chain
<1>3. CASE Len(s) = 0
  BY <1>2, <1>3
<1>4. CASE Len(s) # 0
  <2>1. 1 \in 1 .. Len(s)
    BY <1>1, <1>4
  <2> QED
    BY <1>2, <2>1
<1> QED
  BY <1>3, <1>4

(* A link of the graph is one of an item that stands in it, which it shows, *)
(* or leads nowhere.                                                        *)
LEMMA LinkKinds ==
  ASSUME NEW u, NEW g, NEW x, NEW p, NEW r, <<x, p, r>> \in Leads(u, g)
  PROVE  /\ p \in Places(g) /\ r \in Places(g)
         /\ \/ x \in Standing(u) /\ Shows(g, Leads(u, g), x, p, r)
            \/ x \in Family(u, FALSE) /\ p = r
<1>1. Same(u, g) \in SUBSET Triples(u, g)
  BY SameIsSimulation
<1>2. <<x, p, r>> \in Links(u, g, Same(u, g))
  BY DEF Leads
<1>3. /\ p \in Places(g) /\ r \in Places(g)
      /\ \/ <<x, p, r>> \in Same(u, g) /\ x \in Standing(u)
         \/ x \in Family(u, FALSE) /\ p = r
  BY <1>1, <1>2, LinkPlaces
<1> QED
  BY <1>3, SameIsSimulation

(* Where the code `items` leads.                                            *)
Led(u, g, items, p, r) == items \in Seq(Items(u)) /\ Chain(Leads(u, g), items, p, r)

(* Items that do not stand in the graph lead nowhere.                       *)
LEMMA HiddenLed ==
  ASSUME NEW u, NEW g, NEW s \in Seq(Family(u, FALSE)), NEW p \in Places(g)
  PROVE  Led(u, g, s, p, p)
<1>1. \A x \in Family(u, FALSE) : <<x, p, p>> \in Leads(u, g)
  BY DEF Leads, Links, Quiet
<1>2. Chain(Leads(u, g), s, p, p)
  BY <1>1, ChainQuiet
<1>3. Family(u, FALSE) \subseteq Items(u)
  BY DEF Items
<1>4. Seq(Family(u, FALSE)) \subseteq Seq(Items(u))
  BY <1>3, MoreSequences
<1> QED
  BY <1>2, <1>4 DEF Led

(* The kinds of the items that stand in the graph, and of those that do not.*)
LEMMA StandingKinds ==
  ASSUME NEW u, NEW x \in Standing(u)
  PROVE  /\ x.do \in {"stmt", "block", "arms", "pass", "jump", "reach", "fork", "round", "bind"}
         /\ x.do = "stmt" => x.stmt \in Stmt(u) /\ x.shown = TRUE
         /\ x.do = "block" => x.block \in BlocksIn(u) /\ x.shown = TRUE
         /\ x.do = "arms" => /\ x.arms \in Seq(ArmsIn(u))
                             /\ x.elseBlock \in BlocksIn(u) \cup {Missing} /\ x.shown = TRUE
         /\ x.do = "pass" => x.stmt \in Loops(u) /\ x.shown = TRUE
         /\ x.do = "fork" => /\ x.cond \in Conditions(u) /\ x.shown = TRUE
                             /\ x.yes \in Seq(Plain(u, TRUE)) /\ x.no \in Seq(Plain(u, TRUE))
         /\ x.do = "round" => x.stmt \in Counted(u) /\ x.counter \in Counters(x.stmt.source) /\ x.shown = TRUE
         /\ x.do = "bind" => x.stmt \in Counted(u) /\ x.shown = TRUE
<1>1. CASE x \in Plain(u, TRUE)
  <2>1. CASE x = Jump
    BY <2>1 DEF Jump
  <2>2. CASE x # Jump
    BY <1>1, <2>2 DEF Plain
  <2> QED
    BY <2>1, <2>2
<1>2. CASE x \in Tests(u, TRUE)
  BY <1>2 DEF Tests
<1>3. CASE x \in Reaches(u)
  BY <1>3 DEF Reaches
<1> QED
  BY <1>1, <1>2, <1>3 DEF Standing

(* The kinds of items the graph does not show, and what each one carries.   *)
LEMMA HiddenKinds ==
  ASSUME NEW u, NEW x \in Family(u, FALSE)
  PROVE  /\ x.do \in {"stmt", "block", "arms", "pass", "fork", "round", "bind",
                      "value", "load", "call", "store", "close", "back"}
         /\ x.do = "stmt" => x.stmt \in Stmt(u) /\ x.shown = FALSE
         /\ x.do = "block" => x.block \in BlocksIn(u) /\ x.shown = FALSE
         /\ x.do = "arms" => /\ x.arms \in Seq(ArmsIn(u))
                             /\ x.elseBlock \in BlocksIn(u) \cup {Missing} /\ x.shown = FALSE
         /\ x.do = "pass" => x.stmt \in Loops(u) /\ x.shown = FALSE
         /\ x.do = "fork" => /\ x.cond \in Conditions(u) /\ x.shown = FALSE
                             /\ x.yes \in Seq(Plain(u, FALSE)) /\ x.no \in Seq(Plain(u, FALSE))
         /\ x.do = "round" => x.stmt \in Counted(u) /\ x.counter \in Counters(x.stmt.source) /\ x.shown = FALSE
         /\ x.do = "bind" => x.stmt \in Counted(u) /\ x.shown = FALSE
         /\ x.do = "value" => x.expr \in Expr(u)
         /\ x.do = "call" => x.name \in DOMAIN u.functions
<1>1. CASE x \in Plain(u, FALSE)
  BY <1>1 DEF Plain
<1>2. CASE x \in Tests(u, FALSE)
  BY <1>2 DEF Tests
<1>3. CASE x \in Leaves(u)
  <2>1. CASE x = CloseScope
    <3>1. x.do = "close"
      BY <2>1 DEF CloseScope
    <3> QED
      BY <3>1
  <2>2. CASE x = Back
    <3>1. x.do = "back"
      BY <2>2 DEF Back
    <3> QED
      BY <3>1
  <2>3. CASE x # CloseScope /\ x # Back
    BY <1>3, <2>3 DEF Leaves
  <2> QED
    BY <2>1, <2>2, <2>3
<1> QED
  BY <1>1, <1>2, <1>3 DEF Family

(* What an item that stands in the graph is lowered to are items too.       *)
LEMMA ShownItems ==
  ASSUME NEW u
  PROVE  /\ Family(u, TRUE) \subseteq Items(u) /\ Seq(Family(u, TRUE)) \subseteq Seq(Items(u))
         /\ Seq(Plain(u, TRUE)) \subseteq Seq(Items(u))
<1>1. Family(u, TRUE) \subseteq Items(u) /\ Plain(u, TRUE) \subseteq Items(u)
  BY DEF Items, Family
<1>2. \A S : S \subseteq Items(u) => Seq(S) \subseteq Seq(Items(u))
  OBVIOUS
<1> QED
  BY <1>1, <1>2

(* What the graph shows of an item, one kind of item at a time: where the   *)
(* item leads, what it is lowered to leads.                                 *)
LEMMA StmtLed ==
  ASSUME NEW u, IsUnit(u), NEW g, NEW x, NEW p, NEW r, <<x, p, r>> \in Leads(u, g),
         x.do = "stmt"
  PROVE  Led(u, g, Code(x.stmt, x.shown), p, r)
<1>1. CASE x \in Standing(u) /\ Shows(g, Leads(u, g), x, p, r)
  <2>1. x.stmt \in Stmt(u) /\ x.shown = TRUE
    BY <1>1, StandingKinds
  <2>2. Code(x.stmt, TRUE) \in Seq(Family(u, TRUE))
    BY <2>1, CodeTyped, FlatIsFamily
  <2>3. Chain(Leads(u, g), Code(x.stmt, TRUE), p, r)
    BY <1>1 DEF Shows
  <2> QED
    BY <2>1, <2>2, <2>3, ShownItems DEF Led
<1>2. CASE x \in Family(u, FALSE) /\ p = r
  <2>1. x.stmt \in Stmt(u) /\ x.shown = FALSE
    BY <1>2, HiddenKinds
  <2>2. Code(x.stmt, FALSE) \in Seq(Family(u, FALSE))
    BY <2>1, CodeTyped, FlatIsFamily
  <2>3. p \in Places(g)
    BY LinkKinds
  <2> QED
    BY <1>2, <2>1, <2>2, <2>3, HiddenLed
<1> QED
  BY <1>1, <1>2, LinkKinds

(* The graph follows the code that a list of arms stands for.               *)
LEMMA ArmsLed ==
  ASSUME NEW u, IsUnit(u), NEW g, NEW x, NEW p, NEW r, <<x, p, r>> \in Leads(u, g),
         x.do = "arms"
  PROVE  Led(u, g, ArmsCode(x.arms, x.elseBlock, x.shown), p, r)
<1>1. CASE x \in Standing(u) /\ Shows(g, Leads(u, g), x, p, r)
  <2>1. /\ x.arms \in Seq(ArmsIn(u)) /\ x.elseBlock \in BlocksIn(u) \cup {Missing}
        /\ x.shown = TRUE
    BY <1>1, StandingKinds
  <2>2. ArmsCode(x.arms, x.elseBlock, TRUE) \in Seq(Family(u, TRUE))
    BY <2>1, ArmsTyped, FlatIsFamily
  <2>3. Chain(Leads(u, g), ArmsCode(x.arms, x.elseBlock, TRUE), p, r)
    BY <1>1 DEF Shows
  <2> QED
    BY <2>1, <2>2, <2>3, ShownItems DEF Led
<1>2. CASE x \in Family(u, FALSE) /\ p = r
  <2>1. /\ x.arms \in Seq(ArmsIn(u)) /\ x.elseBlock \in BlocksIn(u) \cup {Missing}
        /\ x.shown = FALSE
    BY <1>2, HiddenKinds
  <2>2. ArmsCode(x.arms, x.elseBlock, FALSE) \in Seq(Family(u, FALSE))
    BY <2>1, ArmsTyped, FlatIsFamily
  <2>3. p \in Places(g)
    BY LinkKinds
  <2> QED
    BY <1>2, <2>1, <2>2, <2>3, HiddenLed
<1> QED
  BY <1>1, <1>2, LinkKinds

(* The graph follows the code that a pass of a `loop` stands for.           *)
LEMMA PassLed ==
  ASSUME NEW u, IsUnit(u), NEW g, NEW x, NEW p, NEW r, <<x, p, r>> \in Leads(u, g),
         x.do = "pass"
  PROVE  Led(u, g, PassCode(x.stmt, x.shown), p, r)
<1>1. CASE x \in Standing(u) /\ Shows(g, Leads(u, g), x, p, r)
  <2>1. x.stmt \in Loops(u) /\ x.shown = TRUE
    BY <1>1, StandingKinds
  <2>2. PassCode(x.stmt, TRUE) \in Seq(Family(u, TRUE))
    BY <2>1, PassTyped, FlatIsFamily
  <2>3. Chain(Leads(u, g), PassCode(x.stmt, TRUE), p, r)
    BY <1>1 DEF Shows
  <2> QED
    BY <2>1, <2>2, <2>3, ShownItems DEF Led
<1>2. CASE x \in Family(u, FALSE) /\ p = r
  <2>1. x.stmt \in Loops(u) /\ x.shown = FALSE
    BY <1>2, HiddenKinds
  <2>2. PassCode(x.stmt, FALSE) \in Seq(Family(u, FALSE))
    BY <2>1, PassTyped, FlatIsFamily
  <2>3. p \in Places(g)
    BY LinkKinds
  <2> QED
    BY <1>2, <2>1, <2>2, <2>3, HiddenLed
<1> QED
  BY <1>1, <1>2, LinkKinds

(* The graph follows the statements of a block and the end of its scope.    *)
LEMMA BlockLed ==
  ASSUME NEW u, IsUnit(u), NEW g, NEW x, NEW p, NEW r, <<x, p, r>> \in Leads(u, g),
         x.do = "block"
  PROVE  Led(u, g, Body(x.block, x.shown) \o <<CloseScope>>, p, r)
<1>1. \A shown \in BOOLEAN : CloseScope \in Family(u, shown)
  BY DEF Family, Leaves
<1>2. \A shown \in BOOLEAN : <<CloseScope>> \in Seq(Family(u, shown))
  BY <1>1, Single
<1>3. CASE x \in Standing(u) /\ Shows(g, Leads(u, g), x, p, r)
  <2>1. x.block \in BlocksIn(u) /\ x.shown = TRUE
    BY <1>3, StandingKinds
  <2>2. Body(x.block, TRUE) \in Seq(Family(u, TRUE))
    BY <2>1, BodyTyped, FlatIsFamily
  <2>3. Body(x.block, TRUE) \o <<CloseScope>> \in Seq(Family(u, TRUE))
    BY <1>2, <2>2, ConcatProperties
  <2>4. Chain(Leads(u, g), Body(x.block, TRUE) \o <<CloseScope>>, p, r)
    BY <1>3 DEF Shows
  <2> QED
    BY <2>1, <2>3, <2>4, ShownItems DEF Led
<1>4. CASE x \in Family(u, FALSE) /\ p = r
  <2>1. x.block \in BlocksIn(u) /\ x.shown = FALSE
    BY <1>4, HiddenKinds
  <2>2. Body(x.block, FALSE) \in Seq(Family(u, FALSE))
    BY <2>1, BodyTyped, FlatIsFamily
  <2>3. Body(x.block, FALSE) \o <<CloseScope>> \in Seq(Family(u, FALSE))
    BY <1>2, <2>2, ConcatProperties
  <2>4. p \in Places(g)
    BY LinkKinds
  <2> QED
    BY <1>4, <2>1, <2>3, <2>4, HiddenLed
<1> QED
  BY <1>3, <1>4, LinkKinds

(* The graph follows each way a branch may be taken.                        *)
LEMMA ForkLed ==
  ASSUME NEW u, IsUnit(u), NEW g, NEW x, NEW p, NEW r, <<x, p, r>> \in Leads(u, g),
         x.do = "fork", NEW outcome \in BOOLEAN
  PROVE  Led(u, g, IF outcome THEN x.yes ELSE x.no,
             IF x.shown THEN Taken(g, p, outcome) ELSE p, r)
<1>1. CASE x \in Standing(u) /\ Shows(g, Leads(u, g), x, p, r)
  <2>1. x.yes \in Seq(Plain(u, TRUE)) /\ x.no \in Seq(Plain(u, TRUE)) /\ x.shown = TRUE
    BY <1>1, StandingKinds
  <2>2. /\ Chain(Leads(u, g), x.yes, Taken(g, p, TRUE), r)
        /\ Chain(Leads(u, g), x.no, Taken(g, p, FALSE), r)
    BY <1>1 DEF Shows
  <2> QED
    BY <2>1, <2>2, ShownItems DEF Led
<1>2. CASE x \in Family(u, FALSE) /\ p = r
  <2>1. x.yes \in Seq(Plain(u, FALSE)) /\ x.no \in Seq(Plain(u, FALSE)) /\ x.shown = FALSE
    BY <1>2, HiddenKinds
  <2>2. Plain(u, FALSE) \subseteq Family(u, FALSE)
    BY DEF Family
  <2>3. Seq(Plain(u, FALSE)) \subseteq Seq(Family(u, FALSE))
    BY <2>2, MoreSequences
  <2>4. p \in Places(g)
    BY LinkKinds
  <2> QED
    BY <1>2, <2>1, <2>3, <2>4, HiddenLed
<1> QED
  BY <1>1, <1>2, LinkKinds

(* The graph follows a round of a `for`, and the end of its rounds.         *)
LEMMA RoundLed ==
  ASSUME NEW u, IsUnit(u), NEW g, NEW x, NEW p, NEW r, <<x, p, r>> \in Leads(u, g),
         x.do = "round", NEW outcome \in BOOLEAN
  PROVE  Led(u, g, IF outcome THEN RoundCode(x.stmt, x.counter, x.shown) ELSE <<>>,
             IF x.shown THEN Taken(g, p, outcome) ELSE p, r)
<1>1. CASE x \in Standing(u) /\ Shows(g, Leads(u, g), x, p, r)
  <2>1. x.stmt \in Counted(u) /\ x.counter \in Counters(x.stmt.source) /\ x.shown = TRUE
    BY <1>1, StandingKinds
  <2>2. RoundCode(x.stmt, x.counter, TRUE) \in Seq(Family(u, TRUE))
    BY <2>1, RoundTyped
  <2>3. /\ Chain(Leads(u, g), RoundCode(x.stmt, x.counter, TRUE), Taken(g, p, TRUE), r)
        /\ r = Taken(g, p, FALSE)
    BY <1>1 DEF Shows
  <2>4. Chain(Leads(u, g), <<>>, Taken(g, p, FALSE), r) /\ <<>> \in Seq(Items(u))
    BY <2>3, ChainEmpty, EmptySeq
  <2> QED
    BY <2>1, <2>2, <2>3, <2>4, ShownItems DEF Led
<1>2. CASE x \in Family(u, FALSE) /\ p = r
  <2>1. x.stmt \in Counted(u) /\ x.counter \in Counters(x.stmt.source) /\ x.shown = FALSE
    BY <1>2, HiddenKinds
  <2>2. RoundCode(x.stmt, x.counter, FALSE) \in Seq(Family(u, FALSE))
    BY <2>1, RoundTyped
  <2>3. <<>> \in Seq(Family(u, FALSE))
    BY EmptySeq
  <2>4. p \in Places(g)
    BY LinkKinds
  <2> QED
    BY <1>2, <2>1, <2>2, <2>3, <2>4, HiddenLed
<1> QED
  BY <1>1, <1>2, LinkKinds

(* Nothing is left of a mark, a jump, a binding, a store and the end of a   *)
(* scope or of a call.                                                      *)
LEMMA LeafLed ==
  ASSUME NEW u, IsUnit(u), NEW g, NEW x, NEW p, NEW r, <<x, p, r>> \in Leads(u, g)
  PROVE  /\ x.do = "reach" => Led(u, g, <<>>, Passed(g, p), r)
         /\ x.do = "jump" => Led(u, g, <<>>, Jumped(g, p), r)
         /\ x.do = "bind"
              => Led(u, g, <<>>, IF x.shown THEN After(p, Len(x.stmt.binders)) ELSE p, r)
         /\ x.do \in {"load", "store", "close", "back"} => Led(u, g, <<>>, p, r)
<1>1. Led(u, g, <<>>, r, r)
  BY ChainEmpty, EmptySeq DEF Led
<1>2. CASE x \in Standing(u) /\ Shows(g, Leads(u, g), x, p, r)
  <2>1. CASE x.do = "reach"
    BY <1>1, <1>2, <2>1 DEF Shows
  <2>2. CASE x.do = "jump"
    BY <1>1, <1>2, <2>2 DEF Shows
  <2>3. CASE x.do = "bind"
    <3>1. x.shown = TRUE /\ r = After(p, Len(x.stmt.binders))
      BY <1>2, <2>3, StandingKinds DEF Shows
    <3> QED
      BY <1>1, <2>3, <3>1
  <2>4. x.do \notin {"load", "store", "close", "back"}
    BY <1>2, StandingKinds
  <2> QED
    BY <2>1, <2>2, <2>3, <2>4
<1>3. CASE x \in Family(u, FALSE) /\ p = r
  <2>1. /\ x.do \notin {"reach", "jump"}
        /\ x.do = "bind" => x.shown = FALSE
    BY <1>3, HiddenKinds
  <2> QED
    BY <1>1, <1>3, <2>1
<1> QED
  BY <1>2, <1>3, LinkKinds

(* An expression: its parts, in either order, or the arms of an `if`.       *)
LEMMA ValueLed ==
  ASSUME NEW u, IsUnit(u), NEW g, NEW x, NEW p, NEW r, <<x, p, r>> \in Leads(u, g),
         x.do = "value"
  PROVE  LET e == x.expr
             calls == IF e.kind = "computed" THEN [i \in DOMAIN e.calls |-> Call(e.calls[i])]
                                             ELSE <<>>
         IN  /\ e.kind = "if" => Led(u, g, <<Arms(e.arms, e.elseBlock, FALSE)>>, p, r)
             /\ Led(u, g, calls \o <<Load(e)>>, p, r)
             /\ Led(u, g, <<Load(e)>> \o calls, p, r)
<1> DEFINE e == x.expr
           calls == IF e.kind = "computed" THEN [i \in DOMAIN e.calls |-> Call(e.calls[i])]
                                           ELSE <<>>
           S == Family(u, FALSE)
<1>1. x \in S /\ p = r /\ p \in Places(g)
  <2>1. x \notin Standing(u)
    BY StandingKinds
  <2> QED
    BY <2>1, LinkKinds
<1>2. e \in Expr(u)
  BY <1>1, HiddenKinds
<1>3. /\ e.kind = "if" => <<Arms(e.arms, e.elseBlock, FALSE)>> \in Seq(S)
      /\ <<Load(e)>> \in Seq(S)
      /\ e.kind = "computed" => [i \in DOMAIN e.calls |-> Call(e.calls[i])] \in Seq(S)
  BY <1>2, ExpressionTyped, FlatIsFamily
<1>4. calls \in Seq(S)
  BY <1>3, EmptySeq
<1> HIDE DEF calls
<1>5. calls \o <<Load(e)>> \in Seq(S) /\ <<Load(e)>> \o calls \in Seq(S)
  BY <1>3, <1>4, ConcatProperties
<1>6. \A s \in Seq(S) : Led(u, g, s, p, r)
  BY <1>1, HiddenLed
<1> QED
  BY <1>3, <1>5, <1>6 DEF calls

(* A call runs the body of a function that is defined.                      *)
LEMMA CallLed ==
  ASSUME NEW u, IsUnit(u), NEW g, NEW x, NEW p, NEW r, <<x, p, r>> \in Leads(u, g),
         x.do = "call"
  PROVE  Led(u, g, Body(u.functions[x.name].body, FALSE) \o <<Back>>, p, r)
<1> DEFINE S == Family(u, FALSE)
           b == u.functions[x.name].body
<1>1. x \in S /\ p = r /\ p \in Places(g)
  <2>1. x \notin Standing(u)
    BY StandingKinds
  <2> QED
    BY <2>1, LinkKinds
<1>2. x.name \in DOMAIN u.functions
  BY <1>1, HiddenKinds
<1>3. b \in BlocksIn(u)
  BY <1>2 DEF IsUnit
<1>4. Body(b, FALSE) \in Seq(S)
  BY <1>3, BodyTyped, FlatIsFamily
<1>5. Back \in S
  BY DEF Family, Leaves
<1>6. Body(b, FALSE) \o <<Back>> \in Seq(S)
  BY <1>4, <1>5, Single, ConcatProperties
<1> QED
  BY <1>1, <1>6, HiddenLed

(* A step that replaces the next item by what it is lowered to, and moves   *)
(* to where that leads from, keeps the code leading to the exit.            *)
LEMMA Continued ==
  ASSUME NEW u, NEW g, NEW s \in Seq(Items(u)), s # <<>>, NEW p, NEW q, NEW end,
         Chain(Leads(u, g), s, p, end), NEW items,
         \A r : <<Head(s), p, r>> \in Leads(u, g) => Led(u, g, items, q, r)
  PROVE  Led(u, g, items \o Tail(s), q, end)
<1>1. PICK r : <<Head(s), p, r>> \in Leads(u, g) /\ Chain(Leads(u, g), Tail(s), r, end)
  BY ChainHead
<1>2. items \in Seq(Items(u)) /\ Chain(Leads(u, g), items, q, r)
  BY <1>1 DEF Led
<1>3. Tail(s) \in Seq(Items(u))
  BY HeadTailProperties
<1>4. items \o Tail(s) \in Seq(Items(u))
  BY <1>2, <1>3, ConcatProperties
<1>5. Chain(Leads(u, g), items \o Tail(s), q, end)
  BY <1>1, <1>2, <1>3, ChainConcat
<1> QED
  BY <1>4, <1>5 DEF Led

(* The inductive invariant: the code left to run consists of items of the   *)
(* unit, and in the graph of the unit it leads from where the run is to the *)
(* exit.                                                                    *)
Follows ==
  /\ \E name \in Name : unit = Analysed(ProgramNamed(name))
  /\ Led(program, graph, todo, at, <<graph.exit, 1>>)

(* What the unit that runs is.                                              *)
LEMMA FollowsUnit ==
  ASSUME Follows
  PROVE  /\ IsUnit(program) /\ graph = Build(program)
         /\ \E name \in Name : program = ProgramNamed(name)
         /\ <<graph.exit, 1>> \in Places(graph) /\ ShownAt(graph, <<graph.exit, 1>>) = Exit
         /\ at \in Places(graph)
<1>1. PICK name \in Name : unit = Analysed(ProgramNamed(name))
  BY DEF Follows
<1>2. program = ProgramNamed(name) /\ graph = Build(program)
  BY <1>1 DEF Analysed, program, graph
<1>3. IsUnit(program) /\ Walk(program).todo = <<>>
  BY <1>2, UnitAssumption, BuildAssumption
<1>4. <<graph.exit, 1>> \in Places(graph) /\ ShownAt(graph, <<graph.exit, 1>>) = Exit
  BY <1>2, <1>3, LaidOut
<1>5. /\ todo \in Seq(Items(program))
      /\ Chain(Leads(program, graph), todo, at, <<graph.exit, 1>>)
  BY DEF Follows, Led
<1>6. at \in Places(graph)
  <2>1. \A x, a, b : <<x, a, b>> \in Leads(program, graph) => a \in Places(graph)
    BY LinkKinds
  <2> QED
    BY <1>4, <1>5, <2>1, ChainBegins
<1> QED
  BY <1>2, <1>3, <1>4, <1>6

(* A unit starts at the entry of its graph, which follows its code.         *)
LEMMA FollowsInit == Init => Follows
<1> SUFFICES ASSUME Init PROVE Follows
  OBVIOUS
<1>1. PICK name \in Name : unit = Analysed(ProgramNamed(name))
  BY DEF Init
<1>2. program = ProgramNamed(name) /\ graph = Build(program)
  BY <1>1 DEF Analysed, program, graph
<1>3. IsUnit(program) /\ Walk(program).todo = <<>>
  BY <1>2, UnitAssumption, BuildAssumption
<1>4. todo = UnitCode(program) /\ at = <<graph.entry, 1>>
  BY DEF Init
<1>5. Chain(Leads(program, graph), todo, at, <<graph.exit, 1>>)
  BY <1>2, <1>3, <1>4, LaidOut
<1>6. todo \in Seq(Items(program))
  BY <1>3, <1>4, UnitTyped, FlatIsFamily, ShownItems
<1> QED
  BY <1>1, <1>5, <1>6 DEF Follows, Led

(* A step that continues with `items`.                                      *)
LEMMA FollowsStep ==
  ASSUME Follows, todo # <<>>, unit' = unit, NEW items, Continue(items),
         \A r : <<Head(todo), at, r>> \in Leads(program, graph)
                  => Led(program, graph, items, at', r)
  PROVE  Follows'
<1>1. /\ todo \in Seq(Items(program))
      /\ Chain(Leads(program, graph), todo, at, <<graph.exit, 1>>)
  BY DEF Follows, Led
<1>2. Led(program, graph, items \o Tail(todo), at', <<graph.exit, 1>>)
  BY <1>1, Continued
<1>3. program' = program /\ graph' = graph
  BY DEF program, graph
<1>4. Led(program, graph, todo', at', <<graph.exit, 1>>)
  BY <1>2 DEF Continue
<1> QED
  BY <1>3, <1>4 DEF Follows

(* A test comes out as true or false.                                       *)
LEMMA ForkOutcomes ==
  ASSUME NEW u, IsUnit(u), NEW g, NEW x, NEW p, NEW r, <<x, p, r>> \in Leads(u, g),
         x.do = "fork"
  PROVE  Outcomes(x.cond, 0) \subseteq BOOLEAN
<1>1. x.cond \in Conditions(u)
  BY LinkKinds, StandingKinds, HiddenKinds
<1>2. IsExpr(u, x.cond) /\ x.cond.kind # "range"
  BY <1>1 DEF Conditions, IsUnit
<1> QED
  BY <1>2 DEF Outcomes, IsExpr, IsLiteralRange

(* A `for` goes on or ends: its test has no third outcome.                  *)
LEMMA RoundOutcomes ==
  ASSUME NEW u, IsUnit(u), NEW g, NEW x, NEW p, NEW r, <<x, p, r>> \in Leads(u, g),
         x.do = "round"
  PROVE  Outcomes(x.stmt.source, x.counter) \subseteq BOOLEAN
<1>1. x.stmt \in Counted(u) /\ x.counter \in Counters(x.stmt.source)
  BY LinkKinds, StandingKinds, HiddenKinds
<1>2. IsStmt(u, x.stmt) /\ x.stmt.kind = "for"
  BY <1>1 DEF Counted, IsUnit
<1>3. x.stmt.source \in Expr(u)
  BY <1>2 DEF IsStmt
<1>4. IsExpr(u, x.stmt.source)
  BY <1>3 DEF IsUnit
<1>5. RangeContinue(x.stmt.source, x.counter) \in BOOLEAN
  BY DEF RangeContinue
<1>6. x.stmt.source.kind = "bool" => x.stmt.source.value \in BOOLEAN
  BY <1>4 DEF IsExpr
<1> QED
  BY <1>5, <1>6 DEF Outcomes

(* Every step of the code that runs goes where the graph leads.             *)
LEMMA FollowsNext == Follows /\ [Next]_vars => Follows'
<1> SUFFICES ASSUME Follows, [Next]_vars PROVE Follows'
  OBVIOUS
<1>1. IsUnit(program)
  BY FollowsUnit
<1> DEFINE Linked(r) == <<Item, at, r>> \in Leads(program, graph)
           LedOn(items, q, r) == Led(program, graph, items, q, r)
<1>2. CASE RunStmt
  <2>1. \A r : Linked(r) => LedOn(Code(Item.stmt, Item.shown), at, r)
    BY <1>1, <1>2, StmtLed DEF RunStmt, Top, Item
  <2> QED
    BY <1>2, <2>1, FollowsStep DEF RunStmt, Top, Item, Quietly
<1>3. CASE RunArms
  <2>1. \A r : Linked(r) => LedOn(ArmsCode(Item.arms, Item.elseBlock, Item.shown), at, r)
    BY <1>1, <1>3, ArmsLed DEF RunArms, Top, Item
  <2> QED
    BY <1>3, <2>1, FollowsStep DEF RunArms, Top, Item, Quietly
<1>4. CASE RunPass
  <2>1. \A r : Linked(r) => LedOn(PassCode(Item.stmt, Item.shown), at, r)
    BY <1>1, <1>4, PassLed DEF RunPass, Top, Item
  <2> QED
    BY <1>4, <2>1, FollowsStep DEF RunPass, Top, Item, Quietly
<1>5. CASE EnterBlock
  <2>1. \A r : Linked(r) => LedOn(Body(Item.block, Item.shown) \o <<CloseScope>>, at, r)
    BY <1>1, <1>5, BlockLed DEF EnterBlock, Top, Item
  <2> QED
    BY <1>5, <2>1, FollowsStep DEF EnterBlock, Top, Item, Quietly
<1>6. CASE LeaveScope
  <2>1. \A r : Linked(r) => LedOn(<<>>, at, r)
    BY <1>1, <1>6, LeafLed DEF LeaveScope, Top, Item
  <2> QED
    BY <1>6, <2>1, FollowsStep DEF LeaveScope, Top, Item, Quietly
<1>7. CASE ReachAction
  <2>1. \A r : Linked(r) => LedOn(<<>>, Passed(graph, at), r)
    BY <1>1, <1>7, LeafLed DEF ReachAction, Top, Item
  <2> QED
    BY <1>7, <2>1, FollowsStep DEF ReachAction, Top, Item, Quietly
<1>8. CASE FollowJump
  <2>1. \A r : Linked(r) => LedOn(<<>>, Jumped(graph, at), r)
    BY <1>1, <1>8, LeafLed DEF FollowJump, Top, Item
  <2> QED
    BY <1>8, <2>1, FollowsStep DEF FollowJump, Top, Item, Quietly
<1>9. CASE Evaluated
  <2> DEFINE e == Item.expr
             calls == IF e.kind = "computed" THEN [i \in DOMAIN e.calls |-> Call(e.calls[i])]
                                             ELSE <<>>
  <2>1. \A r : Linked(r)
                 => /\ e.kind = "if" => LedOn(<<Arms(e.arms, e.elseBlock, FALSE)>>, at, r)
                    /\ LedOn(calls \o <<Load(e)>>, at, r)
                    /\ LedOn(<<Load(e)>> \o calls, at, r)
    BY <1>1, <1>9, ValueLed DEF Evaluated, Top, Item
  <2>2. /\ todo # <<>> /\ unit' = unit /\ at' = at
        /\ \/ e.kind = "if" /\ Continue(<<Arms(e.arms, e.elseBlock, FALSE)>>)
           \/ Continue(calls \o <<Load(e)>>)
           \/ Continue(<<Load(e)>> \o calls)
    BY <1>9 DEF Evaluated, Top, Quietly
  <2> HIDE DEF calls, e
  <2>3. CASE e.kind = "if" /\ Continue(<<Arms(e.arms, e.elseBlock, FALSE)>>)
    <3>1. \A r : Linked(r) => LedOn(<<Arms(e.arms, e.elseBlock, FALSE)>>, at', r)
      BY <2>1, <2>2, <2>3
    <3> QED
      BY <2>2, <2>3, <3>1, FollowsStep DEF Item
  <2>4. CASE Continue(calls \o <<Load(e)>>)
    <3>1. \A r : Linked(r) => LedOn(calls \o <<Load(e)>>, at', r)
      BY <2>1, <2>2
    <3> QED
      BY <2>2, <2>4, <3>1, FollowsStep DEF Item
  <2>5. CASE Continue(<<Load(e)>> \o calls)
    <3>1. \A r : Linked(r) => LedOn(<<Load(e)>> \o calls, at', r)
      BY <2>1, <2>2
    <3> QED
      BY <2>2, <2>5, <3>1, FollowsStep DEF Item
  <2> QED
    BY <2>2, <2>3, <2>4, <2>5
<1>10. CASE LoadSlots
  <2>1. \A r : Linked(r) => LedOn(<<>>, at, r)
    BY <1>1, <1>10, LeafLed DEF LoadSlots, Top, Item
  <2> QED
    BY <1>10, <2>1, FollowsStep DEF LoadSlots, Top, Item
<1>11. CASE StoreValues
  <2>1. /\ todo # <<>> /\ Item.do = "store" /\ Continue(<<>>) /\ unit' = unit /\ at' = at
    BY <1>11 DEF StoreValues, Top, Item
  <2>2. \A r : Linked(r) => LedOn(<<>>, at, r)
    BY <1>1, <2>1, LeafLed
  <2> QED
    BY <2>1, <2>2, FollowsStep DEF Item
<1>12. CASE Test
  <2>1. PICK outcome \in Outcomes(Item.cond, 0) :
          /\ Continue(IF outcome THEN Item.yes ELSE Item.no)
          /\ at' = IF Item.shown THEN Taken(graph, at, outcome) ELSE at
    BY <1>12 DEF Test
  <2>2. todo # <<>> /\ Item.do = "fork" /\ unit' = unit
    BY <1>12 DEF Test, Top, Quietly, Item
  <2>3. ASSUME NEW r, Linked(r)
        PROVE  LedOn(IF outcome THEN Item.yes ELSE Item.no, at', r)
    <3>1. outcome \in BOOLEAN
      BY <1>1, <2>2, <2>3, ForkOutcomes
    <3>2. LedOn(IF outcome THEN Item.yes ELSE Item.no,
                IF Item.shown THEN Taken(graph, at, outcome) ELSE at, r)
      BY <1>1, <2>2, <2>3, <3>1, ForkLed
    <3> QED
      BY <2>1, <3>2
  <2> QED
    BY <2>1, <2>2, <2>3, FollowsStep DEF Item
<1>13. CASE TestRange
  <2>1. PICK outcome \in Outcomes(Item.stmt.source, Item.counter) :
          /\ Continue(IF outcome THEN RoundCode(Item.stmt, Item.counter, Item.shown) ELSE <<>>)
          /\ at' = IF Item.shown THEN Taken(graph, at, outcome) ELSE at
    BY <1>13 DEF TestRange
  <2>2. todo # <<>> /\ Item.do = "round" /\ unit' = unit
    BY <1>13 DEF TestRange, Top, Quietly, Item
  <2>3. ASSUME NEW r, Linked(r)
        PROVE  LedOn(IF outcome THEN RoundCode(Item.stmt, Item.counter, Item.shown) ELSE <<>>,
                     at', r)
    <3>1. outcome \in BOOLEAN
      BY <1>1, <2>2, <2>3, RoundOutcomes
    <3>2. LedOn(IF outcome THEN RoundCode(Item.stmt, Item.counter, Item.shown) ELSE <<>>,
                IF Item.shown THEN Taken(graph, at, outcome) ELSE at, r)
      BY <1>1, <2>2, <2>3, <3>1, RoundLed
    <3> QED
      BY <2>1, <3>2
  <2> QED
    BY <2>1, <2>2, <2>3, FollowsStep DEF Item
<1>14. CASE BindLoopVariables
  <2>1. /\ todo # <<>> /\ Item.do = "bind" /\ Continue(<<>>) /\ unit' = unit
        /\ at' = IF Item.shown THEN After(at, Len(Item.stmt.binders)) ELSE at
    BY <1>14 DEF BindLoopVariables, Top, Item, Quietly
  <2>2. \A r : Linked(r) => LedOn(<<>>, at', r)
    BY <1>1, <2>1, LeafLed
  <2> QED
    BY <2>1, <2>2, FollowsStep DEF Item
<1>15. CASE CallFunction
  <2> DEFINE items == Body(program.functions[Item.name].body, FALSE) \o <<Back>>
  <2>1. /\ todo # <<>> /\ Item.do = "call" /\ unit' = unit /\ at' = at /\ Continue(items)
    BY <1>15 DEF CallFunction, Top, Item
  <2>2. \A r : Linked(r) => LedOn(items, at', r)
    BY <1>1, <2>1, CallLed
  <2> QED
    BY <2>1, <2>2, FollowsStep DEF Item
<1>16. CASE ReturnToCaller
  <2>1. \A r : Linked(r) => LedOn(<<>>, at, r)
    BY <1>1, <1>16, LeafLed DEF ReturnToCaller, Top, Item
  <2> QED
    BY <1>16, <2>1, FollowsStep DEF ReturnToCaller, Top, Item
<1>17. CASE UNCHANGED vars
  <2>1. program' = program /\ graph' = graph /\ unit' = unit /\ todo' = todo /\ at' = at
    BY <1>17 DEF vars, program, graph
  <2> QED
    BY <2>1 DEF Follows
<1> QED
  BY <1>2, <1>3, <1>4, <1>5, <1>6, <1>7, <1>8, <1>9, <1>10, <1>11, <1>12, <1>13, <1>14,
     <1>15, <1>16, <1>17 DEF Next

(* What the graph shows where the code is about to run an item of it.       *)
LEMMA FollowsAgrees == Follows => GraphFollowsCode
<1> SUFFICES ASSUME Follows PROVE GraphFollowsCode
  OBVIOUS
<1>1. /\ todo \in Seq(Items(program))
      /\ Chain(Leads(program, graph), todo, at, <<graph.exit, 1>>)
  BY DEF Follows, Led
<1>2. CASE todo = <<>>
  <2>1. at = <<graph.exit, 1>>
    BY <1>1, <1>2, ChainEmpty
  <2> QED
    BY <1>2, <2>1, FollowsUnit DEF GraphFollowsCode
<1>3. CASE todo # <<>>
  <2>1. PICK r : <<Item, at, r>> \in Leads(program, graph)
    BY <1>1, <1>3, ChainHead DEF Item
  <2> DEFINE x == Item
  <2> SUFFICES Agrees(x, at)
    BY <1>3 DEF GraphFollowsCode
  <2>2. CASE x \in Standing(program) /\ Shows(graph, Leads(program, graph), x, at, r)
    <3>1. x.do \in {"stmt", "block", "arms", "pass", "jump", "reach", "fork", "round", "bind"}
      BY <2>2, StandingKinds
    <3>2. CASE x.do = "reach"
      BY <2>2, <3>2 DEF Shows, Agrees
    <3>3. CASE x.do = "jump"
      BY <2>2, <3>3 DEF Shows, Agrees
    <3>4. CASE x.do = "fork"
      <4>1. IsBranch(graph, at, x.cond)
        BY <2>2, <3>4 DEF Shows
      <4> QED
        BY <3>4, <4>1 DEF Agrees, IsBranch
    <3>5. CASE x.do = "round"
      <4>1. IsBranch(graph, at, x.stmt.source)
        BY <2>2, <3>5 DEF Shows
      <4> QED
        BY <3>5, <4>1 DEF Agrees, IsBranch
    <3>6. CASE x.do = "bind"
      <4>1. \A i \in DOMAIN x.stmt.binders :
              ShownAt(graph, After(at, i - 1)) = Bind(x.stmt.binders[i])
        BY <2>2, <3>6 DEF Shows
      <4> QED
        BY <3>6, <4>1 DEF Agrees
    <3>7. CASE x.do \in {"stmt", "block", "arms", "pass"}
      BY <3>7 DEF Agrees
    <3> QED
      BY <3>1, <3>2, <3>3, <3>4, <3>5, <3>6, <3>7
  <2>3. CASE x \in Family(program, FALSE)
    <3>1. /\ x.do \notin {"reach", "jump"}
          /\ x.do \in {"fork", "round", "bind"} => x.shown = FALSE
      BY <2>3, HiddenKinds
    <3> QED
      BY <3>1 DEF Agrees
  <2> QED
    BY <2>1, <2>2, <2>3, LinkKinds
<1> QED
  BY <1>2, <1>3

(* The graph the analyses look at shows every action, every test and every  *)
(* jump of the code, in the order in which the code runs them: for every    *)
(* unit, what src/analysis/cfg.rs lays out is what src/codegen/stmt.rs      *)
(* emits.                                                                   *)
THEOREM GraphFollows == Spec => []GraphFollowsCode
<1>1. Spec => []Follows
  BY FollowsInit, FollowsNext, PTL DEF Spec
<1> QED
  BY <1>1, FollowsAgrees, PTL

-----------------------------------------------------------------------------
(* Code reported as unreachable.                                            *)

(* No `for` of the unit counts down over an inclusive range.                *)
NoDescendingRange == \A s \in Counted(program) : ~Descending(s.source)

(* The block the run is in is reached, as the checker solves it.            *)
InReach(g, facts, b) == Reached \in Gathered(ReachabilityProblem(g), facts, b)

(* Along an edge the checker believes in, what is reached stays reached.    *)
LEMMA LiveStep ==
  ASSUME NEW g, NEW facts, WellFormed(ReachabilityProblem(g)),
         Solution(ReachabilityProblem(g), facts),
         NEW b \in DOMAIN g.succs, InReach(g, facts, b),
         NEW c \in ToSet(LiveSuccessors(g, b))
  PROVE  InReach(g, facts, c)
<1> DEFINE q == ReachabilityProblem(g)
<1>1. /\ DOMAIN q.live = Blocks(q) /\ q.live[b] = LiveSuccessors(g, b) /\ b \in Blocks(q)
      /\ q.kill[b] = {} /\ q.gen[b] = {} /\ q.direction = "Forward"
  <2>1. /\ q.live = [a \in DOMAIN g.succs |-> LiveSuccessors(g, a)]
        /\ q.gen = [a \in DOMAIN g.succs |-> {}] /\ q.kill = [a \in DOMAIN g.succs |-> {}]
        /\ q.direction = "Forward"
    BY DEF ReachabilityProblem
  <2>2. q.live \in [Blocks(q) -> Seq(Blocks(q))]
    BY DEF WellFormed
  <2> HIDE DEF q
  <2> QED
    BY <2>1, <2>2
<1>2. c \in Blocks(q) /\ c \in ToSet(q.live[b])
  <2>1. q.live[b] \in Seq(Blocks(q))
    BY <1>1 DEF WellFormed
  <2> HIDE DEF q
  <2> QED
    BY <1>1, <2>1 DEF ToSet
<1> HIDE DEF q
<1>3. b \in Feeders(q, c)
  <2>1. c \in ToSet(q.succs[b])
    BY <1>1, <1>2 DEF WellFormed, q
  <2>2. b \in ToSet(q.preds[c])
    BY <1>1, <1>2, <2>1 DEF WellFormed, q
  <2> QED
    BY <1>1, <1>2, <2>2 DEF Feeders
<1>4. Reached \in facts[b]
  <2>1. Reached \in Gathered(q, facts, b)
    BY DEF InReach, q
  <2>2. facts[b] = (Gathered(q, facts, b) \ q.kill[b]) \cup q.gen[b]
    BY <1>1 DEF Solution, Equation, Transfer, q
  <2> QED
    BY <1>1, <2>1, <2>2
<1>5. Reached \in Gathered(q, facts, c)
  BY <1>3, <1>4 DEF Gathered
<1> QED
  BY <1>5 DEF InReach, q

(* What control leaves a block by is its terminator.                        *)
LEMMA TerminatorShown ==
  ASSUME NEW u, NEW g, g.blocks \in Seq(Records(u)), NEW p \in Places(g),
         ShownAt(g, p).kind \in {"goto", "branch", "return", "exit"}
  PROVE  ShownAt(g, p) = g.blocks[p[1] + 1].terminator
<1> DEFINE c == p[1]
           actions == Nth(g.blocks, c).actions
<1>1. /\ p = <<c, p[2]>> /\ c \in 0 .. Len(g.blocks) - 1
      /\ p[2] \in 1 .. Len(actions) + 1
  BY DEF Places, Nth
<1> HIDE DEF c
<1>2. /\ Len(actions) \in Nat /\ actions \in Seq(ShownActions(u))
      /\ \A i \in 1 .. Len(actions) : ShownAt(g, <<c, i>>) = actions[i]
  <2>1. c \in 0 .. Len(g.blocks) - 1
    BY <1>1
  <2> QED
    BY <2>1, BlockShown
<1>3. CASE p[2] \in 1 .. Len(actions)
  <2>1. ShownAt(g, p) \in ShownActions(u)
    <3>1. ShownAt(g, <<c, p[2]>>) = actions[p[2]]
      BY <1>2, <1>3
    <3>2. actions[p[2]] \in ShownActions(u)
      BY <1>2, <1>3, ElementOfSeq
    <3> QED
      BY <1>1, <3>1, <3>2
  <2>2. ShownAt(g, p).kind \in {"statement", "evaluate", "bind"}
    BY <2>1 DEF ShownActions
  <2> QED
    BY <2>2
<1>4. CASE ~(p[2] <= Len(actions))
  BY <1>4 DEF ShownAt, Nth, c
<1> QED
  BY <1>1, <1>2, <1>3, <1>4

(* Where a jump, a return and a test lead, the checker believes the edge.   *)
LEMMA JumpLive ==
  ASSUME NEW u, NEW g, g.blocks \in Seq(Records(u)), NEW p \in Places(g), NEW n,
         g.succs = [b \in DOMAIN g.succs |-> SuccessorsOf(g.blocks, g.exit, b)],
         p[1] \in DOMAIN g.succs,
         \/ ShownAt(g, p).kind = "goto" /\ n = ShownAt(g, p).target
         \/ ShownAt(g, p).kind = "return" /\ n = g.exit
  PROVE  n \in ToSet(LiveSuccessors(g, p[1]))
<1> DEFINE t == g.blocks[p[1] + 1].terminator
<1>1. ShownAt(g, p) = t
  BY TerminatorShown
<1>2. LiveSuccessors(g, p[1]) = g.succs[p[1]]
  BY <1>1 DEF LiveSuccessors
<1>3. g.succs[p[1]] = <<n>>
  <2>1. g.succs[p[1]] = SuccessorsOf(g.blocks, g.exit, p[1])
    OBVIOUS
  <2>2. SuccessorsOf(g.blocks, g.exit, p[1]) = <<n>>
    BY <1>1 DEF SuccessorsOf
  <2> QED
    BY <2>1, <2>2
<1>4. <<n>>[1] = n /\ 1 \in DOMAIN <<n>>
  OBVIOUS
<1> QED
  BY <1>2, <1>3, <1>4 DEF ToSet

(* A branch on a literal, or on an empty literal range, takes a side that   *)
(* the analysis of reachability keeps.                                      *)
LEMMA BranchLive ==
  ASSUME NEW u, NEW g, g.blocks \in Seq(Records(u)), NEW p \in Places(g), NEW cond,
         g.succs = [b \in DOMAIN g.succs |-> SuccessorsOf(g.blocks, g.exit, b)],
         p[1] \in DOMAIN g.succs, IsBranch(g, p, cond), NEW outcome \in BOOLEAN,
         cond.kind = "bool" => outcome = cond.value,
         cond.kind = "range" /\ LiteralRangeIsEmpty(cond) => outcome = FALSE
  PROVE  Taken(g, p, outcome)[1] \in ToSet(LiveSuccessors(g, p[1]))
<1> DEFINE t == g.blocks[p[1] + 1].terminator
           n == IF outcome THEN t.thenBlock ELSE t.elseBlock
<1>1. t.kind = "branch" /\ t.cond = cond /\ ShownAt(g, p) = t
  <2>1. ShownAt(g, p).kind = "branch" /\ ShownAt(g, p).cond = cond
    BY DEF IsBranch
  <2>2. ShownAt(g, p) = t
    BY <2>1, TerminatorShown
  <2> QED
    BY <2>1, <2>2
<1>2. Taken(g, p, outcome)[1] = n
  BY <1>1 DEF Taken
<1>3. g.succs[p[1]] = <<t.thenBlock, t.elseBlock>>
  <2>1. g.succs[p[1]] = SuccessorsOf(g.blocks, g.exit, p[1])
    OBVIOUS
  <2> QED
    BY <1>1, <2>1 DEF SuccessorsOf
<1>4. \A a : a \in ToSet(<<a>>)
  <2> TAKE a
  <2>1. <<a>>[1] = a /\ 1 \in DOMAIN <<a>>
    OBVIOUS
  <2> QED
    BY <2>1 DEF ToSet
<1>5. \A a, b : a \in ToSet(<<a, b>>) /\ b \in ToSet(<<a, b>>)
  <2> TAKE a, b
  <2>1. /\ <<a, b>>[1] = a /\ <<a, b>>[2] = b
        /\ 1 \in DOMAIN <<a, b>> /\ 2 \in DOMAIN <<a, b>>
    OBVIOUS
  <2> QED
    BY <2>1 DEF ToSet
<1>6. CASE cond.kind = "bool"
  <2>1. LiveSuccessors(g, p[1]) = <<n>>
    BY <1>1, <1>6 DEF LiveSuccessors
  <2> QED
    BY <1>2, <1>4, <2>1
<1>7. CASE cond.kind = "range" /\ LiteralRangeIsEmpty(cond)
  <2>1. LiveSuccessors(g, p[1]) = <<n>>
    BY <1>1, <1>7 DEF LiveSuccessors
  <2> QED
    BY <1>2, <1>4, <2>1
<1>8. CASE cond.kind # "bool" /\ ~(cond.kind = "range" /\ LiteralRangeIsEmpty(cond))
  <2>1. LiveSuccessors(g, p[1]) = g.succs[p[1]]
    BY <1>1, <1>8 DEF LiveSuccessors
  <2> QED
    BY <1>2, <1>3, <1>5, <2>1
<1> QED
  BY <1>6, <1>7, <1>8

(* The inductive invariant of reachability, beside Follows.                 *)
Alive ==
  NoDescendingRange => InReach(graph, Solved(ReachabilityProblem(graph)), at[1])

(* What the graph of the unit that runs is, and the solution found for it.  *)
LEMMA FollowsGraph ==
  ASSUME Follows
  PROVE  LET q == ReachabilityProblem(graph) IN
         /\ graph.blocks \in Seq(Records(program))
         /\ graph.succs = [b \in DOMAIN graph.succs
                             |-> SuccessorsOf(graph.blocks, graph.exit, b)]
         /\ at[1] \in DOMAIN graph.succs /\ DOMAIN graph.succs = Blocks(q)
         /\ graph.entry = q.entry /\ q.boundary = {Reached} /\ q.direction = "Forward"
         /\ WellFormed(q) /\ Solution(q, Solved(q))
         /\ unit.unreachable = Unreachable(q, Solved(q))
<1> DEFINE q == ReachabilityProblem(graph)
<1>1. PICK name \in Name : unit = Analysed(ProgramNamed(name))
  BY DEF Follows
<1>2. /\ program = ProgramNamed(name) /\ graph = Build(program)
      /\ unit.unreachable = Unreachable(q, Solved(q))
  BY <1>1 DEF Analysed, program, graph
<1>3. IsUnit(program) /\ Walk(program).todo = <<>>
  BY <1>2, UnitAssumption, BuildAssumption
<1>4. graph.blocks \in Seq(Records(program)) /\ Len(graph.blocks) = graph.exit + 1
  BY <1>2, <1>3, LaidOut
<1>5. /\ DOMAIN graph.succs = 0 .. graph.exit
      /\ graph.succs = [b \in 0 .. graph.exit |-> SuccessorsOf(graph.blocks, graph.exit, b)]
  <2> DEFINE e == Walk(program)
             ended == Terminate(e.blocks, e.current, Return(program.body.result))
             all == Added(ended, 1)
             exit == Len(ended)
             succs == [b \in 0 .. exit |-> SuccessorsOf(all, exit, b)]
  <2>1. graph.blocks = all /\ graph.exit = exit /\ graph.succs = succs
    BY <1>2 DEF Build, Finish
  <2>2. DOMAIN succs = 0 .. exit
    OBVIOUS
  <2> HIDE DEF all, exit
  <2> QED
    BY <2>1, <2>2
<1>6. /\ q.count = Len(graph.blocks) /\ graph.entry = q.entry
      /\ q.boundary = {Reached} /\ q.direction = "Forward"
  BY DEF ReachabilityProblem
<1>7. WellFormed(q) /\ Solution(q, Solved(q))
  BY <1>2, SolvedAssumption
<1> HIDE DEF q
<1>8. graph.exit + 1 \in Nat
  BY <1>4, LenProperties
<1>9. DOMAIN graph.succs = Blocks(q)
  <2>1. q.succs = graph.succs
    BY DEF q, ReachabilityProblem
  <2> QED
    BY <1>7, <2>1 DEF WellFormed
<1>10. at[1] \in DOMAIN graph.succs
  <2>1. at[1] \in 0 .. Len(graph.blocks) - 1
    BY FollowsUnit DEF Places
  <2> QED
    BY <1>6, <1>9, <2>1 DEF Blocks
<1> QED
  BY <1>2, <1>4, <1>5, <1>6, <1>7, <1>9, <1>10 DEF q

(* The analysis reaches the entry of the graph.                             *)
LEMMA AliveInit == Init => Alive
<1> SUFFICES ASSUME Init PROVE Alive
  OBVIOUS
<1>1. Follows /\ at[1] = graph.entry
  BY FollowsInit DEF Init
<1> DEFINE q == ReachabilityProblem(graph)
<1>2. at[1] = Start(q) /\ q.boundary = {Reached}
  BY <1>1, FollowsGraph DEF Start
<1>3. InReach(graph, Solved(q), at[1])
  BY <1>2 DEF InReach, Gathered
<1> QED
  BY <1>3 DEF Alive

(* A step leaves the block the run is in along an edge the checker believes *)
(* in, or stays in it.                                                      *)
LEMMA AliveStep ==
  ASSUME Follows, Alive, unit' = unit,
         NoDescendingRange
           => at'[1] = at[1] \/ at'[1] \in ToSet(LiveSuccessors(graph, at[1]))
  PROVE  Alive'
<1> DEFINE q == ReachabilityProblem(graph)
<1>1. program' = program /\ graph' = graph
  BY DEF program, graph
<1>2. NoDescendingRange' <=> NoDescendingRange
  BY <1>1 DEF NoDescendingRange
<1>3. ASSUME NoDescendingRange PROVE InReach(graph, Solved(q), at'[1])
  <2>1. InReach(graph, Solved(q), at[1])
    BY <1>3 DEF Alive
  <2>2. WellFormed(q) /\ Solution(q, Solved(q)) /\ at[1] \in DOMAIN graph.succs
    BY FollowsGraph
  <2>3. CASE at'[1] \in ToSet(LiveSuccessors(graph, at[1]))
    BY <2>1, <2>2, <2>3, LiveStep
  <2> QED
    BY <1>3, <2>1, <2>3
<1> QED
  BY <1>1, <1>2, <1>3 DEF Alive

(* The link of the item that is next.                                       *)
LEMMA NextLink ==
  ASSUME Follows, todo # <<>>
  PROVE  \E r : <<Item, at, r>> \in Leads(program, graph)
<1>1. /\ todo \in Seq(Items(program))
      /\ Chain(Leads(program, graph), todo, at, <<graph.exit, 1>>)
  BY DEF Follows, Led
<1> QED
  BY <1>1, ChainHead DEF Item

(* No step leaves the blocks that the analysis reaches.                     *)
LEMMA AliveNext == Follows /\ Alive /\ [Next]_vars => Alive'
<1> SUFFICES ASSUME Follows, Alive, [Next]_vars PROVE Alive'
  OBVIOUS
<1> DEFINE live == ToSet(LiveSuccessors(graph, at[1]))
<1>1. CASE unit' = unit /\ at' = at
  BY <1>1, AliveStep
<1>2. IsUnit(program) /\ at \in Places(graph)
  BY FollowsUnit
<1>3. CASE ReachAction
  <2>1. todo # <<>> /\ Item.do = "reach" /\ unit' = unit /\ at' = Passed(graph, at)
    BY <1>3 DEF ReachAction, Top, Item, Quietly
  <2>2. CASE ShownAt(graph, at).kind = "return"
    <3>1. at'[1] = graph.exit
      BY <2>1, <2>2 DEF Passed
    <3>2. at'[1] \in live
      BY <1>2, <2>2, <3>1, FollowsGraph, JumpLive
    <3> QED
      BY <2>1, <3>2, AliveStep
  <2>3. CASE ShownAt(graph, at).kind # "return"
    <3>1. at'[1] = at[1]
      BY <2>1, <2>3 DEF Passed, After
    <3> QED
      BY <2>1, <3>1, AliveStep
  <2> QED
    BY <2>2, <2>3
<1>4. CASE FollowJump
  <2>1. todo # <<>> /\ Item.do = "jump" /\ unit' = unit /\ at' = Jumped(graph, at)
    BY <1>4 DEF FollowJump, Top, Item, Quietly
  <2>2. ShownAt(graph, at).kind = "goto"
    BY <2>1, FollowsAgrees DEF GraphFollowsCode, Agrees
  <2>3. at'[1] = ShownAt(graph, at).target
    BY <2>1 DEF Jumped
  <2>4. at'[1] \in live
    BY <1>2, <2>2, <2>3, FollowsGraph, JumpLive
  <2> QED
    BY <2>1, <2>4, AliveStep
<1>5. CASE Test
  <2>1. PICK outcome \in Outcomes(Item.cond, 0) :
          at' = IF Item.shown THEN Taken(graph, at, outcome) ELSE at
    BY <1>5 DEF Test
  <2>2. todo # <<>> /\ Item.do = "fork" /\ unit' = unit
    BY <1>5 DEF Test, Top, Quietly, Item
  <2>3. CASE Item.shown
    <3>1. IsBranch(graph, at, Item.cond)
      BY <2>2, <2>3, FollowsAgrees DEF GraphFollowsCode, Agrees, IsBranch
    <3>2. PICK r : <<Item, at, r>> \in Leads(program, graph)
      BY <2>2, NextLink
    <3>3. outcome \in BOOLEAN
      BY <1>2, <2>1, <2>2, <3>2, ForkOutcomes
    <3>4. Item.cond \in Conditions(program)
      BY <2>2, <3>2, LinkKinds, StandingKinds, HiddenKinds
    <3>5. ASSUME Item.cond.kind = "bool" PROVE outcome = Item.cond.value
      <4>1. Outcomes(Item.cond, 0) = {Item.cond.value}
        BY <3>5 DEF Outcomes, IsLiteralRange
      <4> QED
        BY <2>1, <4>1
    <3>6. Item.cond.kind # "range"
      BY <3>4 DEF Conditions
    <3>7. at'[1] \in live
      BY <1>2, <2>1, <2>3, <3>1, <3>3, <3>5, <3>6, FollowsGraph, BranchLive
    <3> QED
      BY <2>2, <3>7, AliveStep
  <2>4. CASE ~Item.shown
    BY <1>1, <2>1, <2>2, <2>4
  <2> QED
    BY <2>3, <2>4
<1>6. CASE TestRange
  <2>1. PICK outcome \in Outcomes(Item.stmt.source, Item.counter) :
          at' = IF Item.shown THEN Taken(graph, at, outcome) ELSE at
    BY <1>6 DEF TestRange
  <2>2. todo # <<>> /\ Item.do = "round" /\ unit' = unit
    BY <1>6 DEF TestRange, Top, Quietly, Item
  <2>3. CASE Item.shown
    <3> DEFINE e == Item.stmt.source
    <3>1. IsBranch(graph, at, e)
      BY <2>2, <2>3, FollowsAgrees DEF GraphFollowsCode, Agrees, IsBranch
    <3>2. PICK r : <<Item, at, r>> \in Leads(program, graph)
      BY <2>2, NextLink
    <3>3. outcome \in BOOLEAN
      BY <1>2, <2>1, <2>2, <3>2, RoundOutcomes
    <3>4. Item.stmt \in Counted(program) /\ Item.counter \in Counters(e)
      BY <2>2, <3>2, LinkKinds, StandingKinds, HiddenKinds
    <3>5. ASSUME e.kind = "bool" PROVE outcome = e.value
      <4>1. Outcomes(e, Item.counter) = {e.value}
        BY <3>5 DEF Outcomes, IsLiteralRange
      <4> QED
        BY <2>1, <4>1
    <3>6. ASSUME NoDescendingRange, e.kind = "range" /\ LiteralRangeIsEmpty(e)
          PROVE  outcome = FALSE
      <4>1. IsLiteralRange(e)
        BY <3>6 DEF IsLiteralRange, LiteralRangeIsEmpty
      <4>2. ~RangeContinue(e, Item.counter)
        BY <3>4, <3>6, <4>1 DEF Counters, NoDescendingRange
      <4>3. outcome = RangeContinue(e, Item.counter)
        BY <2>1, <3>6, <4>1 DEF Outcomes
      <4> QED
        BY <3>3, <4>2, <4>3
    <3> HIDE DEF e
    <3>7. ASSUME NoDescendingRange PROVE at'[1] \in live
      BY <1>2, <2>1, <2>3, <3>1, <3>3, <3>5, <3>6, <3>7, FollowsGraph, BranchLive
    <3> QED
      BY <2>2, <3>7, AliveStep
  <2>4. CASE ~Item.shown
    BY <1>1, <2>1, <2>2, <2>4
  <2> QED
    BY <2>3, <2>4
<1>7. CASE BindLoopVariables
  <2>1. /\ unit' = unit
        /\ at' = IF Item.shown THEN After(at, Len(Item.stmt.binders)) ELSE at
    BY <1>7 DEF BindLoopVariables, Quietly
  <2>2. at'[1] = at[1]
    BY <2>1 DEF After
  <2> QED
    BY <2>1, <2>2, AliveStep
<1>8. CASE RunStmt \/ RunArms \/ RunPass \/ EnterBlock \/ LeaveScope \/ Evaluated
  BY <1>1, <1>8 DEF RunStmt, RunArms, RunPass, EnterBlock, LeaveScope, Evaluated, Quietly
<1>9. CASE LoadSlots \/ StoreValues \/ CallFunction \/ ReturnToCaller
  BY <1>1, <1>9 DEF LoadSlots, StoreValues, CallFunction, ReturnToCaller
<1>10. CASE UNCHANGED vars
  BY <1>1, <1>10 DEF vars
<1> QED
  BY <1>3, <1>4, <1>5, <1>6, <1>7, <1>8, <1>9, <1>10 DEF Next

(* The code the checker of unreachable code reports never runs, in every    *)
(* unit where no `for` counts down over an inclusive range: the checker     *)
(* takes those for empty, and src/codegen/stmt.rs runs them.                *)
THEOREM ReportedNeverRuns == Spec => [](NoDescendingRange => UnreachableNeverRuns)
<1>1. Init => Follows /\ Alive
  BY FollowsInit, AliveInit
<1>2. Follows /\ Alive /\ [Next]_vars => (Follows /\ Alive)'
  BY FollowsNext, AliveNext
<1>3. Spec => [](Follows /\ Alive)
  BY <1>1, <1>2, PTL DEF Spec
<1>4. Follows /\ Alive => (NoDescendingRange => UnreachableNeverRuns)
  <2> SUFFICES ASSUME Follows, Alive, NoDescendingRange PROVE UnreachableNeverRuns
    OBVIOUS
  <2> DEFINE q == ReachabilityProblem(graph)
  <2>1. Reached \in Gathered(q, Solved(q), at[1])
    BY DEF Alive, InReach
  <2>2. unit.unreachable = {b \in Blocks(q) : Reached \notin Gathered(q, Solved(q), b)}
    BY FollowsGraph DEF Unreachable
  <2> HIDE DEF q
  <2> QED
    BY <2>1, <2>2 DEF UnreachableNeverRuns
<1> QED
  BY <1>3, <1>4, PTL

-----------------------------------------------------------------------------
(* Scopes and callers.  A depth says how many scopes the callers of the     *)
(* running function have, and how many it has itself; an item that ends a   *)
(* scope or a call leads back to the depth it began at.                     *)

(* A depth: how many scopes each caller has open, and how many the running  *)
(* function has; and the depths before and after an item.                   *)
Depths == Seq(Nat) \X (Nat \ {0})

Nesting(u) ==
  {t \in Items(u) \X Depths \X Depths :
     /\ t[1].do = "close" => t[2] = <<t[3][1], t[3][2] + 1>>
     /\ t[1].do = "bind" => t[3] = <<t[2][1], t[2][2] + 1>>
     /\ t[1].do = "back" => t[2] = <<Append(t[3][1], t[3][2]), 1>>
     /\ t[1].do \notin {"close", "bind", "back"} => t[2] = t[3]}

(* The depth a run is at.                                                   *)
Lengths(s) == [i \in DOMAIN s |-> Len(s[i])]

Depth == <<Lengths(saved), Len(frames)>>

(* With one scope of the unit alone open, the depth is one of the depths.   *)
LEMMA DepthTyped ==
  ASSUME NEW c \in Seq(Nat)
  PROVE  <<c, 1>> \in Depths
<1>1. 1 \in Nat \ {0}
  OBVIOUS
<1> DEFINE one == 1
<1> HIDE DEF one
<1>2. one \in Nat \ {0}
  BY <1>1 DEF one
<1>3. <<c, one>> \in Seq(Nat) \X (Nat \ {0})
  BY <1>2
<1> QED
  BY <1>3 DEF one, Depths

(* The scopes of callers and of the running function are lists.             *)
Listed(calls, scopes) == \E R : scopes \in Seq(R) /\ calls \in Seq(Seq(R))

(* The inductive invariant of scopes, beside Follows.                       *)
Scoped == Listed(saved, frames) /\ Chain(Nesting(program), todo, Depth, << <<>>, 1>>)

(* The lengths of the elements of a list.                                   *)
LEMMA LengthsTyped ==
  ASSUME NEW R, NEW s \in Seq(Seq(R))
  PROVE  /\ Lengths(s) \in Seq(Nat) /\ Len(Lengths(s)) = Len(s)
         /\ \A i \in 1 .. Len(s) : Lengths(s)[i] = Len(s[i])
<1>1. Len(s) \in Nat /\ DOMAIN s = 1 .. Len(s)
  BY LenProperties
<1>2. \A i \in 1 .. Len(s) : Len(s[i]) \in Nat
  <2> TAKE i \in 1 .. Len(s)
  <2>1. s[i] \in Seq(R)
    BY ElementOfSeq
  <2> QED
    BY <2>1, LenProperties
<1> DEFINE f == Lengths(s)
<1>3. f \in [1 .. Len(s) -> Nat] /\ \A i \in 1 .. Len(s) : f[i] = Len(s[i])
  BY <1>1, <1>2 DEF Lengths
<1> HIDE DEF f
<1>4. f \in Seq(Nat)
  <2> DEFINE m == Len(s)
  <2>1. m \in Nat /\ f \in [1 .. m -> Nat]
    BY <1>1, <1>3
  <2> HIDE DEF m
  <2> QED
    BY <2>1, SeqDef
<1>5. Len(f) = Len(s)
  BY <1>1, <1>3, <1>4, LenProperties
<1> QED
  BY <1>3, <1>4, <1>5 DEF f

(* A call adds the scopes of the caller to those that wait.                 *)
LEMMA LengthsPushed ==
  ASSUME NEW R, NEW s \in Seq(Seq(R)), NEW f \in Seq(R)
  PROVE  /\ Append(s, f) \in Seq(Seq(R))
         /\ Lengths(Append(s, f)) = Append(Lengths(s), Len(f))
<1> DEFINE t == Append(s, f)
           n == Len(s)
           a == Append(Lengths(s), Len(f))
<1>1. n \in Nat /\ Len(f) \in Nat
  BY LenProperties
<1>2. /\ t \in Seq(Seq(R)) /\ Len(t) = n + 1
      /\ \A i \in 1 .. n : t[i] = s[i]
      /\ t[n + 1] = f
  BY AppendProperties
<1>3. /\ Lengths(s) \in Seq(Nat) /\ Len(Lengths(s)) = n
      /\ \A i \in 1 .. n : Lengths(s)[i] = Len(s[i])
  BY LengthsTyped
<1>4. /\ a \in Seq(Nat) /\ Len(a) = n + 1
      /\ \A i \in 1 .. n : a[i] = Lengths(s)[i]
      /\ a[n + 1] = Len(f)
  BY <1>1, <1>3, AppendProperties
<1> HIDE DEF t, a, n
<1>5. /\ Lengths(t) \in Seq(Nat) /\ Len(Lengths(t)) = n + 1
      /\ \A i \in 1 .. n + 1 : Lengths(t)[i] = Len(t[i])
  BY <1>2, LengthsTyped
<1>6. \A i \in 1 .. n + 1 : Lengths(t)[i] = a[i]
  <2> TAKE i \in 1 .. n + 1
  <2>1. CASE i = n + 1
    BY <1>2, <1>4, <1>5, <2>1
  <2>2. CASE i # n + 1
    <3>1. i \in 1 .. n
      BY <1>1, <2>2
    <3> QED
      BY <1>2, <1>3, <1>4, <1>5, <3>1
  <2> QED
    BY <2>1, <2>2
<1>7. Lengths(t) = a
  BY <1>4, <1>5, <1>6, SeqEqual
<1> QED
  BY <1>2, <1>7 DEF t, a

(* A return takes them back.                                                *)
LEMMA LengthsPopped ==
  ASSUME NEW R, NEW s \in Seq(Seq(R)), NEW c \in Seq(Nat), NEW n \in Nat,
         Lengths(s) = Append(c, n)
  PROVE  /\ Last(s) \in Seq(R) /\ Len(Last(s)) = n
         /\ Front(s) \in Seq(Seq(R)) /\ Lengths(Front(s)) = c
<1> DEFINE m == Len(c)
           t == Front(s)
           a == Append(c, n)
<1>1. m \in Nat
  BY LenProperties
<1>2. Len(a) = m + 1 /\ a[m + 1] = n /\ \A i \in 1 .. m : a[i] = c[i]
  BY AppendProperties
<1>3. Len(Lengths(s)) = Len(s) /\ \A i \in 1 .. Len(s) : Lengths(s)[i] = Len(s[i])
  BY LengthsTyped
<1> HIDE DEF m, a
<1>4. Len(s) = m + 1
  BY <1>2, <1>3 DEF a
<1>5. m + 1 \in 1 .. m + 1 /\ \A i \in 1 .. m : i \in 1 .. m + 1
  BY <1>1
<1>6. Last(s) \in Seq(R) /\ Len(Last(s)) = n
  <2>1. s[m + 1] \in Seq(R)
    BY <1>4, <1>5, ElementOfSeq
  <2>2. Len(s[m + 1]) = n
    BY <1>2, <1>3, <1>4, <1>5 DEF a
  <2> QED
    BY <1>4, <2>1, <2>2 DEF Last
<1>7. t \in Seq(Seq(R)) /\ Len(t) = m /\ \A i \in 1 .. m : t[i] = s[i]
  <2>1. t = SubSeq(s, 1, m)
    BY <1>1, <1>4 DEF Front
  <2>2. \A i \in 1 .. m : s[i] \in Seq(R)
    BY <1>4, <1>5, ElementOfSeq
  <2>3. /\ SubSeq(s, 1, m) \in Seq(Seq(R))
        /\ Len(SubSeq(s, 1, m)) = IF 1 <= m THEN m - 1 + 1 ELSE 0
        /\ \A i \in 1 .. m - 1 + 1 : SubSeq(s, 1, m)[i] = s[1 + i - 1]
    BY <1>1, <1>4, <2>2, SubSeqProperties
  <2> HIDE DEF t
  <2> QED
    BY <1>1, <2>1, <2>3
<1> HIDE DEF t
<1>8. /\ Lengths(t) \in Seq(Nat) /\ Len(Lengths(t)) = m
      /\ \A i \in 1 .. m : Lengths(t)[i] = Len(t[i])
  BY <1>7, LengthsTyped
<1>9. \A i \in 1 .. m : Lengths(t)[i] = c[i]
  BY <1>2, <1>3, <1>4, <1>5, <1>7, <1>8 DEF a
<1>10. Lengths(t) = c
  BY <1>8, <1>9, SeqEqual DEF m
<1> QED
  BY <1>6, <1>7, <1>10 DEF t

(* Items by themselves lead back to the depth they begin at.                *)
LEMMA FlatNests ==
  ASSUME NEW u, NEW shown \in BOOLEAN, NEW s \in Seq(Flat(u, shown)), NEW d \in Depths
  PROVE  s \in Seq(Items(u)) /\ Chain(Nesting(u), s, d, d)
<1>1. Flat(u, shown) \subseteq Items(u)
  BY FlatIsFamily DEF Items
<1>2. \A x \in Flat(u, shown) : <<x, d, d>> \in Nesting(u)
  BY <1>1 DEF Flat, Nesting
<1>3. Chain(Nesting(u), s, d, d)
  BY <1>2, ChainQuiet
<1>4. Seq(Flat(u, shown)) \subseteq Seq(Items(u))
  BY <1>1, MoreSequences
<1> QED
  BY <1>3, <1>4

(* The kinds of items.                                                      *)
LEMMA ItemKinds ==
  ASSUME NEW u, NEW x \in Items(u)
  PROVE  /\ x.do = "stmt" => x.stmt \in Stmt(u) /\ x.shown \in BOOLEAN
         /\ x.do = "block" => x.block \in BlocksIn(u) /\ x.shown \in BOOLEAN
         /\ x.do = "arms" => /\ x.arms \in Seq(ArmsIn(u))
                             /\ x.elseBlock \in BlocksIn(u) \cup {Missing}
                             /\ x.shown \in BOOLEAN
         /\ x.do = "pass" => x.stmt \in Loops(u) /\ x.shown \in BOOLEAN
         /\ x.do = "fork" => /\ x.shown \in BOOLEAN
                             /\ x.yes \in Seq(Plain(u, x.shown)) /\ x.no \in Seq(Plain(u, x.shown))
         /\ x.do = "round" => /\ x.stmt \in Counted(u) /\ x.counter \in Counters(x.stmt.source)
                              /\ x.shown \in BOOLEAN
         /\ x.do = "value" => x.expr \in Expr(u)
         /\ x.do = "call" => x.name \in DOMAIN u.functions
<1>1. CASE x \in Standing(u)
  BY <1>1, StandingKinds
<1>2. CASE x \in Family(u, FALSE)
  BY <1>2, HiddenKinds
<1>3. x \in Standing(u) \/ x \in Family(u, FALSE)
  BY DEF Items, Standing, Family
<1> QED
  BY <1>1, <1>2, <1>3

(* A step that continues with `items`, which lead from the new depth to     *)
(* where the item that is done leads.                                       *)
LEMMA ScopedStep ==
  ASSUME Follows, Scoped, todo # <<>>, unit' = unit, NEW items, Continue(items),
         Listed(saved', frames'),
         \A r : <<Item, Depth, r>> \in Nesting(program)
                  => items \in Seq(Items(program)) /\ Chain(Nesting(program), items, Depth', r)
  PROVE  Scoped'
<1> DEFINE E == Nesting(program)
           end == << <<>>, 1>>
<1>1. todo \in Seq(Items(program)) /\ program' = program
  BY DEF Follows, Led, program
<1>2. Chain(E, todo, Depth, end)
  BY DEF Scoped
<1>3. PICK r : <<Head(todo), Depth, r>> \in E /\ Chain(E, Tail(todo), r, end)
  BY <1>1, <1>2, ChainHead
<1>4. items \in Seq(Items(program)) /\ Chain(E, items, Depth', r)
  BY <1>3 DEF Item
<1>5. Tail(todo) \in Seq(Items(program))
  BY <1>1, HeadTailProperties
<1>6. Chain(E, items \o Tail(todo), Depth', end)
  BY <1>3, <1>4, <1>5, ChainConcat
<1>7. Chain(Nesting(program), todo, Depth, end)'
  BY <1>1, <1>6 DEF Continue
<1> QED
  BY <1>7 DEF Scoped

(* A step that stays at its depth and continues with items by themselves.   *)
LEMMA FlatStep ==
  ASSUME Follows, Scoped, todo # <<>>, unit' = unit, NEW items, Continue(items),
         NEW shown \in BOOLEAN, items \in Seq(Flat(program, shown)),
         Listed(saved', frames'), Depth' = Depth, Item.do \notin {"close", "bind", "back"}
  PROVE  Scoped'
<1>1. ASSUME NEW r, <<Item, Depth, r>> \in Nesting(program)
      PROVE  items \in Seq(Items(program)) /\ Chain(Nesting(program), items, Depth', r)
  <2>1. Depth \in Depths /\ r = Depth
    BY <1>1 DEF Nesting
  <2> QED
    BY <2>1, FlatNests
<1> QED
  BY <1>1, ScopedStep

(* The depth, where there is code left to run.                              *)
LEMMA ScopedHere ==
  ASSUME Follows, Scoped, todo # <<>>
  PROVE  /\ Item \in Items(program)
         /\ \E r : <<Item, Depth, r>> \in Nesting(program)
         /\ Depth \in Depths
<1>1. todo \in Seq(Items(program))
  BY DEF Follows, Led
<1>2. PICK r : <<Item, Depth, r>> \in Nesting(program)
  BY <1>1, ChainHead DEF Scoped, Item
<1> QED
  BY <1>2 DEF Nesting

(* A unit starts with its own scope open and no call to return from.        *)
LEMMA ScopedInit == Init => Scoped
<1> SUFFICES ASSUME Init PROVE Scoped
  OBVIOUS
<1>1. Follows
  BY FollowsInit
<1>2. IsUnit(program)
  BY <1>1, FollowsUnit
<1>3. todo = UnitCode(program) /\ frames = <<Filled(program.params)>> /\ saved = <<>>
  BY DEF Init
<1> DEFINE R == {Filled(program.params)}
<1>4. frames \in Seq(R) /\ Len(frames) = 1
  BY <1>3, Single
<1>5. saved \in Seq(Seq(R)) /\ Len(saved) = 0
  BY <1>3, EmptySeq
<1>6. Lengths(saved) = <<>>
  <2>1. Lengths(saved) \in Seq(Nat) /\ Len(Lengths(saved)) = 0
    BY <1>5, LengthsTyped
  <2> QED
    BY <2>1, EmptySeq
<1>7. Depth = << <<>>, 1>> /\ Depth \in Depths
  <2>1. Depth = << <<>>, 1>>
    BY <1>4, <1>6 DEF Depth
  <2>2. <<>> \in Seq(Nat)
    BY EmptySeq
  <2> QED
    BY <2>1, <2>2, DepthTyped
<1>8. Chain(Nesting(program), todo, Depth, Depth)
  BY <1>2, <1>3, <1>7, UnitTyped, FlatNests
<1> QED
  BY <1>4, <1>5, <1>7, <1>8 DEF Scoped, Listed

(* A pass of a `for` opens the scope of its variables, and leaves it.       *)
LEMMA RoundNests ==
  ASSUME NEW u, IsUnit(u), NEW stmt \in Counted(u), NEW counter \in Counters(stmt.source),
         NEW shown \in BOOLEAN, NEW d \in Depths
  PROVE  /\ RoundCode(stmt, counter, shown) \in Seq(Items(u))
         /\ Chain(Nesting(u), RoundCode(stmt, counter, shown), d, d)
<1> DEFINE E == Nesting(u)
           S == Items(u)
           deep == <<d[1], d[2] + 1>>
           bind == Binders(stmt, shown)
           block == DoBlock(stmt.body, shown)
           next == Round(stmt, NextCounter(stmt.source, counter), shown)
           pass == <<bind, block, CloseScope>>
<1>1. Family(u, shown) \subseteq S /\ Seq(Family(u, shown)) \subseteq Seq(S)
  <2>1. Family(u, shown) \subseteq S
    BY DEF Items
  <2> QED
    BY <2>1, MoreSequences
<1>2. stmt.source \in Expr(u) /\ stmt.body \in BlocksIn(u)
  <2>1. IsStmt(u, stmt) /\ stmt.kind = "for"
    BY DEF Counted, IsUnit
  <2> QED
    BY <2>1 DEF IsStmt
<1>3. bind \in S /\ block \in S /\ CloseScope \in S
  <2>1. bind \in Family(u, shown)
    BY DEF Binders, Family, Tests
  <2>2. block \in Family(u, shown)
    BY <1>2 DEF DoBlock, Family, Plain
  <2>3. CloseScope \in Family(u, shown)
    BY DEF Family, Leaves
  <2> QED
    BY <1>1, <2>1, <2>2, <2>3
<1>4. deep \in Depths
  BY DEF Depths
<1>5. <<bind, d, deep>> \in E
  BY <1>3, <1>4 DEF Nesting, Binders
<1>6. <<block, deep, deep>> \in E
  BY <1>3, <1>4 DEF Nesting, DoBlock
<1>7. <<CloseScope, deep, d>> \in E
  BY <1>3, <1>4 DEF Nesting, CloseScope
<1>8. next \in Flat(u, shown) /\ Jumping(shown) \in Seq(Flat(u, shown))
  <2>1. NextCounter(stmt.source, counter) \in Counters(stmt.source)
    BY RoundTyped
  <2> QED
    BY <2>1, RoundTyped, JumpTyped
<1> HIDE DEF E, S, deep, bind, block, next
<1>9. Chain(E, pass, d, d) /\ pass \in Seq(S)
  <2>1. pass = <<bind>> \o <<block, CloseScope>> /\ pass \in Seq(S)
    BY <1>3, Triple
  <2>2. <<bind>> \in Seq(S) /\ <<block, CloseScope>> \in Seq(S)
    BY <1>3, Single, Pair
  <2>3. Chain(E, <<bind>>, d, deep)
    BY <1>5, ChainOne
  <2>4. Chain(E, <<block, CloseScope>>, deep, d)
    <3>1. /\ <<block, CloseScope>> = <<block>> \o <<CloseScope>>
          /\ <<block>> \in Seq(S) /\ <<CloseScope>> \in Seq(S)
      BY <1>3, Pair, Single
    <3>2. Chain(E, <<block>>, deep, deep) /\ Chain(E, <<CloseScope>>, deep, d)
      BY <1>6, <1>7, ChainOne
    <3> QED
      BY <3>1, <3>2, ChainConcat
  <2> QED
    BY <2>1, <2>2, <2>3, <2>4, ChainConcat
<1>10. /\ Jumping(shown) \in Seq(S) /\ Chain(E, Jumping(shown), d, d)
       /\ <<next>> \in Seq(S) /\ Chain(E, <<next>>, d, d)
  <2>1. <<next>> \in Seq(Flat(u, shown))
    BY <1>8, Single
  <2> QED
    BY <1>8, <2>1, FlatNests DEF E, S
<1> HIDE DEF pass
<1>11. pass \o Jumping(shown) \in Seq(S) /\ Chain(E, pass \o Jumping(shown), d, d)
  BY <1>9, <1>10, ChainConcat, ConcatProperties
<1>12. /\ (pass \o Jumping(shown)) \o <<next>> \in Seq(S)
       /\ Chain(E, (pass \o Jumping(shown)) \o <<next>>, d, d)
  BY <1>10, <1>11, ChainConcat, ConcatProperties
<1> QED
  BY <1>12 DEF RoundCode, pass, bind, block, next, E, S

(* What the steps do to the depth: a scope more, a scope less, a call, a    *)
(* return.                                                                  *)
LEMMA ScopePushed ==
  ASSUME Listed(saved, frames), saved' = saved, NEW scope, frames' = Append(frames, scope)
  PROVE  Depth' = <<Depth[1], Depth[2] + 1>> /\ Listed(saved', frames')
<1>1. PICK R : frames \in Seq(R) /\ saved \in Seq(Seq(R))
  BY DEF Listed
<1> DEFINE Q == R \cup {scope}
<1>2. Seq(R) \subseteq Seq(Q)
  BY MoreSequences
<1>3. Seq(Seq(R)) \subseteq Seq(Seq(Q))
  BY <1>2, MoreSequences
<1>4. frames \in Seq(Q) /\ saved \in Seq(Seq(Q)) /\ scope \in Q
  BY <1>1, <1>2, <1>3
<1> HIDE DEF Q
<1>5. Append(frames, scope) \in Seq(Q) /\ Len(Append(frames, scope)) = Len(frames) + 1
  BY <1>4, AppendProperties
<1> QED
  BY <1>4, <1>5 DEF Listed, Depth

(* Closing a scope leaves the scopes that were open before it.              *)
LEMMA ScopePopped ==
  ASSUME Listed(saved, frames), saved' = saved, frames' = Front(frames),
         NEW r \in Depths, Depth = <<r[1], r[2] + 1>>
  PROVE  Depth' = r /\ Listed(saved', frames')
<1>1. PICK R : frames \in Seq(R) /\ saved \in Seq(Seq(R))
  BY DEF Listed
<1> DEFINE n == r[2]
<1>2. n \in Nat \ {0} /\ Len(frames) = n + 1 /\ Lengths(saved) = r[1] /\ r = <<r[1], n>>
  BY DEF Depths, Depth
<1>3. Front(frames) \in Seq(R) /\ Len(Front(frames)) = n
  <2>1. Front(frames) = SubSeq(frames, 1, n)
    BY <1>2 DEF Front
  <2>2. \A i \in 1 .. n : frames[i] \in R
    <3> TAKE i \in 1 .. n
    <3>1. i \in 1 .. Len(frames)
      BY <1>2
    <3> QED
      BY <1>1, <3>1, ElementOfSeq
  <2>3. /\ SubSeq(frames, 1, n) \in Seq(R)
        /\ Len(SubSeq(frames, 1, n)) = IF 1 <= n THEN n - 1 + 1 ELSE 0
    BY <1>1, <1>2, <2>2, SubSeqProperties
  <2> QED
    BY <1>2, <2>1, <2>3
<1> HIDE DEF n
<1> QED
  BY <1>1, <1>2, <1>3 DEF Listed, Depth

(* A call sets the scopes of the caller aside and opens those of the        *)
(* function.                                                                *)
LEMMA CallPushed ==
  ASSUME Listed(saved, frames), saved' = Append(saved, frames), NEW scope, frames' = <<scope>>
  PROVE  Depth' = <<Append(Depth[1], Depth[2]), 1>> /\ Listed(saved', frames')
<1>1. PICK R : frames \in Seq(R) /\ saved \in Seq(Seq(R))
  BY DEF Listed
<1> DEFINE Q == R \cup {scope}
<1>2. Seq(R) \subseteq Seq(Q)
  BY MoreSequences
<1>3. Seq(Seq(R)) \subseteq Seq(Seq(Q))
  BY <1>2, MoreSequences
<1>4. frames \in Seq(Q) /\ saved \in Seq(Seq(Q)) /\ scope \in Q
  BY <1>1, <1>2, <1>3
<1> HIDE DEF Q
<1>5. /\ Append(saved, frames) \in Seq(Seq(Q))
      /\ Lengths(Append(saved, frames)) = Append(Lengths(saved), Len(frames))
  BY <1>4, LengthsPushed
<1>6. <<scope>> \in Seq(Q) /\ Len(<<scope>>) = 1
  BY <1>4, Single
<1>7. Lengths(saved)' = Append(Lengths(saved), Len(frames)) /\ Len(frames)' = 1
  BY <1>5, <1>6
<1> QED
  BY <1>5, <1>6, <1>7 DEF Listed, Depth

(* A return takes the scopes of the caller back.                            *)
LEMMA CallPopped ==
  ASSUME Listed(saved, frames), saved' = Front(saved), frames' = Last(saved),
         NEW r \in Depths, Depth = <<Append(r[1], r[2]), 1>>
  PROVE  Depth' = r /\ Listed(saved', frames')
<1>1. PICK R : frames \in Seq(R) /\ saved \in Seq(Seq(R))
  BY DEF Listed
<1> DEFINE c == r[1]
           n == r[2]
<1>2. c \in Seq(Nat) /\ n \in Nat /\ r = <<c, n>> /\ Lengths(saved) = Append(c, n)
  BY DEF Depths, Depth
<1> HIDE DEF c, n
<1>3. /\ Last(saved) \in Seq(R) /\ Len(Last(saved)) = n
      /\ Front(saved) \in Seq(Seq(R)) /\ Lengths(Front(saved)) = c
  BY <1>1, <1>2, LengthsPopped
<1>4. Lengths(saved)' = c /\ Len(frames)' = n
  BY <1>3
<1> QED
  BY <1>2, <1>3, <1>4 DEF Listed, Depth

(* Every step opens and closes the scopes its item says.                    *)
LEMMA ScopedNext == Follows /\ Scoped /\ [Next]_vars => Scoped'
<1> SUFFICES ASSUME Follows, Scoped, [Next]_vars PROVE Scoped'
  OBVIOUS
<1> DEFINE u == program
           E == Nesting(program)
<1>1. IsUnit(u) /\ Listed(saved, frames)
  BY FollowsUnit DEF Scoped
<1>2. ASSUME unit' = unit, saved' = saved, frames' = frames
      PROVE  Depth' = Depth /\ Listed(saved', frames')
  BY <1>1, <1>2 DEF Depth
<1>3. \A shown \in BOOLEAN : <<>> \in Seq(Flat(u, shown))
  BY EmptySeq
<1>4. CASE RunStmt
  <2>1. /\ todo # <<>> /\ Item.do = "stmt" /\ Continue(Code(Item.stmt, Item.shown))
        /\ unit' = unit /\ saved' = saved /\ frames' = frames
    BY <1>4 DEF RunStmt, Top, Item, Quietly
  <2>2. Item.stmt \in Stmt(u) /\ Item.shown \in BOOLEAN
    BY <2>1, ScopedHere, ItemKinds
  <2>3. Code(Item.stmt, Item.shown) \in Seq(Flat(u, Item.shown))
    BY <1>1, <2>2, CodeTyped
  <2> QED
    BY <1>2, <2>1, <2>2, <2>3, FlatStep
<1>5. CASE RunArms
  <2> DEFINE items == ArmsCode(Item.arms, Item.elseBlock, Item.shown)
  <2>1. /\ todo # <<>> /\ Item.do = "arms" /\ Continue(items)
        /\ unit' = unit /\ saved' = saved /\ frames' = frames
    BY <1>5 DEF RunArms, Top, Item, Quietly
  <2>2. /\ Item.arms \in Seq(ArmsIn(u)) /\ Item.elseBlock \in BlocksIn(u) \cup {Missing}
        /\ Item.shown \in BOOLEAN
    BY <2>1, ScopedHere, ItemKinds
  <2>3. items \in Seq(Flat(u, Item.shown))
    BY <2>2, ArmsTyped
  <2> QED
    BY <1>2, <2>1, <2>2, <2>3, FlatStep
<1>6. CASE RunPass
  <2>1. /\ todo # <<>> /\ Item.do = "pass" /\ Continue(PassCode(Item.stmt, Item.shown))
        /\ unit' = unit /\ saved' = saved /\ frames' = frames
    BY <1>6 DEF RunPass, Top, Item, Quietly
  <2>2. Item.stmt \in Loops(u) /\ Item.shown \in BOOLEAN
    BY <2>1, ScopedHere, ItemKinds
  <2>3. PassCode(Item.stmt, Item.shown) \in Seq(Flat(u, Item.shown))
    BY <1>1, <2>2, PassTyped
  <2> QED
    BY <1>2, <2>1, <2>2, <2>3, FlatStep
<1>7. CASE EnterBlock
  <2> DEFINE body == Body(Item.block, Item.shown)
             deep == <<Depth[1], Depth[2] + 1>>
  <2>1. /\ todo # <<>> /\ Item.do = "block" /\ Continue(body \o <<CloseScope>>)
        /\ unit' = unit /\ saved' = saved /\ frames' = Append(frames, <<>>)
    BY <1>7 DEF EnterBlock, Top, Item, Quietly
  <2>2. Item.block \in BlocksIn(u) /\ Item.shown \in BOOLEAN /\ Depth \in Depths
    BY <2>1, ScopedHere, ItemKinds
  <2>3. body \in Seq(Flat(u, Item.shown))
    BY <2>2, BodyTyped
  <2>4. deep \in Depths
    BY <2>2 DEF Depths
  <2>5. Depth' = deep /\ Listed(saved', frames')
    BY <1>1, <2>1, ScopePushed
  <2>6. CloseScope \in Items(u)
    BY DEF Items, Family, Leaves
  <2>7. <<CloseScope, deep, Depth>> \in E
    BY <2>2, <2>4, <2>6 DEF Nesting, CloseScope
  <2>8. body \in Seq(Items(u)) /\ Chain(E, body, deep, deep)
    BY <2>2, <2>3, <2>4, FlatNests
  <2> HIDE DEF body, deep
  <2>9. <<CloseScope>> \in Seq(Items(u)) /\ Chain(E, <<CloseScope>>, deep, Depth)
    BY <2>6, <2>7, Single, ChainOne
  <2>10. /\ body \o <<CloseScope>> \in Seq(Items(u))
         /\ Chain(E, body \o <<CloseScope>>, deep, Depth)
    BY <2>8, <2>9, ConcatProperties, ChainConcat
  <2>11. \A r : <<Item, Depth, r>> \in E => r = Depth
    BY <2>1 DEF Nesting
  <2> QED
    BY <2>1, <2>5, <2>10, <2>11, ScopedStep
<1>8. CASE LeaveScope
  <2>1. /\ todo # <<>> /\ Item.do = "close" /\ Continue(<<>>)
        /\ unit' = unit /\ saved' = saved /\ frames' = Front(frames)
    BY <1>8 DEF LeaveScope, Top, Item, Quietly
  <2>2. ASSUME NEW r, <<Item, Depth, r>> \in E
        PROVE  Depth' = r /\ Listed(saved', frames')
    <3>1. r \in Depths /\ Depth = <<r[1], r[2] + 1>>
      BY <2>1, <2>2 DEF Nesting
    <3> QED
      BY <1>1, <2>1, <3>1, ScopePopped
  <2>3. \A r : <<Item, Depth, r>> \in E => <<>> \in Seq(Items(u)) /\ Chain(E, <<>>, Depth', r)
    BY <2>2, EmptySeq, ChainEmpty
  <2>4. Listed(saved', frames')
    BY <2>1, <2>2, ScopedHere
  <2> QED
    BY <2>1, <2>3, <2>4, ScopedStep
<1>9. CASE ReachAction \/ FollowJump \/ LoadSlots
  <2>1. /\ todo # <<>> /\ Item.do \in {"reach", "jump", "load"} /\ Continue(<<>>)
        /\ unit' = unit /\ saved' = saved /\ frames' = frames
    BY <1>9 DEF ReachAction, FollowJump, LoadSlots, Top, Item, Quietly
  <2>2. TRUE \in BOOLEAN
    OBVIOUS
  <2> QED
    BY <1>2, <1>3, <2>1, <2>2, FlatStep
<1>10. CASE Evaluated
  <2> DEFINE e == Item.expr
             calls == IF e.kind = "computed" THEN [i \in DOMAIN e.calls |-> Call(e.calls[i])]
                                             ELSE <<>>
             S == Seq(Flat(u, FALSE))
  <2>1. /\ todo # <<>> /\ Item.do = "value"
        /\ unit' = unit /\ saved' = saved /\ frames' = frames
        /\ \/ e.kind = "if" /\ Continue(<<Arms(e.arms, e.elseBlock, FALSE)>>)
           \/ Continue(calls \o <<Load(e)>>)
           \/ Continue(<<Load(e)>> \o calls)
    BY <1>10 DEF Evaluated, Top, Item, Quietly
  <2>2. e \in Expr(u)
    BY <2>1, ScopedHere, ItemKinds
  <2>3. /\ e.kind = "if" => <<Arms(e.arms, e.elseBlock, FALSE)>> \in S
        /\ <<Load(e)>> \in S
        /\ e.kind = "computed" => [i \in DOMAIN e.calls |-> Call(e.calls[i])] \in S
    BY <1>1, <2>2, ExpressionTyped
  <2>4. calls \in S
    BY <1>3, <2>3
  <2> HIDE DEF calls, e
  <2>5. calls \o <<Load(e)>> \in S /\ <<Load(e)>> \o calls \in S
    BY <2>3, <2>4, ConcatProperties
  <2>6. PICK items \in S : Continue(items)
    BY <2>1, <2>3, <2>5
  <2>7. FALSE \in BOOLEAN
    OBVIOUS
  <2> QED
    BY <1>2, <2>1, <2>6, <2>7, FlatStep
<1>11. CASE StoreValues
  <2>1. /\ todo # <<>> /\ Item.do = "store" /\ Continue(<<>>) /\ unit' = unit /\ saved' = saved
        /\ frames' = [i \in DOMAIN frames |-> Stored(frames[i], i, Item.stmt)]
    BY <1>11 DEF StoreValues, Top, Item
  <2> DEFINE new == [i \in DOMAIN frames |-> Stored(frames[i], i, Item.stmt)]
  <2>2. PICK R : frames \in Seq(R) /\ saved \in Seq(Seq(R))
    BY <1>1 DEF Listed
  <2> DEFINE Q == R \cup {Stored(frames[i], i, Item.stmt) : i \in DOMAIN frames}
  <2>3. new \in Seq(Q) /\ Len(new) = Len(frames)
    <3> DEFINE n == Len(frames)
    <3>1. n \in Nat /\ DOMAIN frames = 1 .. n
      BY <2>2, LenProperties
    <3>2. new \in [1 .. n -> Q]
      BY <3>1
    <3> HIDE DEF new, n, Q
    <3>3. new \in Seq(Q)
      BY <3>1, <3>2, SeqDef
    <3>4. Len(new) = n
      BY <3>1, <3>2, <3>3, LenProperties
    <3> QED
      BY <3>3, <3>4 DEF n
  <2>4. saved \in Seq(Seq(Q))
    <3>1. Seq(R) \subseteq Seq(Q)
      BY MoreSequences
    <3>2. Seq(Seq(R)) \subseteq Seq(Seq(Q))
      BY <3>1, MoreSequences
    <3> QED
      BY <2>2, <3>2
  <2> HIDE DEF Q, new
  <2>5. frames' = new
    BY <2>1 DEF new
  <2>6. Listed(saved', frames') /\ Depth' = Depth
    BY <2>1, <2>3, <2>4, <2>5 DEF Listed, Depth
  <2>7. TRUE \in BOOLEAN
    OBVIOUS
  <2> QED
    BY <1>3, <2>1, <2>6, <2>7, FlatStep
<1>12. CASE Test
  <2>1. /\ todo # <<>> /\ Item.do = "fork"
        /\ unit' = unit /\ saved' = saved /\ frames' = frames
        /\ Continue(Item.yes) \/ Continue(Item.no)
    BY <1>12 DEF Test, Top, Item, Quietly
  <2>2. /\ Item.shown \in BOOLEAN
        /\ Item.yes \in Seq(Plain(u, Item.shown)) /\ Item.no \in Seq(Plain(u, Item.shown))
    BY <2>1, ScopedHere, ItemKinds
  <2>3. Seq(Plain(u, Item.shown)) \subseteq Seq(Flat(u, Item.shown))
    BY <2>2, PlainIsFlat, MoreSequences
  <2>4. PICK items \in Seq(Flat(u, Item.shown)) : Continue(items)
    BY <2>1, <2>2, <2>3
  <2> QED
    BY <1>2, <2>1, <2>2, <2>4, FlatStep
<1>13. CASE TestRange
  <2> DEFINE code == RoundCode(Item.stmt, Item.counter, Item.shown)
  <2>1. /\ todo # <<>> /\ Item.do = "round"
        /\ unit' = unit /\ saved' = saved /\ frames' = frames
        /\ Continue(code) \/ Continue(<<>>)
    BY <1>13 DEF TestRange, Top, Item, Quietly
  <2>2. CASE Continue(<<>>)
    <3>1. TRUE \in BOOLEAN
      OBVIOUS
    <3> QED
      BY <1>2, <1>3, <2>1, <2>2, <3>1, FlatStep
  <2>3. CASE Continue(code)
    <3>1. /\ Item.stmt \in Counted(u) /\ Item.counter \in Counters(Item.stmt.source)
          /\ Item.shown \in BOOLEAN /\ Depth \in Depths
      BY <2>1, ScopedHere, ItemKinds
    <3>2. code \in Seq(Items(u)) /\ Chain(E, code, Depth, Depth)
      BY <1>1, <3>1, RoundNests
    <3> HIDE DEF code
    <3>3. \A r : <<Item, Depth, r>> \in E => r = Depth
      BY <2>1 DEF Nesting
    <3>4. Depth' = Depth /\ Listed(saved', frames')
      BY <1>2, <2>1
    <3> QED
      BY <2>1, <2>3, <3>2, <3>3, <3>4, ScopedStep
  <2> QED
    BY <2>1, <2>2, <2>3
<1>14. CASE BindLoopVariables
  <2> DEFINE scope == Filled(BinderTypes(Item.stmt))
  <2>1. /\ todo # <<>> /\ Item.do = "bind" /\ Continue(<<>>)
        /\ unit' = unit /\ saved' = saved /\ frames' = Append(frames, scope)
    BY <1>14 DEF BindLoopVariables, Top, Item, Quietly
  <2>2. Depth' = <<Depth[1], Depth[2] + 1>> /\ Listed(saved', frames')
    BY <1>1, <2>1, ScopePushed
  <2>3. \A r : <<Item, Depth, r>> \in E => r = Depth'
    BY <2>1, <2>2 DEF Nesting
  <2>4. \A r : <<Item, Depth, r>> \in E => <<>> \in Seq(Items(u)) /\ Chain(E, <<>>, Depth', r)
    BY <2>3, EmptySeq, ChainEmpty
  <2> QED
    BY <2>1, <2>2, <2>4, ScopedStep
<1>15. CASE CallFunction
  <2> DEFINE b == u.functions[Item.name].body
             body == Body(b, FALSE)
             deep == <<Append(Depth[1], Depth[2]), 1>>
  <2>1. /\ todo # <<>> /\ Item.do = "call" /\ Continue(body \o <<Back>>)
        /\ unit' = unit /\ saved' = Append(saved, frames)
        /\ frames' = <<Filled(u.functions[Item.name].params)>>
    BY <1>15 DEF CallFunction, Top, Item
  <2>2. Item.name \in DOMAIN u.functions /\ Depth \in Depths
    BY <2>1, ScopedHere, ItemKinds
  <2>3. body \in Seq(Flat(u, FALSE))
    <3>1. b \in BlocksIn(u)
      BY <1>1, <2>2 DEF IsUnit
    <3> QED
      BY <3>1, BodyTyped
  <2>4. deep \in Depths
    <3>1. Append(Depth[1], Depth[2]) \in Seq(Nat)
      BY <2>2, AppendProperties DEF Depths
    <3> QED
      BY <3>1, DepthTyped
  <2>5. Depth' = deep /\ Listed(saved', frames')
    BY <1>1, <2>1, CallPushed
  <2>6. Back \in Items(u)
    BY DEF Items, Family, Leaves
  <2>7. <<Back, deep, Depth>> \in E
    BY <2>2, <2>4, <2>6 DEF Nesting, Back
  <2>8. body \in Seq(Items(u)) /\ Chain(E, body, deep, deep)
    BY <2>3, <2>4, FlatNests
  <2> HIDE DEF body, deep
  <2>9. <<Back>> \in Seq(Items(u)) /\ Chain(E, <<Back>>, deep, Depth)
    BY <2>6, <2>7, Single, ChainOne
  <2>10. body \o <<Back>> \in Seq(Items(u)) /\ Chain(E, body \o <<Back>>, deep, Depth)
    BY <2>8, <2>9, ConcatProperties, ChainConcat
  <2>11. \A r : <<Item, Depth, r>> \in E => r = Depth
    BY <2>1 DEF Nesting
  <2> QED
    BY <2>1, <2>5, <2>10, <2>11, ScopedStep
<1>16. CASE ReturnToCaller
  <2>1. /\ todo # <<>> /\ Item.do = "back" /\ Continue(<<>>)
        /\ unit' = unit /\ frames' = Last(saved) /\ saved' = Front(saved)
    BY <1>16 DEF ReturnToCaller, Top, Item
  <2>2. ASSUME NEW r, <<Item, Depth, r>> \in E
        PROVE  Depth' = r /\ Listed(saved', frames')
    <3>1. r \in Depths /\ Depth = <<Append(r[1], r[2]), 1>>
      BY <2>1, <2>2 DEF Nesting
    <3> QED
      BY <1>1, <2>1, <3>1, CallPopped
  <2>3. \A r : <<Item, Depth, r>> \in E => <<>> \in Seq(Items(u)) /\ Chain(E, <<>>, Depth', r)
    BY <2>2, EmptySeq, ChainEmpty
  <2>4. Listed(saved', frames')
    BY <2>1, <2>2, ScopedHere
  <2> QED
    BY <2>1, <2>3, <2>4, ScopedStep
<1>17. CASE UNCHANGED vars
  <2>1. program' = program /\ todo' = todo /\ saved' = saved /\ frames' = frames
    BY <1>17 DEF vars, program
  <2> QED
    BY <2>1 DEF Scoped, Depth
<1> QED
  BY <1>4, <1>5, <1>6, <1>7, <1>8, <1>9, <1>10, <1>11, <1>12, <1>13, <1>14,
     <1>15, <1>16, <1>17 DEF Next

(* The walk stays in the graph; every scope and every call that is begun is *)
(* ended once: at the end of the run, in every unit, there is the scope of  *)
(* the unit and nothing else (push_scope and pop_scope of                   *)
(* src/codegen/lower.rs).                                                   *)
THEOREM ScopesBalance == Spec => []TypeOK
<1>1. Init => Follows /\ Scoped
  BY FollowsInit, ScopedInit
<1>2. Follows /\ Scoped /\ [Next]_vars => (Follows /\ Scoped)'
  BY FollowsNext, ScopedNext
<1>3. Spec => [](Follows /\ Scoped)
  BY <1>1, <1>2, PTL DEF Spec
<1>4. Follows /\ Scoped => TypeOK
  <2> SUFFICES ASSUME Follows, Scoped PROVE TypeOK
    OBVIOUS
  <2>1. at[1] \in DOMAIN graph.succs
    BY FollowsGraph
  <2>2. at[2] \in 1 .. Len(graph.blocks[at[1] + 1].actions) + 1
    BY FollowsUnit DEF Places
  <2> DEFINE end == << <<>>, 1>>
  <2>3. todo \in Seq(Items(program)) /\ Chain(Nesting(program), todo, Depth, end)
    BY DEF Follows, Led, Scoped
  <2>4. end \in Depths
    <3>1. <<>> \in Seq(Nat)
      BY EmptySeq
    <3> QED
      BY <3>1, DepthTyped
  <2>5. Depth \in Depths
    <3>1. \A x, a, b : <<x, a, b>> \in Nesting(program) => a \in Depths
      BY DEF Nesting
    <3> QED
      BY <2>3, <2>4, <3>1, ChainBegins
  <2>6. Len(frames) >= 1
    <3>1. Len(frames) \in Nat \ {0}
      BY <2>5 DEF Depth, Depths
    <3> QED
      BY <3>1
  <2>7. ASSUME todo = <<>> PROVE Len(frames) = 1 /\ saved = <<>>
    <3>1. Depth = end
      BY <2>3, <2>7, ChainEmpty
    <3>2. Len(frames) = 1 /\ Lengths(saved) = <<>>
      BY <3>1 DEF Depth
    <3>3. PICK R : saved \in Seq(Seq(R))
      BY DEF Scoped, Listed
    <3>4. Len(saved) = 0
      BY <3>2, <3>3, LengthsTyped, EmptySeq
    <3> QED
      BY <3>2, <3>3, <3>4, EmptySeq
  <2> QED
    BY <2>1, <2>2, <2>6, <2>7 DEF TypeOK
<1> QED
  BY <1>3, <1>4, PTL

=============================================================================
