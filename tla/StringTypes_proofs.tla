-------------------------- MODULE StringTypes_proofs --------------------------
(***************************************************************************)
(* The code of typed programs is balanced.  The state of a run is          *)
(* abstracted to a stack of kinds, one for each string value in flight;    *)
(* every item of the code takes one such stack to another, and the code an *)
(* item expands to takes it to the same one.                               *)
(***************************************************************************)
EXTENDS StringTypes, SequenceTheorems, TLAPS

-----------------------------------------------------------------------------
(* Stacks of kinds.                                                         *)

(* A value is owned; or it is lent by a variable, which has it in a slot of *)
(* one of the scopes up to `upto` or in a global; or it is of no use.       *)
Kind == [owned : BOOLEAN, from : SUBSET Symbol, upto : Nat]

Mine == [owned |-> TRUE, from |-> {}, upto |-> 0]
Spent == [owned |-> FALSE, from |-> {}, upto |-> 0]
Lent(x, scopes) == [owned |-> FALSE, from |-> {x}, upto |-> scopes]

Readable(k) == k.owned \/ k.from # {}

(* Of the values in flight, how many there are and the kind of each; of the *)
(* scopes, how many are open and how many were when each call was made; and *)
(* whether the slots have been emptied.                                     *)
State(height, values, scopes, callers, clean) ==
  [height |-> height, values |-> values, scopes |-> scopes, callers |-> callers, clean |-> clean]

Floor(S) == IF S.callers = <<>> THEN 0 ELSE S.callers[Len(S.callers)]

(* Each call was made when more scopes were open than at the one before.    *)
Nested(callers, scopes) ==
  /\ callers \in Seq(Nat \ {0})
  /\ \A i \in 1 .. Len(callers) : callers[i] <= scopes
  /\ \A i, j \in 1 .. Len(callers) : i < j => callers[i] < callers[j]

UpTo(S, scopes) == \A i \in 1 .. S.height : S.values[i].upto <= scopes

WellFormed(S) ==
  /\ S = State(S.height, S.values, S.scopes, S.callers, S.clean)
  /\ S.height \in Nat /\ S.values \in [1 .. S.height -> Kind]
  /\ S.scopes \in Nat \ {0} /\ S.clean \in BOOLEAN
  /\ Nested(S.callers, S.scopes) /\ UpTo(S, S.scopes)
  /\ \A i \in 1 .. S.height : S.values[i].owned => S.values[i].from = {}

Pushed(S, k) ==
  State(S.height + 1, [i \in 1 .. S.height + 1 |-> IF i = S.height + 1 THEN k ELSE S.values[i]],
        S.scopes, S.callers, S.clean)
Popped(S, n) ==
  State(S.height - n, [i \in 1 .. S.height - n |-> S.values[i]], S.scopes, S.callers, S.clean)
(* The newest n values are now of the kinds given.                          *)
Turned(S, n, kinds) ==
  State(S.height, [i \in 1 .. S.height |->
                     IF i > S.height - n THEN kinds[i - (S.height - n)] ELSE S.values[i]],
        S.scopes, S.callers, S.clean)
Grown(S, n) ==    \* by n owned values
  State(S.height + n, [i \in 1 .. S.height + n |-> IF i > S.height THEN Mine ELSE S.values[i]],
        S.scopes, S.callers, S.clean)
Become(S, i, k) ==
  State(S.height, [j \in 1 .. S.height |-> IF j = i THEN k ELSE S.values[j]],
        S.scopes, S.callers, S.clean)

NewestKind(S, n, i) == S.values[S.height - n + i]

Start == State(0, [i \in 1 .. 0 |-> Mine], 1, <<>>, FALSE)
Ended(S) ==
  S.height = 0 /\ S.scopes = 1 /\ S.callers = <<>> /\ S.clean

(* Code that is neither between two calls nor behind the end.               *)
Opened(S) == ~S.clean /\ Floor(S) < S.scopes

(* Whether a store to a place may change the slot a value is lent by.       *)
Hit(k, place, floor) == place.sym \in k.from /\ (place.global \/ k.upto > floor)
Spared(S, places) ==
  \A i \in 1 .. S.height, place \in places : ~Hit(S.values[i], place, Floor(S))

-----------------------------------------------------------------------------
(* What an item does to the stack.                                          *)

(* The value of a variable is made use of in careful programs only.         *)
Borrowed(p, x, scopes) == IF Careful(p) THEN Lent(x, scopes) ELSE Spent
ValueKind(p, e, scopes) == IF e.kind = "var" THEN Borrowed(p, e.place.sym, scopes) ELSE Mine
After(p, e, S) == IF e.str THEN Pushed(S, ValueKind(p, e, S.scopes)) ELSE S

(* Value number j of an assignment when (group, index) is stored next.      *)
(* `keep`: its last value is the program's.                                 *)
Held(p, s, keep, group, index, scopes) ==
  [j \in 1 .. Len(s.values) |->
     IF group = 1 /\ index <= j THEN Mine
     ELSE IF \/ group < Len(s.groups) \/ (group = Len(s.groups) /\ index <= j)
             \/ keep /\ j = Len(s.values)
       THEN Borrowed(p, s.groups[1][j].sym, scopes)
     ELSE Spent]

UsableTop(p, S, n) ==
  /\ n \in 0 .. S.height
  /\ Careful(p) => \A i \in 1 .. n : Readable(NewestKind(S, n, i))

Evaluates(p, e, S, T) ==
  e \in Expr(p) /\ Opened(S) /\ Spared(S, Writes(p, e)) /\ T = After(p, e, S)

Executes(p, s, S, T) ==
  s \in Stmt(p) /\ Opened(S) /\ Spared(S, Writes(p, s)) /\ T = S

LeadsParts(p, e, done, S, T) ==
  /\ e \in Expr(p) /\ e.kind = "concat" /\ done \in 0 .. Len(e.parts) /\ done <= S.height
  /\ Opened(S) /\ Spared(Popped(S, done), Writes(p, e))
  /\ \A i \in 1 .. done : NewestKind(S, done, i) = ValueKind(p, e.parts[i], S.scopes)
  /\ T = Pushed(Popped(S, done), Mine)

LeadsValues(p, s, done, S, T) ==
  /\ s \in Stmt(p) /\ s.kind = "assign" /\ done \in 0 .. Len(s.values)
  /\ Opened(S) /\ Spared(S, Writes(p, s))
  /\ T = Grown(S, Len(s.values) - done)

LeadsStores(p, s, group, index, S, T) ==
  LET n == Len(s.values) IN
  /\ s \in Stmt(p) /\ s.kind = "assign" /\ n <= S.height
  /\ group \in 1 .. Len(s.groups) + 1 /\ index \in 1 .. n + 1
  /\ group > Len(s.groups) => index = 1
  /\ Opened(S) /\ Spared(Popped(S, n), Writes(p, s))
  /\ \E keep \in BOOLEAN :
       /\ keep => s = Last(p.stmts)
       /\ \A j \in 1 .. n : NewestKind(S, n, j) = Held(p, s, keep, group, index, S.scopes)[j]
       /\ T = Turned(S, n, Held(p, s, keep, Len(s.groups) + 1, 1, S.scopes))

LeadsStore(p, place, first, back, S, T) ==
  /\ IsPlace(p, place) /\ Opened(S) /\ back \in 0 .. S.height - 1
  /\ LET i == S.height - back IN
     /\ \A j \in 1 .. S.height : j # i => ~Hit(S.values[j], place, Floor(S))
     /\ \/ /\ first /\ S.values[i] = Mine
           /\ \E k \in {Spent, Lent(place.sym, S.scopes)} : T = Become(S, i, k)
        \/ /\ ~first /\ ~S.values[i].owned
           /\ Careful(p) => Readable(S.values[i])
           /\ \E k \in {Spent, S.values[i]} :
                ~Hit(k, place, Floor(S)) /\ T = Become(S, i, k)

LeadsClose(S, T) ==
  /\ ~S.clean /\ Floor(S) < S.scopes /\ S.scopes > 1
  /\ \A i \in 1 .. S.height : S.values[i].upto < S.scopes
  /\ T = State(S.height, S.values, S.scopes - 1, S.callers, S.clean)

LeadsInvoke(p, name, S, T) ==
  /\ name \in DOMAIN p.functions
  /\ Opened(S) /\ Spared(S, CallWrites(p, name))
  /\ T = IF p.functions[name].result.str THEN Pushed(S, Mine) ELSE S

LeadsBack(S, T) ==
  /\ ~S.clean /\ S.callers # <<>> /\ S.scopes = Floor(S)
  /\ T = State(S.height, S.values, S.scopes, SubSeq(S.callers, 1, Len(S.callers) - 1), S.clean)

LeadsFinish(S, T) ==
  /\ ~S.clean /\ S.scopes = 1 /\ S.callers = <<>>
  /\ \A i \in 1 .. S.height : S.values[i].from = {}
  /\ T = State(S.height, S.values, S.scopes, S.callers, TRUE)

LeadsHost(S, T) ==
  /\ S.clean /\ S.height > 0 /\ S.values[S.height] = Mine
  /\ \A i \in 1 .. S.height - 1 : ~S.values[i].owned
  /\ T = State(0, [i \in 1 .. 0 |-> Mine], S.scopes, S.callers, S.clean)

Leads(p, item, S, T) ==
  \/ item.do = "value" /\ item.expr = Scalar /\ Opened(S) /\ T = S
  \/ item.do = "value" /\ Evaluates(p, item.expr, S, T)
  \/ item.do = "stmt" /\ Executes(p, item.stmt, S, T)
  \/ item.do = "last" /\ item.stmt = Last(p.stmts) /\ S = Start /\ Ended(T)
  \/ item.do \in {"make", "render"} /\ Opened(S) /\ T = Pushed(S, Mine)
  \/ /\ item.do = "load" /\ Opened(S) /\ IsPlace(p, item.place)
     /\ T = Pushed(S, Borrowed(p, item.place.sym, S.scopes))
  \/ item.do = "parts" /\ LeadsParts(p, item.expr, item.done, S, T)
  \/ /\ item.do = "join" /\ Opened(S) /\ UsableTop(p, S, item.count)
     /\ T = Pushed(Popped(S, item.count), Mine)
  \/ item.do = "own" /\ Opened(S) /\ UsableTop(p, S, 1) /\ S.height > 0 /\ T = Pushed(Popped(S, 1), Mine)
  \/ item.do = "inspect" /\ Opened(S) /\ UsableTop(p, S, item.count) /\ T = Popped(S, item.count)
  \/ /\ item.do = "drop" /\ Opened(S) /\ item.count \in 0 .. S.height
     /\ \A i \in 1 .. item.count : ~NewestKind(S, item.count, i).owned
     /\ T = Popped(S, item.count)
  \/ item.do = "discard" /\ Opened(S) /\ S.height > 0 /\ T = Popped(S, 1)
  \/ item.do = "values" /\ LeadsValues(p, item.stmt, item.done, S, T)
  \/ item.do = "stores" /\ LeadsStores(p, item.stmt, item.group, item.index, S, T)
  \/ item.do = "store" /\ LeadsStore(p, item.place, item.first, item.back, S, T)
  \/ item.do = "if" /\ item.expr.kind = "if" /\ Evaluates(p, item.expr, S, T)
  \/ /\ item.do = "repeat" /\ item.stmt.kind \in {"loop", "turns"}
     /\ Executes(p, item.stmt, S, T)
  \/ /\ item.do = "enter" /\ Opened(S)
     /\ T = State(S.height, S.values, S.scopes + 1, S.callers, S.clean)
  \/ item.do = "close" /\ LeadsClose(S, T)
  \/ item.do = "invoke" /\ LeadsInvoke(p, item.name, S, T)
  \/ item.do = "back" /\ LeadsBack(S, T)
  \/ item.do = "finish" /\ LeadsFinish(S, T)
  \/ item.do = "host" /\ LeadsHost(S, T)

(* Code takes S to F by way of well-formed stacks, one between two items.   *)
Takes(p, code, S, F) ==
  /\ code \in Seq(ToSet(code))
  /\ \E via :
       /\ via[1] = S /\ via[Len(code) + 1] = F
       /\ \A i \in 1 .. Len(code) + 1 : WellFormed(via[i])
       /\ \A i \in 1 .. Len(code) : Leads(p, code[i], via[i], via[i + 1])

-----------------------------------------------------------------------------
(* Code.                                                                    *)

(* No code leads from a stack to itself.                                    *)
LEMMA CodeEmpty ==
  ASSUME NEW p, NEW S, WellFormed(S)
  PROVE  Takes(p, <<>>, S, S)
<1> DEFINE via == [i \in 1 .. 1 |-> S]
<1>1. <<>> \in Seq(ToSet(<<>>)) /\ Len(<<>>) = 0
  BY EmptySeq
<1>2. via[1] = S
  OBVIOUS
<1>3. \A i \in 1 .. Len(<<>>) + 1 : WellFormed(via[i])
  BY <1>1
<1> HIDE DEF via
<1> QED
  BY <1>1, <1>2, <1>3 DEF Takes

(* Code of one item.                                                        *)
LEMMA CodeOne ==
  ASSUME NEW p, NEW item, NEW S, NEW T, WellFormed(S), WellFormed(T), Leads(p, item, S, T)
  PROVE  Takes(p, <<item>>, S, T)
<1> DEFINE via == [i \in 1 .. 2 |-> IF i = 1 THEN S ELSE T]
           code == <<item>>
<1>1. code \in Seq(ToSet(code)) /\ Len(code) = 1 /\ code[1] = item
  BY DEF ToSet
<1>2. via[1] = S /\ via[2] = T
  OBVIOUS
<1> HIDE DEF via, code
<1>3. \A i \in 1 .. Len(code) + 1 : WellFormed(via[i])
  BY <1>1, <1>2
<1>4. \A i \in 1 .. Len(code) : Leads(p, code[i], via[i], via[i + 1])
  BY <1>1, <1>2
<1>5. Takes(p, code, S, T)
  BY <1>1, <1>2, <1>3, <1>4 DEF Takes
<1> QED
  BY <1>5 DEF code

(* Code after code.                                                         *)
LEMMA CodeConcat ==
  ASSUME NEW p, NEW c, NEW d, NEW S, NEW T, NEW U, Takes(p, c, S, T), Takes(p, d, T, U)
  PROVE  Takes(p, c \o d, S, U)
<1>1. PICK v : /\ v[1] = S /\ v[Len(c) + 1] = T
               /\ \A i \in 1 .. Len(c) + 1 : WellFormed(v[i])
               /\ \A i \in 1 .. Len(c) : Leads(p, c[i], v[i], v[i + 1])
  BY DEF Takes
<1>2. PICK w : /\ w[1] = T /\ w[Len(d) + 1] = U
               /\ \A i \in 1 .. Len(d) + 1 : WellFormed(w[i])
               /\ \A i \in 1 .. Len(d) : Leads(p, d[i], w[i], w[i + 1])
  BY DEF Takes
<1> DEFINE A == ToSet(c) \cup ToSet(d)
           code == c \o d
           n == Len(c)
           m == Len(d)
           via == [i \in 1 .. n + m + 1 |-> IF i <= n THEN v[i] ELSE w[i - n]]
<1>3. c \in Seq(A) /\ d \in Seq(A)
  BY SeqMonotonic DEF Takes
<1>4. /\ code \in Seq(A) /\ Len(code) = n + m
      /\ \A i \in 1 .. n + m : code[i] = IF i <= n THEN c[i] ELSE d[i - n]
  BY <1>3, ConcatProperties
<1>5. n \in Nat /\ m \in Nat /\ DOMAIN code = 1 .. n + m
  BY <1>3, <1>4, LenProperties
<1> HIDE DEF code, n, m
<1>6. code \in Seq(ToSet(code))
  BY <1>4, <1>5, SeqOfRange DEF ToSet, Range
<1>7. via[1] = S /\ via[Len(code) + 1] = U
  BY <1>1, <1>2, <1>4, <1>5 DEF n, m
<1>8. ASSUME NEW i \in 1 .. Len(code) + 1
      PROVE  WellFormed(via[i])
  BY <1>1, <1>2, <1>4, <1>5 DEF n, m
<1>9. ASSUME NEW i \in 1 .. Len(code)
      PROVE  Leads(p, code[i], via[i], via[i + 1])
  <2>1. CASE i < n
    <3>1. via[i] = v[i] /\ via[i + 1] = v[i + 1] /\ code[i] = c[i] /\ i \in 1 .. n
      BY <1>4, <1>5, <2>1
    <3> HIDE DEF via
    <3> QED
      BY <1>1, <3>1 DEF n
  <2>2. CASE i = n
    <3>1. via[i] = v[n] /\ via[i + 1] = w[1] /\ code[i] = c[n]
      BY <1>4, <1>5, <2>2
    <3> HIDE DEF via
    <3> QED
      BY <1>1, <1>2, <1>5, <2>2, <3>1 DEF n
  <2>3. CASE i > n
    <3>1. via[i] = w[i - n] /\ via[i + 1] = w[i - n + 1] /\ code[i] = d[i - n] /\ i - n \in 1 .. m
      BY <1>4, <1>5, <2>3
    <3> HIDE DEF via
    <3> QED
      BY <1>2, <3>1 DEF m
  <2> QED
    BY <1>4, <1>5, <2>1, <2>2, <2>3
<1> HIDE DEF via
<1>10. Takes(p, code, S, U)
  BY <1>6, <1>7, <1>8, <1>9 DEF Takes
<1> QED
  BY <1>10 DEF code

(* The first item leads to where the rest of the code takes over.           *)
LEMMA CodeHead ==
  ASSUME NEW p, NEW code, NEW S, NEW F, Takes(p, code, S, F), code # <<>>
  PROVE  /\ WellFormed(S)
         /\ \E T : WellFormed(T) /\ Leads(p, Head(code), S, T) /\ Takes(p, Tail(code), T, F)
<1>1. PICK v : /\ v[1] = S /\ v[Len(code) + 1] = F
               /\ \A i \in 1 .. Len(code) + 1 : WellFormed(v[i])
               /\ \A i \in 1 .. Len(code) : Leads(p, code[i], v[i], v[i + 1])
  BY DEF Takes
<1> DEFINE n == Len(code)
           rest == Tail(code)
           via == [i \in 1 .. n |-> v[i + 1]]
<1>2. code \in Seq(ToSet(code)) /\ n \in Nat \ {0}
  BY EmptySeq DEF Takes
<1>3. /\ rest \in Seq(ToSet(code)) /\ Len(rest) = n - 1
      /\ \A i \in 1 .. Len(rest) : rest[i] = code[i + 1]
      /\ Head(code) = code[1]
  BY <1>2, HeadTailProperties
<1>4. DOMAIN rest = 1 .. n - 1
  BY <1>3, LenProperties
<1> HIDE DEF n, rest
<1>5. rest \in Seq(ToSet(rest))
  BY <1>3, SeqOfRange DEF ToSet, Range
<1>6. /\ via[1] = v[2] /\ via[Len(rest) + 1] = F
      /\ \A i \in 1 .. Len(rest) + 1 : WellFormed(via[i])
  BY <1>1, <1>2, <1>3 DEF n
<1>7. ASSUME NEW i \in 1 .. Len(rest)
      PROVE  Leads(p, rest[i], via[i], via[i + 1])
  <2>1. via[i] = v[i + 1] /\ via[i + 1] = v[i + 1 + 1] /\ rest[i] = code[i + 1] /\ i + 1 \in 1 .. n
    BY <1>2, <1>3
  <2> HIDE DEF via
  <2> QED
    BY <1>1, <2>1 DEF n
<1> HIDE DEF via
<1>8. Takes(p, rest, v[2], F)
  BY <1>5, <1>6, <1>7 DEF Takes
<1>9. WellFormed(v[1]) /\ WellFormed(v[2]) /\ Leads(p, code[1], v[1], v[2])
  BY <1>1, <1>2 DEF n
<1> QED
  BY <1>1, <1>3, <1>8, <1>9 DEF rest

(* Where no code is left the stack is the one it led to.                    *)
LEMMA CodeEnd ==
  ASSUME NEW p, NEW S, NEW F, Takes(p, <<>>, S, F)
  PROVE  S = F
BY EmptySeq DEF Takes

(* Statements leave the stack as it is, however many.                       *)
LEMMA CodeSteady ==
  ASSUME NEW p, NEW A, NEW stmts \in Seq(A), NEW S, WellFormed(S),
         \A i \in 1 .. Len(stmts) : Leads(p, Do(stmts[i]), S, S)
  PROVE  Takes(p, [i \in DOMAIN stmts |-> Do(stmts[i])], S, S)
<1> DEFINE code == [i \in DOMAIN stmts |-> Do(stmts[i])]
           via == [i \in 1 .. Len(stmts) + 1 |-> S]
<1>1. Len(stmts) \in Nat /\ DOMAIN stmts = 1 .. Len(stmts)
  BY LenProperties
<1>2. /\ code \in Seq(ToSet(code)) /\ Len(code) = Len(stmts)
      /\ \A i \in 1 .. Len(code) : code[i] = Do(stmts[i])
  <2>1. code \in [1 .. Len(stmts) -> ToSet(code)]
    BY <1>1 DEF ToSet
  <2>2. code \in Seq(ToSet(code))
    BY <1>1, <2>1, SeqDef
  <2>3. Len(code) = Len(stmts)
    BY <1>1, <2>2, LenProperties
  <2> QED
    BY <1>1, <2>2, <2>3
<1>3. /\ via[1] = S /\ via[Len(stmts) + 1] = S
      /\ \A i \in 1 .. Len(stmts) + 1 : WellFormed(via[i])
      /\ \A i \in 1 .. Len(stmts) : via[i] = S /\ via[i + 1] = S
  BY <1>1
<1> HIDE DEF code, via
<1>4. Takes(p, code, S, S)
  BY <1>2, <1>3 DEF Takes
<1> QED
  BY <1>4 DEF code

-----------------------------------------------------------------------------
(* Stacks.                                                                  *)

(* A kind a stack with so many scopes may hold.                             *)
Fitting(k, scopes) == k \in Kind /\ k.upto <= scopes /\ (k.owned => k.from = {})

(* The kinds of values that fit a stack with so many scopes.                *)
LEMMA FittingKinds ==
  ASSUME NEW scopes \in Nat
  PROVE  /\ Fitting(Mine, scopes) /\ Fitting(Spent, scopes)
         /\ \A x \in Symbol : Fitting(Lent(x, scopes), scopes)
         /\ Mine.owned /\ ~Spent.owned /\ Mine.from = {} /\ Spent.from = {}
         /\ \A x \in Symbol : ~Lent(x, scopes).owned /\ Lent(x, scopes).from = {x}
                                /\ Lent(x, scopes).upto = scopes
BY DEF Fitting, Kind, Mine, Spent, Lent

(* The values of a well-formed stack fit it.                                *)
LEMMA FittingValues ==
  ASSUME NEW S, WellFormed(S), NEW i \in 1 .. S.height
  PROVE  Fitting(S.values[i], S.scopes)
BY DEF WellFormed, UpTo, Fitting

(* The fields of a stack are what it is made of.                            *)
LEMMA StateFields ==
  ASSUME NEW height, NEW values, NEW scopes, NEW callers, NEW clean
  PROVE  LET S == State(height, values, scopes, callers, clean) IN
         /\ S.height = height /\ S.values = values /\ S.scopes = scopes
         /\ S.callers = callers /\ S.clean = clean
         /\ S = State(S.height, S.values, S.scopes, S.callers, S.clean)
BY DEF State

(* A stack with other values over the same scopes.                          *)
LEMMA OtherValues ==
  ASSUME NEW S, WellFormed(S), NEW height \in Nat, NEW values,
         values \in [1 .. height -> Kind],
         \A i \in 1 .. height : Fitting(values[i], S.scopes)
  PROVE  LET T == State(height, values, S.scopes, S.callers, S.clean) IN
         /\ WellFormed(T)
         /\ T.height = height /\ T.values = values /\ T.scopes = S.scopes
         /\ T.callers = S.callers /\ T.clean = S.clean
         /\ Floor(T) = Floor(S) /\ (Opened(T) <=> Opened(S))
<1> DEFINE T == State(height, values, S.scopes, S.callers, S.clean)
<1>1. /\ T.height = height /\ T.values = values /\ T.scopes = S.scopes
      /\ T.callers = S.callers /\ T.clean = S.clean
      /\ T = State(T.height, T.values, T.scopes, T.callers, T.clean)
  BY StateFields
<1> HIDE DEF T
<1>2. WellFormed(T)
  BY <1>1 DEF WellFormed, UpTo, Fitting
<1>3. Floor(T) = Floor(S) /\ (Opened(T) <=> Opened(S))
  BY <1>1 DEF Floor, Opened
<1> QED
  BY <1>1, <1>2, <1>3 DEF T

(* Stacks that agree on everything are equal.                               *)
LEMMA SameState ==
  ASSUME NEW S, NEW T, WellFormed(S), WellFormed(T),
         S.height = T.height, S.scopes = T.scopes, S.callers = T.callers, S.clean = T.clean,
         \A i \in 1 .. S.height : S.values[i] = T.values[i]
  PROVE  S = T
<1>1. S.values = T.values
  BY DEF WellFormed
<1> QED
  BY <1>1 DEF WellFormed

(* A stack with one more value.                                             *)
LEMMA PushedFields ==
  ASSUME NEW S, WellFormed(S), NEW k, Fitting(k, S.scopes)
  PROVE  LET T == Pushed(S, k) IN
         /\ WellFormed(T)
         /\ T.height = S.height + 1 /\ T.scopes = S.scopes
         /\ T.callers = S.callers /\ T.clean = S.clean
         /\ \A i \in 1 .. S.height : T.values[i] = S.values[i]
         /\ T.values[S.height + 1] = k
         /\ Floor(T) = Floor(S) /\ (Opened(T) <=> Opened(S))
<1> DEFINE values == [i \in 1 .. S.height + 1 |-> IF i = S.height + 1 THEN k ELSE S.values[i]]
<1>1. S.height \in Nat /\ S.height + 1 \in Nat
  BY DEF WellFormed
<1>2. ASSUME NEW i \in 1 .. S.height + 1
      PROVE  Fitting(values[i], S.scopes)
  BY <1>1, FittingValues
<1>3. values \in [1 .. S.height + 1 -> Kind]
  BY <1>2 DEF Fitting
<1>4. (\A i \in 1 .. S.height : values[i] = S.values[i]) /\ values[S.height + 1] = k
  BY <1>1
<1> DEFINE T == State(S.height + 1, values, S.scopes, S.callers, S.clean)
<1>5. T = Pushed(S, k)
  BY DEF Pushed
<1> HIDE DEF values
<1>6. /\ WellFormed(T)
      /\ T.height = S.height + 1 /\ T.values = values /\ T.scopes = S.scopes
      /\ T.callers = S.callers /\ T.clean = S.clean
      /\ Floor(T) = Floor(S) /\ (Opened(T) <=> Opened(S))
  BY <1>1, <1>2, <1>3, OtherValues
<1> HIDE DEF T
<1> QED
  BY <1>4, <1>5, <1>6

(* A stack without its newest n values.                                     *)
LEMMA PoppedFields ==
  ASSUME NEW S, WellFormed(S), NEW n \in 0 .. S.height
  PROVE  LET T == Popped(S, n) IN
         /\ WellFormed(T)
         /\ T.height = S.height - n /\ T.scopes = S.scopes
         /\ T.callers = S.callers /\ T.clean = S.clean
         /\ \A i \in 1 .. S.height - n : T.values[i] = S.values[i]
         /\ Floor(T) = Floor(S) /\ (Opened(T) <=> Opened(S))
<1> DEFINE values == [i \in 1 .. S.height - n |-> S.values[i]]
<1>1. S.height \in Nat /\ S.height - n \in Nat
  BY DEF WellFormed
<1>2. ASSUME NEW i \in 1 .. S.height - n
      PROVE  Fitting(values[i], S.scopes)
  BY <1>1, FittingValues
<1>3. values \in [1 .. S.height - n -> Kind]
  BY <1>2 DEF Fitting
<1>4. \A i \in 1 .. S.height - n : values[i] = S.values[i]
  OBVIOUS
<1> DEFINE T == State(S.height - n, values, S.scopes, S.callers, S.clean)
<1>5. T = Popped(S, n)
  BY DEF Popped
<1> HIDE DEF values
<1>6. /\ WellFormed(T)
      /\ T.height = S.height - n /\ T.values = values /\ T.scopes = S.scopes
      /\ T.callers = S.callers /\ T.clean = S.clean
      /\ Floor(T) = Floor(S) /\ (Opened(T) <=> Opened(S))
  BY <1>1, <1>2, <1>3, OtherValues
<1> HIDE DEF T
<1> QED
  BY <1>4, <1>5, <1>6

(* A stack with n more owned values.                                        *)
LEMMA GrownFields ==
  ASSUME NEW S, WellFormed(S), NEW n \in Nat
  PROVE  LET T == Grown(S, n) IN
         /\ WellFormed(T)
         /\ T.height = S.height + n /\ T.scopes = S.scopes
         /\ T.callers = S.callers /\ T.clean = S.clean
         /\ \A i \in 1 .. S.height : T.values[i] = S.values[i]
         /\ \A i \in S.height + 1 .. S.height + n : T.values[i] = Mine
         /\ Floor(T) = Floor(S) /\ (Opened(T) <=> Opened(S))
<1> DEFINE values == [i \in 1 .. S.height + n |-> IF i > S.height THEN Mine ELSE S.values[i]]
<1>1. S.height \in Nat /\ S.height + n \in Nat /\ S.scopes \in Nat
  BY DEF WellFormed
<1>2. ASSUME NEW i \in 1 .. S.height + n
      PROVE  Fitting(values[i], S.scopes)
  BY <1>1, FittingValues, FittingKinds
<1>3. values \in [1 .. S.height + n -> Kind]
  BY <1>2 DEF Fitting
<1>4. /\ \A i \in 1 .. S.height : values[i] = S.values[i]
      /\ \A i \in S.height + 1 .. S.height + n : values[i] = Mine
  BY <1>1
<1> DEFINE T == State(S.height + n, values, S.scopes, S.callers, S.clean)
<1>5. T = Grown(S, n)
  BY DEF Grown
<1> HIDE DEF values
<1>6. /\ WellFormed(T)
      /\ T.height = S.height + n /\ T.values = values /\ T.scopes = S.scopes
      /\ T.callers = S.callers /\ T.clean = S.clean
      /\ Floor(T) = Floor(S) /\ (Opened(T) <=> Opened(S))
  BY <1>1, <1>2, <1>3, OtherValues
<1> HIDE DEF T
<1> QED
  BY <1>4, <1>5, <1>6

(* A stack whose newest n values are of other kinds.                        *)
LEMMA TurnedFields ==
  ASSUME NEW S, WellFormed(S), NEW n \in 0 .. S.height, NEW kinds,
         \A i \in 1 .. n : Fitting(kinds[i], S.scopes)
  PROVE  LET T == Turned(S, n, kinds) IN
         /\ WellFormed(T)
         /\ T.height = S.height /\ T.scopes = S.scopes
         /\ T.callers = S.callers /\ T.clean = S.clean
         /\ \A i \in 1 .. S.height - n : T.values[i] = S.values[i]
         /\ \A i \in 1 .. n : NewestKind(T, n, i) = kinds[i]
         /\ Floor(T) = Floor(S) /\ (Opened(T) <=> Opened(S))
<1> DEFINE values == [i \in 1 .. S.height |->
                        IF i > S.height - n THEN kinds[i - (S.height - n)] ELSE S.values[i]]
<1>1. S.height \in Nat
  BY DEF WellFormed
<1>2. ASSUME NEW i \in 1 .. S.height
      PROVE  Fitting(values[i], S.scopes)
  BY <1>1, FittingValues
<1>3. values \in [1 .. S.height -> Kind]
  BY <1>2 DEF Fitting
<1>4. /\ \A i \in 1 .. S.height - n : values[i] = S.values[i]
      /\ \A i \in 1 .. n : values[S.height - n + i] = kinds[i]
  <2>1. ASSUME NEW i \in 1 .. n
        PROVE  values[S.height - n + i] = kinds[i]
    <3> DEFINE k == S.height - n + i
    <3>1. k \in 1 .. S.height /\ k > S.height - n /\ k - (S.height - n) = i
      BY <1>1
    <3> HIDE DEF k
    <3>2. values[k] = kinds[i]
      BY <3>1
    <3> QED
      BY <3>2 DEF k
  <2> QED
    BY <1>1, <2>1
<1> DEFINE T == State(S.height, values, S.scopes, S.callers, S.clean)
<1>5. T = Turned(S, n, kinds)
  BY DEF Turned
<1> HIDE DEF values
<1>6. /\ WellFormed(T)
      /\ T.height = S.height /\ T.values = values /\ T.scopes = S.scopes
      /\ T.callers = S.callers /\ T.clean = S.clean
      /\ Floor(T) = Floor(S) /\ (Opened(T) <=> Opened(S))
  BY <1>1, <1>2, <1>3, OtherValues
<1> HIDE DEF T
<1> QED
  BY <1>4, <1>5, <1>6 DEF NewestKind

(* A stack with one value of another kind.                                  *)
LEMMA BecomeFields ==
  ASSUME NEW S, WellFormed(S), NEW n \in 1 .. S.height, NEW k, Fitting(k, S.scopes)
  PROVE  LET T == Become(S, n, k) IN
         /\ WellFormed(T)
         /\ T.height = S.height /\ T.scopes = S.scopes
         /\ T.callers = S.callers /\ T.clean = S.clean
         /\ \A i \in 1 .. S.height : T.values[i] = IF i = n THEN k ELSE S.values[i]
         /\ Floor(T) = Floor(S) /\ (Opened(T) <=> Opened(S))
<1> DEFINE values == [j \in 1 .. S.height |-> IF j = n THEN k ELSE S.values[j]]
<1>1. S.height \in Nat
  BY DEF WellFormed
<1>2. ASSUME NEW i \in 1 .. S.height
      PROVE  Fitting(values[i], S.scopes)
  BY FittingValues
<1>3. values \in [1 .. S.height -> Kind]
  BY <1>2 DEF Fitting
<1>4. \A i \in 1 .. S.height : values[i] = IF i = n THEN k ELSE S.values[i]
  OBVIOUS
<1> DEFINE T == State(S.height, values, S.scopes, S.callers, S.clean)
<1>5. T = Become(S, n, k)
  BY DEF Become
<1> HIDE DEF values
<1>6. /\ WellFormed(T)
      /\ T.height = S.height /\ T.values = values /\ T.scopes = S.scopes
      /\ T.callers = S.callers /\ T.clean = S.clean
      /\ Floor(T) = Floor(S) /\ (Opened(T) <=> Opened(S))
  BY <1>1, <1>2, <1>3, OtherValues
<1> HIDE DEF T
<1> QED
  BY <1>4, <1>5, <1>6

(* Popping what was pushed.                                                 *)
LEMMA PopPushed ==
  ASSUME NEW S, WellFormed(S), NEW k, Fitting(k, S.scopes), NEW n \in 0 .. S.height
  PROVE  /\ Popped(Pushed(S, k), n + 1) = Popped(S, n)
         /\ NewestKind(Pushed(S, k), n + 1, n + 1) = k
         /\ \A i \in 1 .. n : NewestKind(Pushed(S, k), n + 1, i) = NewestKind(S, n, i)
<1> DEFINE T == Pushed(S, k)
<1>1. S.height \in Nat
  BY DEF WellFormed
<1>2. /\ WellFormed(T)
      /\ T.height = S.height + 1 /\ T.scopes = S.scopes
      /\ T.callers = S.callers /\ T.clean = S.clean
      /\ \A i \in 1 .. S.height : T.values[i] = S.values[i]
      /\ T.values[S.height + 1] = k
  BY PushedFields
<1> HIDE DEF T
<1> DEFINE U == Popped(T, n + 1)
           V == Popped(S, n)
<1>3. n + 1 \in 0 .. T.height
  BY <1>1, <1>2
<1>4. /\ WellFormed(U) /\ U.height = S.height - n /\ U.scopes = S.scopes
      /\ U.callers = S.callers /\ U.clean = S.clean
      /\ \A i \in 1 .. S.height - n : U.values[i] = S.values[i]
  <2>1. /\ WellFormed(U) /\ U.height = T.height - (n + 1) /\ U.scopes = T.scopes
        /\ U.callers = T.callers /\ U.clean = T.clean
        /\ \A i \in 1 .. T.height - (n + 1) : U.values[i] = T.values[i]
    BY <1>2, <1>3, PoppedFields
  <2> HIDE DEF U
  <2> QED
    BY <1>1, <1>2, <2>1
<1>5. /\ WellFormed(V) /\ V.height = S.height - n /\ V.scopes = S.scopes
      /\ V.callers = S.callers /\ V.clean = S.clean
      /\ \A i \in 1 .. S.height - n : V.values[i] = S.values[i]
  BY PoppedFields
<1> HIDE DEF U, V
<1>6. U = V
  BY <1>4, <1>5, SameState
<1>7. NewestKind(T, n + 1, n + 1) = k
  BY <1>1, <1>2 DEF NewestKind
<1>8. ASSUME NEW i \in 1 .. n
      PROVE  NewestKind(T, n + 1, i) = NewestKind(S, n, i)
  BY <1>1, <1>2 DEF NewestKind
<1> QED
  BY <1>6, <1>7, <1>8 DEF T, U, V

(* Popping no value.                                                        *)
LEMMA PopNothing ==
  ASSUME NEW S, WellFormed(S)
  PROVE  Popped(S, 0) = S
<1> DEFINE T == Popped(S, 0)
<1>1. S.height \in Nat
  BY DEF WellFormed
<1>2. /\ WellFormed(T) /\ T.height = S.height /\ T.scopes = S.scopes
      /\ T.callers = S.callers /\ T.clean = S.clean
      /\ \A i \in 1 .. S.height : T.values[i] = S.values[i]
  BY <1>1, PoppedFields
<1> HIDE DEF T
<1>3. T = S
  BY <1>2, SameState
<1> QED
  BY <1>3 DEF T

(* Popping the value that was pushed last.                                  *)
LEMMA PopOne ==
  ASSUME NEW S, WellFormed(S), NEW k, Fitting(k, S.scopes)
  PROVE  /\ Popped(Pushed(S, k), 1) = S
         /\ NewestKind(Pushed(S, k), 1, 1) = k
<1>1. S.height \in Nat
  BY DEF WellFormed
<1>2. 0 \in 0 .. S.height /\ 0 + 1 = 1
  BY <1>1
<1> QED
  BY <1>2, PopPushed, PopNothing

(* What spares a stack spares the stack below.                              *)
LEMMA SparedBelow ==
  ASSUME NEW S, WellFormed(S), NEW n \in 0 .. S.height, NEW places, NEW fewer,
         Spared(S, places), fewer \subseteq places
  PROVE  Spared(Popped(S, n), fewer)
<1> DEFINE T == Popped(S, n)
<1>1. S.height \in Nat
  BY DEF WellFormed
<1>2. /\ T.height = S.height - n /\ Floor(T) = Floor(S)
      /\ \A i \in 1 .. S.height - n : T.values[i] = S.values[i]
  BY PoppedFields
<1> HIDE DEF T
<1>3. Spared(T, fewer)
  BY <1>1, <1>2 DEF Spared
<1> QED
  BY <1>3 DEF T

(* A stack is spared with a new value if the new value is.                  *)
LEMMA SparedPushed ==
  ASSUME NEW S, WellFormed(S), NEW k, Fitting(k, S.scopes), NEW places, Spared(S, places),
         \A place \in places : ~Hit(k, place, Floor(S))
  PROVE  Spared(Pushed(S, k), places)
<1> DEFINE T == Pushed(S, k)
<1>1. S.height \in Nat
  BY DEF WellFormed
<1>2. /\ T.height = S.height + 1 /\ Floor(T) = Floor(S)
      /\ \A i \in 1 .. S.height : T.values[i] = S.values[i]
      /\ T.values[S.height + 1] = k
  BY PushedFields
<1> HIDE DEF T
<1>3. Spared(T, places)
  BY <1>1, <1>2 DEF Spared
<1> QED
  BY <1>3 DEF T

-----------------------------------------------------------------------------
(* The code of expressions and blocks.                                      *)

(* Code of two items.                                                       *)
LEMMA CodePair ==
  ASSUME NEW p, NEW a, NEW b, NEW S, NEW T, NEW U, WellFormed(S), WellFormed(T), WellFormed(U),
         Leads(p, a, S, T), Leads(p, b, T, U)
  PROVE  Takes(p, <<a, b>>, S, U)
<1>1. Takes(p, <<a>>, S, T) /\ Takes(p, <<b>>, T, U)
  BY CodeOne
<1>2. Takes(p, <<a>> \o <<b>>, S, U)
  BY <1>1, CodeConcat
<1>3. <<a>> \o <<b>> = <<a, b>>
  <2> DEFINE A == {a, b}
             c == <<a>>
             d == <<b>>
             e == <<a, b>>
  <2>1. /\ c \in Seq(A) /\ d \in Seq(A) /\ e \in Seq(A)
        /\ Len(c) = 1 /\ Len(d) = 1 /\ Len(e) = 2
        /\ c[1] = a /\ d[1] = b /\ e[1] = a /\ e[2] = b
    OBVIOUS
  <2> HIDE DEF A, c, d, e
  <2>2. /\ c \o d \in Seq(A) /\ Len(c \o d) = 2
        /\ \A i \in 1 .. 2 : (c \o d)[i] = IF i <= 1 THEN c[i] ELSE d[i - 1]
    BY <2>1, ConcatProperties
  <2>3. c \o d = e
    BY <2>1, <2>2, SeqEqual
  <2> QED
    BY <2>3 DEF c, d, e
<1> QED
  BY <1>2, <1>3

(* Code of three items.                                                     *)
LEMMA CodeTriple ==
  ASSUME NEW p, NEW a, NEW b, NEW c, NEW S, NEW T, NEW U, NEW V,
         WellFormed(S), WellFormed(T), WellFormed(U), WellFormed(V),
         Leads(p, a, S, T), Leads(p, b, T, U), Leads(p, c, U, V)
  PROVE  Takes(p, <<a, b, c>>, S, V)
<1> DEFINE A == {a, b, c}
           d == <<a, b>>
           e == <<c>>
           f == <<a, b, c>>
<1>1. Takes(p, d, S, U) /\ Takes(p, e, U, V)
  BY CodeOne, CodePair
<1>2. /\ d \in Seq(A) /\ e \in Seq(A) /\ f \in Seq(A)
      /\ Len(d) = 2 /\ Len(e) = 1 /\ Len(f) = 3
      /\ d[1] = a /\ d[2] = b /\ e[1] = c /\ f[1] = a /\ f[2] = b /\ f[3] = c
  OBVIOUS
<1> HIDE DEF A, d, e, f
<1>3. /\ d \o e \in Seq(A) /\ Len(d \o e) = 3
      /\ \A i \in 1 .. 3 : (d \o e)[i] = IF i <= 2 THEN d[i] ELSE e[i - 2]
  <2>1. /\ d \o e \in Seq(A) /\ Len(d \o e) = Len(d) + Len(e)
        /\ \A i \in 1 .. Len(d) + Len(e) : (d \o e)[i] = IF i <= Len(d) THEN d[i] ELSE e[i - Len(d)]
    BY <1>2, ConcatProperties
  <2>2. Len(d) + Len(e) = 3
    BY <1>2
  <2> QED
    BY <1>2, <2>1, <2>2
<1>4. d \o e = f
  BY <1>2, <1>3, SeqEqual
<1>5. Takes(p, f, S, V)
  BY <1>1, <1>4, CodeConcat
<1> QED
  BY <1>5 DEF f

(* A program whose trees are those sema has typed.                          *)
LEMMA ValueKinds ==
  ASSUME NEW p, Typed(p), NEW e \in Expr(p), NEW scopes \in Nat
  PROVE  Fitting(ValueKind(p, e, scopes), scopes)
<1>1. e.kind = "var" => e.place.sym \in Symbol
  BY DEF Typed, IsExpr, IsPlace
<1> QED
  BY <1>1, FittingKinds DEF ValueKind, Borrowed

(* The stack after an expression is well formed.                            *)
LEMMA AfterFields ==
  ASSUME NEW p, Typed(p), NEW e \in Expr(p), NEW S, WellFormed(S)
  PROVE  /\ WellFormed(After(p, e, S))
         /\ Opened(S) => Opened(After(p, e, S))
         /\ After(p, e, S).scopes = S.scopes
<1>1. Fitting(ValueKind(p, e, S.scopes), S.scopes)
  BY ValueKinds DEF WellFormed
<1> QED
  BY <1>1, PushedFields DEF After

(* The item of an expression leads to the stack after it.                   *)
LEMMA EvaluateOne ==
  ASSUME NEW p, Typed(p), NEW e \in Expr(p), NEW S, WellFormed(S), Opened(S),
         Spared(S, Writes(p, e))
  PROVE  Takes(p, <<Value(e)>>, S, After(p, e, S))
<1>1. WellFormed(After(p, e, S))
  BY AfterFields
<1>2. Leads(p, Value(e), S, After(p, e, S))
  BY DEF Leads, Evaluates, Value
<1> QED
  BY <1>1, <1>2, CodeOne

(* An expression and own_str give an owned value.                           *)
LEMMA OwnedCode ==
  ASSUME NEW p, Typed(p), NEW e \in Expr(p), NEW S, WellFormed(S), Opened(S),
         Spared(S, Writes(p, e))
  PROVE  Takes(p, Owned(e), S, IF e.str THEN Pushed(S, Mine) ELSE S)
<1>1. Takes(p, <<Value(e)>>, S, After(p, e, S))
  BY EvaluateOne
<1>2. CASE ~e.str
  <2>1. Owned(e) = <<Value(e)>>
    BY <1>2 DEF Owned
  <2>2. After(p, e, S) = S
    BY <1>2 DEF After
  <2> QED
    BY <1>1, <1>2, <2>1, <2>2
<1>3. CASE e.str
  <2> DEFINE k == ValueKind(p, e, S.scopes)
             T == Pushed(S, k)
             U == Pushed(S, Mine)
  <2>1. S.scopes \in Nat /\ S.height \in Nat
    BY DEF WellFormed
  <2>2. Fitting(k, S.scopes) /\ Fitting(Mine, S.scopes)
    BY <2>1, ValueKinds, FittingKinds
  <2>3. Careful(p) => Readable(k)
    BY DEF ValueKind, Borrowed, Readable, Mine, Lent
  <2>4. After(p, e, S) = T
    BY <1>3 DEF After
  <2> HIDE DEF k
  <2>5. /\ WellFormed(T) /\ Opened(T) /\ T.height = S.height + 1
        /\ Popped(T, 1) = S /\ NewestKind(T, 1, 1) = k
        /\ WellFormed(U)
    BY <2>2, PushedFields, PopOne
  <2> HIDE DEF T
  <2>6. UsableTop(p, T, 1) /\ T.height > 0
    BY <2>1, <2>3, <2>5 DEF UsableTop
  <2>7. Leads(p, Own, T, Pushed(Popped(T, 1), Mine))
    BY <2>5, <2>6 DEF Leads, Own
  <2>8. Takes(p, <<Own>>, T, U)
    BY <2>5, <2>7, CodeOne
  <2>9. Takes(p, <<Value(e)>> \o <<Own>>, S, U)
    BY <1>1, <2>4, <2>8, CodeConcat
  <2> HIDE DEF U
  <2>10. Owned(e) = <<Value(e)>> \o <<Own>>
    BY <1>3 DEF Owned
  <2> QED
    BY <1>3, <2>9, <2>10 DEF U
<1> QED
  BY <1>2, <1>3

(* The same values over other scopes.                                       *)
LEMMA OtherScopes ==
  ASSUME NEW S, WellFormed(S), NEW scopes \in Nat \ {0}, NEW callers,
         Nested(callers, scopes), UpTo(S, scopes), NEW clean, clean \in BOOLEAN
  PROVE  LET T == State(S.height, S.values, scopes, callers, clean) IN
         /\ WellFormed(T)
         /\ T.height = S.height /\ T.values = S.values /\ T.scopes = scopes
         /\ T.callers = callers /\ T.clean = clean
<1> DEFINE T == State(S.height, S.values, scopes, callers, clean)
<1>1. /\ T.height = S.height /\ T.values = S.values /\ T.scopes = scopes
      /\ T.callers = callers /\ T.clean = clean
      /\ T = State(T.height, T.values, T.scopes, T.callers, T.clean)
  BY StateFields
<1> HIDE DEF T
<1>2. WellFormed(T)
  BY <1>1 DEF WellFormed, UpTo
<1> QED
  BY <1>1, <1>2 DEF T

(* What Nested says of the calls; one more scope keeps it.                  *)
LEMMA NestedCalls ==
  ASSUME NEW callers, NEW scopes \in Nat, Nested(callers, scopes)
  PROVE  /\ Len(callers) \in Nat
         /\ \A i \in 1 .. Len(callers) : callers[i] \in Nat \ {0}
         /\ Nested(callers, scopes + 1)
         /\ callers # <<>> => Len(callers) \in 1 .. Len(callers)
<1>1. Len(callers) \in Nat /\ \A i \in 1 .. Len(callers) : callers[i] \in Nat \ {0}
  BY LenProperties, ElementOfSeq DEF Nested
<1>2. Nested(callers, scopes + 1)
  BY <1>1 DEF Nested
<1> QED
  BY <1>1, <1>2, EmptySeq DEF Nested

(* A call from opened code: its scopes are above those of all calls before. *)
LEMMA NestedAppend ==
  ASSUME NEW S, WellFormed(S), Opened(S)
  PROVE  LET callers == Append(S.callers, S.scopes) IN
         /\ Nested(callers, S.scopes) /\ callers # <<>>
         /\ callers[Len(callers)] = S.scopes
         /\ SubSeq(callers, 1, Len(callers) - 1) = S.callers
<1> DEFINE callers == Append(S.callers, S.scopes)
<1>1. S.callers \in Seq(Nat \ {0}) /\ S.scopes \in Nat \ {0} /\ Len(S.callers) \in Nat
  BY LenProperties DEF WellFormed, Nested
<1>2. ASSUME NEW i \in 1 .. Len(S.callers)
      PROVE  S.callers[i] \in Nat \ {0} /\ S.callers[i] < S.scopes
  <2>1. S.callers # <<>> /\ Len(S.callers) \in 1 .. Len(S.callers)
    BY <1>1, EmptySeq
  <2>2. S.callers[Len(S.callers)] < S.scopes
    BY <2>1 DEF Opened, Floor
  <2>3. S.callers[i] \in Nat \ {0} /\ S.callers[Len(S.callers)] \in Nat
    BY <1>1, <2>1, ElementOfSeq
  <2>4. i = Len(S.callers) \/ i < Len(S.callers)
    BY <1>1
  <2>5. i < Len(S.callers) => S.callers[i] < S.callers[Len(S.callers)]
    BY <2>1 DEF WellFormed, Nested
  <2> QED
    BY <1>1, <2>2, <2>3, <2>4, <2>5
<1>3. /\ callers \in Seq(Nat \ {0}) /\ callers # <<>> /\ Len(callers) = Len(S.callers) + 1
      /\ \A i \in 1 .. Len(S.callers) : callers[i] = S.callers[i]
      /\ callers[Len(callers)] = S.scopes
  BY <1>1, AppendProperties
<1> HIDE DEF callers
<1>4. ASSUME NEW i \in 1 .. Len(callers)
      PROVE  /\ i \in 1 .. Len(S.callers) \/ i = Len(callers)
             /\ callers[i] \in Nat /\ callers[i] <= S.scopes
  <2>1. i \in 1 .. Len(S.callers) \/ i = Len(callers)
    BY <1>1, <1>3
  <2>2. i \in 1 .. Len(S.callers) => callers[i] \in Nat /\ callers[i] < S.scopes
    BY <1>2, <1>3
  <2> QED
    BY <1>1, <1>3, <2>1, <2>2
<1>5. ASSUME NEW i \in 1 .. Len(callers), NEW j \in 1 .. Len(callers), i < j
      PROVE  callers[i] < callers[j]
  <2>1. i \in 1 .. Len(S.callers)
    BY <1>1, <1>3, <1>5
  <2>2. CASE j \in 1 .. Len(S.callers)
    <3>1. S.callers[i] < S.callers[j]
      BY <1>5, <2>1, <2>2 DEF WellFormed, Nested
    <3> QED
      BY <1>3, <2>1, <2>2, <3>1
  <2>3. CASE j = Len(callers)
    <3>1. S.callers[i] < S.scopes
      BY <1>2, <2>1
    <3> QED
      BY <1>3, <2>1, <2>3, <3>1
  <2> QED
    BY <1>4, <2>2, <2>3
<1>6. Nested(callers, S.scopes)
  BY <1>3, <1>4, <1>5 DEF Nested
<1> DEFINE c == SubSeq(callers, 1, Len(callers) - 1)
<1>7. c \in Seq(Nat \ {0}) /\ Len(c) = Len(S.callers)
      /\ \A i \in 1 .. Len(S.callers) : c[i] = S.callers[i]
  <2>1. \A i \in 1 .. Len(callers) - 1 : callers[i] \in Nat \ {0}
    BY <1>1, <1>3, ElementOfSeq
  <2>2. /\ c \in Seq(Nat \ {0})
        /\ Len(c) = IF 1 <= Len(callers) - 1 THEN Len(callers) - 1 - 1 + 1 ELSE 0
        /\ \A i \in 1 .. Len(callers) - 1 - 1 + 1 : c[i] = callers[1 + i - 1]
    BY <1>1, <1>3, <2>1, SubSeqProperties
  <2> HIDE DEF c
  <2> QED
    BY <1>1, <1>3, <2>2
<1> HIDE DEF c
<1>8. c = S.callers
  BY <1>1, <1>7, SeqEqual
<1> QED
  BY <1>3, <1>6, <1>8 DEF c, callers

(* Opening a scope.                                                         *)
LEMMA ScopeFields ==
  ASSUME NEW S, WellFormed(S)
  PROVE  LET T == State(S.height, S.values, S.scopes + 1, S.callers, S.clean) IN
         /\ WellFormed(T)
         /\ T.height = S.height /\ T.values = S.values /\ T.scopes = S.scopes + 1
         /\ T.callers = S.callers /\ T.clean = S.clean
         /\ Floor(T) = Floor(S) /\ (Opened(S) => Opened(T))
         /\ \A i \in 1 .. T.height : T.values[i].upto < T.scopes
         /\ \A places : Spared(S, places) => Spared(T, places)
<1> DEFINE T == State(S.height, S.values, S.scopes + 1, S.callers, S.clean)
<1> DEFINE n == S.scopes + 1
<1>1. /\ S.scopes \in Nat \ {0} /\ S.clean \in BOOLEAN
      /\ Nested(S.callers, S.scopes)
      /\ \A i \in 1 .. S.height : S.values[i].upto \in Nat /\ S.values[i].upto <= S.scopes
  BY DEF WellFormed, UpTo, Kind
<1>2. /\ Nested(S.callers, n) /\ Len(S.callers) \in Nat
      /\ \A i \in 1 .. Len(S.callers) : S.callers[i] \in Nat
      /\ S.callers # <<>> => Len(S.callers) \in 1 .. Len(S.callers)
  BY <1>1, NestedCalls
<1>3. UpTo(S, n) /\ n \in Nat \ {0} /\ n > S.scopes
  BY <1>1 DEF UpTo
<1> HIDE DEF n
<1>4. /\ WellFormed(T)
      /\ T.height = S.height /\ T.values = S.values /\ T.scopes = n
      /\ T.callers = S.callers /\ T.clean = S.clean
  <2> DEFINE U == State(S.height, S.values, n, S.callers, S.clean)
  <2>1. /\ WellFormed(U)
        /\ U.height = S.height /\ U.values = S.values /\ U.scopes = n
        /\ U.callers = S.callers /\ U.clean = S.clean
    BY <1>1, <1>2, <1>3, OtherScopes
  <2> QED
    BY <2>1 DEF n
<1> HIDE DEF T
<1>5. Floor(T) = Floor(S) /\ Floor(S) \in Nat
  BY <1>2, <1>4 DEF Floor
<1>6. Opened(S) => Opened(T)
  BY <1>1, <1>3, <1>4, <1>5 DEF Opened
<1>7. \A i \in 1 .. T.height : T.values[i].upto < T.scopes
  BY <1>1, <1>3, <1>4
<1>8. \A places : Spared(S, places) => Spared(T, places)
  BY <1>4, <1>5 DEF Spared
<1> QED
  BY <1>4, <1>5, <1>6, <1>7, <1>8 DEF T, n

(* Statements one after the other, and then the result, owned: the body of  *)
(* a block or of a function.                                                *)
LEMMA BodyCode ==
  ASSUME NEW p, Typed(p), NEW b, IsBlock(p, b), NEW S, WellFormed(S), Opened(S),
         Spared(S, BlockWrites(p, b))
  PROVE  /\ Takes(p, [i \in DOMAIN b.stmts |-> Do(b.stmts[i])], S, S)
         /\ Takes(p, IF b.result = Missing THEN <<>> ELSE Owned(b.result), S,
                  IF Yields(b) THEN Pushed(S, Mine) ELSE S)
<1>1. b.stmts \in Seq(Stmt(p)) /\ DOMAIN b.stmts = 1 .. Len(b.stmts)
  BY LenProperties DEF IsBlock
<1>2. ASSUME NEW i \in 1 .. Len(b.stmts)
      PROVE  Leads(p, Do(b.stmts[i]), S, S)
  <2>1. b.stmts[i] \in Stmt(p)
    BY <1>1, ElementOfSeq
  <2>2. Spared(S, Writes(p, b.stmts[i]))
    BY <1>1 DEF Spared, BlockWrites
  <2> QED
    BY <2>1, <2>2 DEF Leads, Executes, Do
<1>3. Takes(p, [i \in DOMAIN b.stmts |-> Do(b.stmts[i])], S, S)
  BY <1>1, <1>2, CodeSteady
<1>4. CASE b.result = Missing
  BY <1>3, <1>4, CodeEmpty DEF Yields
<1>5. CASE b.result # Missing
  <2>1. b.result \in Expr(p) /\ b # Missing
    BY <1>5 DEF IsBlock
  <2>2. Spared(S, Writes(p, b.result))
    <3>1. Writes(p, b.result) \subseteq BlockWrites(p, b)
      BY <1>5 DEF BlockWrites
    <3> QED
      BY <3>1 DEF Spared
  <2>3. Takes(p, Owned(b.result), S, IF b.result.str THEN Pushed(S, Mine) ELSE S)
    BY <2>1, <2>2, OwnedCode
  <2> QED
    BY <1>3, <1>5, <2>1, <2>3 DEF Yields
<1> QED
  BY <1>4, <1>5

(* The code of a block, whose string result is owned, leaves the scopes as  *)
(* they were.                                                               *)
LEMMA BlockExpands ==
  ASSUME NEW p, Typed(p), NEW b, IsBlock(p, b), NEW S, WellFormed(S), Opened(S),
         Spared(S, BlockWrites(p, b))
  PROVE  Takes(p, BlockCode(b), S, IF Yields(b) THEN Pushed(S, Mine) ELSE S)
<1> DEFINE T == State(S.height, S.values, S.scopes + 1, S.callers, S.clean)
           U == IF Yields(b) THEN Pushed(T, Mine) ELSE T
           R == IF Yields(b) THEN Pushed(S, Mine) ELSE S
           body == [i \in DOMAIN b.stmts |-> Do(b.stmts[i])]
           result == IF b.result = Missing THEN <<>> ELSE Owned(b.result)
<1>1. /\ WellFormed(T) /\ Opened(T) /\ Spared(T, BlockWrites(p, b))
      /\ T.scopes = S.scopes + 1 /\ Floor(T) = Floor(S) /\ T.callers = S.callers
      /\ T.height = S.height /\ T.values = S.values /\ T.clean = S.clean
      /\ \A i \in 1 .. T.height : T.values[i].upto < T.scopes
  BY ScopeFields
<1>2. Leads(p, EnterScope, S, T)
  BY DEF Leads, EnterScope
<1>3. Takes(p, <<EnterScope>>, S, T)
  BY <1>1, <1>2, CodeOne
<1> HIDE DEF T
<1>4. Takes(p, body, T, T) /\ Takes(p, result, T, U)
  BY <1>1, BodyCode
<1>5. S.scopes \in Nat \ {0} /\ S.height \in Nat /\ T.scopes \in Nat
  BY <1>1 DEF WellFormed
<1>6. Fitting(Mine, S.scopes) /\ Fitting(Mine, T.scopes) /\ Mine.upto = 0
  BY <1>5, FittingKinds DEF Mine
<1>7. /\ WellFormed(U) /\ U.scopes = T.scopes /\ Floor(U) = Floor(T) /\ U.clean = T.clean
      /\ \A i \in 1 .. U.height : U.values[i].upto < U.scopes
  BY <1>1, <1>5, <1>6, PushedFields
<1>8. WellFormed(R)
  BY <1>6, PushedFields
<1>9. R = State(U.height, U.values, U.scopes - 1, U.callers, U.clean)
  <2>1. CASE ~Yields(b)
    BY <1>1, <1>5, <2>1 DEF WellFormed
  <2>2. CASE Yields(b)
    <3>1. U.scopes - 1 = S.scopes
      BY <1>1, <1>5, <1>7
    <3>2. /\ U.height = S.height + 1 /\ U.callers = S.callers /\ U.clean = S.clean
          /\ U.values = [i \in 1 .. S.height + 1 |-> IF i = S.height + 1 THEN Mine ELSE S.values[i]]
      BY <1>1, <2>2, StateFields DEF Pushed
    <3> QED
      BY <2>2, <3>1, <3>2 DEF Pushed
  <2> QED
    BY <2>1, <2>2
<1> HIDE DEF U, R, body, result
<1>10. LeadsClose(U, R)
  BY <1>1, <1>5, <1>7, <1>9 DEF LeadsClose, Opened
<1>11. Leads(p, CloseScope, U, R)
  BY <1>10 DEF Leads, CloseScope
<1>12. Takes(p, <<CloseScope>>, U, R)
  BY <1>7, <1>8, <1>11, CodeOne
<1>13. Takes(p, <<EnterScope>> \o body, S, T)
  BY <1>3, <1>4, CodeConcat
<1>14. Takes(p, (<<EnterScope>> \o body) \o result, S, U)
  BY <1>4, <1>13, CodeConcat
<1>15. Takes(p, ((<<EnterScope>> \o body) \o result) \o <<CloseScope>>, S, R)
  BY <1>12, <1>14, CodeConcat
<1> QED
  BY <1>15 DEF BlockCode, R, body, result

(* The code of a block run for its effect leaves the stack as it was.       *)
LEMMA EffectExpands ==
  ASSUME NEW p, Typed(p), NEW b, IsEffect(p, b), NEW S, WellFormed(S), Opened(S),
         Spared(S, EffectWrites(p, b))
  PROVE  Takes(p, ForEffect(b), S, S)
<1>1. CASE b = Missing
  BY <1>1, CodeEmpty DEF ForEffect
<1>2. CASE b # Missing
  <2>1. IsBlock(p, b) /\ ~Yields(b) /\ Spared(S, BlockWrites(p, b))
    BY <1>2 DEF IsEffect, EffectWrites
  <2>2. Takes(p, BlockCode(b), S, S)
    BY <2>1, BlockExpands
  <2>3. Takes(p, BlockCode(b) \o <<>>, S, S)
    BY <2>2, CodeEmpty, CodeConcat
  <2> QED
    BY <1>2, <2>1, <2>3 DEF ForEffect
<1> QED
  BY <1>1, <1>2

(* A branch of a conditional.                                               *)
LEMMA BranchExpands ==
  ASSUME NEW p, Typed(p), NEW e \in Expr(p), e.kind = "if", NEW S, WellFormed(S), Opened(S),
         Spared(S, Writes(p, e)), NEW b \in {e.yes, e.no}
  PROVE  Takes(p, BranchCode(e, b), S, After(p, e, S))
<1>1. /\ IF e.str THEN IsBlock(p, b) /\ Yields(b) ELSE IsEffect(p, b)
      /\ EffectWrites(p, b) \subseteq Writes(p, e)
  BY DEF Typed, IsExpr
<1>2. Spared(S, EffectWrites(p, b))
  BY <1>1 DEF Spared
<1>3. CASE e.str
  <2>1. IsBlock(p, b) /\ Yields(b) /\ Spared(S, BlockWrites(p, b))
    BY <1>1, <1>2, <1>3 DEF EffectWrites, IsBlock
  <2>2. Takes(p, BlockCode(b), S, Pushed(S, Mine))
    BY <2>1, BlockExpands
  <2> QED
    BY <1>3, <2>2 DEF BranchCode, After, ValueKind
<1>4. CASE ~e.str
  <2>1. Takes(p, ForEffect(b), S, S)
    BY <1>1, <1>2, <1>4, EffectExpands
  <2> QED
    BY <1>4, <2>1 DEF BranchCode, After
<1> QED
  BY <1>3, <1>4

(* The body of a function, from where its base scope is open.               *)
LEMMA FunctionExpands ==
  ASSUME NEW p, Typed(p), NEW name \in DOMAIN p.functions, NEW S, WellFormed(S), Opened(S),
         Spared(S, CallWrites(p, name))
  PROVE  LET b == p.functions[name] IN
         Takes(p, FunctionCode(b),
               State(S.height, S.values, S.scopes + 1, Append(S.callers, S.scopes), S.clean),
               IF b.result.str THEN Pushed(S, Mine) ELSE S)
<1> DEFINE b == p.functions[name]
           callers == Append(S.callers, S.scopes)
           T == State(S.height, S.values, S.scopes + 1, callers, S.clean)
           U == IF Yields(b) THEN Pushed(T, Mine) ELSE T
           V == State(U.height, U.values, S.scopes, callers, S.clean)
           R == IF Yields(b) THEN Pushed(S, Mine) ELSE S
           body == [i \in DOMAIN b.stmts |-> Do(b.stmts[i])]
           result == IF b.result = Missing THEN <<>> ELSE Owned(b.result)
<1>1. IsBlock(p, b) /\ b.result # Missing /\ b.result.str \in BOOLEAN
  BY DEF Typed, IsBlock
<1>2. /\ S.scopes \in Nat \ {0} /\ S.height \in Nat /\ ~S.clean /\ S.clean \in BOOLEAN
      /\ \A i \in 1 .. S.height : S.values[i].upto \in Nat /\ S.values[i].upto <= S.scopes
  BY DEF WellFormed, UpTo, Opened, Kind
<1>3. /\ Nested(callers, S.scopes) /\ Nested(callers, S.scopes + 1) /\ callers # <<>>
      /\ callers[Len(callers)] = S.scopes
      /\ SubSeq(callers, 1, Len(callers) - 1) = S.callers
  BY <1>2, NestedAppend, NestedCalls
<1> HIDE DEF callers
<1>4. /\ WellFormed(T) /\ Opened(T) /\ Floor(T) = S.scopes /\ T.scopes = S.scopes + 1
      /\ T.height = S.height /\ T.values = S.values /\ ~T.clean /\ T.callers = callers
  <2> DEFINE n == S.scopes + 1
             W == State(S.height, S.values, n, callers, S.clean)
  <2>1. n \in Nat \ {0} /\ UpTo(S, n) /\ Nested(callers, n) /\ n > S.scopes
    BY <1>2, <1>3 DEF UpTo
  <2> HIDE DEF n
  <2>2. /\ WellFormed(W)
        /\ W.height = S.height /\ W.values = S.values /\ W.scopes = n
        /\ W.callers = callers /\ W.clean = S.clean
    BY <1>2, <2>1, OtherScopes
  <2> HIDE DEF W
  <2>3. Floor(W) = S.scopes /\ Opened(W)
    BY <1>2, <1>3, <2>1, <2>2 DEF Floor, Opened
  <2> QED
    BY <1>2, <2>2, <2>3 DEF W, n
<1>5. Spared(T, BlockWrites(p, b))
  BY <1>2, <1>4 DEF Spared, Hit, CallWrites
<1> HIDE DEF T
<1>6. Takes(p, body, T, T) /\ Takes(p, result, T, U)
  BY <1>1, <1>4, <1>5, BodyCode
<1>7. Fitting(Mine, S.scopes) /\ Fitting(Mine, T.scopes) /\ Mine.upto = 0
  <2>1. S.scopes \in Nat /\ T.scopes \in Nat
    BY <1>2, <1>4
  <2> QED
    BY <2>1, FittingKinds DEF Mine
<1>8. /\ WellFormed(U) /\ U.scopes = S.scopes + 1 /\ Floor(U) = S.scopes /\ ~U.clean
      /\ U.callers = callers
      /\ \A i \in 1 .. U.height : U.values[i].upto < U.scopes
  <2>1. CASE ~Yields(b)
    BY <1>2, <1>4, <2>1
  <2>2. CASE Yields(b)
    <3>1. /\ WellFormed(U) /\ U.height = T.height + 1 /\ U.scopes = T.scopes
          /\ U.callers = T.callers /\ U.clean = T.clean /\ Floor(U) = Floor(T)
          /\ \A i \in 1 .. T.height : U.values[i] = T.values[i]
          /\ U.values[T.height + 1] = Mine
      BY <1>4, <1>7, <2>2, PushedFields
    <3> HIDE DEF U
    <3>2. T.height \in Nat /\ U.height \in Nat
      BY <1>2, <1>4, <3>1
    <3>3. ASSUME NEW i \in 1 .. U.height
          PROVE  U.values[i].upto < U.scopes
      <4>1. i \in 1 .. T.height \/ i = T.height + 1
        BY <3>1, <3>2
      <4>2. i \in 1 .. T.height => U.values[i] = S.values[i]
        BY <1>4, <3>1
      <4> QED
        BY <1>2, <1>4, <1>7, <3>1, <4>1, <4>2
    <3> QED
      BY <1>4, <3>1, <3>3
  <2> QED
    BY <2>1, <2>2
<1>9. WellFormed(R)
  BY <1>7, PushedFields
<1>10. /\ R.height = U.height /\ R.values = U.values /\ R.scopes = S.scopes
       /\ R.callers = S.callers /\ R.clean = S.clean
       /\ R = State(U.height, U.values, S.scopes, S.callers, S.clean)
  <2>1. CASE ~Yields(b)
    BY <1>2, <1>4, <2>1 DEF WellFormed
  <2>2. CASE Yields(b)
    BY <1>2, <1>4, <2>2 DEF Pushed, State
  <2> QED
    BY <2>1, <2>2
<1> HIDE DEF U, R
<1>11. /\ V.height = U.height /\ V.values = U.values /\ V.scopes = S.scopes
       /\ V.callers = callers /\ V.clean = S.clean
       /\ V = State(V.height, V.values, V.scopes, V.callers, V.clean)
  BY StateFields
<1>12. LeadsClose(U, V)
  <2>1. S.scopes + 1 - 1 = S.scopes /\ S.scopes < S.scopes + 1 /\ S.scopes + 1 > 1
    BY <1>2
  <2>2. V = State(U.height, U.values, U.scopes - 1, U.callers, U.clean)
    BY <1>2, <1>8, <2>1 DEF WellFormed
  <2> QED
    BY <1>8, <2>1, <2>2 DEF LeadsClose
<1>13. WellFormed(V)
  <2>1. UpTo(U, S.scopes)
    BY <1>9, <1>10 DEF WellFormed, UpTo
  <2> QED
    BY <1>2, <1>3, <1>8, <2>1, OtherScopes
<1> HIDE DEF V
<1>14. LeadsBack(V, R)
  BY <1>2, <1>3, <1>10, <1>11 DEF LeadsBack, Floor
<1>15. Takes(p, <<CloseScope, Back>>, U, R)
  <2>1. Leads(p, CloseScope, U, V) /\ Leads(p, Back, V, R)
    BY <1>12, <1>14 DEF Leads, CloseScope, Back
  <2> QED
    BY <1>8, <1>9, <1>13, <2>1, CodePair
<1>16. Takes(p, body \o result, T, U)
  BY <1>6, CodeConcat
<1>17. Takes(p, (body \o result) \o <<CloseScope, Back>>, T, R)
  BY <1>15, <1>16, CodeConcat
<1>18. FunctionCode(b) = (body \o result) \o <<CloseScope, Back>>
  BY <1>1 DEF FunctionCode
<1>19. Yields(b) <=> b.result.str
  BY <1>1 DEF Yields, IsBlock
<1> HIDE DEF body, result, b
<1> QED
  BY <1>17, <1>18, <1>19 DEF T, R, callers, b

-----------------------------------------------------------------------------
(* The parts of a concatenation.                                            *)

(* The code of the parts of a join that are not evaluated yet.              *)
LEMMA PartsExpand ==
  ASSUME NEW p, Typed(p), NEW e, NEW done, NEW S, NEW T, WellFormed(S), WellFormed(T),
         LeadsParts(p, e, done, S, T)
  PROVE  Takes(p, PartsCode(e, done), S, T)
<1>1. /\ e \in Expr(p) /\ e.kind = "concat" /\ done \in 0 .. Len(e.parts) /\ done <= S.height
      /\ Opened(S) /\ Spared(Popped(S, done), Writes(p, e))
      /\ \A i \in 1 .. done : NewestKind(S, done, i) = ValueKind(p, e.parts[i], S.scopes)
      /\ T = Pushed(Popped(S, done), Mine)
  BY DEF LeadsParts
<1>2. /\ e.parts \in Seq(Expr(p)) /\ DOMAIN e.parts = 1 .. Len(e.parts) /\ Len(e.parts) \in Nat
      /\ \A i \in 1 .. Len(e.parts) : Operands(p, e, e.parts[i])
  <2>1. e.parts \in Seq(Expr(p)) /\ \A i \in DOMAIN e.parts : Operands(p, e, e.parts[i])
    BY <1>1 DEF Typed, IsExpr
  <2> QED
    BY <2>1, LenProperties
<1>3. S.height \in Nat /\ done \in Nat /\ done \in 0 .. S.height /\ S.scopes \in Nat
  BY <1>1, <1>2 DEF WellFormed
<1>4. CASE done = Len(e.parts)
  <2>1. ASSUME Careful(p), NEW i \in 1 .. done
        PROVE  Readable(NewestKind(S, done, i))
    <3>1. NewestKind(S, done, i) = ValueKind(p, e.parts[i], S.scopes)
      BY <1>1
    <3> QED
      BY <2>1, <3>1 DEF ValueKind, Borrowed, Readable, Mine, Lent
  <2>2. UsableTop(p, S, done)
    BY <1>3, <2>1 DEF UsableTop
  <2>3. Leads(p, Join(done), S, T)
    BY <1>1, <2>2 DEF Leads, Join
  <2>4. Takes(p, <<Join(done)>>, S, T)
    BY <2>3, CodeOne
  <2> QED
    BY <1>4, <2>4 DEF PartsCode
<1>5. CASE done # Len(e.parts)
  <2> DEFINE part == e.parts[done + 1]
             k == ValueKind(p, part, S.scopes)
             U == Pushed(S, k)
  <2>1. done + 1 \in 1 .. Len(e.parts) /\ done + 1 <= S.height + 1
    BY <1>1, <1>2, <1>3, <1>5
  <2>2. part \in Expr(p) /\ Writes(p, part) \subseteq Writes(p, e)
    BY <1>2, <2>1 DEF Operands
  <2>3. ASSUME NEW i \in 1 .. S.height, NEW place \in Writes(p, part)
        PROVE  ~Hit(S.values[i], place, Floor(S))
    <3>1. CASE i <= S.height - done
      <4> DEFINE B == Popped(S, done)
      <4>1. B.height = S.height - done /\ Floor(B) = Floor(S) /\ B.values[i] = S.values[i]
        BY <1>3, <3>1, PoppedFields
      <4>2. \A j \in 1 .. B.height, q \in Writes(p, e) : ~Hit(B.values[j], q, Floor(B))
        BY <1>1 DEF Spared
      <4> HIDE DEF B
      <4>3. i \in 1 .. B.height /\ place \in Writes(p, e)
        BY <1>3, <2>2, <3>1, <4>1
      <4> QED
        BY <4>1, <4>2, <4>3
    <3>2. CASE i > S.height - done
      <4> DEFINE j == i - (S.height - done)
      <4>1. j \in 1 .. done /\ S.height - done + j = i
        BY <1>3, <3>2
      <4>2. S.values[i] = ValueKind(p, e.parts[j], S.scopes)
        BY <1>1, <4>1 DEF NewestKind
      <4> HIDE DEF j
      <4>3. CASE e.parts[j].kind = "var" /\ Careful(p)
        <5>1. j \in DOMAIN e.parts /\ done + 1 \in DOMAIN e.parts /\ j < done + 1
          BY <1>2, <1>3, <2>1, <4>1
        <5>2. Outlives(p, e.parts[j], part)
          BY <1>1, <4>3, <5>1 DEF Careful
        <5>3. place.sym # e.parts[j].place.sym
          BY <4>3, <5>2 DEF Outlives, MayWrite
        <5>4. S.values[i].from = {e.parts[j].place.sym}
          BY <4>2, <4>3 DEF ValueKind, Borrowed, Lent
        <5> QED
          BY <5>3, <5>4 DEF Hit
      <4>4. CASE ~(e.parts[j].kind = "var" /\ Careful(p))
        <5>1. S.values[i].from = {}
          BY <4>2, <4>4 DEF ValueKind, Borrowed, Spent, Mine
        <5> QED
          BY <5>1 DEF Hit
      <4> QED
        BY <4>3, <4>4
    <3> QED
      BY <1>3, <3>1, <3>2
  <2>4. Spared(S, Writes(p, part))
    BY <2>3 DEF Spared
  <2>5. Fitting(k, S.scopes) /\ Fitting(Mine, S.scopes)
    BY <1>3, <2>2, ValueKinds, FittingKinds
  <2>6. /\ WellFormed(U) /\ U.height = S.height + 1 /\ U.scopes = S.scopes /\ Opened(U)
        /\ Popped(U, done + 1) = Popped(S, done)
        /\ NewestKind(U, done + 1, done + 1) = k
        /\ \A i \in 1 .. done : NewestKind(U, done + 1, i) = NewestKind(S, done, i)
    BY <1>1, <1>3, <2>5, PushedFields, PopPushed
  <2>7. Takes(p, PartCode(part), S, U)
    <3>1. CASE part.str
      <4>1. Takes(p, <<Value(part)>>, S, After(p, part, S))
        BY <1>1, <2>2, <2>4, EvaluateOne
      <4> QED
        BY <3>1, <4>1 DEF PartCode, After
    <3>2. CASE ~part.str
      <4>1. part.kind # "var"
        BY <2>2, <3>2 DEF Typed, IsExpr
      <4>2. U = Pushed(S, Mine)
        BY <4>1 DEF ValueKind
      <4>3. Leads(p, Value(part), S, S)
        BY <1>1, <2>2, <2>4, <3>2 DEF Leads, Evaluates, After, Value
      <4>4. Leads(p, Render, S, U)
        BY <1>1, <4>2 DEF Leads, Render
      <4>5. Takes(p, <<Value(part), Render>>, S, U)
        BY <2>6, <4>3, <4>4, CodePair
      <4> QED
        BY <3>2, <4>5 DEF PartCode
    <3> QED
      BY <3>1, <3>2
  <2> HIDE DEF U
  <2>8. LeadsParts(p, e, done + 1, U, T)
    <3>1. \A i \in 1 .. done + 1 : i \in 1 .. done \/ i = done + 1
      BY <1>3
    <3>2. \A i \in 1 .. done + 1 : NewestKind(U, done + 1, i) = ValueKind(p, e.parts[i], U.scopes)
      BY <1>1, <2>6, <3>1
    <3> HIDE DEF k, part
    <3> QED
      BY <1>1, <1>3, <2>1, <2>6, <3>2 DEF LeadsParts
  <2>9. Leads(p, Parts(e, done + 1), U, T)
    BY <2>8 DEF Leads, Parts
  <2>10. Takes(p, <<Parts(e, done + 1)>>, U, T)
    BY <2>6, <2>9, CodeOne
  <2>11. Takes(p, PartCode(part) \o <<Parts(e, done + 1)>>, S, T)
    BY <2>7, <2>10, CodeConcat
  <2> QED
    BY <1>5, <2>11 DEF PartsCode
<1> QED
  BY <1>4, <1>5

(* A fact for each kind of expression.                                      *)
LEMMA ExprCodes ==
  ASSUME NEW e
  PROVE  /\ e.kind = "scalar" => ExprCode(e) = <<>>
         /\ e.kind = "literal" => ExprCode(e) = <<Make(e.long)>>
         /\ e.kind = "var" => ExprCode(e) = <<Load(e.place)>>
         /\ e.kind = "concat" => ExprCode(e) = <<Parts(e, 0)>>
         /\ e.kind = "str" =>
              ExprCode(e) = (IF e.of.str THEN Owned(e.of) ELSE <<Value(e.of), Render>>)
         /\ e.kind = "len" => ExprCode(e) = <<Value(e.of), Inspect(1)>>
         /\ e.kind = "compare" => ExprCode(e) = <<Value(e.left), Value(e.right), Inspect(2)>>
         /\ e.kind = "call" => ExprCode(e) = <<Invoke(e.name)>>
         /\ e.kind = "if" => ExprCode(e) = <<Value(Scalar), Choose(e)>>
BY DEF ExprCode

(* An expression for a value that is inspected and gone: `.len`.            *)
LEMMA LenExpands ==
  ASSUME NEW p, Typed(p), NEW of \in Expr(p), of.str, NEW S, WellFormed(S), Opened(S),
         Spared(S, Writes(p, of))
  PROVE  Takes(p, <<Value(of), Inspect(1)>>, S, S)
<1> DEFINE k == ValueKind(p, of, S.scopes)
           T == Pushed(S, k)
<1>1. S.scopes \in Nat /\ S.height \in Nat
  BY DEF WellFormed
<1>2. Fitting(k, S.scopes) /\ (Careful(p) => Readable(k))
  BY <1>1, ValueKinds DEF ValueKind, Borrowed, Readable, Mine, Lent
<1>3. Leads(p, Value(of), S, T)
  BY DEF Leads, Evaluates, After, Value
<1> HIDE DEF k
<1>4. /\ WellFormed(T) /\ T.height = S.height + 1 /\ Opened(T)
      /\ Popped(T, 1) = S /\ NewestKind(T, 1, 1) = k
  BY <1>2, PushedFields, PopOne
<1> HIDE DEF T
<1>5. UsableTop(p, T, 1)
  BY <1>1, <1>2, <1>4 DEF UsableTop
<1>6. Leads(p, Inspect(1), T, S)
  BY <1>4, <1>5 DEF Leads, Inspect
<1> QED
  BY <1>3, <1>4, <1>6, CodePair

(* The code of a comparison takes both operands off again.                  *)
LEMMA CompareExpands ==
  ASSUME NEW p, Typed(p), NEW e \in Expr(p), e.kind = "compare", NEW S, WellFormed(S), Opened(S),
         Spared(S, Writes(p, e))
  PROVE  Takes(p, <<Value(e.left), Value(e.right), Inspect(2)>>, S, S)
<1> DEFINE k == ValueKind(p, e.left, S.scopes)
           l == ValueKind(p, e.right, S.scopes)
           T == Pushed(S, k)
           U == Pushed(T, l)
<1>1. S.scopes \in Nat /\ S.height \in Nat
  BY DEF WellFormed
<1>2. /\ e.left \in Expr(p) /\ e.right \in Expr(p) /\ e.left.str /\ e.right.str
      /\ Writes(p, e.left) \subseteq Writes(p, e) /\ Writes(p, e.right) \subseteq Writes(p, e)
  <2>1. \A of \in {e.left, e.right} : Operands(p, e, of) /\ of.str
    BY DEF Typed, IsExpr
  <2> QED
    BY <2>1 DEF Operands
<1>3. /\ Fitting(k, S.scopes) /\ (Careful(p) => Readable(k))
      /\ Fitting(l, S.scopes) /\ (Careful(p) => Readable(l))
  BY <1>1, <1>2, ValueKinds DEF ValueKind, Borrowed, Readable, Mine, Lent
<1>4. Spared(S, Writes(p, e.left)) /\ Spared(S, Writes(p, e.right))
  BY <1>2 DEF Spared
<1>5. ASSUME NEW place \in Writes(p, e.right)
      PROVE  ~Hit(k, place, Floor(S))
  <2>1. CASE e.left.kind = "var" /\ Careful(p)
    <3>1. Outlives(p, e.left, e.right)
      BY <2>1 DEF Careful
    <3> QED
      BY <2>1, <3>1 DEF Outlives, MayWrite, Hit, ValueKind, Borrowed, Lent
  <2>2. CASE ~(e.left.kind = "var" /\ Careful(p))
    BY <2>2 DEF Hit, ValueKind, Borrowed, Spent, Mine
  <2> QED
    BY <2>1, <2>2
<1>6. Leads(p, Value(e.left), S, T)
  BY <1>2, <1>4 DEF Leads, Evaluates, After, Value
<1> HIDE DEF k
<1>7. /\ WellFormed(T) /\ T.height = S.height + 1 /\ Opened(T) /\ T.scopes = S.scopes
      /\ Popped(T, 1) = S /\ NewestKind(T, 1, 1) = k
      /\ Spared(T, Writes(p, e.right))
  BY <1>3, <1>4, <1>5, PushedFields, PopOne, SparedPushed
<1> HIDE DEF T
<1>8. Leads(p, Value(e.right), T, U)
  BY <1>2, <1>7 DEF Leads, Evaluates, After, Value
<1> HIDE DEF l
<1>9. 1 \in 0 .. T.height /\ 1 + 1 = 2
  BY <1>1, <1>7
<1>10. /\ WellFormed(U) /\ U.height = T.height + 1 /\ Opened(U)
       /\ Popped(U, 1 + 1) = Popped(T, 1) /\ NewestKind(U, 1 + 1, 1 + 1) = l
       /\ \A i \in 1 .. 1 : NewestKind(U, 1 + 1, i) = NewestKind(T, 1, i)
  BY <1>3, <1>7, <1>9, PushedFields, PopPushed
<1> HIDE DEF U
<1>11. Popped(U, 2) = S /\ NewestKind(U, 2, 1) = k /\ NewestKind(U, 2, 2) = l
  BY <1>7, <1>9, <1>10
<1>12. UsableTop(p, U, 2)
  BY <1>1, <1>3, <1>7, <1>10, <1>11 DEF UsableTop
<1>13. Leads(p, Inspect(2), U, S)
  BY <1>10, <1>11, <1>12 DEF Leads, Inspect
<1> QED
  BY <1>6, <1>7, <1>8, <1>10, <1>13, CodeTriple

(* The code of an expression leads to the stack after it.                   *)
LEMMA ExprExpands ==
  ASSUME NEW p, Typed(p), NEW e, NEW S, NEW T, WellFormed(S), WellFormed(T),
         Evaluates(p, e, S, T)
  PROVE  Takes(p, ExprCode(e), S, T)
<1>1. e \in Expr(p) /\ Opened(S) /\ Spared(S, Writes(p, e)) /\ T = After(p, e, S)
  BY DEF Evaluates
<1>2. IsExpr(p, e)
  BY <1>1 DEF Typed
<1>3. \A of : Operands(p, e, of) => of \in Expr(p) /\ Spared(S, Writes(p, of))
  BY <1>1 DEF Operands, Spared
<1>4. S.height \in Nat
  BY DEF WellFormed
<1>5. CASE e.kind = "scalar" /\ ~e.str
  BY <1>1, <1>5, CodeEmpty, ExprCodes DEF After
<1>6. CASE e.kind = "literal" /\ e.str
  <2>1. Leads(p, Make(e.long), S, T)
    BY <1>1, <1>6 DEF Leads, Make, After, ValueKind
  <2> QED
    BY <1>6, <2>1, CodeOne, ExprCodes
<1>7. CASE e.kind = "var" /\ e.str /\ IsPlace(p, e.place)
  <2>1. Leads(p, Load(e.place), S, T)
    BY <1>1, <1>7 DEF Leads, Load, After, ValueKind
  <2> QED
    BY <1>7, <2>1, CodeOne, ExprCodes
<1>8. CASE e.kind = "concat" /\ e.str
  <2>1. T = Pushed(S, Mine) /\ Popped(S, 0) = S
    BY <1>1, <1>8, PopNothing DEF After, ValueKind
  <2>2. Len(e.parts) \in Nat
    BY <1>2, <1>8, LenProperties DEF IsExpr
  <2>3. LeadsParts(p, e, 0, S, T)
    BY <1>1, <1>4, <1>8, <2>1, <2>2 DEF LeadsParts
  <2>4. Leads(p, Parts(e, 0), S, T)
    BY <2>3 DEF Leads, Parts
  <2> QED
    BY <1>8, <2>4, CodeOne, ExprCodes
<1>9. CASE e.kind = "str" /\ e.str /\ Operands(p, e, e.of)
  <2>1. T = Pushed(S, Mine)
    BY <1>1, <1>9 DEF After, ValueKind
  <2>2. CASE e.of.str
    <3>1. Takes(p, Owned(e.of), S, T)
      BY <1>1, <1>3, <1>9, <2>1, <2>2, OwnedCode
    <3> QED
      BY <1>9, <2>2, <3>1, ExprCodes
  <2>3. CASE ~e.of.str
    <3>1. Leads(p, Value(e.of), S, S)
      BY <1>1, <1>3, <1>9, <2>3 DEF Leads, Evaluates, After, Value
    <3>2. Leads(p, Render, S, T)
      BY <1>1, <2>1 DEF Leads, Render
    <3>3. Takes(p, <<Value(e.of), Render>>, S, T)
      BY <3>1, <3>2, CodePair
    <3> QED
      BY <1>9, <2>3, <3>3, ExprCodes
  <2> QED
    BY <2>2, <2>3
<1>10. CASE e.kind = "len" /\ ~e.str /\ Operands(p, e, e.of) /\ e.of.str
  <2>1. Takes(p, <<Value(e.of), Inspect(1)>>, S, S)
    BY <1>1, <1>3, <1>10, LenExpands
  <2> QED
    BY <1>1, <1>10, <2>1, ExprCodes DEF After
<1>11. CASE e.kind = "compare" /\ ~e.str
  <2>1. Takes(p, <<Value(e.left), Value(e.right), Inspect(2)>>, S, S)
    BY <1>1, <1>11, CompareExpands
  <2> QED
    BY <1>1, <1>11, <2>1, ExprCodes DEF After
<1>12. CASE e.kind = "call"
  <2>1. /\ e.name \in DOMAIN p.functions /\ e.str = p.functions[e.name].result.str
        /\ CallWrites(p, e.name) \subseteq Writes(p, e)
    BY <1>2, <1>12 DEF IsExpr
  <2>2. Spared(S, CallWrites(p, e.name))
    BY <1>1, <2>1 DEF Spared
  <2>3. T = IF p.functions[e.name].result.str THEN Pushed(S, Mine) ELSE S
    BY <1>1, <1>12, <2>1 DEF After, ValueKind
  <2>4. Leads(p, Invoke(e.name), S, T)
    BY <1>1, <2>1, <2>2, <2>3 DEF Leads, LeadsInvoke, Invoke
  <2> QED
    BY <1>12, <2>4, CodeOne, ExprCodes
<1>13. CASE e.kind = "if"
  <2>1. Leads(p, Value(Scalar), S, S)
    BY <1>1 DEF Leads, Value
  <2>2. Leads(p, Choose(e), S, T)
    BY <1>1, <1>13 DEF Leads, Evaluates, Choose
  <2>3. Takes(p, <<Value(Scalar), Choose(e)>>, S, T)
    BY <2>1, <2>2, CodePair
  <2> QED
    BY <1>13, <2>3, ExprCodes
<1> QED
  BY <1>2, <1>5, <1>6, <1>7, <1>8, <1>9, <1>10, <1>11, <1>12, <1>13 DEF IsExpr

(* A scalar without strings in it has no code.                              *)
LEMMA ScalarExpands ==
  ASSUME NEW p, NEW S, WellFormed(S)
  PROVE  Takes(p, ExprCode(Scalar), S, S)
<1>1. ExprCode(Scalar) = <<>>
  BY ExprCodes DEF Scalar
<1> QED
  BY <1>1, CodeEmpty

-----------------------------------------------------------------------------
(* Assignments.                                                             *)

(* The code of the values of an assignment pushes them, owned.              *)
LEMMA ValuesExpand ==
  ASSUME NEW p, Typed(p), NEW s, NEW done, NEW S, NEW T, WellFormed(S), WellFormed(T),
         LeadsValues(p, s, done, S, T)
  PROVE  Takes(p, ValuesCode(s, done), S, T)
<1>1. /\ s \in Stmt(p) /\ s.kind = "assign" /\ done \in 0 .. Len(s.values)
      /\ Opened(S) /\ Spared(S, Writes(p, s))
      /\ T = Grown(S, Len(s.values) - done)
  BY DEF LeadsValues
<1>2. /\ DOMAIN s.values = 1 .. Len(s.values) /\ Len(s.values) \in Nat
      /\ \A i \in 1 .. Len(s.values) : Operands(p, s, s.values[i]) /\ s.values[i].str
  <2>1. /\ s.values \in Seq(Expr(p))
        /\ \A i \in DOMAIN s.values : Operands(p, s, s.values[i]) /\ s.values[i].str
    BY <1>1 DEF Typed, IsStmt
  <2> QED
    BY <2>1, LenProperties
<1>3. S.height \in Nat /\ S.scopes \in Nat /\ done \in Nat
  BY <1>1, <1>2 DEF WellFormed
<1>4. CASE done = Len(s.values)
  <2>1. Len(s.values) - done = 0
    BY <1>2, <1>4
  <2>2. T = S
    <3> DEFINE U == Grown(S, 0)
    <3>1. /\ WellFormed(U) /\ U.height = S.height + 0 /\ U.scopes = S.scopes
          /\ U.callers = S.callers /\ U.clean = S.clean
          /\ \A i \in 1 .. S.height : U.values[i] = S.values[i]
      BY GrownFields
    <3> HIDE DEF U
    <3>2. U = S
      BY <1>3, <3>1, SameState
    <3> QED
      BY <1>1, <2>1, <3>2 DEF U
  <2> QED
    BY <1>4, <2>2, CodeEmpty DEF ValuesCode
<1>5. CASE done # Len(s.values)
  <2> DEFINE e == s.values[done + 1]
             U == Pushed(S, Mine)
             n == Len(s.values) - (done + 1)
             V == Grown(U, n)
             m == Len(s.values) - done
  <2>1. done + 1 \in 1 .. Len(s.values) /\ n \in Nat /\ m = n + 1 /\ m \in Nat
    BY <1>1, <1>2, <1>5
  <2>2. e \in Expr(p) /\ e.str /\ Spared(S, Writes(p, e))
    BY <1>1, <1>2, <2>1 DEF Operands, Spared
  <2>3. Takes(p, Owned(e), S, U)
    BY <1>1, <2>2, OwnedCode
  <2>4. Fitting(Mine, S.scopes) /\ Mine.from = {}
    BY <1>3, FittingKinds
  <2>5. /\ WellFormed(U) /\ U.height = S.height + 1 /\ U.scopes = S.scopes
        /\ U.callers = S.callers /\ U.clean = S.clean /\ Opened(U)
        /\ \A i \in 1 .. S.height : U.values[i] = S.values[i]
        /\ U.values[S.height + 1] = Mine
        /\ Spared(U, Writes(p, s))
    BY <1>1, <2>4, PushedFields, SparedPushed DEF Hit
  <2> HIDE DEF U, n, m
  <2>6. /\ WellFormed(V) /\ V.height = U.height + n /\ V.scopes = U.scopes
        /\ V.callers = U.callers /\ V.clean = U.clean
        /\ \A i \in 1 .. U.height : V.values[i] = U.values[i]
        /\ \A i \in U.height + 1 .. U.height + n : V.values[i] = Mine
    BY <2>1, <2>5, GrownFields
  <2> HIDE DEF V
  <2>7. /\ T.height = S.height + m /\ T.scopes = S.scopes
        /\ T.callers = S.callers /\ T.clean = S.clean
        /\ \A i \in 1 .. S.height : T.values[i] = S.values[i]
        /\ \A i \in S.height + 1 .. S.height + m : T.values[i] = Mine
    <3>1. T = Grown(S, m)
      BY <1>1 DEF m
    <3> QED
      BY <2>1, <3>1, GrownFields, ZenonT(30)
  <2>0. V.height = S.height + 1 + n /\ S.height + m = S.height + 1 + n
    <3>1. V.height = S.height + 1 + n
      BY <2>5, <2>6
    <3>2. m = n + 1 /\ n \in Nat
      BY <2>1
    <3> QED
      BY <1>3, <3>1, <3>2
  <2>8. ASSUME NEW i \in 1 .. V.height
        PROVE  V.values[i] = T.values[i]
    <3>1. V.height = S.height + 1 + n /\ S.height + m = S.height + 1 + n
      BY <2>0
    <3>2. CASE i \in 1 .. S.height
      <4>1. i \in 1 .. U.height
        BY <1>3, <2>5, <3>2
      <4> QED
        BY <2>5, <2>6, <2>7, <3>2, <4>1
    <3>3. CASE i = S.height + 1
      <4>1. i \in 1 .. U.height /\ i \in S.height + 1 .. S.height + m
        BY <1>3, <2>1, <2>5, <3>3
      <4> QED
        BY <2>5, <2>6, <2>7, <3>3, <4>1
    <3>4. CASE i > S.height + 1
      <4>1. i \in U.height + 1 .. U.height + n /\ i \in S.height + 1 .. S.height + m
        BY <1>3, <2>1, <2>5, <3>1, <3>4
      <4> QED
        BY <2>6, <2>7, <4>1
    <3> QED
      BY <1>3, <2>1, <3>1, <3>2, <3>3, <3>4
  <2>9. V = T
    <3>1. V.height = T.height
      BY <2>0, <2>7
    <3> QED
      BY <2>5, <2>6, <2>7, <2>8, <3>1, SameState
  <2>10. LeadsValues(p, s, done + 1, U, T)
    BY <1>1, <1>2, <1>3, <2>1, <2>5, <2>9 DEF LeadsValues, V, n
  <2>11. Leads(p, Values(s, done + 1), U, T)
    BY <2>10 DEF Leads, Values
  <2>12. Takes(p, <<Values(s, done + 1)>>, U, T)
    BY <2>5, <2>11, CodeOne
  <2>13. Takes(p, Owned(e) \o <<Values(s, done + 1)>>, S, T)
    BY <2>3, <2>12, CodeConcat
  <2> QED
    BY <1>5, <2>13 DEF ValuesCode
<1> QED
  BY <1>4, <1>5

(* What the types say of an assignment.                                     *)
LEMMA AssignFields ==
  ASSUME NEW p, Typed(p), NEW s \in Stmt(p), s.kind = "assign"
  PROVE  /\ Len(s.values) \in Nat \ {0} /\ DOMAIN s.values = 1 .. Len(s.values)
         /\ Len(s.groups) \in Nat \ {0} /\ DOMAIN s.groups = 1 .. Len(s.groups)
         /\ \A g \in 1 .. Len(s.groups), i \in 1 .. Len(s.values) :
              IsPlace(p, s.groups[g][i]) /\ s.groups[g][i] \in Writes(p, s)
<1>1. /\ s.values \in Seq(Expr(p)) /\ s.values # <<>>
      /\ Len(s.groups) \in Nat \ {0} /\ DOMAIN s.groups = 1 .. Len(s.groups)
      /\ \A g \in DOMAIN s.groups : \A i \in DOMAIN s.values :
           IsPlace(p, s.groups[g][i]) /\ s.groups[g][i] \in Writes(p, s)
  BY DEF Typed, IsStmt
<1>2. Len(s.values) \in Nat \ {0} /\ DOMAIN s.values = 1 .. Len(s.values)
  BY <1>1, LenProperties, EmptySeq
<1> QED
  BY <1>1, <1>2

(* When a value is needed again after a store, its variable is another.     *)
LEMMA KeptFrom ==
  ASSUME NEW p, Typed(p), Careful(p), NEW s \in Stmt(p), s.kind = "assign",
         NEW group \in 1 .. Len(s.groups), NEW index \in 1 .. Len(s.values),
         NEW j \in 1 .. Len(s.values), group > 1 \/ index > j,
         \/ group < Len(s.groups)
         \/ group = Len(s.groups) /\ index < j
         \/ s = Last(p.stmts) /\ j = Len(s.values)
  PROVE  s.groups[group][index].sym # s.groups[1][j].sym
<1>1. /\ Len(s.values) \in Nat \ {0} /\ DOMAIN s.values = 1 .. Len(s.values)
      /\ Len(s.groups) \in Nat \ {0} /\ DOMAIN s.groups = 1 .. Len(s.groups)
  BY AssignFields
<1>2. \A g \in 1 .. Len(s.groups) : g > 1 => Keeps(s, j, g, j)
  BY <1>1 DEF Careful
<1>3. CASE group < Len(s.groups)
  <2> DEFINE g == group + 1
  <2>1. g \in 1 .. Len(s.groups) /\ g > 1 /\ group < g
    BY <1>1, <1>3
  <2> HIDE DEF g
  <2>2. Keeps(s, j, g, j)
    BY <1>2, <2>1
  <2> QED
    BY <1>1, <2>1, <2>2 DEF Keeps
<1>4. CASE group = Len(s.groups) /\ index < j
  <2>1. group > 1
    BY <1>1, <1>4
  <2>2. Keeps(s, j, group, j)
    BY <1>2, <2>1
  <2> QED
    BY <1>1, <1>4, <2>1, <2>2 DEF Keeps
<1>5. CASE s = Last(p.stmts) /\ j = Len(s.values)
  <2> DEFINE g == Len(s.groups) + 1
  <2>1. Keeps(s, j, g, 1)
    BY <1>5 DEF Careful
  <2>2. group < g /\ group > 1
    BY <1>1, <1>5
  <2> HIDE DEF g
  <2> QED
    BY <1>1, <2>1, <2>2 DEF Keeps
<1> QED
  BY <1>3, <1>4, <1>5

(* Whether value number j is used once more after (group, index).           *)
Needed(s, keep, group, index, j) ==
  \/ group < Len(s.groups) \/ (group = Len(s.groups) /\ index <= j)
  \/ keep /\ j = Len(s.values)

(* The kinds of the values of an assignment while it is stored.             *)
LEMMA HeldKinds ==
  ASSUME NEW p, Typed(p), NEW s \in Stmt(p), s.kind = "assign", NEW keep, NEW group, NEW index,
         NEW scopes \in Nat, NEW j \in 1 .. Len(s.values)
  PROVE  LET k == Held(p, s, keep, group, index, scopes)[j]
             x == s.groups[1][j].sym
         IN  /\ Fitting(k, scopes)
             /\ group = 1 /\ index <= j => k = Mine
             /\ ~(group = 1 /\ index <= j) /\ Needed(s, keep, group, index, j) =>
                  /\ k = Borrowed(p, x, scopes) /\ ~k.owned
                  /\ Careful(p) => Readable(k) /\ k = Lent(x, scopes)
             /\ ~(group = 1 /\ index <= j) /\ ~Needed(s, keep, group, index, j) => k = Spent
             /\ k.from # {} => /\ Careful(p) /\ k.from = {x}
                               /\ ~(group = 1 /\ index <= j) /\ Needed(s, keep, group, index, j)
<1> DEFINE k == Held(p, s, keep, group, index, scopes)[j]
           x == s.groups[1][j].sym
<1>1. k = IF group = 1 /\ index <= j THEN Mine
          ELSE IF Needed(s, keep, group, index, j) THEN Borrowed(p, x, scopes) ELSE Spent
  BY DEF Held, Needed
<1>2. x \in Symbol
  <2>1. 1 \in 1 .. Len(s.groups)
    BY AssignFields
  <2> QED
    BY <2>1, AssignFields DEF IsPlace
<1> HIDE DEF k, x
<1>3. /\ Fitting(Mine, scopes) /\ Fitting(Spent, scopes) /\ Fitting(Lent(x, scopes), scopes)
      /\ Mine.from = {} /\ Spent.from = {} /\ ~Spent.owned
      /\ ~Lent(x, scopes).owned /\ Lent(x, scopes).from = {x}
  BY <1>2, FittingKinds
<1>4. /\ Fitting(k, scopes)
      /\ group = 1 /\ index <= j => k = Mine
      /\ ~(group = 1 /\ index <= j) /\ ~Needed(s, keep, group, index, j) => k = Spent
  BY <1>1, <1>3 DEF Borrowed
<1>5. ~(group = 1 /\ index <= j) /\ Needed(s, keep, group, index, j) =>
                  /\ k = Borrowed(p, x, scopes) /\ ~k.owned
                  /\ Careful(p) => Readable(k) /\ k = Lent(x, scopes)
  BY <1>1, <1>3 DEF Borrowed, Readable
<1>6. k.from # {} => /\ Careful(p) /\ k.from = {x}
                     /\ ~(group = 1 /\ index <= j) /\ Needed(s, keep, group, index, j)
  BY <1>1, <1>3 DEF Borrowed
<1> QED
  BY <1>4, <1>5, <1>6 DEF k, x

(* One store, and then the rest of the stores.                              *)
LEMMA StoreExpands ==
  ASSUME NEW p, Typed(p), NEW s \in Stmt(p), s.kind = "assign", NEW keep, keep \in BOOLEAN,
         keep => s = Last(p.stmts),
         NEW group \in 1 .. Len(s.groups), NEW index \in 1 .. Len(s.values),
         NEW S, WellFormed(S), Opened(S), Len(s.values) <= S.height,
         Spared(Popped(S, Len(s.values)), Writes(p, s)),
         \A j \in 1 .. Len(s.values) :
           NewestKind(S, Len(s.values), j) = Held(p, s, keep, group, index, S.scopes)[j]
  PROVE  LET n == Len(s.values)
             U == Turned(S, n, Held(p, s, keep, group, index + 1, S.scopes))
         IN  LeadsStore(p, s.groups[group][index], group = 1, n - index, S, U)
<1> DEFINE n == Len(s.values)
           next == Held(p, s, keep, group, index + 1, S.scopes)
           U == Turned(S, n, next)
           place == s.groups[group][index]
           back == n - index
           i == S.height - back
           x == s.groups[1][index].sym
<1>1. /\ n \in Nat \ {0} /\ Len(s.groups) \in Nat \ {0} /\ S.height \in Nat /\ S.scopes \in Nat
      /\ n <= S.height /\ group \in Nat /\ index \in Nat /\ n \in 0 .. S.height
  BY AssignFields DEF WellFormed
<1>2. IsPlace(p, place) /\ place \in Writes(p, s)
  BY AssignFields
<1>3. back \in 0 .. S.height - 1 /\ i = S.height - n + index /\ i \in 1 .. S.height
  BY <1>1
<1>4. ASSUME NEW j \in 1 .. S.height, j # i
      PROVE  ~Hit(S.values[j], place, Floor(S))
  <2>1. CASE j <= S.height - n
    <3> DEFINE B == Popped(S, n)
    <3>1. B.height = S.height - n /\ Floor(B) = Floor(S) /\ B.values[j] = S.values[j]
      BY <1>1, <2>1, PoppedFields
    <3>2. \A m \in 1 .. B.height, q \in Writes(p, s) : ~Hit(B.values[m], q, Floor(B))
      BY DEF Spared
    <3> HIDE DEF B, place
    <3>3. j \in 1 .. B.height
      BY <1>1, <2>1, <3>1
    <3> QED
      BY <1>2, <3>1, <3>2, <3>3
  <2>2. CASE j > S.height - n
    <3> DEFINE m == j - (S.height - n)
    <3>1. m \in 1 .. n /\ S.height - n + m = j /\ m # index
      BY <1>1, <1>3, <1>4, <2>2, SMTT(30)
    <3> HIDE DEF m
    <3> DEFINE k == Held(p, s, keep, group, index, S.scopes)[m]
    <3>2. S.values[j] = k
      BY <3>1 DEF NewestKind
    <3>3. k.from # {} => /\ Careful(p) /\ k.from = {s.groups[1][m].sym}
                         /\ ~(group = 1 /\ index <= m) /\ Needed(s, keep, group, index, m)
      BY <1>1, <3>1, HeldKinds
    <3> HIDE DEF k
    <3>4. CASE k.from = {}
      BY <3>2, <3>4 DEF Hit
    <3>5. CASE k.from # {}
      <4>1. group > 1 \/ index > m
        BY <1>1, <3>1, <3>3, <3>5
      <4>2. \/ group < Len(s.groups)
            \/ group = Len(s.groups) /\ index < m
            \/ s = Last(p.stmts) /\ m = Len(s.values)
        BY <1>1, <3>1, <3>3, <3>5 DEF Needed
      <4>3. place.sym # s.groups[1][m].sym
        BY <3>1, <3>3, <3>5, <4>1, <4>2, KeptFrom
      <4> QED
        BY <3>2, <3>3, <3>5, <4>3 DEF Hit
    <3> QED
      BY <3>4, <3>5
  <2> QED
    BY <1>1, <2>1, <2>2
<1> DEFINE k == next[index]
           now == Held(p, s, keep, group, index, S.scopes)[index]
<1>5. S.values[i] = now
  BY <1>3 DEF NewestKind
<1>6. U = Become(S, i, k)
  <2> DEFINE B == Become(S, i, k)
  <2>1. \A j \in 1 .. n : Fitting(next[j], S.scopes)
    BY <1>1, HeldKinds
  <2>2. /\ WellFormed(U)
        /\ U.height = S.height /\ U.scopes = S.scopes
        /\ U.callers = S.callers /\ U.clean = S.clean
        /\ \A j \in 1 .. S.height - n : U.values[j] = S.values[j]
        /\ \A j \in 1 .. n : NewestKind(U, n, j) = next[j]
    BY <1>1, <2>1, TurnedFields
  <2>3. /\ WellFormed(B)
        /\ B.height = S.height /\ B.scopes = S.scopes
        /\ B.callers = S.callers /\ B.clean = S.clean
        /\ \A j \in 1 .. S.height : B.values[j] = IF j = i THEN k ELSE S.values[j]
    <3>1. Fitting(k, S.scopes)
      BY <2>1
    <3> QED
      BY <1>3, <3>1, BecomeFields
  <2>4. ASSUME NEW j \in 1 .. n, j # index
        PROVE  next[j] = Held(p, s, keep, group, index, S.scopes)[j]
    <3>1. (index <= j) <=> (index + 1 <= j)
      BY <1>1, <2>4
    <3> QED
      BY <3>1 DEF Held
  <2> HIDE DEF U, B, k, next, i
  <2>5. ASSUME NEW j \in 1 .. S.height
        PROVE  U.values[j] = B.values[j]
    <3>1. CASE j <= S.height - n
      BY <1>1, <1>3, <2>2, <2>3, <3>1
    <3>2. CASE j > S.height - n
      <4> DEFINE m == j - (S.height - n)
      <4>0. m \in 1 .. n /\ S.height - n + m = j /\ m = j - (S.height - n)
        BY <1>1, <3>2
      <4>1. m \in 1 .. n /\ S.height - n + m = j /\ (m = index <=> j = i)
        BY <1>1, <1>3, <4>0, SMTT(30)
      <4> HIDE DEF m
      <4>2. U.values[j] = next[m]
        BY <2>2, <4>1 DEF NewestKind
      <4>3. CASE j = i
        BY <2>3, <4>1, <4>2, <4>3 DEF k
      <4>4. CASE j # i
        <5>1. S.values[j] = Held(p, s, keep, group, index, S.scopes)[m]
          BY <4>1 DEF NewestKind
        <5> QED
          BY <2>3, <2>4, <4>1, <4>2, <4>4, <5>1
      <4> QED
        BY <4>3, <4>4
    <3> QED
      BY <1>1, <3>1, <3>2
  <2>6. U = B
    BY <2>2, <2>3, <2>5, SameState
  <2> QED
    BY <2>6 DEF B
<1>7. /\ group = 1 => now = Mine
      /\ group # 1 => /\ now = Borrowed(p, x, S.scopes) /\ ~now.owned
                      /\ Careful(p) => Readable(now)
  BY <1>1, HeldKinds DEF Needed
<1>8. /\ k = Spent \/ (k = Borrowed(p, x, S.scopes))
      /\ k.from # {} => Careful(p) /\ k.from = {x} /\ Needed(s, keep, group, index + 1, index)
  <2>1. ~(index + 1 <= index)
    BY <1>1
  <2> QED
    BY <1>1, <2>1, HeldKinds
<1>9. group # 1 => ~Hit(k, place, Floor(S))
  <2>1. SUFFICES ASSUME group # 1, k.from # {}
                 PROVE  place.sym # x
    BY <1>8 DEF Hit
  <2>2. \/ group < Len(s.groups)
        \/ s = Last(p.stmts) /\ index = Len(s.values)
    BY <1>1, <1>8, <2>1 DEF Needed
  <2> QED
    BY <1>1, <1>8, <2>1, <2>2, KeptFrom
<1>10. CASE group = 1
  <2>1. k \in {Spent, Lent(place.sym, S.scopes)}
    BY <1>8, <1>10 DEF Borrowed
  <2> HIDE DEF k, now, U, place, i, back
  <2>2. S.values[i] = Mine
    BY <1>5, <1>7, <1>10
  <2> QED
    BY <1>2, <1>3, <1>4, <1>6, <1>10, <2>1, <2>2 DEF LeadsStore, U, place, i, back
<1>11. CASE group # 1
  <2>1. k \in {Spent, now}
    BY <1>7, <1>8, <1>11
  <2> HIDE DEF k, now, U, place, i, back
  <2>2. ~S.values[i].owned /\ (Careful(p) => Readable(S.values[i])) /\ k \in {Spent, S.values[i]}
    BY <1>5, <1>7, <1>11, <2>1
  <2> QED
    BY <1>2, <1>3, <1>4, <1>6, <1>9, <1>11, <2>2 DEF LeadsStore, U, place, i, back
<1> QED
  BY <1>10, <1>11

(* The code of the stores still to be done spends the values.               *)
LEMMA StoresExpand ==
  ASSUME NEW p, Typed(p), NEW s, NEW group, NEW index, NEW S, NEW T, WellFormed(S), WellFormed(T),
         LeadsStores(p, s, group, index, S, T)
  PROVE  Takes(p, StoresCode(s, group, index), S, T)
<1> DEFINE n == Len(s.values)
           G == Len(s.groups)
<1>1. /\ s \in Stmt(p) /\ s.kind = "assign" /\ n <= S.height
      /\ group \in 1 .. G + 1 /\ index \in 1 .. n + 1
      /\ group > G => index = 1
      /\ Opened(S) /\ Spared(Popped(S, n), Writes(p, s))
  BY DEF LeadsStores
<1>2. PICK keep \in BOOLEAN :
        /\ keep => s = Last(p.stmts)
        /\ \A j \in 1 .. n : NewestKind(S, n, j) = Held(p, s, keep, group, index, S.scopes)[j]
        /\ T = Turned(S, n, Held(p, s, keep, G + 1, 1, S.scopes))
  BY DEF LeadsStores
<1>3. /\ n \in Nat \ {0} /\ G \in Nat \ {0} /\ S.height \in Nat /\ S.scopes \in Nat
      /\ group \in Nat /\ index \in Nat /\ n \in 0 .. S.height
  BY <1>1, AssignFields DEF WellFormed
<1>4. CASE group > G
  <2>1. group = G + 1 /\ index = 1
    BY <1>1, <1>3, <1>4
  <2> DEFINE final == Held(p, s, keep, G + 1, 1, S.scopes)
             U == Turned(S, n, final)
  <2>2. \A j \in 1 .. n : Fitting(final[j], S.scopes)
    BY <1>1, <1>3, HeldKinds
  <2>3. /\ WellFormed(U)
        /\ U.height = S.height /\ U.scopes = S.scopes
        /\ U.callers = S.callers /\ U.clean = S.clean
        /\ \A j \in 1 .. S.height - n : U.values[j] = S.values[j]
        /\ \A j \in 1 .. n : NewestKind(U, n, j) = final[j]
    BY <1>3, <2>2, TurnedFields
  <2>4. \A j \in 1 .. n : NewestKind(S, n, j) = final[j]
    BY <1>2, <2>1
  <2> HIDE DEF U, final
  <2>5. ASSUME NEW j \in 1 .. S.height
        PROVE  S.values[j] = U.values[j]
    <3>1. CASE j <= S.height - n
      BY <1>3, <2>3, <3>1
    <3>2. CASE j > S.height - n
      <4> DEFINE m == j - (S.height - n)
      <4>1. m \in 1 .. n /\ S.height - n + m = j
        BY <1>3, <3>2
      <4> HIDE DEF m
      <4> QED
        BY <2>3, <2>4, <4>1 DEF NewestKind
    <3> QED
      BY <1>3, <3>1, <3>2
  <2>6. S = U
    BY <2>3, <2>5, SameState
  <2>7. T = S
    BY <1>2, <2>6 DEF U, final
  <2>8. StoresCode(s, group, index) = <<>>
    BY <1>4 DEF StoresCode
  <2> QED
    BY <2>7, <2>8, CodeEmpty
<1>5. CASE ~(group > G) /\ index > n
  <2> DEFINE g == group + 1
  <2>1. index = n + 1 /\ g \in 1 .. G + 1 /\ 1 \in 1 .. n + 1
    BY <1>1, <1>3, <1>5
  <2>2. ASSUME NEW j \in 1 .. n
        PROVE  Held(p, s, keep, group, index, S.scopes)[j] = Held(p, s, keep, g, 1, S.scopes)[j]
    <3>1. ~(index <= j) /\ 1 <= j /\ g # 1 /\ (group < G <=> g < G \/ g = G)
      BY <1>1, <1>3, <1>5
    <3> HIDE DEF g
    <3> QED
      BY <3>1 DEF Held
  <2> HIDE DEF g
  <2>3. LeadsStores(p, s, g, 1, S, T)
    <3>1. \A j \in 1 .. n : NewestKind(S, n, j) = Held(p, s, keep, g, 1, S.scopes)[j]
      BY <1>2, <2>2
    <3> QED
      BY <1>1, <1>2, <2>1, <3>1 DEF LeadsStores
  <2>4. Leads(p, Stores(s, g, 1), S, T)
    BY <2>3 DEF Leads, Stores
  <2>5. Takes(p, <<Stores(s, g, 1)>>, S, T)
    BY <2>4, CodeOne
  <2> QED
    BY <1>5, <2>5 DEF StoresCode, g
<1>6. CASE ~(group > G) /\ ~(index > n)
  <2> DEFINE next == Held(p, s, keep, group, index + 1, S.scopes)
             final == Held(p, s, keep, G + 1, 1, S.scopes)
             U == Turned(S, n, next)
             V == Turned(U, n, final)
             m == index + 1
             place == s.groups[group][index]
  <2>1. group \in 1 .. G /\ index \in 1 .. n
    BY <1>1, <1>3, <1>6
  <2>2. LeadsStore(p, place, group = 1, n - index, S, U)
    BY <1>1, <1>2, <2>1, StoreExpands
  <2>3. \A j \in 1 .. n : Fitting(next[j], S.scopes) /\ Fitting(final[j], S.scopes)
    BY <1>1, <1>3, HeldKinds
  <2>4. /\ WellFormed(U)
        /\ U.height = S.height /\ U.scopes = S.scopes
        /\ U.callers = S.callers /\ U.clean = S.clean
        /\ \A j \in 1 .. S.height - n : U.values[j] = S.values[j]
        /\ \A j \in 1 .. n : NewestKind(U, n, j) = next[j]
        /\ Floor(U) = Floor(S) /\ (Opened(U) <=> Opened(S))
    BY <1>3, <2>3, TurnedFields
  <2>5. /\ WellFormed(T)
        /\ T.height = S.height /\ T.scopes = S.scopes
        /\ T.callers = S.callers /\ T.clean = S.clean
        /\ \A j \in 1 .. S.height - n : T.values[j] = S.values[j]
        /\ \A j \in 1 .. n : NewestKind(T, n, j) = final[j]
    <3> DEFINE W == Turned(S, n, final)
    <3>1. /\ WellFormed(W)
          /\ W.height = S.height /\ W.scopes = S.scopes
          /\ W.callers = S.callers /\ W.clean = S.clean
          /\ \A j \in 1 .. S.height - n : W.values[j] = S.values[j]
          /\ \A j \in 1 .. n : NewestKind(W, n, j) = final[j]
      BY <1>3, <2>3, TurnedFields
    <3>2. T = W
      BY <1>2
    <3> HIDE DEF W
    <3> QED
      BY <3>1, <3>2
  <2> HIDE DEF U, next, final
  <2>6. /\ WellFormed(V)
        /\ V.height = S.height /\ V.scopes = S.scopes
        /\ V.callers = S.callers /\ V.clean = S.clean
        /\ \A j \in 1 .. S.height - n : V.values[j] = U.values[j]
        /\ \A j \in 1 .. n : NewestKind(V, n, j) = final[j]
    BY <1>3, <2>3, <2>4, TurnedFields, SMTT(30)
  <2> HIDE DEF V
  <2>7. ASSUME NEW j \in 1 .. S.height
        PROVE  V.values[j] = T.values[j]
    <3>1. CASE j <= S.height - n
      BY <1>3, <2>4, <2>5, <2>6, <3>1
    <3>2. CASE j > S.height - n
      <4> DEFINE i == j - (S.height - n)
      <4>1. i \in 1 .. n /\ S.height - n + i = j
        BY <1>3, <3>2
      <4> HIDE DEF i
      <4> QED
        BY <2>5, <2>6, <4>1 DEF NewestKind
    <3> QED
      BY <1>3, <3>1, <3>2
  <2>8. V = T
    BY <2>5, <2>6, <2>7, SameState
  <2>9. Spared(Popped(U, n), Writes(p, s))
    <3> DEFINE A == Popped(S, n)
               B == Popped(U, n)
    <3>1. A.height = S.height - n /\ Floor(A) = Floor(S)
          /\ \A j \in 1 .. S.height - n : A.values[j] = S.values[j]
      BY <1>3, PoppedFields
    <3>2. B.height = S.height - n /\ Floor(B) = Floor(S)
          /\ \A j \in 1 .. S.height - n : B.values[j] = S.values[j]
      BY <1>3, <2>4, PoppedFields
    <3>3. Spared(A, Writes(p, s))
      BY <1>1
    <3> HIDE DEF A, B
    <3>4. Spared(B, Writes(p, s))
      BY <3>1, <3>2, <3>3 DEF Spared
    <3> QED
      BY <3>4 DEF B
  <2>10. LeadsStores(p, s, group, m, U, T)
    <3>1. m \in 1 .. n + 1 /\ group \in 1 .. G + 1 /\ ~(group > G)
      BY <1>3, <1>6, <2>1
    <3>2. /\ \A j \in 1 .. n : NewestKind(U, n, j) = Held(p, s, keep, group, m, U.scopes)[j]
          /\ T = Turned(U, n, Held(p, s, keep, G + 1, 1, U.scopes))
      BY <2>4, <2>8 DEF next, V, final
    <3> HIDE DEF m
    <3> QED
      BY <1>1, <1>2, <2>4, <2>9, <3>1, <3>2 DEF LeadsStores
  <2>11. Leads(p, Store(place, group = 1, n - index), S, U) /\ Leads(p, Stores(s, group, m), U, T)
    BY <2>2, <2>10 DEF Leads, Store, Stores
  <2>12. Takes(p, <<Store(place, group = 1, n - index), Stores(s, group, m)>>, S, T)
    BY <2>4, <2>11, CodePair
  <2> QED
    BY <1>6, <2>12 DEF StoresCode
<1> QED
  BY <1>4, <1>5, <1>6

(* Popping what an assignment pushed.                                       *)
LEMMA PopGrown ==
  ASSUME NEW S, WellFormed(S), NEW n \in Nat
  PROVE  Popped(Grown(S, n), n) = S
<1> DEFINE G == Grown(S, n)
           T == Popped(G, n)
<1>1. S.height \in Nat
  BY DEF WellFormed
<1>2. /\ WellFormed(G) /\ G.height = S.height + n /\ G.scopes = S.scopes
      /\ G.callers = S.callers /\ G.clean = S.clean
      /\ \A i \in 1 .. S.height : G.values[i] = S.values[i]
  BY GrownFields
<1> HIDE DEF G
<1>3. n \in 0 .. G.height /\ G.height - n = S.height
  BY <1>1, <1>2
<1>4. /\ WellFormed(T) /\ T.height = G.height - n /\ T.scopes = G.scopes
      /\ T.callers = G.callers /\ T.clean = G.clean
      /\ \A i \in 1 .. G.height - n : T.values[i] = G.values[i]
  BY <1>2, <1>3, PoppedFields
<1> HIDE DEF T
<1>5. T = S
  BY <1>2, <1>3, <1>4, SameState
<1> QED
  BY <1>5 DEF G, T

(* Whatever has become of it.                                               *)
LEMMA PopTurned ==
  ASSUME NEW S, WellFormed(S), NEW n \in 0 .. S.height, NEW kinds,
         \A i \in 1 .. n : Fitting(kinds[i], S.scopes)
  PROVE  Popped(Turned(S, n, kinds), n) = Popped(S, n)
<1> DEFINE U == Turned(S, n, kinds)
           T == Popped(U, n)
           R == Popped(S, n)
<1>1. S.height \in Nat
  BY DEF WellFormed
<1>2. /\ WellFormed(U) /\ U.height = S.height /\ U.scopes = S.scopes
      /\ U.callers = S.callers /\ U.clean = S.clean
      /\ \A i \in 1 .. S.height - n : U.values[i] = S.values[i]
  BY TurnedFields
<1> HIDE DEF U
<1>3. /\ WellFormed(T) /\ T.height = U.height - n /\ T.scopes = U.scopes
      /\ T.callers = U.callers /\ T.clean = U.clean
      /\ \A i \in 1 .. U.height - n : T.values[i] = U.values[i]
  BY <1>2, PoppedFields
<1>4. /\ WellFormed(R) /\ R.height = S.height - n /\ R.scopes = S.scopes
      /\ R.callers = S.callers /\ R.clean = S.clean
      /\ \A i \in 1 .. S.height - n : R.values[i] = S.values[i]
  BY PoppedFields
<1> HIDE DEF T, R
<1>5. T = R
  BY <1>2, <1>3, <1>4, SameState
<1> QED
  BY <1>5 DEF U, T, R

(* All values and all stores: the values are left on the stack, of no use   *)
(* but for the one that is the program's.                                   *)
AssignEnds(p, s, keep, S, T) ==
  LET n == Len(s.values) IN
  /\ WellFormed(T) /\ T.height = S.height + n /\ T.scopes = S.scopes
  /\ T.callers = S.callers /\ T.clean = S.clean
  /\ \A i \in 1 .. S.height : T.values[i] = S.values[i]
  /\ \A j \in 1 .. n :
       NewestKind(T, n, j) = Held(p, s, keep, Len(s.groups) + 1, 1, S.scopes)[j]
  /\ Popped(T, n) = S

(* The code of an assignment leads to its values, spent or lent by their    *)
(* slots.                                                                   *)
LEMMA AssignExpands ==
  ASSUME NEW p, Typed(p), NEW s \in Stmt(p), s.kind = "assign", NEW keep \in BOOLEAN,
         keep => s = Last(p.stmts),
         NEW S, WellFormed(S), Opened(S), Spared(S, Writes(p, s))
  PROVE  \E T : AssignEnds(p, s, keep, S, T) /\ Takes(p, AssignCode(s), S, T)
<1> DEFINE n == Len(s.values)
           G == Grown(S, n)
           final == Held(p, s, keep, Len(s.groups) + 1, 1, S.scopes)
           T == Turned(G, n, final)
<1>1. n \in Nat \ {0} /\ Len(s.groups) \in Nat \ {0} /\ S.height \in Nat /\ S.scopes \in Nat
  BY AssignFields DEF WellFormed
<1>2. /\ WellFormed(G) /\ G.height = S.height + n /\ G.scopes = S.scopes
      /\ G.callers = S.callers /\ G.clean = S.clean
      /\ \A i \in 1 .. S.height : G.values[i] = S.values[i]
      /\ \A i \in S.height + 1 .. S.height + n : G.values[i] = Mine
      /\ Floor(G) = Floor(S) /\ Opened(G)
      /\ Popped(G, n) = S
  <2>1. Popped(G, n) = S
    BY <1>1, PopGrown
  <2>2. n \in Nat
    BY <1>1
  <2> HIDE DEF n
  <2>3. /\ WellFormed(G) /\ G.height = S.height + n /\ G.scopes = S.scopes
        /\ G.callers = S.callers /\ G.clean = S.clean
        /\ \A i \in 1 .. S.height : G.values[i] = S.values[i]
        /\ \A i \in S.height + 1 .. S.height + n : G.values[i] = Mine
        /\ Floor(G) = Floor(S) /\ (Opened(G) <=> Opened(S))
    BY <2>2, GrownFields
  <2> QED
    BY <2>1, <2>3
<1>3. Leads(p, Values(s, 0), S, G)
  <2>1. n - 0 = n /\ 0 \in 0 .. n
    BY <1>1
  <2>2. LeadsValues(p, s, 0, S, G)
    BY <2>1 DEF LeadsValues
  <2> QED
    BY <2>2 DEF Leads, Values
<1> HIDE DEF G
<1>4. \A j \in 1 .. n : Fitting(final[j], S.scopes)
  BY <1>1, HeldKinds
<1>5. n \in 0 .. G.height /\ G.height - n = S.height
  BY <1>1, <1>2
<1>6. /\ WellFormed(T) /\ T.height = G.height /\ T.scopes = G.scopes
      /\ T.callers = G.callers /\ T.clean = G.clean
      /\ \A i \in 1 .. G.height - n : T.values[i] = G.values[i]
      /\ \A i \in 1 .. n : NewestKind(T, n, i) = final[i]
      /\ Popped(T, n) = Popped(G, n)
  BY <1>2, <1>4, <1>5, TurnedFields, PopTurned
<1>7. ASSUME NEW j \in 1 .. n
      PROVE  NewestKind(G, n, j) = Held(p, s, keep, 1, 1, G.scopes)[j]
  <2> DEFINE i == G.height - n + j
  <2>1. i \in S.height + 1 .. S.height + n /\ 1 <= j
    BY <1>1, <1>5
  <2>2. G.values[i] = Mine
    BY <1>2, <2>1
  <2> QED
    BY <1>1, <2>1, <2>2, HeldKinds DEF NewestKind, Held
<1>8. Leads(p, Stores(s, 1, 1), G, T)
  <2> HIDE DEF T
  <2>1. 1 \in 1 .. Len(s.groups) + 1 /\ 1 \in 1 .. n + 1 /\ n <= G.height
    BY <1>1, <1>5
  <2>2. T = Turned(G, n, Held(p, s, keep, Len(s.groups) + 1, 1, G.scopes))
    BY <1>2 DEF T
  <2>3. LeadsStores(p, s, 1, 1, G, T)
    BY <1>2, <1>7, <2>1, <2>2 DEF LeadsStores
  <2> QED
    BY <2>3 DEF Leads, Stores
<1>9. Takes(p, AssignCode(s), S, T)
  <2>1. Takes(p, <<Values(s, 0), Stores(s, 1, 1)>>, S, T)
    BY <1>2, <1>3, <1>6, <1>8, CodePair
  <2> QED
    BY <2>1 DEF AssignCode
<1> HIDE DEF T, final
<1>10. AssignEnds(p, s, keep, S, T)
  BY <1>2, <1>5, <1>6 DEF AssignEnds, final
<1> QED
  BY <1>9, <1>10

-----------------------------------------------------------------------------
(* Statements.                                                              *)

(* A fact for each kind of statement.                                       *)
LEMMA StmtCodes ==
  ASSUME NEW s
  PROVE  /\ s.kind = "assign" => StmtCode(s) = AssignCode(s) \o <<Drop(Len(s.values))>>
         /\ s.kind = "expr" =>
              StmtCode(s) = <<Value(s.expr)>> \o (IF s.expr.str THEN <<Discard>> ELSE <<>>)
         /\ s.kind = "loop" =>
              StmtCode(s) = IF s.pretest THEN <<Value(s.cond), Repeat(s)>> ELSE Again(s)
         /\ s.kind = "for" => StmtCode(s) = <<Value(s.source), Do(Turns(s.body))>>
         /\ s.kind = "turns" => StmtCode(s) = <<Repeat(s)>>
BY DEF StmtCode

(* The code of the last statement has one of three forms.                   *)
LEMMA LastCodes ==
  ASSUME NEW s
  PROVE  /\ s.kind = "expr" =>
              LastCode(s) = Owned(s.expr) \o (IF s.expr.str THEN <<Finish, HandOver>> ELSE <<Finish>>)
         /\ s.kind = "assign" => LastCode(s) = AssignCode(s) \o <<Own, Finish, HandOver>>
         /\ s.kind \notin {"expr", "assign"} => LastCode(s) = StmtCode(s) \o <<Finish>>
BY DEF LastCode

(* One more turn of a loop, and the loop again.                             *)
LEMMA RepeatExpands ==
  ASSUME NEW p, Typed(p), NEW s, NEW S, WellFormed(S), s.kind \in {"loop", "turns"},
         Executes(p, s, S, S)
  PROVE  Takes(p, Again(s), S, S)
<1> DEFINE t == IF s.kind = "loop" THEN [s EXCEPT !.pretest = TRUE] ELSE s
<1>1. s \in Stmt(p) /\ Opened(S) /\ Spared(S, Writes(p, s))
  BY DEF Executes
<1>2. IsStmt(p, s)
  BY <1>1 DEF Typed
<1>3. IsEffect(p, s.body) /\ EffectWrites(p, s.body) \subseteq Writes(p, s)
  BY <1>2 DEF IsStmt
<1>4. t \in Stmt(p) /\ Writes(p, t) \subseteq Writes(p, s)
  BY <1>1, <1>2 DEF IsStmt
<1> HIDE DEF t
<1>5. Spared(S, EffectWrites(p, s.body)) /\ Spared(S, Writes(p, t))
  BY <1>1, <1>3, <1>4 DEF Spared
<1>6. Takes(p, ForEffect(s.body), S, S)
  BY <1>1, <1>3, <1>5, EffectExpands
<1>7. Leads(p, Do(t), S, S)
  BY <1>1, <1>4, <1>5 DEF Leads, Executes, Do
<1>8. Takes(p, <<Do(t)>>, S, S)
  BY <1>7, CodeOne
<1>9. Takes(p, ForEffect(s.body) \o <<Do(t)>>, S, S)
  BY <1>6, <1>8, CodeConcat
<1> QED
  BY <1>9 DEF Again, t

(* The code of a statement leaves the stack as it was.                      *)
LEMMA StmtExpands ==
  ASSUME NEW p, Typed(p), NEW s, NEW S, WellFormed(S), Executes(p, s, S, S)
  PROVE  Takes(p, StmtCode(s), S, S)
<1>1. s \in Stmt(p) /\ Opened(S) /\ Spared(S, Writes(p, s))
  BY DEF Executes
<1>2. IsStmt(p, s)
  BY <1>1 DEF Typed
<1>3. \A of : Operands(p, s, of) => of \in Expr(p) /\ Spared(S, Writes(p, of))
  BY <1>1 DEF Operands, Spared
<1>4. S.height \in Nat /\ S.scopes \in Nat
  BY DEF WellFormed
<1>5. ASSUME NEW e, Operands(p, s, e), ~e.str
      PROVE  Leads(p, Value(e), S, S)
  BY <1>1, <1>3, <1>5 DEF Leads, Evaluates, After, Value
<1>6. ASSUME s.kind \in {"loop", "turns"}
      PROVE  Leads(p, Repeat(s), S, S)
  BY <1>6 DEF Leads, Repeat
<1>7. CASE s.kind = "assign"
  <2> DEFINE n == Len(s.values)
             keep == FALSE
  <2>0. keep \in BOOLEAN /\ ~keep
    OBVIOUS
  <2> HIDE DEF keep
  <2>1. PICK T : AssignEnds(p, s, keep, S, T) /\ Takes(p, AssignCode(s), S, T)
    BY <1>1, <1>7, <2>0, AssignExpands
  <2>2. n \in Nat \ {0} /\ Len(s.groups) \in Nat \ {0}
    BY <1>1, <1>7, AssignFields
  <2>3. /\ WellFormed(T) /\ T.height = S.height + n /\ T.scopes = S.scopes /\ Popped(T, n) = S
        /\ T.callers = S.callers /\ T.clean = S.clean
        /\ \A j \in 1 .. n :
             NewestKind(T, n, j) = Held(p, s, keep, Len(s.groups) + 1, 1, S.scopes)[j]
    BY <2>1 DEF AssignEnds
  <2>4. ASSUME NEW j \in 1 .. n
        PROVE  ~NewestKind(T, n, j).owned
    <3> DEFINE g == Len(s.groups) + 1
    <3>1. g # 1 /\ ~Needed(s, keep, g, 1, j)
      BY <2>0, <2>2 DEF Needed
    <3> HIDE DEF g
    <3>2. Held(p, s, keep, g, 1, S.scopes)[j] = Spent
      BY <1>1, <1>4, <1>7, <3>1, HeldKinds
    <3> QED
      BY <2>3, <3>2 DEF Spent, g
  <2>5. n \in 0 .. T.height /\ Opened(T)
    BY <1>1, <1>4, <2>2, <2>3 DEF Opened, Floor
  <2>6. Leads(p, Drop(n), T, S)
    BY <2>3, <2>4, <2>5 DEF Leads, Drop
  <2>7. Takes(p, <<Drop(n)>>, T, S)
    BY <2>3, <2>6, CodeOne
  <2>8. Takes(p, AssignCode(s) \o <<Drop(n)>>, S, S)
    BY <2>1, <2>7, CodeConcat
  <2> QED
    BY <1>7, <2>8, StmtCodes
<1>8. CASE s.kind = "expr" /\ Operands(p, s, s.expr)
  <2> DEFINE k == ValueKind(p, s.expr, S.scopes)
             T == Pushed(S, k)
  <2>1. s.expr \in Expr(p) /\ Spared(S, Writes(p, s.expr))
    BY <1>3, <1>8
  <2>2. Takes(p, <<Value(s.expr)>>, S, After(p, s.expr, S))
    BY <1>1, <2>1, EvaluateOne
  <2>3. CASE ~s.expr.str
    <3>1. Takes(p, <<Value(s.expr)>> \o <<>>, S, S)
      BY <2>2, <2>3, CodeEmpty, CodeConcat DEF After
    <3> QED
      BY <1>8, <2>3, <3>1, StmtCodes
  <2>4. CASE s.expr.str
    <3>1. Fitting(k, S.scopes) /\ After(p, s.expr, S) = T
      BY <1>4, <2>1, <2>4, ValueKinds DEF After
    <3> HIDE DEF k
    <3>2. WellFormed(T) /\ T.height = S.height + 1 /\ Opened(T) /\ Popped(T, 1) = S
      BY <1>1, <3>1, PushedFields, PopOne
    <3> HIDE DEF T
    <3>3. T.height > 0
      BY <1>4, <3>2
    <3>4. Leads(p, Discard, T, S)
      BY <3>2, <3>3 DEF Leads, Discard
    <3>5. Takes(p, <<Discard>>, T, S)
      BY <3>2, <3>4, CodeOne
    <3>6. Takes(p, <<Value(s.expr)>> \o <<Discard>>, S, S)
      BY <2>2, <3>1, <3>5, CodeConcat
    <3> QED
      BY <1>8, <2>4, <3>6, StmtCodes
  <2> QED
    BY <2>3, <2>4
<1>9. CASE s.kind = "loop" /\ Operands(p, s, s.cond) /\ ~s.cond.str
  <2>1. CASE s.pretest
    <3>1. Takes(p, <<Value(s.cond), Repeat(s)>>, S, S)
      BY <1>5, <1>6, <1>9, CodePair
    <3> QED
      BY <1>9, <2>1, <3>1, StmtCodes
  <2>2. CASE ~s.pretest
    <3>1. Takes(p, Again(s), S, S)
      BY <1>9, RepeatExpands
    <3> QED
      BY <1>9, <2>2, <3>1, StmtCodes
  <2> QED
    BY <2>1, <2>2
<1>10. CASE /\ s.kind = "for" /\ Operands(p, s, s.source) /\ ~s.source.str
            /\ Turns(s.body) \in Stmt(p) /\ Writes(p, Turns(s.body)) \subseteq Writes(p, s)
  <2>1. Spared(S, Writes(p, Turns(s.body)))
    BY <1>1, <1>10 DEF Spared
  <2>2. Leads(p, Do(Turns(s.body)), S, S)
    BY <1>1, <1>10, <2>1 DEF Leads, Executes, Do
  <2>3. Takes(p, <<Value(s.source), Do(Turns(s.body))>>, S, S)
    BY <1>5, <1>10, <2>2, CodePair
  <2> QED
    BY <1>10, <2>3, StmtCodes
<1>11. CASE s.kind = "turns"
  <2>1. Takes(p, <<Repeat(s)>>, S, S)
    BY <1>6, <1>11, CodeOne
  <2> QED
    BY <1>11, <2>1, StmtCodes
<1> QED
  BY <1>2, <1>7, <1>8, <1>9, <1>10, <1>11 DEF IsStmt

-----------------------------------------------------------------------------
(* The entry function.                                                      *)

(* The stack a run begins with.                                             *)
LEMMA Starting ==
  /\ WellFormed(Start) /\ Opened(Start) /\ Start.height = 0
  /\ Start.scopes = 1 /\ Start.callers = <<>> /\ ~Start.clean
  /\ \A places : Spared(Start, places)
<1> DEFINE values == [i \in 1 .. 0 |-> Mine]
<1>1. /\ Start.height = 0 /\ Start.values = values /\ Start.scopes = 1
      /\ Start.callers = <<>> /\ Start.clean = FALSE
      /\ Start = State(Start.height, Start.values, Start.scopes, Start.callers, Start.clean)
  BY DEF Start, State
<1>2. values \in [1 .. 0 -> Kind] /\ \A i : ~(i \in 1 .. 0)
  OBVIOUS
<1>3. Nested(<<>>, 1)
  BY EmptySeq DEF Nested
<1> HIDE DEF values
<1>4. WellFormed(Start)
  <2>1. Start.values \in [1 .. Start.height -> Kind] /\ \A i : ~(i \in 1 .. Start.height)
    BY <1>1, <1>2
  <2>2. Nested(Start.callers, Start.scopes)
    BY <1>1, <1>3
  <2>3. Start.height \in Nat /\ Start.scopes \in Nat \ {0}
    BY <1>1
  <2>5. Start.clean \in BOOLEAN
    BY <1>1, Zenon
  <2>4. Start = State(Start.height, Start.values, Start.scopes, Start.callers, Start.clean)
    BY <1>1
  <2> QED
    BY <2>1, <2>2, <2>3, <2>4, <2>5 DEF WellFormed, UpTo
<1>5. Opened(Start)
  BY <1>1 DEF Opened, Floor
<1>6. \A places : Spared(Start, places)
  BY <1>1, <1>2 DEF Spared
<1> QED
  BY <1>1, <1>4, <1>5, <1>6

(* There is one stack a run ends with.                                      *)
LEMMA EndedIsOne ==
  ASSUME NEW S, NEW T, WellFormed(S), WellFormed(T), Ended(S), Ended(T)
  PROVE  S = T
<1>1. /\ S.height = 0 /\ T.height = 0 /\ S.scopes = T.scopes /\ S.callers = T.callers
      /\ S.clean = T.clean
  BY DEF Ended, WellFormed
<1>2. \A i \in 1 .. S.height : S.values[i] = T.values[i]
  BY <1>1
<1> QED
  BY <1>1, <1>2, SameState

(* Emptying the slots at the end of the entry function, where no value of   *)
(* use is a slot's any more; and the result for the host.                   *)
LEMMA FinishFields ==
  ASSUME NEW p, NEW S, WellFormed(S), ~S.clean, S.scopes = 1, S.callers = <<>>,
         \A i \in 1 .. S.height : S.values[i].from = {}
  PROVE  \E T : /\ WellFormed(T) /\ Leads(p, Finish, S, T)
                /\ T.height = S.height /\ T.values = S.values /\ T.scopes = 1
                /\ T.callers = <<>> /\ T.clean
<1> DEFINE T == State(S.height, S.values, S.scopes, S.callers, TRUE)
<1>1. Nested(S.callers, S.scopes) /\ UpTo(S, S.scopes) /\ S.scopes \in Nat \ {0}
  BY DEF WellFormed
<1>2. /\ T.height = S.height /\ T.values = S.values /\ T.scopes = S.scopes
      /\ T.callers = S.callers /\ T.clean = TRUE
      /\ T = State(T.height, T.values, T.scopes, T.callers, T.clean)
  BY DEF State
<1>3. Leads(p, Finish, S, T)
  BY DEF Leads, LeadsFinish, Finish
<1> HIDE DEF T
<1>4. WellFormed(T)
  BY <1>1, <1>2 DEF WellFormed, UpTo
<1> QED
  BY <1>2, <1>3, <1>4

(* A stack without values.                                                  *)
LEMMA EmptiedFields ==
  ASSUME NEW S, WellFormed(S)
  PROVE  LET T == State(0, [i \in 1 .. 0 |-> Mine], S.scopes, S.callers, S.clean) IN
         /\ WellFormed(T) /\ T.height = 0 /\ T.scopes = S.scopes /\ T.callers = S.callers
         /\ T.clean = S.clean
<1> DEFINE values == [i \in 1 .. 0 |-> Mine]
           none == 0
           T == State(none, values, S.scopes, S.callers, S.clean)
<1>1. /\ none \in Nat /\ values \in [1 .. none -> Kind]
      /\ \A i \in 1 .. none : Fitting(values[i], S.scopes)
  OBVIOUS
<1> HIDE DEF values, none
<1>2. /\ WellFormed(T) /\ T.height = none /\ T.scopes = S.scopes /\ T.callers = S.callers
      /\ T.clean = S.clean
  BY <1>1, OtherValues
<1> QED
  BY <1>2 DEF none, values

(* The stack when the host has the result.                                  *)
LEMMA HostFields ==
  ASSUME NEW p, NEW S, WellFormed(S), S.clean, S.height > 0, S.values[S.height] = Mine,
         \A i \in 1 .. S.height - 1 : ~S.values[i].owned,
         S.scopes = 1, S.callers = <<>>
  PROVE  \E T : WellFormed(T) /\ Leads(p, HandOver, S, T) /\ Ended(T)
<1> DEFINE T == State(0, [i \in 1 .. 0 |-> Mine], S.scopes, S.callers, S.clean)
<1>1. Leads(p, HandOver, S, T)
  BY DEF Leads, LeadsHost, HandOver
<1>2. WellFormed(T) /\ T.height = 0 /\ T.scopes = S.scopes /\ T.callers = S.callers
  BY EmptiedFields
<1>3. T.clean
  BY DEF State
<1> HIDE DEF T
<1> QED
  BY <1>1, <1>2, <1>3 DEF Ended

(* From where only the program's value is in flight, to the end.            *)
LEMMA ResultCode ==
  ASSUME NEW p, NEW S, WellFormed(S), ~S.clean, S.scopes = 1, S.callers = <<>>,
         S.height > 0, S.values[S.height] = Mine,
         \A i \in 1 .. S.height - 1 : ~S.values[i].owned /\ S.values[i].from = {}
  PROVE  \E T : WellFormed(T) /\ Ended(T) /\ Takes(p, <<Finish, HandOver>>, S, T)
<1>1. S.height \in Nat
  BY DEF WellFormed
<1>2. \A i \in 1 .. S.height : S.values[i].from = {}
  <2>1. \A i \in 1 .. S.height : i \in 1 .. S.height - 1 \/ i = S.height
    BY <1>1
  <2> QED
    BY <2>1 DEF Mine
<1>3. PICK U : /\ WellFormed(U) /\ Leads(p, Finish, S, U)
               /\ U.height = S.height /\ U.values = S.values /\ U.scopes = 1
               /\ U.callers = <<>> /\ U.clean
  BY <1>2, FinishFields
<1>4. PICK T : WellFormed(T) /\ Leads(p, HandOver, U, T) /\ Ended(T)
  BY <1>3, HostFields
<1> QED
  BY <1>3, <1>4, CodePair

(* Code of one item in front of code of two.                                *)
LEMMA HeadedCode ==
  ASSUME NEW a, NEW b, NEW c
  PROVE  <<a>> \o <<b, c>> = <<a, b, c>>
<1> DEFINE A == {a, b, c}
           d == <<a>>
           e == <<b, c>>
           f == <<a, b, c>>
<1>1. /\ d \in Seq(A) /\ e \in Seq(A) /\ f \in Seq(A)
      /\ Len(d) = 1 /\ Len(e) = 2 /\ Len(f) = 3
      /\ d[1] = a /\ e[1] = b /\ e[2] = c /\ f[1] = a /\ f[2] = b /\ f[3] = c
  OBVIOUS
<1> HIDE DEF A, d, e, f
<1>2. /\ d \o e \in Seq(A) /\ Len(d \o e) = 3
      /\ \A i \in 1 .. 3 : (d \o e)[i] = IF i <= 1 THEN d[i] ELSE e[i - 1]
  <2>1. /\ d \o e \in Seq(A) /\ Len(d \o e) = Len(d) + Len(e)
        /\ \A i \in 1 .. Len(d) + Len(e) : (d \o e)[i] = IF i <= Len(d) THEN d[i] ELSE e[i - Len(d)]
    BY <1>1, ConcatProperties
  <2>2. Len(d) + Len(e) = 3
    BY <1>1
  <2> QED
    BY <1>1, <2>1, <2>2
<1>3. d \o e = f
  BY <1>1, <1>2, SeqEqual
<1> QED
  BY <1>3 DEF d, e, f

(* The code of the last statement leads to the end of the program.          *)
LEMMA LastExpands ==
  ASSUME NEW p, Typed(p), NEW s, s = Last(p.stmts)
  PROVE  \E T : WellFormed(T) /\ Ended(T) /\ Takes(p, LastCode(s), Start, T)
<1>1. s \in Stmt(p)
  <2>1. p.stmts \in Seq(Stmt(p)) /\ p.stmts # <<>>
    BY DEF Typed
  <2>2. Len(p.stmts) \in 1 .. Len(p.stmts)
    BY <2>1, EmptySeq, LenProperties
  <2> QED
    BY <2>1, <2>2, ElementOfSeq DEF Last
<1>2. IsStmt(p, s)
  BY <1>1 DEF Typed
<1>3. /\ WellFormed(Start) /\ Opened(Start) /\ Start.height = 0
      /\ Start.scopes = 1 /\ Start.callers = <<>> /\ ~Start.clean
      /\ \A places : Spared(Start, places)
  BY Starting
<1>4. \E T : WellFormed(T) /\ Ended(T) /\ Takes(p, <<Finish>>, Start, T)
  <2>1. \A i \in 1 .. Start.height : Start.values[i].from = {}
    BY <1>3
  <2>2. PICK T : /\ WellFormed(T) /\ Leads(p, Finish, Start, T)
                 /\ T.height = Start.height /\ T.values = Start.values /\ T.scopes = 1
                 /\ T.callers = <<>> /\ T.clean
    BY <1>3, <2>1, FinishFields
  <2> QED
    BY <1>3, <2>2, CodeOne DEF Ended
<1>5. CASE s.kind = "expr"
  <2> DEFINE e == s.expr
             U == Pushed(Start, Mine)
  <2>1. e \in Expr(p)
    BY <1>2, <1>5 DEF IsStmt, Operands
  <2>2. Takes(p, Owned(e), Start, IF e.str THEN U ELSE Start)
    BY <1>3, <2>1, OwnedCode
  <2>3. CASE ~e.str
    <3>1. PICK T : WellFormed(T) /\ Ended(T) /\ Takes(p, <<Finish>>, Start, T)
      BY <1>4
    <3>2. Takes(p, Owned(e) \o <<Finish>>, Start, T)
      BY <2>2, <2>3, <3>1, CodeConcat
    <3> QED
      BY <1>5, <2>3, <3>1, <3>2, LastCodes
  <2>4. CASE e.str
    <3>1. Fitting(Mine, Start.scopes)
      BY <1>3, FittingKinds
    <3>2. /\ WellFormed(U) /\ U.height = 1 /\ U.scopes = 1 /\ U.callers = <<>> /\ U.clean = Start.clean
          /\ U.values[1] = Mine
      <4>1. /\ WellFormed(U) /\ U.height = Start.height + 1 /\ U.scopes = Start.scopes
            /\ U.callers = Start.callers /\ U.clean = Start.clean
            /\ U.values[Start.height + 1] = Mine
        BY <1>3, <3>1, PushedFields
      <4>2. Start.height + 1 = 1
        BY <1>3
      <4> QED
        BY <1>3, <4>1, <4>2
    <3> HIDE DEF U
    <3>3. \A i \in 1 .. U.height - 1 : ~U.values[i].owned /\ U.values[i].from = {}
      BY <3>2
    <3>4. U.height > 0 /\ U.values[U.height] = Mine /\ ~U.clean
      BY <1>3, <3>2
    <3>5. PICK T : WellFormed(T) /\ Ended(T) /\ Takes(p, <<Finish, HandOver>>, U, T)
      BY <3>2, <3>3, <3>4, ResultCode
    <3>6. Takes(p, Owned(e) \o <<Finish, HandOver>>, Start, T)
      BY <2>2, <2>4, <3>5, CodeConcat
    <3> QED
      BY <1>5, <2>4, <3>5, <3>6, LastCodes
  <2> QED
    BY <2>3, <2>4
<1>6. CASE s.kind = "assign"
  <2> DEFINE n == Len(s.values)
             m == n - 1
             keep == TRUE
             g == Len(s.groups) + 1
  <2>1. keep \in BOOLEAN /\ keep /\ n \in Nat \ {0} /\ Len(s.groups) \in Nat \ {0}
        /\ g \in Nat /\ g # 1 /\ g > Len(s.groups) /\ m \in Nat /\ m + 1 = n
    BY <1>1, <1>6, AssignFields
  <2> HIDE DEF keep
  <2>2. PICK A : AssignEnds(p, s, keep, Start, A) /\ Takes(p, AssignCode(s), Start, A)
    BY <1>1, <1>3, <1>6, <2>1, AssignExpands
  <2>3. /\ WellFormed(A) /\ A.height = Start.height + n /\ A.scopes = 1
        /\ A.callers = <<>> /\ A.clean = Start.clean
        /\ \A j \in 1 .. n : NewestKind(A, n, j) = Held(p, s, keep, g, 1, 1)[j]
    BY <1>3, <2>2 DEF AssignEnds
  <2> HIDE DEF n, m
  <2>4. A.height = n /\ 1 \in Nat
    BY <1>3, <2>1, <2>3
  <2>5. ASSUME NEW j \in 1 .. n
        PROVE  A.values[j] = Held(p, s, keep, g, 1, 1)[j]
    <3>1. A.height - n + j = j
      BY <2>1, <2>4
    <3> QED
      BY <2>3, <3>1 DEF NewestKind
  <2> HIDE DEF g
  <2>6. ASSUME NEW j \in 1 .. m
        PROVE  ~A.values[j].owned /\ A.values[j].from = {}
    <3>1. j \in 1 .. n /\ j # n
      BY <2>1
    <3>2. ~Needed(s, keep, g, 1, j)
      BY <2>1, <3>1 DEF Needed, n
    <3>4. ~(g = 1 /\ 1 <= j) /\ j \in 1 .. Len(s.values)
      BY <2>1, <3>1 DEF n
    <3>3. Held(p, s, keep, g, 1, 1)[j] = Spent
      BY <1>1, <1>6, <2>4, <3>2, <3>4, HeldKinds
    <3> QED
      BY <2>5, <3>1, <3>3 DEF Spent
  <2>7. Careful(p) => Readable(A.values[n])
    <3>1. n \in 1 .. n
      BY <2>1
    <3>2. Needed(s, keep, g, 1, n)
      BY <2>1 DEF Needed, n
    <3>3. Careful(p) => Readable(Held(p, s, keep, g, 1, 1)[n])
      BY <1>1, <1>6, <2>1, <2>4, <3>1, <3>2, HeldKinds DEF n
    <3> QED
      BY <2>5, <3>1, <3>3
  <2> DEFINE B == Popped(A, 1)
             U == Pushed(B, Mine)
  <2>8. Opened(A)
    BY <1>3, <2>3 DEF Opened, Floor
  <2>9. UsableTop(p, A, 1) /\ A.height > 0
    <3>1. \A i \in 1 .. 1 : A.height - 1 + i = n
      BY <2>1, <2>4
    <3> QED
      BY <2>1, <2>4, <2>7, <3>1 DEF UsableTop, NewestKind
  <2>10. Leads(p, Own, A, U)
    BY <2>8, <2>9 DEF Leads, Own
  <2>11. 1 \in 0 .. A.height /\ A.height - 1 = m
    BY <2>1, <2>4
  <2>12. /\ WellFormed(B) /\ B.height = m /\ B.scopes = 1 /\ B.callers = <<>> /\ B.clean = Start.clean
         /\ \A i \in 1 .. m : B.values[i] = A.values[i]
    BY <2>3, <2>11, PoppedFields
  <2> HIDE DEF B
  <2>13. Fitting(Mine, B.scopes)
    BY <2>12, FittingKinds
  <2>14. /\ WellFormed(U) /\ U.height = n /\ U.scopes = 1 /\ U.callers = <<>> /\ U.clean = Start.clean
         /\ \A i \in 1 .. m : U.values[i] = A.values[i]
         /\ U.values[n] = Mine
    <3>1. /\ WellFormed(U) /\ U.height = B.height + 1 /\ U.scopes = B.scopes
          /\ U.callers = B.callers /\ U.clean = B.clean
          /\ \A i \in 1 .. B.height : U.values[i] = B.values[i]
          /\ U.values[B.height + 1] = Mine
      BY <2>12, <2>13, PushedFields
    <3> HIDE DEF U
    <3> QED
      BY <2>1, <2>12, <3>1
  <2> HIDE DEF U
  <2>15. \A i \in 1 .. U.height - 1 : ~U.values[i].owned /\ U.values[i].from = {}
    BY <2>1, <2>6, <2>14
  <2>16. U.height > 0 /\ U.values[U.height] = Mine /\ ~U.clean
    BY <1>3, <2>1, <2>14
  <2>17. PICK T : WellFormed(T) /\ Ended(T) /\ Takes(p, <<Finish, HandOver>>, U, T)
    BY <2>14, <2>15, <2>16, ResultCode
  <2>18. Takes(p, <<Own>>, A, U)
    BY <2>3, <2>10, <2>14, CodeOne
  <2>19. Takes(p, <<Own>> \o <<Finish, HandOver>>, A, T)
    BY <2>17, <2>18, CodeConcat
  <2>20. Takes(p, AssignCode(s) \o (<<Own>> \o <<Finish, HandOver>>), Start, T)
    BY <2>2, <2>19, CodeConcat
  <2>21. <<Own>> \o <<Finish, HandOver>> = <<Own, Finish, HandOver>>
    BY HeadedCode
  <2> QED
    BY <1>6, <2>17, <2>20, <2>21, LastCodes
<1>7. CASE s.kind \notin {"expr", "assign"}
  <2>1. PICK T : WellFormed(T) /\ Ended(T) /\ Takes(p, <<Finish>>, Start, T)
    BY <1>4
  <2>2. Takes(p, StmtCode(s), Start, Start)
    BY <1>1, <1>3, StmtExpands DEF Executes
  <2>3. Takes(p, StmtCode(s) \o <<Finish>>, Start, T)
    BY <2>1, <2>2, CodeConcat
  <2> QED
    BY <1>7, <2>1, <2>3, LastCodes
<1> QED
  BY <1>5, <1>6, <1>7

(* The code a run begins with takes the empty stack to the empty stack.     *)
THEOREM EntryExpands ==
  ASSUME NEW p, Typed(p)
  PROVE  \E T : WellFormed(T) /\ Ended(T) /\ Takes(p, EntryCode(p), Start, T)
<1> DEFINE n == Len(p.stmts) - 1
           before == SubSeq(p.stmts, 1, n)
           code == [i \in 1 .. n |-> Do(p.stmts[i])]
           item == [do |-> "last", stmt |-> Last(p.stmts)]
<1>1. p.stmts \in Seq(Stmt(p)) /\ Len(p.stmts) \in Nat \ {0}
  BY EmptySeq, LenProperties DEF Typed
<1>2. n \in Nat /\ \A i \in 1 .. n : i \in 1 .. Len(p.stmts) /\ p.stmts[i] \in Stmt(p)
  BY <1>1, ElementOfSeq
<1>3. /\ before \in Seq(Stmt(p)) /\ Len(before) = n
      /\ \A i \in 1 .. n : before[i] = p.stmts[i]
  <2>1. \A i \in 1 .. n : p.stmts[i] \in Stmt(p)
    BY <1>2
  <2>2. /\ before \in Seq(Stmt(p))
        /\ Len(before) = IF 1 <= n THEN n - 1 + 1 ELSE 0
        /\ \A i \in 1 .. n - 1 + 1 : before[i] = p.stmts[1 + i - 1]
    BY <1>1, <1>2, <2>1, SubSeqProperties
  <2> HIDE DEF before, n
  <2> QED
    BY <1>2, <2>2
<1>4. DOMAIN before = 1 .. n
  BY <1>3, LenProperties
<1> HIDE DEF before, n
<1>5. WellFormed(Start) /\ Opened(Start) /\ \A places : Spared(Start, places)
  BY Starting
<1>6. ASSUME NEW i \in 1 .. Len(before)
      PROVE  Leads(p, Do(before[i]), Start, Start)
  BY <1>2, <1>3, <1>5 DEF Leads, Executes, Do
<1>7. Takes(p, [i \in DOMAIN before |-> Do(before[i])], Start, Start)
  BY <1>3, <1>5, <1>6, CodeSteady
<1>8. [i \in DOMAIN before |-> Do(before[i])] = code
  BY <1>3, <1>4
<1>9. PICK F : WellFormed(F) /\ Ended(F) /\ Takes(p, LastCode(Last(p.stmts)), Start, F)
  BY LastExpands
<1>10. Leads(p, item, Start, F)
  BY <1>9 DEF Leads
<1>11. Takes(p, <<item>>, Start, F)
  BY <1>5, <1>9, <1>10, CodeOne
<1>12. Takes(p, code \o <<item>>, Start, F)
  BY <1>7, <1>8, <1>11, CodeConcat
<1>13. EntryCode(p) = code \o <<item>>
  BY DEF EntryCode, n
<1> QED
  BY <1>9, <1>12, <1>13
=============================================================================
