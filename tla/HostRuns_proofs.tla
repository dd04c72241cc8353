--------------------------- MODULE HostRuns_proofs ---------------------------
(***************************************************************************)
(* Every buffer of a typed program has one owner, however often a host     *)
(* runs it and however its runs end.                                       *)
(*                                                                         *)
(* StringTypes_proofs abstracts a run to the kinds of its values, and      *)
(* shows that code takes one stack of kinds to another.  Here the stack is *)
(* fitted to the memory of the run, and an account is kept of that memory: *)
(* who owns which buffer.                                                  *)
(***************************************************************************)
EXTENDS StringTypes_proofs, FiniteSetTheorems

-----------------------------------------------------------------------------
(* Numbers.                                                                 *)

(* A finite set of numbers that is not empty has its maximum.               *)
LEMMA MaxIsMember ==
  ASSUME NEW S, NEW n \in Nat, S \subseteq 1 .. n, S # {}
  PROVE  Max(S) \in S
<1> DEFINE T == {k \in Nat : n - k \in S}
<1>1. PICK x \in S : TRUE
  OBVIOUS
<1>2. n - x \in T
  <2>1. n - x \in Nat /\ n - (n - x) = x
    OBVIOUS
  <2> QED
    BY <1>1, <2>1
<1>3. PICK k \in T : \A j \in T : ~ (<<j, k>> \in OpToRel(<, Nat))
  BY <1>2, NatLessThanWellFounded, WFMin
<1>4. \A j \in T : ~ (j < k)
  BY <1>3 DEF OpToRel
<1>5. n - k \in S /\ k \in Nat
  OBVIOUS
<1>6. ASSUME NEW y \in S
      PROVE  n - k >= y
  <2>1. n - y \in Nat /\ n - (n - y) = y
    OBVIOUS
  <2>2. n - y \in T
    BY <2>1
  <2>3. ~ (n - y < k)
    BY <1>4, <2>2
  <2> QED
    BY <1>5, <2>1, <2>3
<1>7. \E m \in S : \A y \in S : m >= y
  BY <1>5, <1>6
<1> QED
  BY <1>7 DEF Max

(* Where the buffers in use are finite in number, another one is to be had. *)
LEMMA AnotherBuffer ==
  ASSUME NEW A, IsFiniteSet(A)
  PROVE  LET b == CHOOSE b \in 1 .. Cardinality(A) + 1 : b \notin A IN
         b \in Nat \ {0} /\ b \notin A
<1> DEFINE n == Cardinality(A)
           I == 1 .. n + 1
<1>1. n \in Nat
  BY FS_CardinalityType
<1>2. \E b \in I : b \notin A
  <2>1. SUFFICES ASSUME I \subseteq A
                 PROVE  FALSE
    OBVIOUS
  <2>2. Cardinality(I) <= n
    BY <2>1, FS_Subset
  <2>3. Cardinality(I) = n + 1
    <3> DEFINE a == 1
               b == n + 1
    <3>1. a \in Int /\ b \in Int /\ ~(a > b) /\ b - a + 1 = n + 1
      BY <1>1
    <3> HIDE DEF a, b
    <3>2. Cardinality(a .. b) = b - a + 1
      BY <3>1, FS_Interval
    <3> QED
      BY <3>1, <3>2 DEF a, b
  <2> QED
    BY <1>1, <2>2, <2>3
<1>3. (CHOOSE b \in I : b \notin A) \in I /\ (CHOOSE b \in I : b \notin A) \notin A
  BY <1>2
<1> QED
  BY <1>1, <1>3

(* Fresh is the number of no buffer that is allocated or mentioned.         *)
LEMMA FreshIsNew ==
  ASSUME IsFiniteSet(live), IsFiniteSet(Mentioned)
  PROVE  Fresh \in Nat \ {0} /\ Fresh \notin live
<1>1. IsFiniteSet(live \cup Mentioned)
  BY FS_Union
<1> QED
  BY <1>1, AnotherBuffer DEF Fresh

-----------------------------------------------------------------------------
(* Accounts.                                                                *)

(* The owners P of what is allocated, L, and the buffer h[o] each holds.    *)
Account(P, h, L) ==
  /\ \A o \in P : h[o] = Inline \/ h[o] \in L
  /\ \A o, q \in P : o # q /\ h[o] = h[q] => h[o] = Inline
  /\ \A b \in L : \E o \in P : h[o] = b
  /\ L \subseteq Nat \ {Inline}

(* Some owners go, and their buffers with them.                             *)
LEMMA AccountLoses ==
  ASSUME NEW P, NEW h, NEW L, Account(P, h, L), NEW K \in SUBSET P, NEW Q, NEW g,
         \A o \in Q : g[o] = Inline \/ (o \in P \ K /\ g[o] = h[o]),
         \A o \in P \ K : h[o] = Inline \/ (o \in Q /\ g[o] = h[o])
  PROVE  Account(Q, g, L \ {h[o] : o \in K})
<1> DEFINE M == L \ {h[o] : o \in K}
<1>1. ASSUME NEW o \in Q
      PROVE  g[o] = Inline \/ g[o] \in M
  BY DEF Account
<1>2. ASSUME NEW o \in Q, NEW q \in Q, o # q, g[o] = g[q]
      PROVE  g[o] = Inline
  BY <1>2 DEF Account
<1>3. ASSUME NEW b \in M
      PROVE  \E o \in Q : g[o] = b
  <2>1. PICK o \in P : h[o] = b
    BY DEF Account
  <2> QED
    BY <2>1 DEF Account
<1>4. M \subseteq Nat \ {Inline}
  BY DEF Account
<1> QED
  BY <1>1, <1>2, <1>3, <1>4 DEF Account

(* One owner comes, with a buffer that is new or with none.                 *)
LEMMA AccountGains ==
  ASSUME NEW P, NEW h, NEW L, Account(P, h, L), NEW made \in Nat, made \notin L,
         NEW Q, NEW g, NEW c \in Q, g[c] = made,
         \A o \in Q : o # c => o \in P /\ g[o] = h[o],
         \A o \in P : h[o] = Inline \/ (o \in Q /\ o # c /\ g[o] = h[o])
  PROVE  Account(Q, g, (L \cup {made}) \ {Inline})
<1> DEFINE M == (L \cup {made}) \ {Inline}
<1>1. ASSUME NEW o \in Q
      PROVE  g[o] = Inline \/ g[o] \in M
  BY DEF Account
<1>2. ASSUME NEW o \in Q, NEW q \in Q, o # q, g[o] = g[q]
      PROVE  g[o] = Inline
  BY <1>2 DEF Account
<1>3. ASSUME NEW b \in M
      PROVE  \E o \in Q : g[o] = b
  <2>1. CASE b = made
    BY <2>1
  <2>2. CASE b # made
    <3>1. PICK o \in P : h[o] = b
      BY <2>2 DEF Account
    <3> QED
      BY <3>1
  <2> QED
    BY <2>1, <2>2
<1>4. M \subseteq Nat \ {Inline}
  BY DEF Account
<1> QED
  BY <1>1, <1>2, <1>3, <1>4 DEF Account

(* One owner hands its buffer to another.                                   *)
LEMMA AccountMoves ==
  ASSUME NEW P, NEW h, NEW L, Account(P, h, L), NEW v \in P,
         NEW Q, NEW g, NEW c \in Q, g[c] = h[v], c \notin P, v \notin Q,
         \A o \in Q : o # c => o \in P /\ g[o] = h[o],
         \A o \in P : o # v => o \in Q /\ g[o] = h[o]
  PROVE  Account(Q, g, L)
<1>1. ASSUME NEW o \in Q
      PROVE  g[o] = Inline \/ g[o] \in L
  BY DEF Account
<1>2. ASSUME NEW o \in Q, NEW q \in Q, o # q, g[o] = g[q]
      PROVE  g[o] = Inline
  BY <1>2 DEF Account
<1>3. ASSUME NEW b \in L
      PROVE  \E o \in Q : g[o] = b
  <2>1. PICK o \in P : h[o] = b
    BY DEF Account
  <2> QED
    BY <2>1
<1>4. L \subseteq Nat \ {Inline}
  BY DEF Account
<1> QED
  BY <1>1, <1>2, <1>3, <1>4 DEF Account

(* What the account says of one buffer: it has one owner, or none.          *)
LEMMA AccountCounts ==
  ASSUME NEW P, NEW h, NEW L, Account(P, h, L), NEW b, b # Inline
  PROVE  Cardinality({o \in P : h[o] = b}) = IF b \in L THEN 1 ELSE 0
<1> DEFINE A == {o \in P : h[o] = b}
<1>1. CASE b \in L
  <2>1. PICK o \in P : h[o] = b
    BY <1>1 DEF Account
  <2>2. A = {o}
    BY <2>1 DEF Account
  <2> QED
    BY <1>1, <2>2, FS_Singleton
<1>2. CASE b \notin L
  <2>1. A = {}
    BY <1>2 DEF Account
  <2> QED
    BY <1>2, <2>1, FS_EmptySet
<1> QED
  BY <1>1, <1>2

(* A step frees what is allocated, each buffer once, and reads only what is *)
(* allocated: nothing is misused.                                           *)
LEMMA HeapStep ==
  ASSUME NEW read, NEW made, NEW freed, Heap(read, made, freed), Inline \notin live,
         \A i \in DOMAIN freed : freed[i] = Inline \/ freed[i] \in live,
         \A i, j \in DOMAIN freed : i # j /\ freed[i] = freed[j] => freed[i] = Inline
  PROVE  /\ live' = ((live \cup {made}) \ {Inline}) \ Buffers(freed)
         /\ (\A b \in read : b = Inline \/ b \in live) => misused' = {}
<1> DEFINE gone == {b \in Buffers(freed) : IsHeap(b)}
           present == live \cup {made}
           twice == {b \in gone : \E i, j \in DOMAIN freed : i # j /\ freed[i] = b /\ freed[j] = b}
<1>1. /\ misused' = (({b \in read : IsHeap(b)} \cup gone) \ present) \cup twice
      /\ live' = {b \in present : IsHeap(b)} \ gone
  BY DEF Heap
<1>2. twice = {}
  BY DEF IsHeap
<1>3. gone \subseteq live
  BY DEF IsHeap, Buffers
<1>4. live' = ((live \cup {made}) \ {Inline}) \ Buffers(freed)
  BY <1>1 DEF IsHeap
<1>5. (\A b \in read : b = Inline \/ b \in live) => misused' = {}
  BY <1>1, <1>2, <1>3 DEF IsHeap
<1> QED
  BY <1>4, <1>5

-----------------------------------------------------------------------------
(* The memory of a run: the values in flight, the open scopes, the globals. *)

Descriptors == [buffer : Nat, owned : BOOLEAN]
Slots == UNION {[D -> Nat] : D \in SUBSET Symbol}

ValueOwner(i) == <<"value", i, "">>
SlotOwner(i, x) == <<"slot", i, x>>
GlobalOwner(x) == <<"global", 0, x>>

Holders(ops, frs, glo) ==
  {ValueOwner(i) : i \in {j \in DOMAIN ops : ops[j].owned}}
    \cup (UNION {{SlotOwner(i, x) : x \in DOMAIN frs[i]} : i \in DOMAIN frs})
    \cup {GlobalOwner(x) : x \in DOMAIN glo}

Holding(ops, frs, glo) ==
  [o \in Holders(ops, frs, glo) |->
     IF o[1] = "value" THEN ops[o[2]].buffer
     ELSE IF o[1] = "slot" THEN frs[o[2]][o[3]]
     ELSE glo[o[3]]]

Ledger(ops, frs, glo, L) == Account(Holders(ops, frs, glo), Holding(ops, frs, glo), L)

(* The names of owners tell them apart.                                     *)
LEMMA HolderNames ==
  /\ \A i, j : ValueOwner(i) = ValueOwner(j) => i = j
  /\ \A i, x, j, y : SlotOwner(i, x) = SlotOwner(j, y) => i = j /\ x = y
  /\ \A x, y : GlobalOwner(x) = GlobalOwner(y) => x = y
  /\ \A i, j, x : ValueOwner(i) # SlotOwner(j, x)
  /\ \A i, x : ValueOwner(i) # GlobalOwner(x)
  /\ \A i, x, y : SlotOwner(i, x) # GlobalOwner(y)
BY DEF ValueOwner, SlotOwner, GlobalOwner

(* P are the owners of a memory, and h says what each of them holds.        *)
OwnerMap(P, h, ops, frs, glo) ==
  /\ \A i \in DOMAIN ops : ops[i].owned =>
       ValueOwner(i) \in P /\ h[ValueOwner(i)] = ops[i].buffer
  /\ \A i \in DOMAIN frs : \A x \in DOMAIN frs[i] :
       SlotOwner(i, x) \in P /\ h[SlotOwner(i, x)] = frs[i][x]
  /\ \A x \in DOMAIN glo : GlobalOwner(x) \in P /\ h[GlobalOwner(x)] = glo[x]
  /\ \A o \in P :
       \/ \E i \in DOMAIN ops : ops[i].owned /\ o = ValueOwner(i)
       \/ \E i \in DOMAIN frs : \E x \in DOMAIN frs[i] : o = SlotOwner(i, x)
       \/ \E x \in DOMAIN glo : o = GlobalOwner(x)

(* Holders and Holding are such a map.                                      *)
LEMMA HoldersAre ==
  ASSUME NEW ops, NEW frs, NEW glo
  PROVE  OwnerMap(Holders(ops, frs, glo), Holding(ops, frs, glo), ops, frs, glo)
<1> DEFINE P == Holders(ops, frs, glo)
           h == Holding(ops, frs, glo)
           V == {ValueOwner(i) : i \in {j \in DOMAIN ops : ops[j].owned}}
           F == UNION {{SlotOwner(i, x) : x \in DOMAIN frs[i]} : i \in DOMAIN frs}
           G == {GlobalOwner(x) : x \in DOMAIN glo}
<1>1. P = V \cup F \cup G
  BY DEF Holders
<1>2. \A o : o \in F <=> \E i \in DOMAIN frs : \E x \in DOMAIN frs[i] : o = SlotOwner(i, x)
  OBVIOUS
<1> HIDE DEF F
<1>3. /\ \A i \in DOMAIN ops : ops[i].owned => ValueOwner(i) \in P
      /\ \A i \in DOMAIN frs : \A x \in DOMAIN frs[i] : SlotOwner(i, x) \in P
      /\ \A x \in DOMAIN glo : GlobalOwner(x) \in P
      /\ \A o \in P :
           \/ \E i \in DOMAIN ops : ops[i].owned /\ o = ValueOwner(i)
           \/ \E i \in DOMAIN frs : \E x \in DOMAIN frs[i] : o = SlotOwner(i, x)
           \/ \E x \in DOMAIN glo : o = GlobalOwner(x)
  BY <1>1, <1>2
<1>4. \A o \in P : h[o] = IF o[1] = "value" THEN ops[o[2]].buffer
                          ELSE IF o[1] = "slot" THEN frs[o[2]][o[3]]
                          ELSE glo[o[3]]
  BY DEF Holding
<1> HIDE DEF P, h
<1>5. ASSUME NEW i \in DOMAIN ops, ops[i].owned
      PROVE  h[ValueOwner(i)] = ops[i].buffer
  <2>1. ValueOwner(i) \in P
    BY <1>3, <1>5
  <2>2. ValueOwner(i)[1] = "value" /\ ValueOwner(i)[2] = i
    BY DEF ValueOwner
  <2> QED
    BY <1>4, <2>1, <2>2
<1>6. ASSUME NEW i \in DOMAIN frs, NEW x \in DOMAIN frs[i]
      PROVE  h[SlotOwner(i, x)] = frs[i][x]
  <2>1. SlotOwner(i, x) \in P
    BY <1>3
  <2>2. SlotOwner(i, x)[1] = "slot" /\ SlotOwner(i, x)[2] = i /\ SlotOwner(i, x)[3] = x
    BY DEF SlotOwner
  <2> QED
    BY <1>4, <2>1, <2>2
<1>7. ASSUME NEW x \in DOMAIN glo
      PROVE  h[GlobalOwner(x)] = glo[x]
  <2>1. GlobalOwner(x) \in P
    BY <1>3
  <2>2. GlobalOwner(x)[1] = "global" /\ GlobalOwner(x)[3] = x
    BY DEF GlobalOwner
  <2> QED
    BY <1>4, <2>1, <2>2
<1> QED
  BY <1>3, <1>5, <1>6, <1>7 DEF OwnerMap, P, h

(* What the values that go are to free: the buffers of the owned ones.      *)
Released(ops, n) ==
  {ops[i].buffer : i \in {j \in Len(ops) - n + 1 .. Len(ops) : ops[j].owned}}

(* The newest n values go.                                                  *)
LEMMA LedgerPops ==
  ASSUME NEW ops \in Seq(Descriptors), NEW frs, NEW glo, NEW L, Ledger(ops, frs, glo, L),
         NEW n \in 0 .. Len(ops), NEW rest \in Seq(Descriptors), Len(rest) = Len(ops) - n,
         \A i \in 1 .. Len(ops) - n : rest[i] = ops[i]
  PROVE  Ledger(rest, frs, glo, L \ Released(ops, n))
<1> DEFINE P == Holders(ops, frs, glo)
           h == Holding(ops, frs, glo)
           Q == Holders(rest, frs, glo)
           g == Holding(rest, frs, glo)
           top == {j \in Len(ops) - n + 1 .. Len(ops) : ops[j].owned}
           K == {ValueOwner(i) : i \in top}
<1>1. Len(ops) \in Nat /\ DOMAIN ops = 1 .. Len(ops) /\ DOMAIN rest = 1 .. Len(ops) - n
  BY LenProperties
<1>2. OwnerMap(P, h, ops, frs, glo) /\ OwnerMap(Q, g, rest, frs, glo)
  BY HoldersAre
<1>3. Account(P, h, L)
  BY DEF Ledger
<1> HIDE DEF P, h, Q, g
<1>4. top \subseteq DOMAIN ops /\ \A i \in DOMAIN rest : i \in DOMAIN ops /\ i \notin top
  BY <1>1
<1>5. \A i \in DOMAIN ops : i \in top \/ ~ops[i].owned \/ (i \in DOMAIN rest /\ rest[i] = ops[i])
  BY <1>1
<1>6. \A i \in DOMAIN rest : rest[i] = ops[i]
  BY <1>1
<1>7. K \subseteq P /\ {h[o] : o \in K} = Released(ops, n)
  <2>1. \A i \in top : ValueOwner(i) \in P /\ h[ValueOwner(i)] = ops[i].buffer
    BY <1>2, <1>4 DEF OwnerMap
  <2>2. K \subseteq P
    BY <2>1
  <2>3. {h[o] : o \in K} = {h[ValueOwner(i)] : i \in top}
    BY ZenonT(30)
  <2>4. {h[ValueOwner(i)] : i \in top} = {ops[i].buffer : i \in top}
    BY <2>1
  <2> QED
    BY <2>2, <2>3, <2>4, ZenonT(30) DEF Released
<1> HIDE DEF top
<1>8. \A o \in Q : o \in P \ K /\ g[o] = h[o]
  BY <1>2, <1>4, <1>6, HolderNames DEF OwnerMap
<1>9. \A o \in P \ K : o \in Q /\ g[o] = h[o]
  BY <1>2, <1>5 DEF OwnerMap
<1>10. Account(Q, g, L \ {h[o] : o \in K})
  <2> HIDE DEF K
  <2> QED
    BY <1>3, <1>7, <1>8, <1>9, AccountLoses
<1> QED
  BY <1>7, <1>10 DEF Ledger, Q, g

(* A value comes that is owned, in a buffer that is new.                    *)
LEMMA LedgerPushes ==
  ASSUME NEW ops \in Seq(Descriptors), NEW frs, NEW glo, NEW L, Ledger(ops, frs, glo, L),
         NEW made \in Nat, made \notin L,
         NEW more \in Seq(Descriptors), Len(more) = Len(ops) + 1,
         \A i \in 1 .. Len(ops) : more[i] = ops[i],
         more[Len(ops) + 1].owned, more[Len(ops) + 1].buffer = made
  PROVE  Ledger(more, frs, glo, (L \cup {made}) \ {Inline})
<1> DEFINE P == Holders(ops, frs, glo)
           h == Holding(ops, frs, glo)
           Q == Holders(more, frs, glo)
           g == Holding(more, frs, glo)
           n == Len(ops) + 1
           c == ValueOwner(n)
<1>1. Len(ops) \in Nat /\ DOMAIN ops = 1 .. Len(ops) /\ DOMAIN more = 1 .. Len(ops) + 1
  BY LenProperties
<1>2. OwnerMap(P, h, ops, frs, glo) /\ OwnerMap(Q, g, more, frs, glo)
  BY HoldersAre
<1>3. Account(P, h, L)
  BY DEF Ledger
<1> HIDE DEF P, h, Q, g
<1>4. /\ n \in DOMAIN more /\ n \notin DOMAIN ops
      /\ \A i \in DOMAIN more : i # n => i \in DOMAIN ops /\ more[i] = ops[i]
      /\ \A i \in DOMAIN ops : i # n /\ i \in DOMAIN more /\ more[i] = ops[i]
  BY <1>1
<1>5. more[n].owned /\ more[n].buffer = made
  OBVIOUS
<1> HIDE DEF n
<1>6. c \in Q /\ g[c] = made
  BY <1>2, <1>4, <1>5 DEF OwnerMap
<1>7. \A o \in Q : o # c => o \in P /\ g[o] = h[o]
  BY <1>2, <1>4 DEF OwnerMap
<1>8. \A o \in P : o \in Q /\ o # c /\ g[o] = h[o]
  BY <1>2, <1>4, HolderNames DEF OwnerMap
<1>9. Account(Q, g, (L \cup {made}) \ {Inline})
  <2> HIDE DEF c
  <2> QED
    BY <1>3, <1>6, <1>7, <1>8, AccountGains
<1> QED
  BY <1>9 DEF Ledger, Q, g

(* The owners may change as long as what they hold does not.                *)
LEMMA AccountStays ==
  ASSUME NEW P, NEW h, NEW L, Account(P, h, L), NEW Q, NEW g,
         \A o \in Q : g[o] = Inline \/ (o \in P /\ g[o] = h[o]),
         \A o \in P : h[o] = Inline \/ (o \in Q /\ g[o] = h[o])
  PROVE  Account(Q, g, L)
<1>1. ASSUME NEW o \in Q
      PROVE  g[o] = Inline \/ g[o] \in L
  BY DEF Account
<1>2. ASSUME NEW o \in Q, NEW q \in Q, o # q, g[o] = g[q]
      PROVE  g[o] = Inline
  BY <1>2 DEF Account
<1>3. ASSUME NEW b \in L
      PROVE  \E o \in Q : g[o] = b
  <2>1. PICK o \in P : h[o] = b
    BY DEF Account
  <2> QED
    BY <2>1 DEF Account
<1>4. L \subseteq Nat \ {Inline}
  BY DEF Account
<1> QED
  BY <1>1, <1>2, <1>3, <1>4 DEF Account

(* A value comes that is lent.                                              *)
LEMMA LedgerLends ==
  ASSUME NEW ops \in Seq(Descriptors), NEW frs, NEW glo, NEW L, Ledger(ops, frs, glo, L),
         NEW more \in Seq(Descriptors), Len(more) = Len(ops) + 1,
         \A i \in 1 .. Len(ops) : more[i] = ops[i], ~more[Len(ops) + 1].owned
  PROVE  Ledger(more, frs, glo, L)
<1> DEFINE P == Holders(ops, frs, glo)
           h == Holding(ops, frs, glo)
           Q == Holders(more, frs, glo)
           g == Holding(more, frs, glo)
           n == Len(ops) + 1
<1>1. Len(ops) \in Nat /\ DOMAIN ops = 1 .. Len(ops) /\ DOMAIN more = 1 .. Len(ops) + 1
  BY LenProperties
<1>2. OwnerMap(P, h, ops, frs, glo) /\ OwnerMap(Q, g, more, frs, glo)
  BY HoldersAre
<1>3. Account(P, h, L)
  BY DEF Ledger
<1> HIDE DEF P, h, Q, g
<1>4. /\ \A i \in DOMAIN more : i # n => i \in DOMAIN ops /\ more[i] = ops[i]
      /\ \A i \in DOMAIN ops : i \in DOMAIN more /\ more[i] = ops[i]
      /\ ~more[n].owned
  BY <1>1
<1> HIDE DEF n
<1>5. \A o \in Q : o \in P /\ g[o] = h[o]
  BY <1>2, <1>4 DEF OwnerMap
<1>6. \A o \in P : o \in Q /\ g[o] = h[o]
  BY <1>2, <1>4 DEF OwnerMap
<1>7. Account(Q, g, L)
  BY <1>3, <1>5, <1>6, AccountStays
<1> QED
  BY <1>7 DEF Ledger, Q, g

(* A scope opens, with no slots in it.                                      *)
LEMMA LedgerOpens ==
  ASSUME NEW ops, NEW frs \in Seq(Slots), NEW glo, NEW L, Ledger(ops, frs, glo, L),
         NEW more \in Seq(Slots), Len(more) = Len(frs) + 1,
         \A i \in 1 .. Len(frs) : more[i] = frs[i], DOMAIN more[Len(frs) + 1] = {}
  PROVE  Ledger(ops, more, glo, L)
<1> DEFINE P == Holders(ops, frs, glo)
           h == Holding(ops, frs, glo)
           Q == Holders(ops, more, glo)
           g == Holding(ops, more, glo)
           n == Len(frs) + 1
<1>1. Len(frs) \in Nat /\ DOMAIN frs = 1 .. Len(frs) /\ DOMAIN more = 1 .. Len(frs) + 1
  BY LenProperties
<1>2. OwnerMap(P, h, ops, frs, glo) /\ OwnerMap(Q, g, ops, more, glo)
  BY HoldersAre
<1>3. Account(P, h, L)
  BY DEF Ledger
<1> HIDE DEF P, h, Q, g
<1>4. /\ \A i \in DOMAIN more : i # n => i \in DOMAIN frs /\ more[i] = frs[i]
      /\ \A i \in DOMAIN frs : i \in DOMAIN more /\ more[i] = frs[i]
      /\ \A x : x \notin DOMAIN more[n]
  BY <1>1
<1> HIDE DEF n
<1>5. \A o \in Q : o \in P /\ g[o] = h[o]
  BY <1>2, <1>4 DEF OwnerMap
<1>6. \A o \in P : o \in Q /\ g[o] = h[o]
  BY <1>2, <1>4 DEF OwnerMap
<1>7. Account(Q, g, L)
  BY <1>3, <1>5, <1>6, AccountStays
<1> QED
  BY <1>7 DEF Ledger, Q, g

(* The newest scope closes.                                                 *)
LEMMA LedgerCloses ==
  ASSUME NEW ops, NEW frs \in Seq(Slots), NEW glo, NEW L, Ledger(ops, frs, glo, L),
         Len(frs) > 0, NEW rest \in Seq(Slots), Len(rest) = Len(frs) - 1,
         \A i \in 1 .. Len(frs) - 1 : rest[i] = frs[i]
  PROVE  Ledger(ops, rest, glo, L \ Buffers(frs[Len(frs)]))
<1> DEFINE P == Holders(ops, frs, glo)
           h == Holding(ops, frs, glo)
           Q == Holders(ops, rest, glo)
           g == Holding(ops, rest, glo)
           n == Len(frs)
           K == {SlotOwner(n, x) : x \in DOMAIN frs[n]}
<1>1. Len(frs) \in Nat /\ DOMAIN frs = 1 .. Len(frs) /\ DOMAIN rest = 1 .. Len(frs) - 1
  BY LenProperties
<1>2. OwnerMap(P, h, ops, frs, glo) /\ OwnerMap(Q, g, ops, rest, glo)
  BY HoldersAre
<1>3. Account(P, h, L)
  BY DEF Ledger
<1> HIDE DEF P, h, Q, g
<1>4. /\ \A i \in DOMAIN rest : i # n /\ i \in DOMAIN frs /\ rest[i] = frs[i]
      /\ \A i \in DOMAIN frs : i # n => i \in DOMAIN rest /\ rest[i] = frs[i]
      /\ n \in DOMAIN frs
  BY <1>1
<1> HIDE DEF n
<1>5. K \subseteq P /\ {h[o] : o \in K} = Buffers(frs[n])
  BY <1>2, <1>4 DEF OwnerMap, Buffers
<1>6. \A o \in Q : o \in P \ K /\ g[o] = h[o]
  BY <1>2, <1>4, HolderNames DEF OwnerMap
<1>7. \A o \in P \ K : o \in Q /\ g[o] = h[o]
  BY <1>2, <1>4 DEF OwnerMap
<1>8. Account(Q, g, L \ {h[o] : o \in K})
  <2> HIDE DEF K
  <2> QED
    BY <1>3, <1>5, <1>6, <1>7, AccountLoses
<1> QED
  BY <1>5, <1>8 DEF Ledger, Q, g, n

(* One owner, c, now holds b; the others are as they were.                  *)
Changes(P, h, Q, g, c, b) ==
  /\ c \in Q /\ g[c] = b
  /\ \A o : o # c => (o \in P <=> o \in Q) /\ (o \in P => g[o] = h[o])

(* What a slot holds before a store to it.                                  *)
Before(P, h, c, old) == (c \in P => old = h[c]) /\ (c \notin P => old = Inline)

(* An owner is taken out, and what it held is freed.                        *)
LEMMA AccountForgets ==
  ASSUME NEW P, NEW h, NEW L, Account(P, h, L), NEW c, NEW old, Before(P, h, c, old)
  PROVE  Account(P \ {c}, h, L \ {old})
<1> DEFINE K == {o \in P : o = c}
<1>1. K \subseteq P /\ P \ K = P \ {c}
  OBVIOUS
<1>2. Account(P \ {c}, h, L \ {h[o] : o \in K})
  <2>1. \A o \in P \ {c} : o \in P \ K
    OBVIOUS
  <2>2. \A o \in P \ K : o \in P \ {c}
    OBVIOUS
  <2> HIDE DEF K
  <2> QED
    BY <1>1, <2>1, <2>2, AccountLoses
<1>3. L \ {h[o] : o \in K} = L \ {old}
  <2>1. CASE c \in P
    <3>1. {h[o] : o \in K} = {old}
      BY <2>1 DEF Before
    <3> QED
      BY <3>1
  <2>2. CASE c \notin P
    <3>1. \A o : o \notin K
      BY <2>2
    <3>2. {h[o] : o \in K} = {}
      BY <3>1
    <3>3. old \notin L
      BY <2>2 DEF Before, Account
    <3> QED
      BY <3>2, <3>3
  <2> QED
    BY <2>1, <2>2
<1> QED
  BY <1>2, <1>3

(* A slot is given a new buffer.                                            *)
LEMMA AccountCopies ==
  ASSUME NEW P, NEW h, NEW L, Account(P, h, L), NEW made \in Nat, made \notin L,
         NEW Q, NEW g, NEW c, Changes(P, h, Q, g, c, made), NEW old, Before(P, h, c, old)
  PROVE  Account(Q, g, ((L \cup {made}) \ {Inline}) \ {old})
<1> DEFINE M == L \ {old}
           R == P \ {c}
<1>1. Account(R, h, M)
  BY AccountForgets
<1>2. made \notin M
  OBVIOUS
<1>3. /\ c \in Q /\ g[c] = made
      /\ \A o \in Q : o # c => o \in R /\ g[o] = h[o]
      /\ \A o \in R : o \in Q /\ o # c /\ g[o] = h[o]
  BY DEF Changes
<1> HIDE DEF M, R
<1>4. Account(Q, g, (M \cup {made}) \ {Inline})
  BY <1>1, <1>2, <1>3, AccountGains
<1>5. old = Inline \/ old \in L
  BY DEF Before, Account
<1>6. (M \cup {made}) \ {Inline} = ((L \cup {made}) \ {Inline}) \ {old}
  BY <1>5 DEF M
<1> QED
  BY <1>4, <1>6

(* One owner, v, is none any more; the others are as they were.             *)
Retires(R, f, Q, g, v) ==
  v \notin Q /\ \A o : o # v => (o \in R <=> o \in Q) /\ (o \in R => g[o] = f[o])

(* A slot takes over the buffer of a value, which owns it no more.          *)
LEMMA AccountHandsOver ==
  ASSUME NEW P, NEW h, NEW L, Account(P, h, L), NEW R, NEW f, NEW c, NEW v \in P, v # c,
         Changes(P, h, R, f, c, h[v]), NEW old, Before(P, h, c, old),
         NEW Q, NEW g, Retires(R, f, Q, g, v)
  PROVE  Account(Q, g, L \ {old})
<1> DEFINE N == P \ {c}
           M == L \ {old}
<1>1. Account(N, h, M)
  BY AccountForgets
<1>2. v \in N /\ c \notin N /\ v \notin Q
  BY DEF Retires
<1>3. c \in Q /\ g[c] = h[v]
  BY DEF Changes, Retires
<1>4. \A o \in Q : o # c => o \in N /\ g[o] = h[o]
  BY DEF Changes, Retires
<1>5. \A o \in N : o # v => o \in Q /\ g[o] = h[o]
  BY DEF Changes, Retires
<1> HIDE DEF M, N
<1>6. Account(Q, g, M)
  BY <1>1, <1>2, <1>3, <1>4, <1>5, AccountMoves
<1> QED
  BY <1>6 DEF M

(* The scopes but for a slot that has another buffer now, or is new.        *)
WithSlot(frs, more, n, x, b) ==
  /\ n \in DOMAIN frs /\ DOMAIN more = DOMAIN frs
  /\ \A i \in DOMAIN frs : i # n => more[i] = frs[i]
  /\ DOMAIN more[n] = DOMAIN frs[n] \cup {x}
  /\ \A y \in DOMAIN more[n] : more[n][y] = IF y = x THEN b ELSE frs[n][y]

(* What a store to a slot of an open scope changes of the owners.           *)
LEMMA LocalStore ==
  ASSUME NEW ops, NEW frs, NEW glo, NEW more, NEW n, NEW x, NEW b, WithSlot(frs, more, n, x, b)
  PROVE  LET P == Holders(ops, frs, glo)
             h == Holding(ops, frs, glo)
             c == SlotOwner(n, x)
         IN  /\ Changes(P, h, Holders(ops, more, glo), Holding(ops, more, glo), c, b)
             /\ Before(P, h, c, IF x \in DOMAIN frs[n] THEN frs[n][x] ELSE Inline)
<1> DEFINE P == Holders(ops, frs, glo)
           h == Holding(ops, frs, glo)
           Q == Holders(ops, more, glo)
           g == Holding(ops, more, glo)
           c == SlotOwner(n, x)
<1>1. OwnerMap(P, h, ops, frs, glo) /\ OwnerMap(Q, g, ops, more, glo)
  BY HoldersAre
<1> HIDE DEF P, h, Q, g
<1>2. c \in Q /\ g[c] = b
  <2>1. n \in DOMAIN more /\ x \in DOMAIN more[n] /\ more[n][x] = b
    BY DEF WithSlot
  <2> QED
    BY <1>1, <2>1 DEF OwnerMap
<1>3. ASSUME NEW o \in P, o # c
      PROVE  o \in Q /\ g[o] = h[o]
  <2>1. CASE \E i \in DOMAIN frs : \E y \in DOMAIN frs[i] : o = SlotOwner(i, y)
    <3>1. PICK i \in DOMAIN frs : \E y \in DOMAIN frs[i] : o = SlotOwner(i, y)
      BY <2>1
    <3>2. PICK y \in DOMAIN frs[i] : o = SlotOwner(i, y)
      BY <3>1
    <3>3. i # n \/ y # x
      BY <1>3, <3>2
    <3>4. i \in DOMAIN more /\ y \in DOMAIN more[i] /\ more[i][y] = frs[i][y]
      BY <3>3 DEF WithSlot
    <3> QED
      BY <1>1, <3>2, <3>4 DEF OwnerMap
  <2>2. CASE ~(\E i \in DOMAIN frs : \E y \in DOMAIN frs[i] : o = SlotOwner(i, y))
    BY <1>1, <2>2 DEF OwnerMap
  <2> QED
    BY <2>1, <2>2
<1>4. ASSUME NEW o \in Q, o # c
      PROVE  o \in P
  <2>1. CASE \E i \in DOMAIN more : \E y \in DOMAIN more[i] : o = SlotOwner(i, y)
    <3>1. PICK i \in DOMAIN more : \E y \in DOMAIN more[i] : o = SlotOwner(i, y)
      BY <2>1
    <3>2. PICK y \in DOMAIN more[i] : o = SlotOwner(i, y)
      BY <3>1
    <3>3. i # n \/ y # x
      BY <1>4, <3>2
    <3>4. i \in DOMAIN frs /\ y \in DOMAIN frs[i]
      BY <3>3 DEF WithSlot
    <3> QED
      BY <1>1, <3>2, <3>4 DEF OwnerMap
  <2>2. CASE ~(\E i \in DOMAIN more : \E y \in DOMAIN more[i] : o = SlotOwner(i, y))
    BY <1>1, <2>2 DEF OwnerMap
  <2> QED
    BY <2>1, <2>2
<1>5. /\ c \in P <=> x \in DOMAIN frs[n]
      /\ x \in DOMAIN frs[n] => h[c] = frs[n][x]
  <2>1. n \in DOMAIN frs
    BY DEF WithSlot
  <2>2. x \in DOMAIN frs[n] => c \in P /\ h[c] = frs[n][x]
    BY <1>1, <2>1 DEF OwnerMap
  <2>3. c \in P => x \in DOMAIN frs[n]
    BY <1>1, HolderNames DEF OwnerMap
  <2> QED
    BY <2>2, <2>3
<1> HIDE DEF c
<1>6. Changes(P, h, Q, g, c, b)
  BY <1>2, <1>3, <1>4 DEF Changes
<1>7. Before(P, h, c, IF x \in DOMAIN frs[n] THEN frs[n][x] ELSE Inline)
  BY <1>5 DEF Before
<1> QED
  BY <1>6, <1>7 DEF P, h, Q, g, c

(* What a store to a global changes of them.                                *)
LEMMA GlobalStore ==
  ASSUME NEW ops, NEW frs, NEW glo, NEW x \in DOMAIN glo, NEW b
  PROVE  LET P == Holders(ops, frs, glo)
             h == Holding(ops, frs, glo)
             now == [glo EXCEPT ![x] = b]
             c == GlobalOwner(x)
         IN  /\ Changes(P, h, Holders(ops, frs, now), Holding(ops, frs, now), c, b)
             /\ Before(P, h, c, glo[x])
<1> DEFINE P == Holders(ops, frs, glo)
           h == Holding(ops, frs, glo)
           now == [glo EXCEPT ![x] = b]
           Q == Holders(ops, frs, now)
           g == Holding(ops, frs, now)
           c == GlobalOwner(x)
<1>1. OwnerMap(P, h, ops, frs, glo) /\ OwnerMap(Q, g, ops, frs, now)
  BY HoldersAre
<1>2. /\ DOMAIN now = DOMAIN glo
      /\ \A y \in DOMAIN glo : now[y] = IF y = x THEN b ELSE glo[y]
  OBVIOUS
<1> HIDE DEF P, h, Q, g, now
<1>3. c \in Q /\ g[c] = b /\ c \in P /\ h[c] = glo[x]
  BY <1>1, <1>2 DEF OwnerMap
<1>4. ASSUME NEW o \in P, o # c
      PROVE  o \in Q /\ g[o] = h[o]
  BY <1>1, <1>2, <1>4 DEF OwnerMap
<1>5. ASSUME NEW o \in Q, o # c
      PROVE  o \in P
  BY <1>1, <1>2, <1>5 DEF OwnerMap
<1> HIDE DEF c
<1>6. Changes(P, h, Q, g, c, b)
  BY <1>3, <1>4, <1>5 DEF Changes
<1>7. Before(P, h, c, glo[x])
  BY <1>3 DEF Before
<1> QED
  BY <1>6, <1>7 DEF P, h, Q, g, now, c

(* A value is owned no more.                                                *)
LEMMA ValueSpent ==
  ASSUME NEW ops \in Seq(Descriptors), NEW k \in 1 .. Len(ops), NEW frs, NEW glo,
         NEW now \in Seq(Descriptors), Len(now) = Len(ops), ~now[k].owned,
         \A i \in 1 .. Len(ops) : i # k => now[i] = ops[i]
  PROVE  LET R == Holders(ops, frs, glo)
             f == Holding(ops, frs, glo)
             Q == Holders(now, frs, glo)
             g == Holding(now, frs, glo)
             v == ValueOwner(k)
         IN  Retires(R, f, Q, g, v)
<1> DEFINE R == Holders(ops, frs, glo)
           f == Holding(ops, frs, glo)
           Q == Holders(now, frs, glo)
           g == Holding(now, frs, glo)
           v == ValueOwner(k)
<1>1. DOMAIN ops = 1 .. Len(ops) /\ DOMAIN now = 1 .. Len(ops)
  BY LenProperties
<1>2. OwnerMap(R, f, ops, frs, glo) /\ OwnerMap(Q, g, now, frs, glo)
  BY HoldersAre
<1> HIDE DEF R, f, Q, g
<1>3. v \notin Q
  BY <1>1, <1>2, HolderNames DEF OwnerMap
<1>4. \A o \in R : o # v => o \in Q /\ g[o] = f[o]
  BY <1>1, <1>2 DEF OwnerMap
<1>5. \A o \in Q : o # v => o \in R
  BY <1>1, <1>2 DEF OwnerMap
<1> QED
  BY <1>3, <1>4, <1>5 DEF Retires, R, f, Q, g

-----------------------------------------------------------------------------
(* Sequences.                                                               *)

(* What is left when the newest n elements of a sequence go.                *)
LEMMA BelowIs ==
  ASSUME NEW A, NEW s \in Seq(A), NEW n \in 0 .. Len(s)
  PROVE  LET rest == SubSeq(s, 1, Len(s) - n) IN
         /\ rest \in Seq(A) /\ Len(rest) = Len(s) - n
         /\ \A i \in 1 .. Len(s) - n : rest[i] = s[i]
<1> DEFINE m == Len(s) - n
           rest == SubSeq(s, 1, m)
<1>1. Len(s) \in Nat /\ m \in Nat /\ m <= Len(s)
  BY LenProperties
<1>2. \A i \in 1 .. m : s[i] \in A
  BY <1>1, ElementOfSeq
<1> HIDE DEF m
<1>3. /\ rest \in Seq(A) /\ Len(rest) = IF 1 <= m THEN m - 1 + 1 ELSE 0
      /\ \A i \in 1 .. m - 1 + 1 : rest[i] = s[1 + i - 1]
  BY <1>1, <1>2, SubSeqProperties
<1> HIDE DEF rest
<1>4. Len(rest) = m /\ \A i \in 1 .. m : rest[i] = s[i]
  BY <1>1, <1>3
<1> QED
  BY <1>3, <1>4 DEF rest, m

(* And the newest n themselves.                                             *)
LEMMA NewestIs ==
  ASSUME NEW A, NEW s \in Seq(A), NEW n \in 0 .. Len(s)
  PROVE  LET parts == SubSeq(s, Len(s) - n + 1, Len(s)) IN
         /\ parts \in Seq(A) /\ Len(parts) = n /\ DOMAIN parts = 1 .. n
         /\ \A i \in 1 .. n : parts[i] = s[Len(s) - n + i]
<1> DEFINE m == Len(s) - n + 1
           l == Len(s)
           parts == SubSeq(s, m, l)
<1>1. l \in Nat /\ n \in Nat /\ m \in Nat /\ m = l - n + 1 /\ m >= 1
  BY LenProperties
<1>2. \A i \in m .. l : s[i] \in A
  BY <1>1, ElementOfSeq
<1> HIDE DEF m, l
<1>3. /\ parts \in Seq(A) /\ Len(parts) = IF m <= l THEN l - m + 1 ELSE 0
      /\ \A i \in 1 .. l - m + 1 : parts[i] = s[m + i - 1]
  BY <1>1, <1>2, SubSeqProperties
<1> HIDE DEF parts
<1>4. l - m + 1 = n /\ (m <= l <=> n > 0)
  BY <1>1
<1>5. Len(parts) = n
  BY <1>1, <1>3, <1>4
<1>6. ASSUME NEW i \in 1 .. n
      PROVE  parts[i] = s[l - n + i]
  <2>1. m + i - 1 = l - n + i
    BY <1>1
  <2> QED
    BY <1>3, <1>4, <2>1
<1>7. DOMAIN parts = 1 .. n
  BY <1>3, <1>5, LenProperties
<1> QED
  BY <1>3, <1>5, <1>6, <1>7 DEF parts, m, l

(* The newest n make way for one.                                           *)
LEMMA TopIs ==
  ASSUME NEW A, NEW s \in Seq(A), NEW n \in 0 .. Len(s), NEW a \in A
  PROVE  LET t == Append(SubSeq(s, 1, Len(s) - n), a) IN
         /\ t \in Seq(A) /\ Len(t) = Len(s) - n + 1
         /\ \A i \in 1 .. Len(s) - n : t[i] = s[i]
         /\ t[Len(s) - n + 1] = a
<1> DEFINE rest == SubSeq(s, 1, Len(s) - n)
           t == Append(rest, a)
<1>1. /\ rest \in Seq(A) /\ Len(rest) = Len(s) - n
      /\ \A i \in 1 .. Len(s) - n : rest[i] = s[i]
  BY BelowIs
<1> HIDE DEF rest
<1>2. /\ t \in Seq(A) /\ Len(t) = Len(rest) + 1
      /\ \A i \in 1 .. Len(rest) : t[i] = rest[i]
      /\ t[Len(rest) + 1] = a
  BY <1>1, AppendProperties
<1> HIDE DEF t
<1>3. /\ t \in Seq(A) /\ Len(t) = Len(s) - n + 1
      /\ \A i \in 1 .. Len(s) - n : t[i] = s[i]
      /\ t[Len(s) - n + 1] = a
  BY <1>1, <1>2
<1> QED
  BY <1>3 DEF t, rest

-----------------------------------------------------------------------------
(* A stack of kinds fitted to a memory.                                     *)

(* A variable that lends a value has it.                                    *)
Backed(k, b, frs, glo) ==
  \/ b = Inline
  \/ \E x \in k.from : x \in DOMAIN glo /\ glo[x] = b
  \/ \E x \in k.from : \E j \in 1 .. k.upto :
       j \in DOMAIN frs /\ x \in DOMAIN frs[j] /\ frs[j][x] = b

FitsValue(k, d, frs, glo) ==
  /\ k.owned <=> d.owned
  /\ k.from # {} => k.upto > 0 /\ Backed(k, d.buffer, frs, glo)

FitsValues(S, ops, frs, glo) ==
  \A i \in 1 .. Len(ops) : FitsValue(S.values[i], ops[i], frs, glo)

Emptied(frs, glo) ==
  /\ \A i \in DOMAIN frs : \A x \in DOMAIN frs[i] : frs[i][x] = Inline
  /\ \A x \in DOMAIN glo : glo[x] = Inline

Shaped(ops, frs, glo) ==
  ops \in Seq(Descriptors) /\ frs \in Seq(Slots) /\ glo \in [DOMAIN glo -> Nat]

(* The invariant of a run, but for the code it has left.                    *)
Sound(S, ops, frs, sav, glo, L) ==
  /\ WellFormed(S) /\ Shaped(ops, frs, glo) /\ Ledger(ops, frs, glo, L)
  /\ S.height = Len(ops) /\ S.scopes = Len(frs) /\ S.callers = sav
  /\ FitsValues(S, ops, frs, glo)
  /\ S.clean => Emptied(frs, glo)

(* What Sound says of the sequences of a memory, for lengths and elements.  *)
LEMMA SoundFacts ==
  ASSUME NEW S, NEW ops, NEW frs, NEW sav, NEW glo, NEW L, Sound(S, ops, frs, sav, glo, L)
  PROVE  /\ Len(ops) \in Nat /\ DOMAIN ops = 1 .. Len(ops)
         /\ Len(frs) \in Nat \ {0} /\ DOMAIN frs = 1 .. Len(frs)
         /\ L \subseteq Nat \ {Inline}
         /\ \A i \in 1 .. Len(ops) : ops[i] \in Descriptors /\ S.values[i] \in Kind
         /\ \A i \in 1 .. Len(frs) : frs[i] \in Slots
<1>1. ops \in Seq(Descriptors) /\ frs \in Seq(Slots) /\ S.height = Len(ops) /\ S.scopes = Len(frs)
  BY DEF Sound, Shaped
<1>2. S.height \in Nat /\ S.scopes \in Nat \ {0} /\ S.values \in [1 .. S.height -> Kind]
  BY DEF Sound, WellFormed
<1>3. L \subseteq Nat \ {Inline}
  BY DEF Sound, Ledger, Account
<1>4. DOMAIN ops = 1 .. Len(ops) /\ DOMAIN frs = 1 .. Len(frs)
  BY <1>1, LenProperties
<1>5. \A i \in 1 .. Len(ops) : ops[i] \in Descriptors /\ S.values[i] \in Kind
  BY <1>1, <1>2, ElementOfSeq
<1>6. \A i \in 1 .. Len(frs) : frs[i] \in Slots
  BY <1>1, ElementOfSeq
<1> QED
  BY <1>1, <1>2, <1>3, <1>4, <1>5, <1>6

(* What is owned, or lent by a variable that has it, is allocated.          *)
LEMMA ReadableIsLive ==
  ASSUME NEW S, NEW ops, NEW frs, NEW sav, NEW glo, NEW L, Sound(S, ops, frs, sav, glo, L),
         NEW i \in 1 .. Len(ops), Readable(S.values[i])
  PROVE  ops[i].buffer = Inline \/ ops[i].buffer \in L
<1> DEFINE P == Holders(ops, frs, glo)
           h == Holding(ops, frs, glo)
<1>1. OwnerMap(P, h, ops, frs, glo) /\ \A o \in P : h[o] = Inline \/ h[o] \in L
  BY HoldersAre DEF Sound, Ledger, Account
<1>2. i \in DOMAIN ops /\ FitsValue(S.values[i], ops[i], frs, glo)
  BY SoundFacts DEF Sound, FitsValues
<1> HIDE DEF P, h
<1>3. CASE S.values[i].owned
  <2>1. ops[i].owned
    BY <1>2, <1>3 DEF FitsValue
  <2> QED
    BY <1>1, <1>2, <2>1 DEF OwnerMap
<1>4. CASE S.values[i].from # {}
  <2>1. Backed(S.values[i], ops[i].buffer, frs, glo)
    BY <1>2, <1>4 DEF FitsValue
  <2> QED
    BY <1>1, <2>1 DEF OwnerMap, Backed
<1> QED
  BY <1>3, <1>4 DEF Readable

-----------------------------------------------------------------------------
(* What the items do to the stack they do to the memory.                    *)

(* A stack and values that changed alike, with an account of what is        *)
(* allocated now.                                                           *)
LEMMA Resound ==
  ASSUME NEW S, NEW ops, NEW frs, NEW sav, NEW glo, NEW L, Sound(S, ops, frs, sav, glo, L),
         NEW T, WellFormed(T), T.scopes = S.scopes, T.callers = S.callers, T.clean = S.clean,
         NEW now \in Seq(Descriptors), T.height = Len(now), FitsValues(T, now, frs, glo),
         NEW M, Ledger(now, frs, glo, M)
  PROVE  Sound(T, now, frs, sav, glo, M)
BY DEF Sound, Shaped

(* The newest n values go, and what they own is freed.                      *)
LEMMA PopStep ==
  ASSUME NEW S, NEW ops, NEW frs, NEW sav, NEW glo, NEW L, Sound(S, ops, frs, sav, glo, L),
         NEW n \in 0 .. Len(ops)
  PROVE  Sound(Popped(S, n), SubSeq(ops, 1, Len(ops) - n), frs, sav, glo, L \ Released(ops, n))
<1> DEFINE T == Popped(S, n)
           now == SubSeq(ops, 1, Len(ops) - n)
<1>1. /\ WellFormed(S) /\ ops \in Seq(Descriptors) /\ Ledger(ops, frs, glo, L)
      /\ S.height = Len(ops) /\ FitsValues(S, ops, frs, glo) /\ Len(ops) \in Nat
  BY SoundFacts DEF Sound, Shaped
<1>2. /\ now \in Seq(Descriptors) /\ Len(now) = Len(ops) - n
      /\ \A i \in 1 .. Len(ops) - n : now[i] = ops[i]
  BY <1>1, BelowIs
<1>3. /\ WellFormed(T) /\ T.height = S.height - n /\ T.scopes = S.scopes
      /\ T.callers = S.callers /\ T.clean = S.clean
      /\ \A i \in 1 .. S.height - n : T.values[i] = S.values[i]
  BY <1>1, PoppedFields
<1> HIDE DEF T, now
<1>4. Ledger(now, frs, glo, L \ Released(ops, n))
  BY <1>1, <1>2, LedgerPops
<1>5. FitsValues(T, now, frs, glo)
  BY <1>1, <1>2, <1>3 DEF FitsValues
<1>6. Sound(T, now, frs, sav, glo, L \ Released(ops, n))
  BY <1>1, <1>2, <1>3, <1>4, <1>5, Resound
<1> QED
  BY <1>6 DEF T, now

(* A value comes, in a buffer of its own.                                   *)
LEMMA PushStep ==
  ASSUME NEW S, NEW ops, NEW frs, NEW sav, NEW glo, NEW L, Sound(S, ops, frs, sav, glo, L),
         NEW made \in Nat, made \notin L
  PROVE  Sound(Pushed(S, Mine), Append(ops, Descriptor(made, TRUE)), frs, sav, glo,
               (L \cup {made}) \ {Inline})
<1> DEFINE T == Pushed(S, Mine)
           d == Descriptor(made, TRUE)
           now == Append(ops, d)
<1>1. /\ WellFormed(S) /\ ops \in Seq(Descriptors) /\ Ledger(ops, frs, glo, L)
      /\ S.height = Len(ops) /\ FitsValues(S, ops, frs, glo) /\ Len(ops) \in Nat
      /\ S.scopes \in Nat
  BY SoundFacts DEF Sound, Shaped, WellFormed
<1>2. d \in Descriptors /\ d.owned /\ d.buffer = made
  BY DEF Descriptor, Descriptors
<1> HIDE DEF d
<1>3. /\ now \in Seq(Descriptors) /\ Len(now) = Len(ops) + 1
      /\ \A i \in 1 .. Len(ops) : now[i] = ops[i]
      /\ now[Len(ops) + 1] = d
  BY <1>1, <1>2, AppendProperties
<1>4. /\ WellFormed(T) /\ T.height = S.height + 1 /\ T.scopes = S.scopes
      /\ T.callers = S.callers /\ T.clean = S.clean
      /\ \A i \in 1 .. S.height : T.values[i] = S.values[i]
      /\ T.values[S.height + 1] = Mine
  <2>1. Fitting(Mine, S.scopes)
    BY <1>1, FittingKinds
  <2> QED
    BY <1>1, <2>1, PushedFields
<1> HIDE DEF T, now
<1>5. Ledger(now, frs, glo, (L \cup {made}) \ {Inline})
  BY <1>1, <1>2, <1>3, LedgerPushes
<1>6. FitsValue(Mine, d, frs, glo)
  BY <1>2 DEF FitsValue, Mine
<1>7. FitsValues(T, now, frs, glo)
  BY <1>1, <1>3, <1>4, <1>6 DEF FitsValues
<1>8. Sound(T, now, frs, sav, glo, (L \cup {made}) \ {Inline})
  BY <1>1, <1>3, <1>4, <1>5, <1>7, Resound
<1> QED
  BY <1>8 DEF T, now, d

(* A value comes that its variable lends.                                   *)
LEMMA LendStep ==
  ASSUME NEW S, NEW ops, NEW frs, NEW sav, NEW glo, NEW L, Sound(S, ops, frs, sav, glo, L),
         NEW b \in Nat, NEW k, Fitting(k, S.scopes), FitsValue(k, Descriptor(b, FALSE), frs, glo)
  PROVE  Sound(Pushed(S, k), Append(ops, Descriptor(b, FALSE)), frs, sav, glo, L)
<1> DEFINE T == Pushed(S, k)
           d == Descriptor(b, FALSE)
           now == Append(ops, d)
<1>1. /\ WellFormed(S) /\ ops \in Seq(Descriptors) /\ Ledger(ops, frs, glo, L)
      /\ S.height = Len(ops) /\ FitsValues(S, ops, frs, glo) /\ Len(ops) \in Nat
  BY SoundFacts DEF Sound, Shaped
<1>2. d \in Descriptors /\ ~d.owned
  BY DEF Descriptor, Descriptors
<1>3. FitsValue(k, d, frs, glo)
  OBVIOUS
<1> HIDE DEF d
<1>4. /\ now \in Seq(Descriptors) /\ Len(now) = Len(ops) + 1
      /\ \A i \in 1 .. Len(ops) : now[i] = ops[i]
      /\ now[Len(ops) + 1] = d
  BY <1>1, <1>2, AppendProperties
<1>5. /\ WellFormed(T) /\ T.height = S.height + 1 /\ T.scopes = S.scopes
      /\ T.callers = S.callers /\ T.clean = S.clean
      /\ \A i \in 1 .. S.height : T.values[i] = S.values[i]
      /\ T.values[S.height + 1] = k
  BY <1>1, PushedFields
<1> HIDE DEF T, now
<1>6. Ledger(now, frs, glo, L)
  BY <1>1, <1>2, <1>4, LedgerLends
<1>7. FitsValues(T, now, frs, glo)
  BY <1>1, <1>3, <1>4, <1>5 DEF FitsValues
<1>8. Sound(T, now, frs, sav, glo, L)
  BY <1>1, <1>4, <1>5, <1>6, <1>7, Resound
<1> QED
  BY <1>8 DEF T, now, d

(* A stack of the same values is well formed where its scopes and calls are *)
(* nested.                                                                  *)
LEMMA Rescoped ==
  ASSUME NEW S, NEW ops, NEW frs, NEW sav, NEW glo, NEW L, Sound(S, ops, frs, sav, glo, L),
         NEW T, WellFormed(T), T.height = S.height, T.values = S.values, T.clean = S.clean,
         NEW more \in Seq(Slots), T.scopes = Len(more), NEW calls, T.callers = calls,
         FitsValues(S, ops, more, glo), Emptied(frs, glo) => Emptied(more, glo),
         NEW M, Ledger(ops, more, glo, M)
  PROVE  Sound(T, ops, more, calls, glo, M)
<1>1. FitsValues(T, ops, more, glo)
  BY DEF FitsValues
<1> QED
  BY <1>1 DEF Sound, Shaped

(* The empty function is a scope without slots.                             *)
LEMMA NoSlots ==
  <<>> \in Slots /\ DOMAIN <<>> = {}
<1>1. <<>> \in Seq(Nat) /\ Len(<<>>) = 0
  BY EmptySeq
<1>2. DOMAIN <<>> = 1 .. 0 /\ <<>> \in [1 .. 0 -> Nat]
  BY <1>1, LenProperties
<1>3. 1 .. 0 = {}
  OBVIOUS
<1>4. {} \in SUBSET Symbol
  OBVIOUS
<1> QED
  BY <1>2, <1>3, <1>4 DEF Slots

(* A scope opens.                                                           *)
LEMMA OpenStep ==
  ASSUME NEW S, NEW ops, NEW frs, NEW sav, NEW glo, NEW L, Sound(S, ops, frs, sav, glo, L)
  PROVE  Sound(State(S.height, S.values, S.scopes + 1, S.callers, S.clean), ops,
               Append(frs, <<>>), sav, glo, L)
<1> DEFINE T == State(S.height, S.values, S.scopes + 1, S.callers, S.clean)
           more == Append(frs, <<>>)
<1>1. /\ WellFormed(S) /\ frs \in Seq(Slots) /\ Ledger(ops, frs, glo, L) /\ S.callers = sav
      /\ S.scopes = Len(frs) /\ FitsValues(S, ops, frs, glo) /\ Len(frs) \in Nat
  BY SoundFacts DEF Sound, Shaped
<1>2. /\ WellFormed(T) /\ T.height = S.height /\ T.values = S.values
      /\ T.scopes = S.scopes + 1 /\ T.callers = S.callers /\ T.clean = S.clean
  BY <1>1, ScopeFields
<1>3. /\ more \in Seq(Slots) /\ Len(more) = Len(frs) + 1
      /\ \A i \in 1 .. Len(frs) : more[i] = frs[i]
      /\ DOMAIN more[Len(frs) + 1] = {}
  BY <1>1, NoSlots, AppendProperties
<1>4. DOMAIN frs = 1 .. Len(frs) /\ DOMAIN more = 1 .. Len(frs) + 1
  BY <1>1, <1>3, LenProperties
<1> HIDE DEF T, more
<1>5. Ledger(ops, more, glo, L)
  BY <1>1, <1>3, LedgerOpens
<1>6. \A k, b : Backed(k, b, frs, glo) => Backed(k, b, more, glo)
  BY <1>1, <1>3, <1>4 DEF Backed
<1>7. FitsValues(S, ops, more, glo)
  BY <1>1, <1>6 DEF FitsValues, FitsValue
<1>8. Emptied(frs, glo) => Emptied(more, glo)
  <2>1. ASSUME NEW i \in DOMAIN more, NEW x \in DOMAIN more[i]
        PROVE  i \in DOMAIN frs /\ more[i] = frs[i]
    BY <1>1, <1>3, <1>4
  <2> QED
    BY <2>1 DEF Emptied
<1>9. Sound(T, ops, more, sav, glo, L)
  BY <1>1, <1>2, <1>3, <1>5, <1>7, <1>8, Rescoped
<1> QED
  BY <1>9 DEF T, more

(* A scope closes, and what its slots hold is freed; nothing is lent by it. *)
LEMMA CloseStep ==
  ASSUME NEW S, NEW ops, NEW frs, NEW sav, NEW glo, NEW L, Sound(S, ops, frs, sav, glo, L),
         NEW T, WellFormed(T), LeadsClose(S, T)
  PROVE  Sound(T, ops, Front(frs), sav, glo, L \ Buffers(frs[Len(frs)]))
<1> DEFINE rest == Front(frs)
           one == 1
<1>1. /\ WellFormed(S) /\ frs \in Seq(Slots) /\ Ledger(ops, frs, glo, L) /\ S.callers = sav
      /\ S.scopes = Len(frs) /\ FitsValues(S, ops, frs, glo) /\ Len(frs) \in Nat \ {0}
      /\ S.height = Len(ops)
  BY SoundFacts DEF Sound, Shaped
<1>2. /\ T.height = S.height /\ T.values = S.values
      /\ T.scopes = S.scopes - 1 /\ T.callers = S.callers /\ T.clean = S.clean
      /\ \A i \in 1 .. S.height : S.values[i].upto < S.scopes
  BY StateFields DEF LeadsClose
<1>3. /\ rest \in Seq(Slots) /\ Len(rest) = Len(frs) - 1
      /\ \A i \in 1 .. Len(frs) - 1 : rest[i] = frs[i]
  <2>1. one \in 0 .. Len(frs)
    BY <1>1
  <2> HIDE DEF one
  <2>2. LET s == SubSeq(frs, 1, Len(frs) - one) IN
        /\ s \in Seq(Slots) /\ Len(s) = Len(frs) - one
        /\ \A i \in 1 .. Len(frs) - one : s[i] = frs[i]
    BY <1>1, <2>1, BelowIs
  <2> QED
    BY <2>2 DEF Front, one
<1>4. DOMAIN frs = 1 .. Len(frs) /\ DOMAIN rest = 1 .. Len(frs) - 1
  BY <1>1, <1>3, LenProperties
<1> HIDE DEF rest
<1>5. Ledger(ops, rest, glo, L \ Buffers(frs[Len(frs)]))
  BY <1>1, <1>3, LedgerCloses
<1>6. ASSUME NEW i \in 1 .. Len(ops), NEW b, Backed(S.values[i], b, frs, glo)
      PROVE  Backed(S.values[i], b, rest, glo)
  <2>1. /\ S.values[i].upto \in Nat /\ S.values[i].upto < Len(frs)
    BY <1>1, <1>2 DEF WellFormed, Kind
  <2>2. \A j \in 1 .. S.values[i].upto : j \in DOMAIN rest /\ rest[j] = frs[j]
    BY <1>1, <1>3, <1>4, <2>1
  <2> QED
    BY <1>6, <2>2 DEF Backed
<1>7. FitsValues(S, ops, rest, glo)
  BY <1>1, <1>6 DEF FitsValues, FitsValue
<1>8. Emptied(frs, glo) => Emptied(rest, glo)
  BY <1>1, <1>3, <1>4 DEF Emptied
<1>9. Sound(T, ops, rest, sav, glo, L \ Buffers(frs[Len(frs)]))
  BY <1>1, <1>2, <1>3, <1>5, <1>7, <1>8, Rescoped
<1> QED
  BY <1>9 DEF rest

(* A call is made, or over.                                                 *)
LEMMA CallStep ==
  ASSUME NEW S, NEW ops, NEW frs, NEW sav, NEW glo, NEW L, Sound(S, ops, frs, sav, glo, L),
         NEW calls, NEW T, T = State(S.height, S.values, S.scopes, calls, S.clean), WellFormed(T)
  PROVE  Sound(T, ops, frs, calls, glo, L)
<1>1. /\ T.height = S.height /\ T.values = S.values
      /\ T.scopes = S.scopes /\ T.callers = calls /\ T.clean = S.clean
  BY StateFields
<1>2. /\ frs \in Seq(Slots) /\ Ledger(ops, frs, glo, L) /\ S.scopes = Len(frs)
      /\ FitsValues(S, ops, frs, glo)
  BY DEF Sound, Shaped
<1> QED
  BY <1>1, <1>2, Rescoped

(* The end of the program: what all slots hold is freed.                    *)
LEMMA LedgerFinishes ==
  ASSUME NEW ops, NEW frs, NEW glo, NEW L, Ledger(ops, frs, glo, L),
         NEW more, DOMAIN more = DOMAIN frs,
         \A i \in DOMAIN frs : DOMAIN more[i] = DOMAIN frs[i],
         NEW now, DOMAIN now = DOMAIN glo, Emptied(more, now), NEW gone,
         \A b : b \in gone <=> \/ \E i \in DOMAIN frs : b \in Buffers(frs[i])
                               \/ b \in Buffers(glo)
  PROVE  Ledger(ops, more, now, L \ gone)
<1> DEFINE P == Holders(ops, frs, glo)
           h == Holding(ops, frs, glo)
           Q == Holders(ops, more, now)
           g == Holding(ops, more, now)
           slots == UNION {{SlotOwner(i, x) : x \in DOMAIN frs[i]} : i \in DOMAIN frs}
           K == slots \cup {GlobalOwner(x) : x \in DOMAIN glo}
<1>1. OwnerMap(P, h, ops, frs, glo) /\ OwnerMap(Q, g, ops, more, now)
  BY HoldersAre
<1>2. Account(P, h, L)
  BY DEF Ledger
<1> HIDE DEF P, h, Q, g
<1>3. \A o : o \in slots <=> \E i \in DOMAIN frs : \E x \in DOMAIN frs[i] : o = SlotOwner(i, x)
  OBVIOUS
<1> HIDE DEF slots
<1>4. \A o : o \in K <=> \/ \E i \in DOMAIN frs : \E x \in DOMAIN frs[i] : o = SlotOwner(i, x)
                         \/ \E x \in DOMAIN glo : o = GlobalOwner(x)
  BY <1>3
<1> HIDE DEF K
<1>5. K \subseteq P
  BY <1>1, <1>4 DEF OwnerMap
<1>6. {h[o] : o \in K} = gone
  <2>1. ASSUME NEW o \in K
        PROVE  h[o] \in gone
    BY <1>1, <1>4 DEF OwnerMap, Buffers
  <2>2. ASSUME NEW b \in gone
        PROVE  \E o \in K : h[o] = b
    <3>1. CASE \E i \in DOMAIN frs : b \in Buffers(frs[i])
      <4>1. PICK i \in DOMAIN frs : \E x \in DOMAIN frs[i] : frs[i][x] = b
        BY <3>1 DEF Buffers
      <4>2. PICK x \in DOMAIN frs[i] : frs[i][x] = b
        BY <4>1
      <4> QED
        BY <1>1, <1>4, <4>2 DEF OwnerMap
    <3>2. CASE b \in Buffers(glo)
      <4>1. PICK x \in DOMAIN glo : glo[x] = b
        BY <3>2 DEF Buffers
      <4> QED
        BY <1>1, <1>4, <4>1 DEF OwnerMap
    <3> QED
      BY <3>1, <3>2
  <2> QED
    BY <2>1, <2>2
<1>7. ASSUME NEW o \in Q
      PROVE  g[o] = Inline \/ (o \in P \ K /\ g[o] = h[o])
  BY <1>1, <1>4, HolderNames DEF OwnerMap, Emptied
<1>8. ASSUME NEW o \in P \ K
      PROVE  o \in Q /\ g[o] = h[o]
  BY <1>1, <1>4 DEF OwnerMap
<1>9. Account(Q, g, L \ {h[o] : o \in K})
  BY <1>2, <1>5, <1>7, <1>8, AccountLoses
<1> QED
  BY <1>6, <1>9 DEF Ledger, Q, g

(* An error: only what the globals hold still has an owner.                 *)
LEMMA LedgerFails ==
  ASSUME NEW ops, NEW frs, NEW glo, NEW L, Ledger(ops, frs, glo, L),
         NEW none, DOMAIN none = {}, NEW more, \A i \in DOMAIN more : DOMAIN more[i] = {}
  PROVE  Ledger(none, more, glo, L \cap Buffers(glo))
<1> DEFINE P == Holders(ops, frs, glo)
           h == Holding(ops, frs, glo)
           Q == Holders(none, more, glo)
           g == Holding(none, more, glo)
           K == {o \in P : ~ \E x \in DOMAIN glo : o = GlobalOwner(x)}
<1>1. OwnerMap(P, h, ops, frs, glo) /\ OwnerMap(Q, g, none, more, glo)
  BY HoldersAre
<1>2. Account(P, h, L)
  BY DEF Ledger
<1> HIDE DEF P, h, Q, g
<1>3. \A o \in Q : \E x \in DOMAIN glo : o = GlobalOwner(x)
  BY <1>1 DEF OwnerMap
<1>4. \A o \in Q : o \in P \ K /\ g[o] = h[o]
  BY <1>1, <1>3 DEF OwnerMap
<1>5. \A o \in P \ K : o \in Q /\ g[o] = h[o]
  BY <1>1 DEF OwnerMap
<1>6. K \subseteq P /\ \A o \in P : o \in K \/ \E x \in DOMAIN glo : o = GlobalOwner(x)
  OBVIOUS
<1>7. \A o \in K, x \in DOMAIN glo : o # GlobalOwner(x)
  OBVIOUS
<1> HIDE DEF K
<1>8. Account(Q, g, L \ {h[o] : o \in K})
  BY <1>2, <1>4, <1>5, <1>6, AccountLoses
<1>9. L \ {h[o] : o \in K} = L \cap Buffers(glo)
  <2>1. ASSUME NEW b \in L, b \in Buffers(glo)
        PROVE  ~ \E o \in K : h[o] = b
    <3>1. PICK x \in DOMAIN glo : glo[x] = b
      BY <2>1 DEF Buffers
    <3>2. GlobalOwner(x) \in P /\ h[GlobalOwner(x)] = b
      BY <1>1, <3>1 DEF OwnerMap
    <3>3. b # Inline
      BY <1>2 DEF Account
    <3> QED
      BY <1>2, <1>6, <1>7, <3>2, <3>3 DEF Account
  <2>2. ASSUME NEW b \in L, ~ \E o \in K : h[o] = b
        PROVE  b \in Buffers(glo)
    <3>1. PICK o \in P : h[o] = b
      BY <1>2 DEF Account
    <3>2. PICK x \in DOMAIN glo : o = GlobalOwner(x)
      BY <1>6, <2>2, <3>1
    <3>3. glo[x] = b
      BY <1>1, <3>1, <3>2 DEF OwnerMap
    <3> QED
      BY <3>3 DEF Buffers
  <2> QED
    BY <2>1, <2>2
<1> QED
  BY <1>8, <1>9 DEF Ledger, Q, g

(* Slots that hold nothing may go.                                          *)
LEMMA LedgerRestarts ==
  ASSUME NEW ops, NEW frs, NEW glo, NEW L, Ledger(ops, frs, glo, L), DOMAIN ops = {},
         NEW none, DOMAIN none = {}, NEW more, \A i \in DOMAIN more : DOMAIN more[i] = {},
         \A i \in DOMAIN frs : \A x \in DOMAIN frs[i] : frs[i][x] = Inline
  PROVE  Ledger(none, more, glo, L)
<1> DEFINE P == Holders(ops, frs, glo)
           h == Holding(ops, frs, glo)
           Q == Holders(none, more, glo)
           g == Holding(none, more, glo)
<1>1. OwnerMap(P, h, ops, frs, glo) /\ OwnerMap(Q, g, none, more, glo)
  BY HoldersAre
<1>2. Account(P, h, L)
  BY DEF Ledger
<1> HIDE DEF P, h, Q, g
<1>3. \A o \in Q : o \in P /\ g[o] = h[o]
  BY <1>1 DEF OwnerMap
<1>4. \A o \in P : h[o] = Inline \/ (o \in Q /\ g[o] = h[o])
  BY <1>1 DEF OwnerMap
<1>5. Account(Q, g, L)
  BY <1>2, <1>3, <1>4, AccountStays
<1> QED
  BY <1>5 DEF Ledger, Q, g

(* A memory with one empty scope.                                           *)
LEMMA OneScope ==
  /\ <<<<>>>> \in Seq(Slots) /\ Len(<<<<>>>>) = 1
  /\ \A i \in DOMAIN <<<<>>>> : DOMAIN <<<<>>>>[i] = {}
<1>1. <<>> \in Slots /\ DOMAIN <<>> = {}
  BY NoSlots
<1> DEFINE none == <<>>
<1> HIDE DEF none
<1>2. <<none>> \in Seq({none}) /\ Len(<<none>>) = 1 /\ <<none>>[1] = none
  OBVIOUS
<1>3. DOMAIN <<none>> = 1 .. 1
  BY <1>2, LenProperties
<1>4. \A i \in DOMAIN <<none>> : i = 1
  BY <1>3
<1>5. none \in Slots /\ DOMAIN none = {}
  BY <1>1 DEF none
<1>6. <<none>> \in Seq(Slots)
  BY <1>2, <1>5, SeqMonotonic
<1>7. \A i \in DOMAIN <<none>> : DOMAIN <<none>>[i] = {}
  BY <1>2, <1>4, <1>5
<1> QED
  BY <1>2, <1>6, <1>7 DEF none

(* A run begins.                                                            *)
LEMMA StartStep ==
  ASSUME NEW glo, glo \in [DOMAIN glo -> Nat], NEW L, Ledger(<<>>, <<<<>>>>, glo, L)
  PROVE  Sound(Start, <<>>, <<<<>>>>, <<>>, glo, L)
<1>1. <<>> \in Seq(Descriptors) /\ Len(<<>>) = 0
  BY EmptySeq
<1>2. Shaped(<<>>, <<<<>>>>, glo)
  BY <1>1, OneScope DEF Shaped
<1>3. FitsValues(Start, <<>>, <<<<>>>>, glo)
  BY <1>1 DEF FitsValues
<1>4. Start.height = Len(<<>>) /\ Start.scopes = Len(<<<<>>>>)
  BY <1>1, OneScope, Starting
<1> QED
  BY <1>2, <1>3, <1>4, Starting DEF Sound

(* A run begins where the last one ended with a value.                      *)
LEMMA RestartStep ==
  ASSUME NEW S, NEW ops, NEW frs, NEW sav, NEW glo, NEW L, Sound(S, ops, frs, sav, glo, L),
         Ended(S)
  PROVE  Sound(Start, <<>>, <<<<>>>>, <<>>, glo, L)
<1>1. /\ Ledger(ops, frs, glo, L) /\ glo \in [DOMAIN glo -> Nat]
      /\ DOMAIN ops = 1 .. Len(ops) /\ Len(ops) = 0 /\ Emptied(frs, glo)
  BY SoundFacts DEF Sound, Shaped, Ended
<1>2. DOMAIN ops = {} /\ DOMAIN <<>> = {}
  BY <1>1, NoSlots
<1>3. \A i \in DOMAIN frs : \A x \in DOMAIN frs[i] : frs[i][x] = Inline
  BY <1>1 DEF Emptied
<1>4. Ledger(<<>>, <<<<>>>>, glo, L)
  BY <1>1, <1>2, <1>3, OneScope, LedgerRestarts
<1> QED
  BY <1>1, <1>4, StartStep

(* An error: only what the globals hold stays in the account.               *)
LEMMA FailStep ==
  ASSUME NEW S, NEW ops, NEW frs, NEW sav, NEW glo, NEW L, Sound(S, ops, frs, sav, glo, L)
  PROVE  Sound(Start, <<>>, <<<<>>>>, <<>>, glo, L \cap Buffers(glo))
<1>1. Ledger(ops, frs, glo, L) /\ glo \in [DOMAIN glo -> Nat]
  BY DEF Sound, Shaped
<1>2. Ledger(<<>>, <<<<>>>>, glo, L \cap Buffers(glo))
  BY <1>1, NoSlots, OneScope, LedgerFails
<1> QED
  BY <1>1, <1>2, StartStep

(* The slots are emptied.                                                   *)
LEMMA FinishStep ==
  ASSUME NEW S, NEW ops, NEW frs, NEW sav, NEW glo, NEW L, Sound(S, ops, frs, sav, glo, L),
         NEW T, WellFormed(T), LeadsFinish(S, T), NEW more \in Seq(Slots), Len(more) = 1,
         DOMAIN more[1] = DOMAIN frs[1], NEW now \in [DOMAIN glo -> Nat], Emptied(more, now)
  PROVE  Sound(T, ops, more, sav, now, L \ (Buffers(frs[1]) \cup Buffers(glo)))
<1> DEFINE gone == Buffers(frs[1]) \cup Buffers(glo)
<1>1. /\ S.scopes = 1 /\ T.height = S.height /\ T.values = S.values /\ T.scopes = S.scopes
      /\ T.callers = S.callers
      /\ \A i \in 1 .. S.height : S.values[i].from = {}
  BY DEF LeadsFinish, State
<1>2. /\ S.height = Len(ops) /\ S.scopes = Len(frs) /\ S.callers = sav
      /\ FitsValues(S, ops, frs, glo)
      /\ Ledger(ops, frs, glo, L) /\ ops \in Seq(Descriptors) /\ DOMAIN frs = 1 .. Len(frs)
  BY SoundFacts DEF Sound, Shaped
<1>3. DOMAIN more = 1 .. 1 /\ DOMAIN frs = 1 .. 1
  BY <1>1, <1>2, LenProperties
<1>4. \A i : i \in DOMAIN more <=> i = 1
  BY <1>3
<1>5. \A i : i \in DOMAIN frs <=> i = 1
  BY <1>3
<1>6. \A b : b \in gone <=> \/ \E i \in DOMAIN frs : b \in Buffers(frs[i])
                            \/ b \in Buffers(glo)
  BY <1>5
<1> HIDE DEF gone
<1>7. Ledger(ops, more, now, L \ gone)
  <2>1. DOMAIN more = DOMAIN frs /\ DOMAIN now = DOMAIN glo
    BY <1>3
  <2>2. \A i \in DOMAIN frs : DOMAIN more[i] = DOMAIN frs[i]
    BY <1>5
  <2> QED
    BY <1>2, <1>6, <2>1, <2>2, LedgerFinishes
<1>8. FitsValues(T, ops, more, now)
  BY <1>1, <1>2 DEF FitsValues, FitsValue
<1>9. Sound(T, ops, more, sav, now, L \ gone)
  BY <1>1, <1>2, <1>7, <1>8 DEF Sound, Shaped
<1> QED
  BY <1>9 DEF gone

(* The host has the result: the only owned value.                           *)
LEMMA HostStep ==
  ASSUME NEW S, NEW ops, NEW frs, NEW sav, NEW glo, NEW L, Sound(S, ops, frs, sav, glo, L),
         NEW T, WellFormed(T), LeadsHost(S, T)
  PROVE  /\ Len(ops) > 0 /\ ops[Len(ops)].owned
         /\ Sound(T, <<>>, frs, sav, glo, L \ {ops[Len(ops)].buffer})
<1> DEFINE n == Len(ops)
           U == Popped(S, n)
<1>1. /\ S.height > 0 /\ S.values[S.height] = Mine
      /\ \A i \in 1 .. S.height - 1 : ~S.values[i].owned
  BY DEF LeadsHost
<1>2. /\ T.height = 0 /\ T.scopes = S.scopes /\ T.callers = S.callers /\ T.clean = S.clean
  BY DEF LeadsHost, State
<1>3. /\ WellFormed(S) /\ S.height = n /\ n \in Nat /\ FitsValues(S, ops, frs, glo)
      /\ ops \in Seq(Descriptors)
  BY SoundFacts DEF Sound, Shaped
<1>4. n \in 0 .. Len(ops) /\ n > 0 /\ n \in 1 .. n
  BY <1>1, <1>3
<1>5. Sound(U, SubSeq(ops, 1, Len(ops) - n), frs, sav, glo, L \ Released(ops, n))
  <2> HIDE DEF n, U
  <2> QED
    BY <1>4, PopStep DEF U
<1>6. /\ WellFormed(U) /\ U.height = S.height - n /\ U.scopes = S.scopes
      /\ U.callers = S.callers /\ U.clean = S.clean
  <2> HIDE DEF n, U
  <2>1. n \in 0 .. S.height
    BY <1>3, <1>4
  <2> QED
    BY <1>3, <2>1, PoppedFields DEF U
<1> HIDE DEF U
<1>7. U = T
  <2>1. U.height = 0
    BY <1>3, <1>6
  <2> QED
    BY <1>2, <1>6, <2>1, SameState
<1>8. SubSeq(ops, 1, Len(ops) - n) = <<>>
  <2>1. LET s == SubSeq(ops, 1, Len(ops) - n) IN s \in Seq(Descriptors) /\ Len(s) = Len(ops) - n
    <3> HIDE DEF n
    <3> QED
      BY <1>3, <1>4, BelowIs
  <2> DEFINE s == SubSeq(ops, 1, Len(ops) - n)
  <2>2. s \in Seq(Descriptors) /\ Len(s) = 0
    BY <1>3, <2>1
  <2> HIDE DEF s
  <2>3. s = <<>>
    BY <2>2, EmptySeq
  <2> QED
    BY <2>3 DEF s
<1>9. ops[n].owned /\ \A i \in 1 .. n - 1 : ~ops[i].owned
  <2>1. \A i \in 1 .. n : S.values[i].owned <=> ops[i].owned
    BY <1>3 DEF FitsValues, FitsValue
  <2>2. S.values[n].owned
    BY <1>1, <1>3 DEF Mine
  <2> HIDE DEF n
  <2> QED
    BY <1>1, <1>3, <1>4, <2>1, <2>2
<1>10. Released(ops, n) = {ops[n].buffer}
  <2> DEFINE top == {j \in Len(ops) - n + 1 .. Len(ops) : ops[j].owned}
  <2>1. \A j : j \in Len(ops) - n + 1 .. Len(ops) <=> j \in 1 .. n
    BY <1>3
  <2>2. \A j \in 1 .. n : j # n => j \in 1 .. n - 1
    BY <1>3
  <2>3. \A j : j \in top <=> j = n
    BY <1>4, <1>9, <2>1, <2>2
  <2> HIDE DEF top
  <2>4. {ops[i].buffer : i \in top} = {ops[n].buffer}
    BY <2>3
  <2> QED
    BY <2>4 DEF top, Released
<1> QED
  BY <1>4, <1>5, <1>7, <1>8, <1>9, <1>10

-----------------------------------------------------------------------------
(* Stores.                                                                  *)

(* The slot of a place, which held `old`, now holds b: in a scope that is   *)
(* not a caller's, or in the globals.                                       *)
StoredLocally(place, floor, frs, glo, more, now, old, b) ==
  /\ now = glo /\ more \in Seq(Slots)
  /\ \E n \in Nat :
       /\ n > floor /\ WithSlot(frs, more, n, place.sym, b)
       /\ old = IF place.sym \in DOMAIN frs[n] THEN frs[n][place.sym] ELSE Inline

StoredGlobally(place, floor, frs, glo, more, now, old, b) ==
  /\ more = frs /\ place.sym \in DOMAIN glo /\ (place.global \/ floor = 0)
  /\ old = glo[place.sym] /\ now = [glo EXCEPT ![place.sym] = b]

Stored(place, floor, frs, glo, more, now, old, b) ==
  \/ StoredLocally(place, floor, frs, glo, more, now, old, b)
  \/ StoredGlobally(place, floor, frs, glo, more, now, old, b)

(* A store keeps the shape of a memory.                                     *)
LEMMA StoredShape ==
  ASSUME NEW ops, NEW frs, NEW glo, Shaped(ops, frs, glo), NEW place, NEW floor, NEW more,
         NEW now, NEW old, NEW b \in Nat, Stored(place, floor, frs, glo, more, now, old, b)
  PROVE  Shaped(ops, more, now) /\ Len(more) = Len(frs) /\ DOMAIN now = DOMAIN glo
<1>1. CASE StoredLocally(place, floor, frs, glo, more, now, old, b)
  <2>1. more \in Seq(Slots) /\ DOMAIN more = DOMAIN frs /\ now = glo
    BY <1>1 DEF StoredLocally, WithSlot
  <2>2. Len(more) = Len(frs)
    BY <2>1, LenProperties DEF Shaped
  <2> QED
    BY <2>1, <2>2 DEF Shaped
<1>2. CASE StoredGlobally(place, floor, frs, glo, more, now, old, b)
  BY <1>2 DEF StoredGlobally, Shaped
<1> QED
  BY <1>1, <1>2 DEF Stored

(* A store changes one owner, which is no value in flight.                  *)
LEMMA StoredChanges ==
  ASSUME NEW ops, NEW frs, NEW glo, NEW place, NEW floor, NEW more, NEW now, NEW old, NEW b,
         Stored(place, floor, frs, glo, more, now, old, b)
  PROVE  LET P == Holders(ops, frs, glo)
             h == Holding(ops, frs, glo)
         IN  \E c : /\ \A i : c # ValueOwner(i)
                    /\ Changes(P, h, Holders(ops, more, now), Holding(ops, more, now), c, b)
                    /\ Before(P, h, c, old)
<1>1. CASE StoredLocally(place, floor, frs, glo, more, now, old, b)
  <2> DEFINE x == place.sym
  <2>1. PICK n \in Nat :
          WithSlot(frs, more, n, x, b) /\ old = IF x \in DOMAIN frs[n] THEN frs[n][x] ELSE Inline
    BY <1>1 DEF StoredLocally
  <2>2. now = glo
    BY <1>1 DEF StoredLocally
  <2> HIDE DEF x
  <2> DEFINE c == SlotOwner(n, x)
             P == Holders(ops, frs, glo)
             h == Holding(ops, frs, glo)
  <2>3. /\ Changes(P, h, Holders(ops, more, glo), Holding(ops, more, glo), c, b)
        /\ Before(P, h, c, old)
    BY <2>1, LocalStore
  <2>4. \A i : c # ValueOwner(i)
    BY HolderNames
  <2> HIDE DEF c, P, h
  <2> QED
    BY <2>2, <2>3, <2>4 DEF P, h
<1>2. CASE StoredGlobally(place, floor, frs, glo, more, now, old, b)
  <2> DEFINE x == place.sym
  <2>1. /\ more = frs /\ x \in DOMAIN glo /\ old = glo[x] /\ now = [glo EXCEPT ![x] = b]
    BY <1>2 DEF StoredGlobally
  <2> HIDE DEF x
  <2> QED
    BY <2>1, GlobalStore, HolderNames
<1> QED
  BY <1>1, <1>2 DEF Stored

(* What was in the slot is allocated, or nothing.                           *)
LEMMA StoredOver ==
  ASSUME NEW S, NEW ops, NEW frs, NEW sav, NEW glo, NEW L, Sound(S, ops, frs, sav, glo, L),
         NEW place, NEW floor, NEW more, NEW now, NEW old, NEW b,
         Stored(place, floor, frs, glo, more, now, old, b)
  PROVE  old = Inline \/ old \in L
BY StoredChanges DEF Sound, Ledger, Before, Account

(* A value that is lent by another slot, or by none, is as it was.          *)
LEMMA StoredKeeps ==
  ASSUME NEW frs, NEW glo, NEW place, NEW floor \in Nat, NEW more, NEW now, NEW old, NEW b,
         Stored(place, floor, frs, glo, more, now, old, b),
         NEW k \in Kind, NEW d, FitsValue(k, d, frs, glo), ~Hit(k, place, floor)
  PROVE  FitsValue(k, d, more, now)
<1>1. k.upto \in Nat
  BY DEF Kind
<1>2. ASSUME k.from # {}
      PROVE  Backed(k, d.buffer, more, now)
  <2>1. k.upto > 0 /\ Backed(k, d.buffer, frs, glo)
    BY <1>2 DEF FitsValue
  <2>2. CASE StoredLocally(place, floor, frs, glo, more, now, old, b)
    <3>1. PICK n \in Nat : n > floor /\ WithSlot(frs, more, n, place.sym, b)
      BY <2>2 DEF StoredLocally
    <3>2. now = glo
      BY <2>2 DEF StoredLocally
    <3>3. ASSUME NEW x \in k.from, NEW j \in 1 .. k.upto, j \in DOMAIN frs, x \in DOMAIN frs[j]
          PROVE  j \in DOMAIN more /\ x \in DOMAIN more[j] /\ more[j][x] = frs[j][x]
      <4>1. j # n \/ x # place.sym
        BY <1>1, <3>1 DEF Hit
      <4> QED
        BY <3>1, <3>3, <4>1 DEF WithSlot
    <3> QED
      BY <2>1, <3>2, <3>3 DEF Backed
  <2>3. CASE StoredGlobally(place, floor, frs, glo, more, now, old, b)
    <3>1. place.sym \notin k.from
      BY <1>1, <2>1, <2>3 DEF Hit, StoredGlobally
    <3>2. more = frs /\ \A x \in DOMAIN glo : x # place.sym => x \in DOMAIN now /\ now[x] = glo[x]
      BY <2>3 DEF StoredGlobally
    <3> QED
      BY <2>1, <3>1, <3>2 DEF Backed
  <2> QED
    BY <2>2, <2>3 DEF Stored
<1> QED
  BY <1>2 DEF FitsValue

(* And the slot may lend what it took.                                      *)
LEMMA StoredLends ==
  ASSUME NEW frs, NEW glo, NEW place, NEW floor, NEW more, NEW now, NEW old, NEW b,
         Stored(place, floor, frs, glo, more, now, old, b), NEW scopes \in Nat \ {0},
         DOMAIN frs = 1 .. scopes, NEW d, d.buffer = b, ~d.owned
  PROVE  FitsValue(Lent(place.sym, scopes), d, more, now)
<1> DEFINE k == Lent(place.sym, scopes)
<1>1. ~k.owned /\ k.from = {place.sym} /\ k.upto = scopes
  BY DEF Lent
<1> HIDE DEF k
<1>2. Backed(k, b, more, now)
  <2>1. CASE StoredLocally(place, floor, frs, glo, more, now, old, b)
    <3>1. PICK n \in Nat : WithSlot(frs, more, n, place.sym, b)
      BY <2>1 DEF StoredLocally
    <3> QED
      BY <1>1, <3>1 DEF Backed, WithSlot
  <2>2. CASE StoredGlobally(place, floor, frs, glo, more, now, old, b)
    BY <1>1, <2>2 DEF Backed, StoredGlobally
  <2> QED
    BY <2>1, <2>2 DEF Stored
<1>3. FitsValue(k, d, more, now)
  BY <1>1, <1>2 DEF FitsValue
<1> QED
  BY <1>3 DEF k

(* The stack after a store to a memory with the same scopes.                *)
LEMMA Restored ==
  ASSUME NEW S, NEW ops, NEW frs, NEW sav, NEW glo, NEW L, Sound(S, ops, frs, sav, glo, L),
         NEW T, WellFormed(T), T.height = S.height, T.scopes = S.scopes, T.callers = S.callers,
         NEW these, NEW more, NEW now, Shaped(these, more, now), Len(these) = Len(ops),
         Len(more) = Len(frs), FitsValues(T, these, more, now),
         T.clean => Emptied(more, now), NEW M, Ledger(these, more, now, M)
  PROVE  Sound(T, these, more, sav, now, M)
BY DEF Sound

(* The first group: the slot takes the value over, and may lend it.         *)
LEMMA MoveStep ==
  ASSUME NEW S, NEW ops, NEW frs, NEW sav, NEW glo, NEW L, Sound(S, ops, frs, sav, glo, L),
         ~S.clean, NEW i \in 1 .. Len(ops), S.values[i] = Mine,
         NEW place, place.sym \in Symbol,
         \A j \in 1 .. S.height : j # i => ~Hit(S.values[j], place, Floor(S)), Floor(S) \in Nat,
         NEW more, NEW now, NEW old,
         Stored(place, Floor(S), frs, glo, more, now, old, ops[i].buffer),
         NEW k \in {Spent, Lent(place.sym, S.scopes)}
  PROVE  /\ ops[i].owned
         /\ Sound(Become(S, i, k), [ops EXCEPT ![i].owned = FALSE], more, sav, now, L \ {old})
<1> DEFINE T == Become(S, i, k)
           d == [ops[i] EXCEPT !.owned = FALSE]
           these == [ops EXCEPT ![i].owned = FALSE]
           floor == Floor(S)
           b == ops[i].buffer
<1>1. /\ WellFormed(S) /\ ops \in Seq(Descriptors) /\ Ledger(ops, frs, glo, L)
      /\ S.height = Len(ops) /\ S.scopes = Len(frs) /\ FitsValues(S, ops, frs, glo)
      /\ Shaped(ops, frs, glo) /\ DOMAIN frs = 1 .. Len(frs) /\ S.scopes \in Nat \ {0}
      /\ DOMAIN ops = 1 .. Len(ops) /\ ops[i] \in Descriptors
      /\ \A j \in 1 .. Len(ops) : S.values[j] \in Kind
  BY SoundFacts DEF Sound, Shaped
<1>2. d \in Descriptors /\ ~d.owned /\ d.buffer = b /\ b \in Nat
  BY <1>1 DEF Descriptors
<1>3. /\ these \in Seq(Descriptors) /\ Len(these) = Len(ops)
      /\ \A j \in 1 .. Len(ops) : these[j] = IF j = i THEN d ELSE ops[j]
  <2>1. these = [ops EXCEPT ![i] = d]
    OBVIOUS
  <2> HIDE DEF these, d
  <2> QED
    BY <1>1, <1>2, <2>1, ExceptSeq
<1>4. ops[i].owned
  BY <1>1 DEF FitsValues, FitsValue, Mine
<1>5. Fitting(k, S.scopes)
  <2> DEFINE x == place.sym
  <2> HIDE DEF x
  <2>1. x \in Symbol => Fitting(Lent(x, S.scopes), S.scopes) /\ Fitting(Spent, S.scopes)
    BY <1>1, FittingKinds
  <2> QED
    BY <2>1 DEF x
<1>6. /\ WellFormed(T) /\ T.height = S.height /\ T.scopes = S.scopes
      /\ T.callers = S.callers /\ T.clean = S.clean
      /\ \A j \in 1 .. S.height : T.values[j] = IF j = i THEN k ELSE S.values[j]
  BY <1>1, <1>5, BecomeFields
<1> HIDE DEF T, these, d
<1>7. Stored(place, floor, frs, glo, more, now, old, b)
  OBVIOUS
<1>8. \A j \in 1 .. S.height : j # i => ~Hit(S.values[j], place, floor)
  OBVIOUS
<1>9. floor \in Nat
  OBVIOUS
<1> HIDE DEF floor, b
<1>10. Shaped(these, more, now) /\ Len(more) = Len(frs)
  BY <1>1, <1>2, <1>3, <1>7, StoredShape DEF Shaped
<1>11. ASSUME NEW j \in 1 .. Len(ops)
       PROVE  FitsValue(T.values[j], these[j], more, now)
  <2>1. CASE j = i
    <3>1. T.values[j] = k /\ these[j] = d
      BY <1>1, <1>3, <1>6, <2>1
    <3>2. k = Spent => FitsValue(k, d, more, now)
      BY <1>2 DEF FitsValue, Spent
    <3>3. FitsValue(Lent(place.sym, S.scopes), d, more, now)
      BY <1>1, <1>2, <1>7, StoredLends
    <3> QED
      BY <3>1, <3>2, <3>3
  <2>2. CASE j # i
    <3>1. T.values[j] = S.values[j] /\ these[j] = ops[j]
      BY <1>1, <1>3, <1>6, <2>2
    <3>2. FitsValue(S.values[j], ops[j], frs, glo) /\ ~Hit(S.values[j], place, floor)
      BY <1>1, <1>8, <2>2 DEF FitsValues
    <3>3. FitsValue(S.values[j], ops[j], more, now)
      BY <1>1, <1>7, <1>9, <3>2, StoredKeeps
    <3> QED
      BY <3>1, <3>3
  <2> QED
    BY <2>1, <2>2
<1>12. FitsValues(T, these, more, now)
  BY <1>3, <1>11 DEF FitsValues
<1>13. Ledger(these, more, now, L \ {old})
  <2> DEFINE P == Holders(ops, frs, glo)
             h == Holding(ops, frs, glo)
             R == Holders(ops, more, now)
             f == Holding(ops, more, now)
             Q == Holders(these, more, now)
             g == Holding(these, more, now)
             v == ValueOwner(i)
  <2>1. PICK c : /\ v # c /\ Changes(P, h, R, f, c, b) /\ Before(P, h, c, old)
    BY <1>7, StoredChanges
  <2>2. v \in P /\ h[v] = b
    BY <1>1, <1>4, HoldersAre DEF OwnerMap, b
  <2>3. Retires(R, f, Q, g, v)
    BY <1>1, <1>2, <1>3, ValueSpent
  <2>4. Account(P, h, L)
    BY <1>1 DEF Ledger
  <2> HIDE DEF P, h, R, f, Q, g, v
  <2>5. Changes(P, h, R, f, c, h[v])
    BY <2>1, <2>2
  <2>6. Account(Q, g, L \ {old})
    BY <2>1, <2>2, <2>3, <2>4, <2>5, AccountHandsOver
  <2> QED
    BY <2>6 DEF Ledger, Q, g
<1>14. ~T.clean
  BY <1>6
<1>15. Sound(T, these, more, sav, now, L \ {old})
  BY <1>3, <1>6, <1>10, <1>12, <1>13, <1>14, Restored
<1> QED
  BY <1>4, <1>15 DEF T, these

Unowned(k) == ~k.owned

(* What a value of kind v may be after a store to a place.                  *)
MayBecome(k, v, place, floor) == k \in {Spent, v} /\ ~Hit(k, place, floor)

(* A later group: the slot has a copy.                                      *)
LEMMA CopyStep ==
  ASSUME NEW S, NEW ops, NEW frs, NEW sav, NEW glo, NEW L, Sound(S, ops, frs, sav, glo, L),
         ~S.clean, NEW i \in 1 .. Len(ops), Unowned(S.values[i]), NEW place,
         \A j \in 1 .. S.height : j # i => ~Hit(S.values[j], place, Floor(S)), Floor(S) \in Nat,
         NEW more, NEW now, NEW old, NEW made \in Nat, made \notin L,
         Stored(place, Floor(S), frs, glo, more, now, old, made),
         NEW k, MayBecome(k, S.values[i], place, Floor(S))
  PROVE  Sound(Become(S, i, k), ops, more, sav, now, ((L \cup {made}) \ {Inline}) \ {old})
<1> DEFINE T == Become(S, i, k)
           floor == Floor(S)
<1>1. /\ WellFormed(S) /\ ops \in Seq(Descriptors) /\ Ledger(ops, frs, glo, L)
      /\ S.height = Len(ops) /\ FitsValues(S, ops, frs, glo)
      /\ Shaped(ops, frs, glo) /\ S.scopes \in Nat
      /\ \A j \in 1 .. Len(ops) : S.values[j] \in Kind
  BY SoundFacts DEF Sound, Shaped, WellFormed
<1>2. Fitting(k, S.scopes)
  BY <1>1, FittingKinds, FittingValues DEF MayBecome
<1>3. /\ WellFormed(T) /\ T.height = S.height /\ T.scopes = S.scopes
      /\ T.callers = S.callers /\ T.clean = S.clean
      /\ \A j \in 1 .. S.height : T.values[j] = IF j = i THEN k ELSE S.values[j]
  BY <1>1, <1>2, BecomeFields
<1> HIDE DEF T
<1>4. /\ Stored(place, floor, frs, glo, more, now, old, made) /\ floor \in Nat
      /\ \A j \in 1 .. S.height : j # i => ~Hit(S.values[j], place, floor)
      /\ k \in {Spent, S.values[i]} /\ ~Hit(k, place, floor)
  BY DEF MayBecome
<1> HIDE DEF floor
<1>5. Shaped(ops, more, now) /\ Len(more) = Len(frs)
  BY <1>1, <1>4, StoredShape
<1>6. ASSUME NEW j \in 1 .. Len(ops)
      PROVE  FitsValue(T.values[j], ops[j], more, now)
  <2>1. FitsValue(S.values[j], ops[j], frs, glo) /\ S.values[j] \in Kind
    BY <1>1 DEF FitsValues
  <2>2. ~Hit(S.values[j], place, floor) => FitsValue(S.values[j], ops[j], more, now)
    BY <1>4, <2>1, StoredKeeps
  <2>3. CASE j = i
    <3>1. T.values[j] = k
      BY <1>1, <1>3, <2>3
    <3>2. k = Spent => FitsValue(k, ops[j], more, now)
      BY <2>1, <2>3 DEF FitsValue, Spent, Unowned
    <3> QED
      BY <1>4, <2>2, <2>3, <3>1, <3>2
  <2>4. CASE j # i
    BY <1>1, <1>3, <1>4, <2>2, <2>4
  <2> QED
    BY <2>3, <2>4
<1>7. FitsValues(T, ops, more, now)
  BY <1>6 DEF FitsValues
<1>8. Ledger(ops, more, now, ((L \cup {made}) \ {Inline}) \ {old})
  <2> DEFINE P == Holders(ops, frs, glo)
             h == Holding(ops, frs, glo)
             Q == Holders(ops, more, now)
             g == Holding(ops, more, now)
  <2>1. PICK c : Changes(P, h, Q, g, c, made) /\ Before(P, h, c, old)
    BY <1>4, StoredChanges
  <2>2. Account(P, h, L)
    BY <1>1 DEF Ledger
  <2> HIDE DEF P, h, Q, g
  <2>3. Account(Q, g, ((L \cup {made}) \ {Inline}) \ {old})
    BY <2>1, <2>2, AccountCopies
  <2> QED
    BY <2>3 DEF Ledger, Q, g
<1>9. ~T.clean
  BY <1>3
<1>10. Sound(T, ops, more, sav, now, ((L \cup {made}) \ {Inline}) \ {old})
  BY <1>3, <1>5, <1>7, <1>8, <1>9, Restored
<1> QED
  BY <1>10 DEF T

-----------------------------------------------------------------------------
(* Places.                                                                  *)

(* What is known of the slots of a run when a place is used.                *)
SlotsKnown ==
  /\ frames \in Seq(Slots) /\ globals \in [DeclaredGlobals(program) -> Nat]
  /\ CallersScopes \in Nat /\ CallersScopes < Len(frames)

(* What is known of the slots where a place is used follows from the        *)
(* invariant.                                                               *)
LEMMA SoundSlots ==
  ASSUME NEW S, NEW L, Sound(S, operands, frames, saved, globals, L), Opened(S),
         DOMAIN globals = DeclaredGlobals(program)
  PROVE  SlotsKnown /\ Floor(S) = CallersScopes
<1>1. S.callers = saved /\ S.scopes = Len(frames) /\ Nested(S.callers, S.scopes)
  BY DEF Sound, WellFormed
<1>2. Floor(S) = CallersScopes
  BY <1>1 DEF Floor, CallersScopes, InFunction, Last
<1>3. Floor(S) \in Nat
  <2>1. S.scopes \in Nat
    BY DEF Sound, WellFormed
  <2>2. /\ S.callers # <<>> => Len(S.callers) \in 1 .. Len(S.callers)
        /\ \A i \in 1 .. Len(S.callers) : S.callers[i] \in Nat \ {0}
    BY <1>1, <2>1, NestedCalls
  <2> QED
    BY <2>2 DEF Floor
<1>4. frames \in Seq(Slots) /\ globals \in [DeclaredGlobals(program) -> Nat]
  BY DEF Sound, Shaped
<1>5. Floor(S) < Len(frames)
  BY <1>1 DEF Opened
<1> QED
  BY <1>2, <1>3, <1>4, <1>5 DEF SlotsKnown

(* A local is found in a scope of the function that is running.             *)
LEMMA LocalScope ==
  ASSUME SlotsKnown, NEW x
  PROVE  /\ ScopeOf(x) \in 1 .. Len(frames) /\ ScopeOf(x) > CallersScopes
         /\ Nearest(x) # {} => x \in DOMAIN frames[ScopeOf(x)]
         /\ Nearest(x) = {} => x \notin DOMAIN frames[ScopeOf(x)]
<1> DEFINE n == Len(frames)
<1>1. n \in Nat /\ DOMAIN frames = 1 .. n /\ CallersScopes \in Nat /\ CallersScopes < n
  BY LenProperties DEF SlotsKnown
<1>2. CASE Nearest(x) = {}
  <2>1. ScopeOf(x) = n
    BY <1>2 DEF ScopeOf
  <2>2. n \in DOMAIN frames
    BY <1>1
  <2>3. x \notin DOMAIN frames[n]
    BY <1>1, <1>2, <2>2 DEF Nearest
  <2> QED
    BY <1>1, <1>2, <2>1, <2>3
<1>3. CASE Nearest(x) # {}
  <2>1. Nearest(x) \subseteq 1 .. n
    BY <1>1 DEF Nearest
  <2>2. ScopeOf(x) \in Nearest(x)
    <3> DEFINE N == Nearest(x)
    <3> HIDE DEF N, n
    <3>1. N \subseteq 1 .. n /\ N # {} => Max(N) \in N
      BY <1>1, MaxIsMember
    <3> QED
      BY <1>3, <2>1, <3>1 DEF ScopeOf, N
  <2>3. ScopeOf(x) > CallersScopes /\ x \in DOMAIN frames[ScopeOf(x)]
    BY <2>2 DEF Nearest
  <2> QED
    BY <1>3, <2>1, <2>2, <2>3
<1> QED
  BY <1>2, <1>3

(* A place taken for a global is declared, and no local of a function.      *)
LEMMA PlaceIsGlobal ==
  ASSUME SlotsKnown, NEW place, IsPlace(program, place), IsGlobal(place)
  PROVE  place.sym \in DOMAIN globals /\ (place.global \/ CallersScopes = 0)
BY DEF SlotsKnown, IsPlace, IsGlobal, CallersScopes

(* SetSlot is a store, over what Holds says.                                *)
LEMMA SlotStored ==
  ASSUME SlotsKnown, NEW place, IsPlace(program, place), NEW b \in Nat, SetSlot(place, b)
  PROVE  Stored(place, CallersScopes, frames, globals, frames', globals', Holds(place), b)
<1>1. CASE IsGlobal(place)
  <2>1. /\ globals' = [globals EXCEPT ![place.sym] = b] /\ frames' = frames
        /\ Holds(place) = globals[place.sym]
    BY <1>1 DEF SetSlot, Holds
  <2> QED
    BY <1>1, <2>1, PlaceIsGlobal DEF Stored, StoredGlobally
<1>2. CASE ~IsGlobal(place)
  <2> DEFINE x == place.sym
             n == ScopeOf(x)
             slots == [y \in DOMAIN frames[n] \cup {x} |-> IF y = x THEN b ELSE frames[n][y]]
             more == [frames EXCEPT ![n] = slots]
  <2>1. frames' = more /\ globals' = globals
    BY <1>2 DEF SetSlot
  <2>2. /\ n \in 1 .. Len(frames) /\ n > CallersScopes
        /\ Nearest(x) # {} => x \in DOMAIN frames[n]
        /\ Nearest(x) = {} => x \notin DOMAIN frames[n]
    BY LocalScope
  <2>3. frames \in Seq(Slots) /\ DOMAIN frames = 1 .. Len(frames) /\ Len(frames) \in Nat
    BY LenProperties DEF SlotsKnown
  <2>4. Holds(place) = IF x \in DOMAIN frames[n] THEN frames[n][x] ELSE Inline
    BY <1>2, <2>2 DEF Holds
  <2>5. x \in Symbol
    BY DEF IsPlace
  <2> HIDE DEF n, x
  <2>6. slots \in Slots
    <3>1. frames[n] \in Slots
      BY <2>2, <2>3, ElementOfSeq
    <3>2. PICK D \in SUBSET Symbol : frames[n] \in [D -> Nat]
      BY <3>1 DEF Slots
    <3>3. D \cup {x} \in SUBSET Symbol /\ slots \in [D \cup {x} -> Nat]
      BY <2>5, <3>2
    <3> HIDE DEF slots
    <3> QED
      BY <3>3 DEF Slots
  <2>7. DOMAIN slots = DOMAIN frames[n] \cup {x}
    OBVIOUS
  <2>8. \A y \in DOMAIN slots : slots[y] = IF y = x THEN b ELSE frames[n][y]
    OBVIOUS
  <2> HIDE DEF slots
  <2>9. /\ more \in Seq(Slots) /\ Len(more) = Len(frames)
        /\ \A i \in 1 .. Len(frames) : more[i] = IF i = n THEN slots ELSE frames[i]
    BY <2>2, <2>3, <2>6, ExceptSeq
  <2>10. DOMAIN more = DOMAIN frames
    OBVIOUS
  <2> HIDE DEF more
  <2>11. more[n] = slots
    BY <2>2, <2>9
  <2>12. WithSlot(frames, more, n, x, b)
    BY <2>2, <2>3, <2>7, <2>8, <2>9, <2>10, <2>11 DEF WithSlot
  <2>13. n \in Nat
    BY <2>2, <2>3
  <2>14. StoredLocally(place, CallersScopes, frames, globals, more, globals, Holds(place), b)
    BY <2>2, <2>4, <2>9, <2>12, <2>13 DEF StoredLocally, x
  <2> QED
    BY <2>1, <2>14 DEF Stored
<1> QED
  BY <1>1, <1>2

(* And what it holds, its variable may lend.                                *)
LEMMA SlotLends ==
  ASSUME SlotsKnown, NEW place, IsPlace(program, place)
  PROVE  /\ Holds(place) \in Nat
         /\ FitsValue(Lent(place.sym, Len(frames)), Descriptor(Holds(place), FALSE), frames, globals)
<1> DEFINE x == place.sym
           k == Lent(x, Len(frames))
           d == Descriptor(Holds(place), FALSE)
<1>1. k.from = {x} /\ k.upto = Len(frames) /\ ~k.owned /\ ~d.owned /\ d.buffer = Holds(place)
  BY DEF Lent, Descriptor
<1>2. /\ frames \in Seq(Slots) /\ DOMAIN frames = 1 .. Len(frames) /\ Len(frames) \in Nat \ {0}
      /\ globals \in [DeclaredGlobals(program) -> Nat]
  BY LenProperties DEF SlotsKnown
<1> HIDE DEF k, d
<1>3. Holds(place) \in Nat /\ Backed(k, Holds(place), frames, globals)
  <2>1. CASE IsGlobal(place)
    <3>1. Holds(place) = globals[x] /\ x \in DOMAIN globals
      BY <2>1, PlaceIsGlobal DEF Holds
    <3> QED
      BY <1>1, <1>2, <3>1 DEF Backed
  <2>2. CASE ~IsGlobal(place) /\ Nearest(x) = {}
    <3>1. Holds(place) = Inline
      BY <2>2 DEF Holds
    <3> QED
      BY <3>1 DEF Backed, Inline
  <2>3. CASE ~IsGlobal(place) /\ Nearest(x) # {}
    <3> DEFINE n == ScopeOf(x)
    <3>1. n \in 1 .. Len(frames) /\ x \in DOMAIN frames[n] /\ Holds(place) = frames[n][x]
      BY <2>3, LocalScope DEF Holds
    <3> HIDE DEF n
    <3>2. frames[n] \in Slots
      BY <1>2, <3>1, ElementOfSeq
    <3>3. frames[n][x] \in Nat
      BY <3>1, <3>2 DEF Slots
    <3> QED
      BY <1>1, <1>2, <3>1, <3>3 DEF Backed
  <2> QED
    BY <2>1, <2>2, <2>3
<1>4. FitsValue(k, d, frames, globals)
  BY <1>1, <1>2, <1>3 DEF FitsValue
<1> QED
  BY <1>3, <1>4 DEF k, d, x

-----------------------------------------------------------------------------
(* The heap, as the account of a run has it.                                *)

Accounted(S) == Sound(S, operands, frames, saved, globals, live)

(* The account, read as facts on values, slots and globals.                 *)
LEMMA OwnersOf ==
  ASSUME NEW S, Accounted(S)
  PROVE  /\ \A i \in DOMAIN operands : operands[i].owned =>
              operands[i].buffer = Inline \/ operands[i].buffer \in live
         /\ \A i, j \in DOMAIN operands :
              /\ operands[i].owned /\ operands[j].owned /\ i # j
              /\ operands[i].buffer = operands[j].buffer
              => operands[i].buffer = Inline
         /\ \A i \in DOMAIN frames : \A x \in DOMAIN frames[i] :
              frames[i][x] = Inline \/ frames[i][x] \in live
         /\ \A i \in DOMAIN frames : \A x, y \in DOMAIN frames[i] :
              x # y /\ frames[i][x] = frames[i][y] => frames[i][x] = Inline
         /\ \A x \in DOMAIN globals : globals[x] = Inline \/ globals[x] \in live
         /\ \A x, y \in DOMAIN globals :
              x # y /\ globals[x] = globals[y] => globals[x] = Inline
         /\ \A i \in DOMAIN frames : \A x \in DOMAIN frames[i], y \in DOMAIN globals :
              frames[i][x] = globals[y] => globals[y] = Inline
         /\ Inline \notin live
<1> DEFINE P == Holders(operands, frames, globals)
           h == Holding(operands, frames, globals)
<1>1. OwnerMap(P, h, operands, frames, globals)
  BY HoldersAre
<1>2. /\ \A o \in P : h[o] = Inline \/ h[o] \in live
      /\ \A o, q \in P : o # q /\ h[o] = h[q] => h[o] = Inline
      /\ Inline \notin live
  BY DEF Accounted, Sound, Ledger, Account
<1> HIDE DEF P, h
<1>3. /\ \A i \in DOMAIN operands : operands[i].owned =>
           operands[i].buffer = Inline \/ operands[i].buffer \in live
      /\ \A i \in DOMAIN frames : \A x \in DOMAIN frames[i] :
           frames[i][x] = Inline \/ frames[i][x] \in live
      /\ \A x \in DOMAIN globals : globals[x] = Inline \/ globals[x] \in live
  BY <1>1, <1>2 DEF OwnerMap
<1>4. ASSUME NEW i \in DOMAIN operands, NEW j \in DOMAIN operands, i # j,
             operands[i].owned, operands[j].owned, operands[i].buffer = operands[j].buffer
      PROVE  operands[i].buffer = Inline
  BY <1>1, <1>2, <1>4, HolderNames DEF OwnerMap
<1>5. ASSUME NEW i \in DOMAIN frames, NEW x \in DOMAIN frames[i], NEW y \in DOMAIN frames[i],
             x # y, frames[i][x] = frames[i][y]
      PROVE  frames[i][x] = Inline
  BY <1>1, <1>2, <1>5, HolderNames DEF OwnerMap
<1>6. ASSUME NEW x \in DOMAIN globals, NEW y \in DOMAIN globals, x # y, globals[x] = globals[y]
      PROVE  globals[x] = Inline
  BY <1>1, <1>2, <1>6, HolderNames DEF OwnerMap
<1>7. ASSUME NEW i \in DOMAIN frames, NEW x \in DOMAIN frames[i], NEW y \in DOMAIN globals,
             frames[i][x] = globals[y]
      PROVE  globals[y] = Inline
  BY <1>1, <1>2, <1>7, HolderNames DEF OwnerMap
<1> QED
  BY <1>2, <1>3, <1>4, <1>5, <1>6, <1>7

(* Allocating alone.                                                        *)
LEMMA HeapMakes ==
  ASSUME NEW S, Accounted(S), NEW read, NEW made, Heap(read, made, <<>>)
  PROVE  /\ live' = (live \cup {made}) \ {Inline}
         /\ (\A b \in read : b = Inline \/ b \in live) => misused' = {}
<1> DEFINE freed == <<>>
<1>1. Inline \notin live
  BY OwnersOf
<1>2. DOMAIN freed = {} /\ Heap(read, made, freed)
  BY NoSlots
<1> HIDE DEF freed
<1>3. /\ live' = ((live \cup {made}) \ {Inline}) \ Buffers(freed)
      /\ (\A b \in read : b = Inline \/ b \in live) => misused' = {}
  BY <1>1, <1>2, HeapStep
<1>4. \A b : b \notin Buffers(freed)
  BY <1>2 DEF Buffers
<1> QED
  BY <1>3, <1>4

(* What a slot held is freed.                                               *)
LEMMA HeapReplaces ==
  ASSUME NEW S, Accounted(S), NEW read, NEW made, NEW old, old = Inline \/ old \in live,
         Heap(read, made, <<old>>)
  PROVE  /\ live' = ((live \cup {made}) \ {Inline}) \ {old}
         /\ (\A b \in read : b = Inline \/ b \in live) => misused' = {}
<1> DEFINE freed == <<old>>
<1>1. Inline \notin live
  BY OwnersOf
<1>2. /\ DOMAIN freed = {1} /\ freed[1] = old /\ Heap(read, made, freed)
  <2>1. freed \in Seq({old}) /\ Len(freed) = 1 /\ freed[1] = old
    OBVIOUS
  <2> HIDE DEF freed
  <2>2. DOMAIN freed = 1 .. 1
    BY <2>1, LenProperties
  <2>3. 1 .. 1 = {1}
    OBVIOUS
  <2> QED
    BY <2>1, <2>2, <2>3 DEF freed
<1> HIDE DEF freed
<1>3. /\ \A i \in DOMAIN freed : freed[i] = Inline \/ freed[i] \in live
      /\ \A i, j \in DOMAIN freed : i # j /\ freed[i] = freed[j] => freed[i] = Inline
  BY <1>2
<1>4. /\ live' = ((live \cup {made}) \ {Inline}) \ Buffers(freed)
      /\ (\A b \in read : b = Inline \/ b \in live) => misused' = {}
  BY <1>1, <1>2, <1>3, HeapStep
<1>5. Buffers(freed) = {old}
  BY <1>2 DEF Buffers
<1> QED
  BY <1>4, <1>5

(* The newest n values are freed, those that are owned.                     *)
LEMMA HeapPops ==
  ASSUME NEW S, Accounted(S), NEW n \in 0 .. Len(operands), NEW read, NEW made, made \notin live,
         Heap(read, made, OwnedBuffers(Newest(n)))
  PROVE  /\ live' = ((live \ Released(operands, n)) \cup {made}) \ {Inline}
         /\ (\A b \in read : b = Inline \/ b \in live) => misused' = {}
<1> DEFINE parts == Newest(n)
           m == Len(operands) - n
           freed == OwnedBuffers(parts)
<1>1. operands \in Seq(Descriptors) /\ Len(operands) \in Nat /\ DOMAIN operands = 1 .. Len(operands)
  BY SoundFacts DEF Accounted, Sound, Shaped
<1>2. DOMAIN parts = 1 .. n /\ \A i \in 1 .. n : parts[i] = operands[m + i]
  BY <1>1, NewestIs DEF Newest
<1>3. m \in Nat /\ n \in Nat /\ Len(operands) = m + n
  BY <1>1
<1> HIDE DEF parts, m
<1>4. /\ DOMAIN freed = 1 .. n
      /\ \A i \in 1 .. n : freed[i] = IF operands[m + i].owned THEN operands[m + i].buffer ELSE Inline
  BY <1>2 DEF OwnedBuffers
<1>5. Heap(read, made, freed)
  BY DEF parts
<1> HIDE DEF freed
<1>6. \A i \in 1 .. n : m + i \in DOMAIN operands
  BY <1>1, <1>3
<1>7. \A i \in DOMAIN freed : freed[i] = Inline \/ freed[i] \in live
  BY <1>4, <1>6, OwnersOf
<1>8. ASSUME NEW i \in DOMAIN freed, NEW j \in DOMAIN freed, i # j, freed[i] = freed[j]
      PROVE  freed[i] = Inline
  <2>1. m + i # m + j /\ i \in 1 .. n /\ j \in 1 .. n
    BY <1>3, <1>4, <1>8
  <2> DEFINE a == m + i
             b == m + j
  <2>2. a \in DOMAIN operands /\ b \in DOMAIN operands /\ a # b
    BY <1>6, <2>1
  <2>3. /\ freed[i] = IF operands[a].owned THEN operands[a].buffer ELSE Inline
        /\ freed[j] = IF operands[b].owned THEN operands[b].buffer ELSE Inline
    BY <1>4, <2>1
  <2> HIDE DEF a, b
  <2> QED
    BY <1>8, <2>2, <2>3, OwnersOf
<1>9. Inline \notin live
  BY OwnersOf
<1>10. /\ live' = ((live \cup {made}) \ {Inline}) \ Buffers(freed)
       /\ (\A b \in read : b = Inline \/ b \in live) => misused' = {}
  BY <1>5, <1>7, <1>8, <1>9, HeapStep
<1>11. \A b : b # Inline => (b \in Buffers(freed) <=> b \in Released(operands, n))
  <2> DEFINE top == {j \in Len(operands) - n + 1 .. Len(operands) : operands[j].owned}
  <2>1. ASSUME NEW b, b # Inline, b \in Buffers(freed)
        PROVE  b \in {operands[i].buffer : i \in top}
    <3>1. PICK i \in 1 .. n : freed[i] = b
      BY <1>4, <2>1 DEF Buffers
    <3> DEFINE k == m + i
    <3>2. k \in Len(operands) - n + 1 .. Len(operands)
      BY <1>3
    <3>3. freed[i] = IF operands[k].owned THEN operands[k].buffer ELSE Inline
      BY <1>4
    <3> HIDE DEF k
    <3> QED
      BY <2>1, <3>1, <3>2, <3>3
  <2>2. ASSUME NEW b, b # Inline, b \in {operands[i].buffer : i \in top}
        PROVE  b \in Buffers(freed)
    <3>1. PICK k \in top : operands[k].buffer = b
      BY <2>2
    <3> DEFINE i == k - m
    <3>2. i \in 1 .. n /\ m + i = k
      BY <1>3
    <3>3. freed[i] = b
      BY <1>4, <3>1, <3>2
    <3> HIDE DEF i
    <3> QED
      BY <1>4, <3>2, <3>3 DEF Buffers
  <2> QED
    BY <2>1, <2>2 DEF Released
<1>12. \A b \in Released(operands, n) : b = Inline \/ b \in live
  BY <1>7, <1>11 DEF Buffers
<1> QED
  BY <1>9, <1>10, <1>11, <1>12

(* What the slots of the newest scope hold is freed.                        *)
LEMMA HeapCloses ==
  ASSUME NEW S, Accounted(S), Heap({}, Inline, Last(frames))
  PROVE  /\ live' = live \ Buffers(frames[Len(frames)])
         /\ misused' = {}
<1> DEFINE n == Len(frames)
           freed == frames[n]
           none == {}
           made == Inline
<1>1. n \in DOMAIN frames
  BY SoundFacts DEF Accounted
<1>2. Heap(none, made, freed)
  BY DEF Last
<1>3. Inline \notin live
  BY OwnersOf
<1> HIDE DEF n
<1>4. /\ \A x \in DOMAIN freed : freed[x] = Inline \/ freed[x] \in live
      /\ \A x, y \in DOMAIN freed : x # y /\ freed[x] = freed[y] => freed[x] = Inline
  BY <1>1, OwnersOf
<1> HIDE DEF freed, none, made
<1>5. /\ live' = ((live \cup {made}) \ {Inline}) \ Buffers(freed)
      /\ (\A b \in none : b = Inline \/ b \in live) => misused' = {}
  BY <1>2, <1>3, <1>4, HeapStep
<1>6. misused' = {}
  BY <1>5 DEF none
<1>7. live' = live \ Buffers(freed)
  BY <1>3, <1>5 DEF made
<1> QED
  BY <1>6, <1>7 DEF freed, n

(* What the only scope and the globals hold is freed.                       *)
LEMMA HeapEmpties ==
  ASSUME NEW S, Accounted(S), Len(frames) = 1, Heap({}, Inline, TopSlots)
  PROVE  /\ live' = live \ (Buffers(frames[1]) \cup Buffers(globals))
         /\ misused' = {}
<1> DEFINE one == 1
           slots == frames[one]
           D == ({"local"} \X DOMAIN slots) \cup ({"global"} \X DOMAIN globals)
           freed == TopSlots
           none == {}
           made == Inline
<1>1. one \in DOMAIN frames
  BY SoundFacts DEF Accounted
<1>2. Heap(none, made, freed)
  OBVIOUS
<1>3. Inline \notin live
  BY OwnersOf
<1>4. freed = [slot \in D |-> IF slot[1] = "local" THEN slots[slot[2]] ELSE globals[slot[2]]]
  BY DEF TopSlots, Last
<1> HIDE DEF one, freed
<1>5. /\ \A x \in DOMAIN slots : slots[x] = Inline \/ slots[x] \in live
      /\ \A x, y \in DOMAIN slots : x # y /\ slots[x] = slots[y] => slots[x] = Inline
      /\ \A x \in DOMAIN globals : globals[x] = Inline \/ globals[x] \in live
      /\ \A x, y \in DOMAIN globals : x # y /\ globals[x] = globals[y] => globals[x] = Inline
      /\ \A x \in DOMAIN slots, y \in DOMAIN globals : slots[x] = globals[y] => globals[y] = Inline
  BY <1>1, OwnersOf
<1> HIDE DEF slots
<1>6. DOMAIN freed = D
  BY <1>4
<1>7. \A i \in D : \/ \E x \in DOMAIN slots : i = <<"local", x>>
                   \/ \E x \in DOMAIN globals : i = <<"global", x>>
  OBVIOUS
<1>8. /\ \A x \in DOMAIN slots : <<"local", x>> \in D
      /\ \A x \in DOMAIN globals : <<"global", x>> \in D
  OBVIOUS
<1> HIDE DEF D
<1>9. \A x \in DOMAIN slots : freed[<<"local", x>>] = slots[x]
  BY <1>4, <1>8
<1>10. \A x \in DOMAIN globals : freed[<<"global", x>>] = globals[x]
  BY <1>4, <1>8
<1>11. \A i \in DOMAIN freed : freed[i] = Inline \/ freed[i] \in live
  BY <1>5, <1>6, <1>7, <1>9, <1>10
<1>12. ASSUME NEW i \in DOMAIN freed, NEW j \in DOMAIN freed, i # j, freed[i] = freed[j]
       PROVE  freed[i] = Inline
  <2>1. CASE \E x \in DOMAIN slots : i = <<"local", x>>
    BY <1>5, <1>6, <1>7, <1>9, <1>10, <1>12, <2>1
  <2>2. CASE \E x \in DOMAIN globals : i = <<"global", x>>
    BY <1>5, <1>6, <1>7, <1>9, <1>10, <1>12, <2>2
  <2> QED
    BY <1>6, <1>7, <2>1, <2>2
<1> HIDE DEF none, made
<1>13. /\ live' = ((live \cup {made}) \ {Inline}) \ Buffers(freed)
       /\ (\A b \in none : b = Inline \/ b \in live) => misused' = {}
  BY <1>2, <1>3, <1>11, <1>12, HeapStep
<1>14. misused' = {}
  BY <1>13 DEF none
<1>15. Buffers(freed) = Buffers(slots) \cup Buffers(globals)
  <2>1. \A b \in Buffers(freed) : b \in Buffers(slots) \cup Buffers(globals)
    BY <1>6, <1>7, <1>9, <1>10 DEF Buffers
  <2>2. \A b \in Buffers(slots) \cup Buffers(globals) : b \in Buffers(freed)
    BY <1>6, <1>8, <1>9, <1>10 DEF Buffers
  <2> QED
    BY <2>1, <2>2
<1>16. live' = live \ (Buffers(slots) \cup Buffers(globals))
  BY <1>3, <1>13, <1>15 DEF made
<1> QED
  BY <1>14, <1>16 DEF slots, one

-----------------------------------------------------------------------------
(* Finitely many buffers.                                                   *)

(* What values, slots and globals hold is mentioned.                        *)
LEMMA MentionedIs ==
  /\ \A i \in DOMAIN operands : operands[i].buffer \in Mentioned
  /\ \A i \in DOMAIN frames : \A x \in DOMAIN frames[i] : frames[i][x] \in Mentioned
  /\ \A x \in DOMAIN globals : globals[x] \in Mentioned
<1> DEFINE A == UNION {Buffers(frames[i]) : i \in DOMAIN frames}
<1>1. \A i \in DOMAIN frames : \A x \in DOMAIN frames[i] : frames[i][x] \in A
  BY DEF Buffers
<1> HIDE DEF A
<1>2. Mentioned = {operands[i].buffer : i \in DOMAIN operands} \cup A \cup Buffers(globals)
  BY DEF Mentioned, A
<1> QED
  BY <1>1, <1>2 DEF Buffers

(* A step that mentions one more buffer at most leaves finitely many        *)
(* mentioned.                                                               *)
LEMMA MentionedGrows ==
  ASSUME IsFiniteSet(Mentioned), NEW made,
         \A i \in DOMAIN operands' : operands'[i].buffer \in Mentioned \cup {made, Inline},
         \A i \in DOMAIN frames' : \A x \in DOMAIN frames'[i] :
           frames'[i][x] \in Mentioned \cup {made, Inline},
         \A x \in DOMAIN globals' : globals'[x] \in Mentioned \cup {made, Inline}
  PROVE  IsFiniteSet(Mentioned')
<1> DEFINE A == UNION {Buffers(frames'[i]) : i \in DOMAIN frames'}
           B == Mentioned \cup {made, Inline}
<1>1. IsFiniteSet(B)
  <2>1. IsFiniteSet({made}) /\ IsFiniteSet({Inline})
    BY FS_Singleton
  <2>2. IsFiniteSet(Mentioned \cup {made})
    BY <2>1, FS_Union
  <2>3. IsFiniteSet((Mentioned \cup {made}) \cup {Inline})
    BY <2>1, <2>2, FS_Union
  <2>4. (Mentioned \cup {made}) \cup {Inline} = B
    OBVIOUS
  <2> QED
    BY <2>3, <2>4
<1>2. A \subseteq B
  BY DEF Buffers
<1> HIDE DEF A
<1>3. Mentioned' = {operands'[i].buffer : i \in DOMAIN operands'} \cup A \cup Buffers(globals')
  BY DEF Mentioned, A, Buffers
<1>4. Mentioned' \subseteq B
  BY <1>2, <1>3 DEF Buffers
<1> HIDE DEF B
<1> QED
  BY <1>1, <1>4, FS_Subset

-----------------------------------------------------------------------------
(* The steps of a program.                                                  *)

Kept ==
  /\ \E name \in Name : program = ProgramNamed(name)
  /\ DOMAIN globals = DeclaredGlobals(program)
  /\ IsFiniteSet(live) /\ IsFiniteSet(Mentioned)

(* The memory fits a stack from which the code that is left leads to F.     *)
Arrives(F) == \E S : Accounted(S) /\ Takes(program, todo, S, F)

CarefulUse == Careful(program) => misused = {}

Good(F) == Kept /\ Arrives(F) /\ CarefulUse

(* The program of a run is a typed one.                                     *)
LEMMA KeptTyped ==
  ASSUME Kept
  PROVE  Typed(program)
BY TypedAssumption DEF Kept

(* A step that allocates one buffer at most keeps the sets of buffers       *)
(* finite.                                                                  *)
LEMMA KeptStays ==
  ASSUME Kept, program' = program, DOMAIN globals' = DOMAIN globals, IsFiniteSet(Mentioned'),
         NEW made, live' \subseteq live \cup {made}
  PROVE  Kept'
<1>1. IsFiniteSet({made})
  BY FS_Singleton
<1>2. IsFiniteSet(live \cup {made})
  BY <1>1, FS_Union DEF Kept
<1>3. IsFiniteSet(live')
  BY <1>2, FS_Subset
<1>4. DeclaredGlobals(program)' = DeclaredGlobals(program)
  BY DEF DeclaredGlobals
<1> QED
  BY <1>3, <1>4 DEF Kept

(* The next item, and the stacks it leads from and to.                      *)
LEMMA NextItem ==
  ASSUME NEW F, Good(F), todo # <<>>
  PROVE  \E S, T : /\ Accounted(S) /\ WellFormed(S) /\ WellFormed(T)
                   /\ Leads(program, Item, S, T) /\ Takes(program, Tail(todo), T, F)
<1>1. PICK S : Accounted(S) /\ Takes(program, todo, S, F)
  BY DEF Good, Arrives
<1> QED
  BY <1>1, CodeHead DEF Item

(* Code put in front of what is left leads on.                              *)
LEMMA Continued ==
  ASSUME NEW items, NEW S, NEW T, NEW F, Continue(items), program' = program,
         Takes(program, items, S, T), Takes(program, Tail(todo), T, F)
  PROVE  Takes(program', todo', S, F)
BY CodeConcat DEF Continue

(* The item is done, and the rest of the code leads on.                     *)
LEMMA GoesOn ==
  ASSUME NEW T, NEW F, Continue(<<>>), program' = program, WellFormed(T),
         Takes(program, Tail(todo), T, F)
  PROVE  Takes(program', todo', T, F)
BY CodeEmpty, Continued

(* Code that makes way for other code with the same effect.                 *)
LEMMA ExpandKeeps ==
  ASSUME NEW F, Good(F), NEW S, Accounted(S), NEW T, NEW items, Continue(items),
         Takes(program, items, S, T), Takes(program, Tail(todo), T, F),
         HeapUntouched, UNCHANGED <<program, operands, Scopes>>
  PROVE  Good(F)'
<1>1. /\ program' = program /\ operands' = operands /\ frames' = frames /\ saved' = saved
      /\ globals' = globals /\ live' = live /\ misused' = {}
  BY DEF Scopes, HeapUntouched
<1>2. Takes(program', todo', S, F)
  BY <1>1, Continued
<1>3. Accounted(S)'
  BY <1>1 DEF Accounted
<1>4. Kept'
  <2>1. DeclaredGlobals(program)' = DeclaredGlobals(program) /\ Mentioned' = Mentioned
    BY <1>1 DEF DeclaredGlobals, Mentioned, Buffers
  <2> QED
    BY <1>1, <2>1 DEF Good, Kept
<1> QED
  BY <1>1, <1>2, <1>3, <1>4 DEF Good, Arrives, CarefulUse

(* The memory changes, and the code goes on.                                *)
LEMMA StepKeeps ==
  ASSUME NEW F, Good(F), NEW T, WellFormed(T), Takes(program, Tail(todo), T, F), Continue(<<>>),
         program' = program, Accounted(T)', DOMAIN globals' = DOMAIN globals,
         NEW made, live' \subseteq live \cup {made},
         \A i \in DOMAIN operands' : operands'[i].buffer \in Mentioned \cup {made, Inline},
         \A i \in DOMAIN frames' : \A x \in DOMAIN frames'[i] :
           frames'[i][x] \in Mentioned \cup {made, Inline},
         \A x \in DOMAIN globals' : globals'[x] \in Mentioned \cup {made, Inline},
         Careful(program) => misused' = {}
  PROVE  Good(F)'
<1>1. Takes(program', todo', T, F)
  BY GoesOn
<1>2. IsFiniteSet(Mentioned')
  BY MentionedGrows DEF Good, Kept
<1>3. Kept'
  BY <1>2, KeptStays DEF Good
<1>4. CarefulUse'
  BY DEF CarefulUse
<1> QED
  BY <1>1, <1>3, <1>4 DEF Good, Arrives

(* What a new value is made of is not in use.                               *)
LEMMA NewBuffer ==
  ASSUME NEW F, Good(F), NEW S, Accounted(S), NEW made \in {Inline, Fresh}
  PROVE  made \in Nat /\ made \notin live
<1>1. Fresh \in Nat \ {0} /\ Fresh \notin live
  BY FreshIsNew DEF Good, Kept
<1>2. Inline \notin live
  BY OwnersOf
<1> QED
  BY <1>1, <1>2 DEF Inline

(* New content is inline or in a fresh buffer.                              *)
LEMMA HomesAre ==
  ASSUME NEW parts, NEW made \in Homes(parts)
  PROVE  made \in {Inline, Fresh}
BY DEF Homes

(* A value made of others, which are freed where they are owned.            *)
LEMMA PushKeeps ==
  ASSUME NEW F, Good(F), NEW S, Accounted(S), NEW n \in 0 .. Len(operands),
         NEW T, WellFormed(T), T = Pushed(Popped(S, n), Mine), Takes(program, Tail(todo), T, F),
         NEW made \in {Inline, Fresh}, NEW read, NEW freed,
         Push(read, made, freed, Below(n)),
         /\ live' = ((live \ Released(operands, n)) \cup {made}) \ {Inline}
         /\ Careful(program) => misused' = {}
  PROVE  Good(F)'
<1> DEFINE U == Popped(S, n)
           rest == Below(n)
           M == live \ Released(operands, n)
<1>1. made \in Nat /\ made \notin live
  BY NewBuffer
<1>2. Sound(U, rest, frames, saved, globals, M)
  BY PopStep DEF Accounted, Below
<1>3. made \notin M
  BY <1>1
<1>4. /\ operands' = Append(rest, Descriptor(made, TRUE)) /\ Continue(<<>>)
      /\ program' = program /\ frames' = frames /\ saved' = saved /\ globals' = globals
  BY DEF Push, Scopes
<1>5. rest \in Seq(Descriptors) /\ DOMAIN rest = 1 .. Len(rest)
  BY <1>2, SoundFacts DEF Sound, Shaped
<1>6. \A i \in DOMAIN rest : i \in DOMAIN operands /\ rest[i] = operands[i]
  <2>1. operands \in Seq(Descriptors) /\ Len(operands) \in Nat /\ DOMAIN operands = 1 .. Len(operands)
    BY SoundFacts DEF Accounted, Sound, Shaped
  <2>2. Len(rest) = Len(operands) - n /\ \A i \in 1 .. Len(operands) - n : rest[i] = operands[i]
    BY <2>1, BelowIs DEF Below
  <2> HIDE DEF rest
  <2> QED
    BY <1>5, <2>1, <2>2
<1>7. T = Pushed(U, Mine)
  OBVIOUS
<1>8. live' = (M \cup {made}) \ {Inline}
  OBVIOUS
<1> HIDE DEF U, rest, M
<1>9. Sound(T, operands', frames, saved, globals, (M \cup {made}) \ {Inline})
  <2>1. Sound(Pushed(U, Mine), Append(rest, Descriptor(made, TRUE)), frames, saved, globals,
              (M \cup {made}) \ {Inline})
    BY <1>1, <1>2, <1>3, PushStep
  <2> QED
    BY <1>4, <1>7, <2>1
<1>10. Accounted(T)'
  BY <1>4, <1>8, <1>9 DEF Accounted
<1>11. \A i \in DOMAIN operands' : operands'[i].buffer \in Mentioned \cup {made, Inline}
  <2> DEFINE d == Descriptor(made, TRUE)
  <2>1. d \in Descriptors /\ d.buffer = made /\ operands' = Append(rest, d)
    BY <1>1, <1>4 DEF Descriptor, Descriptors
  <2> HIDE DEF d
  <2>2. /\ operands' \in Seq(Descriptors) /\ Len(operands') = Len(rest) + 1
        /\ \A i \in 1 .. Len(rest) : operands'[i] = rest[i]
        /\ operands'[Len(rest) + 1] = d
    BY <1>5, <2>1, AppendProperties
  <2>3. \A i \in DOMAIN operands' : i \in DOMAIN rest \/ i = Len(rest) + 1
    BY <1>5, <2>2, LenProperties
  <2> QED
    BY <1>5, <1>6, <2>1, <2>2, <2>3, MentionedIs
<1>12. live' \subseteq live \cup {made}
  BY <1>8 DEF M
<1> QED
  BY <1>4, <1>10, <1>11, <1>12, MentionedIs, StepKeeps

(* An expression, a statement or a part of one makes way for its code.      *)
LEMMA ExpandStep ==
  ASSUME NEW F, Good(F), Expand
  PROVE  Good(F)'
<1>1. todo # <<>> /\ HeapUntouched /\ UNCHANGED <<program, operands, Scopes>>
  BY DEF Expand, Top
<1>2. PICK S, T : /\ Accounted(S) /\ WellFormed(S) /\ WellFormed(T)
                  /\ Leads(program, Item, S, T) /\ Takes(program, Tail(todo), T, F)
  BY <1>1, NextItem
<1>3. Typed(program)
  BY KeptTyped DEF Good
<1>4. CASE Top("value") /\ Continue(ExprCode(Item.expr))
  <2>1. Item.do = "value"
    BY <1>4 DEF Top, Item
  <2>2. \/ Item.expr = Scalar /\ T = S
        \/ Evaluates(program, Item.expr, S, T)
    BY <1>2, <2>1 DEF Leads
  <2>3. Takes(program, ExprCode(Item.expr), S, T)
    BY <1>2, <1>3, <2>2, ScalarExpands, ExprExpands
  <2> QED
    BY <1>1, <1>2, <1>4, <2>3, ExpandKeeps
<1>5. CASE Top("parts") /\ Continue(PartsCode(Item.expr, Item.done))
  <2>1. Item.do = "parts"
    BY <1>5 DEF Top, Item
  <2>2. LeadsParts(program, Item.expr, Item.done, S, T)
    BY <1>2, <2>1 DEF Leads
  <2>3. Takes(program, PartsCode(Item.expr, Item.done), S, T)
    BY <1>2, <1>3, <2>2, PartsExpand
  <2> QED
    BY <1>1, <1>2, <1>5, <2>3, ExpandKeeps
<1>6. CASE Top("stmt") /\ Continue(StmtCode(Item.stmt))
  <2>1. Item.do = "stmt"
    BY <1>6 DEF Top, Item
  <2>2. Executes(program, Item.stmt, S, T) /\ T = S
    BY <1>2, <2>1 DEF Leads, Executes
  <2>3. Takes(program, StmtCode(Item.stmt), S, T)
    BY <1>2, <1>3, <2>2, StmtExpands
  <2> QED
    BY <1>1, <1>2, <1>6, <2>3, ExpandKeeps
<1>7. CASE Top("values") /\ Continue(ValuesCode(Item.stmt, Item.done))
  <2>1. Item.do = "values"
    BY <1>7 DEF Top, Item
  <2>2. LeadsValues(program, Item.stmt, Item.done, S, T)
    BY <1>2, <2>1 DEF Leads
  <2>3. Takes(program, ValuesCode(Item.stmt, Item.done), S, T)
    BY <1>2, <1>3, <2>2, ValuesExpand
  <2> QED
    BY <1>1, <1>2, <1>7, <2>3, ExpandKeeps
<1>8. CASE Top("stores") /\ Continue(StoresCode(Item.stmt, Item.group, Item.index))
  <2>1. Item.do = "stores"
    BY <1>8 DEF Top, Item
  <2>2. LeadsStores(program, Item.stmt, Item.group, Item.index, S, T)
    BY <1>2, <2>1 DEF Leads
  <2>3. Takes(program, StoresCode(Item.stmt, Item.group, Item.index), S, T)
    BY <1>2, <1>3, <2>2, StoresExpand
  <2> QED
    BY <1>1, <1>2, <1>8, <2>3, ExpandKeeps
<1>9. CASE Top("last") /\ Continue(LastCode(Item.stmt))
  <2>1. Item.do = "last"
    BY <1>9 DEF Top, Item
  <2>2. Item.stmt = Last(program.stmts) /\ S = Start /\ Ended(T)
    BY <1>2, <2>1 DEF Leads
  <2>3. PICK U : WellFormed(U) /\ Ended(U) /\ Takes(program, LastCode(Item.stmt), Start, U)
    BY <1>3, <2>2, LastExpands
  <2>4. U = T
    BY <1>2, <2>2, <2>3, EndedIsOne
  <2> QED
    BY <1>1, <1>2, <1>9, <2>2, <2>3, <2>4, ExpandKeeps
<1> QED
  BY <1>4, <1>5, <1>6, <1>7, <1>8, <1>9 DEF Expand

(* So does an `if` or a loop, whichever way it goes.                        *)
LEMMA BranchStep ==
  ASSUME NEW F, Good(F), Branch
  PROVE  Good(F)'
<1>1. todo # <<>> /\ HeapUntouched /\ UNCHANGED <<program, operands, Scopes>>
  BY DEF Branch, Top
<1>2. PICK S, T : /\ Accounted(S) /\ WellFormed(S) /\ WellFormed(T)
                  /\ Leads(program, Item, S, T) /\ Takes(program, Tail(todo), T, F)
  BY <1>1, NextItem
<1>3. Typed(program)
  BY KeptTyped DEF Good
<1>4. ASSUME Top("if"), NEW branch \in {Item.expr.yes, Item.expr.no},
             Continue(BranchCode(Item.expr, branch))
      PROVE  Good(F)'
  <2>1. Item.do = "if"
    BY <1>4 DEF Top, Item
  <2>2. Item.expr.kind = "if" /\ Evaluates(program, Item.expr, S, T)
    BY <1>2, <2>1 DEF Leads
  <2>3. Takes(program, BranchCode(Item.expr, branch), S, T)
    BY <1>2, <1>3, <2>2, BranchExpands DEF Evaluates
  <2> QED
    BY <1>1, <1>2, <1>4, <2>3, ExpandKeeps
<1>5. CASE Top("repeat") /\ (Continue(Again(Item.stmt)) \/ Continue(<<>>))
  <2>1. Item.do = "repeat"
    BY <1>5 DEF Top, Item
  <2>2. /\ Item.stmt.kind \in {"loop", "turns"} /\ T = S
        /\ Executes(program, Item.stmt, S, S)
    BY <1>2, <2>1 DEF Leads, Executes
  <2>3. Takes(program, Again(Item.stmt), S, T) /\ Takes(program, <<>>, S, T)
    BY <1>2, <1>3, <2>2, RepeatExpands, CodeEmpty
  <2> QED
    BY <1>1, <1>2, <1>5, <2>3, ExpandKeeps
<1> QED
  BY <1>4, <1>5 DEF Branch

(* The newest of no values.                                                 *)
LEMMA BelowNothing ==
  ASSUME NEW S, Accounted(S)
  PROVE  /\ Below(0) = operands /\ Popped(S, 0) = S /\ Released(operands, 0) = {}
         /\ 0 \in 0 .. Len(operands)
<1> DEFINE n == 0
           rest == Below(n)
<1>1. WellFormed(S) /\ operands \in Seq(Descriptors) /\ Len(operands) \in Nat
  BY SoundFacts DEF Accounted, Sound, Shaped
<1>2. n \in 0 .. Len(operands) /\ Len(operands) - n = Len(operands)
  BY <1>1
<1>3. Released(operands, n) = {}
  <2>1. \A i : i \notin Len(operands) - n + 1 .. Len(operands)
    BY <1>1
  <2> HIDE DEF n
  <2> QED
    BY <2>1 DEF Released
<1> HIDE DEF n
<1>4. /\ rest \in Seq(Descriptors) /\ Len(rest) = Len(operands)
      /\ \A i \in 1 .. Len(operands) : rest[i] = operands[i]
  <2>1. /\ rest \in Seq(Descriptors) /\ Len(rest) = Len(operands) - n
        /\ \A i \in 1 .. Len(operands) - n : rest[i] = operands[i]
    BY <1>1, <1>2, BelowIs DEF Below
  <2> QED
    BY <1>2, <2>1
<1> HIDE DEF rest
<1>5. rest = operands
  BY <1>1, <1>4, SeqEqual
<1> QED
  BY <1>1, <1>2, <1>3, <1>5, PopNothing DEF rest, n

(* A literal or a rendered scalar is a new owned value.                     *)
LEMMA MakeStep ==
  ASSUME NEW F, Good(F), MakeLiteral \/ RenderScalar
  PROVE  Good(F)'
<1>1. todo # <<>> /\ Item.do \in {"make", "render"}
  BY DEF MakeLiteral, RenderScalar, Top, Item
<1>2. PICK made \in {Inline, Fresh} : Push({}, made, <<>>, operands)
  BY DEF MakeLiteral, RenderScalar
<1>3. PICK S, T : /\ Accounted(S) /\ WellFormed(S) /\ WellFormed(T)
                  /\ Leads(program, Item, S, T) /\ Takes(program, Tail(todo), T, F)
  BY <1>1, NextItem
<1>4. T = Pushed(S, Mine)
  BY <1>1, <1>3 DEF Leads
<1> DEFINE n == 0
<1>5. n \in 0 .. Len(operands) /\ Popped(S, n) = S /\ Released(operands, n) = {} /\ Below(n) = operands
  BY <1>3, BelowNothing
<1>6. live' = (live \cup {made}) \ {Inline} /\ misused' = {}
  <2> DEFINE none == {}
  <2>1. Heap(none, made, <<>>)
    BY <1>2 DEF Push
  <2>2. \A b : b \notin none
    OBVIOUS
  <2> HIDE DEF none
  <2> QED
    BY <1>3, <2>1, <2>2, HeapMakes
<1> HIDE DEF n
<1>7. /\ T = Pushed(Popped(S, n), Mine) /\ Push({}, made, <<>>, Below(n))
      /\ live' = ((live \ Released(operands, n)) \cup {made}) \ {Inline}
  BY <1>2, <1>4, <1>5, <1>6
<1> QED
  BY <1>3, <1>5, <1>6, <1>7, PushKeeps

(* Reading a variable lends its buffer.                                     *)
LEMMA LoadStep ==
  ASSUME NEW F, Good(F), LoadSlot
  PROVE  Good(F)'
<1>1. todo # <<>> /\ Item.do = "load"
  BY DEF LoadSlot, Top, Item
<1>2. PICK S, T : /\ Accounted(S) /\ WellFormed(S) /\ WellFormed(T)
                  /\ Leads(program, Item, S, T) /\ Takes(program, Tail(todo), T, F)
  BY <1>1, NextItem
<1> DEFINE place == Item.place
           b == Holds(place)
           k == Borrowed(program, place.sym, S.scopes)
           d == Descriptor(b, FALSE)
<1>3. Opened(S) /\ IsPlace(program, place) /\ T = Pushed(S, k)
  BY <1>1, <1>2 DEF Leads
<1>4. /\ operands' = Append(operands, d) /\ Continue(<<>>) /\ program' = program
      /\ frames' = frames /\ saved' = saved /\ globals' = globals /\ live' = live /\ misused' = {}
  BY DEF LoadSlot, Scopes, HeapUntouched
<1>5. SlotsKnown
  BY <1>2, <1>3, SoundSlots DEF Accounted, Good, Kept
<1>6. S.scopes = Len(frames) /\ S.scopes \in Nat /\ operands \in Seq(Descriptors)
  BY <1>2 DEF Accounted, Sound, Shaped, WellFormed
<1>7. b \in Nat /\ FitsValue(Lent(place.sym, S.scopes), d, frames, globals)
  BY <1>3, <1>5, <1>6, SlotLends
<1>8. d \in Descriptors /\ ~d.owned /\ d.buffer = b
  BY <1>7 DEF Descriptors, Descriptor
<1>9. Fitting(k, S.scopes) /\ FitsValue(k, d, frames, globals)
  <2> DEFINE x == place.sym
  <2>1. x \in Symbol
    BY <1>3 DEF IsPlace
  <2>2. FitsValue(Lent(x, S.scopes), d, frames, globals) /\ k = Borrowed(program, x, S.scopes)
    BY <1>7
  <2> HIDE DEF x, k, d
  <2>3. FitsValue(Spent, d, frames, globals)
    BY <1>8 DEF FitsValue, Spent
  <2> QED
    BY <1>6, <2>1, <2>2, <2>3, FittingKinds DEF Borrowed
<1> HIDE DEF k, b, place
<1>10. Sound(Pushed(S, k), Append(operands, d), frames, saved, globals, live)
  BY <1>2, <1>7, <1>9, LendStep DEF Accounted
<1>11. Accounted(T)'
  BY <1>3, <1>4, <1>10 DEF Accounted
<1>12. b \in Mentioned \cup {Inline}
  <2>1. CASE IsGlobal(place)
    BY <1>3, <1>5, <2>1, PlaceIsGlobal, MentionedIs DEF b, Holds
  <2>2. CASE ~IsGlobal(place) /\ Nearest(place.sym) = {}
    BY <2>2 DEF b, Holds
  <2>3. CASE ~IsGlobal(place) /\ Nearest(place.sym) # {}
    <3> DEFINE n == ScopeOf(place.sym)
    <3>1. n \in DOMAIN frames /\ place.sym \in DOMAIN frames[n]
      BY <1>5, <2>3, LocalScope, LenProperties DEF SlotsKnown
    <3>2. b = frames[n][place.sym]
      BY <2>3 DEF b, Holds
    <3> QED
      BY <3>1, <3>2, MentionedIs
  <2> QED
    BY <2>1, <2>2, <2>3
<1> HIDE DEF d
<1>13. \A i \in DOMAIN operands' : operands'[i].buffer \in Mentioned \cup {Inline, Inline}
  <2>1. /\ operands' \in Seq(Descriptors) /\ Len(operands') = Len(operands) + 1
        /\ \A i \in 1 .. Len(operands) : operands'[i] = operands[i]
        /\ operands'[Len(operands) + 1] = d
    BY <1>4, <1>6, <1>8, AppendProperties
  <2>2. \A i \in DOMAIN operands' : i \in DOMAIN operands \/ i = Len(operands) + 1
    BY <1>6, <2>1, LenProperties
  <2>3. DOMAIN operands = 1 .. Len(operands)
    BY <1>6, LenProperties
  <2> QED
    BY <1>8, <1>12, <2>1, <2>2, <2>3, MentionedIs
<1> QED
  BY <1>2, <1>4, <1>11, <1>13, MentionedIs, StepKeeps

(* The newest values can be read.                                           *)
LEMMA TopReads ==
  ASSUME NEW S, Accounted(S), NEW n, UsableTop(program, S, n)
  PROVE  /\ n \in 0 .. Len(operands)
         /\ Careful(program) => \A b \in BuffersOf(Newest(n)) : b = Inline \/ b \in live
<1> DEFINE parts == Newest(n)
<1>1. /\ operands \in Seq(Descriptors) /\ S.height = Len(operands) /\ Len(operands) \in Nat
  BY SoundFacts DEF Accounted, Sound, Shaped
<1>2. n \in 0 .. Len(operands)
  BY <1>1 DEF UsableTop
<1>3. ASSUME Careful(program), NEW b \in BuffersOf(parts)
      PROVE  b = Inline \/ b \in live
  <2>1. DOMAIN parts = 1 .. n /\ \A i \in 1 .. n : parts[i] = operands[Len(operands) - n + i]
    BY <1>1, <1>2, NewestIs DEF Newest
  <2> HIDE DEF parts
  <2>2. PICK i \in 1 .. n : parts[i].buffer = b
    BY <1>3, <2>1 DEF BuffersOf, ToSet
  <2> DEFINE k == Len(operands) - n + i
  <2>3. k \in 1 .. Len(operands)
    BY <1>1, <1>2
  <2>4. operands[k].buffer = b
    BY <2>1, <2>2
  <2>5. Readable(S.values[k])
    BY <1>1, <1>3 DEF UsableTop, NewestKind
  <2> HIDE DEF k
  <2> QED
    BY <2>3, <2>4, <2>5, ReadableIsLive DEF Accounted
<1> QED
  BY <1>2, <1>3

(* A join reads its parts and frees the owned ones.                         *)
LEMMA JoinStep ==
  ASSUME NEW F, Good(F), JoinParts
  PROVE  Good(F)'
<1>1. todo # <<>> /\ Item.do = "join"
  BY DEF JoinParts, Top, Item
<1>2. PICK S, T : /\ Accounted(S) /\ WellFormed(S) /\ WellFormed(T)
                  /\ Leads(program, Item, S, T) /\ Takes(program, Tail(todo), T, F)
  BY <1>1, NextItem
<1> DEFINE n == Item.count
           parts == Newest(n)
<1>3. UsableTop(program, S, n) /\ T = Pushed(Popped(S, n), Mine)
  BY <1>1, <1>2 DEF Leads
<1>4. PICK made \in Homes(parts) : Push(BuffersOf(parts), made, OwnedBuffers(parts), Below(n))
  BY DEF JoinParts
<1>5. made \in {Inline, Fresh} /\ made \notin live
  BY <1>2, HomesAre, NewBuffer
<1>6. Heap(BuffersOf(parts), made, OwnedBuffers(Newest(n)))
  BY <1>4 DEF Push
<1> HIDE DEF n
<1>7. n \in 0 .. Len(operands)
  BY <1>2, <1>3, TopReads
<1>8. /\ live' = ((live \ Released(operands, n)) \cup {made}) \ {Inline}
      /\ (\A b \in BuffersOf(parts) : b = Inline \/ b \in live) => misused' = {}
  <2> DEFINE read == BuffersOf(parts)
  <2>1. Heap(read, made, OwnedBuffers(Newest(n)))
    BY <1>6
  <2> HIDE DEF read
  <2> QED
    BY <1>2, <1>5, <1>7, <2>1, HeapPops DEF read
<1>9. Careful(program) => misused' = {}
  BY <1>2, <1>3, <1>8, TopReads
<1> QED
  BY <1>2, <1>3, <1>4, <1>5, <1>7, <1>8, <1>9, PushKeeps

(* The newest value.                                                        *)
LEMMA TopValue ==
  ASSUME NEW S, Accounted(S), S.height > 0
  PROVE  /\ 1 \in 0 .. Len(operands) /\ Len(operands) \in 1 .. Len(operands)
         /\ Last(operands) = operands[Len(operands)]
         /\ S.values[S.height].owned <=> Last(operands).owned
         /\ ~Last(operands).owned => Released(operands, 1) = {}
         /\ BuffersOf(Newest(1)) = {Last(operands).buffer}
<1> DEFINE l == Len(operands)
           one == 1
           parts == Newest(one)
<1>1. /\ operands \in Seq(Descriptors) /\ S.height = l /\ l \in Nat
      /\ FitsValues(S, operands, frames, globals)
  BY SoundFacts DEF Accounted, Sound, Shaped
<1>2. one \in 0 .. l /\ l \in 1 .. l /\ Last(operands) = operands[l]
  BY <1>1 DEF Last
<1>3. S.values[S.height].owned <=> operands[l].owned
  BY <1>1, <1>2 DEF FitsValues, FitsValue
<1>4. \A j \in l - one + 1 .. l : j = l
  BY <1>1
<1>5. DOMAIN parts = 1 .. one /\ \A i \in 1 .. one : parts[i] = operands[l - one + i]
  <2> HIDE DEF one
  <2> QED
    BY <1>1, <1>2, NewestIs DEF Newest
<1>6. \A i : i \in 1 .. one <=> i = 1
  OBVIOUS
<1>7. l - one + 1 = l
  BY <1>1
<1> HIDE DEF parts
<1>8. \A i : i \in DOMAIN parts <=> i = 1
  BY <1>5, <1>6
<1>9. parts[1] = operands[l]
  BY <1>5, <1>6, <1>7
<1>10. ToSet(parts) = {operands[l]}
  BY <1>8, <1>9 DEF ToSet
<1>11. BuffersOf(parts) = {operands[l].buffer}
  BY <1>10 DEF BuffersOf
<1>12. ~operands[l].owned => Released(operands, one) = {}
  <2> DEFINE top == {j \in l - one + 1 .. l : operands[j].owned}
  <2>1. ~operands[l].owned => \A j : j \notin top
    BY <1>4
  <2> HIDE DEF top
  <2>2. (\A j : j \notin top) => {operands[i].buffer : i \in top} = {}
    OBVIOUS
  <2> QED
    BY <2>1, <2>2 DEF Released, top
<1> QED
  BY <1>2, <1>3, <1>11, <1>12 DEF parts, l, one

(* A value that is owned already.                                           *)
LEMMA OwnedStep ==
  ASSUME NEW S, NEW ops, NEW frs, NEW sav, NEW glo, NEW L, Sound(S, ops, frs, sav, glo, L),
         S.height > 0, S.values[S.height].owned
  PROVE  Sound(Pushed(Popped(S, 1), Mine), ops, frs, sav, glo, L)
<1> DEFINE one == 1
           U == Popped(S, one)
           T == Pushed(U, Mine)
<1>1. /\ WellFormed(S) /\ S.height = Len(ops) /\ Len(ops) \in Nat /\ one \in 0 .. S.height
      /\ FitsValues(S, ops, frs, glo) /\ ops \in Seq(Descriptors) /\ Ledger(ops, frs, glo, L)
      /\ S.scopes \in Nat
  BY SoundFacts DEF Sound, Shaped, WellFormed
<1>2. S.height - one + 1 = S.height /\ \A i \in 1 .. S.height : i = S.height \/ i \in 1 .. S.height - one
  BY <1>1
<1> HIDE DEF one, U
<1>3. /\ WellFormed(U) /\ U.height = S.height - one /\ U.scopes = S.scopes
      /\ U.callers = S.callers /\ U.clean = S.clean
      /\ \A i \in 1 .. S.height - one : U.values[i] = S.values[i]
  BY <1>1, PoppedFields DEF U
<1>4. Fitting(Mine, U.scopes)
  BY <1>1, <1>3, FittingKinds
<1>5. /\ WellFormed(T) /\ T.height = U.height + 1 /\ T.scopes = U.scopes
      /\ T.callers = U.callers /\ T.clean = U.clean
      /\ \A i \in 1 .. U.height : T.values[i] = U.values[i]
      /\ T.values[U.height + 1] = Mine
  BY <1>3, <1>4, PushedFields
<1> HIDE DEF T
<1>6. /\ T.height = S.height /\ T.scopes = S.scopes /\ T.callers = S.callers /\ T.clean = S.clean
      /\ \A i \in 1 .. S.height - one : T.values[i] = S.values[i]
      /\ T.values[S.height] = Mine
  BY <1>2, <1>3, <1>5
<1>7. FitsValue(Mine, ops[S.height], frs, glo)
  <2>1. ops[S.height].owned
    BY <1>1 DEF FitsValues, FitsValue
  <2> QED
    BY <2>1 DEF FitsValue, Mine
<1>8. FitsValues(T, ops, frs, glo)
  BY <1>1, <1>2, <1>6, <1>7 DEF FitsValues
<1>9. Sound(T, ops, frs, sav, glo, L)
  BY <1>1, <1>5, <1>6, <1>8, Resound
<1> QED
  BY <1>9 DEF T, U, one

(* A borrowed value is copied, an owned one stays.                          *)
LEMMA OwnStep ==
  ASSUME NEW F, Good(F), TakeOwnership
  PROVE  Good(F)'
<1>1. todo # <<>> /\ Item.do = "own"
  BY DEF TakeOwnership, Top, Item
<1>2. PICK S, T : /\ Accounted(S) /\ WellFormed(S) /\ WellFormed(T)
                  /\ Leads(program, Item, S, T) /\ Takes(program, Tail(todo), T, F)
  BY <1>1, NextItem
<1> DEFINE n == 1
<1>3. UsableTop(program, S, n) /\ S.height > 0 /\ T = Pushed(Popped(S, n), Mine)
  BY <1>1, <1>2 DEF Leads
<1>4. /\ n \in 0 .. Len(operands)
      /\ S.values[S.height].owned <=> Last(operands).owned
      /\ ~Last(operands).owned => Released(operands, n) = {}
      /\ BuffersOf(Newest(n)) = {Last(operands).buffer}
  BY <1>2, <1>3, TopValue
<1>5. ASSUME ~Last(operands).owned, NEW made \in Homes(<<Last(operands)>>),
             Push({Last(operands).buffer}, made, <<>>, Below(n))
      PROVE  Good(F)'
  <2> DEFINE read == {Last(operands).buffer}
  <2>1. made \in {Inline, Fresh}
    BY HomesAre
  <2>2. Heap(read, made, <<>>)
    BY <1>5 DEF Push
  <2>3. read = BuffersOf(Newest(n)) /\ Push(read, made, <<>>, Below(n))
    BY <1>4, <1>5
  <2> HIDE DEF read, n
  <2>4. /\ live' = (live \cup {made}) \ {Inline}
        /\ (\A b \in read : b = Inline \/ b \in live) => misused' = {}
    BY <1>2, <2>2, HeapMakes
  <2>5. live' = ((live \ Released(operands, n)) \cup {made}) \ {Inline}
    BY <1>4, <1>5, <2>4
  <2>6. Careful(program) => misused' = {}
    BY <1>2, <1>3, <2>3, <2>4, TopReads
  <2> QED
    BY <1>2, <1>3, <1>4, <2>1, <2>3, <2>5, <2>6, PushKeeps
<1>6. CASE /\ Last(operands).owned
           /\ Continue(<<>>) /\ HeapUntouched
           /\ UNCHANGED <<program, operands, Scopes>>
  <2>1. Accounted(T)
    BY <1>2, <1>3, <1>4, <1>6, OwnedStep DEF Accounted
  <2>2. Takes(program, <<>>, T, T)
    BY <1>2, CodeEmpty
  <2> QED
    BY <1>2, <1>6, <2>1, <2>2, ExpandKeeps
<1> QED
  BY <1>5, <1>6 DEF TakeOwnership

(* The newest n values go, and what they own is freed.                      *)
LEMMA PopKeeps ==
  ASSUME NEW F, Good(F), NEW S, Accounted(S), NEW n \in 0 .. Len(operands),
         NEW T, WellFormed(T), T = Popped(S, n), Takes(program, Tail(todo), T, F),
         Continue(<<>>), UNCHANGED <<program, Scopes>>, operands' = Below(n),
         live' = live \ Released(operands, n), Careful(program) => misused' = {}
  PROVE  Good(F)'
<1>1. /\ program' = program /\ frames' = frames /\ saved' = saved /\ globals' = globals
  BY DEF Scopes
<1>2. Sound(T, operands', frames, saved, globals, live')
  BY PopStep DEF Accounted, Below
<1>3. Accounted(T)'
  BY <1>1, <1>2 DEF Accounted
<1>4. \A i \in DOMAIN operands' : operands'[i].buffer \in Mentioned \cup {Inline, Inline}
  <2>1. operands \in Seq(Descriptors) /\ Len(operands) \in Nat /\ DOMAIN operands = 1 .. Len(operands)
    BY SoundFacts DEF Accounted, Sound, Shaped
  <2>2. /\ operands' \in Seq(Descriptors) /\ Len(operands') = Len(operands) - n
        /\ \A i \in 1 .. Len(operands) - n : operands'[i] = operands[i]
    BY <2>1, BelowIs DEF Below
  <2>3. \A i \in DOMAIN operands' : i \in DOMAIN operands /\ operands'[i] = operands[i]
    BY <2>1, <2>2, LenProperties
  <2> QED
    BY <2>3, MentionedIs
<1> QED
  BY <1>1, <1>3, <1>4, MentionedIs, StepKeeps

(* The newest n values are freed, and nothing is made.                      *)
LEMMA HeapOnlyPops ==
  ASSUME NEW S, Accounted(S), NEW n \in 0 .. Len(operands), NEW read,
         Heap(read, Inline, OwnedBuffers(Newest(n)))
  PROVE  /\ live' = live \ Released(operands, n)
         /\ (\A b \in read : b = Inline \/ b \in live) => misused' = {}
<1> DEFINE made == Inline
<1>1. Inline \notin live
  BY OwnersOf
<1>2. made \notin live /\ Heap(read, made, OwnedBuffers(Newest(n)))
  BY <1>1
<1> HIDE DEF made
<1>3. /\ live' = ((live \ Released(operands, n)) \cup {made}) \ {Inline}
      /\ (\A b \in read : b = Inline \/ b \in live) => misused' = {}
  BY <1>2, HeapPops
<1> QED
  BY <1>1, <1>3 DEF made

(* A comparison or `.len` reads its operands and frees the owned ones.      *)
LEMMA InspectStep ==
  ASSUME NEW F, Good(F), InspectOperands
  PROVE  Good(F)'
<1>1. todo # <<>> /\ Item.do = "inspect"
  BY DEF InspectOperands, Top, Item
<1>2. PICK S, T : /\ Accounted(S) /\ WellFormed(S) /\ WellFormed(T)
                  /\ Leads(program, Item, S, T) /\ Takes(program, Tail(todo), T, F)
  BY <1>1, NextItem
<1> DEFINE n == Item.count
           read == BuffersOf(Newest(n))
<1>3. UsableTop(program, S, n) /\ T = Popped(S, n)
  BY <1>1, <1>2 DEF Leads
<1>4. /\ Heap(read, Inline, OwnedBuffers(Newest(n))) /\ operands' = Below(n)
      /\ Continue(<<>>) /\ UNCHANGED <<program, Scopes>>
  BY DEF InspectOperands
<1>5. read = BuffersOf(Newest(n))
  OBVIOUS
<1> HIDE DEF n, read
<1>6. n \in 0 .. Len(operands) /\ (Careful(program) => \A b \in read : b = Inline \/ b \in live)
  BY <1>2, <1>3, <1>5, TopReads
<1>7. /\ live' = live \ Released(operands, n)
      /\ (\A b \in read : b = Inline \/ b \in live) => misused' = {}
  BY <1>2, <1>4, <1>6, HeapOnlyPops
<1> QED
  BY <1>2, <1>3, <1>4, <1>6, <1>7, PopKeeps

(* Values nobody owns are forgotten.                                        *)
LEMMA DropStep ==
  ASSUME NEW F, Good(F), DropValues
  PROVE  Good(F)'
<1>1. todo # <<>> /\ Item.do = "drop"
  BY DEF DropValues, Top, Item
<1>2. PICK S, T : /\ Accounted(S) /\ WellFormed(S) /\ WellFormed(T)
                  /\ Leads(program, Item, S, T) /\ Takes(program, Tail(todo), T, F)
  BY <1>1, NextItem
<1> DEFINE n == Item.count
<1>3. /\ n \in 0 .. S.height /\ T = Popped(S, n)
      /\ \A i \in 1 .. n : ~NewestKind(S, n, i).owned
  BY <1>1, <1>2 DEF Leads
<1>4. /\ operands' = Below(n) /\ Continue(<<>>) /\ UNCHANGED <<program, Scopes>>
      /\ live' = live /\ misused' = {}
  BY DEF DropValues, HeapUntouched
<1>5. S.height = Len(operands) /\ Len(operands) \in Nat /\ FitsValues(S, operands, frames, globals)
  BY <1>2, SoundFacts DEF Accounted, Sound
<1> HIDE DEF n
<1>6. n \in 0 .. Len(operands)
  BY <1>3, <1>5
<1>7. Released(operands, n) = {}
  <2> DEFINE top == {j \in Len(operands) - n + 1 .. Len(operands) : operands[j].owned}
  <2>1. ASSUME NEW j \in Len(operands) - n + 1 .. Len(operands)
        PROVE  ~operands[j].owned
    <3> DEFINE i == j - (Len(operands) - n)
    <3>1. i \in 1 .. n /\ S.height - n + i = j /\ j \in 1 .. Len(operands)
      BY <1>5, <1>6
    <3> HIDE DEF i
    <3>2. ~S.values[j].owned
      BY <1>3, <3>1 DEF NewestKind
    <3> QED
      BY <1>5, <3>1, <3>2 DEF FitsValues, FitsValue
  <2>2. \A j : j \notin top
    BY <2>1
  <2> HIDE DEF top
  <2>3. {operands[i].buffer : i \in top} = {}
    BY <2>2
  <2> QED
    BY <2>3 DEF Released, top
<1>8. live' = live \ Released(operands, n)
  BY <1>4, <1>7
<1> QED
  BY <1>2, <1>3, <1>4, <1>6, <1>8, PopKeeps

(* The value of an expression statement is freed if it is owned.            *)
LEMMA DiscardStep ==
  ASSUME NEW F, Good(F), DiscardValue
  PROVE  Good(F)'
<1>1. todo # <<>> /\ Item.do = "discard"
  BY DEF DiscardValue, Top, Item
<1>2. PICK S, T : /\ Accounted(S) /\ WellFormed(S) /\ WellFormed(T)
                  /\ Leads(program, Item, S, T) /\ Takes(program, Tail(todo), T, F)
  BY <1>1, NextItem
<1> DEFINE n == 1
           none == {}
<1>3. S.height > 0 /\ T = Popped(S, n)
  BY <1>1, <1>2 DEF Leads
<1>4. /\ Heap(none, Inline, OwnedBuffers(Newest(n))) /\ operands' = Below(n)
      /\ Continue(<<>>) /\ UNCHANGED <<program, Scopes>>
  BY DEF DiscardValue
<1>5. n \in 0 .. Len(operands)
  BY <1>2, <1>3, TopValue
<1>6. \A b : b \notin none
  OBVIOUS
<1> HIDE DEF n, none
<1>7. live' = live \ Released(operands, n) /\ misused' = {}
  BY <1>2, <1>4, <1>5, <1>6, HeapOnlyPops
<1> QED
  BY <1>2, <1>3, <1>4, <1>5, <1>7, PopKeeps

(* The host reads the result and frees it.                                  *)
LEMMA HostTakesStep ==
  ASSUME NEW F, Good(F), HostTakesResult
  PROVE  Good(F)'
<1>1. todo # <<>> /\ Item.do = "host"
  BY DEF HostTakesResult, Top, Item
<1>2. PICK S, T : /\ Accounted(S) /\ WellFormed(S) /\ WellFormed(T)
                  /\ Leads(program, Item, S, T) /\ Takes(program, Tail(todo), T, F)
  BY <1>1, NextItem
<1> DEFINE n == 1
           read == BuffersOf(Newest(n))
           l == Len(operands)
<1>3. LeadsHost(S, T) /\ S.height > 0
  BY <1>1, <1>2 DEF Leads, LeadsHost
<1>4. /\ Heap(read, Inline, OwnedBuffers(Newest(n))) /\ operands' = <<>>
      /\ Continue(<<>>) /\ program' = program /\ frames' = frames /\ saved' = saved
      /\ globals' = globals
  BY DEF HostTakesResult, Scopes
<1>5. n \in 0 .. Len(operands) /\ l \in 1 .. l /\ read = {operands[l].buffer}
  BY <1>2, <1>3, TopValue
<1>6. operands[l].owned /\ Sound(T, <<>>, frames, saved, globals, live \ {operands[l].buffer})
  BY <1>2, <1>3, HostStep DEF Accounted
<1>7. Released(operands, n) = {operands[l].buffer}
  <2> DEFINE top == {j \in Len(operands) - n + 1 .. Len(operands) : operands[j].owned}
  <2>1. l \in Nat
    BY <1>2, SoundFacts DEF Accounted
  <2>2. \A j : j \in top <=> j = l
    BY <1>5, <1>6, <2>1
  <2> HIDE DEF top
  <2>3. {operands[i].buffer : i \in top} = {operands[l].buffer}
    BY <2>2
  <2> QED
    BY <2>3 DEF Released, top
<1>8. \A b \in read : b = Inline \/ b \in live
  <2>1. l \in DOMAIN operands
    BY <1>2, <1>5, SoundFacts DEF Accounted
  <2> HIDE DEF l
  <2>2. operands[l].buffer = Inline \/ operands[l].buffer \in live
    BY <1>2, <1>6, <2>1, OwnersOf
  <2> HIDE DEF read
  <2> QED
    BY <1>5, <2>2
<1> HIDE DEF n, read
<1>9. live' = live \ {operands[l].buffer} /\ misused' = {}
  BY <1>2, <1>4, <1>5, <1>7, <1>8, HeapOnlyPops
<1>10. Accounted(T)'
  BY <1>4, <1>6, <1>9 DEF Accounted
<1>11. DOMAIN operands' = {}
  BY <1>4, NoSlots
<1> QED
  BY <1>2, <1>4, <1>9, <1>10, <1>11, MentionedIs, StepKeeps

(* A scope is opened.                                                       *)
LEMMA EnterStep ==
  ASSUME NEW F, Good(F), OpenScope
  PROVE  Good(F)'
<1>1. todo # <<>> /\ Item.do = "enter"
  BY DEF OpenScope, Top, Item
<1>2. PICK S, T : /\ Accounted(S) /\ WellFormed(S) /\ WellFormed(T)
                  /\ Leads(program, Item, S, T) /\ Takes(program, Tail(todo), T, F)
  BY <1>1, NextItem
<1>3. T = State(S.height, S.values, S.scopes + 1, S.callers, S.clean)
  BY <1>1, <1>2 DEF Leads
<1>4. /\ frames' = Append(frames, <<>>) /\ Continue(<<>>) /\ program' = program
      /\ operands' = operands /\ saved' = saved /\ globals' = globals /\ live' = live /\ misused' = {}
  BY DEF OpenScope, HeapUntouched
<1>5. Sound(T, operands, frames', saved, globals, live)
  BY <1>2, <1>3, <1>4, OpenStep DEF Accounted
<1>6. Accounted(T)'
  BY <1>4, <1>5 DEF Accounted
<1>7. \A i \in DOMAIN frames' : \A x \in DOMAIN frames'[i] :
        i \in DOMAIN frames /\ frames'[i] = frames[i]
  <2>1. frames \in Seq(Slots)
    BY <1>2 DEF Accounted, Sound, Shaped
  <2>2. /\ frames' \in Seq(Slots) /\ Len(frames') = Len(frames) + 1
        /\ \A i \in 1 .. Len(frames) : frames'[i] = frames[i]
        /\ DOMAIN frames'[Len(frames) + 1] = {}
    BY <1>4, <2>1, NoSlots, AppendProperties
  <2>3. /\ DOMAIN frames = 1 .. Len(frames)
        /\ \A i \in DOMAIN frames' : i \in 1 .. Len(frames) \/ i = Len(frames) + 1
    BY <2>1, <2>2, LenProperties
  <2> QED
    BY <2>2, <2>3
<1> QED
  BY <1>2, <1>4, <1>6, <1>7, MentionedIs, StepKeeps

(* What the slots of a scope hold is freed, and the scope goes.             *)
LEMMA LeaveStep ==
  ASSUME NEW F, Good(F), LeaveScope
  PROVE  Good(F)'
<1>1. todo # <<>> /\ Item.do = "close"
  BY DEF LeaveScope, Top, Item
<1>2. PICK S, T : /\ Accounted(S) /\ WellFormed(S) /\ WellFormed(T)
                  /\ Leads(program, Item, S, T) /\ Takes(program, Tail(todo), T, F)
  BY <1>1, NextItem
<1>3. LeadsClose(S, T)
  BY <1>1, <1>2 DEF Leads
<1>4. /\ Heap({}, Inline, Last(frames)) /\ frames' = Front(frames) /\ Continue(<<>>)
      /\ program' = program /\ operands' = operands /\ saved' = saved /\ globals' = globals
  BY DEF LeaveScope
<1>5. live' = live \ Buffers(frames[Len(frames)]) /\ misused' = {}
  BY <1>2, <1>4, HeapCloses
<1>6. Sound(T, operands, frames', saved, globals, live')
  BY <1>2, <1>3, <1>4, <1>5, CloseStep DEF Accounted
<1>7. Accounted(T)'
  BY <1>4, <1>6 DEF Accounted
<1>8. \A i \in DOMAIN frames' : i \in DOMAIN frames /\ frames'[i] = frames[i]
  <2> DEFINE one == 1
  <2>1. frames \in Seq(Slots) /\ Len(frames) \in Nat \ {0} /\ DOMAIN frames = 1 .. Len(frames)
    BY <1>2, SoundFacts DEF Accounted, Sound, Shaped
  <2>2. one \in 0 .. Len(frames) /\ frames' = SubSeq(frames, 1, Len(frames) - one)
    BY <1>4, <2>1 DEF Front
  <2> HIDE DEF one
  <2>3. /\ frames' \in Seq(Slots) /\ Len(frames') = Len(frames) - one
        /\ \A i \in 1 .. Len(frames) - one : frames'[i] = frames[i]
    BY <2>1, <2>2, BelowIs
  <2>4. DOMAIN frames' = 1 .. Len(frames) - one
    BY <2>3, LenProperties
  <2>5. 1 .. Len(frames) - one \subseteq DOMAIN frames
    BY <2>1 DEF one
  <2> QED
    BY <2>3, <2>4, <2>5
<1> QED
  BY <1>2, <1>4, <1>5, <1>7, <1>8, MentionedIs, StepKeeps

(* A call opens the scope of the function, whose code leads back to the     *)
(* caller's stack.                                                          *)
LEMMA InvokeStep ==
  ASSUME NEW F, Good(F), InvokeFunction
  PROVE  Good(F)'
<1>1. todo # <<>> /\ Item.do = "invoke"
  BY DEF InvokeFunction, Top, Item
<1>2. PICK S, T : /\ Accounted(S) /\ WellFormed(S) /\ WellFormed(T)
                  /\ Leads(program, Item, S, T) /\ Takes(program, Tail(todo), T, F)
  BY <1>1, NextItem
<1> DEFINE name == Item.name
           callers == Append(S.callers, S.scopes)
           U == State(S.height, S.values, S.scopes + 1, S.callers, S.clean)
           V == State(S.height, S.values, S.scopes + 1, callers, S.clean)
           code == FunctionCode(program.functions[name])
<1>3. /\ name \in DOMAIN program.functions /\ Opened(S) /\ Spared(S, CallWrites(program, name))
      /\ T = IF program.functions[name].result.str THEN Pushed(S, Mine) ELSE S
  BY <1>1, <1>2 DEF Leads, LeadsInvoke
<1>4. /\ frames' = Append(frames, <<>>) /\ Continue(code) /\ program' = program
      /\ operands' = operands /\ saved' = Append(saved, Len(frames)) /\ globals' = globals
      /\ live' = live /\ misused' = {}
  BY DEF InvokeFunction, HeapUntouched
<1>5. Typed(program)
  BY KeptTyped DEF Good
<1>6. Takes(program, code, V, T)
  <2> HIDE DEF name
  <2> QED
    BY <1>2, <1>3, <1>5, FunctionExpands
<1> HIDE DEF code
<1>7. Takes(program', todo', V, F)
  BY <1>2, <1>4, <1>6, Continued
<1>8. Sound(U, operands, frames', saved, globals, live)
  BY <1>2, <1>4, OpenStep DEF Accounted
<1>9. U.height = S.height /\ U.values = S.values /\ U.scopes = S.scopes + 1 /\ U.clean = S.clean
  BY DEF State
<1>10. V = State(U.height, U.values, U.scopes, callers, U.clean)
  BY <1>9
<1>11. WellFormed(V)
  <2>1. PICK v : /\ v[1] = V
                 /\ \A i \in 1 .. Len(todo') + 1 : WellFormed(v[i])
    BY <1>7 DEF Takes
  <2>2. Len(todo') \in Nat
    BY <1>7, LenProperties DEF Takes
  <2> HIDE DEF V
  <2> QED
    BY <2>1, <2>2
<1> HIDE DEF U, V
<1>12. Sound(V, operands, frames', callers, globals, live)
  <2> HIDE DEF callers
  <2> QED
    BY <1>8, <1>10, <1>11, CallStep
<1>13. callers = saved'
  BY <1>2, <1>4 DEF Accounted, Sound
<1>14. Accounted(V)'
  BY <1>4, <1>12, <1>13 DEF Accounted
<1>15. \A i \in DOMAIN frames' : \A x \in DOMAIN frames'[i] :
         i \in DOMAIN frames /\ frames'[i] = frames[i]
  <2>1. frames \in Seq(Slots)
    BY <1>2 DEF Accounted, Sound, Shaped
  <2>2. /\ frames' \in Seq(Slots) /\ Len(frames') = Len(frames) + 1
        /\ \A i \in 1 .. Len(frames) : frames'[i] = frames[i]
        /\ DOMAIN frames'[Len(frames) + 1] = {}
    BY <1>4, <2>1, NoSlots, AppendProperties
  <2>3. /\ DOMAIN frames = 1 .. Len(frames)
        /\ \A i \in DOMAIN frames' : i \in 1 .. Len(frames) \/ i = Len(frames) + 1
    BY <2>1, <2>2, LenProperties
  <2> QED
    BY <2>2, <2>3
<1>16. IsFiniteSet(Mentioned')
  <2>1. \A i \in DOMAIN operands' : operands'[i].buffer \in Mentioned \cup {Inline, Inline}
    BY <1>4, MentionedIs
  <2>2. \A i \in DOMAIN frames' : \A x \in DOMAIN frames'[i] :
          frames'[i][x] \in Mentioned \cup {Inline, Inline}
    BY <1>15, MentionedIs
  <2>3. \A x \in DOMAIN globals' : globals'[x] \in Mentioned \cup {Inline, Inline}
    BY <1>4, MentionedIs
  <2>4. IsFiniteSet(Mentioned)
    BY DEF Good, Kept
  <2> QED
    BY <2>1, <2>2, <2>3, <2>4, MentionedGrows
<1>17. Kept'
  <2>1. DOMAIN globals' = DOMAIN globals /\ live' \subseteq live \cup {Inline}
    BY <1>4
  <2> QED
    BY <1>4, <1>16, <2>1, KeptStays DEF Good
<1> QED
  BY <1>4, <1>7, <1>14, <1>17 DEF Good, Arrives, CarefulUse

(* The call is over.                                                        *)
LEMMA ReturnStep ==
  ASSUME NEW F, Good(F), ReturnToCaller
  PROVE  Good(F)'
<1>1. todo # <<>> /\ Item.do = "back"
  BY DEF ReturnToCaller, Top, Item
<1>2. PICK S, T : /\ Accounted(S) /\ WellFormed(S) /\ WellFormed(T)
                  /\ Leads(program, Item, S, T) /\ Takes(program, Tail(todo), T, F)
  BY <1>1, NextItem
<1> DEFINE calls == SubSeq(S.callers, 1, Len(S.callers) - 1)
<1>3. T = State(S.height, S.values, S.scopes, calls, S.clean)
  BY <1>1, <1>2 DEF Leads, LeadsBack
<1>4. calls = Front(saved)
  BY <1>2 DEF Accounted, Sound, Front
<1>5. /\ Continue(<<>>) /\ saved' = Front(saved) /\ program' = program /\ frames' = frames
      /\ operands' = operands /\ globals' = globals /\ live' = live /\ misused' = {}
  BY DEF ReturnToCaller, HeapUntouched
<1> HIDE DEF calls
<1>6. Sound(T, operands, frames, calls, globals, live)
  BY <1>2, <1>3, CallStep DEF Accounted
<1>7. Accounted(T)'
  BY <1>4, <1>5, <1>6 DEF Accounted
<1> QED
  BY <1>2, <1>5, <1>7, MentionedIs, StepKeeps

(* The end of the entry function empties its scope and the globals.         *)
LEMMA FinishEntryStep ==
  ASSUME NEW F, Good(F), FinishEntry
  PROVE  Good(F)'
<1>1. todo # <<>> /\ Item.do = "finish"
  BY DEF FinishEntry, Top, Item
<1>2. PICK S, T : /\ Accounted(S) /\ WellFormed(S) /\ WellFormed(T)
                  /\ Leads(program, Item, S, T) /\ Takes(program, Tail(todo), T, F)
  BY <1>1, NextItem
<1>3. LeadsFinish(S, T) /\ S.scopes = 1
  BY <1>1, <1>2 DEF Leads, LeadsFinish
<1> DEFINE slots == [x \in DOMAIN Last(frames) |-> Inline]
<1>4. /\ Heap({}, Inline, TopSlots) /\ frames' = Append(Front(frames), slots) /\ Continue(<<>>)
      /\ globals' = [x \in DOMAIN globals |-> Inline]
      /\ program' = program /\ operands' = operands /\ saved' = saved
  BY DEF FinishEntry
<1>5. /\ frames \in Seq(Slots) /\ Len(frames) = 1 /\ DOMAIN frames = 1 .. Len(frames)
      /\ globals \in [DOMAIN globals -> Nat]
  BY <1>2, <1>3, SoundFacts DEF Accounted, Sound, Shaped
<1>6. slots \in Slots /\ DOMAIN slots = DOMAIN frames[1]
  <2>1. Last(frames) = frames[1] /\ frames[1] \in Slots
    BY <1>5, ElementOfSeq DEF Last
  <2>2. PICK D \in SUBSET Symbol : frames[1] \in [D -> Nat]
    BY <2>1 DEF Slots
  <2>3. slots \in [D -> Nat]
    BY <2>1, <2>2 DEF Inline
  <2> QED
    BY <2>1, <2>2, <2>3 DEF Slots
<1>7. \A x \in DOMAIN slots : slots[x] = Inline
  OBVIOUS
<1> HIDE DEF slots
<1>8. /\ frames' \in Seq(Slots) /\ Len(frames') = 1 /\ DOMAIN frames' = 1 .. 1
      /\ frames'[1] = slots
  <2> DEFINE one == 1
             rest == SubSeq(frames, 1, Len(frames) - one)
  <2>1. one \in 0 .. Len(frames)
    BY <1>5
  <2>2. Front(frames) = rest
    BY DEF Front
  <2> HIDE DEF one
  <2>3. rest \in Seq(Slots) /\ Len(rest) = Len(frames) - one
    BY <1>5, <2>1, BelowIs
  <2> HIDE DEF rest
  <2>4. Len(rest) = 0
    BY <1>5, <2>3 DEF one
  <2>5. /\ frames' \in Seq(Slots) /\ Len(frames') = Len(rest) + 1 /\ frames'[Len(rest) + 1] = slots
    BY <1>4, <1>6, <2>2, <2>3, AppendProperties
  <2>6. DOMAIN frames' = 1 .. Len(frames')
    BY <2>5, LenProperties
  <2> QED
    BY <2>4, <2>5, <2>6
<1>9. Emptied(frames', globals')
  <2>1. \A i \in DOMAIN frames' : i = 1
    BY <1>8
  <2> QED
    BY <1>4, <1>7, <1>8, <2>1 DEF Emptied
<1>10. globals' \in [DOMAIN globals -> Nat]
  BY <1>4 DEF Inline
<1>11. Sound(T, operands, frames', saved, globals', live \ (Buffers(frames[1]) \cup Buffers(globals)))
  BY <1>2, <1>3, <1>6, <1>8, <1>9, <1>10, FinishStep DEF Accounted
<1>12. live' = live \ (Buffers(frames[1]) \cup Buffers(globals)) /\ misused' = {}
  BY <1>2, <1>4, <1>5, HeapEmpties
<1>13. Accounted(T)'
  BY <1>4, <1>11, <1>12 DEF Accounted
<1>14. DOMAIN globals' = DOMAIN globals
  BY <1>4
<1> QED
  BY <1>2, <1>4, <1>9, <1>12, <1>13, <1>14, MentionedIs, StepKeeps DEF Emptied

(* A store mentions what it stores, and else what was mentioned before.     *)
LEMMA StoredMentions ==
  ASSUME frames \in Seq(Slots), globals \in [DOMAIN globals -> Nat], NEW place, NEW floor, NEW old,
         NEW b, Stored(place, floor, frames, globals, frames', globals', old, b)
  PROVE  /\ \A i \in DOMAIN frames' : \A x \in DOMAIN frames'[i] :
              frames'[i][x] \in Mentioned \cup {b, Inline}
         /\ \A x \in DOMAIN globals' : globals'[x] \in Mentioned \cup {b, Inline}
         /\ DOMAIN globals' = DOMAIN globals
<1>1. CASE StoredLocally(place, floor, frames, globals, frames', globals', old, b)
  <2>1. globals' = globals
    BY <1>1 DEF StoredLocally
  <2>2. PICK n \in Nat : WithSlot(frames, frames', n, place.sym, b)
    BY <1>1 DEF StoredLocally
  <2>3. ASSUME NEW i \in DOMAIN frames', NEW x \in DOMAIN frames'[i]
        PROVE  frames'[i][x] \in Mentioned \cup {b, Inline}
    <3>1. CASE i = n
      BY <2>2, <2>3, <3>1, MentionedIs DEF WithSlot
    <3>2. CASE i # n
      <4>1. i \in DOMAIN frames /\ frames'[i] = frames[i]
        BY <2>2, <2>3, <3>2 DEF WithSlot
      <4> QED
        BY <2>3, <4>1, MentionedIs
    <3> QED
      BY <3>1, <3>2
  <2> QED
    BY <2>1, <2>3, MentionedIs
<1>2. CASE StoredGlobally(place, floor, frames, globals, frames', globals', old, b)
  <2>1. frames' = frames /\ globals' = [globals EXCEPT ![place.sym] = b]
    BY <1>2 DEF StoredGlobally
  <2>2. DOMAIN globals' = DOMAIN globals
    BY <2>1
  <2>3. ASSUME NEW x \in DOMAIN globals'
        PROVE  globals'[x] \in Mentioned \cup {b, Inline}
    <3>1. globals'[x] = b \/ globals'[x] = globals[x]
      BY <2>1, <2>2, <2>3
    <3> QED
      BY <2>2, <2>3, <3>1, MentionedIs
  <2> QED
    BY <2>1, <2>2, <2>3, MentionedIs
<1> QED
  BY <1>1, <1>2 DEF Stored

(* The value of the first group moves into its slot.                        *)
LEMMA MoveKeeps ==
  ASSUME NEW F, Good(F), NEW S, Accounted(S), Opened(S),
         NEW place, IsPlace(program, place), NEW i \in 1 .. Len(operands), S.values[i] = Mine,
         \A j \in 1 .. S.height : j # i => ~Hit(S.values[j], place, Floor(S)),
         NEW k \in {Spent, Lent(place.sym, S.scopes)},
         NEW T, WellFormed(T), T = Become(S, i, k), Takes(program, Tail(todo), T, F),
         Continue(<<>>), program' = program, saved' = saved,
         Heap({}, Inline, <<Holds(place)>>), SetSlot(place, operands[i].buffer),
         operands' = [operands EXCEPT ![i].owned = FALSE]
  PROVE  Good(F)'
<1> DEFINE old == Holds(place)
           b == operands[i].buffer
           floor == Floor(S)
<1>1. SlotsKnown /\ floor = CallersScopes /\ floor \in Nat
  BY SoundSlots DEF Good, Kept, Accounted, SlotsKnown
<1>2. operands \in Seq(Descriptors) /\ operands[i] \in Descriptors /\ DOMAIN operands = 1 .. Len(operands)
  BY SoundFacts DEF Accounted, Sound, Shaped
<1>3. b \in Nat
  BY <1>2 DEF Descriptors
<1>4. Stored(place, floor, frames, globals, frames', globals', old, b)
  BY <1>1, <1>3, SlotStored
<1> HIDE DEF old, floor
<1>5. old = Inline \/ old \in live
  BY <1>4, StoredOver DEF Accounted
<1>6. live' = ((live \cup {Inline}) \ {Inline}) \ {old} /\ misused' = {}
  <2> DEFINE none == {}
             made == Inline
  <2>1. Heap(none, made, <<old>>) /\ \A c \in none : c = Inline \/ c \in live
    BY DEF old
  <2> HIDE DEF none, made
  <2>2. live' = ((live \cup {made}) \ {Inline}) \ {old} /\ misused' = {}
    BY <1>5, <2>1, HeapReplaces
  <2> QED
    BY <2>2 DEF made
<1>7. live' = live \ {old}
  <2>1. Inline \notin live
    BY OwnersOf
  <2> QED
    BY <1>6, <2>1
<1>8. Sound(T, operands', frames', saved, globals', live \ {old})
  <2>1. Sound(Become(S, i, k), [operands EXCEPT ![i].owned = FALSE], frames', saved, globals',
              live \ {old})
    <3>1. Stored(place, Floor(S), frames, globals, frames', globals', old, operands[i].buffer)
      BY <1>4 DEF floor
    <3>2. ~S.clean /\ place.sym \in Symbol /\ Floor(S) \in Nat
      BY <1>1 DEF Opened, IsPlace, floor
    <3> QED
      BY <3>1, <3>2, MoveStep DEF Accounted
  <2> QED
    BY <2>1
<1>9. Accounted(T)'
  BY <1>7, <1>8 DEF Accounted
<1>10. \A j \in DOMAIN operands' : operands'[j].buffer \in Mentioned \cup {b, Inline}
  <2>1. \A j \in DOMAIN operands' : j \in DOMAIN operands /\ operands'[j].buffer = operands[j].buffer
    BY <1>2 DEF Descriptors
  <2> QED
    BY <2>1, MentionedIs
<1>11. /\ \A j \in DOMAIN frames' : \A x \in DOMAIN frames'[j] :
            frames'[j][x] \in Mentioned \cup {b, Inline}
       /\ \A x \in DOMAIN globals' : globals'[x] \in Mentioned \cup {b, Inline}
       /\ DOMAIN globals' = DOMAIN globals
  BY <1>4, StoredMentions DEF Accounted, Sound, Shaped
<1>12. live' \subseteq live \cup {b}
  BY <1>7
<1> HIDE DEF b
<1> QED
  BY <1>6, <1>9, <1>10, <1>11, <1>12, StepKeeps

(* The slots of later groups get copies.                                    *)
LEMMA CopyKeeps ==
  ASSUME NEW F, Good(F), NEW S, Accounted(S), Opened(S),
         NEW place, IsPlace(program, place), NEW i \in 1 .. Len(operands), Unowned(S.values[i]),
         Careful(program) => Readable(S.values[i]),
         \A j \in 1 .. S.height : j # i => ~Hit(S.values[j], place, Floor(S)),
         NEW k, MayBecome(k, S.values[i], place, Floor(S)),
         NEW T, WellFormed(T), T = Become(S, i, k), Takes(program, Tail(todo), T, F),
         Continue(<<>>), program' = program, saved' = saved, operands' = operands,
         NEW made \in {Inline, Fresh},
         Heap({operands[i].buffer}, made, <<Holds(place)>>), SetSlot(place, made)
  PROVE  Good(F)'
<1> DEFINE old == Holds(place)
           floor == Floor(S)
           read == {operands[i].buffer}
<1>1. SlotsKnown /\ floor = CallersScopes /\ floor \in Nat
  BY SoundSlots DEF Good, Kept, Accounted, SlotsKnown
<1>2. made \in Nat /\ made \notin live
  BY NewBuffer
<1>3. Stored(place, floor, frames, globals, frames', globals', old, made)
  BY <1>1, <1>2, SlotStored
<1>4. Heap(read, made, <<old>>)
  OBVIOUS
<1> HIDE DEF old, floor
<1>5. old = Inline \/ old \in live
  BY <1>3, StoredOver DEF Accounted
<1>6. Careful(program) => \A c \in read : c = Inline \/ c \in live
  <2>1. ASSUME Careful(program)
        PROVE  operands[i].buffer = Inline \/ operands[i].buffer \in live
    BY <2>1, ReadableIsLive DEF Accounted
  <2> QED
    BY <2>1
<1> HIDE DEF read
<1>7. /\ live' = ((live \cup {made}) \ {Inline}) \ {old}
      /\ (\A c \in read : c = Inline \/ c \in live) => misused' = {}
  BY <1>4, <1>5, HeapReplaces
<1>8. Sound(T, operands, frames', saved, globals', live')
  <2>1. Sound(Become(S, i, k), operands, frames', saved, globals',
              ((live \cup {made}) \ {Inline}) \ {old})
    <3>1. Stored(place, Floor(S), frames, globals, frames', globals', old, made)
      BY <1>3 DEF floor
    <3>2. ~S.clean /\ Floor(S) \in Nat
      BY <1>1 DEF Opened, floor
    <3>3. Sound(S, operands, frames, saved, globals, live)
      BY DEF Accounted
    <3>4. /\ Unowned(S.values[i]) /\ MayBecome(k, S.values[i], place, Floor(S))
          /\ \A j \in 1 .. S.height : j # i => ~Hit(S.values[j], place, Floor(S))
      OBVIOUS
    <3> QED
      BY <1>2, <3>1, <3>2, <3>3, <3>4, CopyStep
  <2> QED
    BY <1>7, <2>1
<1>9. Accounted(T)'
  BY <1>8 DEF Accounted
<1>10. \A j \in DOMAIN operands' : operands'[j].buffer \in Mentioned \cup {made, Inline}
  BY MentionedIs
<1>11. /\ \A j \in DOMAIN frames' : \A x \in DOMAIN frames'[j] :
            frames'[j][x] \in Mentioned \cup {made, Inline}
       /\ \A x \in DOMAIN globals' : globals'[x] \in Mentioned \cup {made, Inline}
       /\ DOMAIN globals' = DOMAIN globals
  BY <1>3, StoredMentions DEF Accounted, Sound, Shaped
<1>12. live' \subseteq live \cup {made}
  BY <1>7
<1> QED
  BY <1>6, <1>7, <1>9, <1>10, <1>11, <1>12, StepKeeps

(* A store of an assignment, for the first group or a later one.            *)
LEMMA StoreStep ==
  ASSUME NEW F, Good(F), StoreValue
  PROVE  Good(F)'
<1>1. todo # <<>> /\ Item.do = "store"
  BY DEF StoreValue, Top, Item
<1>2. PICK S, T : /\ Accounted(S) /\ WellFormed(S) /\ WellFormed(T)
                  /\ Leads(program, Item, S, T) /\ Takes(program, Tail(todo), T, F)
  BY <1>1, NextItem
<1>3. LeadsStore(program, Item.place, Item.first, Item.back, S, T)
  BY <1>1, <1>2 DEF Leads
<1> DEFINE place == Item.place
           i == Len(operands) - Item.back
<1>4. S.height = Len(operands) /\ Len(operands) \in Nat
  BY <1>2, SoundFacts DEF Accounted, Sound
<1>5. i \in 1 .. Len(operands) /\ i = S.height - Item.back
  BY <1>3, <1>4 DEF LeadsStore
<1>6. /\ IsPlace(program, place) /\ Opened(S)
      /\ \A j \in 1 .. S.height : j # i => ~Hit(S.values[j], place, Floor(S))
  BY <1>3, <1>5 DEF LeadsStore
<1>7. Continue(<<>>) /\ program' = program /\ saved' = saved
  BY DEF StoreValue
<1>8. CASE Item.first
  <2>1. /\ Heap({}, Inline, <<Holds(place)>>) /\ SetSlot(place, operands[i].buffer)
        /\ operands' = [operands EXCEPT ![i].owned = FALSE]
    BY <1>8 DEF StoreValue
  <2>2. S.values[i] = Mine /\ \E k \in {Spent, Lent(place.sym, S.scopes)} : T = Become(S, i, k)
    BY <1>3, <1>5, <1>8 DEF LeadsStore
  <2> HIDE DEF place, i
  <2> QED
    BY <1>2, <1>5, <1>6, <1>7, <2>1, <2>2, MoveKeeps
<1>9. CASE ~Item.first
  <2>1. PICK made \in Homes(<<operands[i]>>) :
          /\ Heap({operands[i].buffer}, made, <<Holds(place)>>) /\ SetSlot(place, made)
          /\ operands' = operands
    BY <1>9 DEF StoreValue
  <2>2. made \in {Inline, Fresh}
    BY HomesAre
  <2>3. /\ Unowned(S.values[i])
        /\ Careful(program) => Readable(S.values[i])
        /\ \E k : MayBecome(k, S.values[i], place, Floor(S)) /\ T = Become(S, i, k)
    BY <1>3, <1>5, <1>9 DEF LeadsStore, Unowned, MayBecome
  <2> HIDE DEF place, i
  <2> QED
    BY <1>2, <1>5, <1>6, <1>7, <2>1, <2>2, <2>3, CopyKeeps
<1> QED
  BY <1>8, <1>9

(* Every step of a program.                                                 *)
LEMMA ProgramKeeps ==
  ASSUME NEW F, Good(F), Next
  PROVE  Good(F)'
<1>1. CASE Expand
  BY <1>1, ExpandStep
<1>2. CASE MakeLiteral \/ RenderScalar
  BY <1>2, MakeStep
<1>3. CASE LoadSlot
  BY <1>3, LoadStep
<1>4. CASE JoinParts
  BY <1>4, JoinStep
<1>5. CASE TakeOwnership
  BY <1>5, OwnStep
<1>6. CASE InspectOperands
  BY <1>6, InspectStep
<1>7. CASE StoreValue
  BY <1>7, StoreStep
<1>8. CASE DropValues
  BY <1>8, DropStep
<1>9. CASE DiscardValue
  BY <1>9, DiscardStep
<1>10. CASE Branch
  BY <1>10, BranchStep
<1>11. CASE OpenScope
  BY <1>11, EnterStep
<1>12. CASE LeaveScope
  BY <1>12, LeaveStep
<1>13. CASE InvokeFunction
  BY <1>13, InvokeStep
<1>14. CASE ReturnToCaller
  BY <1>14, ReturnStep
<1>15. CASE FinishEntry
  BY <1>15, FinishEntryStep
<1>16. CASE HostTakesResult
  BY <1>16, HostTakesStep
<1> QED
  BY <1>1, <1>2, <1>3, <1>4, <1>5, <1>6, <1>7, <1>8, <1>9, <1>10, <1>11, <1>12, <1>13, <1>14,
     <1>15, <1>16 DEF Next

-----------------------------------------------------------------------------
(* The host.                                                                *)

(* Where no code is left the memory fits the stack the code led to.         *)
LEMMA AtTheEnd ==
  ASSUME NEW F, Good(F), todo = <<>>
  PROVE  Accounted(F) /\ WellFormed(F)
<1>1. PICK S : Accounted(S) /\ Takes(program, todo, S, F)
  BY DEF Good, Arrives
<1>2. S = F
  BY <1>1, CodeEnd
<1> QED
  BY <1>1, <1>2 DEF Accounted, Sound

(* Where only the host takes a step, the run stays as it is.                *)
LEMMA GoodStays ==
  ASSUME NEW F, Good(F), UNCHANGED vars
  PROVE  Good(F)'
<1>1. /\ program' = program /\ todo' = todo /\ operands' = operands /\ frames' = frames
      /\ saved' = saved /\ globals' = globals /\ live' = live /\ misused' = misused
  BY DEF vars
<1>2. DeclaredGlobals(program)' = DeclaredGlobals(program) /\ Mentioned' = Mentioned
  BY <1>1 DEF DeclaredGlobals, Mentioned, Buffers
<1>3. Kept'
  BY <1>1, <1>2 DEF Good, Kept
<1>4. PICK S : Accounted(S) /\ Takes(program, todo, S, F)
  BY DEF Good, Arrives
<1>5. Accounted(S)' /\ Takes(program', todo', S, F)
  BY <1>1, <1>4 DEF Accounted
<1>6. CarefulUse'
  BY <1>1 DEF Good, CarefulUse
<1> QED
  BY <1>3, <1>5, <1>6 DEF Good, Arrives

(* The code of a run is in front of an empty stack.                         *)
LEMMA RunBegins ==
  ASSUME Kept, CarefulUse, todo = EntryCode(program), Accounted(Start)
  PROVE  \E F : Good(F) /\ Ended(F)
<1>1. Typed(program)
  BY KeptTyped
<1>2. PICK F : Ended(F) /\ Takes(program, todo, Start, F)
  BY <1>1, EntryExpands
<1> QED
  BY <1>2 DEF Good, Arrives

(* The invariant.  The code that is left leads to a balanced end; after an  *)
(* error, nothing is left of the stack, and the globals are in order.       *)
HostInv ==
  /\ lost \in Nat
  /\ outcome \in {"running", "value", "error"}
  /\ outcome # "running" => todo = <<>>
  /\ \E F : Good(F) /\ IF outcome = "error" THEN F = Start /\ frames = <<<<>>>> ELSE Ended(F)

(* Where nothing is allocated the account is in order.                      *)
LEMMA EmptyMemory ==
  ASSUME NEW glo, glo \in [DOMAIN glo -> {Inline}]
  PROVE  Ledger(<<>>, <<<<>>>>, glo, {})
<1> DEFINE P == Holders(<<>>, <<<<>>>>, glo)
           h == Holding(<<>>, <<<<>>>>, glo)
           none == <<>>
           more == <<<<>>>>
<1>1. OwnerMap(P, h, none, more, glo)
  BY HoldersAre
<1>2. DOMAIN none = {} /\ \A i \in DOMAIN more : DOMAIN more[i] = {}
  BY NoSlots, OneScope
<1> HIDE DEF P, h, none, more
<1>3. \A o \in P : h[o] = Inline
  BY <1>1, <1>2 DEF OwnerMap
<1>4. Account(P, h, {})
  BY <1>3 DEF Account
<1> QED
  BY <1>4 DEF Ledger, P, h

(* The invariant holds before the first run.                                *)
LEMMA HostBegins ==
  ASSUME HostInit
  PROVE  HostInv
<1>1. /\ program \in {ProgramNamed(name) : name \in Name} /\ todo = EntryCode(program)
      /\ operands = <<>> /\ frames = <<<<>>>> /\ saved = <<>> /\ live = {} /\ misused = {}
      /\ globals = [x \in DeclaredGlobals(program) |-> Inline]
      /\ outcome = "running" /\ lost = 0
  BY DEF HostInit, Init
<1>2. globals \in [DOMAIN globals -> {Inline}] /\ globals \in [DOMAIN globals -> Nat]
  BY <1>1 DEF Inline
<1>3. Ledger(<<>>, <<<<>>>>, globals, {})
  BY <1>2, EmptyMemory
<1>4. Sound(Start, <<>>, <<<<>>>>, <<>>, globals, {})
  BY <1>2, <1>3, StartStep
<1>5. Accounted(Start)
  BY <1>1, <1>4 DEF Accounted
<1>6. Kept
  <2>1. DOMAIN operands = {} /\ \A i \in DOMAIN frames : DOMAIN frames[i] = {}
    BY <1>1, NoSlots, OneScope
  <2>2. Mentioned \subseteq {Inline}
    BY <1>2, <2>1 DEF Mentioned, Buffers
  <2>3. IsFiniteSet({Inline}) /\ IsFiniteSet({})
    BY FS_Singleton, FS_EmptySet
  <2>4. IsFiniteSet(Mentioned)
    BY <2>2, <2>3, FS_Subset
  <2> QED
    BY <1>1, <2>3, <2>4 DEF Kept
<1>7. \E F : Good(F) /\ Ended(F)
  BY <1>1, <1>5, <1>6, RunBegins DEF CarefulUse
<1> QED
  BY <1>1, <1>7 DEF HostInv

(* An error takes the stack away: what the globals hold is in order.        *)
LEMMA ErrorKeeps ==
  ASSUME HostInv, RuntimeError
  PROVE  HostInv'
<1>1. PICK F : Good(F)
  BY DEF HostInv
<1>2. /\ outcome' = "error" /\ todo' = <<>> /\ operands' = <<>> /\ frames' = <<<<>>>>
      /\ saved' = <<>> /\ live' = live \cap Buffers(globals) /\ misused' = {}
      /\ lost' = lost + Cardinality(live \ Buffers(globals))
      /\ program' = program /\ globals' = globals
  BY DEF RuntimeError
<1>3. PICK S : Accounted(S)
  BY <1>1 DEF Good, Arrives
<1>4. Sound(Start, <<>>, <<<<>>>>, <<>>, globals, live \cap Buffers(globals))
  BY <1>3, FailStep DEF Accounted
<1>5. Accounted(Start)'
  BY <1>2, <1>4 DEF Accounted
<1>6. Takes(program', todo', Start, Start)
  BY <1>2, Starting, CodeEmpty
<1>7. IsFiniteSet(live \ Buffers(globals)) /\ IsFiniteSet(Mentioned)
  BY <1>1, FS_Subset DEF Good, Kept
<1>8. lost' \in Nat
  BY <1>2, <1>7, FS_CardinalityType DEF HostInv
<1>9. Kept'
  <2>1. DOMAIN operands' = {} /\ \A i \in DOMAIN frames' : DOMAIN frames'[i] = {}
    BY <1>2, NoSlots, OneScope
  <2>2. /\ \A i \in DOMAIN operands' : operands'[i].buffer \in Mentioned \cup {Inline, Inline}
        /\ \A i \in DOMAIN frames' : \A x \in DOMAIN frames'[i] :
             frames'[i][x] \in Mentioned \cup {Inline, Inline}
        /\ \A x \in DOMAIN globals' : globals'[x] \in Mentioned \cup {Inline, Inline}
    BY <1>2, <2>1, MentionedIs
  <2>3. IsFiniteSet(Mentioned')
    BY <1>7, <2>2, MentionedGrows
  <2>4. DOMAIN globals' = DOMAIN globals /\ live' \subseteq live \cup {Inline}
    BY <1>2
  <2> QED
    BY <1>1, <1>2, <2>3, <2>4, KeptStays DEF Good
<1>10. Good(Start)'
  BY <1>2, <1>5, <1>6, <1>9 DEF Good, Arrives, CarefulUse
<1> QED
  BY <1>2, <1>8, <1>10 DEF HostInv

(* The next run finds the globals as the last one left them.                *)
LEMMA AgainKeeps ==
  ASSUME HostInv, RunAgain
  PROVE  HostInv'
<1>1. PICK F : /\ Good(F)
               /\ IF outcome = "error" THEN F = Start /\ frames = <<<<>>>> ELSE Ended(F)
  BY DEF HostInv
<1>2. /\ outcome' = "running" /\ todo' = EntryCode(program) /\ frames' = <<<<>>>>
      /\ misused' = {} /\ live' = live /\ program' = program /\ operands' = operands
      /\ saved' = saved /\ globals' = globals /\ lost' = lost
  BY DEF RunAgain, HeapUntouched
<1>3. todo = <<>>
  BY DEF HostInv, RunAgain
<1>4. Accounted(F) /\ WellFormed(F)
  BY <1>1, <1>3, AtTheEnd
<1>5. operands = <<>> /\ saved = <<>>
  <2>1. F.height = 0 /\ F.callers = <<>>
    BY <1>1, Starting DEF Ended, Start, State
  <2>2. operands \in Seq(Descriptors) /\ Len(operands) = 0 /\ saved = <<>>
    BY <1>4, <2>1 DEF Accounted, Sound, Shaped
  <2> QED
    BY <2>2, EmptySeq
<1>6. Sound(Start, <<>>, <<<<>>>>, <<>>, globals, live)
  <2>1. CASE outcome = "error"
    BY <1>1, <1>4, <1>5, <2>1 DEF Accounted
  <2>2. CASE outcome # "error"
    BY <1>1, <1>4, <2>2, RestartStep DEF Accounted
  <2> QED
    BY <2>1, <2>2
<1>7. Accounted(Start)'
  BY <1>2, <1>5, <1>6 DEF Accounted
<1>8. Kept'
  <2>1. DOMAIN frames' = 1 .. 1 /\ \A i \in DOMAIN frames' : DOMAIN frames'[i] = {}
    BY <1>2, OneScope, LenProperties
  <2>2. /\ \A i \in DOMAIN operands' : operands'[i].buffer \in Mentioned \cup {Inline, Inline}
        /\ \A i \in DOMAIN frames' : \A x \in DOMAIN frames'[i] :
             frames'[i][x] \in Mentioned \cup {Inline, Inline}
        /\ \A x \in DOMAIN globals' : globals'[x] \in Mentioned \cup {Inline, Inline}
    BY <1>2, <2>1, MentionedIs
  <2>3. IsFiniteSet(Mentioned')
    BY <1>1, <2>2, MentionedGrows DEF Good, Kept
  <2>4. DOMAIN globals' = DOMAIN globals /\ live' \subseteq live \cup {Inline}
    BY <1>2
  <2> QED
    BY <1>1, <1>2, <2>3, <2>4, KeptStays DEF Good
<1>9. (\E G : Good(G) /\ Ended(G))'
  <2>1. CarefulUse' /\ todo' = EntryCode(program')
    BY <1>2 DEF CarefulUse
  <2>2. Typed(program')
    BY <1>1, <1>2, KeptTyped DEF Good
  <2>3. PICK G : Ended(G) /\ Takes(program', todo', Start, G)
    BY <2>1, <2>2, EntryExpands
  <2> QED
    BY <1>7, <1>8, <2>1, <2>3 DEF Good, Arrives
<1> QED
  BY <1>2, <1>9 DEF HostInv

(* Every step of the program and of the host keeps it.                      *)
LEMMA HostKeeps ==
  ASSUME HostInv, [HostNext]_<<vars, hostVars>>
  PROVE  HostInv'
<1>1. PICK F : /\ Good(F)
               /\ IF outcome = "error" THEN F = Start /\ frames = <<<<>>>> ELSE Ended(F)
  BY DEF HostInv
<1>2. CASE ProgramStep
  <2>1. Next /\ outcome' = outcome /\ lost' = lost
    BY <1>2 DEF ProgramStep, hostVars
  <2>2. Good(F)'
    BY <1>1, <2>1, ProgramKeeps
  <2>3. todo # <<>>
    BY <2>1 DEF Next, Expand, MakeLiteral, RenderScalar, LoadSlot, JoinParts, TakeOwnership,
      InspectOperands, StoreValue, DropValues, DiscardValue, Branch, OpenScope, LeaveScope,
      InvokeFunction, ReturnToCaller, FinishEntry, HostTakesResult, Top
  <2>4. outcome = "running"
    BY <2>3 DEF HostInv
  <2> QED
    BY <1>1, <2>1, <2>2, <2>4 DEF HostInv
<1>3. CASE RuntimeError
  BY <1>3, ErrorKeeps
<1>4. CASE RunEnds
  <2>1. UNCHANGED vars /\ todo' = <<>> /\ outcome = "running" /\ outcome' = "value" /\ lost' = lost
    BY <1>4 DEF RunEnds, vars
  <2>2. Good(F)'
    BY <1>1, <2>1, GoodStays
  <2> QED
    BY <1>1, <2>1, <2>2 DEF HostInv
<1>5. CASE RunAgain
  BY <1>5, AgainKeeps
<1>6. CASE UNCHANGED <<vars, hostVars>>
  <2>1. UNCHANGED vars /\ outcome' = outcome /\ lost' = lost /\ todo' = todo /\ frames' = frames
    BY <1>6 DEF vars, hostVars
  <2>2. Good(F)'
    BY <1>1, <2>1, GoodStays
  <2> QED
    BY <1>1, <2>1, <2>2 DEF HostInv
<1> QED
  BY <1>2, <1>3, <1>4, <1>5, <1>6 DEF HostNext

(* HostInv holds however often the host runs the program.                   *)
THEOREM HostInvariant ==
  HostSpec => []HostInv
<1>1. HostInit => HostInv
  BY HostBegins
<1>2. HostInv /\ [HostNext]_<<vars, hostVars>> => HostInv'
  BY HostKeeps
<1> QED
  BY <1>1, <1>2, PTL DEF HostSpec

-----------------------------------------------------------------------------
(* What it gives.                                                           *)

(* The memory fits some stack.                                              *)
LEMMA InvAccounts ==
  ASSUME HostInv
  PROVE  \E S : Accounted(S)
BY DEF HostInv, Good, Arrives

(* The invariant gives types and balance.                                   *)
LEMMA InvTypes ==
  ASSUME HostInv
  PROVE  TypeOK
<1>1. PICK S : Accounted(S)
  BY InvAccounts
<1>2. live \subseteq Nat \ {Inline}
  BY <1>1, SoundFacts DEF Accounted
<1>3. ASSUME NEW i \in DOMAIN saved
      PROVE  saved[i] \in 1 .. Len(frames)
  <2>1. Nested(S.callers, S.scopes) /\ S.callers = saved /\ S.scopes = Len(frames)
    BY <1>1 DEF Accounted, Sound, WellFormed
  <2>2. saved \in Seq(Nat \ {0}) /\ \A j \in 1 .. Len(saved) : saved[j] <= Len(frames)
    BY <2>1 DEF Nested
  <2>3. i \in 1 .. Len(saved) /\ saved[i] \in Nat \ {0}
    BY <1>3, <2>2, LenProperties, ElementOfSeq
  <2>4. Len(frames) \in Nat
    BY <1>1, SoundFacts DEF Accounted
  <2> QED
    BY <2>2, <2>3, <2>4
<1>4. \A i \in DOMAIN operands : operands[i].buffer \in Nat
  BY <1>1, SoundFacts DEF Accounted, Descriptors
<1>5. ASSUME todo = <<>>
      PROVE  operands = <<>> /\ Len(frames) = 1 /\ saved = <<>>
  <2>1. PICK F : /\ Good(F)
                 /\ IF outcome = "error" THEN F = Start /\ frames = <<<<>>>> ELSE Ended(F)
    BY DEF HostInv
  <2>2. F.height = 0 /\ F.scopes = 1 /\ F.callers = <<>>
    BY <2>1 DEF Ended, Start, State
  <2>3. Accounted(F)
    BY <1>5, <2>1, AtTheEnd
  <2>4. /\ operands \in Seq(Descriptors) /\ Len(operands) = 0
        /\ saved = <<>> /\ Len(frames) = 1
    BY <2>2, <2>3 DEF Accounted, Sound, Shaped
  <2> QED
    BY <2>4, EmptySeq
<1> QED
  BY <1>2, <1>3, <1>4, <1>5 DEF TypeOK

(* It gives every buffer its owner: the account, counted.                   *)
LEMMA InvOwners ==
  ASSUME HostInv
  PROVE  EveryBufferHasOneOwner
<1> DEFINE P == Holders(operands, frames, globals)
           h == Holding(operands, frames, globals)
<1>1. PICK S : Accounted(S)
  BY InvAccounts
<1>2. Account(P, h, live)
  BY <1>1 DEF Accounted, Sound, Ledger
<1>3. Owners = P
  BY DEF Owners, Holders, ValueOwner, SlotOwner, GlobalOwner
<1>4. \A o \in P : h[o] = BufferOf(o)
  BY DEF Holding, BufferOf
<1> HIDE DEF P, h
<1>5. ASSUME NEW b \in live \cup (Mentioned \ {Inline})
      PROVE  Cardinality({o \in Owners : BufferOf(o) = b}) = IF b \in live THEN 1 ELSE 0
  <2>1. b # Inline
    BY <1>1, OwnersOf
  <2>2. {o \in Owners : BufferOf(o) = b} = {o \in P : h[o] = b}
    BY <1>3, <1>4
  <2> QED
    BY <1>2, <2>1, <2>2, AccountCounts
<1> QED
  BY <1>5 DEF EveryBufferHasOneOwner

(* And it leaves nothing allocated where the slots are emptied.             *)
LEMMA InvCleans ==
  ASSUME HostInv
  PROVE  RunsCleanUp
<1> SUFFICES ASSUME outcome = "value"
             PROVE  Outstanding = lost
  BY DEF RunsCleanUp
<1> DEFINE P == Holders(operands, frames, globals)
           h == Holding(operands, frames, globals)
<1>1. PICK F : Good(F) /\ Ended(F)
  BY DEF HostInv
<1>2. todo = <<>>
  BY DEF HostInv
<1>3. Accounted(F) /\ F.height = 0 /\ F.clean
  BY <1>1, <1>2, AtTheEnd DEF Ended
<1>4. /\ Account(P, h, live) /\ Emptied(frames, globals) /\ DOMAIN operands = 1 .. Len(operands)
      /\ Len(operands) = 0
  BY <1>3, SoundFacts DEF Accounted, Sound, Ledger
<1>5. OwnerMap(P, h, operands, frames, globals)
  BY HoldersAre
<1>6. DOMAIN operands = {}
  BY <1>4
<1> HIDE DEF P, h
<1>7. \A o \in P : h[o] = Inline
  BY <1>4, <1>5, <1>6 DEF OwnerMap, Emptied
<1>8. live = {}
  BY <1>4, <1>7 DEF Account
<1>9. Cardinality(live) = 0
  BY <1>8, FS_EmptySet
<1> QED
  BY <1>9 DEF Outstanding, HostInv

(* Whatever typed program a host runs, and however often, what its code     *)
(* leaves open at the end of a run is nothing: no value in flight, no call, *)
(* one scope (gen_block, gen_function and gen_entry in src/codegen).        *)
THEOREM CodeIsBalanced ==
  HostSpec => []TypeOK
<1>1. HostInv => TypeOK
  BY InvTypes
<1> QED
  BY <1>1, HostInvariant, PTL

(* At every moment of every run of every typed program each allocated       *)
(* buffer has exactly one owner, and no owner holds a freed buffer: what    *)
(* the generator decides when it compiles takes the place of counts.        *)
THEOREM BuffersHaveOneOwner ==
  HostSpec => []EveryBufferHasOneOwner
<1>1. HostInv => EveryBufferHasOneOwner
  BY InvOwners
<1> QED
  BY <1>1, HostInvariant, PTL

(* A typed program that does not assign a variable between reading it and   *)
(* using what it read never reads a buffer that was freed, nor frees one    *)
(* twice.  The run of MCStaleBorrow shows that the condition is needed.     *)
THEOREM CarefulProgramsAreSafe ==
  HostSpec => [](Careful(program) => NothingMisused)
<1>1. HostInv => (Careful(program) => NothingMisused)
  BY DEF HostInv, Good, CarefulUse, NothingMisused
<1> QED
  BY <1>1, HostInvariant, PTL

(* A run that ends with a value has released whatever it allocated, and     *)
(* what a failed run before it left in the globals: only what errors took   *)
(* from the stack stays allocated (PinpJit::run, pinp_runtime_error).       *)
THEOREM RunsReleaseTheirBuffers ==
  HostSpec => []RunsCleanUp
<1>1. HostInv => RunsCleanUp
  BY InvCleans
<1> QED
  BY <1>1, HostInvariant, PTL
=============================================================================
