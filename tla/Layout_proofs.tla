---------------------------- MODULE Layout_proofs ----------------------------
(***************************************************************************)
(* Theorems about the layout of a text, for texts and columns of every     *)
(* size.                                                                   *)
(***************************************************************************)
EXTENDS Layout, SequenceTheorems, FiniteSetTheorems, FunctionTheorems, WellFoundedInduction, TLAPS

USE KindAssumption

-----------------------------------------------------------------------------
(* Types.                                                                   *)

Token == [kind : Kind \cup LayoutKind, text : Text \cup {""}, line : Nat, col : Nat]

(* The columns of a stack grow from the margin on.                          *)
Nested(stack) ==
  /\ stack \in Seq(Nat)
  /\ stack # <<>>
  /\ stack[1] = 0
  /\ \A i, j \in DOMAIN stack : i < j => stack[i] < stack[j]

(* Some column of a stack is the last that is not past a line's.            *)
LEMMA LastColumn ==
  ASSUME NEW stack, Nested(stack), NEW indent \in Nat
  PROVE  \E n \in 1 .. Len(stack) :
            stack[n] <= indent /\ \A m \in n + 1 .. Len(stack) : stack[m] > indent
<1> DEFINE T == {k \in Nat : k < Len(stack) /\ stack[Len(stack) - k] <= indent}
<1>1. Len(stack) \in Nat \ {0} /\ \A i \in 1 .. Len(stack) : stack[i] \in Nat
  BY EmptySeq, ElementOfSeq DEF Nested
<1>2. Len(stack) - 1 \in T
  BY <1>1 DEF Nested
<1>3. PICK k \in T : \A j \in T : ~ (<<j, k>> \in OpToRel(<, Nat))
  BY <1>2, NatLessThanWellFounded, WFMin
<1>4. \A j \in T : ~ (j < k)
  BY <1>3 DEF OpToRel
<1>5. /\ Len(stack) - k \in 1 .. Len(stack)
      /\ stack[Len(stack) - k] <= indent
  BY <1>1
<1>6. ASSUME NEW m \in Len(stack) - k + 1 .. Len(stack)
      PROVE  stack[m] > indent
  <2>1. Len(stack) - m \in Nat /\ Len(stack) - m < k /\ m \in 1 .. Len(stack)
    BY <1>1, <1>5
  <2>2. Len(stack) - m \notin T
    BY <1>4, <2>1
  <2>3. Len(stack) - (Len(stack) - m) = m
    BY <1>1
  <2>4. ~ (stack[m] <= indent)
    BY <1>1, <2>1, <2>2, <2>3
  <2> QED
    BY <1>1, <2>1, <2>4
<1> QED
  BY <1>5, <1>6

(* What is popped leaves the columns of the open blocks nested.             *)
LEMMA PoppedIsNested ==
  ASSUME NEW stack, Nested(stack), NEW indent \in Nat
  PROVE  Nested(Popped(stack, indent)) /\ Len(Popped(stack, indent)) <= Len(stack)
<1> DEFINE Stops(n) == stack[n] <= indent /\ \A m \in n + 1 .. Len(stack) : stack[m] > indent
<1> DEFINE c == CHOOSE n \in 1 .. Len(stack) : Stops(n)
<1>1. c \in 1 .. Len(stack)
  <2>1. \E n \in 1 .. Len(stack) : Stops(n)
    BY LastColumn
  <2> QED
    BY <2>1
<1> HIDE DEF c
<1>2. Len(stack) \in Nat /\ DOMAIN stack = 1 .. Len(stack) /\ \A i \in 1 .. Len(stack) : stack[i] \in Nat
  BY LenProperties, ElementOfSeq DEF Nested
<1> DEFINE p == SubSeq(stack, 1, c)
<1>3. /\ p \in Seq(Nat)
      /\ Len(p) = c
      /\ \A i \in 1 .. c : p[i] = stack[i]
  <2>1. \A i \in 1 .. c : stack[i] \in Nat
    BY <1>1, <1>2
  <2>2. /\ p \in Seq(Nat)
        /\ Len(p) = IF 1 <= c THEN c - 1 + 1 ELSE 0
        /\ \A i \in 1 .. c - 1 + 1 : p[i] = stack[1 + i - 1]
    BY <1>1, <1>2, <2>1, SubSeqProperties
  <2> QED
    BY <1>1, <1>2, <2>2
<1> HIDE DEF p
<1>4. DOMAIN p = 1 .. c
  BY <1>3, LenProperties
<1>5. Nested(p)
  <2>1. p # <<>>
    BY <1>1, <1>3, EmptySeq
  <2>2. p[1] = 0
    BY <1>1, <1>2, <1>3 DEF Nested
  <2>3. \A i, j \in DOMAIN p : i < j => p[i] < p[j]
    BY <1>1, <1>2, <1>3, <1>4 DEF Nested
  <2> QED
    BY <1>3, <2>1, <2>2, <2>3 DEF Nested
<1>6. Popped(stack, indent) = p
  BY DEF Popped, p, c
<1> QED
  BY <1>1, <1>2, <1>3, <1>5, <1>6

(* A line deeper than the last column opens a block of its own.             *)
LEMMA DeeperIsNested ==
  ASSUME NEW stack, Nested(stack), NEW indent \in Nat, indent > Top(stack)
  PROVE  Nested(Append(stack, indent)) /\ Len(Append(stack, indent)) = Len(stack) + 1
<1> DEFINE p == Append(stack, indent)
<1>1. /\ Len(stack) \in Nat \ {0}
      /\ DOMAIN stack = 1 .. Len(stack)
      /\ \A i \in 1 .. Len(stack) : stack[i] \in Nat
  BY LenProperties, EmptySeq, ElementOfSeq DEF Nested
<1>2. /\ p \in Seq(Nat)
      /\ p # <<>>
      /\ Len(p) = Len(stack) + 1
      /\ \A i \in 1 .. Len(stack) : p[i] = stack[i]
      /\ p[Len(stack) + 1] = indent
  BY AppendProperties DEF Nested
<1>3. DOMAIN p = 1 .. Len(stack) + 1
  BY <1>2, LenProperties
<1> HIDE DEF p
<1>4. \A i \in 1 .. Len(stack) : stack[i] < indent
  BY <1>1 DEF Nested, Top
<1>5. \A i, j \in DOMAIN p : i < j => p[i] < p[j]
  <2> SUFFICES ASSUME NEW i \in 1 .. Len(stack) + 1, NEW j \in 1 .. Len(stack) + 1, i < j
               PROVE  p[i] < p[j]
    BY <1>3
  <2>1. CASE j = Len(stack) + 1
    BY <1>1, <1>2, <1>4, <2>1
  <2>2. CASE j \in 1 .. Len(stack)
    <3>1. i \in 1 .. Len(stack) /\ p[i] = stack[i] /\ p[j] = stack[j]
      BY <1>1, <1>2, <2>2
    <3>2. stack[i] < stack[j]
      BY <1>1, <2>2, <3>1 DEF Nested
    <3> QED
      BY <3>1, <3>2
  <2> QED
    BY <1>1, <2>1, <2>2
<1>6. p[1] = 0
  BY <1>1, <1>2 DEF Nested
<1>7. Nested(p)
  BY <1>2, <1>5, <1>6 DEF Nested
<1> QED
  BY <1>2, <1>7 DEF p

-----------------------------------------------------------------------------
(* Counting tokens of a kind.                                               *)

Spots(s, kind) == {i \in DOMAIN s : s[i].kind = kind}
Count(s, kind) == Cardinality(Spots(s, kind))

(* The tokens of one kind in a text can be counted.                         *)
LEMMA SpotsAreFinite ==
  ASSUME NEW S, NEW s \in Seq(S), NEW kind
  PROVE  /\ IsFiniteSet(Spots(s, kind))
         /\ Count(s, kind) \in Nat
<1>1. DOMAIN s = 1 .. Len(s) /\ Len(s) \in Nat
  BY LenProperties
<1>2. IsFiniteSet(1 .. Len(s))
  BY <1>1, FS_Interval
<1>3. Spots(s, kind) \in SUBSET (1 .. Len(s))
  BY <1>1 DEF Spots
<1> QED
  BY <1>2, <1>3, FS_Subset, FS_CardinalityType DEF Count

(* What is counted in two texts one after the other is counted in each.     *)
LEMMA CountOfConcat ==
  ASSUME NEW S, NEW s \in Seq(S), NEW t \in Seq(S), NEW kind
  PROVE  Count(s \o t, kind) = Count(s, kind) + Count(t, kind)
<1> DEFINE n == Len(s)
           Shifted == {i \in n + 1 .. n + Len(t) : t[i - n].kind = kind}
<1>1. /\ n \in Nat /\ Len(t) \in Nat
      /\ DOMAIN s = 1 .. n /\ DOMAIN t = 1 .. Len(t)
  BY LenProperties
<1>2. /\ DOMAIN (s \o t) = 1 .. n + Len(t)
      /\ \A i \in 1 .. n + Len(t) : (s \o t)[i] = IF i <= n THEN s[i] ELSE t[i - n]
  BY ConcatProperties, LenProperties
<1>3. Spots(s \o t, kind) = Spots(s, kind) \cup Shifted
  BY <1>1, <1>2 DEF Spots
<1>4. Spots(s, kind) \cap Shifted = {}
  BY <1>1 DEF Spots
<1>5. IsFiniteSet(Spots(s, kind)) /\ IsFiniteSet(Spots(t, kind))
  BY SpotsAreFinite
<1>6. IsFiniteSet(Shifted) /\ Cardinality(Shifted) = Count(t, kind)
  <2> DEFINE f == [i \in Spots(t, kind) |-> i + n]
  <2>1. f \in Bijection(Spots(t, kind), Shifted)
    <3>1. f \in [Spots(t, kind) -> Shifted]
      BY <1>1 DEF Spots
    <3>2. \A i, j \in Spots(t, kind) : f[i] = f[j] => i = j
      BY <1>1 DEF Spots
    <3>3. \A k \in Shifted : \E i \in Spots(t, kind) : f[i] = k
      <4> SUFFICES ASSUME NEW k \in Shifted
                   PROVE  \E i \in Spots(t, kind) : f[i] = k
        OBVIOUS
      <4>1. k - n \in Spots(t, kind) /\ (k - n) + n = k
        BY <1>1 DEF Spots
      <4> QED
        BY <4>1
    <3> HIDE DEF f, Shifted
    <3> QED
      BY <3>1, <3>2, <3>3, Fun_IsBij
  <2>2. ExistsBijection(Spots(t, kind), Shifted)
    BY <2>1 DEF ExistsBijection
  <2> QED
    BY <1>5, <2>2, FS_Bijection DEF Count
<1>7. Cardinality(Spots(s, kind) \cup Shifted)
        = Cardinality(Spots(s, kind)) + Cardinality(Shifted)
            - Cardinality(Spots(s, kind) \cap Shifted)
  <2> HIDE DEF Shifted
  <2> QED
    BY <1>5, <1>6, FS_Union
<1>8. Count(s, kind) \in Nat /\ Count(t, kind) \in Nat
  BY SpotsAreFinite
<1>9. Cardinality(Spots(s, kind) \cap Shifted) = 0
  BY <1>4, FS_EmptySet
<1> HIDE DEF Shifted
<1>10. Count(s \o t, kind) = Cardinality(Spots(s, kind) \cup Shifted)
  BY <1>3 DEF Count
<1>11. Count(s, kind) = Cardinality(Spots(s, kind))
  BY DEF Count
<1> QED
  BY <1>6, <1>7, <1>8, <1>9, <1>10, <1>11

(* A run of made-up tokens counts as long as it is for its own kind.        *)
LEMMA CountOfRepeated ==
  ASSUME NEW n \in Nat, NEW made \in LayoutKind, NEW kind
  PROVE  /\ Repeated(made, n) \in Seq(Token)
         /\ Count(Repeated(made, n), kind) = IF kind = made THEN n ELSE 0
<1> DEFINE r == Repeated(made, n)
<1>1. Synthetic(made) \in Token
  BY DEF Synthetic, Token
<1>2. r \in [1 .. n -> Token]
  BY <1>1 DEF Repeated
<1>3. DOMAIN r = 1 .. n /\ \A i \in 1 .. n : r[i].kind = made
  BY DEF Repeated, Synthetic
<1>6. r \in Seq(Token)
  <2> HIDE DEF r
  <2> QED
    BY <1>2
<1>4. Spots(r, kind) = IF kind = made THEN 1 .. n ELSE {}
  BY <1>3 DEF Spots
<1>5. Cardinality(1 .. n) = n
  BY FS_Interval
<1> QED
  BY <1>4, <1>5, <1>6, FS_EmptySet DEF Count

(* One token counts once, for its own kind.                                 *)
LEMMA CountOfOne ==
  ASSUME NEW token \in Token, NEW kind
  PROVE  /\ <<token>> \in Seq(Token)
         /\ Count(<<token>>, kind) = IF kind = token.kind THEN 1 ELSE 0
<1>1. <<token>> \in Seq(Token) /\ DOMAIN <<token>> = {1} /\ <<token>>[1] = token
  OBVIOUS
<1>2. Spots(<<token>>, kind) = IF kind = token.kind THEN {1} ELSE {}
  BY <1>1 DEF Spots
<1> QED
  BY <1>1, <1>2, FS_Singleton, FS_EmptySet DEF Count

-----------------------------------------------------------------------------
(* The invariant: the columns are nested, no break waits inside brackets,   *)
(* and every Indent written is closed or still open.                        *)

NoBreakInBrackets == paren_depth > 0 => pending = NoNewline

Balanced ==
  Count(tokens, "Indent") = Count(tokens, "Dedent") + Len(indents) - 1

IInv ==
  /\ LayoutTypeOK
  /\ BlocksAreNested
  /\ NoBreakInBrackets
  /\ Balanced

(* The stack after a break is nested, and the tokens of the break tell how  *)
(* far it grew or shrank.                                                   *)
LEMMA BoundaryFollowsStack ==
  ASSUME LayoutTypeOK, BlocksAreNested
  PROVE  /\ Nested(Indents)
         /\ Boundary \in Seq(Token)
         /\ Count(Boundary, "Indent") - Count(Boundary, "Dedent") = Len(Indents) - Len(indents)
         /\ Count(Boundary, "Indent") \in Nat /\ Count(Boundary, "Dedent") \in Nat
<1>1. Nested(indents)
  BY DEF LayoutTypeOK, BlocksAreNested, Nested
<1>2. Len(indents) \in Nat
  BY <1>1, LenProperties DEF Nested
<1>3. /\ Synthetic("Newline") \in Token /\ Synthetic("Indent") \in Token
      /\ Synthetic("Newline").kind = "Newline" /\ Synthetic("Indent").kind = "Indent"
  BY DEF Synthetic, Token, LayoutKind
<1> DEFINE nl == <<Synthetic("Newline")>>
<1>4. /\ nl \in Seq(Token)
      /\ Count(nl, "Indent") = 0
      /\ Count(nl, "Dedent") = 0
  BY <1>3, CountOfOne
<1>5. CASE ~Breaks
  <2>1. Indents = indents
    BY <1>5 DEF Indents, Deeper
  <2>2. Boundary = <<>>
    BY <1>5 DEF Boundary
  <2>3. Count(<<>>, "Indent") = 0 /\ Count(<<>>, "Dedent") = 0
    <3>1. Spots(<<>>, "Indent") = {} /\ Spots(<<>>, "Dedent") = {}
      BY DEF Spots
    <3> QED
      BY <3>1, FS_EmptySet DEF Count
  <2> QED
    BY <1>1, <1>2, <2>1, <2>2, <2>3
<1>6. CASE Breaks /\ Deeper
  <2>1. pending \in Nat /\ pending > Top(indents)
    BY <1>6 DEF Breaks, Deeper, LayoutTypeOK
  <2>2. Indents = Append(indents, pending)
    BY <1>6 DEF Indents
  <2>3. Nested(Indents) /\ Len(Indents) = Len(indents) + 1
    BY <1>1, <2>1, <2>2, DeeperIsNested
  <2> DEFINE ind == <<Synthetic("Indent")>>
  <2>4. /\ ind \in Seq(Token)
        /\ Count(ind, "Indent") = 1
        /\ Count(ind, "Dedent") = 0
    BY <1>3, CountOfOne
  <2>5. Boundary = nl \o ind
    BY <1>6 DEF Boundary
  <2> HIDE DEF nl, ind
  <2>6. /\ Boundary \in Seq(Token)
        /\ Count(Boundary, "Indent") = 1
        /\ Count(Boundary, "Dedent") = 0
    <3>1. Count(nl \o ind, "Indent") = Count(nl, "Indent") + Count(ind, "Indent")
      BY <1>4, <2>4, CountOfConcat
    <3>2. Count(nl \o ind, "Dedent") = Count(nl, "Dedent") + Count(ind, "Dedent")
      BY <1>4, <2>4, CountOfConcat
    <3> QED
      BY <1>4, <2>4, <2>5, <3>1, <3>2, ConcatProperties
  <2> QED
    BY <1>2, <2>3, <2>6
<1>7. CASE Breaks /\ ~Deeper
  <2>1. pending \in Nat
    BY <1>7 DEF Breaks, LayoutTypeOK
  <2>2. Indents = Popped(indents, pending)
    BY <1>7 DEF Indents
  <2>3. Nested(Indents) /\ Len(Indents) <= Len(indents)
    BY <1>1, <2>1, <2>2, PoppedIsNested
  <2>4. Len(Indents) \in Nat
    BY <2>3, LenProperties DEF Nested
  <2> DEFINE n == Len(indents) - Len(Indents)
             ded == Repeated("Dedent", n)
  <2>5. n \in Nat
    BY <1>2, <2>3, <2>4
  <2>6. Boundary = nl \o ded
    BY <1>7 DEF Boundary
  <2> HIDE DEF n
  <2>7. /\ ded \in Seq(Token)
        /\ Count(ded, "Indent") = 0
        /\ Count(ded, "Dedent") = n
    BY <2>5, CountOfRepeated DEF LayoutKind
  <2> HIDE DEF nl, ded
  <2>8. /\ Boundary \in Seq(Token)
        /\ Count(Boundary, "Indent") = 0
        /\ Count(Boundary, "Dedent") = n
    <3>1. Count(nl \o ded, "Indent") = Count(nl, "Indent") + Count(ded, "Indent")
      BY <1>4, <2>7, CountOfConcat
    <3>2. Count(nl \o ded, "Dedent") = Count(nl, "Dedent") + Count(ded, "Dedent")
      BY <1>4, <2>7, CountOfConcat
    <3> QED
      BY <1>4, <2>5, <2>6, <2>7, <3>1, <3>2, ConcatProperties
  <2> QED
    BY <1>2, <2>3, <2>4, <2>5, <2>8 DEF n
<1> QED
  BY <1>5, <1>6, <1>7

-----------------------------------------------------------------------------
(* Before the first lexeme there is no block and no token.                  *)
LEMMA InitEstablishes == LayoutInit => IInv
<1> SUFFICES ASSUME LayoutInit PROVE IInv
  OBVIOUS
<1> USE DEF LayoutInit
<1>1. LayoutTypeOK
  <2>1. tokens \in Seq(Token)
    BY EmptySeq
  <2>2. indents \in Seq(Nat)
    OBVIOUS
  <2> QED
    BY <2>1, <2>2 DEF LayoutTypeOK, Token
<1>2. BlocksAreNested
  BY DEF BlocksAreNested
<1>3. NoBreakInBrackets
  BY DEF NoBreakInBrackets
<1>4. Balanced
  <2>1. Spots(<<>>, "Indent") = {} /\ Spots(<<>>, "Dedent") = {}
    BY DEF Spots
  <2>2. Count(tokens, "Indent") = 0 /\ Count(tokens, "Dedent") = 0
    BY <2>1, FS_EmptySet DEF Count
  <2>3. Len(indents) = 1
    OBVIOUS
  <2> QED
    BY <2>2, <2>3 DEF Balanced
<1> QED
  BY <1>1, <1>2, <1>3, <1>4 DEF IInv

(* The word read becomes a token of the text.                               *)
LEMMA WordIsToken ==
  ASSUME LayoutTypeOK, Reading, Lexeme1.kind \in Kind
  PROVE  Lexeme1 \in Token /\ Tail(rest) \in Seq(Lexeme) /\ Lexeme1.kind \notin LayoutKind
<1>1. Head(rest) \in Lexeme /\ Tail(rest) \in Seq(Lexeme)
  BY HeadTailProperties DEF LayoutTypeOK, Reading
<1>2. Lexeme1 \in [kind : Kind \cup Wrong, text : Text, line : Nat, col : Nat]
  BY <1>1 DEF Lexeme, Lexeme1
<1>3. Lexeme1 \in Token
  BY <1>2 DEF Token
<1> QED
  BY <1>1, <1>3

(* A word, and the line break waiting before it, keep the blocks balanced.  *)
LEMMA ReadWordPreserves ==
  ASSUME IInv, ReadWord
  PROVE  IInv'
<1>1. LayoutTypeOK /\ BlocksAreNested /\ Balanced
  BY DEF IInv
<1>2. /\ tokens \in Seq(Token)
      /\ Lexeme1 \in Token
      /\ Tail(rest) \in Seq(Lexeme)
      /\ Lexeme1.kind \notin {"Indent", "Dedent"}
  BY <1>1, WordIsToken DEF ReadWord, LayoutTypeOK, Token, LayoutKind
<1>3. /\ Nested(Indents)
      /\ Boundary \in Seq(Token)
      /\ Count(Boundary, "Indent") - Count(Boundary, "Dedent") = Len(Indents) - Len(indents)
      /\ Count(Boundary, "Indent") \in Nat /\ Count(Boundary, "Dedent") \in Nat
  BY <1>1, BoundaryFollowsStack
<1> DEFINE word == <<Lexeme1>>
<1>4. /\ word \in Seq(Token)
      /\ Count(word, "Indent") = 0
      /\ Count(word, "Dedent") = 0
  BY <1>2, CountOfOne
<1>5. tokens' = (tokens \o Boundary) \o word /\ indents' = Indents
  BY DEF ReadWord
<1> HIDE DEF word
<1>6. tokens \o Boundary \in Seq(Token) /\ tokens' \in Seq(Token)
  BY <1>2, <1>3, <1>4, <1>5, ConcatProperties
<1>7. LayoutTypeOK'
  <2>1. DepthAfter(Lexeme1.kind) \in Nat
    <3>1. paren_depth \in Nat
      BY <1>1 DEF LayoutTypeOK
    <3> QED
      BY <3>1 DEF DepthAfter
  <2> QED
    BY <1>1, <1>2, <1>3, <1>5, <1>6, <2>1 DEF ReadWord, LayoutTypeOK, Nested, Token, NoNewline
<1>8. BlocksAreNested'
  BY <1>3, <1>5 DEF BlocksAreNested, Nested
<1>9. NoBreakInBrackets'
  BY DEF NoBreakInBrackets, ReadWord
<1>10. Balanced'
  <2>1. /\ Count(tokens', "Indent") = Count(tokens, "Indent") + Count(Boundary, "Indent")
        /\ Count(tokens', "Dedent") = Count(tokens, "Dedent") + Count(Boundary, "Dedent")
    <3> SUFFICES ASSUME NEW kind \in {"Indent", "Dedent"}
                 PROVE  Count(tokens', kind) = Count(tokens, kind) + Count(Boundary, kind)
      OBVIOUS
    <3> DEFINE line == tokens \o Boundary
    <3>1. Count(line \o word, kind) = Count(line, kind) + Count(word, kind)
      <4> HIDE DEF line
      <4> SUFFICES line \in Seq(Token)
        BY <1>4, CountOfConcat
      <4> QED
        BY <1>6 DEF line
    <3>2. Count(tokens \o Boundary, kind) = Count(tokens, kind) + Count(Boundary, kind)
      BY <1>2, <1>3, CountOfConcat
    <3>3. Count(tokens \o Boundary, kind) \in Nat
      BY <1>6, SpotsAreFinite
    <3> QED
      BY <1>4, <1>5, <3>1, <3>2, <3>3
  <2>2. Count(tokens, "Indent") \in Nat /\ Count(tokens, "Dedent") \in Nat
    BY <1>2, SpotsAreFinite
  <2>3. Len(indents) \in Nat /\ Len(Indents) \in Nat
    BY <1>1, <1>3, LenProperties DEF LayoutTypeOK, Nested
  <2>4. Len(indents') = Len(Indents)
    BY <1>5
  <2> QED
    BY <1>1, <1>3, <2>1, <2>2, <2>3, <2>4, SMTT(30) DEF Balanced
<1> QED
  BY <1>7, <1>8, <1>9, <1>10 DEF IInv

(* The end of the text closes every block that is open.                     *)
LEMMA EndOfInputPreserves ==
  ASSUME IInv, EndOfInput
  PROVE  IInv'
<1>1. LayoutTypeOK /\ BlocksAreNested /\ Balanced
  BY DEF IInv
<1>2. tokens \in Seq(Token)
  BY <1>1 DEF LayoutTypeOK, Token
<1>3. /\ Nested(Indents)
      /\ Boundary \in Seq(Token)
      /\ Count(Boundary, "Indent") - Count(Boundary, "Dedent") = Len(Indents) - Len(indents)
      /\ Count(Boundary, "Indent") \in Nat /\ Count(Boundary, "Dedent") \in Nat
  BY <1>1, BoundaryFollowsStack
<1> DEFINE n      == Len(Indents) - 1
           closed == Repeated("Dedent", n)
           eof    == <<Synthetic("Eof")>>
           line   == tokens \o Boundary
           whole  == line \o closed
<1>4. n \in Nat /\ Len(Indents) = n + 1
  BY <1>3, EmptySeq DEF Nested
<1>5. tokens' = whole \o eof /\ indents' = <<0>>
  BY DEF EndOfInput
<1> HIDE DEF n
<1>6. /\ closed \in Seq(Token)
      /\ Count(closed, "Indent") = 0
      /\ Count(closed, "Dedent") = n
  BY <1>4, CountOfRepeated DEF LayoutKind
<1>7. /\ eof \in Seq(Token)
      /\ Count(eof, "Indent") = 0
      /\ Count(eof, "Dedent") = 0
  <2>1. Synthetic("Eof") \in Token /\ Synthetic("Eof").kind = "Eof"
    BY DEF Synthetic, Token, LayoutKind
  <2> QED
    BY <2>1, CountOfOne
<1> HIDE DEF closed, eof
<1>8. line \in Seq(Token)
  BY <1>2, <1>3, ConcatProperties
<1> HIDE DEF line
<1>9. whole \in Seq(Token)
  BY <1>6, <1>8, ConcatProperties
<1> HIDE DEF whole
<1>10. tokens' \in Seq(Token)
  BY <1>5, <1>7, <1>9, ConcatProperties
<1>11. LayoutTypeOK'
  <2>1. <<0>> \in Seq(Nat)
    OBVIOUS
  <2> QED
    BY <1>1, <1>5, <1>10, <2>1 DEF EndOfInput, LayoutTypeOK, Token
<1>12. BlocksAreNested'
  BY <1>5 DEF BlocksAreNested
<1>13. NoBreakInBrackets'
  BY DEF NoBreakInBrackets, EndOfInput
<1>14. Balanced'
  <2>1. ASSUME NEW kind \in {"Indent", "Dedent"}
        PROVE  Count(tokens', kind) = Count(tokens, kind) + Count(Boundary, kind) + Count(closed, kind)
    <3>1. Count(tokens', kind) = Count(whole, kind) + Count(eof, kind)
      BY <1>5, <1>7, <1>9, CountOfConcat
    <3>2. Count(whole, kind) = Count(line, kind) + Count(closed, kind)
      BY <1>6, <1>8, CountOfConcat DEF whole
    <3>3. Count(line, kind) = Count(tokens, kind) + Count(Boundary, kind)
      BY <1>2, <1>3, CountOfConcat DEF line
    <3>4. Count(whole, kind) \in Nat
      BY <1>9, SpotsAreFinite
    <3> QED
      BY <1>7, <3>1, <3>2, <3>3, <3>4
  <2>2. Count(tokens, "Indent") \in Nat /\ Count(tokens, "Dedent") \in Nat
    BY <1>2, SpotsAreFinite
  <2>3. Len(indents) \in Nat
    BY <1>1, LenProperties DEF LayoutTypeOK
  <2>4. Len(indents') = 1
    BY <1>5
  <2>5. /\ Count(tokens', "Indent") = Count(tokens, "Indent") + Count(Boundary, "Indent")
        /\ Count(tokens', "Dedent") = Count(tokens, "Dedent") + Count(Boundary, "Dedent") + n
    <3>1. Count(tokens', "Indent") = Count(tokens, "Indent") + Count(Boundary, "Indent") + Count(closed, "Indent")
      BY <2>1
    <3>2. Count(tokens', "Dedent") = Count(tokens, "Dedent") + Count(Boundary, "Dedent") + Count(closed, "Dedent")
      BY <2>1
    <3> QED
      BY <1>3, <1>6, <2>2, <3>1, <3>2
  <2>6. Count(tokens, "Indent") = Count(tokens, "Dedent") + Len(indents) - 1
    BY <1>1 DEF Balanced
  <2>7. Count(tokens', "Indent") = Count(tokens', "Dedent") + 1 - 1
    <3>1. Count(Boundary, "Indent") - Count(Boundary, "Dedent") = n + 1 - Len(indents)
      BY <1>3, <1>4
    <3>2. Count(Boundary, "Indent") \in Nat /\ Count(Boundary, "Dedent") \in Nat
      BY <1>3
    <3>3. n \in Nat
      BY <1>4
    <3> QED
      BY <2>2, <2>3, <2>5, <2>6, <3>1, <3>2, <3>3, SMTT(30)
  <2> QED
    BY <2>4, <2>7 DEF Balanced
<1> QED
  BY <1>11, <1>12, <1>13, <1>14 DEF IInv

(* Every step of the lexer keeps the invariant.                             *)
LEMMA StepPreserves ==
  ASSUME IInv, [Lex]_layoutVars
  PROVE  IInv'
<1>1. CASE ReadNewline
  <2>1. Lexeme1.indent \in Nat /\ Tail(rest) \in Seq(Lexeme)
    <3>1. Head(rest) \in Lexeme /\ Tail(rest) \in Seq(Lexeme)
      BY <1>1, HeadTailProperties DEF IInv, LayoutTypeOK, ReadNewline, Reading
    <3>2. "NewlineIndent" \notin Kind \cup Wrong
      BY DEF Wrong
    <3> QED
      BY <1>1, <3>1, <3>2 DEF ReadNewline, Lexeme, Lexeme1
  <2>2. LayoutTypeOK'
    BY <1>1, <2>1 DEF IInv, LayoutTypeOK, ReadNewline
  <2>3. NoBreakInBrackets'
    <3>1. paren_depth \in Nat
      BY DEF IInv, LayoutTypeOK
    <3>2. paren_depth > 0 => paren_depth # 0
      BY <3>1
    <3> QED
      BY <1>1, <3>2 DEF IInv, NoBreakInBrackets, ReadNewline
  <2> QED
    BY <1>1, <2>2, <2>3 DEF IInv, ReadNewline, BlocksAreNested, Balanced
<1>2. CASE ReadWord
  BY <1>2, ReadWordPreserves
<1>3. CASE EndOfInput
  BY <1>3, EndOfInputPreserves
<1>4. CASE RejectWord \/ RejectIndent
  BY <1>4 DEF IInv, LayoutTypeOK, BlocksAreNested, NoBreakInBrackets, Balanced, RejectWord, RejectIndent
<1>5. CASE UNCHANGED layoutVars
  BY <1>5 DEF IInv, LayoutTypeOK, BlocksAreNested, NoBreakInBrackets, Balanced, layoutVars
<1> QED
  BY <1>1, <1>2, <1>3, <1>4, <1>5 DEF Lex

(* What the theorems below draw from.                                       *)
THEOREM InvariantHolds == LayoutSpec => []IInv
<1> QED
  BY InitEstablishes, StepPreserves, PTL DEF LayoutSpec

(* The lexer keeps its types, and the columns on its stack grow from the    *)
(* margin on, so that every deeper or shallower line finds its place.       *)
THEOREM StackIsNested == LayoutSpec => [](LayoutTypeOK /\ BlocksAreNested)
<1>1. IInv => LayoutTypeOK /\ BlocksAreNested
  BY DEF IInv
<1> QED
  BY <1>1, InvariantHolds, PTL

(* Whatever the text, every Indent the lexer wrote is closed or still on    *)
(* its stack.                                                               *)
THEOREM IndentsBalance == LayoutSpec => []IndentsAreClosed
<1>1. IInv => IndentsAreClosed
  BY DEF IInv, Balanced, IndentsAreClosed, Count, Spots, Places
<1> QED
  BY <1>1, InvariantHolds, PTL

(* A text read to its end is balanced: it has as many Dedents as Indents.   *)
THEOREM WholeTextIsBalanced ==
  LayoutSpec =>
    [](status = "lexed" => Cardinality(Places("Indent")) = Cardinality(Places("Dedent")))
<1> DEFINE P == status = "lexed" => indents = <<0>>
<1>1. LayoutInit => P
  BY DEF LayoutInit
<1>2. P /\ [Lex]_layoutVars => P'
  BY DEF Lex, ReadNewline, ReadWord, EndOfInput, RejectWord, RejectIndent, Reading, layoutVars
<1>3. P /\ IInv => (status = "lexed" => Cardinality(Places("Indent")) = Cardinality(Places("Dedent")))
  <2> SUFFICES ASSUME IInv, indents = << 0 >>
               PROVE  Cardinality(Places("Indent")) = Cardinality(Places("Dedent"))
    OBVIOUS
  <2>1. tokens \in Seq(Token)
    BY DEF IInv, LayoutTypeOK, Token
  <2>2. Count(tokens, "Dedent") \in Nat /\ Len(indents) = 1
    BY <2>1, SpotsAreFinite
  <2>3. Count(tokens, "Indent") = Count(tokens, "Dedent") + Len(indents) - 1
    BY DEF IInv, Balanced
  <2>4. Count(tokens, "Indent") = Count(tokens, "Dedent")
    <3>1. Count(tokens, "Indent") \in Nat
      BY <2>1, SpotsAreFinite
    <3> QED
      BY <2>2, <2>3, <3>1
  <2> QED
    BY <2>4 DEF Count, Spots, Places
<1> QED
  BY <1>1, <1>2, <1>3, InvariantHolds, PTL DEF LayoutSpec

(* Inside brackets no break is turned into tokens, whatever is read.        *)
THEOREM BracketsJoin == LayoutSpec => BracketsJoinLines
<1> DEFINE Joins == paren_depth > 0 /\ rest # <<>> =>
                      tokens' = tokens \/ tokens' = Append(tokens, Head(rest))
<1>1. IInv /\ [Lex]_layoutVars => [Joins]_layoutVars
  <2> SUFFICES ASSUME IInv, Lex, paren_depth > 0, rest # <<>>
               PROVE  tokens' = tokens \/ tokens' = Append(tokens, Head(rest))
    OBVIOUS
  <2>1. Boundary = <<>>
    BY DEF IInv, NoBreakInBrackets, Breaks, Boundary
  <2>2. CASE ReadWord
    <3>1. tokens \in Seq(Token) /\ Lexeme1 \in Token
      BY <2>2, WordIsToken DEF IInv, LayoutTypeOK, Token, ReadWord
    <3>2. tokens' = tokens \o <<>> \o <<Lexeme1>>
      BY <2>1, <2>2 DEF ReadWord
    <3>3. tokens \o <<>> = tokens
      BY <3>1, ConcatEmptySeq
    <3> QED
      BY <3>1, <3>2, <3>3, AppendIsConcat DEF Lexeme1
  <2>3. CASE ~ReadWord
    BY <2>3 DEF Lex, ReadNewline, EndOfInput, RejectWord, RejectIndent
  <2> QED
    BY <2>2, <2>3
<1> QED
  BY <1>1, InvariantHolds, PTL DEF LayoutSpec, BracketsJoinLines
=============================================================================
