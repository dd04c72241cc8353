------------------------- MODULE Descriptor_proofs -------------------------
(***************************************************************************)
(* The two forms of a string are not mistaken for each other, at any       *)
(* length, and the calls that make, join and free strings keep the content *)
(* of all others.                                                          *)
(***************************************************************************)
EXTENDS Descriptor, SequenceTheorems, TLAPS

(* A byte is a number from 0 to 255.                                        *)
LEMMA ByteBounds == \A b : b \in Byte <=> b \in Int /\ 0 <= b /\ b <= 255
BY DEF Byte

(* Four bytes hold a word exactly, and the highest bit of the last one is   *)
(* free as long as the word is at most the maximal length.                  *)
LEMMA WordOfBytes ==
  ASSUME NEW n \in Nat, n <= MAX_STR_HEAP_LEN
  PROVE  /\ Byte0(n) \in Byte /\ Byte1(n) \in Byte /\ Byte2(n) \in Byte
         /\ Byte3(n) \in Int /\ 0 <= Byte3(n) /\ Byte3(n) < 64
         /\ Word(Byte0(n), Byte1(n), Byte2(n), Byte3(n)) = n
<1> DEFINE a == n \div 256
           b == a \div 256
           c == b \div 256
<1>1. n < 1073741824
  BY SMT DEF MAX_STR_HEAP_LEN
<1>2. a \in Int /\ 0 <= a /\ a < 4194304
      /\ n % 256 \in Byte /\ n = (n % 256) + 256 * a
  BY <1>1, ByteBounds, SMT
<1> HIDE DEF a
<1>3. b \in Int /\ 0 <= b /\ b < 16384
      /\ a % 256 \in Byte /\ a = (a % 256) + 256 * b
  BY <1>2, ByteBounds, SMT
<1> HIDE DEF b
<1>4. c \in Int /\ 0 <= c /\ c < 64 /\ c % 256 = c
      /\ b % 256 \in Byte /\ b = (b % 256) + 256 * c
  BY <1>3, ByteBounds, SMT
<1> HIDE DEF c
<1>5. Byte0(n) = n % 256 /\ Byte1(n) = a % 256 /\ Byte2(n) = b % 256 /\ Byte3(n) = c
  BY <1>4 DEF Byte0, Byte1, Byte2, Byte3, a, b, c
<1>6. Word(n % 256, a % 256, b % 256, c) = n
  BY <1>2, <1>3, <1>4, SMT DEF Word
<1> QED
  BY <1>2, <1>3, <1>4, <1>5, <1>6

(* The bytes of a long string, one by one.                                  *)
LEMMA HeapBytes ==
  ASSUME NEW address \in Address, NEW n \in Nat, n <= MAX_STR_HEAP_LEN
  PROVE  LET s == HeapRepr(address, n) IN
         /\ s \in PinpStr
         /\ pointer(s) = address
         /\ s[8] = Byte0(n) /\ s[9] = Byte1(n) /\ s[10] = Byte2(n) /\ s[11] = Byte3(n)
         /\ s[15] = 128 + Byte3(n)
<1> DEFINE s == HeapRepr(address, n)
<1>1. Marked(Byte3(n)) = 128 + Byte3(n) /\ Marked(Byte3(n)) \in Byte /\ Byte3(n) \in Byte
  BY WordOfBytes, ByteBounds DEF Marked
<1>2. \A k \in 0 .. 7 : address[k] \in Byte
  BY DEF Address
<1>3. s[8] = Byte0(n) /\ s[9] = Byte1(n) /\ s[10] = Byte2(n) /\ s[11] = Byte3(n)
      /\ s[15] = Marked(Byte3(n)) /\ \A k \in 0 .. 7 : s[k] = address[k]
  BY DEF HeapRepr
<1>4. s = [k \in 0 .. 15 |-> s[k]]
  BY DEF HeapRepr
<1>5. ASSUME NEW k \in 0 .. 15  PROVE s[k] \in Byte
  <2>1. k <= 7 \/ k \in {8, 12} \/ k \in {9, 13} \/ k \in {10, 14} \/ k = 11 \/ k = 15
    OBVIOUS
  <2>2. CASE k <= 7
    BY <1>2, <2>2 DEF HeapRepr
  <2>3. CASE ~(k <= 7)
    BY <1>1, <2>1, <2>3, WordOfBytes DEF HeapRepr
  <2> QED BY <2>2, <2>3
<1>6. s \in PinpStr
  <2> HIDE DEF s
  <2> QED BY <1>4, <1>5 DEF PinpStr
<1>7. pointer(s) = address
  <2> HIDE DEF s
  <2>1. address = [k \in 0 .. 7 |-> address[k]]
    BY DEF Address
  <2> QED BY <1>3, <2>1 DEF pointer
<1> QED
  BY <1>1, <1>3, <1>6, <1>7

(* A string longer than fifteen bytes is told from a short one, and gives   *)
(* back its address and its length, up to the longest there may be          *)
(* (make_with refuses a longer one): the byte shared by the tag and the     *)
(* length never mixes them up.                                              *)
THEOREM LongStringsAreTold ==
  ASSUME NEW address \in Address, NEW n \in Nat, n <= MAX_STR_HEAP_LEN
  PROVE  LET s == HeapRepr(address, n) IN
         is_heap(s) /\ length(s) = n /\ pointer(s) = address
<1> DEFINE s == HeapRepr(address, n)
<1>1. is_heap(s)
  <2> HIDE DEF s
  <2>1. s[15] = 128 + Byte3(n)
    BY HeapBytes DEF s
  <2> QED BY <2>1, WordOfBytes DEF is_heap, IsMarked
<1>2. length(s) = n
  <2> HIDE DEF s
  <2>1. length(s) = Word(s[8], s[9], s[10], s[11])
    BY <1>1 DEF length
  <2> QED BY <2>1, HeapBytes, WordOfBytes DEF s
<1> QED
  BY <1>1, <1>2, HeapBytes

(* A short string is never taken for a long one, and holds its content.     *)
THEOREM ShortStringsAreTold ==
  ASSUME NEW memory, NEW content \in Seq(Byte), Len(content) <= MAX_INLINE
  PROVE  LET s == InlineRepr(content) IN
         /\ s \in PinpStr /\ ~is_heap(s) /\ s[15] = Len(content)
         /\ length(s) = Len(content)
         /\ as_bytes(memory, s) = content
<1> DEFINE s == InlineRepr(content)
           m == Len(content)
<1>1. m \in Nat /\ m <= 15 /\ \A i \in 1 .. m : content[i] \in Byte
  BY DEF MAX_INLINE
<1>2. s[15] = m /\ s = [k \in 0 .. 15 |-> s[k]]
      /\ \A k \in 0 .. 15 : k # 15 => s[k] = IF k < m THEN content[k + 1] ELSE 0
  BY DEF InlineRepr
<1> HIDE DEF s, m
<1>3. ASSUME NEW k \in 0 .. 15  PROVE s[k] \in Byte
  <2>1. CASE k = 15
    BY <1>1, <1>2, <2>1, ByteBounds
  <2>2. CASE k # 15 /\ k < m
    <3>1. k + 1 \in 1 .. m
      BY <1>1, <2>2
    <3> QED BY <1>1, <1>2, <2>2, <3>1
  <2>3. CASE k # 15 /\ ~(k < m)
    <3>1. s[k] = 0
      BY <1>2, <2>3
    <3> QED BY <3>1, ByteBounds
  <2> QED BY <2>1, <2>2, <2>3
<1>4. s \in PinpStr
  BY <1>2, <1>3 DEF PinpStr
<1>5. ~is_heap(s) /\ length(s) = m
  <2>1. m % 16 = m /\ ~(m >= 128)
    BY <1>1
  <2>2. ~is_heap(s)
    BY <1>2, <2>1 DEF is_heap, IsMarked
  <2> QED BY <1>2, <2>1, <2>2 DEF length, LowHalf
<1>6. as_bytes(memory, s) = [i \in 1 .. m |-> s[i - 1]]
  BY <1>5 DEF as_bytes
<1>7. ASSUME NEW i \in 1 .. m  PROVE s[i - 1] = content[i]
  <2>1. i - 1 \in 0 .. 15 /\ i - 1 # 15 /\ i - 1 < m /\ (i - 1) + 1 = i
    BY <1>1
  <2> QED BY <1>2, <2>1
<1>8. content = [i \in 1 .. m |-> content[i]]
  BY LenProperties DEF m
<1>9. as_bytes(memory, s) = content
  BY <1>6, <1>7, <1>8
<1> QED
  BY <1>2, <1>4, <1>5, <1>9 DEF s, m

-----------------------------------------------------------------------------

(* Every allocated address has bytes.                                       *)
LEMMA MemoryHolds ==
  ASSUME NEW memory \in Memories
  PROVE  /\ DOMAIN memory \subseteq Address
         /\ \A a \in DOMAIN memory : memory[a] \in Seq(Byte)
<1>1. PICK addresses \in SUBSET Address : memory \in [addresses -> Seq(Byte)]
  BY DEF Memories
<1> QED
  BY <1>1

(* Bytes at a set of addresses are a memory.                                *)
LEMMA MemoryMade ==
  ASSUME NEW addresses \in SUBSET Address, NEW memory \in [addresses -> Seq(Byte)]
  PROVE  memory \in Memories
BY DEF Memories

(* What a usable string holds has the length it states.                     *)
LEMMA ValidContent ==
  ASSUME NEW memory \in Memories, NEW s, Valid(memory, s)
  PROVE  /\ as_bytes(memory, s) \in Seq(Byte)
         /\ Len(as_bytes(memory, s)) = length(s)
         /\ length(s) \in Nat
         /\ is_heap(s) => as_bytes(memory, s) = memory[pointer(s)]
<1>1. CASE is_heap(s)
  <2> DEFINE content == memory[pointer(s)]
  <2>1. content \in Seq(Byte) /\ Len(content) = length(s)
    BY <1>1, MemoryHolds DEF Valid
  <2>2. SubSeq(content, 1, Len(content)) = content
    BY <2>1, SubSeqFull
  <2>3. as_bytes(memory, s) = content
    BY <1>1, <2>1, <2>2 DEF as_bytes
  <2>4. Len(content) \in Nat
    BY <2>1, LenProperties
  <2> QED BY <2>1, <2>3, <2>4
<1>2. CASE ~is_heap(s)
  <2> DEFINE n == length(s)
  <2>1. n = s[15] /\ n \in Nat /\ n <= 15
    <3>1. s[15] \in Nat /\ s[15] <= 15
      <4>1. s \in [0 .. 15 -> Byte] /\ 15 \in 0 .. 15
        BY DEF Valid, PinpStr
      <4>2. s[15] \in Byte
        BY <4>1
      <4> QED BY <1>2, <4>2, ByteBounds DEF Valid, MAX_INLINE
    <3>2. s[15] % 16 = s[15]
      BY <3>1
    <3> QED BY <1>2, <3>1, <3>2 DEF length, LowHalf
  <2> HIDE DEF n
  <2>2. as_bytes(memory, s) = [i \in 1 .. n |-> s[i - 1]]
    BY <1>2 DEF as_bytes, n
  <2>3. ASSUME NEW i \in 1 .. n  PROVE s[i - 1] \in Byte
    <3>1. i - 1 \in 0 .. 15
      BY <2>1
    <3> QED BY <3>1 DEF Valid, PinpStr
  <2>4. as_bytes(memory, s) \in Seq(Byte)
    BY <2>1, <2>2, <2>3, IsASeq
  <2>5. DOMAIN as_bytes(memory, s) = 1 .. n
    BY <2>2
  <2>6. Len(as_bytes(memory, s)) = n
    BY <2>1, <2>4, <2>5, LenProperties
  <2> QED BY <1>2, <2>1, <2>4, <2>6 DEF n
<1> QED
  BY <1>1, <1>2

(* What a string is made of is what it holds, and only its length decides   *)
(* where: the new string is usable, and the memory stays one.               *)
THEOREM MadeStringHoldsContent ==
  ASSUME NEW memory \in Memories, NEW address \in Address, address \notin DOMAIN memory,
         NEW content \in Seq(Byte), Len(content) <= MAX_STR_HEAP_LEN
  PROVE  LET made == make_from(memory, address, content) IN
         /\ ~made.error /\ made.memory \in Memories
         /\ Valid(made.memory, made.str)
         /\ as_bytes(made.memory, made.str) = content
         /\ is_heap(made.str) <=> Len(content) > MAX_INLINE
<1> DEFINE made == make_from(memory, address, content)
<1>1. Len(content) \in Nat
  BY LenProperties
<1>2. CASE Len(content) <= MAX_INLINE
  <2>1. made = Made(InlineRepr(content), memory)
    BY <1>2 DEF make_from
  <2>2. made.str = InlineRepr(content) /\ made.memory = memory /\ ~made.error
    BY <2>1 DEF Made
  <2> HIDE DEF made
  <2> DEFINE s == InlineRepr(content)
  <2>3. /\ s \in PinpStr /\ ~is_heap(s) /\ s[15] = Len(content)
        /\ as_bytes(memory, s) = content
    BY <1>2, ShortStringsAreTold
  <2> HIDE DEF s
  <2>4. Valid(memory, s)
    BY <1>2, <2>3 DEF Valid
  <2>5. ~(Len(content) > MAX_INLINE)
    BY <1>1, <1>2 DEF MAX_INLINE
  <2>6. /\ ~made.error /\ made.memory \in Memories
        /\ Valid(made.memory, made.str)
        /\ as_bytes(made.memory, made.str) = content
        /\ is_heap(made.str) <=> Len(content) > MAX_INLINE
    BY <2>2, <2>3, <2>4, <2>5 DEF s
  <2> QED BY <2>6 DEF made
<1>3. CASE ~(Len(content) <= MAX_INLINE)
  <2> DEFINE bigger == [a \in DOMAIN memory \cup {address} |->
                          IF a = address THEN content ELSE memory[a]]
             s == HeapRepr(address, Len(content))
  <2>1. made = Made(s, bigger)
    <3>1. ~(Len(content) > MAX_STR_HEAP_LEN)
      BY <1>1, SMT DEF MAX_STR_HEAP_LEN
    <3> HIDE DEF s, bigger
    <3> QED BY <1>3, <3>1 DEF make_from, bigger, s
  <2>2. made.str = s /\ made.memory = bigger /\ ~made.error
    BY <2>1 DEF Made
  <2> HIDE DEF made
  <2>3. is_heap(s) /\ length(s) = Len(content) /\ pointer(s) = address /\ s \in PinpStr
    BY <1>1, LongStringsAreTold, HeapBytes
  <2>4. DOMAIN bigger = DOMAIN memory \cup {address} /\ bigger[address] = content
    OBVIOUS
  <2>5. bigger \in Memories
    <3>1. DOMAIN memory \cup {address} \in SUBSET Address
      BY MemoryHolds
    <3>2. bigger \in [DOMAIN memory \cup {address} -> Seq(Byte)]
      BY MemoryHolds
    <3> HIDE DEF bigger
    <3> QED BY <3>1, <3>2, MemoryMade
  <2> HIDE DEF bigger, s
  <2>6. MAX_INLINE < Len(content)
    BY <1>1, <1>3 DEF MAX_INLINE
  <2>7. Valid(bigger, s)
    BY <2>3, <2>4, <2>6 DEF Valid
  <2>8. as_bytes(bigger, s) = content
    BY <2>3, <2>4, <2>5, <2>7, ValidContent
  <2>9. Len(content) > MAX_INLINE
    BY <1>1, <1>3 DEF MAX_INLINE
  <2>10. /\ ~made.error /\ made.memory \in Memories
         /\ Valid(made.memory, made.str)
         /\ as_bytes(made.memory, made.str) = content
         /\ is_heap(made.str) <=> Len(content) > MAX_INLINE
    BY <2>2, <2>3, <2>5, <2>7, <2>8, <2>9 DEF s
  <2> QED BY <2>10 DEF made
<1> QED
  BY <1>2, <1>3

(* Making a string leaves every other string usable, with the content it    *)
(* had: the allocator hands out an address that no string holds.            *)
THEOREM MakingKeepsOthers ==
  ASSUME NEW memory \in Memories, NEW address \in Address, address \notin DOMAIN memory,
         NEW content \in Seq(Byte), Len(content) <= MAX_STR_HEAP_LEN,
         NEW other, Valid(memory, other)
  PROVE  LET made == make_from(memory, address, content) IN
         /\ Valid(made.memory, other)
         /\ as_bytes(made.memory, other) = as_bytes(memory, other)
<1> DEFINE made == make_from(memory, address, content)
           bigger == [a \in DOMAIN memory \cup {address} |->
                        IF a = address THEN content ELSE memory[a]]
           after == made.memory
<1>1. ~(Len(content) > MAX_STR_HEAP_LEN)
  <2>1. Len(content) \in Nat
    BY LenProperties
  <2> QED BY <2>1, SMT DEF MAX_STR_HEAP_LEN
<1>2. after = memory \/ after = bigger
  <2> DEFINE s == HeapRepr(address, Len(content))
             short == InlineRepr(content)
  <2> HIDE DEF s, short, bigger
  <2>1. made = Made(short, memory) \/ made = Made(s, bigger)
    BY <1>1 DEF make_from, s, short, bigger
  <2> HIDE DEF made
  <2> QED BY <2>1 DEF Made
<1> HIDE DEF made
<1>3. \A a \in DOMAIN memory : a \in DOMAIN after /\ after[a] = memory[a]
  <2>1. \A a \in DOMAIN memory : a \in DOMAIN bigger /\ bigger[a] = memory[a]
    OBVIOUS
  <2> HIDE DEF bigger
  <2> QED BY <1>2, <2>1
<1> HIDE DEF after
<1>4. Valid(after, other) /\ as_bytes(after, other) = as_bytes(memory, other)
  <2>1. CASE is_heap(other)
    BY <1>3, <2>1 DEF Valid, as_bytes
  <2>2. CASE ~is_heap(other)
    BY <2>2 DEF Valid, as_bytes
  <2> QED BY <2>1, <2>2
<1> QED
  BY <1>4 DEF after, made

(* A concatenation holds the one content after the other, whichever of the  *)
(* three strings are inline, as long as it is not too long; the operands    *)
(* keep theirs.                                                             *)
THEOREM ConcatIsConcat ==
  ASSUME NEW memory \in Memories, NEW address \in Address, address \notin DOMAIN memory,
         NEW s, Valid(memory, s), NEW t, Valid(memory, t),
         length(s) + length(t) <= MAX_STR_HEAP_LEN
  PROVE  LET made == concat(memory, address, s, t) IN
         /\ ~made.error
         /\ Valid(made.memory, made.str)
         /\ as_bytes(made.memory, made.str) = as_bytes(memory, s) \o as_bytes(memory, t)
         /\ as_bytes(made.memory, s) = as_bytes(memory, s)
         /\ as_bytes(made.memory, t) = as_bytes(memory, t)
<1> DEFINE x == as_bytes(memory, s)
           y == as_bytes(memory, t)
           content == x \o y
           made == concat(memory, address, s, t)
<1>1. x \in Seq(Byte) /\ y \in Seq(Byte) /\ Len(x) = length(s) /\ Len(y) = length(t)
  BY ValidContent
<1>2. made = make_from(memory, address, content)
  BY DEF concat
<1> HIDE DEF x, y, made
<1>3. content \in Seq(Byte) /\ Len(content) <= MAX_STR_HEAP_LEN
  BY <1>1, ConcatProperties
<1> HIDE DEF content
<1>4. /\ ~made.error
      /\ Valid(made.memory, made.str)
      /\ as_bytes(made.memory, made.str) = content
  BY <1>2, <1>3, MadeStringHoldsContent
<1>5. as_bytes(made.memory, s) = x /\ as_bytes(made.memory, t) = y
  BY <1>2, <1>3, MakingKeepsOthers DEF x, y
<1> QED
  BY <1>4, <1>5 DEF made, content, x, y

(* Freeing a string leaves it empty, so that a second free changes nothing, *)
(* and every string that does not share its buffer keeps its content.       *)
THEOREM FreeTakesOnlyItsBuffer ==
  ASSUME NEW memory \in Memories, NEW s, Valid(memory, s)
  PROVE  LET freed == free(memory, s) IN
         /\ Valid(freed.memory, freed.str) /\ as_bytes(freed.memory, freed.str) = <<>>
         /\ free(freed.memory, freed.str) = freed
         /\ \A other : /\ Valid(memory, other)
                       /\ is_heap(s) /\ is_heap(other) => pointer(s) # pointer(other)
                       => /\ Valid(freed.memory, other)
                          /\ as_bytes(freed.memory, other) = as_bytes(memory, other)
<1> DEFINE freed == free(memory, s)
           after == freed.memory
           none == InlineRepr(<< >>)
           smaller == [a \in DOMAIN memory \ {pointer(s)} |-> memory[a]]
<1>1. freed = Made(none, IF is_heap(s) THEN smaller ELSE memory)
  BY DEF free
<1>2. /\ none \in PinpStr /\ ~is_heap(none) /\ none[15] = 0
      /\ \A m : as_bytes(m, none) = << >>
  <2>1. << >> \in Seq(Byte) /\ Len(<< >>) = 0 /\ 0 <= MAX_INLINE
    BY DEF MAX_INLINE
  <2> DEFINE nothing == << >>
  <2> HIDE DEF nothing
  <2> QED BY <2>1, ShortStringsAreTold DEF nothing
<1> HIDE DEF none, smaller
<1>3. freed.str = none /\ after = IF is_heap(s) THEN smaller ELSE memory
  BY <1>1 DEF Made
<1>4. free(after, none) = freed
  <2>1. freed = Made(none, after)
    BY <1>1, <1>3
  <2>2. free(after, none) = Made(none, after)
    BY <1>2 DEF free, none
  <2> QED BY <2>1, <2>2
<1>5. Valid(after, none)
  BY <1>2 DEF Valid, MAX_INLINE
<1> HIDE DEF freed
<1>6. ASSUME NEW other, Valid(memory, other),
             is_heap(s) /\ is_heap(other) => pointer(s) # pointer(other)
      PROVE  Valid(after, other) /\ as_bytes(after, other) = as_bytes(memory, other)
  <2> HIDE DEF after
  <2>1. CASE is_heap(s) /\ is_heap(other)
    <3>1. pointer(other) \in DOMAIN after /\ after[pointer(other)] = memory[pointer(other)]
      BY <1>3, <1>6, <2>1 DEF Valid, smaller
    <3> QED BY <1>6, <2>1, <3>1 DEF Valid, as_bytes
  <2>2. CASE ~is_heap(s)
    BY <1>3, <1>6, <2>2
  <2>3. CASE ~is_heap(other)
    BY <1>6, <2>3 DEF Valid, as_bytes
  <2> QED BY <2>1, <2>2, <2>3
<1>7. /\ Valid(after, freed.str) /\ as_bytes(after, freed.str) = << >>
      /\ free(after, freed.str) = freed
  BY <1>2, <1>3, <1>4, <1>5
<1> QED
  BY <1>6, <1>7 DEF freed
=============================================================================
