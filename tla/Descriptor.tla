----------------------------- MODULE Descriptor -----------------------------
(***************************************************************************)
(* The sixteen bytes of a string (src/runtime/string.rs).  Up to fifteen   *)
(* bytes of content stand in them, and the last byte is their number.  A   *)
(* longer string has its content in a buffer, and its sixteen bytes are    *)
(* the buffer's address (0 to 7), the length (8 to 11), and the length     *)
(* again with the highest bit set (12 to 15).  One byte, the last, belongs *)
(* to a number in both forms and tells which form it is.                   *)
(*                                                                         *)
(* A memory is a function from the addresses of the allocated buffers to   *)
(* what they hold.  An address is its eight bytes.                         *)
(***************************************************************************)
EXTENDS Integers, Sequences

MAX_INLINE == 15
MAX_STR_HEAP_LEN == 1073741823    \* 2^30 - 1

Byte == 0 .. 255
Address == [0 .. 7 -> Byte]
PinpStr == [0 .. 15 -> Byte]
Memories == UNION {[addresses -> Seq(Byte)] : addresses \in SUBSET Address}

-----------------------------------------------------------------------------
(* The two forms.                                                           *)

(* The bytes of a word, the least significant first; what a word cannot     *)
(* hold is cut off.                                                         *)
Byte0(n) == n % 256
Byte1(n) == (n \div 256) % 256
Byte2(n) == ((n \div 256) \div 256) % 256
Byte3(n) == (((n \div 256) \div 256) \div 256) % 256

Word(b0, b1, b2, b3) == b0 + 256 * (b1 + 256 * (b2 + 256 * b3))

(* The highest bit of a byte, set and tested; and the four lowest.          *)
Marked(b) == IF b >= 128 THEN b ELSE b + 128
IsMarked(b) == b >= 128
LowHalf(b) == b % 16

InlineRepr(content) ==
  [k \in 0 .. 15 |-> IF k = 15 THEN Len(content)
                     ELSE IF k < Len(content) THEN content[k + 1] ELSE 0]

HeapRepr(address, total) ==
  [k \in 0 .. 15 |-> CASE k <= 7 -> address[k]
                       [] k \in {8, 12} -> Byte0(total)
                       [] k \in {9, 13} -> Byte1(total)
                       [] k \in {10, 14} -> Byte2(total)
                       [] k = 11 -> Byte3(total)
                       [] k = 15 -> Marked(Byte3(total))]

is_heap(s) == IsMarked(s[15])
length(s) == IF is_heap(s) THEN Word(s[8], s[9], s[10], s[11]) ELSE LowHalf(s[15])
pointer(s) == [k \in 0 .. 7 |-> s[k]]

as_bytes(memory, s) ==
  IF is_heap(s) THEN SubSeq(memory[pointer(s)], 1, length(s))
                ELSE [i \in 1 .. length(s) |-> s[i - 1]]

-----------------------------------------------------------------------------
(* What the generated code calls.  A call yields the string and the memory  *)
(* after it, or an error.                                                   *)

Made(s, memory) == [str |-> s, memory |-> memory, error |-> FALSE]
Failed(memory) == [str |-> InlineRepr(<<>>), memory |-> memory, error |-> TRUE]

(* make_with and make_from; pinp_alloc answers with `address`.              *)
make_from(memory, address, content) ==
  IF Len(content) <= MAX_INLINE THEN Made(InlineRepr(content), memory)
  ELSE IF Len(content) > MAX_STR_HEAP_LEN THEN Failed(memory)
  ELSE Made(HeapRepr(address, Len(content)),
            [a \in DOMAIN memory \cup {address} |->
               IF a = address THEN content ELSE memory[a]])

concat(memory, address, s, t) ==
  make_from(memory, address, as_bytes(memory, s) \o as_bytes(memory, t))

concat_n(memory, address, parts) ==
  LET joined[n \in 0 .. Len(parts)] ==
        IF n = 0 THEN <<>> ELSE joined[n - 1] \o as_bytes(memory, parts[n])
  IN  make_from(memory, address, joined[Len(parts)])

free(memory, s) ==
  Made(InlineRepr(<<>>),
       IF is_heap(s) THEN [a \in DOMAIN memory \ {pointer(s)} |-> memory[a]] ELSE memory)

eq(memory, s, t) == as_bytes(memory, s) = as_bytes(memory, t)

(* The order of the first bytes that differ; a shorter prefix comes first.  *)
cmp(memory, s, t) ==
  LET x == as_bytes(memory, s)
      y == as_bytes(memory, t)
      Before(u, v) ==
        \E n \in 0 .. Len(u) :
          /\ n <= Len(v) /\ \A i \in 1 .. n : u[i] = v[i]
          /\ IF n < Len(u) THEN n < Len(v) /\ u[n + 1] < v[n + 1] ELSE n < Len(v)
  IN  CASE x = y -> 0 [] Before(x, y) -> -1 [] OTHER -> 1

-----------------------------------------------------------------------------

(* A string that can be used: short ones stand inline, and a long one has a *)
(* buffer of exactly its length.                                            *)
Valid(memory, s) ==
  /\ s \in PinpStr
  /\ IF is_heap(s)
       THEN /\ pointer(s) \in DOMAIN memory
            /\ Len(memory[pointer(s)]) = length(s)
            /\ MAX_INLINE < length(s) /\ length(s) <= MAX_STR_HEAP_LEN
       ELSE s[15] <= MAX_INLINE
=============================================================================
