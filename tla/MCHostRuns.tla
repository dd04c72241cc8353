----------------------------- MODULE MCHostRuns -----------------------------
(* The programs of MCStringCode, run by a host again and again.             *)
EXTENDS MCStringCode, StringTypes

(* The trees of a program, and what each may assign.                        *)
MCSymbol == {"s", "t", "u", "v"}

RECURSIVE Trees(_)
TreesOf(block) ==
  IF block = Missing THEN {}
  ELSE (UNION {Trees(block.stmts[i]) : i \in DOMAIN block.stmts})
         \cup (IF block.result = Missing THEN {} ELSE Trees(block.result))

Children(x) ==
  CASE x.kind \in {"scalar", "literal", "var", "call"} -> {}
    [] x.kind = "concat" -> UNION {Trees(x.parts[i]) : i \in DOMAIN x.parts}
    [] x.kind \in {"str", "len"} -> Trees(x.of)
    [] x.kind = "compare" -> Trees(x.left) \cup Trees(x.right)
    [] x.kind = "if" -> TreesOf(x.yes) \cup TreesOf(x.no)
    [] x.kind = "assign" -> UNION {Trees(x.values[i]) : i \in DOMAIN x.values}
    [] x.kind = "expr" -> Trees(x.expr)
    [] x.kind = "loop" -> {[x EXCEPT !.pretest = TRUE]} \cup Trees(x.cond) \cup TreesOf(x.body)
    [] x.kind = "for" -> {Turns(x.body)} \cup Trees(x.source) \cup TreesOf(x.body)
    [] x.kind = "turns" -> TreesOf(x.body)
Trees(x) == {x} \cup Children(x)

AllTrees(p) ==
  (UNION {Trees(p.stmts[i]) : i \in DOMAIN p.stmts})
    \cup (UNION {TreesOf(p.functions[name]) : name \in DOMAIN p.functions})

IsStatement(x) == x.kind \in {"assign", "expr", "loop", "for", "turns"}
MCExpr(p) == {x \in AllTrees(p) : ~IsStatement(x)}
MCStmt(p) == {x \in AllTrees(p) : IsStatement(x)}

(* The functions of these programs call no others.                          *)
Targets(trees) == UNION {UNION {ToSet(g) : g \in ToSet(x.groups)} : x \in
                          {y \in trees : y.kind = "assign"}}
MCWrites(p, x) ==
  LET called == {y.name : y \in {z \in Trees(x) : z.kind = "call"}} IN
  Targets(Trees(x))
    \cup {place \in (UNION {Targets(TreesOf(p.functions[name])) : name \in called}) : place.global}

(* The bytes of the strings those programs hold, on both sides of every     *)
(* limit: made, joined, compared and freed at two addresses.                *)
Bytes == INSTANCE Descriptor

At(n) == [k \in 0 .. 7 |-> IF k = 0 THEN n ELSE 255]
Text(first, n) == [i \in 1 .. n |-> (first + i) % 256]

Lengths == {0, 1, 7, 8, 14, 15, 16, 17, 255, 256, 257}
LongLengths == {16, 65535, 65536, 16777215, 16777216, Bytes!MAX_STR_HEAP_LEN}

TwoStrings(n, m) ==
  LET one == Bytes!make_from(<<>>, At(1), Text(60, n))
      two == Bytes!make_from(one.memory, At(2), Text(7, m))
      both == Bytes!concat(two.memory, At(3), one.str, two.str)
      all == Bytes!concat_n(two.memory, At(3), <<one.str, two.str, one.str>>)
      freed == Bytes!free(both.memory, one.str)
  IN  /\ Bytes!Valid(both.memory, one.str) /\ Bytes!Valid(both.memory, two.str)
      /\ Bytes!Valid(both.memory, both.str) /\ Bytes!Valid(all.memory, all.str)
      /\ Bytes!as_bytes(both.memory, one.str) = Text(60, n)
      /\ Bytes!as_bytes(both.memory, two.str) = Text(7, m)
      /\ Bytes!as_bytes(both.memory, both.str) = Text(60, n) \o Text(7, m)
      /\ Bytes!as_bytes(all.memory, all.str) = Text(60, n) \o Text(7, m) \o Text(60, n)
      /\ Bytes!as_bytes(freed.memory, both.str) = Text(60, n) \o Text(7, m)
      /\ Bytes!free(freed.memory, freed.str) = freed
      /\ Bytes!cmp(two.memory, one.str, two.str) =
           (IF n = 0 THEN IF m = 0 THEN 0 ELSE -1 ELSE 1)

ASSUME BytesAssumption ==
  /\ \A n, m \in Lengths : TwoStrings(n, m)
  /\ \A n \in LongLengths :
       LET long == Bytes!HeapRepr(At(1), n) IN
       Bytes!is_heap(long) /\ Bytes!length(long) = n /\ Bytes!pointer(long) = At(1)

(* And none of them uses what it read after assigning the variable.         *)
ASSUME CarefulAssumption == \A name \in MCName : Careful(Program(name))
=============================================================================
