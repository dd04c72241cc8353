----------------------------- MODULE StringCode -----------------------------
(***************************************************************************)
(* Who frees what: the strings of the generated code when it runs          *)
(* (src/codegen/string.rs and the string paths of src/codegen/stmt.rs and  *)
(* src/codegen/lower.rs over src/runtime/string.rs).                       *)
(*                                                                         *)
(* A string value in flight is a descriptor: short content lives inline in *)
(* it, longer content in a buffer on the heap.  The generator decides per  *)
(* expression whether a value is owned, so that its consumer frees it, or  *)
(* borrowed from a slot.  Nothing is counted when the code runs.           *)
(*                                                                         *)
(* Buffers are numbered.  A number is used again only when nothing holds   *)
(* it any more, so a stale descriptor is never mistaken for a good one.    *)
(***************************************************************************)
EXTENDS Integers, SequencesExt, FiniteSetsExt

CONSTANTS
  Name,              \* names of the programs considered
  ProgramNamed(_)    \* and the program each stands for

VARIABLES
  program,
  todo,        \* the code left to run
  operands,    \* the string values in flight, newest last: where, and if owned
  frames,      \* all open scopes, oldest first: what their string slots hold
  saved,       \* for each call in progress, how many of them are its callers'
  globals,
  live,        \* the buffers allocated and not freed
  misused      \* those the last step read or freed without being allowed to

vars == <<program, todo, operands, frames, saved, globals, live, misused>>

Missing == [kind |-> "missing"]
Inline == 0    \* the buffer of a descriptor that needs none; the empty string

-----------------------------------------------------------------------------
(* The syntax tree, as far as strings go.                                   *)
(* Every expression carries its type, which sema has settled: a string or   *)
(* not.  Every variable of the programs is a string.                        *)

Block(stmts, result) == [stmts |-> stmts, result |-> result]
Yields(b) == b # Missing /\ b.result # Missing /\ b.result.str

Literal(long) == [kind |-> "literal", str |-> TRUE, long |-> long]
Var(place) == [kind |-> "var", str |-> TRUE, place |-> place]
Scalar == [kind |-> "scalar", str |-> FALSE]    \* anything without strings in it
Concat(parts) == [kind |-> "concat", str |-> TRUE, parts |-> parts]    \* or an f-string
Str(e) == [kind |-> "str", str |-> TRUE, of |-> e]    \* the conversion str(e)
LenOf(e) == [kind |-> "len", str |-> FALSE, of |-> e]
Compare(l, r) == [kind |-> "compare", str |-> FALSE, left |-> l, right |-> r]
Call(name, str) == [kind |-> "call", str |-> str, name |-> name]
If(yes, no) ==    \* on any condition
  [kind |-> "if", str |-> Yields(yes) /\ Yields(no), yes |-> yes, no |-> no]

Local(x) == [global |-> FALSE, sym |-> x]
Global(x) == [global |-> TRUE, sym |-> x]

Assign(groups, values) == [kind |-> "assign", groups |-> groups, values |-> values]
ExprStmt(e) == [kind |-> "expr", expr |-> e]
Loop(cond, body, pretest) ==
  [kind |-> "loop", cond |-> cond, body |-> body, pretest |-> pretest]
For(source, body) == [kind |-> "for", source |-> source, body |-> body]
Turns(body) == [kind |-> "turns", body |-> body]    \* the rest of a `for`

-----------------------------------------------------------------------------
(* The code of expressions, statements and blocks, as items to run.         *)

Value(e) == [do |-> "value", expr |-> e]
Do(stmt) == [do |-> "stmt", stmt |-> stmt]
EnterScope == [do |-> "enter"]
CloseScope == [do |-> "close"]
Make(long) == [do |-> "make", long |-> long]
Render == [do |-> "render"]
Load(place) == [do |-> "load", place |-> place]
Join(n) == [do |-> "join", count |-> n]
Own == [do |-> "own"]
Inspect(n) == [do |-> "inspect", count |-> n]
Store(place, first, back) ==
  [do |-> "store", place |-> place, first |-> first, back |-> back]
Drop(n) == [do |-> "drop", count |-> n]    \* forget values without freeing them
Discard == [do |-> "discard"]
Parts(e, done) == [do |-> "parts", expr |-> e, done |-> done]
Values(s, done) == [do |-> "values", stmt |-> s, done |-> done]
Stores(s, group, index) == [do |-> "stores", stmt |-> s, group |-> group, index |-> index]
Choose(e) == [do |-> "if", expr |-> e]
Repeat(s) == [do |-> "repeat", stmt |-> s]
Invoke(name) == [do |-> "invoke", name |-> name]
Back == [do |-> "back"]
Finish == [do |-> "finish"]
HandOver == [do |-> "host"]

(* A string rendered into an owned value, whatever its type.                *)
Owned(e) == <<Value(e)>> \o (IF e.str THEN <<Own>> ELSE <<>>)

(* gen_block: the result is owned before the scope frees its strings.       *)
BlockCode(b) ==
  <<EnterScope>> \o [i \in DOMAIN b.stmts |-> Do(b.stmts[i])]
    \o (IF b.result = Missing THEN <<>> ELSE Owned(b.result)) \o <<CloseScope>>

ResultBorrowed(body) ==    \* a mistake: the result is not owned before the frame goes
  [i \in DOMAIN body.stmts |-> Do(body.stmts[i])] \o <<Value(body.result), CloseScope, Back>>

(* gen_function, whose base frame is opened by the call.                    *)
FunctionCode(body) ==
  [i \in DOMAIN body.stmts |-> Do(body.stmts[i])] \o Owned(body.result) \o <<CloseScope, Back>>

(* A block run for its effect: what it yields is not looked at.             *)
ForEffect(b) ==
  IF b = Missing THEN <<>>
  ELSE BlockCode(b) \o (IF Yields(b) THEN <<Drop(1)>> ELSE <<>>)

(* gen_if: the values of the branches meet, or nobody takes them.           *)
BranchCode(e, branch) == IF e.str THEN BlockCode(branch) ELSE ForEffect(branch)

(* gen_str_concat and gen_fstring, one part after the other: a scalar is    *)
(* rendered.                                                                *)
PartCode(e) == IF e.str THEN <<Value(e)>> ELSE <<Value(e), Render>>
PartsCode(e, done) ==
  IF done = Len(e.parts) THEN <<Join(done)>>
  ELSE PartCode(e.parts[done + 1]) \o <<Parts(e, done + 1)>>

ExprCode(e) ==
  CASE e.kind = "scalar" -> <<>>
    [] e.kind = "literal" -> <<Make(e.long)>>
    [] e.kind = "var" -> <<Load(e.place)>>
    [] e.kind = "concat" -> <<Parts(e, 0)>>
    [] e.kind = "str" -> IF e.of.str THEN Owned(e.of) ELSE <<Value(e.of), Render>>
    [] e.kind = "len" -> <<Value(e.of), Inspect(1)>>
    [] e.kind = "compare" -> <<Value(e.left), Value(e.right), Inspect(2)>>
    [] e.kind = "call" -> <<Invoke(e.name)>>
    [] e.kind = "if" -> <<Value(Scalar), Choose(e)>>

(* All values first, each owned; then every group of targets in turn, where *)
(* the first group takes the values themselves and later ones take copies.  *)
AssignCode(s) == <<Values(s, 0), Stores(s, 1, 1)>>

ValuesCode(s, done) ==
  IF done = Len(s.values) THEN <<>>
  ELSE Owned(s.values[done + 1]) \o <<Values(s, done + 1)>>

StoresCode(s, group, index) ==
  IF group > Len(s.groups) THEN <<>>
  ELSE IF index > Len(s.values) THEN <<Stores(s, group + 1, 1)>>
  ELSE <<Store(s.groups[group][index], group = 1, Len(s.values) - index),
         Stores(s, group, index + 1)>>

(* One more turn of a loop; a `loop` tests its condition after the first.   *)
Again(s) ==
  ForEffect(s.body) \o <<Do(IF s.kind = "loop" THEN [s EXCEPT !.pretest = TRUE] ELSE s)>>

StmtCode(s) ==
  CASE s.kind = "assign" -> AssignCode(s) \o <<Drop(Len(s.values))>>
    [] s.kind = "expr" -> <<Value(s.expr)>> \o (IF s.expr.str THEN <<Discard>> ELSE <<>>)
    [] s.kind = "loop" -> IF s.pretest THEN <<Value(s.cond), Repeat(s)>> ELSE Again(s)
    [] s.kind = "for" -> <<Value(s.source), Do(Turns(s.body))>>
    [] s.kind = "turns" -> <<Repeat(s)>>

(* gen_entry: the value of the last statement is the program's.             *)
LastCode(s) ==
  CASE s.kind = "expr" -> Owned(s.expr) \o (IF s.expr.str THEN <<Finish, HandOver>>
                                                             ELSE <<Finish>>)
    [] s.kind = "assign" -> AssignCode(s) \o <<Own, Finish, HandOver>>
    [] OTHER -> StmtCode(s) \o <<Finish>>

EntryCode(p) ==
  [i \in 1 .. Len(p.stmts) - 1 |-> Do(p.stmts[i])] \o <<[do |-> "last", stmt |-> Last(p.stmts)]>>

-----------------------------------------------------------------------------
(* The heap.                                                                *)

Buffers(slots) == {slots[x] : x \in DOMAIN slots}

Mentioned ==
  {operands[i].buffer : i \in DOMAIN operands}
    \cup (UNION {Buffers(frames[i]) : i \in DOMAIN frames}) \cup Buffers(globals)

Fresh == CHOOSE b \in 1 .. Cardinality(live \cup Mentioned) + 1 : b \notin live \cup Mentioned

IsHeap(b) == b # Inline

(* One step: read some buffers, allocate one unless it is Inline, and then  *)
(* free what some slots or values hold.                                     *)
Heap(read, made, freed) ==
  LET gone == {b \in Buffers(freed) : IsHeap(b)}
      present == live \cup {made}
      twice == {b \in gone : \E i, j \in DOMAIN freed : i # j /\ freed[i] = b /\ freed[j] = b}
  IN  /\ misused' = (({b \in read : IsHeap(b)} \cup gone) \ present) \cup twice
      /\ live' = {b \in present : IsHeap(b)} \ gone

HeapUntouched == misused' = {} /\ UNCHANGED live

(* make_with: where content made of these parts goes.  A part on the heap   *)
(* is longer than fits inline; a single inline part stays inline.           *)
Homes(parts) ==
  IF \E p \in ToSet(parts) : IsHeap(p.buffer) THEN {Fresh}
  ELSE IF Len(parts) <= 1 THEN {Inline} ELSE {Inline, Fresh}

OwnedBuffers(parts) == [i \in DOMAIN parts |-> IF parts[i].owned THEN parts[i].buffer ELSE Inline]
BuffersOf(parts) == {p.buffer : p \in ToSet(parts)}

-----------------------------------------------------------------------------
(* Slots.                                                                   *)

InFunction == saved # <<>>
CallersScopes == IF InFunction THEN Last(saved) ELSE 0
Nearest(x) == {i \in DOMAIN frames : i > CallersScopes /\ x \in DOMAIN frames[i]}

IsGlobal(place) ==
  \/ place.global
  \/ Nearest(place.sym) = {} /\ ~InFunction /\ place.sym \in DOMAIN globals

(* The scope resolve_place finds a local in, or introduces it to.           *)
ScopeOf(x) == IF Nearest(x) = {} THEN Len(frames) ELSE Max(Nearest(x))

Holds(place) ==
  IF IsGlobal(place) THEN globals[place.sym]
  ELSE IF Nearest(place.sym) = {} THEN Inline
  ELSE frames[ScopeOf(place.sym)][place.sym]

SetSlot(place, buffer) ==
  IF IsGlobal(place)
    THEN globals' = [globals EXCEPT ![place.sym] = buffer] /\ UNCHANGED frames
    ELSE /\ frames' = [frames EXCEPT ![ScopeOf(place.sym)] =
              [y \in DOMAIN @ \cup {place.sym} |-> IF y = place.sym THEN buffer ELSE @[y]]]
         /\ UNCHANGED globals

-----------------------------------------------------------------------------
(* One action for each item.                                                *)

Top(item) == todo # <<>> /\ Head(todo).do = item
Item == Head(todo)
Continue(items) == todo' = items \o Tail(todo)
Descriptor(buffer, owned) == [buffer |-> buffer, owned |-> owned]

(* The newest n operands, and those below.                                  *)
Newest(n) == SubSeq(operands, Len(operands) - n + 1, Len(operands))
Below(n) == SubSeq(operands, 1, Len(operands) - n)

Scopes == <<frames, saved, globals>>

Expand ==
  /\ \/ Top("value") /\ Continue(ExprCode(Item.expr))
     \/ Top("parts") /\ Continue(PartsCode(Item.expr, Item.done))
     \/ Top("stmt") /\ Continue(StmtCode(Item.stmt))
     \/ Top("values") /\ Continue(ValuesCode(Item.stmt, Item.done))
     \/ Top("stores") /\ Continue(StoresCode(Item.stmt, Item.group, Item.index))
     \/ Top("last") /\ Continue(LastCode(Item.stmt))
  /\ HeapUntouched
  /\ UNCHANGED <<program, operands, Scopes>>

Push(read, made, freed, rest) ==
  /\ Continue(<<>>)
  /\ Heap(read, made, freed)
  /\ operands' = Append(rest, Descriptor(made, TRUE))
  /\ UNCHANGED <<program, Scopes>>

(* pinp_str_from_cstr on a constant.                                        *)
MakeLiteral == Top("make") /\ Push({}, IF Item.long THEN Fresh ELSE Inline, <<>>, operands)

(* pinp_str_from_int and its like: most renderings fit inline.              *)
RenderScalar == Top("render") /\ \E made \in {Inline, Fresh} : Push({}, made, <<>>, operands)

(* Reading a variable copies its descriptor, not its content: it is the     *)
(* only expression whose value is borrowed.                                 *)
LoadSlot ==
  /\ Top("load")
  /\ Continue(<<>>)
  /\ operands' = Append(operands, Descriptor(Holds(Item.place), FALSE))
  /\ HeapUntouched
  /\ UNCHANGED <<program, Scopes>>

(* build_concat: one join of the parts, and then the owned ones are freed.  *)
JoinParts ==
  /\ Top("join")
  /\ LET parts == Newest(Item.count) IN
     \E made \in Homes(parts) :
       Push(BuffersOf(parts), made, OwnedBuffers(parts), Below(Item.count))

(* own_str: a borrowed value is copied, an owned one is left as it is.      *)
TakeOwnership ==
  /\ Top("own")
  /\ LET value == Last(operands) IN
       \/ ~value.owned /\ \E made \in Homes(<<value>>) :
                            Push({value.buffer}, made, <<>>, Below(1))
       \/ /\ value.owned
          /\ Continue(<<>>) /\ HeapUntouched
          /\ UNCHANGED <<program, operands, Scopes>>

(* A comparison or `.len` reads its operands, and frees the owned ones.     *)
InspectOperands ==
  /\ Top("inspect")
  /\ Continue(<<>>)
  /\ LET parts == Newest(Item.count) IN Heap(BuffersOf(parts), Inline, OwnedBuffers(parts))
  /\ operands' = Below(Item.count)
  /\ UNCHANGED <<program, Scopes>>

(* One store of an assignment: what the slot held is freed.  The first      *)
(* group moves the value into the slot, later groups copy it.               *)
StoreByMoving ==    \* a mistake: every group takes the value itself
  /\ Top("store")
  /\ Continue(<<>>)
  /\ LET index == Len(operands) - Item.back IN
       /\ Heap({}, Inline, <<Holds(Item.place)>>)
       /\ SetSlot(Item.place, operands[index].buffer)
       /\ operands' = [operands EXCEPT ![index].owned = FALSE]
  /\ UNCHANGED <<program, saved>>

StoreValue ==
  /\ Top("store")
  /\ Continue(<<>>)
  /\ LET index == Len(operands) - Item.back
         value == operands[index].buffer
         old == Holds(Item.place)
     IN  IF Item.first
           THEN /\ Heap({}, Inline, <<old>>)
                /\ SetSlot(Item.place, value)
                /\ operands' = [operands EXCEPT ![index].owned = FALSE]
           ELSE \E made \in Homes(<<operands[index]>>) :
                  /\ Heap({value}, made, <<old>>)
                  /\ SetSlot(Item.place, made)
                  /\ UNCHANGED operands
  /\ UNCHANGED <<program, saved>>

DropValues ==
  /\ Top("drop")
  /\ Continue(<<>>)
  /\ operands' = Below(Item.count)
  /\ HeapUntouched
  /\ UNCHANGED <<program, Scopes>>

(* free_discarded_str.                                                      *)
DiscardValue ==
  /\ Top("discard")
  /\ Continue(<<>>)
  /\ Heap({}, Inline, OwnedBuffers(Newest(1)))
  /\ operands' = Below(1)
  /\ UNCHANGED <<program, Scopes>>

Branch ==
  /\ \/ Top("if") /\ \E branch \in {Item.expr.yes, Item.expr.no} :
                        Continue(BranchCode(Item.expr, branch))
     \/ Top("repeat") /\ (Continue(Again(Item.stmt)) \/ Continue(<<>>))
  /\ HeapUntouched
  /\ UNCHANGED <<program, operands, Scopes>>

OpenScope ==
  /\ Top("enter")
  /\ Continue(<<>>)
  /\ frames' = Append(frames, <<>>)
  /\ HeapUntouched
  /\ UNCHANGED <<program, operands, saved, globals>>

FreeButKeepScope ==    \* a mistake: the scope is not popped
  /\ Top("close")
  /\ Continue(<<>>)
  /\ Heap({}, Inline, Last(frames))
  /\ UNCHANGED <<program, operands, frames, saved, globals>>

(* free_scope_strings and pop_scope.                                        *)
LeaveScope ==
  /\ Top("close")
  /\ Continue(<<>>)
  /\ Heap({}, Inline, Last(frames))
  /\ frames' = Front(frames)
  /\ UNCHANGED <<program, operands, saved, globals>>

(* gen_call and gen_function.                                               *)
InvokeFunction ==
  /\ Top("invoke")
  /\ Continue(FunctionCode(program.functions[Item.name]))
  /\ saved' = Append(saved, Len(frames))
  /\ frames' = Append(frames, <<>>)
  /\ HeapUntouched
  /\ UNCHANGED <<program, operands, globals>>

ReturnToCaller ==
  /\ Top("back")
  /\ Continue(<<>>)
  /\ saved' = Front(saved)
  /\ HeapUntouched
  /\ UNCHANGED <<program, operands, frames, globals>>

(* The end of the entry function: its own scope, then the globals.          *)
TopSlots ==
  [slot \in ({"local"} \X DOMAIN Last(frames)) \cup ({"global"} \X DOMAIN globals) |->
     IF slot[1] = "local" THEN Last(frames)[slot[2]] ELSE globals[slot[2]]]

FinishEntry ==
  /\ Top("finish")
  /\ Continue(<<>>)
  /\ Heap({}, Inline, TopSlots)
  /\ frames' = Append(Front(frames), [x \in DOMAIN Last(frames) |-> Inline])
  /\ globals' = [x \in DOMAIN globals |-> Inline]
  /\ UNCHANGED <<program, operands, saved>>

(* PinpJit::run copies the content of the result and frees it.  The other   *)
(* values of a trailing assignment have their slots.                        *)
HostTakesResult ==
  /\ Top("host")
  /\ Continue(<<>>)
  /\ Heap(BuffersOf(Newest(1)), Inline, OwnedBuffers(Newest(1)))
  /\ operands' = <<>>
  /\ UNCHANGED <<program, Scopes>>

(* declare_globals: every name assigned at the top level.                   *)
DeclaredGlobals(p) ==
  {place.sym : place \in UNION {UNION {ToSet(g) : g \in ToSet(s.groups)} :
                                  s \in {u \in ToSet(p.stmts) : u.kind = "assign"}}}

Init ==
  /\ program \in {ProgramNamed(name) : name \in Name}
  /\ todo = EntryCode(program)
  /\ operands = <<>>
  /\ frames = <<<<>>>>
  /\ saved = <<>>
  /\ globals = [x \in DeclaredGlobals(program) |-> Inline]
  /\ live = {}
  /\ misused = {}

Next ==
  \/ Expand \/ MakeLiteral \/ RenderScalar \/ LoadSlot \/ JoinParts \/ TakeOwnership
  \/ InspectOperands \/ StoreValue \/ DropValues \/ DiscardValue \/ Branch \/ OpenScope
  \/ LeaveScope \/ InvokeFunction \/ ReturnToCaller \/ FinishEntry \/ HostTakesResult

Spec == Init /\ [][Next]_vars

-----------------------------------------------------------------------------

(* Buffers are numbers; scopes, calls and values in flight are balanced     *)
(* when the program ends: what push_scope opens pop_scope closes.           *)
TypeOK ==
  /\ live \subseteq Nat \ {Inline}
  /\ \A i \in DOMAIN saved : saved[i] \in 1 .. Len(frames)
  /\ \A i \in DOMAIN operands : operands[i].buffer \in Nat
  /\ todo = <<>> => operands = <<>> /\ Len(frames) = 1 /\ saved = <<>>

(* What is to free a buffer: the owned values in flight and all slots.      *)
Owners ==
  {<<"value", i, "">> : i \in {j \in DOMAIN operands : operands[j].owned}}
    \cup (UNION {{<<"slot", i, x>> : x \in DOMAIN frames[i]} : i \in DOMAIN frames})
    \cup {<<"global", 0, x>> : x \in DOMAIN globals}

BufferOf(owner) ==
  IF owner[1] = "value" THEN operands[owner[2]].buffer
  ELSE IF owner[1] = "slot" THEN frames[owner[2]][owner[3]]
  ELSE globals[owner[3]]

(* At every moment each allocated buffer has exactly one owner, a slot or   *)
(* an owned value in flight, so that it is neither lost nor freed twice;    *)
(* and no owner holds a freed buffer.  The generator's rule ("only reading   *)
(* a variable borrows", copies for every further owner) has to give this    *)
(* with no count kept when the code runs.                                   *)
EveryBufferHasOneOwner ==
  \A b \in live \cup (Mentioned \ {Inline}) :
    Cardinality({o \in Owners : BufferOf(o) = b}) = IF b \in live THEN 1 ELSE 0

(* No step of the generated code, of the runtime it calls or of the host    *)
(* reads a buffer that was freed, or frees one a second time.               *)
NothingMisused == misused = {}

(* When the program is over and the host has its result, every buffer the   *)
(* run allocated is free again, as tests/string_leaks.rs asks of its cases. *)
NothingLeftBehind == todo = <<>> => live = {}
=============================================================================
