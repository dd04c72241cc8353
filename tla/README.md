# Verification of pinp

pinp is a small statically typed language with a just-in-time compiler: a program is lexed and
parsed, type-checked (sema), looked at by two dataflow checkers, lowered to LLVM IR and run in the
process of the host. This directory models the parts of it where being right depends on many steps
at once (the layout of a text and the parser that reads it, the dataflow solver, the graphs it works
on, what the checkers report compared with what the generated code does, the freeing of strings, also
across runs that end in an error, the bytes of a string, the arithmetic of ranges, and the cells that
arrays and matrices are read and written in), checks the models with TLC and proves theorems about
the lexer's layout, the solver, the graphs and the code they stand for, ranges, arrays, and the
ownership and the bytes of strings with TLAPS.

Everything in the compiler is single-threaded and deterministic. What makes it hard is not
concurrency but two other things: iteration in an order nobody chose (the solver), and agreement
between separate walks of one tree (sema, the graph builder, the checkers, the generator), each
with its own idea of scopes, order and ownership. The generated code is nondeterministic to its
compiler: which way a branch goes, how often a loop runs, how long a rendered value is.

## 1. Inventory

| Component | State it keeps | Operations | Correct when |
|---|---|---|---|
| Lexer, `src/lexer.rs` | stack of indents, pending newline | `lex`, `flush_pending_newline`, `emit_indent` | every indent is closed by one dedent; none inside brackets |
| Parser, `src/parser/{mod,item,expr}.rs` | token position, `pending_dedents`, depth, the arena | `parse_block`, `parse_stmt`, `parse_expr` | an expression that ends a block is its result; each wrapped conditional's dedent is swallowed once; depth at most 256 |
| AST, `src/parser/ast.rs` | arena of nodes, names, types | append, look up | ids stay valid |
| Sema, `src/sema/` | stack of scopes, loop variables, function table | `analyze_stmt`, `analyze_expr`, `assign_place` | an accepted program only reads what exists, with the type the generator gives it |
| Graph builder, `src/analysis/cfg.rs` | blocks, current block | `build_if`, `build_while`, `build_loop`, `build_counted_loop`, `finish` | paths of the graph are the runs of the code |
| Solver, `src/analysis/dataflow.rs` | facts before and after each block, worklist, visit count | `solve` | returns the least solution, whatever the order; ends |
| Checkers, `src/analysis/checks/` | none of their own | `check` | nothing reported as unreachable runs, nothing reported as unread is read |
| Diagnostics, `src/analysis/{mod,diagnostic}.rs` | list of findings | `check`, `render`, `LineIndex::locate` | in source order |
| Generator: slots and control flow, `src/codegen/{lower,stmt,expr}.rs` | frames of name to slot, globals, current LLVM block | `gen_stmt`, `gen_block`, `gen_if`, `resolve_place`, `gen_function`, `gen_entry` | every name resolves to the slot sema meant, stored to before it is read |
| Generator: strings, `src/codegen/string.rs` | none; ownership is decided per expression | `gen_owned_str`, `build_concat`, `free_scope_strings`, ... | each buffer freed exactly once, and after its last use |
| Generator: ranges, `src/codegen/{stmt,expr}.rs` | loop counter | `gen_range`, `default_step`, `range_continue`, `gen_membership` | loops end; `in` agrees with the iteration |
| Generator: arrays, `src/codegen/{expr,stmt}.rs` | buffers, loop counters | `gen_array_literal`, `gen_array_from_range`, `gen_index`, `gen_slice`, `gen_index2d`, `gen_slice_assign`, `gen_for_array_2`, ... | no access outside a buffer; an error exactly when an index is outside; a slice is the part it names |
| String runtime, `src/runtime/string.rs` | 16-byte descriptors | `make_with`, `pinp_str_*` | inline and heap are never confused |
| Shim, `src/runtime/shim.c` | three counters, a jump buffer, the pending error | `pinp_alloc`, `pinp_free`, `pinp_run`, `pinp_runtime_error` | counters balance; an error returns to its own run |
| JIT and host, `src/codegen/{jit,mod}.rs` | the compiled module | `PinpJit::new`, `run` | a result is taken over and freed once |

How they interact: `parse` gives an arena to `sema::analyze`, which fills in types.
`analysis::check` builds one graph for the top level and one for each function, hands each to both
checkers, and each checker calls `solve`. `PinpJit::new` walks the same tree again. The only thing
shared between units at run time is the module globals, which a call may change in the middle of an
expression; two of the findings below come from there. The generated code calls the runtime, which
allocates through the shim; `run` enters it through `pinp_run` and a runtime error jumps back there.

The behaviours that are hard to test, each with its line, are the `hazards` of PROJECT.json.

## 2. Modules

    Layout <- Layout_proofs                                    (theorems)
       ^
       +-- Parser <- Texts <- MCParser                         (runs)

    ChaoticIteration          abstract solver
          ^  refined by
    Dataflow <- DataflowSolver <- DataflowSolver_proofs        (theorems)
        ^            ^
        |            +---- MCDataflow, MCVisitBudget           (runs)
        |            |
    Ast <- Cfg <- Reachability <- Checks <-------------+    (ManyIfs: one
     ^      ^          ^                               |     long program)
     |      +- Trees <-+- GeneratedCode <--------------+
     |                       ^   ^                     |
     |                       |   GeneratedCode_proofs  |    (theorems)
     |                       +-------------------------+
     +---- Scopes <- Programs <------------------------+-- MCGeneratedCode   (runs)

    StringCode <- StringPrograms <---------- MCStringCode      (runs)
        ^                                        ^
        +-- HostRuns <- StringTypes <------- MCHostRuns        (run)
                            ^                    | instantiates
              StringTypes_proofs             Descriptor
                            ^                    ^
                 HostRuns_proofs         Descriptor_proofs     (theorems)

    Ranges <- Ranges_proofs <- Arrays_proofs                (theorems)
       ^  ^                        |
       |  +---- Arrays <-----------+
       |          ^
       +-- MCRanges <- MCArrays                                (runs)

An arrow reads "is extended by", or, for ChaoticIteration, "is implemented by".

- **Layout** is `lex` after the lexer generator: a lexeme is a line break with the spaces that
  follow, or a word. One action is one turn of the loop of `lex` (`ReadNewline`, `ReadWord`, the two
  errors) or what follows it (`EndOfInput`). `indents`, `paren_depth`, `pending` and `emitted` are the
  variables of the code; `Boundary` is `flush_pending_newline` with `emit_indent`.
- **Parser** extends it with `Parser` of the code. A method is an operator from the parser before the
  call to the parser after it, with the same name; `pending_dedents`, `depth` and the cursor are its
  fields. The four actions read one top-level item, skip what stands between two, accept, or stop at
  the first error. The binding powers are the code's numbers.
- **Texts** makes texts of lines, each a form in a column, and says on the lines alone, with no
  tokens, what the language definition (specs/0002, 0003, 0006, 0008) makes of them: when a text is
  well laid out, in which block a line is, in which column a continuation must be, and how an
  expression groups (`Grouped` splits it at its weakest operator). Where the code is known to depart
  from that, an operator says of which texts (`AfterIf`, `IndentedStart`, `EndsInSpaces`,
  `HungParameter`).
- **Dataflow** says what a problem is: blocks, edges, the edges an analysis believes in
  (`live_successors`), direction, boundary, and a pair *kill, gen* for each block. A fact is a set
  of symbols merged by union: `SymbolSetFact` literally, `ReachabilityFact` as a set with at most
  one member. `Equation` is the body of the visit in `solve`.
- **DataflowSolver** is `solve`: `worklist` is the vector used as a stack, in the order of the code
  (ids ascending, reversed for a forward analysis), `incoming`/`outgoing` are `before`/`after` as
  the direction has them, `visits` and the assertion on the budget are kept. One action is one turn
  of the `while let` (`Visit`), the failing assertion (`Panic`), or the return.
- **ChaoticIteration** is what the solver promises: re-evaluate any block whose equation does not
  hold, answer only when all of them hold.
- **Ast, Cfg** translate the tree and the construction of a graph. The recursive walk of
  `CfgBuilder` is a sequence of steps: a builder has the blocks so far, the current one, and a list of
  what is left to build, and `BuildStep` is one call of `build_stmt`, or what such a call does after
  one it waits for has returned. `Walk` takes `MaxBuildSteps` of them, more than any tree of the runs
  needs, and `BuildAssumption` of GeneratedCode says that nothing was left. So `Build` is a function
  of the unit, as in the code, and no operator is recursive.
- **Reachability, Checks** are the two analyses with what they report. Checks has recursive operators
  (liveness walks expressions), Reachability none.
- **Trees** says which units the theorems about GeneratedCode are of. The constant operators `Expr` and
  `Stmt` give the trees of a unit; `IsUnit` asks that they are of the forms the parser makes, that
  conditions are what sema lets pass, and that a function that is called exists.
- **Scopes** is the part of sema that decides which programs are accepted as far as names, the types
  of names and literal ranges go: an environment (the stack of scopes, loop variables, the globals a
  function may name, what was rejected so far) goes through the tree and comes out changed. It also
  notes, for each place stored to, the name and the type sema gave it. An expression states its type;
  how operators combine types is left out. **Programs** is a family of programs, one per shape of
  control flow around small statements.
- **GeneratedCode** runs what the generator emits, and takes from its constants what sema, the solver
  and the liveness checker said of the unit (`SolvedAssumption`: what `solve` returned is a solution,
  which DataflowSolver_proofs proves). `todo` is the emitted code still to run, `frames`
  and `globals` are the slots and hold the *statement that stored last*, so that "a value reported
  as unread" has a meaning; `at` walks along in the graph of the analyses. A slot has the type it was
  made with, which is the generator's decision (`DeclaredGlobals` for globals, the first store for
  locals), and `ReadsFindStoredSlots` compares it at every read with the type sema gave the name where
  the value was stored. Conditions are free, except literals and literal ranges. Names are resolved
  with the generator's rules (`find_local`, `var_slot`, `resolve_place`).
- **StringCode** runs the string code. `todo` is the code left to run, as items: an expression or
  statement is one item until its turn comes, and then the items its code consists of take its place
  (`ExprCode`, `PartsCode`, `StmtCode`, `StoresCode`, ...), as `gen_expr` and `gen_stmt` call each
  other. `operands` are the descriptors in flight with the decision "owned or borrowed". `frames` has
  all open scopes, oldest first, `saved` how many of them belong to the callers of each call in
  progress; with `globals` they are the string slots. `live` are the buffers allocated and not freed.
  One action is one operation the generator emits for strings, with the frees that
  belong to it: `JoinParts` is `build_concat` with the frees after the join, `StoreValue` one round
  of the inner loop of an assignment (copy, free the old value, store), `LeaveScope`
  `free_scope_strings` with `pop_scope`, `FinishEntry` the end of the entry function and
  `HostTakesResult` the end of `PinpJit::run`. `Heap` records in `misused` every read or free of a
  buffer that is not allocated. Whether a short or rendered value needs a buffer is left open where
  the code's answer depends on lengths.
- **HostRuns** puts the host around it: one PinpJit is run again and again. `RuntimeError` is
  `pinp_runtime_error` with its `longjmp`, anywhere an allocation may fail or code without strings
  may trap: what the stack held is gone and `lost`, the globals stay as they are. `RunAgain` enters
  the same code with those globals.
- **StringTypes** says which programs the theorems about StringCode and HostRuns are of. `Typed` is
  what sema makes of types as far as strings go, tree by tree, and one thing it does not ask for: a
  block that is run for its effect yields no string. The constant operators `Expr`, `Stmt` and
  `Writes` give the trees of a program and the places each may assign, so that no recursion is
  needed to speak of all of them. `Careful` says that a value read from a variable is used before the
  variable is assigned again.
- **Descriptor** is the other half of the runtime: the sixteen bytes that StringCode calls a value, in
  their two forms, and `make_from`, `concat`, `concat_n`, `free`, `eq` and `cmp` on contents. A memory
  maps addresses to what the buffers hold; a call returns the string and the memory after it.
- **Ranges** follows one range from the source to the end of the loop that uses it: sema's validation
  and `literal_range_length`, `gen_range` with the zero-step trap, then the header, body and latch of
  a `for` (`Turn`), of `gen_array_from_range` (`Fill`) or of `gen_comprehension` (`Collect`). `seen`
  collects the values the body ran with. `Membership` is the closed form of `in`, with the set of
  answers the build may give. A word is an integer up to the constant `MaxInt`; `Wrap` is the
  addition of the generated code, and what an optimised build of sema computes. `Values` is what the
  language definition (specs/0008, 8-12, 55 and 241-242) says the *source* of a range denotes: the operator
  fixes the direction, and a range whose bounds or step go against it is empty. The code goes by the
  sign of the step; `RunsAgainstOperator` has the computed ranges for which that is something else.
- **Arrays** continues where Ranges fills an array: `heap` has the buffers, cell by cell. A program
  may make a second array or a matrix of the first one's elements, or an identity matrix, and then
  reads, assigns, adds to or walks the last one it made, with an index, a slice or `:` in each
  dimension. One action is one allocation, one turn of a generated loop (`CopyCell`, `FillCell`,
  `WalkCell`, ...) or one access; `touched` has the cells the last step accessed. Sema's checks of
  shapes, literal indices and slices say which programs there are (`CodeAccepted`); the generated
  checks are `TrapIndex`. What a selection denotes is written down apart from offsets and loops:
  `Part` is the set of places (row and column) it names, and `Lists` says that cells hold given
  contents of places in their order, row by row. `Reachable` is the range of an index that specs/0012
  gives, from the front and from the end, and `CountsFromEndOfSlice` has the indices of slices with
  which the code departs from it.

## 3. Runs

| Run | Expectation | What it asks |
|---|---|---|
| `layout` | pass | 26800 texts: tokens are balanced; brackets join lines; what is well laid out parses; a line is in the block its column says; continuations stand in one column (all but a first parameter on a line of its own); expressions group by the powers; the limits on nesting and arms are exact |
| `ifs_in_a_row` | violation | two block `if`s one after the other do not parse |
| `dataflow` | pass | solver on the liveness and reachability problems of 91 programs, each with the budget of the code and with one visit per block, so that `Panic` happens too: settled off the worklist, least solution, meaning in terms of paths, growth, every visit paid for, no panic where the budget pays for all symbols, refinement of ChaoticIteration, and with the code's budget an answer in the end |
| `visit_budget` | violation | 100 `if`s, each followed by a literal: `solve` panics with the budget of the code |
| `generated_code` | pass | about 3000 accepted programs, all paths: the graph shows what runs, nothing reported unreachable runs, nothing reported unread is read, reads find slots that were stored to, with the type sema gave the name |
| `descending_range` | violation | `for i in 5..1` is reported as never running its body, and runs it |
| `read_in_a_hole` | violation | a global read only in an f-string hole of a function: the write is reported as dead |
| `string_ownership` | pass | about 1500 programs, all paths, run again and again, one run ended by an error anywhere: one owner per buffer, no use after free, and a run that ends leaves only what an error took from the stack |
| `stale_borrow` | violation | `t + f()` where f assigns `::t` |
| `block_result_leak` | violation | `if c: s + t` as a statement: its value is never freed |
| `ranges` | pass | all accepted ranges of 4-bit words in each use: the loop runs with the values the language definition gives the range (all but computed ranges against their operator), the counted length and `in` agree with it, the loop stays in bounds and ends when one more step fits. On three arrays and the matrices made of one of them: no access outside a buffer, a selection reads and an assignment changes the part it names and nothing else, an index error comes exactly when an index is outside and never for a literal one (all but the row or column of a slice counted from the end), and the loops over elements meet each once, in order, with its indices |
| `range_ends` | violation | `for` over `start..MaxInt` never ends |

**Bounds.** The solver runs use graphs of at most 8 blocks and two names: enough for an `if` in a
loop and back, for duplicates on the worklist and for a block visited three times. What larger
graphs could add is covered by the proofs, except the budget, for which `visit_budget` uses a graph
of 302 blocks. `MCVisitBudget!ManyVisits` takes up to 1024 turns of the loop as one step, because
the run is deterministic and long; its graph is written down by `ManyIfs!Sequential`, and an
assumption TLC evaluates compares it with the graph builder's for 1 to 4 `if`s. Programs have two
statements inside one or two levels of control flow, with a prologue, an epilogue and a function
that reads, writes or shadows a global: every pair of (control-flow shape, statement) meets. Names
take two types, so that a store may need a new slot under an old name. Loops
are not unrolled: slots hold statement ids, so the state space is finite with loops that run any
number of times. `MaxBuildSteps` = 60 steps build the graph of each program to its end
(`BuildAssumption`). In StringCode, buffers are numbered with the first free number, so loops are
finite there as well; a number is reused only when nothing mentions it.

Texts are all those of three lines in three columns with eight forms; those of five lines that open
with a header and are well laid out; chains of up to five arms against `MAX_IF_ARMS` = 3; groupings
of three operators with signs, and of two with brackets and `not`; parentheses up to two more than
`MAX_NESTING_DEPTH` = 8; and seven kinds of continuations in nine columns. The code allows 256
of each; nothing else depends on the numbers, and the texts go past the smaller ones.

Ranges has 4-bit words (`MaxInt` = 7): every start, stop and step, the extremes included. Nothing in
the code depends on the width, and the theorems are for every width. `Room` says that one step past the last value a
loop may reach is a word; where it fails the counter may wrap, and `range_ends` shows what happens.

The kinds of programs that violate a property are kept out of the passing families (`Descending`,
`ReadInAHole` and `TakenForGlobal` of MCGeneratedCode, `Stale` and the forms `while:` and `if:` of
MCStringCode), and all but `TakenForGlobal` have runs of their own; `AfterIf` of Texts, which
`ifs_in_a_row` is one case of, is kept out as well, and so are texts that begin indented or end in
spaces (section 5). In three more cases the code departs from the language definition, and the
programs stay in the families, for the other properties, while those concerned leave the case out by
name: `ForSeesTheRange` leaves out `RunsAgainstOperator`, `IndexErrorsAreExact` and
`LiteralIndicesNeverTrap` leave out `CountsFromEndOfSlice`, and `ContinuationsAlign` leaves out
`HungParameter`; without the exception each of the four is violated. So the passing runs say: of
these programs, those are the only ones that go wrong. `s = s = e` is in the passing family in the
middle of a program; as the *last* statement of one it reads a freed buffer too (see the hazards).

In Arrays, arrays have up to six elements, matrices are 2 by 1 to 3 by 2, and every index and slice
that fits or misses by one or two is taken in each dimension, as a literal and as a value.
`MaxErrors` = 1 run of a PinpJit ends in an error: what a failed run leaves behind is met by the runs
after it, and as it may fail at any point, a second failure would start from globals of no new kind.

`string_ownership` also evaluates `TypedAssumption`, on which the theorems about ownership rest, for
every program of the family (MCHostRuns gathers the trees and the assignments of each), and
`CarefulAssumption`: each of them is `Careful`. The two programs of MCStringCode
that violate a property are each what `Careful` or `Typed` excludes.

The bytes of strings are not the state of a run: `BytesAssumption` of MCHostRuns, which TLC evaluates
with `string_ownership`, makes, joins, compares and frees two strings of every pair of eleven lengths
around 0, 8, 15 and 256, and takes apart long descriptors up to the maximal length. The theorems
are for every length.

**Deadlock** is checked in `string_ownership`, where the host can always run the program again, so
that generated code that gets stuck would be found. It is not checked elsewhere: every program, every
text and every call of `solve` ends.

**Fairness.** `FairSpec` of DataflowSolver, used by `EverySolveAnswers`, is weak fairness of the
next-state relation: `solve` is one loop of one thread, nothing can take its turn away. Ranges
uses the same for its loops (`LoopsWithRoomEnd` under `FairArraySpec`, `LoopsEnd`): one thread, and
bodies that return. No other run uses fairness; GeneratedCode and StringCode have loops that may run forever.

**Findings.** Seven disagreements, one per violation run, are described in PROJECT.json with the
lines quoted: the visit budget, inclusive ranges that descend, reads in f-string holes, borrowed
operands across a call, string results of blocks run for effect, counters that wrap, and block `if`s
in a row. Section 5 lists those that have no run.

## 4. Theorems

### The solver

`DataflowSolver_proofs` holds for every set of well-formed problems (graphs of any size,
any finite set of symbols, either direction) and every visit budget, and assumes `ProblemAssumption`
and `SymbolAssumption` of DataflowSolver only.

| Theorem | Says |
|---|---|
| `TypeCorrect` | `TypeOK` always |
| `Settled` | a block off the worklist satisfies its equation |
| `SupportedFacts` | a block's facts are at most what its equation gives now |
| `Growth` | no step takes a fact back |
| `NothingInvented` | facts are within every solution |
| `LeastSolutionReturned` | the answer is the least solution |
| `Implementation` | the solver implements ChaoticIteration |
| `AnswersArePaths` | the answer holds a symbol of a block exactly if a path without repeated blocks carries it there |
| `VisitsArePaidFor` | every visit was paid for, by the seeding or by a symbol that a block gained |
| `BudgetSuffices` | no panic where the budget pays for every block learning every symbol |

The argument. `SettledOffTheWorklist` is inductive with `TypeOK`: a visit settles the block it
visits (`VisitSettles`), and a change of its result can unsettle only blocks that read it, which
are the ones pushed (`RequeueSuffices`; this is where well-formedness enters: predecessors and
successors must describe the same edges). A visit that finds no change leaves everything else as it
was. When the worklist is empty every block is settled, so the facts are a solution.
`BelowEquation` is inductive because equations are monotone (`EquationMonotone`): if everything is
supported now, replacing one block's facts by its equation only adds, and what was supported stays
supported. Growth follows from it, without it a visit might well take something back. That facts
are within every solution is the same induction against a fixed solution. Both together are the
least solution. The refinement maps the far-side facts to `facts` and forgets worklist and count:
a visit that changes something is a re-evaluation, one that does not is a stutter, `Panic` is
giving up, and returning needs `Settled` for the abstract `Answer`.

That the answer means paths is about the recursive function `PathsOfLength`, and needs induction over
data. The library's induction theorems cannot be used, but the least-number principle can, from
`WFMin` and `NatLessThanWellFounded`: `Induction` is the form over sets (a set with 0 that is closed
under successor holds every number), and `Recursion` gives the existence of what a recursive
definition over the naturals defines. From them, a path carries to its last block nothing that the
solution does not have there (`CarriedIsKnown`), and what paths of any length carry solves the
equations (`PathsSolve`), so the least solution is below it. A path that carries a symbol and meets a
block twice can be cut at the second visit and carries it still (`PathShortens`: what was learnt
before the cut is learnt at the block anyway or carried past it), so the paths that meet no block
twice suffice (`ShortPathsSuffice`), and they have fewer edges than there are blocks.

`VisitsPaidFor` charges each visit beyond the seeded ones to a gain: a visit that changes a block
lets it gain a symbol (`BelowEquation`: it loses none) and pushes its neighbours, and
`GainsArePaid` says that the sum grew by at least as many. As no fact leaves `Known`, the symbols at
the boundary or added by some block (`OnlyKnown`), the sum ends at `MostVisits`. A graph of code has
at most two edges out of a block, so with the 64 visits per block of the code 31 names are never too
many, whatever the graph; `visit_budget` has 100.

### The graph and the code

`GeneratedCode_proofs` holds for every unit: statements nested in any way, loops that run any number
of times, calls of any depth. It assumes `UnitAssumption` (the trees are those the parser makes),
`BuildAssumption` (the walks of the graph builder end within the bound), and, for the second theorem,
`SolvedAssumption`. The `generated_code` run evaluates all three on its programs.

| Theorem | Says |
|---|---|
| `GraphFollows` | wherever the code is, the graph shows what runs next, until both are at their end |
| `ReportedNeverRuns` | no block reported as unreachable is entered, in a unit without a `for` over a literal range that descends with an inclusive operator |
| `ScopesBalance` | `TypeOK` always: the walk stays in the graph; at the end of the unit no call is open, and one scope |

The argument. The graph builder and the generator walk the same tree apart from each other, and what
must be shown is that the two results fit, tree by tree, without an induction over trees.

A *link* is an item of code with two positions of the graph: the item begins at the one and what it
is lowered to ends at the other. `Shows` says what a graph must have between the two, in terms of the
links of the items it is lowered to (a `while` needs a jump, a branch on its condition, links for its
body and again for itself). `Same` is the *largest* set of links that is justified in this way by
itself, so that a loop may be justified by the loop. A `Chain` is a sequence of items whose links
meet. The invariant is `Follows`: `todo` is a chain from `at` to the exit of the graph (`Led`). Each
action has its lemma (`StmtLed`, `ArmsLed`, `ForkLed`, `RoundLed`, ...): a link of the first item is a
chain of the items that take its place, or of the branch that is taken.

That the chain is there at the start is a statement about the builder, and is proved backwards along
its steps. `Planned` says what a thing that is left to build stands for in the *finished* graph, and
`Framed` what no later step may change: an action, once pushed, stays, and a block that was left is
never touched again, except the merge and exit blocks that are waited for (`Awaited`, one less for
each that is reached). With them, if what is left after a step leads through the finished graph, so
did what was left before it (`Stepping`, and `EveryStep` from a lemma for each kind of statement). At
the end nothing is left, so the whole unit leads through its graph (`WalkLeads`, by `Induction` over
the number of steps, and `LaidOut`).

`ReportedNeverRuns` adds `Alive`: the block control is in is reached by the solution. A terminator
that is a goto or a return leads to the only live successor there is (`JumpLive`); a branch takes a
side that the analysis keeps, because it drops one only for a literal condition, whose outcome is the
literal (`BranchLive`), and for a literal range it takes to be empty. There the code runs the body as
often as `RangeContinue` says, and `Counters` is what has to be known of the counter: for a range
the checker takes to be empty, no counter that is met lets the loop continue. This is false of
inclusive ranges that descend, where the two disagree: hence `NoDescendingRange`, and without it
`descending_range` violates the property.

`ScopesBalance` uses chains for another purpose. A *depth* is the number of scopes that each caller
and the running function have open, and `Nesting` says what an item does to it: `close` ends a scope,
`bind` opens one, `back` returns to the depth of the caller, and every other item gives back the depth
it began with. `Scoped` is the invariant that `todo` is a chain from the depth now to one scope and
no caller. A block opens a scope and puts the `close` that ends it behind its statements.

TLC checks what follows from these invariants. It cannot check the invariants themselves: `Same` is
defined over all sets of links, and `Chain` asks for positions that fit.

### Ranges

`Ranges_proofs` holds for every `MaxInt` (`MaxIntAssumption`: a positive number) and every set of
sources of the right shape (`SourceAssumption`).

| Theorem | Says |
|---|---|
| `TypeCorrect` | `TypeOK`: words stay words, and a range that is used has a step |
| `InBounds` | no turn of a `for` leaves the bounds |
| `Iteration` | a `for` that is over has run with exactly the values its range denotes, unless computed bounds and step go against the operator |
| `Agreement` | `in` answers as the loop does |
| `Direction` | an accepted literal range never runs against its exclusive operator |
| `BothBounds` | an inclusive range without a step reaches both its bounds |
| `LengthIsExact` | an array is filled with exactly the values its range denotes, and the length sema computes is their number |

The argument. `Distance` and `Size` measure values and steps in the direction of the step, so that
up and down are one case. `LoopInv` is the inductive invariant: the counter is a whole number of
steps from the start, and what the body has seen is `Upto` that distance. A turn keeps it because
`Room` lets the counter advance without wrapping (`Advance`) and because there is no multiple of a
step strictly between two neighbours (`NoneBetween`, `OneMore`). When the header fails, nothing of
the range lies ahead (`NothingAhead`), so the loop has run with the values `Along` its step
(`LoopGoesAlong`). These are what the source denotes, which is defined by the operator and not by the
step, because bounds or step that go against the operator alone leave nothing along the step
(`AlongIsValues`); if both do there is something, hence `RunsAgainstOperator`, which sema rules out
for literals. Membership is the set along the step because a signed remainder is zero
exactly for multiples, whatever the signs (`RemainderZero`). `SourceInv` ties the built range to the
accepted source, which `Iteration`, `Direction` and `BothBounds` need.

The loops that fill arrays count positions instead of testing the counter, so they have an invariant
of their own, `FillInv`: as many values are seen as positions are filled, they are those up to
`index` steps from the start, and *while a position is left* the counter has not wrapped (after the
last one it may, and nobody looks). It is inductive because of `LengthCounts`, that the rounded
quotient of `literal_range_length` counts the steps that do not pass the bound (`QuotientCounts`), up
and down, inclusive or not; the sums in it are exact because `SpanFits`.

### Arrays

`Arrays_proofs` assumes, besides those of Ranges, `CodeAssumption`: any
programs of the right shape.

| Theorem | Says |
|---|---|
| `ImplementsRanges` | what is done with buffers implements Ranges: each step is one of the range underneath or leaves it alone |
| `NoAccessOutside` | no step accesses a cell outside of its buffer |
| `ErrorsAreExact` | a run stops with an index error exactly when an index, of an element or of a row or column slice, is not in [-length, length); the row or column of a slice counted from the end is left out |
| `LiteralsAreSafe` | a run that stops with an index error has an index that is not a literal and is out of reach, in an element, a row slice or a column slice; the same case left out, in which accepted literals do stop it |
| `ReadsAreExact` | a read yields the elements it names, in order |
| `AssignmentsAreExact` | an assignment changes the elements it names and no others, and not the array its own was made from |
| `LoopsAreExact` | a loop over elements is given each once, row by row, with its indices |

The argument. `AccessesInBounds` alone says nothing about the next step. `IInv` adds that the program
was accepted (`Accepting`), the types of the heap, that the phases come in order (nothing is made
before the array is filled, nothing is done before it is made), and `BuffersAreThere`: each buffer
that a phase uses is allocated with the size its type says, and a loop's counter is within it. A
row-major offset is inside because the row and the column are (`FlatIsInside`); a slice was checked by
sema against the lengths the buffers were allocated with, which is where both walks of the tree have
to agree. `ImplementsRanges` lets the theorems of Ranges be used of arrays. The two theorems about
errors rest on `EndsAsChecked`: the outcome was decided by the check of the indices, and no later
step takes it back. They speak of indices only: the bounds of a slice are literals, which sema checks
and the generated code does not (`SliceOk`; that they stay inside is `NoAccessOutside`). The row of
a row slice and the column of a column slice are compared without being normalised, which makes no
difference to an index that does not count from the end (`OutsideIsUnreachable`).

The last three are about what the cells hold, from the first store of a range's value to the end of
the operation. Their invariant, `ContentsInv`, follows the phases:

- `ArrayFilled`: the filled cells hold `start + i * step`, and the counter is the next such number.
  That needs the elements to be words (`ElementIsWord`): every position below the length sema
  computed lies in the span of the range, also for the wide spans on which the sums of
  `literal_range_length` wrap (`LengthStaysWithin`), for which `LengthIsExact` says nothing.
- `OperandMade`, then `OperandKept`: the second array, or the matrix, holds at each row and column
  the element the program wrote there, as far as its loop is.
- `ReadSoFar`, `AssignedSoFar`, `WalkedSoFar`: the cells already copied, filled or walked, and that
  all other cells are as they were.

At the end a part is a block of rows and columns (`PartIsBlock`; an index from the end is its
remainder, `IndexIsNormalized`), the counter of the copying loop runs over its places
(`PartIsFound`, for each of the four kinds of slices), and the position of a place in the block is
the number of places before it (`PositionInBlock`), which is how `Lists` orders them.

### Layout

`Layout_proofs` holds for every text: any words, any columns, any number of lines.

| Theorem | Says |
|---|---|
| `StackIsNested` | types, and the columns on the stack grow from the margin |
| `IndentsBalance` | every Indent is closed or on the stack, at every moment |
| `WholeTextIsBalanced` | a text read to the end has as many Dedents as Indents |
| `BracketsJoin` | inside brackets a word is added alone |

The argument. The balance is inductive only together with the nesting of the stack: the number of
Dedents a break writes is the number of columns it takes off, and there is always a column to stop
at because the margin is never taken off (`BoundaryFollowsStack`). Counting tokens in a sequence that
grows at its end is done by `CountOfConcat` and the lemmas around it.

### Who owns a string

`HostRuns_proofs`, over `StringTypes_proofs`, holds for every set of programs of any size and shape,
run any number of times with any number of errors, and assumes `TypedAssumption` of StringTypes only.

| Theorem | Says |
|---|---|
| `CodeIsBalanced` | `TypeOK` always: buffers are buffers, and at the end of the code no value is in flight, no call in progress, one scope open |
| `BuffersHaveOneOwner` | at every moment each allocated buffer has exactly one owner, a value in flight or a slot, and no owner holds a freed one |
| `CarefulProgramsAreSafe` | a careful program neither reads a freed buffer nor frees one twice |
| `RunsReleaseTheirBuffers` | a run that ends with a value has released all it allocated, and what an earlier failed run left in the globals |
| `HostInvariant` | the inductive invariant behind the four |
| `EntryExpands` | the code of a typed program takes the empty stack to the empty stack, with its slots emptied |

The argument has two halves, because `todo` is code laid out from a tree and no invariant of the
memory alone survives a step.

The first half forgets the memory. A *stack of kinds* says of each value in flight whether it is
owned, lent by a variable (by which, and up to which scope its slots lie), or spent, and
how many scopes are open and belong to callers. `Leads(p, item, S, T)` says what an item does to such
a stack: `join` needs values that can be read and leaves an owned one, `store` turns an owned value
into one that its slot lends, `close` may not take the scope a value is lent from. `Takes` is that
relation along a whole sequence. The lemmas `...Expands` show that whatever an item leads to, the code
it expands to takes the same stack to the same stack: this replaces the induction over trees, because
each expansion is one level deep and the next one is met when its item's turn comes. A loop is covered
by the item for its remaining turns, and a call by its body between two items that set and restore
the callers' scopes. This is where the walks of the generator must agree: an assignment with several
groups moves each value once and copies it from then on, and the two branches of an `if` must leave
one kind of value.

The second half fits the memory to a stack. `HostInv` says that there is a stack that is `Sound` for
the memory and that `todo` takes to a balanced end (`Ended`, or `Start` after an error). `Sound`
includes the `Ledger`: every owned value and every slot that is set holds either no buffer or one that
is allocated and that nobody else holds, every allocated buffer is held, and a lent value equals what a slot
holds now. Steps change the account in three ways (`AccountLoses`, `AccountGains`,
`AccountMoves`), and each action has its lemma (`JoinStep`, `StoreStep`, `InvokeStep`, ...). A runtime
error is a case of `AccountLoses`: what the stack owned leaves the account and is counted by `lost`,
the globals keep theirs, which is why the next run may begin with any of them (`HostKeeps`).

Both conditions are needed, and runs show it: without "no effect block yields a string",
`block_result_leak` violates the balance; without `Careful`, `stale_borrow` reads a freed buffer.
`Careful` also excludes a trailing `s = s = 'long'` (section 5). It is a hypothesis of
`CarefulProgramsAreSafe` alone: the other theorems are of careless programs as well. `HostInv`
quantifies over stacks, so TLC checks what follows from it (the four properties), not `HostInv` itself.

### The bytes of a string

`Descriptor_proofs` holds for every memory, address and content, and needs no assumption but those
of each theorem: contents and sums of lengths at most 2^30 - 1, and an address no string holds, which
is what `pinp_alloc` promises.

| Theorem | Says |
|---|---|
| `LongStringsAreTold` | a heap string is told from an inline one and gives back its address and length |
| `ShortStringsAreTold` | an inline string is never taken for a heap one, and holds its content |
| `MadeStringHoldsContent` | what is made of a content holds it, inline exactly up to fifteen bytes |
| `MakingKeepsOthers` | every other string keeps its content |
| `ConcatIsConcat` | a concatenation is one, whichever strings are inline |
| `FreeTakesOnlyItsBuffer` | a freed string is empty, freeing it again changes nothing, others are untouched |

The argument. The last byte is the length of an inline string, at most 15, or the highest byte of a
heap string's length with its highest bit set. A length of at most 2^30 - 1 leaves that byte below 64
(`WordOfBytes`), so that setting the bit adds 128 and loses nothing. `Valid` is what every call keeps
of every string: short ones inline, long ones with a buffer of exactly their length. That two strings
never share a buffer, which `FreeTakesOnlyItsBuffer` asks for, is what
`BuffersHaveOneOwner` proves of the generated code.

### What is only model-checked

- Liveness (`EverySolveAnswers`, `LoopsWithRoomEnd`), which the prover cannot do.
- `UnreadWritesAreUnread` and `ReadsFindStoredSlots`: `Checks` and `Scopes` walk trees with RECURSIVE
  operators, which take the SMT solver away from every module that uses them. GeneratedCode has what
  they say as constants (`Unread`, `Noted`), and nothing is assumed of these.
- Parser and Texts, for the same reason, except for the tokens they work on (`Layout_proofs`).
- That `MaxBuildSteps` is enough for a unit, and that the trees of the family are trees the parser
  makes: evaluated as assumptions.

Where recursion is a function over the naturals, as in Dataflow and Cfg, what it computes is proved.

## 5. What is not modelled

- LLVM, its optimiser and its JIT: trusted. A generated operation does what its name says.
- Which characters form a word, numbers and escapes, what stands in an f-string, spans, message
  texts, the order of findings.
- The types of operators, members and built-ins (an expression states its type), conversions, and
  arithmetic other than that of ranges; `and`/`or` at run time; comprehensions whose variable is a
  float.
- Of arrays: the members (`.len`, `.rows`, ...), types of elements, sizes in bytes, and two names for
  one array.
- What a number is rendered as in a string (any length is allowed), and the order of strings as the
  generated code uses it.
- Threads. The models have the one thread that the comment on the shim's counters promises
  (src/src/runtime/shim.c:12).

Known disagreements that the passing runs leave out and that have no run of their own:

- A statement that begins with an operator or a bracket after a block `if`, like the second `if` of
  `ifs_in_a_row`, is read as part of the `if` (`AfterIf` of Texts).
- A text that ends in a line of spaces is refused, or gets an Indent, although such lines "collapse
  away" (src/src/lexer.rs:328). A text that begins indented is read as if at the margin.
- A conditional wrapped in the header of a block leaves its Dedent to the first block nested in it.
- A local of a block that shares its name with a later global of another type is stored in that
  global, because the generator declares the globals before it walks the blocks
  (src/src/codegen/lower.rs:272, src/src/codegen/stmt.rs:284), although a name introduced in a body
  "is body-local and does **not escape**" (specs/0006-basic-control-flow.md:212). `TakenForGlobal`
  describes these programs; with them in the family `ReadsFindStoredSlots` fails (`TakenName` of
  MCGeneratedCode is the shortest).
- "An `i64` always fits inline" (src/src/runtime/string.rs:269): sixteen digits and more do not. The
  generated code does not rely on it, it frees a rendered number like any other string.
- A trailing `s = s = 'long'` frees the buffer its result is copied from.
- `a[0..2] += 5` stores 5 (src/src/codegen/stmt.rs:205), although the syntax tree says the element is
  loaded and the operator applied (src/src/parser/ast.rs:321-323).
- A slice of a row or a column of a matrix with an index that counts from the end (`m[-1, 0..1]`) is
  accepted by sema, also as a literal, and always traps: only the indices of a single element are
  normalised (src/src/codegen/expr.rs:1167 and 1261). "The valid range is `[-len, len)`"
  (specs/0012-arrays.md:83), and counting from the end "Applies to all **scalar index positions**",
  in `mat[r, c]` to `r` and `c` "independently" (specs/0013-arrays-2d.md:575-582).
  `CountsFromEndOfSlice` describes these programs; `IndexErrorsAreExact`, `LiteralIndicesNeverTrap`
  and the theorems about them leave them out.
- A computed range whose bounds and step agree with each other but not with the operator runs:
  `a..<b:-1` with a above b descends, and `a..>b:1` with a below b ascends, because the header goes
  by the sign of the step alone (src/src/codegen/stmt.rs:761). "`..<` — the range ascends and the
  stop bound is excluded" (specs/0008-ranges-for-in-loop.md:11), "A range whose parameters are
  inconsistent at run time [...] yields an empty range" (55, also 241-242, and
  src/src/sema/analyzer.rs:427-429); one sentence of the same document takes the direction from the
  step's sign (233). `RunsAgainstOperator` describes these ranges; `ForSeesTheRange` and `Iteration`
  leave them out. Sema accepts no literal one.
- A first parameter on a line of its own is accepted in any column past the function's
  (src/src/parser/item.rs:159-166, and the test at src/src/parser/tests.rs:847), although "The first
  argument must be defined in the first line." (specs/0002-function-basics.md:13). `HungParameter`
  describes these texts; `ContinuationsAlign` leaves them out.
- `arr[-0..2]` passes sema, and `read_slice_range` of the generator has no case for it
  (src/src/codegen/expr.rs:993).
- `b = a` makes two names for one array, although specs/0015 says that arrays do not alias.
- The shim's jump buffer, pending error and counters are static, and the comment on them says that
  the JIT "executes single-threaded"; cargo runs the tests of one binary on parallel threads
  (tests/string_leaks.rs:26), and those of arrays.rs and ranges.rs that expect an error take no lock.
- The least integer in a range with step -1 is a division that overflows.

## 6. Plan

Done, in this order: solver with its abstract specification and proofs; graphs and checkers
against the generated code; string ownership; ranges with their proofs; the lexer's layout with its
proofs, and the parser; runtime errors and repeated runs; arrays and matrices with their proofs; the
length of literal ranges proved; the types of slots; the bytes of a string with their proofs; one
owner for each string buffer, across runs and errors, proved for every typed program; the contents
of arrays and matrices proved for every shape; the meaning of the solver's answer and what its visits
are paid with, proved for every graph; the graph and the generated code proved to agree for every
unit, with what follows for unreachable code, and the balance of scopes and calls.

Next, the most important first:

1. **Threads**: two hosts over one shim, each in `pinp_run`, with the jump buffer they share.
2. **Arrays**: members, element types, and aliases, once the language decides about them.
3. **Slots**: one name in several target groups of one assignment.
4. **Liveness** of names written with functions instead of recursive operators, to prove
   `UnreadWritesAreUnread` over `GraphFollows`.
