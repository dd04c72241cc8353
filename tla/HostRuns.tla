------------------------------ MODULE HostRuns ------------------------------
(***************************************************************************)
(* The host and the programs it runs: PinpJit::run over pinp_run           *)
(* (src/runtime/shim.c).  One PinpJit may be run again and again.  A run   *)
(* ends with a value or, wherever the generated code or the runtime raises *)
(* an error, in the middle: longjmp takes the stack away, with all that    *)
(* the program held in it, and leaves the globals as they are.             *)
(***************************************************************************)
EXTENDS StringCode

CONSTANT MaxErrors    \* bound: how many runs may end in an error

VARIABLES
  outcome,    \* of the run: "running", or how it ended, "value" or "error"
  errors,     \* the number of runs that ended in an error
  lost        \* how many buffers those runs held in the stack: never freed

hostVars == <<outcome, errors, lost>>

(* pinp_memory_info: what was allocated and not freed since the start.      *)
Outstanding == Cardinality(live) + lost

(* make_with raises an error in place of a buffer: over-long content, or no *)
(* memory.                                                                  *)
AllocationMayFail ==
  \/ Top("make") /\ Item.long
  \/ Top("render")
  \/ Top("join") /\ Fresh \in Homes(Newest(Item.count))
  \/ Top("own") /\ ~Last(operands).owned /\ Fresh \in Homes(Newest(1))
  \/ /\ Top("store") /\ ~Item.first
     /\ Fresh \in Homes(<<operands[Len(operands) - Item.back]>>)

(* An index out of bounds or a step of zero, in code without strings.       *)
ScalarMayFail == Top("value") /\ Item.expr.kind = "scalar"

HostInit == Init /\ outcome = "running" /\ errors = 0 /\ lost = 0

(* One step of the generated code.                                          *)
ProgramStep == Next /\ UNCHANGED hostVars

(* A mistake: the globals are emptied with the stack, as if it held them.   *)
RuntimeErrorClearsGlobals ==
  /\ errors < MaxErrors
  /\ AllocationMayFail \/ ScalarMayFail
  /\ outcome' = "error" /\ errors' = errors + 1
  /\ todo' = <<>> /\ operands' = <<>> /\ frames' = <<<<>>>> /\ saved' = <<>>
  /\ live' = live \cap Buffers(globals)
  /\ lost' = lost + Cardinality(live \ Buffers(globals))
  /\ globals' = [x \in DOMAIN globals |-> Inline]
  /\ misused' = {}
  /\ UNCHANGED program

(* pinp_runtime_error.  Nothing holds the buffers of the stack any more:    *)
(* they stay allocated, and are only counted.                               *)
RuntimeError ==
  /\ errors < MaxErrors
  /\ AllocationMayFail \/ ScalarMayFail
  /\ outcome' = "error" /\ errors' = errors + 1
  /\ todo' = <<>> /\ operands' = <<>> /\ frames' = <<<<>>>> /\ saved' = <<>>
  /\ live' = live \cap Buffers(globals)
  /\ lost' = lost + Cardinality(live \ Buffers(globals))
  /\ misused' = {}
  /\ UNCHANGED <<program, globals>>

(* pinp_run returns with no error set.                                      *)
RunEnds ==
  /\ todo = <<>> /\ outcome = "running"
  /\ outcome' = "value"
  /\ UNCHANGED <<vars, errors, lost>>

(* PinpJit::run once more: the same code, the globals where they were.      *)
RunAgain ==
  /\ outcome # "running"
  /\ outcome' = "running"
  /\ todo' = EntryCode(program)
  /\ frames' = <<<<>>>>
  /\ HeapUntouched
  /\ UNCHANGED <<program, operands, saved, globals, errors, lost>>

HostNext == ProgramStep \/ RuntimeError \/ RunEnds \/ RunAgain

HostSpec == HostInit /\ [][HostNext]_<<vars, hostVars>>

-----------------------------------------------------------------------------

(* However earlier runs ended, a run that ends with a value has released    *)
(* all it allocated, and what a failed run left in the globals as well:     *)
(* only what errors took from the stack is still allocated.                 *)
RunsCleanUp == outcome = "value" => Outstanding = lost
=============================================================================
