-------------------------------- MODULE Compile --------------------------------
(***************************************************************************)
(* A program on its way through the toolchain: from a tree to labels, the  *)
(* passes of virc one after the other, the file between them, the loader,  *)
(* and a run of the interpreter instruction by instruction. Beside it,     *)
(* what the program means as a tree, and then what it meant before it was  *)
(* optimized and given its moves.                                          *)
(***************************************************************************)
EXTENDS VIRLiveness, VIRTypecheck, VIROptimize, VBCMachine, Meaning

CONSTANTS
  Cases,         \* the programs compiled, by name
  Build(_),      \* the program of a name
  Inputs         \* what the outside function "input" may give

VARIABLES
  stage,         \* the pass to come, "run", or how it ended
  prog,          \* the program in its present form
  ids,           \* the numbers of its names
  look,          \* what the type check found out about dynamic calls
  input,
  file,          \* what was emitted
  T,             \* what was loaded
  vm,
  compiled,      \* past the optimizer
  meant          \* how the program is to end: as a tree, then as written

vars == <<stage, prog, ids, look, input, file, T, vm, compiled, meant>>

Nothing == <<>>

\* A program is given as a tree or in the intermediate representation.
IsTree(P) == "tree" \in DOMAIN P

Init ==
  /\ \E c \in Cases : prog = Build(c)
  /\ stage = IF IsTree(prog) THEN "anf" ELSE "memo"
  /\ input \in Inputs
  /\ ids = Nothing /\ look = Nothing /\ file = Nothing /\ T = Nothing
  /\ vm = Machine /\ meant = Machine
  /\ compiled = FALSE

-----------------------------------------------------------------------------
(* The compiler.                                                           *)

Reject == /\ stage' = "rejected"
          /\ UNCHANGED <<prog, ids, look, file, T, vm, input, compiled, meant>>

\* Whether the outside can tell in which order operands are evaluated, and
\* whether by more than the order in which it is shown their values.
Times(out, v) == Len(SelectSeq(out, LAMBDA x : x = v))
SameValues(a, b) == \A v \in ToSet(a) \cup ToSet(b) : Times(a, v) = Times(b, v)
Differences(left, right) ==
  (IF left = right THEN {} ELSE {"order"}) \cup (IF SameValues(left, right) THEN {} ELSE {"values"})
OrderOf(P, in) == Differences(Said(P, in, "left"), Said(P, in, "right"))

AnfPass ==
  /\ stage = "anf"
  /\ \E a \in {[f \in DOMAIN prog.funcs |->
                 IF "source" \in DOMAIN prog.funcs[f] THEN anf(prog.funcs[f])
                 ELSE [ok |-> TRUE, func |-> prog.funcs[f]]]} :
        \/ /\ \A f \in DOMAIN a : a[f].ok
           /\ prog' = [prog EXCEPT !.funcs = [f \in DOMAIN a |-> a[f].func]]
           /\ meant' = [meant EXCEPT !.out = Said(prog, input, "left"),
                                      !.ghost = OrderOf(prog, input)]
           /\ stage' = "memo"
           /\ UNCHANGED <<ids, look, file, T, vm, input, compiled>>
        \/ (\E f \in DOMAIN a : ~a[f].ok) /\ Reject

MemoPass ==
  /\ stage = "memo"
  /\ \E m \in {Memo(prog)} :
        \/ /\ m.ok
           /\ prog' = m.prog /\ stage' = "assign_ids"
           /\ UNCHANGED <<ids, look, file, T, vm, input, compiled, meant>>
        \/ ~m.ok /\ Reject

AssignIdsPass ==
  /\ stage = "assign_ids"
  /\ \E a \in {AssignIds(prog)} :
        \/ /\ a.ok
           /\ ids' = a.st /\ stage' = "validate_ids"
           /\ UNCHANGED <<prog, look, file, T, vm, input, compiled, meant>>
        \/ ~a.ok /\ Reject

ValidateIdsPass ==
  /\ stage = "validate_ids"
  /\ \E v \in {ValidateIds(prog, ids)} :
        \/ /\ v.ok
           /\ ids' = v.st /\ stage' = "typecheck"
           /\ UNCHANGED <<prog, look, file, T, vm, input, compiled, meant>>
        \/ ~v.ok /\ Reject

\* The program goes on to be optimized, but first, as it is, to be run.
TypecheckPass ==
  /\ stage = "typecheck"
  /\ \E c \in {[f \in DOMAIN prog.funcs |-> TypecheckFunc(prog, prog.funcs[f])]} :
        \/ /\ \A f \in DOMAIN c : c[f].ok
           /\ look' = [f \in DOMAIN c |-> c[f].look] /\ stage' = "emit"
           /\ UNCHANGED <<prog, ids, file, T, vm, input, compiled, meant>>
        \/ (\E f \in DOMAIN c : ~c[f].ok) /\ Reject

Over(m) == m.phase = "done" /\ m.frames = <<>>

KeepMeaning ==
  /\ stage = "run" /\ Over(vm) /\ ~compiled
  /\ meant' = vm
  /\ vm' = Machine /\ T' = Nothing
  /\ stage' = "optimize"
  /\ UNCHANGED <<prog, ids, look, file, input, compiled>>

\* Names the optimizer made are numbered after all others.
WithNewRegisters(st, P) ==
  [st EXCEPT !.regs = [f \in DOMAIN @ |->
     AddAll(@[f], Ascending(LocalsOf(P.funcs[f]) \ ToSet(@[f])))]]

OptimizePass ==
  /\ stage = "optimize"
  /\ prog' = Optimize(prog, look)
  /\ ids' = WithNewRegisters(ids, prog')
  /\ look' = Nothing
  /\ compiled' = TRUE
  /\ stage' = "liveness"
  /\ UNCHANGED <<file, T, vm, input, meant>>

LivenessPass ==
  /\ stage = "liveness"
  /\ \E vars_ \in {FirstVars(prog, ids.regs)} :
     \E c \in {[f \in DOMAIN prog.funcs |-> Liveness(prog.funcs[f], vars_[f])]} :
        \/ /\ \A f \in DOMAIN c : c[f].ok
           /\ prog' = [prog EXCEPT !.funcs = [f \in DOMAIN c |-> c[f].func]]
           /\ stage' = "emit"
           /\ UNCHANGED <<ids, look, file, T, vm, input, compiled, meant>>
        \/ (\E f \in DOMAIN c : ~c[f].ok) /\ Reject

EmitFile ==
  /\ stage = "emit"
  /\ file' = Emit(prog, ids)
  /\ stage' = "load"
  /\ IF compiled THEN prog' = Nothing /\ ids' = Nothing ELSE UNCHANGED <<prog, ids>>
  /\ UNCHANGED <<look, T, vm, input, compiled, meant>>

-----------------------------------------------------------------------------
(* The interpreter, which has the file alone.                              *)

LoadFile ==
  /\ stage = "load"
  /\ \E l \in {load(file)} :
        /\ T' = l.T
        /\ vm' = Boot(l.T)
        /\ stage' = IF l.ok THEN "run" ELSE "unloadable"
  /\ file' = Nothing
  /\ UNCHANGED <<prog, ids, look, input, compiled, meant>>

OnlyVm == UNCHANGED <<stage, prog, ids, look, input, file, T, compiled, meant>>

\* Program::run between two runs of the thread.
RunProgram ==
  /\ stage = "run" /\ vm.error = "" /\ vm.frames = <<>> /\ vm.phase # "done"
  /\ vm' = Advance(T, vm)
  /\ OnlyVm

Catch ==
  /\ stage = "run" /\ vm.error # "" /\ vm.frames # <<>>
  /\ vm' = Unwind(vm)
  /\ OnlyVm

\* The thread is at an instruction that is one of these.
At_(ops) ==
  /\ stage = "run" /\ vm.error = "" /\ vm.frames # <<>>
  /\ Opcode(T, vm) \in ops
  /\ OnlyVm

Constants   == At_({"Const"}) /\ vm' = Const_(T, vm)
Transfers   == At_({"Copy", "Move"}) /\ vm' = Transfer(T, vm)
Drops       == At_({"Drop"}) /\ vm' = Drop_(T, vm)
Stages      == At_({"ArgMove", "ArgCopy"}) /\ vm' = Arg_(T, vm)
Allocations == At_({"New"}) /\ vm' = New_(T, vm)
Singletons  == At_({"Singleton"}) /\ vm' = Singleton_(T, vm)
NewArrays   == At_({"NewArray", "NewArrayConst"}) /\ vm' = NewArray_(T, vm)
Registers_  == At_({"RegisterRef"}) /\ vm' = RegisterRef_(T, vm)
Fields      == At_({"FieldRefMove", "FieldRefCopy"}) /\ vm' = FieldRef_(T, vm)
ArrayRefs   == At_({"ArrayRefMove", "ArrayRefCopy", "ArrayRefMoveConst", "ArrayRefCopyConst"})
               /\ vm' = ArrayRef_(T, vm)
Bulks       == At_(Range(BulkOp)) /\ vm' = Bulk_(T, vm)
Loads       == At_({"Load"}) /\ vm' = Load_(T, vm)
Stores      == At_({"StoreMove", "StoreCopy"}) /\ vm' = Store_(T, vm)
Lookups     == At_({"LookupDynamic"}) /\ vm' = Lookup_(T, vm)
Calls       == At_({"CallStatic", "CallDynamic", "TryCallDynamic"}) /\ vm' = Call_(T, vm)
Tailcalls   == At_({"TailcallStatic", "TailcallDynamic"}) /\ vm' = Tailcall_(T, vm)
Returns     == At_({"Return"}) /\ vm' = Return_(T, vm)
MemoLoads   == At_({"MemoLoad"}) /\ vm' = MemoLoad_(T, vm)
FFICalls    == At_({"FFI"}) /\ vm' = FFI_(T, vm, input)
Typetests   == At_({"Typetest"}) /\ vm' = Typetest_(T, vm)
Binops      == At_(Range(BinaryOp)) /\ vm' = Binop_(T, vm)
UnaryOps    == At_(Range(UnaryOp)) /\ vm' = Unop_(T, vm)
Converts    == At_({"Convert"}) /\ vm' = Convert_(T, vm)
MathConsts_ == At_(Range(ConstantOp)) /\ vm' = MathConst_(T, vm)
Conds       == At_({"Cond"}) /\ vm' = Cond_(T, vm)
Jumps       == At_({"Jump"}) /\ vm' = Jump_(T, vm)

Ended ==
  \/ stage \in {"rejected", "unloadable"}
  \/ stage = "run" /\ Over(vm) /\ compiled

Next ==
  \/ AnfPass \/ MemoPass \/ AssignIdsPass \/ ValidateIdsPass \/ TypecheckPass
  \/ KeepMeaning \/ OptimizePass \/ LivenessPass \/ EmitFile
  \/ LoadFile \/ RunProgram \/ Catch
  \/ Constants \/ Transfers \/ Drops \/ Stages \/ Allocations \/ Registers_ \/ Fields
  \/ Loads \/ Stores \/ Lookups \/ Calls \/ Tailcalls \/ Returns \/ MemoLoads \/ FFICalls
  \/ Singletons \/ NewArrays \/ ArrayRefs \/ Bulks \/ Converts \/ MathConsts_
  \/ Typetests \/ Binops \/ UnaryOps \/ Conds \/ Jumps
  \/ Ended /\ UNCHANGED vars

Spec == Init /\ [][Next]_vars

-----------------------------------------------------------------------------
(* Properties.                                                             *)

\* Optimizing a program and turning copies into moves does not change what
\* it does: it shows the outside the same values, ends with the same code
\* and fails with the same errors as the program that was written
\* (optimize.cc and liveness.cc rewrite it in between).
SameMeaning ==
  stage = "run" /\ Over(vm) /\ compiled =>
    /\ vm.out = meant.out
    /\ vm.exit = meant.exit /\ vm.error = meant.error
    /\ vm.ghost \ {"empty"} = meant.ghost \ {"empty"}

\* A program says what its source says: taken apart into statements, labels
\* and jumps, compiled, loaded and interpreted, its expressions, blocks and
\* loops have the values and effects they have as a tree, and its statements
\* come one after the other. No order is claimed of the operands of one
\* expression: anf.cc lifts some of them earlier than others on their left.
\* A program that shows its operands in that order still shows each once;
\* one whose operands change what the others give is left out.
SaysWhatItSays ==
  stage = "run" /\ Over(vm) /\ ~compiled /\ IsTree(prog) =>
    /\ "order" \notin meant.ghost => vm.out = meant.out
    /\ "values" \notin meant.ghost => SameValues(vm.out, meant.out)

\* No instruction of a compiled program reads a register that holds nothing:
\* neither one that was moved out or dropped too early, nor one that the
\* path taken never wrote (the moves and drops that liveness.cc inserts).
NoEmptyRead == compiled => "empty" \notin vm.ghost

TypeErrors == {"BadType", "BadOperand", "MismatchedTypes", "BadField", "BadArgs",
               "BadRefTarget", "BadLoadTarget", "BadStoreTarget", "BadConversion",
               "MethodNotFound"}

\* A program that the type check accepted, and that has no dyn in it but the
\* parameter of the outside function, raises no error about types.
TypedRunsClean == vm.ghost \cap TypeErrors = {}

\* The order the compiler gives the slots is one in which no init function
\* finds a slot empty, however it gets to the stub; and none ever needs the
\* slot it is about to fill.
SlotsInOrder ==
  /\ "initializing" \notin vm.ghost
  /\ vm.phase = "memo" => Cardinality({i \in DOMAIN vm.frames : vm.frames[i].run = "memo"}) < 2

\* The loader takes every file the emitter writes, to its last word.
EveryFileLoads == stage # "unloadable"
=============================================================================
