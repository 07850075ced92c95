# Verona bytecode: a verification of the runtime

Modules, TLC configurations and TLAPS proofs about the Verona bytecode toolchain: `vc` compiles Verona to VIR, `virc` compiles VIR to bytecode (VBC), `vbci` interprets it. The interpreter's memory management and its behaviours are where most of this code is hard: regions counted and freed by hand along parent pointers, objects dragged between frames and regions, cowns shared by behaviours that a scheduler runs on several threads. The other half is the pipeline: a program is rewritten six times, numbered, written to a file and read back, and must still mean what it said.

`PROJECT.json` lists components, runs, mutants, the map from definitions to source lines, findings, hazards and theorems.

## Inventory

| Part | State | Operations | Talks to | Correct when |
|---|---|---|---|---|
| Regions (`vbci/region.h`, `region_rc.*`) | `stack_rc`, `parent`, `cown_owned`, `entry_point`, headers, finalizing | `stack_inc/dec`, `set/clear_parent`, `set/clear_cown_owner`, `free_region` | called by everything below; recurses to the parent; calls the collector | `stack_rc` exact; parents a forest; freed exactly when unreachable |
| Collector (`collect.cc`) | thread-local worklist, finalized list, `in_collection` | `collect`, `drain_work_list`, `collect_scc` | finalizers, `writebarrier::drop`, which calls back into it | all finalized before any is deleted; nothing twice |
| Headers, objects, arrays (`header.h`, `object.h`, `array.h`) | location, `rc`, fields | `reg_inc/dec`, `field_inc/dec`, `move_region`, `sendable`, `finalize` | regions, collector | no object collected while referenced |
| Write barrier (`writebarrier.h`) | none of its own | `init`, `exchange`, `drop`, in two phases (prepare, apply) | drag, regions | one entry per region; owner matches it; refused stores change nothing |
| Drag (`drag.cc`) | worklist, internal counts, sub-regions | `drag_allocation` | regions, write barrier's pending unparent | nothing younger stays referenced; counts carried over |
| Frames (`frame.*`, `stack.*`, `thread.cc`) | frames, registers, arguments, stack | `pushframe`, `popframe`, `raise`, `tailcall`, `teardown(_all)` | drag, collector | nothing escapes a dying frame; each register given up once |
| Registers and values (`register.h`, `value.*`) | tagged values, read-only marks | copy, move, load, exchange, references to fields, registers and cowns, pin | headers, cowns, write barrier | counts follow values; read-only is kept |
| Cowns (`cown.h`) | atomic count, content, scheduler state | `inc`, `dec`, `destroy`, `load`, `exchange` | regions, scheduler | destroyed once, after the last reference |
| Behaviours (`thread.cc`) | closure, requests, result cown | `queue_behavior`, `thread_run_behavior` | scheduler (external) | writers alone; results before uses; errors release everything |
| Program (`program.cc`) | tables, memo slots, fini callbacks | `run`, loader, `init_memo_slot` | threads, scheduler | init before use, fini in reverse, once means once |
| Merge and freeze (`merge.cc`, `freeze.cc`, `region.cc`) | SCC links, atomic counts | `merge`, `freeze`, `find` | collector (`collect_scc`) | a frozen component is freed once, with its last reference |
| FFI, callbacks (`dynlib.*`, `ffi/`, `callback.*`) | loaded symbols, closures | call, callback | foreign code | pinned while foreign code holds it |
| `virc` (`virc/`) | a `Compilation`: names, types, functions | read, memo, assign/validate ids, typecheck, optimize, liveness, emit | bytecode format | rewriting keeps the meaning; a drop or move at each last use; once functions in dependency order; what it accepts raises no type error |
| `vc` (`vc/`) | the syntax tree | parse, sugar, anf, infer, reify | `virc` | the labels and jumps of `anf` do what the tree says |
| Scheduler | queues of requests | not in this repository (verona-rt, fetched by the build) | `VbciObjectModel` hooks in `cown.h` | modelled by its contract |

What is hard here: recursion between counts, collector and write barrier, each able to free what the caller still works on; calls that are refused half-way; the order in which a count is given up and an owner set; references of three kinds (register, field, cown) that count differently; and behaviours that overlap.

## Modules

**`RegionTree`** is the ownership forest of one thread, region by region. A call that recurses takes several steps in the code's order: `carryInc`/`carryDec` name the region the recursion visits next, `todo` the call that the operation still has to make, the status `queued`/`finalized`/`deleted` is the collector's two-phase worklist. References are abstracted to `held[r]`, the number of registers and frame-local fields that lead into region `r`. `RegionOwnership` is what it promises: regions are born with a reference, owners change without a cycle, and what is reclaimed is unreferenced. `OwnershipForest` defines forests without recursion, so that theorems can be stated. `RegionTree` implements `RegionOwnership` (property `ImplementsOwnership`).

**`HeapOps`** has the calls themselves, object by object, as functions on a heap record: counts and collector (mutually recursive, as in the code), `Drag` with its worklist, internal counts and guard, the write barrier (`Exchange`, `Drop`), the cown's exchange and destructor. `broken` notes a failed assert or the use of freed memory. **`RegionHeap`** is the thread that makes these calls: New, Region, Heap, Copy, Drop, Load, Store (move and copy), Call, Return, cown load and store, the destruction of a cown, `when` with a closure, the start and the end of a behaviour, and the error path that tears down every frame.

**`Behaviours`** is the concurrent part: which cowns a behaviour requests and how, the counts that travel with requests and registers, read-only cowns, the result cown, errors, `Cown::destroy`'s list and the end of the program. The body of a behaviour is any sequence of instructions, interleaved with all others. Cowns are named by the behaviour whose result they are, since `when` is the only instruction that creates one. A behaviour gets a `CownRef` to each cown it asked for (`thread.cc:484`): a writable one counts, a read-only one does not, since neither `reg_inc` nor `reg_dec` touches its count; so the count that came with a request to read stays for good. Three things are left out: a reference made from a cown that is not an argument (`from_field_ref` takes one, but the type check of `virc` lets it pass only through `dyn`), a `CownRef` that is returned or stored as a value, and, unless `Cases` has `captured_ref`, a closure that captures one.

**`CallFrames`** is one thread's frames on one register file, and the C++ calls in progress above an instruction (`host`): dropping the last reference to an object runs its finalizer, which is code on the same frames, so that popframe, raise, tail calls, teardown, callbacks and behaviours are cut into the steps between two drops. `HostStep` takes one such step, of the call on top of `host`; an instruction is taken when `host` has a run on top that still has a frame, and C when it has an FFI call there. Each of the calls carries the number of frames it was made with; that is bookkeeping, as is `finalized`.

**The pipeline.** `Compile` takes a program through all of the following, one action per pass and one per group of opcodes:

| Module | Code | What it is |
|---|---|---|
| `Anf` | `vc/passes/anf.cc`, `make_nomatch` of `vc/lang.cc`, the splat of `vc/passes/reify.cc` | a tree of expressions becomes statements, labels and jumps |
| `VIR` | `virc/lang.h`, subtyping | programs of labels and statements; types as sets of alternatives |
| `VIRMemo` | `virc/passes/memo.cc` | stubs and init functions of once functions, and their order |
| `VIRIds` | `assign_ids.cc`, `validate_ids.cc`, `compilation.cc` | numbers for every name and type |
| `VIRTypecheck` | `typecheck.cc` | data flow over labels, narrowing, every statement's rule |
| `VIROptimize` | `optimize.cc` | devirtualization, inlining, copy propagation, tail calls |
| `VIRLiveness` | `liveness.cc`, `LabelState` | moves and drops at last uses |
| `VBCEmit` | `virc/vbc/emitter.cc` | the file, word by word |
| `VBCLoad` | `vbci/program.cc`, the loader | the tables the file describes |
| `VBCValues` | `vbci/value.h`, `value.cc`, arrays | values, operators, conversions, elements |
| `VBCMachine` | `vbci/thread.cc`, `program.cc` | the instructions, calls, try calls, memo slots, the program's run |

`anf` is a rewriting system: it goes over the tree from the top down, in rounds, until no rule applies, and a rule applies in the first round that finds its operands named. `Anf` does the same with each statement (`Visit` is a round, `Settled` the rounds): what a round lifts comes after what the rounds before it lifted, and before the statement. So operands do not run from left to right. In `o.bump - say(b)` the static call `say` is lifted in the first round, the dynamic call only when `o` has a name; in `f(b = 9, b + b)` the sum is taken before the assignment. The rewriting engine is Trieste, which the build fetches: that its `topdown` passes work like this is known from Trieste, and not from this repository.

`Meaning` is not code. It says what a tree means by evaluating it in place, without labels, registers or instructions, and is what `SaysWhatItSays` compares the interpreter with. No document gives an order for the operands of an expression, so a program has two meanings, from the left and from the right. Where they agree, the interpreter must do exactly that; where they show the same values in another order, as in `both(say(1), say(2))`, it must show each of these once; where one operand changes what another gives, nothing is compared, though the other properties of `compile` hold of these programs too (`waits`, `passed`, `late` and `target` of `SourcePrograms`). The program as written, run before the optimizer, is in turn what `SameMeaning` compares the optimized program with. `SourcePrograms` and `MCCompile` hold the programs.

A pass works on what the previous one left: `prog` for `virc`, `file` between the programs, `T` for the interpreter; a pass that reports errors ends in `rejected`. References in `VBCMachine` are plain values and objects are never freed: counts and regions are the subject of the modules above.

How state corresponds to code:

| Model | Code |
|---|---|
| `RegionTree.owner`, `heap.owner` | `Region::parent`, `cown_owned` (as `CownOwner`) |
| `heap.loc` | `Header::loc`; frame depths stand for frame-local regions |
| `heap.queue`, `finalized`, `unlisted`, `in_collection` | thread-locals of `collect.cc`, `RegionRC::remove` |
| `RegionHeap.regs`, `depth` | `Thread::locals`, `frames` |
| `RegionHeap.sent` | the closure in a behaviour's body |
| `Behaviours.access`, `waits` | requests of `BehaviourCore`, and the queue on each cown |
| `Behaviours.rc`, `content`, `pending`, `destroyed` | `Cown::lifetime.references`, `content`, the list in `Cown::destroy`, deallocated cowns |
| `Behaviours.regs` | the registers of all frames of a behaviour, by the value they hold |
| `CallFrames.thread` | `Thread`: `frames`, `locals`, `args`, the stack's top; `host` is the C++ stack |
| `Compile.prog`, `ids`, `look` | the AST, the `Compilation`, the `lookup` results typecheck leaves |
| `Compile.file`, `T` | the bytecode file, `Program`'s tables |
| `Compile.vm` | `Thread::frames`, `locals`, `args`; `Program::memo_slots`; `phase` is how far `Program::run` is |
| `vm.ghost`, `vm.out` | bookkeeping only: errors raised, registers read empty; what the outside was shown |
| `Anf`'s `st` | the labels and bodies built so far, the fresh names, and the types later passes derive for them |
| `Behaviours.mutable` | bookkeeping only: whose content the behaviour can write through |

MC modules instantiate them with model values; the `.cfg` files give the constants.

## Runs

| Run | Bounds | Shows |
|---|---|---|
| `region_tree` | 3 regions, 2 held references each | Exact counts in the middle of every cascade, freeing exactly when due, a forest, no failed assert, every operation returns, what is unreachable is reclaimed, and the refinement |
| `heap_frames` | 3 objects with one field, 2 regions, 2 frames, 2 registers, 1 cown | No dangling reference, exact `stack_rc`, sound object counts, single entries that match owners, no escape from a frame, sent closures isolated, no leak |
| `heap_fields` | 3 objects with 2 fields, 2 regions, 1 frame, 2 registers | Drags that reach an owned region, or one region twice, give no region a second entry |
| `behaviours` | main and 3 behaviours, 2 registers in all when one is added | Exact cown counts, with one for each request to read that was ever made; one destruction, writers alone, results before use, no write without a grant; every scheduled behaviour ends, and so does the program |
| `call_frames` | 2 objects, one with a finalizer and on the stack, 1 function of 2 registers and the finalizer, 2 frames, 12 slots, 2 held references | Counts exact through every unwinding, no stale register, nothing left behind, one finalizer per object, nested runs that nest |
| `compile` | some 3 850 programs, each with both inputs | The optimized program and the written one do the same, and what the tree says where that does not depend on the order of operands; no register is read empty; no accepted program raises a type error; slots are filled in order; every file loads |

The bounds: three regions are the shortest chain with an ancestor that is not the parent, and let a cascade pass through a region in the middle. Two frames give every relation of frame depths a drag distinguishes (older, same, younger). Three objects with a field each make a chain across two regions, or a frame-local object between two heap objects; two fields are needed for two references from one object. Three behaviours besides main give a reader, a writer and a third that waits for either. The registers of all behaviours are bounded together by `MaxRegs`, checked when an instruction adds one, which lets two behaviours request the cown of a third; `MaxHeld`, `MaxDepth` and `MaxFrames` bound references and frames. With two frames a finalizer, a callback or a behaviour already runs above a caller, and a second one above the first is refused by the bound.

**Programs.** The cases of `compile` are families with one part varied at a time: statements over two variables in a diamond and in a loop; type tests over unions, with and without negation, on both branches and after the join; once functions with every graph of dependencies among three, direct, through a helper or through a method, and from a library's init; each operator at each width, each conversion; arrays and tuples with references, bulk operations, covariance; programs with one thing wrong, which must be rejected; and trees: every statement of `Src` alone, in a branch and in a loop, nine of them before each, and eight of them in pairs in a loop. Two statements are the least that let the first change what the second reads, a diamond and a loop of two rounds the least that give a label two predecessors and a back edge, three once functions the least with a dependency through a third.

The numbers are small: a `u8` has 4 values and an `i32` 64, so that sums, products and shifts overflow; other integers have 1024; a float is a whole number and a function of the C library is a term.

Left out of the cases, since code and check disagree there and the runs would only repeat it: arithmetic on bool; logic and shifts on floats; comparisons and negation of bytes (the machine gives a byte or an `i32` where the check says bool or `u8`); conversion to a pointer; storing through a tuple taken at a wider type; integer division by zero; wrong arguments of bulk operations; reading elements never filled; comparing arrays of anything but bytes; a reference to a variable of an inlined function, which is refused when its new number, after the caller's temporaries, is not below the number of variables (`optimize.cc:403`); and a use of the old value an assignment returns, as in `f(b = 9, b)`, which runs into `compile_swap`.

**Fairness.** `RegionTree`: weak fairness of `Continue`, a call already begun. It is a synchronous C++ call on one thread. Starting an operation is not fair: a program may stop using regions. `Behaviours`: weak fairness of `Progress`, the scheduler's threads taken together: when a behaviour can be started, a body can end, a release or a destruction is due, something of it happens. It is fair only as a whole: no behaviour is promised its turn, and `ProgramEnds` still follows because there are finitely many. It assumes that a body which can end does, which excludes infinite loops in the program. `RegionHeap` states no liveness.

`CallFrames` and `Compile` state no liveness: programs may loop.

**Deadlock** checking is off where a program may end or all objects may have been used; `compile` checks it, with a step that does nothing for a program that has ended.

**Symmetry.** `heap_frames` and `heap_fields` permute objects, regions and registers, which no definition distinguishes; they check invariants only.

## Where code and documents disagree

Each of these has a run of one property that TLC violates:

- `local_out`: overwriting a field of a frame-local object that leads into a heap region unparents that region, which has no parent: `clear_parent`'s `assert(p != nullptr)` fails.
- `alias`: replacing a reference into a child region by another into the same region unparents it, although the comment says "it's fine".
- `fresh_freed`: a frame-local object moved to a cown: the drag's last step frees the fresh region, before the cown owns it.
- `cown_lifecycle`: a cown that was requested to read is not deallocated when nothing refers to it any more. The comment at `thread.cc:478-480` explains why the count of such a request must be left to the register; the register does not give it back.
- `compile_swap`: `a = b = a` as `anf` writes it, through a copy of the old value: the optimizer replaces the copy by the variable that has been assigned since, and the two variables end up equal.
- `reader_writes`: a behaviour that has a cown to read loads its content without a read-only mark; the documentation says it cannot write.

The first three would end most behaviours of the heap in a broken state, so the passing runs leave them out by name: `Cases` lists which of the paths tagged in `HeapOps` (`local_out`, `alias`, `fresh_freed`, `drag_to_child`, `drag_fails_late`) a run explores, and is empty in `heap_frames` and `heap_fields`. `drag_to_child` is a fourth hazard of this kind: a drag that meets a region already parented to its destination skips it (`drag.cc:81`) and so gives it a second entry. With `Cases = {"drag_to_child"}` TLC finds `SingleEntry` violated.

A closure may capture a `CownRef` to write (`thread.cc:2533` asks only whether its region can be sent) and so take it into a behaviour that never asked for the cown: with `Cases = {"captured_ref"}` TLC finds `WritersExclude` violated, and `behaviours` leaves the case out.

Two smaller things are in the model as the code has them. A reference to a register that is no variable passes liveness when a function before has a variable with its number, since the set of variables is never cleared (`liveness.cc:15`, `bitset.cc:37-46`), where the comment at `liveness.cc:154` says that it must target a variable; `compile` has such a program (`late` of `MCCompile`), which is accepted; a call of the function would fail with `BadRefTarget`. The result cown of a failed behaviour receives the error (`thread.cc:502`), where `vc/docs/15-concurrency.md:219` says it receives no value.

## Proofs

Checked by TLAPS, for every finite set of regions or behaviours, any program of a thread, and every value of the bounds.

`RegionTree_proofs` begins with the forest: linking a root below a region that is not its descendant keeps it. Being an ancestor is defined by closed sets, so no induction over paths is needed.

The inductive invariant joins exact counts (with what the recursion in progress still has to add or take), freeing, live parents, the forest, the asserts, and which of the pending calls may be outstanding together. The last is what makes it inductive: exact counts are kept by a step only if the call the code is about to make is the one the parent's count lacks. From it: `TypeOK`, `StackRcExact`, `FreedExactly`, `ParentsExist`, `AssertsHold`, `ParentForest`. The cardinalities change by one child at a time, by the library's facts on finite sets.

`CountsCoverTrees` follows from the same invariant. That a reference below keeps every ancestor's count above 0 (`HeldCountsUp`): the regions whose count is 0 are closed under going to a child. The other direction (`CountHasReason`) has to find a reference below a region that is counted: the counted regions below it form a forest, a finite forest has a leaf (`ForestHasLeaf`, by the cardinality of the set of owners, which is all of a finite set only if no owner is missing), and the count of a leaf has no child to come from. `NothingUnreachableStays` does the same upwards (`ForestHasRoot`): a region that is live when no call is in progress is in the tree of a cown, or of a region that somebody refers to. It is the safety part of `UnreachableReclaimed`: what is left over when a cascade ends is reachable.

The last part of the module is the refinement: the initial state maps to an initial state of `RegionOwnership`, and every step to one of its steps or a stutter.

`Behaviours_proofs`: the inductive invariant relates requests to the order in which they were queued. Of two active behaviours whose requests exclude each other one waits for the other (`Ordered`); started behaviours do not wait; a requested result is done or waited for (`ResultOrdered`), which needs that handles lead to cowns that exist (`Born`) and that a behaviour has its own result to write (`OwnResult`); references to write come from a write request (`WritesRequested`). From it: `WritersExclude` and the action property `OnlyHoldersWrite`, both for programs whose closures capture no reference (`"captured_ref" \notin Cases`), and that a behaviour runs only when the ones whose results it asked for are done. The scheduler is assumed to queue all requests of a behaviour at once and to let a behaviour wait exactly for earlier, conflicting ones: the definition of `waits'` in `When`. What it does with counts is read off the comment at `thread.cc:476-482` and the slots' move: a count that came with a request to write is given back at the end, one that came with a request to read never. The comment says the latter of a cown with successors in the queue; if a release without successors does give the count back, fewer counts are lost, which `CownRcExact` would then have to say.

Two more theorems are about waiting. `NobodyWaitsInCircle`: among any set of behaviours one waits for none of the others, because all requests of a behaviour are queued in one step, so that nobody yet waits for the behaviour that starts to wait (`WaitsForActive`: one waits only for behaviours that are queued, running or not yet released). `NoDeadlock` follows: `SomethingToDo` writes out the guards of what the scheduler's threads do, and one of them holds until all behaviours are done. This is the part of `ProgramEnds` that is a safety property, for every number of behaviours; that they get their turn, and that bodies end, is fairness and stays with TLC.

`Behaviours_counts` builds on it. `CownRcExact` equates a number with the size of a set of registers of all behaviours, so the first part counts: the registers of one behaviour that count a cown are the sum of three numbers, one for each kind of handle that counts (`CountIsSum`), and when one behaviour's registers change, the total changes by as much (`TotalChange`). Then each action is shown to change count and references alike. The equation is not inductive alone. A behaviour that is not running must hold nothing (`IdleHoldNothing`), or `When` would start from registers nobody counted; a reference to write leads to a cown whose behaviour is done (`HeldRefsDone`) and a result is empty until its behaviour returns (`WrittenOnce`), or the return would overwrite a content that is counted; a cown that does not exist yet is not counted (`UnbornUncounted`). `CountInv` joins these with `TypeOK` (the counts do not go below 0), `CownRcExact` and `DestroyedExactly`: the last two need each other, since a destroyed cown must not be referred to, which is what the exact count says, and its content must no longer count, which is what being destroyed means. From `CountInv` follow the four and `ResultBeforeUse`. `UnreadCownsAreReleased` draws the consequence: a cown that nothing refers to is destroyed or about to be, if nobody ever asked to read it. `cown_lifecycle` shows that it fails for the others.

`CallFrames_calls` and `CallFrames_proofs` prove for any objects, functions, frames and programs that a finalizer runs once (`FinalizersRunOnce`). What could run it twice or never is a frame that is torn down twice, a teardown or a list of the collector that an error skips, or a nested run that reaches an object its caller is at. So the invariant is the shape of `host` (`Fit`): of two calls one above the other the upper leaves as many frames as the lower was made with, and was made above the right kind of call (`Chain`); what waits below a run needs no younger frame than the run was entered with (`Nested`), so that unwinding down to that run tears down frames nobody else is at; the visits of stack objects go from young frames to old ones (`VisitsAbove`); there is one list of the collector (`OneDrain`). Over it `Right` says of an object where it is and which visit, queue or list has it next, and so how often its finalizer has run. `CallsFitFrames` states the first half. A request about to be made (`Waiting`) is the one moment when a register is part of the invariant: the closure that goes to its behavior has to be the one that was checked. Both theorems are for programs without `raise_out_of_run` and `overlap`. The first unwinds frames that a call below still needs, and leaves a run without a frame to execute. The second runs finalizers between the check of a closure and its request, so that one would have to know what they leave in the register; with `Cases = {"overlap"}` TLC finds `FinalizedOnce` true within the bounds of `call_frames`.

`CallFrames_registers`, `CallFrames_steps` and `CallFrames_instructions` follow values through the registers. From them: nothing is left behind the current frame (`NothingIsBehind`), runs nest strictly (`RunsAreNested`), and a reference to a variable is only held above that variable's frame (`VariablesStayLive`, a part of `NoStaleRegister`). The three belong together. A finalizer, a callback or a behavior runs on the same register file as the frames below it, and while those are half torn down; `NothingBehind` would fail if such a run could store into a frame that has been cleared, which it can only do through a reference to a variable that somebody passed up to it. So:

- A run, and a frame whose registers have been cleared, are walls (`Wall`). No register above a wall, and no temporary of a call above it, refers to a variable below (`Walled`). What holds a wall up is that a run begins with one argument, which is an object or is converted from C, and that the first register, which `thread_run` saves and the run's result goes to, is free meanwhile (`Zero`).
- One thing does pass a wall. A collection that finds references when it begins may run finalizers above arguments that its caller has set up; those arguments may refer to any frame that was there when the collection began (`Found`). Nobody takes them before the call that is waiting drops them.
- A frame that is torn down is cleared first (`Covered`), and stays cleared (`Cleared`) but for its first register, while a run's result waits there.
- Beyond the frames a register holds a pending argument, a result on its way, or something that a call in progress drops, with no run in between that could use it (`Occupied`). When there are pending arguments something is about to take them (`Args`).

`Sound` joins these with the layout of the frames, which lie one behind the other, and with the place of every call (`Placed`, `Below`). Each part is needed by another: cleared frames need walls, walls need that popped frames leave nothing behind, and that needs cleared frames. `CallFrames_registers` shows what a new call, a call that ends, a write of a register, a new and a popped frame do to `Sound`; `CallFrames_steps` takes the calls of C++ one by one; `CallFrames_instructions` has the end of a run, the instructions, and `Regs`, the invariant. While a request is waiting to be made, `Regs` is about the thread as it was when its arguments were set up (`Asked`).

These three theorems have two hypotheses. `FileFits` says in each state that the register file has room for a frame of any function. The code has no such limit, since it doubles the file when it needs more (but for `Frame::drop` after a tail call, a hazard listed at `frame.cc:82`); the model's file keeps its size, and without room a frame could be pushed past its end. It is true in every state of `call_frames`. `Mild` excludes four of the five named cases, though not a finalizer that runs in a tail call. For two of them the theorems would be false: with `raise_out_of_run` TLC finds `NothingBehind` and `RunsNest` violated, with `forgotten_args` `NothingBehind` and `VariablesLive`, since the arguments that an error forgot refer to the frame that it unwound. With `overlap` or `callback_over_args` TLC finds all three true within the bounds of `call_frames`, but their invariant is not: there a finalizer, or C, is entered while what was set up for another call is still in the registers above.

Only model-checked: of `CallFrames`, the exact counts (`CallRefsExact`, `CallAsserts`) and the part of `NoStaleRegister` about objects, which need to know who holds each object and where it lives; the whole pipeline, whose passes are recursive over programs, so that what they compute for every program cannot be proved here; liveness (`OperationsReturn`, `UnreachableReclaimed`, `ProgramEnds`), which is out of this prover's reach; everything about `RegionHeap`, whose calls are recursive operators.

## Not modelled

In the heap modules: objects on the stack, frozen and merged objects, arena regions, the field-by-field initialization of an object, the same cown twice in one `when`, weak memory effects of the count's atomics. Finalizers written in Verona are in `CallFrames`, which has no fields. Two hazards at the edge of what the heap runs see: `ObjectRcSound` bounds a count from below, so that it says nothing of one that stays too high (`writebarrier.h:423`); and the check that a closure can be sent is one step with its hand-over, so that what a later argument of the same `when` does between the two (`thread.cc:2534`) is not there.

In `CallFrames` a run leaves out, by name in `Cases`, what breaks its invariants: an error that raises past a nested run (`raise_out_of_run`), a tail call whose teardown runs a finalizer while arguments are pending (`finalizer_in_tailcall`), arguments forgotten after a type error (`forgotten_args`), a result register that overlaps an argument (`overlap`), a callback entered while arguments are pending (`callback_over_args`).

In the pipeline: parsing of both languages; names, imports, sugar, type inference and reification of generics (`vc`); `when`, `raise`, cowns, callbacks, FFI structs and stack allocation as instructions; `match`, lambdas and strings as expressions; debug information and string tables. A sequence of expressions on the left of an assignment is left out. What infer and reify add is given: a node carries its type, the name on the other hand of a call is the name with `_ref`, and a splat is expanded when it is met.

Components with no module are listed in `PROJECT.json` with the reason. The scheduler and libffi are external.

## Plan

Done: `CallFrames`, the passes of `virc`, emitter and loader, values, `anf`. Left, in this order:

1. `FrozenComponents`: freeze, `find` with path compression, the shared atomic count and `collect_scc`, from several threads; abstract specification: a component with one count. Reading suggests what to ask first, none of it checked yet: whether `frozen_internal` counts edges inside a component that `arc_sum` no longer holds (the assert before `stack_adjustment` in `freeze.cc`); whether `scc_union`, which picks the representative by address, can meet a second back edge with both ends already joined (`assert(r != rep_r)`); and what the write barrier's `drop` meets when the members of a frozen component are finalized. The tests of freeze build no cycles.
2. `Merge`: one region into another; pin and unpin, composed with `RegionTree`.
3. `when`, `raise` and cowns as instructions of the pipeline; the field-by-field initialization of an object in `HeapOps`.
4. `match` and lambdas in `Anf`, with the sugar pass.
5. Callbacks from foreign threads; the failure of a library's init.
6. Theorems: the forest and single entries for merge; the refinement of `FrozenComponents`; exact counts of registers in `CallFrames` (`CallRefsExact`), on top of what the registers are known to hold, and that objects outlive the registers that hold them.
