----------------------------- MODULE CallFrames -----------------------------
(***************************************************************************)
(* One thread of the interpreter: its frames, the register file they share *)
(* and the calls of C++ that are in progress above an instruction.         *)
(* Dropping the last reference to an object runs its finalizer, which is   *)
(* Verona code on the same frames and the same register file; so each call *)
(* of C++ that drops registers is cut into the steps between two drops and *)
(* "host" is the stack of what is left to do.                              *)
(* Programs are any sequence of instructions, except that arguments are    *)
(* set up immediately before the instruction that takes them, as the       *)
(* compiler emits them. Objects have no fields here: HeapOps has those.    *)
(***************************************************************************)
EXTENDS Integers, Sequences, FiniteSets, SequencesExt

CONSTANTS Objects,     \* every object the program creates
          Finalized,   \* those whose class has a finalizer
          Stacked,     \* those it may put on the stack
          Functions,   \* the functions; "fin" is the finalizer
          Called,      \* those that instructions name
          Registers,   \* per function: how many registers it has
          Params,      \* per function: how many of them are parameters
          MaxFrames,   \* no call when there are this many frames
          MaxHeld,     \* no instruction adds a reference beyond this many
          Slots,       \* the size of the register file
          Cases        \* hazards of the code that a run explores

ASSUME CallFramesAssumption ==
  /\ Finalized \subseteq Objects /\ Called \subseteq Functions
  /\ Slots \in Nat /\ "fin" \in Functions /\ Params["fin"] = 1
  /\ \A f \in Functions : Registers[f] \in Nat \ {0} /\ Params[f] \in 0 .. Registers[f]

VARIABLE thread   \* the thread: a record with the parts named in Init

vars == <<thread>>

-----------------------------------------------------------------------------
(* Values, and where they are.                                              *)

None     == [kind |-> "none"]
Ref(o)   == [kind |-> "object", of |-> o]          \* counted
Self(o)  == [kind |-> "readonly", of |-> o]        \* not counted
Var(i,d) == [kind |-> "register", slot |-> i, frame |-> d]

Heap       == [at |-> "heap", frame |-> 0]         \* alone in a region
InFrame(d) == [at |-> "frame", frame |-> d]        \* frame-local region
OnStack(d) == [at |-> "stack", frame |-> d]
Popped(d)  == [at |-> "popped", frame |-> d]       \* below the stack's top, intact
Dying      == [at |-> "dying", frame |-> 0]        \* taken by the collector
Freed      == [at |-> "freed", frame |-> 0]        \* not allocated: New takes it
Immortal   == [at |-> "immortal", frame |-> 0]

IsObject(v) == v.kind \in {"object", "readonly"}

Location(t, v) ==
  CASE IsObject(v)         -> t.where[v.of]
    [] v.kind = "register" -> OnStack(v.frame)
    [] OTHER               -> Immortal

Depth(t) == Len(t.frames)
Top(t)   == t.frames[Depth(t)]

local(t, i) == Top(t).base + i
arg(t, i)   == IF Depth(t) = 0 THEN i ELSE Top(t).base + Registers[Top(t).func] + i

Push(t, items) == [t EXCEPT !.host = items \o @]
Pop(t)         == [t EXCEPT !.host = Tail(@)]
Item(t)        == Head(t.host)
Must(t, ok, name) == IF ok THEN t ELSE [t EXCEPT !.broken = @ \cup {name}]

-----------------------------------------------------------------------------
(* References: the count of an object is that of its region's registers.    *)

collect(t, set) ==
  LET queued == [t EXCEPT !.queue = Append(@, set),
                          !.where = [o \in Objects |-> IF o \in set THEN Dying ELSE @[o]]]
  IN IF t.in_collection THEN queued
     ELSE Push([queued EXCEPT !.in_collection = TRUE],
               <<[op |-> "drain", frame |-> Depth(t), todo |-> {}, done |-> {}]>>)

reg_inc(t, v) ==
  IF v.kind = "object" /\ t.where[v.of].at \in {"frame", "heap"}
  THEN [t EXCEPT !.rc[v.of] = @ + 1] ELSE t

reg_dec(t, v) ==
  IF v.kind # "object" THEN t
  ELSE CASE t.where[v.of].at \in {"frame", "heap"} ->
              LET less == [t EXCEPT !.rc[v.of] = @ - 1]
              IN IF t.rc[v.of] = 1 THEN collect(less, {v.of}) ELSE less
         [] t.where[v.of] = Freed -> Must(t, FALSE, "use_after_free")
         [] OTHER -> t

Assign(t, i, v) == reg_dec([t EXCEPT !.locals[i] = v], t.locals[i])
MoveOut(t, i)   == [t EXCEPT !.locals[i] = None]

drag(t, o, to) == [t EXCEPT !.where[o] = to]

\* The region gets a cown as its owner, and no register leads to it.
Sent == [at |-> "sent", frame |-> 0]
send(t, o) == [t EXCEPT !.where[o] = Sent, !.rc[o] = 0]

-----------------------------------------------------------------------------
(* Frames.                                                                  *)

Clear(d, from, to) == [op |-> "clear", frame |-> d, from |-> from, to |-> to]

\* Registers that the frames in use do not reach: arguments included.
drop_args(t) ==
  Push([t EXCEPT !.args = 0],
       IF t.args = 0 THEN <<>> ELSE <<Clear(Depth(t), arg(t, 0), arg(t, t.args - 1))>>)

\* Mutant: a frame is torn down without a visit of its stack objects.
TeardownSkipsStack(t, tail) ==
  <<Clear(Depth(t), local(t, 0), local(t, Registers[Top(t).func] - 1))>>
  \o (IF tail THEN <<>> ELSE <<[op |-> "collect", frame |-> Depth(t)]>>)
  \o <<[op |-> "restore", frame |-> Depth(t)]>>

teardownItems(t, tail) ==
  LET d == Depth(t)
  IN <<Clear(d, local(t, 0), local(t, Registers[Top(t).func] - 1)),
       [op |-> "visit", frame |-> d, seen |-> {}]>>
     \o (IF tail THEN <<>> ELSE <<[op |-> "collect", frame |-> d]>>)
     \o <<[op |-> "restore", frame |-> d]>>

\* An error leaves the calls of C++ up to the innermost thread_run, which
\* catches it; a temporary register on the way gives up its reference.
Caught(t) ==
  LET at  == CHOOSE i \in 1 .. Len(t.host) :
               /\ t.host[i].op = "run"
               /\ \A j \in 1 .. i - 1 : t.host[j].op # "run"
      run == t.host[at]
  IN [t EXCEPT !.host =
        <<[op |-> "drop_args", frame |-> Depth(t)], [op |-> "unwind", depth |-> run.depth],
          [run EXCEPT !.op = "rethrow"]>> \o SubSeq(@, at + 1, Len(@))]

\* Mutant: the temporary register leaks.
ThrowKeepsTemporary(t, temp) == Caught(t)

throw(t, temp) == reg_dec(Caught(t), temp)

\* Arguments that do not fit are dropped before the error.
badArgs(t) == drop_args(Push(t, <<[op |-> "throw", frame |-> Depth(t)]>>))
argsFit(t, f, typed) == t.args = Params[f] /\ (typed \/ t.args = 0)

Framed(t, f, dst) ==
  [t EXCEPT !.args = 0,
            !.frames = Append(@, [func |-> f, dst |-> dst, base |-> arg(t, 0),
                                  raise_target |-> Depth(t) + 1])]

pushframe(t, f, dst, typed) ==
  IF argsFit(t, f, typed) THEN Framed(t, f, dst) ELSE badArgs(t)

\* Mutant: a failed try_pushframe forgets the arguments.
TryKeepsArguments(t, f, dst, typed) ==
  IF argsFit(t, f, typed) THEN Framed(t, f, dst)
  ELSE Assign([t EXCEPT !.args = 0], local(t, dst), None)

try_pushframe(t, f, dst, typed) ==
  IF argsFit(t, f, typed) THEN Framed(t, f, dst)
  ELSE drop_args(Push(t, <<[op |-> "assign", frame |-> Depth(t),
                           slot |-> local(t, dst), value |-> None]>>))

\* popframe: the unused arguments go first, then the rest as an item.
popframe(t, ret, typed) ==
  drop_args(Push(t, <<[op |-> "leave", frame |-> Depth(t), ret |-> ret, typed |-> typed]>>))

\* Mutant: a frame-local result is not dragged out of its frame.
LeaveWithoutDrag(u, item) ==
  LET t == Pop(u)
  IN IF Location(t, item.ret) = OnStack(Depth(t)) \/ ~item.typed THEN throw(t, item.ret)
     ELSE Push(t, teardownItems(t, FALSE)
                    \o <<[op |-> "pop", frame |-> Depth(t)],
                         [op |-> "result", frame |-> Depth(t) - 1,
                          slot |-> Top(t).dst, ret |-> item.ret]>>)

leaveStep(u, item) ==
  LET t   == Pop(u)
      ret == item.ret
      d   == Depth(t)
      loc == Location(t, ret)
      new == IF d > 1 THEN InFrame(d - 1) ELSE Heap
      out == IF loc = InFrame(d) /\ ret.kind = "object" THEN drag(t, ret.of, new) ELSE t
  IN IF loc = OnStack(d) THEN throw(t, ret)
     ELSE IF ~item.typed THEN throw(out, ret)
     ELSE Push(out, teardownItems(t, FALSE)
                    \o <<[op |-> "pop", frame |-> d],
                         [op |-> "result", frame |-> d - 1, slot |-> Top(t).dst, ret |-> ret]>>)

raise(t, ret, target, typed) ==
  LET loc == Location(t, ret)
      out == IF loc.at = "frame" /\ loc.frame > target /\ ret.kind = "object"
             THEN drag(t, ret.of, InFrame(target)) ELSE t
  IN IF target >= Depth(t) THEN throw(t, ret)
     ELSE IF loc.at = "stack" /\ loc.frame > target THEN throw(t, ret)
     ELSE Push(out, <<[op |-> "raise", target |-> target, ret |-> ret, typed |-> typed]>>)

tailcall(t, f, typed) ==
  Push(t, teardownItems(t, TRUE)
            \o <<[op |-> "tailcall", frame |-> Depth(t), func |-> f, typed |-> typed]>>)

-----------------------------------------------------------------------------
(* thread_run: a nested run keeps the interrupted frame's register 0.       *)

Run(t, why, saved) == [op |-> "run", why |-> why, depth |-> Depth(t), saved |-> saved]

thread_run(t, f, why, typed) ==
  IF Depth(t) = 0 THEN pushframe(Push(t, <<Run(t, why, None)>>), f, 0, typed)
  ELSE LET zero == local(t, 0)
       IN pushframe(Push(MoveOut(t, zero), <<Run(t, why, t.locals[zero])>>), f, 0, typed)

\* run_cleanup with the object, read-only, as its argument. Setting an
\* argument overwrites what the register holds.
run_finalizer(t, o) ==
  LET asked == Push(Must(t, t.args = 0, "args_pending"),
                    <<[op |-> "start", frame |-> Depth(t), func |-> "fin", why |-> "cleanup"]>>)
  IN Assign([asked EXCEPT !.args = @ + 1, !.finalized[o] = @ + 1], arg(t, t.args), Self(o))

startStep(t, item) == thread_run(Pop(t), item.func, item.why, TRUE)

finalize(t, o) == IF o \in Finalized THEN run_finalizer(t, o) ELSE t

-----------------------------------------------------------------------------
(* The steps of C++ between two instructions: the top item of "host".       *)

Full(t, from, to) == {i \in from .. to : t.locals[i] # None}

clearStep(t, item) ==
  LET full == Full(t, item.from, item.to)
  IN IF full = {} THEN Pop(t)
     ELSE Assign(t, CHOOSE i \in full : \A j \in full : i <= j, None)

\* Stack::visit_headers: the stack objects of the frame, in their order.
visitStep(t, item) ==
  LET left == {o \in Objects : t.where[o] = OnStack(item.frame)} \ item.seen
      o == CHOOSE x \in left : TRUE
  IN IF left = {} THEN Pop(t)
     ELSE finalize(Push(Pop(t), <<[item EXCEPT !.seen = @ \cup {o}]>>), o)

collectStep(t, item) ==
  collect(Pop(t), {o \in Objects : t.where[o] = InFrame(item.frame)})

restoreStep(t, item) ==
  [Pop(t) EXCEPT !.where = [o \in Objects |->
     IF @[o] = OnStack(item.frame) THEN Popped(item.frame) ELSE @[o]]]

\* Nothing of the frame's stack is looked at any more.
forget(t) ==
  [t EXCEPT !.where = [o \in Objects |-> IF @[o] = Popped(Depth(t)) THEN Freed ELSE @[o]]]

\* drain_work_list: finalize everything that is queued, then delete it.
drainStep(t, item) ==
  IF item.todo # {} THEN
    LET o == CHOOSE x \in item.todo : TRUE
    IN finalize(Push(Pop(t), <<[item EXCEPT !.todo = @ \ {o}, !.done = @ \cup {o}]>>), o)
  ELSE IF t.queue # <<>> THEN
    Push([Pop(t) EXCEPT !.queue = Tail(@)], <<[item EXCEPT !.todo = Head(t.queue)]>>)
  ELSE [Pop(t) EXCEPT !.in_collection = FALSE,
                      !.where = [o \in Objects |-> IF o \in item.done THEN Freed ELSE @[o]]]

popStep(t) == [forget(Pop(t)) EXCEPT !.frames = Front(@)]

\* The result goes to the caller's register, or to register 0 of the thread.
resultStep(t, item) ==
  Assign(Pop(t), IF Depth(t) = 0 THEN 0 ELSE local(t, item.slot), item.ret)

raiseStep(t, item) ==
  IF Depth(t) = item.target THEN popframe(Pop(t), item.ret, item.typed)
  ELSE drop_args(Push(t, teardownItems(t, FALSE) \o <<[op |-> "pop", frame |-> Depth(t)]>>))

\* After the teardown the arguments become the registers of the callee.
tailcallStep(t, item) ==
  LET u == Pop(t)
      n == Params[item.func]
      moved == [u EXCEPT !.args = 0,
                  !.locals = [i \in DOMAIN @ |->
                    IF i \in local(u, 0) .. local(u, n - 1) THEN @[arg(u, i - Top(u).base)]
                    ELSE IF i \in arg(u, 0) .. arg(u, n - 1) THEN None ELSE @[i]]]
      escapes == \E i \in 0 .. n - 1 :
                   Location(u, u.locals[arg(u, i)]) \in {OnStack(Depth(u)), Popped(Depth(u))}
  IN IF ~argsFit(u, item.func, item.typed) THEN badArgs(u)
     ELSE IF escapes THEN throw(moved, None)
     ELSE [forget(moved) EXCEPT !.frames[Depth(u)].func = item.func]

\* Mutant: an error unwinds one frame too many.
UnwindTooFar(t, item) ==
  IF Depth(t) < item.depth \/ Depth(t) = 0 THEN Pop(t)
  ELSE drop_args(Push(t, teardownItems(t, FALSE) \o <<[op |-> "pop", frame |-> Depth(t)]>>))

unwindStep(t, item) ==
  IF Depth(t) <= item.depth THEN Pop(t)
  ELSE drop_args(Push(t, teardownItems(t, FALSE) \o <<[op |-> "pop", frame |-> Depth(t)]>>))

\* The error goes on to the caller of thread_run: a finalizer's is logged,
\* a callback's ends the process, a behavior's is stored in its result.
rethrowStep(t, item) ==
  LET u == Pop(t)
      v == IF Depth(u) = 0 THEN u ELSE Assign(u, local(u, 0), item.saved)
  IN IF item.why = "callback" THEN [v EXCEPT !.aborted = TRUE] ELSE v

\* The run is over when its frame is gone: the result is in register 0. That
\* of a behavior goes to its cown.
endStep(t, item) ==
  LET zero   == IF Depth(t) = 0 THEN 0 ELSE local(t, 0)
      result == t.locals[zero]
      u      == [Pop(t) EXCEPT !.locals[zero] = item.saved]
  IN IF item.why = "behavior" /\ result.kind = "object" /\ Location(t, result) = Heap
     THEN send(u, result.of) ELSE reg_dec(u, result)

\* thread_handle_callback: the arguments come from C.
callbackStep(t, item) ==
  IF t.args < Params[item.func]
  THEN Assign([t EXCEPT !.args = @ + 1], arg(t, t.args), None)
  ELSE thread_run(Pop(t), item.func, "callback", TRUE)

\* The C function returns: its result is assigned, then the arguments go.
returnStep(t, item, typed) ==
  IF ~typed THEN throw(Pop(t), None)
  ELSE Assign(Push(Pop(t), IF item.args = 0 THEN <<>>
                           ELSE <<Clear(Depth(t), arg(t, 0), arg(t, item.args - 1))>>),
              local(t, item.dst), None)

\* The requests take the arguments, and the behavior takes the closure.
scheduleStep(t, item) ==
  LET u == Must(Pop(t), \A o \in item.passed : t.where[o] = Heap, "request_changed")
      closure == u.locals[arg(u, 0)]
      cleared == [u EXCEPT !.locals = [i \in DOMAIN @ |->
                    IF i \in arg(u, 0) .. arg(u, item.args - 1) THEN None ELSE @[i]]]
  IN IF item.args > 0 /\ closure.kind = "object"
     THEN send(cleared, closure.of) ELSE cleared

hostStep(t) ==
  LET item == Item(t)
  IN CASE item.op = "clear"    -> clearStep(t, item)
       [] item.op = "visit"    -> visitStep(t, item)
       [] item.op = "collect"  -> collectStep(t, item)
       [] item.op = "leave"    -> leaveStep(t, item)
       [] item.op = "restore"  -> restoreStep(t, item)
       [] item.op = "drain"    -> drainStep(t, item)
       [] item.op = "pop"      -> popStep(t)
       [] item.op = "result"   -> resultStep(t, item)
       [] item.op = "raise"    -> raiseStep(t, item)
       [] item.op = "tailcall" -> tailcallStep(t, item)
       [] item.op = "unwind"   -> unwindStep(t, item)
       [] item.op = "rethrow"  -> rethrowStep(t, item)
       [] item.op = "start"    -> startStep(t, item)
       [] item.op = "callback" -> callbackStep(t, item)
       [] item.op = "schedule" -> scheduleStep(t, item)
       [] item.op = "assign"   -> Assign(Pop(t), item.slot, item.value)
       [] item.op = "drop_args" -> drop_args(Pop(t))
       [] item.op = "throw"    -> throw(Pop(t), None)
       [] OTHER                -> endStep(t, item)

\* C++ runs until Verona code or C is to run, here or in a nested run.
Settled(t) ==
  ~ /\ t.broken = {} /\ ~t.aborted /\ t.host # <<>>
    /\ Item(t).op # "ffi"
    /\ Item(t).op = "run" => Depth(t) = Item(t).depth

Do(t) == thread' = t

-----------------------------------------------------------------------------
(* Actions.                                                                 *)

Init ==
  thread = [frames  |-> <<>>,
            locals  |-> [i \in 0 .. Slots - 1 |-> None],
            args    |-> 0,
            host    |-> <<>>,
            rc      |-> [o \in Objects |-> 0],
            where   |-> [o \in Objects |-> Freed],
            queue   |-> <<>>,
            in_collection |-> FALSE,
            finalized |-> [o \in Objects |->         \* how often; not in the code
                            IF o \in Finalized THEN 1 ELSE 0],
            aborted |-> FALSE,
            broken  |-> {}]                        \* asserts that failed

Active  == thread.broken = {} /\ ~thread.aborted /\ Settled(thread)
Running == Active /\ thread.host # <<>> /\ Item(thread).op = "run"
InC     == Active /\ thread.host # <<>> /\ Item(thread).op = "ffi"

Locals  == 0 .. Registers[Top(thread).func] - 1
Get(i)  == thread.locals[local(thread, i)]
Set(t, i, v) == Assign(t, local(t, i), v)
Taken(i) == MoveOut(thread, local(thread, i))

\* The arguments that the next instruction takes, or that C was given.
Arguments(n) == {thread.locals[arg(thread, i)] : i \in 0 .. n - 1} \ {None}
Passed(n) == {v.of : v \in {w \in Arguments(n) : IsObject(w)}}
Held == {i \in DOMAIN thread.locals : thread.locals[i] # None}
Room == Cardinality(Held) < MaxHeld
\* Nothing else comes between an argument and the instruction that takes it.
Plain == Running /\ thread.args = 0

\* thread_run_behavior: a closure that was sent comes as the first argument.
RunBehavior(f, closure) ==
  /\ Active /\ thread.host = <<>>
  /\ closure # None => thread.where[closure.of] = Sent /\ Params[f] > 0
  /\ Do(LET given == IF closure = None THEN thread
                    ELSE Assign([thread EXCEPT !.where[closure.of] = Heap,
                                               !.rc[closure.of] = 1], 0, closure)
       IN thread_run([given EXCEPT !.args = Params[f]], f, "behavior", TRUE))

\* New, Stack, Region and Heap, and their arrays.
New(o, place, dst) ==
  /\ Plain /\ Room /\ (place.at = "stack" => o \in Stacked)
  /\ thread.where[o] = Freed /\ dst \in Locals
  /\ Do(Set([thread EXCEPT !.where[o] = place, !.rc[o] = 1, !.finalized[o] = 0], dst, Ref(o)))

Copy(src, dst) ==
  /\ Plain /\ Room /\ {src, dst} \subseteq Locals /\ Get(src) # None
  /\ Do(Set(reg_inc(thread, Get(src)), dst, Get(src)))

Move(src, dst) ==
  /\ Plain /\ {src, dst} \subseteq Locals /\ src # dst /\ Get(src) # None
  /\ Do(Set(Taken(src), dst, Get(src)))

Drop(src) == Plain /\ src \in Locals /\ Get(src) # None /\ Do(Set(thread, src, None))

\* An operand, a type or a target that is wrong.
Fault == Plain /\ Do(throw(thread, None))

\* A reference to a variable of this frame; parameters are not variables.
RegisterRef(i, dst) ==
  /\ Plain /\ Room /\ {i, dst} \subseteq Locals /\ i >= Params[Top(thread).func]
  /\ Do(Set(thread, dst, Var(local(thread, i), Depth(thread))))

Load(src, dst) ==
  /\ Plain /\ Room /\ {src, dst} \subseteq Locals /\ Get(src).kind = "register"
  /\ LET v == thread.locals[Get(src).slot]
     IN Do(Set(reg_inc(thread, v), dst, v))

\* Value::exchange of a variable: what must not outlive its frame is refused,
\* what is too young is dragged, before the type is checked.
Store(ref, src, dst, is_move, typed) ==
  /\ Plain /\ (is_move \/ Room)
  /\ {ref, src, dst} \subseteq Locals /\ ref # src /\ Get(ref).kind = "register"
  /\ LET var     == Get(ref)
         v       == Get(src)
         loc     == Location(thread, v)
         t       == IF is_move THEN Taken(src) ELSE thread
         temp    == IF is_move THEN v ELSE None
         refused == v.kind = "readonly" \/ (loc.at = "stack" /\ loc.frame > var.frame)
         in      == IF loc.at = "frame" /\ loc.frame > var.frame
                    THEN drag(t, v.of, InFrame(var.frame)) ELSE t
         stored  == [(IF is_move THEN in ELSE reg_inc(in, v)) EXCEPT !.locals[var.slot] = v]
     IN Do(IF refused THEN throw(t, temp)
                  ELSE IF ~typed THEN throw(in, temp)
                  ELSE Set(stored, dst, in.locals[var.slot]))

SetArg(src, is_move) ==
  /\ Running /\ src \in Locals /\ thread.args < Registers[Top(thread).func]
  /\ is_move \/ (Room /\ Get(src) # None)
  /\ LET t == IF is_move THEN Taken(src) ELSE reg_inc(thread, Get(src))
     IN Do(Assign([t EXCEPT !.args = @ + 1], arg(t, t.args), Get(src)))

CanCall == Running /\ Depth(thread) < MaxFrames
\* Whether types fit matters where there is something to be typed.
Types == IF thread.args = 0 THEN {TRUE} ELSE BOOLEAN

Call(f, dst, typed) ==
  CanCall /\ dst \in Locals /\ Do(pushframe(thread, f, dst, typed))

TryCall(f, dst, typed) ==
  CanCall /\ dst \in Locals /\ Do(try_pushframe(thread, f, dst, typed))

\* Finalizers must not run while arguments are set up.
Quiet ==
  \A o \in Finalized : /\ thread.where[o] # OnStack(Depth(thread))
                       /\ \A i \in Locals : Get(i) # Ref(o)

Tailcall(f, typed) ==
  /\ Running
  /\ thread.args = 0 \/ Quiet \/ "finalizer_in_tailcall" \in Cases
  /\ Params[f] <= Registers[Top(thread).func]   \* a bound: they fit the frame
  /\ Do(tailcall(thread, f, typed))

Return(src, typed) ==
  Plain /\ src \in Locals /\ Do(popframe(Taken(src), Get(src), typed))

\* Raise, after any SetRaise: a target is the id of a frame, now or before.
Raise(src, target, typed) ==
  /\ Plain /\ src \in Locals
  /\ target > Item(thread).depth \/ "raise_out_of_run" \in Cases
  /\ Do(raise(Taken(src), Get(src), target, typed))

\* The register of the result is written while the arguments are still there.
ResultIsFree(dst) == Get(dst) = None \/ "overlap" \in Cases
\* An error after args is reset leaves the arguments in their registers.
ArgsGoOnError(typed) == typed \/ Arguments(thread.args) = {} \/ "forgotten_args" \in Cases

\* queue_behavior: cowns are not counted here; the closure is the first.
When(f, dst, typed) ==
  /\ Running /\ dst \in Locals /\ ResultIsFree(dst) /\ ArgsGoOnError(typed)
  /\ arg(thread, 0) \in DOMAIN thread.locals   \* the register file grows with the frames
  /\ LET n       == thread.args
         closure == thread.locals[arg(thread, 0)]
         others  == {thread.locals[arg(thread, i)] : i \in 1 .. n - 1}
         t       == IF n > 0 /\ closure.kind = "object" /\ Location(thread, closure).at = "frame"
                    THEN drag(thread, closure.of, Heap) ELSE thread
         isolated == closure.kind = "object" => t.where[closure.of] = Heap /\ t.rc[closure.of] = 1
         request  == [op |-> "schedule", frame |-> Depth(thread), args |-> n, passed |-> Passed(n)]
     IN /\ n > 0 => closure.kind # "readonly"
        /\ Do(IF Params[f] # n THEN throw(thread, None)
                     ELSE IF n > 0 /\ (closure.kind = "register" \/ ~isolated) THEN throw(t, None)
                     ELSE IF others \subseteq {None} THEN
                       IF typed THEN Set(Push([t EXCEPT !.args = 0], <<request>>), dst, None)
                       ELSE throw([t EXCEPT !.args = 0], None)
                     ELSE throw(t, None))

\* The calls of C in progress, and what they were given. A bound: a callback
\* does not call C again.
InForeign == {j \in DOMAIN thread.host : thread.host[j].op = "ffi"}
Foreign   == UNION {thread.host[j].passed : j \in InForeign}

\* Mutant: the arguments still count as pending during the call of C.
FFIKeepsArgs(dst) ==
  /\ Running /\ InForeign = {} /\ dst \in Locals
  /\ Do(Push(thread, <<[op |-> "ffi", frame |-> Depth(thread), args |-> thread.args, dst |-> dst,
                        passed |-> Passed(thread.args)]>>))

FFI(dst) ==
  /\ Running /\ InForeign = {} /\ dst \in Locals
  /\ Do(Push([thread EXCEPT !.args = 0],
                    <<[op |-> "ffi", frame |-> Depth(thread), args |-> thread.args, dst |-> dst,
                       passed |-> Passed(thread.args)]>>))

Callback(f) ==
  /\ InC /\ Depth(thread) < MaxFrames
  /\ Arguments(Item(thread).args) = {} \/ "callback_over_args" \in Cases
  /\ Do(Push(Must(thread, thread.args = 0, "args_pending"),
             <<[op |-> "callback", frame |-> Depth(thread), func |-> f]>>))

ReturnFromC(typed) ==
  /\ InC /\ (typed \/ Arguments(Item(thread).args) = {} \/ "forgotten_args" \in Cases)
  /\ Do(returnStep(thread, Item(thread), typed))

HostStep == ~Settled(thread) /\ Do(hostStep(thread))

Next ==
  \/ HostStep
  \/ Fault
  \/ \E typed \in BOOLEAN : ReturnFromC(typed)
  \/ \E f \in Called, closure \in {None} \cup {Ref(o) : o \in Objects} : RunBehavior(f, closure)
  \/ \E f \in Called : Callback(f)
  \/ Running /\
     \/ \E o \in Objects, dst \in Locals,
           place \in {Heap, InFrame(Depth(thread)), OnStack(Depth(thread))} : New(o, place, dst)
     \/ \E src, dst \in Locals :
          Copy(src, dst) \/ Move(src, dst) \/ RegisterRef(src, dst) \/ Load(src, dst)
     \/ \E ref, src, dst \in Locals, is_move, typed \in BOOLEAN :
          Store(ref, src, dst, is_move, typed)
     \/ \E src \in Locals : Drop(src) \/ SetArg(src, TRUE) \/ SetArg(src, FALSE)
     \/ \E src \in Locals, typed \in BOOLEAN :
          \/ Return(src, typed)
          \/ \E target \in 1 .. Depth(thread) : Raise(src, target, typed)
     \/ \E dst \in Locals : FFI(dst)
     \/ \E f \in Called, typed \in Types :
          \/ Tailcall(f, typed)
          \/ \E dst \in Locals :
               Call(f, dst, typed) \/ TryCall(f, dst, typed) \/ When(f, dst, typed)

Spec == Init /\ [][Next]_vars

-----------------------------------------------------------------------------
(* Properties.                                                              *)

\* The registers of C++ in a call in progress.
Temporary(item) ==
  CASE item.op \in {"run", "rethrow"}           -> item.saved
    [] item.op \in {"leave", "result", "raise"} -> item.ret
    [] item.op = "assign"                       -> item.value
    [] OTHER                                    -> None
Temporaries == {i \in DOMAIN thread.host : Temporary(thread.host[i]) # None}
References(o) ==
  Cardinality({i \in 0 .. Slots - 1 : thread.locals[i] = Ref(o)})
  + Cardinality({i \in Temporaries : Temporary(thread.host[i]) = Ref(o)})

\* A count is the number of registers, arguments and temporaries that hold
\* the object, also in the middle of an error, a teardown or a finalizer.
CallRefsExact ==
  \A o \in Objects : thread.where[o].at \in {"frame", "heap"} => thread.rc[o] = References(o)

\* Whatever a register or C holds is still there, and a register outlives
\* neither the frame its value lives in nor, read-only, the finalizer.
Outlived(i, d) == d <= Depth(thread) /\ i >= thread.frames[d].base
NoStaleRegister ==
  /\ \A i \in 0 .. Slots - 1 :
       LET v == thread.locals[i]
           loc == Location(thread, v)
       IN /\ v.kind = "register" => Outlived(i, v.frame)
          /\ v.kind = "object" => loc.at \notin {"sent", "freed"}
          /\ v.kind = "object" /\ loc.at \in {"frame", "stack", "popped"} => Outlived(i, loc.frame)
          /\ v.kind = "readonly" => loc.at \in {"dying", "stack", "popped"}
  /\ \A o \in Foreign : thread.where[o].at # "freed"
  /\ \A i \in Temporaries : Location(thread, Temporary(thread.host[i])).at # "freed"

\* Between instructions no register beyond the current frame is in use:
\* whatever was passed has been taken, or a call in progress drops it.
NothingBehind ==
  (Active /\ (thread.host = <<>> \/ Plain)) =>
    \A i \in arg(thread, 0) .. Slots - 1 :
      thread.locals[i] # None =>
        \E j \in DOMAIN thread.host : /\ thread.host[j].op = "clear"
                                      /\ i \in thread.host[j].from .. thread.host[j].to

\* A finalizer runs once, before its object is freed.
FinalizedOnce ==
  \A o \in Finalized : /\ thread.finalized[o] <= 1
                       /\ thread.where[o] = Freed => thread.finalized[o] = 1

\* The assert that no arguments are pending when a nested run begins, and two
\* that the code leaves out: nothing that was freed is counted down, and the
\* closure that queue_behavior checked is the one its behavior gets.
CallAsserts == thread.broken = {}

\* Runs nest: none goes on below the frames it was entered with.
RunsNest ==
  \A i \in DOMAIN thread.host : thread.host[i].op \in {"run", "rethrow"} =>
    /\ thread.host[i].depth <= Depth(thread)
    /\ \A j \in 1 .. i - 1 : thread.host[j].op \in {"run", "rethrow"} =>
         thread.host[i].depth < thread.host[j].depth
=============================================================================
