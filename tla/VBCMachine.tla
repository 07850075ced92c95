------------------------------ MODULE VBCMachine ------------------------------
(***************************************************************************)
(* One thread of the interpreter running a loaded file: the register file, *)
(* frames, the heap, and every instruction. T has the tables, vm the       *)
(* state. References are plain values here and objects are never freed:    *)
(* what counts and regions do is the subject of other modules.             *)
(***************************************************************************)
EXTENDS VBCValues

-----------------------------------------------------------------------------
(* The state. A frame owns the registers from its base on; the arguments   *)
(* it stages follow them, where the callee's registers will be.            *)

Machine == [locals |-> <<>>, frames |-> <<>>, args |-> 0, heap |-> <<>>, memo |-> <<>>,
            out |-> <<>>, phase |-> "libs", next |-> 1, finis |-> <<>>,
            error |-> "", exit |-> 0, ghost |-> {}]

Top(vm)   == vm.frames[Len(vm.frames)]
Depth(vm) == Len(vm.frames)

Cell(vm, i) == IF i < Len(vm.locals) THEN vm.locals[i + 1] ELSE Invalid

SetCell(vm, i, v) ==
  [vm EXCEPT !.locals = IF i < Len(@) THEN [@ EXCEPT ![i + 1] = v]
                        ELSE @ \o [k \in 1 .. i - Len(@) |-> Invalid] \o <<v>>]

local(vm, r)       == Cell(vm, Top(vm).base + r)
SetLocal(vm, r, v) == SetCell(vm, Top(vm).base + r, v)

Registers(T, vm) == T.funcs[Top(vm).func].registers
ArgCell(T, vm, k) == (IF vm.frames = <<>> THEN 0 ELSE Top(vm).base + Registers(T, vm)) + k
arg(T, vm, k)     == Cell(vm, ArgCell(T, vm, k))

ClearFrom(vm, i) == [vm EXCEPT !.locals = SubSeq(@, 1, Min({i, Len(@)}))]

drop_args(T, vm) == [ClearFrom(vm, ArgCell(T, vm, 0)) EXCEPT !.args = 0]

\* An instruction failed: the error travels to whoever catches it.
Raise(vm, e) == [vm EXCEPT !.error = e]

\* Operands: a word that numbers a register is read in place or moved out.
Word(T, vm, k) == T.file[Top(vm).pc + k]
Opcode(T, vm)  == Word(T, vm, 0)
Reg(T, vm, k)  == local(vm, Word(T, vm, k))
Skip(vm, n)    == [vm EXCEPT !.frames[Depth(vm)].pc = @ + n]

\* Reading a register that holds nothing is legal; the compiler is to
\* avoid it, so it is noted.
Note(vm, vs) == [vm EXCEPT !.ghost = IF Invalid \in vs THEN @ \cup {"empty"} ELSE @]

\* The instruction of n words writes v to the register its first word names.
Result(T, vm, n, v) == Skip(SetLocal(vm, Word(T, vm, 1), v), n)

MovedOut(T, vm, k) == SetLocal(vm, Word(T, vm, k), Invalid)

-----------------------------------------------------------------------------
(* Values.                                                                 *)

class(T, id) == T.classes[id + 1]
IsClassId(T, id) == id < Len(T.classes)

\* An object or array by its place in the heap. The one object of a class
\* without fields has no place there: it is known by its class.
OnHeap(h)          == h > 0
type_of(vm, h)     == IF OnHeap(h) THEN vm.heap[h].cls ELSE -h
SingletonOf(id)    == Object(-id)

field_type_id(T, vm, v)   == class(T, type_of(vm, v[2])).fields[v[3]][2]
content_type_id(T, vm, v) == unarray(T, type_of(vm, v[2]))

RECURSIVE value_type_id(_, _, _)
value_type_id(T, vm, v) ==
  CASE v[1] \in {"object", "array"} -> type_of(vm, v[2])
    [] v[1] = "registerref" -> ref(T, value_type_id(T, vm, Cell(vm, v[2])))
    [] v[1] = "fieldref"    -> ref(T, field_type_id(T, vm, v))
    [] v[1] = "arrayref"    -> ref(T, content_type_id(T, vm, v))
    [] v[1] \in {"function", "error", "invalid"} -> DynamicTypeId
    [] OTHER                -> val(v[1])

HasType(T, vm, v, id) == subtype(T, value_type_id(T, vm, v), id)

\* A method by its number, 0 when the class does not have it.
method(T, id, m) ==
  LET ms == class(T, id).methods  i == SelectInSeq(ms, LAMBDA r : r[1] = m)
  IN  IF i = 0 THEN 0 ELSE ms[i][2] + 1

\* A computed value, or the error it is.
Compute(T, vm, n, v) == IF IsError(v) THEN Raise(vm, v[2]) ELSE Result(T, vm, n, v)

-----------------------------------------------------------------------------
(* Frames.                                                                 *)

\* "" when the arguments fit.
check_args(T, vm, types) ==
  CASE vm.args # Len(types) -> "BadArgs"
    [] vm.args = Len(types) /\ \E i \in DOMAIN types : ~HasType(T, vm, arg(T, vm, i - 1), types[i])
                            -> "BadType"
    [] OTHER                -> ""

Frame(T, vm, f, dst, run) ==
  [func |-> f, base |-> ArgCell(T, vm, 0), pc |-> T.funcs[f].labels[1], dst |-> dst, run |-> run]

Enter(T, vm, f, dst, run) ==
  [vm EXCEPT !.args = 0, !.frames = Append(@, Frame(T, vm, f, dst, run))]

pushframe(T, vm, f, dst, run) ==
  IF f = 0 THEN Raise(vm, "MethodNotFound")
  ELSE IF check_args(T, vm, T.funcs[f].params) # ""
  THEN Raise(drop_args(T, vm), check_args(T, vm, T.funcs[f].params))
  ELSE Enter(T, vm, f, dst, run)

try_pushframe(T, vm, f, dst) ==
  IF f = 0 \/ check_args(T, vm, T.funcs[f].params) # ""
  THEN SetLocal(drop_args(T, vm), dst, Invalid)
  ELSE Enter(T, vm, f, dst, "call")

EscapesWith(vm, v) == v[1] = "registerref" /\ v[3] = Depth(vm)

\* The frame's registers, and the arguments it staged, are dropped.
Pop(vm) == [ClearFrom(vm, Top(vm).base) EXCEPT !.args = 0, !.frames = Front(@)]

\* A run that Program asked for is over, and it keeps what it needs of the
\* result: the value of a slot, or what to call at the end.
Finish(T, vm, f, v) ==
  LET apply == IF f.run = "init" /\ v[1] = "object"
               THEN method(T, type_of(vm, v[2]), CallbackMethodId) ELSE 0
  IN  CASE f.run = "memo" -> [vm EXCEPT !.memo[f.dst] = v]
        [] apply # 0      -> [vm EXCEPT !.finis = Append(@, <<v, apply>>)]
        [] OTHER          -> vm

popframe(T, vm, v) ==
  LET f == Top(vm) IN
  IF EscapesWith(vm, v) THEN Raise(vm, "BadStackEscape")
  ELSE IF ~HasType(T, vm, v, T.funcs[f.func].ret) THEN Raise(vm, "BadType")
  ELSE IF f.run = "call" THEN SetLocal(Pop(vm), f.dst, v)
  ELSE Finish(T, Pop(vm), f, v)

\* Registers are dropped before the arguments of the callee are looked at.
tailcall(T, vm, f) ==
  LET n       == vm.args
      staged  == [i \in 1 .. n |-> arg(T, vm, i - 1)]
      dropped == [vm EXCEPT !.locals = [i \in DOMAIN @ |->
                    IF i > Top(vm).base /\ i <= ArgCell(T, vm, 0) THEN Invalid ELSE @[i]]]
  IN  IF f = 0 THEN Raise(vm, "MethodNotFound")
      ELSE IF check_args(T, dropped, T.funcs[f].params) # ""
      THEN Raise(drop_args(T, dropped), check_args(T, dropped, T.funcs[f].params))
      ELSE IF \E i \in 1 .. n : EscapesWith(vm, staged[i]) THEN Raise(vm, "BadStackEscape")
      ELSE [vm EXCEPT !.args = 0,
              !.locals = SubSeq(@, 1, Top(vm).base) \o staged,
              !.frames[Depth(vm)] = [@ EXCEPT !.func = f, !.pc = T.funcs[f].labels[1]]]

branch(T, vm, l) == [vm EXCEPT !.frames[Depth(vm)].pc = T.funcs[Top(vm).func].labels[l + 1]]

-----------------------------------------------------------------------------
(* References.                                                             *)

RegisterRefTo(T, vm, r) ==
  LET f == T.funcs[Top(vm).func] IN
  IF r \notin Len(f.params) .. Len(f.params) + Len(f.vars) - 1 THEN <<"error", "BadRefTarget">>
  ELSE <<"registerref", Top(vm).base + r, Depth(vm)>>

FieldRefTo(T, vm, v, field) ==
  IF v[1] # "object" THEN <<"error", "BadRefTarget">>
  ELSE LET i == SelectInSeq(class(T, type_of(vm, v[2])).fields, LAMBDA x : x[1] = field)
       IN  IF i = 0 THEN <<"error", "BadField">> ELSE <<"fieldref", v[2], i>>

load_reference(vm, v) ==
  CASE v[1] = "registerref" -> Cell(vm, v[2])
    [] v[1] \in {"fieldref", "arrayref"} -> vm.heap[v[2]].fields[v[3]]
    [] OTHER                -> <<"error", "BadLoadTarget">>

\* A place in an array, from its index.
ArrayRefTo(vm, v, i) ==
  IF v[1] # "array" THEN <<"error", "BadRefTarget">>
  ELSE IF i >= Len(vm.heap[v[2]].fields) THEN <<"error", "BadArrayIndex">>
  ELSE <<"arrayref", v[2], i + 1>>

\* The declared type of a register that is a variable of a frame still there.
VarType(T, vm, cell) ==
  LET owns(f) == cell >= f.base /\ cell < f.base + T.funcs[f.func].registers
      i == SelectLastInSeq(vm.frames, owns)
      f == T.funcs[vm.frames[i].func]
      k == cell - vm.frames[i].base - Len(f.params)
  IN  IF i = 0 \/ k < 0 \/ k >= Len(f.vars) THEN DynamicTypeId ELSE f.vars[k + 1]

\* [error, vm]: the place referred to holds v now.
exchange(T, vm, r, v) ==
  CASE r[1] = "registerref" ->
         [error |-> IF v[1] = "registerref" /\ v[3] > r[3] THEN "BadStoreTarget"
                    ELSE IF ~HasType(T, vm, v, VarType(T, vm, r[2])) THEN "BadType" ELSE "",
          vm    |-> SetCell(vm, r[2], v)]
    [] r[1] \in {"fieldref", "arrayref"} ->
         [error |-> IF ~HasType(T, vm, v, IF r[1] = "fieldref" THEN field_type_id(T, vm, r)
                                          ELSE content_type_id(T, vm, r)) THEN "BadType"
                    ELSE IF v[1] = "registerref" THEN "BadStore" ELSE "",
          vm    |-> [vm EXCEPT !.heap[r[2]].fields[r[3]] = v]]
    [] OTHER -> [error |-> "BadStoreTarget", vm |-> vm]

-----------------------------------------------------------------------------
(* Instructions. Each reads its words after the opcode and leaves the      *)
(* program counter behind them.                                            *)

Const_(T, vm) ==
  LET kind == PrimitiveTypes[Word(T, vm, 2) + 1] IN
  CASE kind = "none" -> Result(T, vm, 3, None)
    [] kind = "ptr"  -> Raise(vm, "BadConversion")
    [] OTHER -> Result(T, vm, 4, <<kind, IF kind \in SignedTypes THEN UnZigzag(Word(T, vm, 3))
                                         ELSE Word(T, vm, 3)>>)

Transfer(T, vm) ==
  LET v == Reg(T, vm, 2)  noted == Note(vm, {v}) IN
  Result(T, IF Opcode(T, vm) = "Move" THEN MovedOut(T, noted, 2) ELSE noted, 3, v)

Drop_(T, vm) == Skip(MovedOut(T, vm, 1), 2)

Arg_(T, vm) ==
  LET v      == Reg(T, vm, 1)
      noted  == Note(vm, {v})
      taken  == IF Opcode(T, vm) = "ArgMove" THEN MovedOut(T, noted, 1) ELSE noted
  IN  Skip([SetCell(taken, ArgCell(T, vm, vm.args), v) EXCEPT !.args = @ + 1], 2)

New_(T, vm) ==
  LET id     == Word(T, vm, 2)
      fields == class(T, id).fields
      vs     == [i \in DOMAIN fields |-> arg(T, vm, i - 1)]
      bad    == check_args(T, vm, [i \in DOMAIN fields |-> fields[i][2]])
      made   == [drop_args(T, vm) EXCEPT !.heap = Append(@, [cls |-> id, fields |-> vs])]
  IN  CASE bad # "" -> Raise(drop_args(T, vm), bad)
        [] bad = "" /\ \E v \in ToSet(vs) : v[1] = "registerref" -> Raise(vm, "BadAllocTarget")
        [] OTHER -> Result(T, made, 3, Object(Len(made.heap)))

\* The size comes in a register or is one of the words.
NewArray_(T, vm) ==
  LET const == Opcode(T, vm) = "NewArrayConst"
      size  == IF const THEN Size(Word(T, vm, 3)) ELSE Reg(T, vm, 2)
      id    == Word(T, vm, IF const THEN 2 ELSE 3)
      clear == Cleared(layout_type_id(T, unarray(T, id)))
      made  == [vm EXCEPT !.heap = Append(@, [cls |-> id, fields |-> [i \in 1 .. size[2] |-> clear]])]
  IN  IF size[1] # "usize" THEN Raise(Note(vm, {size}), "BadConversion")
      ELSE Result(T, made, 4, Array(Len(made.heap)))

ArrayRef_(T, vm) ==
  LET v     == Reg(T, vm, 2)
      const == Opcode(T, vm) \in {"ArrayRefMoveConst", "ArrayRefCopyConst"}
      index == IF const THEN Size(Word(T, vm, 3)) ELSE Reg(T, vm, 3)
      noted == Note(vm, {v, index})
      taken == IF Opcode(T, vm) \in {"ArrayRefMove", "ArrayRefMoveConst"} THEN MovedOut(T, noted, 2)
               ELSE noted
  IN  IF index[1] # "usize" THEN Raise(taken, "BadConversion")
      ELSE Compute(T, taken, 4, ArrayRefTo(vm, v, index[2]))

\* Whole runs of elements. The bounds are the compiler's to keep: they are
\* asserted, not checked.
Within(vm, h, off, n) == off + n <= Len(vm.heap[h].fields)
LayoutOf(T, vm, h)    == layout_type_id(T, unarray(T, vm.heap[h].cls))

\* Bytes are moved as they are; any other elements are stored one after
\* another, and a store that is refused leaves those before it.
PutElements(T, vm, h, off, vs) ==
  LET checked == ~is_primitive(LayoutOf(T, vm, h))
      untyped(v) == checked /\ ~HasType(T, vm, v, unarray(T, vm.heap[h].cls))
      local_(v)  == checked /\ v[1] = "registerref"
      bad  == SelectInSeq(vs, LAMBDA v : untyped(v) \/ local_(v))
      n    == IF bad = 0 THEN Len(vs) ELSE bad - 1
      put  == [vm EXCEPT !.heap[h].fields =
                 [i \in DOMAIN @ |-> IF i > off /\ i <= off + n THEN vs[i - off] ELSE @[i]]]
  IN  CASE bad = 0 -> put
        [] bad # 0 /\ untyped(vs[bad])  -> Raise(put, "BadType")
        [] OTHER -> Raise(put, "BadStore")

bulk_copy(T, vm, h, off, g, from, n) ==
  IF ~Within(vm, h, off, n) \/ ~Within(vm, g, from, n) \/ LayoutOf(T, vm, h) # LayoutOf(T, vm, g)
  THEN Raise(vm, "assert")
  ELSE PutElements(T, vm, h, off, SubSeq(vm.heap[g].fields, from + 1, from + n))

bulk_fill(T, vm, h, off, n, v) ==
  IF ~Within(vm, h, off, n) THEN Raise(vm, "assert")
  ELSE PutElements(T, vm, h, off,
                   [i \in 1 .. n |-> IF is_primitive(LayoutOf(T, vm, h))
                                     THEN to_addr(LayoutOf(T, vm, h), v) ELSE v])

\* The sign of the first difference. (Elements of more than a byte are compared
\* lowest byte first; no program here has an array of those to compare.)
bulk_compare(T, vm, h, off, g, from, n) ==
  LET at(i) == <<vm.heap[h].fields[off + i], vm.heap[g].fields[from + i]>>
      differ == {i \in 1 .. n : at(i)[1] # at(i)[2]}
      first  == at(Min(differ))
  IN  IF ~Within(vm, h, off, n) \/ ~Within(vm, g, from, n) \/ LayoutOf(T, vm, h) # LayoutOf(T, vm, g)
      THEN Raise(vm, "assert")
      ELSE IF ~is_primitive(LayoutOf(T, vm, h)) THEN Raise(vm, "BadType")
      ELSE Result(T, drop_args(T, vm), 2,
             <<"i64", IF differ = {} THEN 0
                      ELSE IF Bits(first[1]) < Bits(first[2]) THEN -1 ELSE 1>>)

Bulk_(T, vm) ==
  LET a(k)  == arg(T, vm, k)
      op    == Opcode(T, vm)
      arrays == IF op = "ArrayFill" THEN {0} ELSE {0, 2}
      sizes  == IF op = "ArrayFill" THEN {1, 2} ELSE {1, 3, 4}
      done(after) == IF after.error # "" THEN after ELSE Result(T, drop_args(T, after), 2, None)
  IN  CASE (\E k \in arrays : a(k)[1] # "array") \/ (\E k \in sizes : a(k)[1] # "usize") ->
             Raise(vm, "BadConversion")
        [] op = "ArrayCopy" -> done(bulk_copy(T, vm, a(0)[2], a(1)[2], a(2)[2], a(3)[2], a(4)[2]))
        [] op = "ArrayFill" -> done(bulk_fill(T, vm, a(0)[2], a(1)[2], a(2)[2], a(3)))
        [] op = "ArrayCompare" ->
             bulk_compare(T, vm, a(0)[2], a(1)[2], a(2)[2], a(3)[2], a(4)[2])

RegisterRef_(T, vm) == Compute(T, vm, 3, RegisterRefTo(T, vm, Word(T, vm, 2)))

FieldRef_(T, vm) ==
  LET v     == Reg(T, vm, 2)
      noted == Note(vm, {v})
      taken == IF Opcode(T, vm) = "FieldRefMove" THEN MovedOut(T, noted, 2) ELSE noted
  IN  Compute(T, taken, 4, FieldRefTo(T, vm, v, Word(T, vm, 3)))

Load_(T, vm) ==
  LET r == Reg(T, vm, 2) IN Compute(T, Note(vm, {r}), 3, load_reference(vm, r))

Store_(T, vm) ==
  LET r     == Reg(T, vm, 2)
      v     == Reg(T, vm, 3)
      noted == Note(vm, {r, v})
      taken == IF Opcode(T, vm) = "StoreMove" THEN MovedOut(T, noted, 3) ELSE noted
      x     == exchange(T, taken, r, v)
  IN  IF x.error # "" THEN Raise(vm, x.error) ELSE Result(T, x.vm, 4, load_reference(taken, r))

Lookup_(T, vm) ==
  LET v  == Reg(T, vm, 2)
      id == value_type_id(T, vm, v)
      f  == IF IsClassId(T, id) THEN method(T, id, Word(T, vm, 3)) ELSE 0
  IN  IF ~IsClassId(T, id) THEN Raise(vm, "BadType")
      ELSE Result(T, Note(vm, {v}), 4, IF f = 0 THEN Invalid ELSE Func(f))

\* The function a register holds; anything else is no function.
function(v) == IF v[1] = "function" THEN v[2] ELSE 0

Call_(T, vm) ==
  LET dst  == Word(T, vm, 1)
      next == Skip(vm, 3)
  IN  CASE Opcode(T, vm) = "CallStatic"  -> pushframe(T, next, Word(T, vm, 2) + 1, dst, "call")
        [] Opcode(T, vm) = "CallDynamic" -> pushframe(T, next, function(Reg(T, vm, 2)), dst, "call")
        [] Opcode(T, vm) = "TryCallDynamic" -> try_pushframe(T, next, function(Reg(T, vm, 2)), dst)

Tailcall_(T, vm) ==
  tailcall(T, vm, IF Opcode(T, vm) = "TailcallStatic" THEN Word(T, vm, 1) + 1
                  ELSE function(Reg(T, vm, 1)))

Return_(T, vm) == LET v == Reg(T, vm, 1) IN popframe(T, MovedOut(T, Note(vm, {v}), 1), v)

\* A slot that is still empty is filled first, by a run of its own; then the
\* instruction finds the value. Nobody may ask for a slot being filled.
MemoLoad_(T, vm) ==
  LET slot == Word(T, vm, 2) + 1
      busy == \E f \in ToSet(vm.frames) : f.run = "memo" /\ f.dst = slot
  IN  IF ~IsInvalid(vm.memo[slot]) THEN Result(T, vm, 3, vm.memo[slot])
      ELSE IF busy THEN [Raise(vm, "assert") EXCEPT !.ghost = @ \cup {"initializing"}]
      ELSE pushframe(T, vm, T.memo[slot] + 1, slot, "memo")

\* The functions outside: one shows its argument, one reads the input.
FFI_(T, vm, input) ==
  LET symbol == T.symbols[Word(T, vm, 2) + 1]
      bad    == check_args(T, vm, symbol.params)
      v      == IF symbol.name = "input" THEN input ELSE None
      after  == IF symbol.name = "print" THEN [vm EXCEPT !.out = Append(@, arg(T, vm, 0))] ELSE vm
  IN  IF bad # "" THEN Raise(drop_args(T, vm), bad)
      ELSE IF ~HasType(T, vm, v, symbol.ret) THEN Raise(vm, "BadType")
      ELSE Result(T, drop_args(T, after), 3, v)

Typetest_(T, vm) == Result(T, vm, 4, Bool(HasType(T, vm, Reg(T, vm, 2), Word(T, vm, 3))))

Binop_(T, vm) ==
  LET l == Reg(T, vm, 2)  r == Reg(T, vm, 3) IN
  Compute(T, Note(vm, {l, r}), 4, binop(Opcode(T, vm), l, r))

op_len(vm, v) == Size(IF v[1] = "array" THEN Len(vm.heap[v[2]].fields) ELSE 1)

Unop_(T, vm) ==
  LET v == Reg(T, vm, 2) IN
  Compute(T, Note(vm, {v}), 3, IF Opcode(T, vm) = "Len" THEN op_len(vm, v)
                               ELSE unop(Opcode(T, vm), v))

MathConst_(T, vm) == Result(T, vm, 2, ConstantOf[Opcode(T, vm)])

Convert_(T, vm) ==
  LET v == Reg(T, vm, 3) IN
  Compute(T, Note(vm, {v}), 4, convert(v, PrimitiveTypes[Word(T, vm, 2) + 1]))

Singleton_(T, vm) == Result(T, vm, 3, SingletonOf(Word(T, vm, 2)))

Cond_(T, vm) ==
  LET v == Reg(T, vm, 1) IN
  IF v[1] # "bool" THEN Raise(Note(vm, {v}), "BadConversion")
  ELSE branch(T, vm, Word(T, vm, IF v = Bool(TRUE) THEN 2 ELSE 3))

Jump_(T, vm) == branch(T, vm, Word(T, vm, 1))

-----------------------------------------------------------------------------
(* Program::run: the init function of every library, the slots that are    *)
(* still empty in the order the compiler chose, main, and in reverse what  *)
(* the init functions asked for.                                           *)

Boot(T) == [Machine EXCEPT !.memo = [i \in DOMAIN T.memo |-> Invalid]]

Run(T, vm, f, dst, run) == pushframe(T, vm, f, dst, run)

\* Only between runs.
Advance(T, vm) ==
  LET to(phase) == [vm EXCEPT !.phase = phase, !.next = 1]
      skip      == [vm EXCEPT !.next = @ + 1]
      n         == vm.next
  IN
  CASE vm.phase = "libs" ->
         IF n > Len(T.inits) THEN to("memo")
         ELSE IF T.inits[n] = 0 THEN skip ELSE Run(T, skip, T.inits[n], 0, "init")
    [] vm.phase = "memo" ->
         IF n > Len(T.memo) THEN to("main")
         ELSE IF ~IsInvalid(vm.memo[n]) THEN skip ELSE Run(T, skip, T.memo[n] + 1, n, "memo")
    [] vm.phase = "main" ->
         Run(T, to("fini"), MainFunctionId + 1, 0, "main")
    [] vm.phase = "fini" ->
         IF vm.finis = <<>> THEN to("done")
         ELSE LET fini == Last(vm.finis) IN
              Run(T, [SetCell(vm, 0, fini[1]) EXCEPT !.args = 1, !.finis = Front(@)],
                  fini[2], 0, "fini")
    [] OTHER -> vm

\* An error goes through every frame. An init that fails ends the program,
\* main's error becomes its exit code; nobody catches the others.
Unwind(vm) ==
  LET run == vm.frames[1].run
      gone == [vm EXCEPT !.frames = <<>>, !.locals = <<>>, !.args = 0, !.exit = -1]
  IN  IF run = "main" THEN [gone EXCEPT !.error = "", !.ghost = @ \cup {vm.error}]
      ELSE [gone EXCEPT !.phase = "done", !.ghost = @ \cup {vm.error},
                        !.error = IF run = "init" THEN "" ELSE "terminate"]
=============================================================================
