-------------------------------- MODULE VBCEmit --------------------------------
(***************************************************************************)
(* The bytecode emitter. A file is a sequence of words, each of which the  *)
(* emitter encodes on its own: the tables first, then the code of every    *)
(* function. Names of opcodes stand for their numbers; the words of debug  *)
(* information are left out.                                               *)
(***************************************************************************)
EXTENDS VIRIds

MagicNumber    == 57005              \* any number that is no section of a file
CurrentVersion == 0

\* The sign goes to the lowest bit.
Zigzag(n)   == IF n >= 0 THEN 2 * n ELSE -2 * n - 1
UnZigzag(w) == IF w % 2 = 0 THEN w \div 2 ELSE -((w + 1) \div 2)

Counted(rows) == <<Len(rows)>> \o FlattenSeq(rows)

SignedTypes == {"i8", "i16", "i32", "i64", "ilong", "isize", "f32", "f64"}

-----------------------------------------------------------------------------
(* Statements. Arguments are staged by instructions of their own before    *)
(* the one that takes them.                                                *)

\* A name of the format for every statement whose words are that name, its
\* destination and its sources.
PlainOp ==
  [copy |-> "Copy", move |-> "Move", ref |-> "RegisterRef", load |-> "Load",
   calldyn |-> "CallDynamic", trycalldyn |-> "TryCallDynamic",
   return |-> "Return", tailcalldyn |-> "TailcallDynamic"]
BinaryOp ==
  [add |-> "Add", sub |-> "Sub", mul |-> "Mul", div |-> "Div", mod |-> "Mod", pow |-> "Pow",
   and |-> "And", or |-> "Or", xor |-> "Xor", shl |-> "Shl", shr |-> "Shr",
   eq |-> "Eq", ne |-> "Ne", lt |-> "Lt", le |-> "Le", gt |-> "Gt", ge |-> "Ge",
   min |-> "Min", max |-> "Max", logbase |-> "LogBase", atan2 |-> "Atan2"]
UnaryOp ==
  [neg |-> "Neg", not |-> "Not", abs |-> "Abs", ceil |-> "Ceil", floor |-> "Floor",
   exp |-> "Exp", log |-> "Log", sqrt |-> "Sqrt", cbrt |-> "Cbrt", isinf |-> "IsInf",
   isnan |-> "IsNaN", sin |-> "Sin", cos |-> "Cos", tan |-> "Tan", asin |-> "Asin",
   acos |-> "Acos", atan |-> "Atan", sinh |-> "Sinh", cosh |-> "Cosh", tanh |-> "Tanh",
   asinh |-> "Asinh", acosh |-> "Acosh", atanh |-> "Atanh", bits |-> "Bits", len |-> "Len",
   makeptr |-> "Ptr", read |-> "Read"]
\* Those that have a destination alone.
ConstantOp ==
  [const_e |-> "Const_E", const_pi |-> "Const_Pi", const_inf |-> "Const_Inf",
   const_nan |-> "Const_NaN"]
BulkOp == [arraycopy |-> "ArrayCopy", arrayfill |-> "ArrayFill", arraycompare |-> "ArrayCompare"]
OpName == PlainOp @@ BinaryOp @@ UnaryOp @@ ConstantOp @@ BulkOp

StagesArgs == {"new", "call", "calldyn", "trycalldyn", "ffi", "tailcall", "tailcalldyn"}
              \cup BulkOps
Staged(reg, s) ==
  IF s.op \notin StagesArgs THEN <<>>
  ELSE FlattenSeq([i \in DOMAIN s.args |->
         <<IF s.args[i].move THEN "ArgMove" ELSE "ArgCopy", reg[s.args[i].reg]>>])

ConstWords(dst, s) ==
  LET kind == (CHOOSE a \in s.type : TRUE)[1] IN
  <<"Const", dst, val(kind)>> \o
  (CASE kind = "none"        -> <<>>
     [] kind \in SignedTypes -> <<Zigzag(s.num)>>
     [] OTHER                -> <<s.num>>)

\* The two instructions that say whether they take their argument over.
FieldRefWords(st, reg, s) ==
  <<IF s.args[1].move THEN "FieldRefMove" ELSE "FieldRefCopy",
    reg[s.dst], reg[s.args[1].reg], IdIn(st.fields, s.name)>>
ArrayRefWords(reg, s) ==
  LET arg == s.args[1] IN
  IF s.op = "arrayref"
  THEN <<IF arg.move THEN "ArrayRefMove" ELSE "ArrayRefCopy", reg[s.dst], reg[arg.reg], reg[s.src[1]]>>
  ELSE <<IF arg.move THEN "ArrayRefMoveConst" ELSE "ArrayRefCopyConst",
         reg[s.dst], reg[arg.reg], s.num>>
StoreWords(reg, s) ==
  <<IF s.args[1].move THEN "StoreMove" ELSE "StoreCopy",
    reg[s.dst], reg[s.src[1]], reg[s.args[1].reg]>>

\* reg has the numbers of the registers; env has the tables and the slots of
\* the once functions.
StatementWords(env, reg, s) ==
  LET dst == reg[s.dst]  st == env.st IN
  CASE s.op = "const"    -> ConstWords(dst, s)
    [] s.op = "field"    -> FieldRefWords(st, reg, s)
    [] s.op = "store"    -> StoreWords(reg, s)
    [] s.op = "new"      -> <<"New", dst, type_id(st, Class(s.name))>>
    [] s.op = "convert"  -> <<"Convert", dst, type_id(st, s.type), reg[s.src[1]]>>
    [] s.op = "singleton" -> <<"Singleton", dst, type_id(st, Class(s.name))>>
    [] s.op = "newarray" -> <<"NewArray", dst, reg[s.src[1]], type_id(st, s.type)>>
    [] s.op = "newarrayconst" -> <<"NewArrayConst", dst, type_id(st, s.type), s.num>>
    [] s.op \in {"arrayref", "arrayrefconst"} -> ArrayRefWords(reg, s)
    [] s.op = "call"     -> <<"CallStatic", dst, IdIn(st.funcs, s.name)>>
    [] s.op = "ffi"      -> <<"FFI", dst, IdIn(st.symbols, s.name)>>
    [] s.op = "lookup"   -> <<"LookupDynamic", dst, reg[s.src[1]], IdIn(st.methods, s.name)>>
    [] s.op = "memoslot" -> <<"MemoLoad", dst, IdIn(env.memo, s.name)>>
    [] s.op = "typetest" -> <<"Typetest", dst, reg[s.src[1]], type_id(st, s.type)>>
    [] s.op = "drop"     -> <<"Drop", dst>>
    [] OTHER             -> <<OpName[s.op], dst>> \o [i \in DOMAIN s.src |-> reg[s.src[i]]]

TerminatorWords(env, reg, s) ==
  CASE s.op = "tailcall" -> <<"TailcallStatic", IdIn(env.st.funcs, s.name)>>
    [] s.op = "jump"     -> <<"Jump", s.to[1] - 1>>
    [] s.op = "cond"     -> <<"Cond", reg[s.src[1]], s.to[1] - 1, s.to[2] - 1>>
    [] OTHER             -> <<OpName[s.op], reg[s.src[1]]>>

Words(env, reg, s) ==
  Staged(reg, s) \o (IF s.op \in Terminators THEN TerminatorWords(env, reg, s)
                     ELSE StatementWords(env, reg, s))

\* The code of a function, label after label, and where each label starts.
FuncCode(env, fn, f, start) ==
  LET reg == [r \in LocalsOf(f) |-> IdIn(env.st.regs[fn], r)]
      Block(stmts) == FlattenSeq([i \in DOMAIN stmts |-> Words(env, reg, stmts[i])])
      AddLabel(c, b) == [pcs  |-> Append(c.pcs, start + Len(c.code)),
                         code |-> c.code \o Block(Append(b.body, b.term))]
  IN  FoldLeft(AddLabel, [pcs |-> <<>>, code |-> <<>>], f.labels)

-----------------------------------------------------------------------------
(* Tables. Types are numbered the first time the emitter meets them.       *)

TypesOf(decls) == [i \in DOMAIN decls |-> decls[i].type]

TypesMet(P, st) ==
  FlattenSeq([i \in DOMAIN st.classes |-> TypesOf(P.classes[st.classes[i]].fields)]) \o
  FlattenSeq([i \in DOMAIN st.symbols |-> P.symbols[st.symbols[i]].params
                                          \o <<P.symbols[st.symbols[i]].ret>>]) \o
  FlattenSeq([i \in DOMAIN st.funcs |->
     LET f == P.funcs[st.funcs[i]]
         tests == SelectSeq(FlattenSeq([l \in LabelsOf(f) |-> f.labels[l].body]),
                            LAMBDA s : s.op \in {"typetest", "newarray", "newarrayconst"})
     IN  TypesOf(f.params) \o <<f.ret>> \o TypesOf(f.vars) \o TypesOf(tests)])

Ids(st, decls) == [i \in DOMAIN decls |-> <<type_id(st, decls[i].type)>>]

MethodRows(st, table) ==
  LET ms == SetToSeq(DOMAIN table) IN
  Counted([i \in DOMAIN ms |-> <<IdIn(st.methods, ms[i]), IdIn(st.funcs, table[ms[i]])>>])

NoMethods == <<0>>

PrimitiveRow(P, st, type) ==
  LET i == SelectInSeq(P.prims, LAMBDA p : type_id(st, {p.type}) = type)
  IN  IF i = 0 THEN NoMethods ELSE MethodRows(st, P.prims[i].methods)

ComplexPrimitives(P, st) ==
  LET ids == {type_id(st, {p.type}) : p \in {q \in ToSet(P.prims) : IsComplex(q)}}
  IN  IF ids = {} THEN 0 ELSE Max(ids) - FirstComplex(st) + 1

ClassRow(P, st, c) ==
  LET fs == P.classes[c].fields IN
  Counted([i \in DOMAIN fs |-> <<IdIn(st.fields, fs[i].name), type_id(st, fs[i].type)>>]) \o
  MethodRows(st, P.classes[c].methods)

LibraryRow(st, lib) == <<lib.name, IF lib.init = "" THEN 0 ELSE IdIn(st.funcs, lib.init) + 1>>

SymbolRow(P, st, s) ==
  LET sym == P.symbols[s]
      ids == [i \in DOMAIN sym.params |-> <<type_id(st, sym.params[i])>>]
  IN  <<s>> \o Counted(ids) \o <<type_id(st, sym.ret)>>

FuncRow(st, fn, f, pcs) ==
  <<Len(st.regs[fn])>> \o Counted(Ids(st, f.params)) \o <<type_id(st, f.ret)>> \o
  Counted(Ids(st, f.vars)) \o Counted([l \in DOMAIN pcs |-> <<pcs[l]>>])

TypeRow(info) ==
  <<info.kind>> \o (IF info.kind \in {"array", "cown", "ref"} THEN info.elements
                    ELSE <<Len(info.elements)>> \o info.elements)

\* The file.
Functions_(P, st) ==
  LET env == [st |-> st, memo |-> P.memo]
      Put(c, fn, code) ==
        [rows |-> Append(c.rows, FuncRow(st, fn, P.funcs[fn], code.pcs)),
         code |-> c.code \o code.code]
      Add(c, fn) == Put(c, fn, FuncCode(env, fn, P.funcs[fn], Len(c.code)))
  IN  FoldLeft(Add, [rows |-> <<>>, code |-> <<>>], st.funcs)

\* The tables, once every type has its number; funcs has the rows of the
\* functions and the code.
Tables(P, st, nprim, funcs) ==
  <<MagicNumber, CurrentVersion, Len(st.classes), nprim>> \o
  FlattenSeq([i \in 1 .. PrimitiveTypeCount |-> PrimitiveRow(P, st, i - 1)]) \o
  FlattenSeq([i \in DOMAIN st.classes |-> ClassRow(P, st, st.classes[i])]) \o
  FlattenSeq([i \in 1 .. nprim |-> PrimitiveRow(P, st, FirstComplex(st) + i - 1)]) \o
  Counted([i \in DOMAIN P.libs |-> LibraryRow(st, P.libs[i])]) \o
  Counted([i \in DOMAIN st.symbols |-> SymbolRow(P, st, st.symbols[i])]) \o
  Counted(funcs.rows) \o
  Counted([i \in DOMAIN st.types |-> TypeRow(st.types[i])]) \o
  Counted([i \in DOMAIN P.memo |-> <<IdIn(st.funcs, P.memo[i])>>]) \o
  <<Len(funcs.code)>> \o funcs.code

EmitWith(P, st) == Tables(P, st, ComplexPrimitives(P, st), Functions_(P, st))
Emit(P, ids)    == EmitWith(P, InternAll(ids, TypesMet(P, ids)))
=============================================================================
