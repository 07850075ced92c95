-------------------------------- MODULE VIRIds --------------------------------
(***************************************************************************)
(* The tables a compilation keeps: the number of every function, class,    *)
(* field, method, symbol, type and register, and the two passes that fill  *)
(* them in and refuse a program whose names do not resolve.                *)
(***************************************************************************)
EXTENDS VIR

PrimitiveTypes == <<"none", "bool", "i8", "i16", "i32", "i64", "u8", "u16", "u32", "u64",
                    "ilong", "ulong", "isize", "usize", "f32", "f64", "ptr">>
PrimitiveTypeCount == Len(PrimitiveTypes)
DynamicTypeId      == 4095           \* all bits of an id

MainFunctionId    == 0
FinalizerMethodId == 0
CallbackMethodId  == 1

\* Numbers count from zero; -1 when the table does not have the name.
IdIn(table, name) == SelectInSeq(table, LAMBDA x : x = name) - 1
AddTo(table, name) == IF IdIn(table, name) = -1 THEN Append(table, name) ELSE table
RECURSIVE AddAll(_, _)
AddAll(table, names) ==
  IF Len(table) < 0 \/ names = <<>> THEN table
  ELSE AddAll(AddTo(table, Head(names)), Tail(names))

val(p) == IdIn(PrimitiveTypes, p)

-----------------------------------------------------------------------------
(* Types. Primitives and classes have fixed numbers; the others are        *)
(* numbered as they are met, each one once, its parts before it.           *)

Info(kind, elements) == [kind |-> kind, elements |-> elements]

FirstComplex(st) == PrimitiveTypeCount + Len(st.classes)

RECURSIVE type_id(_, _)
InfoOf(st, t) ==
  LET a == CHOOSE b \in t : TRUE IN
  CASE Cardinality(t) # 1 -> Info("union", Ascending({type_id(st, {b}) : b \in t}))
    [] Cardinality(t) = 1 /\ IsTuple(a) ->
         Info("tuple", [i \in DOMAIN a[2] |-> type_id(st, a[2][i])])
    [] OTHER -> Info(a[1], <<type_id(st, a[2])>>)
type_id(st, t) ==
  LET a == CHOOSE b \in t : TRUE IN
  CASE Cardinality(t) = 1 /\ IsDyn(a)   -> DynamicTypeId
    [] Cardinality(t) = 1 /\ IsPrim(a)  -> val(a[1])
    [] Cardinality(t) = 1 /\ IsClass(a) -> PrimitiveTypeCount + IdIn(st.classes, a[2])
    [] OTHER                            -> FirstComplex(st) + IdIn(st.types, InfoOf(st, t))

\* The table once t has been asked for.
RECURSIVE Intern(_, _)
Intern(st, t) ==
  LET a     == CHOOSE b \in t : TRUE
      parts == IF Cardinality(t) = 1
               THEN FoldLeft(Intern, st, IF IsTuple(a) THEN a[2] ELSE <<a[2]>>)
               ELSE FoldLeft(LAMBDA s, b : Intern(s, {b}), st, SetToSeq(t))
  IN  IF Cardinality(t) = 1 /\ ~IsInvariant(a) /\ ~IsTuple(a) THEN st
      ELSE [st EXCEPT !.types = AddTo(parts.types, InfoOf(parts, t))]

InternAll(st, ts) == FoldLeft(Intern, st, ts)

\* What the runtime itself refers to: a cown of none, strings, the argument
\* vector, references of unknown type, offsets, the layout of a C struct.
ReservedTypes(base) ==
  <<Info("cown", <<val("none")>>), Info("array", <<val("u8")>>), Info("array", <<base + 1>>),
    Info("ref", <<DynamicTypeId>>), Info("array", <<val("usize")>>),
    Info("tuple", <<val("usize"), base + 4, base + 1>>)>>

-----------------------------------------------------------------------------
(* assign_ids: every definition gets its number.                           *)

Dsts(f) == FlattenSeq([l \in LabelsOf(f) |->
             LET d == SelectSeq(f.labels[l].body, Defines) IN [i \in DOMAIN d |-> d[i].dst]])

RegistersOf(f) ==
  AddAll(<<>>, [i \in DOMAIN f.params |-> f.params[i].reg] \o
               [i \in DOMAIN f.vars |-> f.vars[i].reg] \o Dsts(f))

Classes(P) == SetToSeq(DOMAIN P.classes)
IsComplex(prim) == ~IsPrim(prim.type)

MethodTables(P) ==
  [i \in DOMAIN P.prims |-> P.prims[i].methods] \o
  [i \in DOMAIN Classes(P) |-> P.classes[Classes(P)[i]].methods]

\* Mutant: the types the runtime refers to are numbered as if there were no
\* classes.
ComplexBaseEarly(P) == PrimitiveTypeCount

ComplexBase(P) == PrimitiveTypeCount + Cardinality(DOMAIN P.classes)

MainOk(P) ==
  /\ "main" \in DOMAIN P.funcs
  /\ P.funcs["main"].params = <<>> /\ P.funcs["main"].ret = Prim("none")
FuncsOk(P) ==
  \A f \in Range(P.funcs) : f.labels # <<>> /\ Cardinality(ParamsOf(f)) = Len(f.params)
PrimitivesOk(P) ==
  LET simple == SelectSeq(P.prims, LAMBDA p : ~IsComplex(p)) IN
  \A i, j \in DOMAIN simple : i # j => simple[i].type # simple[j].type
MethodsOk(P) == \A t \in ToSet(MethodTables(P)) : Range(t) \subseteq DOMAIN P.funcs

FunctionIds(P) == AddAll(<<"main">>, P.order)
FieldIds(P) ==
  AddAll(<<>>, FlattenSeq([i \in DOMAIN Classes(P) |->
    LET fs == P.classes[Classes(P)[i]].fields IN [k \in DOMAIN fs |-> fs[k].name]]))
MethodIds(P) ==
  AddAll(<<"@final", "@callback">>,
         FlattenSeq([i \in DOMAIN MethodTables(P) |-> SetToSeq(DOMAIN MethodTables(P)[i])]))
SymbolIds(P) == SetToSeq(DOMAIN P.symbols)

AssignIds(P) ==
  [ok |-> MainOk(P) /\ FuncsOk(P) /\ PrimitivesOk(P) /\ MethodsOk(P),
   st |-> [funcs   |-> FunctionIds(P),
           classes |-> Classes(P),
           fields  |-> FieldIds(P),
           methods |-> MethodIds(P),
           symbols |-> SymbolIds(P),
           regs    |-> [f \in DOMAIN P.funcs |-> RegistersOf(P.funcs[f])],
           types   |-> ReservedTypes(ComplexBase(P))]]

-----------------------------------------------------------------------------
(* validate_ids: every use has a definition, and a call as many arguments  *)
(* as its target has parameters.                                           *)

NamesResolve(P, st, s) ==
  /\ s.op \in {"call", "tailcall"} => s.name \in DOMAIN P.funcs
  /\ s.op \in {"new", "singleton"} => s.name \in DOMAIN P.classes
  /\ s.op = "ffi"      => s.name \in DOMAIN P.symbols
  /\ s.op = "lookup"   => s.name \in ToSet(st.methods)
  /\ s.op = "field"    => s.name \in ToSet(st.fields)

LocalsResolve(P, st, fn, s) ==
  /\ ToSet(s.to) \subseteq LabelsOf(P.funcs[fn])
  /\ Names(s) \subseteq ToSet(st.regs[fn])

CountsMatch(P, s) ==
  /\ s.op = "call" => Len(s.args) = Len(P.funcs[s.name].params)
  /\ s.op = "new"  => Len(s.args) = Len(P.classes[s.name].fields)
  /\ s.op = "ffi"  => Len(s.args) = Len(P.symbols[s.name].params)

FinalizersOk(P) ==
  \A t \in ToSet(MethodTables(P)) :
     "@final" \in DOMAIN t => Len(P.funcs[t["@final"]].params) = 1

\* Complex primitives are numbered here, the classes being known.
ValidateIds(P, st) ==
  LET complex == SelectSeq(P.prims, IsComplex) IN
  [ok |-> /\ \A fn \in DOMAIN P.funcs : \A b \in ToSet(P.funcs[fn].labels) :
                \A s \in ToSet(Append(b.body, b.term)) :
                   NamesResolve(P, st, s) /\ LocalsResolve(P, st, fn, s) /\ CountsMatch(P, s)
          /\ \A i, j \in DOMAIN complex : i # j => complex[i].type # complex[j].type
          /\ FinalizersOk(P),
   st |-> InternAll(st, [i \in DOMAIN complex |-> {complex[i].type}])]
=============================================================================
