---------------------------- MODULE VIRTypecheck ----------------------------
(***************************************************************************)
(* The static check of virc: a forward data flow over the labels of each   *)
(* function that gives every register a type, narrows it across a type     *)
(* test, and reports what the interpreter would raise. It leaves what it   *)
(* found out about dynamic calls for the optimizer.                        *)
(***************************************************************************)
EXTENDS VIR

-----------------------------------------------------------------------------
(* Families of types. Every member of a union has to be in the family, and *)
(* dyn is in all of them.                                                  *)

Known(t) == t # Unknown

InFamily(t, tags) == t # {} /\ \A a \in t : IsDyn(a) \/ a[1] \in tags

is_numeric(t)     == InFamily(t, NumericPrims)
is_comparable(t)  == is_numeric(t) \/ t = Prim("ptr")
is_float(t)       == InFamily(t, FloatPrims)
is_object_type(t) == InFamily(t, {"class"})
is_array_type(t)  == InFamily(t, {"array", "tuple"})
is_ref_type(t)    == InFamily(t, {"ref"})

\* The members that say which family of machine values it is.
Leaves(t)  == IF Known(t) THEN {a \in t : ~IsDyn(a)} ELSE {}
Tokens(ts) == {a[1] : a \in ts}

type_subtract(t, gone) ==
  IF t = Dyn THEN Dyn ELSE {a \in t : ~SameType({a}, gone)}

type_merge(s, t) ==
  IF s = Dyn \/ t = Dyn THEN Dyn ELSE IF SameType(s, t) THEN s ELSE s \cup t

\* Method tables: a class by its name, a primitive by its whole type.
TableOf(P, a) ==
  IF IsClass(a) THEN P.classes[a[2]].methods
  ELSE LET ps == {i \in DOMAIN P.prims : P.prims[i].type = a} IN
       IF ps = {} THEN <<>> ELSE P.prims[CHOOSE i \in ps : TRUE].methods

TargetOf(P, a, m) == MethodOf(TableOf(P, a), m)

get_field_type(P, c, f) ==
  LET fs == {x \in ToSet(P.classes[c].fields) : x.name = f} IN
  IF fs = {} THEN Unknown ELSE (CHOOSE x \in fs : TRUE).type

-----------------------------------------------------------------------------
(* One statement. acc is the type of each register, what is known of each  *)
(* looked up method, and whether all was well so far.                      *)

Typed(acc, r) == acc.env[r]
Bad(acc)      == [acc EXCEPT !.ok = FALSE]
SetType(acc, s, t) == [acc EXCEPT !.env[s.dst] = t]

\* The arguments from the n-th on fit the declarations at their places.
ArgsFit(acc, args, decls, n) ==
  \A i \in n .. Min({Len(args), Len(decls)}) :
     Known(Typed(acc, args[i].reg)) => Subtype(Typed(acc, args[i].reg), decls[i].type)

CheckNew(P, acc, s) ==
  LET fields == P.classes[s.name].fields IN
  IF fields = <<>> \/ ~ArgsFit(acc, s.args, fields, 1) THEN Bad(acc)
  ELSE SetType(acc, s, Class(s.name))

CheckRegisterRef(acc, s) ==
  SetType(acc, s, RefTo(IF Known(Typed(acc, s.src[1])) THEN Typed(acc, s.src[1]) ELSE Dyn))

CheckFieldRef(P, acc, s) ==
  LET t == Typed(acc, s.args[1].reg)
      FieldType(a) == IF IsClass(a) THEN get_field_type(P, a[2], s.name) ELSE Unknown
  IN  IF Known(t) /\ ~is_object_type(t) THEN Bad(acc)
      ELSE SetType(acc, s, IF Known(t) /\ \A a \in t : Known(FieldType(a))
                           THEN UNION {RefTo(FieldType(a)) : a \in t}
                           ELSE RefTo(Dyn))

\* Nothing but its constant index tells the element of a tuple that is meant.
ElementRef(a) == RefTo(IF IsArray(a) THEN a[2] ELSE Dyn)

CheckArrayRef(acc, s) ==
  LET t      == Typed(acc, s.args[1].reg)
      tuples == {a \in t : IsTuple(a)}
      chosen == s.op = "arrayrefconst" /\ Cardinality(t) = 1 /\ tuples # {}
      fields == (CHOOSE a \in t : TRUE)[2]
  IN  IF Known(t) /\ ~is_array_type(t) THEN Bad(acc)
      ELSE IF chosen
      THEN IF s.num < Len(fields) THEN SetType(acc, s, RefTo(fields[s.num + 1])) ELSE Bad(acc)
      ELSE SetType(acc, s, IF Known(t) /\ \A a \in t : IsArray(a) \/ IsTuple(a)
                           THEN UNION {ElementRef(a) : a \in t} ELSE RefTo(Dyn))

CheckConvert(acc, s) ==
  LET t == Typed(acc, s.src[1]) IN
  IF Known(t) /\ ~is_numeric(t) /\ t \notin {Prim("ptr"), Prim("none")} THEN Bad(acc)
  ELSE SetType(acc, s, s.type)

CheckSingleton(P, acc, s) ==
  IF P.classes[s.name].fields # <<>> THEN Bad(acc) ELSE SetType(acc, s, Class(s.name))

Content(t) ==
  IF Known(t) /\ t # {} /\ \A a \in t : IsRef(a) THEN UNION {a[2] : a \in t} ELSE Dyn

CheckLoad(acc, s) ==
  LET t == Typed(acc, s.src[1]) IN
  IF Known(t) /\ ~is_ref_type(t) THEN Bad(acc) ELSE SetType(acc, s, Content(t))

CheckStore(acc, s) ==
  LET ref == Typed(acc, s.src[1])  val == Typed(acc, s.args[1].reg) IN
  IF Known(val) /\ \E a \in Leaves(ref) : IsRef(a) /\ ~Subtype(val, a[2]) THEN Bad(acc)
  ELSE SetType(acc, s, Content(ref))

CheckLookup(P, acc, s) ==
  LET t == Typed(acc, s.src[1]) IN
  IF Known(t) /\ t # Dyn /\ \E a \in t : TargetOf(P, a, s.name) = "" THEN Bad(acc)
  ELSE SetType([acc EXCEPT !.look[s.dst] = [type |-> t, method |-> s.name, known |-> TRUE]],
               s, Dyn)

CheckCall(P, acc, s) ==
  IF ~ArgsFit(acc, s.args, P.funcs[s.name].params, 1) THEN Bad(acc)
  ELSE SetType(acc, s, P.funcs[s.name].ret)

\* A union checks each target it may reach, the receiver apart.
CheckCallDyn(P, acc, s) ==
  LET info    == acc.look[s.src[1]]
      targets == {TargetOf(P, a, info.method) : a \in Leaves(info.type)} \ {""}
      union   == Cardinality(info.type) # 1
  IN  IF ~info.known \/ targets = {} THEN SetType(acc, s, Dyn)
      ELSE IF \E f \in targets :
                 ~ArgsFit(acc, s.args, P.funcs[f].params, IF union THEN 2 ELSE 1)
      THEN Bad(acc)
      ELSE SetType(acc, s, UNION {P.funcs[f].ret : f \in targets})

\* What is known of the operands; when both are, all their members have to be
\* of one machine type.
OperandTypes(acc, s) == {Typed(acc, s.src[i]) : i \in 1 .. 2} \ {Unknown}
OperandsAgree(acc, s) ==
  LET l == Typed(acc, s.src[1])  r == Typed(acc, s.src[2]) IN
  Known(l) /\ Known(r) => Cardinality(Tokens(Leaves(l) \cup Leaves(r))) <= 1

CheckArithmetic(acc, s) ==
  LET l == Leaves(Typed(acc, s.src[1]))  r == Leaves(Typed(acc, s.src[2])) IN
  IF ~(OperandsAgree(acc, s) /\ \A t \in OperandTypes(acc, s) : is_numeric(t)) THEN Bad(acc)
  ELSE SetType(acc, s, CASE l # {} -> l [] l = {} /\ r # {} -> r [] OTHER -> Dyn)

CheckEquality(acc, s) ==
  IF OperandsAgree(acc, s) /\ \A t \in OperandTypes(acc, s) : is_comparable(t)
  THEN SetType(acc, s, Prim("bool")) ELSE Bad(acc)

CheckOrdering(acc, s) ==
  IF OperandsAgree(acc, s) /\ \A t \in OperandTypes(acc, s) : is_numeric(t)
  THEN SetType(acc, s, Prim("bool")) ELSE Bad(acc)

CheckUnop(acc, s) ==
  LET t == Typed(acc, s.src[1]) IN
  IF Known(t) /\ ~is_numeric(t) THEN Bad(acc)
  ELSE SetType(acc, s, IF Cardinality(Tokens(Leaves(t))) = 1 THEN Leaves(t) ELSE Dyn)

\* The operators that are there for floats alone.
CheckFloatBinop(acc, s) ==
  LET l == Leaves(Typed(acc, s.src[1]))  r == Leaves(Typed(acc, s.src[2])) IN
  IF ~(OperandsAgree(acc, s) /\ \A t \in OperandTypes(acc, s) : is_float(t)) THEN Bad(acc)
  ELSE SetType(acc, s, CASE l # {} -> l [] l = {} /\ r # {} -> r [] OTHER -> Dyn)

CheckFloatUnop(acc, s) ==
  LET t == Typed(acc, s.src[1]) IN
  IF Known(t) /\ ~is_float(t) THEN Bad(acc)
  ELSE SetType(acc, s, IF s.op \in FloatTests THEN Prim("bool")
                       ELSE IF Cardinality(Tokens(Leaves(t))) = 1 THEN Leaves(t) ELSE Dyn)

CheckBits(acc, s) ==
  LET t == Typed(acc, s.src[1]) IN
  IF Known(t) /\ ~is_numeric(t) THEN Bad(acc) ELSE SetType(acc, s, Prim("u64"))

CheckLen(acc, s) ==
  LET t == Typed(acc, s.src[1]) IN
  IF Known(t) /\ ~is_array_type(t) THEN Bad(acc) ELSE SetType(acc, s, Prim("usize"))

CheckRead(acc, s) ==
  LET t == Typed(acc, s.src[1]) IN
  IF Known(t) /\ ~InFamily(t, {"cown"}) /\ t # Prim("ptr") THEN Bad(acc)
  ELSE SetType(acc, s, IF Known(t) THEN t ELSE Dyn)

CheckReturn(acc, s, f) ==
  LET t == Typed(acc, s.src[1]) IN
  IF Known(t) /\ ~Subtype(t, f.ret) THEN Bad(acc) ELSE acc

CheckCond(acc, s) ==
  IF Typed(acc, s.src[1]) \in {Unknown, Dyn, Prim("bool")} THEN acc ELSE Bad(acc)

process_node(P, f, acc, s) ==
  CASE s.op = "const"    -> SetType(acc, s, s.type)
    [] s.op \in {"copy", "move"} ->
         SetType(acc, s, IF Known(Typed(acc, s.src[1])) THEN Typed(acc, s.src[1]) ELSE Dyn)
    [] s.op = "convert"  -> CheckConvert(acc, s)
    [] s.op = "new"      -> CheckNew(P, acc, s)
    [] s.op = "singleton" -> CheckSingleton(P, acc, s)
    [] s.op \in {"newarray", "newarrayconst"} -> SetType(acc, s, s.type)
    [] s.op \in {"arrayref", "arrayrefconst"} -> CheckArrayRef(acc, s)
    [] s.op \in {"arraycopy", "arrayfill"} -> SetType(acc, s, Prim("none"))
    [] s.op = "arraycompare" -> SetType(acc, s, Prim("i64"))
    [] s.op = "ref"      -> CheckRegisterRef(acc, s)
    [] s.op = "field"    -> CheckFieldRef(P, acc, s)
    [] s.op = "load"     -> CheckLoad(acc, s)
    [] s.op = "store"    -> CheckStore(acc, s)
    [] s.op = "lookup"   -> CheckLookup(P, acc, s)
    [] s.op = "call"     -> CheckCall(P, acc, s)
    [] s.op = "memoslot" -> SetType(acc, s, P.funcs[s.name].ret)
    [] s.op \in {"calldyn", "trycalldyn"} -> CheckCallDyn(P, acc, s)
    [] s.op = "ffi"      -> SetType(acc, s, P.symbols[s.name].ret)
    [] s.op = "typetest" -> SetType(acc, s, Prim("bool"))
    [] s.op \in Arithmetic -> CheckArithmetic(acc, s)
    [] s.op \in Equalities -> CheckEquality(acc, s)
    [] s.op \in Orderings -> CheckOrdering(acc, s)
    [] s.op \in Unops    -> CheckUnop(acc, s)
    [] s.op \in FloatBinops -> CheckFloatBinop(acc, s)
    [] s.op \in FloatUnops \cup FloatTests -> CheckFloatUnop(acc, s)
    [] s.op \in MathConsts -> SetType(acc, s, Prim("f64"))
    [] s.op = "bits"     -> CheckBits(acc, s)
    [] s.op = "len"      -> CheckLen(acc, s)
    [] s.op = "makeptr"  -> SetType(acc, s, Prim("ptr"))
    [] s.op = "read"     -> CheckRead(acc, s)
    [] s.op = "return"   -> CheckReturn(acc, s, f)
    [] s.op = "cond"     -> CheckCond(acc, s)
    [] OTHER             -> acc              \* drop, jump, tail calls

-----------------------------------------------------------------------------
(* A label that ends in a type test sends different types to its two       *)
(* branches.                                                               *)

\* [test, negated]; test is the terminator itself when there is no type test.
TestOf(b) ==
  LET n == Len(b.body)  c == b.term IN
  IF c.op # "cond" \/ n = 0 THEN [test |-> c, negated |-> FALSE]
  ELSE IF b.body[n].op = "typetest" /\ b.body[n].dst = c.src[1]
  THEN [test |-> b.body[n], negated |-> FALSE]
  ELSE IF /\ n > 1 /\ b.body[n].op = "not" /\ b.body[n].dst = c.src[1]
          /\ b.body[n-1].op = "typetest" /\ b.body[n-1].dst = b.body[n].src[1]
  THEN [test |-> b.body[n-1], negated |-> TRUE]
  ELSE [test |-> c, negated |-> FALSE]

HasTest(b)      == TestOf(b).test.op = "typetest"
NarrowTarget(b) == b.term.to[IF TestOf(b).negated THEN 2 ELSE 1]
OtherTarget(b)  == b.term.to[IF TestOf(b).negated THEN 1 ELSE 2]

\* Where a value of the empty type would have to go.
Unreachable(f) ==
  {NarrowTarget(b) : b \in {c \in ToSet(f.labels) : HasTest(c) /\ TestOf(c).test.type = {}}}

\* Mutant: the branches of a negated test are taken for those of the test.
OnEdgeSwapped(b, env, l) ==
  LET r == TestOf(b).test.src[1]  t == TestOf(b).test.type IN
  IF ~HasTest(b) THEN env
  ELSE IF l = b.term.to[2] THEN [env EXCEPT ![r] = IF Known(@) THEN type_subtract(@, t) ELSE @]
  ELSE [env EXCEPT ![r] = t]

\* What a predecessor's environment becomes on the edge to label l.
OnEdge(b, env, l) ==
  LET r == TestOf(b).test.src[1]  t == TestOf(b).test.type IN
  CASE HasTest(b) /\ l = OtherTarget(b) ->
         [env EXCEPT ![r] = IF Known(@) THEN type_subtract(@, t) ELSE @]
    [] HasTest(b) /\ l # OtherTarget(b) -> [env EXCEPT ![r] = t]
    [] OTHER -> env

MergeEnv(e, g) ==
  [r \in DOMAIN e |-> IF e[r] = Unknown THEN g[r]
                      ELSE IF g[r] = Unknown THEN e[r] ELSE type_merge(e[r], g[r])]

-----------------------------------------------------------------------------
(* The work list over the labels of a function, and the final pass that    *)
(* reports.                                                                *)

NothingKnown(f) == [r \in LocalsOf(f) |-> Unknown]

InitialEnv(f) ==
  LET decls == ToSet(f.params \o f.vars) IN
  [r \in LocalsOf(f) |->
     IF r \in RegsOf(f.params \o f.vars) THEN (CHOOSE d \in decls : d.reg = r).type
     ELSE Unknown]

EntryEnv(f, exits, seen, l) ==
  FoldLeft(LAMBDA e, p : IF p \in seen THEN MergeEnv(e, OnEdge(f.labels[p], exits[p], l)) ELSE e,
           IF l = 1 THEN InitialEnv(f) ELSE NothingKnown(f),
           SetToSortSeq(Pred(f, l), <))

\* What is known is asked for before the next statement is taken: TLC then
\* has it at hand, however long the label is.
RECURSIVE RunStatements(_, _, _, _)
RunStatements(P, f, acc, stmts) ==
  IF acc.ok \in BOOLEAN /\ stmts # <<>>
  THEN RunStatements(P, f, process_node(P, f, acc, Head(stmts)), Tail(stmts)) ELSE acc

RunLabel(P, f, acc, l) ==
  IF l \in Unreachable(f) THEN acc
  ELSE RunStatements(P, f, acc, Append(f.labels[l].body, f.labels[l].term))

\* w has the environments on exit, the labels seen, what is known of
\* lookups, and the work list.
Leaving(f, w, acc) ==
  LET l == Head(w.wl)  rest == Tail(w.wl) IN
  [exits |-> [w.exits EXCEPT ![l] = acc.env], seen |-> w.seen \cup {l}, look |-> acc.look,
   wl |-> IF acc.env = w.exits[l] THEN rest
          ELSE rest \o Ascending(Succ(f, l) \ ToSet(rest))]

RECURSIVE Solve(_, _, _, _)
Solve(P, f, w, fuel) ==
  IF w.wl = <<>> \/ fuel = 0 THEN w
  ELSE LET entry == [env |-> EntryEnv(f, w.exits, w.seen, Head(w.wl)),
                     look |-> w.look, ok |-> TRUE]
       IN  Solve(P, f, Leaving(f, w, RunLabel(P, f, entry, Head(w.wl))), fuel - 1)

NoLookup == [type |-> {}, method |-> "", known |-> FALSE]

\* [ok, look] for one function.
Report(P, f, solved) ==
  FoldLeftDomain(
    LAMBDA acc, l : RunLabel(P, f, [acc EXCEPT !.env = EntryEnv(f, solved.exits, LabelsOf(f), l)], l),
    [env |-> NothingKnown(f), look |-> solved.look, ok |-> TRUE], f.labels)

TypecheckFunc(P, f) ==
  Report(P, f, Solve(P, f, [exits |-> [l \in LabelsOf(f) |-> NothingKnown(f)], seen |-> {},
                            look |-> [r \in LocalsOf(f) |-> NoLookup],
                            wl |-> [l \in LabelsOf(f) |-> l]],
                     10 * Len(f.labels)))
=============================================================================
