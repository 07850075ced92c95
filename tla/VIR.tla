--------------------------------- MODULE VIR ---------------------------------
(***************************************************************************)
(* The intermediate representation that virc reads, checks, rewrites and   *)
(* emits: a program of functions, each a graph of labels, each label a     *)
(* sequence of statements that ends in a terminator.                       *)
(* Names that the compiler keeps in symbol tables are numbers here where   *)
(* it makes new ones (registers, labels) and strings elsewhere.            *)
(***************************************************************************)
EXTENDS Integers, FiniteSets, SequencesExt

-----------------------------------------------------------------------------
(* Types. A type is the set of the members of its union; the empty union   *)
(* is the type without values.                                             *)

Prim(p)  == {<<p>>}
Class(c) == {<<"class", c>>}
RefTo(t) == {<<"ref", t>>}
ArrayType(t)  == {<<"array", t>>}
TupleType(ts) == {<<"tuple", ts>>}
Dyn      == {<<"dyn">>}
Unknown  == {<<"unknown">>}     \* the compiler's null type: nothing is known

IntegerPrims == {"u8", "i32", "i64", "u64", "usize"}
FloatPrims   == {"f64"}
NumericPrims == {"bool"} \cup IntegerPrims \cup FloatPrims
Primitives   == {"none", "ptr"} \cup NumericPrims

IsPrim(a)  == a[1] \in Primitives
IsClass(a) == a[1] = "class"
IsRef(a)   == a[1] = "ref"
IsArray(a) == a[1] = "array"
IsTuple(a) == a[1] = "tuple"
IsDyn(a)   == a[1] = "dyn"

IsInvariant(a) == IsRef(a) \/ IsArray(a)
IsSimple(a)    == ~IsInvariant(a) /\ ~IsTuple(a)

\* Every member of the left union must prove one of the right one. An axiom
\* belongs to the kind of the right side; references and arrays are invariant
\* in what they hold, tuples are not.
RECURSIVE Subtype(_, _)
Axiom(a, b) ==
  \/ IsDyn(b)
  \/ IsInvariant(b) /\ a[1] = b[1] /\ Subtype(a[2], b[2]) /\ Subtype(b[2], a[2])
  \/ /\ IsTuple(a) /\ IsTuple(b) /\ Len(a[2]) = Len(b[2])
     /\ \A i \in DOMAIN a[2] : Subtype(a[2][i], b[2][i])
  \/ IsSimple(a) /\ IsSimple(b) /\ a = b
Subtype(s, t) == \A a \in s : \E b \in t : Axiom(a, b)

SameType(s, t) == Subtype(s, t) /\ Subtype(t, s)

-----------------------------------------------------------------------------
(* Statements. An argument is copied or moved out of its register.         *)

CopyOf(r) == [reg |-> r, move |-> FALSE]
MoveOf(r) == [reg |-> r, move |-> TRUE]

Stmt == [op |-> "jump", dst |-> 0, src |-> <<>>, args |-> <<>>,
         name |-> "", num |-> 0, type |-> {}, to |-> <<>>]

Const(d, p, n)        == [Stmt EXCEPT !.op = "const", !.dst = d, !.type = Prim(p), !.num = n]
Copy(d, s)            == [Stmt EXCEPT !.op = "copy", !.dst = d, !.src = <<s>>]
Move(d, s)            == [Stmt EXCEPT !.op = "move", !.dst = d, !.src = <<s>>]
Drop(d)               == [Stmt EXCEPT !.op = "drop", !.dst = d]
RegisterRef(d, v)     == [Stmt EXCEPT !.op = "ref", !.dst = d, !.src = <<v>>]
FieldRef(d, a, f)     == [Stmt EXCEPT !.op = "field", !.dst = d, !.args = <<a>>, !.name = f]
Load(d, r)            == [Stmt EXCEPT !.op = "load", !.dst = d, !.src = <<r>>]
Store(d, r, a)        == [Stmt EXCEPT !.op = "store", !.dst = d, !.src = <<r>>, !.args = <<a>>]
NewArray(d, t, n)     == [Stmt EXCEPT !.op = "newarray", !.dst = d, !.type = t, !.src = <<n>>]
NewArrayConst(d, t, n) == [Stmt EXCEPT !.op = "newarrayconst", !.dst = d, !.type = t, !.num = n]
ArrayRef(d, a, i)     == [Stmt EXCEPT !.op = "arrayref", !.dst = d, !.args = <<a>>, !.src = <<i>>]
ArrayRefConst(d, a, n) == [Stmt EXCEPT !.op = "arrayrefconst", !.dst = d, !.args = <<a>>, !.num = n]
ArrayCopy(d, as)      == [Stmt EXCEPT !.op = "arraycopy", !.dst = d, !.args = as]
ArrayFill(d, as)      == [Stmt EXCEPT !.op = "arrayfill", !.dst = d, !.args = as]
ArrayCompare(d, as)   == [Stmt EXCEPT !.op = "arraycompare", !.dst = d, !.args = as]
Convert(d, p, s)      == [Stmt EXCEPT !.op = "convert", !.dst = d, !.type = Prim(p), !.src = <<s>>]
Singleton(d, c)       == [Stmt EXCEPT !.op = "singleton", !.dst = d, !.name = c]
MathConst(d, o)       == [Stmt EXCEPT !.op = o, !.dst = d]
New(d, c, as)         == [Stmt EXCEPT !.op = "new", !.dst = d, !.name = c, !.args = as]
Lookup(d, s, m)       == [Stmt EXCEPT !.op = "lookup", !.dst = d, !.src = <<s>>, !.name = m]
Call(d, f, as)        == [Stmt EXCEPT !.op = "call", !.dst = d, !.name = f, !.args = as]
CallDyn(d, p, as)     == [Stmt EXCEPT !.op = "calldyn", !.dst = d, !.src = <<p>>, !.args = as]
TryCallDyn(d, p, as)  == [Stmt EXCEPT !.op = "trycalldyn", !.dst = d, !.src = <<p>>, !.args = as]
FFI(d, s, as)         == [Stmt EXCEPT !.op = "ffi", !.dst = d, !.name = s, !.args = as]
MemoSlot(d, f)        == [Stmt EXCEPT !.op = "memoslot", !.dst = d, !.name = f]
Binop(o, d, l, r)     == [Stmt EXCEPT !.op = o, !.dst = d, !.src = <<l, r>>]
Unop(o, d, s)         == [Stmt EXCEPT !.op = o, !.dst = d, !.src = <<s>>]
Typetest(d, s, t)     == [Stmt EXCEPT !.op = "typetest", !.dst = d, !.src = <<s>>, !.type = t]

Return(r)             == [Stmt EXCEPT !.op = "return", !.src = <<r>>]
Jump(l)               == [Stmt EXCEPT !.op = "jump", !.to = <<l>>]
Cond(c, l, m)         == [Stmt EXCEPT !.op = "cond", !.src = <<c>>, !.to = <<l, m>>]
MoveArgs(rs)          == [i \in DOMAIN rs |-> MoveOf(rs[i])]
Tailcall(f, rs)       == [Stmt EXCEPT !.op = "tailcall", !.name = f, !.args = MoveArgs(rs)]
TailcallDyn(p, rs)    == [Stmt EXCEPT !.op = "tailcalldyn", !.src = <<p>>, !.args = MoveArgs(rs)]

Terminators == {"return", "jump", "cond", "tailcall", "tailcalldyn"}
Logical     == {"and", "or", "xor"}
Shifts      == {"shl", "shr"}
Arithmetic  == {"add", "sub", "mul", "div", "mod", "min", "max"} \cup Logical \cup Shifts
FloatBinops == {"pow", "logbase", "atan2"}
Equalities  == {"eq", "ne"}
Orderings   == {"lt", "le", "gt", "ge"}
Unops       == {"neg", "abs", "not"}
FloatUnops  == {"ceil", "floor", "exp", "log", "sqrt", "cbrt", "sin", "cos", "tan", "asin",
                "acos", "atan", "sinh", "cosh", "tanh", "asinh", "acosh", "atanh"}
FloatTests  == {"isinf", "isnan"}
MathConsts  == {"const_e", "const_pi", "const_inf", "const_nan"}
BulkOps     == {"arraycopy", "arrayfill", "arraycompare"}

Defines(s) == s.op \notin Terminators \cup {"drop"}

\* The local names of a statement, its first child apart: what the passes
\* that search for a name see.
Operands(s) == ToSet(s.src) \cup {a.reg : a \in ToSet(s.args)}
Names(s) == Operands(s) \cup (IF s.op \in Terminators THEN {} ELSE {s.dst})

-----------------------------------------------------------------------------
(* Functions and programs.                                                 *)

\* vars and params are sequences of [reg, type]; label 1 is the entry.
RegsOf(decls) == {d.reg : d \in ToSet(decls)}
VarsOf(f)     == RegsOf(f.vars)
ParamsOf(f)   == RegsOf(f.params)
LabelsOf(f)   == DOMAIN f.labels

BlockNames(b) == UNION {Names(s) : s \in ToSet(b.body)} \cup Names(b.term)
LocalsOf(f) ==
  ParamsOf(f) \cup VarsOf(f) \cup UNION {BlockNames(b) : b \in ToSet(f.labels)}

Succ(f, l) == ToSet(f.labels[l].term.to)
Pred(f, l) == {p \in LabelsOf(f) : l \in Succ(f, p)}

\* A finite set of numbers as a sequence.
RECURSIVE Ascending(_)
Ascending(S) == IF S = {} THEN <<>> ELSE <<Min(S)>> \o Ascending(S \ {Min(S)})

\* The method table of the primitive or class a member of a type belongs to.
MethodOf(table, m) == IF m \in DOMAIN table THEN table[m] ELSE ""
=============================================================================
