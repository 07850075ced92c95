------------------------------- MODULE MCCompile -------------------------------
(* Families of small programs for Compile. *)
EXTENDS SourcePrograms

\* Registers: two variables, the input, and the temporaries of each slot.
A == 1
B == 2
In == 10
Temp(slot, k) == 10 * slot + k

U8  == Prim("u8")
Decl(r, t) == [reg |-> r, type |-> t]
Block(body, term) == [body |-> body, term |-> term]
Func1(params, ret, locals, body, r) ==
  [once |-> FALSE, params |-> params, ret |-> ret, vars |-> locals,
   labels |-> <<Block(body, Return(r))>>]

Outside ==
  [print |-> [params |-> <<Dyn>>, ret |-> Prim("none")],
   input |-> [params |-> <<>>, ret |-> Prim("bool")]]

Show(r, t) == <<FFI(t, "print", <<CopyOf(r)>>)>>

-----------------------------------------------------------------------------
(* Control flow: statements over two variables, at the entry, in a branch  *)
(* and where the branches meet again.                                      *)

Flow_(slot) ==
  LET t == Temp(slot, 1)  u == Temp(slot, 2) IN
  [skip     |-> <<>>,
   assign   |-> <<Copy(A, B)>>,
   constant |-> <<Const(A, "u8", 3)>>,
   through  |-> <<Copy(t, A), Copy(B, t)>>,
   swap     |-> <<Copy(t, B), Copy(B, A), Copy(u, A), Copy(A, t)>>,      \* a = b = a
   call     |-> <<Call(t, "first", <<CopyOf(B), CopyOf(A)>>), Copy(A, t)>>,
   tail     |-> <<Call(t, "twice", <<CopyOf(A)>>), Copy(A, t)>>,
   direct   |-> <<Call(A, "next", <<CopyOf(A)>>)>>,
   refload  |-> <<RegisterRef(t, A), Load(u, t), Binop("add", t + 2, A, u), Copy(B, t + 2)>>,
   refstore |-> <<RegisterRef(t, A), Store(u, t, CopyOf(B)),
                 Binop("add", t + 2, A, u), Copy(B, t + 2)>>,
   escape   |-> <<Call(t, "leak", <<>>), Load(u, t), Copy(B, u)>>,
   lost     |-> <<Copy(t, A), Drop(t)>>,
   add      |-> <<Binop("add", t, A, B), Copy(A, t)>>]

Start == <<FFI(In, "input", <<>>), Const(A, "u8", 1), Const(B, "u8", 2)>>
Finish_ == Show(A, 91) \o Show(B, 92) \o <<Const(93, "none", 0)>>

MainOf(labels) ==
  [once |-> FALSE, params |-> <<>>, ret |-> Prim("none"),
   vars |-> <<Decl(A, U8), Decl(B, U8)>>, labels |-> labels]

Diamond(s1, s2, s3) ==
  MainOf(<<Block(Start \o Flow_(2)[s1], Cond(In, 2, 3)),
           Block(Flow_(3)[s2], Jump(4)),
           Block(<<>>, Jump(4)),
           Block(Flow_(4)[s3] \o Finish_, Return(93))>>)

\* A loop that goes round twice; its counter is an i32.
K == 3
Loop(s1, s2, s3) ==
  [MainOf(<<Block(Start \o <<Const(K, "i32", 0), Const(14, "i32", 2)>> \o Flow_(2)[s1], Jump(2)),
            Block(<<Binop("lt", 15, K, 14)>>, Cond(15, 3, 4)),
            Block(Flow_(3)[s2] \o <<Const(16, "i32", 1), Binop("add", K, K, 16)>>, Jump(2)),
            Block(Flow_(4)[s3] \o Finish_, Return(93))>>)
   EXCEPT !.vars = Append(@, Decl(K, Prim("i32")))]

\* Operators: the result goes to a function that takes what the check says it
\* is. A comparison of bytes gives a byte, which the check takes for a bool.
\* Left out is what the check allows and the machine refuses: arithmetic on
\* bool, logic on floats, and what gives an int for a byte.
Compared == {"i32", "usize", "f64"}
OpCases ==
  {<<"op", op, t, t>> : op \in Arithmetic, t \in {"u8", "i32", "usize"}} \cup
  {<<"op", op, "f64", "f64">> : op \in FloatBinops \cup (Arithmetic \ (Logical \cup Shifts))} \cup
  {<<"op", op, t, t>> : op \in Equalities, t \in {"u8", "bool"} \cup Compared} \cup
  {<<"op", op, t, t>> : op \in Orderings, t \in Compared} \cup
  {<<"op", op, "f64", "f64">> : op \in {"neg", "abs"} \cup FloatUnops \cup FloatTests} \cup
  {<<"op", op, "bool", "bool">> : op \in Logical \cup {"not"}} \cup
  {<<"op", op, "i32", "i32">> : op \in Unops \cup {"bits", "makeptr"}} \cup
  {<<"op", op, "usize", "usize">> : op \in {"neg", "not", "bits"}} \cup
  {<<"op", "bits", "f64", "f64">>, <<"op", "makeptr", "none", "none">>,
   <<"op", "add", "u8", "i32">>, <<"op", "lt", "i32", "u8">>, <<"op", "pow", "i32", "i32">>,
   <<"op", "sqrt", "i32", "i32">>, <<"op", "read", "i32", "i32">>, <<"op", "len", "i32", "i32">>}

OneOperand == Unops \cup FloatUnops \cup FloatTests \cup {"bits", "makeptr", "read", "len"}
ResultOf(op, t) ==
  CASE op \in Equalities \cup Orderings \cup FloatTests -> "bool"
    [] op = "bits"    -> "u64"
    [] op = "makeptr" -> "ptr"
    [] op = "len"     -> "usize"
    [] OTHER          -> t

Straight(body) == MainOf(<<Block(body \o <<Const(93, "none", 0)>>, Return(93))>>)
Checked(r, t)  == <<Call(24, "to_" \o t, <<CopyOf(r)>>)>> \o Show(24, 25)

Operation(op, t1, t2) ==
  Straight(<<Const(21, t1, 1), Const(22, t2, IF t2 = "bool" THEN 1 ELSE 3),
             IF op \in OneOperand THEN Unop(op, 23, 21) ELSE Binop(op, 23, 21, 22)>>
           \o Checked(23, ResultOf(op, t1)))

Convertible == {"none", "bool", "u8", "i32", "u64", "f64"}
ConvertCases ==
  {<<"convert", t1, t2, n>> : t1 \in Convertible, t2 \in Convertible, n \in {1, 3}} \cup
  {<<"convert", "i32", t2, -1>> : t2 \in Convertible} \cup
  {<<"convert", "C", "u8", 1>>}

Conversion(t1, t2, n) ==
  Straight((IF t1 = "C" THEN <<Const(20, "u8", 1), New(21, "C", <<CopyOf(20)>>)>>
            ELSE <<Const(21, t1, IF t1 = "bool" THEN 1 ELSE n)>>)
           \o <<Convert(23, t2, 21)>> \o Checked(23, t2))

\* Constants and pointers.
ConstCases == {<<"math", o, test>> : o \in MathConsts, test \in FloatTests \cup {"makeptr"}}
MathMain(o, test) ==
  Straight(<<MathConst(21, o), Unop(test, 22, 21)>> \o
           (IF test = "makeptr" THEN <<Unop("read", 23, 22)>> \o Checked(23, "ptr")
            ELSE Checked(22, "bool")) \o Checked(21, "f64"))

\* Programs with one thing wrong.
Broken(what) ==
  LET one(body) == MainOf(<<Block(Start \o body \o Finish_, Return(93))>>) IN
  CASE what = "parameter" -> [one(<<>>) EXCEPT !.params = <<Decl(5, U8)>>]
    [] what = "missing"   -> one(<<Call(21, "nobody", <<>>)>>)
    [] what = "arity"     -> one(<<Call(21, "first", <<CopyOf(A)>>)>>)
    [] what = "undefined" -> one(Show(60, 61))
    [] what = "redefined" -> one(<<Const(21, "u8", 1), Const(21, "u8", 2)>>)
    [] what = "moved"     -> one(<<Const(21, "u8", 1), Move(A, 21)>> \o Show(21, 22))
    [] what = "one_path"  ->
         MainOf(<<Block(Start, Cond(In, 2, 3)), Block(<<Const(21, "u8", 1)>>, Jump(3)),
                  Block(Show(21, 22) \o Finish_, Return(93))>>)
    [] what = "one_move"  ->
         MainOf(<<Block(Start \o <<Const(21, "u8", 1)>>, Cond(In, 2, 3)),
                  Block(<<Move(A, 21)>>, Jump(3)),
                  Block(Show(21, 22) \o Finish_, Return(93))>>)

Helpers ==
  [first |-> Func1(<<Decl(1, U8), Decl(2, U8)>>, U8, <<>>, <<Copy(11, 1)>>, 11),
   next  |-> Func1(<<Decl(1, U8)>>, U8, <<>>,
                   <<Const(11, "u8", 1), Binop("add", 12, 1, 11)>>, 12),
   twice |-> [Func1(<<Decl(1, U8)>>, U8, <<>>, <<Call(11, "next", <<CopyOf(1)>>)>>, 11)
                EXCEPT !.labels[1].term = Tailcall("next", <<11>>)],
   leak  |-> [once |-> FALSE, params |-> <<>>, ret |-> RefTo(U8), vars |-> <<Decl(1, U8)>>,
              labels |-> <<Block(<<Const(1, "u8", 1), RegisterRef(11, 1)>>, Jump(2)),
                           Block(<<>>, Return(11))>>]]

Takes(t) == Func1(<<Decl(1, t)>>, t, <<>>, <<>>, 1)
Takers == {"none", "bool", "u8", "i32", "u64", "usize", "f64", "ptr"}
TakerName(t) == "to_" \o t

ProgramOf(main) ==
  [funcs |-> Helpers @@ [n \in {TakerName(t) : t \in Takers} |->
                           Takes(Prim(CHOOSE t \in Takers : TakerName(t) = n))] @@ [main |-> main],
   order |-> <<"first", "next", "main", "twice", "leak", "to_u8", "to_i32", "to_bool", "to_none",
               "to_u64", "to_usize", "to_f64", "to_ptr">>,
   classes |-> [C |-> [fields |-> <<[name |-> "f", type |-> U8]>>, methods |-> <<>>]],
   prims |-> <<>>, symbols |-> Outside, libs |-> <<>>, memo |-> <<>>]

\* A reference to a register that is not a variable, in a function after one
\* whose variable has the same number: the last pass takes it for one,
\* and the function fails when it is called.
Late ==
  [ProgramOf(Straight(<<>>)) EXCEPT
     !.funcs = @ @@ [late |-> [once |-> FALSE, params |-> <<>>, ret |-> U8, vars |-> <<>>,
                               labels |-> <<Block(<<Const(11, "u8", 3), RegisterRef(12, 11)>>, Jump(2)),
                                            Block(<<Load(13, 12)>>, Return(13))>>]],
     !.order = @ \o <<"late">>]

FlowStmts == DOMAIN Flow_(2)

-----------------------------------------------------------------------------
(* Types: a variable of a union gets one value or another, is tested, and  *)
(* is used on both sides of the test.                                      *)

C == Class("C")
D == Class("D")
X == 1       \* the union
Y == 2       \* a C

Value(kind, slot) ==
  LET t == Temp(slot, 1)  v == Temp(slot, 2) IN
  CASE kind = "u8"   -> <<Const(X, "u8", 3)>>
    [] kind = "none" -> <<Const(X, "none", 0)>>
    [] kind = "C"    -> <<Const(t, "u8", 1), New(v, "C", <<CopyOf(t)>>), Copy(X, v)>>
    [] kind = "D"    -> <<Const(t, "none", 0), New(v, "D", <<CopyOf(t)>>), Copy(X, v)>>

Uses(slot) ==
  LET t == Temp(slot, 1)  u == Temp(slot, 2)  v == Temp(slot, 3) IN
  [add    |-> <<Binop("add", t, X, X)>> \o Show(t, u),
   field  |-> <<FieldRef(t, CopyOf(X), "f"), Load(u, t)>> \o Show(u, v),
   put    |-> <<FieldRef(t, CopyOf(X), "f"), Const(u, "u8", 2), Store(v, t, CopyOf(u))>>
              \o Show(v, t + 4),
   method |-> <<Lookup(t, X, "m"), CallDyn(u, t, <<CopyOf(X)>>)>> \o Show(u, v),
   try    |-> <<Lookup(t, X, "m"), TryCallDyn(u, t, <<CopyOf(X)>>)>> \o Show(u, v),
   either |-> <<Call(t, "viaM", <<CopyOf(X)>>)>> \o Show(t, v),
   pass   |-> <<Call(t, "getC", <<CopyOf(X)>>)>> \o Show(t, v),
   keep   |-> <<Copy(Y, X)>>,
   write  |-> <<RegisterRef(t, X), Const(u, "u8", 1), Store(v, t, CopyOf(u))>> \o Show(X, t + 4)]

TypedMain(k1, k2, test, negated, u1, u2) ==
  LET on(l, m) == IF negated THEN Cond(42, m, l) ELSE Cond(41, l, m) IN
  [once |-> FALSE, params |-> <<>>, ret |-> Prim("none"),
   vars |-> <<Decl(X, U8 \cup Prim("none") \cup C \cup D), Decl(Y, C)>>,
   labels |->
     <<Block(<<FFI(In, "input", <<>>)>>, Cond(In, 2, 3)),
       Block(Value(k1, 2), Jump(4)),
       Block(Value(k2, 3), Jump(4)),
       Block(<<Typetest(41, X, test)>> \o
             (IF negated THEN <<Unop("not", 42, 41)>> ELSE <<>>), on(5, 6)),
       Block(Uses(5)[u1], Jump(7)),
       Block(Uses(6)[u2], Jump(7)),
       Block(Show(X, 91) \o <<Const(93, "none", 0)>>, Return(93))>>]

GetF(self, ret) ==
  Func1(<<Decl(1, self)>>, ret, <<>>, <<FieldRef(11, CopyOf(1), "f"), Load(12, 11)>>, 12)

TypedProgram(main) ==
  [funcs |-> [main |-> main, getC |-> GetF(C, U8), getD |-> GetF(D, Prim("none")),
              viaM |-> [Func1(<<Decl(1, C \cup D)>>, U8 \cup Prim("none"), <<>>,
                              <<Lookup(11, 1, "m")>>, 11)
                          EXCEPT !.labels[1].term = TailcallDyn(11, <<1>>)],
              same |-> Func1(<<Decl(1, U8)>>, U8, <<>>, <<>>, 1)],
   order |-> <<"main", "getC", "getD", "viaM", "same">>,
   classes |-> [C |-> [fields |-> <<[name |-> "f", type |-> U8]>>, methods |-> [m |-> "getC"]],
                D |-> [fields |-> <<[name |-> "f", type |-> Prim("none")]>>,
                       methods |-> [m |-> "getD"]]],
   prims |-> <<[type |-> <<"u8">>, methods |-> [m |-> "same"]]>>,
   symbols |-> Outside, libs |-> <<>>, memo |-> <<>>]

Tests == [U8 |-> U8, C |-> C, D |-> D, CD |-> C \cup D, U8None |-> U8 \cup Prim("none")]
Kinds == {<<"u8", "C">>, <<"C", "D">>, <<"none", "D">>, <<"u8", "none">>}

-----------------------------------------------------------------------------
(* Arrays of bytes, of a union and of objects, and tuples. Elements without *)
(* a zero are filled before they are read.                                 *)

Arr   == 70
Size_ == 71
Elem  == 72
Other == 73
S     == Class("S")

ElemType == [u8 |-> U8, union |-> U8 \cup Prim("none"), class |-> C, single |-> S]
ElemValue(e) ==
  CASE e = "u8"     -> <<Const(Elem, "u8", 3)>>
    [] e = "union"  -> <<Const(Elem, "none", 0)>>
    [] e = "class"  -> <<Const(74, "u8", 1), New(Elem, "C", <<CopyOf(74)>>)>>
    [] e = "single" -> <<Singleton(Elem, "S")>>

Filled(r, slot) ==
  LET t == Temp(slot, 1) IN
  <<Const(t, "usize", 0), ArrayFill(t + 1, <<CopyOf(r), CopyOf(t), CopyOf(Size_), CopyOf(Elem)>>)>>

\* The array, and another that holds the same, or zeros.
Arrays_(e, alloc) ==
  ElemValue(e) \o <<Const(Size_, "usize", 2)>> \o
  (IF alloc = "const" THEN <<NewArrayConst(Arr, ArrayType(ElemType[e]), 2)>>
   ELSE <<NewArray(Arr, ArrayType(ElemType[e]), Size_)>>) \o
  <<NewArrayConst(Other, ArrayType(ElemType[e]), 2)>> \o Filled(Arr, 2) \o
  (IF e = "u8" THEN <<>> ELSE Filled(Other, 3))

Span(n, at, from, r) ==
  <<Const(r, "usize", at), Const(r + 1, "usize", from), Const(r + 2, "usize", n)>>

ArrayUses(slot) ==
  LET t == Temp(slot, 1)  u == t + 1  v == t + 2  w == t + 3 IN
  [const   |-> <<ArrayRefConst(t, CopyOf(Arr), 1), Load(u, t)>> \o Show(u, v),
   index   |-> <<Const(t, "usize", 1), ArrayRef(u, CopyOf(Arr), t), Load(v, u)>> \o Show(v, w),
   put     |-> <<ArrayRefConst(t, CopyOf(Other), 0), Store(u, t, CopyOf(Elem))>> \o Show(u, v),
   length  |-> <<Unop("len", t, Arr)>> \o Show(t, u),
   beyond  |-> <<ArrayRefConst(t, CopyOf(Arr), 2), Load(u, t)>> \o Show(u, v),
   signed  |-> <<Const(t, "i32", 1), Convert(u, "usize", t), ArrayRef(v, CopyOf(Arr), u), Load(w, v)>>
               \o Show(w, w + 1),
   copy    |-> Span(1, 1, 0, t) \o
               <<ArrayCopy(w, <<CopyOf(Arr), CopyOf(t), CopyOf(Other), CopyOf(u), CopyOf(v)>>)>>,
   shift   |-> Span(1, 0, 1, t) \o
               <<ArrayCopy(w, <<CopyOf(Arr), CopyOf(t), CopyOf(Arr), CopyOf(u), CopyOf(v)>>)>>,
   compare |-> Span(2, 0, 0, t) \o
               <<ArrayCompare(w, <<CopyOf(Arr), CopyOf(t), CopyOf(Other), CopyOf(u), CopyOf(v)>>)>>
               \o Show(w, w + 1),
   pass    |-> <<Call(t, "pick", <<CopyOf(Arr)>>)>> \o Show(t, u)]

\* Comparing is for bytes.
ArrayCases ==
  {<<"array", e, alloc, u1, u2>> : e \in DOMAIN ElemType, alloc \in {"const", "register"},
     u1 \in DOMAIN ArrayUses(4) \ {"compare"}, u2 \in {"const", "length", "pass", "put"}} \cup
  {<<"array", "u8", "const", u1, "compare">> : u1 \in DOMAIN ArrayUses(4)}

ArrayMain(e, alloc, u1, u2) ==
  MainOf(<<Block(<<FFI(In, "input", <<>>)>> \o Arrays_(e, alloc), Cond(In, 2, 3)),
           Block(ArrayUses(4)[u1], Jump(3)),
           Block(ArrayUses(5)[u2] \o <<Const(93, "none", 0)>>, Return(93))>>)

\* A pair of a byte and nothing. What takes it may ask for less.
Pair    == TupleType(<<U8, Prim("none")>>)
Wider   == TupleType(<<U8 \cup Prim("none"), Prim("none")>>)
Swapped == TupleType(<<Prim("none"), U8>>)
PairUses(slot) ==
  LET t == Temp(slot, 1)  u == t + 1  v == t + 2  w == t + 3 IN
  [first  |-> <<ArrayRefConst(t, CopyOf(Arr), 0), Load(u, t), Call(v, "to_u8", <<CopyOf(u)>>)>>
              \o Show(v, w),
   second |-> <<ArrayRefConst(t, CopyOf(Arr), 1), Load(u, t)>> \o Show(u, v),
   third  |-> <<ArrayRefConst(t, CopyOf(Arr), 2), Load(u, t)>> \o Show(u, v),
   index  |-> <<Const(t, "usize", 1), ArrayRef(u, CopyOf(Arr), t), Load(v, u)>> \o Show(v, w),
   wider  |-> <<Call(t, "wide", <<CopyOf(Arr)>>)>> \o Show(t, u),
   swapped |-> <<Call(t, "swapped", <<CopyOf(Arr)>>)>> \o Show(t, u),
   test   |-> <<Typetest(t, Arr, Wider)>> \o Show(t, u),
   fails  |-> <<Typetest(t, Arr, Swapped)>> \o Show(t, u)]

PairMain(u1, u2) ==
  MainOf(<<Block(<<FFI(In, "input", <<>>), NewArrayConst(Arr, Pair, 2), Const(81, "u8", 2),
                   ArrayRefConst(82, CopyOf(Arr), 0), Store(83, 82, CopyOf(81)),
                   Const(84, "none", 0), ArrayRefConst(85, CopyOf(Arr), 1),
                   Store(86, 85, CopyOf(84))>>, Cond(In, 2, 3)),
           Block(PairUses(4)[u1], Jump(3)),
           Block(PairUses(5)[u2] \o <<Const(93, "none", 0)>>, Return(93))>>)

PairCases == {<<"pair", u1, u2>> : u1 \in DOMAIN PairUses(4), u2 \in DOMAIN PairUses(5)}

At0(t, ret) ==
  Func1(<<Decl(1, t)>>, ret, <<>>, <<ArrayRefConst(11, CopyOf(1), 0), Load(12, 11)>>, 12)

ArrayProgram(e, main) ==
  [ProgramOf(main) EXCEPT
     !.funcs = @ @@ [pick |-> At0(ArrayType(ElemType[e]), ElemType[e]),
                     wide |-> At0(Wider, U8 \cup Prim("none")),
                     swapped |-> At0(Swapped, Prim("none"))],
     !.order = @ \o <<"pick", "wide", "swapped">>,
     !.classes = @ @@ [S |-> [fields |-> <<>>, methods |-> <<>>]]]

-----------------------------------------------------------------------------
(* Once functions that need each other, directly, through a function of    *)
(* their own, or through a method; a library's init may need one too.      *)

Once == {"a", "b", "c"}
Through(f) == f \o "_via"

Needs(mode, deps) ==
  LET ds == SetToSeq(deps)
      One(i) == CASE mode = "direct" -> <<Call(20 + i, ds[i], <<>>)>>
                  [] mode = "helper" -> <<Call(20 + i, Through(ds[i]), <<>>)>>
                  [] mode = "method" -> <<Lookup(30 + i, 10, Through(ds[i])),
                                          CallDyn(20 + i, 30 + i, <<CopyOf(10)>>)>>
  IN  <<Const(10, "u8", 1)>> \o FlattenSeq([i \in DOMAIN ds |-> One(i)])

OnceFunc(mode, deps) ==
  [Func1(<<>>, U8, <<>>, Needs(mode, deps), 10) EXCEPT !.once = TRUE]

Via(mode, f) ==
  Func1(IF mode = "method" THEN <<Decl(1, U8)>> ELSE <<>>, U8, <<>>, <<Call(11, f, <<>>)>>, 11)

OnceProgram(mode, deps, init) ==
  [funcs |-> [f \in Once |-> OnceFunc(mode, deps[f])] @@
             [a_via |-> Via(mode, "a"), b_via |-> Via(mode, "b"), c_via |-> Via(mode, "c")] @@
             [setup |-> Func1(<<>>, U8, <<>>, Needs("direct", init), 10),
              main |-> Func1(<<>>, Prim("none"), <<>>,
                             Needs("direct", Once) \o <<Const(93, "none", 0)>>, 93)],
   order |-> <<"main", "setup", "a", "b", "c", "a_via", "b_via", "c_via">>,
   classes |-> <<>>,
   prims |-> <<[type |-> <<"u8">>,
                methods |-> [a_via |-> "a_via", b_via |-> "b_via", c_via |-> "c_via"]]>>,
   symbols |-> Outside,
   libs |-> <<[name |-> "outside", init |-> IF init = {} THEN "" ELSE "setup"]>>, memo |-> <<>>]

Dependencies == {d \in [Once -> SUBSET Once] : \A f \in Once : f \notin d[f]}

-----------------------------------------------------------------------------
(* The cases: a program is built from the names of its parts.              *)

FlowCases(graphs, stmts, last) ==
  {<<g, s1, s2, s3>> : g \in graphs, s1 \in stmts, s2 \in stmts, s3 \in last}
BrokenCases ==
  {<<"broken", w>> : w \in {"parameter", "missing", "arity", "undefined", "redefined", "moved",
                             "one_path", "one_move"}}

TypedCases == {<<"typed", ks, test, negated, u1, u2>> : ks \in Kinds, test \in DOMAIN Tests,
                 negated \in BOOLEAN, u1 \in DOMAIN Uses(5),
                 u2 \in {"add", "field", "method", "keep"}}

OnceCases == {<<"once", mode, deps, init>> : mode \in {"direct", "helper", "method"},
                deps \in Dependencies, init \in {{}, {"a"}}}

MCBuild(c) ==
  CASE c[1] = "flow"  -> ProgramOf(Diamond(c[2], c[3], c[4]))
    [] c[1] = "op"    -> ProgramOf(Operation(c[2], c[3], c[4]))
    [] c[1] = "loop"  -> ProgramOf(Loop(c[2], c[3], c[4]))
    [] c[1] = "broken" -> ProgramOf(Broken(c[2]))
    [] c[1] = "late"  -> Late
    [] c[1] = "typed" -> TypedProgram(TypedMain(c[2][1], c[2][2], Tests[c[3]], c[4], c[5], c[6]))
    [] c[1] = "convert" -> ProgramOf(Conversion(c[2], c[3], c[4]))
    [] c[1] = "math"  -> ProgramOf(MathMain(c[2], c[3]))
    [] c[1] = "array" -> ArrayProgram(c[2], ArrayMain(c[2], c[3], c[4], c[5]))
    [] c[1] = "pair"  -> ArrayProgram("u8", PairMain(c[2], c[3]))
    [] c[1] = "source" -> Source(Within_(c[2], c[3], c[4]))
    [] c[1] = "wrong" -> Source(Wrong[c[2]])
    [] c[1] = "once"  -> OnceProgram(c[2], c[3], c[4])

\* The statements whose meaning the optimizer changes, or that it makes the
\* last pass refuse, have cases of their own.
MCCases ==
  FlowCases({"flow", "loop"}, FlowStmts \ {"swap", "lost"}, {"skip", "constant", "through", "add"})
  \cup TypedCases \cup OnceCases \cup BrokenCases \cup OpCases \cup ConvertCases
  \cup {<<"late">>} \cup ConstCases \cup ArrayCases \cup PairCases \cup SourceCases \cup WrongCases
SwapCases == FlowCases({"flow"}, {"skip", "swap"}, {"skip", "swap"})
MCInputs  == {<<"bool", 0>>, <<"bool", 1>>}
=============================================================================
