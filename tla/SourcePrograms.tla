---------------------------- MODULE SourcePrograms ----------------------------
(* Small programs for Compile, as trees. *)
EXTENDS Compile

I32 == Prim("i32")
Va == 1          \* two variables
Vb == 2
Vi == 3          \* a loop's counter
Vin == 4         \* the input
Vo == 5          \* an object
Vt == 6          \* a triple
Of(slot, k) == 10 * slot + k

N_(k, kids)  == [Node EXCEPT !.k = k, !.kids = kids]
L_(x)        == [Node EXCEPT !.num = x]
Let_(x)      == [Node EXCEPT !.k = "let", !.num = x]
Var_(x, t)   == [Node EXCEPT !.k = "var", !.num = x, !.type = t]
I_(n)        == [Node EXCEPT !.k = "const", !.name = "i32", !.num = n, !.type = I32]
Yes_(b)      == [Node EXCEPT !.k = "const", !.name = "bool", !.num = IF b THEN 1 ELSE 0,
                             !.type = Prim("bool")]
None_        == [Node EXCEPT !.k = "nulop", !.name = "none", !.type = Prim("none")]
Set_(l, r)   == N_("equals", <<l, r>>)
Op_(o, l, r) == [N_("binop", <<l, r>>) EXCEPT !.name = o,
                   !.type = IF o \in Arithmetic THEN I32 ELSE Prim("bool")]
Show_(e)     == [N_("ffi", <<e>>) EXCEPT !.name = "print", !.type = Prim("none")]
Call_f(k, f, as, t) == [N_(k, as) EXCEPT !.name = f, !.type = t]
If_(c, b)    == [N_("if", <<c>>) EXCEPT !.body = b]
While_(c, b) == [N_("while", <<c>>) EXCEPT !.body = b]
Else_(e, b)  == [N_("else", <<e>>) EXCEPT !.body = b]
Tup_(es)     == N_("tuple", es)
Skip_        == N_("dontcare", <<>>)
Rest_(x)     == [Node EXCEPT !.k = "splatlet", !.num = x]
RestSkip_    == N_("splatdontcare", <<>>)
Inc_(x)      == Set_(L_(x), Op_("add", L_(x), I_(1)))
Fld_(e)      == Call_f("calldyn", "f", <<e>>, I32)
Bump_(k, e)  == Call_f(k, "bump", <<e>>, I32)
Say_(e)      == Call_f("call", "say", <<e>>, I32)
Both_(l, r)  == Call_f("call", "both", <<l, r>>, I32)

\* say(n) shows n and gives it back; both(a, b) shows both, in the order of
\* its parameters; find(n) leaves its loop by returning; o.bump shows what it
\* adds one to.
SourceHelpers ==
  LET fn(params, ret, body) ==
        [once |-> FALSE, params |-> params, ret |-> ret, source |-> body]
      p(r, t) == [reg |-> r, type |-> t]
      Inc_f == Set_(Fld_(L_(1)), Op_("add", Fld_(L_(1)), I_(1)))
  IN
  [say   |-> fn(<<p(1, I32)>>, I32, <<Show_(L_(1)), L_(1)>>),
   both  |-> fn(<<p(1, I32), p(2, I32)>>, I32,
                <<Show_(L_(1)), Show_(L_(2)), Op_("sub", L_(1), L_(2))>>),
   find  |-> fn(<<p(1, I32)>>, I32,
                <<Var_(2, I32), Set_(L_(2), I_(0)),
                  While_(Yes_(TRUE), <<If_(Op_("eq", L_(2), L_(1)), <<N_("return", <<Op_("mul", L_(2), I_(2))>>)>>),
                                       Inc_(2)>>),
                  I_(9)>>),
   pair  |-> fn(<<p(1, I32), p(2, I32)>>, TupleType(<<I32, I32>>), <<Tup_(<<L_(2), L_(1)>>)>>),
   f     |-> fn(<<p(1, Class("P"))>>, I32,
                <<[N_("load", <<[N_("field", <<L_(1)>>) EXCEPT !.name = "f", !.type = RefTo(I32)]>>)
                     EXCEPT !.type = I32]>>),
   f_ref |-> fn(<<p(1, Class("P"))>>, RefTo(I32),
                <<[N_("field", <<L_(1)>>) EXCEPT !.name = "f", !.type = RefTo(I32)]>>),
   next  |-> fn(<<p(1, Class("P"))>>, I32 \cup Nomatch,
                <<If_(Op_("lt", Fld_(L_(1)), I_(2)), <<Inc_f, Fld_(L_(1))>>)>>),
   bump  |-> fn(<<p(1, Class("P"))>>, I32,
                <<Inc_f, Show_(Fld_(L_(1))), Fld_(L_(1))>>)]

Src(slot) ==
  LET x == Of(slot, 1)  y == Of(slot, 2)  z == Of(slot, 3)
      counted(body) == <<Set_(L_(Vi), I_(0)), While_(Op_("lt", L_(Vi), I_(3)), <<Inc_(Vi)>> \o body)>>
      two == Op_("eq", L_(Vi), I_(2))
      triple == Tup_(<<I_(7), I_(8), L_(Va)>>)
  IN
  [value    |-> <<L_(Va)>>,
   assign   |-> <<Set_(L_(Va), L_(Vb))>>,
   bind     |-> <<Set_(Let_(x), Op_("add", L_(Va), L_(Vb))), Set_(L_(Va), L_(x))>>,
   discard  |-> <<Set_(Skip_, Say_(L_(Vb)))>>,
   order    |-> <<Set_(L_(Va), Both_(Say_(I_(5)), Say_(L_(Vb))))>>,
   waits    |-> <<Set_(L_(Va), Op_("sub", Bump_("calldyn", L_(Vo)), Say_(L_(Vb))))>>,
   passed   |-> <<Set_(L_(Va), Both_(Bump_("calldyn", L_(Vo)), Bump_("call", L_(Vo))))>>,
   late     |-> <<Set_(Tup_(<<Skip_, L_(Va)>>), Tup_(<<Set_(L_(Vb), I_(9)), Op_("add", L_(Vb), L_(Vb))>>))>>,
   target   |-> <<Set_(Fld_(L_(Vo)), Both_(Say_(L_(Va)), Bump_("call", L_(Vo))))>>,
   onlyif   |-> <<If_(L_(Vin), <<Set_(L_(Va), I_(3)), None_>>)>>,
   assignif |-> <<If_(L_(Vin), <<Set_(L_(Va), I_(3))>>)>>,
   bindif   |-> <<If_(L_(Vin), <<Set_(Let_(x), L_(Vb))>>)>>,
   choose   |-> <<Set_(L_(Va), Else_(If_(L_(Vin), <<I_(4)>>), <<L_(Vb)>>))>>,
   chain    |-> <<Set_(L_(Vb), Else_(Else_(If_(L_(Vin), <<I_(4)>>),
                                          <<If_(Op_("lt", L_(Va), L_(Vb)), <<I_(5)>>)>>),
                                    <<Op_("add", L_(Va), I_(1))>>))>>,
   loop     |-> counted(<<Set_(L_(Va), Op_("add", L_(Va), L_(Vb)))>>),
   break    |-> counted(<<If_(two, <<N_("break", <<None_>>)>>), Show_(L_(Vi))>>),
   continue |-> counted(<<If_(two, <<N_("continue", <<None_>>)>>), Show_(L_(Vi))>>),
   either   |-> counted(<<Else_(If_(two, <<N_("break", <<None_>>)>>), <<N_("continue", <<None_>>)>>),
                          Show_(L_(Vi))>>),
   found    |-> <<Set_(L_(Vb), Else_(While_(L_(Vin), <<N_("break", <<L_(Va)>>)>>), <<I_(6)>>))>>,
   lastval  |-> <<Set_(L_(Vi), I_(0)),
                  Set_(L_(Va), Else_(While_(Op_("lt", L_(Vi), L_(Vb)), <<Inc_(Vi), L_(Vi)>>), <<I_(6)>>))>>,
   nested   |-> counted(<<While_(L_(Vin), <<If_(two, <<N_("break", <<None_>>)>>), Show_(I_(7)),
                                           N_("break", <<None_>>)>>), Show_(L_(Vi))>>),
   leave    |-> <<If_(L_(Vin), <<N_("return", <<None_>>)>>)>>,
   find     |-> <<Set_(L_(Va), Call_f("call", "find", <<L_(Vb)>>, I32))>>,
   iterate  |-> <<Set_(L_(Vi), I_(0)),
                  While_(Yes_(TRUE),
                         <<Set_(Let_(x), Else_(Call_f("calldyn", "next", <<L_(Vo)>>, I32 \cup Nomatch),
                                               <<N_("break", <<None_>>)>>)), Show_(L_(x))>>)>>,
   trycall  |-> <<Set_(L_(Va), Else_(Call_f("trycalldyn", "next", <<L_(Vo)>>, I32 \cup Nomatch),
                                    <<I_(8)>>))>>,
   swap     |-> <<Set_(Tup_(<<L_(Va), L_(Vb)>>), Tup_(<<L_(Vb), L_(Va)>>))>>,
   pair     |-> <<Set_(Tup_(<<Let_(x), L_(Va)>>), Call_f("call", "pair", <<L_(Va), L_(Vb)>>,
                                                        TupleType(<<I32, I32>>))), Show_(L_(x))>>,
   pattern  |-> <<Set_(Tup_(<<Skip_, Tup_(<<L_(Vb), Let_(x)>>), Fld_(L_(Vo))>>),
                      Tup_(<<I_(1), Tup_(<<I_(2), L_(Va)>>), I_(3)>>)), Show_(L_(x))>>,
   declare  |-> <<Set_(Tup_(<<Var_(x, I32), Let_(y)>>), Tup_(<<L_(Va), I_(3)>>)),
                  Show_(L_(x)), Show_(L_(y))>>,
   splat    |-> <<Set_(Tup_(<<Let_(x), Rest_(y)>>), L_(Vt)), Show_(L_(x)),
                  Set_(Tup_(<<L_(Va), Let_(z)>>), L_(y)), Show_(L_(z))>>,
   front    |-> <<Set_(Tup_(<<Rest_(x), L_(Va), Let_(y)>>), L_(Vt)), Show_(L_(x)), Show_(L_(y))>>,
   middle   |-> <<Set_(Tup_(<<L_(Va), RestSkip_, Let_(y)>>), triple), Show_(L_(y))>>,
   empty    |-> <<Set_(Tup_(<<Let_(x), Rest_(y), L_(Va), L_(Vb)>>), triple), Show_(L_(y))>>,
   field    |-> <<Set_(Fld_(L_(Vo)), Op_("add", Fld_(L_(Vo)), L_(Va))), Show_(Fld_(L_(Vo)))>>,
   through  |-> <<Set_(Let_(x), [N_("ref", <<L_(Va)>>) EXCEPT !.type = RefTo(I32)]),
                  Set_(N_("ref", <<L_(x)>>), L_(Vb)),
                  Show_([N_("load", <<L_(x)>>) EXCEPT !.type = I32])>>,
   array    |-> <<Set_(Let_(x), [N_("arraylit", <<L_(Va), I_(2)>>) EXCEPT !.of = I32]),
                  Set_(Let_(y), [N_("arrayref", <<L_(x), [I_(0) EXCEPT !.name = "usize", !.type = Prim("usize")]>>)
                                   EXCEPT !.type = RefTo(I32)]),
                  Set_(N_("ref", <<L_(y)>>), Op_("add", [N_("load", <<L_(y)>>) EXCEPT !.type = I32], L_(Vb))),
                  Show_([N_("load", <<L_(y)>>) EXCEPT !.type = I32])>>,
   tests    |-> <<Show_([N_("typetest", <<If_(L_(Vin), <<I_(1)>>)>>) EXCEPT !.of = Nomatch, !.type = Prim("bool")]),
                  Show_([N_("convert", <<L_(Va)>>) EXCEPT !.name = "u8", !.type = Prim("u8")]),
                  Show_([N_("unop", <<L_(Vin)>>) EXCEPT !.name = "not", !.type = Prim("bool")]),
                  Show_([N_("hash", <<L_(Va)>>) EXCEPT !.type = Prim("u64")])>>,
   sequence |-> <<Set_(L_(Va), N_("seq", <<Inc_(Vb), Say_(L_(Vb))>>))>>]

Wrong ==
  [outside  |-> <<N_("break", <<None_>>)>>,
   early    |-> <<N_("return", <<None_>>), Show_(L_(Va))>>,
   splats   |-> <<Set_(Tup_(<<Rest_(11), RestSkip_>>), L_(Vt))>>,
   splat    |-> <<Set_(Rest_(11), L_(Vt))>>,
   dontcare |-> <<Show_(Skip_)>>,
   place    |-> <<Set_(If_(L_(Vin), <<L_(Va)>>), L_(Vb))>>,
   few      |-> <<Set_(Tup_(<<Let_(11), Let_(12), Let_(13), Let_(14), Rest_(15)>>), L_(Vt))>>,
   over     |-> <<Set_(Tup_(<<Let_(11), Let_(12), Let_(13), Let_(14)>>), L_(Vt))>>,
   condition |-> <<While_(Else_(If_(L_(Vin), <<N_("break", <<None_>>)>>), <<Yes_(FALSE)>>), <<None_>>)>>]

Source(body) ==
  [funcs |->
     [main |-> [once |-> FALSE, params |-> <<>>, ret |-> Prim("none"), source |->
        <<Set_(Var_(Va, I32), I_(1)), Set_(Var_(Vb, I32), I_(2)), Var_(Vi, I32),
          Set_(Let_(Vin), [N_("ffi", <<>>) EXCEPT !.name = "input", !.type = Prim("bool")]),
          Set_(Let_(Vo), [N_("new", <<I_(0)>>) EXCEPT !.name = "P", !.type = Class("P")]),
          Set_(Let_(Vt), Tup_(<<I_(4), I_(5), I_(6)>>))>>
        \o body \o <<Show_(L_(Va)), Show_(L_(Vb)), None_>>],
      nomatch |-> [once |-> FALSE, params |-> <<>>, ret |-> Nomatch, vars |-> <<>>,
                   labels |-> <<[body |-> <<Singleton(1, "nomatch")>>, term |-> Return(1)]>>]]
     @@ SourceHelpers,
   order |-> <<"say", "main", "nomatch", "both", "find", "pair", "f", "f_ref", "next", "bump">>,
   classes |-> [P |-> [fields |-> <<[name |-> "f", type |-> I32]>>,
                       methods |-> [f |-> "f", f_ref |-> "f_ref", next |-> "next", bump |-> "bump"]],
                nomatch |-> [fields |-> <<>>, methods |-> <<>>]],
   prims |-> <<>>, libs |-> <<>>, memo |-> <<>>, tree |-> TRUE,
   symbols |-> [print |-> [params |-> <<Dyn>>, ret |-> Prim("none")],
                input |-> [params |-> <<>>, ret |-> Prim("bool")]]]

\* One after the other, in a branch, or twice round a loop of its own.
Within_(frame, s1, s2) ==
  CASE frame = "then"   -> Src(2)[s1] \o Src(3)[s2]
    [] frame = "branch" -> Src(2)[s1] \o <<If_(L_(Vin), Src(3)[s2] \o <<None_>>)>>
    [] frame = "loop"   -> <<Set_(Var_(7, I32), I_(0)),
                             While_(Op_("lt", L_(7), I_(2)), <<Inc_(7)>> \o Src(2)[s1] \o Src(3)[s2])>>

\* Every statement in every frame, and after some of the others.
Mixed == {"bindif", "choose", "found", "either", "swap", "splat", "field", "sequence"}
SourceCases ==
  {<<"source", "then", s1, s2>> : s1 \in Mixed \cup {"value"}, s2 \in DOMAIN Src(3)} \cup
  {<<"source", f, "value", s>> : f \in {"branch", "loop"}, s \in DOMAIN Src(3)} \cup
  {<<"source", "loop", s1, s2>> : s1 \in Mixed, s2 \in Mixed}
WrongCases  == {<<"wrong", w>> : w \in DOMAIN Wrong}
=============================================================================
