---------------------------------- MODULE Anf ----------------------------------
(***************************************************************************)
(* From expressions to labels: the pass of vc that takes a function's body *)
(* apart into statements over local names, and its control flow into       *)
(* labels and jumps. The pass goes over the tree in rounds, from the top   *)
(* down, until a round changes nothing, and a rule applies in the first    *)
(* round that finds its operands named. So the operands of an expression   *)
(* are not evaluated from left to right: a static call is lifted in the    *)
(* first round, before a dynamic call on its left that still waits for the *)
(* name of its receiver. Rounds are those of one statement here: a body    *)
(* never changes the order of another's, or of its own statements.         *)
(* What the passes between this one and the IR add is taken as given: a    *)
(* node carries its type, and a tuple's pattern is expanded when it is met.*)
(***************************************************************************)
EXTENDS VIR

\* A node of the tree. A function is its parameters and a body of nodes. A
\* node as written stands for itself in an Expr, or in an Lhs on the left of
\* an assignment; "id" is a name alone, and an "expr" holds another node.
\* Once lifted, a node has the name of its result in to.
Node == [k |-> "local", kids |-> <<>>, body |-> <<>>, name |-> "", num |-> 0,
         type |-> {}, of |-> {}, to |-> 0]

Local(x)   == [Node EXCEPT !.num = x]
LocalId(x) == [Node EXCEPT !.k = "id", !.num = x]
IsId(e)    == e.k = "id"
Wrap(k, e) == [Node EXCEPT !.k = k, !.kids = <<e>>]

Nomatch == Class("nomatch")

-----------------------------------------------------------------------------
(* When the rule of an expression applies, and what it lifts.              *)

AtOnce     == {"const", "nulop", "new", "arrayref", "call", "ffi", "bulk", "if", "while"}
OnReceiver == {"calldyn", "trycalldyn", "else"}
WhenNamed  == {"tuple", "arraylit", "newarray", "field", "ref", "load", "hash", "typetest",
               "convert", "binop", "unop"}

Applies(e) ==
  \/ e.k \in AtOnce
  \/ e.k \in OnReceiver /\ IsId(e.kids[1])
  \/ e.k \in WhenNamed /\ \A i \in DOMAIN e.kids : IsId(e.kids[i])

\* A call reads, or as a place to assign to gives a reference; the function
\* for that has the same name on the other hand.
Hand(name, ref) == IF ref THEN name \o "_ref" ELSE name
LeftHand(e)     == [e EXCEPT !.name = Hand(@, TRUE), !.type = RefTo(@)]
IsRefCall(e)    == e.k = "ref" /\ e.kids[1].k \in {"call", "calldyn"}

\* What a visit makes of a node, the statements it lifts out of it, and the
\* next fresh name.
Same(e, n) == [node |-> e, lifts |-> <<>>, fresh |-> n]

Lifted(e, n) ==
  [node |-> Local(n), lifts |-> <<[e EXCEPT !.to = n]>>, fresh |-> n + 1]

\* A dynamic call is two statements: its other operands come between them.
LiftedDyn(e, n) ==
  [node  |-> Local(n + 1), fresh |-> n + 2,
   lifts |-> <<[e EXCEPT !.k = "lookup", !.kids = <<@[1]>>, !.to = n],
               [e EXCEPT !.num = n, !.to = n + 1]>>]

Replaced(e, n) == IF e.k \in {"calldyn", "trycalldyn"} THEN LiftedDyn(e, n) ELSE Lifted(e, n)

-----------------------------------------------------------------------------
(* A round.                                                                *)

Splats(parts) == {i \in DOMAIN parts : parts[i].k \in {"splatlet", "splatdontcare"}}
Bound         == {"let", "dontcare", "splatlet", "splatdontcare"}

RECURSIVE Visit(_, _)
RECURSIVE VisitPlace(_, _)

Beside(w, v) == [fresh |-> v.fresh, lifts |-> w.lifts \o v.lifts, nodes |-> Append(w.nodes, v.node)]
First(n)     == [fresh |-> n, lifts |-> <<>>, nodes |-> <<>>]
Around(e, w) == [fresh |-> w.fresh, lifts |-> w.lifts, node |-> [e EXCEPT !.kids = w.nodes]]

VisitKids(e, n) ==
  Around(e, FoldLeft(LAMBDA w, kid : Beside(w, Visit(kid, w.fresh)), First(n), e.kids))

\* The elements of a pattern are read at once and assigned one by one; they
\* are a tuple of what the places held.
NameOf(parts, i, n) == IF parts[i].k = "splatlet" THEN parts[i].num ELSE n + i - 1

Assignment(l, x) == [Node EXCEPT !.k = "assign", !.kids = <<l, LocalId(x)>>]

Replacement(parts, n) ==
  [Node EXCEPT !.k = "tuple", !.kids =
     [i \in DOMAIN parts |-> IF parts[i].k \in Bound THEN LocalId(NameOf(parts, i, n))
                             ELSE Assignment(parts[i], NameOf(parts, i, n))]]

Before(lifts, w) == [w EXCEPT !.lifts = lifts \o @]

Destructured(parts, v, n) ==
  Before(<<[Node EXCEPT !.k = "pattern", !.kids = parts, !.num = v, !.to = n]>>,
         Visit(Replacement(parts, n), n + Len(parts)))

VisitAssign(e, n) ==
  LET lhs == e.kids[1]  rhs == e.kids[2] IN
  CASE IsId(rhs) /\ lhs.k \in {"id", "dontcare", "place"} ->
         [Lifted(e, n) EXCEPT !.node = LocalId(n)]
    [] IsId(rhs) /\ lhs.k = "tuplelhs" /\ Cardinality(Splats(lhs.kids)) < 2 ->
         Destructured(lhs.kids, rhs.num, n)
    [] OTHER -> LET l == VisitPlace(lhs, n) IN
                Around(e, Beside(Beside(First(n), l), Visit(rhs, l.fresh)))

\* A name in a node that only holds it.
Compact(w) == [w EXCEPT !.node = IF IsId(@) THEN Local(@.num) ELSE Wrap("expr", @)]

Visit(e, n) ==
  CASE e.k = "local"  -> Same(LocalId(e.num), n)
    [] e.k = "let"    -> Same(Local(e.num), n)
    [] e.k = "var"    -> [Same(Local(e.num), n) EXCEPT !.lifts = <<[e EXCEPT !.to = e.num]>>]
    [] e.k = "expr"   -> Compact(Visit(e.kids[1], n))
    [] e.k = "seq"    -> Before(Front(e.kids), Compact(Visit(Last(e.kids), n)))
    [] e.k = "equals" -> Compact(Visit([e EXCEPT !.k = "assign"], n))
    [] e.k = "assign" -> VisitAssign(e, n)
    [] IsRefCall(e) /\ Applies(e.kids[1]) -> Replaced(LeftHand(e.kids[1]), n)
    [] Applies(e)     -> Replaced(e, n)
    [] e.k \in OnReceiver \cup WhenNamed \cup {"args"} -> VisitKids(e, n)
    [] OTHER          -> Same(e, n)

\* On the left of an assignment. What cannot be assigned to stays as it is.
OnEitherSide == {"convert", "binop", "unop", "nulop", "ffi", "bulk"}

AsPlace(w) == [w EXCEPT !.node = Wrap("ref", LocalId(@.num))]

VisitPart(p, n) == IF p.k = "let" THEN Same(p, n) ELSE VisitPlace(p, n)

VisitParts(p, n) ==
  Around(p, FoldLeft(LAMBDA w, part : Beside(w, VisitPart(part, w.fresh)), First(n), p.kids))

VisitPlace(p, n) ==
  CASE p.k \in {"local", "let", "var"} \cup OnEitherSide -> Visit(p, n)
    [] p.k = "tuple"    -> LET w == VisitParts([p EXCEPT !.k = "tuplelhs"], n) IN
                           [w EXCEPT !.node = Wrap("lhs", @)]
    [] p.k = "lhs"      -> VisitParts(p.kids[1], n)
    [] p.k = "tuplelhs" -> VisitParts(p, n)
    [] p.k \in {"call", "calldyn"} -> IF Applies(p) THEN AsPlace(Replaced(LeftHand(p), n))
                                      ELSE VisitKids(p, n)
    [] p.k = "ref"      -> IF IsId(p.kids[1]) THEN Same([p EXCEPT !.k = "place"], n)
                           ELSE VisitKids(p, n)
    [] OTHER            -> Same(p, n)

\* Rounds until one changes nothing. What a round lifts comes after what the
\* rounds before it lifted.
RECURSIVE Settled(_)
Settled(w) ==
  LET v == Visit(w.node, w.fresh) IN
  IF v.node = w.node /\ v.lifts = <<>> THEN w ELSE Settled(Before(w.lifts, v))

-----------------------------------------------------------------------------
(* The statements written so far: finished labels, and the one being       *)
(* written, 0 after its terminator. Each local has the types it was given. *)

FirstTemp == 100

Begin(f) ==
  [done |-> <<>>, label |-> 1, labels |-> 1, body |-> <<>>, reg |-> FirstTemp,
   vars |-> <<>>, ty |-> [r \in ParamsOf(f) |-> UNION {d.type : d \in {p \in ToSet(f.params) : p.reg = r}}],
   val |-> 0, vals |-> <<>>, ok |-> TRUE]

Refused(st) == [st EXCEPT !.ok = FALSE]

TypeIn(st, r) == IF r \in DOMAIN st.ty THEN st.ty[r] ELSE {}

\* A statement, and one with a result that only the next ones use.
Put(st, s, t) == [st EXCEPT !.body = Append(@, s), !.ty = (s.dst :> (TypeIn(st, s.dst) \cup t)) @@ @]
Also(st, s, t) ==
  [Put(st, [s EXCEPT !.dst = st.reg], t) EXCEPT !.reg = @ + 1, !.val = st.reg]

EnterLabel(st, l)    == [st EXCEPT !.label = l, !.body = <<>>]
LeaveLabel(st, term) ==
  [st EXCEPT !.done = Append(@, [label |-> st.label, body |-> st.body, term |-> term]),
             !.label = 0, !.body = <<>>]

\* A block ends by giving its value to id and going on at l, unless it has
\* gone elsewhere.
Yield(st, id, l) ==
  IF st.label = 0 THEN st
  ELSE LeaveLabel(Put(st, Copy(id, st.val), TypeIn(st, st.val)), Jump(l))

-----------------------------------------------------------------------------
(* What a lifted node is in the IR, r being the names of its operands.     *)

Copies(rs) == [i \in DOMAIN rs |-> CopyOf(rs[i])]

Creation(e, r) ==
  CASE e.k = "new"      -> New(e.to, e.name, Copies(r))
    [] e.k = "newarray" -> NewArray(e.to, ArrayType(e.of), r[1])
    [] e.k = "arrayref" -> ArrayRef(e.to, CopyOf(r[1]), r[2])

Access(e, r) ==
  CASE e.k = "field" -> FieldRef(e.to, CopyOf(r[1]), e.name)
    [] e.k = "ref"   -> RegisterRef(e.to, r[1])
    [] e.k = "load"  -> Load(e.to, r[1])

Operator(e, r) ==
  CASE e.k = "const"    -> Const(e.to, e.name, e.num)
    [] e.k = "typetest" -> Typetest(e.to, r[1], e.of)
    [] e.k = "convert"  -> Convert(e.to, e.name, r[1])
    [] e.k = "binop"    -> Binop(e.name, e.to, r[1], r[2])
    [] e.k = "unop"     -> Unop(e.name, e.to, r[1])
    [] e.k = "nulop"    -> IF e.name = "none" THEN Const(e.to, "none", 0) ELSE MathConst(e.to, e.name)

Invocation(e, r) ==
  CASE e.k = "call"       -> Call(e.to, e.name, Copies(r))
    [] e.k = "lookup"     -> Lookup(e.to, r[1], e.name)
    [] e.k = "calldyn"    -> CallDyn(e.to, e.num, Copies(r))
    [] e.k = "trycalldyn" -> TryCallDyn(e.to, e.num, Copies(r))
    [] e.k = "ffi"        -> FFI(e.to, e.name, Copies(r))
    [] e.k = "bulk"       -> [Stmt EXCEPT !.op = e.name, !.dst = e.to, !.args = Copies(r)]

OneStatement(e, r) ==
  CASE e.k \in {"new", "newarray", "arrayref"} -> Creation(e, r)
    [] e.k \in {"field", "ref", "load"}        -> Access(e, r)
    [] e.k \in {"call", "lookup", "calldyn", "trycalldyn", "ffi", "bulk"} -> Invocation(e, r)
    [] OTHER                                   -> Operator(e, r)

Hash(st, d, r) == Put(Also(st, Unop("bits", 0, r), Prim("u64")), Convert(d, "u64", st.reg), Prim("u64"))

\* An array of the elements, stored one by one.
PutInto(st, v) == Also(st, Store(0, st.val, CopyOf(v)), TypeIn(st, v))

StoreAt(st, d, n, v) ==
  PutInto(Also(st, ArrayRefConst(0, CopyOf(d), n), RefTo(TypeIn(st, v))), v)

Elements(st, d, t, vals) ==
  FoldLeftDomain(LAMBDA s, i : StoreAt(s, d, i - 1, vals[i]),
                 Put(st, NewArrayConst(d, t, Len(vals)), t), vals)

Tuple_(st, d, vals) == Elements(st, d, TupleType([i \in DOMAIN vals |-> TypeIn(st, vals[i])]), vals)

-----------------------------------------------------------------------------
(* The elements of a tuple, for the places of a pattern.                   *)

TuplesIn(st, v) == {a \in TypeIn(st, v) : IsTuple(a)}

Arity(st, v) ==
  IF TuplesIn(st, v) = {} THEN 0 ELSE Len((CHOOSE a \in TuplesIn(st, v) : TRUE)[2])

ElementType(st, v, n) ==
  UNION {IF n < Len(a[2]) THEN a[2][n + 1] ELSE {} : a \in TuplesIn(st, v)}

LoadTo(st, d, t) == Put(st, Load(d, st.val), t)

\* The element of v at n, under the name d.
ElementTo(st, d, v, n) ==
  LoadTo(Also(st, ArrayRefConst(0, CopyOf(v), n), {}), d, ElementType(st, v, n))

\* What is left between the first and the last places of a pattern: nothing,
\* the one element, or a tuple of them.
CopyElement(st, d, n, v, m) ==
  StoreAt([ElementTo(st, st.reg, v, m) EXCEPT !.reg = @ + 1], d, n, st.reg)

Rest(st, d, v, from, t) ==
  FoldLeftDomain(LAMBDA s, i : CopyElement(s, d, i - 1, v, from + i - 1),
                 Put(st, NewArrayConst(d, TupleType(t), Len(t)), TupleType(t)), t)

Splat(st, d, v, from, left) ==
  CASE left < 0 -> Refused(st)
    [] left = 0 -> Put(st, Const(d, "none", 0), Prim("none"))
    [] left = 1 -> ElementTo(st, d, v, from)
    [] OTHER    -> Rest(st, d, v, from, [i \in 1 .. left |-> ElementType(st, v, from + i - 1)])

\* Mutant: the last is at the length less two.
FromEndShort(st, v, i) == Arity(st, v) - i - 1

FromEnd(st, v, i) == Arity(st, v) - i

\* What a place gets: by number before the splat, and by number from the end
\* after it. A let is bound at once.
BindLet(st, p, d) == IF p.k = "let" THEN Put(st, Copy(p.num, d), TypeIn(st, d)) ELSE st

Part(st, e, i) ==
  LET parts == e.kids  v == e.num  d == NameOf(parts, i, e.to) IN
  IF i \in Splats(parts) THEN Splat(st, d, v, i - 1, Arity(st, v) - (Len(parts) - 1))
  ELSE BindLet(ElementTo(st, d, v, IF \E s \in Splats(parts) : s < i
                                   THEN FromEnd(st, v, Len(parts) - i + 1) ELSE i - 1),
               parts[i], d)

\* The value of an assignment is what the place held.
Assign(st, d, p, v) ==
  CASE p.k = "dontcare" -> Put(st, Copy(d, v), TypeIn(st, v))
    [] p.k = "place"    -> Put(st, Store(d, p.kids[1].num, CopyOf(v)),
                               UNION {a[2] : a \in TypeIn(st, p.kids[1].num)})
    [] OTHER            -> Put(Put(st, Copy(d, p.num), TypeIn(st, p.num)), Copy(p.num, v), TypeIn(st, v))

-----------------------------------------------------------------------------
(* Statements in their order: each after what is lifted out of it.         *)

NoLoop == [id |-> 0, break |-> 0, continue |-> 0]

RECURSIVE Lower(_, _, _)

\* A body is done when it jumps: terminators come last.
LowerBody(st, es, loop) ==
  FoldLeft(LAMBDA s, e : IF s.label = 0 THEN Refused(s) ELSE Lower(s, e, loop), st, es)

\* The operands, all named in the end.
Taken(st, kids) ==
  IF \A i \in DOMAIN kids : IsId(kids[i])
  THEN [st EXCEPT !.vals = [i \in DOMAIN kids |-> kids[i].num],
                  !.val = IF kids = <<>> THEN 0 ELSE kids[Len(kids)].num]
  ELSE Refused(st)

LowerArgs(st, es, loop) ==
  LET w == Settled(Same([Node EXCEPT !.k = "args", !.kids = es], st.reg)) IN
  Taken(LowerBody([st EXCEPT !.reg = w.fresh], w.lifts, loop), w.node.kids)

make_nomatch(st, id) == Put(st, Call(id, "nomatch", <<>>), Nomatch)

BlockResult(st, id, n) == [st EXCEPT !.labels = @ + n, !.vars = Append(@, id)]

Branch(st, l, m) == EnterLabel(LeaveLabel(st, Cond(st.val, l, m)), l)
Join(st, l)      == EnterLabel(st, l)

\* An if whose condition is false is nomatch.
ThenBlock(st, e, loop, l) ==
  Join(Yield(LowerBody(Branch(st, l, l + 1), e.body, loop), e.to, l + 1), l + 1)

LowerIf(st, e, loop) ==
  ThenBlock(LowerArgs(make_nomatch(BlockResult(st, e.to, 2), e.to), e.kids, loop), e, loop, st.labels + 1)

\* A loop that is left before its first round is nomatch. Its breaks and
\* continues are those of its body that are not in another loop.
Rounds(st, e, l) ==
  Join(Yield(LowerBody(Branch(st, l + 1, l + 2), e.body,
                       [id |-> e.to, break |-> l + 2, continue |-> l]), e.to, l), l + 2)

LowerWhile(st, e) ==
  Rounds(LowerArgs(EnterLabel(LeaveLabel(make_nomatch(BlockResult(st, e.to, 3), e.to),
                                         Jump(st.labels + 1)), st.labels + 1), e.kids, NoLoop),
         e, st.labels + 1)

\* The value on the left, or if that is nomatch the block's.
KeepLeft(st, lhs, id, l) ==
  EnterLabel(LeaveLabel(Put(EnterLabel(LeaveLabel(st, Cond(st.val, l + 1, l)), l),
                            Copy(id, lhs), TypeIn(st, lhs) \ Nomatch), Jump(l + 2)), l + 1)

Otherwise(st, e, loop, lhs, l) ==
  Join(Yield(LowerBody(KeepLeft(Also(BlockResult(st, e.to, 3), Typetest(0, lhs, Nomatch), Prim("bool")),
                                lhs, e.to, l), e.body, loop), e.to, l + 2), l + 2)

LowerElse(st, e, loop) == Otherwise(st, e, loop, e.kids[1].num, st.labels + 1)

LowerExit(st, e, loop) ==
  IF loop = NoLoop THEN Refused(st)
  ELSE Yield(LowerArgs(st, e.kids, loop), loop.id,
             IF e.k = "break" THEN loop.break ELSE loop.continue)

LeaveWith(st) == LeaveLabel(st, Return(st.val))

Declare(st, e) ==
  [st EXCEPT !.vars = Append(@, e.num), !.ty = (e.num :> (TypeIn(st, e.num) \cup e.type)) @@ @]

\* A node whose operands have their names.
Written(st, e) ==
  CASE ~st.ok            -> st
    [] e.k = "tuple"     -> Tuple_(st, e.to, st.vals)
    [] e.k = "arraylit"  -> Elements(st, e.to, ArrayType(e.of), st.vals)
    [] e.k = "hash"      -> Hash(st, e.to, st.vals[1])
    [] e.k = "lookup"    -> Put(st, OneStatement(e, st.vals), {})
    [] OTHER             -> Put(st, OneStatement(e, st.vals), e.type)

IsLifted(e) == e.to # 0

Lower(st, e, loop) ==
  CASE ~st.ok            -> st
    [] e.k = "return"    -> LeaveWith(LowerArgs(st, e.kids, loop))
    [] e.k \in {"break", "continue"} -> LowerExit(st, e, loop)
    [] ~IsLifted(e)      -> LowerArgs(st, <<e>>, loop)
    [] e.k = "var"       -> Declare(st, e)
    [] e.k = "if"        -> LowerIf(st, e, loop)
    [] e.k = "while"     -> LowerWhile(st, e)
    [] e.k = "else"      -> LowerElse(st, e, loop)
    [] e.k = "pattern"   -> FoldLeftDomain(LAMBDA s, i : Part(s, e, i), st, e.kids)
    [] e.k = "assign"    -> Assign(st, e.to, e.kids[1], e.kids[2].num)
    [] OTHER             -> Written(LowerArgs(st, e.kids, loop), e)

-----------------------------------------------------------------------------
(* A function: the body is the label "start", and a value that is left at  *)
(* the end is returned.                                                    *)

LabelAt(done, l) == CHOOSE i \in DOMAIN done : done[i].label = l

Labels_(done) ==
  [i \in DOMAIN done |->
     [body |-> done[i].body,
      term |-> [done[i].term EXCEPT !.to = [j \in DOMAIN @ |-> LabelAt(done, @[j])]]]]

Closed(st) == IF st.label = 0 THEN st ELSE LeaveWith(st)

Lowered(f, st) ==
  [ok |-> st.ok,
   func |-> [once |-> f.once, params |-> f.params, ret |-> f.ret, labels |-> Labels_(st.done),
             vars |-> [i \in DOMAIN st.vars |-> [reg |-> st.vars[i], type |-> st.ty[st.vars[i]]]]]]

anf(f) == Lowered(f, Closed(LowerBody(Begin(f), f.source, NoLoop)))
=============================================================================
