-------------------------------- MODULE Meaning --------------------------------
(***************************************************************************)
(* What a program means as its author reads it: expressions are evaluated  *)
(* in place, blocks have values, a loop goes round until it is left. No    *)
(* labels, registers or instructions. The reference for what the compiler  *)
(* and the interpreter make of the same tree; only the arithmetic of the   *)
(* interpreter is taken over. Nothing says in which order the operands of  *)
(* an expression are evaluated: a program has a meaning from the left and  *)
(* one from the right.                                                     *)
(***************************************************************************)
EXTENDS Anf, VBCValues

\* Names are those of the innermost call. Objects, tuples and arrays are in
\* the heap by class, arrays and tuples with none. exit says how a block was
\* left: by running to its end, or by a break, continue or return. from is
\* the side that operands are evaluated from.
Sides == {"left", "right"}
Fresh(side) == [names |-> <<>>, heap |-> <<>>, out |-> <<>>, val |-> None, vals |-> <<>>,
                exit |-> "", from |-> side]

Absent  == <<"absent">>        \* the value nomatch
Held(h) == <<"at", h>>
Slot(h, i) == <<"slot", h, i>>
Named(d, x) == <<"name", d, x>>

Here(s) == Len(s.names)
Value_(s, x) == IF x \in DOMAIN s.names[Here(s)] THEN s.names[Here(s)][x] ELSE Invalid
Bind(s, d, x, v) == [s EXCEPT !.names[d] = (x :> v) @@ @]
Gives(s, v) == [s EXCEPT !.val = v]

FieldNo(P, s, h, f) ==
  SelectInSeq(P.classes[s.heap[h].class].fields, LAMBDA d : d.name = f)

Read(s, r) ==
  IF r[1] = "slot" THEN s.heap[r[2]].slots[r[3]] ELSE s.names[r[2]][r[3]]
Write(s, r, v) ==
  IF r[1] = "slot" THEN [s EXCEPT !.heap[r[2]].slots[r[3]] = v]
  ELSE Bind(s, r[2], r[3], v)

Make(s, class, vals) ==
  [s EXCEPT !.heap = Append(@, [class |-> class, slots |-> vals]), !.val = Held(Len(s.heap) + 1)]

\* Whether a value is of one of the types of a union.
Tag(s, v) ==
  CASE v = Absent    -> <<"class", "nomatch">>
    [] v[1] = "at"   -> <<"class", s.heap[v[2]].class>>
    [] OTHER         -> <<v[1]>>

RECURSIVE Evaluate(_, _, _, _)

\* One after the other, until one leaves.
Noted(s, vals) == [s EXCEPT !.vals = Append(vals, s.val)]

RECURSIVE EvaluateRest(_, _, _, _)
EvaluateRest(P, in, s, es) ==
  IF es = <<>> \/ s.exit # "" THEN s
  ELSE EvaluateRest(P, in, Noted(Evaluate(P, in, s, Head(es)), s.vals), Tail(es))

EvaluateAll(P, in, s, es) == EvaluateRest(P, in, [s EXCEPT !.vals = <<>>], es)

Backwards(s) == [s EXCEPT !.vals = Reverse(@)]
EvaluateOperands(P, in, s, es) ==
  IF s.from = "left" THEN EvaluateAll(P, in, s, es)
  ELSE Backwards(EvaluateAll(P, in, s, Reverse(es)))

Parameters(f, args) ==
  [x \in {p.reg : p \in ToSet(f.params)} |-> args[SelectInSeq(f.params, LAMBDA p : p.reg = x)]]

Back(s, names) == [s EXCEPT !.names = names, !.exit = ""]

Invoke(P, in, s, f, args) ==
  Back(EvaluateAll(P, in, [s EXCEPT !.names = Append(@, Parameters(P.funcs[f], args))],
                   P.funcs[f].source), s.names)

\* A loop has the value of its last round.
RECURSIVE Round(_, _, _, _)
AfterRound(P, in, s, e) ==
  CASE s.exit = "break"  -> [s EXCEPT !.exit = ""]
    [] s.exit = "return" -> s
    [] OTHER             -> Round(P, in, [s EXCEPT !.exit = ""], e)
AfterTest(P, in, s, e, v) ==
  IF s.val = Bool(TRUE) THEN AfterRound(P, in, EvaluateAll(P, in, s, e.body), e) ELSE Gives(s, v)
Round(P, in, s, e) == AfterTest(P, in, Evaluate(P, in, s, e.kids[1]), e, s.val)

AfterCondition(P, in, s, e) ==
  IF s.val = Bool(TRUE) THEN EvaluateAll(P, in, s, e.body) ELSE Gives(s, Absent)
AfterLeft(P, in, s, e) ==
  IF s.exit = "" /\ s.val = Absent THEN EvaluateAll(P, in, s, e.body) ELSE s

\* What the places of a pattern get of n elements: the splat what is left.
SplatAt(parts) == SelectInSeq(parts, LAMBDA p : p.k \in {"splatlet", "splatdontcare"})
Remaining(s, rest) ==
  CASE rest = <<>>   -> Gives(s, None)
    [] Len(rest) = 1 -> Gives(s, rest[1])
    [] OTHER         -> Make(s, "", rest)
Share(s, parts, all, i, k) ==
  CASE k = 0 /\ i > Len(all) -> Gives(s, Invalid)      \* there is none: refused later on
    [] (k = 0 /\ i <= Len(all)) \/ i < k -> Gives(s, all[i])
    [] k # 0 /\ i = k -> Remaining(s, SubSeq(all, k, Len(all) - Len(parts) + k))
    [] OTHER          -> Gives(s, all[Len(all) - Len(parts) + i])

\* The value of an assignment is what the place held.
RECURSIVE Assigned(_, _, _)
ToPart(s, p) == Assigned(s, p, s.val)

RECURSIVE MatchRest(_, _, _, _)
MatchRest(s, parts, all, i) ==
  IF i > Len(parts) THEN Make(s, "", s.vals)
  ELSE MatchRest(Noted(ToPart(Share(s, parts, all, i, SplatAt(parts)), parts[i]), s.vals),
                 parts, all, i + 1)

Assigned(s, p, v) ==
  CASE p.k = "tuple" -> MatchRest([s EXCEPT !.vals = <<>>], p.kids, s.heap[v[2]].slots, 1)
    [] p.k \in {"dontcare", "splatdontcare"} -> Gives(s, v)
    [] p.k \in {"let", "splatlet"} -> Gives(Bind(s, Here(s), p.num, v), v)
    [] p.k = "ref"   -> Gives(Write(s, p.of, v), Read(s, p.of))
    [] OTHER         -> Gives(Bind(s, Here(s), p.num, v), Value_(s, p.num))

\* A place is an operand of its assignment: it is found before the value to
\* put there, or after.
RECURSIVE PlaceOf(_, _, _, _)
RECURSIVE PlacesOf(_, _, _, _)
PlacesOf(P, in, s, es) ==
  IF es = <<>> THEN Gives(s, [Node EXCEPT !.k = "tuple", !.kids = s.vals])
  ELSE PlacesOf(P, in, Noted(PlaceOf(P, in, s, Head(es)), s.vals), Tail(es))

Referred(s) == Gives(s, [Node EXCEPT !.k = "ref", !.of = s.val])
PlaceOf(P, in, s, e) ==
  CASE e.k = "tuple" -> PlacesOf(P, in, [s EXCEPT !.vals = <<>>], e.kids)
    [] e.k = "ref"   -> Referred(Evaluate(P, in, s, e.kids[1]))
    [] e.k \in {"call", "calldyn"} ->
         Referred(Evaluate(P, in, s, [Node EXCEPT !.k = "ref", !.kids = <<e>>]))
    [] OTHER -> Gives(s, e)

AssignTo(s, p, v)       == IF s.exit = "" THEN Assigned(s, p, v) ELSE s
AfterRight(s, p)        == AssignTo(s, p, s.val)
AfterPlace(P, in, s, e) == AfterRight(Evaluate(P, in, s, e.kids[2]), s.val)
WithValue(s, v)         == AssignTo(s, s.val, v)
AfterValue(P, in, s, e) == WithValue(PlaceOf(P, in, s, e.kids[1]), s.val)

AssignBy(P, in, s, e) ==
  IF s.from = "left" THEN AfterPlace(P, in, PlaceOf(P, in, s, e.kids[1]), e)
  ELSE AfterValue(P, in, Evaluate(P, in, s, e.kids[2]), e)

\* What an expression gives for the values of its operands.
Apply(P, in, s, e) ==
  LET v == s.vals IN
  CASE e.k = "const"    -> Gives(s, Cast(e.name, e.num))
    [] e.k = "binop"    -> Gives(s, binop(BinaryOp[e.name], v[1], v[2]))
    [] e.k = "unop"     -> Gives(s, unop(UnaryOp[e.name], v[1]))
    [] e.k = "nulop"    -> Gives(s, None)
    [] e.k = "convert"  -> Gives(s, convert(v[1], e.name))
    [] e.k = "typetest" -> Gives(s, Bool(Tag(s, v[1]) \in e.of))
    [] e.k = "hash"     -> Gives(s, Cast("u64", v[1][2]))
    [] e.k = "field"    -> Gives(s, Slot(v[1][2], FieldNo(P, s, v[1][2], e.name)))
    [] e.k = "arrayref" -> Gives(s, Slot(v[1][2], v[2][2] + 1))
    [] e.k = "load"     -> Gives(s, Read(s, v[1]))
    [] e.k = "new"      -> Make(s, e.name, v)
    [] e.k = "newarray" -> Make(s, "", [i \in 1 .. v[1][2] |-> Cast((CHOOSE t \in e.of : TRUE)[1], 0)])
    [] e.k \in {"tuple", "arraylit"} -> Make(s, "", v)
    [] e.k = "return"   -> [s EXCEPT !.exit = "return"]
    [] e.k \in {"break", "continue"} -> [s EXCEPT !.exit = e.k]
    [] e.k = "ffi"      -> IF e.name = "input" THEN Gives(s, in)
                           ELSE Gives([s EXCEPT !.out = @ \o v], None)
    [] e.k = "call"     -> Invoke(P, in, s, e.name, v)
    [] e.k \in {"calldyn", "trycalldyn"} ->
         LET ms == P.classes[Tag(s, v[1])[2]].methods IN
         IF e.name \in DOMAIN ms THEN Invoke(P, in, s, ms[e.name], v) ELSE Gives(s, Absent)

AfterOperands(P, in, s, e) == IF s.exit = "" THEN Apply(P, in, s, e) ELSE s

Evaluate(P, in, s, e) ==
  CASE e.k \in {"local", "let", "var"} -> Gives(s, Value_(s, e.num))
    [] e.k = "if"     -> AfterCondition(P, in, Evaluate(P, in, s, e.kids[1]), e)
    [] e.k = "while"  -> Round(P, in, Gives(s, Absent), e)
    [] e.k = "else"   -> AfterLeft(P, in, Evaluate(P, in, s, e.kids[1]), e)
    [] e.k = "equals" -> AssignBy(P, in, s, e)
    [] e.k = "ref" /\ e.kids[1].k = "local" -> Gives(s, Named(Here(s), e.kids[1].num))
    [] IsRefCall(e) -> Evaluate(P, in, s, [e.kids[1] EXCEPT !.name = Hand(@, TRUE)])
    [] e.k = "seq"  -> EvaluateAll(P, in, s, e.kids)
    [] OTHER        -> AfterOperands(P, in, EvaluateOperands(P, in, s, e.kids), e)

\* What the program shows the outside.
Said(P, in, side) == Invoke(P, in, Fresh(side), "main", <<>>).out
=============================================================================
