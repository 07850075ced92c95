------------------------------- MODULE VIRMemo -------------------------------
(***************************************************************************)
(* The first pass of virc: once functions. Each becomes a function that    *)
(* computes its value and a stub that reads the value from a slot, and     *)
(* the program gets the order in which the slots are to be filled.         *)
(***************************************************************************)
EXTENDS VIR

OnceIds(P) == {f \in DOMAIN P.funcs : P.funcs[f].once}
InitOf(f)  == f \o "$once"

\* Enough of a type for each register to resolve a lookup: the last
\* statement that says something wins, whatever the control flow.
Learn(P, env, s) ==
  CASE s.op = "new"   -> [env EXCEPT ![s.dst] = Class(s.name)]
    [] s.op = "const" -> [env EXCEPT ![s.dst] = s.type]
    [] s.op = "call" /\ s.name \in DOMAIN P.funcs
                      -> [env EXCEPT ![s.dst] = P.funcs[s.name].ret]
    [] s.op \in {"copy", "move"} /\ env[s.src[1]] # Unknown
                      -> [env EXCEPT ![s.dst] = env[s.src[1]]]
    [] OTHER          -> env

RECURSIVE LearnFrom(_, _, _)
LearnFrom(P, env, stmts) ==
  IF DOMAIN env = {} \/ stmts = <<>> THEN env
  ELSE LearnFrom(P, Learn(P, env, Head(stmts)), Tail(stmts))

build_type_env(P, f) ==
  LearnFrom(P, [r \in LocalsOf(f) |->
                  IF r \in ParamsOf(f)
                  THEN (CHOOSE p \in ToSet(f.params) : p.reg = r).type ELSE Unknown],
            FlattenSeq([l \in LabelsOf(f) |-> f.labels[l].body]))

\* A method by the kind of the type alone: the first primitive of that kind.
MethodByKind(P, a, m) ==
  IF IsClass(a) THEN MethodOf(P.classes[a[2]].methods, m)
  ELSE LET i == SelectInSeq(P.prims, LAMBDA p : p.type[1] = a[1]) IN
       IF i = 0 THEN "" ELSE MethodOf(P.prims[i].methods, m)

\* Mutant: dynamic calls are forgotten.
StaticCallees(P, f) ==
  {s.name : s \in {x \in UNION {ToSet(b.body) : b \in ToSet(f.labels)} : x.op = "call"}}
  \cap DOMAIN P.funcs

\* What a function calls, as far as the pass can tell: static calls, and
\* dynamic calls whose lookup is in the function.
Callees(P, f) ==
  LET env    == build_type_env(P, f)
      stmts  == UNION {ToSet(b.body) : b \in ToSet(f.labels)}
      Looked(p) == UNION {{MethodByKind(P, a, s.name) : a \in env[s.src[1]]} :
                          s \in {x \in stmts : x.op = "lookup" /\ x.dst = p}}
  IN  ({s.name : s \in {x \in stmts : x.op = "call"}} \cup
       UNION {Looked(s.src[1]) : s \in {x \in stmts : x.op \in {"calldyn", "trycalldyn"}}})
      \cap DOMAIN P.funcs

\* The once functions that root reaches through functions that are not.
RECURSIVE find_deps(_, _, _)
find_deps(P, seen, new) ==
  IF new = {} THEN seen
  ELSE find_deps(P, seen \cup new,
         UNION {Callees(P, P.funcs[f]) : f \in new \ OnceIds(P)} \ (seen \cup new))

Edges(P, root) == find_deps(P, {}, Callees(P, P.funcs[root])) \cap OnceIds(P)

\* Depth first, a function after what it depends on. [ok, sorted, temp].
Leave(v, f) ==
  IF v.ok THEN [v EXCEPT !.temp = @ \ {f}, !.sorted = Append(@, f)] ELSE v

RECURSIVE topo_visit(_, _, _)
topo_visit(P, v, f) ==
  IF ~v.ok \/ f \in ToSet(v.sorted) THEN v
  ELSE IF f \in v.temp THEN [v EXCEPT !.ok = FALSE]
  ELSE Leave(FoldLeft(LAMBDA w, d : topo_visit(P, w, d),
                      [v EXCEPT !.temp = @ \cup {f}], SetToSeq(Edges(P, f))), f)

Sorted(P) ==
  FoldLeft(LAMBDA v, f : topo_visit(P, v, f),
           [ok |-> TRUE, sorted |-> <<>>, temp |-> {}], SetToSeq(OnceIds(P)))

MemoReg == 99

Stub(P, f) ==
  [once |-> FALSE, params |-> <<>>, ret |-> P.funcs[f].ret,
   vars |-> <<[reg |-> MemoReg, type |-> Dyn]>>,
   labels |-> <<[body |-> <<MemoSlot(MemoReg, InitOf(f))>>, term |-> Return(MemoReg)]>>]

Split(P) ==
  LET inits == {InitOf(f) : f \in OnceIds(P)} IN
  [g \in DOMAIN P.funcs \cup inits |->
     IF g \in inits
     THEN [P.funcs[CHOOSE f \in OnceIds(P) : InitOf(f) = g] EXCEPT !.once = FALSE]
     ELSE IF g \in OnceIds(P) THEN Stub(P, g) ELSE P.funcs[g]]

\* The pass: [ok, prog].
MemoWith(P, v) ==
  [ok   |-> v.ok,
   prog |-> [P EXCEPT !.funcs = Split(P),
                      !.order = FlattenSeq([i \in DOMAIN @ |->
                                   IF @[i] \in OnceIds(P) THEN <<@[i], InitOf(@[i])>>
                                   ELSE <<@[i]>>]),
                      !.memo  = [i \in DOMAIN v.sorted |-> InitOf(v.sorted[i])]]]

Memo(P) == MemoWith(P, Sorted(P))
=============================================================================
