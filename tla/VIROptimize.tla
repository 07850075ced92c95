----------------------------- MODULE VIROptimize -----------------------------
(***************************************************************************)
(* The optimizer of virc: dynamic calls whose receiver's type is known     *)
(* become static, calls of functions of one label are replaced by their    *)
(* bodies, copies are propagated, and what became useless is removed.      *)
(***************************************************************************)
EXTENDS VIRMemo

-----------------------------------------------------------------------------
(* Phase A: devirtualize.                                                  *)

\* "" when the function cannot be told.
resolve_method(P, t, m) ==
  IF Cardinality(t) # 1 \/ t \in {Dyn, Unknown} THEN ""
  ELSE MethodByKind(P, CHOOSE a \in t : TRUE, m)

TargetOfCall(P, look, s) == resolve_method(P, look[s.src[1]].type, look[s.src[1]].method)

devirtualize(P, look, s) ==
  IF s.op \notin {"calldyn", "trycalldyn"} \/ ~look[s.src[1]].known THEN s
  ELSE LET f == TargetOfCall(P, look, s)  t == look[s.src[1]].type IN
       IF f # "" THEN Call(s.dst, f, s.args)
       ELSE IF s.op = "trycalldyn" /\ Cardinality(t) = 1 /\ t \notin {Dyn, Unknown}
       THEN Const(s.dst, "none", 0)
       ELSE s

-----------------------------------------------------------------------------
(* Phase B: inline. The registers the body defines get new names, the      *)
(* parameters are the caller's arguments, the result is the call's.        *)

Inlinable(P, caller, s) ==
  /\ s.op = "call" /\ s.name # caller
  /\ LET f == P.funcs[s.name] IN
       /\ ~f.once /\ Len(f.labels) = 1 /\ f.labels[1].term.op = "return"
       /\ Len(f.params) = Len(s.args)
       /\ f.labels[1].body = <<>> => f.labels[1].term.src[1] \in ParamsOf(f)

FirstFresh == 1000

\* Mutant: the last argument stands for every parameter.
LastArgument(f, s, r) == s.args[Len(s.args)].reg

\* What a parameter becomes.
ArgumentFor(f, s, r) == s.args[CHOOSE i \in DOMAIN f.params : f.params[i].reg = r].reg

inline(P, s, next) ==
  LET f        == P.funcs[s.name]
      body     == f.labels[1].body
      ret      == f.labels[1].term.src[1]
      arg(r)   == ArgumentFor(f, s, r)
      locals   == SelectSeq([i \in DOMAIN body |-> body[i].dst],
                            LAMBDA r : r \notin ParamsOf(f) \cup {ret})
      first(r) == CHOOSE i \in DOMAIN locals :
                     locals[i] = r /\ \A j \in 1 .. i - 1 : locals[j] # r
      order(r) == Cardinality({locals[i] : i \in 1 .. first(r)}) - 1
      name(r)  == CASE r \in ParamsOf(f)    -> arg(r)
                    [] r = ret              -> s.dst
                    [] r \in ToSet(locals)  -> next + order(r)
                    [] OTHER                -> r
      remap(c) == [c EXCEPT !.dst = name(@),
                            !.src = [i \in DOMAIN @ |-> name(@[i])],
                            !.args = [i \in DOMAIN @ |->
                              [reg  |-> name(@[i].reg),
                               move |-> @[i].move /\ @[i].reg \notin ParamsOf(f)]]]
      renamed(v) == v \notin ParamsOf(f) /\ v \in ToSet(locals) \cup {ret}
  IN  [body |-> [i \in DOMAIN body |-> remap(body[i])] \o
                (IF ret \in ParamsOf(f) THEN <<Copy(s.dst, arg(ret))>> ELSE <<>>),
       vars |-> LET vs == SelectSeq(f.vars, LAMBDA v : renamed(v.reg)) IN
                [i \in DOMAIN vs |-> [vs[i] EXCEPT !.reg = name(@)]],
       next |-> next + Cardinality(ToSet(locals))]

\* c is [func, next], l the label at hand and i the place of the call.
Splice(c, l, i, call) ==
  [c EXCEPT !.func.vars = @ \o call.vars,
            !.func.labels[l].body = SubSeq(@, 1, i-1) \o call.body \o SubSeq(@, i+1, Len(@)),
            !.next = call.next]

NextCall(P, fn, c, l) ==
  SelectInSeq(c.func.labels[l].body, LAMBDA s : Inlinable(P, fn, s))

RECURSIVE InlineFrom(_, _, _, _, _)
InlineFrom(P, fn, c, l, i) ==
  IF i = 0 THEN c
  ELSE LET spliced == Splice(c, l, i, inline(P, c.func.labels[l].body[i], c.next))
       IN  InlineFrom(P, fn, spliced, l, NextCall(P, fn, spliced, l))

InlineCalls(P, fn, c, l) == InlineFrom(P, fn, c, l, NextCall(P, fn, c, l))

-----------------------------------------------------------------------------
(* Phase C: the lookups of calls that became static.                       *)

RemoveDeadLookups(dead, body) ==
  LET still_used == {s.src[1] : s \in {x \in ToSet(body) :
                                        x.op \in {"calldyn", "trycalldyn"}}}
  IN  SelectSeq(body, LAMBDA s : ~(s.op \in {"lookup", "drop"}
                                   /\ s.dst \in dead \ still_used))

-----------------------------------------------------------------------------
(* Phase D: copy propagation within a label, for a destination that is no  *)
(* variable or parameter and is named in this label's body alone.          *)

Front1(s) == IF s.op \in Terminators THEN {} ELSE {s.dst}

Propagatable(f, l, i) ==
  LET body == f.labels[l].body  s == body[i] IN
  /\ s.op = "copy" /\ s.dst \notin VarsOf(f) \cup ParamsOf(f)
  /\ \A m \in LabelsOf(f) \ {l} : s.dst \notin BlockNames(f.labels[m])
  /\ s.dst \notin Names(f.labels[l].term)
  /\ \A j \in DOMAIN body \ {i} : s.dst \notin Front1(body[j])

ReplaceUses(s, dst, src) ==
  [s EXCEPT !.src  = [i \in DOMAIN @ |-> IF @[i] = dst THEN src ELSE @[i]],
            !.args = [i \in DOMAIN @ |->
                        IF @[i].reg = dst THEN [@[i] EXCEPT !.reg = src] ELSE @[i]]]

\* The statement at i goes, those after it use what it copied.
Propagated(body, i) ==
  SubSeq(body, 1, i-1) \o
  [k \in 1 .. Len(body) - i |-> ReplaceUses(body[i+k], body[i].dst, body[i].src[1])]

RECURSIVE PropagateCopies(_, _)
PropagateCopies(f, l) ==
  LET is == {i \in DOMAIN f.labels[l].body : Propagatable(f, l, i)} IN
  IF is = {} THEN f
  ELSE PropagateCopies([f EXCEPT !.labels[l].body = Propagated(@, Min(is))], l)

RemoveDeadCopies(f, l) ==
  LET all_used == UNION {UNION {Operands(s) : s \in ToSet(b.body)} \cup Names(b.term) :
                         b \in ToSet(f.labels)}
  IN  [f EXCEPT !.labels[l].body =
         SelectSeq(@, LAMBDA s : s.op = "copy" => s.dst \in all_used)]

-----------------------------------------------------------------------------
(* One function, label by label; then the tail calls.                      *)

\* c is [func, next, dead].
Devirtualized(P, look, c, l) ==
  LET Static(s)   == devirtualize(P, look, s)
      Changed(s)  == s.op \in {"calldyn", "trycalldyn"} /\ Static(s) # s
      body        == c.func.labels[l].body
  IN  [c EXCEPT !.func.labels[l].body = [i \in DOMAIN @ |-> Static(@[i])],
                !.dead = @ \cup {s.src[1] : s \in {x \in ToSet(body) : Changed(x)}}]

Pruned(c, l) == [c EXCEPT !.func.labels[l].body = RemoveDeadLookups(c.dead, @)]

WithoutCopies(c, l) == [c EXCEPT !.func = RemoveDeadCopies(PropagateCopies(@, l), l)]

OptimizeLabel(P, look, fn, c, l) ==
  WithoutCopies(Pruned(InlineCalls(P, fn, Devirtualized(P, look, c, l), l), l), l)

devirtualize_tail(P, look, t) ==
  IF t.op = "tailcalldyn" /\ look[t.src[1]].known /\ TargetOfCall(P, look, t) # ""
  THEN Tailcall(TargetOfCall(P, look, t), [i \in DOMAIN t.args |-> t.args[i].reg]) ELSE t

DevirtualizeTails(P, look, c) ==
  [c EXCEPT !.func.labels = [l \in DOMAIN @ |->
     [@[l] EXCEPT !.term = devirtualize_tail(P, look, @)]]]

OptimizeFunc(P, look, fn, next) ==
  DevirtualizeTails(P, look,
    FoldLeftDomain(LAMBDA c, l : OptimizeLabel(P, look, fn, c, l),
                   [func |-> P.funcs[fn], next |-> next, dead |-> {}], P.funcs[fn].labels))

\* The pass. look is, for each function, what the type check found.
Optimize(P, look) ==
  LET Put(c, fn, o) == [prog |-> [c.prog EXCEPT !.funcs[fn] = o.func], next |-> o.next]
      Step(c, fn)   == Put(c, fn, OptimizeFunc(c.prog, look[fn], fn, c.next))
  IN  FoldLeft(Step, [prog |-> P, next |-> FirstFresh], P.order).prog
=============================================================================
