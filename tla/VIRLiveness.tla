----------------------------- MODULE VIRLiveness -----------------------------
(***************************************************************************)
(* The last pass of virc: it finds where each register dies, turns the     *)
(* last use into a move or drops the register after it, and rejects a      *)
(* function that uses a register it has not defined or has given away.     *)
(***************************************************************************)
EXTENDS VIR

-----------------------------------------------------------------------------
(* The variables, as the first traversal knows them: a set of bits by the  *)
(* number of the register, which is declared once for all functions and    *)
(* never cleared, only cut to the words that the function needs.           *)

WordBits == 64   \* of the set

WordOf(n) == n \div WordBits
Kept(vars, size) == {n \in vars : WordOf(n) <= WordOf(size - 1)}

\* regs has the registers of a function in the order of their numbers, from 0.
NumberIn(regs, r) == SelectInSeq(regs, LAMBDA x : x = r) - 1

VarBits(vars, f, regs) == Kept(vars, Len(regs)) \cup {NumberIn(regs, r) : r \in VarsOf(f)}

\* For each function of a program, those its first traversal takes for variables.
FirstVars(P, regs) ==
  LET Next_(c, fn, bits) ==
        [vars |-> bits, of |-> (fn :> {regs[fn][n + 1] : n \in bits \cap 0 .. Len(regs[fn]) - 1}) @@ c.of]
  IN  FoldLeft(LAMBDA c, fn : Next_(c, fn, VarBits(c.vars, P.funcs[fn], regs[fn])),
               [vars |-> {}, of |-> <<>>], P.order).of

-----------------------------------------------------------------------------
(* What a statement does to registers, in the order of the traversal: an   *)
(* argument is a child, seen after a statement handled on the way down and *)
(* before one handled on the way up.                                       *)

Event(d, r, k) == [do |-> d, reg |-> r, arg |-> k]

SrcEvents(s) ==
  CASE s.op = "ref"                          -> <<>>
    [] s.op \in {"move", "return",
                 "tailcalldyn"}              -> <<Event("kill", s.src[1], 0)>>
    [] OTHER -> [i \in DOMAIN s.src |-> Event("use", s.src[i], 0)]

ArgEvents(s) ==
  [k \in DOMAIN s.args |->
     Event(IF s.args[k].move THEN "kill" ELSE "use", s.args[k].reg, k)]

DefEvents(s) == IF Defines(s) THEN <<Event("def", s.dst, 0)>> ELSE <<>>

HandledOnTheWayDown == {"store", "field", "ffi", "arrayref", "arrayrefconst"} \cup BulkOps

Events(s) ==
  CASE s.op = "drop" -> <<Event("kill", s.dst, 0)>>
    [] s.op \in HandledOnTheWayDown \cup Terminators
                     -> SrcEvents(s) \o DefEvents(s) \o ArgEvents(s)
    [] OTHER         -> ArgEvents(s) \o SrcEvents(s) \o DefEvents(s)

-----------------------------------------------------------------------------
(* One label: the sets the scan builds, and the body it rewrites.          *)

Nowhere == <<0, 0>>

EmptyLabel(f, l) ==
  [in |-> {}, defd |-> {}, dead |-> {}, out |-> {}, used |-> {},
   fdef |-> <<>>,                                 \* first definitions
   last |-> [r \in LocalsOf(f) |-> Nowhere],     \* last use: statement, argument
   body |-> f.labels[l].body, ok |-> TRUE]

automove(b, r) ==
  LET i == b.last[r][1]  k == b.last[r][2]  c == [b EXCEPT !.last[r] = Nowhere] IN
  IF i \notin DOMAIN b.body THEN c
  ELSE IF k # 0 THEN [c EXCEPT !.body[i].args[k].move = TRUE]
  ELSE IF b.body[i].op = "copy" THEN [c EXCEPT !.body[i].op = "move"]
  ELSE c

use(b, r, at) ==
  IF r \in b.dead THEN [b EXCEPT !.ok = FALSE]
  ELSE [b EXCEPT !.used = @ \cup {r}, !.out = @ \cup {r},
                 !.in = IF r \in b.out THEN @ ELSE @ \cup {r},
                 !.last[r] = at]

kill(b, r) ==
  IF r \in b.dead THEN [b EXCEPT !.ok = FALSE]
  ELSE [b EXCEPT !.used = @ \cup {r}, !.out = @ \ {r}, !.dead = @ \cup {r},
                 !.in = IF r \in b.out THEN @ ELSE @ \cup {r},
                 !.last[r] = Nowhere]

def(b, r, var, site) ==
  LET d == [b EXCEPT !.defd = @ \cup {r}]
      e == IF r \in b.out THEN automove(d, r)
           ELSE [d EXCEPT !.out = @ \cup {r}, !.dead = @ \ {r}]
  IN  IF ~var /\ (r \in b.defd \/ r \in b.in \/ r \in b.out)
      THEN [b EXCEPT !.ok = FALSE]
      ELSE [e EXCEPT !.fdef = @ @@ (r :> site),
                     !.last[r] = Nowhere]

Happen(vars, l, i, b, e) ==
  CASE e.do = "use"  -> use(b, e.reg, <<i, e.arg>>)
    [] e.do = "kill" -> kill(b, e.reg)
    [] e.do = "def"  -> def(b, e.reg, e.reg \in vars, <<l, i>>)

RECURSIVE ScanFrom(_, _, _, _, _)
ScanFrom(vars, l, block, b, i) ==
  IF b.ok \in BOOLEAN /\ i <= Len(block)
  THEN ScanFrom(vars, l, block,
                FoldLeft(LAMBDA c, e : Happen(vars, l, i, c, e), b, Events(block[i])), i + 1)
  ELSE b

Scan(f, vars, l) ==
  ScanFrom(vars, l, Append(f.labels[l].body, f.labels[l].term), EmptyLabel(f, l), 1)

RefsAreToVars(f, vars) ==
  \A l \in LabelsOf(f) : \A s \in ToSet(f.labels[l].body) :
     s.op = "ref" => s.src[1] \in vars

-----------------------------------------------------------------------------
(* Backward data flow: what a label's successors need, it must keep. Here  *)
(* the variables are those the function declares.                          *)

FlowStep(f, bs, l) ==
  LET b        == bs[l]
      new_out  == b.out \cup UNION {bs[s].in : s \in Succ(f, l)}
      new_defd == UNION {bs[s].defd : s \in Succ(f, l)}
      new_in   == (new_out \ b.out) \cup b.in
      fdef     == FoldLeft(LAMBDA d, s : d @@ bs[s].fdef, b.fdef, f.labels[l].term.to)
      redefined == \E s \in Succ(f, l) : \E r \in (b.defd \cap bs[s].defd) \ VarsOf(f) :
                      fdef[r] # bs[s].fdef[r]
  IN  [b EXCEPT !.ok   = @ /\ ~redefined /\ new_out \cap b.dead = {},
                !.defd = @ \cup new_defd,
                !.fdef = fdef,
                !.in   = new_in,
                !.out  = IF new_in = b.in THEN @ ELSE new_out]

\* The list after l, whose sets b has now.
NextLabels(f, bs, wl, b) ==
  IF ~b.ok THEN <<>>
  ELSE Tail(wl) \o IF b.in = bs[Head(wl)].in THEN <<>> ELSE Ascending(Pred(f, Head(wl)))

RECURSIVE Flow(_, _, _, _)
Flow(f, bs, wl, b) ==
  LET updated == [bs EXCEPT ![Head(wl)] = b]  rest == NextLabels(f, bs, wl, b) IN
  IF rest = <<>> THEN updated
  ELSE Flow(f, updated, rest, FlowStep(f, updated, Head(rest)))

\* Nothing is needed on entry but the parameters, and none is redefined.
EntryOk(f, b) ==
  /\ b.in \subseteq ParamsOf(f)
  /\ ParamsOf(f) \cap b.defd \subseteq VarsOf(f)

-----------------------------------------------------------------------------
(* A register that no successor needs is moved by its last use, if that is *)
(* a copy, or dropped after the statement of its last use, or after its    *)
(* definition when nothing uses it.                                        *)

\* Mutant: one successor is asked, not all of them.
UnneededByOne(f, bs, l) ==
  {r \in bs[l].out : Succ(f, l) = {} \/ \E s \in Succ(f, l) : r \notin bs[s].in}

Unneeded(f, bs, l) == bs[l].out \ UNION {bs[s].in : s \in Succ(f, l)}

Movable(b, r) ==
  LET i == b.last[r][1] IN
  i \in DOMAIN b.body /\ (b.last[r][2] # 0 \/ b.body[i].op = "copy")

DropsAfter(f, b, unneeded, i) ==
  {r \in unneeded :
     IF b.last[r] = Nowhere
     THEN /\ r \notin b.used \cup VarsOf(f)
          /\ Defines(b.body[i]) /\ b.body[i].dst = r
     ELSE b.last[r][1] = i /\ ~Movable(b, r)}

DropAndMove(f, bs, l) ==
  LET unneeded == Unneeded(f, bs, l)
      b        == bs[l]
      Drops(rs) == [k \in DOMAIN rs |-> Drop(rs[k])]
      Rewrite(moved) ==
        FlattenSeq([i \in DOMAIN b.body |->
           <<moved.body[i]>> \o Drops(Ascending(DropsAfter(f, b, unneeded, i)))])
  IN  Rewrite(FoldLeft(LAMBDA c, r : IF Movable(c, r) THEN automove(c, r) ELSE c,
                       b, Ascending(unneeded)))

\* The pass: [ok, func].
Solved(f, scanned) ==
  IF \E l \in LabelsOf(f) : ~scanned[l].ok THEN scanned
  ELSE Flow(f, scanned, [l \in LabelsOf(f) |-> l], FlowStep(f, scanned, 1))

LivenessWith(f, vars, bs) ==
  [ok   |-> /\ RefsAreToVars(f, vars)
            /\ \A l \in LabelsOf(f) : bs[l].ok
            /\ EntryOk(f, bs[1]),
   func |-> [f EXCEPT !.labels =
               [l \in LabelsOf(f) |-> [@[l] EXCEPT !.body = DropAndMove(f, bs, l)]]]]

Liveness(f, vars) == LivenessWith(f, vars, Solved(f, [l \in LabelsOf(f) |-> Scan(f, vars, l)]))
=============================================================================
