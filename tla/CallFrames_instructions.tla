---------------------- MODULE CallFrames_instructions ----------------------
(***************************************************************************)
(* The end of a run, the steps of a thread and its instructions, and what  *)
(* they show about a thread's registers: nothing is left behind the        *)
(* current frame, runs nest, and a register that refers to a variable      *)
(* outlives it.                                                            *)
(*                                                                         *)
(* CallFrames_registers says what the registers hold and shows it of the   *)
(* helpers, CallFrames_steps shows it of the calls of C++ in progress.     *)
(***************************************************************************)
EXTENDS CallFrames_steps

-------------------------------------------------------------------------------
(* A run is over *)
\* The thread goes on below the run, with its first register put back.
LEMMA Resumed ==
  ASSUME NEW t, Good(t), Kept(t), t.host # <<>>, Fitting(t.frames), Item(t).op \in RunOps,
         Item(t).depth = Depth(t), Depth(t) = 0 => Item(t).op = "run"
  PROVE  LET u == Written(Pop(t), ZeroAt(t.frames), Temporary(Item(t)))
         IN  /\ Form(u) /\ Kept(u) /\ ReadyNow(u) /\ SameBut(Pop(t), u) /\ u.frames = t.frames
             /\ u.args = t.args
<1> DEFINE F == t.frames
           L == t.locals
           a == t.args
           k == Upward(t.host)
           p0 == Pop(t)
           n == Len(p0.host)
           j == Upward(p0.host)
           z == ZeroAt(F)
           w == Temporary(Item(t))
           M == [L EXCEPT ![z] = w]
           u == Written(p0, z, w)
<1>1. /\ Form(t) /\ Form(p0) /\ n \in Nat /\ Sound(F, L, a, k, n + 1)
      /\ p0.frames = F /\ p0.locals = L /\ p0.args = a
      /\ \A p \in 1 .. n : j[p] = k[p]
      /\ k[n + 1] = Item(t) /\ Len(F) = Depth(t)
  BY TopKept DEF Alone
<1>2. DOMAIN L = 0 .. Slots - 1 /\ Layout(F) /\ Lim(F) \in Nat /\ Slots \in Nat
  BY <1>1, Ends, CallFramesAssumption DEF Sound, OK, Held1
<1>3. 0 \in 0 .. Slots - 1
  <2>1. Lim(F) + Registers["fin"] <= Slots /\ Registers["fin"] \in Nat \ {0}
    BY CallFramesAssumption DEF Fitting
  <2> HIDE DEF F
  <2> QED
    BY <1>2, <2>1
<1>4. DOMAIN M = 0 .. Slots - 1
  BY <1>2
<1>5. \A i \in 0 .. Slots - 1 : M[i] = IF i = ZeroAt(F) THEN Temporary(k[n + 1]) ELSE L[i]
  BY <1>1, <1>2
<1>6. Sound(F, M, a, j, n) /\ Ready(F, M, a, j, n)
  <2>1. k[n + 1].op \in RunOps /\ k[n + 1].depth = Len(F) /\ (Len(F) = 0 => k[n + 1].op = "run")
    BY <1>1
  <2>2. n \in Nat /\ Sound(F, L, a, k, n + 1)
    BY <1>1
  <2>3. \A p \in 1 .. n : j[p] = k[p]
    BY <1>1
  <2> HIDE DEF F, L, a, k, j, n, M
  <2> QED
    BY <1>3, <1>4, <1>5, <2>1, <2>2, <2>3, ResumeSound
<1>7. SameBut(p0, u) /\ u.locals = [p0.locals EXCEPT ![z] = w] /\ Shape(u)
  <2>1. Shape(p0)
    BY <1>1 DEF Form
  <2> HIDE DEF p0, z, w
  <2> QED
    BY <2>1 DEF Shape, Fields, Written, SameBut
<1> HIDE DEF u, M
<1>8. u.locals = M
  BY <1>1, <1>7 DEF M
<1>9. Form(u)
  BY <1>1, <1>7 DEF Form, HasDrain, SameBut
<1>10. Kept(u) /\ ReadyNow(u) /\ u.frames = t.frames /\ u.args = t.args
  BY <1>1, <1>6, <1>7, <1>8 DEF Kept, ReadyNow, SameBut
<1> QED
  BY <1>7, <1>9, <1>10 DEF u

\* The register that a run's result is in.
LEMMA ZeroIs ==
  ASSUME NEW t, Layout(t.frames)
  PROVE  ZeroAt(t.frames) = IF Depth(t) = 0 THEN 0 ELSE local(t, 0)
<1>1. Len(t.frames) \in Nat /\ \A d \in 1 .. Len(t.frames) : t.frames[d].base \in Nat
  BY DEF Layout
<1> QED
  BY <1>1 DEF ZeroAt, Depth, local, Top

\* A reference is dropped by a thread that has no arguments set up.
LEMMA DecGiven ==
  ASSUME NEW t, Form(t), Kept(t), ReadyNow(t), Calm(t), t.args = 0, NEW v
  PROVE  Kept(reg_dec(t, v)) /\ Given(reg_dec(t, v)) /\ Form(reg_dec(t, v))
<1>1. Drained(t, reg_dec(t, v)) /\ Kept(reg_dec(t, v))
  BY DecKept
<1>2. Calm(reg_dec(t, v)) /\ reg_dec(t, v).args = 0 /\ Form(reg_dec(t, v))
  BY <1>1, CalmDrained DEF Drained
<1> QED
  BY <1>1, <1>2, CalmGiven

LEMMA RethrowKept ==
  ASSUME NEW t, Good(t), Kept(t), Given(t), t.host # <<>>, Fitting(t.frames),
         Item(t).op = "rethrow"
  PROVE  Kept(rethrowStep(t, Item(t))) /\ Given(rethrowStep(t, Item(t)))
<1> DEFINE x == Item(t)
           p0 == Pop(t)
           u == Written(p0, ZeroAt(t.frames), Temporary(x))
           old == p0.locals[local(p0, 0)]
           v == IF Depth(p0) = 0 THEN p0 ELSE Assign(p0, local(p0, 0), x.saved)
           r == rethrowStep(t, x)
<1>1. /\ Form(t) /\ Form(p0) /\ p0.frames = t.frames /\ p0.locals = t.locals /\ p0.args = t.args
      /\ Level(x, Depth(t)) /\ IsCall(x) /\ Layout(t.frames) /\ Depth(p0) = Depth(t)
      /\ Depth(t) \in Nat
  BY TopKept DEF Alone, Sound, OK, Depth
<1>2. t.args = 0 /\ Calm(t) /\ Calm(p0)
  <2>1. x.op \notin TailOps \cup {"drop_args", "start", "callback", "tailcall"} /\ x.op # "run"
    BY DEF TailOps
  <2> QED
    BY <1>1, <2>1, IdleArgs
<1>3. x.depth = Depth(t) /\ x.op \in RunOps /\ After(x) = Depth(t)
  BY <1>1 DEF Level, RunOps, After, FloorOps
<1>4. Form(v) /\ Kept(v) /\ Given(v)
  <2>1. CASE Depth(t) = 0
    <3>1. Kept(p0)
      BY <1>3, PopKept
    <3>2. Given(p0)
      BY <1>1, <1>2, CalmGiven
    <3> QED
      BY <1>1, <2>1, <3>1, <3>2
  <2>2. CASE Depth(t) # 0
    <3>1. v = reg_dec(u, old)
      <4>1. ZeroAt(t.frames) = local(p0, 0)
        <5>1. ZeroAt(t.frames) = local(t, 0)
          BY <1>1, <2>2, ZeroIs
        <5>2. local(t, 0) = local(p0, 0)
          BY <1>1 DEF local, Top
        <5> QED
          BY <5>1, <5>2
      <4>2. Temporary(x) = x.saved
        BY DEF Temporary
      <4> HIDE DEF p0, x
      <4> QED
        BY <1>1, <2>2, <4>1, <4>2 DEF Assign, Written
    <3>2. Form(u) /\ Kept(u) /\ ReadyNow(u) /\ SameBut(p0, u)
      BY <1>3, <2>2, Resumed
    <3> HIDE DEF u, v, old
    <3>3. Calm(u) /\ u.args = 0
      BY <1>1, <1>2, <3>2 DEF SameBut, Calm
    <3> QED
      BY <3>1, <3>2, <3>3, DecGiven
  <2> QED
    BY <2>1, <2>2
<1>5. r = v \/ r = [v EXCEPT !.aborted = TRUE]
  BY DEF rethrowStep
<1> HIDE DEF v, r
<1>6. ASSUME r = [v EXCEPT !.aborted = TRUE] PROVE Kept(r) /\ Given(r)
  <2>1. r.frames = v.frames /\ r.locals = v.locals /\ r.args = v.args /\ r.host = v.host
    BY <1>4, <1>6 DEF Form, Shape, Fields
  <2> QED
    BY <1>4, <2>1, KeptSame
<1> QED
  BY <1>4, <1>5, <1>6 DEF r

LEMMA EndKept ==
  ASSUME NEW t, Good(t), Kept(t), Given(t), t.host # <<>>, Fitting(t.frames),
         Item(t).op = "run", Depth(t) = Item(t).depth
  PROVE  Kept(endStep(t, Item(t))) /\ Given(endStep(t, Item(t)))
<1> DEFINE x == Item(t)
           p0 == Pop(t)
           zero == IF Depth(t) = 0 THEN 0 ELSE local(t, 0)
           result == t.locals[zero]
           u == Written(p0, ZeroAt(t.frames), Temporary(x))
           r == endStep(t, x)
<1>1. /\ Form(t) /\ p0.args = t.args /\ Layout(t.frames) /\ IsCall(x)
  BY TopKept DEF Alone, Sound, OK
<1>2. t.args = 0 /\ Calm(p0)
  <2>1. x.op \notin TailOps \cup {"drop_args", "start", "callback", "tailcall"}
    BY DEF TailOps
  <2>2. Depth(t) \in Nat
    BY <1>1, FormFacts
  <2>3. ~(x.depth < Depth(t))
    BY <2>2
  <2> QED
    BY <1>1, <2>1, <2>3, IdleArgs
<1>3. u = [p0 EXCEPT !.locals[zero] = x.saved]
  <2>1. ZeroAt(t.frames) = zero
    BY <1>1, ZeroIs
  <2>2. Temporary(x) = x.saved
    BY DEF Temporary
  <2> HIDE DEF p0, x, zero
  <2> QED
    BY <2>1, <2>2 DEF Written
<1>4. r = send(u, result.of) \/ r = reg_dec(u, result)
  BY <1>3 DEF endStep
<1>5. Form(u) /\ Kept(u) /\ ReadyNow(u) /\ SameBut(p0, u)
  BY Resumed DEF RunOps
<1> HIDE DEF u, r, result
<1>6. Calm(u) /\ u.args = 0
  BY <1>1, <1>2, <1>5 DEF SameBut, Calm
<1>7. Given(u)
  BY <1>6, CalmGiven
<1>8. ASSUME r = send(u, result.of) PROVE Kept(r) /\ Given(r)
  <2>1. r.frames = u.frames /\ r.locals = u.locals /\ r.args = u.args /\ r.host = u.host
    BY <1>5, <1>8 DEF Form, Shape, Fields, send
  <2> QED
    BY <1>5, <1>7, <2>1, KeptSame
<1>9. ASSUME r = reg_dec(u, result) PROVE Kept(r) /\ Given(r)
  BY <1>5, <1>6, <1>9, DecGiven
<1> QED
  BY <1>4, <1>8, <1>9 DEF r

(* A run begins *)
ShelteredNow(t) == Sheltered(t.frames, t.locals, t.args, Upward(t.host), Len(t.host))
FirmNow(t) == Firm(t.frames, t.locals, t.args)
\* The run x is made with the frames F.
RunOn(F, L, x) ==
  /\ IsCall(x) /\ x.op = "run" /\ x.depth = Len(F)
  /\ x.saved = IF Len(F) = 0 THEN None ELSE L[F[Len(F)].base]
\* The first register has been moved out.
ZeroFreed(F, L, M) ==
  /\ DOMAIN M = 0 .. Slots - 1
  /\ \A i \in 0 .. Slots - 1 :
       M[i] = IF Len(F) >= 1 /\ i = F[Len(F)].base THEN None ELSE L[i]
\* The frame y of a function that takes the a arguments.
FrameOn(F, a, y) ==
  IsFrame(y) /\ y.func \in Functions /\ y.base = Lim(F) /\ y.dst = 0 /\ a <= Registers[y.func]
\* A frame is made above the run x, and the first register is free meanwhile.
LEMMA RunFrame ==
  ASSUME NEW F, NEW L, NEW a, NEW k, NEW n \in Nat, Sound(F, L, a, k, n), Strict(F, k, n),
         Sheltered(F, L, a, k, n), Firm(F, L, a), Fitting(F),
         NEW x, RunOn(F, L, x), NEW j, \A p \in 1 .. n : j[p] = k[p], j[n + 1] = x,
         NEW M, ZeroFreed(F, L, M), NEW y, FrameOn(F, a, y), NEW G, Grown(F, G, y)
  PROVE  Sound(G, M, 0, j, n + 1)
<1>1. Sound(F, L, a, j, n + 1)
  BY PushRun DEF RunOn
<1>2. Sound(F, M, a, j, n + 1)
  <2>1. DOMAIN M = 0 .. Slots - 1 /\ \A i \in 0 .. Slots - 1 : M[i] = L[i] \/ M[i] = None
    BY DEF ZeroFreed
  <2> DEFINE m == n + 1
  <2>2. Sound(F, L, a, j, m)
    BY <1>1
  <2> HIDE DEF m
  <2>3. Sound(F, M, a, j, m)
    BY <2>1, <2>2, WriteSound
  <2> QED
    BY <2>3 DEF m
<1>3. Len(F) >= 1 => 0 \in 0 .. Registers[F[Len(F)].func] - 1 /\ F[Len(F)].base \in 0 .. Slots - 1
  <2> SUFFICES ASSUME Len(F) >= 1
               PROVE  0 \in 0 .. Registers[F[Len(F)].func] - 1 /\ F[Len(F)].base \in 0 .. Slots - 1
    OBVIOUS
  <2> DEFINE d == Len(F)
  <2>1. OK(F, L, a, k, n) /\ Layout(F)
    BY DEF Sound, OK
  <2>2. d \in Nat /\ d >= 1
    BY <2>1, Ends
  <2>3. d \in 1 .. d
    BY <2>2
  <2>4. Registers[F[d].func] \in Nat \ {0}
    BY <2>1, <2>3, Ends
  <2>5. F[d].base \in 0 .. Slots - 1
    BY <2>1, <2>3, Framed1
  <2> HIDE DEF d
  <2>6. 0 \in 0 .. Registers[F[d].func] - 1
    BY <2>4
  <2> QED
    BY <2>5, <2>6 DEF d
<1>4. Len(F) = j[n + 1].depth =>
        y.dst = 0 /\ (Len(F) >= 1 => M[F[Len(F)].base] = None)
  BY <1>3 DEF ZeroFreed, FrameOn
<1>5. n + 1 >= 1 /\ j[n + 1].op = "run" /\ Lim(F) + Registers[y.func] <= Slots
      /\ (Len(F) >= 1 => y.dst \in 0 .. Registers[F[Len(F)].func] - 1)
  BY <1>3 DEF Fitting, FrameOn, RunOn
<1>6. IsFrame(y) /\ y.func \in Functions /\ y.base = Lim(F) /\ a <= Registers[y.func]
  BY DEF FrameOn
<1> DEFINE m == n + 1
<1>7. /\ Sound(F, M, a, j, m) /\ m >= 1 /\ j[m].op = "run"
      /\ (Len(F) = j[m].depth => y.dst = 0 /\ (Len(F) >= 1 => M[F[Len(F)].base] = None))
  BY <1>2, <1>4, <1>5
<1> HIDE DEF m
<1>8. Sound(G, M, 0, j, m)
  BY <1>5, <1>6, <1>7, FramePush
<1> QED
  BY <1>8 DEF m

LEMMA ThreadRunKept ==
  ASSUME NEW t, Form(t), Kept(t), StrictNow(t), ShelteredNow(t), FirmNow(t), Calm(t),
         Fitting(t.frames), NEW f \in Functions, NEW why, NEW typed, argsFit(t, f, typed)
  PROVE  Kept(thread_run(t, f, why, typed)) /\ Given(thread_run(t, f, why, typed))
<1> DEFINE F == t.frames
           L == t.locals
           a == t.args
           k == Upward(t.host)
           n == Len(t.host)
           saved == IF Depth(t) = 0 THEN None ELSE L[local(t, 0)]
           x == [op |-> "run", why |-> why, depth |-> Depth(t), saved |-> saved]
           s == IF Depth(t) = 0 THEN t ELSE MoveOut(t, local(t, 0))
           u == Push(s, <<x>>)
           y == [func |-> f, dst |-> 0, base |-> arg(u, 0), raise_target |-> Depth(u) + 1]
           r == Framed(u, f, 0)
<1>1. /\ Depth(t) \in Nat /\ Len(F) = Depth(t) /\ n \in Nat /\ Sound(F, L, a, k, n)
      /\ Layout(F) /\ Held1(F, L) /\ Shape(t) /\ IsSequence(F)
  BY FormFacts DEF Kept, Sound, OK, Form
<1>2. Shape(s) /\ s.frames = F /\ s.args = a /\ s.host = t.host /\ s.in_collection = t.in_collection
      /\ s.locals = IF Depth(t) = 0 THEN L ELSE [L EXCEPT ![local(t, 0)] = None]
  BY <1>1 DEF Shape, Fields, MoveOut
<1>3. Form(s)
  BY <1>1, <1>2 DEF Form, HasDrain
<1>4. Form(u) /\ Alone(s, u) /\ Onto(s, u, x)
  <2>1. x.op # "drain"
    OBVIOUS
  <2> HIDE DEF s, x
  <2> QED
    BY <1>3, <2>1, PushForm
<1>5. u.frames = F /\ u.args = a /\ Depth(u) = Depth(t) /\ u.locals = s.locals /\ Shape(u)
  BY <1>1, <1>2, <1>4 DEF Alone, Depth, Form
<1>6. thread_run(t, f, why, typed) = r
  <2>1. argsFit(u, f, typed)
    BY <1>5 DEF argsFit
  <2>2. thread_run(t, f, why, typed) = pushframe(u, f, 0, typed)
    BY <1>2 DEF thread_run, Run, Depth, MoveOut
  <2> HIDE DEF u
  <2> QED
    BY <2>1, <2>2 DEF pushframe
<1>7. arg(u, 0) = Lim(F)
  <2>1. arg(u, 0) = Lim(u.frames) + 0
    <3> HIDE DEF u
    <3> QED
      BY <1>1, <1>4, <1>5, ArgIs
  <2>2. Lim(F) \in Nat
    BY <1>1, Ends
  <2> HIDE DEF u
  <2> QED
    BY <1>5, <2>1, <2>2
<1> DEFINE j == Upward(u.host)
           G == Append(F, y)
           M == s.locals
<1>8. \A p \in 1 .. n : j[p] = k[p]
  BY <1>2, <1>4 DEF Onto
<1>9. j[n + 1] = x /\ Len(u.host) = n + 1
  BY <1>2, <1>4 DEF Onto
<1>10. IsCall(x) /\ x.op = "run" /\ x.depth = Len(F)
       /\ x.saved = IF Len(F) = 0 THEN None ELSE L[F[Len(F)].base]
  <2>1. Depth(t) # 0 => F[Depth(t)].base \in Nat
    BY <1>1 DEF Layout
  <2>2. Depth(t) # 0 => local(t, 0) = F[Depth(t)].base
    BY <2>1 DEF local, Top
  <2> QED
    BY <1>1, <2>2 DEF IsCall, Ops, FloorOps, RunOps
<1>11. DOMAIN M = 0 .. Slots - 1
       /\ \A i \in 0 .. Slots - 1 :
            M[i] = IF Len(F) >= 1 /\ i = F[Len(F)].base THEN None ELSE L[i]
  <2>1. Depth(t) # 0 => F[Depth(t)].base \in Nat
    BY <1>1 DEF Layout
  <2>2. Depth(t) # 0 => local(t, 0) = F[Depth(t)].base
    BY <2>1 DEF local, Top
  <2>3. DOMAIN L = 0 .. Slots - 1
    BY <1>1 DEF Held1
  <2>4. Depth(t) # 0 <=> Len(F) >= 1
    BY <1>1
  <2> HIDE DEF s, L
  <2> QED
    BY <1>1, <1>2, <2>2, <2>3, <2>4
<1>12. IsFrame(y) /\ y.func \in Functions /\ y.base = Lim(F) /\ y.dst = 0 /\ a <= Registers[y.func]
  <2>1. a = Params[f] /\ Params[f] <= Registers[f]
    BY CallFramesAssumption DEF argsFit
  <2> QED
    BY <1>7, <2>1 DEF IsFrame
<1>13. Grown(F, G, y)
  <2>1. PICK S : F \in Seq(S)
    BY <1>1 DEF IsSequence
  <2> HIDE DEF y
  <2>2. F \in Seq(S \cup {y})
    BY <2>1
  <2> QED
    BY <2>2, AppendProperties DEF Grown
<1>14. r.frames = G /\ r.locals = M /\ r.args = 0 /\ r.host = u.host
  BY <1>5 DEF Shape, Fields, Framed
<1>15. Sound(G, M, 0, j, n + 1)
  <2>1. Strict(F, k, n) /\ Sheltered(F, L, a, k, n) /\ Firm(F, L, a) /\ Fitting(F)
    BY DEF StrictNow, ShelteredNow, FirmNow
  <2>2. n \in Nat /\ Sound(F, L, a, k, n)
    BY <1>1
  <2>3. RunOn(F, L, x)
    BY <1>10 DEF RunOn
  <2>4. ZeroFreed(F, L, M)
    BY <1>11 DEF ZeroFreed
  <2>5. FrameOn(F, a, y)
    BY <1>12 DEF FrameOn
  <2>6. j[n + 1] = x
    BY <1>9
  <2> HIDE DEF F, L, a, k, j, n, M, G, x, y
  <2> QED
    BY <1>8, <1>13, <2>1, <2>2, <2>3, <2>4, <2>5, <2>6, RunFrame
<1>16. Calm(r)
  <2>1. Calm(s)
    BY <1>2 DEF Calm
  <2>2. x.op \notin {"start", "callback"}
    OBVIOUS
  <2>3. Calm(u)
    <3> HIDE DEF s, x, u
    <3> QED
      BY <1>4, <2>1, <2>2, CalmOnto
  <2> QED
    BY <1>14, <2>3 DEF Calm
<1> HIDE DEF r
<1>17. Kept(r)
  BY <1>9, <1>14, <1>15 DEF Kept
<1>18. Given(r)
  BY <1>14, <1>16, CalmGiven
<1> QED
  BY <1>6, <1>17, <1>18

\* What is right below the call on top found what there is beyond the frames.
LEMMA ShelteredBelow ==
  ASSUME NEW F, NEW L, NEW a, NEW k, NEW n \in Nat, OK(F, L, a, k, n + 1),
         Occupied(F, L, a, k, n + 1), k[n + 1].op \notin {"clear", "drain", "ffi"} \cup RunOps,
         n >= 2, k[n].op = "ffi", k[n - 1].op = "run", NEW j, \A p \in 1 .. n : j[p] = k[p]
  PROVE  Sheltered(F, L, a, j, n)
<1> SUFFICES ASSUME NEW i \in 0 .. Slots - 1, i >= Lim(F), L[i] # None, ~Pending(F, a, i)
             PROVE  \E p \in 1 .. n :
                      /\ j[p].op = "clear" /\ j[p].from <= i /\ i <= j[p].to
                      /\ \E q \in p + 1 .. n : /\ j[q].op = "drain" /\ NoRun(j, p, q)
                                               /\ IsVar(L[i]) => L[i].frame <= j[q].frame
  BY DEF Sheltered
<1>1. ~Waits(F, k, n + 1, 0)
  BY DEF Waits, RunOps
<1>2. PICK p \in 1 .. n + 1 : Drops(F, k, n + 1, p, i) /\ Open(k, n + 1, p, L[i])
  BY <1>1 DEF Occupied
<1>3. k[p].op = "clear" /\ k[p].from <= i /\ i <= k[p].to
  BY <1>2 DEF Drops
<1>4. p # n + 1 /\ p # n /\ p # n - 1
  BY <1>3
<1>5. p \in 1 .. n /\ n - 1 \in p + 1 .. n + 1
  BY <1>4
<1>6. ~NoRun(k, p, n + 1)
  BY <1>5 DEF NoRun, RunOps
<1>7. PICK q \in p + 1 .. n + 1 : /\ k[q].op = "drain" /\ NoRun(k, p, q)
                                  /\ IsVar(L[i]) => L[i].frame <= k[q].frame
  BY <1>2, <1>6 DEF Open
<1>8. q # n + 1
  BY <1>7
<1>9. q \in p + 1 .. n /\ q \in 1 .. n
  BY <1>5, <1>8
<1>10. NoRun(j, p, q)
  BY <1>5, <1>7, <1>9, SameNoRun
<1>11. j[p] = k[p] /\ j[q] = k[q]
  BY <1>5, <1>9
<1> QED
  BY <1>3, <1>5, <1>7, <1>9, <1>10, <1>11

\* When a call is done that is neither a run nor drops registers, others can be made.
LEMMA BelowReady ==
  ASSUME NEW t, Good(t), Kept(t), t.host # <<>>,
         Item(t).op \notin {"result", "unwind", "clear", "drain", "ffi"} \cup RunOps
  PROVE  StrictNow(Pop(t)) /\ ReadyNow(Pop(t))
         /\ (Pop(t).host # <<>> /\ Pop(t).host[1].op = "ffi" => ShelteredNow(Pop(t)))
<1> DEFINE F == t.frames
           L == t.locals
           a == t.args
           k == Upward(t.host)
           u == Pop(t)
           n == Len(u.host)
           j == Upward(u.host)
<1>1. /\ n \in Nat /\ Sound(F, L, a, k, n + 1) /\ k[n + 1] = Item(t)
      /\ \A p \in 1 .. n : j[p] = k[p]
      /\ u.frames = F /\ u.locals = L /\ u.args = a
      /\ u.host = <<>> <=> n = 0
      /\ u.host # <<>> => k[n] = u.host[1] /\ j[n] = u.host[1]
  BY TopKept DEF Alone
<1>2. StrictNow(u)
  BY TopStrict
<1>3. ASSUME u.host # <<>>, u.host[1].op = "ffi" PROVE Sheltered(F, L, a, j, n)
  <2>1. n >= 2 /\ Above(u.host[1], Tail(u.host)[1]) /\ j[n - 1] = Tail(u.host)[1]
    BY <1>3, NextBelow DEF Needy
  <2>2. n - 1 \in 1 .. n
    BY <1>1, <2>1
  <2>3. k[n - 1].op = "run"
    BY <1>1, <1>3, <2>1, <2>2 DEF Above
  <2>4. OK(F, L, a, k, n + 1) /\ Occupied(F, L, a, k, n + 1) /\ k[n].op = "ffi"
        /\ k[n + 1].op \notin {"clear", "drain", "ffi"} \cup RunOps
    BY <1>1, <1>3 DEF Sound
  <2>5. n \in Nat /\ \A p \in 1 .. n : j[p] = k[p]
    BY <1>1
  <2> HIDE DEF F, L, a, k, j, n
  <2> QED
    BY <2>1, <2>3, <2>4, <2>5, ShelteredBelow
<1>4. u.host # <<>> /\ u.host[1].op = "ffi" => ShelteredNow(u)
  BY <1>1, <1>3 DEF ShelteredNow
<1>5. n >= 1 => u.host # <<>> /\ j[n] = u.host[1]
  BY <1>1
<1>6. ReadyNow(u)
  BY <1>1, <1>2, <1>3, <1>5 DEF ReadyNow, Ready, StrictNow
<1> QED
  BY <1>2, <1>4, <1>6

\* What the call on top of the collector, a visit or C begins with.
LEMMA StartsNow ==
  ASSUME NEW t, Good(t), Kept(t), Given(t), t.host # <<>>, Item(t).op \in {"start", "callback"}
  PROVE  LET u == Pop(t)
         IN  /\ Form(u) /\ Kept(u) /\ StrictNow(u) /\ ShelteredNow(u) /\ FirmNow(u) /\ Calm(u)
             /\ u.frames = t.frames /\ u.args = t.args /\ t.args \in Nat
             /\ Item(t).op = "start" => t.args = 1 /\ Item(t).func = "fin"
             /\ Item(t).op = "callback" => /\ Item(t).func \in Functions
                                           /\ t.args <= Params[Item(t).func]
<1> DEFINE F == t.frames
           L == t.locals
           a == t.args
           k == Upward(t.host)
           u == Pop(t)
           n == Len(u.host)
           j == Upward(u.host)
           x == Item(t)
<1>1. /\ n \in Nat /\ Sound(F, L, a, k, n + 1) /\ k[n + 1] = x /\ Form(t) /\ Form(u)
      /\ \A p \in 1 .. n : j[p] = k[p]
      /\ u.frames = F /\ u.locals = L /\ u.args = a /\ Level(x, Depth(t)) /\ IsCall(x)
      /\ u.host = <<>> <=> n = 0
      /\ u.host # <<>> => j[n] = u.host[1] /\ Level(u.host[1], After(x))
      /\ Len(t.host) = n + 1 /\ Len(F) = Depth(t) /\ Under(x, u.host)
  BY TopKept DEF Alone
<1>2. After(x) = Depth(t) /\ x.frame = Depth(t)
  BY <1>1 DEF Level, After, FloorOps, RunOps
<1>3. Kept(u)
  BY <1>2, PopKept
<1>4. StrictNow(u) /\ (u.host # <<>> /\ u.host[1].op = "ffi" => ShelteredNow(u))
  BY BelowReady DEF RunOps
<1>5. u.host # <<>> /\ Above(x, u.host[1])
  BY <1>1 DEF Under, Needy
<1>6. ASSUME u.host[1].op \in {"visit", "drain"} PROVE ShelteredNow(u)
  <2>1. OK(F, L, a, j, n) /\ Occupied(F, L, a, j, n) /\ n >= 1
    BY <1>1, <1>3, <1>5 DEF Kept, Sound
  <2>2. j[n].op \in RunOps \cup TornOps \/ (j[n].op = "drain" /\ j[n].frame = Len(F))
    <3>1. j[n] = u.host[1]
      BY <1>1, <1>5
    <3>2. j[n].op = "drain" => j[n].frame = Len(F)
      BY <1>1, <1>2, <1>5, <3>1 DEF Level
    <3> QED
      BY <1>6, <3>1, <3>2 DEF TornOps, TeardownOps
  <2>3. ~Waits(F, j, n, 0)
    BY <1>1, <1>4, StrictIdle DEF StrictNow
  <2>4. Sheltered(F, L, a, j, n)
    <3> HIDE DEF F, L, a, j, n
    <3> QED
      BY <2>1, <2>2, <2>3, ShelteredTop
  <2> QED
    BY <1>1, <2>4 DEF ShelteredNow
<1>7. ShelteredNow(u)
  BY <1>4, <1>5, <1>6 DEF Above
<1>8. /\ \A i \in 0 .. Slots - 1 : Pending(F, a, i) => ~IsVar(L[i])
      /\ x.op = "start" => a = 1
      /\ x.op = "callback" => a <= Params[x.func]
  <2>1. n + 1 \in 1 .. n + 1
    BY <1>1
  <2> QED
    BY <1>1, <2>1 DEF Given, Args
<1>9. Placed(F, k, n + 1, n + 1) /\ a \in Nat
  BY <1>1 DEF Sound, OK, Called1
<1>10. FirmNow(u)
  BY <1>1, <1>8 DEF FirmNow, Firm
<1>11. Calm(u)
  BY <1>1, CalmBelow
<1> QED
  BY <1>1, <1>3, <1>4, <1>7, <1>8, <1>9, <1>10, <1>11 DEF Placed

LEMMA StartKept ==
  ASSUME NEW t, Good(t), Kept(t), Given(t), t.host # <<>>, Fitting(t.frames),
         Item(t).op = "start"
  PROVE  Kept(startStep(t, Item(t))) /\ Given(startStep(t, Item(t)))
<1> DEFINE u == Pop(t)
           f == Item(t).func
           why == Item(t).why
           typed == TRUE
<1>1. /\ Form(u) /\ Kept(u) /\ StrictNow(u) /\ ShelteredNow(u) /\ FirmNow(u) /\ Calm(u)
      /\ u.frames = t.frames /\ u.args = 1 /\ f = "fin"
  BY StartsNow
<1>2. argsFit(u, f, typed) /\ f \in Functions /\ Fitting(u.frames)
  BY <1>1, CallFramesAssumption DEF argsFit
<1>3. startStep(t, Item(t)) = thread_run(u, f, why, typed)
  BY DEF startStep
<1> HIDE DEF u, f, why, typed
<1> QED
  BY <1>1, <1>2, <1>3, ThreadRunKept

-------------------------------------------------------------------------------
(* Arguments are set up *)
\* The register of the next argument is free, or the collector is at work.
LEMMA ArgFree ==
  ASSUME NEW t, Form(t), Len(t.host) \in Nat, ShelteredNow(t),
         NEW i \in 0 .. Slots - 1, i >= Lim(t.frames), ~Pending(t.frames, t.args, i)
  PROVE  t.locals[i] = None \/ t.in_collection
<1> SUFFICES ASSUME t.locals[i] # None PROVE HasDrain(t)
  BY DEF Form
<1> DEFINE k == Upward(t.host)
           n == Len(t.host)
<1>1. PICK p \in 1 .. n : \E q \in p + 1 .. n : k[q].op = "drain"
  BY DEF ShelteredNow, Sheltered
<1>2. PICK q \in p + 1 .. n : k[q].op = "drain"
  BY <1>1
<1>3. q \in 1 .. n
  BY <1>2
<1> QED
  BY <1>2, <1>3 DEF HasDrain

\* One more argument: the thread is r then.
Passed1(t, v, r) ==
  /\ Form(r) /\ Kept(r) /\ r.frames = t.frames /\ r.args = t.args + 1 /\ r.host = t.host
  /\ r.locals = [t.locals EXCEPT ![Lim(t.frames) + t.args] = v]
LEMMA ArgKept ==
  ASSUME NEW t, Form(t), Kept(t), StrictNow(t), ShelteredNow(t), ~Above1(t, "ffi"),
         Lim(t.frames) + t.args < Slots, NEW v,
         Writable([t EXCEPT !.args = @ + 1], Lim(t.frames) + t.args, v)
  PROVE  Passed1(t, v, Assign([t EXCEPT !.args = @ + 1], arg(t, t.args), v))
<1> DEFINE F == t.frames
           L == t.locals
           a == t.args
           k == Upward(t.host)
           n == Len(t.host)
           i == Lim(F) + a
           u == [t EXCEPT !.args = @ + 1]
           r == Assign(u, arg(t, a), v)
<1>1. Sound(F, L, a, k, n) /\ OK(F, L, a, k, n)
  BY DEF Kept, Sound
<1>2. a \in Nat /\ n \in Nat /\ Layout(F) /\ Lim(F) \in Nat /\ Slots \in Nat
  BY <1>1, Ends, CallFramesAssumption DEF OK
<1>3. arg(t, a) = i
  <2>1. a \in Int
    BY <1>2
  <2> QED
    BY <1>2, <2>1, ArgIs
<1>4. /\ Shape(u) /\ u.frames = F /\ u.locals = L /\ u.args = a + 1 /\ u.host = t.host
      /\ u.in_collection = t.in_collection
  BY DEF Form, Shape, Fields
<1> HIDE DEF u
<1>5. Form(u)
  BY <1>4 DEF Form, HasDrain
<1>6. Kept(u)
  <2> DEFINE b == a + 1
  <2>1. b \in Nat /\ a <= b
    BY <1>2
  <2> HIDE DEF b, F, L, a, k, n
  <2>2. Sound(F, L, b, k, n)
    BY <1>1, <2>1, ArgsUp
  <2> QED
    BY <1>4, <2>2 DEF b, F, L, a, k, n, Kept
<1>7. StrictNow(u) /\ ~Above1(u, "ffi")
  BY <1>4 DEF StrictNow, Above1
<1>8. i \in 0 .. Slots - 1 /\ i >= Lim(F) /\ ~Pending(F, a, i)
  <2>1. Lim(F) + a < Slots
    OBVIOUS
  <2> HIDE DEF F, a
  <2> QED
    BY <1>2, <2>1 DEF Pending
<1>9. L[i] = None \/ t.in_collection
  BY <1>2, <1>8, ArgFree
<1>10. Writable(u, i, v)
  BY DEF u
<1> HIDE DEF i, r
<1>11. Assigned(u, i, v, Assign(u, i, v))
  BY <1>5, <1>6, <1>7, <1>10, AssignKept
<1>12. r = Assign(u, i, v)
  BY <1>3 DEF r
<1>13. r.host = u.host /\ r.frames = u.frames /\ r.args = u.args /\ Form(r) /\ Kept(r)
       /\ r.locals = [u.locals EXCEPT ![i] = v]
  BY <1>4, <1>9, <1>11, <1>12 DEF Assigned
<1> QED
  BY <1>4, <1>13 DEF Passed1, r, i, u

LEMMA CallbackStepKept ==
  ASSUME NEW t, Good(t), Kept(t), Given(t), t.host # <<>>, Fitting(t.frames),
         Item(t).op = "callback"
  PROVE  Kept(callbackStep(t, Item(t))) /\ Given(callbackStep(t, Item(t)))
<1> DEFINE F == t.frames
           L == t.locals
           a == t.args
           k == Upward(t.host)
           n == Len(t.host)
           u == Pop(t)
           f == Item(t).func
           why == "callback"
           typed == TRUE
           r == callbackStep(t, Item(t))
<1>1. /\ Form(u) /\ Kept(u) /\ StrictNow(u) /\ ShelteredNow(u) /\ FirmNow(u) /\ Calm(u)
      /\ u.frames = F /\ u.args = a /\ a \in Nat /\ f \in Functions /\ a <= Params[f]
  BY StartsNow
<1>2. Params[f] \in Nat /\ Params[f] <= Registers[f] /\ Registers[f] \in Nat
  BY <1>1, CallFramesAssumption
<1>3. CASE ~(a < Params[f])
  <2>1. argsFit(u, f, typed) /\ Fitting(u.frames)
    BY <1>1, <1>2, <1>3 DEF argsFit
  <2>2. r = thread_run(u, f, why, typed)
    BY <1>3 DEF callbackStep
  <2> HIDE DEF u, f, why, typed, r
  <2> QED
    BY <1>1, <2>1, <2>2, ThreadRunKept DEF r
<1>4. CASE a < Params[f]
  <2> DEFINE v == None
             i == Lim(F) + a
  <2>1. r = Assign([t EXCEPT !.args = @ + 1], arg(t, t.args), v)
    BY <1>4 DEF callbackStep
  <2>2. Form(t) /\ n \in Nat /\ Len(u.host) + 1 = n /\ u.locals = L
        /\ Layout(F) /\ Lim(F) \in Nat /\ k[n] = Item(t) /\ IsCall(Item(t))
        /\ \A p \in 1 .. Len(u.host) : k[p] = Upward(u.host)[p]
    BY TopKept, Ends DEF Sound, OK, Alone
  <2>3. StrictNow(t)
    BY TopStrict DEF RunOps
  <2>4. ShelteredNow(t)
    <3> DEFINE m == Len(u.host)
               j == Upward(u.host)
    <3>1. m \in Nat /\ n = m + 1 /\ \A p \in 1 .. m : k[p] = j[p]
      BY <2>2, FormFacts, <1>1
    <3>2. Sheltered(F, L, a, j, m)
      BY <1>1, <2>2 DEF ShelteredNow
    <3>3. Sheltered(F, L, a, k, m + 1)
      <4> HIDE DEF m, j, k, F, L, a, u
      <4> QED
        BY <3>1, <3>2, ShelteredPush
    <3> QED
      BY <3>1, <3>3 DEF ShelteredNow
  <2>5. ~Above1(t, "ffi")
    BY TopKept, PopForm DEF Above1
  <2>6. i < Slots
    <3>1. Lim(F) + Registers[f] <= Slots
      BY <1>1 DEF Fitting
    <3>2. Slots \in Nat
      BY CallFramesAssumption
    <3> HIDE DEF F, f, a
    <3> QED
      BY <1>1, <1>2, <1>4, <2>2, <3>1, <3>2
  <2>7. Writable([t EXCEPT !.args = @ + 1], i, v)
    BY DEF Writable
  <2>8. Passed1(t, v, r)
    <3> HIDE DEF v, r
    <3> QED
      BY <2>1, <2>2, <2>3, <2>4, <2>5, <2>6, <2>7, ArgKept
  <2> HIDE DEF r
  <2>9. r.frames = F /\ r.args = a + 1 /\ r.host = t.host
        /\ r.locals = [L EXCEPT ![i] = v] /\ Kept(r)
    BY <2>8 DEF Passed1
  <2>10. Firm(F, r.locals, a + 1)
    <3> SUFFICES ASSUME NEW e \in 0 .. Slots - 1, Pending(F, a + 1, e)
                 PROVE  ~IsVar(r.locals[e])
      BY DEF Firm
    <3>1. DOMAIN L = 0 .. Slots - 1
      BY DEF Kept, Sound, OK, Held1
    <3>2. e = i \/ Pending(F, a, e)
      <4> HIDE DEF F, a
      <4> QED
        BY <1>1, <2>2 DEF Pending
    <3>3. Pending(F, a, e) => ~IsVar(L[e])
      BY <1>1, <2>2 DEF FirmNow, Firm
    <3>4. e = i => r.locals[e] = None
      BY <2>9, <3>1
    <3>5. e # i => r.locals[e] = L[e]
      BY <2>9, <3>1
    <3> QED
      BY <3>2, <3>3, <3>4, <3>5 DEF IsVar, None
  <2>11. \A p \in 1 .. n : k[p].op \in {"start", "callback"} => p = n
    BY DEF Given, Args
  <2>12. Given(r)
    <3>1. n >= 1 /\ k[n].op = "callback" /\ a + 1 <= Params[k[n].func]
      <4>1. Len(u.host) \in Nat
        BY <1>1, FormFacts
      <4> QED
        BY <1>1, <1>2, <1>4, <2>2, <4>1
    <3>2. Args(F, r.locals, a + 1, k, n)
      <4> HIDE DEF F, a, k, n
      <4> QED
        BY <2>10, <2>11, <3>1 DEF Args, Taking, Firm
    <3> QED
      BY <2>9, <3>2 DEF Given
  <2> QED
    BY <2>9, <2>12 DEF r
<1> QED
  BY <1>3, <1>4

-------------------------------------------------------------------------------
(* The result of a call that failed *)
LEMMA WrittenNoneReady ==
  ASSUME NEW t, Form(t), Kept(t), ReadyNow(t), NEW i
  PROVE  ReadyNow(Written(t, i, None))
<1> DEFINE L == t.locals
           M == [L EXCEPT ![i] = None]
           u == Written(t, i, None)
<1>1. SameBut(t, u) /\ u.locals = M
  BY WriteKept DEF Writable
<1>2. DOMAIN L = 0 .. Slots - 1
  BY DEF Kept, Sound, OK, Held1
<1>3. \A e \in 0 .. Slots - 1 : M[e] = L[e] \/ M[e] = None
  BY <1>2
<1> HIDE DEF u, M, L
<1>4. Sheltered(t.frames, L, t.args, Upward(t.host), Len(t.host)) =>
        Sheltered(t.frames, M, t.args, Upward(t.host), Len(t.host))
  BY <1>3 DEF Sheltered
<1> QED
  BY <1>1, <1>4 DEF ReadyNow, Ready, SameBut, L, u

LEMMA AssignStepKept ==
  ASSUME NEW t, Good(t), Kept(t), Given(t), t.host # <<>>, Item(t).op = "assign"
  PROVE  /\ Kept(Assign(Pop(t), Item(t).slot, Item(t).value))
         /\ Given(Assign(Pop(t), Item(t).slot, Item(t).value))
<1> DEFINE x == Item(t)
           p0 == Pop(t)
           i == x.slot
           old == p0.locals[i]
           u == Written(p0, i, None)
<1>1. /\ Form(t) /\ Form(p0) /\ p0.args = t.args /\ Level(x, Depth(t))
      /\ Placed(t.frames, Upward(t.host), Len(p0.host) + 1, Len(p0.host) + 1)
      /\ Upward(t.host)[Len(p0.host) + 1] = x
  <2>1. /\ Sound(t.frames, t.locals, t.args, Upward(t.host), Len(p0.host) + 1)
        /\ Len(p0.host) \in Nat /\ Len(p0.host) + 1 \in 1 .. Len(p0.host) + 1
    BY TopKept
  <2> QED
    BY <2>1, TopKept DEF Alone, Sound, OK, Called1
<1>2. x.value = None
  BY <1>1 DEF Placed
<1>3. t.args = 0 /\ Calm(p0)
  <2>1. x.op \notin TailOps \cup {"drop_args", "start", "callback", "tailcall"} /\ x.op # "run"
    BY DEF TailOps
  <2> QED
    BY <1>1, <2>1, IdleArgs
<1>4. After(x) = Depth(t)
  BY <1>1 DEF Level, After, FloorOps, RunOps
<1>5. Kept(p0) /\ ReadyNow(p0)
  BY <1>4, PopKept, BelowReady DEF RunOps
<1>6. Form(u) /\ Kept(u) /\ SameBut(p0, u) /\ ReadyNow(u)
  <2>1. Writable(p0, i, None)
    BY DEF Writable
  <2> HIDE DEF p0, i
  <2> QED
    BY <1>1, <1>5, <2>1, WriteKept, WrittenNoneReady
<1>7. Assign(p0, i, x.value) = reg_dec(u, old)
  BY <1>2 DEF Assign, Written
<1> HIDE DEF u, old
<1>8. Calm(u) /\ u.args = 0
  BY <1>1, <1>3, <1>6 DEF SameBut, Calm
<1> QED
  BY <1>6, <1>7, <1>8, DecGiven

-------------------------------------------------------------------------------
(* A behavior is scheduled *)
\* The thread as it is when its arguments are still set up.
Before(t) == [Pop(t) EXCEPT !.args = Item(t).args]
Asked(t) ==
  LET b == Before(t)
  IN  /\ Shape(t) /\ IsSequence(t.host) /\ t.host # <<>> /\ t.args = 0
      /\ Form(b) /\ Kept(b) /\ RunsNow(b) /\ Calm(b)
\* The arguments have been taken, or hold nothing.
LEMMA TakenDown ==
  ASSUME NEW F, NEW L, NEW a, NEW k, NEW n, Sound(F, L, a, k, n), Runs(F, k, n),
         NEW M, DOMAIN M = 0 .. Slots - 1,
         \A i \in 0 .. Slots - 1 : M[i] = IF Pending(F, a, i) THEN None ELSE L[i]
  PROVE  Sound(F, M, 0, k, n)
<1>1. \A i \in 0 .. Slots - 1 : M[i] = L[i] \/ M[i] = None
  OBVIOUS
<1>2. Sound(F, M, a, k, n)
  BY <1>1, WriteSound
<1>3. \A i \in 0 .. Slots - 1 : Pending(F, a, i) => M[i] = None
  OBVIOUS
<1>4. Firm(F, M, a)
  BY <1>3 DEF Firm, IsVar, None
<1> QED
  BY <1>2, <1>3, <1>4, ArgsDown

LEMMA ScheduleKept ==
  ASSUME NEW t, Asked(t)
  PROVE  Kept(scheduleStep(t, Item(t))) /\ Given(scheduleStep(t, Item(t)))
<1> DEFINE x == Item(t)
           b == Before(t)
           F == b.frames
           L == b.locals
           a == b.args
           k == Upward(b.host)
           n == Len(b.host)
           u == Must(Pop(t), \A o \in x.passed : t.where[o] = Heap, "request_changed")
           M == [i \in DOMAIN u.locals |->
                   IF i \in arg(u, 0) .. arg(u, x.args - 1) THEN None ELSE u.locals[i]]
           c == [u EXCEPT !.locals = M]
           r == scheduleStep(t, x)
<1>1. Shape(Pop(t)) /\ Pop(t).args = 0
  BY PopFields DEF Asked
<1>2. /\ F = Pop(t).frames /\ L = Pop(t).locals /\ b.host = Pop(t).host /\ a = x.args
  BY <1>1 DEF Before, Shape, Fields
<1>3. /\ Shape(u) /\ u.frames = Pop(t).frames /\ u.locals = Pop(t).locals
      /\ u.host = Pop(t).host /\ u.args = 0
  BY <1>1 DEF Must, Shape, Fields
<1>4. Form(b) /\ Kept(b) /\ RunsNow(b) /\ Calm(b)
  BY DEF Asked
<1> HIDE DEF b, u, x
<1>5. Sound(F, L, a, k, n) /\ Runs(F, k, n) /\ Layout(F) /\ DOMAIN L = 0 .. Slots - 1 /\ a \in Nat
      /\ Lim(F) \in Nat
  BY <1>4, Ends DEF Kept, RunsNow, Sound, OK, Held1
<1>6. arg(u, 0) = Lim(F) /\ arg(u, x.args - 1) = Lim(F) + (a - 1)
  <2>1. \A i \in Int : arg(b, i) = Lim(F) + i
    BY <1>4, <1>5, ArgIs
  <2>2. arg(u, 0) = arg(b, 0) /\ arg(u, x.args - 1) = arg(b, x.args - 1)
    BY <1>2, <1>3 DEF arg, Depth, Top
  <2>3. arg(b, 0) = Lim(F) + 0 /\ arg(b, a - 1) = Lim(F) + (a - 1)
    BY <1>5, <2>1
  <2> HIDE DEF F, a
  <2> QED
    BY <1>2, <1>5, <2>2, <2>3
<1>7. DOMAIN M = 0 .. Slots - 1
      /\ \A i \in 0 .. Slots - 1 : M[i] = IF Pending(F, a, i) THEN None ELSE L[i]
  <2>1. DOMAIN M = 0 .. Slots - 1
    BY <1>2, <1>3, <1>5
  <2>2. ASSUME NEW i \in 0 .. Slots - 1
        PROVE  M[i] = IF Pending(F, a, i) THEN None ELSE L[i]
    <3>1. M[i] = IF i \in arg(u, 0) .. arg(u, x.args - 1) THEN None ELSE L[i]
      BY <1>2, <1>3, <1>5
    <3>2. i \in arg(u, 0) .. arg(u, x.args - 1) <=> Pending(F, a, i)
      <4> HIDE DEF F, a
      <4> QED
        BY <1>5, <1>6 DEF Pending
    <3> HIDE DEF M
    <3> QED
      BY <3>1, <3>2
  <2> QED
    BY <2>1, <2>2
<1>8. Shape(c) /\ c.frames = F /\ c.locals = M /\ c.args = 0 /\ c.host = b.host
  BY <1>2, <1>3 DEF Shape, Fields
<1>9. \E o : r = c \/ r = send(c, o)
  BY DEF scheduleStep, u, x
<1> HIDE DEF M, c, r
<1>10. Sound(F, M, 0, k, n)
  <2> HIDE DEF F, L, a, k, n
  <2> QED
    BY <1>5, <1>7, TakenDown
<1>11. r.frames = F /\ r.locals = M /\ r.args = 0 /\ r.host = b.host
  BY <1>8, <1>9 DEF Shape, Fields, send
<1>12. Kept(r) /\ Calm(r)
  BY <1>4, <1>10, <1>11 DEF Kept, Calm
<1>13. Given(r)
  BY <1>11, <1>12, CalmGiven
<1> QED
  BY <1>12, <1>13 DEF r, x

-------------------------------------------------------------------------------
(* Any step between two instructions *)
\* After a step, unless an assert failed.
Whole(r) == Kept(r) /\ (r.broken = {} => Given(r))
LEMMA HostKept ==
  ASSUME NEW t, Good(t), Kept(t), Given(t), Fitting(t.frames), ~Settled(t)
  PROVE  Whole(hostStep(t))
<1> DEFINE x == Item(t)
<1>1. /\ t.host # <<>> /\ x.op # "ffi" /\ (x.op = "run" => Depth(t) = x.depth)
  BY DEF Settled
<1>2. x.op \in Ops
  BY <1>1, TopFacts DEF IsCall
<1>3. CASE x.op = "clear"
  BY <1>1, <1>3, ClearKept DEF hostStep, Whole
<1>4. CASE x.op = "visit"
  BY <1>1, <1>4, VisitKept DEF hostStep, Whole
<1>5. CASE x.op = "collect"
  BY <1>1, <1>5, CollectStepKept DEF hostStep, Whole
<1>6. CASE x.op = "leave"
  BY <1>1, <1>6, LeaveKept DEF hostStep, Whole
<1>7. CASE x.op = "restore"
  BY <1>1, <1>7, RestoreKept DEF hostStep, Whole
<1>8. CASE x.op = "drain"
  BY <1>1, <1>8, DrainKept DEF hostStep, Whole
<1>9. CASE x.op = "pop"
  BY <1>1, <1>9, PopStepKept DEF hostStep, Whole
<1>10. CASE x.op = "result"
  BY <1>1, <1>10, ResultKept DEF hostStep, Whole
<1>11. CASE x.op = "raise"
  BY <1>1, <1>11, RaiseStepKept DEF hostStep, Whole
<1>12. CASE x.op = "tailcall"
  BY <1>1, <1>12, TailcallStepKept DEF hostStep, Whole
<1>13. CASE x.op = "unwind"
  BY <1>1, <1>13, UnwindKept DEF hostStep, Whole
<1>14. CASE x.op = "rethrow"
  BY <1>1, <1>14, RethrowKept DEF hostStep, Whole
<1>15. CASE x.op = "start"
  BY <1>1, <1>15, StartKept DEF hostStep, Whole
<1>16. CASE x.op = "callback"
  BY <1>1, <1>16, CallbackStepKept DEF hostStep, Whole
<1>17. CASE x.op = "assign"
  BY <1>1, <1>17, AssignStepKept DEF hostStep, Whole
<1>18. CASE x.op = "drop_args"
  BY <1>1, <1>18, DropStepKept DEF hostStep, Whole
<1>19. CASE x.op = "throw"
  BY <1>1, <1>19, ThrowStepKept DEF hostStep, Whole
<1>20. CASE x.op = "run"
  BY <1>1, <1>20, EndKept DEF hostStep, Whole
<1> QED
  BY <1>1, <1>2, <1>3, <1>4, <1>5, <1>6, <1>7, <1>8, <1>9, <1>10, <1>11, <1>12, <1>13, <1>14,
     <1>15, <1>16, <1>17, <1>18, <1>19, <1>20 DEF Ops

-------------------------------------------------------------------------------
(* Instructions *)
\* What a thread that runs instructions is like.
Works(t) == Form(t) /\ Kept(t) /\ RunsNow(t) /\ Calm(t)
\* A value that an instruction may put into a register.
Usable(t, v) ==
  /\ Valid(t.frames, v)
  /\ \A p \in 1 .. Len(t.host) :
       Wall(Upward(t.host), Len(t.host), p) => Passes(Upward(t.host), p, v)
InFrame1(t, i) == i \in 0 .. Registers[Top(t).func] - 1
LEMMA RunningWorks ==
  ASSUME Good(thread), Kept(thread), Given(thread), Running
  PROVE  Works(thread) /\ thread.host # <<>> /\ thread.host[1].op = "run"
         /\ Item(thread) = thread.host[1]
<1> DEFINE t == thread
<1>1. /\ Above1(t, "run") /\ Item(t) = t.host[1] /\ Item(t).depth < Depth(t)
      /\ t.host # <<>>
  BY RunningOK DEF Above1
<1>2. /\ Form(t) /\ Len(t.host) = Len(Pop(t).host) + 1 /\ Len(Pop(t).host) \in Nat
      /\ Upward(t.host)[Len(Pop(t).host) + 1] = Item(t) /\ Len(t.frames) = Depth(t)
  BY <1>1, TopKept
<1>3. RunsNow(t)
  BY <1>1, <1>2 DEF RunsNow, Runs, Above1
<1>4. Calm(t)
  BY <1>1, <1>2, CalmBelow DEF Above1
<1> QED
  BY <1>1, <1>2, <1>3, <1>4 DEF Works, Above1

\* The registers of the frame that runs.
LEMMA LocalUsable ==
  ASSUME NEW t, Works(t), NEW i, InFrame1(t, i)
  PROVE  /\ local(t, i) \in 0 .. Slots - 1 /\ local(t, i) < Lim(t.frames)
         /\ t.frames[Len(t.frames)].base <= local(t, i)
         /\ Usable(t, t.locals[local(t, i)])
         /\ local(t, i) = t.frames[Len(t.frames)].base + i
<1> DEFINE F == t.frames
           L == t.locals
           a == t.args
           k == Upward(t.host)
           n == Len(t.host)
           d == Len(F)
           e == local(t, i)
<1>1. OK(F, L, a, k, n) /\ Runs(F, k, n) /\ Layout(F) /\ Lim(F) <= Slots /\ Held1(F, L)
  BY DEF Works, Kept, Sound, OK, RunsNow
<1>2. d \in Nat /\ d >= 1
  BY <1>1, RunsStrict
<1>3. d \in 1 .. d /\ Depth(t) = d
  BY <1>2 DEF Depth
<1>4. /\ F[d].base \in Nat /\ Registers[F[d].func] \in Nat
      /\ Lim(F) = F[d].base + Registers[F[d].func] /\ Lim(F) \in Nat
  BY <1>1, <1>3, Ends
<1>5. i \in 0 .. Registers[F[d].func] - 1 /\ e = F[d].base + i
  BY <1>3 DEF InFrame1, Top, local
<1>6. Slots \in Nat
  BY CallFramesAssumption
<1> HIDE DEF e, d, F
<1>7. e \in 0 .. Slots - 1 /\ e < Lim(F) /\ F[d].base <= e
  <2> DEFINE b == F[d].base
             g == Registers[F[d].func]
             l == Lim(F)
  <2>1. /\ b \in Nat /\ g \in Nat /\ l = b + g /\ l <= Slots /\ Slots \in Nat
        /\ i \in 0 .. g - 1 /\ e = b + i
    BY <1>1, <1>4, <1>5, <1>6
  <2> HIDE DEF b, g, l
  <2>2. e \in 0 .. Slots - 1 /\ e < l /\ b <= e
    BY <2>1
  <2> QED
    BY <2>2 DEF b, l
<1>8. \A p \in 1 .. n : Wall(k, n, p) => Passes(k, p, L[e])
  <2> HIDE DEF L, k, n, a
  <2> QED
    BY <1>1, <1>7, TopRegisters DEF d
<1>9. Valid(F, L[e])
  BY <1>1, <1>7 DEF Held1, Holds
<1> QED
  BY <1>5, <1>7, <1>8, <1>9 DEF Usable, e, d, F

\* What is usable may be put into any register of the frame, and beyond it.
LEMMA UsableWritable ==
  ASSUME NEW t, Works(t), NEW v, Usable(t, v), NEW i \in 0 .. Slots - 1,
         t.frames[Len(t.frames)].base <= i, i < Lim(t.frames) \/ Pending(t.frames, t.args, i)
  PROVE  Writable(t, i, v)
<1> DEFINE F == t.frames
           L == t.locals
           a == t.args
           k == Upward(t.host)
           n == Len(t.host)
<1>1. OK(F, L, a, k, n) /\ Runs(F, k, n) /\ Layout(F)
  BY DEF Works, Kept, Sound, OK, RunsNow
<1>2. Holds(F, i, v)
  <2> SUFFICES ASSUME IsVar(v) PROVE F[v.frame].base <= i
    BY DEF Usable, Holds
  <2>1. v.frame \in 1 .. Len(F)
    BY DEF Usable, Valid
  <2>2. F[v.frame].base \in Nat /\ F[Len(F)].base \in Nat /\ F[v.frame].base <= F[Len(F)].base
    BY <1>1, <2>1, EndsBelow
  <2>3. F[Len(F)].base <= i
    OBVIOUS
  <2> HIDE DEF F
  <2> QED
    BY <2>2, <2>3
<1>3. Admits(F, a, k, n, i, v)
  <2>1. F[Len(F)].base <= i /\ \A p \in 1 .. n : Wall(k, n, p) => Passes(k, p, v)
    BY DEF Usable
  <2>2. i >= F[Len(F)].base
    BY <2>1
  <2> HIDE DEF F, L, a, k, n
  <2> QED
    BY <1>1, <1>2, <2>1, <2>2, WriteHere
<1> QED
  BY <1>3 DEF Writable
\* Values that refer to no variable, and the values that others hold.
LEMMA PlainUsable ==
  ASSUME NEW t, NEW v, ~IsVar(v)
  PROVE  Usable(t, v)
BY DEF Usable, Valid, Passes
LEMMA UsableSame ==
  ASSUME NEW t, NEW u, u.frames = t.frames, u.host = t.host, NEW v
  PROVE  /\ Usable(t, v) <=> Usable(u, v)
         /\ \A i : InFrame1(u, i) <=> InFrame1(t, i)
         /\ \A i : local(u, i) = local(t, i)
BY DEF Usable, InFrame1, Top, Depth, local
\* A thread that works goes on with other registers or other objects.
LEMMA WorksMoved ==
  ASSUME NEW t, Works(t), NEW u, Moved1(t, u)
  PROVE  Works(u)
BY MovedKept DEF Works
LEMMA WorksWritten ==
  ASSUME NEW t, Works(t), NEW i, NEW v, Writable(t, i, v)
  PROVE  Works(Written(t, i, v)) /\ SameBut(t, Written(t, i, v))
         /\ Written(t, i, v).locals = [t.locals EXCEPT ![i] = v]
<1>1. /\ Form(Written(t, i, v)) /\ Kept(Written(t, i, v)) /\ SameBut(t, Written(t, i, v))
      /\ Written(t, i, v).locals = [t.locals EXCEPT ![i] = v]
  BY WriteKept DEF Works
<1> QED
  BY <1>1 DEF Works, RunsNow, Calm, SameBut
\* The counts of objects do not matter.
LEMMA IncMoved ==
  ASSUME NEW t, Works(t), NEW v
  PROVE  Moved1(t, reg_inc(t, v))
BY DEF Works, Form, Shape, Fields, reg_inc, Moved1

LEMMA SetKept ==
  ASSUME NEW t, Works(t), t.args = 0, NEW dst, InFrame1(t, dst), NEW v, Usable(t, v)
  PROVE  Whole(Set(t, dst, v))
<1> DEFINE i == local(t, dst)
           r == Assign(t, i, v)
<1>1. Writable(t, i, v)
  <2>1. i \in 0 .. Slots - 1 /\ i < Lim(t.frames) /\ t.frames[Len(t.frames)].base <= i
    BY LocalUsable
  <2> HIDE DEF i
  <2> QED
    BY <2>1, UsableWritable
<1>2. StrictNow(t) /\ ~Above1(t, "ffi")
  BY RunsReady DEF Works
<1> HIDE DEF i
<1>3. Assigned(t, i, v, r)
  BY <1>1, <1>2, AssignKept DEF Works
<1>4. Kept(r) /\ Given(r)
  BY <1>3 DEF Assigned, Works
<1> QED
  BY <1>4 DEF Whole, Set, i

LEMMA FaultKept ==
  ASSUME Works(thread), Fault
  PROVE  Whole(thread')
<1>1. thread.args = 0 /\ thread' = throw(thread, None)
  BY DEF Fault, Plain, Do
<1>2. Kept(throw(thread, None)) /\ Given(throw(thread, None))
  BY <1>1, ThrowKept DEF Works
<1> QED
  BY <1>1, <1>2 DEF Whole

LEMMA NewKept ==
  ASSUME Works(thread), NEW o, NEW place, NEW dst, New(o, place, dst)
  PROVE  Whole(thread')
<1> DEFINE u == [thread EXCEPT !.where[o] = place, !.rc[o] = 1, !.finalized[o] = 0]
           v == Ref(o)
<1>1. thread.args = 0 /\ InFrame1(thread, dst) /\ thread' = Set(u, dst, v)
  BY DEF New, Plain, Locals, InFrame1, Do
<1>2. Moved1(thread, u)
  BY DEF Works, Form, Shape, Fields, Moved1
<1> HIDE DEF u
<1>3. Works(u) /\ u.args = 0 /\ InFrame1(u, dst)
  BY <1>1, <1>2, WorksMoved, UsableSame DEF Moved1
<1>4. Usable(u, v)
  BY PlainUsable DEF Ref, IsVar
<1> HIDE DEF v
<1> QED
  BY <1>1, <1>3, <1>4, SetKept

\* Something that a register held is put into another one.
LEMMA IncSetKept ==
  ASSUME Works(thread), thread.args = 0, NEW v, Usable(thread, v), NEW dst, InFrame1(thread, dst)
  PROVE  Whole(Set(reg_inc(thread, v), dst, v))
<1> DEFINE u == reg_inc(thread, v)
<1>1. Moved1(thread, u)
  BY IncMoved
<1> HIDE DEF u
<1>2. Works(u) /\ u.args = 0 /\ InFrame1(u, dst) /\ Usable(u, v)
  BY <1>1, WorksMoved, UsableSame DEF Moved1
<1>3. Whole(Set(u, dst, v))
  BY <1>2, SetKept
<1> QED
  BY <1>3 DEF u

LEMMA CopyKept ==
  ASSUME Works(thread), NEW src, NEW dst, Copy(src, dst)
  PROVE  Whole(thread')
<1>1. /\ thread.args = 0 /\ InFrame1(thread, src) /\ InFrame1(thread, dst)
      /\ thread' = Set(reg_inc(thread, Get(src)), dst, Get(src))
  BY DEF Copy, Plain, Locals, InFrame1, Do
<1>2. Usable(thread, Get(src))
  BY <1>1, LocalUsable DEF Get
<1> QED
  BY <1>1, <1>2, IncSetKept

\* A register is moved out.
LEMMA TakenWorks ==
  ASSUME NEW t, Works(t), NEW i, InFrame1(t, i)
  PROVE  LET u == MoveOut(t, local(t, i))
         IN  /\ Works(u) /\ SameBut(t, u) /\ Usable(u, t.locals[local(t, i)])
             /\ u.locals = [t.locals EXCEPT ![local(t, i)] = None]
<1> DEFINE u == MoveOut(t, local(t, i))
<1>1. u = Written(t, local(t, i), None)
  BY DEF MoveOut, Written
<1>2. Writable(t, local(t, i), None)
  BY DEF Writable
<1> HIDE DEF u
<1>3. Works(u) /\ SameBut(t, u) /\ u.locals = [t.locals EXCEPT ![local(t, i)] = None]
  BY <1>1, <1>2, WorksWritten
<1>4. Usable(t, t.locals[local(t, i)])
  BY LocalUsable
<1>5. Usable(u, t.locals[local(t, i)])
  BY <1>3, <1>4, UsableSame DEF SameBut
<1> QED
  BY <1>3, <1>5 DEF u

LEMMA MoveKept ==
  ASSUME Works(thread), NEW src, NEW dst, Move(src, dst)
  PROVE  Whole(thread')
<1> DEFINE v == Get(src)
           u == Taken(src)
<1>1. /\ thread.args = 0 /\ InFrame1(thread, src) /\ InFrame1(thread, dst)
      /\ thread' = Set(u, dst, v)
  BY DEF Move, Plain, Locals, InFrame1, Do
<1>2. Works(u) /\ SameBut(thread, u) /\ Usable(u, v)
  BY <1>1, TakenWorks DEF Taken, Get
<1> HIDE DEF u, v
<1>3. u.args = 0 /\ InFrame1(u, dst)
  BY <1>1, <1>2, UsableSame DEF SameBut
<1> QED
  BY <1>1, <1>2, <1>3, SetKept

LEMMA DropKept ==
  ASSUME Works(thread), NEW src, Drop(src)
  PROVE  Whole(thread')
<1> DEFINE v == None
<1>1. thread.args = 0 /\ InFrame1(thread, src) /\ thread' = Set(thread, src, v)
  BY DEF Drop, Plain, Locals, InFrame1, Do
<1>2. Usable(thread, v)
  BY PlainUsable DEF None, IsVar
<1> HIDE DEF v
<1> QED
  BY <1>1, <1>2, SetKept

LEMMA RegisterRefKept ==
  ASSUME Works(thread), NEW i, NEW dst, RegisterRef(i, dst)
  PROVE  Whole(thread')
<1> DEFINE t == thread
           F == t.frames
           k == Upward(t.host)
           n == Len(t.host)
           e == local(t, i)
           v == Var(e, Depth(t))
<1>1. t.args = 0 /\ InFrame1(t, i) /\ InFrame1(t, dst) /\ thread' = Set(t, dst, v)
  BY DEF RegisterRef, Plain, Locals, InFrame1, Do
<1>2. /\ e \in 0 .. Slots - 1 /\ e < Lim(F) /\ F[Len(F)].base <= e
  BY <1>1, LocalUsable
<1>3. OK(F, t.locals, t.args, k, n) /\ Runs(F, k, n) /\ Layout(F) /\ n \in Nat
  BY DEF Works, Kept, Sound, OK, RunsNow
<1>4. Depth(t) = Len(F) /\ Len(F) \in Nat /\ Len(F) >= 1
  BY <1>3, RunsStrict DEF Depth
<1>5. v.kind = "register" /\ v.slot = e /\ v.frame = Len(F)
  BY <1>4 DEF Var
<1> HIDE DEF v, e
<1>6. Valid(F, v)
  <2>1. Len(F) \in 1 .. Len(F) /\ e \in Int /\ Lim(F) = End(F, Len(F))
    BY <1>2, <1>4 DEF Lim
  <2> QED
    BY <1>2, <1>5, <2>1 DEF Valid
<1>7. ASSUME NEW p \in 1 .. n, Wall(k, n, p) PROVE Passes(k, p, v)
  <2>1. k[n].depth \in 0 .. Len(F) - 1 /\ k[n].op \in RunOps /\ n >= 1
    BY <1>3, RunsStrict DEF RunOps
  <2>2. /\ k[p].op \in RunOps => k[p].depth \in 0 .. k[n].depth
        /\ k[p].op \in TornOps => k[p].frame \in 1 .. k[n].depth
    BY <1>3, <2>1, RunFrames
  <2>3. k[p].op \in RunOps \/ k[p].op \in TornOps
    BY <1>7 DEF Wall, Torn
  <2>4. Len(F) > Height(k[p])
    <3>1. k[p].op \in RunOps => k[p].depth < Len(F)
      <4> HIDE DEF F, k, n
      <4> QED
        BY <1>4, <2>1, <2>2
    <3>2. k[p].op \in TornOps => k[p].frame < Len(F)
      <4> HIDE DEF F, k, n
      <4> QED
        BY <1>4, <2>1, <2>2
    <3>3. Height(k[p]) \in Int
      BY <2>1, <2>2, <2>3 DEF Height
    <3> QED
      BY <1>4, <2>3, <3>1, <3>2, <3>3 DEF Height
  <2> HIDE DEF k, n, F
  <2> QED
    BY <1>5, <2>4 DEF Passes
<1>8. Usable(t, v)
  BY <1>6, <1>7 DEF Usable
<1> QED
  BY <1>1, <1>8, SetKept

\* What a variable holds.
LEMMA LoadUsable ==
  ASSUME NEW t, Works(t), NEW r, IsVar(r), Usable(t, r)
  PROVE  Usable(t, t.locals[r.slot])
<1> DEFINE F == t.frames
           L == t.locals
           a == t.args
           k == Upward(t.host)
           n == Len(t.host)
<1>1. OK(F, L, a, k, n) /\ Runs(F, k, n) /\ Valid(F, r)
      /\ \A p \in 1 .. n : Wall(k, n, p) => Passes(k, p, r)
  BY DEF Works, Kept, Sound, RunsNow, Usable
<1> HIDE DEF F, L, a, k, n
<1>2. Valid(F, L[r.slot]) /\ \A p \in 1 .. n : Wall(k, n, p) => Passes(k, p, L[r.slot])
  BY <1>1, ReadThrough
<1> QED
  BY <1>2 DEF F, L, a, k, n, Usable

LEMMA LoadKept ==
  ASSUME Works(thread), NEW src, NEW dst, Load(src, dst)
  PROVE  Whole(thread')
<1> DEFINE r == Get(src)
           v == thread.locals[r.slot]
<1>1. /\ thread.args = 0 /\ InFrame1(thread, src) /\ InFrame1(thread, dst) /\ IsVar(r)
      /\ thread' = Set(reg_inc(thread, v), dst, v)
  BY DEF Load, Plain, Locals, InFrame1, Do, IsVar
<1>2. Usable(thread, r)
  BY <1>1, LocalUsable DEF Get
<1> HIDE DEF r
<1>3. Usable(thread, v)
  BY <1>1, <1>2, LoadUsable
<1> QED
  BY <1>1, <1>3, IncSetKept

LEMMA ThrowWhole ==
  ASSUME NEW t, Works(t), NEW v, v = None \/ t.args = 0
  PROVE  Whole(throw(t, v))
BY ThrowKept DEF Works, Whole

\* A value is stored in a variable, and what was there is the result.
LEMMA ExchangeKept ==
  ASSUME NEW t, Works(t), t.args = 0, NEW r, IsVar(r), Usable(t, r), NEW v, Usable(t, v),
         IsVar(v) => v.frame <= r.frame, NEW u, Moved1(t, u), NEW dst, InFrame1(t, dst)
  PROVE  Whole(Set([u EXCEPT !.locals[r.slot] = v], dst, t.locals[r.slot]))
<1> DEFINE F == u.frames
           L == u.locals
           a == u.args
           k == Upward(u.host)
           n == Len(u.host)
           s == r.slot
           old == t.locals[s]
           w == Written(u, s, v)
<1>1. /\ Works(u) /\ u.args = 0 /\ Usable(u, r) /\ Usable(u, v)
      /\ InFrame1(u, dst) /\ u.locals = t.locals
  BY WorksMoved, UsableSame DEF Moved1
<1>2. OK(F, L, a, k, n) /\ Runs(F, k, n) /\ Valid(F, r) /\ Valid(F, v)
  BY <1>1 DEF Works, Kept, Sound, RunsNow, Usable
<1>3. /\ \A p \in 1 .. n : Wall(k, n, p) => Passes(k, p, r)
      /\ \A p \in 1 .. n : Wall(k, n, p) => Passes(k, p, v)
  BY <1>1 DEF Usable
<1>4. Admits(F, a, k, n, s, v) /\ s < Lim(F)
  <2> HIDE DEF F, L, a, k, n
  <2> QED
    BY <1>2, <1>3, WriteThrough, VarSlot
<1>5. Writable(u, s, v)
  BY <1>4 DEF Writable
<1>6. Usable(u, old)
  BY <1>1, LoadUsable
<1> HIDE DEF old, w, s
<1>7. Works(w) /\ SameBut(u, w)
  BY <1>1, <1>5, WorksWritten DEF w
<1>8. w.args = 0 /\ InFrame1(w, dst) /\ Usable(w, old)
  BY <1>1, <1>6, <1>7, UsableSame DEF SameBut
<1>9. Whole(Set(w, dst, old))
  BY <1>7, <1>8, SetKept
<1> QED
  BY <1>9 DEF w, old, Written, s

LEMMA StoreKept ==
  ASSUME Works(thread), NEW ref, NEW src, NEW dst, NEW is_move, NEW typed,
         Store(ref, src, dst, is_move, typed)
  PROVE  Whole(thread')
<1> DEFINE r == Get(ref)
           v == Get(src)
           loc == Location(thread, v)
           t == IF is_move THEN Taken(src) ELSE thread
           temp == IF is_move THEN v ELSE None
           refused == v.kind = "readonly" \/ (loc.at = "stack" /\ loc.frame > r.frame)
           in == IF loc.at = "frame" /\ loc.frame > r.frame
                 THEN drag(t, v.of, InFrame(r.frame)) ELSE t
           u == IF is_move THEN in ELSE reg_inc(in, v)
           stored == [u EXCEPT !.locals[r.slot] = v]
<1>1. /\ thread.args = 0 /\ InFrame1(thread, ref) /\ InFrame1(thread, src) /\ InFrame1(thread, dst)
      /\ IsVar(r)
      /\ thread' = IF refused THEN throw(t, temp)
                   ELSE IF ~typed THEN throw(in, temp)
                   ELSE Set(stored, dst, in.locals[r.slot])
  BY DEF Store, Plain, Locals, InFrame1, Do, IsVar
<1>2. Usable(thread, r) /\ Usable(thread, v)
  BY <1>1, LocalUsable DEF Get
<1>3. Works(t) /\ t.frames = thread.frames /\ t.host = thread.host /\ t.args = 0
  BY <1>1, TakenWorks DEF Taken, SameBut
<1>4. Moved1(t, in)
  <2>1. Shape(t)
    BY <1>3 DEF Works, Form
  <2> HIDE DEF t
  <2> QED
    BY <2>1, DragMoved
<1>5. ~refused /\ IsVar(v) => v.frame <= r.frame
  <2> SUFFICES ASSUME ~refused, IsVar(v) PROVE v.frame <= r.frame
    OBVIOUS
  <2>1. loc = OnStack(v.frame)
    BY DEF Location, IsVar, IsObject
  <2>2. ~(v.frame > r.frame)
    BY <2>1 DEF OnStack
  <2>3. v.frame \in Int /\ r.frame \in Int
    BY <1>1, <1>2 DEF Usable, Valid
  <2> QED
    BY <2>2, <2>3
<1> HIDE DEF r, v, t, in, refused, loc, temp
<1>6. Works(in) /\ in.args = 0 /\ Usable(in, r) /\ Usable(in, v) /\ InFrame1(in, dst)
  <2>1. in.frames = thread.frames /\ in.host = thread.host /\ in.args = 0
    BY <1>3, <1>4 DEF Moved1
  <2> QED
    BY <1>1, <1>2, <1>3, <1>4, <2>1, WorksMoved, UsableSame
<1>7. CASE refused
  BY <1>1, <1>3, <1>7, ThrowWhole
<1>8. CASE ~refused /\ ~typed
  BY <1>1, <1>6, <1>8, ThrowWhole
<1>9. CASE ~refused /\ typed
  <2>1. Moved1(in, u)
    BY <1>6, IncMoved DEF Moved1, Works, Form
  <2> HIDE DEF u
  <2>2. Whole(Set(stored, dst, in.locals[r.slot]))
    BY <1>1, <1>5, <1>6, <1>9, <2>1, ExchangeKept
  <2> QED
    BY <1>1, <1>9, <2>2
<1> QED
  BY <1>7, <1>8, <1>9

\* When a run goes on, whatever is left beyond the frames is about to be dropped.
LEMMA WorksSheltered ==
  ASSUME NEW t, Works(t)
  PROVE  ShelteredNow(t) /\ StrictNow(t) /\ ReadyNow(t) /\ ~Above1(t, "ffi")
<1> DEFINE F == t.frames
           L == t.locals
           a == t.args
           k == Upward(t.host)
           n == Len(t.host)
<1>1. OK(F, L, a, k, n) /\ Occupied(F, L, a, k, n) /\ Runs(F, k, n)
  BY DEF Works, Kept, Sound, RunsNow
<1> HIDE DEF F, L, a, k, n
<1>2. n >= 1 /\ k[n].op \in RunOps \cup TornOps /\ ~Waits(F, k, n, 0)
  BY <1>1, RunsStrict DEF RunOps
<1>3. Sheltered(F, L, a, k, n)
  BY <1>1, <1>2, ShelteredTop
<1> QED
  BY <1>3, RunsReady DEF Works, ShelteredNow, F, L, a, k, n

LEMMA SetArgKept ==
  ASSUME Works(thread), Fitting(thread.frames), NEW src, NEW is_move, SetArg(src, is_move)
  PROVE  Whole(thread')
<1> DEFINE t == IF is_move THEN Taken(src) ELSE reg_inc(thread, Get(src))
           v == Get(src)
           F == thread.frames
           a == thread.args
           f == Top(thread).func
           r == Assign([t EXCEPT !.args = @ + 1], arg(t, t.args), v)
<1>1. /\ InFrame1(thread, src) /\ a < Registers[f] /\ thread' = r
  BY DEF SetArg, Locals, InFrame1, Do
<1>2. Usable(thread, v)
  BY <1>1, LocalUsable DEF Get
<1>3. Works(t) /\ t.frames = F /\ t.host = thread.host /\ t.args = a
  <2>1. CASE is_move
    BY <1>1, <2>1, TakenWorks DEF Taken, SameBut
  <2>2. CASE ~is_move
    BY <2>2, IncMoved, WorksMoved DEF Moved1
  <2> QED
    BY <2>1, <2>2
<1>4. Usable(t, v)
  BY <1>2, <1>3, UsableSame
<1>5. /\ f = F[Len(F)].func /\ f \in Functions /\ Registers[f] \in Nat /\ Len(F) \in Nat
      /\ Lim(F) \in Nat /\ F[Len(F)].base \in Nat /\ F[Len(F)].base <= Lim(F) /\ Len(F) >= 1
      /\ a \in Nat
  <2>1. Layout(F) /\ Len(F) \in Nat /\ Len(F) >= 1 /\ a \in Nat
    BY RunsStrict DEF Works, Kept, Sound, OK, RunsNow
  <2>2. Len(F) \in 1 .. Len(F)
    BY <2>1
  <2>3. F[Len(F)].base < End(F, Len(F)) /\ Lim(F) = End(F, Len(F)) /\ F[Len(F)].base \in Nat
        /\ Lim(F) \in Nat /\ F[Len(F)].func \in Functions
    BY <2>1, <2>2, Ends
  <2>4. Registers[F[Len(F)].func] \in Nat
    BY <2>3, CallFramesAssumption
  <2>5. F[Len(F)].base <= Lim(F)
    <3> HIDE DEF F
    <3> QED
      BY <2>3
  <2> QED
    BY <2>1, <2>3, <2>4, <2>5 DEF Top, Depth
<1> DEFINE i == Lim(F) + a
<1>6. i < Slots /\ i \in 0 .. Slots - 1 /\ F[Len(F)].base <= i /\ Pending(F, a + 1, i)
  <2>1. Lim(F) + Registers[f] <= Slots /\ Slots \in Nat
    BY <1>5, CallFramesAssumption DEF Fitting
  <2> HIDE DEF F, a, f
  <2> QED
    BY <1>1, <1>5, <2>1 DEF Pending
<1>7. Writable([t EXCEPT !.args = @ + 1], i, v)
  <2> DEFINE u == [t EXCEPT !.args = @ + 1]
             L == u.locals
             b == a + 1
             k == Upward(u.host)
             n == Len(u.host)
  <2>1. u.frames = F /\ u.host = t.host /\ u.args = b /\ u.locals = t.locals
    BY <1>3 DEF Works, Form, Shape, Fields
  <2> HIDE DEF u
  <2>2. Sound(F, L, a, k, n) /\ Runs(F, k, n)
    BY <1>3, <2>1 DEF Works, Kept, RunsNow
  <2>3. OK(F, L, b, k, n)
    <3>1. b \in Nat /\ a <= b
      BY <1>5
    <3> HIDE DEF F, L, a, k, n, b
    <3> QED
      BY <2>2, <3>1, ArgsUp DEF Sound
  <2>4. Valid(F, v) /\ \A p \in 1 .. n : Wall(k, n, p) => Passes(k, p, v)
    BY <1>3, <1>4, <2>1 DEF Usable
  <2>5. Holds(F, i, v)
    <3> SUFFICES ASSUME IsVar(v) PROVE F[v.frame].base <= i
      BY <2>4 DEF Holds
    <3>1. v.frame \in 1 .. Len(F) /\ Layout(F)
      BY <2>3, <2>4 DEF Valid, OK
    <3>2. F[v.frame].base \in Nat /\ F[v.frame].base <= F[Len(F)].base
      BY <3>1, EndsBelow
    <3> HIDE DEF F, i, v
    <3> QED
      BY <1>5, <1>6, <3>2
  <2>6. Admits(F, b, k, n, i, v)
    <3>1. i \in 0 .. Slots - 1 /\ i >= F[Len(F)].base
      BY <1>6
    <3> HIDE DEF F, L, b, k, n, i, v
    <3> QED
      BY <2>2, <2>3, <2>4, <2>5, <3>1, WriteHere
  <2>7. Admits(u.frames, u.args, k, n, i, v) /\ Pending(u.frames, u.args, i)
    BY <1>6, <2>1, <2>6
  <2> HIDE DEF i, v, F, a, k, n, b
  <2>8. Writable(u, i, v)
    BY <2>7 DEF Writable, k, n
  <2> QED
    BY <2>8 DEF u
<1>8. Passed1(t, v, r)
  <2>1. ShelteredNow(t) /\ StrictNow(t) /\ ~Above1(t, "ffi")
    BY <1>3, WorksSheltered
  <2>2. /\ Lim(t.frames) + t.args < Slots
        /\ Writable([t EXCEPT !.args = @ + 1], Lim(t.frames) + t.args, v)
    BY <1>3, <1>6, <1>7
  <2> HIDE DEF t, v, r
  <2> QED
    BY <1>3, <2>1, <2>2, ArgKept DEF r, Works
<1> HIDE DEF r, t, v
<1>9. Given(r)
  <2> DEFINE k == Upward(thread.host)
             n == Len(thread.host)
  <2>1. r.frames = F /\ r.args = a + 1 /\ r.host = thread.host
    BY <1>3, <1>8 DEF Passed1
  <2>2. n >= 1 /\ k[n].op = "run" /\ k[n].depth < Len(F)
    BY DEF Works, RunsNow, Runs
  <2>3. \A p \in 1 .. n : k[p].op \notin {"start", "callback"}
    BY DEF Works, Calm
  <2>4. a + 1 <= Registers[F[Len(F)].func]
    <3> HIDE DEF F, a, f
    <3> QED
      BY <1>1, <1>5
  <2>5. Args(F, r.locals, a + 1, k, n)
    <3> HIDE DEF F, a, k, n
    <3> QED
      BY <2>2, <2>3, <2>4 DEF Args, Taking
  <2> QED
    BY <2>1, <2>5 DEF Given
<1> QED
  BY <1>1, <1>8, <1>9 DEF Whole, Passed1

-------------------------------------------------------------------------------
(* Calls *)
LEMMA WorksFacts ==
  ASSUME NEW t, Works(t)
  PROVE  LET F == t.frames
             k == Upward(t.host)
             n == Len(t.host)
         IN  /\ Form(t) /\ Sound(F, t.locals, t.args, k, n) /\ Runs(F, k, n) /\ Layout(F)
             /\ n \in Nat /\ n >= 1 /\ k[n].op = "run" /\ k[n].depth \in 0 .. Len(F) - 1
             /\ Len(F) = Depth(t) /\ Len(F) \in Nat /\ Len(F) >= 1 /\ Lim(F) \in Nat
             /\ t.args \in Nat /\ Strict(F, k, n)
<1> DEFINE F == t.frames
           k == Upward(t.host)
           n == Len(t.host)
<1>1. Sound(F, t.locals, t.args, k, n) /\ OK(F, t.locals, t.args, k, n) /\ Runs(F, k, n)
      /\ Layout(F) /\ t.args \in Nat /\ Form(t)
  BY DEF Works, Kept, Sound, OK, RunsNow
<1>2. Len(F) = Depth(t)
  BY DEF Depth
<1> HIDE DEF F, k, n
<1>3. Strict(F, k, n) /\ n \in Nat /\ n >= 1 /\ k[n].op = "run"
      /\ k[n].depth \in 0 .. Len(F) - 1 /\ Len(F) \in Nat /\ Len(F) >= 1
  BY <1>1, RunsStrict
<1>4. Lim(F) \in Nat
  BY <1>1, Ends
<1> QED
  BY <1>1, <1>2, <1>3, <1>4 DEF F, k, n

LEMMA FramedKept ==
  ASSUME NEW t, Works(t), Fitting(t.frames), NEW f \in Functions, NEW typed, argsFit(t, f, typed),
         NEW dst, InFrame1(t, dst)
  PROVE  Whole(Framed(t, f, dst))
<1> DEFINE F == t.frames
           L == t.locals
           a == t.args
           k == Upward(t.host)
           n == Len(t.host)
           y == [func |-> f, dst |-> dst, base |-> arg(t, 0), raise_target |-> Depth(t) + 1]
           G == Append(F, y)
           r == Framed(t, f, dst)
<1>1. /\ Form(t) /\ Sound(F, L, a, k, n) /\ Layout(F) /\ n >= 1 /\ k[n].op = "run"
      /\ k[n].depth \in 0 .. Len(F) - 1 /\ Len(F) = Depth(t) /\ Len(F) \in Nat /\ Len(F) >= 1
      /\ Lim(F) \in Nat
  BY WorksFacts
<1>2. arg(t, 0) = Lim(F)
  <2>1. arg(t, 0) = Lim(F) + 0
    BY <1>1, ArgIs
  <2> HIDE DEF F
  <2> QED
    BY <1>1, <2>1
<1>3. a <= Registers[f]
  BY CallFramesAssumption DEF argsFit
<1>4. IsFrame(y) /\ y.func = f /\ y.base = Lim(F) /\ y.dst = dst
  BY <1>2 DEF IsFrame
<1>5. dst \in 0 .. Registers[F[Len(F)].func] - 1
  BY DEF InFrame1, Top, Depth
<1>6. r.frames = G /\ r.locals = L /\ r.args = 0 /\ r.host = t.host
  BY <1>1 DEF Form, Shape, Fields, Framed
<1>7. Grown(F, G, y)
  <2>1. PICK S : F \in Seq(S)
    BY <1>1 DEF Form, IsSequence
  <2> HIDE DEF y
  <2>2. F \in Seq(S \cup {y})
    BY <2>1
  <2> QED
    BY <2>2, AppendProperties DEF Grown
<1>8. Sound(G, L, 0, k, n)
  <2>1. Lim(F) + Registers[f] <= Slots /\ Len(F) # k[n].depth
    BY <1>1 DEF Fitting
  <2> HIDE DEF F, L, a, k, n, y, G
  <2> QED
    BY <1>1, <1>3, <1>4, <1>5, <1>7, <2>1, FramePush
<1> HIDE DEF r
<1>9. Kept(r) /\ Calm(r)
  BY <1>6, <1>8 DEF Kept, Calm, Works
<1>10. Given(r)
  BY <1>6, <1>9, CalmGiven
<1> QED
  BY <1>9, <1>10 DEF Whole, r

LEMMA CallKept ==
  ASSUME Works(thread), Fitting(thread.frames), NEW f \in Functions, NEW dst, NEW typed,
         Call(f, dst, typed)
  PROVE  Whole(thread')
<1>1. InFrame1(thread, dst) /\ thread' = pushframe(thread, f, dst, typed)
  BY DEF Call, Locals, InFrame1, Do
<1>2. CASE argsFit(thread, f, typed)
  BY <1>1, <1>2, FramedKept DEF pushframe
<1>3. CASE ~argsFit(thread, f, typed)
  <2>1. Kept(badArgs(thread)) /\ Given(badArgs(thread))
    BY BadArgsKept DEF Works
  <2> QED
    BY <1>1, <1>3, <2>1 DEF pushframe, Whole
<1> QED
  BY <1>2, <1>3

LEMMA TryCallKept ==
  ASSUME Works(thread), Fitting(thread.frames), NEW f \in Functions, NEW dst, NEW typed,
         TryCall(f, dst, typed)
  PROVE  Whole(thread')
<1> DEFINE t == thread
           F == t.frames
           k == Upward(t.host)
           n == Len(t.host)
           x == [op |-> "assign", frame |-> Depth(t), slot |-> local(t, dst), value |-> None]
           u == Push(t, <<x>>)
           r == drop_args(u)
<1>1. InFrame1(t, dst) /\ thread' = IF argsFit(t, f, typed) THEN Framed(t, f, dst) ELSE r
  BY DEF TryCall, try_pushframe, Locals, InFrame1, Do
<1>2. CASE argsFit(t, f, typed)
  BY <1>1, <1>2, FramedKept
<1>3. Form(t) /\ n \in Nat /\ n >= 1 /\ k[n].op = "run" /\ Depth(t) \in Int
  BY WorksFacts
<1>4. Fresh(F, k, n, x)
  <2>1. IsCall(x) /\ x.op = "assign" /\ Temporary(x) = None
    BY <1>3 DEF IsCall, Ops, FloorOps, RunOps, Temporary
  <2>2. Carries(F, x)
    BY <2>1 DEF Carries, Valid, IsVar, None
  <2>3. \A p \in 1 .. n : Passes(k, p, Temporary(x))
    BY <2>1 DEF Passes, IsVar, None
  <2>4. \A q \in 1 .. n : BelowOther(x, k[q])
    BY DEF BelowOther
  <2>5. x.value = None /\ x.op \notin RunOps \cup TornOps \cup {"unwind"}
    BY DEF RunOps, TornOps, TeardownOps
  <2> HIDE DEF x, n, k, F
  <2> QED
    BY <1>3, <2>1, <2>2, <2>3, <2>4, <2>5 DEF Fresh
<1>5. ReadyNow(t) /\ StrictNow(t)
  BY WorksSheltered
<1>6. /\ Form(u) /\ Kept(u) /\ StrictNow(u) /\ Alone(t, u) /\ Onto(t, u, x) /\ Calm(u)
  <2>1. x.op = "assign"
    OBVIOUS
  <2> HIDE DEF x
  <2> QED
    BY <1>4, <1>5, <2>1, FreshKept DEF Works
<1>7. /\ Len(u.host) = n + 1 /\ Upward(u.host)[n + 1].op = "assign"
      /\ \A p \in 1 .. n : Upward(u.host)[p] = k[p]
  BY <1>6 DEF Onto
<1> HIDE DEF u, r, x
<1>8. ReadyNow(u)
  <2>1. Upward(u.host)[Len(u.host)].op # "ffi"
    BY <1>7
  <2> QED
    BY <1>6, <2>1 DEF ReadyNow, Ready, StrictNow
<1>9. n \in 1 .. Len(u.host) /\ Upward(u.host)[n].op \in RunOps
      /\ \A q \in n + 1 .. Len(u.host) : Upward(u.host)[q].op \notin TornOps
  <2>1. n \in 1 .. n /\ n \in 1 .. n + 1
    BY <1>3
  <2>2. Upward(u.host)[n] = k[n]
    BY <1>7, <2>1
  <2>3. "assign" \notin TornOps
    BY DEF TornOps, TeardownOps
  <2>4. \A q \in n + 1 .. n + 1 : q = n + 1
    BY <1>3
  <2>5. \A q \in n + 1 .. Len(u.host) : Upward(u.host)[q].op = "assign"
    BY <1>7, <2>4
  <2> HIDE DEF k
  <2> QED
    BY <1>3, <1>7, <2>1, <2>2, <2>3, <2>5 DEF RunOps
<1>10. Kept(r) /\ Given(r)
  <2> HIDE DEF n
  <2> QED
    BY <1>6, <1>8, <1>9, DropArgsKept DEF r
<1> QED
  BY <1>1, <1>2, <1>10 DEF Whole

LEMMA TailcallKept ==
  ASSUME Works(thread), NEW f \in Functions, NEW typed, Tailcall(f, typed)
  PROVE  Whole(thread')
<1> DEFINE t == thread
           F == t.frames
           k == Upward(t.host)
           n == Len(t.host)
           tail == TRUE
           x == [op |-> "tailcall", frame |-> Depth(t), func |-> f, typed |-> typed]
           u == Push(t, teardownItems(t, tail) \o <<x>>)
<1>1. Params[f] <= Registers[Top(t).func] /\ thread' = u
  BY DEF Tailcall, tailcall, Do
<1>2. Form(t) /\ n \in Nat /\ n >= 1 /\ k[n].op = "run" /\ Depth(t) \in Nat /\ Depth(t) >= 1
      /\ k[n].depth < Len(F)
  BY WorksFacts
<1>3. Torn1(F, k, n, n)
  <2>1. n \in 1 .. n /\ \A q \in n + 1 .. n : FALSE
    BY <1>2
  <2>2. k[n].op \in RunOps
    BY <1>2 DEF RunOps
  <2> HIDE DEF n, k, F
  <2> QED
    BY <1>2, <2>1, <2>2 DEF Torn1
<1>4. IsCall(x) /\ x.frame = Depth(t) /\ x.op = (IF tail THEN "tailcall" ELSE "pop") /\ x.func = f
  BY <1>2 DEF IsCall, Ops, FloorOps, RunOps
<1>5. tail
  OBVIOUS
<1>6. StrictNow(t)
  BY WorksSheltered
<1>7. TearsDown(t, u, tail)
  <2> HIDE DEF x, tail
  <2> QED
    BY <1>1, <1>2, <1>3, <1>4, <1>6, TearKept DEF Works
<1> HIDE DEF u, tail
<1>8. Form(u) /\ Kept(u) /\ Calm(u) /\ Tailing(u)
  BY <1>5, <1>7 DEF TearsDown, Works
<1>9. Given(u)
  BY <1>8, TailingGiven, FormFacts
<1> QED
  BY <1>1, <1>8, <1>9 DEF Whole

LEMMA ReturnKept ==
  ASSUME Works(thread), NEW src, NEW typed, Return(src, typed)
  PROVE  Whole(thread')
<1> DEFINE t == Taken(src)
           v == Get(src)
<1>1. InFrame1(thread, src) /\ thread' = popframe(t, v, typed)
  BY DEF Return, Plain, Locals, InFrame1, Do
<1>2. Works(t) /\ Usable(t, v)
  BY <1>1, TakenWorks DEF Taken, Get
<1> HIDE DEF t, v
<1>3. Kept(popframe(t, v, typed)) /\ Given(popframe(t, v, typed))
  BY <1>2, PopframeKept DEF Works, Usable
<1> QED
  BY <1>1, <1>3 DEF Whole

LEMMA RaiseKept ==
  ASSUME Works(thread), Good(thread), "raise_out_of_run" \notin Cases,
         NEW src, NEW target \in Int, NEW typed, Raise(src, target, typed)
  PROVE  Whole(thread')
<1> DEFINE t == Taken(src)
           v == Get(src)
           loc == Location(t, v)
           out == IF loc.at = "frame" /\ loc.frame > target /\ v.kind = "object"
                  THEN drag(t, v.of, InFrame(target)) ELSE t
           x == [op |-> "raise", target |-> target, ret |-> v, typed |-> typed]
           F == out.frames
           k == Upward(out.host)
           n == Len(out.host)
           u == Push(out, <<x>>)
<1>1. /\ InFrame1(thread, src) /\ thread.args = 0 /\ target > Item(thread).depth
      /\ thread' = raise(t, v, target, typed)
  BY DEF Raise, Plain, Locals, InFrame1, Do
<1>2. Works(t) /\ SameBut(thread, t) /\ Usable(t, v)
  BY <1>1, TakenWorks DEF Taken, Get
<1>3. t.args = 0 /\ t.host = thread.host
  BY <1>1, <1>2 DEF SameBut
<1>4. raise(t, v, target, typed) =
        IF target >= Depth(t) THEN throw(t, v)
        ELSE IF loc.at = "stack" /\ loc.frame > target THEN throw(t, v) ELSE u
  BY DEF raise
<1>5. Moved1(t, out)
  <2>1. Shape(t)
    BY <1>2 DEF Works, Form
  <2> HIDE DEF t
  <2> QED
    BY <2>1, DragMoved
<1>6. IsVar(v) /\ ~(loc.at = "stack" /\ loc.frame > target) => v.frame <= target
  <2> SUFFICES ASSUME IsVar(v), ~(loc.at = "stack" /\ loc.frame > target) PROVE v.frame <= target
    OBVIOUS
  <2>1. loc = OnStack(v.frame)
    BY DEF Location, IsVar, IsObject
  <2>2. ~(v.frame > target)
    BY <2>1 DEF OnStack
  <2>3. v.frame \in Int
    BY <1>2 DEF Usable, Valid
  <2> QED
    BY <2>2, <2>3
<1>7. Item(thread) = thread.host[1]
  <2>1. thread.host # <<>>
    BY <1>1, RunsReady DEF Works
  <2> QED
    BY <2>1, TopFacts
<1> HIDE DEF t, v, loc, out
<1>8. ASSUME target >= Depth(t) \/ (loc.at = "stack" /\ loc.frame > target) PROVE Whole(thread')
  <2>1. thread' = throw(t, v)
    BY <1>1, <1>4, <1>8
  <2> QED
    BY <1>2, <1>3, <2>1, ThrowWhole
<1>9. ASSUME ~(target >= Depth(t) \/ (loc.at = "stack" /\ loc.frame > target)) PROVE Whole(thread')
  <2>1. Works(out) /\ out.args = 0 /\ Usable(out, v) /\ out.host = thread.host
    BY <1>2, <1>3, <1>5, WorksMoved, UsableSame DEF Moved1
  <2>2. Form(out) /\ n \in Nat /\ n >= 1 /\ k[n].op = "run" /\ k[n].depth \in Nat
        /\ OK(F, out.locals, out.args, k, n)
    BY <2>1, WorksFacts DEF Sound
  <2>3. k[n].depth < target
    <3>1. k[n] = out.host[1]
      BY <2>1, RunsReady DEF Works
    <3> QED
      BY <1>1, <1>7, <2>1, <2>2, <3>1
  <2>4. \A q \in 1 .. n : BelowOther(x, k[q])
    <3> SUFFICES ASSUME NEW q \in 1 .. n, k[q].op \in RunOps PROVE k[q].depth < target
      BY DEF BelowOther
    <3>1. k[n].op \in RunOps
      BY <2>2 DEF RunOps
    <3>2. k[q].depth \in 0 .. k[n].depth
      BY <2>2, <3>1, RunFrames
    <3> HIDE DEF k, n
    <3> QED
      BY <2>2, <2>3, <3>2
  <2>5. Temporary(x) = v /\ IsCall(x) /\ x.op = "raise"
    BY DEF Temporary, IsCall, Ops, FloorOps, RunOps
  <2>6. Carries(F, x)
    <3>1. Lev(x) = target
      BY DEF Lev, FloorOps, RunOps
    <3>2. Valid(F, v)
      BY <2>1 DEF Usable
    <3> HIDE DEF x, F
    <3> QED
      BY <1>6, <1>9, <2>5, <3>1, <3>2 DEF Carries
  <2>7. \A p \in 1 .. n : Wall(k, n, p) => Passes(k, p, Temporary(x))
    BY <2>1, <2>5 DEF Usable
  <2>8. x.op \notin RunOps \cup TornOps \cup {"unwind"}
    BY DEF RunOps, TornOps, TeardownOps
  <2>9. Fresh(F, k, n, x)
    <3> HIDE DEF x, n, k, F
    <3> QED
      BY <2>2, <2>4, <2>5, <2>6, <2>7, <2>8 DEF Fresh
  <2>10. /\ Form(u) /\ Kept(u) /\ Alone(out, u) /\ Calm(u)
    <3>1. ReadyNow(out) /\ Calm(out) /\ Kept(out)
      BY <2>1, WorksSheltered DEF Works
    <3> HIDE DEF x
    <3> QED
      BY <2>2, <2>5, <2>9, <3>1, FreshKept
  <2> HIDE DEF u
  <2>11. Given(u)
    BY <2>1, <2>10, CalmGiven DEF Alone
  <2> QED
    BY <1>1, <1>4, <1>9, <2>10, <2>11 DEF Whole
<1> QED
  BY <1>8, <1>9

-------------------------------------------------------------------------------
(* Calls of C *)

\* The call of C drops the arguments.
LEMMA FFIKept ==
  ASSUME Works(thread), NEW dst, FFI(dst)
  PROVE  Whole(thread')
<1> DEFINE t == thread
           F == t.frames
           L == t.locals
           a == t.args
           k == Upward(t.host)
           n == Len(t.host)
           x == [op |-> "ffi", frame |-> Depth(t), args |-> t.args, dst |-> dst,
                 passed |-> Passed(t.args)]
           v == Push(t, <<x>>)
           j == Upward(v.host)
           m == Len(v.host)
           r == thread'
<1>1. /\ Form(t) /\ Kept(t) /\ RunsNow(t) /\ Calm(t)
      /\ ReadyNow(t) /\ Strict(F, k, n) /\ n \in Nat /\ n >= 1 /\ k[n].op = "run"
      /\ Depth(t) \in Nat /\ Len(F) = Depth(t) /\ a \in Nat
  BY WorksFacts, RunsReady DEF Works, StrictNow
<1>2. /\ x.op = "ffi" /\ x.frame = Len(F) /\ IsCall(x) /\ Temporary(x) = None /\ x.args = a
  BY <1>1 DEF IsCall, Ops, FloorOps, RunOps, Temporary
<1>3. Fresh(F, k, n, x)
  <2>1. \A q \in 1 .. n : BelowOther(x, k[q])
    BY <1>1, <1>2 DEF BelowOther, Strict
  <2>2. Carries(F, x) /\ \A p \in 1 .. n : Passes(k, p, Temporary(x))
    BY <1>2 DEF Carries, Valid, Passes, IsVar, None
  <2>3. n # 0
    BY <1>1
  <2> HIDE DEF F, k, n, x
  <2> QED
    BY <1>1, <1>2, <2>1, <2>2, <2>3 DEF Fresh, RunOps, TornOps, TeardownOps
<1>4. Form(v) /\ Kept(v) /\ Alone(t, v) /\ Onto(t, v, x) /\ Calm(v)
  <2>1. x.op # "drain" /\ x.op \notin {"start", "callback"}
    BY <1>2
  <2> HIDE DEF x
  <2> QED
    BY <1>1, <1>3, <2>1, FreshKept
<1>5. r.frames = v.frames /\ r.locals = v.locals /\ r.args = 0 /\ r.host = v.host
  <2>1. thread' = Push([t EXCEPT !.args = 0], <<x>>)
    BY DEF FFI, Do
  <2>2. Shape(t)
    BY <1>1 DEF Form
  <2> HIDE DEF x
  <2> QED
    BY <2>1, <2>2 DEF Push, Shape, Fields
<1>6. m = n + 1 /\ j[m] = x /\ j[n] = k[n] /\ v.frames = F /\ v.locals = L /\ v.args = a
  BY <1>1, <1>4 DEF Onto, Alone
<1>7. Sound(F, L, a, j, m)
  BY <1>4, <1>6 DEF Kept
<1> HIDE DEF v, x, F, L, a, k, j, n, m, r
<1>8. \A i \in 0 .. Slots - 1 : Pending(F, a, i) =>
        Drops(F, j, m, m, i) /\ Open(j, m, m, L[i])
  <2>1. NoRun(j, m, m)
    BY <1>1, <1>6 DEF NoRun
  <2>2. Open(j, m, m, None) /\ \A w : Open(j, m, m, w)
    BY <2>1 DEF Open
  <2>3. \A i \in 0 .. Slots - 1 : Pending(F, a, i) => Drops(F, j, m, m, i)
    BY <1>2, <1>6 DEF Drops, Pending
  <2> QED
    BY <2>2, <2>3
<1>9. \A p \in 1 .. m : j[p].op \in TornOps => ~NoRun(j, p, m)
  BY <1>1, <1>2, <1>6 DEF NoRun, TornOps, TeardownOps, RunOps
<1>10. m \in 1 .. m
  BY <1>1, <1>6
<1>11. Sound(F, L, 0, j, m)
  BY <1>7, <1>8, <1>9, <1>10, ArgsDown
<1>12. Kept(r)
  BY <1>5, <1>6, <1>11 DEF Kept, j, m
<1>13. Calm(r) /\ r.args = 0
  BY <1>4, <1>5 DEF Calm
<1>14. Given(r)
  BY <1>13, CalmGiven
<1> QED
  BY <1>12, <1>14 DEF Whole, r

\* A call of C was made by a run, with nothing set up any more.
LEMMA CFacts ==
  ASSUME Good(thread), Kept(thread), Given(thread), InC
  PROVE  LET t == thread
             F == t.frames
             n == Len(Pop(t).host)
         IN  /\ t.host # <<>> /\ Item(t).op = "ffi" /\ Form(t) /\ Form(Pop(t))
             /\ Alone(t, Pop(t)) /\ Onto(Pop(t), t, Item(t))
             /\ n \in Nat /\ n >= 1 /\ Len(t.host) = n + 1 /\ Upward(t.host)[n].op = "run"
             /\ Upward(t.host)[n + 1] = Item(t)
             /\ Sound(F, t.locals, 0, Upward(t.host), n + 1) /\ Layout(F)
             /\ t.args = 0 /\ Calm(t) /\ Calm(Pop(t))
             /\ RunsNow(Pop(t)) /\ StrictNow(t) /\ Item(t).args \in Nat
             /\ Depth(t) \in Nat /\ Len(F) = Depth(t)
<1> DEFINE t == thread
           F == t.frames
           L == t.locals
           k == Upward(t.host)
           n == Len(Pop(t).host)
           x == Item(t)
<1>1. t.host # <<>> /\ x.op = "ffi"
  BY DEF InC
<1>2. /\ Form(t) /\ n \in Nat /\ Len(t.host) = n + 1 /\ k[n + 1] = x
      /\ Pop(t).host # <<>> => k[n] = Pop(t).host[1]
      /\ Sound(F, L, t.args, k, n + 1)
      /\ Form(Pop(t)) /\ Alone(t, Pop(t)) /\ Onto(Pop(t), t, x) /\ Depth(t) \in Nat
      /\ Len(F) = Depth(t)
  BY <1>1, TopKept
<1>3. /\ Pop(t).host # <<>> /\ Pop(t).host[1].op = "run" /\ n >= 1 /\ RunsNow(Pop(t))
  BY <1>1, AboveRunNow
<1>4. StrictNow(t)
  BY <1>1, TopStrict DEF RunOps
<1>5. t.args = 0 /\ Calm(t) /\ Calm(Pop(t))
  BY <1>1, <1>2, IdleArgs DEF TailOps
<1>6. Layout(F) /\ x.args \in Nat
  <2> DEFINE m == n + 1
  <2>1. OK(F, L, t.args, k, m) /\ m \in 1 .. m
    BY <1>2 DEF Sound
  <2> HIDE DEF F, L, x, n, m
  <2>2. Placed(F, k, m, m)
    BY <2>1 DEF OK, Called1
  <2> QED
    BY <1>1, <1>2, <2>1, <2>2 DEF OK, Placed, m
<1> QED
  BY <1>1, <1>2, <1>3, <1>4, <1>5, <1>6

\* What C was given is gone.
LEMMA CNone ==
  ASSUME Good(thread), Kept(thread), Given(thread), InC,
         Arguments(Item(thread).args) = {}, NEW i \in 0 .. Slots - 1,
         Lim(thread.frames) <= i, i < Lim(thread.frames) + Item(thread).args
  PROVE  thread.locals[i] = None
<1> DEFINE F == thread.frames
           a == Item(thread).args
<1>1. Form(thread) /\ Layout(F) /\ a \in Nat
  BY CFacts
<1>2. Lim(F) \in Nat /\ Lim(F) <= i /\ i < Lim(F) + a /\ i \in Int
  BY <1>1, Ends
<1> DEFINE c == i - Lim(F)
<1>3. arg(thread, c) = Lim(F) + c
  <2>1. c \in Int
    BY <1>2
  <2> HIDE DEF c
  <2> QED
    BY <1>1, <2>1, ArgIs
<1> HIDE DEF F, a
<1>4. c \in 0 .. a - 1 /\ arg(thread, c) = i
  BY <1>1, <1>2, <1>3
<1> HIDE DEF c
<1>5. thread.locals[i] \in {thread.locals[arg(thread, e)] : e \in 0 .. Item(thread).args - 1}
  BY <1>4 DEF a
<1> QED
  BY <1>5 DEF Arguments

\* A callback finds nothing beyond the frames.
LEMMA CSheltered ==
  ASSUME Good(thread), Kept(thread), Given(thread), InC,
         Arguments(Item(thread).args) = {}
  PROVE  ReadyNow(thread) /\ ShelteredNow(thread)
<1> DEFINE t == thread
           F == t.frames
           L == t.locals
           a == t.args
           k == Upward(t.host)
           n == Len(t.host)
<1>1. /\ n \in Nat /\ n >= 2 /\ n >= 1 /\ k[n - 1].op = "run" /\ k[n] = Item(t)
      /\ k[n].op = "ffi" /\ StrictNow(t)
  BY CFacts
<1>2. OK(F, L, a, k, n) /\ Occupied(F, L, a, k, n)
  BY DEF Kept, Sound
<1>3. ~Waits(F, k, n, 0)
  BY <1>1 DEF Waits
<1>4. \A i \in 0 .. Slots - 1 : Lim(F) <= i /\ i < Lim(F) + k[n].args => L[i] = None
  BY <1>1, CNone
<1>5. Sheltered(F, L, a, k, n)
  <2> HIDE DEF F, L, a, k, n
  <2> QED
    BY <1>1, <1>2, <1>3, <1>4, ShelteredTop
<1> QED
  BY <1>1, <1>5 DEF ReadyNow, Ready, ShelteredNow, StrictNow

LEMMA CallbackKept ==
  ASSUME Good(thread), Kept(thread), Given(thread), "callback_over_args" \notin Cases,
         NEW f \in Functions, Callback(f)
  PROVE  Whole(thread')
<1> DEFINE t == thread
           F == t.frames
           L == t.locals
           k == Upward(t.host)
           n == Len(t.host)
           x == [op |-> "callback", frame |-> Depth(t), func |-> f]
           v == Push(t, <<x>>)
<1>1. InC /\ Arguments(Item(t).args) = {} /\ t.host # <<>> /\ Item(t).op = "ffi"
  BY DEF Callback, InC
<1>2. Form(t) /\ n \in Nat /\ n >= 1 /\ Depth(t) \in Nat /\ Len(F) = Depth(t)
      /\ Len(Pop(t).host) >= 1
  <2>1. Pop(t).host # <<>>
    BY <1>1, AboveRunNow
  <2> QED
    BY <1>1, <2>1, TopKept
<1>3. t.args = 0 /\ Calm(t)
  BY <1>1, <1>2, IdleArgs DEF TailOps
<1>4. thread' = v
  BY <1>3 DEF Callback, Do, Must
<1>5. ReadyNow(t)
  BY <1>1, CSheltered
<1>6. /\ x.op = "callback" /\ x.frame = Len(F) /\ IsCall(x) /\ Temporary(x) = None /\ x.func = f
  BY <1>2 DEF IsCall, Ops, FloorOps, RunOps, Temporary
<1>7. Fresh(F, k, n, x)
  <2>1. \A q \in 1 .. n : BelowOther(x, k[q])
    BY <1>6 DEF BelowOther
  <2>2. Carries(F, x) /\ \A p \in 1 .. n : Passes(k, p, Temporary(x))
    BY <1>6 DEF Carries, Valid, Passes, IsVar, None
  <2>3. n # 0
    BY <1>2
  <2> HIDE DEF F, k, n, x
  <2> QED
    BY <1>6, <2>1, <2>2, <2>3 DEF Fresh, RunOps, TornOps, TeardownOps
<1>8. Form(v) /\ Kept(v) /\ Alone(t, v) /\ Onto(t, v, x)
  <2>1. x.op # "drain"
    BY <1>6
  <2> HIDE DEF x
  <2> QED
    BY <1>2, <1>5, <1>7, <2>1, FreshKept
<1>9. Given(v)
  <2> DEFINE G == v.frames
             M == v.locals
             a == v.args
             j == Upward(v.host)
             m == Len(v.host)
  <2>1. a = 0 /\ m = n + 1 /\ j[m] = x /\ \A p \in 1 .. n : j[p] = k[p]
    BY <1>2, <1>3, <1>8 DEF Onto, Alone
  <2>2. Params[f] \in Nat
    BY CallFramesAssumption
  <2>3. ASSUME NEW p \in 1 .. m, j[p].op \in {"start", "callback"}
        PROVE  p = m
    BY <1>2, <1>3, <2>1, <2>3 DEF Calm
  <2>5. Lim(G) \in Nat
    BY <1>8, Ends DEF Kept, Sound, OK
  <2> HIDE DEF G, M, a, j, m, x, n, k, v
  <2>4. \A i \in 0 .. Slots - 1 : ~Pending(G, a, i)
    BY <2>1, <2>5, CallFramesAssumption DEF Pending
  <2>6. Args(G, M, a, j, m)
    BY <1>6, <2>1, <2>2, <2>3, <2>4 DEF Args
  <2> QED
    BY <2>6 DEF Given, G, M, a, j, m
<1> QED
  BY <1>4, <1>8, <1>9 DEF Whole

\* The call of C is over, and what it was given is set up again, or is gone.
LEMMA CPopped ==
  ASSUME Good(thread), Kept(thread), Given(thread), InC, NEW a \in Nat,
         Arguments(Item(thread).args) = {} \/ a = Item(thread).args
  PROVE  Sound(thread.frames, thread.locals, a, Upward(Pop(thread).host), Len(Pop(thread).host))
<1> DEFINE t == thread
           F == t.frames
           L == t.locals
           k == Upward(t.host)
           n == Len(Pop(t).host)
           j == Upward(Pop(t).host)
           x == Item(t)
<1>1. /\ n \in Nat /\ n >= 1 /\ k[n + 1] = x /\ x.op = "ffi" /\ x.args \in Nat
      /\ Sound(F, L, 0, k, n + 1) /\ Layout(F) /\ Onto(Pop(t), t, x)
      /\ Len(F) \in Nat
  BY CFacts
<1>2. \A p \in 1 .. n : j[p] = k[p]
  BY <1>1 DEF Onto
<1>3. ASSUME NEW i \in 0 .. Slots - 1, Lim(F) <= i, i < Lim(F) + x.args
      PROVE  L[i] = None \/ Pending(F, a, i)
  BY <1>1, <1>3, CNone DEF Pending
<1> HIDE DEF F, L, k, n, j, x
<1>4. Sound(F, L, a, k, n + 1)
  BY <1>1, ArgsUp
<1>5. ~Waits(F, k, n + 1, Len(F)) /\ k[n + 1].op # "clear" /\ k[n + 1].args = x.args
  BY <1>1 DEF Waits
<1>6. Sound(F, L, a, j, n)
  BY <1>1, <1>2, <1>3, <1>4, <1>5, PopSound
<1> QED
  BY <1>6 DEF F, L, j, n

LEMMA ReturnFromCKept ==
  ASSUME Good(thread), Kept(thread), Given(thread), "forgotten_args" \notin Cases,
         NEW typed, ReturnFromC(typed)
  PROVE  Whole(thread')
<1> DEFINE t == thread
           p == Pop(t)
           x == Item(t)
           w == [p EXCEPT !.args = x.args]
           d == drop_args(w)
           u == Push(p, IF x.args = 0 THEN <<>>
                        ELSE <<Clear(Depth(t), arg(t, 0), arg(t, x.args - 1))>>)
           i == local(t, x.dst)
<1>1. InC /\ (typed \/ Arguments(x.args) = {})
      /\ thread' = IF ~typed THEN throw(p, None) ELSE Assign(u, i, None)
  BY DEF ReturnFromC, Do, returnStep
<1>2. /\ Form(p) /\ Alone(t, p) /\ t.args = 0 /\ Calm(p) /\ RunsNow(p) /\ x.args \in Nat
      /\ Form(t)
  BY <1>1, CFacts
<1>3. CASE ~typed
  <2>1. Sound(t.frames, t.locals, 0, Upward(p.host), Len(p.host))
    <3> DEFINE zero == 0
    <3>1. zero \in Nat
      OBVIOUS
    <3> HIDE DEF zero
    <3>2. Sound(t.frames, t.locals, zero, Upward(p.host), Len(p.host))
      BY <1>1, <1>3, <3>1, CPopped
    <3> QED
      BY <3>2 DEF zero
  <2>2. Kept(p) /\ p.args = 0
    BY <1>2, <2>1 DEF Kept, Alone
  <2> DEFINE v == None
  <2>3. v = None
    OBVIOUS
  <2> HIDE DEF p, v
  <2>4. Kept(throw(p, v)) /\ Given(throw(p, v))
    BY <1>2, <2>2, <2>3, ThrowKept
  <2> QED
    BY <1>1, <1>3, <2>4 DEF Whole, v
<1>4. CASE typed
  <2>1. Sound(t.frames, t.locals, x.args, Upward(p.host), Len(p.host))
    BY <1>1, <1>2, CPopped
  <2>2. /\ Shape(w) /\ w.frames = p.frames /\ w.locals = p.locals /\ w.args = x.args
        /\ w.host = p.host /\ w.in_collection = p.in_collection
    BY <1>2 DEF Form, Shape, Fields
  <2>3. Form(w) /\ Kept(w) /\ RunsNow(w) /\ Calm(w)
    <3> HIDE DEF p, w
    <3> QED
      BY <1>2, <2>1, <2>2 DEF Form, HasDrain, Kept, RunsNow, Calm, Alone
  <2>4. Form(d) /\ Kept(d) /\ d.args = 0 /\ Calm(d)
    <3> HIDE DEF w
    <3> QED
      BY <2>3, RunsDrop
  <2>5. Moved1(d, u) /\ d.frames = p.frames
    <3> DEFINE c == [w EXCEPT !.args = 0]
    <3>1. /\ Shape(c) /\ c.frames = p.frames /\ c.locals = p.locals /\ c.args = p.args
          /\ c.host = p.host /\ c.in_collection = p.in_collection /\ c.where = p.where
          /\ c.broken = p.broken
      BY <1>2 DEF Form, Shape, Fields, Alone
    <3> DEFINE b == IF x.args = 0 THEN <<>>
                    ELSE <<Clear(Depth(t), arg(t, 0), arg(t, x.args - 1))>>
    <3>2. u = Push(p, b)
      OBVIOUS
    <3>3. d = Push(c, b)
      <4>1. Depth(w) = Depth(t) /\ (\A e : arg(w, e) = arg(t, e))
        BY <1>2, <2>2 DEF Depth, arg, Top, Alone
      <4> QED
        BY <2>2, <4>1 DEF drop_args
    <3>4. Shape(p)
      BY <1>2 DEF Form
    <3> HIDE DEF c, b, p, d, u
    <3> QED
      BY <3>1, <3>2, <3>3, <3>4 DEF Push, Shape, Fields, Moved1
  <2>6. StrictNow(u) /\ ~Above1(u, "ffi")
    <3> DEFINE k == Upward(p.host)
               n == Len(p.host)
    <3>1. /\ StrictNow(p) /\ ~Above1(p, "ffi") /\ n \in Nat
      <4>1. StrictNow(w) /\ ~Above1(w, "ffi") /\ Len(w.host) \in Nat
        <5> HIDE DEF w
        <5> QED
          BY <2>3, RunsReady
      <4> HIDE DEF w, p
      <4> QED
        BY <2>2, <4>1 DEF StrictNow, Above1
    <3>2. CASE x.args = 0
      <4>1. u.host = <<>> \o p.host /\ u.frames = p.frames
        BY <1>2, <3>2, PushFields DEF Form, Alike
      <4>2. <<>> \o p.host = p.host
        BY <1>2, Tuples DEF Form
      <4> QED
        BY <3>1, <4>1, <4>2 DEF StrictNow, Above1
    <3>3. CASE x.args # 0
      <4> DEFINE z == Clear(Depth(t), arg(t, 0), arg(t, x.args - 1))
      <4>1. u = Push(p, <<z>>)
        BY <3>3
      <4>2. z.op = "clear"
        BY DEF Clear
      <4> HIDE DEF z, u, p
      <4>3. Alone(p, u) /\ Onto(p, u, z) /\ Form(u)
        BY <1>2, <4>1, <4>2, PushForm
      <4>4. StrictNow(u)
        BY <3>1, <4>2, <4>3 DEF StrictNow, Strict, Onto, Alone, RunOps
      <4>5. u.host[1].op = "clear"
        <5>1. u.host # <<>>
          BY <4>3, FormFacts DEF Onto
        <5>2. Upward(u.host)[Len(u.host)] = u.host[1]
          BY <4>3, <5>1, UpwardTail DEF Form
        <5> QED
          BY <4>2, <4>3, <5>2 DEF Onto
      <4> QED
        BY <4>4, <4>5 DEF Above1
    <3> QED
      BY <3>2, <3>3
  <2> HIDE DEF d, u, i
  <2>7. Form(u) /\ Kept(u) /\ Calm(u) /\ u.args = 0
    BY <2>4, <2>5, MovedKept DEF Moved1
  <2> DEFINE v == None
             r == Assign(u, i, v)
  <2>8. Writable(u, i, v)
    BY DEF Writable
  <2> HIDE DEF v
  <2>9. Assigned(u, i, v, r)
    BY <2>6, <2>7, <2>8, AssignKept
  <2>10. Kept(r) /\ Given(r)
    BY <2>7, <2>9 DEF Assigned
  <2> QED
    BY <1>1, <1>4, <2>10 DEF Whole, v
<1> QED
  BY <1>3, <1>4

-------------------------------------------------------------------------------
(* A behavior is requested *)

\* An error goes on to the run that catches it.
LEMMA ThrownNone ==
  ASSUME NEW t, Works(t)
  PROVE  Whole(throw(t, None)) /\ ~Above1(throw(t, None), "schedule")
<1> DEFINE v == None
           x == t.host[1]
<1>1. throw(t, v) = Caught(t)
  BY DEF throw, reg_dec, None
<1>2. Form(t) /\ t.host # <<>> /\ x.op = "run"
  BY RunsReady DEF Works
<1>3. Caught(t) = [t EXCEPT !.host = Catching(t, x, Tail(t.host))]
  BY <1>2, CaughtHost
<1>4. IsSequence(Tail(t.host))
  BY <1>2, PopSequence DEF Form
<1> DEFINE d == [op |-> "drop_args", frame |-> Depth(t)]
           h == Over([op |-> "unwind", depth |-> x.depth],
                     Over([x EXCEPT !.op = "rethrow"], Tail(t.host)))
<1>5. Catching(t, x, Tail(t.host)) = Over(d, h) /\ d.op = "drop_args"
  BY DEF Catching
<1>6. IsSequence(h)
  BY <1>4, PushSequence
<1> HIDE DEF d, h
<1>7. Over(d, h)[1] = d
  BY <1>6, PushSequence
<1>8. Caught(t).host = Over(d, h)
  BY <1>2, <1>3, <1>5 DEF Form, Shape, Fields
<1>9. ~Above1(throw(t, v), "schedule")
  BY <1>1, <1>5, <1>7, <1>8 DEF Above1
<1>10. Whole(throw(t, v))
  <2>1. v = None
    OBVIOUS
  <2> HIDE DEF v
  <2> QED
    BY <2>1, ThrowWhole
<1> QED
  BY <1>9, <1>10

\* The arguments hold nothing, and are forgotten.
LEMMA ForgottenWorks ==
  ASSUME NEW t, Works(t),
         \A i \in 0 .. Slots - 1 : Pending(t.frames, t.args, i) => t.locals[i] = None
  PROVE  Works([t EXCEPT !.args = 0])
<1> DEFINE u == [t EXCEPT !.args = 0]
           F == t.frames
           L == t.locals
           a == t.args
           k == Upward(t.host)
           n == Len(t.host)
<1>1. Form(t) /\ Sound(F, L, a, k, n) /\ Runs(F, k, n) /\ Calm(t)
  BY WorksFacts DEF Works
<1>2. DOMAIN L = 0 .. Slots - 1
  BY <1>1 DEF Sound, OK, Held1
<1>3. /\ Shape(u) /\ u.frames = F /\ u.locals = L /\ u.args = 0
      /\ u.host = t.host /\ u.in_collection = t.in_collection
  BY <1>1 DEF Form, Shape, Fields
<1>4. \A i \in 0 .. Slots - 1 : L[i] = IF Pending(F, a, i) THEN None ELSE L[i]
  OBVIOUS
<1> HIDE DEF F, L, a, k, n, u
<1>5. Sound(F, L, 0, k, n)
  BY <1>1, <1>2, <1>4, TakenDown
<1>6. Form(u)
  BY <1>1, <1>3 DEF Form, HasDrain, F
<1>7. Kept(u) /\ RunsNow(u)
  BY <1>1, <1>3, <1>5 DEF Kept, RunsNow, F, k, n
<1>8. Calm(u)
  BY <1>1, <1>3 DEF Calm
<1> QED
  BY <1>6, <1>7, <1>8 DEF Works, u

\* The request is on top, above a run.
LEMMA AskedKept ==
  ASSUME NEW t, Works(t), NEW i, NEW x, x.args = t.args, NEW s, Shape(s), s.frames = t.frames,
         s.locals = [t.locals EXCEPT ![i] = None], s.args = 0, s.host = Over(x, t.host),
         s.in_collection = t.in_collection, s.where = t.where, s.broken = t.broken
  PROVE  Asked(s)
<1> DEFINE v == None
           w == Written(t, i, v)
           b == Before(s)
<1>1. Works(w) /\ SameBut(t, w) /\ w.locals = [t.locals EXCEPT ![i] = v]
  <2>1. Writable(t, i, v)
    BY DEF Writable
  <2> HIDE DEF v
  <2> QED
    BY <2>1, WorksWritten
<1>2. w.broken = t.broken
  BY DEF Written, Works, Form, Shape, Fields
<1>3. IsSequence(t.host)
  BY DEF Works, Form
<1>4. IsSequence(s.host) /\ s.host # <<>> /\ Item(s) = x /\ Tail(s.host) = t.host
  <2>1. IsSequence(s.host) /\ s.host # <<>> /\ s.host[1] = x /\ Tail(s.host) = t.host
    BY <1>3, PushSequence
  <2> QED
    BY <2>1, PopSequence DEF Item
<1>5. Moved1(w, b)
  <2>1. /\ Shape(b) /\ b.frames = s.frames /\ b.locals = s.locals /\ b.args = x.args
        /\ b.host = Tail(s.host) /\ b.in_collection = s.in_collection /\ b.broken = s.broken
    BY <1>4 DEF Before, Pop, Shape, Fields
  <2> HIDE DEF b, w
  <2> QED
    BY <1>1, <1>2, <1>4, <2>1 DEF Moved1, SameBut, v
<1> HIDE DEF w, b, v
<1>6. Works(b)
  BY <1>1, <1>5, WorksMoved
<1> QED
  BY <1>4, <1>6 DEF Asked, Works, b

LEMMA WhenKept ==
  ASSUME Works(thread), "overlap" \notin Cases, "forgotten_args" \notin Cases,
         NEW f, NEW dst, NEW typed, When(f, dst, typed)
  PROVE  \/ Whole(thread') /\ ~Above1(thread', "schedule")
         \/ Above1(thread', "schedule") /\ Asked(thread')
<1> DEFINE n       == thread.args
           closure == thread.locals[arg(thread, 0)]
           young   == n > 0 /\ closure.kind = "object" /\ Location(thread, closure).at = "frame"
           t       == IF young THEN drag(thread, closure.of, Heap) ELSE thread
           p       == [t EXCEPT !.args = 0]
           x       == [op |-> "schedule", frame |-> Depth(thread), args |-> n, passed |-> Passed(n)]
           r       == Push(p, <<x>>)
           i       == local(r, dst)
           s       == [r EXCEPT !.locals[i] = None]
<1>1. /\ Get(dst) = None /\ (typed \/ Arguments(n) = {})
      /\ \/ thread' \in {throw(thread, None), throw(t, None)}
         \/ ~typed /\ thread' = throw(p, None)
         \/ thread' = Set(r, dst, None)
  BY DEF When, Do, ResultIsFree, ArgsGoOnError
<1>2. Shape(thread) /\ Moved1(thread, t)
  BY DragMoved DEF Works, Form
<1> HIDE DEF t
<1>3. Works(t)
  BY <1>2, WorksMoved
<1>4. CASE thread' \in {throw(thread, None), throw(t, None)}
  BY <1>3, <1>4, ThrownNone
<1>5. CASE ~typed /\ thread' = throw(p, None)
  <2> DEFINE F == thread.frames
  <2>1. Form(thread) /\ Layout(F) /\ n \in Nat /\ Lim(F) \in Nat
    BY WorksFacts
  <2>2. ASSUME NEW e \in 0 .. Slots - 1, Pending(F, n, e)
        PROVE  thread.locals[e] = None
    <3> DEFINE c == e - Lim(F)
    <3>1. c \in Int /\ e \in Int
      BY <2>1, CallFramesAssumption
    <3>2. arg(thread, c) = Lim(F) + c
      <4> HIDE DEF c
      <4> QED
        BY <2>1, <3>1, ArgIs
    <3> HIDE DEF F, n
    <3>3. c \in 0 .. n - 1 /\ arg(thread, c) = e
      BY <2>1, <2>2, <3>1, <3>2 DEF Pending
    <3> HIDE DEF c
    <3>4. thread.locals[e] \in {thread.locals[arg(thread, q)] : q \in 0 .. n - 1}
      BY <3>3
    <3> QED
      BY <1>1, <1>5, <3>4 DEF Arguments
  <2>3. \A e \in 0 .. Slots - 1 : Pending(t.frames, t.args, e) => t.locals[e] = None
    BY <1>2, <2>2 DEF Moved1
  <2>4. Works(p)
    BY <1>3, <2>3, ForgottenWorks
  <2> HIDE DEF p
  <2> QED
    BY <1>5, <2>4, ThrownNone
<1>6. CASE thread' = Set(r, dst, None)
  <2>1. /\ Shape(p) /\ p.frames = t.frames /\ p.locals = t.locals /\ p.args = 0
        /\ p.host = t.host /\ p.in_collection = t.in_collection /\ p.where = t.where
        /\ p.broken = t.broken
    BY <1>2 DEF Moved1, Shape, Fields
  <2>2. /\ x.op = "schedule" /\ x.args = t.args
    BY <1>2 DEF Moved1
  <2> HIDE DEF p, x
  <2>3. /\ Shape(r) /\ r.frames = t.frames /\ r.locals = t.locals /\ r.args = 0
        /\ r.host = Over(x, t.host) /\ r.in_collection = t.in_collection /\ r.where = t.where
        /\ r.broken = t.broken
    BY <2>1 DEF Push, Shape, Fields, Over
  <2> HIDE DEF r
  <2>4. r.locals[i] = None
    BY <1>1, <1>2, <2>3 DEF local, Top, Depth, Get, Moved1
  <2>5. thread' = s
    BY <1>6, <2>4 DEF Set, Assign, reg_dec, None
  <2>6. /\ Shape(s) /\ s.frames = t.frames /\ s.locals = [t.locals EXCEPT ![i] = None]
        /\ s.args = 0 /\ s.host = Over(x, t.host) /\ s.in_collection = t.in_collection
        /\ s.where = t.where /\ s.broken = t.broken
    BY <2>3 DEF Shape, Fields
  <2> HIDE DEF s, i
  <2>7. Asked(s)
    BY <1>3, <2>2, <2>6, AskedKept
  <2>8. Above1(s, "schedule")
    <3>1. IsSequence(t.host)
      BY <1>3 DEF Works, Form
    <3> QED
      BY <2>2, <2>6, <3>1, PushSequence DEF Above1
  <2> QED
    BY <2>5, <2>7, <2>8
<1> QED
  BY <1>1, <1>4, <1>5, <1>6

-------------------------------------------------------------------------------
(* A behavior begins *)

\* A thread that does nothing holds nothing.
LEMMA NothingHeld ==
  ASSUME NEW t, Form(t), Kept(t), Given(t), t.host = <<>>
  PROVE  /\ Len(t.host) = 0 /\ Len(t.frames) = 0 /\ t.args = 0 /\ Lim(t.frames) = 0
         /\ \A i \in 0 .. Slots - 1 : t.locals[i] = None
<1> DEFINE F == t.frames
           L == t.locals
           a == t.args
           k == Upward(t.host)
           n == Len(t.host)
<1>1. n = 0 /\ Sound(F, L, a, k, n) /\ Args(F, L, a, k, n)
  BY FormFacts DEF Kept, Given
<1> HIDE DEF F, L, a, k, n
<1>2. Len(F) = 0 /\ a = 0
  BY <1>1 DEF Sound, Bottom, Args
<1>3. Lim(F) = 0
  BY <1>2 DEF Lim, End
<1>4. ASSUME NEW i \in 0 .. Slots - 1 PROVE L[i] = None
  <2>1. i >= Lim(F) /\ ~Pending(F, a, i) /\ ~Waits(F, k, n, 0) /\ 1 .. n = {}
    BY <1>1, <1>2, <1>3, CallFramesAssumption DEF Pending, Waits
  <2> QED
    BY <1>1, <2>1 DEF Sound, Occupied
<1> QED
  BY <1>1, <1>2, <1>3, <1>4 DEF F, L, a, n

\* Its first register may be the first argument of a run.
LEMMA BehaviorRuns ==
  ASSUME NEW t, Form(t), Kept(t), Given(t), t.host = <<>>, Fitting(t.frames),
         NEW f \in Functions, NEW typed, typed,
         NEW v, v # None => Params[f] > 0 /\ ~IsVar(v),
         NEW u, Shape(u), u.frames = t.frames, u.host = t.host, u.args = Params[f],
         DOMAIN u.locals = DOMAIN t.locals,
         \A i \in 0 .. Slots - 1 : u.locals[i] = IF i = 0 THEN v ELSE t.locals[i], NEW why
  PROVE  Kept(thread_run(u, f, why, typed)) /\ Given(thread_run(u, f, why, typed))
<1> DEFINE F == t.frames
           L == t.locals
           M == u.locals
           a == Params[f]
           k == Upward(t.host)
           n == Len(t.host)
<1>1. /\ n = 0 /\ n \in Nat /\ Len(F) = 0 /\ t.args = 0 /\ Lim(F) = 0
      /\ \A i \in 0 .. Slots - 1 : L[i] = None
  BY NothingHeld
<1>2. Sound(F, L, 0, k, n) /\ DOMAIN L = 0 .. Slots - 1
  BY <1>1 DEF Kept, Sound, OK, Held1
<1>3. a \in Nat /\ (v # None => a > 0)
  BY CallFramesAssumption
<1>4. Sound(F, L, a, k, n)
  <2> HIDE DEF F, L, a, k, n
  <2> QED
    BY <1>2, <1>3, ArgsUp
<1>5. /\ DOMAIN M = 0 .. Slots - 1
      /\ \A i \in 0 .. Slots - 1 : M[i] = IF i = 0 THEN v ELSE None
  BY <1>1, <1>2
<1>6. ~IsVar(v) /\ ~IsVar(None)
  BY DEF IsVar, None
<1>7. typed /\ (v # None => ~IsVar(v))
  OBVIOUS
<1> HIDE DEF F, L, M, a, k, n
<1>8. \A i \in 0 .. Slots - 1 : M[i] # None => i = 0 /\ Pending(F, a, i) /\ ~IsVar(M[i])
  BY <1>1, <1>3, <1>5, <1>6 DEF Pending
<1>9. Sound(F, M, a, k, n)
  <2>1. ASSUME NEW i \in 0 .. Slots - 1, M[i] # None
        PROVE  Admits(F, a, k, n, i, M[i])
    <3>1. Holds(F, i, M[i])
      BY <1>8, <2>1 DEF Holds, Valid
    <3> QED
      BY <1>1, <3>1 DEF Admits
  <2> QED
    BY <1>4, <1>5, <1>8, <2>1, WriteSound
<1>10. Strict(F, k, n) /\ Sheltered(F, M, a, k, n) /\ Firm(F, M, a)
  BY <1>1, <1>5, <1>6, <1>8 DEF Strict, Sheltered, Firm
<1>11. Form(u) /\ Calm(u)
  BY <1>1 DEF Form, HasDrain, Calm, n
<1>12. Kept(u) /\ StrictNow(u) /\ ShelteredNow(u) /\ FirmNow(u) /\ Fitting(u.frames)
  BY <1>9, <1>10 DEF Kept, StrictNow, ShelteredNow, FirmNow, F, M, a, k, n
<1>13. argsFit(u, f, typed)
  BY <1>7 DEF argsFit
<1> QED
  BY <1>11, <1>12, <1>13, ThreadRunKept

LEMMA RunBehaviorKept ==
  ASSUME Good(thread), Kept(thread), Given(thread), Fitting(thread.frames),
         NEW f \in Functions, NEW closure \in {None} \cup {Ref(o) : o \in Objects},
         RunBehavior(f, closure)
  PROVE  Whole(thread')
<1> DEFINE t == [thread EXCEPT !.where[closure.of] = Heap, !.rc[closure.of] = 1]
           given == IF closure = None THEN thread ELSE Assign(t, 0, closure)
           u == [given EXCEPT !.args = Params[f]]
           typed == TRUE
<1>1. /\ thread' = thread_run(u, f, "behavior", typed) /\ thread.host = <<>>
      /\ closure # None => Params[f] > 0
  BY DEF RunBehavior, Do
<1>2. closure # None => ~IsVar(closure)
  BY DEF IsVar, None, Ref
<1>3. Form(thread)
  BY GoodForm
<1>4. thread.locals[0] = None /\ 0 \in 0 .. Slots - 1 /\ DOMAIN thread.locals = 0 .. Slots - 1
  <2>1. DOMAIN thread.locals = 0 .. Slots - 1
    BY DEF Kept, Sound, OK, Held1
  <2>2. Lim(thread.frames) = 0 /\ \A i \in 0 .. Slots - 1 : thread.locals[i] = None
    BY <1>1, <1>3, NothingHeld
  <2>3. 0 \in 0 .. Slots - 1
    BY <2>2, CallFramesAssumption DEF Fitting
  <2> QED
    BY <2>1, <2>2, <2>3
<1> DEFINE L == thread.locals
           M == u.locals
<1>5. /\ Shape(u) /\ u.frames = thread.frames /\ u.host = thread.host /\ u.args = Params[f]
      /\ DOMAIN M = DOMAIN L
      /\ \A i \in 0 .. Slots - 1 : M[i] = IF i = 0 THEN closure ELSE L[i]
  <2>1. CASE closure = None
    <3>1. given = thread
      BY <2>1
    <3>2. Shape(u) /\ u.frames = thread.frames /\ u.host = thread.host /\ u.args = Params[f]
          /\ M = L
      BY <1>3, <3>1 DEF Form, Shape, Fields
    <3> HIDE DEF u
    <3> QED
      BY <1>4, <2>1, <3>2
  <2>2. CASE closure # None
    <3> DEFINE w == [t EXCEPT !.locals[0] = closure]
    <3>1. Shape(t) /\ t.frames = thread.frames /\ t.host = thread.host /\ t.locals = L
      BY <1>3 DEF Form, Shape, Fields
    <3> HIDE DEF t
    <3>2. given = w
      <4> DEFINE v == None
      <4>1. t.locals[0] = v
        BY <1>4, <3>1
      <4>2. v.kind # "object"
        BY DEF None
      <4> HIDE DEF v
      <4>3. Assign(t, 0, closure) = reg_dec(w, v)
        BY <4>1 DEF Assign
      <4>4. reg_dec(w, v) = w
        BY <4>2 DEF reg_dec
      <4> QED
        BY <2>2, <4>3, <4>4
    <3>3. /\ Shape(w) /\ w.frames = thread.frames /\ w.host = thread.host
          /\ w.locals = [L EXCEPT ![0] = closure]
      BY <3>1 DEF Shape, Fields
    <3> HIDE DEF w, given
    <3>4. /\ Shape(u) /\ u.frames = w.frames /\ u.host = w.host /\ u.args = Params[f]
          /\ M = w.locals
      BY <3>2, <3>3 DEF Shape, Fields
    <3> HIDE DEF u
    <3> QED
      BY <1>4, <3>3, <3>4
  <2> QED
    BY <2>1, <2>2
<1>6. typed
  OBVIOUS
<1> HIDE DEF u, typed
<1>7. Kept(thread_run(u, f, "behavior", typed)) /\ Given(thread_run(u, f, "behavior", typed))
  BY <1>1, <1>2, <1>3, <1>5, <1>6, BehaviorRuns
<1> QED
  BY <1>1, <1>7 DEF Whole

-------------------------------------------------------------------------------
(* The invariant *)

\* What the calls in progress rely on, also when only an assert failed or a
\* request waits for its behavior to be made.
Safe(t) == Good(t) /\ Whole(t)
Regs ==
  \/ Safe(thread)
  \/ Above1(thread, "schedule") /\ Waiting(thread) /\ Asked(thread)

LEMMA NoRequest ==
  ASSUME NEW t, Good(t)
  PROVE  ~Above1(t, "schedule")
<1> SUFFICES ASSUME Above1(t, "schedule") PROVE FALSE
  OBVIOUS
<1>1. Item(t) = t.host[1] /\ IsCall(Item(t))
  BY TopFacts DEF Above1
<1> QED
  BY <1>1 DEF Above1, IsCall, Ops

LEMMA InitRegs == Init => Regs
<1> SUFFICES ASSUME Init PROVE Regs
  OBVIOUS
<1> DEFINE t == thread
           F == t.frames
           L == t.locals
           k == Upward(t.host)
<1>1. /\ F = <<>> /\ t.host = <<>> /\ t.args = 0 /\ L = [i \in 0 .. Slots - 1 |-> None]
  BY DEF Init
<1>2. Good(t)
  BY InitGood
<1>3. Len(F) = 0 /\ Len(t.host) = 0
  BY <1>1
<1>4. DOMAIN L = 0 .. Slots - 1 /\ \A i \in 0 .. Slots - 1 : L[i] = None
  BY <1>1
<1>5. t.args = 0
  BY <1>1
<1> HIDE DEF F, L, k, t
<1>6. Layout(F) /\ Lim(F) = 0
  BY <1>3 DEF Layout, Lim, End
<1>7. Held1(F, L)
  BY <1>4 DEF Held1, Holds, Valid, IsVar, None
<1>8. OK(F, L, 0, k, 0)
  BY <1>6, <1>7, CallFramesAssumption DEF OK
<1>9. Sound(F, L, 0, k, 0)
  BY <1>3, <1>4, <1>8 DEF Sound, Occupied, Bottom
<1>10. Kept(t)
  BY <1>3, <1>5, <1>9 DEF Kept, F, L, k
<1>11. Given(t)
  BY <1>3, <1>5 DEF Given, Args
<1> QED
  BY <1>2, <1>10, <1>11 DEF Regs, Safe, Whole, t

\* A request goes on, and nothing else does.
LEMMA WaitingRegs ==
  ASSUME Above1(thread, "schedule"), Waiting(thread), Asked(thread), Next
  PROVE  Safe(thread')
<1>1. thread.host # <<>> /\ Item(thread).op = "schedule"
  BY DEF Above1, Item
<1>2. ~Active
  BY <1>1 DEF Active, Settled
<1>3. HostStep
  BY <1>2 DEF Next, Running, InC, Plain, CanCall, Fault, ReturnFromC, RunBehavior, Callback
<1>4. thread' = scheduleStep(thread, Item(thread))
  BY <1>1, <1>3 DEF HostStep, Do, hostStep
<1>5. Good(thread') /\ Kept(thread') /\ Given(thread')
  BY <1>4, ScheduleOK, ScheduleKept
<1> QED
  BY <1>5 DEF Safe, Whole

\* The register file has room for one more frame of any function.  The code
\* has no such bound: it doubles the file when a frame is pushed or a register
\* beyond its end is used (thread.cc:2172, thread.cc:2221, frame.cc:40,
\* frame.cc:50).  The file of the model has Slots registers for good.
FileFits == \A f \in Functions : Lim(thread.frames) + Registers[f] <= Slots

\* The programs that none of these cases is about.
Mild ==
  /\ "overlap" \notin Cases /\ "raise_out_of_run" \notin Cases
  /\ "callback_over_args" \notin Cases /\ "forgotten_args" \notin Cases

LEMMA SafeNext ==
  ASSUME Safe(thread), Next, FileFits, Mild
  PROVE  Regs'
<1>1. /\ Good(thread) /\ Kept(thread) /\ Fitting(thread.frames)
      /\ thread.broken = {} => Given(thread)
  BY DEF Safe, Whole, FileFits, Fitting
<1>2. Active => Given(thread)
  BY <1>1 DEF Active
<1>3. Running => Works(thread)
  BY <1>1, <1>2, RunningWorks DEF Running
<1>4. Called \subseteq Functions
  BY CallFramesAssumption
<1>5. Safe(thread') => Regs'
  BY DEF Regs
<1>6. ASSUME HostStep PROVE Safe(thread')
  <2>1. ~Settled(thread) /\ thread' = hostStep(thread)
    BY <1>6 DEF HostStep, Do
  <2>2. thread.broken = {}
    BY <2>1 DEF Settled
  <2>3. Good(thread')
    BY <1>1, <2>1, HostStepOK
  <2>4. Whole(thread')
    BY <1>1, <2>1, <2>2, HostKept
  <2> QED
    BY <2>3, <2>4 DEF Safe
<1>7. ASSUME Fault PROVE Safe(thread')
  BY <1>1, <1>3, <1>7, FaultOK, FaultKept DEF Safe, Fault, Plain
<1>8. ASSUME NEW typed \in BOOLEAN, ReturnFromC(typed) PROVE Safe(thread')
  <2>1. Given(thread)
    BY <1>2, <1>8 DEF ReturnFromC, InC
  <2> QED
    BY <1>1, <1>8, <2>1, ReturnFromCOK, ReturnFromCKept DEF Safe, Mild
<1>9. ASSUME NEW f \in Called, NEW closure \in {None} \cup {Ref(o) : o \in Objects},
             RunBehavior(f, closure)
      PROVE  Safe(thread')
  <2>1. Given(thread) /\ f \in Functions
    BY <1>2, <1>4, <1>9 DEF RunBehavior
  <2>2. Good(thread')
    BY <1>1, <1>9, RunBehaviorOK
  <2>3. Whole(thread')
    BY <1>1, <1>9, <2>1, RunBehaviorKept
  <2> QED
    BY <2>2, <2>3 DEF Safe
<1>10. ASSUME NEW f \in Called, Callback(f) PROVE Safe(thread')
  <2>1. Given(thread) /\ f \in Functions
    BY <1>2, <1>4, <1>10 DEF Callback, InC
  <2> QED
    BY <1>1, <1>10, <2>1, CallbackOK, CallbackKept DEF Safe, Mild
<1> DEFINE Places == {Heap, InFrame(Depth(thread)), OnStack(Depth(thread))}
<1>11. ASSUME Running, NEW o \in Objects, NEW dst \in Locals, NEW place \in Places,
              New(o, place, dst)
       PROVE  Safe(thread')
  BY <1>1, <1>3, <1>11, NewOK, NewKept DEF Safe
<1>12. ASSUME Running, NEW src \in Locals, NEW dst \in Locals,
              Copy(src, dst) \/ Move(src, dst) \/ RegisterRef(src, dst) \/ Load(src, dst)
       PROVE  Safe(thread')
  <2>1. Good(thread')
    BY <1>1, <1>12, CopyOK, MoveInstructionOK, RegisterRefOK, LoadOK
  <2>2. Whole(thread')
    BY <1>3, <1>12, CopyKept, MoveKept, RegisterRefKept, LoadKept
  <2> QED
    BY <2>1, <2>2 DEF Safe
<1>13. ASSUME Running, NEW ref \in Locals, NEW src \in Locals, NEW dst \in Locals,
              NEW is_move \in BOOLEAN, NEW typed \in BOOLEAN,
              Store(ref, src, dst, is_move, typed)
       PROVE  Safe(thread')
  BY <1>1, <1>3, <1>13, StoreOK, StoreKept DEF Safe
<1>14. ASSUME Running, NEW src \in Locals, Drop(src) \/ SetArg(src, TRUE) \/ SetArg(src, FALSE)
       PROVE  Safe(thread')
  <2>1. Good(thread')
    BY <1>1, <1>14, DropOK, SetArgOK
  <2>2. Whole(thread')
    BY <1>1, <1>3, <1>14, DropKept, SetArgKept
  <2> QED
    BY <2>1, <2>2 DEF Safe
<1>15. ASSUME Running, NEW src \in Locals, NEW typed \in BOOLEAN, Return(src, typed)
       PROVE  Safe(thread')
  BY <1>1, <1>3, <1>15, ReturnOK, ReturnKept DEF Safe
<1>16. ASSUME Running, NEW src \in Locals, NEW typed \in BOOLEAN,
              NEW target \in 1 .. Depth(thread), Raise(src, target, typed)
       PROVE  Safe(thread')
  <2>1. target \in Int
    OBVIOUS
  <2> QED
    BY <1>1, <1>3, <1>16, <2>1, RaiseOK, RaiseKept DEF Safe, Mild
<1>17. ASSUME Running, NEW dst \in Locals, FFI(dst) PROVE Safe(thread')
  BY <1>1, <1>3, <1>17, FFIOK, FFIKept DEF Safe
<1>18. ASSUME Running, NEW f \in Called, NEW typed \in Types, Tailcall(f, typed)
       PROVE  Safe(thread')
  BY <1>1, <1>3, <1>4, <1>18, TailcallOK, TailcallKept DEF Safe
<1>19. ASSUME Running, NEW f \in Called, NEW typed \in Types, NEW dst \in Locals,
              Call(f, dst, typed) \/ TryCall(f, dst, typed)
       PROVE  Safe(thread')
  <2>1. Good(thread')
    BY <1>1, <1>19, CallOK, TryCallOK
  <2>2. Whole(thread')
    BY <1>1, <1>3, <1>4, <1>19, CallKept, TryCallKept
  <2> QED
    BY <2>1, <2>2 DEF Safe
<1>20. ASSUME Running, NEW f \in Called, NEW typed \in Types, NEW dst \in Locals,
              When(f, dst, typed)
       PROVE  Regs'
  <2>1. Good(thread') \/ (Above1(thread', "schedule") /\ Waiting(thread'))
    BY <1>1, <1>20, WhenOK DEF Mild
  <2>2. \/ Whole(thread') /\ ~Above1(thread', "schedule")
        \/ Above1(thread', "schedule") /\ Asked(thread')
    BY <1>3, <1>20, WhenKept DEF Mild
  <2>3. Good(thread') => ~Above1(thread', "schedule")
    BY NoRequest
  <2> QED
    BY <2>1, <2>2, <2>3 DEF Regs, Safe
<1> DEFINE Host == HostStep \/ Fault
           Moves == \E src, dst \in Locals :
                      Copy(src, dst) \/ Move(src, dst) \/ RegisterRef(src, dst) \/ Load(src, dst)
           Ones == \E src \in Locals : Drop(src) \/ SetArg(src, TRUE) \/ SetArg(src, FALSE)
           Outside == \/ \E typed \in BOOLEAN : ReturnFromC(typed)
                      \/ \E f \in Called, closure \in {None} \cup {Ref(o) : o \in Objects} :
                           RunBehavior(f, closure)
                      \/ \E f \in Called : Callback(f)
           Data == \/ \E o \in Objects, dst \in Locals, place \in Places : New(o, place, dst)
                   \/ \E ref, src, dst \in Locals, is_move, typed \in BOOLEAN :
                        Store(ref, src, dst, is_move, typed)
           Leaves == \E src \in Locals, typed \in BOOLEAN :
                       \/ Return(src, typed)
                       \/ \E target \in 1 .. Depth(thread) : Raise(src, target, typed)
           Calling == \/ \E dst \in Locals : FFI(dst)
                      \/ \E f \in Called, typed \in Types :
                           \/ Tailcall(f, typed)
                           \/ \E dst \in Locals : \/ Call(f, dst, typed) \/ TryCall(f, dst, typed)
                                                 \/ When(f, dst, typed)
<1>21. Host \/ Outside \/ (Running /\ (Data \/ Moves \/ Ones \/ Leaves \/ Calling))
  BY Zenon DEF Next
<1> HIDE DEF Places
<1>22. CASE Host
  BY <1>5, <1>6, <1>7, <1>22, Zenon
<1>23. CASE Outside
  BY <1>5, <1>8, <1>9, <1>10, <1>23, Zenon
<1>24. CASE Running /\ Data
  BY <1>5, <1>11, <1>13, <1>24
<1>25. CASE Running /\ Moves
  BY <1>5, <1>12, <1>25, Zenon
<1>26. CASE Running /\ Ones
  BY <1>5, <1>14, <1>26, Zenon
<1>27. CASE Running /\ Leaves
  BY <1>5, <1>15, <1>16, <1>27, Zenon
<1>28. CASE Running /\ Calling
  BY <1>5, <1>17, <1>18, <1>19, <1>20, <1>28, Zenon
<1> QED
  BY <1>21, <1>22, <1>23, <1>24, <1>25, <1>26, <1>27, <1>28, Zenon

LEMMA RegsNext ==
  ASSUME Mild
  PROVE  Regs /\ FileFits /\ [Next]_vars => Regs'
<1> SUFFICES ASSUME Regs, FileFits, [Next]_vars PROVE Regs'
  OBVIOUS
<1>1. CASE UNCHANGED vars
  BY <1>1 DEF vars, Regs
<1>2. CASE Next
  <2>1. Safe(thread') => Regs'
    BY DEF Regs
  <2> QED
    BY <1>2, <2>1, SafeNext, WaitingRegs DEF Regs
<1> QED
  BY <1>1, <1>2

\* Runs nest in the calls h when there are d frames.
Nest(h, d) ==
  \A i \in 1 .. Len(h) : h[i].op \in RunOps =>
    /\ h[i].depth <= d
    /\ \A j \in 1 .. i - 1 : h[j].op \in RunOps => h[i].depth < h[j].depth

LEMMA KeptNests ==
  ASSUME NEW t, Form(t), Kept(t)
  PROVE  Nest(t.host, Depth(t))
<1> DEFINE F == t.frames
           L == t.locals
           k == Upward(t.host)
           n == Len(t.host)
<1>1. n \in Nat /\ OK(F, L, t.args, k, n) /\ Len(F) = Depth(t)
  BY FormFacts DEF Kept, Sound
<1> SUFFICES ASSUME NEW i \in 1 .. n, t.host[i].op \in RunOps
             PROVE  /\ t.host[i].depth <= Depth(t)
                    /\ \A j \in 1 .. i - 1 : t.host[j].op \in RunOps =>
                         t.host[i].depth < t.host[j].depth
  BY DEF Nest
<1> DEFINE p == n + 1 - i
<1>2. \A e \in 1 .. n : n + 1 - e \in 1 .. n /\ k[n + 1 - e] = t.host[e]
  <2>1. \A e \in 1 .. n : n + 1 - e \in 1 .. n /\ n + 1 - (n + 1 - e) = e
    BY <1>1
  <2> QED
    BY <2>1 DEF Upward
<1>3. p \in 1 .. n /\ k[p] = t.host[i]
  BY <1>2
<1> HIDE DEF F, L, k
<1>4. k[p].depth <= Len(F)
  <2>1. Placed(F, k, n, p)
    BY <1>1, <1>3 DEF OK, Called1
  <2> HIDE DEF n, p
  <2>2. IsCall(k[p]) /\ k[p].op \in RunOps
    BY <1>3, <2>1 DEF Placed
  <2>3. k[p].depth \in Nat /\ Len(F) \in Nat
    BY <1>1, <2>2 DEF IsCall, FloorOps, OK, Layout
  <2> QED
    BY <2>1, <2>2, <2>3 DEF Placed
<1>5. ASSUME NEW j \in 1 .. i - 1, t.host[j].op \in RunOps
      PROVE  t.host[i].depth < t.host[j].depth
  <2> DEFINE q == n + 1 - j
  <2>1. j \in 1 .. n
    BY <1>1
  <2>2. q \in 1 .. n /\ k[q] = t.host[j]
    BY <1>2, <2>1
  <2>3. p \in 1 .. q - 1
    BY <1>1, <1>3, <2>1, <2>2
  <2> HIDE DEF n, p, q
  <2>4. Below(k, q)
    BY <1>1, <2>2 DEF OK, Called1
  <2>5. BelowRun(k[q], k[p])
    BY <1>5, <2>2, <2>3, <2>4 DEF Below
  <2> QED
    BY <1>3, <2>2, <2>5 DEF BelowRun
<1> QED
  BY <1>1, <1>3, <1>4, <1>5

LEMMA NestOver ==
  ASSUME NEW h, IsSequence(h), NEW x, x.op \notin RunOps, NEW d, Nest(h, d)
  PROVE  Nest(Over(x, h), d)
<1> DEFINE g == Over(x, h)
           n == Len(h)
<1>1. /\ n \in Nat /\ Len(g) = n + 1 /\ g[1] = x
      /\ \A i \in 2 .. n + 1 : g[i] = h[i - 1]
  BY PushSequence
<1> SUFFICES ASSUME NEW i \in 1 .. n + 1, g[i].op \in RunOps
             PROVE  /\ g[i].depth <= d
                    /\ \A j \in 1 .. i - 1 : g[j].op \in RunOps => g[i].depth < g[j].depth
  BY <1>1 DEF Nest
<1> HIDE DEF g
<1>2. i \in 2 .. n + 1 /\ i - 1 \in 1 .. n /\ g[i] = h[i - 1]
  BY <1>1
<1>3. /\ h[i - 1].depth <= d
      /\ \A e \in 1 .. i - 1 - 1 : h[e].op \in RunOps => h[i - 1].depth < h[e].depth
  BY <1>2 DEF Nest
<1>4. ASSUME NEW j \in 1 .. i - 1, g[j].op \in RunOps
      PROVE  g[i].depth < g[j].depth
  <2>1. j # 1
    BY <1>1, <1>4
  <2>2. j \in 2 .. n + 1 /\ j - 1 \in 1 .. i - 1 - 1
    BY <1>1, <1>2, <2>1
  <2>3. g[j] = h[j - 1]
    BY <1>1, <2>2
  <2> QED
    BY <1>2, <1>3, <1>4, <2>2, <2>3
<1> QED
  BY <1>2, <1>3, <1>4

LEMMA RegsNest == Regs => RunsNest
<1> SUFFICES ASSUME Regs PROVE RunsNest
  OBVIOUS
<1>1. Nest(thread.host, Depth(thread))
  <2>1. CASE Safe(thread)
    BY <2>1, GoodForm, KeptNests DEF Safe, Whole
  <2>2. CASE Above1(thread, "schedule") /\ Asked(thread)
    <3> DEFINE b == Before(thread)
               h == Tail(thread.host)
               x == thread.host[1]
    <3>1. Form(b) /\ Kept(b) /\ IsSequence(thread.host) /\ thread.host # <<>> /\ Shape(thread)
      BY <2>2 DEF Asked
    <3>2. b.host = h /\ b.frames = thread.frames
      BY <3>1 DEF Before, Pop, Shape, Fields
    <3> HIDE DEF b
    <3>3. Nest(h, Depth(thread))
      BY <3>1, <3>2, KeptNests DEF Depth
    <3>4. IsSequence(h) /\ thread.host = Over(x, h)
      BY <3>1, PopSequence
    <3>5. x.op \notin RunOps
      BY <2>2 DEF Above1, RunOps
    <3> HIDE DEF h, x
    <3> QED
      BY <3>3, <3>4, <3>5, NestOver
  <2> QED
    BY <2>1, <2>2 DEF Regs
<1>2. DOMAIN thread.host = 1 .. Len(thread.host)
  <2>1. IsSequence(thread.host)
    BY DEF Regs, Safe, Asked, Good, Fits, Fit
  <2> QED
    BY <2>1 DEF IsSequence
<1> QED
  BY <1>1, <1>2 DEF RunsNest, Nest, RunOps

\* A register that refers to a variable outlives its frame.
VariablesLive ==
  \A i \in 0 .. Slots - 1 :
    LET v == thread.locals[i]
    IN v.kind = "register" => v.frame >= 1 /\ Outlived(i, v.frame)

LEMMA RegsLive == Regs => VariablesLive
<1> SUFFICES ASSUME Regs PROVE VariablesLive
  OBVIOUS
<1> DEFINE F == thread.frames
           L == thread.locals
<1>1. Held1(F, L) /\ Len(F) \in Nat /\ Layout(F)
  <2>1. CASE Safe(thread)
    BY <2>1 DEF Safe, Whole, Kept, Sound, OK, Layout
  <2>2. CASE Asked(thread)
    <3> DEFINE b == Before(thread)
    <3>1. Kept(b) /\ Shape(thread)
      BY <2>2 DEF Asked
    <3>2. b.locals = thread.locals /\ b.frames = thread.frames
      BY <3>1 DEF Before, Pop, Shape, Fields
    <3> HIDE DEF b
    <3> QED
      BY <3>1, <3>2 DEF Kept, Sound, OK, Layout
  <2> QED
    BY <2>1, <2>2 DEF Regs
<1> SUFFICES ASSUME NEW i \in 0 .. Slots - 1, L[i].kind = "register"
             PROVE  L[i].frame >= 1 /\ Outlived(i, L[i].frame)
  BY DEF VariablesLive
<1>2. L[i].frame \in 1 .. Len(F) /\ F[L[i].frame].base <= i
  BY <1>1 DEF Held1, Holds, Valid, IsVar
<1>3. F[L[i].frame].base \in Nat /\ i \in Int
  BY <1>1, <1>2, CallFramesAssumption DEF Layout
<1> QED
  BY <1>1, <1>2, <1>3 DEF Outlived, Depth

LEMMA RegsBehind == Regs => NothingBehind
<1> SUFFICES ASSUME Regs, Active, thread.host = <<>> \/ Plain
             PROVE  \A i \in arg(thread, 0) .. Slots - 1 :
                      thread.locals[i] # None =>
                        \E j \in DOMAIN thread.host :
                          /\ thread.host[j].op = "clear"
                          /\ i \in thread.host[j].from .. thread.host[j].to
  BY DEF NothingBehind
<1> DEFINE t == thread
           F == t.frames
           L == t.locals
           k == Upward(t.host)
           n == Len(t.host)
<1>1. ~Above1(t, "schedule")
  BY DEF Above1, Active, Settled, Item
<1>2. Good(t) /\ Kept(t) /\ Given(t) /\ Form(t)
  <2>1. Safe(t) /\ t.broken = {}
    BY <1>1 DEF Regs, Active
  <2> QED
    BY <2>1, GoodForm DEF Safe, Whole
<1>3. Sound(F, L, t.args, k, n) /\ Layout(F) /\ n \in Nat
  BY <1>2 DEF Kept, Sound, OK
<1>4. arg(t, 0) = Lim(F) /\ Lim(F) \in Nat
  <2> DEFINE zero == 0
  <2>1. zero \in Int /\ zero = 0
    OBVIOUS
  <2> HIDE DEF zero
  <2>2. arg(t, zero) = Lim(F) + zero
    BY <1>2, <1>3, <2>1, ArgIs
  <2>3. Lim(F) \in Nat
    BY <1>3, Ends
  <2> HIDE DEF F, t
  <2> QED
    BY <2>1, <2>2, <2>3
<1>5. CASE t.host = <<>>
  <2>1. \A i \in 0 .. Slots - 1 : L[i] = None
    BY <1>2, <1>5, NothingHeld
  <2> QED
    BY <1>4, <2>1, CallFramesAssumption
<1>6. CASE Plain
  <2>1. Works(t) /\ t.args = 0
    BY <1>2, <1>6, RunningWorks DEF Plain
  <2>2. n >= 1 /\ k[n].op = "run" /\ k[n].depth < Len(F) /\ Len(F) \in Nat /\ k[n].depth \in Nat
    BY <2>1, WorksFacts
  <2> SUFFICES ASSUME NEW i \in arg(t, 0) .. Slots - 1, L[i] # None
               PROVE  \E j \in DOMAIN t.host : /\ t.host[j].op = "clear"
                                               /\ i \in t.host[j].from .. t.host[j].to
    OBVIOUS
  <2>3. i \in 0 .. Slots - 1 /\ i >= Lim(F) /\ i \in Int
    BY <1>4, CallFramesAssumption
  <2>4. ~Pending(F, 0, i) /\ ~Waits(F, k, n, 0)
    <3> HIDE DEF F, k, n
    <3> QED
      BY <1>4, <2>2, <2>3 DEF Pending, Waits
  <2>5. PICK p \in 1 .. n : Drops(F, k, n, p, i)
    <3>1. Occupied(F, L, 0, k, n)
      BY <1>3, <2>1 DEF Sound
    <3> HIDE DEF F, L, k, n
    <3> QED
      BY <2>3, <2>4, <3>1 DEF Occupied
  <2>6. k[p].op = "clear" /\ k[p].from <= i /\ i <= k[p].to
    BY <2>2, <2>5 DEF Drops
  <2>7. k[p].from \in Int /\ k[p].to \in Int
    <3>1. Placed(F, k, n, p)
      BY <1>3 DEF Sound, OK, Called1
    <3> HIDE DEF F, k, n
    <3> QED
      BY <2>6, <3>1 DEF Placed
  <2>8. i \in k[p].from .. k[p].to
    BY <2>3, <2>6, <2>7
  <2> DEFINE j == n + 1 - p
  <2>9. j \in 1 .. n /\ k[p] = t.host[j]
    BY <1>3 DEF Upward
  <2>10. DOMAIN t.host = 1 .. n
    BY <1>2 DEF Form, IsSequence
  <2> QED
    BY <2>6, <2>8, <2>9, <2>10
<1> QED
  BY <1>5, <1>6

-------------------------------------------------------------------------------
(* The registers of a thread *)

\* Between instructions no register beyond the current frame is in use, for
\* any program without the named cases and any number of frames.  A call takes
\* what was passed to it (thread.cc: pushframe, tailcall), and what it does not
\* take, an error, a finalizer and a callback drop or put back (drop_args,
\* popframe, thread_run).
THEOREM NothingIsBehind ==
  ASSUME Mild
  PROVE  Spec /\ []FileFits => []NothingBehind
<1>1. Init => Regs
  BY InitRegs
<1>2. Regs /\ FileFits /\ [Next]_vars => Regs'
  BY RegsNext
<1>3. Regs => NothingBehind
  BY RegsBehind
<1> QED
  BY <1>1, <1>2, <1>3, PTL DEF Spec

\* A run that C++ has entered (thread_run: a finalizer, a callback, a behavior)
\* ends before the run below it goes on, and never with fewer frames than it
\* was entered with, whatever is returned, raised or torn down in it.
THEOREM RunsAreNested ==
  ASSUME Mild
  PROVE  Spec /\ []FileFits => []RunsNest
<1>1. Init => Regs
  BY InitRegs
<1>2. Regs /\ FileFits /\ [Next]_vars => Regs'
  BY RegsNext
<1>3. Regs => RunsNest
  BY RegsNest
<1> QED
  BY <1>1, <1>2, <1>3, PTL DEF Spec

\* No register refers to a variable of a frame that is gone, or of a frame
\* younger than its own: a store checks it (value.cc: exchange), and so do a
\* return, an error, a tail call and a request on what they pass on.
THEOREM VariablesStayLive ==
  ASSUME Mild
  PROVE  Spec /\ []FileFits => []VariablesLive
<1>1. Init => Regs
  BY InitRegs
<1>2. Regs /\ FileFits /\ [Next]_vars => Regs'
  BY RegsNext
<1>3. Regs => VariablesLive
  BY RegsLive
<1> QED
  BY <1>1, <1>2, <1>3, PTL DEF Spec
=============================================================================
