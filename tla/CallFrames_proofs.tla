--------------------------- MODULE CallFrames_proofs ---------------------------
(***************************************************************************)
(* Every step of the thread keeps its calls in progress fit for its frames *)
(* (CallFrames_calls); so a finalizer runs once.                           *)
(***************************************************************************)
EXTENDS CallFrames_calls

-------------------------------------------------------------------------------
(* The call on top *)

LEMMA TopFacts ==
  ASSUME NEW t, Good(t), t.host # <<>>
  PROVE  /\ Item(t) = t.host[1] /\ IsCall(Item(t)) /\ Level(Item(t), Depth(t))
         /\ Depth(t) \in Nat /\ Shape(t)
<1>1. Depth(t) \in Nat /\ Fit(t.host, Depth(t)) /\ Shape(t) /\ IsSequence(t.host)
  BY FitsDepth DEF Good, Fits, Body, Fit
<1>2. Head(t.host) = t.host[1]
  BY <1>1, PopSequence
<1>3. IsCall(t.host[1]) /\ Level(t.host[1], Depth(t))
  BY <1>1, FitUnder
<1> QED
  BY <1>1, <1>2, <1>3 DEF Item

\* Calls that end without taking a frame along.
LEMMA PopHere ==
  ASSUME NEW t, Good(t), t.host # <<>>, Item(t).op \notin MarkOps, After(Item(t)) = Depth(t)
  PROVE  Keeps(t, Pop(t)) /\ Under(Item(t), Pop(t).host) /\ Alike(t, Pop(t)) /\ Shape(Pop(t))
<1>1. Item(t) = t.host[1] /\ Depth(t) \in Nat /\ Shape(t)
  BY TopFacts
<1>2. Fits(Pop(t), Depth(t)) /\ Under(Item(t), Pop(t).host)
  BY <1>1, PopOK DEF Good
<1>3. Shape(Pop(t)) /\ Alike(t, Pop(t))
  BY <1>1, PopFields
<1> QED
  BY <1>2, <1>3 DEF Keeps, Good, Alike, Depth

HereOps == {"clear", "collect", "result", "tailcall", "start", "callback", "ffi", "assign",
           "drop_args", "throw"}

LEMMA PopPlain ==
  ASSUME NEW t, Good(t), t.host # <<>>, Item(t).op \in HereOps
  PROVE  Keeps(t, Pop(t)) /\ Under(Item(t), Pop(t).host) /\ Alike(t, Pop(t)) /\ Shape(Pop(t))
<1>1. After(Item(t)) = Depth(t) /\ Item(t).op \notin MarkOps
  BY TopFacts DEF After, Level, FloorOps, RunOps, MarkOps, HereOps
<1> QED
  BY <1>1, PopHere

\* These are made right above a run.
LEMMA AboveRun ==
  ASSUME NEW t, Good(t), t.host # <<>>, Item(t).op \in {"tailcall", "throw", "ffi", "result"}
  PROVE  Keeps(t, Pop(t)) /\ Above1(Pop(t), "run")
<1>1. Keeps(t, Pop(t)) /\ Under(Item(t), Pop(t).host)
  BY PopPlain DEF HereOps
<1> QED
  BY <1>1 DEF Under, Needy, Above, Above1

-------------------------------------------------------------------------------
(* Steps between two instructions *)

LEMMA ClearOK ==
  ASSUME NEW t, Good(t), t.host # <<>>, Item(t).op = "clear"
  PROVE  Good(clearStep(t, Item(t)))
<1>1. Good(Pop(t))
  BY PopPlain DEF HereOps, Keeps
<1>2. \A i, v : Good(Assign(t, i, v))
  BY AssignOK DEF Keeps
<1> QED
  BY <1>1, <1>2 DEF clearStep

LEMMA CollectStepOK ==
  ASSUME NEW t, Good(t), t.host # <<>>, Item(t).op = "collect"
  PROVE  Good(collectStep(t, Item(t)))
<1> DEFINE set == {o \in Objects : t.where[o] = InFrame(Item(t).frame)}
<1>1. Good(Pop(t)) /\ Alike(t, Pop(t))
  BY PopPlain DEF HereOps, Keeps
<1>2. \A o \in set \cap Finalized : Pop(t).where[o].at \in {"frame", "heap"}
  BY <1>1 DEF Alike, InFrame
<1> HIDE DEF set
<1>3. Good(collect(Pop(t), set))
  BY <1>1, <1>2, CollectOK DEF Keeps
<1> QED
  BY <1>3 DEF collectStep, set

LEMMA ResultOK ==
  ASSUME NEW t, Good(t), t.host # <<>>, Item(t).op = "result"
  PROVE  Good(resultStep(t, Item(t)))
<1>1. Good(Pop(t))
  BY PopPlain DEF HereOps, Keeps
<1> QED
  BY <1>1, AssignOK DEF resultStep, Keeps

LEMMA StartOK ==
  ASSUME NEW t, Good(t), t.host # <<>>, Item(t).op = "start"
  PROVE  Good(startStep(t, Item(t)))
<1>1. Good(Pop(t))
  BY PopPlain DEF HereOps, Keeps
<1> QED
  BY <1>1, ThreadRunOK DEF startStep

LEMMA AssignStepOK ==
  ASSUME NEW t, Good(t), t.host # <<>>, Item(t).op = "assign"
  PROVE  Good(Assign(Pop(t), Item(t).slot, Item(t).value))
<1>1. Good(Pop(t))
  BY PopPlain DEF HereOps, Keeps
<1> QED
  BY <1>1, AssignOK DEF Keeps

LEMMA DropArgsStepOK ==
  ASSUME NEW t, Good(t), t.host # <<>>, Item(t).op = "drop_args"
  PROVE  Good(drop_args(Pop(t)))
<1>1. Good(Pop(t))
  BY PopPlain DEF HereOps, Keeps
<1> QED
  BY <1>1, DropArgsOK DEF Keeps

LEMMA ThrowStepOK ==
  ASSUME NEW t, Good(t), t.host # <<>>, Item(t).op = "throw"
  PROVE  Good(throw(Pop(t), None))
<1>1. Good(Pop(t)) /\ Above1(Pop(t), "run")
  BY AboveRun DEF Keeps
<1> QED
  BY <1>1, ThrowOK DEF Keeps

LEMMA CallbackStepOK ==
  ASSUME NEW t, Good(t), t.host # <<>>, Item(t).op = "callback"
  PROVE  Good(callbackStep(t, Item(t)))
<1> DEFINE r == [t EXCEPT !.args = @ + 1]
<1>1. Good(Pop(t))
  BY PopPlain DEF HereOps, Keeps
<1>2. Good(thread_run(Pop(t), Item(t).func, "callback", TRUE))
  BY <1>1, ThreadRunOK
<1>3. Shape(r) /\ Alike(t, r) /\ r.host = t.host
  BY DEF Good, Fits, Body, Shape, Fields, Alike
<1>4. Good(r)
  BY <1>3, KeepsAlike DEF Keeps
<1> HIDE DEF r
<1>5. Good(Assign(r, arg(t, t.args), None))
  BY <1>4, AssignOK DEF Keeps
<1> QED
  BY <1>2, <1>5 DEF callbackStep, r

LEMMA RethrowOK ==
  ASSUME NEW t, Good(t), t.host # <<>>, Item(t).op = "rethrow"
  PROVE  Good(rethrowStep(t, Item(t)))
<1> DEFINE u == Pop(t)
           v == IF Depth(u) = 0 THEN u ELSE Assign(u, local(u, 0), Item(t).saved)
           w == [v EXCEPT !.aborted = TRUE]
<1>1. After(Item(t)) = Depth(t) /\ Item(t).op \notin MarkOps
  BY TopFacts DEF After, Level, FloorOps, RunOps, MarkOps
<1>2. Good(u)
  BY <1>1, PopHere DEF Keeps
<1> HIDE DEF u
<1>3. Good(v)
  BY <1>2, AssignOK DEF Keeps
<1>4. rethrowStep(t, Item(t)) = IF Item(t).why = "callback" THEN w ELSE v
  BY DEF rethrowStep, u
<1> HIDE DEF v
<1>5. Shape(w) /\ Alike(v, w) /\ w.host = v.host
  BY <1>3 DEF Good, Fits, Body, Shape, Fields, Alike
<1> HIDE DEF w
<1>6. Good(w)
  BY <1>3, <1>5, KeepsAlike DEF Keeps
<1> QED
  BY <1>3, <1>4, <1>6

\* An object that has not been finalized is put somewhere else.
Young == {"frame", "heap", "sent"}

LEMMA PlaceOK ==
  ASSUME NEW t, NEW e, Fits(t, e), NEW o, t.where[o].at \in Young, NEW new, new.at \in Young,
         NEW u, Shape(u), u.frames = t.frames, u.finalized = t.finalized, u.queue = t.queue,
         u.in_collection = t.in_collection, u.host = t.host,
         u.where = [t.where EXCEPT ![o] = new]
  PROVE  Fits(u, e)
<1>1. Body(u)
  BY DEF Fits, Body
<1>2. ASSUME NEW x \in Finalized
      PROVE  Right(x, u.where[x], u.finalized[x], Calls(u.host), u.queue)
  <2>1. Right(x, t.where[x], t.finalized[x], Calls(t.host), t.queue) /\ x \in DOMAIN t.where
    BY CallFramesAssumption DEF Fits, Body, Once
  <2>2. CASE x # o
    <3>1. u.where[x] = t.where[x]
      BY <2>2
    <3> QED
      BY <2>1, <3>1
  <2>3. CASE x = o
    <3>1. u.where[x] = new /\ t.where[x].at \in Young
      BY <2>1, <2>3
    <3>2. t.finalized[x] = 0 /\ t.where[x] # Dying /\ new # Dying
          /\ \A f : t.where[x] # OnStack(f) /\ new # OnStack(f)
      BY <2>1, <3>1 DEF Right, Young, Dying, OnStack
    <3>3. Right(x, new, 0, Calls(t.host), t.queue)
      BY <2>1, <3>2 DEF Right, Young
    <3> QED
      BY <3>1, <3>2, <3>3
  <2> QED
    BY <2>2, <2>3
<1> QED
  BY <1>1, <1>2 DEF Fits, Once

LEMMA DragOK ==
  ASSUME NEW t, NEW e, Fits(t, e), NEW o, t.where[o].at = "frame", NEW to, to.at \in Young
  PROVE  Fits(drag(t, o, to), e) /\ drag(t, o, to).frames = t.frames /\ drag(t, o, to).host = t.host
         /\ Shape(drag(t, o, to))
<1> DEFINE u == drag(t, o, to)
<1>1. /\ Shape(u) /\ u.frames = t.frames /\ u.finalized = t.finalized /\ u.queue = t.queue
      /\ u.in_collection = t.in_collection /\ u.host = t.host
      /\ u.where = [t.where EXCEPT ![o] = to]
  BY DEF drag, Fits, Body, Shape, Fields
<1>2. t.where[o].at \in Young
  BY DEF Young
<1> HIDE DEF u
<1>3. Fits(u, e)
  BY <1>1, <1>2, PlaceOK
<1> QED
  BY <1>1, <1>3 DEF u

LEMMA SendOK ==
  ASSUME NEW t, Good(t), NEW o, t.where[o].at \in Young
  PROVE  Keeps(t, send(t, o))
<1> DEFINE u == send(t, o)
<1>1. /\ Shape(u) /\ u.frames = t.frames /\ u.finalized = t.finalized /\ u.queue = t.queue
      /\ u.in_collection = t.in_collection /\ u.host = t.host
      /\ u.where = [t.where EXCEPT ![o] = Sent]
  BY DEF send, Good, Fits, Body, Shape, Fields
<1>2. Sent.at \in Young
  BY DEF Young, Sent
<1> HIDE DEF u
<1>3. Fits(u, Depth(t))
  BY <1>1, <1>2, PlaceOK DEF Good
<1> QED
  BY <1>1, <1>3 DEF Keeps, Good, Depth, u

LEMMA EndOK ==
  ASSUME NEW t, Good(t), t.host # <<>>, Item(t).op = "run", Depth(t) = Item(t).depth
  PROVE  Good(endStep(t, Item(t)))
<1> DEFINE zero   == IF Depth(t) = 0 THEN 0 ELSE local(t, 0)
           result == t.locals[zero]
           u      == [Pop(t) EXCEPT !.locals[zero] = Item(t).saved]
<1>1. After(Item(t)) = Depth(t) /\ Item(t).op \notin MarkOps
  BY TopFacts DEF After, FloorOps, RunOps, MarkOps
<1>2. Good(Pop(t)) /\ Alike(t, Pop(t)) /\ Shape(Pop(t))
  BY <1>1, PopHere DEF Keeps
<1>3. Shape(u) /\ Alike(Pop(t), u) /\ u.host = Pop(t).host
  BY <1>2 DEF Shape, Fields, Alike
<1> HIDE DEF u
<1>4. Good(u)
  BY <1>2, <1>3, KeepsAlike DEF Keeps
<1>5. u.where = t.where
  BY <1>2, <1>3 DEF Alike
<1>6. ASSUME result.kind = "object", Location(t, result) = Heap PROVE Good(send(u, result.of))
  <2>1. t.where[result.of] = Heap
    BY <1>6 DEF Location, IsObject
  <2>2. u.where[result.of].at \in Young
    BY <1>5, <2>1 DEF Heap, Young
  <2> QED
    BY <1>4, <2>2, SendOK DEF Keeps
<1>7. Good(reg_dec(u, result))
  BY <1>4, DecOK DEF Keeps
<1>8. \/ endStep(t, Item(t)) = reg_dec(u, result)
      \/ /\ endStep(t, Item(t)) = send(u, result.of)
         /\ result.kind = "object" /\ Location(t, result) = Heap
  BY DEF endStep, u
<1> QED
  BY <1>6, <1>7, <1>8

-------------------------------------------------------------------------------
(* Frames are left *)

LEMMA Associative ==
  ASSUME NEW a, NEW b, NEW c, IsSequence(a), IsSequence(b), IsSequence(c)
  PROVE  (a \o b) \o c = a \o (b \o c)
<1>1. PICK S1, S2, S3 : a \in Seq(S1) /\ b \in Seq(S2) /\ c \in Seq(S3)
  BY DEF IsSequence
<1> DEFINE S == S1 \cup S2 \cup S3
<1>2. a \in Seq(S) /\ b \in Seq(S) /\ c \in Seq(S)
  BY <1>1
<1> HIDE DEF S
<1> QED
  BY <1>2, ConcatAssociative

Cat(a, b) == a \o b

LEMMA CatAssociative ==
  ASSUME NEW a, NEW b, NEW c, IsSequence(a), IsSequence(b), IsSequence(c)
  PROVE  Cat(Cat(a, b), c) = Cat(a, Cat(b, c))
<1>1. (a \o b) \o c = a \o (b \o c)
  BY Associative
<1> QED
  BY <1>1 DEF Cat

LEMMA TeardownThen ==
  ASSUME NEW t, Shape(t), IsSequence(t.host), NEW b, IsSequence(b), NEW tail, Good(Push(t, b)),
         \A y \in Calls(Push(t, b).host) : y.op \in {"visit", "restore"} => y.frame < Depth(t)
  PROVE  Keeps(t, Push(t, teardownItems(t, tail) \o b))
<1> DEFINE u == Push(t, b)
           a == teardownItems(t, tail)
           v == Push(t, a \o b)
           w == Push(u, a)
<1>1. /\ Shape(u) /\ Alike(t, u) /\ u.host = b \o t.host
      /\ Depth(u) = Depth(t) /\ Top(u) = Top(t)
  BY PushFields
<1>2. teardownItems(u, tail) = a
  BY <1>1 DEF teardownItems, local
<1>3. Shape(v) /\ Alike(t, v) /\ v.host = (a \o b) \o t.host
  BY PushFields
<1>4. IsSequence(a)
  <2> DEFINE n == Depth(t)
             c == Clear(n, local(t, 0), local(t, Registers[Top(t).func] - 1))
             x == [op |-> "visit", frame |-> n, seen |-> {}]
             k == [op |-> "collect", frame |-> n]
             r == [op |-> "restore", frame |-> n]
  <2>1. a = Group(c, x, k, r, tail)
    BY DEF teardownItems, Group
  <2> HIDE DEF a, c, x, k, r
  <2>2. IsSequence(Group(c, x, k, r, tail))
    BY TeardownSequence
  <2> QED
    BY <2>1, <2>2
<1> HIDE DEF u, a, v
<1>5. Keeps(u, w)
  BY <1>1, <1>2, TeardownOK DEF u
<1>6. Shape(w) /\ Alike(u, w) /\ w.host = a \o (b \o t.host)
  BY <1>1, PushFields
<1>7. (a \o b) \o t.host = a \o (b \o t.host)
  <2>1. Cat(Cat(a, b), t.host) = Cat(a, Cat(b, t.host))
    BY <1>4, CatAssociative
  <2> QED
    BY <2>1 DEF Cat
<1> HIDE DEF w
<1>8. Alike(w, v) /\ v.host = w.host
  BY <1>1, <1>3, <1>6, <1>7 DEF Alike
<1>9. Keeps(w, v)
  BY <1>3, <1>5, <1>8, KeepsAlike DEF Keeps
<1> QED
  BY <1>1, <1>5, <1>9 DEF Keeps, Alike, v, a

\* The frame goes when it has been torn down.
LEMMA PopItemOK ==
  ASSUME NEW t, NEW d, d = Depth(t), d >= 1, Fits(t, d - 1),
         t.host # <<>>, t.host[1].op \in {"result", "raise", "unwind"}
  PROVE  LET u == Push(t, <<[op |-> "pop", frame |-> d]>>)
         IN  /\ Keeps(t, u)
             /\ \A y \in Calls(u.host) : y.op \in {"visit", "restore"} => y.frame < d
<1> DEFINE x == [op |-> "pop", frame |-> d]
           u == Push(t, <<x>>)
<1>1. d \in Nat /\ d - 1 \in Int /\ Shape(t) /\ Fit(t.host, d - 1) /\ IsSequence(t.host)
  <2>1. Depth(t) \in Nat
    BY FitsDepth
  <2> QED
    BY <2>1 DEF Fits, Body, Fit
<1>2. /\ IsCall(x) /\ x.op \notin MarkOps /\ Level(x, d) /\ After(x) = d - 1 /\ ~High(x)
      /\ After(x) <= d /\ \A s : s # <<>> /\ s[1].op \in {"result", "raise", "unwind"}
         => Under(x, s)
      /\ x.op \notin {"visit", "restore"}
  BY <1>1 DEF IsCall, Level, After, High, Above, Under, Needy, Ops, FloorOps, RunOps,
     TeardownOps, MarkOps
<1> HIDE DEF x
<1>3. Fits(u, d)
  BY <1>1, <1>2, PushOK
<1>4. Alike(t, u) /\ u.host = Over(x, t.host)
  BY <1>1, PushFields DEF Over
<1>5. Calls(u.host) = {x} \cup Calls(t.host)
  BY <1>1, <1>4, PushSequence
<1>6. ASSUME NEW y \in Calls(u.host), y.op \in {"visit", "restore"} PROVE y.frame < d
  <2>1. y \in Calls(t.host)
    BY <1>2, <1>5, <1>6
  <2>2. Height(y) \in Int /\ Height(y) <= d - 1 /\ Height(y) = y.frame
    BY <1>1, <1>6, <2>1, FitLower DEF High, Height, RunOps, TeardownOps
  <2> QED
    BY <1>1, <2>2
<1>7. Keeps(t, u)
  BY <1>3, <1>4 DEF Keeps, Good, Alike, Depth
<1> QED
  BY <1>6, <1>7 DEF x

\* One frame less, for an error or a raise on its way.
LEMMA NextFrameOK ==
  ASSUME NEW t, Good(t), t.host # <<>>, Item(t).op \in {"raise", "unwind"},
         Level(Item(t), Depth(t) - 1), Depth(t) >= 1
  PROVE  Good(drop_args(Push(t, teardownItems(t, FALSE) \o <<[op |-> "pop", frame |-> Depth(t)]>>)))
<1> DEFINE d == Depth(t)
           x == [op |-> "pop", frame |-> d]
           b == <<x>>
           u == Push(t, b)
<1>1. Item(t) = t.host[1] /\ d \in Nat /\ Shape(t) /\ IsSequence(t.host)
  BY TopFacts DEF Good, Fits, Fit
<1>2. Fits(t, d - 1)
  BY <1>1, MoveOK DEF Good
<1>3. /\ Keeps(t, u)
      /\ \A y \in Calls(u.host) : y.op \in {"visit", "restore"} => y.frame < d
  BY <1>1, <1>2, PopItemOK
<1>4. IsSequence(b)
  <2>1. b \in Seq({x})
    OBVIOUS
  <2> QED
    BY <2>1 DEF IsSequence
<1> HIDE DEF b
<1>5. Keeps(t, Push(t, teardownItems(t, FALSE) \o b))
  BY <1>1, <1>3, <1>4, TeardownThen DEF Keeps
<1> QED
  BY <1>5, DropArgsOK DEF Keeps, b

LEMMA PopframeOK ==
  ASSUME NEW t, NEW d, d = Depth(t), Fits(t, d - 1), Above1(t, "run"), NEW ret, NEW typed
  PROVE  Good(popframe(t, ret, typed))
<1> DEFINE x == [op |-> "leave", frame |-> d, ret |-> ret, typed |-> typed]
           u == Push(t, <<x>>)
<1>1. d \in Nat /\ d - 1 \in Int /\ Shape(t)
  BY FitsDepth DEF Fits, Body
<1>2. /\ IsCall(x) /\ x.op \notin MarkOps /\ Level(x, d) /\ After(x) = d - 1 /\ ~High(x)
      /\ After(x) <= d /\ \A s : s # <<>> /\ s[1].op = "run" => Under(x, s)
  BY <1>1 DEF IsCall, Level, After, High, Above, Under, Needy, Ops, FloorOps, RunOps,
     TeardownOps, MarkOps
<1>3. popframe(t, ret, typed) = drop_args(u)
  BY DEF popframe
<1> HIDE DEF x
<1>4. Fits(u, d)
  BY <1>1, <1>2, PushOK DEF Above1
<1>5. Good(u)
  BY <1>1, <1>4, PushFields DEF Good
<1> HIDE DEF u
<1> QED
  BY <1>3, <1>5, DropArgsOK DEF Keeps

LEMMA RaiseStepOK ==
  ASSUME NEW t, Good(t), t.host # <<>>, Item(t).op = "raise"
  PROVE  Good(raiseStep(t, Item(t)))
<1> DEFINE x == Item(t)
           d == Depth(t)
           u == Pop(t)
<1>1. /\ x = t.host[1] /\ d \in Nat /\ Shape(t) /\ IsCall(x) /\ Level(x, d) /\ x.target \in Int
      /\ x.target <= d /\ After(x) = x.target - 1
  BY TopFacts DEF IsCall, Level, After, FloorOps, RunOps
<1>2. /\ Fits(u, After(x)) /\ Under(x, u.host)
      /\ u.host # <<>> => Level(u.host[1], After(x)) /\ IsCall(u.host[1])
  BY <1>1, PopOK DEF Good, MarkOps
<1>3. Above1(u, "run")
  BY <1>2 DEF Under, Needy, Above, Above1
<1>4. u.host[1].depth \in Nat /\ u.host[1].depth <= x.target - 1
  BY <1>1, <1>2, <1>3 DEF Above1, Level, IsCall, FloorOps, RunOps
<1>5. Alike(t, u) /\ Depth(u) = d
  BY <1>1, PopFields
<1> HIDE DEF u, x
<1>6. CASE d = x.target
  <2>1. Good(popframe(u, x.ret, x.typed))
    BY <1>1, <1>2, <1>3, <1>5, <1>6, PopframeOK
  <2> QED
    BY <1>6, <2>1 DEF raiseStep, u, x
<1>7. CASE d # x.target
  <2>1. Level(x, d - 1) /\ d >= 1
    BY <1>1, <1>4, <1>7 DEF Level, x
  <2>2. Good(drop_args(Push(t, teardownItems(t, FALSE) \o <<[op |-> "pop", frame |-> Depth(t)]>>)))
    BY <2>1, NextFrameOK DEF x
  <2> QED
    BY <1>7, <2>2 DEF raiseStep, u, x
<1> QED
  BY <1>6, <1>7

LEMMA UnwindOK ==
  ASSUME NEW t, Good(t), t.host # <<>>, Item(t).op = "unwind"
  PROVE  Good(unwindStep(t, Item(t)))
<1> DEFINE x == Item(t)
           d == Depth(t)
<1>1. /\ x = t.host[1] /\ d \in Nat /\ IsCall(x) /\ x.depth \in Nat /\ x.depth <= d
      /\ After(x) = x.depth /\ x.op \notin MarkOps
  BY TopFacts DEF IsCall, Level, After, FloorOps, RunOps, MarkOps
<1>2. CASE d <= x.depth
  <2>1. Good(Pop(t))
    BY <1>1, <1>2, PopHere DEF Keeps
  <2> QED
    BY <1>2, <2>1 DEF unwindStep
<1>3. CASE ~(d <= x.depth)
  <2>1. Level(x, d - 1) /\ d >= 1
    BY <1>1, <1>3 DEF Level
  <2>2. Good(drop_args(Push(t, teardownItems(t, FALSE) \o <<[op |-> "pop", frame |-> Depth(t)]>>)))
    BY <2>1, NextFrameOK
  <2> QED
    BY <1>3, <2>2 DEF unwindStep
<1> QED
  BY <1>2, <1>3

LEMMA LeaveOK ==
  ASSUME NEW t, Good(t), t.host # <<>>, Item(t).op = "leave"
  PROVE  Good(leaveStep(t, Item(t)))
<1> DEFINE x   == Item(t)
           d   == Depth(t)
           u   == Pop(t)
           ret == x.ret
           loc == Location(u, ret)
           new == IF d > 1 THEN InFrame(d - 1) ELSE Heap
           out == IF loc = InFrame(d) /\ ret.kind = "object" THEN drag(u, ret.of, new) ELSE u
           p   == [op |-> "pop", frame |-> d]
           r   == [op |-> "result", frame |-> d - 1, slot |-> Top(u).dst, ret |-> ret]
           end == Push(out, teardownItems(u, FALSE) \o <<p, r>>)
<1>1. x = t.host[1] /\ d \in Nat /\ Shape(t) /\ After(x) = d - 1 /\ x.op \notin MarkOps
  BY TopFacts DEF After, Level, FloorOps, RunOps, MarkOps
<1>2. /\ Fits(u, d - 1) /\ Under(x, u.host)
      /\ u.host # <<>> => Level(u.host[1], d - 1) /\ IsCall(u.host[1])
  BY <1>1, PopOK DEF Good
<1>3. Above1(u, "run")
  BY <1>2 DEF Under, Needy, Above, Above1
<1>4. Shape(u) /\ Depth(u) = d
  BY <1>1, PopFields
<1>5. d >= 1 /\ Level(u.host[1], d)
  BY <1>1, <1>2, <1>3 DEF Above1, Level, IsCall, FloorOps, RunOps
<1>6. Fits(out, d - 1) /\ out.frames = u.frames /\ out.host = u.host /\ Shape(out)
  <2>1. CASE loc = InFrame(d) /\ ret.kind = "object"
    <3>1. u.where[ret.of].at = "frame"
      BY <2>1 DEF Location, IsObject, InFrame
    <3>2. new.at \in Young
      BY DEF InFrame, Heap, Young
    <3>3. out = drag(u, ret.of, new)
      BY <2>1
    <3> HIDE DEF new, out, u, ret
    <3> QED
      BY <1>2, <3>1, <3>2, <3>3, DragOK
  <2>2. CASE ~(loc = InFrame(d) /\ ret.kind = "object")
    <3>1. out = u
      BY <2>2
    <3> HIDE DEF out
    <3> QED
      BY <1>2, <1>4, <3>1
  <2> QED
    BY <2>1, <2>2
<1>7. leaveStep(t, x) \in {throw(u, ret), throw(out, ret), end}
  BY <1>4 DEF leaveStep
<1> HIDE DEF out, u, loc, new, p, r, end
<1>8. Depth(out) = d /\ Above1(out, "run")
  BY <1>3, <1>4, <1>6 DEF Depth, Above1
<1>9. Good(u) /\ Good(out)
  <2>1. Level(out.host[1], d) /\ d - 1 \in Int
    BY <1>1, <1>5, <1>6
  <2>2. Fits(u, d) /\ Fits(out, d)
    BY <1>1, <1>2, <1>3, <1>5, <1>6, <1>8, <2>1, MoveOK DEF Above1
  <2> QED
    BY <1>4, <1>8, <2>2 DEF Good
<1>10. Good(throw(u, ret)) /\ Good(throw(out, ret))
  BY <1>3, <1>8, <1>9, ThrowOK DEF Keeps
<1>11. Good(end)
  <2> DEFINE v == Push(out, <<r>>)
             w == Push(v, <<p>>)
             b == <<p, r>>
             y == Push(out, b)
  <2>1. /\ IsCall(r) /\ r.op = "result" /\ r.op \notin MarkOps /\ Level(r, d - 1)
           /\ After(r) = d - 1 /\ ~High(r)
        /\ After(r) <= d - 1 /\ \A s : s # <<>> /\ s[1].op = "run" => Under(r, s)
    BY <1>1 DEF r, IsCall, Level, After, High, Above, Under, Needy, Ops, FloorOps, RunOps,
       TeardownOps, MarkOps
  <2>2. Fits(v, d - 1)
    BY <1>1, <1>6, <1>8, <2>1, PushOK DEF Above1
  <2>3. Shape(v) /\ Alike(out, v) /\ v.host = Over(r, out.host) /\ Depth(v) = d
    BY <1>6, <1>8, PushFields DEF Over
  <2>4. IsSequence(out.host) /\ IsSequence(v.host)
    BY <1>6, <2>2 DEF Fits, Fit
  <2>5. v.host # <<>> /\ v.host[1].op = "result"
    BY <2>1, <2>3, <2>4, PushSequence
  <2> HIDE DEF v
  <2>6. Keeps(v, w) /\ \A z \in Calls(w.host) : z.op \in {"visit", "restore"} => z.frame < d
    BY <1>5, <2>2, <2>3, <2>5, PopItemOK DEF p
  <2>7. Shape(w) /\ Alike(v, w) /\ w.host = Over(p, v.host)
    BY <2>3, PushFields DEF Over
  <2>8. Shape(y) /\ Alike(out, y) /\ y.host = Over2(p, r, out.host)
    BY <1>6, PushFields DEF Over2
  <2>9. y.host = w.host
    BY <2>3, <2>4, <2>7, <2>8, Tuples
  <2> HIDE DEF w, y, b
  <2>10. Alike(w, y)
    BY <2>3, <2>7, <2>8 DEF Alike
  <2>11. Good(y)
    BY <2>6, <2>8, <2>9, <2>10, KeepsAlike DEF Keeps
  <2>12. IsSequence(b)
    <3>1. <<p, r>> \in Seq({p, r})
      OBVIOUS
    <3> QED
      BY <3>1 DEF b, IsSequence
  <2>13. Keeps(out, Push(out, teardownItems(out, FALSE) \o b))
    BY <1>6, <1>8, <2>4, <2>6, <2>9, <2>11, <2>12, TeardownThen DEF y
  <2>14. teardownItems(out, FALSE) = teardownItems(u, FALSE)
    BY <1>6 DEF teardownItems, local, Top, Depth
  <2> QED
    BY <2>13, <2>14 DEF Keeps, end, b
<1> QED
  BY <1>7, <1>10, <1>11

LEMMA ForgetOK ==
  ASSUME NEW t, NEW e, Fits(t, e)
  PROVE  /\ Fits(forget(t), e) /\ Shape(forget(t))
         /\ forget(t).frames = t.frames /\ forget(t).host = t.host
<1> DEFINE u == forget(t)
           p == Popped(Depth(t))
<1>1. /\ Shape(u) /\ u.frames = t.frames /\ u.finalized = t.finalized /\ u.queue = t.queue
      /\ u.in_collection = t.in_collection /\ u.host = t.host
      /\ u.where = [o \in Objects |-> IF t.where[o] = p THEN Freed ELSE t.where[o]]
  BY DEF forget, Fits, Body, Shape, Fields
<1>2. p.at = "popped" /\ Freed.at = "freed"
  BY DEF Popped, Freed
<1> HIDE DEF u, p
<1>3. Body(u)
  BY <1>1 DEF Fits, Body
<1>4. ASSUME NEW o \in Finalized
      PROVE  Right(o, u.where[o], u.finalized[o], Calls(u.host), u.queue)
  <2>1. Right(o, t.where[o], t.finalized[o], Calls(t.host), t.queue) /\ o \in Objects
    BY CallFramesAssumption DEF Fits, Once
  <2>2. CASE t.where[o] = p
    <3>1. u.where[o] = Freed /\ t.finalized[o] = 1
      BY <1>1, <1>2, <2>1, <2>2 DEF Right
    <3>2. Freed # Dying /\ t.where[o] # Dying /\ \A f : Freed # OnStack(f)
          /\ t.where[o] # OnStack(f)
      BY <1>2, <2>2 DEF Freed, Dying, OnStack
    <3>3. Right(o, Freed, 1, Calls(t.host), t.queue)
      BY <1>2, <2>1, <3>1, <3>2 DEF Right
    <3> QED
      BY <1>1, <3>1, <3>3
  <2>3. CASE t.where[o] # p
    <3>1. u.where[o] = t.where[o]
      BY <1>1, <2>1, <2>3
    <3> QED
      BY <1>1, <2>1, <3>1
  <2> QED
    BY <2>2, <2>3
<1> QED
  BY <1>1, <1>3, <1>4 DEF Fits, Once, u

LEMMA FramesOK ==
  ASSUME NEW t, NEW e, Fits(t, e), NEW u, Shape(u), u.where = t.where, u.finalized = t.finalized,
         u.queue = t.queue, u.in_collection = t.in_collection, u.host = t.host,
         IsSequence(u.frames)
  PROVE  Fits(u, e)
BY DEF Fits, Body, Once

LEMMA PopStepOK ==
  ASSUME NEW t, Good(t), t.host # <<>>, Item(t).op = "pop"
  PROVE  Good(popStep(t))
<1> DEFINE d == Depth(t)
           v == forget(Pop(t))
           u == popStep(t)
<1>1. /\ Item(t) = t.host[1] /\ d \in Nat /\ d >= 1 /\ After(t.host[1]) = d - 1
      /\ t.host[1].op \notin MarkOps /\ Shape(t)
  BY TopFacts DEF After, Level, IsCall, FloorOps, RunOps, MarkOps
<1>2. Fits(Pop(t), d - 1) /\ Pop(t).frames = t.frames
  BY <1>1, PopOK, PopFields DEF Good, Alike
<1>3. Fits(v, d - 1) /\ v.frames = t.frames /\ Shape(v)
  BY <1>2, ForgetOK
<1>4. /\ Shape(u) /\ u.frames = Front(v.frames) /\ u.where = v.where /\ u.finalized = v.finalized
      /\ u.queue = v.queue /\ u.in_collection = v.in_collection /\ u.host = v.host
  BY <1>3 DEF popStep, Shape, Fields
<1>5. IsSequence(u.frames) /\ Len(u.frames) = d - 1
  <2>1. PICK S : t.frames \in Seq(S)
    BY DEF Good, Fits, Body, IsSequence
  <2>2. Front(t.frames) \in Seq(S) /\ Len(Front(t.frames)) = d - 1
    BY <1>1, <2>1 DEF Front, Depth
  <2> QED
    BY <1>3, <1>4, <2>2 DEF IsSequence
<1> HIDE DEF u, v
<1>6. Fits(u, d - 1)
  BY <1>3, <1>4, <1>5, FramesOK
<1> QED
  BY <1>5, <1>6 DEF Good, Depth, u

LEMMA TailcallStepOK ==
  ASSUME NEW t, Good(t), t.host # <<>>, Item(t).op = "tailcall"
  PROVE  Good(tailcallStep(t, Item(t)))
<1> DEFINE item == Item(t)
           u == Pop(t)
           n == Params[item.func]
           moved == [u EXCEPT !.args = 0,
                       !.locals = [i \in DOMAIN @ |->
                         IF i \in local(u, 0) .. local(u, n - 1) THEN @[arg(u, i - Top(u).base)]
                         ELSE IF i \in arg(u, 0) .. arg(u, n - 1) THEN None ELSE @[i]]]
           v == forget(moved)
           w == [v EXCEPT !.frames[Depth(u)].func = item.func]
<1>1. Good(u) /\ Above1(u, "run") /\ Shape(u)
  BY AboveRun DEF Keeps, Good, Fits, Body
<1>2. Shape(moved) /\ Alike(u, moved) /\ moved.host = u.host
  BY <1>1 DEF Shape, Fields, Alike
<1>3. tailcallStep(t, item) \in {badArgs(u), throw(moved, None), w}
  BY DEF tailcallStep
<1> HIDE DEF u, moved
<1>4. Keeps(u, moved)
  BY <1>1, <1>2, KeepsAlike
<1>5. Good(badArgs(u)) /\ Good(throw(moved, None))
  BY <1>1, <1>2, <1>4, BadArgsOK, ThrowOK DEF Keeps, Above1
<1>6. Fits(v, Depth(u)) /\ v.frames = u.frames /\ Shape(v)
  BY <1>4, ForgetOK DEF Keeps, Good, Depth
<1>7. /\ Shape(w) /\ w.frames = [v.frames EXCEPT ![Depth(u)].func = item.func]
      /\ w.where = v.where /\ w.finalized = v.finalized
      /\ w.queue = v.queue /\ w.in_collection = v.in_collection /\ w.host = v.host
  BY <1>6 DEF Shape, Fields
<1> HIDE DEF v, w
<1>8. IsSequence(w.frames) /\ Len(w.frames) = Depth(u)
  <2> DEFINE f == [v.frames[Depth(u)] EXCEPT !.func = item.func]
  <2>1. PICK S : v.frames \in Seq(S)
    BY <1>6 DEF Fits, Body, IsSequence
  <2>2. v.frames \in Seq(S \cup {f}) /\ f \in S \cup {f}
    BY <2>1
  <2>3. w.frames = [v.frames EXCEPT ![Depth(u)] = f]
    BY <1>7
  <2> HIDE DEF f
  <2> DEFINE m == Len(v.frames)
             g == [i \in 1 .. m |-> IF i = Depth(u) THEN f ELSE v.frames[i]]
  <2>4. w.frames \in Seq(S \cup {f}) /\ Len(w.frames) = Len(v.frames)
    <3>1. m \in Nat /\ DOMAIN v.frames = 1 .. m /\ \A i \in 1 .. m : v.frames[i] \in S \cup {f}
      BY <2>2
    <3>2. w.frames = g
      BY <2>3, <3>1
    <3>3. g \in [1 .. m -> S \cup {f}]
      BY <2>2, <3>1
    <3> HIDE DEF g, m
    <3>4. g \in Seq(S \cup {f}) /\ Len(g) = m
      BY <3>1, <3>3
    <3> QED
      BY <3>2, <3>4 DEF m
  <2> QED
    BY <1>6, <2>4 DEF IsSequence, Depth
<1>9. Fits(w, Depth(u))
  BY <1>6, <1>7, <1>8, FramesOK
<1>10. Good(w)
  BY <1>8, <1>9 DEF Good, Depth
<1> QED
  BY <1>3, <1>5, <1>10

-------------------------------------------------------------------------------
(* Objects of the stack, and the queue of the collector *)

\* What the top call and those below it tell.
LEMMA TopCalls ==
  ASSUME NEW t, Good(t), t.host # <<>>
  PROVE  /\ IsSequence(Tail(t.host)) /\ Item(t) \in Calls(t.host)
         /\ Calls(t.host) = {Item(t)} \cup Calls(Tail(t.host))
         /\ Under(Item(t), Tail(t.host)) /\ Fit(Tail(t.host), After(Item(t)))
         /\ \A y \in Calls(Tail(t.host)) :
              /\ Item(t).op \in {"visit", "restore"} /\ y.op = "visit" => y.frame < Item(t).frame
              /\ Item(t).op = "drain" => y.op # "drain"
<1>1. Item(t) = t.host[1] /\ Depth(t) \in Nat /\ Fit(t.host, Depth(t)) /\ IsSequence(t.host)
  BY TopFacts DEF Good, Fits, Fit
<1>2. Calls(t.host) = {Item(t)} \cup Calls(Tail(t.host)) /\ IsSequence(Tail(t.host))
  BY <1>1, PopSequence
<1>3. Under(Item(t), Tail(t.host)) /\ Fit(Tail(t.host), After(Item(t)))
  BY <1>1, FitUnder, FitPop
<1>4. ASSUME NEW y \in Calls(Tail(t.host))
      PROVE  /\ Item(t).op \in {"visit", "restore"} /\ y.op = "visit" => y.frame < Item(t).frame
             /\ Item(t).op = "drain" => y.op # "drain"
  BY <1>1, FitAlone
<1> QED
  BY <1>2, <1>3, <1>4

LEMMA RestoreOK ==
  ASSUME NEW t, Good(t), t.host # <<>>, Item(t).op = "restore"
  PROVE  Good(restoreStep(t, Item(t)))
<1> DEFINE x == Item(t)
           g == Tail(t.host)
           f == x.frame
           u == restoreStep(t, x)
<1>1. /\ Shape(t) /\ Depth(t) \in Nat /\ f = Depth(t) /\ After(x) = f
  BY TopFacts DEF Level, After, FloorOps, RunOps
<1>2. /\ Shape(u) /\ u.frames = t.frames /\ u.finalized = t.finalized /\ u.queue = t.queue
      /\ u.in_collection = t.in_collection /\ u.host = g
      /\ u.where = [o \in Objects |-> IF t.where[o] = OnStack(f) THEN Popped(f) ELSE t.where[o]]
  BY <1>1 DEF restoreStep, Pop, Shape, Fields
<1>3. /\ Calls(t.host) = {x} \cup Calls(g) /\ Fit(g, f)
      /\ \A y \in Calls(g) : y.op = "visit" => y.frame < f
  BY <1>1, TopCalls
<1> HIDE DEF u, x, g, f
<1>4. Body(u)
  BY <1>2 DEF Good, Fits, Body
<1>5. ASSUME NEW o \in Finalized
      PROVE  Right(o, u.where[o], u.finalized[o], Calls(u.host), u.queue)
  <2> DEFINE w == t.where[o]
             n == t.finalized[o]
             C == Calls(t.host)
             D == Calls(g)
  <2>1. Right(o, w, n, C, t.queue) /\ o \in Objects
    BY CallFramesAssumption DEF Good, Fits, Once
  <2>2. C = {x} \cup D /\ x.op = "restore" /\ x.frame = f
    BY <1>3 DEF x, f
  <2> HIDE DEF w, n, C, D
  <2>3. CASE w = OnStack(f)
    <3>1. \A z \in D : z.op = "visit" => z.frame < f
      BY <1>3 DEF D
    <3>2. \A z \in C : z.op = "visit" => z.frame # f
      BY <1>1, <2>2, <3>1
    <3>3. n = 1
      BY <2>1, <2>2, <2>3, <3>2 DEF Right
    <3>4. w # Dying
      BY <2>3 DEF OnStack, Dying
    <3> DEFINE p == Popped(f)
    <3>5. p.at = "popped" /\ p # Dying /\ \A e : p # OnStack(e)
      BY DEF Popped, Dying, OnStack
    <3> HIDE DEF p
    <3>6. Right(o, p, 1, D, t.queue)
      BY <2>1, <2>2, <3>3, <3>4, <3>5 DEF Right
    <3>7. u.where[o] = p
      BY <1>2, <2>1, <2>3 DEF w, p
    <3> QED
      BY <1>2, <3>3, <3>6, <3>7 DEF n, D
  <2>4. CASE w # OnStack(f)
    <3>1. About(w, D) = About(w, C)
      BY <2>2, <2>4 DEF About
    <3>2. Right(o, w, n, D, t.queue)
      BY <2>1, <2>2, <3>1 DEF Right
    <3>3. u.where[o] = w
      BY <1>2, <2>1, <2>4 DEF w
    <3> QED
      BY <1>2, <3>2, <3>3 DEF n, D
  <2> QED
    BY <2>3, <2>4
<1>6. u.in_collection <=> \E y \in Calls(u.host) : y.op = "drain"
  <2>1. x.op = "restore" /\ (t.in_collection <=> \E y \in Calls(t.host) : y.op = "drain")
    BY DEF Good, Fits, Once, x
  <2> QED
    BY <1>2, <1>3, <2>1
<1>7. Fits(u, f)
  BY <1>2, <1>3, <1>4, <1>5, <1>6 DEF Fits, Once
<1> QED
  BY <1>1, <1>2, <1>7 DEF Good, Depth, u, x

\* The top call goes on with less to do.
LEMMA FitSwap ==
  ASSUME NEW t, Good(t), t.host # <<>>, Item(t).op \in {"visit", "drain"}, NEW y, IsCall(y),
         y.op = Item(t).op, y.frame = Item(t).frame
  PROVE  /\ Fit(Over(y, Tail(t.host)), Depth(t))
         /\ Calls(Over(y, Tail(t.host))) = {y} \cup Calls(Tail(t.host))
         /\ Over(y, Tail(t.host)) # <<>> /\ Over(y, Tail(t.host))[1] = y
<1> DEFINE x == Item(t)
           g == Tail(t.host)
           d == Depth(t)
<1>1. /\ IsCall(x) /\ Level(x, d) /\ d \in Nat /\ After(x) = d /\ x.frame = d
  BY TopFacts DEF Level, After, FloorOps, RunOps
<1>2. /\ IsSequence(g) /\ Under(x, g) /\ Fit(g, d)
      /\ \A z \in Calls(g) : /\ x.op = "visit" /\ z.op = "visit" => z.frame < x.frame
                             /\ x.op = "drain" => z.op # "drain"
  BY <1>1, TopCalls
<1> HIDE DEF x, g, d
<1>3. y.op = x.op /\ y.frame = x.frame /\ x.op \in {"visit", "drain"}
  BY DEF x
<1>4. /\ Level(y, d) /\ After(y) = d /\ (High(y) => Height(y) = d) /\ After(y) <= d /\ d \in Int
  BY <1>1, <1>3 DEF Level, After, High, Height, FloorOps, RunOps
<1>5. Under(y, g)
  BY <1>2, <1>3 DEF Under, Above, Needy
<1>6. /\ y.op \in {"visit", "restore"} => \A z \in Calls(g) : z.op = "visit" => z.frame < y.frame
      /\ y.op = "drain" => \A z \in Calls(g) : z.op # "drain"
  BY <1>2, <1>3
<1>7. High(y) => Height(y) <= d
  BY <1>4
<1>8. Fit(Over(y, g), d)
  BY <1>2, <1>4, <1>5, <1>6, <1>7, FitPush
<1>9. /\ Calls(Over(y, g)) = {y} \cup Calls(g) /\ Over(y, g) # <<>> /\ Over(y, g)[1] = y
  BY <1>2, PushSequence
<1> QED
  BY <1>8, <1>9 DEF d, g

\* The finalizer of o is asked for; r is the thread with o counted as finalized.
LEMMA FinalizerOK ==
  ASSUME NEW r, Good(r), r.host # <<>>, r.host[1].op \in {"visit", "drain"}, NEW o,
         NEW v, Shape(v), v.frames = r.frames, v.where = r.where, v.queue = r.queue,
         v.in_collection = r.in_collection, v.host = r.host,
         r.finalized = [v.finalized EXCEPT ![o] = @ + 1]
  PROVE  Good(run_finalizer(v, o))
<1> DEFINE x == [op |-> "start", frame |-> Depth(v), func |-> "fin", why |-> "cleanup"]
           s == Push(r, <<x>>)
           m == Must(v, v.args = 0, "args_pending")
           a == Push(m, <<x>>)
           z == [a EXCEPT !.args = @ + 1, !.finalized[o] = @ + 1]
<1>1. Shape(r) /\ Depth(r) \in Nat /\ Depth(v) = Depth(r)
  BY FitsDepth DEF Good, Fits, Body, Depth
<1>2. Shape(m) /\ Alike(v, m) /\ m.host = v.host
  BY DEF Must, Shape, Fields, Alike
<1>3. /\ IsCall(x) /\ x.op \notin MarkOps /\ Level(x, Depth(r)) /\ After(x) = Depth(r) /\ ~High(x)
      /\ \A h : h # <<>> /\ h[1].op \in {"visit", "drain"} => Under(x, h)
  BY <1>1 DEF IsCall, Level, After, High, Above, Under, Needy, Ops, FloorOps, RunOps,
     TeardownOps, MarkOps
<1>4. run_finalizer(v, o) = Assign(z, arg(v, v.args), Self(o))
  <2>1. Depth(m) = Depth(v)
    BY <1>2 DEF Alike, Depth
  <2> QED
    BY <2>1 DEF run_finalizer
<1> HIDE DEF x, m
<1>5. Good(s)
  BY <1>3, CallHere DEF Keeps
<1>6. Shape(s) /\ Alike(r, s) /\ s.host = <<x>> \o r.host
  BY <1>1, PushFields
<1>7. Shape(a) /\ Alike(m, a) /\ a.host = <<x>> \o m.host
  BY <1>2, PushFields
<1> HIDE DEF a, s
<1>8. /\ Shape(z) /\ z.frames = a.frames /\ z.where = a.where /\ z.queue = a.queue
      /\ z.in_collection = a.in_collection /\ z.host = a.host
      /\ z.finalized = [a.finalized EXCEPT ![o] = @ + 1]
  BY <1>7 DEF Shape, Fields
<1> HIDE DEF z
<1>9. Alike(s, z) /\ z.host = s.host
  BY <1>2, <1>6, <1>7, <1>8 DEF Alike
<1>10. Good(z)
  BY <1>5, <1>8, <1>9, KeepsAlike DEF Keeps
<1> QED
  BY <1>4, <1>10, AssignOK DEF Keeps

LEMMA FirstCall ==
  ASSUME NEW h, IsSequence(h), h # <<>>
  PROVE  h[1] \in Calls(h)
BY PopSequence

LEMMA RestoreBelow ==
  ASSUME NEW t, Good(t), t.host # <<>>, Item(t).op = "visit"
  PROVE  \E z \in Calls(Tail(t.host)) : z.op = "restore" /\ z.frame = Item(t).frame
<1> DEFINE g == Tail(t.host)
           f == Item(t).frame
<1>1. Depth(t) \in Nat /\ After(Item(t)) = Depth(t)
  BY TopFacts DEF Level, After, FloorOps, RunOps
<1>2. Under(Item(t), g) /\ Fit(g, Depth(t)) /\ IsSequence(g)
  BY <1>1, TopCalls
<1> HIDE DEF g, f
<1>3. g # <<>> /\ g[1].op \in {"collect", "restore"} /\ g[1].frame = f
  BY <1>2 DEF Under, Above, Needy, f
<1>4. g[1] \in Calls(g)
  BY <1>2, <1>3, FirstCall
<1>5. CASE g[1].op = "restore"
  BY <1>3, <1>4, <1>5 DEF g, f
<1>6. CASE g[1].op = "collect"
  <2> DEFINE k == Tail(g)
  <2>1. IsSequence(k) /\ Calls(g) = {g[1]} \cup Calls(k)
    BY <1>2, <1>3, PopSequence
  <2>2. Under(g[1], k)
    BY <1>1, <1>2, <1>3, FitUnder
  <2> HIDE DEF k
  <2>3. k # <<>> /\ k[1].op = "restore" /\ k[1].frame = f
    BY <1>3, <1>6, <2>2 DEF Under, Above, Needy
  <2>4. k[1] \in Calls(g)
    BY <2>1, <2>3, FirstCall
  <2> QED
    BY <2>3, <2>4 DEF g, f
<1> QED
  BY <1>3, <1>5, <1>6

LEMMA VisitOK ==
  ASSUME NEW t, Good(t), t.host # <<>>, Item(t).op = "visit"
  PROVE  Good(visitStep(t, Item(t)))
<1> DEFINE x == Item(t)
           g == Tail(t.host)
           f == x.frame
           d == Depth(t)
           C == Calls(t.host)
           D == Calls(g)
           left == {o \in Objects : t.where[o] = OnStack(f)} \ x.seen
           o == CHOOSE e \in left : TRUE
           y == [x EXCEPT !.seen = @ \cup {o}]
           u == Pop(t)
           v == Push(u, <<y>>)
           r == IF o \in Finalized THEN [v EXCEPT !.finalized[o] = @ + 1] ELSE v
<1>1. /\ Shape(t) /\ d \in Nat /\ f = d /\ After(x) = f /\ IsCall(x)
      /\ {"op", "frame", "seen"} \subseteq DOMAIN x
  BY TopFacts DEF Level, After, FloorOps, RunOps, IsCall
<1>2. /\ IsSequence(g) /\ C = {x} \cup D /\ Fit(g, f) /\ Under(x, g)
      /\ \A z \in D : z.op = "visit" => z.frame < f
  BY <1>1, TopCalls
<1>3. Shape(u) /\ Alike(t, u) /\ u.host = g /\ Depth(u) = d
  BY <1>1, PopFields
<1>4. visitStep(t, x) = IF left = {} THEN u ELSE finalize(v, o)
  BY DEF visitStep
<1>5. y.op = "visit" /\ y.frame = f /\ y.seen = x.seen \cup {o} /\ IsCall(y)
  <2>1. y.op = x.op /\ y.frame = x.frame /\ y.seen = x.seen \cup {o} /\ DOMAIN y = DOMAIN x
    BY <1>1
  <2> HIDE DEF y, x, o
  <2>2. x.op = "visit"
    BY DEF x
  <2> QED
    BY <1>1, <2>1, <2>2 DEF IsCall, Ops, FloorOps, RunOps
<1>6. \E z \in D : z.op = "restore" /\ z.frame = f
  BY RestoreBelow
<1>7. x.op = "visit"
  OBVIOUS
<1>8. \A e \in Finalized : Right(e, t.where[e], t.finalized[e], C, t.queue) /\ e \in Objects
  BY CallFramesAssumption DEF Good, Fits, Once
<1>9. t.in_collection <=> \E z \in C : z.op = "drain"
  BY DEF Good, Fits, Once
<1>10. left \subseteq Objects /\ \A e \in left : t.where[e] = OnStack(f) /\ e \notin x.seen
  OBVIOUS
<1>11. \A e \in Objects : t.where[e] = OnStack(f) => e \in x.seen \/ e \in left
  OBVIOUS
<1>12. left # {} => o \in left
  OBVIOUS
<1>13. /\ Fit(Over(y, g), d) /\ Calls(Over(y, g)) = {y} \cup D
       /\ Over(y, g) # <<>> /\ Over(y, g)[1] = y
  <2>1. Item(t).op \in {"visit", "drain"} /\ y.op = Item(t).op /\ y.frame = Item(t).frame
    BY <1>5, <1>7
  <2> HIDE DEF y, o, left
  <2> QED
    BY <1>1, <1>5, <2>1, FitSwap
<1>14. Shape(v) /\ Alike(u, v) /\ v.host = Over(y, g)
  BY <1>3, PushFields DEF Over
<1> HIDE DEF x, g, f, d, C, D, left, o, y, u, v
<1>15. CASE left = {}
  <2>1. Body(u)
    BY <1>3 DEF Good, Fits, Body, Alike
  <2>2. ASSUME NEW e \in Finalized PROVE Right(e, u.where[e], u.finalized[e], D, u.queue)
    <3> DEFINE w == t.where[e]
               n == t.finalized[e]
    <3>1. Right(e, w, n, C, t.queue) /\ e \in Objects
      BY <1>8
    <3>2. w = OnStack(f) => e \in x.seen
      BY <1>11, <1>15, <3>1
    <3> HIDE DEF w, n
    <3>3. ASSUME w = OnStack(f) PROVE Right(e, w, n, D, t.queue)
      <4>1. n = 1
        BY <1>2, <1>7, <3>1, <3>2, <3>3 DEF Right, f
      <4>2. About(w, D) # {}
        BY <1>6, <3>3 DEF About
      <4>3. w.at = "stack" /\ w # Dying
        BY <3>3 DEF OnStack, Dying
      <4>4. \A z \in D : z.op = "visit" => w # OnStack(z.frame)
        BY <1>1, <1>2, <3>3, OnStackFrame
      <4> QED
        BY <1>2, <3>1, <4>1, <4>2, <4>3, <4>4 DEF Right
    <3>4. ASSUME w # OnStack(f) PROVE Right(e, w, n, D, t.queue)
      <4>1. About(w, D) = About(w, C)
        BY <1>2, <3>4 DEF About, f
      <4>2. \A z \in C : z.op = "visit" /\ z \notin D => z.frame = f
        BY <1>2 DEF f
      <4>3. \A z \in D : z.op = "restore" /\ w = OnStack(z.frame)
              => n = 1 \/ \E c \in D : c.op = "visit" /\ c.frame = z.frame
        BY <1>2, <3>1, <3>4, <4>2 DEF Right
      <4> QED
        BY <1>2, <3>1, <4>1, <4>3 DEF Right
    <3>5. Right(e, w, n, D, t.queue)
      BY <3>3, <3>4
    <3> QED
      BY <1>3, <3>5 DEF Alike, w, n
  <2>3. u.in_collection <=> \E z \in D : z.op = "drain"
    BY <1>2, <1>3, <1>7, <1>9 DEF Alike
  <2>4. Fits(u, d)
    BY <1>1, <1>2, <1>3, <2>1, <2>2, <2>3 DEF Fits, Once, D
  <2> QED
    BY <1>3, <1>4, <1>15, <2>4 DEF Good, x
<1>16. CASE left # {}
  <2>1. o \in Objects /\ t.where[o] = OnStack(f) /\ o \notin x.seen
    BY <1>10, <1>12, <1>16
  <2>2. /\ Shape(r) /\ r.frames = t.frames /\ r.where = t.where /\ r.queue = t.queue
        /\ r.in_collection = t.in_collection /\ r.host = Over(y, g)
        /\ DOMAIN r.finalized = DOMAIN t.finalized
        /\ o \in Finalized => r.finalized = [v.finalized EXCEPT ![o] = @ + 1]
        /\ \A e \in Finalized :
             r.finalized[e] = IF e = o THEN t.finalized[e] + 1 ELSE t.finalized[e]
    <3>1. v.finalized = t.finalized
      BY <1>3, <1>14 DEF Alike
    <3>2. CASE o \in Finalized
      <4>1. /\ Shape(r) /\ r.frames = v.frames /\ r.where = v.where /\ r.queue = v.queue
            /\ r.in_collection = v.in_collection /\ r.host = v.host
            /\ r.finalized = [v.finalized EXCEPT ![o] = @ + 1]
        BY <1>14, <3>2 DEF Shape, Fields
      <4>2. \A e \in Finalized : e \in DOMAIN v.finalized
        BY <3>1, CallFramesAssumption DEF Good, Fits, Body
      <4> HIDE DEF r
      <4> QED
        BY <1>3, <1>14, <3>1, <4>1, <4>2 DEF Alike
    <3>3. CASE o \notin Finalized
      <4>1. r = v
        BY <3>3
      <4> HIDE DEF r
      <4> QED
        BY <1>3, <1>14, <3>1, <3>3, <4>1 DEF Alike
    <3> QED
      BY <3>2, <3>3
  <2> HIDE DEF r
  <2>3. Body(r)
    BY <2>2 DEF Good, Fits, Body
  <2> DEFINE E == {y} \cup D
  <2>4. ASSUME NEW e \in Finalized PROVE Right(e, r.where[e], r.finalized[e], E, r.queue)
    <3> DEFINE w == t.where[e]
               n == t.finalized[e]
    <3>1. Right(e, w, n, C, t.queue)
      BY <1>8
    <3>2. e = o => w = OnStack(f)
      BY <2>1
    <3> HIDE DEF w, n
    <3>3. About(w, C) # {} => About(w, E) # {}
      BY <1>2, <1>5, <1>7 DEF About, f
    <3>4. CASE e = o
      <4>1. n = 0
        BY <1>2, <1>7, <2>1, <3>1, <3>2, <3>4 DEF Right, f
      <4>2. w.at = "stack" /\ w # Dying
        BY <3>2, <3>4 DEF OnStack, Dying
      <4>3. \A z \in D : z.op = "visit" => w # OnStack(z.frame)
        BY <1>1, <1>2, <3>2, <3>4, OnStackFrame
      <4>4. About(w, E) # {}
        BY <1>5, <3>2, <3>4 DEF About
      <4>5. \A z \in E : z.op = "drain" => z \in C
        BY <1>2, <1>5
      <4>6. \A z \in E : z.op = "visit" /\ w = OnStack(z.frame) => e \in z.seen
        BY <1>5, <3>4, <4>3
      <4>7. Right(e, w, 1, E, t.queue)
        BY <3>1, <4>2, <4>4, <4>5, <4>6 DEF Right
      <4> QED
        BY <2>2, <3>4, <4>1, <4>7 DEF w, n
    <3>5. CASE e # o
      <4>1. \A z \in E : z.op = "drain" => z \in C
        BY <1>2, <1>5
      <4>2. \A z \in E : z.op = "visit" /\ w = OnStack(z.frame) => n = IF e \in z.seen THEN 1 ELSE 0
        BY <1>2, <1>5, <1>7, <3>1, <3>5 DEF Right, f
      <4>3. \A z \in E : z.op = "restore" => z \in C
        BY <1>2, <1>5
      <4>4. \A z \in C : z.op = "visit" => \E c \in E : c.op = "visit" /\ c.frame = z.frame
        BY <1>2, <1>5, <1>7 DEF f
      <4>5. \A z \in E : z.op = "restore" /\ w = OnStack(z.frame)
              => n = 1 \/ \E c \in E : c.op = "visit" /\ c.frame = z.frame
        BY <3>1, <4>3, <4>4 DEF Right
      <4>6. Right(e, w, n, E, t.queue)
        BY <3>1, <3>3, <4>1, <4>2, <4>5 DEF Right
      <4> QED
        BY <2>2, <3>5, <4>6 DEF w, n
    <3> QED
      BY <3>4, <3>5
  <2>5. r.in_collection <=> \E z \in E : z.op = "drain"
    BY <1>2, <1>5, <1>7, <1>9, <2>2
  <2>6. Good(r)
    BY <1>13, <2>2, <2>3, <2>4, <2>5 DEF Good, Fits, Once, Depth, d
  <2>7. Good(finalize(v, o))
    <3>1. CASE o \in Finalized
      <4>1. r.host # <<>> /\ r.host[1].op \in {"visit", "drain"}
        BY <1>5, <1>13, <2>2
      <4>2. /\ v.frames = r.frames /\ v.where = r.where /\ v.queue = r.queue
            /\ v.in_collection = r.in_collection /\ v.host = r.host
        BY <1>3, <1>14, <2>2 DEF Alike
      <4>3. Good(run_finalizer(v, o))
        BY <1>14, <2>2, <2>6, <3>1, <4>1, <4>2, FinalizerOK
      <4> QED
        BY <3>1, <4>3 DEF finalize
    <3>2. CASE o \notin Finalized
      <4>1. r = v
        BY <3>2 DEF r
      <4> QED
        BY <2>6, <3>2, <4>1 DEF finalize
    <3> QED
      BY <3>1, <3>2
  <2> QED
    BY <1>4, <1>16, <2>7 DEF x
<1> QED
  BY <1>15, <1>16

\* One object of the list is finalized.
LEMMA DrainTakeOK ==
  ASSUME NEW t, Good(t), t.host # <<>>, Item(t).op = "drain", Item(t).todo # {}
  PROVE  Good(drainStep(t, Item(t)))
<1> DEFINE x == Item(t)
           g == Tail(t.host)
           d == Depth(t)
           C == Calls(t.host)
           D == Calls(g)
           o == CHOOSE e \in x.todo : TRUE
           y == [x EXCEPT !.todo = @ \ {o}, !.done = @ \cup {o}]
           u == Pop(t)
           v == Push(u, <<y>>)
           r == IF o \in Finalized THEN [v EXCEPT !.finalized[o] = @ + 1] ELSE v
           E == {y} \cup D
<1>1. /\ Shape(t) /\ d \in Nat /\ IsCall(x)
      /\ {"op", "frame", "todo", "done"} \subseteq DOMAIN x
  BY TopFacts DEF IsCall
<1>2. C = {x} \cup D /\ \A z \in D : z.op # "drain"
  BY TopCalls
<1>3. Shape(u) /\ Alike(t, u) /\ u.host = g /\ Depth(u) = d
  BY <1>1, PopFields
<1>4. drainStep(t, x) = finalize(v, o)
  BY DEF drainStep
<1>5. /\ y.op = "drain" /\ y.frame = x.frame /\ IsCall(y)
      /\ y.todo = x.todo \ {o} /\ y.done = x.done \cup {o}
  <2>1. /\ y.op = x.op /\ y.frame = x.frame /\ DOMAIN y = DOMAIN x
        /\ y.todo = x.todo \ {o} /\ y.done = x.done \cup {o}
    BY <1>1
  <2> HIDE DEF y, x, o
  <2>2. x.op = "drain"
    BY DEF x
  <2> QED
    BY <1>1, <2>1, <2>2 DEF IsCall, Ops, FloorOps, RunOps
<1>6. x.op = "drain" /\ o \in x.todo
  OBVIOUS
<1>7. \A e \in Finalized : Right(e, t.where[e], t.finalized[e], C, t.queue) /\ e \in Objects
  BY CallFramesAssumption DEF Good, Fits, Once
<1>8. t.in_collection <=> \E z \in C : z.op = "drain"
  BY DEF Good, Fits, Once
<1>9. /\ Fit(Over(y, g), d) /\ Calls(Over(y, g)) = {y} \cup D
      /\ Over(y, g) # <<>> /\ Over(y, g)[1] = y
  <2>1. Item(t).op \in {"visit", "drain"}
    BY <1>6
  <2> HIDE DEF y
  <2> QED
    BY <1>5, <1>6, <2>1, FitSwap
<1>10. Shape(v) /\ Alike(u, v) /\ v.host = Over(y, g)
  BY <1>3, PushFields DEF Over
<1> HIDE DEF x, g, d, C, D, o, y, u, v
<1>11. /\ Shape(r) /\ r.frames = t.frames /\ r.where = t.where /\ r.queue = t.queue
       /\ r.in_collection = t.in_collection /\ r.host = Over(y, g)
       /\ DOMAIN r.finalized = DOMAIN t.finalized
       /\ o \in Finalized => r.finalized = [v.finalized EXCEPT ![o] = @ + 1]
       /\ \A e \in Finalized : r.finalized[e] = IF e = o THEN t.finalized[e] + 1 ELSE t.finalized[e]
  <2>1. v.finalized = t.finalized
    BY <1>3, <1>10 DEF Alike
  <2>2. CASE o \in Finalized
    <3>1. /\ Shape(r) /\ r.frames = v.frames /\ r.where = v.where /\ r.queue = v.queue
          /\ r.in_collection = v.in_collection /\ r.host = v.host
          /\ r.finalized = [v.finalized EXCEPT ![o] = @ + 1]
      BY <1>10, <2>2 DEF Shape, Fields
    <3>2. \A e \in Finalized : e \in DOMAIN v.finalized
      BY <2>1, CallFramesAssumption DEF Good, Fits, Body
    <3> HIDE DEF r
    <3> QED
      BY <1>3, <1>10, <2>1, <3>1, <3>2 DEF Alike
  <2>3. CASE o \notin Finalized
    <3>1. r = v
      BY <2>3
    <3> HIDE DEF r
    <3> QED
      BY <1>3, <1>10, <2>1, <2>3, <3>1 DEF Alike
  <2> QED
    BY <2>2, <2>3
<1> HIDE DEF r, E
<1>12. Body(r)
  BY <1>11 DEF Good, Fits, Body
<1>13. ASSUME NEW e \in Finalized PROVE Right(e, r.where[e], r.finalized[e], E, r.queue)
  <2> DEFINE w == t.where[e]
             n == t.finalized[e]
  <2>1. Right(e, w, n, C, t.queue)
    BY <1>7
  <2> HIDE DEF w, n
  <2>2. \A z : z.op \in {"visit", "restore"} => (z \in C <=> z \in E)
    BY <1>2, <1>5, <1>6 DEF E
  <2>3. About(w, E) = About(w, C)
    BY <2>2 DEF About
  <2>4. \A z \in E : z.op = "drain" => z = y
    BY <1>2 DEF E
  <2>5. ASSUME e = o PROVE Right(e, w, 1, E, t.queue) /\ n = 0
    <3>1. w = Dying /\ n = 0 /\ \A k \in 1 .. Len(t.queue) : e \notin t.queue[k]
      BY <1>2, <1>6, <2>1, <2>5 DEF Right
    <3>2. \A z : w # OnStack(z)
      BY <3>1 DEF Dying, OnStack
    <3>3. w.at = "dying"
      BY <3>1 DEF Dying
    <3> QED
      BY <1>5, <2>4, <2>5, <3>1, <3>2, <3>3 DEF Right
  <2>6. ASSUME e # o PROVE Right(e, w, n, E, t.queue)
    <3>1. \A z \in E : z.op = "drain" => (e \in z.todo <=> e \in x.todo)
              /\ (e \in z.done <=> e \in x.done)
      BY <1>5, <2>4, <2>6
    <3>2. x \in C /\ x.op = "drain"
      BY <1>2, <1>6
    <3> QED
      BY <2>1, <2>2, <2>3, <3>1, <3>2 DEF Right
  <2> QED
    BY <1>11, <2>5, <2>6 DEF w, n
<1>14. r.in_collection <=> \E z \in E : z.op = "drain"
  BY <1>2, <1>5, <1>6, <1>8, <1>11 DEF E
<1>15. Good(r)
  BY <1>9, <1>11, <1>12, <1>13, <1>14 DEF Good, Fits, Once, Depth, d, E
<1>16. CASE o \in Finalized
  <2>1. r.host # <<>> /\ r.host[1].op \in {"visit", "drain"}
    BY <1>5, <1>9, <1>11
  <2>2. /\ v.frames = r.frames /\ v.where = r.where /\ v.queue = r.queue
        /\ v.in_collection = r.in_collection /\ v.host = r.host
    BY <1>3, <1>10, <1>11 DEF Alike
  <2>3. Good(run_finalizer(v, o))
    BY <1>10, <1>11, <1>15, <1>16, <2>1, <2>2, FinalizerOK
  <2> QED
    BY <1>4, <1>16, <2>3 DEF finalize, x
<1>17. CASE o \notin Finalized
  <2>1. r = v
    BY <1>17 DEF r
  <2> QED
    BY <1>4, <1>15, <1>17, <2>1 DEF finalize, x
<1> QED
  BY <1>16, <1>17

\* The next of what was queued becomes the list.
LEMMA DrainNextOK ==
  ASSUME NEW t, Good(t), t.host # <<>>, Item(t).op = "drain", Item(t).todo = {}, t.queue # <<>>
  PROVE  Good(drainStep(t, Item(t)))
<1> DEFINE x == Item(t)
           g == Tail(t.host)
           d == Depth(t)
           q == t.queue
           C == Calls(t.host)
           D == Calls(g)
           y == [x EXCEPT !.todo = Head(t.queue)]
           u == [Pop(t) EXCEPT !.queue = Tail(@)]
           r == Push(u, <<y>>)
           E == {y} \cup D
<1>1. /\ Shape(t) /\ d \in Nat /\ IsCall(x)
      /\ {"op", "frame", "todo", "done"} \subseteq DOMAIN x
  BY TopFacts DEF IsCall
<1>2. C = {x} \cup D /\ \A z \in D : z.op # "drain"
  BY TopCalls
<1>3. /\ Shape(u) /\ u.frames = t.frames /\ u.where = t.where /\ u.finalized = t.finalized
      /\ u.in_collection = t.in_collection /\ u.host = g /\ u.queue = Tail(q)
  <2>1. Shape(Pop(t)) /\ Alike(t, Pop(t)) /\ Pop(t).host = g
    BY <1>1, PopFields
  <2> QED
    BY <2>1 DEF Shape, Fields, Alike
<1>4. drainStep(t, x) = r
  BY DEF drainStep
<1>5. /\ IsSequence(Tail(q)) /\ Len(q) \in Nat /\ Len(q) >= 1 /\ Len(Tail(q)) = Len(q) - 1
      /\ Head(q) = q[1] /\ \A k \in 1 .. Len(q) - 1 : Tail(q)[k] = q[k + 1]
  BY PopSequence DEF Good, Fits, Body
<1>6. /\ y.op = "drain" /\ y.frame = x.frame /\ IsCall(y) /\ y.todo = q[1] /\ y.done = x.done
  <2>1. /\ y.op = x.op /\ y.frame = x.frame /\ DOMAIN y = DOMAIN x
        /\ y.todo = q[1] /\ y.done = x.done
    BY <1>1, <1>5
  <2> HIDE DEF y, x
  <2>2. x.op = "drain"
    BY DEF x
  <2> QED
    BY <1>1, <2>1, <2>2 DEF IsCall, Ops, FloorOps, RunOps
<1>7. x.op = "drain" /\ x.todo = {}
  OBVIOUS
<1>8. \A e \in Finalized : Right(e, t.where[e], t.finalized[e], C, q)
  BY DEF Good, Fits, Once
<1>9. t.in_collection <=> \E z \in C : z.op = "drain"
  BY DEF Good, Fits, Once
<1>10. Fit(Over(y, g), d) /\ Calls(Over(y, g)) = E
  BY <1>1, <1>6, FitSwap
<1>11. Shape(r) /\ Alike(u, r) /\ r.host = Over(y, g)
  BY <1>3, PushFields DEF Over
<1> HIDE DEF x, g, d, q, C, D, y, u, r, E
<1>12. Body(r)
  BY <1>3, <1>5, <1>11 DEF Good, Fits, Body, Alike
<1>13. ASSUME NEW e \in Finalized PROVE Right(e, r.where[e], r.finalized[e], E, r.queue)
  <2> DEFINE w == t.where[e]
             n == t.finalized[e]
             p == Tail(q)
  <2>1. Right(e, w, n, C, q)
    BY <1>8
  <2> HIDE DEF w, n
  <2>2. \A z : z.op \in {"visit", "restore"} => (z \in C <=> z \in E)
    BY <1>2, <1>6, <1>7 DEF E
  <2>3. About(w, E) = About(w, C)
    BY <2>2 DEF About
  <2>4. \A z \in E : z.op = "drain" => z = y
    BY <1>2 DEF E
  <2>5. \A k \in 1 .. Len(p) : k + 1 \in 1 .. Len(q) /\ p[k] = q[k + 1]
    BY <1>5
  <2> HIDE DEF p
  <2>6. 1 \in 1 .. Len(q) /\ Len(p) \in Int
    BY <1>5 DEF p
  <2>7. \A k \in 1 .. Len(p) : e \in p[k] => w = Dying /\ n = 0
    BY <2>1, <2>5 DEF Right
  <2>8. \A k, l \in 1 .. Len(p) : e \in p[k] /\ e \in p[l] => k = l
    <3>1. ASSUME NEW k \in 1 .. Len(p), NEW l \in 1 .. Len(p), e \in p[k], e \in p[l] PROVE k = l
      <4>1. k + 1 = l + 1
        BY <2>1, <2>5, <3>1 DEF Right
      <4> QED
        BY <2>6, <4>1
    <3> QED
      BY <3>1
  <2>9. e \in q[1] => w = Dying /\ n = 0 /\ \A k \in 1 .. Len(p) : e \notin p[k]
    <3>1. ASSUME e \in q[1], NEW k \in 1 .. Len(p), e \in p[k] PROVE FALSE
      <4>1. k + 1 = 1
        BY <2>1, <2>5, <2>6, <3>1 DEF Right
      <4> QED
        BY <2>6, <4>1
    <3> QED
      BY <2>1, <2>6, <3>1 DEF Right
  <2>10. e \in x.done => w = Dying /\ n = 1
    BY <1>2, <1>7, <2>1 DEF Right
  <2>11. \A z \in E : z.op = "drain" =>
           /\ e \in z.todo => w = Dying /\ n = 0 /\ \A k \in 1 .. Len(p) : e \notin p[k]
           /\ e \in z.done => w = Dying /\ n = 1
    BY <1>6, <2>4, <2>9, <2>10
  <2>12. Right(e, w, n, E, p)
    BY <2>1, <2>2, <2>3, <2>7, <2>8, <2>11 DEF Right
  <2> QED
    BY <1>3, <1>11, <2>12 DEF Alike, w, n, p
<1>14. r.in_collection <=> \E z \in E : z.op = "drain"
  BY <1>2, <1>3, <1>6, <1>7, <1>9, <1>11 DEF E, Alike
<1>15. Good(r)
  BY <1>3, <1>10, <1>11, <1>12, <1>13, <1>14 DEF Good, Fits, Once, Depth, d, Alike
<1> QED
  BY <1>4, <1>15 DEF x

\* Everything has been finalized, and goes.
LEMMA DrainEndOK ==
  ASSUME NEW t, Good(t), t.host # <<>>, Item(t).op = "drain", Item(t).todo = {}, t.queue = <<>>
  PROVE  Good(drainStep(t, Item(t)))
<1> DEFINE x == Item(t)
           g == Tail(t.host)
           d == Depth(t)
           C == Calls(t.host)
           D == Calls(g)
           r == drainStep(t, x)
<1>1. Shape(t) /\ d \in Nat /\ After(x) = d
  BY TopFacts DEF Level, After, FloorOps, RunOps
<1>2. C = {x} \cup D /\ Fit(g, d) /\ \A z \in D : z.op # "drain"
  BY <1>1, TopCalls
<1>3. /\ Shape(r) /\ r.frames = t.frames /\ r.finalized = t.finalized /\ r.queue = t.queue
      /\ r.in_collection = FALSE /\ r.host = g
      /\ r.where = [e \in Objects |-> IF e \in x.done THEN Freed ELSE t.where[e]]
  <2>1. Shape(Pop(t)) /\ Alike(t, Pop(t)) /\ Pop(t).host = g
    BY <1>1, PopFields
  <2>2. r = [Pop(t) EXCEPT !.in_collection = FALSE,
               !.where = [e \in Objects |-> IF e \in x.done THEN Freed ELSE @[e]]]
    BY DEF drainStep
  <2> HIDE DEF r
  <2> QED
    BY <2>1, <2>2 DEF Shape, Fields, Alike
<1>4. Len(t.queue) = 0
  OBVIOUS
<1>5. x.op = "drain"
  OBVIOUS
<1>6. \A e \in Finalized : Right(e, t.where[e], t.finalized[e], C, t.queue) /\ e \in Objects
  BY CallFramesAssumption DEF Good, Fits, Once
<1> HIDE DEF x, g, d, C, D, r
<1>7. Body(r)
  BY <1>3 DEF Good, Fits, Body
<1>8. ASSUME NEW e \in Finalized PROVE Right(e, r.where[e], r.finalized[e], D, r.queue)
  <2> DEFINE w == t.where[e]
             n == t.finalized[e]
             q == t.queue
  <2>1. Right(e, w, n, C, q) /\ Len(q) = 0
    BY <1>4, <1>6
  <2> HIDE DEF w, n, q
  <2>2. \A z : z.op \in {"visit", "restore"} => (z \in C <=> z \in D)
    BY <1>2, <1>5
  <2>3. About(w, D) = About(w, C)
    BY <2>2 DEF About
  <2>4. ASSUME e \in x.done PROVE Right(e, Freed, 1, D, q) /\ n = 1
    <3>1. n = 1
      BY <1>2, <1>5, <2>1, <2>4 DEF Right
    <3> DEFINE f == Freed
    <3>2. f.at = "freed" /\ \A z : f # OnStack(z)
      BY DEF Freed, OnStack
    <3> HIDE DEF f
    <3>3. Right(e, f, 1, D, q)
      BY <1>2, <2>1, <3>2 DEF Right
    <3> QED
      BY <3>1, <3>3 DEF f
  <2>5. ASSUME e \notin x.done PROVE Right(e, w, n, D, q)
    <3>1. \A z \in D : z.op = "restore" /\ w = OnStack(z.frame)
            => n = 1 \/ \E c \in D : c.op = "visit" /\ c.frame = z.frame
      BY <1>2, <2>1, <2>2 DEF Right
    <3>2. w.at = "stack" => n = 0 \/ About(w, D) # {}
      BY <2>1, <2>3 DEF Right
    <3>3. \A z \in D : z \in C
      BY <1>2
    <3> QED
      BY <2>1, <3>1, <3>2, <3>3 DEF Right
  <2>6. r.where[e] = IF e \in x.done THEN Freed ELSE w
    BY <1>3, <1>6 DEF w
  <2> QED
    BY <1>3, <2>4, <2>5, <2>6 DEF n, q
<1>9. Good(r)
  BY <1>2, <1>3, <1>7, <1>8 DEF Good, Fits, Once, Depth, d, D
<1> QED
  BY <1>9 DEF r, x

LEMMA DrainOK ==
  ASSUME NEW t, Good(t), t.host # <<>>, Item(t).op = "drain"
  PROVE  Good(drainStep(t, Item(t)))
BY DrainTakeOK, DrainNextOK, DrainEndOK

-------------------------------------------------------------------------------
(* Any step between two instructions *)

LEMMA HostStepOK ==
  ASSUME NEW t, Good(t), ~Settled(t)
  PROVE  Good(hostStep(t))
<1> DEFINE x == Item(t)
<1>1. /\ t.host # <<>> /\ x.op # "ffi" /\ (x.op = "run" => Depth(t) = x.depth)
  BY DEF Settled
<1>2. x.op \in Ops
  BY <1>1, TopFacts DEF IsCall
<1>3. CASE x.op = "clear"
  BY <1>1, <1>3, ClearOK DEF hostStep
<1>4. CASE x.op = "visit"
  BY <1>1, <1>4, VisitOK DEF hostStep
<1>5. CASE x.op = "collect"
  BY <1>1, <1>5, CollectStepOK DEF hostStep
<1>6. CASE x.op = "leave"
  BY <1>1, <1>6, LeaveOK DEF hostStep
<1>7. CASE x.op = "restore"
  BY <1>1, <1>7, RestoreOK DEF hostStep
<1>8. CASE x.op = "drain"
  BY <1>1, <1>8, DrainOK DEF hostStep
<1>9. CASE x.op = "pop"
  BY <1>1, <1>9, PopStepOK DEF hostStep
<1>10. CASE x.op = "result"
  BY <1>1, <1>10, ResultOK DEF hostStep
<1>11. CASE x.op = "raise"
  BY <1>1, <1>11, RaiseStepOK DEF hostStep
<1>12. CASE x.op = "tailcall"
  BY <1>1, <1>12, TailcallStepOK DEF hostStep
<1>13. CASE x.op = "unwind"
  BY <1>1, <1>13, UnwindOK DEF hostStep
<1>14. CASE x.op = "rethrow"
  BY <1>1, <1>14, RethrowOK DEF hostStep
<1>15. CASE x.op = "start"
  BY <1>1, <1>15, StartOK DEF hostStep
<1>16. CASE x.op = "callback"
  BY <1>1, <1>16, CallbackStepOK DEF hostStep
<1>17. CASE x.op = "assign"
  BY <1>1, <1>17, AssignStepOK DEF hostStep
<1>18. CASE x.op = "drop_args"
  BY <1>1, <1>18, DropArgsStepOK DEF hostStep
<1>19. CASE x.op = "throw"
  BY <1>1, <1>19, ThrowStepOK DEF hostStep
<1>20. CASE x.op = "run"
  BY <1>1, <1>20, EndOK DEF hostStep
<1> QED
  BY <1>1, <1>2, <1>3, <1>4, <1>5, <1>6, <1>7, <1>8, <1>9, <1>10, <1>11, <1>12, <1>13, <1>14,
     <1>15, <1>16, <1>17, <1>18, <1>19, <1>20 DEF Ops


-------------------------------------------------------------------------------
(* Instructions *)

\* An instruction belongs to a frame of the innermost run, and nothing that is
\* waiting is about that frame.
LEMMA RunningOK ==
  ASSUME Good(thread), Running
  PROVE  /\ Above1(thread, "run") /\ Shape(thread) /\ Depth(thread) \in Nat
         /\ Item(thread) = thread.host[1]
         /\ Item(thread).depth \in Nat /\ Item(thread).depth < Depth(thread)
         /\ Fits(thread, Depth(thread) - 1)
         /\ \A y \in Calls(thread.host) : High(y) => Height(y) < Depth(thread)
<1> DEFINE t == thread
           x == Item(t)
           d == Depth(t)
<1>1. t.host # <<>> /\ x.op = "run" /\ Depth(t) # x.depth
  BY DEF Running, Active, Settled
<1>2. x = t.host[1] /\ IsCall(x) /\ Level(x, d) /\ d \in Nat /\ Shape(t)
  BY <1>1, TopFacts
<1>3. x.depth \in Nat /\ x.depth < d
  BY <1>1, <1>2 DEF Level, IsCall, FloorOps, RunOps
<1>4. Level(x, d - 1)
  BY <1>1, <1>2, <1>3 DEF Level
<1>5. Fits(t, d - 1)
  BY <1>1, <1>2, <1>4, MoveOK DEF Good
<1>6. Fit(t.host, d - 1)
  BY <1>5 DEF Fits
<1>7. ASSUME NEW y \in Calls(t.host), High(y) PROVE Height(y) < d
  <2>1. Height(y) \in Int /\ Height(y) <= d - 1
    BY <1>2, <1>6, <1>7, FitLower
  <2> QED
    BY <1>2, <2>1
<1> QED
  BY <1>1, <1>2, <1>3, <1>5, <1>7 DEF Above1

LEMMA SetOK ==
  ASSUME NEW t, Good(t), NEW i, NEW v
  PROVE  Good(Set(t, i, v))
BY AssignOK DEF Set, Keeps

LEMMA IncOK ==
  ASSUME NEW t, Good(t), NEW v
  PROVE  /\ Keeps(t, reg_inc(t, v)) /\ reg_inc(t, v).host = t.host
         /\ Shape(reg_inc(t, v)) /\ Alike(t, reg_inc(t, v))
<1> DEFINE u == [t EXCEPT !.rc[v.of] = @ + 1]
           r == reg_inc(t, v)
<1>1. r \in {t, u}
  BY DEF reg_inc
<1>2. Shape(t) /\ Shape(u) /\ Alike(t, u) /\ u.host = t.host /\ Alike(t, t)
  BY DEF Good, Fits, Body, Shape, Fields, Alike
<1> HIDE DEF u, r
<1>3. Shape(r) /\ Alike(t, r) /\ r.host = t.host
  BY <1>1, <1>2
<1>4. Keeps(t, r)
  BY <1>3, KeepsAlike
<1> QED
  BY <1>3, <1>4 DEF r

LEMMA FaultOK ==
  ASSUME Good(thread), Fault
  PROVE  Good(thread')
<1>1. Above1(thread, "run")
  BY RunningOK DEF Fault, Plain
<1> QED
  BY <1>1, ThrowOK DEF Fault, Do, Keeps

LEMMA NewOK ==
  ASSUME Good(thread), NEW o \in Objects, NEW dst,
         NEW place \in {Heap, InFrame(Depth(thread)), OnStack(Depth(thread))}, Running,
         New(o, place, dst)
  PROVE  Good(thread')
<1> DEFINE t == thread
           d == Depth(t)
           u == [t EXCEPT !.where[o] = place, !.rc[o] = 1, !.finalized[o] = 0]
           C == Calls(t.host)
           q == t.queue
<1>1. /\ Shape(t) /\ d \in Nat
      /\ \A y \in C : High(y) => Height(y) < d
  BY RunningOK
<1>2. t.where[o] = Freed /\ thread' = Set(u, dst, Ref(o))
  BY DEF New, Do
<1>3. /\ Shape(u) /\ u.frames = t.frames /\ u.queue = q /\ u.in_collection = t.in_collection
      /\ u.host = t.host /\ u.where = [t.where EXCEPT ![o] = place]
      /\ u.finalized = [t.finalized EXCEPT ![o] = 0]
  BY <1>1 DEF Shape, Fields
<1>4. place.at \in {"heap", "frame", "stack"}
  BY DEF Heap, InFrame, OnStack
<1>5. \A f : place = OnStack(f) => f = d
  BY DEF Heap, InFrame, OnStack
<1>6. Freed # Dying /\ Freed.at = "freed"
  BY DEF Freed, Dying
<1> HIDE DEF u, t, d, C, q
<1>7. Body(u)
  BY <1>3 DEF Good, Fits, Body, t, q
<1>8. ASSUME NEW e \in Finalized
      PROVE  Right(e, u.where[e], u.finalized[e], Calls(u.host), u.queue)
  <2>1. Right(e, t.where[e], t.finalized[e], C, q) /\ e \in DOMAIN t.where
        /\ e \in DOMAIN t.finalized
    BY CallFramesAssumption DEF Good, Fits, Body, Once, C, q, t
  <2>2. CASE e # o
    BY <1>3, <2>1, <2>2 DEF C
  <2>3. CASE e = o
    <3>1. u.where[e] = place /\ u.finalized[e] = 0
      BY <1>3, <2>1, <2>3
    <3>2. /\ \A k \in 1 .. Len(q) : e \notin q[k]
          /\ \A y \in C : y.op = "drain" => e \notin y.todo /\ e \notin y.done
      BY <1>2, <1>6, <2>1, <2>3 DEF Right, t
    <3>3. \A y \in C : y.op \in {"visit", "restore"} => place # OnStack(y.frame)
      BY <1>1, <1>5 DEF High, Height, RunOps, TeardownOps
    <3>4. Right(e, place, 0, C, q)
      BY <1>4, <3>2, <3>3 DEF Right
    <3> QED
      BY <1>3, <3>1, <3>4 DEF C
  <2> QED
    BY <2>2, <2>3
<1>9. Good(u)
  BY <1>3, <1>7, <1>8 DEF Good, Fits, Once, Depth, t, q
<1> QED
  BY <1>2, <1>9, SetOK

LEMMA CopyOK ==
  ASSUME Good(thread), NEW src, NEW dst, Copy(src, dst)
  PROVE  Good(thread')
BY IncOK, SetOK DEF Copy, Do, Keeps

LEMMA MoveInstructionOK ==
  ASSUME Good(thread), NEW src, NEW dst, Move(src, dst)
  PROVE  Good(thread')
BY MoveOutOK, SetOK DEF Move, Taken, Do, Keeps

LEMMA DropOK ==
  ASSUME Good(thread), NEW src, Drop(src)
  PROVE  Good(thread')
BY SetOK DEF Drop, Do

LEMMA RegisterRefOK ==
  ASSUME Good(thread), NEW i, NEW dst, RegisterRef(i, dst)
  PROVE  Good(thread')
BY SetOK DEF RegisterRef, Do

LEMMA LoadOK ==
  ASSUME Good(thread), NEW src, NEW dst, Load(src, dst)
  PROVE  Good(thread')
BY IncOK, SetOK DEF Load, Do, Keeps

\* What is too young for a variable is dragged, or refused.
LEMMA StoreOK ==
  ASSUME Good(thread), NEW ref, NEW src, NEW dst, NEW is_move, NEW typed, Running,
         Store(ref, src, dst, is_move, typed)
  PROVE  Good(thread')
<1> DEFINE var  == Get(ref)
           v    == Get(src)
           loc  == Location(thread, v)
           t    == IF is_move THEN Taken(src) ELSE thread
           temp == IF is_move THEN v ELSE None
           old  == loc.at = "frame" /\ loc.frame > var.frame
           in   == IF old THEN drag(t, v.of, InFrame(var.frame)) ELSE t
           kept == IF is_move THEN in ELSE reg_inc(in, v)
           stored == [kept EXCEPT !.locals[var.slot] = v]
<1>1. Above1(thread, "run") /\ Shape(thread)
  BY RunningOK
<1>2. thread' \in {throw(t, temp), throw(in, temp), Set(stored, dst, in.locals[var.slot])}
  BY DEF Store, Do
<1>3. Good(t) /\ Above1(t, "run") /\ t.where = thread.where /\ Shape(t)
  <2>1. t \in {Taken(src), thread}
    OBVIOUS
  <2>2. /\ Good(Taken(src)) /\ Taken(src).host = thread.host
        /\ Shape(Taken(src)) /\ Taken(src).where = thread.where
    BY MoveOutOK DEF Taken, Keeps, Alike
  <2> HIDE DEF t
  <2> QED
    BY <1>1, <2>1, <2>2 DEF Above1
<1>4. old => thread.where[v.of].at = "frame"
  BY DEF Location, IsObject, OnStack, Immortal
<1>5. InFrame(var.frame).at \in Young
  BY DEF InFrame, Young
<1> HIDE DEF t, v, old, temp, var
<1>6. Good(in) /\ Above1(in, "run") /\ Shape(in)
  <2>1. CASE old
    <3>1. Fits(t, Depth(t))
      BY <1>3 DEF Good
    <3>2. /\ Fits(in, Depth(t)) /\ in.frames = t.frames /\ in.host = t.host /\ Shape(in)
      BY <1>3, <1>4, <1>5, <2>1, <3>1, DragOK
    <3> QED
      BY <1>3, <3>2 DEF Good, Depth, Above1
  <2>2. CASE ~old
    BY <1>3, <2>2
  <2> QED
    BY <2>1, <2>2
<1> HIDE DEF in
<1>7. Good(kept) /\ Shape(kept)
  BY <1>6, IncOK DEF Keeps
<1> HIDE DEF kept
<1>8. Shape(stored) /\ Alike(kept, stored) /\ stored.host = kept.host
  BY <1>7 DEF Shape, Fields, Alike
<1> HIDE DEF stored
<1>9. Good(stored)
  BY <1>7, <1>8, KeepsAlike DEF Keeps
<1>10. Good(throw(t, temp)) /\ Good(throw(in, temp))
  BY <1>3, <1>6, ThrowOK DEF Keeps
<1>11. Good(Set(stored, dst, in.locals[var.slot]))
  BY <1>9, SetOK
<1> QED
  BY <1>2, <1>10, <1>11

LEMMA SetArgOK ==
  ASSUME Good(thread), NEW src, NEW is_move, SetArg(src, is_move)
  PROVE  Good(thread')
<1> DEFINE t == IF is_move THEN Taken(src) ELSE reg_inc(thread, Get(src))
           u == [t EXCEPT !.args = @ + 1]
<1>1. thread' = Assign(u, arg(t, t.args), Get(src))
  BY DEF SetArg, Do
<1>2. Good(t) /\ Shape(t)
  BY MoveOutOK, IncOK DEF Taken, Keeps
<1> HIDE DEF t
<1>3. Shape(u) /\ Alike(t, u) /\ u.host = t.host
  BY <1>2 DEF Shape, Fields, Alike
<1> HIDE DEF u
<1>4. Good(u)
  BY <1>2, <1>3, KeepsAlike DEF Keeps
<1> QED
  BY <1>1, <1>4, AssignOK DEF Keeps

LEMMA CallOK ==
  ASSUME Good(thread), NEW f, NEW dst, NEW typed, Call(f, dst, typed)
  PROVE  Good(thread')
BY RunningOK, PushframeOK DEF Call, CanCall, Do

LEMMA TryCallOK ==
  ASSUME Good(thread), NEW f, NEW dst, NEW typed, TryCall(f, dst, typed)
  PROVE  Good(thread')
BY RunningOK, TryPushframeOK DEF TryCall, CanCall, Do

LEMMA TailcallOK ==
  ASSUME Good(thread), NEW f, NEW typed, Tailcall(f, typed)
  PROVE  Good(thread')
<1> DEFINE t == thread
           d == Depth(t)
           x == [op |-> "tailcall", frame |-> d, func |-> f, typed |-> typed]
           b == <<x>>
           u == Push(t, b)
<1>1. /\ Above1(t, "run") /\ Shape(t) /\ d \in Nat
      /\ \A y \in Calls(t.host) : High(y) => Height(y) < d
  BY RunningOK DEF Tailcall
<1>2. thread' = Push(t, teardownItems(t, TRUE) \o b)
  BY DEF Tailcall, Do, tailcall
<1>3. /\ IsCall(x) /\ x.op \notin MarkOps /\ Level(x, d) /\ After(x) = d /\ ~High(x)
      /\ \A s : s # <<>> /\ s[1].op = "run" => Under(x, s)
  BY <1>1 DEF IsCall, Level, After, High, Above, Under, Needy, Ops, FloorOps, RunOps,
     TeardownOps, MarkOps
<1>4. IsSequence(b)
  <2>1. b \in Seq({x})
    OBVIOUS
  <2> QED
    BY <2>1 DEF IsSequence
<1>5. IsSequence(t.host)
  BY DEF Good, Fits, Fit
<1>6. u.host = Over(x, t.host)
  BY <1>1, PushFields DEF Over
<1>7. Calls(Over(x, t.host)) = {x} \cup Calls(t.host)
  BY <1>5, PushSequence
<1>8. x.op \notin {"visit", "restore"}
  OBVIOUS
<1> HIDE DEF x
<1>9. Keeps(t, u)
  BY <1>1, <1>3, CallHere DEF Above1
<1>10. \A y \in Calls(u.host) : y.op \in {"visit", "restore"} => y.frame < d
  BY <1>1, <1>6, <1>7, <1>8 DEF High, Height, RunOps, TeardownOps
<1> HIDE DEF b
<1>11. Keeps(t, Push(t, teardownItems(t, TRUE) \o b))
  BY <1>1, <1>4, <1>5, <1>9, <1>10, TeardownThen DEF Keeps
<1> QED
  BY <1>2, <1>11 DEF Keeps

LEMMA ReturnOK ==
  ASSUME Good(thread), NEW src, NEW typed, Return(src, typed)
  PROVE  Good(thread')
<1> DEFINE d == Depth(thread)
           t == Taken(src)
<1>1. /\ Above1(thread, "run") /\ d \in Nat /\ Fits(thread, d - 1)
  BY RunningOK DEF Return, Plain
<1>2. thread' = popframe(t, Get(src), typed)
  BY DEF Return, Do
<1>3. t.host = thread.host /\ Shape(t) /\ Alike(thread, t)
  BY MoveOutOK DEF Taken
<1> HIDE DEF t
<1>4. Fits(t, d - 1) /\ d = Depth(t) /\ Above1(t, "run")
  BY <1>1, <1>3, FitsAlike DEF Above1, Alike, Depth
<1> QED
  BY <1>2, <1>4, PopframeOK

\* A raise ends in a frame of the innermost run.
LEMMA RaiseOK ==
  ASSUME Good(thread), "raise_out_of_run" \notin Cases, NEW src, NEW target \in Int, NEW typed,
         Raise(src, target, typed)
  PROVE  Good(thread')
<1> DEFINE d   == Depth(thread)
           t   == Taken(src)
           ret == Get(src)
           loc == Location(t, ret)
           old == loc.at = "frame" /\ loc.frame > target /\ ret.kind = "object"
           out == IF old THEN drag(t, ret.of, InFrame(target)) ELSE t
           x   == [op |-> "raise", target |-> target, ret |-> ret, typed |-> typed]
<1>1. /\ Above1(thread, "run") /\ d \in Nat /\ Item(thread) = thread.host[1]
      /\ Item(thread).depth \in Nat /\ target > Item(thread).depth
  BY RunningOK DEF Raise, Plain
<1>2. thread' = raise(t, ret, target, typed)
  BY DEF Raise, Do
<1>3. t.host = thread.host /\ Shape(t) /\ Alike(thread, t) /\ Good(t)
  BY MoveOutOK DEF Taken, Keeps
<1>4. thread' = throw(t, ret) \/ (target < d /\ thread' = Push(out, <<x>>))
  BY <1>1, <1>2, <1>3 DEF raise, Alike, Depth
<1>5. old => t.where[ret.of].at = "frame"
  BY DEF Location, IsObject
<1>6. InFrame(target).at \in Young
  BY DEF InFrame, Young
<1>7. Above1(t, "run") /\ Depth(t) = d
  BY <1>1, <1>3 DEF Above1, Alike, Depth
<1>8. target \in Nat /\ target >= 1
  BY <1>1
<1>9. /\ IsCall(x) /\ x.op \notin MarkOps /\ ~High(x) /\ After(x) = target - 1
      /\ Level(x, d) <=> target <= d
      /\ \A s : s # <<>> /\ s[1].op = "run" => Under(x, s)
  BY <1>8 DEF IsCall, Level, After, High, Above, Under, Needy, Ops, FloorOps, RunOps,
     TeardownOps, MarkOps
<1> HIDE DEF t, ret, old, x
<1>10. Good(out) /\ out.frames = t.frames /\ out.host = t.host /\ Shape(out)
  <2>1. CASE old
    <3>1. Fits(t, Depth(t))
      BY <1>3 DEF Good
    <3>2. /\ Fits(out, Depth(t)) /\ out.frames = t.frames /\ out.host = t.host /\ Shape(out)
      BY <1>5, <1>6, <2>1, <3>1, DragOK
    <3> QED
      BY <3>2 DEF Good, Depth
  <2>2. CASE ~old
    BY <1>3, <2>2
  <2> QED
    BY <2>1, <2>2
<1> HIDE DEF out
<1>11. ASSUME target < d PROVE Good(Push(out, <<x>>))
  <2>1. Level(out.host[1], target - 1)
    BY <1>1, <1>3, <1>7, <1>10 DEF Level, Above1
  <2>2. Fits(out, target - 1)
    BY <1>1, <1>7, <1>8, <1>10, <2>1, MoveOK DEF Good, Above1, Depth
  <2>3. Fits(Push(out, <<x>>), d)
    BY <1>1, <1>7, <1>8, <1>9, <1>10, <1>11, <2>2, PushOK DEF Above1
  <2> QED
    BY <1>7, <1>10, <2>3, PushFields DEF Good, Depth
<1>12. Good(throw(t, ret))
  BY <1>3, <1>7, ThrowOK DEF Keeps
<1> QED
  BY <1>4, <1>11, <1>12

LEMMA FFIOK ==
  ASSUME Good(thread), NEW dst, FFI(dst)
  PROVE  Good(thread')
<1> DEFINE t == [thread EXCEPT !.args = 0]
           d == Depth(thread)
           x == [op |-> "ffi", frame |-> d, args |-> thread.args, dst |-> dst,
                 passed |-> Passed(thread.args)]
<1>1. Above1(thread, "run") /\ Shape(thread) /\ d \in Nat
  BY RunningOK DEF FFI
<1>2. thread' = Push(t, <<x>>)
  BY DEF FFI, Do
<1>3. Shape(t) /\ Alike(thread, t) /\ t.host = thread.host
  BY <1>1 DEF Shape, Fields, Alike
<1>4. /\ IsCall(x) /\ x.op \notin MarkOps /\ Level(x, d) /\ After(x) = d /\ ~High(x)
      /\ \A s : s # <<>> /\ s[1].op = "run" => Under(x, s)
  BY <1>1 DEF IsCall, Level, After, High, Above, Under, Needy, Ops, FloorOps, RunOps,
     TeardownOps, MarkOps
<1> HIDE DEF t, x
<1>5. Good(t) /\ Depth(t) = d
  BY <1>3, KeepsAlike DEF Keeps, Alike, Depth
<1>6. Keeps(t, Push(t, <<x>>))
  BY <1>1, <1>3, <1>4, <1>5, CallHere DEF Above1
<1> QED
  BY <1>2, <1>6 DEF Keeps

LEMMA InCOK ==
  ASSUME Good(thread), InC
  PROVE  /\ Above1(thread, "ffi") /\ Shape(thread) /\ Depth(thread) \in Nat
         /\ thread.host # <<>> /\ Item(thread).op = "ffi"
BY TopFacts DEF InC, Above1

LEMMA CallbackOK ==
  ASSUME Good(thread), NEW f, Callback(f)
  PROVE  Good(thread')
<1> DEFINE t == Must(thread, thread.args = 0, "args_pending")
           d == Depth(thread)
           x == [op |-> "callback", frame |-> d, func |-> f]
<1>1. Above1(thread, "ffi") /\ Shape(thread) /\ d \in Nat
  BY InCOK DEF Callback
<1>2. thread' = Push(t, <<x>>)
  BY DEF Callback, Do
<1>3. Shape(t) /\ Alike(thread, t) /\ t.host = thread.host
  BY <1>1 DEF Shape, Fields, Alike, Must
<1>4. /\ IsCall(x) /\ x.op \notin MarkOps /\ Level(x, d) /\ After(x) = d /\ ~High(x)
      /\ \A s : s # <<>> /\ s[1].op = "ffi" => Under(x, s)
  BY <1>1 DEF IsCall, Level, After, High, Above, Under, Needy, Ops, FloorOps, RunOps,
     TeardownOps, MarkOps
<1> HIDE DEF t, x
<1>5. Good(t) /\ Depth(t) = d
  BY <1>3, KeepsAlike DEF Keeps, Alike, Depth
<1>6. Keeps(t, Push(t, <<x>>))
  BY <1>1, <1>3, <1>4, <1>5, CallHere DEF Above1
<1> QED
  BY <1>2, <1>6 DEF Keeps

LEMMA ReturnFromCOK ==
  ASSUME Good(thread), NEW typed, ReturnFromC(typed)
  PROVE  Good(thread')
<1> DEFINE t == Pop(thread)
           n == Item(thread).args
           d == Depth(thread)
           x == Clear(d, arg(thread, 0), arg(thread, n - 1))
           b == IF n = 0 THEN <<>> ELSE <<x>>
           u == Push(t, b)
<1>1. thread.host # <<>> /\ Item(thread).op = "ffi" /\ Shape(thread)
  BY InCOK DEF ReturnFromC
<1>2. Good(t) /\ Above1(t, "run") /\ Shape(t)
  BY <1>1, AboveRun, PopFields DEF Keeps
<1>3. thread' \in {throw(t, None), Assign(u, local(thread, Item(thread).dst), None)}
  BY DEF ReturnFromC, Do, returnStep
<1>4. d \in Nat /\ d = Depth(t)
  BY <1>1, PopFields, FitsDepth DEF Good
<1>5. /\ IsCall(x) /\ x.op \notin MarkOps /\ Level(x, d) /\ After(x) = d /\ ~High(x)
      /\ \A s : Under(x, s)
  BY <1>4 DEF Clear, IsCall, Level, After, High, Above, Under, Needy, Ops, FloorOps, RunOps,
     TeardownOps, MarkOps
<1> HIDE DEF x, t, d
<1>6. Good(u)
  <2>1. CASE n = 0
    <3>1. IsSequence(t.host)
      BY <1>2 DEF Good, Fits, Fit
    <3>2. b = <<>>
      BY <2>1
    <3> HIDE DEF b
    <3>3. Shape(u) /\ Alike(t, u) /\ u.host = <<>> \o t.host
      BY <1>2, <3>2, PushFields
    <3>4. u.host = t.host
      BY <3>1, <3>3, Tuples
    <3> QED
      BY <1>2, <3>3, <3>4, KeepsAlike DEF Keeps
  <2>2. CASE n # 0
    <3>1. u = Push(t, <<x>>)
      BY <2>2
    <3> HIDE DEF u
    <3>2. Keeps(t, Push(t, <<x>>))
      BY <1>2, <1>4, <1>5, CallHere
    <3> QED
      BY <3>1, <3>2 DEF Keeps
  <2> QED
    BY <2>1, <2>2
<1> HIDE DEF u
<1>7. Good(throw(t, None)) /\ Good(Assign(u, local(thread, Item(thread).dst), None))
  BY <1>2, <1>6, ThrowOK, AssignOK DEF Keeps
<1> QED
  BY <1>3, <1>7

LEMMA RunBehaviorOK ==
  ASSUME Good(thread), NEW f, NEW closure \in {None} \cup {Ref(o) : o \in Objects},
         RunBehavior(f, closure)
  PROVE  Good(thread')
<1> DEFINE t == [thread EXCEPT !.where[closure.of] = Heap, !.rc[closure.of] = 1]
           given == IF closure = None THEN thread ELSE Assign(t, 0, closure)
           u == [given EXCEPT !.args = Params[f]]
<1>1. thread' = thread_run(u, f, "behavior", TRUE)
  BY DEF RunBehavior, Do
<1>2. Good(given)
  <2>1. ASSUME closure # None PROVE Good(t)
    <3>1. thread.where[closure.of] = Sent
      BY <2>1 DEF RunBehavior
    <3>2. /\ Shape(t) /\ t.frames = thread.frames /\ t.finalized = thread.finalized
          /\ t.queue = thread.queue /\ t.in_collection = thread.in_collection
          /\ t.host = thread.host /\ t.where = [thread.where EXCEPT ![closure.of] = Heap]
      BY DEF Good, Fits, Body, Shape, Fields
    <3>3. thread.where[closure.of].at \in Young /\ Heap.at \in Young
      BY <3>1 DEF Sent, Heap, Young
    <3> HIDE DEF t
    <3>4. Fits(t, Depth(thread))
      BY <3>2, <3>3, PlaceOK DEF Good
    <3> QED
      BY <3>2, <3>4 DEF Good, Depth
  <2> HIDE DEF t
  <2> QED
    BY <2>1, AssignOK DEF Keeps
<1> HIDE DEF given
<1>3. Shape(u) /\ Alike(given, u) /\ u.host = given.host
  BY <1>2 DEF Good, Fits, Body, Shape, Fields, Alike
<1> HIDE DEF u
<1>4. Good(u)
  BY <1>2, <1>3, KeepsAlike DEF Keeps
<1> QED
  BY <1>1, <1>4, ThreadRunOK

-------------------------------------------------------------------------------
(* A behavior is scheduled *)

\* Between the result and the requests the closure is in its register, alone
\* in a region.
Waiting(t) ==
  LET closure == t.locals[arg(t, 0)]
  IN  /\ Shape(t) /\ Good(Pop(t))
      /\ Item(t).args > 0 /\ closure.kind = "object" => t.where[closure.of].at \in Young

LEMMA ScheduleOK ==
  ASSUME NEW t, Waiting(t)
  PROVE  Good(scheduleStep(t, Item(t)))
<1> DEFINE x == Item(t)
           p == Pop(t)
           u == Must(p, \A o \in x.passed : t.where[o] = Heap, "request_changed")
           closure == u.locals[arg(u, 0)]
           cleared == [u EXCEPT !.locals = [i \in DOMAIN @ |->
                        IF i \in arg(u, 0) .. arg(u, x.args - 1) THEN None ELSE @[i]]]
<1>1. Shape(t) /\ Good(p)
  BY DEF Waiting
<1>2. Shape(p) /\ Alike(t, p) /\ p.locals = t.locals
  BY <1>1, PopFields
<1>3. scheduleStep(t, x) = IF x.args > 0 /\ closure.kind = "object"
                           THEN send(cleared, closure.of) ELSE cleared
  BY DEF scheduleStep
<1> HIDE DEF p
<1>4. Shape(u) /\ Alike(p, u) /\ u.host = p.host /\ u.locals = t.locals
  BY <1>2 DEF Must, Shape, Fields, Alike
<1>5. closure = t.locals[arg(t, 0)]
  BY <1>2, <1>4 DEF arg, Top, Depth, Alike
<1> HIDE DEF u
<1>6. Shape(cleared) /\ Alike(p, cleared) /\ cleared.host = p.host
  BY <1>4 DEF Shape, Fields, Alike
<1> HIDE DEF cleared, closure, x
<1>7. Good(cleared) /\ cleared.where = t.where
  BY <1>1, <1>2, <1>6, KeepsAlike DEF Keeps, Alike
<1>8. x.args > 0 /\ closure.kind = "object" => cleared.where[closure.of].at \in Young
  BY <1>5, <1>7 DEF Waiting, x
<1>9. x.args > 0 /\ closure.kind = "object" => Good(send(cleared, closure.of))
  BY <1>7, <1>8, SendOK DEF Keeps
<1> QED
  BY <1>3, <1>7, <1>9 DEF x

\* The result goes to a register that holds nothing ("overlap" is the run that
\* explores the other case).
LEMMA WhenOK ==
  ASSUME Good(thread), "overlap" \notin Cases, NEW f, NEW dst, NEW typed, When(f, dst, typed)
  PROVE  Good(thread') \/ (Above1(thread', "schedule") /\ Waiting(thread'))
<1> DEFINE n       == thread.args
           closure == thread.locals[arg(thread, 0)]
           young   == n > 0 /\ closure.kind = "object" /\ Location(thread, closure).at = "frame"
           t       == IF young THEN drag(thread, closure.of, Heap) ELSE thread
           p       == [t EXCEPT !.args = 0]
           x       == [op |-> "schedule", frame |-> Depth(thread), args |-> n, passed |-> Passed(n)]
           r       == Push(p, <<x>>)
           isolated == closure.kind = "object" => t.where[closure.of] = Heap /\ t.rc[closure.of] = 1
<1>1. /\ Above1(thread, "run") /\ Shape(thread) /\ Depth(thread) \in Nat
  BY RunningOK DEF When
<1>2. /\ Get(dst) = None
      /\ arg(thread, 0) \in DOMAIN thread.locals
  BY DEF When, ResultIsFree
<1>3. \/ thread' \in {throw(thread, None), throw(t, None), throw(p, None)}
      \/ /\ n > 0 => isolated
         /\ thread' = Set(r, dst, None)
  BY DEF When, Do
<1>4. young => thread.where[closure.of].at = "frame"
  BY DEF Location, IsObject
<1>5. Heap.at \in Young
  BY DEF Heap, Young
<1>6. t.locals = thread.locals
  BY <1>1 DEF drag, Shape, Fields
<1> HIDE DEF young
<1>7. Good(t) /\ Shape(t) /\ t.host = thread.host /\ t.frames = thread.frames
  <2>1. CASE young
    <3>1. t = drag(thread, closure.of, Heap)
      BY <2>1
    <3> HIDE DEF t, closure
    <3> QED
      BY <1>4, <1>5, <2>1, <3>1, DragOK DEF Good, Depth
  <2>2. CASE ~young
    BY <1>1, <2>2
  <2> QED
    BY <2>1, <2>2
<1>8. n > 0 /\ isolated /\ closure.kind = "object" => t.where[closure.of].at \in Young
  BY <1>5
<1> HIDE DEF t, isolated, closure
<1>9. Shape(p) /\ Alike(t, p) /\ p.host = t.host /\ p.locals = thread.locals
  BY <1>6, <1>7 DEF Shape, Fields, Alike
<1> HIDE DEF p
<1>10. Good(p)
  BY <1>7, <1>9, KeepsAlike DEF Keeps
<1>11. Good(throw(thread, None)) /\ Good(throw(t, None)) /\ Good(throw(p, None))
  BY <1>1, <1>7, <1>9, <1>10, ThrowOK DEF Keeps, Above1
<1>12. ASSUME n > 0 => isolated, thread' = Set(r, dst, None)
       PROVE  Above1(thread', "schedule") /\ Waiting(thread')
  <2> DEFINE i == local(thread, dst)
             s == [r EXCEPT !.locals[i] = None]
  <2>1. IsSequence(p.host)
    BY <1>10 DEF Good, Fits, Fit
  <2>2. /\ Shape(r) /\ Alike(p, r) /\ r.host = Over(x, p.host) /\ r.locals = p.locals
    BY <1>9, PushFields DEF Over
  <2> HIDE DEF r
  <2>3. r.frames = thread.frames
    BY <1>7, <1>9, <2>2 DEF Alike
  <2>4. local(r, dst) = i /\ r.locals[i] = None
    BY <1>2, <1>9, <2>2, <2>3 DEF local, Top, Depth, Get
  <2>5. thread' = s
    BY <1>12, <2>4 DEF Set, Assign, reg_dec, None
  <2>6. /\ Shape(s) /\ Alike(p, s) /\ s.host = Over(x, p.host) /\ s.frames = thread.frames
        /\ s.locals = [r.locals EXCEPT ![i] = None]
    BY <2>2, <2>3 DEF Shape, Fields, Alike
  <2> HIDE DEF s, i
  <2>7. x.op = "schedule" /\ x.args = n
    OBVIOUS
  <2> HIDE DEF x
  <2>8. /\ s.host # <<>> /\ s.host[1] = x /\ Tail(s.host) = p.host /\ Item(s) = x
    <3>1. IsSequence(s.host) /\ s.host # <<>> /\ s.host[1] = x /\ Tail(s.host) = p.host
      BY <2>1, <2>6, PushSequence
    <3> QED
      BY <3>1, PopSequence DEF Item
  <2>9. Good(Pop(s))
    <3>1. Shape(Pop(s)) /\ Alike(s, Pop(s)) /\ Pop(s).host = p.host
      BY <2>6, <2>8, PopFields
    <3>2. Alike(p, Pop(s))
      BY <2>6, <3>1 DEF Alike
    <3> QED
      BY <1>10, <3>1, <3>2, KeepsAlike DEF Keeps
  <2>10. arg(s, 0) = arg(thread, 0)
    BY <2>6 DEF arg, Top, Depth
  <2>11. s.locals[arg(s, 0)] \in {None, closure}
    BY <1>2, <1>9, <2>2, <2>6, <2>10 DEF closure
  <2>12. s.where = t.where
    BY <1>9, <2>6 DEF Alike
  <2>13. ASSUME Item(s).args > 0, s.locals[arg(s, 0)].kind = "object"
         PROVE  s.where[s.locals[arg(s, 0)].of].at \in Young
    <3>1. s.locals[arg(s, 0)] = closure
      BY <2>11, <2>13 DEF None
    <3> QED
      BY <1>8, <1>12, <2>7, <2>8, <2>12, <2>13, <3>1
  <2> QED
    BY <2>5, <2>6, <2>7, <2>8, <2>9, <2>13 DEF Waiting, Above1
<1> QED
  BY <1>3, <1>11, <1>12

-------------------------------------------------------------------------------
(* The invariant *)

Inv == Good(thread) \/ (Above1(thread, "schedule") /\ Waiting(thread))

LEMMA InitGood == Init => Good(thread)
<1> SUFFICES ASSUME Init PROVE Good(thread)
  OBVIOUS
<1>1. /\ Shape(thread) /\ thread.frames = <<>> /\ thread.host = <<>> /\ thread.queue = <<>>
      /\ thread.where = [o \in Objects |-> Freed] /\ thread.in_collection = FALSE
      /\ thread.finalized = [o \in Objects |-> IF o \in Finalized THEN 1 ELSE 0]
  BY DEF Init, Shape, Fields
<1>2. IsSequence(<<>>) /\ Len(<<>>) = 0
  <2>1. <<>> \in Seq({})
    OBVIOUS
  <2> QED
    BY <2>1 DEF IsSequence
<1>3. Fit(<<>>, 0)
  BY <1>2 DEF Fit, Chain, Lower, Nested, VisitsAbove, OneDrain, Grounded
<1>4. Calls(<<>>) = {}
  BY <1>2 DEF Calls
<1>5. Freed.at = "freed" /\ \A f : Freed # OnStack(f)
  BY DEF Freed, OnStack
<1>6. ASSUME NEW o \in Finalized
      PROVE  Right(o, thread.where[o], thread.finalized[o], Calls(thread.host), thread.queue)
  <2>1. thread.where[o] = Freed /\ thread.finalized[o] = 1
    BY <1>1, CallFramesAssumption
  <2>2. Right(o, Freed, 1, {}, <<>>)
    BY <1>2, <1>5 DEF Right
  <2> QED
    BY <1>1, <1>4, <2>1, <2>2
<1> QED
  BY <1>1, <1>2, <1>3, <1>4, <1>6 DEF Good, Fits, Body, Once, Depth

\* Only C++ goes on when a request waits.
LEMMA WaitingOK ==
  ASSUME Above1(thread, "schedule"), Waiting(thread), Next
  PROVE  Good(thread')
<1>1. thread.host # <<>> /\ Item(thread).op = "schedule"
  <2>1. IsSequence(thread.host) => Item(thread) = thread.host[1]
    BY PopSequence DEF Above1, Item
  <2>2. Head(thread.host) = thread.host[1]
    BY DEF Above1
  <2> QED
    BY <2>2 DEF Above1, Item
<1>2. ~Active
  BY <1>1 DEF Active, Settled
<1>3. HostStep
  BY <1>2 DEF Next, Running, InC, Plain, CanCall, Fault, ReturnFromC, RunBehavior, Callback
<1>4. thread' = scheduleStep(thread, Item(thread))
  BY <1>1, <1>3 DEF HostStep, Do, hostStep
<1> QED
  BY <1>4, ScheduleOK

LEMMA GoodNext ==
  ASSUME Good(thread), Next, "overlap" \notin Cases, "raise_out_of_run" \notin Cases
  PROVE  Inv'
<1>1. ASSUME HostStep PROVE Good(thread')
  BY <1>1, HostStepOK DEF HostStep, Do
<1>2. ASSUME Fault PROVE Good(thread')
  BY <1>2, FaultOK
<1>3. ASSUME NEW typed \in BOOLEAN, ReturnFromC(typed) PROVE Good(thread')
  BY <1>3, ReturnFromCOK
<1>4. ASSUME NEW f \in Called, NEW closure \in {None} \cup {Ref(o) : o \in Objects},
             RunBehavior(f, closure)
      PROVE  Good(thread')
  BY <1>4, RunBehaviorOK
<1>5. ASSUME NEW f \in Called, Callback(f) PROVE Good(thread')
  BY <1>5, CallbackOK
<1> DEFINE Places == {Heap, InFrame(Depth(thread)), OnStack(Depth(thread))}
<1>6. ASSUME Running, NEW o \in Objects, NEW dst \in Locals, NEW place \in Places,
             New(o, place, dst)
      PROVE  Good(thread')
  BY <1>6, NewOK
<1>7. ASSUME NEW src \in Locals, NEW dst \in Locals,
             Copy(src, dst) \/ Move(src, dst) \/ RegisterRef(src, dst) \/ Load(src, dst)
      PROVE  Good(thread')
  BY <1>7, CopyOK, MoveInstructionOK, RegisterRefOK, LoadOK
<1>8. ASSUME Running, NEW ref \in Locals, NEW src \in Locals, NEW dst \in Locals,
             NEW is_move \in BOOLEAN, NEW typed \in BOOLEAN,
             Store(ref, src, dst, is_move, typed)
      PROVE  Good(thread')
  BY <1>8, StoreOK
<1>9. ASSUME NEW src \in Locals, Drop(src) \/ SetArg(src, TRUE) \/ SetArg(src, FALSE)
      PROVE  Good(thread')
  BY <1>9, DropOK, SetArgOK
<1>10. ASSUME NEW src \in Locals, NEW typed \in BOOLEAN, Return(src, typed)
       PROVE  Good(thread')
  BY <1>10, ReturnOK
<1>11. ASSUME NEW src \in Locals, NEW typed \in BOOLEAN, NEW target \in 1 .. Depth(thread),
              Raise(src, target, typed)
       PROVE  Good(thread')
  <2>1. target \in Int
    OBVIOUS
  <2> QED
    BY <1>11, <2>1, RaiseOK
<1>12. ASSUME NEW dst \in Locals, FFI(dst) PROVE Good(thread')
  BY <1>12, FFIOK
<1>13. ASSUME NEW f \in Called, NEW typed \in Types, Tailcall(f, typed) PROVE Good(thread')
  BY <1>13, TailcallOK
<1>14. ASSUME NEW f \in Called, NEW typed \in Types, NEW dst \in Locals,
              Call(f, dst, typed) \/ TryCall(f, dst, typed)
       PROVE  Good(thread')
  BY <1>14, CallOK, TryCallOK
<1>15. ASSUME NEW f \in Called, NEW typed \in Types, NEW dst \in Locals, When(f, dst, typed)
       PROVE  Inv'
  BY <1>15, WhenOK DEF Inv
<1>16. Good(thread') => Inv'
  BY DEF Inv
<1> DEFINE Host == HostStep \/ Fault
           Moves == \E src, dst \in Locals :
                      Copy(src, dst) \/ Move(src, dst) \/ RegisterRef(src, dst) \/ Load(src, dst)
           Ones == \E src \in Locals : Drop(src) \/ SetArg(src, TRUE) \/ SetArg(src, FALSE)
           Outside == \/ \E typed \in BOOLEAN : ReturnFromC(typed)
                      \/ \E f \in Called, closure \in {None} \cup {Ref(o) : o \in Objects} :
                           RunBehavior(f, closure)
                      \/ \E f \in Called : Callback(f)
           Data == \/ \E o \in Objects, dst \in Locals, place \in Places : New(o, place, dst)
                   \/ \E ref, src, dst \in Locals, is_move, typed \in BOOLEAN :
                        Store(ref, src, dst, is_move, typed)
           Ends == \E src \in Locals, typed \in BOOLEAN :
                     \/ Return(src, typed)
                     \/ \E target \in 1 .. Depth(thread) : Raise(src, target, typed)
           Calling == \/ \E dst \in Locals : FFI(dst)
                      \/ \E f \in Called, typed \in Types :
                           \/ Tailcall(f, typed)
                           \/ \E dst \in Locals : \/ Call(f, dst, typed) \/ TryCall(f, dst, typed)
                                                 \/ When(f, dst, typed)
<1>17. Host \/ Outside \/ (Running /\ (Data \/ Moves \/ Ones \/ Ends \/ Calling))
  BY Zenon DEF Next
<1> HIDE DEF Places
<1>18. CASE Host
  BY <1>1, <1>2, <1>16, <1>18, Zenon
<1>19. CASE Outside
  BY <1>3, <1>4, <1>5, <1>16, <1>19, Zenon
<1>20. CASE Running /\ Data
  BY <1>6, <1>8, <1>16, <1>20
<1>23. CASE Moves
  BY <1>7, <1>16, <1>23, Zenon
<1>24. CASE Ones
  BY <1>9, <1>16, <1>24, Zenon
<1>21. CASE Ends
  BY <1>10, <1>11, <1>16, <1>21, Zenon
<1>22. CASE Calling
  BY <1>12, <1>13, <1>14, <1>15, <1>16, <1>22, Zenon
<1> QED
  BY <1>17, <1>18, <1>19, <1>20, <1>21, <1>22, <1>23, <1>24, Zenon

LEMMA InvNext ==
  ASSUME "overlap" \notin Cases, "raise_out_of_run" \notin Cases
  PROVE  Inv /\ [Next]_vars => Inv'
<1> SUFFICES ASSUME Inv, [Next]_vars PROVE Inv'
  OBVIOUS
<1>1. CASE UNCHANGED vars
  BY <1>1 DEF vars, Inv, Good, Fits, Fit, Body, Once, Shape, Depth, Above1, Waiting
<1>2. CASE Next
  BY <1>2, GoodNext, WaitingOK DEF Inv
<1> QED
  BY <1>1, <1>2

LEMMA GoodOnce ==
  ASSUME NEW t, Once(t), NEW o \in Finalized
  PROVE  /\ t.finalized[o] \in {0, 1}
         /\ t.where[o] = Freed => t.finalized[o] = 1
<1>1. Right(o, t.where[o], t.finalized[o], Calls(t.host), t.queue)
  BY DEF Once
<1>2. Freed.at = "freed"
  BY DEF Freed
<1> QED
  BY <1>1, <1>2 DEF Right

LEMMA InvOnce == Inv => FinalizedOnce
<1> SUFFICES ASSUME Inv PROVE FinalizedOnce
  OBVIOUS
<1>1. CASE Good(thread)
  BY <1>1, GoodOnce DEF Good, Fits, FinalizedOnce
<1>2. CASE Above1(thread, "schedule") /\ Waiting(thread)
  <2>1. Once(Pop(thread))
    BY <1>2 DEF Waiting, Good, Fits
  <2>2. Alike(thread, Pop(thread))
    BY <1>2, PopFields DEF Waiting
  <2> QED
    BY <2>1, <2>2, GoodOnce DEF Alike, FinalizedOnce
<1> QED
  BY <1>1, <1>2 DEF Inv

\* The calls in progress, but for a request that is about to be made.
CallsFit ==
  Fit(IF Above1(thread, "schedule") THEN Tail(thread.host) ELSE thread.host, Depth(thread))

LEMMA InvFit == Inv => CallsFit
<1> SUFFICES ASSUME Inv PROVE CallsFit
  OBVIOUS
<1>1. CASE Good(thread)
  <2>1. ASSUME Above1(thread, "schedule") PROVE FALSE
    <3>1. Item(thread) = thread.host[1] /\ IsCall(Item(thread))
      BY <1>1, <2>1, TopFacts DEF Above1
    <3> QED
      BY <2>1, <3>1 DEF Above1, IsCall, Ops
  <2> QED
    BY <1>1, <2>1 DEF CallsFit, Good, Fits
<1>2. CASE Above1(thread, "schedule") /\ Waiting(thread)
  <2>1. Fit(Pop(thread).host, Depth(Pop(thread)))
    BY <1>2 DEF Waiting, Good, Fits
  <2>2. Pop(thread).host = Tail(thread.host) /\ Depth(Pop(thread)) = Depth(thread)
    BY <1>2, PopFields DEF Waiting
  <2> QED
    BY <1>2, <2>1, <2>2 DEF CallsFit
<1> QED
  BY <1>1, <1>2 DEF Inv

\* At any moment the calls of C++ in progress fit the frames there are: none
\* goes on without the frame it was made in, none below a run is about a younger
\* frame than the run was entered with, and the collector drains one list
\* (thread_run, popframe, the unwinding of an error, drain_work_list).
THEOREM CallsFitFrames ==
  ASSUME "overlap" \notin Cases, "raise_out_of_run" \notin Cases
  PROVE  Spec => []CallsFit
<1>1. Init => Inv
  BY InitGood DEF Inv
<1>2. Inv /\ [Next]_vars => Inv'
  BY InvNext
<1>3. Inv => CallsFit
  BY InvFit
<1> QED
  BY <1>1, <1>2, <1>3, PTL DEF Spec

\* A finalizer never runs twice, and has run when its object is freed
\* (Stack::visit_headers, Region::collect, drain_work_list).
THEOREM FinalizersRunOnce ==
  ASSUME "overlap" \notin Cases, "raise_out_of_run" \notin Cases
  PROVE  Spec => []FinalizedOnce
<1>1. Init => Inv
  BY InitGood DEF Inv
<1>2. Inv /\ [Next]_vars => Inv'
  BY InvNext
<1>3. Inv => FinalizedOnce
  BY InvOnce
<1> QED
  BY <1>1, <1>2, <1>3, PTL DEF Spec
================================================================================
