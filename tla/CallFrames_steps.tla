------------------------- MODULE CallFrames_steps -------------------------
(***************************************************************************)
(* The calls of C++ in progress, one by one, keep what the registers hold  *)
(* (CallFrames_registers): entering a run, an error on its way down, a     *)
(* teardown, a collection, a cleared register, a request of a behavior.    *)
(***************************************************************************)
EXTENDS CallFrames_registers

-------------------------------------------------------------------------------
(* The thread *)

\* The same but for the calls.
Alone(t, u) ==
  /\ u.frames = t.frames /\ u.locals = t.locals /\ u.args = t.args
  /\ u.where = t.where /\ u.in_collection = t.in_collection

\* The calls of u are x on those of t.
Onto(t, u, x) ==
  /\ Len(t.host) \in Nat /\ Len(u.host) = Len(t.host) + 1
  /\ Upward(u.host)[Len(t.host) + 1] = x
  /\ \A p \in 1 .. Len(t.host) : Upward(u.host)[p] = Upward(t.host)[p]

HasDrain(t) == \E p \in 1 .. Len(t.host) : Upward(t.host)[p].op = "drain"

Form(t) ==
  /\ Shape(t) /\ IsSequence(t.frames) /\ IsSequence(t.host)
  /\ HasDrain(t) => t.in_collection

LEMMA FormFacts ==
  ASSUME NEW t, Form(t)
  PROVE  /\ Depth(t) \in Nat /\ Len(t.frames) = Depth(t)
         /\ Len(t.host) \in Nat /\ (t.host = <<>> <=> Len(t.host) = 0)
<1>1. Depth(t) \in Nat /\ Len(t.frames) = Depth(t)
  <2>1. PICK S : t.frames \in Seq(S)
    BY DEF Form, IsSequence
  <2> QED
    BY <2>1 DEF Depth
<1>2. Len(t.host) \in Nat /\ (t.host = <<>> <=> Len(t.host) = 0)
  <2>1. PICK S : t.host \in Seq(S)
    BY DEF Form, IsSequence
  <2> QED
    BY <2>1
<1> QED
  BY <1>1, <1>2

LEMMA GoodForm ==
  ASSUME NEW t, Good(t)
  PROVE  Form(t)
<1>1. Shape(t) /\ IsSequence(t.frames) /\ IsSequence(t.host)
  BY DEF Good, Fits, Body, Fit
<1>2. ASSUME HasDrain(t) PROVE t.in_collection
  <2>1. PICK p \in 1 .. Len(t.host) : Upward(t.host)[p].op = "drain"
    BY <1>2 DEF HasDrain
  <2>2. Len(t.host) \in Nat
    BY <1>1, PushSequence
  <2>3. Upward(t.host)[p] = t.host[Len(t.host) + 1 - p] /\ Len(t.host) + 1 - p \in 1 .. Len(t.host)
    BY <2>2 DEF Upward
  <2>4. Upward(t.host)[p] \in Calls(t.host)
    BY <2>3 DEF Calls
  <2> QED
    BY <2>1, <2>4 DEF Good, Fits, Once
<1> QED
  BY <1>1, <1>2 DEF Form

LEMMA PushForm ==
  ASSUME NEW t, Form(t), NEW x, x.op = "drain" => t.in_collection
  PROVE  /\ Form(Push(t, <<x>>)) /\ Alone(t, Push(t, <<x>>)) /\ Onto(t, Push(t, <<x>>), x)
         /\ Push(t, <<x>>).broken = t.broken
<1> DEFINE u == Push(t, <<x>>)
<1>1. Shape(u) /\ Alike(t, u) /\ u.host = Over(x, t.host) /\ u.locals = t.locals /\ u.args = t.args
  BY PushFields DEF Form, Over
<1>2. u.broken = t.broken
  BY DEF Push, Form, Shape, Fields
<1> HIDE DEF u
<1>3. IsSequence(t.host)
  BY DEF Form
<1>4. Onto(t, u, x)
  BY <1>1, <1>3, UpwardOver DEF Onto
<1>5. Alone(t, u)
  BY <1>1 DEF Alone, Alike
<1>6. HasDrain(u) => u.in_collection
  <2> SUFFICES ASSUME HasDrain(u) PROVE t.in_collection
    BY <1>5 DEF Alone
  <2>1. PICK p \in 1 .. Len(t.host) + 1 : Upward(u.host)[p].op = "drain"
    BY <1>4 DEF HasDrain, Onto
  <2>2. CASE p = Len(t.host) + 1
    BY <1>4, <2>1, <2>2 DEF Onto
  <2>3. CASE p # Len(t.host) + 1
    <3>1. p \in 1 .. Len(t.host)
      BY <1>4, <2>3 DEF Onto
    <3>2. HasDrain(t)
      BY <1>4, <2>1, <3>1 DEF Onto, HasDrain
    <3> QED
      BY <3>2 DEF Form
  <2> QED
    BY <2>2, <2>3
<1>7. Form(u)
  BY <1>1, <1>3, <1>6, PushSequence DEF Form, Alike
<1> QED
  BY <1>2, <1>4, <1>5, <1>7 DEF u

LEMMA PopForm ==
  ASSUME NEW t, Form(t), t.host # <<>>
  PROVE  /\ Form(Pop(t)) /\ Alone(t, Pop(t)) /\ Onto(Pop(t), t, Item(t))
         /\ Item(t) = t.host[1] /\ Pop(t).broken = t.broken
<1> DEFINE u == Pop(t)
<1>1. /\ Shape(u) /\ Alike(t, u) /\ u.host = Tail(t.host) /\ u.locals = t.locals
      /\ u.args = t.args
  BY PopFields DEF Form
<1>2. u.broken = t.broken
  BY DEF Pop, Form, Shape, Fields
<1> HIDE DEF u
<1>3. IsSequence(t.host) /\ Item(t) = t.host[1] /\ IsSequence(Tail(t.host))
  BY PopSequence DEF Form, Item
<1>4. Onto(u, t, Item(t))
  <2>1. /\ Len(Tail(t.host)) \in Nat /\ Len(t.host) = Len(Tail(t.host)) + 1
        /\ Upward(t.host)[Len(t.host)] = t.host[1]
        /\ \A p \in 1 .. Len(Tail(t.host)) : Upward(t.host)[p] = Upward(Tail(t.host))[p]
    BY <1>3, UpwardTail
  <2> QED
    BY <1>1, <1>3, <2>1 DEF Onto
<1>5. Alone(t, u)
  BY <1>1 DEF Alone, Alike
<1>6. HasDrain(u) => HasDrain(t)
  BY <1>4 DEF HasDrain, Onto
<1>7. Form(u)
  BY <1>1, <1>3, <1>5, <1>6 DEF Form, Alone, Alike
<1> QED
  BY <1>2, <1>3, <1>4, <1>5, <1>7 DEF u

\* What the registers of a thread are is kept when these parts are the same.
LEMMA KeptSame ==
  ASSUME NEW t, NEW u, u.frames = t.frames, u.locals = t.locals, u.args = t.args, u.host = t.host
  PROVE  (Kept(t) => Kept(u)) /\ (Given(t) => Given(u))
BY DEF Kept, Given

ReadyNow(t)  == Ready(t.frames, t.locals, t.args, Upward(t.host), Len(t.host))
StrictNow(t) == Strict(t.frames, Upward(t.host), Len(t.host))

\* Perhaps the collector began to work.
Drained(t, r) ==
  /\ Form(r) /\ r.frames = t.frames /\ r.locals = t.locals /\ r.args = t.args
  /\ r.host = t.host \/ \E x : x.op = "drain" /\ Onto(t, r, x)

LEMMA CollectKept ==
  ASSUME NEW t, Form(t), Kept(t), t.in_collection \/ ReadyNow(t), NEW set
  PROVE  /\ Drained(t, collect(t, set)) /\ Kept(collect(t, set))
         /\ StrictNow(t) => StrictNow(collect(t, set))
         /\ t.in_collection => collect(t, set).host = t.host
<1> DEFINE q == [t EXCEPT !.queue = Append(@, set),
                          !.where = [o \in Objects |-> IF o \in set THEN Dying ELSE @[o]]]
           c == [q EXCEPT !.in_collection = TRUE]
           x == [op |-> "drain", frame |-> Depth(t), todo |-> {}, done |-> {}]
           r == collect(t, set)
           F == t.frames
           k == Upward(t.host)
           n == Len(t.host)
<1>1. /\ Shape(q) /\ q.frames = t.frames /\ q.locals = t.locals /\ q.args = t.args
      /\ q.host = t.host /\ q.in_collection = t.in_collection /\ Depth(q) = Depth(t)
      /\ Shape(c) /\ c.frames = t.frames /\ c.locals = t.locals /\ c.args = t.args
      /\ c.host = t.host /\ c.in_collection
  BY DEF Form, Shape, Fields, Depth
<1>2. r = IF t.in_collection THEN q ELSE Push(c, <<x>>)
  <2>1. q.in_collection = t.in_collection /\ Depth(q) = Depth(t)
    BY <1>1
  <2> QED
    BY <2>1 DEF collect
<1>3. x.op = "drain" /\ IsCall(x) /\ x.frame = Len(F)
  BY FormFacts DEF IsCall, Ops, FloorOps, RunOps
<1> HIDE DEF q, c, x, r
<1>4. Form(q) /\ Form(c)
  BY <1>1 DEF Form, HasDrain
<1>5. CASE t.in_collection
  <2>1. r = q
    BY <1>2, <1>5
  <2> QED
    BY <1>1, <1>4, <2>1, KeptSame DEF Drained, StrictNow, r
<1>6. CASE ~t.in_collection
  <2>1. r = Push(c, <<x>>)
    BY <1>2, <1>6
  <2>2. Form(r) /\ Alone(c, r) /\ Onto(c, r, x)
    BY <1>1, <1>4, <2>1, PushForm
  <2>3. Onto(t, r, x)
    BY <1>1, <2>2 DEF Onto
  <2>4. Sound(F, t.locals, t.args, k, n) /\ Ready(F, t.locals, t.args, k, n)
    BY <1>6 DEF Kept, ReadyNow
  <2>5. Fresh(F, k, n, x)
    <3>1. /\ Temporary(x) = None /\ x.op \notin RunOps \cup TornOps \cup {"unwind"}
          /\ After(x) = Len(F)
      BY <1>3 DEF Temporary, RunOps, TornOps, TeardownOps, After, FloorOps
    <3>2. Carries(F, x) /\ \A p \in 1 .. n : Passes(k, p, Temporary(x))
      BY <3>1 DEF Carries, Valid, Passes, IsVar, None
    <3>3. n = 0 => After(x) = 0
      BY <2>4, <3>1 DEF Sound, Bottom
    <3>4. \A q1 \in 1 .. n : BelowOther(x, k[q1])
      BY <1>3 DEF BelowOther
    <3>5. x.frame <= Len(F)
      BY <1>3, FormFacts
    <3> QED
      BY <1>3, <3>1, <3>2, <3>3, <3>4, <3>5 DEF Fresh
  <2>6. Sound(F, t.locals, t.args, Upward(r.host), n + 1) /\ Strict(F, Upward(r.host), n + 1)
    <3> DEFINE j == Upward(r.host)
    <3>1. (\A p \in 1 .. n : j[p] = k[p]) /\ j[n + 1] = x
      BY <2>3 DEF Onto
    <3> HIDE DEF j, F, k, n
    <3> QED
      BY <2>4, <2>5, <3>1, PushFresh DEF j
  <2>7. /\ r.frames = t.frames /\ r.locals = t.locals /\ r.args = t.args /\ Len(r.host) = n + 1
    BY <1>1, <2>2, <2>3 DEF Alone, Onto
  <2> QED
    BY <1>3, <1>6, <2>2, <2>3, <2>6, <2>7 DEF Drained, Kept, StrictNow, r
<1> QED
  BY <1>5, <1>6 DEF r

\* A reference is dropped.
LEMMA DecKept ==
  ASSUME NEW t, Form(t), Kept(t), NEW v, t.in_collection \/ ReadyNow(t) \/ v = None
  PROVE  /\ Drained(t, reg_dec(t, v)) /\ Kept(reg_dec(t, v))
         /\ StrictNow(t) => StrictNow(reg_dec(t, v))
         /\ t.in_collection \/ v = None => reg_dec(t, v).host = t.host
<1> DEFINE less == [t EXCEPT !.rc[v.of] = @ - 1]
           lost == [t EXCEPT !.broken = @ \cup {"use_after_free"}]
           r == reg_dec(t, v)
<1>1. /\ Shape(less) /\ less.frames = t.frames /\ less.locals = t.locals /\ less.args = t.args
      /\ less.host = t.host /\ less.in_collection = t.in_collection
      /\ Shape(lost) /\ lost.frames = t.frames /\ lost.locals = t.locals /\ lost.args = t.args
      /\ lost.host = t.host /\ lost.in_collection = t.in_collection
  BY DEF Form, Shape, Fields
<1>2. r \in {t, less, lost} \/ (v # None /\ r = collect(less, {v.of}))
  BY DEF reg_dec, Must, None
<1> HIDE DEF less, lost, r
<1>3. Form(less) /\ Form(lost)
  BY <1>1 DEF Form, HasDrain
<1>4. Drained(t, t) /\ Drained(t, less) /\ Drained(t, lost)
  BY <1>1, <1>3 DEF Drained
<1>5. Kept(less) /\ Kept(lost)
  BY <1>1, KeptSame
<1>6. CASE r \in {t, less, lost}
  BY <1>1, <1>4, <1>5, <1>6 DEF r, StrictNow
<1>7. CASE v # None /\ r = collect(less, {v.of})
  <2>1. less.in_collection \/ ReadyNow(less)
    BY <1>1, <1>7 DEF ReadyNow
  <2>2. /\ Drained(less, r) /\ Kept(r) /\ (StrictNow(less) => StrictNow(r))
        /\ less.in_collection => r.host = less.host
    BY <1>3, <1>5, <1>7, <2>1, CollectKept
  <2>3. Drained(t, r)
    BY <1>1, <2>2 DEF Drained, Onto
  <2> QED
    BY <1>1, <1>7, <2>2, <2>3 DEF r, StrictNow
<1> QED
  BY <1>2, <1>6, <1>7

\* No finalizer and no callback is about to run.
Calm(t) == \A p \in 1 .. Len(t.host) : Upward(t.host)[p].op \notin {"start", "callback"}

LEMMA CalmGiven ==
  ASSUME NEW t, Calm(t), t.args = 0
  PROVE  Given(t)
BY DEF Calm, Given, Args

LEMMA CalmOnto ==
  ASSUME NEW t, NEW u, NEW x, Calm(t), Onto(t, u, x), x.op \notin {"start", "callback"}
  PROVE  Calm(u)
<1>1. \A p \in 1 .. Len(u.host) : p = Len(t.host) + 1 \/ p \in 1 .. Len(t.host)
  BY DEF Onto
<1> QED
  BY <1>1 DEF Calm, Onto

LEMMA CalmDrained ==
  ASSUME NEW t, NEW r, Calm(t), Drained(t, r)
  PROVE  Calm(r)
<1>1. CASE r.host = t.host
  BY <1>1 DEF Calm
<1>2. CASE r.host # t.host
  <2>1. PICK x : x.op = "drain" /\ Onto(t, r, x)
    BY <1>2 DEF Drained
  <2> QED
    BY <2>1, CalmOnto
<1> QED
  BY <1>1, <1>2

LEMMA CalmBelow ==
  ASSUME NEW t, Form(t), Given(t), t.host # <<>>
  PROVE  Calm(Pop(t)) /\ (Item(t).op \notin {"start", "callback"} => Calm(t))
<1>1. Onto(Pop(t), t, Item(t))
  BY PopForm
<1>2. \A p \in 1 .. Len(t.host) : Upward(t.host)[p].op \in {"start", "callback"} => p = Len(t.host)
  BY DEF Given, Args
<1>3. Calm(Pop(t))
  BY <1>1, <1>2 DEF Calm, Onto
<1> QED
  BY <1>1, <1>3, CalmOnto

\* What may be written in the register i.
Writable(t, i, v) ==
  LET F == t.frames
      k == Upward(t.host)
      n == Len(t.host)
  IN \/ v = None
     \/ v = t.locals[i]
     \/ /\ Admits(F, t.args, k, n, i, v)
        /\ i < Lim(F) \/ Pending(F, t.args, i) \/ (i = 0 /\ Waits(F, k, n, 0))

Written(t, i, v) == [t EXCEPT !.locals[i] = v]

\* Of two threads: the same but for the registers.
SameBut(t, u) ==
  /\ u.frames = t.frames /\ u.args = t.args /\ u.host = t.host
  /\ u.in_collection = t.in_collection /\ u.where = t.where

LEMMA WriteKept ==
  ASSUME NEW t, Form(t), Kept(t), NEW i, NEW v, Writable(t, i, v)
  PROVE  /\ Form(Written(t, i, v)) /\ Kept(Written(t, i, v)) /\ SameBut(t, Written(t, i, v))
         /\ Written(t, i, v).locals = [t.locals EXCEPT ![i] = v]
<1> DEFINE u == Written(t, i, v)
           F == t.frames
           k == Upward(t.host)
           n == Len(t.host)
           M == [t.locals EXCEPT ![i] = v]
<1>1. /\ Shape(u) /\ u.frames = t.frames /\ u.args = t.args /\ u.host = t.host
      /\ u.in_collection = t.in_collection /\ u.where = t.where /\ u.locals = M
  BY DEF Form, Shape, Fields, Written
<1> HIDE DEF u
<1>2. Form(u)
  BY <1>1 DEF Form, HasDrain
<1>3. Sound(F, t.locals, t.args, k, n) /\ DOMAIN t.locals = 0 .. Slots - 1
  BY DEF Kept, Sound, OK, Held1
<1>4. DOMAIN M = 0 .. Slots - 1
      /\ \A j \in 0 .. Slots - 1 : M[j] = IF j = i THEN v ELSE t.locals[j]
  BY <1>3
<1>5. Sound(F, M, t.args, k, n)
  <2> HIDE DEF M, F, k, n
  <2>1. \A j \in 0 .. Slots - 1 :
          \/ M[j] = t.locals[j] \/ M[j] = None
          \/ /\ Admits(F, t.args, k, n, j, M[j])
             /\ j < Lim(F) \/ Pending(F, t.args, j) \/ (j = 0 /\ Waits(F, k, n, 0))
    BY <1>4 DEF Writable, F, k, n
  <2> QED
    BY <1>3, <1>4, <2>1, WriteSound
<1> HIDE DEF M
<1>6. Kept(u)
  BY <1>1, <1>5 DEF Kept
<1> QED
  BY <1>1, <1>2, <1>4, <1>6 DEF M, u, SameBut

LEMMA WrittenAt ==
  ASSUME NEW t, Kept(t), NEW i \in 0 .. Slots - 1, NEW v, NEW j \in 0 .. Slots - 1
  PROVE  [t.locals EXCEPT ![i] = v][j] = IF j = i THEN v ELSE t.locals[j]
BY DEF Kept, Sound, OK, Held1

\* What an assignment does: the thread is r then.
Assigned(t, i, v, r) ==
  /\ Form(r) /\ Kept(r) /\ r.frames = t.frames /\ r.args = t.args
  /\ t.args = 0 /\ Calm(t) => Calm(r) /\ Given(r)
  /\ t.in_collection \/ t.locals[i] = None => r.host = t.host
  /\ r.locals = [t.locals EXCEPT ![i] = v]
  /\ Drained(Written(t, i, v), r)

LEMMA AssignKept ==
  ASSUME NEW t, Form(t), Kept(t), NEW i, NEW v, Writable(t, i, v),
         t.in_collection \/ t.locals[i] = None \/ (StrictNow(t) /\ ~Above1(t, "ffi"))
  PROVE  Assigned(t, i, v, Assign(t, i, v))
<1> DEFINE u == Written(t, i, v)
           r == reg_dec(u, t.locals[i])
<1> HIDE DEF u, r
<1>1. /\ Form(u) /\ Kept(u) /\ u.frames = t.frames /\ u.args = t.args /\ u.host = t.host
      /\ u.in_collection = t.in_collection /\ u.locals = [t.locals EXCEPT ![i] = v]
  BY WriteKept DEF u, SameBut
<1>2. u.in_collection \/ ReadyNow(u) \/ t.locals[i] = None
  <2> SUFFICES ASSUME StrictNow(t), ~Above1(t, "ffi")
               PROVE  ReadyNow(u)
    BY <1>1
  <2>1. t.host # <<>> => Upward(t.host)[Len(t.host)] = t.host[1]
    BY UpwardTail DEF Form
  <2>2. Len(t.host) >= 1 => t.host # <<>>
    BY FormFacts
  <2> QED
    BY <1>1, <2>1, <2>2 DEF StrictNow, ReadyNow, Ready, Above1
<1>3. /\ Drained(u, r) /\ Kept(r)
      /\ u.in_collection \/ t.locals[i] = None => r.host = u.host
  BY <1>1, <1>2, DecKept DEF r
<1>4. /\ Form(r) /\ r.frames = t.frames /\ r.args = t.args
      /\ r.locals = [t.locals EXCEPT ![i] = v]
  BY <1>1, <1>3 DEF Drained
<1>5. ASSUME t.args = 0, Calm(t) PROVE Calm(r) /\ Given(r)
  <2>1. Calm(u)
    BY <1>1, <1>5 DEF Calm
  <2> QED
    BY <1>3, <1>4, <1>5, <2>1, CalmDrained, CalmGiven
<1>6. Assign(t, i, v) = r
  BY DEF Assign, r, u, Written
<1> QED
  BY <1>1, <1>3, <1>4, <1>5, <1>6 DEF u, Assigned

-------------------------------------------------------------------------------
(* The call on top *)

LEMMA TopKept ==
  ASSUME NEW t, Good(t), Kept(t), t.host # <<>>
  PROVE  /\ Form(t) /\ Form(Pop(t)) /\ Alone(t, Pop(t)) /\ Onto(Pop(t), t, Item(t))
         /\ Sound(t.frames, t.locals, t.args, Upward(t.host), Len(Pop(t).host) + 1)
         /\ Len(Pop(t).host) \in Nat /\ Len(t.host) = Len(Pop(t).host) + 1
         /\ Upward(t.host)[Len(Pop(t).host) + 1] = Item(t)
         /\ \A p \in 1 .. Len(Pop(t).host) : Upward(Pop(t).host)[p] = Upward(t.host)[p]
         /\ IsCall(Item(t)) /\ Level(Item(t), Depth(t)) /\ Under(Item(t), Pop(t).host)
         /\ Len(t.frames) = Depth(t) /\ Depth(t) \in Nat
         /\ Pop(t).host # <<>> =>
              /\ Len(Pop(t).host) >= 1 /\ Level(Pop(t).host[1], After(Item(t)))
              /\ Upward(t.host)[Len(Pop(t).host)] = Pop(t).host[1]
              /\ Upward(Pop(t).host)[Len(Pop(t).host)] = Pop(t).host[1]
         /\ Pop(t).host = <<>> <=> Len(Pop(t).host) = 0
<1> DEFINE u == Pop(t)
<1>1. Form(t) /\ Form(u) /\ Alone(t, u) /\ Onto(u, t, Item(t)) /\ Item(t) = t.host[1]
      /\ u.host = Tail(t.host)
  BY GoodForm, PopForm DEF Pop, Form, Shape, Fields
<1>2. Depth(t) \in Nat /\ Len(t.frames) = Depth(t)
      /\ Len(u.host) \in Nat /\ (u.host = <<>> <=> Len(u.host) = 0)
  BY <1>1, FormFacts
<1>3. /\ IsCall(Item(t)) /\ Level(Item(t), Depth(t)) /\ Under(Item(t), u.host)
      /\ u.host # <<>> => Level(u.host[1], After(Item(t)))
  <2>1. Fit(t.host, Depth(t)) /\ Depth(t) \in Int
    BY <1>2 DEF Good, Fits
  <2> QED
    BY <1>1, <2>1, FitUnder
<1>4. u.host # <<>> => Upward(u.host)[Len(u.host)] = u.host[1]
  BY <1>1, UpwardTail DEF Form
<1>5. Sound(t.frames, t.locals, t.args, Upward(t.host), Len(u.host) + 1)
  BY <1>1 DEF Kept, Onto
<1> HIDE DEF u
<1>6. u.host # <<>> => Len(u.host) >= 1 /\ Len(u.host) \in 1 .. Len(u.host)
  BY <1>2
<1> QED
  BY <1>1, <1>2, <1>3, <1>4, <1>5, <1>6 DEF Onto, u

LEMMA TopStrict ==
  ASSUME NEW t, Good(t), Kept(t), t.host # <<>>, Item(t).op \notin {"result", "unwind"},
         Item(t).op \in RunOps => Item(t).depth < Depth(t)
  PROVE  StrictNow(t) /\ StrictNow(Pop(t))
<1> DEFINE n == Len(Pop(t).host)
<1>1. /\ OK(t.frames, t.locals, t.args, Upward(t.host), n + 1) /\ n + 1 >= 1
      /\ Upward(t.host)[n + 1] = Item(t) /\ Len(t.frames) = Depth(t)
      /\ n \in Nat /\ Len(t.host) = n + 1
      /\ \A p \in 1 .. n : Upward(Pop(t).host)[p] = Upward(t.host)[p]
  BY TopKept DEF Sound
<1>2. Pop(t).frames = t.frames
  BY TopKept DEF Alone
<1> HIDE DEF n
<1>3. Strict(t.frames, Upward(t.host), n + 1)
  BY <1>1, StrictRuns
<1>4. Strict(t.frames, Upward(Pop(t).host), n)
  BY <1>1, <1>3 DEF Strict
<1> QED
  BY <1>1, <1>2, <1>3, <1>4 DEF StrictNow, n

LEMMA PopKept ==
  ASSUME NEW t, Good(t), Kept(t), t.host # <<>>, Item(t).op \notin {"clear", "run", "ffi"},
         After(Item(t)) = Depth(t) \/ Pop(t).host # <<>>
  PROVE  Kept(Pop(t))
<1> DEFINE n == Len(Pop(t).host)
           F == t.frames
           k == Upward(t.host)
           j == Upward(Pop(t).host)
<1>1. /\ Sound(F, t.locals, t.args, k, n + 1) /\ n \in Nat /\ k[n + 1] = Item(t)
      /\ Len(F) = Depth(t) /\ (\A p \in 1 .. n : j[p] = k[p])
      /\ Pop(t).host # <<>> => n >= 1
  BY TopKept
<1>2. Pop(t).frames = F /\ Pop(t).locals = t.locals /\ Pop(t).args = t.args
  BY TopKept DEF Alone
<1> HIDE DEF n, F, k, j
<1>3. ~Waits(F, k, n + 1, Len(F))
  BY <1>1 DEF Waits
<1>4. Sound(F, t.locals, t.args, j, n)
  BY <1>1, <1>3, PopSound
<1> QED
  BY <1>2, <1>4 DEF Kept, n, F, k, j

\* A tail call that takes the arguments is waiting.
Tailing(t) ==
  \E p \in 1 .. Len(t.host) :
    /\ Upward(t.host)[p].op = "tailcall"
    /\ \A q \in p + 1 .. Len(t.host) : Upward(t.host)[q].op \in TailOps

LEMMA TailingOnto ==
  ASSUME NEW t, NEW u, NEW x, Onto(t, u, x), x.op \in TailOps
  PROVE  Tailing(t) <=> Tailing(u)
<1> DEFINE n == Len(t.host)
           k == Upward(t.host)
           j == Upward(u.host)
<1>1. n \in Nat /\ Len(u.host) = n + 1 /\ j[n + 1] = x /\ (\A p \in 1 .. n : j[p] = k[p])
      /\ x.op # "tailcall"
  BY DEF Onto, TailOps
<1> HIDE DEF n, k, j
<1>2. ASSUME Tailing(t) PROVE Tailing(u)
  <2>1. PICK p \in 1 .. n : k[p].op = "tailcall" /\ \A q \in p + 1 .. n : k[q].op \in TailOps
    BY <1>2 DEF Tailing, n, k
  <2>2. \A q \in p + 1 .. n + 1 : q = n + 1 \/ (q \in p + 1 .. n /\ q \in 1 .. n)
    BY <1>1
  <2>3. p \in 1 .. n + 1 /\ j[p].op = "tailcall" /\ \A q \in p + 1 .. n + 1 : j[q].op \in TailOps
    BY <1>1, <2>1, <2>2
  <2> QED
    BY <1>1, <2>3 DEF Tailing, j
<1>3. ASSUME Tailing(u) PROVE Tailing(t)
  <2>1. PICK p \in 1 .. n + 1 :
          j[p].op = "tailcall" /\ \A q \in p + 1 .. n + 1 : j[q].op \in TailOps
    BY <1>1, <1>3 DEF Tailing, j
  <2>2. p \in 1 .. n
    BY <1>1, <2>1
  <2>3. \A q \in p + 1 .. n : q \in p + 1 .. n + 1 /\ q \in 1 .. n
    BY <1>1, <2>2
  <2> QED
    BY <1>1, <2>1, <2>2, <2>3 DEF Tailing, n, k
<1> QED
  BY <1>2, <1>3

LEMMA TailingDrained ==
  ASSUME NEW t, NEW r, Drained(t, r), Tailing(t)
  PROVE  Tailing(r)
<1>1. CASE r.host = t.host
  BY <1>1 DEF Tailing
<1>2. CASE r.host # t.host
  <2>1. PICK x : x.op = "drain" /\ Onto(t, r, x)
    BY <1>2 DEF Drained
  <2> QED
    BY <2>1, TailingOnto DEF TailOps
<1> QED
  BY <1>1, <1>2

LEMMA TailingGiven ==
  ASSUME NEW t, Len(t.host) \in Nat, Calm(t), t.args = 0 \/ Tailing(t)
  PROVE  Given(t)
<1>1. Tailing(t) => Len(t.host) >= 1
  BY DEF Tailing
<1> QED
  BY <1>1 DEF Calm, Tailing, Given, Args, Taking

LEMMA TailGiven ==
  ASSUME NEW t, Form(t), Given(t), t.host # <<>>, Item(t).op \in TailOps
  PROVE  Calm(t) /\ Calm(Pop(t)) /\ (t.args = 0 \/ Tailing(t))
<1>1. Calm(t) /\ Calm(Pop(t))
  BY CalmBelow DEF TailOps
<1>2. Upward(t.host)[Len(t.host)] = Item(t)
  BY PopForm DEF Onto
<1>3. t.args # 0 => Tailing(t)
  BY <1>2 DEF Given, Args, Taking, Tailing, TailOps
<1> QED
  BY <1>1, <1>3

LEMMA IdleArgs ==
  ASSUME NEW t, Form(t), Given(t), t.host # <<>>,
         Item(t).op \notin TailOps \cup {"drop_args", "start", "callback", "tailcall"},
         Item(t).op = "run" => ~(Item(t).depth < Depth(t))
  PROVE  t.args = 0 /\ Calm(t) /\ Calm(Pop(t))
<1>1. Upward(t.host)[Len(t.host)] = Item(t) /\ Len(t.host) \in Nat /\ Len(t.frames) = Depth(t)
  BY PopForm, FormFacts DEF Onto
<1>2. \A p \in 1 .. Len(t.host) : Upward(t.host)[p].op = "tailcall" =>
        p # Len(t.host) /\ Len(t.host) \in p + 1 .. Len(t.host)
  BY <1>1
<1>3. t.args = 0
  BY <1>1, <1>2 DEF Given, Args, Taking
<1> QED
  BY <1>3, CalmBelow

-------------------------------------------------------------------------------
(* Steps of a teardown and of the collector *)

LEMMA ClearKept ==
  ASSUME NEW t, Good(t), Kept(t), Given(t), t.host # <<>>, Item(t).op = "clear"
  PROVE  Kept(clearStep(t, Item(t))) /\ Given(clearStep(t, Item(t)))
<1> DEFINE x == Item(t)
           u == Pop(t)
           n == Len(u.host)
           full == Full(t, x.from, x.to)
           i == CHOOSE c \in full : \A e \in full : c <= e
           r == Assign(t, i, None)
           F == t.frames
           L == t.locals
           k == Upward(t.host)
           j == Upward(u.host)
<1>1. /\ Form(t) /\ Form(u) /\ Alone(t, u) /\ Onto(u, t, x) /\ Sound(F, L, t.args, k, n + 1)
      /\ n \in Nat /\ k[n + 1] = x /\ \A p \in 1 .. n : j[p] = k[p]
  BY TopKept
<1>2. x.op = "clear" /\ x.frame = Len(F)
  BY TopKept DEF Level, RunOps
<1>3. Calm(t) /\ Calm(u) /\ (t.args = 0 \/ Tailing(t))
  BY <1>1, TailGiven DEF TailOps
<1>4. StrictNow(t) /\ ~Above1(t, "ffi")
  <2>1. StrictNow(t)
    BY TopStrict DEF RunOps
  <2> QED
    BY <2>1, <1>1, PopForm DEF Above1
<1>5. clearStep(t, x) = IF full = {} THEN u ELSE r
  BY DEF clearStep
<1> HIDE DEF r, i, u
<1>6. CASE full = {}
  <2>1. \A c \in 0 .. Slots - 1 : x.from <= c /\ c <= x.to => L[c] = None
    <3>1. x.from \in Int /\ x.to \in Int /\ DOMAIN L = 0 .. Slots - 1
      <4>1. OK(F, L, t.args, k, n + 1) /\ n + 1 \in 1 .. n + 1
        BY <1>1 DEF Sound
      <4> QED
        BY <1>1, <1>2, <4>1 DEF OK, Called1, Placed, Held1
    <3>2. \A c \in x.from .. x.to : c \in DOMAIN t.locals => t.locals[c] = None
      BY <1>6 DEF Full
    <3> HIDE DEF x
    <3> QED
      BY <3>1, <3>2
  <2>2. Strict(F, k, n + 1)
    BY <1>1, <1>4 DEF StrictNow, Onto
  <2>3. Sound(F, L, t.args, j, n)
    <3> HIDE DEF F, L, k, j, n, x
    <3> QED
      BY <1>1, <1>2, <2>1, <2>2, PopClear
  <2>4. Kept(u)
    BY <1>1, <2>3 DEF Kept, Alone
  <2>5. u.args = 0 \/ Tailing(u)
    BY <1>1, <1>2, <1>3, TailingOnto DEF Alone, TailOps
  <2>6. Given(u)
    BY <1>1, <1>3, <2>5, TailingGiven
  <2> QED
    BY <1>5, <1>6, <2>4, <2>6
<1>7. CASE full # {}
  <2>1. Writable(t, i, None)
    BY DEF Writable
  <2>2. /\ Form(r) /\ Kept(r) /\ r.args = t.args /\ Drained(Written(t, i, None), r)
    <3>1. Form(t)
      BY <1>1
    <3>2. t.in_collection \/ t.locals[i] = None \/ (StrictNow(t) /\ ~Above1(t, "ffi"))
      BY <1>4
    <3>3. Assigned(t, i, None, Assign(t, i, None))
      BY <2>1, <3>1, <3>2, AssignKept, Zenon
    <3> QED
      BY <3>3 DEF r, Assigned
  <2>3. Written(t, i, None).host = t.host
    <3>1. Form(t)
      BY <1>1
    <3>2. SameBut(t, Written(t, i, None))
      BY <2>1, <3>1, WriteKept, Zenon
    <3> QED
      BY <3>2 DEF SameBut
  <2>4. Calm(Written(t, i, None)) /\ (Tailing(t) => Tailing(Written(t, i, None)))
    BY <1>3, <2>3 DEF Calm, Tailing
  <2>5. Calm(r) /\ (Tailing(t) => Tailing(r)) /\ Len(r.host) \in Nat
    BY <2>2, <2>4, CalmDrained, TailingDrained, FormFacts
  <2>6. Given(r)
    BY <1>3, <2>2, <2>5, TailingGiven
  <2> QED
    BY <1>5, <1>7, <2>2, <2>6
<1> QED
  BY <1>6, <1>7

LEMMA CollectStepKept ==
  ASSUME NEW t, Good(t), Kept(t), Given(t), t.host # <<>>, Item(t).op = "collect"
  PROVE  Kept(collectStep(t, Item(t))) /\ Given(collectStep(t, Item(t)))
<1> DEFINE u == Pop(t)
           set == {o \in Objects : t.where[o] = InFrame(Item(t).frame)}
           r == collect(u, set)
<1>1. Form(t) /\ Form(u) /\ Alone(t, u)
  BY TopKept
<1>2. After(Item(t)) = Depth(t) /\ Item(t).op \in HereOps
  BY TopKept DEF Level, RunOps, After, FloorOps, HereOps
<1>3. Kept(u)
  BY <1>2, PopKept
<1>4. StrictNow(u)
  BY TopStrict DEF RunOps
<1>5. u.host # <<>> /\ u.host[1].op = "restore"
  BY TopKept DEF Under, Needy, Above
<1>6. ReadyNow(u)
  <2>1. Upward(u.host)[Len(u.host)] = u.host[1]
    BY <1>5, TopKept
  <2> QED
    BY <1>4, <1>5, <2>1 DEF ReadyNow, Ready, StrictNow
<1>7. t.args = 0 /\ Calm(u)
  BY <1>1, IdleArgs DEF TailOps
<1> HIDE DEF u, r, set
<1>8. Drained(u, r) /\ Kept(r)
  BY <1>1, <1>3, <1>6, CollectKept DEF r
<1>9. Calm(r) /\ r.args = 0
  BY <1>1, <1>7, <1>8, CalmDrained DEF Drained, Alone
<1>10. Given(r)
  BY <1>9, CalmGiven
<1> QED
  BY <1>8, <1>10 DEF r, u, set, collectStep

LEMMA RestoreKept ==
  ASSUME NEW t, Good(t), Kept(t), Given(t), t.host # <<>>, Item(t).op = "restore"
  PROVE  Kept(restoreStep(t, Item(t))) /\ Given(restoreStep(t, Item(t)))
<1> DEFINE u == Pop(t)
           r == restoreStep(t, Item(t))
<1>1. Form(t) /\ Form(u) /\ Alone(t, u) /\ Onto(u, t, Item(t)) /\ Len(u.host) \in Nat
  BY TopKept
<1>2. After(Item(t)) = Depth(t)
  BY TopKept DEF Level, RunOps, After, FloorOps
<1>3. Kept(u)
  BY <1>2, PopKept
<1>4. Calm(u) /\ (u.args = 0 \/ Tailing(u))
  BY <1>1, TailGiven, TailingOnto DEF Alone, TailOps
<1>5. Given(u)
  BY <1>1, <1>4, TailingGiven
<1>6. r.frames = u.frames /\ r.locals = u.locals /\ r.args = u.args /\ r.host = u.host
  BY <1>1 DEF restoreStep, Form, Shape, Fields
<1> QED
  BY <1>3, <1>5, <1>6, KeptSame

LEMMA ArgIs ==
  ASSUME NEW t, Form(t), Layout(t.frames), NEW i \in Int
  PROVE  arg(t, i) = Lim(t.frames) + i
<1>1. Len(t.frames) = Depth(t) /\ Depth(t) \in Nat
  BY FormFacts
<1>2. CASE Depth(t) = 0
  <2>1. Lim(t.frames) = 0
    BY <1>1, <1>2 DEF Lim, End
  <2> QED
    BY <1>2, <2>1 DEF arg
<1>3. CASE Depth(t) # 0
  <2>1. Lim(t.frames) = Top(t).base + Registers[Top(t).func]
    BY <1>1, <1>3 DEF Lim, End, Top
  <2> QED
    BY <1>3, <2>1 DEF arg
<1> QED
  BY <1>2, <1>3

\* Every assert that failed is remembered.
LEMMA DecBroken ==
  ASSUME NEW t, Shape(t), NEW v
  PROVE  t.broken \subseteq reg_dec(t, v).broken
<1> DEFINE less == [t EXCEPT !.rc[v.of] = @ - 1]
           lost == [t EXCEPT !.broken = @ \cup {"use_after_free"}]
           r == reg_dec(t, v)
<1>1. Shape(less) /\ less.broken = t.broken /\ t.broken \subseteq lost.broken
  BY DEF Shape, Fields
<1>2. r \in {t, less, lost} \/ r = collect(less, {v.of})
  BY DEF reg_dec, Must
<1> HIDE DEF less, lost, r
<1>3. collect(less, {v.of}).broken = less.broken
  BY <1>1 DEF collect, Push, Shape, Fields
<1> QED
  BY <1>1, <1>2, <1>3 DEF r

\* There is room for every function.
Fitting(F) == \A f \in Functions : Lim(F) + Registers[f] <= Slots

\* A value that is no reference to a variable may be an argument.
LEMMA ArgWritable ==
  ASSUME NEW t, Form(t), Kept(t), NEW i, Pending(t.frames, t.args, i), i \in Int,
         NEW v, ~IsVar(v)
  PROVE  Writable(t, i, v)
<1> DEFINE F == t.frames
           k == Upward(t.host)
           n == Len(t.host)
           a == t.args
<1>1. OK(F, t.locals, a, k, n) /\ Layout(F) /\ n \in Nat
  BY DEF Kept, Sound, OK
<1>2. Holds(F, i, v) /\ \A p \in 1 .. n : Passes(k, p, v)
  BY DEF Holds, Valid, Passes
<1>3. /\ Lim(F) \in Nat /\ \A d \in 1 .. Len(F) : End(F, d) <= Lim(F) /\ End(F, d) \in Nat
      /\ \A d \in 1 .. Len(F) : F[d].base < End(F, d) /\ F[d].base \in Nat /\ d \in 0 .. Len(F)
  <2>1. \A d \in 1 .. Len(F) : d \in 0 .. Len(F)
    BY <1>1, Ends
  <2>2. /\ Lim(F) \in Nat /\ \A d \in 0 .. Len(F) : End(F, d) \in Nat /\ End(F, d) <= Lim(F)
        /\ \A d \in 1 .. Len(F) : F[d].base \in Nat /\ F[d].base < End(F, d)
    BY <1>1, Ends
  <2> HIDE DEF F
  <2> QED
    BY <2>1, <2>2
<1>4. Lim(F) <= i
  BY DEF Pending
<1> HIDE DEF F, k, n, a
<1>5. \A d \in 1 .. Len(F) : ~(i < End(F, d)) /\ i # F[d].base
  BY <1>3, <1>4
<1>6. ASSUME NEW p \in 1 .. n
      PROVE  /\ Torn(k, n, p) => k[p].frame \in 1 .. Len(F)
             /\ k[p].op = "run" /\ k[p].depth >= 1 => k[p].depth \in 1 .. Len(F)
  <2>1. Placed(F, k, n, p) /\ Len(F) \in Nat
    BY <1>1 DEF OK, Called1, Layout
  <2> QED
    BY <2>1 DEF Placed, Torn, IsCall, RunOps, TornOps, TeardownOps, FloorOps
<1>7. Admits(F, a, k, n, i, v)
  BY <1>2, <1>5, <1>6 DEF Admits
<1> QED
  BY <1>7 DEF Writable, F, k, n, a

\* A finalizer is about to run, above a visit or the collector.
LEMMA FinalizeKept ==
  ASSUME NEW t, Form(t), Kept(t), StrictNow(t), Fitting(t.frames), t.host # <<>>,
         Upward(t.host)[Len(t.host)].op \in {"visit", "drain"},
         Upward(t.host)[Len(t.host)].op = "drain" =>
           Upward(t.host)[Len(t.host)].frame = Len(t.frames),
         NEW o
  PROVE  /\ Kept(run_finalizer(t, o))
         /\ Calm(t) /\ run_finalizer(t, o).broken = {} => Given(run_finalizer(t, o))
<1> DEFINE F == t.frames
           L == t.locals
           a == t.args
           k == Upward(t.host)
           n == Len(t.host)
           m == Must(t, t.args = 0, "args_pending")
           x == [op |-> "start", frame |-> Depth(t), func |-> "fin", why |-> "cleanup"]
           q == Push(m, <<x>>)
           b == [q EXCEPT !.args = @ + 1, !.finalized[o] = @ + 1]
           i == arg(t, t.args)
           r == Assign(b, i, Self(o))
           j == Upward(q.host)
<1>1. /\ n \in Nat /\ n >= 1 /\ Len(F) = Depth(t) /\ Depth(t) \in Nat
      /\ Sound(F, L, a, k, n) /\ OK(F, L, a, k, n) /\ Occupied(F, L, a, k, n) /\ Layout(F)
      /\ a \in Nat /\ DOMAIN L = 0 .. Slots - 1 /\ Lim(F) \in Nat
  <2>1. /\ Sound(F, L, a, k, n) /\ OK(F, L, a, k, n) /\ Occupied(F, L, a, k, n) /\ Layout(F)
        /\ a \in Nat /\ DOMAIN L = 0 .. Slots - 1
    BY DEF Kept, Sound, OK, Held1
  <2>2. Lim(F) \in Nat
    BY <2>1, Ends
  <2> QED
    BY <2>1, <2>2, FormFacts
<1>2. /\ Form(m) /\ m.frames = F /\ m.locals = L /\ m.args = a /\ m.host = t.host
      /\ m.in_collection = t.in_collection
      /\ t.args # 0 => m.broken # {}
  <2>1. /\ Shape(m) /\ m.frames = F /\ m.locals = L /\ m.args = a /\ m.host = t.host
        /\ m.in_collection = t.in_collection
        /\ t.args # 0 => m.broken # {}
    BY DEF Must, Form, Shape, Fields
  <2> HIDE DEF m
  <2> QED
    BY <2>1 DEF Form, HasDrain
<1>3. /\ x.op = "start" /\ x.func = "fin" /\ IsCall(x) /\ Temporary(x) = None
  BY <1>1 DEF IsCall, Ops, FloorOps, RunOps, Temporary
<1> HIDE DEF x, m
<1>4. Form(q) /\ Alone(m, q) /\ Onto(m, q, x) /\ q.broken = m.broken
  BY <1>2, <1>3, PushForm
<1>5. /\ q.frames = F /\ q.locals = L /\ q.args = a /\ q.in_collection = t.in_collection
      /\ Len(q.host) = n + 1 /\ j[n + 1] = x /\ \A p \in 1 .. n : j[p] = k[p]
  BY <1>2, <1>4 DEF Alone, Onto
<1>6. /\ b.frames = F /\ b.locals = L /\ b.args = a + 1 /\ b.host = q.host /\ Shape(b)
      /\ b.in_collection = q.in_collection /\ b.broken = q.broken
  BY <1>4, <1>5 DEF Form, Shape, Fields
<1>7. i = Lim(F) + a
  BY <1>1, ArgIs
<1>8. run_finalizer(t, o) = r
  BY DEF run_finalizer, m, x
<1> HIDE DEF q, b, i, r
<1>9. Sound(F, L, a, j, n + 1) /\ Strict(F, j, n + 1)
  <2>1. Fresh(F, k, n, x)
    <3>1. Carries(F, x) /\ \A p \in 1 .. n : Passes(k, p, Temporary(x))
      BY <1>3 DEF Carries, Valid, Passes, IsVar, None
    <3>2. \A p \in 1 .. n : BelowOther(x, k[p])
      BY <1>3 DEF BelowOther
    <3> QED
      BY <1>1, <1>3, <3>1, <3>2 DEF Fresh, RunOps, TornOps, TeardownOps
  <2>2. Ready(F, L, a, k, n)
    BY DEF Ready, StrictNow
  <2> HIDE DEF F, L, a, k, n, j
  <2> QED
    BY <1>1, <1>5, <2>1, <2>2, PushFresh
<1>10. Form(b) /\ Kept(b) /\ StrictNow(b)
  <2>1. Form(b)
    BY <1>4, <1>6 DEF Form, HasDrain
  <2>2. Sound(F, L, a + 1, j, n + 1)
    <3> HIDE DEF F, L, a, k, n, j
    <3>1. a + 1 \in Nat /\ a <= a + 1
      BY <1>1
    <3> QED
      BY <1>9, <3>1, ArgsUp
  <2> QED
    BY <1>5, <1>6, <1>9, <2>1, <2>2 DEF Kept, StrictNow
<1>11. Writable(b, i, Self(o))
  <2>1. ~IsVar(Self(o))
    BY DEF IsVar, Self
  <2>2. Pending(b.frames, b.args, i) /\ i \in Int
    BY <1>1, <1>6, <1>7 DEF Pending
  <2> QED
    BY <1>10, <2>1, <2>2, ArgWritable
<1>12. Assigned(b, i, Self(o), r)
  <2>1. ~Above1(b, "ffi")
    <3>1. b.host # <<>> => Upward(b.host)[Len(b.host)] = b.host[1]
      BY <1>10, UpwardTail DEF Form
    <3> QED
      BY <1>3, <1>5, <1>6, <3>1 DEF Above1
  <2> QED
    BY <1>10, <1>11, <2>1, AssignKept DEF r
<1>13. Kept(r)
  BY <1>12 DEF Assigned
<1>14. ASSUME Calm(t), r.broken = {} PROVE Given(r)
  <2>1. a = 0
    <3>1. Written(b, i, Self(o)).broken = b.broken /\ Shape(Written(b, i, Self(o)))
      BY <1>6 DEF Written, Shape, Fields
    <3>2. r = reg_dec(Written(b, i, Self(o)), b.locals[i])
      BY DEF r, Assign, Written
    <3>3. b.broken \subseteq r.broken
      BY <3>1, <3>2, DecBroken
    <3> QED
      BY <1>2, <1>4, <1>6, <1>14, <3>3
  <2>2. i = Lim(F) /\ i \in 0 .. Slots - 1
    <3>1. Lim(F) + Registers["fin"] <= Slots /\ Registers["fin"] \in Nat \ {0} /\ Slots \in Nat
      BY CallFramesAssumption DEF Fitting
    <3> HIDE DEF F
    <3> QED
      BY <1>1, <1>7, <2>1, <3>1
  <2>3. L[i] # None => t.in_collection
    <3> SUFFICES ASSUME L[i] # None PROVE HasDrain(t)
      BY DEF Form
    <3>1. Sheltered(F, L, a, k, n)
      <4>1. ~Waits(F, k, n, 0)
        BY DEF Waits
      <4> HIDE DEF F, L, a, k, n
      <4> QED
        BY <1>1, <4>1, ShelteredTop DEF F, L, k, n, TornOps, TeardownOps
    <3>2. ~Pending(F, a, i)
      BY <1>1, <2>1, <2>2 DEF Pending
    <3>3. PICK p \in 1 .. n : \E c \in p + 1 .. n : k[c].op = "drain"
      BY <1>1, <2>2, <3>1, <3>2 DEF Sheltered
    <3> QED
      BY <1>1, <3>3 DEF HasDrain
  <2>4. r.host = q.host /\ r.frames = F /\ r.args = 1 /\ r.locals = [L EXCEPT ![i] = Self(o)]
    BY <1>5, <1>6, <1>12, <2>1, <2>3 DEF Assigned
  <2>5. \A c \in 0 .. Slots - 1 : Pending(F, 1, c) => ~IsVar(r.locals[c])
    <3>1. \A c \in 0 .. Slots - 1 : Pending(F, 1, c) => c = i
      BY <1>1, <2>2 DEF Pending
    <3>2. r.locals[i] = Self(o)
      BY <1>1, <2>2, <2>4
    <3> QED
      BY <3>1, <3>2 DEF IsVar, Self
  <2>6. \A p \in 1 .. n + 1 : j[p].op \in {"start", "callback"} => p = n + 1
    <3>1. \A p \in 1 .. n + 1 : p = n + 1 \/ p \in 1 .. n
      BY <1>1
    <3> QED
      BY <1>5, <1>14, <3>1 DEF Calm
  <2>7. Args(F, r.locals, 1, j, n + 1)
    <3> HIDE DEF F, L, a, k, n, j
    <3> QED
      BY <1>1, <1>3, <1>5, <2>5, <2>6 DEF Args, Taking
  <2> QED
    BY <1>5, <2>4, <2>7 DEF Given
<1> QED
  BY <1>8, <1>13, <1>14

\* A visit or a collection goes on with y: u is the thread without its top call.
Without(t, u) ==
  /\ Form(u) /\ u.frames = t.frames /\ u.locals = t.locals /\ u.args = t.args
  /\ u.in_collection = t.in_collection /\ u.host = Tail(t.host)

LEMMA SwapKept ==
  ASSUME NEW t, Good(t), Kept(t), Given(t), t.host # <<>>,
         Item(t).op \in {"visit", "drain"}, NEW y, IsCall(y), y.op = Item(t).op,
         y.frame = Item(t).frame, NEW u, Without(t, u)
  PROVE  LET v == Push(u, <<y>>)
         IN  /\ Form(v) /\ Kept(v) /\ StrictNow(v) /\ Calm(v) /\ Given(v)
             /\ v.frames = t.frames /\ v.host # <<>> /\ Upward(v.host)[Len(v.host)] = y
             /\ y.op = "drain" => y.frame = Len(v.frames)
<1> DEFINE v == Push(u, <<y>>)
           F == t.frames
           L == t.locals
           a == t.args
           k == Upward(t.host)
           j == Upward(v.host)
           n == Len(Pop(t).host)
<1>1. /\ Form(t) /\ Form(Pop(t)) /\ Alone(t, Pop(t)) /\ Onto(Pop(t), t, Item(t))
      /\ Sound(F, L, a, k, n + 1) /\ n \in Nat /\ k[n + 1] = Item(t)
      /\ (\A p \in 1 .. n : Upward(Pop(t).host)[p] = k[p]) /\ Level(Item(t), Depth(t))
      /\ Len(F) = Depth(t) /\ Pop(t).host = Tail(t.host)
  BY TopKept, PopFields DEF Form
<1>2. t.in_collection \/ y.op # "drain"
  <2> SUFFICES ASSUME y.op = "drain" PROVE HasDrain(t)
    BY <1>1 DEF Form
  <2>1. n + 1 \in 1 .. Len(t.host)
    BY <1>1 DEF Onto
  <2> QED
    BY <1>1, <2>1 DEF HasDrain
<1>3. Form(v) /\ Alone(u, v) /\ Onto(u, v, y)
  BY <1>2, PushForm DEF Without
<1> HIDE DEF v
<1>4. /\ v.frames = F /\ v.locals = L /\ v.args = a /\ Len(v.host) = n + 1 /\ u.host = Pop(t).host
      /\ j[n + 1] = y /\ \A p \in 1 .. n : j[p] = k[p]
  BY <1>1, <1>3 DEF Alone, Onto, Without
<1>5. Kept(v)
  <2>1. Sound(F, L, a, j, n + 1)
    <3>1. n + 1 \in Nat /\ n + 1 >= 1 /\ (n + 1) - 1 = n
      BY <1>1
    <3> HIDE DEF F, L, a, k, j, n
    <3> QED
      BY <1>1, <1>4, <3>1, SwapTop
  <2> QED
    BY <1>4, <2>1 DEF Kept
<1>6. StrictNow(v)
  <2>1. StrictNow(t)
    BY TopStrict DEF RunOps
  <2>2. \A p \in 1 .. n + 1 : p = n + 1 \/ p \in 1 .. n
    BY <1>1
  <2>3. Strict(F, k, n + 1)
    BY <1>1, <2>1 DEF StrictNow, Onto
  <2>4. Strict(F, j, n + 1)
    BY <1>1, <1>4, <2>2, <2>3 DEF Strict, RunOps
  <2> QED
    BY <1>4, <2>4 DEF StrictNow
<1>7. y.op = "drain" => y.frame = Len(F)
  BY <1>1 DEF Level, RunOps
<1>8. Calm(v) /\ (v.args = 0 \/ Tailing(v))
  <2>1. Calm(Pop(t)) /\ (t.args = 0 \/ Tailing(t))
    BY <1>1, TailGiven DEF TailOps
  <2>2. Onto(Pop(t), v, y)
    BY <1>3, <1>4 DEF Onto
  <2>3. Calm(v)
    BY <2>1, <2>2, CalmOnto
  <2>4. Tailing(t) => Tailing(v)
    <3>1. Tailing(t) => Tailing(Pop(t))
      BY <1>1, TailingOnto DEF TailOps
    <3>2. Tailing(Pop(t)) => Tailing(v)
      BY <2>2, TailingOnto DEF TailOps
    <3> QED
      BY <3>1, <3>2
  <2> QED
    BY <1>4, <2>1, <2>3, <2>4
<1>9. Given(v)
  BY <1>1, <1>4, <1>8, TailingGiven
<1>10. v.host # <<>>
  BY <1>1, <1>3, <1>4, FormFacts
<1>11. /\ v.frames = t.frames /\ Upward(v.host)[Len(v.host)] = y
       /\ y.op = "drain" => y.frame = Len(v.frames)
  BY <1>4, <1>7
<1> QED
  BY <1>3, <1>5, <1>6, <1>8, <1>9, <1>10, <1>11 DEF v

LEMMA WithoutTop ==
  ASSUME NEW t, Good(t), Kept(t), t.host # <<>>
  PROVE  Without(t, Pop(t))
BY TopKept, PopFields DEF Without, Alone, Form

\* Perhaps a finalizer is to run then.
LEMMA TakeKept ==
  ASSUME NEW t, Good(t), Kept(t), Given(t), t.host # <<>>, Fitting(t.frames),
         Item(t).op \in {"visit", "drain"}, NEW y, IsCall(y), y.op = Item(t).op,
         y.frame = Item(t).frame, NEW o
  PROVE  /\ Kept(finalize(Push(Pop(t), <<y>>), o))
         /\ finalize(Push(Pop(t), <<y>>), o).broken = {} =>
              Given(finalize(Push(Pop(t), <<y>>), o))
<1> DEFINE v == Push(Pop(t), <<y>>)
<1>1. /\ Form(v) /\ Kept(v) /\ StrictNow(v) /\ Calm(v) /\ Given(v)
      /\ v.frames = t.frames /\ v.host # <<>> /\ Upward(v.host)[Len(v.host)] = y
      /\ y.op = "drain" => y.frame = Len(v.frames)
  BY SwapKept, WithoutTop
<1> HIDE DEF v
<1>2. CASE o \notin Finalized
  BY <1>1, <1>2 DEF finalize, v
<1>3. CASE o \in Finalized
  <2>1. /\ Kept(run_finalizer(v, o))
        /\ Calm(v) /\ run_finalizer(v, o).broken = {} => Given(run_finalizer(v, o))
    BY <1>1, FinalizeKept
  <2> QED
    BY <1>1, <1>3, <2>1 DEF finalize, v
<1> QED
  BY <1>2, <1>3

LEMMA VisitKept ==
  ASSUME NEW t, Good(t), Kept(t), Given(t), t.host # <<>>, Fitting(t.frames),
         Item(t).op = "visit"
  PROVE  /\ Kept(visitStep(t, Item(t)))
         /\ visitStep(t, Item(t)).broken = {} => Given(visitStep(t, Item(t)))
<1> DEFINE x == Item(t)
           left == {o \in Objects : t.where[o] = OnStack(x.frame)} \ x.seen
           o == CHOOSE e \in left : TRUE
           y == [x EXCEPT !.seen = @ \cup {o}]
           r == finalize(Push(Pop(t), <<y>>), o)
<1>1. Form(t) /\ Form(Pop(t)) /\ Alone(t, Pop(t)) /\ IsCall(x) /\ Level(x, Depth(t))
      /\ Onto(Pop(t), t, x) /\ Len(Pop(t).host) \in Nat
  BY TopKept
<1>2. CASE left = {}
  <2>1. visitStep(t, x) = Pop(t)
    BY <1>2 DEF visitStep
  <2>2. Kept(Pop(t))
    BY <1>1, PopKept DEF After, Level, FloorOps, RunOps
  <2>3. Calm(Pop(t)) /\ (Pop(t).args = 0 \/ Tailing(Pop(t)))
    BY <1>1, TailGiven, TailingOnto DEF TailOps, Alone
  <2>4. Given(Pop(t))
    BY <1>1, <2>3, TailingGiven
  <2> QED
    BY <2>1, <2>2, <2>4
<1>3. CASE left # {}
  <2>1. visitStep(t, x) = r
    BY <1>3 DEF visitStep
  <2>2. IsCall(y) /\ y.op = x.op /\ y.frame = x.frame
    BY <1>1 DEF IsCall, FloorOps, RunOps
  <2> HIDE DEF y, o
  <2>3. Kept(r) /\ (r.broken = {} => Given(r))
    BY <2>2, TakeKept
  <2> QED
    BY <2>1, <2>3
<1> QED
  BY <1>2, <1>3

LEMMA DrainKept ==
  ASSUME NEW t, Good(t), Kept(t), Given(t), t.host # <<>>, Fitting(t.frames),
         Item(t).op = "drain"
  PROVE  /\ Kept(drainStep(t, Item(t)))
         /\ drainStep(t, Item(t)).broken = {} => Given(drainStep(t, Item(t)))
<1> DEFINE x == Item(t)
           o == CHOOSE e \in x.todo : TRUE
           y == [x EXCEPT !.todo = @ \ {o}, !.done = @ \cup {o}]
           z == [x EXCEPT !.todo = Head(t.queue)]
           q == [Pop(t) EXCEPT !.queue = Tail(@)]
           e == [Pop(t) EXCEPT !.in_collection = FALSE,
                      !.where = [p \in Objects |-> IF p \in x.done THEN Freed ELSE @[p]]]
<1>1. Form(t) /\ Form(Pop(t)) /\ Alone(t, Pop(t)) /\ IsCall(x) /\ Level(x, Depth(t))
      /\ Onto(Pop(t), t, x) /\ Len(Pop(t).host) \in Nat
  BY TopKept
<1>2. CASE x.todo # {}
  <2>1. drainStep(t, x) = finalize(Push(Pop(t), <<y>>), o)
    BY <1>2 DEF drainStep
  <2>2. IsCall(y) /\ y.op = x.op /\ y.frame = x.frame
    BY <1>1 DEF IsCall, FloorOps, RunOps
  <2> HIDE DEF y, o
  <2>3. /\ Kept(finalize(Push(Pop(t), <<y>>), o))
        /\ finalize(Push(Pop(t), <<y>>), o).broken = {} =>
             Given(finalize(Push(Pop(t), <<y>>), o))
    BY <2>2, TakeKept
  <2> QED
    BY <2>1, <2>3
<1>3. CASE x.todo = {} /\ t.queue # <<>>
  <2>1. drainStep(t, x) = Push(q, <<z>>)
    BY <1>3 DEF drainStep
  <2>2. IsCall(z) /\ z.op = x.op /\ z.frame = x.frame
    BY <1>1 DEF IsCall, FloorOps, RunOps
  <2>3. Without(t, q)
    <3>1. Without(t, Pop(t))
      BY WithoutTop
    <3>2. /\ Shape(q) /\ q.frames = Pop(t).frames /\ q.locals = Pop(t).locals
          /\ q.args = Pop(t).args /\ q.host = Pop(t).host
          /\ q.in_collection = Pop(t).in_collection
      BY <3>1 DEF Without, Form, Shape, Fields
    <3> HIDE DEF q
    <3> QED
      BY <3>1, <3>2 DEF Without, Form, HasDrain
  <2> HIDE DEF q, z, x
  <2>4. Kept(Push(q, <<z>>)) /\ Given(Push(q, <<z>>))
    BY <2>2, <2>3, SwapKept DEF x
  <2> QED
    BY <2>1, <2>4 DEF x
<1>4. CASE x.todo = {} /\ t.queue = <<>>
  <2>1. drainStep(t, x) = e
    BY <1>4 DEF drainStep
  <2>2. Kept(Pop(t))
    BY <1>1, PopKept DEF After, Level, FloorOps, RunOps
  <2>3. Calm(Pop(t)) /\ (Pop(t).args = 0 \/ Tailing(Pop(t)))
    BY <1>1, TailGiven, TailingOnto DEF TailOps, Alone
  <2>4. Given(Pop(t))
    BY <1>1, <2>3, TailingGiven
  <2>5. e.frames = Pop(t).frames /\ e.locals = Pop(t).locals /\ e.args = Pop(t).args
        /\ e.host = Pop(t).host
    BY <1>1 DEF Form, Shape, Fields
  <2> HIDE DEF e
  <2> QED
    BY <2>1, <2>2, <2>4, <2>5, KeptSame
<1> QED
  BY <1>2, <1>3, <1>4

-------------------------------------------------------------------------------
(* Errors *)

RunsNow(t) == Runs(t.frames, Upward(t.host), Len(t.host))

\* The calls of an error that is caught by the run x.
Catching(t, x, g) ==
  Over([op |-> "drop_args", frame |-> Depth(t)],
       Over([op |-> "unwind", depth |-> x.depth], Over([x EXCEPT !.op = "rethrow"], g)))

LEMMA CaughtHost ==
  ASSUME NEW t, Form(t), t.host # <<>>, t.host[1].op = "run"
  PROVE  Caught(t) = [t EXCEPT !.host = Catching(t, t.host[1], Tail(t.host))]
<1> DEFINE h == t.host
           x == h[1]
           a == [op |-> "drop_args", frame |-> Depth(t)]
           b == [op |-> "unwind", depth |-> x.depth]
           c == [x EXCEPT !.op = "rethrow"]
           g == Tail(h)
<1>1. PICK S : h \in Seq(S)
  BY DEF Form, IsSequence
<1>2. Len(h) \in Nat /\ Len(h) >= 1 /\ IsSequence(g) /\ 1 \in 1 .. Len(h)
  BY PopSequence DEF Form
<1>3. (CHOOSE at \in 1 .. Len(h) : h[at].op = "run" /\ \A j \in 1 .. at - 1 : h[j].op # "run") = 1
  <2>1. \A at \in 1 .. Len(h) :
          (h[at].op = "run" /\ \A j \in 1 .. at - 1 : h[j].op # "run") <=> at = 1
    BY <1>2
  <2> QED
    BY <1>2, <2>1
<1>4. SubSeq(h, 1 + 1, Len(h)) = g
  BY <1>1, <1>2
<1>5. Caught(t) = [t EXCEPT !.host = Over3(a, b, c, g)]
  BY <1>3, <1>4 DEF Caught, Over3
<1>6. Over3(a, b, c, g) = Over(a, Over(b, Over(c, g)))
  <2> HIDE DEF a, b, c, g
  <2> QED
    BY <1>2, Tuples
<1> QED
  BY <1>5, <1>6 DEF Catching

LEMMA CatchKept ==
  ASSUME NEW t, Form(t), Kept(t), RunsNow(t)
  PROVE  LET r == Caught(t)
         IN  /\ Form(r) /\ Kept(r) /\ StrictNow(r) /\ ReadyNow(r)
             /\ r.frames = t.frames /\ r.locals = t.locals /\ r.args = t.args
             /\ r.in_collection = t.in_collection /\ r.broken = t.broken
             /\ Calm(t) => Calm(r) /\ Given(r)
<1> DEFINE h == t.host
           x == h[1]
           a == [op |-> "drop_args", frame |-> Depth(t)]
           b == [op |-> "unwind", depth |-> x.depth]
           c == [x EXCEPT !.op = "rethrow"]
           g == Tail(h)
           r == Caught(t)
           F == t.frames
           k == Upward(h)
           j == Upward(r.host)
           n == Len(h)
<1>1. Runs(F, k, n) /\ n \in Nat /\ n >= 1 /\ h # <<>> /\ IsSequence(h)
  BY FormFacts DEF RunsNow, Runs, Form
<1>2. /\ k[n] = x /\ Len(g) \in Nat /\ n = Len(g) + 1 /\ IsSequence(g)
      /\ \A p \in 1 .. Len(g) : Upward(g)[p] = k[p]
  BY <1>1, UpwardTail, PopSequence
<1>3. Sound(F, t.locals, t.args, k, n) /\ IsCall(x) /\ x.op = "run" /\ x.depth \in Nat
  <2>1. Sound(F, t.locals, t.args, k, n)
    BY DEF Kept
  <2>2. Placed(F, k, n, n)
    BY <1>1, <2>1 DEF Sound, OK, Called1
  <2> QED
    BY <1>1, <1>2, <2>1, <2>2 DEF Placed, Runs, IsCall, FloorOps, RunOps
<1>4. r = [t EXCEPT !.host = Over(a, Over(b, Over(c, g)))]
  BY <1>1, <1>3, CaughtHost DEF Catching
<1>5. /\ c.op = "rethrow" /\ c.depth = x.depth /\ c.saved = x.saved /\ IsCall(c)
  <2>1. "op" \in DOMAIN x
    BY <1>3 DEF IsCall
  <2>2. c.op = "rethrow" /\ c.depth = x.depth /\ c.saved = x.saved
    BY <2>1
  <2> HIDE DEF c
  <2> QED
    BY <1>3, <2>2 DEF IsCall, Ops, FloorOps, RunOps
<1>6. IsCall(b) /\ b.op = "unwind" /\ IsCall(a) /\ a.op = "drop_args"
  BY <1>3, FormFacts DEF IsCall, Ops, FloorOps, RunOps
<1> HIDE DEF a, b, c, g, x
<1>7. /\ Shape(r) /\ r.frames = F /\ r.locals = t.locals /\ r.args = t.args /\ r.broken = t.broken
      /\ r.in_collection = t.in_collection /\ r.host = Over(a, Over(b, Over(c, g)))
  BY <1>4 DEF Form, Shape, Fields
<1> HIDE DEF r
<1>8. /\ IsSequence(r.host) /\ Len(r.host) = n + 2 /\ j[n + 2] = a /\ j[n + 1] = b /\ j[n] = c
      /\ \A p \in 1 .. n - 1 : j[p] = k[p]
  <2>1. /\ IsSequence(Over(c, g)) /\ IsSequence(Over(b, Over(c, g))) /\ IsSequence(r.host)
    BY <1>2, <1>7, PushSequence
  <2>2. Len(Over(c, g)) = n /\ Upward(Over(c, g))[n] = c
        /\ \A p \in 1 .. n - 1 : Upward(Over(c, g))[p] = k[p]
    BY <1>2, UpwardOver
  <2>3. Len(Over(b, Over(c, g))) = n + 1 /\ Upward(Over(b, Over(c, g)))[n + 1] = b
        /\ \A p \in 1 .. n : Upward(Over(b, Over(c, g)))[p] = Upward(Over(c, g))[p]
    BY <2>1, <2>2, UpwardOver
  <2>4. Len(r.host) = (n + 1) + 1 /\ j[(n + 1) + 1] = a
        /\ \A p \in 1 .. n + 1 : j[p] = Upward(Over(b, Over(c, g)))[p]
    BY <1>7, <2>1, <2>3, UpwardOver
  <2>5. (n + 1) + 1 = n + 2 /\ n + 1 \in 1 .. n + 1 /\ n \in 1 .. n /\ n \in 1 .. n + 1
        /\ \A p \in 1 .. n - 1 : p \in 1 .. n /\ p \in 1 .. n + 1
    BY <1>1
  <2> QED
    BY <2>1, <2>2, <2>3, <2>4, <2>5
<1>9. Sound(F, t.locals, t.args, j, n + 2) /\ Strict(F, j, n + 2)
  <2> HIDE DEF F, k, j, n
  <2>1. k[n].depth = x.depth /\ k[n].saved = x.saved
    BY <1>2
  <2>2. /\ IsCall(j[n]) /\ j[n].op = "rethrow" /\ j[n].depth = k[n].depth
        /\ j[n].saved = k[n].saved /\ IsCall(j[n + 1]) /\ j[n + 1].op = "unwind"
        /\ IsCall(j[n + 2]) /\ j[n + 2].op = "drop_args"
    BY <1>5, <1>6, <1>8, <2>1
  <2>3. \A p \in 1 .. n - 1 : j[p] = k[p]
    BY <1>8
  <2>4. Sound(F, t.locals, t.args, k, n) /\ Runs(F, k, n)
    BY <1>1, <1>3
  <2> QED
    BY <2>2, <2>3, <2>4, CatchSound
<1>10. \A p \in 1 .. n + 2 : p \in 1 .. n - 1 \/ p = n \/ p = n + 1 \/ p = n + 2
  BY <1>1
<1>11. Form(r)
  <2>1. HasDrain(r) => HasDrain(t)
    <3> SUFFICES ASSUME HasDrain(r) PROVE HasDrain(t)
      OBVIOUS
    <3>1. PICK p \in 1 .. n + 2 : j[p].op = "drain"
      BY <1>8 DEF HasDrain
    <3>2. p \in 1 .. n - 1
      BY <1>5, <1>6, <1>8, <1>10, <3>1
    <3> QED
      BY <1>1, <1>8, <3>1, <3>2 DEF HasDrain
  <2> QED
    BY <1>7, <1>8, <2>1 DEF Form
<1>12. Kept(r) /\ StrictNow(r) /\ ReadyNow(r)
  BY <1>1, <1>6, <1>7, <1>8, <1>9 DEF Kept, StrictNow, ReadyNow, Ready
<1>13. ASSUME Calm(t) PROVE Calm(r) /\ Given(r)
  <2>1. \A p \in 1 .. n - 1 : p \in 1 .. n
    BY <1>1
  <2>2. Calm(r)
    BY <1>5, <1>6, <1>8, <1>10, <1>13, <2>1 DEF Calm
  <2> QED
    BY <1>1, <1>6, <1>8, <2>2 DEF Calm, Given, Args, Taking
<1> QED
  BY <1>7, <1>11, <1>12, <1>13 DEF r

\* Without arguments a temporary register may give up its reference.
LEMMA ThrowKept ==
  ASSUME NEW t, Form(t), Kept(t), RunsNow(t), NEW v, v = None \/ t.args = 0
  PROVE  /\ Kept(throw(t, v)) /\ throw(t, v).frames = t.frames
         /\ Calm(t) => Given(throw(t, v))
<1> DEFINE c == Caught(t)
           r == reg_dec(c, v)
<1>1. /\ Form(c) /\ Kept(c) /\ StrictNow(c) /\ ReadyNow(c) /\ c.frames = t.frames
      /\ c.locals = t.locals /\ c.args = t.args /\ (Calm(t) => Calm(c) /\ Given(c))
  BY CatchKept
<1>2. throw(t, v) = r
  BY DEF throw
<1> HIDE DEF c, r
<1>3. Drained(c, r) /\ Kept(r) /\ (v = None => r.host = c.host)
  BY <1>1, DecKept DEF r
<1>4. ASSUME Calm(t) PROVE Given(r)
  <2>1. CASE v = None
    <3>1. r.host = c.host /\ r.frames = c.frames /\ r.locals = c.locals /\ r.args = c.args
      BY <1>3, <2>1 DEF Drained
    <3> QED
      BY <1>1, <1>4, <3>1, KeptSame
  <2>2. CASE t.args = 0
    BY <1>1, <1>3, <1>4, <2>2, CalmDrained, CalmGiven DEF Drained
  <2> QED
    BY <2>1, <2>2
<1> QED
  BY <1>1, <1>2, <1>3, <1>4 DEF Drained

-------------------------------------------------------------------------------
(* A frame is torn down *)

\* The host is h with the teardown of the top frame on it.
ToreDown(t, h, tail) ==
  LET d == Depth(t)
      c == Clear(d, local(t, 0), local(t, Registers[Top(t).func] - 1))
      v == [op |-> "visit", frame |-> d, seen |-> {}]
      k == [op |-> "collect", frame |-> d]
      r == [op |-> "restore", frame |-> d]
  IN IF tail THEN Over(c, Over(v, Over(r, h))) ELSE Over(c, Over(v, Over(k, Over(r, h))))

LEMMA TeardownHost ==
  ASSUME NEW t, Shape(t), IsSequence(t.host), NEW b, IsSequence(b), IsSequence(b \o t.host),
         NEW tail
  PROVE  Push(t, teardownItems(t, tail) \o b)
           = [t EXCEPT !.host = ToreDown(t, b \o t.host, tail)]
<1> DEFINE d == Depth(t)
           c == Clear(d, local(t, 0), local(t, Registers[Top(t).func] - 1))
           v == [op |-> "visit", frame |-> d, seen |-> {}]
           k == [op |-> "collect", frame |-> d]
           r == [op |-> "restore", frame |-> d]
           a == teardownItems(t, tail)
           h == t.host
<1>1. a = Group(c, v, k, r, tail)
  BY DEF teardownItems, Group
<1>2. IsSequence(a)
  <2> HIDE DEF a, c, v, k, r
  <2> QED
    BY <1>1, TeardownSequence
<1>3. (a \o b) \o h = a \o (b \o h)
  <2> HIDE DEF a
  <2>1. Cat(Cat(a, b), h) = Cat(a, Cat(b, h))
    BY <1>2, CatAssociative
  <2> QED
    BY <2>1 DEF Cat
<1>4. a \o (b \o h) = ToreDown(t, b \o h, tail)
  <2> DEFINE g == b \o h
  <2> HIDE DEF g
  <2>1. IsSequence(g)
    BY DEF g
  <2>2. Group(c, v, k, r, tail) \o g
          = IF tail THEN Over(c, Over(v, Over(r, g))) ELSE Over(c, Over(v, Over(k, Over(r, g))))
    <3> HIDE DEF c, v, k, r
    <3> QED
      BY <2>1, TeardownSequence
  <2>3. ToreDown(t, g, tail)
          = IF tail THEN Over(c, Over(v, Over(r, g))) ELSE Over(c, Over(v, Over(k, Over(r, g))))
    BY Zenon DEF ToreDown
  <2> HIDE DEF a, c, v, k, r
  <2> QED
    BY <1>1, <2>2, <2>3 DEF g
<1>5. Push(t, a \o b) = [t EXCEPT !.host = (a \o b) \o h]
  BY DEF Push
<1> QED
  BY <1>3, <1>4, <1>5

\* The calls of a teardown as numbered calls: m of them.
LEMMA TeardownCalls ==
  ASSUME NEW t, Form(t), Layout(t.frames), Depth(t) >= 1, NEW h, IsSequence(h), NEW tail
  PROVE  LET g == ToreDown(t, h, tail)
             n == Len(h)
             m == Len(g)
         IN  /\ IsSequence(g) /\ n \in Nat /\ m \in Nat /\ m >= n + 3
             /\ \A p \in 1 .. n : Upward(g)[p] = Upward(h)[p]
             /\ \A q \in n + 1 .. m - 1 : Upward(g)[q].op \in TeardownOps
             /\ \A q \in n + 1 .. m : IsCall(Upward(g)[q]) /\ Upward(g)[q].frame = Depth(t)
             /\ tail => \A q \in n + 1 .. m : Upward(g)[q].op \in TailOps
             /\ Upward(g)[m].op = "clear" /\ Upward(g)[m].from = Top(t).base
             /\ Upward(g)[m].to = Lim(t.frames) - 1
<1> DEFINE d == Depth(t)
           c == Clear(d, local(t, 0), local(t, Registers[Top(t).func] - 1))
           v == [op |-> "visit", frame |-> d, seen |-> {}]
           k == [op |-> "collect", frame |-> d]
           r == [op |-> "restore", frame |-> d]
           g == ToreDown(t, h, tail)
           n == Len(h)
<1>1. d \in Nat /\ Len(t.frames) = d
  BY FormFacts
<1>2. /\ IsCall(c) /\ c.frame = d /\ c.op = "clear" /\ c.from = Top(t).base
      /\ c.to = Lim(t.frames) - 1
  <2>1. /\ Top(t).base \in Nat /\ Registers[Top(t).func] \in Nat
        /\ Lim(t.frames) = Top(t).base + Registers[Top(t).func]
    <3>1. d \in 1 .. Len(t.frames) /\ Top(t) = t.frames[d] /\ Lim(t.frames) = End(t.frames, d)
      BY <1>1 DEF Top, Lim
    <3> QED
      BY <3>1, Ends
  <2>2. c.from = Top(t).base /\ c.to = Top(t).base + (Registers[Top(t).func] - 1)
    BY <2>1 DEF Clear, local
  <2>3. c.to = Lim(t.frames) - 1
    BY <2>1, <2>2
  <2> QED
    BY <1>1, <2>2, <2>3 DEF Clear, IsCall, Ops, FloorOps, RunOps
<1>3. /\ IsCall(v) /\ v.frame = d /\ v.op = "visit"
      /\ IsCall(k) /\ k.frame = d /\ k.op = "collect"
      /\ IsCall(r) /\ r.frame = d /\ r.op = "restore"
  BY <1>1 DEF IsCall, Ops, FloorOps, RunOps
<1>4. g = IF tail THEN Over(c, Over(v, Over(r, h))) ELSE Over(c, Over(v, Over(k, Over(r, h))))
  BY Zenon DEF ToreDown
<1> HIDE DEF c, v, k, r, g, d
<1> DEFINE h1 == Over(r, h)
           h2 == IF tail THEN h1 ELSE Over(k, h1)
           h3 == Over(v, h2)
<1>5. n \in Nat /\ IsSequence(h1) /\ Len(h1) = n + 1 /\ Upward(h1)[n + 1] = r
      /\ \A p \in 1 .. n : Upward(h1)[p] = Upward(h)[p]
  BY PushSequence, UpwardOver
<1> HIDE DEF h1
<1>6. /\ IsSequence(h2) /\ Len(h2) \in {n + 1, n + 2}
      /\ \A p \in 1 .. n + 1 : Upward(h2)[p] = Upward(h1)[p]
      /\ Len(h2) = n + 2 => ~tail /\ Upward(h2)[n + 2] = k
  <2>1. CASE tail
    BY <1>5, <2>1
  <2>2. CASE ~tail
    <3>1. /\ IsSequence(Over(k, h1)) /\ Len(Over(k, h1)) = (n + 1) + 1
          /\ Upward(Over(k, h1))[(n + 1) + 1] = k
          /\ \A p \in 1 .. n + 1 : Upward(Over(k, h1))[p] = Upward(h1)[p]
      BY <1>5, PushSequence, UpwardOver
    <3>2. (n + 1) + 1 = n + 2
      BY <1>5
    <3> QED
      BY <2>2, <3>1, <3>2
  <2> QED
    BY <2>1, <2>2
<1> HIDE DEF h2
<1> DEFINE l == Len(h2)
<1>7. l \in Nat /\ IsSequence(h3) /\ Len(h3) = l + 1 /\ Upward(h3)[l + 1] = v
      /\ \A p \in 1 .. l : Upward(h3)[p] = Upward(h2)[p]
  BY <1>6, PushSequence, UpwardOver
<1> HIDE DEF h3
<1>8. g = Over(c, h3)
  BY <1>4 DEF h1, h2, h3
<1>9. /\ IsSequence(g) /\ Len(g) = l + 2 /\ Upward(g)[l + 2] = c
      /\ \A p \in 1 .. l + 1 : Upward(g)[p] = Upward(h3)[p]
  <2>1. /\ IsSequence(g) /\ Len(g) = (l + 1) + 1 /\ Upward(g)[(l + 1) + 1] = c
        /\ \A p \in 1 .. l + 1 : Upward(g)[p] = Upward(h3)[p]
    BY <1>7, <1>8, PushSequence, UpwardOver
  <2>2. (l + 1) + 1 = l + 2
    BY <1>7
  <2> QED
    BY <2>1, <2>2
<1> HIDE DEF l, n
<1>10. \A p \in 1 .. n : Upward(g)[p] = Upward(h)[p]
  <2>1. \A p \in 1 .. n : p \in 1 .. n + 1 /\ p \in 1 .. l /\ p \in 1 .. l + 1
    BY <1>5, <1>6 DEF l
  <2> QED
    BY <1>5, <1>6, <1>7, <1>9, <2>1 DEF l
<1>11. \A q \in n + 1 .. l + 2 :
         \/ q = l + 2 /\ Upward(g)[q] = c
         \/ q = l + 1 /\ Upward(g)[q] = v
         \/ q = n + 1 /\ Upward(g)[q] = r
         \/ q = n + 2 /\ Upward(g)[q] = k /\ ~tail
  <2> SUFFICES ASSUME NEW q \in n + 1 .. l + 2
               PROVE  \/ q = l + 2 /\ Upward(g)[q] = c
                      \/ q = l + 1 /\ Upward(g)[q] = v
                      \/ q = n + 1 /\ Upward(g)[q] = r
                      \/ q = n + 2 /\ Upward(g)[q] = k /\ ~tail
    OBVIOUS
  <2>1. l \in {n + 1, n + 2} /\ l \in Nat
    BY <1>6, <1>7 DEF l
  <2>2. CASE q = l + 2
    BY <1>9, <2>2
  <2>3. CASE q = l + 1
    <3>1. l + 1 \in 1 .. l + 1
      BY <2>1
    <3> QED
      BY <1>7, <1>9, <2>3, <3>1
  <2>4. CASE q = n + 1
    <3>1. n + 1 \in 1 .. n + 1 /\ n + 1 \in 1 .. l /\ n + 1 \in 1 .. l + 1
      BY <1>5, <2>1
    <3> QED
      BY <1>5, <1>6, <1>7, <1>9, <2>4, <3>1
  <2>5. CASE q = n + 2 /\ q \in 1 .. l
    <3>1. l = n + 2 /\ q \in 1 .. l + 1
      BY <1>5, <2>1, <2>5
    <3> QED
      BY <1>6, <1>7, <1>9, <2>5, <3>1 DEF l
  <2> QED
    BY <1>5, <2>1, <2>2, <2>3, <2>4, <2>5
<1>12. /\ l + 2 \in Nat /\ l + 2 >= n + 3
       /\ \A q \in n + 1 .. (l + 2) - 1 : q \in n + 1 .. l + 2 /\ q # l + 2
  BY <1>5, <1>6, <1>7 DEF l
<1>13. \A q \in n + 1 .. (l + 2) - 1 : Upward(g)[q].op \in TeardownOps
  BY <1>3, <1>11, <1>12 DEF TeardownOps
<1>14. \A q \in n + 1 .. l + 2 : IsCall(Upward(g)[q]) /\ Upward(g)[q].frame = d
  BY <1>2, <1>3, <1>11
<1>15. tail => \A q \in n + 1 .. l + 2 : Upward(g)[q].op \in TailOps
  BY <1>2, <1>3, <1>11 DEF TailOps
<1> QED
  BY <1>2, <1>5, <1>9, <1>10, <1>12, <1>13, <1>14, <1>15 DEF d, n, g

\* What is known of u, when the top frame of t is about to be torn down in it.
TearsDown(t, u, tail) ==
  /\ Form(u) /\ Kept(u) /\ u.frames = t.frames /\ u.locals = t.locals /\ u.args = t.args
  /\ Calm(t) => Calm(u)
  /\ tail => Tailing(u)

LEMMA TeardownKept ==
  ASSUME NEW t, Form(t), Kept(t), StrictNow(t), Depth(t) >= 1,
         NEW s, Torn1(t.frames, Upward(t.host), Len(t.host), s),
         NEW tail, NEW x, IsCall(x), x.frame = Depth(t),
         x.op = IF tail THEN "tailcall" ELSE "pop",
         tail => /\ x.func \in Functions
                 /\ Params[x.func] <= Registers[Top(t).func],
         NEW u, Shape(u), u.frames = t.frames, u.locals = t.locals, u.args = t.args,
         u.in_collection = t.in_collection, u.host = ToreDown(t, Over(x, t.host), tail)
  PROVE  TearsDown(t, u, tail)
<1> DEFINE F == t.frames
           k == Upward(t.host)
           n == Len(t.host)
           h == Over(x, t.host)
           j == Upward(u.host)
           m == Len(u.host)
<1>1. /\ IsSequence(h) /\ n \in Nat /\ Len(h) = n + 1 /\ Upward(h)[n + 1] = x
      /\ \A p \in 1 .. n : Upward(h)[p] = k[p]
  BY UpwardOver, PushSequence DEF Form
<1>2. Sound(F, t.locals, t.args, k, n) /\ Layout(F) /\ Len(F) = Depth(t) /\ Depth(t) \in Nat
  BY FormFacts DEF Kept, Sound, OK
<1>3. /\ IsSequence(u.host) /\ m \in Nat /\ m >= n + 4
      /\ \A p \in 1 .. n + 1 : j[p] = Upward(h)[p]
      /\ \A q \in n + 2 .. m - 1 : j[q].op \in TeardownOps
      /\ \A q \in n + 2 .. m : IsCall(j[q]) /\ j[q].frame = Depth(t)
      /\ tail => \A q \in n + 2 .. m : j[q].op \in TailOps
      /\ j[m].op = "clear" /\ j[m].from = Top(t).base /\ j[m].to = Lim(F) - 1
  <2> DEFINE N == Len(h)
  <2>1. /\ IsSequence(u.host) /\ N \in Nat /\ m \in Nat /\ m >= N + 3
        /\ \A p \in 1 .. N : j[p] = Upward(h)[p]
        /\ \A q \in N + 1 .. m - 1 : j[q].op \in TeardownOps
        /\ \A q \in N + 1 .. m : IsCall(j[q]) /\ j[q].frame = Depth(t)
        /\ tail => \A q \in N + 1 .. m : j[q].op \in TailOps
        /\ j[m].op = "clear" /\ j[m].from = Top(t).base /\ j[m].to = Lim(F) - 1
    <3>1. u.host = ToreDown(t, h, tail) /\ Depth(t) >= 1
      OBVIOUS
    <3> HIDE DEF h
    <3> QED
      BY <1>1, <1>2, <3>1, TeardownCalls
  <2>2. N = n + 1 /\ N + 1 = n + 2 /\ N + 3 = n + 4
    BY <1>1
  <2> HIDE DEF N, j, m
  <2> QED
    BY <2>1, <2>2
<1>4. j[n + 1] = x /\ \A p \in 1 .. n : j[p] = k[p]
  <2>1. n + 1 \in 1 .. n + 1 /\ \A p \in 1 .. n : p \in 1 .. n + 1
    BY <1>1
  <2> QED
    BY <1>1, <1>3, <2>1
<1>5. F[Len(F)] = Top(t)
  BY <1>2 DEF Top
<1>6. Teardown(F, j, n, m)
  <2>1. \A q \in n + 1 .. m : q = n + 1 \/ q \in n + 2 .. m
    BY <1>1, <1>3
  <2>2. \A q \in n + 1 .. m : IsCall(j[q]) /\ j[q].frame = Len(F)
    BY <1>2, <1>3, <1>4, <2>1
  <2>3. m \in Nat /\ m >= n + 2 /\ x.op \in {"pop", "tailcall"}
    BY <1>1, <1>3
  <2> QED
    BY <1>3, <1>4, <1>5, <2>2, <2>3 DEF Teardown
<1>7. Sound(F, t.locals, t.args, j, m)
  <2>1. Strict(F, k, n) /\ Torn1(F, k, n, s) /\ Len(F) >= 1
    BY <1>2 DEF StrictNow
  <2> HIDE DEF F, k, n, j, m
  <2> QED
    BY <1>2, <1>4, <1>6, <2>1, PushTeardown
<1>8. \A p \in 1 .. m : p \in 1 .. n \/ p = n + 1 \/ (p \in n + 2 .. m - 1) \/ p = m
  BY <1>1, <1>3
<1>9. \A p \in 1 .. m : p \in 1 .. n \/ j[p].op \in {"pop", "tailcall", "clear"} \cup TeardownOps
  BY <1>3, <1>4, <1>8
<1>10. Form(u)
  <2>1. HasDrain(u) => HasDrain(t)
    BY <1>4, <1>9 DEF HasDrain, TeardownOps
  <2> QED
    BY <1>3, <2>1 DEF Form
<1>11. Calm(t) => Calm(u)
  BY <1>4, <1>9 DEF Calm, TeardownOps
<1>12. ASSUME tail PROVE Tailing(u)
  <2>1. n + 1 \in 1 .. m /\ (n + 1) + 1 = n + 2
    BY <1>1, <1>3
  <2>2. j[n + 1].op = "tailcall" /\ \A q \in (n + 1) + 1 .. m : j[q].op \in TailOps
    BY <1>3, <1>4, <1>12, <2>1
  <2> HIDE DEF m, j, n
  <2> QED
    BY <2>1, <2>2 DEF Tailing, m, j
<1> QED
  BY <1>7, <1>10, <1>11, <1>12 DEF TearsDown, Kept

LEMMA SameTear ==
  ASSUME NEW t, NEW u, u.frames = t.frames, NEW h, NEW tail
  PROVE  /\ ToreDown(u, h, tail) = ToreDown(t, h, tail)
         /\ teardownItems(u, tail) = teardownItems(t, tail)
<1>1. Depth(u) = Depth(t) /\ Top(u) = Top(t) /\ \A i : local(u, i) = local(t, i)
  BY DEF Depth, Top, local
<1> QED
  BY <1>1 DEF ToreDown, teardownItems

\* These were made right above a run, which goes on with the error.
LEMMA AboveRunNow ==
  ASSUME NEW t, Good(t), Kept(t), t.host # <<>>,
         Item(t).op \in {"leave", "raise", "tailcall", "throw", "ffi"}
  PROVE  /\ RunsNow(Pop(t)) /\ Pop(t).host # <<>> /\ Pop(t).host[1].op = "run"
         /\ Len(Pop(t).host) >= 1 /\ StrictNow(Pop(t))
<1> DEFINE u == Pop(t)
<1>1. u.host # <<>> /\ u.host[1].op = "run"
  BY TopKept DEF Under, Needy, Above
<1>2. Len(u.host) >= 1 /\ Upward(u.host)[Len(u.host)] = u.host[1] /\ Len(u.host) \in Nat
  BY <1>1, TopKept
<1>3. StrictNow(u)
  BY TopStrict DEF RunOps
<1> HIDE DEF u
<1>4. RunsNow(u)
  BY <1>1, <1>2, <1>3 DEF RunsNow, Runs, StrictNow, Strict, RunOps
<1> QED
  BY <1>1, <1>2, <1>3, <1>4 DEF u

\* Of two threads: the same but for where the objects are.
Moved1(t, u) ==
  /\ Shape(u) /\ u.frames = t.frames /\ u.locals = t.locals /\ u.args = t.args
  /\ u.host = t.host /\ u.in_collection = t.in_collection /\ u.broken = t.broken

LEMMA DragMoved ==
  ASSUME NEW t, Shape(t), NEW o, NEW to
  PROVE  Moved1(t, drag(t, o, to)) /\ Moved1(t, t)
BY DEF Moved1, drag, Shape, Fields

LEMMA MovedKept ==
  ASSUME NEW t, Form(t), NEW u, Moved1(t, u)
  PROVE  /\ Form(u) /\ Depth(u) = Depth(t) /\ (StrictNow(t) => StrictNow(u))
         /\ (RunsNow(t) => RunsNow(u)) /\ (Kept(t) => Kept(u)) /\ (Given(t) => Given(u))
         /\ Calm(t) => Calm(u)
BY KeptSame DEF Form, Moved1, HasDrain, StrictNow, RunsNow, Calm, Depth

\* What a call that is done carried passes the walls below it.
LEMMA PopPasses ==
  ASSUME NEW F, NEW L, NEW a, NEW k, NEW n \in Nat, OK(F, L, a, k, n + 1), NEW j,
         \A p \in 1 .. n : j[p] = k[p], k[n + 1].op # "clear", NEW p \in 1 .. n, Wall(j, n, p)
  PROVE  Passes(j, p, Temporary(k[n + 1]))
<1>1. Walled(F, L, a, k, n + 1, p)
  BY DEF OK, Walls
<1>2. Wall(k, n + 1, p)
  <2>1. k[p] = j[p] /\ \A q \in p + 1 .. n + 1 : q = n + 1 \/ (q \in p + 1 .. n /\ q \in 1 .. n)
    OBVIOUS
  <2> QED
    BY <2>1 DEF Wall, Torn
<1>3. Passes(k, p, Temporary(k[n + 1]))
  <2>1. n + 1 \in p + 1 .. n + 1
    OBVIOUS
  <2> QED
    BY <1>1, <1>2, <2>1 DEF Walled
<1> QED
  BY <1>3, SamePasses

LEMMA FreshResult ==
  ASSUME NEW t, Good(t), Kept(t), t.host # <<>>, Item(t).op = "leave",
         Location(Pop(t), Item(t).ret) # OnStack(Depth(t))
  PROVE  LET F == t.frames
             u == Pop(t)
             r == [op |-> "result", frame |-> Depth(t) - 1, slot |-> Top(u).dst,
                   ret |-> Item(t).ret]
         IN  /\ Fresh(F, Upward(u.host), Len(u.host), r)
             /\ IsVar(Temporary(r)) => Temporary(r).frame < Len(F)
             /\ r.op = "result" /\ r.frame = Depth(t) - 1 /\ Depth(t) >= 1
<1> DEFINE F == t.frames
           L == t.locals
           u == Pop(t)
           x == Item(t)
           d == Depth(t)
           n == Len(u.host)
           k == Upward(t.host)
           j == Upward(u.host)
           r == [op |-> "result", frame |-> d - 1, slot |-> Top(u).dst, ret |-> x.ret]
<1>1. /\ OK(F, L, t.args, k, n + 1) /\ n \in Nat /\ k[n + 1] = x /\ Len(F) = d /\ d \in Nat
      /\ (\A p \in 1 .. n : j[p] = k[p]) /\ Level(x, d)
  BY TopKept DEF Sound
<1>2. /\ n >= 1 /\ Strict(F, j, n) /\ j[n].op = "run" /\ j[n].depth < d
      /\ u.frames = F /\ Top(u) = F[d]
  <2>1. RunsNow(u) /\ StrictNow(u)
    BY AboveRunNow
  <2>2. u.frames = F
    BY TopKept DEF Alone
  <2>3. Top(u) = F[d]
    BY <2>2, <1>1 DEF Top, Depth
  <2> QED
    BY <1>1, <2>1, <2>2, <2>3 DEF RunsNow, Runs, StrictNow
<1>3. x.frame = d /\ Temporary(x) = x.ret /\ Temporary(r) = x.ret
  BY <1>1 DEF Level, RunOps, Temporary
<1>4. /\ Called1(F, k, n + 1, n + 1) /\ Placed(F, k, n + 1, n) /\ Layout(F)
      /\ \A p \in 1 .. n : Placed(F, k, n + 1, p)
  BY <1>1, <1>2 DEF OK, Called1
<1>5. d >= 1
  <2>1. j[n].depth \in Nat
    BY <1>1, <1>2, <1>4, PlacedFacts DEF RunOps
  <2> QED
    BY <1>1, <1>2, <2>1
<1>6. Valid(F, x.ret) /\ (IsVar(x.ret) => x.ret.frame < d)
  <2>1. Carries(F, x)
    BY <1>1, <1>4 DEF Called1
  <2>2. Valid(F, x.ret) /\ (IsVar(x.ret) => x.ret.frame <= d)
    BY <1>1, <1>3, <2>1 DEF Carries, Lev, FloorOps, RunOps
  <2>3. ASSUME IsVar(x.ret) PROVE x.ret.frame # d
    <3>1. Location(u, x.ret) = OnStack(x.ret.frame)
      BY <2>3 DEF Location, IsVar, IsObject
    <3> QED
      BY <3>1
  <2> QED
    BY <1>1, <2>2, <2>3 DEF Valid
<1>7. /\ r.op = "result" /\ r.frame = d - 1 /\ r.slot = F[d].dst /\ IsCall(r)
  BY <1>1, <1>2 DEF IsCall, Ops, FloorOps, RunOps
<1>8. r.slot \in Nat /\ (r.frame >= 1 => r.slot < Registers[F[r.frame].func])
  <2>1. CASE d > 1
    <3>1. d \in 1 .. Len(F)
      BY <1>1, <1>5
    <3>2. F[d].dst \in 0 .. Registers[F[d - 1].func] - 1
      BY <1>4, <2>1, <3>1 DEF Layout
    <3>3. Registers[F[d - 1].func] \in Nat
      <4>1. d - 1 \in 1 .. Len(F)
        BY <1>1, <2>1
      <4> QED
        BY <1>4, <4>1, Ends
    <3> QED
      BY <1>7, <3>2, <3>3
  <2>2. CASE d = 1
    <3>1. j[n].depth = 0
      <4>1. j[n].depth \in Nat /\ j[n].depth < d
        BY <1>1, <1>2, <1>4, PlacedFacts DEF RunOps
      <4> HIDE DEF d
      <4> QED
        BY <2>2, <4>1
    <3>2. F[1].dst = 0
      <4>1. k[n] = j[n] /\ k[n].op = "run"
        BY <1>1, <1>2
      <4>2. k[n].depth = 0 /\ 0 < Len(F)
        BY <1>1, <2>2, <3>1, <4>1
      <4>3. k[n].op = "run" /\ k[n].depth < Len(F) => F[k[n].depth + 1].dst = 0
        BY <1>4 DEF Placed
      <4>4. F[0 + 1].dst = 0
        BY <4>1, <4>2, <4>3
      <4> QED
        BY <4>4
    <3> QED
      BY <1>7, <2>2, <3>2
  <2> QED
    BY <1>1, <1>5, <2>1, <2>2
<1>9. ASSUME NEW q \in 1 .. n PROVE BelowOther(r, j[q])
  <2> SUFFICES ASSUME j[q].op \in RunOps
               PROVE  j[q].depth <= d - 1 /\ (j[q].op = "run" /\ j[q].depth = d - 1 => r.slot = 0)
    BY <1>7 DEF BelowOther
  <2>1. Placed(F, k, n + 1, q) /\ j[q] = k[q]
    BY <1>1, <1>4
  <2>2. j[q].depth \in Nat /\ j[q].depth < d
    BY <1>1, <1>2, <2>1 DEF Placed, Strict, IsCall, FloorOps, RunOps
  <2>3. ASSUME j[q].op = "run", j[q].depth = d - 1 PROVE r.slot = 0
    <3>1. F[j[q].depth + 1].dst = 0
      BY <1>1, <2>1, <2>2, <2>3 DEF Placed
    <3>2. j[q].depth + 1 = d
      BY <1>1, <2>3
    <3> QED
      BY <1>7, <3>1, <3>2
  <2> QED
    BY <1>1, <2>2, <2>3
<1>10. ASSUME NEW p \in 1 .. n, Wall(j, n, p) PROVE Passes(j, p, x.ret)
  <2>1. k[n + 1].op # "clear" /\ Temporary(k[n + 1]) = x.ret
    BY <1>1, <1>3
  <2> HIDE DEF F, L, u, x, d, n, k, j, r
  <2> QED
    BY <1>1, <1>10, <2>1, PopPasses
<1> HIDE DEF r
<1>11. Carries(F, r) /\ r.frame <= Len(F) /\ (IsVar(Temporary(r)) => Temporary(r).frame < Len(F))
  <2>1. IsVar(x.ret) => x.ret.frame <= d - 1
    BY <1>1, <1>6 DEF Valid
  <2> QED
    BY <1>1, <1>3, <1>6, <1>7, <2>1 DEF Carries, Lev, FloorOps, RunOps
<1>12. Fresh(F, j, n, r)
  <2> HIDE DEF F, u, x, d, n, k, j
  <2> QED
    BY <1>2, <1>3, <1>7, <1>8, <1>9, <1>10, <1>11 DEF Fresh, RunOps, TornOps, TeardownOps
<1> QED
  BY <1>5, <1>7, <1>11, <1>12 DEF r

\* A call is made above the others.
LEMMA FreshKept ==
  ASSUME NEW t, Form(t), Kept(t), ReadyNow(t), NEW x, x.op # "drain",
         Fresh(t.frames, Upward(t.host), Len(t.host), x)
  PROVE  LET v == Push(t, <<x>>)
         IN  /\ Form(v) /\ Kept(v) /\ StrictNow(v) /\ Alone(t, v) /\ Onto(t, v, x)
             /\ v.host = Over(x, t.host)
             /\ x.op \notin {"start", "callback"} /\ Calm(t) => Calm(v)
<1> DEFINE v == Push(t, <<x>>)
           n == Len(t.host)
<1>1. Form(v) /\ Alone(t, v) /\ Onto(t, v, x) /\ v.host = Over(x, t.host)
  BY PushForm, PushFields DEF Form, Over
<1> HIDE DEF v
<1>2. /\ v.frames = t.frames /\ v.locals = t.locals /\ v.args = t.args /\ Len(v.host) = n + 1
      /\ Upward(v.host)[n + 1] = x /\ \A p \in 1 .. n : Upward(v.host)[p] = Upward(t.host)[p]
  BY <1>1 DEF Alone, Onto
<1>3. /\ Sound(t.frames, t.locals, t.args, Upward(v.host), n + 1)
      /\ Strict(t.frames, Upward(v.host), n + 1)
  <2> DEFINE F == t.frames
             k == Upward(t.host)
             j == Upward(v.host)
  <2>1. Sound(F, t.locals, t.args, k, n) /\ Ready(F, t.locals, t.args, k, n) /\ Fresh(F, k, n, x)
    BY DEF Kept, ReadyNow
  <2>2. j[n + 1] = x /\ \A p \in 1 .. n : j[p] = k[p]
    BY <1>2
  <2> HIDE DEF F, k, j, n
  <2>3. Sound(F, t.locals, t.args, j, n + 1) /\ Strict(F, j, n + 1)
    BY <2>1, <2>2, PushFresh
  <2> QED
    BY <2>3 DEF F, j
<1>4. Kept(v) /\ StrictNow(v)
  BY <1>2, <1>3 DEF Kept, StrictNow
<1>5. x.op \notin {"start", "callback"} /\ Calm(t) => Calm(v)
  BY <1>1, CalmOnto
<1> QED
  BY <1>1, <1>4, <1>5 DEF v

LEMMA RunsReady ==
  ASSUME NEW t, Form(t), Kept(t), RunsNow(t)
  PROVE  /\ StrictNow(t) /\ ReadyNow(t) /\ ~Above1(t, "ffi") /\ t.host # <<>>
         /\ Upward(t.host)[Len(t.host)] = t.host[1] /\ t.host[1].op = "run"
         /\ t.host[1].depth \in 0 .. Depth(t) - 1 /\ Depth(t) \in Nat /\ Depth(t) >= 1
         /\ Len(t.host) \in Nat /\ Len(t.host) >= 1 /\ Len(t.frames) = Depth(t)
<1>1. /\ OK(t.frames, t.locals, t.args, Upward(t.host), Len(t.host))
      /\ Runs(t.frames, Upward(t.host), Len(t.host))
  BY DEF Kept, Sound, RunsNow
<1>2. /\ StrictNow(t) /\ Len(t.host) \in Nat /\ Len(t.host) >= 1
      /\ Upward(t.host)[Len(t.host)].op = "run"
      /\ Upward(t.host)[Len(t.host)].depth \in 0 .. Len(t.frames) - 1
  BY <1>1, RunsStrict DEF StrictNow
<1>3. t.host # <<>> /\ Len(t.frames) = Depth(t) /\ Depth(t) \in Nat
  BY <1>2, FormFacts
<1>4. Upward(t.host)[Len(t.host)] = t.host[1]
  BY <1>3, UpwardTail DEF Form
<1>5. ReadyNow(t) /\ ~Above1(t, "ffi")
  BY <1>2, <1>4 DEF ReadyNow, Ready, StrictNow, Above1
<1>6. Depth(t) >= 1
  BY <1>2, <1>3
<1> QED
  BY <1>2, <1>3, <1>4, <1>5, <1>6

LEMMA LeaveKept ==
  ASSUME NEW t, Good(t), Kept(t), Given(t), t.host # <<>>, Item(t).op = "leave"
  PROVE  Kept(leaveStep(t, Item(t))) /\ Given(leaveStep(t, Item(t)))
<1> DEFINE x   == Item(t)
           d   == Depth(t)
           u   == Pop(t)
           ret == x.ret
           loc == Location(u, ret)
           new == IF d > 1 THEN InFrame(d - 1) ELSE Heap
           out == IF loc = InFrame(d) /\ ret.kind = "object" THEN drag(u, ret.of, new) ELSE u
           p   == [op |-> "pop", frame |-> d]
           r   == [op |-> "result", frame |-> d - 1, slot |-> Top(u).dst, ret |-> ret]
           v   == Push(out, <<r>>)
           end == Push(out, teardownItems(u, FALSE) \o <<p, r>>)
<1>1. /\ Form(t) /\ Form(u) /\ u.frames = t.frames /\ u.args = t.args /\ Depth(u) = d /\ d \in Nat
      /\ Len(t.frames) = d
  BY TopKept DEF Alone, Depth
<1>2. RunsNow(u) /\ u.host # <<>>
  BY AboveRunNow
<1>3. Kept(u)
  BY <1>2, PopKept
<1>4. t.args = 0 /\ Calm(u)
  BY <1>1, IdleArgs DEF TailOps
<1>5. leaveStep(t, x) = IF loc = OnStack(d) THEN throw(u, ret)
                        ELSE IF ~x.typed THEN throw(out, ret) ELSE end
  BY <1>1 DEF leaveStep
<1>6. Moved1(u, out)
  BY <1>1, DragMoved DEF Form
<1>7. loc # OnStack(d) =>
        /\ Fresh(t.frames, Upward(u.host), Len(u.host), r)
        /\ IsVar(Temporary(r)) => Temporary(r).frame < Len(t.frames)
        /\ r.op = "result" /\ r.frame = d - 1 /\ d >= 1
  BY FreshResult
<1>8. /\ d >= 1 => IsCall(p) /\ p.frame = d /\ p.op = "pop"
      /\ IsSequence(<<p, r>>)
  <2>1. d >= 1 => IsCall(p) /\ p.frame = d /\ p.op = "pop"
    BY <1>1 DEF IsCall, Ops, FloorOps, RunOps
  <2> HIDE DEF p, r
  <2>2. <<p, r>> \in Seq({p, r})
    OBVIOUS
  <2> QED
    BY <2>1, <2>2 DEF IsSequence
<1> HIDE DEF u, out, loc, new, p, r, v, end
<1>9. /\ Form(out) /\ Depth(out) = d /\ StrictNow(out) /\ RunsNow(out) /\ Kept(out) /\ Calm(out)
      /\ out.args = 0 /\ out.frames = t.frames /\ out.host = u.host /\ ReadyNow(out)
  <2>1. /\ Form(out) /\ Depth(out) = d /\ RunsNow(out) /\ Kept(out) /\ Calm(out)
    BY <1>1, <1>2, <1>3, <1>4, <1>6, MovedKept
  <2> QED
    BY <1>1, <1>4, <1>6, <2>1, RunsReady DEF Moved1
<1>10. /\ Kept(throw(u, ret)) /\ Given(throw(u, ret))
       /\ Kept(throw(out, ret)) /\ Given(throw(out, ret))
  BY <1>1, <1>2, <1>3, <1>4, <1>9, ThrowKept
<1>11. ASSUME loc # OnStack(d) PROVE Kept(end) /\ Given(end)
  <2>1. /\ Form(v) /\ Kept(v) /\ StrictNow(v) /\ Alone(out, v) /\ Onto(out, v, r)
        /\ v.host = Over(r, out.host) /\ Calm(v)
    BY <1>7, <1>9, <1>11, FreshKept DEF v
  <2>2. /\ v.frames = t.frames /\ v.args = 0 /\ v.locals = out.locals /\ Depth(v) = d
        /\ v.in_collection = out.in_collection
    BY <1>1, <1>9, <2>1 DEF Alone, Depth
  <2>3. <<p, r>> \o out.host = Over(p, v.host) /\ IsSequence(<<p, r>> \o out.host)
    <3>1. IsSequence(out.host) /\ IsSequence(v.host)
      BY <1>9, <2>1 DEF Form
    <3>2. Over2(p, r, out.host) = Over(p, Over(r, out.host))
      BY <3>1, Tuples
    <3>3. IsSequence(Over(p, v.host))
      BY <3>1, PushSequence
    <3> QED
      BY <2>1, <3>2, <3>3 DEF Over2
  <2>4. end = [out EXCEPT !.host = ToreDown(v, Over(p, v.host), FALSE)]
    <3> DEFINE tail == FALSE
    <3> HIDE DEF tail
    <3>1. teardownItems(u, tail) = teardownItems(out, tail)
      BY <1>1, <1>9, SameTear
    <3>2. Push(out, teardownItems(out, tail) \o <<p, r>>)
            = [out EXCEPT !.host = ToreDown(out, <<p, r>> \o out.host, tail)]
      <4>1. Shape(out) /\ IsSequence(out.host)
        BY <1>9 DEF Form
      <4> QED
        BY <1>8, <2>3, <4>1, TeardownHost
    <3>3. ToreDown(out, Over(p, v.host), tail) = ToreDown(v, Over(p, v.host), tail)
      <4>1. v.frames = out.frames
        BY <1>9, <2>2
      <4> QED
        BY <4>1, SameTear
    <3>4. Push(out, teardownItems(u, tail) \o <<p, r>>)
            = [out EXCEPT !.host = ToreDown(v, Over(p, v.host), tail)]
      BY <2>3, <3>1, <3>2, <3>3
    <3> QED
      BY <3>4 DEF end, tail
  <2>5. /\ Shape(end) /\ end.frames = v.frames /\ end.locals = v.locals /\ end.args = v.args
        /\ end.in_collection = v.in_collection /\ end.host = ToreDown(v, Over(p, v.host), FALSE)
    BY <1>9, <2>2, <2>4 DEF Form, Shape, Fields
  <2>6. Torn1(v.frames, Upward(v.host), Len(v.host), Len(out.host))
    <3> DEFINE n == Len(out.host)
               j == Upward(v.host)
    <3>1. /\ n \in Nat /\ n >= 1 /\ Upward(out.host)[n].op = "run"
          /\ Upward(out.host)[n].depth < Len(t.frames)
      BY <1>9, RunsReady DEF RunsNow, Runs
    <3>2. Len(v.host) = n + 1 /\ j[n + 1] = r /\ j[n] = Upward(out.host)[n]
      BY <2>1, <3>1 DEF Onto
    <3>3. n \in 1 .. n + 1 /\ \A q \in n + 1 .. n + 1 : q = n + 1
      BY <3>1
    <3>4. r.op = "result" /\ r.frame < Len(t.frames)
          /\ (IsVar(Temporary(r)) => Temporary(r).frame < Len(t.frames))
      BY <1>1, <1>7, <1>11
    <3> HIDE DEF n, j
    <3> QED
      BY <2>2, <3>1, <3>2, <3>3, <3>4 DEF Torn1, RunOps, n, j
  <2>7. TearsDown(v, end, FALSE)
    <3>1. p.op = IF FALSE THEN "tailcall" ELSE "pop"
      BY <1>7, <1>8, <1>11
    <3> QED
      BY <1>7, <1>8, <1>11, <2>1, <2>2, <2>5, <2>6, <3>1, TeardownKept
  <2> QED
    BY <2>1, <2>2, <2>7, CalmGiven DEF TearsDown
<1> QED
  BY <1>5, <1>10, <1>11 DEF u, out, loc

LEMMA TearKept ==
  ASSUME NEW t, Form(t), Kept(t), StrictNow(t), Depth(t) >= 1,
         NEW s, Torn1(t.frames, Upward(t.host), Len(t.host), s),
         NEW tail, NEW x, IsCall(x), x.frame = Depth(t),
         x.op = IF tail THEN "tailcall" ELSE "pop",
         tail => /\ x.func \in Functions
                 /\ Params[x.func] <= Registers[Top(t).func]
  PROVE  TearsDown(t, Push(t, teardownItems(t, tail) \o <<x>>), tail)
<1> DEFINE b == <<x>>
           u == Push(t, teardownItems(t, tail) \o b)
<1>1. IsSequence(t.host) /\ IsSequence(b) /\ b \o t.host = Over(x, t.host)
      /\ IsSequence(Over(x, t.host))
  <2>1. b \in Seq({x}) /\ IsSequence(t.host)
    BY DEF Form
  <2> QED
    BY <2>1, PushSequence DEF IsSequence, Over
<1> HIDE DEF b
<1>2. u = [t EXCEPT !.host = ToreDown(t, Over(x, t.host), tail)]
  <2>1. Shape(t) /\ IsSequence(b \o t.host)
    BY <1>1 DEF Form
  <2>2. u = [t EXCEPT !.host = ToreDown(t, b \o t.host, tail)]
    BY <1>1, <2>1, TeardownHost
  <2> QED
    BY <1>1, <2>2
<1>3. /\ Shape(u) /\ u.frames = t.frames /\ u.locals = t.locals /\ u.args = t.args
      /\ u.in_collection = t.in_collection /\ u.host = ToreDown(t, Over(x, t.host), tail)
  BY <1>2 DEF Form, Shape, Fields
<1> HIDE DEF u
<1>4. TearsDown(t, u, tail)
  BY <1>3, TeardownKept
<1> QED
  BY <1>4 DEF u, b

LEMMA NoArgs ==
  ASSUME NEW t, Form(t), t.args = 0
  PROVE  Moved1(t, drop_args(t))
<1> DEFINE r == drop_args(t)
           c == [t EXCEPT !.args = 0]
<1>1. r = Push(c, <<>>)
  BY DEF drop_args
<1>2. Shape(c) /\ c.frames = t.frames /\ c.locals = t.locals /\ c.args = t.args
      /\ c.host = t.host /\ c.in_collection = t.in_collection /\ c.broken = t.broken
  BY DEF Form, Shape, Fields
<1> HIDE DEF c, r
<1>3. Push(c, <<>>) = [c EXCEPT !.host = <<>> \o t.host] /\ <<>> \o t.host = t.host
  <2>1. <<>> \o t.host = t.host
    BY Tuples DEF Form
  <2> QED
    BY <1>2, <2>1 DEF Push
<1> QED
  BY <1>1, <1>2, <1>3 DEF Moved1, Shape, Fields, r

\* One frame less, for an error or a raise on its way.
LEMMA NextFrameKept ==
  ASSUME NEW t, Good(t), Kept(t), t.host # <<>>, Item(t).op \in {"raise", "unwind"},
         Item(t).op = "raise" => Item(t).target < Depth(t),
         Item(t).op = "unwind" => Item(t).depth < Depth(t), t.args = 0, Calm(t)
  PROVE  LET r == drop_args(Push(t, teardownItems(t, FALSE)
                                      \o <<[op |-> "pop", frame |-> Depth(t)]>>))
         IN  Kept(r) /\ Given(r)
<1> DEFINE d == Depth(t)
           F == t.frames
           x == Item(t)
           k == Upward(t.host)
           n == Len(Pop(t).host)
           p == [op |-> "pop", frame |-> d]
           u == Push(t, teardownItems(t, FALSE) \o <<p>>)
           r == drop_args(u)
<1>1. /\ Form(t) /\ n \in Nat /\ Len(t.host) = n + 1 /\ k[n + 1] = x /\ IsCall(x) /\ Level(x, d)
      /\ OK(F, t.locals, t.args, k, n + 1) /\ Len(F) = d /\ d \in Nat /\ Under(x, Pop(t).host)
      /\ Pop(t).host # <<>> => /\ n >= 1 /\ k[n] = Pop(t).host[1]
                               /\ Level(Pop(t).host[1], After(Item(t)))
  BY TopKept DEF Sound
<1>2. /\ n >= 1 /\ k[n].op \in RunOps
      /\ x.op = "raise" => k[n].op = "run"
      /\ x.op = "unwind" => k[n].op = "rethrow" /\ k[n].depth = x.depth
  <2>1. CASE x.op = "raise"
    <3>1. Pop(t).host # <<>> /\ Pop(t).host[1].op = "run"
      BY <1>1, <2>1 DEF Under, Needy, Above
    <3> QED
      BY <1>1, <2>1, <3>1 DEF RunOps
  <2>2. CASE x.op = "unwind"
    <3>1. Pop(t).host # <<>> /\ Pop(t).host[1].op = "rethrow"
      BY <1>1, <2>2 DEF Under, Needy, Above
    <3>2. k[n].depth = After(x) /\ k[n].op = "rethrow"
      BY <1>1, <3>1 DEF Level
    <3> QED
      BY <1>1, <2>2, <3>1, <3>2 DEF RunOps, After, FloorOps
  <2> QED
    BY <2>1, <2>2
<1>3. Strict(F, k, n + 1)
  <2>1. CASE x.op = "raise"
    BY <1>1, <2>1, TopStrict DEF StrictNow, RunOps
  <2>2. CASE x.op = "unwind"
    <3>1. Below(k, n) /\ k[n].depth < d
      BY <1>1, <1>2, <2>2 DEF OK, Called1
    <3>2. ASSUME NEW q \in 1 .. n + 1, k[q].op \in RunOps PROVE k[q].depth < d
      <4>1. q = n + 1 \/ q = n \/ q \in 1 .. n - 1
        BY <1>1
      <4>2. CASE q = n + 1
        BY <1>1, <2>2, <3>2, <4>2 DEF RunOps
      <4>3. CASE q \in 1 .. n - 1
        <5>1. k[q].depth < k[n].depth
          BY <1>2, <3>1, <3>2, <4>3 DEF Below, BelowRun
        <5>2. k[q].depth \in Int /\ k[n].depth \in Int
          <6>1. Placed(F, k, n + 1, q) /\ Placed(F, k, n + 1, n)
            BY <1>1, <1>2, <4>3 DEF OK, Called1
          <6>2. k[n].op \in RunOps
            BY <1>2 DEF RunOps
          <6> QED
            BY <3>2, <6>1, <6>2, PlacedFacts
        <5> QED
          BY <1>1, <3>1, <5>1, <5>2
      <4> QED
        BY <3>1, <4>1, <4>2, <4>3
    <3> QED
      BY <1>1, <3>2 DEF Strict
  <2> QED
    BY <2>1, <2>2
<1>4. IsVar(Temporary(x)) => Temporary(x).frame < d
  <2>1. CASE x.op = "raise"
    <3>1. Carries(F, x)
      BY <1>1 DEF OK, Called1
    <3>2. IsVar(Temporary(x)) => Temporary(x).frame <= x.target /\ Temporary(x).frame \in Int
      BY <1>1, <2>1, <3>1 DEF Carries, Lev, FloorOps, RunOps, Valid
    <3> QED
      BY <1>1, <2>1, <3>2 DEF IsCall
  <2>2. CASE x.op = "unwind"
    BY <2>2 DEF Temporary, IsVar, None
  <2> QED
    BY <2>1, <2>2
<1>5. d >= 1
  <2>1. k[n].depth < d /\ k[n].depth \in Nat
    <3>1. Placed(F, k, n + 1, n)
      BY <1>1, <1>2 DEF OK, Called1
    <3>2. k[n].op \in RunOps
      BY <1>1, <1>2 DEF RunOps
    <3>3. k[n].depth \in Nat
      BY <3>1, <3>2, PlacedFacts
    <3> QED
      BY <1>1, <1>2, <1>3, <3>2, <3>3 DEF Strict
  <2> QED
    BY <1>1, <2>1
<1>6. Torn1(F, k, n + 1, n)
  <2>1. n \in 1 .. n + 1 /\ \A q \in n + 1 .. n + 1 : q = n + 1
    BY <1>1, <1>2
  <2>2. k[n].depth < Len(F)
    BY <1>1, <1>2, <1>3, <2>1 DEF Strict
  <2> HIDE DEF F, k, n, x, d
  <2> QED
    BY <1>1, <1>2, <1>4, <2>1, <2>2 DEF Torn1, x
<1>7. IsCall(p) /\ p.frame = d /\ p.op = "pop"
  BY <1>1, <1>5 DEF IsCall, Ops, FloorOps, RunOps
<1> HIDE DEF u, p
<1>8. TearsDown(t, u, FALSE)
  <2> DEFINE tail == FALSE
  <2>1. p.op = IF tail THEN "tailcall" ELSE "pop"
    BY <1>7
  <2>2. ~tail
    OBVIOUS
  <2> HIDE DEF tail
  <2>3. Torn1(t.frames, Upward(t.host), Len(t.host), n) /\ StrictNow(t)
    BY <1>1, <1>3, <1>6 DEF StrictNow
  <2>4. TearsDown(t, Push(t, teardownItems(t, tail) \o <<p>>), tail)
    BY <1>1, <1>5, <1>7, <2>1, <2>2, <2>3, TearKept
  <2> QED
    BY <2>4 DEF tail, u
<1>9. Form(u) /\ Kept(u) /\ u.args = 0 /\ Calm(u)
  BY <1>8 DEF TearsDown
<1>10. Kept(r) /\ Calm(r) /\ r.args = 0
  BY <1>9, NoArgs, MovedKept DEF Moved1
<1> QED
  BY <1>10, CalmGiven DEF u, p, r

-------------------------------------------------------------------------------
(* Arguments are dropped, frames are left, errors go on *)

LEMMA DropArgsKept ==
  ASSUME NEW t, Form(t), Kept(t), ReadyNow(t), NEW s \in 1 .. Len(t.host),
         Upward(t.host)[s].op \in RunOps,
         \A q \in s + 1 .. Len(t.host) : Upward(t.host)[q].op \notin TornOps
  PROVE  LET r == drop_args(t)
         IN  /\ Form(r) /\ Kept(r) /\ r.frames = t.frames /\ r.args = 0
             /\ Calm(t) => Calm(r) /\ Given(r)
<1> DEFINE F == t.frames
           L == t.locals
           a == t.args
           k == Upward(t.host)
           n == Len(t.host)
           r == drop_args(t)
<1>1. /\ Sound(F, L, a, k, n) /\ OK(F, L, a, k, n) /\ Strict(F, k, n) /\ Layout(F) /\ a \in Nat
      /\ n \in Nat /\ Len(F) = Depth(t) /\ Depth(t) \in Nat
  BY FormFacts DEF Kept, Sound, OK, ReadyNow, Ready
<1>2. CASE a = 0
  <2>1. Form(r) /\ Kept(r) /\ r.args = 0 /\ r.frames = F /\ (Calm(t) => Calm(r))
    BY <1>2, NoArgs, MovedKept DEF Moved1
  <2> QED
    BY <2>1, CalmGiven
<1>3. CASE a # 0
  <2> DEFINE x == Clear(Depth(t), arg(t, 0), arg(t, t.args - 1))
             u == Push(t, <<x>>)
             j == Upward(r.host)
  <2>1. /\ x.op = "clear" /\ x.frame = Len(F) /\ x.from = Lim(F) /\ x.to = Lim(F) + (a - 1)
        /\ IsCall(x) /\ Temporary(x) = None /\ Lim(F) \in Nat
    <3>1. arg(t, 0) = Lim(F) + 0 /\ arg(t, t.args - 1) = Lim(F) + (a - 1) /\ Lim(F) \in Nat
      <4>1. Layout(t.frames) /\ 0 \in Int /\ t.args - 1 \in Int
        BY <1>1
      <4>2. arg(t, 0) = Lim(F) + 0 /\ arg(t, t.args - 1) = Lim(F) + (a - 1)
        BY <4>1, ArgIs
      <4> QED
        BY <4>2, <1>1, Ends
    <3> QED
      BY <1>1, <3>1 DEF Clear, IsCall, Ops, FloorOps, RunOps, Temporary
  <2> HIDE DEF x
  <2>2. Fresh(F, k, n, x)
    <3>1. ASSUME NEW p \in 1 .. n, k[p].op \in TornOps PROVE k[p].frame < x.frame
      <4>1. p \in 1 .. s - 1
        BY <1>1, <3>1 DEF TornOps, TeardownOps, RunOps
      <4>2. Below(k, s) /\ k[s].depth < Len(F)
        BY <1>1 DEF OK, Called1, Strict
      <4>3. k[p].frame <= k[s].depth
        BY <3>1, <4>1, <4>2 DEF Below, BelowRun
      <4>4. k[p].frame \in Int /\ k[s].depth \in Int
        <5>1. Placed(F, k, n, p) /\ Placed(F, k, n, s)
          BY <1>1 DEF OK, Called1
        <5>2. k[s].op \in RunOps
          BY <1>1 DEF RunOps
        <5> QED
          BY <3>1, <5>1, <5>2, PlacedFacts
      <4> QED
        BY <1>1, <2>1, <4>2, <4>3, <4>4
    <3>2. Carries(F, x) /\ \A p \in 1 .. n : Passes(k, p, Temporary(x))
      BY <2>1 DEF Carries, Valid, Passes, IsVar, None
    <3>3. \A p \in 1 .. n : BelowOther(x, k[p])
      BY <2>1 DEF BelowOther
    <3>4. n # 0 /\ x.from \in Int /\ x.to \in Int
      BY <1>1, <2>1
    <3> HIDE DEF F, k, n
    <3> QED
      BY <2>1, <3>1, <3>2, <3>3, <3>4 DEF Fresh, RunOps, TornOps, TeardownOps
  <2>3. /\ Form(u) /\ Kept(u) /\ Alone(t, u) /\ Onto(t, u, x) /\ (Calm(t) => Calm(u))
        /\ u.host = Over(x, t.host)
    BY <2>1, <2>2, FreshKept
  <2> HIDE DEF u
  <2>4. /\ Shape(r) /\ r.frames = F /\ r.locals = L /\ r.args = 0 /\ r.host = u.host
        /\ r.in_collection = t.in_collection
    <3>1. r = Push([t EXCEPT !.args = 0], <<x>>)
      BY <1>3 DEF drop_args, x
    <3>2. Shape([t EXCEPT !.args = 0]) /\ Shape(r) /\ r.host = <<x>> \o t.host
      BY <3>1 DEF Push, Form, Shape, Fields
    <3> QED
      BY <2>3, <3>1, <3>2 DEF Push, Form, Shape, Fields, Over
  <2> HIDE DEF r
  <2>5. Form(r) /\ (Calm(t) => Calm(r))
    BY <2>3, <2>4 DEF Form, HasDrain, Alone, Calm
  <2>6. Len(r.host) = n + 1 /\ j[n + 1] = x /\ \A p \in 1 .. n : j[p] = k[p]
    BY <2>3, <2>4 DEF Onto
  <2>7. Sound(F, L, a, j, n + 1)
    BY <2>3, <2>4, <2>6 DEF Kept, Alone
  <2>8. \A i \in 0 .. Slots - 1 :
          Pending(F, a, i) => Drops(F, j, n + 1, n + 1, i) /\ Open(j, n + 1, n + 1, L[i])
    <3>1. NoRun(j, n + 1, n + 1)
      BY <1>1 DEF NoRun
    <3>2. \A i \in 0 .. Slots - 1 : Pending(F, a, i) => x.from <= i /\ i <= x.to
      BY <1>1, <2>1 DEF Pending
    <3> QED
      BY <2>1, <2>6, <3>1, <3>2 DEF Drops, Open
  <2>9. \A p \in 1 .. n + 1 : j[p].op \in TornOps => ~NoRun(j, p, n + 1)
    <3> SUFFICES ASSUME NEW p \in 1 .. n + 1, j[p].op \in TornOps
                 PROVE  \E q \in p + 1 .. n + 1 : j[q].op \in RunOps
      BY DEF NoRun
    <3>1. p # n + 1 /\ p # s
      BY <2>1, <2>6 DEF TornOps, TeardownOps, RunOps
    <3>2. p \in 1 .. n
      BY <1>1, <3>1
    <3>3. ~(p \in s + 1 .. n)
      BY <2>6, <3>2
    <3>4. s \in p + 1 .. n + 1
      BY <1>1, <3>1, <3>2, <3>3
    <3> QED
      BY <2>6, <3>4
  <2>10. Sound(F, L, 0, j, n + 1)
    <3>1. n + 1 \in 1 .. n + 1
      BY <1>1
    <3> HIDE DEF F, L, a, k, n, j
    <3> QED
      BY <2>7, <2>8, <2>9, <3>1, ArgsDown
  <2>11. Kept(r)
    BY <2>4, <2>6, <2>10 DEF Kept
  <2> QED
    BY <2>4, <2>5, <2>11, CalmGiven DEF r
<1> QED
  BY <1>2, <1>3

\* The top of a thread that runs is what drop_args is made above.
LEMMA RunsDrop ==
  ASSUME NEW t, Form(t), Kept(t), RunsNow(t)
  PROVE  LET r == drop_args(t)
         IN  /\ Form(r) /\ Kept(r) /\ r.frames = t.frames /\ r.args = 0
             /\ Calm(t) => Calm(r) /\ Given(r)
<1>1. /\ ReadyNow(t) /\ Len(t.host) \in Nat /\ Len(t.host) >= 1
      /\ Upward(t.host)[Len(t.host)].op = "run"
  BY RunsReady
<1>2. /\ Len(t.host) \in 1 .. Len(t.host) /\ Upward(t.host)[Len(t.host)].op \in RunOps
      /\ \A q \in Len(t.host) + 1 .. Len(t.host) : FALSE
  BY <1>1 DEF RunOps
<1> QED
  BY <1>1, <1>2, DropArgsKept

\* A frame is left with the result ret.
LEMMA PopframeKept ==
  ASSUME NEW t, Form(t), Kept(t), RunsNow(t), Calm(t), NEW ret, NEW typed,
         Valid(t.frames, ret),
         \A p \in 1 .. Len(t.host) :
           Wall(Upward(t.host), Len(t.host), p) => Passes(Upward(t.host), p, ret)
  PROVE  Kept(popframe(t, ret, typed)) /\ Given(popframe(t, ret, typed))
<1> DEFINE F == t.frames
           k == Upward(t.host)
           n == Len(t.host)
           x == [op |-> "leave", frame |-> Depth(t), ret |-> ret, typed |-> typed]
           v == Push(t, <<x>>)
           j == Upward(v.host)
<1>1. /\ ReadyNow(t) /\ Strict(F, k, n) /\ n \in Nat /\ n >= 1 /\ k[n].op = "run"
      /\ Depth(t) \in Nat /\ Len(F) = Depth(t)
  BY RunsReady DEF StrictNow
<1>2. /\ x.op = "leave" /\ x.frame = Len(F) /\ IsCall(x) /\ Temporary(x) = ret
  BY <1>1 DEF IsCall, Ops, FloorOps, RunOps, Temporary
<1>3. Fresh(F, k, n, x)
  <2>1. \A q \in 1 .. n : BelowOther(x, k[q])
    BY <1>1, <1>2 DEF BelowOther, Strict
  <2>2. Carries(F, x)
    BY <1>1, <1>2 DEF Carries, Valid, Lev, FloorOps, RunOps
  <2>3. \A p \in 1 .. n : Wall(k, n, p) => Passes(k, p, Temporary(x))
    BY <1>2
  <2>4. n # 0
    BY <1>1
  <2> HIDE DEF F, k, n, x
  <2> QED
    BY <1>2, <2>1, <2>2, <2>3, <2>4 DEF Fresh, RunOps, TornOps, TeardownOps
<1>4. Form(v) /\ Kept(v) /\ StrictNow(v) /\ Onto(t, v, x) /\ Calm(v)
  <2>1. x.op # "drain" /\ x.op \notin {"start", "callback"}
    BY <1>2
  <2> HIDE DEF x
  <2> QED
    BY <1>1, <1>3, <2>1, FreshKept
<1>5. Len(v.host) = n + 1 /\ j[n + 1] = x /\ j[n] = k[n]
  BY <1>1, <1>4 DEF Onto
<1> HIDE DEF x, v
<1>6. ReadyNow(v)
  BY <1>2, <1>4, <1>5 DEF ReadyNow, Ready, StrictNow
<1>7. /\ n \in 1 .. Len(v.host) /\ j[n].op \in RunOps
      /\ \A q \in n + 1 .. Len(v.host) : j[q].op \notin TornOps
  BY <1>1, <1>2, <1>5 DEF RunOps, TornOps, TeardownOps
<1>8. Kept(drop_args(v)) /\ Given(drop_args(v))
  <2> HIDE DEF n
  <2> QED
    BY <1>4, <1>6, <1>7, DropArgsKept
<1> QED
  BY <1>8 DEF popframe, v, x

LEMMA RaiseStepKept ==
  ASSUME NEW t, Good(t), Kept(t), Given(t), t.host # <<>>, Item(t).op = "raise"
  PROVE  Kept(raiseStep(t, Item(t))) /\ Given(raiseStep(t, Item(t)))
<1> DEFINE x == Item(t)
           u == Pop(t)
           n == Len(u.host)
<1>1. /\ Form(t) /\ Form(u) /\ Alone(t, u) /\ n \in Nat /\ Len(t.host) = n + 1
      /\ OK(t.frames, t.locals, t.args, Upward(t.host), n + 1) /\ Upward(t.host)[n + 1] = x
      /\ \A p \in 1 .. n : Upward(u.host)[p] = Upward(t.host)[p]
      /\ x.target <= Depth(t) /\ x.target \in Int /\ Depth(t) \in Nat
  BY TopKept DEF Sound, Level, IsCall
<1>2. t.args = 0 /\ Calm(t) /\ Calm(u)
  BY <1>1, IdleArgs DEF TailOps
<1>3. CASE Depth(t) = x.target
  <2>1. RunsNow(u) /\ Kept(u)
    BY AboveRunNow, PopKept
  <2>2. Valid(u.frames, x.ret)
    <3>1. Carries(t.frames, x)
      BY <1>1 DEF OK, Called1
    <3> QED
      BY <1>1, <3>1 DEF Carries, Temporary, Alone
  <2>3. \A p \in 1 .. n : Wall(Upward(u.host), n, p) => Passes(Upward(u.host), p, x.ret)
    <3> SUFFICES ASSUME NEW p \in 1 .. n, Wall(Upward(u.host), n, p)
                 PROVE  Passes(Upward(u.host), p, x.ret)
      OBVIOUS
    <3> DEFINE k == Upward(t.host)
               j == Upward(u.host)
    <3>1. \A q \in 1 .. n : j[q] = k[q]
      BY <1>1
    <3>2. k[n + 1].op # "clear" /\ Temporary(k[n + 1]) = x.ret
      BY <1>1 DEF Temporary
    <3>3. OK(t.frames, t.locals, t.args, k, n + 1) /\ Wall(j, n, p)
      BY <1>1
    <3> HIDE DEF k, j, n
    <3>4. Passes(j, p, Temporary(k[n + 1]))
      BY <1>1, <3>1, <3>2, <3>3, PopPasses
    <3> QED
      BY <3>2, <3>4 DEF j
  <2>4. Kept(popframe(u, x.ret, x.typed)) /\ Given(popframe(u, x.ret, x.typed))
    <3> HIDE DEF u
    <3> QED
      BY <1>1, <1>2, <2>1, <2>2, <2>3, PopframeKept
  <2> QED
    BY <1>3, <2>4 DEF raiseStep
<1>4. CASE Depth(t) # x.target
  <2>1. x.target < Depth(t)
    BY <1>1, <1>4
  <2> QED
    BY <1>2, <1>4, <2>1, NextFrameKept DEF raiseStep
<1> QED
  BY <1>3, <1>4

LEMMA UnwindKept ==
  ASSUME NEW t, Good(t), Kept(t), Given(t), t.host # <<>>, Item(t).op = "unwind"
  PROVE  Kept(unwindStep(t, Item(t))) /\ Given(unwindStep(t, Item(t)))
<1> DEFINE x == Item(t)
           u == Pop(t)
<1>1. /\ Form(t) /\ Form(u) /\ Alone(t, u) /\ x.depth \in Nat /\ Depth(t) \in Nat
      /\ u.host # <<>>
  BY TopKept DEF IsCall, FloorOps, Under, Needy
<1>2. t.args = 0 /\ Calm(t) /\ Calm(u)
  BY <1>1, IdleArgs DEF TailOps
<1>3. CASE Depth(t) <= x.depth
  <2>1. Kept(u) /\ u.args = 0
    BY <1>1, <1>2, PopKept DEF Alone
  <2>2. Given(u)
    BY <1>2, <2>1, CalmGiven
  <2> QED
    BY <1>3, <2>1, <2>2 DEF unwindStep
<1>4. CASE ~(Depth(t) <= x.depth)
  <2>1. x.depth < Depth(t)
    BY <1>1, <1>4
  <2> QED
    BY <1>2, <1>4, <2>1, NextFrameKept DEF unwindStep
<1> QED
  BY <1>3, <1>4

LEMMA DropStepKept ==
  ASSUME NEW t, Good(t), Kept(t), Given(t), t.host # <<>>, Item(t).op = "drop_args"
  PROVE  Kept(drop_args(Pop(t))) /\ Given(drop_args(Pop(t)))
<1> DEFINE u == Pop(t)
           n == Len(u.host)
           k == Upward(u.host)
<1>1. /\ Form(t) /\ Form(u) /\ Alone(t, u) /\ Calm(u) /\ Kept(u) /\ StrictNow(u)
      /\ u.host # <<>> /\ u.host[1].op = "unwind" /\ k[n] = u.host[1] /\ n \in Nat
  <2>1. /\ Form(t) /\ Form(u) /\ Alone(t, u) /\ u.host # <<>> /\ u.host[1].op = "unwind"
        /\ k[n] = u.host[1] /\ n \in Nat
    BY TopKept DEF Under, Needy, Above
  <2>2. Calm(u)
    BY <2>1, CalmBelow
  <2>3. StrictNow(u)
    BY TopStrict DEF RunOps
  <2> QED
    BY <2>1, <2>2, <2>3, PopKept
<1>2. Good(u)
  BY PopPlain DEF HereOps, Keeps
<1>3. n >= 2 /\ k[n - 1].op = "rethrow"
  <2> DEFINE w == Pop(u)
  <2>1. Item(u) = u.host[1]
    BY <1>1, <1>2, TopFacts
  <2>2. Under(Item(u), w.host) /\ n = Len(w.host) + 1 /\ Len(w.host) \in Nat
    BY <1>1, <1>2, TopKept
  <2>3. w.host # <<>> /\ w.host[1].op = "rethrow"
    BY <1>1, <2>1, <2>2 DEF Under, Needy, Above
  <2>4. k[Len(w.host)] = w.host[1] /\ Len(w.host) >= 1
    BY <1>1, <1>2, <2>3, TopKept
  <2> HIDE DEF w
  <2> QED
    BY <2>2, <2>3, <2>4
<1>4. ReadyNow(u)
  BY <1>1 DEF ReadyNow, Ready, StrictNow
<1>5. /\ n - 1 \in 1 .. n /\ k[n - 1].op \in RunOps
      /\ \A q \in (n - 1) + 1 .. n : k[q].op \notin TornOps
  <2>1. \A q \in (n - 1) + 1 .. n : q = n
    BY <1>1, <1>3
  <2> QED
    BY <1>1, <1>3, <2>1 DEF RunOps, TornOps, TeardownOps
<1> HIDE DEF u
<1>6. n - 1 \in 1 .. Len(u.host)
  BY <1>5
<1> QED
  BY <1>1, <1>4, <1>5, <1>6, DropArgsKept DEF u

LEMMA ThrowStepKept ==
  ASSUME NEW t, Good(t), Kept(t), Given(t), t.host # <<>>, Item(t).op = "throw"
  PROVE  Kept(throw(Pop(t), None)) /\ Given(throw(Pop(t), None))
<1>1. Form(t) /\ Form(Pop(t))
  BY TopKept
<1>2. RunsNow(Pop(t)) /\ Pop(t).host # <<>>
  BY AboveRunNow
<1>3. Kept(Pop(t)) /\ Calm(Pop(t))
  BY <1>1, <1>2, PopKept, CalmBelow
<1> QED
  BY <1>1, <1>2, <1>3, ThrowKept

-------------------------------------------------------------------------------
(* A frame is gone, and its result is stored *)
\* What the call below the top one was made above.
LEMMA NextBelow ==
  ASSUME NEW t, Good(t), t.host # <<>>, Pop(t).host # <<>>, Pop(t).host[1].op \in Needy
  PROVE  LET h == Pop(t).host
         IN  /\ Len(h) \in Nat /\ Len(h) >= 2 /\ Above(h[1], Tail(h)[1])
             /\ Upward(h)[Len(h) - 1] = Tail(h)[1]
<1> DEFINE h == Pop(t).host
           e == After(t.host[1])
<1>1. Fit(t.host, Depth(t)) /\ Depth(t) \in Nat /\ IsCall(t.host[1]) /\ h = Tail(t.host)
  BY TopFacts, PopFields DEF Good, Fits
<1>2. e \in Int
  BY <1>1 DEF After, IsCall, FloorOps, RunOps
<1>3. Fit(h, e)
  BY <1>1, FitPop
<1> HIDE DEF h, e
<1>4. Under(h[1], Tail(h)) /\ h # <<>> /\ IsSequence(h)
  BY <1>2, <1>3, FitUnder DEF h, Fit
<1>5. Tail(h) # <<>> /\ Above(h[1], Tail(h)[1])
  BY <1>4 DEF Under, h
<1>6. IsSequence(Tail(h)) /\ Len(Tail(h)) \in Nat /\ Len(h) = Len(Tail(h)) + 1
  BY <1>4, PopSequence, UpwardTail
<1>7. Len(Tail(h)) = Len(Tail(Tail(h))) + 1 /\ Len(Tail(Tail(h))) \in Nat
      /\ Upward(Tail(h))[Len(Tail(h))] = Tail(h)[1]
  BY <1>5, <1>6, UpwardTail
<1>8. Len(Tail(h)) \in 1 .. Len(Tail(h)) /\ Len(h) - 1 = Len(Tail(h))
  BY <1>6, <1>7
<1>9. Upward(h)[Len(Tail(h))] = Upward(Tail(h))[Len(Tail(h))]
  BY <1>4, <1>8, UpwardTail
<1> QED
  BY <1>5, <1>6, <1>7, <1>8, <1>9 DEF h

LEMMA ForgetMoved ==
  ASSUME NEW t, Shape(t)
  PROVE  Moved1(t, forget(t))
BY DEF Moved1, forget, Shape, Fields

\* One frame less.
LEMMA FrontGrown ==
  ASSUME NEW F, IsSequence(F), Len(F) >= 1
  PROVE  Len(Front(F)) \in Nat /\ Grown(Front(F), F, F[Len(F)])
<1>1. PICK S : F \in Seq(S)
  BY DEF IsSequence
<1>2. Front(F) = SubSeq(F, 1, Len(F) - 1)
  BY DEF Front
<1>3. Len(F) \in Nat /\ Len(F) - 1 \in Nat
  BY <1>1
<1>4. Len(SubSeq(F, 1, Len(F) - 1)) = Len(F) - 1
      /\ \A d \in 1 .. Len(F) - 1 : SubSeq(F, 1, Len(F) - 1)[d] = F[d]
  <2> DEFINE m == Len(F) - 1
             g == SubSeq(F, 1, m)
  <2>1. m \in Int /\ 1 \in Int /\ \A i \in 1 .. m : F[i] \in S
    BY <1>1, <1>3
  <2> HIDE DEF m
  <2>2. /\ Len(g) = IF 1 <= m THEN m - 1 + 1 ELSE 0
        /\ \A i \in 1 .. m - 1 + 1 : g[i] = F[1 + i - 1]
    BY <2>1, SubSeqProperties
  <2> HIDE DEF g
  <2>3. Len(g) = m /\ \A i \in 1 .. m : g[i] = F[i]
    <3>1. m >= 0 /\ m - 1 + 1 = m
      BY <1>3, <2>1 DEF m
    <3>2. ASSUME NEW i \in 1 .. m PROVE 1 + i - 1 = i
      OBVIOUS
    <3> QED
      BY <2>1, <2>2, <3>1, <3>2
  <2> QED
    BY <2>3 DEF g, m
<1> DEFINE G == Front(F)
<1>5. Len(G) = Len(F) - 1 /\ \A d \in 1 .. Len(G) : F[d] = G[d]
  BY <1>2, <1>4
<1>6. Len(F) = Len(G) + 1 /\ Len(G) + 1 = Len(F)
  BY <1>3, <1>5
<1> HIDE DEF G
<1>7. Len(G) \in Nat /\ Grown(G, F, F[Len(F)])
  BY <1>3, <1>5, <1>6 DEF Grown
<1> QED
  BY <1>7 DEF G

LEMMA PopStepKept ==
  ASSUME NEW t, Good(t), Kept(t), Given(t), t.host # <<>>, Item(t).op = "pop"
  PROVE  Kept(popStep(t)) /\ Given(popStep(t))
<1> DEFINE x == Item(t)
           u == Pop(t)
           n == Len(u.host)
           F == t.frames
           L == t.locals
           k == Upward(t.host)
           j == Upward(u.host)
           G == Front(F)
           r == popStep(t)
           y == F[Len(F)]
<1>1. /\ Form(t) /\ Form(u) /\ Alone(t, u) /\ n \in Nat
      /\ Sound(F, L, t.args, k, n + 1)
      /\ \A p \in 1 .. n : j[p] = k[p]
      /\ k[n + 1] = x /\ IsCall(x) /\ Level(x, Depth(t)) /\ Under(x, u.host)
      /\ Len(F) = Depth(t) /\ Depth(t) \in Nat
  BY TopKept
<1>2. /\ u.host # <<>> /\ x.frame = Len(F) /\ Len(F) >= 1 /\ After(x) = Len(F) - 1
  BY <1>1 DEF Under, Needy, Level, IsCall, After, FloorOps, RunOps
<1>3. /\ n >= 1 /\ k[n] = u.host[1] /\ Level(u.host[1], Len(F) - 1)
  BY <1>1, <1>2, TopKept
<1>4. t.args = 0 /\ Calm(u)
  BY <1>1, IdleArgs DEF TailOps
<1>5. k[n].op \in {"result", "raise", "unwind"}
  BY <1>1, <1>2, <1>3 DEF Under, Above
<1>6. k[n].op = "raise" => k[n].target <= Len(F) - 1
  BY <1>3 DEF Level
<1>7. ASSUME k[n].op # "raise" PROVE n >= 2 /\ k[n - 1].op \in RunOps
  <2>1. u.host[1].op \in Needy
    BY <1>3, <1>5 DEF Needy
  <2>2. n >= 2 /\ Above(u.host[1], Tail(u.host)[1]) /\ j[n - 1] = Tail(u.host)[1]
    BY <1>2, <2>1, NextBelow
  <2>3. j[n - 1].op \in RunOps
    BY <1>3, <1>5, <1>7, <2>2 DEF Above, RunOps
  <2>4. n - 1 \in 1 .. n
    BY <1>1, <2>2
  <2> QED
    BY <1>1, <2>2, <2>3, <2>4
<1>8. Len(G) \in Nat /\ Grown(G, F, y)
  BY <1>1, <1>2, FrontGrown DEF Form
<1>9. Sound(G, L, 0, j, n)
  <2>1. Sound(F, L, 0, k, n + 1)
    BY <1>1, <1>4
  <2>2. k[n + 1].op = "pop" /\ k[n + 1].frame = Len(F)
    BY <1>1, <1>2
  <2> HIDE DEF F, L, k, j, n, G, y
  <2> QED
    BY <1>1, <1>3, <1>5, <1>6, <1>7, <1>8, <2>1, <2>2, FramePop
<1>10. /\ r.frames = G /\ r.locals = L /\ r.args = 0 /\ r.host = u.host
  <2>1. Moved1(u, forget(u)) /\ u.frames = F /\ u.locals = L /\ u.args = 0
    BY <1>1, <1>4, ForgetMoved DEF Form, Alone
  <2>2. r = [forget(u) EXCEPT !.frames = Front(@)]
    BY DEF popStep
  <2> HIDE DEF u, r
  <2> QED
    BY <2>1, <2>2 DEF Moved1, Shape, Fields
<1>11. Kept(r) /\ Calm(r)
  BY <1>4, <1>9, <1>10 DEF Kept, Calm
<1> QED
  BY <1>10, <1>11, CalmGiven

\* The frames below the top one.
LEMMA EndsBelow ==
  ASSUME NEW F, Layout(F), NEW e \in 1 .. Len(F)
  PROVE  /\ Len(F) \in Nat /\ Len(F) \in 1 .. Len(F)
         /\ F[e].base \in Nat /\ End(F, e) \in Nat /\ F[Len(F)].base \in Nat
         /\ F[e].base < End(F, e) /\ F[e].base <= F[Len(F)].base
         /\ e # Len(F) => End(F, e) <= F[Len(F)].base /\ F[e].base < F[Len(F)].base
<1>1. /\ Len(F) \in Nat /\ e \in 1 .. Len(F) /\ e \in 0 .. Len(F) /\ Len(F) \in 0 .. Len(F)
      /\ Len(F) \in 1 .. Len(F)
  BY DEF Layout
<1>2. F[e].base \in Nat /\ End(F, e) \in Nat /\ F[Len(F)].base \in Nat /\ F[e].base < End(F, e)
  BY <1>1, Ends
<1>3. e # Len(F) => e < Len(F)
  BY <1>1
<1>4. e # Len(F) => End(F, e) <= F[Len(F)].base
  BY <1>1, <1>3, Ends
<1>5. e = Len(F) => F[e].base = F[Len(F)].base
  OBVIOUS
<1> QED
  BY <1>1, <1>2, <1>4, <1>5

ResultAt(F, s) == IF Len(F) = 0 THEN 0 ELSE F[Len(F)].base + s

\* Where a result goes: nothing is there that would be dropped by it, or it is
\* a register of a frame that is going on.
Receives(F, L, j, n, i, v) ==
  /\ Admits(F, 0, j, n, i, v)
  /\ i < Lim(F) \/ (i = 0 /\ Waits(F, j, n, 0))
  /\ Runs(F, j, n) \/ L[i] = None \/ \E q \in 1 .. n : j[q].op = "drain"

LEMMA ResultAdmits ==
  ASSUME NEW F, NEW L, NEW k, NEW n \in Nat, Sound(F, L, 0, k, n + 1), n >= 1,
         k[n + 1].op = "result", k[n + 1].frame = Len(F),
         k[n].op = "run", k[n].depth <= Len(F), 0 \in 0 .. Slots - 1,
         NEW j, \A p \in 1 .. n : j[p] = k[p], OK(F, L, 0, j, n)
  PROVE  Receives(F, L, j, n, ResultAt(F, k[n + 1].slot), k[n + 1].ret)
<1> DEFINE d == Len(F)
           x == k[n + 1]
           v == x.ret
           i == ResultAt(F, k[n + 1].slot)
<1>0. /\ Len(F) = 0 => i = 0
      /\ Len(F) # 0 => i = F[Len(F)].base + k[n + 1].slot
  BY DEF ResultAt
<1> HIDE DEF i
<1>1. /\ Layout(F) /\ OK(F, L, 0, k, n + 1) /\ Lim(F) <= Slots
      /\ \A p \in 1 .. n + 1 : Called1(F, k, n + 1, p) /\ Walls(F, L, 0, k, n + 1, p)
  BY DEF Sound, OK
<1>2. /\ d \in Nat /\ Lim(F) = End(F, d)
      /\ \A e \in 1 .. d : /\ F[e].base \in Nat /\ Registers[F[e].func] \in Nat \ {0}
                           /\ End(F, e) = F[e].base + Registers[F[e].func]
      /\ \A e, f \in 0 .. d : e < f => End(F, e) <= F[f].base
      /\ \A e \in 0 .. d : End(F, e) \in Nat
  BY <1>1, Ends
<1>3. /\ n + 1 \in 1 .. n + 1 /\ n \in 1 .. n + 1 /\ n \in 1 .. n
      /\ \A p \in 1 .. n : p \in 1 .. n + 1 /\ p \in 1 .. n + 1 - 1
  OBVIOUS
<1>4. \A p \in 1 .. n : Placed(F, k, n + 1, p) /\ IsCall(k[p])
  BY <1>1, <1>3 DEF Called1, Placed
<1>5. Placed(F, k, n + 1, n + 1) /\ IsCall(x) /\ Carries(F, x) /\ BelowOther(x, k[n])
  BY <1>1, <1>3 DEF Called1, Placed, Below
<1>6. Valid(F, v) /\ (IsVar(v) => v.frame \in 1 .. d)
  BY <1>5 DEF Carries, Temporary, Valid
<1>7. \A p \in 1 .. n : Wall(j, n, p) => Passes(j, p, v)
  <2> SUFFICES ASSUME NEW p \in 1 .. n, Wall(j, n, p) PROVE Passes(j, p, v)
    OBVIOUS
  <2>1. k[n + 1].op # "clear" /\ Temporary(k[n + 1]) = v
    BY DEF Temporary
  <2> HIDE DEF x, v, d
  <2> QED
    BY <1>1, <2>1, PopPasses
<1>8. j[n] = k[n] /\ j[n].op = "run" /\ k[n].depth \in 0 .. d
  BY <1>2, <1>3, <1>4 DEF IsCall, FloorOps, RunOps
<1>9. x.slot \in Nat /\ (d >= 1 => x.slot < Registers[F[d].func])
  BY <1>2, <1>5 DEF Placed
<1>10. ASSUME d = 0 PROVE Receives(F, L, j, n, i, v)
  <2>1. i = 0 /\ k[n].depth = 0 /\ Lim(F) = 0
    BY <1>0, <1>2, <1>8, <1>10 DEF End
  <2>2. Waits(F, j, n, 0)
    BY <1>8, <1>10, <2>1 DEF Waits
  <2>3. ~IsVar(v)
    BY <1>2, <1>6, <1>10
  <2>4. Admits(F, 0, j, n, i, v)
    <3>1. Holds(F, i, v)
      BY <1>6, <2>3 DEF Holds
    <3>2. ASSUME NEW p \in 1 .. n, Torn(j, n, p) PROVE FALSE
      BY <1>2, <1>3, <1>4, <1>10, <3>2
         DEF Torn, Placed, TornOps, TeardownOps, IsCall, FloorOps, RunOps
    <3>3. ASSUME NEW p \in 1 .. n, j[p].op = "run", j[p].depth >= 1 PROVE FALSE
      <4>1. k[p].depth <= 0 /\ k[p].depth \in Nat
        BY <1>3, <1>4, <1>10, <3>3 DEF Placed, RunOps, IsCall, FloorOps
      <4> QED
        BY <3>3, <4>1
    <3>4. \A p \in 1 .. n : Passes(j, p, v)
      BY <2>3 DEF Passes
    <3> HIDE DEF v
    <3> QED
      BY <3>1, <3>2, <3>3, <3>4 DEF Admits
  <2>5. L[i] = None \/ \E q \in 1 .. n : j[q].op = "drain"
    <3> SUFFICES ASSUME L[0] # None PROVE \E q \in 1 .. n : j[q].op = "drain"
      BY <2>1
    <3>1. ~Pending(F, 0, 0) /\ ~Waits(F, k, n + 1, 0)
      BY <2>1, <1>3 DEF Pending, Waits
    <3>2. PICK p \in 1 .. n + 1 : Drops(F, k, n + 1, p, 0) /\ Open(k, n + 1, p, L[0])
      BY <2>1, <3>1 DEF Sound, Occupied
    <3>3. p \in 1 .. n - 1
      BY <1>8, <3>2 DEF Drops
    <3>4. ~NoRun(k, p, n + 1)
      BY <1>8, <3>3 DEF NoRun, RunOps
    <3>5. PICK q \in p + 1 .. n + 1 : k[q].op = "drain"
      BY <3>2, <3>4 DEF Open
    <3> QED
      BY <3>3, <3>5
  <2> QED
    BY <2>1, <2>2, <2>4, <2>5 DEF Receives
<1>11. ASSUME d >= 1 PROVE Receives(F, L, j, n, i, v)
  <2>1. /\ i = F[d].base + x.slot /\ i \in 0 .. Slots - 1
        /\ F[d].base <= i /\ i < Lim(F) /\ d \in 1 .. d
    <3>1. d \in 1 .. d /\ i = F[d].base + x.slot
      BY <1>0, <1>2, <1>11
    <3> DEFINE b == F[d].base
               s == x.slot
               g == Registers[F[d].func]
               l == Lim(F)
    <3>2. b \in Nat /\ g \in Nat /\ s \in Nat /\ s < g /\ l = b + g /\ l <= Slots /\ i = b + s
      BY <1>1, <1>2, <1>9, <1>11, <3>1
    <3>3. Slots \in Nat
      BY CallFramesAssumption
    <3> HIDE DEF b, s, g, l
    <3>4. i \in 0 .. Slots - 1 /\ b <= i /\ i < l
      BY <3>2, <3>3
    <3> QED
      BY <3>1, <3>4 DEF b, l
  <2>2. Holds(F, i, v)
    <3> SUFFICES ASSUME IsVar(v) PROVE F[v.frame].base <= i
      BY <1>6 DEF Holds
    <3>1. v.frame \in 1 .. d
      BY <1>6
    <3>2. F[v.frame].base <= F[d].base
      BY <1>1, <3>1, EndsBelow
    <3>3. F[v.frame].base \in Int /\ F[d].base \in Int /\ i \in Int
      <4>1. F[v.frame].base \in Nat /\ F[d].base \in Nat
        BY <1>2, <2>1, <3>1
      <4>2. i \in 0 .. Slots - 1
        BY <2>1
      <4> QED
        BY <4>1, <4>2
    <3> QED
      BY <2>1, <3>2, <3>3, AtMost
  <2>3. CASE k[n].depth < d
    <3>1. Runs(F, j, n)
      BY <1>8, <2>3 DEF Runs
    <3>2. Admits(F, 0, j, n, i, v)
      <4> HIDE DEF d, v
      <4> QED
        BY <1>7, <2>1, <2>2, <3>1, WriteHere DEF d
    <3> QED
      BY <2>1, <3>1, <3>2 DEF Receives
  <2>4. CASE k[n].depth = d
    <3>1. x.slot = 0 /\ i = F[d].base /\ Waits(F, j, n, d)
      BY <1>2, <1>5, <1>8, <2>1, <2>4 DEF BelowOther, RunOps, Waits
    <3>2. ASSUME NEW e \in 1 .. d, e # d PROVE End(F, e) <= F[d].base /\ F[e].base < F[d].base
      BY <1>1, <3>2, EndsBelow
    <3>3. Admits(F, 0, j, n, i, v)
      <4>1. ASSUME NEW p \in 1 .. n, Torn(j, n, p)
            PROVE  \/ ~(F[j[p].frame].base <= i /\ i < End(F, j[p].frame))
                   \/ i = F[j[p].frame].base /\ Waits(F, j, n, j[p].frame)
        <5>1. k[p].frame \in 1 .. d /\ j[p] = k[p]
          <6>1. j[p] = k[p] /\ k[p].op \in TornOps
            BY <4>1 DEF Torn
          <6>2. k[p].frame <= d /\ k[p].frame >= 1
            BY <1>4, <6>1 DEF Placed
          <6>3. k[p].frame \in Int
            BY <1>4, <6>1 DEF IsCall, FloorOps, RunOps, TornOps, TeardownOps
          <6> QED
            BY <1>2, <6>1, <6>2, <6>3
        <5>2. CASE k[p].frame = d
          BY <3>1, <5>1, <5>2
        <5>3. CASE k[p].frame # d
          <6>1. End(F, k[p].frame) <= i /\ End(F, k[p].frame) \in Nat /\ i \in Nat
            BY <1>2, <2>1, <3>1, <3>2, <5>1, <5>3
          <6> QED
            BY <5>1, <6>1
        <5> QED
          BY <5>2, <5>3
      <4>2. ASSUME NEW p \in 1 .. n, j[p].op = "run", j[p].depth >= 1
            PROVE  i # F[j[p].depth].base \/ (p = n /\ d = j[p].depth)
        <5>1. CASE p = n
          <6>1. j[p].depth = d
            BY <1>8, <2>4, <5>1
          <6> QED
            BY <5>1, <6>1
        <5>2. CASE p # n
          <6>1. BelowRun(k[n], k[p])
            <7>1. p \in 1 .. n - 1 /\ Below(k, n)
              BY <1>1, <1>3, <5>2 DEF Called1
            <7> QED
              BY <1>8, <7>1 DEF Below, RunOps
          <6>2. k[p].depth < d /\ k[p].depth \in Nat /\ j[p] = k[p]
            BY <1>4, <2>4, <4>2, <6>1 DEF BelowRun, RunOps, IsCall, FloorOps
          <6>3. k[p].depth \in 1 .. d /\ k[p].depth # d
            BY <1>2, <4>2, <6>2
          <6>4. F[k[p].depth].base < F[d].base /\ F[k[p].depth].base \in Nat /\ F[d].base \in Nat
            BY <1>2, <2>1, <3>2, <6>3
          <6> QED
            BY <3>1, <6>2, <6>4
        <5> QED
          BY <5>1, <5>2
      <4> HIDE DEF v, d, x
      <4> QED
        BY <1>7, <2>2, <4>1, <4>2 DEF Admits, d
    <3>4. L[i] = None \/ \E q \in 1 .. n : j[q].op = "drain"
      <4>1. Zero(F, L, k, n + 1, n)
        BY <1>1, <1>3 DEF Walls
      <4>2. n # n + 1
        OBVIOUS
      <4>3. Found(k, n, d) => \E q \in 1 .. n : j[q].op = "drain"
        BY DEF Found
      <4> QED
        BY <1>8, <1>11, <2>4, <3>1, <4>1, <4>2, <4>3 DEF Zero
    <3> QED
      BY <2>1, <3>3, <3>4 DEF Receives
  <2> QED
    BY <1>8, <2>3, <2>4
<1> QED
  BY <1>2, <1>10, <1>11 DEF i

LEMMA ResultKept ==
  ASSUME NEW t, Good(t), Kept(t), Given(t), t.host # <<>>, Fitting(t.frames),
         Item(t).op = "result"
  PROVE  Kept(resultStep(t, Item(t))) /\ Given(resultStep(t, Item(t)))
<1> DEFINE x == Item(t)
           u == Pop(t)
           n == Len(u.host)
           F == t.frames
           L == t.locals
           k == Upward(t.host)
           j == Upward(u.host)
           i == IF Depth(t) = 0 THEN 0 ELSE local(t, x.slot)
           r == Assign(u, i, x.ret)
<1>1. /\ Form(t) /\ Form(u) /\ Alone(t, u) /\ n \in Nat
      /\ Sound(F, L, t.args, k, n + 1)
      /\ \A p \in 1 .. n : j[p] = k[p]
      /\ k[n + 1] = x /\ Level(x, Depth(t)) /\ Under(x, u.host) /\ IsCall(x)
      /\ Len(F) = Depth(t) /\ Depth(t) \in Nat
  BY TopKept
<1>2. u.host # <<>> /\ u.host[1].op = "run" /\ x.frame = Len(F) /\ After(x) = Depth(t)
  BY <1>1 DEF Under, Needy, Above, Level, After, FloorOps, RunOps
<1>3. n >= 1 /\ k[n] = u.host[1] /\ k[n].op = "run" /\ k[n].depth <= Len(F)
  BY <1>1, <1>2, TopKept DEF Level
<1>4. t.args = 0 /\ Calm(u)
  BY <1>1, IdleArgs DEF TailOps
<1>5. Kept(u)
  BY <1>2, PopKept
<1>6. OK(F, L, 0, j, n) /\ Sound(F, L, 0, k, n + 1)
  BY <1>1, <1>4, <1>5 DEF Kept, Alone, Sound
<1>7. 0 \in 0 .. Slots - 1
  <2>1. "fin" \in Functions /\ Registers["fin"] \in Nat \ {0} /\ Slots \in Nat
    BY CallFramesAssumption
  <2>2. Lim(F) + Registers["fin"] <= Slots /\ Lim(F) \in Nat
    BY <1>6, <2>1, Ends DEF Fitting, OK
  <2> QED
    BY <2>1, <2>2
<1>8. i = ResultAt(F, k[n + 1].slot)
  BY <1>1 DEF local, Top, ResultAt
<1>9. /\ Admits(F, 0, j, n, i, x.ret)
      /\ i < Lim(F) \/ (i = 0 /\ Waits(F, j, n, 0))
      /\ Runs(F, j, n) \/ L[i] = None \/ \E q \in 1 .. n : j[q].op = "drain"
  <2> DEFINE c == ResultAt(F, k[n + 1].slot)
  <2>1. k[n + 1].op = "result" /\ k[n + 1].frame = Len(F) /\ x.ret = k[n + 1].ret
    BY <1>1, <1>2
  <2> HIDE DEF F, L, k, j, n, i
  <2>2. Receives(F, L, j, n, c, k[n + 1].ret)
    <3>1. n \in Nat /\ n >= 1 /\ Sound(F, L, 0, k, n + 1) /\ OK(F, L, 0, j, n)
      BY <1>1, <1>3, <1>6
    <3>2. k[n].op = "run" /\ k[n].depth <= Len(F) /\ \A p \in 1 .. n : j[p] = k[p]
      BY <1>1, <1>3
    <3> QED
      BY <1>7, <2>1, <3>1, <3>2, ResultAdmits DEF c
  <2> HIDE DEF c
  <2>3. i = c
    BY <1>8 DEF c
  <2> QED
    BY <2>1, <2>2, <2>3 DEF Receives
<1>10. Writable(u, i, x.ret)
  BY <1>1, <1>4, <1>9 DEF Writable, Alone
<1>11. u.in_collection \/ u.locals[i] = None \/ (StrictNow(u) /\ ~Above1(u, "ffi"))
  <2>1. ASSUME Runs(F, j, n) PROVE StrictNow(u) /\ ~Above1(u, "ffi")
    <3>1. RunsNow(u)
      BY <1>1, <2>1 DEF RunsNow, Alone
    <3> HIDE DEF u
    <3> QED
      BY <1>1, <1>5, <3>1, RunsReady
  <2>2. ASSUME NEW q \in 1 .. n, j[q].op = "drain" PROVE u.in_collection
    BY <1>1, <2>2 DEF Form, HasDrain
  <2> QED
    BY <1>1, <1>9, <2>1, <2>2 DEF Alone
<1> HIDE DEF u, i
<1>12. Assigned(u, i, x.ret, r)
  BY <1>1, <1>5, <1>10, <1>11, AssignKept
<1>13. Kept(r) /\ Given(r)
  BY <1>1, <1>4, <1>12 DEF Assigned, Alone
<1> QED
  BY <1>13 DEF resultStep, u, i

-------------------------------------------------------------------------------
(* A tail call *)
\* Arguments that do not fit are dropped before the error.
LEMMA BadArgsKept ==
  ASSUME NEW t, Form(t), Kept(t), RunsNow(t)
  PROVE  Kept(badArgs(t)) /\ (Calm(t) => Given(badArgs(t)))
<1> DEFINE F == t.frames
           k == Upward(t.host)
           n == Len(t.host)
           x == [op |-> "throw", frame |-> Depth(t)]
           v == Push(t, <<x>>)
           j == Upward(v.host)
<1>1. /\ ReadyNow(t) /\ Strict(F, k, n) /\ n \in Nat /\ n >= 1 /\ k[n].op = "run"
      /\ Depth(t) \in Nat /\ Len(F) = Depth(t)
  BY RunsReady DEF StrictNow
<1>2. /\ x.op = "throw" /\ x.frame = Len(F) /\ IsCall(x) /\ Temporary(x) = None
  BY <1>1 DEF IsCall, Ops, FloorOps, RunOps, Temporary
<1>3. Fresh(F, k, n, x)
  <2>1. \A q \in 1 .. n : BelowOther(x, k[q])
    BY <1>1, <1>2 DEF BelowOther, Strict
  <2>2. Carries(F, x) /\ \A p \in 1 .. n : Passes(k, p, Temporary(x))
    BY <1>2 DEF Carries, Valid, Passes, IsVar, None
  <2>3. n # 0
    BY <1>1
  <2> HIDE DEF F, k, n, x
  <2> QED
    BY <1>2, <2>1, <2>2, <2>3 DEF Fresh, RunOps, TornOps, TeardownOps
<1>4. Form(v) /\ Kept(v) /\ StrictNow(v) /\ Onto(t, v, x) /\ (Calm(t) => Calm(v))
  <2>1. x.op # "drain" /\ x.op \notin {"start", "callback"}
    BY <1>2
  <2> HIDE DEF x
  <2> QED
    BY <1>1, <1>3, <2>1, FreshKept
<1>5. Len(v.host) = n + 1 /\ j[n + 1] = x /\ j[n] = k[n]
  BY <1>1, <1>4 DEF Onto
<1> HIDE DEF x, v
<1>6. ReadyNow(v)
  BY <1>2, <1>4, <1>5 DEF ReadyNow, Ready, StrictNow
<1>7. /\ n \in 1 .. Len(v.host) /\ j[n].op \in RunOps
      /\ \A q \in n + 1 .. Len(v.host) : j[q].op \notin TornOps
  BY <1>1, <1>2, <1>5 DEF RunOps, TornOps, TeardownOps
<1>8. Kept(drop_args(v)) /\ (Calm(v) => Given(drop_args(v)))
  <2> HIDE DEF n
  <2> QED
    BY <1>4, <1>6, <1>7, DropArgsKept
<1> QED
  BY <1>4, <1>8 DEF badArgs, v, x

\* The arguments are in the registers of the top frame: an error may go on.
LEMMA MovedSound ==
  ASSUME NEW F, NEW L, NEW a, NEW k, NEW n, Sound(F, L, a, k, n), Runs(F, k, n),
         a <= Registers[F[Len(F)].func], NEW c \in Nat, a <= c, Lim(F) + c <= Slots,
         NEW M, Moved(F, L, a, M)
  PROVE  Sound(F, M, 0, k, n)
<1> DEFINE d == Len(F)
           b == F[d].base
           l == Lim(F)
<1>0. OK(F, L, a, k, n) /\ Layout(F) /\ a \in Nat /\ Held1(F, L)
  BY DEF Sound, OK
<1>1. /\ OK(F, L, a, k, n) /\ Layout(F) /\ a \in Nat /\ Held1(F, L) /\ n \in Nat /\ n >= 1
      /\ k[n].op = "run" /\ Strict(F, k, n) /\ d \in Nat /\ d >= 1
  <2> HIDE DEF d
  <2> QED
    BY <1>0, RunsStrict DEF d
<1>2. d \in Nat /\ d >= 1
  BY <1>1
<1>3. /\ d \in 1 .. d /\ b \in Nat /\ l \in Nat /\ Registers[F[d].func] \in Nat
      /\ l = b + Registers[F[d].func]
      /\ \A e \in 1 .. d : F[e].base \in Nat /\ F[e].base <= b
  <2>1. d \in 1 .. d /\ \A e \in 1 .. d : F[e].base \in Nat /\ F[e].base <= b
    BY <1>1, <1>2, EndsBelow
  <2>2. /\ F[d].base \in Nat /\ Registers[F[d].func] \in Nat /\ Lim(F) \in Nat
        /\ Lim(F) = F[d].base + Registers[F[d].func]
    BY <1>1, <2>1, Ends
  <2> QED
    BY <2>1, <2>2
<1>4. DOMAIN M = 0 .. Slots - 1
  BY DEF Moved
<1>5. ASSUME NEW i \in 0 .. Slots - 1
      PROVE  \/ M[i] = L[i] \/ M[i] = None
             \/ /\ Admits(F, a, k, n, i, M[i])
                /\ i < Lim(F) \/ Pending(F, a, i) \/ (i = 0 /\ Waits(F, k, n, 0))
  <2>1. CASE ~(b <= i /\ i < b + a)
    BY <2>1 DEF Moved
  <2>2. CASE b <= i /\ i < b + a
    <3> DEFINE e == l + (i - b)
    <3>1. M[i] = L[e]
      BY <2>2 DEF Moved
    <3>2. e \in 0 .. Slots - 1 /\ i <= e /\ i < l
      <4> DEFINE g == Registers[F[d].func]
      <4>1. /\ Slots \in Nat /\ l + c <= Slots /\ g \in Nat /\ l = b + g /\ a <= g /\ b \in Nat
            /\ l \in Nat /\ i < b + a /\ b <= i
        BY <1>3, <2>2, CallFramesAssumption
      <4> HIDE DEF l, b, g
      <4> QED
        BY <1>1, <4>1, MoveArithmetic
    <3>3. b <= e
      BY <1>3, <2>2, <3>2
    <3> HIDE DEF e
    <3>4. \A p \in 1 .. n : Wall(k, n, p) => Passes(k, p, L[e])
      BY <1>1, <1>2, <3>2, <3>3, AboveWalls
    <3>5. Holds(F, i, L[e])
      <4>1. Valid(F, L[e])
        BY <1>1, <3>2 DEF Held1, Holds
      <4>2. ASSUME IsVar(L[e]) PROVE F[L[e].frame].base <= i
        <5>1. L[e].frame \in 1 .. d
          BY <4>1, <4>2 DEF Valid
        <5>2. F[L[e].frame].base \in Int /\ F[L[e].frame].base <= b
          BY <1>3, <5>1
        <5>3. b \in Int /\ i \in Int /\ b <= i
          BY <1>3, <2>2
        <5> HIDE DEF b
        <5> QED
          BY <5>2, <5>3, AtMost
      <4> QED
        BY <4>1, <4>2 DEF Holds
    <3>6. Admits(F, a, k, n, i, L[e])
      BY <1>1, <2>2, <3>4, <3>5, WriteHere
    <3> QED
      BY <3>1, <3>2, <3>6
  <2> QED
    BY <2>1, <2>2
<1>6. Sound(F, M, a, k, n)
  BY <1>4, <1>5, WriteSound
<1>7. \A i \in 0 .. Slots - 1 : Pending(F, a, i) => M[i] = None
  <2> SUFFICES ASSUME NEW i \in 0 .. Slots - 1, Pending(F, a, i) PROVE M[i] = None
    OBVIOUS
  <2>1. ~(i < b + a)
    BY <1>1, <1>3 DEF Pending
  <2> QED
    BY <2>1 DEF Moved
<1>8. Firm(F, M, a)
  BY <1>7 DEF Firm, IsVar, None
<1> QED
  BY <1>6, <1>7, <1>8, ArgsDown

\* The thread u with its arguments moved to the first m registers of the frame.
MovedDown(u, m) ==
  [u EXCEPT !.args = 0,
     !.locals = [i \in DOMAIN @ |->
       IF i \in local(u, 0) .. local(u, m - 1) THEN @[arg(u, i - Top(u).base)]
       ELSE IF i \in arg(u, 0) .. arg(u, m - 1) THEN None ELSE @[i]]]

LEMMA MovedDownIs ==
  ASSUME NEW u, Form(u), Layout(u.frames), Depth(u) >= 1, Held1(u.frames, u.locals),
         NEW m \in Nat
  PROVE  LET r == MovedDown(u, m)
         IN  /\ Moved(u.frames, u.locals, m, r.locals) /\ Shape(r) /\ r.frames = u.frames
             /\ r.args = 0 /\ r.host = u.host /\ r.in_collection = u.in_collection
<1> DEFINE r == MovedDown(u, m)
           F == u.frames
           L == u.locals
           d == Len(F)
           b == F[d].base
           l == Lim(F)
<1>1. /\ Shape(r) /\ r.frames = F /\ r.args = 0 /\ r.host = u.host
      /\ r.in_collection = u.in_collection
      /\ r.locals = [i \in DOMAIN L |->
           IF i \in local(u, 0) .. local(u, m - 1) THEN L[arg(u, i - Top(u).base)]
           ELSE IF i \in arg(u, 0) .. arg(u, m - 1) THEN None ELSE L[i]]
  BY DEF MovedDown, Form, Shape, Fields
<1>2. d \in Nat /\ d = Depth(u) /\ d \in 1 .. d
  BY FormFacts
<1>3. b \in Nat /\ l \in Nat /\ Slots \in Nat
  BY <1>2, Ends, CallFramesAssumption
<1>4. Top(u).base = b /\ local(u, 0) = b + 0 /\ local(u, m - 1) = b + (m - 1)
  BY <1>2 DEF Top, local
<1>5. ASSUME NEW e \in Int PROVE arg(u, e) = l + e
  BY ArgIs
<1>6. arg(u, 0) = l + 0 /\ arg(u, m - 1) = l + (m - 1)
  BY <1>5
<1>7. DOMAIN L = 0 .. Slots - 1
  BY DEF Held1
<1>8. ASSUME NEW i \in 0 .. Slots - 1
      PROVE  r.locals[i] = IF b <= i /\ i < b + m THEN L[l + (i - b)]
                           ELSE IF Pending(F, m, i) THEN None ELSE L[i]
  <2>1. i - b \in Int /\ arg(u, i - b) = l + (i - b)
    <3>1. i - b \in Int
      BY <1>3
    <3> HIDE DEF b, l
    <3> QED
      BY <3>1, <1>5
  <2>2. i \in local(u, 0) .. local(u, m - 1) <=> b <= i /\ i < b + m
    BY <1>3, <1>4
  <2>3. i \in arg(u, 0) .. arg(u, m - 1) <=> Pending(F, m, i)
    BY <1>3, <1>6 DEF Pending
  <2>4. r.locals[i] = IF i \in local(u, 0) .. local(u, m - 1) THEN L[arg(u, i - Top(u).base)]
                      ELSE IF i \in arg(u, 0) .. arg(u, m - 1) THEN None ELSE L[i]
    BY <1>1, <1>7
  <2> HIDE DEF r, L, l, b
  <2> QED
    BY <1>4, <2>1, <2>2, <2>3, <2>4
<1>9. Moved(F, L, m, r.locals)
  <2>1. DOMAIN r.locals = 0 .. Slots - 1
    BY <1>1, <1>7
  <2> HIDE DEF r
  <2> QED
    BY <1>8, <2>1 DEF Moved
<1> QED
  BY <1>1, <1>9

\* Another function takes the top frame.
LEMMA RecalledIs ==
  ASSUME NEW F, Layout(F), IsSequence(F), Len(F) >= 1, NEW f
  PROVE  Recalled(F, [F EXCEPT ![Len(F)].func = f], f)
<1> DEFINE d == Len(F)
           y == [F[d] EXCEPT !.func = f]
           G == [F EXCEPT ![d] = y]
<1>1. PICK S : F \in Seq(S)
  BY DEF IsSequence
<1>2. d \in Nat /\ DOMAIN F = 1 .. d /\ d \in 1 .. d
  BY <1>1
<1>3. \A e \in 1 .. d : G[e] = IF e = d THEN y ELSE F[e]
  BY <1>2
<1>4. IsFrame(F[d])
  BY <1>2 DEF Layout
<1>5. IsFrame(y) /\ y.func = f /\ y.base = F[d].base /\ y.dst = F[d].dst
  BY <1>4 DEF IsFrame
<1>6. Len(G) = d
  <2>1. G \in Seq(S \cup {y})
    <3>1. F \in Seq(S \cup {y}) /\ y \in S \cup {y}
      BY <1>1
    <3> HIDE DEF y
    <3> QED
      BY <1>2, <3>1
  <2>2. DOMAIN G = 1 .. d
    BY <1>2
  <2> HIDE DEF G
  <2> QED
    BY <1>2, <2>1, <2>2
<1>7. \A e \in 1 .. d : IsFrame(F[e]) /\ (e < d => e # d)
  <2>1. \A e \in 1 .. d : IsFrame(F[e])
    BY DEF Layout
  <2>2. d \in Nat
    BY <1>2
  <2> HIDE DEF d
  <2>3. \A e \in 1 .. d : e < d => e # d
    BY <2>2
  <2> QED
    BY <2>1, <2>3
<1> HIDE DEF y
<1>8. Recalled(F, G, f)
  BY <1>2, <1>3, <1>5, <1>6, <1>7 DEF Recalled
<1> QED
  BY <1>8 DEF y

LEMMA TailcallStepKept ==
  ASSUME NEW t, Good(t), Kept(t), Given(t), t.host # <<>>, Fitting(t.frames),
         Item(t).op = "tailcall"
  PROVE  Kept(tailcallStep(t, Item(t))) /\ Given(tailcallStep(t, Item(t)))
<1> DEFINE x == Item(t)
           u == Pop(t)
           f == x.func
           m == Params[f]
           n == Len(u.host)
           F == t.frames
           L == t.locals
           a == t.args
           k == Upward(t.host)
           j == Upward(u.host)
           w == MovedDown(u, m)
           G == [F EXCEPT ![Len(F)].func = f]
           r == [forget(w) EXCEPT !.frames[Depth(u)].func = f]
           escapes == \E i \in 0 .. m - 1 :
                        Location(u, u.locals[arg(u, i)]) \in {OnStack(Depth(u)), Popped(Depth(u))}
           s == tailcallStep(t, x)
<1>1. /\ Form(t) /\ Form(u) /\ n \in Nat /\ Sound(F, L, a, k, n + 1)
      /\ u.frames = F /\ u.locals = L /\ u.args = a
      /\ \A p \in 1 .. n : j[p] = k[p]
      /\ k[n + 1] = x /\ Level(x, Depth(t)) /\ IsCall(x)
      /\ Len(F) = Depth(t) /\ Depth(u) = Depth(t) /\ Depth(t) \in Nat
  BY TopKept DEF Alone, Depth
<1>2. RunsNow(u) /\ u.host # <<>> /\ u.host[1].op = "run" /\ n >= 1 /\ StrictNow(u)
  BY AboveRunNow
<1>3. k[n] = u.host[1] /\ k[n].op = "run"
  BY <1>2, TopKept
<1>4. Kept(u) /\ Calm(u)
  BY <1>1, <1>2, PopKept, CalmBelow
<1>5. /\ x.frame = Len(F) /\ f \in Functions /\ m \in 0 .. Registers[f] /\ Len(F) >= 1
      /\ m <= Registers[F[Len(F)].func] /\ Registers[f] \in Nat /\ Lim(F) + Registers[f] <= Slots
  <2>1. Placed(F, k, n + 1, n + 1)
    BY <1>1 DEF Sound, OK, Called1
  <2>2. x.frame = Len(F)
    BY <1>1 DEF Level
  <2>3. x.op \in TornOps
    BY DEF TornOps
  <2>4. f \in Functions /\ m <= Registers[F[Len(F)].func] /\ Len(F) >= 1
    BY <1>1, <2>1, <2>2, <2>3 DEF Placed
  <2> QED
    BY <2>2, <2>4, CallFramesAssumption DEF Fitting
<1>6. Layout(F) /\ Held1(F, L) /\ IsSequence(F)
  BY <1>1 DEF Sound, OK, Form
<1>7. s = IF ~argsFit(u, f, x.typed) THEN badArgs(u) ELSE IF escapes THEN throw(w, None) ELSE r
  BY DEF tailcallStep, MovedDown
<1>8. CASE ~argsFit(u, f, x.typed)
  <2>1. Kept(badArgs(u)) /\ Given(badArgs(u))
    BY <1>1, <1>2, <1>4, BadArgsKept
  <2> QED
    BY <1>7, <1>8, <2>1
<1> SUFFICES ASSUME argsFit(u, f, x.typed) PROVE Kept(s) /\ Given(s)
  BY <1>8
<1>9. a = m
  BY <1>1 DEF argsFit
<1>10. /\ Moved(F, L, a, w.locals) /\ Shape(w) /\ w.frames = F
       /\ w.args = 0 /\ w.host = u.host /\ w.in_collection = u.in_collection
  <2>1. m \in Nat /\ Depth(u) >= 1
    BY <1>1, <1>5
  <2> HIDE DEF m, w, u
  <2>2. /\ Moved(u.frames, u.locals, m, w.locals) /\ Shape(w) /\ w.frames = u.frames
        /\ w.args = 0 /\ w.host = u.host /\ w.in_collection = u.in_collection
    BY <1>1, <1>6, <2>1, MovedDownIs DEF w
  <2> QED
    BY <1>1, <1>9, <2>2
<1> HIDE DEF w, s
<1>11. CASE escapes
  <2>1. Sound(F, w.locals, 0, j, n)
    <3>1. Sound(F, L, a, j, n) /\ Runs(F, j, n)
      BY <1>1, <1>2, <1>4 DEF Kept, RunsNow
    <3>2. a <= Registers[F[Len(F)].func] /\ a <= Registers[f]
      BY <1>5, <1>9
    <3> HIDE DEF F, L, a, j, n, f
    <3> QED
      BY <1>5, <1>10, <3>1, <3>2, MovedSound
  <2>2. Form(w) /\ Kept(w) /\ RunsNow(w) /\ Calm(w)
    BY <1>1, <1>2, <1>4, <1>6, <1>10, <2>1 DEF Form, HasDrain, Kept, RunsNow, Calm
  <2>3. Kept(throw(w, None)) /\ Given(throw(w, None))
    BY <2>2, ThrowKept
  <2> QED
    BY <1>7, <1>11, <2>3
<1>12. CASE ~escapes
  <2>1. /\ r.frames = G /\ r.locals = w.locals /\ r.args = 0 /\ r.host = u.host
    <3>1. Moved1(w, forget(w))
      BY <1>10, ForgetMoved
    <3>2. r.frames = [forget(w).frames EXCEPT ![Depth(u)].func = f]
          /\ r.locals = forget(w).locals /\ r.args = forget(w).args /\ r.host = forget(w).host
      <4>1. Shape(forget(w))
        BY <3>1 DEF Moved1
      <4> HIDE DEF f, u
      <4> QED
        BY <4>1 DEF Shape, Fields
    <3> QED
      BY <1>1, <1>10, <3>1, <3>2 DEF Moved1
  <2>2. Recalled(F, G, f)
    BY <1>5, <1>6, RecalledIs
  <2>3. ASSUME NEW i \in 0 .. Slots - 1, Pending(F, a, i), IsVar(L[i]) PROVE L[i].frame # Len(F)
    <3>1. Lim(F) \in Nat /\ a \in Nat
      BY <1>1, <1>6, Ends DEF Sound, OK
    <3> DEFINE c == i - Lim(F)
    <3>2. c \in 0 .. m - 1 /\ c \in Int /\ Lim(F) + c = i
      BY <1>9, <2>3, <3>1 DEF Pending
    <3> HIDE DEF c
    <3>3. arg(u, c) = i
      BY <1>1, <1>6, <3>2, ArgIs
    <3>4. Location(u, L[i]) # OnStack(Depth(u))
      BY <1>1, <1>12, <3>2, <3>3
    <3>5. Location(u, L[i]) = OnStack(L[i].frame)
      BY <2>3 DEF Location, IsObject, IsVar
    <3> QED
      BY <1>1, <3>4, <3>5
  <2>4. Sound(G, w.locals, 0, j, n)
    <3>1. /\ k[n + 1].op = "tailcall" /\ k[n + 1].frame = Len(F)
          /\ a <= Registers[f] /\ a <= Registers[F[Len(F)].func]
      BY <1>1, <1>5, <1>9
    <3>2. /\ n \in Nat /\ n >= 1 /\ Sound(F, L, a, k, n + 1) /\ k[n].op = "run"
          /\ f \in Functions /\ Lim(F) + Registers[f] <= Slots
          /\ \A p \in 1 .. n : j[p] = k[p]
      BY <1>1, <1>2, <1>3, <1>5
    <3>3. Moved(F, L, a, w.locals) /\ Recalled(F, G, f)
      BY <1>9, <1>10, <2>2
    <3> HIDE DEF F, L, a, k, j, n, f, G
    <3> QED
      BY <2>3, <3>1, <3>2, <3>3, FrameTail
  <2> HIDE DEF r
  <2>5. Kept(r) /\ Calm(r)
    BY <1>4, <2>1, <2>4 DEF Kept, Calm
  <2>6. Given(r)
    BY <2>1, <2>5, CalmGiven
  <2> QED
    BY <1>7, <1>12, <2>5, <2>6
<1> QED
  BY <1>11, <1>12

-------------------------------------------------------------------------------
(* A run is over *)
ZeroAt(F) == IF Len(F) = 0 THEN 0 ELSE F[Len(F)].base

\* What the run found in the first register may be put back there.
LEMMA SavedAdmits ==
  ASSUME NEW F, NEW L, NEW a, NEW k, NEW n \in Nat, OK(F, L, a, k, n + 1), Len(F) >= 1,
         k[n + 1].op \in RunOps, k[n + 1].depth = Len(F), Temporary(k[n + 1]) # None,
         NEW j, \A p \in 1 .. n : j[p] = k[p]
  PROVE  Admits(F, a, j, n, ZeroAt(F), Temporary(k[n + 1]))
<1> DEFINE d == Len(F)
           x == k[n + 1]
           v == Temporary(x)
           i == ZeroAt(F)
<1>1. /\ Layout(F) /\ n + 1 \in 1 .. n + 1
      /\ \A p \in 1 .. n : p \in 1 .. n + 1 /\ p \in 1 .. n + 1 - 1
      /\ \A p \in 1 .. n + 1 : Called1(F, k, n + 1, p) /\ Walls(F, L, a, k, n + 1, p)
  BY DEF OK
<1>2. i = F[d].base /\ d \in 1 .. d /\ d \in Nat
  BY <1>1, EndsBelow DEF ZeroAt, Layout
<1>3. /\ \A e \in 1 .. d : /\ F[e].base \in Nat /\ End(F, e) \in Nat /\ F[e].base <= i
                           /\ e # d => End(F, e) <= i /\ F[e].base < i
      /\ i \in Nat
  BY <1>1, <1>2, EndsBelow
<1>4. \A p \in 1 .. n : BelowRun(x, k[p]) /\ Placed(F, k, n + 1, p) /\ IsCall(k[p])
  BY <1>1 DEF Called1, Below, Placed
<1>5. Valid(F, v) /\ (IsVar(v) => v.frame \in 1 .. d)
  BY <1>1 DEF Called1, Carries, Valid
<1> HIDE DEF i
<1>6. Holds(F, i, v)
  BY <1>3, <1>5 DEF Holds
<1>7. ASSUME NEW p \in 1 .. n, Wall(j, n, p) PROVE Passes(j, p, v)
  <2>1. k[n + 1].op # "clear"
    BY DEF RunOps
  <2> HIDE DEF d, x
  <2> QED
    BY <1>7, <2>1, PopPasses DEF x
<1>8. ASSUME NEW p \in 1 .. n, Torn(j, n, p)
      PROVE  ~(F[j[p].frame].base <= i /\ i < End(F, j[p].frame))
  <2>1. j[p] = k[p] /\ k[p].op \in TornOps
    BY <1>8 DEF Torn
  <2>2. k[p].frame <= d /\ k[p].frame >= 1
    BY <1>4, <2>1 DEF Placed
  <2>3. k[p].frame \in Int
    BY <1>4, <2>1 DEF IsCall, FloorOps, RunOps, TornOps, TeardownOps
  <2>4. Torn(k, n + 1, p)
    <3>1. \A q \in p + 1 .. n + 1 : q \in p + 1 .. n \/ q = n + 1
      OBVIOUS
    <3>2. \A q \in p + 1 .. n : j[q] = k[q]
      OBVIOUS
    <3> QED
      BY <1>8, <2>1, <3>1, <3>2 DEF Torn, RunOps
  <2>5. k[p].frame # d
    <3>1. Cleared(F, L, k, n + 1, p)
      BY <1>1 DEF Walls
    <3>2. n + 1 \in p + 1 .. n + 1
      OBVIOUS
    <3> QED
      BY <2>4, <3>1, <3>2 DEF Cleared
  <2>6. k[p].frame \in 1 .. d
    BY <1>2, <2>2, <2>3
  <2>7. End(F, k[p].frame) <= i /\ End(F, k[p].frame) \in Nat
    BY <1>3, <2>5, <2>6
  <2> QED
    BY <1>3, <2>1, <2>7
<1>9. ASSUME NEW p \in 1 .. n, j[p].op = "run", j[p].depth >= 1 PROVE i # F[j[p].depth].base
  <2>1. k[p].depth < d /\ k[p].depth \in Nat /\ j[p] = k[p]
    BY <1>4, <1>9 DEF BelowRun, RunOps, IsCall, FloorOps
  <2>2. k[p].depth \in 1 .. d /\ k[p].depth # d
    BY <1>2, <1>9, <2>1
  <2>3. F[k[p].depth].base < i /\ F[k[p].depth].base \in Nat
    BY <1>3, <2>2
  <2> QED
    BY <1>3, <2>1, <2>3
<1> HIDE DEF v, d, x
<1>10. Admits(F, a, j, n, i, v)
  BY <1>6, <1>7, <1>8, <1>9 DEF Admits
<1> QED
  BY <1>10 DEF i, v, x

\* The run is over, and the first register is what it was before.
LEMMA ResumeSound ==
  ASSUME NEW F, NEW L, NEW a, NEW k, NEW n \in Nat, Sound(F, L, a, k, n + 1),
         k[n + 1].op \in RunOps, k[n + 1].depth = Len(F), Len(F) = 0 => k[n + 1].op = "run",
         0 \in 0 .. Slots - 1, NEW j, \A p \in 1 .. n : j[p] = k[p],
         NEW M, DOMAIN M = 0 .. Slots - 1,
         \A i \in 0 .. Slots - 1 : M[i] = IF i = ZeroAt(F) THEN Temporary(k[n + 1]) ELSE L[i]
  PROVE  Sound(F, M, a, j, n) /\ Ready(F, M, a, j, n)
<1> DEFINE d == Len(F)
           x == k[n + 1]
           v == Temporary(x)
           z == ZeroAt(F)
           K == [i \in 0 .. Slots - 1 |-> IF i = z THEN None ELSE L[i]]
<1>1. /\ OK(F, L, a, k, n + 1) /\ Layout(F) /\ n + 1 \in 1 .. n + 1 /\ n + 1 >= 1
      /\ \A p \in 1 .. n : p \in 1 .. n + 1 - 1
      /\ \A p \in 1 .. n + 1 : Called1(F, k, n + 1, p)
      /\ d \in Nat /\ Lim(F) <= Slots /\ Slots \in Nat /\ Lim(F) \in Nat
  BY Ends, CallFramesAssumption DEF Sound, OK
<1>2. d >= 1 => z = F[d].base /\ z \in 0 .. Slots - 1 /\ z < Lim(F)
  <2> SUFFICES ASSUME d >= 1 PROVE z = F[d].base /\ z \in 0 .. Slots - 1 /\ z < Lim(F)
    OBVIOUS
  <2>1. d \in 1 .. d /\ z = F[d].base
    BY <1>1 DEF ZeroAt
  <2>2. F[d].base \in Nat /\ F[d].base < End(F, d) /\ Lim(F) = End(F, d)
    BY <1>1, <2>1, Ends
  <2> HIDE DEF z, d
  <2> QED
    BY <1>1, <2>1, <2>2
<1>3. d = 0 => z = 0 /\ v = None
  <2>1. Placed(F, k, n + 1, n + 1)
    BY <1>1 DEF Called1
  <2> QED
    BY <2>1 DEF Placed, ZeroAt, Temporary
<1> HIDE DEF z
<1>4. DOMAIN K = 0 .. Slots - 1 /\ \A i \in 0 .. Slots - 1 : K[i] = IF i = z THEN None ELSE L[i]
  OBVIOUS
<1> HIDE DEF K
<1>5. Sound(F, K, a, k, n + 1)
  <2>1. \A i \in 0 .. Slots - 1 : K[i] = L[i] \/ K[i] = None
    BY <1>4
  <2> QED
    BY <1>4, <2>1, WriteSound
<1>6. z \in 0 .. Slots - 1 => K[z] = None
  BY <1>4
<1>7. d >= 1 => K[F[d].base] = None
  BY <1>2, <1>6
<1>8. Strict(F, j, n)
  <2>1. Below(k, n + 1)
    BY <1>1 DEF Called1
  <2>2. \A p \in 1 .. n : BelowRun(k[n + 1], k[p])
    BY <1>1, <2>1 DEF Below
  <2> QED
    BY <2>2 DEF BelowRun, Strict
<1>9. Sound(F, K, a, j, n)
  <2>1. k[n + 1].op # "clear" /\ k[n + 1].op # "ffi" /\ After(k[n + 1]) = Len(F)
    BY DEF RunOps, After, FloorOps
  <2>2. Waits(F, k, n + 1, Len(F)) => /\ Len(F) = 0 => K[0] = None
                                      /\ Len(F) >= 1 => K[F[Len(F)].base] = None
    BY <1>3, <1>6, <1>7
  <2> HIDE DEF x, v
  <2> QED
    BY <1>5, <2>1, <2>2, PopSound
<1>10. Sheltered(F, K, a, k, n + 1)
  <2>1. OK(F, K, a, k, n + 1) /\ Occupied(F, K, a, k, n + 1) /\ k[n + 1].op \in RunOps \cup TornOps
    BY <1>5 DEF Sound
  <2>2. Waits(F, k, n + 1, 0) => K[0] = None
    BY <1>3, <1>6 DEF Waits
  <2> HIDE DEF x, v
  <2> QED
    BY <1>1, <2>1, <2>2, ShelteredTop
<1>11. Sheltered(F, K, a, j, n)
  <2>1. k[n + 1].op # "drain"
    BY DEF RunOps
  <2> HIDE DEF x, v
  <2> QED
    BY <1>10, <2>1, ShelteredPop
<1>12. \A i \in 0 .. Slots - 1 : i # z => M[i] = K[i]
  BY <1>4 DEF z
<1>13. z \in 0 .. Slots - 1 => M[z] = v
  BY DEF z
<1>14. v = None \/ (d >= 1 /\ Admits(F, a, j, n, z, v))
  <2>1. d = 0 \/ d >= 1
    BY <1>1
  <2>2. ASSUME d >= 1, v # None PROVE Admits(F, a, j, n, z, v)
    BY <1>1, <2>2, SavedAdmits DEF z
  <2> QED
    BY <1>3, <2>1, <2>2
<1> HIDE DEF v, d, x
<1>15. Sound(F, M, a, j, n)
  <2>1. ASSUME NEW i \in 0 .. Slots - 1
        PROVE  \/ M[i] = K[i] \/ M[i] = None
               \/ /\ Admits(F, a, j, n, i, M[i])
                  /\ i < Lim(F) \/ Pending(F, a, i) \/ (i = 0 /\ Waits(F, j, n, 0))
    BY <1>2, <1>12, <1>13, <1>14
  <2> QED
    BY <1>9, <2>1, WriteSound
<1>16. Sheltered(F, M, a, j, n)
  <2>1. ASSUME NEW i \in 0 .. Slots - 1, i >= Lim(F) PROVE M[i] = K[i] \/ M[i] = None
    <3>1. i = z => v = None
      BY <1>1, <1>2, <1>14, <2>1
    <3> QED
      BY <1>12, <1>13, <3>1
  <2> QED
    BY <1>11, <2>1 DEF Sheltered
<1> QED
  BY <1>8, <1>15, <1>16 DEF Ready

=============================================================================
