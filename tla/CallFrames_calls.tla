--------------------------- MODULE CallFrames_calls ---------------------------
(***************************************************************************)
(* For any program, any number of objects, functions and frames: the calls *)
(* of C++ in progress fit the frames, and a finalizer runs once.           *)
(*                                                                         *)
(* The calls in progress are a sequence whose shape decides everything: of *)
(* two that are next to each other the upper one leaves as many frames as  *)
(* the lower one was made with (Chain); nothing that is waiting below a    *)
(* run needs more frames than that run was entered with (Nested).  With    *)
(* that shape a frame is torn down once, an error never skips a teardown   *)
(* or the collector, and so an object is visited once: on the stack, in    *)
(* the queue of the collector or in what it is working on (Once).          *)
(***************************************************************************)
EXTENDS CallFrames, SequenceTheorems, TLAPS

-------------------------------------------------------------------------------
(* The shape of the calls in progress *)

RunOps      == {"run", "rethrow"}
TeardownOps == {"visit", "collect", "restore"}
FloorOps    == RunOps \cup {"unwind"}

Ops == {"clear", "visit", "collect", "restore", "drain", "pop", "result", "leave",
        "raise", "tailcall", "unwind", "run", "rethrow", "start", "callback",
        "ffi", "assign", "drop_args", "throw"}

\* What the steps below read of a call.
IsCall(x) ==
  /\ x.op \in Ops
  /\ x.op \in FloorOps => x.depth \in Nat
  /\ x.op = "raise" => x.target \in Int
  /\ x.op \notin FloorOps \cup {"raise"} => x.frame \in Int
  /\ x.op = "pop" => x.frame >= 1
  /\ x.op = "run" => {"op", "depth"} \subseteq DOMAIN x
  /\ x.op = "visit" => {"op", "frame", "seen"} \subseteq DOMAIN x
  /\ x.op = "drain" => {"op", "frame", "todo", "done"} \subseteq DOMAIN x

\* The call x can go on when there are d frames, and leaves After(x) of them.
Level(x, d) ==
  IF x.op \in {"run", "unwind"} THEN x.depth <= d
  ELSE IF x.op = "rethrow" THEN x.depth = d
  ELSE IF x.op = "raise" THEN x.target <= d
  ELSE x.frame = d

After(x) ==
  IF x.op \in FloorOps THEN x.depth
  ELSE IF x.op = "raise" THEN x.target - 1
  ELSE IF x.op \in {"pop", "leave"} THEN x.frame - 1
  ELSE x.frame

\* What x was made above.
Above(x, y) ==
  /\ x.op \in {"leave", "raise", "tailcall", "throw", "ffi", "result"} => y.op = "run"
  /\ x.op = "unwind" => y.op = "rethrow"
  /\ x.op = "drop_args" => y.op = "unwind"
  /\ x.op = "pop" => y.op \in {"result", "raise", "unwind"}
  /\ x.op = "start" => y.op \in {"drain", "visit"}
  /\ x.op = "callback" => y.op = "ffi"
  /\ x.op = "visit" => y.op \in {"collect", "restore"} /\ y.frame = x.frame
  /\ x.op = "collect" => y.op = "restore" /\ y.frame = x.frame

\* These were made above something.
Needy == {"leave", "raise", "tailcall", "throw", "ffi", "result", "unwind", "drop_args",
          "pop", "start", "callback", "visit", "collect"}

\* The frames that a run or a part of a teardown needs.
High(x)   == x.op \in RunOps \cup TeardownOps
Height(x) == IF x.op \in RunOps THEN x.depth ELSE x.frame

IsSequence(s) == \E S : s \in Seq(S)
Over(x, h)    == <<x>> \o h

Chain(h) ==
  \A i \in 1 .. Len(h) - 1 : Level(h[i + 1], After(h[i])) /\ Above(h[i], h[i + 1])

Nested(h) ==
  \A i, j \in 1 .. Len(h) :
    i < j /\ h[i].op \in RunOps /\ High(h[j]) => Height(h[j]) <= h[i].depth

\* Above a visit only younger frames are torn down.
VisitsAbove(h) ==
  \A i, j \in 1 .. Len(h) :
    i < j /\ h[j].op = "visit" /\ h[i].op \in {"visit", "restore"}
      => h[j].frame < h[i].frame

OneDrain(h) ==
  \A i, j \in 1 .. Len(h) : h[i].op = "drain" /\ h[j].op = "drain" => i = j

Grounded(h) == \A i \in 1 .. Len(h) : h[i].op \in Needy => i < Len(h)

Lower(h, d) == \A i \in 1 .. Len(h) : High(h[i]) => Height(h[i]) <= d

\* The calls h fit d frames.
Fit(h, d) ==
  /\ IsSequence(h)
  /\ \A i \in 1 .. Len(h) : IsCall(h[i])
  /\ h # <<>> => Level(h[1], d)
  /\ Chain(h)
  /\ Lower(h, d)
  /\ Nested(h)
  /\ VisitsAbove(h)
  /\ OneDrain(h)
  /\ Grounded(h)

\* What x may be made above.
Under(x, h) == IF h = <<>> THEN x.op \notin Needy ELSE Above(x, h[1])

Calls(h) == {h[i] : i \in 1 .. Len(h)}

-------------------------------------------------------------------------------
(* Sequences *)

LEMMA PushSequence ==
  ASSUME NEW h, IsSequence(h), NEW x
  PROVE  /\ IsSequence(Over(x, h)) /\ Over(x, h) # <<>>
         /\ Len(h) \in Nat /\ Len(Over(x, h)) = Len(h) + 1
         /\ Over(x, h)[1] = x
         /\ \A i \in 1 .. Len(h) : Over(x, h)[i + 1] = h[i]
         /\ \A i \in 2 .. Len(h) + 1 : Over(x, h)[i] = h[i - 1]
         /\ Calls(Over(x, h)) = {x} \cup Calls(h)
         /\ Tail(Over(x, h)) = h
<1>1. PICK S : h \in Seq(S)
  BY DEF IsSequence
<1>2. h \in Seq(S \cup {x}) /\ <<x>> \in Seq(S \cup {x})
  BY <1>1
<1>3. <<x>> \o h \in Seq(S \cup {x})
  BY <1>2
<1>4. /\ Len(h) \in Nat /\ Len(<<x>> \o h) = Len(h) + 1
      /\ (<<x>> \o h)[1] = x
      /\ \A i \in 1 .. Len(h) : (<<x>> \o h)[i + 1] = h[i]
      /\ \A i \in 2 .. Len(h) + 1 : (<<x>> \o h)[i] = h[i - 1]
      /\ <<x>> \o h # <<>>
  BY <1>2, <1>3
<1>5. Calls(<<x>> \o h) = {x} \cup Calls(h)
  <2>1. ASSUME NEW y \in Calls(<<x>> \o h) PROVE y \in {x} \cup Calls(h)
    BY <1>4 DEF Calls
  <2>2. x \in Calls(<<x>> \o h)
    BY <1>4 DEF Calls
  <2>3. ASSUME NEW y \in Calls(h) PROVE y \in Calls(<<x>> \o h)
    <3>1. PICK i \in 1 .. Len(h) : y = h[i]
      BY DEF Calls
    <3>2. i + 1 \in 1 .. Len(<<x>> \o h) /\ (<<x>> \o h)[i + 1] = y
      BY <1>4, <3>1
    <3> QED
      BY <3>2 DEF Calls
  <2> QED
    BY <2>1, <2>2, <2>3
<1>6. Tail(<<x>> \o h) = h
  BY <1>2, <1>3, <1>4
<1> QED
  BY <1>3, <1>4, <1>5, <1>6 DEF IsSequence, Over

LEMMA PopSequence ==
  ASSUME NEW h, IsSequence(h), h # <<>>
  PROVE  /\ IsSequence(Tail(h))
         /\ Len(h) \in Nat /\ Len(h) >= 1 /\ Len(Tail(h)) = Len(h) - 1
         /\ Head(h) = h[1]
         /\ \A i \in 1 .. Len(h) - 1 : Tail(h)[i] = h[i + 1]
         /\ h = Over(h[1], Tail(h))
         /\ Calls(h) = {h[1]} \cup Calls(Tail(h))
<1>1. PICK S : h \in Seq(S)
  BY DEF IsSequence
<1>2. /\ Tail(h) \in Seq(S)
      /\ Len(h) \in Nat /\ Len(h) >= 1 /\ Len(Tail(h)) = Len(h) - 1
      /\ Head(h) = h[1]
      /\ \A i \in 1 .. Len(h) - 1 : Tail(h)[i] = h[i + 1]
  BY <1>1
<1>3. IsSequence(Tail(h))
  BY <1>2 DEF IsSequence
<1>4. h = <<h[1]>> \o Tail(h)
  <2>1. <<h[1]>> \in Seq(S) /\ <<h[1]>> \o Tail(h) \in Seq(S)
    BY <1>1, <1>2
  <2>2. Len(<<h[1]>> \o Tail(h)) = Len(h)
    BY <1>1, <1>2, <2>1
  <2>3. \A i \in 1 .. Len(h) : (<<h[1]>> \o Tail(h))[i] = h[i]
    BY <1>1, <1>2, <2>1
  <2> QED
    BY <1>1, <2>1, <2>2, <2>3
<1>5. h = Over(h[1], Tail(h))
  BY <1>4 DEF Over
<1> QED
  BY <1>2, <1>3, <1>5, PushSequence

-------------------------------------------------------------------------------
(* Calls are made and finished *)

LEMMA FitPush ==
  ASSUME NEW h, NEW x, NEW d \in Int, IsCall(x), Fit(h, After(x)), Level(x, d),
         Under(x, h),
         After(x) <= d, High(x) => Height(x) <= d,
         x.op \in {"visit", "restore"} =>
           \A y \in Calls(h) : y.op = "visit" => y.frame < x.frame,
         x.op = "drain" => \A y \in Calls(h) : y.op # "drain"
  PROVE  Fit(Over(x, h), d)
<1> DEFINE g == Over(x, h)
<1>1. /\ IsSequence(g) /\ g # <<>> /\ Len(h) \in Nat /\ Len(g) = Len(h) + 1 /\ g[1] = x
      /\ \A i \in 1 .. Len(h) : g[i + 1] = h[i]
      /\ \A i \in 2 .. Len(h) + 1 : g[i] = h[i - 1]
  BY PushSequence DEF Fit
<1> HIDE DEF g
<1>2. \A i \in 1 .. Len(h) : h[i] \in Calls(h)
  BY DEF Calls
<1>3. \A i \in 1 .. Len(g) : IsCall(g[i])
  BY <1>1 DEF Fit
<1>4. Chain(g)
  <2>1. ASSUME NEW i \in 1 .. Len(g) - 1
        PROVE  Level(g[i + 1], After(g[i])) /\ Above(g[i], g[i + 1])
    <3>1. CASE i = 1
      <4>1. g[i] = x /\ g[i + 1] = h[1] /\ h # <<>>
        BY <1>1, <3>1
      <4> QED
        BY <4>1 DEF Fit, Under
    <3>2. CASE i # 1
      <4>1. i - 1 \in 1 .. Len(h) - 1 /\ g[i] = h[i - 1] /\ g[i + 1] = h[(i - 1) + 1]
        BY <1>1, <3>2
      <4> QED
        BY <4>1 DEF Fit, Chain
    <3> QED
      BY <3>1, <3>2
  <2> QED
    BY <2>1 DEF Chain
<1>5. After(x) \in Int
  BY DEF After, IsCall, FloorOps, RunOps
<1>6. ASSUME NEW i \in 1 .. Len(h), High(h[i])
      PROVE  Height(h[i]) <= After(x) /\ Height(h[i]) \in Int
  <2>1. IsCall(h[i]) /\ Height(h[i]) <= After(x)
    BY <1>6 DEF Fit, Lower
  <2> QED
    BY <1>6, <2>1 DEF Height, High, IsCall, FloorOps, RunOps, TeardownOps
<1>7. Lower(g, d)
  <2>1. ASSUME NEW i \in 1 .. Len(g), High(g[i]) PROVE Height(g[i]) <= d
    <3>1. CASE i = 1
      BY <1>1, <2>1, <3>1
    <3>2. CASE i # 1
      <4>1. i - 1 \in 1 .. Len(h) /\ g[i] = h[i - 1]
        BY <1>1, <3>2
      <4> QED
        BY <1>5, <1>6, <2>1, <4>1
    <3> QED
      BY <3>1, <3>2
  <2> QED
    BY <2>1 DEF Lower
<1>8. Nested(g)
  <2>1. ASSUME NEW i \in 1 .. Len(g), NEW j \in 1 .. Len(g), i < j,
               g[i].op \in RunOps, High(g[j])
        PROVE  Height(g[j]) <= g[i].depth
    <3>1. j - 1 \in 1 .. Len(h) /\ g[j] = h[j - 1]
      BY <1>1, <2>1
    <3>2. CASE i = 1
      <4>1. g[i] = x /\ x.op \in RunOps /\ After(x) = x.depth
        BY <1>1, <2>1, <3>2 DEF After, FloorOps, RunOps
      <4> QED
        BY <1>6, <2>1, <3>1, <4>1
    <3>3. CASE i # 1
      <4>1. i - 1 \in 1 .. Len(h) /\ g[i] = h[i - 1] /\ i - 1 < j - 1
        BY <1>1, <2>1, <3>3
      <4> QED
        BY <2>1, <3>1, <4>1 DEF Fit, Nested
    <3> QED
      BY <3>2, <3>3
  <2> QED
    BY <2>1 DEF Nested
<1>9. VisitsAbove(g)
  <2>1. ASSUME NEW i \in 1 .. Len(g), NEW j \in 1 .. Len(g), i < j,
               g[j].op = "visit", g[i].op \in {"visit", "restore"}
        PROVE  g[j].frame < g[i].frame
    <3>1. j - 1 \in 1 .. Len(h) /\ g[j] = h[j - 1]
      BY <1>1, <2>1
    <3>2. CASE i = 1
      BY <1>1, <1>2, <2>1, <3>1, <3>2
    <3>3. CASE i # 1
      <4>1. i - 1 \in 1 .. Len(h) /\ g[i] = h[i - 1] /\ i - 1 < j - 1
        BY <1>1, <2>1, <3>3
      <4> QED
        BY <2>1, <3>1, <4>1 DEF Fit, VisitsAbove
    <3> QED
      BY <3>2, <3>3
  <2> QED
    BY <2>1 DEF VisitsAbove
<1>10. OneDrain(g)
  <2>1. ASSUME NEW i \in 1 .. Len(g), NEW j \in 1 .. Len(g), i < j,
               g[i].op = "drain", g[j].op = "drain"
        PROVE  FALSE
    <3>1. j - 1 \in 1 .. Len(h) /\ g[j] = h[j - 1]
      BY <1>1, <2>1
    <3>2. CASE i = 1
      BY <1>1, <1>2, <2>1, <3>1, <3>2
    <3>3. CASE i # 1
      <4>1. i - 1 \in 1 .. Len(h) /\ g[i] = h[i - 1] /\ i - 1 # j - 1
        BY <1>1, <2>1, <3>3
      <4> QED
        BY <2>1, <3>1, <4>1 DEF Fit, OneDrain
    <3> QED
      BY <3>2, <3>3
  <2> QED
    BY <1>1, <2>1 DEF OneDrain
<1>11. Grounded(g)
  <2>1. ASSUME NEW i \in 1 .. Len(g), g[i].op \in Needy PROVE i < Len(g)
    <3>1. CASE i = 1
      <4>1. h # <<>>
        BY <1>1, <2>1, <3>1 DEF Under
      <4>2. Len(h) >= 1
        BY <4>1, PopSequence DEF Fit
      <4> QED
        BY <1>1, <3>1, <4>2
    <3>2. CASE i # 1
      <4>1. i - 1 \in 1 .. Len(h) /\ g[i] = h[i - 1]
        BY <1>1, <3>2
      <4> QED
        BY <1>1, <2>1, <4>1 DEF Fit, Grounded
    <3> QED
      BY <3>1, <3>2
  <2> QED
    BY <2>1 DEF Grounded
<1> QED
  BY <1>1, <1>3, <1>4, <1>7, <1>8, <1>9, <1>10, <1>11 DEF Fit, g

\* When the frame of a call is gone, nothing below needs it.
LEMMA LowerBelow ==
  ASSUME NEW h, NEW d \in Int, Fit(h, d), h # <<>>
  PROVE  Lower(Tail(h), After(h[1]))
<1> DEFINE g == Tail(h)
<1>1. /\ Len(h) \in Nat /\ Len(h) >= 1 /\ Len(g) = Len(h) - 1
      /\ \A i \in 1 .. Len(h) - 1 : g[i] = h[i + 1]
  BY PopSequence DEF Fit
<1>2. \A i \in 1 .. Len(h) : IsCall(h[i])
  BY DEF Fit
<1>3. Level(h[1], d)
  BY DEF Fit
<1>4. \A i \in 1 .. Len(h) - 1 : Level(h[i + 1], After(h[i])) /\ Above(h[i], h[i + 1])
  BY DEF Fit, Chain
<1>5. ASSUME NEW k \in 1 .. Len(h), h[k].op \in RunOps, NEW e \in Int, h[k].depth <= e,
             NEW j \in 1 .. Len(h), k <= j, High(h[j])
      PROVE  Height(h[j]) <= e
  <2>1. h[k].depth \in Int
    BY <1>2, <1>5 DEF IsCall, FloorOps
  <2>2. CASE k = j
    BY <1>5, <2>2 DEF Height
  <2>3. CASE k < j
    <3>1. Height(h[j]) <= h[k].depth
      BY <1>5, <2>3 DEF Fit, Nested
    <3>2. Height(h[j]) \in Int
      BY <1>2, <1>5 DEF Height, High, IsCall, FloorOps, RunOps, TeardownOps
    <3> QED
      BY <1>5, <2>1, <3>1, <3>2
  <2> QED
    BY <1>5, <2>2, <2>3
<1>6. ASSUME NEW j \in 2 .. Len(h), High(h[j])
      PROVE  Height(h[j]) <= After(h[1])
  <2>1. 1 \in 1 .. Len(h) /\ 2 \in 1 .. Len(h) /\ 1 \in 1 .. Len(h) - 1 /\ j \in 1 .. Len(h)
    BY <1>1, <1>6
  <2>2. IsCall(h[1]) /\ IsCall(h[2]) /\ Level(h[2], After(h[1])) /\ Above(h[1], h[2])
    <3>1. h[1 + 1] = h[2]
      OBVIOUS
    <3> QED
      BY <1>2, <1>4, <2>1, <3>1
  <2>3. After(h[1]) \in Int
    BY <2>2 DEF After, IsCall, FloorOps, RunOps
  <2>4. CASE h[1].op \in RunOps
    <3>1. After(h[1]) = h[1].depth /\ h[1].depth <= h[1].depth
      BY <2>2, <2>4 DEF After, FloorOps, IsCall
    <3> QED
      BY <1>5, <1>6, <2>1, <2>3, <2>4, <3>1
  <2>5. CASE h[1].op = "unwind"
    <3>1. h[2].op \in RunOps /\ h[2].depth <= After(h[1])
      BY <2>2, <2>5 DEF Above, Level, RunOps, IsCall, FloorOps
    <3> QED
      BY <1>5, <1>6, <2>1, <2>3, <3>1
  <2>6. CASE h[1].op \in {"leave", "raise"}
    <3>1. h[2].op \in RunOps /\ h[2].depth <= After(h[1])
      BY <2>2, <2>6 DEF Above, Level, RunOps
    <3> QED
      BY <1>5, <1>6, <2>1, <2>3, <3>1
  <2>7. CASE h[1].op = "pop"
    <3>1. h[2].op \in {"result", "raise", "unwind"} /\ ~High(h[2])
      BY <2>2, <2>7 DEF Above, High, RunOps, TeardownOps
    <3>2. j \in 3 .. Len(h) /\ 3 \in 1 .. Len(h) /\ 2 \in 1 .. Len(h) - 1
      BY <1>1, <1>6, <3>1
    <3>3. IsCall(h[3]) /\ Level(h[3], After(h[2])) /\ Above(h[2], h[3])
      <4>1. h[2 + 1] = h[3]
        OBVIOUS
      <4> QED
        BY <1>2, <1>4, <3>2, <4>1
    <3>4. h[3].op \in RunOps /\ h[3].depth <= After(h[1])
      <4>1. CASE h[2].op = "result"
        BY <2>2, <2>3, <3>3, <4>1 DEF Level, Above, After, FloorOps, RunOps, IsCall
      <4>2. CASE h[2].op = "raise"
        BY <2>2, <2>3, <3>3, <4>2 DEF Level, Above, After, FloorOps, RunOps, IsCall
      <4>3. CASE h[2].op = "unwind"
        BY <2>2, <2>3, <3>3, <4>3 DEF Level, Above, After, FloorOps, RunOps, IsCall
      <4> QED
        BY <3>1, <4>1, <4>2, <4>3
    <3> QED
      BY <1>5, <1>6, <2>1, <2>3, <3>2, <3>4
  <2>8. CASE h[1].op \notin FloorOps \cup {"leave", "raise", "pop"}
    <3>1. After(h[1]) = d
      BY <1>3, <2>8 DEF After, Level, FloorOps, RunOps
    <3> QED
      BY <1>6, <2>1, <3>1 DEF Fit, Lower
  <2> QED
    BY <2>4, <2>5, <2>6, <2>7, <2>8 DEF FloorOps
<1>7. ASSUME NEW i \in 1 .. Len(g), High(g[i]) PROVE Height(g[i]) <= After(h[1])
  BY <1>1, <1>6, <1>7
<1> QED
  BY <1>7 DEF Lower

LEMMA FitPop ==
  ASSUME NEW h, NEW d \in Int, Fit(h, d), h # <<>>
  PROVE  Fit(Tail(h), After(h[1]))
<1> DEFINE g == Tail(h)
<1>1. /\ IsSequence(g)
      /\ Len(h) \in Nat /\ Len(h) >= 1 /\ Len(g) = Len(h) - 1
      /\ \A i \in 1 .. Len(h) - 1 : g[i] = h[i + 1]
  BY PopSequence DEF Fit
<1>2. Lower(g, After(h[1]))
  BY LowerBelow
<1> HIDE DEF g
<1>3. \A i \in 1 .. Len(g) : IsCall(g[i])
  BY <1>1 DEF Fit
<1>4. g # <<>> => Level(g[1], After(h[1]))
  <2>1. ASSUME g # <<>> PROVE Level(g[1], After(h[1]))
    <3>1. Len(g) >= 1
      BY <1>1, <2>1 DEF IsSequence
    <3>2. 1 \in 1 .. Len(h) - 1 /\ g[1] = h[1 + 1]
      BY <1>1, <3>1
    <3> QED
      BY <3>2 DEF Fit, Chain
  <2> QED
    BY <2>1
<1>5. Chain(g)
  <2>1. ASSUME NEW i \in 1 .. Len(g) - 1
        PROVE  Level(g[i + 1], After(g[i])) /\ Above(g[i], g[i + 1])
    <3>1. i + 1 \in 1 .. Len(h) - 1 /\ g[i] = h[i + 1] /\ g[i + 1] = h[(i + 1) + 1]
      BY <1>1
    <3> QED
      BY <3>1 DEF Fit, Chain
  <2> QED
    BY <2>1 DEF Chain
<1>10. ASSUME NEW i \in 1 .. Len(g)
       PROVE  i \in Int /\ i + 1 \in 1 .. Len(h) /\ g[i] = h[i + 1]
  BY <1>1
<1>6. Nested(g)
  <2>1. ASSUME NEW i \in 1 .. Len(g), NEW j \in 1 .. Len(g),
               i < j, g[i].op \in RunOps, High(g[j])
        PROVE  Height(g[j]) <= g[i].depth
    <3>1. /\ i + 1 \in 1 .. Len(h) /\ g[i] = h[i + 1]
          /\ j + 1 \in 1 .. Len(h) /\ g[j] = h[j + 1] /\ i + 1 < j + 1
      BY <1>10, <2>1
    <3>2. Nested(h)
      BY DEF Fit
    <3> QED
      BY <2>1, <3>1, <3>2 DEF Nested
  <2> QED
    BY <2>1 DEF Nested
<1>7. VisitsAbove(g)
  <2>1. ASSUME NEW i \in 1 .. Len(g), NEW j \in 1 .. Len(g),
               i < j, g[j].op = "visit", g[i].op \in {"visit", "restore"}
        PROVE  g[j].frame < g[i].frame
    <3>1. /\ i + 1 \in 1 .. Len(h) /\ g[i] = h[i + 1]
          /\ j + 1 \in 1 .. Len(h) /\ g[j] = h[j + 1] /\ i + 1 < j + 1
      BY <1>10, <2>1
    <3>2. VisitsAbove(h)
      BY DEF Fit
    <3> QED
      BY <2>1, <3>1, <3>2 DEF VisitsAbove
  <2> QED
    BY <2>1 DEF VisitsAbove
<1>8. OneDrain(g)
  <2>1. ASSUME NEW i \in 1 .. Len(g), NEW j \in 1 .. Len(g),
               g[i].op = "drain", g[j].op = "drain"
        PROVE  i = j
    <3>1. /\ i + 1 \in 1 .. Len(h) /\ g[i] = h[i + 1]
          /\ j + 1 \in 1 .. Len(h) /\ g[j] = h[j + 1]
      BY <1>10
    <3>2. OneDrain(h)
      BY DEF Fit
    <3>3. i + 1 = j + 1
      BY <2>1, <3>1, <3>2 DEF OneDrain
    <3> QED
      BY <3>3, <1>10
  <2> QED
    BY <2>1 DEF OneDrain
<1>9. Grounded(g)
  <2>1. ASSUME NEW i \in 1 .. Len(g), g[i].op \in Needy PROVE i < Len(g)
    <3>1. i + 1 \in 1 .. Len(h) /\ g[i] = h[i + 1]
      BY <1>1
    <3> QED
      BY <1>1, <2>1, <3>1 DEF Fit, Grounded
  <2> QED
    BY <2>1 DEF Grounded
<1> QED
  BY <1>1, <1>2, <1>3, <1>4, <1>5, <1>6, <1>7, <1>8, <1>9 DEF Fit, g

\* What is below a call is what it was made above.
LEMMA FitUnder ==
  ASSUME NEW h, NEW d \in Int, Fit(h, d), h # <<>>
  PROVE  /\ Under(h[1], Tail(h))
         /\ IsCall(h[1]) /\ Level(h[1], d)
         /\ Tail(h) # <<>> => Level(Tail(h)[1], After(h[1])) /\ IsCall(Tail(h)[1])
<1> DEFINE g == Tail(h)
<1>1. IsSequence(g) /\ Len(g) = Len(h) - 1 /\ Len(h) \in Nat /\ Len(h) >= 1
      /\ \A i \in 1 .. Len(h) - 1 : g[i] = h[i + 1]
  BY PopSequence DEF Fit
<1>2. 1 \in 1 .. Len(h) /\ IsCall(h[1]) /\ Level(h[1], d)
  BY <1>1 DEF Fit
<1> HIDE DEF g
<1>3. CASE g = <<>>
  <2>1. ~(1 < Len(h))
    <3>1. Len(g) = 0
      BY <1>3
    <3> DEFINE n == Len(h)
    <3>2. n \in Nat /\ 0 = n - 1
      BY <1>1, <3>1
    <3> HIDE DEF n
    <3>3. n = 1
      BY <3>2
    <3> QED
      BY <3>3 DEF n
  <2>2. Grounded(h)
    BY DEF Fit
  <2>3. h[1].op \notin Needy
    BY <1>2, <2>1, <2>2 DEF Grounded
  <2> QED
    BY <1>2, <1>3, <2>3 DEF Under, g
<1>4. CASE g # <<>>
  <2>1. Len(g) >= 1
    BY <1>1, <1>4, PopSequence
  <2>2. 1 \in 1 .. Len(h) - 1 /\ g[1] = h[1 + 1] /\ 1 + 1 \in 1 .. Len(h)
    BY <1>1, <2>1
  <2>3. Level(g[1], After(h[1])) /\ Above(h[1], g[1])
    BY <2>2 DEF Fit, Chain
  <2>4. IsCall(g[1])
    BY <2>2 DEF Fit
  <2> QED
    BY <1>2, <1>4, <2>3, <2>4 DEF Under, g
<1> QED
  BY <1>3, <1>4

\* What is below a run, an unwinding or a raise does not depend on the frames above.
LEMMA FitMove ==
  ASSUME NEW h, NEW d \in Int, NEW e \in Int, Fit(h, d),
         h # <<>> => h[1].op \in {"run", "unwind", "raise"} /\ Level(h[1], e)
  PROVE  Fit(h, e)
<1>1. CASE h = <<>>
  <2>1. Len(h) = 0
    BY <1>1
  <2>2. Lower(h, e)
    BY <2>1 DEF Lower
  <2> QED
    BY <1>1, <2>2 DEF Fit
<1>2. CASE h # <<>>
  <2> DEFINE x == h[1]
             g == Tail(h)
  <2>1. h = Over(x, g) /\ x \in Calls(h) /\ 1 \in 1 .. Len(h)
    BY <1>2, PopSequence DEF Fit
  <2>2. Fit(g, After(x))
    BY <1>2, FitPop
  <2>3. IsCall(x)
    BY <2>1 DEF Fit
  <2>4. Under(x, g)
    BY <1>2, FitUnder
  <2>5. After(x) <= e /\ (High(x) => Height(x) <= e)
    BY <1>2, <2>3 DEF After, Level, High, Height, IsCall, FloorOps, RunOps, TeardownOps
  <2>6. Level(x, e) /\ x.op \notin {"visit", "restore", "drain"}
    BY <1>2
  <2> HIDE DEF x, g
  <2>7. Fit(Over(x, g), e)
    BY <2>2, <2>3, <2>4, <2>5, <2>6, FitPush
  <2> QED
    BY <2>1, <2>7
<1> QED
  BY <1>1, <1>2

\* What is waiting needs no younger frame.
LEMMA FitLower ==
  ASSUME NEW h, NEW d \in Int, Fit(h, d), NEW y \in Calls(h)
  PROVE  IsCall(y) /\ (High(y) => Height(y) \in Int /\ Height(y) <= d)
<1>1. PICK i \in 1 .. Len(h) : y = h[i]
  BY DEF Calls
<1>2. IsCall(y) /\ (High(y) => Height(y) <= d)
  BY <1>1 DEF Fit, Lower
<1> QED
  BY <1>2 DEF IsCall, High, Height, FloorOps, RunOps, TeardownOps

\* A visit, a restore and the collector are not begun twice.
LEMMA FitAlone ==
  ASSUME NEW h, NEW d \in Int, Fit(h, d), h # <<>>, NEW y \in Calls(Tail(h))
  PROVE  /\ h[1].op \in {"visit", "restore"} /\ y.op = "visit" => y.frame < h[1].frame
         /\ h[1].op = "drain" => y.op # "drain"
<1>1. /\ IsSequence(Tail(h)) /\ Len(h) \in Nat /\ Len(Tail(h)) = Len(h) - 1 /\ Len(h) >= 1
      /\ \A i \in 1 .. Len(h) - 1 : Tail(h)[i] = h[i + 1]
  BY PopSequence DEF Fit
<1>2. PICK i \in 1 .. Len(Tail(h)) : y = Tail(h)[i]
  BY DEF Calls
<1>3. 1 \in 1 .. Len(h) /\ i + 1 \in 1 .. Len(h) /\ 1 < i + 1 /\ y = h[i + 1] /\ 1 # i + 1
  BY <1>1, <1>2
<1>4. h[1].op \in {"visit", "restore"} /\ y.op = "visit" => y.frame < h[1].frame
  BY <1>3 DEF Fit, VisitsAbove
<1>5. h[1].op = "drain" => y.op # "drain"
  BY <1>3 DEF Fit, OneDrain
<1> QED
  BY <1>4, <1>5

-------------------------------------------------------------------------------
(* The thread *)

Fields == {"frames", "locals", "args", "host", "rc", "where", "queue",
           "in_collection", "finalized", "aborted", "broken"}

\* The calls that know how far the finalizers are.
MarkOps == {"visit", "restore", "drain"}

\* The visits and the restores that are about an object of the stack.
About(w, C) == {y \in C : y.op \in {"visit", "restore"} /\ w = OnStack(y.frame)}

\* An object at w whose finalizer ran n times, when C are the calls in progress
\* and q is the queue of the collector.
Right(o, w, n, C, q) ==
  /\ n \in {0, 1}
  /\ w.at \in {"frame", "heap", "sent"} => n = 0
  /\ w.at \in {"freed", "popped"} => n = 1
  /\ \A y \in C : y.op = "visit" /\ w = OnStack(y.frame) => n = IF o \in y.seen THEN 1 ELSE 0
  /\ \A y \in C : y.op = "restore" /\ w = OnStack(y.frame)
                    => n = 1 \/ \E z \in C : z.op = "visit" /\ z.frame = y.frame
  /\ w.at = "stack" => n = 0 \/ About(w, C) # {}
  /\ \A k \in 1 .. Len(q) : o \in q[k] => w = Dying /\ n = 0
  /\ \A k, l \in 1 .. Len(q) : o \in q[k] /\ o \in q[l] => k = l
  /\ \A y \in C : y.op = "drain" =>
       /\ o \in y.todo => w = Dying /\ n = 0 /\ \A k \in 1 .. Len(q) : o \notin q[k]
       /\ o \in y.done => w = Dying /\ n = 1

Once(t) ==
  /\ \A o \in Finalized : Right(o, t.where[o], t.finalized[o], Calls(t.host), t.queue)
  /\ t.in_collection <=> \E y \in Calls(t.host) : y.op = "drain"

Shape(t) == DOMAIN t = Fields

Body(t) ==
  /\ Shape(t)
  /\ IsSequence(t.frames) /\ IsSequence(t.queue)
  /\ DOMAIN t.where = Objects /\ DOMAIN t.finalized = Objects
  /\ t.in_collection \in BOOLEAN

\* The thread, if it had d frames.
Fits(t, d) == Body(t) /\ Once(t) /\ Fit(t.host, d)

Good(t) == Fits(t, Depth(t))

\* Of two threads: the same but for the calls, the registers and the counts.
Alike(t, u) ==
  /\ u.frames = t.frames /\ u.where = t.where /\ u.finalized = t.finalized
  /\ u.queue = t.queue /\ u.in_collection = t.in_collection

SameMarks(C, D) == \A y \in C \cup D : y.op \in MarkOps => (y \in C <=> y \in D)

-------------------------------------------------------------------------------
(* What does not matter to an object *)

LEMMA RightSame ==
  ASSUME NEW o, NEW w, NEW n, NEW C, NEW D, NEW q, SameMarks(C, D), Right(o, w, n, C, q)
  PROVE  Right(o, w, n, D, q)
<1>1. \A y : y.op \in MarkOps => (y \in C <=> y \in D)
  BY DEF SameMarks
<1>2. About(w, D) = About(w, C)
  BY <1>1 DEF About, MarkOps
<1> QED
  BY <1>1, <1>2 DEF Right, MarkOps

LEMMA RightQueue ==
  ASSUME NEW o, NEW w, NEW n, NEW C, NEW p, NEW q, Right(o, w, n, C, q),
         \A k \in 1 .. Len(p) : o \in p[k] => k \in 1 .. Len(q) /\ o \in q[k]
  PROVE  Right(o, w, n, C, p)
BY DEF Right

LEMMA FitsSame ==
  ASSUME NEW t, NEW u, NEW d, NEW e, Fits(t, d), Shape(u), Alike(t, u), Fit(u.host, e),
         SameMarks(Calls(t.host), Calls(u.host))
  PROVE  Fits(u, e)
<1>1. Body(u)
  BY DEF Fits, Body, Alike
<1>2. ASSUME NEW o \in Finalized
      PROVE  Right(o, u.where[o], u.finalized[o], Calls(u.host), u.queue)
  <2>1. Right(o, t.where[o], t.finalized[o], Calls(t.host), t.queue)
    BY DEF Fits, Once
  <2> QED
    BY <2>1, RightSame DEF Alike
<1>3. u.in_collection <=> \E y \in Calls(u.host) : y.op = "drain"
  BY DEF Fits, Once, Alike, SameMarks, MarkOps
<1> QED
  BY <1>1, <1>2, <1>3 DEF Fits, Once

LEMMA FitsAlike ==
  ASSUME NEW t, NEW u, NEW d, Fits(t, d), Shape(u), Alike(t, u), u.host = t.host
  PROVE  Fits(u, d)
<1>1. SameMarks(Calls(t.host), Calls(u.host))
  BY DEF SameMarks
<1> QED
  BY <1>1, FitsSame DEF Fits

LEMMA PushFields ==
  ASSUME NEW t, Shape(t), NEW items
  PROVE  /\ Shape(Push(t, items)) /\ Alike(t, Push(t, items))
         /\ Push(t, items).host = items \o t.host
         /\ Depth(Push(t, items)) = Depth(t) /\ Top(Push(t, items)) = Top(t)
         /\ Push(t, items).locals = t.locals /\ Push(t, items).args = t.args
BY DEF Shape, Fields, Push, Alike, Depth, Top

LEMMA PopFields ==
  ASSUME NEW t, Shape(t)
  PROVE  /\ Shape(Pop(t)) /\ Alike(t, Pop(t))
         /\ Pop(t).host = Tail(t.host)
         /\ Depth(Pop(t)) = Depth(t) /\ Top(Pop(t)) = Top(t)
         /\ Pop(t).locals = t.locals /\ Pop(t).args = t.args
BY DEF Shape, Fields, Pop, Alike, Depth, Top

LEMMA FitsDepth ==
  ASSUME NEW t, NEW d, Fits(t, d)
  PROVE  Depth(t) \in Nat
<1>1. PICK S : t.frames \in Seq(S)
  BY DEF Fits, Body, IsSequence
<1> QED
  BY <1>1 DEF Depth

\* A call is made.
LEMMA PushOK ==
  ASSUME NEW t, NEW x, NEW d \in Int, Fits(t, After(x)), IsCall(x), x.op \notin MarkOps,
         Level(x, d), After(x) <= d, High(x) => Height(x) <= d,
         Under(x, t.host)
  PROVE  Fits(Push(t, <<x>>), d)
<1> DEFINE u == Push(t, <<x>>)
           h == t.host
<1>1. IsSequence(h) /\ Fit(h, After(x))
  BY DEF Fits, Fit
<1>2. Shape(u) /\ Alike(t, u) /\ u.host = Over(x, h)
  BY PushFields DEF Fits, Body, Over
<1>3. Calls(Over(x, h)) = {x} \cup Calls(h)
  BY <1>1, PushSequence
<1>4. Fit(Over(x, h), d)
  <2> HIDE DEF h
  <2>1. x.op \notin {"visit", "restore", "drain"}
    BY DEF MarkOps
  <2>2. Under(x, h)
    BY DEF h
  <2> QED
    BY <1>1, <2>1, <2>2, FitPush
<1>5. SameMarks(Calls(h), Calls(u.host))
  BY <1>2, <1>3 DEF SameMarks
<1> HIDE DEF u
<1> QED
  BY <1>2, <1>4, <1>5, FitsSame DEF u

\* A call is done.
LEMMA PopOK ==
  ASSUME NEW t, NEW d \in Int, Fits(t, d), t.host # <<>>, t.host[1].op \notin MarkOps
  PROVE  /\ Fits(Pop(t), After(t.host[1]))
         /\ Under(t.host[1], Pop(t).host)
         /\ Pop(t).host # <<>> => Level(Pop(t).host[1], After(t.host[1])) /\ IsCall(Pop(t).host[1])
<1> DEFINE u == Pop(t)
           h == t.host
<1>1. IsSequence(h) /\ Fit(h, d)
  BY DEF Fits, Fit
<1>2. Shape(u) /\ Alike(t, u) /\ u.host = Tail(h)
  BY PopFields DEF Fits, Body
<1>3. /\ Calls(h) = {h[1]} \cup Calls(Tail(h)) /\ Len(Tail(h)) = Len(h) - 1 /\ Len(h) \in Nat
      /\ IsSequence(Tail(h)) /\ \A i \in 1 .. Len(h) - 1 : Tail(h)[i] = h[i + 1]
  BY <1>1, PopSequence
<1>4. Fit(Tail(h), After(h[1]))
  BY <1>1, FitPop
<1>5. SameMarks(Calls(h), Calls(u.host))
  BY <1>2, <1>3 DEF SameMarks
<1>6. Fits(u, After(h[1]))
  <2> HIDE DEF u
  <2> QED
    BY <1>2, <1>4, <1>5, FitsSame
<1> QED
  BY <1>1, <1>2, <1>6, FitUnder

\* Above a run, an unwinding or a raise frames come and go.
LEMMA MoveOK ==
  ASSUME NEW t, NEW d \in Int, NEW e \in Int, Fits(t, d),
         t.host # <<>> => t.host[1].op \in {"run", "unwind", "raise"} /\ Level(t.host[1], e)
  PROVE  Fits(t, e)
BY FitMove DEF Fits

-------------------------------------------------------------------------------
(* Registers that are dropped, and objects that are queued *)

\* The same frames, and the calls still fit them.
Keeps(t, u) == Good(u) /\ u.frames = t.frames

LEMMA QueueOK ==
  ASSUME NEW t, NEW d, Fits(t, d), NEW set, NEW u, Shape(u),
         \A o \in set \cap Finalized : t.where[o].at \in {"frame", "heap"},
         u.frames = t.frames, u.finalized = t.finalized, u.in_collection = t.in_collection,
         u.host = t.host, u.queue = Append(t.queue, set),
         u.where = [o \in Objects |-> IF o \in set THEN Dying ELSE t.where[o]]
  PROVE  Fits(u, d)
<1>1. PICK S : t.queue \in Seq(S)
  BY DEF Fits, Body, IsSequence
<1>2. Append(t.queue, set) \in Seq(S \cup {set}) /\ t.queue \in Seq(S \cup {set})
  BY <1>1
<1>3. /\ Len(t.queue) \in Nat /\ Len(u.queue) = Len(t.queue) + 1
      /\ \A k \in 1 .. Len(t.queue) : u.queue[k] = t.queue[k]
      /\ u.queue[Len(t.queue) + 1] = set
  BY <1>1, <1>2
<1>4. Body(u)
  BY <1>2 DEF Fits, Body, IsSequence
<1>5. ASSUME NEW o \in Finalized
      PROVE  Right(o, u.where[o], u.finalized[o], Calls(u.host), u.queue)
  <2>1. Right(o, t.where[o], t.finalized[o], Calls(t.host), t.queue)
    BY DEF Fits, Once
  <2>2. o \in Objects
    BY CallFramesAssumption
  <2>3. CASE o \notin set
    <3>1. u.where[o] = t.where[o]
      BY <2>2, <2>3
    <3>2. \A k \in 1 .. Len(u.queue) : o \in u.queue[k] => k \in 1 .. Len(t.queue)
              /\ o \in t.queue[k]
      BY <1>3, <2>3
    <3>3. Right(o, t.where[o], t.finalized[o], Calls(t.host), u.queue)
      BY <2>1, <3>2, RightQueue
    <3> QED
      BY <3>1, <3>3
  <2>4. CASE o \in set
    <3>1. u.where[o] = Dying /\ t.where[o].at \in {"frame", "heap"}
      BY <2>2, <2>4
    <3>2. t.finalized[o] = 0 /\ t.where[o] # Dying
      BY <2>1, <3>1 DEF Right, Dying
    <3>3. \A k \in 1 .. Len(t.queue) : o \notin t.queue[k]
      BY <2>1, <3>2 DEF Right
    <3>4. \A k \in 1 .. Len(u.queue) : o \in u.queue[k] => k = Len(t.queue) + 1
      BY <1>3, <3>3
    <3>5. \A y \in Calls(t.host) : y.op = "drain" => o \notin y.todo /\ o \notin y.done
      BY <2>1, <3>2 DEF Right
    <3>6. \A f : Dying # OnStack(f)
      BY DEF Dying, OnStack
    <3>7. Dying.at = "dying"
      BY DEF Dying
    <3>8. \A k, l \in 1 .. Len(u.queue) : o \in u.queue[k] /\ o \in u.queue[l] => k = l
      BY <3>4
    <3> DEFINE w == Dying
    <3> HIDE DEF w
    <3>9. w.at = "dying" /\ w = Dying /\ \A f : w # OnStack(f)
      BY <3>6, <3>7 DEF w
    <3>10. Right(o, w, 0, Calls(t.host), u.queue)
      BY <3>5, <3>8, <3>9 DEF Right
    <3> QED
      BY <3>1, <3>2, <3>9, <3>10
  <2> QED
    BY <2>3, <2>4
<1>6. u.in_collection <=> \E y \in Calls(u.host) : y.op = "drain"
  BY DEF Fits, Once
<1> QED
  BY <1>4, <1>5, <1>6 DEF Fits, Once

LEMMA CollectOK ==
  ASSUME NEW t, Good(t), NEW set,
         \A o \in set \cap Finalized : t.where[o].at \in {"frame", "heap"}
  PROVE  Keeps(t, collect(t, set))
<1> DEFINE q == [t EXCEPT !.queue = Append(@, set),
                          !.where = [o \in Objects |-> IF o \in set THEN Dying ELSE @[o]]]
           d == Depth(t)
           x == [op |-> "drain", frame |-> d, todo |-> {}, done |-> {}]
           r == [q EXCEPT !.in_collection = TRUE]
           u == Push(r, <<x>>)
<1>1. Shape(t) /\ d \in Nat
  BY FitsDepth DEF Good, Fits, Body
<1>2. /\ Shape(q) /\ q.frames = t.frames /\ q.finalized = t.finalized
      /\ q.in_collection = t.in_collection /\ q.host = t.host
      /\ q.queue = Append(t.queue, set)
      /\ q.where = [o \in Objects |-> IF o \in set THEN Dying ELSE t.where[o]]
  BY <1>1 DEF Shape, Fields
<1> HIDE DEF q
<1>3. Fits(q, d)
  BY <1>2, QueueOK DEF Good
<1>4. CASE t.in_collection
  <2>1. collect(t, set) = q
    BY <1>4 DEF collect, q
  <2> QED
    BY <1>2, <1>3, <2>1 DEF Keeps, Good, Depth
<1>5. CASE ~t.in_collection
  <2>1. collect(t, set) = u
    BY <1>5 DEF collect, q
  <2>2. /\ Shape(r) /\ r.frames = q.frames /\ r.where = q.where /\ r.finalized = q.finalized
        /\ r.queue = q.queue /\ r.host = q.host /\ r.in_collection = TRUE
    BY <1>2 DEF Shape, Fields
  <2> HIDE DEF r
  <2>3. Shape(u) /\ Alike(r, u) /\ u.host = Over(x, q.host)
    BY <2>2, PushFields DEF Over
  <2>4. IsSequence(q.host) /\ Fit(q.host, d)
    BY <1>3 DEF Fits, Fit
  <2>5. Calls(Over(x, q.host)) = {x} \cup Calls(q.host)
    BY <2>4, PushSequence
  <2>6. \A y \in Calls(q.host) : y.op # "drain"
    BY <1>2, <1>3, <1>5 DEF Fits, Once
  <2>7. Fit(Over(x, q.host), d)
    <3>1. /\ IsCall(x) /\ Level(x, d) /\ After(x) = d /\ ~High(x) /\ x.op = "drain"
          /\ \A s : Under(x, s)
      BY <1>1 DEF IsCall, Level, After, High, Above, Under, Needy, Ops, FloorOps, RunOps,
         TeardownOps
    <3> HIDE DEF x
    <3>2. x.op \notin {"visit", "restore"} /\ After(x) <= d /\ d \in Int
      BY <1>1, <3>1
    <3>3. Fit(q.host, After(x))
      BY <2>4, <3>1
    <3> QED
      BY <2>6, <3>1, <3>2, <3>3, FitPush
  <2>8. Body(u)
    BY <1>2, <1>3, <2>2, <2>3 DEF Fits, Body, Alike
  <2>9. ASSUME NEW o \in Finalized
        PROVE  Right(o, u.where[o], u.finalized[o], Calls(u.host), u.queue)
    <3>1. Right(o, q.where[o], q.finalized[o], Calls(q.host), q.queue)
      BY <1>3 DEF Fits, Once
    <3>2. x.op = "drain" /\ x.todo = {} /\ x.done = {}
      OBVIOUS
    <3> HIDE DEF x
    <3>3. About(q.where[o], {x} \cup Calls(q.host)) = About(q.where[o], Calls(q.host))
      BY <3>2 DEF About
    <3>4. Right(o, q.where[o], q.finalized[o], {x} \cup Calls(q.host), q.queue)
      BY <3>1, <3>2, <3>3 DEF Right
    <3> QED
      BY <2>2, <2>3, <2>5, <3>4 DEF Alike
  <2>10. u.in_collection <=> \E y \in Calls(u.host) : y.op = "drain"
    <3>1. x.op = "drain" /\ x \in Calls(u.host)
      BY <2>3, <2>5
    <3>2. u.in_collection = TRUE
      BY <2>2, <2>3 DEF Alike
    <3> QED
      BY <3>1, <3>2
  <2> HIDE DEF u, x
  <2> QED
    BY <1>2, <2>1, <2>2, <2>3, <2>7, <2>8, <2>9, <2>10 DEF Keeps, Good, Fits, Once, Depth, Alike
<1> QED
  BY <1>4, <1>5 DEF Good, Fits, Body

\* Everything but the parts that Good reads may change.
LEMMA KeepsAlike ==
  ASSUME NEW t, NEW u, Good(t), Shape(u), Alike(t, u), u.host = t.host
  PROVE  Keeps(t, u)
BY FitsAlike DEF Keeps, Good, Alike, Depth

LEMMA DecOK ==
  ASSUME NEW t, Good(t), NEW v
  PROVE  Keeps(t, reg_dec(t, v))
<1> DEFINE less == [t EXCEPT !.rc[v.of] = @ - 1]
<1>1. Shape(t)
  BY DEF Good, Fits, Body
<1>2. Keeps(t, t)
  BY DEF Keeps
<1>3. Shape(less) /\ Alike(t, less) /\ less.host = t.host
  BY <1>1 DEF Shape, Fields, Alike
<1>4. Keeps(t, less)
  BY <1>3, KeepsAlike
<1>5. ASSUME t.where[v.of].at \in {"frame", "heap"} PROVE Keeps(t, collect(less, {v.of}))
  <2> HIDE DEF less
  <2>1. less.where = t.where
    BY <1>3 DEF Alike
  <2>2. Keeps(less, collect(less, {v.of}))
    BY <1>4, <1>5, <2>1, CollectOK DEF Keeps
  <2> QED
    BY <1>4, <2>2 DEF Keeps
<1>6. Keeps(t, Must(t, FALSE, "use_after_free"))
  <2>1. Shape(Must(t, FALSE, "use_after_free")) /\ Alike(t, Must(t, FALSE, "use_after_free"))
        /\ Must(t, FALSE, "use_after_free").host = t.host
    BY <1>1 DEF Must, Shape, Fields, Alike
  <2> QED
    BY <2>1, KeepsAlike
<1> HIDE DEF less
<1>7. reg_dec(t, v) \in {t, less, collect(less, {v.of}), Must(t, FALSE, "use_after_free")}
      /\ (reg_dec(t, v) = collect(less, {v.of}) => 
            \/ t.where[v.of].at \in {"frame", "heap"}
            \/ reg_dec(t, v) \in {t, less, Must(t, FALSE, "use_after_free")})
  BY DEF reg_dec, less
<1> QED
  BY <1>2, <1>4, <1>5, <1>6, <1>7

LEMMA AssignOK ==
  ASSUME NEW t, Good(t), NEW i, NEW v
  PROVE  Keeps(t, Assign(t, i, v))
<1> DEFINE u == [t EXCEPT !.locals[i] = v]
<1>1. Shape(u) /\ Alike(t, u) /\ u.host = t.host
  BY DEF Good, Fits, Body, Shape, Fields, Alike
<1>2. Keeps(t, u)
  BY <1>1, KeepsAlike
<1> HIDE DEF u
<1>3. Keeps(u, reg_dec(u, t.locals[i]))
  BY <1>2, DecOK DEF Keeps
<1> QED
  BY <1>2, <1>3 DEF Keeps, Assign, u

-------------------------------------------------------------------------------
(* Errors, arguments and frames *)

Above1(t, op) == t.host # <<>> /\ t.host[1].op = op

Over2(a, b, h)    == <<a, b>> \o h
Over3(a, b, c, h) == <<a, b, c>> \o h

LEMMA Tuples ==
  ASSUME NEW h, IsSequence(h), NEW a, NEW b, NEW c
  PROVE  /\ <<>> \o h = h
         /\ Over2(a, b, h) = Over(a, Over(b, h))
         /\ Over3(a, b, c, h) = Over(a, Over(b, Over(c, h)))
<1>1. PICK S : h \in Seq(S)
  BY DEF IsSequence
<1> DEFINE T == S \cup {a, b, c}
<1>2. h \in Seq(T) /\ a \in T /\ b \in T /\ c \in T
  BY <1>1
<1> HIDE DEF T
<1>3. <<>> \o h = h
  BY <1>2
<1>4. /\ <<a>> \in Seq(T) /\ <<b>> \in Seq(T) /\ <<c>> \in Seq(T) /\ <<b, c>> \in Seq(T)
      /\ <<c>> \o h \in Seq(T)
  BY <1>2
<1>5. <<a, b>> = <<a>> \o <<b>> /\ <<b, c>> = <<b>> \o <<c>> /\ <<a, b, c>> = <<a>> \o <<b, c>>
  <2>1. ASSUME NEW x \in T, NEW y \in T PROVE <<x, y>> = <<x>> \o <<y>>
    <3>1. <<x, y>> \in Seq(T) /\ <<x>> \o <<y>> \in Seq(T)
      BY <2>1
    <3>2. Len(<<x, y>>) = 2 /\ Len(<<x>> \o <<y>>) = 2
      BY <2>1
    <3>3. \A i \in 1 .. 2 : <<x, y>>[i] = (<<x>> \o <<y>>)[i]
      BY <2>1
    <3> QED
      BY <3>1, <3>2, <3>3, SeqEqual
  <2>2. <<a, b, c>> = <<a>> \o <<b, c>>
    <3>1. <<a, b, c>> \in Seq(T) /\ <<a>> \o <<b, c>> \in Seq(T)
      BY <1>2, <1>4
    <3>2. Len(<<a, b, c>>) = 3 /\ Len(<<a>> \o <<b, c>>) = 3
      BY <1>2, <1>4
    <3>3. \A i \in 1 .. 3 : <<a, b, c>>[i] = (<<a>> \o <<b, c>>)[i]
      BY <1>2, <1>4
    <3> QED
      BY <3>1, <3>2, <3>3, SeqEqual
  <2> QED
    BY <1>2, <2>1, <2>2
<1>6. (<<a>> \o <<b>>) \o h = <<a>> \o (<<b>> \o h)
  BY <1>2, <1>4, ConcatAssociative
<1>7. (<<b>> \o <<c>>) \o h = <<b>> \o (<<c>> \o h)
  BY <1>2, <1>4, ConcatAssociative
<1>8. (<<a>> \o <<b, c>>) \o h = <<a>> \o (<<b, c>> \o h)
  BY <1>2, <1>4, ConcatAssociative
<1>9. <<a, b, c>> \o h = <<a>> \o (<<b>> \o (<<c>> \o h))
  BY <1>5, <1>7, <1>8, Zenon
<1>10. <<a, b>> \o h = <<a>> \o (<<b>> \o h)
  BY <1>5, <1>6, Zenon
<1> QED
  BY <1>3, <1>9, <1>10, Zenon DEF Over, Over2, Over3

LEMMA DropArgsOK ==
  ASSUME NEW t, Good(t)
  PROVE  Keeps(t, drop_args(t))
<1> DEFINE r == [t EXCEPT !.args = 0]
           d == Depth(t)
<1>1. Shape(t) /\ d \in Nat
  BY FitsDepth DEF Good, Fits, Body
<1>2. Shape(r) /\ Alike(t, r) /\ r.host = t.host
  BY <1>1 DEF Shape, Fields, Alike
<1>3. Good(r) /\ Depth(r) = d
  BY <1>2, KeepsAlike DEF Keeps, Alike, Depth
<1> HIDE DEF r
<1>4. CASE t.args = 0
  <2>1. IsSequence(r.host)
    BY <1>3 DEF Good, Fits, Fit
  <2>2. Push(r, <<>>).host = r.host /\ Shape(Push(r, <<>>)) /\ Alike(r, Push(r, <<>>))
    <3>1. <<>> \o r.host = r.host
      BY <2>1, Tuples
    <3>2. Push(r, <<>>).host = <<>> \o r.host /\ Shape(Push(r, <<>>)) /\ Alike(r, Push(r, <<>>))
      BY <1>2, PushFields
    <3> QED
      BY <3>1, <3>2, Zenon
  <2>3. Keeps(r, Push(r, <<>>))
    BY <1>3, <2>2, KeepsAlike
  <2>4. drop_args(t) = Push(r, <<>>)
    BY <1>4 DEF drop_args, r
  <2> QED
    BY <1>2, <2>3, <2>4 DEF Keeps, Alike
<1>5. CASE t.args # 0
  <2> DEFINE x == Clear(d, arg(t, 0), arg(t, t.args - 1))
  <2>1. /\ IsCall(x) /\ Level(x, d) /\ After(x) = d /\ ~High(x) /\ x.op \notin MarkOps
        /\ \A s : Under(x, s)
    BY <1>1 DEF Clear, IsCall, Level, After, High, Above, Under, Needy, Ops, FloorOps, RunOps,
       TeardownOps, MarkOps
  <2>2. drop_args(t) = Push(r, <<x>>)
    BY <1>5 DEF drop_args, r
  <2> HIDE DEF x
  <2>3. Fits(Push(r, <<x>>), d)
    BY <1>1, <1>3, <2>1, PushOK DEF Good
  <2>4. Push(r, <<x>>).frames = t.frames
    BY <1>2, PushFields DEF Alike
  <2> QED
    BY <2>2, <2>3, <2>4 DEF Keeps, Good, Depth
<1> QED
  BY <1>4, <1>5

LEMMA CaughtOK ==
  ASSUME NEW t, Good(t), Above1(t, "run")
  PROVE  Keeps(t, Caught(t))
<1> DEFINE h == t.host
           d == Depth(t)
           run == h[1]
           a == [op |-> "drop_args", frame |-> d]
           b == [op |-> "unwind", depth |-> run.depth]
           c == [run EXCEPT !.op = "rethrow"]
           g == Tail(h)
           u == Caught(t)
<1>1. Shape(t) /\ d \in Nat /\ Fit(h, d) /\ IsSequence(h)
  BY FitsDepth DEF Good, Fits, Body, Fit
<1>2. /\ Len(h) \in Nat /\ Len(h) >= 1 /\ IsSequence(g)
      /\ 1 \in 1 .. Len(h) /\ h # <<>> /\ run.op = "run"
      /\ Calls(h) = {run} \cup Calls(g)
  BY <1>1, PopSequence DEF Above1
<1>3. IsCall(run) /\ Level(run, d)
  BY <1>1, <1>2 DEF Fit
<1>4. Fit(g, After(run)) /\ After(run) = run.depth /\ run.depth \in Nat /\ run.depth <= d
  BY <1>1, <1>2, <1>3, FitPop DEF After, FloorOps, RunOps, IsCall, Level
<1>5. u = [t EXCEPT !.host = Over3(a, b, c, g)]
  <2>1. \A at \in 1 .. Len(h) :
          (h[at].op = "run" /\ \A j \in 1 .. at - 1 : h[j].op # "run") <=> at = 1
    BY <1>2
  <2>2. (CHOOSE at \in 1 .. Len(h) :
           h[at].op = "run" /\ \A j \in 1 .. at - 1 : h[j].op # "run") = 1
    BY <1>2, <2>1
  <2>3. SubSeq(h, 1 + 1, Len(h)) = g
    <3>1. PICK S : h \in Seq(S)
      BY <1>1 DEF IsSequence
    <3> QED
      BY <1>2, <3>1
  <2> QED
    BY <2>2, <2>3 DEF Caught, Over3
<1> HIDE DEF u
<1>6. Shape(u) /\ Alike(t, u) /\ u.host = Over(a, Over(b, Over(c, g)))
  <2>1. Over3(a, b, c, g) = Over(a, Over(b, Over(c, g)))
    <3>1. IsSequence(g)
      BY <1>2
    <3> HIDE DEF a, b, c, g
    <3> QED
      BY <3>1, Tuples
  <2> QED
    BY <1>1, <1>5, <2>1 DEF Shape, Fields, Alike
<1>7. /\ IsCall(c) /\ Level(c, run.depth) /\ After(c) = run.depth /\ High(c)
         /\ Height(c) = run.depth
      /\ c.op = "rethrow" /\ \A s : Under(c, s)
  <2>1. {"op", "depth"} \subseteq DOMAIN run
    BY <1>2, <1>3 DEF IsCall
  <2>2. c.op = "rethrow" /\ c.depth = run.depth
    BY <2>1
  <2> HIDE DEF c
  <2> QED
    BY <1>4, <2>2 DEF IsCall, Level, After, High, Height, Above, Under, Needy, Ops, FloorOps,
       RunOps, TeardownOps
<1>8. /\ IsCall(b) /\ Level(b, d) /\ After(b) = run.depth /\ ~High(b) /\ b.op = "unwind"
      /\ \A s : s # <<>> /\ s[1] = c => Under(b, s)
  BY <1>4, <1>7 DEF IsCall, Level, After, High, Above, Under, Needy, Ops, FloorOps, RunOps,
     TeardownOps
<1>9. /\ IsCall(a) /\ Level(a, d) /\ After(a) = d /\ ~High(a) /\ a.op = "drop_args"
      /\ \A s : s # <<>> /\ s[1] = b => Under(a, s)
  BY <1>1, <1>8 DEF IsCall, Level, After, High, Above, Under, Needy, Ops, FloorOps, RunOps,
     TeardownOps
<1> HIDE DEF a, b, c, g, run, h, d
<1>10. Fit(Over(c, g), run.depth)
  BY <1>4, <1>7, FitPush
<1>11. IsSequence(Over(c, g)) /\ Over(c, g)[1] = c /\ Over(c, g) # <<>>
       /\ Calls(Over(c, g)) = {c} \cup Calls(g)
  BY <1>2, PushSequence
<1>12. Fit(Over(b, Over(c, g)), d)
  BY <1>1, <1>4, <1>8, <1>10, <1>11, FitPush
<1>13. IsSequence(Over(b, Over(c, g))) /\ Over(b, Over(c, g))[1] = b /\ Over(b, Over(c, g)) # <<>>
       /\ Calls(Over(b, Over(c, g))) = {b, c} \cup Calls(g)
  BY <1>11, PushSequence
<1>14. Fit(Over(a, Over(b, Over(c, g))), d)
  BY <1>1, <1>9, <1>12, <1>13, FitPush
<1>15. Calls(Over(a, Over(b, Over(c, g)))) = {a, b, c} \cup Calls(g)
  BY <1>13, PushSequence
<1>16. SameMarks(Calls(h), Calls(u.host))
  BY <1>2, <1>6, <1>7, <1>8, <1>9, <1>15 DEF SameMarks, MarkOps
<1>17. Fits(u, d)
  BY <1>6, <1>14, <1>16, FitsSame DEF Good, h, d
<1> QED
  BY <1>6, <1>17 DEF Keeps, Good, Depth, Alike, d, u

LEMMA ThrowOK ==
  ASSUME NEW t, Good(t), Above1(t, "run"), NEW v
  PROVE  Keeps(t, throw(t, v))
<1>1. Keeps(t, Caught(t))
  BY CaughtOK
<1>2. Keeps(Caught(t), reg_dec(Caught(t), v))
  BY <1>1, DecOK DEF Keeps
<1> QED
  BY <1>1, <1>2 DEF Keeps, throw

\* A call at the depth of the thread is made.
LEMMA CallHere ==
  ASSUME NEW t, Good(t), NEW x, IsCall(x), x.op \notin MarkOps,
         Level(x, Depth(t)), After(x) = Depth(t), High(x) => Height(x) <= Depth(t),
         Under(x, t.host)
  PROVE  Keeps(t, Push(t, <<x>>))
<1> DEFINE d == Depth(t)
<1>1. d \in Nat /\ Shape(t)
  BY FitsDepth DEF Good, Fits, Body
<1>2. Fits(t, After(x)) /\ After(x) <= d
  BY <1>1 DEF Good
<1> HIDE DEF d
<1>3. Fits(Push(t, <<x>>), d)
  BY <1>1, <1>2, PushOK DEF d
<1>4. Push(t, <<x>>).frames = t.frames
  BY <1>1, PushFields DEF Alike
<1> QED
  BY <1>3, <1>4 DEF Keeps, Good, Depth, d

LEMMA BadArgsOK ==
  ASSUME NEW t, Good(t), Above1(t, "run")
  PROVE  Keeps(t, badArgs(t))
<1> DEFINE x == [op |-> "throw", frame |-> Depth(t)]
<1>1. Depth(t) \in Nat
  BY FitsDepth DEF Good
<1>2. /\ IsCall(x) /\ x.op \notin MarkOps /\ Level(x, Depth(t)) /\ After(x) = Depth(t) /\ ~High(x)
      /\ \A s : s # <<>> /\ s[1].op = "run" => Under(x, s)
  BY <1>1 DEF IsCall, Level, After, High, Above, Under, Needy, Ops, FloorOps, RunOps,
     TeardownOps, MarkOps
<1> HIDE DEF x
<1>3. Keeps(t, Push(t, <<x>>))
  BY <1>2, CallHere DEF Above1
<1>4. Keeps(Push(t, <<x>>), drop_args(Push(t, <<x>>)))
  BY <1>3, DropArgsOK DEF Keeps
<1> QED
  BY <1>3, <1>4 DEF Keeps, badArgs, x

LEMMA FramedOK ==
  ASSUME NEW t, Good(t), Above1(t, "run"), NEW f, NEW dst
  PROVE  Good(Framed(t, f, dst))
<1> DEFINE frame == [func |-> f, dst |-> dst, base |-> arg(t, 0), raise_target |-> Depth(t) + 1]
           u == Framed(t, f, dst)
           d == Depth(t)
<1>1. Shape(t) /\ d \in Nat /\ IsSequence(t.frames)
  BY FitsDepth DEF Good, Fits, Body
<1>2. /\ Shape(u) /\ u.frames = Append(t.frames, frame) /\ u.host = t.host /\ u.where = t.where
      /\ u.finalized = t.finalized /\ u.queue = t.queue /\ u.in_collection = t.in_collection
  BY <1>1 DEF Framed, Shape, Fields
<1> HIDE DEF u, frame
<1>3. IsSequence(u.frames) /\ Depth(u) = d + 1
  <2>1. PICK S : t.frames \in Seq(S)
    BY <1>1 DEF IsSequence
  <2>2. Append(t.frames, frame) \in Seq(S \cup {frame}) /\ t.frames \in Seq(S \cup {frame})
    BY <2>1
  <2> QED
    BY <1>2, <2>1, <2>2 DEF IsSequence, Depth
<1>4. Level(t.host[1], d + 1)
  <2>1. 1 \in 1 .. Len(t.host)
    BY PopSequence DEF Above1, Good, Fits, Fit
  <2>2. IsCall(t.host[1]) /\ Level(t.host[1], d)
    BY <2>1 DEF Good, Fits, Fit, Above1
  <2> QED
    BY <1>1, <2>2 DEF Above1, Level, IsCall, FloorOps, RunOps
<1>5. Fits(t, d + 1)
  BY <1>1, <1>4, MoveOK DEF Good, Above1
<1>6. Fits(u, d + 1)
  BY <1>2, <1>3, <1>5 DEF Fits, Body, Once
<1> QED
  BY <1>3, <1>6 DEF Good, u

LEMMA PushframeOK ==
  ASSUME NEW t, Good(t), Above1(t, "run"), NEW f, NEW dst, NEW typed
  PROVE  Good(pushframe(t, f, dst, typed))
BY FramedOK, BadArgsOK DEF pushframe, Keeps

LEMMA TryPushframeOK ==
  ASSUME NEW t, Good(t), Above1(t, "run"), NEW f, NEW dst, NEW typed
  PROVE  Good(try_pushframe(t, f, dst, typed))
<1> DEFINE x == [op |-> "assign", frame |-> Depth(t), slot |-> local(t, dst), value |-> None]
<1>1. Depth(t) \in Nat
  BY FitsDepth DEF Good
<1>2. /\ IsCall(x) /\ x.op \notin MarkOps /\ Level(x, Depth(t)) /\ After(x) = Depth(t) /\ ~High(x)
      /\ \A s : Under(x, s)
  BY <1>1 DEF IsCall, Level, After, High, Above, Under, Needy, Ops, FloorOps, RunOps,
     TeardownOps, MarkOps
<1>3. try_pushframe(t, f, dst, typed) \in {Framed(t, f, dst), drop_args(Push(t, <<x>>))}
  BY DEF try_pushframe
<1> HIDE DEF x
<1>4. Keeps(t, Push(t, <<x>>))
  BY <1>2, CallHere
<1>5. Keeps(Push(t, <<x>>), drop_args(Push(t, <<x>>)))
  BY <1>4, DropArgsOK DEF Keeps
<1> QED
  BY <1>3, <1>5, FramedOK DEF Keeps

LEMMA MoveOutOK ==
  ASSUME NEW t, Good(t), NEW i
  PROVE  Keeps(t, MoveOut(t, i)) /\ MoveOut(t, i).host = t.host /\ Shape(MoveOut(t, i))
         /\ Alike(t, MoveOut(t, i))
<1>1. /\ Shape(MoveOut(t, i)) /\ Alike(t, MoveOut(t, i)) /\ MoveOut(t, i).host = t.host
  BY DEF Good, Fits, Body, Shape, Fields, Alike, MoveOut
<1> QED
  BY <1>1, KeepsAlike

LEMMA RunOK ==
  ASSUME NEW t, Good(t), NEW d, d = Depth(t), NEW why, NEW saved
  PROVE  LET x == [op |-> "run", why |-> why, depth |-> d, saved |-> saved]
         IN  Good(Push(t, <<x>>)) /\ Above1(Push(t, <<x>>), "run")
<1> DEFINE x == [op |-> "run", why |-> why, depth |-> d, saved |-> saved]
<1>1. Depth(t) \in Nat /\ Shape(t) /\ IsSequence(t.host)
  BY FitsDepth DEF Good, Fits, Body, Fit
<1>2. /\ IsCall(x) /\ x.op \notin MarkOps /\ Level(x, Depth(t)) /\ After(x) = Depth(t)
      /\ Height(x) <= Depth(t) /\ x.op = "run" /\ \A s : Under(x, s)
  BY <1>1 DEF IsCall, Level, After, High, Height, Above, Under, Needy, Ops, FloorOps, RunOps,
     TeardownOps, MarkOps
<1> HIDE DEF x
<1>3. Good(Push(t, <<x>>))
  BY <1>2, CallHere DEF Keeps
<1>4. Push(t, <<x>>).host = Over(x, t.host)
  BY <1>1, PushFields DEF Over
<1>5. Above1(Push(t, <<x>>), "run")
  BY <1>1, <1>2, <1>4, PushSequence DEF Above1
<1> QED
  BY <1>3, <1>5 DEF x

LEMMA ThreadRunOK ==
  ASSUME NEW t, Good(t), NEW f, NEW why, NEW typed
  PROVE  Good(thread_run(t, f, why, typed))
<1>1. CASE Depth(t) = 0
  <2> DEFINE u == Push(t, <<Run(t, why, None)>>)
  <2>1. Good(u) /\ Above1(u, "run")
    BY RunOK DEF Run
  <2>2. thread_run(t, f, why, typed) = pushframe(u, f, 0, typed)
    BY <1>1 DEF thread_run
  <2> HIDE DEF u
  <2> QED
    BY <2>1, <2>2, PushframeOK
<1>2. CASE Depth(t) # 0
  <2> DEFINE z == local(t, 0)
             v == MoveOut(t, z)
             u == Push(v, <<Run(t, why, t.locals[z])>>)
  <2>1. Good(v) /\ Depth(v) = Depth(t)
    BY MoveOutOK DEF Keeps, Depth
  <2> HIDE DEF v
  <2>2. Good(u) /\ Above1(u, "run")
    BY <2>1, RunOK DEF Run
  <2>3. thread_run(t, f, why, typed) = pushframe(u, f, 0, typed)
    BY <1>2 DEF thread_run, v
  <2> HIDE DEF u
  <2> QED
    BY <2>2, <2>3, PushframeOK
<1> QED
  BY <1>1, <1>2

-------------------------------------------------------------------------------
(* A frame is torn down *)

Group(c, v, k, r, tail) == <<c, v>> \o (IF tail THEN <<>> ELSE <<k>>) \o <<r>>

LEMMA TeardownSequence ==
  ASSUME NEW h, IsSequence(h), NEW c, NEW v, NEW k, NEW r, NEW tail
  PROVE  /\ IsSequence(Group(c, v, k, r, tail))
         /\ Group(c, v, k, r, tail) \o h
              = IF tail THEN Over(c, Over(v, Over(r, h)))
                        ELSE Over(c, Over(v, Over(k, Over(r, h))))
<1>1. PICK S : h \in Seq(S)
  BY DEF IsSequence
<1> DEFINE T == S \cup {c, v, k, r}
           middle == IF tail THEN <<>> ELSE <<k>>
<1>2. h \in Seq(T) /\ <<c, v>> \in Seq(T) /\ <<r>> \in Seq(T) /\ middle \in Seq(T)
  <2>1. c \in T /\ v \in T /\ k \in T /\ r \in T /\ h \in Seq(T)
    BY <1>1
  <2> HIDE DEF T
  <2>2. <<>> \in Seq(T) /\ <<k>> \in Seq(T) /\ <<c, v>> \in Seq(T) /\ <<r>> \in Seq(T)
    BY <2>1
  <2> QED
    BY <2>1, <2>2
<1>3. <<r>> \o h \in Seq(T) /\ <<c, v>> \o middle \in Seq(T)
      /\ <<c, v>> \o middle \o <<r>> \in Seq(T)
  BY <1>2
<1>4. IsSequence(<<r>> \o h) /\ IsSequence(middle \o (<<r>> \o h))
  BY <1>2, <1>3 DEF IsSequence
<1>5. (<<c, v>> \o middle \o <<r>>) \o h = (<<c, v>> \o middle) \o (<<r>> \o h)
  BY <1>2, <1>3, ConcatAssociative
<1>6. (<<c, v>> \o middle) \o (<<r>> \o h) = <<c, v>> \o (middle \o (<<r>> \o h))
  BY <1>2, <1>3, ConcatAssociative
<1>12. IsSequence(Group(c, v, k, r, tail)) /\ Group(c, v, k, r, tail) = <<c, v>> \o middle \o <<r>>
  BY <1>3 DEF IsSequence, Group
<1> DEFINE g == <<r>> \o h
           m == middle \o g
<1>7. <<c, v>> \o m = Over2(c, v, m)
  BY DEF Over2
<1> HIDE DEF m
<1>8. Over2(c, v, m) = Over(c, Over(v, m))
  BY <1>4, Tuples DEF m
<1>9. CASE tail
  <2>1. middle = <<>>
    BY <1>9
  <2>2. <<>> \o g = g
    BY <1>2, <1>3
  <2>3. m = Over(r, h)
    BY <2>1, <2>2, Zenon DEF m, Over
  <2> QED
    BY <1>3, <1>5, <1>6, <1>7, <1>8, <1>9, <1>12, <2>3 DEF m
<1>10. CASE ~tail
  <2>1. middle = <<k>>
    BY <1>10
  <2>2. m = Over(k, Over(r, h))
    BY <2>1, Zenon DEF m, Over
  <2> QED
    BY <1>3, <1>5, <1>6, <1>7, <1>8, <1>10, <1>12, <2>2 DEF m
<1> QED
  BY <1>9, <1>10

LEMMA OnStackFrame ==
  ASSUME NEW d, NEW e, OnStack(d) = OnStack(e)
  PROVE  d = e
BY DEF OnStack

LEMMA TeardownOK ==
  ASSUME NEW t, Good(t), NEW tail,
         \A y \in Calls(t.host) : y.op \in {"visit", "restore"} => y.frame < Depth(t)
  PROVE  Keeps(t, Push(t, teardownItems(t, tail)))
<1> DEFINE d == Depth(t)
           h == t.host
           c == Clear(d, local(t, 0), local(t, Registers[Top(t).func] - 1))
           v == [op |-> "visit", frame |-> d, seen |-> {}]
           k == [op |-> "collect", frame |-> d]
           r == [op |-> "restore", frame |-> d]
           rest == IF tail THEN Over(r, h) ELSE Over(k, Over(r, h))
           u == Push(t, teardownItems(t, tail))
<1>1. Shape(t) /\ d \in Nat /\ Fit(h, d) /\ IsSequence(h)
  BY FitsDepth DEF Good, Fits, Body, Fit
<1>2. teardownItems(t, tail) = Group(c, v, k, r, tail)
  BY DEF teardownItems, Group
<1>3. Shape(u) /\ Alike(t, u) /\ u.host = teardownItems(t, tail) \o h
  BY <1>1, PushFields
<1>4. /\ IsCall(c) /\ Level(c, d) /\ After(c) = d /\ ~High(c) /\ c.op = "clear"
         /\ \A s : Under(c, s)
      /\ IsCall(v) /\ Level(v, d) /\ After(v) = d /\ Height(v) = d /\ v.op = "visit"
      /\ \A s : s # <<>> /\ s[1] \in {k, r} => Under(v, s)
      /\ IsCall(k) /\ Level(k, d) /\ After(k) = d /\ Height(k) = d /\ k.op = "collect"
      /\ \A s : s # <<>> /\ s[1] = r => Under(k, s)
      /\ IsCall(r) /\ Level(r, d) /\ After(r) = d /\ Height(r) = d /\ r.op = "restore"
         /\ \A s : Under(r, s)
      /\ v.frame = d /\ v.seen = {} /\ r.frame = d
  <2>1. /\ IsCall(c) /\ Level(c, d) /\ After(c) = d /\ ~High(c) /\ c.op = "clear"
        /\ \A s : Under(c, s)
    BY <1>1 DEF Clear, IsCall, Level, After, High, Above, Under, Needy, Ops, FloorOps, RunOps,
       TeardownOps
  <2>2. /\ IsCall(v) /\ Level(v, d) /\ After(v) = d /\ Height(v) = d /\ v.op = "visit"
        /\ \A s : s # <<>> /\ s[1] \in {k, r} => Under(v, s)
        /\ v.frame = d /\ v.seen = {}
    BY <1>1 DEF IsCall, Level, After, Height, Above, Under, Needy, Ops, FloorOps, RunOps,
       TeardownOps
  <2>3. /\ IsCall(k) /\ Level(k, d) /\ After(k) = d /\ Height(k) = d /\ k.op = "collect"
        /\ \A s : s # <<>> /\ s[1] = r => Under(k, s)
    BY <1>1 DEF IsCall, Level, After, Height, Above, Under, Needy, Ops, FloorOps, RunOps,
       TeardownOps
  <2>4. /\ IsCall(r) /\ Level(r, d) /\ After(r) = d /\ Height(r) = d /\ r.op = "restore"
        /\ \A s : Under(r, s)
        /\ r.frame = d
    BY <1>1 DEF IsCall, Level, After, Height, Above, Under, Needy, Ops, FloorOps, RunOps,
       TeardownOps
  <2> HIDE DEF c, v, k, r, d
  <2> QED
    BY <2>1, <2>2, <2>3, <2>4
<1>5. u.host = Over(c, Over(v, rest))
  <2> HIDE DEF c, v, k, r, h
  <2>1. Group(c, v, k, r, tail) \o h
          = IF tail THEN Over(c, Over(v, Over(r, h))) ELSE Over(c, Over(v, Over(k, Over(r, h))))
    BY <1>1, TeardownSequence
  <2> QED
    BY <1>2, <1>3, <2>1
<1> HIDE DEF u, c, v, k, r
<1>6. \A y \in Calls(h) : y.op \in {"visit", "restore"} => y.frame < d
  OBVIOUS
<1> HIDE DEF d, h
<1>7. Fit(Over(r, h), d)
  BY <1>1, <1>4, <1>6, FitPush
<1>8. /\ IsSequence(Over(r, h)) /\ Over(r, h)[1] = r /\ Over(r, h) # <<>>
      /\ Calls(Over(r, h)) = {r} \cup Calls(h)
  BY <1>1, PushSequence
<1>9. Fit(Over(k, Over(r, h)), d)
  BY <1>1, <1>4, <1>7, <1>8, FitPush
<1>10. /\ IsSequence(Over(k, Over(r, h))) /\ Over(k, Over(r, h))[1] = k
          /\ Over(k, Over(r, h)) # <<>>
       /\ Calls(Over(k, Over(r, h))) = {k, r} \cup Calls(h)
  BY <1>8, PushSequence
<1>11. /\ Fit(rest, d) /\ IsSequence(rest) /\ Under(v, rest)
       /\ Calls(rest) = {r} \cup Calls(h) \/ Calls(rest) = {k, r} \cup Calls(h)
  BY <1>4, <1>7, <1>8, <1>9, <1>10
<1> HIDE DEF rest
<1>12. \A y \in Calls(rest) : y.op = "visit" => y.frame < d
  BY <1>4, <1>6, <1>11
<1>13. Fit(Over(v, rest), d)
  BY <1>1, <1>4, <1>11, <1>12, FitPush
<1>14. /\ IsSequence(Over(v, rest)) /\ Calls(Over(v, rest)) = {v} \cup Calls(rest)
       /\ Calls(Over(c, Over(v, rest))) = {c} \cup Calls(Over(v, rest))
  BY <1>11, PushSequence
<1>15. Fit(Over(c, Over(v, rest)), d)
  BY <1>1, <1>4, <1>13, <1>14, FitPush
<1>16. \A y \in Calls(u.host) : y \in Calls(h) \/ y = v \/ y = r \/ y.op \notin MarkOps
  BY <1>4, <1>5, <1>11, <1>14 DEF MarkOps
<1>17. Calls(h) \subseteq Calls(u.host) /\ v \in Calls(u.host) /\ r \in Calls(u.host)
  BY <1>5, <1>11, <1>14
<1>18. Body(u)
  BY <1>3 DEF Good, Fits, Body, Alike
<1>19. ASSUME NEW o \in Finalized, NEW w, NEW n, NEW q, Right(o, w, n, Calls(h), q)
       PROVE  Right(o, w, n, Calls(u.host), q)
  <2>1. CASE w # OnStack(d)
    <3>1. \A y \in Calls(u.host) : y.op \in {"visit", "restore"} /\ w = OnStack(y.frame)
              => y \in Calls(h)
      BY <1>4, <1>16, <2>1 DEF MarkOps
    <3>2. \A y \in Calls(u.host) : y.op = "drain" => y \in Calls(h)
      BY <1>4, <1>16 DEF MarkOps
    <3>3. About(w, Calls(u.host)) = About(w, Calls(h))
      BY <1>17, <3>1 DEF About
    <3> QED
      BY <1>17, <1>19, <3>1, <3>2, <3>3 DEF Right
  <2>2. CASE w = OnStack(d)
    <3>1. \A y \in Calls(h) : y.op \in {"visit", "restore"} => w # OnStack(y.frame)
      BY <1>1, <1>6, <2>2, OnStackFrame
    <3>2. About(w, Calls(h)) = {}
      BY <3>1 DEF About
    <3>3. w.at = "stack" /\ w # Dying
      BY <2>2 DEF OnStack, Dying
    <3>4. n = 0
      BY <1>19, <3>2, <3>3 DEF Right
    <3>5. \A y \in Calls(u.host) : y.op = "visit" /\ w = OnStack(y.frame) => y = v
      BY <1>4, <1>16, <3>1 DEF MarkOps
    <3>6. \A y \in Calls(u.host) : y.op = "restore" /\ w = OnStack(y.frame) => y = r
      BY <1>4, <1>16, <3>1 DEF MarkOps
    <3>7. \A y \in Calls(u.host) : y.op = "drain" => y \in Calls(h)
      BY <1>4, <1>16 DEF MarkOps
    <3> QED
      BY <1>4, <1>17, <1>19, <3>3, <3>4, <3>5, <3>6, <3>7 DEF Right
  <2> QED
    BY <2>1, <2>2
<1>20. \A o \in Finalized : Right(o, u.where[o], u.finalized[o], Calls(u.host), u.queue)
  BY <1>3, <1>19 DEF Good, Fits, Once, Alike, h
<1>21. u.in_collection <=> \E y \in Calls(u.host) : y.op = "drain"
  <2>1. t.in_collection <=> \E y \in Calls(h) : y.op = "drain"
    BY DEF Good, Fits, Once, h
  <2> QED
    BY <1>3, <1>4, <1>16, <1>17, <2>1 DEF MarkOps, Alike
<1>22. Fits(u, d)
  BY <1>5, <1>15, <1>18, <1>20, <1>21 DEF Fits, Once
<1> QED
  BY <1>3, <1>22 DEF Keeps, Good, Depth, Alike, d, u
================================================================================
