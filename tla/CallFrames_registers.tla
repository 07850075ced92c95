------------------------- MODULE CallFrames_registers -------------------------
(***************************************************************************)
(* What the registers hold while calls of C++ are in progress, for any     *)
(* program and any number of objects, functions and frames.                *)
(*                                                                         *)
(* A run, and a frame that is being torn down, are walls: what is above    *)
(* them refers to no variable below them, but for the arguments that a     *)
(* collection found in registers beyond the frames (Walled).  So nobody    *)
(* stores into a frame after it was cleared (Cleared), a frame that is     *)
(* popped leaves nothing behind (Occupied), and the register that a run    *)
(* leaves its result in stays free (Zero).                                 *)
(*                                                                         *)
(* The calls are counted from the bottom here, k[1] to k[n], so that a     *)
(* call keeps its place when others come and go above it.  F are the       *)
(* frames, L the registers, and the a registers beyond the frames are the  *)
(* arguments that were set up.                                             *)
(***************************************************************************)
EXTENDS CallFrames_proofs

Upward(h) == [p \in 1 .. Len(h) |-> h[Len(h) + 1 - p]]

-------------------------------------------------------------------------------
(* Registers *)

IsVar(v) == v.kind = "register"

\* The register after those of the first d frames.
End(F, d) == IF d = 0 THEN 0 ELSE F[d].base + Registers[F[d].func]
Lim(F) == End(F, Len(F))

IsFrame(y) == {"func", "dst", "base"} \subseteq DOMAIN y
Layout(F) ==
  /\ Len(F) \in Nat
  /\ \A d \in 1 .. Len(F) :
       /\ IsFrame(F[d])
       /\ F[d].func \in Functions
       /\ F[d].base \in Nat /\ F[d].base = End(F, d - 1)
       /\ \A e \in d + 1 .. Len(F) : End(F, d) <= F[e].base
       /\ d > 1 => F[d].dst \in 0 .. Registers[F[d - 1].func] - 1

\* A reference to a variable of a frame.
Valid(F, v) ==
  IsVar(v) => /\ v.frame \in 1 .. Len(F) /\ v.slot \in Int
              /\ F[v.frame].base <= v.slot /\ v.slot < End(F, v.frame)

Pending(F, a, i) == Lim(F) <= i /\ i < Lim(F) + a

\* The result of a run is in the first register of the frame it was made on.
Waits(F, k, n, d) == Len(F) = d /\ n >= 1 /\ k[n].op = "run" /\ k[n].depth = d

-------------------------------------------------------------------------------
(* The calls *)

TornOps == TeardownOps \cup {"pop", "tailcall"}

NoRun(k, p, n) == \A q \in p + 1 .. n : k[q].op \notin RunOps

\* A frame is torn down once its registers have been cleared.
Torn(k, n, p) ==
  k[p].op \in TornOps /\ \A q \in p + 1 .. n : k[q].op = "clear" => k[q].frame > k[p].frame
Wall(k, n, p) == k[p].op \in RunOps \/ Torn(k, n, p)

\* The first register above a wall.
Start(F, x) == IF x.op \in RunOps THEN End(F, x.depth) ELSE F[x.frame].base

BelowRun(x, z) ==
  /\ z.op \in RunOps => z.depth < x.depth
  /\ z.op \in TornOps \cup {"drain", "result"} => z.frame <= x.depth
  /\ IsVar(Temporary(z)) => Temporary(z).frame <= x.depth

BelowTorn(x, z) ==
  /\ z.op \in RunOps => z.depth < x.frame
  /\ z.op \in {"drain", "result"} => z.frame < x.frame
  /\ x.op \in {"pop", "tailcall"} /\ z.op \in TornOps => z.frame < x.frame
  /\ IsVar(Temporary(z)) => Temporary(z).frame < x.frame

BelowOther(x, z) ==
  z.op \in RunOps =>
    /\ x.op \in {"leave", "throw", "ffi"} => z.depth < x.frame
    /\ x.op = "raise" => z.depth < x.target
    /\ x.op = "result" => z.depth <= x.frame /\ (z.op = "run" /\ z.depth = x.frame => x.slot = 0)

Below(k, p) ==
  LET x == k[p]
  IN \A q \in 1 .. p - 1 :
       /\ x.op \in RunOps => BelowRun(x, k[q])
       /\ x.op \in TornOps => BelowTorn(x, k[q])
       /\ BelowOther(x, k[q])
       /\ x.op \in TornOps /\ k[q].op \in {"clear", "ffi"}
            => \E r \in q + 1 .. p - 1 : k[r].op \in RunOps

\* How a call fits the frames that there are.
Placed(F, k, n, p) ==
  LET x == k[p]
      d == Len(F)
  IN /\ IsCall(x)
     /\ x.op \in RunOps => \/ x.depth < d
                           \/ x.depth = d /\ \A q \in p + 1 .. n : k[q].op \in {"result", "unwind"}
     /\ x.op = "run" /\ x.depth < d => F[x.depth + 1].dst = 0
     /\ x.op = "run" /\ x.depth = 0 => x.saved = None
     /\ x.op \in TornOps \cup {"drain", "result"} => x.frame <= d
     /\ x.op \in TornOps => x.frame >= 1
     /\ x.op = "result" => /\ x.slot \in Nat
                           /\ x.frame >= 1 => x.slot < Registers[F[x.frame].func]
     /\ x.op = "tailcall" => /\ x.func \in Functions
                             /\ Params[x.func] <= Registers[F[x.frame].func]
     /\ x.op = "clear" => x.from \in Int /\ x.to \in Int
     /\ x.op = "ffi" => x.args \in Nat
     /\ x.op = "assign" => x.value = None
     /\ x.op = "start" => x.func = "fin"
     /\ x.op = "callback" => x.func \in Functions
     /\ p = 1 => After(x) = 0

\* The registers of a frame that is not torn down yet are about to be cleared.
Covers(F, x, z) ==
  /\ z.op = "clear" /\ z.frame = x.frame
  /\ z.from = F[x.frame].base /\ z.to = End(F, x.frame) - 1
Covered(F, k, n, p) ==
  k[p].op \in TornOps /\ ~Torn(k, n, p) =>
    \E q \in p + 1 .. n : /\ Covers(F, k[p], k[q])
                          /\ \A r \in p + 1 .. q - 1 : k[r].op \in TeardownOps

\* A reference to a variable in a call.
Lev(x) == IF x.op \in FloorOps THEN x.depth ELSE IF x.op = "raise" THEN x.target ELSE x.frame
Carries(F, x) ==
  /\ Valid(F, Temporary(x))
  /\ IsVar(Temporary(x)) => Temporary(x).frame <= Lev(x)

Called1(F, k, n, p) ==
  Below(k, p) /\ Placed(F, k, n, p) /\ Covered(F, k, n, p) /\ Carries(F, k[p])

-------------------------------------------------------------------------------
(* Walls *)

\* What the collector found when it began.
Found(k, p, e) == \E q \in 1 .. p - 1 : k[q].op = "drain" /\ e <= k[q].frame

Passes(k, p, v) == IsVar(v) => v.frame > Height(k[p]) \/ Found(k, p, v.frame)

Walled(F, L, a, k, n, p) ==
  Wall(k, n, p) =>
    /\ \A i \in 0 .. Slots - 1 : i >= Start(F, k[p]) =>
         \/ Passes(k, p, L[i])
         \/ k[p].op \in TornOps /\ NoRun(k, p, n) /\ Pending(F, a, i)
    /\ \A q \in p + 1 .. n : Passes(k, p, Temporary(k[q]))

Cleared(F, L, k, n, p) ==
  Torn(k, n, p) =>
    LET d == k[p].frame
    IN /\ \A i \in 0 .. Slots - 1 : F[d].base <= i /\ i < End(F, d) =>
            \/ L[i] = None
            \/ i = F[d].base /\ Waits(F, k, n, d)
       /\ \A q \in p + 1 .. n : k[q].op \in RunOps /\ k[q].depth = d => Temporary(k[q]) = None

\* The register that a run's result goes to is free.
Zero(F, L, k, n, p) ==
  k[p].op = "run" /\ k[p].depth >= 1 /\ ~Found(k, p, k[p].depth) =>
    \/ L[F[k[p].depth].base] = None
    \/ p = n /\ Len(F) = k[p].depth

Walls(F, L, a, k, n, p) ==
  Walled(F, L, a, k, n, p) /\ Cleared(F, L, k, n, p) /\ Zero(F, L, k, n, p)

-------------------------------------------------------------------------------
(* What the registers hold *)

Holds(F, i, v) == Valid(F, v) /\ (IsVar(v) => F[v.frame].base <= i)

Held1(F, L) ==
  /\ DOMAIN L = 0 .. Slots - 1
  /\ \A i \in 0 .. Slots - 1 : Holds(F, i, L[i])

OK(F, L, a, k, n) ==
  /\ n \in Nat /\ a \in Nat /\ Layout(F) /\ Lim(F) <= Slots /\ Held1(F, L)
  /\ \A p \in 1 .. n : Called1(F, k, n, p) /\ Walls(F, L, a, k, n, p)

\* A call that drops the register i, and no run in between that could use it.
Drops(F, k, n, p, i) ==
  \/ k[p].op = "clear" /\ k[p].from <= i /\ i <= k[p].to
  \/ k[p].op = "ffi" /\ p = n /\ Lim(F) <= i /\ i < Lim(F) + k[p].args
Open(k, n, p, v) ==
  \/ NoRun(k, p, n)
  \/ \E q \in p + 1 .. n : /\ k[q].op = "drain" /\ NoRun(k, p, q)
                           /\ IsVar(v) => v.frame <= k[q].frame

Occupied(F, L, a, k, n) ==
  \A i \in 0 .. Slots - 1 : i >= Lim(F) /\ L[i] # None =>
    \/ Pending(F, a, i)
    \/ i = 0 /\ Waits(F, k, n, 0)
    \/ \E p \in 1 .. n : Drops(F, k, n, p, i) /\ Open(k, n, p, L[i])

-------------------------------------------------------------------------------
(* Arguments are pending only where something is about to take them *)

TailOps == {"clear", "visit", "restore", "drain"}
Taking(F, a, k, n) ==
  \/ k[n].op = "run" /\ k[n].depth < Len(F) /\ a <= Registers[F[Len(F)].func]
  \/ k[n].op \in {"drop_args", "start", "callback"}
  \/ \E p \in 1 .. n : k[p].op = "tailcall" /\ \A q \in p + 1 .. n : k[q].op \in TailOps

Args(F, L, a, k, n) ==
  /\ a # 0 => n >= 1 /\ Taking(F, a, k, n)
  /\ \A p \in 1 .. n : k[p].op \in {"start", "callback"} =>
       /\ p = n
       /\ \A i \in 0 .. Slots - 1 : Pending(F, a, i) => ~IsVar(L[i])
       /\ k[p].op = "start" => a = 1
       /\ k[p].op = "callback" => a <= Params[k[p].func]

Bottom(F, n) == n = 0 => Len(F) = 0

Sound(F, L, a, k, n) ==
  OK(F, L, a, k, n) /\ Occupied(F, L, a, k, n) /\ Bottom(F, n)

Kept(t) == Sound(t.frames, t.locals, t.args, Upward(t.host), Len(t.host))
Given(t) == Args(t.frames, t.locals, t.args, Upward(t.host), Len(t.host))

-------------------------------------------------------------------------------
(* Positions, and the ends of frames *)

LEMMA UpwardOver ==
  ASSUME NEW h, IsSequence(h), NEW x
  PROVE  /\ Len(h) \in Nat /\ Len(Over(x, h)) = Len(h) + 1
         /\ Upward(Over(x, h))[Len(h) + 1] = x
         /\ \A p \in 1 .. Len(h) : Upward(Over(x, h))[p] = Upward(h)[p]
<1> DEFINE g == Over(x, h)
           n == Len(h)
<1>1. /\ n \in Nat /\ Len(g) = n + 1 /\ g[1] = x
      /\ \A i \in 2 .. n + 1 : g[i] = h[i - 1]
  BY PushSequence
<1> HIDE DEF g, n
<1>2. \A p \in 1 .. n + 1 : Upward(g)[p] = g[n + 2 - p]
  BY <1>1 DEF Upward
<1>3. n + 1 \in 1 .. n + 1 /\ n + 2 - (n + 1) = 1
  BY <1>1
<1>4. Upward(g)[n + 1] = x
  BY <1>1, <1>2, <1>3
<1>5. ASSUME NEW p \in 1 .. n PROVE Upward(g)[p] = Upward(h)[p]
  <2>1. p \in 1 .. n + 1 /\ n + 2 - p \in 2 .. n + 1 /\ (n + 2 - p) - 1 = n + 1 - p
    BY <1>1
  <2>2. Upward(g)[p] = h[n + 1 - p]
    BY <1>1, <1>2, <2>1
  <2>3. Upward(h)[p] = h[n + 1 - p]
    BY DEF Upward, n
  <2> QED
    BY <2>2, <2>3
<1> QED
  BY <1>1, <1>4, <1>5 DEF g, n

LEMMA UpwardTail ==
  ASSUME NEW h, IsSequence(h), h # <<>>
  PROVE  /\ Len(Tail(h)) \in Nat /\ Len(h) = Len(Tail(h)) + 1
         /\ Upward(h)[Len(h)] = h[1]
         /\ \A p \in 1 .. Len(Tail(h)) : Upward(h)[p] = Upward(Tail(h))[p]
<1>1. IsSequence(Tail(h)) /\ h = Over(h[1], Tail(h))
  BY PopSequence
<1> DEFINE g == Tail(h)
           x == h[1]
<1> HIDE DEF g, x
<1>2. /\ Len(g) \in Nat /\ Len(Over(x, g)) = Len(g) + 1
      /\ Upward(Over(x, g))[Len(g) + 1] = x
      /\ \A p \in 1 .. Len(g) : Upward(Over(x, g))[p] = Upward(g)[p]
  BY <1>1, UpwardOver DEF g
<1>3. h = Over(x, g)
  BY <1>1 DEF x, g
<1> QED
  BY <1>2, <1>3 DEF x, g

\* Where a call is, as a number.
LEMMA PlacedFacts ==
  ASSUME NEW F, NEW k, NEW n, NEW p, Placed(F, k, n, p)
  PROVE  /\ k[p].op \in RunOps => k[p].depth \in Nat
         /\ k[p].op \in TornOps \cup {"drain", "result"} => k[p].frame \in Int
<1>1. IsCall(k[p])
  BY DEF Placed
<1>2. k[p].op \in RunOps => k[p].depth \in Nat
  BY <1>1 DEF IsCall, FloorOps
<1>3. k[p].op \in TornOps \cup {"drain", "result"} => k[p].frame \in Int
  BY <1>1 DEF IsCall, FloorOps, RunOps, TornOps, TeardownOps
<1> QED
  BY <1>2, <1>3

LEMMA AtMost ==
  ASSUME NEW x \in Int, NEW y \in Int, NEW z \in Int, x <= y, y <= z
  PROVE  x <= z
OBVIOUS

LEMMA Ends ==
  ASSUME NEW F, Layout(F)
  PROVE  /\ Len(F) \in Nat /\ Lim(F) \in Nat /\ Lim(F) = End(F, Len(F))
         /\ \A d \in 0 .. Len(F) : End(F, d) \in Nat /\ End(F, d) <= Lim(F)
         /\ \A d \in 1 .. Len(F) :
              /\ F[d].func \in Functions /\ Registers[F[d].func] \in Nat \ {0}
              /\ F[d].base \in Nat /\ F[d].base = End(F, d - 1)
              /\ End(F, d) = F[d].base + Registers[F[d].func] /\ F[d].base < End(F, d)
         /\ \A d, e \in 0 .. Len(F) : d < e => End(F, d) <= F[e].base
         /\ \A d, e \in 0 .. Len(F) : d <= e => End(F, d) <= End(F, e)
<1>1. Len(F) \in Nat
  BY DEF Layout
<1>2. ASSUME NEW d \in 1 .. Len(F)
      PROVE  /\ F[d].func \in Functions /\ Registers[F[d].func] \in Nat \ {0}
             /\ F[d].base \in Nat /\ F[d].base = End(F, d - 1)
             /\ End(F, d) = F[d].base + Registers[F[d].func]
             /\ \A e \in d + 1 .. Len(F) : End(F, d) <= F[e].base
  <2>1. /\ F[d].func \in Functions /\ F[d].base \in Nat /\ F[d].base = End(F, d - 1)
        /\ \A e \in d + 1 .. Len(F) : End(F, d) <= F[e].base
    BY DEF Layout
  <2>2. Registers[F[d].func] \in Nat \ {0}
    BY <2>1, CallFramesAssumption
  <2>3. d # 0
    OBVIOUS
  <2> QED
    BY <2>1, <2>2, <2>3 DEF End
<1>3. ASSUME NEW d \in 1 .. Len(F) PROVE End(F, d) \in Nat /\ F[d].base < End(F, d)
  BY <1>2
<1>4. End(F, 0) = 0
  BY DEF End
<1>5. ASSUME NEW d \in 0 .. Len(F) PROVE End(F, d) \in Nat
  BY <1>1, <1>3, <1>4
<1>6. ASSUME NEW d \in 0 .. Len(F), NEW e \in 0 .. Len(F), d < e
      PROVE  End(F, d) <= F[e].base
  <2>1. CASE d = 0
    BY <1>1, <1>2, <1>4, <1>6, <2>1
  <2>2. CASE d # 0
    BY <1>1, <1>2, <1>6, <2>2
  <2> QED
    BY <2>1, <2>2
<1>7. ASSUME NEW d \in 0 .. Len(F), NEW e \in 0 .. Len(F), d <= e
      PROVE  End(F, d) <= End(F, e)
  <2>1. CASE d = e
    BY <1>5, <2>1
  <2>2. CASE d < e
    <3>1. e \in 1 .. Len(F) /\ End(F, d) <= F[e].base
      BY <1>1, <1>6, <2>2
    <3> QED
      BY <1>2, <1>3, <1>5, <3>1
  <2> QED
    BY <1>1, <1>7, <2>1, <2>2
<1>8. Len(F) \in 0 .. Len(F) /\ Lim(F) = End(F, Len(F))
  BY <1>1 DEF Lim
<1>9. ASSUME NEW d \in 0 .. Len(F) PROVE End(F, d) <= Lim(F)
  BY <1>1, <1>7, <1>8
<1> QED
  BY <1>1, <1>2, <1>3, <1>5, <1>6, <1>7, <1>8, <1>9

-------------------------------------------------------------------------------
(* Calls come and go *)

\* No argument that is set up refers to a variable.
Firm(F, L, a) == \A i \in 0 .. Slots - 1 : Pending(F, a, i) => ~IsVar(L[i])

\* Above the first b calls of k there are others now: j has m calls.
Others(F, L, a, k, n, j, m, b) ==
  /\ m \in Nat /\ b \in Nat /\ b <= n /\ b <= m
  /\ \A p \in 1 .. b : j[p] = k[p]
  /\ \A p \in 1 .. b : k[p].op \in RunOps =>
       k[p].depth < Len(F) \/ \A q \in b + 1 .. m : j[q].op \in {"result", "unwind"}
  /\ \A p \in 1 .. b : k[p].op \in TornOps =>
       /\ \A q \in b + 1 .. n : k[q].op = "clear" => k[q].frame > k[p].frame
       /\ \A q \in b + 1 .. m : j[q].op = "clear" => j[q].frame > k[p].frame
  /\ (\E q \in b + 1 .. m : j[q].op \in RunOps) =>
       (\E q \in b + 1 .. n : k[q].op \in RunOps) \/ Firm(F, L, a)
  /\ \A p \in 1 .. b, q \in b + 1 .. m :
       Wall(k, n, p) => Passes(k, p, Temporary(j[q]))
  /\ \A p \in 1 .. b, q \in b + 1 .. m :
       Torn(k, n, p) /\ j[q].op \in RunOps /\ j[q].depth = k[p].frame => Temporary(j[q]) = None
  /\ Waits(F, k, n, Len(F)) =>
       /\ b < n
       /\ \A p \in 1 .. b : Torn(k, n, p) /\ k[p].frame = Len(F) => L[F[Len(F)].base] = None

LEMMA SamePasses ==
  ASSUME NEW k, NEW j, NEW b \in Nat, \A p \in 1 .. b : j[p] = k[p], NEW p \in 1 .. b
  PROVE  /\ \A e : Found(j, p, e) <=> Found(k, p, e)
         /\ \A v : Passes(j, p, v) <=> Passes(k, p, v)
<1>1. \A q \in 1 .. p - 1 : q \in 1 .. b /\ j[q] = k[q]
  OBVIOUS
<1>2. j[p] = k[p]
  OBVIOUS
<1>3. \A e : Found(j, p, e) <=> Found(k, p, e)
  BY <1>1 DEF Found
<1> QED
  BY <1>2, <1>3 DEF Passes

LEMMA SameTorn ==
  ASSUME NEW F, NEW L, NEW a, NEW k, NEW n \in Nat, NEW j, NEW m, NEW b,
         Others(F, L, a, k, n, j, m, b), NEW p \in 1 .. b
  PROVE  (Torn(j, m, p) <=> Torn(k, n, p)) /\ (Wall(j, m, p) <=> Wall(k, n, p))
<1>1. m \in Nat /\ b \in Nat /\ b <= n /\ b <= m /\ \A q \in 1 .. b : j[q] = k[q]
  BY DEF Others
<1>2. j[p] = k[p]
  BY <1>1
<1>3. ASSUME k[p].op \in TornOps PROVE Torn(j, m, p) <=> Torn(k, n, p)
  <2>1. /\ \A q \in b + 1 .. n : k[q].op = "clear" => k[q].frame > k[p].frame
        /\ \A q \in b + 1 .. m : j[q].op = "clear" => j[q].frame > k[p].frame
    BY <1>3 DEF Others
  <2>2. \A q \in p + 1 .. n : q \in p + 1 .. b \/ q \in b + 1 .. n
    BY <1>1
  <2>3. \A q \in p + 1 .. m : q \in p + 1 .. b \/ q \in b + 1 .. m
    BY <1>1
  <2>4. \A q \in p + 1 .. b : q \in p + 1 .. n /\ q \in p + 1 .. m /\ j[q] = k[q]
    BY <1>1
  <2> QED
    BY <1>2, <2>1, <2>2, <2>3, <2>4 DEF Torn
<1>4. Torn(j, m, p) <=> Torn(k, n, p)
  BY <1>2, <1>3 DEF Torn
<1> QED
  BY <1>2, <1>4 DEF Wall

LEMMA OthersCalled ==
  ASSUME NEW F, NEW L, NEW a, NEW k, NEW n, OK(F, L, a, k, n), NEW j, NEW m, NEW b,
         Others(F, L, a, k, n, j, m, b), NEW p \in 1 .. b
  PROVE  Called1(F, j, m, p)
<1>1. m \in Nat /\ b \in Nat /\ b <= n /\ b <= m /\ \A q \in 1 .. b : j[q] = k[q]
  BY DEF Others
<1>2. n \in Nat /\ p \in 1 .. n /\ Called1(F, k, n, p)
  BY <1>1 DEF OK
<1>3. j[p] = k[p]
  BY <1>1
<1>4. \A q \in 1 .. p - 1 : q \in 1 .. b /\ j[q] = k[q]
  BY <1>1
<1>5. Below(j, p)
  <2>1. Below(k, p)
    BY <1>2 DEF Called1
  <2>2. ASSUME NEW q \in 1 .. p - 1 PROVE \A r \in q + 1 .. p - 1 : j[r] = k[r]
    BY <1>1
  <2> QED
    BY <1>3, <1>4, <2>1, <2>2 DEF Below
<1>6. Placed(F, j, m, p)
  <2>1. Placed(F, k, n, p)
    BY <1>2 DEF Called1
  <2>2. ASSUME k[p].op \in RunOps
        PROVE  \/ k[p].depth < Len(F)
               \/ k[p].depth = Len(F) /\ \A q \in p + 1 .. m : j[q].op \in {"result", "unwind"}
    <3>1. CASE k[p].depth < Len(F)
      BY <3>1
    <3>2. CASE ~(k[p].depth < Len(F))
      <4>1. k[p].depth = Len(F) /\ \A q \in p + 1 .. n : k[q].op \in {"result", "unwind"}
        BY <2>1, <2>2, <3>2 DEF Placed
      <4>2. \A q \in b + 1 .. m : j[q].op \in {"result", "unwind"}
        BY <2>2, <3>2 DEF Others
      <4>3. \A q \in p + 1 .. m : q \in b + 1 .. m \/ (q \in 1 .. b /\ q \in p + 1 .. n)
        BY <1>1, <1>2
      <4> QED
        BY <1>1, <4>1, <4>2, <4>3
    <3> QED
      BY <3>1, <3>2
  <2> QED
    BY <1>3, <2>1, <2>2 DEF Placed
<1>7. Covered(F, j, m, p)
  <2>1. CASE j[p].op \in TornOps /\ ~Torn(j, m, p)
    <3>1. k[p].op \in TornOps /\ ~Torn(k, n, p)
      BY <1>2, <1>3, <2>1, SameTorn
    <3>2. PICK q \in p + 1 .. n : /\ Covers(F, k[p], k[q])
                                  /\ \A r \in p + 1 .. q - 1 : k[r].op \in TeardownOps
      BY <1>2, <3>1 DEF Called1, Covered
    <3>3. IsCall(k[p]) /\ k[p].frame \in Int
      BY <1>2, <3>1 DEF Called1, Placed, IsCall, TornOps, TeardownOps, FloorOps, RunOps
    <3>4. k[q].op = "clear" /\ k[q].frame = k[p].frame
      BY <3>2 DEF Covers
    <3>5. ~(q \in b + 1 .. n)
      BY <3>1, <3>3, <3>4 DEF Others
    <3>6. q \in p + 1 .. m /\ q \in 1 .. b
      BY <1>1, <1>2, <3>5
    <3>7. \A r \in p + 1 .. q - 1 : r \in 1 .. b
      BY <1>1, <3>6
    <3> QED
      BY <1>1, <1>3, <3>2, <3>6, <3>7 DEF Covered
  <2>2. CASE ~(j[p].op \in TornOps /\ ~Torn(j, m, p))
    BY <2>2 DEF Covered
  <2> QED
    BY <2>1, <2>2
<1>8. Carries(F, j[p])
  BY <1>2, <1>3 DEF Called1
<1> QED
  BY <1>5, <1>6, <1>7, <1>8 DEF Called1

LEMMA OthersWalled ==
  ASSUME NEW F, NEW L, NEW a, NEW k, NEW n, OK(F, L, a, k, n), NEW j, NEW m, NEW b,
         Others(F, L, a, k, n, j, m, b), NEW p \in 1 .. b
  PROVE  Walled(F, L, a, j, m, p)
<1>1. m \in Nat /\ b \in Nat /\ b <= n /\ b <= m /\ \A q \in 1 .. b : j[q] = k[q]
  BY DEF Others
<1>2. n \in Nat /\ p \in 1 .. n /\ Walled(F, L, a, k, n, p)
  BY <1>1 DEF OK, Walls
<1>3. j[p] = k[p] /\ \A v : Passes(j, p, v) <=> Passes(k, p, v)
  BY <1>1, SamePasses
<1> SUFFICES ASSUME Wall(j, m, p)
             PROVE  /\ \A i \in 0 .. Slots - 1 : i >= Start(F, j[p]) =>
                         \/ Passes(j, p, L[i])
                         \/ j[p].op \in TornOps /\ NoRun(j, p, m) /\ Pending(F, a, i)
                    /\ \A q \in p + 1 .. m : Passes(j, p, Temporary(j[q]))
  BY DEF Walled
<1>4. Wall(k, n, p)
  BY <1>2, SameTorn
<1>5. ASSUME NEW i \in 0 .. Slots - 1, i >= Start(F, j[p])
      PROVE  \/ Passes(j, p, L[i])
             \/ j[p].op \in TornOps /\ NoRun(j, p, m) /\ Pending(F, a, i)
  <2>1. CASE Passes(k, p, L[i])
    BY <1>3, <2>1
  <2>2. CASE ~Passes(k, p, L[i])
    <3>1. k[p].op \in TornOps /\ NoRun(k, p, n) /\ Pending(F, a, i)
      BY <1>2, <1>3, <1>4, <1>5, <2>2 DEF Walled
    <3>2. IsVar(L[i])
      BY <2>2 DEF Passes
    <3>3. ~Firm(F, L, a)
      BY <1>5, <3>1, <3>2 DEF Firm
    <3>4. \A q \in b + 1 .. n : k[q].op \notin RunOps
      BY <1>1, <3>1 DEF NoRun
    <3>5. \A q \in b + 1 .. m : j[q].op \notin RunOps
      BY <3>3, <3>4 DEF Others
    <3>6. \A q \in p + 1 .. m : q \in b + 1 .. m \/ (q \in p + 1 .. n /\ j[q] = k[q])
      BY <1>1, <1>2
    <3>7. NoRun(j, p, m)
      BY <3>1, <3>5, <3>6 DEF NoRun
    <3> QED
      BY <1>3, <3>1, <3>7
  <2> QED
    BY <2>1, <2>2
<1>6. ASSUME NEW q \in p + 1 .. m PROVE Passes(j, p, Temporary(j[q]))
  <2>1. CASE q \in b + 1 .. m
    BY <1>3, <1>4, <2>1 DEF Others
  <2>2. CASE q \notin b + 1 .. m
    <3>1. q \in p + 1 .. n /\ j[q] = k[q]
      BY <1>1, <1>2, <2>2
    <3> QED
      BY <1>2, <1>3, <1>4, <3>1 DEF Walled
  <2> QED
    BY <2>1, <2>2
<1> QED
  BY <1>5, <1>6

LEMMA OthersCleared ==
  ASSUME NEW F, NEW L, NEW a, NEW k, NEW n, OK(F, L, a, k, n), NEW j, NEW m, NEW b,
         Others(F, L, a, k, n, j, m, b), NEW p \in 1 .. b
  PROVE  Cleared(F, L, j, m, p)
<1>1. m \in Nat /\ b \in Nat /\ b <= n /\ b <= m /\ \A q \in 1 .. b : j[q] = k[q]
  BY DEF Others
<1>2. n \in Nat /\ p \in 1 .. n /\ Cleared(F, L, k, n, p)
  BY <1>1 DEF OK, Walls
<1>3. j[p] = k[p]
  BY <1>1
<1> DEFINE d == k[p].frame
<1> SUFFICES ASSUME Torn(j, m, p)
             PROVE  /\ \A i \in 0 .. Slots - 1 : F[d].base <= i /\ i < End(F, d) =>
                         L[i] = None \/ (i = F[d].base /\ Waits(F, j, m, d))
                    /\ \A q \in p + 1 .. m :
                         j[q].op \in RunOps /\ j[q].depth = d => Temporary(j[q]) = None
  BY <1>3 DEF Cleared
<1>4. Torn(k, n, p)
  BY <1>2, SameTorn
<1>5. ASSUME NEW i \in 0 .. Slots - 1, F[d].base <= i, i < End(F, d)
      PROVE  L[i] = None
  <2>1. L[i] = None \/ (i = F[d].base /\ Waits(F, k, n, d))
    BY <1>2, <1>4, <1>5 DEF Cleared
  <2>2. CASE i = F[d].base /\ Waits(F, k, n, d)
    <3>1. Len(F) = d /\ Waits(F, k, n, Len(F))
      BY <2>2 DEF Waits
    <3>2. L[F[Len(F)].base] = None
      BY <1>4, <3>1 DEF Others
    <3> QED
      BY <2>2, <3>1, <3>2
  <2> QED
    BY <2>1, <2>2
<1>6. ASSUME NEW q \in p + 1 .. m, j[q].op \in RunOps, j[q].depth = d
      PROVE  Temporary(j[q]) = None
  <2>1. CASE q \in b + 1 .. m
    BY <1>4, <1>6, <2>1 DEF Others
  <2>2. CASE q \notin b + 1 .. m
    <3>1. q \in p + 1 .. n /\ j[q] = k[q]
      BY <1>1, <1>2, <2>2
    <3> QED
      BY <1>2, <1>4, <1>6, <3>1 DEF Cleared
  <2> QED
    BY <2>1, <2>2
<1> QED
  BY <1>5, <1>6

LEMMA OthersOK ==
  ASSUME NEW F, NEW L, NEW a, NEW k, NEW n, OK(F, L, a, k, n), NEW j, NEW m, NEW b,
         Others(F, L, a, k, n, j, m, b),
         \A p \in b + 1 .. m : Called1(F, j, m, p) /\ Walls(F, L, a, j, m, p)
  PROVE  OK(F, L, a, j, m)
<1>1. m \in Nat /\ b \in Nat /\ b <= n /\ b <= m /\ \A q \in 1 .. b : j[q] = k[q]
  BY DEF Others
<1>2. n \in Nat
  BY DEF OK
<1>3. ASSUME NEW p \in 1 .. b PROVE Zero(F, L, j, m, p)
  <2>1. p \in 1 .. n /\ Zero(F, L, k, n, p) /\ j[p] = k[p]
    BY <1>1, <1>2, <1>3 DEF OK, Walls
  <2>2. \A e : Found(j, p, e) <=> Found(k, p, e)
    BY <1>1, SamePasses
  <2>3. ASSUME k[p].op = "run", p = n, Len(F) = k[p].depth PROVE FALSE
    <3>1. Waits(F, k, n, Len(F))
      BY <1>2, <2>1, <2>3 DEF Waits
    <3>2. b < n
      BY <3>1 DEF Others
    <3> QED
      BY <1>1, <1>2, <1>3, <2>3, <3>2
  <2> QED
    BY <2>1, <2>2, <2>3 DEF Zero
<1>4. ASSUME NEW p \in 1 .. b PROVE Called1(F, j, m, p) /\ Walls(F, L, a, j, m, p)
  BY <1>3, <1>4, OthersCalled, OthersWalled, OthersCleared DEF Walls
<1>5. \A p \in 1 .. m : p \in 1 .. b \/ p \in b + 1 .. m
  BY <1>1
<1> QED
  BY <1>1, <1>4, <1>5 DEF OK

\* No run was entered with as many frames as there are.
Strict(F, k, n) == \A p \in 1 .. n : k[p].op \in RunOps => k[p].depth < Len(F)

LEMMA StrictRuns ==
  ASSUME NEW F, NEW L, NEW a, NEW k, NEW n, OK(F, L, a, k, n), n >= 1,
         k[n].op \notin {"result", "unwind"}, k[n].op \in RunOps => k[n].depth < Len(F)
  PROVE  Strict(F, k, n)
<1>1. n \in Nat /\ n \in 1 .. n
  BY DEF OK
<1>2. ASSUME NEW p \in 1 .. n, k[p].op \in RunOps PROVE k[p].depth < Len(F)
  <2>1. Placed(F, k, n, p)
    BY <1>1 DEF OK, Called1
  <2>2. CASE p = n
    BY <1>2, <2>2
  <2>3. CASE p # n
    <3>1. n \in p + 1 .. n
      BY <1>1, <2>3
    <3> QED
      BY <1>2, <2>1, <3>1 DEF Placed
  <2> QED
    BY <2>2, <2>3
<1> QED
  BY <1>2 DEF Strict

LEMMA StrictIdle ==
  ASSUME NEW F, NEW k, NEW n \in Nat, Strict(F, k, n), Len(F) \in Nat, NEW d
  PROVE  ~Waits(F, k, n, d)
<1> SUFFICES ASSUME Waits(F, k, n, d) PROVE FALSE
  OBVIOUS
<1>1. n \in 1 .. n /\ k[n].op \in RunOps /\ k[n].depth = Len(F)
  BY DEF Waits, RunOps
<1>2. k[n].depth < Len(F)
  BY <1>1 DEF Strict
<1> QED
  BY <1>1, <1>2

\* A call is made that is no wall.
LEMMA PushCall ==
  ASSUME NEW F, NEW L, NEW a, NEW k, NEW n, OK(F, L, a, k, n), NEW j,
         \A p \in 1 .. n : j[p] = k[p], NEW x, j[n + 1] = x,
         x.op \notin RunOps \cup TornOps, ~Waits(F, k, n, Len(F)),
         Strict(F, k, n) \/ x.op \in {"result", "unwind"},
         \A p \in 1 .. n : x.op = "clear" /\ k[p].op \in TornOps => k[p].frame < x.frame,
         \A p \in 1 .. n : Wall(k, n, p) => Passes(k, p, Temporary(x)),
         Below(j, n + 1), Placed(F, j, n + 1, n + 1), Carries(F, x)
  PROVE  OK(F, L, a, j, n + 1)
<1>1. n \in Nat /\ \A q \in n + 1 .. n + 1 : q = n + 1 /\ j[q] = x
  BY DEF OK
<1>2. \A p \in 1 .. n : k[p].op \in TornOps => k[p].frame \in Int
  BY DEF OK, Called1, Placed, IsCall, TornOps, TeardownOps, FloorOps, RunOps
<1>3. Others(F, L, a, k, n, j, n + 1, n)
  BY <1>1, <1>2 DEF Others, Strict
<1>4. Covered(F, j, n + 1, n + 1)
  BY DEF Covered
<1>5. Walls(F, L, a, j, n + 1, n + 1)
  BY DEF Walls, Walled, Cleared, Zero, Wall, Torn, RunOps
<1>6. Called1(F, j, n + 1, n + 1)
  BY <1>4 DEF Called1
<1>7. \A p \in n + 1 .. n + 1 : Called1(F, j, n + 1, p) /\ Walls(F, L, a, j, n + 1, p)
  BY <1>1, <1>5, <1>6
<1> QED
  BY <1>3, <1>7, OthersOK

\* A call is done.
LEMMA PopCall ==
  ASSUME NEW F, NEW L, NEW a, NEW k, NEW n \in Nat, OK(F, L, a, k, n + 1), NEW j,
         \A p \in 1 .. n : j[p] = k[p], k[n + 1].op # "clear",
         Waits(F, k, n + 1, Len(F)) =>
           \A p \in 1 .. n : Torn(k, n + 1, p) /\ k[p].frame = Len(F)
                               => L[F[Len(F)].base] = None
  PROVE  OK(F, L, a, j, n)
<1>1. \A q \in n + 1 .. n + 1 : q = n + 1
  OBVIOUS
<1>2. Others(F, L, a, k, n + 1, j, n, n)
  BY <1>1 DEF Others
<1> QED
  BY <1>2, OthersOK

\* The registers beyond the frames when a call is made, or done.
LEMMA PushOccupied ==
  ASSUME NEW F, NEW L, NEW a, NEW k, NEW n \in Nat, Occupied(F, L, a, k, n), NEW j,
         \A p \in 1 .. n : j[p] = k[p], j[n + 1].op \notin RunOps, ~Waits(F, k, n, 0),
         n >= 1 => k[n].op # "ffi"
  PROVE  Occupied(F, L, a, j, n + 1)
<1> SUFFICES ASSUME NEW i \in 0 .. Slots - 1, i >= Lim(F), L[i] # None, ~Pending(F, a, i)
             PROVE  \E p \in 1 .. n + 1 : Drops(F, j, n + 1, p, i) /\ Open(j, n + 1, p, L[i])
  BY DEF Occupied
<1>1. PICK p \in 1 .. n : Drops(F, k, n, p, i) /\ Open(k, n, p, L[i])
  BY DEF Occupied, Waits
<1>2. p \in 1 .. n + 1 /\ Drops(F, j, n + 1, p, i)
  BY <1>1 DEF Drops
<1>3. ASSUME NEW q \in p + 1 .. n PROVE NoRun(k, p, q) <=> NoRun(j, p, q)
  <2>1. \A r \in p + 1 .. q : r \in 1 .. n
    OBVIOUS
  <2> QED
    BY <2>1 DEF NoRun
<1>4. CASE NoRun(k, p, n)
  <2>1. \A q \in p + 1 .. n + 1 : q = n + 1 \/ (q \in p + 1 .. n /\ j[q] = k[q])
    OBVIOUS
  <2>2. NoRun(j, p, n + 1)
    BY <1>4, <2>1 DEF NoRun
  <2> QED
    BY <1>2, <2>2 DEF Open
<1>5. CASE ~NoRun(k, p, n)
  <2>1. PICK q \in p + 1 .. n : /\ k[q].op = "drain" /\ NoRun(k, p, q)
                                /\ IsVar(L[i]) => L[i].frame <= k[q].frame
    BY <1>1, <1>5 DEF Open
  <2>2. q \in p + 1 .. n + 1 /\ j[q] = k[q] /\ NoRun(j, p, q)
    BY <1>3, <2>1
  <2> QED
    BY <1>2, <2>1, <2>2 DEF Open
<1> QED
  BY <1>4, <1>5

LEMMA PopOccupied ==
  ASSUME NEW F, NEW L, NEW a, NEW k, NEW n \in Nat, Occupied(F, L, a, k, n + 1), NEW j,
         \A p \in 1 .. n : j[p] = k[p], Lim(F) \in Nat,
         Waits(F, k, n + 1, 0) => L[0] = None,
         \A i \in 0 .. Slots - 1 :
           i >= Lim(F) /\ Drops(F, k, n + 1, n + 1, i) => L[i] = None \/ Pending(F, a, i)
  PROVE  Occupied(F, L, a, j, n)
<1> SUFFICES ASSUME NEW i \in 0 .. Slots - 1, i >= Lim(F), L[i] # None, ~Pending(F, a, i)
             PROVE  \E p \in 1 .. n : Drops(F, j, n, p, i) /\ Open(j, n, p, L[i])
  BY DEF Occupied
<1>1. PICK p \in 1 .. n + 1 : Drops(F, k, n + 1, p, i) /\ Open(k, n + 1, p, L[i])
  BY DEF Occupied
<1>2. p \in 1 .. n
  BY <1>1
<1>3. Drops(F, j, n, p, i)
  BY <1>1, <1>2 DEF Drops
<1>4. ASSUME NEW q \in p + 1 .. n PROVE NoRun(k, p, q) <=> NoRun(j, p, q)
  <2>1. \A r \in p + 1 .. q : r \in 1 .. n
    BY <1>2
  <2> QED
    BY <2>1 DEF NoRun
<1>5. CASE NoRun(k, p, n + 1)
  <2>1. \A q \in p + 1 .. n : q \in p + 1 .. n + 1 /\ j[q] = k[q]
    BY <1>2
  <2>2. NoRun(j, p, n)
    BY <1>5, <2>1 DEF NoRun
  <2> QED
    BY <1>2, <1>3, <2>2 DEF Open
<1>6. CASE ~NoRun(k, p, n + 1)
  <2>1. PICK q \in p + 1 .. n + 1 : /\ k[q].op = "drain" /\ NoRun(k, p, q)
                                    /\ IsVar(L[i]) => L[i].frame <= k[q].frame
    BY <1>1, <1>6 DEF Open
  <2>2. q \in p + 1 .. n
    BY <1>2, <1>6, <2>1
  <2>3. j[q] = k[q] /\ NoRun(j, p, q)
    BY <1>2, <1>4, <2>1, <2>2
  <2> QED
    BY <1>2, <1>3, <2>1, <2>2, <2>3 DEF Open
<1> QED
  BY <1>5, <1>6

-------------------------------------------------------------------------------
(* Registers are written *)

\* Nothing keeps the value v out of the register i.
Admits(F, a, k, n, i, v) ==
  /\ Holds(F, i, v)
  /\ \A p \in 1 .. n :
       /\ Wall(k, n, p) /\ i >= Start(F, k[p]) =>
            \/ Passes(k, p, v)
            \/ k[p].op \in TornOps /\ NoRun(k, p, n) /\ Pending(F, a, i)
       /\ Torn(k, n, p) =>
            \/ ~(F[k[p].frame].base <= i /\ i < End(F, k[p].frame))
            \/ i = F[k[p].frame].base /\ Waits(F, k, n, k[p].frame)
       /\ k[p].op = "run" /\ k[p].depth >= 1 /\ ~Found(k, p, k[p].depth) =>
            i # F[k[p].depth].base \/ (p = n /\ Len(F) = k[p].depth)

LEMMA Framed1 ==
  ASSUME NEW F, NEW L, NEW a, NEW k, NEW n, OK(F, L, a, k, n), NEW d \in 1 .. Len(F)
  PROVE  F[d].base \in 0 .. Slots - 1
<1>1. Layout(F) /\ Lim(F) <= Slots /\ Slots \in Nat
  BY CallFramesAssumption DEF OK
<1>2. /\ Len(F) \in Nat /\ Lim(F) \in Nat
      /\ F[d].base \in Nat /\ F[d].base < End(F, d) /\ End(F, d) \in Nat /\ End(F, d) <= Lim(F)
  BY <1>1, Ends
<1> QED
  BY <1>1, <1>2

LEMMA Rewrite ==
  ASSUME NEW F, NEW L, NEW a, NEW k, NEW n, OK(F, L, a, k, n), NEW M,
         DOMAIN M = 0 .. Slots - 1,
         \A i \in 0 .. Slots - 1 :
           M[i] = L[i] \/ M[i] = None \/ Admits(F, a, k, n, i, M[i])
  PROVE  OK(F, M, a, k, n)
<1>1. ~IsVar(None)
  BY DEF IsVar, None
<1>2. Held1(F, M)
  <2>1. ASSUME NEW i \in 0 .. Slots - 1 PROVE Holds(F, i, M[i])
    <3>1. CASE M[i] = L[i]
      BY <3>1 DEF OK, Held1
    <3>2. CASE M[i] = None
      BY <1>1, <3>2 DEF Holds, Valid
    <3>3. CASE Admits(F, a, k, n, i, M[i])
      BY <3>3 DEF Admits
    <3> QED
      BY <3>1, <3>2, <3>3
  <2> QED
    BY <2>1 DEF Held1
<1>3. ASSUME NEW p \in 1 .. n PROVE Walls(F, M, a, k, n, p)
  <2>1. Walled(F, L, a, k, n, p) /\ Cleared(F, L, k, n, p) /\ Zero(F, L, k, n, p)
    BY DEF OK, Walls
  <2>2. Walled(F, M, a, k, n, p)
    <3>1. ASSUME Wall(k, n, p), NEW i \in 0 .. Slots - 1, i >= Start(F, k[p])
          PROVE  \/ Passes(k, p, M[i])
                 \/ k[p].op \in TornOps /\ NoRun(k, p, n) /\ Pending(F, a, i)
      <4>1. CASE M[i] = L[i]
        BY <2>1, <3>1, <4>1 DEF Walled
      <4>2. CASE M[i] = None
        BY <1>1, <4>2 DEF Passes
      <4>3. CASE Admits(F, a, k, n, i, M[i])
        BY <3>1, <4>3 DEF Admits
      <4> QED
        BY <4>1, <4>2, <4>3
    <3>2. Wall(k, n, p) => \A q \in p + 1 .. n : Passes(k, p, Temporary(k[q]))
      BY <2>1 DEF Walled
    <3> QED
      BY <3>1, <3>2 DEF Walled
  <2>3. Cleared(F, M, k, n, p)
    <3> DEFINE d == k[p].frame
    <3>1. ASSUME Torn(k, n, p), NEW i \in 0 .. Slots - 1, F[d].base <= i, i < End(F, d)
          PROVE  M[i] = None \/ (i = F[d].base /\ Waits(F, k, n, d))
      <4>1. CASE M[i] = L[i]
        BY <2>1, <3>1, <4>1 DEF Cleared
      <4>2. CASE Admits(F, a, k, n, i, M[i])
        BY <3>1, <4>2 DEF Admits
      <4> QED
        BY <4>1, <4>2
    <3>2. Torn(k, n, p) => \A q \in p + 1 .. n :
            k[q].op \in RunOps /\ k[q].depth = d => Temporary(k[q]) = None
      BY <2>1 DEF Cleared
    <3> QED
      BY <3>1, <3>2 DEF Cleared
  <2>4. Zero(F, M, k, n, p)
    <3>1. ASSUME k[p].op = "run", k[p].depth >= 1, ~Found(k, p, k[p].depth)
          PROVE  M[F[k[p].depth].base] = None \/ (p = n /\ Len(F) = k[p].depth)
      <4> DEFINE i == F[k[p].depth].base
      <4>1. Placed(F, k, n, p) /\ Len(F) \in Nat
        BY DEF OK, Called1, Layout
      <4>2. k[p].depth \in 1 .. Len(F)
        BY <3>1, <4>1 DEF Placed, IsCall, RunOps, FloorOps
      <4>3. i \in 0 .. Slots - 1
        BY <4>2, Framed1
      <4>4. L[i] = None \/ (p = n /\ Len(F) = k[p].depth)
        BY <2>1, <3>1 DEF Zero
      <4>5. CASE Admits(F, a, k, n, i, M[i])
        BY <3>1, <4>5 DEF Admits
      <4> QED
        BY <4>3, <4>4, <4>5
    <3> QED
      BY <3>1 DEF Zero
  <2> QED
    BY <2>2, <2>3, <2>4 DEF Walls
<1> QED
  BY <1>2, <1>3 DEF OK

LEMMA RewriteOccupied ==
  ASSUME NEW F, NEW L, NEW a, NEW k, NEW n, Occupied(F, L, a, k, n), NEW M,
         \A i \in 0 .. Slots - 1 : i >= Lim(F) =>
           M[i] = L[i] \/ M[i] = None \/ Pending(F, a, i) \/ (i = 0 /\ Waits(F, k, n, 0))
  PROVE  Occupied(F, M, a, k, n)
BY DEF Occupied

-------------------------------------------------------------------------------
(* Instructions: the top call is a run, and the top frame is above it *)

Runs(F, k, n) == n >= 1 /\ k[n].op = "run" /\ k[n].depth < Len(F)

LEMMA RunFrames ==
  ASSUME NEW F, NEW L, NEW a, NEW k, NEW n, OK(F, L, a, k, n), n >= 1, k[n].op \in RunOps
  PROVE  /\ k[n].depth \in 0 .. Len(F)
         /\ \A p \in 1 .. n :
              /\ k[p].op \in RunOps => k[p].depth \in 0 .. k[n].depth
              /\ k[p].op \in TornOps => k[p].frame \in 1 .. k[n].depth
              /\ k[p].op = "drain" => k[p].frame <= k[n].depth
<1>1. n \in Nat /\ Len(F) \in Nat /\ n \in 1 .. n
  BY DEF OK, Layout
<1>2. ASSUME NEW p \in 1 .. n PROVE Placed(F, k, n, p) /\ IsCall(k[p])
  BY DEF OK, Called1, Placed
<1>3. k[n].depth \in 0 .. Len(F)
  BY <1>1, <1>2 DEF Placed, IsCall, FloorOps, RunOps
<1>4. ASSUME NEW p \in 1 .. n
      PROVE  /\ k[p].op \in RunOps => k[p].depth \in 0 .. k[n].depth
             /\ k[p].op \in TornOps => k[p].frame \in 1 .. k[n].depth
             /\ k[p].op = "drain" => k[p].frame <= k[n].depth
  <2>1. Placed(F, k, n, p) /\ IsCall(k[p])
    BY <1>2
  <2>2. CASE p = n
    BY <1>3, <2>2 DEF RunOps, TornOps, TeardownOps
  <2>3. CASE p # n
    <3>1. p \in 1 .. n - 1 /\ Below(k, n)
      BY <1>1, <2>3 DEF OK, Called1
    <3>2. BelowRun(k[n], k[p])
      BY <3>1 DEF Below
    <3> QED
      BY <1>3, <2>1, <3>2
        DEF BelowRun, Placed, IsCall, FloorOps, RunOps, TornOps, TeardownOps
  <2> QED
    BY <2>2, <2>3
<1> QED
  BY <1>3, <1>4

LEMMA RunsStrict ==
  ASSUME NEW F, NEW L, NEW a, NEW k, NEW n, OK(F, L, a, k, n), Runs(F, k, n)
  PROVE  /\ Strict(F, k, n) /\ n \in Nat /\ n >= 1 /\ Len(F) \in Nat /\ Len(F) >= 1
         /\ k[n].op = "run" /\ k[n].depth \in 0 .. Len(F) - 1
         /\ \A d : ~Waits(F, k, n, d)
<1>1. n \in Nat /\ Len(F) \in Nat /\ n >= 1 /\ k[n].op = "run" /\ k[n].op \in RunOps
  BY DEF OK, Layout, Runs, RunOps
<1>2. k[n].depth \in 0 .. Len(F)
  BY <1>1, RunFrames
<1>3. k[n].depth < Len(F)
  BY DEF Runs
<1>4. Strict(F, k, n)
  BY <1>1, <1>3, StrictRuns
<1> QED
  BY <1>1, <1>2, <1>3, <1>4, StrictIdle

\* The registers of the top frame are above every wall.
LEMMA TopAbove ==
  ASSUME NEW F, NEW L, NEW a, NEW k, NEW n, OK(F, L, a, k, n), Runs(F, k, n),
         NEW p \in 1 .. n, Wall(k, n, p)
  PROVE  Start(F, k[p]) <= F[Len(F)].base /\ (k[p].op \in TornOps => p < n)
<1>1. /\ n \in Nat /\ Len(F) \in Nat /\ Len(F) >= 1 /\ k[n].op = "run"
      /\ k[n].depth \in 0 .. Len(F) - 1
  BY RunsStrict
<1>2. /\ k[p].op \in RunOps => k[p].depth \in 0 .. k[n].depth
      /\ k[p].op \in TornOps => k[p].frame \in 1 .. k[n].depth
  BY <1>1, RunFrames DEF RunOps
<1>3. Layout(F)
  BY DEF OK
<1>4. /\ \A d, e \in 0 .. Len(F) : d < e => End(F, d) <= F[e].base
      /\ \A d \in 1 .. Len(F) : F[d].base \in Nat /\ F[d].base < End(F, d) /\ End(F, d) \in Nat
  BY <1>3, Ends
<1>5. CASE k[p].op \in RunOps
  <2>1. k[p].op \notin TornOps
    BY <1>5 DEF RunOps, TornOps, TeardownOps
  <2>2. k[p].depth \in 0 .. Len(F) /\ k[p].depth < Len(F) /\ Len(F) \in 0 .. Len(F)
    BY <1>1, <1>2, <1>5
  <2> QED
    BY <1>4, <1>5, <2>1, <2>2 DEF Start
<1>6. CASE k[p].op \notin RunOps
  <2>1. k[p].op \in TornOps
    BY <1>6 DEF Wall, Torn
  <2>2. k[p].frame \in 1 .. Len(F) /\ k[p].frame < Len(F) /\ Len(F) \in 1 .. Len(F)
    BY <1>1, <1>2, <2>1
  <2>3. F[k[p].frame].base <= F[Len(F)].base
    <3>1. End(F, k[p].frame) <= F[Len(F)].base
      BY <1>4, <2>2
    <3> QED
      BY <1>4, <2>2, <3>1
  <2>4. p # n
    BY <1>1, <1>6 DEF RunOps
  <2> QED
    BY <1>1, <1>6, <2>3, <2>4 DEF Start
<1> QED
  BY <1>5, <1>6

LEMMA TopRegisters ==
  ASSUME NEW F, NEW L, NEW a, NEW k, NEW n, OK(F, L, a, k, n), Runs(F, k, n),
         NEW i \in 0 .. Slots - 1, i >= F[Len(F)].base
  PROVE  \A p \in 1 .. n : Wall(k, n, p) => Passes(k, p, L[i])
<1> SUFFICES ASSUME NEW p \in 1 .. n, Wall(k, n, p) PROVE Passes(k, p, L[i])
  OBVIOUS
<1>1. Walled(F, L, a, k, n, p) /\ Layout(F)
  BY DEF OK, Walls
<1>2. Start(F, k[p]) <= F[Len(F)].base /\ (k[p].op \in TornOps => p < n)
  BY TopAbove
<1>3. n \in Nat /\ k[n].op = "run" /\ Len(F) \in Nat /\ Len(F) >= 1
  BY RunsStrict
<1>4. k[p].op \in TornOps => ~NoRun(k, p, n)
  BY <1>2, <1>3 DEF NoRun, RunOps
<1>5. i >= Start(F, k[p])
  <2>1. /\ \A d \in 0 .. Len(F) : End(F, d) \in Nat
        /\ \A d \in 1 .. Len(F) : F[d].base \in Nat
    BY <1>1, Ends
  <2>2. Placed(F, k, n, p)
    BY DEF OK, Called1
  <2>3. Start(F, k[p]) \in Int
    BY <1>3, <2>1, <2>2
      DEF Start, Placed, Wall, Torn, IsCall, RunOps, FloorOps, TornOps, TeardownOps
  <2>4. F[Len(F)].base \in Int
    BY <1>3, <2>1
  <2> QED
    BY <1>2, <2>3, <2>4
<1> QED
  BY <1>1, <1>4, <1>5 DEF Walled

\* A value that passes every wall may be written in the top frame and beyond.
LEMMA WriteHere ==
  ASSUME NEW F, NEW L, NEW a, NEW k, NEW n, OK(F, L, a, k, n), Runs(F, k, n),
         NEW i \in 0 .. Slots - 1, i >= F[Len(F)].base, NEW v, Holds(F, i, v),
         \A p \in 1 .. n : Wall(k, n, p) => Passes(k, p, v)
  PROVE  Admits(F, a, k, n, i, v)
<1>1. /\ n \in Nat /\ Len(F) \in Nat /\ Len(F) >= 1 /\ k[n].op = "run"
      /\ k[n].depth \in 0 .. Len(F) - 1
  BY RunsStrict
<1>2. /\ \A d, e \in 0 .. Len(F) : d < e => End(F, d) <= F[e].base
      /\ \A d \in 1 .. Len(F) : F[d].base \in Nat /\ F[d].base < End(F, d) /\ End(F, d) \in Nat
  BY Ends DEF OK
<1>3. ASSUME NEW p \in 1 .. n
      PROVE  /\ k[p].op \in RunOps => k[p].depth \in 0 .. Len(F) - 1
             /\ k[p].op \in TornOps => k[p].frame \in 1 .. Len(F) - 1
  <2>1. /\ k[p].op \in RunOps => k[p].depth \in 0 .. k[n].depth
        /\ k[p].op \in TornOps => k[p].frame \in 1 .. k[n].depth
    BY <1>1, RunFrames DEF RunOps
  <2> QED
    BY <1>1, <2>1
<1>4. ASSUME NEW d \in 1 .. Len(F) - 1
      PROVE  ~(i < End(F, d)) /\ i # F[d].base
  <2>1. End(F, d) <= F[Len(F)].base /\ F[d].base < End(F, d) /\ F[d].base \in Nat
        /\ End(F, d) \in Nat /\ F[Len(F)].base \in Nat
    BY <1>1, <1>2
  <2> QED
    BY <2>1
<1>5. ASSUME NEW p \in 1 .. n, Torn(k, n, p)
      PROVE  ~(F[k[p].frame].base <= i /\ i < End(F, k[p].frame))
  BY <1>3, <1>4, <1>5 DEF Torn
<1>6. ASSUME NEW p \in 1 .. n, k[p].op = "run", k[p].depth >= 1
      PROVE  i # F[k[p].depth].base
  BY <1>1, <1>3, <1>4, <1>6 DEF RunOps
<1> QED
  BY <1>5, <1>6 DEF Admits

\* Where a reference to a variable leads.
LEMMA VarSlot ==
  ASSUME NEW F, NEW L, NEW a, NEW k, NEW n, OK(F, L, a, k, n), NEW r, IsVar(r), Valid(F, r)
  PROVE  /\ r.frame \in 1 .. Len(F) /\ Len(F) \in Nat
         /\ r.slot \in 0 .. Slots - 1 /\ r.slot < Lim(F) /\ Lim(F) \in Nat
         /\ F[r.frame].base <= r.slot /\ r.slot < End(F, r.frame)
         /\ \A d \in 1 .. Len(F) :
              F[d].base <= r.slot /\ r.slot < End(F, d) => d = r.frame
         /\ \A d \in 1 .. Len(F) : r.slot = F[d].base => d = r.frame
         /\ \A d \in 0 .. Len(F) : End(F, d) <= r.slot => d < r.frame
         /\ \A d \in 1 .. Len(F) : F[d].base <= r.slot => d <= r.frame
<1>1. /\ r.frame \in 1 .. Len(F) /\ r.slot \in Int
      /\ F[r.frame].base <= r.slot /\ r.slot < End(F, r.frame)
  BY DEF Valid
<1>2. Layout(F) /\ Lim(F) <= Slots /\ Slots \in Nat
  BY CallFramesAssumption DEF OK
<1>3. /\ Len(F) \in Nat /\ Lim(F) \in Nat
      /\ \A d \in 0 .. Len(F) : End(F, d) \in Nat /\ End(F, d) <= Lim(F)
      /\ \A d \in 1 .. Len(F) : F[d].base \in Nat /\ F[d].base < End(F, d)
      /\ \A d, e \in 0 .. Len(F) : d < e => End(F, d) <= F[e].base
      /\ \A d, e \in 0 .. Len(F) : d <= e => End(F, d) <= End(F, e)
  BY <1>2, Ends
<1>4. r.slot \in 0 .. Slots - 1 /\ r.slot < Lim(F)
  <2>1. F[r.frame].base \in Nat /\ End(F, r.frame) \in Nat /\ End(F, r.frame) <= Lim(F)
    BY <1>1, <1>3
  <2> QED
    BY <1>1, <1>2, <1>3, <2>1
<1>5. ASSUME NEW d \in 0 .. Len(F), r.frame <= d PROVE ~(End(F, d) <= r.slot)
  <2>1. End(F, r.frame) <= End(F, d) /\ End(F, r.frame) \in Nat /\ End(F, d) \in Nat
    BY <1>1, <1>3, <1>5
  <2> QED
    BY <1>1, <2>1
<1>6. ASSUME NEW d \in 1 .. Len(F), r.frame < d PROVE ~(F[d].base <= r.slot)
  <2>1. End(F, r.frame) <= F[d].base /\ End(F, r.frame) \in Nat /\ F[d].base \in Nat
    BY <1>1, <1>3, <1>6
  <2> QED
    BY <1>1, <2>1
<1>7. ASSUME NEW d \in 1 .. Len(F), d < r.frame
      PROVE  ~(r.slot < End(F, d)) /\ r.slot # F[d].base
  <2>1. End(F, d) <= F[r.frame].base /\ End(F, d) \in Nat /\ F[d].base \in Nat
        /\ F[d].base < End(F, d) /\ F[r.frame].base \in Nat
    BY <1>1, <1>3, <1>7
  <2> QED
    BY <1>1, <2>1
<1>8. ASSUME NEW d \in 1 .. Len(F), r.frame < d PROVE r.slot # F[d].base
  BY <1>1, <1>3, <1>6, <1>8
<1>9. \A d \in 1 .. Len(F) : F[d].base <= r.slot => d <= r.frame
  BY <1>1, <1>3, <1>6
<1>10. \A d \in 0 .. Len(F) : End(F, d) <= r.slot => d < r.frame
  BY <1>1, <1>3, <1>5
<1>11. \A d \in 1 .. Len(F) : F[d].base <= r.slot /\ r.slot < End(F, d) => d = r.frame
  BY <1>1, <1>3, <1>7, <1>9
<1>12. \A d \in 1 .. Len(F) : r.slot = F[d].base => d = r.frame
  BY <1>1, <1>3, <1>7, <1>8
<1> QED
  BY <1>1, <1>3, <1>4, <1>9, <1>10, <1>11, <1>12

\* A reference to a variable is written through.
LEMMA WriteThrough ==
  ASSUME NEW F, NEW L, NEW a, NEW k, NEW n, OK(F, L, a, k, n), Runs(F, k, n),
         NEW r, IsVar(r), Valid(F, r), \A p \in 1 .. n : Wall(k, n, p) => Passes(k, p, r),
         NEW v, Valid(F, v), IsVar(v) => v.frame <= r.frame,
         \A p \in 1 .. n : Wall(k, n, p) => Passes(k, p, v)
  PROVE  Admits(F, a, k, n, r.slot, v)
<1> DEFINE i == r.slot
<1>1. /\ r.frame \in 1 .. Len(F) /\ Len(F) \in Nat /\ F[r.frame].base <= i /\ i \in Int
      /\ \A d \in 1 .. Len(F) : F[d].base <= i /\ i < End(F, d) => d = r.frame
      /\ \A d \in 1 .. Len(F) : i = F[d].base => d = r.frame
  BY VarSlot
<1>2. ASSUME NEW p \in 1 .. n PROVE Placed(F, k, n, p) /\ IsCall(k[p]) /\ Below(k, p)
  BY DEF OK, Called1, Placed
<1>3. Holds(F, i, v)
  <2>1. ASSUME IsVar(v) PROVE F[v.frame].base <= i
    <3>1. v.frame \in 1 .. Len(F) /\ v.frame <= r.frame
      BY <2>1 DEF Valid
    <3>2. /\ \A d \in 1 .. Len(F) : F[d].base \in Nat /\ End(F, d) \in Nat /\ F[d].base < End(F, d)
          /\ \A d, e \in 0 .. Len(F) : d < e => End(F, d) <= F[e].base
      BY Ends DEF OK
    <3>3. CASE v.frame = r.frame
      BY <1>1, <3>3
    <3>4. CASE v.frame # r.frame
      <4>1. v.frame \in 0 .. Len(F) /\ r.frame \in 0 .. Len(F) /\ v.frame < r.frame
        BY <1>1, <3>1, <3>4
      <4>2. End(F, v.frame) <= F[r.frame].base
        BY <3>2, <4>1
      <4>3. F[v.frame].base \in Nat /\ F[r.frame].base \in Nat /\ End(F, v.frame) \in Nat
            /\ F[v.frame].base < End(F, v.frame)
        BY <1>1, <3>1, <3>2
      <4> QED
        BY <1>1, <4>2, <4>3
    <3> QED
      BY <3>3, <3>4
  <2> QED
    BY <2>1 DEF Holds
<1>4. ASSUME NEW p \in 1 .. n, Torn(k, n, p)
      PROVE  ~(F[k[p].frame].base <= i /\ i < End(F, k[p].frame))
  <2>1. k[p].op \in TornOps /\ k[p].frame \in 1 .. Len(F)
    BY <1>1, <1>2, <1>4
      DEF Torn, Placed, IsCall, TornOps, TeardownOps, FloorOps, RunOps
  <2>2. ASSUME r.frame = k[p].frame PROVE FALSE
    <3>1. Passes(k, p, r) /\ k[p].op \notin RunOps
      BY <1>4, <2>1 DEF Wall, TornOps, TeardownOps, RunOps
    <3>2. PICK q \in 1 .. p - 1 : k[q].op = "drain" /\ r.frame <= k[q].frame
      BY <1>1, <2>2, <3>1 DEF Passes, Height, Found
    <3>3. BelowTorn(k[p], k[q])
      BY <1>2, <2>1, <3>2 DEF Below
    <3>4. q \in 1 .. n /\ k[q].frame \in Int
      <4>1. n \in Nat /\ q \in 1 .. n
        BY <3>2 DEF OK
      <4> QED
        BY <1>2, <3>2, <4>1 DEF IsCall, FloorOps, RunOps
    <3>5. k[q].frame < k[p].frame
      BY <3>2, <3>3 DEF BelowTorn
    <3> QED
      BY <2>1, <2>2, <3>2, <3>4, <3>5
  <2> QED
    BY <1>1, <2>1, <2>2
<1>5. ASSUME NEW p \in 1 .. n, k[p].op = "run", k[p].depth >= 1, ~Found(k, p, k[p].depth)
      PROVE  i # F[k[p].depth].base
  <2>1. k[p].depth \in 1 .. Len(F)
    BY <1>1, <1>2, <1>5 DEF Placed, IsCall, FloorOps, RunOps
  <2>2. Passes(k, p, r)
    BY <1>5 DEF Wall, RunOps
  <2>3. r.frame > k[p].depth \/ Found(k, p, r.frame)
    BY <1>5, <2>2 DEF Passes, Height, RunOps
  <2>4. r.frame # k[p].depth
    BY <1>1, <1>5, <2>1, <2>3
  <2> QED
    BY <1>1, <2>1, <2>4
<1> QED
  BY <1>3, <1>4, <1>5 DEF Admits

\* What a variable holds that one may refer to.
LEMMA ReadThrough ==
  ASSUME NEW F, NEW L, NEW a, NEW k, NEW n, OK(F, L, a, k, n), Runs(F, k, n),
         NEW r, IsVar(r), Valid(F, r), \A p \in 1 .. n : Wall(k, n, p) => Passes(k, p, r)
  PROVE  /\ Valid(F, L[r.slot]) /\ (IsVar(L[r.slot]) => L[r.slot].frame <= r.frame)
         /\ \A p \in 1 .. n : Wall(k, n, p) => Passes(k, p, L[r.slot])
<1> DEFINE i == r.slot
           v == L[i]
<1>1. /\ r.frame \in 1 .. Len(F) /\ Len(F) \in Nat /\ i \in 0 .. Slots - 1 /\ i < Lim(F)
      /\ Lim(F) \in Nat
      /\ \A d \in 0 .. Len(F) : End(F, d) <= i => d < r.frame
      /\ \A d \in 1 .. Len(F) : F[d].base <= i => d <= r.frame
  BY VarSlot
<1>2. Holds(F, i, v)
  BY <1>1 DEF OK, Held1
<1>3. Valid(F, v) /\ (IsVar(v) => v.frame \in 1 .. Len(F) /\ v.frame <= r.frame)
  BY <1>1, <1>2 DEF Holds, Valid
<1> HIDE DEF v
<1>4. ASSUME NEW p \in 1 .. n, Wall(k, n, p) PROVE Passes(k, p, v)
  <2>1. Passes(k, p, r) /\ Placed(F, k, n, p) /\ IsCall(k[p]) /\ n \in Nat
    BY <1>4 DEF OK, Called1, Placed
  <2>2. CASE Found(k, p, r.frame)
    <3>1. PICK q \in 1 .. p - 1 : k[q].op = "drain" /\ r.frame <= k[q].frame
      BY <2>2 DEF Found
    <3>2. q \in 1 .. n /\ IsCall(k[q])
      <4>1. q \in 1 .. n
        BY <2>1, <3>1
      <4> QED
        BY <4>1 DEF OK, Called1, Placed
    <3>3. k[q].frame \in Int
      BY <3>1, <3>2 DEF IsCall, FloorOps, RunOps
    <3>4. IsVar(v) => v.frame <= k[q].frame
      BY <1>1, <1>3, <3>1, <3>3
    <3> QED
      BY <3>1, <3>4 DEF Passes, Found
  <2>3. CASE ~Found(k, p, r.frame)
    <3>1. r.frame > Height(k[p])
      BY <2>1, <2>3 DEF Passes
    <3>2. i >= Start(F, k[p])
      <4>1. /\ F[r.frame].base <= i
            /\ \A d \in 0 .. Len(F) : End(F, d) \in Nat
            /\ \A d \in 1 .. Len(F) : F[d].base \in Nat /\ F[d].base < End(F, d)
            /\ \A d, e \in 0 .. Len(F) : d < e => End(F, d) <= F[e].base
        BY Ends, VarSlot DEF OK
      <4>2. CASE k[p].op \in RunOps
        <5>1. k[p].depth \in 0 .. Len(F) /\ k[p].depth < r.frame
          BY <1>1, <2>1, <3>1, <4>2 DEF Height, Placed, IsCall, FloorOps
        <5>2. End(F, k[p].depth) <= F[r.frame].base
          BY <1>1, <4>1, <5>1
        <5>3. End(F, k[p].depth) \in Nat /\ F[r.frame].base \in Nat
          BY <1>1, <4>1, <5>1
        <5> QED
          BY <1>1, <4>1, <4>2, <5>2, <5>3 DEF Start
      <4>3. CASE k[p].op \notin RunOps
        <5>1. k[p].frame \in 1 .. Len(F) /\ k[p].frame < r.frame
          BY <1>1, <1>4, <2>1, <3>1, <4>3
            DEF Height, Placed, Wall, Torn, IsCall, FloorOps, RunOps, TornOps, TeardownOps
        <5>2. End(F, k[p].frame) <= F[r.frame].base
          BY <1>1, <4>1, <5>1
        <5>3. F[k[p].frame].base \in Nat /\ F[r.frame].base \in Nat
              /\ F[k[p].frame].base < End(F, k[p].frame) /\ End(F, k[p].frame) \in Nat
          <6>1. k[p].frame \in 0 .. Len(F) /\ r.frame \in 1 .. Len(F)
            BY <1>1, <5>1
          <6>2. F[r.frame].base \in Nat /\ End(F, k[p].frame) \in Nat
            BY <4>1, <6>1
          <6>3. F[k[p].frame].base \in Nat /\ F[k[p].frame].base < End(F, k[p].frame)
            BY <4>1, <5>1
          <6> QED
            BY <6>2, <6>3
        <5>4. Start(F, k[p]) = F[k[p].frame].base
          BY <4>3 DEF Start
        <5>5. i \in Int /\ F[r.frame].base <= i
          BY <1>1, <4>1
        <5> HIDE DEF i
        <5> QED
          BY <5>2, <5>3, <5>4, <5>5
      <4> QED
        BY <4>2, <4>3
    <3>3. Walled(F, L, a, k, n, p)
      BY DEF OK, Walls
    <3>4. k[p].op \in TornOps => ~NoRun(k, p, n)
      <4>1. k[n].op = "run" /\ (k[p].op \in TornOps => p < n) /\ n \in Nat
        BY <1>4, <2>1, RunsStrict, TopAbove
      <4> QED
        BY <4>1 DEF NoRun, RunOps
    <3> QED
      BY <1>1, <1>4, <3>2, <3>3, <3>4 DEF Walled, v
  <2> QED
    BY <2>2, <2>3
<1> QED
  BY <1>3, <1>4 DEF v

-------------------------------------------------------------------------------
(* What a collection found beyond the frames *)

\* Whatever is left beyond the frames is dropped by a call that is waiting for
\* the collector.
Sheltered(F, L, a, k, n) ==
  \A i \in 0 .. Slots - 1 : i >= Lim(F) /\ L[i] # None /\ ~Pending(F, a, i) =>
    \E p \in 1 .. n : /\ k[p].op = "clear" /\ k[p].from <= i /\ i <= k[p].to
                      /\ \E q \in p + 1 .. n : /\ k[q].op = "drain" /\ NoRun(k, p, q)
                                               /\ IsVar(L[i]) => L[i].frame <= k[q].frame

LEMMA ShelteredOccupied ==
  ASSUME NEW F, NEW L, NEW a, NEW k, NEW n, Sheltered(F, L, a, k, n)
  PROVE  Occupied(F, L, a, k, n)
BY DEF Sheltered, Occupied, Drops, Open

LEMMA SameNoRun ==
  ASSUME NEW k, NEW j, NEW n \in Nat, \A p \in 1 .. n : j[p] = k[p],
         NEW p \in 1 .. n, NEW q \in 1 .. n, NoRun(k, p, q)
  PROVE  NoRun(j, p, q)
<1>1. \A r \in p + 1 .. q : r \in 1 .. n
  OBVIOUS
<1> QED
  BY <1>1 DEF NoRun

\* The calls above the first b do not matter when neither drains nor clears
\* are among them.
LEMMA ShelteredOthers ==
  ASSUME NEW F, NEW L, NEW a, NEW k, NEW n \in Nat, Sheltered(F, L, a, k, n), NEW j, NEW m \in Nat,
         NEW b \in Nat, b <= n, b <= m, \A p \in 1 .. b : j[p] = k[p],
         \A q \in b + 1 .. n : k[q].op # "drain"
  PROVE  Sheltered(F, L, a, j, m)
<1> SUFFICES ASSUME NEW i \in 0 .. Slots - 1, i >= Lim(F), L[i] # None, ~Pending(F, a, i)
             PROVE  \E p \in 1 .. m :
                      /\ j[p].op = "clear" /\ j[p].from <= i /\ i <= j[p].to
                      /\ \E q \in p + 1 .. m : /\ j[q].op = "drain" /\ NoRun(j, p, q)
                                               /\ IsVar(L[i]) => L[i].frame <= j[q].frame
  BY DEF Sheltered
<1>1. PICK p \in 1 .. n : /\ k[p].op = "clear" /\ k[p].from <= i /\ i <= k[p].to
                          /\ \E q \in p + 1 .. n :
                               /\ k[q].op = "drain" /\ NoRun(k, p, q)
                               /\ IsVar(L[i]) => L[i].frame <= k[q].frame
  BY DEF Sheltered
<1>2. PICK q \in p + 1 .. n : /\ k[q].op = "drain" /\ NoRun(k, p, q)
                              /\ IsVar(L[i]) => L[i].frame <= k[q].frame
  BY <1>1
<1>3. q \in 1 .. b /\ p \in 1 .. b /\ p \in 1 .. m /\ q \in p + 1 .. m
  BY <1>2
<1>4. j[p] = k[p] /\ j[q] = k[q]
  BY <1>3
<1>5. NoRun(j, p, q)
  BY <1>2, <1>3, SameNoRun
<1> QED
  BY <1>1, <1>2, <1>3, <1>4, <1>5

LEMMA ShelteredPush ==
  ASSUME NEW F, NEW L, NEW a, NEW k, NEW n \in Nat, Sheltered(F, L, a, k, n), NEW j,
         \A p \in 1 .. n : j[p] = k[p]
  PROVE  Sheltered(F, L, a, j, n + 1)
<1>1. \A q \in n + 1 .. n : k[q].op # "drain"
  OBVIOUS
<1> QED
  BY <1>1, ShelteredOthers

LEMMA ShelteredPop ==
  ASSUME NEW F, NEW L, NEW a, NEW k, NEW n \in Nat, Sheltered(F, L, a, k, n + 1), NEW j,
         \A p \in 1 .. n : j[p] = k[p], k[n + 1].op # "drain"
  PROVE  Sheltered(F, L, a, j, n)
<1>1. \A q \in n + 1 .. n + 1 : k[q].op # "drain"
  OBVIOUS
<1> QED
  BY <1>1, ShelteredOthers

\* A run, a teardown and the collector itself have found what is there.
LEMMA ShelteredTop ==
  ASSUME NEW F, NEW L, NEW a, NEW k, NEW n, OK(F, L, a, k, n), Occupied(F, L, a, k, n), n >= 1,
         Waits(F, k, n, 0) => L[0] = None,
         \/ k[n].op \in RunOps \cup TornOps
         \/ k[n].op = "drain" /\ k[n].frame = Len(F)
         \/ /\ k[n].op = "ffi" /\ n >= 2 /\ k[n - 1].op = "run"
            /\ \A i \in 0 .. Slots - 1 : Lim(F) <= i /\ i < Lim(F) + k[n].args => L[i] = None
  PROVE  Sheltered(F, L, a, k, n)
<1> SUFFICES ASSUME NEW i \in 0 .. Slots - 1, i >= Lim(F), L[i] # None, ~Pending(F, a, i)
             PROVE  \E p \in 1 .. n :
                      /\ k[p].op = "clear" /\ k[p].from <= i /\ i <= k[p].to
                      /\ \E q \in p + 1 .. n : /\ k[q].op = "drain" /\ NoRun(k, p, q)
                                               /\ IsVar(L[i]) => L[i].frame <= k[q].frame
  BY DEF Sheltered
<1>1. n \in Nat /\ n \in 1 .. n
  BY DEF OK
<1>2. PICK p \in 1 .. n : Drops(F, k, n, p, i) /\ Open(k, n, p, L[i])
  BY DEF Occupied
<1>3. k[p].op = "clear" /\ k[p].from <= i /\ i <= k[p].to /\ p # n
  BY <1>2 DEF Drops, RunOps, TornOps, TeardownOps
<1>4. n \in p + 1 .. n
  BY <1>1, <1>3
<1>5. ASSUME NoRun(k, p, n)
      PROVE  k[n].op = "drain" /\ k[n].frame = Len(F)
  <2>1. k[n].op \notin RunOps
    BY <1>4, <1>5 DEF NoRun
  <2>2. ASSUME k[n].op \in TornOps PROVE FALSE
    <3>1. Below(k, n) /\ p \in 1 .. n - 1
      BY <1>1, <1>3 DEF OK, Called1
    <3>2. PICK r \in p + 1 .. n - 1 : k[r].op \in RunOps
      BY <1>3, <2>2, <3>1 DEF Below
    <3>3. r \in p + 1 .. n
      BY <1>1, <3>2
    <3> QED
      BY <1>5, <3>2, <3>3 DEF NoRun
  <2>3. ASSUME k[n].op = "ffi", n >= 2, k[n - 1].op = "run" PROVE FALSE
    <3>1. p # n - 1
      BY <1>3, <2>3
    <3>2. n - 1 \in p + 1 .. n
      BY <1>1, <1>3, <3>1
    <3> QED
      BY <1>5, <2>3, <3>2 DEF NoRun, RunOps
  <2> QED
    BY <2>1, <2>2, <2>3
<1>6. CASE NoRun(k, p, n)
  <2>1. IsVar(L[i]) => L[i].frame <= k[n].frame
    <3>1. Valid(F, L[i]) /\ Len(F) \in Nat
      BY DEF OK, Held1, Holds, Layout
    <3> QED
      BY <1>5, <1>6, <3>1 DEF Valid
  <2> QED
    BY <1>3, <1>4, <1>5, <1>6, <2>1
<1>7. CASE ~NoRun(k, p, n)
  BY <1>2, <1>3, <1>7 DEF Open
<1> QED
  BY <1>6, <1>7

-------------------------------------------------------------------------------
(* One call more, or one less *)

\* A call that may be made above k, other than a run or a part of a teardown.
Fresh(F, k, n, x) ==
  /\ IsCall(x) /\ x.op \notin RunOps \cup TornOps \cup {"unwind"}
  /\ x.op \in {"drain", "result"} => x.frame <= Len(F)
  /\ x.op = "result" => /\ x.slot \in Nat
                        /\ x.frame >= 1 => x.slot < Registers[F[x.frame].func]
  /\ x.op = "clear" => /\ x.from \in Int /\ x.to \in Int
                       /\ \A p \in 1 .. n : k[p].op \in TornOps => k[p].frame < x.frame
  /\ x.op = "ffi" => x.args \in Nat
  /\ x.op = "assign" => x.value = None
  /\ x.op = "start" => x.func = "fin"
  /\ x.op = "callback" => x.func \in Functions
  /\ n = 0 => After(x) = 0
  /\ \A q \in 1 .. n : BelowOther(x, k[q])
  /\ Carries(F, x)
  /\ \A p \in 1 .. n : Wall(k, n, p) => Passes(k, p, Temporary(x))

\* A call can be made: no run was entered with these frames, and nobody relies
\* on the call of C to drop its arguments.
Ready(F, L, a, k, n) ==
  Strict(F, k, n) /\ (n >= 1 /\ k[n].op = "ffi" => Sheltered(F, L, a, k, n))

LEMMA PushFresh ==
  ASSUME NEW F, NEW L, NEW a, NEW k, NEW n, Sound(F, L, a, k, n), Ready(F, L, a, k, n),
         NEW x, Fresh(F, k, n, x), NEW j, \A p \in 1 .. n : j[p] = k[p], j[n + 1] = x
  PROVE  Sound(F, L, a, j, n + 1) /\ Strict(F, j, n + 1)
<1>1. /\ n \in Nat /\ Len(F) \in Nat /\ OK(F, L, a, k, n) /\ Occupied(F, L, a, k, n)
      /\ Strict(F, k, n)
  BY DEF OK, Layout, Sound, Ready
<1>2. \A d : ~Waits(F, k, n, d)
  BY <1>1, StrictIdle
<1>3. Below(j, n + 1)
  <2>1. \A q \in 1 .. (n + 1) - 1 : q \in 1 .. n /\ j[q] = k[q]
    BY <1>1
  <2> QED
    BY <2>1 DEF Below, Fresh
<1>4. Placed(F, j, n + 1, n + 1)
  <2>1. n + 1 = 1 => n = 0
    BY <1>1
  <2> QED
    BY <2>1 DEF Placed, Fresh, RunOps, TornOps
<1>5. OK(F, L, a, j, n + 1)
  BY <1>1, <1>2, <1>3, <1>4, PushCall DEF Fresh
<1>6. Occupied(F, L, a, j, n + 1)
  <2>1. CASE n >= 1 /\ k[n].op = "ffi"
    BY <1>1, <2>1, ShelteredPush, ShelteredOccupied DEF Ready
  <2>2. CASE ~(n >= 1 /\ k[n].op = "ffi")
    BY <1>1, <1>2, <2>2, PushOccupied DEF Fresh
  <2> QED
    BY <2>1, <2>2
<1>7. Strict(F, j, n + 1)
  <2>1. \A p \in 1 .. n + 1 : p = n + 1 \/ (p \in 1 .. n /\ j[p] = k[p])
    BY <1>1
  <2> QED
    BY <1>1, <2>1 DEF Strict, Fresh
<1>8. Bottom(F, n + 1)
  BY <1>1 DEF Bottom
<1> QED
  BY <1>5, <1>6, <1>7, <1>8 DEF Sound

LEMMA PopSound ==
  ASSUME NEW F, NEW L, NEW a, NEW k, NEW n \in Nat, Sound(F, L, a, k, n + 1), NEW j,
         \A p \in 1 .. n : j[p] = k[p], k[n + 1].op # "clear", n >= 1 \/ After(k[n + 1]) = Len(F),
         Waits(F, k, n + 1, Len(F)) => /\ Len(F) = 0 => L[0] = None
                                       /\ Len(F) >= 1 => L[F[Len(F)].base] = None,
         k[n + 1].op = "ffi" =>
           \A i \in 0 .. Slots - 1 :
             Lim(F) <= i /\ i < Lim(F) + k[n + 1].args => L[i] = None \/ Pending(F, a, i)
  PROVE  Sound(F, L, a, j, n)
<1>1. Len(F) \in Nat /\ OK(F, L, a, k, n + 1) /\ Occupied(F, L, a, k, n + 1) /\ Lim(F) \in Nat
  <2>1. OK(F, L, a, k, n + 1) /\ Layout(F)
    BY DEF OK, Sound
  <2> QED
    BY <2>1, Ends DEF Sound
<1>2. \A p \in 1 .. n : Torn(k, n + 1, p) /\ k[p].frame = Len(F) => Len(F) >= 1
  BY <1>1 DEF Torn, OK, Called1, Placed
<1>3. OK(F, L, a, j, n)
  BY <1>1, <1>2, PopCall
<1>4. Waits(F, k, n + 1, 0) => Waits(F, k, n + 1, Len(F)) /\ Len(F) = 0
  BY DEF Waits
<1>5. Occupied(F, L, a, j, n)
  BY <1>1, <1>4, PopOccupied DEF Drops
<1>6. Bottom(F, n)
  <2>1. ASSUME n = 0 PROVE Len(F) = 0
    <3>1. Placed(F, k, 1, 1) /\ After(k[1]) = Len(F)
      BY <1>1, <2>1 DEF OK, Called1
    <3> QED
      BY <3>1 DEF Placed
  <2> QED
    BY <2>1 DEF Bottom
<1> QED
  BY <1>3, <1>5, <1>6 DEF Sound

LEMMA WriteSound ==
  ASSUME NEW F, NEW L, NEW a, NEW k, NEW n, Sound(F, L, a, k, n), NEW M,
         DOMAIN M = 0 .. Slots - 1,
         \A i \in 0 .. Slots - 1 :
           \/ M[i] = L[i] \/ M[i] = None
           \/ /\ Admits(F, a, k, n, i, M[i])
              /\ i < Lim(F) \/ Pending(F, a, i) \/ (i = 0 /\ Waits(F, k, n, 0))
  PROVE  Sound(F, M, a, k, n)
<1>1. /\ OK(F, L, a, k, n) /\ Occupied(F, L, a, k, n) /\ Layout(F)
  BY DEF Sound, OK
<1>2. Lim(F) \in Nat
  BY <1>1, Ends
<1>3. OK(F, M, a, k, n)
  BY <1>1, Rewrite
<1>4. Occupied(F, M, a, k, n)
  <2>1. \A i \in 0 .. Slots - 1 : i >= Lim(F) =>
           M[i] = L[i] \/ M[i] = None \/ Pending(F, a, i) \/ (i = 0 /\ Waits(F, k, n, 0))
    BY <1>2
  <2> QED
    BY <1>1, <2>1, RewriteOccupied
<1> QED
  BY <1>3, <1>4 DEF Sound

-------------------------------------------------------------------------------
(* A run begins *)

\* A wall starts no higher than the top frame.
LEMMA WallsStart ==
  ASSUME NEW F, NEW L, NEW a, NEW k, NEW n, OK(F, L, a, k, n), Strict(F, k, n), Len(F) >= 1,
         NEW p \in 1 .. n, Wall(k, n, p)
  PROVE  Start(F, k[p]) <= F[Len(F)].base
<1> DEFINE d == Len(F)
<1>1. /\ d \in Nat /\ d \in 1 .. d /\ Placed(F, k, n, p)
      /\ \A e, c \in 0 .. d : e < c => End(F, e) <= F[c].base
      /\ \A e \in 1 .. d : F[e].base \in Nat /\ F[e].base < End(F, e)
      /\ \A e \in 0 .. d : End(F, e) \in Nat
  BY Ends DEF OK, Called1
<1> HIDE DEF d
<1>2. CASE k[p].op \in RunOps
  <2>1. k[p].depth \in 0 .. d /\ k[p].depth < d
    BY <1>1, <1>2 DEF Placed, IsCall, FloorOps, Strict, d
  <2>2. d \in 0 .. d
    BY <1>1
  <2>3. End(F, k[p].depth) <= F[d].base
    BY <1>1, <2>1, <2>2
  <2> QED
    BY <1>2, <2>3 DEF Start, d
<1>3. CASE k[p].op \notin RunOps
  <2>1. k[p].op \in TornOps
    BY <1>3 DEF Wall, Torn
  <2>2. k[p].frame \in 1 .. d
    BY <1>1, <2>1 DEF Placed, IsCall, TornOps, TeardownOps, FloorOps, RunOps, d
  <2>3. Start(F, k[p]) = F[k[p].frame].base
    BY <1>3 DEF Start
  <2>4. CASE k[p].frame = d
    BY <1>1, <2>3, <2>4 DEF d
  <2>5. CASE k[p].frame # d
    <3>1. k[p].frame < d /\ k[p].frame \in 0 .. d /\ d \in 0 .. d
      BY <1>1, <2>2, <2>5
    <3>2. End(F, k[p].frame) <= F[d].base
      BY <1>1, <3>1
    <3>3. F[k[p].frame].base < End(F, k[p].frame) /\ F[k[p].frame].base \in Nat
          /\ End(F, k[p].frame) \in Nat /\ F[d].base \in Nat
      BY <1>1, <2>2, <3>1
    <3> QED
      BY <2>3, <3>2, <3>3 DEF d
  <2> QED
    BY <2>4, <2>5
<1> QED
  BY <1>2, <1>3

\* Whatever is above the walls but no argument passes them.
LEMMA AboveWalls ==
  ASSUME NEW F, NEW L, NEW a, NEW k, NEW n, OK(F, L, a, k, n), Strict(F, k, n), Len(F) >= 1,
         NEW i \in 0 .. Slots - 1, F[Len(F)].base <= i,
         ~Pending(F, a, i) \/ (n >= 1 /\ k[n].op = "run")
  PROVE  \A p \in 1 .. n : Wall(k, n, p) => Passes(k, p, L[i])
<1> SUFFICES ASSUME NEW p \in 1 .. n, Wall(k, n, p) PROVE Passes(k, p, L[i])
  OBVIOUS
<1>1. Start(F, k[p]) <= F[Len(F)].base
  BY WallsStart
<1>2. n \in Nat /\ Walled(F, L, a, k, n, p) /\ Placed(F, k, n, p) /\ Layout(F)
  BY DEF OK, Walls, Called1
<1>3. Start(F, k[p]) \in Int /\ F[Len(F)].base \in Int /\ Len(F) \in 1 .. Len(F)
  <2>1. Len(F) \in 1 .. Len(F)
    BY <1>2 DEF Layout
  <2>2. /\ F[Len(F)].base \in Int
        /\ \A d \in 0 .. Len(F) : End(F, d) \in Int
        /\ \A d \in 1 .. Len(F) : F[d].base \in Int
    BY <1>2, <2>1, Ends
  <2>3. k[p].op \in RunOps => k[p].depth \in 0 .. Len(F)
    BY <1>2, <2>1 DEF Placed, IsCall, FloorOps
  <2>4. k[p].op \notin RunOps => k[p].frame \in 1 .. Len(F)
    BY <1>2, <2>1 DEF Placed, IsCall, TornOps, TeardownOps, FloorOps, RunOps, Wall, Torn
  <2> QED
    BY <2>1, <2>2, <2>3, <2>4 DEF Start
<1>4. i >= Start(F, k[p])
  BY <1>1, <1>3
<1>5. Passes(k, p, L[i]) \/ (k[p].op \in TornOps /\ NoRun(k, p, n) /\ Pending(F, a, i))
  BY <1>2, <1>4 DEF Walled
<1>6. ASSUME k[p].op \in TornOps, NoRun(k, p, n), n >= 1, k[n].op = "run" PROVE FALSE
  <2>1. p # n
    BY <1>6 DEF TornOps, TeardownOps
  <2>2. n \in p + 1 .. n
    BY <1>2, <2>1
  <2> QED
    BY <1>6, <2>2 DEF NoRun, RunOps
<1> QED
  BY <1>5, <1>6

LEMMA PushRun ==
  ASSUME NEW F, NEW L, NEW a, NEW k, NEW n, Sound(F, L, a, k, n), Strict(F, k, n),
         Sheltered(F, L, a, k, n), Firm(F, L, a),
         NEW x, IsCall(x), x.op = "run", x.depth = Len(F),
         x.saved = IF Len(F) = 0 THEN None ELSE L[F[Len(F)].base],
         NEW j, \A p \in 1 .. n : j[p] = k[p], j[n + 1] = x
  PROVE  Sound(F, L, a, j, n + 1)
<1> DEFINE d == Len(F)
<1>1. /\ n \in Nat /\ d \in Nat /\ OK(F, L, a, k, n) /\ Layout(F)
      /\ Temporary(x) = x.saved /\ x.op \in RunOps /\ x.op \notin TornOps
      /\ ~IsVar(None)
  BY DEF OK, Layout, Sound, Temporary, RunOps, TornOps, TeardownOps, IsVar, None
<1>2. \A e : ~Waits(F, k, n, e)
  BY <1>1, StrictIdle
<1>3. ASSUME d >= 1
      PROVE  /\ F[d].base \in 0 .. Slots - 1 /\ F[d].base < End(F, d) /\ x.saved = L[F[d].base]
             /\ F[d].base < Lim(F) /\ F[d].base \in Nat /\ Lim(F) \in Nat
  <2>1. d \in 1 .. d
    BY <1>1, <1>3
  <2> QED
    BY <1>1, <1>3, <2>1, Framed1, Ends
<1>4. ASSUME NEW p \in 1 .. n, Wall(k, n, p) PROVE Passes(k, p, x.saved)
  <2>1. CASE d = 0
    BY <1>1, <2>1 DEF Passes
  <2>2. CASE d # 0
    <3>1. d >= 1
      BY <1>1, <2>2
    <3>2. ~Pending(F, a, F[d].base)
      BY <1>3, <3>1 DEF Pending
    <3> QED
      BY <1>1, <1>3, <1>4, <3>1, <3>2, AboveWalls
  <2> QED
    BY <2>1, <2>2
<1>5. ASSUME NEW p \in 1 .. n, Torn(k, n, p), k[p].frame = d PROVE x.saved = None
  <2>1. d >= 1
    BY <1>1, <1>5 DEF Torn, OK, Called1, Placed
  <2>2. Cleared(F, L, k, n, p)
    BY <1>1 DEF OK, Walls
  <2> QED
    BY <1>2, <1>3, <1>5, <2>1, <2>2 DEF Cleared
<1> HIDE DEF d
<1>6. Others(F, L, a, k, n, j, n + 1, n)
  <2>1. \A q \in n + 1 .. n + 1 : q = n + 1 /\ j[q] = x
    BY <1>1
  <2>2. \A q \in n + 1 .. n : FALSE
    BY <1>1
  <2>3. x.op # "clear"
    OBVIOUS
  <2> QED
    BY <1>1, <1>2, <1>4, <1>5, <2>1, <2>2, <2>3 DEF Others, Strict, d
<1>7. Below(j, n + 1)
  <2>1. \A q \in 1 .. (n + 1) - 1 : q \in 1 .. n /\ j[q] = k[q]
    BY <1>1
  <2>2. ASSUME NEW q \in 1 .. n PROVE BelowRun(x, k[q])
    <3>1. Placed(F, k, n, q) /\ Valid(F, Temporary(k[q]))
      BY <1>1 DEF OK, Called1, Carries
    <3> QED
      BY <1>1, <3>1 DEF BelowRun, Placed, Strict, Valid
  <2>3. \A q \in 1 .. n : BelowOther(x, k[q])
    BY DEF BelowOther
  <2> QED
    BY <1>1, <2>1, <2>2, <2>3 DEF Below
<1>8. Placed(F, j, n + 1, n + 1)
  <2>1. n + 1 = 1 => n = 0
    BY <1>1
  <2>2. n = 0 => After(x) = 0
    BY <1>1 DEF Sound, Bottom, After, FloorOps
  <2>3. \A q \in (n + 1) + 1 .. n + 1 : FALSE
    BY <1>1
  <2>4. x.depth = d /\ (d = 0 => x.saved = None) /\ ~(x.depth < d)
    BY <1>1 DEF d
  <2> QED
    BY <1>1, <2>1, <2>2, <2>3, <2>4 DEF Placed, d
<1>9. Carries(F, x)
  <2>1. CASE d = 0
    BY <1>1, <2>1 DEF Carries, Valid, d
  <2>2. CASE d # 0
    <3>1. Holds(F, F[d].base, L[F[d].base]) /\ x.saved = L[F[d].base]
      BY <1>1, <1>3, <2>2 DEF OK, Held1
    <3>2. Valid(F, x.saved)
      BY <3>1 DEF Holds
    <3>3. Lev(x) = d
      BY DEF Lev, FloorOps, RunOps, d
    <3>4. Temporary(x) = x.saved
      BY <1>1
    <3>5. IsVar(x.saved) => x.saved.frame <= d
      BY <3>2 DEF Valid, d
    <3> QED
      BY <3>2, <3>3, <3>4, <3>5 DEF Carries
  <2> QED
    BY <2>1, <2>2
<1>10. Covered(F, j, n + 1, n + 1)
  BY <1>1 DEF Covered
<1>11. Walled(F, L, a, j, n + 1, n + 1)
  <2>1. Start(F, x) = Lim(F) /\ Height(x) = d
    BY <1>1 DEF Start, Lim, Height, d
  <2>2. ASSUME NEW i \in 0 .. Slots - 1, i >= Lim(F), IsVar(L[i])
        PROVE  Found(j, n + 1, L[i].frame)
    <3>1. ~Pending(F, a, i) /\ L[i] # None
      BY <1>1, <2>2 DEF Firm
    <3>2. PICK p \in 1 .. n : \E q \in p + 1 .. n : k[q].op = "drain" /\ L[i].frame <= k[q].frame
      BY <2>2, <3>1 DEF Sheltered
    <3>3. PICK q \in p + 1 .. n : k[q].op = "drain" /\ L[i].frame <= k[q].frame
      BY <3>2
    <3>4. q \in 1 .. (n + 1) - 1 /\ q \in 1 .. n
      BY <1>1, <3>3
    <3> QED
      BY <3>3, <3>4 DEF Found
  <2>3. \A q \in (n + 1) + 1 .. n + 1 : FALSE
    BY <1>1
  <2> QED
    BY <2>1, <2>2, <2>3 DEF Walled, Passes
<1>12. Walls(F, L, a, j, n + 1, n + 1)
  <2>1. ~Torn(j, n + 1, n + 1)
    BY <1>1 DEF Torn
  <2>2. Zero(F, L, j, n + 1, n + 1)
    BY DEF Zero
  <2> QED
    BY <1>11, <2>1, <2>2 DEF Walls, Cleared
<1>13. \A p \in n + 1 .. n + 1 : Called1(F, j, n + 1, p) /\ Walls(F, L, a, j, n + 1, p)
  <2>1. \A p \in n + 1 .. n + 1 : p = n + 1
    BY <1>1
  <2> QED
    BY <1>7, <1>8, <1>9, <1>10, <1>12, <2>1 DEF Called1
<1>14. OK(F, L, a, j, n + 1)
  BY <1>1, <1>6, <1>13, OthersOK
<1>15. Occupied(F, L, a, j, n + 1)
  BY <1>1, ShelteredPush, ShelteredOccupied
<1> QED
  BY <1>1, <1>14, <1>15 DEF Sound, Bottom

-------------------------------------------------------------------------------
(* Frames come and go *)

\* One frame more.
Grown(F, G, y) ==
  /\ Len(G) = Len(F) + 1 /\ G[Len(F) + 1] = y
  /\ \A d \in 1 .. Len(F) : G[d] = F[d]

LEMMA GrownEnds ==
  ASSUME NEW F, Len(F) \in Nat, NEW G, NEW y, Grown(F, G, y)
  PROVE  /\ \A d \in 0 .. Len(F) : End(G, d) = End(F, d)
         /\ End(G, Len(F) + 1) = y.base + Registers[y.func]
         /\ Lim(G) = y.base + Registers[y.func]
         /\ \A v : Valid(F, v) => Valid(G, v)
         /\ \A i, v : Holds(F, i, v) => Holds(G, i, v)
<1>1. ASSUME NEW d \in 0 .. Len(F) PROVE End(G, d) = End(F, d)
  BY DEF End, Grown
<1>2. End(G, Len(F) + 1) = y.base + Registers[y.func]
  BY DEF End, Grown
<1>3. Lim(G) = y.base + Registers[y.func]
  BY <1>2 DEF Lim, Grown
<1>4. ASSUME NEW v, Valid(F, v) PROVE Valid(G, v)
  <2> SUFFICES ASSUME IsVar(v) PROVE Valid(G, v)
    BY DEF Valid
  <2>1. v.frame \in 1 .. Len(F) /\ v.frame \in 0 .. Len(F) /\ v.frame \in 1 .. Len(F) + 1
    BY <1>4 DEF Valid
  <2>2. G[v.frame] = F[v.frame] /\ End(G, v.frame) = End(F, v.frame)
    BY <1>1, <2>1 DEF Grown
  <2>3. Len(G) = Len(F) + 1
    BY DEF Grown
  <2> QED
    BY <1>4, <2>1, <2>2, <2>3 DEF Valid
<1>5. ASSUME NEW i, NEW v, Holds(F, i, v) PROVE Holds(G, i, v)
  BY <1>4, <1>5 DEF Holds, Valid, Grown
<1> QED
  BY <1>1, <1>2, <1>3, <1>4, <1>5

LEMMA FramePush ==
  ASSUME NEW F, NEW L, NEW a, NEW k, NEW n, Sound(F, L, a, k, n), n >= 1, k[n].op = "run",
         NEW y, IsFrame(y),
         y.func \in Functions, y.base = Lim(F), a <= Registers[y.func],
         Lim(F) + Registers[y.func] <= Slots,
         Len(F) >= 1 => y.dst \in 0 .. Registers[F[Len(F)].func] - 1,
         Len(F) = k[n].depth =>
           y.dst = 0 /\ (Len(F) >= 1 => L[F[Len(F)].base] = None),
         NEW G, Grown(F, G, y)
  PROVE  Sound(G, L, 0, k, n) /\ Strict(G, k, n)
<1> DEFINE d == Len(F)
<1>1. /\ n \in Nat /\ d \in Nat /\ OK(F, L, a, k, n) /\ Layout(F) /\ n \in 1 .. n
      /\ Occupied(F, L, a, k, n) /\ Lim(F) \in Nat /\ a \in Nat
  <2>1. OK(F, L, a, k, n) /\ Layout(F) /\ Occupied(F, L, a, k, n)
    BY DEF OK, Sound
  <2> QED
    BY <2>1, Ends DEF OK
<1>2. Registers[y.func] \in Nat \ {0}
  BY CallFramesAssumption
<1>3. /\ \A e \in 0 .. d : End(G, e) = End(F, e)
      /\ Lim(G) = Lim(F) + Registers[y.func]
      /\ End(G, d + 1) = Lim(F) + Registers[y.func]
      /\ \A v : Valid(F, v) => Valid(G, v)
      /\ \A i, v : Holds(F, i, v) => Holds(G, i, v)
      /\ Len(G) = d + 1 /\ G[d + 1] = y /\ \A e \in 1 .. d : G[e] = F[e]
  BY <1>1, GrownEnds DEF Grown
<1>4. /\ \A p \in 1 .. n : k[p].op \in RunOps => k[p].depth \in 0 .. d
      /\ \A p \in 1 .. n : k[p].op \in TornOps => k[p].frame \in 1 .. d
  BY <1>1 DEF OK, Called1, Placed, IsCall, FloorOps, RunOps, TornOps, TeardownOps
<1>5. Layout(G)
  <2>1. ASSUME NEW e \in 1 .. d
        PROVE  /\ IsFrame(G[e]) /\ G[e].func \in Functions /\ G[e].base \in Nat
               /\ G[e].base = End(G, e - 1)
               /\ \A c \in e + 1 .. d + 1 : End(G, e) <= G[c].base
               /\ e > 1 => G[e].dst \in 0 .. Registers[G[e - 1].func] - 1
    <3>1. /\ IsFrame(F[e]) /\ F[e].func \in Functions /\ F[e].base \in Nat
          /\ F[e].base = End(F, e - 1)
          /\ \A c \in e + 1 .. d : End(F, e) <= F[c].base
          /\ e > 1 => F[e].dst \in 0 .. Registers[F[e - 1].func] - 1
      BY <1>1 DEF Layout
    <3>2. e - 1 \in 0 .. d /\ e \in 0 .. d /\ (e > 1 => e - 1 \in 1 .. d)
      BY <1>1
    <3>3. End(F, e) <= Lim(F)
      BY <1>1, <3>2, Ends
    <3>4. \A c \in e + 1 .. d + 1 : c = d + 1 \/ c \in e + 1 .. d
      BY <1>1
    <3>5. \A c \in e + 1 .. d : c \in 1 .. d
      BY <1>1
    <3>6. \A c \in e + 1 .. d + 1 : End(F, e) <= G[c].base
      BY <1>3, <3>1, <3>3, <3>4, <3>5
    <3> QED
      BY <1>3, <3>1, <3>2, <3>6
  <2>2. d \in 0 .. d /\ (d + 1) - 1 = d /\ End(G, d) = Lim(F) /\ (d + 1 > 1 => d \in 1 .. d)
    BY <1>1, <1>3 DEF Lim
  <2>3. /\ y.base \in Nat /\ y.base = End(G, (d + 1) - 1)
        /\ d + 1 > 1 => y.dst \in 0 .. Registers[G[(d + 1) - 1].func] - 1
    BY <1>1, <1>3, <2>2
  <2>4. \A e \in 1 .. d + 1 : e = d + 1 \/ e \in 1 .. d
    BY <1>1
  <2>5. d + 1 \in Nat /\ \A c \in (d + 1) + 1 .. d + 1 : FALSE
    BY <1>1
  <2> HIDE DEF d
  <2> QED
    BY <1>3, <2>1, <2>3, <2>4, <2>5 DEF Layout
<1>6. ASSUME NEW p \in 1 .. n PROVE Called1(G, k, n, p)
  <2>1. Called1(F, k, n, p)
    BY <1>1 DEF OK
  <2>2. Placed(G, k, n, p)
    <3>1. Placed(F, k, n, p)
      BY <2>1 DEF Called1
    <3>2. k[p].op \in RunOps => k[p].depth < d + 1
      BY <1>1, <1>4
    <3>3. ASSUME k[p].op = "run", k[p].depth < d + 1 PROVE G[k[p].depth + 1].dst = 0
      <4>1. k[p].depth \in 0 .. d
        BY <1>4, <3>3 DEF RunOps
      <4>2. CASE k[p].depth < d
        <5>1. k[p].depth + 1 \in 1 .. d
          BY <4>1, <4>2
        <5> QED
          BY <1>3, <3>1, <3>3, <4>2, <5>1 DEF Placed
      <4>3. CASE ~(k[p].depth < d)
        <5>1. k[p].depth = d
          BY <1>1, <4>1, <4>3
        <5>2. p = n
          <6>1. \A q \in p + 1 .. n : k[q].op \in {"result", "unwind"}
            BY <3>1, <3>3, <4>3 DEF Placed, RunOps
          <6>2. n \notin p + 1 .. n
            BY <6>1
          <6> QED
            BY <1>1, <6>2
        <5> QED
          BY <1>3, <5>1, <5>2
      <4> QED
        BY <4>2, <4>3
    <3>4. /\ k[p].op \in TornOps \cup {"drain", "result"} => k[p].frame <= d + 1
          /\ k[p].op = "result" /\ k[p].frame >= 1 => G[k[p].frame] = F[k[p].frame]
          /\ k[p].op = "tailcall" => G[k[p].frame] = F[k[p].frame]
      <4>1. k[p].op \in TornOps \cup {"drain", "result"} => k[p].frame \in Int /\ k[p].frame <= d
        BY <3>1 DEF Placed, IsCall, TornOps, TeardownOps, FloorOps, RunOps
      <4>2. k[p].op \in {"result"} \cup TornOps /\ k[p].frame >= 1 => k[p].frame \in 1 .. d
        BY <1>1, <4>1
      <4>3. k[p].op \in {"result"} \cup TornOps /\ k[p].frame >= 1 => G[k[p].frame] = F[k[p].frame]
        BY <1>3, <4>2
      <4>4. k[p].op = "tailcall" => k[p].frame >= 1 /\ k[p].op \in TornOps
        BY <3>1 DEF Placed, TornOps
      <4> QED
        BY <1>1, <4>1, <4>3, <4>4
    <3> HIDE DEF d
    <3> QED
      BY <1>3, <3>1, <3>2, <3>3, <3>4 DEF Placed
  <2>3. Covered(G, k, n, p)
    <3>1. k[p].op \in TornOps => /\ G[k[p].frame] = F[k[p].frame]
                                 /\ End(G, k[p].frame) = End(F, k[p].frame)
      BY <1>3, <1>4
    <3>2. k[p].op \in TornOps => \A z : Covers(F, k[p], z) => Covers(G, k[p], z)
      BY <3>1 DEF Covers
    <3> QED
      BY <2>1, <3>2 DEF Called1, Covered
  <2>4. Carries(G, k[p])
    BY <1>3, <2>1 DEF Called1, Carries
  <2> QED
    BY <2>1, <2>2, <2>3, <2>4 DEF Called1
<1>7. ASSUME NEW p \in 1 .. n PROVE Walls(G, L, 0, k, n, p)
  <2>1. Walled(F, L, a, k, n, p) /\ Cleared(F, L, k, n, p) /\ Zero(F, L, k, n, p)
    BY <1>1 DEF OK, Walls
  <2>2. /\ k[p].op \in RunOps => End(G, k[p].depth) = End(F, k[p].depth)
        /\ k[p].op \in TornOps => /\ G[k[p].frame] = F[k[p].frame]
                                  /\ End(G, k[p].frame) = End(F, k[p].frame)
        /\ k[p].op \in RunOps /\ k[p].depth >= 1 => G[k[p].depth] = F[k[p].depth]
    BY <1>3, <1>4
  <2>3. Wall(k, n, p) => k[p].op \in RunOps \cup TornOps
    BY DEF Wall, Torn
  <2>4. Wall(k, n, p) => Start(G, k[p]) = Start(F, k[p])
    BY <2>2, <2>3 DEF Start
  <2>5. k[p].op \in TornOps => ~NoRun(k, p, n)
    <3>1. k[p].op \in TornOps => n \in p + 1 .. n
      BY <1>1 DEF TornOps, TeardownOps
    <3> QED
      BY <3>1 DEF NoRun, RunOps
  <2>6. Walled(G, L, 0, k, n, p)
    BY <2>1, <2>4, <2>5 DEF Walled
  <2>7. Waits(F, k, n, d) /\ d >= 1 => L[F[d].base] = None
    BY DEF Waits
  <2>8. k[p].op \in TornOps /\ Waits(F, k, n, k[p].frame) => k[p].frame = d /\ Waits(F, k, n, d)
    BY DEF Waits
  <2>9. Cleared(G, L, k, n, p)
    <3>1. Torn(k, n, p) => k[p].op \in TornOps /\ k[p].frame \in 1 .. d
      BY <1>4 DEF Torn
    <3>2. Torn(k, n, p) /\ Waits(F, k, n, k[p].frame) => L[F[k[p].frame].base] = None
      BY <2>7, <2>8, <3>1
    <3> QED
      BY <2>1, <2>2, <3>1, <3>2 DEF Cleared
  <2>10. Zero(G, L, k, n, p)
    <3>1. k[p].op = "run" /\ k[p].depth >= 1 /\ p = n /\ d = k[p].depth
            => L[F[k[p].depth].base] = None
      OBVIOUS
    <3> QED
      BY <2>1, <2>2, <3>1 DEF Zero, RunOps
  <2> QED
    BY <2>6, <2>9, <2>10 DEF Walls
<1>8. Held1(G, L)
  BY <1>1, <1>3 DEF OK, Held1
<1>9. OK(G, L, 0, k, n)
  BY <1>1, <1>3, <1>5, <1>6, <1>7, <1>8 DEF OK
<1>10. Occupied(G, L, 0, k, n)
  <2> SUFFICES ASSUME NEW i \in 0 .. Slots - 1, i >= Lim(G), L[i] # None
               PROVE  \E p \in 1 .. n : Drops(G, k, n, p, i) /\ Open(k, n, p, L[i])
    BY DEF Occupied
  <2>1. i >= Lim(F) /\ ~Pending(F, a, i) /\ i # 0
    BY <1>1, <1>2, <1>3 DEF Pending
  <2>2. PICK p \in 1 .. n : Drops(F, k, n, p, i) /\ Open(k, n, p, L[i])
    BY <1>1, <2>1 DEF Occupied
  <2>3. Drops(G, k, n, p, i)
    BY <2>2 DEF Drops
  <2> QED
    BY <2>2, <2>3
<1>11. Strict(G, k, n)
  BY <1>1, <1>3, <1>4 DEF Strict
<1> QED
  BY <1>1, <1>9, <1>10, <1>11 DEF Sound, Bottom

\* The frame F has more than G is gone, after its teardown.
LEMMA FramePop ==
  ASSUME NEW F, NEW L, NEW k, NEW n \in Nat, Sound(F, L, 0, k, n + 1), n >= 1,
         k[n + 1].op = "pop", k[n + 1].frame = Len(F),
         k[n].op \in {"result", "raise", "unwind"},
         k[n].op = "raise" => k[n].target <= Len(F) - 1,
         k[n].op # "raise" => n >= 2 /\ k[n - 1].op \in RunOps,
         NEW G, NEW y, Len(G) \in Nat, Grown(G, F, y),
         NEW j, \A p \in 1 .. n : j[p] = k[p]
  PROVE  Sound(G, L, 0, j, n)
<1> DEFINE d == Len(F)
<1>1. /\ d \in Nat /\ OK(F, L, 0, k, n + 1) /\ Layout(F) /\ n + 1 \in 1 .. n + 1
      /\ Occupied(F, L, 0, k, n + 1) /\ Len(G) = d - 1 /\ d >= 1 /\ d \in 1 .. d
  <2>1. OK(F, L, 0, k, n + 1) /\ Layout(F) /\ Occupied(F, L, 0, k, n + 1)
    BY DEF OK, Sound
  <2> QED
    BY <2>1 DEF Layout, Grown
<1>2. /\ \A e \in 0 .. d - 1 : End(G, e) = End(F, e)
      /\ \A e \in 1 .. d - 1 : G[e] = F[e]
  <2>1. \A e \in 0 .. Len(G) : End(F, e) = End(G, e)
    BY GrownEnds
  <2> QED
    BY <1>1, <2>1 DEF Grown
<1>3. /\ \A e \in 0 .. d : End(F, e) \in Nat /\ End(F, e) <= Lim(F)
      /\ \A e \in 1 .. d : F[e].base \in Nat /\ F[e].base = End(F, e - 1)
      /\ \A e \in 1 .. d : F[e].base < End(F, e)
      /\ \A e, c \in 0 .. d : e < c => End(F, e) <= F[c].base
      /\ Lim(F) = End(F, d) /\ Lim(F) \in Nat
  BY <1>1, Ends
<1>4. Lim(G) = F[d].base /\ Lim(G) \in Nat /\ Lim(G) <= Lim(F)
  <2>1. d - 1 \in 0 .. d - 1 /\ d - 1 \in 0 .. d
    BY <1>1
  <2> QED
    BY <1>1, <1>2, <1>3, <2>1 DEF Lim
<1>5. ASSUME NEW p \in 1 .. n
      PROVE  /\ k[p].op \in RunOps => k[p].depth \in 0 .. d - 1
             /\ k[p].op \in TornOps \cup {"drain", "result"} =>
                  k[p].frame \in Int /\ k[p].frame <= d - 1
             /\ k[p].op \in TornOps => k[p].frame \in 1 .. d - 1
             /\ IsVar(Temporary(k[p])) => Temporary(k[p]).frame < d
  <2>1. Below(k, n + 1) /\ p \in 1 .. (n + 1) - 1 /\ p \in 1 .. n + 1
    BY <1>1 DEF OK, Called1
  <2>2. BelowTorn(k[n + 1], k[p])
    BY <2>1 DEF Below, TornOps
  <2>3. IsCall(k[p]) /\ Placed(F, k, n + 1, p)
    BY <1>1, <2>1 DEF OK, Called1, Placed
  <2>4. /\ k[p].op \in RunOps => k[p].depth \in Nat /\ k[p].depth < d
        /\ k[p].op \in TornOps \cup {"drain", "result"} => k[p].frame \in Int /\ k[p].frame < d
        /\ k[p].op \in TornOps => k[p].frame >= 1
        /\ IsVar(Temporary(k[p])) => Temporary(k[p]).frame < d
    BY <2>2, <2>3 DEF BelowTorn, Placed, IsCall, TornOps, TeardownOps, FloorOps, RunOps
  <2> QED
    BY <1>1, <2>4
<1>6. /\ Torn(k, n + 1, n + 1) /\ Wall(k, n + 1, n + 1) /\ k[n + 1].op \notin RunOps
      /\ Walled(F, L, 0, k, n + 1, n + 1) /\ Cleared(F, L, k, n + 1, n + 1)
      /\ \A e : ~Waits(F, k, n + 1, e)
  <2>1. \A q \in (n + 1) + 1 .. n + 1 : FALSE
    OBVIOUS
  <2> QED
    BY <1>1, <2>1 DEF OK, Walls, Torn, Wall, TornOps, RunOps, Waits
<1>7. \A i \in 0 .. Slots - 1 : Lim(G) <= i /\ i < Lim(F) => L[i] = None
  BY <1>1, <1>3, <1>4, <1>6 DEF Cleared
<1>8. \A i \in 0 .. Slots - 1 : ~Pending(F, 0, i)
  BY <1>3 DEF Pending
<1>9. ASSUME NEW i \in 0 .. Slots - 1, IsVar(L[i]) PROVE L[i].frame \in 1 .. d - 1
  <2>1. Holds(F, i, L[i])
    BY <1>1 DEF OK, Held1
  <2>2. L[i].frame \in 1 .. d /\ F[L[i].frame].base <= i
    BY <1>9, <2>1 DEF Holds, Valid
  <2>3. CASE i < Lim(G)
    BY <1>1, <1>4, <2>2, <2>3
  <2>4. CASE i >= Lim(G)
    <3>1. i >= Start(F, k[n + 1]) /\ Height(k[n + 1]) = d
      BY <1>4, <1>6, <2>4 DEF Start, Height
    <3>2. Passes(k, n + 1, L[i])
      BY <1>6, <1>8, <3>1 DEF Walled
    <3>3. Found(k, n + 1, L[i].frame)
      BY <1>1, <1>9, <2>2, <3>1, <3>2 DEF Passes
    <3>4. PICK q \in 1 .. (n + 1) - 1 : k[q].op = "drain" /\ L[i].frame <= k[q].frame
      BY <3>3 DEF Found
    <3>5. q \in 1 .. n
      OBVIOUS
    <3> QED
      BY <1>1, <1>5, <2>2, <3>4, <3>5
  <2> QED
    BY <1>4, <2>3, <2>4
<1>10. ASSUME NEW v, Valid(F, v), IsVar(v) => v.frame < d PROVE Valid(G, v)
  <2> SUFFICES ASSUME IsVar(v) PROVE Valid(G, v)
    BY DEF Valid
  <2>1. v.frame \in 1 .. d - 1 /\ v.frame \in 0 .. d - 1 /\ Len(G) = d - 1
    BY <1>1, <1>10 DEF Valid
  <2> QED
    BY <1>2, <1>10, <2>1 DEF Valid
<1>11. Layout(G)
  <2>1. ASSUME NEW e \in 1 .. d - 1
        PROVE  /\ IsFrame(G[e]) /\ G[e].func \in Functions /\ G[e].base \in Nat
               /\ G[e].base = End(G, e - 1)
               /\ \A c \in e + 1 .. d - 1 : End(G, e) <= G[c].base
               /\ e > 1 => G[e].dst \in 0 .. Registers[G[e - 1].func] - 1
    <3>1. /\ e \in 1 .. d /\ e - 1 \in 0 .. d - 1 /\ e \in 0 .. d - 1
          /\ (e > 1 => e - 1 \in 1 .. d - 1)
          /\ \A c \in e + 1 .. d - 1 : c \in 1 .. d - 1 /\ c \in e + 1 .. d
      BY <1>1
    <3>2. /\ IsFrame(F[e]) /\ F[e].func \in Functions /\ F[e].base \in Nat
          /\ F[e].base = End(F, e - 1)
          /\ \A c \in e + 1 .. d : End(F, e) <= F[c].base
          /\ e > 1 => F[e].dst \in 0 .. Registers[F[e - 1].func] - 1
      BY <1>1, <3>1 DEF Layout
    <3> QED
      BY <1>2, <3>1, <3>2
  <2> QED
    BY <1>1, <2>1 DEF Layout
<1>12. Held1(G, L)
  <2>1. ASSUME NEW i \in 0 .. Slots - 1 PROVE Holds(G, i, L[i])
    <3>1. Holds(F, i, L[i])
      BY <1>1 DEF OK, Held1
    <3>2. IsVar(L[i]) => L[i].frame \in 1 .. d - 1 /\ L[i].frame < d
      BY <1>1, <1>9
    <3>3. Valid(G, L[i])
      BY <1>10, <3>1, <3>2 DEF Holds
    <3> QED
      BY <1>2, <3>1, <3>2, <3>3 DEF Holds
  <2> QED
    BY <1>1, <2>1 DEF OK, Held1
<1>13. ASSUME NEW p \in 1 .. n
       PROVE  /\ j[p] = k[p] /\ p \in 1 .. n + 1
              /\ Torn(j, n, p) <=> Torn(k, n + 1, p)
              /\ Wall(j, n, p) <=> Wall(k, n + 1, p)
  <2>1. \A q \in p + 1 .. n : q \in p + 1 .. n + 1 /\ j[q] = k[q]
    OBVIOUS
  <2>2. \A q \in p + 1 .. n + 1 : q = n + 1 \/ q \in p + 1 .. n
    OBVIOUS
  <2>3. Torn(j, n, p) <=> Torn(k, n + 1, p)
    BY <2>1, <2>2 DEF Torn
  <2> QED
    BY <2>3 DEF Wall
<1>14. \A p \in 1 .. n : \A v : Passes(j, p, v) <=> Passes(k, p, v)
  BY SamePasses
<1>15. \A p \in 1 .. n : \A e : Found(j, p, e) <=> Found(k, p, e)
  BY SamePasses
<1>16. ASSUME NEW p \in 1 .. n PROVE Called1(G, j, n, p)
  <2>1. Called1(F, k, n + 1, p)
    BY <1>1, <1>13 DEF OK
  <2>2. Below(j, p)
    <3>1. \A q \in 1 .. p - 1 : q \in 1 .. n
      OBVIOUS
    <3>2. \A q \in 1 .. p - 1 : j[q] = k[q] /\ \A r \in q + 1 .. p - 1 : j[r] = k[r]
      <4>1. ASSUME NEW q \in 1 .. p - 1, NEW r \in q + 1 .. p - 1 PROVE r \in 1 .. n
        OBVIOUS
      <4> QED
        BY <1>13, <3>1, <4>1
    <3>3. Below(k, p) /\ j[p] = k[p]
      BY <1>13, <2>1 DEF Called1
    <3> QED
      BY <3>2, <3>3 DEF Below
  <2>3. Placed(F, k, n + 1, p)
    BY <2>1 DEF Called1
  <2>4. ASSUME k[p].op \in RunOps
        PROVE  \/ k[p].depth < d - 1
               \/ k[p].depth = d - 1 /\ \A q \in p + 1 .. n : j[q].op \in {"result", "unwind"}
    <3>1. k[p].depth \in 0 .. d - 1
      BY <1>5, <2>4
    <3>2. SUFFICES ASSUME k[p].depth = d - 1
                   PROVE  \A q \in p + 1 .. n : j[q].op \in {"result", "unwind"}
      BY <1>1, <3>1
    <3>3. n \in 1 .. n /\ n \in 1 .. n + 1 /\ j[n] = k[n] /\ Below(k, n) /\ p # n
      <4>1. n \in 1 .. n /\ n \in 1 .. n + 1 /\ p # n
        BY <2>4 DEF RunOps
      <4> QED
        BY <1>1, <1>13, <4>1 DEF OK, Called1
    <3>4. k[n].op # "raise"
      <4>1. ASSUME k[n].op = "raise" PROVE FALSE
        <5>1. p \in 1 .. n - 1
          BY <3>3
        <5>2. BelowOther(k[n], k[p])
          BY <3>3, <5>1 DEF Below
        <5>3. k[p].depth < k[n].target /\ k[n].target <= d - 1
          BY <2>4, <4>1, <5>2 DEF BelowOther
        <5>4. k[n].target \in Int
          BY <1>1, <3>3, <4>1 DEF OK, Called1, Placed, IsCall
        <5> QED
          BY <1>1, <3>2, <5>3, <5>4
      <4> QED
        BY <4>1
    <3>5. n >= 2 /\ k[n - 1].op \in RunOps /\ n - 1 \in 1 .. n /\ n - 1 \in 1 .. n + 1
      BY <3>4
    <3>6. p = n - 1
      <4> SUFFICES ASSUME p # n - 1 PROVE FALSE
        OBVIOUS
      <4>1. p \in 1 .. (n - 1) - 1
        BY <3>3
      <4>2. Below(k, n - 1)
        BY <1>1, <3>5 DEF OK, Called1
      <4>3. BelowRun(k[n - 1], k[p])
        BY <3>5, <4>1, <4>2 DEF Below
      <4>4. k[p].depth < k[n - 1].depth
        BY <2>4, <4>3 DEF BelowRun
      <4>5. k[n - 1].depth \in 0 .. d - 1
        BY <1>5, <3>5
      <4> QED
        BY <1>1, <3>2, <4>4, <4>5
    <3>7. \A q \in p + 1 .. n : q = n
      BY <3>6
    <3> QED
      BY <3>3, <3>4, <3>7
  <2>5. Placed(G, j, n, p)
    <3>1. ASSUME k[p].op = "run", k[p].depth < d - 1 PROVE G[k[p].depth + 1].dst = 0
      <4>1. k[p].depth \in 0 .. d - 1
        BY <1>5, <3>1 DEF RunOps
      <4>2. k[p].depth + 1 \in 1 .. d - 1 /\ k[p].depth < d
        BY <1>1, <3>1, <4>1
      <4> QED
        BY <1>2, <2>3, <3>1, <4>2 DEF Placed
    <3>2. /\ k[p].op \in TornOps \cup {"drain", "result"} => k[p].frame <= d - 1
          /\ k[p].op = "result" /\ k[p].frame >= 1 => G[k[p].frame] = F[k[p].frame]
          /\ k[p].op = "tailcall" => G[k[p].frame] = F[k[p].frame]
      <4>1. k[p].op = "result" /\ k[p].frame >= 1 => k[p].frame \in 1 .. d - 1
        BY <1>1, <1>5
      <4>2. k[p].op = "tailcall" => k[p].op \in TornOps
        BY DEF TornOps
      <4> QED
        BY <1>2, <1>5, <4>1, <4>2
    <3>3. j[p] = k[p]
      BY <1>13
    <3> HIDE DEF d
    <3> QED
      BY <1>1, <2>3, <2>4, <3>1, <3>2, <3>3 DEF Placed
  <2>6. Covered(G, j, n, p)
    <3> SUFFICES ASSUME k[p].op \in TornOps, ~Torn(k, n + 1, p)
                 PROVE  \E q \in p + 1 .. n :
                          /\ Covers(G, j[p], j[q])
                          /\ \A r \in p + 1 .. q - 1 : j[r].op \in TeardownOps
      BY <1>13 DEF Covered
    <3>1. PICK q \in p + 1 .. n + 1 : /\ Covers(F, k[p], k[q])
                                      /\ \A r \in p + 1 .. q - 1 : k[r].op \in TeardownOps
      BY <2>1 DEF Called1, Covered
    <3>2. q # n + 1
      BY <3>1 DEF Covers
    <3>3. q \in p + 1 .. n /\ q \in 1 .. n
      BY <3>2
    <3>4. \A r \in p + 1 .. q - 1 : r \in 1 .. n
      BY <3>3
    <3>5. G[k[p].frame] = F[k[p].frame] /\ End(G, k[p].frame) = End(F, k[p].frame)
      BY <1>1, <1>2, <1>5
    <3>6. Covers(G, j[p], j[q])
      BY <1>13, <3>1, <3>3, <3>5 DEF Covers
    <3>7. \A r \in p + 1 .. q - 1 : j[r].op \in TeardownOps
      BY <1>13, <3>1, <3>4
    <3> QED
      BY <3>3, <3>6, <3>7
  <2>7. Carries(G, j[p])
    <3>1. Carries(F, k[p]) /\ j[p] = k[p]
      BY <1>13, <2>1 DEF Called1
    <3> QED
      BY <1>5, <1>10, <3>1 DEF Carries
  <2> QED
    BY <2>2, <2>5, <2>6, <2>7 DEF Called1
<1>17. ASSUME NEW p \in 1 .. n PROVE Walls(G, L, 0, j, n, p)
  <2>1. Walled(F, L, 0, k, n + 1, p) /\ Cleared(F, L, k, n + 1, p) /\ Zero(F, L, k, n + 1, p)
    BY <1>1, <1>13 DEF OK, Walls
  <2>2. /\ k[p].op \in RunOps => End(G, k[p].depth) = End(F, k[p].depth)
        /\ k[p].op \in TornOps => /\ G[k[p].frame] = F[k[p].frame]
                                  /\ End(G, k[p].frame) = End(F, k[p].frame)
        /\ k[p].op \in RunOps /\ k[p].depth >= 1 => G[k[p].depth] = F[k[p].depth]
    <3>1. /\ k[p].op \in RunOps => k[p].depth \in 0 .. d - 1
          /\ k[p].op \in RunOps /\ k[p].depth >= 1 => k[p].depth \in 1 .. d - 1
          /\ k[p].op \in TornOps => k[p].frame \in 1 .. d - 1 /\ k[p].frame \in 0 .. d - 1
      BY <1>1, <1>5
    <3> QED
      BY <1>2, <3>1
  <2>3. Wall(k, n + 1, p) => Start(G, k[p]) = Start(F, k[p])
    BY <2>2 DEF Start, Wall, Torn
  <2>4. j[p] = k[p] /\ \A q \in p + 1 .. n : j[q] = k[q] /\ q \in p + 1 .. n + 1
    BY <1>13
  <2>5. Walled(G, L, 0, j, n, p)
    BY <1>8, <1>13, <1>14, <2>1, <2>3, <2>4 DEF Walled
  <2>6. Cleared(G, L, j, n, p)
    <3>1. Torn(k, n + 1, p) => k[p].op \in TornOps
      BY DEF Torn
    <3> QED
      BY <1>6, <1>13, <2>1, <2>2, <2>4, <3>1 DEF Cleared
  <2>7. Zero(G, L, j, n, p)
    <3>1. p # n + 1
      OBVIOUS
    <3> QED
      BY <1>15, <2>1, <2>2, <2>4, <3>1 DEF Zero, RunOps
  <2> QED
    BY <2>5, <2>6, <2>7 DEF Walls
<1>18. OK(G, L, 0, j, n)
  <2>1. Lim(G) <= Slots
    <3>1. Lim(F) <= Slots /\ Slots \in Nat
      BY <1>1, CallFramesAssumption DEF OK
    <3> QED
      BY <1>3, <1>4, <3>1
  <2> QED
    BY <1>11, <1>12, <1>16, <1>17, <2>1 DEF OK
<1>19. Occupied(G, L, 0, j, n)
  <2>1. Occupied(F, L, 0, j, n)
    BY <1>1, <1>3, <1>6, PopOccupied DEF Drops
  <2>2. \A e : ~Waits(F, j, n, 0)
    BY <1>1 DEF Waits
  <2>3. \A p \in 1 .. n, i \in 0 .. Slots - 1 : Drops(F, j, n, p, i) => Drops(G, j, n, p, i)
    BY <1>13 DEF Drops
  <2> QED
    BY <1>3, <1>4, <1>7, <1>8, <2>1, <2>2, <2>3 DEF Occupied
<1> QED
  BY <1>18, <1>19 DEF Sound, Bottom

-------------------------------------------------------------------------------
(* Arguments are set up, taken and dropped *)

LEMMA ArgsUp ==
  ASSUME NEW F, NEW L, NEW a, NEW k, NEW n, Sound(F, L, a, k, n), NEW b \in Nat, a <= b
  PROVE  Sound(F, L, b, k, n)
<1>1. OK(F, L, a, k, n) /\ Occupied(F, L, a, k, n) /\ Layout(F) /\ a \in Nat
  BY DEF Sound, OK
<1>2. Lim(F) \in Nat
  BY <1>1, Ends
<1>3. \A i \in 0 .. Slots - 1 : Pending(F, a, i) => Pending(F, b, i)
  BY <1>1, <1>2 DEF Pending
<1>4. ASSUME NEW p \in 1 .. n PROVE Called1(F, k, n, p) /\ Walls(F, L, b, k, n, p)
  <2>1. Called1(F, k, n, p) /\ Walls(F, L, a, k, n, p)
    BY <1>1 DEF OK
  <2> QED
    BY <1>3, <2>1 DEF Walls, Walled
<1>5. OK(F, L, b, k, n)
  BY <1>1, <1>4 DEF OK
<1>6. Occupied(F, L, b, k, n)
  BY <1>1, <1>3 DEF Occupied
<1> QED
  BY <1>5, <1>6 DEF Sound

LEMMA ArgsDown ==
  ASSUME NEW F, NEW L, NEW a, NEW k, NEW n, Sound(F, L, a, k, n),
         \A i \in 0 .. Slots - 1 : Pending(F, a, i) =>
           L[i] = None \/ \E p \in 1 .. n : Drops(F, k, n, p, i) /\ Open(k, n, p, L[i]),
         Firm(F, L, a) \/ \A p \in 1 .. n : k[p].op \in TornOps => ~NoRun(k, p, n)
  PROVE  Sound(F, L, 0, k, n)
<1>1. OK(F, L, a, k, n) /\ Occupied(F, L, a, k, n)
  BY DEF Sound
<1>2. ASSUME NEW p \in 1 .. n PROVE Called1(F, k, n, p) /\ Walls(F, L, 0, k, n, p)
  <2>1. Called1(F, k, n, p) /\ Walls(F, L, a, k, n, p)
    BY <1>1 DEF OK
  <2>2. Walled(F, L, 0, k, n, p)
    BY <2>1 DEF Walls, Walled, Firm, Passes
  <2> QED
    BY <2>1, <2>2 DEF Walls
<1>3. OK(F, L, 0, k, n)
  BY <1>1, <1>2 DEF OK
<1>4. Occupied(F, L, 0, k, n)
  BY <1>1 DEF Occupied
<1> QED
  BY <1>3, <1>4 DEF Sound

-------------------------------------------------------------------------------
(* Registers have been cleared *)

LEMMA PopClear ==
  ASSUME NEW F, NEW L, NEW a, NEW k, NEW n \in Nat, Sound(F, L, a, k, n + 1),
         k[n + 1].op = "clear", k[n + 1].frame = Len(F), Strict(F, k, n + 1),
         \A i \in 0 .. Slots - 1 : k[n + 1].from <= i /\ i <= k[n + 1].to => L[i] = None,
         NEW j, \A p \in 1 .. n : j[p] = k[p]
  PROVE  Sound(F, L, a, j, n)
<1> DEFINE x == k[n + 1]
<1>1. /\ OK(F, L, a, k, n + 1) /\ Occupied(F, L, a, k, n + 1) /\ Layout(F) /\ Lim(F) \in Nat
      /\ Len(F) \in Nat
  <2>1. OK(F, L, a, k, n + 1) /\ Occupied(F, L, a, k, n + 1) /\ Layout(F)
    BY DEF Sound, OK
  <2> QED
    BY <2>1, Ends
<1>2. \A e : ~Waits(F, k, n + 1, e)
  BY DEF Waits
<1>3. ASSUME NEW p \in 1 .. n
      PROVE  /\ j[p] = k[p] /\ p \in 1 .. n + 1
             /\ \A q \in p + 1 .. n : j[q] = k[q] /\ q \in p + 1 .. n + 1 /\ q \in 1 .. n
             /\ \A q \in 1 .. p - 1 : j[q] = k[q]
             /\ Called1(F, k, n + 1, p) /\ Walls(F, L, a, k, n + 1, p)
  <2>1. /\ p \in 1 .. n + 1
        /\ \A q \in p + 1 .. n : q \in p + 1 .. n + 1 /\ q \in 1 .. n
        /\ \A q \in 1 .. p - 1 : q \in 1 .. n
    OBVIOUS
  <2> QED
    BY <1>1, <2>1 DEF OK
<1>4. \A p \in 1 .. n : \A v : Passes(j, p, v) <=> Passes(k, p, v)
  BY SamePasses
<1>5. \A p \in 1 .. n : \A e : Found(j, p, e) <=> Found(k, p, e)
  BY SamePasses
<1>6. ASSUME NEW p \in 1 .. n, Torn(j, n, p), ~Torn(k, n + 1, p)
      PROVE  Covers(F, k[p], x) /\ \A r \in p + 1 .. n : k[r].op \in TeardownOps
  <2>1. k[p].op \in TornOps
    BY <1>3, <1>6 DEF Torn
  <2>2. PICK q \in p + 1 .. n + 1 : /\ Covers(F, k[p], k[q])
                                    /\ \A r \in p + 1 .. q - 1 : k[r].op \in TeardownOps
    BY <1>3, <1>6, <2>1 DEF Called1, Covered
  <2>3. q = n + 1
    <3> SUFFICES ASSUME q # n + 1 PROVE FALSE
      OBVIOUS
    <3>1. q \in p + 1 .. n
      OBVIOUS
    <3>2. k[q].op = "clear" /\ k[q].frame = k[p].frame /\ j[q] = k[q]
      BY <1>3, <2>2, <3>1 DEF Covers
    <3>3. k[q].frame > k[p].frame
      BY <1>3, <1>6, <3>1, <3>2 DEF Torn
    <3>4. k[p].frame \in Int
      BY <1>3, <2>1 DEF Called1, Placed, IsCall, TornOps, TeardownOps, FloorOps, RunOps
    <3> QED
      BY <3>2, <3>3, <3>4
  <2> QED
    BY <2>2, <2>3
<1>7. ASSUME NEW p \in 1 .. n, k[p].op \in TornOps, ~Torn(j, n, p)
      PROVE  ~Torn(k, n + 1, p)
  BY <1>3, <1>7 DEF Torn
<1>8. ASSUME NEW p \in 1 .. n PROVE Called1(F, j, n, p)
  <2>1. Below(j, p)
    <3>1. ASSUME NEW q \in 1 .. p - 1, NEW r \in q + 1 .. p - 1 PROVE j[r] = k[r]
      OBVIOUS
    <3> QED
      BY <1>3, <3>1 DEF Called1, Below
  <2>2. Placed(F, j, n, p)
    <3>1. k[p].op \in RunOps => k[p].depth < Len(F)
      BY <1>3 DEF Strict
    <3> QED
      BY <1>3, <3>1 DEF Called1, Placed
  <2>3. Covered(F, j, n, p)
    <3> SUFFICES ASSUME k[p].op \in TornOps, ~Torn(j, n, p)
                 PROVE  \E q \in p + 1 .. n :
                          /\ Covers(F, j[p], j[q])
                          /\ \A r \in p + 1 .. q - 1 : j[r].op \in TeardownOps
      BY <1>3 DEF Covered
    <3>1. PICK q \in p + 1 .. n + 1 : /\ Covers(F, k[p], k[q])
                                      /\ \A r \in p + 1 .. q - 1 : k[r].op \in TeardownOps
      BY <1>3, <1>7 DEF Called1, Covered
    <3>2. q # n + 1
      <4> SUFFICES ASSUME q = n + 1 PROVE FALSE
        OBVIOUS
      <4>1. \A r \in p + 1 .. n : j[r].op \in TeardownOps
        BY <1>3, <3>1
      <4> QED
        BY <1>3, <4>1 DEF Torn, TeardownOps
    <3>3. q \in p + 1 .. n
      BY <3>2
    <3>4. \A r \in p + 1 .. q - 1 : r \in p + 1 .. n
      BY <3>3
    <3> QED
      BY <1>3, <3>1, <3>3, <3>4
  <2> QED
    BY <1>3, <2>1, <2>2, <2>3 DEF Called1
<1>9. ASSUME NEW p \in 1 .. n, Torn(j, n, p), ~Torn(k, n + 1, p)
      PROVE  Walled(F, L, a, j, n, p) /\ Cleared(F, L, j, n, p)
  <2>1. /\ k[p].op \in TornOps /\ k[p].op \notin RunOps
        /\ x.frame = k[p].frame /\ x.from = F[k[p].frame].base /\ x.to = End(F, k[p].frame) - 1
        /\ \A r \in p + 1 .. n : k[r].op \in TeardownOps
    BY <1>3, <1>6, <1>9 DEF Torn, Covers, TornOps, TeardownOps, RunOps
  <2>2. /\ k[p].frame = Len(F) /\ Len(F) >= 1 /\ F[Len(F)].base \in Nat
        /\ x.from = F[Len(F)].base /\ x.to = Lim(F) - 1
    <3>1. k[p].frame >= 1
      BY <1>3, <2>1 DEF Called1, Placed
    <3>2. k[p].frame = Len(F)
      BY <2>1
    <3>3. Len(F) >= 1 /\ F[Len(F)].base \in Nat
      BY <1>1, <3>1, <3>2, Ends
    <3> QED
      BY <2>1, <3>2, <3>3 DEF Lim
  <2>3. \A i \in 0 .. Slots - 1 : F[Len(F)].base <= i /\ i < Lim(F) => L[i] = None
    BY <1>1, <2>2
  <2>4. NoRun(j, p, n)
    BY <1>3, <2>1 DEF NoRun, RunOps, TeardownOps
  <2>5. ASSUME NEW i \in 0 .. Slots - 1, i >= Lim(F), ~Pending(F, a, i)
        PROVE  Passes(k, p, L[i])
    <3> SUFFICES ASSUME IsVar(L[i]) PROVE Found(k, p, L[i].frame)
      BY DEF Passes
    <3>1. L[i] # None
      BY DEF IsVar, None
    <3>2. PICK r \in 1 .. n + 1 : Drops(F, k, n + 1, r, i) /\ Open(k, n + 1, r, L[i])
      BY <1>1, <1>2, <2>5, <3>1 DEF Occupied
    <3>3. r # n + 1 /\ k[r].op = "clear"
      BY <3>1, <3>2 DEF Drops
    <3>4. r \notin p + 1 .. n /\ r # p
      BY <2>1, <3>3 DEF TornOps, TeardownOps
    <3>5. r \in 1 .. p - 1
      BY <3>3, <3>4
    <3>6. PICK s \in r + 1 .. p - 1 : k[s].op \in RunOps
      BY <1>3, <2>1, <3>3, <3>5 DEF Called1, Below
    <3>7. ~NoRun(k, r, n + 1)
      <4>1. s \in r + 1 .. n + 1
        BY <3>6
      <4> QED
        BY <3>6, <4>1 DEF NoRun
    <3>8. PICK q \in r + 1 .. n + 1 : /\ k[q].op = "drain" /\ NoRun(k, r, q)
                                      /\ L[i].frame <= k[q].frame
      BY <3>2, <3>7 DEF Open
    <3>9. q < s
      <4> SUFFICES ASSUME ~(q < s) PROVE FALSE
        OBVIOUS
      <4>1. s \in r + 1 .. q
        OBVIOUS
      <4> QED
        BY <3>6, <3>8, <4>1 DEF NoRun
    <3>10. q \in 1 .. p - 1
      BY <3>6, <3>9
    <3> QED
      BY <3>8, <3>10 DEF Found
  <2>6. Walled(F, L, a, j, n, p)
    <3>1. Start(F, j[p]) = F[Len(F)].base
      BY <1>3, <2>1, <2>2 DEF Start
    <3>2. ASSUME NEW i \in 0 .. Slots - 1, i >= F[Len(F)].base
          PROVE  Passes(j, p, L[i]) \/ Pending(F, a, i)
      <4>1. CASE i < Lim(F)
        BY <2>3, <3>2, <4>1 DEF Passes, IsVar, None
      <4>2. CASE i >= Lim(F)
        BY <1>4, <2>5, <4>2
      <4> QED
        BY <1>1, <4>1, <4>2
    <3>3. \A q \in p + 1 .. n : Passes(j, p, Temporary(j[q]))
      BY <1>3, <2>1 DEF Passes, Temporary, TeardownOps, IsVar, None
    <3>4. j[p].op \in TornOps
      BY <1>3, <2>1
    <3> QED
      BY <2>4, <3>1, <3>2, <3>3, <3>4 DEF Walled
  <2>7. Cleared(F, L, j, n, p)
    <3>1. j[p].frame = Len(F) /\ End(F, j[p].frame) = Lim(F)
      BY <1>3, <2>2 DEF Lim
    <3>2. \A q \in p + 1 .. n : j[q].op \notin RunOps
      BY <1>3, <2>1 DEF RunOps, TeardownOps
    <3> QED
      BY <2>3, <3>1, <3>2 DEF Cleared
  <2> QED
    BY <2>6, <2>7
<1>10. ASSUME NEW p \in 1 .. n PROVE Walls(F, L, a, j, n, p)
  <2>1. Walled(F, L, a, k, n + 1, p) /\ Cleared(F, L, k, n + 1, p) /\ Zero(F, L, k, n + 1, p)
    BY <1>3 DEF Walls
  <2>2. Zero(F, L, j, n, p)
    <3>1. p # n + 1
      OBVIOUS
    <3> QED
      BY <1>3, <1>5, <2>1, <3>1 DEF Zero
  <2>3. CASE Torn(j, n, p) /\ ~Torn(k, n + 1, p)
    BY <1>9, <2>2, <2>3 DEF Walls
  <2>4. CASE ~(Torn(j, n, p) /\ ~Torn(k, n + 1, p))
    <3>1. Wall(j, n, p) => Wall(k, n + 1, p)
      BY <1>3, <2>4 DEF Wall
    <3>2. NoRun(k, p, n + 1) => NoRun(j, p, n)
      BY <1>3 DEF NoRun
    <3>3. Walled(F, L, a, j, n, p)
      BY <1>3, <1>4, <2>1, <3>1, <3>2 DEF Walled
    <3>4. Cleared(F, L, j, n, p)
      BY <1>2, <1>3, <2>1, <2>4 DEF Cleared
    <3> QED
      BY <2>2, <3>3, <3>4 DEF Walls
  <2> QED
    BY <2>3, <2>4
<1>11. OK(F, L, a, j, n)
  BY <1>1, <1>8, <1>10 DEF OK
<1>12. Occupied(F, L, a, j, n)
  BY <1>1, <1>2, PopOccupied DEF Drops
<1>13. Bottom(F, n)
  <2>1. ASSUME n = 0 PROVE Len(F) = 0
    <3>1. Placed(F, k, n + 1, n + 1) /\ After(x) = Len(F)
      BY <1>1 DEF OK, Called1, After, FloorOps, RunOps
    <3>2. n + 1 = 1
      BY <2>1
    <3> QED
      BY <3>1, <3>2 DEF Placed
  <2> QED
    BY <2>1 DEF Bottom
<1> QED
  BY <1>11, <1>12, <1>13 DEF Sound

-------------------------------------------------------------------------------
(* A frame is about to be torn down *)

LEMMA OthersOccupied ==
  ASSUME NEW F, NEW L, NEW a, NEW k, NEW n \in Nat, Occupied(F, L, a, k, n), NEW j, NEW m \in Nat,
         n <= m, \A p \in 1 .. n : j[p] = k[p], \A q \in n + 1 .. m : j[q].op \notin RunOps,
         ~Waits(F, k, n, 0), n >= 1 => k[n].op # "ffi"
  PROVE  Occupied(F, L, a, j, m)
<1> SUFFICES ASSUME NEW i \in 0 .. Slots - 1, i >= Lim(F), L[i] # None, ~Pending(F, a, i)
             PROVE  \E p \in 1 .. m : Drops(F, j, m, p, i) /\ Open(j, m, p, L[i])
  BY DEF Occupied
<1>1. PICK p \in 1 .. n : Drops(F, k, n, p, i) /\ Open(k, n, p, L[i])
  BY DEF Occupied
<1>2. p \in 1 .. m /\ Drops(F, j, m, p, i)
  BY <1>1 DEF Drops
<1>3. CASE NoRun(k, p, n)
  <2>1. \A q \in p + 1 .. m : q \in n + 1 .. m \/ (q \in p + 1 .. n /\ q \in 1 .. n)
    OBVIOUS
  <2>2. NoRun(j, p, m)
    BY <1>3, <2>1 DEF NoRun
  <2> QED
    BY <1>2, <2>2 DEF Open
<1>4. CASE ~NoRun(k, p, n)
  <2>1. PICK q \in p + 1 .. n : /\ k[q].op = "drain" /\ NoRun(k, p, q)
                                /\ IsVar(L[i]) => L[i].frame <= k[q].frame
    BY <1>1, <1>4 DEF Open
  <2>2. q \in 1 .. n /\ q \in p + 1 .. m
    BY <2>1
  <2>3. j[q] = k[q] /\ NoRun(j, p, q)
    BY <2>1, <2>2, SameNoRun
  <2> QED
    BY <1>2, <2>1, <2>2, <2>3 DEF Open
<1> QED
  BY <1>3, <1>4

\* The calls of a teardown, from the bottom: what comes after it, its parts,
\* and the clear of the registers.
Teardown(F, j, n, m) ==
  /\ m \in Nat /\ m >= n + 2
  /\ j[n + 1].op \in {"pop", "tailcall"}
  /\ \A q \in n + 2 .. m - 1 : j[q].op \in TeardownOps
  /\ \A q \in n + 1 .. m : IsCall(j[q]) /\ j[q].frame = Len(F)
  /\ j[n + 1].op = "tailcall" => /\ j[n + 1].func \in Functions
                                 /\ Params[j[n + 1].func] <= Registers[F[Len(F)].func]
  /\ j[m].op = "clear" /\ j[m].from = F[Len(F)].base /\ j[m].to = Lim(F) - 1

\* What a teardown begins above: a run, or what is right above one.
Torn1(F, k, n, s) ==
  /\ s \in 1 .. n /\ k[s].op \in RunOps /\ k[s].depth < Len(F)
  /\ \A q \in s + 1 .. n :
       /\ k[q].op \in {"result", "raise", "unwind"}
       /\ k[q].op = "result" => k[q].frame < Len(F)
       /\ IsVar(Temporary(k[q])) => Temporary(k[q]).frame < Len(F)

\* Below that, everything is about lower frames.
LEMMA TornBelow ==
  ASSUME NEW F, NEW L, NEW a, NEW k, NEW n, OK(F, L, a, k, n), NEW s, Torn1(F, k, n, s),
         NEW q \in 1 .. n
  PROVE  /\ k[q].op \in RunOps => k[q].depth < Len(F)
         /\ k[q].op \in TornOps \cup {"drain", "result"} => k[q].frame < Len(F)
         /\ IsVar(Temporary(k[q])) => Temporary(k[q]).frame < Len(F)
         /\ k[q].op \in {"clear", "ffi"} => q < s
<1>1. n \in Nat /\ s \in 1 .. n /\ k[s].op \in RunOps /\ Below(k, s) /\ Len(F) \in Nat
      /\ Placed(F, k, n, s) /\ Placed(F, k, n, q) /\ Carries(F, k[s]) /\ Carries(F, k[q])
  <2>1. s \in 1 .. n /\ k[s].op \in RunOps
    BY DEF Torn1
  <2> QED
    BY <2>1 DEF OK, Called1, Layout
<1>2. k[s].depth \in Nat /\ k[s].depth < Len(F)
  BY <1>1 DEF Torn1, Placed, IsCall, FloorOps
<1>3. /\ k[q].op \in RunOps => k[q].depth \in Int
      /\ k[q].op \in TornOps \cup {"drain", "result"} => k[q].frame \in Int
      /\ IsVar(Temporary(k[q])) => Temporary(k[q]).frame \in Int
  BY <1>1 DEF Placed, IsCall, TornOps, TeardownOps, FloorOps, RunOps, Carries, Valid
<1>4. CASE q < s
  <2>1. q \in 1 .. s - 1
    BY <1>1, <1>4
  <2>2. BelowRun(k[s], k[q])
    BY <1>1, <2>1 DEF Below
  <2>3. /\ k[q].op \in RunOps => k[q].depth < k[s].depth
        /\ k[q].op \in TornOps \cup {"drain", "result"} => k[q].frame <= k[s].depth
        /\ IsVar(Temporary(k[q])) => Temporary(k[q]).frame <= k[s].depth
    BY <2>2 DEF BelowRun
  <2>4. k[q].op \in {"clear", "ffi"} => q < s
    BY <1>4
  <2> QED
    BY <1>1, <1>2, <1>3, <2>3, <2>4
<1>5. CASE q = s
  <2>1. IsVar(Temporary(k[q])) => Temporary(k[q]).frame <= k[s].depth
    BY <1>1, <1>5 DEF Carries, Lev, FloorOps
  <2> QED
    BY <1>1, <1>2, <1>3, <1>5, <2>1 DEF RunOps, TornOps, TeardownOps
<1>6. CASE q > s
  <2>1. q \in s + 1 .. n
    BY <1>1, <1>6
  <2> QED
    BY <2>1 DEF Torn1, RunOps, TornOps, TeardownOps
<1> QED
  BY <1>1, <1>4, <1>5, <1>6

LEMMA PushTeardown ==
  ASSUME NEW F, NEW L, NEW a, NEW k, NEW n, Sound(F, L, a, k, n), Strict(F, k, n),
         NEW s, Torn1(F, k, n, s), Len(F) >= 1,
         NEW j, NEW m, Teardown(F, j, n, m), \A p \in 1 .. n : j[p] = k[p]
  PROVE  Sound(F, L, a, j, m)
<1> DEFINE d == Len(F)
<1>1. /\ n \in Nat /\ m \in Nat /\ d \in Nat /\ d >= 1 /\ OK(F, L, a, k, n)
      /\ Occupied(F, L, a, k, n)
      /\ m >= n + 2 /\ s \in 1 .. n /\ k[s].op \in RunOps
  BY DEF OK, Layout, Sound, Teardown, Torn1
<1>2. \A e : ~Waits(F, k, n, e)
  BY <1>1, StrictIdle
<1>3. ASSUME NEW q \in n + 1 .. m
      PROVE  /\ j[q].op \in {"pop", "tailcall", "clear"} \cup TeardownOps
             /\ j[q].op \notin RunOps /\ ~IsVar(Temporary(j[q])) /\ Temporary(j[q]) = None
             /\ j[q].frame = d /\ IsCall(j[q])
             /\ (j[q].op = "clear" => q = m) /\ (j[q].op \in {"pop", "tailcall"} => q = n + 1)
             /\ j[q].op # "clear" => q < m
  <2>1. q = n + 1 \/ q = m \/ q \in n + 2 .. m - 1
    BY <1>1
  <2>2. j[q].op \in {"pop", "tailcall", "clear"} \cup TeardownOps
    BY <2>1 DEF Teardown
  <2>3. j[q].op = "clear" => q = m
    BY <2>1 DEF Teardown, TeardownOps
  <2>4. j[q].op \in {"pop", "tailcall"} => q = n + 1
    BY <2>1 DEF Teardown, TeardownOps
  <2>5. j[q].op # "clear" => q < m
    <3>1. q = m => j[q].op = "clear"
      BY DEF Teardown
    <3> QED
      BY <1>1, <3>1
  <2>6. Temporary(j[q]) = None
    BY <2>2 DEF Temporary, TeardownOps
  <2> QED
    BY <2>2, <2>3, <2>4, <2>5, <2>6 DEF Teardown, RunOps, TeardownOps, IsVar, None
<1>4. j[m].op = "clear" /\ j[m].frame = d /\ m \in n + 1 .. m
  BY <1>1, <1>3 DEF Teardown
<1>5. Others(F, L, a, k, n, j, m, n)
  <2>1. ASSUME NEW p \in 1 .. n, k[p].op \in TornOps PROVE k[p].frame < d
    BY <1>1, <2>1, TornBelow
  <2>2. k[s].op \in RunOps => \A p \in 1 .. n : k[p].op \in RunOps => k[p].depth < d
    BY DEF Strict
  <2>3. \A q \in n + 1 .. n : FALSE
    BY <1>1
  <2>4. \A p \in 1 .. n, q \in n + 1 .. m : Wall(k, n, p) => Passes(k, p, Temporary(j[q]))
    BY <1>3 DEF Passes
  <2>5. \A p \in 1 .. n : k[p].op \in TornOps => k[p].frame \in Int
    BY <1>1 DEF OK, Called1, Placed, IsCall, TornOps, TeardownOps, FloorOps, RunOps
  <2>6. \A p \in 1 .. n, q \in n + 1 .. m :
          k[p].op \in TornOps /\ j[q].op = "clear" => j[q].frame > k[p].frame
    BY <1>1, <1>3, <2>1, <2>5
  <2> HIDE DEF d
  <2> QED
    BY <1>1, <1>2, <1>3, <2>2, <2>3, <2>4, <2>6 DEF Others, d
<1>6. ASSUME NEW p \in n + 1 .. m PROVE Called1(F, j, m, p) /\ Walls(F, L, a, j, m, p)
  <2>1. \A q \in 1 .. p - 1 : q \in 1 .. n \/ q \in n + 1 .. m
    BY <1>1
  <2>2. ASSUME NEW q \in 1 .. p - 1, j[p].op \in TornOps PROVE BelowTorn(j[p], j[q])
    <3>1. j[p].frame = d
      BY <1>3
    <3>2. CASE q \in 1 .. n
      <4>1. j[q] = k[q]
        BY <3>2
      <4> QED
        BY <1>1, <3>1, <3>2, <4>1, TornBelow DEF BelowTorn
    <3>3. CASE q \in n + 1 .. m
      <4>1. j[p].op \notin {"pop", "tailcall"}
        BY <1>1, <1>3, <3>3
      <4>2. j[q].op \notin RunOps \cup {"drain", "result"} /\ ~IsVar(Temporary(j[q]))
        BY <1>3, <3>3 DEF TeardownOps, RunOps
      <4> QED
        BY <4>1, <4>2 DEF BelowTorn
    <3> QED
      BY <2>1, <3>2, <3>3
  <2>3. ASSUME NEW q \in 1 .. p - 1, j[p].op \in TornOps, j[q].op \in {"clear", "ffi"}
        PROVE  \E r \in q + 1 .. p - 1 : j[r].op \in RunOps
    <3>1. q \in 1 .. n
      <4> SUFFICES ASSUME q \in n + 1 .. m PROVE FALSE
        BY <2>1
      <4>1. q # m
        BY <1>1
      <4>2. j[q].op # "ffi"
        BY <1>3 DEF TeardownOps
      <4> QED
        BY <1>3, <2>3, <4>1, <4>2
    <3>2. q < s
      BY <1>1, <2>3, <3>1, TornBelow
    <3>3. s \in q + 1 .. p - 1 /\ j[s] = k[s]
      BY <1>1, <3>2
    <3> QED
      BY <1>1, <3>3
  <2>4. j[p].op \notin RunOps /\ j[p].op \notin {"leave", "throw", "ffi", "raise", "result"}
    BY <1>3 DEF TeardownOps
  <2>5. Below(j, p)
    <3>1. \A q \in 1 .. p - 1 : BelowOther(j[p], j[q])
      BY <2>4 DEF BelowOther
    <3> QED
      BY <2>2, <2>3, <2>4, <3>1 DEF Below
  <2>6. Placed(F, j, m, p)
    <3>1. p # 1
      BY <1>1
    <3>2. j[p].op = "tailcall" => p = n + 1
      BY <1>3
    <3>3. j[p].op = "tailcall" => /\ j[p].func \in Functions
                                  /\ Params[j[p].func] <= Registers[F[d].func]
      BY <3>2 DEF Teardown
    <3>4. j[p].op = "clear" => j[p].from \in Int /\ j[p].to \in Int
      <4>1. d \in 1 .. d
        BY <1>1
      <4>2. F[d].base \in Nat /\ Lim(F) \in Nat
        BY <1>1, <4>1, Ends DEF OK
      <4> QED
        BY <1>3, <4>2 DEF Teardown
    <3>5. j[p].frame = d /\ IsCall(j[p])
          /\ j[p].op \in {"pop", "tailcall", "clear"} \cup TeardownOps
      BY <1>3
    <3> QED
      BY <1>1, <2>4, <3>1, <3>3, <3>4, <3>5 DEF Placed, TeardownOps
  <2>7. Covered(F, j, m, p)
    <3> SUFFICES ASSUME j[p].op \in TornOps
                 PROVE  \E q \in p + 1 .. m :
                          /\ Covers(F, j[p], j[q])
                          /\ \A r \in p + 1 .. q - 1 : j[r].op \in TeardownOps
      BY DEF Covered
    <3>1. p < m /\ m \in p + 1 .. m
      BY <1>1, <1>3 DEF TornOps, TeardownOps
    <3>2. Covers(F, j[p], j[m])
      BY <1>3, <1>4 DEF Covers, Teardown, Lim
    <3>3. \A r \in p + 1 .. m - 1 : r \in n + 2 .. m - 1
      BY <1>1
    <3>4. \A r \in p + 1 .. m - 1 : j[r].op \in TeardownOps
      BY <3>3 DEF Teardown
    <3> QED
      BY <3>1, <3>2, <3>4
  <2>8. Carries(F, j[p])
    BY <1>3 DEF Carries, Valid
  <2>9. ~Torn(j, m, p)
    <3> SUFFICES ASSUME Torn(j, m, p) PROVE FALSE
      OBVIOUS
    <3>1. p < m /\ m \in p + 1 .. m
      BY <1>1, <1>3 DEF Torn, TornOps, TeardownOps
    <3>2. j[m].frame > j[p].frame /\ j[p].frame = d
      BY <1>3, <1>4, <3>1 DEF Torn
    <3> QED
      BY <1>1, <1>4, <3>2
  <2>10. Walls(F, L, a, j, m, p)
    BY <2>4, <2>9 DEF Walls, Walled, Cleared, Zero, Wall, RunOps
  <2> QED
    BY <2>5, <2>6, <2>7, <2>8, <2>10 DEF Called1
<1>7. OK(F, L, a, j, m)
  BY <1>1, <1>5, <1>6, OthersOK
<1>8. Occupied(F, L, a, j, m)
  <2>1. k[n].op # "ffi"
    <3>1. CASE n = s
      BY <1>1, <3>1 DEF RunOps
    <3>2. CASE n # s
      <4>1. n \in s + 1 .. n
        BY <1>1, <3>2
      <4> QED
        BY <4>1 DEF Torn1
    <3> QED
      BY <3>1, <3>2
  <2> QED
    BY <1>1, <1>2, <1>3, <2>1, OthersOccupied
<1> QED
  BY <1>1, <1>7, <1>8 DEF Sound, Bottom

-------------------------------------------------------------------------------
(* An error is caught by the innermost run *)

LEMMA CatchSound ==
  ASSUME NEW F, NEW L, NEW a, NEW k, NEW n, Sound(F, L, a, k, n), Runs(F, k, n),
         NEW j, \A p \in 1 .. n - 1 : j[p] = k[p],
         IsCall(j[n]), j[n].op = "rethrow", j[n].depth = k[n].depth, j[n].saved = k[n].saved,
         IsCall(j[n + 1]), j[n + 1].op = "unwind", IsCall(j[n + 2]), j[n + 2].op = "drop_args"
  PROVE  Sound(F, L, a, j, n + 2) /\ Strict(F, j, n + 2)
<1> DEFINE m == n + 2
<1>1. /\ n \in Nat /\ n >= 1 /\ n - 1 \in Nat /\ m \in Nat /\ n \in 1 .. n
      /\ OK(F, L, a, k, n) /\ Occupied(F, L, a, k, n)
      /\ Strict(F, k, n) /\ \A e : ~Waits(F, k, n, e)
  <2>1. OK(F, L, a, k, n) /\ Occupied(F, L, a, k, n)
    BY DEF Sound
  <2> QED
    BY <2>1, RunsStrict
<1>2. /\ k[n].op = "run" /\ k[n].depth < Len(F) /\ Called1(F, k, n, n) /\ Walls(F, L, a, k, n, n)
  BY <1>1 DEF OK, Runs
<1>3. \A q \in (n - 1) + 1 .. m : q = n \/ q = n + 1 \/ q = n + 2
  BY <1>1
<1>4. \A q \in (n - 1) + 1 .. n : q = n
  BY <1>1
<1>5. /\ Temporary(j[n]) = k[n].saved /\ Temporary(k[n]) = k[n].saved
      /\ Temporary(j[n + 1]) = None /\ Temporary(j[n + 2]) = None /\ ~IsVar(None)
  BY <1>2 DEF Temporary, IsVar, None
<1>6. ASSUME NEW p \in 1 .. n - 1
      PROVE  /\ p \in 1 .. n /\ n \in p + 1 .. n
             /\ Wall(k, n, p) => Passes(k, p, k[n].saved)
             /\ Torn(k, n, p) /\ k[n].depth = k[p].frame => k[n].saved = None
  <2>1. p \in 1 .. n /\ n \in p + 1 .. n
    BY <1>1
  <2>2. Walled(F, L, a, k, n, p) /\ Cleared(F, L, k, n, p)
    BY <1>1, <2>1 DEF OK, Walls
  <2> QED
    BY <1>2, <1>5, <2>1, <2>2 DEF Walled, Cleared, RunOps
<1>7. Others(F, L, a, k, n, j, m, n - 1)
  <2>1. \A p \in 1 .. n - 1, q \in (n - 1) + 1 .. m :
          Wall(k, n, p) => Passes(k, p, Temporary(j[q]))
    BY <1>3, <1>5, <1>6 DEF Passes
  <2>2. \A p \in 1 .. n - 1, q \in (n - 1) + 1 .. m :
          Torn(k, n, p) /\ j[q].op \in RunOps /\ j[q].depth = k[p].frame => Temporary(j[q]) = None
    BY <1>3, <1>5, <1>6 DEF RunOps
  <2>3. /\ \A q \in (n - 1) + 1 .. m : j[q].op # "clear"
        /\ \A q \in (n - 1) + 1 .. n : k[q].op # "clear"
    BY <1>2, <1>3, <1>4
  <2>4. \E q \in (n - 1) + 1 .. n : k[q].op \in RunOps
    BY <1>1, <1>2 DEF RunOps
  <2>5. n - 1 <= n /\ n - 1 <= m
    BY <1>1
  <2>6. \A p \in 1 .. n - 1 : k[p].op \in RunOps => k[p].depth < Len(F)
    BY <1>1, <1>6 DEF Strict
  <2> QED
    BY <1>1, <2>1, <2>2, <2>3, <2>4, <2>5, <2>6 DEF Others
<1>8. \A p \in 1 .. n - 1 : j[p] = k[p]
  OBVIOUS
<1>9. Called1(F, j, m, n) /\ Walls(F, L, a, j, m, n)
  <2>1. Below(j, n)
    <3>1. \A q \in 1 .. n - 1 : BelowRun(k[n], k[q])
      BY <1>2 DEF Called1, Below, RunOps
    <3>2. \A q \in 1 .. n - 1 : BelowRun(j[n], j[q]) /\ BelowOther(j[n], j[q])
      BY <3>1 DEF BelowRun, BelowOther
    <3> QED
      BY <3>2 DEF Below, TornOps, TeardownOps
  <2>2. Placed(F, j, m, n)
    <3>1. n = 1 => After(j[n]) = 0
      BY <1>2 DEF Called1, Placed, After, FloorOps, RunOps
    <3> QED
      BY <1>2, <3>1 DEF Placed, TornOps, TeardownOps
  <2>3. Covered(F, j, m, n)
    BY DEF Covered, TornOps, TeardownOps
  <2>4. Carries(F, j[n])
    BY <1>2, <1>5 DEF Called1, Carries, Lev, FloorOps, RunOps
  <2>5. Walled(F, L, a, j, m, n)
    <3>1. Wall(k, n, n) /\ Start(F, j[n]) = Start(F, k[n]) /\ Height(j[n]) = Height(k[n])
          /\ k[n].op \notin TornOps
      BY <1>2 DEF Wall, RunOps, Start, Height, TornOps, TeardownOps
    <3>2. \A e : Found(j, n, e) <=> Found(k, n, e)
      BY DEF Found
    <3>3. \A v : Passes(j, n, v) <=> Passes(k, n, v)
      BY <3>1, <3>2 DEF Passes
    <3>4. \A q \in n + 1 .. m : q = n + 1 \/ q = n + 2
      BY <1>1
    <3>5. \A q \in n + 1 .. m : Passes(j, n, Temporary(j[q]))
      BY <1>5, <3>4 DEF Passes
    <3>6. Walled(F, L, a, k, n, n)
      BY <1>2 DEF Walls
    <3> QED
      BY <3>1, <3>3, <3>5, <3>6 DEF Walled
  <2>6. ~Torn(j, m, n)
    BY DEF Torn, TornOps, TeardownOps
  <2> QED
    BY <2>1, <2>2, <2>3, <2>4, <2>5, <2>6 DEF Called1, Walls, Cleared, Zero
<1>10. ASSUME NEW p \in {n + 1, n + 2} PROVE Called1(F, j, m, p) /\ Walls(F, L, a, j, m, p)
  <2>1. j[p].op \in {"unwind", "drop_args"} /\ IsCall(j[p]) /\ p # 1 /\ Temporary(j[p]) = None
    BY <1>1, <1>5
  <2> QED
    BY <1>5, <2>1 DEF Called1, Below, BelowOther, Placed, Covered, Carries, Valid,
                      Walls, Walled, Cleared, Zero, Wall, Torn, RunOps, TornOps, TeardownOps
<1>11. OK(F, L, a, j, m)
  <2>1. \A p \in (n - 1) + 1 .. m : Called1(F, j, m, p) /\ Walls(F, L, a, j, m, p)
    BY <1>3, <1>9, <1>10
  <2> HIDE DEF m
  <2> QED
    BY <1>1, <1>7, <2>1, OthersOK
<1>12. Occupied(F, L, a, j, m)
  <2>1. Sheltered(F, L, a, k, n)
    BY <1>1, <1>2, ShelteredTop DEF RunOps
  <2>2. n - 1 <= n /\ n - 1 <= m /\ \A q \in (n - 1) + 1 .. n : k[q].op # "drain"
    BY <1>1, <1>2, <1>4
  <2>3. Sheltered(F, L, a, j, m)
    BY <1>1, <1>8, <2>1, <2>2, ShelteredOthers
  <2> QED
    BY <2>3, ShelteredOccupied
<1>13. Strict(F, j, m)
  <2>1. \A p \in 1 .. m : p \in 1 .. n - 1 \/ p = n \/ p = n + 1 \/ p = n + 2
    BY <1>1
  <2>2. \A p \in 1 .. n - 1 : j[p].op \in RunOps => j[p].depth < Len(F)
    BY <1>1, <1>6, <1>8 DEF Strict
  <2> QED
    BY <1>2, <2>1, <2>2 DEF Strict, RunOps
<1> QED
  BY <1>1, <1>11, <1>12, <1>13 DEF Sound, Bottom

-------------------------------------------------------------------------------
(* A tail call *)

\* The a arguments are the first registers of the top frame.
Moved(F, L, a, M) ==
  /\ DOMAIN M = 0 .. Slots - 1
  /\ \A i \in 0 .. Slots - 1 :
       LET b == F[Len(F)].base
       IN M[i] = IF b <= i /\ i < b + a THEN L[Lim(F) + (i - b)]
                 ELSE IF Pending(F, a, i) THEN None ELSE L[i]

\* Another function in the top frame.
Recalled(F, G, f) ==
  /\ Len(G) = Len(F)
  /\ \A d \in 1 .. Len(F) : /\ G[d].base = F[d].base /\ G[d].dst = F[d].dst
                            /\ IsFrame(G[d])
                            /\ d < Len(F) => G[d] = F[d]
  /\ G[Len(F)].func = f

\* Where an argument is before and after the call, in numbers: s registers
\* that end at l, with the frame at b.
LEMMA MoveArithmetic ==
  ASSUME NEW s \in Nat, NEW b \in Nat, NEW r \in Nat, NEW a \in Nat, NEW c \in Nat,
         NEW l \in Nat, l = b + r, a <= r, a <= c, l + c <= s,
         NEW i \in 0 .. s - 1, b <= i, i < b + a
  PROVE  l + (i - b) \in 0 .. s - 1 /\ i <= l + (i - b) /\ i < l
OBVIOUS

LEMMA FrameTail ==
  ASSUME NEW F, NEW L, NEW a, NEW k, NEW n \in Nat, Sound(F, L, a, k, n + 1), n >= 1,
         k[n + 1].op = "tailcall", k[n + 1].frame = Len(F), k[n].op = "run",
         NEW f \in Functions, a <= Registers[f], a <= Registers[F[Len(F)].func],
         Lim(F) + Registers[f] <= Slots,
         \A i \in 0 .. Slots - 1 : Pending(F, a, i) /\ IsVar(L[i]) => L[i].frame # Len(F),
         NEW M, Moved(F, L, a, M), NEW G, Recalled(F, G, f),
         NEW j, \A p \in 1 .. n : j[p] = k[p]
  PROVE  Sound(G, M, 0, j, n)
<1> DEFINE d == Len(F)
           b == F[d].base
<1>1. /\ d \in Nat /\ OK(F, L, a, k, n + 1) /\ Layout(F) /\ n + 1 \in 1 .. n + 1 /\ a \in Nat
      /\ Occupied(F, L, a, k, n + 1) /\ Len(G) = d /\ d >= 1 /\ d \in 1 .. d
      /\ Registers[f] \in Nat
  <2>1. OK(F, L, a, k, n + 1) /\ Layout(F) /\ Occupied(F, L, a, k, n + 1) /\ n + 1 \in 1 .. n + 1
    BY DEF OK, Sound
  <2>2. Placed(F, k, n + 1, n + 1)
    BY <2>1 DEF OK, Called1
  <2>3. d >= 1
    BY <2>2 DEF Placed, TornOps
  <2>4. Registers[f] \in Nat
    BY CallFramesAssumption
  <2> QED
    BY <2>1, <2>3, <2>4 DEF Layout, Recalled, OK
<1>2. /\ \A e \in 1 .. d : G[e].base = F[e].base /\ G[e].dst = F[e].dst
      /\ \A e \in 1 .. d - 1 : G[e] = F[e]
      /\ G[d].func = f
      /\ \A e \in 1 .. d : IsFrame(G[e])
  BY <1>1 DEF Recalled
<1>3. /\ \A e \in 0 .. d : End(F, e) \in Nat /\ End(F, e) <= Lim(F)
      /\ \A e \in 1 .. d : F[e].base \in Nat /\ F[e].base = End(F, e - 1)
      /\ \A e \in 1 .. d : F[e].base < End(F, e)
      /\ \A e, c \in 0 .. d : e < c => End(F, e) <= F[c].base
      /\ Lim(F) = End(F, d) /\ Lim(F) \in Nat
      /\ Lim(F) = b + Registers[F[d].func] /\ b \in Nat /\ Registers[F[d].func] \in Nat
  BY <1>1, Ends
<1>4. /\ \A e \in 0 .. d - 1 : End(G, e) = End(F, e)
      /\ Lim(G) = b + Registers[f] /\ End(G, d) = b + Registers[f] /\ Lim(G) \in Nat
  <2>1. ASSUME NEW e \in 0 .. d - 1 PROVE End(G, e) = End(F, e)
    <3>1. e # 0 => e \in 1 .. d - 1
      OBVIOUS
    <3> QED
      BY <1>2, <3>1 DEF End
  <2>2. End(G, d) = b + Registers[f]
    BY <1>1, <1>2 DEF End
  <2>3. Lim(G) = End(G, d)
    BY <1>1 DEF Lim
  <2>4. b + Registers[f] \in Nat
    <3>1. b \in Nat /\ Registers[f] \in Nat
      BY <1>1, <1>3
    <3> HIDE DEF b
    <3> QED
      BY <3>1
  <2> QED
    BY <2>1, <2>2, <2>3, <2>4
<1>22. /\ b \in Nat /\ a \in Nat /\ Slots \in Nat /\ Lim(F) \in Nat /\ Lim(G) \in Nat
       /\ Registers[f] \in Nat /\ Registers[F[d].func] \in Nat
       /\ Lim(F) = b + Registers[F[d].func] /\ Lim(G) = b + Registers[f]
       /\ a <= Registers[f] /\ a <= Registers[F[d].func] /\ Lim(F) + Registers[f] <= Slots
  BY <1>1, <1>3, <1>4, CallFramesAssumption
<1>5. ASSUME NEW p \in 1 .. n
      PROVE  /\ k[p].op \in RunOps => k[p].depth \in 0 .. d - 1
             /\ k[p].op \in TornOps \cup {"drain", "result"} =>
                  k[p].frame \in Int /\ k[p].frame <= d - 1
             /\ k[p].op \in TornOps => k[p].frame \in 1 .. d - 1
             /\ IsVar(Temporary(k[p])) => Temporary(k[p]).frame < d
  <2>1. Below(k, n + 1) /\ p \in 1 .. (n + 1) - 1 /\ p \in 1 .. n + 1
    BY <1>1 DEF OK, Called1
  <2>2. BelowTorn(k[n + 1], k[p])
    BY <2>1 DEF Below, TornOps
  <2>3. IsCall(k[p]) /\ Placed(F, k, n + 1, p)
    BY <1>1, <2>1 DEF OK, Called1, Placed
  <2>4. /\ k[p].op \in RunOps => k[p].depth \in Nat /\ k[p].depth < d
        /\ k[p].op \in TornOps \cup {"drain", "result"} => k[p].frame \in Int /\ k[p].frame < d
        /\ k[p].op \in TornOps => k[p].frame >= 1
        /\ IsVar(Temporary(k[p])) => Temporary(k[p]).frame < d
    BY <2>2, <2>3 DEF BelowTorn, Placed, IsCall, TornOps, TeardownOps, FloorOps, RunOps
  <2> QED
    BY <1>1, <2>4
<1>6. /\ Torn(k, n + 1, n + 1) /\ Wall(k, n + 1, n + 1) /\ k[n + 1].op \notin RunOps
      /\ Walled(F, L, a, k, n + 1, n + 1) /\ Cleared(F, L, k, n + 1, n + 1)
      /\ \A e : ~Waits(F, k, n + 1, e)
  <2>1. \A q \in (n + 1) + 1 .. n + 1 : FALSE
    OBVIOUS
  <2> QED
    BY <1>1, <2>1 DEF OK, Walls, Torn, Wall, TornOps, RunOps, Waits
<1>7. \A i \in 0 .. Slots - 1 : b <= i /\ i < Lim(F) => L[i] = None
  BY <1>1, <1>3, <1>6 DEF Cleared
<1>8. ASSUME NEW i \in 0 .. Slots - 1
      PROVE  /\ b <= i /\ i < b + a =>
                  /\ Lim(F) + (i - b) \in 0 .. Slots - 1 /\ Pending(F, a, Lim(F) + (i - b))
                  /\ i <= Lim(F) + (i - b) /\ M[i] = L[Lim(F) + (i - b)] /\ i < Lim(F)
             /\ ~(b <= i /\ i < b + a) /\ Pending(F, a, i) => M[i] = None
             /\ ~(b <= i /\ i < b + a) /\ ~Pending(F, a, i) => M[i] = L[i]
  <2>1. M[i] = IF b <= i /\ i < b + a THEN L[Lim(F) + (i - b)]
               ELSE IF Pending(F, a, i) THEN None ELSE L[i]
    BY DEF Moved
  <2>2. b <= i /\ i < b + a =>
          Lim(F) + (i - b) \in 0 .. Slots - 1 /\ i <= Lim(F) + (i - b) /\ i < Lim(F)
    <3> DEFINE l == Lim(F)
               g == Registers[f]
               h == Registers[F[d].func]
               s == Slots
               c == i - b
    <3> SUFFICES ASSUME b <= i, i < b + a PROVE l + c \in 0 .. s - 1 /\ i <= l + c /\ i < l
      OBVIOUS
    <3>1. /\ s \in Nat /\ b \in Nat /\ g \in Nat /\ a \in Nat /\ h \in Nat /\ l \in Nat
          /\ l = b + h /\ a <= h /\ a <= g /\ l + g <= s /\ i \in 0 .. s - 1
      BY <1>22
    <3>2. c = i - b
      OBVIOUS
    <3> HIDE DEF b, d, l, g, h, s, c
    <3>3. c \in Nat /\ c < a /\ i = b + c
      <4>1. i \in Int /\ b \in Nat /\ a \in Nat /\ b <= i /\ i < b + a
        BY <3>1
      <4> QED
        BY <3>2, <4>1
    <3>4. l + c \in Nat /\ l + c < s /\ i < l
      BY <3>1, <3>3
    <3>5. i <= l + c
      BY <3>1, <3>3
    <3> QED
      BY <3>1, <3>4, <3>5
  <2>3. b <= i /\ i < b + a => Pending(F, a, Lim(F) + (i - b))
    <3> SUFFICES ASSUME b <= i, i < b + a
                 PROVE  Lim(F) <= Lim(F) + (i - b) /\ Lim(F) + (i - b) < Lim(F) + a
      BY DEF Pending
    <3> DEFINE l == Lim(F)
    <3>1. l \in Nat /\ b \in Nat /\ a \in Nat /\ i \in Int
      BY <1>22
    <3> HIDE DEF b, d, l
    <3>2. l <= l + (i - b) /\ l + (i - b) < l + a
      BY <3>1
    <3> QED
      BY <3>2 DEF l
  <2> QED
    BY <2>1, <2>2, <2>3
<1>9. ASSUME NEW i \in 0 .. Slots - 1, IsVar(M[i])
      PROVE  /\ Valid(F, M[i]) /\ M[i].frame \in 1 .. d - 1 /\ F[M[i].frame].base <= i
  <2>1. \A c \in 0 .. Slots - 1 : Holds(F, c, L[c])
    BY <1>1 DEF OK, Held1
  <2>2. CASE b <= i /\ i < b + a
    <3> DEFINE c == Lim(F) + (i - b)
    <3>1. c \in 0 .. Slots - 1 /\ Pending(F, a, c) /\ M[i] = L[c]
      BY <1>8, <2>2
    <3> HIDE DEF c
    <3>2. Valid(F, M[i]) /\ M[i].frame \in 1 .. d /\ M[i].frame # d
      BY <1>9, <2>1, <3>1 DEF Holds, Valid
    <3>3. M[i].frame \in 1 .. d - 1
      BY <1>1, <3>2
    <3>4. F[M[i].frame].base <= b
      <4>1. M[i].frame \in 0 .. d /\ M[i].frame < d /\ d \in 0 .. d /\ M[i].frame \in 1 .. d
        BY <1>1, <3>3
      <4>2. End(F, M[i].frame) <= b /\ F[M[i].frame].base < End(F, M[i].frame)
            /\ End(F, M[i].frame) \in Nat /\ F[M[i].frame].base \in Nat
        BY <1>3, <4>1
      <4> QED
        BY <1>3, <4>2
    <3>5. F[M[i].frame].base \in Nat
      <4>1. M[i].frame \in 1 .. d
        BY <1>1, <3>3
      <4> QED
        BY <1>3, <4>1
    <3>6. F[M[i].frame].base <= i
      <4>1. F[M[i].frame].base \in Int /\ b \in Int /\ i \in Int /\ b <= i
        BY <1>22, <2>2, <3>5
      <4> HIDE DEF b
      <4> QED
        BY <3>4, <4>1, AtMost
    <3> QED
      BY <3>2, <3>3, <3>6
  <2>3. CASE ~(b <= i /\ i < b + a)
    <3>1. ~Pending(F, a, i) /\ M[i] = L[i]
      BY <1>8, <1>9, <2>3 DEF IsVar, None
    <3>2. Valid(F, M[i]) /\ M[i].frame \in 1 .. d /\ F[M[i].frame].base <= i
      BY <1>9, <2>1, <3>1 DEF Holds, Valid
    <3>3. CASE i < b
      <4>1. M[i].frame # d
        BY <1>22, <3>2, <3>3
      <4> QED
        BY <1>1, <3>2, <4>1
    <3>4. CASE b <= i /\ i < Lim(F)
      BY <1>7, <1>9, <3>1, <3>4 DEF IsVar, None
    <3>5. CASE i >= Lim(F)
      <4>1. i >= Start(F, k[n + 1]) /\ Height(k[n + 1]) = d
        BY <1>3, <1>6, <3>5 DEF Start, Height
      <4>2. Passes(k, n + 1, L[i])
        BY <1>6, <3>1, <4>1 DEF Walled
      <4>3. Found(k, n + 1, L[i].frame)
        BY <1>1, <1>9, <3>1, <3>2, <4>1, <4>2 DEF Passes
      <4>4. PICK q \in 1 .. (n + 1) - 1 : k[q].op = "drain" /\ L[i].frame <= k[q].frame
        BY <4>3 DEF Found
      <4>5. q \in 1 .. n
        OBVIOUS
      <4> QED
        BY <1>1, <1>5, <3>1, <3>2, <4>4, <4>5
    <3> QED
      BY <1>3, <3>2, <3>3, <3>4, <3>5
  <2> QED
    BY <2>2, <2>3
<1>10. ASSUME NEW v, Valid(F, v), IsVar(v) => v.frame < d PROVE Valid(G, v)
  <2> SUFFICES ASSUME IsVar(v) PROVE Valid(G, v)
    BY DEF Valid
  <2>1. v.frame \in 1 .. d - 1 /\ v.frame \in 0 .. d - 1 /\ Len(G) = d /\ v.frame \in 1 .. d
    BY <1>1, <1>10 DEF Valid
  <2> QED
    BY <1>2, <1>4, <1>10, <2>1 DEF Valid
<1>11. Layout(G)
  <2>1. ASSUME NEW e \in 1 .. d
        PROVE  /\ IsFrame(G[e]) /\ G[e].func \in Functions /\ G[e].base \in Nat
               /\ G[e].base = End(G, e - 1)
               /\ \A c \in e + 1 .. d : End(G, e) <= G[c].base
               /\ e > 1 => G[e].dst \in 0 .. Registers[G[e - 1].func] - 1
    <3>1. /\ e - 1 \in 0 .. d - 1 /\ (e # d => e \in 1 .. d - 1 /\ e \in 0 .. d - 1)
          /\ (e > 1 => e - 1 \in 1 .. d - 1)
          /\ \A c \in e + 1 .. d : c \in 1 .. d /\ e # d
      BY <1>1
    <3>2. /\ IsFrame(F[e]) /\ F[e].func \in Functions /\ F[e].base \in Nat
          /\ F[e].base = End(F, e - 1)
          /\ \A c \in e + 1 .. d : End(F, e) <= F[c].base
          /\ e > 1 => F[e].dst \in 0 .. Registers[F[e - 1].func] - 1
      BY <1>1 DEF Layout
    <3>3. G[e].func \in Functions
      BY <1>2, <3>1, <3>2
    <3> QED
      BY <1>2, <1>4, <3>1, <3>2, <3>3
  <2> QED
    BY <1>1, <2>1 DEF Layout
<1>12. Held1(G, M)
  <2>1. ASSUME NEW i \in 0 .. Slots - 1 PROVE Holds(G, i, M[i])
    <3>1. CASE ~IsVar(M[i])
      BY <3>1 DEF Holds, Valid
    <3>2. CASE IsVar(M[i])
      <4>1. Valid(F, M[i]) /\ M[i].frame \in 1 .. d - 1 /\ F[M[i].frame].base <= i
            /\ M[i].frame < d /\ M[i].frame \in 1 .. d
        BY <1>1, <1>9, <3>2
      <4>2. Valid(G, M[i])
        BY <1>10, <4>1
      <4> QED
        BY <1>2, <4>1, <4>2 DEF Holds
    <3> QED
      BY <3>1, <3>2
  <2> QED
    BY <2>1 DEF Held1, Moved
<1>13. ASSUME NEW p \in 1 .. n
       PROVE  /\ j[p] = k[p] /\ p \in 1 .. n + 1
              /\ Torn(j, n, p) <=> Torn(k, n + 1, p)
              /\ Wall(j, n, p) <=> Wall(k, n + 1, p)
  <2>1. \A q \in p + 1 .. n : q \in p + 1 .. n + 1 /\ j[q] = k[q]
    OBVIOUS
  <2>2. \A q \in p + 1 .. n + 1 : q = n + 1 \/ q \in p + 1 .. n
    OBVIOUS
  <2>3. Torn(j, n, p) <=> Torn(k, n + 1, p)
    BY <2>1, <2>2 DEF Torn
  <2> QED
    BY <2>3 DEF Wall
<1>14. \A p \in 1 .. n : \A v : Passes(j, p, v) <=> Passes(k, p, v)
  BY SamePasses
<1>15. \A p \in 1 .. n : \A e : Found(j, p, e) <=> Found(k, p, e)
  BY SamePasses
<1>16. ASSUME NEW p \in 1 .. n PROVE Called1(G, j, n, p)
  <2>1. Called1(F, k, n + 1, p)
    BY <1>1, <1>13 DEF OK
  <2>2. Below(j, p)
    <3>1. \A q \in 1 .. p - 1 : q \in 1 .. n
      OBVIOUS
    <3>2. \A q \in 1 .. p - 1 : j[q] = k[q] /\ \A r \in q + 1 .. p - 1 : j[r] = k[r]
      <4>1. ASSUME NEW q \in 1 .. p - 1, NEW r \in q + 1 .. p - 1 PROVE r \in 1 .. n
        OBVIOUS
      <4> QED
        BY <1>13, <3>1, <4>1
    <3>3. Below(k, p) /\ j[p] = k[p]
      BY <1>13, <2>1 DEF Called1
    <3> QED
      BY <3>2, <3>3 DEF Below
  <2>3. Placed(F, k, n + 1, p)
    BY <2>1 DEF Called1
  <2>4. k[p].op \in RunOps => k[p].depth < d
    BY <1>1, <1>5
  <2>5. Placed(G, j, n, p)
    <3>1. ASSUME k[p].op = "run", k[p].depth < d PROVE G[k[p].depth + 1].dst = 0
      <4>1. k[p].depth \in 0 .. d - 1
        BY <1>5, <3>1 DEF RunOps
      <4>2. k[p].depth + 1 \in 1 .. d
        BY <1>1, <3>1, <4>1
      <4> QED
        BY <1>2, <2>3, <3>1, <4>2 DEF Placed
    <3>2. /\ k[p].op \in TornOps \cup {"drain", "result"} => k[p].frame <= d
          /\ k[p].op = "result" /\ k[p].frame >= 1 => G[k[p].frame] = F[k[p].frame]
          /\ k[p].op = "tailcall" => G[k[p].frame] = F[k[p].frame]
      <4>1. k[p].op = "result" /\ k[p].frame >= 1 => k[p].frame \in 1 .. d - 1
        BY <1>1, <1>5
      <4>2. k[p].op = "tailcall" => k[p].op \in TornOps
        BY DEF TornOps
      <4>3. k[p].op \in TornOps \cup {"drain", "result"} => k[p].frame <= d
        BY <1>1, <1>5
      <4> QED
        BY <1>2, <1>5, <4>1, <4>2, <4>3
    <3>3. j[p] = k[p]
      BY <1>13
    <3> HIDE DEF d
    <3> QED
      BY <1>1, <2>3, <2>4, <3>1, <3>2, <3>3 DEF Placed
  <2>6. Covered(G, j, n, p)
    <3> SUFFICES ASSUME k[p].op \in TornOps, ~Torn(k, n + 1, p)
                 PROVE  \E q \in p + 1 .. n :
                          /\ Covers(G, j[p], j[q])
                          /\ \A r \in p + 1 .. q - 1 : j[r].op \in TeardownOps
      BY <1>13 DEF Covered
    <3>1. PICK q \in p + 1 .. n + 1 : /\ Covers(F, k[p], k[q])
                                      /\ \A r \in p + 1 .. q - 1 : k[r].op \in TeardownOps
      BY <2>1 DEF Called1, Covered
    <3>2. q # n + 1
      BY <3>1 DEF Covers
    <3>3. q \in p + 1 .. n /\ q \in 1 .. n
      BY <3>2
    <3>4. \A r \in p + 1 .. q - 1 : r \in 1 .. n
      BY <3>3
    <3>5. G[k[p].frame] = F[k[p].frame] /\ End(G, k[p].frame) = End(F, k[p].frame)
      <4>1. k[p].frame \in 1 .. d - 1
        BY <1>5
      <4>2. k[p].frame \in 0 .. d - 1
        BY <1>1, <4>1
      <4> QED
        BY <1>2, <1>4, <4>1, <4>2
    <3>6. Covers(G, j[p], j[q])
      BY <1>13, <3>1, <3>3, <3>5 DEF Covers
    <3>7. \A r \in p + 1 .. q - 1 : j[r].op \in TeardownOps
      BY <1>13, <3>1, <3>4
    <3> QED
      BY <3>3, <3>6, <3>7
  <2>7. Carries(G, j[p])
    <3>1. Carries(F, k[p]) /\ j[p] = k[p]
      BY <1>13, <2>1 DEF Called1
    <3> QED
      BY <1>5, <1>10, <3>1 DEF Carries
  <2> QED
    BY <2>2, <2>5, <2>6, <2>7 DEF Called1
<1>17. ASSUME NEW p \in 1 .. n, Wall(k, n + 1, p)
       PROVE  /\ Start(F, k[p]) \in Int /\ Start(F, k[p]) <= b
              /\ \A i \in 0 .. Slots - 1 : i >= Start(F, k[p]) => Passes(k, p, L[i])
              /\ \A i \in 0 .. Slots - 1 : i >= Start(F, k[p]) => Passes(k, p, M[i])
  <2>1. Walled(F, L, a, k, n + 1, p)
    BY <1>1, <1>13 DEF OK, Walls
  <2>2. k[p].op \in TornOps => ~NoRun(k, p, n + 1)
    <3>1. k[p].op \in TornOps => n \in p + 1 .. n + 1
      BY DEF TornOps, TeardownOps
    <3> QED
      BY <3>1 DEF NoRun, RunOps
  <2>3. \A i \in 0 .. Slots - 1 : i >= Start(F, k[p]) => Passes(k, p, L[i])
    BY <1>17, <2>1, <2>2 DEF Walled
  <2>4. Start(F, k[p]) \in Int /\ Start(F, k[p]) <= b
    <3>1. CASE k[p].op \in RunOps
      <4>1. k[p].depth \in 0 .. d /\ k[p].depth < d /\ d \in 0 .. d
        <5>1. k[p].depth \in 0 .. d - 1 /\ d \in Nat
          BY <1>1, <1>5, <3>1
        <5> HIDE DEF d
        <5> QED
          BY <5>1
      <4>2. End(F, k[p].depth) \in Nat
        BY <1>3, <4>1
      <4>3. End(F, k[p].depth) <= b
        BY <1>3, <4>1
      <4> QED
        BY <3>1, <4>2, <4>3 DEF Start
    <3>2. CASE k[p].op \notin RunOps
      <4>1. k[p].frame \in 1 .. d - 1
        BY <1>5, <1>17, <3>2 DEF Wall, Torn
      <4>2. k[p].frame \in 1 .. d /\ k[p].frame \in 0 .. d /\ k[p].frame < d /\ d \in 0 .. d
        BY <1>1, <4>1
      <4>3. /\ F[k[p].frame].base \in Nat /\ F[k[p].frame].base < End(F, k[p].frame)
            /\ End(F, k[p].frame) <= b /\ End(F, k[p].frame) \in Nat
        BY <1>3, <4>2
      <4>4. Start(F, k[p]) = F[k[p].frame].base
        BY <3>2 DEF Start
      <4> QED
        BY <1>3, <4>3, <4>4
    <3> QED
      BY <3>1, <3>2
  <2>5. ASSUME NEW i \in 0 .. Slots - 1, i >= Start(F, k[p]) PROVE Passes(k, p, M[i])
    <3>1. CASE b <= i /\ i < b + a
      <4> DEFINE c == Lim(F) + (i - b)
      <4>1. c \in 0 .. Slots - 1 /\ i <= c /\ M[i] = L[c]
        BY <1>8, <3>1
      <4> HIDE DEF c
      <4>2. c >= Start(F, k[p])
        BY <2>4, <2>5, <4>1
      <4> QED
        BY <2>3, <4>1, <4>2
    <3>2. CASE ~(b <= i /\ i < b + a)
      <4>1. M[i] = None \/ M[i] = L[i]
        BY <1>8, <3>2
      <4> QED
        BY <2>3, <2>5, <4>1 DEF Passes, IsVar, None
    <3> QED
      BY <3>1, <3>2
  <2> QED
    BY <2>3, <2>4, <2>5
<1>18. \A i \in 0 .. Slots - 1 : i < b => M[i] = L[i]
  <2>1. \A i \in 0 .. Slots - 1 : i < b => ~(b <= i /\ i < b + a) /\ ~Pending(F, a, i)
    BY <1>1, <1>3 DEF Pending
  <2> QED
    BY <1>8, <2>1
<1>19. ASSUME NEW p \in 1 .. n PROVE Walls(G, M, 0, j, n, p)
  <2>1. Walled(F, L, a, k, n + 1, p) /\ Cleared(F, L, k, n + 1, p) /\ Zero(F, L, k, n + 1, p)
    BY <1>1, <1>13 DEF OK, Walls
  <2>2. /\ k[p].op \in RunOps => End(G, k[p].depth) = End(F, k[p].depth)
        /\ k[p].op \in TornOps => /\ G[k[p].frame] = F[k[p].frame]
                                  /\ End(G, k[p].frame) = End(F, k[p].frame)
                                  /\ End(F, k[p].frame) <= b
        /\ k[p].op \in RunOps /\ k[p].depth >= 1 =>
             G[k[p].depth] = F[k[p].depth] /\ F[k[p].depth].base < b
    <3>1. /\ k[p].op \in RunOps => k[p].depth \in 0 .. d - 1
          /\ k[p].op \in RunOps /\ k[p].depth >= 1 =>
               k[p].depth \in 1 .. d - 1 /\ k[p].depth \in 1 .. d /\ k[p].depth \in 0 .. d
          /\ k[p].op \in TornOps => k[p].frame \in 1 .. d - 1 /\ k[p].frame \in 0 .. d - 1
                                    /\ k[p].frame \in 0 .. d
          /\ d \in 0 .. d
      BY <1>1, <1>5
    <3>2. k[p].op \in RunOps /\ k[p].depth >= 1 =>
            F[k[p].depth].base < b
      <4>1. k[p].op \in RunOps /\ k[p].depth >= 1 =>
              /\ F[k[p].depth].base < End(F, k[p].depth) /\ End(F, k[p].depth) <= b
              /\ F[k[p].depth].base \in Nat /\ End(F, k[p].depth) \in Nat
        <5>1. \A e \in 1 .. d : /\ F[e].base < End(F, e) /\ F[e].base \in Nat
                                /\ e \in 0 .. d - 1 => End(F, e) <= b /\ End(F, e) \in Nat
          <6>1. \A e \in 0 .. d - 1 : e < d /\ e \in 0 .. d /\ d \in 0 .. d
            BY <1>1
          <6> QED
            BY <1>3, <6>1
        <5> QED
          BY <3>1, <5>1
      <4> SUFFICES ASSUME k[p].op \in RunOps, k[p].depth >= 1
                   PROVE  F[k[p].depth].base < b
        OBVIOUS
      <4>2. /\ F[k[p].depth].base < End(F, k[p].depth) /\ End(F, k[p].depth) <= b
            /\ F[k[p].depth].base \in Nat /\ End(F, k[p].depth) \in Nat
        BY <4>1
      <4>3. b \in Nat
        BY <1>22
      <4> DEFINE x == F[k[p].depth].base
                 y == End(F, k[p].depth)
      <4>4. x < y /\ y <= b /\ x \in Int /\ y \in Int /\ b \in Int
        BY <4>2, <4>3
      <4> HIDE DEF b, d, x, y
      <4>5. x < b
        BY <4>4
      <4> QED
        BY <4>5 DEF x
    <3>3. k[p].op \in TornOps => End(F, k[p].frame) <= b
      BY <1>3, <3>1
    <3> QED
      BY <1>2, <1>4, <3>1, <3>2, <3>3
  <2>3. Wall(k, n + 1, p) => Start(G, k[p]) = Start(F, k[p])
    BY <2>2 DEF Start, Wall, Torn
  <2>4. j[p] = k[p] /\ \A q \in p + 1 .. n : j[q] = k[q] /\ q \in p + 1 .. n + 1
    BY <1>13
  <2>5. Walled(G, M, 0, j, n, p)
    BY <1>13, <1>14, <1>17, <2>1, <2>3, <2>4 DEF Walled
  <2>6. Cleared(G, M, j, n, p)
    <3>1. Torn(k, n + 1, p) => k[p].op \in TornOps /\ End(F, k[p].frame) \in Nat
      <4>1. Torn(k, n + 1, p) => k[p].op \in TornOps
        BY DEF Torn
      <4>2. k[p].op \in TornOps => k[p].frame \in 0 .. d
        BY <1>1, <1>5
      <4> QED
        BY <1>3, <4>1, <4>2
    <3>2. Torn(k, n + 1, p) =>
            \A i \in 0 .. Slots - 1 : F[k[p].frame].base <= i /\ i < End(F, k[p].frame)
              => L[i] = None
      BY <1>6, <2>1 DEF Cleared
    <3>3. Torn(k, n + 1, p) =>
            \A i \in 0 .. Slots - 1 : F[k[p].frame].base <= i /\ i < End(F, k[p].frame)
              => M[i] = None
      <4> SUFFICES ASSUME Torn(k, n + 1, p), NEW i \in 0 .. Slots - 1,
                          F[k[p].frame].base <= i, i < End(F, k[p].frame)
                   PROVE  M[i] = None
        OBVIOUS
      <4>1. End(F, k[p].frame) <= b /\ End(F, k[p].frame) \in Nat /\ b \in Nat
        BY <1>22, <2>2, <3>1
      <4>2. i < b
        <5> HIDE DEF b, d
        <5> QED
          BY <4>1
      <4>3. M[i] = L[i]
        BY <1>18, <4>2
      <4> QED
        BY <3>2, <4>3
    <3> QED
      BY <1>13, <2>1, <2>2, <2>4, <3>1, <3>3 DEF Cleared
  <2>7. Zero(G, M, j, n, p)
    <3> SUFFICES ASSUME k[p].op = "run", k[p].depth >= 1, ~Found(k, p, k[p].depth)
                 PROVE  M[F[k[p].depth].base] = None
      BY <1>15, <2>2, <2>4 DEF Zero, RunOps
    <3>1. p # n + 1
      OBVIOUS
    <3>2. L[F[k[p].depth].base] = None
      BY <2>1, <3>1 DEF Zero
    <3>3. k[p].depth \in 1 .. d
      BY <1>1, <1>5 DEF RunOps
    <3>4. F[k[p].depth].base \in 0 .. Slots - 1
      BY <1>1, <3>3, Framed1
    <3>5. F[k[p].depth].base < b
      BY <2>2 DEF RunOps
    <3> QED
      BY <1>18, <3>2, <3>4, <3>5
  <2> QED
    BY <2>5, <2>6, <2>7 DEF Walls
<1>20. OK(G, M, 0, j, n)
  <2>1. Lim(G) <= Slots
    <3> DEFINE g == Registers[f]
               l == Lim(F)
               m == Lim(G)
               h == Registers[F[d].func]
    <3>1. /\ b \in Nat /\ g \in Nat /\ h \in Nat /\ Slots \in Nat
          /\ l = b + h /\ m = b + g /\ l + g <= Slots
      BY <1>22
    <3> HIDE DEF b, d, g, l, m, h
    <3>2. m <= Slots
      BY <3>1
    <3> QED
      BY <3>2 DEF m
  <2> QED
    BY <1>11, <1>12, <1>16, <1>19, <2>1 DEF OK
<1>21. Occupied(G, M, 0, j, n)
  <2>1. Occupied(F, L, a, j, n)
    BY <1>1, <1>3, <1>6, PopOccupied DEF Drops
  <2>2. \A e : ~Waits(F, j, n, 0)
    BY <1>1 DEF Waits
  <2>3. \A p \in 1 .. n, i \in 0 .. Slots - 1 : Drops(F, j, n, p, i) => Drops(G, j, n, p, i)
    BY <1>13 DEF Drops
  <2>4. ASSUME NEW i \in 0 .. Slots - 1, i >= Lim(G), M[i] # None
        PROVE  i >= Lim(F) /\ M[i] = L[i] /\ ~Pending(F, a, i)
    <3>1. ~(b <= i /\ i < b + a) /\ b <= i
      <4>1. i >= Lim(G) /\ Lim(G) = b + Registers[f]
        BY <1>22, <2>4
      <4> DEFINE g == Registers[f]
      <4>2. b \in Nat /\ a \in Nat /\ g \in Nat /\ a <= g /\ i \in Int
        BY <1>22
      <4>3. i >= b + g
        BY <4>1
      <4> HIDE DEF b, d, g
      <4> QED
        BY <4>2, <4>3
    <3>2. M[i] = L[i] /\ ~Pending(F, a, i)
      BY <1>8, <2>4, <3>1
    <3> QED
      BY <1>3, <1>7, <2>4, <3>1, <3>2
  <2>5. ASSUME NEW i \in 0 .. Slots - 1, i >= Lim(G), M[i] # None
        PROVE  \E p \in 1 .. n : Drops(G, j, n, p, i) /\ Open(j, n, p, M[i])
    <3>1. \E p \in 1 .. n : Drops(F, j, n, p, i) /\ Open(j, n, p, L[i])
      BY <2>1, <2>2, <2>4, <2>5 DEF Occupied
    <3> QED
      BY <2>3, <2>4, <2>5, <3>1
  <2> QED
    BY <2>5 DEF Occupied
<1> QED
  BY <1>20, <1>21 DEF Sound, Bottom

-------------------------------------------------------------------------------
(* A visit and a collection go on *)

LEMMA SwapTop ==
  ASSUME NEW F, NEW L, NEW a, NEW k, NEW n \in Nat, Sound(F, L, a, k, n), n >= 1,
         k[n].op \in {"visit", "drain"}, NEW j, \A p \in 1 .. n - 1 : j[p] = k[p],
         IsCall(j[n]), j[n].op = k[n].op, j[n].frame = k[n].frame
  PROVE  Sound(F, L, a, j, n)
<1>1. /\ OK(F, L, a, k, n) /\ Occupied(F, L, a, k, n) /\ Bottom(F, n)
      /\ n \in 1 .. n /\ Called1(F, k, n, n) /\ Walls(F, L, a, k, n, n)
  BY DEF Sound, OK
<1>2. k[n].op \notin RunOps /\ k[n].op \notin {"result", "unwind", "clear", "ffi"}
      /\ Temporary(j[n]) = None /\ Temporary(k[n]) = None
  BY DEF RunOps, Temporary
<1>3. Strict(F, k, n)
  BY <1>1, <1>2, StrictRuns
<1>4. \A q \in (n - 1) + 1 .. n : q = n
  OBVIOUS
<1>5. \A p \in 1 .. n : \A v : Passes(k, p, None)
  BY DEF Passes, IsVar, None
<1>6. \A p \in 1 .. n - 1 : p \in 1 .. n /\ j[p] = k[p]
  OBVIOUS
<1>7. Others(F, L, a, k, n, j, n, n - 1)
  <2>1. n - 1 \in Nat /\ n - 1 <= n
    OBVIOUS
  <2>2. \A p \in 1 .. n - 1 : k[p].op \in RunOps => k[p].depth < Len(F)
    BY <1>3, <1>6 DEF Strict
  <2>3. ~Waits(F, k, n, Len(F))
    BY <1>2 DEF Waits, RunOps
  <2> QED
    BY <1>2, <1>4, <1>5, <1>6, <2>1, <2>2, <2>3 DEF Others
<1>8. \A v : Passes(j, n, v) <=> Passes(k, n, v)
  <2>1. Height(j[n]) = Height(k[n])
    BY <1>2 DEF Height
  <2>2. \A e : Found(j, n, e) <=> Found(k, n, e)
    BY <1>6 DEF Found
  <2> QED
    BY <2>1, <2>2 DEF Passes
<1>9. Called1(F, j, n, n)
  <2>1. Below(j, n)
    <3>1. \A q \in 1 .. n - 1 : \A r \in q + 1 .. n - 1 : j[r] = k[r]
      BY <1>6
    <3>2. \A z : /\ BelowTorn(k[n], z) => BelowTorn(j[n], z)
                 /\ BelowOther(k[n], z) => BelowOther(j[n], z)
      BY DEF BelowTorn, BelowOther
    <3> QED
      BY <1>1, <1>2, <1>6, <3>1, <3>2 DEF Called1, Below
  <2>2. Placed(F, j, n, n)
    <3>1. n = 1 => After(j[n]) = 0
      BY <1>1 DEF Called1, Placed, After, FloorOps, RunOps
    <3> QED
      BY <1>1, <1>2, <3>1 DEF Called1, Placed, TornOps, TeardownOps
  <2>3. Covered(F, j, n, n)
    BY DEF Covered, Torn
  <2>4. Carries(F, j[n])
    BY <1>2 DEF Carries, Valid, IsVar, None
  <2> QED
    BY <2>1, <2>2, <2>3, <2>4 DEF Called1
<1>10. Walls(F, L, a, j, n, n)
  <2>1. /\ Wall(j, n, n) <=> Wall(k, n, n)
        /\ Torn(j, n, n) <=> Torn(k, n, n)
        /\ j[n].op \in TornOps <=> k[n].op \in TornOps
        /\ Start(F, j[n]) = Start(F, k[n])
        /\ NoRun(j, n, n) <=> NoRun(k, n, n)
        /\ \A q \in n + 1 .. n : FALSE
    BY <1>2 DEF Wall, Torn, Start, NoRun
  <2>2. Walled(F, L, a, j, n, n)
    BY <1>1, <1>8, <2>1 DEF Walls, Walled
  <2>3. \A d : ~Waits(F, k, n, d)
    BY <1>2 DEF Waits, RunOps
  <2>4. Cleared(F, L, j, n, n)
    BY <1>1, <2>1, <2>3 DEF Walls, Cleared
  <2>5. Zero(F, L, j, n, n)
    BY <1>2 DEF Zero, RunOps
  <2> QED
    BY <2>2, <2>4, <2>5 DEF Walls
<1>11. OK(F, L, a, j, n)
  <2>1. \A p \in (n - 1) + 1 .. n : Called1(F, j, n, p) /\ Walls(F, L, a, j, n, p)
    BY <1>4, <1>9, <1>10
  <2> QED
    BY <1>1, <1>7, <2>1, OthersOK
<1>12. Occupied(F, L, a, j, n)
  <2> SUFFICES ASSUME NEW i \in 0 .. Slots - 1, i >= Lim(F), L[i] # None
               PROVE  \/ Pending(F, a, i)
                      \/ i = 0 /\ Waits(F, j, n, 0)
                      \/ \E p \in 1 .. n : Drops(F, j, n, p, i) /\ Open(j, n, p, L[i])
    BY DEF Occupied
  <2>1. ~Waits(F, k, n, 0)
    BY <1>2 DEF Waits, RunOps
  <2>2. CASE \E p \in 1 .. n : Drops(F, k, n, p, i) /\ Open(k, n, p, L[i])
    <3>1. PICK p \in 1 .. n : Drops(F, k, n, p, i) /\ Open(k, n, p, L[i])
      BY <2>2
    <3>2. \A q \in 1 .. n : j[q].op = k[q].op /\ (k[q].op = "drain" => j[q].frame = k[q].frame)
      <4>1. \A q \in 1 .. n : q = n \/ q \in 1 .. n - 1
        OBVIOUS
      <4> QED
        BY <1>6, <4>1
    <3>3. p # n
      BY <1>2, <3>1 DEF Drops
    <3>4. Drops(F, j, n, p, i)
      <4>1. j[p] = k[p]
        BY <3>3
      <4> QED
        BY <3>1, <3>3, <4>1 DEF Drops
    <3>5. \A q \in p + 1 .. n : q \in 1 .. n /\ (NoRun(k, p, q) => NoRun(j, p, q))
      <4>1. \A q \in p + 1 .. n : q \in 1 .. n
        OBVIOUS
      <4>2. \A q \in p + 1 .. n : \A r \in p + 1 .. q : r \in 1 .. n
        OBVIOUS
      <4> QED
        BY <3>2, <4>1, <4>2 DEF NoRun
    <3>6. NoRun(k, p, n) => NoRun(j, p, n)
      <4>1. \A r \in p + 1 .. n : r \in 1 .. n
        OBVIOUS
      <4> QED
        BY <3>2, <4>1 DEF NoRun
    <3>7. Open(j, n, p, L[i])
      BY <3>1, <3>2, <3>5, <3>6 DEF Open
    <3> QED
      BY <3>4, <3>7
  <2> QED
    BY <1>1, <2>1, <2>2 DEF Occupied
<1> QED
  BY <1>1, <1>11, <1>12 DEF Sound
=============================================================================
