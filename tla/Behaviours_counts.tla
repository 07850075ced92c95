--------------------------- MODULE Behaviours_counts ---------------------------
(***************************************************************************)
(* For any set of behaviours: the count of a cown is the references to it, *)
(* a cown is destroyed once, when its count is 0, and a behaviour finds    *)
(* the results it asked for in the cowns it gets.                          *)
(*                                                                         *)
(* The first part counts: the registers of a behaviour that count a cown   *)
(* are, by the handle they hold, three numbers, and when one behaviour's   *)
(* registers change the total changes by as much.  The invariant then adds *)
(* to the one of Behaviours_proofs what keeps the equation: a behaviour    *)
(* that does not run holds nothing, a result is empty until its behaviour  *)
(* returns, and nothing is counted for a cown that is not there.           *)
(***************************************************************************)
EXTENDS Behaviours_proofs, FiniteSetTheorems

\* Counts and its size, for the registers f of one behaviour.
CountsOf(f, c) ==
  {r \in UNION {{h} \X (1..f[h]) : h \in {k \in Handle : f[k] > 0}} :
     r[1].cown = c /\ Counted(r[1])}
CountOf(f, c) ==
  f[CownValue(c, TRUE)] + f[CownValue(c, FALSE)] + f[CownRef(c, FALSE)]

\* The counts that the registers F of all behaviours hold on c.
AllCounts(F, c) == UNION {{b} \X CountsOf(F[b], c) : b \in Behavior}
Total(F, c) == Cardinality(AllCounts(F, c))

\* Those that behaviours other than b hold.
OtherCounts(F, c, b) == UNION {{x} \X CountsOf(F[x], c) : x \in Behavior \ {b}}

\* Program::run counts the result of main.
Kept(c) == IF ret /\ c = Main THEN 1 ELSE 0

\* Only a behaviour that is scheduled has registers.
IdleHoldNothing ==
  \A b \in Behavior : phase[b] \notin {"queued", "running"} => regs[b] = NoRegs

\* What a reference to write refers to has been made: a behaviour's own result, above
\* all, is not written to through a register.
HeldRefsDone ==
  \A b \in Behavior : \A c \in Cown : regs[b][WRef(c)] > 0 => phase[c] = "done"

\* A result is empty until its behaviour has returned, and then not until it
\* is destroyed.
WrittenOnce ==
  \A c \in Cown :
    /\ phase[c] \in {"unborn", "queued", "running"} => content[c] = Empty
    /\ phase[c] \in {"returned", "done"} /\ content[c] = Empty => c \in destroyed

\* Nothing counts a cown before it is there, and what is not scheduled asks for none.
UnbornUncounted ==
  /\ phase[Main] # "unborn"
  /\ \A c \in Cown : phase[c] = "unborn" => rc[c] = 0
  /\ \A b \in Behavior : \A c \in Cown : access[b][c] = "read" => phase[b] # "unborn"

CountInv ==
  /\ IInv
  /\ TypeOK
  /\ IdleHoldNothing
  /\ HeldRefsDone
  /\ WrittenOnce
  /\ UnbornUncounted
  /\ CownRcExact
  /\ DestroyedExactly

-------------------------------------------------------------------------------
(* Counting registers *)

\* n registers that hold h.
LEMMA CopiesFinite ==
  ASSUME NEW h, NEW n \in Nat
  PROVE  /\ IsFiniteSet({h} \X (1..n))
         /\ Cardinality({h} \X (1..n)) = n
<1>1. IsFiniteSet(1..n) /\ Cardinality(1..n) = n
  BY FS_Interval
<1>2. IsFiniteSet({h}) /\ Cardinality({h}) = 1
  BY FS_Singleton
<1> QED
  BY <1>1, <1>2, FS_Product

\* A set whose members are named by their owner.
LEMMA OwnedFinite ==
  ASSUME NEW b, NEW S, IsFiniteSet(S)
  PROVE  /\ IsFiniteSet({b} \X S)
         /\ Cardinality({b} \X S) = Cardinality(S)
<1>1. Cardinality(S) \in Nat
  BY FS_CardinalityType
<1>2. IsFiniteSet({b}) /\ Cardinality({b}) = 1
  BY FS_Singleton
<1> QED
  BY <1>1, <1>2, FS_Product

\* Two disjoint sets together.
LEMMA DisjointUnion ==
  ASSUME NEW S, NEW T, IsFiniteSet(S), IsFiniteSet(T), S \cap T = {}
  PROVE  /\ IsFiniteSet(S \cup T)
         /\ Cardinality(S \cup T) = Cardinality(S) + Cardinality(T)
         /\ Cardinality(S) \in Nat /\ Cardinality(T) \in Nat
BY FS_Union, FS_EmptySet, FS_CardinalityType

\* Three values can be held that count a cown; the registers are counted by them.
LEMMA CountIsSum ==
  ASSUME NEW f \in [Handle -> Nat], NEW c \in Cown
  PROVE  /\ IsFiniteSet(CountsOf(f, c))
         /\ Cardinality(CountsOf(f, c)) = CountOf(f, c)
         /\ CountOf(f, c) \in Nat
<1> DEFINE h1 == CownValue(c, TRUE)   h2 == CownValue(c, FALSE)
           h3 == CownRef(c, FALSE)
           S(h) == {h} \X (1..f[h])
<1>1. /\ h1 \in Handle /\ h2 \in Handle /\ h3 \in Handle
      /\ h1 # h2 /\ h1 # h3 /\ h2 # h3
      /\ \A h \in {h1, h2, h3} : h.cown = c /\ Counted(h)
  BY DEF Handle, CownValue, CownRef, Counted
<1>2. \A h \in Handle : h.cown = c /\ Counted(h) => h \in {h1, h2, h3}
  BY DEF Handle, CownValue, CownRef, Counted
<1> HIDE DEF h1, h2, h3
<1>3. CountsOf(f, c) = S(h1) \cup (S(h2) \cup S(h3))
  <2>1. ASSUME NEW r \in CountsOf(f, c)
        PROVE  r \in S(h1) \cup (S(h2) \cup S(h3))
    <3>1. PICK h \in Handle : r \in {h} \X (1..f[h])
      BY DEF CountsOf
    <3>2. r[1] = h /\ r[1].cown = c /\ Counted(r[1])
      BY <3>1 DEF CountsOf
    <3> QED
      BY <3>1, <3>2, <1>2
  <2>2. ASSUME NEW h \in {h1, h2, h3}, NEW r \in S(h)
        PROVE  r \in CountsOf(f, c)
    <3>1. r \in {h} \X (1..f[h]) /\ h \in Handle /\ r[1] = h
      BY <2>2, <1>1
    <3>2. f[h] > 0
      BY <3>1
    <3> QED
      BY <2>2, <3>1, <3>2, <1>1 DEF CountsOf
  <2> QED
    BY <2>1, <2>2
<1>4. ASSUME NEW h \in {h1, h2, h3}
      PROVE  IsFiniteSet(S(h)) /\ Cardinality(S(h)) = f[h]
  <2>1. f[h] \in Nat
    BY <1>1
  <2> QED
    BY <2>1, CopiesFinite
<1>5. \A h, k : h # k => S(h) \cap S(k) = {}
  OBVIOUS
<1> HIDE DEF S
<1>6. /\ IsFiniteSet(S(h2) \cup S(h3))
      /\ Cardinality(S(h2) \cup S(h3)) = f[h2] + f[h3]
  BY <1>1, <1>4, <1>5, DisjointUnion
<1>7. /\ IsFiniteSet(CountsOf(f, c))
      /\ Cardinality(CountsOf(f, c)) = f[h1] + (f[h2] + f[h3])
  <2> DEFINE T == S(h2) \cup S(h3)
             n == f[h2] + f[h3]
  <2>1. S(h1) \cap T = {}
    BY <1>1, <1>5
  <2>2. IsFiniteSet(T) /\ Cardinality(T) = n
    BY <1>6
  <2>3. CountsOf(f, c) = S(h1) \cup T
    BY <1>3
  <2>4. IsFiniteSet(S(h1)) /\ Cardinality(S(h1)) = f[h1]
    BY <1>4
  <2> HIDE DEF T, n
  <2>5. /\ IsFiniteSet(S(h1) \cup T)
        /\ Cardinality(S(h1) \cup T) = Cardinality(S(h1)) + Cardinality(T)
    BY <2>1, <2>2, <2>4, DisjointUnion
  <2>6. Cardinality(S(h1) \cup T) = f[h1] + n
    BY <2>2, <2>4, <2>5
  <2> QED
    BY <2>3, <2>5, <2>6 DEF n
<1>8. CountOf(f, c) = f[h1] + f[h2] + f[h3]
  BY DEF CountOf, h1, h2, h3
<1> QED
  BY <1>1, <1>7, <1>8

\* The module's counts are these.
LEMMA CountsAgree ==
  \A b \in Behavior, c \in Cown :
    /\ Counts(b, c) = CountsOf(regs[b], c)
    /\ (Counts(b, c))' = CountsOf(regs'[b], c)
BY DEF Counts, Registers, Values, CountsOf

LEMMA AllCountsFinite ==
  ASSUME NEW F \in [Behavior -> [Handle -> Nat]], NEW c \in Cown, NEW B \in SUBSET Behavior
  PROVE  IsFiniteSet(UNION {{b} \X CountsOf(F[b], c) : b \in B})
<1> DEFINE T(b) == {b} \X CountsOf(F[b], c)
           image == {T(b) : b \in B}
<1>1. IsFiniteSet(B)
  BY BehaviourAssumption, FS_Subset
<1>2. IsFiniteSet(image)
  <2> DEFINE f == [b \in B |-> T(b)]
  <2>1. f \in Surjection(B, image)
    BY DEF Surjection
  <2> QED
    BY <1>1, <2>1, FS_Surjection
<1>3. \A b \in B : IsFiniteSet(T(b))
  BY CountIsSum, FS_Singleton, FS_Product
<1>4. \A S \in image : IsFiniteSet(S)
  BY <1>3
<1> QED
  BY <1>2, <1>4, FS_UNION

\* The registers of one behaviour, apart from the others.
LEMMA TotalSplit ==
  ASSUME NEW F \in [Behavior -> [Handle -> Nat]], NEW c \in Cown, NEW b \in Behavior
  PROVE  /\ Total(F, c) = Cardinality(OtherCounts(F, c, b)) + CountOf(F[b], c)
         /\ Cardinality(OtherCounts(F, c, b)) \in Nat
<1> DEFINE rest == OtherCounts(F, c, b)
           own == {b} \X CountsOf(F[b], c)
<1>1. AllCounts(F, c) = rest \cup own
  BY DEF AllCounts, OtherCounts
<1>2. rest \cap own = {}
  BY DEF OtherCounts
<1>3. IsFiniteSet(rest)
  BY AllCountsFinite DEF OtherCounts
<1>4. IsFiniteSet(own) /\ Cardinality(own) = CountOf(F[b], c)
  <2>1. F[b] \in [Handle -> Nat]
    OBVIOUS
  <2> QED
    BY <2>1, CountIsSum, OwnedFinite
<1> QED
  BY <1>1, <1>2, <1>3, <1>4, DisjointUnion DEF Total

\* One behaviour's registers change.
LEMMA TotalChange ==
  ASSUME NEW F \in [Behavior -> [Handle -> Nat]], NEW G \in [Behavior -> [Handle -> Nat]],
         NEW c \in Cown, NEW b \in Behavior,
         \A x \in Behavior : x # b => G[x] = F[x]
  PROVE  Total(G, c) = Total(F, c) - CountOf(F[b], c) + CountOf(G[b], c)
<1>1. OtherCounts(F, c, b) = OtherCounts(G, c, b)
  BY DEF OtherCounts
<1>2. CountOf(F[b], c) \in Nat /\ CountOf(G[b], c) \in Nat
  BY CountIsSum
<1> QED
  BY <1>1, <1>2, TotalSplit

\* No behaviour has more than there are; none has any if there are none.
LEMMA TotalBounds ==
  ASSUME NEW F \in [Behavior -> [Handle -> Nat]], NEW c \in Cown
  PROVE  /\ Total(F, c) \in Nat
         /\ \A b \in Behavior : CountOf(F[b], c) <= Total(F, c)
         /\ (\A b \in Behavior : CountOf(F[b], c) = 0) => Total(F, c) = 0
<1>1. ASSUME NEW b \in Behavior PROVE CountOf(F[b], c) <= Total(F, c)
  <2>1. F[b] \in [Handle -> Nat]
    OBVIOUS
  <2> QED
    BY <2>1, TotalSplit, CountIsSum
<1>2. IsFiniteSet(AllCounts(F, c))
  BY AllCountsFinite DEF AllCounts
<1>3. ASSUME \A b \in Behavior : CountOf(F[b], c) = 0 PROVE AllCounts(F, c) = {}
  <2>1. \A b \in Behavior : CountsOf(F[b], c) = {}
    BY <1>3, CountIsSum, FS_EmptySet
  <2> QED
    BY <2>1 DEF AllCounts
<1> QED
  BY <1>1, <1>2, <1>3, FS_CardinalityType, FS_EmptySet DEF Total

\* Counts add up when registers are added to registers.
LEMMA CountAdds ==
  ASSUME NEW f \in [Handle -> Int], NEW g \in [Handle -> Int],
         NEW d \in [Handle -> Int], NEW c \in Cown,
         \A h \in Handle : g[h] = f[h] + d[h]
  PROVE  /\ CountOf(g, c) = CountOf(f, c) + CountOf(d, c)
         /\ CountOf(d, c) \in Int
<1> DEFINE h1 == CownValue(c, TRUE)   h2 == CownValue(c, FALSE)
           h3 == CownRef(c, FALSE)
<1>1. h1 \in Handle /\ h2 \in Handle /\ h3 \in Handle
  BY HandleFacts
<1>2. \A e : CountOf(e, c) = e[h1] + e[h2] + e[h3]
  BY DEF CountOf
<1> HIDE DEF h1, h2, h3
<1>3. /\ f[h1] \in Int /\ f[h2] \in Int /\ f[h3] \in Int
      /\ d[h1] \in Int /\ d[h2] \in Int /\ d[h3] \in Int
      /\ g[h1] = f[h1] + d[h1] /\ g[h2] = f[h2] + d[h2] /\ g[h3] = f[h3] + d[h3]
  BY <1>1
<1> QED
  BY <1>2, <1>3

\* One register more or less counts for the cown of the value it holds.
Unit(h, n) == [k \in Handle |-> IF k = h THEN n ELSE 0]

LEMMA UnitCounts ==
  ASSUME NEW h \in Handle, NEW n \in Int, NEW c \in Cown
  PROVE  /\ Unit(h, n) \in [Handle -> Int]
         /\ CountOf(Unit(h, n), c) = IF h.cown = c /\ Counted(h) THEN n ELSE 0
<1> DEFINE h1 == CownValue(c, TRUE)   h2 == CownValue(c, FALSE)
           h3 == CownRef(c, FALSE)
           u == Unit(h, n)
<1>1. /\ h1 \in Handle /\ h2 \in Handle /\ h3 \in Handle
      /\ h1 # h2 /\ h1 # h3 /\ h2 # h3
  BY DEF Handle, CownValue, CownRef
<1>2. h.cown = c /\ Counted(h) <=> h \in {h1, h2, h3}
  BY DEF Handle, CownValue, CownRef, Counted
<1>3. u \in [Handle -> Int] /\ \A k \in Handle : u[k] = IF k = h THEN n ELSE 0
  BY DEF Unit
<1>4. CountOf(u, c) = u[h1] + u[h2] + u[h3]
  BY DEF CountOf
<1> HIDE DEF h1, h2, h3, u
<1>5. CountOf(u, c) = IF h \in {h1, h2, h3} THEN n ELSE 0
  <2>1. CASE h \notin {h1, h2, h3}
    BY <1>1, <1>3, <1>4, <2>1
  <2>2. CASE h = h1
    BY <1>1, <1>3, <1>4, <2>2
  <2>3. CASE h = h2
    BY <1>1, <1>3, <1>4, <2>3
  <2>4. CASE h = h3
    BY <1>1, <1>3, <1>4, <2>4
  <2> QED
    BY <2>1, <2>2, <2>3, <2>4
<1> QED
  BY <1>2, <1>3, <1>5 DEF u

\* A value that counts a cown is among the three.
LEMMA HeldCounts ==
  ASSUME NEW f \in [Handle -> Nat], NEW h \in Handle, NEW c \in Cown,
         h.cown = c, Counted(h)
  PROVE  CountOf(f, c) >= f[h]
<1> DEFINE h1 == CownValue(c, TRUE)   h2 == CownValue(c, FALSE)
           h3 == CownRef(c, FALSE)
<1>1. h \in {h1, h2, h3}
  BY DEF Handle, CownValue, CownRef, Counted
<1>2. CountOf(f, c) = f[h1] + f[h2] + f[h3]
  BY DEF CountOf
<1>3. h1 \in Handle /\ h2 \in Handle /\ h3 \in Handle
  BY HandleFacts
<1> HIDE DEF h1, h2, h3
<1>4. f[h1] \in Nat /\ f[h2] \in Nat /\ f[h3] \in Nat
  BY <1>3
<1> QED
  BY <1>1, <1>2, <1>4

\* A value that refers to a cown c: what a content can be that counts it.
RefersTo(v, c) == v \in {CownValue(c, TRUE), CownValue(c, FALSE)}

LEMMA RefersIs ==
  ASSUME NEW v, NEW c \in Cown
  PROVE  RefersTo(v, c) <=> v \in CownHandles /\ v.cown = c
<1>1. ASSUME NEW ro \in BOOLEAN, v = CownValue(c, ro)
      PROVE  v \in CownHandles /\ v.cown = c
  BY <1>1, HandleFacts
<1>2. ASSUME v \in CownHandles, v.cown = c PROVE RefersTo(v, c)
  BY <1>2 DEF CownHandles, Handle, CownValue, RefersTo
<1> QED
  BY <1>1, <1>2 DEF RefersTo

LEMMA EmptyCounts ==
  ASSUME NEW c \in Cown
  PROVE  CountOf(NoRegs, c) = 0 /\ ~RefersTo(Empty, c)
<1>1. /\ CownValue(c, TRUE) \in Handle /\ CownValue(c, FALSE) \in Handle
      /\ CownRef(c, FALSE) \in Handle
  BY HandleFacts
<1>2. /\ NoRegs[CownValue(c, TRUE)] = 0 /\ NoRegs[CownValue(c, FALSE)] = 0
      /\ NoRegs[CownRef(c, FALSE)] = 0
  BY <1>1 DEF NoRegs
<1>3. CountOf(NoRegs, c) = 0
  BY <1>2 DEF CountOf
<1>4. Empty \notin CownHandles
  BY ContentAssumption DEF CownHandles
<1> QED
  BY <1>3, <1>4, RefersIs

\* The same for a content that a register gives or gets: only a cown is in one.
LEMMA ContentCounts ==
  ASSUME NEW v \in {Empty, Object, Error} \cup CownHandles, NEW n \in Int, NEW c \in Cown
  PROVE  /\ Unit(v, n) \in [Handle -> Int]
         /\ CountOf(Unit(v, n), c) = IF RefersTo(v, c) THEN n ELSE 0
<1>1. CASE v \in CownHandles
  <2>1. v \in Handle /\ v.kind = "cown" /\ Counted(v)
    BY <1>1 DEF CownHandles, Counted
  <2>2. v.cown = c <=> RefersTo(v, c)
    BY <2>1 DEF Handle, CownValue, RefersTo
  <2> QED
    BY <2>1, <2>2, UnitCounts
<1>2. CASE v \notin CownHandles
  <2>1. v \notin Handle
    BY <1>2, ContentAssumption
  <2>2. Unit(v, n) \in [Handle -> Int] /\ \A k \in Handle : Unit(v, n)[k] = 0
    BY <2>1 DEF Unit
  <2>3. /\ CownValue(c, TRUE) \in CownHandles /\ CownValue(c, FALSE) \in CownHandles
        /\ CownValue(c, TRUE) \in Handle /\ CownValue(c, FALSE) \in Handle
        /\ CownRef(c, FALSE) \in Handle
    BY HandleFacts
  <2>4. ~RefersTo(v, c)
    BY <1>2, <2>3 DEF RefersTo
  <2>5. CountOf(Unit(v, n), c) = 0
    <3> DEFINE u == Unit(v, n)
    <3>1. /\ u[CownValue(c, TRUE)] = 0 /\ u[CownValue(c, FALSE)] = 0
          /\ u[CownRef(c, FALSE)] = 0
      BY <2>2, <2>3
    <3> HIDE DEF u
    <3>2. CountOf(u, c) = 0
      BY <3>1 DEF CountOf
    <3> QED
      BY <3>2 DEF u
  <2> QED
    BY <2>2, <2>4, <2>5
<1> QED
  BY <1>1, <1>2

-------------------------------------------------------------------------------
(* References to a cown *)

\* The right-hand side of CownRcExact, and the same after a step.
LEMMA ExactIs ==
  /\ CownRcExact <=> \A c \in Cown :
       rc[c] = Total(regs, c) + Cardinality(WriteRequests(c)) + Cardinality(ReadRequests(c))
               + Cardinality(Contents(c)) + Kept(c)
  /\ CownRcExact' <=> \A c \in Cown :
       rc'[c] = Total(regs', c) + Cardinality(WriteRequests(c)') + Cardinality(ReadRequests(c)')
                + Cardinality(Contents(c)') + Kept(c)'
<1>1. ASSUME NEW c \in Cown
      PROVE  /\ Cardinality(UNION {{b} \X Counts(b, c) : b \in Behavior}) = Total(regs, c)
             /\ Cardinality(UNION {{b} \X Counts(b, c)' : b \in Behavior}) = Total(regs', c)
  BY CountsAgree DEF AllCounts, Total
<1>2. CownRcExact <=> \A c \in Cown :
        rc[c] = Cardinality(UNION {{b} \X Counts(b, c) : b \in Behavior})
                + Cardinality(WriteRequests(c)) + Cardinality(ReadRequests(c))
                + Cardinality(Contents(c)) + Kept(c)
  BY Zenon DEF CownRcExact, Contents, Kept
<1>3. CownRcExact' <=> \A c \in Cown :
        rc'[c] = Cardinality(UNION {{b} \X Counts(b, c)' : b \in Behavior})
                + Cardinality(WriteRequests(c)') + Cardinality(ReadRequests(c)')
                + Cardinality(Contents(c)') + Kept(c)'
  BY Zenon DEF CownRcExact, Contents, Kept
<1> QED
  BY <1>1, <1>2, <1>3

LEMMA BehavioursFinite ==
  ASSUME NEW S \in SUBSET Behavior
  PROVE  /\ IsFiniteSet(S) /\ Cardinality(S) \in Nat
         /\ S # {} => Cardinality(S) >= 1
BY BehaviourAssumption, FS_Subset, FS_CardinalityType, FS_EmptySet

LEMMA RequestsFinite ==
  ASSUME NEW c \in Cown
  PROVE  /\ IsFiniteSet(WriteRequests(c)) /\ Cardinality(WriteRequests(c)) \in Nat
         /\ IsFiniteSet(ReadRequests(c)) /\ Cardinality(ReadRequests(c)) \in Nat
         /\ IsFiniteSet(Contents(c)) /\ Cardinality(Contents(c)) \in Nat
         /\ IsFiniteSet(WriteRequests(c)') /\ Cardinality(WriteRequests(c)') \in Nat
         /\ IsFiniteSet(ReadRequests(c)') /\ Cardinality(ReadRequests(c)') \in Nat
         /\ IsFiniteSet(Contents(c)') /\ Cardinality(Contents(c)') \in Nat
<1>1. /\ WriteRequests(c) \in SUBSET Behavior /\ ReadRequests(c) \in SUBSET Behavior
      /\ Contents(c) \in SUBSET Behavior /\ WriteRequests(c)' \in SUBSET Behavior
      /\ ReadRequests(c)' \in SUBSET Behavior /\ Contents(c)' \in SUBSET Behavior
  BY DEF WriteRequests, ReadRequests, Contents, Cown
<1> QED
  BY <1>1, BehavioursFinite

\* Whoever refers to a cown counts it: a register, a request, a content.
LEMMA ReferredIsCounted ==
  ASSUME CountInv, NEW c \in Cown
  PROVE  /\ \A b \in Behavior : CountOf(regs[b], c) <= rc[c]
         /\ \A b \in Behavior : \A h \in Handle :
              regs[b][h] > 0 /\ Counted(h) /\ h.cown = c => rc[c] >= 1
         /\ \A b \in Behavior : Active(b) /\ access[b][c] # "none" => rc[c] >= 1
         /\ \A b \in Behavior : access[b][c] = "read" => rc[c] >= 1
         /\ \A x \in Cown : content[x] \in CownHandles /\ content[x].cown = c => rc[c] >= 1
<1>1. regs \in [Behavior -> [Handle -> Nat]] /\ Kept(c) \in Nat
  BY DEF CountInv, TypeOK, Kept
<1>2. rc[c] = Total(regs, c) + Cardinality(WriteRequests(c)) + Cardinality(ReadRequests(c))
              + Cardinality(Contents(c)) + Kept(c)
  BY ExactIs DEF CountInv
<1>3. Total(regs, c) \in Nat /\ \A b \in Behavior : CountOf(regs[b], c) <= Total(regs, c)
  BY <1>1, TotalBounds
<1>4. \A b \in Behavior : CountOf(regs[b], c) \in Nat
  BY <1>1, CountIsSum
<1>5. \A b \in Behavior : CountOf(regs[b], c) <= rc[c]
  BY <1>1, <1>2, <1>3, <1>4, RequestsFinite
<1>6. ASSUME NEW b \in Behavior, NEW h \in Handle, regs[b][h] > 0, Counted(h), h.cown = c
      PROVE  rc[c] >= 1
  <2>1. regs[b] \in [Handle -> Nat] /\ regs[b][h] \in Nat /\ rc[c] \in Nat
    BY <1>1 DEF CountInv, TypeOK
  <2>2. CountOf(regs[b], c) >= regs[b][h]
    BY <1>6, <2>1, HeldCounts
  <2> QED
    BY <1>2, <1>4, <1>5, <1>6, <2>1, <2>2
<1>7. ASSUME NEW b \in Behavior, access[b][c] = "read" PROVE rc[c] >= 1
  <2>1. ReadRequests(c) # {} /\ ReadRequests(c) \in SUBSET Behavior
    BY <1>7 DEF ReadRequests
  <2>2. Cardinality(ReadRequests(c)) >= 1
    BY <2>1, BehavioursFinite
  <2> QED
    BY <1>1, <1>2, <1>3, <2>2, RequestsFinite
<1>9. ASSUME NEW b \in Behavior, Active(b), access[b][c] # "none" PROVE rc[c] >= 1
  <2>1. CASE access[b][c] = "write"
    <3>1. WriteRequests(c) # {} /\ WriteRequests(c) \in SUBSET Behavior
      BY <1>9, <2>1 DEF WriteRequests
    <3>2. Cardinality(WriteRequests(c)) >= 1
      BY <3>1, BehavioursFinite
    <3> QED
      BY <1>1, <1>2, <1>3, <3>2, RequestsFinite
  <2>2. access[b][c] \in {"none", "read", "write"}
    BY DEF CountInv, TypeOK
  <2> QED
    BY <1>7, <1>9, <2>1, <2>2
<1>8. ASSUME NEW x \in Cown, content[x] \in CownHandles, content[x].cown = c
      PROVE  rc[c] >= 1
  <2>1. content[x] \in {CownValue(c, TRUE), CownValue(c, FALSE)}
    BY <1>8 DEF CownHandles, Handle, CownValue
  <2>2. Contents(c) # {} /\ Contents(c) \in SUBSET Behavior
    BY <2>1 DEF Contents, Cown
  <2>3. Cardinality(Contents(c)) >= 1
    BY <2>2, BehavioursFinite
  <2> QED
    BY <1>1, <1>2, <1>3, <2>3, RequestsFinite
<1> QED
  BY <1>5, <1>6, <1>7, <1>8, <1>9

-------------------------------------------------------------------------------
(* What a change of counts does to the lists of cowns to destroy *)

\* Counts that go down: the ones that reach 0 are put on the list of b.
LEMMA DecStep ==
  ASSUME CountInv, NEW b \in Behavior, NEW n \in [Cown -> Nat], Dec(b, n),
         rc' \in [Cown -> Nat], destroyed' = destroyed,
         \A c \in Cown : phase'[c] = "unborn" <=> phase[c] = "unborn"
  PROVE  /\ DestroyedExactly'
         /\ pending' \in [Behavior -> SUBSET Cown]
         /\ \A c \in Cown : phase'[c] = "unborn" => rc'[c] = 0
<1> DEFINE D == {c \in Cown : n[c] > 0 /\ rc[c] = n[c]}
<1>1. /\ pending \in [Behavior -> SUBSET Cown] /\ rc \in [Cown -> Nat]
      /\ DestroyedExactly
      /\ \A c \in Cown : phase[c] = "unborn" => rc[c] = 0
  BY DEF CountInv, TypeOK, UnbornUncounted
<1>2. pending' = [pending EXCEPT ![b] = @ \cup D]
  BY DEF Dec
<1>3. \A c \in Cown : rc'[c] = rc[c] - n[c]
  BY DEF Dec
<1>4. \A c \in Cown : rc[c] \in Nat /\ n[c] \in Nat /\ rc'[c] \in Nat
  BY <1>1
<1>5. ASSUME NEW c \in Cown PROVE rc'[c] = 0 <=> rc[c] = 0 \/ c \in D
  <2>1. rc'[c] = rc[c] - n[c] /\ rc[c] \in Nat /\ n[c] \in Nat /\ rc'[c] \in Nat
    BY <1>3, <1>4
  <2>2. c \in D <=> n[c] > 0 /\ rc[c] = n[c]
    OBVIOUS
  <2> QED
    BY <2>1, <2>2
<1>6. \A c \in D : c \in Cown /\ rc[c] # 0 /\ phase[c] # "unborn"
  BY <1>1, <1>4
<1> HIDE DEF D
<1>7. \A x \in Behavior : pending'[x] = IF x = b THEN pending[x] \cup D ELSE pending[x]
  BY <1>1, <1>2
<1>8. pending' \in [Behavior -> SUBSET Cown]
  BY <1>1, <1>2, <1>6
<1>9. \A c \in Cown : phase'[c] = "unborn" => rc'[c] = 0
  BY <1>1, <1>5
<1>10. DestroyedExactly'
  <2> SUFFICES ASSUME NEW c \in Cown
               PROVE  /\ (c \in destroyed \/ \E x \in Behavior : c \in pending'[x])
                           <=> phase'[c] # "unborn" /\ rc'[c] = 0
                      /\ \A x, y \in Behavior : c \in pending'[x] \cap pending'[y] => x = y
                      /\ c \in destroyed => \A x \in Behavior : c \notin pending'[x]
    BY DEF DestroyedExactly
  <2>1. /\ (c \in destroyed \/ \E x \in Behavior : c \in pending[x])
              <=> phase[c] # "unborn" /\ rc[c] = 0
        /\ \A x, y \in Behavior : c \in pending[x] \cap pending[y] => x = y
        /\ c \in destroyed => \A x \in Behavior : c \notin pending[x]
    BY <1>1 DEF DestroyedExactly
  <2>2. CASE c \in D
    BY <1>5, <1>6, <1>7, <2>1, <2>2
  <2>3. CASE c \notin D
    BY <1>5, <1>7, <2>1, <2>3
  <2> QED
    BY <2>2, <2>3
<1> QED
  BY <1>8, <1>9, <1>10

\* Counts that go up were not 0, so nothing that is to be destroyed comes back.
LEMMA IncStep ==
  ASSUME CountInv, rc' \in [Cown -> Nat], UNCHANGED <<pending, destroyed>>,
         \A c \in Cown : phase'[c] = "unborn" <=> phase[c] = "unborn",
         \A c \in Cown : rc'[c] # rc[c] => rc[c] >= 1 /\ rc'[c] >= 1
  PROVE  /\ DestroyedExactly'
         /\ pending' \in [Behavior -> SUBSET Cown]
         /\ \A c \in Cown : phase'[c] = "unborn" => rc'[c] = 0
<1>1. /\ pending \in [Behavior -> SUBSET Cown] /\ rc \in [Cown -> Nat]
      /\ DestroyedExactly
      /\ \A c \in Cown : phase[c] = "unborn" => rc[c] = 0
  BY DEF CountInv, TypeOK, UnbornUncounted
<1>2. \A c \in Cown : rc'[c] = 0 <=> rc[c] = 0
  BY <1>1
<1> QED
  BY <1>1, <1>2 DEF DestroyedExactly

-------------------------------------------------------------------------------
(* Steps that leave the requests alone *)

\* Each count changes by as much as what refers to the cown.
LEMMA CountsMove ==
  ASSUME CountInv, regs' \in [Behavior -> [Handle -> Nat]],
         rc' \in [Cown -> Int],
         \A c \in Cown :
           rc'[c] = rc[c] + (Total(regs', c) - Total(regs, c))
                    + (Cardinality(WriteRequests(c)') - Cardinality(WriteRequests(c)))
                    + (Cardinality(ReadRequests(c)') - Cardinality(ReadRequests(c)))
                    + (Cardinality(Contents(c)') - Cardinality(Contents(c)))
                    + (Kept(c)' - Kept(c))
  PROVE  CownRcExact' /\ rc' \in [Cown -> Nat]
<1>1. ASSUME NEW c \in Cown
      PROVE  /\ rc'[c] = Total(regs', c) + Cardinality(WriteRequests(c)')
                         + Cardinality(ReadRequests(c)')
                         + Cardinality(Contents(c)') + Kept(c)'
             /\ rc'[c] \in Nat
  <2>1. /\ regs \in [Behavior -> [Handle -> Nat]]
        /\ Kept(c) \in Nat /\ Kept(c)' \in Nat
    BY DEF CountInv, TypeOK, Kept
  <2>2. rc[c] = Total(regs, c) + Cardinality(WriteRequests(c)) + Cardinality(ReadRequests(c))
                + Cardinality(Contents(c)) + Kept(c)
    BY ExactIs DEF CountInv
  <2>3. Total(regs, c) \in Nat /\ Total(regs', c) \in Nat
    BY <2>1, TotalBounds
  <2>4. /\ Cardinality(WriteRequests(c)) \in Nat /\ Cardinality(ReadRequests(c)) \in Nat
        /\ Cardinality(Contents(c)) \in Nat /\ Cardinality(Contents(c)') \in Nat
        /\ Cardinality(WriteRequests(c)') \in Nat /\ Cardinality(ReadRequests(c)') \in Nat
    BY RequestsFinite
  <2>5. rc'[c] = rc[c] + (Total(regs', c) - Total(regs, c))
                 + (Cardinality(WriteRequests(c)') - Cardinality(WriteRequests(c)))
                 + (Cardinality(ReadRequests(c)') - Cardinality(ReadRequests(c)))
                 + (Cardinality(Contents(c)') - Cardinality(Contents(c)))
                 + (Kept(c)' - Kept(c))
    OBVIOUS
  <2>6. rc'[c] = Total(regs', c) + Cardinality(WriteRequests(c)') + Cardinality(ReadRequests(c)')
                 + Cardinality(Contents(c)') + Kept(c)'
    <3> DEFINE t == Total(regs, c)              u == Total(regs', c)
               s == Cardinality(WriteRequests(c))       z == Cardinality(WriteRequests(c)')
               w == Cardinality(ReadRequests(c))     y == Cardinality(ReadRequests(c)')
               o == Cardinality(Contents(c))    p == Cardinality(Contents(c)')
               k == Kept(c)                     m == Kept(c)'
               q == rc[c]                       r == rc'[c]
    <3>1. /\ t \in Int /\ u \in Int /\ s \in Int /\ z \in Int /\ w \in Int /\ y \in Int
          /\ o \in Int /\ p \in Int /\ k \in Int /\ m \in Int
          /\ q = t + s + w + o + k
          /\ r = q + (u - t) + (z - s) + (y - w) + (p - o) + (m - k)
      BY <2>1, <2>2, <2>3, <2>4, <2>5
    <3> HIDE DEF t, u, s, z, w, y, o, p, k, m, q, r
    <3>2. r = u + z + y + p + m
      BY <3>1
    <3> QED
      BY <3>2 DEF u, z, y, p, m, r
  <2> QED
    BY <2>1, <2>3, <2>4, <2>6
<1>2. CownRcExact'
  BY <1>1, ExactIs
<1> QED
  BY <1>1, <1>2

\* Registers of one behaviour, contents and counts change together.
LEMMA CountsChangeTogether ==
  ASSUME CountInv, NEW b \in Behavior,
         \A c \in Cown : WriteRequests(c)' = WriteRequests(c) /\ ReadRequests(c)' = ReadRequests(c),
         regs' \in [Behavior -> [Handle -> Nat]],
         \A x \in Behavior : x # b => regs'[x] = regs[x],
         rc' \in [Cown -> Int],
         \A c \in Cown :
           rc'[c] = rc[c] + (CountOf(regs'[b], c) - CountOf(regs[b], c))
                    + (Cardinality(Contents(c)') - Cardinality(Contents(c)))
                    + (Kept(c)' - Kept(c))
  PROVE  CownRcExact' /\ rc' \in [Cown -> Nat]
<1>1. ASSUME NEW c \in Cown
      PROVE  rc'[c] = rc[c] + (Total(regs', c) - Total(regs, c))
                      + (Cardinality(WriteRequests(c)') - Cardinality(WriteRequests(c)))
                      + (Cardinality(ReadRequests(c)') - Cardinality(ReadRequests(c)))
                      + (Cardinality(Contents(c)') - Cardinality(Contents(c)))
                      + (Kept(c)' - Kept(c))
  <2>1. /\ regs \in [Behavior -> [Handle -> Nat]] /\ rc[c] \in Nat
        /\ Kept(c) \in Nat /\ Kept(c)' \in Nat
    BY DEF CountInv, TypeOK, Kept
  <2>2. Total(regs', c) = Total(regs, c) - CountOf(regs[b], c) + CountOf(regs'[b], c)
    BY <2>1, TotalChange
  <2>3. /\ Total(regs, c) \in Nat /\ Total(regs', c) \in Nat
        /\ CountOf(regs[b], c) \in Nat /\ CountOf(regs'[b], c) \in Nat
    <3>1. regs[b] \in [Handle -> Nat] /\ regs'[b] \in [Handle -> Nat]
      BY <2>1
    <3> QED
      BY <2>1, <3>1, TotalBounds, CountIsSum
  <2>4. rc'[c] = rc[c] + (CountOf(regs'[b], c) - CountOf(regs[b], c))
                 + (Cardinality(Contents(c)') - Cardinality(Contents(c)))
                 + (Kept(c)' - Kept(c))
    OBVIOUS
  <2>5. /\ Cardinality(WriteRequests(c)') = Cardinality(WriteRequests(c))
        /\ Cardinality(ReadRequests(c)') = Cardinality(ReadRequests(c))
    OBVIOUS
  <2> QED
    BY <2>1, <2>2, <2>3, <2>4, <2>5, RequestsFinite
<1> QED
  BY <1>1, CountsMove

\* A content changes.
LEMMA ContentsChange ==
  ASSUME CountInv, NEW x \in Cown, NEW v, content' = [content EXCEPT ![x] = v],
         NEW c \in Cown
  PROVE  Cardinality(Contents(c)') = Cardinality(Contents(c))
           + (IF RefersTo(v, c) THEN 1 ELSE 0)
           - (IF RefersTo(content[x], c) THEN 1 ELSE 0)
<1> DEFINE rest == Contents(c) \ {x}
<1>1. x \in Contents(c) <=> RefersTo(content[x], c)
  BY DEF Contents, RefersTo
<1>2. x \in Contents(c)' <=> RefersTo(v, c)
  BY DEF Contents, RefersTo, CountInv, TypeOK
<1>3. Contents(c)' \ {x} = rest
  BY DEF Contents, CountInv, TypeOK
<1>4. IsFiniteSet(Contents(c)) /\ IsFiniteSet(Contents(c)')
      /\ Cardinality(Contents(c)) \in Nat /\ Cardinality(Contents(c)') \in Nat
  BY RequestsFinite
<1>5. /\ Cardinality(rest) = IF x \in Contents(c) THEN Cardinality(Contents(c)) - 1
                             ELSE Cardinality(Contents(c))
      /\ Cardinality(Contents(c)' \ {x}) = IF x \in Contents(c)' THEN Cardinality(Contents(c)') - 1
                             ELSE Cardinality(Contents(c)')
  BY <1>4, FS_RemoveElement
<1> QED
  BY <1>1, <1>2, <1>3, <1>4, <1>5

\* An instruction that changes registers: d is how many more or less of each value.
LEMMA RegistersStep ==
  ASSUME CountInv, IInv', NEW b \in Behavior, phase[b] = "running",
         UNCHANGED <<phase, access, content, destroyed, ret>>,
         NEW d \in [Handle -> Int],
         regs' = [regs EXCEPT ![b] = [h \in Handle |-> regs[b][h] + d[h]]],
         \A h \in Handle : regs[b][h] + d[h] >= 0,
         \A c \in Cown : d[WRef(c)] > 0 => phase[c] = "done",
         rc' \in [Cown -> Int],
         mutable' \in [Behavior -> SUBSET Cown],
         \A c \in Cown : rc'[c] = rc[c] + CountOf(d, c),
         \/ \E n \in [Cown -> Nat] : Dec(b, n)
         \/ /\ pending' = pending
            /\ \A c \in Cown : rc'[c] # rc[c] => rc[c] >= 1 /\ rc'[c] >= 1
  PROVE  CountInv'
<1>1. regs' \in [Behavior -> [Handle -> Nat]] /\ \A x \in Behavior : x # b => regs'[x] = regs[x]
  <2>1. [h \in Handle |-> regs[b][h] + d[h]] \in [Handle -> Nat]
    BY DEF CountInv, TypeOK
  <2> QED
    BY <2>1 DEF CountInv, TypeOK
<1>2. CownRcExact' /\ rc' \in [Cown -> Nat]
  <2>1. ASSUME NEW c \in Cown
        PROVE  rc'[c] = rc[c] + (CountOf(regs'[b], c) - CountOf(regs[b], c))
                        + (Cardinality(Contents(c)') - Cardinality(Contents(c)))
                        + (Kept(c)' - Kept(c))
    <3>1. Contents(c)' = Contents(c) /\ Kept(c)' = Kept(c) /\ Kept(c) \in Nat
      BY DEF Contents, Kept
    <3>2. /\ regs[b] \in [Handle -> Nat] /\ regs'[b] \in [Handle -> Nat]
          /\ \A h \in Handle : regs'[b][h] = regs[b][h] + d[h]
      BY <1>1 DEF CountInv, TypeOK
    <3>3. /\ CountOf(regs'[b], c) = CountOf(regs[b], c) + CountOf(d, c)
          /\ CountOf(d, c) \in Int
      BY <3>2, CountAdds
    <3>4. CountOf(regs[b], c) \in Nat
      BY <3>2, CountIsSum
    <3>5. rc[c] \in Nat
      BY DEF CountInv, TypeOK
    <3>6. rc'[c] = rc[c] + CountOf(d, c)
      OBVIOUS
    <3> QED
      BY <3>1, <3>3, <3>4, <3>5, <3>6, RequestsFinite
  <2>2. \A c \in Cown : WriteRequests(c)' = WriteRequests(c) /\ ReadRequests(c)' = ReadRequests(c)
    BY DEF WriteRequests, ReadRequests, Active
  <2> QED
    BY <1>1, <2>1, <2>2, CountsChangeTogether
<1>3. /\ DestroyedExactly'
      /\ pending' \in [Behavior -> SUBSET Cown]
      /\ \A c \in Cown : phase'[c] = "unborn" => rc'[c] = 0
  BY <1>2, DecStep, IncStep
<1>4. TypeOK'
  BY <1>1, <1>2, <1>3 DEF CountInv, TypeOK, IInv, Types
<1>5. IdleHoldNothing' /\ WrittenOnce' /\ UnbornUncounted'
  BY <1>1, <1>3 DEF CountInv, IdleHoldNothing, WrittenOnce, UnbornUncounted
<1>6. HeldRefsDone'
  <2>1. ASSUME NEW c \in Cown, regs'[b][WRef(c)] > 0 PROVE phase[c] = "done"
    <3>1. WRef(c) \in Handle
      BY WritableHandles
    <3> DEFINE n == regs[b][WRef(c)]
               m == d[WRef(c)]
    <3>2. n \in Nat /\ m \in Int /\ regs'[b][WRef(c)] = n + m
      BY <3>1 DEF CountInv, TypeOK
    <3>3. (n > 0 => phase[c] = "done") /\ (m > 0 => phase[c] = "done")
      BY DEF CountInv, HeldRefsDone
    <3> HIDE DEF n, m
    <3> QED
      BY <2>1, <3>2, <3>3
  <2> QED
    BY <1>1, <2>1 DEF CountInv, HeldRefsDone
<1> QED
  BY <1>2, <1>3, <1>4, <1>5, <1>6 DEF CountInv

LEMMA CountTypes ==
  ASSUME CountInv
  PROVE  /\ rc \in [Cown -> Nat]
         /\ regs \in [Behavior -> [Handle -> Nat]]
         /\ \A b \in Behavior : \A h \in Handle : regs[b][h] \in Nat
         /\ mutable \in [Behavior -> SUBSET Cown]
         /\ content \in [Cown -> {Empty, Object, Error} \cup CownHandles]
         /\ phase \in [Behavior -> Phases]
         /\ access \in [Behavior -> [Cown -> Modes]]
         /\ pending \in [Behavior -> SUBSET Cown]
BY DEF CountInv, TypeOK, Phases, Modes

\* The same registers with n more that hold h.
LEMMA UnitUpdate ==
  ASSUME NEW f \in [Handle -> Nat], NEW h \in Handle, NEW n \in Int
  PROVE  [f EXCEPT ![h] = @ + n] = [k \in Handle |-> f[k] + Unit(h, n)[k]]
<1>1. ASSUME NEW k \in Handle
      PROVE  [f EXCEPT ![h] = @ + n][k] = f[k] + Unit(h, n)[k]
  <2>1. f[k] \in Nat
    OBVIOUS
  <2> QED
    BY <2>1 DEF Unit
<1> QED
  BY <1>1

\* A reference to write refers to what has been made.
ToDone(h) == \A c \in Cown : h = WRef(c) => phase[c] = "done"

\* What a register holds is there.
LEMMA HeldIsBorn ==
  ASSUME CountInv, NEW b \in Behavior, NEW h \in Handle, regs[b][h] > 0
  PROVE  /\ phase[h.cown] # "unborn" /\ h.cown \in Cown
         /\ Counted(h) => rc[h.cown] >= 1
         /\ ToDone(h)
BY HandleTypes, ReferredIsCounted DEF CountInv, IInv, Born, HeldRefsDone, ToDone

\* An instruction that changes the number of registers that hold h, and counts it.
LEMMA UnitStep ==
  ASSUME CountInv, IInv', NEW b \in Behavior, phase[b] = "running",
         UNCHANGED <<phase, access, content, destroyed, ret>>,
         NEW h \in Handle, NEW n \in Int,
         regs' = [regs EXCEPT ![b][h] = @ + n], regs[b][h] + n >= 0,
         ToDone(h),
         mutable' \in [Behavior -> SUBSET Cown],
         rc' \in [Cown -> Int],
         \A c \in Cown : rc'[c] = rc[c] + (IF h.cown = c /\ Counted(h) THEN n ELSE 0),
         \/ \E m \in [Cown -> Nat] : Dec(b, m)
         \/ /\ pending' = pending
            /\ \A c \in Cown : rc'[c] # rc[c] => rc[c] >= 1 /\ rc'[c] >= 1
  PROVE  CountInv'
<1> DEFINE d == Unit(h, n)
<1>1. d \in [Handle -> Int] /\ \A k \in Handle : d[k] = IF k = h THEN n ELSE 0
  BY UnitCounts DEF Unit
<1>2. \A c \in Cown : CountOf(d, c) = IF h.cown = c /\ Counted(h) THEN n ELSE 0
  BY UnitCounts
<1>3. regs' = [regs EXCEPT ![b] = [k \in Handle |-> regs[b][k] + d[k]]]
  <2> DEFINE f == regs[b]
  <2>1. f \in [Handle -> Nat]
    BY CountTypes
  <2>2. regs' = [regs EXCEPT ![b] = [f EXCEPT ![h] = @ + n]]
    OBVIOUS
  <2> HIDE DEF f, d
  <2>3. [f EXCEPT ![h] = @ + n] = [k \in Handle |-> f[k] + d[k]]
    <3>1. ASSUME NEW k \in Handle PROVE [f EXCEPT ![h] = @ + n][k] = f[k] + d[k]
      <4>1. f[k] \in Nat
        BY <2>1
      <4> QED
        BY <1>1, <2>1, <4>1
    <3> QED
      BY <2>1, <3>1
  <2>4. regs' = [regs EXCEPT ![b] = [k \in Handle |-> f[k] + d[k]]]
    BY <2>2, <2>3
  <2> QED
    BY <2>4 DEF f
<1> HIDE DEF d
<1>4. ASSUME NEW k \in Handle PROVE regs[b][k] + d[k] >= 0
  <2>1. regs[b][k] \in Nat
    BY CountTypes
  <2> QED
    BY <1>1, <2>1
<1>5. ASSUME NEW c \in Cown, d[WRef(c)] > 0 PROVE phase[c] = "done"
  <2>1. WRef(c) \in Handle
    BY WritableHandles
  <2>2. WRef(c) = h
    BY <1>1, <1>5, <2>1
  <2> QED
    BY <2>2 DEF ToDone
<1>6. \A c \in Cown : rc'[c] = rc[c] + CountOf(d, c)
  BY <1>2, CountTypes
<1> QED
  BY <1>1, <1>3, <1>4, <1>5, <1>6, RegistersStep

\* One more register that holds h, counted if h counts its cown.
LEMMA OneMore ==
  ASSUME CountInv, IInv', NEW b \in Behavior, phase[b] = "running",
         UNCHANGED <<phase, access, content, mutable, pending, destroyed, ret>>,
         NEW h \in Handle, regs' = [regs EXCEPT ![b][h] = @ + 1],
         ToDone(h),
         Counted(h) => rc[h.cown] >= 1,
         IF Counted(h) THEN rc' = [rc EXCEPT ![h.cown] = @ + 1] ELSE rc' = rc
  PROVE  CountInv'
<1> DEFINE n == 1
<1>1. regs' = [regs EXCEPT ![b][h] = @ + n] /\ n = 1 /\ n \in Int
  OBVIOUS
<1> HIDE DEF n
<1>2. rc' \in [Cown -> Int]
      /\ \A c \in Cown : rc'[c] = rc[c] + (IF h.cown = c /\ Counted(h) THEN n ELSE 0)
  BY <1>1, CountTypes, HandleTypes
<1>3. \A c \in Cown : rc'[c] # rc[c] => rc[c] >= 1 /\ rc'[c] >= 1
  BY <1>1, <1>2, CountTypes
<1>4. regs[b][h] + n >= 0
  BY <1>1, CountTypes
<1>5. mutable' \in [Behavior -> SUBSET Cown]
  BY CountTypes
<1> QED
  BY <1>1, <1>2, <1>3, <1>4, <1>5, UnitStep

LEMMA CopyCounts ==
  ASSUME CountInv, IInv', NEW b \in Behavior, NEW h \in Handle, Copy(b, h)
  PROVE  CountInv'
<1>1. /\ phase[b] = "running" /\ regs[b][h] > 0
      /\ UNCHANGED <<phase, access, content, mutable, pending, destroyed, ret>>
      /\ regs' = [regs EXCEPT ![b][h] = @ + 1]
      /\ IF Counted(h) THEN rc' = [rc EXCEPT ![h.cown] = @ + 1] ELSE rc' = rc
  BY DEF Copy, Executes, Inc
<1>2. ToDone(h) /\ (Counted(h) => rc[h.cown] >= 1)
  BY <1>1, HeldIsBorn
<1> QED
  BY <1>1, <1>2, OneMore

LEMMA DropCounts ==
  ASSUME CountInv, IInv', NEW b \in Behavior, NEW h \in Handle, Drop(b, h)
  PROVE  CountInv'
<1> DEFINE n == -1
<1>1. /\ phase[b] = "running" /\ regs[b][h] > 0
      /\ UNCHANGED <<phase, access, content, mutable, destroyed, ret>>
      /\ n = -1 /\ n \in Int /\ regs' = [regs EXCEPT ![b][h] = @ + n]
      /\ IF Counted(h) THEN Dec(b, One(h.cown)) ELSE UNCHANGED <<rc, pending>>
  <2>1. regs[b][h] \in Nat
    BY CountTypes
  <2>2. regs[b][h] - 1 = regs[b][h] + n
    BY <2>1
  <2>3. regs' = [regs EXCEPT ![b][h] = regs[b][h] - 1]
    BY DEF Drop
  <2>4. regs' = [regs EXCEPT ![b][h] = regs[b][h] + n]
    BY <2>2, <2>3
  <2>5. n = -1 /\ n \in Int
    OBVIOUS
  <2>6. IF Counted(h) THEN Dec(b, One(h.cown)) ELSE UNCHANGED <<rc, pending>>
    BY Zenon DEF Drop
  <2> HIDE DEF n
  <2> QED
    BY <2>4, <2>5, <2>6 DEF Drop, Executes
<1> HIDE DEF n
<1>2. h.cown \in Cown /\ ToDone(h)
  BY <1>1, HeldIsBorn
<1>3. One(h.cown) \in [Cown -> Nat] /\ \A c \in Cown : One(h.cown)[c] = IF c = h.cown THEN 1 ELSE 0
  BY DEF One
<1>4. rc' \in [Cown -> Int]
      /\ \A c \in Cown : rc'[c] = rc[c] + (IF h.cown = c /\ Counted(h) THEN n ELSE 0)
  <2>1. CASE Counted(h)
    <3>1. rc' = [c \in Cown |-> rc[c] - One(h.cown)[c]]
      BY <1>1, <2>1 DEF Dec
    <3>2. ASSUME NEW c \in Cown
          PROVE  /\ rc[c] - One(h.cown)[c] \in Int
                 /\ rc[c] - One(h.cown)[c] = rc[c] + (IF h.cown = c THEN n ELSE 0)
      BY <1>1, <1>3, CountTypes
    <3> QED
      BY <2>1, <3>1, <3>2
  <2>2. CASE ~Counted(h)
    BY <1>1, <2>2, CountTypes
  <2> QED
    BY <2>1, <2>2
<1>5. \/ \E k \in [Cown -> Nat] : Dec(b, k)
      \/ pending' = pending /\ \A c \in Cown : rc'[c] # rc[c] => rc[c] >= 1 /\ rc'[c] >= 1
  BY <1>1, <1>3
<1>6. regs[b][h] + n >= 0
  BY <1>1, CountTypes
<1>7. mutable' \in [Behavior -> SUBSET Cown]
  BY <1>1, CountTypes
<1> QED
  BY <1>1, <1>2, <1>4, <1>5, <1>6, <1>7, UnitStep

LEMMA ReadCounts ==
  ASSUME CountInv, IInv', NEW b \in Behavior, NEW h \in Handle, Read(b, h)
  PROVE  CountInv'
<1> DEFINE r == CownValue(h.cown, TRUE)
<1>1. /\ phase[b] = "running" /\ regs[b][h] > 0 /\ h.kind = "cown"
      /\ UNCHANGED <<phase, access, content, mutable, pending, destroyed, ret>>
      /\ regs' = [regs EXCEPT ![b][r] = @ + 1]
      /\ rc' = [rc EXCEPT ![h.cown] = @ + 1]
  BY DEF Read, Executes, Inc
<1>2. h.cown \in Cown /\ rc[h.cown] >= 1
  BY <1>1, HeldIsBorn DEF Counted
<1>3. r \in Handle /\ r.cown = h.cown /\ Counted(r) /\ ToDone(r)
  BY <1>2, HandleFacts, WritableHandles DEF Counted, ToDone
<1> HIDE DEF r
<1> QED
  BY <1>1, <1>2, <1>3, OneMore

\* Loading a cown from a content counts it once more; loading an object counts
\* nothing.
LEMMA LoadCounts ==
  ASSUME CountInv, IInv', NEW b \in Behavior, NEW h \in Handle, Load(b, h)
  PROVE  CountInv'
<1> DEFINE r == content[h.cown]
<1>1. /\ phase[b] = "running"
      /\ UNCHANGED <<phase, access, content, pending, destroyed, ret>>
      /\ h.cown \in Cown
      /\ \/ /\ UNCHANGED <<regs, rc>>
            /\ mutable' = [mutable EXCEPT ![b] = @ \cup {h.cown}]
         \/ /\ r \in CownHandles /\ UNCHANGED mutable
            /\ regs' = [regs EXCEPT ![b][r] = @ + 1]
            /\ rc' = [rc EXCEPT ![r.cown] = @ + 1]
  BY HandleTypes DEF Load, Executes, Inc
<1>2. CASE /\ UNCHANGED <<regs, rc>>
           /\ mutable' = [mutable EXCEPT ![b] = @ \cup {h.cown}]
  <2>1. mutable' \in [Behavior -> SUBSET Cown]
    BY <1>1, <1>2, CountTypes
  <2>2. TypeOK'
    BY <1>1, <1>2, <2>1 DEF CountInv, TypeOK, IInv, Types
  <2>3. IdleHoldNothing' /\ HeldRefsDone' /\ WrittenOnce' /\ UnbornUncounted' /\ DestroyedExactly'
    BY <1>1, <1>2 DEF CountInv, IdleHoldNothing, HeldRefsDone, WrittenOnce, UnbornUncounted,
                      DestroyedExactly
  <2>4. CownRcExact'
    <3>1. \A c \in Cown : /\ WriteRequests(c)' = WriteRequests(c)
                          /\ ReadRequests(c)' = ReadRequests(c)
                          /\ Contents(c)' = Contents(c) /\ Kept(c)' = Kept(c)
      BY <1>1, <1>2 DEF WriteRequests, ReadRequests, Contents, Kept, Active
    <3> QED
      BY <1>1, <1>2, <3>1, ExactIs DEF CountInv
  <2> QED
    BY <2>2, <2>3, <2>4 DEF CountInv
<1>3. CASE /\ r \in CownHandles /\ UNCHANGED mutable
           /\ regs' = [regs EXCEPT ![b][r] = @ + 1]
           /\ rc' = [rc EXCEPT ![r.cown] = @ + 1]
  <2>1. r \in Handle /\ r.kind = "cown" /\ r.cown \in Cown /\ Counted(r)
    BY <1>3, HandleTypes DEF CownHandles, Counted
  <2>2. rc[r.cown] >= 1
    BY <1>1, <1>3, <2>1, ReferredIsCounted
  <2>3. ToDone(r)
    BY <2>1, WritableHandles DEF ToDone
  <2> HIDE DEF r
  <2> QED
    BY <1>1, <1>3, <2>1, <2>2, <2>3, OneMore
<1> QED
  BY <1>1, <1>2, <1>3

\* A store takes a cown out of a register into the content and gives the register
\* what was there: what refers to a cown moves, and no count changes.
LEMMA StoreCounts ==
  ASSUME CountInv, IInv', NEW b \in Behavior, NEW h \in Handle,
         NEW v \in Held(b) \cup {Object}, Store(b, h, v)
  PROVE  CountInv'
<1> DEFINE x == h.cown
           out == content[x]
           minus == -1
           one == 1
           u == Unit(v, minus)
           w == Unit(out, one)
           d == [k \in Handle |-> u[k] + w[k]]
<1>1. /\ phase[b] = "running" /\ h.kind = "ref" /\ ~h.readonly /\ regs[b][h] > 0
      /\ UNCHANGED <<phase, access, waits, rc, pending, destroyed, ret>>
      /\ regs' = [regs EXCEPT ![b] = [k \in Handle |->
                    regs[b][k] + (IF k = v THEN -1 ELSE 0) + (IF k = out THEN 1 ELSE 0)]]
      /\ content' = [content EXCEPT ![x] = v]
      /\ mutable' = [mutable EXCEPT ![b] = @ \ {x}]
  BY DEF Store, Executes
<1>2. /\ x \in Cown /\ v \in {Empty, Object, Error} \cup CownHandles
      /\ out \in {Empty, Object, Error} \cup CownHandles
  BY HandleTypes, CountTypes DEF Held
<1>3. minus = -1 /\ minus \in Int /\ one = 1 /\ one \in Int
  OBVIOUS
<1>4. phase[x] = "done"
  <2>1. h = WRef(x)
    BY <1>1 DEF Handle, WRef, CownRef
  <2> QED
    BY <1>1, <1>2, <2>1 DEF CountInv, HeldRefsDone
<1>5. v # Empty
  BY BehaviourAssumption, ContentAssumption DEF Held, CownHandles
<1>6. v \in Handle => regs[b][v] > 0 /\ v.kind = "cown"
  BY ContentAssumption DEF Held, CownHandles
<1>7. out \in Handle => out.kind = "cown"
  BY <1>2, ContentAssumption DEF CownHandles
<1> HIDE DEF x, out, minus, one
<1>8. /\ u \in [Handle -> Int] /\ w \in [Handle -> Int]
      /\ \A k \in Handle : /\ u[k] = IF k = v THEN minus ELSE 0
                          /\ w[k] = IF k = out THEN one ELSE 0
  BY <1>3 DEF Unit
<1>9. ASSUME NEW c \in Cown
      PROVE  /\ CountOf(u, c) = IF RefersTo(v, c) THEN minus ELSE 0
             /\ CountOf(w, c) = IF RefersTo(out, c) THEN one ELSE 0
  BY <1>2, <1>3, ContentCounts
<1> HIDE DEF u, w
<1>10. d \in [Handle -> Int] /\ \A k \in Handle : d[k] = u[k] + w[k]
  BY <1>8
<1> HIDE DEF d
<1>11. \A c \in Cown : CountOf(d, c) = CountOf(u, c) + CountOf(w, c)
  BY <1>8, <1>10, CountAdds
<1>12. /\ regs' \in [Behavior -> [Handle -> Nat]]
       /\ \A y \in Behavior : y # b => regs'[y] = regs[y]
       /\ \A k \in Handle : regs'[b][k] = regs[b][k] + d[k]
  <2> DEFINE g == [k \in Handle |->
                    regs[b][k] + (IF k = v THEN -1 ELSE 0) + (IF k = out THEN 1 ELSE 0)]
  <2>1. ASSUME NEW k \in Handle PROVE g[k] \in Nat /\ g[k] = regs[b][k] + d[k]
    <3>1. regs[b][k] \in Nat /\ (k = v => regs[b][k] > 0)
      BY <1>6, CountTypes
    <3>2. g[k] = regs[b][k] + (IF k = v THEN -1 ELSE 0) + (IF k = out THEN 1 ELSE 0)
      OBVIOUS
    <3> HIDE DEF g
    <3> QED
      BY <1>3, <1>8, <1>10, <3>1, <3>2
  <2>2. g \in [Handle -> Nat]
    BY <2>1
  <2>3. regs' = [regs EXCEPT ![b] = g]
    BY <1>1
  <2> HIDE DEF g
  <2> QED
    BY <2>1, <2>2, <2>3, CountTypes
<1>13. CownRcExact' /\ rc' \in [Cown -> Nat]
  <2>1. ASSUME NEW c \in Cown
        PROVE  rc'[c] = rc[c] + (CountOf(regs'[b], c) - CountOf(regs[b], c))
                        + (Cardinality(Contents(c)') - Cardinality(Contents(c)))
                        + (Kept(c)' - Kept(c))
    <3>1. Cardinality(Contents(c)') = Cardinality(Contents(c))
            + (IF RefersTo(v, c) THEN 1 ELSE 0) - (IF RefersTo(out, c) THEN 1 ELSE 0)
      BY <1>1, <1>2, ContentsChange DEF out
    <3>2. /\ regs[b] \in [Handle -> Int] /\ regs'[b] \in [Handle -> Int]
          /\ regs[b] \in [Handle -> Nat]
      BY <1>12, CountTypes
    <3>3. CountOf(regs'[b], c) = CountOf(regs[b], c) + CountOf(d, c)
      BY <1>10, <1>12, <3>2, CountAdds
    <3>4. CountOf(regs[b], c) \in Nat
      BY <3>2, CountIsSum
    <3>5. /\ rc[c] \in Nat /\ rc'[c] = rc[c]
          /\ Kept(c)' = Kept(c) /\ Kept(c) \in Nat
      BY <1>1, CountTypes DEF Kept
    <3>6. CountOf(d, c) = (IF RefersTo(v, c) THEN minus ELSE 0)
                          + (IF RefersTo(out, c) THEN one ELSE 0)
      BY <1>9, <1>11
    <3> QED
      BY <1>3, <3>1, <3>3, <3>4, <3>5, <3>6, RequestsFinite
  <2>2. \A c \in Cown : WriteRequests(c)' = WriteRequests(c) /\ ReadRequests(c)' = ReadRequests(c)
    BY <1>1 DEF WriteRequests, ReadRequests, Active
  <2>3. rc' \in [Cown -> Int]
    BY <1>1, CountTypes
  <2> QED
    BY <1>12, <2>1, <2>2, <2>3, CountsChangeTogether
<1>14. DestroyedExactly' /\ pending' \in [Behavior -> SUBSET Cown]
  BY <1>1 DEF CountInv, DestroyedExactly, TypeOK
<1>15. TypeOK'
  <2>1. mutable' \in [Behavior -> SUBSET Cown]
    BY <1>1, CountTypes
  <2> QED
    BY <1>1, <1>12, <1>13, <1>14, <2>1 DEF CountInv, TypeOK, IInv, Types
<1>16. IdleHoldNothing' /\ UnbornUncounted'
  BY <1>1, <1>12 DEF CountInv, IdleHoldNothing, UnbornUncounted
<1>17. WrittenOnce'
  <2>1. \A c \in Cown : content'[c] = IF c = x THEN v ELSE content[c]
    BY <1>1, CountTypes
  <2> QED
    BY <1>1, <1>4, <1>5, <2>1 DEF CountInv, WrittenOnce
<1>18. HeldRefsDone'
  <2>1. ASSUME NEW c \in Cown
        PROVE  regs'[b][WRef(c)] = regs[b][WRef(c)]
    <3>1. WRef(c) \in Handle /\ WRef(c) # v /\ WRef(c) # out
      BY <1>6, <1>7, WritableHandles
    <3>2. d[WRef(c)] = 0 /\ regs[b][WRef(c)] \in Nat
      BY <1>8, <1>10, <3>1, CountTypes
    <3> QED
      BY <1>12, <3>1, <3>2
  <2> QED
    BY <1>1, <1>12, <2>1 DEF CountInv, HeldRefsDone
<1> QED
  BY <1>13, <1>14, <1>15, <1>16, <1>17, <1>18 DEF CountInv

-------------------------------------------------------------------------------
(* The end of a behaviour *)

\* Its registers are dropped; the value it returns is what its result refers to.
LEMMA ReturnCounts ==
  ASSUME CountInv, IInv', NEW b \in Behavior, NEW v \in Held(b) \cup {Object, Error},
         Return(b, v)
  PROVE  CountInv'
<1> DEFINE n == [c \in Cown |-> Cardinality(Counts(b, c))
                             + (IF v \in CownHandles /\ v.cown = c THEN -1 ELSE 0)]
<1>1. /\ phase[b] = "running" /\ UNCHANGED <<access, waits, destroyed, ret>>
      /\ content' = [content EXCEPT ![b] = v]
      /\ regs' = [regs EXCEPT ![b] = NoRegs]
      /\ mutable' = [mutable EXCEPT ![b] = {}]
      /\ phase' = [phase EXCEPT ![b] = "returned"]
      /\ Dec(b, n)
  BY DEF Return, Executes
<1>2. /\ v \in {Empty, Object, Error} \cup CownHandles /\ v # Empty
      /\ v \in Handle => v \in CownHandles /\ regs[b][v] > 0
  BY BehaviourAssumption, ContentAssumption DEF Held, CownHandles
<1>3. content[b] = Empty /\ b \in Cown
  BY <1>1 DEF CountInv, WrittenOnce, Cown
<1>4. \A x \in Behavior : phase'[x] = IF x = b THEN "returned" ELSE phase[x]
  BY <1>1, CountTypes
<1>5. /\ regs' \in [Behavior -> [Handle -> Nat]] /\ regs'[b] = NoRegs
      /\ \A x \in Behavior : x # b => regs'[x] = regs[x]
  BY <1>1, CountTypes DEF NoRegs
<1>6. ASSUME NEW c \in Cown
      PROVE  /\ n[c] = CountOf(regs[b], c) - (IF RefersTo(v, c) THEN 1 ELSE 0)
             /\ n[c] \in Nat /\ CountOf(regs[b], c) \in Nat
  <2>1. regs[b] \in [Handle -> Nat]
    BY CountTypes
  <2>2. Cardinality(Counts(b, c)) = CountOf(regs[b], c) /\ CountOf(regs[b], c) \in Nat
    BY <2>1, CountIsSum, CountsAgree
  <2>3. (v \in CownHandles /\ v.cown = c) <=> RefersTo(v, c)
    BY RefersIs
  <2>4. ASSUME RefersTo(v, c) PROVE CountOf(regs[b], c) >= 1
    <3>1. v \in Handle /\ v.cown = c /\ Counted(v)
      BY <2>3, <2>4 DEF CownHandles, Counted
    <3>2. regs[b][v] > 0 /\ regs[b][v] \in Nat
      BY <1>2, <2>1, <3>1
    <3> QED
      BY <2>1, <2>2, <3>1, <3>2, HeldCounts
  <2>5. n[c] = CountOf(regs[b], c) - (IF RefersTo(v, c) THEN 1 ELSE 0)
    BY <2>2, <2>3
  <2> HIDE DEF n
  <2> QED
    BY <2>2, <2>4, <2>5
<1>7. n \in [Cown -> Nat]
  BY <1>6
<1> HIDE DEF n
<1>8. rc' \in [Cown -> Int] /\ \A c \in Cown : rc'[c] = rc[c] - n[c]
  BY <1>1, <1>7, CountTypes DEF Dec
<1>9. CownRcExact' /\ rc' \in [Cown -> Nat]
  <2>1. ASSUME NEW c \in Cown
        PROVE  rc'[c] = rc[c] + (CountOf(regs'[b], c) - CountOf(regs[b], c))
                        + (Cardinality(Contents(c)') - Cardinality(Contents(c)))
                        + (Kept(c)' - Kept(c))
    <3>1. ~RefersTo(content[b], c)
      BY <1>3, EmptyCounts
    <3>2. Cardinality(Contents(c)') = Cardinality(Contents(c))
            + (IF RefersTo(v, c) THEN 1 ELSE 0) - (IF RefersTo(content[b], c) THEN 1 ELSE 0)
      BY <1>1, <1>3, ContentsChange
    <3>3. CountOf(regs'[b], c) = 0
      BY <1>5, EmptyCounts
    <3>4. /\ rc[c] \in Nat
          /\ Kept(c)' = Kept(c) /\ Kept(c) \in Nat
      BY <1>1, CountTypes DEF Kept
    <3>5. /\ n[c] = CountOf(regs[b], c) - (IF RefersTo(v, c) THEN 1 ELSE 0)
          /\ CountOf(regs[b], c) \in Nat /\ rc'[c] = rc[c] - n[c]
      BY <1>6, <1>8
    <3> QED
      BY <3>1, <3>2, <3>3, <3>4, <3>5, RequestsFinite
  <2>2. \A c \in Cown : WriteRequests(c)' = WriteRequests(c) /\ ReadRequests(c)' = ReadRequests(c)
    BY <1>1, <1>4 DEF WriteRequests, ReadRequests, Active
  <2> QED
    BY <1>5, <1>8, <2>1, <2>2, CountsChangeTogether
<1>10. /\ DestroyedExactly' /\ pending' \in [Behavior -> SUBSET Cown]
       /\ \A c \in Cown : phase'[c] = "unborn" => rc'[c] = 0
  <2>1. \A c \in Cown : phase'[c] = "unborn" <=> phase[c] = "unborn"
    BY <1>1, <1>4 DEF Cown
  <2> QED
    BY <1>1, <1>7, <1>9, <2>1, DecStep
<1>11. TypeOK'
  <2>1. mutable' \in [Behavior -> SUBSET Cown]
    BY <1>1, CountTypes
  <2> QED
    BY <1>1, <1>5, <1>9, <1>10, <2>1 DEF CountInv, TypeOK, IInv, Types, Phases, Modes
<1>12. IdleHoldNothing'
  BY <1>4, <1>5 DEF CountInv, IdleHoldNothing
<1>13. HeldRefsDone'
  <2>1. ASSUME NEW x \in Behavior, NEW c \in Cown, regs'[x][WRef(c)] > 0
        PROVE  phase'[c] = "done"
    <3>1. WRef(c) \in Handle
      BY WritableHandles
    <3>2. x # b
      BY <1>5, <2>1, <3>1 DEF NoRegs
    <3>3. phase[c] = "done"
      BY <1>5, <2>1, <3>2 DEF CountInv, HeldRefsDone
    <3> QED
      BY <1>1, <1>4, <3>3 DEF Cown
  <2> QED
    BY <2>1 DEF HeldRefsDone
<1>14. WrittenOnce'
  <2>1. \A c \in Cown : content'[c] = IF c = b THEN v ELSE content[c]
    BY <1>1, CountTypes
  <2> QED
    BY <1>1, <1>2, <1>4, <2>1 DEF CountInv, WrittenOnce, Cown
<1>15. UnbornUncounted'
  BY <1>1, <1>4, <1>10, BehaviourAssumption DEF CountInv, UnbornUncounted, Cown
<1> QED
  BY <1>9, <1>10, <1>11, <1>12, <1>13, <1>14, <1>15 DEF CountInv

\* The scheduler gives back one count for each request to write.
LEMMA FinishedCounts ==
  ASSUME CountInv, IInv', NEW b \in Behavior, Finished(b)
  PROVE  CountInv'
<1> DEFINE n == HeldBySlots(b)
<1>1. /\ phase[b] = "returned" /\ UNCHANGED <<access, content, regs, mutable, destroyed, ret>>
      /\ phase' = [phase EXCEPT ![b] = "done"]
      /\ Dec(b, n)
  BY DEF Finished
<1>2. \A x \in Behavior : phase'[x] = IF x = b THEN "done" ELSE phase[x]
  BY <1>1, CountTypes
<1>3. n \in [Cown -> Nat] /\ \A c \in Cown : n[c] = IF access[b][c] = "write" THEN 1 ELSE 0
  BY DEF HeldBySlots
<1> HIDE DEF n
<1>4. rc' \in [Cown -> Int] /\ \A c \in Cown : rc'[c] = rc[c] - n[c]
  BY <1>1, <1>3, CountTypes DEF Dec
<1>5. CownRcExact' /\ rc' \in [Cown -> Nat]
  <2>1. ASSUME NEW c \in Cown
        PROVE  rc'[c] = rc[c] + (Total(regs', c) - Total(regs, c))
                        + (Cardinality(WriteRequests(c)') - Cardinality(WriteRequests(c)))
                        + (Cardinality(ReadRequests(c)') - Cardinality(ReadRequests(c)))
                        + (Cardinality(Contents(c)') - Cardinality(Contents(c)))
                        + (Kept(c)' - Kept(c))
    <3>1. /\ WriteRequests(c)' = WriteRequests(c) \ {b}
          /\ (b \in WriteRequests(c) <=> access[b][c] = "write")
      BY <1>1, <1>2 DEF WriteRequests, Active
    <3>2. Cardinality(WriteRequests(c)') = Cardinality(WriteRequests(c)) - n[c]
      <4>1. Cardinality(WriteRequests(c) \ {b})
              = IF b \in WriteRequests(c) THEN Cardinality(WriteRequests(c)) - 1
                ELSE Cardinality(WriteRequests(c))
        BY RequestsFinite, FS_RemoveElement
      <4> QED
        BY <1>3, <3>1, <4>1, RequestsFinite
    <3>3. ReadRequests(c)' = ReadRequests(c)
      BY <1>1, <1>2 DEF ReadRequests
    <3>4. Contents(c)' = Contents(c) /\ Kept(c)' = Kept(c) /\ Kept(c) \in Nat
      BY <1>1 DEF Contents, Kept
    <3>5. /\ rc[c] \in Nat
          /\ regs' = regs /\ n[c] \in Nat /\ rc'[c] = rc[c] - n[c]
      BY <1>1, <1>3, <1>4, CountTypes
    <3>6. Total(regs', c) = Total(regs, c) /\ Total(regs, c) \in Nat
      BY <3>5, CountTypes, TotalBounds
    <3> QED
      BY <3>2, <3>3, <3>4, <3>5, <3>6, RequestsFinite
  <2>2. regs' \in [Behavior -> [Handle -> Nat]]
    BY <1>1, CountTypes
  <2> QED
    BY <1>4, <2>1, <2>2, CountsMove
<1>6. /\ DestroyedExactly' /\ pending' \in [Behavior -> SUBSET Cown]
      /\ \A c \in Cown : phase'[c] = "unborn" => rc'[c] = 0
  <2>1. \A c \in Cown : phase'[c] = "unborn" <=> phase[c] = "unborn"
    BY <1>1, <1>2 DEF Cown
  <2> QED
    BY <1>1, <1>3, <1>5, <2>1, DecStep
<1>7. TypeOK'
  BY <1>1, <1>5, <1>6 DEF CountInv, TypeOK, IInv, Types, Phases, Modes
<1>8. IdleHoldNothing' /\ HeldRefsDone'
  BY <1>1, <1>2 DEF CountInv, IdleHoldNothing, HeldRefsDone, Cown
<1>9. WrittenOnce'
  BY <1>1, <1>2 DEF CountInv, WrittenOnce, Cown
<1>10. UnbornUncounted'
  BY <1>1, <1>2, <1>6, BehaviourAssumption DEF CountInv, UnbornUncounted, Cown
<1> QED
  BY <1>5, <1>6, <1>7, <1>8, <1>9, <1>10 DEF CountInv

\* Program::run lets the result of main go.
LEMMA ProgramEndCounts ==
  ASSUME CountInv, IInv', ProgramEnd
  PROVE  CountInv'
<1> DEFINE n == One(Main)
<1>1. /\ ret /\ ~ret' /\ ret' \in BOOLEAN
      /\ UNCHANGED <<phase, access, waits, content, regs, mutable, destroyed>>
      /\ Dec(Main, n)
  BY DEF ProgramEnd
<1>2. Main \in Behavior
  BY BehaviourAssumption
<1>3. n \in [Cown -> Nat] /\ \A c \in Cown : n[c] = IF c = Main THEN 1 ELSE 0
  BY DEF One
<1> HIDE DEF n
<1>4. rc' \in [Cown -> Int] /\ \A c \in Cown : rc'[c] = rc[c] - n[c]
  BY <1>1, <1>3, CountTypes DEF Dec
<1>5. CownRcExact' /\ rc' \in [Cown -> Nat]
  <2>1. ASSUME NEW c \in Cown
        PROVE  rc'[c] = rc[c] + (CountOf(regs'[Main], c) - CountOf(regs[Main], c))
                        + (Cardinality(Contents(c)') - Cardinality(Contents(c)))
                        + (Kept(c)' - Kept(c))
    <3>1. /\ regs'[Main] = regs[Main] /\ regs[Main] \in [Handle -> Nat]
          /\ rc[c] \in Nat
      BY <1>1, <1>2, CountTypes
    <3>2. CountOf(regs'[Main], c) = CountOf(regs[Main], c) /\ CountOf(regs[Main], c) \in Nat
      BY <3>1, CountIsSum
    <3>3. Contents(c)' = Contents(c)
      BY <1>1 DEF Contents
    <3>4. Kept(c) = n[c] /\ Kept(c)' = 0 /\ n[c] \in Nat
      BY <1>1, <1>3 DEF Kept
    <3>5. rc'[c] = rc[c] - n[c]
      BY <1>4
    <3> QED
      BY <3>1, <3>2, <3>3, <3>4, <3>5, RequestsFinite
  <2>2. \A c \in Cown : WriteRequests(c)' = WriteRequests(c) /\ ReadRequests(c)' = ReadRequests(c)
    BY <1>1 DEF WriteRequests, ReadRequests, Active
  <2>3. /\ regs' \in [Behavior -> [Handle -> Nat]]
        /\ \A x \in Behavior : x # Main => regs'[x] = regs[x]
    BY <1>1, CountTypes
  <2> QED
    BY <1>2, <1>4, <2>1, <2>2, <2>3, CountsChangeTogether
<1>6. /\ DestroyedExactly' /\ pending' \in [Behavior -> SUBSET Cown]
      /\ \A c \in Cown : phase'[c] = "unborn" => rc'[c] = 0
  BY <1>1, <1>2, <1>3, <1>5, DecStep
<1>7. TypeOK'
  BY <1>1, <1>5, <1>6 DEF CountInv, TypeOK, IInv, Types
<1>8. IdleHoldNothing' /\ HeldRefsDone' /\ WrittenOnce' /\ UnbornUncounted'
  BY <1>1, <1>6 DEF CountInv, IdleHoldNothing, HeldRefsDone, WrittenOnce, UnbornUncounted
<1> QED
  BY <1>5, <1>6, <1>7, <1>8 DEF CountInv

\* A destroyed cown gives up the cown that was its content.
LEMMA DestroyCounts ==
  ASSUME CountInv, IInv', NEW b \in Behavior, NEW c \in Cown, Destroy(b, c)
  PROVE  CountInv'
<1> DEFINE inner == content[c]
           y == inner.cown
           holds == inner \in CownHandles
           last == holds /\ rc[y] = 1
           more == IF last THEN {y} ELSE {}
<1>1. /\ c \in pending[b] /\ UNCHANGED <<phase, access, waits, regs, mutable, ret>>
      /\ rc' = IF holds THEN [rc EXCEPT ![y] = @ - 1] ELSE rc
      /\ pending' = [pending EXCEPT ![b] = (@ \ {c}) \cup more]
      /\ content' = [content EXCEPT ![c] = Empty]
      /\ destroyed' = destroyed \cup {c}
  BY DEF Destroy
<1>2. holds => y \in Cown /\ rc[y] >= 1 /\ phase[y] # "unborn"
  <2>1. holds => y \in Cown
    BY HandleTypes DEF CownHandles
  <2> QED
    BY <2>1, ReferredIsCounted DEF CountInv, IInv, Born
<1>3. \A d \in Cown : RefersTo(inner, d) <=> holds /\ y = d
  BY RefersIs
<1>4. last => holds /\ rc[y] = 1
  OBVIOUS
<1>5. more = IF holds /\ rc[y] = 1 THEN {y} ELSE {}
  OBVIOUS
<1>6. phase[c] # "unborn" /\ rc[c] = 0 /\ c \notin destroyed
  BY <1>1 DEF CountInv, DestroyedExactly
<1>7. phase[c] = "done"
  <2>1. ~Active(c)
    <3>1. Active(c) => rc[c] >= 1
      BY ReferredIsCounted DEF CountInv, IInv, OwnResult, Cown
    <3> QED
      BY <1>6, <3>1
  <2> QED
    BY <1>6, <2>1, CountTypes DEF Active, Phases, Cown
<1> HIDE DEF y, holds, more, last
<1>8. rc' \in [Cown -> Int] /\ \A d \in Cown :
        rc'[d] = rc[d] - (IF holds /\ y = d THEN 1 ELSE 0)
  BY <1>1, <1>2, CountTypes
<1>9. CownRcExact' /\ rc' \in [Cown -> Nat]
  <2>1. ASSUME NEW d \in Cown
        PROVE  rc'[d] = rc[d] + (CountOf(regs'[b], d) - CountOf(regs[b], d))
                        + (Cardinality(Contents(d)') - Cardinality(Contents(d)))
                        + (Kept(d)' - Kept(d))
    <3>1. ~RefersTo(Empty, d)
      BY EmptyCounts
    <3>2. Cardinality(Contents(d)') = Cardinality(Contents(d))
            + (IF RefersTo(Empty, d) THEN 1 ELSE 0) - (IF RefersTo(inner, d) THEN 1 ELSE 0)
      BY <1>1, ContentsChange
    <3>3. regs'[b] = regs[b] /\ CountOf(regs[b], d) \in Nat
      BY <1>1, CountTypes, CountIsSum
    <3>4. /\ rc[d] \in Nat
          /\ Kept(d)' = Kept(d) /\ Kept(d) \in Nat
      BY <1>1, CountTypes DEF Kept
    <3>5. rc'[d] = rc[d] - (IF RefersTo(inner, d) THEN 1 ELSE 0)
      BY <1>3, <1>8
    <3> QED
      BY <3>1, <3>2, <3>3, <3>4, <3>5, RequestsFinite
  <2>2. \A d \in Cown : WriteRequests(d)' = WriteRequests(d) /\ ReadRequests(d)' = ReadRequests(d)
    BY <1>1 DEF WriteRequests, ReadRequests, Active
  <2>3. /\ regs' \in [Behavior -> [Handle -> Nat]]
        /\ \A x \in Behavior : x # b => regs'[x] = regs[x]
    BY <1>1, CountTypes
  <2> QED
    BY <1>8, <2>1, <2>2, <2>3, CountsChangeTogether
<1>10. \A x \in Behavior :
         pending'[x] = IF x = b THEN (pending[x] \ {c}) \cup more ELSE pending[x]
  BY <1>1, CountTypes
<1>11. more \subseteq Cown /\ c \notin more
  BY <1>2, <1>5, <1>6
<1>12. pending' \in [Behavior -> SUBSET Cown]
  BY <1>1, <1>11, CountTypes
<1>13. DestroyedExactly'
  <2> SUFFICES ASSUME NEW d \in Cown
               PROVE  /\ (d \in destroyed' \/ \E x \in Behavior : d \in pending'[x])
                           <=> phase'[d] # "unborn" /\ rc'[d] = 0
                      /\ \A x, z \in Behavior : d \in pending'[x] \cap pending'[z] => x = z
                      /\ d \in destroyed' => \A x \in Behavior : d \notin pending'[x]
    BY DEF DestroyedExactly
  <2>1. /\ (d \in destroyed \/ \E x \in Behavior : d \in pending[x])
              <=> phase[d] # "unborn" /\ rc[d] = 0
        /\ \A x, z \in Behavior : d \in pending[x] \cap pending[z] => x = z
        /\ d \in destroyed => \A x \in Behavior : d \notin pending[x]
    BY DEF CountInv, DestroyedExactly
  <2>2. phase'[d] = phase[d] /\ (d \in destroyed' <=> d \in destroyed \/ d = c)
    BY <1>1
  <2>3. CASE d = c
    <3>1. rc'[d] = 0
      BY <1>2, <1>6, <1>8, <2>3
    <3>2. \A x \in Behavior : d \notin pending'[x]
      BY <1>1, <1>10, <1>11, <2>1, <2>3
    <3> QED
      BY <1>6, <2>2, <2>3, <3>1, <3>2
  <2>4. CASE d # c /\ d \in more
    <3>1. holds /\ d = y /\ rc[d] = 1 /\ rc'[d] = 0 /\ phase[d] # "unborn"
      BY <1>2, <1>5, <1>8, <2>4
    <3>2. d \notin destroyed /\ \A x \in Behavior : d \notin pending[x]
      BY <2>1, <3>1
    <3>3. \A x \in Behavior : d \in pending'[x] <=> x = b
      BY <1>10, <2>4, <3>2
    <3> QED
      BY <2>2, <2>4, <3>1, <3>2, <3>3
  <2>5. CASE d # c /\ d \notin more
    <3>1. rc'[d] = 0 <=> rc[d] = 0
      <4>1. rc[d] \in Nat
        BY CountTypes
      <4> QED
        BY <1>2, <1>5, <1>8, <2>5, <4>1
    <3>2. \A x \in Behavior : d \in pending'[x] <=> d \in pending[x]
      BY <1>10, <2>5
    <3> QED
      BY <2>1, <2>2, <2>5, <3>1, <3>2
  <2> QED
    BY <2>3, <2>4, <2>5
<1>14. TypeOK'
  BY <1>1, <1>9, <1>12 DEF CountInv, TypeOK, IInv, Types
<1>15. IdleHoldNothing' /\ HeldRefsDone'
  BY <1>1 DEF CountInv, IdleHoldNothing, HeldRefsDone
<1>16. WrittenOnce'
  <2>1. \A d \in Cown : content'[d] = IF d = c THEN Empty ELSE content[d]
    BY <1>1, CountTypes
  <2> QED
    BY <1>1, <1>7, <2>1 DEF CountInv, WrittenOnce
<1>17. UnbornUncounted'
  <2>1. ASSUME NEW d \in Cown, phase[d] = "unborn" PROVE rc'[d] = 0
    BY <1>2, <1>8, <2>1 DEF CountInv, UnbornUncounted
  <2> QED
    BY <1>1, <2>1 DEF CountInv, UnbornUncounted
<1> QED
  BY <1>9, <1>13, <1>14, <1>15, <1>16, <1>17 DEF CountInv

-------------------------------------------------------------------------------
(* The start of a behaviour *)

\* Each requested cown but its own result gets a reference: one to write is counted
\* once more, one to read is not.
LEMMA StartCounts ==
  ASSUME CountInv, IInv', NEW b \in Behavior, Start(b)
  PROVE  CountInv'
<1> DEFINE mode(h) == IF h.readonly THEN "read" ELSE "write"
           given == {h \in Handle : /\ h.kind = "ref" /\ h.cown # b
                                    /\ access[b][h.cown] = mode(h)}
           d == [h \in Handle |-> IF h \in given THEN 1 ELSE 0]
<1>1. /\ phase[b] = "queued" /\ waits[b] = {}
      /\ UNCHANGED <<access, waits, content, mutable, pending, destroyed, ret>>
      /\ regs' = [regs EXCEPT ![b] = [h \in Handle |->
                    regs[b][h] + (IF h \in given THEN 1 ELSE 0)]]
      /\ rc' = [c \in Cown |-> rc[c] + (IF WRef(c) \in given THEN 1 ELSE 0)]
      /\ phase' = [phase EXCEPT ![b] = "running"]
  BY Zenon DEF Start, WRef
<1>2. \A x \in Behavior : phase'[x] = IF x = b THEN "running" ELSE phase[x]
  BY <1>1, CountTypes
<1>3. Active(b) /\ b \in Cown
  BY <1>1 DEF Active, Cown
<1>4. \A h \in Handle : h \in given <=>
        /\ h.kind = "ref" /\ h.cown # b
        /\ access[b][h.cown] = IF h.readonly THEN "read" ELSE "write"
  OBVIOUS
<1> HIDE DEF given
<1>5. ASSUME NEW c \in Cown
      PROVE  WRef(c) \in given <=> c # b /\ access[b][c] = "write"
  <2> DEFINE h == WRef(c)
  <2>1. h \in Handle /\ h.kind = "ref" /\ h.cown = c /\ h.readonly = FALSE
    BY WritableHandles
  <2> HIDE DEF h
  <2>2. h \in given <=> c # b /\ access[b][c] = "write"
    BY <1>4, <2>1
  <2> QED
    BY <2>2 DEF h
<1>6. d \in [Handle -> Int] /\ \A h \in Handle : d[h] = IF h \in given THEN 1 ELSE 0
  OBVIOUS
<1> HIDE DEF d
<1>7. ASSUME NEW c \in Cown
      PROVE  CountOf(d, c) = IF c # b /\ access[b][c] = "write" THEN 1 ELSE 0
  <2> DEFINE h1 == CownValue(c, TRUE)   h2 == CownValue(c, FALSE)
             h3 == WRef(c)
  <2>1. /\ h1 \in Handle /\ h2 \in Handle /\ h3 \in Handle
        /\ h1.kind = "cown" /\ h2.kind = "cown"
    BY HandleFacts, WritableHandles
  <2>2. CountOf(d, c) = d[h1] + d[h2] + d[h3]
    BY Zenon DEF CountOf, WRef
  <2>3. h3 \in given <=> c # b /\ access[b][c] = "write"
    BY <1>5
  <2> HIDE DEF h1, h2, h3
  <2>4. d[h1] = 0 /\ d[h2] = 0
    BY <1>4, <1>6, <2>1
  <2>5. d[h3] = IF c # b /\ access[b][c] = "write" THEN 1 ELSE 0
    BY <1>6, <2>1, <2>3
  <2> QED
    BY <2>2, <2>4, <2>5
<1>8. /\ regs' \in [Behavior -> [Handle -> Nat]]
      /\ \A x \in Behavior : x # b => regs'[x] = regs[x]
      /\ \A h \in Handle : regs'[b][h] = regs[b][h] + d[h]
  <2> DEFINE g == [h \in Handle |-> regs[b][h] + (IF h \in given THEN 1 ELSE 0)]
  <2>1. g \in [Handle -> Nat]
    BY CountTypes
  <2>2. \A h \in Handle : g[h] = regs[b][h] + d[h]
    BY <1>6
  <2>3. regs' = [regs EXCEPT ![b] = g]
    BY <1>1
  <2> HIDE DEF g
  <2> QED
    BY <2>1, <2>2, <2>3, CountTypes
<1>9. rc' \in [Cown -> Nat] /\ \A c \in Cown :
        rc'[c] = rc[c] + (IF c # b /\ access[b][c] = "write" THEN 1 ELSE 0)
  BY <1>1, <1>5, CountTypes
<1>10. CownRcExact'
  <2>1. ASSUME NEW c \in Cown
        PROVE  rc'[c] = rc[c] + (CountOf(regs'[b], c) - CountOf(regs[b], c))
                        + (Cardinality(Contents(c)') - Cardinality(Contents(c)))
                        + (Kept(c)' - Kept(c))
    <3>1. Contents(c)' = Contents(c) /\ Kept(c)' = Kept(c) /\ Kept(c) \in Nat
      BY <1>1 DEF Contents, Kept
    <3>2. /\ rc[c] \in Nat
          /\ regs[b] \in [Handle -> Int] /\ regs'[b] \in [Handle -> Int]
          /\ regs[b] \in [Handle -> Nat]
      BY <1>8, CountTypes
    <3>3. CountOf(regs'[b], c) = CountOf(regs[b], c) + CountOf(d, c)
      BY <1>6, <1>8, <3>2, CountAdds
    <3>4. CountOf(regs[b], c) \in Nat
      BY <3>2, CountIsSum
    <3>5. /\ CountOf(d, c) = IF c # b /\ access[b][c] = "write" THEN 1 ELSE 0
          /\ rc'[c] = rc[c] + (IF c # b /\ access[b][c] = "write" THEN 1 ELSE 0)
      BY <1>7, <1>9
    <3> QED
      BY <3>1, <3>2, <3>3, <3>4, <3>5, RequestsFinite
  <2>2. \A c \in Cown : /\ WriteRequests(c)' = WriteRequests(c)
                       /\ ReadRequests(c)' = ReadRequests(c)
    BY <1>1, <1>2 DEF WriteRequests, ReadRequests, Active
  <2>3. rc' \in [Cown -> Int]
    BY <1>9
  <2> QED
    BY <1>8, <2>1, <2>2, <2>3, CountsChangeTogether
<1>11. /\ DestroyedExactly' /\ pending' \in [Behavior -> SUBSET Cown]
       /\ \A c \in Cown : phase'[c] = "unborn" => rc'[c] = 0
  <2>1. \A c \in Cown : phase'[c] = "unborn" <=> phase[c] = "unborn"
    BY <1>1, <1>2 DEF Cown
  <2>2. ASSUME NEW c \in Cown, rc'[c] # rc[c] PROVE rc[c] >= 1 /\ rc'[c] >= 1
    <3>1. access[b][c] = "write" /\ rc[c] \in Nat /\ rc'[c] = rc[c] + 1
      BY <1>9, <2>2, CountTypes
    <3>2. rc[c] >= 1
      BY <1>3, <3>1, ReferredIsCounted
    <3> QED
      BY <3>1, <3>2
  <2> QED
    BY <1>1, <1>9, <2>1, <2>2, IncStep
<1>12. TypeOK'
  BY <1>1, <1>8, <1>9, <1>11 DEF CountInv, TypeOK, IInv, Types, Phases, Modes
<1>13. IdleHoldNothing'
  BY <1>2, <1>8 DEF CountInv, IdleHoldNothing
<1>14. HeldRefsDone'
  <2>1. ASSUME NEW x \in Behavior, NEW c \in Cown, regs'[x][WRef(c)] > 0
        PROVE  phase'[c] = "done"
    <3>1. WRef(c) \in Handle /\ regs[x][WRef(c)] \in Nat
      BY WritableHandles, CountTypes
    <3>2. CASE regs[x][WRef(c)] > 0
      <4>1. phase[c] = "done"
        BY <3>2 DEF CountInv, HeldRefsDone
      <4> QED
        BY <1>1, <1>2, <4>1 DEF Cown
    <3>3. CASE regs[x][WRef(c)] = 0
      <4>1. x = b /\ d[WRef(c)] # 0
        BY <1>8, <2>1, <3>1, <3>3
      <4>2. c # b /\ access[b][c] = "write"
        BY <1>5, <1>6, <3>1, <4>1
      <4>3. phase[c] = "done"
        BY <1>1, <1>3, <4>2 DEF CountInv, IInv, ResultOrdered
      <4> QED
        BY <1>2, <4>2, <4>3 DEF Cown
    <3> QED
      BY <3>1, <3>2, <3>3
  <2> QED
    BY <2>1 DEF HeldRefsDone
<1>15. WrittenOnce'
  BY <1>1, <1>2 DEF CountInv, WrittenOnce, Cown
<1>16. UnbornUncounted'
  BY <1>1, <1>2, <1>11, BehaviourAssumption DEF CountInv, UnbornUncounted, Cown
<1> QED
  BY <1>10, <1>11, <1>12, <1>13, <1>14, <1>15, <1>16 DEF CountInv

\* The arguments of a new behaviour move from registers to requests, what its closure
\* captured to its own registers; its result is counted for a register and a request.
LEMMA WhenCounts ==
  ASSUME CountInv, IInv', NEW b \in Behavior, NEW new \in Behavior,
         NEW args \in SUBSET Held(b), NEW captured \in SUBSET Capturable(b),
         When(b, new, args, captured)
  PROVE  CountInv'
<1> DEFINE R == Requests(new, args)
           r == CownValue(new, FALSE)
           left == [h \in Handle |->
                     regs[b][h] + (IF h \in args \cup captured THEN -1 ELSE 0)
                                + (IF h = r THEN 1 ELSE 0)]
           closure == [h \in Handle |-> IF h \in captured THEN 1 ELSE 0]
           d == [h \in Handle |-> (IF h \in args \cup captured THEN -1 ELSE 0)
                                + (IF h = r THEN 1 ELSE 0)]
           moved(c) == IF c # new /\ R[c] # "none" THEN 1 ELSE 0
<1>1. /\ phase[b] = "running" /\ phase[new] = "unborn"
      /\ args \cap captured = {}
      /\ \A h, k \in args : h.cown = k.cown => h = k
      /\ phase' = [phase EXCEPT ![new] = "queued"]
      /\ access' = [access EXCEPT ![new] = R]
      /\ UNCHANGED <<content, mutable, pending, destroyed, ret>>
  BY DEF When, Executes
<1>2. rc' = [rc EXCEPT ![new] = ResultCounts]
  BY DEF When
<1>3. regs' = [regs EXCEPT ![b] = left, ![new] = closure]
  BY DEF When
<1>4. new # b /\ new \in Cown /\ b \in Cown
  BY <1>1 DEF Cown
<1>5. ASSUME NEW h \in args \cup captured
      PROVE  /\ h \in Handle /\ h.cown \in Cown
             /\ regs[b][h] > 0 /\ h.cown # new
             /\ h \in args => h.kind = "cown"
  <2>1. h \in Handle /\ regs[b][h] > 0 /\ (h \in args => h.kind = "cown")
    BY <1>1, CapturedFacts DEF Held, CownHandles
  <2> QED
    BY <1>1, <2>1, HeldIsBorn
<1>6. r \in Handle /\ r.kind = "cown" /\ r.cown = new
  BY <1>4, HandleFacts
<1>7. regs[new] = NoRegs /\ content[new] = Empty /\ rc[new] = 0
  BY <1>1, <1>4 DEF CountInv, IdleHoldNothing, WrittenOnce, UnbornUncounted
<1>8. ASSUME NEW c \in Cown
      PROVE  /\ R[c] \in {"none", "read", "write"} /\ R[new] = "write"
             /\ c # new => (R[c] = "read" <=> CownValue(c, TRUE) \in args)
             /\ c # new => (R[c] # "none" <=> CownValue(c, TRUE) \in args
                                              \/ CownValue(c, FALSE) \in args)
  BY <1>4 DEF Requests
<1>9. \A x \in Behavior : /\ phase'[x] = IF x = new THEN "queued" ELSE phase[x]
                         /\ access'[x] = IF x = new THEN R ELSE access[x]
  BY <1>1, CountTypes
<1> HIDE DEF R, r
<1>10. /\ left \in [Handle -> Nat] /\ closure \in [Handle -> Nat] /\ d \in [Handle -> Int]
       /\ \A h \in Handle : left[h] = regs[b][h] + d[h]
       /\ \A h \in Handle : closure[h] = IF h \in captured THEN 1 ELSE 0
       /\ \A h \in Handle : d[h] = (IF h \in args \cup captured THEN -1 ELSE 0)
                                 + (IF h = r THEN 1 ELSE 0)
  <2>1. \A h \in Handle : regs[b][h] \in Nat
    BY CountTypes
  <2>2. d \in [Handle -> Int] /\ closure \in [Handle -> Nat]
    OBVIOUS
  <2>3. ASSUME NEW h \in Handle PROVE left[h] \in Nat /\ left[h] = regs[b][h] + d[h]
    BY <1>5, <2>1
  <2>4. left \in [Handle -> Nat]
    BY <2>3
  <2> QED
    BY <2>2, <2>3, <2>4
<1> HIDE DEF left, closure, d
<1> DEFINE F == [regs EXCEPT ![b] = left]
<1>11. /\ F \in [Behavior -> [Handle -> Nat]] /\ regs' \in [Behavior -> [Handle -> Nat]]
       /\ \A x \in Behavior : x # b => F[x] = regs[x]
       /\ \A x \in Behavior : x # new => regs'[x] = F[x]
       /\ F[b] = left /\ regs'[new] = closure /\ F[new] = NoRegs
       /\ regs'[b] = left /\ \A x \in Behavior : x \notin {b, new} => regs'[x] = regs[x]
  BY <1>3, <1>4, <1>7, <1>10, CountTypes
<1> HIDE DEF F
<1>12. ASSUME NEW c \in Cown
       PROVE  CountOf(d, c) + CountOf(closure, c) = (IF c = new THEN 1 ELSE 0) - moved(c)
  <2> DEFINE h1 == CownValue(c, TRUE)   h2 == CownValue(c, FALSE)
             h3 == CownRef(c, FALSE)
  <2>1. /\ h1 \in Handle /\ h2 \in Handle /\ h3 \in Handle
        /\ h1.cown = c /\ h2.cown = c /\ h3.cown = c /\ h3.kind = "ref"
        /\ h1.readonly = TRUE /\ h2.readonly = FALSE /\ h1 # h2
    BY HandleFacts
  <2>2. /\ CountOf(d, c) = d[h1] + d[h2] + d[h3]
        /\ CountOf(closure, c) = closure[h1] + closure[h2] + closure[h3]
    BY DEF CountOf
  <2>3. c # new => (R[c] # "none" <=> h1 \in args \/ h2 \in args)
    BY <1>8
  <2>4. h2 = r <=> c = new
    <3>1. c = new => h2 = r
      BY DEF r
    <3> QED
      BY <1>6, <2>1, <3>1
  <2>5. h1 # r
    BY <1>4, <2>1, HandleFacts DEF r
  <2> HIDE DEF h1, h2, h3
  <2>6. /\ h3 \notin args /\ h3 # r
        /\ ~(h1 \in args /\ h2 \in args)
        /\ c = new => h1 \notin args \cup captured /\ h2 \notin args \cup captured
    BY <1>1, <1>5, <1>6, <2>1
  <2>7. /\ d[h3] + closure[h3] = 0
        /\ d[h3] \in Int /\ closure[h3] \in Int
    BY <1>10, <2>1, <2>6
  <2>8. /\ d[h1] + closure[h1] = IF h1 \in args THEN -1 ELSE 0
        /\ d[h1] \in Int /\ closure[h1] \in Int
    BY <1>1, <1>10, <2>1, <2>5
  <2>9. /\ d[h2] + closure[h2] = (IF h2 \in args THEN -1 ELSE 0) + (IF c = new THEN 1 ELSE 0)
        /\ d[h2] \in Int /\ closure[h2] \in Int
    BY <1>1, <1>10, <2>1, <2>4
  <2>10. CountOf(d, c) + CountOf(closure, c) = (d[h1] + closure[h1]) + (d[h2] + closure[h2])
    BY <2>2, <2>7, <2>8, <2>9
  <2>11. moved(c) = IF h1 \in args \/ h2 \in args THEN 1 ELSE 0
    BY <2>3, <2>6
  <2> HIDE DEF moved
  <2> QED
    BY <2>6, <2>8, <2>9, <2>10, <2>11
<1>13. ASSUME NEW c \in Cown
       PROVE  /\ Total(regs', c) = Total(regs, c) + (IF c = new THEN 1 ELSE 0) - moved(c)
              /\ Total(regs, c) \in Nat /\ Total(regs', c) \in Nat
  <2>1. /\ regs \in [Behavior -> [Handle -> Nat]] /\ regs[b] \in [Handle -> Nat]
        /\ regs[b] \in [Handle -> Int] /\ left \in [Handle -> Int] /\ closure \in [Handle -> Nat]
    BY <1>10, CountTypes
  <2>2. Total(F, c) = Total(regs, c) - CountOf(regs[b], c) + CountOf(left, c)
    BY <1>11, <2>1, TotalChange
  <2>3. Total(regs', c) = Total(F, c) - CountOf(NoRegs, c) + CountOf(closure, c)
    BY <1>11, <2>1, TotalChange
  <2>4. CountOf(left, c) = CountOf(regs[b], c) + CountOf(d, c) /\ CountOf(d, c) \in Int
    BY <1>10, <2>1, CountAdds
  <2>5. /\ CountOf(regs[b], c) \in Nat /\ CountOf(closure, c) \in Nat /\ CountOf(NoRegs, c) = 0
    BY <2>1, CountIsSum, EmptyCounts
  <2>6. Total(regs, c) \in Nat /\ Total(regs', c) \in Nat
    BY <1>11, <2>1, TotalBounds
  <2>7. CountOf(d, c) + CountOf(closure, c) = (IF c = new THEN 1 ELSE 0) - moved(c)
    BY <1>12
  <2>8. moved(c) \in Int
    OBVIOUS
  <2> HIDE DEF moved
  <2> QED
    BY <2>2, <2>3, <2>4, <2>5, <2>6, <2>7, <2>8
<1>14. rc' \in [Cown -> Nat] /\ \A c \in Cown :
         rc'[c] = rc[c] + (IF c = new THEN 2 ELSE 0)
  BY <1>2, <1>4, <1>7, CountTypes DEF ResultCounts
<1>15. CownRcExact'
  <2>1. ASSUME NEW c \in Cown
        PROVE  rc'[c] = rc[c] + (Total(regs', c) - Total(regs, c))
                        + (Cardinality(WriteRequests(c)') - Cardinality(WriteRequests(c)))
                        + (Cardinality(ReadRequests(c)') - Cardinality(ReadRequests(c)))
                        + (Cardinality(Contents(c)') - Cardinality(Contents(c)))
                        + (Kept(c)' - Kept(c))
    <3>1. /\ new \notin WriteRequests(c)
          /\ WriteRequests(c)' = IF R[c] = "write" THEN WriteRequests(c) \cup {new}
                                 ELSE WriteRequests(c)
      BY <1>1, <1>9 DEF WriteRequests, Active
    <3>2. /\ new \notin ReadRequests(c)
          /\ ReadRequests(c)' = IF R[c] = "read" THEN ReadRequests(c) \cup {new}
                                ELSE ReadRequests(c)
      <4>1. access[new][c] # "read"
        BY <1>1 DEF CountInv, UnbornUncounted
      <4> QED
        BY <1>9, <4>1 DEF ReadRequests
    <3>3. /\ Cardinality(WriteRequests(c) \cup {new}) = Cardinality(WriteRequests(c)) + 1
          /\ Cardinality(ReadRequests(c) \cup {new}) = Cardinality(ReadRequests(c)) + 1
      BY <3>1, <3>2, RequestsFinite, FS_AddElement
    <3>4. /\ Cardinality(WriteRequests(c)') = Cardinality(WriteRequests(c))
                                              + (IF R[c] = "write" THEN 1 ELSE 0)
          /\ Cardinality(ReadRequests(c)') = Cardinality(ReadRequests(c))
                                             + (IF R[c] = "read" THEN 1 ELSE 0)
      BY <3>1, <3>2, <3>3, RequestsFinite
    <3>5. Contents(c)' = Contents(c) /\ Kept(c)' = Kept(c) /\ Kept(c) \in Nat
      BY <1>1 DEF Contents, Kept
    <3>6. rc[c] \in Nat
      BY <1>1, CountTypes
    <3>7. /\ Total(regs', c) = Total(regs, c) + (IF c = new THEN 1 ELSE 0) - moved(c)
          /\ Total(regs, c) \in Nat /\ Total(regs', c) \in Nat
          /\ rc'[c] = rc[c] + (IF c = new THEN 2 ELSE 0)
          /\ moved(c) = IF c # new /\ R[c] # "none" THEN 1 ELSE 0
          /\ R[new] = "write" /\ R[c] \in {"none", "read", "write"}
      BY <1>8, <1>13, <1>14
    <3>8. (IF c = new THEN 2 ELSE 0)
            = ((IF c = new THEN 1 ELSE 0) - moved(c)) + (IF R[c] = "write" THEN 1 ELSE 0)
              + (IF R[c] = "read" THEN 1 ELSE 0)
      BY <3>7
    <3>9. moved(c) \in Int
      OBVIOUS
    <3> HIDE DEF moved
    <3>10. /\ Total(regs', c) - Total(regs, c) = (IF c = new THEN 1 ELSE 0) - moved(c)
           /\ Cardinality(WriteRequests(c)') - Cardinality(WriteRequests(c))
                = IF R[c] = "write" THEN 1 ELSE 0
           /\ Cardinality(ReadRequests(c)') - Cardinality(ReadRequests(c))
                = IF R[c] = "read" THEN 1 ELSE 0
           /\ Cardinality(Contents(c)') - Cardinality(Contents(c)) = 0
           /\ Kept(c)' - Kept(c) = 0
      BY <3>4, <3>5, <3>6, <3>7, <3>9, RequestsFinite
    <3> QED
      BY <3>6, <3>7, <3>8, <3>9, <3>10
  <2>2. rc' \in [Cown -> Int]
    BY <1>14
  <2> QED
    BY <1>11, <2>1, <2>2, CountsMove
<1>16. DestroyedExactly'
  <2> SUFFICES ASSUME NEW c \in Cown
               PROVE  /\ (c \in destroyed' \/ \E x \in Behavior : c \in pending'[x])
                           <=> phase'[c] # "unborn" /\ rc'[c] = 0
                      /\ \A x, y \in Behavior : c \in pending'[x] \cap pending'[y] => x = y
                      /\ c \in destroyed' => \A x \in Behavior : c \notin pending'[x]
    BY DEF DestroyedExactly
  <2>1. /\ (c \in destroyed \/ \E x \in Behavior : c \in pending[x])
              <=> phase[c] # "unborn" /\ rc[c] = 0
        /\ \A x, y \in Behavior : c \in pending[x] \cap pending[y] => x = y
        /\ c \in destroyed => \A x \in Behavior : c \notin pending[x]
    BY DEF CountInv, DestroyedExactly
  <2>2. pending' = pending /\ destroyed' = destroyed
    BY <1>1
  <2>3. CASE c = new
    <3>1. phase[c] = "unborn" /\ phase'[c] # "unborn" /\ rc[c] = 0 /\ rc'[c] = 2
      BY <1>1, <1>7, <1>14, <2>3, CountTypes
    <3> QED
      BY <2>1, <2>2, <3>1
  <2>4. CASE c # new
    <3>1. phase'[c] = phase[c] /\ rc'[c] = rc[c]
      BY <1>2, <1>9, <2>4, CountTypes DEF Cown
    <3> QED
      BY <2>1, <2>2, <3>1
  <2> QED
    BY <2>3, <2>4
<1>17. TypeOK'
  BY <1>1, <1>11, <1>14 DEF CountInv, TypeOK, IInv, Types, Phases, Modes
<1>18. IdleHoldNothing'
  BY <1>1, <1>9, <1>11 DEF CountInv, IdleHoldNothing
<1>19. HeldRefsDone'
  <2>1. ASSUME NEW x \in Behavior, NEW c \in Cown, regs'[x][WRef(c)] > 0
        PROVE  phase'[c] = "done"
    <3>1. WRef(c) \in Handle /\ WRef(c) # r
      BY <1>6, WritableHandles
    <3>2. \E y \in Behavior : regs[y][WRef(c)] > 0
      <4>1. CASE x = new
        <5>1. WRef(c) \in captured
          BY <1>10, <1>11, <2>1, <3>1, <4>1
        <5>2. regs[b][WRef(c)] > 0
          BY <1>5, <5>1
        <5> QED
          BY <5>2
      <4>2. CASE x = b
        <5>1. regs[b][WRef(c)] \in Nat /\ d[WRef(c)] <= 0 /\ d[WRef(c)] \in Int
          <6> DEFINE h == WRef(c)
          <6>1. h \in Handle /\ h # r
            BY <3>1
          <6> HIDE DEF h
          <6>2. d[h] = IF h \in args \cup captured THEN -1 ELSE 0
            BY <1>10, <6>1
          <6>3. regs[b][h] \in Nat
            BY <6>1, CountTypes
          <6> QED
            BY <6>2, <6>3 DEF h
        <5>2. regs'[b][WRef(c)] = regs[b][WRef(c)] + d[WRef(c)]
          BY <1>10, <1>11, <3>1
        <5> QED
          BY <2>1, <4>2, <5>1, <5>2
      <4> QED
        BY <1>11, <2>1, <4>1, <4>2
    <3>3. phase[c] = "done"
      BY <3>2 DEF CountInv, HeldRefsDone
    <3> QED
      BY <1>1, <1>9, <3>3 DEF Cown
  <2> QED
    BY <2>1 DEF HeldRefsDone
<1>20. WrittenOnce'
  BY <1>1, <1>7, <1>9 DEF CountInv, WrittenOnce, Cown
<1>21. UnbornUncounted'
  <2>1. ASSUME NEW c \in Cown, phase'[c] = "unborn" PROVE rc'[c] = 0
    <3>1. c # new /\ phase[c] = "unborn"
      BY <1>9, <2>1 DEF Cown
    <3> QED
      BY <1>2, <3>1, CountTypes DEF CountInv, UnbornUncounted
  <2> QED
    BY <1>9, <2>1, BehaviourAssumption DEF CountInv, UnbornUncounted
<1> QED
  BY <1>15, <1>16, <1>17, <1>18, <1>19, <1>20, <1>21 DEF CountInv

-------------------------------------------------------------------------------
(* The invariant *)

\* At the start main's result is counted by its request and by Program::run, and
\* nothing else is counted.
LEMMA InitCounts ==
  ASSUME Init
  PROVE  CountInv
<1>1. IInv
  BY InitInv
<1>2. Main \in Behavior /\ Main \in Cown
  BY BehaviourAssumption DEF Cown
<1>3. TypeOK
  BY <1>2 DEF Init, TypeOK, NoRegs, Cown
<1>4. /\ \A b \in Behavior : regs[b] = NoRegs
      /\ \A c \in Cown : /\ content[c] = Empty
                         /\ rc[c] = (IF c = Main THEN 2 ELSE 0)
                         /\ phase[c] = (IF c = Main THEN "queued" ELSE "unborn")
  BY DEF Init, Cown
<1>5. IdleHoldNothing /\ WrittenOnce /\ UnbornUncounted
  <2>1. \A b \in Behavior : \A c \in Cown : access[b][c] # "read"
    BY DEF Init
  <2> QED
    BY <1>2, <1>4, <2>1 DEF IdleHoldNothing, WrittenOnce, UnbornUncounted, Cown
<1>6. HeldRefsDone
  <2>1. \A c \in Cown : WRef(c) \in Handle
    BY WritableHandles
  <2>2. \A b \in Behavior : \A h \in Handle : regs[b][h] = 0
    BY <1>4 DEF NoRegs
  <2> QED
    BY <2>1, <2>2 DEF HeldRefsDone
<1>7. DestroyedExactly
  BY <1>4 DEF Init, DestroyedExactly
<1>8. CownRcExact
  <2>1. ASSUME NEW c \in Cown
        PROVE  rc[c] = Total(regs, c) + Cardinality(WriteRequests(c)) + Cardinality(ReadRequests(c))
                       + Cardinality(Contents(c)) + Kept(c)
    <3>1. regs \in [Behavior -> [Handle -> Nat]]
      BY <1>3 DEF TypeOK
    <3>2. \A b \in Behavior : CountOf(regs[b], c) = 0
      BY <1>4, EmptyCounts
    <3>3. Total(regs, c) = 0
      BY <3>1, <3>2, TotalBounds
    <3>4. ReadRequests(c) = {}
      BY <1>2 DEF Init, ReadRequests, Cown
    <3>5. Contents(c) = {}
      <4>1. ~RefersTo(Empty, c)
        BY EmptyCounts
      <4> QED
        BY <1>4, <4>1 DEF Contents, RefersTo
    <3>6. WriteRequests(c) = IF c = Main THEN {Main} ELSE {}
      BY <1>2 DEF Init, WriteRequests, Active, Cown
    <3>7. Cardinality(WriteRequests(c)) = IF c = Main THEN 1 ELSE 0
      BY <3>6, FS_Singleton, FS_EmptySet
    <3>8. Cardinality(ReadRequests(c)) = 0 /\ Cardinality(Contents(c)) = 0
      BY <3>4, <3>5, FS_EmptySet
    <3>9. Kept(c) = IF c = Main THEN 1 ELSE 0
      BY DEF Init, Kept
    <3> QED
      BY <1>4, <3>3, <3>7, <3>8, <3>9
  <2> QED
    BY <2>1, ExactIs
<1> QED
  BY <1>1, <1>3, <1>5, <1>6, <1>7, <1>8 DEF CountInv

LEMMA StutterCounts ==
  ASSUME CountInv, IInv', UNCHANGED vars
  PROVE  CountInv'
<1>1. /\ TypeOK' /\ IdleHoldNothing' /\ HeldRefsDone' /\ WrittenOnce' /\ UnbornUncounted'
      /\ DestroyedExactly'
  BY DEF vars, CountInv, TypeOK, IdleHoldNothing, HeldRefsDone, WrittenOnce, UnbornUncounted,
         DestroyedExactly
<1>2. \A c \in Cown : /\ WriteRequests(c)' = WriteRequests(c) /\ ReadRequests(c)' = ReadRequests(c)
                     /\ Contents(c)' = Contents(c) /\ Kept(c)' = Kept(c)
  BY DEF vars, WriteRequests, ReadRequests, Contents, Kept, Active
<1>3. CownRcExact'
  BY <1>2, ExactIs DEF vars, CountInv
<1> QED
  BY <1>1, <1>3 DEF CountInv

\* Every step keeps it.
LEMMA NextCounts ==
  ASSUME CountInv, [Next]_vars
  PROVE  CountInv'
<1>1. IInv'
  BY NextInv DEF CountInv
<1>2. CASE UNCHANGED vars
  BY <1>1, <1>2, StutterCounts
<1>3. ASSUME NEW b \in Behavior, Executing(b) PROVE CountInv'
  <2>1. ASSUME NEW new \in NextUnborn, NEW args \in SUBSET Held(b),
               NEW captured \in SUBSET Capturable(b), When(b, new, args, captured)
        PROVE  CountInv'
    <3>1. new \in Behavior
      BY DEF NextUnborn
    <3> QED
      BY <1>1, <2>1, <3>1, WhenCounts
  <2>2. ASSUME NEW h \in Values(b), Instruction(b, h) PROVE CountInv'
    <3>1. h \in Handle
      BY DEF Values
    <3> QED
      BY <1>1, <2>2, <3>1, CopyCounts, DropCounts, ReadCounts, LoadCounts, StoreCounts
         DEF Instruction
  <2> QED
    BY <1>3, <2>1, <2>2 DEF Executing
<1>4. ASSUME NEW b \in Behavior, End(b) PROVE CountInv'
  <2>1. ASSUME NEW v \in Held(b) \cup {Object, Error}, Return(b, v) PROVE CountInv'
    BY <1>1, <2>1, ReturnCounts
  <2> QED
    BY <1>4, <2>1 DEF End, Fail
<1>5. ASSUME NEW b \in Behavior, Start(b) PROVE CountInv'
  BY <1>1, <1>5, StartCounts
<1>6. ASSUME NEW b \in Behavior, Finished(b) PROVE CountInv'
  BY <1>1, <1>6, FinishedCounts
<1>7. ASSUME NEW b \in Behavior, NEW c \in Cown, Destroy(b, c) PROVE CountInv'
  BY <1>1, <1>7, DestroyCounts
<1>8. CASE ProgramEnd
  BY <1>1, <1>8, ProgramEndCounts
<1> QED
  BY <1>2, <1>3, <1>4, <1>5, <1>6, <1>7, <1>8 DEF Next, Progress

\* The counts and what they rest on hold in every reachable state.
THEOREM CountsInvariant == Spec => []CountInv
<1>1. Init => CountInv
  BY InitCounts
<1>2. CountInv /\ [Next]_vars => CountInv'
  BY NextCounts
<1> QED
  BY <1>1, <1>2, PTL DEF Spec

\* Every variable keeps its type; above all, no count and no number of registers
\* goes below 0, however registers, requests and contents let go of a cown.
THEOREM BehaviourTypes == Spec => []TypeOK
<1>1. CountInv => TypeOK
  BY DEF CountInv
<1> QED
  BY <1>1, CountsInvariant, PTL

\* However many behaviours there are, the count of a cown is the registers, requests
\* and contents that refer to it, main's result that Program::run has, and one for
\* each request to read it that was ever made: a reference that is left keeps the
\* cown, and a cown that was ever requested to read is kept for good.
THEOREM CownCountsAreExact == Spec => []CownRcExact
<1>1. CountInv => CownRcExact
  BY DEF CountInv
<1> QED
  BY <1>1, CountsInvariant, PTL

\* A cown whose count is 0 is on one thread's list to be destroyed, or has been, and
\* no other is: none is destroyed twice, and none while it is referred to.
THEOREM CownsDestroyedExactly == Spec => []DestroyedExactly
<1>1. CountInv => DestroyedExactly
  BY DEF CountInv
<1> QED
  BY <1>1, CountsInvariant, PTL

\* A cown that nothing refers to any more is released, if it was never requested to
\* read: the counts of its read requests are all that can be left.
THEOREM UnreadCownsAreReleased ==
  Spec => [](\A c \in Cown : Unreferenced(c) /\ ReadRequests(c) = {} => Released(c))
<1>1. CountInv => \A c \in Cown : Unreferenced(c) /\ ReadRequests(c) = {} => Released(c)
  <2> SUFFICES ASSUME CountInv, NEW c \in Cown, Unreferenced(c), ReadRequests(c) = {}
               PROVE  Released(c)
    OBVIOUS
  <2>1. Total(regs, c) = 0
    <3>1. ASSUME NEW b \in Behavior PROVE CountOf(regs[b], c) = 0
      <4> DEFINE h1 == CownValue(c, TRUE)   h2 == CownValue(c, FALSE)
                 h3 == CownRef(c, FALSE)
      <4>1. /\ h1 \in Handle /\ h2 \in Handle /\ h3 \in Handle
            /\ h1.cown = c /\ h2.cown = c /\ h3.cown = c
        BY HandleFacts
      <4>2. CountOf(regs[b], c) = regs[b][h1] + regs[b][h2] + regs[b][h3]
        BY DEF CountOf
      <4> HIDE DEF h1, h2, h3
      <4>3. \A h \in Handle : h.cown = c => regs[b][h] = 0
        BY CountTypes DEF Unreferenced, Values
      <4> QED
        BY <4>1, <4>2, <4>3
    <3> QED
      BY <3>1, CountTypes, TotalBounds
  <2>2. WriteRequests(c) = {} /\ Contents(c) = {} /\ Kept(c) = 0
    BY DEF Unreferenced, WriteRequests, Kept
  <2>3. rc[c] = Total(regs, c) + Cardinality(WriteRequests(c)) + Cardinality(ReadRequests(c))
                + Cardinality(Contents(c)) + Kept(c)
    BY ExactIs DEF CountInv
  <2>4. rc[c] = 0
    BY <2>1, <2>2, <2>3, FS_EmptySet
  <2> QED
    BY <2>4 DEF CountInv, DestroyedExactly, Unreferenced, Released
<1> QED
  BY <1>1, CountsInvariant, PTL

\* A behaviour that runs finds the results of the cowns it asked for: the behaviours
\* that make them have returned, which fills the cown, and its request keeps the cown
\* from being destroyed, which would empty it.
THEOREM ResultsAreThere == Spec => []ResultBeforeUse
<1>1. CountInv => ResultBeforeUse
  <2> SUFFICES ASSUME CountInv, NEW b \in Behavior, NEW c \in Cown,
                      phase[b] = "running", access[b][c] # "none", c # b
               PROVE  content[c] # Empty
    BY DEF ResultBeforeUse
  <2>1. Active(b) /\ waits[b] = {}
    BY DEF CountInv, IInv, StartedFree, Started, Active
  <2>2. phase[c] = "done"
    BY <2>1 DEF CountInv, IInv, ResultOrdered
  <2>3. rc[c] >= 1
    BY <2>1, ReferredIsCounted
  <2>4. c \notin destroyed
    BY <2>3 DEF CountInv, DestroyedExactly
  <2> QED
    BY <2>2, <2>4 DEF CountInv, WrittenOnce
<1> QED
  BY <1>1, CountsInvariant, PTL

===============================================================================
