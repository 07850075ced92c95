-------------------------- MODULE RegionTree_proofs --------------------------
(***************************************************************************)
(* The counts, the forest and the collection of RegionTree are right for   *)
(* every finite set of regions, and RegionTree implements RegionOwnership. *)
(***************************************************************************)
EXTENDS RegionTree, FiniteSetTheorems, TLAPS

-------------------------------------------------------------------------------
(* The forest of parent pointers: what linking and unlinking one region does *)
(* to it, and where the pointers end.  own and its updates are functions on  *)
(* Region.                                                                   *)

\* The chain of parent pointers: every region is on its own chain, and the
\* chain of a region with a parent continues with the chain of the parent.
LEMMA AncestorStep ==
  ASSUME NEW own, NEW a \in Region, NEW r \in Region
  PROVE  /\ AncestorOrSelf(own, a, a)
         /\ own[r] \in Region /\ AncestorOrSelf(own, a, own[r])
              => AncestorOrSelf(own, a, r)
BY DEF AncestorOrSelf, UpClosed

\* A link from r to p keeps the forest if r had no parent and is not met from p:
\* the check made before set_parent.
LEMMA LinkKeepsForest ==
  ASSUME NEW own, DOMAIN own = Region, Forest(own),
         NEW r \in Region, NEW p \in Region,
         own[r] \notin Region, ~AncestorOrSelf(own, r, p)
  PROVE  Forest([own EXCEPT ![r] = p])
<1> DEFINE new == [own EXCEPT ![r] = p]
<1> SUFFICES ASSUME NEW S \in SUBSET Region, S # {},
                    \A x \in S : new[x] \in S
             PROVE  FALSE
  BY DEF Forest
<1>1. ASSUME r \notin S PROVE FALSE
  <2>1. \A x \in S : own[x] \in S
    BY <1>1
  <2>2. QED
    BY <2>1 DEF Forest
<1>2. ASSUME r \in S PROVE FALSE
  <2> DEFINE T == {x \in S : ~AncestorOrSelf(own, r, x)}
  <2>1. p \in T
    BY <1>2
  <2>2. ASSUME NEW x \in T PROVE own[x] \in T
    <3>1. x # r
      BY AncestorStep
    <3>2. own[x] \in S
      BY <3>1
    <3>3. ~AncestorOrSelf(own, r, own[x])
      BY <3>2, AncestorStep
    <3>4. QED
      BY <3>2, <3>3
  <2>3. T \in SUBSET Region /\ T # {}
    BY <2>1
  <2> HIDE DEF T
  <2>4. QED
    BY <2>2, <2>3 DEF Forest
<1>3. QED
  BY <1>1, <1>2

\* Removing links keeps the forest: clear_parent, clear_cown_owner, collection.
LEMMA UnlinkKeepsForest ==
  ASSUME NEW own, NEW new, Forest(own),
         \A x \in Region : new[x] \in Region => new[x] = own[x]
  PROVE  Forest(new)
<1> SUFFICES ASSUME NEW S \in SUBSET Region, S # {}, \A x \in S : new[x] \in S
             PROVE  FALSE
  BY DEF Forest
<1>1. \A x \in S : own[x] \in S
  OBVIOUS
<1>2. QED
  BY <1>1 DEF Forest

\* Parent pointers of a forest end: every region has an ancestor without parent.
LEMMA ForestHasRoot ==
  ASSUME NEW own, Forest(own), NEW r \in Region
  PROVE  \E a \in Region : AncestorOrSelf(own, a, r) /\ own[a] \notin Region
<1> DEFINE A == {a \in Region : AncestorOrSelf(own, a, r)}
<1>1. A \in SUBSET Region /\ r \in A
  BY AncestorStep
<1>2. PICK a \in A : own[a] \notin A
  BY <1>1 DEF Forest
<1>3. own[a] \in Region => AncestorOrSelf(own, own[a], r)
  BY <1>2 DEF AncestorOrSelf, UpClosed
<1>4. QED
  BY <1>2, <1>3

\* Downwards a finite forest ends too: no finite set of regions has a child of
\* each of its members inside.  If it had, its members with a parent inside
\* would be mapped onto all of it, so all of them had one.
LEMMA ForestHasLeaf ==
  ASSUME NEW own, Forest(own),
         NEW T \in SUBSET Region, IsFiniteSet(T), T # {}
  PROVE  \E y \in T : \A c \in T : own[c] # y
<1> SUFFICES ASSUME \A y \in T : \E c \in T : own[c] = y
             PROVE  FALSE
  OBVIOUS
<1> DEFINE C == {c \in T : own[c] \in T}
           parent == [c \in C |-> own[c]]
<1>1. IsFiniteSet(C) /\ Cardinality(C) <= Cardinality(T)
      /\ (Cardinality(T) = Cardinality(C) => T = C)
  BY FS_Subset
<1>2. parent \in Surjection(C, T)
  BY DEF Surjection
<1>3. Cardinality(T) <= Cardinality(C)
  BY <1>1, <1>2, FS_Surjection
<1>4. Cardinality(T) \in Nat /\ Cardinality(C) \in Nat
  BY <1>1, FS_CardinalityType
<1>5. T = C
  BY <1>1, <1>3, <1>4
<1>6. \A c \in T : own[c] \in T
  BY <1>5
<1>7. QED
  BY <1>6 DEF Forest

-------------------------------------------------------------------------------
(* The counts *)

USE RegionAssumption

\* Where an operation can be between two of its calls.
CallsInOrder ==
  /\ carryInc # None => /\ carryDec = None
                        /\ Drained
                        /\ status[carryInc] = "live"
  /\ carryDec # None => Drained /\ todo = "nothing"
  /\ ~Drained => todo = "nothing"
  /\ todo # "nothing" => todoRegion \in Region /\ status[todoRegion] = "live"
  /\ todo = "clear_parent" => HasParent(todoRegion) /\ held[todoRegion] > 0
  /\ todo = "clear_cown_owner" =>
       owner[todoRegion] = CownOwner /\ held[todoRegion] > 0
  /\ todo = "restore_cown_owner" =>
       owner[todoRegion] = NoOwner /\ held[todoRegion] > 0

\* The inductive invariant: the counts are exact only together with the forest
\* (a region is not its own active child), with what is live, and with the
\* order of the calls.
IInv ==
  /\ TypeOK
  /\ StackRcExact
  /\ FreedExactly
  /\ ParentsExist
  /\ ParentForest
  /\ AssertsHold
  /\ CallsInOrder

-------------------------------------------------------------------------------
(* Active children *)

LEMMA ActiveChildrenFinite ==
  ASSUME NEW x \in Region
  PROVE  /\ IsFiniteSet(ActiveChildren(x))
         /\ Cardinality(ActiveChildren(x)) \in Nat
         /\ Cardinality(ActiveChildren(x)) = 0 <=> ActiveChildren(x) = {}
<1>1. ActiveChildren(x) \in SUBSET Region
  BY DEF ActiveChildren
<1>2. IsFiniteSet(ActiveChildren(x))
  BY <1>1, FS_Subset
<1>3. QED
  BY <1>2, FS_CardinalityType, FS_EmptySet

\* An increment that leaves 0 makes the region an active child of its parent.
LEMMA ChildrenAfterInc ==
  ASSUME TypeOK, NEW r \in Region, NEW x \in Region,
         stack_rc' = [stack_rc EXCEPT ![r] = @ + 1], owner' = owner
  PROVE  Cardinality(ActiveChildren(x)') = Cardinality(ActiveChildren(x))
           + (IF stack_rc[r] = 0 /\ owner[r] = x THEN 1 ELSE 0)
<1>1. CASE stack_rc[r] = 0 /\ owner[r] = x
  <2>1. ActiveChildren(x)' = ActiveChildren(x) \cup {r}
    BY <1>1 DEF ActiveChildren, TypeOK
  <2>2. r \notin ActiveChildren(x)
    BY <1>1 DEF ActiveChildren
  <2>3. IsFiniteSet(ActiveChildren(x))
    BY ActiveChildrenFinite
  <2>4. Cardinality(ActiveChildren(x) \cup {r}) = Cardinality(ActiveChildren(x)) + 1
    BY <2>2, <2>3, FS_AddElement
  <2> QED
    BY <1>1, <2>1, <2>4
<1>2. CASE ~(stack_rc[r] = 0 /\ owner[r] = x)
  <2>1. ActiveChildren(x)' = ActiveChildren(x)
    BY <1>2 DEF ActiveChildren, TypeOK
  <2>2. QED
    BY <1>2, <2>1, ActiveChildrenFinite
<1>3. QED
  BY <1>1, <1>2

\* A decrement that reaches 0 takes the region from its parent's active children.
LEMMA ChildrenAfterDec ==
  ASSUME TypeOK, NEW r \in Region, NEW x \in Region, stack_rc[r] >= 1,
         stack_rc' = [stack_rc EXCEPT ![r] = @ - 1], owner' = owner
  PROVE  Cardinality(ActiveChildren(x)') = Cardinality(ActiveChildren(x))
           + (IF stack_rc[r] = 1 /\ owner[r] = x THEN -1 ELSE 0)
<1>1. CASE stack_rc[r] = 1 /\ owner[r] = x
  <2>1. ActiveChildren(x)' = ActiveChildren(x) \ {r}
    BY <1>1 DEF ActiveChildren, TypeOK
  <2>2. r \in ActiveChildren(x)
    BY <1>1 DEF ActiveChildren
  <2>3. IsFiniteSet(ActiveChildren(x))
    BY ActiveChildrenFinite
  <2>4. Cardinality(ActiveChildren(x) \ {r}) = Cardinality(ActiveChildren(x)) - 1
    BY <2>2, <2>3, FS_RemoveElement
  <2> QED
    BY <1>1, <2>1, <2>4
<1>2. CASE ~(stack_rc[r] = 1 /\ owner[r] = x)
  <2>1. ActiveChildren(x)' = ActiveChildren(x)
    BY <1>2 DEF ActiveChildren, TypeOK
  <2>2. QED
    BY <1>2, <2>1, ActiveChildrenFinite
<1>3. QED
  BY <1>1, <1>2

\* A region without parent that gets one is counted there if it is active.
LEMMA ChildrenAfterLink ==
  ASSUME TypeOK, NEW r \in Region, NEW p \in Region, NEW x \in Region,
         owner[r] \notin Region,
         owner' = [owner EXCEPT ![r] = p], stack_rc' = stack_rc
  PROVE  Cardinality(ActiveChildren(x)') = Cardinality(ActiveChildren(x))
           + (IF stack_rc[r] > 0 /\ x = p THEN 1 ELSE 0)
<1>1. CASE stack_rc[r] > 0 /\ x = p
  <2>1. ActiveChildren(x)' = ActiveChildren(x) \cup {r}
    BY <1>1 DEF ActiveChildren, TypeOK
  <2>2. r \notin ActiveChildren(x)
    BY DEF ActiveChildren
  <2>3. IsFiniteSet(ActiveChildren(x))
    BY ActiveChildrenFinite
  <2>4. Cardinality(ActiveChildren(x) \cup {r}) = Cardinality(ActiveChildren(x)) + 1
    BY <2>2, <2>3, FS_AddElement
  <2> QED
    BY <1>1, <2>1, <2>4
<1>2. CASE ~(stack_rc[r] > 0 /\ x = p)
  <2>1. ActiveChildren(x)' = ActiveChildren(x)
    BY <1>2 DEF ActiveChildren, TypeOK
  <2>2. QED
    BY <1>2, <2>1, ActiveChildrenFinite
<1>3. QED
  BY <1>1, <1>2

\* A region that loses its owner is no longer counted by it.
LEMMA ChildrenAfterUnlink ==
  ASSUME TypeOK, NEW r \in Region, NEW x \in Region,
         owner' = [owner EXCEPT ![r] = NoOwner], stack_rc' = stack_rc
  PROVE  Cardinality(ActiveChildren(x)') = Cardinality(ActiveChildren(x))
           + (IF stack_rc[r] > 0 /\ owner[r] = x THEN -1 ELSE 0)
<1>1. CASE stack_rc[r] > 0 /\ owner[r] = x
  <2>1. ActiveChildren(x)' = ActiveChildren(x) \ {r}
    BY <1>1 DEF ActiveChildren, TypeOK
  <2>2. r \in ActiveChildren(x)
    BY <1>1 DEF ActiveChildren
  <2>3. IsFiniteSet(ActiveChildren(x))
    BY ActiveChildrenFinite
  <2>4. Cardinality(ActiveChildren(x) \ {r}) = Cardinality(ActiveChildren(x)) - 1
    BY <2>2, <2>3, FS_RemoveElement
  <2> QED
    BY <1>1, <2>1, <2>4
<1>2. CASE ~(stack_rc[r] > 0 /\ owner[r] = x)
  <2>1. ActiveChildren(x)' = ActiveChildren(x)
    BY <1>2 DEF ActiveChildren, TypeOK
  <2>2. QED
    BY <1>2, <2>1, ActiveChildrenFinite
<1>3. QED
  BY <1>1, <1>2

\* Cown ownership is invisible to the counts of other regions.
LEMMA ChildrenAfterCown ==
  ASSUME TypeOK, NEW r \in Region, NEW x \in Region,
         owner[r] \notin Region, owner'[r] \notin Region,
         \A c \in Region : c # r => /\ owner'[c] = owner[c]
                                    /\ stack_rc'[c] = stack_rc[c]
  PROVE  Cardinality(ActiveChildren(x)') = Cardinality(ActiveChildren(x))
<1>1. ActiveChildren(x)' = ActiveChildren(x)
  BY DEF ActiveChildren, TypeOK
<1>2. QED
  BY <1>1

-------------------------------------------------------------------------------
(* Consequences of the invariant used by several steps *)

\* A region that is not live has no active child: freeing it finds only
\* children without count.
LEMMA FreedHasNoActiveChild ==
  ASSUME IInv, NEW r \in Region, status[r] # "live"
  PROVE  ActiveChildren(r) = {}
<1>1. stack_rc[r] = 0 /\ held[r] = 0
  BY DEF IInv, FreedExactly
<1>2. Pending(r) <= 0
  BY DEF IInv, CallsInOrder, Pending, TypeOK
<1>3. Cardinality(ActiveChildren(r)) = 0
  BY <1>1, <1>2, ActiveChildrenFinite DEF IInv, StackRcExact, Pending
<1>4. QED
  BY <1>3, ActiveChildrenFinite

\* A decrement still to be made finds something to decrement.
LEMMA PendingDecIsCovered ==
  ASSUME IInv, NEW r \in Region,
         carryDec = r \/ (carryDec = None /\ carryInc = None
                          /\ todo = "stack_dec" /\ todoRegion = r)
  PROVE  stack_rc[r] >= 1 /\ status[r] = "live"
<1>1. Pending(r) = -1
  BY DEF IInv, CallsInOrder, Pending, TypeOK
<1>2. stack_rc[r] >= 1
  BY <1>1, ActiveChildrenFinite DEF IInv, StackRcExact, TypeOK
<1>3. QED
  BY <1>2 DEF IInv, FreedExactly

\* A held region is live, and counted when nothing is pending.
LEMMA HeldIsLive ==
  ASSUME IInv, NEW r \in Region, held[r] > 0
  PROVE  /\ status[r] = "live"
         /\ Idle => stack_rc[r] >= held[r]
<1>1. status[r] = "live"
  BY DEF IInv, FreedExactly, TypeOK
<1>2. Idle => Pending(r) = 0
  BY DEF Idle, Pending
<1>3. QED
  BY <1>1, <1>2, ActiveChildrenFinite DEF IInv, StackRcExact, TypeOK

\* A parent met while nothing drains is live.
LEMMA ParentIsLive ==
  ASSUME IInv, Drained, NEW r \in Region, HasParent(r)
  PROVE  owner[r] \in Region /\ status[owner[r]] = "live" /\ owner[r] # r
<1>1. owner[r] \in Region /\ status[owner[r]] = "live"
  BY DEF IInv, ParentsExist, Drained, HasParent
<1>2. owner[r] # r
  <2>1. {r} \in SUBSET Region /\ {r} # {}
    OBVIOUS
  <2>2. QED
    BY <2>1 DEF IInv, ParentForest, Forest
<1>3. QED
  BY <1>1, <1>2

-------------------------------------------------------------------------------
(* The steps that increment: a reference taken, the recursion of stack_inc *)

\* stack_inc keeps the counts exact when the reference it is for is counted.
LEMMA IncKeepsCounts ==
  ASSUME IInv, NEW r \in Region, status[r] = "live", StackInc(r),
         Drained, carryDec = None, owner' = owner,
         todo' # "stack_dec" \/ (todo' = todo /\ todoRegion' = todoRegion),
         todo' = "stack_dec" \/ todo # "stack_dec",
         \/ carryInc = r /\ held' = held
         \/ carryInc = None /\ held' = [held EXCEPT ![r] = @ + 1]
  PROVE  StackRcExact'
<1> SUFFICES ASSUME NEW x \in Region
             PROVE  (stack_rc[x] + Pending(x)
                      = held[x] + Cardinality(ActiveChildren(x)))'
  BY DEF StackRcExact
<1>1. stack_rc[x] + Pending(x) = held[x] + Cardinality(ActiveChildren(x))
  BY DEF IInv, StackRcExact
<1>2. Cardinality(ActiveChildren(x)') = Cardinality(ActiveChildren(x))
        + (IF stack_rc[r] = 0 /\ owner[r] = x THEN 1 ELSE 0)
  BY ChildrenAfterInc DEF StackInc, IInv
<1>3. carryInc' = x <=> stack_rc[r] = 0 /\ owner[r] = x
  BY DEF StackInc, HasParent
<1>4. stack_rc'[x] = stack_rc[x] + (IF x = r THEN 1 ELSE 0)
  BY DEF StackInc, IInv, TypeOK
<1>5. held'[x] = held[x] + (IF x = r /\ carryInc = None THEN 1 ELSE 0)
  BY DEF IInv, TypeOK
<1>6. QED
  BY <1>1, <1>2, <1>3, <1>4, <1>5, ActiveChildrenFinite
     DEF Pending, IInv, TypeOK, StackInc

\* The increment of a reference taken between operations.
LEMMA IncFromIdle ==
  ASSUME IInv, Idle, NEW r \in Region, status[r] = "live", StackInc(r),
         owner' = owner, held' = [held EXCEPT ![r] = @ + 1],
         \/ ThenNothing
         \/ HasParent(r) /\ Then("clear_parent", r)
         \/ owner[r] = CownOwner /\ Then("clear_cown_owner", r)
  PROVE  IInv'
<1> USE DEF IInv
<1>1. TypeOK'
  BY DEF StackInc, TypeOK, ThenNothing, Then, HasParent, Calls
<1>2. StackRcExact'
  BY IncKeepsCounts DEF Idle, ThenNothing, Then
<1>3. FreedExactly'
  BY DEF FreedExactly, StackInc, TypeOK, HasOwner
<1>4. ParentsExist' /\ ParentForest' /\ AssertsHold'
  BY DEF ParentsExist, ParentForest, AssertsHold, StackInc, HasParent
<1>5. CallsInOrder'
  <2>1. Drained'
    BY DEF Drained, Idle, StackInc
  <2>2. carryInc' # None => status'[carryInc'] = "live"
    BY ParentIsLive DEF StackInc, Idle
  <2>3. QED
    BY <2>1, <2>2 DEF CallsInOrder, StackInc, ThenNothing, Then, HasParent, TypeOK
<1>6. QED
  BY <1>1, <1>2, <1>3, <1>4, <1>5

LEMMA StepRegInc ==
  ASSUME IInv, NEW r \in Region, RegInc(r)
  PROVE  IInv'
BY IncFromIdle DEF RegInc

LEMMA StepTakeRegion ==
  ASSUME IInv, NEW r \in Region, TakeRegion(r)
  PROVE  IInv'
<1>1. status[r] = "live"
  BY DEF IInv, TypeOK, FreedExactly, TakeRegion, HasParent, HasOwner
<1>2. QED
  BY <1>1, IncFromIdle DEF TakeRegion

LEMMA StepCownDestroy ==
  ASSUME IInv, NEW r \in Region, CownDestroy(r)
  PROVE  IInv'
<1>1. status[r] = "live"
  BY DEF IInv, TypeOK, FreedExactly, CownDestroy, HasOwner
<1>2. QED
  BY <1>1, IncFromIdle DEF CownDestroy

\* The recursion of stack_inc into the parent.
LEMMA StepCascadeInc ==
  ASSUME IInv, CascadeInc
  PROVE  IInv'
<1> DEFINE r == carryInc
<1> USE DEF IInv
<1>1. r \in Region /\ status[r] = "live" /\ Drained /\ carryDec = None
  BY DEF CascadeInc, CallsInOrder, TypeOK
<1>2. StackInc(r) /\ UNCHANGED <<owner, held, todo, todoRegion>>
  BY DEF CascadeInc
<1>3. TypeOK'
  BY <1>1, <1>2 DEF StackInc, TypeOK, HasParent
<1>4. StackRcExact'
  BY <1>1, <1>2, IncKeepsCounts
<1>5. FreedExactly'
  BY <1>1, <1>2 DEF FreedExactly, StackInc, TypeOK, HasOwner
<1>6. ParentsExist' /\ ParentForest' /\ AssertsHold'
  BY <1>2 DEF ParentsExist, ParentForest, AssertsHold, StackInc, HasParent
<1>7. CallsInOrder'
  <2>1. Drained'
    BY <1>1, <1>2 DEF Drained, StackInc
  <2>2. carryInc' # None => status'[carryInc'] = "live"
    BY <1>1, <1>2, ParentIsLive DEF StackInc
  <2>3. QED
    BY <1>1, <1>2, <2>1, <2>2 DEF CallsInOrder, StackInc, HasParent
<1>8. QED
  BY <1>3, <1>4, <1>5, <1>6, <1>7

-------------------------------------------------------------------------------
(* The steps that decrement: a reference dropped, the recursion of stack_dec *)

\* stack_dec keeps the invariant when what it gives up was counted: a held
\* reference, the recursion from a child, or a pending call.
LEMMA DecKeepsInvariant ==
  ASSUME IInv, NEW r \in Region, StackDec(r), Drained, carryInc = None,
         owner' = owner,
         \/ /\ Idle /\ held[r] > 0
            /\ held' = [held EXCEPT ![r] = @ - 1] /\ ThenNothing
         \/ carryDec = r /\ UNCHANGED <<held, todo, todoRegion>>
         \/ /\ carryDec = None /\ todo = "stack_dec" /\ todoRegion = r
            /\ held' = held /\ ThenNothing
  PROVE  IInv'
<1> USE DEF IInv
<1>1. stack_rc[r] >= 1 /\ status[r] = "live"
  BY PendingDecIsCovered, HeldIsLive DEF TypeOK
<1>2. todo' = "nothing"
  BY DEF CallsInOrder, ThenNothing
<1>3. TypeOK'
  BY <1>1 DEF StackDec, TypeOK, ThenNothing, HasParent, Status, Calls
<1>4. StackRcExact'
  <2> SUFFICES ASSUME NEW x \in Region
               PROVE  (stack_rc[x] + Pending(x)
                        = held[x] + Cardinality(ActiveChildren(x)))'
    BY DEF StackRcExact
  <2>1. stack_rc[x] + Pending(x) = held[x] + Cardinality(ActiveChildren(x))
    BY DEF StackRcExact
  <2>2. Cardinality(ActiveChildren(x)') = Cardinality(ActiveChildren(x))
          + (IF stack_rc[r] = 1 /\ owner[r] = x THEN -1 ELSE 0)
    BY <1>1, ChildrenAfterDec DEF StackDec
  <2>3. carryInc' = None /\ (carryDec' = x <=> stack_rc[r] = 1 /\ owner[r] = x)
    BY DEF StackDec, HasParent
  <2>4. stack_rc'[x] = stack_rc[x] + (IF x = r THEN -1 ELSE 0)
    BY DEF StackDec, TypeOK
  <2>5. held'[x] + (IF carryDec = None /\ todo # "stack_dec" /\ x = r
                    THEN 1 ELSE 0) = held[x]
    BY DEF TypeOK, Idle
  <2>6. Pending(x) = IF x = r /\ (carryDec # None \/ todo = "stack_dec")
                     THEN -1 ELSE 0
    BY DEF Pending, CallsInOrder, Idle
  <2>7. Pending(x)' = IF stack_rc[r] = 1 /\ owner[r] = x THEN -1 ELSE 0
    BY <1>2, <2>3 DEF Pending
  <2>8. QED
    BY <2>1, <2>2, <2>4, <2>5, <2>6, <2>7, ActiveChildrenFinite DEF TypeOK
<1>5. FreedExactly'
  <2>1. stack_rc[r] = 1 /\ ~HasOwner(r) => held'[r] = 0
    <3>1. stack_rc[r] = 1 => stack_rc'[r] = 0
      BY DEF StackDec, TypeOK
    <3>2. ~HasOwner(r) => carryDec' # r
      BY DEF StackDec, HasOwner, HasParent
    <3>3. stack_rc'[r] + Pending(r)' = held'[r] + Cardinality(ActiveChildren(r)')
      BY <1>4 DEF StackRcExact
    <3>4. Cardinality(ActiveChildren(r)') \in Nat
      <4>1. ActiveChildren(r)' \in SUBSET Region
        BY DEF ActiveChildren
      <4>2. QED
        BY <4>1, FS_Subset, FS_CardinalityType
    <3>5. ~HasOwner(r) => Pending(r)' = 0
      BY <1>2, <3>2 DEF Pending, StackDec
    <3>6. QED
      BY <1>3, <3>1, <3>3, <3>4, <3>5 DEF TypeOK
  <2>2. QED
    BY <1>1, <2>1 DEF FreedExactly, StackDec, TypeOK, HasOwner, Status
<1>6. ParentsExist' /\ ParentForest' /\ AssertsHold'
  BY <1>1 DEF ParentsExist, ParentForest, AssertsHold, StackDec, HasParent, TypeOK
<1>7. CallsInOrder'
  BY <1>2 DEF CallsInOrder, StackDec, HasParent, HasOwner, TypeOK, Drained
<1>8. QED
  BY <1>3, <1>4, <1>5, <1>6, <1>7

LEMMA StepRegDec ==
  ASSUME IInv, NEW r \in Region, RegDec(r)
  PROVE  IInv'
BY DecKeepsInvariant DEF RegDec, Idle

LEMMA StepCascadeDec ==
  ASSUME IInv, CascadeDec
  PROVE  IInv'
<1>1. carryDec \in Region /\ Drained /\ carryInc = None
  BY DEF IInv, CascadeDec, CallsInOrder, TypeOK
<1>2. QED
  BY <1>1, DecKeepsInvariant DEF CascadeDec

LEMMA StepLastStackDec ==
  ASSUME IInv, LastStackDec
  PROVE  IInv'
<1>1. todoRegion \in Region
  BY DEF IInv, LastStackDec, CallsInOrder
<1>2. QED
  BY <1>1, DecKeepsInvariant DEF LastStackDec, Returned

-------------------------------------------------------------------------------
(* The steps that change owners *)

LEMMA StepCreateRegion ==
  ASSUME IInv, NEW r \in Region, CreateRegion(r)
  PROVE  IInv'
<1> USE DEF IInv
<1>1. stack_rc[r] = 0 /\ held[r] = 0 /\ owner[r] = NoOwner
  BY DEF CreateRegion, FreedExactly, HasOwner
<1>2. TypeOK'
  BY DEF CreateRegion, TypeOK, NoCarry, ThenNothing, Status, Calls
<1>3. StackRcExact'
  <2> SUFFICES ASSUME NEW x \in Region
               PROVE  (stack_rc[x] + Pending(x)
                        = held[x] + Cardinality(ActiveChildren(x)))'
    BY DEF StackRcExact
  <2>1. stack_rc[x] + Pending(x) = held[x] + Cardinality(ActiveChildren(x))
    BY DEF StackRcExact
  <2>2. Cardinality(ActiveChildren(x)') = Cardinality(ActiveChildren(x))
    BY <1>1, ChildrenAfterCown DEF CreateRegion, TypeOK
  <2>3. Pending(x) = 0 /\ Pending(x)' = 0
    BY DEF CreateRegion, Idle, NoCarry, ThenNothing, Pending
  <2>4. stack_rc'[x] - held'[x] = stack_rc[x] - held[x]
    BY <1>1 DEF CreateRegion, TypeOK
  <2>5. QED
    BY <1>2, <2>1, <2>2, <2>3, <2>4, ActiveChildrenFinite DEF TypeOK
<1>4. FreedExactly' /\ ParentForest' /\ AssertsHold'
  BY <1>1 DEF CreateRegion, FreedExactly, HasOwner, ParentForest, AssertsHold,
              TypeOK
<1>5. ParentsExist'
  BY <1>1 DEF CreateRegion, ParentsExist, HasParent, TypeOK
<1>6. CallsInOrder'
  BY DEF CreateRegion, Idle, NoCarry, ThenNothing, CallsInOrder, Drained, TypeOK
<1>7. QED
  BY <1>2, <1>3, <1>4, <1>5, <1>6

\* The write barrier's two checks, r # p and is_ancestor_of, rule out r on the
\* whole chain from p.
LEMMA StoreIsNotCyclic ==
  ASSUME NEW r \in Region, NEW p \in Region, r # p, ~IsAncestorOf(r, p)
  PROVE  ~AncestorOrSelf(owner, r, p)
<1>1. CASE HasParent(p)
  <2>1. ~AncestorOrSelf(owner, r, owner[p])
    BY <1>1 DEF IsAncestorOf, IsAncestor, HasParent
  <2>2. PICK S0 \in SUBSET Region :
          owner[p] \in S0 /\ UpClosed(owner, S0) /\ r \notin S0
    BY <2>1 DEF AncestorOrSelf
  <2>3. /\ S0 \cup {p} \in SUBSET Region /\ p \in S0 \cup {p}
        /\ UpClosed(owner, S0 \cup {p}) /\ r \notin S0 \cup {p}
    BY <2>2 DEF UpClosed
  <2>4. QED
    BY <2>3 DEF AncestorOrSelf
<1>2. CASE ~HasParent(p)
  <2>1. {p} \in SUBSET Region /\ p \in {p} /\ UpClosed(owner, {p}) /\ r \notin {p}
    BY <1>2 DEF UpClosed, HasParent
  <2>2. QED
    BY <2>1 DEF AncestorOrSelf
<1>3. QED
  BY <1>1, <1>2

LEMMA StepStoreRegion ==
  ASSUME IInv, NEW r \in Region, NEW p \in Region, NEW is_move \in BOOLEAN,
         StoreRegion(r, p, is_move)
  PROVE  IInv'
<1> USE DEF IInv
<1>1. /\ status[r] = "live" /\ status[p] = "live"
      /\ stack_rc[r] > 0 /\ owner[r] = NoOwner /\ r # p
  BY HeldIsLive DEF StoreRegion, HasOwner, TypeOK
<1>2. /\ owner' = [owner EXCEPT ![r] = p] /\ carryInc' = p /\ carryDec' = None
      /\ UNCHANGED <<status, stack_rc>> /\ broken' = FALSE
  BY <1>1 DEF StoreRegion, SetParent, HasOwner, AssertsHold
<1>3. TypeOK'
  <2>1. held' \in [Region -> Nat]
    BY DEF StoreRegion, TypeOK
  <2>2. todo' \in Calls /\ todoRegion' \in Region \cup {None}
    BY DEF StoreRegion, Then, ThenNothing, Calls
  <2>3. QED
    BY <1>2, <2>1, <2>2 DEF TypeOK
<1>4. StackRcExact'
  <2> SUFFICES ASSUME NEW x \in Region
               PROVE  (stack_rc[x] + Pending(x)
                        = held[x] + Cardinality(ActiveChildren(x)))'
    BY DEF StackRcExact
  <2>1. stack_rc[x] + Pending(x) = held[x] + Cardinality(ActiveChildren(x))
    BY DEF StackRcExact
  <2>2. Cardinality(ActiveChildren(x)') = Cardinality(ActiveChildren(x))
          + (IF x = p THEN 1 ELSE 0)
    BY <1>1, <1>2, ChildrenAfterLink
  <2>3. Pending(x) = 0
    BY DEF StoreRegion, Idle, Pending
  <2>4. Pending(x)' = (IF x = p THEN 1 ELSE 0)
                      + (IF is_move /\ x = r THEN -1 ELSE 0)
    BY <1>2 DEF StoreRegion, Then, ThenNothing, Pending
  <2>5. held'[x] = held[x] + (IF is_move /\ x = r THEN -1 ELSE 0)
    BY DEF StoreRegion, TypeOK
  <2>6. QED
    BY <1>2, <2>1, <2>2, <2>3, <2>4, <2>5, ActiveChildrenFinite DEF TypeOK
<1>5. FreedExactly' /\ AssertsHold'
  BY <1>1, <1>2 DEF StoreRegion, FreedExactly, AssertsHold, HasOwner, TypeOK
<1>6. ParentsExist'
  BY <1>1, <1>2 DEF ParentsExist, HasParent, TypeOK
<1>7. ParentForest'
  <2>1. ~AncestorOrSelf(owner, r, p)
    BY StoreIsNotCyclic DEF StoreRegion
  <2>2. QED
    BY <1>1, <1>2, <2>1, LinkKeepsForest DEF ParentForest, TypeOK
<1>8. CallsInOrder'
  BY <1>1, <1>2 DEF StoreRegion, Idle, Then, ThenNothing, CallsInOrder, Drained
<1>9. QED
  BY <1>3, <1>4, <1>5, <1>6, <1>7, <1>8

LEMMA StepLastClearParent ==
  ASSUME IInv, LastClearParent
  PROVE  IInv'
<1> DEFINE r == todoRegion
           p == owner[r]
<1> USE DEF IInv
<1>1. /\ r \in Region /\ p \in Region /\ status[r] = "live" /\ held[r] > 0
      /\ todo = "clear_parent" /\ carryInc = None /\ carryDec = None /\ Drained
  BY DEF LastClearParent, Returned, CallsInOrder, HasParent
<1>2. \A x \in Region : Pending(x) = 0
  BY <1>1 DEF Pending
<1>3. stack_rc[r] > 0
  BY <1>1, <1>2, ActiveChildrenFinite DEF StackRcExact, TypeOK
<1>4. /\ owner' = [owner EXCEPT ![r] = NoOwner] /\ carryDec' = p
      /\ carryInc' = None /\ todo' = "nothing" /\ todoRegion' = None
      /\ UNCHANGED <<status, stack_rc, held>> /\ broken' = FALSE
  BY <1>1, <1>3 DEF LastClearParent, ClearParent, ThenNothing, HasParent,
                    AssertsHold
<1>5. TypeOK'
  BY <1>1, <1>4 DEF TypeOK, Calls
<1>6. StackRcExact'
  <2> SUFFICES ASSUME NEW x \in Region
               PROVE  (stack_rc[x] + Pending(x)
                        = held[x] + Cardinality(ActiveChildren(x)))'
    BY DEF StackRcExact
  <2>1. Cardinality(ActiveChildren(x)') = Cardinality(ActiveChildren(x))
          + (IF p = x THEN -1 ELSE 0)
    BY <1>1, <1>3, <1>4, ChildrenAfterUnlink
  <2>2. Pending(x)' = IF p = x THEN -1 ELSE 0
    BY <1>1, <1>4 DEF Pending
  <2>3. stack_rc[x] = held[x] + Cardinality(ActiveChildren(x))
    BY <1>2 DEF StackRcExact, TypeOK
  <2>4. QED
    BY <1>4, <2>1, <2>2, <2>3, ActiveChildrenFinite DEF TypeOK
<1>7. FreedExactly' /\ AssertsHold' /\ ParentsExist'
  BY <1>1, <1>3, <1>4 DEF FreedExactly, AssertsHold, ParentsExist, HasOwner,
                           HasParent, TypeOK
<1>8. ParentForest'
  <2>1. \A x \in Region : owner'[x] \in Region => owner'[x] = owner[x]
    BY <1>4 DEF TypeOK
  <2>2. QED
    BY <2>1, UnlinkKeepsForest DEF ParentForest
<1>9. CallsInOrder'
  BY <1>1, <1>4 DEF CallsInOrder, Drained
<1>10. QED
  BY <1>5, <1>6, <1>7, <1>8, <1>9

LEMMA StepCownStore ==
  ASSUME IInv, NEW r \in Region, NEW is_move \in BOOLEAN, CownStore(r, is_move)
  PROVE  IInv'
<1> USE DEF IInv
<1>1. status[r] = "live" /\ stack_rc[r] > 0 /\ owner[r] = NoOwner
  BY HeldIsLive DEF CownStore, HasOwner, TypeOK
<1>2. /\ owner' = [owner EXCEPT ![r] = CownOwner]
      /\ UNCHANGED <<status, stack_rc, carryInc, carryDec>> /\ broken' = FALSE
  BY <1>1 DEF CownStore, SetCownOwner, NoCarry, HasOwner, AssertsHold
<1>3. TypeOK'
  <2>1. held' \in [Region -> Nat]
    BY DEF CownStore, TypeOK
  <2>2. todo' \in Calls /\ todoRegion' \in Region \cup {None}
    BY DEF CownStore, Then, ThenNothing, Calls
  <2>3. QED
    BY <1>2, <2>1, <2>2 DEF TypeOK
<1>4. StackRcExact'
  <2> SUFFICES ASSUME NEW x \in Region
               PROVE  (stack_rc[x] + Pending(x)
                        = held[x] + Cardinality(ActiveChildren(x)))'
    BY DEF StackRcExact
  <2>1. stack_rc[x] + Pending(x) = held[x] + Cardinality(ActiveChildren(x))
    BY DEF StackRcExact
  <2>2. Cardinality(ActiveChildren(x)') = Cardinality(ActiveChildren(x))
    BY <1>1, <1>2, ChildrenAfterCown DEF TypeOK
  <2>3. Pending(x) = 0
    BY DEF CownStore, Idle, Pending
  <2>4. Pending(x)' = IF is_move /\ x = r THEN -1 ELSE 0
    BY <1>2 DEF CownStore, Idle, Then, ThenNothing, Pending
  <2>5. held'[x] = held[x] + (IF is_move /\ x = r THEN -1 ELSE 0)
    BY DEF CownStore, TypeOK
  <2>6. QED
    BY <1>2, <2>1, <2>2, <2>3, <2>4, <2>5, ActiveChildrenFinite DEF TypeOK
<1>5. FreedExactly' /\ AssertsHold'
  BY <1>1, <1>2 DEF CownStore, FreedExactly, AssertsHold, HasOwner, TypeOK
<1>6. ParentsExist'
  BY <1>1, <1>2 DEF ParentsExist, HasParent, TypeOK
<1>7. ParentForest'
  <2>1. \A x \in Region : owner'[x] \in Region => owner'[x] = owner[x]
    BY <1>2 DEF TypeOK
  <2>2. QED
    BY <2>1, UnlinkKeepsForest DEF ParentForest
<1>8. CallsInOrder'
  BY <1>1, <1>2 DEF CownStore, Idle, Then, ThenNothing, CallsInOrder, Drained
<1>9. QED
  BY <1>3, <1>4, <1>5, <1>6, <1>7, <1>8

LEMMA StepCownTake ==
  ASSUME IInv, NEW r \in Region, NEW refused \in BOOLEAN, CownTake(r, refused)
  PROVE  IInv'
<1> USE DEF IInv
<1>1. status[r] = "live" /\ owner[r] = CownOwner
  BY DEF CownTake, FreedExactly, HasOwner
<1>2. /\ owner' = [owner EXCEPT ![r] = NoOwner]
      /\ stack_rc' = [stack_rc EXCEPT ![r] = @ + 1]
      /\ held' = [held EXCEPT ![r] = @ + 1]
      /\ UNCHANGED <<status, carryInc, carryDec>> /\ broken' = FALSE
  BY DEF CownTake, NoCarry, AssertsHold
<1>3. TypeOK'
  <2>1. todo' \in Calls /\ todoRegion' \in Region \cup {None}
    BY DEF CownTake, Then, ThenNothing, Calls
  <2>2. held' \in [Region -> Nat] /\ stack_rc' \in [Region -> Nat]
    BY <1>2 DEF TypeOK
  <2>3. owner' \in [Region -> Region \cup {NoOwner, CownOwner}]
    BY <1>2 DEF TypeOK
  <2>4. QED
    BY <1>2, <2>1, <2>2, <2>3 DEF TypeOK
<1>4. StackRcExact'
  <2> SUFFICES ASSUME NEW x \in Region
               PROVE  (stack_rc[x] + Pending(x)
                        = held[x] + Cardinality(ActiveChildren(x)))'
    BY DEF StackRcExact
  <2>1. stack_rc[x] + Pending(x) = held[x] + Cardinality(ActiveChildren(x))
    BY DEF StackRcExact
  <2>2. Cardinality(ActiveChildren(x)') = Cardinality(ActiveChildren(x))
    BY <1>1, <1>2, ChildrenAfterCown DEF TypeOK
  <2>3. Pending(x) = 0
    BY DEF CownTake, Idle, Pending
  <2>4. Pending(x)' = 0
    <3>1. todo' # "stack_dec"
      BY DEF CownTake, Then, ThenNothing
    <3>2. carryInc' = None /\ carryDec' = None
      BY <1>2 DEF CownTake, Idle
    <3>3. QED
      BY <3>1, <3>2 DEF Pending
  <2>5. stack_rc'[x] - held'[x] = stack_rc[x] - held[x]
    BY <1>2 DEF TypeOK
  <2>6. QED
    BY <1>3, <2>1, <2>2, <2>3, <2>4, <2>5, ActiveChildrenFinite DEF TypeOK
<1>5. FreedExactly' /\ AssertsHold'
  BY <1>1, <1>2 DEF FreedExactly, AssertsHold, HasOwner, TypeOK
<1>6. ParentsExist'
  BY <1>1, <1>2 DEF ParentsExist, HasParent, TypeOK
<1>7. ParentForest'
  <2>1. \A x \in Region : owner'[x] \in Region => owner'[x] = owner[x]
    BY <1>2 DEF TypeOK
  <2>2. QED
    BY <2>1, UnlinkKeepsForest DEF ParentForest
<1>8. CallsInOrder'
  BY <1>1, <1>2 DEF CownTake, Idle, Then, ThenNothing, CallsInOrder, Drained,
                    TypeOK
<1>9. QED
  BY <1>3, <1>4, <1>5, <1>6, <1>7, <1>8

\* Both ends of a guarded cown operation: the owner changes while the guard is
\* still counted, and giving up the guard is the call that is left.
LEMMA CownOwnerUnderGuard ==
  ASSUME IInv, Returned, NEW r \in Region, r = todoRegion,
         todo \in {"clear_cown_owner", "restore_cown_owner"},
         NEW o \in {NoOwner, CownOwner},
         owner' = [owner EXCEPT ![r] = o],
         held' = [held EXCEPT ![r] = @ - 1],
         todo' = "stack_dec", todoRegion' = r,
         UNCHANGED <<status, stack_rc, carryInc, carryDec>>, broken' = FALSE
  PROVE  IInv'
<1> USE DEF IInv
<1>1. /\ status[r] = "live" /\ held[r] > 0 /\ owner[r] \notin Region
      /\ carryInc = None /\ carryDec = None /\ Drained
  BY DEF CallsInOrder, Returned
<1>2. \A x \in Region : Pending(x) = 0
  <2>1. todo # "stack_dec"
    OBVIOUS
  <2>2. QED
    BY <1>1, <2>1 DEF Pending
<1>3. stack_rc[r] > 0
  BY <1>1, <1>2, ActiveChildrenFinite DEF StackRcExact, TypeOK
<1>4. TypeOK'
  <2>1. held' \in [Region -> Nat]
    BY <1>1 DEF TypeOK
  <2>2. owner' \in [Region -> Region \cup {NoOwner, CownOwner}]
    BY DEF TypeOK
  <2>3. QED
    BY <2>1, <2>2 DEF TypeOK, Calls
<1>5. StackRcExact'
  <2> SUFFICES ASSUME NEW x \in Region
               PROVE  (stack_rc[x] + Pending(x)
                        = held[x] + Cardinality(ActiveChildren(x)))'
    BY DEF StackRcExact
  <2>1. stack_rc[x] = held[x] + Cardinality(ActiveChildren(x))
    BY <1>2 DEF StackRcExact, TypeOK
  <2>2. Cardinality(ActiveChildren(x)') = Cardinality(ActiveChildren(x))
    BY <1>1, ChildrenAfterCown DEF TypeOK
  <2>3. Pending(x)' = IF x = r THEN -1 ELSE 0
    BY <1>1 DEF Pending
  <2>4. held'[x] = held[x] + (IF x = r THEN -1 ELSE 0)
    BY DEF TypeOK
  <2>5. QED
    BY <2>1, <2>2, <2>3, <2>4, ActiveChildrenFinite DEF TypeOK
<1>6. FreedExactly' /\ AssertsHold'
  BY <1>1, <1>3 DEF FreedExactly, AssertsHold, HasOwner, TypeOK
<1>7. ParentsExist'
  BY <1>1 DEF ParentsExist, HasParent, TypeOK
<1>8. ParentForest'
  <2>1. \A x \in Region : owner'[x] \in Region => owner'[x] = owner[x]
    BY <1>1 DEF TypeOK
  <2>2. QED
    BY <2>1, UnlinkKeepsForest DEF ParentForest
<1>9. CallsInOrder'
  BY <1>1 DEF CallsInOrder, Drained
<1>10. QED
  BY <1>4, <1>5, <1>6, <1>7, <1>8, <1>9

LEMMA StepLastClearCownOwner ==
  ASSUME IInv, LastClearCownOwner
  PROVE  IInv'
<1> DEFINE r == todoRegion
<1>1. r \in Region /\ owner[r] = CownOwner /\ held[r] > 0
  BY DEF LastClearCownOwner, IInv, CallsInOrder
<1>2. Pending(r) = 0
  BY <1>1 DEF LastClearCownOwner, Returned, Pending
<1>3. stack_rc[r] # 0
  BY <1>1, <1>2, ActiveChildrenFinite DEF IInv, StackRcExact, TypeOK
<1>4. /\ owner' = [owner EXCEPT ![r] = NoOwner] /\ broken' = FALSE
      /\ UNCHANGED <<status, stack_rc, carryInc, carryDec>>
  BY <1>1, <1>3 DEF LastClearCownOwner, ClearCownOwner, NoCarry, IInv, AssertsHold
<1>5. QED
  BY <1>1, <1>4, CownOwnerUnderGuard DEF LastClearCownOwner, Then

LEMMA StepLastRestoreCownOwner ==
  ASSUME IInv, LastRestoreCownOwner
  PROVE  IInv'
<1> DEFINE r == todoRegion
<1>1. r \in Region /\ owner[r] = NoOwner
  BY DEF LastRestoreCownOwner, IInv, CallsInOrder
<1>2. /\ owner' = [owner EXCEPT ![r] = CownOwner] /\ broken' = FALSE
      /\ UNCHANGED <<status, stack_rc, carryInc, carryDec>>
  BY <1>1 DEF LastRestoreCownOwner, SetCownOwner, NoCarry, IInv, AssertsHold,
              HasOwner
<1>3. QED
  BY <1>1, <1>2, CownOwnerUnderGuard DEF LastRestoreCownOwner, Then

-------------------------------------------------------------------------------
(* The collector *)

LEMMA StepFinalizeRegion ==
  ASSUME IInv, NEW r \in Region, FinalizeRegion(r)
  PROVE  IInv'
<1> DEFINE children == {c \in Region : owner[c] = r}
<1> USE DEF IInv
<1>1. /\ status[r] = "queued" /\ owner[r] = NoOwner
      /\ stack_rc[r] = 0 /\ held[r] = 0
  BY DEF FinalizeRegion, FreedExactly, HasOwner
<1>2. \A c \in children : stack_rc[c] = 0 /\ status[c] = "live" /\ c # r
  <2>1. \A c \in children : ~(stack_rc[c] > 0)
    BY <1>1, FreedHasNoActiveChild DEF ActiveChildren
  <2>2. QED
    BY <1>1, <2>1 DEF TypeOK, FreedExactly, HasOwner
<1>3. /\ owner' = [c \in Region |-> IF c \in children THEN NoOwner ELSE owner[c]]
      /\ status' = [c \in Region |-> IF c = r THEN "finalized"
                                      ELSE IF c \in children THEN "queued"
                                      ELSE status[c]]
      /\ UNCHANGED <<stack_rc, held, carryInc, carryDec, todo, todoRegion>>
  BY DEF FinalizeRegion
<1>4. broken' = FALSE
  <2>1. ~(\E c \in children : stack_rc[c] > 0)
    BY <1>2
  <2>2. QED
    BY <2>1 DEF FinalizeRegion, AssertsHold
<1>5. TypeOK'
  <2>1. owner' \in [Region -> Region \cup {NoOwner, CownOwner}]
    BY <1>3 DEF TypeOK
  <2>2. status' \in [Region -> Status]
    BY <1>3 DEF TypeOK, Status
  <2>3. QED
    BY <1>3, <1>4, <2>1, <2>2 DEF TypeOK
<1>6. StackRcExact'
  <2> SUFFICES ASSUME NEW x \in Region
               PROVE  (stack_rc[x] + Pending(x)
                        = held[x] + Cardinality(ActiveChildren(x)))'
    BY DEF StackRcExact
  <2>1. ActiveChildren(x)' = ActiveChildren(x)
    <3>1. \A c \in Region : owner'[c] = x /\ stack_rc'[c] > 0
                              <=> owner[c] = x /\ stack_rc[c] > 0
      BY <1>2, <1>3 DEF TypeOK
    <3>2. QED
      BY <3>1 DEF ActiveChildren
  <2>2. Pending(x)' = Pending(x)
    BY <1>3 DEF Pending
  <2>3. stack_rc[x] + Pending(x) = held[x] + Cardinality(ActiveChildren(x))
    BY DEF StackRcExact
  <2>4. QED
    BY <1>3, <2>1, <2>2, <2>3
<1>7. FreedExactly' /\ AssertsHold'
  <2>1. \A c \in children : held[c] = 0
    <3> SUFFICES ASSUME NEW c \in children PROVE held[c] = 0
      OBVIOUS
    <3>1. todo = "nothing" /\ carryInc = None /\ carryDec = None
      BY <1>1 DEF CallsInOrder, Drained, TypeOK
    <3>2. Pending(c) = 0
      BY <3>1 DEF Pending
    <3>3. QED
      BY <1>2, <3>2, ActiveChildrenFinite DEF StackRcExact, TypeOK
  <2>2. QED
    BY <1>1, <1>2, <1>3, <1>4, <2>1 DEF FreedExactly, AssertsHold, HasOwner, TypeOK
<1>8. ParentsExist'
  BY <1>1, <1>2, <1>3 DEF ParentsExist, HasParent, TypeOK
<1>9. ParentForest'
  <2>1. \A x \in Region : owner'[x] \in Region => owner'[x] = owner[x]
    BY <1>3 DEF TypeOK
  <2>2. QED
    BY <2>1, UnlinkKeepsForest DEF ParentForest
<1>10. CallsInOrder'
  <2>1. todo = "nothing" /\ carryInc = None /\ carryDec = None
    BY <1>1 DEF CallsInOrder, Drained, TypeOK
  <2>2. QED
    BY <1>3, <2>1 DEF CallsInOrder
<1>11. QED
  BY <1>5, <1>6, <1>7, <1>8, <1>9, <1>10

LEMMA StepDeleteFinalized ==
  ASSUME IInv, DeleteFinalized
  PROVE  IInv'
<1> USE DEF IInv
<1>1. /\ status' = [r \in Region |-> IF status[r] = "finalized" THEN "deleted"
                                      ELSE status[r]]
      /\ UNCHANGED <<owner, stack_rc, held, carryInc, carryDec, todo, todoRegion,
                     broken>>
  BY DEF DeleteFinalized
<1>2. TypeOK'
  <2>1. status' \in [Region -> Status]
    BY <1>1 DEF TypeOK, Status
  <2>2. QED
    BY <1>1, <2>1 DEF TypeOK
<1>3. StackRcExact'
  BY <1>1 DEF StackRcExact, Pending, ActiveChildren
<1>4. FreedExactly' /\ AssertsHold'
  BY <1>1 DEF FreedExactly, AssertsHold, HasOwner, TypeOK
<1>5. ParentsExist' /\ ParentForest'
  BY <1>1 DEF ParentsExist, ParentForest, HasParent
<1>6. CallsInOrder'
  <2>1. todo = "nothing" /\ carryInc = None /\ carryDec = None
    BY DEF DeleteFinalized, CallsInOrder, Drained, TypeOK
  <2>2. QED
    BY <1>1, <2>1 DEF CallsInOrder
<1>7. QED
  BY <1>2, <1>3, <1>4, <1>5, <1>6

-------------------------------------------------------------------------------
LEMMA InitEstablishes == Init => IInv
<1> SUFFICES ASSUME Init PROVE IInv
  OBVIOUS
<1>1. TypeOK /\ FreedExactly /\ ParentsExist /\ AssertsHold /\ CallsInOrder
  BY DEF Init, TypeOK, FreedExactly, ParentsExist, AssertsHold, CallsInOrder,
         HasOwner, HasParent, Drained, Status, Calls
<1>2. StackRcExact
  <2> SUFFICES ASSUME NEW x \in Region
               PROVE  stack_rc[x] + Pending(x)
                        = held[x] + Cardinality(ActiveChildren(x))
    BY DEF StackRcExact
  <2>1. ActiveChildren(x) = {}
    BY DEF Init, ActiveChildren
  <2>2. Pending(x) = 0
    BY DEF Init, Pending
  <2>3. QED
    BY <2>1, <2>2, FS_EmptySet DEF Init
<1>3. ParentForest
  BY DEF Init, ParentForest, Forest
<1>4. QED
  BY <1>1, <1>2, <1>3 DEF IInv

LEMMA NextPreserves == IInv /\ [Next]_vars => IInv'
<1> SUFFICES ASSUME IInv, [Next]_vars PROVE IInv'
  OBVIOUS
<1>1. CASE Operate
  BY <1>1, StepCreateRegion, StepRegInc, StepRegDec, StepStoreRegion,
     StepTakeRegion, StepCownStore, StepCownTake, StepCownDestroy DEF Operate
<1>2. CASE Continue
  BY <1>2, StepCascadeInc, StepCascadeDec, StepFinalizeRegion,
     StepDeleteFinalized, StepLastStackDec, StepLastClearParent,
     StepLastClearCownOwner, StepLastRestoreCownOwner DEF Continue
<1>3. CASE UNCHANGED vars
  BY <1>3 DEF vars, IInv, TypeOK, StackRcExact, Pending, ActiveChildren,
              FreedExactly, ParentsExist, ParentForest, AssertsHold,
              CallsInOrder, HasOwner, HasParent, Drained
<1>4. QED
  BY <1>1, <1>2, <1>3 DEF Next

\* The inductive invariant holds in every reachable state, for every finite set
\* of regions and every bound on references.
THEOREM InvariantHolds == Spec => []IInv
<1>1. QED
  BY InitEstablishes, NextPreserves, PTL DEF Spec

\* The types are right: status, owner, counts and pending calls of region.h.
THEOREM TypeCorrect == Spec => []TypeOK
<1>1. IInv => TypeOK
  BY DEF IInv
<1>2. QED
  BY <1>1, InvariantHolds, PTL

\* stack_rc of every region is exactly the references held into it plus its
\* active children, in the middle of every cascade too.
THEOREM StackRcIsExact == Spec => []StackRcExact
<1>1. IInv => StackRcExact
  BY DEF IInv
<1>2. QED
  BY <1>1, InvariantHolds, PTL

\* No region is freed while it is owned or referred to, and none is left behind
\* (the two ends of free_region).
THEOREM RegionsFreedExactly == Spec => []FreedExactly
<1>1. IInv => FreedExactly
  BY DEF IInv
<1>2. QED
  BY <1>1, InvariantHolds, PTL

\* A parent pointer never leads to a region that is gone (set_parent,
\* finalize_contents).
THEOREM ParentsAreLive == Spec => []ParentsExist
<1>1. IInv => ParentsExist
  BY DEF IInv
<1>2. QED
  BY <1>1, InvariantHolds, PTL

\* The asserts of region.h hold for every caller modelled.
THEOREM NoAssertFails == Spec => []AssertsHold
<1>1. IInv => AssertsHold
  BY DEF IInv
<1>2. QED
  BY <1>1, InvariantHolds, PTL

\* Ownership stays a forest, so is_ancestor_of and the cascades end.
THEOREM ParentsFormForest == Spec => []ParentForest
<1>1. IInv => ParentForest
  BY DEF IInv
<1>2. QED
  BY <1>1, InvariantHolds, PTL

-------------------------------------------------------------------------------
(* What the counts say between operations *)

\* Nothing is pending between operations: a count is the references held into
\* the region and its active children.
LEMMA IdleCount ==
  ASSUME IInv, Idle, NEW r \in Region
  PROVE  /\ stack_rc[r] \in Nat /\ held[r] \in Nat
         /\ stack_rc[r] > 0 <=> held[r] > 0 \/ ActiveChildren(r) # {}
<1>1. Pending(r) = 0
  BY DEF Idle, Pending
<1>2. stack_rc[r] \in Nat /\ held[r] \in Nat
  BY DEF IInv, TypeOK
<1>3. stack_rc[r] = held[r] + Cardinality(ActiveChildren(r))
  BY <1>1, <1>2 DEF IInv, StackRcExact
<1>4. QED
  BY <1>2, <1>3, ActiveChildrenFinite

\* A held reference is counted all the way up: the regions with a count contain
\* the parents of their members.
LEMMA HeldCountsUp ==
  ASSUME IInv, Idle, NEW r \in Region, NEW x \in Region,
         AncestorOrSelf(owner, r, x), held[x] > 0
  PROVE  stack_rc[r] > 0
<1> DEFINE S == {y \in Region : stack_rc[y] > 0}
<1>1. x \in S
  BY IdleCount
<1>2. ASSUME NEW y \in S, owner[y] \in Region PROVE owner[y] \in S
  <2>1. y \in ActiveChildren(owner[y])
    BY <1>2 DEF ActiveChildren
  <2>2. QED
    BY <1>2, <2>1, IdleCount
<1>3. S \in SUBSET Region /\ UpClosed(owner, S)
  BY <1>2 DEF UpClosed
<1> HIDE DEF S
<1>4. r \in S
  BY <1>1, <1>3 DEF AncestorOrSelf
<1>5. QED
  BY <1>4 DEF S

\* A count is never without a reason below: of the regions with a count in the
\* tree of r one has no child among them (ForestHasLeaf), so it is held.
LEMMA CountHasReason ==
  ASSUME IInv, Idle, NEW r \in Region, stack_rc[r] > 0
  PROVE  \E x \in Region : AncestorOrSelf(owner, r, x) /\ held[x] > 0
<1> DEFINE T == {y \in Region : AncestorOrSelf(owner, r, y) /\ stack_rc[y] > 0}
<1>1. r \in T /\ T \in SUBSET Region /\ IsFiniteSet(T)
  BY AncestorStep, FS_Subset
<1>2. PICK y \in T : \A c \in T : owner[c] # y
  <2> HIDE DEF T
  <2> QED
    BY <1>1, ForestHasLeaf DEF IInv, ParentForest
<1>3. ActiveChildren(y) = {}
  <2> SUFFICES ASSUME NEW c \in ActiveChildren(y) PROVE FALSE
    OBVIOUS
  <2>1. c \in Region /\ owner[c] = y /\ stack_rc[c] > 0
    BY DEF ActiveChildren
  <2>2. c \in T
    BY <2>1, AncestorStep
  <2>3. QED
    BY <1>2, <2>1, <2>2
<1>4. QED
  BY <1>3, IdleCount

\* A parent's count stands for its whole tree: between operations it is above 0
\* exactly if a reference is held somewhere below (the recursion of stack_inc
\* and stack_dec into the parent).
THEOREM CountsCoverTrees == Spec => []CountCoversTree
<1>1. IInv => CountCoversTree
  BY HeldCountsUp, CountHasReason DEF CountCoversTree
<1>2. QED
  BY <1>1, InvariantHolds, PTL

\* A region that is live between operations can be reached: a cown owns the root
\* of its tree, or a reference is held somewhere in that tree.
ReachableIfLive ==
  Idle => \A r \in Region : status[r] = "live" =>
    \E a \in Region : /\ AncestorOrSelf(owner, a, r)
                      /\ \/ owner[a] = CownOwner
                         \/ \E x \in Region : AncestorOrSelf(owner, a, x) /\ held[x] > 0

\* Nothing leaks, for every finite set of regions: whatever the collector leaves
\* between operations somebody can reach (free_region, finalize_contents).
THEOREM NothingUnreachableStays == Spec => []ReachableIfLive
<1>1. ASSUME IInv, Idle, NEW r \in Region, status[r] = "live"
      PROVE  \E a \in Region :
               /\ AncestorOrSelf(owner, a, r)
               /\ \/ owner[a] = CownOwner
                  \/ \E x \in Region : AncestorOrSelf(owner, a, x) /\ held[x] > 0
  <2>1. PICK a \in Region : AncestorOrSelf(owner, a, r) /\ owner[a] \notin Region
    BY <1>1, ForestHasRoot DEF IInv, ParentForest
  <2>2. status[a] = "live"
    <3> DEFINE S == {y \in Region : status[y] = "live"}
    <3>1. ASSUME NEW y \in S, owner[y] \in Region PROVE owner[y] \in S
      <4>1. status[owner[y]] \in {"live", "queued"}
        BY <1>1, <3>1 DEF IInv, ParentsExist, HasParent
      <4>2. QED
        BY <1>1, <3>1, <4>1 DEF Idle, Drained
    <3>2. r \in S /\ S \in SUBSET Region /\ UpClosed(owner, S)
      BY <1>1, <3>1 DEF UpClosed
    <3> HIDE DEF S
    <3>3. a \in S
      BY <2>1, <3>2 DEF AncestorOrSelf
    <3>4. QED
      BY <3>3 DEF S
  <2>3. owner[a] = CownOwner \/ stack_rc[a] > 0
    BY <1>1, <2>1, <2>2 DEF IInv, TypeOK, FreedExactly, HasOwner
  <2>4. QED
    BY <1>1, <2>1, <2>3, CountHasReason
<1>2. IInv => ReachableIfLive
  BY <1>1 DEF ReachableIfLive
<1>3. QED
  BY <1>2, InvariantHolds, PTL

-------------------------------------------------------------------------------
(* RegionTree implements RegionOwnership: counting references region by      *)
(* region, cascading the counts and draining a worklist frees exactly what   *)
(* the abstract specification allows to be reclaimed.                        *)

\* The count of a region stands for everything held in the tree below it: as
\* long as a reference is held there, no ancestor can reach 0.
LEMMA HeldPinsAncestors ==
  ASSUME IInv, NEW r \in Region, NEW x \in Region,
         carryInc = None, carryDec = None, todo # "stack_dec",
         AncestorOrSelf(owner, r, x), held[x] > 0
  PROVE  stack_rc[r] > 0
<1> DEFINE S == {y \in Region : stack_rc[y] > 0}
<1> USE DEF IInv
<1>1. \A y \in Region : stack_rc[y] = held[y] + Cardinality(ActiveChildren(y))
  <2> SUFFICES ASSUME NEW y \in Region
               PROVE  stack_rc[y] = held[y] + Cardinality(ActiveChildren(y))
    OBVIOUS
  <2>1. Pending(y) = 0
    BY DEF Pending
  <2>2. stack_rc[y] + Pending(y) = held[y] + Cardinality(ActiveChildren(y))
    BY DEF StackRcExact
  <2>3. QED
    BY <2>1, <2>2 DEF TypeOK
<1>2. x \in S
  BY <1>1, ActiveChildrenFinite DEF TypeOK
<1>3. UpClosed(owner, S)
  <2> SUFFICES ASSUME NEW y \in S, owner[y] \in Region
               PROVE  owner[y] \in S
    BY DEF UpClosed
  <2>1. y \in ActiveChildren(owner[y])
    BY DEF ActiveChildren
  <2>2. Cardinality(ActiveChildren(owner[y])) \in Nat \ {0}
    BY <2>1, ActiveChildrenFinite
  <2>3. QED
    BY <1>1, <2>2 DEF TypeOK
<1>4. r \in S
  BY <1>2, <1>3 DEF AncestorOrSelf
<1>5. QED
  BY <1>4

\* The chain of parents means the same in the two specifications.
LEMMA SameChain ==
  ASSUME NEW a, NEW r
  PROVE  Ownership!AncestorOrSelf(owner, a, r) <=> AncestorOrSelf(owner, a, r)
BY DEF Ownership!AncestorOrSelf, AncestorOrSelf, Ownership!UpClosed, UpClosed

\* A step that changes one live region's owner or held count, as the abstract
\* specification allows.
LEMMA ChangeSteps ==
  ASSUME IInv, NEW r \in Region, status[r] = "live",
         NEW o \in Region \cup {NoOwner, CownOwner},
         NEW h \in {held[r] - 1, held[r], held[r] + 1}, h >= 0,
         owner[r] = o \/ owner[r] = NoOwner \/ o = NoOwner,
         o \in Region /\ owner[r] # o
           => o \in Alive /\ ~AncestorOrSelf(owner, r, o),
         owner' = [owner EXCEPT ![r] = o], held' = [held EXCEPT ![r] = h],
         Alive' = Alive
  PROVE  Ownership!Next
<1>1. r \in Alive
  BY DEF Alive
<1>2. h - held[r] \in {-1, 0, 1}
  BY DEF IInv, TypeOK
<1>3. Ownership!Change(r, o, h)
  BY <1>1, <1>2, SameChain DEF Ownership!Change
<1>4. QED
  BY <1>3 DEF Ownership!Next

\* What stays alive when a region is at most queued.
LEMMA AliveKept ==
  ASSUME IInv, NEW r \in Region, status[r] = "live",
         status' = status \/ status' = [status EXCEPT ![r] = "queued"]
  PROVE  Alive' = Alive
BY DEF Alive, IInv, TypeOK

LEMMA FunctionKept ==
  ASSUME IInv, NEW r \in Region
  PROVE  /\ owner = [owner EXCEPT ![r] = owner[r]]
         /\ held = [held EXCEPT ![r] = held[r]]
         /\ owner[r] \in Region \cup {NoOwner, CownOwner}
         /\ held[r] \in Nat
BY DEF IInv, TypeOK

LEMMA OperateRefines ==
  ASSUME IInv, Operate
  PROVE  Ownership!Next
<1> USE DEF IInv
<1>1. ASSUME NEW r \in Region, CreateRegion(r) PROVE Ownership!Next
  <2>1. r \notin Alive /\ Alive' = Alive \cup {r} /\ owner[r] = NoOwner
    BY <1>1 DEF CreateRegion, Alive, TypeOK, FreedExactly, HasOwner
  <2>2. Ownership!Birth(r)
    BY <1>1, <2>1 DEF CreateRegion, Ownership!Birth
  <2>3. QED
    BY <2>2 DEF Ownership!Next
<1>2. ASSUME NEW r \in Region, RegInc(r) \/ TakeRegion(r) \/ CownDestroy(r)
      PROVE  Ownership!Next
  <2>1. status[r] = "live" /\ status' = status /\ owner' = owner
    BY <1>2 DEF RegInc, TakeRegion, CownDestroy, StackInc, FreedExactly,
                HasOwner, HasParent, TypeOK
  <2>2. held' = [held EXCEPT ![r] = held[r] + 1]
    BY <1>2 DEF RegInc, TakeRegion, CownDestroy
  <2>3. Alive' = Alive
    BY <2>1 DEF Alive
  <2>4. /\ owner' = [owner EXCEPT ![r] = owner[r]] /\ held[r] + 1 >= 0
        /\ owner[r] \in Region \cup {NoOwner, CownOwner}
    BY <2>1, FunctionKept
  <2>5. owner[r] \in Region /\ owner[r] # owner[r]
          => owner[r] \in Alive /\ ~AncestorOrSelf(owner, r, owner[r])
    OBVIOUS
  <2>6. QED
    BY <2>1, <2>2, <2>3, <2>4, <2>5, ChangeSteps
<1>3. ASSUME NEW r \in Region, RegDec(r) PROVE Ownership!Next
  <2>1. status[r] = "live"
    BY <1>3, HeldIsLive DEF RegDec
  <2>2. Alive' = Alive /\ owner' = owner
    BY <1>3, <2>1, AliveKept DEF RegDec, StackDec
  <2>3. held' = [held EXCEPT ![r] = held[r] - 1] /\ held[r] - 1 >= 0
    BY <1>3 DEF RegDec, TypeOK
  <2>4. QED
    BY <2>1, <2>2, <2>3, FunctionKept, ChangeSteps
<1>4. ASSUME NEW r \in Region, NEW p \in Region, NEW is_move \in BOOLEAN,
             StoreRegion(r, p, is_move)
      PROVE  Ownership!Next
  <2>1. /\ status[r] = "live" /\ status[p] = "live" /\ owner[r] = NoOwner
        /\ held[r] > 0 /\ status' = status
    BY <1>4, HeldIsLive DEF StoreRegion, HasOwner, SetParent
  <2>2. p \in Alive /\ ~AncestorOrSelf(owner, r, p)
    BY <1>4, <2>1, StoreIsNotCyclic DEF StoreRegion, Alive
  <2>3. owner' = [owner EXCEPT ![r] = p]
    BY <1>4 DEF StoreRegion, SetParent
  <2>4. \E h \in {held[r] - 1, held[r]} :
          h >= 0 /\ held' = [held EXCEPT ![r] = h]
    BY <1>4, <2>1, FunctionKept DEF StoreRegion
  <2>5. QED
    BY <2>1, <2>2, <2>3, <2>4, AliveKept, ChangeSteps
<1>5. ASSUME NEW r \in Region, NEW is_move \in BOOLEAN, CownStore(r, is_move)
      PROVE  Ownership!Next
  <2>1. /\ status[r] = "live" /\ owner[r] = NoOwner /\ held[r] > 0
        /\ status' = status
    BY <1>5, HeldIsLive DEF CownStore, HasOwner, SetCownOwner
  <2>2. owner' = [owner EXCEPT ![r] = CownOwner]
    BY <1>5 DEF CownStore, SetCownOwner
  <2>3. \E h \in {held[r] - 1, held[r]} :
          h >= 0 /\ held' = [held EXCEPT ![r] = h]
    BY <1>5, <2>1, FunctionKept DEF CownStore
  <2>4. QED
    BY <2>1, <2>2, <2>3, AliveKept, ChangeSteps
<1>6. ASSUME NEW r \in Region, NEW refused \in BOOLEAN, CownTake(r, refused)
      PROVE  Ownership!Next
  <2>1. status[r] = "live" /\ status' = status
    BY <1>6 DEF CownTake, FreedExactly, HasOwner
  <2>2. /\ owner' = [owner EXCEPT ![r] = NoOwner]
        /\ held' = [held EXCEPT ![r] = held[r] + 1]
    BY <1>6 DEF CownTake
  <2>3. Alive' = Alive
    BY <2>1 DEF Alive
  <2>4. held[r] + 1 >= 0
    BY FunctionKept
  <2>5. QED
    BY <2>1, <2>2, <2>3, <2>4, RegionAssumption, ChangeSteps
<1>7. QED
  BY <1>1, <1>2, <1>3, <1>4, <1>5, <1>6 DEF Operate

LEMMA ContinueRefines ==
  ASSUME IInv, Continue
  PROVE  [Ownership!Next]_(Ownership!vars)
<1> USE DEF IInv
<1>1. ASSUME CascadeInc \/ DeleteFinalized PROVE UNCHANGED <<Alive, owner, held>>
  <2>1. CASE CascadeInc
    BY <2>1 DEF CascadeInc, StackInc, Alive
  <2>2. CASE DeleteFinalized
    BY <2>2 DEF DeleteFinalized, Alive, TypeOK
  <2>3. QED
    BY <1>1, <2>1, <2>2
<1>2. ASSUME CascadeDec \/ LastStackDec PROVE UNCHANGED <<Alive, owner, held>>
  <2>1. CASE CascadeDec
    <3>1. carryDec \in Region /\ status[carryDec] = "live"
      BY <2>1, PendingDecIsCovered DEF CascadeDec, TypeOK
    <3>2. QED
      BY <2>1, <3>1, AliveKept DEF CascadeDec, StackDec
  <2>2. CASE LastStackDec
    <3>1. todoRegion \in Region /\ status[todoRegion] = "live"
      BY <2>2, PendingDecIsCovered DEF LastStackDec, Returned, CallsInOrder
    <3>2. QED
      BY <2>2, <3>1, AliveKept DEF LastStackDec, StackDec
  <2>3. QED
    BY <1>2, <2>1, <2>2
<1>3. ASSUME LastClearParent PROVE Ownership!Next
  <2>1. todoRegion \in Region /\ status[todoRegion] = "live"
    BY <1>3 DEF LastClearParent, CallsInOrder
  <2>2. owner' = [owner EXCEPT ![todoRegion] = NoOwner] /\ held' = held
    BY <1>3 DEF LastClearParent, ClearParent
  <2>3. Alive' = Alive
    BY <1>3, <2>1, AliveKept DEF LastClearParent, ClearParent
  <2>4. /\ held' = [held EXCEPT ![todoRegion] = held[todoRegion]]
        /\ held[todoRegion] >= 0
    BY <2>1, <2>2, FunctionKept
  <2>5. QED
    BY <2>1, <2>2, <2>3, <2>4, ChangeSteps
<1>4. ASSUME LastClearCownOwner \/ LastRestoreCownOwner PROVE Ownership!Next
  <2>1. /\ todoRegion \in Region /\ status[todoRegion] = "live"
        /\ held[todoRegion] > 0
    BY <1>4 DEF LastClearCownOwner, LastRestoreCownOwner, CallsInOrder
  <2>2. Alive' = Alive
    BY <1>4, <2>1, AliveKept DEF LastClearCownOwner, ClearCownOwner,
                                 LastRestoreCownOwner, SetCownOwner
  <2>3. held' = [held EXCEPT ![todoRegion] = held[todoRegion] - 1]
    BY <1>4 DEF LastClearCownOwner, LastRestoreCownOwner
  <2>4. held[todoRegion] - 1 >= 0
    BY <2>1, FunctionKept
  <2>5. CASE LastClearCownOwner
    <3>1. owner' = [owner EXCEPT ![todoRegion] = NoOwner]
      BY <2>5 DEF LastClearCownOwner, ClearCownOwner
    <3>2. QED
      BY <2>1, <2>2, <2>3, <2>4, <3>1, ChangeSteps
  <2>6. CASE LastRestoreCownOwner
    <3>1. /\ owner' = [owner EXCEPT ![todoRegion] = CownOwner]
          /\ owner[todoRegion] = NoOwner
      BY <2>6 DEF LastRestoreCownOwner, SetCownOwner, CallsInOrder
    <3>2. QED
      BY <2>1, <2>2, <2>3, <2>4, <3>1, ChangeSteps
  <2>7. QED
    BY <1>4, <2>5, <2>6
<1>5. ASSUME NEW r \in Region, FinalizeRegion(r) PROVE Ownership!Next
  <2>1. /\ status[r] = "queued" /\ owner[r] = NoOwner /\ stack_rc[r] = 0
        /\ carryInc = None /\ carryDec = None /\ todo = "nothing"
    BY <1>5 DEF FinalizeRegion, FreedExactly, HasOwner, CallsInOrder, Drained,
                TypeOK
  <2>2. ASSUME NEW x \in Region, AncestorOrSelf(owner, r, x) PROVE held[x] = 0
    BY <2>1, <2>2, HeldPinsAncestors, FunctionKept
  <2>3. Ownership!TreeUnheld(r)
    BY <2>2, SameChain DEF Ownership!TreeUnheld
  <2>4. Alive' = Alive \ {r} /\ r \in Alive
    <3>1. \A c \in Region : owner[c] = r => status[c] = "live"
      BY <2>1 DEF FreedExactly, HasOwner, TypeOK
    <3>2. \A c \in Region : status'[c] \in {"live", "queued"}
                              <=> status[c] \in {"live", "queued"} /\ c # r
      BY <1>5, <2>1, <3>1 DEF FinalizeRegion, TypeOK
    <3>3. QED
      BY <2>1, <3>2 DEF Alive
  <2>5. /\ owner' = [c \in Region |-> IF owner[c] = r THEN NoOwner ELSE owner[c]]
        /\ held' = held
    BY <1>5 DEF FinalizeRegion
  <2>6. Ownership!Reclaim(r)
    BY <2>1, <2>3, <2>4, <2>5 DEF Ownership!Reclaim
  <2>7. QED
    BY <2>6 DEF Ownership!Next
<1>6. QED
  BY <1>1, <1>2, <1>3, <1>4, <1>5 DEF Continue, Ownership!vars

LEMMA InitRefines == Init => Ownership!Init
BY DEF Init, Ownership!Init, Alive

\* Every behaviour of the counted, cascading, collecting region tree is a
\* behaviour of the abstract ownership forest.
THEOREM RegionTreeImplementsOwnership == Spec => ImplementsOwnership
<1>1. IInv /\ [Next]_vars => [Ownership!Next]_(Ownership!vars)
  <2>1. ASSUME IInv, UNCHANGED vars PROVE UNCHANGED Ownership!vars
    BY <2>1 DEF vars, Ownership!vars, Alive
  <2>2. QED
    BY <2>1, OperateRefines, ContinueRefines DEF Next
<1>2. QED
  BY <1>1, InitRefines, InvariantHolds, PTL
     DEF Spec, ImplementsOwnership, Ownership!Spec
===============================================================================
