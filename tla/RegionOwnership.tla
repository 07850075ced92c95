--------------------------- MODULE RegionOwnership ---------------------------
(***************************************************************************)
(* What the region machinery promises the program: each region has at most *)
(* one owner (a parent region or a cown), ownership is a forest, and a     *)
(* region is reclaimed only when nothing owns it and no reference is held  *)
(* into it or into any region below it.  How the promise is kept (counts   *)
(* on regions, cascades, a worklist) is left to RegionTree.                *)
(***************************************************************************)
EXTENDS Integers, OwnershipForest

CONSTANTS NoOwner, CownOwner

VARIABLES
  alive,  \* the regions that exist
  owner,  \* the owner of each region
  held    \* the references registers and frame-local fields hold into it

vars == <<alive, owner, held>>

\* No reference is held into the tree below r.
TreeUnheld(r) ==
  \A x \in Region : AncestorOrSelf(owner, r, x) => held[x] = 0

Init ==
  /\ alive = {}
  /\ owner = [r \in Region |-> NoOwner]
  /\ held = [r \in Region |-> 0]

Birth(r) ==
  /\ r \notin alive
  /\ owner[r] = NoOwner
  /\ alive' = alive \cup {r}
  /\ held' = [held EXCEPT ![r] = 1]
  /\ UNCHANGED owner

\* A region gains or loses an owner, a reference, or both; an owner is never
\* replaced by another, and no region comes to own itself.
Change(r, o, h) ==
  /\ r \in alive
  /\ h >= 0 /\ h - held[r] \in {-1, 0, 1}
  /\ owner[r] \in {o, NoOwner} \/ o = NoOwner
  /\ (o \in Region /\ owner[r] # o) => o \in alive /\ ~AncestorOrSelf(owner, r, o)
  /\ owner' = [owner EXCEPT ![r] = o]
  /\ held' = [held EXCEPT ![r] = h]
  /\ UNCHANGED alive

\* The only way a region ends; the regions it owned are left without owner.
Reclaim(r) ==
  /\ r \in alive
  /\ owner[r] = NoOwner
  /\ TreeUnheld(r)
  /\ alive' = alive \ {r}
  /\ owner' = [c \in Region |-> IF owner[c] = r THEN NoOwner ELSE owner[c]]
  /\ UNCHANGED held

Next ==
  \E r \in Region :
    \/ Birth(r)
    \/ \E o \in Region \cup {NoOwner, CownOwner} :
         \E h \in {held[r] - 1, held[r], held[r] + 1} : Change(r, o, h)
    \/ Reclaim(r)

Spec == Init /\ [][Next]_vars

===============================================================================
