--------------------------- MODULE OwnershipForest ---------------------------
(***************************************************************************)
(* Walking parent pointers.  own maps each region to its parent region or  *)
(* to a value outside Region.  Region::is_ancestor_of follows the pointers *)
(* in a loop; here the regions the loop meets are the members of every set *)
(* that contains its start and is closed under taking the parent.          *)
(***************************************************************************)
CONSTANT Region

\* S is closed under taking the parent.
UpClosed(own, S) == \A r \in S : own[r] \in Region => own[r] \in S

\* a is r, or is met by following parent pointers from r.
AncestorOrSelf(own, a, r) ==
  \A S \in SUBSET Region : r \in S /\ UpClosed(own, S) => a \in S

\* a is met by following parent pointers from r, r itself not counted.
IsAncestor(own, a, r) ==
  own[r] \in Region /\ AncestorOrSelf(own, a, own[r])

\* The loop of is_ancestor_of ends from every region: no set of regions has
\* all the parents of its members inside.
Forest(own) == \A S \in SUBSET Region : S # {} => \E r \in S : own[r] \notin S
===============================================================================
