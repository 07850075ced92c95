------------------------------ MODULE RegionTree ------------------------------
(***************************************************************************)
(* The ownership forest of heap regions kept by one interpreter thread:    *)
(* the owner of each region, its stack reference count (stack_rc), the     *)
(* cascade of that count along parent pointers, and the collector that     *)
(* finalizes and then deletes the regions that lose their last reference.  *)
(*                                                                         *)
(* The callers of region.h are here one operation each (a register         *)
(* reference, the write barrier's parent operations, the cown's ownership  *)
(* operations), with the checks they make first.  What they reference is   *)
(* abstracted to held[r], the number of registers and frame-local fields   *)
(* that point into region r.  A call that recurses (stack_inc and          *)
(* stack_dec on the parent) runs in several steps, in the code's order:    *)
(* carryInc / carryDec hold the region the recursion is about to visit,    *)
(* todo the call the operation still has to make.  A write that swaps two  *)
(* regions is StoreRegion followed by TakeRegion: the write barrier        *)
(* finishes with the incoming region before it touches the outgoing one.   *)
(***************************************************************************)
EXTENDS Integers, FiniteSets, OwnershipForest

CONSTANTS
  NoOwner,    \* the owner of a free-standing region (parent == nullptr)
  CownOwner,  \* the owner of a region held by a cown (cown_owned)
  None,       \* no pending recursion
  MaxHeld     \* bound: references that registers hold into one region

ASSUME RegionAssumption ==
  /\ IsFiniteSet(Region)
  /\ NoOwner \notin Region
  /\ CownOwner \notin Region
  /\ None \notin Region
  /\ NoOwner # CownOwner
  /\ MaxHeld \in Nat

VARIABLES
  status,     \* life of each region: unborn, live, queued, finalized, deleted
  owner,      \* parent region, CownOwner or NoOwner
  stack_rc,   \* Region::stack_rc
  held,       \* references registers and frame-local fields hold (see above)
  carryInc,   \* region whose stack_inc the recursion makes next, or None
  carryDec,   \* region whose stack_dec the recursion makes next, or None
  todo,       \* call the running operation makes after the recursion
  todoRegion, \* the region todo is about
  broken      \* TRUE once an assert of region.h has failed

vars == <<status, owner, stack_rc, held, carryInc, carryDec, todo, todoRegion,
          broken>>

Status == {"unborn", "live", "queued", "finalized", "deleted"}
Calls  == {"nothing", "stack_dec", "clear_parent", "clear_cown_owner",
           "restore_cown_owner"}

TypeOK ==
  /\ status \in [Region -> Status]
  /\ owner \in [Region -> Region \cup {NoOwner, CownOwner}]
  /\ stack_rc \in [Region -> Nat]
  /\ held \in [Region -> Nat]
  /\ carryInc \in Region \cup {None}
  /\ carryDec \in Region \cup {None}
  /\ todo \in Calls
  /\ todoRegion \in Region \cup {None}
  /\ broken \in BOOLEAN

-------------------------------------------------------------------------------
(* Queries *)

HasParent(r) == owner[r] \in Region
HasOwner(r)  == owner[r] # NoOwner

\* A plausible bug in is_ancestor_of: only the parent is looked at (no action
\* uses it; it shows that the forest property notices).
IsAncestorShallow(a, r) == owner[r] = a

\* Region::is_ancestor_of.
IsAncestorOf(a, r) == IsAncestor(owner, a, r)

\* No collection is draining: the worklist is empty.
Drained == \A r \in Region : status[r] \notin {"queued", "finalized"}

\* The thread is between two operations on regions.
Idle == carryInc = None /\ carryDec = None /\ todo = "nothing" /\ Drained

\* A register can obtain a reference into r: it has one, it has one into the
\* region whose object refers to r, or the behaviour holds the cown.
Reachable(r) ==
  \/ held[r] > 0
  \/ HasParent(r) /\ held[owner[r]] > 0
  \/ owner[r] = CownOwner

-------------------------------------------------------------------------------
(* Plausible bugs in the calls and operations below.  No action uses them: each *)
(* stands in for the definition it distorts, to see that a property notices.    *)

\* set_parent forgets that the new parent gains an active child.
SetParentUncounted(r, p) ==
  /\ owner' = [owner EXCEPT ![r] = p]
  /\ carryInc' = None /\ carryDec' = None
  /\ broken' = (broken \/ HasOwner(r))
  /\ UNCHANGED <<status, stack_rc>>

\* stack_inc recurses on every increment, not only when it leaves 0.
StackIncAlwaysRecurses(r) ==
  /\ stack_rc' = [stack_rc EXCEPT ![r] = @ + 1]
  /\ carryInc' = IF HasParent(r) THEN owner[r] ELSE None
  /\ carryDec' = None
  /\ UNCHANGED <<status, broken>>

\* stack_inc never recurses.
StackIncNeverRecurses(r) ==
  /\ stack_rc' = [stack_rc EXCEPT ![r] = @ + 1]
  /\ carryInc' = None /\ carryDec' = None
  /\ UNCHANGED <<status, broken>>

\* stack_dec frees a region that a cown owns.
StackDecFreesCownOwned(r) ==
  /\ stack_rc' = [stack_rc EXCEPT ![r] = @ - 1]
  /\ status' = IF stack_rc[r] = 1 /\ ~HasParent(r)
               THEN [status EXCEPT ![r] = "queued"] ELSE status
  /\ carryDec' = IF stack_rc[r] = 1 /\ HasParent(r) THEN owner[r] ELSE None
  /\ carryInc' = None
  /\ broken' = (broken \/ stack_rc[r] < 1)

\* clear_parent forgets that the old parent loses an active child.
ClearParentUncounted(r) ==
  /\ owner' = [owner EXCEPT ![r] = NoOwner]
  /\ carryDec' = None /\ carryInc' = None
  /\ status' = IF stack_rc[r] > 0 THEN status
               ELSE [status EXCEPT ![r] = "queued"]
  /\ broken' = (broken \/ ~HasParent(r))
  /\ UNCHANGED stack_rc

\* add_reference does not check that the incoming region is free-standing.
CownStoreUnchecked(r, is_move) ==
  /\ Idle
  /\ held[r] > 0 /\ owner[r] # CownOwner
  /\ owner' = [owner EXCEPT ![r] = CownOwner]
  /\ broken' = (broken \/ HasOwner(r))
  /\ held' = IF is_move THEN [held EXCEPT ![r] = @ - 1] ELSE held
  /\ todo' = (IF is_move THEN "stack_dec" ELSE "nothing")
  /\ todoRegion' = (IF is_move THEN r ELSE None)
  /\ UNCHANGED <<status, stack_rc, carryInc, carryDec>>

\* A finalized region's children keep their parent pointer.
FinalizeKeepsParents(r) ==
  /\ status[r] = "queued"
  /\ status' = [status EXCEPT ![r] = "finalized"]
  /\ UNCHANGED <<owner, stack_rc, held, carryInc, carryDec, todo, todoRegion,
                 broken>>

\* A finalized region's children are unparented but not freed.
FinalizeForgetsChildren(r) ==
  /\ status[r] = "queued"
  /\ owner' = [c \in Region |-> IF owner[c] = r THEN NoOwner ELSE owner[c]]
  /\ status' = [status EXCEPT ![r] = "finalized"]
  /\ UNCHANGED <<stack_rc, held, carryInc, carryDec, todo, todoRegion, broken>>

\* The collector's second phase is left out when the worklist held one region.
DeleteSkipsSingle ==
  /\ Cardinality({r \in Region : status[r] = "finalized"}) > 1
  /\ \A r \in Region : status[r] # "queued"
  /\ status' = [r \in Region |-> IF status[r] = "finalized" THEN "deleted"
                                  ELSE status[r]]
  /\ UNCHANGED <<owner, stack_rc, held, carryInc, carryDec, todo, todoRegion,
                 broken>>

-------------------------------------------------------------------------------
Init ==
  /\ status = [r \in Region |-> "unborn"]
  /\ owner = [r \in Region |-> NoOwner]
  /\ stack_rc = [r \in Region |-> 0]
  /\ held = [r \in Region |-> 0]
  /\ carryInc = None
  /\ carryDec = None
  /\ todo = "nothing"
  /\ todoRegion = None
  /\ broken = FALSE

(* The calls of region.h, as parts of the actions below. *)

NoCarry == UNCHANGED <<carryInc, carryDec>>

Then(call, r) == todo' = call /\ todoRegion' = r
ThenNothing   == todo' = "nothing" /\ todoRegion' = None

\* stack_inc: the count of r goes up; leaving 0 it recurses into the parent.
StackInc(r) ==
  /\ stack_rc' = [stack_rc EXCEPT ![r] = @ + 1]
  /\ carryInc' = IF stack_rc[r] = 0 /\ HasParent(r) THEN owner[r] ELSE None
  /\ carryDec' = None
  /\ UNCHANGED <<status, broken>>

\* stack_dec: the count of r goes down; at 0 the region is freed if nothing
\* owns it, or the parent is decremented.
StackDec(r) ==
  /\ stack_rc' = [stack_rc EXCEPT ![r] = @ - 1]
  /\ status' = IF stack_rc[r] = 1 /\ ~HasOwner(r)
               THEN [status EXCEPT ![r] = "queued"] ELSE status
  /\ carryDec' = IF stack_rc[r] = 1 /\ HasParent(r) THEN owner[r] ELSE None
  /\ carryInc' = None
  /\ broken' = (broken \/ stack_rc[r] < 1)

\* set_parent: the new parent counts r as one more active child.
SetParent(r, p) ==
  /\ owner' = [owner EXCEPT ![r] = p]
  /\ carryInc' = IF stack_rc[r] > 0 THEN p ELSE None
  /\ carryDec' = None
  /\ broken' = (broken \/ HasOwner(r))
  /\ UNCHANGED <<status, stack_rc>>

\* clear_parent: the old parent loses an active child, or an inactive child is
\* freed on the spot.
ClearParent(r) ==
  /\ owner' = [owner EXCEPT ![r] = NoOwner]
  /\ carryDec' = IF stack_rc[r] > 0 THEN owner[r] ELSE None
  /\ carryInc' = None
  /\ status' = IF stack_rc[r] > 0 THEN status
               ELSE [status EXCEPT ![r] = "queued"]
  /\ broken' = (broken \/ ~HasParent(r))
  /\ UNCHANGED stack_rc

SetCownOwner(r) ==
  /\ owner' = [owner EXCEPT ![r] = CownOwner]
  /\ broken' = (broken \/ HasOwner(r))
  /\ UNCHANGED <<status, stack_rc>>

ClearCownOwner(r) ==
  /\ owner' = [owner EXCEPT ![r] = NoOwner]
  /\ status' = IF stack_rc[r] = 0 THEN [status EXCEPT ![r] = "queued"]
               ELSE status
  /\ broken' = (broken \/ owner[r] # CownOwner)
  /\ UNCHANGED stack_rc

-------------------------------------------------------------------------------
(* Operations of the interpreter *)

\* Region::create, then the first object allocated in it: the register that
\* receives the object is the region's first stack reference.
CreateRegion(r) ==
  /\ Idle
  /\ status[r] = "unborn"
  /\ MaxHeld > 0
  /\ status' = [status EXCEPT ![r] = "live"]
  /\ stack_rc' = [stack_rc EXCEPT ![r] = 1]
  /\ held' = [held EXCEPT ![r] = 1]
  /\ UNCHANGED <<owner, broken>>
  /\ NoCarry /\ ThenNothing

\* A register or a frame-local field takes a reference into r (reg_inc).
RegInc(r) ==
  /\ Idle
  /\ status[r] = "live" /\ Reachable(r) /\ held[r] < MaxHeld
  /\ held' = [held EXCEPT ![r] = @ + 1]
  /\ StackInc(r)
  /\ UNCHANGED owner /\ ThenNothing

\* A register or a frame-local field gives up its reference into r (reg_dec).
RegDec(r) ==
  /\ Idle
  /\ held[r] > 0
  /\ held' = [held EXCEPT ![r] = @ - 1]
  /\ StackDec(r)
  /\ UNCHANGED owner /\ ThenNothing

\* The write barrier stores a reference into r in an object of p: refused if r
\* has an owner or is an ancestor of p; p becomes the parent, and only then a
\* moved register's count is given up.
StoreRegion(r, p, is_move) ==
  /\ Idle
  /\ held[r] > 0 /\ held[p] > 0 /\ r # p
  /\ ~HasOwner(r)
  /\ ~IsAncestorOf(r, p)
  /\ SetParent(r, p)
  /\ held' = IF is_move THEN [held EXCEPT ![r] = @ - 1] ELSE held
  /\ IF is_move THEN Then("stack_dec", r) ELSE ThenNothing

\* The write barrier's outgoing half: the reference to r leaves the field of
\* its parent for a register, and r is unparented after it is counted there.
TakeRegion(r) ==
  /\ Idle
  /\ HasParent(r) /\ held[owner[r]] > 0 /\ held[r] < MaxHeld
  /\ held' = [held EXCEPT ![r] = @ + 1]
  /\ StackInc(r)
  /\ UNCHANGED owner
  /\ Then("clear_parent", r)

\* Cown::add_reference: refused if r has an owner.
CownStore(r, is_move) ==
  /\ Idle
  /\ held[r] > 0
  /\ ~HasOwner(r)
  /\ SetCownOwner(r)
  /\ held' = IF is_move THEN [held EXCEPT ![r] = @ - 1] ELSE held
  /\ IF is_move THEN Then("stack_dec", r) ELSE ThenNothing
  /\ NoCarry

\* Cown::exchange: the outgoing region is counted for the register that gets
\* it, then released.  If the incoming value is refused the code gives the
\* region back to the cown.
CownTake(r, refused) ==
  /\ Idle
  /\ owner[r] = CownOwner /\ held[r] < MaxHeld
  /\ held' = [held EXCEPT ![r] = @ + 1]
  /\ stack_rc' = [stack_rc EXCEPT ![r] = @ + 1]
  /\ owner' = [owner EXCEPT ![r] = NoOwner]
  /\ IF refused THEN Then("restore_cown_owner", r) ELSE ThenNothing
  /\ UNCHANGED <<status, broken>> /\ NoCarry

\* ~Cown: guarded by a stack reference, ownership is released and then the
\* guard, which frees the region unless a register still refers to it.
CownDestroy(r) ==
  /\ Idle
  /\ owner[r] = CownOwner /\ held[r] < MaxHeld
  /\ held' = [held EXCEPT ![r] = @ + 1]
  /\ StackInc(r)
  /\ UNCHANGED owner
  /\ Then("clear_cown_owner", r)

-------------------------------------------------------------------------------
(* The rest of an operation: its recursion, its collection, its last call *)

CascadeInc ==
  /\ carryInc # None
  /\ StackInc(carryInc)
  /\ UNCHANGED <<owner, held, todo, todoRegion>>

CascadeDec ==
  /\ carryDec # None
  /\ StackDec(carryDec)
  /\ UNCHANGED <<owner, held, todo, todoRegion>>

\* finalize_contents of a queued region: dropping its fields unparents every
\* child region, and each of them is freed in turn.
FinalizeRegion(r) ==
  /\ status[r] = "queued"
  /\ LET children == {c \in Region : owner[c] = r} IN
       /\ owner' = [c \in Region |-> IF c \in children THEN NoOwner
                                      ELSE owner[c]]
       /\ status' = [c \in Region |-> IF c = r THEN "finalized"
                                       ELSE IF c \in children THEN "queued"
                                       ELSE status[c]]
       /\ broken' = (broken \/ \E c \in children : stack_rc[c] > 0)
  /\ UNCHANGED <<stack_rc, held, carryInc, carryDec, todo, todoRegion>>

\* Phase two of the collector: once nothing is left to finalize, delete.
DeleteFinalized ==
  /\ \E r \in Region : status[r] = "finalized"
  /\ \A r \in Region : status[r] # "queued"
  /\ status' = [r \in Region |-> IF status[r] = "finalized" THEN "deleted"
                                  ELSE status[r]]
  /\ UNCHANGED <<owner, stack_rc, held, carryInc, carryDec, todo, todoRegion,
                 broken>>

Returned == carryInc = None /\ carryDec = None /\ Drained

LastStackDec ==
  /\ Returned /\ todo = "stack_dec"
  /\ StackDec(todoRegion)
  /\ UNCHANGED <<owner, held>> /\ ThenNothing

LastClearParent ==
  /\ Returned /\ todo = "clear_parent"
  /\ ClearParent(todoRegion)
  /\ UNCHANGED held /\ ThenNothing

\* ~Cown releases its ownership; the guard it still holds goes next.
LastClearCownOwner ==
  /\ Returned /\ todo = "clear_cown_owner"
  /\ ClearCownOwner(todoRegion)
  /\ held' = [held EXCEPT ![todoRegion] = @ - 1]
  /\ Then("stack_dec", todoRegion) /\ NoCarry

\* The refused cown exchange gives the region back; its guard goes next.
LastRestoreCownOwner ==
  /\ Returned /\ todo = "restore_cown_owner"
  /\ SetCownOwner(todoRegion)
  /\ held' = [held EXCEPT ![todoRegion] = @ - 1]
  /\ Then("stack_dec", todoRegion) /\ NoCarry

Continue ==
  \/ CascadeInc
  \/ CascadeDec
  \/ \E r \in Region : FinalizeRegion(r)
  \/ DeleteFinalized
  \/ LastStackDec
  \/ LastClearParent
  \/ LastClearCownOwner
  \/ LastRestoreCownOwner

Operate ==
  \E r \in Region :
    \/ CreateRegion(r)
    \/ RegInc(r)
    \/ RegDec(r)
    \/ \E p \in Region, is_move \in BOOLEAN : StoreRegion(r, p, is_move)
    \/ TakeRegion(r)
    \/ \E is_move \in BOOLEAN : CownStore(r, is_move)
    \/ \E refused \in BOOLEAN : CownTake(r, refused)
    \/ CownDestroy(r)

Next == Operate \/ Continue

Spec == Init /\ [][Next]_vars

\* An operation that has begun runs to its end: it is a synchronous C++ call.
FairSpec == Spec /\ WF_vars(Continue)

-------------------------------------------------------------------------------
(* Properties *)

ActiveChildren(r) == {c \in Region : owner[c] = r /\ stack_rc[c] > 0}

\* What the calls still to be made will do to the count of r.
Pending(r) ==
    (IF carryInc = r THEN 1 ELSE 0)
  + (IF carryDec = r THEN -1 ELSE 0)
  + (IF todo = "stack_dec" /\ todoRegion = r THEN -1 ELSE 0)

\* stack_rc is exact, also in the middle of a cascade: each region counts the
\* references held into it and each of its child regions that has a count
\* (stack_inc, stack_dec, set_parent, clear_parent).
StackRcExact ==
  \A r \in Region :
    stack_rc[r] + Pending(r) = held[r] + Cardinality(ActiveChildren(r))

\* A region nobody refers to is never left behind, and no region is freed that
\* is owned, referred to or still has a count (free_region and its callers).
FreedExactly ==
  \A r \in Region :
    /\ status[r] = "live" => HasOwner(r) \/ stack_rc[r] > 0
    /\ status[r] # "live" => ~HasOwner(r) /\ stack_rc[r] = 0 /\ held[r] = 0

\* Owners exist: a parent is live, or is being finalized and about to let go.
ParentsExist ==
  \A r \in Region : HasParent(r) => status[owner[r]] \in {"live", "queued"}

\* Parent pointers form a forest: is_ancestor_of always ends, and so does every
\* cascade.
ParentForest == Forest(owner)

\* None of the asserts of region.h fails.
AssertsHold == ~broken

\* Between operations the count of a region says exactly whether a reference is
\* held anywhere in the tree below it: the count of a parent stands for all of
\* its descendants.
CountCoversTree ==
  Idle => \A r \in Region :
    stack_rc[r] > 0 <=> \E x \in Region :
                          AncestorOrSelf(owner, r, x) /\ held[x] > 0

\* Every operation returns: its recursion and the collection it starts end.
OperationsReturn == []<>Idle

\* A region is reclaimed once neither a cown nor a held reference can reach any
\* region of its tree.
UnreachableReclaimed ==
  \A r \in Region :
    (/\ status[r] = "live"
     /\ \A a \in Region : AncestorOrSelf(owner, a, r) =>
          /\ owner[a] # CownOwner
          /\ \A x \in Region : AncestorOrSelf(owner, a, x) => held[x] = 0)
      ~> status[r] = "deleted"

\* A region exists until its contents are finalized.
Alive == {r \in Region : status[r] \in {"live", "queued"}}

\* The abstract specification.
Ownership == INSTANCE RegionOwnership WITH alive <- Alive

\* The counts, cascades and worklist keep the promise of RegionOwnership.
ImplementsOwnership == Ownership!Spec
===============================================================================
