-------------------------------- MODULE HeapOps --------------------------------
(***************************************************************************)
(* What the calls of the region heap do, object by object: the counts, the *)
(* collector, dragging frame-local objects into another region, the write  *)
(* barrier and the cown exchange.  A call is a function of the heap h, a   *)
(* record:                                                                 *)
(*   loc       where each object lives: a heap region, a frame depth (the  *)
(*             frame-local region of that frame), Unborn or Gone           *)
(*   fld       the object each field refers to; Nil stands for any value   *)
(*             without a location (a primitive)                            *)
(*   rc        Header::rc of each object                                   *)
(*   stack_rc  Region::stack_rc, owner the parent region, CownOwner or     *)
(*             NoOwner                                                     *)
(*   dying     the regions whose finalization has begun                    *)
(*   broken    an assert has failed, or freed memory has been used         *)
(* and, empty between calls, the collector's worklist queue, the items it  *)
(* has finalized, the objects it took out of their region (unlisted) and   *)
(* its flag in_collection.                                                 *)
(***************************************************************************)
EXTENDS Integers, Sequences, FiniteSets, FiniteSetsExt, OwnershipForest

CONSTANTS
  Obj,         \* objects; an object is not used again once it is Gone
  Slots,       \* number of fields of an object
  MaxDepth,    \* bound: frames on the stack
  Nil, Unborn, Gone, NoOwner, CownOwner, None

ASSUME HeapAssumption ==
  /\ IsFiniteSet(Obj) /\ IsFiniteSet(Region)
  /\ Slots \in Nat \ {0} /\ MaxDepth \in Nat \ {0}

IsLocal(l) == l \in 1..MaxDepth     \* is_frame_local
IsHeap(l)  == l \in Region
LocOf(h, v) == IF v = Nil THEN None ELSE h.loc[v]
Broken(h) == [h EXCEPT !.broken = TRUE]

\* A reference that may be followed.
Exists(h, v) == h.loc[v] \notin {Unborn, Gone}

HasOwner(h, r)  == IsHeap(r) /\ h.owner[r] # NoOwner
HasParent(h, r) == IsHeap(r) /\ h.owner[r] \in Region

IsFinalizing(h, l) == l \in h.dying

\* The objects in the region's headers set.
Members(h, l) == {o \in Obj \ h.unlisted : h.loc[o] = l}

-------------------------------------------------------------------------------
(* Plausible bugs in the calls below.  Nothing uses them: each stands in for    *)
(* the definition it distorts, to see that a property notices.                  *)

\* set_parent forgets that the new parent gains an active child.
SetParentUncounted(h, r, p) ==
  IF HasOwner(h, r) THEN Broken(h) ELSE [h EXCEPT !.owner[r] = p]

\* The collector leaves in_collection set.
DeleteKeepsFlag(h) ==
  LET gone == {o \in Obj : o \in h.finalized \/ h.loc[o] \in h.finalized}
  IN  [h EXCEPT !.loc = [o \in Obj |-> IF o \in gone THEN Gone ELSE @[o]],
                !.dying = @ \ (1..MaxDepth), !.finalized = {}, !.unlisted = {}]

\* The write barrier does not ask whether the incoming region has an owner, or
\* does not drag between frames, or does not parent.
InRefusedIgnoresOwner(h, s, in, out) ==
  IsHeap(in) /\ IsHeap(s) /\ s # in /\ IsAncestor(h.owner, in, s)
InDragsToHeapOnly(s, in) == IsLocal(in) /\ ~IsLocal(s)
InParentsNever(h, s, in) == FALSE

\* The drag does not ask about owners, or about a second entry; it takes a copied
\* root for a moved one.
DragRefusesIgnoresOwner(w, at, dest) ==
  IsAncestor(w.h.owner, at, dest) \/ at \in w.subs
DragRefusesNoSecondEntry(w, at, dest) ==
  HasOwner(w.h, at) \/ IsAncestor(w.h.owner, at, dest)

\* A closure is sendable whenever nothing owns its region.
SendableIgnoresCount(h, r) == ~HasOwner(h, r)

-------------------------------------------------------------------------------
(* Counts and the collector call each other. *)

RECURSIVE StackInc(_, _, _), StackDec(_, _, _), Collect(_, _), Drain(_),
          Drop(_, _, _)

\* More plausible bugs, used by nothing: clear_parent does not free an inactive
\* child, a dropped edge between regions leaves the child parented, a register's
\* reference is not counted on the object.
ClearParentKeepsInactive(h, r) ==
  IF ~HasParent(h, r) THEN Broken(h)
  ELSE LET c == [h EXCEPT !.owner[r] = NoOwner]
       IN  IF h.stack_rc[r] > 0 THEN StackDec(c, h.owner[r], 1) ELSE c
RegIncUncounted(h, v) == IF v = Nil THEN h ELSE StackInc(h, h.loc[v], 1)
DropKeepsParent(h, s, v) ==
  IF v = Nil THEN h
  ELSE IF IsHeap(h.loc[v]) /\ IsLocal(s) THEN StackDec(h, h.loc[v], 1)
  ELSE IF IsLocal(h.loc[v]) \/ s = h.loc[v]
  THEN IF h.loc[v] \in h.dying THEN h ELSE [h EXCEPT !.rc[v] = @ - 1]
  ELSE h

\* Region::stack_inc; frame-local regions are not counted.
StackInc(h, r, n) ==
  IF ~IsHeap(r) THEN h
  ELSE LET up == IF h.stack_rc[r] = 0 /\ HasParent(h, r)
                 THEN StackInc(h, h.owner[r], 1) ELSE h
       IN  [up EXCEPT !.stack_rc[r] = @ + n]

FreeRegion(h, r) ==
  IF HasOwner(h, r) \/ h.stack_rc[r] # 0 THEN Broken(h) ELSE Collect(h, r)

\* Region::stack_dec: at 0 the region is freed, or its parent decremented.
StackDec(h, r, n) ==
  IF ~IsHeap(r) THEN h
  ELSE IF h.stack_rc[r] < n THEN Broken(h)
  ELSE LET d == [h EXCEPT !.stack_rc[r] = @ - n] IN
       CASE d.stack_rc[r] > 0 -> d
         [] d.stack_rc[r] = 0 /\ ~HasOwner(h, r) -> FreeRegion(d, r)
         [] d.stack_rc[r] = 0 /\ HasParent(h, r) -> StackDec(d, h.owner[r], 1)
         [] OTHER -> d

\* A net change of the count.
Adjust(h, r, n) ==
  CASE n > 0 -> StackInc(h, r, n)
    [] n < 0 -> StackDec(h, r, -n)
    [] OTHER -> h

SetParent(h, r, p) ==
  IF HasOwner(h, r) THEN Broken(h)
  ELSE LET s == [h EXCEPT !.owner[r] = p]
       IN  IF h.stack_rc[r] > 0 THEN StackInc(s, p, 1) ELSE s

\* Region::clear_parent asserts that there is a parent.
ClearParent(h, r) ==
  IF ~HasParent(h, r) THEN Broken(h)
  ELSE LET c == [h EXCEPT !.owner[r] = NoOwner]
       IN  IF h.stack_rc[r] > 0 THEN StackDec(c, h.owner[r], 1)
           ELSE FreeRegion(c, r)

SetCownOwner(h, r) ==
  IF HasOwner(h, r) THEN Broken(h) ELSE [h EXCEPT !.owner[r] = CownOwner]

ClearCownOwner(h, r) ==
  IF h.owner[r] # CownOwner THEN Broken(h)
  ELSE LET c == [h EXCEPT !.owner[r] = NoOwner]
       IN  IF h.stack_rc[r] = 0 THEN FreeRegion(c, r) ELSE c

\* Header::field_inc and field_dec: the object's own count.
FieldInc(h, v) ==
  IF v = Nil \/ IsFinalizing(h, LocOf(h, v)) THEN h ELSE [h EXCEPT !.rc[v] = @ + 1]

FieldDec(h, v) ==
  IF v = Nil THEN h
  ELSE IF ~Exists(h, v) THEN Broken(h)
  ELSE IF IsFinalizing(h, h.loc[v]) THEN h
  ELSE LET d == [h EXCEPT !.rc[v] = @ - 1]
       IN  IF d.rc[v] = 0 THEN Collect(d, v) ELSE d

\* A reference that is stored takes over the register's count, or adds one.
FieldTake(h, v, is_move) == IF is_move THEN h ELSE FieldInc(h, v)

\* collect: an object leaves its region at once, a region begins finalizing.
Collect(h, x) ==
  LET known == IF x \in Obj THEN IsFinalizing(h, h.loc[x]) \/ x \in h.unlisted
               ELSE x \in h.dying
      noted == IF x \in Obj THEN [h EXCEPT !.unlisted = @ \cup {x}]
               ELSE [h EXCEPT !.dying = @ \cup {x}]
      queued == [noted EXCEPT !.queue = Append(@, x)]
  IN  IF known THEN h
      ELSE IF h.in_collection THEN queued
      ELSE Drain([queued EXCEPT !.in_collection = TRUE])

\* Object::finalize: drop every field.
DropFields(h, o) ==
  FoldSet(LAMBDA i, acc : Drop(acc, h.loc[o], h.fld[o][i]), h, 1..Slots)

\* Phase two: everything finalized is deleted.
DeleteFinalized(h) ==
  LET gone == {o \in Obj : \/ o \in h.finalized
                           \/ o \notin h.unlisted /\ h.loc[o] \in h.finalized}
  IN  [h EXCEPT !.loc = [o \in Obj |-> IF o \in gone THEN Gone ELSE @[o]],
                !.fld = [o \in Obj |-> IF o \in gone THEN [i \in 1..Slots |-> Nil]
                                       ELSE @[o]],
                !.rc = [o \in Obj |-> IF o \in gone THEN 0 ELSE @[o]],
                !.dying = @ \ (1..MaxDepth),
                !.finalized = {}, !.unlisted = {}, !.in_collection = FALSE]

Drain(h) ==
  IF h.queue = <<>> THEN DeleteFinalized(h)
  ELSE LET x == Head(h.queue)
           todo == [h EXCEPT !.queue = Tail(@), !.finalized = @ \cup {x}]
           objs == IF x \in Obj THEN {x} ELSE Members(h, x)
       IN  Drain(FoldSet(LAMBDA o, acc : DropFields(acc, o), todo, objs))

\* writebarrier::drop: a field of an object at s lets go of v.
Drop(h, s, v) ==
  LET l == LocOf(h, v) IN
  CASE v = Nil -> h
    [] v # Nil /\ l \in {Unborn, Gone} -> Broken(h)
    [] IsLocal(l) -> FieldDec(h, v)
    [] IsHeap(l) /\ IsLocal(s) -> StackDec(h, l, 1)
    [] IsHeap(l) /\ s = l -> FieldDec(h, v)
    [] IsHeap(l) /\ ~IsLocal(s) /\ s # l /\ HasParent(h, l) -> ClearParent(h, l)
    [] OTHER -> FieldDec(h, v)

\* A register takes, gives up a reference (reg_inc, reg_dec); if that frees the
\* region there is no object left to count.
RegInc(h, v) == IF v = Nil THEN h ELSE StackInc(FieldInc(h, v), h.loc[v], 1)

RegDec(h, v) ==
  IF v = Nil THEN h
  ELSE IF ~Exists(h, v) THEN Broken(h)
  ELSE LET object(d) ==
             IF IsHeap(h.loc[v]) /\ h.loc[v] \in d.dying THEN d ELSE FieldDec(d, v)
       IN  object(StackDec(h, h.loc[v], 1))

-------------------------------------------------------------------------------
(* drag_allocation *)

\* What is noted about a call for the sake of the cases explored (Cases).
Tag(w, t) == [w EXCEPT !.tags = @ \cup {t}]

\* A heap region met by the drag cannot be parented to dest: it has an owner, it
\* is above dest, or another reference into it was met before.
DragRefuses(w, at, dest) ==
  HasOwner(w.h, at) \/ IsAncestor(w.h.owner, at, dest) \/ at \in w.subs

\* The references to o that the drag met; a copied root keeps the register's.
Inside(w, o, v, is_move) == w.n[o] - (IF o = v /\ ~is_move THEN 1 ELSE 0)

\* One object taken from the drag's worklist.  n counts how often each dragged
\* object was met, subs the heap regions to parent to dest, decs the references
\* found back into dest.
DragVisit(w, dest, o) ==
  LET h  == w.h
      at == h.loc[o]
      refuse == [w EXCEPT !.ok = FALSE]
  IN
  CASE w.n[o] > 0 -> [w EXCEPT !.n[o] = @ + 1]
    [] w.n[o] = 0 /\ at = dest ->
         IF IsLocal(dest) THEN w ELSE [w EXCEPT !.decs = @ + 1]
    [] w.n[o] = 0 /\ IsLocal(at) /\ at # dest ->
         IF IsLocal(dest) /\ dest >= at THEN w    \* an older frame outlives dest
         ELSE [w EXCEPT !.n[o] = 1,
                        !.wl = [i \in 1..Slots |-> h.fld[o][Slots + 1 - i]] \o @]
    [] w.n[o] = 0 /\ IsHeap(at) /\ at # dest ->
         IF w.pr = at THEN [w EXCEPT !.pr = None, !.h = StackDec(@, at, 1)]
         ELSE IF IsLocal(dest) THEN w
         ELSE IF h.owner[at] = dest THEN Tag(w, "drag_to_child")
         ELSE IF DragRefuses(w, at, dest) THEN refuse
         ELSE [w EXCEPT !.subs = @ \cup {at}]
    [] OTHER -> [w EXCEPT !.h = Broken(@), !.ok = FALSE]

RECURSIVE DragWalk(_, _)
DragWalk(w, dest) ==
  IF w.wl = <<>> \/ ~w.ok THEN w
  ELSE LET o == Head(w.wl)
           rest == [w EXCEPT !.wl = Tail(@)]
       IN  DragWalk(IF o = Nil THEN rest ELSE DragVisit(rest, dest, o), dest)

\* What the walk w found moves to dest, and the heap regions met are parented to it.
DragMove(w, dest, v, pr, is_move) ==
  LET moved == {o \in Obj : w.n[o] > 0}
      guarded == StackInc(w.h, dest, 1)
      linked == FoldSet(LAMBDA r, acc : StackDec(SetParent(acc, r, dest), r, 1),
                        guarded, w.subs)
      arrived == FoldSet(LAMBDA o, acc :
                   [StackInc(acc, dest, acc.rc[o] - Inside(w, o, v, is_move))
                      EXCEPT !.loc[o] = dest,
                             !.broken = @ \/ acc.rc[o] < Inside(w, o, v, is_move)],
                   linked, moved)
  IN  IF ~w.ok
      THEN [h |-> w.h, ok |-> FALSE, pr |-> w.pr,
            tags |-> w.tags \cup (IF w.pr # pr THEN {"drag_fails_late"} ELSE {})]
      ELSE [h |-> StackDec(StackDec(arrived, dest, w.decs), dest, 1), ok |-> TRUE,
            pr |-> w.pr, tags |-> w.tags]

\* Everything v reaches in younger frames goes to dest.  pr is the region the
\* write barrier is about to unparent: meeting it keeps it parented.
Drag(h, dest, v, pr, is_move) ==
  DragMove(DragWalk([h |-> h, wl |-> <<v>>, n |-> [o \in Obj |-> 0], subs |-> {},
                     decs |-> 0, pr |-> pr, ok |-> TRUE, tags |-> {}], dest),
           dest, v, pr, is_move)

-------------------------------------------------------------------------------
(* The write barrier: field i of o gets v, the caller gets the old value *)

\* The incoming half is refused: it would give a region a second owner, or
\* close a cycle of parents.
InRefused(h, s, in, out) ==
  /\ IsHeap(in) /\ IsHeap(s) /\ s # in
  /\ IF HasOwner(h, in) THEN out # in ELSE IsAncestor(h.owner, in, s)

InDrags(s, in) == IsLocal(in) /\ (IsLocal(s) => s < in)

InParents(h, s, in) == IsHeap(in) /\ IsHeap(s) /\ s # in /\ ~HasOwner(h, in)

\* apply_in and apply_out, with what prepare_in dragged, if anything.
ExchangeApply(h, drag, o, i, v, is_move) ==
  LET s    == h.loc[o]
      prev == h.fld[o][i]
      in   == LocOf(h, v)
      out  == LocOf(h, prev)
      inCount == (IF IsHeap(in) /\ is_move THEN -1 ELSE 0)
                 + (IF IsHeap(in) /\ IsLocal(s) THEN 1 ELSE 0)
      outCount == IF IsHeap(out) /\ ~IsLocal(s) THEN 1 ELSE 0
      parented(g) == IF InParents(h, s, in) THEN SetParent(g, in, s) ELSE g
      unparented(g) == IF drag.pr = None THEN g ELSE ClearParent(g, LocOf(g, prev))
      written == FieldTake([drag.h EXCEPT !.fld[o][i] = v], v, is_move)
      applied == Adjust(parented(written), in,
                        inCount + (IF out = in THEN outCount ELSE 0))
      taken == Adjust(applied, out, IF out # in THEN outCount ELSE 0)
      unparents == out # None /\ out # s
  IN  [h |-> unparented(taken), ok |-> TRUE, out |-> prev,
       tags |-> drag.tags
                \cup (IF IsLocal(s) /\ unparents THEN {"local_out"} ELSE {})
                \cup (IF IsHeap(s) /\ unparents /\ out = in THEN {"alias"} ELSE {})]

Exchange(h, o, i, v, is_move) ==
  LET s   == h.loc[o]
      in  == LocOf(h, v)
      out == LocOf(h, h.fld[o][i])
      pr  == IF out # s THEN out ELSE None
      apply(drag) ==
        IF drag.ok THEN ExchangeApply(h, drag, o, i, v, is_move)
        ELSE [h |-> drag.h, ok |-> FALSE, out |-> Nil, tags |-> drag.tags]
  IN  IF InRefused(h, s, in, out) THEN [h |-> h, ok |-> FALSE, out |-> Nil, tags |-> {}]
      ELSE apply(IF InDrags(s, in) THEN Drag(h, s, v, pr, is_move)
                 ELSE [h |-> h, ok |-> TRUE, pr |-> pr, tags |-> {}])

-------------------------------------------------------------------------------
(* Cowns *)

\* Cown::add_reference: the region that v is in, or is dragged to (fresh), comes
\* to be owned by the cown.
AddReference(h, v, fresh, is_move) ==
  LET in == LocOf(h, v)
      owned(g, r) == IF r \in g.dying THEN Broken(g) ELSE SetCownOwner(g, r)
      stored(g, r) == owned(FieldTake(g, v, is_move), r)
      arrived(drag) ==
        IF drag.ok
        THEN [h |-> stored(drag.h, fresh), ok |-> TRUE,
              tags |-> drag.tags \cup (IF fresh \in drag.h.dying
                                       THEN {"fresh_freed"} ELSE {})]
        ELSE [h |-> FreeRegion(drag.h, fresh), ok |-> FALSE, tags |-> drag.tags]
  IN  CASE in = None -> [h |-> h, ok |-> TRUE, tags |-> {}]
        [] IsLocal(in) -> arrived(Drag(h, fresh, v, None, is_move))
        [] IsHeap(in) /\ HasOwner(h, in) -> [h |-> h, ok |-> FALSE, tags |-> {}]
        [] OTHER -> [h |-> Adjust(stored(h, in), in, IF is_move THEN -1 ELSE 0),
                     ok |-> TRUE, tags |-> {}]

\* Cown::exchange: content is what the cown holds.
CownExchange(h, content, v, fresh, is_move) ==
  LET in  == LocOf(h, v)
      out == LocOf(h, content)
      swapped == IF is_move THEN h ELSE StackInc(FieldInc(h, v), out, 1)
      released == IF IsHeap(out) THEN ClearCownOwner(StackInc(h, out, 1), out) ELSE h
      restored(g) == IF IsHeap(out) THEN StackDec(SetCownOwner(g, out), out, 1) ELSE g
      settled(added) == IF added.ok THEN added
                        ELSE [added EXCEPT !.h = restored(added.h)]
  IN  IF in = out THEN [h |-> swapped, ok |-> TRUE, tags |-> {}]
      ELSE settled(AddReference(released, v, fresh, is_move))

\* Region::sendable: nothing owns r, and one reference leads into its tree.
Sendable(h, r) == ~HasOwner(h, r) /\ h.stack_rc[r] = 1

\* ~Cown.
CownDestroyed(h, content) ==
  IF content = Nil THEN h
  ELSE LET r == h.loc[content]
       IN  StackDec(ClearCownOwner(FieldDec(StackInc(h, r, 1), content), r), r, 1)
===============================================================================
