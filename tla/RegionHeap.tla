------------------------------ MODULE RegionHeap ------------------------------
(***************************************************************************)
(* A thread's view of the heap: the registers of its frames, the objects   *)
(* they refer to, the cowns it may use and one queued closure, under the   *)
(* instructions that allocate, copy, load, store, call, return, exchange a *)
(* cown's content and start a behaviour.  What an instruction does to the  *)
(* heap is computed by HeapOps; here is who asks for what, and what has to *)
(* stay true.  A runtime error is fatal to the behaviour: every frame is   *)
(* torn down, and the thread goes on with the next behaviour.              *)
(*                                                                         *)
(* Left out: objects on the stack, frozen and merged objects, arrays (an   *)
(* array is an object with more fields), arena regions, finalizers.        *)
(***************************************************************************)
EXTENDS HeapOps

CONSTANTS
  Reg,    \* registers of a frame
  Cown,   \* cowns
  Cases   \* the unusual paths of HeapOps that are explored (see Tag)

VARIABLES
  heap,   \* the record HeapOps works on
  regs,   \* the object each register of each frame refers to, or Nil
  depth,  \* number of frames
  cown,   \* the object each cown holds, or Nil
  sent    \* the closure a queued behaviour holds, or Nil

vars == <<heap, regs, depth, cown, sent>>

Frame == 1..MaxDepth
Ref == Obj \cup {Nil}

TypeOK ==
  /\ heap.loc \in [Obj -> Region \cup Frame \cup {Unborn, Gone}]
  /\ heap.fld \in [Obj -> [1..Slots -> Ref]]
  /\ heap.rc \in [Obj -> Nat]
  /\ heap.stack_rc \in [Region -> Nat]
  /\ heap.owner \in [Region -> Region \cup {NoOwner, CownOwner}]
  /\ heap.dying \subseteq Region
  /\ heap.queue = <<>> /\ heap.finalized = {} /\ heap.unlisted = {}
  /\ heap.in_collection = FALSE
  /\ regs \in [Frame -> [Reg -> Ref]]
  /\ depth \in Frame
  /\ cown \in [Cown -> Ref]
  /\ sent \in Ref

Init ==
  /\ heap = [loc |-> [o \in Obj |-> Unborn],
             fld |-> [o \in Obj |-> [i \in 1..Slots |-> Nil]],
             rc |-> [o \in Obj |-> 0],
             stack_rc |-> [r \in Region |-> 0],
             owner |-> [r \in Region |-> NoOwner],
             dying |-> {}, queue |-> <<>>, finalized |-> {}, unlisted |-> {},
             in_collection |-> FALSE, broken |-> FALSE]
  /\ regs = [d \in Frame |-> [x \in Reg |-> Nil]]
  /\ depth = 1
  /\ cown = [c \in Cown |-> Nil]
  /\ sent = Nil

\* A region that has not been created yet.
IsFresh(r) ==
  /\ r \notin heap.dying
  /\ heap.owner[r] = NoOwner /\ heap.stack_rc[r] = 0
  /\ \A o \in Obj : heap.loc[o] # r

\* The region a call may have to create.
Fresh(needed) == IF needed THEN {r \in Region : IsFresh(r)} ELSE {None}

Here(x) == regs[depth][x]
Live == {o \in Obj : heap.loc[o] \notin {Unborn, Gone}}
\* The program goes on: no assert has failed.
Running == ~heap.broken
IsLocalRef(v) == v # Nil /\ IsLocal(heap.loc[v])

-------------------------------------------------------------------------------
(* Registers *)

\* Register assignment: x gets v, whose count it takes over, then the old value
\* is given up.
Assign(h, x, v) ==
  /\ regs' = [regs EXCEPT ![depth][x] = v]
  /\ heap' = RegDec(h, Here(x))

DropRegs(h, d) == FoldSet(LAMBDA x, acc : RegDec(acc, regs[d][x]), h, Reg)

\* teardown: drop the registers of frame d, then collect its region.
Teardown(h, d) == Collect(DropRegs(h, d), d)

\* Value::error reaches thread_run_behavior: every frame is torn down and the
\* behaviour is over.
RECURSIVE TeardownFrom(_, _)
TeardownFrom(h, d) == IF d = 0 THEN h ELSE TeardownFrom(Teardown(h, d), d - 1)

Fail(h) ==
  /\ heap' = TeardownFrom(h, depth)
  /\ regs' = [d \in Frame |-> [x \in Reg |-> Nil]]
  /\ depth' = 1
  /\ UNCHANGED <<cown, sent>>

\* Object of class cls: its header starts with one reference, and the region
\* counts it.
Allocated(o, l) ==
  StackInc([heap EXCEPT !.loc[o] = l, !.rc[o] = 1], l, 1)

-------------------------------------------------------------------------------
(* Instructions *)

New(x, o) ==
  /\ Running
  /\ heap.loc[o] = Unborn
  /\ Assign(Allocated(o, depth), x, o)
  /\ UNCHANGED <<depth, cown, sent>>

NewInRegion(x, o, r) ==
  /\ Running
  /\ heap.loc[o] = Unborn /\ IsFresh(r)
  /\ Assign(Allocated(o, r), x, o)
  /\ UNCHANGED <<depth, cown, sent>>

\* Op::Heap: in the region of the object that y refers to.
NewBeside(x, y, o) ==
  /\ Running
  /\ heap.loc[o] = Unborn /\ Here(y) # Nil
  /\ Assign(Allocated(o, heap.loc[Here(y)]), x, o)
  /\ UNCHANGED <<depth, cown, sent>>

Copy(x, y) ==
  /\ Running
  /\ x # y /\ Here(y) # Nil
  /\ Assign(RegInc(heap, Here(y)), x, Here(y))
  /\ UNCHANGED <<depth, cown, sent>>

DropReg(x) ==
  /\ Running
  /\ Here(x) # Nil
  /\ Assign(heap, x, Nil)
  /\ UNCHANGED <<depth, cown, sent>>

Load(x, y, i) ==
  /\ Running
  /\ Here(y) # Nil
  /\ LET v == heap.fld[Here(y)][i]
     IN  v # Nil /\ Assign(RegInc(heap, v), x, v)
  /\ UNCHANGED <<depth, cown, sent>>

\* StoreMove, StoreCopy: field i of the object in y gets the value of z; the old
\* value goes to register x, or is dropped at once (x = None).
Store(x, y, i, z, is_move) ==
  /\ Running
  /\ Here(y) # Nil /\ (is_move => y # z)
  /\ \E ex \in {Exchange(heap, Here(y), i, Here(z), is_move)} :
     LET after == IF is_move THEN [regs EXCEPT ![depth][z] = Nil] ELSE regs
     IN  /\ ex.tags \subseteq Cases
         /\ \/ /\ ~ex.ok /\ Fail(ex.h)
            \/ /\ ex.ok
               /\ IF x = None
                  THEN heap' = RegDec(ex.h, ex.out) /\ regs' = after
                  ELSE /\ heap' = RegDec(ex.h, after[depth][x])
                       /\ regs' = [after EXCEPT ![depth][x] = ex.out]
               /\ UNCHANGED <<depth, cown, sent>>

\* A call: one argument is copied or moved into the callee's register x.
Call(x, y, is_move) ==
  /\ Running
  /\ depth < MaxDepth
  /\ regs' = [regs EXCEPT ![depth + 1][x] = Here(y),
                          ![depth][y] = IF is_move THEN Nil ELSE @]
  /\ heap' = IF is_move THEN heap ELSE RegInc(heap, Here(y))
  /\ depth' = depth + 1
  /\ UNCHANGED <<cown, sent>>

\* popframe: the value of y survives the frame, dragged to the caller's region if
\* it lives in this frame's; the caller's register x receives it.  Only an object
\* on the stack could make this drag fail.
Return(x, y) ==
  /\ Running
  /\ depth > 1
  /\ LET ret == Here(y)
         drag == IF ret # Nil /\ heap.loc[ret] = depth
                 THEN Drag(heap, depth - 1, ret, None, FALSE)
                 ELSE [h |-> heap]
         dropped == FoldSet(LAMBDA r, acc : RegDec(acc, regs[depth][r]),
                            drag.h, Reg \ {y})
     IN  heap' = RegDec(Collect(dropped, depth), regs[depth - 1][x])
  /\ regs' = [regs EXCEPT ![depth] = [r \in Reg |-> Nil],
                          ![depth - 1][x] = Here(y)]
  /\ depth' = depth - 1
  /\ UNCHANGED <<cown, sent>>

-------------------------------------------------------------------------------
(* Cowns and behaviours *)

LoadCown(x, c) ==
  /\ Running
  /\ cown[c] # Nil
  /\ Assign(RegInc(heap, cown[c]), x, cown[c])
  /\ UNCHANGED <<depth, cown, sent>>

\* A store to a cown: the old content goes to the register x.
StoreCown(x, c, z, is_move) ==
  Running /\ \E fresh \in Fresh(IsLocalRef(Here(z))) :
    \E ex \in {CownExchange(heap, cown[c], Here(z), fresh, is_move)} :
    LET after == IF is_move THEN [regs EXCEPT ![depth][z] = Nil] ELSE regs
    IN  /\ ex.tags \subseteq Cases
        /\ \/ ~ex.ok /\ Fail(ex.h)
           \/ /\ ex.ok
              /\ heap' = RegDec(ex.h, after[depth][x])
              /\ regs' = [after EXCEPT ![depth][x] = cown[c]]
              /\ cown' = [cown EXCEPT ![c] = Here(z)]
              /\ UNCHANGED <<depth, sent>>

\* The last reference to the cown goes away.
DestroyCown(c) ==
  /\ Running
  /\ cown[c] # Nil
  /\ heap' = CownDestroyed(heap, cown[c])
  /\ cown' = [cown EXCEPT ![c] = Nil]
  /\ UNCHANGED <<regs, depth, sent>>

\* A frame-local value that leaves for a cown or a behaviour is dragged to the
\* fresh region first.
DragOut(fresh, v) ==
  IF IsLocalRef(v) THEN Drag(heap, fresh, v, None, FALSE)
  ELSE [h |-> heap, ok |-> TRUE, tags |-> {}]

\* queue_behavior with the closure y: it has to be sendable, alone in a region
\* that nothing owns; a frame-local closure is dragged to a new region first.
When(y) ==
  /\ Running
  /\ sent = Nil /\ Here(y) # Nil
  /\ \E fresh \in Fresh(IsLocalRef(Here(y))) :
       \E drag \in {DragOut(fresh, Here(y))} :
       LET o == Here(y)
           r == IF IsLocalRef(o) THEN fresh ELSE heap.loc[o]
           sendable == drag.ok /\ Sendable(drag.h, r)
       IN  /\ drag.tags \subseteq Cases
           /\ \/ ~sendable /\ Fail(drag.h)
              \/ /\ sendable
                 /\ heap' = StackDec(SetCownOwner(drag.h, r), r, 1)
                 /\ regs' = [regs EXCEPT ![depth][y] = Nil]
                 /\ sent' = o
                 /\ UNCHANGED <<depth, cown>>

\* thread_run_behavior starts the queued behaviour with its closure in x.
Run(x) ==
  /\ Running
  /\ sent # Nil
  /\ depth = 1 /\ \A z \in Reg : Here(z) = Nil
  /\ LET r == heap.loc[sent]
     IN  heap' = ClearCownOwner(StackInc(heap, r, 1), r)
  /\ regs' = [regs EXCEPT ![1][x] = sent]
  /\ sent' = Nil
  /\ UNCHANGED <<depth, cown>>

\* The behaviour ends with the value of y, which goes to its result cown c; a
\* frame-local value is dragged to a new region first.
Finish(y, c) ==
  /\ Running
  /\ depth = 1 /\ cown[c] = Nil /\ Here(y) # Nil
  /\ \E fresh \in Fresh(IsLocalRef(Here(y))) :
       \E drag \in {DragOut(fresh, Here(y))} :
       LET ret == Here(y)
           dropped == FoldSet(LAMBDA r, acc : RegDec(acc, regs[1][r]),
                              drag.h, Reg \ {y})
       IN  /\ drag.tags \subseteq Cases
           /\ \/ ~drag.ok /\ Fail(drag.h)
              \/ /\ drag.ok
                 /\ \E ex \in {CownExchange(Collect(dropped, 1), Nil, ret, None, TRUE)} :
                      /\ heap' = IF ex.ok THEN ex.h ELSE RegDec(ex.h, ret)
                      /\ cown' = [cown EXCEPT ![c] = IF ex.ok THEN ret ELSE Nil]
                 /\ regs' = [regs EXCEPT ![1] = [r \in Reg |-> Nil]]
                 /\ UNCHANGED <<depth, sent>>

Next ==
  \/ \E x \in Reg, o \in Obj : New(x, o)
  \/ \E x \in Reg, o \in Obj, r \in Region : NewInRegion(x, o, r)
  \/ \E x, y \in Reg, o \in Obj : NewBeside(x, y, o)
  \/ \E x, y \in Reg : Copy(x, y)
  \/ \E x \in Reg : DropReg(x)
  \/ \E x, y \in Reg, i \in 1..Slots : Load(x, y, i)
  \/ \E x \in Reg \cup {None}, y, z \in Reg, i \in 1..Slots, is_move \in BOOLEAN :
       Store(x, y, i, z, is_move)
  \/ \E x, y \in Reg, is_move \in BOOLEAN : Call(x, y, is_move)
  \/ \E x, y \in Reg : Return(x, y)
  \/ \E x \in Reg, c \in Cown : LoadCown(x, c)
  \/ \E x, z \in Reg, c \in Cown, is_move \in BOOLEAN : StoreCown(x, c, z, is_move)
  \/ \E c \in Cown : DestroyCown(c)
  \/ \E y \in Reg : When(y)
  \/ \E x \in Reg : Run(x)
  \/ \E y \in Reg, c \in Cown : Finish(y, c)


Spec == Init /\ [][Next]_vars

-------------------------------------------------------------------------------
(* Properties *)

RegRefs(S) == {p \in Frame \X Reg : regs[p[1]][p[2]] \in S}
FieldRefs(S) == {p \in Live \X (1..Slots) : heap.fld[p[1]][p[2]] \in S}
CownRefs(S) == {c \in Cown : cown[c] \in S}
SentRefs(S) == {v \in {sent} : v \in S}
ObjectsIn(r) == {o \in Live : heap.loc[o] = r}
RefsTo(o) == Cardinality(RegRefs({o})) + Cardinality(FieldRefs({o}))
             + Cardinality(CownRefs({o})) + Cardinality(SentRefs({o}))

\* No assert fails and no freed memory is used by any call.
AssertsHold == ~heap.broken

\* Every reference that a register, a field, a cown or a queued behaviour holds
\* leads to an object that has not been deleted (collect, free_region).
NoDangling ==
  LET held == Obj \ Live
  IN  /\ RegRefs(held) = {} /\ FieldRefs(held) = {}
      /\ CownRefs(held) = {} /\ SentRefs(held) = {}

\* stack_rc counts the registers and the frame-local fields that refer into the
\* region, and its active children; check_stack_rc_invariant recomputes it.
StackRcExact ==
  \A r \in Region :
    LET S == ObjectsIn(r)
        localFields == {p \in FieldRefs(S) : IsLocal(heap.loc[p[1]])}
        children == {c \in Region : heap.owner[c] = r /\ heap.stack_rc[c] > 0}
    IN  heap.stack_rc[r] = Cardinality(RegRefs(S)) + Cardinality(localFields)
                           + Cardinality(children)

\* An object has at least the count of the references to it: it is never
\* collected while one of them is left.
ObjectRcSound ==
  \A o \in Live : heap.rc[o] >= RefsTo(o)

\* A heap region is entered from outside through one field, cown or behaviour at
\* most ("Regions can only have a single entry point").
Entries(r) ==
  LET S == ObjectsIn(r)
  IN  Cardinality({p \in FieldRefs(S) : heap.loc[p[1]] \in Region \ {r}})
      + Cardinality(CownRefs(S)) + Cardinality(SentRefs(S))

SingleEntry == \A r \in Region : Entries(r) <= 1

\* The owner of a region is where its entry comes from: its parent is the region
\* of the field that refers to it, and it is cown-owned exactly when a cown or a
\* queued behaviour holds it.
OwnerMatchesEntry ==
  \A r \in Region :
    LET S == ObjectsIn(r) IN
    /\ \A p \in Region \ {r} :
         heap.owner[r] = p <=> \E q \in FieldRefs(S) : heap.loc[q[1]] = p
    /\ heap.owner[r] = CownOwner <=> CownRefs(S) \cup SentRefs(S) # {}

\* Objects of a frame die with it: only registers of that frame or of younger
\* frames, and objects of such frames, refer to them.
NoEscape ==
  \A o \in Live : IsLocal(heap.loc[o]) =>
    /\ \A p \in RegRefs({o}) : p[1] >= heap.loc[o]
    /\ \A p \in FieldRefs({o}) : heap.loc[p[1]] \in heap.loc[o]..MaxDepth
    /\ CownRefs({o}) = {} /\ SentRefs({o}) = {}

\* A closure that waits for its behaviour is out of the sender's reach: nothing
\* in the sender's frames refers into the region it was sent in or below.
SentIsIsolated ==
  sent # Nil =>
    \A r \in Region : AncestorOrSelf(heap.owner, heap.loc[sent], r) =>
      LET S == ObjectsIn(r)
      IN  RegRefs(S) = {} /\ \A p \in FieldRefs(S) : IsHeap(heap.loc[p[1]])

\* A region with objects is owned or referred to: nothing is left behind.
NothingLeaks ==
  \A r \in Region : ObjectsIn(r) # {} => heap.owner[r] # NoOwner
                                         \/ heap.stack_rc[r] > 0
===============================================================================
