------------------------------- MODULE Behaviours -------------------------------
(***************************************************************************)
(* Behaviours and cowns: what `when` schedules, which cowns a behaviour    *)
(* acquires and how, who counts a reference to a cown, what the result     *)
(* cown gets and when it can be read.                                      *)
(*                                                                         *)
(* A cown is created by `when` (or for main) and by nothing else, as the   *)
(* result of one behaviour; so a cown is named by its behaviour.  The      *)
(* registers of a behaviour are counted by the value they hold.  It gets a *)
(* reference (CownRef) to each cown it has asked for.  A queued            *)
(* behaviour's registers are what its closure has captured.                *)
(*                                                                         *)
(* The scheduler (verona-rt's BehaviourCore) is external: all requests of  *)
(* a behaviour are queued at once, and it runs when no conflicting request *)
(* that was queued earlier is left.  It keeps a count on the cowns that    *)
(* are requested to write until the behaviour has finished: the one that   *)
(* came with the request (Transferred), or one of its own for the result   *)
(* (Borrowed).  The count that came with a read request is left to the     *)
(* behaviour's register (thread.cc:478: the slot's release does not give   *)
(* it back), and the register holds a read-only CownRef, which does not    *)
(* give it back either (reg_dec): nobody does.                             *)
(* Asserts are compiled out: where the code asserts that a value is not    *)
(* read-only, the release build goes on.                                   *)
(* The same cown twice in one request, and regions, are left out (see      *)
(* RegionHeap for what a cown does to the region of its content).          *)
(***************************************************************************)
EXTENDS Integers, FiniteSets

CONSTANTS
  Behavior,     \* behaviours, and their result cowns
  Main,         \* the behaviour that runs main()
  Empty,        \* content of a cown: Value()
  Object,       \* content: an object in a region that the cown owns
  Error,        \* content: an error value
  MaxRegs,      \* bound: registers in use by all behaviours when one is added
  Cases         \* the unusual paths that are explored: "captured_ref" (Capturable)

ASSUME BehaviourAssumption ==
  /\ IsFiniteSet(Behavior)
  /\ Main \in Behavior
  /\ MaxRegs \in Nat
  /\ Cases \subseteq {"captured_ref"}
  /\ Empty # Object /\ Empty # Error /\ Object # Error

Cown == Behavior

\* A register value: a cown or a reference to its content (CownRef), each perhaps
\* read-only.  Code schedules with cowns and dereferences references: one has type
\* cown[T], the other ref[T].
Handle == [kind : {"cown", "ref"}, cown : Cown, readonly : BOOLEAN]
CownValue(c, ro) == [kind |-> "cown", cown |-> c, readonly |-> ro]
CownRef(c, ro)   == [kind |-> "ref", cown |-> c, readonly |-> ro]
CownHandles == {h \in Handle : h.kind = "cown"}

ASSUME ContentAssumption == Handle \cap {Empty, Object, Error} = {}

VARIABLES
  phase,      \* unborn, queued, running, returned or done
  access,     \* access[b][c]: how b has requested c: none, read or write
  waits,      \* the behaviours whose requests stand before those of b
  rc,         \* Cown::lifetime.references
  content,    \* Cown::content
  regs,       \* regs[b][h]: registers of b that hold h
  mutable,    \* cowns whose content b refers to by a value it may write through
  pending,    \* Cown::destroy's list on the thread that runs b
  destroyed,  \* cowns that have been deallocated
  ret         \* Program::run still refers to the result of main

vars == <<phase, access, waits, rc, content, regs, mutable, pending, destroyed,
          ret>>

TypeOK ==
  /\ phase \in [Behavior -> {"unborn", "queued", "running", "returned", "done"}]
  /\ access \in [Behavior -> [Cown -> {"none", "read", "write"}]]
  /\ waits \in [Behavior -> SUBSET Behavior]
  /\ rc \in [Cown -> Nat]
  /\ content \in [Cown -> {Empty, Object, Error} \cup CownHandles]
  /\ regs \in [Behavior -> [Handle -> Nat]]
  /\ mutable \in [Behavior -> SUBSET Cown]
  /\ pending \in [Behavior -> SUBSET Cown]
  /\ destroyed \in SUBSET Cown
  /\ ret \in BOOLEAN

-------------------------------------------------------------------------------
(* Helpers *)

NoRegs == [h \in Handle |-> 0]

\* A behaviour that has been scheduled and has not released its cowns.
Active(b) == phase[b] \in {"queued", "running", "returned"}

\* Two requests for a cown exclude each other unless both read.
Excludes(m1, m2) == "none" \notin {m1, m2} /\ "write" \in {m1, m2}

\* The behaviour's next instruction: the list of cowns to destroy is empty.
Executes(b) == phase[b] = "running" /\ pending[b] = {}

\* The cowns in the registers of b.
Held(b) == {h \in CownHandles : regs[b][h] > 0}

\* The values b holds, and its registers one by one.
Values(b) == {h \in Handle : regs[b][h] > 0}
Registers(b) == UNION {{h} \X (1..regs[b][h]) : h \in Values(b)}
InUse == Cardinality(UNION {{b} \X Registers(b) : b \in Behavior})

\* What a closure of b may capture: cowns, and with Cases references to write
\* through (a read-only value cannot be stored in the closure's fields).
Capturable(b) ==
  {h \in Values(b) : ~h.readonly /\ (h.kind = "ref" => "captured_ref" \in Cases)}

\* Registers of b that hold a count on c: all but a read-only CownRef, which
\* neither takes nor gives back one (reg_inc, reg_dec).
Counted(h) == h.kind # "ref" \/ ~h.readonly
Counts(b, c) == {r \in Registers(b) : r[1].cown = c /\ Counted(r[1])}

One(c)  == [x \in Cown |-> IF x = c THEN 1 ELSE 0]
Inc(c)  == rc' = [rc EXCEPT ![c] = @ + 1]

\* Mutant: dec looks at the count after the decrement: the last reference but one destroys.
DecLooksAfter(b, n) ==
  /\ rc' = [c \in Cown |-> rc[c] - n[c]]
  /\ pending' = [pending EXCEPT ![b] =
                   @ \cup {c \in Cown : n[c] > 0 /\ rc[c] = n[c] + 1}]

\* Cown::dec, n[c] times: the last reference puts the cown on the list of the
\* thread's destroy.
Dec(b, n) ==
  /\ rc' = [c \in Cown |-> rc[c] - n[c]]
  /\ pending' = [pending EXCEPT ![b] =
                   @ \cup {c \in Cown : n[c] > 0 /\ rc[c] = n[c]}]

-------------------------------------------------------------------------------
(* Plausible bugs in the definitions below.  Nothing uses them: each stands in    *)
(* for the one it distorts, to see that a property notices.                       *)

\* A dropped reference gives back a count whether it is read-only or not.
DropIgnoresReadonly(b, h) ==
  /\ Executes(b)
  /\ regs[b][h] > 0
  /\ regs' = [regs EXCEPT ![b][h] = @ - 1]
  /\ Dec(b, One(h.cown))
  /\ UNCHANGED <<phase, access, waits, content, mutable, destroyed, ret>>

\* The result cown is requested to read.
ResultRequestedToRead(new, args) ==
  [c \in Cown |->
     IF c = new THEN "read"
     ELSE IF CownValue(c, TRUE) \in args THEN "read"
     ELSE IF CownValue(c, FALSE) \in args THEN "write"
     ELSE "none"]

\* The arguments are made as if all were requested to write.
StartIgnoresMode(b) ==
  /\ phase[b] = "queued" /\ waits[b] = {}
  /\ LET cowns == {c \in Cown \ {b} : access[b][c] # "none"}
     IN  /\ regs' = [regs EXCEPT ![b] = [h \in Handle |->
                       regs[b][h] + (IF h \in {CownRef(c, FALSE) : c \in cowns}
                                     THEN 1 ELSE 0)]]
         /\ rc' = [c \in Cown |-> rc[c] + (IF c \in cowns THEN 1 ELSE 0)]
  /\ phase' = [phase EXCEPT ![b] = "running"]
  /\ UNCHANGED <<access, waits, content, mutable, pending, destroyed, ret>>

\* A cown to write is not counted for the register.
StartUncounted(b) ==
  /\ phase[b] = "queued" /\ waits[b] = {}
  /\ regs' = [regs EXCEPT ![b] = [h \in Handle |->
        regs[b][h] + (IF /\ h.kind = "ref" /\ h.cown # b
                         /\ access[b][h.cown] = IF h.readonly THEN "read" ELSE "write"
                      THEN 1 ELSE 0)]]
  /\ phase' = [phase EXCEPT ![b] = "running"]
  /\ UNCHANGED <<access, waits, rc, content, mutable, pending, destroyed, ret>>

\* A store does not ask whether the reference is read-only.
StoreIgnoresReadonly(b, h, v) ==
  /\ Executes(b)
  /\ h.kind = "ref" /\ regs[b][h] > 0 /\ v = Object
  /\ content' = [content EXCEPT ![h.cown] = v]
  /\ UNCHANGED <<phase, access, waits, rc, regs, mutable, pending, destroyed, ret>>

\* The list of cowns to destroy is not drained when a release fills it.
DestroyOnlyInBody(b, c) ==
  /\ phase[b] = "running" /\ c \in pending[b]
  /\ pending' = [pending EXCEPT ![b] = @ \ {c}]
  /\ content' = [content EXCEPT ![c] = Empty]
  /\ destroyed' = destroyed \cup {c}
  /\ UNCHANGED <<phase, access, waits, rc, regs, mutable, ret>>

-------------------------------------------------------------------------------
\* What the scheduler gives back for b: a count for each cown requested to write.
HeldBySlots(b) == [c \in Cown |-> IF access[b][c] = "write" THEN 1 ELSE 0]

\* run_async has scheduled main: one count for Program::run's value, one that the
\* scheduler took for the borrowed request of the result cown.
Init ==
  /\ phase = [b \in Behavior |-> IF b = Main THEN "queued" ELSE "unborn"]
  /\ access = [b \in Behavior |-> [c \in Cown |->
                 IF b = Main /\ c = Main THEN "write" ELSE "none"]]
  /\ waits = [b \in Behavior |-> {}]
  /\ rc = [c \in Cown |-> IF c = Main THEN 2 ELSE 0]
  /\ content = [c \in Cown |-> Empty]
  /\ regs = [b \in Behavior |-> NoRegs]
  /\ mutable = [b \in Behavior |-> {}]
  /\ pending = [b \in Behavior |-> {}]
  /\ destroyed = {}
  /\ ret = TRUE

\* The requests of a new behaviour: the result cown first, to write, then each
\* argument as its register says.
Requests(new, args) ==
  [c \in Cown |->
     IF c = new THEN "write"
     ELSE IF CownValue(c, TRUE) \in args THEN "read"
     ELSE IF CownValue(c, FALSE) \in args THEN "write"
     ELSE "none"]

\* The counts a new behaviour's result cown starts with: the register that gets
\* it, and the borrowed request.
ResultCounts == 2

\* queue_behavior: the arguments and their counts move from registers to requests,
\* what the closure captured moves with it, the result goes to a register.
When(b, new, args, captured) ==
  /\ Executes(b)
  /\ phase[new] = "unborn"
  /\ args \cap captured = {}
  /\ \A h, k \in args : h.cown = k.cown => h = k
  /\ phase' = [phase EXCEPT ![new] = "queued"]
  /\ access' = [access EXCEPT ![new] = Requests(new, args)]
  /\ waits' = [waits EXCEPT ![new] =
       {x \in Behavior : /\ Active(x)
                         /\ \E c \in Cown : Excludes(access[x][c],
                                                     Requests(new, args)[c])}]
  /\ rc' = [rc EXCEPT ![new] = ResultCounts]
  /\ regs' = [regs EXCEPT
       ![b] = [h \in Handle |->
                 regs[b][h] + (IF h \in args \cup captured THEN -1 ELSE 0)
                            + (IF h = CownValue(new, FALSE) THEN 1 ELSE 0)],
       ![new] = [h \in Handle |-> IF h \in captured THEN 1 ELSE 0]]
  /\ InUse' <= MaxRegs
  /\ UNCHANGED <<content, mutable, pending, destroyed, ret>>

\* The scheduler starts b, and thread_run_behavior fills its registers: a reference
\* to write is counted once more, one to read is not.
Start(b) ==
  /\ phase[b] = "queued"
  /\ waits[b] = {}
  /\ LET mode(h) == IF h.readonly THEN "read" ELSE "write"
         given == {h \in Handle : /\ h.kind = "ref" /\ h.cown # b
                                  /\ access[b][h.cown] = mode(h)}
     IN  /\ regs' = [regs EXCEPT ![b] = [h \in Handle |->
                       regs[b][h] + (IF h \in given THEN 1 ELSE 0)]]
         /\ rc' = [c \in Cown |-> rc[c] + (IF CownRef(c, FALSE) \in given
                                           THEN 1 ELSE 0)]
  /\ phase' = [phase EXCEPT ![b] = "running"]
  /\ UNCHANGED <<access, waits, content, mutable, pending, destroyed, ret>>

-------------------------------------------------------------------------------
(* Instructions of a running behaviour *)

\* Copy a register (reg_inc): a read-only CownRef is not counted.
Copy(b, h) ==
  /\ Executes(b)
  /\ regs[b][h] > 0 /\ InUse < MaxRegs
  /\ regs' = [regs EXCEPT ![b][h] = @ + 1]
  /\ IF Counted(h) THEN Inc(h.cown) ELSE UNCHANGED rc
  /\ UNCHANGED <<phase, access, waits, content, mutable, pending, destroyed, ret>>

\* Drop a register (reg_dec).
Drop(b, h) ==
  /\ Executes(b)
  /\ regs[b][h] > 0
  /\ regs' = [regs EXCEPT ![b][h] = @ - 1]
  /\ IF Counted(h) THEN Dec(b, One(h.cown)) ELSE UNCHANGED <<rc, pending>>
  /\ UNCHANGED <<phase, access, waits, content, mutable, destroyed, ret>>

\* Op::Read: one more register with the cown, read-only.
Read(b, h) ==
  /\ Executes(b)
  /\ h.kind = "cown" /\ regs[b][h] > 0 /\ InUse < MaxRegs
  /\ regs' = [regs EXCEPT ![b][CownValue(h.cown, TRUE)] = @ + 1]
  /\ Inc(h.cown)
  /\ UNCHANGED <<phase, access, waits, content, mutable, pending, destroyed, ret>>

\* load_reference of a CownRef: the content as it is, read-only or not.
Load(b, h) ==
  /\ Executes(b)
  /\ h.kind = "ref" /\ regs[b][h] > 0
  /\ \/ /\ content[h.cown] = Object
        /\ mutable' = [mutable EXCEPT ![b] = @ \cup {h.cown}]
        /\ UNCHANGED <<regs, rc>>
     \/ /\ content[h.cown] \in CownHandles /\ InUse < MaxRegs
        /\ regs' = [regs EXCEPT ![b][content[h.cown]] = @ + 1]
        /\ Inc(content[h.cown].cown)
        /\ UNCHANGED mutable
  /\ UNCHANGED <<phase, access, waits, content, pending, destroyed, ret>>

\* Value::exchange and Cown::exchange on a CownRef: refused if the reference or
\* the value is read-only.  A cown moves from a register into the content; the old
\* content goes to a register, and the cown gives up what it owned.
Store(b, h, v) ==
  /\ Executes(b)
  /\ h.kind = "ref" /\ ~h.readonly /\ regs[b][h] > 0
  /\ v \in CownHandles => ~v.readonly
  /\ LET out == content[h.cown]
     IN  regs' = [regs EXCEPT ![b] = [k \in Handle |->
                    regs[b][k] + (IF k = v THEN -1 ELSE 0)
                               + (IF k = out THEN 1 ELSE 0)]]
  /\ InUse' <= MaxRegs
  /\ content' = [content EXCEPT ![h.cown] = v]
  /\ mutable' = [mutable EXCEPT ![b] = @ \ {h.cown}]
  /\ UNCHANGED <<phase, access, waits, rc, pending, destroyed, ret>>

-------------------------------------------------------------------------------
(* The end of a behaviour *)

\* The frame is popped, its registers dropped, and the returned value moves to the
\* result cown.
Return(b, v) ==
  /\ Executes(b)
  /\ content' = [content EXCEPT ![b] = v]
  /\ Dec(b, [c \in Cown |-> Cardinality(Counts(b, c))
                            + (IF v \in CownHandles /\ v.cown = c THEN -1 ELSE 0)])
  /\ regs' = [regs EXCEPT ![b] = NoRegs]
  /\ mutable' = [mutable EXCEPT ![b] = {}]
  /\ phase' = [phase EXCEPT ![b] = "returned"]
  /\ UNCHANGED <<access, waits, destroyed, ret>>

\* A runtime error ends the behaviour: teardown_all, and the error is what the
\* result cown gets.
Fail(b) == Return(b, Error)

\* BehaviourCore::finished: the cowns are released to the behaviours that wait.
Finished(b) ==
  /\ phase[b] = "returned" /\ pending[b] = {}
  /\ phase' = [phase EXCEPT ![b] = "done"]
  /\ waits' = [x \in Behavior |-> waits[x] \ {b}]
  /\ Dec(b, HeldBySlots(b))
  /\ UNCHANGED <<access, content, regs, mutable, destroyed, ret>>

\* Cown::destroy: one cown off the list, its content is dropped.
Destroy(b, c) ==
  /\ c \in pending[b]
  /\ LET inner == content[c]
         last == inner \in CownHandles /\ rc[inner.cown] = 1
     IN  /\ rc' = IF inner \in CownHandles
                  THEN [rc EXCEPT ![inner.cown] = @ - 1] ELSE rc
         /\ pending' = [pending EXCEPT ![b] =
                          (@ \ {c}) \cup (IF last THEN {inner.cown} ELSE {})]
  /\ content' = [content EXCEPT ![c] = Empty]
  /\ destroyed' = destroyed \cup {c}
  /\ UNCHANGED <<phase, access, waits, regs, mutable, ret>>

\* sched.run returns when no behaviour is left: Program::run gives up the result
\* of main.
ProgramEnd ==
  /\ ret
  /\ \A b \in Behavior : phase[b] \in {"unborn", "done"} /\ pending[b] = {}
  /\ ret' = FALSE
  /\ Dec(Main, One(Main))
  /\ UNCHANGED <<phase, access, waits, content, regs, mutable, destroyed>>

End(b) ==
  \/ Return(b, Object)
  \/ \E v \in Held(b) : Return(b, v)
  \/ Fail(b)

\* Behaviours are alike before they are scheduled: which one is next is no choice.
NextUnborn ==
  LET unborn == {b \in Behavior : phase[b] = "unborn"}
  IN  IF unborn = {} THEN {} ELSE {CHOOSE b \in unborn : TRUE}

Instruction(b, h) ==
  \/ Copy(b, h)
  \/ Drop(b, h)
  \/ Read(b, h)
  \/ Load(b, h)
  \/ \E v \in Held(b) \cup {Object} : Store(b, h, v)

Executing(b) ==
  /\ Executes(b)
  /\ \/ \E new \in NextUnborn, args \in SUBSET Held(b), captured \in SUBSET Capturable(b) :
          When(b, new, args, captured)
     \/ \E h \in Values(b) : Instruction(b, h)

\* What the scheduler's threads do of their own accord.
Progress ==
  \/ \E b \in Behavior :
       \/ Start(b)
       \/ End(b)
       \/ Finished(b)
       \/ \E c \in Cown : Destroy(b, c)
  \/ ProgramEnd

Next == Progress \/ \E b \in Behavior : Executing(b)

Spec == Init /\ [][Next]_vars

\* The scheduler's threads do not stop while one of them can go on: there is
\* something to start, a body that will end, a call to complete.
FairSpec == Spec /\ WF_vars(Progress)

-------------------------------------------------------------------------------
(* Properties *)

\* The requests that count a cown: to write until the behaviour has finished, to
\* read for good.
WriteRequests(c) == {b \in Behavior : Active(b) /\ access[b][c] = "write"}
ReadRequests(c)  == {b \in Behavior : access[b][c] = "read"}

\* The cowns whose content is the cown c.
Contents(c) == {x \in Cown : content[x] \in {CownValue(c, TRUE), CownValue(c, FALSE)}}

\* A cown's count is exactly the references to it: registers, closures, requests,
\* contents of other cowns, Program::run, and one for each request to read it that
\* was ever made.  So a cown is not destroyed while any of them is left, and without
\* read requests it is destroyed when none is.
CownRcExact ==
  \A c \in Cown :
    rc[c] = Cardinality(UNION {{b} \X Counts(b, c) : b \in Behavior})
            + Cardinality(WriteRequests(c)) + Cardinality(ReadRequests(c))
            + Cardinality(Contents(c))
            + (IF ret /\ c = Main THEN 1 ELSE 0)

\* A cown is on exactly one list to be destroyed, or has been, once its count is 0.
DestroyedExactly ==
  \A c \in Cown :
    /\ (c \in destroyed \/ \E b \in Behavior : c \in pending[b])
         <=> phase[c] # "unborn" /\ rc[c] = 0
    /\ \A b, x \in Behavior : c \in pending[b] \cap pending[x] => b = x
    /\ c \in destroyed => \A b \in Behavior : c \notin pending[b]

\* b runs and can write to the content of c.
MayWrite(b, c) == phase[b] = "running" /\ regs[b][CownRef(c, FALSE)] > 0

\* A behaviour that runs and can write to a cown has the cown alone: no other
\* behaviour that runs has asked for it.
WritersExclude ==
  \A b, x \in Behavior, c \in Cown :
    b # x /\ MayWrite(b, c) /\ phase[x] \in {"running", "returned"}
      => access[x][c] = "none"

\* Nothing refers to the cown c: no value of a behaviour, no pending behaviour, no
\* content and no result that Program::run keeps.
Unreferenced(c) ==
  /\ phase[c] # "unborn"
  /\ \A b \in Behavior : /\ \A h \in Values(b) : h.cown # c
                         /\ Active(b) => access[b][c] = "none"
  /\ Contents(c) = {} /\ ~(ret /\ c = Main)

\* The cown is destroyed, or on a list to be.
Released(c) == c \in destroyed \/ \E b \in Behavior : c \in pending[b]


\* A cown's content is there when a behaviour that asked for the cown runs: the
\* behaviour whose result it is has ended.
ResultBeforeUse ==
  \A b \in Behavior, c \in Cown :
    phase[b] = "running" /\ access[b][c] # "none" /\ c # b => content[c] # Empty

\* A step changes a cown's content only for a behaviour that has it to write (its
\* own result, above all), or to destroy it.
OnlyHoldersWrite ==
  [][\A c \in Cown : content'[c] # content[c] =>
       \/ \E b \in Behavior : phase[b] = "running" /\ access[b][c] = "write"
       \/ c \in destroyed']_vars

\* Who has a cown to read gets nothing to write through: "the behavior receives a
\* read-only reference - writes through it are not permitted".
ReadersDoNotWrite ==
  \A b \in Behavior : \A c \in mutable[b] : access[b][c] = "write"

\* Every behaviour that is scheduled runs and ends, every cown that loses its last
\* reference is destroyed, and the program ends: no set of behaviours waits for each
\* other.
ProgramEnds ==
  <>[](~ret /\ \A b \in Behavior : ~Active(b) /\ pending[b] = {})
===============================================================================
