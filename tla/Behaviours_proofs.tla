---------------------------- MODULE Behaviours_proofs ----------------------------
(***************************************************************************)
(* For any set of behaviours: a behaviour that can write to a cown has it  *)
(* alone, a behaviour runs only when the ones whose results it asked for   *)
(* have ended, and behaviours never wait for each other in a circle.       *)
(*                                                                         *)
(* The inductive invariant relates requests to the order they were queued  *)
(* in: of two active behaviours whose requests exclude each other one      *)
(* waits for the other (Ordered), and a result that is asked for is waited *)
(* for or there (ResultOrdered).  Handles say which cowns can be asked     *)
(* for, arguments what can be written.                                     *)
(***************************************************************************)
EXTENDS Behaviours, TLAPS

Phases == {"unborn", "queued", "running", "returned", "done"}
Modes  == {"none", "read", "write"}

Types ==
  /\ phase \in [Behavior -> Phases]
  /\ access \in [Behavior -> [Cown -> Modes]]
  /\ waits \in [Behavior -> SUBSET Behavior]
  /\ content \in [Cown -> {Empty, Object, Error} \cup CownHandles]
  /\ regs \in [Behavior -> [Handle -> Int]]

Started(b) == phase[b] \in {"running", "returned"}

\* What has been started does not wait.
StartedFree == \A b \in Behavior : Started(b) => waits[b] = {}

\* Exclusive requests are ordered.
Ordered ==
  \A b, x \in Behavior : \A c \in Cown :
    b # x /\ Active(b) /\ Active(x) /\ Excludes(access[b][c], access[x][c])
      => b \in waits[x] \/ x \in waits[b]

\* An active behaviour has its own result to write.
OwnResult == \A b \in Behavior : Active(b) => access[b][b] = "write"

\* Only cowns that exist can be referred to.
Born ==
  /\ \A b \in Behavior : \A h \in Handle :
       regs[b][h] > 0 => phase[h.cown] # "unborn"
  /\ \A c \in Cown :
       content[c] \in CownHandles => phase[content[c].cown] # "unborn"

\* A result that is asked for is there, or is waited for.
ResultOrdered ==
  \A b \in Behavior : \A c \in Cown :
    Active(b) /\ access[b][c] # "none" /\ c # b
      => phase[c] = "done" \/ c \in waits[b]

\* The value that a behaviour may write to a cown through.
WRef(c) == CownRef(c, FALSE)

\* Unless closures capture references, a writable one comes from a write request.
WritesRequested ==
  "captured_ref" \notin Cases =>
    \A b \in Behavior : \A c \in Cown :
      regs[b][WRef(c)] > 0 => phase[b] = "running" /\ access[b][c] = "write"

IInv ==
  /\ Types
  /\ StartedFree
  /\ Ordered
  /\ OwnResult
  /\ Born
  /\ ResultOrdered
  /\ WritesRequested

\* A behaviour runs only after those whose results it asked for are done.
ResultsDone ==
  \A b \in Behavior : \A c \in Cown :
    Started(b) /\ access[b][c] # "none" /\ c # b => phase[c] = "done"

-------------------------------------------------------------------------------
(* Handles, about the values registers hold. *)
LEMMA HandleFacts ==
  ASSUME NEW c \in Cown, NEW ro \in BOOLEAN
  PROVE  /\ CownValue(c, ro) \in CownHandles
         /\ CownValue(c, ro) \in Handle /\ CownRef(c, ro) \in Handle
         /\ CownValue(c, ro).cown = c /\ CownRef(c, ro).cown = c
         /\ CownValue(c, ro).kind = "cown" /\ CownRef(c, ro).kind = "ref"
         /\ CownRef(c, ro).readonly = ro /\ CownValue(c, ro).readonly = ro
BY DEF CownHandles, Handle, CownValue, CownRef

LEMMA HandleTypes ==
  ASSUME NEW h \in Handle
  PROVE  h.cown \in Cown /\ h.readonly \in BOOLEAN /\ h.kind \in {"cown", "ref"}
BY DEF Handle

LEMMA WritableHandles ==
  ASSUME NEW c \in Cown
  PROVE  /\ WRef(c) \in Handle /\ WRef(c).kind = "ref"
         /\ WRef(c).cown = c /\ WRef(c).readonly = FALSE
BY DEF WRef, Handle, CownRef

(* What a closure captures is in a register, and is a cown unless Cases says more. *)
LEMMA CapturedFacts ==
  ASSUME NEW b \in Behavior, NEW h \in Capturable(b)
  PROVE  /\ h \in Handle /\ regs[b][h] > 0 /\ ~h.readonly
         /\ h.kind = "cown" \/ "captured_ref" \in Cases
BY HandleTypes DEF Capturable, Values

(* The initial state satisfies the invariant: only main is there, with its result. *)
LEMMA InitInv == Init => IInv
<1> SUFFICES ASSUME Init PROVE IInv
  OBVIOUS
<1>1. Types
  BY BehaviourAssumption DEF Init, Types, Phases, Modes, NoRegs, Cown
<1>2. \A b \in Behavior : Active(b) => b = Main
  BY DEF Init, Active
<1>3. \A b \in Behavior : \A h \in Handle : regs[b][h] = 0
  BY DEF Init, NoRegs
<1>4. \A c \in Cown : content[c] = Empty
  BY DEF Init
<1>5. StartedFree
  BY DEF Init, StartedFree, Started
<1>9. Ordered
  BY <1>2 DEF Ordered
<1>10. OwnResult
  <2>1. access[Main][Main] = "write"
    BY BehaviourAssumption DEF Init, Cown
  <2> QED
    BY <1>2, <2>1 DEF OwnResult
<1>6. Born
  BY <1>3, <1>4, ContentAssumption DEF Born, CownHandles
<1>7. ResultOrdered
  BY <1>2 DEF ResultOrdered, Init
<1>8. WritesRequested
  <2>1. \A c \in Cown : WRef(c) \in Handle
    BY WritableHandles
  <2> QED
    BY <1>3, <2>1 DEF WritesRequested
<1> QED
  BY <1>1, <1>5, <1>6, <1>7, <1>8, <1>9, <1>10 DEF IInv

(* A step that leaves requests and phases alone keeps the order of requests.  What  *)
(* it does to registers and contents has to come from registers and contents that   *)
(* were there: every value in a register after the step refers to a cown that was   *)
(* known, and writable values come from writable values.                            *)
LEMMA RegisterStep ==
  ASSUME IInv, UNCHANGED <<phase, access, waits>>,
         content' \in [Cown -> {Empty, Object, Error} \cup CownHandles],
         regs' \in [Behavior -> [Handle -> Int]],
         \A b \in Behavior : \A h \in Handle : regs'[b][h] > 0 =>
            phase[h.cown] # "unborn",
         \A c \in Cown : content'[c] \in CownHandles =>
            phase[content'[c].cown] # "unborn",
         \A b \in Behavior : \A c \in Cown : regs'[b][WRef(c)] > 0 => regs[b][WRef(c)] > 0
  PROVE  IInv'
<1>1. Types'
  BY DEF IInv, Types
<1>2. StartedFree' /\ Ordered' /\ OwnResult' /\ ResultOrdered'
  BY DEF IInv, StartedFree, Started, Ordered, Active, OwnResult, ResultOrdered
<1>3. Born'
  BY DEF Born
<1>4. WritesRequested'
  BY DEF IInv, WritesRequested
<1> QED
  BY <1>1, <1>2, <1>3, <1>4 DEF IInv

(* Copying a register. *)
LEMMA CopyInv ==
  ASSUME IInv, NEW b \in Behavior, NEW h \in Handle, Copy(b, h)
  PROVE  IInv'
<1>1. /\ UNCHANGED <<phase, access, waits, content>>
      /\ regs' = [regs EXCEPT ![b][h] = @ + 1]
      /\ regs[b][h] > 0
  BY DEF Copy
<1>2. regs' \in [Behavior -> [Handle -> Int]]
  BY <1>1 DEF IInv, Types
<1>3. \A x \in Behavior : \A k \in Handle : regs'[x][k] > 0 => regs[x][k] > 0
  BY <1>1 DEF IInv, Types
<1>4. \A c \in Cown : WRef(c) \in Handle
  BY WritableHandles
<1> QED
  BY <1>1, <1>2, <1>3, <1>4, RegisterStep DEF IInv, Born, Types

(* Dropping a register. *)
LEMMA DropInv ==
  ASSUME IInv, NEW b \in Behavior, NEW h \in Handle, Drop(b, h)
  PROVE  IInv'
<1>1. /\ UNCHANGED <<phase, access, waits, content>>
      /\ regs' = [regs EXCEPT ![b][h] = @ - 1]
  BY DEF Drop
<1>2. regs' \in [Behavior -> [Handle -> Int]]
  BY <1>1 DEF IInv, Types
<1>3. \A x \in Behavior : \A k \in Handle : regs'[x][k] > 0 => regs[x][k] > 0
  BY <1>1 DEF IInv, Types
<1>4. \A c \in Cown : WRef(c) \in Handle
  BY WritableHandles
<1> QED
  BY <1>1, <1>2, <1>3, <1>4, RegisterStep DEF IInv, Born, Types

(* Making a cown read-only: the same cown, not a reference. *)
LEMMA ReadInv ==
  ASSUME IInv, NEW b \in Behavior, NEW h \in Handle, Read(b, h)
  PROVE  IInv'
<1> DEFINE r == CownValue(h.cown, TRUE)
<1>1. /\ UNCHANGED <<phase, access, waits, content>>
      /\ regs' = [regs EXCEPT ![b][r] = @ + 1]
      /\ regs[b][h] > 0
  BY DEF Read
<1>2. h.cown \in Cown /\ r \in Handle /\ r.cown = h.cown /\ r.kind = "cown"
  BY HandleTypes, HandleFacts
<1> HIDE DEF r
<1>3. regs' \in [Behavior -> [Handle -> Int]]
  BY <1>1, <1>2 DEF IInv, Types
<1>4. \A x \in Behavior : \A k \in Handle :
        regs'[x][k] > 0 => regs[x][k] > 0 \/ k = r
  BY <1>1, <1>2 DEF IInv, Types
<1>5. \A c \in Cown : WRef(c) \in Handle /\ WRef(c) # r
  BY WritableHandles, <1>2
<1> QED
  BY <1>1, <1>2, <1>3, <1>4, <1>5, RegisterStep DEF IInv, Born, Types

(* Loading a content: an object changes nothing here, a cown was known before. *)
LEMMA LoadInv ==
  ASSUME IInv, NEW b \in Behavior, NEW h \in Handle, Load(b, h)
  PROVE  IInv'
<1>4. \A c \in Cown : WRef(c) \in Handle
  BY WritableHandles
<1>5. UNCHANGED <<phase, access, waits, content>>
  BY DEF Load
<1>1. CASE UNCHANGED regs
  BY <1>1, <1>4, <1>5, RegisterStep DEF IInv, Born, Types
<1>2. CASE /\ content[h.cown] \in CownHandles
           /\ regs' = [regs EXCEPT ![b][content[h.cown]] = @ + 1]
  <2> DEFINE r == content[h.cown]
  <2>1. h.cown \in Cown /\ r \in Handle /\ r.kind = "cown"
    BY <1>2, HandleTypes DEF CownHandles
  <2>2. phase[r.cown] # "unborn"
    BY <1>2, <2>1 DEF IInv, Born
  <2>3. regs' = [regs EXCEPT ![b][r] = @ + 1]
    BY <1>2
  <2> HIDE DEF r
  <2>4. regs' \in [Behavior -> [Handle -> Int]]
    BY <2>1, <2>3 DEF IInv, Types
  <2>5. \A x \in Behavior : \A k \in Handle :
          regs'[x][k] > 0 => regs[x][k] > 0 \/ k = r
    BY <2>1, <2>3 DEF IInv, Types
  <2>6. \A c \in Cown : WRef(c) # r
    BY WritableHandles, <2>1
  <2> QED
    BY <1>4, <1>5, <2>2, <2>4, <2>5, <2>6, RegisterStep DEF IInv, Born, Types
<1> QED
  BY <1>1, <1>2 DEF Load

(* Storing: a cown goes from a register to the content, the old content to one. *)
LEMMA StoreInv ==
  ASSUME IInv, NEW b \in Behavior, NEW h \in Handle,
         NEW v \in Held(b) \cup {Object}, Store(b, h, v)
  PROVE  IInv'
<1> DEFINE out == content[h.cown]
<1>1. /\ UNCHANGED <<phase, access, waits>>
      /\ regs' = [regs EXCEPT ![b] = [k \in Handle |->
                    regs[b][k] + (IF k = v THEN -1 ELSE 0)
                               + (IF k = out THEN 1 ELSE 0)]]
      /\ content' = [content EXCEPT ![h.cown] = v]
  BY DEF Store
<1>2. h.cown \in Cown /\ out \in {Empty, Object, Error} \cup CownHandles
  BY HandleTypes DEF IInv, Types
<1>3. out \in CownHandles => phase[out.cown] # "unborn" /\ out.kind = "cown"
  BY <1>2 DEF IInv, Born, CownHandles
<1>4. v \in CownHandles => phase[v.cown] # "unborn"
  <2>1. v \in CownHandles => v \in Held(b) /\ v \in Handle
    BY ContentAssumption DEF CownHandles
  <2> QED
    BY <2>1 DEF Held, IInv, Born
<1>5. v \in {Empty, Object, Error} \cup CownHandles
  BY DEF Held
<1>6. \A k \in Handle : k = out => out \in CownHandles
  BY <1>2, ContentAssumption
<1> HIDE DEF out
<1>7. regs' \in [Behavior -> [Handle -> Int]]
  BY <1>1 DEF IInv, Types
<1>8. content' \in [Cown -> {Empty, Object, Error} \cup CownHandles]
  BY <1>1, <1>5 DEF IInv, Types
<1>9. \A x \in Behavior : \A k \in Handle :
        regs'[x][k] > 0 => regs[x][k] > 0 \/ k = out
  BY <1>1 DEF IInv, Types
<1>10. \A c \in Cown : content'[c] = content[c] \/ content'[c] = v
  BY <1>1 DEF IInv, Types
<1>11. \A c \in Cown : WRef(c) \in Handle /\ WRef(c) # out
  BY WritableHandles, <1>3, <1>6
<1>12. \A x \in Behavior : \A k \in Handle :
         regs'[x][k] > 0 => phase[k.cown] # "unborn"
  BY <1>3, <1>6, <1>9 DEF IInv, Born
<1>13. \A c \in Cown : content'[c] \in CownHandles =>
         phase[content'[c].cown] # "unborn"
  BY <1>4, <1>10 DEF IInv, Born
<1> QED
  BY <1>1, <1>7, <1>8, <1>9, <1>11, <1>12, <1>13, RegisterStep

(* The end of a behaviour's body. *)
LEMMA ReturnInv ==
  ASSUME IInv, NEW b \in Behavior, NEW v \in Held(b) \cup {Object, Error},
         Return(b, v)
  PROVE  IInv'
<1>1. /\ UNCHANGED <<access, waits>>
      /\ phase[b] = "running" /\ phase' = [phase EXCEPT ![b] = "returned"]
      /\ regs' = [regs EXCEPT ![b] = NoRegs]
      /\ content' = [content EXCEPT ![b] = v]
  BY DEF Return, Executes
<1>2. v \in CownHandles => phase[v.cown] # "unborn"
  <2>1. v \in CownHandles => v \in Held(b) /\ v \in Handle
    BY ContentAssumption DEF CownHandles
  <2> QED
    BY <2>1 DEF Held, IInv, Born
<1>3. /\ \A x \in Behavior : phase'[x] = phase[x] \/ (x = b /\ phase'[x] = "returned")
      /\ phase' \in [Behavior -> Phases]
  BY <1>1 DEF IInv, Types, Phases
<1>4. Types'
  <2>1. regs' \in [Behavior -> [Handle -> Int]]
    BY <1>1 DEF IInv, Types, NoRegs
  <2>2. v \in {Empty, Object, Error} \cup CownHandles
    BY DEF Held
  <2>3. content' \in [Cown -> {Empty, Object, Error} \cup CownHandles]
    BY <1>1, <2>2 DEF IInv, Types, Cown
  <2> QED
    BY <1>1, <1>3, <2>1, <2>3 DEF IInv, Types
<1>5. \A x \in Behavior : Active(x)' <=> Active(x)
  BY <1>1, <1>3 DEF Active
<1>6. \A x \in Behavior : Started(x)' => Started(x)
  BY <1>1, <1>3 DEF Started
<1>7. StartedFree'
  BY <1>1, <1>6 DEF IInv, StartedFree
<1>8. Ordered'
  BY <1>1, <1>5 DEF IInv, Ordered
<1>9. OwnResult'
  BY <1>1, <1>5 DEF IInv, OwnResult
<1>10. \A x \in Behavior : \A k \in Handle :
         regs'[x][k] > 0 => x # b /\ regs[x][k] > 0
  BY <1>1 DEF IInv, Types, NoRegs
<1>11. \A c \in Cown : content'[c] = content[c] \/ content'[c] = v
  BY <1>1 DEF IInv, Types, Cown
<1>12. Born'
  <2>1. \A x \in Behavior : phase[x] # "unborn" => phase'[x] # "unborn"
    BY <1>3
  <2>2. \A k \in Handle : k.cown \in Behavior
    BY HandleTypes DEF Cown
  <2>3. \A k \in CownHandles : k \in Handle
    BY DEF CownHandles
  <2>4. \A x \in Behavior : \A k \in Handle :
          regs'[x][k] > 0 => phase'[k.cown] # "unborn"
    BY <1>10, <2>1, <2>2 DEF IInv, Born
  <2>5. \A c \in Cown : content'[c] \in CownHandles =>
          phase'[content'[c].cown] # "unborn"
    BY <1>2, <1>11, <2>1, <2>2, <2>3 DEF IInv, Born
  <2> QED
    BY <2>4, <2>5 DEF Born
<1>13. ResultOrdered'
  BY <1>1, <1>3, <1>5 DEF IInv, ResultOrdered, Cown
<1>14. WritesRequested'
  <2> SUFFICES ASSUME NEW x \in Behavior, NEW c \in Cown,
                      "captured_ref" \notin Cases, regs'[x][WRef(c)] > 0
               PROVE  phase'[x] = "running" /\ access'[x][c] = "write"
    BY DEF WritesRequested
  <2>1. WRef(c) \in Handle
    BY WritableHandles
  <2>2. x # b /\ regs[x][WRef(c)] > 0
    BY <1>10, <2>1
  <2>3. phase[x] = "running" /\ access[x][c] = "write"
    BY <2>2 DEF IInv, WritesRequested
  <2> QED
    BY <1>1, <1>3, <2>2, <2>3
<1> QED
  BY <1>4, <1>7, <1>8, <1>9, <1>12, <1>13, <1>14 DEF IInv

(* The scheduler lets the behaviours go on that waited. *)
LEMMA FinishedInv ==
  ASSUME IInv, NEW b \in Behavior, Finished(b)
  PROVE  IInv'
<1>1. /\ UNCHANGED <<access, content, regs>>
      /\ phase[b] = "returned" /\ phase' = [phase EXCEPT ![b] = "done"]
      /\ waits' = [x \in Behavior |-> waits[x] \ {b}]
  BY DEF Finished
<1>2. \A x \in Behavior : (x # b /\ phase'[x] = phase[x]) \/ (x = b /\ phase'[x] = "done")
  BY <1>1 DEF IInv, Types
<1>3. Types'
  BY <1>1 DEF IInv, Types, Phases
<1>4. \A x \in Behavior : Active(x)' => Active(x) /\ x # b
  BY <1>1, <1>2 DEF Active
<1>5. \A x \in Behavior : waits'[x] = waits[x] \ {b}
  BY <1>1
<1>6. StartedFree'
  BY <1>2, <1>5 DEF IInv, StartedFree, Started
<1>7. Ordered'
  BY <1>1, <1>4, <1>5 DEF IInv, Ordered
<1>8. OwnResult'
  BY <1>1, <1>4 DEF IInv, OwnResult
<1>9. Born'
  <2>1. \A x \in Behavior : phase[x] # "unborn" => phase'[x] # "unborn"
    BY <1>2
  <2>2. \A k \in Handle : k.cown \in Behavior
    BY HandleTypes DEF Cown
  <2>3. \A k \in CownHandles : k \in Handle
    BY DEF CownHandles
  <2> QED
    BY <1>1, <2>1, <2>2, <2>3 DEF IInv, Born
<1>10. ResultOrdered'
  BY <1>1, <1>2, <1>4, <1>5 DEF IInv, ResultOrdered, Cown
<1>11. WritesRequested'
  BY <1>1, <1>2 DEF IInv, WritesRequested
<1> QED
  BY <1>3, <1>6, <1>7, <1>8, <1>9, <1>10, <1>11 DEF IInv

(* A started behaviour gets references to what it has requested: what it asked to   *)
(* write and is not its own result is there, since it does not wait any more.       *)
LEMMA StartInv ==
  ASSUME IInv, NEW b \in Behavior, Start(b)
  PROVE  IInv'
<1> DEFINE given == {h \in Handle :
             /\ h.kind = "ref" /\ h.cown # b
             /\ access[b][h.cown] = (IF h.readonly THEN "read" ELSE "write")}
<1>1. /\ UNCHANGED <<access, waits, content>>
      /\ phase[b] = "queued" /\ waits[b] = {}
      /\ phase' = [phase EXCEPT ![b] = "running"]
      /\ regs' = [regs EXCEPT ![b] = [h \in Handle |->
                    regs[b][h] + (IF h \in given THEN 1 ELSE 0)]]
  BY DEF Start
<1>2. \A h \in Handle : h \in given =>
        /\ access[b][h.cown] # "none" /\ h.cown # b
        /\ ~h.readonly => access[b][h.cown] = "write"
  OBVIOUS
<1> HIDE DEF given
<1>3. \A x \in Behavior :
        (x # b /\ phase'[x] = phase[x]) \/ (x = b /\ phase'[x] = "running")
  BY <1>1 DEF IInv, Types
<1>4. Types'
  <2>1. regs' \in [Behavior -> [Handle -> Int]]
    BY <1>1 DEF IInv, Types
  <2>2. phase' \in [Behavior -> Phases]
    BY <1>1 DEF IInv, Types, Phases
  <2> QED
    BY <1>1, <2>1, <2>2 DEF IInv, Types
<1>5. \A x \in Behavior : Active(x)' <=> Active(x)
  BY <1>1, <1>3 DEF Active
<1>6. StartedFree'
  BY <1>1, <1>3 DEF IInv, StartedFree, Started
<1>7. Ordered'
  BY <1>1, <1>5 DEF IInv, Ordered
<1>8. OwnResult'
  BY <1>1, <1>5 DEF IInv, OwnResult
<1>9. \A x \in Behavior : \A k \in Handle :
        regs'[x][k] > 0 => regs[x][k] > 0 \/ (x = b /\ k \in given)
  BY <1>1 DEF IInv, Types
<1>10. \A x \in Behavior : phase[x] # "unborn" => phase'[x] # "unborn"
  BY <1>3
<1>11. \A k \in Handle : k.cown \in Cown /\ k.cown \in Behavior
  BY HandleTypes DEF Cown
<1>12. \A k \in Handle : k \in given => phase[k.cown] # "unborn"
  <2> SUFFICES ASSUME NEW k \in Handle, k \in given PROVE phase[k.cown] = "done"
    OBVIOUS
  <2>1. Active(b)
    BY <1>1 DEF Active
  <2>2. k.cown \in Cown /\ access[b][k.cown] # "none" /\ k.cown # b
    BY <1>2, <1>11
  <2> QED
    BY <1>1, <2>1, <2>2 DEF IInv, ResultOrdered
<1>13. Born'
  <2>1. \A k \in CownHandles : k \in Handle
    BY DEF CownHandles
  <2>2. \A x \in Behavior : \A k \in Handle : regs'[x][k] > 0 => phase'[k.cown] # "unborn"
    BY <1>9, <1>10, <1>11, <1>12 DEF IInv, Born
  <2>3. \A c \in Cown : content'[c] \in CownHandles => phase'[content'[c].cown] # "unborn"
    BY <1>1, <1>10, <1>11, <2>1 DEF IInv, Born
  <2> QED
    BY <2>2, <2>3 DEF Born
<1>14. ResultOrdered'
  BY <1>1, <1>3, <1>5 DEF IInv, ResultOrdered, Cown
<1>15. WritesRequested'
  <2> SUFFICES ASSUME NEW x \in Behavior, NEW c \in Cown,
                      "captured_ref" \notin Cases, regs'[x][WRef(c)] > 0
               PROVE  phase'[x] = "running" /\ access[x][c] = "write"
    BY <1>1 DEF WritesRequested
  <2>1. CASE regs[x][WRef(c)] > 0
    BY <2>1, <1>3 DEF IInv, WritesRequested
  <2>2. CASE ~(regs[x][WRef(c)] > 0)
    <3>1. WRef(c) \in Handle /\ WRef(c).cown = c /\ ~WRef(c).readonly
      BY WritableHandles
    <3>2. x = b /\ WRef(c) \in given
      BY <1>9, <2>2, <3>1
    <3> QED
      BY <1>2, <1>3, <3>1, <3>2
  <2> QED
    BY <2>1, <2>2
<1> QED
  BY <1>4, <1>6, <1>7, <1>8, <1>13, <1>14, <1>15 DEF IInv

(* A new behaviour asks for its result and for cowns that exist, and waits for all  *)
(* whose requests conflict with its own.                                            *)
LEMMA WhenInv ==
  ASSUME IInv, NEW b \in Behavior, NEW new \in Behavior,
         NEW args \in SUBSET Held(b), NEW captured \in SUBSET Capturable(b),
         When(b, new, args, captured)
  PROVE  IInv'
<1> DEFINE R == Requests(new, args)
           r == CownValue(new, FALSE)
<1>1. /\ UNCHANGED content
      /\ phase[b] = "running" /\ phase[new] = "unborn"
      /\ phase' = [phase EXCEPT ![new] = "queued"]
      /\ access' = [access EXCEPT ![new] = R]
      /\ waits' = [waits EXCEPT ![new] =
           {x \in Behavior : /\ Active(x)
                             /\ \E c \in Cown : Excludes(access[x][c], R[c])}]
      /\ regs' = [regs EXCEPT
           ![b] = [h \in Handle |->
                     regs[b][h] + (IF h \in args \cup captured THEN -1 ELSE 0)
                                + (IF h = r THEN 1 ELSE 0)],
           ![new] = [h \in Handle |-> IF h \in captured THEN 1 ELSE 0]]
  BY DEF When, Executes
<1>2. /\ R \in [Cown -> Modes] /\ R[new] = "write"
      /\ \A c \in Cown : R[c] # "none" /\ c # new =>
           CownValue(c, TRUE) \in args \/ CownValue(c, FALSE) \in args
  BY DEF Requests, Modes, Cown
<1>3. /\ \A h \in args \cup captured : h \in Handle /\ regs[b][h] > 0
      /\ \A h \in captured : h.kind = "cown" \/ "captured_ref" \in Cases
  <2>1. \A h \in args : h \in Handle /\ regs[b][h] > 0
    BY DEF Held, CownHandles
  <2> QED
    BY <2>1, CapturedFacts
<1>4. r \in Handle /\ r.kind = "cown" /\ r.cown = new
  BY HandleFacts DEF Cown
<1>5. \A c \in Cown : R[c] # "none" /\ c # new => phase[c] # "unborn"
  <2> SUFFICES ASSUME NEW c \in Cown, R[c] # "none", c # new
               PROVE  phase[c] # "unborn"
    OBVIOUS
  <2>1. PICK ro \in BOOLEAN : CownValue(c, ro) \in args
    BY <1>2
  <2>2. /\ CownValue(c, ro) \in Handle /\ regs[b][CownValue(c, ro)] > 0
        /\ CownValue(c, ro).cown = c
    BY <1>3, <2>1, HandleFacts
  <2> QED
    BY <2>2 DEF IInv, Born
<1> HIDE DEF R, r
<1>6. new # b
  BY <1>1
<1>7. \A x \in Behavior :
        (x # new /\ phase'[x] = phase[x]) \/ (x = new /\ phase'[x] = "queued")
  BY <1>1 DEF IInv, Types
<1>8. \A x \in Behavior : access'[x] = IF x = new THEN R ELSE access[x]
  BY <1>1 DEF IInv, Types
<1>9. \A x \in Behavior : x # new => waits'[x] = waits[x]
  BY <1>1 DEF IInv, Types
<1>10. \A x \in Behavior : x \in waits'[new] <=>
         Active(x) /\ \E c \in Cown : Excludes(access[x][c], R[c])
  BY <1>1 DEF IInv, Types
<1>11. \A x \in Behavior : Active(x)' <=> Active(x) \/ x = new
  BY <1>7 DEF Active
<1>12. Types'
  <2>1. phase' \in [Behavior -> Phases]
    BY <1>1 DEF IInv, Types, Phases
  <2>2. access' \in [Behavior -> [Cown -> Modes]]
    BY <1>1, <1>2 DEF IInv, Types
  <2>3. waits' \in [Behavior -> SUBSET Behavior]
    BY <1>1 DEF IInv, Types
  <2>4. regs' \in [Behavior -> [Handle -> Int]]
    <3> DEFINE left == [h \in Handle |->
                 regs[b][h] + (IF h \in args \cup captured THEN -1 ELSE 0)
                            + (IF h = r THEN 1 ELSE 0)]
               closure == [h \in Handle |-> IF h \in captured THEN 1 ELSE 0]
    <3>1. left \in [Handle -> Int] /\ closure \in [Handle -> Int]
      BY DEF IInv, Types
    <3>2. regs' = [regs EXCEPT ![b] = left, ![new] = closure]
      BY <1>1
    <3> HIDE DEF left, closure
    <3> QED
      BY <3>1, <3>2 DEF IInv, Types
  <2> QED
    BY <1>1, <2>1, <2>2, <2>3, <2>4 DEF IInv, Types
<1>13. StartedFree'
  BY <1>7, <1>9 DEF IInv, StartedFree, Started
<1>14. Ordered'
  <2> SUFFICES ASSUME NEW x \in Behavior, NEW y \in Behavior, NEW c \in Cown,
                      x # y, Active(x)', Active(y)',
                      Excludes(access'[x][c], access'[y][c])
               PROVE  x \in waits'[y] \/ y \in waits'[x]
    BY DEF Ordered
  <2>1. CASE x # new /\ y # new
    BY <2>1, <1>8, <1>9, <1>11 DEF IInv, Ordered
  <2>2. CASE x = new
    <3>1. Active(y) /\ Excludes(R[c], access[y][c])
      BY <2>2, <1>8, <1>11
    <3>2. Excludes(access[y][c], R[c])
      BY <3>1 DEF Excludes
    <3> QED
      BY <2>2, <3>1, <3>2, <1>10
  <2>3. CASE y = new
    <3>1. Active(x) /\ Excludes(access[x][c], R[c])
      BY <2>3, <1>8, <1>11
    <3> QED
      BY <2>3, <3>1, <1>10
  <2> QED
    BY <2>1, <2>2, <2>3
<1>15. OwnResult'
  BY <1>2, <1>8, <1>11 DEF IInv, OwnResult
<1>16. \A x \in Behavior : \A k \in Handle :
         regs'[x][k] > 0 => regs[x][k] > 0 \/ (x = b /\ k = r)
                            \/ (x = new /\ k \in captured)
  BY <1>1, <1>6 DEF IInv, Types
<1>17. \A x \in Behavior : phase[x] # "unborn" => phase'[x] # "unborn"
  BY <1>7
<1>18. \A k \in Handle : k.cown \in Cown /\ k.cown \in Behavior
  BY HandleTypes DEF Cown
<1>19. Born'
  <2>1. \A k \in CownHandles : k \in Handle
    BY DEF CownHandles
  <2>2. phase'[r.cown] # "unborn"
    BY <1>4, <1>7
  <2>3. \A k \in captured : phase[k.cown] # "unborn"
    BY <1>3 DEF IInv, Born
  <2>4. \A x \in Behavior : \A k \in Handle : regs'[x][k] > 0 => phase'[k.cown] # "unborn"
    BY <1>16, <1>17, <1>18, <2>2, <2>3 DEF IInv, Born
  <2>5. \A c \in Cown : content'[c] \in CownHandles => phase'[content'[c].cown] # "unborn"
    BY <1>1, <1>17, <1>18, <2>1 DEF IInv, Born
  <2> QED
    BY <2>4, <2>5 DEF Born
<1>20. ResultOrdered'
  <2> SUFFICES ASSUME NEW x \in Behavior, NEW c \in Cown,
                      Active(x)', access'[x][c] # "none", c # x
               PROVE  phase'[c] = "done" \/ c \in waits'[x]
    BY DEF ResultOrdered
  <2>1. c \in Behavior
    BY DEF Cown
  <2>2. CASE x # new
    <3>1. phase[c] = "done" \/ c \in waits[x]
      BY <2>2, <1>8, <1>11 DEF IInv, ResultOrdered
    <3> QED
      BY <2>1, <2>2, <3>1, <1>1, <1>7, <1>9
  <2>3. CASE x = new
    <3>1. R[c] # "none" /\ phase[c] # "unborn" /\ c # new
      BY <2>3, <1>5, <1>8
    <3>2. phase[c] = "done" \/ Active(c)
      BY <2>1, <3>1 DEF IInv, Types, Phases, Active
    <3>3. CASE phase[c] = "done"
      BY <2>1, <3>1, <3>3, <1>7
    <3>4. CASE Active(c)
      <4>1. access[c][c] = "write"
        BY <2>1, <3>4 DEF IInv, OwnResult
      <4>2. Excludes(access[c][c], R[c])
        BY <4>1, <3>1 DEF Excludes
      <4> QED
        BY <2>1, <2>3, <3>4, <4>2, <1>10
    <3> QED
      BY <3>2, <3>3, <3>4
  <2> QED
    BY <2>2, <2>3
<1>21. WritesRequested'
  <2> SUFFICES ASSUME NEW x \in Behavior, NEW c \in Cown,
                      "captured_ref" \notin Cases, regs'[x][WRef(c)] > 0
               PROVE  phase'[x] = "running" /\ access'[x][c] = "write"
    BY DEF WritesRequested
  <2>1. WRef(c) \in Handle /\ WRef(c) # r /\ WRef(c) \notin captured
    BY WritableHandles, <1>3, <1>4
  <2>2. regs[x][WRef(c)] > 0
    BY <1>16, <2>1
  <2>3. phase[x] = "running" /\ access[x][c] = "write"
    BY <2>2 DEF IInv, WritesRequested
  <2> QED
    BY <2>3, <1>1, <1>7, <1>8
<1> QED
  BY <1>12, <1>13, <1>14, <1>15, <1>19, <1>20, <1>21 DEF IInv

(* Destroying a cown empties its content. *)
LEMMA DestroyInv ==
  ASSUME IInv, NEW b \in Behavior, NEW c \in Cown, Destroy(b, c)
  PROVE  IInv'
<1>1. /\ UNCHANGED <<phase, access, waits, regs>>
      /\ content' = [content EXCEPT ![c] = Empty]
  BY DEF Destroy
<1>2. content' \in [Cown -> {Empty, Object, Error} \cup CownHandles]
  BY <1>1 DEF IInv, Types
<1>3. Empty \notin CownHandles
  BY ContentAssumption DEF CownHandles
<1>4. \A x \in Cown : content'[x] \in CownHandles => content'[x] = content[x]
  BY <1>1, <1>3 DEF IInv, Types
<1> QED
  BY <1>1, <1>2, <1>4, RegisterStep DEF IInv, Born, Types

-------------------------------------------------------------------------------
(* Every step keeps the invariant: an instruction of a behaviour, or progress. *)
LEMMA NextInv ==
  ASSUME IInv, [Next]_vars
  PROVE  IInv'
<1>1. CASE UNCHANGED vars
  BY <1>1, RegisterStep DEF vars, IInv, Born, Types
<1>2. ASSUME NEW b \in Behavior, Executing(b) PROVE IInv'
  <2>1. ASSUME NEW new \in NextUnborn, NEW args \in SUBSET Held(b),
               NEW captured \in SUBSET Capturable(b), When(b, new, args, captured)
        PROVE  IInv'
    <3>1. NextUnborn \subseteq Behavior
      BY DEF NextUnborn
    <3> QED
      BY <2>1, <3>1, WhenInv
  <2>2. ASSUME NEW h \in Values(b), Instruction(b, h) PROVE IInv'
    <3>1. h \in Handle
      BY DEF Values
    <3> QED
      BY <2>2, <3>1, CopyInv, DropInv, ReadInv, LoadInv, StoreInv
         DEF Instruction
  <2> QED
    BY <1>2, <2>1, <2>2 DEF Executing
<1>3. ASSUME NEW b \in Behavior, End(b) PROVE IInv'
  <2>1. ASSUME NEW v \in Held(b) \cup {Object, Error}, Return(b, v) PROVE IInv'
    BY <2>1, ReturnInv
  <2> QED
    BY <1>3, <2>1 DEF End, Fail
<1>4. ASSUME ProgramEnd PROVE IInv'
  <2>1. UNCHANGED <<phase, access, waits, content, regs>>
    BY <1>4 DEF ProgramEnd
  <2> QED
    BY <2>1, RegisterStep DEF IInv, Born, Types
<1> QED
  BY <1>1, <1>2, <1>3, <1>4, StartInv, FinishedInv, DestroyInv DEF Next, Progress

(* The invariant holds in every reachable state. *)
THEOREM InvariantHolds == Spec => []IInv
<1>1. Init => IInv
  BY InitInv
<1>2. IInv /\ [Next]_vars => IInv'
  BY NextInv
<1> QED
  BY <1>1, <1>2, PTL DEF Spec

(* If no closure captures a reference, a behaviour that can write to a cown has it  *)
(* alone, however many behaviours there are: two that have been started and whose   *)
(* requests exclude each other would have to wait for each other (StartedFree,      *)
(* Ordered).                                                                        *)
THEOREM WritersAreAlone ==
  ASSUME "captured_ref" \notin Cases
  PROVE  Spec => []WritersExclude
<1>1. IInv => WritersExclude
  <2> SUFFICES ASSUME IInv, NEW b \in Behavior, NEW x \in Behavior, NEW c \in Cown,
                      b # x, MayWrite(b, c), phase[x] \in {"running", "returned"}
               PROVE  access[x][c] = "none"
    BY DEF WritersExclude
  <2>1. phase[b] = "running" /\ access[b][c] = "write"
    <3>1. WritesRequested
      BY DEF IInv
    <3>2. phase[b] = "running" /\ regs[b][WRef(c)] > 0
      BY Zenon DEF MayWrite, WRef
    <3> QED
      BY <3>1, <3>2 DEF WritesRequested
  <2>2. waits[b] = {} /\ waits[x] = {} /\ Active(b) /\ Active(x)
    BY <2>1 DEF IInv, StartedFree, Started, Active
  <2>3. ~Excludes(access[b][c], access[x][c])
    BY <2>2 DEF IInv, Ordered
  <2> QED
    BY <2>1, <2>3 DEF Excludes
<1> QED
  BY <1>1, InvariantHolds, PTL

(* A behaviour that runs has its arguments' results: the behaviours that make them  *)
(* are done, so it never sees a cown that has not been written yet.                 *)
THEOREM ResultsAreDone == Spec => []ResultsDone
<1>1. IInv => ResultsDone
  <2> SUFFICES ASSUME IInv, NEW b \in Behavior, NEW c \in Cown,
                      Started(b), access[b][c] # "none", c # b
               PROVE  phase[c] = "done"
    BY DEF ResultsDone
  <2>1. Active(b) /\ waits[b] = {}
    BY DEF IInv, StartedFree, Started, Active
  <2> QED
    BY <2>1 DEF IInv, ResultOrdered
<1> QED
  BY <1>1, InvariantHolds, PTL

(* If no closure captures a reference, a content changes only in a behaviour that   *)
(* has the cown to write, or when the cown is destroyed: a store goes through a     *)
(* writable reference, a return writes the behaviour's own result.                  *)
THEOREM WritesAreGranted ==
  ASSUME "captured_ref" \notin Cases
  PROVE  Spec => OnlyHoldersWrite
<1> DEFINE Granted(c) == \/ \E b \in Behavior : phase[b] = "running" /\ access[b][c] = "write"
                         \/ c \in destroyed'
<1>1. ASSUME IInv, Next, NEW c \in Cown, content'[c] # content[c]
      PROVE  Granted(c)
  <2>1. ASSUME NEW b \in Behavior, NEW h \in Handle, NEW v \in Held(b) \cup {Object},
               Store(b, h, v)
        PROVE  Granted(c)
    <3>1. /\ h.kind = "ref" /\ ~h.readonly /\ regs[b][h] > 0
          /\ content' = [content EXCEPT ![h.cown] = v]
      BY <2>1 DEF Store
    <3>2. h.cown = c
      BY <1>1, <3>1 DEF IInv, Types
    <3>3. h = WRef(c)
      BY <3>1, <3>2 DEF Handle, WRef, CownRef
    <3> QED
      BY <1>1, <3>1, <3>3 DEF IInv, WritesRequested
  <2>2. ASSUME NEW b \in Behavior, NEW v, Return(b, v) PROVE Granted(c)
    <3>1. phase[b] = "running" /\ content' = [content EXCEPT ![b] = v]
      BY <2>2 DEF Return, Executes
    <3>2. b = c
      BY <1>1, <3>1 DEF IInv, Types
    <3> QED
      BY <1>1, <3>1, <3>2 DEF IInv, OwnResult, Active
  <2>3. ASSUME NEW b \in Behavior, NEW d \in Cown, Destroy(b, d) PROVE Granted(c)
    <3>1. content' = [content EXCEPT ![d] = Empty] /\ destroyed' = destroyed \cup {d}
      BY <2>3 DEF Destroy
    <3>2. d = c
      BY <1>1, <3>1 DEF IInv, Types
    <3> QED
      BY <3>1, <3>2
  <2>4. ASSUME NEW b \in Behavior, Executing(b) PROVE Granted(c)
    <3>1. ASSUME NEW h \in Values(b), Instruction(b, h) PROVE Granted(c)
      <4>1. h \in Handle
        BY DEF Values
      <4> QED
        BY <1>1, <2>1, <3>1, <4>1 DEF Instruction, Copy, Drop, Read, Load
    <3>2. ASSUME NEW new \in NextUnborn, NEW args \in SUBSET Held(b),
                 NEW captured \in SUBSET Capturable(b), When(b, new, args, captured)
          PROVE  Granted(c)
      BY <1>1, <3>2 DEF When
    <3> QED
      BY <2>4, <3>1, <3>2 DEF Executing
  <2>5. ASSUME NEW b \in Behavior, End(b) PROVE Granted(c)
    BY <2>2, <2>5 DEF End, Fail
  <2> QED
    BY <1>1, <2>3, <2>4, <2>5 DEF Next, Progress, Start, Finished, ProgramEnd
<1>2. IInv /\ [Next]_vars =>
        [\A c \in Cown : content'[c] # content[c] =>
           \/ \E b \in Behavior : phase[b] = "running" /\ access[b][c] = "write"
           \/ c \in destroyed']_vars
  BY <1>1
<1> QED
  BY <1>2, InvariantHolds, PTL DEF Spec, OnlyHoldersWrite

-------------------------------------------------------------------------------
(* No deadlock: behaviours that wait for each other's cowns never wait in a circle. *)

\* Wherever one looks among the behaviours, one of them waits for no other there.
NoCircle ==
  \A S \in SUBSET Behavior : S # {} => \E b \in S : waits[b] \cap S = {}

\* A behaviour waits for behaviours that still have to release their cowns.
WaitsForActive ==
  \A b \in Behavior : \A x \in waits[b] : Active(x)

WaitInv == IInv /\ NoCircle /\ WaitsForActive

\* The guards of what the scheduler's threads do: start a behaviour, end a body,
\* release the cowns, destroy a cown, or end the program.
SomethingToDo ==
  \/ \E b \in Behavior : phase[b] = "queued" /\ waits[b] = {}
  \/ \E b \in Behavior : Executes(b)
  \/ \E b \in Behavior : phase[b] = "returned" /\ pending[b] = {}
  \/ \E b \in Behavior : pending[b] # {}
  \/ \A b \in Behavior : phase[b] \in {"unborn", "done"} /\ pending[b] = {}

(* A new behaviour waits for others, and nobody waits for it yet. *)
LEMMA QueueingMakesNoCircle ==
  ASSUME NoCircle, NEW new \in Behavior, NEW W \in SUBSET Behavior, new \notin W,
         waits \in [Behavior -> SUBSET Behavior],
         \A b \in Behavior : new \notin waits[b],
         waits' = [waits EXCEPT ![new] = W]
  PROVE  NoCircle'
<1>1. ASSUME NEW S \in SUBSET Behavior, S # {}
      PROVE  \E b \in S : waits'[b] \cap S = {}
  <2>1. CASE S = {new}
    BY <2>1
  <2>2. CASE S # {new}
    <3>1. S \ {new} # {} /\ S \ {new} \in SUBSET Behavior
      BY <1>1, <2>2
    <3>2. PICK b \in S \ {new} : waits[b] \cap (S \ {new}) = {}
      BY <3>1 DEF NoCircle
    <3>3. waits'[b] = waits[b] /\ new \notin waits[b]
      BY <3>2
    <3> QED
      BY <3>2, <3>3
  <2> QED
    BY <2>1, <2>2
<1> QED
  BY <1>1 DEF NoCircle

(* Fewer to wait for make no circle, if those that are left are still active. *)
LEMMA ReleasingMakesNoCircle ==
  ASSUME WaitInv, \A b \in Behavior : waits'[b] \subseteq waits[b],
         \A b \in Behavior : \A x \in waits'[b] : Active(x)'
  PROVE  NoCircle' /\ WaitsForActive'
<1>1. ASSUME NEW S \in SUBSET Behavior, S # {}
      PROVE  \E b \in S : waits'[b] \cap S = {}
  <2>1. PICK b \in S : waits[b] \cap S = {}
    BY <1>1 DEF WaitInv, NoCircle
  <2> QED
    BY <2>1
<1> QED
  BY <1>1 DEF NoCircle, WaitsForActive

LEMMA WaitStep ==
  ASSUME WaitInv, IInv', Next
  PROVE  NoCircle' /\ WaitsForActive'
<1>1. waits \in [Behavior -> SUBSET Behavior] /\ phase \in [Behavior -> Phases]
  BY DEF WaitInv, IInv, Types
<1>2. ASSUME UNCHANGED waits, \A x \in Behavior : Active(x) => Active(x)'
      PROVE  NoCircle' /\ WaitsForActive'
  <2>1. \A b \in Behavior : waits'[b] \subseteq waits[b]
    BY <1>2
  <2>2. ASSUME NEW b \in Behavior, NEW x \in waits'[b] PROVE Active(x)'
    BY <1>1, <1>2, <2>2 DEF WaitInv, WaitsForActive
  <2> QED
    BY <2>1, <2>2, ReleasingMakesNoCircle
<1>3. ASSUME NEW b \in Behavior, NEW new \in NextUnborn, NEW args \in SUBSET Held(b),
             NEW captured \in SUBSET Capturable(b), When(b, new, args, captured)
      PROVE  NoCircle' /\ WaitsForActive'
  <2> DEFINE W == {x \in Behavior :
                     /\ Active(x)
                     /\ \E c \in Cown : Excludes(access[x][c], Requests(new, args)[c])}
  <2>1. /\ phase[new] = "unborn" /\ phase' = [phase EXCEPT ![new] = "queued"]
        /\ waits' = [waits EXCEPT ![new] = W]
    BY <1>3 DEF When
  <2>2. new \in Behavior
    BY <1>3 DEF NextUnborn
  <2>3. ~Active(new) /\ \A x \in Behavior : Active(x) => Active(x)'
    BY <1>1, <2>1 DEF Active
  <2>4. new \notin W /\ W \in SUBSET Behavior /\ \A x \in W : Active(x)
    BY <2>3
  <2> HIDE DEF W
  <2>5. \A x \in Behavior : new \notin waits[x]
    BY <2>3 DEF WaitInv, WaitsForActive
  <2>6. NoCircle'
    BY <1>1, <2>1, <2>2, <2>4, <2>5, QueueingMakesNoCircle DEF WaitInv
  <2>7. ASSUME NEW x \in Behavior, NEW y \in waits'[x] PROVE Active(y)'
    BY <1>1, <2>1, <2>2, <2>3, <2>4, <2>7 DEF WaitInv, WaitsForActive
  <2> QED
    BY <2>6, <2>7 DEF WaitsForActive
<1>4. ASSUME NEW b \in Behavior, NEW h \in Values(b), Instruction(b, h)
      PROVE  NoCircle' /\ WaitsForActive'
  <2>1. UNCHANGED <<phase, waits>>
    BY <1>4 DEF Instruction, Copy, Drop, Read, Load, Store
  <2> QED
    BY <1>2, <2>1 DEF Active
<1>5. ASSUME NEW b \in Behavior, NEW v, Return(b, v)
      PROVE  NoCircle' /\ WaitsForActive'
  <2>1. phase[b] = "running" /\ phase' = [phase EXCEPT ![b] = "returned"] /\ UNCHANGED waits
    BY <1>5 DEF Return, Executes
  <2> QED
    BY <1>1, <1>2, <2>1 DEF Active
<1>6. ASSUME NEW b \in Behavior, Start(b)
      PROVE  NoCircle' /\ WaitsForActive'
  <2>1. phase[b] = "queued" /\ phase' = [phase EXCEPT ![b] = "running"] /\ UNCHANGED waits
    BY <1>6 DEF Start
  <2> QED
    BY <1>1, <1>2, <2>1 DEF Active
<1>7. ASSUME NEW b \in Behavior, Finished(b)
      PROVE  NoCircle' /\ WaitsForActive'
  <2>1. /\ phase' = [phase EXCEPT ![b] = "done"]
        /\ waits' = [x \in Behavior |-> waits[x] \ {b}]
    BY <1>7 DEF Finished
  <2>2. \A x \in Behavior : waits'[x] \subseteq waits[x] /\ b \notin waits'[x]
    BY <2>1
  <2>3. ASSUME NEW x \in Behavior, NEW y \in waits'[x] PROVE Active(y)'
    BY <1>1, <2>1, <2>2, <2>3 DEF WaitInv, WaitsForActive, Active
  <2> QED
    BY <2>2, <2>3, ReleasingMakesNoCircle
<1>8. ASSUME (\E b \in Behavior : \E c \in Cown : Destroy(b, c)) \/ ProgramEnd
      PROVE  NoCircle' /\ WaitsForActive'
  <2>1. UNCHANGED <<phase, waits>>
    BY <1>8 DEF Destroy, ProgramEnd
  <2> QED
    BY <1>2, <2>1 DEF Active
<1> QED
  BY <1>3, <1>4, <1>5, <1>6, <1>7, <1>8 DEF Next, Progress, Executing, End, Fail

(* Requests, their order and who waits, in every reachable state. *)
LEMMA WaitInvHolds == Spec => []WaitInv
<1>1. Init => WaitInv
  <2>1. ASSUME Init PROVE NoCircle /\ WaitsForActive
    BY <2>1 DEF Init, NoCircle, WaitsForActive
  <2> QED
    BY <2>1, InitInv DEF WaitInv
<1>2. WaitInv /\ [Next]_vars => WaitInv'
  <2>1. ASSUME WaitInv, UNCHANGED vars PROVE NoCircle' /\ WaitsForActive'
    BY <2>1 DEF WaitInv, NoCircle, WaitsForActive, Active, vars
  <2>2. WaitInv /\ [Next]_vars => IInv'
    BY NextInv DEF WaitInv
  <2> QED
    BY <2>1, <2>2, WaitStep DEF WaitInv
<1> QED
  BY <1>1, <1>2, PTL DEF Spec

(* Behaviours never wait in a circle, whatever cowns they ask for in whatever order: *)
(* all requests of a behaviour are queued at once (queue_behavior).                  *)
THEOREM NobodyWaitsInCircle == Spec => []NoCircle
<1>1. WaitInv => NoCircle
  BY DEF WaitInv
<1> QED
  BY <1>1, WaitInvHolds, PTL

(* No deadlock: until the program has ended, the scheduler's threads always have     *)
(* something to do. If behaviours are left, one of them waits for none that is left, *)
(* so it can start, end its body, destroy what it let go of, or release its cowns.   *)
THEOREM NoDeadlock == Spec => []SomethingToDo
<1>1. ASSUME WaitInv PROVE SomethingToDo
  <2> DEFINE S == {b \in Behavior : Active(b)}
  <2>1. phase \in [Behavior -> Phases]
    BY <1>1 DEF WaitInv, IInv, Types
  <2>2. CASE \E b \in Behavior : pending[b] # {}
    BY <2>2 DEF SomethingToDo
  <2>3. CASE S = {} /\ \A b \in Behavior : pending[b] = {}
    <3>1. \A b \in Behavior : phase[b] \in {"unborn", "done"}
      BY <2>1, <2>3 DEF Active, Phases
    <3> QED
      BY <2>3, <3>1 DEF SomethingToDo
  <2>4. CASE S # {} /\ \A b \in Behavior : pending[b] = {}
    <3>1. PICK b \in S : waits[b] \cap S = {}
      BY <1>1, <2>4 DEF WaitInv, NoCircle
    <3>2. waits[b] = {}
      BY <1>1, <3>1 DEF WaitInv, WaitsForActive, IInv, Types
    <3>3. phase[b] \in {"queued", "running", "returned"}
      BY <3>1 DEF Active
    <3> QED
      BY <2>4, <3>1, <3>2, <3>3 DEF SomethingToDo, Executes
  <2> QED
    BY <2>2, <2>3, <2>4
<1> QED
  BY <1>1, WaitInvHolds, PTL
===============================================================================
