CONSTANTS
  Obj = {o1, o2, o3}
  Region = {r1, r2}
  Reg = {x1, x2}
  Cown = {c1}
  Slots = 1
  MaxDepth = 2
  Cases = {}
  Nil = Nil
  Unborn = Unborn
  Gone = Gone
  NoOwner = NoOwner
  CownOwner = CownOwner
  None = None
SPECIFICATION Spec
SYMMETRY Symmetry
INVARIANTS
  TypeOK
  AssertsHold
  NoDangling
  StackRcExact
  ObjectRcSound
  SingleEntry
  OwnerMatchesEntry
  NoEscape
  SentIsIsolated
  NothingLeaks
CHECK_DEADLOCK FALSE
