CONSTANTS
  Obj = {o1, o2, o3}
  Region = {r1, r2}
  Reg = {x1, x2}
  Cown = {c1}
  Slots = 1
  MaxDepth = 2
  Cases = {"fresh_freed"}
  Nil = Nil
  Unborn = Unborn
  Gone = Gone
  NoOwner = NoOwner
  CownOwner = CownOwner
  None = None
SPECIFICATION Spec
SYMMETRY Symmetry
INVARIANT AssertsHold
CHECK_DEADLOCK FALSE
