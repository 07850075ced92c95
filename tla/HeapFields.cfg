CONSTANTS
  Obj = {o1, o2, o3}
  Region = {r1, r2}
  Reg = {x1, x2}
  Cown = {}
  Slots = 2
  MaxDepth = 1
  Cases = {}
  Nil = Nil
  Unborn = Unborn
  Gone = Gone
  NoOwner = NoOwner
  CownOwner = CownOwner
  None = None
SPECIFICATION Spec
SYMMETRY Symmetry
INVARIANTS
  SingleEntry
CHECK_DEADLOCK FALSE
