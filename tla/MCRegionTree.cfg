CONSTANTS
  Region = {r1, r2, r3}
  NoOwner = NoOwner
  CownOwner = CownOwner
  None = None
  MaxHeld = 2
SPECIFICATION FairSpec
INVARIANTS
  TypeOK
  StackRcExact
  FreedExactly
  ParentsExist
  ParentForest
  AssertsHold
  CountCoversTree
PROPERTIES
  ImplementsOwnership
  OperationsReturn
  UnreachableReclaimed
CHECK_DEADLOCK FALSE
