CONSTANTS
  Behavior = {main, b1, b2, b3}
  Main = main
  Empty = Empty
  Object = Object
  Error = Error
  MaxRegs = 2
  Cases = {}
SPECIFICATION FairSpec
INVARIANTS
  TypeOK
  CownRcExact
  DestroyedExactly
  WritersExclude
  ResultBeforeUse
CHECK_DEADLOCK FALSE
PROPERTIES
  OnlyHoldersWrite
  ProgramEnds
