CONSTANTS
  Behavior = {main, b1, b2}
  Main = main
  Empty = Empty
  Object = Object
  Error = Error
  MaxRegs = 2
  Cases = {}
SPECIFICATION Spec
INVARIANT ReadersDoNotWrite
CHECK_DEADLOCK FALSE
