SPECIFICATION Spec
CONSTANTS
  Objects = {o1, o2}
  o1 = o1
  o2 = o2
  Finalized = {o1}
  Stacked = {o1}
  Functions <- MCFunctions
  Called <- MCCalled
  Registers <- MCRegisters
  Params <- MCParams
  MaxFrames = 2
  MaxHeld = 2
  Slots = 12
  Cases = {}
INVARIANTS
  CallRefsExact
  NoStaleRegister
  NothingBehind
  FinalizedOnce
  CallAsserts
  RunsNest
CHECK_DEADLOCK FALSE
