CONSTANTS
  Cases <- MCCases
  Build <- MCBuild
  Inputs <- MCInputs
SPECIFICATION Spec
INVARIANTS
  SameMeaning
  SaysWhatItSays
  NoEmptyRead
  TypedRunsClean
  SlotsInOrder
  EveryFileLoads
