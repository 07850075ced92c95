CONSTANTS
  Cases <- SwapCases
  Build <- MCBuild
  Inputs <- MCInputs
SPECIFICATION Spec
INVARIANTS
  SameMeaning
