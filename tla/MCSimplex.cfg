CONSTANTS
  IterationLimit = 40
  Bland = TRUE
  AllowColdFallback = TRUE
  Programs <- GivenPrograms
  MaxCuts = 2
  EnableMir = TRUE
  Box <- Values
  Halves = 2
SPECIFICATION Spec
INVARIANTS KeepsPrimalFeasible NeverCycles WitnessAccepted KeepsDualFeasible CutsAreGlobal RootBoundIsValid
CHECK_DEADLOCK FALSE
