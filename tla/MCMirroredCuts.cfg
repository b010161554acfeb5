CONSTANTS
  IterationLimit = 40
  Bland = TRUE
  AllowColdFallback = TRUE
  Programs <- UnboundedBelow
  MaxCuts = 2
  EnableMir = TRUE
  Box <- Values
  Halves = 2
SPECIFICATION CutSpec
INVARIANTS CutsAreGlobal
CHECK_DEADLOCK FALSE
