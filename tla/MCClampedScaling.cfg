CONSTANTS
  MaxPasses = 5
  IterationLimit = 3
  Bland = TRUE
  AllowColdFallback = TRUE
  MinScale = 1
  MaxScale = 1
  RowScales <- RowFactors
  ColScales <- ColFactors
  Commands <- MCCommands
  Claims <- Answers
  QpIterations = 3
  CheckEvery = 2
  RescaleEvery = 1
  InitialPenalty = 1
  Penalties = {2}
  Iterates <- QpValues
  Arguments <- QpArguments
  Quadratics <- MCQuadratics
  Points <- Grid
  Directions <- Rays
SPECIFICATION Spec
INVARIANTS VerifiedInfeasibleIsTrue
CHECK_DEADLOCK FALSE
