CONSTANTS
  Sub <- MCSub
  Roots <- MCRoots
  Point <- MCPoint
  LpPoint <- MCLpPoint
  NoPoint <- NoPt
  Cost <- MCCost
  PointsIn <- MCPointsIn
  Verdicts <- MCVerdicts
  Branchings <- MCBranchings
  Tightenings <- MCTightenings
  NoPt = NoPt
  Problems = {1, 2, 3}
  Infeasibles = {2}
  WithFailures = TRUE
  Sense <- MCSense
  Maximising = FALSE
  Inf = 1000
  AbsGap = 1
  RelNum = 1
  RelDen = 20
  Scale = 2
  MaxNodes = 6
  ImproveEps = 0
  RoundingPeriod = 2
SPECIFICATION Spec
INVARIANTS TypeOK OptimalIsOptimal InfeasibleIsProven BoundIsValid SearchInv
PROPERTIES Implements Terminates
CHECK_DEADLOCK FALSE
