CONSTANTS
  Sub <- MCSub
  Roots <- MCRoots
  Point <- MCPoint
  LpPoint <- MCLpPoint
  NoPoint <- NoPt
  Cost <- MCCost
  PointsIn <- MCPointsIn
  Verdicts <- MCVerdicts
  Branchings <- MCBranchings
  Tightenings <- MCTightenings
  NoPt = NoPt
  Problems = {2, 4, 5}
  Infeasibles = {2}
  WithFailures = TRUE
  Sense <- MCSense
  Maximising = FALSE
  Inf = 1000
  AbsGap = 2
  RelNum = 1
  RelDen = 20
  Scale = 2
  MaxNodes = 4
  ImproveEps = 2
  HeuristicPeriod = 2
  Worker = {0, 1}
  Node <- MCNode
  Families = {}
  Cutoffs = {}
SPECIFICATION Spec
CHECK_DEADLOCK FALSE
INVARIANTS TypeOK OptimalUnlessLost InfeasibleUnlessLost BoundUnlessLost Covered DropsAreExcused IncumbentAgrees NodeLimitKept ActiveCount DrainedIsIdle
PROPERTIES WaitHasReason Implements Terminates
