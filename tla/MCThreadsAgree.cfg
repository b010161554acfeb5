CONSTANTS
  Sub <- MCSub
  Roots <- MCRoots
  Point <- MCPoint
  LpPoint <- MCLpPoint
  NoPoint <- NoPt
  Cost <- MCCost
  PointsIn <- MCPointsIn
  Verdicts <- MCVerdicts
  Branchings <- MCBranchings
  Tightenings <- MCTightenings
  NoPt = NoPt
  Problems = {5}
  Infeasibles = {}
  WithFailures = FALSE
  Sense <- MCSense
  Maximising = FALSE
  Inf = 1000
  AbsGap = 1
  RelNum = 1
  RelDen = 20
  Scale = 2
  MaxNodes = 4
  ImproveEps = 1
  HeuristicPeriod = 2
  Worker = {0, 1}
  Node <- MCNode
  Families = {}
  Cutoffs = {}
SPECIFICATION Spec
CHECK_DEADLOCK FALSE
INVARIANTS ThreadsAgree
