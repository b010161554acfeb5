CONSTANTS
  Var <- MCVar
  Grid = 2
  Root <- MCRoot
  LpVector <- MCLpVector
  Feasible <- MCFeasible
SPECIFICATION TreeSpec
INVARIANTS Partition NeverAgain
CHECK_DEADLOCK FALSE
