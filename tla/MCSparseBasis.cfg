CONSTANTS
  N = 2
  P = 3
  Options <- Limits
SPECIFICATION Spec
INVARIANTS SolvesExactly ChainBounded
PROPERTY Transactional
