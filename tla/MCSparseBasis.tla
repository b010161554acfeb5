--------------------------- MODULE MCSparseBasis ---------------------------
EXTENDS SparseBasis
\* Limits that let chains grow, limits an eta is soon too dense for, and
\* limits the factor and the basis can overrun.
Limits == {[maxUpdates |-> 2, denseAbove |-> 2, maxFill |-> 4, maxNonzeros |-> 4],
           [maxUpdates |-> 2, denseAbove |-> 1, maxFill |-> 3, maxNonzeros |-> 3]}
============================================================================
