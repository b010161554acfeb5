-------------------------- MODULE MCBranchAndCut ---------------------------
EXTENDS BranchAndCut, GridProblems
=============================================================================
