----------------------------- MODULE BestBound -----------------------------
(***************************************************************************)
(* The order of open nodes, NodeCompareBestBound: a node is a record with  *)
(* the fields lb (lower_bound) and depth.  Nodes that compare equal may    *)
(* leave a heap in any order.                                              *)
(***************************************************************************)
EXTENDS Integers

\* Smallest bound first, deeper first among equals.
Before(m, n) == m.lb < n.lb \/ (m.lb = n.lb /\ m.depth > n.depth)
IsTop(n, Q) == n \in Q /\ \A m \in Q : ~Before(m, n)
=============================================================================
