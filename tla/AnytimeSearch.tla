--------------------------- MODULE AnytimeSearch ---------------------------
(***************************************************************************)
(* What a tree search promises its caller, whatever its strategy: a best   *)
(* known point that only ever gets better, and in the end one answer that  *)
(* is justified by the problem.  A step may be excused from justifying the *)
(* conclusion (excused); BranchAndCut never is.                            *)
(***************************************************************************)
EXTENDS SearchSpace

VARIABLES root, incumbent, answer, excused

Better(p, q) == q = NoPoint \/ Cost[p] < Cost[q]

Init ==
  /\ root \in Roots
  /\ incumbent = NoPoint
  /\ answer = "none"

Improve ==
  /\ answer = "none"
  /\ \E p \in PointsIn[root] : Better(p, incumbent) /\ incumbent' = p
  /\ UNCHANGED <<root, answer>>

Justified(a, p) ==
  CASE a = "optimal" -> p # NoPoint /\ \A q \in PointsIn[root] : WithinTolerance(Cost[p], q)
    [] a = "infeasible" -> PointsIn[root] = {}
    [] OTHER -> a \in {"failed", "resource_limit"}

\* The answer comes with the incumbent, or with a point the last step found.
Conclude ==
  /\ answer = "none"
  /\ \E p \in PointsIn[root] \union {incumbent} :
       /\ p = incumbent \/ incumbent = NoPoint
       /\ incumbent' = p
       /\ \E a \in {"optimal", "infeasible", "failed", "resource_limit"} :
            /\ answer' = a
            /\ excused \/ Justified(a, p)
  /\ UNCHANGED root

Next == Improve \/ Conclude

Spec == Init /\ [][Next]_<<root, incumbent, answer>>
=============================================================================
