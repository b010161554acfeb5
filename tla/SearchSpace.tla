---------------------------- MODULE SearchSpace ----------------------------
(***************************************************************************)
(* What the two MILP tree searches of src/src/milp see of a problem: the   *)
(* subproblems a node's bounds describe, the integer points in them, the   *)
(* answers a node relaxation may give and the children branching creates.  *)
(* Objective values are integers in units of 1/Scale; the floating-point   *)
(* infinity of the code is the constant Inf.                               *)
(***************************************************************************)
EXTENDS Integers, FiniteSets

CONSTANTS
  Sub,         \* subproblems: bound vectors of BranchNode
  Roots,       \* the problems posed, as subproblems
  Point,       \* integer-feasible points of any of them
  LpPoint,     \* primal vectors a relaxation may return (integral ones are in Point)
  NoPoint,     \* the empty primal vector
  Cost,        \* objective of a point
  PointsIn,    \* the integer-feasible points of a subproblem
  Verdicts,    \* the NodeLpResults solving a subproblem's relaxation may return
  Branchings,  \* [s][x]: the sets of children branching on a fractional x may create
  Tightenings, \* [s][x]: the bounds strong branching may leave of s
  Sense,       \* 1 for a minimisation, -1 for a maximisation
  Inf,         \* std::numeric_limits<double>::infinity()
  AbsGap,      \* absolute_gap_tolerance
  RelNum,      \* relative_gap_tolerance = RelNum / RelDen
  RelDen,
  Scale,       \* the objective value 1.0 in model units
  MaxNodes     \* max_nodes

LpStatus == {"optimal", "infeasible", "failed"}

\* NodeLpResult: "failed" stands for iteration_limit, numerical_failure and
\* every other status the searches treat as neither optimal nor infeasible.
Verdict == [status : LpStatus, obj : Int, x : LpPoint \union {NoPoint}]

Abs(z) == IF z < 0 THEN -z ELSE z
MinOf(a, b) == IF b < a THEN b ELSE a
MaxOf(a, b) == IF a < b THEN b ELSE a

ASSUME SpaceTypes ==
  /\ Roots \subseteq Sub /\ Roots # {}
  /\ Point \subseteq LpPoint /\ NoPoint \notin LpPoint
  /\ Cost \in [Point -> Int]
  /\ PointsIn \in [Sub -> SUBSET Point]
  /\ Verdicts \in [Sub -> SUBSET Verdict]
  /\ Branchings \in [Sub -> [LpPoint -> SUBSET SUBSET Sub]]
  /\ Tightenings \in [Sub -> [LpPoint -> SUBSET Sub]]
  /\ \A s \in Sub : Verdicts[s] # {}

ASSUME ToleranceTypes ==
  /\ Sense \in {1, -1}
  /\ Inf \in Nat /\ AbsGap \in Nat /\ RelNum \in Nat
  /\ RelDen \in Nat \ {0} /\ Scale \in Nat \ {0} /\ MaxNodes \in Nat

\* Every objective value is finite: smaller than infinity less a tolerance.
ASSUME FiniteValues ==
  /\ \A q \in Point : Cost[q] < Inf - AbsGap
  /\ \A s \in Sub : \A v \in Verdicts[s] :
       v.status = "optimal" => v.obj < Inf - AbsGap

(***************************************************************************)
(* The contract of a node relaxation and of branching, which the searches  *)
(* rely on: an infeasible relaxation has no integer point, an optimal one  *)
(* bounds them all, an integral optimum is one of them, and neither        *)
(* branching nor a domain reduction loses an integer point.                *)
(***************************************************************************)
ASSUME RelaxationContract ==
  \A s \in Sub : \A v \in Verdicts[s] :
    /\ v.status = "infeasible" => PointsIn[s] = {}
    /\ v.status = "optimal" =>
         /\ v.x \in LpPoint
         /\ \A q \in PointsIn[s] : Sense * v.obj <= Sense * Cost[q]
         /\ v.x \in Point => v.x \in PointsIn[s] /\ Cost[v.x] = v.obj

\* Whichever variable is chosen, the children of s cover its integer points.
Covers(s, x) == \A K \in Branchings[s][x] : PointsIn[s] = UNION {PointsIn[k] : k \in K}

ASSUME BranchingContract ==
  \A s \in Sub : \A v \in Verdicts[s] :
    (v.status = "optimal" /\ v.x \notin Point) =>
      /\ Branchings[s][v.x] # {} /\ Covers(s, v.x)
      /\ \A t \in Tightenings[s][v.x] :
           /\ PointsIn[t] = PointsIn[s]
           /\ Branchings[t][v.x] # {} /\ Covers(t, v.x)

(***************************************************************************)
(* std::abs(incumbent - bound) / std::max(1.0, std::abs(incumbent)) is at  *)
(* most the relative gap tolerance.                                        *)
(***************************************************************************)
GapClosed(incumbent, bound) ==
  Abs(incumbent - bound) * RelDen <= RelNum * MaxOf(Scale, Abs(incumbent))

\* An objective value answered as optimal may exceed that of a point by one of
\* the two gap tolerances and no more.
WithinTolerance(obj, q) ==
  LET excess == Sense * (obj - Cost[q])
  IN  excess <= AbsGap \/ excess * RelDen <= RelNum * MaxOf(Scale, Abs(obj))

\* A child LP found infeasible by strong branching, or a child whose bounds cross.
SomeProvenEmpty(K) ==
  \E k \in K : \E v \in Verdicts[k] : v.status = "infeasible"
ProvenEmpty(K) ==
  \A k \in K : \E v \in Verdicts[k] : v.status = "infeasible"
=============================================================================
