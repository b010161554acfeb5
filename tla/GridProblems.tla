--------------------------- MODULE GridProblems ----------------------------
(***************************************************************************)
(* Small integer programs the searches are checked on: two variables in    *)
(* 0..2, with the relaxation taken over the half-integral points.  The     *)
(* definitions give values to the constants of SearchSpace.                *)
(***************************************************************************)
EXTENDS Integers, FiniteSets
CONSTANTS
  Problems,      \* the problems posed, numbers of 1..5
  Infeasibles,   \* those posed in the box 0..1 too, where 2 is soon infeasible
  NoPt,          \* the empty primal vector
  WithFailures,  \* whether a relaxation may fail
  Maximising     \* whether the problems are stated as maximisations

MCSense == IF Maximising THEN -1 ELSE 1

B == INSTANCE Branching WITH Var <- {1, 2}, Grid <- 2

Box == {<<l1, h1, l2, h2>> \in (0..2) \X (0..2) \X (0..2) \X (0..2) : l1 <= h1 /\ l2 <= h2}
GridPoint == (0..4) \X (0..4)

\* Rows of problem p at the half-integral point g (in half units).
Rows(p, g) ==
  CASE p = 1 -> g[1] + g[2] <= 5 /\ 2 * g[1] + g[2] <= 7
    [] p = 2 -> g[1] + g[2] = 3
    [] p = 3 -> g[1] + 2 * g[2] <= 7 /\ g[1] - g[2] <= 1
    [] p = 4 -> 2 * g[1] + 3 * g[2] <= 7 /\ 3 * g[1] + 2 * g[2] <= 8
    [] p = 5 -> g[2] - 2 * g[1] <= 0 /\ 2 * g[1] + g[2] <= 5
\* The objective to minimise; a problem to maximise states its negation.
Objective(p, g) ==
  CASE p = 1 -> -(3 * g[1] + 2 * g[2])
    [] p = 2 -> g[1] - g[2]
    [] p = 3 -> -(2 * g[1] + g[2])
    [] p = 4 -> -(3 * g[1] + 2 * g[2])
    [] p = 5 -> -(2 * g[1] + 3 * g[2])
\* A valid cut of the problem (every integer point satisfies it).
CutRow(p, g) ==
  CASE p = 1 -> g[1] + g[2] <= 4
    [] p = 2 -> TRUE
    [] p = 3 -> g[1] + g[2] <= 4
    [] p = 4 -> g[1] + g[2] <= 2
    [] p = 5 -> TRUE

InBox(g, b) == /\ 2 * b[1] <= g[1] /\ g[1] <= 2 * b[2]
               /\ 2 * b[3] <= g[2] /\ g[2] <= 2 * b[4]
Feasible(p, b) == {g \in GridPoint : InBox(g, b) /\ Rows(p, g)}
IntegralPoint(g) == g[1] % 2 = 0 /\ g[2] % 2 = 0

MCSub == {<<p, b>> : p \in Problems, b \in Box}
MCRoots == {<<p, <<0, 2, 0, 2>>>> : p \in Problems}
             \union {<<p, <<0, 1, 0, 1>>>> : p \in Infeasibles}
MCPoint == {x \in Problems \X GridPoint : Rows(x[1], x[2]) /\ IntegralPoint(x[2])}
MCCost == [x \in MCPoint |-> MCSense * Objective(x[1], x[2])]
MCPointsIn == [s \in MCSub |-> {x \in MCPoint : x[1] = s[1] /\ InBox(x[2], s[2])}]

\* The optimal points of the relaxation S of problem p, one of them chosen.
Solution(p, S) ==
  IF S = {} THEN [status |-> "infeasible", obj |-> 0, x |-> NoPt]
  ELSE LET g == CHOOSE g \in S : \A h \in S : Objective(p, g) <= Objective(p, h)
       IN  [status |-> "optimal", obj |-> MCSense * Objective(p, g), x |-> <<p, g>>]
Failure == [status |-> "failed", obj |-> 0, x |-> NoPt]
Relaxations(s) ==
  LET S == Feasible(s[1], s[2])
  IN  {Solution(s[1], S), Solution(s[1], {g \in S : CutRow(s[1], g)})}
Solutions == UNION {Relaxations(s) : s \in MCSub}
MCLpPoint == MCPoint \union {v.x : v \in {w \in Solutions : w.status = "optimal"}}
MCVerdicts == [s \in MCSub |-> Relaxations(s) \union {v \in {Failure} : WithFailures}]

AsBounds(b) ==
  [v \in {1, 2} |-> [lo |-> B!Finite(2 * b[2 * v - 1]), hi |-> B!Finite(2 * b[2 * v])]]
AsBox(b) ==
  <<b[1].lo.value \div 2, b[1].hi.value \div 2, b[2].lo.value \div 2, b[2].hi.value \div 2>>
Within(s, bounds) == <<s[1], AsBox(bounds)>>

BranchingSets(s, x) ==
  IF x[1] # s[1] THEN {}
  ELSE {{Within(s, c) : c \in B!Children(AsBounds(s[2]), v, x[2])} : v \in B!FractionalVars(x[2])}
MCBranchings == [s \in MCSub |-> [x \in MCLpPoint |-> BranchingSets(s, x)]]

\* The bounds whose relaxation has no point.
Proven == [p \in Problems |-> {AsBounds(b) : b \in {c \in Box : Feasible(p, c) = {}}}]
Tightened(s, x) ==
  LET b == AsBounds(s[2])
  IN  IF x[1] # s[1] \/ B!SubproblemInfeasible(b, x[2], Proven[s[1]]) THEN {}
      ELSE {Within(s, B!Reduced(b, x[2], Proven[s[1]]))}
MCTightenings == [s \in MCSub |-> [x \in MCLpPoint |-> Tightened(s, x)]]
=============================================================================
