----------------------------- MODULE AdmmSolver -----------------------------
(***************************************************************************)
(* AdmmQpSolver::solve: the operator splitting method for quadratic        *)
(* programs.  What the linear system, the relaxation and rounding make of  *)
(* the iterates is left open: an iteration may bring any point and any     *)
(* argument of the projection.  The projection, the update of the          *)
(* multipliers, the tests that end the loop and their order are the code's.*)
(***************************************************************************)
EXTENDS QuadraticModel

CONSTANTS
  QpIterations,                 \* max_iterations
  CheckEvery, RescaleEvery,     \* iterations between certificate tests (10) and changes of rho (25)
  InitialPenalty, Penalties,    \* rho_init, and the values rho may be changed to
  Iterates, Arguments,          \* the values an iterate and a projected argument may have
  Quadratics                    \* the models that may be given
ASSUME AdmmConstants ==
  /\ QpIterations \in Nat /\ CheckEvery \in Nat \ {0} /\ RescaleEvery \in Nat \ {0}
  /\ InitialPenalty \in Nat \ {0} /\ Penalties \subseteq Nat \ {0}
  /\ Iterates \subseteq Int /\ Arguments \subseteq Int
  /\ \A m \in Quadratics : \A r \in m.rows : Bounds(m.lo[r], m.up[r])

VARIABLES
  qp,              \* the model
  qpStage,         \* "idle", "iterating", "thrown" or "done"
  iter, rho,
  factorized,      \* KktSolver::factorized_
  qx, qz, qy,      \* x, z, y
  solution         \* QpSolution
iterateVars == <<iter, rho, factorized, qx, qz, qy>>
qpVars == <<qp, qpStage, iterateVars, solution>>

NoSolution == [status |-> "none", x |-> <<>>, y |-> <<>>, value |-> 0]
AdmmIdle ==
  /\ qp = <<>> /\ qpStage = "idle"
  /\ iter = 0 /\ rho = InitialPenalty /\ factorized = FALSE
  /\ qx = <<>> /\ qz = <<>> /\ qy = <<>> /\ solution = NoSolution

\* project_bound
ProjectedBelow(v, lo, up) == IF lo.finite /\ v < lo.value THEN lo.value ELSE v
Projected(v, lo, up) ==
  IF lo.finite /\ v < lo.value THEN lo.value
  ELSE IF up.finite /\ v > up.value THEN up.value ELSE v

-----------------------------------------------------------------------------
AdmmEnds(status, x, y, value) ==
  /\ qpStage' = "done"
  /\ solution' = [status |-> status, x |-> x, y |-> y, value |-> value]
  /\ qx' = <<>> /\ qz' = <<>> /\ qy' = <<>>
  /\ UNCHANGED <<iter, rho, factorized>>

AdmmStart(m) ==
  /\ qpStage = "idle" /\ qp' = m
  /\ \/ ~ CheckConvexity(m) /\ AdmmEnds("non_convex", <<>>, <<>>, 0)
     \/ CheckConvexity(m) /\ m.vars = {} /\ AdmmEnds("optimal", <<>>, <<>>, 2 * m.grid * m.offset)
     \/ CheckConvexity(m) /\ m.vars # {} /\ AdmmEnds("numerical_error", <<>>, <<>>, 0)
     \/ /\ CheckConvexity(m) /\ m.vars # {}
        /\ qpStage' = "iterating" /\ factorized' = TRUE
        /\ qx' = [j \in m.vars |-> 0]
        /\ qz' = [r \in m.rows |-> Projected(0, m.lo[r], m.up[r])]
        /\ qy' = [r \in m.rows |-> 0]
        /\ UNCHANGED <<iter, rho, solution>>

-----------------------------------------------------------------------------
\* The certificates, on the changes of the multipliers and of the point.
Blocked(m, dy) ==
  \E r \in m.rows : (dy[r] > 0 /\ ~ m.up[r].finite) \/ (dy[r] < 0 /\ ~ m.lo[r].finite)
Support(m, dy) ==
  Total([r \in m.rows |-> dy[r] * (IF dy[r] > 0 THEN m.up[r].value ELSE m.lo[r].value)], m.rows)
ProvesInfeasible(m, dy) ==
  /\ \E r \in m.rows : dy[r] # 0
  /\ \A j \in m.vars : ColumnOf(m, j, dy) = 0
  /\ ~ Blocked(m, dy) /\ Support(m, dy) < 0

ProvesUnbounded(m, dx) ==
  /\ \E j \in m.vars : dx[j] # 0
  /\ \A j \in m.vars : Curvature(m, j, dx) = 0
  /\ Linear(m, dx) < 0
  /\ \A r \in m.rows : /\ RowOf(m, r, dx) > 0 => ~ m.up[r].finite
                       /\ RowOf(m, r, dx) < 0 => ~ m.lo[r].finite

\* One iteration, to the point x and with the argument g of the projection.
Change(new, old) == [k \in DOMAIN new |-> new[k] - old[k]]
Outcome(x, z, y) ==
  IF (\A r \in qp.rows : RowOf(qp, r, x) = z[r]) /\ Stationary(qp, x, y) THEN "optimal"
  ELSE IF iter % CheckEvery # 0 THEN "open"
  ELSE IF ProvesInfeasible(qp, Change(y, qy)) THEN "primal_infeasible"
  ELSE IF ProvesUnbounded(qp, Change(x, qx)) THEN "dual_infeasible" ELSE "open"

\* A changed rho has the system factorised again; nobody looks whether it was.
Rescale ==
  \/ UNCHANGED <<rho, factorized>>
  \/ /\ iter > 0 /\ iter % RescaleEvery = 0
     /\ rho' \in Penalties /\ factorized' \in BOOLEAN

Concluded(x, z, y) ==
  \/ /\ Outcome(x, z, y) # "open"
     /\ AdmmEnds(Outcome(x, z, y), x, y, ValueOf(qp, x))
  \/ /\ Outcome(x, z, y) = "open"
     /\ qx' = x /\ qz' = z /\ qy' = y /\ iter' = iter + 1
     /\ Rescale /\ UNCHANGED <<qpStage, solution>>

Split ==
  /\ qpStage = "iterating" /\ iter < QpIterations /\ factorized
  /\ \E x \in [qp.vars -> Iterates], g \in [qp.rows -> Arguments] :
       LET z == [r \in qp.rows |-> Projected(g[r], qp.lo[r], qp.up[r])]
       IN  Concluded(x, z, [r \in qp.rows |-> rho * (g[r] - z[r])])
  /\ UNCHANGED qp

\* A solve with a system that could not be factorised again throws.
SolveThrows ==
  /\ qpStage = "iterating" /\ iter < QpIterations /\ ~ factorized
  /\ qpStage' = "thrown" /\ UNCHANGED <<qp, iterateVars, solution>>

LoopEnds ==
  /\ qpStage = "iterating"
  /\ \/ iter < QpIterations /\ AdmmEnds("time_limit", qx, qy, ValueOf(qp, qx))
     \/ iter = QpIterations /\ AdmmEnds("iteration_limit", qx, qy, ValueOf(qp, qx))
  /\ UNCHANGED qp

AdmmStep == Split \/ SolveThrows \/ LoopEnds

AdmmNext == AdmmStep \/ \E m \in Quadratics : AdmmStart(m)
AdmmSpec == AdmmIdle /\ [][AdmmNext]_qpVars

-----------------------------------------------------------------------------
\* Multipliers y for rows with the values z: one that pushes down needs a row
\* at its upper bound, one that pushes up a row at its lower bound.
InNormalCone(m, z, y) ==
  \A r \in m.rows : /\ Within(z[r], m.lo[r], m.up[r])
                    /\ y[r] > 0 => m.up[r].finite /\ z[r] = m.up[r].value
                    /\ y[r] < 0 => m.lo[r].finite /\ z[r] = m.lo[r].value

(***************************************************************************)
(* Complementary slackness: whatever the linear system returns, and        *)
(* however rho changes, the multipliers fit the projected rows, and those  *)
(* of an answer called optimal fit the rows at its point.  The verifier    *)
(* relies on it, as it tests neither their signs nor their products.       *)
(***************************************************************************)
ComplementarySlackness ==
  /\ qpStage = "iterating" => InNormalCone(qp, qz, qy)
  /\ solution.status = "optimal" /\ qp.vars # {} =>
       InNormalCone(qp, [r \in qp.rows |-> RowOf(qp, r, solution.x)], solution.y)
=============================================================================
