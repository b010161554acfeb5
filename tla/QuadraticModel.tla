--------------------------- MODULE QuadraticModel ---------------------------
(***************************************************************************)
(* The quadratic model the QP engine works on: minimise x P x / 2 + q x    *)
(* where every row of A x lies between its bounds.  P is kept as its upper *)
(* triangle.  Points and multipliers are numerators over the grid of the   *)
(* model given, so P x + q + A y needs no fraction, and an objective is    *)
(* twice a numerator over the square of the grid.                          *)
(***************************************************************************)
EXTENDS Canonicalize

\* has_quadratic_objective; quad is the matrix as it was read, both triangles.
HasQuadratic(p) == DOMAIN p.quad # {}
WellFormedQuadratic(p) ==
  /\ p.grid \in Nat \ {0} /\ p.ints \subseteq p.vars
  /\ HasQuadratic(p) => \A i, j \in p.vars : p.quad[i][j] \in Int

\* make_quadratic_model: the entries (i, j) and (j, i) meet above the diagonal,
\* and the bounds of the variables follow the rows as rows of a unit matrix.
UpperEntry(p, i, j) ==
  IF ~ HasQuadratic(p) \/ i > j THEN 0
  ELSE p.sense * (IF i = j THEN p.quad[i][i] ELSE p.quad[i][j] + p.quad[j][i])
MakeQuadratic(p) ==
  LET m == Cardinality(p.rows)
      rows == 1 .. m + Cardinality(p.vars)
  IN  [vars |-> p.vars, rows |-> rows, ints |-> p.ints, grid |-> p.grid, sense |-> p.sense, offset |-> p.offset,
       upper |-> [i \in p.vars |-> [j \in p.vars |-> UpperEntry(p, i, j)]],
       q |-> [j \in p.vars |-> p.grid * p.sense * p.c[j]],
       a |-> [r \in rows |-> IF r <= m THEN p.a[r] ELSE [j \in p.vars |-> IF j = r - m THEN 1 ELSE 0]],
       lo |-> [r \in rows |-> IF r <= m THEN p.rowLo[r] ELSE p.lo[r - m]],
       up |-> [r \in rows |-> IF r <= m THEN p.rowUp[r] ELSE p.up[r - m]]]

-----------------------------------------------------------------------------
\* multiply, evaluate_energy, multiply_A and multiply_AT
Mirrored(upper, i, j) == IF i <= j THEN upper[i][j] ELSE upper[j][i]
Curvature(m, j, x) == Total([i \in m.vars |-> Mirrored(m.upper, i, j) * x[i]], m.vars)
Energy(m, x) == Total([j \in m.vars |-> x[j] * Curvature(m, j, x)], m.vars)
RowOf(m, r, x) == Total([j \in m.vars |-> m.a[r][j] * x[j]], m.vars)
ColumnOf(m, j, y) == Total([r \in m.rows |-> m.a[r][j] * y[r]], m.rows)
Linear(m, x) == Total([j \in m.vars |-> m.q[j] * x[j]], m.vars)
ValueOf(m, x) == m.sense * (Energy(m, x) + 2 * Linear(m, x)) + 2 * m.grid * m.offset

Stationary(m, x, y) == \A j \in m.vars : Curvature(m, j, x) + m.q[j] + ColumnOf(m, j, y) = 0

-----------------------------------------------------------------------------
(***************************************************************************)
(* check_convexity: the diagonal, and then elimination; a pivot of zero    *)
(* needs a row of zeros.  Rows are multiplied by the pivot instead of      *)
(* divided, which keeps every sign.                                        *)
(***************************************************************************)
Eliminated(a, k) ==
  [i \in DOMAIN a |-> [j \in DOMAIN a |->
     IF i > k /\ j > k THEN a[k][k] * a[i][j] - a[i][k] * a[k][j] ELSE a[i][j]]]
PivotUnchecked(s, k) ==
  IF s.a[k][k] < 0 THEN [s EXCEPT !.convex = FALSE]
  ELSE IF s.a[k][k] = 0 THEN s ELSE [s EXCEPT !.a = Eliminated(@, k)]
Pivoted(s, k) ==
  IF ~ s.convex \/ s.a[k][k] < 0 THEN [s EXCEPT !.convex = FALSE]
  ELSE IF s.a[k][k] = 0 THEN [s EXCEPT !.convex = \A j \in DOMAIN s.a : j > k => s.a[k][j] = 0]
  ELSE [s EXCEPT !.a = Eliminated(@, k)]
CheckConvexity(m) ==
  LET dense == [i \in m.vars |-> [j \in m.vars |-> Mirrored(m.upper, i, j)]]
  IN  /\ \A j \in m.vars : m.upper[j][j] >= 0
      /\ FoldLeft(Pivoted, [a |-> dense, convex |-> TRUE], [k \in m.vars |-> k]).convex

-----------------------------------------------------------------------------
\* verify_qp_solution: rows, integrality, stationarity and the objective; the
\* complementarity it also computes is not tested.
VerifyQp(m, x, y, value) ==
  /\ \A r \in m.rows : Within(RowOf(m, r, x), m.lo[r], m.up[r])
  /\ \A j \in m.ints : x[j] % m.grid = 0
  /\ DOMAIN y = m.rows => Stationary(m, x, y)
  /\ value = ValueOf(m, x)
=============================================================================
