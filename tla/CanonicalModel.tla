-------------------------- MODULE CanonicalModel ---------------------------
(***************************************************************************)
(* Linear programs in canonical form, minimise c x with A x = b, x >= 0,   *)
(* and what verify_reference_result accepts as a witness of each answer.   *)
(* A model is a record of the sets rows and cols, the matrix a, the        *)
(* vectors b and c and the constant offset of the objective.  Numbers are  *)
(* integers: the instances are chosen so that every quotient the code      *)
(* takes is exact, and the tolerances lie below one unit.                  *)
(***************************************************************************)
EXTENDS Integers, FiniteSets, Functions

Total(f, S) == FoldFunctionOnSet(+, 0, f, S)

\* multiply and multiply_transpose
RowValue(m, i, x) == Total([j \in m.cols |-> m.a[i][j] * x[j]], m.cols)
ColumnValue(m, j, y) == Total([i \in m.rows |-> m.a[i][j] * y[i]], m.rows)

ReducedCost(m, j, y) == m.c[j] - ColumnValue(m, j, y)
CostOf(m, x) == Total([j \in m.cols |-> m.c[j] * x[j]], m.cols)
RhsOf(m, y) == Total([i \in m.rows |-> m.b[i] * y[i]], m.rows)

RowsHold(m, x) == \A i \in m.rows : RowValue(m, i, x) = m.b[i]
Nonnegative(m, x) == \A j \in m.cols : x[j] >= 0
PrimalFeasible(m, x) == Nonnegative(m, x) /\ RowsHold(m, x)
DualFeasible(m, y) == \A j \in m.cols : ReducedCost(m, j, y) >= 0
Complementary(m, x, y) == \A j \in m.cols : x[j] * ReducedCost(m, j, y) = 0

\* An answer over a denominator d answers the model scaled by d.
Scaled(m, d) == [m EXCEPT !.b = [i \in DOMAIN @ |-> d * @[i]], !.c = [j \in DOMAIN @ |-> d * @[j]]]

\* verify_reference_result: the witness of an optimum, of infeasibility (a
\* Farkas vector) and of unboundedness (a point and a ray).  A payload has the
\* size of the model and finite entries.
ForColumns(m, x) == x \in [m.cols -> Int]
ForRows(m, y) == y \in [m.rows -> Int]
OptimalWitness(m, x, y) ==
  /\ ForColumns(m, x) /\ ForRows(m, y)
  /\ PrimalFeasible(m, x) /\ DualFeasible(m, y) /\ Complementary(m, x, y)
  /\ CostOf(m, x) = RhsOf(m, y)
FarkasWitness(m, y) ==
  /\ ForRows(m, y)
  /\ \A j \in m.cols : ColumnValue(m, j, y) <= 0
  /\ RhsOf(m, y) > 0
RayWitness(m, x, d) ==
  /\ ForColumns(m, x) /\ ForColumns(m, d)
  /\ PrimalFeasible(m, x) /\ Nonnegative(m, d)
  /\ \A i \in m.rows : RowValue(m, i, d) = 0
  /\ CostOf(m, d) < 0
=============================================================================
