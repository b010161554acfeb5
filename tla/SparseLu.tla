------------------------------ MODULE SparseLu -----------------------------
(***************************************************************************)
(* SparseLu: LU factorisation of a square matrix with row exchanges, and   *)
(* the two triangular solves, which visit only rows that earlier nonzeros  *)
(* have marked active.  The code needs of its numbers the field operations *)
(* and the test for zero, so they are taken from the field of P elements,  *)
(* where every matrix can be enumerated; the tolerances are below every    *)
(* nonzero magnitude.  The code pivots on the largest magnitude; in a      *)
(* field without order Magnitude is an arbitrary ranking.                  *)
(***************************************************************************)
EXTENDS Integers, FiniteSetsExt, SequencesExt

CONSTANTS N, P            \* the dimension, and the prime number of elements
ASSUME FieldOrder == P \in Nat \ {0, 1} /\ N \in Nat \ {0}

Index == 1 .. N
Field == 0 .. P - 1
Vectors == [Index -> Field]
Matrices == [Index -> Vectors]

Reduce(z) == z % P
Invert(z) == CHOOSE w \in Field : Reduce(z * w) = 1
Divide(z, w) == Reduce(z * Invert(w))
Magnitude(z) == z
SumOf(f(_), S) == Reduce(MapThenSumSet(f, S))
Times(a, x) == [i \in Index |-> SumOf(LAMBDA j : a[i][j] * x[j], Index)]
TimesTransposed(a, y) == [j \in Index |-> SumOf(LAMBDA i : a[i][j] * y[i], Index)]
Nonzeros(a) == Cardinality({ij \in Index \X Index : a[ij[1]][ij[2]] # 0})

-----------------------------------------------------------------------------
\* SparseLu::factorize, its k-th round: rows hold the multipliers of L below
\* the diagonal and U on and above it; order is row_order_.
Pivots(rows, k) == {i \in k .. N : rows[i][k] # 0}
PivotRow(rows, k) ==
  Min({i \in Pivots(rows, k) : \A r \in Pivots(rows, k) : Magnitude(rows[r][k]) <= Magnitude(rows[i][k])})
Swap(f, i, k) == [f EXCEPT ![i] = f[k], ![k] = f[i]]

Eliminate(rows, k) ==
  [i \in Index |->
     LET multiplier == Divide(rows[i][k], rows[k][k])
     IN  IF i <= k \/ rows[i][k] = 0 THEN rows[i]
         ELSE [j \in Index |-> IF j < k THEN rows[i][j] ELSE IF j = k THEN multiplier
                               ELSE Reduce(rows[i][j] - multiplier * rows[k][j])]]

Round(limit, lu, k) ==
  IF lu.fault # "none" THEN lu
  ELSE IF Pivots(lu.rows, k) = {} THEN [lu EXCEPT !.fault = "singular"]
  ELSE LET p == PivotRow(lu.rows, k)
           rows == Eliminate(Swap(lu.rows, p, k), k)
       IN  [rows |-> rows, order |-> Swap(lu.order, p, k),
            fault |-> IF Nonzeros(rows) > limit THEN "fill" ELSE "none"]

Factorize(a, limit) ==
  LET start == [rows |-> a, order |-> [i \in Index |-> i], fault |-> "none"]
  IN  FoldLeft(LAMBDA lu, k : Round(limit, lu, k), start, [k \in Index |-> k])

-----------------------------------------------------------------------------
(***************************************************************************)
(* The triangular solves: s holds the values and the rows active.  A row   *)
(* that is not active keeps its value.  Settle stores the value of row i   *)
(* and marks the rows a nonzero value reaches.                             *)
(***************************************************************************)
Start(x) == [x |-> x, active |-> {i \in Index : x[i] # 0}]
SettleUnmarked(s, i, value, reached) ==
  [x |-> [s.x EXCEPT ![i] = value], active |-> s.active]
Settle(s, i, value, reached) ==
  [x |-> [s.x EXCEPT ![i] = value], active |-> s.active \union (IF value # 0 THEN reached ELSE {})]
Upwards == [k \in Index |-> k]
Downwards == [k \in Index |-> N + 1 - k]
Sweep(Visit(_, _), x, order) ==
  FoldLeft(LAMBDA s, i : IF i \in s.active THEN Visit(s, i) ELSE s, Start(x), order).x

\* SparseLu::solve
Forward(rows, x) ==
  Sweep(LAMBDA s, i : Settle(s, i, Reduce(s.x[i] - SumOf(LAMBDA j : rows[i][j] * s.x[j], 1 .. i - 1)),
                             {r \in i + 1 .. N : rows[r][i] # 0}), x, Upwards)
Backward(rows, x) ==
  Sweep(LAMBDA s, i : Settle(s, i, Divide(Reduce(s.x[i] - SumOf(LAMBDA j : rows[i][j] * s.x[j], i + 1 .. N)),
                                          rows[i][i]),
                             {r \in 1 .. i - 1 : rows[r][i] # 0}), x, Downwards)
LuSolve(lu, b) == Backward(lu.rows, Forward(lu.rows, [i \in Index |-> b[lu.order[i]]]))

\* SparseLu::solve_transpose
ForwardTransposed(rows, y) ==
  Sweep(LAMBDA s, i : Settle(s, i, Divide(Reduce(s.x[i] - SumOf(LAMBDA r : rows[r][i] * s.x[r], 1 .. i - 1)),
                                          rows[i][i]),
                             {j \in i + 1 .. N : rows[i][j] # 0}), y, Upwards)
BackwardTransposed(rows, y) ==
  Sweep(LAMBDA s, i : Settle(s, i, Reduce(s.x[i] - SumOf(LAMBDA r : rows[r][i] * s.x[r], i + 1 .. N)),
                             {j \in 1 .. i - 1 : rows[i][j] # 0}), y, Downwards)
LuSolveTransposed(lu, c) ==
  LET z == BackwardTransposed(lu.rows, ForwardTransposed(lu.rows, c))
  IN  [r \in Index |-> z[CHOOSE i \in Index : lu.order[i] = r]]
=============================================================================
