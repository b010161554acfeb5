---------------------------- MODULE Elimination ----------------------------
(***************************************************************************)
(* Exact solutions of square linear systems with integer coefficients.  A  *)
(* matrix is a function of its rows and columns, both named by the same    *)
(* set of numbers; a solution is a vector of numerators over one positive  *)
(* denominator, so that signs and ratios are decided on integers.          *)
(***************************************************************************)
EXTENDS CanonicalModel

\* The determinant by cofactors: the minor of the columns S uses as many of
\* the last rows as S has columns.
Determinant(a, names) ==
  LET rowFor(S) == CHOOSE r \in names : Cardinality({q \in names : q >= r}) = Cardinality(S)
      cofactor(S, k) == IF Cardinality({q \in S : q < k}) % 2 = 0 THEN 1 ELSE -1
      minor[S \in SUBSET names] ==
        IF S = {} THEN 1
        ELSE Total([k \in S |-> IF a[rowFor(S)][k] = 0 THEN 0
                                  ELSE cofactor(S, k) * a[rowFor(S)][k] * minor[S \ {k}]], S)
  IN  minor[names]

Singular(a, names) == Determinant(a, names) = 0

Transposed(a, names) == [r \in names |-> [k \in names |-> a[k][r]]]

\* Cramer's rule for a x = v.
Solution(a, names, v) ==
  LET d == Determinant(a, names)
      with(k) == [r \in names |-> [a[r] EXCEPT ![k] = v[r]]]
      s == IF d < 0 THEN -1 ELSE 1
  IN  [num |-> [k \in names |-> s * Determinant(with(k), names)], den |-> s * d]
=============================================================================
