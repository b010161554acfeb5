------------------------------ MODULE Scaling ------------------------------
(***************************************************************************)
(* Ruiz equilibration of a canonical model and the way back.  Rounds of    *)
(* the iteration multiply the matrix by factors found from its norms; the  *)
(* products of the factors are then clamped between min_scale and          *)
(* max_scale and only after that applied to right-hand sides, costs and    *)
(* answers.  The products are an open choice here: any positive scaling is *)
(* one by integers up to a common factor of the rows and of the columns.   *)
(***************************************************************************)
EXTENDS CanonicalModel

CONSTANTS RowScales, ColScales,     \* the products the iteration may end with
          MinScale, MaxScale
ASSUME ScaleRange == MinScale \in Nat \ {0} /\ MaxScale \in Nat /\ MinScale <= MaxScale

Clamp(s) == IF s < MinScale THEN MinScale ELSE IF s > MaxScale THEN MaxScale ELSE s

\* equilibrate
Equilibrated(m, r, k) ==
  [m EXCEPT !.a = [i \in DOMAIN @ |-> [j \in DOMAIN @[i] |-> r[i] * @[i][j] * k[j]]],
            !.b = [i \in DOMAIN @ |-> Clamp(r[i]) * @[i]],
            !.c = [j \in DOMAIN @ |-> Clamp(k[j]) * @[j]]]

\* unscale_solution
Unscaled(x, k) == [j \in DOMAIN x |-> Clamp(k[j]) * x[j]]
=============================================================================
