----------------------------- MODULE Branching -----------------------------
(***************************************************************************)
(* Branching on a fractional variable, and the domain reductions strong    *)
(* branching derives from infeasible children.  Values of variables and    *)
(* bounds are counted in steps of 1/Grid, so a value is integral iff Grid  *)
(* divides it (the tolerances of the code lie below one step).  Only the   *)
(* variables that are not continuous are listed.                           *)
(***************************************************************************)
EXTENDS Integers

CONSTANTS Var, Grid
ASSUME GridType == Grid \in Nat \ {0}

\* model::Bound; an infinite one has no value of its own.
Bound == {r \in [finite : BOOLEAN, value : Int] : ~r.finite => r.value = 0}
Bounds == [Var -> [lo : Bound, hi : Bound]]
Finite(z) == [finite |-> TRUE, value |-> z]
Infinite == [finite |-> FALSE, value |-> 0]

InRange(r, z) ==
  /\ r.lo.finite => r.lo.value <= z
  /\ r.hi.finite => z <= r.hi.value

\* The vector x lies within bounds b.
Inside(b, x) == \A v \in Var : InRange(b[v], x[v])

Integral(x) == x % Grid = 0
Floor(x) == x - (x % Grid)
CeilTooFar(x) == Floor(x) + 2 * Grid
Ceil(x) == IF Integral(x) THEN x ELSE Floor(x) + Grid

IntegralVector(x) == \A v \in Var : Integral(x[v])

\* find_fractional_variables
FractionalVars(x) == {v \in Var : ~Integral(x[v])}

\* A child is created unless its new bound crosses the opposite one.
DownValid(b, v, x) == b[v].lo.finite => Floor(x[v]) >= b[v].lo.value
UpValid(b, v, x) == b[v].hi.finite => Ceil(x[v]) <= b[v].hi.value
DownChildRoundedUp(b, v, x) == [b EXCEPT ![v].hi = Finite(Ceil(x[v]))]
DownChild(b, v, x) == [b EXCEPT ![v].hi = Finite(Floor(x[v]))]
UpChild(b, v, x) == [b EXCEPT ![v].lo = Finite(Ceil(x[v]))]

\* push_branch_children: the bounds of the nodes pushed.
Children(b, v, x) ==
  {c \in {DownChild(b, v, x)} : DownValid(b, v, x)}
    \union {c \in {UpChild(b, v, x)} : UpValid(b, v, x)}

(***************************************************************************)
(* evaluate_strong_branching, given the bounds whose relaxation the        *)
(* lookahead LPs prove infeasible.                                         *)
(***************************************************************************)
DownInfeasible(b, v, x, proven) == ~DownValid(b, v, x) \/ DownChild(b, v, x) \in proven
UpInfeasible(b, v, x, proven) == ~UpValid(b, v, x) \/ UpChild(b, v, x) \in proven

\* One side infeasible: the variable keeps the other side.
Reduction(b, v, x, proven) ==
  IF DownInfeasible(b, v, x, proven) = UpInfeasible(b, v, x, proven) THEN b[v]
  ELSE IF DownInfeasible(b, v, x, proven) THEN UpChild(b, v, x)[v]
  ELSE DownChild(b, v, x)[v]

SubproblemInfeasible(b, x, proven) ==
  \E v \in FractionalVars(x) :
    DownInfeasible(b, v, x, proven) /\ UpInfeasible(b, v, x, proven)

\* The reductions of every candidate, applied together.
Reduced(b, x, proven) ==
  [v \in Var |-> IF v \in FractionalVars(x) THEN Reduction(b, v, x, proven) ELSE b[v]]
=============================================================================
