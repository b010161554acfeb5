--------------------------- MODULE Canonicalize ----------------------------
(***************************************************************************)
(* sparse_canonicalize: a model with bounds on rows and variables is       *)
(* brought into canonical form by shifting, mirroring and splitting its    *)
(* variables and adding slacks, and answers are mapped back.  The columns  *)
(* and rows of the canonical model are numbered in the order the code      *)
(* creates them; colOf and rowOf say what each one stands for.             *)
(***************************************************************************)
EXTENDS CanonicalModel, SequencesExt

\* model::Bound
NoBound == [finite |-> FALSE, value |-> 0]
At(z) == [finite |-> TRUE, value |-> z]
Fixes(lo, up) == lo.finite /\ up.finite /\ lo.value = up.value
Within(z, lo, up) == (lo.finite => lo.value <= z) /\ (up.finite => z <= up.value)

(***************************************************************************)
(* The model given: vars and rows are 1..n and 1..m, sense is 1 to         *)
(* minimise and -1 to maximise, ints are the integer variables; values are *)
(* numerators over the denominator grid.                                   *)
(***************************************************************************)
IsBound(b) == b \in [finite : BOOLEAN, value : Int]
Bounds(lo, up) == IsBound(lo) /\ IsBound(up) /\ (lo.finite /\ up.finite => lo.value <= up.value)
WellFormed(p) ==
  /\ {"vars", "c", "offset"} \subseteq DOMAIN p
  /\ IsFiniteSet(p.vars) /\ p.vars = 1 .. Cardinality(p.vars)
  /\ IsFiniteSet(p.rows) /\ p.rows = 1 .. Cardinality(p.rows)
  /\ p.sense \in {1, -1} /\ p.offset \in Int
  /\ \A j \in p.vars : p.c[j] \in Int /\ Bounds(p.lo[j], p.up[j])
  /\ \A i \in p.rows : Bounds(p.rowLo[i], p.rowUp[i]) /\ \A j \in p.vars : p.a[i][j] \in Int

Activity(p, i, x) == Total([j \in p.vars |-> p.a[i][j] * x[j]], p.vars)
Objective(p, x) == Total([j \in p.vars |-> p.c[j] * x[j]], p.vars) + p.offset

\* verify_primal: bounds of variables, integrality and bounds of rows, for an
\* answer over the denominator d.
Times(bound, d) == [bound EXCEPT !.value = d * @]
Over(p, d) ==
  [p EXCEPT !.lo = [j \in DOMAIN @ |-> Times(@[j], d)], !.up = [j \in DOMAIN @ |-> Times(@[j], d)],
            !.rowLo = [i \in DOMAIN @ |-> Times(@[i], d)], !.rowUp = [i \in DOMAIN @ |-> Times(@[i], d)],
            !.offset = d * @, !.grid = d]
Satisfies(p, x) ==
  /\ \A j \in p.ints : x[j] % p.grid = 0
  /\ \A j \in p.vars : Within(x[j], p.lo[j], p.up[j])
  /\ \A i \in p.rows : Within(Activity(p, i, x), p.rowLo[i], p.rowUp[i])

-----------------------------------------------------------------------------
\* The variable map: an offset and the signs of the columns it is split into.
Offset(p, j) ==
  IF p.lo[j].finite THEN p.lo[j].value ELSE IF p.up[j].finite THEN p.up[j].value ELSE 0
Signs(p, j) ==
  IF Fixes(p.lo[j], p.up[j]) THEN <<>>
  ELSE IF p.lo[j].finite THEN <<1>> ELSE IF p.up[j].finite THEN <<-1>> ELSE <<1, -1>>

Structurals(p) ==
  FlattenSeq([j \in p.vars |-> [q \in DOMAIN Signs(p, j) |->
    [kind |-> "x", var |-> j, sign |-> Signs(p, j)[q]]]])

\* add_canonical_row for each row, then a row for each variable with two bounds.
RowsForOneSide(p, i) ==
  IF Fixes(p.rowLo[i], p.rowUp[i]) THEN <<[kind |-> "eq", of |-> i]>>
  ELSE IF p.rowUp[i].finite THEN <<[kind |-> "up", of |-> i]>>
  ELSE IF p.rowLo[i].finite THEN <<[kind |-> "lo", of |-> i]>> ELSE <<>>
RowsFor(p, i) ==
  IF Fixes(p.rowLo[i], p.rowUp[i]) THEN <<[kind |-> "eq", of |-> i]>>
  ELSE (IF p.rowUp[i].finite THEN <<[kind |-> "up", of |-> i]>> ELSE <<>>)
         \o (IF p.rowLo[i].finite THEN <<[kind |-> "lo", of |-> i]>> ELSE <<>>)
RangeRow(p, j) ==
  IF p.lo[j].finite /\ p.up[j].finite /\ p.lo[j].value # p.up[j].value
  THEN <<[kind |-> "range", of |-> j]>> ELSE <<>>
RowsOf(p) == FlattenSeq([i \in p.rows |-> RowsFor(p, i)]) \o FlattenSeq([j \in p.vars |-> RangeRow(p, j)])

SlackFor(r) == IF r.kind = "eq" THEN <<>> ELSE <<[kind |-> "slack", row |-> r]>>
Slacks(p) == LET R == RowsOf(p) IN FlattenSeq([k \in DOMAIN R |-> SlackFor(R[k])])
ColsOf(p) == Structurals(p) \o Slacks(p)

RowSign(r) == IF r.kind = "lo" THEN -1 ELSE 1

Entry(p, r, k) ==
  CASE k.kind = "slack" -> IF k.row = r THEN 1 ELSE 0
    [] k.kind = "x" /\ r.kind = "range" -> IF k.var = r.of THEN k.sign ELSE 0
    [] OTHER -> RowSign(r) * p.a[r.of][k.var] * k.sign

\* The bound of a row less the activity at the offsets of the variables.
Shift(p, i) == Total([j \in p.vars |-> p.a[i][j] * Offset(p, j)], p.vars)
RowBound(p, r) == IF r.kind = "lo" THEN p.rowLo[r.of] ELSE p.rowUp[r.of]
RhsUnshifted(p, r) ==
  IF r.kind = "range" THEN p.up[r.of].value - p.lo[r.of].value
  ELSE RowSign(r) * RowBound(p, r).value
Rhs(p, r) ==
  IF r.kind = "range" THEN p.up[r.of].value - p.lo[r.of].value
  ELSE RowSign(r) * (RowBound(p, r).value - Shift(p, r.of))

Canonical(p) ==
  LET R == RowsOf(p) C == ColsOf(p)
  IN  [rows |-> DOMAIN R, cols |-> DOMAIN C,
       a |-> [i \in DOMAIN R |-> [j \in DOMAIN C |-> Entry(p, R[i], C[j])]],
       b |-> [i \in DOMAIN R |-> Rhs(p, R[i])],
       c |-> [j \in DOMAIN C |-> IF C[j].kind = "x" THEN p.sense * p.c[C[j].var] * C[j].sign ELSE 0],
       offset |-> p.sense * Total([j \in p.vars |-> p.c[j] * Offset(p, j)], p.vars) + p.offset]

\* reconstruct_primal and reconstruct_objective
Reconstruct(p, x, d) ==
  LET C == ColsOf(p)
      parts(j) == {k \in DOMAIN C : C[k].kind = "x" /\ C[k].var = j}
  IN  [j \in p.vars |-> d * Offset(p, j) + Total([k \in parts(j) |-> C[k].sign * x[k]], parts(j))]
ReconstructObjective(p, z) == p.sense * z
=============================================================================
