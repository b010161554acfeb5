--------------------------- MODULE CuttingPlanes ----------------------------
(***************************************************************************)
(* The cut round at the root of milp::solve: the relaxation is solved, its *)
(* tableau rows with a fractional integer variable become Gomory mixed-    *)
(* integer and MIR cuts in the variables of the model, the best of them    *)
(* become rows, and the relaxation is solved again from the basis of the   *)
(* first.  A tableau row is a vector of numerators over the determinant D  *)
(* of the basis, and a cut is scaled by D (D - F), F / D being the         *)
(* fraction, so that it has integer coefficients.                          *)
(***************************************************************************)
EXTENDS DualSimplex, Canonicalize

CONSTANTS
  Programs,        \* the models that may be given
  MaxCuts,         \* max_cut_rounds, the number of cuts a round may add
  EnableMir,       \* enable_mir_cuts
  Box, Halves      \* values of variables, over Halves, that stand for all
ASSUME CutConstants ==
  MaxCuts \in Nat /\ EnableMir \in BOOLEAN /\ Halves \in Nat \ {0} /\ Box \subseteq Int

\* A model as it is read: its vectors have an entry for each row or variable,
\* and its integer variables are among them.
IsProgram(p) ==
  /\ WellFormed(p)
  /\ {"rows", "sense", "a", "lo", "up", "rowLo", "rowUp", "ints", "grid"} \subseteq DOMAIN p
  /\ p.lo = [j \in p.vars |-> p.lo[j]] /\ p.up = [j \in p.vars |-> p.up[j]]
  /\ p.a = [i \in p.rows |-> p.a[i]]
  /\ p.rowLo = [i \in p.rows |-> p.rowLo[i]] /\ p.rowUp = [i \in p.rows |-> p.rowUp[i]]
  /\ p.ints \subseteq p.vars
ASSUME ProgramsGiven == \A p \in Programs : IsProgram(p)

VARIABLES
  given, relaxed,  \* model, root_model
  phase,           \* "root", "gomory", "mir", "filter", "resolve" or "ready"
  candidates,      \* the cuts a generator found
  cuts,
  bound            \* best_lower_bound
cutVars == <<given, relaxed, phase, candidates, cuts, bound>>
simplexVars == <<lp, workVars, stage, countVars, answer, dualVars>>
vars == <<cutVars, simplexVars>>

NoBoundYet == [known |-> FALSE, num |-> 0, den |-> 1]

CutInit ==
  /\ given \in Programs /\ relaxed = given
  /\ phase = "root" /\ candidates = <<>> /\ cuts = <<>> /\ bound = NoBoundYet
  /\ SimplexIdle(Canonical(given)) /\ DualIdle(NoWarmBasis) /\ stage = "start"

-----------------------------------------------------------------------------
D == answer.den
Point == Reconstruct(relaxed, answer.primal, D)

\* The columns of the canonical model and the variables they come from.
Columns == ColsOf(relaxed)
Pieces(j) == {k \in DOMAIN Columns : Columns[k].kind = "x" /\ Columns[k].var = j}
IsStructural(k) == Columns[k].kind = "x"
IsIntegerIfStructural(k) == IsStructural(k)
IsInteger(k) == IsStructural(k) /\ Columns[k].var \in relaxed.ints

\* The positions of the basis that give a cut, with the fraction of the
\* variable there over D: min_fractionality is 0.05.
FractionAt(p) == Point[Columns[basis[p]].var] % D
CutPositions ==
  {p \in left : IsInteger(basis[p]) /\ 20 * FractionAt(p) >= D /\ 20 * FractionAt(p) <= 19 * D}
Tableau(p) == TableauRow(Btran(UnitVector(p)))

\* The weight of a column with the entry n in a row with the fraction f.
ContinuousWeight(n, f) == IF n >= 0 THEN n * (D - f) ELSE -f * n
GomoryWeight(n, f, isInteger) ==
  LET r == n % D
  IN  IF ~ isInteger THEN ContinuousWeight(n, f)
      ELSE IF r <= f THEN r * (D - f) ELSE f * (D - r)
MirFunction(n, f) == (n \div D) * D * (D - f) + D * Max({0, (n % D) - f})
MirWeight(n, f, isInteger) ==
  IF isInteger THEN n * (D - f) - MirFunction(n, f) ELSE ContinuousWeight(n, f)

-----------------------------------------------------------------------------
\* A cut over the columns, w x >= d, is freed of the slacks, whose rows are
\* solved for them, and then brought back to the variables of the model.
SlackOf(r) == {k \in lp.cols : ~ IsStructural(k) /\ Columns[k].row = RowsOf(relaxed)[r]}
SlackWeight(w, r) == Total([k \in SlackOf(r) |-> w[k]], SlackOf(r))
WithoutSlacks(w, d) ==
  [w |-> [k \in {c \in lp.cols : IsStructural(c)} |->
            w[k] - Total([r \in lp.rows |-> SlackWeight(w, r) * lp.a[r][k]], lp.rows)],
   rhs |-> d - Total([r \in lp.rows |-> SlackWeight(w, r) * lp.b[r]], lp.rows)]
InVariables(c) ==
  LET coefficient == [j \in relaxed.vars |-> Total([k \in Pieces(j) |-> Columns[k].sign * c.w[k]], Pieces(j))]
  IN  [coefficient |-> coefficient,
       rhs |-> c.rhs + Total([j \in relaxed.vars |-> coefficient[j] * Offset(relaxed, j)], relaxed.vars)]

\* A common divisor is taken out, as only the ratios matter.
Divides(k, z) == z % k = 0
Divisor(c) ==
  LET values == {c.rhs} \union {c.coefficient[j] : j \in DOMAIN c.coefficient}
      sizes == {IF z < 0 THEN -z ELSE z : z \in values}
      least == Min((sizes \ {0}) \union {Max(sizes)})
  IN  Max({1} \union {k \in 1 .. least : \A z \in values : Divides(k, z)})
Reduced(c) ==
  [coefficient |-> [j \in DOMAIN c.coefficient |-> c.coefficient[j] \div Divisor(c)],
   rhs |-> c.rhs \div Divisor(c)]

Lhs(c, x) == Total([j \in DOMAIN c.coefficient |-> c.coefficient[j] * x[j]], DOMAIN c.coefficient)
NormSquared(c) == Lhs(c, c.coefficient)

\* The cut of the weights w, if the relaxed point violates it.
CutOf(w, d) ==
  LET c == Reduced(InVariables(WithoutSlacks(w, d)))
      violation == D * c.rhs - Lhs(c, Point)
  IN  IF NormSquared(c) > 0 /\ violation > 0
      THEN <<[coefficient |-> c.coefficient, rhs |-> c.rhs, violation |-> violation]>> ELSE <<>>
GomoryWeights(row, f) ==
  [k \in lp.cols |-> IF k \in Basic THEN 0 ELSE GomoryWeight(row[k], f, IsInteger(k))]
MirWeights(row, f) ==
  [k \in lp.cols |-> IF k \in Basic THEN 0 ELSE MirWeight(row[k], f, IsInteger(k))]

GomoryCut(p) ==
  LET f == FractionAt(p) IN CutOf(GomoryWeights(Tableau(p), f), f * (D - f))
MirCuts(p) ==
  LET f == FractionAt(p)
      row == Tableau(p)
      opposite == [k \in DOMAIN row |-> -row[k]]
  IN  CutOf(MirWeights(row, f), f * (D - f)) \o CutOf(MirWeights(opposite, D - f), f * (D - f))
InOrder(cutsAt) ==
  FlattenSeq([p \in lp.rows |-> IF p \in DOMAIN cutsAt THEN cutsAt[p] ELSE <<>>])

-----------------------------------------------------------------------------
\* filter_cuts: by falling efficacy, without those nearly parallel to one
\* taken before (the cosine above 0.95).
Better(a, b) ==
  a.violation * a.violation * NormSquared(b) > b.violation * b.violation * NormSquared(a)
Inserted(ranked, c) ==
  InsertAt(ranked, 1 + Cardinality({k \in DOMAIN ranked : ~ Better(c, ranked[k])}), c)
Ranked(list) == FoldLeft(Inserted, <<>>, list)
Parallel(a, b) ==
  LET dot == Lhs(a, b.coefficient) IN 400 * dot * dot > 361 * NormSquared(a) * NormSquared(b)
KeptWith(kept, c) ==
  IF Len(kept) < MaxCuts /\ \A n \in DOMAIN kept : ~ Parallel(c, kept[n]) THEN Append(kept, c) ELSE kept
FilterCuts(list) == FoldLeft(KeptWith, <<>>, Ranked(list))

\* add_cuts_to_model
WithCuts(p, list) ==
  LET m == Cardinality(p.rows)
  IN  [p EXCEPT !.rows = 1 .. m + Len(list),
                !.a = @ \o [n \in DOMAIN list |-> list[n].coefficient],
                !.rowLo = @ \o [n \in DOMAIN list |-> At(list[n].rhs)],
                !.rowUp = @ \o [n \in DOMAIN list |-> NoBound]]

-----------------------------------------------------------------------------
Solving ==
  /\ stage # "done"
  /\ SimplexStep /\ UNCHANGED cutVars

RelaxationFails ==
  /\ phase = "root" /\ stage = "done" /\ answer.status # "optimal"
  /\ phase' = "ready" /\ UNCHANGED <<given, relaxed, candidates, cuts, bound, simplexVars>>

Value == CostOf(lp, answer.primal) + D * lp.offset
IsIntegral == \A j \in relaxed.ints : Point[j] % D = 0

\* The basis is handed over if no row was removed; an integral point ends
\* the search at the root.
RootSolved ==
  /\ phase = "root" /\ stage = "done" /\ answer.status = "optimal"
  /\ bound' = [known |-> TRUE, num |-> Value, den |-> D]
  /\ phase' = IF IsIntegral \/ left # lp.rows THEN "ready" ELSE "gomory"
  /\ UNCHANGED <<given, relaxed, candidates, cuts, simplexVars>>

\* Gomory's generator stops at the limit, MIR's makes all its cuts.  Either
\* gives none if the basis cannot be factorised.
AtMost(list) == SubSeq(list, 1, Min({MaxCuts, Len(list)}))
Make(list, next) ==
  /\ candidates = <<>>
  /\ \/ list # <<>> /\ candidates' = list /\ phase' = phase
     \/ candidates' = <<>> /\ phase' = next
  /\ UNCHANGED <<given, relaxed, cuts, bound, simplexVars>>
MakeGomory == phase = "gomory" /\ Make(AtMost(InOrder([p \in CutPositions |-> GomoryCut(p)])), IF EnableMir THEN "mir" ELSE "filter")
MakeMir == phase = "mir" /\ Make(InOrder([p \in CutPositions |-> MirCuts(p)]), "filter")
Keep ==
  /\ phase \in {"gomory", "mir"} /\ candidates # <<>>
  /\ cuts' = cuts \o FilterCuts(candidates) /\ candidates' = <<>>
  /\ phase' = IF phase = "gomory" /\ EnableMir THEN "mir" ELSE "filter"
  /\ UNCHANGED <<given, relaxed, bound, simplexVars>>

\* The best of both are added, and the relaxation is solved again.
NothingToCut ==
  /\ phase = "filter" /\ cuts = <<>>
  /\ phase' = "ready" /\ UNCHANGED <<given, relaxed, candidates, cuts, bound, simplexVars>>
AddCuts ==
  /\ phase = "filter" /\ cuts # <<>>
  /\ cuts' = FilterCuts(cuts) /\ relaxed' = WithCuts(relaxed, cuts')
  /\ lp' = Canonical(relaxed') /\ warm' = WarmBasis(FALSE, basis)
  /\ stage' = "warm" /\ answer' = NoAnswer /\ phase' = "resolve"
  /\ UNCHANGED <<given, candidates, bound, workVars, countVars, usedWarm, usedCold>>

\* The bound of the cut relaxation counts if it is the better one.
Resolved ==
  /\ phase = "resolve" /\ stage = "done"
  /\ bound' = IF answer.status = "optimal" /\ Value * bound.den > bound.num * D
              THEN [known |-> TRUE, num |-> Value, den |-> D] ELSE bound
  /\ phase' = "ready"
  /\ UNCHANGED <<given, relaxed, candidates, cuts, simplexVars>>

Next ==
  \/ Solving \/ RelaxationFails \/ RootSolved
  \/ MakeGomory \/ MakeMir \/ Keep
  \/ NothingToCut \/ AddCuts \/ Resolved

CutSpec == CutInit /\ [][Next]_vars

-----------------------------------------------------------------------------
\* The points of the model given, over Halves.
Solutions == {x \in [given.vars -> Box] : Satisfies(Over(given, Halves), x)}

(***************************************************************************)
(* Cuts are valid globally: no point of the model given that meets its     *)
(* integrality is cut off, whatever vertex the cuts were derived from.     *)
(***************************************************************************)
CutsAreGlobal ==
  \A n \in DOMAIN cuts : \A x \in Solutions : Lhs(cuts[n], x) >= Halves * cuts[n].rhs

(***************************************************************************)
(* The bound the tree search starts from bounds the objective of every     *)
(* point of the model, after the cuts were turned into rows, those rows    *)
(* into canonical form, and the relaxation solved from the wrong basis.    *)
(***************************************************************************)
RootBoundIsValid ==
  bound.known =>
    \A x \in Solutions : bound.num * Halves <= bound.den * Objective(Over(given, Halves), x)
=============================================================================
