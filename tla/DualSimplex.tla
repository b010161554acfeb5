---------------------------- MODULE DualSimplex ----------------------------
(***************************************************************************)
(* The dual revised simplex method of lp::dual::solve.  It starts from a   *)
(* basis saved by an earlier solve, which it must first find valid and     *)
(* dual feasible; otherwise, and when no basis is given, the primal method *)
(* solves the model from the start (PrimalSimplex).  The pricing rule only *)
(* chooses among the infeasible rows, and is left open.                    *)
(***************************************************************************)
EXTENDS PrimalSimplex

CONSTANT AllowColdFallback
ASSUME FallbackOption == AllowColdFallback \in BOOLEAN

VARIABLES warm,       \* the saved basis, and whether its fingerprint is the model's
          usedWarm, usedCold
dualVars == <<warm, usedWarm, usedCold>>

NoWarmBasis == [given |-> FALSE, matches |-> FALSE, columns |-> <<>>]
WarmBasis(matches, columns) == [given |-> TRUE, matches |-> matches, columns |-> columns]

DualIdle(w) == warm = w /\ usedWarm = FALSE /\ usedCold = FALSE

\* cold: the primal method from the start.
Cold ==
  /\ stage' = "start" /\ usedCold' = TRUE
  /\ UNCHANGED <<lp, workVars, countVars, answer, warm>>

\* validate_basis_metadata, and the factorisation of the basis.
ValidWarm ==
  /\ warm.matches
  /\ DOMAIN warm.columns = lp.rows
  /\ \A i \in lp.rows : warm.columns[i] \in lp.cols
  /\ IsInjective(warm.columns)
WarmMatrix == [i \in lp.rows |-> [p \in lp.rows |-> lp.a[i][warm.columns[p]]]]

DualStart ==
  /\ stage = "warm"
  /\ \/ /\ ~ warm.given /\ Cold /\ UNCHANGED usedWarm
     \/ /\ warm.given /\ (~ ValidWarm \/ (ValidWarm /\ Singular(WarmMatrix, lp.rows)))
        /\ IF AllowColdFallback THEN Cold ELSE Fail("numerical_failure", "invalid basis") /\ UNCHANGED <<warm, usedCold>>
        /\ UNCHANGED usedWarm
     \/ /\ warm.given /\ ValidWarm /\ ~ Singular(WarmMatrix, lp.rows)
        /\ stage' = "dual" /\ usedWarm' = TRUE
        /\ rowSign' = [i \in lp.rows |-> 1] /\ left' = lp.rows
        /\ basis' = warm.columns /\ factored' = warm.columns
        /\ step' = 0 /\ remaining' = IterationLimit /\ cleaned' = 0
        /\ UNCHANGED <<lp, answer, warm, usedCold>>

-----------------------------------------------------------------------------
InfeasibleRows(x) == {p \in left : x.num[p] < 0}

\* Row p of the tableau, and select_entering_column: a least ratio of reduced
\* cost to entry among the negative entries; Harris's test settles the ties
\* by the larger entry and the plain test by the lower column.
UnitVector(p) == [q \in left |-> IF q = p THEN 1 ELSE 0]
TableauRow(pi) ==
  [j \in lp.cols |-> Total([i \in left |-> WorkColumn(j)[i] * pi.num[i]], left)]
Negative(alpha) == {j \in lp.cols \ Basic : alpha[j] < 0}
SmallestEntries(alpha, y) ==
  {j \in Negative(alpha) : \A k \in Negative(alpha) : alpha[j] <= alpha[k]}
LeastRatios(alpha, y) ==
  {j \in Negative(alpha) : \A k \in Negative(alpha) :
     Priced(j, y) * alpha[k] >= Priced(k, y) * alpha[j]}

Farkas(pi) ==
  [NoAnswer EXCEPT !.status = "infeasible",
                   !.certificate = [i \in lp.rows |-> -pi.num[i]]]

DualFeasibleNow(y) == \A j \in lp.cols : Priced(j, y) >= 0

DualIterate ==
  /\ stage = "dual" /\ step < remaining
  /\ \E x \in {Ftran(WorkRhs)}, y \in {Btran(BasicCosts)} :
       \/ /\ ~ DualFeasibleNow(y)
          /\ IF step > 0
             THEN Fail("numerical_failure", "dual feasibility lost") /\ UNCHANGED <<warm, usedCold>>
             ELSE IF AllowColdFallback THEN Cold
             ELSE Fail("numerical_failure", "not dual feasible") /\ UNCHANGED <<warm, usedCold>>
       \/ /\ DualFeasibleNow(y) /\ InfeasibleRows(x) = {}
          /\ Certify(Optimal(x, y))
          /\ UNCHANGED <<warm, usedCold>>
       \/ /\ DualFeasibleNow(y)
          /\ \E p \in InfeasibleRows(x) : \E pi \in {Btran(UnitVector(p))} :
               LET alpha == TableauRow(pi)
               IN  \/ Negative(alpha) = {} /\ Certify(Farkas(pi))
                   \/ \E j \in LeastRatios(alpha, y) : Pivot(p, j)
          /\ UNCHANGED <<warm, usedCold>>
  /\ usedWarm' = IF stage' = "start" THEN FALSE ELSE usedWarm

SimplexStep ==
  \/ PrimalStep /\ UNCHANGED dualVars
  \/ DualStart
  \/ DualIterate

-----------------------------------------------------------------------------
(***************************************************************************)
(* A pivot of the dual method keeps the basis nonsingular and dual         *)
(* feasible: once the saved basis has passed the test at step 0 no later   *)
(* step finds a negative reduced cost.                                     *)
(***************************************************************************)
KeepsDualFeasible ==
  /\ answer.message # "dual feasibility lost"
  /\ stage = "dual" => factored = basis /\ ~ Singular(BasisMatrix(basis), left)
=============================================================================
