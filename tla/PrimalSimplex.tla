--------------------------- MODULE PrimalSimplex ---------------------------
(***************************************************************************)
(* The primal revised simplex method of lp::reference::solve: a crash      *)
(* basis of unit columns or a first phase over artificial columns, the     *)
(* removal of the artificials left in the basis, and a second phase that   *)
(* ends in a witness the verifier must accept.  Positions of the basis are *)
(* named by the rows left; the artificial column of row i is numbered      *)
(* after the columns of the model.  The factorisation is exact for the     *)
(* basis it was given (SparseBasis), and `factored` is that basis.         *)
(***************************************************************************)
EXTENDS Elimination, FiniteSetsExt

CONSTANTS IterationLimit, Bland      \* iteration_limit, bland_anti_cycling
ASSUME SimplexOptions == IterationLimit \in Nat \ {0} /\ Bland \in BOOLEAN

VARIABLES
  lp,              \* the model
  rowSign, left,   \* Work: the sign given to each row, and the rows left
  basis, factored, \* the column at each position; the columns of the factor
  stage,           \* "start", "one", "clean", "two", "dual" or "done"
  step, remaining, \* iterations made in this phase, and allowed to it
  cleaned,         \* remove_artificials: the positions below are done
  answer
workVars == <<rowSign, left, basis, factored>>
countVars == <<step, remaining, cleaned>>

\* Result: what is not reported is left empty.
NoAnswer == [status |-> "none", message |-> "", den |-> 1, primal |-> <<>>, dual |-> <<>>,
             ray |-> <<>>, certificate |-> <<>>]

SimplexIdle(m) ==
  /\ lp = m /\ rowSign = [i \in m.rows |-> 1] /\ left = m.rows
  /\ basis = <<>> /\ factored = <<>>
  /\ step = 0 /\ remaining = IterationLimit /\ cleaned = 0
  /\ answer = NoAnswer

-----------------------------------------------------------------------------
Artificial(i) == Max(lp.cols) + i
Artificials == {Artificial(i) : i \in lp.rows}
IsArtificial(j) == j \notin lp.cols
WorkColumn(j) ==
  [i \in lp.rows |-> IF IsArtificial(j) THEN (IF j = Artificial(i) THEN 1 ELSE 0)
                     ELSE rowSign[i] * lp.a[i][j]]
WorkRhs == [i \in lp.rows |-> rowSign[i] * lp.b[i]]
BasisMatrix(f) == [i \in left |-> [p \in left |-> WorkColumn(f[p])[i]]]

\* FTRAN and BTRAN with the factor.
Ftran(v) == Solution(BasisMatrix(factored), left, v)
Btran(v) == Solution(Transposed(BasisMatrix(factored), left), left, v)

Cost(j) == IF stage = "one" THEN (IF IsArtificial(j) THEN 1 ELSE 0)
           ELSE IF IsArtificial(j) THEN 0 ELSE lp.c[j]
BasicCosts == [p \in left |-> Cost(basis[p])]
Priced(j, y) == Cost(j) * y.den - Total([i \in left |-> WorkColumn(j)[i] * y.num[i]], left)

Basic == {basis[p] : p \in left}
Nonbasic == (lp.cols \union (IF stage = "one" THEN Artificials ELSE {})) \ Basic

-----------------------------------------------------------------------------
Finish(a) == stage' = "done" /\ answer' = a /\ UNCHANGED <<lp, workVars, countVars>>
Fail(status, message) == Finish([NoAnswer EXCEPT !.status = status, !.message = message])

\* full_solution, for the columns of the model.
Spread(x) ==
  [j \in lp.cols |-> Total([p \in left |-> IF basis[p] = j THEN x[p] ELSE 0], left)]

\* certify, with verify_reference_result: a point over the denominator zero is
\* not finite.
Accepted(a) ==
  LET m == Scaled(lp, a.den)
  IN  CASE a.status = "optimal" -> a.den \in Nat \ {0} /\ OptimalWitness(m, a.primal, a.dual)
        [] a.status = "infeasible" -> FarkasWitness(lp, a.certificate)
        [] a.status = "unbounded" -> a.den \in Nat \ {0} /\ RayWitness(m, a.primal, a.ray)
Certify(a) == IF Accepted(a) THEN Finish(a) ELSE Fail("numerical_failure", "witness rejected")

\* Multipliers of the rows left, for the rows of the model.
DualUnsigned(y) == [i \in lp.rows |-> IF i \in left THEN y.num[i] ELSE 0]
DualOf(y) == [i \in lp.rows |-> IF i \in left THEN rowSign[i] * y.num[i] ELSE 0]

Optimal(x, y) == [NoAnswer EXCEPT !.status = "optimal", !.den = x.den,
                                  !.primal = Spread(x.num), !.dual = DualOf(y)]
Infeasible(y) == [NoAnswer EXCEPT !.status = "infeasible", !.certificate = DualOf(y)]
Unbounded(x, d, j) == [NoAnswer EXCEPT !.status = "unbounded", !.den = x.den,
  !.primal = Spread(x.num),
  !.ray = [Spread([p \in left |-> -d.num[p]]) EXCEPT ![j] = d.den]]

-----------------------------------------------------------------------------
\* make_work and crash_basis: a column serves a row if it is its unit vector
\* and serves no row before it.
Unit(sign, j, i) ==
  \A r \in lp.rows : sign[r] * lp.a[r][j] = (IF r = i THEN 1 ELSE 0)
CrashColumn(sign, i) == {j \in lp.cols : Unit(sign, j, i)}

Start ==
  /\ stage = "start"
  /\ rowSign' = [i \in lp.rows |-> IF lp.b[i] < 0 THEN -1 ELSE 1]
  /\ left' = lp.rows
  /\ \/ /\ \A i \in lp.rows : CrashColumn(rowSign', i) # {}
        /\ basis' = [i \in lp.rows |-> Min(CrashColumn(rowSign', i))]
        /\ stage' = "two"
     \/ /\ \E i \in lp.rows : CrashColumn(rowSign', i) = {}
        /\ basis' = [i \in lp.rows |-> Artificial(i)]
        /\ stage' = "one"
  /\ factored' = basis'
  /\ step' = 0 /\ remaining' = IterationLimit /\ cleaned' = 0
  /\ UNCHANGED <<lp, answer>>

-----------------------------------------------------------------------------
\* iterate: select_entering and select_leaving.
Improving(y) == {j \in Nonbasic : Priced(j, y) < 0}
MostNegative(y) ==
  Min({j \in Improving(y) : \A k \in Improving(y) : Priced(j, y) <= Priced(k, y)})
FirstImproving(y) == Min(Improving(y))
Entering(y) == IF Bland THEN FirstImproving(y) ELSE MostNegative(y)

Blocking(d) == {p \in left : d.num[p] > 0}
LeavingUnratioed(x, d) == CHOOSE p \in Blocking(d) : \A q \in Blocking(d) : basis[p] <= basis[q]
Leaving(x, d) ==
  LET least == {p \in Blocking(d) : \A q \in Blocking(d) :
                  x.num[p] * d.num[q] <= x.num[q] * d.num[p]}
  IN  CHOOSE p \in least : \A q \in least : basis[p] <= basis[q]

Pivot(p, j) ==
  /\ basis' = [basis EXCEPT ![p] = j]
  /\ factored' = [factored EXCEPT ![p] = j]
  /\ step' = step + 1
  /\ UNCHANGED <<lp, rowSign, left, stage, remaining, cleaned, answer>>

\* What ends an iteration: no column improves the objective, or no row blocks.
PhaseOneEnds(x, y) ==
  LET infeasibility == Total([p \in left |-> Cost(basis[p]) * x.num[p]], left)
  IN  \/ infeasibility > 0 /\ Certify(Infeasible(y))
      \/ /\ infeasibility = 0
         /\ stage' = "clean" /\ cleaned' = 0
         /\ remaining' = remaining - step /\ step' = 0
         /\ UNCHANGED <<lp, workVars, answer>>
NoRowBlocks(x, d, j) ==
  IF stage = "one" THEN Fail("numerical_failure", "phase I failed") ELSE Certify(Unbounded(x, d, j))

Iterate ==
  /\ stage \in {"one", "two"} /\ step < remaining
  /\ \E x \in {Ftran(WorkRhs)}, y \in {Btran(BasicCosts)} :
       \/ /\ Improving(y) = {}
          /\ \/ stage = "one" /\ PhaseOneEnds(x, y)
             \/ stage = "two" /\ Certify(Optimal(x, y))
       \/ /\ Improving(y) # {}
          /\ LET j == Entering(y)
                 d == Ftran(WorkColumn(j))
             IN  \/ Blocking(d) = {} /\ NoRowBlocks(x, d, j)
                 \/ Blocking(d) # {} /\ Pivot(Leaving(x, d), j)

OutOfIterations ==
  /\ stage \in {"one", "two", "dual"} /\ step = remaining
  /\ Fail("iteration_limit", "")

-----------------------------------------------------------------------------
(***************************************************************************)
(* remove_artificials: the next position that holds an artificial takes a  *)
(* column of the model with a nonzero entry there, or its row is dropped,  *)
(* and with it the basic column of that position.                          *)
(***************************************************************************)
ToClean == {p \in left : p >= cleaned /\ IsArtificial(basis[p])}
EntryAt(p, j) ==
  Solution(BasisMatrix(basis), left, WorkColumn(j)).num[p]

CleanNext ==
  /\ stage = "clean" /\ ToClean # {}
  /\ IF Singular(BasisMatrix(basis), left) THEN Fail("numerical_failure", "singular basis")
     ELSE LET p == Min(ToClean)
              useful == {j \in lp.cols \ Basic : EntryAt(p, j) # 0}
          IN  /\ \/ /\ useful # {}
                    /\ basis' = [basis EXCEPT ![p] = Min(useful)]
                    /\ left' = left
                 \/ /\ useful = {}
                    /\ left' = left \ {p}
                    /\ basis' = [q \in left' |-> basis[q]]
              /\ cleaned' = p + 1
              /\ UNCHANGED <<lp, rowSign, factored, stage, step, remaining, answer>>

CleanEnds ==
  /\ stage = "clean" /\ ToClean = {}
  /\ IF Singular(BasisMatrix(basis), left) THEN Fail("numerical_failure", "singular basis")
     ELSE /\ factored' = basis /\ stage' = "two"
          /\ UNCHANGED <<lp, rowSign, left, basis, countVars, answer>>

\* Arithmetic may overflow, a factor may fill up or the basis lose its
\* feasibility to rounding at any step.
Breakdown ==
  /\ stage \in {"one", "clean", "two", "dual"}
  /\ \E s \in {"numerical_failure", "resource_limit"} : Fail(s, "arithmetic")

PrimalStep == Start \/ Iterate \/ OutOfIterations \/ CleanNext \/ CleanEnds \/ Breakdown

-----------------------------------------------------------------------------
(***************************************************************************)
(* Both phases move between feasible bases: the factor is of the basis     *)
(* held, the basis is nonsingular and its solution has no negative entry.  *)
(***************************************************************************)
KeepsPrimalFeasible ==
  stage \in {"one", "two"} =>
    /\ factored = basis
    /\ ~ Singular(BasisMatrix(basis), left)
    /\ \A p \in left : Ftran(WorkRhs).num[p] >= 0

(***************************************************************************)
(* Bland's rule: with more iterations allowed than there are bases, a      *)
(* phase of the primal method never runs into the limit, however           *)
(* degenerate the model is.                                                *)
(***************************************************************************)
NeverCycles == stage \in {"one", "two"} => step < remaining

(***************************************************************************)
(* Whatever the method concludes, the verifier accepts the witness it      *)
(* gives: an exact run never turns an answer into a numerical failure.     *)
(***************************************************************************)
WitnessAccepted == answer.message # "witness rejected"
=============================================================================
