------------------------------ MODULE Pipeline -----------------------------
(***************************************************************************)
(* The driver, main of markov_cero_solve: it resolves the engine; for a    *)
(* linear program it brings the model into canonical form, presolves and   *)
(* scales it, runs a simplex method, maps the answer back, checks it       *)
(* against the canonical model and the model given, and reports whether    *)
(* the answer is verified.  Answers of tree search and PDLP are checked    *)
(* against the model given, those of the QP engine against the quadratic   *)
(* model.  Each stage is the component's own module.                       *)
(***************************************************************************)
EXTENDS Presolve, DualSimplex, Scaling, AdmmSolver

CONSTANTS
  Commands,              \* [program, engine, warm, presolve, scale]: what main may be run on
  Claims,                \* what a tree search or PDLP may return: [x, z] pairs
  Points, Directions     \* a grid to judge answers without the canonical model
ASSUME CommandsAreWellFormed ==
  \A k \in Commands : /\ WellFormed(k.program) /\ WellFormedQuadratic(k.program)
                      /\ \A g \in Points : \A j \in k.program.vars : g[j] \in Int
\* The products of the scaling are whole numbers: see Scaling.
ASSUME ScalesAreWhole ==
  \A k \in Commands : /\ \A r \in RowScales : \A i \in Canonical(k.program).rows : r[i] \in Nat \ {0}
                      /\ \A s \in ColScales : \A j \in Canonical(k.program).cols : s[j] \in Nat \ {0}

VARIABLES
  program, engine, presolveOn, scaleOn,    \* the model and the command line
  phase,
  presolved, scalers, bare,                \* presolve_applied, scalers, no engine was needed
  result,                                  \* result.status
  objective,                               \* result.objective over unit
  canonicalVerified, originalVerified, thrown,
  report                                   \* what is printed when the program ends
commandVars == <<program, engine, presolveOn, scaleOn>>
presolveVars == <<canon, keptVars, scanVars, verdict>>
simplexVars == <<lp, workVars, stage, countVars, answer, dualVars>>
engineVars == <<simplexVars, qpVars>>
checkVars == <<objective, canonicalVerified, originalVerified, thrown, report>>
driverVars == <<commandVars, phase, presolved, scalers, bare, result, checkVars>>
vars == <<driverVars, presolveVars, answerVars, engineVars>>

Ends == {"optimal", "infeasible", "unbounded"}
NoReport == [verified |-> FALSE, x |-> <<>>, z |-> 0]
NoScalers == [applied |-> FALSE, row |-> <<>>, col |-> <<>>]

PipelineInit(p, e, w, pre, sc) ==
  /\ program = p /\ engine = e /\ presolveOn = pre /\ scaleOn = sc
  /\ PresolveInit(Canonical(p))
  /\ SimplexIdle(Canonical(p)) /\ DualIdle(w) /\ stage = "idle" /\ AdmmIdle
  /\ phase = "given"
  /\ presolved = FALSE /\ scalers = NoScalers /\ bare = FALSE
  /\ result = "numerical_failure" /\ objective = 0
  /\ canonicalVerified = FALSE /\ originalVerified = FALSE /\ thrown = FALSE
  /\ report = NoReport

-----------------------------------------------------------------------------
\* The engine "auto" stands for.
Resolve ==
  /\ phase = "given"
  /\ engine' = IF engine # "auto" THEN engine
               ELSE IF program.ints # {} THEN "tree"
               ELSE IF HasQuadratic(program) THEN "qp" ELSE "primal"
  /\ phase' = IF engine' \in {"tree", "pdlp"} THEN "external"
              ELSE IF engine' = "qp" THEN "quadratic"
              ELSE IF presolveOn THEN "presolve" ELSE "scale"
  /\ UNCHANGED <<program, presolveOn, scaleOn, presolved, scalers, bare, result, checkVars,
                 presolveVars, answerVars, engineVars>>

-----------------------------------------------------------------------------
\* The verdict printed: `verified` is computed from the flags and the status.
Report(status, x, z, original, canonical) ==
  /\ phase' = "ended" /\ result' = status
  /\ originalVerified' = original /\ canonicalVerified' = canonical
  /\ report' = [verified |-> (status = "optimal" /\ original /\ canonical)
                               \/ (status \in {"infeasible", "unbounded"} /\ canonical),
                x |-> x, z |-> z]

\* verify_primal on the answer x of objective z, over the denominator d.
Passes(x, z, d) ==
  /\ Satisfies(Over(program, d), x)
  /\ Objective(Over(program, d), x) = z

\* What the tree searches and PDLP return is checked against the model given.
Claimed ==
  \E a \in Claims :
    LET passed == Passes(a.x, a.z, 1)
    IN  Report(IF passed THEN "optimal" ELSE "numerical_failure", a.x, a.z, passed, TRUE)
Nothing(statuses, canonical) == \E s \in statuses : Report(s, <<>>, 0, FALSE, canonical)

TreeEnds ==
  /\ phase = "external" /\ engine = "tree"
  /\ \/ Claimed
     \/ Nothing({"infeasible", "unbounded"}, TRUE)
     \/ Nothing({"resource_limit", "numerical_failure"}, FALSE)
FirstOrderEnds ==
  /\ phase = "external" /\ engine = "pdlp"
  /\ Claimed \/ Nothing({"iteration_limit", "numerical_failure"}, FALSE)

External ==
  /\ TreeEnds \/ FirstOrderEnds
  /\ UNCHANGED <<commandVars, presolved, scalers, bare, objective, thrown,
                 presolveVars, answerVars, engineVars>>

-----------------------------------------------------------------------------
\* The QP engine is given the quadratic model, and its answer checked with it.
Quadratic ==
  /\ phase = "quadratic"
  /\ AdmmStart(MakeQuadratic(program)) \/ AdmmStep
  /\ UNCHANGED <<driverVars, presolveVars, answerVars, simplexVars>>

QuadraticEnds ==
  /\ phase = "quadratic" /\ qpStage = "done"
  /\ \/ /\ solution.status = "optimal"
        /\ LET passed == VerifyQp(qp, solution.x, solution.y, solution.value)
           IN  Report(IF passed THEN "optimal" ELSE "numerical_failure",
                      solution.x, solution.value, passed, TRUE)
     \/ solution.status = "primal_infeasible" /\ Nothing({"infeasible"}, TRUE)
     \/ solution.status = "dual_infeasible" /\ Nothing({"unbounded"}, TRUE)
     \/ solution.status = "non_convex" /\ Nothing({"invalid_model"}, FALSE)
     \/ /\ solution.status \in {"numerical_error", "time_limit", "iteration_limit"}
        /\ Nothing({"numerical_failure"}, FALSE)
  /\ UNCHANGED <<commandVars, presolved, scalers, bare, objective, thrown,
                 presolveVars, answerVars, engineVars>>

-----------------------------------------------------------------------------
Presolving ==
  /\ phase = "presolve" /\ PresolveStep
  /\ UNCHANGED <<driverVars, engineVars>>

Presolved ==
  /\ phase = "presolve" /\ verdict # "open"
  /\ \/ /\ verdict \in {"infeasible", "unbounded"}
        /\ result' = verdict /\ phase' = "check" /\ presolved' = FALSE
     \/ /\ verdict = "reduced"
        /\ presolved' = TRUE /\ phase' = "scale" /\ UNCHANGED result
  /\ UNCHANGED <<commandVars, scalers, bare, checkVars, presolveVars, answerVars, engineVars>>

Working == IF presolved THEN Reduced ELSE canon

Engine(m) ==
  /\ lp' = m
  /\ stage' = IF engine = "dual" THEN "warm" ELSE "start"
  /\ phase' = "engine"
  /\ UNCHANGED <<workVars, countVars, answer, dualVars, qpVars>>

Scale ==
  /\ phase = "scale" /\ Working.rows # {} /\ Working.cols # {}
  /\ \/ /\ scaleOn
        /\ \E r \in RowScales, k \in ColScales :
             /\ scalers' = [applied |-> TRUE, row |-> r, col |-> k]
             /\ Engine(Equilibrated(Working, r, k))
     \/ /\ ~ scaleOn /\ Engine(Working) /\ UNCHANGED scalers
  /\ UNCHANGED <<commandVars, presolved, bare, result, checkVars, presolveVars, answerVars>>

Running ==
  /\ phase = "engine" /\ SimplexStep
  /\ UNCHANGED <<driverVars, presolveVars, answerVars, qpVars>>

-----------------------------------------------------------------------------
\* The answer to the model worked on goes to postsolve or is taken as it is.
HandBack(x, y, den) ==
  IF presolved THEN PostsolveStart(x, y, den) /\ phase' = "undo"
  ELSE primal' = x /\ dual' = y /\ unit' = den /\ phase' = "check"

\* Nothing is left to solve: the answer is zero.
Shortcut ==
  /\ phase = "scale" /\ (Working.rows = {} \/ Working.cols = {})
  /\ HandBack([j \in Working.cols |-> 0], [i \in Working.rows |-> 0], 1)
  /\ result' = "optimal" /\ bare' = TRUE /\ objective' = 0
  /\ UNCHANGED <<commandVars, presolved, scalers, canonicalVerified, originalVerified, thrown, report,
                 presolveVars, engineVars>>

Answered ==
  /\ phase = "engine" /\ stage = "done"
  /\ result' = answer.status
  /\ \/ /\ answer.status = "optimal"
        /\ LET x == IF scalers.applied THEN Unscaled(answer.primal, scalers.col) ELSE answer.primal
               y == IF scalers.applied THEN Unscaled(answer.dual, scalers.row) ELSE answer.dual
           IN  HandBack(x, y, answer.den)
        /\ objective' = CostOf(lp, answer.primal) + answer.den * lp.offset
     \/ /\ answer.status # "optimal"
        /\ phase' = "check" /\ UNCHANGED <<answerVars, objective>>
  /\ UNCHANGED <<commandVars, presolved, scalers, bare, canonicalVerified, originalVerified, thrown,
                 report, presolveVars, engineVars>>

CanonicalObjective == CostOf(canon, primal) + unit * canon.offset

Undoing ==
  /\ phase = "undo"
  /\ \/ Undo /\ UNCHANGED <<phase, objective>>
     \/ /\ stack = <<>>
        /\ objective' = CanonicalObjective /\ phase' = "check"
        /\ UNCHANGED <<presolveVars, answerVars>>
  /\ UNCHANGED <<commandVars, presolved, scalers, bare, result, canonicalVerified, originalVerified,
                 thrown, report, engineVars>>

-----------------------------------------------------------------------------
\* The canonical check: the residual of the rows, and the reduced costs.
CanonicalCheck ==
  LET m == Scaled(canon, unit) IN RowsHold(m, primal) /\ DualFeasible(m, dual)

\* Check and the report of a linear program.
Check ==
  /\ phase = "check"
  /\ \/ /\ result = "optimal" /\ CanonicalCheck
        /\ LET x == Reconstruct(program, primal, unit)
               z == ReconstructObjective(program, objective)
               passed == Passes(x, z, unit)
           IN  Report(IF passed THEN "optimal" ELSE "numerical_failure", x, z, passed, TRUE)
     \/ /\ result = "optimal" /\ ~ CanonicalCheck
        /\ Report("numerical_failure", <<>>, 0, FALSE, FALSE)
     \/ /\ result \in {"infeasible", "unbounded"}
        /\ Report(result, <<>>, 0, FALSE, TRUE)
     \/ /\ result \notin Ends
        /\ Report(result, <<>>, 0, FALSE, FALSE)
  /\ UNCHANGED <<commandVars, presolved, scalers, bare, objective, thrown,
                 presolveVars, answerVars, engineVars>>

\* An exception that leaves the stage: the catch clauses of main.
Throws ==
  /\ phase \in {"given", "external", "quadratic", "presolve", "scale", "undo", "check"}
  /\ \E s \in {"invalid_model", "resource_limit", "numerical_failure"} :
       Report(s, <<>>, 0, originalVerified, canonicalVerified)
  /\ thrown' = TRUE
  /\ UNCHANGED <<commandVars, presolved, scalers, bare, objective, presolveVars, answerVars, engineVars>>

Next ==
  \/ Resolve \/ External \/ Quadratic \/ QuadraticEnds
  \/ Presolving \/ Presolved \/ Scale \/ Running \/ Shortcut \/ Answered \/ Undoing
  \/ Check \/ Throws

Init == \E k \in Commands : PipelineInit(k.program, k.engine, k.warm, k.presolve, k.scale)
Spec == Init /\ [][Next]_vars

-----------------------------------------------------------------------------
(***************************************************************************)
(* No false alarm: if no exception was thrown and no arithmetic broke      *)
(* down, a continuous linear program is never reported a numerical         *)
(* failure: what simplex finds survives every transformation on the way    *)
(* back and both checks.  A model that leaves nothing to solve without     *)
(* presolve is the exception.                                              *)
(***************************************************************************)
NoFalseAlarm ==
  (phase = "ended" /\ result = "numerical_failure" /\ program.ints = {}) =>
     \/ thrown \/ answer.message = "arithmetic"
     \/ bare /\ ~ presolved
     \/ engine \in {"tree", "pdlp", "qp"}

-----------------------------------------------------------------------------
\* Answers are judged on the points and directions given.
Feasible == {g \in Points : Satisfies(program, g)}
Better(g, d, z) == program.sense * Objective(program, g) * d < program.sense * z
Recedes(v) ==
  /\ \A j \in program.vars : (program.lo[j].finite => v[j] >= 0) /\ (program.up[j].finite => v[j] <= 0)
  /\ \A i \in program.rows : /\ program.rowLo[i].finite => Activity(program, i, v) >= 0
                             /\ program.rowUp[i].finite => Activity(program, i, v) <= 0
  /\ program.sense * Total([j \in program.vars |-> program.c[j] * v[j]], program.vars) < 0

BySimplex == report.verified /\ engine \in {"primal", "dual"}

(***************************************************************************)
(* A verified answer is the right one.  A verified optimum of any engine   *)
(* satisfies the model given and has the objective reported, however it    *)
(* was mapped back, and of the simplex methods no point is better; a model *)
(* they find infeasible has no point.                                      *)
(***************************************************************************)
StatusIsRight ==
  /\ report.verified /\ result = "optimal" /\ engine # "qp" => Passes(report.x, report.z, unit)
  /\ BySimplex =>
       /\ result = "optimal" => \A g \in Feasible : ~ Better(g, unit, report.z)
       /\ result = "infeasible" => Feasible = {}

(***************************************************************************)
(* An answer of the QP engine is right.  No point is better than a         *)
(* verified optimum, although the verifier sees neither signs nor products *)
(* of the multipliers, and a model found infeasible has no point.  The     *)
(* objective is that of the quadratic model, which is the objective given  *)
(* if the matrix is diagonal.                                              *)
(***************************************************************************)
GivenValue(x) ==
  Total([j \in program.vars |-> x[j] * (program.quad[j][j] * x[j] + 2 * program.grid * program.c[j])], program.vars)
    + 2 * program.grid * program.offset
Diagonal == HasQuadratic(program) /\ \A i, j \in program.vars : i # j => program.quad[i][j] = 0
QuadraticAnswerIsRight ==
  phase = "ended" /\ engine = "qp" /\ ~ thrown =>
    /\ result = "optimal" =>
         /\ report.verified
         /\ \A g \in Feasible : program.sense * ValueOf(qp, g) >= program.sense * report.z
         /\ Diagonal => report.z = GivenValue(report.x)
    /\ result = "infeasible" => Feasible = {}

(***************************************************************************)
(* A model found unbounded has a direction to improve for ever: for the    *)
(* simplex methods, if it was not presolve that found it, together with a  *)
(* point, and for the QP engine a direction without curvature.  A model    *)
(* the QP engine rejects curves down somewhere, and no other does.         *)
(***************************************************************************)
CurvesDown == \E v \in Directions : Energy(qp, v) < 0
UnboundedIsRight ==
  /\ BySimplex /\ result = "unbounded" /\ verdict # "unbounded" =>
       Feasible # {} /\ \E v \in Directions : Recedes(v)
  /\ phase = "ended" /\ engine = "qp" /\ ~ thrown =>
       /\ result = "unbounded" => \E v \in Directions : Recedes(v) /\ Energy(qp, v) = 0
       /\ (result = "invalid_model") = CurvesDown

(***************************************************************************)
(* A verified infeasibility means that the model has no point.             *)
(***************************************************************************)
VerifiedInfeasibleIsTrue == BySimplex /\ result = "infeasible" => Feasible = {}

(***************************************************************************)
(* A verified unboundedness means that the model has a point.              *)
(***************************************************************************)
VerifiedUnboundedIsTrue == BySimplex /\ result = "unbounded" => Feasible # {}
=============================================================================
