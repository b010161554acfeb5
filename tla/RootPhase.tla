----------------------------- MODULE RootPhase -----------------------------
(***************************************************************************)
(* The root node: what milp::solve and milp::solve_parallel both do before *)
(* their tree searches start.  One thread runs it, so each stage is one    *)
(* action.  The two differ in how much better a candidate must be to       *)
(* replace the incumbent: ImproveEps is 0 in the serial search and the     *)
(* absolute gap tolerance in the parallel one (update_if_better's eps).    *)
(***************************************************************************)
EXTENDS SearchSpace

CONSTANT ImproveEps
ASSUME ImproveEpsType == ImproveEps \in 0..AbsGap

VARIABLES
  phase,    \* the stage the main thread has reached
  root,     \* the model given
  rootSub,  \* root_model's bounds, tightened by domain reductions
  cur,      \* current_obj and current_primal: the root relaxation's answer
  best,     \* best_upper_bound / best_incumbent_objective
  primal,   \* best_primal / best_incumbent_primal
  blb,      \* best_lower_bound
  result    \* the Result returned

rootVars == <<phase, root, rootSub, cur, best, primal, blb, result>>

Phases == {"lp", "heuristics", "cuts", "gap", "strong", "start", "search", "assemble", "done"}
Statuses == {"none", "optimal", "infeasible", "failed", "resource_limit"}

NoVerdict == [status |-> "failed", obj |-> 0, x |-> NoPoint]
Answer(status, obj, bound, x) ==
  [status |-> status, obj |-> obj, bound |-> bound, x |-> x]
NoAnswer(status) == Answer(status, 0, 0, NoPoint)

Results == [status : Statuses, obj : Int, bound : Int, x : LpPoint \union {NoPoint}]

RootTypeOK ==
  /\ phase \in Phases
  /\ root \in Roots /\ rootSub \in Sub
  /\ cur \in Verdict
  /\ best \in Int /\ primal \in Point \union {NoPoint}
  /\ blb \in Int
  /\ result \in Results

\* From the first solve on, cur is an optimal answer of the root relaxation.
RootKnown ==
  phase \notin {"lp", "done"} => cur \in Verdicts[root] /\ cur.status = "optimal"

RootInit ==
  /\ phase = "lp"
  /\ root \in Roots /\ rootSub = root
  /\ cur = NoVerdict
  /\ best = Inf /\ primal = NoPoint
  /\ blb = -Inf
  /\ result = NoAnswer("none")

Improves(z) == z < best - ImproveEps

\* The incumbent after a candidate p that a heuristic found (NoPoint: found nothing).
OfferUnchecked(inc, p) == IF p # NoPoint THEN [obj |-> Cost[p], x |-> p] ELSE inc
Offer(inc, p) ==
  IF p # NoPoint /\ Cost[p] < inc.obj - ImproveEps
  THEN [obj |-> Cost[p], x |-> p] ELSE inc

Finish(answer) ==
  /\ phase' = "done"
  /\ result' = answer

\* The root relaxation proves infeasibility, or fails: its status is returned.
RootLpEnds ==
  /\ phase = "lp"
  /\ \E v \in Verdicts[root] :
       /\ v.status # "optimal"
       /\ Finish(NoAnswer(v.status))
  /\ UNCHANGED <<root, rootSub, cur, best, primal, blb>>

\* The root relaxation is integral: it is the answer.
RootLpIntegral ==
  /\ phase = "lp"
  /\ \E v \in Verdicts[root] :
       /\ v.status = "optimal" /\ v.x \in Point
       /\ Finish(Answer("optimal", v.obj, v.obj, v.x))
  /\ UNCHANGED <<root, rootSub, cur, best, primal, blb>>

RootLpFractional ==
  /\ phase = "lp"
  /\ \E v \in Verdicts[root] :
       /\ v.status = "optimal" /\ v.x \notin Point
       /\ cur' = v /\ blb' = v.obj
  /\ phase' = "heuristics"
  /\ UNCHANGED <<root, rootSub, best, primal, result>>

\* simple_rounding and then feasibility_pump; each finds a point or nothing,
\* and with enable_heuristics off neither runs.
RootHeuristics ==
  /\ phase = "heuristics"
  /\ \E rounded, pumped \in PointsIn[root] \union {NoPoint} :
       LET inc == Offer(Offer([obj |-> best, x |-> primal], rounded), pumped)
       IN  best' = inc.obj /\ primal' = inc.x
  /\ phase' = "cuts"
  /\ UNCHANGED <<root, rootSub, cur, blb, result>>

\* No cut round (disabled, no basis, no cut kept, an exception), or a re-solve
\* that is not optimal: the root answer stands.
RootNoCuts ==
  /\ phase = "cuts"
  /\ phase' = "gap"
  /\ UNCHANGED <<root, rootSub, cur, best, primal, blb, result>>

\* The cuts are added and the strengthened relaxation is solved again.
RootCuts ==
  /\ phase = "cuts"
  /\ \E v \in Verdicts[root] :
       /\ v.status = "optimal"
       /\ cur' = v
       /\ blb' = MaxOf(blb, v.obj)
       /\ IF v.x \in Point /\ Improves(v.obj)
          THEN best' = v.obj /\ primal' = v.x
          ELSE UNCHANGED <<best, primal>>
  /\ phase' = "gap"
  /\ UNCHANGED <<root, rootSub, result>>

RootGapClosed ==
  /\ phase = "gap"
  /\ primal # NoPoint /\ GapClosed(best, blb)
  /\ Finish(Answer("optimal", best, blb, primal))
  /\ UNCHANGED <<root, rootSub, cur, best, primal, blb>>

RootGapOpen ==
  /\ phase = "gap"
  /\ ~(primal # NoPoint /\ GapClosed(best, blb))
  /\ phase' = "strong"
  /\ UNCHANGED <<root, rootSub, cur, best, primal, blb, result>>

\* Both children of some candidate are infeasible: subproblem_infeasible.
StrongInfeasible ==
  /\ phase = "strong" /\ cur.x \notin Point
  /\ \E K \in Branchings[root][cur.x] : ProvenEmpty(K)
  /\ Finish(NoAnswer("infeasible"))
  /\ UNCHANGED <<root, rootSub, cur, best, primal, blb>>

\* One child of some candidates is infeasible: its side of the domain is cut off.
StrongReduce ==
  /\ phase = "strong" /\ cur.x \notin Point
  /\ rootSub' \in Tightenings[root][cur.x]
  /\ phase' = "start"
  /\ UNCHANGED <<root, cur, best, primal, blb, result>>

\* Disabled, no basis, an exception, or nothing learnt.
StrongNothing ==
  /\ phase = "strong"
  /\ phase' = "start"
  /\ UNCHANGED <<root, rootSub, cur, best, primal, blb, result>>

RootNext ==
  \/ RootLpEnds \/ RootLpIntegral \/ RootLpFractional
  \/ RootHeuristics
  \/ RootNoCuts \/ RootCuts
  \/ RootGapClosed \/ RootGapOpen
  \/ StrongInfeasible \/ StrongReduce \/ StrongNothing
-----------------------------------------------------------------------------
(***************************************************************************)
(* What the stages establish for a minimisation, for the search after them *)
(* to build on: parts of the inductive invariants of both searches.        *)
(***************************************************************************)

\* Domain reductions keep every integer point, and the root's point, taken
\* under the reduced bounds, branches into children that cover them.
RootDomain ==
  /\ PointsIn[rootSub] = PointsIn[root]
  /\ phase \notin {"start", "search", "assemble", "done"} => rootSub = root
  /\ (phase \in {"start", "search", "assemble"} /\ cur.x \notin Point) => Covers(rootSub, cur.x)

\* The best bound of the root is one.
RootBound ==
  phase \in {"heuristics", "cuts", "gap", "strong", "start"} => \A q \in PointsIn[root] : blb <= Cost[q]

\* Nothing is found before the first relaxation, nothing answered before the end.
NothingYet ==
  /\ phase = "lp" => primal = NoPoint
  /\ phase # "done" => result = NoAnswer("none")

RootInv == RootDomain /\ RootBound /\ NothingYet

IncumbentKnown ==
  IF primal = NoPoint THEN best = Inf
  ELSE primal \in PointsIn[root] /\ Cost[primal] = best
=============================================================================
