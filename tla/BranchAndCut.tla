--------------------------- MODULE BranchAndCut ----------------------------
(***************************************************************************)
(* milp::solve: the serial branch-and-cut search.  After the root phase an *)
(* iteration of the tree search loop pops the best node, prunes it, solves *)
(* its relaxation and branches; each path through the loop body is one     *)
(* action.  Selection of the branching variable is left open among the     *)
(* fractional ones.                                                        *)
(***************************************************************************)
EXTENDS RootPhase, BestBound

CONSTANT RoundingPeriod  \* nodes between two rounding attempts (5)
ASSUME SerialConstants == ImproveEps = 0 /\ RoundingPeriod \in Nat \ {0}

VARIABLES
  queue,       \* open nodes
  explored,    \* nodes_explored
  unresolved,  \* unresolved_lp
  incomplete,  \* search_incomplete
  timeUp       \* the time limit has passed

searchVars == <<queue, explored, unresolved, incomplete, timeUp>>
vars == <<rootVars, searchVars>>

\* BranchNode: bounds, lower_bound and depth; the root is the node of depth 0.
Node == [sub : Sub, lb : Int, depth : Nat]

TypeOK ==
  /\ RootTypeOK /\ RootKnown
  /\ queue \subseteq Node
  /\ explored \in Nat
  /\ unresolved \in BOOLEAN /\ incomplete \in BOOLEAN /\ timeUp \in BOOLEAN

Init ==
  /\ RootInit
  /\ queue = {} /\ explored = 1
  /\ unresolved = FALSE /\ incomplete = FALSE /\ timeUp = FALSE

Root == RootNext /\ UNCHANGED searchVars

\* The clock passes time_limit_seconds, which the loop head tests.
TimeExpires ==
  /\ phase # "done" /\ ~timeUp
  /\ timeUp' = TRUE
  /\ UNCHANGED <<rootVars, queue, explored, unresolved, incomplete>>

StartSearch ==
  /\ phase = "start"
  /\ phase' = "search"
  /\ queue' = {[sub |-> rootSub, lb |-> cur.obj, depth |-> 0]}
  /\ UNCHANGED <<root, rootSub, cur, best, primal, blb, result,
                 explored, unresolved, incomplete, timeUp>>

-----------------------------------------------------------------------------
InLoop == phase = "search" /\ queue # {} /\ explored < MaxNodes

Pop(n) == InLoop /\ ~timeUp /\ IsTop(n, queue)

DominatedEarly(z) == z >= best - 4 * AbsGap
Dominated(z) == z >= best - AbsGap

PopPrunedInPlace(n) == Pop(n) /\ Dominated(n.lb) /\ UNCHANGED vars
PopPruned(n) ==
  /\ Pop(n) /\ Dominated(n.lb)
  /\ queue' = queue \ {n}
  /\ UNCHANGED <<rootVars, explored, unresolved, incomplete, timeUp>>

\* The root's relaxation is not solved again; every other node costs one.
NodeVerdicts(n) == IF n.depth = 0 THEN {cur} ELSE Verdicts[n.sub]
Explored(n) == IF n.depth = 0 THEN explored ELSE explored + 1

Solve(n, v) == Pop(n) /\ ~Dominated(n.lb) /\ v \in NodeVerdicts(n)

\* An infeasible relaxation, or one whose bound cannot beat the incumbent.
NodeFathomedUnlessOptimal(n, v) ==
  /\ Solve(n, v) /\ (v.status # "optimal" \/ (n.depth > 0 /\ Dominated(v.obj)))
  /\ queue' = queue \ {n} /\ explored' = Explored(n)
  /\ UNCHANGED <<rootVars, unresolved, incomplete, timeUp>>
NodeFathomed(n, v) ==
  /\ Solve(n, v)
  /\ \/ v.status = "infeasible"
     \/ v.status = "optimal" /\ n.depth > 0 /\ Dominated(v.obj)
  /\ queue' = queue \ {n} /\ explored' = Explored(n)
  /\ UNCHANGED <<rootVars, unresolved, incomplete, timeUp>>

\* Numerical, iteration or resource failure: not a proof of prune.
NodeForgotten(n, v) ==
  /\ Solve(n, v) /\ v.status = "failed"
  /\ queue' = queue \ {n} /\ explored' = Explored(n)
  /\ UNCHANGED <<rootVars, unresolved, incomplete, timeUp>>
NodeUnresolved(n, v) ==
  /\ Solve(n, v) /\ v.status = "failed"
  /\ queue' = queue \ {n} /\ explored' = Explored(n)
  /\ unresolved' = TRUE
  /\ UNCHANGED <<rootVars, incomplete, timeUp>>

Kept(n, v) == v.status = "optimal" /\ (n.depth = 0 \/ ~Dominated(v.obj))

NodeIntegral(n, v) ==
  /\ Solve(n, v) /\ Kept(n, v) /\ v.x \in Point
  /\ queue' = queue \ {n} /\ explored' = Explored(n)
  /\ IF Improves(v.obj) THEN best' = v.obj /\ primal' = v.x
                        ELSE UNCHANGED <<best, primal>>
  /\ UNCHANGED <<phase, root, rootSub, cur, blb, result, unresolved, incomplete, timeUp>>

\* Every RoundingPeriod nodes simple_rounding may find a point of the node.
Rounded(n) ==
  IF Explored(n) % RoundingPeriod = 0 THEN PointsIn[n.sub] \union {NoPoint} ELSE {NoPoint}

\* Strong branching finds both children of a candidate infeasible.
NodeStrongInfeasible(n, v) ==
  /\ Solve(n, v) /\ Kept(n, v) /\ v.x \notin Point
  /\ \E K \in Branchings[n.sub][v.x] : ProvenEmpty(K)
  /\ \E p \in Rounded(n) :
       LET inc == Offer([obj |-> best, x |-> primal], p)
       IN  best' = inc.obj /\ primal' = inc.x
  /\ queue' = queue \ {n} /\ explored' = Explored(n)
  /\ UNCHANGED <<phase, root, rootSub, cur, blb, result, unresolved, incomplete, timeUp>>

ChildrenAbove(n, v, K) == [sub : K, lb : {v.obj}, depth : {n.depth - 1}]
Children(n, v, K) == [sub : K, lb : {v.obj}, depth : {n.depth + 1}]

\* Branch, then update the global bound and test the relative gap.
NodeBranch(n, v) ==
  /\ Solve(n, v) /\ Kept(n, v) /\ v.x \notin Point
  /\ \E p \in Rounded(n) :
       LET inc == Offer([obj |-> best, x |-> primal], p)
       IN  best' = inc.obj /\ primal' = inc.x
  /\ \E K \in Branchings[n.sub][v.x] : queue' = (queue \ {n}) \union Children(n, v, K)
  /\ explored' = Explored(n)
  /\ \/ queue' = {} /\ blb' = blb
     \/ \E t \in queue' : IsTop(t, queue') /\ blb' = MinOf(best', t.lb)
  /\ phase' = IF primal' # NoPoint /\ GapClosed(best', blb') THEN "assemble" ELSE phase
  /\ UNCHANGED <<root, rootSub, cur, result, unresolved, incomplete, timeUp>>

LoopTimeout ==
  /\ InLoop /\ timeUp
  /\ phase' = "assemble" /\ incomplete' = TRUE
  /\ UNCHANGED <<root, rootSub, cur, best, primal, blb, result, queue, explored, unresolved, timeUp>>

LoopEnds ==
  /\ phase = "search" /\ ~InLoop
  /\ phase' = "assemble"
  /\ UNCHANGED <<root, rootSub, cur, best, primal, blb, result, searchVars>>

\* A search that stopped early or left an unresolved node proves nothing.
Complete == ~incomplete /\ ~unresolved /\ queue = {}

AssembleClosed ==
  /\ phase = "assemble"
  /\ Finish(IF primal # NoPoint
            THEN Answer(IF Complete THEN "optimal" ELSE "resource_limit", best, best, primal)
            ELSE NoAnswer(IF Complete THEN "infeasible" ELSE "resource_limit"))
  /\ UNCHANGED <<root, rootSub, cur, best, primal, blb, searchVars>>

Assemble ==
  /\ phase = "assemble"
  /\ Finish(IF primal # NoPoint
            THEN Answer(IF Complete THEN "optimal" ELSE "resource_limit", best,
                        IF queue = {} THEN best ELSE blb, primal)
            ELSE NoAnswer(IF Complete THEN "infeasible" ELSE "resource_limit"))
  /\ UNCHANGED <<root, rootSub, cur, best, primal, blb, searchVars>>

Search ==
  \/ StartSearch
  \/ \E n \in queue :
       \/ PopPruned(n)
       \/ \E v \in NodeVerdicts(n) :
            \/ NodeFathomed(n, v) \/ NodeUnresolved(n, v) \/ NodeIntegral(n, v)
            \/ NodeStrongInfeasible(n, v) \/ NodeBranch(n, v)
  \/ LoopTimeout \/ LoopEnds \/ Assemble

Next == Root \/ Search \/ TimeExpires

\* The solver runs to completion on its own thread; the clock need not run out.
Spec == Init /\ [][Next]_vars /\ WF_vars(Root \/ Search)

-----------------------------------------------------------------------------
\* An answer "optimal" means that no integer point of the model beats the
\* objective returned by more than a gap tolerance: pruning, branching, root
\* reductions and early exits together never lose the optimum unnoticed.
OptimalIsOptimal ==
  result.status = "optimal" =>
    /\ result.x \in PointsIn[root] /\ Cost[result.x] = result.obj
    /\ \A q \in PointsIn[root] : WithinTolerance(result.obj, q)

\* "infeasible" is only answered for a model without integer points.
InfeasibleIsProven == result.status = "infeasible" => PointsIn[root] = {}

\* The bound returned beside an incumbent is a bound on every integer point,
\* within the absolute gap, unless a relaxation was left unresolved.
BoundIsValid ==
  (result.x # NoPoint /\ ~unresolved) =>
    \A q \in PointsIn[root] : result.bound <= Cost[q] + AbsGap

\* While the tree search runs, an integer point is not worth finding, or lies
\* in an open node, or a node it lay in was given up unresolved.
Covered ==
  (phase \in {"search", "assemble"} /\ ~unresolved) =>
    \A q \in PointsIn[root] :
      \/ best - AbsGap <= Cost[q]
      \/ \E n \in queue : q \in PointsIn[n.sub]

-----------------------------------------------------------------------------
\* The remaining parts of the inductive invariant that carries the above.

\* The tree is only made by the stage that makes it.
BeforeSearch == phase \notin {"search", "assemble", "done"} => queue = {}

NodesBounded ==
  \A n \in queue :
    /\ n.depth = 0 => n.sub = rootSub
    /\ PointsIn[n.sub] \subseteq PointsIn[root]
    /\ \A q \in PointsIn[n.sub] : n.lb <= Cost[q]

LowerBound ==
  (phase \in {"search", "assemble"} /\ ~unresolved) => \A q \in PointsIn[root] : blb <= Cost[q] + AbsGap

SearchInv ==
  /\ RootInv /\ IncumbentKnown /\ BeforeSearch /\ NodesBounded /\ Covered /\ LowerBound
  /\ OptimalIsOptimal /\ InfeasibleIsProven /\ BoundIsValid

-----------------------------------------------------------------------------
\* The search implements the promise of an anytime solver: the incumbent only
\* improves, and one answer is given, supported by what it claims.
Promise == INSTANCE AnytimeSearch WITH
  incumbent <- IF phase = "done" THEN result.x ELSE primal,
  answer <- result.status,
  excused <- FALSE
Implements == Promise!Spec

\* The solver always returns: the tree is finite and a node or the clock, once
\* spent, stays spent.
Terminates == <>(phase = "done")
=============================================================================
