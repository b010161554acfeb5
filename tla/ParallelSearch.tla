-------------------------- MODULE ParallelSearch ---------------------------
(***************************************************************************)
(* milp::solve_parallel: after the root phase a fixed set of threads runs  *)
(* worker_loop over the shared node queue, the shared incumbent and an     *)
(* array of per-worker bounds.  One action is one access to shared state,  *)
(* so every interleaving of the threads is a behaviour; the loads and      *)
(* stores are taken as sequentially consistent.                            *)
(***************************************************************************)
EXTENDS RootPhase, NodeQueue

CONSTANT HeuristicPeriod  \* nodes between two rounding attempts (10)

ASSUME ParallelConstants ==
  /\ ImproveEps = AbsGap
  /\ HeuristicPeriod \in Nat \ {0}
  /\ Worker \subseteq Nat /\ Worker # {}

VARIABLES
  recorded,  \* recorded_primal_obj_, the objective of primal
  bounds,    \* worker_bounds
  explored,  \* total_nodes_explored
  timeUp,    \* the time limit has passed
  pc,        \* where a worker is in worker_loop
  cutoff,    \* the prune cutoff it read
  seen,      \* current_inc in its gap test
  low,       \* min_lb in its gap test
  todo,      \* the workers whose bounds the gap test has still to read
  node,      \* the node it holds; node.lb is updated in place
  sol,       \* objective and primal of its relaxation
  cand,      \* the candidate it offers to the incumbent
  lost,      \* why a node with points may have vanished: history
  gapStop    \* whether a gap test has stopped the search: history

threadVars == <<pc, cutoff, seen, low, todo, node, sol, cand>>
sharedVars == <<recorded, bounds, explored, timeUp, lost, gapStop>>
vars == <<rootVars, queueVars, sharedVars, threadVars>>

NodeType == [sub : Sub, lb : Int, depth : Nat]
NoNode == [sub |-> CHOOSE s \in Roots : TRUE, lb |-> 0, depth |-> 0]
NoSol == [obj |-> 0, x |-> NoPoint]
LpSolution == [obj : Int, x : LpPoint \union {NoPoint}]

Stages == {"off", "head", "gap", "scan", "bounds", "stop", "pop", "hold", "check", "solve", "bound",
           "dominate", "integral", "heuristic", "offer", "record", "cutoff", "prune",
           "branch", "clear", "exit", "gone"}

TypeOK ==
  /\ RootTypeOK /\ RootKnown /\ WorkersTypeOK
  /\ heap \subseteq NodeType
  /\ recorded \in Int /\ explored \in Nat /\ timeUp \in BOOLEAN
  /\ bounds \in [Worker -> Int]
  /\ pc \in [Worker -> Stages]
  /\ cutoff \in [Worker -> Int] /\ seen \in [Worker -> Int] /\ low \in [Worker -> Int]
  /\ todo \in [Worker -> SUBSET Worker]
  /\ node \in [Worker -> NodeType]
  /\ sol \in [Worker -> LpSolution] /\ cand \in [Worker -> LpSolution]
  /\ lost \subseteq {"lp", "push"} /\ gapStop \in BOOLEAN

Each(x) == [w \in Worker |-> x]

Init ==
  /\ RootInit /\ QueueInit
  /\ recorded = Inf /\ bounds = Each(Inf)
  /\ explored = 1 /\ timeUp = FALSE
  /\ pc = Each("off")
  /\ cutoff = Each(0) /\ seen = Each(0) /\ low = Each(0) /\ todo = Each({})
  /\ node = Each(NoNode) /\ sol = Each(NoSol) /\ cand = Each(NoSol)
  /\ lost = {} /\ gapStop = FALSE

Root == RootNext /\ UNCHANGED <<queueVars, sharedVars, threadVars>>

TimeExpires ==
  /\ phase # "done" /\ ~timeUp
  /\ timeUp' = TRUE
  /\ UNCHANGED <<rootVars, queueVars, recorded, bounds, explored, lost, gapStop, threadVars>>

Children(K, obj, depth) == [sub : K, lb : {obj}, depth : {depth + 1}]

\* The root's point, after cuts, has no fractional variable left.
NothingToBranch ==
  /\ phase = "start" /\ cur.x \in Point
  /\ Finish(IF primal # NoPoint THEN Answer("optimal", best, best, primal)
            ELSE NoAnswer("infeasible"))
  /\ UNCHANGED <<root, rootSub, cur, best, primal, blb, queueVars, sharedVars, threadVars>>

\* The root's children are pushed and the threads started.
StartSearch ==
  /\ phase = "start" /\ cur.x \notin Point
  /\ \E K \in Branchings[rootSub][cur.x] : PushRoot(Children(K, cur.obj, 0))
  /\ phase' = "search"
  /\ recorded' = best
  /\ pc' = Each("head")
  /\ UNCHANGED <<root, rootSub, cur, best, primal, blb, result, bounds, explored, timeUp, lost,
                 gapStop, cutoff, seen, low, todo, node, sol, cand>>

-----------------------------------------------------------------------------
Goto(w, stage) == pc' = [pc EXCEPT ![w] = stage]
Set(f, w, x) == [f EXCEPT ![w] = x]

\* The loop condition, the limits, and the load of the prune cutoff.
HeadUnlimited(w) ==
  /\ pc[w] = "head"
  /\ \/ stopped /\ Goto(w, "exit") /\ UNCHANGED cutoff
     \/ ~stopped /\ timeUp /\ Goto(w, "stop") /\ UNCHANGED cutoff
     \/ /\ ~stopped /\ ~timeUp
        /\ cutoff' = Set(cutoff, w, best - AbsGap)
        /\ Goto(w, "gap")
  /\ UNCHANGED <<rootVars, queueVars, sharedVars, seen, low, todo, node, sol, cand>>

Head(w) ==
  /\ pc[w] = "head"
  /\ \/ stopped /\ Goto(w, "exit") /\ UNCHANGED cutoff
     \/ ~stopped /\ (timeUp \/ explored >= MaxNodes) /\ Goto(w, "stop") /\ UNCHANGED cutoff
     \/ /\ ~stopped /\ ~timeUp /\ explored < MaxNodes
        /\ cutoff' = Set(cutoff, w, best - AbsGap)
        /\ Goto(w, "gap")
  /\ UNCHANGED <<rootVars, queueVars, sharedVars, seen, low, todo, node, sol, cand>>

\* has_incumbent and get_objective; without an incumbent there is no gap test.
GapStart(w) ==
  /\ pc[w] = "gap"
  /\ IF best < Inf THEN seen' = Set(seen, w, best) /\ Goto(w, "scan")
                   ELSE UNCHANGED seen /\ Goto(w, "pop")
  /\ UNCHANGED <<rootVars, queueVars, sharedVars, cutoff, low, todo, node, sol, cand>>

HeapBound(b) == IF heap = {} THEN b = Inf ELSE \E t \in heap : IsTop(t, heap) /\ b = t.lb

\* compute_tree_lower_bound reads the heap's bound and then each worker's; the
\* worker's own bound was cleared when its node ended.
GapScanHeap(w) ==
  /\ pc[w] = "scan"
  /\ \E b \in {n.lb : n \in heap} \union {Inf} : HeapBound(b) /\ low' = Set(low, w, b)
  /\ todo' = Set(todo, w, Worker \ {w})
  /\ Goto(w, "bounds")
  /\ UNCHANGED <<rootVars, queueVars, sharedVars, cutoff, seen, node, sol, cand>>

GapScanWorker(w, v) ==
  /\ pc[w] = "bounds" /\ v \in todo[w] /\ \A u \in todo[w] : v <= u
  /\ low' = Set(low, w, MinOf(low[w], bounds[v]))
  /\ todo' = Set(todo, w, todo[w] \ {v})
  /\ UNCHANGED <<rootVars, queueVars, sharedVars, pc, cutoff, seen, node, sol, cand>>

GapDecide(w) ==
  /\ pc[w] = "bounds" /\ todo[w] = {}
  /\ IF GapClosed(seen[w], MinOf(low[w], seen[w]))
     THEN Goto(w, "stop") /\ gapStop' = TRUE
     ELSE Goto(w, "pop") /\ UNCHANGED gapStop
  /\ seen' = Set(seen, w, 0) /\ low' = Set(low, w, 0)
  /\ UNCHANGED <<rootVars, queueVars, recorded, bounds, explored, timeUp, lost, cutoff, todo, node, sol, cand>>

StopAll(w) ==
  /\ pc[w] = "stop" /\ RequestStop
  /\ Goto(w, "exit") /\ cutoff' = Set(cutoff, w, 0)
  /\ UNCHANGED <<rootVars, sharedVars, seen, low, todo, node, sol, cand>>

\* pop_node: one pass of its loop, with the cutoff read before.
PopNode(w) ==
  /\ pc[w] = "pop"
  /\ \/ /\ \E n \in heap : PopTake(w, cutoff[w], n) /\ node' = Set(node, w, n)
        /\ Goto(w, "hold") /\ cutoff' = Set(cutoff, w, 0)
     \/ /\ PopStopped(w) \/ PopDrained(w, cutoff[w])
        /\ Goto(w, "exit") /\ cutoff' = Set(cutoff, w, 0) /\ UNCHANGED node
     \/ PopWait(w, cutoff[w]) /\ UNCHANGED <<pc, cutoff, node>>
  /\ UNCHANGED <<rootVars, sharedVars, seen, low, todo, sol, cand>>

\* The bound of the node in hand is published after the queue has let it go.
HoldNode(w) ==
  /\ pc[w] = "hold"
  /\ bounds' = Set(bounds, w, node[w].lb) /\ Goto(w, "check")
  /\ UNCHANGED <<rootVars, queueVars, recorded, explored, timeUp, lost, gapStop,
                 cutoff, seen, low, todo, node, sol, cand>>

DominatedEarly(z) == z >= best - 4 * AbsGap
Dominated(z) == z >= best - AbsGap

CheckNode(w) ==
  /\ pc[w] = "check"
  /\ Goto(w, IF Dominated(node[w].lb) THEN "clear" ELSE "solve")
  /\ UNCHANGED <<rootVars, queueVars, sharedVars, cutoff, seen, low, todo, node, sol, cand>>

\* The relaxation is solved and counted; anything but "optimal" ends the node,
\* a failure without a trace.
SolveNodeUntyped(w) ==
  /\ pc[w] = "solve"
  /\ sol' = Set(sol, w, NoSol) /\ Goto(w, "solved")
  /\ UNCHANGED <<rootVars, queueVars, sharedVars, cutoff, seen, low, todo, node, cand>>

SolveNode(w) ==
  /\ pc[w] = "solve"
  /\ \E v \in Verdicts[node[w].sub] :
       IF v.status = "optimal"
       THEN /\ sol' = Set(sol, w, [obj |-> v.obj, x |-> v.x])
            /\ node' = Set(node, w, [node[w] EXCEPT !.lb = v.obj])
            /\ Goto(w, "bound") /\ UNCHANGED lost
       ELSE /\ lost' = IF v.status = "failed" THEN lost \union {"lp"} ELSE lost
            /\ Goto(w, "clear") /\ UNCHANGED <<sol, node>>
  /\ explored' = explored + 1
  /\ UNCHANGED <<rootVars, queueVars, recorded, bounds, timeUp, gapStop, cutoff, seen, low, todo, cand>>

RaiseBound(w) ==
  /\ pc[w] = "bound"
  /\ bounds' = Set(bounds, w, node[w].lb) /\ Goto(w, "dominate")
  /\ UNCHANGED <<rootVars, queueVars, recorded, explored, timeUp, lost, gapStop,
                 cutoff, seen, low, todo, node, sol, cand>>

DominateNode(w) ==
  /\ pc[w] = "dominate"
  /\ \/ Dominated(sol[w].obj) /\ Goto(w, "clear") /\ UNCHANGED cand
     \/ /\ ~Dominated(sol[w].obj) /\ sol[w].x \in Point
        /\ cand' = Set(cand, w, sol[w]) /\ Goto(w, "offer")
     \/ /\ ~Dominated(sol[w].obj) /\ sol[w].x \notin Point
        /\ UNCHANGED cand /\ Goto(w, "heuristic")
  /\ UNCHANGED <<rootVars, queueVars, sharedVars, cutoff, seen, low, todo, node, sol>>

\* Every HeuristicPeriod nodes simple_rounding may find a point of the node.
TryRounding(w) ==
  /\ pc[w] = "heuristic"
  /\ \/ UNCHANGED cand /\ Goto(w, "branch")
     \/ /\ explored % HeuristicPeriod = 0
        /\ \E p \in PointsIn[node[w].sub] : cand' = Set(cand, w, [obj |-> Cost[p], x |-> p])
        /\ Goto(w, "offer")
  /\ UNCHANGED <<rootVars, queueVars, sharedVars, cutoff, seen, low, todo, node, sol>>

\* What follows an offer: an integral node ends, a fractional one branches.
AfterOffer(w) == IF sol[w].x \in Point THEN "clear" ELSE "branch"

\* update_if_better: the compare-and-swap of the objective ...
OfferCandidate(w) ==
  /\ pc[w] = "offer"
  /\ IF Improves(cand[w].obj)
     THEN best' = cand[w].obj /\ Goto(w, "record") /\ UNCHANGED cand
     ELSE UNCHANGED best /\ Goto(w, AfterOffer(w)) /\ cand' = Set(cand, w, NoSol)
  /\ UNCHANGED <<phase, root, rootSub, cur, primal, blb, result, queueVars, sharedVars,
                 cutoff, seen, low, todo, node, sol>>

\* ... and, under incumbent_mutex, the record of its point.
RecordLatest(w) ==
  /\ pc[w] = "record"
  /\ recorded' = cand[w].obj /\ primal' = cand[w].x
  /\ Goto(w, "cutoff") /\ cand' = Set(cand, w, NoSol)
  /\ UNCHANGED <<phase, root, rootSub, cur, best, blb, result, queueVars, bounds, explored, timeUp,
                 lost, gapStop, cutoff, seen, low, todo, node, sol>>

RecordPrimal(w) ==
  /\ pc[w] = "record"
  /\ IF cand[w].obj < recorded
     THEN recorded' = cand[w].obj /\ primal' = cand[w].x
     ELSE UNCHANGED <<recorded, primal>>
  /\ Goto(w, "cutoff") /\ cand' = Set(cand, w, NoSol)
  /\ UNCHANGED <<phase, root, rootSub, cur, best, blb, result, queueVars, bounds, explored, timeUp,
                 lost, gapStop, cutoff, seen, low, todo, node, sol>>

ReadCutoff(w) ==
  /\ pc[w] = "cutoff"
  /\ cutoff' = Set(cutoff, w, best - AbsGap) /\ Goto(w, "prune")
  /\ UNCHANGED <<rootVars, queueVars, sharedVars, seen, low, todo, node, sol, cand>>

PruneHeap(w) ==
  /\ pc[w] = "prune" /\ Prune(cutoff[w])
  /\ cutoff' = Set(cutoff, w, 0) /\ Goto(w, AfterOffer(w))
  /\ UNCHANGED <<rootVars, sharedVars, seen, low, todo, node, sol, cand>>

\* push_branch_children; a stopped queue drops them.
BranchNodeUpOnly(w) ==
  /\ pc[w] = "branch"
  /\ \E K \in Branchings[node[w].sub][sol[w].x] : \E k \in K :
       /\ PushChildren(w, Children({k}, sol[w].obj, node[w].depth))
       /\ lost' = IF stopped THEN lost \union {"push"} ELSE lost
  /\ Goto(w, "clear")
  /\ UNCHANGED <<rootVars, recorded, bounds, explored, timeUp, gapStop,
                 cutoff, seen, low, todo, node, sol, cand>>

BranchNode(w) ==
  /\ pc[w] = "branch"
  /\ \E K \in Branchings[node[w].sub][sol[w].x] :
       /\ PushChildren(w, Children(K, sol[w].obj, node[w].depth))
       /\ lost' = IF stopped /\ K # {} THEN lost \union {"push"} ELSE lost
  /\ Goto(w, "clear")
  /\ UNCHANGED <<rootVars, recorded, bounds, explored, timeUp, gapStop,
                 cutoff, seen, low, todo, node, sol, cand>>

ClearBound(w) ==
  /\ pc[w] = "clear"
  /\ bounds' = Set(bounds, w, Inf) /\ Goto(w, "head")
  /\ node' = Set(node, w, NoNode) /\ sol' = Set(sol, w, NoSol)
  /\ UNCHANGED <<rootVars, queueVars, recorded, explored, timeUp, lost, gapStop,
                 cutoff, seen, low, todo, cand>>

\* The last statements of worker_loop; its bound is clear already.
ExitLoop(w) ==
  /\ pc[w] = "exit" /\ Goto(w, "gone")
  /\ IF client[w] = "gone" THEN UNCHANGED queueVars ELSE Deactivate(w) \/ Leave(w)
  /\ UNCHANGED <<rootVars, sharedVars, cutoff, seen, low, todo, node, sol, cand>>

WorkerStep(w) ==
  \/ Head(w)
  \/ GapStart(w) \/ GapScanHeap(w) \/ (\E v \in todo[w] : GapScanWorker(w, v)) \/ GapDecide(w)
  \/ StopAll(w) \/ PopNode(w)
  \/ HoldNode(w) \/ CheckNode(w) \/ SolveNode(w) \/ RaiseBound(w) \/ DominateNode(w)
  \/ TryRounding(w) \/ OfferCandidate(w) \/ RecordPrimal(w) \/ ReadCutoff(w) \/ PruneHeap(w)
  \/ BranchNode(w) \/ ClearBound(w) \/ ExitLoop(w)

\* The main thread, when it has joined every worker.
TreeDone == heap = {} /\ active = 0
HitLimits == explored >= MaxNodes \/ timeUp
Complete == TreeDone /\ ~HitLimits

Assemble ==
  /\ phase = "search" /\ \A w \in Worker : pc[w] = "gone"
  /\ \E b \in {n.lb : n \in heap} \union {Inf} :
       /\ HeapBound(b)
       /\ Finish(IF best < Inf
                 THEN Answer(IF Complete THEN "optimal" ELSE "resource_limit", best,
                             IF TreeDone THEN best ELSE MinOf(best, b), primal)
                 ELSE NoAnswer(IF Complete THEN "infeasible" ELSE "resource_limit"))
  /\ UNCHANGED <<root, rootSub, cur, best, primal, blb, queueVars, sharedVars, threadVars>>

Main == Root \/ NothingToBranch \/ StartSearch \/ Assemble

Next == Main \/ TimeExpires \/ \E w \in Worker : WorkerStep(w)

\* Every thread is run by the scheduler; a mutex is held for one action only.
Spec == Init /\ [][Next]_vars /\ WF_vars(Main) /\ \A w \in Worker : WF_vars(WorkerStep(w))

-----------------------------------------------------------------------------
\* "optimal" is only answered with a point that no integer point beats by more
\* than a gap tolerance, if no node vanished from the search.
OptimalUnlessLost ==
  (result.status = "optimal" /\ lost = {}) =>
    /\ result.x \in PointsIn[root] /\ Cost[result.x] = result.obj
    /\ \A q \in PointsIn[root] : WithinTolerance(result.obj, q)

\* "infeasible" is only answered for a model without integer points, likewise.
InfeasibleUnlessLost ==
  (result.status = "infeasible" /\ lost = {}) => PointsIn[root] = {}

\* The bound returned beside an incumbent is a bound on every integer point,
\* within the absolute gap, if no node vanished.
BoundUnlessLost ==
  (result.x # NoPoint /\ lost = {}) =>
    \A q \in PointsIn[root] : result.bound <= Cost[q] + AbsGap

\* An integer point is not worth finding, or lies in an open node, or in a node
\* a worker still holds before its branching, or a node it lay in vanished.
Held == {w \in Worker : pc[w] \in Stages \ {"off", "head", "gap", "scan", "bounds", "stop", "pop",
                                              "clear", "exit", "gone"}}
Covered ==
  (phase = "search" /\ lost = {}) =>
    \A q \in PointsIn[root] :
      \/ best - AbsGap <= Cost[q]
      \/ \E n \in heap : q \in PointsIn[n.sub]
      \/ \E w \in Held : q \in PointsIn[node[w].sub]

\* Children are only dropped on the floor when a limit or the gap test has
\* stopped the search, never by the detection of its end.
DropsAreExcused ==
  "push" \in lost => explored >= MaxNodes \/ timeUp \/ gapStop

\* The shared objective runs ahead of the recorded point, never behind; they
\* agree when no worker is between its compare-and-swap and its record.
IncumbentAgrees ==
  phase \in {"search", "done"} =>
    /\ best <= recorded
    /\ (\A w \in Worker : pc[w] # "record") =>
         IF primal = NoPoint THEN best = Inf ELSE Cost[primal] = best

\* Each other worker can have counted one node after the limit was reached.
NodeLimitKept == explored <= MaxOf(MaxNodes, 1) + Cardinality(Worker) - 1

\* The parallel search implements the promise of an anytime solver, unless a
\* node vanished; its incumbent is the recorded point.
Promise == INSTANCE AnytimeSearch WITH
  incumbent <- IF phase = "done" THEN result.x ELSE primal,
  answer <- result.status,
  excused <- lost # {}
Implements == Promise!Spec

\* What the worker loop says of a failed relaxation, "do not treat as proven
\* prune": the search never claims a conclusion that needs the node's points.
FailureIsNoPrune ==
  (result.status = "infeasible" /\ "push" \notin lost) => PointsIn[root] = {}

\* What the tests say of the thread count, "identical optimal integer objective
\* across threads": no interleaving answers "optimal" with a worse objective.
ThreadsAgree ==
  (result.status = "optimal" /\ "lp" \notin lost) =>
    \A q \in PointsIn[root] : WithinTolerance(result.obj, q)

\* The workers always come home and an answer is given: no worker waits for
\* ever on a queue the others have left.
Terminates == <>(phase = "done")
=============================================================================
