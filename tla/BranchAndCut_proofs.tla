------------------------ MODULE BranchAndCut_proofs ------------------------
(***************************************************************************)
(* Type correctness of the serial search and the soundness of its answers, *)
(* for every problem, relaxation and tolerance that meets the contract of  *)
(* SearchSpace.                                                            *)
(***************************************************************************)
EXTENDS BranchAndCut, RootPhase_proofs

\* The verdicts a node of the queue may get are verdicts of a subproblem.
LEMMA NodeVerdictType ==
  ASSUME TypeOK, phase = "search", NEW n \in queue, NEW v \in NodeVerdicts(n)
  PROVE  /\ n.sub \in Sub /\ n.lb \in Int /\ n.depth \in Nat
         /\ v \in Verdict
         /\ v.status = "optimal" => v.x \in LpPoint
         /\ Explored(n) \in Nat
<1>1. n.sub \in Sub /\ n.lb \in Int /\ n.depth \in Nat
  BY DEF TypeOK, Node
<1>2. CASE n.depth = 0
  BY <1>1, <1>2, VerdictType, RootIsSub
  DEF NodeVerdicts, TypeOK, RootTypeOK, RootKnown, Explored
<1>3. CASE n.depth # 0
  BY <1>1, <1>3, VerdictType DEF NodeVerdicts, Explored, TypeOK
<1> QED
  BY <1>1, <1>2, <1>3

\* Every state of the serial search is well typed.
LEMMA InitType == Init => TypeOK
<1> SUFFICES ASSUME Init PROVE TypeOK
  OBVIOUS
<1>1. NoVerdict \in Verdict /\ NoAnswer("none") \in Results
  BY DEF NoVerdict, Verdict, LpStatus, NoAnswer, Answer, Results, Statuses
<1>2. root \in Sub /\ Inf \in Int /\ -Inf \in Int
  BY RootIsSub, ToleranceTypes DEF Init, RootInit
<1> QED
  BY <1>1, <1>2 DEF Init, RootInit, TypeOK, RootTypeOK, RootKnown, Phases

\* A rounding offer to the incumbent keeps it well typed.
LEMMA RoundedType ==
  ASSUME TypeOK, phase = "search", NEW n \in queue, NEW p \in Rounded(n),
         LET inc == Offer([obj |-> best, x |-> primal], p)
         IN  best' = inc.obj /\ primal' = inc.x
  PROVE  best' \in Int /\ primal' \in Point \union {NoPoint}
<1>1. [obj |-> best, x |-> primal] \in Incumbent
  BY DEF Incumbent, TypeOK, RootTypeOK
<1>2. n.sub \in Sub
  BY DEF TypeOK, Node
<1>3. p \in Point \union {NoPoint}
  BY <1>2, SpaceTypes DEF Rounded
<1> QED
  BY <1>1, <1>3, OfferType DEF Incumbent

\* So does each path through the tree search loop.
LEMMA SearchType ==
  ASSUME TypeOK, Search
  PROVE  TypeOK'
<1> USE DEF TypeOK, RootTypeOK, RootKnown, Phases
<1>1. CASE StartSearch
  BY <1>1 DEF StartSearch, Node, Verdict
<1>2. ASSUME NEW n \in queue, PopPruned(n) PROVE TypeOK'
  BY <1>2 DEF PopPruned, rootVars
<1>3. ASSUME NEW n \in queue, NEW v \in NodeVerdicts(n),
             \/ NodeFathomed(n, v) \/ NodeUnresolved(n, v) \/ NodeIntegral(n, v)
             \/ NodeStrongInfeasible(n, v) \/ NodeBranch(n, v)
      PROVE  TypeOK'
  <2>0. phase = "search"
    BY <1>3 DEF NodeFathomed, NodeUnresolved, NodeIntegral, NodeStrongInfeasible,
       NodeBranch, Solve, Pop, InLoop
  <2>1. /\ n.sub \in Sub /\ n.depth \in Nat /\ v \in Verdict /\ v.obj \in Int
        /\ v.status = "optimal" => v.x \in LpPoint
        /\ Explored(n) \in Nat
    BY <2>0, NodeVerdictType DEF Verdict
  <2>2. CASE NodeFathomed(n, v)
    BY <2>1, <2>2 DEF NodeFathomed, rootVars
  <2>3. CASE NodeUnresolved(n, v)
    BY <2>1, <2>3 DEF NodeUnresolved, rootVars
  <2>4. CASE NodeIntegral(n, v)
    BY <2>1, <2>4 DEF NodeIntegral
  <2>5. CASE NodeStrongInfeasible(n, v)
    <3>1. best' \in Int /\ primal' \in Point \union {NoPoint}
      BY <2>0, <2>5, RoundedType DEF NodeStrongInfeasible
    <3> QED
      BY <2>1, <2>5, <3>1 DEF NodeStrongInfeasible
  <2>6. CASE NodeBranch(n, v)
    <3>1. best' \in Int /\ primal' \in Point \union {NoPoint}
      BY <2>0, <2>6, RoundedType DEF NodeBranch
    <3>2. queue' \subseteq Node
      <4>1. PICK K \in Branchings[n.sub][v.x] : queue' = (queue \ {n}) \union Children(n, v, K)
        BY <2>6 DEF NodeBranch
      <4>2. K \subseteq Sub
        BY <2>1, <2>6, SpaceTypes DEF NodeBranch, Kept
      <4> QED
        BY <2>1, <4>1, <4>2 DEF Children, Node
    <3>3. blb' \in Int
      BY <2>6, <3>1, <3>2 DEF NodeBranch, MinOf, Node
    <3>4. phase' \in {"search", "assemble"}
      BY <2>0, <2>6 DEF NodeBranch
    <3> QED
      BY <2>0, <2>1, <2>6, <3>1, <3>2, <3>3, <3>4 DEF NodeBranch
  <2> QED
    BY <1>3, <2>2, <2>3, <2>4, <2>5, <2>6
<1>4. CASE LoopTimeout
  BY <1>4 DEF LoopTimeout, InLoop
<1>5. CASE LoopEnds
  BY <1>5 DEF LoopEnds, searchVars
<1>6. CASE Assemble
  <2>1. \A s \in Statuses, o, b \in Int, x \in LpPoint \union {NoPoint} :
          Answer(s, o, b, x) \in Results
    BY DEF Answer, Results
  <2>2. primal \in LpPoint \union {NoPoint} /\ {"optimal", "infeasible", "resource_limit"} \subseteq Statuses
    BY SpaceTypes DEF Statuses
  <2>3. result' \in Results
    BY <1>6, <2>1, <2>2 DEF Assemble, Finish, NoAnswer
  <2> QED
    BY <1>6, <2>3 DEF Assemble, Finish, searchVars
<1> QED
  BY <1>1, <1>2, <1>3, <1>4, <1>5, <1>6 DEF Search

\* Every step keeps the type invariant.
LEMMA NextType == TypeOK /\ [Next]_vars => TypeOK'
<1> SUFFICES ASSUME TypeOK, [Next]_vars PROVE TypeOK'
  OBVIOUS
<1>1. CASE Root
  BY <1>1, RootType DEF Root, searchVars, TypeOK
<1>2. CASE Search
  BY <1>2, SearchType
<1>3. CASE TimeExpires
  BY <1>3 DEF TimeExpires, rootVars, TypeOK, RootTypeOK, RootKnown
<1>4. CASE UNCHANGED vars
  BY <1>4 DEF vars, rootVars, searchVars, TypeOK, RootTypeOK, RootKnown
<1> QED
  BY <1>1, <1>2, <1>3, <1>4 DEF Next

\* Every state milp::solve reaches is well typed, and from the first solve on
\* current_obj and current_primal are an optimal answer of the root relaxation.
THEOREM TypeCorrect == Spec => []TypeOK
  BY InitType, NextType, PTL DEF Spec

-----------------------------------------------------------------------------
(***************************************************************************)
(* Soundness of the answers of a minimisation.                             *)
(***************************************************************************)

\* The contract of SearchSpace at a node of the queue, for a minimisation.
LEMMA NodeContract ==
  ASSUME Sense = 1, TypeOK, RootInv, NodesBounded, phase = "search",
         NEW n \in queue, NEW v \in NodeVerdicts(n)
  PROVE  /\ v.status = "infeasible" => PointsIn[n.sub] = {}
         /\ v.status = "optimal" =>
              /\ v.obj \in Int /\ v.obj < Inf - AbsGap /\ v.x \in LpPoint
              /\ \A q \in PointsIn[n.sub] : v.obj <= Cost[q]
              /\ v.x \in Point => v.x \in PointsIn[n.sub] /\ Cost[v.x] = v.obj /\ v.x # NoPoint
              /\ v.x \notin Point => Covers(n.sub, v.x)
<1>1. n.sub \in Sub /\ n.depth \in Nat /\ v.obj \in Int
  BY NodeVerdictType DEF Verdict
<1>2. \A q \in PointsIn[n.sub] : Cost[q] \in Int /\ q # NoPoint
  BY <1>1, PointFacts
<1>3. CASE n.depth = 0
  <2>1. v = cur /\ v \in Verdicts[root] /\ n.sub = rootSub
    BY <1>3 DEF NodeVerdicts, TypeOK, RootKnown, NodesBounded
  <2> QED
    BY <1>2, <2>1, CurContract DEF RootInv, RootDomain, TypeOK
<1>4. CASE n.depth # 0
  BY <1>1, <1>2, <1>4, VerdictExact, VerdictContract DEF NodeVerdicts
<1> QED
  BY <1>3, <1>4

\* Before the root relaxation is solved nothing is claimed.
LEMMA InitInv == Init => SearchInv
  BY DEF Init, RootInit, SearchInv, RootInv, RootDomain, RootBound, BeforeSearch, IncumbentKnown, NodesBounded, Covered,
     LowerBound, NothingYet, OptimalIsOptimal, InfeasibleIsProven, BoundIsValid, NoAnswer, Answer

\* The root stages give sound answers, and leave the tree empty.
LEMMA RootKeepsInv ==
  ASSUME Sense = 1, TypeOK, SearchInv, Root
  PROVE  SearchInv'
<1>1. RootTypeOK /\ RootKnown /\ RootInv /\ IncumbentKnown /\ RootNext /\ UNCHANGED searchVars
  BY DEF TypeOK, SearchInv, Root
<1>2. RootInv' /\ IncumbentKnown' /\ root' = root /\ (phase' # "done" => result' = result)
  BY <1>1, RootStep, RootIncumbent, RootFrame
<1>3. phase \notin {"search", "assemble", "done"} /\ phase' \notin {"search", "assemble"}
  BY <1>1 DEF RootNext, RootLpEnds, RootLpIntegral, RootLpFractional, RootHeuristics, RootNoCuts, RootCuts,
     RootGapClosed, RootGapOpen, StrongInfeasible, StrongReduce, StrongNothing, Finish
<1>4. AnswerIsSound'
  <2>1. CASE phase' = "done"
    BY <1>1, <2>1, RootAnswers
  <2>2. CASE phase' # "done"
    BY <1>2, <2>2 DEF RootInv, NothingYet, AnswerIsSound, NoAnswer, Answer
  <2> QED
    BY <2>1, <2>2
<1>5. OptimalIsOptimal' /\ InfeasibleIsProven' /\ BoundIsValid'
  BY <1>4 DEF AnswerIsSound, OptimalIsOptimal, InfeasibleIsProven, BoundIsValid
<1>6. BeforeSearch' /\ NodesBounded' /\ Covered' /\ LowerBound'
  BY <1>1, <1>3 DEF SearchInv, searchVars, BeforeSearch, NodesBounded, Covered, LowerBound
<1> QED
  BY <1>2, <1>5, <1>6 DEF SearchInv

\* Rounding at a node leaves a known incumbent, never worse than before.
LEMMA RoundedKnown ==
  ASSUME TypeOK, SearchInv, phase = "search", NEW n \in queue, NEW p \in Rounded(n),
         LET inc == Offer([obj |-> best, x |-> primal], p)
         IN  best' = inc.obj /\ primal' = inc.x
  PROVE  /\ best' \in Int /\ best' <= best
         /\ IF primal' = NoPoint THEN best' = Inf
            ELSE primal' \in PointsIn[root] /\ Cost[primal'] = best'
<1>1. root \in Sub /\ n.sub \in Sub /\ PointsIn[n.sub] \subseteq PointsIn[root]
  BY RootIsSub DEF TypeOK, RootTypeOK, Node, SearchInv, NodesBounded
<1>2. p \in PointsIn[root] \union {NoPoint}
  BY <1>1 DEF Rounded
<1>3. Found \in Incumbent /\ Known(Found)
  BY DEF Incumbent, TypeOK, RootTypeOK, SearchInv, IncumbentKnown, Known, Found
<1>4. best' = Offer(Found, p).obj /\ primal' = Offer(Found, p).x
  BY DEF Found
<1>5. Offer(Found, p) \in Incumbent /\ Known(Offer(Found, p)) /\ Offer(Found, p).obj <= best
  BY <1>1, <1>2, <1>3, OfferKnown DEF Found
<1> QED
  BY <1>4, <1>5 DEF Incumbent, Known

\* A node may be dropped when no point of it is worth finding.
LEMMA DropNode ==
  ASSUME TypeOK, SearchInv, phase = "search", phase' = "search", NEW n \in queue,
         queue' = queue \ {n}, root' = root, unresolved' = unresolved,
         best' \in Int, best' <= best,
         \A q \in PointsIn[n.sub] : best' - AbsGap <= Cost[q]
  PROVE  Covered'
<1>1. root \in Sub /\ AbsGap \in Nat /\ best \in Int
      /\ \A q \in PointsIn[root] : Cost[q] \in Int
  BY RootIsSub, PointFacts, ToleranceTypes DEF TypeOK, RootTypeOK
<1>2. SUFFICES ASSUME ~unresolved, NEW q \in PointsIn[root], ~(best' - AbsGap <= Cost[q])
      PROVE  \E m \in queue' : q \in PointsIn[m.sub]
  BY DEF Covered
<1>3. ~(best - AbsGap <= Cost[q])
  BY <1>1, <1>2
<1>4. PICK m \in queue : q \in PointsIn[m.sub]
  BY <1>2, <1>3 DEF SearchInv, Covered
<1>5. m # n
  BY <1>2, <1>4
<1> QED
  BY <1>4, <1>5

\* Every path through the loop body that solves a node keeps the invariant.
LEMMA NodeInv ==
  ASSUME Sense = 1, TypeOK, SearchInv, phase = "search",
         NEW n \in queue, NEW v \in NodeVerdicts(n),
         \/ NodeFathomed(n, v) \/ NodeUnresolved(n, v) \/ NodeIntegral(n, v)
         \/ NodeStrongInfeasible(n, v) \/ NodeBranch(n, v)
  PROVE  SearchInv'
<1> USE DEF SearchInv
<1>0. /\ root \in Sub /\ n.sub \in Sub /\ n.depth \in Nat /\ n.lb \in Int /\ AbsGap \in Nat
      /\ best \in Int /\ blb \in Int
      /\ PointsIn[n.sub] \subseteq PointsIn[root]
      /\ \A q \in PointsIn[root] : Cost[q] \in Int /\ Cost[q] < Inf - AbsGap /\ q # NoPoint
      /\ \A q \in PointsIn[n.sub] : n.lb <= Cost[q]
  BY RootIsSub, PointFacts, ToleranceTypes DEF TypeOK, RootTypeOK, Node, NodesBounded
<1>1. /\ root' = root /\ rootSub' = rootSub /\ cur' = cur /\ result' = result
      /\ phase' \in {"search", "assemble"}
  BY DEF NodeFathomed, NodeUnresolved, NodeIntegral, NodeStrongInfeasible, NodeBranch, rootVars
<1>2. /\ v.status = "infeasible" => PointsIn[n.sub] = {}
      /\ v.status = "optimal" =>
           /\ v.obj \in Int /\ v.x \in LpPoint
           /\ \A q \in PointsIn[n.sub] : v.obj <= Cost[q]
           /\ v.x \in Point => v.x \in PointsIn[n.sub] /\ Cost[v.x] = v.obj /\ v.x # NoPoint
           /\ v.x \notin Point => Covers(n.sub, v.x)
  BY NodeContract
<1>3. RootInv' /\ BeforeSearch'
  BY <1>1 DEF RootInv, RootDomain, RootBound, NothingYet, BeforeSearch, Covers
<1>4. result'.status = "none" /\ result'.x = NoPoint
  BY <1>1 DEF RootInv, NothingYet, NoAnswer, Answer
<1>5. OptimalIsOptimal' /\ InfeasibleIsProven' /\ BoundIsValid'
  BY <1>4 DEF OptimalIsOptimal, InfeasibleIsProven, BoundIsValid
<1>6. queue' = queue \ {n} => NodesBounded'
  BY <1>1 DEF NodesBounded
<1>7. CASE NodeFathomed(n, v)
  <2>1. \A q \in PointsIn[n.sub] : best - AbsGap <= Cost[q]
    BY <1>0, <1>2, <1>7 DEF NodeFathomed, Dominated
  <2>2. Covered'
    BY <1>0, <1>7, <2>1, DropNode DEF NodeFathomed, rootVars
  <2>3. IncumbentKnown' /\ LowerBound'
    BY <1>1, <1>7 DEF NodeFathomed, rootVars, IncumbentKnown, LowerBound
  <2> QED
    BY <1>3, <1>5, <1>6, <1>7, <2>2, <2>3 DEF NodeFathomed
<1>8. CASE NodeUnresolved(n, v)
  <2>1. Covered' /\ LowerBound'
    BY <1>8 DEF NodeUnresolved, rootVars, Covered, LowerBound
  <2>2. IncumbentKnown'
    BY <1>8 DEF NodeUnresolved, rootVars, IncumbentKnown
  <2> QED
    BY <1>3, <1>5, <1>6, <1>8, <2>1, <2>2 DEF NodeUnresolved
<1>9. CASE NodeIntegral(n, v)
  <2>1. v.status = "optimal" /\ v.x \in Point
    BY <1>9 DEF NodeIntegral, Kept
  <2>2. best' \in Int /\ best' <= best /\ best' <= v.obj
    BY <1>0, <1>2, <1>9, <2>1, SerialConstants DEF NodeIntegral, Improves
  <2>3. \A q \in PointsIn[n.sub] : best' - AbsGap <= Cost[q]
    BY <1>0, <1>2, <2>1, <2>2
  <2>4. Covered'
    BY <1>9, <2>2, <2>3, DropNode DEF NodeIntegral
  <2>5. IncumbentKnown'
    BY <1>0, <1>2, <1>9, <2>1 DEF NodeIntegral, IncumbentKnown
  <2>6. LowerBound'
    BY <1>1, <1>9 DEF NodeIntegral, LowerBound
  <2> QED
    BY <1>3, <1>5, <1>6, <1>9, <2>4, <2>5, <2>6 DEF NodeIntegral
<1>10. CASE NodeStrongInfeasible(n, v)
  <2>1. v.status = "optimal" /\ v.x \in LpPoint /\ Covers(n.sub, v.x)
    BY <1>2, <1>10 DEF NodeStrongInfeasible, Kept
  <2>2. PointsIn[n.sub] = {}
    BY <1>0, <1>10, <2>1, EmptyChildren DEF NodeStrongInfeasible
  <2>3. best' \in Int /\ best' <= best /\ IncumbentKnown'
    BY <1>1, <1>10, RoundedKnown DEF NodeStrongInfeasible, IncumbentKnown
  <2>4. Covered'
    BY <1>10, <2>2, <2>3, DropNode DEF NodeStrongInfeasible
  <2>5. LowerBound'
    BY <1>1, <1>10 DEF NodeStrongInfeasible, LowerBound
  <2> QED
    BY <1>3, <1>5, <1>6, <1>10, <2>3, <2>4, <2>5 DEF NodeStrongInfeasible
<1>11. CASE NodeBranch(n, v)
  <2>1. v.status = "optimal" /\ v.x \in LpPoint /\ v.obj \in Int /\ Covers(n.sub, v.x)
    BY <1>2, <1>11 DEF NodeBranch, Kept
  <2>2. PICK K \in Branchings[n.sub][v.x] : queue' = (queue \ {n}) \union Children(n, v, K)
    BY <1>11 DEF NodeBranch
  <2>3. best' \in Int /\ best' <= best /\ IncumbentKnown'
    BY <1>1, <1>11, RoundedKnown DEF NodeBranch, IncumbentKnown
  <2>4. PointsIn[n.sub] = UNION {PointsIn[k] : k \in K} /\ unresolved' = unresolved
    BY <1>11, <2>1, <2>2 DEF Covers, NodeBranch
  <2>5. ASSUME ~unresolved, NEW q \in PointsIn[root], ~(best' - AbsGap <= Cost[q])
        PROVE  \E m \in queue' : q \in PointsIn[m.sub]
    <3>1. ~(best - AbsGap <= Cost[q])
      BY <1>0, <2>3, <2>5
    <3>2. PICK m \in queue : q \in PointsIn[m.sub]
      BY <2>5, <3>1 DEF Covered
    <3>3. CASE m # n
      BY <2>2, <3>2, <3>3
    <3>4. CASE m = n
      <4>1. PICK k \in K : q \in PointsIn[k]
        BY <2>4, <3>2, <3>4
      <4> DEFINE child == [sub |-> k, lb |-> v.obj, depth |-> n.depth + 1]
      <4>2. child \in Children(n, v, K)
        BY <1>0, <2>1 DEF Children
      <4>3. q \in PointsIn[child.sub]
        BY <4>1
      <4> QED
        BY <2>2, <4>2, <4>3
    <3> QED
      BY <3>3, <3>4
  <2>6. Covered'
    BY <1>1, <2>4, <2>5 DEF Covered
  <2>7. ASSUME NEW m \in queue'
        PROVE  /\ m.depth = 0 => m.sub = rootSub
               /\ PointsIn[m.sub] \subseteq PointsIn[root]
               /\ \A q \in PointsIn[m.sub] : m.lb <= Cost[q]
               /\ m.lb \in Int
    <3>1. CASE m \in queue
      BY <3>1 DEF NodesBounded, TypeOK, Node
    <3>2. CASE m \in Children(n, v, K)
      <4>1. m.sub \in K /\ m.lb = v.obj /\ m.depth = n.depth + 1
        BY <3>2 DEF Children
      <4>2. m.depth # 0
        BY <1>0, <4>1
      <4>3. PointsIn[m.sub] \subseteq PointsIn[n.sub]
        BY <2>4, <4>1
      <4> QED
        BY <1>0, <1>2, <2>1, <4>1, <4>2, <4>3
    <3> QED
      BY <2>2, <3>1, <3>2
  <2>8. NodesBounded'
    BY <1>1, <2>7 DEF NodesBounded
  <2>9. LowerBound'
    <3>1. SUFFICES ASSUME ~unresolved, NEW q \in PointsIn[root] PROVE blb' <= Cost[q] + AbsGap
      BY <1>1, <2>4 DEF LowerBound
    <3>2. CASE queue' = {} /\ blb' = blb
      BY <3>1, <3>2 DEF LowerBound
    <3>3. CASE \E t \in queue' : IsTop(t, queue') /\ blb' = MinOf(best', t.lb)
      <4>1. PICK t \in queue' : IsTop(t, queue') /\ blb' = MinOf(best', t.lb)
        BY <3>3
      <4>2. t.lb \in Int /\ blb' <= best' /\ blb' <= t.lb /\ blb' \in Int
        BY <2>3, <2>7, <4>1 DEF MinOf
      <4>3. CASE best' - AbsGap <= Cost[q]
        BY <1>0, <2>3, <4>2, <4>3
      <4>4. CASE ~(best' - AbsGap <= Cost[q])
        <5>1. PICK m \in queue' : q \in PointsIn[m.sub]
          BY <2>5, <3>1, <4>4
        <5>2. m.lb \in Int /\ m.lb <= Cost[q]
          BY <2>7, <5>1
        <5>3. t.lb <= m.lb
          BY <4>1, <4>2, <5>2 DEF IsTop, Before
        <5> QED
          BY <1>0, <4>2, <5>2, <5>3
      <4> QED
        BY <4>3, <4>4
    <3> QED
      BY <1>11, <3>2, <3>3 DEF NodeBranch
  <2> QED
    BY <1>3, <1>5, <2>3, <2>6, <2>8, <2>9
<1> QED
  BY <1>7, <1>8, <1>9, <1>10, <1>11

\* The answer assembled after the loop is supported by what the loop left.
LEMMA AssembleInv ==
  ASSUME Sense = 1, TypeOK, SearchInv, Assemble
  PROVE  SearchInv'
<1> USE DEF SearchInv
<1>0. /\ root \in Sub /\ AbsGap \in Nat /\ best \in Int /\ blb \in Int
      /\ \A q \in PointsIn[root] : Cost[q] \in Int /\ Cost[q] < Inf - AbsGap
  BY RootIsSub, PointFacts, ToleranceTypes DEF TypeOK, RootTypeOK
<1>1. /\ phase = "assemble" /\ phase' = "done" /\ root' = root /\ unresolved' = unresolved
  BY DEF Assemble, Finish, searchVars
<1>2. Complete => \A q \in PointsIn[root] : best - AbsGap <= Cost[q]
  BY <1>1 DEF Complete, Covered
<1>3. CASE primal # NoPoint
  <2>1. /\ result'.status = IF Complete THEN "optimal" ELSE "resource_limit"
        /\ result'.obj = best /\ result'.x = primal
        /\ result'.bound = IF queue = {} THEN best ELSE blb
    BY <1>3 DEF Assemble, Finish, Answer
  <2>2. primal \in PointsIn[root] /\ Cost[primal] = best
    BY <1>3 DEF IncumbentKnown
  <2>3. OptimalIsOptimal' /\ InfeasibleIsProven'
    <3>1. Complete => \A q \in PointsIn[root] : WithinTolerance(best, q)
      <4>1. ASSUME Complete, NEW q \in PointsIn[root] PROVE Sense * (best - Cost[q]) <= AbsGap
        BY <1>0, <1>2, <4>1
      <4> QED
        BY <4>1 DEF WithinTolerance
    <3> QED
      BY <1>1, <2>1, <2>2, <3>1 DEF OptimalIsOptimal, InfeasibleIsProven
  <2>4. BoundIsValid'
    <3>1. SUFFICES ASSUME ~unresolved, NEW q \in PointsIn[root]
          PROVE  (IF queue = {} THEN best ELSE blb) <= Cost[q] + AbsGap
      BY <1>1, <2>1 DEF BoundIsValid
    <3>2. CASE queue = {}
      <4>1. best - AbsGap <= Cost[q]
        BY <1>1, <3>1, <3>2 DEF Covered
      <4> QED
        BY <1>0, <3>2, <4>1
    <3>3. CASE queue # {}
      BY <1>1, <3>1, <3>3 DEF LowerBound
    <3> QED
      BY <3>2, <3>3
  <2> QED
    BY <1>1, <2>3, <2>4 DEF Assemble, searchVars, RootInv, RootDomain, RootBound, BeforeSearch, IncumbentKnown,
       NodesBounded, Covered, LowerBound, NothingYet, Covers
<1>4. CASE primal = NoPoint
  <2>1. /\ result'.status = IF Complete THEN "infeasible" ELSE "resource_limit"
        /\ result'.x = NoPoint
    BY <1>4 DEF Assemble, Finish, NoAnswer, Answer
  <2>2. Complete => PointsIn[root] = {}
    <3>1. best = Inf
      BY <1>4 DEF IncumbentKnown
    <3> QED
      BY <1>0, <1>2, <3>1
  <2>3. OptimalIsOptimal' /\ InfeasibleIsProven' /\ BoundIsValid'
    BY <1>1, <2>1, <2>2 DEF OptimalIsOptimal, InfeasibleIsProven, BoundIsValid
  <2> QED
    BY <1>1, <2>3 DEF Assemble, searchVars, RootInv, RootDomain, RootBound, BeforeSearch, IncumbentKnown,
       NodesBounded, Covered, LowerBound, NothingYet, Covers
<1> QED
  BY <1>3, <1>4

\* Each path through the tree search loop keeps the invariant.
LEMMA SearchStepInv ==
  ASSUME Sense = 1, TypeOK, SearchInv, Search
  PROVE  SearchInv'
<1> USE DEF SearchInv
<1>1. CASE StartSearch
  <2>1. /\ cur \in Verdicts[root] /\ cur.status = "optimal"
        /\ queue' = {[sub |-> rootSub, lb |-> cur.obj, depth |-> 0]}
    BY <1>1 DEF StartSearch, TypeOK, RootKnown
  <2>2. \A q \in PointsIn[root] : cur.obj <= Cost[q]
    BY <1>1, CurContract DEF StartSearch, TypeOK
  <2>3. NodesBounded' /\ Covered'
    BY <1>1, <2>1, <2>2 DEF StartSearch, NodesBounded, Covered, RootInv, RootDomain, RootBound
  <2>4. LowerBound'
    <3>1. root \in Sub /\ blb \in Int /\ \A q \in PointsIn[root] : blb <= Cost[q] /\ Cost[q] \in Int
      BY <1>1, RootIsSub, PointFacts DEF StartSearch, RootInv, RootBound, TypeOK, RootTypeOK
    <3>2. \A q \in PointsIn[root] : blb <= Cost[q] + AbsGap
      BY <3>1, WeakerBound
    <3> QED
      BY <1>1, <3>2 DEF StartSearch, LowerBound
  <2> QED
    BY <1>1, <2>3, <2>4 DEF StartSearch, RootInv, RootDomain, RootBound, BeforeSearch, IncumbentKnown,
       NothingYet, OptimalIsOptimal, InfeasibleIsProven, BoundIsValid, Covers, NoAnswer, Answer
<1>2. ASSUME NEW n \in queue, PopPruned(n) PROVE SearchInv'
  <2>1. phase = "search" /\ queue' = queue \ {n} /\ UNCHANGED <<rootVars, unresolved>>
    BY <1>2 DEF PopPruned, Pop, InLoop
  <2>2. n.sub \in Sub /\ n.lb \in Int /\ best \in Int /\ AbsGap \in Nat
    BY ToleranceTypes DEF TypeOK, RootTypeOK, Node
  <2>3. \A q \in PointsIn[n.sub] : best - AbsGap <= Cost[q]
    <3>1. \A q \in PointsIn[n.sub] : n.lb <= Cost[q] /\ Cost[q] \in Int
      BY <2>2, PointFacts DEF NodesBounded
    <3> QED
      BY <1>2, <2>2, <3>1 DEF PopPruned, Dominated
  <2>4. Covered'
    BY <2>1, <2>2, <2>3, DropNode DEF rootVars
  <2> QED
    BY <2>1, <2>4 DEF rootVars, RootInv, RootDomain, RootBound, BeforeSearch, IncumbentKnown, NodesBounded, LowerBound,
       NothingYet, OptimalIsOptimal, InfeasibleIsProven, BoundIsValid, Covers
<1>3. ASSUME NEW n \in queue, NEW v \in NodeVerdicts(n),
             \/ NodeFathomed(n, v) \/ NodeUnresolved(n, v) \/ NodeIntegral(n, v)
             \/ NodeStrongInfeasible(n, v) \/ NodeBranch(n, v)
      PROVE  SearchInv'
  <2>1. phase = "search"
    BY <1>3 DEF NodeFathomed, NodeUnresolved, NodeIntegral, NodeStrongInfeasible,
       NodeBranch, Solve, Pop, InLoop
  <2> QED
    BY <1>3, <2>1, NodeInv
<1>4. CASE LoopTimeout
  BY <1>4 DEF LoopTimeout, InLoop, RootInv, RootDomain, RootBound, BeforeSearch, IncumbentKnown, NodesBounded, Covered,
     LowerBound, NothingYet, OptimalIsOptimal, InfeasibleIsProven, BoundIsValid, Covers, NoAnswer, Answer
<1>5. CASE LoopEnds
  BY <1>5 DEF LoopEnds, searchVars, RootInv, RootDomain, RootBound, BeforeSearch, IncumbentKnown, NodesBounded, Covered,
     LowerBound, NothingYet, OptimalIsOptimal, InfeasibleIsProven, BoundIsValid, Covers, NoAnswer, Answer
<1> QED
  BY <1>1, <1>2, <1>3, <1>4, <1>5, AssembleInv DEF Search

\* Every step keeps the invariant.
LEMMA NextInv ==
  ASSUME Sense = 1, TypeOK, SearchInv, [Next]_vars
  PROVE  SearchInv'
<1>1. CASE TimeExpires
  BY <1>1 DEF TimeExpires, SearchInv, rootVars, RootInv, RootDomain, RootBound, BeforeSearch, IncumbentKnown, NodesBounded,
     Covered, LowerBound, NothingYet, OptimalIsOptimal, InfeasibleIsProven, BoundIsValid, Covers
<1>2. CASE UNCHANGED vars
  BY <1>2 DEF vars, searchVars, SearchInv, rootVars, RootInv, RootDomain, RootBound, BeforeSearch, IncumbentKnown, NodesBounded,
     Covered, LowerBound, NothingYet, OptimalIsOptimal, InfeasibleIsProven, BoundIsValid, Covers
<1> QED
  BY <1>1, <1>2, RootKeepsInv, SearchStepInv DEF Next

\* The strengthened invariant of the serial search of a minimisation.
THEOREM Invariance ==
  ASSUME Sense = 1
  PROVE  Spec => []SearchInv
<1>1. TypeOK /\ SearchInv /\ [Next]_vars => SearchInv'
  BY NextInv
<1> QED
  BY <1>1, InitInv, TypeCorrect, PTL DEF Spec

\* milp::solve answers "optimal" only with a point that no integer point of the
\* model beats by more than a gap tolerance, for every problem whose relaxations
\* and branchings meet the contract, and every node, time and gap limit.
THEOREM SerialOptimalIsOptimal ==
  ASSUME Sense = 1
  PROVE  Spec => []OptimalIsOptimal
<1>1. SearchInv => OptimalIsOptimal
  BY DEF SearchInv
<1> QED
  BY <1>1, Invariance, PTL

\* milp::solve answers "infeasible" only for a model without integer points.
THEOREM SerialInfeasibleIsProven ==
  ASSUME Sense = 1
  PROVE  Spec => []InfeasibleIsProven
<1>1. SearchInv => InfeasibleIsProven
  BY DEF SearchInv
<1> QED
  BY <1>1, Invariance, PTL

\* best_bound bounds every integer point, less the absolute gap, unless a
\* relaxation stayed unresolved.
THEOREM SerialBoundIsValid ==
  ASSUME Sense = 1
  PROVE  Spec => []BoundIsValid
<1>1. SearchInv => BoundIsValid
  BY DEF SearchInv
<1> QED
  BY <1>1, Invariance, PTL

\* The open nodes, the incumbent and the unresolved nodes together always
\* account for every integer point of the model.
THEOREM SerialCovered ==
  ASSUME Sense = 1
  PROVE  Spec => []Covered
<1>1. SearchInv => Covered
  BY DEF SearchInv
<1> QED
  BY <1>1, Invariance, PTL

-----------------------------------------------------------------------------
(***************************************************************************)
(* The search implements AnytimeSearch: a step either leaves the caller's  *)
(* view alone, improves the incumbent or gives the one, justified answer.  *)
(***************************************************************************)
Shown == IF phase = "done" THEN result.x ELSE primal
View == <<root, Shown, result.status>>

\* While no answer is given, a step shows nothing new or improves the incumbent.
LEMMA StepBeforeAnswer ==
  ASSUME phase # "done", phase' # "done", result' = result, root' = root,
         result.status = "none",
         Gained
  PROVE  [Promise!Next]_View
  BY DEF Gained, Promise!Next, Promise!Improve, Promise!Better, View, Shown

\* The answer is a conclusion of the abstract search.
LEMMA StepToAnswer ==
  ASSUME Sense = 1, SearchInv', phase # "done", phase' = "done", root' = root,
         result.status = "none",
         result'.status \in {"optimal", "infeasible", "failed", "resource_limit"},
         result'.x \in PointsIn[root] \union {NoPoint}, NoPoint \notin PointsIn[root],
         primal \in {NoPoint, result'.x},
         result'.status = "optimal" => result'.x # NoPoint
  PROVE  [Promise!Next]_View
<1>1. result'.status = "optimal" => \A q \in PointsIn[root] : WithinTolerance(Cost[result'.x], q)
  BY DEF SearchInv, OptimalIsOptimal
<1>2. result'.status = "infeasible" => PointsIn[root] = {}
  BY DEF SearchInv, InfeasibleIsProven
<1>3. \A obj, q : Promise!WithinTolerance(obj, q) = WithinTolerance(obj, q)
  BY DEF WithinTolerance, Promise!WithinTolerance, Abs, Promise!Abs, MaxOf, Promise!MaxOf
<1>4. Promise!Justified(result'.status, result'.x)
  BY <1>1, <1>2, <1>3 DEF Promise!Justified
<1>5. result'.x \in PointsIn[root] \union {primal} /\ (result'.x = primal \/ primal = NoPoint)
  OBVIOUS
<1>6. Promise!Conclude
  BY <1>4, <1>5 DEF Promise!Conclude, Shown
<1> QED
  BY <1>6 DEF Promise!Next

\* A step of the search is a step of the promise, or leaves what it shows unchanged.
LEMMA StepSimulation ==
  ASSUME Sense = 1, TypeOK, SearchInv, SearchInv', [Next]_vars
  PROVE  [Promise!Next]_View
<1>0. /\ root \in Sub /\ best \in Int
      /\ \A q \in PointsIn[root] : Cost[q] \in Int /\ q # NoPoint /\ q \in Point
      /\ \A s \in Sub : \A q \in PointsIn[s] : Cost[q] \in Int
      /\ primal = NoPoint => best = Inf
      /\ primal # NoPoint => primal \in PointsIn[root] /\ Cost[primal] = best
      /\ [obj |-> best, x |-> primal] \in Incumbent
      /\ phase # "done" => result.status = "none"
  BY RootIsSub, PointFacts DEF TypeOK, RootTypeOK, SearchInv, IncumbentKnown, Incumbent, RootInv, NothingYet,
     NoAnswer, Answer
<1>1. CASE UNCHANGED vars
  BY <1>1 DEF vars, rootVars, View, Shown
<1>2. CASE TimeExpires
  BY <1>2 DEF TimeExpires, rootVars, View, Shown
<1>3. CASE Root
  <2>1. RootTypeOK /\ RootKnown /\ RootInv /\ IncumbentKnown /\ RootNext
    BY <1>3 DEF TypeOK, SearchInv, Root
  <2>2. phase # "done" /\ root' = root /\ Gained
    BY <2>1, RootFrame, RootIncumbent DEF RootNext, RootLpEnds, RootLpIntegral, RootLpFractional, RootHeuristics,
       RootNoCuts, RootCuts, RootGapClosed, RootGapOpen, StrongInfeasible, StrongReduce, StrongNothing
  <2>3. CASE phase' = "done"
    BY <1>0, <2>1, <2>2, <2>3, RootAnswers, StepToAnswer DEF AnswerFollows
  <2>4. CASE phase' # "done"
    BY <1>0, <2>1, <2>2, <2>4, RootFrame, StepBeforeAnswer
  <2> QED
    BY <2>3, <2>4
<1>4. CASE Assemble
  <2>1. phase # "done" /\ phase' = "done" /\ root' = root
    BY <1>4 DEF Assemble, Finish
  <2>2. result'.status \in {"optimal", "infeasible", "resource_limit"}
    BY <1>4 DEF Assemble, Finish, Answer, NoAnswer
  <2>3. result'.x = primal
    BY <1>4 DEF Assemble, Finish, Answer, NoAnswer
  <2>4. result'.status = "optimal" => result'.x # NoPoint
    BY <1>0, <2>1 DEF SearchInv, OptimalIsOptimal
  <2> QED
    BY <1>0, <2>1, <2>2, <2>3, <2>4, StepToAnswer
<1>5. CASE StartSearch \/ LoopTimeout \/ LoopEnds
  BY <1>0, <1>5, StepBeforeAnswer DEF StartSearch, LoopTimeout, LoopEnds, InLoop, Gained
<1>6. ASSUME NEW n \in queue, PopPruned(n) PROVE [Promise!Next]_View
  BY <1>6 DEF PopPruned, rootVars, View, Shown
<1>7. ASSUME NEW n \in queue, NEW v \in NodeVerdicts(n),
              \/ NodeFathomed(n, v) \/ NodeUnresolved(n, v) \/ NodeIntegral(n, v)
              \/ NodeStrongInfeasible(n, v) \/ NodeBranch(n, v)
       PROVE  [Promise!Next]_View
  <2>1. phase = "search" /\ phase' \in {"search", "assemble"} /\ root' = root /\ result' = result
    BY <1>7 DEF NodeFathomed, NodeUnresolved, NodeIntegral, NodeStrongInfeasible, NodeBranch,
       Solve, Pop, InLoop, rootVars
  <2>2. /\ n.sub \in Sub /\ PointsIn[n.sub] \subseteq PointsIn[root]
        /\ v.status = "optimal" /\ v.x \in Point =>
             v.x \in PointsIn[n.sub] /\ Cost[v.x] = v.obj
    BY <2>1, NodeContract DEF SearchInv, NodesBounded, TypeOK, Node
  <2>3. ASSUME NEW p \in Rounded(n),
               LET inc == Offer([obj |-> best, x |-> primal], p)
               IN  best' = inc.obj /\ primal' = inc.x
        PROVE  Gained
    <3>1. p \in PointsIn[root] \union {NoPoint} /\ Known(Found)
      BY <1>0, <2>2 DEF Rounded, Known, Found
    <3> DEFINE new == Offer(Found, p)
    <3>2. Known(new) /\ (new = Found \/ (new.x \in PointsIn[root] /\ new.obj < best))
      BY <1>0, <3>1, OfferKnown DEF Found
    <3>3. primal' = new.x
      BY <2>3 DEF Found
    <3> QED
      BY <1>0, <3>2, <3>3 DEF Gained, Known, Found
  <2>4. Gained
    <3>1. CASE NodeFathomed(n, v) \/ NodeUnresolved(n, v)
      BY <3>1 DEF NodeFathomed, NodeUnresolved, rootVars, Gained
    <3>2. CASE NodeIntegral(n, v)
      BY <1>0, <2>2, <3>2, SerialConstants DEF NodeIntegral, Kept, Improves, Gained
    <3>3. CASE NodeStrongInfeasible(n, v)
      BY <2>3, <3>3 DEF NodeStrongInfeasible
    <3>4. CASE NodeBranch(n, v)
      BY <2>3, <3>4 DEF NodeBranch
    <3> QED
      BY <1>7, <3>1, <3>2, <3>3, <3>4
  <2> QED
    BY <1>0, <2>1, <2>4, StepBeforeAnswer
<1> QED
  BY <1>1, <1>2, <1>3, <1>4, <1>5, <1>6, <1>7 DEF Next, Search

\* milp::solve implements the abstract anytime search: whatever it shows as its
\* incumbent only improves, and its one answer is justified by the model.
THEOREM SerialImplements ==
  ASSUME Sense = 1
  PROVE  Spec => Implements
<1>1. Init => Promise!Init
  BY DEF Init, RootInit, Promise!Init, Shown, NoAnswer, Answer
<1>2. TypeOK /\ SearchInv /\ SearchInv' /\ [Next]_vars => [Promise!Next]_View
  BY StepSimulation
<1> QED
  BY <1>1, <1>2, TypeCorrect, Invariance, PTL DEF Spec, Implements, Promise!Spec, View, Shown
=============================================================================
