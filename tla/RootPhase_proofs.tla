-------------------------- MODULE RootPhase_proofs -------------------------
(***************************************************************************)
(* What the root stages leave for the tree searches: types, an incumbent   *)
(* with the objective held, a bound, reduced bounds that lose no point,    *)
(* and the answers given without a search.  Both searches start here; all  *)
(* that differs is ImproveEps.                                             *)
(***************************************************************************)
EXTENDS RootPhase, TLAPS

\* A relaxation's answer is a Verdict, and an optimal one has a primal vector.
LEMMA VerdictType ==
  ASSUME NEW s \in Sub, NEW v \in Verdicts[s]
  PROVE  /\ v \in Verdict
         /\ v.status = "optimal" => v.x \in LpPoint
  BY SpaceTypes, RelaxationContract

\* The problem posed is itself a subproblem.
LEMMA RootIsSub == ASSUME NEW r \in Roots PROVE r \in Sub
  BY SpaceTypes

\* The integer points of a subproblem have finite objectives.
LEMMA PointFacts ==
  ASSUME NEW s \in Sub
  PROVE  /\ PointsIn[s] \subseteq Point
         /\ \A q \in PointsIn[s] : Cost[q] \in Int /\ Cost[q] < Inf - AbsGap /\ q # NoPoint
  BY SpaceTypes, FiniteValues

\* An optimal relaxation has a finite objective, and an integral point its own.
LEMMA VerdictExact ==
  ASSUME NEW s \in Sub, NEW v \in Verdicts[s], v.status = "optimal"
  PROVE  /\ v.obj \in Int /\ v.obj < Inf - AbsGap /\ v.x \in LpPoint
         /\ v.x \in Point => v.x \in PointsIn[s] /\ Cost[v.x] = v.obj /\ v.x # NoPoint
  BY VerdictType, PointFacts, RelaxationContract, FiniteValues DEF Verdict

\* What a relaxation and the branching on its point say of a subproblem's
\* integer points; that its objective bounds them is for a minimisation.
LEMMA VerdictContract ==
  ASSUME NEW s \in Sub, NEW v \in Verdicts[s]
  PROVE  /\ v.status = "infeasible" => PointsIn[s] = {}
         /\ v.status = "optimal" /\ Sense = 1 => \A q \in PointsIn[s] : v.obj <= Cost[q]
         /\ v.status = "optimal" /\ v.x \notin Point =>
              /\ Covers(s, v.x)
              /\ \A t \in Tightenings[s][v.x] : PointsIn[t] = PointsIn[s] /\ Covers(t, v.x)
<1>1. v.obj \in Int /\ \A q \in PointsIn[s] : Cost[q] \in Int
  BY VerdictType, PointFacts DEF Verdict
<1>2. v.status = "optimal" => \A q \in PointsIn[s] : Sense * v.obj <= Sense * Cost[q]
  BY RelaxationContract
<1>3. v.status = "optimal" /\ Sense = 1 => \A q \in PointsIn[s] : v.obj <= Cost[q]
  BY <1>1, <1>2
<1> QED
  BY <1>3, RelaxationContract, BranchingContract

\* Children all proven infeasible leave nothing of their parent.
LEMMA EmptyChildren ==
  ASSUME NEW s \in Sub, NEW x \in LpPoint, Covers(s, x),
         NEW K \in Branchings[s][x], ProvenEmpty(K)
  PROVE  PointsIn[s] = {}
<1>1. K \subseteq Sub
  BY SpaceTypes
<1>2. \A k \in K : PointsIn[k] = {}
  BY <1>1, RelaxationContract DEF ProvenEmpty
<1> QED
  BY <1>2 DEF Covers

\* Multiplying by a tolerance keeps an inequality.
LEMMA MultiplyMonotone ==
  ASSUME NEW a \in Int, NEW b \in Int, NEW d \in Nat, a <= b
  PROVE  a * d <= b * d
<1>1. (b - a) * d >= 0
  OBVIOUS
<1>2. (b - a) * d = b * d - a * d
  OBVIOUS
<1> QED
  BY <1>1, <1>2

\* A closed gap to a bound makes an objective optimal within tolerance.
LEMMA GapJustifies ==
  ASSUME Sense = 1, NEW z \in Int, NEW b \in Int, GapClosed(z, b),
         NEW q, Cost[q] \in Int, b <= Cost[q]
  PROVE  WithinTolerance(z, q)
<1>1. z - Cost[q] <= Abs(z - b) /\ Abs(z - b) \in Int
  BY DEF Abs
<1>2. (z - Cost[q]) * RelDen <= Abs(z - b) * RelDen
  BY <1>1, MultiplyMonotone, ToleranceTypes
<1>3. /\ (z - Cost[q]) * RelDen \in Int /\ Abs(z - b) * RelDen \in Int
      /\ RelNum * MaxOf(Scale, Abs(z)) \in Int
  BY <1>1, ToleranceTypes DEF MaxOf, Abs
<1>4. (z - Cost[q]) * RelDen <= RelNum * MaxOf(Scale, Abs(z))
  BY <1>2, <1>3 DEF GapClosed
<1>5. Sense * (z - Cost[q]) = z - Cost[q]
  OBVIOUS
<1> QED
  BY <1>4, <1>5 DEF WithinTolerance

-----------------------------------------------------------------------------
Incumbent == [obj : Int, x : Point \union {NoPoint}]

\* What an incumbent is to a model: a point of it with its objective, or none.
Known(inc) ==
  IF inc.x = NoPoint THEN inc.obj = Inf ELSE inc.x \in PointsIn[root] /\ Cost[inc.x] = inc.obj
Found == [obj |-> best, x |-> primal]

\* What the incumbent becomes when a heuristic offers it a point.
LEMMA OfferType ==
  ASSUME NEW inc \in Incumbent, NEW p \in Point \union {NoPoint}
  PROVE  Offer(inc, p) \in Incumbent
  BY SpaceTypes DEF Offer, Incumbent

\* An offer keeps the incumbent an integer point of the model, and it either
\* stays or gets better.
LEMMA OfferKnown ==
  ASSUME NEW inc \in Incumbent, NEW p \in PointsIn[root] \union {NoPoint}, root \in Sub, Known(inc)
  PROVE  LET new == Offer(inc, p) IN
         /\ new \in Incumbent /\ Known(new) /\ new.obj <= inc.obj
         /\ new = inc \/ (new.x \in PointsIn[root] /\ new.obj < inc.obj)
<1>1. p # NoPoint => p \in PointsIn[root] /\ p \in Point /\ Cost[p] \in Int
  BY PointFacts
<1>2. ImproveEps \in Nat
  BY ImproveEpsType, ToleranceTypes
<1> QED
  BY <1>1, <1>2, OfferType DEF Offer, Incumbent, Known
\* The root phase keeps its state well typed.
LEMMA RootType ==
  ASSUME RootTypeOK, RootKnown, RootNext
  PROVE  RootTypeOK' /\ RootKnown'
<1> USE DEF RootTypeOK, RootKnown, Phases
<1>0. /\ root \in Sub
      /\ \A v \in Verdicts[root] : v \in Verdict
      /\ \A v \in Verdict : v.obj \in Int /\ v.x \in LpPoint \union {NoPoint}
      /\ phase \notin {"lp", "done"} => cur.x \in LpPoint
  BY RootIsSub, VerdictType DEF Verdict
<1>1. \A s \in Statuses, o, b \in Int, x \in LpPoint \union {NoPoint} :
        Answer(s, o, b, x) \in Results
  BY DEF Answer, Results
<1>2. \A s \in Statuses : NoAnswer(s) \in Results
  BY DEF NoAnswer, Answer, Results
<1>3. CASE RootLpEnds
  <2>1. PICK v \in Verdicts[root] : Finish(NoAnswer(v.status))
    BY <1>3 DEF RootLpEnds
  <2>2. v.status \in Statuses
    BY <1>0 DEF Verdict, LpStatus, Statuses
  <2> QED
    BY <1>2, <1>3, <2>1, <2>2 DEF RootLpEnds, Finish
<1>4. CASE RootLpIntegral
  <2>1. PICK v \in Verdicts[root] : Finish(Answer("optimal", v.obj, v.obj, v.x))
    BY <1>4 DEF RootLpIntegral
  <2>2. v.obj \in Int /\ v.x \in LpPoint \union {NoPoint} /\ "optimal" \in Statuses
    BY <1>0 DEF Statuses
  <2> QED
    BY <1>1, <1>4, <2>1, <2>2 DEF RootLpIntegral, Finish
<1>5. CASE RootLpFractional
  BY <1>0, <1>5 DEF RootLpFractional
<1>6. CASE RootHeuristics
  <2>1. PICK rounded, pumped \in PointsIn[root] \union {NoPoint} :
          LET inc == Offer(Offer([obj |-> best, x |-> primal], rounded), pumped)
          IN  best' = inc.obj /\ primal' = inc.x
    BY <1>6 DEF RootHeuristics
  <2>2. rounded \in Point \union {NoPoint} /\ pumped \in Point \union {NoPoint}
    BY <1>0, SpaceTypes
  <2>3. [obj |-> best, x |-> primal] \in Incumbent
    BY DEF Incumbent
  <2>4. Offer(Offer([obj |-> best, x |-> primal], rounded), pumped) \in Incumbent
    BY <2>2, <2>3, OfferType
  <2> QED
    BY <1>6, <2>1, <2>4 DEF RootHeuristics, Incumbent
<1>7. CASE RootNoCuts
  BY <1>7 DEF RootNoCuts
<1>8. CASE RootCuts
  BY <1>0, <1>8 DEF RootCuts, MaxOf
<1>9. CASE RootGapClosed
  <2>1. primal \in LpPoint \union {NoPoint} /\ "optimal" \in Statuses
    BY SpaceTypes DEF Statuses
  <2> QED
    BY <1>1, <1>9, <2>1 DEF RootGapClosed, Finish
<1>10. CASE RootGapOpen
  BY <1>10 DEF RootGapOpen
<1>11. CASE StrongInfeasible
  <2>1. "infeasible" \in Statuses
    BY DEF Statuses
  <2> QED
    BY <1>2, <1>11, <2>1 DEF StrongInfeasible, Finish
<1>12. CASE StrongReduce
  <2>1. Tightenings[root][cur.x] \subseteq Sub
    BY <1>0, <1>12, SpaceTypes DEF StrongReduce
  <2> QED
    BY <1>12, <2>1 DEF StrongReduce
<1>13. CASE StrongNothing
  BY <1>13 DEF StrongNothing
<1> QED
  BY <1>3, <1>4, <1>5, <1>6, <1>7, <1>8, <1>9, <1>10, <1>11, <1>12, <1>13 DEF RootNext

-----------------------------------------------------------------------------
\* The root stages leave the model alone, and the answer open until they end.
LEMMA RootFrame ==
  ASSUME RootTypeOK, RootNext
  PROVE  /\ root' = root /\ root \in Sub /\ AbsGap \in Nat
         /\ best \in Int /\ blb \in Int
         /\ \A q \in PointsIn[root] : Cost[q] \in Int /\ Cost[q] < Inf - AbsGap /\ q # NoPoint
         /\ phase' # "done" => result' = result
<1>1. root \in Sub
  BY RootIsSub DEF RootTypeOK
<1>2. root' = root /\ (phase' # "done" => result' = result)
  BY DEF RootNext, RootLpEnds, RootLpIntegral, RootLpFractional, RootHeuristics, RootNoCuts, RootCuts,
     RootGapClosed, RootGapOpen, StrongInfeasible, StrongReduce, StrongNothing, Finish
<1> QED
  BY <1>1, <1>2, PointFacts, ToleranceTypes DEF RootTypeOK

\* The relaxation in cur is one of the root's.
LEMMA CurContract ==
  ASSUME RootTypeOK, RootKnown, phase \notin {"lp", "done"}
  PROVE  /\ cur \in Verdicts[root] /\ cur.status = "optimal" /\ cur.x \in LpPoint
         /\ cur.obj \in Int /\ cur.obj < Inf - AbsGap
         /\ cur.x \in Point => cur.x \in PointsIn[root] /\ Cost[cur.x] = cur.obj
         /\ cur.x \notin Point => Covers(root, cur.x)
         /\ Sense = 1 => \A q \in PointsIn[root] : cur.obj <= Cost[q]
<1>1. root \in Sub /\ cur \in Verdicts[root] /\ cur.status = "optimal"
  BY RootIsSub DEF RootTypeOK, RootKnown
<1> QED
  BY <1>1, VerdictExact, VerdictContract

Gained == primal' = primal \/ (primal' \in PointsIn[root] /\ (primal = NoPoint \/ Cost[primal'] < Cost[primal]))

\* Through the root stages the incumbent is a point of the model with the
\* objective held, and it only gets better.
LEMMA RootIncumbent ==
  ASSUME RootTypeOK, RootKnown, IncumbentKnown, RootNext
  PROVE  IncumbentKnown' /\ Gained
<1>0. /\ root' = root /\ root \in Sub /\ best \in Int /\ ImproveEps \in Nat
      /\ \A q \in PointsIn[root] : Cost[q] \in Int /\ q # NoPoint
  BY RootFrame, ImproveEpsType, ToleranceTypes
<1>1. CASE RootHeuristics
  <2>1. PICK rounded, pumped \in PointsIn[root] \union {NoPoint} :
          LET inc == Offer(Offer(Found, rounded), pumped)
          IN  best' = inc.obj /\ primal' = inc.x
    BY <1>1 DEF RootHeuristics, Found
  <2> DEFINE inc1 == Offer(Found, rounded)
             inc2 == Offer(inc1, pumped)
  <2>2. Found \in Incumbent /\ Known(Found)
    BY DEF Found, Incumbent, RootTypeOK, IncumbentKnown, Known
  <2>3. /\ inc1 \in Incumbent /\ Known(inc1) /\ inc1.obj <= best
        /\ inc1 = Found \/ (inc1.x \in PointsIn[root] /\ inc1.obj < best)
    BY <1>0, <2>2, OfferKnown DEF Found
  <2>4. /\ inc2 \in Incumbent /\ Known(inc2)
        /\ inc2 = inc1 \/ (inc2.x \in PointsIn[root] /\ inc2.obj < inc1.obj)
    BY <1>0, <2>3, OfferKnown
  <2>5. best' = inc2.obj /\ primal' = inc2.x
    BY <2>1
  <2>6. inc2 = Found \/ (inc2.x \in PointsIn[root] /\ inc2.obj < best)
    BY <1>0, <2>3, <2>4 DEF Incumbent
  <2>7. IncumbentKnown'
    BY <1>0, <2>4, <2>5 DEF IncumbentKnown, Known
  <2>8. Gained
    BY <1>0, <2>4, <2>5, <2>6 DEF Gained, Found, Known, IncumbentKnown
  <2> QED
    BY <2>7, <2>8
<1>2. CASE RootCuts
  <2>1. PICK v \in Verdicts[root] :
          /\ v.status = "optimal"
          /\ cur' = v
          /\ IF v.x \in Point /\ Improves(v.obj)
             THEN best' = v.obj /\ primal' = v.x
             ELSE UNCHANGED <<best, primal>>
    BY <1>2 DEF RootCuts
  <2>2. /\ v.obj \in Int /\ v.obj < Inf - AbsGap
        /\ v.x \in Point => v.x \in PointsIn[root] /\ Cost[v.x] = v.obj /\ v.x # NoPoint
    BY <1>0, <2>1, VerdictExact
  <2>3. IncumbentKnown' /\ Gained
    BY <1>0, <2>1, <2>2 DEF IncumbentKnown, Gained, Improves
  <2> QED
    BY <2>3
<1>3. CASE RootLpEnds \/ RootLpIntegral \/ RootGapClosed \/ StrongInfeasible
  BY <1>0, <1>3 DEF RootLpEnds, RootLpIntegral, RootGapClosed, StrongInfeasible, Finish,
     IncumbentKnown, Gained
<1>4. CASE RootLpFractional \/ RootNoCuts \/ RootGapOpen \/ StrongReduce \/ StrongNothing
  BY <1>0, <1>4 DEF RootLpFractional, RootNoCuts, RootGapOpen, StrongReduce, StrongNothing,
     IncumbentKnown, Gained
<1> QED
  BY <1>1, <1>2, <1>3, <1>4 DEF RootNext

\* An integral point left after the cuts is no better than the incumbent, by
\* more than what an improvement must be.
FoundIntegral ==
  /\ phase \in {"heuristics", "cuts"} => cur.x \notin Point
  /\ phase \in {"gap", "strong", "start"} /\ cur.x \in Point => primal # NoPoint /\ best - AbsGap <= cur.obj

LEMMA RootFound ==
  ASSUME RootTypeOK, RootKnown, IncumbentKnown, FoundIntegral, RootNext
  PROVE  FoundIntegral'
<1>0. /\ root \in Sub /\ AbsGap \in Nat /\ best \in Int
      /\ ImproveEps \in Nat /\ ImproveEps <= AbsGap
  BY RootFrame, ImproveEpsType
<1>1. CASE RootCuts
  <2>1. PICK v \in Verdicts[root] :
          /\ v.status = "optimal"
          /\ cur' = v
          /\ IF v.x \in Point /\ Improves(v.obj)
             THEN best' = v.obj /\ primal' = v.x
             ELSE UNCHANGED <<best, primal>>
    BY <1>1 DEF RootCuts
  <2>2. v.obj \in Int /\ v.obj < Inf - AbsGap /\ (v.x \in Point => v.x # NoPoint)
    BY <1>0, <2>1, VerdictExact
  <2>3. phase' = "gap"
    BY <1>1 DEF RootCuts
  <2>4. SUFFICES ASSUME v.x \in Point PROVE primal' # NoPoint /\ best' - AbsGap <= v.obj
    BY <2>1, <2>3 DEF FoundIntegral
  <2>5. CASE Improves(v.obj)
    BY <1>0, <2>1, <2>2, <2>4, <2>5
  <2>6. CASE ~Improves(v.obj)
    <3>1. best' = best /\ primal' = primal /\ best - ImproveEps <= v.obj
      BY <1>0, <2>1, <2>2, <2>6 DEF Improves
    <3>2. Inf \in Int
      BY ToleranceTypes
    <3> QED
      BY <1>0, <2>2, <3>1, <3>2 DEF IncumbentKnown
  <2> QED
    BY <2>5, <2>6
<1>2. CASE ~RootCuts
  BY <1>2 DEF RootNext, RootLpEnds, RootLpIntegral, RootGapClosed, StrongInfeasible, Finish, RootHeuristics,
     RootLpFractional, RootNoCuts, RootGapOpen, StrongReduce, StrongNothing, FoundIntegral
<1> QED
  BY <1>1, <1>2

-----------------------------------------------------------------------------
\* An answer that the integer points of the model support.
AnswerIsSound ==
  /\ result.status = "optimal" =>
       /\ result.x \in PointsIn[root] /\ Cost[result.x] = result.obj
       /\ \A q \in PointsIn[root] : WithinTolerance(result.obj, q)
  /\ result.status = "infeasible" => PointsIn[root] = {}
  /\ result.x # NoPoint => \A q \in PointsIn[root] : result.bound <= Cost[q] + AbsGap

\* An answer that improves on what was shown, or repeats it.
AnswerFollows ==
  /\ result'.status \in {"optimal", "infeasible", "failed", "resource_limit"}
  /\ result'.x \in PointsIn[root] \union {NoPoint}
  /\ primal \in {NoPoint, result'.x}
  /\ result'.status = "optimal" => result'.x # NoPoint

\* No answer claims nothing.
LEMMA NothingClaimed == result = NoAnswer("none") => AnswerIsSound
  BY DEF AnswerIsSound, NoAnswer, Answer

\* A bound that holds does so within a tolerance.
LEMMA WeakerBound ==
  ASSUME NEW b \in Int, NEW c \in Int, b <= c
  PROVE  b <= c + AbsGap
  BY ToleranceTypes

\* The root stages that answer are right to.
LEMMA RootAnswers ==
  ASSUME Sense = 1, RootTypeOK, RootKnown, RootInv, IncumbentKnown, RootNext, phase' = "done"
  PROVE  AnswerIsSound' /\ AnswerFollows
<1>0. /\ root' = root /\ root \in Sub /\ AbsGap \in Nat /\ best \in Int /\ blb \in Int
      /\ \A q \in PointsIn[root] : Cost[q] \in Int /\ q # NoPoint
  BY RootFrame
<1>1. CASE RootLpEnds
  <2>1. PICK v \in Verdicts[root] : v.status # "optimal" /\ result' = NoAnswer(v.status)
    BY <1>1 DEF RootLpEnds, Finish
  <2>2. /\ v.status = "infeasible" => PointsIn[root] = {}
        /\ v.status \in {"infeasible", "failed"}
    BY <1>0, <2>1, VerdictContract, VerdictType DEF Verdict, LpStatus
  <2>3. result'.status = v.status /\ result'.x = NoPoint /\ primal = NoPoint
    BY <1>1, <2>1 DEF NoAnswer, Answer, RootLpEnds, RootInv, NothingYet
  <2> QED
    BY <1>0, <2>2, <2>3 DEF AnswerIsSound, AnswerFollows
<1>2. CASE RootLpIntegral
  <2>1. PICK v \in Verdicts[root] :
          v.status = "optimal" /\ v.x \in Point /\ result' = Answer("optimal", v.obj, v.obj, v.x)
    BY <1>2 DEF RootLpIntegral, Finish
  <2>2. /\ v.x \in PointsIn[root] /\ Cost[v.x] = v.obj /\ v.obj \in Int /\ v.x # NoPoint
        /\ \A q \in PointsIn[root] : v.obj <= Cost[q]
    BY <1>0, <2>1, VerdictExact, VerdictContract
  <2>3. result'.status = "optimal" /\ result'.x = v.x /\ result'.obj = v.obj /\ result'.bound = v.obj
    BY <2>1 DEF Answer
  <2>4. \A q \in PointsIn[root] : WithinTolerance(v.obj, q) /\ v.obj <= Cost[q] + AbsGap
    BY <1>0, <2>2, WeakerBound DEF WithinTolerance
  <2>5. primal = NoPoint
    BY <1>2 DEF RootLpIntegral, RootInv, NothingYet
  <2> QED
    BY <1>0, <2>2, <2>3, <2>4, <2>5 DEF AnswerIsSound, AnswerFollows
<1>3. CASE RootGapClosed
  <2>1. /\ primal \in PointsIn[root] /\ Cost[primal] = best /\ GapClosed(best, blb) /\ primal # NoPoint
        /\ \A q \in PointsIn[root] : blb <= Cost[q]
    BY <1>3 DEF RootGapClosed, IncumbentKnown, RootInv, RootBound
  <2>2. \A q \in PointsIn[root] : WithinTolerance(best, q) /\ blb <= Cost[q] + AbsGap
    BY <1>0, <2>1, GapJustifies, WeakerBound
  <2>3. result'.status = "optimal" /\ result'.x = primal /\ result'.obj = best /\ result'.bound = blb
    BY <1>3 DEF RootGapClosed, Finish, Answer
  <2> QED
    BY <1>0, <2>1, <2>2, <2>3 DEF AnswerIsSound, AnswerFollows
<1>4. CASE StrongInfeasible
  <2>1. PICK K \in Branchings[root][cur.x] : ProvenEmpty(K)
    BY <1>4 DEF StrongInfeasible
  <2>2. cur.x \in LpPoint /\ Covers(root, cur.x)
    BY <1>4, CurContract DEF StrongInfeasible
  <2>3. PointsIn[root] = {}
    BY <1>0, <2>1, <2>2, EmptyChildren
  <2>4. result'.status = "infeasible" /\ result'.x = NoPoint /\ primal = NoPoint
    BY <1>4, <2>3 DEF StrongInfeasible, Finish, NoAnswer, Answer, IncumbentKnown
  <2> QED
    BY <1>0, <2>3, <2>4 DEF AnswerIsSound, AnswerFollows
<1> QED
  BY <1>1, <1>2, <1>3, <1>4 DEF RootNext, RootLpFractional, RootHeuristics, RootNoCuts, RootCuts,
     RootGapOpen, StrongReduce, StrongNothing

\* What the stages leave for each other and for the search.
LEMMA RootStep ==
  ASSUME Sense = 1, RootTypeOK, RootKnown, RootInv, RootNext
  PROVE  RootInv'
<1> USE DEF RootInv
<1>0. /\ root' = root /\ root \in Sub /\ blb \in Int
      /\ \A q \in PointsIn[root] : Cost[q] \in Int
      /\ phase' # "done" => result' = result
  BY RootFrame
<1>1. CASE RootLpEnds \/ RootLpIntegral \/ RootGapClosed \/ StrongInfeasible
  BY <1>0, <1>1 DEF RootLpEnds, RootLpIntegral, RootGapClosed, StrongInfeasible, Finish,
     RootDomain, RootBound, NothingYet
<1>2. CASE RootLpFractional
  <2>1. PICK v \in Verdicts[root] : v.status = "optimal" /\ blb' = v.obj
    BY <1>2 DEF RootLpFractional
  <2>2. \A q \in PointsIn[root] : v.obj <= Cost[q]
    BY <1>0, <2>1, VerdictContract
  <2> QED
    BY <1>0, <1>2, <2>1, <2>2 DEF RootLpFractional, RootDomain, RootBound, NothingYet
<1>3. CASE RootHeuristics \/ RootNoCuts \/ RootGapOpen
  BY <1>0, <1>3 DEF RootHeuristics, RootNoCuts, RootGapOpen, RootDomain, RootBound, NothingYet
<1>4. CASE RootCuts
  <2>1. PICK v \in Verdicts[root] : v.status = "optimal" /\ blb' = MaxOf(blb, v.obj)
    BY <1>4 DEF RootCuts
  <2>2. \A q \in PointsIn[root] : v.obj <= Cost[q]
    BY <1>0, <2>1, VerdictContract
  <2>3. \A q \in PointsIn[root] : blb' <= Cost[q]
    BY <1>0, <1>4, <2>1, <2>2 DEF RootCuts, RootBound, MaxOf
  <2> QED
    BY <1>0, <1>4, <2>3 DEF RootCuts, RootDomain, RootBound, NothingYet
<1>5. CASE StrongReduce
  <2>1. cur \in Verdicts[root] /\ cur.status = "optimal" /\ cur.x \notin Point
    BY <1>5, CurContract DEF StrongReduce
  <2>2. PointsIn[rootSub'] = PointsIn[root] /\ Covers(rootSub', cur.x)
    BY <1>0, <1>5, <2>1, VerdictContract DEF StrongReduce
  <2> QED
    BY <1>0, <1>5, <2>2 DEF StrongReduce, RootDomain, RootBound, NothingYet, Covers
<1>6. CASE StrongNothing
  <2>1. cur.x \notin Point => Covers(rootSub, cur.x)
    BY <1>6, CurContract DEF StrongNothing, RootDomain
  <2> QED
    BY <1>0, <1>6, <2>1 DEF StrongNothing, RootDomain, RootBound, NothingYet, Covers
<1> QED
  BY <1>1, <1>2, <1>3, <1>4, <1>5, <1>6 DEF RootNext
=============================================================================
