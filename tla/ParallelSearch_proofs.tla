------------------------ MODULE ParallelSearch_proofs -----------------------
(***************************************************************************)
(* The parallel search for every number of threads.  First its queue: the  *)
(* termination detection is correct for every number of workers and every  *)
(* tree of nodes.  Then the search: the queue is used as its protocol      *)
(* demands, the recorded incumbent agrees with the shared objective,       *)
(* children are dropped only after a stop that shows, and, for a           *)
(* minimisation, the answers are sound unless a node was lost.             *)
(***************************************************************************)
EXTENDS ParallelSearch, RootPhase_proofs, FiniteSetTheorems

-----------------------------------------------------------------------------
(* The node queue.                                                         *)

\* Who is busy after a worker's standing has changed.
LEMMA BusyAfter ==
  ASSUME WorkersTypeOK, NEW w \in Worker, NEW s \in ClientStates, Become(w, s)
  PROVE  /\ client' \in [Worker -> ClientStates]
         /\ Busy' = IF s = "in" THEN Busy \union {w} ELSE Busy \ {w}
  BY DEF WorkersTypeOK, Become, Busy

\* A worker more or less among the busy ones changes their number by one.
LEMMA BusyCount ==
  ASSUME WorkersTypeOK, NEW w \in Worker
  PROVE  /\ IsFiniteSet(Busy) /\ Cardinality(Busy) \in Nat
         /\ Cardinality(Busy \ {w}) = IF w \in Busy THEN Cardinality(Busy) - 1 ELSE Cardinality(Busy)
         /\ Cardinality(Busy \union {w}) = Cardinality(Busy \ {w}) + 1
         /\ Cardinality(Busy \ {w}) \in Nat
<1>1. IsFiniteSet(Busy)
  BY FS_Subset, QueueTypes DEF Busy
<1>2. IsFiniteSet(Busy \ {w})
  BY <1>1, FS_RemoveElement
<1>3. Cardinality(Busy) \in Nat /\ Cardinality(Busy \ {w}) \in Nat
  BY <1>1, <1>2, FS_CardinalityType
<1>4. (Busy \ {w}) \union {w} = Busy \union {w} /\ w \notin Busy \ {w}
  OBVIOUS
<1>5. Cardinality(Busy \union {w}) = Cardinality(Busy \ {w}) + 1
  BY <1>2, <1>4, FS_AddElement
<1>6. Cardinality(Busy \ {w}) = IF w \in Busy THEN Cardinality(Busy) - 1 ELSE Cardinality(Busy)
  BY <1>1, FS_RemoveElement
<1> QED
  BY <1>1, <1>3, <1>5, <1>6

\* The count pop_node and deactivate_worker fall back to never underflows.
LEMMA ReleasedCount ==
  ASSUME WorkersTypeOK, ActiveCount, NEW w \in Worker
  PROVE  Released(w) = Cardinality(Busy \ {w})
<1>1. client[w] = "in" <=> w \in Busy
  BY DEF Busy
<1> QED
  BY <1>1, BusyCount DEF Released, ActiveCount

QueueInv == WorkersTypeOK /\ ActiveCount /\ DrainedIsIdle

\* No worker is busy at the start.
LEMMA QueueInitInv == QueueInit => QueueInv
<1> SUFFICES ASSUME QueueInit PROVE QueueInv
  OBVIOUS
<1>1. Busy = {}
  BY DEF QueueInit, Busy
<1> QED
  BY <1>1, FS_EmptySet DEF QueueInit, QueueInv, WorkersTypeOK, ClientStates, ActiveCount, DrainedIsIdle

\* A pop, whatever its outcome.
LEMMA PopInv ==
  ASSUME QueueInv, NEW w \in Worker, NEW c \in Int, Pop(w, c)
  PROVE  QueueInv'
<1> USE DEF QueueInv
<1>1. /\ Released(w) = Cardinality(Busy \ {w}) /\ Released(w) \in Nat
      /\ Cardinality(Busy \union {w}) = Released(w) + 1
      /\ {"in", "waiting", "gone"} \subseteq ClientStates
      /\ Unpruned(c) \subseteq heap
  BY BusyCount, ReleasedCount DEF ClientStates, Unpruned
<1>2. CASE PopStopped(w)
  <2>1. client' \in [Worker -> ClientStates] /\ Busy' = Busy \ {w}
    BY <1>1, <1>2, BusyAfter DEF PopStopped
  <2> QED
    BY <1>1, <1>2, <2>1 DEF PopStopped, WorkersTypeOK, ActiveCount, DrainedIsIdle
<1>3. CASE PopDrained(w, c)
  <2>1. client' \in [Worker -> ClientStates] /\ Busy' = Busy \ {w}
    BY <1>1, <1>3, BusyAfter DEF PopDrained
  <2>2. Busy \ {w} = {}
    BY <1>1, <1>3, BusyCount, FS_EmptySet, FS_RemoveElement DEF PopDrained
  <2> QED
    BY <1>1, <1>3, <2>1, <2>2, FS_EmptySet DEF PopDrained, WorkersTypeOK, ActiveCount, DrainedIsIdle
<1>4. CASE PopWait(w, c)
  <2>1. client' \in [Worker -> ClientStates] /\ Busy' = Busy \ {w}
    BY <1>1, <1>4, BusyAfter DEF PopWait
  <2> QED
    BY <1>1, <1>4, <2>1 DEF PopWait, WorkersTypeOK, ActiveCount, DrainedIsIdle
<1>5. ASSUME NEW n \in heap, PopTake(w, c, n) PROVE QueueInv'
  <2>1. client' \in [Worker -> ClientStates] /\ Busy' = Busy \union {w}
    BY <1>1, <1>5, BusyAfter DEF PopTake
  <2> QED
    BY <1>1, <1>5, <2>1 DEF PopTake, WorkersTypeOK, ActiveCount, DrainedIsIdle
<1> QED
  BY <1>2, <1>3, <1>4, <1>5 DEF Pop

\* A worker that leaves keeps the invariant.
LEMMA LeavingInv ==
  ASSUME QueueInv, NEW w \in Worker, Deactivate(w) \/ Leave(w)
  PROVE  QueueInv'
<1> USE DEF QueueInv
<1>1. /\ Released(w) = Cardinality(Busy \ {w}) /\ Released(w) \in Nat
      /\ client' \in [Worker -> ClientStates] /\ Busy' = Busy \ {w}
  BY BusyCount, ReleasedCount, BusyAfter DEF ClientStates, Deactivate, Leave
<1>2. CASE Deactivate(w)
  <2>1. Released(w) = 0 => Busy \ {w} = {}
    BY <1>1, BusyCount, FS_EmptySet, FS_RemoveElement
  <2> QED
    BY <1>1, <1>2, <2>1 DEF Deactivate, WorkersTypeOK, ActiveCount, DrainedIsIdle
<1>3. CASE Leave(w)
  <2>1. Busy \ {w} = Busy
    BY <1>3 DEF Leave, Busy
  <2> QED
    BY <1>1, <1>3, <2>1 DEF Leave, WorkersTypeOK, ActiveCount, DrainedIsIdle
<1> QED
  BY <1>2, <1>3

\* Every critical section keeps the invariant, whatever is pushed and pruned.
LEMMA CallsInv ==
  ASSUME QueueInv, NEW F, NEW C \in SUBSET Int, [Calls(F, C)]_queueVars
  PROVE  QueueInv'
<1> USE DEF QueueInv
<1>1. ASSUME NEW K \in F, PushRoot(K) \/ \E w \in Worker : PushChildren(w, K)
      PROVE  QueueInv'
  <2>1. Push(K)
    BY <1>1 DEF PushRoot, PushChildren
  <2> QED
    BY <1>1, <2>1 DEF Push, PushRoot, PushChildren, WorkersTypeOK, ActiveCount, DrainedIsIdle, Busy
<1>2. ASSUME NEW c \in C, Prune(c) PROVE QueueInv'
  BY <1>2 DEF Prune, Unpruned, WorkersTypeOK, ActiveCount, DrainedIsIdle, Busy
<1>3. ASSUME NEW w \in Worker, NEW c \in C, Pop(w, c) PROVE QueueInv'
  BY <1>3, PopInv
<1>4. ASSUME NEW w \in Worker, Deactivate(w) \/ Leave(w) PROVE QueueInv'
  BY <1>4, LeavingInv
<1>5. CASE RequestStop
  BY <1>5 DEF RequestStop, WorkersTypeOK, ActiveCount, DrainedIsIdle, Busy
<1>6. CASE UNCHANGED queueVars
  BY <1>6 DEF queueVars, WorkersTypeOK, ActiveCount, DrainedIsIdle, Busy
<1> QED
  BY <1>1, <1>2, <1>3, <1>4, <1>5, <1>6 DEF Calls

\* A worker goes to wait only while another one still owns a node.
LEMMA CallsWait ==
  ASSUME QueueInv, NEW F, NEW C \in SUBSET Int, Calls(F, C),
         NEW w \in Worker, client[w] # "waiting", client'[w] = "waiting"
  PROVE  \E v \in Worker \ {w} : client'[v] = "in"
<1>1. PICK c \in C : PopWait(w, c)
  <2>1. ASSUME NEW u \in Worker, NEW c \in C, Pop(u, c)
        PROVE  u = w /\ PopWait(w, c)
    BY <2>1 DEF Pop, PopStopped, PopDrained, PopWait, PopTake, Become, QueueInv, WorkersTypeOK
  <2>2. ASSUME NEW u \in Worker, Deactivate(u) \/ Leave(u) PROVE FALSE
    BY <2>2 DEF Deactivate, Leave, Become, QueueInv, WorkersTypeOK
  <2> QED
    BY <2>1, <2>2 DEF Calls, PushRoot, PushChildren, Push, Prune, RequestStop
<1>2. Released(w) = Cardinality(Busy \ {w}) /\ Released(w) > 0
  BY <1>1, ReleasedCount DEF PopWait, QueueInv
<1>3. Busy \ {w} # {}
  BY <1>2, FS_EmptySet
<1>4. PICK v \in Worker : v # w /\ client[v] = "in"
  BY <1>3 DEF Busy
<1>5. client'[v] = "in"
  BY <1>1, <1>4 DEF PopWait, Become, QueueInv, WorkersTypeOK
<1> QED
  BY <1>4, <1>5

\* The invariant holds throughout.
LEMMA QueueInvariance == QueueSpec => []QueueInv
<1>1. QueueInv /\ [QueueNext]_queueVars => QueueInv'
  BY CallsInv, QueueTypes DEF QueueNext
<1> QED
  BY <1>1, QueueInitInv, PTL DEF QueueSpec

\* Every state of the queue is well typed.
THEOREM QueueTypeCorrect == QueueSpec => []QueueTypeOK
<1>1. QueueInit => heap \subseteq Node
  BY DEF QueueInit
<1>2. heap \subseteq Node /\ [QueueNext]_queueVars => (heap \subseteq Node)'
  BY QueueTypes DEF QueueNext, Calls, PushRoot, PushChildren, Push, Prune, Pop, PopStopped, PopDrained,
     PopWait, PopTake, Deactivate, Leave, RequestStop, Unpruned, queueVars
<1>3. QueueInv /\ heap \subseteq Node => QueueTypeOK
  BY DEF QueueInv, QueueTypeOK
<1> QED
  BY <1>1, <1>2, <1>3, QueueInvariance, PTL DEF QueueSpec

\* active_workers_ is the number of workers that own a popped node.
THEOREM QueueActiveCount == QueueSpec => []ActiveCount
  BY QueueInvariance, PTL DEF QueueInv

\* A search the empty queue has stopped has no open node and no busy worker.
THEOREM QueueDrainedIsIdle == QueueSpec => []DrainedIsIdle
  BY QueueInvariance, PTL DEF QueueInv

\* A worker goes to wait only while another one still owns a node.
THEOREM QueueWaitHasReason == QueueSpec => WaitHasReason
<1> DEFINE Reason == \A w \in Worker :
      (client[w] # "waiting" /\ client'[w] = "waiting") => \E v \in Worker \ {w} : client'[v] = "in"
<1>1. QueueInv /\ [QueueNext]_queueVars => [Reason]_queueVars
  BY CallsWait, QueueTypes DEF QueueNext
<1> QED
  BY <1>1, QueueInvariance, PTL DEF QueueSpec, WaitHasReason

-----------------------------------------------------------------------------
(* The search.                                                             *)

\* The worker is between the pop of a node and the end of it.
Solved == {"bound", "dominate", "heuristic", "offer", "record", "cutoff", "prune", "branch"}

\* Whether the threads run follows the phase of the main thread.
PhaseControl ==
  /\ phase \in Phases \ {"assemble"}
  /\ phase \notin {"search", "done"} =>
       heap = {} /\ recorded = Inf /\ lost = {} /\ explored = 1 /\ ~stopped /\ \A w \in Worker : pc[w] = "off"
  /\ phase = "search" => \A w \in Worker : pc[w] # "off"
  /\ phase = "done" => \A w \in Worker : pc[w] \in {"off", "gone"}

\* A worker the queue has let go leaves the loop.
GoneLeaves == \A w \in Worker : client[w] = "gone" => pc[w] \in {"exit", "gone"}

\* What a worker knows of its node's relaxation, and what it offers.
SolKnown ==
  \A w \in Worker :
    /\ pc[w] \in Solved =>
         \E v \in Verdicts[node[w].sub] : v.status = "optimal" /\ sol[w] = [obj |-> v.obj, x |-> v.x]
    /\ pc[w] \in {"heuristic", "branch"} => sol[w].x \notin Point
    /\ pc[w] \in {"offer", "record"} =>
         /\ cand[w].x \in PointsIn[node[w].sub] /\ cand[w].obj = Cost[cand[w].x]
         /\ sol[w].x \in Point => cand[w] = sol[w]

ThreadInv == TypeOK /\ ActiveCount /\ DrainedIsIdle /\ PhaseControl /\ GoneLeaves /\ SolKnown

\* Before the root relaxation is solved no thread runs.
LEMMA InitThread == Init => ThreadInv
<1> SUFFICES ASSUME Init PROVE ThreadInv
  OBVIOUS
<1>1. NoVerdict \in Verdict /\ NoAnswer("none") \in Results
  BY DEF NoVerdict, Verdict, LpStatus, NoAnswer, Answer, Results, Statuses
<1>2. root \in Sub /\ Inf \in Int /\ -Inf \in Int
  BY RootIsSub, ToleranceTypes DEF Init, RootInit
<1>3. RootTypeOK /\ RootKnown
  BY <1>1, <1>2 DEF Init, RootInit, RootTypeOK, RootKnown, Phases
<1>4. WorkersTypeOK /\ heap = {}
  BY DEF Init, QueueInit, WorkersTypeOK, ClientStates
<1>5. NoNode \in NodeType /\ NoSol \in LpSolution
  BY SpaceTypes DEF NoNode, NodeType, NoSol, LpSolution
<1>6. TypeOK
  <2>1. /\ recorded \in Int /\ explored \in Nat /\ timeUp \in BOOLEAN /\ lost \subseteq {"lp", "push"} /\ gapStop \in BOOLEAN
        /\ bounds \in [Worker -> Int] /\ pc \in [Worker -> Stages] /\ cutoff \in [Worker -> Int]
        /\ seen \in [Worker -> Int] /\ low \in [Worker -> Int] /\ todo \in [Worker -> SUBSET Worker]
    <3>1. recorded = Inf /\ explored = 1 /\ timeUp = FALSE /\ lost = {} /\ gapStop = FALSE
      BY DEF Init
    <3>2. bounds \in [Worker -> Int] /\ cutoff \in [Worker -> Int]
        /\ seen \in [Worker -> Int] /\ low \in [Worker -> Int]
      BY <1>2 DEF Init, Each
    <3>3. pc \in [Worker -> Stages]
      BY DEF Init, Each, Stages
    <3>4. todo \in [Worker -> SUBSET Worker]
      BY DEF Init, Each
    <3> QED
      BY <1>2, <3>1, <3>2, <3>3, <3>4
  <2>2. node \in [Worker -> NodeType] /\ sol \in [Worker -> LpSolution] /\ cand \in [Worker -> LpSolution]
    BY <1>5 DEF Init, Each
  <2> QED
    BY <1>3, <1>4, <2>1, <2>2 DEF TypeOK
<1>7. PhaseControl /\ GoneLeaves /\ SolKnown
  BY DEF Init, RootInit, QueueInit, Each, PhaseControl, Phases, GoneLeaves, SolKnown, Solved
<1>8. ActiveCount /\ DrainedIsIdle
  BY QueueInitInv DEF Init, QueueInv
<1> QED
  BY <1>6, <1>7, <1>8 DEF ThreadInv

\* A worker only steps while the search runs.
LEMMA StepInSearch ==
  ASSUME ThreadInv, NEW w \in Worker, WorkerStep(w)
  PROVE  phase = "search" /\ pc[w] \notin {"off", "gone"}
<1>1. pc[w] \notin {"off", "gone"}
  BY DEF WorkerStep, Head, GapStart, GapScanHeap, GapScanWorker, GapDecide, StopAll, PopNode, HoldNode,
     CheckNode, SolveNode, RaiseBound, DominateNode, TryRounding, OfferCandidate, RecordPrimal, ReadCutoff,
     PruneHeap, BranchNode, ClearBound, ExitLoop
<1> QED
  BY <1>1 DEF ThreadInv, PhaseControl

\* The relaxation a worker has solved is one of its node's.
LEMMA SolFacts ==
  ASSUME ThreadInv, NEW w \in Worker, pc[w] \in Solved
  PROVE  /\ node[w].sub \in Sub /\ node[w].depth \in Nat
         /\ sol[w].obj \in Int /\ sol[w].obj < Inf - AbsGap /\ sol[w].x \in LpPoint
         /\ sol[w].x \in Point => sol[w].x \in PointsIn[node[w].sub] /\ Cost[sol[w].x] = sol[w].obj
         /\ sol[w].x \notin Point => Covers(node[w].sub, sol[w].x)
         /\ Sense = 1 => \A q \in PointsIn[node[w].sub] : sol[w].obj <= Cost[q]
<1>1. node[w].sub \in Sub /\ node[w].depth \in Nat
  BY DEF ThreadInv, TypeOK, NodeType
<1>2. PICK v \in Verdicts[node[w].sub] : v.status = "optimal" /\ sol[w] = [obj |-> v.obj, x |-> v.x]
  BY DEF ThreadInv, SolKnown
<1>3. sol[w].obj = v.obj /\ sol[w].x = v.x
  BY <1>2
<1> QED
  BY <1>1, <1>2, <1>3, VerdictExact, VerdictContract

\* What a worker pushes are nodes.
LEMMA ChildrenType ==
  ASSUME ThreadInv, NEW w \in Worker, pc[w] \in Solved, NEW K \in Branchings[node[w].sub][sol[w].x]
  PROVE  K \subseteq Sub /\ Children(K, sol[w].obj, node[w].depth) \subseteq NodeType
<1>1. K \subseteq Sub
  BY SolFacts, SpaceTypes
<1> QED
  BY <1>1, SolFacts DEF Children, NodeType

\* Whatever a worker does to the queue is a call the queue's protocol allows.
LEMMA WorkerCalls ==
  ASSUME ThreadInv, NEW w \in Worker, WorkerStep(w)
  PROVE  [Calls(SUBSET NodeType, Int)]_queueVars
<1>1. CASE StopAll(w)
  BY <1>1 DEF StopAll, Calls
<1>2. CASE PopNode(w)
  <2>1. cutoff[w] \in Int /\ client[w] # "gone"
    BY <1>2 DEF PopNode, ThreadInv, TypeOK, GoneLeaves
  <2>2. Pop(w, cutoff[w])
    BY <1>2, <2>1 DEF PopNode, Pop
  <2> QED
    BY <2>1, <2>2 DEF Calls
<1>3. CASE PruneHeap(w)
  <2>1. cutoff[w] \in Int
    BY DEF ThreadInv, TypeOK
  <2> QED
    BY <1>3, <2>1 DEF PruneHeap, Calls
<1>4. CASE BranchNode(w)
  <2>1. pc[w] \in Solved
    BY <1>4 DEF BranchNode, Solved
  <2>2. PICK K \in Branchings[node[w].sub][sol[w].x] : PushChildren(w, Children(K, sol[w].obj, node[w].depth))
    BY <1>4 DEF BranchNode
  <2>3. Children(K, sol[w].obj, node[w].depth) \in SUBSET NodeType
    BY <2>1, ChildrenType
  <2> QED
    BY <2>2, <2>3 DEF Calls
<1>5. CASE ExitLoop(w)
  BY <1>5 DEF ExitLoop, Calls
<1>6. CASE Head(w) \/ GapStart(w) \/ GapScanHeap(w) \/ (\E v \in todo[w] : GapScanWorker(w, v)) \/ GapDecide(w)
  BY <1>6 DEF Head, GapStart, GapScanHeap, GapScanWorker, GapDecide
<1>7. CASE \/ HoldNode(w) \/ CheckNode(w) \/ SolveNode(w) \/ RaiseBound(w) \/ DominateNode(w)
           \/ TryRounding(w) \/ OfferCandidate(w) \/ RecordPrimal(w) \/ ReadCutoff(w) \/ ClearBound(w)
  BY <1>7 DEF HoldNode, CheckNode, SolveNode, RaiseBound, DominateNode, TryRounding, OfferCandidate,
     RecordPrimal, ReadCutoff, ClearBound
<1> QED
  BY <1>1, <1>2, <1>3, <1>4, <1>5, <1>6, <1>7 DEF WorkerStep

\* So the queue's own invariant holds in the search.
LEMMA WorkerQueue ==
  ASSUME ThreadInv, NEW w \in Worker, WorkerStep(w)
  PROVE  WorkersTypeOK' /\ ActiveCount' /\ DrainedIsIdle'
<1>1. QueueInv
  BY DEF ThreadInv, TypeOK, QueueInv
<1>2. QueueInv'
  BY <1>1, WorkerCalls, CallsInv
<1> QED
  BY <1>2 DEF QueueInv

\* Every step of a worker keeps its state well typed.
LEMMA WorkerType ==
  ASSUME ThreadInv, NEW w \in Worker, WorkerStep(w)
  PROVE  TypeOK'
<1> USE DEF ThreadInv
<1>0. /\ root \in Sub /\ AbsGap \in Int /\ Inf \in Int /\ best \in Int
      /\ node[w] \in NodeType /\ sol[w] \in LpSolution /\ cand[w] \in LpSolution
      /\ cutoff[w] \in Int /\ seen[w] \in Int /\ low[w] \in Int /\ pc[w] \in Stages
      /\ phase = "search"
  BY RootIsSub, ToleranceTypes, StepInSearch DEF TypeOK, RootTypeOK
<1> DEFINE Locals == /\ pc' \in [Worker -> Stages]
                     /\ cutoff' \in [Worker -> Int] /\ seen' \in [Worker -> Int] /\ low' \in [Worker -> Int]
                     /\ todo' \in [Worker -> SUBSET Worker]
<1>1. CASE UNCHANGED <<rootVars, queueVars, recorded, bounds, explored, timeUp, lost, node, sol, cand>>
           /\ gapStop' \in BOOLEAN /\ Locals
  BY <1>1 DEF rootVars, queueVars, TypeOK, RootTypeOK, RootKnown, WorkersTypeOK
<1>2. CASE Head(w) \/ GapStart(w)
  <2>1. Locals
    BY <1>0, <1>2 DEF Head, GapStart, Goto, Set, TypeOK, Stages
  <2> QED
    BY <1>1, <1>2, <2>1 DEF Head, GapStart, sharedVars, TypeOK
<1>3. CASE GapScanHeap(w)
  <2>1. \A n \in heap : n.lb \in Int
    BY DEF TypeOK, NodeType
  <2>2. Locals
    BY <1>0, <1>3, <2>1 DEF GapScanHeap, Goto, Set, TypeOK, Stages
  <2> QED
    BY <1>1, <1>3, <2>2 DEF GapScanHeap, sharedVars, TypeOK
<1>4. ASSUME NEW v \in todo[w], GapScanWorker(w, v) PROVE TypeOK'
  <2>1. bounds[v] \in Int
    BY DEF TypeOK
  <2>2. Locals
    BY <1>0, <1>4, <2>1 DEF GapScanWorker, Set, TypeOK, MinOf
  <2> QED
    BY <1>1, <1>4, <2>2 DEF GapScanWorker, sharedVars, TypeOK
<1>5. CASE GapDecide(w)
  <2>1. Locals
    BY <1>0, <1>5 DEF GapDecide, Goto, Set, TypeOK, Stages
  <2> QED
    BY <1>1, <1>5, <2>1 DEF GapDecide, TypeOK
<1>6. CASE CheckNode(w) \/ ReadCutoff(w)
  <2>1. Locals
    BY <1>0, <1>6 DEF CheckNode, ReadCutoff, Goto, Set, TypeOK, Stages
  <2> QED
    BY <1>1, <1>6, <2>1 DEF CheckNode, ReadCutoff, sharedVars, TypeOK
<1>7. CASE StopAll(w) \/ PruneHeap(w) \/ ExitLoop(w)
  <2>1. Locals
    BY <1>0, <1>7 DEF StopAll, PruneHeap, ExitLoop, AfterOffer, Goto, Set, TypeOK, Stages
  <2>2. WorkersTypeOK' /\ heap' \subseteq heap
    BY <1>7, WorkerQueue DEF StopAll, RequestStop, PruneHeap, Prune, Unpruned, ExitLoop, Deactivate, Leave,
       queueVars
  <2> QED
    BY <1>7, <2>1, <2>2 DEF StopAll, PruneHeap, ExitLoop, rootVars, sharedVars, TypeOK, RootTypeOK, RootKnown
<1>8. CASE PopNode(w)
  <2>1. WorkersTypeOK' /\ heap' \subseteq heap
    BY <1>8, WorkerQueue DEF PopNode, PopTake, PopStopped, PopDrained, PopWait, Unpruned
  <2>2. Locals
    BY <1>0, <1>8 DEF PopNode, Goto, Set, TypeOK, Stages
  <2>3. node' \in [Worker -> NodeType]
    BY <1>8 DEF PopNode, Set, TypeOK
  <2> QED
    BY <1>8, <2>1, <2>2, <2>3 DEF PopNode, rootVars, sharedVars, TypeOK, RootTypeOK, RootKnown
<1>9. CASE HoldNode(w) \/ RaiseBound(w)
  <2>1. Locals /\ bounds' \in [Worker -> Int]
    <3>1. node[w].lb \in Int /\ bounds \in [Worker -> Int]
      BY DEF TypeOK, NodeType
    <3>2. bounds' = [bounds EXCEPT ![w] = node[w].lb]
      BY <1>9 DEF HoldNode, RaiseBound, Set
    <3>3. bounds' \in [Worker -> Int]
      BY ONLY <3>1, <3>2, w \in Worker
    <3>4. Locals
      BY <1>0, <1>9 DEF HoldNode, RaiseBound, Goto, Set, TypeOK, Stages
    <3> QED
      BY <3>3, <3>4
  <2> QED
    BY <1>9, <2>1 DEF HoldNode, RaiseBound, rootVars, queueVars, TypeOK, RootTypeOK, RootKnown, WorkersTypeOK
<1>10. CASE SolveNode(w)
  <2>1. PICK v \in Verdicts[node[w].sub] :
          IF v.status = "optimal"
          THEN /\ sol' = Set(sol, w, [obj |-> v.obj, x |-> v.x])
               /\ node' = Set(node, w, [node[w] EXCEPT !.lb = v.obj])
               /\ Goto(w, "bound") /\ UNCHANGED lost
          ELSE /\ lost' = IF v.status = "failed" THEN lost \union {"lp"} ELSE lost
               /\ Goto(w, "clear") /\ UNCHANGED <<sol, node>>
    BY <1>10 DEF SolveNode
  <2>2. v.obj \in Int /\ v.x \in LpPoint \union {NoPoint}
    BY <1>0, VerdictType DEF Verdict, NodeType
  <2>3. [obj |-> v.obj, x |-> v.x] \in LpSolution /\ [node[w] EXCEPT !.lb = v.obj] \in NodeType
    BY <1>0, <2>2 DEF LpSolution, NodeType
  <2>4. node' \in [Worker -> NodeType] /\ sol' \in [Worker -> LpSolution]
    BY <2>1, <2>3 DEF Set, TypeOK
  <2>5. Locals /\ explored' \in Nat /\ lost' \subseteq {"lp", "push"}
    BY <1>10, <2>1 DEF SolveNode, Goto, TypeOK, Stages
  <2> QED
    BY <1>10, <2>4, <2>5 DEF SolveNode, rootVars, queueVars, TypeOK, RootTypeOK, RootKnown, WorkersTypeOK
<1>11. CASE DominateNode(w) \/ TryRounding(w)
  <2>1. Locals
    BY <1>0, <1>11 DEF DominateNode, TryRounding, Goto, TypeOK, Stages
  <2>2. \A p \in PointsIn[node[w].sub] : [obj |-> Cost[p], x |-> p] \in LpSolution
    BY <1>0, PointFacts, SpaceTypes DEF LpSolution, NodeType
  <2>3. cand' \in [Worker -> LpSolution]
    BY <1>0, <1>11, <2>2 DEF DominateNode, TryRounding, Set, TypeOK
  <2> QED
    BY <1>11, <2>1, <2>3 DEF DominateNode, TryRounding, rootVars, queueVars, sharedVars, TypeOK, RootTypeOK,
       RootKnown, WorkersTypeOK
<1>12. CASE OfferCandidate(w) \/ RecordPrimal(w)
  <2>1. Locals
    BY <1>0, <1>12 DEF OfferCandidate, RecordPrimal, AfterOffer, Goto, Set, TypeOK, Stages
  <2>2. NoSol \in LpSolution
    BY DEF NoSol, LpSolution
  <2>3. cand' \in [Worker -> LpSolution]
    BY <1>12, <2>2 DEF OfferCandidate, RecordPrimal, Set, TypeOK
  <2>4. cand[w].obj \in Int /\ cand[w].x \in Point
    BY <1>0, <1>12, PointFacts DEF OfferCandidate, RecordPrimal, SolKnown, LpSolution, NodeType
  <2>5. best' \in Int /\ recorded' \in Int /\ primal' \in Point \union {NoPoint}
    BY <1>12, <2>4 DEF OfferCandidate, RecordPrimal, sharedVars, TypeOK, RootTypeOK
  <2> QED
    BY <1>12, <2>1, <2>3, <2>5 DEF OfferCandidate, RecordPrimal, queueVars, sharedVars, TypeOK, RootTypeOK,
       RootKnown, WorkersTypeOK
<1>13. CASE BranchNode(w)
  <2>1. Locals
    BY <1>13 DEF BranchNode, Goto, TypeOK, Stages
  <2>2. PICK K \in Branchings[node[w].sub][sol[w].x] :
          /\ PushChildren(w, Children(K, sol[w].obj, node[w].depth))
          /\ lost' = IF stopped /\ K # {} THEN lost \union {"push"} ELSE lost
    BY <1>13 DEF BranchNode
  <2>3. Children(K, sol[w].obj, node[w].depth) \subseteq NodeType
    BY <1>13, ChildrenType DEF BranchNode, Solved
  <2>4. heap' \subseteq NodeType /\ WorkersTypeOK'
    BY <2>2, <2>3, WorkerQueue DEF PushChildren, Push, TypeOK
  <2>5. lost' \subseteq {"lp", "push"}
    BY <2>2 DEF TypeOK
  <2> QED
    BY <1>13, <2>1, <2>4, <2>5 DEF BranchNode, rootVars, TypeOK, RootTypeOK, RootKnown
<1>14. CASE ClearBound(w)
  <2>1. Locals /\ bounds' \in [Worker -> Int]
    BY <1>0, <1>14 DEF ClearBound, Goto, Set, TypeOK, Stages
  <2>2. NoNode \in NodeType /\ NoSol \in LpSolution
    BY SpaceTypes DEF NoNode, NodeType, NoSol, LpSolution
  <2>3. node' \in [Worker -> NodeType] /\ sol' \in [Worker -> LpSolution]
    BY <1>14, <2>2 DEF ClearBound, Set, TypeOK
  <2> QED
    BY <1>14, <2>1, <2>3 DEF ClearBound, rootVars, queueVars, TypeOK, RootTypeOK, RootKnown, WorkersTypeOK
<1> QED
  BY <1>2, <1>3, <1>4, <1>5, <1>6, <1>7, <1>8, <1>9, <1>10, <1>11, <1>12, <1>13, <1>14 DEF WorkerStep

\* A worker moves only itself, in the loop and in the queue.
LEMMA WorkerFrame ==
  ASSUME ThreadInv, NEW w \in Worker, WorkerStep(w)
  PROVE  /\ phase' = phase /\ root' = root /\ rootSub' = rootSub /\ cur' = cur /\ blb' = blb /\ result' = result
         /\ timeUp' = timeUp /\ explored' >= explored /\ (gapStop => gapStop')
         /\ pc'[w] # "off"
         /\ \A u \in Worker \ {w} : /\ pc'[u] = pc[u] /\ client'[u] = client[u] /\ node'[u] = node[u]
                                   /\ sol'[u] = sol[u] /\ cand'[u] = cand[u] /\ cutoff'[u] = cutoff[u]
<1> USE DEF ThreadInv
<1>0. pc[w] # "off" /\ explored \in Nat /\ explored + 1 >= explored
  BY StepInSearch DEF TypeOK
<1>1. CASE \/ Head(w) \/ GapStart(w) \/ GapScanHeap(w) \/ (\E v \in todo[w] : GapScanWorker(w, v)) \/ GapDecide(w)
           \/ HoldNode(w) \/ CheckNode(w) \/ RaiseBound(w) \/ ReadCutoff(w)
  BY <1>0, <1>1 DEF Head, GapStart, GapScanHeap, GapScanWorker, GapDecide, HoldNode, CheckNode, RaiseBound,
     ReadCutoff, Goto, Set, rootVars, queueVars, sharedVars, TypeOK
<1>2. CASE StopAll(w) \/ PruneHeap(w) \/ ExitLoop(w)
  BY <1>0, <1>2 DEF StopAll, PruneHeap, ExitLoop, AfterOffer, RequestStop, Prune, Deactivate, Leave, Become,
     Goto, Set, rootVars, queueVars, sharedVars, TypeOK, WorkersTypeOK
<1>3. CASE PopNode(w)
  BY <1>0, <1>3 DEF PopNode, PopTake, PopStopped, PopDrained, PopWait, Become,
     Goto, Set, rootVars, sharedVars, TypeOK, WorkersTypeOK
<1>4. CASE SolveNode(w) \/ DominateNode(w) \/ TryRounding(w)
  BY <1>0, <1>4 DEF SolveNode, DominateNode, TryRounding, Goto, Set, rootVars, queueVars, sharedVars, TypeOK
<1>5. CASE OfferCandidate(w) \/ RecordPrimal(w)
  BY <1>0, <1>5 DEF OfferCandidate, RecordPrimal, AfterOffer, Goto, Set, rootVars, queueVars, sharedVars, TypeOK
<1>6. CASE BranchNode(w) \/ ClearBound(w)
  BY <1>0, <1>6 DEF BranchNode, PushChildren, Push, ClearBound, Goto, Set, rootVars, queueVars, sharedVars, TypeOK
<1> QED
  BY <1>1, <1>2, <1>3, <1>4, <1>5, <1>6 DEF WorkerStep

\* The loop's control and what a worker knows are kept.
LEMMA WorkerControl ==
  ASSUME ThreadInv, NEW w \in Worker, WorkerStep(w)
  PROVE  PhaseControl' /\ GoneLeaves' /\ SolKnown'
<1> USE DEF ThreadInv
<1>0. phase = "search" /\ phase' = "search" /\ pc'[w] # "off"
      /\ \A u \in Worker \ {w} : /\ pc'[u] = pc[u] /\ client'[u] = client[u] /\ node'[u] = node[u]
                                /\ sol'[u] = sol[u] /\ cand'[u] = cand[u]
  BY StepInSearch, WorkerFrame
<1>1. PhaseControl'
  BY <1>0 DEF PhaseControl, Phases
<1>2. client'[w] = "gone" => pc'[w] \in {"exit", "gone"}
  <2>1. CASE client'[w] = client[w] /\ pc[w] \notin {"exit", "gone"}
    BY <2>1 DEF GoneLeaves
  <2>2. CASE StopAll(w) \/ ExitLoop(w)
    BY <2>2 DEF StopAll, ExitLoop, Goto, TypeOK
  <2>3. CASE PopNode(w)
    BY <2>1, <2>3 DEF PopNode, PopTake, PopWait, Become, Goto, TypeOK, WorkersTypeOK
  <2>4. CASE PruneHeap(w) \/ BranchNode(w) \/ ClearBound(w) \/ SolveNode(w) \/ DominateNode(w) \/ TryRounding(w)
    BY <2>1, <2>4 DEF PruneHeap, Prune, BranchNode, PushChildren, Push, ClearBound, SolveNode, DominateNode,
       TryRounding, queueVars
  <2>5. CASE \/ Head(w) \/ GapStart(w) \/ GapScanHeap(w) \/ (\E v \in todo[w] : GapScanWorker(w, v)) \/ GapDecide(w)
             \/ HoldNode(w) \/ CheckNode(w) \/ RaiseBound(w) \/ ReadCutoff(w) \/ OfferCandidate(w) \/ RecordPrimal(w)
    BY <2>1, <2>5 DEF Head, GapStart, GapScanHeap, GapScanWorker, GapDecide, HoldNode, CheckNode, RaiseBound,
       ReadCutoff, OfferCandidate, RecordPrimal, queueVars
  <2> QED
    BY <2>2, <2>3, <2>4, <2>5 DEF WorkerStep
<1>3. GoneLeaves'
  BY <1>0, <1>2 DEF GoneLeaves
<1> DEFINE Knows(u) ==
      /\ pc[u] \in Solved =>
           \E v \in Verdicts[node[u].sub] : v.status = "optimal" /\ sol[u] = [obj |-> v.obj, x |-> v.x]
      /\ pc[u] \in {"heuristic", "branch"} => sol[u].x \notin Point
      /\ pc[u] \in {"offer", "record"} =>
           /\ cand[u].x \in PointsIn[node[u].sub] /\ cand[u].obj = Cost[cand[u].x]
           /\ sol[u].x \in Point => cand[u] = sol[u]
<1>4. Knows(w)
  BY DEF SolKnown
<1>5. Knows(w)'
  <2>1. CASE \/ Head(w) \/ GapStart(w) \/ GapScanHeap(w) \/ (\E v \in todo[w] : GapScanWorker(w, v)) \/ GapDecide(w)
             \/ StopAll(w) \/ PopNode(w) \/ HoldNode(w) \/ CheckNode(w) \/ ClearBound(w) \/ ExitLoop(w)
    <3>1. pc'[w] \notin Solved
      BY <2>1 DEF Head, GapStart, GapScanHeap, GapScanWorker, GapDecide, StopAll, PopNode, HoldNode, CheckNode,
         ClearBound, ExitLoop, Goto, Solved, TypeOK
    <3> QED
      BY <3>1 DEF Solved
  <2>2. CASE SolveNode(w)
    <3>1. CASE pc'[w] = "clear"
      BY <3>1 DEF Solved
    <3>2. CASE pc'[w] # "clear"
      <4>1. PICK v \in Verdicts[node[w].sub] :
              /\ v.status = "optimal"
              /\ sol' = Set(sol, w, [obj |-> v.obj, x |-> v.x])
              /\ node' = Set(node, w, [node[w] EXCEPT !.lb = v.obj])
        BY <2>2, <3>2 DEF SolveNode, Goto, TypeOK
      <4>2. node'[w].sub = node[w].sub /\ sol'[w] = [obj |-> v.obj, x |-> v.x]
        BY <4>1 DEF Set, TypeOK, NodeType
      <4>3. pc'[w] = "bound"
        BY <2>2, <3>2 DEF SolveNode, Goto, TypeOK
      <4> QED
        BY <4>1, <4>2, <4>3
    <3> QED
      BY <3>1, <3>2
  <2>3. CASE RaiseBound(w) \/ RecordPrimal(w) \/ ReadCutoff(w) \/ PruneHeap(w) \/ BranchNode(w)
    <3>1. /\ node'[w] = node[w] /\ sol'[w] = sol[w]
          /\ pc[w] \in Solved /\ pc'[w] \in {"dominate", "cutoff", "prune", "clear", AfterOffer(w)}
      BY <2>3 DEF RaiseBound, RecordPrimal, ReadCutoff, PruneHeap, BranchNode, Goto, Solved, TypeOK
    <3>2. pc'[w] = "branch" => sol[w].x \notin Point
      BY <3>1 DEF AfterOffer
    <3> QED
      BY <1>4, <3>1, <3>2 DEF AfterOffer
  <2>4. CASE DominateNode(w)
    <3>1. /\ node'[w] = node[w] /\ sol'[w] = sol[w] /\ pc[w] \in Solved
          /\ \/ pc'[w] = "clear"
             \/ pc'[w] = "offer" /\ sol[w].x \in Point /\ cand'[w] = sol[w]
             \/ pc'[w] = "heuristic" /\ sol[w].x \notin Point
      BY <2>4 DEF DominateNode, Goto, Set, Solved, TypeOK
    <3> QED
      BY <1>4, <3>1, SolFacts DEF Solved
  <2>5. CASE TryRounding(w)
    <3>1. /\ node'[w] = node[w] /\ sol'[w] = sol[w] /\ pc[w] = "heuristic" /\ pc[w] \in Solved
          /\ \/ pc'[w] = "branch"
             \/ pc'[w] = "offer" /\ \E p \in PointsIn[node[w].sub] : cand'[w] = [obj |-> Cost[p], x |-> p]
      BY <2>5 DEF TryRounding, Goto, Set, Solved, TypeOK
    <3>2. sol[w].x \notin Point
      BY <1>4, <3>1
    <3>3. pc'[w] = "offer" => cand'[w].x \in PointsIn[node[w].sub] /\ cand'[w].obj = Cost[cand'[w].x]
      <4> SUFFICES ASSUME pc'[w] = "offer"
                   PROVE  cand'[w].x \in PointsIn[node[w].sub] /\ cand'[w].obj = Cost[cand'[w].x]
        OBVIOUS
      <4>1. PICK p \in PointsIn[node[w].sub] : cand'[w] = [obj |-> Cost[p], x |-> p]
        BY <3>1
      <4>2. cand'[w].x = p /\ cand'[w].obj = Cost[p]
        BY <4>1
      <4> QED
        BY <4>2
    <3> QED
      BY <1>4, <3>1, <3>2, <3>3
  <2>6. CASE OfferCandidate(w)
    <3>1. /\ node'[w] = node[w] /\ sol'[w] = sol[w] /\ pc[w] = "offer" /\ pc[w] \in Solved
          /\ \/ pc'[w] = "record" /\ cand'[w] = cand[w]
             \/ pc'[w] = AfterOffer(w)
      BY <2>6 DEF OfferCandidate, Goto, Solved, TypeOK
    <3> QED
      BY <1>4, <3>1 DEF AfterOffer
  <2> QED
    BY <2>1, <2>2, <2>3, <2>4, <2>5, <2>6 DEF WorkerStep
<1>6. ASSUME NEW u \in Worker PROVE Knows(u)'
  <2>1. CASE u = w
    BY <1>5, <2>1
  <2>2. CASE u # w
    <3>1. Knows(u)
      BY DEF SolKnown
    <3> QED
      BY <1>0, <2>2, <3>1
  <2> QED
    BY <2>1, <2>2
<1>7. SolKnown'
  BY <1>6 DEF SolKnown
<1> QED
  BY <1>1, <1>3, <1>7

\* A step that leaves the workers alone keeps what is known of them.
LEMMA WorkersAlone ==
  ASSUME ThreadInv, UNCHANGED <<pc, client, node, sol, cand>>
  PROVE  GoneLeaves' /\ SolKnown'
  BY DEF ThreadInv, GoneLeaves, SolKnown, Solved

\* So do the root phase, and the main thread at both ends of the search.
LEMMA MainStep ==
  ASSUME ThreadInv, Main
  PROVE  ThreadInv' /\ [Calls(SUBSET NodeType, Int)]_queueVars
<1> USE DEF ThreadInv
<1>0. /\ AbsGap \in Int /\ Inf \in Int /\ best \in Int /\ primal \in LpPoint \union {NoPoint}
      /\ \A s \in Statuses, o, b \in Int, x \in LpPoint \union {NoPoint} : Answer(s, o, b, x) \in Results
      /\ \A s \in Statuses : NoAnswer(s) \in Results
  BY ToleranceTypes, SpaceTypes DEF Answer, NoAnswer, Results, TypeOK, RootTypeOK
<1>1. CASE Root
  <2>1. UNCHANGED <<queueVars, sharedVars, threadVars>> /\ RootNext
    BY <1>1 DEF Root
  <2>2. RootTypeOK' /\ RootKnown'
    BY <2>1, RootType DEF TypeOK
  <2>3. TypeOK' /\ ActiveCount' /\ DrainedIsIdle'
    BY <2>1, <2>2 DEF TypeOK, WorkersTypeOK, ActiveCount, DrainedIsIdle, Busy, queueVars, sharedVars, threadVars
  <2>4. /\ phase \notin {"search", "done"} /\ phase' \in Phases \ {"assemble", "search"}
    BY <2>1 DEF RootNext, RootLpEnds, RootLpIntegral, RootLpFractional, RootHeuristics, RootNoCuts, RootCuts,
       RootGapClosed, RootGapOpen, StrongInfeasible, StrongReduce, StrongNothing, Finish, Phases
  <2>5. PhaseControl'
    BY <2>1, <2>4 DEF PhaseControl, queueVars, sharedVars, threadVars
  <2> QED
    BY <2>1, <2>3, <2>5, WorkersAlone DEF queueVars, threadVars
<1>2. CASE NothingToBranch \/ Assemble
  <2>1. /\ UNCHANGED <<root, rootSub, cur, best, primal, blb, queueVars, sharedVars, threadVars>>
        /\ phase' = "done" /\ \A w \in Worker : pc[w] \in {"off", "gone"}
    BY <1>2 DEF NothingToBranch, Assemble, Finish, PhaseControl
  <2>2. result' \in Results
    <3>1. CASE NothingToBranch
      BY <1>0, <3>1 DEF NothingToBranch, Finish, Statuses
    <3>2. CASE Assemble
      <4>1. PICK b \in {n.lb : n \in heap} \union {Inf} :
              result' = (IF best < Inf
                         THEN Answer(IF Complete THEN "optimal" ELSE "resource_limit", best,
                                     IF TreeDone THEN best ELSE MinOf(best, b), primal)
                         ELSE NoAnswer(IF Complete THEN "infeasible" ELSE "resource_limit"))
        BY <3>2 DEF Assemble, Finish
      <4>2. b \in Int
        BY <1>0 DEF TypeOK, NodeType
      <4>3. (IF TreeDone THEN best ELSE MinOf(best, b)) \in Int
        BY <1>0, <4>2 DEF MinOf
      <4> QED
        BY <1>0, <4>1, <4>3 DEF Statuses
    <3> QED
      BY <1>2, <3>1, <3>2
  <2>3. TypeOK' /\ ActiveCount' /\ DrainedIsIdle'
    BY <2>1, <2>2 DEF TypeOK, RootTypeOK, RootKnown, Phases, WorkersTypeOK, ActiveCount, DrainedIsIdle, Busy,
       queueVars, sharedVars, threadVars
  <2>4. PhaseControl'
    BY <2>1 DEF PhaseControl, Phases, threadVars
  <2> QED
    BY <2>1, <2>3, <2>4, WorkersAlone DEF queueVars, threadVars
<1>3. CASE StartSearch
  <2>1. PICK K \in Branchings[rootSub][cur.x] : PushRoot(Children(K, cur.obj, 0))
    BY <1>3 DEF StartSearch
  <2>2. cur.x \in LpPoint /\ cur.obj \in Int /\ rootSub \in Sub
    BY <1>3, CurContract DEF StartSearch, TypeOK, RootTypeOK
  <2>3. K \subseteq Sub
    BY <2>1, <2>2, SpaceTypes
  <2>4. Children(K, cur.obj, 0) \in SUBSET NodeType
    BY <2>2, <2>3 DEF Children, NodeType
  <2>5. Calls(SUBSET NodeType, Int)
    BY <2>1, <2>4 DEF Calls
  <2>6. WorkersTypeOK' /\ ActiveCount' /\ DrainedIsIdle'
    BY <2>5, CallsInv DEF TypeOK, QueueInv
  <2>7. UNCHANGED <<root, rootSub, cur, best, primal, blb, result, bounds, explored, timeUp, lost,
                 gapStop, cutoff, seen, low, todo, node, sol, cand>>
        /\ phase' = "search" /\ phase = "start" /\ recorded' = best /\ pc' = Each("head")
    BY <1>3 DEF StartSearch
  <2>8. heap' \subseteq NodeType /\ client' = client
    BY <2>1, <2>4 DEF PushRoot, Push, TypeOK
  <2>9. pc' \in [Worker -> Stages]
    BY <2>7 DEF Each, Stages
  <2>10. TypeOK'
    BY <1>0, <2>6, <2>7, <2>8, <2>9 DEF TypeOK, RootTypeOK, RootKnown, Phases
  <2>11. PhaseControl' /\ SolKnown'
    BY <2>7 DEF PhaseControl, Phases, Each, SolKnown, Solved
  <2>12. GoneLeaves'
    BY <2>1, <2>8 DEF PushRoot, GoneLeaves
  <2> QED
    BY <2>5, <2>6, <2>10, <2>11, <2>12
<1> QED
  BY <1>1, <1>2, <1>3 DEF Main

\* The passing of time and a stutter change nothing of this.
LEMMA ClockStep ==
  ASSUME ThreadInv, TimeExpires \/ UNCHANGED vars
  PROVE  ThreadInv' /\ UNCHANGED queueVars
<1> USE DEF ThreadInv
<1>1. /\ UNCHANGED <<rootVars, queueVars, recorded, bounds, explored, lost, gapStop, threadVars>>
      /\ timeUp' \in BOOLEAN
  BY DEF TimeExpires, vars, sharedVars, TypeOK
<1>2. TypeOK' /\ ActiveCount' /\ DrainedIsIdle'
  BY <1>1 DEF TypeOK, RootTypeOK, RootKnown, WorkersTypeOK, ActiveCount, DrainedIsIdle, Busy,
     rootVars, queueVars, threadVars
<1>3. PhaseControl'
  BY <1>1 DEF PhaseControl, rootVars, queueVars, threadVars
<1> QED
  BY <1>1, <1>2, <1>3, WorkersAlone DEF queueVars, threadVars

LEMMA ThreadStep ==
  ASSUME ThreadInv, [Next]_vars
  PROVE  ThreadInv' /\ [Calls(SUBSET NodeType, Int)]_queueVars
<1>1. CASE Main
  BY <1>1, MainStep
<1>2. CASE TimeExpires \/ UNCHANGED vars
  BY <1>2, ClockStep
<1>3. ASSUME NEW w \in Worker, WorkerStep(w)
      PROVE  ThreadInv' /\ [Calls(SUBSET NodeType, Int)]_queueVars
  BY <1>3, WorkerType, WorkerQueue, WorkerControl, WorkerCalls DEF ThreadInv
<1> QED
  BY <1>1, <1>2, <1>3 DEF Next

LEMMA ThreadInvariance == Spec => []ThreadInv
<1>1. ThreadInv /\ [Next]_vars => ThreadInv'
  BY ThreadStep
<1> QED
  BY <1>1, InitThread, PTL DEF Spec

\* Every state of the parallel search is well typed, with any number of threads.
THEOREM ParallelTypeCorrect == Spec => []TypeOK
  BY ThreadInvariance, PTL DEF ThreadInv

\* As the workers use the queue, active_workers_ counts those that own a node.
THEOREM ParallelActiveCount == Spec => []ActiveCount
  BY ThreadInvariance, PTL DEF ThreadInv

\* When the empty queue ends the search, no thread owns a node, then or later.
THEOREM ParallelDrainedIsIdle == Spec => []DrainedIsIdle
  BY ThreadInvariance, PTL DEF ThreadInv

\* A thread goes to wait only while another one may still push.
THEOREM ParallelWaitHasReason == Spec => WaitHasReason
<1> DEFINE Reason == \A w \in Worker :
      (client[w] # "waiting" /\ client'[w] = "waiting") => \E v \in Worker \ {w} : client'[v] = "in"
<1>1. ThreadInv /\ [Next]_vars => [Reason]_queueVars
  <2> SUFFICES ASSUME ThreadInv, [Next]_vars, queueVars' # queueVars PROVE Reason
    OBVIOUS
  <2>1. Calls(SUBSET NodeType, Int)
    BY ThreadStep
  <2> QED
    BY <2>1, CallsWait DEF ThreadInv, TypeOK, QueueInv
<1> QED
  BY <1>1, ThreadInvariance, PTL DEF Spec, WaitHasReason

-----------------------------------------------------------------------------
(***************************************************************************)
(* Why children may be dropped, and how far the node limit is overshot.    *)
(***************************************************************************)
Excused == explored >= MaxNodes \/ timeUp \/ gapStop

\* Only a limit or the gap test stops the queue before it has run empty.
StopInv ==
  /\ stopped /\ ~drained => Excused
  /\ \A w \in Worker : pc[w] = "stop" => Excused
  /\ DropsAreExcused

\* A worker stops the queue for a reason that stays.
LEMMA WorkerStops ==
  ASSUME ThreadInv, StopInv, NEW w \in Worker, WorkerStep(w)
  PROVE  StopInv'
<1> USE DEF StopInv
<1>0. /\ Excused => Excused'
      /\ \A u \in Worker \ {w} : pc'[u] = pc[u]
  <2>1. explored \in Nat /\ explored' \in Nat /\ MaxNodes \in Nat
    BY WorkerType, ToleranceTypes DEF ThreadInv, TypeOK
  <2> QED
    BY <2>1, WorkerFrame DEF Excused
<1>1. pc'[w] = "stop" => Excused'
  <2>1. CASE Head(w) \/ GapDecide(w)
    BY <1>0, <2>1 DEF Head, GapDecide, Goto, Excused, sharedVars, ThreadInv, TypeOK
  <2>2. CASE \/ GapStart(w) \/ GapScanHeap(w) \/ (\E v \in todo[w] : GapScanWorker(w, v)) \/ StopAll(w) \/ PopNode(w)
             \/ HoldNode(w) \/ CheckNode(w) \/ SolveNode(w) \/ RaiseBound(w) \/ DominateNode(w)
             \/ TryRounding(w) \/ OfferCandidate(w) \/ RecordPrimal(w) \/ ReadCutoff(w) \/ PruneHeap(w)
             \/ BranchNode(w) \/ ClearBound(w) \/ ExitLoop(w)
    <3>1. pc'[w] # "stop"
      BY <2>2 DEF GapStart, GapScanHeap, GapScanWorker, StopAll, PopNode, HoldNode, CheckNode, SolveNode, RaiseBound,
         DominateNode, TryRounding, OfferCandidate, RecordPrimal, ReadCutoff, PruneHeap, AfterOffer, BranchNode,
         ClearBound, ExitLoop, Goto, ThreadInv, TypeOK
    <3> QED
      BY <3>1
  <2> QED
    BY <2>1, <2>2 DEF WorkerStep
<1>2. stopped' /\ ~drained' => Excused'
  <2>1. CASE StopAll(w)
    BY <1>0, <2>1 DEF StopAll
  <2>2. CASE PopNode(w)
    BY <1>0, <2>2 DEF PopNode, PopTake, PopStopped, PopDrained, PopWait
  <2>3. CASE PruneHeap(w) \/ BranchNode(w) \/ ExitLoop(w)
    BY <1>0, <2>3 DEF PruneHeap, Prune, BranchNode, PushChildren, Push, ExitLoop, Deactivate, Leave, queueVars
  <2>4. CASE \/ Head(w) \/ GapStart(w) \/ GapScanHeap(w) \/ (\E v \in todo[w] : GapScanWorker(w, v)) \/ GapDecide(w)
             \/ HoldNode(w) \/ CheckNode(w) \/ SolveNode(w) \/ RaiseBound(w) \/ DominateNode(w)
             \/ TryRounding(w) \/ OfferCandidate(w) \/ RecordPrimal(w) \/ ReadCutoff(w) \/ ClearBound(w)
    <3>1. UNCHANGED queueVars
      BY <2>4 DEF Head, GapStart, GapScanHeap, GapScanWorker, GapDecide, HoldNode, CheckNode, SolveNode, RaiseBound,
         DominateNode, TryRounding, OfferCandidate, RecordPrimal, ReadCutoff, ClearBound
    <3> QED
      BY <1>0, <3>1 DEF queueVars
  <2> QED
    BY <2>1, <2>2, <2>3, <2>4 DEF WorkerStep
<1>3. "push" \in lost' => Excused'
  <2>1. CASE "push" \in lost
    BY <1>0, <2>1 DEF DropsAreExcused, Excused
  <2>2. CASE BranchNode(w) /\ stopped
    <3>1. client[w] = "in"
      BY <2>2 DEF BranchNode, PushChildren
    <3>2. ~drained
      BY <3>1 DEF ThreadInv, DrainedIsIdle, Busy
    <3> QED
      BY <1>0, <2>2, <3>2
  <2>3. CASE lost' \subseteq lost \union {"lp"}
    BY <2>1, <2>3
  <2>4. CASE SolveNode(w) \/ (BranchNode(w) /\ ~stopped)
    BY <2>3, <2>4 DEF SolveNode, BranchNode
  <2>5. CASE \/ Head(w) \/ GapStart(w) \/ GapScanHeap(w) \/ (\E v \in todo[w] : GapScanWorker(w, v)) \/ GapDecide(w)
             \/ StopAll(w) \/ PopNode(w) \/ HoldNode(w) \/ CheckNode(w) \/ RaiseBound(w) \/ DominateNode(w)
             \/ TryRounding(w) \/ OfferCandidate(w) \/ RecordPrimal(w) \/ ReadCutoff(w) \/ PruneHeap(w)
             \/ ClearBound(w) \/ ExitLoop(w)
    BY <2>3, <2>5 DEF Head, GapStart, GapScanHeap, GapScanWorker, GapDecide, StopAll, PopNode, HoldNode, CheckNode,
       RaiseBound, DominateNode, TryRounding, OfferCandidate, RecordPrimal, ReadCutoff, PruneHeap, ClearBound,
       ExitLoop, sharedVars
  <2> QED
    BY <2>2, <2>4, <2>5 DEF WorkerStep
<1> QED
  BY <1>0, <1>1, <1>2, <1>3 DEF DropsAreExcused, Excused

LEMMA StopStep ==
  ASSUME ThreadInv, StopInv, [Next]_vars
  PROVE  StopInv'
<1> USE DEF StopInv
<1>1. CASE Root \/ NothingToBranch \/ Assemble \/ TimeExpires \/ UNCHANGED vars
  <2>1. UNCHANGED <<stopped, drained, pc, explored, gapStop, lost>> /\ (timeUp => timeUp')
    BY <1>1 DEF Root, NothingToBranch, Assemble, TimeExpires, vars, queueVars, sharedVars, threadVars
  <2> QED
    BY <2>1 DEF DropsAreExcused, Excused
<1>2. CASE StartSearch
  <2>1. UNCHANGED <<stopped, drained, explored, timeUp, gapStop, lost>> /\ \A w \in Worker : pc'[w] = "head"
    BY <1>2 DEF StartSearch, PushRoot, Push, Each
  <2> QED
    BY <2>1 DEF DropsAreExcused, Excused
<1> QED
  BY <1>1, <1>2, WorkerStops DEF Next, Main

\* Children are dropped on the floor only when a limit or the gap test has
\* stopped the search, never by the detection of its end.
THEOREM DropsExcused == Spec => []DropsAreExcused
<1>1. Init => StopInv
  BY DEF Init, QueueInit, Each, StopInv, DropsAreExcused
<1>2. ThreadInv /\ StopInv /\ [Next]_vars => StopInv'
  BY StopStep
<1>3. StopInv => DropsAreExcused
  BY DEF StopInv
<1> QED
  BY <1>1, <1>2, <1>3, ThreadInvariance, PTL DEF Spec

\* The workers that have passed the test of the limit and not yet counted a node.
Committed == {w \in Worker : pc[w] \in {"gap", "scan", "bounds", "pop", "hold", "check", "solve"}}

LimitInv == explored + Cardinality(Committed) <= MaxOf(MaxNodes, 1) + Cardinality(Worker) - 1

LEMMA CommittedCount ==
  /\ IsFiniteSet(Committed) /\ Cardinality(Committed) \in Nat
  /\ Cardinality(Worker) \in Nat \ {0} /\ Cardinality(Committed) <= Cardinality(Worker)
<1>1. Committed \subseteq Worker /\ IsFiniteSet(Worker) /\ Worker # {}
  BY QueueTypes, ParallelConstants DEF Committed
<1> QED
  BY <1>1, FS_Subset, FS_CardinalityType, FS_EmptySet

LEMMA LimitStep ==
  ASSUME ThreadInv, LimitInv, [Next]_vars
  PROVE  LimitInv'
<1>0. /\ explored \in Nat /\ MaxNodes \in Nat /\ MaxOf(MaxNodes, 1) \in Nat /\ MaxNodes <= MaxOf(MaxNodes, 1)
      /\ 1 <= MaxOf(MaxNodes, 1)
  BY ToleranceTypes DEF ThreadInv, TypeOK, MaxOf
<1>1. CASE explored' = explored /\ Committed' \subseteq Committed
  <2>1. Cardinality(Committed') <= Cardinality(Committed) /\ Cardinality(Committed') \in Nat
    BY <1>1, CommittedCount, FS_Subset, FS_CardinalityType
  <2> QED
    BY <1>0, <1>1, <2>1, CommittedCount DEF LimitInv
<1>2. CASE Main \/ TimeExpires \/ UNCHANGED vars
  <2>1. explored' = explored /\ (pc' = pc \/ pc' = Each("head"))
    BY <1>2 DEF Main, Root, NothingToBranch, StartSearch, Assemble, TimeExpires, vars, sharedVars, threadVars
  <2>2. Committed' \subseteq Committed
    BY <2>1 DEF Committed, Each
  <2> QED
    BY <1>1, <2>1, <2>2
<1>3. ASSUME NEW w \in Worker, WorkerStep(w) PROVE LimitInv'
  <2>0. \A u \in Worker \ {w} : pc'[u] = pc[u]
    BY <1>3, WorkerFrame
  <2>1. CASE Head(w) /\ pc'[w] = "gap"
    <3>1. explored' = explored /\ explored < MaxNodes
      BY <2>1 DEF Head, Goto, sharedVars, ThreadInv, TypeOK
    <3>2. Cardinality(Committed') \in Nat /\ Cardinality(Committed') <= Cardinality(Worker)
      <4>1. Committed' \subseteq Worker
        BY DEF Committed
      <4> QED
        BY <4>1, QueueTypes, FS_Subset, FS_CardinalityType
    <3> QED
      BY <1>0, <3>1, <3>2, CommittedCount DEF LimitInv
  <2>2. CASE SolveNode(w)
    <3>1. explored' = explored + 1 /\ pc[w] = "solve" /\ pc'[w] \in {"bound", "clear"}
      BY <2>2 DEF SolveNode, Goto, ThreadInv, TypeOK
    <3>2. Committed' = Committed \ {w} /\ w \in Committed
      BY <2>0, <3>1 DEF Committed
    <3>3. Cardinality(Committed') = Cardinality(Committed) - 1
      BY <3>2, CommittedCount, FS_RemoveElement
    <3> QED
      BY <1>0, <3>1, <3>3, CommittedCount DEF LimitInv
  <2>3. CASE \/ GapStart(w) \/ GapScanHeap(w) \/ (\E v \in todo[w] : GapScanWorker(w, v)) \/ GapDecide(w)
             \/ PopNode(w) \/ HoldNode(w) \/ CheckNode(w)
    <3>1. w \in Committed /\ explored' = explored
      BY <2>3 DEF GapStart, GapScanHeap, GapScanWorker, GapDecide, PopNode, HoldNode, CheckNode, Committed, sharedVars
    <3>2. Committed' \subseteq Committed
      BY <2>0, <3>1 DEF Committed
    <3> QED
      BY <1>1, <3>1, <3>2
  <2>4. CASE \/ (Head(w) /\ pc'[w] # "gap") \/ StopAll(w) \/ RaiseBound(w) \/ DominateNode(w) \/ TryRounding(w)
             \/ OfferCandidate(w) \/ RecordPrimal(w) \/ ReadCutoff(w) \/ PruneHeap(w) \/ BranchNode(w)
             \/ ClearBound(w) \/ ExitLoop(w)
    <3>1. explored' = explored /\ w \notin Committed'
      BY <2>4 DEF Head, StopAll, RaiseBound, DominateNode, TryRounding, OfferCandidate, RecordPrimal, ReadCutoff,
         PruneHeap, AfterOffer, BranchNode, ClearBound, ExitLoop, Goto, Committed, sharedVars, ThreadInv, TypeOK
    <3>2. Committed' \subseteq Committed
      BY <2>0, <3>1 DEF Committed
    <3> QED
      BY <1>1, <3>1, <3>2
  <2> QED
    BY <1>3, <2>1, <2>2, <2>3, <2>4 DEF WorkerStep
<1> QED
  BY <1>2, <1>3 DEF Next

\* Each other worker can have counted one node after the limit was reached.
THEOREM NodeLimit == Spec => []NodeLimitKept
<1>1. Init => LimitInv
  <2> SUFFICES ASSUME Init PROVE LimitInv
    OBVIOUS
  <2>1. explored = 1 /\ Committed = {}
    BY DEF Init, Each, Committed
  <2>2. Cardinality(Committed) = 0 /\ MaxOf(MaxNodes, 1) \in Nat /\ 1 <= MaxOf(MaxNodes, 1)
    BY <2>1, FS_EmptySet, ToleranceTypes DEF MaxOf
  <2> QED
    BY <2>1, <2>2, CommittedCount DEF LimitInv
<1>2. ThreadInv /\ LimitInv /\ [Next]_vars => LimitInv'
  BY LimitStep
<1>3. ThreadInv /\ LimitInv => NodeLimitKept
  <2> SUFFICES ASSUME ThreadInv, LimitInv PROVE NodeLimitKept
    OBVIOUS
  <2>1. explored \in Nat /\ MaxOf(MaxNodes, 1) \in Nat
    BY ToleranceTypes DEF ThreadInv, TypeOK, MaxOf
  <2> QED
    BY <2>1, CommittedCount DEF LimitInv, NodeLimitKept
<1> QED
  BY <1>1, <1>2, <1>3, ThreadInvariance, PTL DEF Spec

-----------------------------------------------------------------------------
(***************************************************************************)
(* The shared objective and the recorded point.                            *)
(***************************************************************************)
Recorded ==
  /\ best <= recorded
  /\ IF primal = NoPoint THEN recorded = Inf ELSE Cost[primal] = recorded
  /\ best = recorded \/ \E w \in Worker : pc[w] = "record" /\ cand[w].obj = best
  /\ \A w \in Worker : pc[w] = "record" => best <= cand[w].obj

AgreeInv ==
  /\ phase \notin {"search", "done"} => IncumbentKnown /\ FoundIntegral
  /\ phase = "search" => Recorded
  /\ IncumbentAgrees

\* What a worker offers is an integer point of its node.
LEMMA CandFacts ==
  ASSUME ThreadInv, NEW w \in Worker, pc[w] \in {"offer", "record"}
  PROVE  /\ cand[w].x \in PointsIn[node[w].sub] /\ cand[w].x \in Point /\ cand[w].x # NoPoint
         /\ cand[w].obj = Cost[cand[w].x] /\ cand[w].obj \in Int /\ cand[w].obj < Inf - AbsGap
<1>1. node[w].sub \in Sub
  BY DEF ThreadInv, TypeOK, NodeType
<1>2. cand[w].x \in PointsIn[node[w].sub] /\ cand[w].obj = Cost[cand[w].x]
  BY DEF ThreadInv, SolKnown
<1> QED
  BY <1>1, <1>2, PointFacts

\* The workers' compare-and-swaps and records keep the two in step.
LEMMA WorkerAgrees ==
  ASSUME ThreadInv, AgreeInv, NEW w \in Worker, WorkerStep(w)
  PROVE  AgreeInv' /\ best' <= best
<1>0. /\ phase = "search" /\ phase' = "search" /\ Recorded
      /\ best \in Int /\ recorded \in Int /\ Inf \in Int /\ ImproveEps \in Nat
      /\ \A u \in Worker \ {w} : pc'[u] = pc[u] /\ cand'[u] = cand[u]
      /\ \A u \in Worker : cand[u].obj \in Int
  BY StepInSearch, WorkerFrame, ImproveEpsType, ToleranceTypes
     DEF AgreeInv, ThreadInv, TypeOK, RootTypeOK, LpSolution
<1>1. CASE OfferCandidate(w) /\ Improves(cand[w].obj)
  <2>1. /\ best' = cand[w].obj /\ pc'[w] = "record" /\ cand' = cand /\ recorded' = recorded /\ primal' = primal
        /\ best' <= best
    BY <1>0, <1>1 DEF OfferCandidate, Goto, Improves, sharedVars, ThreadInv, TypeOK
  <2>2. \A u \in Worker : pc'[u] = "record" => best' <= cand'[u].obj
    BY <1>0, <2>1 DEF Recorded
  <2>3. Recorded'
    BY <1>0, <2>1, <2>2 DEF Recorded
  <2> QED
    BY <1>0, <2>1, <2>3 DEF AgreeInv, IncumbentAgrees, Recorded
<1>2. CASE RecordPrimal(w)
  <2>1. /\ pc[w] = "record" /\ pc'[w] = "cutoff" /\ best' = best
        /\ \/ cand[w].obj < recorded /\ recorded' = cand[w].obj /\ primal' = cand[w].x
           \/ ~(cand[w].obj < recorded) /\ recorded' = recorded /\ primal' = primal
    BY <1>2 DEF RecordPrimal, Goto, ThreadInv, TypeOK
  <2>2. /\ cand[w].x # NoPoint /\ cand[w].obj = Cost[cand[w].x] /\ best <= cand[w].obj
    BY <1>0, <2>1, CandFacts DEF Recorded
  <2>3. best' <= recorded' /\ IF primal' = NoPoint THEN recorded' = Inf ELSE Cost[primal'] = recorded'
    BY <1>0, <2>1, <2>2 DEF Recorded
  <2>4. best' = recorded' \/ \E u \in Worker : pc'[u] = "record" /\ cand'[u].obj = best'
    <3>1. CASE best = recorded
      BY <1>0, <2>1, <2>2, <3>1
    <3>2. CASE best # recorded
      <4>1. PICK u \in Worker : pc[u] = "record" /\ cand[u].obj = best
        BY <1>0, <3>2 DEF Recorded
      <4>2. CASE u = w
        BY <1>0, <2>1, <4>1, <4>2 DEF Recorded
      <4>3. CASE u # w
        BY <1>0, <2>1, <4>1, <4>3
      <4> QED
        BY <4>2, <4>3
    <3> QED
      BY <3>1, <3>2
  <2>5. \A u \in Worker : pc'[u] = "record" => best' <= cand'[u].obj
    BY <1>0, <2>1 DEF Recorded
  <2>6. Recorded'
    BY <2>3, <2>4, <2>5 DEF Recorded
  <2> QED
    BY <1>0, <2>1, <2>6 DEF AgreeInv, IncumbentAgrees, Recorded
<1>3. CASE ~RecordPrimal(w) /\ ~(OfferCandidate(w) /\ Improves(cand[w].obj))
  <2>1. /\ best' = best /\ recorded' = recorded /\ primal' = primal
        /\ pc[w] # "record" /\ pc'[w] # "record"
    <3>1. CASE OfferCandidate(w) \/ PruneHeap(w)
      BY <1>3, <3>1 DEF OfferCandidate, PruneHeap, AfterOffer, Goto, rootVars, sharedVars, ThreadInv, TypeOK
    <3>2. CASE ~OfferCandidate(w) /\ ~PruneHeap(w)
      BY <1>3, <3>2 DEF WorkerStep, Head, GapStart, GapScanHeap, GapScanWorker, GapDecide, StopAll, PopNode, HoldNode,
         CheckNode, SolveNode, RaiseBound, DominateNode, TryRounding, ReadCutoff, BranchNode, ClearBound, ExitLoop,
         Goto, rootVars, sharedVars, ThreadInv, TypeOK
    <3> QED
      BY <3>1, <3>2
  <2>2. Recorded'
    <3>1. \A u \in Worker : pc[u] = "record" => u # w
      BY <2>1
    <3> QED
      BY <1>0, <2>1, <3>1 DEF Recorded
  <2> QED
    BY <1>0, <2>1, <2>2 DEF AgreeInv, IncumbentAgrees, Recorded
<1> QED
  BY <1>1, <1>2, <1>3

LEMMA AgreeStep ==
  ASSUME ThreadInv, AgreeInv, [Next]_vars
  PROVE  AgreeInv'
<1>0. /\ best \in Int /\ AbsGap \in Nat /\ Inf \in Int
      /\ \A p \in PointsIn[root] : Cost[p] \in Int /\ Cost[p] < Inf - AbsGap
  BY RootIsSub, PointFacts, ToleranceTypes DEF ThreadInv, TypeOK, RootTypeOK
<1>1. CASE Root
  <2>1. RootNext /\ recorded' = recorded /\ phase \notin {"search", "done"} /\ phase' # "search"
    BY <1>1 DEF Root, sharedVars, RootNext, RootLpEnds, RootLpIntegral, RootLpFractional, RootHeuristics,
       RootNoCuts, RootCuts, RootGapClosed, RootGapOpen, StrongInfeasible, StrongReduce, StrongNothing, Finish
  <2>2. IncumbentKnown' /\ FoundIntegral' /\ recorded = Inf /\ root' = root
    BY <2>1, RootIncumbent, RootFound, RootFrame DEF ThreadInv, TypeOK, AgreeInv, PhaseControl
  <2>3. best' <= Inf
    <3>1. primal' # NoPoint => primal' \in PointsIn[root] /\ Cost[primal'] = best'
      BY <2>2 DEF IncumbentKnown
    <3>2. primal' = NoPoint => best' = Inf
      BY <2>2 DEF IncumbentKnown
    <3> QED
      BY <1>0, <3>1, <3>2
  <2> QED
    BY <2>1, <2>2, <2>3 DEF AgreeInv, IncumbentAgrees, IncumbentKnown
<1>2. CASE StartSearch
  <2>1. /\ phase = "start" /\ phase' = "search" /\ recorded' = best /\ best' = best /\ primal' = primal
        /\ \A w \in Worker : pc'[w] = "head"
    BY <1>2 DEF StartSearch, Each
  <2>2. IF primal = NoPoint THEN best = Inf ELSE Cost[primal] = best
    BY <2>1 DEF AgreeInv, IncumbentKnown
  <2> QED
    BY <1>0, <2>1, <2>2 DEF AgreeInv, Recorded, IncumbentAgrees
<1>3. CASE NothingToBranch
  <2>1. phase = "start" /\ phase' = "done" /\ UNCHANGED <<root, best, primal, recorded, pc>>
    BY <1>3 DEF NothingToBranch, Finish, sharedVars, threadVars
  <2>2. IncumbentKnown /\ recorded = Inf
    BY <2>1 DEF AgreeInv, ThreadInv, PhaseControl
  <2>3. best <= Inf
    BY <1>0, <2>2 DEF IncumbentKnown
  <2> QED
    BY <2>1, <2>2, <2>3 DEF AgreeInv, IncumbentAgrees, IncumbentKnown
<1>4. CASE Assemble
  BY <1>4 DEF Assemble, Finish, sharedVars, threadVars, AgreeInv, IncumbentAgrees, Recorded
<1>5. CASE TimeExpires \/ UNCHANGED vars
  <2>1. UNCHANGED <<rootVars, recorded, pc, cand>>
    BY <1>5 DEF TimeExpires, vars, sharedVars, threadVars
  <2> QED
    BY <2>1 DEF rootVars, AgreeInv, IncumbentAgrees, Recorded, IncumbentKnown, FoundIntegral
<1> QED
  BY <1>1, <1>2, <1>3, <1>4, <1>5, WorkerAgrees DEF Next, Main

LEMMA AgreeInvariance == Spec => []AgreeInv
<1>1. Init => AgreeInv
  BY DEF Init, RootInit, AgreeInv, IncumbentKnown, FoundIntegral, IncumbentAgrees
<1>2. ThreadInv /\ AgreeInv /\ [Next]_vars => AgreeInv'
  BY AgreeStep
<1> QED
  BY <1>1, <1>2, ThreadInvariance, PTL DEF Spec

\* The shared objective runs ahead of the recorded point, never behind, and they
\* agree when no worker is between its compare-and-swap and its record.
THEOREM IncumbentAgreement == Spec => []IncumbentAgrees
  BY AgreeInvariance, PTL DEF AgreeInv

-----------------------------------------------------------------------------
(***************************************************************************)
(* For a minimisation: every integer point is accounted for while no node  *)
(* has been lost, so an answer that claims to be complete is.              *)
(***************************************************************************)
\* A node lies in the model, and its bound bounds its points.
Bounded(n) == PointsIn[n.sub] \subseteq PointsIn[root] /\ \A q \in PointsIn[n.sub] : n.lb <= Cost[q]

NodesBounded == (\A n \in heap : Bounded(n)) /\ \A w \in Held : Bounded(node[w])

\* A cutoff read earlier prunes no more than the incumbent of now would.
CutoffsHold ==
  \A w \in Worker :
    /\ pc[w] \in {"gap", "scan", "bounds", "pop", "prune"} => best - AbsGap <= cutoff[w]
    /\ (pc[w] \in {"record", "cutoff", "prune"} /\ sol[w].x \in Point) => best <= sol[w].obj

SafeInv ==
  /\ RootInv
  /\ phase = "search" => NodesBounded /\ CutoffsHold /\ (primal # NoPoint => primal \in PointsIn[root])
  /\ Covered
  /\ lost = {} => AnswerIsSound

\* Whatever a worker does with its node, the bound of the node stays one.
LEMMA WorkerBounded ==
  ASSUME Sense = 1, ThreadInv, SafeInv, NEW w \in Worker, WorkerStep(w)
  PROVE  NodesBounded'
<1>0. /\ phase = "search" /\ root' = root /\ NodesBounded
      /\ \A u \in Worker \ {w} : pc'[u] = pc[u] /\ node'[u] = node[u]
      /\ pc \in [Worker -> Stages] /\ pc' \in [Worker -> Stages] /\ node \in [Worker -> NodeType]
  BY StepInSearch, WorkerFrame, WorkerType DEF SafeInv, ThreadInv, TypeOK
<1>1. \A n : Bounded(n)' <=> Bounded(n)
  BY <1>0 DEF Bounded
<1>2. \A u \in Held' \ {w} : u \in Held /\ Bounded(node'[u])
  BY <1>0 DEF Held, NodesBounded
<1>3. CASE heap' \subseteq heap /\ (w \in Held' => w \in Held /\ node'[w] = node[w])
  <2>1. \A u \in Held' : u \in Held /\ node'[u] = node[u]
    BY <1>0, <1>2, <1>3 DEF Held
  <2> QED
    BY <1>0, <1>1, <1>3, <2>1 DEF NodesBounded
<1>4. CASE PopNode(w)
  <2>1. CASE \E n \in heap : PopTake(w, cutoff[w], n) /\ node' = Set(node, w, n)
    <3>1. PICK n \in heap : PopTake(w, cutoff[w], n) /\ node' = Set(node, w, n)
      BY <2>1
    <3>2. node'[w] = n /\ heap' \subseteq heap
      BY <1>0, <3>1 DEF Set, PopTake, Unpruned
    <3>3. \A u \in Held' : Bounded(node'[u])
      BY <1>2, <3>1, <3>2, <1>0 DEF NodesBounded
    <3> QED
      BY <1>0, <1>1, <3>2, <3>3 DEF NodesBounded
  <2>2. CASE ~\E n \in heap : PopTake(w, cutoff[w], n) /\ node' = Set(node, w, n)
    <3>1. heap' \subseteq heap /\ pc'[w] \in {"exit", "pop"}
      BY <1>0, <1>4, <2>2 DEF PopNode, PopStopped, PopDrained, PopWait, Goto
    <3> QED
      BY <1>3, <3>1 DEF Held
  <2> QED
    BY <2>1, <2>2
<1>5. CASE SolveNode(w)
  <2>0. w \in Held /\ Bounded(node[w]) /\ heap' = heap
    BY <1>0, <1>5 DEF SolveNode, Held, NodesBounded, queueVars
  <2>1. CASE pc'[w] = "clear"
    BY <1>3, <2>0, <2>1 DEF Held
  <2>2. CASE pc'[w] # "clear"
    <3>1. PICK v \in Verdicts[node[w].sub] :
            v.status = "optimal" /\ node' = Set(node, w, [node[w] EXCEPT !.lb = v.obj])
      BY <1>0, <1>5, <2>2 DEF SolveNode, Goto
    <3>2. node'[w].sub = node[w].sub /\ node'[w].lb = v.obj /\ node[w].sub \in Sub
      BY <1>0, <3>1 DEF Set, NodeType
    <3>3. \A q \in PointsIn[node[w].sub] : v.obj <= Cost[q]
      BY <3>1, <3>2, VerdictContract
    <3>4. Bounded(node'[w])
      BY <2>0, <3>2, <3>3 DEF Bounded
    <3>5. \A u \in Held' : Bounded(node'[u])
      BY <1>2, <3>4
    <3> QED
      BY <1>0, <1>1, <2>0, <3>5 DEF NodesBounded
  <2> QED
    BY <2>1, <2>2
<1>6. CASE BranchNode(w)
  <2>1. PICK K \in Branchings[node[w].sub][sol[w].x] : PushChildren(w, Children(K, sol[w].obj, node[w].depth))
    BY <1>6 DEF BranchNode
  <2>2. pc[w] = "branch" /\ pc'[w] = "clear" /\ node' = node
    BY <1>0, <1>6 DEF BranchNode, Goto
  <2>3. /\ Bounded(node[w]) /\ K \subseteq Sub /\ PointsIn[node[w].sub] = UNION {PointsIn[k] : k \in K}
        /\ \A q \in PointsIn[node[w].sub] : sol[w].obj <= Cost[q]
    <3>1. sol[w].x \notin Point
      BY <2>2 DEF ThreadInv, SolKnown
    <3> QED
      BY <1>0, <2>1, <2>2, <3>1, SolFacts, ChildrenType DEF NodesBounded, Held, Solved, Covers
  <2>4. \A n \in Children(K, sol[w].obj, node[w].depth) : Bounded(n)
    BY <2>3 DEF Children, Bounded
  <2>5. \A n \in heap' : Bounded(n)
    BY <1>0, <2>1, <2>4 DEF PushChildren, Push, NodesBounded
  <2>6. \A u \in Held' : u \in Held /\ node'[u] = node[u]
    BY <1>0, <1>2, <2>2 DEF Held
  <2> QED
    BY <1>0, <1>1, <2>5, <2>6 DEF NodesBounded
<1>7. CASE \/ Head(w) \/ GapStart(w) \/ GapScanHeap(w) \/ (\E v \in todo[w] : GapScanWorker(w, v)) \/ GapDecide(w)
           \/ StopAll(w) \/ ClearBound(w) \/ ExitLoop(w)
  <2>1. heap' = heap /\ w \notin Held'
    BY <1>0, <1>7 DEF Head, GapStart, GapScanHeap, GapScanWorker, GapDecide, StopAll, RequestStop, ClearBound,
       ExitLoop, Deactivate, Leave, Goto, Held, queueVars
  <2> QED
    BY <1>3, <2>1
<1>8. CASE \/ HoldNode(w) \/ CheckNode(w) \/ RaiseBound(w) \/ DominateNode(w) \/ TryRounding(w)
           \/ OfferCandidate(w) \/ RecordPrimal(w) \/ ReadCutoff(w) \/ PruneHeap(w)
  <2>1. heap' \subseteq heap /\ w \in Held /\ node'[w] = node[w]
    BY <1>8 DEF HoldNode, CheckNode, RaiseBound, DominateNode, TryRounding, OfferCandidate, RecordPrimal,
       ReadCutoff, PruneHeap, Prune, Unpruned, Held, Stages, queueVars
  <2> QED
    BY <1>3, <2>1
<1> QED
  BY <1>4, <1>5, <1>6, <1>7, <1>8 DEF WorkerStep

\* A cutoff is read once and the incumbent only gets better.
LEMMA WorkerCutoffs ==
  ASSUME ThreadInv, AgreeInv, NEW w \in Worker, WorkerStep(w), CutoffsHold
  PROVE  CutoffsHold'
<1>0. /\ \A u \in Worker \ {w} : pc'[u] = pc[u] /\ sol'[u] = sol[u] /\ cutoff'[u] = cutoff[u]
      /\ best' <= best /\ best \in Int /\ best' \in Int /\ AbsGap \in Int
      /\ \A u \in Worker : cutoff[u] \in Int /\ sol[u].obj \in Int
      /\ pc \in [Worker -> Stages] /\ cutoff \in [Worker -> Int] /\ sol \in [Worker -> LpSolution]
  BY WorkerFrame, WorkerAgrees, WorkerType, ToleranceTypes DEF ThreadInv, TypeOK, RootTypeOK, LpSolution
<1> DEFINE Cut(u) == /\ pc[u] \in {"gap", "scan", "bounds", "pop", "prune"} => best - AbsGap <= cutoff[u]
                     /\ (pc[u] \in {"record", "cutoff", "prune"} /\ sol[u].x \in Point) => best <= sol[u].obj
<1>1. Cut(w)
  BY DEF CutoffsHold
<1>2. Cut(w)'
  <2>1. CASE Head(w) \/ ReadCutoff(w)
    BY <1>0, <1>1, <2>1 DEF Head, ReadCutoff, Goto, Set, rootVars
  <2>2. CASE GapStart(w) \/ GapScanHeap(w) \/ (\E v \in todo[w] : GapScanWorker(w, v)) \/ GapDecide(w)
    BY <1>0, <1>1, <2>2 DEF GapStart, GapScanHeap, GapScanWorker, GapDecide, Goto, rootVars
  <2>3. CASE PopNode(w)
    BY <1>0, <1>1, <2>3 DEF PopNode, Goto, rootVars
  <2>4. CASE OfferCandidate(w)
    <3>1. /\ sol' = sol /\ pc[w] = "offer"
          /\ \/ pc'[w] = "record" /\ best' = cand[w].obj
             \/ pc'[w] \in {"clear", "branch"}
      BY <1>0, <2>4 DEF OfferCandidate, AfterOffer, Goto
    <3>2. sol[w].x \in Point => cand[w].obj = sol[w].obj
      BY <3>1 DEF ThreadInv, SolKnown
    <3> QED
      BY <1>0, <3>1, <3>2
  <2>5. CASE RecordPrimal(w)
    BY <1>0, <1>1, <2>5 DEF RecordPrimal, Goto
  <2>6. CASE \/ StopAll(w) \/ HoldNode(w) \/ CheckNode(w) \/ SolveNode(w) \/ RaiseBound(w) \/ DominateNode(w)
             \/ TryRounding(w) \/ PruneHeap(w) \/ BranchNode(w) \/ ClearBound(w) \/ ExitLoop(w)
    <3>1. pc'[w] \notin {"gap", "scan", "bounds", "pop", "prune", "record", "cutoff"}
      BY <1>0, <2>6 DEF StopAll, HoldNode, CheckNode, SolveNode, RaiseBound, DominateNode, TryRounding, PruneHeap,
         AfterOffer, BranchNode, ClearBound, ExitLoop, Goto
    <3> QED
      BY <3>1
  <2> QED
    BY <2>1, <2>2, <2>3, <2>4, <2>5, <2>6 DEF WorkerStep
<1>3. ASSUME NEW u \in Worker, u # w PROVE Cut(u)'
  <2>1. Cut(u)
    BY DEF CutoffsHold
  <2> QED
    BY <1>0, <1>3, <2>1
<1> QED
  BY <1>2, <1>3 DEF CutoffsHold

\* What has been lost stays lost.
LEMMA LostStays ==
  ASSUME NEW w \in Worker, WorkerStep(w)
  PROVE  lost \subseteq lost'
<1>1. CASE SolveNode(w) \/ BranchNode(w)
  BY <1>1 DEF SolveNode, BranchNode
<1>2. CASE ~SolveNode(w) /\ ~BranchNode(w)
  BY <1>2 DEF WorkerStep, Head, GapStart, GapScanHeap, GapScanWorker, GapDecide, StopAll, PopNode, HoldNode,
     CheckNode, RaiseBound, DominateNode, TryRounding, OfferCandidate, RecordPrimal, ReadCutoff, PruneHeap,
     ClearBound, ExitLoop, sharedVars
<1> QED
  BY <1>1, <1>2

\* An integer point no worker and no open node is to find is not worth finding.
LEMMA WorkerCovers ==
  ASSUME Sense = 1, ThreadInv, AgreeInv, SafeInv, NEW w \in Worker, WorkerStep(w)
  PROVE  Covered'
<1>0. /\ phase = "search" /\ root' = root /\ root \in Sub /\ NodesBounded /\ CutoffsHold
      /\ best' <= best /\ best \in Int /\ best' \in Int /\ AbsGap \in Int
      /\ \A u \in Worker \ {w} : pc'[u] = pc[u] /\ node'[u] = node[u]
      /\ \A n \in heap : n \in NodeType
      /\ pc \in [Worker -> Stages] /\ node \in [Worker -> NodeType]
      /\ cutoff[w] \in Int /\ sol[w].obj \in Int /\ node[w].lb \in Int
      /\ \A q \in PointsIn[root] : Cost[q] \in Int
  BY StepInSearch, WorkerFrame, WorkerAgrees, WorkerType, ToleranceTypes, RootIsSub, PointFacts
     DEF SafeInv, ThreadInv, TypeOK, RootTypeOK, LpSolution, NodeType
<1>1. lost \subseteq lost'
  BY LostStays
<1> SUFFICES ASSUME lost' = {}, NEW q \in PointsIn[root]
             PROVE  \/ best' - AbsGap <= Cost[q]
                    \/ \E n \in heap' : q \in PointsIn[n.sub]
                    \/ \E u \in Held' : q \in PointsIn[node'[u].sub]
  BY <1>0 DEF Covered
<1> DEFINE Kept == \/ best' - AbsGap <= Cost[q]
                   \/ \E n \in heap' : q \in PointsIn[n.sub]
                   \/ \E u \in Held' : q \in PointsIn[node'[u].sub]
<1>2. ASSUME NEW b \in Int, b <= Cost[q], best - AbsGap <= b PROVE Kept
  BY <1>0, <1>2
<1>3. CASE best - AbsGap <= Cost[q]
  BY <1>0, <1>3
<1>4. ASSUME NEW n \in heap, q \in PointsIn[n.sub] PROVE Kept
  <2>1. n.lb \in Int /\ n.lb <= Cost[q]
    BY <1>0, <1>4 DEF NodesBounded, Bounded, NodeType
  <2>2. CASE n \in heap'
    BY <1>4, <2>2
  <2>3. CASE n \notin Unpruned(cutoff[w]) /\ pc[w] \in {"pop", "prune"}
    <3>1. best - AbsGap <= n.lb
      BY <1>0, <2>1, <2>3 DEF Unpruned, CutoffsHold
    <3> QED
      BY <1>2, <2>1, <3>1
  <2>4. CASE PopNode(w)
    <3>1. CASE PopTake(w, cutoff[w], n) /\ node' = Set(node, w, n)
      <4>1. pc'[w] = "hold"
        <5>1. client'[w] = "in"
          BY <3>1 DEF PopTake, Become, ThreadInv, TypeOK, WorkersTypeOK
        <5> QED
          BY <1>0, <2>4, <3>1, <5>1 DEF PopNode, Goto, PopTake, PopStopped, PopDrained, PopWait
      <4>2. w \in Held' /\ node'[w] = n
        BY <1>0, <3>1, <4>1 DEF Held, Stages, Set
      <4> QED
        BY <1>4, <4>2
    <3>2. CASE \E m \in heap : m # n /\ PopTake(w, cutoff[w], m)
      BY <2>2, <2>3, <2>4, <3>2 DEF PopTake, PopNode
    <3>3. CASE PopStopped(w)
      BY <2>2, <3>3 DEF PopStopped
    <3>4. CASE PopDrained(w, cutoff[w]) \/ PopWait(w, cutoff[w])
      BY <2>3, <2>4, <3>4 DEF PopDrained, PopWait, PopNode
    <3> QED
      BY <2>4, <3>1, <3>2, <3>3, <3>4 DEF PopNode
  <2>5. CASE PruneHeap(w)
    BY <2>2, <2>3, <2>5 DEF PruneHeap, Prune
  <2>6. CASE StopAll(w) \/ BranchNode(w) \/ ExitLoop(w)
    BY <2>2, <2>6 DEF StopAll, RequestStop, BranchNode, PushChildren, Push, ExitLoop, Deactivate, Leave, queueVars
  <2>7. CASE \/ Head(w) \/ GapStart(w) \/ GapScanHeap(w) \/ (\E v \in todo[w] : GapScanWorker(w, v)) \/ GapDecide(w)
             \/ HoldNode(w) \/ CheckNode(w) \/ SolveNode(w) \/ RaiseBound(w) \/ DominateNode(w)
             \/ TryRounding(w) \/ OfferCandidate(w) \/ RecordPrimal(w) \/ ReadCutoff(w) \/ ClearBound(w)
    BY <2>2, <2>7 DEF Head, GapStart, GapScanHeap, GapScanWorker, GapDecide, HoldNode, CheckNode, SolveNode, RaiseBound,
       DominateNode, TryRounding, OfferCandidate, RecordPrimal, ReadCutoff, ClearBound, queueVars
  <2> QED
    BY <2>4, <2>5, <2>6, <2>7 DEF WorkerStep
<1>5. ASSUME w \in Held, q \in PointsIn[node[w].sub] PROVE Kept
  <2>0. node[w].lb <= Cost[q] /\ (pc[w] \in Solved => sol[w].obj <= Cost[q])
    BY <1>0, <1>5, SolFacts DEF NodesBounded, Bounded
  <2>1. CASE w \in Held' /\ node'[w].sub = node[w].sub
    BY <1>5, <2>1
  <2>2. CASE HoldNode(w) \/ RaiseBound(w) \/ TryRounding(w) \/ RecordPrimal(w) \/ ReadCutoff(w)
    BY <1>0, <2>1, <2>2 DEF HoldNode, RaiseBound, TryRounding, RecordPrimal, ReadCutoff, Goto, Held, Stages
  <2>3. CASE CheckNode(w)
    <3>1. CASE Dominated(node[w].lb)
      BY <1>0, <1>2, <2>0, <3>1 DEF Dominated
    <3>2. CASE ~Dominated(node[w].lb)
      BY <1>0, <2>1, <2>3, <3>2 DEF CheckNode, Goto, Held, Stages
    <3> QED
      BY <3>1, <3>2
  <2>4. CASE SolveNode(w)
    <3>1. PICK v \in Verdicts[node[w].sub] :
            IF v.status = "optimal"
            THEN node' = Set(node, w, [node[w] EXCEPT !.lb = v.obj]) /\ Goto(w, "bound")
            ELSE lost' = IF v.status = "failed" THEN lost \union {"lp"} ELSE lost
      BY <2>4 DEF SolveNode
    <3>2. CASE v.status = "optimal"
      <4>1. node'[w].sub = node[w].sub /\ w \in Held'
        BY <1>0, <3>1, <3>2 DEF Set, Goto, Held, Stages, NodeType
      <4> QED
        BY <2>1, <4>1
    <3>3. CASE v.status # "optimal"
      <4>1. node[w].sub \in Sub
        BY <1>0 DEF NodeType
      <4>2. v.status \in {"infeasible", "failed"}
        BY <3>3, <4>1, VerdictType DEF Verdict, LpStatus
      <4>3. v.status = "infeasible"
        BY <3>1, <3>3, <4>2
      <4> QED
        BY <1>5, <4>1, <4>3, VerdictContract
    <3> QED
      BY <3>2, <3>3
  <2>5. CASE DominateNode(w)
    <3>1. CASE Dominated(sol[w].obj)
      BY <1>0, <1>2, <2>0, <2>5, <3>1 DEF Dominated, DominateNode, Solved
    <3>2. CASE ~Dominated(sol[w].obj)
      BY <1>0, <2>1, <2>5, <3>2 DEF DominateNode, Goto, Held, Stages
    <3> QED
      BY <3>1, <3>2
  <2>6. CASE OfferCandidate(w)
    <3>1. CASE pc'[w] \in {"record", "branch"}
      BY <1>0, <2>1, <2>6, <3>1 DEF OfferCandidate, Goto, Held, Stages
    <3>2. CASE pc'[w] \notin {"record", "branch"}
      <4>1. ~Improves(cand[w].obj) /\ sol[w].x \in Point /\ pc[w] = "offer"
        BY <1>0, <2>6, <3>2 DEF OfferCandidate, AfterOffer, Goto
      <4>2. cand[w].obj = sol[w].obj
        BY <4>1 DEF ThreadInv, SolKnown
      <4>3. best - AbsGap <= sol[w].obj
        BY <1>0, <4>1, <4>2, ParallelConstants DEF Improves
      <4> QED
        BY <1>0, <1>2, <2>0, <4>1, <4>3 DEF Solved
    <3> QED
      BY <3>1, <3>2
  <2>7. CASE PruneHeap(w)
    <3>1. CASE sol[w].x \in Point
      <4>1. best <= sol[w].obj /\ pc[w] \in Solved
        BY <1>0, <2>7, <3>1 DEF PruneHeap, CutoffsHold, Solved
      <4>2. AbsGap \in Nat
        BY ToleranceTypes
      <4> QED
        BY <1>0, <1>2, <2>0, <4>1, <4>2
    <3>2. CASE sol[w].x \notin Point
      BY <1>0, <2>1, <2>7, <3>2 DEF PruneHeap, AfterOffer, Goto, Held, Stages
    <3> QED
      BY <3>1, <3>2
  <2>8. CASE BranchNode(w)
    <3>1. PICK K \in Branchings[node[w].sub][sol[w].x] :
            /\ PushChildren(w, Children(K, sol[w].obj, node[w].depth))
            /\ lost' = IF stopped /\ K # {} THEN lost \union {"push"} ELSE lost
      BY <2>8 DEF BranchNode
    <3>2. sol[w].x \notin Point /\ pc[w] \in Solved
      BY <2>8 DEF BranchNode, Solved, ThreadInv, SolKnown
    <3>3. PICK k \in K : q \in PointsIn[k]
      BY <1>5, <3>1, <3>2, SolFacts DEF Covers
    <3>4. ~stopped
      BY <3>1, <3>3
    <3> DEFINE child == [sub |-> k, lb |-> sol[w].obj, depth |-> node[w].depth + 1]
    <3>5. child \in Children(K, sol[w].obj, node[w].depth) /\ child.sub = k
      BY DEF Children
    <3>6. child \in heap'
      BY <3>1, <3>4, <3>5 DEF PushChildren, Push
    <3> QED
      BY <3>3, <3>5, <3>6
  <2>9. CASE \/ Head(w) \/ GapStart(w) \/ GapScanHeap(w) \/ (\E v \in todo[w] : GapScanWorker(w, v)) \/ GapDecide(w)
             \/ StopAll(w) \/ PopNode(w) \/ ClearBound(w) \/ ExitLoop(w)
    <3>1. w \notin Held
      BY <2>9 DEF Head, GapStart, GapScanHeap, GapScanWorker, GapDecide, StopAll, PopNode, ClearBound, ExitLoop, Held
    <3> QED
      BY <1>5, <3>1
  <2> QED
    BY <2>2, <2>3, <2>4, <2>5, <2>6, <2>7, <2>8, <2>9 DEF WorkerStep
<1>6. ASSUME NEW u \in Held, u # w, q \in PointsIn[node[u].sub] PROVE Kept
  BY <1>0, <1>6 DEF Held
<1>7. \/ best - AbsGap <= Cost[q]
      \/ \E n \in heap : q \in PointsIn[n.sub]
      \/ \E u \in Held : q \in PointsIn[node[u].sub]
  BY <1>0, <1>1 DEF SafeInv, Covered
<1> QED
  BY <1>3, <1>4, <1>5, <1>6, <1>7

\* What a worker records is an integer point of the model, better than before.
LEMMA WorkerGains ==
  ASSUME ThreadInv, AgreeInv, SafeInv, NEW w \in Worker, WorkerStep(w)
  PROVE  Gained
<1>1. CASE RecordPrimal(w)
  <2>1. /\ pc[w] = "record" /\ phase = "search"
        /\ primal' = primal \/ (primal' = cand[w].x /\ cand[w].obj < recorded)
    BY <1>1, StepInSearch DEF RecordPrimal
  <2>2. cand[w].x \in PointsIn[root] /\ cand[w].obj = Cost[cand[w].x]
    BY <2>1, CandFacts DEF SafeInv, NodesBounded, Bounded, Held, Stages
  <2>3. primal # NoPoint => Cost[primal] = recorded
    BY <2>1 DEF AgreeInv, Recorded
  <2> QED
    BY <2>1, <2>2, <2>3 DEF Gained
<1>2. CASE ~RecordPrimal(w)
  BY <1>2 DEF WorkerStep, Head, GapStart, GapScanHeap, GapScanWorker, GapDecide, StopAll, PopNode, HoldNode,
     CheckNode, SolveNode, RaiseBound, DominateNode, TryRounding, OfferCandidate, ReadCutoff, PruneHeap, BranchNode,
     ClearBound, ExitLoop, rootVars, Gained
<1> QED
  BY <1>1, <1>2

LEMMA WorkerSafe ==
  ASSUME Sense = 1, ThreadInv, AgreeInv, SafeInv, NEW w \in Worker, WorkerStep(w)
  PROVE  SafeInv'
<1>0. phase = "search" /\ phase' = phase /\ root' = root /\ rootSub' = rootSub /\ cur' = cur /\ blb' = blb
      /\ result' = result /\ lost \subseteq lost'
  BY StepInSearch, WorkerFrame, LostStays
<1>1. RootInv'
  BY <1>0 DEF SafeInv, RootInv, RootDomain, RootBound, NothingYet
<1>2. NodesBounded' /\ CutoffsHold' /\ Covered'
  BY <1>0, WorkerBounded, WorkerCutoffs, WorkerCovers DEF SafeInv
<1>3. primal' # NoPoint => primal' \in PointsIn[root]
  BY <1>0, WorkerGains DEF SafeInv, Gained
<1>4. lost' = {} => AnswerIsSound'
  BY <1>0 DEF SafeInv, AnswerIsSound
<1> QED
  BY <1>0, <1>1, <1>2, <1>3, <1>4 DEF SafeInv

\* The root's children start the search with every integer point in one of them.
LEMMA StartSafe ==
  ASSUME Sense = 1, ThreadInv, AgreeInv, SafeInv, StartSearch
  PROVE  SafeInv'
<1>1. PICK K \in Branchings[rootSub][cur.x] : PushRoot(Children(K, cur.obj, 0))
  BY DEF StartSearch
<1>2. /\ phase = "start" /\ phase' = "search" /\ cur.x \notin Point
      /\ UNCHANGED <<root, rootSub, cur, best, primal, blb, result, lost>>
      /\ \A w \in Worker : pc'[w] = "head"
  BY DEF StartSearch, Each
<1>3. /\ PointsIn[root] = UNION {PointsIn[k] : k \in K}
      /\ \A q \in PointsIn[root] : cur.obj <= Cost[q]
  BY <1>1, <1>2, CurContract DEF SafeInv, RootInv, RootDomain, Covers, ThreadInv, TypeOK
<1>4. heap' = Children(K, cur.obj, 0)
  BY <1>1, <1>2 DEF PushRoot, Push, ThreadInv, PhaseControl
<1>5. NodesBounded' /\ CutoffsHold'
  <2>1. Held' = {}
    BY <1>2 DEF Held
  <2>2. \A n \in heap' : PointsIn[n.sub] \subseteq PointsIn[root] /\ \A q \in PointsIn[n.sub] : n.lb <= Cost[q]
    BY <1>3, <1>4 DEF Children
  <2> QED
    BY <1>2, <2>1, <2>2 DEF NodesBounded, Bounded, CutoffsHold
<1>6. Covered'
  <2> SUFFICES ASSUME NEW q \in PointsIn[root] PROVE \E n \in heap' : q \in PointsIn[n.sub]
    BY <1>2 DEF Covered
  <2>1. PICK k \in K : q \in PointsIn[k]
    BY <1>3
  <2>2. [sub |-> k, lb |-> cur.obj, depth |-> 0 + 1] \in heap'
    BY <1>4 DEF Children
  <2> QED
    BY <2>1, <2>2
<1>7. primal' # NoPoint => primal' \in PointsIn[root]
  BY <1>2 DEF AgreeInv, IncumbentKnown
<1>8. RootInv' /\ (lost' = {} => AnswerIsSound')
  BY <1>2 DEF SafeInv, RootInv, RootDomain, RootBound, NothingYet, AnswerIsSound
<1> QED
  BY <1>2, <1>5, <1>6, <1>7, <1>8 DEF SafeInv

\* What the main thread answers when all workers are home.
LEMMA AssembleAnswers ==
  ASSUME Sense = 1, ThreadInv, AgreeInv, SafeInv, Assemble
  PROVE  (lost = {} => AnswerIsSound') /\ AnswerFollows
<1>0. /\ phase = "search" /\ root' = root /\ root \in Sub /\ best \in Int /\ AbsGap \in Nat /\ Inf \in Int
      /\ \A w \in Worker : pc[w] = "gone"
      /\ \A q \in PointsIn[root] : Cost[q] \in Int /\ Cost[q] < Inf - AbsGap /\ q # NoPoint
      /\ \A n \in heap : n.lb \in Int
  BY RootIsSub, PointFacts, ToleranceTypes DEF Assemble, ThreadInv, TypeOK, RootTypeOK, NodeType
<1>1. PICK b \in {n.lb : n \in heap} \union {Inf} :
        /\ HeapBound(b)
        /\ result' = (IF best < Inf
                      THEN Answer(IF Complete THEN "optimal" ELSE "resource_limit", best,
                                  IF TreeDone THEN best ELSE MinOf(best, b), primal)
                      ELSE NoAnswer(IF Complete THEN "infeasible" ELSE "resource_limit"))
  BY DEF Assemble, Finish
<1>2. IF primal = NoPoint THEN best = Inf ELSE primal \in PointsIn[root] /\ Cost[primal] = best
  BY <1>0 DEF AgreeInv, IncumbentAgrees, SafeInv
<1>3. lost = {} => \A q \in PointsIn[root] : best - AbsGap <= Cost[q] \/ \E n \in heap : q \in PointsIn[n.sub]
  BY <1>0 DEF SafeInv, Covered, Held
<1>4. b \in Int
  BY <1>0
<1>5. CASE best < Inf
  <2>1. /\ result'.status = (IF Complete THEN "optimal" ELSE "resource_limit")
        /\ result'.obj = best /\ result'.x = primal
        /\ result'.bound = (IF TreeDone THEN best ELSE MinOf(best, b))
    BY <1>1, <1>5 DEF Answer
  <2>2. primal \in PointsIn[root] /\ Cost[primal] = best
    BY <1>0, <1>2, <1>5
  <2>3. ASSUME lost = {}, NEW q \in PointsIn[root] PROVE result'.bound <= Cost[q] + AbsGap
    <3>1. CASE best - AbsGap <= Cost[q]
      BY <1>0, <1>4, <2>1, <3>1 DEF MinOf
    <3>2. CASE ~(best - AbsGap <= Cost[q])
      <4>1. PICK n \in heap : q \in PointsIn[n.sub]
        BY <1>3, <2>3, <3>2
      <4>2. n.lb <= Cost[q] /\ n.lb \in Int
        BY <1>0, <4>1 DEF SafeInv, NodesBounded, Bounded
      <4>3. ~TreeDone /\ b <= n.lb
        BY <1>0, <1>1, <4>1 DEF TreeDone, HeapBound, IsTop, Before
      <4> QED
        BY <1>0, <1>4, <2>1, <4>2, <4>3 DEF MinOf
    <3> QED
      BY <3>1, <3>2
  <2>4. ASSUME lost = {}, Complete, NEW q \in PointsIn[root] PROVE WithinTolerance(best, q)
    <3>1. best - AbsGap <= Cost[q]
      BY <1>3, <2>4 DEF Complete, TreeDone
    <3>2. Sense * (best - Cost[q]) = best - Cost[q]
      BY <1>0
    <3>3. Sense * (best - Cost[q]) <= AbsGap
      BY <1>0, <3>1, <3>2
    <3> QED
      BY <3>3 DEF WithinTolerance
  <2>5. lost = {} => AnswerIsSound'
    BY <1>0, <2>1, <2>2, <2>3, <2>4 DEF AnswerIsSound
  <2>6. AnswerFollows
    BY <1>0, <2>1, <2>2 DEF AnswerFollows
  <2> QED
    BY <2>5, <2>6
<1>6. CASE ~(best < Inf)
  <2>1. result'.status = (IF Complete THEN "infeasible" ELSE "resource_limit") /\ result'.x = NoPoint
    BY <1>1, <1>6 DEF NoAnswer, Answer
  <2>2. primal = NoPoint
    BY <1>0, <1>2, <1>6
  <2>3. (lost = {} /\ Complete) => PointsIn[root] = {}
    <3> SUFFICES ASSUME lost = {}, heap = {}, NEW q \in PointsIn[root] PROVE FALSE
      BY DEF Complete, TreeDone
    <3>1. best - AbsGap <= Cost[q]
      BY <1>3
    <3> QED
      BY <1>0, <1>6, <3>1
  <2> QED
    BY <1>0, <2>1, <2>2, <2>3 DEF AnswerIsSound, AnswerFollows
<1> QED
  BY <1>5, <1>6

\* The root's point is integral: the incumbent is within a tolerance of it.
LEMMA NothingToBranchAnswers ==
  ASSUME Sense = 1, ThreadInv, AgreeInv, NothingToBranch
  PROVE  AnswerIsSound' /\ AnswerFollows
<1>0. /\ phase = "start" /\ cur.x \in Point /\ root' = root /\ root \in Sub
      /\ best \in Int /\ AbsGap \in Nat /\ cur.obj \in Int
      /\ \A q \in PointsIn[root] : Cost[q] \in Int /\ q # NoPoint /\ cur.obj <= Cost[q]
  BY RootIsSub, PointFacts, CurContract, ToleranceTypes DEF NothingToBranch, ThreadInv, TypeOK, RootTypeOK
<1>1. primal # NoPoint /\ best - AbsGap <= cur.obj /\ primal \in PointsIn[root] /\ Cost[primal] = best
  BY <1>0 DEF AgreeInv, FoundIntegral, IncumbentKnown
<1>2. result' = Answer("optimal", best, best, primal)
  BY <1>1 DEF NothingToBranch, Finish
<1>3. result'.status = "optimal" /\ result'.obj = best /\ result'.bound = best /\ result'.x = primal
  BY <1>2 DEF Answer
<1>4. ASSUME NEW q \in PointsIn[root] PROVE best <= Cost[q] + AbsGap /\ WithinTolerance(best, q)
  <2>1. best <= Cost[q] + AbsGap
    BY <1>0, <1>1
  <2>2. Sense * (best - Cost[q]) = best - Cost[q]
    BY <1>0
  <2>3. Sense * (best - Cost[q]) <= AbsGap
    BY <1>0, <2>1, <2>2
  <2> QED
    BY <2>1, <2>3 DEF WithinTolerance
<1> QED
  BY <1>0, <1>1, <1>3, <1>4 DEF AnswerIsSound, AnswerFollows

LEMMA SafeStep ==
  ASSUME Sense = 1, ThreadInv, AgreeInv, SafeInv, [Next]_vars
  PROVE  SafeInv'
<1>1. CASE Root
  <2>1. /\ RootNext /\ lost' = lost /\ phase' # "search"
        /\ RootTypeOK /\ RootKnown /\ RootInv /\ IncumbentKnown
    BY <1>1 DEF Root, sharedVars, RootNext, RootLpEnds, RootLpIntegral, RootLpFractional, RootHeuristics,
       RootNoCuts, RootCuts, RootGapClosed, RootGapOpen, StrongInfeasible, StrongReduce, StrongNothing, Finish,
       ThreadInv, TypeOK, AgreeInv, SafeInv
  <2>2. RootInv'
    BY <2>1, RootStep
  <2>3. lost' = {} => AnswerIsSound'
    <3>1. CASE phase' = "done"
      BY <2>1, <3>1, RootAnswers
    <3>2. CASE phase' # "done"
      BY <2>1, <3>2, RootFrame DEF SafeInv, AnswerIsSound
    <3> QED
      BY <3>1, <3>2
  <2> QED
    BY <2>1, <2>2, <2>3 DEF SafeInv, Covered
<1>2. CASE NothingToBranch \/ Assemble
  <2>1. phase' = "done" /\ UNCHANGED <<root, rootSub, cur, primal, blb, lost>>
    BY <1>2 DEF NothingToBranch, Assemble, Finish, sharedVars
  <2>2. lost' = {} => AnswerIsSound'
    BY <1>2, <2>1, NothingToBranchAnswers, AssembleAnswers
  <2>3. RootInv'
    BY <2>1 DEF SafeInv, RootInv, RootDomain, RootBound, NothingYet
  <2> QED
    BY <2>1, <2>2, <2>3 DEF SafeInv, Covered
<1>3. CASE TimeExpires \/ UNCHANGED vars
  <2>1. UNCHANGED <<rootVars, queueVars, lost, threadVars>>
    BY <1>3 DEF TimeExpires, vars, sharedVars
  <2>2. RootInv' /\ (lost' = {} => AnswerIsSound')
    BY <2>1 DEF rootVars, SafeInv, RootInv, RootDomain, RootBound, NothingYet, AnswerIsSound
  <2>3. Covered' /\ NodesBounded' = NodesBounded /\ CutoffsHold' = CutoffsHold
    BY <2>1 DEF rootVars, queueVars, threadVars, SafeInv, Covered, Held, NodesBounded, Bounded, CutoffsHold
  <2> QED
    BY <2>1, <2>2, <2>3 DEF SafeInv, rootVars
<1> QED
  BY <1>1, <1>2, <1>3, StartSafe, WorkerSafe DEF Next, Main

LEMMA SafeInvariance ==
  ASSUME Sense = 1
  PROVE  Spec => []SafeInv
<1>1. Init => SafeInv
  BY NothingClaimed DEF Init, RootInit, SafeInv, RootInv, RootDomain, RootBound, NothingYet, Covered
<1>2. ThreadInv /\ AgreeInv /\ SafeInv /\ [Next]_vars => SafeInv'
  BY SafeStep
<1> QED
  BY <1>1, <1>2, ThreadInvariance, AgreeInvariance, PTL DEF Spec

\* While no node has vanished, every integer point worth finding lies in an open
\* node or in a node a worker holds, whatever the interleaving.
THEOREM ParallelCovered ==
  ASSUME Sense = 1
  PROVE  Spec => []Covered
  BY SafeInvariance, PTL DEF SafeInv

\* "optimal" with any number of threads is optimal within a gap tolerance,
\* unless a node was lost.
THEOREM ParallelOptimal ==
  ASSUME Sense = 1
  PROVE  Spec => []OptimalUnlessLost
<1>1. SafeInv => OptimalUnlessLost
  BY DEF SafeInv, AnswerIsSound, OptimalUnlessLost
<1> QED
  BY <1>1, SafeInvariance, PTL

\* "infeasible" with any number of threads is infeasible, unless a node was lost.
THEOREM ParallelInfeasible ==
  ASSUME Sense = 1
  PROVE  Spec => []InfeasibleUnlessLost
<1>1. SafeInv => InfeasibleUnlessLost
  BY DEF SafeInv, AnswerIsSound, InfeasibleUnlessLost
<1> QED
  BY <1>1, SafeInvariance, PTL

\* The bound beside an incumbent bounds every integer point, unless a node was lost.
THEOREM ParallelBound ==
  ASSUME Sense = 1
  PROVE  Spec => []BoundUnlessLost
<1>1. SafeInv => BoundUnlessLost
  BY DEF SafeInv, AnswerIsSound, BoundUnlessLost
<1> QED
  BY <1>1, SafeInvariance, PTL

-----------------------------------------------------------------------------
(***************************************************************************)
(* milp::solve_parallel implements the abstract anytime search.            *)
(***************************************************************************)
Shown == IF phase = "done" THEN result.x ELSE primal
View == <<root, Shown, result.status>>

\* A better incumbent, or none, before the answer.
LEMMA ShownBefore ==
  ASSUME phase # "done", phase' # "done", result' = result, root' = root, result.status = "none", Gained
  PROVE  [Promise!Next]_View
  BY DEF Gained, Promise!Next, Promise!Improve, Promise!Better, View, Shown

\* The answer is justified, or excused by a lost node.
LEMMA ShownAnswer ==
  ASSUME phase # "done", phase' = "done", root' = root, result.status = "none", NoPoint \notin PointsIn[root],
         lost = {} => AnswerIsSound', AnswerFollows
  PROVE  [Promise!Next]_View
<1>1. \A obj, q : Promise!WithinTolerance(obj, q) = WithinTolerance(obj, q)
  BY DEF WithinTolerance, Promise!WithinTolerance, Abs, Promise!Abs, MaxOf, Promise!MaxOf
<1>2. lost = {} => Promise!Justified(result'.status, result'.x)
  BY <1>1 DEF AnswerIsSound, AnswerFollows, Promise!Justified
<1>3. result'.x \in PointsIn[root] \union {primal} /\ (result'.x = primal \/ primal = NoPoint)
  BY DEF AnswerFollows
<1>4. Promise!Conclude
  BY <1>2, <1>3 DEF Promise!Conclude, Shown, AnswerFollows
<1> QED
  BY <1>4 DEF Promise!Next

LEMMA ParallelSimulation ==
  ASSUME Sense = 1, ThreadInv, AgreeInv, SafeInv, [Next]_vars
  PROVE  [Promise!Next]_View
<1>0. /\ phase # "done" => result.status = "none"
      /\ NoPoint \notin PointsIn[root]
  BY RootIsSub, PointFacts DEF ThreadInv, TypeOK, RootTypeOK, SafeInv, RootInv, NothingYet, NoAnswer, Answer
<1>1. CASE Root
  <2>1. RootTypeOK /\ RootKnown /\ RootInv /\ IncumbentKnown /\ RootNext /\ phase # "done"
    BY <1>1 DEF Root, ThreadInv, TypeOK, SafeInv, AgreeInv, RootNext, RootLpEnds, RootLpIntegral, RootLpFractional,
       RootHeuristics, RootNoCuts, RootCuts, RootGapClosed, RootGapOpen, StrongInfeasible, StrongReduce, StrongNothing
  <2>2. root' = root /\ Gained
    BY <2>1, RootFrame, RootIncumbent
  <2>3. CASE phase' = "done"
    BY <1>0, <2>1, <2>2, <2>3, RootAnswers, ShownAnswer
  <2>4. CASE phase' # "done"
    BY <1>0, <2>1, <2>2, <2>4, RootFrame, ShownBefore
  <2> QED
    BY <2>3, <2>4
<1>2. CASE NothingToBranch \/ Assemble
  <2>1. phase # "done" /\ phase' = "done" /\ root' = root
    BY <1>2 DEF NothingToBranch, Assemble, Finish
  <2> QED
    BY <1>0, <1>2, <2>1, NothingToBranchAnswers, AssembleAnswers, ShownAnswer
<1>3. CASE StartSearch \/ TimeExpires \/ UNCHANGED vars
  <2>1. root' = root /\ primal' = primal /\ result' = result /\ (phase' = "done" <=> phase = "done")
    BY <1>3 DEF StartSearch, TimeExpires, vars, rootVars
  <2> QED
    BY <2>1 DEF View, Shown
<1>4. ASSUME NEW w \in Worker, WorkerStep(w) PROVE [Promise!Next]_View
  BY <1>0, <1>4, StepInSearch, WorkerFrame, WorkerGains, ShownBefore
<1> QED
  BY <1>1, <1>2, <1>3, <1>4 DEF Next, Main

\* The incumbent shown only improves, and the one answer of the search is
\* justified by the model unless a node was lost: for every number of threads.
THEOREM ParallelImplements ==
  ASSUME Sense = 1
  PROVE  Spec => Implements
<1>1. Init => Promise!Init
  BY DEF Init, RootInit, Promise!Init, NoAnswer, Answer
<1>2. ThreadInv /\ AgreeInv /\ SafeInv /\ [Next]_vars => [Promise!Next]_View
  BY ParallelSimulation
<1> QED
  BY <1>1, <1>2, ThreadInvariance, AgreeInvariance, SafeInvariance, PTL
     DEF Spec, Implements, Promise!Spec, View, Shown
=============================================================================
