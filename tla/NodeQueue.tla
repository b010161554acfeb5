----------------------------- MODULE NodeQueue -----------------------------
(***************************************************************************)
(* ThreadSafeNodeQueue: the heap of open nodes the workers of the parallel *)
(* search share, with its detection of the end of the search.  Each action *)
(* is one critical section of mutex_.  A worker blocked in pop_node waits  *)
(* with a time limit, so it may look again at any time and no notification *)
(* is modelled.                                                            *)
(***************************************************************************)
EXTENDS BestBound, FiniteSets

CONSTANTS
  Worker,    \* the worker threads
  Node,      \* the nodes that can be pushed
  Families,  \* the sets of children one branching may push
  Cutoffs    \* the values a prune cutoff may take

ASSUME QueueTypes ==
  /\ IsFiniteSet(Worker)
  /\ \A n \in Node : n.lb \in Int /\ n.depth \in Nat
  /\ Families \subseteq SUBSET Node
  /\ Cutoffs \subseteq Int

VARIABLES
  heap,     \* heap_
  active,   \* active_workers_
  stopped,  \* stopped_
  client,   \* what a worker is to the queue
  drained   \* whether it was the empty queue that stopped the search

queueVars == <<heap, active, stopped, client, drained>>

\* "out": has not popped; "in": was_active, its last pop returned a node;
\* "waiting": blocked in pop_node; "gone": it got no node, or it has left.
ClientStates == {"out", "in", "waiting", "gone"}

WorkersTypeOK ==
  /\ active \in Nat
  /\ stopped \in BOOLEAN /\ drained \in BOOLEAN
  /\ client \in [Worker -> ClientStates]

QueueTypeOK == heap \subseteq Node /\ WorkersTypeOK

QueueInit ==
  /\ heap = {} /\ active = 0 /\ stopped = FALSE /\ drained = FALSE
  /\ client = [w \in Worker |-> "out"]

\* prune_locked
UnprunedReversed(cutoff) == {n \in heap : n.lb > cutoff}
Unpruned(cutoff) == {n \in heap : n.lb < cutoff}

Become(w, state) == client' = [client EXCEPT ![w] = state]

-----------------------------------------------------------------------------
\* push_children; once stopped, the children are dropped.
Push(K) ==
  /\ heap' = IF stopped THEN heap ELSE heap \union K
  /\ UNCHANGED <<active, stopped, client, drained>>

\* The main thread pushes the root's children before the workers start.
PushRoot(K) == (\A w \in Worker : client[w] = "out") /\ ~stopped /\ Push(K)

\* A worker pushes the children of the node it popped.
PushChildren(w, K) == client[w] = "in" /\ Push(K)

\* prune
Prune(cutoff) ==
  /\ heap' = Unpruned(cutoff)
  /\ UNCHANGED <<active, stopped, client, drained>>

\* pop_node gives up the node popped before; a worker woken from its wait has
\* done so already.
ReleasedNever(w) == active
Released(w) == IF client[w] = "in" /\ active > 0 THEN active - 1 ELSE active

PopStopped(w) ==
  /\ stopped
  /\ active' = Released(w) /\ Become(w, "gone")
  /\ UNCHANGED <<heap, stopped, drained>>

PopTake(w, cutoff, n) ==
  /\ ~stopped /\ IsTop(n, Unpruned(cutoff))
  /\ heap' = Unpruned(cutoff) \ {n}
  /\ active' = Released(w) + 1 /\ Become(w, "in")
  /\ UNCHANGED <<stopped, drained>>

PopDrainedEarly(w, cutoff) ==
  /\ ~stopped /\ Unpruned(cutoff) = {}
  /\ heap' = {} /\ stopped' = TRUE /\ drained' = TRUE
  /\ active' = Released(w) /\ Become(w, "gone")

PopDrained(w, cutoff) ==
  /\ ~stopped /\ Unpruned(cutoff) = {} /\ Released(w) = 0
  /\ heap' = {} /\ stopped' = TRUE /\ drained' = TRUE
  /\ active' = 0 /\ Become(w, "gone")

PopWaitAlways(w, cutoff) ==
  /\ ~stopped /\ Unpruned(cutoff) = {}
  /\ heap' = {}
  /\ active' = Released(w) /\ Become(w, "waiting")
  /\ UNCHANGED <<stopped, drained>>

PopWait(w, cutoff) ==
  /\ ~stopped /\ Unpruned(cutoff) = {} /\ Released(w) > 0
  /\ heap' = {}
  /\ active' = Released(w) /\ Become(w, "waiting")
  /\ UNCHANGED <<stopped, drained>>

Pop(w, cutoff) ==
  /\ client[w] # "gone"
  /\ \/ PopStopped(w) \/ PopDrained(w, cutoff) \/ PopWait(w, cutoff)
     \/ \E n \in heap : PopTake(w, cutoff, n)

\* deactivate_worker, called by a worker that leaves while it was_active.
DeactivateUncounted(w) ==
  /\ client[w] = "in" /\ Become(w, "gone")
  /\ UNCHANGED <<heap, active, stopped, drained>>

Deactivate(w) ==
  /\ client[w] = "in" /\ Become(w, "gone")
  /\ active' = Released(w)
  /\ LET last == Released(w) = 0 /\ heap = {}
     IN  /\ stopped' = (stopped \/ last)
         /\ drained' = (drained \/ (last /\ ~stopped))
  /\ UNCHANGED heap

\* A worker that leaves without being active says nothing.
Leave(w) ==
  /\ client[w] = "out" /\ Become(w, "gone")
  /\ UNCHANGED <<heap, active, stopped, drained>>

RequestStop ==
  /\ stopped' = TRUE
  /\ UNCHANGED <<heap, active, client, drained>>

\* Every call a worker or the main thread may make.
Calls(families, cutoffs) ==
  \/ \E K \in families : PushRoot(K) \/ \E w \in Worker : PushChildren(w, K)
  \/ \E c \in cutoffs : Prune(c)
  \/ \E w \in Worker, c \in cutoffs : Pop(w, c)
  \/ \E w \in Worker : Deactivate(w) \/ Leave(w)
  \/ RequestStop

QueueNext == Calls(Families, Cutoffs)

QueueSpec == QueueInit /\ [][QueueNext]_queueVars

-----------------------------------------------------------------------------
Busy == {w \in Worker : client[w] = "in"}

\* active_workers_ counts exactly the workers that own a popped node, through
\* every mix of pops, waits and exits: the guard against underflow in pop_node
\* and deactivate_worker never acts.
ActiveCount == active = Cardinality(Busy)

\* When the queue itself ends the search, nothing is left to do: no node is
\* open and no worker owns one, then or later.
DrainedIsIdle == drained => stopped /\ heap = {} /\ Busy = {}

\* A worker waits only while another one may still push.
WaitHasReason == [][\A w \in Worker :
  (client[w] # "waiting" /\ client'[w] = "waiting") => \E v \in Worker \ {w} : client'[v] = "in"]_queueVars
=============================================================================
