----------------------------- MODULE NodeTree ------------------------------
(***************************************************************************)
(* The bounds of the open nodes over a whole search: how branching at the  *)
(* root and at later nodes, the domain reductions at the root and the      *)
(* nodes given up as infeasible divide the integer vectors of the problem. *)
(* Pruning by an incumbent is the business of BranchAndCut.                *)
(***************************************************************************)
EXTENDS Branching, FiniteSets

CONSTANTS
  Root,      \* the bounds of the model
  LpVector,  \* the vectors a relaxation may return
  Feasible   \* the integer vectors that satisfy the model

Vector == [Var -> Int]

ASSUME TreeTypes ==
  /\ Root \in Bounds
  /\ LpVector \subseteq Vector
  /\ Feasible \subseteq Vector
  /\ \A z \in Feasible : IntegralVector(z) /\ Inside(Root, z)

VARIABLES
  open,      \* the bounds of the open nodes
  start,     \* the point the root relaxation returned
  branched   \* the points branched on so far: history

treeVars == <<open, start, branched>>

TreeTypeOK ==
  /\ open \subseteq Bounds
  /\ start \in LpVector
  /\ branched \subseteq LpVector

TreeInit ==
  /\ open = {Root}
  /\ start \in {x \in LpVector : Inside(Root, x) /\ ~IntegralVector(x)}
  /\ branched = {}

Empty(b) == \A z \in Feasible : ~Inside(b, z)

\* The root node keeps the root relaxation's point, even where the domain
\* reductions have cut it off; every other node's relaxation is solved.
Relaxation(b, x) ==
  /\ IF branched = {} THEN x = start ELSE Inside(b, x)
  /\ ~IntegralVector(x)

\* The children whose lookahead relaxation may be found infeasible.
Refutable(b, x) ==
  {c \in UNION {{DownChild(b, v, x), UpChild(b, v, x)} : v \in FractionalVars(x)} : Empty(c)}

\* Strong branching at the root: what it proves tightens the model's bounds ...
TightenRoot ==
  /\ open = {Root} /\ branched = {}
  /\ \E proven \in SUBSET Refutable(Root, start) :
       /\ ~SubproblemInfeasible(Root, start, proven)
       /\ open' = {Reduced(Root, start, proven)}
  /\ UNCHANGED <<start, branched>>

\* ... or, at any node, gives the node up.
StrongInfeasible(b, x) ==
  /\ Relaxation(b, x)
  /\ \E proven \in SUBSET Refutable(b, x) : SubproblemInfeasible(b, x, proven)
  /\ open' = open \ {b}
  /\ UNCHANGED <<start, branched>>

\* The node's relaxation is infeasible.
Fathom(b) ==
  /\ Empty(b)
  /\ open' = open \ {b}
  /\ UNCHANGED <<start, branched>>

Branch(b, v, x) ==
  /\ Relaxation(b, x) /\ v \in FractionalVars(x)
  /\ open' = (open \ {b}) \union Children(b, v, x)
  /\ branched' = branched \union {x}
  /\ UNCHANGED start

TreeNext ==
  \/ TightenRoot
  \/ \E b \in open :
       \/ Fathom(b)
       \/ \E x \in LpVector :
            StrongInfeasible(b, x) \/ \E v \in Var : Branch(b, v, x)

TreeSpec == TreeInit /\ [][TreeNext]_treeVars

-----------------------------------------------------------------------------
\* Every integer vector of the problem lies in exactly one open node: the
\* search neither loses a solution nor looks for it twice.
Partition ==
  \A z \in Feasible : \E b \in open :
    Inside(b, z) /\ \A c \in open : Inside(c, z) => c = b

\* A fractional vector branched on lies in no open node ever after, so that no
\* relaxation returns it again and every branching is progress.
NeverAgain == \A x \in branched : \A b \in open : ~Inside(b, x)

=============================================================================
