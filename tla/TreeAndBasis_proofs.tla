------------------------ MODULE TreeAndBasis_proofs -------------------------
(***************************************************************************)
(* The theorems of two components that stand alone.  The tree: branching   *)
(* and domain reduction divide the integer vectors of a problem; first     *)
(* what the operators of Branching do to one node, then the invariant of   *)
(* the whole tree.  The basis: the chain of updates of a factorisation     *)
(* stays within its limit, for every dimension, field and set of limits.   *)
(***************************************************************************)
EXTENDS NodeTree, SparseBasis, SequenceTheorems, TLAPS

-----------------------------------------------------------------------------
(* Arithmetic on the grid.                                                 *)

\* Every value is a whole number of integer units and a remainder below one.
LEMMA Division ==
  \A x \in Int : /\ x \div Grid \in Int /\ x % Grid \in 0 .. (Grid - 1)
                 /\ x = Grid * (x \div Grid) + (x % Grid)
  BY GridType

\* Different integers are a whole unit apart.
LEMMA UnitApart == \A a, b \in Int : a < b => Grid * a + Grid <= Grid * b
<1> SUFFICES ASSUME NEW a \in Int, NEW b \in Int, a < b
             PROVE  Grid * a + Grid <= Grid * b
  OBVIOUS
<1>1. Grid * a + Grid = Grid * (a + 1)
  BY GridType
<1>2. Grid * (a + 1) <= Grid * b
  BY GridType
<1> QED BY <1>1, <1>2

\* No integral value lies strictly between Floor(x) and Floor(x) + Grid.
LEMMA NothingBetween ==
  ASSUME NEW x \in Int, NEW z \in Int, Integral(z)
  PROVE  z <= Floor(x) \/ Floor(x) + Grid <= z
<1> DEFINE a == z \div Grid
           b == x \div Grid
<1>1. a \in Int /\ b \in Int /\ z = Grid * a /\ Floor(x) = Grid * b
  <2>1. /\ a \in Int /\ z % Grid \in Int /\ z = Grid * a + (z % Grid)
        /\ b \in Int /\ x % Grid \in Int /\ x = Grid * b + (x % Grid)
    BY Division, GridType
  <2>2. Grid * a \in Int /\ Grid * b \in Int
    BY <2>1, GridType
  <2>3. z % Grid = 0 /\ Floor(x) = x - (x % Grid)
    BY DEF Integral, Floor
  <2> HIDE DEF a, b
  <2> QED
    BY <2>1, <2>2, <2>3
<1>2. CASE a <= b
  <2>1. Grid * a <= Grid * b
    BY <1>1, <1>2, UnitApart, GridType
  <2> QED BY <1>1, <2>1
<1>3. CASE b < a
  <2>1. Grid * b + Grid <= Grid * a
    BY <1>1, <1>3, UnitApart
  <2> QED BY <1>1, <2>1
<1> QED BY <1>1, <1>2, <1>3

\* Floor and Ceil enclose a value, strictly and one unit apart if it is fractional.
LEMMA FloorCeil ==
  ASSUME NEW x \in Int
  PROVE  /\ Floor(x) \in Int /\ Ceil(x) \in Int
         /\ Floor(x) <= x /\ x <= Ceil(x)
         /\ ~Integral(x) => Floor(x) < x /\ x < Ceil(x) /\ Ceil(x) = Floor(x) + Grid
  BY Division, GridType DEF Floor, Ceil, Integral

-----------------------------------------------------------------------------
(* One branching.                                                          *)

\* Bounds that x was inside of before its own branching cut it off: those of the
\* root after domain reduction.
Near(b, x) ==
  \A v \in FractionalVars(x) :
    /\ b[v].hi.finite => Floor(x[v]) <= b[v].hi.value
    /\ b[v].lo.finite => b[v].lo.value <= Ceil(x[v])

\* A relaxation's point is near the bounds it was computed under.
LEMMA InsideNear ==
  ASSUME NEW b \in Bounds, NEW x \in Vector, Inside(b, x)
  PROVE  Near(b, x)
<1> SUFFICES ASSUME NEW v \in FractionalVars(x)
             PROVE  /\ b[v].hi.finite => Floor(x[v]) <= b[v].hi.value
                    /\ b[v].lo.finite => b[v].lo.value <= Ceil(x[v])
  BY DEF Near
<1>1. v \in Var /\ x[v] \in Int /\ b[v].lo.value \in Int /\ b[v].hi.value \in Int
  BY DEF FractionalVars, Vector, Bounds, Bound
<1>2. InRange(b[v], x[v])
  BY <1>1 DEF Inside
<1> QED BY <1>1, <1>2, FloorCeil DEF InRange

\* The bounds of a child, variable by variable.
LEMMA ChildBounds ==
  ASSUME NEW b \in Bounds, NEW v \in Var, NEW x \in Vector
  PROVE  /\ DownChild(b, v, x) \in Bounds
         /\ DownChild(b, v, x)[v] = [lo |-> b[v].lo, hi |-> Finite(Floor(x[v]))]
         /\ UpChild(b, v, x) \in Bounds
         /\ UpChild(b, v, x)[v] = [lo |-> Finite(Ceil(x[v])), hi |-> b[v].hi]
         /\ \A u \in Var \ {v} : DownChild(b, v, x)[u] = b[u] /\ UpChild(b, v, x)[u] = b[u]
<1>1. x[v] \in Int /\ b[v].lo \in Bound /\ b[v].hi \in Bound
  BY DEF Vector, Bounds
<1>2. Floor(x[v]) \in Int /\ Ceil(x[v]) \in Int
  BY <1>1, FloorCeil
<1>3. Finite(Floor(x[v])) \in Bound /\ Finite(Ceil(x[v])) \in Bound
  BY <1>2 DEF Finite, Bound
<1> QED BY <1>1, <1>3 DEF Bounds, DownChild, UpChild

\* A child is one of the two, made because it is valid.
LEMMA ChildIs ==
  ASSUME NEW b, NEW v, NEW x, NEW c \in Children(b, v, x)
  PROVE  \/ c = DownChild(b, v, x) /\ DownValid(b, v, x)
         \/ c = UpChild(b, v, x) /\ UpValid(b, v, x)
  BY DEF Children

\* Who lies in a child, for a vector of the branched node or not.
LEMMA InsideChild ==
  ASSUME NEW b \in Bounds, NEW v \in Var, NEW x \in Vector, NEW z \in Vector
  PROVE  /\ Inside(DownChild(b, v, x), z) <=>
              /\ \A u \in Var \ {v} : InRange(b[u], z[u])
              /\ b[v].lo.finite => b[v].lo.value <= z[v]
              /\ z[v] <= Floor(x[v])
         /\ Inside(UpChild(b, v, x), z) <=>
              /\ \A u \in Var \ {v} : InRange(b[u], z[u])
              /\ b[v].hi.finite => z[v] <= b[v].hi.value
              /\ Ceil(x[v]) <= z[v]
<1> DEFINE d == DownChild(b, v, x)
           e == UpChild(b, v, x)
<1>1. /\ d[v] = [lo |-> b[v].lo, hi |-> Finite(Floor(x[v]))]
      /\ e[v] = [lo |-> Finite(Ceil(x[v])), hi |-> b[v].hi]
      /\ \A u \in Var \ {v} : d[u] = b[u] /\ e[u] = b[u]
  BY ChildBounds
<1> HIDE DEF d, e
<1>2. Inside(d, z) <=> (\A u \in Var \ {v} : InRange(b[u], z[u])) /\ InRange(d[v], z[v])
  BY <1>1 DEF Inside
<1>3. Inside(e, z) <=> (\A u \in Var \ {v} : InRange(b[u], z[u])) /\ InRange(e[v], z[v])
  BY <1>1 DEF Inside
<1>4. InRange(d[v], z[v]) <=> /\ b[v].lo.finite => b[v].lo.value <= z[v]
                              /\ z[v] <= Floor(x[v])
  BY <1>1 DEF InRange, Finite
<1>5. InRange(e[v], z[v]) <=> /\ b[v].hi.finite => z[v] <= b[v].hi.value
                              /\ Ceil(x[v]) <= z[v]
  BY <1>1 DEF InRange, Finite
<1> QED BY <1>2, <1>3, <1>4, <1>5 DEF d, e

\* Whatever lies in a child lies in the node that was branched.
LEMMA ChildNested ==
  ASSUME NEW b \in Bounds, NEW x \in Vector, NEW v \in FractionalVars(x), Near(b, x),
         NEW c \in Children(b, v, x), NEW z \in Vector, Inside(c, z)
  PROVE  Inside(b, z)
<1>1. /\ v \in Var /\ x[v] \in Int /\ z[v] \in Int
      /\ b[v].lo.value \in Int /\ b[v].hi.value \in Int
  BY DEF FractionalVars, Vector, Bounds, Bound
<1>2. Floor(x[v]) \in Int /\ Ceil(x[v]) \in Int
  BY <1>1, FloorCeil
<1>3. /\ b[v].hi.finite => Floor(x[v]) <= b[v].hi.value
      /\ b[v].lo.finite => b[v].lo.value <= Ceil(x[v])
  BY DEF Near
<1>4. /\ \A u \in Var \ {v} : InRange(b[u], z[u])
      /\ \/ (b[v].lo.finite => b[v].lo.value <= z[v]) /\ z[v] <= Floor(x[v])
         \/ (b[v].hi.finite => z[v] <= b[v].hi.value) /\ Ceil(x[v]) <= z[v]
  BY <1>1, ChildIs, InsideChild
<1>5. InRange(b[v], z[v])
  BY <1>1, <1>2, <1>3, <1>4 DEF InRange
<1> QED BY <1>1, <1>4, <1>5 DEF Inside

\* Branching cuts off the point it branches on.
LEMMA ChildExcludes ==
  ASSUME NEW b \in Bounds, NEW x \in Vector, NEW v \in FractionalVars(x),
         NEW c \in Children(b, v, x)
  PROVE  ~Inside(c, x)
<1>1. v \in Var /\ x[v] \in Int /\ ~Integral(x[v])
  BY DEF FractionalVars, Vector
<1>2. Floor(x[v]) \in Int /\ Ceil(x[v]) \in Int /\ Floor(x[v]) < x[v] /\ x[v] < Ceil(x[v])
  BY <1>1, FloorCeil
<1> QED BY <1>1, <1>2, ChildIs, InsideChild

\* The children of one node have no vector in common.
LEMMA ChildrenApart ==
  ASSUME NEW b \in Bounds, NEW x \in Vector, NEW v \in FractionalVars(x),
         NEW c \in Children(b, v, x), NEW d \in Children(b, v, x),
         NEW z \in Vector, Inside(c, z), Inside(d, z)
  PROVE  c = d
<1>1. v \in Var /\ x[v] \in Int /\ z[v] \in Int /\ ~Integral(x[v])
  BY DEF FractionalVars, Vector
<1>2. Floor(x[v]) \in Int /\ Ceil(x[v]) \in Int /\ Floor(x[v]) < Ceil(x[v])
  BY <1>1, FloorCeil
<1>3. ~(Inside(DownChild(b, v, x), z) /\ Inside(UpChild(b, v, x), z))
  BY <1>1, <1>2, InsideChild
<1> QED BY <1>3, ChildIs

\* An integral vector of a node lies on one of the two sides.
LEMMA EitherSide ==
  ASSUME NEW b \in Bounds, NEW x \in Vector, NEW v \in FractionalVars(x),
         NEW z \in Vector, IntegralVector(z), Inside(b, z)
  PROVE  \/ Inside(DownChild(b, v, x), z) /\ DownValid(b, v, x)
         \/ Inside(UpChild(b, v, x), z) /\ UpValid(b, v, x)
<1>1. /\ v \in Var /\ x[v] \in Int /\ ~Integral(x[v]) /\ z[v] \in Int /\ Integral(z[v])
      /\ b[v].lo.value \in Int /\ b[v].hi.value \in Int
  BY DEF FractionalVars, Vector, Bounds, Bound, IntegralVector
<1>2. Floor(x[v]) \in Int /\ Ceil(x[v]) \in Int /\ Ceil(x[v]) = Floor(x[v]) + Grid
  BY <1>1, FloorCeil
<1>3. z[v] <= Floor(x[v]) \/ Ceil(x[v]) <= z[v]
  BY <1>1, <1>2, NothingBetween
<1>4. \A u \in Var : InRange(b[u], z[u])
  BY DEF Inside
<1>5. /\ b[v].lo.finite => b[v].lo.value <= z[v]
      /\ b[v].hi.finite => z[v] <= b[v].hi.value
  BY <1>1, <1>4 DEF InRange
<1>6. CASE z[v] <= Floor(x[v])
  <2>1. Inside(DownChild(b, v, x), z)
    BY <1>1, <1>4, <1>5, <1>6, InsideChild
  <2>2. DownValid(b, v, x)
    BY <1>1, <1>2, <1>5, <1>6 DEF DownValid
  <2> QED BY <2>1, <2>2
<1>7. CASE Ceil(x[v]) <= z[v]
  <2>1. Inside(UpChild(b, v, x), z)
    BY <1>1, <1>4, <1>5, <1>7, InsideChild
  <2>2. UpValid(b, v, x)
    BY <1>1, <1>2, <1>5, <1>7 DEF UpValid
  <2> QED BY <2>1, <2>2
<1> QED BY <1>3, <1>6, <1>7

\* Branching, on whichever variable and point, keeps every integral vector of
\* the node, for any number of variables, bounded or not: what
\* push_branch_children owes the search.
THEOREM ChildrenCover ==
  ASSUME NEW b \in Bounds, NEW x \in Vector, NEW v \in FractionalVars(x),
         NEW z \in Vector, IntegralVector(z), Inside(b, z)
  PROVE  \E c \in Children(b, v, x) : Inside(c, z)
  BY EitherSide DEF Children

-----------------------------------------------------------------------------
(* Strong branching.                                                       *)

\* A side found infeasible holds no feasible vector.
LEMMA InfeasibleSide ==
  ASSUME NEW b \in Bounds, NEW x \in Vector, NEW v \in FractionalVars(x), NEW proven,
         \A c \in proven : Empty(c), NEW z \in Feasible, Inside(b, z)
  PROVE  /\ DownInfeasible(b, v, x, proven) => Inside(UpChild(b, v, x), z)
         /\ UpInfeasible(b, v, x, proven) => Inside(DownChild(b, v, x), z)
         /\ ~(DownInfeasible(b, v, x, proven) /\ UpInfeasible(b, v, x, proven))
<1>1. z \in Vector /\ IntegralVector(z)
  BY TreeTypes
<1>2. \/ Inside(DownChild(b, v, x), z) /\ DownValid(b, v, x)
      \/ Inside(UpChild(b, v, x), z) /\ UpValid(b, v, x)
  BY <1>1, EitherSide
<1>3. \A c : c \in proven => ~Inside(c, z)
  BY DEF Empty
<1> QED BY <1>2, <1>3 DEF DownInfeasible, UpInfeasible

\* Domain reduction keeps every feasible vector, all candidates at once.
THEOREM ReducedKeeps ==
  ASSUME NEW b \in Bounds, NEW x \in Vector, NEW proven,
         \A c \in proven : Empty(c), NEW z \in Feasible, Inside(b, z)
  PROVE  Inside(Reduced(b, x, proven), z)
<1> SUFFICES ASSUME NEW v \in Var
             PROVE  InRange(Reduced(b, x, proven)[v], z[v])
  BY DEF Inside
<1>1. InRange(b[v], z[v])
  BY DEF Inside
<1>2. CASE v \in FractionalVars(x)
  <2>1. DownInfeasible(b, v, x, proven) => InRange(UpChild(b, v, x)[v], z[v])
    BY <1>2, InfeasibleSide DEF Inside
  <2>2. UpInfeasible(b, v, x, proven) => InRange(DownChild(b, v, x)[v], z[v])
    BY <1>2, InfeasibleSide DEF Inside
  <2>3. Reduced(b, x, proven)[v] = Reduction(b, v, x, proven)
    BY <1>2 DEF Reduced
  <2>4. \/ Reduction(b, v, x, proven) = b[v]
        \/ DownInfeasible(b, v, x, proven) /\ Reduction(b, v, x, proven) = UpChild(b, v, x)[v]
        \/ UpInfeasible(b, v, x, proven) /\ Reduction(b, v, x, proven) = DownChild(b, v, x)[v]
    BY Zenon DEF Reduction, DownInfeasible, UpInfeasible
  <2> QED BY <1>1, <2>1, <2>2, <2>3, <2>4
<1>3. CASE v \notin FractionalVars(x)
  BY <1>1, <1>3 DEF Reduced
<1> QED BY <1>2, <1>3

\* A node strong branching gives up has no feasible vector.
THEOREM InfeasibleIsEmpty ==
  ASSUME NEW b \in Bounds, NEW x \in Vector, NEW proven,
         \A c \in proven : Empty(c), SubproblemInfeasible(b, x, proven)
  PROVE  Empty(b)
<1>1. PICK v \in FractionalVars(x) :
        DownInfeasible(b, v, x, proven) /\ UpInfeasible(b, v, x, proven)
  BY DEF SubproblemInfeasible
<1> QED BY <1>1, InfeasibleSide DEF Empty

\* Reduced bounds are bounds, and the point they were derived from is near them.
LEMMA ReducedNear ==
  ASSUME NEW b \in Bounds, NEW x \in Vector, Inside(b, x), NEW proven
  PROVE  Reduced(b, x, proven) \in Bounds /\ Near(Reduced(b, x, proven), x)
<1> DEFINE r == Reduced(b, x, proven)
<1>1. \A v \in Var : r[v] \in {b[v], UpChild(b, v, x)[v], DownChild(b, v, x)[v]}
  BY DEF Reduced, Reduction
<1>2. \A v \in Var : /\ UpChild(b, v, x)[v] \in [lo : Bound, hi : Bound]
                     /\ DownChild(b, v, x)[v] \in [lo : Bound, hi : Bound]
                     /\ b[v] \in [lo : Bound, hi : Bound]
  <2> SUFFICES ASSUME NEW v \in Var
               PROVE  /\ UpChild(b, v, x)[v] \in [lo : Bound, hi : Bound]
                      /\ DownChild(b, v, x)[v] \in [lo : Bound, hi : Bound]
                      /\ b[v] \in [lo : Bound, hi : Bound]
    OBVIOUS
  <2>1. UpChild(b, v, x) \in Bounds /\ DownChild(b, v, x) \in Bounds
    BY ChildBounds
  <2> QED BY <2>1 DEF Bounds
<1>3. r \in Bounds
  BY <1>1, <1>2 DEF Bounds, Reduced
<1>4. ASSUME NEW v \in FractionalVars(x)
      PROVE  /\ r[v].hi.finite => Floor(x[v]) <= r[v].hi.value
             /\ r[v].lo.finite => r[v].lo.value <= Ceil(x[v])
  <2>1. v \in Var /\ x[v] \in Int
    BY DEF FractionalVars, Vector
  <2>2. Floor(x[v]) \in Int /\ Ceil(x[v]) \in Int
    BY <2>1, FloorCeil
  <2>3. /\ b[v].hi.finite => Floor(x[v]) <= b[v].hi.value
        /\ b[v].lo.finite => b[v].lo.value <= Ceil(x[v])
    BY InsideNear DEF Near
  <2>4. /\ DownChild(b, v, x)[v].lo = b[v].lo /\ UpChild(b, v, x)[v].hi = b[v].hi
        /\ DownChild(b, v, x)[v].hi.value = Floor(x[v])
        /\ UpChild(b, v, x)[v].lo.value = Ceil(x[v])
    <3>1. /\ DownChild(b, v, x)[v] = [lo |-> b[v].lo, hi |-> Finite(Floor(x[v]))]
          /\ UpChild(b, v, x)[v] = [lo |-> Finite(Ceil(x[v])), hi |-> b[v].hi]
      BY <2>1, ChildBounds
    <3> QED BY <3>1 DEF Finite
  <2>5. Floor(x[v]) <= Floor(x[v]) /\ Ceil(x[v]) <= Ceil(x[v])
    BY <2>2
  <2> QED BY <1>1, <2>1, <2>3, <2>4, <2>5
<1> QED BY <1>3, <1>4 DEF Near

-----------------------------------------------------------------------------
(* The whole tree.                                                         *)

\* Any two open nodes differ, even for the vectors that are not integral.
Disjoint ==
  \A b, c \in open : \A x \in Vector : (Inside(b, x) /\ Inside(c, x)) => b = c

\* Every feasible vector is still looked for.
Kept == \A z \in Feasible : \E b \in open : Inside(b, z)

\* Until the first branching the root is the only node, and its point is near.
RootOnly ==
  branched = {} => \A b \in open : Near(b, start) /\ \A c \in open : c = b

TreeInv ==
  /\ TreeTypeOK /\ Inside(Root, start) /\ ~IntegralVector(start)
  /\ Kept /\ Disjoint /\ NeverAgain /\ RootOnly

\* The tree starts with the invariant.
LEMMA TreeInitInv == TreeInit => TreeInv
<1> SUFFICES ASSUME TreeInit PROVE TreeInv
  OBVIOUS
<1>1. /\ open = {Root} /\ branched = {} /\ start \in LpVector
      /\ Inside(Root, start) /\ ~IntegralVector(start)
  BY DEF TreeInit
<1>2. TreeTypeOK
  BY <1>1, TreeTypes DEF TreeTypeOK
<1>3. Kept
  BY <1>1, TreeTypes DEF Kept
<1>4. Near(Root, start)
  BY <1>1, TreeTypes, InsideNear
<1> QED BY <1>1, <1>2, <1>3, <1>4 DEF TreeInv, Disjoint, NeverAgain, RootOnly

\* The points a node is branched on are near its bounds, and in no other node.
LEMMA BranchedPoint ==
  ASSUME TreeInv, NEW b \in open, NEW x \in LpVector, Relaxation(b, x)
  PROVE  /\ b \in Bounds /\ x \in Vector /\ Near(b, x)
         /\ \A c \in open : Inside(c, x) => c = b
<1>1. b \in Bounds /\ x \in Vector
  BY TreeTypes DEF TreeInv, TreeTypeOK
<1>2. CASE branched = {}
  BY <1>1, <1>2 DEF TreeInv, RootOnly, Relaxation
<1>3. CASE branched # {}
  <2>1. Inside(b, x)
    BY <1>3 DEF Relaxation
  <2> QED BY <1>1, <2>1, InsideNear DEF TreeInv, Disjoint
<1> QED BY <1>2, <1>3

\* Giving up a node without feasible vectors keeps the invariant.
LEMMA GivenUpInv ==
  ASSUME TreeInv, NEW b \in open, Empty(b), open' = open \ {b}, UNCHANGED <<start, branched>>
  PROVE  TreeInv'
<1>1. TreeTypeOK'
  BY DEF TreeInv, TreeTypeOK
<1>2. Kept'
  BY DEF TreeInv, Kept, Empty
<1>3. Disjoint' /\ NeverAgain' /\ RootOnly'
  BY DEF TreeInv, Disjoint, NeverAgain, RootOnly
<1> QED BY <1>1, <1>2, <1>3 DEF TreeInv

\* Branching keeps the invariant.
LEMMA BranchInv ==
  ASSUME TreeInv, NEW b \in open, NEW x \in LpVector, NEW v \in Var, Branch(b, v, x)
  PROVE  TreeInv'
<1> DEFINE K == Children(b, v, x)
<1>1. /\ Relaxation(b, x) /\ v \in FractionalVars(x)
      /\ open' = (open \ {b}) \union K /\ branched' = branched \union {x} /\ start' = start
  BY DEF Branch
<1>2. /\ b \in Bounds /\ x \in Vector /\ Near(b, x)
      /\ \A c \in open : Inside(c, x) => c = b
  BY <1>1, BranchedPoint
<1>3. \A c \in K : \A z \in Vector : Inside(c, z) => Inside(b, z)
  BY <1>1, <1>2, ChildNested
<1>4. TreeTypeOK'
  <2>1. K \subseteq Bounds
    BY <1>2, ChildBounds DEF Children
  <2> QED BY <1>1, <2>1 DEF TreeInv, TreeTypeOK
<1>5. Kept'
  <2> SUFFICES ASSUME NEW z \in Feasible PROVE \E c \in open' : Inside(c, z)
    BY DEF Kept
  <2>1. PICK c \in open : Inside(c, z)
    BY DEF TreeInv, Kept
  <2>2. CASE c = b
    <3>1. z \in Vector /\ IntegralVector(z)
      BY TreeTypes
    <3>2. \E d \in K : Inside(d, z)
      BY <1>1, <1>2, <2>1, <2>2, <3>1, ChildrenCover
    <3> QED BY <1>1, <3>2
  <2> QED BY <1>1, <2>1, <2>2
<1>6. Disjoint'
  <2> SUFFICES ASSUME NEW c \in open', NEW d \in open', NEW z \in Vector,
                      Inside(c, z), Inside(d, z)
               PROVE  c = d
    BY DEF Disjoint
  <2>1. CASE c \in K /\ d \in K
    BY <1>1, <1>2, <2>1, ChildrenApart
  <2>2. CASE c \in open \ {b} /\ d \in open \ {b}
    BY <2>2 DEF TreeInv, Disjoint
  <2>3. CASE (c \in K /\ d \in open \ {b}) \/ (d \in K /\ c \in open \ {b})
    BY <1>3, <2>3 DEF TreeInv, Disjoint
  <2> QED BY <1>1, <2>1, <2>2, <2>3
<1>7. NeverAgain'
  <2> SUFFICES ASSUME NEW y \in branched', NEW c \in open', Inside(c, y) PROVE FALSE
    BY DEF NeverAgain
  <2>0. y \in Vector
    BY <1>1, <1>2, TreeTypes DEF TreeInv, TreeTypeOK
  <2>1. CASE y = x
    BY <1>1, <1>2, <2>1, ChildExcludes
  <2>2. CASE y \in branched
    BY <1>1, <1>3, <2>0, <2>2 DEF TreeInv, NeverAgain
  <2> QED BY <1>1, <2>1, <2>2
<1>8. RootOnly'
  BY <1>1 DEF RootOnly
<1> QED BY <1>1, <1>4, <1>5, <1>6, <1>7, <1>8 DEF TreeInv

\* Domain reduction at the root keeps the invariant.
LEMMA TightenInv == TreeInv /\ TightenRoot => TreeInv'
<1> SUFFICES ASSUME TreeInv, TightenRoot PROVE TreeInv'
  OBVIOUS
<1>1. PICK proven \in SUBSET Refutable(Root, start) : open' = {Reduced(Root, start, proven)}
  BY DEF TightenRoot
<1> DEFINE r == Reduced(Root, start, proven)
<1>2. open = {Root} /\ branched = {} /\ branched' = {} /\ start' = start
  BY DEF TightenRoot
<1>3. Root \in Bounds /\ start \in Vector /\ Inside(Root, start)
  BY TreeTypes DEF TreeInv, TreeTypeOK
<1>4. \A c \in proven : Empty(c)
  BY DEF Refutable
<1>5. r \in Bounds /\ Near(r, start)
  BY <1>3, ReducedNear
<1>6. \A z \in Feasible : Inside(r, z)
  BY <1>3, <1>4, ReducedKeeps, TreeTypes
<1> HIDE DEF r
<1>7. open' = {r}
  BY <1>1 DEF r
<1>8. TreeTypeOK'
  BY <1>2, <1>5, <1>7 DEF TreeInv, TreeTypeOK
<1>9. Kept' /\ Disjoint' /\ NeverAgain' /\ RootOnly'
  BY <1>2, <1>5, <1>6, <1>7 DEF Kept, Disjoint, NeverAgain, RootOnly
<1> QED BY <1>2, <1>8, <1>9 DEF TreeInv

\* Every step keeps the invariant.
LEMMA TreeNextInv == TreeInv /\ [TreeNext]_treeVars => TreeInv'
<1> SUFFICES ASSUME TreeInv, [TreeNext]_treeVars PROVE TreeInv'
  OBVIOUS
<1>1. CASE TightenRoot
  BY <1>1, TightenInv
<1>2. ASSUME NEW b \in open, Fathom(b) PROVE TreeInv'
  BY <1>2, GivenUpInv DEF Fathom
<1>3. ASSUME NEW b \in open, NEW x \in LpVector, StrongInfeasible(b, x) PROVE TreeInv'
  <2>1. PICK proven \in SUBSET Refutable(b, x) : SubproblemInfeasible(b, x, proven)
    BY <1>3 DEF StrongInfeasible
  <2>2. \A c \in proven : Empty(c)
    BY DEF Refutable
  <2>3. b \in Bounds /\ x \in Vector
    BY TreeTypes DEF TreeInv, TreeTypeOK
  <2>4. Empty(b)
    BY <2>1, <2>2, <2>3, InfeasibleIsEmpty
  <2> QED BY <1>3, <2>4, GivenUpInv DEF StrongInfeasible
<1>4. ASSUME NEW b \in open, NEW x \in LpVector, NEW v \in Var, Branch(b, v, x) PROVE TreeInv'
  BY <1>4, BranchInv
<1>5. CASE UNCHANGED treeVars
  BY <1>5 DEF treeVars, TreeInv, TreeTypeOK, Kept, Disjoint, NeverAgain, RootOnly
<1> QED BY <1>1, <1>2, <1>3, <1>4, <1>5 DEF TreeNext

\* The invariant holds throughout.
THEOREM TreeInvariance == TreeSpec => []TreeInv
<1> QED BY TreeInitInv, TreeNextInv, PTL DEF TreeSpec

\* The open nodes are bounds, however long the search runs.
THEOREM TreeTypeCorrect == TreeSpec => []TreeTypeOK
<1>1. TreeInv => TreeTypeOK
  BY DEF TreeInv
<1> QED BY <1>1, TreeInvariance, PTL

\* At every moment of the search, every feasible integer vector lies in exactly
\* one open node: none is lost and none is searched for twice.
THEOREM TreePartition == TreeSpec => []Partition
<1>1. TreeInv => Partition
  <2> SUFFICES ASSUME TreeInv, NEW z \in Feasible
               PROVE  \E b \in open : Inside(b, z) /\ \A c \in open : Inside(c, z) => c = b
    BY DEF Partition
  <2>1. PICK b \in open : Inside(b, z)
    BY DEF TreeInv, Kept
  <2>2. z \in Vector
    BY TreeTypes
  <2> QED BY <2>1, <2>2 DEF TreeInv, Disjoint
<1> QED BY <1>1, TreeInvariance, PTL

\* A point branched on is never met again: branching always makes progress.
THEOREM TreeNeverAgain == TreeSpec => []NeverAgain
<1>1. TreeInv => NeverAgain
  BY DEF TreeInv
<1> QED BY <1>1, TreeInvariance, PTL

-----------------------------------------------------------------------------
(***************************************************************************)
(* The chain of updates of a basis.                                        *)
(***************************************************************************)
IsChain(s) == \E S : s \in Seq(S)

\* The limit is noticed when it is reached and not before.
ChainInv ==
  /\ options \in Options
  /\ IsChain(updates)
  /\ Len(updates) <= options.maxUpdates
  /\ limitReached <=> Len(updates) = options.maxUpdates

\* A chain with one more update is a chain, one longer.
LEMMA AppendedChain ==
  ASSUME NEW s, IsChain(s), NEW e
  PROVE  IsChain(Append(s, e)) /\ Len(Append(s, e)) = Len(s) + 1 /\ Len(s) \in Nat
<1>1. PICK S : s \in Seq(S) BY DEF IsChain
<1>2. DEFINE T == S \union {e}
<1>3. s \in Seq(T)
  <2>1. s \in [1 .. Len(s) -> S] /\ Len(s) \in Nat BY <1>1, LenProperties
  <2>2. s \in [1 .. Len(s) -> T] BY <2>1
  <2> QED BY <2>1, <2>2, SeqDef
<1>4. e \in T OBVIOUS
<1> HIDE DEF T
<1> QED BY <1>3, <1>4, AppendProperties, LenProperties DEF IsChain

\* The limits of an object leave room for an update.
LEMMA Room == ASSUME NEW o \in Options PROVE o.maxUpdates \in Nat \ {0}
BY OptionTypes

\* The empty chain is a chain, and short.
LEMMA EmptyChain == IsChain(<<>>) /\ Len(<<>>) = 0
<1>1. <<>> \in Seq({}) OBVIOUS
<1> QED BY <1>1 DEF IsChain

\* A new object has an empty chain.
LEMMA ChainInit == Init => ChainInv
BY Room, EmptyChain DEF Init, ChainInv

\* A factorisation of its own empties the chain; a call that throws keeps it.
LEMMA ChainRebuilt ==
  ChainInv /\ options' = options /\ (Rebuilt \/ Untouched) => ChainInv'
<1> SUFFICES ASSUME ChainInv, options' = options, Rebuilt \/ Untouched PROVE ChainInv'
  OBVIOUS
<1>1. CASE Rebuilt
  <2>1. updates' = <<>> /\ limitReached' = FALSE BY <1>1 DEF Rebuilt
  <2> QED BY <2>1, Room, EmptyChain DEF ChainInv
<1>2. CASE Untouched BY <1>2 DEF Untouched, ChainInv
<1> QED BY <1>1, <1>2

\* A committed update starts from a chain that is below the limit.
LEMMA ChainCommit ==
  ASSUME ChainInv, options' = options, NEW p, NEW column, NEW d, Commit(p, column, d)
  PROVE  ChainInv'
<1> DEFINE chain == Append(FreshChain, Eta(p, d))
<1>1. updates' = chain /\ limitReached' = (Len(chain) >= options.maxUpdates)
  BY DEF Commit, AtLimit
<1>2. IsChain(FreshChain) /\ Len(FreshChain) < options.maxUpdates
  <2>1. CASE NeedsRefactorization
    BY <2>1, EmptyChain, Room DEF FreshChain, ChainInv
  <2>2. CASE ~ NeedsRefactorization
    <3>1. FreshChain = updates /\ ~ limitReached BY <2>2 DEF FreshChain, NeedsRefactorization
    <3>2. Len(updates) \in Nat BY AppendedChain DEF ChainInv
    <3> QED BY <3>1, <3>2, Room DEF ChainInv
  <2> QED BY <2>1, <2>2
<1>3. IsChain(chain) /\ Len(chain) = Len(FreshChain) + 1 /\ Len(FreshChain) \in Nat
  BY <1>2, AppendedChain
<1> HIDE DEF chain
<1>4. options \in Options /\ options.maxUpdates \in Nat BY Room DEF ChainInv
<1>5. Len(chain) <= options.maxUpdates BY <1>2, <1>3, <1>4
<1>6. limitReached' <=> Len(chain) = options.maxUpdates
  <2>1. (Len(chain) >= options.maxUpdates) <=> (Len(chain) = options.maxUpdates)
    BY <1>3, <1>4, <1>5
  <2> QED BY <1>1, <2>1, Zenon
<1> QED BY <1>1, <1>3, <1>4, <1>5, <1>6 DEF ChainInv

\* Every call preserves the invariant.
LEMMA ChainNext == ChainInv /\ [Next]_vars => ChainInv'
<1> SUFFICES ASSUME ChainInv, [Next]_vars PROVE ChainInv'
  OBVIOUS
<1>1. CASE Refactorize
  BY <1>1, ChainRebuilt DEF Refactorize, Throw
<1>2. CASE RefactorizationThrows
  BY <1>2, ChainRebuilt DEF RefactorizationThrows, Throw
<1>3. ASSUME NEW column \in Vectors, NEW d, NEW p \in Index, ReplaceColumn(p, column, d)
      PROVE  ChainInv'
  BY <1>3, ChainCommit DEF ReplaceColumn, Throw
<1>4. ASSUME NEW column \in Vectors, NEW d, NEW p \in Index, ReplacementThrows(p, column, d)
      PROVE  ChainInv'
  BY <1>4, ChainRebuilt DEF ReplacementThrows, Throw
<1>5. CASE UNCHANGED vars
  BY <1>5, ChainRebuilt DEF vars, Untouched
<1> QED BY <1>1, <1>2, <1>3, <1>4, <1>5 DEF Next

(***************************************************************************)
(* The chain of etas never grows past maximum_updates, and at the limit    *)
(* the object asks to be factorised again.                                 *)
(***************************************************************************)
THEOREM BasisChainBounded == Spec => []ChainBounded
<1>1. ChainInv => ChainBounded BY DEF ChainInv, ChainBounded, NeedsRefactorization
<1> QED BY ChainInit, ChainNext, <1>1, PTL DEF Spec
=============================================================================
