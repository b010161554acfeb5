----------------------------- MODULE MCSimplex -----------------------------
EXTENDS CuttingPlanes

Program(a, b, c) ==
  [rows |-> DOMAIN b, cols |-> DOMAIN c, a |-> a, b |-> b, c |-> c, offset |-> 0]

\* Models of two rows with a slack column each, and with equality rows, among
\* them infeasible, unbounded, degenerate and redundant ones.
Inequalities ==
  {Program(<<<<p, q, 1, 0>>, <<r, s, 0, 1>>>>, b, c) :
     p \in {-1, 1}, q \in {-1, 2}, r \in {-1, 0}, s \in {-1, 0, 1},
     b \in {<<2, 0>>, <<-1, 1>>, <<-2, -1>>}, c \in {<<1, 1, 0, 0>>, <<-1, 2, 0, 0>>, <<1, -1, 0, 0>>}}
Equalities ==
  {Program(<<<<p, q, 1>>, <<r, s, t>>>>, b, c) :
     p \in {0, 1}, q \in {-1, 2}, r \in {-1, 1}, s \in {-1, 2}, t \in {1, 2},
     b \in {<<0, 0>>, <<1, 2>>, <<-1, 2>>}, c \in {<<1, 0, -1>>, <<-1, 1, 2>>}}
Redundant ==
  {Program(<<<<1, 1, -1>>, <<1, k, 0>>, <<2, 1 + k, -1>>>>, <<1, 2, 3>>, c) :
     k \in {0, 1, 2}, c \in {<<1, 1, 1>>, <<-1, 0, 2>>}}
\* A degenerate model on which the most negative reduced cost cycles.
Degenerate ==
  {Program(<<<<1, -11, -5, 18, 2, 0, 1, 0, 0>>, <<1, -3, -1, 2, 0, 2, 0, 1, 0>>,
             <<1, 0, 0, 0, 0, 0, 0, 0, 1>>>>,
           <<0, 0, 1>>, <<-10, 57, 9, 24, 0, 0, 0, 0, 0>>)}

\* Bases a caller may hand over: any columns in any order, a column twice,
\* and a basis saved for another model.
Bases(m) == {f \in [m.rows -> m.cols] : Cardinality(m.rows) = 2}
Saved(m) ==
  {NoWarmBasis, WarmBasis(FALSE, [i \in m.rows |-> i])} \union {WarmBasis(TRUE, f) : f \in Bases(m)}

-----------------------------------------------------------------------------
\* Models for the cut round.
Interval(l, u) == <<l, u>>
Given(a, c, var, row, ints) ==
  [vars |-> 1 .. 2, rows |-> DOMAIN a, a |-> a, c |-> c, sense |-> 1, offset |-> 0,
   lo |-> [j \in 1 .. 2 |-> var[j][1]], up |-> [j \in 1 .. 2 |-> var[j][2]],
   rowLo |-> [i \in DOMAIN a |-> row[i][1]], rowUp |-> [i \in DOMAIN a |-> row[i][2]],
   ints |-> ints, grid |-> 1]

Nonnegative2 == Interval(At(0), NoBound)
Boxed == Interval(At(-1), At(2))
Mirrored == Interval(NoBound, At(2))
Free == Interval(NoBound, NoBound)
Below(z) == Interval(NoBound, At(z))
Above(z) == Interval(At(z), NoBound)

\* Knapsacks and coverings in two integer variables, and with a continuous
\* one, bounded from below.
Rows1 == {<<2, 3>>, <<3, 2>>, <<3, -2>>}
Rows2 == {<<2, 1>>, <<-1, 2>>}
GivenPrograms ==
  {Given(<<q, r>>, c, <<u, v>>, <<Below(4), Below(3)>>, ints) :
     q \in Rows1, r \in Rows2, c \in {<<-1, -1>>, <<-2, 1>>, <<-1, -3>>},
     u \in {Nonnegative2, Boxed}, v \in {Nonnegative2, Boxed}, ints \in {{1, 2}, {1}, {2}}}
  \union
  {Given(<<q>>, c, <<u, Boxed>>, <<b>>, ints) :
     q \in Rows1, c \in {<<1, 1>>, <<1, -1>>},
     u \in {Nonnegative2, Boxed}, b \in {Above(3), Interval(At(1), At(3)), Interval(At(1), At(1))},
     ints \in {{1, 2}, {1}, {2}}}

\* Integer variables bounded from above alone, and free ones.
UnboundedBelow ==
  {Given(<<q>>, c, <<u, Nonnegative2>>, <<b>>, {1, 2}) :
     q \in Rows1, c \in {<<1, 1>>, <<-1, 1>>}, u \in {Mirrored, Free}, b \in {Above(1), Below(1), Interval(At(-1), At(1))}}

Values == -2 .. 5
-----------------------------------------------------------------------------
\* A simplex method called by itself.
NoProgram ==
  [vars |-> {}, rows |-> {}, a |-> <<>>, c |-> <<>>, sense |-> 1, offset |-> 0, lo |-> <<>>, up |-> <<>>,
   rowLo |-> <<>>, rowUp |-> <<>>, ints |-> {}, grid |-> 1]
Direct(m, w) ==
  /\ given = NoProgram /\ relaxed = NoProgram
  /\ phase = "ready" /\ candidates = <<>> /\ cuts = <<>> /\ bound = NoBoundYet
  /\ SimplexIdle(m) /\ DualIdle(w) /\ stage = "warm"

Init ==
  \/ \E m \in Inequalities : \E w \in Saved(m) : Direct(m, w)
  \/ \E m \in Equalities \union Redundant \union Degenerate : Direct(m, NoWarmBasis)
  \/ CutInit
Spec == Init /\ [][Next]_vars
=============================================================================
