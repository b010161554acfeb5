----------------------------- MODULE MCPipeline ----------------------------
EXTENDS Pipeline

Interval(l, u) == <<l, u>>
Free == Interval(NoBound, NoBound)
Given(a, c, sense, var, row, ints) ==
  [vars |-> 1 .. 2, rows |-> DOMAIN a, a |-> a, c |-> c, sense |-> sense, offset |-> 0,
   lo |-> [j \in 1 .. 2 |-> var[j][1]], up |-> [j \in 1 .. 2 |-> var[j][2]],
   rowLo |-> [i \in DOMAIN a |-> row[i][1]], rowUp |-> [i \in DOMAIN a |-> row[i][2]],
   ints |-> ints, grid |-> 1, quad |-> <<>>]

\* Variables that are nonnegative, free, boxed, fixed or bounded above, and
\* rows that are equations, ranges or one-sided.
VarBounds == {Interval(At(0), NoBound), Free, Interval(At(1), At(2)), Interval(At(1), At(1)),
              Interval(NoBound, At(1))}
RowBounds == {Interval(At(1), At(1)), Interval(NoBound, At(2)), Interval(At(-1), At(1)), Interval(At(2), NoBound)}

Programs ==
  {Given(<<r>>, c, s, <<u, v>>, <<b>>, {}) :
     r \in {<<1, 1>>, <<1, -1>>, <<0, 1>>}, c \in {<<1, 0>>, <<-1, 1>>, <<0, -1>>}, s \in {1, -1},
     u \in VarBounds, v \in VarBounds, b \in RowBounds}
  \union
  {Given(<<q, r>>, c, 1, <<u, Interval(At(0), NoBound)>>, <<b, d>>, {}) :
     q \in {<<1, 0>>, <<1, 1>>}, r \in {<<1, 1>>, <<0, 1>>, <<-1, 1>>}, c \in {<<-1, -1>>, <<1, 2>>},
     u \in {Interval(At(0), NoBound), Interval(NoBound, At(1))}, b \in RowBounds, d \in RowBounds}

Mixed == {Given(<<<<1, 2>>>>, <<1, -1>>, 1, <<u, Interval(At(0), At(2))>>, <<Interval(NoBound, At(1))>>, {1}) :
            u \in VarBounds}

\* Quadratic programs: convex ones, flat ones and ones that curve down, with and
\* without products of variables, in one and two variables, in halves, and one
\* without variables.
Quad(n, quad, a, c, sense, var, row, ints, grid) ==
  [vars |-> 1 .. n, rows |-> DOMAIN a, a |-> a, c |-> c, sense |-> sense, offset |-> 1,
   lo |-> [j \in 1 .. n |-> var[j][1]], up |-> [j \in 1 .. n |-> var[j][2]],
   rowLo |-> [i \in DOMAIN a |-> row[i][1]], rowUp |-> [i \in DOMAIN a |-> row[i][2]],
   ints |-> ints, grid |-> grid, quad |-> quad]
Quadratics1 ==
  {Quad(1, <<<<s * d>>>>, <<<<1>>>>, <<c>>, s, <<u>>, <<b>>, {}, 1) :
     d \in {2, 0, -1}, s \in {1, -1}, c \in {-2, 1},
     u \in {Free, Interval(At(0), NoBound), Interval(At(1), At(2))},
     b \in {Interval(NoBound, At(2)), Interval(NoBound, At(-1)), Interval(At(0), At(0))}}
Quadratics2 ==
  {Quad(2, m, <<>>, cu[1], 1, <<cu[2], Interval(At(0), NoBound)>>, <<>>, {}, 1) :
     m \in {<<<<2, 0>>, <<0, 2>>>>, <<<<1, 1>>, <<1, 4>>>>, <<<<0, 1>>, <<1, 0>>>>, <<<<1, -1>>, <<-1, 1>>>>, <<<<0, 0>>, <<0, 2>>>>},
     cu \in {<<<<-2, -2>>, Interval(At(0), At(1))>>, <<<<1, -3>>, Free>>}}
Rows2 ==
  {Quad(2, <<<<2, 0>>, <<0, 2>>>>, <<<<1, 1>>>>, <<-2, 0>>, 1, <<Interval(At(0), NoBound), Interval(NoBound, At(2))>>, <<b>>, {}, 1) :
     b \in {Interval(At(1), At(1)), Interval(NoBound, At(-1))}}
Halved == {Quad(1, <<<<2>>>>, <<>>, <<-1>>, 1, <<Interval(At(0), At(4))>>, <<>>, i, 2) : i \in {{}, {1}}}
NoVariable == {[Quad(0, <<>>, <<<<>>>>, <<>>, 1, <<>>, <<b>>, {}, 1) EXCEPT !.rows = {1}] :
                 b \in {Interval(At(1), NoBound), Interval(NoBound, At(1))}}
QuadraticPrograms == Quadratics1 \union Quadratics2 \union Rows2 \union Halved \union NoVariable
MCQuadratics == {MakeQuadratic(p) : p \in QuadraticPrograms}
QpValues == 0 .. 1
QpArguments == {-2, 0, 2}

Grid == [1 .. 2 -> -2 .. 4]
Rays == [1 .. 2 -> -2 .. 2]
Answers == {[x |-> x, z |-> z] : x \in [1 .. 2 -> 0 .. 1], z \in -1 .. 1}
Ones == [k \in 1 .. 9 |-> 1]
Mixture == [k \in 1 .. 9 |-> IF k % 2 = 1 THEN 2 ELSE 1]
RowFactors == {Ones, Mixture}
ColFactors == {Mixture}

Command(p, e, pre, sc) == [program |-> p, engine |-> e, warm |-> NoWarmBasis, presolve |-> pre, scale |-> sc]
MCCommands ==
  {Command(p, o[1], o[2], o[3]) :
     p \in Programs, o \in {<<"auto", TRUE, TRUE>>, <<"dual", TRUE, FALSE>>, <<"primal", FALSE, FALSE>>}}
  \union {Command(p, e, TRUE, FALSE) : p \in Mixed, e \in {"auto", "primal", "pdlp"}}
  \union {Command(p, IF p.ints = {} /\ HasQuadratic(p) THEN "auto" ELSE "qp", TRUE, TRUE) : p \in QuadraticPrograms}
=============================================================================
