------------------------------ MODULE Presolve -----------------------------
(***************************************************************************)
(* presolve and postsolve: rounds of three scans remove empty rows, empty  *)
(* columns and rows with one entry, recording each removal on a stack; an  *)
(* answer to what is left is brought back by undoing the stack from its    *)
(* top.  The rows and columns left keep their names, so the maps between   *)
(* the two numberings are the identity.  A step is one removal; a row or   *)
(* column that a scan passes by changes nothing.                           *)
(***************************************************************************)
EXTENDS CanonicalModel, SequencesExt

CONSTANT MaxPasses
ASSUME PassLimit == MaxPasses \in Nat

VARIABLES
  canon,                          \* the model given
  rowActive, colActive, rhs, offset, stack,
  pass, reductions, scan, at,     \* the loop: its round, the scan and where it is
  verdict,                        \* "open", then "reduced", "infeasible" or "unbounded"
  primal, dual, unit              \* postsolve: the answer being restored, over unit
scanVars == <<pass, reductions, scan, at>>
keptVars == <<rowActive, colActive, rhs, offset, stack>>
answerVars == <<primal, dual, unit>>

RowEntries(i) == {j \in colActive : canon.a[i][j] # 0}
ColEntries(j) == {i \in rowActive : canon.a[i][j] # 0}

PresolveInit(m) ==
  /\ canon = m
  /\ rowActive = m.rows /\ colActive = m.cols
  /\ rhs = m.b /\ offset = m.offset /\ stack = <<>>
  /\ pass = 0 /\ reductions = 0 /\ at = 0
  /\ IF MaxPasses = 0 THEN scan = "done" /\ verdict = "reduced"
                      ELSE scan = "rows" /\ verdict = "open"
  /\ primal = <<>> /\ dual = <<>> /\ unit = 1

-----------------------------------------------------------------------------
\* The next member of S that the scan reaches, if there is one.
Reached(S) == {k \in S : k > at /\ \A l \in S : l > at => k <= l}
EmptyRows == {i \in rowActive : RowEntries(i) = {}}
EmptyColumns == {j \in colActive : ColEntries(j) = {}}
Singletons == {i \in rowActive : Cardinality(RowEntries(i)) = 1}

Advance(k) == at' = k /\ reductions' = reductions + 1 /\ UNCHANGED <<pass, scan>>
Conclude(v) == verdict' = v /\ UNCHANGED <<keptVars, scanVars>>
Constant == UNCHANGED <<canon, answerVars>>

EmptyRow ==
  /\ verdict = "open" /\ scan = "rows"
  /\ \E i \in Reached(EmptyRows) :
       \/ rhs[i] # 0 /\ Conclude("infeasible")
       \/ /\ rhs[i] = 0
          /\ rowActive' = rowActive \ {i}
          /\ stack' = Append(stack, [kind |-> "row", row |-> i])
          /\ Advance(i)
          /\ UNCHANGED <<colActive, rhs, offset, verdict>>
  /\ Constant

EmptyColumn ==
  /\ verdict = "open" /\ scan = "columns"
  /\ \E j \in Reached(EmptyColumns) :
       \/ canon.c[j] < 0 /\ Conclude("unbounded")
       \/ /\ canon.c[j] >= 0
          /\ colActive' = colActive \ {j}
          /\ stack' = Append(stack, [kind |-> "column", col |-> j, value |-> 0])
          /\ Advance(j)
          /\ UNCHANGED <<rowActive, rhs, offset, verdict>>
  /\ Constant

(***************************************************************************)
(* The quotients are exact in the instances: a row that loses all entries  *)
(* but one has a unit there.                                               *)
(***************************************************************************)
Quotient(n, d) == IF d > 0 THEN n \div d ELSE (-n) \div (-d)

SubstitutedBelow(i, j, value) ==
  [r \in canon.rows |-> IF r \in ColEntries(j) /\ r > i THEN rhs[r] - canon.a[r][j] * value ELSE rhs[r]]
Substituted(i, j, value) ==
  [r \in canon.rows |-> IF r \in ColEntries(j) \ {i} THEN rhs[r] - canon.a[r][j] * value ELSE rhs[r]]

RowSingleton ==
  /\ verdict = "open" /\ scan = "singletons"
  /\ \E i \in Reached(Singletons) : \E j \in RowEntries(i) :
       LET value == Quotient(rhs[i], canon.a[i][j])
       IN  \/ value < 0 /\ Conclude("infeasible")
           \/ /\ value >= 0
              /\ stack' = stack \o <<[kind |-> "singleton", row |-> i, col |-> j],
                                     [kind |-> "fixed", col |-> j, value |-> value]>>
              /\ rowActive' = rowActive \ {i} /\ colActive' = colActive \ {j}
              /\ rhs' = Substituted(i, j, value)
              /\ offset' = offset + canon.c[j] * value
              /\ Advance(i)
              /\ UNCHANGED verdict
  /\ Constant

-----------------------------------------------------------------------------
NextScan(from, to, left) ==
  /\ verdict = "open" /\ scan = from /\ Reached(left) = {}
  /\ scan' = to /\ at' = 0
  /\ UNCHANGED <<pass, reductions, keptVars, verdict>> /\ Constant

Repeats == reductions > 0 /\ pass + 1 < MaxPasses
NextPass ==
  /\ verdict = "open" /\ scan = "singletons" /\ Reached(Singletons) = {}
  /\ pass' = IF reductions > 0 THEN pass + 1 ELSE pass
  /\ reductions' = 0 /\ at' = 0
  /\ scan' = IF Repeats THEN "rows" ELSE "done"
  /\ verdict' = IF Repeats THEN "open" ELSE "reduced"
  /\ UNCHANGED keptVars /\ Constant

PresolveStep ==
  \/ EmptyRow \/ NextScan("rows", "columns", EmptyRows)
  \/ EmptyColumn \/ NextScan("columns", "singletons", EmptyColumns)
  \/ RowSingleton \/ NextPass

\* The compacted model.
Reduced ==
  [rows |-> rowActive, cols |-> colActive, a |-> canon.a, b |-> rhs, c |-> canon.c, offset |-> offset]

-----------------------------------------------------------------------------
(***************************************************************************)
(* postsolve: copy the answer to the reduced model, then undo the stack    *)
(* from its top.  Answers are numerators over a common denominator, unit.  *)
(***************************************************************************)
PostsolveStart(x, y, den) ==
  /\ primal' = [j \in canon.cols |-> IF j \in colActive THEN x[j] ELSE 0]
  /\ dual' = [i \in canon.rows |-> IF i \in rowActive THEN y[i] ELSE 0]
  /\ unit' = den

MultiplierUnshared(i, k) == Quotient(canon.c[k] * unit, canon.a[i][k])
Multiplier(i, k) ==
  Quotient(canon.c[k] * unit
             - Total([r \in canon.rows |-> canon.a[r][k] * dual[r]], canon.rows \ {i}),
           canon.a[i][k])

Undo ==
  /\ stack # <<>>
  /\ stack' = Front(stack)
  /\ LET top == Last(stack)
     IN  \/ /\ top.kind = "row"
            /\ dual' = [dual EXCEPT ![top.row] = 0] /\ UNCHANGED primal
         \/ /\ top.kind \in {"column", "fixed"}
            /\ primal' = [primal EXCEPT ![top.col] = top.value * unit] /\ UNCHANGED dual
         \/ /\ top.kind = "singleton"
            /\ dual' = [dual EXCEPT ![top.row] = Multiplier(top.row, top.col)] /\ UNCHANGED primal
  /\ UNCHANGED <<canon, rowActive, colActive, rhs, offset, scanVars, verdict, unit>>

-----------------------------------------------------------------------------
\* The values the records on the stack give the columns removed.
Removed == canon.cols \ colActive
FixedTo(j) ==
  LET recs == {k \in DOMAIN stack : stack[k].kind \in {"column", "fixed"} /\ stack[k].col = j}
  IN  stack[CHOOSE k \in recs : TRUE].value
RemovedTotal(f(_, _)) == Total([j \in Removed |-> f(j, FixedTo(j))], Removed)

(***************************************************************************)
(* What is left is equivalent to the model given: the records on the stack *)
(* account exactly for the right-hand sides and the offset of the model    *)
(* left, and every row removed holds whatever the columns left are.        *)
(***************************************************************************)
Equivalent ==
  verdict = "open" =>
    /\ \A j \in Removed : FixedTo(j) >= 0
    /\ \A i \in canon.rows :
         LET taken == RemovedTotal(LAMBDA j, v : canon.a[i][j] * v)
         IN  IF i \in rowActive THEN rhs[i] = canon.b[i] - taken
             ELSE RowEntries(i) = {} /\ canon.b[i] = taken
    /\ offset = canon.offset + RemovedTotal(LAMBDA j, v : canon.c[j] * v)
=============================================================================
