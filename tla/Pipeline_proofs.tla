--------------------------- MODULE Pipeline_proofs --------------------------
(***************************************************************************)
(* The driver for every model, grid of points and set of options: what it  *)
(* reports as verified is right.  Presolve keeps the points of the model   *)
(* and its stack accounts for what it removed; what certify accepts of the *)
(* scaled model is a witness for the model left; postsolve brings a least  *)
(* answer back to one that no point undercuts once the canonical check has *)
(* passed; and canonicalization carries that to the model given.  On the   *)
(* way through the QP engine check_convexity accepts exactly the matrices  *)
(* that are nowhere negative, by completing the square at each pivot; a    *)
(* stationary point whose multipliers fit its rows is a least one; they    *)
(* fit them in every iteration; and every other verdict has its            *)
(* certificate.                                                            *)
(***************************************************************************)
EXTENDS Pipeline, Models_proofs

-----------------------------------------------------------------------------
\* Presolve and postsolve: the points presolve keeps, and what its stack accounts for.
\* A quotient that is exact is the quotient the code computes.
LEMMA ExactQuotient ==
  ASSUME NEW d \in Int, d # 0, NEW q \in Int
  PROVE  Quotient(d * q, d) = q
<1>1. CASE d > 0
  BY <1>1 DEF Quotient
<1>2. CASE d < 0
  <2>1. -(d * q) = (-d) * q /\ -d > 0 /\ -d \in Int
    BY <1>2
  <2>2. ((-d) * q) \div (-d) = q
    <3> DEFINE e == -d
    <3>1. e \in Int /\ e > 0
      BY <2>1
    <3> HIDE DEF e
    <3>2. (e * q) \div e = q
      BY <3>1
    <3> QED
      BY <3>2 DEF e
  <2> QED
    BY <1>2, <2>1, <2>2 DEF Quotient
<1> QED
  BY <1>1, <1>2

\* A quotient of integers is one.
LEMMA QuotientType ==
  ASSUME NEW n \in Int, NEW d \in Int, d # 0 PROVE Quotient(n, d) \in Int
  BY DEF Quotient

\* Taking one index out of a sum.
LEMMA TotalWithout ==
  ASSUME NEW A, IsFiniteSet(A), NEW f, NEW g, AllInt(f, A), NEW j \in A, \A k \in A \ {j} : g[k] = f[k]
  PROVE  Total(f, A) = f[j] + Total(g, A \ {j})
<1>1. IsFiniteSet(A \ {j}) /\ AllInt(g, A \ {j})
  BY FS_RemoveElement DEF AllInt
<1>2. Total(f, A) = f[j] + Total(f, A \ {j}) /\ Total(g, A \ {j}) = Total(f, A \ {j})
  BY <1>1, TotalRemove, TotalEqual
<1> QED
  BY <1>2, Zenon

-----------------------------------------------------------------------------
\* The points of the model given, and what presolve keeps of them: each is a
\* point of the model left, which does not price it higher.
Points0 == {g \in [canon.cols -> Int] : PrimalFeasible(canon, g)}
LeftRow(i, g) == Total([j \in colActive |-> canon.a[i][j] * g[j]], colActive)
LeftCost(g) == Total([j \in colActive |-> canon.c[j] * g[j]], colActive)
KeepsPoint(g) ==
  /\ verdict # "infeasible"
  /\ \A i \in rowActive : LeftRow(i, g) = rhs[i]
  /\ LeftCost(g) + offset <= CostOf(canon, g) + canon.offset

PresolveTypeOK ==
  /\ LinearModel(canon) /\ canon.offset \in Int
  /\ rowActive \subseteq canon.rows /\ colActive \subseteq canon.cols
  /\ \A i \in canon.rows : rhs[i] \in Int
  /\ offset \in Int
PresolveInv == PresolveTypeOK /\ \A g \in Points0 : KeepsPoint(g)

\* What is left is finite.
LEMMA LeftIsFinite ==
  PresolveTypeOK => IsFiniteSet(rowActive) /\ IsFiniteSet(colActive)
  BY FS_Subset DEF PresolveTypeOK, LinearModel

\* Rows and costs of what is left are integers.
LEMMA LeftType ==
  ASSUME PresolveTypeOK, NEW g \in [canon.cols -> Int]
  PROVE  LeftCost(g) \in Int /\ \A r \in rowActive : LeftRow(r, g) \in Int
<1>1. ASSUME NEW i \in rowActive PROVE LeftRow(i, g) \in Int
  <2>1. AllInt([j \in colActive |-> canon.a[i][j] * g[j]], colActive)
    BY DEF PresolveTypeOK, LinearModel, AllInt
  <2> QED
    BY <2>1, LeftIsFinite, TotalType DEF LeftRow
<1>2. AllInt([j \in colActive |-> canon.c[j] * g[j]], colActive)
  BY DEF PresolveTypeOK, LinearModel, AllInt
<1> QED
  BY <1>1, <1>2, LeftIsFinite, TotalType DEF LeftCost

\* A row without entries has the value zero.
LEMMA EmptyRowIsZero ==
  ASSUME PresolveTypeOK, NEW g \in [canon.cols -> Int], NEW i \in rowActive, RowEntries(i) = {}
  PROVE  LeftRow(i, g) = 0
<1>1. \A j \in colActive : [k \in colActive |-> canon.a[i][k] * g[k]][j] = 0
  BY DEF RowEntries, PresolveTypeOK, LinearModel
<1> QED
  BY <1>1, LeftIsFinite, TotalZero DEF LeftRow

\* A row with one entry has the value of that entry.
LEMMA SingletonRow ==
  ASSUME PresolveTypeOK, NEW g \in [canon.cols -> Int],
         NEW i \in rowActive, Cardinality(RowEntries(i)) = 1, NEW j \in RowEntries(i)
  PROVE  LeftRow(i, g) = canon.a[i][j] * g[j] /\ RowEntries(i) = {j}
<1>1. RowEntries(i) = {j}
  <2>1. IsFiniteSet(RowEntries(i))
    BY LeftIsFinite, FS_Subset DEF RowEntries
  <2>2. PICK k : RowEntries(i) = {k}
    BY <2>1, FS_Singleton
  <2> QED
    BY <2>2
<1>2. \A k \in colActive \ {j} : canon.a[i][k] = 0
  BY <1>1 DEF RowEntries
<1> DEFINE f == [k \in colActive |-> canon.a[i][k] * g[k]]
<1>3. j \in colActive /\ f[j] = canon.a[i][j] * g[j] /\ f[j] \in Int /\ \A k \in colActive \ {j} : f[k] = 0
  BY <1>2 DEF RowEntries, PresolveTypeOK, LinearModel
<1> HIDE DEF f
<1>4. Total(f, colActive) = f[j]
  BY <1>3, LeftIsFinite, TotalSingle
<1> QED
  BY <1>1, <1>3, <1>4 DEF f, LeftRow

\* Column j leaves the rows and the cost, with what it gives them.
LEMMA ColumnLeaves ==
  ASSUME PresolveTypeOK, NEW g \in [canon.cols -> Int], NEW j \in colActive, colActive' = colActive \ {j},
         canon' = canon
  PROVE  /\ \A i \in rowActive : LeftRow(i, g) = canon.a[i][j] * g[j] + LeftRow(i, g)'
         /\ LeftCost(g) = canon.c[j] * g[j] + LeftCost(g)'
<1>0. IsFiniteSet(colActive)
  BY LeftIsFinite
<1>1. ASSUME NEW w, AllInt(w, colActive)
      PROVE  Total([k \in colActive |-> w[k] * g[k]], colActive)
               = w[j] * g[j] + Total([k \in colActive \ {j} |-> w[k] * g[k]], colActive \ {j})
  <2> DEFINE f == [k \in colActive |-> w[k] * g[k]]
             h == [k \in colActive \ {j} |-> w[k] * g[k]]
  <2>1. AllInt(f, colActive) /\ f[j] = w[j] * g[j] /\ \A k \in colActive \ {j} : h[k] = f[k]
    BY <1>1 DEF AllInt, PresolveTypeOK
  <2> HIDE DEF f, h
  <2>2. Total(f, colActive) = f[j] + Total(h, colActive \ {j})
    BY <1>0, <2>1, TotalWithout
  <2> QED
    BY <2>1, <2>2, Zenon DEF f, h
<1>2. AllInt(canon.c, colActive) /\ \A i \in rowActive : AllInt(canon.a[i], colActive)
  BY DEF PresolveTypeOK, LinearModel, AllInt
<1> QED
  BY <1>1, <1>2, Zenon DEF LeftRow, LeftCost

-----------------------------------------------------------------------------
\* At the start everything is left.
LEMMA PresolveStarts ==
  ASSUME NEW m, LinearModel(m), m.offset \in Int, PresolveInit(m)
  PROVE  PresolveInv
<1>1. PresolveTypeOK
  BY DEF PresolveTypeOK, PresolveInit, LinearModel
<1>2. ASSUME NEW g \in Points0 PROVE KeepsPoint(g)
  <2>1. verdict # "infeasible" /\ canon = m /\ rhs = m.b /\ offset = m.offset /\ rowActive = m.rows /\ colActive = m.cols
    BY DEF PresolveInit
  <2>2. LeftCost(g) = CostOf(canon, g) /\ \A i \in rowActive : LeftRow(i, g) = RowValue(canon, i, g)
    BY <2>1, Zenon DEF LeftCost, LeftRow, CostOf, RowValue
  <2>3. \A i \in rowActive : RowValue(canon, i, g) = rhs[i]
    BY <2>1 DEF Points0, PrimalFeasible, RowsHold
  <2>4. g \in [canon.cols -> Int]
    BY DEF Points0
  <2>5. LeftCost(g) \in Int
    BY <1>1, <2>4, LeftType
  <2> QED
    BY <1>1, <2>1, <2>2, <2>3, <2>5 DEF KeepsPoint, PresolveTypeOK
<1> QED
  BY <1>1, <1>2 DEF PresolveInv

\* What a removal must leave as it is for a point to be kept.
LEMMA KeptAsItIs ==
  ASSUME PresolveInv, canon' = canon, colActive' = colActive, rowActive' \subseteq rowActive,
         rhs' = rhs, offset' = offset, verdict' # "infeasible"
  PROVE  PresolveInv'
<1>1. PresolveTypeOK'
  BY DEF PresolveInv, PresolveTypeOK, LinearModel
<1>2. ASSUME NEW g \in Points0' PROVE KeepsPoint(g)'
  <2>1. g \in Points0
    BY DEF Points0
  <2>2. KeepsPoint(g)
    BY <2>1 DEF PresolveInv
  <2>3. LeftCost(g)' = LeftCost(g) /\ \A i : LeftRow(i, g)' = LeftRow(i, g)
    BY DEF LeftCost, LeftRow
  <2> QED
    BY <2>2, <2>3 DEF KeepsPoint
<1> QED
  BY <1>1, <1>2 DEF PresolveInv

\* A verdict of infeasibility when no point is kept.
LEMMA NoPointLeft ==
  ASSUME PresolveInv, canon' = canon, UNCHANGED keptVars, Points0 = {}
  PROVE  PresolveInv'
<1>1. PresolveTypeOK'
  BY DEF PresolveInv, PresolveTypeOK, LinearModel, keptVars
<1>2. Points0' = {}
  BY DEF Points0
<1> QED
  BY <1>1, <1>2 DEF PresolveInv

\* Removing an empty row keeps every point; one that cannot hold ends the
\* scan, and there was no point.
LEMMA EmptyRowKeeps == ASSUME PresolveInv, EmptyRow PROVE PresolveInv'
<1>1. PICK i \in Reached(EmptyRows) :
        \/ rhs[i] # 0 /\ Conclude("infeasible")
        \/ /\ rhs[i] = 0
           /\ rowActive' = rowActive \ {i}
           /\ UNCHANGED <<colActive, rhs, offset, verdict>>
  BY DEF EmptyRow
<1>2. canon' = canon /\ verdict = "open"
  BY DEF EmptyRow, Constant
<1>3. i \in rowActive /\ RowEntries(i) = {}
  BY DEF Reached, EmptyRows
<1>4. CASE rhs[i] # 0 /\ Conclude("infeasible")
  <2>1. ASSUME NEW g \in Points0 PROVE FALSE
    <3>1. LeftRow(i, g) = 0
      BY <1>3, EmptyRowIsZero DEF Points0, PresolveInv
    <3>2. LeftRow(i, g) = rhs[i]
      BY <1>3 DEF PresolveInv, KeepsPoint
    <3> QED
      BY <1>4, <3>1, <3>2
  <2> QED
    BY <1>2, <1>4, <2>1, NoPointLeft DEF Conclude
<1>5. CASE rhs[i] = 0 /\ rowActive' = rowActive \ {i} /\ UNCHANGED <<colActive, rhs, offset, verdict>>
  BY <1>2, <1>5, KeptAsItIs
<1> QED
  BY <1>1, <1>4, <1>5

\* Removing an empty column drops a cost that is not negative.
LEMMA EmptyColumnKeeps == ASSUME PresolveInv, EmptyColumn PROVE PresolveInv'
<1>1. PICK j \in Reached(EmptyColumns) :
        \/ Conclude("unbounded")
        \/ /\ canon.c[j] >= 0
           /\ colActive' = colActive \ {j}
           /\ UNCHANGED <<rowActive, rhs, offset, verdict>>
  BY DEF EmptyColumn
<1>2. canon' = canon /\ verdict = "open"
  BY DEF EmptyColumn, Constant
<1>3. j \in colActive /\ ColEntries(j) = {}
  BY DEF Reached, EmptyColumns
<1>4. CASE Conclude("unbounded")
  BY <1>2, <1>4, KeptAsItIs DEF Conclude, keptVars
<1>5. CASE canon.c[j] >= 0 /\ colActive' = colActive \ {j} /\ UNCHANGED <<rowActive, rhs, offset, verdict>>
  <2>1. PresolveTypeOK'
    BY <1>2, <1>5 DEF PresolveInv, PresolveTypeOK, LinearModel
  <2>2. ASSUME NEW g \in Points0' PROVE KeepsPoint(g)'
    <3>1. g \in Points0 /\ g \in [canon.cols -> Int] /\ g[j] \in Int /\ g[j] >= 0
      BY <1>2, <1>3 DEF Points0, PrimalFeasible, Nonnegative, PresolveInv, PresolveTypeOK
    <3>2. KeepsPoint(g)
      BY <3>1 DEF PresolveInv
    <3>3. /\ \A i \in rowActive : LeftRow(i, g) = canon.a[i][j] * g[j] + LeftRow(i, g)'
          /\ LeftCost(g) = canon.c[j] * g[j] + LeftCost(g)'
      BY <1>2, <1>3, <1>5, <3>1, ColumnLeaves DEF PresolveInv
    <3>4. LeftCost(g)' \in Int /\ \A i \in rowActive' : LeftRow(i, g)' \in Int
      <4>1. (PresolveTypeOK /\ g \in [canon.cols -> Int] =>
               LeftCost(g) \in Int /\ \A r \in rowActive : LeftRow(r, g) \in Int)'
        BY LeftType, PTL
      <4> QED
        BY <1>2, <2>1, <3>1, <4>1
    <3>5. \A i \in rowActive' : LeftRow(i, g)' = rhs'[i]
      <4> SUFFICES ASSUME NEW i \in rowActive PROVE LeftRow(i, g)' = rhs[i]
        BY <1>5
      <4>1. canon.a[i][j] = 0
        BY <1>3 DEF ColEntries
      <4>2. LeftRow(i, g) = rhs[i] /\ LeftRow(i, g)' \in Int
        BY <1>5, <3>2, <3>4 DEF KeepsPoint
      <4> QED
        BY <3>1, <3>3, <4>1, <4>2
    <3>6. LeftCost(g)' + offset' <= CostOf(canon, g)' + canon'.offset
      <4>1. canon.c[j] \in Int /\ offset \in Int /\ canon.offset \in Int /\ LeftCost(g) \in Int /\ canon.c[j] * g[j] >= 0
        BY <1>3, <1>5, <3>1, LeftType DEF PresolveInv, PresolveTypeOK, LinearModel
      <4>2. CostOf(canon, g) \in Int
        <5>1. ColumnVector(canon, g) /\ RowVector(canon, [i \in canon.rows |-> 0])
          BY <3>1 DEF ColumnVector, RowVector, AllInt
        <5> QED
          BY <5>1, ValuesAreIntegers DEF PresolveInv, PresolveTypeOK
      <4>3. LeftCost(g) + offset <= CostOf(canon, g) + canon.offset
        BY <3>2 DEF KeepsPoint
      <4>4. CostOf(canon, g)' = CostOf(canon, g) /\ canon'.offset = canon.offset /\ offset' = offset
        BY <1>2, <1>5 DEF CostOf
      <4>5. LeftCost(g)' + offset <= CostOf(canon, g) + canon.offset
        <5> DEFINE product == canon.c[j] * g[j]
        <5>1. product \in Int /\ product >= 0 /\ LeftCost(g) = product + LeftCost(g)'
          BY <3>1, <3>3, <4>1
        <5> HIDE DEF product
        <5> QED
          BY <3>4, <4>1, <4>2, <4>3, <5>1
      <4> QED
        BY <4>4, <4>5
    <3> QED
      BY <1>2, <1>5, <3>5, <3>6 DEF KeepsPoint
  <2> QED
    BY <2>1, <2>2 DEF PresolveInv
<1> QED
  BY <1>1, <1>4, <1>5

\* The value a row with one entry forces is the value of every point.
LEMMA RowSingletonKeeps == ASSUME PresolveInv, RowSingleton PROVE PresolveInv'
<1>0. PICK i \in Reached(Singletons) : \E j \in RowEntries(i) :
        LET value == Quotient(rhs[i], canon.a[i][j])
        IN  \/ value < 0 /\ Conclude("infeasible")
            \/ /\ value >= 0
               /\ rowActive' = rowActive \ {i} /\ colActive' = colActive \ {j}
               /\ rhs' = Substituted(i, j, value)
               /\ offset' = offset + canon.c[j] * value
               /\ UNCHANGED verdict
  BY DEF RowSingleton
<1>1. PICK j \in RowEntries(i) :
        LET value == Quotient(rhs[i], canon.a[i][j])
        IN  \/ value < 0 /\ Conclude("infeasible")
            \/ /\ value >= 0
               /\ rowActive' = rowActive \ {i} /\ colActive' = colActive \ {j}
               /\ rhs' = Substituted(i, j, value)
               /\ offset' = offset + canon.c[j] * value
               /\ UNCHANGED verdict
  BY <1>0
<1> DEFINE value == Quotient(rhs[i], canon.a[i][j])
<1>2. canon' = canon /\ verdict = "open"
  BY DEF RowSingleton, Constant
<1>3. /\ i \in rowActive /\ Cardinality(RowEntries(i)) = 1
      /\ j \in colActive /\ canon.a[i][j] # 0 /\ canon.a[i][j] \in Int
      /\ rhs[i] \in Int /\ canon.c[j] \in Int /\ offset \in Int /\ canon.offset \in Int
  BY DEF Reached, Singletons, RowEntries, PresolveInv, PresolveTypeOK, LinearModel
<1>4. value \in Int
  BY <1>3, QuotientType
<1>5. ASSUME NEW g \in Points0
      PROVE  g[j] = value /\ g[j] \in Int /\ g[j] >= 0 /\ g \in [canon.cols -> Int]
  <2>1. g[j] \in Int /\ g[j] >= 0 /\ g \in [canon.cols -> Int]
    BY <1>3 DEF Points0, PrimalFeasible, Nonnegative, PresolveInv, PresolveTypeOK
  <2>2. LeftRow(i, g) = canon.a[i][j] * g[j]
    BY <1>3, <2>1, SingletonRow DEF PresolveInv
  <2>3. LeftRow(i, g) = rhs[i]
    BY <1>3 DEF PresolveInv, KeepsPoint
  <2>4. Quotient(canon.a[i][j] * g[j], canon.a[i][j]) = g[j]
    BY <1>3, <2>1, ExactQuotient
  <2>5. rhs[i] = canon.a[i][j] * g[j]
    BY <2>2, <2>3
  <2> QED
    BY <2>1, <2>4, <2>5, Zenon
<1>6. CASE value < 0 /\ Conclude("infeasible")
  <2>1. Points0 = {}
    BY <1>4, <1>5, <1>6
  <2> QED
    BY <1>2, <1>6, <2>1, NoPointLeft DEF Conclude
<1>7. CASE /\ value >= 0
           /\ rowActive' = rowActive \ {i} /\ colActive' = colActive \ {j}
           /\ rhs' = Substituted(i, j, value)
           /\ offset' = offset + canon.c[j] * value
           /\ UNCHANGED verdict
  <2> HIDE DEF value
  <2>1. \A r \in rowActive' : rhs'[r] = rhs[r] - canon.a[r][j] * value
    <3> SUFFICES ASSUME NEW r \in rowActive \ {i} PROVE rhs'[r] = rhs[r] - canon.a[r][j] * value
      BY <1>7
    <3>1. r \in canon.rows /\ rhs[r] \in Int /\ canon.a[r][j] \in Int
      BY <1>3 DEF PresolveInv, PresolveTypeOK, LinearModel
    <3>2. CASE canon.a[r][j] = 0
      BY <1>4, <1>7, <3>1, <3>2 DEF Substituted, ColEntries
    <3>3. CASE canon.a[r][j] # 0
      BY <1>7, <3>1, <3>3 DEF Substituted, ColEntries
    <3> QED
      BY <3>2, <3>3
  <2>2. PresolveTypeOK'
    <3>1. \A r \in canon.rows : rhs'[r] \in Int
      <4> SUFFICES ASSUME NEW r \in canon.rows PROVE rhs'[r] \in Int
        OBVIOUS
      <4>1. rhs[r] \in Int /\ canon.a[r][j] * value \in Int
        BY <1>3, <1>4 DEF PresolveInv, PresolveTypeOK, LinearModel
      <4> QED
        BY <1>7, <4>1 DEF Substituted
    <3>2. offset' \in Int
      BY <1>3, <1>4, <1>7
    <3> QED
      BY <1>2, <1>7, <3>1, <3>2 DEF PresolveInv, PresolveTypeOK, LinearModel
  <2>3. ASSUME NEW g \in Points0' PROVE KeepsPoint(g)'
    <3>1. g \in Points0
      BY <1>2 DEF Points0
    <3>2. KeepsPoint(g)
      BY <3>1 DEF PresolveInv
    <3>3. g[j] = value /\ g[j] \in Int /\ g \in [canon.cols -> Int]
      BY <1>5, <3>1
    <3>4. /\ \A r \in rowActive : LeftRow(r, g) = canon.a[r][j] * g[j] + LeftRow(r, g)'
          /\ LeftCost(g) = canon.c[j] * g[j] + LeftCost(g)'
      BY <1>2, <1>3, <1>7, <3>3, ColumnLeaves DEF PresolveInv
    <3>5. LeftCost(g)' \in Int /\ \A r \in rowActive' : LeftRow(r, g)' \in Int
      <4>1. (PresolveTypeOK /\ g \in [canon.cols -> Int] =>
               LeftCost(g) \in Int /\ \A r \in rowActive : LeftRow(r, g) \in Int)'
        BY LeftType, PTL
      <4> QED
        BY <1>2, <2>2, <3>3, <4>1
    <3>6. \A r \in rowActive' : LeftRow(r, g)' = rhs'[r]
      <4> SUFFICES ASSUME NEW r \in rowActive' PROVE LeftRow(r, g)' = rhs'[r]
        OBVIOUS
      <4> DEFINE product == canon.a[r][j] * value
      <4>1. r \in rowActive /\ canon.a[r][j] \in Int
        BY <1>3, <1>7 DEF PresolveInv, PresolveTypeOK, LinearModel
      <4>2. LeftRow(r, g) = product + LeftRow(r, g)' /\ rhs'[r] = rhs[r] - product
        BY <2>1, <3>3, <3>4, <4>1
      <4>3. product \in Int /\ LeftRow(r, g)' \in Int /\ LeftRow(r, g) = rhs[r]
        BY <1>4, <3>2, <3>5, <4>1 DEF KeepsPoint
      <4> HIDE DEF product
      <4> QED
        BY <4>2, <4>3
    <3>7. LeftCost(g)' + offset' <= CostOf(canon, g)' + canon'.offset
      <4> DEFINE product == canon.c[j] * value
      <4>1. CostOf(canon, g)' = CostOf(canon, g) /\ canon'.offset = canon.offset /\ offset' = offset + product
        BY <1>2, <1>7 DEF CostOf
      <4>2. LeftCost(g) = product + LeftCost(g)' /\ product \in Int
        BY <1>3, <1>4, <3>3, <3>4
      <4>3. LeftCost(g) + offset <= CostOf(canon, g) + canon.offset
        BY <3>2 DEF KeepsPoint
      <4> HIDE DEF product
      <4>4. LeftCost(g)' + offset' = LeftCost(g) + offset
        BY <1>3, <3>5, <4>1, <4>2
      <4> QED
        BY <4>1, <4>3, <4>4
    <3> QED
      BY <1>2, <1>7, <3>6, <3>7 DEF KeepsPoint
  <2> QED
    BY <2>2, <2>3 DEF PresolveInv
<1> QED
  BY <1>1, <1>6, <1>7

\* No step of presolve loses a point or makes one cheaper than it was.
LEMMA PresolveKeeps == ASSUME PresolveInv, PresolveStep PROVE PresolveInv'
<1>1. ASSUME NEW from, NEW to, NEW open, NextScan(from, to, open) PROVE PresolveInv'
  BY <1>1, KeptAsItIs DEF NextScan, Constant, keptVars
<1>2. CASE NextPass
  BY <1>2, KeptAsItIs DEF NextPass, Constant, keptVars
<1> QED
  BY <1>1, <1>2, EmptyRowKeeps, EmptyColumnKeeps, RowSingletonKeeps DEF PresolveStep

-----------------------------------------------------------------------------
\* What the stack accounts for.  The values v of the columns removed are those
\* of the records that name them, and what the columns took from the rows left
\* and gave to the offset; a row removed has no entry in a column left.
Gives == {"column", "fixed"}
StackRecord ==
  [kind : {"row"}, row : canon.rows]
    \union [kind : Gives, col : canon.cols, value : Nat]
    \union [kind : {"singleton"}, row : canon.rows, col : canon.cols]
RemovedSum(w, v) == Total([j \in Removed |-> w[j] * v[j]], Removed)
Recorded(j) == \E k \in DOMAIN stack : stack[k].kind \in Gives /\ stack[k].col = j
RecordsAgree(v) ==
  \A k \in DOMAIN stack : stack[k].kind \in Gives =>
    stack[k].col \in Removed /\ stack[k].value = v[stack[k].col]
Accounts(v) ==
  /\ v \in [Removed -> Nat] /\ RecordsAgree(v)
  /\ \A i \in rowActive : rhs[i] = canon.b[i] - RemovedSum(canon.a[i], v)
  /\ offset = canon.offset + RemovedSum(canon.c, v)
RowsGone == \A i \in canon.rows \ rowActive : \A j \in colActive : canon.a[i][j] = 0

\* A sum of products taken over one index more.
LEMMA ProductsJoined ==
  ASSUME NEW A, IsFiniteSet(A), NEW u, NEW w, AllInt(u, A), AllInt(w, A), NEW j \in A,
         NEW B, B = A \ {j}, NEW v, \A l \in B : v[l] = w[l]
  PROVE  Total([l \in A |-> u[l] * w[l]], A) = u[j] * w[j] + Total([l \in B |-> u[l] * v[l]], B)
<1> DEFINE f == [l \in A |-> u[l] * w[l]]
           g == [l \in B |-> u[l] * v[l]]
<1>1. AllInt(f, A) /\ f[j] = u[j] * w[j] /\ \A l \in A \ {j} : g[l] = f[l]
  BY DEF AllInt
<1> HIDE DEF f, g
<1>2. Total(f, A) = f[j] + Total(g, A \ {j})
  BY <1>1, TotalWithout
<1> QED
  BY <1>1, <1>2, Zenon DEF f, g

\* The records pushed for column j, and what it takes from the rows and gives to
\* the offset, at the value z.
Records(t, j, z) ==
  /\ \A l \in DOMAIN t : t[l].kind \in Gives => t[l].col = j /\ t[l].value = z
  /\ \E l \in DOMAIN t : t[l].kind \in Gives
Takes(j, z) ==
  /\ \A i \in rowActive' : rhs'[i] = rhs[i] - canon.a[i][j] * z
  /\ offset' = offset + canon.c[j] * z

Joined(w, v, j, z) ==
  \A u : AllInt(u, canon.cols) => RemovedSum(u, w)' = u[j] * z + RemovedSum(u, v)

\* Column j joins the columns removed with the value recorded for it.
LEMMA ColumnRecorded ==
  ASSUME PresolveTypeOK, stack \in Seq(StackRecord), NEW v, Accounts(v), \A l \in Removed : Recorded(l),
         NEW j \in colActive, NEW z \in Nat, NEW t \in Seq(StackRecord),
         stack' = stack \o t, Records(t, j, z),
         canon' = canon, colActive' = colActive \ {j}, rowActive' \subseteq rowActive, Takes(j, z)
  PROVE  /\ stack' \in Seq(StackRecord)'
         /\ \E w : Accounts(w)' /\ Joined(w, v, j, z)
         /\ \A l \in Removed' : Recorded(l)'
<1>0. PICK w : w = [l \in Removed' |-> IF l = j THEN z ELSE v[l]]
  OBVIOUS
<1>1. /\ Removed' = Removed \union {j} /\ j \notin Removed /\ j \in canon.cols
      /\ Removed' \subseteq canon.cols /\ IsFiniteSet(Removed') /\ Removed' \ {j} = Removed
  <2>1. j \in canon.cols /\ canon.cols' = canon.cols /\ IsFiniteSet(canon.cols)
    BY DEF PresolveTypeOK, LinearModel
  <2>2. Removed' = Removed \union {j} /\ j \notin Removed /\ Removed' \subseteq canon.cols /\ Removed' \ {j} = Removed
    BY <2>1 DEF Removed
  <2> QED
    BY <2>1, <2>2, FS_Subset
<1>2. w \in [Removed' -> Nat] /\ w[j] = z /\ \A l \in Removed : w[l] = v[l] /\ v[l] \in Nat
  BY <1>0, <1>1 DEF Accounts
<1> DEFINE st == stack \o t
<1>3. /\ st \in Seq(StackRecord)
      /\ \A k \in DOMAIN stack : k \in DOMAIN st /\ st[k] = stack[k]
      /\ \A l \in DOMAIN t : \E k \in DOMAIN st : st[k] = t[l]
      /\ \A k \in DOMAIN st :
           (k \in DOMAIN stack /\ st[k] = stack[k]) \/ \E l \in DOMAIN t : st[k] = t[l]
  BY ConcatElements
<1>4. stack' = st
  OBVIOUS
<1> HIDE DEF st
<1>5. StackRecord' = StackRecord
  BY DEF StackRecord
<1>6. ASSUME NEW u, AllInt(u, canon.cols) PROVE RemovedSum(u, w)' = u[j] * z + RemovedSum(u, v)
  <2>1. AllInt(u, Removed') /\ AllInt(w, Removed')
    BY <1>1, <1>2, <1>6 DEF AllInt
  <2>2. RemovedSum(u, w)' = u[j] * w[j] + RemovedSum(u, v)
    <3>1. PICK A : A = Removed'
      OBVIOUS
    <3>2. PICK B : B = Removed
      OBVIOUS
    <3>3. j \in A /\ B = A \ {j} /\ IsFiniteSet(A)
      BY <1>1, <3>1, <3>2
    <3>4. AllInt(u, A) /\ AllInt(w, A) /\ \A l \in B : v[l] = w[l]
      BY <1>2, <2>1, <3>1, <3>2
    <3>5. Total([l \in A |-> u[l] * w[l]], A) = u[j] * w[j] + Total([l \in B |-> u[l] * v[l]], B)
      BY ONLY <3>3, <3>4, ProductsJoined
    <3> QED
      BY ONLY <3>1, <3>2, <3>5, Zenon DEF RemovedSum
  <2> QED
    BY <1>2, <2>2, Zenon
<1>7. AllInt(canon.c, canon.cols) /\ \A i \in canon.rows : AllInt(canon.a[i], canon.cols)
  BY DEF PresolveTypeOK, LinearModel, AllInt
<1>8. ASSUME NEW u, AllInt(u, canon.cols) PROVE RemovedSum(u, v) \in Int /\ u[j] * z \in Int
  <2>1. AllInt([l \in Removed |-> u[l] * v[l]], Removed)
    BY <1>1, <1>2, <1>8 DEF AllInt
  <2>2. IsFiniteSet(Removed)
    BY <1>1, FS_Subset
  <2>3. u[j] \in Int
    BY <1>1, <1>8 DEF AllInt
  <2> QED
    BY <2>1, <2>2, <2>3, TotalType DEF RemovedSum
<1>9. RecordsAgree(w)'
  <2> SUFFICES ASSUME NEW k \in DOMAIN st, st[k].kind \in Gives
               PROVE  st[k].col \in Removed' /\ st[k].value = w[st[k].col]
    BY <1>4 DEF RecordsAgree, Gives
  <2>1. CASE k \in DOMAIN stack /\ st[k] = stack[k]
    BY <1>1, <1>2, <2>1 DEF Accounts, RecordsAgree
  <2>2. CASE \E l \in DOMAIN t : st[k] = t[l]
    BY <1>1, <1>2, <2>2 DEF Records
  <2> QED
    BY <1>3, <2>1, <2>2
<1>10. \A i \in rowActive' : rhs'[i] = canon.b[i] - RemovedSum(canon.a[i], w)'
  <2> SUFFICES ASSUME NEW i \in rowActive' PROVE rhs'[i] = canon.b[i] - RemovedSum(canon.a[i], w)'
    OBVIOUS
  <2> DEFINE p == canon.a[i][j] * z
             s == RemovedSum(canon.a[i], v)
             s1 == RemovedSum(canon.a[i], w)'
  <2>1. i \in rowActive /\ i \in canon.rows /\ canon.b[i] \in Int
    BY DEF PresolveTypeOK, LinearModel
  <2>2. p \in Int /\ s \in Int /\ s1 = p + s
    BY <1>6, <1>7, <1>8, <2>1
  <2>3. rhs'[i] = rhs[i] - p /\ rhs[i] = canon.b[i] - s
    BY <2>1 DEF Accounts, Takes
  <2> HIDE DEF p, s, s1
  <2>4. rhs'[i] = canon.b[i] - s1
    BY <2>1, <2>2, <2>3
  <2> QED
    BY <2>4 DEF s1
<1>11. offset' = canon.offset + RemovedSum(canon.c, w)'
  <2> DEFINE p == canon.c[j] * z
             s == RemovedSum(canon.c, v)
             s1 == RemovedSum(canon.c, w)'
  <2>1. p \in Int /\ s \in Int /\ s1 = p + s /\ canon.offset \in Int
    BY <1>6, <1>7, <1>8 DEF PresolveTypeOK
  <2>2. offset' = offset + p /\ offset = canon.offset + s
    BY DEF Accounts, Takes
  <2> HIDE DEF p, s, s1
  <2>3. offset' = canon.offset + s1
    BY <2>1, <2>2
  <2> QED
    BY <2>3 DEF s1
<1>12. Accounts(w)'
  BY <1>2, <1>9, <1>10, <1>11 DEF Accounts, RemovedSum
<1>13. \A l \in Removed' : Recorded(l)'
  <2> SUFFICES ASSUME NEW l \in Removed' PROVE \E k \in DOMAIN st : st[k].kind \in Gives /\ st[k].col = l
    BY <1>4 DEF Recorded, Gives
  <2>1. CASE l = j
    BY <1>3, <2>1 DEF Records
  <2>2. CASE l \in Removed
    BY <1>3, <2>2 DEF Recorded
  <2> QED
    BY <1>1, <2>1, <2>2
<1> QED
  <2>1. Joined(w, v, j, z)
    BY <1>6 DEF Joined
  <2> QED
    BY <1>3, <1>4, <1>5, <1>12, <1>13, <2>1

\* The rows removed hold exactly at the values recorded, if the quotients the
\* presolve takes are exact.
ExactQuotients ==
  verdict = "open" => \A i \in Singletons : \A j \in RowEntries(i) :
    canon.a[i][j] * Quotient(rhs[i], canon.a[i][j]) = rhs[i]
RowsAccounted(v) == \A i \in canon.rows \ rowActive : canon.b[i] = RemovedSum(canon.a[i], v)
StackBase ==
  /\ stack \in Seq(StackRecord) /\ RowsGone
  /\ \A j \in Removed : Recorded(j)
Carried(v) == \E w : Accounts(w)' /\ (RowsAccounted(v) /\ ExactQuotients => RowsAccounted(w)')

\* A sum over the columns removed is an integer.
LEMMA RemovedSumType ==
  ASSUME PresolveTypeOK, NEW v \in [Removed -> Nat], NEW u, AllInt(u, canon.cols)
  PROVE  RemovedSum(u, v) \in Int
<1>1. IsFiniteSet(Removed) /\ AllInt([l \in Removed |-> u[l] * v[l]], Removed)
  BY FS_Subset DEF PresolveTypeOK, LinearModel, Removed, AllInt
<1> QED
  BY <1>1, TotalType DEF RemovedSum

\* Nothing that the records account for changes.
LEMMA AccountsStay ==
  ASSUME StackBase, NEW v, Accounts(v), UNCHANGED <<canon, keptVars>>
  PROVE  StackBase' /\ Carried(v)
<1>1. StackBase'
  BY DEF StackBase, keptVars, RowsGone, StackRecord, Removed, Recorded
<1>2. Accounts(v)' /\ (RowsAccounted(v) => RowsAccounted(v)')
  BY DEF Accounts, keptVars, RecordsAgree, RemovedSum, Removed, RowsAccounted
<1> QED
  BY <1>1, <1>2 DEF Carried

\* Each removal carries the accounts on: an empty row,
LEMMA EmptyRowAccounts ==
  ASSUME PresolveTypeOK, StackBase, NEW v, Accounts(v), EmptyRow
  PROVE  StackBase' /\ Carried(v)
<1>1. canon' = canon
  BY DEF EmptyRow, Constant
<1>2. PICK i \in Reached(EmptyRows) :
        \/ Conclude("infeasible")
        \/ /\ rhs[i] = 0
           /\ rowActive' = rowActive \ {i}
           /\ stack' = Append(stack, [kind |-> "row", row |-> i])
           /\ UNCHANGED <<colActive, rhs, offset>>
  BY DEF EmptyRow
<1>3. CASE Conclude("infeasible")
  BY <1>1, <1>3, AccountsStay DEF Conclude
<1>4. CASE /\ rhs[i] = 0
           /\ rowActive' = rowActive \ {i}
           /\ stack' = Append(stack, [kind |-> "row", row |-> i])
           /\ UNCHANGED <<colActive, rhs, offset>>
  <2>1. i \in rowActive /\ i \in canon.rows /\ RowEntries(i) = {}
    BY DEF Reached, EmptyRows, PresolveTypeOK
  <2> DEFINE r == [kind |-> "row", row |-> i]
             st == stack \o <<r>>
  <2>2. r \in StackRecord /\ r.kind \notin Gives
    BY <2>1 DEF StackRecord, Gives
  <2>3. stack' = st
    <3>1. stack \in Seq(StackRecord)
      BY DEF StackBase
    <3> QED
      BY <1>4, <2>2, <3>1, AppendIsConcat
  <2>4. <<r>> \in Seq(StackRecord) /\ \A l \in DOMAIN <<r>> : <<r>>[l] = r
    BY <2>2
  <2> HIDE DEF r
  <2>5. /\ st \in Seq(StackRecord)
        /\ \A k \in DOMAIN stack : k \in DOMAIN st /\ st[k] = stack[k]
        /\ \A k \in DOMAIN st : (k \in DOMAIN stack /\ st[k] = stack[k]) \/ st[k] = r
    BY <2>4, ConcatElements DEF StackBase
  <2> HIDE DEF st
  <2>6. Removed' = Removed /\ StackRecord' = StackRecord
    BY <1>1, <1>4 DEF Removed, StackRecord
  <2>7. RowsGone'
    BY <1>1, <1>4, <2>1 DEF StackBase, RowsGone, RowEntries
  <2>8. StackBase'
    BY <2>3, <2>5, <2>6, <2>7 DEF StackBase, Recorded
  <2>9. RecordsAgree(v)'
    BY <2>2, <2>3, <2>5, <2>6 DEF Accounts, RecordsAgree
  <2>10. \A u : RemovedSum(u, v)' = RemovedSum(u, v)
    BY <2>6 DEF RemovedSum
  <2>11. Accounts(v)'
    BY <1>1, <1>4, <2>6, <2>9, <2>10 DEF Accounts
  <2>12. canon.b[i] = RemovedSum(canon.a[i], v)
    <3>1. AllInt(canon.a[i], canon.cols) /\ canon.b[i] \in Int
      BY <2>1 DEF PresolveTypeOK, LinearModel, AllInt
    <3>2. RemovedSum(canon.a[i], v) \in Int
      BY <3>1, RemovedSumType DEF Accounts
    <3>3. 0 = canon.b[i] - RemovedSum(canon.a[i], v)
      BY <1>4, <2>1 DEF Accounts
    <3> QED
      BY <3>1, <3>2, <3>3
  <2>13. RowsAccounted(v) => RowsAccounted(v)'
    BY <1>1, <1>4, <2>10, <2>12 DEF RowsAccounted
  <2> QED
    BY <2>8, <2>11, <2>13 DEF Carried
<1> QED
  BY <1>2, <1>3, <1>4

\* an empty column,
LEMMA EmptyColumnAccounts ==
  ASSUME PresolveTypeOK, StackBase, NEW v, Accounts(v), EmptyColumn
  PROVE  StackBase' /\ Carried(v)
<1>1. canon' = canon
  BY DEF EmptyColumn, Constant
<1>2. PICK j \in Reached(EmptyColumns) :
        \/ Conclude("unbounded")
        \/ /\ colActive' = colActive \ {j}
           /\ stack' = Append(stack, [kind |-> "column", col |-> j, value |-> 0])
           /\ UNCHANGED <<rowActive, rhs, offset>>
  BY DEF EmptyColumn
<1>3. CASE Conclude("unbounded")
  BY <1>1, <1>3, AccountsStay DEF Conclude
<1>4. CASE /\ colActive' = colActive \ {j}
           /\ stack' = Append(stack, [kind |-> "column", col |-> j, value |-> 0])
           /\ UNCHANGED <<rowActive, rhs, offset>>
  <2>1. j \in colActive /\ j \in canon.cols /\ ColEntries(j) = {}
    BY DEF Reached, EmptyColumns, PresolveTypeOK
  <2> DEFINE r == [kind |-> "column", col |-> j, value |-> 0]
  <2>2. r \in StackRecord /\ r.kind \in Gives /\ r.col = j /\ r.value = 0
    BY <2>1 DEF StackRecord, Gives
  <2>3. stack' = stack \o <<r>>
    <3>1. stack \in Seq(StackRecord)
      BY DEF StackBase
    <3> QED
      BY <1>4, <2>2, <3>1, AppendIsConcat
  <2>4. <<r>> \in Seq(StackRecord) /\ Records(<<r>>, j, 0)
    BY <2>2 DEF Records
  <2>5. Takes(j, 0)
    BY <1>4, <2>1 DEF Takes, PresolveTypeOK, LinearModel
  <2>6. stack \in Seq(StackRecord) /\ \A l \in Removed : Recorded(l)
    BY DEF StackBase
  <2> HIDE DEF r
  <2>7. /\ stack' \in Seq(StackRecord)'
        /\ \A l \in Removed' : Recorded(l)'
        /\ \E w : Accounts(w)' /\ Joined(w, v, j, 0)
    <3>1. PICK t : t = <<r>>
      OBVIOUS
    <3>2. t \in Seq(StackRecord) /\ Records(t, j, 0) /\ stack' = stack \o t
      BY <2>3, <2>4, <3>1
    <3>3. rowActive' \subseteq rowActive /\ colActive' = colActive \ {j} /\ 0 \in Nat
      BY <1>4
    <3> QED
      BY <1>1, <2>1, <2>5, <2>6, <3>2, <3>3, ColumnRecorded
  <2>8. RowsGone'
    BY <1>1, <1>4 DEF StackBase, RowsGone
  <2>9. PICK w : Accounts(w)' /\ Joined(w, v, j, 0)
    BY <2>7
  <2>10. RowsAccounted(v) => RowsAccounted(w)'
    <3> SUFFICES ASSUME RowsAccounted(v), NEW i \in canon.rows \ rowActive
                 PROVE  canon.b[i] = RemovedSum(canon.a[i], w)'
      BY <1>1, <1>4 DEF RowsAccounted
    <3>1. AllInt(canon.a[i], canon.cols) /\ canon.a[i][j] \in Int
      BY <2>1 DEF PresolveTypeOK, LinearModel, AllInt
    <3>2. RemovedSum(canon.a[i], w)' = canon.a[i][j] * 0 + RemovedSum(canon.a[i], v)
      BY <1>1, <2>9, <3>1 DEF Joined
    <3>3. RemovedSum(canon.a[i], v) \in Int /\ canon.b[i] = RemovedSum(canon.a[i], v)
      BY <3>1, RemovedSumType DEF Accounts, RowsAccounted
    <3> QED
      BY <3>1, <3>2, <3>3
  <2> QED
    BY <2>7, <2>8, <2>9, <2>10 DEF Carried, StackBase
<1> QED
  BY <1>2, <1>3, <1>4

\* What a singleton row takes from the right-hand sides.
LEMMA SingletonTakes ==
  ASSUME PresolveTypeOK, NEW i \in rowActive, NEW j \in colActive, NEW z \in Int,
         rowActive' = rowActive \ {i}, rhs' = Substituted(i, j, z), offset' = offset + canon.c[j] * z
  PROVE  Takes(j, z)
<1>1. \A r \in rowActive' : rhs'[r] = rhs[r] - canon.a[r][j] * z
  <2> SUFFICES ASSUME NEW r \in rowActive \ {i} PROVE rhs'[r] = rhs[r] - canon.a[r][j] * z
    OBVIOUS
  <2>1. r \in canon.rows /\ rhs[r] \in Int /\ canon.a[r][j] \in Int
    BY DEF PresolveTypeOK, LinearModel
  <2>2. CASE canon.a[r][j] = 0
    BY <2>1, <2>2 DEF Substituted, ColEntries
  <2>3. CASE canon.a[r][j] # 0
    BY <2>1, <2>3 DEF Substituted, ColEntries
  <2> QED
    BY <2>2, <2>3
<1> QED
  BY <1>1 DEF Takes

\* a row with one entry.
LEMMA RowSingletonAccounts ==
  ASSUME PresolveTypeOK, StackBase, NEW v, Accounts(v), RowSingleton
  PROVE  StackBase' /\ Carried(v)
<1>1. canon' = canon /\ verdict = "open"
  BY DEF RowSingleton, Constant
<1>2. PICK i \in Reached(Singletons) : \E j \in RowEntries(i) :
        LET value == Quotient(rhs[i], canon.a[i][j])
        IN  \/ Conclude("infeasible")
            \/ /\ value >= 0
               /\ stack' = stack \o <<[kind |-> "singleton", row |-> i, col |-> j],
                                      [kind |-> "fixed", col |-> j, value |-> value]>>
               /\ rowActive' = rowActive \ {i} /\ colActive' = colActive \ {j}
               /\ rhs' = Substituted(i, j, value)
               /\ offset' = offset + canon.c[j] * value
  BY DEF RowSingleton
<1>3. PICK j \in RowEntries(i) :
        LET value == Quotient(rhs[i], canon.a[i][j])
        IN  \/ Conclude("infeasible")
            \/ /\ value >= 0
               /\ stack' = stack \o <<[kind |-> "singleton", row |-> i, col |-> j],
                                      [kind |-> "fixed", col |-> j, value |-> value]>>
               /\ rowActive' = rowActive \ {i} /\ colActive' = colActive \ {j}
               /\ rhs' = Substituted(i, j, value)
               /\ offset' = offset + canon.c[j] * value
  BY <1>2
<1>4. PICK z : z = Quotient(rhs[i], canon.a[i][j])
  OBVIOUS
<1>5. /\ i \in rowActive /\ i \in canon.rows /\ i \in Singletons /\ Cardinality(RowEntries(i)) = 1
      /\ j \in colActive /\ j \in canon.cols /\ canon.a[i][j] # 0
  BY DEF Reached, Singletons, RowEntries, PresolveTypeOK
<1>6. z \in Int
  BY <1>4, <1>5, QuotientType DEF PresolveTypeOK, LinearModel
<1>7. CASE Conclude("infeasible")
  BY <1>1, <1>7, AccountsStay DEF Conclude
<1>8. CASE /\ z >= 0
           /\ stack' = stack \o <<[kind |-> "singleton", row |-> i, col |-> j],
                                  [kind |-> "fixed", col |-> j, value |-> z]>>
           /\ rowActive' = rowActive \ {i} /\ colActive' = colActive \ {j}
           /\ rhs' = Substituted(i, j, z)
           /\ offset' = offset + canon.c[j] * z
  <2>1. PICK t : t = <<[kind |-> "singleton", row |-> i, col |-> j], [kind |-> "fixed", col |-> j, value |-> z]>>
    OBVIOUS
  <2>2. z \in Nat
    BY <1>6, <1>8
  <2>3. t \in Seq(StackRecord) /\ Records(t, j, z)
    <3>1. /\ [kind |-> "singleton", row |-> i, col |-> j] \in StackRecord
          /\ [kind |-> "fixed", col |-> j, value |-> z] \in StackRecord
      BY <1>5, <2>2 DEF StackRecord, Gives
    <3>2. t \in Seq(StackRecord)
      BY <2>1, <3>1
    <3>3. DOMAIN t = {1, 2} /\ t[1].kind = "singleton" /\ t[2].kind = "fixed" /\ t[2].col = j /\ t[2].value = z
      BY <2>1
    <3> QED
      BY <3>2, <3>3 DEF Records, Gives
  <2>4. stack' = stack \o t
    BY <1>8, <2>1
  <2>5. Takes(j, z)
    BY <1>5, <1>6, <1>8, SingletonTakes
  <2>6. stack \in Seq(StackRecord) /\ \A l \in Removed : Recorded(l)
    BY DEF StackBase
  <2>7. rowActive' \subseteq rowActive /\ colActive' = colActive \ {j}
    BY <1>8
  <2>8. /\ stack' \in Seq(StackRecord)'
        /\ \A l \in Removed' : Recorded(l)'
        /\ \E w : Accounts(w)' /\ Joined(w, v, j, z)
    BY <1>1, <1>5, <2>2, <2>3, <2>4, <2>5, <2>6, <2>7, ColumnRecorded
  <2>9. PICK w : Accounts(w)' /\ Joined(w, v, j, z)
    BY <2>8
  <2>10. RowEntries(i) = {j}
    <3>1. [k \in canon.cols |-> 0] \in [canon.cols -> Int]
      OBVIOUS
    <3> QED
      BY <1>5, <3>1, SingletonRow
  <2>11. RowsGone'
    BY <1>1, <1>8, <2>10 DEF StackBase, RowsGone, RowEntries
  <2>12. ASSUME RowsAccounted(v), ExactQuotients, NEW r \in canon.rows \ rowActive'
         PROVE  canon.b[r] = RemovedSum(canon.a[r], w)'
    <3> DEFINE s == RemovedSum(canon.a[r], v)
    <3>1. AllInt(canon.a[r], canon.cols) /\ canon.a[r][j] \in Int /\ canon.b[r] \in Int /\ rhs[r] \in Int
      BY <1>5 DEF PresolveTypeOK, LinearModel, AllInt
    <3>2. RemovedSum(canon.a[r], w)' = canon.a[r][j] * z + s
      BY <1>1, <2>9, <3>1 DEF Joined
    <3>3. s \in Int
      BY <3>1, RemovedSumType DEF Accounts
    <3>4. CASE r = i
      <4>1. canon.a[i][j] * z = rhs[i]
        BY <1>1, <1>4, <1>5, <2>12 DEF ExactQuotients
      <4>2. rhs[i] = canon.b[i] - s
        BY <1>5, <3>4 DEF Accounts
      <4> HIDE DEF s
      <4>3. canon.b[r] = canon.a[r][j] * z + s
        BY <3>1, <3>3, <3>4, <4>1, <4>2
      <4> QED
        BY <3>2, <4>3
    <3>5. CASE r # i
      <4>1. r \in canon.rows \ rowActive
        BY <1>8, <3>5
      <4>2. canon.a[r][j] = 0
        BY <1>5, <4>1 DEF StackBase, RowsGone
      <4>3. canon.b[r] = s
        BY <2>12, <4>1 DEF RowsAccounted
      <4> HIDE DEF s
      <4> QED
        BY <1>6, <3>2, <3>3, <4>2, <4>3
    <3> QED
      BY <3>4, <3>5
  <2>13. RowsAccounted(v) /\ ExactQuotients => RowsAccounted(w)'
    BY <1>1, <2>12 DEF RowsAccounted
  <2> QED
    BY <2>8, <2>9, <2>11, <2>13 DEF Carried, StackBase
<1> QED
  BY <1>3, <1>4, <1>7, <1>8

\* Every step of presolve keeps the accounts of the stack.
LEMMA PresolveAccounts ==
  ASSUME PresolveTypeOK, StackBase, NEW v, Accounts(v), PresolveStep
  PROVE  StackBase' /\ Carried(v)
<1>1. ASSUME NEW from, NEW to, NEW open, NextScan(from, to, open) PROVE StackBase' /\ Carried(v)
  BY <1>1, AccountsStay DEF NextScan, Constant
<1>2. CASE NextPass
  BY <1>2, AccountsStay DEF NextPass, Constant
<1> QED
  BY <1>1, <1>2, EmptyRowAccounts, EmptyColumnAccounts, RowSingletonAccounts DEF PresolveStep

\* At the start the stack is empty and accounts for nothing.
LEMMA AccountsStart ==
  ASSUME NEW m, LinearModel(m), m.offset \in Int, PresolveInit(m)
  PROVE  StackBase /\ \E v : Accounts(v) /\ RowsAccounted(v)
<1>1. Removed = {} /\ rowActive = canon.rows /\ rhs = canon.b /\ offset = canon.offset /\ canon = m /\ stack = <<>>
  BY DEF PresolveInit, Removed
<1>2. StackBase
  BY <1>1 DEF StackBase, RowsGone
<1>3. PICK v : v = [j \in {} |-> 0]
  OBVIOUS
<1>4. \A u : RemovedSum(u, v) = 0
  BY <1>1, TotalEmpty, Zenon DEF RemovedSum
<1>5. Accounts(v) /\ RowsAccounted(v)
  BY <1>1, <1>3, <1>4 DEF Accounts, RecordsAgree, RowsAccounted, LinearModel
<1> QED
  BY <1>2, <1>5

-----------------------------------------------------------------------------
\* Scaling, and what the simplex methods leave.
\* The factors equilibrate ends with lie within its limits, so that clamping
\* changes none of them.
InRange(m, r, k) ==
  /\ \A i \in m.rows : r[i] \in MinScale .. MaxScale
  /\ \A j \in m.cols : k[j] \in MinScale .. MaxScale

\* Then every part of the model is scaled by the same factors.
LEMMA EquilibratedFields ==
  ASSUME NEW m, ModelRecord(m), LinearModel(m), NEW r, NEW k, InRange(m, r, k)
  PROVE  LET e == Equilibrated(m, r, k)
         IN  /\ e.rows = m.rows /\ e.cols = m.cols /\ e.offset = m.offset
             /\ \A i \in m.rows : r[i] \in Nat \ {0} /\ Clamp(r[i]) = r[i] /\ e.b[i] = r[i] * m.b[i]
             /\ \A j \in m.cols : k[j] \in Nat \ {0} /\ Clamp(k[j]) = k[j] /\ e.c[j] = k[j] * m.c[j]
             /\ \A i \in m.rows, j \in m.cols : e.a[i][j] = r[i] * m.a[i][j] * k[j]
             /\ ModelRecord(e) /\ LinearModel(e)
<1> DEFINE aa == [i \in DOMAIN m.a |-> [j \in DOMAIN m.a[i] |-> r[i] * m.a[i][j] * k[j]]]
           bb == [i \in DOMAIN m.b |-> Clamp(r[i]) * m.b[i]]
           cc == [j \in DOMAIN m.c |-> Clamp(k[j]) * m.c[j]]
           e == Equilibrated(m, r, k)
<1>1. e = [m EXCEPT !.a = aa, !.b = bb, !.c = cc]
  BY DEF Equilibrated
<1>2. (\A i \in m.rows : r[i] \in Nat \ {0} /\ Clamp(r[i]) = r[i]) /\ (\A j \in m.cols : k[j] \in Nat \ {0} /\ Clamp(k[j]) = k[j])
  BY ScaleRange DEF InRange, Clamp
<1>3. \A i \in m.rows : bb[i] = r[i] * m.b[i]
  BY <1>2 DEF ModelRecord
<1>4. \A j \in m.cols : cc[j] = k[j] * m.c[j]
  BY <1>2 DEF ModelRecord
<1>5. \A i \in m.rows, j \in m.cols : aa[i][j] = r[i] * m.a[i][j] * k[j]
  BY DEF ModelRecord
<1>6. m.rows \subseteq DOMAIN aa /\ m.rows \subseteq DOMAIN bb /\ m.cols \subseteq DOMAIN cc /\ \A i \in m.rows : m.cols \subseteq DOMAIN aa[i]
  BY DEF ModelRecord
<1> HIDE DEF aa, bb, cc, e
<1>7. /\ e.rows = m.rows /\ e.cols = m.cols /\ e.offset = m.offset
      /\ e.a = aa /\ e.b = bb /\ e.c = cc /\ DOMAIN e = DOMAIN m
  BY <1>1 DEF ModelRecord
<1>8. ModelRecord(e)
  BY <1>6, <1>7 DEF ModelRecord
<1>9. LinearModel(e)
  <2>1. ASSUME NEW i \in m.rows PROVE e.b[i] \in Int /\ \A j \in m.cols : e.a[i][j] \in Int
    BY <1>2, <1>3, <1>5, <1>7 DEF LinearModel
  <2>2. ASSUME NEW j \in m.cols PROVE e.c[j] \in Int
    BY <1>2, <1>4, <1>7 DEF LinearModel
  <2>3. IsFiniteSet(e.rows) /\ IsFiniteSet(e.cols) /\ e.rows = m.rows /\ e.cols = m.cols
    BY <1>7 DEF LinearModel
  <2> QED
    BY <2>1, <2>2, <2>3 DEF LinearModel
<1> QED
  BY <1>2, <1>3, <1>4, <1>5, <1>7, <1>8, <1>9 DEF e

\* Sums of the scaled model are sums of the model at the unscaled vectors.
LEMMA EquilibratedSums ==
  ASSUME NEW m, ModelRecord(m), LinearModel(m), NEW r, NEW k, InRange(m, r, k),
         NEW x \in [m.cols -> Int], NEW y \in [m.rows -> Int]
  PROVE  LET e == Equilibrated(m, r, k) u == Unscaled(x, k) v == Unscaled(y, r)
         IN  /\ u \in [m.cols -> Int] /\ v \in [m.rows -> Int]
             /\ \A j \in m.cols : u[j] = k[j] * x[j]
             /\ \A i \in m.rows : RowValue(e, i, x) = r[i] * RowValue(m, i, u) /\ RowValue(m, i, u) \in Int
             /\ \A j \in m.cols : ColumnValue(e, j, y) = k[j] * ColumnValue(m, j, v) /\ ColumnValue(m, j, v) \in Int
             /\ CostOf(e, x) = CostOf(m, u) /\ RhsOf(e, y) = RhsOf(m, v)
<1> DEFINE e == Equilibrated(m, r, k)
           u == Unscaled(x, k)
           v == Unscaled(y, r)
<1>1. /\ e.rows = m.rows /\ e.cols = m.cols
      /\ \A i \in m.rows : r[i] \in Int /\ Clamp(r[i]) = r[i] /\ e.b[i] = r[i] * m.b[i]
      /\ \A j \in m.cols : k[j] \in Int /\ Clamp(k[j]) = k[j] /\ e.c[j] = k[j] * m.c[j]
      /\ \A i \in m.rows, j \in m.cols : e.a[i][j] = r[i] * m.a[i][j] * k[j]
  BY EquilibratedFields
<1>2. u = [j \in m.cols |-> Clamp(k[j]) * x[j]] /\ v = [i \in m.rows |-> Clamp(r[i]) * y[i]]
  BY DEF Unscaled
<1>3. u \in [m.cols -> Int] /\ \A j \in m.cols : u[j] = k[j] * x[j]
  <2>1. \A j \in m.cols : Clamp(k[j]) * x[j] \in Int /\ Clamp(k[j]) * x[j] = k[j] * x[j]
    BY <1>1
  <2> QED
    BY <1>2, <2>1
<1>4. v \in [m.rows -> Int] /\ \A i \in m.rows : v[i] = r[i] * y[i]
  <2>1. \A i \in m.rows : Clamp(r[i]) * y[i] \in Int /\ Clamp(r[i]) * y[i] = r[i] * y[i]
    BY <1>1
  <2> QED
    BY <1>2, <2>1
<1> HIDE DEF e, u, v
<1>5. IsFiniteSet(m.rows) /\ IsFiniteSet(m.cols)
  BY DEF LinearModel
<1>6. ASSUME NEW i \in m.rows PROVE RowValue(e, i, x) = r[i] * RowValue(m, i, u) /\ RowValue(m, i, u) \in Int
  <2> DEFINE f == [j \in m.cols |-> m.a[i][j] * u[j]]
             g == [j \in m.cols |-> e.a[i][j] * x[j]]
  <2>1. ASSUME NEW j \in m.cols PROVE f[j] \in Int /\ g[j] = r[i] * f[j]
    <3>1. m.a[i][j] \in Int /\ x[j] \in Int /\ k[j] \in Int /\ r[i] \in Int /\ u[j] = k[j] * x[j]
      BY <1>1, <1>3 DEF LinearModel
    <3> DEFINE q == m.a[i][j]
    <3>2. f[j] = q * (k[j] * x[j]) /\ g[j] = (r[i] * q * k[j]) * x[j] /\ q \in Int
      BY <1>1, <3>1
    <3> HIDE DEF f, g, q
    <3>3. (r[i] * q * k[j]) * x[j] = r[i] * (q * (k[j] * x[j])) /\ q * (k[j] * x[j]) \in Int
      BY <3>1, <3>2
    <3> QED
      BY <3>2, <3>3
  <2>2. RowValue(m, i, u) = Total(f, m.cols) /\ RowValue(e, i, x) = Total(g, m.cols)
    BY <1>1 DEF RowValue
  <2>3. AllInt(f, m.cols) /\ (\A j \in m.cols : g[j] = r[i] * f[j]) /\ r[i] \in Int
    BY <1>1, <2>1 DEF AllInt
  <2> HIDE DEF f, g
  <2>4. Total(g, m.cols) = r[i] * Total(f, m.cols) /\ Total(f, m.cols) \in Int
    BY <1>5, <2>3, TotalMultiple, TotalType
  <2> QED
    BY <2>2, <2>4
<1>7. ASSUME NEW j \in m.cols PROVE ColumnValue(e, j, y) = k[j] * ColumnValue(m, j, v) /\ ColumnValue(m, j, v) \in Int
  <2> DEFINE f == [i \in m.rows |-> m.a[i][j] * v[i]]
             g == [i \in m.rows |-> e.a[i][j] * y[i]]
  <2>1. ASSUME NEW i \in m.rows PROVE f[i] \in Int /\ g[i] = k[j] * f[i]
    <3>1. m.a[i][j] \in Int /\ y[i] \in Int /\ k[j] \in Int /\ r[i] \in Int /\ v[i] = r[i] * y[i]
      BY <1>1, <1>4 DEF LinearModel
    <3> DEFINE q == m.a[i][j]
    <3>2. f[i] = q * (r[i] * y[i]) /\ g[i] = (r[i] * q * k[j]) * y[i] /\ q \in Int
      BY <1>1, <3>1
    <3> HIDE DEF f, g, q
    <3>3. (r[i] * q * k[j]) * y[i] = k[j] * (q * (r[i] * y[i])) /\ q * (r[i] * y[i]) \in Int
      BY <3>1, <3>2
    <3> QED
      BY <3>2, <3>3
  <2>2. ColumnValue(m, j, v) = Total(f, m.rows) /\ ColumnValue(e, j, y) = Total(g, m.rows)
    BY <1>1 DEF ColumnValue
  <2>3. AllInt(f, m.rows) /\ (\A i \in m.rows : g[i] = k[j] * f[i]) /\ k[j] \in Int
    BY <1>1, <2>1 DEF AllInt
  <2> HIDE DEF f, g
  <2>4. Total(g, m.rows) = k[j] * Total(f, m.rows) /\ Total(f, m.rows) \in Int
    BY <1>5, <2>3, TotalMultiple, TotalType
  <2> QED
    BY <2>2, <2>4
<1>8. CostOf(e, x) = CostOf(m, u)
  <2>1. ASSUME NEW j \in m.cols PROVE e.c[j] * x[j] = m.c[j] * u[j]
    <3>1. e.c[j] = k[j] * m.c[j] /\ u[j] = k[j] * x[j] /\ k[j] \in Int /\ x[j] \in Int /\ m.c[j] \in Int
      BY <1>1, <1>3 DEF LinearModel
    <3> QED
      BY <3>1
  <2>2. [j \in m.cols |-> e.c[j] * x[j]] = [j \in m.cols |-> m.c[j] * u[j]]
    BY <2>1
  <2> QED
    BY <1>1, <2>2, Zenon DEF CostOf
<1>9. RhsOf(e, y) = RhsOf(m, v)
  <2>1. ASSUME NEW i \in m.rows PROVE e.b[i] * y[i] = m.b[i] * v[i]
    <3>1. e.b[i] = r[i] * m.b[i] /\ v[i] = r[i] * y[i] /\ r[i] \in Int /\ y[i] \in Int /\ m.b[i] \in Int
      BY <1>1, <1>4 DEF LinearModel
    <3> QED
      BY <3>1
  <2>2. [i \in m.rows |-> e.b[i] * y[i]] = [i \in m.rows |-> m.b[i] * v[i]]
    BY <2>1
  <2> QED
    BY <1>1, <2>2, Zenon DEF RhsOf
<1> QED
  BY <1>3, <1>4, <1>6, <1>7, <1>8, <1>9 DEF e, u, v

\* A positive factor cancels.
LEMMA Cancelled ==
  ASSUME NEW k \in Nat \ {0}, NEW a \in Int, NEW b \in Int
  PROVE  (k * a = k * b => a = b) /\ (k * a >= 0 => a >= 0) /\ (k * a <= 0 => a <= 0)
<1>1. k * (a - b) = 0 => a - b = 0
  OBVIOUS
<1>2. k * a - k * b = k * (a - b)
  OBVIOUS
<1>3. k * a = k * b => k * (a - b) = 0
  BY <1>2
<1>4. k * a >= 0 => a >= 0
  OBVIOUS
<1>5. k * a <= 0 => a <= 0
  OBVIOUS
<1> QED
  BY <1>1, <1>3, <1>4, <1>5

\* A witness of an optimum of the scaled model, unscaled, is one of the model.
THEOREM OptimumUnscales ==
  ASSUME NEW m, ModelRecord(m), LinearModel(m), NEW r, NEW k, InRange(m, r, k),
         NEW d \in Nat \ {0}, NEW x, NEW y, OptimalWitness(Scaled(Equilibrated(m, r, k), d), x, y)
  PROVE  OptimalWitness(Scaled(m, d), Unscaled(x, k), Unscaled(y, r))
<1> DEFINE e == Equilibrated(m, r, k)
           u == Unscaled(x, k)
           v == Unscaled(y, r)
           E == Scaled(e, d)
           M == Scaled(m, d)
<1>1. /\ e.rows = m.rows /\ e.cols = m.cols
      /\ \A i \in m.rows : r[i] \in Nat \ {0} /\ e.b[i] = r[i] * m.b[i]
      /\ \A j \in m.cols : k[j] \in Nat \ {0} /\ e.c[j] = k[j] * m.c[j]
      /\ ModelRecord(e) /\ LinearModel(e)
  BY EquilibratedFields
<1>2. /\ E.rows = m.rows /\ E.cols = m.cols
      /\ \A i \in m.rows : E.b[i] = d * e.b[i]
      /\ \A j \in m.cols : E.c[j] = d * e.c[j]
  BY <1>1, ScaledFields
<1>3. /\ M.rows = m.rows /\ M.cols = m.cols
      /\ \A i \in m.rows : M.b[i] = d * m.b[i]
      /\ \A j \in m.cols : M.c[j] = d * m.c[j]
  BY ScaledFields
<1>4. x \in [m.cols -> Int] /\ y \in [m.rows -> Int]
  BY <1>2 DEF OptimalWitness, ForColumns, ForRows
<1>5. /\ u \in [m.cols -> Int] /\ v \in [m.rows -> Int]
      /\ \A j \in m.cols : u[j] = k[j] * x[j]
      /\ \A i \in m.rows : RowValue(e, i, x) = r[i] * RowValue(m, i, u) /\ RowValue(m, i, u) \in Int
      /\ \A j \in m.cols : ColumnValue(e, j, y) = k[j] * ColumnValue(m, j, v) /\ ColumnValue(m, j, v) \in Int
      /\ CostOf(e, x) = CostOf(m, u) /\ RhsOf(e, y) = RhsOf(m, v)
  BY <1>4, EquilibratedSums
<1>6. ColumnVector(e, x) /\ RowVector(e, y) /\ ColumnVector(m, u) /\ RowVector(m, v)
  BY <1>1, <1>4, <1>5 DEF ColumnVector, RowVector, AllInt
<1>7. /\ \A i \in m.rows : RowValue(E, i, x) = RowValue(e, i, x)
      /\ \A j \in m.cols : ColumnValue(E, j, y) = ColumnValue(e, j, y)
      /\ CostOf(E, x) = d * CostOf(e, x) /\ RhsOf(E, y) = d * RhsOf(e, y)
  BY <1>1, <1>6, ScaledSums
<1>8. /\ \A i \in m.rows : RowValue(M, i, u) = RowValue(m, i, u)
      /\ \A j \in m.cols : ColumnValue(M, j, v) = ColumnValue(m, j, v)
      /\ CostOf(M, u) = d * CostOf(m, u) /\ RhsOf(M, v) = d * RhsOf(m, v)
  BY <1>6, ScaledSums
<1>9. PrimalFeasible(E, x) /\ DualFeasible(E, y) /\ Complementary(E, x, y) /\ CostOf(E, x) = RhsOf(E, y)
  BY DEF OptimalWitness
<1>10. LinearModel(m)
  OBVIOUS
<1> HIDE DEF e, u, v, E, M
<1>11. ASSUME NEW i \in m.rows PROVE RowValue(M, i, u) = M.b[i]
  <2>1. RowValue(E, i, x) = E.b[i]
    BY <1>2, <1>9 DEF PrimalFeasible, RowsHold
  <2> DEFINE q == RowValue(m, i, u)
             b == m.b[i]
  <2>2. r[i] * q = d * (r[i] * b)
    BY <1>1, <1>2, <1>5, <1>7, <2>1
  <2>3. q \in Int /\ b \in Int /\ r[i] \in Nat \ {0}
    BY <1>1, <1>5, <1>10 DEF LinearModel
  <2>4. M.b[i] = d * b /\ RowValue(M, i, u) = q
    BY <1>3, <1>8
  <2> HIDE DEF q, b
  <2>5. r[i] * q = r[i] * (d * b) /\ d * b \in Int
    BY <2>2, <2>3
  <2>6. q = d * b
    BY <2>3, <2>5, Cancelled
  <2> QED
    BY <2>4, <2>6
<1>12. ASSUME NEW j \in m.cols PROVE u[j] >= 0 /\ ReducedCost(M, j, v) >= 0 /\ u[j] * ReducedCost(M, j, v) = 0
  <2>1. x[j] >= 0 /\ ReducedCost(E, j, y) >= 0 /\ x[j] * ReducedCost(E, j, y) = 0
    BY <1>2, <1>9 DEF PrimalFeasible, Nonnegative, DualFeasible, Complementary
  <2> DEFINE q == ColumnValue(m, j, v)
             c == m.c[j]
             z == d * c - q
             xj == x[j]
             kj == k[j]
  <2>2. ReducedCost(E, j, y) = d * (kj * c) - kj * q
    BY <1>1, <1>2, <1>5, <1>7 DEF ReducedCost
  <2>3. q \in Int /\ c \in Int /\ kj \in Nat \ {0} /\ xj \in Int
    BY <1>1, <1>4, <1>5, <1>10 DEF LinearModel
  <2>4. ReducedCost(M, j, v) = z /\ u[j] = kj * xj
    BY <1>3, <1>5, <1>8 DEF ReducedCost
  <2>5. xj >= 0 /\ ReducedCost(E, j, y) >= 0 /\ xj * ReducedCost(E, j, y) = 0
    BY <2>1
  <2> HIDE DEF q, c, xj, kj
  <2>6. z \in Int /\ d * (kj * c) - kj * q = kj * z
    BY <2>3
  <2> HIDE DEF z
  <2>7. z >= 0
    BY <2>2, <2>3, <2>5, <2>6, Cancelled
  <2>8. kj * xj >= 0 /\ (kj * xj) * z = xj * (kj * z)
    BY <2>3, <2>5, <2>6
  <2> QED
    BY <2>2, <2>4, <2>5, <2>6, <2>7, <2>8
<1>13. CostOf(M, u) = RhsOf(M, v)
  BY <1>5, <1>7, <1>8, <1>9
<1>14. ForColumns(M, u) /\ ForRows(M, v)
  BY <1>3, <1>5 DEF ForColumns, ForRows
<1>15. OptimalWitness(M, u, v)
  BY <1>3, <1>11, <1>12, <1>13, <1>14
     DEF OptimalWitness, PrimalFeasible, Nonnegative, RowsHold, DualFeasible, Complementary
<1> QED
  BY <1>15 DEF M, u, v

\* Nor does scaling create or hide infeasibility.
THEOREM FarkasUnscales ==
  ASSUME NEW m, ModelRecord(m), LinearModel(m), NEW r, NEW k, InRange(m, r, k),
         NEW y, FarkasWitness(Equilibrated(m, r, k), y)
  PROVE  FarkasWitness(m, Unscaled(y, r))
<1> DEFINE e == Equilibrated(m, r, k)
           v == Unscaled(y, r)
<1>1. PICK x : x = [j \in m.cols |-> 0]
  OBVIOUS
<1>2. e.rows = m.rows /\ e.cols = m.cols /\ \A j \in m.cols : k[j] \in Nat \ {0}
  BY EquilibratedFields
<1>3. x \in [m.cols -> Int] /\ y \in [m.rows -> Int]
  BY <1>1, <1>2 DEF FarkasWitness, ForRows
<1>4. /\ v \in [m.rows -> Int]
      /\ \A j \in m.cols : ColumnValue(e, j, y) = k[j] * ColumnValue(m, j, v) /\ ColumnValue(m, j, v) \in Int
      /\ RhsOf(e, y) = RhsOf(m, v)
  BY <1>3, EquilibratedSums
<1>5. (\A j \in m.cols : ColumnValue(e, j, y) <= 0) /\ RhsOf(e, y) > 0
  BY <1>2 DEF FarkasWitness
<1> HIDE DEF e, v
<1>6. ASSUME NEW j \in m.cols PROVE ColumnValue(m, j, v) <= 0
  BY <1>2, <1>4, <1>5, Cancelled
<1> QED
  BY <1>4, <1>5, <1>6 DEF FarkasWitness, ForRows, v

-----------------------------------------------------------------------------
\* What certify lets through, as a statement about a model and an answer.
AcceptedFor(m, a) ==
  /\ a.status = "optimal" => a.den \in Nat \ {0} /\ OptimalWitness(Scaled(m, a.den), a.primal, a.dual)
  /\ a.status = "infeasible" => FarkasWitness(m, a.certificate)
AnswerInv == stage = "done" /\ answer.status \in Ends => AcceptedFor(lp, answer)

\* certify lets an answer through or turns it into a failure,
LEMMA CertifiedOrFailed ==
  ASSUME NEW a, a.status \in Ends, Certify(a) PROVE AnswerInv' /\ lp' = lp
<1>1. CASE Accepted(a) /\ Finish(a)
  <2>1. AcceptedFor(lp, a)
    BY <1>1 DEF Accepted, AcceptedFor, Ends
  <2> QED
    BY <1>1, <2>1 DEF Finish, AnswerInv
<1>2. CASE Fail("numerical_failure", "witness rejected")
  BY <1>2 DEF Fail, Finish, NoAnswer, AnswerInv, Ends
<1> QED
  BY <1>1, <1>2 DEF Certify

\* a failure says nothing,
LEMMA FailedSays ==
  ASSUME NEW s, s \notin Ends, NEW w, Fail(s, w) PROVE AnswerInv' /\ lp' = lp
  BY DEF Fail, Finish, NoAnswer, AnswerInv

\* and a pivot gives no answer.
LEMMA PivotGoesOn ==
  ASSUME stage # "done", NEW p, NEW j, Pivot(p, j) PROVE AnswerInv' /\ lp' = lp
  BY DEF Pivot, AnswerInv

\* The answers a simplex method certifies end it.
LEMMA AnswersEnd ==
  ASSUME NEW x, NEW y, NEW d, NEW j, NEW pi
  PROVE  Optimal(x, y).status \in Ends /\ Infeasible(y).status \in Ends
         /\ Unbounded(x, d, j).status \in Ends /\ Farkas(pi).status \in Ends
  BY DEF Optimal, Infeasible, Unbounded, Farkas, NoAnswer, Ends

\* The primal method ends with an answer certify accepted or with a failure.
LEMMA PrimalAccepts == ASSUME PrimalStep PROVE AnswerInv' /\ lp' = lp
<1>1. CASE Start
  BY <1>1 DEF Start, AnswerInv
<1>2. CASE Iterate
  <2>1. PICK x \in {Ftran(WorkRhs)}, y \in {Btran(BasicCosts)} :
          \/ /\ Improving(y) = {}
             /\ \/ stage = "one" /\ PhaseOneEnds(x, y)
                \/ stage = "two" /\ Certify(Optimal(x, y))
          \/ /\ Improving(y) # {}
             /\ LET j == Entering(y)
                    d == Ftran(WorkColumn(j))
                IN  \/ Blocking(d) = {} /\ NoRowBlocks(x, d, j)
                    \/ Blocking(d) # {} /\ Pivot(Leaving(x, d), j)
    BY <1>2 DEF Iterate
  <2>2. CASE stage = "one" /\ PhaseOneEnds(x, y)
    <3>1. CASE Certify(Infeasible(y))
      <4>1. PICK a : a = Infeasible(y)
        OBVIOUS
      <4>2. a.status \in Ends /\ Certify(a)
        BY <3>1, <4>1, AnswersEnd
      <4> QED
        BY <4>2, CertifiedOrFailed
    <3>2. CASE stage' = "clean" /\ UNCHANGED lp
      BY <3>2 DEF AnswerInv
    <3> QED
      BY <2>2, <3>1, <3>2 DEF PhaseOneEnds
  <2>3. CASE Certify(Optimal(x, y))
    <3>1. PICK a : a = Optimal(x, y)
      OBVIOUS
    <3>2. a.status \in Ends /\ Certify(a)
      BY <2>3, <3>1, AnswersEnd
    <3> QED
      BY <3>2, CertifiedOrFailed
  <2>4. ASSUME NEW d, NEW j, NoRowBlocks(x, d, j) PROVE AnswerInv' /\ lp' = lp
    <3>1. CASE Fail("numerical_failure", "phase I failed")
      BY <3>1, FailedSays DEF Ends
    <3>2. CASE Certify(Unbounded(x, d, j))
      <4>1. PICK a : a = Unbounded(x, d, j)
        OBVIOUS
      <4>2. a.status \in Ends /\ Certify(a)
        BY <3>2, <4>1, AnswersEnd
      <4> QED
        BY <4>2, CertifiedOrFailed
    <3> QED
      BY <2>4, <3>1, <3>2 DEF NoRowBlocks
  <2>5. ASSUME NEW p, NEW j, Pivot(p, j) PROVE AnswerInv' /\ lp' = lp
    <3>1. stage # "done"
      BY <1>2 DEF Iterate
    <3> QED
      BY <2>5, <3>1, PivotGoesOn
  <2>6. CASE \E j, d : NoRowBlocks(x, d, j)
    BY <2>4, <2>6
  <2>7. CASE \E j, p : Pivot(p, j)
    BY <2>5, <2>7
  <2> QED
    BY <2>1, <2>2, <2>3, <2>6, <2>7
<1>3. CASE OutOfIterations
  BY <1>3, FailedSays DEF OutOfIterations, Ends
<1>4. CASE CleanNext
  BY <1>4, FailedSays DEF CleanNext, AnswerInv, Ends
<1>5. CASE CleanEnds
  BY <1>5, FailedSays DEF CleanEnds, AnswerInv, Ends
<1>6. CASE Breakdown
  BY <1>6, FailedSays DEF Breakdown, Ends
<1> QED
  BY <1>1, <1>2, <1>3, <1>4, <1>5, <1>6 DEF PrimalStep

\* So does the dual method, which may hand over to the primal one.
LEMMA SimplexAccepts == ASSUME SimplexStep PROVE AnswerInv' /\ lp' = lp
<1>1. CASE PrimalStep
  BY <1>1, PrimalAccepts
<1>2. CASE DualStart
  BY <1>2, FailedSays DEF DualStart, Cold, AnswerInv, Ends
<1>3. CASE DualIterate
  <2>1. PICK x \in {Ftran(WorkRhs)}, y \in {Btran(BasicCosts)} :
          \/ /\ ~ DualFeasibleNow(y)
             /\ IF step > 0
                THEN Fail("numerical_failure", "dual feasibility lost") /\ UNCHANGED <<warm, usedCold>>
                ELSE IF AllowColdFallback THEN Cold
                ELSE Fail("numerical_failure", "not dual feasible") /\ UNCHANGED <<warm, usedCold>>
          \/ Certify(Optimal(x, y))
          \/ \E p \in InfeasibleRows(x) : \E pi \in {Btran(UnitVector(p))} :
               LET alpha == TableauRow(pi)
               IN  \/ Negative(alpha) = {} /\ Certify(Farkas(pi))
                   \/ \E j \in LeastRatios(alpha, y) : Pivot(p, j)
    BY <1>3 DEF DualIterate
  <2>2. CASE \E w : Fail("numerical_failure", w)
    BY <2>2, FailedSays DEF Ends
  <2>3. CASE Cold
    BY <2>3 DEF Cold, AnswerInv
  <2>4. CASE Certify(Optimal(x, y))
    <3>1. PICK a : a = Optimal(x, y)
      OBVIOUS
    <3>2. a.status \in Ends /\ Certify(a)
      BY <2>4, <3>1, AnswersEnd
    <3> QED
      BY <3>2, CertifiedOrFailed
  <2>5. ASSUME NEW pi, Certify(Farkas(pi)) PROVE AnswerInv' /\ lp' = lp
    <3>1. PICK a : a = Farkas(pi)
      OBVIOUS
    <3>2. a.status \in Ends /\ Certify(a)
      BY <2>5, <3>1, AnswersEnd
    <3> QED
      BY <3>2, CertifiedOrFailed
  <2>6. ASSUME NEW p, NEW j, Pivot(p, j) PROVE AnswerInv' /\ lp' = lp
    <3>1. stage # "done"
      BY <1>3 DEF DualIterate
    <3> QED
      BY <2>6, <3>1, PivotGoesOn
  <2>7. CASE \E pi : Certify(Farkas(pi))
    BY <2>5, <2>7
  <2>8. CASE \E p, j : Pivot(p, j)
    BY <2>6, <2>8
  <2> QED
    BY <2>1, <2>2, <2>3, <2>4, <2>7, <2>8
<1> QED
  BY <1>1, <1>2, <1>3 DEF SimplexStep

-----------------------------------------------------------------------------
\* Postsolve brings the answer back.
\* The records of rows with one entry name an entry that is not zero.
Pivots ==
  \A k \in DOMAIN stack : stack[k].kind = "singleton" =>
    /\ stack[k].row \in canon.rows /\ stack[k].col \in canon.cols
    /\ canon.a[stack[k].row][stack[k].col] # 0

\* Records joined to the stack that name no row with one entry.
LEMMA PivotsJoined ==
  ASSUME NEW S, stack \in Seq(S), Pivots, canon' = canon, NEW t \in Seq(S), stack' = stack \o t,
         \A l \in DOMAIN t : t[l].kind = "singleton" =>
           t[l].row \in canon.rows /\ t[l].col \in canon.cols /\ canon.a[t[l].row][t[l].col] # 0
  PROVE  Pivots'
<1>1. \A k \in DOMAIN (stack \o t) :
        (k \in DOMAIN stack /\ (stack \o t)[k] = stack[k]) \/ \E l \in DOMAIN t : (stack \o t)[k] = t[l]
  BY ConcatElements
<1>2. PICK s : s = stack \o t
  OBVIOUS
<1>3. ASSUME NEW k \in DOMAIN s, s[k].kind = "singleton"
      PROVE  s[k].row \in canon.rows /\ s[k].col \in canon.cols /\ canon.a[s[k].row][s[k].col] # 0
  <2>1. CASE k \in DOMAIN stack /\ s[k] = stack[k]
    BY <1>3, <2>1 DEF Pivots
  <2>2. CASE \E l \in DOMAIN t : s[k] = t[l]
    BY <1>3, <2>2
  <2> QED
    BY <1>1, <1>2, <2>1, <2>2
<1>4. stack' = s
  BY <1>2
<1> QED
  BY <1>3, <1>4 DEF Pivots

\* Presolve records no other pivots.
LEMMA PivotsKept ==
  ASSUME PresolveTypeOK, StackBase, Pivots, PresolveStep PROVE Pivots'
<1>0. stack \in Seq(StackRecord) /\ canon' = canon
  BY DEF StackBase, PresolveStep, EmptyRow, EmptyColumn, RowSingleton, NextScan, NextPass, Constant
<1>1. CASE stack' = stack
  BY <1>0, <1>1 DEF Pivots
<1>2. ASSUME NEW r, r \in StackRecord, r.kind # "singleton", stack' = Append(stack, r) PROVE Pivots'
  <2>1. stack' = stack \o <<r>> /\ <<r>> \in Seq(StackRecord)
    BY <1>0, <1>2, AppendIsConcat
  <2>2. \A l \in DOMAIN <<r>> : <<r>>[l].kind # "singleton"
    BY <1>2
  <2> QED
    BY <1>0, <2>1, <2>2, PivotsJoined
<1>3. CASE EmptyRow
  <2>1. PICK i \in Reached(EmptyRows) :
          \/ Conclude("infeasible")
          \/ stack' = Append(stack, [kind |-> "row", row |-> i])
    BY <1>3 DEF EmptyRow
  <2>2. CASE Conclude("infeasible")
    BY <1>1, <2>2 DEF Conclude, keptVars
  <2>3. CASE stack' = Append(stack, [kind |-> "row", row |-> i])
    <3>1. i \in canon.rows
      BY DEF Reached, EmptyRows, PresolveTypeOK
    <3>2. PICK r : r = [kind |-> "row", row |-> i]
      OBVIOUS
    <3>3. r \in StackRecord /\ r.kind # "singleton"
      BY <3>1, <3>2 DEF StackRecord
    <3> QED
      BY <1>2, <2>3, <3>2, <3>3
  <2> QED
    BY <2>1, <2>2, <2>3
<1>4. CASE EmptyColumn
  <2>1. PICK j \in Reached(EmptyColumns) :
          \/ Conclude("unbounded")
          \/ stack' = Append(stack, [kind |-> "column", col |-> j, value |-> 0])
    BY <1>4 DEF EmptyColumn
  <2>2. CASE Conclude("unbounded")
    BY <1>1, <2>2 DEF Conclude, keptVars
  <2>3. CASE stack' = Append(stack, [kind |-> "column", col |-> j, value |-> 0])
    <3>1. j \in canon.cols
      BY DEF Reached, EmptyColumns, PresolveTypeOK
    <3>2. PICK r : r = [kind |-> "column", col |-> j, value |-> 0]
      OBVIOUS
    <3>3. r \in StackRecord /\ r.kind # "singleton"
      BY <3>1, <3>2 DEF StackRecord, Gives
    <3> QED
      BY <1>2, <2>3, <3>2, <3>3
  <2> QED
    BY <2>1, <2>2, <2>3
<1>5. CASE RowSingleton
  <2>1. PICK i \in Reached(Singletons) : \E j \in RowEntries(i) :
          \/ Conclude("infeasible")
          \/ \E z : z >= 0 /\ z = Quotient(rhs[i], canon.a[i][j])
               /\ stack' = stack \o <<[kind |-> "singleton", row |-> i, col |-> j],
                                       [kind |-> "fixed", col |-> j, value |-> z]>>
    BY <1>5 DEF RowSingleton
  <2>2. PICK j \in RowEntries(i) :
          \/ Conclude("infeasible")
          \/ \E z : z >= 0 /\ z = Quotient(rhs[i], canon.a[i][j])
               /\ stack' = stack \o <<[kind |-> "singleton", row |-> i, col |-> j],
                                       [kind |-> "fixed", col |-> j, value |-> z]>>
    BY <2>1
  <2>3. CASE Conclude("infeasible")
    BY <1>1, <2>3 DEF Conclude, keptVars
  <2>4. ASSUME NEW z, z >= 0, z = Quotient(rhs[i], canon.a[i][j]),
               stack' = stack \o <<[kind |-> "singleton", row |-> i, col |-> j],
                                    [kind |-> "fixed", col |-> j, value |-> z]>>
        PROVE  Pivots'
    <3>1. i \in canon.rows /\ j \in canon.cols /\ canon.a[i][j] # 0
      BY DEF Reached, Singletons, RowEntries, PresolveTypeOK
    <3>2. rhs[i] \in Int /\ canon.a[i][j] \in Int
      BY <3>1 DEF PresolveTypeOK, LinearModel
    <3>3. z \in Nat
      <4>1. Quotient(rhs[i], canon.a[i][j]) \in Int
        BY <3>1, <3>2, QuotientType
      <4> QED
        BY <2>4, <4>1
    <3>4. PICK r : r = [kind |-> "singleton", row |-> i, col |-> j]
      OBVIOUS
    <3>5. PICK q : q = [kind |-> "fixed", col |-> j, value |-> z]
      OBVIOUS
    <3>6. r \in StackRecord /\ q \in StackRecord
      BY <3>1, <3>3, <3>4, <3>5 DEF StackRecord, Gives
    <3>7. PICK t : t = <<r, q>>
      OBVIOUS
    <3>8. t \in Seq(StackRecord) /\ stack' = stack \o t
      BY <2>4, <3>4, <3>5, <3>6, <3>7
    <3>9. ASSUME NEW l \in DOMAIN t, t[l].kind = "singleton"
          PROVE  t[l].row \in canon.rows /\ t[l].col \in canon.cols /\ canon.a[t[l].row][t[l].col] # 0
      <4>1. t[l] = r
        BY <3>5, <3>7, <3>9
      <4> QED
        BY <3>1, <3>4, <4>1
    <3> QED
      BY <1>0, <3>8, <3>9, PivotsJoined
  <2> QED
    BY <2>2, <2>3, <2>4
<1>6. ASSUME NEW from, NEW to, NEW open, NextScan(from, to, open) PROVE Pivots'
  BY <1>1, <1>6 DEF NextScan, keptVars
<1>7. CASE NextPass
  BY <1>1, <1>7 DEF NextPass, keptVars
<1> QED
  BY <1>3, <1>4, <1>5, <1>6, <1>7 DEF PresolveStep

\* The right-hand sides left are indexed by the rows of the model.
LEMMA RhsKept ==
  ASSUME canon.rows \subseteq DOMAIN rhs, PresolveStep PROVE canon'.rows \subseteq DOMAIN rhs'
  BY DEF PresolveStep, EmptyRow, EmptyColumn, RowSingleton, NextScan, NextPass, Constant, Conclude, keptVars, Substituted

-----------------------------------------------------------------------------
\* The answer being brought back: columns not on the stack any more have the
\* value it recorded, and what is left of the answer is least for the model
\* left, or that model has no row and the answer is zero there.
Least(x, d) == \A g \in Points0 : LeftCost(x) <= d * LeftCost(g)
Bare(x) == rowActive = {} /\ \A j \in colActive : x[j] = 0
Typed ==
  /\ primal \in [canon.cols -> Int] /\ dual \in [canon.rows -> Int] /\ unit \in Nat \ {0}
  /\ stack \in Seq(StackRecord) /\ Pivots /\ RowsGone
Returned(v) ==
  /\ v \in [Removed -> Nat] /\ RecordsAgree(v)
  /\ offset = canon.offset + RemovedSum(canon.c, v)
  /\ \A j \in Removed : Recorded(j) \/ primal[j] = v[j] * unit
BackInv == Typed /\ (Least(primal, unit) \/ Bare(primal)) /\ \E v : Returned(v)

\* The top of a stack and what lies below it.
LEMMA TopOfStack ==
  ASSUME NEW S, NEW s \in Seq(S), s # <<>>
  PROVE  /\ Len(s) \in DOMAIN s /\ Last(s) = s[Len(s)] /\ Last(s) \in S
         /\ Front(s) \in Seq(S) /\ DOMAIN Front(s) = DOMAIN s \ {Len(s)}
         /\ \A k \in DOMAIN Front(s) : Front(s)[k] = s[k]
<1>1. Len(s) \in Nat /\ DOMAIN s = 1 .. Len(s) /\ Len(s) # 0 /\ \A k \in 1 .. Len(s) : s[k] \in S
  BY EmptySeq, LenProperties
<1>2. PICK n \in Nat : n = Len(s)
  BY <1>1
<1>3. \A k \in 1 .. n - 1 : s[k] \in S
  BY <1>1, <1>2
<1>4. /\ SubSeq(s, 1, n - 1) \in Seq(S)
      /\ Len(SubSeq(s, 1, n - 1)) = IF 1 <= n - 1 THEN (n - 1) - 1 + 1 ELSE 0
      /\ \A i \in 1 .. (n - 1) - 1 + 1 : SubSeq(s, 1, n - 1)[i] = s[1 + i - 1]
  <2>1. n - 1 \in Int /\ 1 \in Int
    BY <1>2
  <2> QED
    BY <1>3, <2>1, SubSeqProperties
<1>5. PICK f : f = SubSeq(s, 1, n - 1)
  OBVIOUS
<1>6. Len(f) = n - 1 /\ f \in Seq(S) /\ \A i \in 1 .. n - 1 : f[i] = s[i]
  BY <1>1, <1>2, <1>4, <1>5
<1>7. DOMAIN f = 1 .. n - 1
  BY <1>6, LenProperties
<1>8. Front(s) = f
  BY <1>2, <1>5 DEF Front
<1>9. 1 .. n - 1 = (1 .. n) \ {n} /\ n \in 1 .. n
  BY <1>1, <1>2
<1> QED
  BY <1>1, <1>2, <1>6, <1>7, <1>8, <1>9 DEF Last

\* A multiplier is an integer.
LEMMA MultiplierType ==
  ASSUME PresolveTypeOK, dual \in [canon.rows -> Int], unit \in Int,
         NEW i \in canon.rows, NEW k \in canon.cols, canon.a[i][k] # 0
  PROVE  Multiplier(i, k) \in Int
<1>1. AllInt([r \in canon.rows |-> canon.a[r][k] * dual[r]], canon.rows \ {i}) /\ IsFiniteSet(canon.rows \ {i})
  BY FS_RemoveElement DEF PresolveTypeOK, LinearModel, AllInt
<1> DEFINE t == Total([r \in canon.rows |-> canon.a[r][k] * dual[r]], canon.rows \ {i})
<1>2. t \in Int
  BY <1>1, TotalType
<1> HIDE DEF t
<1>3. canon.c[k] * unit - t \in Int /\ canon.a[i][k] \in Int
  BY <1>2 DEF PresolveTypeOK, LinearModel
<1>4. Quotient(canon.c[k] * unit - t, canon.a[i][k]) \in Int
  BY <1>3, QuotientType
<1> QED
  BY <1>4 DEF Multiplier, t

\* What is left of an answer only depends on the columns left.
LEMMA LeftCostSame ==
  ASSUME PresolveTypeOK, NEW x \in [canon.cols -> Int], NEW y, \A j \in colActive : y[j] = x[j]
  PROVE  LeftCost(y) = LeftCost(x)
<1>1. [j \in colActive |-> canon.c[j] * y[j]] = [j \in colActive |-> canon.c[j] * x[j]]
  OBVIOUS
<1> QED
  BY <1>1 DEF LeftCost

\* Undoing the top of the stack: postsolve.
LEMMA UndoKeeps ==
  ASSUME PresolveTypeOK, BackInv, Undo PROVE BackInv'
<1>1. /\ UNCHANGED <<canon, rowActive, colActive, rhs, offset, unit>>
      /\ stack # <<>> /\ stack' = Front(stack)
      /\ Typed
  BY DEF Undo, BackInv
<1>2. PICK n : n = Len(stack)
  OBVIOUS
<1>3. PICK top : top = stack[n]
  OBVIOUS
<1>4. /\ n \in DOMAIN stack /\ Last(stack) = top /\ top \in StackRecord
      /\ stack' \in Seq(StackRecord) /\ DOMAIN stack' = DOMAIN stack \ {n}
      /\ \A k \in DOMAIN stack' : stack'[k] = stack[k]
  <2>1. PICK s : s = stack
    OBVIOUS
  <2>2. s \in Seq(StackRecord) /\ s # <<>> /\ n = Len(s) /\ top = s[n]
    BY <1>1, <1>2, <1>3, <2>1 DEF Typed
  <2>3. /\ Len(s) \in DOMAIN s /\ Last(s) = s[Len(s)] /\ Last(s) \in StackRecord
        /\ Front(s) \in Seq(StackRecord) /\ DOMAIN Front(s) = DOMAIN s \ {Len(s)}
        /\ \A k \in DOMAIN Front(s) : Front(s)[k] = s[k]
    BY <2>2, TopOfStack
  <2>4. stack' = Front(s)
    BY <1>1, <2>1
  <2> QED
    BY <2>1, <2>2, <2>3, <2>4
<1>5. PICK v : Returned(v)
  BY DEF BackInv
<1>5a. primal \in [canon.cols -> Int] /\ dual \in [canon.rows -> Int] /\ unit \in Nat
  BY <1>1 DEF Typed
<1>6. Removed' = Removed /\ Points0' = Points0 /\ StackRecord' = StackRecord /\ RowsGone'
  BY <1>1 DEF Removed, Points0, StackRecord, Typed, RowsGone
<1>7. Pivots'
  BY <1>1, <1>4 DEF Typed, Pivots
<1>8. RecordsAgree(v)'
  BY <1>4, <1>5, <1>6 DEF Returned, RecordsAgree
<1>9. RemovedSum(canon.c, v)' = RemovedSum(canon.c, v)
  BY <1>1, <1>6 DEF RemovedSum
<1> DEFINE Goal == /\ primal' \in [canon.cols -> Int] /\ \A j \in colActive : primal'[j] = primal[j]
                   /\ dual' \in [canon.rows -> Int]
                   /\ \A j \in Removed : Recorded(j)' \/ primal'[j] = v[j] * unit
<1>10. ASSUME top.kind \in Gives PROVE Goal
  <2>1. top.col \in Removed /\ top.value = v[top.col] /\ v[top.col] \in Nat /\ top.col \in canon.cols
    BY <1>3, <1>4, <1>5, <1>10 DEF Returned, RecordsAgree, Removed
  <2>2. primal' = [primal EXCEPT ![top.col] = top.value * unit] /\ dual' = dual
    BY <1>4, <1>10 DEF Undo, Gives
  <2>3. unit \in Nat /\ primal \in [canon.cols -> Int] /\ top.value * unit \in Int
    BY <1>1, <2>1 DEF Typed
  <2>4. primal' \in [canon.cols -> Int] /\ \A j \in colActive : primal'[j] = primal[j]
    <3>1. top.col \notin colActive
      BY <2>1 DEF Removed
    <3>2. colActive \subseteq canon.cols
      BY DEF PresolveTypeOK
    <3> QED
      BY <2>1, <2>2, <2>3, <3>1, <3>2
  <2>5. ASSUME NEW j \in Removed PROVE Recorded(j)' \/ primal'[j] = v[j] * unit
    <3>1. CASE j = top.col
      BY <2>1, <2>2, <2>3, <3>1
    <3>2. CASE j # top.col
      <4>1. CASE Recorded(j)
        <5>1. PICK k \in DOMAIN stack : stack[k].kind \in Gives /\ stack[k].col = j
          BY <4>1 DEF Recorded
        <5>2. k # n
          BY <1>3, <3>2, <5>1
        <5> QED
          BY <1>4, <5>1, <5>2 DEF Recorded
      <4>2. CASE primal[j] = v[j] * unit
        BY <2>2, <2>3, <3>2, <4>2 DEF Removed
      <4> QED
        BY <1>5, <4>1, <4>2 DEF Returned
    <3> QED
      BY <3>1, <3>2
  <2> QED
    BY <1>5a, <2>2, <2>4, <2>5
<1>11. ASSUME top.kind \notin Gives PROVE Goal
  <2>1. primal' = primal
    BY <1>4, <1>11 DEF Undo, Gives
  <2>2. dual' \in [canon.rows -> Int]
    <3>1. CASE top.kind = "row"
      <4>1. dual' = [dual EXCEPT ![top.row] = 0]
        BY <1>4, <3>1 DEF Undo
      <4>2. top.row \in canon.rows
        BY <1>4, <3>1 DEF StackRecord, Gives
      <4> QED
        BY <1>5a, <4>1, <4>2
    <3>2. CASE top.kind = "singleton"
      <4>1. top.row \in canon.rows /\ top.col \in canon.cols /\ canon.a[top.row][top.col] # 0
        BY <1>1, <1>3, <1>4, <3>2 DEF Typed, Pivots
      <4>2. Multiplier(top.row, top.col) \in Int
        BY <1>1, <4>1, MultiplierType DEF Typed
      <4>3. dual' = [dual EXCEPT ![top.row] = Multiplier(top.row, top.col)]
        BY <1>4, <3>2 DEF Undo
      <4> QED
        BY <1>1, <4>2, <4>3 DEF Typed
    <3> QED
      BY <1>4, <1>11, <3>1, <3>2 DEF StackRecord, Gives
  <2>3. ASSUME NEW j \in Removed PROVE Recorded(j)' \/ primal'[j] = v[j] * unit
    <3>1. CASE Recorded(j)
      <4>1. PICK k \in DOMAIN stack : stack[k].kind \in Gives /\ stack[k].col = j
        BY <3>1 DEF Recorded
      <4>2. k # n
        BY <1>3, <1>11, <4>1
      <4> QED
        BY <1>4, <4>1, <4>2 DEF Recorded
    <3>2. CASE primal[j] = v[j] * unit
      BY <2>1, <3>2
    <3> QED
      BY <1>5, <3>1, <3>2 DEF Returned
  <2>4. primal' \in [canon.cols -> Int] /\ \A j \in colActive : primal'[j] = primal[j]
    BY <1>5a, <2>1
  <2> QED
    BY <2>2, <2>3, <2>4
<1>12. Goal
  BY <1>10, <1>11
<1> HIDE DEF Goal
<1>13. Returned(v)'
  BY <1>1, <1>5, <1>6, <1>8, <1>9, <1>12 DEF Returned, Goal
<1>14. Typed'
  BY <1>1, <1>4, <1>6, <1>7, <1>12 DEF Typed, Goal
<1>15. (Least(primal, unit) \/ Bare(primal))'
  <2>1. PICK x : x = primal'
    OBVIOUS
  <2>2. PICK y : y = primal
    OBVIOUS
  <2>3. LeftCost(x) = LeftCost(y)
    BY <1>1, <1>12, <2>1, <2>2, LeftCostSame DEF Goal, Typed
  <2>4. Least(x, unit) \/ Bare(x)
    <3>1. CASE Least(y, unit)
      BY <2>3, <3>1 DEF Least
    <3>2. CASE Bare(y)
      BY <1>12, <2>1, <2>2, <3>2 DEF Bare, Goal
    <3> QED
      BY <2>2, <3>1, <3>2 DEF BackInv
  <2>5. Least(x, unit)' <=> Least(x, unit)
    BY <1>1, <1>6 DEF Least, LeftCost
  <2>6. Bare(x)' <=> Bare(x)
    BY <1>1 DEF Bare
  <2>7. (Least(x, unit) \/ Bare(x))'
    BY <2>4, <2>5, <2>6
  <2>8. Least(primal, unit)' <=> Least(x, unit)'
    BY <2>1 DEF Least, LeftCost
  <2>9. Bare(primal)' <=> Bare(x)'
    BY <2>1 DEF Bare
  <2> QED
    BY <2>7, <2>8, <2>9
<1> QED
  BY <1>13, <1>14, <1>15 DEF BackInv

\* Where the model left is what the answer is least for, the answer brought
\* back is least for the model given.
LEMMA LeastComesBack ==
  ASSUME PresolveInv, ModelRecord(canon), BackInv, stack = <<>>, CanonicalCheck, NEW g \in Points0
  PROVE  CostOf(canon, primal) <= unit * CostOf(canon, g)
<1>0. PresolveTypeOK /\ KeepsPoint(g) /\ g \in [canon.cols -> Int] /\ Typed
  BY DEF PresolveInv, Points0, BackInv
<1>1. PICK v : Returned(v)
  BY DEF BackInv
<1> DEFINE f == [j \in canon.cols |-> canon.c[j] * primal[j]]
           s == RemovedSum(canon.c, v)
           q == [j \in Removed |-> canon.c[j] * v[j]]
<1>2. \A j \in Removed : primal[j] = v[j] * unit
  BY <1>1 DEF Returned, Recorded
<1>3. /\ IsFiniteSet(canon.cols) /\ colActive \in SUBSET canon.cols /\ Removed = canon.cols \ colActive
      /\ IsFiniteSet(Removed) /\ unit \in Nat \ {0} /\ (\A j \in canon.cols : canon.c[j] \in Int /\ primal[j] \in Int)
      /\ \A j \in Removed : v[j] \in Nat
  BY <1>0, <1>1, FS_Subset DEF PresolveTypeOK, LinearModel, Removed, Typed, Returned
<1>4. AllInt(f, canon.cols)
  BY <1>3 DEF AllInt
<1>5. Total(f, canon.cols) = Total(f, colActive) + Total(f, canon.cols \ colActive)
  <2> HIDE DEF f
  <2> QED
    BY <1>3, <1>4, TotalUnion
<1>6. Total(f, Removed) = unit * s /\ s \in Int
  <2>1. \A j \in Removed : q[j] \in Int /\ f[j] = unit * q[j]
    BY <1>2, <1>3
  <2>2. s = Total(q, Removed)
    BY DEF RemovedSum
  <2>3. AllInt(q, Removed) /\ unit \in Int
    BY <1>3, <2>1 DEF AllInt
  <2> HIDE DEF f, q, s
  <2> QED
    BY <1>3, <2>1, <2>2, <2>3, TotalMultiple, TotalType
<1>7. Total(f, colActive) = LeftCost(primal)
  <2>1. f = [j \in canon.cols |-> canon.c[j] * primal[j]] /\ AllInt(f, colActive) /\ IsFiniteSet(colActive)
    BY <1>0, <1>3, <1>4, LeftIsFinite DEF AllInt
  <2> DEFINE h == [j \in colActive |-> canon.c[j] * primal[j]]
  <2>2. \A j \in colActive : f[j] = h[j]
    BY <1>3
  <2> HIDE DEF f, h
  <2>3. Total(f, colActive) = Total(h, colActive)
    BY <2>1, <2>2, TotalEqual
  <2> QED
    BY <2>3 DEF h, LeftCost
<1>8. LeftCost(primal) \in Int /\ LeftCost(g) \in Int
  BY <1>0, LeftType DEF Typed
<1>9. CostOf(canon, g) \in Int /\ LeftCost(g) + s <= CostOf(canon, g)
  <2>1. LeftCost(g) + offset <= CostOf(canon, g) + canon.offset /\ offset = canon.offset + s
    BY <1>0, <1>1 DEF KeepsPoint, Returned
  <2>2. AllInt([j \in canon.cols |-> canon.c[j] * g[j]], canon.cols)
    BY <1>0, <1>3 DEF AllInt
  <2>3. CostOf(canon, g) \in Int
    BY <1>3, <2>2, TotalType DEF CostOf
  <2>4. canon.offset \in Int
    BY <1>0 DEF PresolveTypeOK
  <2> HIDE DEF s
  <2> QED
    BY <1>6, <1>8, <2>1, <2>3, <2>4
<1>10. LeftCost(primal) <= unit * LeftCost(g)
  <2>1. CASE Least(primal, unit)
    BY <2>1 DEF Least
  <2>2. CASE Bare(primal)
    <3>1. LeftCost(primal) = 0
      <4> DEFINE h == [j \in colActive |-> canon.c[j] * primal[j]]
      <4>1. \A j \in colActive : h[j] = 0
        <5>1. ASSUME NEW j \in colActive PROVE canon.c[j] * primal[j] = 0
          <6>1. canon.c[j] \in Int /\ primal[j] = 0
            BY <1>3, <2>2 DEF Bare
          <6> QED
            BY <6>1
        <5> QED
          BY <5>1
      <4>2. IsFiniteSet(colActive)
        BY <1>0, LeftIsFinite
      <4> HIDE DEF h
      <4>3. Total(h, colActive) = 0
        BY <4>1, <4>2, TotalZero
      <4> QED
        BY <4>3 DEF h, LeftCost
    <3>2. ASSUME NEW j \in colActive PROVE canon.c[j] >= 0
      <4> DEFINE m == Scaled(canon, unit)
                 h == [i \in canon.rows |-> canon.a[i][j] * dual[i]]
      <4>1. m.rows = canon.rows /\ m.a = canon.a /\ j \in m.cols /\ m.c[j] = unit * canon.c[j]
        BY <1>3, ScaledFields
      <4>2. m.c[j] - ColumnValue(m, j, dual) >= 0
        BY <4>1 DEF CanonicalCheck, DualFeasible, ReducedCost
      <4>3. ColumnValue(m, j, dual) = Total(h, canon.rows)
        BY <4>1, Zenon DEF ColumnValue
      <4>4. \A i \in canon.rows : h[i] = 0
        <5>1. ASSUME NEW i \in canon.rows PROVE canon.a[i][j] * dual[i] = 0
          <6>1. canon.a[i][j] = 0 /\ dual[i] \in Int
            BY <1>0, <2>2 DEF Bare, Typed, RowsGone
          <6> QED
            BY <6>1
        <5> QED
          BY <5>1
      <4>5. IsFiniteSet(canon.rows)
        BY <1>0 DEF PresolveTypeOK, LinearModel
      <4> HIDE DEF h
      <4>6. Total(h, canon.rows) = 0
        BY <4>4, <4>5, TotalZero
      <4>7. unit * canon.c[j] >= 0 /\ canon.c[j] \in Int
        BY <1>3, <4>1, <4>2, <4>3, <4>6
      <4> QED
        BY <1>3, <4>7, Cancelled
    <3>3. LeftCost(g) >= 0
      <4> DEFINE h == [j \in colActive |-> canon.c[j] * g[j]]
      <4>1. \A j \in colActive : h[j] >= 0 /\ h[j] \in Int
        <5>1. ASSUME NEW j \in colActive PROVE canon.c[j] * g[j] >= 0 /\ canon.c[j] * g[j] \in Int
          <6>1. canon.c[j] \in Int /\ canon.c[j] >= 0 /\ g[j] \in Int /\ g[j] >= 0
            BY <1>0, <1>3, <3>2 DEF Points0, PrimalFeasible, Nonnegative
          <6> QED
            BY <6>1
        <5> QED
          BY <5>1
      <4>2. IsFiniteSet(colActive) /\ AllInt(h, colActive)
        BY <1>0, <4>1, LeftIsFinite DEF AllInt
      <4> HIDE DEF h
      <4>3. Total(h, colActive) >= 0
        BY <4>1, <4>2, TotalNonnegative
      <4> QED
        BY <4>3 DEF h, LeftCost
    <3>4. unit * LeftCost(g) >= 0
      BY <1>3, <1>8, <3>3
    <3> QED
      BY <3>1, <3>4
  <2> QED
    BY <2>1, <2>2 DEF BackInv
<1>11. CostOf(canon, primal) = LeftCost(primal) + unit * s
  <2>1. CostOf(canon, primal) = Total(f, canon.cols)
    BY DEF CostOf
  <2> QED
    BY <1>3, <1>5, <1>6, <1>7, <2>1
<1> DEFINE l == LeftCost(primal)
           k == LeftCost(g)
           c == CostOf(canon, g)
<1>12. l \in Int /\ k \in Int /\ c \in Int /\ s \in Int /\ unit \in Nat
  BY <1>3, <1>6, <1>8, <1>9
<1>13. l <= unit * k /\ k + s <= c /\ CostOf(canon, primal) = l + unit * s
  BY <1>9, <1>10, <1>11
<1> HIDE DEF l, k, c, s
<1>14. unit * (k + s) <= unit * c
  BY <1>12, <1>13
<1>15. unit * (k + s) = unit * k + unit * s
  BY <1>12
<1> DEFINE uk == unit * k
           us == unit * s
           uc == unit * c
<1>16. uk \in Int /\ us \in Int /\ uc \in Int
  BY <1>12
<1>17. uk + us <= uc /\ l <= uk /\ CostOf(canon, primal) = l + us
  BY <1>13, <1>14, <1>15
<1> HIDE DEF uk, us, uc
<1>18. CostOf(canon, primal) <= uc
  BY <1>12, <1>16, <1>17
<1> QED
  BY <1>18 DEF uc, c

-----------------------------------------------------------------------------
\* The model worked on.
\* What the driver hands back is on its way to the model given.
LEMMA HandsBack ==
  ASSUME PresolveTypeOK, StackBase, Pivots, NEW v, Accounts(v), UNCHANGED presolveVars,
         NEW x \in [colActive -> Int], NEW y \in [rowActive -> Int], NEW d \in Nat \ {0}, HandBack(x, y, d),
         presolved \/ (rowActive = canon.rows /\ colActive = canon.cols /\ stack = <<>>),
         Least(x, d) \/ Bare(x)
  PROVE  BackInv' /\ (phase' = "undo" \/ (phase' = "check" /\ stack' = <<>>))
<1>1. UNCHANGED <<canon, rowActive, colActive, rhs, offset, stack>>
  BY DEF presolveVars, keptVars
<1>2. colActive \subseteq canon.cols /\ rowActive \subseteq canon.rows
  BY DEF PresolveTypeOK
<1>3. /\ primal' \in [canon.cols -> Int] /\ (\A j \in colActive : primal'[j] = x[j])
      /\ dual' \in [canon.rows -> Int] /\ unit' = d
      /\ (phase' = "undo" \/ (phase' = "check" /\ stack' = <<>>))
  <2>1. CASE presolved
    BY <1>2, <2>1 DEF HandBack, PostsolveStart
  <2>2. CASE ~ presolved
    BY <1>1, <2>2 DEF HandBack
  <2> QED
    BY <2>1, <2>2
<1>4. PICK X : X = primal'
  OBVIOUS
<1>5. LeftCost(x) = LeftCost(X)
  BY <1>3, <1>4, LeftCostSame
<1>6. Least(X, d) \/ Bare(X)
  <2>1. CASE Least(x, d)
    BY <1>5, <2>1 DEF Least
  <2>2. CASE Bare(x)
    BY <1>3, <1>4, <2>2 DEF Bare
  <2> QED
    BY <2>1, <2>2
<1>7. Least(X, d)' <=> Least(X, d)
  BY <1>1 DEF Least, LeftCost, Points0
<1>8. Bare(X)' <=> Bare(X)
  BY <1>1 DEF Bare
<1>9. Least(primal, unit)' <=> Least(X, d)'
  BY <1>3, <1>4 DEF Least, LeftCost
<1>10. Bare(primal)' <=> Bare(X)'
  BY <1>4 DEF Bare
<1>11. (Least(primal, unit) \/ Bare(primal))'
  BY <1>6, <1>7, <1>8, <1>9, <1>10
<1>12. Typed'
  <2>1. Pivots' /\ RowsGone' /\ StackRecord' = StackRecord
    BY <1>1 DEF Pivots, StackBase, RowsGone, StackRecord
  <2> QED
    BY <1>1, <1>3, <2>1 DEF Typed, StackBase
<1>13. Returned(v)'
  <2>1. Removed' = Removed /\ RecordsAgree(v)' /\ RemovedSum(canon.c, v)' = RemovedSum(canon.c, v)
    BY <1>1 DEF Removed, Accounts, RecordsAgree, RemovedSum
  <2>2. \A j \in Removed : Recorded(j)'
    BY <1>1 DEF StackBase, Recorded
  <2> QED
    BY <1>1, <2>1, <2>2 DEF Returned, Accounts
<1> QED
  BY <1>3, <1>11, <1>12, <1>13 DEF BackInv

-----------------------------------------------------------------------------
\* The model worked on is the model left, presolved or not.
Untouched ==
  /\ rowActive = canon.rows /\ colActive = canon.cols /\ stack = <<>>
  /\ \A i \in canon.rows : rhs[i] = canon.b[i]
WorkingIsLeft ==
  /\ Working.rows = rowActive /\ Working.cols = colActive /\ Working.a = canon.a /\ Working.c = canon.c
  /\ \A i \in rowActive : Working.b[i] = rhs[i]
  /\ ModelRecord(Working) /\ LinearModel(Working)

\* Presolve off, all of the model is left; presolve on, the compacted model is.
LEMMA WorksOnWhatIsLeft ==
  ASSUME PresolveTypeOK, ModelRecord(canon), canon.rows \subseteq DOMAIN rhs, presolved \/ Untouched
  PROVE  WorkingIsLeft
<1>1. CASE ~ presolved
  <2>1. Working = canon
    BY <1>1 DEF Working
  <2> QED
    BY <1>1, <2>1 DEF WorkingIsLeft, Untouched, PresolveTypeOK
<1>2. CASE presolved
  <2>1. Working = Reduced
    BY <1>2 DEF Working
  <2>2. PICK m : m = Reduced
    OBVIOUS
  <2>3. m = [rows |-> rowActive, cols |-> colActive, a |-> canon.a, b |-> rhs, c |-> canon.c, offset |-> offset]
    BY <2>2 DEF Reduced
  <2>4. /\ m.rows = rowActive /\ m.cols = colActive /\ m.a = canon.a /\ m.b = rhs /\ m.c = canon.c
        /\ DOMAIN m = {"rows", "cols", "a", "b", "c", "offset"}
    BY <2>3
  <2>5. rowActive \subseteq canon.rows /\ colActive \subseteq canon.cols
    BY DEF PresolveTypeOK
  <2>6. ModelRecord(m)
    BY <2>4, <2>5 DEF ModelRecord
  <2>7. LinearModel(m)
    BY <2>4, <2>5, LeftIsFinite DEF LinearModel, PresolveTypeOK
  <2> QED
    BY <2>1, <2>2, <2>4, <2>6, <2>7 DEF WorkingIsLeft
<1> QED
  BY <1>1, <1>2

\* A point of the model given is one of the model worked on, at the cost left.
LEMMA PointWorks ==
  ASSUME PresolveInv, WorkingIsLeft, NEW g \in Points0
  PROVE  /\ ColumnVector(Working, g) /\ Nonnegative(Working, g) /\ CostOf(Working, g) = LeftCost(g)
         /\ \A i \in Working.rows : RowValue(Working, i, g) = 1 * Working.b[i]
<1>1. /\ g \in [canon.cols -> Int] /\ (\A j \in canon.cols : g[j] >= 0) /\ KeepsPoint(g)
      /\ rowActive \subseteq canon.rows /\ colActive \subseteq canon.cols
      /\ \A i \in canon.rows : rhs[i] \in Int
  BY DEF PresolveInv, PresolveTypeOK, Points0, PrimalFeasible, Nonnegative
<1>2. PICK m : m = Working
  OBVIOUS
<1>3. m.rows = rowActive /\ m.cols = colActive /\ m.a = canon.a /\ m.c = canon.c /\ \A i \in rowActive : m.b[i] = rhs[i]
  BY <1>2 DEF WorkingIsLeft
<1>4. CostOf(m, g) = LeftCost(g)
  BY <1>3, Zenon DEF CostOf, LeftCost
<1>5. ASSUME NEW i \in rowActive PROVE RowValue(m, i, g) = 1 * m.b[i]
  <2>1. RowValue(m, i, g) = LeftRow(i, g)
    BY <1>3, Zenon DEF RowValue, LeftRow
  <2>2. LeftRow(i, g) = rhs[i] /\ rhs[i] \in Int
    BY <1>1 DEF KeepsPoint
  <2> QED
    BY <1>3, <2>1, <2>2
<1>6. ColumnVector(m, g) /\ Nonnegative(m, g)
  BY <1>1, <1>3 DEF ColumnVector, AllInt, Nonnegative
<1> QED
  BY <1>2, <1>3, <1>4, <1>5, <1>6

\* An accepted optimum of the model worked on is least for what is left.
LEMMA AnswerIsLeast ==
  ASSUME PresolveInv, WorkingIsLeft, NEW x, NEW y, NEW d \in Nat \ {0}, OptimalWitness(Scaled(Working, d), x, y)
  PROVE  x \in [colActive -> Int] /\ y \in [rowActive -> Int] /\ Least(x, d)
<1>1. PICK m : m = Working
  OBVIOUS
<1>2. m.rows = rowActive /\ m.cols = colActive /\ m.c = canon.c /\ ModelRecord(m) /\ LinearModel(m)
  BY <1>1 DEF WorkingIsLeft
<1>3. Scaled(m, d).rows = m.rows /\ Scaled(m, d).cols = m.cols /\ OptimalWitness(Scaled(m, d), x, y)
  BY <1>1, <1>2, ScaledFields
<1>4. x \in [colActive -> Int] /\ y \in [rowActive -> Int]
  BY <1>2, <1>3 DEF OptimalWitness, ForColumns, ForRows
<1>5. CostOf(m, x) = LeftCost(x) /\ LeftCost(x) \in Int
  <2>1. CostOf(m, x) = LeftCost(x)
    BY <1>2, Zenon DEF CostOf, LeftCost
  <2>2. AllInt([j \in colActive |-> canon.c[j] * x[j]], colActive)
    BY <1>4 DEF PresolveInv, PresolveTypeOK, LinearModel, AllInt
  <2>3. LeftCost(x) \in Int
    BY <2>2, LeftIsFinite, TotalType DEF PresolveInv, LeftCost
  <2> QED
    BY <2>1, <2>3
<1>6. ASSUME NEW g \in Points0 PROVE LeftCost(x) <= d * LeftCost(g)
  <2>1. /\ ColumnVector(m, g) /\ Nonnegative(m, g) /\ CostOf(m, g) = LeftCost(g)
        /\ \A i \in m.rows : RowValue(m, i, g) = 1 * m.b[i]
    BY <1>1, PointWorks
  <2>2. 1 * CostOf(m, x) <= d * CostOf(m, g)
    <3>1. 1 \in Nat \ {0}
      OBVIOUS
    <3> QED
      BY <1>2, <1>3, <2>1, <3>1, AcceptedOptimumIsLeast
  <2> QED
    BY <1>5, <2>1, <2>2
<1> QED
  BY <1>4, <1>6 DEF Least

\* An accepted Farkas vector of it means that the model given has no point.
LEMMA AnswerMeansNoPoint ==
  ASSUME PresolveInv, WorkingIsLeft, NEW y, FarkasWitness(Working, y) PROVE Points0 = {}
<1> SUFFICES ASSUME NEW g \in Points0 PROVE FALSE
  OBVIOUS
<1>1. PICK m : m = Working
  OBVIOUS
<1>2. /\ ColumnVector(m, g) /\ Nonnegative(m, g) /\ \A i \in m.rows : RowValue(m, i, g) = 1 * m.b[i]
  BY <1>1, PointWorks
<1>3. LinearModel(m) /\ FarkasWitness(m, y) /\ 1 \in Nat \ {0}
  BY <1>1 DEF WorkingIsLeft
<1> QED
  BY <1>2, <1>3, FarkasMeansInfeasible

-----------------------------------------------------------------------------
\* The driver.
(***************************************************************************)
(* The factors of the scaling lie within its limits.  Factors beyond them  *)
(* are clamped after the matrix was scaled by them, and then answers to    *)
(* the scaled model are none of the model.                                 *)
(***************************************************************************)
Unclamped == scalers.applied => InRange(Working, scalers.row, scalers.col)

\* The inductive invariant of the driver.  The canonical model is that of the
\* model given and presolve keeps its points.
Given ==
  /\ WellFormed(program) /\ canon = Canonical(program)
  /\ \A g \in Points : \A j \in program.vars : g[j] \in Int
  /\ canon.rows \subseteq DOMAIN rhs
  /\ PresolveInv
\* On the way to the engine the stack accounts for what was removed, and
\* without presolve nothing was.
Forward == {"given", "external", "quadratic", "presolve", "scale", "engine"}
OnTheWay ==
  /\ phase \in Forward => StackBase /\ Pivots /\ \E v : Accounts(v)
  /\ phase \in {"given", "scale", "engine"} => presolved \/ Untouched
  /\ phase \in {"given", "presolve", "scale"} => scalers = NoScalers
  /\ phase \in {"given", "external"} => unit = 1
  /\ phase = "external" => engine \in {"tree", "pdlp"}
  /\ phase = "quadratic" => engine = "qp"
\* The engine works on what is left, scaled or not; on the way back its optimum
\* is least, and a model without points has none.
WorkedOn == IF scalers.applied THEN Equilibrated(Working, scalers.row, scalers.col) ELSE Working
OnTheWayBack ==
  /\ phase = "engine" => lp = WorkedOn /\ AnswerInv
  /\ phase = "undo" => result = "optimal" /\ BackInv
  /\ phase = "check" => /\ result = "optimal" => BackInv /\ stack = <<>>
                        /\ result = "infeasible" => Points0 = {}
DriverInv ==
  /\ Given /\ OnTheWay /\ OnTheWayBack
  /\ phase # "ended" => report = NoReport
  /\ StatusIsRight

-----------------------------------------------------------------------------
\* A point of the model given is one of the canonical model.
LEMMA FeasiblePoint ==
  ASSUME Given, NEW g \in Feasible
  PROVE  AllInt(g, program.vars) /\ InBounds(program, g) /\ CanonicalPoint(program, g) \in Points0
<1>1. WellFormed(program) /\ AllInt(g, program.vars) /\ InBounds(program, g)
  BY DEF Given, Feasible, Satisfies, InBounds, AllInt
<1> DEFINE X == CanonicalPoint(program, g)
<1>2. /\ AllInt(X, DOMAIN ColsOf(program))
      /\ PrimalFeasible(Canonical(program), X)
  BY <1>1, CanonicalPointSigned, CanonicalPointFeasible
<1>3. DOMAIN X = DOMAIN ColsOf(program) /\ X = [k \in DOMAIN X |-> X[k]]
  BY DEF CanonicalPoint
<1>4. canon.cols = DOMAIN ColsOf(program) /\ canon = Canonical(program)
  BY <1>1, CanonicalFields DEF Given
<1> HIDE DEF X
<1>5. X \in [canon.cols -> Int]
  BY <1>2, <1>3, <1>4 DEF AllInt
<1> QED
  BY <1>1, <1>2, <1>4, <1>5 DEF X, Points0

\* So a canonical model without points is one of a model without points.
LEMMA NoPointNoPoint == ASSUME Given, Points0 = {} PROVE Feasible = {}
  BY FeasiblePoint

\* The canonical model is a linear model.
LEMMA CanonIsLinear == ASSUME Given PROVE ModelRecord(canon) /\ LinearModel(canon) /\ PresolveTypeOK
  BY CanonicalFields DEF Given, PresolveInv

-----------------------------------------------------------------------------
\* The start.
LEMMA DriverStarts == Init => DriverInv
<1> SUFFICES ASSUME NEW k \in Commands,
                    PipelineInit(k.program, k.engine, k.warm, k.presolve, k.scale)
             PROVE  DriverInv
  BY DEF Init
<1>1. PICK p : p = k.program
  OBVIOUS
<1>2. PICK m : m = Canonical(p)
  OBVIOUS
<1>3. WellFormed(p) /\ \A g \in Points : \A j \in p.vars : g[j] \in Int
  BY <1>1, CommandsAreWellFormed
<1>4. LinearModel(m) /\ ModelRecord(m) /\ m.offset \in Int
  BY <1>2, <1>3, CanonicalFields
<1>5. /\ program = p /\ PresolveInit(m) /\ phase = "given" /\ presolved = FALSE
      /\ scalers = NoScalers /\ report = NoReport
  BY <1>1, <1>2 DEF PipelineInit
<1>6. /\ canon = m /\ rowActive = m.rows /\ colActive = m.cols /\ rhs = m.b /\ stack = <<>> /\ unit = 1
  BY <1>5 DEF PresolveInit
<1>7. PresolveInv /\ StackBase /\ \E v : Accounts(v)
  BY <1>4, <1>5, PresolveStarts, AccountsStart
<1>8. Given
  BY <1>2, <1>3, <1>4, <1>5, <1>6, <1>7 DEF Given, ModelRecord
<1>9. OnTheWay
  BY <1>5, <1>6, <1>7 DEF OnTheWay, Pivots, Untouched
<1>10. OnTheWayBack /\ StatusIsRight
  BY <1>5 DEF OnTheWayBack, StatusIsRight, BySimplex, NoReport
<1> QED
  BY <1>5, <1>8, <1>9, <1>10 DEF DriverInv

-----------------------------------------------------------------------------
\* What holds of the model given and of the presolve holds as long as they are
\* left alone.
LEMMA GivenStays ==
  ASSUME Given, UNCHANGED program,
         UNCHANGED presolveVars \/ UNCHANGED <<canon, rowActive, colActive, rhs, offset, verdict>>
  PROVE  Given'
  BY DEF Given, presolveVars, keptVars, PresolveInv, PresolveTypeOK, Points0, KeepsPoint, LeftRow, LeftCost

\* What the stack accounts for,
LEMMA RemovalsStay ==
  ASSUME StackBase /\ Pivots /\ \E v : Accounts(v), UNCHANGED presolveVars
  PROVE  (StackBase /\ Pivots /\ \E v : Accounts(v))' /\ (Untouched => Untouched')
<1>1. UNCHANGED <<canon, rowActive, colActive, rhs, offset, stack>>
  BY DEF presolveVars, keptVars
<1>2. StackBase'
  BY <1>1 DEF StackBase, RowsGone, StackRecord, Removed, Recorded
<1>3. Pivots' /\ (Untouched => Untouched')
  BY <1>1 DEF Pivots, Untouched
<1>4. ASSUME NEW v, Accounts(v) PROVE Accounts(v)'
  <2>1. Removed' = Removed /\ \A u : RemovedSum(u, v)' = RemovedSum(u, v)
    BY <1>1 DEF RemovedSum, Removed
  <2>2. RecordsAgree(v)'
    BY <1>1, <1>4, <2>1 DEF Accounts, RecordsAgree
  <2>3. offset' = canon'.offset + RemovedSum(canon.c, v)' /\ canon'.c = canon.c
    BY <1>1, <1>4, <2>1 DEF Accounts
  <2>4. ASSUME NEW i \in rowActive' PROVE rhs'[i] = canon'.b[i] - RemovedSum(canon.a[i], v)' /\ canon'.a[i] = canon.a[i]
    BY <1>1, <1>4, <2>1, <2>4 DEF Accounts
  <2> QED
    BY <1>1, <1>4, <2>1, <2>2, <2>3, <2>4 DEF Accounts
<1> QED
  BY <1>2, <1>3, <1>4

\* and an answer on its way back.
LEMMA BackStays ==
  ASSUME BackInv, UNCHANGED <<presolveVars, answerVars>> PROVE BackInv'
<1>1. UNCHANGED <<canon, rowActive, colActive, rhs, offset, stack, primal, dual, unit>>
  BY DEF presolveVars, keptVars, answerVars
<1>2. Typed'
  BY <1>1 DEF BackInv, Typed, Pivots, RowsGone, StackRecord
<1>3. (Least(primal, unit) \/ Bare(primal))'
  BY <1>1 DEF BackInv, Least, Bare, Points0, LeftCost
<1>4. ASSUME NEW v, Returned(v) PROVE Returned(v)'
  BY <1>1, <1>4 DEF Returned, RecordsAgree, RemovedSum, Removed, Recorded
<1> QED
  BY <1>2, <1>3, <1>4 DEF BackInv

\* While nothing is reported there is no answer to be wrong.
LEMMA NothingReported == ASSUME report' = NoReport PROVE StatusIsRight'
  BY DEF StatusIsRight, BySimplex, NoReport

\* A report is right if what it says is.
LEMMA ReportIsRight ==
  ASSUME NEW status, NEW x, NEW z, NEW original \in BOOLEAN, NEW canonical \in BOOLEAN,
         Report(status, x, z, original, canonical), UNCHANGED <<program, engine, unit>>,
         status = "optimal" /\ original /\ canonical /\ engine # "qp" => Passes(x, z, unit),
         status = "optimal" /\ original /\ canonical /\ engine \in {"primal", "dual"} =>
           \A g \in Feasible : ~ Better(g, unit, z),
         status = "infeasible" /\ canonical /\ engine \in {"primal", "dual"} => Feasible = {}
  PROVE  StatusIsRight'
<1>1. /\ result' = status /\ report'.x = x /\ report'.z = z
      /\ report'.verified = ((status = "optimal" /\ original /\ canonical)
                               \/ (status \in {"infeasible", "unbounded"} /\ canonical))
  BY DEF Report
<1>2. Feasible' = Feasible
  BY DEF Feasible
<1>3. Passes(x, z, unit)' = Passes(x, z, unit) /\ \A g : Better(g, unit, z)' = Better(g, unit, z)
  BY DEF Passes, Better
<1>4. ASSUME report'.verified, result' = "optimal", engine' # "qp" PROVE Passes(report.x, report.z, unit)'
  <2>1. Passes(x, z, unit)
    BY <1>1, <1>4
  <2> QED
    BY <1>1, <1>3, <2>1 DEF Passes
<1>5. ASSUME BySimplex', result' = "optimal" PROVE \A g \in Feasible' : ~ Better(g, unit, report.z)'
  <2>1. \A g \in Feasible : ~ Better(g, unit, z)
    BY <1>1, <1>5 DEF BySimplex
  <2> QED
    BY <1>1, <1>2, <1>3, <2>1 DEF Better
<1>6. ASSUME BySimplex', result' = "infeasible" PROVE Feasible' = {}
  BY <1>1, <1>2, <1>6 DEF BySimplex
<1> QED
  BY <1>4, <1>5, <1>6 DEF StatusIsRight

\* The invariant once a report was made: only the model and the report matter.
LEMMA EndsRight ==
  ASSUME Given, phase' = "ended", UNCHANGED <<program, presolveVars>>, StatusIsRight'
  PROVE  DriverInv'
<1>1. Given'
  BY GivenStays
<1>2. OnTheWay' /\ OnTheWayBack'
  BY DEF OnTheWay, OnTheWayBack, Forward
<1> QED
  BY <1>1, <1>2 DEF DriverInv

\* A step of an engine, or none, changes nothing for the driver.
LEMMA DriverStays ==
  ASSUME DriverInv, UNCHANGED <<driverVars, presolveVars, answerVars>>,
         phase = "engine" => lp' = lp /\ AnswerInv'
  PROVE  DriverInv'
<1>1. UNCHANGED <<program, engine, phase, presolved, scalers, result, report, unit>>
  BY DEF driverVars, commandVars, checkVars, answerVars
<1>2. Given'
  BY <1>1, GivenStays DEF DriverInv
<1>3. OnTheWay'
  <2>1. phase \in Forward => (StackBase /\ Pivots /\ \E v : Accounts(v))'
    BY RemovalsStay DEF DriverInv, OnTheWay
  <2>2. Untouched => Untouched'
    BY DEF presolveVars, keptVars, Untouched
  <2> QED
    BY <1>1, <2>1, <2>2 DEF DriverInv, OnTheWay, Forward, NoScalers
<1>4. OnTheWayBack'
  <2>1. phase = "engine" => WorkedOn' = WorkedOn
    BY <1>1 DEF WorkedOn, Working, Reduced, presolveVars, keptVars
  <2>2. Points0' = Points0 /\ stack' = stack
    BY DEF Points0, presolveVars, keptVars
  <2>3. BackInv => BackInv'
    BY BackStays
  <2>4. phase' = "engine" => lp' = WorkedOn' /\ AnswerInv'
    BY <1>1, <2>1 DEF DriverInv, OnTheWayBack
  <2>5. phase' = "undo" => result' = "optimal" /\ BackInv'
    BY <1>1, <2>3 DEF DriverInv, OnTheWayBack
  <2>6. phase' = "check" => /\ result' = "optimal" => BackInv' /\ stack' = <<>>
                            /\ result' = "infeasible" => Points0' = {}
    BY <1>1, <2>2, <2>3 DEF DriverInv, OnTheWayBack
  <2> QED
    BY <2>4, <2>5, <2>6 DEF OnTheWayBack
<1>5. StatusIsRight'
  <2>1. Feasible' = Feasible /\ BySimplex' = BySimplex
    BY <1>1 DEF Feasible, BySimplex
  <2>2. /\ Passes(report.x, report.z, unit)' = Passes(report.x, report.z, unit)
        /\ \A g : Better(g, unit, report.z)' = Better(g, unit, report.z)
    BY <1>1 DEF Passes, Better
  <2> QED
    BY <1>1, <2>1, <2>2 DEF DriverInv, StatusIsRight
<1> QED
  BY <1>1, <1>2, <1>3, <1>4, <1>5 DEF DriverInv, NoReport

-----------------------------------------------------------------------------
\* Each step of the driver keeps its invariant.
LEMMA ResolveKeeps == ASSUME DriverInv, Resolve PROVE DriverInv'
<1>1. /\ phase = "given" /\ report' = report /\ program' = program /\ presolved' = presolved
      /\ scalers' = scalers /\ unit' = unit /\ UNCHANGED presolveVars
  BY DEF Resolve, checkVars, answerVars
<1>2. /\ phase' \in {"external", "quadratic", "presolve", "scale"}
      /\ phase' = "external" => engine' \in {"tree", "pdlp"}
      /\ phase' = "quadratic" => engine' = "qp"
  BY DEF Resolve
<1>3. Given' /\ report' = NoReport
  BY <1>1, GivenStays DEF DriverInv
<1>4. (StackBase /\ Pivots /\ \E v : Accounts(v))' /\ (Untouched => Untouched')
  BY <1>1, RemovalsStay DEF DriverInv, OnTheWay, Forward
<1>5. (presolved \/ Untouched) /\ scalers = NoScalers /\ unit = 1
  BY <1>1 DEF DriverInv, OnTheWay
<1>6. OnTheWay'
  BY <1>1, <1>2, <1>4, <1>5 DEF OnTheWay, NoScalers
<1>7. OnTheWayBack'
  BY <1>2 DEF OnTheWayBack
<1> QED
  BY <1>3, <1>6, <1>7, NothingReported DEF DriverInv

\* What tree search and PDLP return was checked against the model given.
LEMMA ExternalKeeps == ASSUME DriverInv, External PROVE DriverInv'
<1>1. UNCHANGED <<program, engine, unit, presolveVars>>
  BY DEF External, commandVars, answerVars
<1>2. phase = "external" /\ (Claimed \/ \E statuses, canonical : "optimal" \notin statuses /\ canonical \in BOOLEAN /\ Nothing(statuses, canonical))
  BY DEF External, TreeEnds, FirstOrderEnds
<1>3. Given /\ unit = 1 /\ engine \in {"tree", "pdlp"}
  BY <1>2 DEF DriverInv, OnTheWay
<1>4. phase' = "ended"
  BY <1>2 DEF Claimed, Nothing, Report
<1>5. CASE Claimed
  <2>1. PICK a, passed : a \in Claims /\ passed = Passes(a.x, a.z, 1) /\
          Report(IF passed THEN "optimal" ELSE "numerical_failure", a.x, a.z, passed, TRUE)
    BY <1>5 DEF Claimed
  <2>2. PICK s : s = IF passed THEN "optimal" ELSE "numerical_failure"
    OBVIOUS
  <2>3. passed \in BOOLEAN /\ Report(s, a.x, a.z, passed, TRUE)
    BY <2>1, <2>2 DEF Passes
  <2>4. StatusIsRight'
    BY <1>1, <1>3, <2>1, <2>2, <2>3, ReportIsRight
  <2> QED
    BY <1>1, <1>3, <1>4, <2>4, EndsRight
<1>6. ASSUME NEW statuses, NEW canonical \in BOOLEAN, "optimal" \notin statuses, Nothing(statuses, canonical)
      PROVE  DriverInv'
  <2>1. PICK s \in statuses : Report(s, <<>>, 0, FALSE, canonical)
    BY <1>6 DEF Nothing
  <2>2. StatusIsRight'
    BY <1>1, <1>3, <1>6, <2>1, ReportIsRight
  <2> QED
    BY <1>1, <1>3, <1>4, <2>2, EndsRight
<1> QED
  BY <1>2, <1>5, <1>6

\* The QP engine touches nothing of the driver,
LEMMA QuadraticKeeps == ASSUME DriverInv, Quadratic PROVE DriverInv'
  BY DriverStays DEF Quadratic

\* and its answers are not those of a simplex method.
LEMMA QuadraticEndsKeeps == ASSUME DriverInv, QuadraticEnds PROVE DriverInv'
<1>1. UNCHANGED <<program, engine, unit, presolveVars>>
  BY DEF QuadraticEnds, commandVars, answerVars
<1>2. Given /\ engine = "qp"
  BY DEF QuadraticEnds, DriverInv, OnTheWay
<1>3. \/ \E x, z : \E passed \in BOOLEAN : Report(IF passed THEN "optimal" ELSE "numerical_failure", x, z, passed, TRUE)
      \/ \E statuses : \E canonical \in BOOLEAN : Nothing(statuses, canonical)
  BY DEF QuadraticEnds, VerifyQp
<1>4. PICK s, x, z : \E original, canonical \in BOOLEAN : Report(s, x, z, original, canonical)
  BY <1>3 DEF Nothing
<1>5. PICK original \in BOOLEAN, canonical \in BOOLEAN : Report(s, x, z, original, canonical)
  BY <1>4
<1>6. StatusIsRight'
  BY <1>1, <1>2, <1>5, ReportIsRight
<1> QED
  BY <1>1, <1>2, <1>5, <1>6, EndsRight DEF Report

\* A step of presolve keeps the points of the model given.
LEMMA PresolvingKeeps == ASSUME DriverInv, Presolving PROVE DriverInv'
<1>1. /\ phase = "presolve" /\ PresolveStep
      /\ UNCHANGED <<program, phase, presolved, scalers, report>>
  BY DEF Presolving, driverVars, commandVars, checkVars
<1>2. Given /\ StackBase /\ Pivots /\ scalers = NoScalers /\ report = NoReport
  BY <1>1 DEF DriverInv, OnTheWay, Forward
<1>3. PICK v : Accounts(v)
  BY <1>1 DEF DriverInv, OnTheWay, Forward
<1>4. canon' = canon
  BY <1>1 DEF PresolveStep, EmptyRow, EmptyColumn, RowSingleton, NextScan, NextPass, Constant
<1>5. PresolveInv' /\ canon'.rows \subseteq DOMAIN rhs'
  BY <1>1, <1>2, PresolveKeeps, RhsKept DEF Given
<1>6. Given'
  BY <1>1, <1>2, <1>4, <1>5 DEF Given
<1>7. PresolveTypeOK
  BY <1>2 DEF Given, PresolveInv
<1>8. Pivots'
  BY <1>1, <1>2, <1>7, PivotsKept
<1>9. StackBase' /\ \E w : Accounts(w)'
  BY <1>1, <1>2, <1>3, <1>7, PresolveAccounts DEF Carried
<1>10. OnTheWay' /\ OnTheWayBack'
  BY <1>1, <1>2, <1>8, <1>9 DEF OnTheWay, OnTheWayBack, NoScalers
<1> QED
  BY <1>1, <1>2, <1>6, <1>10, NothingReported DEF DriverInv, NoReport

\* Presolve ends: what it finds infeasible has no point.
LEMMA PresolvedKeeps == ASSUME DriverInv, Presolved PROVE DriverInv'
<1>1. phase = "presolve" /\ UNCHANGED <<program, scalers, report, presolveVars, answerVars>>
  BY DEF Presolved, commandVars, checkVars
<1>2. Given /\ StackBase /\ Pivots /\ (\E v : Accounts(v)) /\ scalers = NoScalers /\ report = NoReport
  BY <1>1 DEF DriverInv, OnTheWay, Forward
<1>3. Given' /\ (StackBase /\ Pivots /\ \E v : Accounts(v))'
  BY <1>1, <1>2, GivenStays, RemovalsStay
<1>4. Points0' = Points0
  BY <1>1 DEF Points0, presolveVars
<1>5. CASE verdict \in {"infeasible", "unbounded"} /\ result' = verdict /\ phase' = "check"
  <2>1. result' = "infeasible" => Points0 = {}
    BY <1>2, <1>5 DEF Given, PresolveInv, KeepsPoint
  <2>2. OnTheWay' /\ OnTheWayBack'
    BY <1>4, <1>5, <2>1 DEF OnTheWay, OnTheWayBack, Forward
  <2> QED
    BY <1>1, <1>2, <1>3, <2>2, NothingReported DEF DriverInv, NoReport
<1>6. CASE presolved' = TRUE /\ phase' = "scale"
  <2>1. OnTheWay' /\ OnTheWayBack'
    BY <1>1, <1>2, <1>3, <1>6 DEF OnTheWay, OnTheWayBack, NoScalers
  <2> QED
    BY <1>1, <1>2, <1>3, <2>1, NothingReported DEF DriverInv, NoReport
<1> QED
  BY <1>5, <1>6 DEF Presolved

\* The engine is given what is left, scaled or not.
LEMMA ScaleKeeps == ASSUME DriverInv, Scale PROVE DriverInv'
<1>1. phase = "scale" /\ UNCHANGED <<program, presolved, report, presolveVars, answerVars>>
  BY DEF Scale, commandVars, checkVars
<1>2. /\ Given /\ StackBase /\ Pivots /\ (\E v : Accounts(v)) /\ scalers = NoScalers /\ report = NoReport
      /\ presolved \/ Untouched
  BY <1>1 DEF DriverInv, OnTheWay, Forward
<1>3. Given' /\ (StackBase /\ Pivots /\ \E v : Accounts(v))' /\ (Untouched => Untouched')
  BY <1>1, <1>2, GivenStays, RemovalsStay
<1>4. Working' = Working
  BY <1>1 DEF Working, Reduced, presolveVars, keptVars
<1>5. /\ phase' = "engine" /\ stage' # "done"
      /\ lp' = IF scalers'.applied THEN Equilibrated(Working, scalers'.row, scalers'.col) ELSE Working
  <2>1. ASSUME NEW r \in RowScales, NEW k \in ColScales,
               scalers' = [applied |-> TRUE, row |-> r, col |-> k], Engine(Equilibrated(Working, r, k))
        PROVE  lp' = IF scalers'.applied THEN Equilibrated(Working, scalers'.row, scalers'.col) ELSE Working
    BY <2>1 DEF Engine
  <2>2. ASSUME Engine(Working), scalers' = scalers
        PROVE  lp' = IF scalers'.applied THEN Equilibrated(Working, scalers'.row, scalers'.col) ELSE Working
    BY <1>2, <2>2 DEF Engine, NoScalers
  <2>3. \E m : Engine(m)
    BY DEF Scale
  <2>4. phase' = "engine" /\ stage' # "done"
    BY <2>3 DEF Engine
  <2> QED
    BY <2>1, <2>2, <2>4 DEF Scale
<1>6. OnTheWay'
  BY <1>1, <1>2, <1>3, <1>5 DEF OnTheWay
<1>7. OnTheWayBack'
  BY <1>4, <1>5 DEF OnTheWayBack, WorkedOn, AnswerInv
<1> QED
  BY <1>1, <1>2, <1>3, <1>6, <1>7, NothingReported DEF DriverInv, NoReport

\* The simplex methods leave what certify accepted.
LEMMA RunningKeeps == ASSUME DriverInv, Running PROVE DriverInv'
  BY DriverStays, SimplexAccepts DEF Running

\* Nothing left to solve: zero is the answer.
LEMMA ShortcutKeeps == ASSUME DriverInv, Shortcut PROVE DriverInv'
<1>1. /\ phase = "scale" /\ UNCHANGED <<program, presolved, scalers, report, presolveVars>>
      /\ result' = "optimal" /\ (Working.rows = {} \/ Working.cols = {})
  BY DEF Shortcut, commandVars
<1>2. /\ Given /\ StackBase /\ Pivots /\ report = NoReport
      /\ presolved \/ Untouched
  BY <1>1 DEF DriverInv, OnTheWay, Forward
<1>3. PICK v : Accounts(v)
  BY <1>1 DEF DriverInv, OnTheWay, Forward
<1>4. ModelRecord(canon) /\ PresolveTypeOK /\ WorkingIsLeft
  BY <1>2, CanonIsLinear, WorksOnWhatIsLeft DEF Given
<1>5. PICK x, y : /\ x = [j \in Working.cols |-> 0] /\ y = [i \in Working.rows |-> 0]
                  /\ HandBack(x, y, 1)
  BY DEF Shortcut
<1>6. x \in [colActive -> Int] /\ y \in [rowActive -> Int] /\ 1 \in Nat \ {0}
  BY <1>4, <1>5 DEF WorkingIsLeft
<1>7. Least(x, 1) \/ Bare(x)
  <2>1. CASE Working.rows = {}
    BY <1>4, <1>5, <2>1 DEF WorkingIsLeft, Bare
  <2>2. CASE Working.cols = {}
    <3>1. colActive = {}
      BY <1>4, <2>2 DEF WorkingIsLeft
    <3>2. \A g : LeftCost(g) = 0
      BY <3>1, TotalEmpty, Zenon DEF LeftCost
    <3> QED
      BY <3>2 DEF Least
  <2> QED
    BY <1>1, <2>1, <2>2
<1>8. presolved \/ (rowActive = canon.rows /\ colActive = canon.cols /\ stack = <<>>)
  BY <1>2 DEF Untouched
<1>9. BackInv' /\ (phase' = "undo" \/ (phase' = "check" /\ stack' = <<>>))
  <2>1. UNCHANGED presolveVars /\ PresolveTypeOK /\ StackBase /\ Pivots
    BY <1>1, <1>2, <1>4
  <2> QED
    BY <1>3, <1>5, <1>6, <1>7, <1>8, <2>1, HandsBack
<1>10. Given'
  BY <1>1, <1>2, GivenStays
<1>11. OnTheWay' /\ OnTheWayBack'
  BY <1>1, <1>9 DEF OnTheWay, OnTheWayBack, Forward
<1> QED
  BY <1>1, <1>2, <1>9, <1>10, <1>11, NothingReported DEF DriverInv, NoReport

\* The engine's answer is one to what is left, whether it was scaled or not.
LEMMA AnswerUnscaled ==
  ASSUME WorkingIsLeft, Unclamped, lp = WorkedOn, AcceptedFor(lp, answer),
         NEW x, x = IF scalers.applied THEN Unscaled(answer.primal, scalers.col) ELSE answer.primal,
         NEW y, y = IF scalers.applied THEN Unscaled(answer.dual, scalers.row) ELSE answer.dual
  PROVE  /\ answer.status = "optimal" =>
              answer.den \in Nat \ {0} /\ OptimalWitness(Scaled(Working, answer.den), x, y)
         /\ answer.status = "infeasible" => \E c : FarkasWitness(Working, c)
<1>1. PICK m, r, k, d, u, w, c :
        /\ m = Working /\ r = scalers.row /\ k = scalers.col
        /\ d = answer.den /\ u = answer.primal /\ w = answer.dual /\ c = answer.certificate
  OBVIOUS
<1>2. ModelRecord(m) /\ LinearModel(m)
  BY <1>1 DEF WorkingIsLeft
<1>3. CASE scalers.applied
  <2>1. lp = Equilibrated(m, r, k) /\ InRange(m, r, k) /\ x = Unscaled(u, k) /\ y = Unscaled(w, r)
    BY <1>1, <1>3 DEF WorkedOn, Unclamped
  <2>2. ASSUME answer.status = "optimal" PROVE d \in Nat \ {0} /\ OptimalWitness(Scaled(m, d), x, y)
    <3>1. d \in Nat \ {0} /\ OptimalWitness(Scaled(Equilibrated(m, r, k), d), u, w)
      BY <1>1, <2>1, <2>2 DEF AcceptedFor
    <3>2. OptimalWitness(Scaled(m, d), Unscaled(u, k), Unscaled(w, r))
      BY <1>2, <2>1, <3>1, OptimumUnscales
    <3> QED
      BY <2>1, <3>1, <3>2
  <2>3. ASSUME answer.status = "infeasible" PROVE \E f : FarkasWitness(m, f)
    <3>1. FarkasWitness(Equilibrated(m, r, k), c)
      BY <1>1, <2>1, <2>3 DEF AcceptedFor
    <3> QED
      BY <1>2, <2>1, <3>1, FarkasUnscales
  <2> QED
    BY <1>1, <2>2, <2>3
<1>4. CASE ~ scalers.applied
  BY <1>4 DEF WorkedOn, AcceptedFor
<1> QED
  BY <1>3, <1>4

\* An accepted optimum is handed back; an accepted Farkas vector leaves no point.
LEMMA AnsweredKeeps == ASSUME DriverInv, Unclamped, Answered PROVE DriverInv'
<1>1. /\ phase = "engine" /\ stage = "done" /\ UNCHANGED <<program, presolved, scalers, report, presolveVars>>
      /\ result' = answer.status
  BY DEF Answered, commandVars
<1>2. /\ Given /\ StackBase /\ Pivots /\ report = NoReport
      /\ presolved \/ Untouched
      /\ lp = WorkedOn /\ AnswerInv
  BY <1>1 DEF DriverInv, OnTheWay, OnTheWayBack, Forward
<1>3. PICK v : Accounts(v)
  BY <1>1 DEF DriverInv, OnTheWay, Forward
<1>4. ModelRecord(canon) /\ PresolveTypeOK /\ WorkingIsLeft
  BY <1>2, CanonIsLinear, WorksOnWhatIsLeft DEF Given
<1>5. PICK x, y, d : /\ x = IF scalers.applied THEN Unscaled(answer.primal, scalers.col) ELSE answer.primal
                     /\ y = IF scalers.applied THEN Unscaled(answer.dual, scalers.row) ELSE answer.dual
                     /\ d = answer.den
  OBVIOUS
<1>6. /\ answer.status = "optimal" => d \in Nat \ {0} /\ OptimalWitness(Scaled(Working, d), x, y)
      /\ answer.status = "infeasible" => \E c : FarkasWitness(Working, c)
  <2>1. CASE answer.status \in Ends
    BY <1>1, <1>2, <1>4, <1>5, <2>1, AnswerUnscaled DEF AnswerInv
  <2>2. CASE answer.status \notin Ends
    BY <2>2 DEF Ends
  <2> QED
    BY <2>1, <2>2
<1>7. Given' /\ report' = NoReport /\ StatusIsRight'
  BY <1>1, <1>2, GivenStays, NothingReported
<1>8. PresolveInv /\ Points0' = Points0
  BY <1>1, <1>2 DEF Given, Points0, presolveVars
<1>9. CASE answer.status = "optimal"
  <2>1. HandBack(x, y, d)
    BY <1>5, <1>9 DEF Answered
  <2>2. x \in [colActive -> Int] /\ y \in [rowActive -> Int] /\ Least(x, d) /\ d \in Nat \ {0}
    BY <1>4, <1>6, <1>8, <1>9, AnswerIsLeast
  <2>3. presolved \/ (rowActive = canon.rows /\ colActive = canon.cols /\ stack = <<>>)
    BY <1>2 DEF Untouched
  <2>4. UNCHANGED presolveVars /\ PresolveTypeOK /\ StackBase /\ Pivots
    BY <1>1, <1>2, <1>4
  <2>5. BackInv' /\ (phase' = "undo" \/ (phase' = "check" /\ stack' = <<>>))
    BY <1>3, <2>1, <2>2, <2>3, <2>4, HandsBack
  <2>6. OnTheWay' /\ OnTheWayBack'
    BY <1>1, <1>9, <2>5 DEF OnTheWay, OnTheWayBack, Forward
  <2> QED
    BY <1>7, <2>6 DEF DriverInv
<1>10. CASE answer.status # "optimal"
  <2>1. phase' = "check"
    BY <1>10 DEF Answered
  <2>2. result' = "infeasible" => Points0' = {}
    BY <1>1, <1>4, <1>6, <1>8, AnswerMeansNoPoint
  <2>3. OnTheWay' /\ OnTheWayBack'
    BY <1>1, <1>10, <2>1, <2>2 DEF OnTheWay, OnTheWayBack, Forward
  <2> QED
    BY <1>7, <2>3 DEF DriverInv
<1> QED
  BY <1>9, <1>10

\* Postsolve: undoing the stack brings the answer back.
LEMMA UndoingKeeps == ASSUME DriverInv, Undoing PROVE DriverInv'
<1>1. phase = "undo" /\ UNCHANGED <<program, result, report>>
  BY DEF Undoing, commandVars
<1>2. Given /\ result = "optimal" /\ BackInv /\ report = NoReport /\ PresolveTypeOK
  BY <1>1 DEF DriverInv, OnTheWayBack, Given, PresolveInv
<1>3. UNCHANGED <<canon, rowActive, colActive, rhs, offset, verdict>>
  BY DEF Undoing, Undo, presolveVars, keptVars
<1>4. Given'
  BY <1>1, <1>2, <1>3, GivenStays
<1>5. CASE Undo /\ UNCHANGED phase
  <2>1. BackInv'
    BY <1>2, <1>5, UndoKeeps
  <2>2. OnTheWay' /\ OnTheWayBack'
    BY <1>1, <1>2, <1>5, <2>1 DEF OnTheWay, OnTheWayBack, Forward
  <2> QED
    BY <1>1, <1>2, <1>4, <2>2, NothingReported DEF DriverInv, NoReport
<1>6. CASE stack = <<>> /\ phase' = "check" /\ UNCHANGED <<presolveVars, answerVars>>
  <2>1. BackInv' /\ stack' = <<>>
    BY <1>2, <1>6, BackStays DEF presolveVars, keptVars
  <2>2. OnTheWay' /\ OnTheWayBack'
    BY <1>1, <1>2, <1>6, <2>1 DEF OnTheWay, OnTheWayBack, Forward
  <2> QED
    BY <1>1, <1>2, <1>4, <2>2, NothingReported DEF DriverInv, NoReport
<1> QED
  BY <1>5, <1>6 DEF Undoing

\* An optimum that passes the checks is better than every point.
LEMMA OptimumIsRight ==
  ASSUME Given, BackInv, stack = <<>>, CanonicalCheck, NEW z,
         Objective(Over(program, unit), Reconstruct(program, primal, unit)) = z,
         NEW g \in Feasible
  PROVE  ~ Better(g, unit, z)
<1>1. PICK p, X, d : p = program /\ X = primal /\ d = unit
  OBVIOUS
<1>2. PICK G : G = CanonicalPoint(p, g)
  OBVIOUS
<1>3. /\ WellFormed(p) /\ canon = Canonical(p) /\ AllInt(g, p.vars) /\ InBounds(p, g) /\ G \in Points0
      /\ PresolveInv /\ ModelRecord(canon)
  BY <1>1, <1>2, FeasiblePoint, CanonIsLinear DEF Given
<1>4. CostOf(canon, primal) <= unit * CostOf(canon, G)
  BY <1>3, LeastComesBack
<1>5. d \in Nat \ {0} /\ X \in [canon.cols -> Int] /\ canon.cols = DOMAIN ColsOf(p)
  BY <1>1, <1>3, CanonicalFields DEF BackInv, Typed
<1>6. AllInt(X, DOMAIN ColsOf(p)) /\ CostOf(Canonical(p), X) <= d * CostOf(Canonical(p), CanonicalPoint(p, g))
  BY <1>1, <1>2, <1>3, <1>4, <1>5 DEF AllInt
<1>7. ~ p.sense * Objective(p, g) * d < p.sense * Objective(Over(p, d), Reconstruct(p, X, d))
  BY <1>3, <1>5, <1>6, CheaperMapsBack
<1> QED
  BY <1>1, <1>7 DEF Better

\* The last check and the report.
LEMMA CheckKeeps == ASSUME DriverInv, Check PROVE DriverInv'
<1>1. phase = "check" /\ UNCHANGED <<program, engine, unit, presolveVars>>
  BY DEF Check, commandVars, answerVars
<1>2. /\ Given
      /\ result = "optimal" => BackInv /\ stack = <<>>
      /\ result = "infeasible" => Points0 = {}
  BY <1>1 DEF DriverInv, OnTheWayBack
<1>3. CASE result = "optimal" /\ CanonicalCheck
  <2>1. PICK x, z, passed :
          /\ x = Reconstruct(program, primal, unit) /\ passed = Passes(x, z, unit)
          /\ Report(IF passed THEN "optimal" ELSE "numerical_failure", x, z, passed, TRUE)
    BY <1>3 DEF Check, Ends
  <2>2. PICK s : s = IF passed THEN "optimal" ELSE "numerical_failure"
    OBVIOUS
  <2>3. passed \in BOOLEAN /\ Report(s, x, z, passed, TRUE) /\ (s = "optimal" => Passes(x, z, unit))
    BY <2>1, <2>2 DEF Passes
  <2>4. ASSUME s = "optimal", NEW g \in Feasible PROVE ~ Better(g, unit, z)
    <3>1. Objective(Over(program, unit), Reconstruct(program, primal, unit)) = z
      BY <2>1, <2>3, <2>4 DEF Passes
    <3> QED
      BY <1>2, <1>3, <2>4, <3>1, OptimumIsRight
  <2>5. StatusIsRight'
    BY <1>1, <2>2, <2>3, <2>4, ReportIsRight
  <2> QED
    BY <1>1, <1>2, <2>3, <2>5, EndsRight DEF Report
<1>4. CASE result = "infeasible"
  <2>1. Report("infeasible", <<>>, 0, FALSE, TRUE)
    BY <1>4 DEF Check, Ends
  <2>2. Feasible = {}
    BY <1>2, <1>4, NoPointNoPoint
  <2>3. StatusIsRight'
    BY <1>1, <2>1, <2>2, ReportIsRight
  <2> QED
    BY <1>1, <1>2, <2>1, <2>3, EndsRight DEF Report
<1>5. ASSUME NEW s, s \notin {"optimal", "infeasible"}, NEW canonical \in BOOLEAN, Report(s, <<>>, 0, FALSE, canonical)
      PROVE  DriverInv'
  <2>1. StatusIsRight'
    BY <1>1, <1>5, ReportIsRight
  <2> QED
    BY <1>1, <1>2, <1>5, <2>1, EndsRight DEF Report
<1>6. \/ result = "optimal" /\ CanonicalCheck
      \/ result = "infeasible"
      \/ \E s : \E canonical \in BOOLEAN :
           s \notin {"optimal", "infeasible"} /\ Report(s, <<>>, 0, FALSE, canonical)
  <2>1. CASE result = "optimal" /\ ~ CanonicalCheck
    BY <2>1 DEF Check, Ends
  <2>2. CASE result = "unbounded"
    BY <2>2 DEF Check, Ends
  <2>3. CASE result \notin Ends
    BY <2>3 DEF Check, Ends
  <2> QED
    BY <2>1, <2>2, <2>3 DEF Ends
<1> QED
  BY <1>3, <1>4, <1>5, <1>6

\* An exception verifies nothing.
LEMMA ThrowsKeeps == ASSUME DriverInv, Throws PROVE DriverInv'
<1>1. UNCHANGED <<program, presolveVars>> /\ phase' = "ended" /\ Given
  BY DEF Throws, commandVars, DriverInv, Report
<1>2. result' \notin Ends /\ ~ report'.verified
  <2>1. PICK s \in {"invalid_model", "resource_limit", "numerical_failure"} :
          Report(s, <<>>, 0, originalVerified, canonicalVerified)
    BY DEF Throws
  <2>2. s # "optimal" /\ s # "infeasible" /\ s # "unbounded"
    BY <2>1
  <2>3. /\ result' = s
        /\ report'.verified = ((s = "optimal" /\ originalVerified /\ canonicalVerified)
                                 \/ (s \in {"infeasible", "unbounded"} /\ canonicalVerified))
    BY <2>1 DEF Report
  <2> QED
    BY <2>2, <2>3 DEF Ends
<1>3. StatusIsRight'
  BY <1>2 DEF StatusIsRight, BySimplex
<1> QED
  BY <1>1, <1>3, EndsRight

-----------------------------------------------------------------------------
(***************************************************************************)
(* The answers of the driver are right, whatever the model, the options    *)
(* and the path through presolve, scaling, the simplex methods and the way *)
(* back: a verified optimum satisfies the model given and has the          *)
(* objective reported, and of the simplex methods no point is better; a    *)
(* model they find infeasible has no point.                                *)
(***************************************************************************)
THEOREM AnswersAreRight == Spec /\ []Unclamped => []StatusIsRight
<1>1. Init => DriverInv
  BY DriverStarts
<1>2. DriverInv /\ Unclamped /\ [Next]_vars => DriverInv'
  <2> SUFFICES ASSUME DriverInv, Unclamped, [Next]_vars PROVE DriverInv'
    OBVIOUS
  <2>1. CASE Next
    BY <2>1, ResolveKeeps, ExternalKeeps, QuadraticKeeps, QuadraticEndsKeeps, PresolvingKeeps, PresolvedKeeps,
       ScaleKeeps, RunningKeeps, ShortcutKeeps, AnsweredKeeps, UndoingKeeps, CheckKeeps, ThrowsKeeps DEF Next
  <2>2. CASE UNCHANGED vars
    <3>1. UNCHANGED <<driverVars, presolveVars, answerVars, lp, stage, answer>>
      BY <2>2 DEF vars, engineVars, simplexVars
    <3>2. phase = "engine" => lp' = lp /\ AnswerInv'
      BY <3>1 DEF DriverInv, OnTheWayBack, AnswerInv
    <3> QED
      BY <3>1, <3>2, DriverStays
  <2> QED
    BY <2>1, <2>2
<1>3. DriverInv => StatusIsRight
  BY DEF DriverInv
<1> QED
  BY <1>1, <1>2, <1>3, PTL DEF Spec

-----------------------------------------------------------------------------
\* The accounts of presolve in the driver.
\* No step takes the driver off the model given.
LEMMA GivenKept == ASSUME Given, [Next]_vars PROVE Given'
<1>1. CASE Presolving
  <2>1. PresolveStep /\ program' = program
    BY <1>1 DEF Presolving, driverVars, commandVars
  <2>2. canon' = canon
    BY <2>1 DEF PresolveStep, EmptyRow, EmptyColumn, RowSingleton, NextScan, NextPass, Constant
  <2>3. PresolveInv' /\ canon'.rows \subseteq DOMAIN rhs'
    BY <2>1, PresolveKeeps, RhsKept DEF Given
  <2> QED
    BY <2>1, <2>2, <2>3 DEF Given
<1>2. CASE Undoing
  <2>1. UNCHANGED <<program, canon, rowActive, colActive, rhs, offset, verdict>>
    BY <1>2 DEF Undoing, Undo, commandVars, presolveVars, keptVars
  <2> QED
    BY <2>1, GivenStays
<1>3. ASSUME ~ Presolving, ~ Undoing PROVE UNCHANGED <<program, presolveVars>>
  BY <1>3 DEF Next, vars, driverVars, commandVars, Resolve, External, Quadratic, QuadraticEnds, Presolved, Scale, Running,
       Shortcut, Answered, Check, Throws
<1> QED
  BY <1>1, <1>2, <1>3, GivenStays

\* The inductive invariant of the accounts of presolve: postsolve starts after
\* it, and until then the stack accounts for the rows removed as well.
AccountsInv ==
  /\ Given
  /\ presolved => verdict = "reduced"
  /\ phase = "undo" => presolved
  /\ verdict = "open" => StackBase /\ \E v : Accounts(v) /\ RowsAccounted(v)

\* At the start nothing is removed.
LEMMA AccountsStarts == Init => AccountsInv
<1> SUFFICES ASSUME NEW k \in Commands,
                    PipelineInit(k.program, k.engine, k.warm, k.presolve, k.scale)
             PROVE  AccountsInv
  BY DEF Init
<1>1. Given
  BY DriverStarts DEF Init, DriverInv
<1>2. PICK m : m = Canonical(k.program)
  OBVIOUS
<1>3. LinearModel(m) /\ m.offset \in Int
  BY <1>2, CommandsAreWellFormed, CanonicalFields
<1>4. PresolveInit(m) /\ presolved = FALSE /\ phase = "given"
  BY <1>2 DEF PipelineInit
<1>5. StackBase /\ \E v : Accounts(v) /\ RowsAccounted(v)
  BY <1>3, <1>4, AccountsStart
<1> QED
  BY <1>1, <1>4, <1>5 DEF AccountsInv

\* Presolve keeps its accounts, and nothing else touches them before it ends.
LEMMA AccountsKept == ASSUME AccountsInv, ExactQuotients, [Next]_vars PROVE AccountsInv'
<1>1. Given' /\ PresolveTypeOK
  BY GivenKept DEF AccountsInv, Given, PresolveInv
<1>2. CASE Presolving
  <2>1. PresolveStep /\ UNCHANGED <<phase, presolved>> /\ phase = "presolve"
    BY <1>2 DEF Presolving, driverVars
  <2>2. verdict = "open"
    BY <2>1 DEF PresolveStep, EmptyRow, EmptyColumn, RowSingleton, NextScan, NextPass
  <2>3. PICK v : Accounts(v) /\ RowsAccounted(v)
    BY <2>2 DEF AccountsInv
  <2>4. StackBase' /\ Carried(v)
    BY <1>1, <2>1, <2>2, <2>3, PresolveAccounts DEF AccountsInv
  <2>5. \E w : Accounts(w)' /\ RowsAccounted(w)'
    BY <2>3, <2>4 DEF Carried
  <2> QED
    BY <1>1, <2>1, <2>2, <2>4, <2>5 DEF AccountsInv
<1>3. CASE Undoing
  <2>1. phase = "undo" /\ phase' \in {"undo", "check"} /\ presolved' = presolved /\ verdict' = verdict
    BY <1>3 DEF Undoing, Undo, presolveVars
  <2> QED
    BY <1>1, <2>1 DEF AccountsInv
<1>4. CASE ~ Presolving /\ ~ Undoing
  <2>1. UNCHANGED presolveVars
    BY <1>4 DEF Next, vars, Resolve, External, Quadratic, QuadraticEnds, Presolved, Scale, Running,
         Shortcut, Answered, Check, Throws
  <2>2. UNCHANGED <<canon, keptVars, verdict>>
    BY <2>1 DEF presolveVars
  <2>3. verdict' = "open" => StackBase' /\ \E v : Accounts(v)' /\ RowsAccounted(v)'
    <3> SUFFICES ASSUME verdict = "open" PROVE StackBase' /\ \E v : Accounts(v)' /\ RowsAccounted(v)'
      BY <2>2
    <3>1. PICK v : Accounts(v) /\ RowsAccounted(v)
      BY DEF AccountsInv
    <3>2. StackBase' /\ Carried(v)
      BY <2>2, <3>1, AccountsStay DEF AccountsInv
    <3> QED
      BY <3>1, <3>2 DEF Carried
  <2>4. (presolved' => verdict' = "reduced") /\ (phase' = "undo" => presolved')
    <3>1. CASE Presolved
      BY <2>2, <3>1 DEF Presolved
    <3>2. CASE Shortcut
      BY <2>2, <3>2 DEF Shortcut, HandBack, AccountsInv
    <3>3. CASE Answered
      BY <2>2, <3>3 DEF Answered, HandBack, AccountsInv
    <3>4. CASE Quadratic \/ Running \/ UNCHANGED vars
      BY <2>2, <3>4 DEF Quadratic, Running, vars, driverVars, AccountsInv
    <3>5. CASE Resolve
      BY <2>2, <3>5 DEF Resolve, AccountsInv
    <3>6. CASE External \/ QuadraticEnds \/ Check \/ Throws
      <4>1. phase' = "ended" /\ presolved' = presolved
        BY <3>6 DEF External, TreeEnds, FirstOrderEnds, Claimed, Nothing, QuadraticEnds, Check, Throws, Report
      <4> QED
        BY <2>2, <4>1 DEF AccountsInv
    <3>7. CASE Scale
      BY <2>2, <3>7 DEF Scale, Engine, AccountsInv
    <3> QED
      BY <1>4, <3>1, <3>2, <3>3, <3>4, <3>5, <3>6, <3>7 DEF Next
  <2> QED
    BY <1>1, <2>3, <2>4 DEF AccountsInv
<1> QED
  BY <1>2, <1>3, <1>4

\* A column removed has the value of the record that names it.
LEMMA FixedToValue ==
  ASSUME StackBase, NEW v, Accounts(v), NEW j \in Removed PROVE FixedTo(j) = v[j] /\ v[j] \in Nat
<1> DEFINE recs == {k \in DOMAIN stack : stack[k].kind \in {"column", "fixed"} /\ stack[k].col = j}
<1>1. recs # {}
  BY DEF StackBase, Recorded, Gives
<1>2. PICK k : k = CHOOSE l \in recs : TRUE
  OBVIOUS
<1>3. k \in recs /\ FixedTo(j) = stack[k].value
  BY <1>1, <1>2 DEF FixedTo
<1>4. stack[k].value = v[j]
  BY <1>3 DEF Accounts, RecordsAgree, Gives
<1> QED
  BY <1>3, <1>4 DEF Accounts

\* Where the stack accounts for everything, what is left is equivalent.
LEMMA AccountedIsEquivalent == AccountsInv => Equivalent
<1> SUFFICES ASSUME AccountsInv, verdict = "open"
             PROVE  /\ \A j \in Removed : FixedTo(j) >= 0
                    /\ \A i \in canon.rows :
                         IF i \in rowActive
                         THEN rhs[i] = canon.b[i] - Total([j \in Removed |-> canon.a[i][j] * FixedTo(j)], Removed)
                         ELSE RowEntries(i) = {}
                                /\ canon.b[i] = Total([j \in Removed |-> canon.a[i][j] * FixedTo(j)], Removed)
                    /\ offset = canon.offset + Total([j \in Removed |-> canon.c[j] * FixedTo(j)], Removed)
  BY DEF Equivalent, RemovedTotal
<1>1. PICK v : Accounts(v) /\ RowsAccounted(v)
  BY DEF AccountsInv
<1>2. StackBase
  BY DEF AccountsInv
<1>3. \A j \in Removed : FixedTo(j) = v[j] /\ v[j] \in Nat
  BY <1>1, <1>2, FixedToValue
<1>4. ASSUME NEW u PROVE Total([j \in Removed |-> u[j] * FixedTo(j)], Removed) = RemovedSum(u, v)
  <2>1. [j \in Removed |-> u[j] * FixedTo(j)] = [j \in Removed |-> u[j] * v[j]]
    BY <1>3
  <2> QED
    BY <2>1 DEF RemovedSum
<1>5. ASSUME NEW i \in canon.rows \ rowActive PROVE RowEntries(i) = {}
  BY <1>2, <1>5 DEF StackBase, RowsGone, RowEntries
<1>6. \A i \in rowActive : rhs[i] = canon.b[i] - Total([j \in Removed |-> canon.a[i][j] * FixedTo(j)], Removed)
  BY <1>1, <1>4 DEF Accounts
<1>7. \A i \in canon.rows \ rowActive : canon.b[i] = Total([j \in Removed |-> canon.a[i][j] * FixedTo(j)], Removed)
  BY <1>1, <1>4 DEF RowsAccounted
<1>8. offset = canon.offset + Total([j \in Removed |-> canon.c[j] * FixedTo(j)], Removed)
  BY <1>1, <1>4 DEF Accounts
<1> QED
  BY <1>3, <1>5, <1>6, <1>7, <1>8

(***************************************************************************)
(* The model presolve leaves is equivalent to the canonical model: the     *)
(* records on the stack account for the right-hand sides, the rows removed *)
(* and the offset, if the quotients presolve takes are exact.              *)
(***************************************************************************)
THEOREM PresolveIsEquivalent == Spec /\ []ExactQuotients => []Equivalent
<1>1. Init => AccountsInv
  BY AccountsStarts
<1>2. AccountsInv /\ ExactQuotients /\ [Next]_vars => AccountsInv'
  BY AccountsKept
<1>3. AccountsInv => Equivalent
  BY AccountedIsEquivalent
<1> QED
  BY <1>1, <1>2, <1>3, PTL DEF Spec

-----------------------------------------------------------------------------
(***************************************************************************)
(* Quadratic forms.  Apply is a row of the matrix A at x, over the indices *)
(* S, and Form the quadratic form of A on S.                               *)
(***************************************************************************)
Apply(A, S, i, x) == Total([j \in S |-> A[i][j] * x[j]], S)
Form(A, S, x) == Total([i \in S |-> x[i] * Apply(A, S, i, x)], S)
Square(A, S) == \A i, j \in S : A[i][j] \in Int
Symmetric(A, S) == \A i, j \in S : A[i][j] = A[j][i]

\* The row and the form are integers.
LEMMA ApplyType ==
  ASSUME NEW A, NEW S, IsFiniteSet(S), NEW i, \A j \in S : A[i][j] \in Int, NEW x, AllInt(x, S)
  PROVE  Apply(A, S, i, x) \in Int
<1>1. AllInt([j \in S |-> A[i][j] * x[j]], S)
  BY DEF AllInt
<1> QED
  BY <1>1, TotalType DEF Apply

\* So is the form.
LEMMA FormType ==
  ASSUME NEW A, NEW S, IsFiniteSet(S), Square(A, S), NEW x, AllInt(x, S)
  PROVE  Form(A, S, x) \in Int
<1>1. \A i \in S : Apply(A, S, i, x) \in Int
  BY ApplyType DEF Square
<1>2. AllInt([i \in S |-> x[i] * Apply(A, S, i, x)], S)
  BY <1>1 DEF AllInt
<1> QED
  BY <1>2, TotalType DEF Form

\* One more index adds one more term to a row
LEMMA ApplyInsert ==
  ASSUME NEW A, NEW S, IsFiniteSet(S), NEW k, k \notin S, NEW i,
         \A j \in S \union {k} : A[i][j] \in Int, NEW x, AllInt(x, S \union {k})
  PROVE  Apply(A, S \union {k}, i, x) = A[i][k] * x[k] + Apply(A, S, i, x)
<1> DEFINE T == S \union {k}
           f == [j \in T |-> A[i][j] * x[j]]
           g == [j \in S |-> A[i][j] * x[j]]
<1>1. AllInt(f, T) /\ AllInt(f, S) /\ f[k] = A[i][k] * x[k] /\ \A j \in S : f[j] = g[j]
  BY DEF AllInt
<1>2. Apply(A, T, i, x) = Total(f, T) /\ Apply(A, S, i, x) = Total(g, S)
  BY Zenon DEF Apply
<1> HIDE DEF f, g
<1>3. Total(f, T) = f[k] + Total(f, S)
  BY <1>1, TotalInsert
<1>4. Total(f, S) = Total(g, S)
  BY <1>1, TotalEqual
<1> QED
  BY <1>1, <1>2, <1>3, <1>4

\* and, if the matrix is symmetric, a square and a double product to the form.
LEMMA FormInsert ==
  ASSUME NEW A, NEW S, IsFiniteSet(S), NEW k, k \notin S,
         Square(A, S \union {k}), Symmetric(A, S \union {k}), NEW x, AllInt(x, S \union {k})
  PROVE  Form(A, S \union {k}, x) = x[k] * (A[k][k] * x[k] + Apply(A, S, k, x)) + (x[k] * Apply(A, S, k, x) + Form(A, S, x))
<1> DEFINE T == S \union {k}
           f == [i \in T |-> x[i] * Apply(A, T, i, x)]
           row == [i \in S |-> A[k][i] * x[i]]
           g == [i \in S |-> x[k] * row[i]]
           h == [i \in S |-> x[i] * Apply(A, S, i, x)]
<1>0. AllInt(x, S) /\ Square(A, S) /\ IsFiniteSet(T)
  BY FS_AddElement DEF AllInt, Square
<1>1. /\ \A i \in T : Apply(A, T, i, x) = A[i][k] * x[k] + Apply(A, S, i, x)
      /\ \A i \in T : Apply(A, S, i, x) \in Int /\ Apply(A, T, i, x) \in Int
  <2>1. ASSUME NEW i \in T
        PROVE  (\A j \in T : A[i][j] \in Int) /\ (\A j \in S : A[i][j] \in Int)
    BY DEF Square
  <2>2. ASSUME NEW i \in T
        PROVE  Apply(A, T, i, x) = A[i][k] * x[k] + Apply(A, S, i, x)
    BY <2>1, ApplyInsert
  <2>3. ASSUME NEW i \in T
        PROVE  Apply(A, S, i, x) \in Int /\ Apply(A, T, i, x) \in Int
    BY <1>0, <2>1, ApplyType
  <2> QED
    BY <2>2, <2>3
<1>2. /\ AllInt(f, T) /\ AllInt(f, S) /\ AllInt(row, S) /\ AllInt(g, S) /\ AllInt(h, S)
  <2>1. /\ \A i \in T : x[i] \in Int /\ A[k][i] \in Int
        /\ \A i \in S : row[i] = A[k][i] * x[i] /\ g[i] = x[k] * row[i] /\ h[i] = x[i] * Apply(A, S, i, x)
        /\ \A i \in T : f[i] = x[i] * Apply(A, T, i, x)
    BY DEF AllInt, Square
  <2> HIDE DEF f, row, g, h
  <2>2. AllInt(f, T) /\ AllInt(f, S)
    <3>1. \A i \in T : x[i] \in Int /\ Apply(A, T, i, x) \in Int /\ f[i] = x[i] * Apply(A, T, i, x)
      BY <1>1, <2>1
    <3>2. \A i \in T : f[i] \in Int
      BY <3>1
    <3> QED
      BY <3>2 DEF AllInt
  <2>3. AllInt(row, S)
    BY <2>1 DEF AllInt
  <2>5. AllInt(h, S)
    <3>1. \A i \in S : x[i] \in Int /\ Apply(A, S, i, x) \in Int /\ h[i] = x[i] * Apply(A, S, i, x)
      BY <1>1, <2>1
    <3> QED
      BY <3>1 DEF AllInt
  <2>4. AllInt(g, S)
    BY <2>1, <2>3 DEF AllInt
  <2> QED
    BY <2>2, <2>3, <2>4, <2>5
<1>3. f[k] = x[k] * (A[k][k] * x[k] + Apply(A, S, k, x))
  BY <1>1
<1>4. ASSUME NEW i \in S PROVE f[i] = g[i] + h[i]
  <2>1. /\ x[i] \in Int /\ x[k] \in Int /\ A[i][k] \in Int /\ A[k][i] = A[i][k] /\ Apply(A, S, i, x) \in Int
    BY <1>1 DEF AllInt, Square, Symmetric
  <2>2. f[i] = x[i] * (A[i][k] * x[k] + Apply(A, S, i, x))
    BY <1>1
  <2>3. g[i] = x[k] * (A[i][k] * x[i]) /\ h[i] = x[i] * Apply(A, S, i, x)
    BY <2>1
  <2>4. ASSUME NEW a \in Int, NEW u \in Int, NEW v \in Int, NEW w \in Int
        PROVE  u * (a * v + w) = v * (a * u) + u * w
    BY SMT
  <2> HIDE DEF f, g, h
  <2> QED
    BY <2>1, <2>2, <2>3, <2>4
<1>5. Form(A, T, x) = Total(f, T) /\ Form(A, S, x) = Total(h, S) /\ Apply(A, S, k, x) = Total(row, S)
  BY Zenon DEF Form, Apply
<1>6. x[k] \in Int /\ \A i \in S : g[i] = x[k] * row[i]
  BY DEF AllInt
<1> HIDE DEF f, row, g, h
<1>7. Total(f, T) = f[k] + Total(f, S)
  BY <1>2, TotalInsert
<1>8. Total(f, S) = Total(g, S) + Total(h, S)
  BY <1>2, <1>4, TotalSum
<1>9. Total(g, S) = x[k] * Total(row, S)
  BY <1>2, <1>6, TotalMultiple
<1> QED
  BY <1>3, <1>5, <1>7, <1>8, <1>9, Zenon

\* The form of the matrix that elimination leaves.
LEMMA FormEliminated ==
  ASSUME NEW A, NEW B, NEW S, IsFiniteSet(S), NEW k, k \notin S,
         Square(A, S \union {k}), Symmetric(A, S \union {k}), NEW x, AllInt(x, S \union {k}),
         \A i, j \in S : B[i][j] = A[k][k] * A[i][j] - A[i][k] * A[k][j]
  PROVE  Form(B, S, x) = A[k][k] * Form(A, S, x) - Apply(A, S, k, x) * Apply(A, S, k, x)
<1>0. PICK p, R : p = A[k][k] /\ R = Apply(A, S, k, x)
  OBVIOUS
<1>1. /\ AllInt(x, S) /\ Square(A, S) /\ p \in Int /\ R \in Int
      /\ \A i \in S : A[k][i] \in Int /\ A[i][k] \in Int /\ A[i][k] = A[k][i] /\ x[i] \in Int
  BY <1>0, ApplyType DEF AllInt, Square, Symmetric
<1>2. \A i \in S : Apply(A, S, i, x) \in Int
  BY <1>1, ApplyType DEF Square
<1>3. ASSUME NEW i \in S PROVE Apply(B, S, i, x) = p * Apply(A, S, i, x) + (- A[k][i]) * R
  <2> DEFINE f == [j \in S |-> B[i][j] * x[j]]
             g == [j \in S |-> A[i][j] * x[j]]
             h == [j \in S |-> A[k][j] * x[j]]
             pg == [j \in S |-> p * g[j]]
             ah == [j \in S |-> (- A[k][i]) * h[j]]
  <2>1. AllInt(g, S) /\ AllInt(h, S) /\ AllInt(pg, S) /\ AllInt(ah, S)
    BY <1>1 DEF AllInt, Square
  <2>2. ASSUME NEW j \in S PROVE f[j] = pg[j] + ah[j]
    <3>1. /\ B[i][j] = p * A[i][j] - A[k][i] * A[k][j]
          /\ A[i][j] \in Int /\ A[k][i] \in Int /\ A[k][j] \in Int /\ x[j] \in Int
      BY <1>0, <1>1 DEF Square
    <3>2. ASSUME NEW a \in Int, NEW b \in Int, NEW c \in Int, NEW v \in Int
          PROVE  (p * a - b * c) * v = p * (a * v) + (- b) * (c * v)
      BY <1>1
    <3>3. f[j] = B[i][j] * x[j] /\ pg[j] = p * (A[i][j] * x[j]) /\ ah[j] = (- A[k][i]) * (A[k][j] * x[j])
      OBVIOUS
    <3> HIDE DEF f, pg, ah
    <3> QED
      BY <3>1, <3>2, <3>3
  <2>3. Apply(B, S, i, x) = Total(f, S) /\ Apply(A, S, i, x) = Total(g, S) /\ R = Total(h, S)
    BY <1>0, Zenon DEF Apply
  <2>4. (\A j \in S : pg[j] = p * g[j]) /\ (\A j \in S : ah[j] = (- A[k][i]) * h[j]) /\ - A[k][i] \in Int
    BY <1>1
  <2> HIDE DEF f, g, h, pg, ah
  <2>5. Total(f, S) = Total(pg, S) + Total(ah, S)
    BY <2>1, <2>2, TotalSum
  <2>6. Total(pg, S) = p * Total(g, S)
    BY <1>1, <2>1, <2>4, TotalMultiple
  <2>7. Total(ah, S) = (- A[k][i]) * Total(h, S)
    BY <2>1, <2>4, TotalMultiple
  <2> QED
    BY <2>3, <2>5, <2>6, <2>7, Zenon
<1> DEFINE f == [i \in S |-> x[i] * Apply(B, S, i, x)]
           g == [i \in S |-> x[i] * Apply(A, S, i, x)]
           h == [i \in S |-> A[k][i] * x[i]]
           pg == [i \in S |-> p * g[i]]
           rh == [i \in S |-> (- R) * h[i]]
<1>4. AllInt(g, S) /\ AllInt(h, S) /\ AllInt(pg, S) /\ AllInt(rh, S)
  BY <1>1, <1>2 DEF AllInt
<1>5. ASSUME NEW i \in S PROVE f[i] = pg[i] + rh[i]
  <2>1. /\ f[i] = x[i] * (p * Apply(A, S, i, x) + (- A[k][i]) * R)
        /\ pg[i] = p * (x[i] * Apply(A, S, i, x)) /\ rh[i] = (- R) * (A[k][i] * x[i])
        /\ x[i] \in Int /\ A[k][i] \in Int /\ Apply(A, S, i, x) \in Int
    BY <1>1, <1>2, <1>3
  <2>2. ASSUME NEW u \in Int, NEW v \in Int, NEW w \in Int
        PROVE  u * (p * v + (- w) * R) = p * (u * v) + (- R) * (w * u)
    BY <1>1
  <2> HIDE DEF f, pg, rh
  <2> QED
    BY <2>1, <2>2
<1>6. Form(B, S, x) = Total(f, S) /\ Form(A, S, x) = Total(g, S) /\ R = Total(h, S)
  BY <1>0, Zenon DEF Form, Apply
<1>7. (\A i \in S : pg[i] = p * g[i]) /\ (\A i \in S : rh[i] = (- R) * h[i]) /\ - R \in Int
  BY <1>1
<1> HIDE DEF f, g, h, pg, rh
<1>8. Total(f, S) = Total(pg, S) + Total(rh, S)
  BY <1>4, <1>5, TotalSum
<1>9. Total(pg, S) = p * Total(g, S)
  BY <1>1, <1>4, <1>7, TotalMultiple
<1>10. Total(rh, S) = (- R) * Total(h, S)
  BY <1>4, <1>7, TotalMultiple
<1>11. Total(g, S) \in Int /\ p * Total(g, S) \in Int
  BY <1>1, <1>4, TotalType
<1> QED
  BY <1>0, <1>1, <1>6, <1>8, <1>9, <1>10, <1>11

\* B is what elimination with the pivot k leaves of A on the indices S.
Eliminates(A, B, S, k) ==
  /\ IsFiniteSet(S) /\ k \notin S /\ Square(A, S \union {k}) /\ Symmetric(A, S \union {k})
  /\ \A i, j \in S : B[i][j] = A[k][k] * A[i][j] - A[i][k] * A[k][j]

\* Completing the square,
LEMMA SquareCompletes ==
  ASSUME NEW A, NEW B, NEW S, NEW k, Eliminates(A, B, S, k), NEW x, AllInt(x, S \union {k})
  PROVE  /\ A[k][k] * Form(A, S \union {k}, x)
              = (A[k][k] * x[k] + Apply(A, S, k, x)) * (A[k][k] * x[k] + Apply(A, S, k, x)) + Form(B, S, x)
         /\ A[k][k] * x[k] + Apply(A, S, k, x) \in Int
         /\ Form(B, S, x) \in Int
<1>1. PICK p, v, R, Q, F : /\ p = A[k][k] /\ v = x[k] /\ R = Apply(A, S, k, x)
                           /\ Q = Form(A, S, x) /\ F = Form(A, S \union {k}, x)
  OBVIOUS
<1>2. AllInt(x, S) /\ Square(A, S) /\ IsFiniteSet(S \union {k})
  BY FS_AddElement DEF AllInt, Square, Eliminates
<1>3. p \in Int /\ v \in Int /\ R \in Int /\ Q \in Int /\ F \in Int
  BY <1>1, <1>2, ApplyType, FormType DEF AllInt, Square, Eliminates
<1>4. F = v * (p * v + R) + (v * R + Q)
  <2>1. Form(A, S \union {k}, x) = x[k] * (A[k][k] * x[k] + Apply(A, S, k, x)) + (x[k] * Apply(A, S, k, x) + Form(A, S, x))
    BY FormInsert DEF Eliminates
  <2> QED
    BY <1>1, <2>1, Zenon
<1>5. Form(B, S, x) = p * Q - R * R
  BY <1>1, FormEliminated DEF Eliminates
<1>6. p * F = (p * v + R) * (p * v + R) + (p * Q - R * R)
  BY <1>3, <1>4
<1> QED
  BY <1>1, <1>3, <1>5, <1>6

\* a positive pivot and a form that elimination leaves nonnegative make the
\* form nonnegative.
LEMMA SquareCompleted ==
  ASSUME NEW A, NEW B, NEW S, NEW k, Eliminates(A, B, S, k), NEW x, AllInt(x, S \union {k}),
         A[k][k] > 0, Form(B, S, x) >= 0
  PROVE  Form(A, S \union {k}, x) >= 0
<1>1. PICK p, s, F, f : /\ p = A[k][k] /\ s = A[k][k] * x[k] + Apply(A, S, k, x)
                        /\ F = Form(A, S \union {k}, x) /\ f = Form(B, S, x)
  OBVIOUS
<1>2. IsFiniteSet(S \union {k})
  BY FS_AddElement DEF Eliminates
<1>3. p \in Int /\ F \in Int /\ p > 0
  BY <1>1, <1>2, FormType DEF Square, Eliminates
<1>4. p * F = s * s + f /\ s \in Int /\ f \in Int /\ f >= 0
  <2>1. /\ A[k][k] * Form(A, S \union {k}, x)
             = (A[k][k] * x[k] + Apply(A, S, k, x)) * (A[k][k] * x[k] + Apply(A, S, k, x)) + Form(B, S, x)
        /\ A[k][k] * x[k] + Apply(A, S, k, x) \in Int
        /\ Form(B, S, x) \in Int
    BY SquareCompletes
  <2>2. f >= 0
    BY <1>1
  <2> QED
    BY <1>1, <2>1, <2>2, Zenon
<1>5. s * s >= 0
  BY <1>4
<1>6. F >= 0
  <2>1. ASSUME F < 0 PROVE p * F < 0
    BY <1>3, <2>1
  <2>2. p * F >= 0
    BY <1>3, <1>4, <1>5
  <2> QED
    BY <1>3, <2>1, <2>2
<1> QED
  BY <1>1, <1>6

\* A row of zeros adds nothing to the form.
LEMMA ZeroRow ==
  ASSUME NEW A, NEW S, IsFiniteSet(S), NEW k, k \notin S,
         Square(A, S \union {k}), Symmetric(A, S \union {k}), NEW x, AllInt(x, S \union {k}),
         A[k][k] = 0, \A j \in S : A[k][j] = 0
  PROVE  Form(A, S \union {k}, x) = Form(A, S, x)
<1>1. AllInt(x, S) /\ Square(A, S) /\ x[k] \in Int
  BY DEF AllInt, Square
<1>2. \A j \in S : [i \in S |-> A[k][i] * x[i]][j] = 0
  BY <1>1 DEF AllInt
<1>3. Apply(A, S, k, x) = 0
  BY <1>2, TotalZero DEF Apply
<1>4. Form(A, S, x) \in Int
  BY <1>1, FormType
<1>5. Form(A, S \union {k}, x) = x[k] * (0 * x[k] + 0) + (x[k] * 0 + Form(A, S, x))
  BY <1>3, FormInsert
<1> QED
  BY <1>1, <1>4, <1>5

\* The form at a multiple of a point.
LEMMA FormScaled ==
  ASSUME NEW A, NEW S, IsFiniteSet(S), Square(A, S), NEW p \in Int, NEW y, AllInt(y, S),
         NEW x, \A i \in S : x[i] = p * y[i]
  PROVE  /\ Form(A, S, x) = p * (p * Form(A, S, y))
         /\ \A i : (\A j \in S : A[i][j] \in Int) => Apply(A, S, i, x) = p * Apply(A, S, i, y)
<1>1. ASSUME NEW i, \A j \in S : A[i][j] \in Int PROVE Apply(A, S, i, x) = p * Apply(A, S, i, y)
  <2> DEFINE f == [j \in S |-> A[i][j] * y[j]]
             h == [j \in S |-> A[i][j] * x[j]]
  <2>1. AllInt(f, S)
    BY <1>1 DEF AllInt
  <2>2. \A j \in S : h[j] = p * f[j]
    BY <1>1 DEF AllInt
  <2>3. Apply(A, S, i, x) = Total(h, S) /\ Apply(A, S, i, y) = Total(f, S)
    BY Zenon DEF Apply
  <2> HIDE DEF f, h
  <2> QED
    BY <2>1, <2>2, <2>3, TotalMultiple
<1>2. Form(A, S, x) = p * (p * Form(A, S, y))
  <2> DEFINE f == [i \in S |-> y[i] * Apply(A, S, i, y)]
             g == [i \in S |-> p * f[i]]
             h == [i \in S |-> x[i] * Apply(A, S, i, x)]
  <2>1. \A i \in S : y[i] \in Int /\ Apply(A, S, i, y) \in Int /\ Apply(A, S, i, x) = p * Apply(A, S, i, y)
    BY <1>1, ApplyType DEF Square, AllInt
  <2>2. ASSUME NEW i \in S PROVE f[i] \in Int /\ g[i] = p * f[i] /\ h[i] = p * g[i]
    <3>1. PICK u, v : u = y[i] /\ v = Apply(A, S, i, y)
      OBVIOUS
    <3>2. u \in Int /\ v \in Int /\ f[i] = u * v /\ g[i] = p * f[i] /\ h[i] = (p * u) * (p * v)
      BY <2>1, <3>1
    <3> HIDE DEF f, g, h
    <3> QED
      BY <3>2
  <2>3. Form(A, S, x) = Total(h, S) /\ Form(A, S, y) = Total(f, S)
    BY Zenon DEF Form
  <2> HIDE DEF f, g, h
  <2>4. AllInt(f, S) /\ AllInt(g, S)
    BY <2>2 DEF AllInt
  <2>5. Total(g, S) = p * Total(f, S)
    BY <2>2, <2>4, TotalMultiple
  <2>6. Total(h, S) = p * Total(g, S)
    BY <2>2, <2>4, TotalMultiple
  <2> QED
    BY <2>3, <2>5, <2>6, Zenon
<1> QED
  BY <1>1, <1>2

\* The form at a unit vector is the entry on the diagonal.
LEMMA FormUnit ==
  ASSUME NEW A, NEW S, IsFiniteSet(S), Square(A, S), NEW k \in S,
         NEW x, x[k] = 1, \A i \in S \ {k} : x[i] = 0
  PROVE  /\ Form(A, S, x) = A[k][k]
         /\ \A i : A[i][k] \in Int /\ (\A j \in S : A[i][j] \in Int) => Apply(A, S, i, x) = A[i][k]
<1>1. ASSUME NEW i, A[i][k] \in Int, \A j \in S : A[i][j] \in Int PROVE Apply(A, S, i, x) = A[i][k]
  <2> DEFINE f == [j \in S |-> A[i][j] * x[j]]
  <2>1. f[k] = A[i][k] /\ f[k] \in Int
    BY <1>1
  <2>2. \A j \in S \ {k} : f[j] = 0
    BY <1>1
  <2>3. Apply(A, S, i, x) = Total(f, S)
    BY Zenon DEF Apply
  <2> HIDE DEF f
  <2> QED
    BY <2>1, <2>2, <2>3, TotalSingle
<1>2. Form(A, S, x) = A[k][k]
  <2> DEFINE f == [i \in S |-> x[i] * Apply(A, S, i, x)]
  <2>1. \A i \in S : Apply(A, S, i, x) = A[i][k] /\ A[i][k] \in Int
    BY <1>1 DEF Square
  <2>2. f[k] = A[k][k] /\ f[k] \in Int
    BY <2>1
  <2>3. \A i \in S \ {k} : f[i] = 0
    BY <2>1
  <2>4. Form(A, S, x) = Total(f, S)
    BY Zenon DEF Form
  <2> HIDE DEF f
  <2> QED
    BY <2>2, <2>3, <2>4, TotalSingle
<1> QED
  BY <1>1, <1>2

(***************************************************************************)
(* The test of convexity.  Its fold is a recursion over sets of indices    *)
(* that takes the largest last, so it passes through the states after 0,   *)
(* 1, 2 ... pivots.                                                        *)
(***************************************************************************)
Recurses(base, S, D, g) ==
  g = [s \in D |-> IF s = {} THEN base ELSE Pivoted(g[s \ {Largest(s)}], [k \in S |-> k][Largest(s)])]

\* The fold is the recursion over all sets of indices.
LEMMA PivotsUnfold ==
  ASSUME NEW base, NEW S
  PROVE  FoldLeft(Pivoted, base, [k \in S |-> k]) = (CHOOSE g : Recurses(base, S, SUBSET S, g))[S]
  BY DEF FoldLeft, MapThenFoldSet, Largest, Recurses

\* The recursion has a solution.
LEMMA EliminationExists ==
  ASSUME NEW base, NEW S \in SUBSET Int, IsFiniteSet(S)
  PROVE  \E g : Recurses(base, S, SUBSET S, g)
<1> DEFINE G == {n \in Nat : \E g : Recurses(base, S, UpTo(S, n), g)}
           next(g, s) == Pivoted(g[s \ {Largest(s)}], [k \in S |-> k][Largest(s)])
<1>0. \A s \in SUBSET S : IsFiniteSet(s) /\ Cardinality(s) \in Nat /\ Cardinality(s) <= Cardinality(S)
  BY FS_Subset, FS_CardinalityType
<1>1. 0 \in G
  <2> DEFINE g == [s \in UpTo(S, 0) |-> base]
  <2>1. \A s \in UpTo(S, 0) : s = {}
    BY <1>0, FS_EmptySet DEF UpTo
  <2>2. Recurses(base, S, UpTo(S, 0), g)
    BY <2>1 DEF Recurses
  <2> QED
    BY <2>2
<1>2. ASSUME NEW n \in Nat, n \in G PROVE n + 1 \in G
  <2>1. PICK g : Recurses(base, S, UpTo(S, n), g)
    BY <1>2
  <2> DEFINE h == [s \in UpTo(S, n + 1) |-> IF s = {} THEN base ELSE next(g, s)]
  <2>2. ASSUME NEW s \in UpTo(S, n + 1), s # {} PROVE s \ {Largest(s)} \in UpTo(S, n)
    <3>1. IsFiniteSet(s) /\ s \in SUBSET Int /\ s \in SUBSET S
      BY <1>0 DEF UpTo
    <3>2. Largest(s) \in s
      BY <2>2, <3>1, LargestOfSet
    <3>3. Cardinality(s \ {Largest(s)}) = Cardinality(s) - 1
      BY <3>1, <3>2, FS_RemoveElement
    <3>4. Cardinality(s) \in Nat /\ Cardinality(s) <= n + 1
      BY <1>0, <3>1 DEF UpTo
    <3>5. s \ {Largest(s)} \in SUBSET S
      BY <3>1
    <3>6. Cardinality(s \ {Largest(s)}) <= n
      BY <3>3, <3>4
    <3> QED
      BY <3>5, <3>6 DEF UpTo
  <2>3. ASSUME NEW s \in UpTo(S, n) PROVE g[s] = h[s]
    <3>1. s \in UpTo(S, n + 1)
      BY <1>0 DEF UpTo
    <3> QED
      BY <3>1, <2>1, Zenon DEF Recurses
  <2>4. h = [s \in UpTo(S, n + 1) |-> IF s = {} THEN base ELSE next(h, s)]
    <3>1. ASSUME NEW s \in UpTo(S, n + 1), s # {} PROVE next(g, s) = next(h, s)
      BY <2>2, <2>3, <3>1, Zenon
    <3> HIDE DEF next
    <3> QED
      BY <3>1
  <2>5. Recurses(base, S, UpTo(S, n + 1), h)
    BY <2>4, Zenon DEF Recurses
  <2> QED
    BY <2>5
<1>3. Cardinality(S) \in G
  <2> HIDE DEF G
  <2> QED
    BY <1>1, <1>2, NatSetInduction, FS_CardinalityType
<1>4. UpTo(S, Cardinality(S)) = SUBSET S
  BY <1>0 DEF UpTo
<1> QED
  BY <1>3, <1>4

\* So the fold passes through the states after each pivot.
LEMMA PivotsInOrder ==
  ASSUME NEW base, NEW n \in Nat
  PROVE  \E st : /\ st[0] = base
                 /\ \A k \in 1 .. n : st[k] = Pivoted(st[k - 1], k)
                 /\ FoldLeft(Pivoted, base, [k \in 1 .. n |-> k]) = st[n]
<1> DEFINE S == 1 .. n
           g == CHOOSE h : Recurses(base, S, SUBSET S, h)
           st == [k \in 0 .. n |-> g[1 .. k]]
<1>1. S \in SUBSET Int /\ IsFiniteSet(S)
  BY FS_Interval
<1>2. Recurses(base, S, SUBSET S, g)
  BY <1>1, EliminationExists
<1>3. FoldLeft(Pivoted, base, [k \in 1 .. n |-> k]) = g[1 .. n]
  BY PivotsUnfold
<1> HIDE DEF g
<1>4. st[0] = base
  <2>1. 1 .. 0 = {} /\ {} \in SUBSET S
    OBVIOUS
  <2>2. g[{}] = base
    BY <1>2, <2>1, Zenon DEF Recurses
  <2> QED
    BY <2>1, <2>2
<1>5. ASSUME NEW k \in 1 .. n PROVE st[k] = Pivoted(st[k - 1], k)
  <2>1. 1 .. k \in SUBSET S /\ 1 .. k # {} /\ 1 .. k \in SUBSET Int /\ IsFiniteSet(1 .. k)
    <3>1. k \in Int /\ 1 \in 1 .. k
      OBVIOUS
    <3>2. IsFiniteSet(1 .. k)
      BY <3>1, FS_Interval
    <3> QED
      BY <3>1, <3>2
  <2>2. Largest(1 .. k) = k
    <3>1. Largest(1 .. k) \in 1 .. k /\ \A y \in 1 .. k : Largest(1 .. k) >= y
      BY <2>1, LargestOfSet
    <3> QED
      BY <3>1
  <2>3. (1 .. k) \ {k} = 1 .. (k - 1) /\ [i \in S |-> i][k] = k
    OBVIOUS
  <2>4. g[1 .. k] = Pivoted(g[(1 .. k) \ {Largest(1 .. k)}], [i \in S |-> i][Largest(1 .. k)])
    BY <1>2, <2>1, Zenon DEF Recurses
  <2>5. g[1 .. k] = Pivoted(g[1 .. (k - 1)], k)
    BY <2>2, <2>3, <2>4, Zenon
  <2>6. st[k] = g[1 .. k] /\ st[k - 1] = g[1 .. (k - 1)]
    OBVIOUS
  <2> QED
    BY <2>5, <2>6, Zenon
<1>6. st[n] = g[1 .. n]
  OBVIOUS
<1> HIDE DEF st
<1> QED
  BY <1>3, <1>4, <1>5, <1>6

-----------------------------------------------------------------------------
States(n) == [a : [1 .. n -> [1 .. n -> Int]], convex : BOOLEAN]

\* A pivot keeps the rest of the matrix symmetric, and if the test goes on, a
\* form that is not negative after it was not before.
LEMMA PivotSound ==
  ASSUME NEW n \in Nat, NEW k \in 1 .. n, NEW s \in States(n), Symmetric(s.a, k .. n), NEW t, t = Pivoted(s, k)
  PROVE  /\ t \in States(n) /\ Symmetric(t.a, (k + 1) .. n)
         /\ t.convex => s.convex
         /\ \A x : t.convex /\ AllInt(x, 1 .. n) /\ Form(t.a, (k + 1) .. n, x) >= 0 => Form(s.a, k .. n, x) >= 0
<1> DEFINE S == (k + 1) .. n
           A == s.a
<1>1. /\ IsFiniteSet(S) /\ k \notin S /\ S \union {k} = k .. n /\ S \subseteq 1 .. n /\ k .. n \subseteq 1 .. n
  <2>1. IsFiniteSet(S)
    BY FS_Interval
  <2> QED
    BY <2>1
<1>2. /\ A \in [1 .. n -> [1 .. n -> Int]] /\ s.convex \in BOOLEAN /\ DOMAIN A = 1 .. n
      /\ Square(A, k .. n)
      /\ s = [a |-> s.a, convex |-> s.convex]
  <2>1. A \in [1 .. n -> [1 .. n -> Int]] /\ s.convex \in BOOLEAN /\ s = [a |-> s.a, convex |-> s.convex]
    BY DEF States
  <2>2. DOMAIN A = 1 .. n /\ \A i, j \in 1 .. n : A[i][j] \in Int
    BY <2>1
  <2>3. Square(A, k .. n)
    BY <1>1, <2>2 DEF Square
  <2> QED
    BY <2>1, <2>2, <2>3
<1>3. CASE ~ s.convex \/ A[k][k] < 0
  <2>1. t = [s EXCEPT !.convex = FALSE]
    BY <1>3 DEF Pivoted
  <2>2. t \in States(n) /\ t.a = A /\ ~ t.convex
    BY <1>2, <2>1 DEF States
  <2> QED
    BY <1>1, <2>2 DEF Symmetric
<1>4. CASE s.convex /\ A[k][k] = 0
  <2>1. t = [s EXCEPT !.convex = \A j \in DOMAIN s.a : j > k => s.a[k][j] = 0]
    BY <1>4 DEF Pivoted
  <2>2. t \in States(n) /\ t.a = A /\ (t.convex => \A j \in S : A[k][j] = 0)
    <3>1. PICK c \in BOOLEAN : c = \A j \in 1 .. n : j > k => A[k][j] = 0
      OBVIOUS
    <3>2. t = [a |-> A, convex |-> c]
      BY <1>2, <2>1, <3>1
    <3> QED
      BY <1>2, <3>1, <3>2 DEF States
  <2>3. ASSUME NEW x, t.convex, AllInt(x, 1 .. n), Form(t.a, S, x) >= 0 PROVE Form(A, k .. n, x) >= 0
    <3>1. /\ AllInt(x, S \union {k}) /\ Square(A, S \union {k}) /\ Symmetric(A, S \union {k})
          /\ \A j \in S : A[k][j] = 0
      BY <1>1, <1>2, <2>2, <2>3 DEF AllInt
    <3>2. Form(A, S \union {k}, x) = Form(A, S, x)
      <4> HIDE DEF A, S
      <4> QED
        BY <1>1, <1>4, <3>1, ZeroRow
    <3> QED
      BY <1>1, <2>2, <2>3, <3>2
  <2> QED
    BY <1>1, <1>4, <2>2, <2>3 DEF Symmetric
<1>5. CASE s.convex /\ A[k][k] > 0
  <2>1. t = [s EXCEPT !.a = Eliminated(@, k)]
    <3>1. A[k][k] \in Int
      BY <1>2
    <3> QED
      BY <1>5, <3>1 DEF Pivoted
  <2>2. t.a = Eliminated(A, k) /\ t = [a |-> t.a, convex |-> TRUE]
    BY <1>2, <1>5, <2>1
  <2>3. /\ t.a \in [1 .. n -> [1 .. n -> Int]]
        /\ \A i, j \in S : t.a[i][j] = A[k][k] * A[i][j] - A[i][k] * A[k][j]
    <3>1. \A i \in 1 .. n : DOMAIN A[i] = 1 .. n
      BY <1>2
    <3>2. t.a = [i \in 1 .. n |-> [j \in 1 .. n |->
                   IF i > k /\ j > k THEN A[k][k] * A[i][j] - A[i][k] * A[k][j] ELSE A[i][j]]]
      BY <1>2, <2>2, <3>1 DEF Eliminated
    <3>3. ASSUME NEW i \in 1 .. n, NEW j \in 1 .. n
          PROVE  A[i][j] \in Int /\ (A[k][k] * A[i][j] - A[i][k] * A[k][j]) \in Int
      <4>1. A[i][j] \in Int /\ A[k][k] \in Int /\ A[i][k] \in Int /\ A[k][j] \in Int
        BY <1>2
      <4> HIDE DEF A
      <4> QED
        BY <4>1
    <3>4. t.a \in [1 .. n -> [1 .. n -> Int]]
      <4> DEFINE e(i, j) == IF i > k /\ j > k THEN A[k][k] * A[i][j] - A[i][k] * A[k][j] ELSE A[i][j]
      <4>1. ASSUME NEW i \in 1 .. n, NEW j \in 1 .. n PROVE e(i, j) \in Int
        <5>1. PICK u, v : u = A[i][j] /\ v = A[k][k] * A[i][j] - A[i][k] * A[k][j]
          OBVIOUS
        <5>2. u \in Int /\ v \in Int
          BY <3>3, <5>1
        <5> QED
          BY <5>1, <5>2, Zenon
      <4>2. t.a = [i \in 1 .. n |-> [j \in 1 .. n |-> e(i, j)]]
        BY <3>2
      <4> HIDE DEF e
      <4> QED
        BY <4>1, <4>2
    <3>5. ASSUME NEW i \in S, NEW j \in S
          PROVE  t.a[i][j] = A[k][k] * A[i][j] - A[i][k] * A[k][j]
      BY <1>1, <3>2
    <3> QED
      BY <3>4, <3>5
  <2>4. t \in States(n)
    <3>1. PICK B : B = t.a
      OBVIOUS
    <3>2. t = [a |-> B, convex |-> TRUE] /\ B \in [1 .. n -> [1 .. n -> Int]]
      BY <2>2, <2>3, <3>1, Zenon
    <3> QED
      BY <3>2 DEF States
  <2>5. Symmetric(t.a, S)
    <3>1. \A i, j \in k .. n : A[i][j] = A[j][i] /\ A[i][j] \in Int
      BY <1>2 DEF Symmetric, Square
    <3>2. ASSUME NEW i \in S, NEW j \in S PROVE t.a[i][j] = t.a[j][i]
      <4>1. /\ A[i][j] = A[j][i] /\ A[i][k] = A[k][i] /\ A[k][j] = A[j][k]
            /\ A[i][k] \in Int /\ A[j][k] \in Int
        BY <1>1, <3>1
      <4>2. A[i][k] * A[k][j] = A[j][k] * A[k][i]
        BY <4>1
      <4> QED
        BY <2>3, <4>1, <4>2, Zenon
    <3> QED
      BY <3>2 DEF Symmetric
  <2>6. ASSUME NEW x, AllInt(x, 1 .. n), Form(t.a, S, x) >= 0 PROVE Form(A, k .. n, x) >= 0
    <3>1. AllInt(x, S \union {k}) /\ Square(A, S \union {k}) /\ Symmetric(A, S \union {k})
      BY <1>1, <1>2, <2>6 DEF AllInt
    <3>2. PICK B : B = t.a
      OBVIOUS
    <3>3. Form(B, S, x) >= 0 /\ \A i, j \in S : B[i][j] = A[k][k] * A[i][j] - A[i][k] * A[k][j]
      BY <2>3, <2>6, <3>2
    <3>4. Form(A, S \union {k}, x) >= 0
      <4> HIDE DEF A, S
      <4> QED
        BY <1>1, <1>5, <2>6, <3>1, <3>3, SquareCompleted DEF Eliminates
    <3> QED
      BY <1>1, <3>4
  <2> QED
    BY <1>5, <2>2, <2>4, <2>5, <2>6
<1> QED
  BY <1>2, <1>3, <1>4, <1>5

\* The matrix a symmetric test starts from has a form that is nowhere negative
\* if the test ends well.
LEMMA PivotsSound ==
  ASSUME NEW n \in Nat, NEW A \in [1 .. n -> [1 .. n -> Int]], Symmetric(A, 1 .. n),
         FoldLeft(Pivoted, [a |-> A, convex |-> TRUE], [k \in 1 .. n |-> k]).convex,
         NEW x, AllInt(x, 1 .. n)
  PROVE  Form(A, 1 .. n, x) >= 0
<1> DEFINE base == [a |-> A, convex |-> TRUE]
<1>1. PICK st : /\ st[0] = base
                /\ \A k \in 1 .. n : st[k] = Pivoted(st[k - 1], k)
                /\ FoldLeft(Pivoted, base, [k \in 1 .. n |-> k]) = st[n]
  BY PivotsInOrder
<1>2. st[0] \in States(n) /\ Symmetric(st[0].a, 1 .. n) /\ st[0].a = A /\ st[n].convex
  <2>1. base \in States(n) /\ base.a = A
    BY DEF States
  <2> HIDE DEF base
  <2>2. st[n].convex
    BY <1>1 DEF base
  <2> QED
    BY <1>1, <2>1, <2>2
<1> HIDE DEF base
<1> DEFINE G == {k \in Nat : k <= n => st[k] \in States(n) /\ Symmetric(st[k].a, (k + 1) .. n)}
<1>3. 0 \in G
  BY <1>2
<1>4. ASSUME NEW k \in Nat, k \in G PROVE k + 1 \in G
  <2> SUFFICES ASSUME k + 1 <= n
               PROVE  st[k + 1] \in States(n) /\ Symmetric(st[k + 1].a, ((k + 1) + 1) .. n)
    OBVIOUS
  <2>1. k + 1 \in 1 .. n /\ (k + 1) - 1 = k
    OBVIOUS
  <2>2. st[k] \in States(n) /\ Symmetric(st[k].a, (k + 1) .. n) /\ st[k + 1] = Pivoted(st[k], k + 1)
    BY <1>1, <1>4, <2>1
  <2> QED
    BY <2>1, <2>2, PivotSound
<1>5. \A k \in Nat : k \in G
  <2> HIDE DEF G
  <2> QED
    BY <1>3, <1>4, NatSetInduction
<1> DEFINE H == {d \in Nat : d <= n => st[n - d].convex /\ Form(st[n - d].a, (n - d + 1) .. n, x) >= 0}
<1>6. 0 \in H
  <2>1. (n - 0 + 1) .. n = {} /\ n - 0 = n
    OBVIOUS
  <2>2. \A B : Form(B, {}, x) = 0
    BY TotalEmpty DEF Form
  <2> QED
    BY <1>2, <2>1, <2>2
<1>7. ASSUME NEW d \in Nat, d \in H PROVE d + 1 \in H
  <2> SUFFICES ASSUME d + 1 <= n
               PROVE  st[n - (d + 1)].convex /\ Form(st[n - (d + 1)].a, (n - (d + 1) + 1) .. n, x) >= 0
    OBVIOUS
  <2>1. PICK k \in 1 .. n : k = n - d
    OBVIOUS
  <2>2. n - (d + 1) = k - 1 /\ k - 1 \in Nat /\ k - 1 <= n /\ (k - 1) + 1 = k /\ n - d + 1 = k + 1
    BY <2>1
  <2>3. st[k].convex /\ Form(st[k].a, (k + 1) .. n, x) >= 0
    BY <1>7, <2>1, <2>2
  <2>4. k - 1 \in G
    BY <1>5, <2>2
  <2>5. st[k - 1] \in States(n) /\ Symmetric(st[k - 1].a, k .. n) /\ st[k] = Pivoted(st[k - 1], k)
    BY <1>1, <2>2, <2>4
  <2>6. st[k - 1].convex /\ Form(st[k - 1].a, k .. n, x) >= 0
    <3>1. AllInt(x, 1 .. n)
      OBVIOUS
    <3>2. PICK u, t : u = st[k - 1] /\ t = st[k]
      OBVIOUS
    <3>3. /\ t.convex => u.convex
          /\ \A w : t.convex /\ AllInt(w, 1 .. n) /\ Form(t.a, (k + 1) .. n, w) >= 0 => Form(u.a, k .. n, w) >= 0
      <4>1. u \in States(n) /\ Symmetric(u.a, k .. n) /\ t = Pivoted(u, k)
        BY <2>5, <3>2
      <4> HIDE DEF G, H
      <4> QED
        BY <4>1, PivotSound
    <3>4. t.convex /\ Form(t.a, (k + 1) .. n, x) >= 0
      BY <2>3, <3>2
    <3> QED
      BY <3>1, <3>2, <3>3, <3>4
  <2> QED
    BY <2>2, <2>6
<1>8. n \in H
  <2> HIDE DEF H
  <2> QED
    BY <1>6, <1>7, NatSetInduction
<1>9. n - n = 0 /\ n - n + 1 = 1
  OBVIOUS
<1> QED
  BY <1>2, <1>8, <1>9

(***************************************************************************)
(* The quadratic models make_quadratic_model builds: variables 1..n, an    *)
(* integer matrix of which the upper triangle is kept, integer costs and   *)
(* rows, and bounds that do not cross.                                     *)
(***************************************************************************)
QuadraticData(m) ==
  /\ IsFiniteSet(m.vars) /\ IsFiniteSet(m.rows) /\ \E n \in Nat : m.vars = 1 .. n
  /\ m.sense \in {1, -1} /\ m.grid \in Int /\ m.offset \in Int
  /\ \A i, j \in m.vars : m.upper[i][j] \in Int
  /\ \A j \in m.vars : m.q[j] \in Int
  /\ \A r \in m.rows : Bounds(m.lo[r], m.up[r]) /\ \A j \in m.vars : m.a[r][j] \in Int

Dense(m) == [i \in m.vars |-> [j \in m.vars |-> Mirrored(m.upper, i, j)]]

\* The mirrored matrix is symmetric.
LEMMA DenseData ==
  ASSUME NEW m, QuadraticData(m)
  PROVE  /\ Dense(m) \in [m.vars -> [m.vars -> Int]]
         /\ Square(Dense(m), m.vars) /\ Symmetric(Dense(m), m.vars)
         /\ \A i, j \in m.vars : Dense(m)[j][i] = Mirrored(m.upper, i, j)
<1>1. m.vars \subseteq Int
  BY DEF QuadraticData
<1>2. \A i, j \in m.vars : /\ Mirrored(m.upper, i, j) \in Int
                           /\ Mirrored(m.upper, i, j) = Mirrored(m.upper, j, i)
  BY <1>1 DEF QuadraticData, Mirrored
<1> QED
  BY <1>2 DEF Dense, Square, Symmetric

\* The energy is the form of the mirrored matrix.
LEMMA CurvatureIsApply ==
  ASSUME NEW m, QuadraticData(m), NEW x, NEW j \in m.vars
  PROVE  Curvature(m, j, x) = Apply(Dense(m), m.vars, j, x)
<1>1. [i \in m.vars |-> Mirrored(m.upper, i, j) * x[i]] = [i \in m.vars |-> Dense(m)[j][i] * x[i]]
  BY DenseData
<1> QED
  BY <1>1, Zenon DEF Curvature, Apply

\* So is the energy of its form.
LEMMA EnergyIsForm ==
  ASSUME NEW m, QuadraticData(m), NEW x
  PROVE  Energy(m, x) = Form(Dense(m), m.vars, x)
<1>1. [j \in m.vars |-> x[j] * Curvature(m, j, x)] = [j \in m.vars |-> x[j] * Apply(Dense(m), m.vars, j, x)]
  BY CurvatureIsApply
<1> QED
  BY <1>1, Zenon DEF Energy, Form

(***************************************************************************)
(* check_convexity accepts no matrix that curves down: the energy of a     *)
(* model that passed is nowhere negative.                                  *)
(***************************************************************************)
THEOREM ConvexMeansNonnegative ==
  ASSUME NEW m, QuadraticData(m), CheckConvexity(m), NEW x, AllInt(x, m.vars)
  PROVE  Energy(m, x) >= 0
<1>1. PICK n \in Nat : m.vars = 1 .. n
  BY DEF QuadraticData
<1>2. FoldLeft(Pivoted, [a |-> Dense(m), convex |-> TRUE], [k \in m.vars |-> k]).convex
  BY DEF CheckConvexity, Dense
<1>3. PICK A : A = Dense(m)
  OBVIOUS
<1>4. A \in [1 .. n -> [1 .. n -> Int]] /\ Symmetric(A, 1 .. n) /\ AllInt(x, 1 .. n)
  BY <1>1, <1>3, DenseData
<1>5. FoldLeft(Pivoted, [a |-> A, convex |-> TRUE], [k \in 1 .. n |-> k]).convex
  BY <1>1, <1>2, <1>3, Zenon
<1>6. Form(A, 1 .. n, x) >= 0
  BY <1>4, <1>5, PivotsSound
<1> QED
  BY <1>1, <1>3, <1>6, EnergyIsForm

(***************************************************************************)
(* The test of convexity rejects nothing either: where it stops, some      *)
(* integer point has negative energy.                                      *)
(***************************************************************************)
FallsBelow(A, S) == \E x : AllInt(x, S) /\ Form(A, S, x) < 0

\* A negative entry on the diagonal: the unit vector.
LEMMA NegativeDiagonal ==
  ASSUME NEW A, NEW S, IsFiniteSet(S), Square(A, S), NEW k \in S, A[k][k] < 0
  PROVE  FallsBelow(A, S)
<1> DEFINE x == [i \in S |-> IF i = k THEN 1 ELSE 0]
<1>1. AllInt(x, S) /\ x[k] = 1 /\ \A i \in S \ {k} : x[i] = 0
  BY DEF AllInt
<1> HIDE DEF x
<1>2. Form(A, S, x) = A[k][k]
  BY <1>1, FormUnit
<1>3. Form(A, S, x) < 0
  BY <1>2
<1> QED
  BY <1>1, <1>3 DEF FallsBelow

\* A zero on the diagonal in a row that is not zero.
LEMMA ZeroDiagonal ==
  ASSUME NEW A, NEW S, IsFiniteSet(S), NEW k, k \notin S, Square(A, S \union {k}), Symmetric(A, S \union {k}),
         A[k][k] = 0, NEW j \in S, A[k][j] # 0
  PROVE  FallsBelow(A, S \union {k})
<1>1. PICK a, d, t : a = A[k][j] /\ d = A[j][j] /\ t = (- a) * (d * d + 1)
  OBVIOUS
<1>2. a \in Int /\ a # 0 /\ d \in Int
  BY <1>1 DEF Square
<1>3. t \in Int
  BY <1>1, <1>2
<1>4. PICK x : AllInt(x, S \union {k}) /\ AllInt(x, S) /\ x[k] = t /\ x[j] = 1 /\ \A i \in S \ {j} : x[i] = 0
  <2> DEFINE z == [i \in S \union {k} |-> IF i = k THEN t ELSE IF i = j THEN 1 ELSE 0]
  <2>1. AllInt(z, S \union {k}) /\ AllInt(z, S) /\ z[k] = t /\ z[j] = 1 /\ \A i \in S \ {j} : z[i] = 0
    BY <1>3 DEF AllInt
  <2> HIDE DEF z
  <2> QED
    BY <2>1
<1>5. Square(A, S) /\ A[k][j] \in Int /\ \A i \in S : A[k][i] \in Int
  BY DEF Square
<1>6. Form(A, S, x) = d
  BY <1>1, <1>4, <1>5, FormUnit
<1>7. Apply(A, S, k, x) = a
  <2>1. Apply(A, S, k, x) = A[k][j]
    BY <1>4, <1>5, FormUnit
  <2> QED
    BY <1>1, <2>1
<1>8. Form(A, S \union {k}, x) = x[k] * (A[k][k] * x[k] + Apply(A, S, k, x)) + (x[k] * Apply(A, S, k, x) + Form(A, S, x))
  <2>1. AllInt(x, S \union {k})
    BY <1>4
  <2> QED
    <3>1. /\ IsFiniteSet(S) /\ k \notin S
          /\ Square(A, S \union {k}) /\ Symmetric(A, S \union {k})
      OBVIOUS
    <3> QED
      BY ONLY <2>1, <3>1, FormInsert
<1>9. Form(A, S \union {k}, x) = t * (0 * t + a) + (t * a + d)
  BY <1>4, <1>6, <1>7, <1>8, Zenon
<1>10. t * (0 * t + a) + (t * a + d) < 0
  <2>1. PICK u, v : u = a * a /\ v = d * d + 1
    OBVIOUS
  <2>2. u \in Int /\ v \in Int /\ u >= 1 /\ v >= 1 /\ v > d
    <3>1. u \in Int /\ v \in Int
      BY <1>2, <2>1
    <3>2. u >= 1
      <4>1. CASE a > 0
        BY <1>2, <2>1, <4>1
      <4>2. CASE a < 0
        BY <1>2, <2>1, <4>2
      <4> QED
        BY <1>2, <4>1, <4>2
    <3>3. d * d >= 0 /\ d * d >= d
      <4>1. CASE d >= 1
        BY <1>2, <4>1
      <4>2. CASE d <= 0
        BY <1>2, <4>2
      <4> QED
        BY <1>2, <4>1, <4>2
    <3>4. d * d \in Int
      BY <1>2
    <3> QED
      BY <1>2, <2>1, <3>1, <3>2, <3>3, <3>4
  <2>3. t * a = - (u * v)
    BY <1>1, <1>2, <2>1
  <2>4. u * v \in Int /\ u * v >= v
    BY <2>2
  <2>5. t * (0 * t + a) = t * a /\ t * a \in Int
    BY <1>2, <1>3
  <2>6. PICK w, z : w = t * a /\ z = u * v
    OBVIOUS
  <2>7. t * (0 * t + a) + (t * a + d) = w + (w + d) /\ w = - z /\ z \in Int /\ z >= v
    BY <2>3, <2>4, <2>5, <2>6, Zenon
  <2> QED
    BY <1>2, <2>2, <2>7
<1> QED
  BY <1>4, <1>9, <1>10 DEF FallsBelow

\* A positive pivot: the point that completes the square with zero.
LEMMA PositivePivot ==
  ASSUME NEW A, NEW B, NEW S, NEW k, Eliminates(A, B, S, k), A[k][k] > 0, FallsBelow(B, S)
  PROVE  FallsBelow(A, S \union {k})
<1>1. PICK y : AllInt(y, S) /\ Form(B, S, y) < 0
  BY DEF FallsBelow
<1>2. PICK p, R, f : p = A[k][k] /\ R = Apply(A, S, k, y) /\ f = Form(B, S, y)
  OBVIOUS
<1>3. /\ IsFiniteSet(S) /\ k \notin S /\ Square(A, S) /\ Square(B, S) /\ \A i \in S : A[k][i] \in Int
      /\ p \in Int /\ p > 0 /\ IsFiniteSet(S \union {k}) /\ Square(A, S \union {k})
  BY <1>2, FS_AddElement DEF Eliminates, Square
<1>4. R \in Int /\ f \in Int /\ f < 0
  BY <1>1, <1>2, <1>3, ApplyType, FormType
<1>5. PICK x : AllInt(x, S \union {k}) /\ x[k] = - R /\ \A i \in S : x[i] = p * y[i]
  <2> DEFINE z == [i \in S \union {k} |-> IF i = k THEN - R ELSE p * y[i]]
  <2>1. /\ \A i \in S : i # k /\ p * y[i] \in Int
        /\ - R \in Int
    BY <1>1, <1>3, <1>4 DEF AllInt
  <2>2. AllInt(z, S \union {k}) /\ z[k] = - R /\ \A i \in S : z[i] = p * y[i]
    BY <2>1 DEF AllInt
  <2> HIDE DEF z
  <2> QED
    BY <2>2
<1>6. Form(B, S, x) = p * (p * Form(B, S, y))
  BY <1>1, <1>3, <1>5, FormScaled
<1>7. Apply(A, S, k, x) = p * Apply(A, S, k, y)
  <2>1. \A i : (\A j \in S : A[i][j] \in Int) => Apply(A, S, i, x) = p * Apply(A, S, i, y)
    <3>1. IsFiniteSet(S) /\ Square(A, S) /\ p \in Int /\ AllInt(y, S)
      BY <1>1, <1>3
    <3>2. \A i \in S : x[i] = p * y[i]
      BY <1>5
    <3>3. PICK z : z = x
      OBVIOUS
    <3>4. \A i \in S : z[i] = p * y[i]
      BY <3>2, <3>3
    <3>5. \A i : (\A j \in S : A[i][j] \in Int) => Apply(A, S, i, z) = p * Apply(A, S, i, y)
      BY <3>1, <3>4, FormScaled
    <3> QED
      BY <3>3, <3>5, Zenon
  <2> QED
    BY <1>3, <2>1
<1>8. A[k][k] * Form(A, S \union {k}, x)
        = (A[k][k] * x[k] + Apply(A, S, k, x)) * (A[k][k] * x[k] + Apply(A, S, k, x)) + Form(B, S, x)
  BY <1>5, SquareCompletes
<1>9. PICK F : F = Form(A, S \union {k}, x)
  OBVIOUS
<1>10. F \in Int
  BY <1>3, <1>5, <1>9, FormType
<1>11. p * F = (p * (- R) + p * R) * (p * (- R) + p * R) + p * (p * f)
  BY <1>2, <1>5, <1>6, <1>7, <1>8, <1>9, Zenon
<1>12. p * (- R) + p * R = 0 /\ p * f \in Int /\ p * f < 0 /\ p * (p * f) \in Int /\ p * (p * f) < 0
  <2>1. p * (- R) + p * R = 0 /\ p * f \in Int /\ p * f < 0
    BY <1>3, <1>4
  <2>2. p * (p * f) \in Int /\ p * (p * f) < 0
    BY <1>3, <2>1
  <2> QED
    BY <2>1, <2>2
<1>13. p * F < 0
  BY <1>11, <1>12
<1>14. F < 0
  <2>1. ASSUME F >= 0 PROVE p * F >= 0
    BY <1>3, <1>10, <2>1
  <2> QED
    BY <1>3, <1>10, <1>13, <2>1
<1> QED
  BY <1>5, <1>9, <1>14 DEF FallsBelow

\* A row of zeros: the coordinate is left at zero.
LEMMA ZeroRowNegative ==
  ASSUME NEW A, NEW S, IsFiniteSet(S), NEW k, k \notin S, Square(A, S \union {k}), Symmetric(A, S \union {k}),
         A[k][k] = 0, \A j \in S : A[k][j] = 0, FallsBelow(A, S)
  PROVE  FallsBelow(A, S \union {k})
<1>1. PICK y : AllInt(y, S) /\ Form(A, S, y) < 0
  BY DEF FallsBelow
<1> DEFINE x == [i \in S \union {k} |-> IF i = k THEN 0 ELSE y[i]]
<1>2. AllInt(x, S \union {k}) /\ \A i \in S : x[i] = 1 * y[i]
  BY <1>1 DEF AllInt
<1>3. Square(A, S)
  BY DEF Square
<1>4. Form(A, S \union {k}, x) = Form(A, S, x)
  BY <1>2, ZeroRow
<1>5. Form(A, S, x) = 1 * (1 * Form(A, S, y))
  BY <1>1, <1>2, <1>3, FormScaled
<1>6. Form(A, S, y) \in Int
  BY <1>1, <1>3, FormType
<1>7. Form(A, S \union {k}, x) < 0
  BY <1>1, <1>4, <1>5, <1>6
<1> QED
  BY <1>2, <1>7 DEF FallsBelow

\* A pivot at which the test stops shows a point below zero, and so does one
\* that leaves a form below zero.
LEMMA PivotComplete ==
  ASSUME NEW n \in Nat, NEW k \in 1 .. n, NEW s \in States(n), Symmetric(s.a, k .. n), s.convex, NEW t, t = Pivoted(s, k),
         ~ t.convex \/ FallsBelow(t.a, (k + 1) .. n)
  PROVE  FallsBelow(s.a, k .. n)
<1> DEFINE S == (k + 1) .. n
           A == s.a
<1>1. /\ IsFiniteSet(S) /\ k \notin S /\ S \union {k} = k .. n /\ IsFiniteSet(k .. n)
      /\ S \subseteq 1 .. n /\ k .. n \subseteq 1 .. n /\ k \in k .. n
  <2>1. IsFiniteSet(S) /\ IsFiniteSet(k .. n)
    BY FS_Interval
  <2> QED
    BY <2>1
<1>2. /\ A \in [1 .. n -> [1 .. n -> Int]] /\ DOMAIN A = 1 .. n /\ A[k][k] \in Int
      /\ Square(A, k .. n)
      /\ s = [a |-> s.a, convex |-> s.convex]
  <2>1. A \in [1 .. n -> [1 .. n -> Int]] /\ s = [a |-> s.a, convex |-> s.convex]
    BY DEF States
  <2>2. DOMAIN A = 1 .. n /\ \A i, j \in 1 .. n : A[i][j] \in Int
    BY <2>1
  <2>3. Square(A, k .. n)
    BY <1>1, <2>2 DEF Square
  <2>4. A[k][k] \in Int
    BY <2>2
  <2> QED
    BY <2>1, <2>2, <2>3, <2>4
<1>3. Square(A, S \union {k}) /\ Symmetric(A, S \union {k})
  BY <1>1, <1>2
<1>4. CASE A[k][k] < 0
  <2> HIDE DEF A, S
  <2> QED
    BY <1>1, <1>2, <1>4, NegativeDiagonal DEF A
<1>5. CASE A[k][k] = 0
  <2>1. t = [s EXCEPT !.convex = \A j \in DOMAIN s.a : j > k => s.a[k][j] = 0]
    BY <1>5 DEF Pivoted
  <2>2. t.a = A /\ (t.convex <=> \A j \in S : A[k][j] = 0)
    <3>1. PICK c \in BOOLEAN : c = \A j \in 1 .. n : j > k => A[k][j] = 0
      OBVIOUS
    <3>2. t = [a |-> A, convex |-> c]
      BY <1>2, <2>1, <3>1
    <3>3. t.a = A /\ t.convex = c
      BY <3>2
    <3>4. c <=> \A j \in S : A[k][j] = 0
      <4>1. \A j \in 1 .. n : j > k <=> j \in S
        OBVIOUS
      <4> QED
        BY <1>1, <3>1, <4>1
    <3> QED
      BY <3>3, <3>4
  <2> HIDE DEF A, S
  <2>3. CASE \A j \in S : A[k][j] = 0
    <3>1. FallsBelow(A, S)
      BY <2>2, <2>3 DEF S
    <3>2. FallsBelow(A, S \union {k})
      BY <1>1, <1>3, <1>5, <2>3, <3>1, ZeroRowNegative
    <3> QED
      BY <1>1, <3>2 DEF A
  <2>4. CASE ~ \A j \in S : A[k][j] = 0
    <3>1. PICK j \in S : A[k][j] # 0
      BY <2>4
    <3>2. FallsBelow(A, S \union {k})
      BY <1>1, <1>3, <1>5, <3>1, ZeroDiagonal
    <3> QED
      BY <1>1, <3>2 DEF A
  <2> QED
    BY <2>3, <2>4
<1>6. CASE A[k][k] > 0
  <2>1. t = [s EXCEPT !.a = Eliminated(@, k)]
    BY <1>2, <1>6 DEF Pivoted
  <2>2. t.a = Eliminated(A, k) /\ t.convex
    BY <1>2, <2>1
  <2>3. PICK B : B = t.a
    OBVIOUS
  <2>4. \A i, j \in S : B[i][j] = A[k][k] * A[i][j] - A[i][k] * A[k][j]
    <3>1. \A i \in 1 .. n : DOMAIN A[i] = 1 .. n
      BY <1>2
    <3>2. B = [i \in 1 .. n |-> [j \in 1 .. n |->
                   IF i > k /\ j > k THEN A[k][k] * A[i][j] - A[i][k] * A[k][j] ELSE A[i][j]]]
      BY <1>2, <2>2, <2>3, <3>1 DEF Eliminated
    <3> QED
      BY <1>1, <3>2
  <2>5. Eliminates(A, B, S, k)
    BY <1>1, <1>3, <2>4 DEF Eliminates
  <2>6. FallsBelow(B, S)
    BY <2>2, <2>3
  <2> HIDE DEF A, S
  <2>7. FallsBelow(A, S \union {k})
    BY <1>6, <2>5, <2>6, PositivePivot
  <2> QED
    BY <1>1, <2>7 DEF A
<1> QED
  BY <1>2, <1>4, <1>5, <1>6

\* A test that ends badly shows a point below zero.
LEMMA PivotsComplete ==
  ASSUME NEW n \in Nat, NEW A \in [1 .. n -> [1 .. n -> Int]], Symmetric(A, 1 .. n),
         ~ FoldLeft(Pivoted, [a |-> A, convex |-> TRUE], [k \in 1 .. n |-> k]).convex
  PROVE  FallsBelow(A, 1 .. n)
<1>0. PICK base : base = [a |-> A, convex |-> TRUE]
  OBVIOUS
<1>1. PICK st : /\ st[0] = base
                /\ \A k \in 1 .. n : st[k] = Pivoted(st[k - 1], k)
                /\ FoldLeft(Pivoted, base, [k \in 1 .. n |-> k]) = st[n]
  BY PivotsInOrder
<1>2. st[0] \in States(n) /\ Symmetric(st[0].a, 1 .. n) /\ st[0].a = A /\ st[0].convex /\ ~ st[n].convex
  <2>1. base \in States(n) /\ base.a = A /\ base.convex
    BY <1>0 DEF States
  <2>2. ~ st[n].convex
    BY <1>0, <1>1, Zenon
  <2> QED
    BY <1>1, <2>1, <2>2
\* The first state at which the test has stopped comes from one whose form is
\* below zero somewhere, and so has every state before it.
<1> DEFINE Sound(k) == k <= n => /\ st[k] \in States(n) /\ Symmetric(st[k].a, (k + 1) .. n)
                                 /\ ~ st[k].convex \/ FallsBelow(st[k].a, (k + 1) .. n) => FallsBelow(A, 1 .. n)
           G == {k \in Nat : Sound(k)}
<1>3. 0 \in G
  <2>1. (0 + 1) .. n = 1 .. n
    OBVIOUS
  <2> QED
    BY <1>2, <2>1
<1>4. ASSUME NEW k \in Nat, k \in G PROVE k + 1 \in G
  <2> SUFFICES ASSUME k + 1 <= n
               PROVE  /\ st[k + 1] \in States(n) /\ Symmetric(st[k + 1].a, ((k + 1) + 1) .. n)
                      /\ ~ st[k + 1].convex \/ FallsBelow(st[k + 1].a, ((k + 1) + 1) .. n) => FallsBelow(A, 1 .. n)
    OBVIOUS
  <2>1. k + 1 \in 1 .. n /\ (k + 1) - 1 = k
    OBVIOUS
  <2>2. st[k] \in States(n) /\ Symmetric(st[k].a, (k + 1) .. n) /\ st[k + 1] = Pivoted(st[k], k + 1)
    BY <1>1, <1>4, <2>1
  <2>3. ~ st[k].convex \/ FallsBelow(st[k].a, (k + 1) .. n) => FallsBelow(A, 1 .. n)
    BY <1>4, <2>1
  <2> HIDE DEF G
  <2>4. st[k + 1] \in States(n) /\ Symmetric(st[k + 1].a, ((k + 1) + 1) .. n)
    BY <2>1, <2>2, PivotSound
  <2>5. ASSUME ~ st[k + 1].convex \/ FallsBelow(st[k + 1].a, ((k + 1) + 1) .. n) PROVE FallsBelow(A, 1 .. n)
    <3>1. CASE ~ st[k].convex
      BY <2>3, <3>1
    <3>2. CASE st[k].convex
      <4>1. FallsBelow(st[k].a, (k + 1) .. n)
        BY <2>1, <2>2, <2>5, <3>2, PivotComplete
      <4> QED
        BY <2>3, <4>1
    <3> QED
      BY <3>1, <3>2
  <2> QED
    BY <2>4, <2>5
<1>5. n \in G
  <2> HIDE DEF G
  <2> QED
    BY <1>3, <1>4, NatSetInduction
<1> QED
  BY <1>2, <1>5

(***************************************************************************)
(* check_convexity is exact: it accepts a matrix if and only if the energy *)
(* is negative at no integer point, so "the quadratic objective is not     *)
(* convex" is said of no convex model either.                              *)
(***************************************************************************)
THEOREM ConvexityIsExact ==
  ASSUME NEW m, QuadraticData(m)
  PROVE  CheckConvexity(m) <=> \A x : AllInt(x, m.vars) => Energy(m, x) >= 0
<1>1. ASSUME CheckConvexity(m), NEW x, AllInt(x, m.vars) PROVE Energy(m, x) >= 0
  BY <1>1, ConvexMeansNonnegative
<1>2. ASSUME ~ CheckConvexity(m) PROVE \E x : AllInt(x, m.vars) /\ ~ Energy(m, x) >= 0
  <2>1. PICK n \in Nat : m.vars = 1 .. n
    BY DEF QuadraticData
  <2>2. PICK A : A = Dense(m)
    OBVIOUS
  <2>3. A \in [1 .. n -> [1 .. n -> Int]] /\ Symmetric(A, 1 .. n) /\ Square(A, 1 .. n)
    BY <2>1, <2>2, DenseData
  <2>4. FallsBelow(A, 1 .. n)
    <3>1. CASE ~ \A j \in m.vars : m.upper[j][j] >= 0
      <4>1. PICK j \in m.vars : ~ m.upper[j][j] >= 0
        BY <3>1
      <4>2. A[j][j] = m.upper[j][j] /\ m.upper[j][j] \in Int
        <5>1. A[j][j] = Mirrored(m.upper, j, j)
          BY <2>2, <4>1, DenseData
        <5>2. m.upper[j][j] \in Int
          BY <4>1 DEF QuadraticData
        <5>3. Mirrored(m.upper, j, j) = m.upper[j][j]
          BY DEF Mirrored
        <5> QED
          BY <5>1, <5>2, <5>3, Zenon
      <4>3. A[j][j] < 0 /\ j \in 1 .. n /\ IsFiniteSet(1 .. n)
        BY <2>1, <4>1, <4>2, FS_Interval
      <4>4. PICK S : S = 1 .. n
        OBVIOUS
      <4>5. IsFiniteSet(S) /\ Square(A, S) /\ j \in S /\ A[j][j] < 0
        BY <2>3, <4>3, <4>4, Zenon
      <4>6. FallsBelow(A, S)
        BY ONLY <4>5, NegativeDiagonal
      <4> QED
        BY <4>4, <4>6, Zenon
    <3>2. CASE ~ FoldLeft(Pivoted, [a |-> Dense(m), convex |-> TRUE], [k \in m.vars |-> k]).convex
      <4>1. ~ FoldLeft(Pivoted, [a |-> A, convex |-> TRUE], [k \in 1 .. n |-> k]).convex
        BY <2>1, <2>2, <3>2, Zenon
      <4> QED
        BY <2>3, <4>1, PivotsComplete
    <3> QED
      BY <1>2, <3>1, <3>2 DEF CheckConvexity, Dense
  <2>5. PICK x : AllInt(x, 1 .. n) /\ Form(A, 1 .. n, x) < 0
    BY <2>4 DEF FallsBelow
  <2>6. Energy(m, x) = Form(A, 1 .. n, x) /\ Form(A, 1 .. n, x) \in Int
    <3>1. Energy(m, x) = Form(A, 1 .. n, x)
      BY <2>1, <2>2, EnergyIsForm, Zenon
    <3>2. IsFiniteSet(1 .. n)
      BY FS_Interval
    <3>3. Form(A, 1 .. n, x) \in Int
      BY ONLY <2>3, <2>5, <3>2, FormType
    <3> QED
      BY <3>1, <3>3
  <2> QED
    BY <2>1, <2>5, <2>6
<1> QED
  BY <1>1, <1>2

-----------------------------------------------------------------------------
\* Points, directions and multipliers of quadratic models.
\* The rows and the linear costs of a quadratic model, and its matrix, as
\* linear models, to which Adjoint and ValuesAlong apply.
RowsAndCosts(m) ==
  [rows |-> m.rows, cols |-> m.vars, a |-> m.a, b |-> [r \in m.rows |-> 0], c |-> m.q]
Matrix(m) ==
  [rows |-> m.vars, cols |-> m.vars, a |-> Dense(m), b |-> [j \in m.vars |-> 0], c |-> [j \in m.vars |-> 0]]
Cross(m, u, x) == Total([j \in m.vars |-> u[j] * Curvature(m, j, x)], m.vars)

\* Both are models of the kind the sums of linear models are proved for.
LEMMA AreLinear ==
  ASSUME NEW m, QuadraticData(m)
  PROVE  LinearModel(RowsAndCosts(m)) /\ LinearModel(Matrix(m))
<1>1. LinearModel(RowsAndCosts(m))
  BY DEF QuadraticData, LinearModel, RowsAndCosts
<1>2. \A i, j \in m.vars : Dense(m)[i][j] \in Int
  BY DenseData DEF Square
<1>3. LinearModel(Matrix(m))
  BY <1>2 DEF QuadraticData, LinearModel, Matrix
<1> QED
  BY <1>1, <1>3

\* What the rows, the columns and the costs are worth there,
LEMMA QuadraticValues ==
  ASSUME NEW m, NEW x, NEW y
  PROVE  /\ \A r : RowOf(m, r, x) = RowValue(RowsAndCosts(m), r, x)
         /\ \A j : ColumnOf(m, j, y) = ColumnValue(RowsAndCosts(m), j, y)
         /\ Linear(m, x) = CostOf(RowsAndCosts(m), x)
<1>1. /\ RowsAndCosts(m).rows = m.rows /\ RowsAndCosts(m).cols = m.vars
      /\ RowsAndCosts(m).a = m.a /\ RowsAndCosts(m).c = m.q
  BY DEF RowsAndCosts
<1> QED
  BY <1>1, Zenon DEF RowOf, ColumnOf, Linear, RowValue, ColumnValue, CostOf

\* and the matrix, whose rows are its columns.
LEMMA CurvatureValues ==
  ASSUME NEW m, QuadraticData(m), NEW x, NEW j \in m.vars
  PROVE  Curvature(m, j, x) = RowValue(Matrix(m), j, x) /\ Curvature(m, j, x) = ColumnValue(Matrix(m), j, x)
<1>1. /\ Matrix(m).rows = m.vars /\ Matrix(m).cols = m.vars /\ Matrix(m).a = Dense(m)
  BY DEF Matrix
<1>2. \A i \in m.vars : Mirrored(m.upper, i, j) = Dense(m)[i][j] /\ Mirrored(m.upper, i, j) = Dense(m)[j][i]
  BY DenseData DEF Dense
<1>3. /\ [i \in m.vars |-> Mirrored(m.upper, i, j) * x[i]] = [i \in m.vars |-> Dense(m)[j][i] * x[i]]
      /\ [i \in m.vars |-> Mirrored(m.upper, i, j) * x[i]] = [i \in m.vars |-> Dense(m)[i][j] * x[i]]
  BY <1>2
<1> QED
  BY <1>1, <1>3, Zenon DEF Curvature, RowValue, ColumnValue

\* All of them are integers.
LEMMA CurvatureType ==
  ASSUME NEW m, QuadraticData(m), NEW x, AllInt(x, m.vars)
  PROVE  (\A j \in m.vars : Curvature(m, j, x) \in Int) /\ Energy(m, x) \in Int
<1>1. /\ LinearModel(Matrix(m)) /\ ColumnVector(Matrix(m), x) /\ RowVector(Matrix(m), x)
      /\ Matrix(m).rows = m.vars /\ Matrix(m).cols = m.vars
  BY AreLinear DEF ColumnVector, RowVector, Matrix
<1>2. \A j \in m.vars : Curvature(m, j, x) \in Int
  BY <1>1, ValuesAreIntegers, CurvatureValues
<1>3. AllInt([j \in m.vars |-> x[j] * Curvature(m, j, x)], m.vars)
  BY <1>2 DEF AllInt
<1> QED
  BY <1>2, <1>3, TotalType DEF Energy, QuadraticData

\* The linear parts too.
LEMMA LinearTypes ==
  ASSUME NEW m, QuadraticData(m), NEW x, AllInt(x, m.vars), NEW y, AllInt(y, m.rows)
  PROVE  /\ \A r \in m.rows : RowOf(m, r, x) \in Int
         /\ \A j \in m.vars : ColumnOf(m, j, y) \in Int
         /\ Linear(m, x) \in Int
<1>1. /\ LinearModel(RowsAndCosts(m)) /\ ColumnVector(RowsAndCosts(m), x) /\ RowVector(RowsAndCosts(m), y)
      /\ RowsAndCosts(m).rows = m.rows /\ RowsAndCosts(m).cols = m.vars
  BY AreLinear DEF ColumnVector, RowVector, RowsAndCosts
<1> QED
  BY <1>1, ValuesAreIntegers, QuadraticValues

\* The matrix is symmetric.
LEMMA CrossSymmetric ==
  ASSUME NEW m, QuadraticData(m), NEW u, AllInt(u, m.vars), NEW x, AllInt(x, m.vars)
  PROVE  Cross(m, u, x) = Cross(m, x, u)
<1>1. /\ LinearModel(Matrix(m)) /\ ColumnVector(Matrix(m), x) /\ RowVector(Matrix(m), u)
      /\ Matrix(m).rows = m.vars /\ Matrix(m).cols = m.vars
  BY AreLinear DEF ColumnVector, RowVector, Matrix
<1>2. Total([i \in m.vars |-> RowValue(Matrix(m), i, x) * u[i]], m.vars)
        = Total([j \in m.vars |-> ColumnValue(Matrix(m), j, u) * x[j]], m.vars)
  BY <1>1, Adjoint
<1>3. ASSUME NEW j \in m.vars
      PROVE  /\ RowValue(Matrix(m), j, x) * u[j] = u[j] * Curvature(m, j, x)
             /\ ColumnValue(Matrix(m), j, u) * x[j] = x[j] * Curvature(m, j, u)
  <2>1. RowValue(Matrix(m), j, x) = Curvature(m, j, x) /\ ColumnValue(Matrix(m), j, u) = Curvature(m, j, u)
    BY CurvatureValues
  <2>2. Curvature(m, j, x) \in Int /\ Curvature(m, j, u) \in Int /\ x[j] \in Int /\ u[j] \in Int
    BY CurvatureType DEF AllInt
  <2> QED
    BY <2>1, <2>2
<1>4. /\ [i \in m.vars |-> RowValue(Matrix(m), i, x) * u[i]] = [i \in m.vars |-> u[i] * Curvature(m, i, x)]
      /\ [j \in m.vars |-> ColumnValue(Matrix(m), j, u) * x[j]] = [j \in m.vars |-> x[j] * Curvature(m, j, u)]
  BY <1>3
<1> QED
  BY <1>2, <1>4, Zenon DEF Cross

\* The energy along a direction.
LEMMA EnergyAlong ==
  ASSUME NEW m, QuadraticData(m), NEW x, AllInt(x, m.vars), NEW d, AllInt(d, m.vars),
         NEW g, \A j \in m.vars : g[j] = x[j] + d[j]
  PROVE  Energy(m, g) = Energy(m, x) + (Cross(m, d, x) + Cross(m, d, x)) + Energy(m, d)
<1> DEFINE V == m.vars
           xx == [j \in V |-> x[j] * Curvature(m, j, x)]
           xd == [j \in V |-> x[j] * Curvature(m, j, d)]
           dx == [j \in V |-> d[j] * Curvature(m, j, x)]
           dd == [j \in V |-> d[j] * Curvature(m, j, d)]
           ax == [j \in V |-> xx[j] + xd[j]]
           ad == [j \in V |-> dx[j] + dd[j]]
           gg == [j \in V |-> g[j] * Curvature(m, j, g)]
<1>1. \A j \in V : /\ x[j] \in Int /\ d[j] \in Int
                   /\ Curvature(m, j, x) \in Int /\ Curvature(m, j, d) \in Int
  BY CurvatureType DEF AllInt
<1>2. \A j \in V : Curvature(m, j, g) = Curvature(m, j, x) + Curvature(m, j, d)
  <2>1. /\ LinearModel(Matrix(m)) /\ ColumnVector(Matrix(m), x) /\ ColumnVector(Matrix(m), d)
        /\ Matrix(m).rows = V /\ Matrix(m).cols = V
    BY AreLinear DEF ColumnVector, Matrix
  <2>2. \A j \in Matrix(m).cols : g[j] = x[j] + 1 * d[j]
    BY <1>1, <2>1
  <2>3. \A j \in V : RowValue(Matrix(m), j, g) = RowValue(Matrix(m), j, x) + 1 * RowValue(Matrix(m), j, d)
    BY <2>1, <2>2, ValuesAlong
  <2> QED
    BY <1>1, <2>3, CurvatureValues
<1>3. ASSUME NEW j \in V PROVE gg[j] = ax[j] + ad[j]
  <2>1. gg[j] = (x[j] + d[j]) * (Curvature(m, j, x) + Curvature(m, j, d))
    BY <1>2
  <2>2. ax[j] = x[j] * Curvature(m, j, x) + x[j] * Curvature(m, j, d)
    OBVIOUS
  <2>3. ad[j] = d[j] * Curvature(m, j, x) + d[j] * Curvature(m, j, d)
    OBVIOUS
  <2>4. ASSUME NEW a \in Int, NEW b \in Int, NEW u \in Int, NEW v \in Int
        PROVE  (a + b) * (u + v) = (a * u + a * v) + (b * u + b * v)
    OBVIOUS
  <2> HIDE DEF gg, ax, ad
  <2> QED
    BY <1>1, <2>1, <2>2, <2>3, <2>4
<1>4. AllInt(xx, V) /\ AllInt(xd, V) /\ AllInt(dx, V) /\ AllInt(dd, V)
  BY <1>1 DEF AllInt
<1>5. (\A j \in V : ax[j] = xx[j] + xd[j]) /\ (\A j \in V : ad[j] = dx[j] + dd[j])
  OBVIOUS
<1>6. /\ Energy(m, g) = Total(gg, V) /\ Energy(m, x) = Total(xx, V) /\ Energy(m, d) = Total(dd, V)
      /\ Cross(m, d, x) = Total(dx, V) /\ Cross(m, x, d) = Total(xd, V)
  BY Zenon DEF Energy, Cross
<1>7. IsFiniteSet(V)
  BY DEF QuadraticData
<1> HIDE DEF V, xx, xd, dx, dd, ax, ad, gg
<1>8. AllInt(ax, V) /\ AllInt(ad, V)
  BY <1>4, <1>5 DEF AllInt
<1>9. Total(gg, V) = Total(ax, V) + Total(ad, V)
  BY <1>3, <1>7, <1>8, TotalSum
<1>10. Total(ax, V) = Total(xx, V) + Total(xd, V)
  BY <1>4, <1>5, <1>7, TotalSum
<1>11. Total(ad, V) = Total(dx, V) + Total(dd, V)
  BY <1>4, <1>5, <1>7, TotalSum
<1>12. Total(xx, V) \in Int /\ Total(xd, V) \in Int /\ Total(dx, V) \in Int /\ Total(dd, V) \in Int
  BY <1>4, <1>7, TotalType
<1>13. Total(xd, V) = Total(dx, V)
  BY <1>6, CrossSymmetric
<1> QED
  BY <1>6, <1>9, <1>10, <1>11, <1>12, <1>13

\* What a point and multipliers say of each other, along a direction.
LEMMA RowsAlong ==
  ASSUME NEW m, QuadraticData(m), NEW x, AllInt(x, m.vars), NEW d, AllInt(d, m.vars),
         NEW g, \A j \in m.vars : g[j] = x[j] + d[j]
  PROVE  /\ \A r \in m.rows : RowOf(m, r, g) = RowOf(m, r, x) + RowOf(m, r, d)
         /\ Linear(m, g) = Linear(m, x) + Linear(m, d)
<1>1. /\ LinearModel(RowsAndCosts(m)) /\ ColumnVector(RowsAndCosts(m), x) /\ ColumnVector(RowsAndCosts(m), d)
      /\ RowsAndCosts(m).rows = m.rows /\ RowsAndCosts(m).cols = m.vars
  BY AreLinear DEF ColumnVector, RowsAndCosts
<1>2. \A j \in RowsAndCosts(m).cols : g[j] = x[j] + 1 * d[j]
  BY <1>1 DEF AllInt
<1>3. /\ \A r \in m.rows : RowValue(RowsAndCosts(m), r, g) = RowValue(RowsAndCosts(m), r, x) + 1 * RowValue(RowsAndCosts(m), r, d)
      /\ CostOf(RowsAndCosts(m), g) = CostOf(RowsAndCosts(m), x) + 1 * CostOf(RowsAndCosts(m), d)
  BY <1>1, <1>2, ValuesAlong
<1>4. AllInt([r \in m.rows |-> 0], m.rows)
  BY DEF AllInt
<1>5. (\A r \in m.rows : RowOf(m, r, d) \in Int) /\ Linear(m, d) \in Int
  BY <1>4, LinearTypes
<1> QED
  BY <1>3, <1>5, QuadraticValues

\* A point weighs the columns as the multipliers weigh the rows.
LEMMA RowsAndColumns ==
  ASSUME NEW m, QuadraticData(m), NEW x, AllInt(x, m.vars), NEW y, AllInt(y, m.rows)
  PROVE  Total([r \in m.rows |-> RowOf(m, r, x) * y[r]], m.rows)
           = Total([j \in m.vars |-> ColumnOf(m, j, y) * x[j]], m.vars)
<1>1. /\ LinearModel(RowsAndCosts(m)) /\ ColumnVector(RowsAndCosts(m), x) /\ RowVector(RowsAndCosts(m), y)
      /\ RowsAndCosts(m).rows = m.rows /\ RowsAndCosts(m).cols = m.vars
  BY AreLinear DEF ColumnVector, RowVector, RowsAndCosts
<1>2. Total([r \in m.rows |-> RowValue(RowsAndCosts(m), r, x) * y[r]], m.rows)
        = Total([j \in m.vars |-> ColumnValue(RowsAndCosts(m), j, y) * x[j]], m.vars)
  BY <1>1, Adjoint
<1>3. /\ [r \in m.rows |-> RowValue(RowsAndCosts(m), r, x) * y[r]] = [r \in m.rows |-> RowOf(m, r, x) * y[r]]
      /\ [j \in m.vars |-> ColumnValue(RowsAndCosts(m), j, y) * x[j]] = [j \in m.vars |-> ColumnOf(m, j, y) * x[j]]
  BY QuadraticValues
<1> QED
  BY <1>2, <1>3, Zenon

\* The multipliers of rows at their bounds say that no point improves a row
\* in the direction they price.
LEMMA NormalPrices ==
  ASSUME NEW lo, NEW up, Bounds(lo, up), NEW y \in Int, NEW z \in Int, NEW w \in Int,
         Within(w, lo, up),
         y > 0 => up.finite /\ z = up.value, y < 0 => lo.finite /\ z = lo.value
  PROVE  (w - z) * y <= 0
<1>1. lo.value \in Int /\ up.value \in Int
  BY DEF Bounds, IsBound
<1>2. CASE y > 0
  <2>1. w - z <= 0
    BY <1>1, <1>2 DEF Within
  <2> QED
    BY <1>2, <2>1
<1>3. CASE y < 0
  <2>1. w - z >= 0
    BY <1>1, <1>3 DEF Within
  <2> QED
    BY <1>3, <2>1
<1>4. CASE y = 0
  BY <1>4
<1> QED
  BY <1>2, <1>3, <1>4

WithinRows(m, g) == \A r \in m.rows : Within(RowOf(m, r, g), m.lo[r], m.up[r])
Doubled(m, x) == Energy(m, x) + 2 * Linear(m, x)

(***************************************************************************)
(* A stationary point whose multipliers fit its rows is a least one of a   *)
(* model that passed check_convexity: signs and products of multipliers    *)
(* and the test of convexity are what optimality rests on.                 *)
(***************************************************************************)
THEOREM StationaryIsLeast ==
  ASSUME NEW m, QuadraticData(m), CheckConvexity(m),
         NEW x, AllInt(x, m.vars), NEW y, AllInt(y, m.rows),
         InNormalCone(m, [r \in m.rows |-> RowOf(m, r, x)], y), Stationary(m, x, y),
         NEW g, AllInt(g, m.vars), WithinRows(m, g)
  PROVE  Doubled(m, x) <= Doubled(m, g)
<1> DEFINE d == [j \in m.vars |-> g[j] - x[j]]
           W == Total([r \in m.rows |-> RowOf(m, r, d) * y[r]], m.rows)
<1>1. AllInt(d, m.vars) /\ \A j \in m.vars : g[j] = x[j] + d[j]
  BY DEF AllInt
<1> HIDE DEF d
<1>2. /\ \A r \in m.rows : RowOf(m, r, d) \in Int /\ RowOf(m, r, x) \in Int /\ RowOf(m, r, g) \in Int
      /\ \A j \in m.vars : ColumnOf(m, j, y) \in Int
      /\ Linear(m, x) \in Int /\ Linear(m, d) \in Int /\ Energy(m, x) \in Int /\ Energy(m, d) \in Int
      /\ \A j \in m.vars : Curvature(m, j, x) \in Int
  BY <1>1, LinearTypes, CurvatureType
<1>3. \A r \in m.rows : RowOf(m, r, g) = RowOf(m, r, x) + RowOf(m, r, d)
  BY <1>1, RowsAlong
<1>4. W <= 0 /\ W \in Int
  <2> DEFINE f == [r \in m.rows |-> RowOf(m, r, d) * y[r]]
             z == [r \in m.rows |-> 0]
  <2>1. ASSUME NEW r \in m.rows PROVE f[r] <= 0 /\ f[r] \in Int
    <3>1. /\ y[r] \in Int /\ Bounds(m.lo[r], m.up[r])
          /\ y[r] > 0 => m.up[r].finite /\ RowOf(m, r, x) = m.up[r].value
          /\ y[r] < 0 => m.lo[r].finite /\ RowOf(m, r, x) = m.lo[r].value
          /\ Within(RowOf(m, r, g), m.lo[r], m.up[r])
      BY DEF AllInt, QuadraticData, InNormalCone, WithinRows
    <3>2. (RowOf(m, r, g) - RowOf(m, r, x)) * y[r] <= 0
      BY <1>2, <3>1, NormalPrices
    <3>3. RowOf(m, r, d) = RowOf(m, r, g) - RowOf(m, r, x)
      BY <1>2, <1>3
    <3> QED
      BY <1>2, <3>1, <3>2, <3>3
  <2>2. AllInt(f, m.rows) /\ AllInt(z, m.rows) /\ (\A r \in m.rows : z[r] = 0) /\ \A r \in m.rows : f[r] <= z[r]
    BY <2>1 DEF AllInt
  <2>3. IsFiniteSet(m.rows)
    BY DEF QuadraticData
  <2> HIDE DEF f, z
  <2>4. Total(f, m.rows) <= Total(z, m.rows) /\ Total(z, m.rows) = 0 /\ Total(f, m.rows) \in Int
    BY <2>2, <2>3, TotalMonotone, TotalZero, TotalType
  <2> QED
    BY <2>4 DEF f
<1>5. Cross(m, d, x) = - Linear(m, d) - W
  <2> DEFINE V == m.vars
             cr == [j \in V |-> d[j] * Curvature(m, j, x)]
             li == [j \in V |-> m.q[j] * d[j]]
             co == [j \in V |-> ColumnOf(m, j, y) * d[j]]
             su == [j \in V |-> li[j] + co[j]]
  <2>1. \A j \in V : /\ d[j] \in Int /\ m.q[j] \in Int /\ ColumnOf(m, j, y) \in Int /\ Curvature(m, j, x) \in Int
                     /\ Curvature(m, j, x) + m.q[j] + ColumnOf(m, j, y) = 0
    BY <1>1, <1>2 DEF AllInt, QuadraticData, Stationary
  <2>2. ASSUME NEW j \in V PROVE cr[j] = (-1) * su[j]
    <3>1. ASSUME NEW a \in Int, NEW b \in Int, NEW c \in Int, NEW v \in Int, a + b + c = 0
          PROVE  v * a = (-1) * (b * v + c * v)
      <4>1. a = -1 * (b + c)
        BY <3>1
      <4> QED
        BY <4>1
    <3>2. cr[j] = d[j] * Curvature(m, j, x) /\ su[j] = m.q[j] * d[j] + ColumnOf(m, j, y) * d[j]
      OBVIOUS
    <3>3. PICK a, b, c, v : a = Curvature(m, j, x) /\ b = m.q[j] /\ c = ColumnOf(m, j, y) /\ v = d[j]
      OBVIOUS
    <3> HIDE DEF cr, su
    <3>4. a \in Int /\ b \in Int /\ c \in Int /\ v \in Int /\ a + b + c = 0
      BY <2>1, <3>3
    <3>5. v * a = (-1) * (b * v + c * v)
      BY <3>1, <3>4
    <3> QED
      BY <3>2, <3>3, <3>5
  <2>3. AllInt(li, V) /\ AllInt(co, V) /\ \A j \in V : su[j] = li[j] + co[j]
    BY <2>1 DEF AllInt
  <2>4. Cross(m, d, x) = Total(cr, V) /\ Linear(m, d) = Total(li, V)
    BY Zenon DEF Cross, Linear
  <2>5. W = Total(co, V)
    BY <1>1, RowsAndColumns
  <2>6. IsFiniteSet(V)
    BY DEF QuadraticData
  <2> HIDE DEF V, cr, li, co, su, W
  <2>7. AllInt(su, V)
    BY <2>3 DEF AllInt
  <2>8. Total(su, V) = Total(li, V) + Total(co, V)
    BY <2>3, <2>6, TotalSum
  <2>9. Total(cr, V) = (-1) * Total(su, V)
    BY <2>2, <2>6, <2>7, TotalMultiple
  <2> QED
    BY <1>2, <1>4, <2>4, <2>5, <2>8, <2>9
<1>6. Energy(m, g) = Energy(m, x) + (Cross(m, d, x) + Cross(m, d, x)) + Energy(m, d)
  BY <1>1, EnergyAlong
<1>7. Linear(m, g) = Linear(m, x) + Linear(m, d)
  BY <1>1, RowsAlong
<1>8. Energy(m, d) >= 0
  BY <1>1, ConvexMeansNonnegative
<1> HIDE DEF W
<1> QED
  BY <1>2, <1>4, <1>5, <1>6, <1>7, <1>8 DEF Doubled

(***************************************************************************)
(* A certificate of infeasibility is one: a model whose multipliers pass   *)
(* the test of the loop has no point.                                      *)
(***************************************************************************)
THEOREM CertificateMeansInfeasible ==
  ASSUME NEW m, QuadraticData(m), NEW y, AllInt(y, m.rows), ProvesInfeasible(m, y),
         NEW g, AllInt(g, m.vars)
  PROVE  ~ WithinRows(m, g)
<1> SUFFICES ASSUME WithinRows(m, g) PROVE FALSE
  OBVIOUS
<1> DEFINE f == [r \in m.rows |-> RowOf(m, r, g) * y[r]]
           h == [r \in m.rows |-> y[r] * (IF y[r] > 0 THEN m.up[r].value ELSE m.lo[r].value)]
           k == [j \in m.vars |-> ColumnOf(m, j, y) * g[j]]
<1>1. \A r \in m.rows : RowOf(m, r, g) \in Int
  BY LinearTypes
<1>2. ASSUME NEW r \in m.rows PROVE f[r] \in Int /\ h[r] \in Int /\ f[r] <= h[r]
  <2>1. /\ y[r] \in Int /\ m.lo[r].value \in Int /\ m.up[r].value \in Int
        /\ y[r] > 0 => m.up[r].finite
        /\ y[r] < 0 => m.lo[r].finite
        /\ RowOf(m, r, g) \in Int /\ Within(RowOf(m, r, g), m.lo[r], m.up[r])
    BY <1>1 DEF AllInt, QuadraticData, Bounds, IsBound, ProvesInfeasible, Blocked, WithinRows
  <2>2. PICK w, v, lo, up : w = RowOf(m, r, g) /\ v = y[r] /\ lo = m.lo[r].value /\ up = m.up[r].value
    OBVIOUS
  <2>3. CASE v > 0
    <3>1. w <= up
      BY <2>1, <2>2, <2>3 DEF Within
    <3>2. f[r] = w * v /\ h[r] = v * up
      BY <2>2, <2>3
    <3> HIDE DEF f, h
    <3> QED
      BY <2>1, <2>2, <2>3, <3>1, <3>2
  <2>4. CASE v < 0
    <3>1. lo <= w
      BY <2>1, <2>2, <2>4 DEF Within
    <3>2. f[r] = w * v /\ h[r] = v * lo
      BY <2>1, <2>2, <2>4
    <3> HIDE DEF f, h
    <3> QED
      BY <2>1, <2>2, <2>4, <3>1, <3>2
  <2>5. CASE v = 0
    <3>0. ~ y[r] > 0
      BY <2>2, <2>5
    <3>1. f[r] = w * v /\ h[r] = v * lo
      BY <2>2, <3>0
    <3> HIDE DEF f, h
    <3> QED
      BY <2>1, <2>2, <2>5, <3>1
  <2> QED
    BY <2>1, <2>2, <2>3, <2>4, <2>5
<1>3. AllInt(f, m.rows) /\ AllInt(h, m.rows) /\ \A r \in m.rows : f[r] <= h[r]
  BY <1>2 DEF AllInt
<1>4. \A j \in m.vars : k[j] = 0
  BY DEF ProvesInfeasible, AllInt
<1>5. IsFiniteSet(m.rows) /\ IsFiniteSet(m.vars)
  BY DEF QuadraticData
<1>6. Total(f, m.rows) = Total(k, m.vars)
  BY RowsAndColumns
<1>7. Total(h, m.rows) < 0
  BY Zenon DEF ProvesInfeasible, Support
<1> HIDE DEF f, h, k
<1>8. Total(k, m.vars) = 0
  BY <1>4, <1>5, TotalZero
<1>9. Total(f, m.rows) <= Total(h, m.rows) /\ Total(h, m.rows) \in Int
  BY <1>3, <1>5, TotalMonotone, TotalType
<1> QED
  BY <1>6, <1>7, <1>8, <1>9

\* The curvature at a multiple of a direction.
LEMMA CurvatureScaled ==
  ASSUME NEW m, QuadraticData(m), NEW d, AllInt(d, m.vars), NEW t \in Int,
         NEW e, \A i \in m.vars : e[i] = t * d[i], NEW j \in m.vars
  PROVE  Curvature(m, j, e) = t * Curvature(m, j, d)
<1>1. PICK A, V : A = Dense(m) /\ V = m.vars
  OBVIOUS
<1>2. IsFiniteSet(V) /\ Square(A, V) /\ AllInt(d, V) /\ j \in V
  BY <1>1, DenseData DEF QuadraticData
<1>3. \A i \in V : e[i] = t * d[i]
  BY <1>1
<1>4. \A i : (\A k \in V : A[i][k] \in Int) => Apply(A, V, i, e) = t * Apply(A, V, i, d)
  BY <1>2, <1>3, FormScaled
<1>5. \A k \in V : A[j][k] \in Int
  BY <1>2 DEF Square
<1>6. Apply(A, V, j, e) = t * Apply(A, V, j, d)
  BY <1>4, <1>5
<1> QED
  BY <1>1, <1>6, CurvatureIsApply

(***************************************************************************)
(* A certificate of unboundedness is one: from any point of the model the  *)
(* direction goes on for ever through points of the model, and the         *)
(* objective falls by at least one with every step.                        *)
(***************************************************************************)
THEOREM CertificateMeansUnbounded ==
  ASSUME NEW m, QuadraticData(m), NEW d, AllInt(d, m.vars), ProvesUnbounded(m, d),
         NEW x, AllInt(x, m.vars), WithinRows(m, x), NEW t \in Nat,
         NEW g, \A j \in m.vars : g[j] = x[j] + t * d[j]
  PROVE  AllInt(g, m.vars) /\ WithinRows(m, g) /\ Doubled(m, g) <= Doubled(m, x) - t
<1>1. PICK e : AllInt(e, m.vars) /\ \A j \in m.vars : e[j] = t * d[j] /\ g[j] = x[j] + e[j]
  <2> DEFINE f == [j \in m.vars |-> t * d[j]]
  <2>1. AllInt(f, m.vars) /\ \A j \in m.vars : f[j] = t * d[j] /\ g[j] = x[j] + f[j]
    BY DEF AllInt
  <2> HIDE DEF f
  <2> QED
    BY <2>1
<1>2. AllInt(g, m.vars)
  BY <1>1 DEF AllInt
<1>3. IsFiniteSet(m.vars)
  BY DEF QuadraticData
<1>4. /\ (\A r \in m.rows : RowOf(m, r, x) \in Int /\ RowOf(m, r, d) \in Int)
      /\ Linear(m, x) \in Int /\ Linear(m, d) \in Int /\ Energy(m, x) \in Int
  <2>1. AllInt([r \in m.rows |-> 0], m.rows)
    BY DEF AllInt
  <2> QED
    BY <2>1, LinearTypes, CurvatureType
<1>5. /\ \A r \in m.rows : RowOf(m, r, g) = RowOf(m, r, x) + t * RowOf(m, r, d)
      /\ Linear(m, g) = Linear(m, x) + t * Linear(m, d)
  <2>1. PICK k : k = RowsAndCosts(m)
    OBVIOUS
  <2>2. LinearModel(k) /\ ColumnVector(k, x) /\ ColumnVector(k, d) /\ k.rows = m.rows /\ k.cols = m.vars
    BY <2>1, AreLinear DEF ColumnVector, RowsAndCosts
  <2>3. \A j \in k.cols : g[j] = x[j] + t * d[j]
    BY <2>2
  <2>4. /\ \A r \in k.rows : RowValue(k, r, g) = RowValue(k, r, x) + t * RowValue(k, r, d)
        /\ CostOf(k, g) = CostOf(k, x) + t * CostOf(k, d)
    BY <2>2, <2>3, ValuesAlong
  <2> QED
    BY <2>1, <2>2, <2>4, QuadraticValues
<1>6. ASSUME NEW j \in m.vars PROVE Curvature(m, j, e) = 0
  <2>1. \A i \in m.vars : e[i] = t * d[i]
    BY <1>1
  <2>2. Curvature(m, j, e) = t * Curvature(m, j, d)
    BY <2>1, CurvatureScaled
  <2> QED
    BY <2>2 DEF ProvesUnbounded
<1>7. Energy(m, e) = 0 /\ Cross(m, x, e) = 0
  <2>1. /\ \A j \in m.vars : [i \in m.vars |-> e[i] * Curvature(m, i, e)][j] = 0
        /\ \A j \in m.vars : [i \in m.vars |-> x[i] * Curvature(m, i, e)][j] = 0
    BY <1>1, <1>6 DEF AllInt
  <2> QED
    BY <1>3, <2>1, TotalZero DEF Energy, Cross
<1>8. Energy(m, g) = Energy(m, x)
  <2>1. Energy(m, g) = Energy(m, x) + (Cross(m, e, x) + Cross(m, e, x)) + Energy(m, e)
    BY <1>1, EnergyAlong
  <2>2. Cross(m, e, x) = 0
    BY <1>1, <1>7, CrossSymmetric
  <2> QED
    BY <1>4, <1>7, <2>1, <2>2
<1>9. Doubled(m, g) <= Doubled(m, x) - t
  <2>1. PICK a, b, c : a = Energy(m, x) /\ b = Linear(m, x) /\ c = Linear(m, d)
    OBVIOUS
  <2>2. a \in Int /\ b \in Int /\ c \in Int /\ c < 0
    BY <1>4, <2>1 DEF ProvesUnbounded
  <2>3. t * c <= - t /\ t * c \in Int
    BY <2>2
  <2>4. Doubled(m, g) = a + 2 * (b + t * c) /\ Doubled(m, x) = a + 2 * b
    BY <1>5, <1>8, <2>1 DEF Doubled
  <2>5. PICK w : w = t * c
    OBVIOUS
  <2> QED
    BY <2>2, <2>3, <2>4, <2>5
<1>10. ASSUME NEW r \in m.rows PROVE Within(RowOf(m, r, g), m.lo[r], m.up[r])
  <2>1. PICK w, v, lo, up : w = RowOf(m, r, x) /\ v = RowOf(m, r, d) /\ lo = m.lo[r] /\ up = m.up[r]
    OBVIOUS
  <2>2. /\ w \in Int /\ v \in Int /\ lo.value \in Int /\ up.value \in Int
        /\ Within(w, lo, up) /\ (v > 0 => ~ up.finite) /\ (v < 0 => ~ lo.finite)
    BY <1>4, <2>1 DEF QuadraticData, Bounds, IsBound, WithinRows, ProvesUnbounded
  <2>3. PICK s : s = t * v
    OBVIOUS
  <2>4. s \in Int /\ (v <= 0 => s <= 0) /\ (v >= 0 => s >= 0)
    BY <2>2, <2>3
  <2>5. Within(w + s, lo, up)
    BY <2>2, <2>4 DEF Within
  <2> QED
    BY <1>5, <2>1, <2>3, <2>5
<1> QED
  BY <1>2, <1>9, <1>10 DEF WithinRows

(***************************************************************************)
(* The invariant of the operator splitting method.  Multipliers fit the    *)
(* projected rows, as they are a positive multiple of what the projection  *)
(* cuts off; an optimum is a stationary point of a model that passed the   *)
(* test of convexity, an infeasible or unbounded model has a certificate,  *)
(* and no other model than one that failed the test is called not convex.  *)
(***************************************************************************)
Ordered(m) == \A r \in m.rows : Bounds(m.lo[r], m.up[r])
Certified ==
  /\ qpStage = "iterating" => CheckConvexity(qp) /\ AllInt(qx, qp.vars) /\ AllInt(qy, qp.rows)
  /\ solution.status = "optimal" =>
       /\ CheckConvexity(qp)
       /\ qp.vars # {} => /\ AllInt(solution.x, qp.vars) /\ AllInt(solution.y, qp.rows)
                          /\ Stationary(qp, solution.x, solution.y)
  /\ solution.status = "primal_infeasible" => \E dy : AllInt(dy, qp.rows) /\ ProvesInfeasible(qp, dy)
  /\ solution.status = "dual_infeasible" => \E dx : AllInt(dx, qp.vars) /\ ProvesUnbounded(qp, dx)
  /\ qpStage = "done" => (solution.status = "non_convex" <=> ~ CheckConvexity(qp))
AdmmInv ==
  /\ rho \in Nat \ {0}
  /\ qpStage # "idle" => Ordered(qp)
  /\ qpStage # "done" => solution = NoSolution
  /\ ComplementarySlackness /\ Certified

-----------------------------------------------------------------------------
\* A positive factor keeps the sign.
LEMMA SignOfProduct ==
  ASSUME NEW k \in Nat \ {0}, NEW d \in Int
  PROVE  (k * d > 0 => d > 0) /\ (k * d < 0 => d < 0)
<1>1. CASE d = 0
  BY <1>1
<1>2. CASE d > 0
  BY <1>2
<1>3. CASE d < 0
  BY <1>3
<1> QED BY <1>1, <1>2, <1>3

\* What is projected lies between the bounds, and where it was cut off it lies
\* at the bound it crossed.
LEMMA ProjectionIsNormal ==
  ASSUME NEW lo, NEW up, Bounds(lo, up), NEW g \in Int, NEW k \in Nat \ {0}
  PROVE  LET z == Projected(g, lo, up)
         IN  /\ z \in Int /\ Within(z, lo, up)
             /\ k * (g - z) > 0 => up.finite /\ z = up.value
             /\ k * (g - z) < 0 => lo.finite /\ z = lo.value
<1> DEFINE z == Projected(g, lo, up)
<1>0. /\ lo.value \in Int /\ up.value \in Int /\ lo.finite \in BOOLEAN /\ up.finite \in BOOLEAN
      /\ lo.finite /\ up.finite => lo.value <= up.value
  BY DEF Bounds, IsBound
<1>1. z \in Int /\ Within(z, lo, up)
  BY <1>0 DEF Projected, Within
<1>2. g - z > 0 => up.finite /\ z = up.value
  BY <1>0 DEF Projected
<1>3. g - z < 0 => lo.finite /\ z = lo.value
  BY <1>0 DEF Projected
<1>4. (k * (g - z) > 0 => g - z > 0) /\ (k * (g - z) < 0 => g - z < 0)
  <2> HIDE DEF z
  <2> QED BY <1>1, SignOfProduct
<1> QED BY <1>1, <1>2, <1>3, <1>4

\* So the multipliers of an iteration fit the projected rows.
LEMMA IterateIsNormal ==
  ASSUME NEW m, Ordered(m), NEW k \in Nat \ {0}, NEW g \in [m.rows -> Int]
  PROVE  LET z == [r \in m.rows |-> Projected(g[r], m.lo[r], m.up[r])]
             y == [r \in m.rows |-> k * (g[r] - z[r])]
         IN  InNormalCone(m, z, y) /\ AllInt(y, m.rows)
<1> DEFINE z == [r \in m.rows |-> Projected(g[r], m.lo[r], m.up[r])]
           y == [r \in m.rows |-> k * (g[r] - z[r])]
<1>1. ASSUME NEW r \in m.rows
      PROVE  /\ Within(z[r], m.lo[r], m.up[r]) /\ y[r] \in Int
             /\ y[r] > 0 => m.up[r].finite /\ z[r] = m.up[r].value
             /\ y[r] < 0 => m.lo[r].finite /\ z[r] = m.lo[r].value
  <2>1. Bounds(m.lo[r], m.up[r]) /\ g[r] \in Int
    BY DEF Ordered
  <2> HIDE DEF z, y
  <2>2. z[r] = Projected(g[r], m.lo[r], m.up[r]) /\ y[r] = k * (g[r] - z[r])
    BY DEF z, y
  <2>3. z[r] \in Int
    BY <2>1, <2>2, ProjectionIsNormal
  <2>4. y[r] \in Int
    BY <2>1, <2>2, <2>3
  <2> QED
    BY <2>1, <2>2, <2>4, ProjectionIsNormal
<1> HIDE DEF z, y
<1>2. InNormalCone(m, z, y) /\ AllInt(y, m.rows)
  BY <1>1 DEF InNormalCone, AllInt
<1> QED BY <1>2 DEF z, y

-----------------------------------------------------------------------------
\* The invariant holds before the engine is called.
LEMMA IdleIsSlack == AdmmIdle => AdmmInv
  BY AdmmConstants DEF AdmmIdle, AdmmInv, ComplementarySlackness, NoSolution, Certified

\* Before the first iteration the multipliers are zero.
LEMMA StartIsSlack ==
  ASSUME AdmmInv, NEW m, Ordered(m), AdmmStart(m)
  PROVE  AdmmInv'
<1>1. qpStage = "idle" /\ qp' = m /\ rho' = rho /\ solution = NoSolution /\ rho \in Nat \ {0}
  BY DEF AdmmStart, AdmmEnds, AdmmInv
<1>2. CASE qpStage' = "iterating"
  <2>1. solution' = solution /\ CheckConvexity(m)
    BY <1>2 DEF AdmmStart, AdmmEnds
  <2>2. /\ qz' = [r \in m.rows |-> Projected(0, m.lo[r], m.up[r])]
        /\ qy' = [r \in m.rows |-> 0] /\ qx' = [j \in m.vars |-> 0]
    BY <1>2 DEF AdmmStart, AdmmEnds
  <2>3. ASSUME NEW r \in m.rows
        PROVE  Within(Projected(0, m.lo[r], m.up[r]), m.lo[r], m.up[r])
    <3>1. Bounds(m.lo[r], m.up[r])
      BY DEF Ordered
    <3> QED BY <3>1, ProjectionIsNormal
  <2>4. InNormalCone(m, qz', qy')
    BY <2>2, <2>3 DEF InNormalCone
  <2>5. ComplementarySlackness'
    BY <1>1, <1>2, <2>1, <2>4 DEF ComplementarySlackness, NoSolution
  <2>6. Certified'
    BY <1>1, <1>2, <2>1, <2>2 DEF Certified, NoSolution, AllInt
  <2> QED BY <1>1, <1>2, <2>1, <2>5, <2>6 DEF AdmmInv
<1>3. CASE qpStage' # "iterating"
  <2>1. qpStage' = "done" /\ (solution'.status = "optimal" => m.vars = {} /\ CheckConvexity(m))
        /\ solution'.status \notin {"primal_infeasible", "dual_infeasible"}
        /\ (solution'.status = "non_convex" <=> ~ CheckConvexity(m))
    BY <1>3 DEF AdmmStart, AdmmEnds
  <2>2. ComplementarySlackness' /\ Certified'
    BY <1>1, <2>1 DEF ComplementarySlackness, Certified
  <2> QED BY <1>1, <2>1, <2>2 DEF AdmmInv
<1> QED BY <1>2, <1>3

\* An iteration either goes on with multipliers that fit, or ends with an
\* optimum whose rows have the projected values or with a certificate.
LEMMA SplitIsSlack ==
  ASSUME AdmmInv, Split
  PROVE  AdmmInv'
<1>1. /\ qpStage = "iterating" /\ qp' = qp /\ Ordered(qp) /\ solution = NoSolution /\ rho \in Nat \ {0}
      /\ CheckConvexity(qp) /\ AllInt(qx, qp.vars) /\ AllInt(qy, qp.rows)
  BY DEF Split, AdmmInv, Certified
<1>2. \E x \in [qp.vars -> Iterates], g \in [qp.rows -> Arguments] :
        LET z == [r \in qp.rows |-> Projected(g[r], qp.lo[r], qp.up[r])]
        IN  Concluded(x, z, [r \in qp.rows |-> rho * (g[r] - z[r])])
  BY Zenon DEF Split
<1>3. PICK x \in [qp.vars -> Iterates], g \in [qp.rows -> Arguments] :
        LET z == [r \in qp.rows |-> Projected(g[r], qp.lo[r], qp.up[r])]
        IN  Concluded(x, z, [r \in qp.rows |-> rho * (g[r] - z[r])])
  BY <1>2, Zenon
<1> DEFINE z == [r \in qp.rows |-> Projected(g[r], qp.lo[r], qp.up[r])]
           y == [r \in qp.rows |-> rho * (g[r] - z[r])]
<1>4. InNormalCone(qp, z, y) /\ AllInt(y, qp.rows)
  <2>1. g \in [qp.rows -> Int]
    BY AdmmConstants
  <2> QED BY <1>1, <2>1, IterateIsNormal
<1>5. Concluded(x, z, y)
  BY <1>3
<1>6. z = [r \in qp.rows |-> z[r]] /\ DOMAIN y = qp.rows /\ DOMAIN x = qp.vars /\ AllInt(x, qp.vars)
  BY AdmmConstants DEF AllInt
<1> HIDE DEF z, y
<1>7. CASE Outcome(x, z, y) # "open"
  <2>1. /\ qpStage' = "done" /\ rho' = rho
        /\ solution' = [status |-> Outcome(x, z, y), x |-> x, y |-> y, value |-> ValueOf(qp, x)]
    BY <1>5, <1>7 DEF Concluded, AdmmEnds
  <2>2. ASSUME solution'.status = "optimal"
        PROVE  /\ InNormalCone(qp, [r \in qp.rows |-> RowOf(qp, r, solution'.x)], solution'.y)
               /\ AllInt(solution'.x, qp.vars) /\ AllInt(solution'.y, qp.rows)
               /\ Stationary(qp, solution'.x, solution'.y)
    <3>1. Outcome(x, z, y) = "optimal" /\ solution'.x = x /\ solution'.y = y
      BY <2>1, <2>2
    <3>2. (\A r \in qp.rows : RowOf(qp, r, x) = z[r]) /\ Stationary(qp, x, y)
      BY <3>1 DEF Outcome
    <3>3. [r \in qp.rows |-> RowOf(qp, r, x)] = z
      BY <1>6, <3>2
    <3> QED BY <1>4, <1>6, <3>1, <3>2, <3>3
  <2>3. ASSUME solution'.status = "primal_infeasible"
        PROVE  \E dy : AllInt(dy, qp.rows) /\ ProvesInfeasible(qp, dy)
    <3>1. ProvesInfeasible(qp, Change(y, qy))
      BY <2>1, <2>3 DEF Outcome
    <3>2. AllInt(Change(y, qy), qp.rows)
      BY <1>1, <1>4, <1>6 DEF Change, AllInt
    <3> QED BY <3>1, <3>2
  <2>4. ASSUME solution'.status = "dual_infeasible"
        PROVE  \E dx : AllInt(dx, qp.vars) /\ ProvesUnbounded(qp, dx)
    <3>1. ProvesUnbounded(qp, Change(x, qx))
      BY <2>1, <2>4 DEF Outcome
    <3>2. AllInt(Change(x, qx), qp.vars)
      BY <1>1, <1>6 DEF Change, AllInt
    <3> QED BY <3>1, <3>2
  <2>5. ComplementarySlackness'
    BY <1>1, <2>1, <2>2 DEF ComplementarySlackness
  <2>6. solution'.status # "non_convex"
    BY <2>1 DEF Outcome
  <2>7. Certified'
    BY <1>1, <2>1, <2>2, <2>3, <2>4, <2>6 DEF Certified
  <2> QED BY <1>1, <2>1, <2>5, <2>7 DEF AdmmInv
<1>8. CASE Outcome(x, z, y) = "open"
  <2>1. qx' = x /\ qz' = z /\ qy' = y /\ qpStage' = qpStage /\ solution' = solution
    BY <1>5, <1>8 DEF Concluded
  <2>2. rho' \in Nat \ {0}
    BY <1>1, <1>5, <1>8, AdmmConstants DEF Concluded, Rescale
  <2>3. ComplementarySlackness' /\ Certified'
    BY <1>1, <1>4, <1>6, <2>1 DEF ComplementarySlackness, Certified, NoSolution
  <2> QED BY <1>1, <2>1, <2>2, <2>3 DEF AdmmInv
<1> QED BY <1>7, <1>8

\* Each step of the method keeps it,
LEMMA AdmmStepIsSlack == ASSUME AdmmInv, AdmmStep PROVE AdmmInv'
<1>1. CASE Split
  BY <1>1, SplitIsSlack
<1>2. CASE SolveThrows
  BY <1>2 DEF SolveThrows, iterateVars, AdmmInv, ComplementarySlackness, Certified, NoSolution
<1>3. CASE LoopEnds
  <2>1. /\ qpStage = "iterating" /\ qpStage' = "done" /\ rho' = rho /\ qp' = qp
        /\ solution'.status \notin {"optimal", "primal_infeasible", "dual_infeasible", "non_convex"}
    BY <1>3 DEF LoopEnds, AdmmEnds
  <2> QED BY <2>1 DEF AdmmInv, ComplementarySlackness, Certified
<1> QED BY <1>1, <1>2, <1>3 DEF AdmmStep

\* and so does whatever leaves the engine alone.
LEMMA AdmmRests == ASSUME AdmmInv, UNCHANGED qpVars PROVE AdmmInv'
<1>1. UNCHANGED <<qp, qpStage, rho, qx, qz, qy, solution>>
  BY DEF qpVars, iterateVars
<1> QED BY <1>1 DEF AdmmInv, ComplementarySlackness, InNormalCone, Certified

-----------------------------------------------------------------------------
\* The multipliers of the method fit its rows in every iteration, and those of
\* an optimum fit the rows at its point, whatever the linear systems return:
\* the part of optimality that verify_qp_solution does not test.
THEOREM OptimumIsComplementary == AdmmSpec => []ComplementarySlackness
<1>1. AdmmInv => ComplementarySlackness
  BY DEF AdmmInv
<1>2. AdmmInv /\ [AdmmNext]_qpVars => AdmmInv'
  <2>1. ASSUME NEW m \in Quadratics PROVE Ordered(m)
    BY AdmmConstants DEF Ordered
  <2> QED BY <2>1, StartIsSlack, AdmmStepIsSlack, AdmmRests DEF AdmmNext
<1> QED BY <1>1, <1>2, IdleIsSlack, PTL DEF AdmmSpec

-----------------------------------------------------------------------------
\* The model the QP engine is given.
LEMMA MadeFields ==
  ASSUME NEW p, WellFormed(p)
  PROVE  LET m == MakeQuadratic(p)
             k == Cardinality(p.rows)
         IN  /\ m.vars = p.vars /\ m.rows = 1 .. k + Cardinality(p.vars)
             /\ k \in Nat /\ Cardinality(p.vars) \in Nat
             /\ m.grid = p.grid /\ m.sense = p.sense /\ m.offset = p.offset
             /\ \A i, j \in p.vars : m.upper[i][j] = UpperEntry(p, i, j)
             /\ \A j \in p.vars : m.q[j] = p.grid * p.sense * p.c[j]
             /\ \A r \in p.rows : /\ r \in m.rows /\ m.lo[r] = p.rowLo[r] /\ m.up[r] = p.rowUp[r]
                                  /\ \A j \in p.vars : m.a[r][j] = p.a[r][j]
             /\ \A i \in p.vars : /\ k + i \in m.rows /\ m.lo[k + i] = p.lo[i] /\ m.up[k + i] = p.up[i]
                                  /\ \A j \in p.vars : m.a[k + i][j] = IF j = i THEN 1 ELSE 0
             /\ \A r \in m.rows : r \in p.rows \/ \E i \in p.vars : r = k + i
<1> DEFINE m == MakeQuadratic(p)
           k == Cardinality(p.rows)
           n == Cardinality(p.vars)
<1>1. k \in Nat /\ n \in Nat /\ p.vars = 1 .. n /\ p.rows = 1 .. k
  BY FS_CardinalityType DEF WellFormed
<1>2. /\ m.vars = p.vars /\ m.rows = 1 .. k + n /\ m.grid = p.grid /\ m.sense = p.sense /\ m.offset = p.offset
      /\ m.upper = [i \in p.vars |-> [j \in p.vars |-> UpperEntry(p, i, j)]]
      /\ m.q = [j \in p.vars |-> p.grid * p.sense * p.c[j]]
      /\ m.a = [r \in 1 .. k + n |-> IF r <= k THEN p.a[r] ELSE [j \in p.vars |-> IF j = r - k THEN 1 ELSE 0]]
      /\ m.lo = [r \in 1 .. k + n |-> IF r <= k THEN p.rowLo[r] ELSE p.lo[r - k]]
      /\ m.up = [r \in 1 .. k + n |-> IF r <= k THEN p.rowUp[r] ELSE p.up[r - k]]
  BY DEF MakeQuadratic
<1> HIDE DEF m, k, n
<1>3. ASSUME NEW r \in p.rows
      PROVE  /\ r \in m.rows /\ m.lo[r] = p.rowLo[r] /\ m.up[r] = p.rowUp[r] /\ m.a[r] = p.a[r]
  <2>1. r \in 1 .. k + n /\ r <= k
    BY <1>1
  <2> QED BY <1>2, <2>1
<1>4. ASSUME NEW i \in p.vars
      PROVE  /\ k + i \in m.rows /\ m.lo[k + i] = p.lo[i] /\ m.up[k + i] = p.up[i]
             /\ m.a[k + i] = [j \in p.vars |-> IF j = i THEN 1 ELSE 0]
  <2>1. k + i \in 1 .. k + n /\ ~ (k + i <= k) /\ (k + i) - k = i
    BY <1>1
  <2>2. m.a[k + i] = [j \in p.vars |-> IF j = (k + i) - k THEN 1 ELSE 0]
    BY <1>2, <2>1
  <2> QED BY <1>2, <2>1, <2>2
<1>5. ASSUME NEW r \in m.rows PROVE r \in p.rows \/ \E i \in p.vars : r = k + i
  <2>1. r \in 1 .. k + n
    BY <1>2
  <2>2. CASE r <= k
    BY <1>1, <2>1, <2>2
  <2>3. CASE ~ r <= k
    <3>1. r - k \in p.vars /\ r = k + (r - k)
      BY <1>1, <2>1, <2>3
    <3> QED BY <3>1
  <2> QED BY <2>2, <2>3
<1>6. \A i, j \in p.vars : m.upper[i][j] = UpperEntry(p, i, j)
  BY <1>2
<1>7. \A j \in p.vars : m.q[j] = p.grid * p.sense * p.c[j]
  BY <1>2
<1>8. ASSUME NEW i \in p.vars, NEW j \in p.vars PROVE m.a[k + i][j] = IF j = i THEN 1 ELSE 0
  <2>1. m.a[k + i] = [l \in p.vars |-> IF l = i THEN 1 ELSE 0]
    BY <1>4
  <2> QED BY <2>1
<1> QED BY <1>1, <1>2, <1>3, <1>4, <1>5, <1>6, <1>7, <1>8 DEF m, k, n

\* It is a quadratic model whose bounds do not cross.
LEMMA MadeData ==
  ASSUME NEW p, WellFormed(p), WellFormedQuadratic(p)
  PROVE  QuadraticData(MakeQuadratic(p)) /\ Ordered(MakeQuadratic(p))
<1>1. PICK m, k : m = MakeQuadratic(p) /\ k = Cardinality(p.rows)
  OBVIOUS
<1>2. /\ m.vars = p.vars /\ m.rows = 1 .. k + Cardinality(p.vars)
      /\ k \in Nat /\ Cardinality(p.vars) \in Nat
      /\ m.grid = p.grid /\ m.sense = p.sense /\ m.offset = p.offset
  BY <1>1, MadeFields
<1>3. /\ p.sense \in {1, -1} /\ p.grid \in Nat \ {0} /\ p.offset \in Int
      /\ IsFiniteSet(p.vars) /\ p.vars = 1 .. Cardinality(p.vars)
  BY DEF WellFormed, WellFormedQuadratic
<1>4. \A i, j \in m.vars : m.upper[i][j] \in Int
  <2>1. \A i, j \in p.vars : UpperEntry(p, i, j) \in Int
    <3>1. p.vars \subseteq Int
      BY <1>2, <1>3
    <3>2. HasQuadratic(p) => \A i, j \in p.vars : p.quad[i][j] \in Int
      BY DEF WellFormedQuadratic
    <3>3. ASSUME NEW i \in p.vars, NEW j \in p.vars PROVE UpperEntry(p, i, j) \in Int
      <4>1. CASE ~ HasQuadratic(p) \/ i > j
        BY <4>1 DEF UpperEntry
      <4>2. CASE HasQuadratic(p) /\ ~ i > j
        <5>1. PICK a \in Int : a = IF i = j THEN p.quad[i][i] ELSE p.quad[i][j] + p.quad[j][i]
          BY <3>2, <4>2
        <5>2. UpperEntry(p, i, j) = p.sense * a
          BY <4>2, <5>1 DEF UpperEntry
        <5> QED BY <1>3, <5>1, <5>2
      <4> QED BY <4>1, <4>2
    <3> QED BY <3>3
  <2>2. \A i, j \in p.vars : m.upper[i][j] = UpperEntry(p, i, j)
    BY <1>1, MadeFields
  <2> QED BY <1>2, <2>1, <2>2
<1>5. \A j \in m.vars : m.q[j] \in Int
  <2>1. \A j \in p.vars : m.q[j] = p.grid * p.sense * p.c[j] /\ p.c[j] \in Int
    BY <1>1, MadeFields DEF WellFormed
  <2>2. p.grid * p.sense \in Int
    BY <1>3
  <2> QED BY <1>2, <2>1, <2>2
<1>6. ASSUME NEW r \in m.rows PROVE Bounds(m.lo[r], m.up[r]) /\ \A j \in m.vars : m.a[r][j] \in Int
  <2>1. r \in p.rows \/ \E i \in p.vars : r = k + i
    BY <1>1, MadeFields
  <2>2. CASE r \in p.rows
    <3>1. m.lo[r] = p.rowLo[r] /\ m.up[r] = p.rowUp[r] /\ \A j \in p.vars : m.a[r][j] = p.a[r][j]
      BY <1>1, <2>2, MadeFields
    <3>2. Bounds(p.rowLo[r], p.rowUp[r]) /\ \A j \in p.vars : p.a[r][j] \in Int
      BY <2>2 DEF WellFormed
    <3> QED BY <1>2, <3>1, <3>2
  <2>3. ASSUME NEW i \in p.vars, r = k + i PROVE Bounds(m.lo[r], m.up[r]) /\ \A j \in m.vars : m.a[r][j] \in Int
    <3>1. m.lo[r] = p.lo[i] /\ m.up[r] = p.up[i] /\ \A j \in p.vars : m.a[r][j] = IF j = i THEN 1 ELSE 0
      BY <1>1, <2>3, MadeFields
    <3>2. Bounds(p.lo[i], p.up[i])
      BY DEF WellFormed
    <3> QED BY <1>2, <3>1, <3>2
  <2> QED BY <2>1, <2>2, <2>3
<1>7. IsFiniteSet(m.rows)
  BY <1>2, FS_Interval
<1>8. QuadraticData(m)
  BY <1>2, <1>3, <1>4, <1>5, <1>6, <1>7 DEF QuadraticData
<1> QED BY <1>1, <1>6, <1>8 DEF Ordered

\* A point of the model given lies within the rows of the quadratic model.
LEMMA PointWithinRows ==
  ASSUME NEW p, WellFormed(p), NEW g, AllInt(g, p.vars), Satisfies(p, g)
  PROVE  WithinRows(MakeQuadratic(p), g)
<1>1. PICK m, k : m = MakeQuadratic(p) /\ k = Cardinality(p.rows)
  OBVIOUS
<1>2. m.vars = p.vars /\ IsFiniteSet(p.vars)
  BY <1>1, MadeFields DEF WellFormed
<1>3. ASSUME NEW r \in m.rows PROVE Within(RowOf(m, r, g), m.lo[r], m.up[r])
  <2>1. r \in p.rows \/ \E i \in p.vars : r = k + i
    BY <1>1, MadeFields
  <2>2. CASE r \in p.rows
    <3>1. m.lo[r] = p.rowLo[r] /\ m.up[r] = p.rowUp[r] /\ \A j \in p.vars : m.a[r][j] = p.a[r][j]
      BY <1>1, <2>2, MadeFields
    <3>2. [j \in m.vars |-> m.a[r][j] * g[j]] = [j \in p.vars |-> p.a[r][j] * g[j]]
      BY <1>2, <3>1
    <3>3. RowOf(m, r, g) = Activity(p, r, g)
      BY <1>2, <3>2, Zenon DEF RowOf, Activity
    <3> QED BY <2>2, <3>1, <3>3 DEF Satisfies
  <2>3. ASSUME NEW i \in p.vars, r = k + i PROVE Within(RowOf(m, r, g), m.lo[r], m.up[r])
    <3>1. m.lo[r] = p.lo[i] /\ m.up[r] = p.up[i] /\ \A j \in p.vars : m.a[r][j] = IF j = i THEN 1 ELSE 0
      BY <1>1, <2>3, MadeFields
    <3> DEFINE f == [j \in m.vars |-> m.a[r][j] * g[j]]
    <3>2. \A j \in p.vars : g[j] \in Int
      BY DEF AllInt
    <3>3. f[i] = g[i] /\ f[i] \in Int /\ \A j \in m.vars \ {i} : f[j] = 0
      BY <1>2, <3>1, <3>2
    <3>4. RowOf(m, r, g) = Total(f, m.vars)
      BY Zenon DEF RowOf
    <3> HIDE DEF f
    <3>5. Total(f, m.vars) = f[i]
      BY <1>2, <3>3, TotalSingle
    <3> QED BY <3>1, <3>3, <3>4, <3>5 DEF Satisfies
  <2> QED BY <2>1, <2>2, <2>3
<1> QED BY <1>1, <1>3 DEF WithinRows

\* With a diagonal matrix the objective of the quadratic model is that given.
LEMMA DiagonalValue ==
  ASSUME WellFormed(program), WellFormedQuadratic(program), Diagonal, NEW x, AllInt(x, program.vars)
  PROVE  ValueOf(MakeQuadratic(program), x) = GivenValue(x)
<1>1. PICK m, p, s, V : m = MakeQuadratic(program) /\ p = program /\ s = p.sense /\ V = p.vars
  OBVIOUS
<1>2. /\ WellFormed(p) /\ WellFormedQuadratic(p) /\ HasQuadratic(p)
      /\ \A i, j \in V : i # j => p.quad[i][j] = 0
      /\ QuadraticData(m) /\ m.vars = V /\ IsFiniteSet(V) /\ m.sense = s /\ m.grid = p.grid /\ m.offset = p.offset
      /\ s \in {1, -1} /\ p.grid \in Nat \ {0} /\ p.offset \in Int /\ V \subseteq Int
  <2>1. WellFormed(p) /\ WellFormedQuadratic(p)
    BY <1>1, Zenon
  <2>2. HasQuadratic(p) /\ \A i, j \in V : i # j => p.quad[i][j] = 0
    BY <1>1 DEF Diagonal
  <2>3. m = MakeQuadratic(p)
    BY ONLY <1>1, Zenon
  <2>4. QuadraticData(m)
    BY ONLY <2>1, <2>3, MadeData
  <2>5. m.vars = p.vars /\ m.sense = p.sense /\ m.grid = p.grid /\ m.offset = p.offset
    <3>1. /\ MakeQuadratic(p).vars = p.vars /\ MakeQuadratic(p).sense = p.sense
          /\ MakeQuadratic(p).grid = p.grid /\ MakeQuadratic(p).offset = p.offset
      BY ONLY <2>1, MadeFields
    <3> QED
      BY ONLY <2>3, <3>1, Zenon
  <2>6. /\ IsFiniteSet(p.vars) /\ p.sense \in {1, -1} /\ p.grid \in Nat \ {0} /\ p.offset \in Int
        /\ p.vars = 1 .. Cardinality(p.vars)
    BY ONLY <2>1 DEF WellFormed, WellFormedQuadratic
  <2>7. p.vars \subseteq Int
    <3>1. Cardinality(p.vars) \in Nat
      BY ONLY <2>6, FS_CardinalityType
    <3> QED
      BY ONLY <2>6, <3>1
  <2>8. s = p.sense /\ V = p.vars
    BY ONLY <1>1
  <2> QED
    BY ONLY <2>1, <2>2, <2>4, <2>5, <2>6, <2>7, <2>8
<1>3. \A i, j \in V : p.quad[i][j] \in Int /\ p.c[j] \in Int /\ x[j] \in Int
  BY <1>1, <1>2 DEF WellFormedQuadratic, WellFormed, AllInt
<1>4. \A i, j \in V : m.upper[i][j] = UpperEntry(p, i, j)
  BY <1>1, MadeFields
<1>5. \A i, j \in V : Mirrored(m.upper, i, j) = IF i = j THEN s * p.quad[j][j] ELSE 0
  <2>1. ASSUME NEW i \in V, NEW j \in V, ~ i > j PROVE UpperEntry(p, i, j) = IF i = j THEN s * p.quad[j][j] ELSE 0
    <3>1. CASE i = j
      BY <1>1, <1>2, <2>1, <3>1 DEF UpperEntry
    <3>2. CASE i # j
      <4>1. p.quad[i][j] = 0 /\ p.quad[j][i] = 0
        BY <1>2, <3>2
      <4> QED BY <1>1, <1>2, <2>1, <3>2, <4>1 DEF UpperEntry
    <3> QED BY <3>1, <3>2
  <2>2. ASSUME NEW i \in V, NEW j \in V PROVE Mirrored(m.upper, i, j) = IF i = j THEN s * p.quad[j][j] ELSE 0
    <3>1. i \in Int /\ j \in Int
      BY <1>2
    <3>2. CASE i <= j
      <4>1. Mirrored(m.upper, i, j) = UpperEntry(p, i, j) /\ ~ i > j
        BY <1>4, <3>1, <3>2 DEF Mirrored
      <4> QED BY <2>1, <4>1
    <3>3. CASE ~ i <= j
      <4>1. Mirrored(m.upper, i, j) = UpperEntry(p, j, i) /\ ~ j > i /\ i # j
        BY <1>4, <3>1, <3>3 DEF Mirrored
      <4> QED BY <2>1, <4>1
    <3> QED BY <3>2, <3>3
  <2> QED BY <2>2
<1>6. ASSUME NEW j \in V PROVE Curvature(m, j, x) = s * (p.quad[j][j] * x[j])
  <2> DEFINE f == [i \in m.vars |-> Mirrored(m.upper, i, j) * x[i]]
  <2>1. f[j] = s * p.quad[j][j] * x[j] /\ f[j] \in Int /\ \A i \in m.vars \ {j} : f[i] = 0
    <3>1. f[j] = s * p.quad[j][j] * x[j]
      BY <1>2, <1>5
    <3>2. ASSUME NEW i \in m.vars, i # j PROVE f[i] = 0
      <4>1. Mirrored(m.upper, i, j) = 0 /\ x[i] \in Int
        BY <1>2, <1>3, <1>5, <3>2
      <4> QED BY <4>1
    <3>3. s * p.quad[j][j] * x[j] \in Int
      BY <1>2, <1>3
    <3> QED BY <3>1, <3>2, <3>3
  <2>2. Curvature(m, j, x) = Total(f, m.vars)
    BY Zenon DEF Curvature
  <2> HIDE DEF f
  <2>3. Total(f, m.vars) = f[j]
    BY <1>2, <2>1, TotalSingle
  <2> QED BY <1>2, <1>3, <2>1, <2>2, <2>3
<1> DEFINE t == [j \in V |-> x[j] * (p.quad[j][j] * x[j] + 2 * p.grid * p.c[j])]
           e == [j \in m.vars |-> x[j] * Curvature(m, j, x)]
           l == [j \in m.vars |-> m.q[j] * x[j]]
           st == [j \in V |-> s * t[j]]
<1>7. ASSUME NEW j \in V PROVE t[j] \in Int /\ e[j] \in Int /\ l[j] \in Int /\ st[j] = e[j] + 2 * l[j]
  <2>1. PICK u, v, w, d : u = x[j] /\ v = p.quad[j][j] /\ w = p.c[j] /\ d = p.grid
    OBVIOUS
  <2>2. u \in Int /\ v \in Int /\ w \in Int /\ d \in Int
    BY <1>2, <1>3, <2>1
  <2>3. m.q[j] = d * s * w
    BY <1>1, <2>1, MadeFields
  <2>4. t[j] = u * (v * u + 2 * d * w) /\ e[j] = u * (s * (v * u)) /\ l[j] = (d * s * w) * u /\ st[j] = s * t[j]
    BY <1>2, <1>6, <2>1, <2>3
  <2> HIDE DEF t, e, l, st
  <2>5. t[j] \in Int /\ e[j] \in Int /\ l[j] \in Int
    BY <1>2, <2>2, <2>4
  <2>6. s * (u * (v * u + 2 * d * w)) = u * (s * (v * u)) + 2 * ((d * s * w) * u)
    BY <1>2, <2>2
  <2> QED BY <2>4, <2>5, <2>6
<1>8. AllInt(t, V) /\ AllInt(e, V) /\ AllInt(l, V)
  BY <1>7 DEF AllInt
<1>9. \A j \in V : st[j] = e[j] + 2 * l[j]
  BY <1>7
<1>10. \A j \in V : st[j] = s * t[j]
  OBVIOUS
<1>11. s \in Int /\ IsFiniteSet(V)
  BY <1>2
<1>12. Energy(m, x) = Total(e, V) /\ Linear(m, x) = Total(l, V)
  BY <1>2, Zenon DEF Energy, Linear
<1>13. GivenValue(x) = Total(t, V) + 2 * p.grid * p.offset
  BY <1>1, Zenon DEF GivenValue
<1> HIDE DEF t, e, l, st
<1>14. Total(st, V) = Total(e, V) + 2 * Total(l, V)
  BY <1>8, <1>9, <1>11, TotalCombination
<1>15. Total(st, V) = s * Total(t, V) /\ Total(t, V) \in Int
  BY <1>8, <1>10, <1>11, TotalMultiple, TotalType
<1>16. ValueOf(m, x) = s * (Energy(m, x) + 2 * Linear(m, x)) + 2 * p.grid * p.offset
  BY <1>2 DEF ValueOf
<1>17. ValueOf(m, x) = s * (s * Total(t, V)) + 2 * p.grid * p.offset
  BY <1>12, <1>14, <1>15, <1>16
<1>18. s * (s * Total(t, V)) = Total(t, V)
  BY <1>2, <1>15
<1> QED BY <1>1, <1>13, <1>17, <1>18

(***************************************************************************)
(* The other verdicts of the QP engine.  A model is rejected exactly if    *)
(* its energy is negative somewhere, and of one found unbounded there is a *)
(* direction that leads from every point to ever better ones.              *)
(***************************************************************************)
ImprovesForEver(m, d) ==
  \A x, g, t : AllInt(x, m.vars) /\ WithinRows(m, x) /\ t \in Nat /\ (\A j \in m.vars : g[j] = x[j] + t * d[j])
     => WithinRows(m, g) /\ Doubled(m, g) <= Doubled(m, x) - t
VerdictIsRight ==
  phase = "ended" /\ engine = "qp" /\ ~ thrown =>
    /\ result = "invalid_model" <=> \E x : AllInt(x, program.vars) /\ Energy(qp, x) < 0
    /\ result = "unbounded" => \E d : AllInt(d, program.vars) /\ ImprovesForEver(qp, d)

(***************************************************************************)
(* The invariant of the driver on the way through the QP engine: it is     *)
(* given the quadratic model of the program, whose points are integers.    *)
(***************************************************************************)
QuadraticInv ==
  /\ WellFormed(program) /\ WellFormedQuadratic(program)
  /\ \A g \in Points : AllInt(g, program.vars)
  /\ AdmmInv
  /\ qpStage # "idle" => qp = MakeQuadratic(program)
  /\ engine = "qp" => phase \in {"given", "quadratic", "ended"}
  /\ QuadraticAnswerIsRight /\ VerdictIsRight

\* At the start the engine is idle.
LEMMA QuadraticStarts == Init => QuadraticInv
<1> SUFFICES ASSUME NEW k \in Commands,
                    PipelineInit(k.program, k.engine, k.warm, k.presolve, k.scale)
             PROVE  QuadraticInv
  BY DEF Init
<1>1. program = k.program /\ phase = "given" /\ AdmmIdle /\ qpStage = "idle"
  BY DEF PipelineInit, AdmmIdle
<1>2. WellFormed(program) /\ WellFormedQuadratic(program) /\ \A g \in Points : AllInt(g, program.vars)
  BY <1>1, CommandsAreWellFormed DEF AllInt
<1>3. QuadraticAnswerIsRight /\ VerdictIsRight
  BY <1>1 DEF QuadraticAnswerIsRight, VerdictIsRight
<1> QED BY <1>1, <1>2, <1>3, IdleIsSlack DEF QuadraticInv

\* An optimum of the QP engine that the verifier accepts is a least point, with
\* the objective given if the matrix is diagonal.
LEMMA QuadraticOptimum ==
  ASSUME QuadraticInv, qpStage = "done", solution.status = "optimal",
         VerifyQp(qp, solution.x, solution.y, solution.value)
  PROVE  /\ \A g \in Feasible : program.sense * ValueOf(qp, g) >= program.sense * solution.value
         /\ Diagonal => solution.value = GivenValue(solution.x)
<1>1. PICK m, x, y, s : m = MakeQuadratic(program) /\ x = solution.x /\ y = solution.y /\ s = program.sense
  OBVIOUS
<1>2. /\ qp = m /\ WellFormed(program) /\ WellFormedQuadratic(program) /\ QuadraticData(m) /\ m.vars = program.vars
      /\ m.sense = s /\ s \in {1, -1} /\ m.grid \in Int /\ m.offset \in Int /\ IsFiniteSet(m.rows)
      /\ solution.value = ValueOf(m, x)
  <2>1. qp = m /\ WellFormed(program) /\ WellFormedQuadratic(program)
    BY <1>1 DEF QuadraticInv
  <2>2. QuadraticData(m) /\ m.vars = program.vars /\ m.sense = s
    BY <1>1, <2>1, MadeData, MadeFields
  <2>3. solution.value = ValueOf(m, x)
    BY <1>1, <2>1 DEF VerifyQp
  <2> QED BY <2>1, <2>2, <2>3 DEF QuadraticData
<1>3. /\ CheckConvexity(m)
      /\ m.vars # {} => /\ AllInt(x, m.vars) /\ AllInt(y, m.rows) /\ Stationary(m, x, y)
                        /\ InNormalCone(m, [r \in m.rows |-> RowOf(m, r, x)], y)
  BY <1>1, <1>2 DEF QuadraticInv, AdmmInv, Certified, ComplementarySlackness
<1>4. ASSUME m.vars = {} PROVE AllInt(x, m.vars) /\ \A u : Energy(m, u) = 0 /\ Linear(m, u) = 0
  BY <1>4, TotalEmpty DEF AllInt, Energy, Linear
<1>5. AllInt(x, m.vars)
  BY <1>3, <1>4
<1>6. ASSUME NEW g \in Feasible PROVE s * ValueOf(m, g) >= s * ValueOf(m, x)
  <2>1. AllInt(g, m.vars) /\ WithinRows(m, g)
    BY <1>1, <1>2, PointWithinRows DEF QuadraticInv, Feasible
  <2>2. PICK dx, dg, c : dx = Doubled(m, x) /\ dg = Doubled(m, g) /\ c = 2 * m.grid * m.offset
    OBVIOUS
  <2>3. ASSUME NEW u, AllInt(u, m.vars) PROVE Doubled(m, u) \in Int
    <3>1. AllInt([r \in m.rows |-> 0], m.rows)
      BY DEF AllInt
    <3>2. Energy(m, u) \in Int /\ Linear(m, u) \in Int
      BY <1>2, <2>3, <3>1, CurvatureType, LinearTypes
    <3> QED BY <3>2 DEF Doubled
  <2>4. dx <= dg
    <3>1. CASE m.vars = {}
      BY <1>4, <2>2, <3>1 DEF Doubled
    <3>2. CASE m.vars # {}
      BY <1>2, <1>3, <2>1, <2>2, <3>2, StationaryIsLeast
    <3> QED BY <3>1, <3>2
  <2>5. dx \in Int /\ dg \in Int /\ c \in Int
    BY <1>2, <1>5, <2>1, <2>2, <2>3
  <2>6. ValueOf(m, g) = s * dg + c /\ ValueOf(m, x) = s * dx + c
    BY <1>2, <2>2 DEF ValueOf, Doubled
  <2>7. s * (s * dg + c) >= s * (s * dx + c)
    BY <1>2, <2>4, <2>5
  <2> QED BY <2>6, <2>7
<1>7. ASSUME Diagonal PROVE ValueOf(m, x) = GivenValue(x)
  BY <1>1, <1>2, <1>5, <1>7, DiagonalValue
<1> QED BY <1>1, <1>2, <1>6, <1>7

\* What it says when it ends without a point.
LEMMA QuadraticVerdict ==
  ASSUME QuadraticInv, qpStage = "done"
  PROVE  /\ solution.status = "non_convex" <=> \E x : AllInt(x, program.vars) /\ Energy(qp, x) < 0
         /\ solution.status = "dual_infeasible" => \E d : AllInt(d, program.vars) /\ ImprovesForEver(qp, d)
<1>1. PICK m : m = MakeQuadratic(program)
  OBVIOUS
<1>2. qp = m /\ QuadraticData(m) /\ m.vars = program.vars
  BY <1>1, MadeData, MadeFields DEF QuadraticInv
<1>3. CheckConvexity(m) <=> \A x : AllInt(x, m.vars) => Energy(m, x) >= 0
  BY <1>2, ConvexityIsExact
<1>4. \A x : AllInt(x, m.vars) => Energy(m, x) \in Int
  BY <1>2, CurvatureType
<1>5. solution.status = "non_convex" <=> ~ CheckConvexity(m)
  BY <1>2 DEF QuadraticInv, AdmmInv, Certified
<1>6. ASSUME solution.status = "dual_infeasible" PROVE \E d : AllInt(d, m.vars) /\ ImprovesForEver(m, d)
  <2>1. PICK d : AllInt(d, m.vars) /\ ProvesUnbounded(m, d)
    BY <1>2, <1>6 DEF QuadraticInv, AdmmInv, Certified
  <2>2. ImprovesForEver(m, d)
    BY <1>2, <2>1, CertificateMeansUnbounded DEF ImprovesForEver
  <2> QED BY <2>1, <2>2
<1>7. solution.status = "non_convex" <=> \E x : AllInt(x, m.vars) /\ Energy(m, x) < 0
  BY <1>3, <1>4, <1>5
<1> QED BY <1>2, <1>6, <1>7

\* A model it finds infeasible has no point.
LEMMA QuadraticInfeasible ==
  ASSUME QuadraticInv, qpStage = "done", solution.status = "primal_infeasible"
  PROVE  Feasible = {}
<1>1. PICK m : m = MakeQuadratic(program)
  OBVIOUS
<1>2. qp = m /\ WellFormed(program) /\ QuadraticData(m) /\ m.vars = program.vars
  BY <1>1, MadeData, MadeFields DEF QuadraticInv
<1>3. PICK dy : AllInt(dy, m.rows) /\ ProvesInfeasible(m, dy)
  BY <1>2 DEF QuadraticInv, AdmmInv, Certified
<1>4. ASSUME NEW g \in Feasible PROVE FALSE
  <2>1. AllInt(g, m.vars) /\ WithinRows(m, g)
    BY <1>1, <1>2, PointWithinRows DEF QuadraticInv, Feasible
  <2> QED BY <1>2, <1>3, <2>1, CertificateMeansInfeasible
<1> QED BY <1>4

-----------------------------------------------------------------------------
\* What is not the QP engine leaves its variables and its model alone.
LEMMA OutsideKeeps ==
  ASSUME QuadraticInv, UNCHANGED <<program, engine, qpVars>>,
         phase # "quadratic", phase # "ended", phase' # "quadratic",
         engine = "qp" => phase' = "ended" /\ thrown'
  PROVE  QuadraticInv'
<1>1. AdmmInv' /\ qp' = qp /\ qpStage' = qpStage
  BY AdmmRests DEF QuadraticInv, qpVars
<1>2. QuadraticAnswerIsRight' /\ VerdictIsRight'
  BY DEF QuadraticAnswerIsRight, VerdictIsRight
<1>3. \A g \in Points' : AllInt(g, program.vars)'
  BY DEF QuadraticInv, AllInt
<1> QED BY <1>1, <1>2, <1>3 DEF QuadraticInv

\* Only the choice of the engine starts a run of it.
LEMMA ResolveKeepsQuadratic == ASSUME QuadraticInv, Resolve PROVE QuadraticInv'
<1>1. /\ program' = program /\ UNCHANGED qpVars /\ phase' # "ended"
      /\ engine' = "qp" => phase' = "quadratic"
  BY DEF Resolve, engineVars
<1>2. AdmmInv' /\ qp' = qp /\ qpStage' = qpStage
  BY <1>1, AdmmRests DEF QuadraticInv, qpVars
<1>3. QuadraticAnswerIsRight' /\ VerdictIsRight' /\ \A g \in Points' : AllInt(g, program.vars)'
  BY <1>1 DEF QuadraticAnswerIsRight, VerdictIsRight, QuadraticInv, AllInt
<1> QED BY <1>1, <1>2, <1>3 DEF QuadraticInv

\* A step of the engine.
LEMMA QuadraticStepKeeps == ASSUME QuadraticInv, Quadratic PROVE QuadraticInv'
<1>1. phase = "quadratic" /\ UNCHANGED <<program, engine, phase>>
  BY DEF Quadratic, driverVars, commandVars
<1>2. AdmmInv' /\ (qpStage' # "idle" => qp' = MakeQuadratic(program))
  <2>1. CASE AdmmStart(MakeQuadratic(program))
    <3>1. Ordered(MakeQuadratic(program)) /\ qp' = MakeQuadratic(program)
      BY <2>1, MadeData DEF QuadraticInv, AdmmStart
    <3> QED BY <2>1, <3>1, StartIsSlack DEF QuadraticInv
  <2>2. CASE AdmmStep
    <3>1. qp' = qp /\ qpStage # "idle"
      BY <2>2 DEF AdmmStep, Split, SolveThrows, LoopEnds
    <3> QED BY <2>2, <3>1, AdmmStepIsSlack DEF QuadraticInv
  <2> QED BY <2>1, <2>2 DEF Quadratic
<1>3. QuadraticAnswerIsRight' /\ VerdictIsRight' /\ \A g \in Points' : AllInt(g, program.vars)'
  BY <1>1 DEF QuadraticAnswerIsRight, VerdictIsRight, QuadraticInv, AllInt
<1> QED BY <1>1, <1>2, <1>3 DEF QuadraticInv

\* What the driver makes of its answer.
LEMMA QuadraticEndsRight == ASSUME QuadraticInv, QuadraticEnds PROVE QuadraticInv'
<1>1. /\ phase = "quadratic" /\ qpStage = "done" /\ UNCHANGED <<program, engine, qpVars>>
  BY DEF QuadraticEnds, commandVars, engineVars
<1>2. AdmmInv' /\ qp' = qp /\ qpStage' = qpStage
  BY <1>1, AdmmRests DEF QuadraticInv, qpVars
<1>3. phase' = "ended"
  BY DEF QuadraticEnds, Report, Nothing
<1>4. Feasible' = Feasible /\ (Diagonal' <=> Diagonal) /\ (\A u : ValueOf(qp, u)' = ValueOf(qp, u)) /\ \A u : GivenValue(u)' = GivenValue(u)
  BY <1>1, <1>2 DEF Feasible, Diagonal, GivenValue
<1>5. ASSUME result' = "optimal"
      PROVE  /\ report'.verified
             /\ \A g \in Feasible : program.sense * ValueOf(qp, g) >= program.sense * report'.z
             /\ Diagonal => report'.z = GivenValue(report'.x)
  <2>1. solution.status = "optimal" /\ VerifyQp(qp, solution.x, solution.y, solution.value)
    BY <1>5 DEF QuadraticEnds, Report, Nothing
  <2>2. PICK passed : /\ passed = VerifyQp(qp, solution.x, solution.y, solution.value)
                      /\ Report(IF passed THEN "optimal" ELSE "numerical_failure",
                                solution.x, solution.value, passed, TRUE)
    BY <2>1 DEF QuadraticEnds
  <2>3. passed
    BY <2>1, <2>2
  <2>4. report'.verified /\ report'.x = solution.x /\ report'.z = solution.value
    BY <2>2, <2>3 DEF Report
  <2> QED BY <1>1, <2>1, <2>4, QuadraticOptimum
<1>6. ASSUME result' = "infeasible" PROVE Feasible = {}
  <2>1. solution.status = "primal_infeasible"
    BY <1>6 DEF QuadraticEnds, Report, Nothing
  <2> QED BY <1>1, <2>1, QuadraticInfeasible
<1>7. QuadraticAnswerIsRight'
  BY <1>1, <1>2, <1>4, <1>5, <1>6 DEF QuadraticAnswerIsRight
<1>9. VerdictIsRight'
  <2>1. result' = "invalid_model" <=> solution.status = "non_convex"
    BY DEF QuadraticEnds, Report, Nothing
  <2>2. result' = "unbounded" <=> solution.status = "dual_infeasible"
    BY DEF QuadraticEnds, Report, Nothing
  <2> QED BY <1>1, <1>2, <2>1, <2>2, QuadraticVerdict DEF VerdictIsRight
<1>8. \A g \in Points' : AllInt(g, program.vars)'
  BY <1>1 DEF QuadraticInv, AllInt
<1> QED BY <1>1, <1>2, <1>3, <1>7, <1>8, <1>9 DEF QuadraticInv

\* The other steps do not belong to a run of the QP engine, or throw.
LEMMA OtherStepsKeep ==
  ASSUME QuadraticInv,
         \/ External \/ Presolving \/ Presolved \/ Scale \/ Running \/ Shortcut \/ Answered \/ Undoing
         \/ Check
  PROVE  QuadraticInv'
<1>1. UNCHANGED <<program, engine>>
  BY DEF External, Presolving, Presolved, Scale, Running, Shortcut, Answered, Undoing, Check,
         driverVars, commandVars
<1>2. UNCHANGED qpVars
  <2>1. CASE Scale
    BY <2>1 DEF Scale, Engine, engineVars
  <2> QED BY <2>1 DEF External, Presolving, Presolved, Running, Shortcut, Answered, Undoing, Check, engineVars
<1>3. phase \in {"external", "presolve", "scale", "engine", "undo", "check"}
  BY DEF External, TreeEnds, FirstOrderEnds, Presolving, Presolved, Scale, Running, Shortcut, Answered, Undoing, Check
<1>4. phase' # "quadratic"
  <2>1. CASE External \/ Check
    BY <2>1 DEF External, TreeEnds, FirstOrderEnds, Claimed, Check, Nothing, Report
  <2>2. CASE Presolving \/ Running
    BY <1>3, <2>2 DEF Presolving, Running, driverVars
  <2>3. CASE Presolved \/ Scale \/ Shortcut \/ Answered \/ Undoing
    BY <1>3, <2>3 DEF Presolved, Scale, Engine, Shortcut, Answered, Undoing, HandBack
  <2> QED BY <2>1, <2>2, <2>3
<1>5. engine # "qp"
  BY <1>3 DEF QuadraticInv
<1> QED BY <1>1, <1>2, <1>3, <1>4, <1>5, OutsideKeeps

\* An exception ends the run without an answer.
LEMMA ThrowsKeepsQuadratic == ASSUME QuadraticInv, Throws PROVE QuadraticInv'
<1>1. UNCHANGED <<program, engine, qpVars>> /\ thrown' /\ phase' = "ended"
  BY DEF Throws, Report, commandVars, engineVars
<1>2. AdmmInv' /\ qp' = qp /\ qpStage' = qpStage
  BY <1>1, AdmmRests DEF QuadraticInv, qpVars
<1>3. QuadraticAnswerIsRight' /\ VerdictIsRight' /\ \A g \in Points' : AllInt(g, program.vars)'
  BY <1>1 DEF QuadraticAnswerIsRight, VerdictIsRight, QuadraticInv, AllInt
<1> QED BY <1>1, <1>2, <1>3 DEF QuadraticInv

\* Stuttering changes nothing.
LEMMA QuadraticRests == ASSUME QuadraticInv, UNCHANGED vars PROVE QuadraticInv'
<1>1. UNCHANGED <<program, engine, phase, result, report, thrown, qpVars>>
  BY DEF vars, driverVars, commandVars, checkVars, engineVars
<1>2. AdmmInv' /\ qp' = qp /\ qpStage' = qpStage
  BY <1>1, AdmmRests DEF QuadraticInv, qpVars
<1>3. Feasible' = Feasible /\ (Diagonal' <=> Diagonal) /\ (\A u : ValueOf(qp, u)' = ValueOf(qp, u)) /\ \A u : GivenValue(u)' = GivenValue(u)
  BY <1>1, <1>2 DEF Feasible, Diagonal, GivenValue
<1>4. QuadraticAnswerIsRight'
  BY <1>1, <1>2, <1>3 DEF QuadraticAnswerIsRight, QuadraticInv
<1>5. \A g \in Points' : AllInt(g, program.vars)'
  BY <1>1 DEF QuadraticInv, AllInt
<1>6. VerdictIsRight'
  BY <1>1, <1>2 DEF VerdictIsRight, QuadraticInv
<1> QED BY <1>1, <1>2, <1>4, <1>5, <1>6 DEF QuadraticInv

\* So every step keeps the invariant.
LEMMA QuadraticKept == QuadraticInv /\ [Next]_vars => QuadraticInv'
  BY ResolveKeepsQuadratic, QuadraticStepKeeps, QuadraticEndsRight, OtherStepsKeep, ThrowsKeepsQuadratic,
     QuadraticRests DEF Next

(***************************************************************************)
(* An answer of the QP engine is right, for every quadratic model, however *)
(* the linear systems of the method turn out: a verified optimum has no    *)
(* better point, although the verifier sees neither signs nor products of  *)
(* multipliers; a model found infeasible has no point; and a diagonal      *)
(* matrix keeps the objective given.                                       *)
(***************************************************************************)
THEOREM QuadraticAnswersAreRight == Spec => []QuadraticAnswerIsRight
<1>1. QuadraticInv => QuadraticAnswerIsRight
  BY DEF QuadraticInv
<1> QED BY <1>1, QuadraticStarts, QuadraticKept, PTL DEF Spec

\* So are its other verdicts: the quadratic models it rejects are those that are
\* not convex, no more and no less, and one called unbounded has no least point.
THEOREM QuadraticVerdictsAreRight == Spec => []VerdictIsRight
<1>1. QuadraticInv => VerdictIsRight
  BY DEF QuadraticInv
<1> QED BY <1>1, QuadraticStarts, QuadraticKept, PTL DEF Spec

\* And the multipliers the engine works with fit its rows in every state of the
\* driver.
THEOREM EngineIsComplementary == Spec => []ComplementarySlackness
<1>1. QuadraticInv => ComplementarySlackness
  BY DEF QuadraticInv, AdmmInv
<1> QED BY <1>1, QuadraticStarts, QuadraticKept, PTL DEF Spec

-----------------------------------------------------------------------------
(***************************************************************************)
(* The methods in the driver: they are given a model of numbered rows and  *)
(* columns, and the driver takes no step of its own while they run.        *)
(***************************************************************************)
SolverInv ==
  /\ Given /\ answer.message \notin Alarms
  /\ \E k \in Commands : program = k.program
  /\ stage # "idle" => SimplexInv

\* The model given stays what it is.
LEMMA ProgramStays ==
  ASSUME [Next]_vars PROVE program' = program
<1>1. CASE UNCHANGED vars
  BY <1>1 DEF vars, driverVars, commandVars
<1>2. CASE Resolve
  BY <1>2 DEF Resolve
<1>3. CASE ~ Resolve /\ Next
  BY <1>3 DEF Next, External, Quadratic, QuadraticEnds, Presolving, Presolved, Shortcut, Scale, Running, Answered,
              Undoing, Check, Throws, driverVars, commandVars
<1> QED
  BY <1>1, <1>2, <1>3

\* Canonicalization numbers rows from one and columns from zero.
LEMMA CanonIsNumbered ==
  ASSUME Given PROVE canon.rows \subseteq Nat \ {0} /\ canon.cols \subseteq Nat
<1>1. WellFormed(program) /\ canon = Canonical(program)
  BY DEF Given
<1>2. PICK R, C : R = RowsOf(program) /\ C = ColsOf(program)
  OBVIOUS
<1>3. canon.rows = DOMAIN R /\ canon.cols = DOMAIN C
  BY <1>1, <1>2, CanonicalFields
<1>4. R \in Seq(RowSet(program)) /\ C \in Seq(ColumnSet(program))
  BY <1>1, <1>2, RowsListed, ColumnsListed DEF Enumerates
<1>5. DOMAIN R = 1 .. Len(R) /\ DOMAIN C = 1 .. Len(C)
  BY <1>4
<1> QED
  BY <1>3, <1>5

\* The model worked on.
LEMMA WorkingIsNumbered ==
  ASSUME Given, Working.cols # {}
  PROVE  Numbered(Working) /\ Working.rows \subseteq canon.rows /\ Working.cols \subseteq canon.cols
<1>1. ModelRecord(canon) /\ LinearModel(canon) /\ PresolveTypeOK /\ canon.rows \subseteq DOMAIN rhs
  BY CanonIsLinear DEF Given
<1>2. canon.rows \subseteq Nat \ {0} /\ canon.cols \subseteq Nat
  BY CanonIsNumbered
<1>3. CASE presolved
  <2>1. WorkingIsLeft
    BY <1>1, <1>3, WorksOnWhatIsLeft
  <2>2. rowActive \subseteq canon.rows /\ colActive \subseteq canon.cols
    BY <1>1 DEF PresolveTypeOK
  <2>3. /\ Working.rows = rowActive /\ Working.cols = colActive /\ ModelRecord(Working) /\ LinearModel(Working)
    BY <2>1 DEF WorkingIsLeft
  <2> QED
    BY <1>2, <2>2, <2>3 DEF Numbered
<1>4. CASE ~ presolved
  <2>1. Working = canon
    BY <1>4 DEF Working
  <2> QED
    BY <1>1, <1>2, <2>1 DEF Numbered
<1> QED
  BY <1>3, <1>4

\* Scaling changes numbers only.
LEMMA EquilibratedIsNumbered ==
  ASSUME NEW m, Numbered(m), NEW r, \A i \in m.rows : r[i] \in Int, NEW k, \A j \in m.cols : k[j] \in Int
  PROVE  Numbered(Equilibrated(m, r, k))
<1> DEFINE aa == [i \in DOMAIN m.a |-> [j \in DOMAIN m.a[i] |-> r[i] * m.a[i][j] * k[j]]]
           bb == [i \in DOMAIN m.b |-> Clamp(r[i]) * m.b[i]]
           cc == [j \in DOMAIN m.c |-> Clamp(k[j]) * m.c[j]]
           e == Equilibrated(m, r, k)
<1>1. ModelRecord(m) /\ LinearModel(m)
  BY DEF Numbered
<1>2. e = [m EXCEPT !.a = aa, !.b = bb, !.c = cc]
  BY DEF Equilibrated
<1>3. (\A i \in m.rows : Clamp(r[i]) \in Int) /\ (\A j \in m.cols : Clamp(k[j]) \in Int)
  BY ScaleRange DEF Clamp
<1>4. \A i \in m.rows : bb[i] \in Int /\ i \in DOMAIN bb
  <2> TAKE i \in m.rows
  <2>1. i \in DOMAIN m.b /\ bb[i] = Clamp(r[i]) * m.b[i] /\ m.b[i] \in Int
    BY <1>1 DEF ModelRecord, LinearModel
  <2> QED
    BY <1>3, <2>1
<1>5. \A j \in m.cols : cc[j] \in Int /\ j \in DOMAIN cc
  <2> TAKE j \in m.cols
  <2>1. j \in DOMAIN m.c /\ cc[j] = Clamp(k[j]) * m.c[j] /\ m.c[j] \in Int
    BY <1>1 DEF ModelRecord, LinearModel
  <2> QED
    BY <1>3, <2>1
<1>6. \A i \in m.rows, j \in m.cols : aa[i][j] \in Int /\ i \in DOMAIN aa /\ j \in DOMAIN aa[i]
  <2> TAKE i \in m.rows, j \in m.cols
  <2>1. i \in DOMAIN m.a /\ j \in DOMAIN m.a[i] /\ m.a[i][j] \in Int /\ r[i] \in Int /\ k[j] \in Int
    BY <1>1 DEF ModelRecord, LinearModel
  <2>2. aa[i] = [l \in DOMAIN m.a[i] |-> r[i] * m.a[i][l] * k[l]]
    BY <2>1
  <2>3. aa[i][j] = r[i] * m.a[i][j] * k[j]
    BY <2>1, <2>2
  <2> QED
    BY <2>1, <2>2, <2>3
<1>7. \A i \in m.rows : i \in DOMAIN aa
  BY <1>1 DEF ModelRecord
<1> HIDE DEF aa, bb, cc, e
<1>8. /\ e.rows = m.rows /\ e.cols = m.cols
      /\ e.a = aa /\ e.b = bb /\ e.c = cc /\ DOMAIN e = DOMAIN m
  BY <1>1, <1>2 DEF ModelRecord
<1>9. ModelRecord(e)
  BY <1>1, <1>4, <1>5, <1>6, <1>7, <1>8 DEF ModelRecord
<1>10. LinearModel(e)
  BY <1>1, <1>4, <1>5, <1>6, <1>8 DEF LinearModel
<1> QED
  BY <1>8, <1>9, <1>10 DEF Numbered, e

-----------------------------------------------------------------------------
\* At the start no method runs.
LEMMA SolverStarts ==
  Init => SolverInv
<1> SUFFICES ASSUME Init PROVE SolverInv
  OBVIOUS
<1>1. Given
  BY DriverStarts DEF DriverInv
<1>2. stage = "idle" /\ answer = NoAnswer
  BY DEF Init, PipelineInit, SimplexIdle
<1>3. answer.message \notin Alarms
  BY <1>2 DEF NoAnswer, Alarms
<1>4. \E k \in Commands : program = k.program
  BY DEF Init, PipelineInit
<1> QED
  BY <1>1, <1>2, <1>3, <1>4 DEF SolverInv

\* The engine is started on the model worked on.
LEMMA ScaleStarts ==
  ASSUME SolverInv, Scale PROVE SimplexInv'
<1>1. Given /\ Working.cols # {} /\ answer.message \notin Alarms
  BY DEF SolverInv, Scale
<1>2. Numbered(Working) /\ Working.rows \subseteq canon.rows /\ Working.cols \subseteq canon.cols
  BY <1>1, WorkingIsNumbered
<1>6. PICK c \in Commands : program = c.program
  BY DEF SolverInv
<1>7. canon = Canonical(c.program)
  BY <1>1, <1>6 DEF Given
<1>3. /\ stage' \in {"warm", "start"} /\ answer' = answer /\ Working' = Working
  BY DEF Scale, Engine, presolveVars, keptVars, Working, Reduced
<1>4. CASE \E r \in RowScales, k \in ColScales :
             scalers' = [applied |-> TRUE, row |-> r, col |-> k] /\ Engine(Equilibrated(Working, r, k))
  <2>1. PICK r \in RowScales, k \in ColScales :
          scalers' = [applied |-> TRUE, row |-> r, col |-> k] /\ Engine(Equilibrated(Working, r, k))
    BY <1>4
  <2>3. (\A i \in Working.rows : r[i] \in Int) /\ (\A j \in Working.cols : k[j] \in Int)
    BY <1>2, <1>7, ScalesAreWhole
  <2>4. lp' = Equilibrated(Working, r, k)
    BY <2>1 DEF Engine
  <2>5. Numbered(Equilibrated(Working, r, k))
    BY <1>2, <2>3, EquilibratedIsNumbered
  <2>6. Numbered(lp')
    BY <2>4, <2>5
  <2> QED
    BY <1>1, <1>3, <2>6 DEF SimplexInv, Alarms
<1>5. CASE Engine(Working)
  <2>1. lp' = Working
    BY <1>5 DEF Engine
  <2>2. Numbered(lp')
    BY <1>2, <2>1
  <2> QED
    BY <1>1, <1>3, <2>2 DEF SimplexInv, Alarms
<1> QED
  BY <1>4, <1>5 DEF Scale

\* Every step of the driver keeps the invariant.
LEMMA SolverKept ==
  ASSUME SolverInv, [Next]_vars PROVE SolverInv'
<1>1. Given'
  BY GivenKept DEF SolverInv
<1>5. \E k \in Commands : program' = k.program
  BY ProgramStays DEF SolverInv
<1>2. CASE Scale
  <2>1. SimplexInv'
    BY <1>2, ScaleStarts
  <2> QED
    BY <1>1, <1>5, <2>1 DEF SolverInv, SimplexInv, Alarms
<1>3. CASE Running
  <2>1. SimplexStep
    BY <1>3 DEF Running
  <2>2. stage # "idle"
    BY <2>1 DEF SimplexStep, PrimalStep, Start, Iterate, OutOfIterations, CleanNext, CleanEnds, Breakdown,
                DualStart, DualIterate
  <2>3. SimplexInv'
    BY <2>1, <2>2, SimplexKept DEF SolverInv
  <2> QED
    BY <1>1, <1>5, <2>3 DEF SolverInv, SimplexInv, Alarms
<1>4. ASSUME ~ Scale, ~ Running PROVE SolverInv'
  <2>1. UNCHANGED simplexVars
    BY <1>4 DEF Next, vars, engineVars, Resolve, External, Quadratic, QuadraticEnds, Presolving, Presolved,
                Shortcut, Answered, Undoing, Check, Throws
  <2>2. stage' = stage /\ answer' = answer /\ UNCHANGED <<lp, workVars, stage, step, cleaned, answer>>
    BY <2>1 DEF simplexVars, countVars
  <2>3. stage # "idle" => SimplexInv'
    BY <2>2, SimplexRests DEF SolverInv
  <2> QED
    BY <1>1, <1>5, <2>2, <2>3 DEF SolverInv, Alarms
<1> QED
  BY <1>2, <1>3, <1>4

\* And the invariant says what is to be shown.
LEMMA SolverShows ==
  SolverInv => KeepsPrimalFeasible /\ KeepsDualFeasible /\ WitnessAccepted
<1> SUFFICES ASSUME SolverInv PROVE KeepsPrimalFeasible /\ KeepsDualFeasible /\ WitnessAccepted
  OBVIOUS
<1>1. CASE stage = "idle"
  BY <1>1 DEF SolverInv, Alarms, KeepsPrimalFeasible, KeepsDualFeasible, WitnessAccepted
<1>2. CASE stage # "idle"
  BY <1>2, InvariantsFollow DEF SolverInv
<1> QED
  BY <1>1, <1>2

(***************************************************************************)
(* Both phases of the primal method move between nonsingular bases with a  *)
(* nonnegative solution.                                                   *)
(***************************************************************************)
THEOREM PrimalStaysFeasible == Spec => []KeepsPrimalFeasible
<1>1. SolverInv /\ [Next]_vars => SolverInv'
  BY SolverKept
<1> QED
  BY <1>1, SolverStarts, SolverShows, PTL DEF Spec

(***************************************************************************)
(* The dual method keeps its basis nonsingular, and dual feasible once it  *)
(* has passed the test at the start.                                       *)
(***************************************************************************)
THEOREM DualStaysFeasible == Spec => []KeepsDualFeasible
<1>1. SolverInv /\ [Next]_vars => SolverInv'
  BY SolverKept
<1> QED
  BY <1>1, SolverStarts, SolverShows, PTL DEF Spec

(***************************************************************************)
(* The verifier accepts every witness the methods give.                    *)
(***************************************************************************)
THEOREM WitnessesAreAccepted == Spec => []WitnessAccepted
<1>1. SolverInv /\ [Next]_vars => SolverInv'
  BY SolverKept
<1> QED
  BY <1>1, SolverStarts, SolverShows, PTL DEF Spec
=============================================================================
