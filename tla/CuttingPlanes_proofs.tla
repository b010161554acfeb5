------------------------ MODULE CuttingPlanes_proofs -------------------------
(***************************************************************************)
(* Cuts at the root are valid, for every model whose integer variables are *)
(* bounded from below and which has no free variable, and the bound the    *)
(* tree search starts from holds for every point of the model.             *)
(*                                                                         *)
(* A point of the model, over Halves, is a point of the canonical model on *)
(* which the row of the tableau holds; rounding that row (Gomory's way or  *)
(* MIR's, which come to the same weights) leaves an inequality that the    *)
(* integrality of the point implies.  Solving the slacks for their rows,   *)
(* going back to the variables of the model, taking a divisor out, sorting *)
(* and filtering lose none of it, and a row made of a valid cut cuts off   *)
(* no point.                                                               *)
(***************************************************************************)
EXTENDS CuttingPlanes, Models_proofs

\* A larger factor makes a multiple of a natural number no smaller.
LEMMA TimesMonotone ==
  ASSUME NEW c \in Nat, NEW a \in Int, NEW b \in Int, a <= b
  PROVE  c * a <= c * b /\ c * a \in Int /\ c * b \in Int
<1>1. PICK z \in Nat : b = a + z
  <2>1. b - a \in Nat /\ b = a + (b - a)
    OBVIOUS
  <2> QED
    BY <2>1
<1>2. c * b = c * a + c * z /\ c * z \in Nat /\ c * a \in Int /\ c * b \in Int
  BY <1>1
<1> QED
  BY <1>2

-----------------------------------------------------------------------------
\* What a weight w must be for a column with the entry n, in a row with the
\* fraction f over e: a multiple of e may be taken out of the entry of an
\* integer column.
Rounds(w, n, f, e, J, k) ==
  \E g \in Int, t \in Int :
    /\ n = e * t + g /\ (k \notin J => t = 0)
    /\ w >= (e - f) * g /\ w >= (-f) * g

\* The two sides of the disjunction: what is left of the row is at least the
\* fraction or at most the fraction less one.
LEMMA TwoSides ==
  ASSUME NEW h \in Nat, NEW e \in Nat, NEW f \in Nat, f <= e, NEW t \in Int, NEW s \in Int, s = h * (e * t + f),
         NEW w \in Int, w >= (e - f) * s, w >= (-f) * s
  PROVE  w >= h * (f * (e - f))
<1>1. PICK d \in Nat : d = e - f
  <2>1. e - f \in Nat
    OBVIOUS
  <2> QED
    BY <2>1
<1>2. CASE t >= 0
  <2>1. h * f <= s
    <3>1. e * t \in Nat
      BY <1>2
    <3>2. f <= e * t + f /\ e * t + f \in Int
      BY <3>1
    <3> QED
      BY <3>2, TimesMonotone
  <2>2. h * f \in Int
    OBVIOUS
  <2>3. d * (h * f) <= d * s
    BY <2>1, <2>2, TimesMonotone
  <2>4. d * (h * f) = h * (f * d) /\ h * (f * d) \in Int /\ d * s \in Int
    OBVIOUS
  <2>5. w >= d * s
    BY <1>1
  <2> QED
    BY <1>1, <2>3, <2>4, <2>5
<1>3. CASE ~ t >= 0
  <2>1. PICK z \in Nat : t = (-1) - z
    <3>1. (-1) - t \in Nat /\ t = (-1) - ((-1) - t)
      BY <1>3
    <3> QED
      BY <3>1
  <2>2. e * t + f = (-d) - e * z /\ e * z \in Nat
    BY <1>1, <2>1
  <2>3. d <= -(e * t + f) /\ -(e * t + f) \in Int
    BY <2>2
  <2>4. h * d <= h * (-(e * t + f))
    BY <2>3, TimesMonotone
  <2>5. h * (-(e * t + f)) = -s
    <3> DEFINE q == e * t + f
    <3>1. q \in Int /\ s = h * q
      OBVIOUS
    <3> HIDE DEF q
    <3>2. h * (-q) = -s
      BY <3>1
    <3> QED
      BY <3>2 DEF q
  <2>6. h * d \in Int /\ -s \in Int /\ h * d <= -s
    BY <2>4, <2>5
  <2>7. f * (h * d) <= f * (-s)
    BY <2>6, TimesMonotone
  <2>8. f * (h * d) = h * (f * d) /\ h * (f * d) \in Int /\ f * (-s) = (-f) * s /\ (-f) * s \in Int
    OBVIOUS
  <2> QED
    BY <1>1, <2>7, <2>8
<1> QED
  BY <1>2, <1>3

TermsOf(n, y, N) == [k \in N |-> n[k] * y[k]]

\* A sum of products is an integer.
LEMMA ProductsType ==
  ASSUME NEW N, IsFiniteSet(N), NEW n, AllInt(n, N), NEW y, AllInt(y, N)
  PROVE  AllInt(TermsOf(n, y, N), N) /\ Total(TermsOf(n, y, N), N) \in Int
<1>1. AllInt(TermsOf(n, y, N), N)
  BY DEF AllInt, TermsOf
<1> QED
  BY <1>1, TotalType

\* A multiple of y that is at most w, column by column.
LEMMA WeightsCover ==
  ASSUME NEW N, IsFiniteSet(N), NEW g, AllInt(g, N), NEW y, AllInt(y, N), \A k \in N : y[k] >= 0,
         NEW w, AllInt(w, N), NEW c \in Int, \A k \in N : w[k] >= c * g[k]
  PROVE  Total(TermsOf(w, y, N), N) >= c * Total(TermsOf(g, y, N), N)
<1> DEFINE a == TermsOf(g, y, N)
           b == TermsOf(w, y, N)
           m == [k \in N |-> c * a[k]]
<1>1. ASSUME NEW k \in N PROVE a[k] \in Int /\ b[k] \in Int /\ m[k] = c * a[k] /\ m[k] \in Int /\ m[k] <= b[k]
  <2>1. g[k] \in Int /\ w[k] \in Int /\ y[k] \in Nat /\ w[k] >= c * g[k]
    BY DEF AllInt
  <2>2. a[k] = g[k] * y[k] /\ b[k] = w[k] * y[k] /\ m[k] = c * a[k]
    BY DEF TermsOf
  <2>3. c * g[k] \in Int /\ c * g[k] <= w[k]
    BY <2>1
  <2>4. y[k] * (c * g[k]) <= y[k] * w[k]
    BY <2>1, <2>3, TimesMonotone
  <2>5. y[k] * (c * g[k]) = c * (g[k] * y[k]) /\ y[k] * w[k] = w[k] * y[k]
        /\ g[k] * y[k] \in Int /\ w[k] * y[k] \in Int /\ c * (g[k] * y[k]) \in Int
    BY <2>1
  <2> QED
    BY <2>2, <2>4, <2>5
<1> HIDE DEF a, b, m
<1>2. AllInt(a, N) /\ AllInt(b, N) /\ AllInt(m, N) /\ (\A k \in N : m[k] <= b[k]) /\ (\A k \in N : m[k] = c * a[k])
  BY <1>1 DEF AllInt
<1>3. Total(m, N) <= Total(b, N) /\ Total(m, N) = c * Total(a, N) /\ Total(b, N) \in Int /\ Total(m, N) \in Int
  BY <1>2, TotalMonotone, TotalMultiple, TotalType
<1> QED
  BY <1>3 DEF a, b

(***************************************************************************)
(* Where a row holds at a point with e q + f on its right, of which the    *)
(* columns J are integral over h, weights that round it give at least the  *)
(* product of the two fractions.                                           *)
(***************************************************************************)
LEMMA RoundedRow ==
  ASSUME NEW N, IsFiniteSet(N), NEW n, AllInt(n, N), NEW w, AllInt(w, N),
         NEW y, AllInt(y, N), \A k \in N : y[k] >= 0, NEW J,
         NEW h \in Nat, \A k \in N \cap J : \E z \in Int : y[k] = h * z,
         NEW e \in Nat, NEW f \in Nat, f <= e, NEW q \in Int,
         \A k \in N : Rounds(w[k], n[k], f, e, J, k),
         Total(TermsOf(n, y, N), N) = h * (e * q + f)
  PROVE  Total(TermsOf(w, y, N), N) >= h * (f * (e - f))
<1> DEFINE g == [k \in N |-> CHOOSE a \in Int : \E t \in Int :
                    /\ n[k] = e * t + a /\ (k \notin J => t = 0)
                    /\ w[k] >= (e - f) * a /\ w[k] >= (-f) * a]
           u == [k \in N |-> CHOOSE v \in Int : n[k] * y[k] = (h * e) * v + g[k] * y[k]]
           a == TermsOf(g, y, N)
           b == TermsOf(n, y, N)
           m == [k \in N |-> (h * e) * u[k]]
           W == Total(TermsOf(w, y, N), N)
           S == Total(a, N)
           V == Total(u, N)
<1>1. ASSUME NEW k \in N
      PROVE  /\ g[k] \in Int /\ w[k] >= (e - f) * g[k] /\ w[k] >= (-f) * g[k]
             /\ \E t \in Int : n[k] = e * t + g[k] /\ (k \notin J => t = 0)
  <2>1. \E c \in Int : \E t \in Int :
           /\ n[k] = e * t + c /\ (k \notin J => t = 0)
           /\ w[k] >= (e - f) * c /\ w[k] >= (-f) * c
    BY DEF Rounds
  <2> QED
    BY <2>1
<1> HIDE DEF g
<1>2. ASSUME NEW k \in N PROVE u[k] \in Int /\ n[k] * y[k] = (h * e) * u[k] + g[k] * y[k]
  <2>1. PICK t \in Int : n[k] = e * t + g[k] /\ (k \notin J => t = 0)
    BY <1>1
  <2>2. y[k] \in Int /\ g[k] \in Int
    BY <1>1 DEF AllInt
  <2>3. \E v \in Int : n[k] * y[k] = (h * e) * v + g[k] * y[k]
    <3>1. CASE k \in J
      <4>1. PICK z \in Int : y[k] = h * z
        BY <3>1
      <4>2. t * z \in Int
        OBVIOUS
      <4>3. (e * t + g[k]) * y[k] = (e * t) * y[k] + g[k] * y[k]
        BY <2>2
      <4>4. (e * t) * (h * z) = (h * e) * (t * z)
        OBVIOUS
      <4>5. n[k] * y[k] = (h * e) * (t * z) + g[k] * y[k]
        BY <2>1, <4>1, <4>3, <4>4
      <4> QED
        BY <4>2, <4>5
    <3>2. CASE k \notin J
      <4>1. n[k] = g[k]
        BY <2>1, <2>2, <3>2
      <4>2. g[k] * y[k] = (h * e) * 0 + g[k] * y[k]
        BY <2>2
      <4> QED
        BY <4>1, <4>2
    <3> QED
      BY <3>1, <3>2
  <2> QED
    BY <2>3
<1> HIDE DEF u
<1>3. AllInt(g, N) /\ AllInt(u, N)
  BY <1>1, <1>2 DEF AllInt
<1>4. AllInt(a, N) /\ S \in Int /\ W \in Int
  BY <1>3, ProductsType
<1>5. V \in Int
  BY <1>3, TotalType
<1>6. h * e \in Int
  OBVIOUS
<1>7. \A k \in N : b[k] = m[k] + a[k] /\ m[k] = (h * e) * u[k]
  BY <1>2 DEF TermsOf
<1>8. AllInt(m, N)
  BY <1>2, <1>6 DEF AllInt
<1>9. Total(m, N) = (h * e) * V /\ Total(b, N) = Total(m, N) + S
  <2> HIDE DEF a, b, m
  <2> QED
    BY <1>3, <1>4, <1>6, <1>7, <1>8, TotalMultiple, TotalSum
<1>10. W >= (e - f) * S /\ W >= (-f) * S
  <2>1. (\A k \in N : w[k] >= (e - f) * g[k]) /\ (\A k \in N : w[k] >= (-f) * g[k])
    BY <1>1
  <2>2. e - f \in Int /\ -f \in Int
    OBVIOUS
  <2> QED
    BY <1>3, <2>1, <2>2, WeightsCover
<1>11. S = h * (e * (q - V) + f)
  <2>1. Total(b, N) = h * (e * q + f)
    OBVIOUS
  <2> HIDE DEF a, b, m, S, V
  <2>2. S = h * (e * q + f) - (h * e) * V
    BY <1>4, <1>5, <1>9, <2>1
  <2> QED
    BY <1>5, <2>2
<1> HIDE DEF S, W
<1>12. q - V \in Int
  BY <1>5
<1>13. W >= h * (f * (e - f))
  BY <1>4, <1>10, <1>11, <1>12, TwoSides
<1> QED
  BY <1>13 DEF W

-----------------------------------------------------------------------------
\* The remainder of an entry, and the entry less it.
LEMMA Remainder ==
  ASSUME NEW n \in Int, NEW e \in Nat \ {0}
  PROVE  /\ n \div e \in Int /\ n % e \in Nat /\ n % e < e
         /\ n = e * (n \div e) + (n % e)
  OBVIOUS

\* A weight of Gomory's rounds an entry.
LEMMA GomoryRounds ==
  ASSUME D \in Nat \ {0}, NEW n \in Int, NEW f \in Nat, f < D, NEW J, NEW k, NEW i \in BOOLEAN, i = (k \in J)
  PROVE  GomoryWeight(n, f, i) \in Int /\ Rounds(GomoryWeight(n, f, i), n, f, D, J, k)
<1> DEFINE w == GomoryWeight(n, f, i)
<1>1. PICK e \in Nat \ {0} : e = D
  OBVIOUS
<1>2. PICK d \in Nat : d = e - f /\ d > 0
  <2>1. e - f \in Nat /\ e - f > 0
    BY <1>1
  <2> QED
    BY <2>1
<1>3. CASE ~ i
  <2>1. n = e * 0 + n
    OBVIOUS
  <2>2. CASE n >= 0
    <3>1. w = n * d
      BY <1>1, <1>2, <1>3, <2>2 DEF GomoryWeight, ContinuousWeight
    <3>2. n * d \in Int /\ n * d >= d * n /\ n * d >= (-f) * n
      <4>1. n * d \in Nat /\ f * n \in Nat /\ (-f) * n = -(f * n) /\ n * d = d * n
        BY <2>2
      <4> QED
        BY <4>1
    <3>3. w \in Int /\ \E g \in Int, s \in Int : n = e * s + g /\ (k \notin J => s = 0) /\ w >= d * g /\ w >= (-f) * g
      BY <2>1, <3>1, <3>2
    <3> QED
      BY <1>1, <1>2, <3>3 DEF Rounds
  <2>3. CASE ~ n >= 0
    <3>1. w = -f * n
      BY <1>1, <1>2, <1>3, <2>3 DEF GomoryWeight, ContinuousWeight
    <3>2. -f * n \in Int /\ -f * n >= (-f) * n /\ -f * n >= d * n
      <4>1. PICK z \in Nat : n = -z
        <5>1. -n \in Nat /\ n = -(-n)
          BY <2>3
        <5> QED
          BY <5>1
      <4>2. f * z \in Nat /\ d * z \in Nat /\ f * n = -(f * z) /\ (-f) * n = f * z /\ d * n = -(d * z)
        BY <4>1
      <4> QED
        BY <4>2
    <3>3. w \in Int /\ \E g \in Int, s \in Int : n = e * s + g /\ (k \notin J => s = 0) /\ w >= d * g /\ w >= (-f) * g
      BY <2>1, <3>1, <3>2
    <3> QED
      BY <1>1, <1>2, <3>3 DEF Rounds
  <2> QED
    BY <2>2, <2>3
<1>4. CASE i
  <2> DEFINE r == n % e
             t == n \div e
  <2>1. t \in Int /\ r \in Nat /\ r < e /\ n = e * t + r
    BY Remainder
  <2>2. k \in J
    BY <1>4
  <2>3. w = IF r <= f THEN r * d ELSE f * (e - r)
    BY <1>1, <1>2, <1>4 DEF GomoryWeight
  <2> HIDE DEF r, t, w
  <2>4. CASE r <= f
    <3>1. w \in Int /\ w >= d * r /\ w >= (-f) * r
      <4>1. r * d \in Nat /\ f * r \in Nat /\ (-f) * r = -(f * r) /\ r * d = d * r
        BY <2>1
      <4> QED
        BY <2>3, <2>4, <4>1
    <3>2. w \in Int /\ \E g \in Int, s \in Int : n = e * s + g /\ (k \notin J => s = 0) /\ w >= d * g /\ w >= (-f) * g
      BY <2>1, <2>2, <3>1
    <3> QED
      BY <1>1, <1>2, <3>2 DEF Rounds, w
  <2>5. CASE ~ r <= f
    <3> DEFINE g == r - e
    <3>1. g \in Int /\ n = e * (t + 1) + g /\ t + 1 \in Int
      BY <2>1
    <3>2. PICK z \in Nat : z = e - r /\ g = -z
      <4>1. e - r \in Nat /\ g = -(e - r)
        BY <2>1
      <4> QED
        BY <4>1
    <3> HIDE DEF g
    <3>3. w \in Int /\ w >= d * g /\ w >= (-f) * g
      <4>1. f * z \in Nat /\ d * z \in Nat /\ (-f) * g = f * z /\ d * g = -(d * z)
        BY <3>2
      <4> QED
        BY <2>3, <2>5, <3>2, <4>1
    <3>4. w \in Int /\ \E c \in Int, s \in Int : n = e * s + c /\ (k \notin J => s = 0) /\ w >= d * c /\ w >= (-f) * c
      BY <2>2, <3>1, <3>3
    <3> QED
      BY <1>1, <1>2, <3>4 DEF Rounds, w
  <2> QED
    BY <2>4, <2>5
<1> QED
  BY <1>3, <1>4

\* MIR's weights are Gomory's.
LEMMA SameWeights ==
  ASSUME D \in Nat \ {0}, NEW n \in Int, NEW f \in Nat, f < D, NEW i \in BOOLEAN
  PROVE  MirWeight(n, f, i) = GomoryWeight(n, f, i)
<1>1. PICK e \in Nat \ {0} : e = D
  OBVIOUS
<1>2. CASE ~ i
  BY <1>2 DEF MirWeight, GomoryWeight
<1>3. CASE i
  <2> DEFINE r == n % e
             t == n \div e
             top == Max({0, r - f})
  <2>1. t \in Int /\ r \in Nat /\ r < e /\ n = e * t + r
    BY Remainder
  <2>2. top = IF r <= f THEN 0 ELSE r - f
    <3>1. {0, r - f} \in SUBSET Int /\ {0, r - f} # {}
      BY <2>1
    <3>2. IsFiniteSet({0, r - f})
      <4>1. IsFiniteSet({0}) /\ {0, r - f} = {0} \union {r - f}
        BY FS_Singleton
      <4>2. IsFiniteSet({0} \union {r - f})
        BY <4>1, FS_AddElement
      <4> QED
        BY <4>1, <4>2, Zenon
    <3>3. top \in {0, r - f} /\ \A z \in {0, r - f} : top >= z
      BY <3>1, <3>2, LargestOfSet DEF Largest
    <3> HIDE DEF top
    <3>4. top = 0 \/ top = r - f
      BY <3>3
    <3>5. top >= 0 /\ top >= r - f
      BY <3>3
    <3> QED
      BY <2>1, <3>4, <3>5
  <2>3. MirWeight(n, f, i) = n * (e - f) - (t * e * (e - f) + e * top)
    BY <1>1, <1>3 DEF MirWeight, MirFunction
  <2>4. GomoryWeight(n, f, i) = IF r <= f THEN r * (e - f) ELSE f * (e - r)
    BY <1>1, <1>3 DEF GomoryWeight
  <2> HIDE DEF r, t, top
  <2>5. n * (e - f) = (t * e) * (e - f) + r * (e - f)
    BY <2>1
  <2>6. CASE r <= f
    <3>1. e * top = 0
      BY <2>2, <2>6
    <3> QED
      BY <2>1, <2>3, <2>4, <2>5, <2>6, <3>1
  <2>7. CASE ~ r <= f
    <3>1. e * top = e * r - e * f
      BY <2>1, <2>2, <2>7
    <3>2. r * (e - f) - (e * r - e * f) = f * (e - r)
      BY <2>1
    <3>3. (t * e) * (e - f) \in Int /\ r * (e - f) \in Int /\ e * r - e * f \in Int
      BY <2>1
    <3> QED
      BY <2>1, <2>3, <2>4, <2>5, <2>7, <3>1, <3>2, <3>3
  <2> QED
    BY <2>6, <2>7
<1> QED
  BY <1>2, <1>3

-----------------------------------------------------------------------------
\* A bound over a denominator is the bound with a multiple of its value.
LEMMA TimesBound ==
  ASSUME NEW b, IsBound(b), NEW h \in Nat \ {0}
  PROVE  /\ IsBound(Times(b, h)) /\ Times(b, h).finite = b.finite
         /\ Times(b, h).value = h * b.value /\ b.value \in Int
<1>1. b \in [finite : BOOLEAN, value : Int]
  BY DEF IsBound
<1>2. Times(b, h) = [b EXCEPT !.value = h * b.value]
  BY DEF Times
<1>3. h * b.value \in Int
  BY <1>1
<1> QED
  BY <1>1, <1>2, <1>3 DEF IsBound

\* The order of two numbers is that of their multiples.
LEMMA OrderOfMultiples ==
  ASSUME NEW h \in Nat \ {0}, NEW a \in Int, NEW b \in Int
  PROVE  (h * a <= h * b <=> a <= b) /\ (h * a = h * b <=> a = b) /\ h * a \in Int /\ h * b \in Int
<1>1. h * a \in Int /\ h * b \in Int
  OBVIOUS
<1>2. ASSUME NEW x \in Int, NEW y \in Int, x < y PROVE h * x < h * y
  <2>1. x + 1 <= y
    BY <1>2
  <2>2. h * (x + 1) <= h * y
    BY <2>1, TimesMonotone
  <2>3. h * (x + 1) = h * x + h /\ h * x \in Int /\ h * y \in Int
    OBVIOUS
  <2> QED
    BY <2>2, <2>3
<1>3. CASE a < b
  BY <1>1, <1>2, <1>3
<1>4. CASE a = b
  BY <1>1, <1>4
<1>5. CASE b < a
  BY <1>1, <1>2, <1>5
<1> QED
  BY <1>3, <1>4, <1>5

\* The fields of a model over a denominator.
LEMMA OverFields ==
  ASSUME NEW p, IsProgram(p), NEW h \in Nat \ {0}
  PROVE  LET o == Over(p, h)
         IN  /\ o.vars = p.vars /\ o.rows = p.rows /\ o.a = p.a /\ o.c = p.c /\ o.ints = p.ints
             /\ o.sense = p.sense /\ o.grid = h /\ o.offset = h * p.offset
             /\ \A j \in p.vars : o.lo[j] = Times(p.lo[j], h) /\ o.up[j] = Times(p.up[j], h)
             /\ \A i \in p.rows : o.rowLo[i] = Times(p.rowLo[i], h) /\ o.rowUp[i] = Times(p.rowUp[i], h)
             /\ DOMAIN o = DOMAIN p
<1>1. {"vars", "c", "offset", "rows", "sense", "a", "lo", "up", "rowLo", "rowUp", "ints", "grid"} \subseteq DOMAIN p
  BY DEF IsProgram, WellFormed
<1>2. DOMAIN p.lo = p.vars /\ DOMAIN p.up = p.vars /\ DOMAIN p.rowLo = p.rows /\ DOMAIN p.rowUp = p.rows
  <2>1. /\ p.lo = [j \in p.vars |-> p.lo[j]] /\ p.up = [j \in p.vars |-> p.up[j]]
        /\ p.rowLo = [i \in p.rows |-> p.rowLo[i]] /\ p.rowUp = [i \in p.rows |-> p.rowUp[i]]
    BY DEF IsProgram
  <2> QED
    BY <2>1
<1> QED
  BY <1>1, <1>2 DEF Over

\* It is a model, with the same rows and columns in canonical form.
LEMMA OverWellFormed ==
  ASSUME NEW p, IsProgram(p), NEW h \in Nat \ {0}
  PROVE  WellFormed(Over(p, h))
<1>1. PICK o : o = Over(p, h)
  OBVIOUS
<1>2. WellFormed(p)
  BY DEF IsProgram
<1>3. /\ o.vars = p.vars /\ o.rows = p.rows /\ o.a = p.a /\ o.c = p.c
      /\ o.sense = p.sense /\ o.offset = h * p.offset
      /\ \A j \in p.vars : o.lo[j] = Times(p.lo[j], h) /\ o.up[j] = Times(p.up[j], h)
      /\ \A i \in p.rows : o.rowLo[i] = Times(p.rowLo[i], h) /\ o.rowUp[i] = Times(p.rowUp[i], h)
      /\ DOMAIN o = DOMAIN p
  BY <1>1, OverFields
<1>4. ASSUME NEW a, NEW b, Bounds(a, b) PROVE Bounds(Times(a, h), Times(b, h))
  <2>1. IsBound(a) /\ IsBound(b)
    BY <1>4 DEF Bounds
  <2>2. /\ IsBound(Times(a, h)) /\ Times(a, h).finite = a.finite /\ Times(a, h).value = h * a.value /\ a.value \in Int
        /\ IsBound(Times(b, h)) /\ Times(b, h).finite = b.finite /\ Times(b, h).value = h * b.value /\ b.value \in Int
    BY <2>1, TimesBound
  <2>3. h * a.value <= h * b.value <=> a.value <= b.value
    BY <2>2, OrderOfMultiples
  <2> QED
    BY <1>4, <2>2, <2>3 DEF Bounds
<1>5. \A j \in p.vars : Bounds(o.lo[j], o.up[j])
  BY <1>2, <1>3, <1>4 DEF WellFormed
<1>6. \A i \in p.rows : Bounds(o.rowLo[i], o.rowUp[i])
  BY <1>2, <1>3, <1>4 DEF WellFormed
<1>7. h * p.offset \in Int
  BY <1>2 DEF WellFormed
<1>8. WellFormed(o)
  BY <1>2, <1>3, <1>5, <1>6, <1>7 DEF WellFormed
<1> QED
  BY <1>1, <1>8

\* Its rows and columns in canonical form are those of the model.
LEMMA OverColumns ==
  ASSUME NEW p, IsProgram(p), NEW h \in Nat \ {0}
  PROVE  RowsOf(Over(p, h)) = RowsOf(p) /\ ColsOf(Over(p, h)) = ColsOf(p)
<1>1. PICK o : o = Over(p, h)
  OBVIOUS
<1>2. WellFormed(p)
  BY DEF IsProgram
<1>3. /\ o.vars = p.vars /\ o.rows = p.rows
      /\ \A j \in p.vars : o.lo[j] = Times(p.lo[j], h) /\ o.up[j] = Times(p.up[j], h)
      /\ \A i \in p.rows : o.rowLo[i] = Times(p.rowLo[i], h) /\ o.rowUp[i] = Times(p.rowUp[i], h)
  BY <1>1, OverFields
<1>4. ASSUME NEW a, NEW b, Bounds(a, b)
      PROVE  /\ Times(a, h).finite = a.finite /\ Times(b, h).finite = b.finite
             /\ (Times(a, h).value = Times(b, h).value) <=> (a.value = b.value)
             /\ Fixes(Times(a, h), Times(b, h)) <=> Fixes(a, b)
  <2>1. IsBound(a) /\ IsBound(b)
    BY <1>4 DEF Bounds
  <2>2. /\ Times(a, h).finite = a.finite /\ Times(a, h).value = h * a.value /\ a.value \in Int
        /\ Times(b, h).finite = b.finite /\ Times(b, h).value = h * b.value /\ b.value \in Int
    BY <2>1, TimesBound
  <2>3. h * a.value = h * b.value <=> a.value = b.value
    BY <2>2, OrderOfMultiples
  <2> QED
    BY <2>2, <2>3 DEF Fixes
<1>5. ASSUME NEW i \in p.rows PROVE RowsFor(o, i) = RowsFor(p, i)
  <2>1. Bounds(p.rowLo[i], p.rowUp[i]) /\ o.rowLo[i] = Times(p.rowLo[i], h) /\ o.rowUp[i] = Times(p.rowUp[i], h)
    BY <1>2, <1>3 DEF WellFormed
  <2> QED
    BY <1>4, <2>1 DEF RowsFor
<1>6. ASSUME NEW j \in p.vars PROVE RangeRow(o, j) = RangeRow(p, j) /\ Signs(o, j) = Signs(p, j)
  <2>1. Bounds(p.lo[j], p.up[j]) /\ o.lo[j] = Times(p.lo[j], h) /\ o.up[j] = Times(p.up[j], h)
    BY <1>2, <1>3 DEF WellFormed
  <2> QED
    BY <1>4, <2>1 DEF RangeRow, Signs
<1>7. RowsOf(o) = RowsOf(p)
  <2>1. /\ [i \in o.rows |-> RowsFor(o, i)] = [i \in p.rows |-> RowsFor(p, i)]
        /\ [j \in o.vars |-> RangeRow(o, j)] = [j \in p.vars |-> RangeRow(p, j)]
    BY <1>3, <1>5, <1>6
  <2> QED
    BY <2>1, Zenon DEF RowsOf
<1>8. Structurals(o) = Structurals(p)
  <2> DEFINE listed(m, j) == [q \in DOMAIN Signs(m, j) |-> [kind |-> "x", var |-> j, sign |-> Signs(m, j)[q]]]
  <2>1. \A j \in p.vars : listed(o, j) = listed(p, j)
    BY <1>6
  <2>2. Structurals(o) = FlattenSeq([j \in o.vars |-> listed(o, j)]) /\ Structurals(p) = FlattenSeq([j \in p.vars |-> listed(p, j)])
    BY DEF Structurals
  <2> HIDE DEF listed
  <2>3. [j \in o.vars |-> listed(o, j)] = [j \in p.vars |-> listed(p, j)]
    BY <1>3, <2>1
  <2> QED
    BY <2>2, <2>3, Zenon
<1>9. Slacks(o) = Slacks(p)
  BY <1>7, Zenon DEF Slacks
<1>10. ColsOf(o) = ColsOf(p)
  BY <1>8, <1>9, Zenon DEF ColsOf
<1> QED
  BY <1>1, <1>7, <1>10, Zenon

\* The offsets and the right-hand sides are multiples of those of the model.
LEMMA OverOffset ==
  ASSUME NEW p, IsProgram(p), NEW h \in Nat \ {0}, NEW j \in p.vars
  PROVE  Offset(Over(p, h), j) = h * Offset(p, j) /\ Offset(p, j) \in Int
<1>1. PICK o : o = Over(p, h)
  OBVIOUS
<1>2. Bounds(p.lo[j], p.up[j])
  BY DEF IsProgram, WellFormed
<1>3. o.lo[j] = Times(p.lo[j], h) /\ o.up[j] = Times(p.up[j], h)
  BY <1>1, OverFields
<1>4. IsBound(p.lo[j]) /\ IsBound(p.up[j])
  BY <1>2 DEF Bounds
<1>5. /\ o.lo[j].finite = p.lo[j].finite /\ o.lo[j].value = h * p.lo[j].value /\ p.lo[j].value \in Int
      /\ o.up[j].finite = p.up[j].finite /\ o.up[j].value = h * p.up[j].value /\ p.up[j].value \in Int
  BY <1>3, <1>4, TimesBound
<1> QED
  BY <1>1, <1>5 DEF Offset

\* The right-hand sides over h are multiples of those of the model.
LEMMA OverRhs ==
  ASSUME NEW p, IsProgram(p), NEW h \in Nat \ {0}, NEW r \in RowSet(p)
  PROVE  Rhs(Over(p, h), r) = h * Rhs(p, r) /\ Rhs(p, r) \in Int
<1>1. PICK o : o = Over(p, h)
  OBVIOUS
<1>2. WellFormed(p) /\ RowOfModel(p, r)
  BY RowMeaning DEF IsProgram
<1>3. /\ o.vars = p.vars /\ o.rows = p.rows /\ o.a = p.a
      /\ \A j \in p.vars : o.lo[j] = Times(p.lo[j], h) /\ o.up[j] = Times(p.up[j], h)
      /\ \A i \in p.rows : o.rowLo[i] = Times(p.rowLo[i], h) /\ o.rowUp[i] = Times(p.rowUp[i], h)
  BY <1>1, OverFields
<1>4. Rhs(p, r) \in Int
  BY <1>2, RhsIsLimit
<1>5. CASE r.kind = "range"
  <2>1. r.of \in p.vars
    BY <1>2, <1>5 DEF RowOfModel
  <2>2. IsBound(p.lo[r.of]) /\ IsBound(p.up[r.of])
    BY <1>2, <2>1 DEF WellFormed, Bounds
  <2>3. /\ o.lo[r.of].value = h * p.lo[r.of].value /\ p.lo[r.of].value \in Int
        /\ o.up[r.of].value = h * p.up[r.of].value /\ p.up[r.of].value \in Int
    BY <1>3, <2>1, <2>2, TimesBound
  <2>4. Rhs(o, r) = h * p.up[r.of].value - h * p.lo[r.of].value /\ Rhs(p, r) = p.up[r.of].value - p.lo[r.of].value
    BY <1>5, <2>3 DEF Rhs
  <2>5. Rhs(o, r) = h * Rhs(p, r)
    BY <2>3, <2>4
  <2> QED
    BY <1>1, <1>4, <2>5
<1>6. CASE r.kind # "range"
  <2>1. r.of \in p.rows
    BY <1>2, <1>6 DEF RowOfModel
  <2>2. IsBound(p.rowLo[r.of]) /\ IsBound(p.rowUp[r.of]) /\ \A j \in p.vars : p.a[r.of][j] \in Int
    BY <1>2, <2>1 DEF WellFormed, Bounds
  <2>3. /\ o.rowLo[r.of].value = h * p.rowLo[r.of].value /\ p.rowLo[r.of].value \in Int
        /\ o.rowUp[r.of].value = h * p.rowUp[r.of].value /\ p.rowUp[r.of].value \in Int
    BY <1>3, <2>1, <2>2, TimesBound
  <2>4. RowBound(o, r).value = h * RowBound(p, r).value /\ RowBound(p, r).value \in Int
    BY <2>3 DEF RowBound
  <2>5. Shift(o, r.of) = h * Shift(p, r.of) /\ Shift(p, r.of) \in Int
    <3> DEFINE s == [j \in p.vars |-> p.a[r.of][j] * Offset(p, j)]
               t == [j \in p.vars |-> o.a[r.of][j] * Offset(o, j)]
    <3>1. ASSUME NEW j \in p.vars PROVE s[j] \in Int /\ t[j] = h * s[j]
      <4>1. Offset(o, j) = h * Offset(p, j) /\ Offset(p, j) \in Int /\ p.a[r.of][j] \in Int /\ o.a[r.of][j] = p.a[r.of][j]
        BY <1>1, <1>3, <2>2, OverOffset
      <4> QED
        BY <4>1
    <3>2. Shift(p, r.of) = Total(s, p.vars) /\ Shift(o, r.of) = Total(t, p.vars)
      BY <1>3, Zenon DEF Shift
    <3>3. IsFiniteSet(p.vars) /\ AllInt(s, p.vars) /\ \A j \in p.vars : t[j] = h * s[j]
      BY <1>2, <3>1 DEF WellFormed, AllInt
    <3> HIDE DEF s, t
    <3>4. h \in Int
      OBVIOUS
    <3>5. Total(t, p.vars) = h * Total(s, p.vars)
      BY ONLY <3>3, <3>4, TotalMultiple
    <3>6. Total(s, p.vars) \in Int
      BY <3>3, TotalType
    <3> QED
      BY <3>2, <3>5, <3>6
  <2>6. RowSign(r) \in {1, -1}
    BY DEF RowSign
  <2>7. /\ Rhs(o, r) = RowSign(r) * (RowBound(o, r).value - Shift(o, r.of))
        /\ Rhs(p, r) = RowSign(r) * (RowBound(p, r).value - Shift(p, r.of))
    BY <1>6 DEF Rhs
  <2>8. Rhs(o, r) = h * Rhs(p, r)
    BY <2>4, <2>5, <2>6, <2>7
  <2> QED
    BY <1>1, <1>4, <2>8
<1> QED
  BY <1>5, <1>6

(***************************************************************************)
(* A point of the model over h, brought to the columns: it has no negative *)
(* entry, the rows hold h times their right-hand sides, and it comes back  *)
(* from the offsets and the columns of each variable.                      *)
(***************************************************************************)
Points(p, h) == {x \in [p.vars -> Int] : Satisfies(Over(p, h), x)}
ColumnPoint(p, h, x) == CanonicalPoint(Over(p, h), x)

\* A point over h is within the bounds, and integral where it has to be.
LEMMA PointInBounds ==
  ASSUME NEW p, IsProgram(p), NEW h \in Nat \ {0}, NEW x \in Points(p, h)
  PROVE  /\ WellFormed(p) /\ WellFormed(Over(p, h)) /\ AllInt(x, p.vars) /\ AllInt(x, Over(p, h).vars)
         /\ InBounds(Over(p, h), x) /\ \A j \in p.ints : x[j] % h = 0
<1>1. x \in [p.vars -> Int] /\ Satisfies(Over(p, h), x)
  BY DEF Points
<1>2. WellFormed(p) /\ WellFormed(Over(p, h))
  BY OverWellFormed DEF IsProgram
<1>3. Over(p, h).vars = p.vars /\ Over(p, h).ints = p.ints /\ Over(p, h).grid = h
  BY OverFields
<1>4. AllInt(x, p.vars)
  BY <1>1 DEF AllInt
<1>5. InBounds(Over(p, h), x) /\ \A j \in Over(p, h).ints : x[j] % Over(p, h).grid = 0
  BY <1>1 DEF Satisfies, InBounds
<1> QED
  BY <1>2, <1>3, <1>4, <1>5

\* It is a point of the canonical model, over h, and stands for x.
LEMMA ColumnPointMeaning ==
  ASSUME NEW p, IsProgram(p), NEW h \in Nat \ {0}, NEW x \in Points(p, h), NEW y, y = ColumnPoint(p, h, x)
  PROVE  /\ AllInt(y, DOMAIN ColsOf(p)) /\ \A k \in DOMAIN ColsOf(p) : y[k] >= 0
         /\ \A i \in DOMAIN RowsOf(p) : RowValue(Canonical(p), i, y) = h * Canonical(p).b[i]
         /\ \A j \in p.vars : x[j] = Reconstruct(p, y, h)[j]
<1>1. PICK o : o = Over(p, h)
  OBVIOUS
<1>2. /\ WellFormed(p) /\ WellFormed(o) /\ AllInt(x, p.vars) /\ AllInt(x, o.vars) /\ InBounds(o, x)
  BY <1>1, PointInBounds
<1>3. RowsOf(o) = RowsOf(p) /\ ColsOf(o) = ColsOf(p) /\ o.a = p.a /\ o.vars = p.vars
  BY <1>1, OverColumns, OverFields
<1>4. y = CanonicalPoint(o, x)
  BY <1>1 DEF ColumnPoint
<1>5. AllInt(y, DOMAIN ColsOf(p)) /\ \A k \in DOMAIN ColsOf(p) : y[k] >= 0
  BY <1>2, <1>3, <1>4, CanonicalPointSigned
<1>6. PrimalFeasible(Canonical(o), y)
  BY <1>2, <1>4, CanonicalPointFeasible
<1>7. ASSUME NEW i \in DOMAIN RowsOf(p) PROVE RowValue(Canonical(p), i, y) = h * Canonical(p).b[i]
  <2>1. PICK r : r = RowsOf(p)[i] /\ r \in RowSet(p)
    BY <1>2, RowsMeaning
  <2>2. /\ Canonical(p).b[i] = Rhs(p, r) /\ Canonical(o).b[i] = Rhs(o, r)
        /\ Canonical(o).rows = DOMAIN RowsOf(p)
    BY <1>2, <1>3, <2>1, CanonicalFields
  <2>3. Canonical(o).b[i] = h * Canonical(p).b[i]
    BY <1>1, <2>1, <2>2, OverRhs
  <2>4. RowValue(Canonical(o), i, y) = Canonical(o).b[i]
    BY <1>6, <2>2 DEF PrimalFeasible, RowsHold
  <2>5. RowValue(Canonical(o), i, y) = RowValue(Canonical(p), i, y)
    <3>1. Canonical(o).cols = DOMAIN ColsOf(p) /\ Canonical(p).cols = DOMAIN ColsOf(p)
      BY <1>2, <1>3, CanonicalFields
    <3>2. ASSUME NEW k \in DOMAIN ColsOf(p) PROVE Canonical(o).a[i][k] = Canonical(p).a[i][k]
      <4>1. /\ Canonical(o).a[i][k] = Entry(o, RowsOf(p)[i], ColsOf(p)[k])
            /\ Canonical(p).a[i][k] = Entry(p, RowsOf(p)[i], ColsOf(p)[k])
        BY <1>2, <1>3, CanonicalFields
      <4>2. Entry(o, RowsOf(p)[i], ColsOf(p)[k]) = Entry(p, RowsOf(p)[i], ColsOf(p)[k])
        BY <1>3, Zenon DEF Entry
      <4> QED
        BY <4>1, <4>2
    <3>3. [k \in DOMAIN ColsOf(p) |-> Canonical(o).a[i][k] * y[k]] = [k \in DOMAIN ColsOf(p) |-> Canonical(p).a[i][k] * y[k]]
      BY <3>2
    <3> QED
      BY <3>1, <3>3, Zenon DEF RowValue
  <2> QED
    BY <2>3, <2>4, <2>5
<1>8. ASSUME NEW j \in p.vars PROVE x[j] = Reconstruct(p, y, h)[j]
  <2>1. Reconstruct(o, y, 1)[j] = x[j]
    BY <1>2, <1>3, <1>4, PointComesBack
  <2>2. Parts(o, j) = Parts(p, j)
    BY <1>3 DEF Parts
  <2>3. PICK t : t = Total([k \in Parts(p, j) |-> ColsOf(p)[k].sign * y[k]], Parts(p, j))
    OBVIOUS
  <2>4. Reconstruct(p, y, h)[j] = h * Offset(p, j) + t /\ t \in Int
    BY <1>2, <1>5, <2>3, ReconstructedType
  <2>5. Reconstruct(o, y, 1)[j] = 1 * Offset(o, j) + t
    <3> DEFINE one == 1
    <3>0. one \in Int
      OBVIOUS
    <3> HIDE DEF one
    <3>1. WellFormed(o) /\ AllInt(y, DOMAIN ColsOf(o)) /\ j \in o.vars /\ 1 \in Int
      BY <1>2, <1>3, <1>5, <3>0, Zenon DEF one
    <3>2. Reconstruct(o, y, 1)[j]
            = 1 * Offset(o, j) + Total([k \in Parts(o, j) |-> ColsOf(o)[k].sign * y[k]], Parts(o, j))
      BY ONLY <3>1, ReconstructedType
    <3>3. Total([k \in Parts(o, j) |-> ColsOf(o)[k].sign * y[k]], Parts(o, j)) = t
      BY <1>3, <2>2, <2>3, Zenon
    <3> QED
      BY <3>2, <3>3
  <2>6. Offset(o, j) = h * Offset(p, j) /\ Offset(p, j) \in Int
    BY <1>1, OverOffset
  <2> QED
    BY <2>1, <2>4, <2>5, <2>6
<1> QED
  BY <1>5, <1>7, <1>8

\* The column of an integer variable with a lower bound is integral there.
LEMMA IntegralColumn ==
  ASSUME NEW p, IsProgram(p), NEW h \in Nat \ {0}, NEW x \in Points(p, h),
         NEW k \in DOMAIN ColsOf(p), ColsOf(p)[k].kind = "x", ColsOf(p)[k].var \in p.ints, ColsOf(p)[k].sign = 1
  PROVE  \E z \in Int : ColumnPoint(p, h, x)[k] = h * z
<1>1. PICK c : c = ColsOf(p)[k]
  OBVIOUS
<1>2. c.kind = "x" /\ c.var \in p.vars /\ c.var \in p.ints /\ c.sign = 1
  BY <1>1 DEF IsProgram
<1>3. ColsOf(Over(p, h)) = ColsOf(p) /\ Offset(Over(p, h), c.var) = h * Offset(p, c.var) /\ Offset(p, c.var) \in Int
  BY <1>2, OverColumns, OverOffset
<1>4. x[c.var] \in Int /\ x[c.var] % h = 0
  BY <1>2, PointInBounds DEF AllInt
<1>5. PICK z \in Int : x[c.var] = h * z
  <2>1. PICK n \in Int : n = x[c.var]
    BY <1>4
  <2>2. n \div h \in Int /\ n % h = 0 /\ n = h * (n \div h) + (n % h)
    BY <1>4, <2>1, Remainder
  <2>3. n = h * (n \div h)
    BY <2>2
  <2> QED
    BY <2>1, <2>2, <2>3
<1>6. ColumnPoint(p, h, x)[k] = PositivePart(c.sign * (x[c.var] - Offset(Over(p, h), c.var)))
  BY <1>1, <1>2, <1>3 DEF ColumnPoint, CanonicalPoint
<1>7. c.sign * (x[c.var] - Offset(Over(p, h), c.var)) = h * (z - Offset(p, c.var)) /\ z - Offset(p, c.var) \in Int
  BY <1>2, <1>3, <1>5
<1>8. ColumnPoint(p, h, x)[k] = h * (z - Offset(p, c.var)) \/ ColumnPoint(p, h, x)[k] = h * 0
  BY <1>6, <1>7 DEF PositivePart
<1> QED
  BY <1>7, <1>8

-----------------------------------------------------------------------------
\* A row of the tableau holds where the rows hold.
LEMMA TableauHolds ==
  ASSUME NEW m, NEW sg, NEW L, NEW f, ModelBasis(m, sg, L, f), NEW p \in L, NEW y, AllInt(y, m.cols),
         NEW h \in Int, \A i \in m.rows : RowValue(m, i, y) = h * m.b[i]
  PROVE  Total([k \in m.cols |-> TableauIn(m, sg, L, f, p, k) * y[k]], m.cols)
           = h * PointIn(m, sg, L, f, RhsIn(m, sg)).num[p]
<1>1. Rows(m, sg, L) /\ ~ Singular(MatrixIn(m, sg, L, f), L) /\ LinearModel(m)
  BY DEF ModelBasis, Rows, Numbered
<1>2. PICK u : u = PricesIn(m, sg, L, f, UnitAt(p, L)).num
  OBVIOUS
<1>3. AllInt(u, L)
  <2>1. Names(L) /\ AllInt(RhsIn(m, sg), L)
    BY <1>1, BasisSystem
  <2>2. AllInt(UnitAt(p, L), L)
    BY DEF AllInt, UnitAt
  <2> QED
    BY <1>1, <1>2, <2>1, <2>2, BasisPrices
<1>4. PICK v : v = DualIn(m, sg, L, u)
  OBVIOUS
<1>5. /\ v \in [m.rows -> Int]
      /\ \A k \in m.cols : ColumnValue(m, k, v) = Pairing(ColumnIn(m, sg, k), u, L)
      /\ RhsOf(m, v) = Pairing(RhsIn(m, sg), u, L)
  BY <1>1, <1>3, <1>4, DualColumns
<1>6. PICK b : b = PointIn(m, sg, L, f, RhsIn(m, sg)).num[p]
  OBVIOUS
<1>7. RhsOf(m, v) = b
  BY <1>1, <1>2, <1>5, <1>6, TableauEntry
<1>8. \A k \in m.cols : TableauIn(m, sg, L, f, p, k) = ColumnValue(m, k, v)
  BY <1>2, <1>5 DEF TableauIn
<1>9. RowVector(m, v) /\ ColumnVector(m, y)
  BY <1>5 DEF RowVector, ColumnVector, AllInt
<1>10. Total([i \in m.rows |-> RowValue(m, i, y) * v[i]], m.rows)
         = Total([k \in m.cols |-> ColumnValue(m, k, v) * y[k]], m.cols)
  BY <1>1, <1>9, Adjoint
<1>11. Total([i \in m.rows |-> RowValue(m, i, y) * v[i]], m.rows) = h * RhsOf(m, v)
  <2> DEFINE s == [i \in m.rows |-> m.b[i] * v[i]]
             t == [i \in m.rows |-> RowValue(m, i, y) * v[i]]
  <2>1. ASSUME NEW i \in m.rows PROVE s[i] \in Int /\ t[i] = h * s[i]
    <3>1. m.b[i] \in Int /\ v[i] \in Int /\ RowValue(m, i, y) = h * m.b[i]
      BY <1>1, <1>5 DEF LinearModel
    <3> QED
      BY <3>1
  <2>2. RhsOf(m, v) = Total(s, m.rows)
    BY DEF RhsOf
  <2>3. IsFiniteSet(m.rows) /\ AllInt(s, m.rows) /\ \A i \in m.rows : t[i] = h * s[i]
    BY <1>1, <2>1 DEF LinearModel, AllInt
  <2> HIDE DEF s, t
  <2>4. Total(t, m.rows) = h * Total(s, m.rows)
    BY <2>3, TotalMultiple
  <2> QED
    BY <2>2, <2>4 DEF t
<1>12. [k \in m.cols |-> TableauIn(m, sg, L, f, p, k) * y[k]] = [k \in m.cols |-> ColumnValue(m, k, v) * y[k]]
  BY <1>8
<1> QED
  BY <1>6, <1>7, <1>10, <1>11, <1>12, Zenon

\* No column is twice in a basis, and the point of the basis has at each of
\* them the entry of its position.
LEMMA BasisPositions ==
  ASSUME NEW m, NEW sg, NEW L, NEW f, ModelBasis(m, sg, L, f), NEW p \in L, NEW X, AllInt(X, L)
  PROVE  (\A q \in L : f[q] = f[p] => q = p) /\ SpreadIn(m, L, f, X)[f[p]] = X[p]
<1>1. Rows(m, sg, L) /\ ~ Singular(MatrixIn(m, sg, L, f), L) /\ f[p] \in m.cols
  BY DEF ModelBasis
<1>2. ASSUME NEW q \in L, f[q] = f[p] PROVE q = p
  <2>1. PICK e : e = PricesIn(m, sg, L, f, UnitAt(p, L)).den
    OBVIOUS
  <2>2. e \in Nat \ {0}
    <3>1. Names(L) /\ AllInt(RhsIn(m, sg), L)
      BY <1>1, BasisSystem
    <3>2. AllInt(UnitAt(p, L), L)
      BY DEF AllInt, UnitAt
    <3> QED
      BY <1>1, <2>1, <3>1, <3>2, BasisPrices
  <2>3. PICK t : t = TableauIn(m, sg, L, f, p, f[q])
    OBVIOUS
  <2>4. t = (IF q = p THEN e ELSE 0) /\ t = e
    BY <1>1, <1>2, <2>1, <2>3, TableauEntry
  <2> QED
    BY <2>2, <2>4
<1>3. SpreadIn(m, L, f, X)[f[p]] = X[p]
  <2> DEFINE s == [q \in L |-> IF f[q] = f[p] THEN X[q] ELSE 0]
  <2>1. SpreadIn(m, L, f, X)[f[p]] = Total(s, L)
    BY <1>1 DEF SpreadIn
  <2>2. s[p] = X[p] /\ s[p] \in Int /\ \A q \in L \ {p} : s[q] = 0
    BY <1>2 DEF AllInt
  <2>3. IsFiniteSet(L)
    BY <1>1, BasisSystem DEF Names
  <2> HIDE DEF s
  <2>4. Total(s, L) = s[p]
    BY <2>2, <2>3, TotalSingle
  <2> QED
    BY <2>1, <2>2, <2>4
<1> QED
  BY <1>2, <1>3

-----------------------------------------------------------------------------
\* The slacks of a row, and the weight they have.
LEMMA SlackWeightIs ==
  ASSUME NEW p, p = relaxed, WellFormed(p), lp = Canonical(p), NEW w, AllInt(w, lp.cols), NEW r \in lp.rows
  PROVE  /\ SlackWeight(w, r) \in Int
         /\ \A k \in lp.cols : ColsOf(p)[k].kind = "slack" /\ ColsOf(p)[k].row = RowsOf(p)[r] => SlackWeight(w, r) = w[k]
<1>1. PICK N : N = lp.cols
  OBVIOUS
<1>2. N = DOMAIN ColsOf(p) /\ lp.rows = DOMAIN RowsOf(p) /\ IsFiniteSet(N)
  BY <1>1, CanonicalFields, ColumnsMeaning
<1>3. PICK S : S = SlackOf(r)
  OBVIOUS
<1>4. S = {k \in N : ColsOf(p)[k].kind # "x" /\ ColsOf(p)[k].row = RowsOf(p)[r]}
  BY <1>1, <1>3 DEF SlackOf, IsStructural, Columns
<1>5. S \in SUBSET N /\ IsFiniteSet(S)
  BY <1>2, <1>4, FS_Subset
<1>6. PICK t : t = [k \in S |-> w[k]]
  OBVIOUS
<1>7. SlackWeight(w, r) = Total(t, S)
  BY <1>3, <1>6 DEF SlackWeight
<1>8. AllInt(t, S)
  BY <1>1, <1>5, <1>6 DEF AllInt
<1>9. ASSUME NEW k \in lp.cols, ColsOf(p)[k].kind = "slack", ColsOf(p)[k].row = RowsOf(p)[r]
      PROVE  SlackWeight(w, r) = w[k]
  <2>1. PICK R : R = RowsOf(p)[r]
    OBVIOUS
  <2>2. R.kind # "eq" /\ R \in RowSet(p)
    <3>1. ColumnOfModel(p, ColsOf(p)[k])
      BY <1>1, <1>2, ColumnsMeaning
    <3> QED
      BY <1>9, <2>1, <3>1 DEF ColumnOfModel
  <2>3. \A l \in N : ColsOf(p)[l].kind = "slack" /\ ColsOf(p)[l].row = R => l = k
    BY <1>1, <1>2, <1>9, <2>1, <2>2, OneSlack
  <2>4. \A l \in S : ColsOf(p)[l].kind = "slack" /\ ColsOf(p)[l].row = R
    BY <1>2, <1>4, <2>1, ColumnsMeaning DEF ColumnOfModel
  <2>5. k \in S /\ \A l \in S \ {k} : t[l] = 0
    BY <1>1, <1>4, <1>9, <2>1, <2>3, <2>4
  <2>6. Total(t, S) = t[k] /\ t[k] = w[k]
    BY <1>5, <1>6, <1>8, <2>5, TotalSingle DEF AllInt
  <2> QED
    BY <1>7, <2>6
<1> QED
  BY <1>5, <1>7, <1>8, <1>9, TotalType

\* The inequality w y >= d at a point over h.
Holds(w, y, S, h, d) == Total(TermsOf(w, y, S), S) >= h * d

\* Solving the slacks for their rows leaves an inequality that holds where the
\* inequality and the rows do.
LEMMA WithoutSlacksHolds ==
  ASSUME NEW p, p = relaxed, WellFormed(p), lp = Canonical(p), NEW w, AllInt(w, lp.cols), NEW d \in Int,
         NEW c, c = WithoutSlacks(w, d)
  PROVE  /\ AllInt(c.w, StructuralColumns(p)) /\ c.rhs \in Int
         /\ \A y, h : /\ h \in Int /\ AllInt(y, lp.cols) /\ \A i \in lp.rows : RowValue(lp, i, y) = h * lp.b[i]
                      /\ Holds(w, y, lp.cols, h, d)
                      => Holds(c.w, y, StructuralColumns(p), h, c.rhs)
<1>1. PICK m : m = lp
  OBVIOUS
<1>2. LinearModel(m) /\ m.cols = DOMAIN ColsOf(p) /\ m.rows = DOMAIN RowsOf(p) /\ IsFiniteSet(m.cols)
  BY <1>1, CanonicalFields, ColumnsMeaning
<1>3. PICK v : v = [r \in m.rows |-> SlackWeight(w, r)]
  OBVIOUS
<1>4. /\ \A r \in m.rows : v[r] \in Int
      /\ \A r \in m.rows, k \in m.cols : ColsOf(p)[k].kind = "slack" /\ ColsOf(p)[k].row = RowsOf(p)[r] => v[r] = w[k]
  BY <1>1, <1>3, SlackWeightIs
<1>5. PICK S : S = StructuralColumns(p)
  OBVIOUS
<1>6. S = {k \in m.cols : IsStructural(k)} /\ S \in SUBSET m.cols
  BY <1>2, <1>5 DEF StructuralColumns, IsStructural, Columns
<1>7. RowVector(m, v)
  BY <1>4 DEF RowVector, AllInt
<1>8. PICK V : V = RhsOf(m, v)
  OBVIOUS
<1>9. PICK u : u = [k \in m.cols |-> ColumnValue(m, k, v)]
  OBVIOUS
<1>10. V \in Int /\ \A k \in m.cols : u[k] \in Int
  <2>1. ColumnVector(m, [k \in m.cols |-> 0])
    BY DEF ColumnVector, AllInt
  <2> QED
    BY <1>2, <1>7, <1>8, <1>9, <2>1, ValuesAreIntegers
<1>11. ASSUME NEW k \in m.cols
       PROVE  Total([r \in m.rows |-> SlackWeight(w, r) * m.a[r][k]], m.rows) = u[k]
  <2>1. [r \in m.rows |-> SlackWeight(w, r) * m.a[r][k]] = [r \in m.rows |-> m.a[r][k] * v[r]]
    <3>1. ASSUME NEW r \in m.rows PROVE SlackWeight(w, r) * m.a[r][k] = m.a[r][k] * v[r]
      <4>1. SlackWeight(w, r) = v[r] /\ v[r] \in Int /\ m.a[r][k] \in Int
        BY <1>2, <1>3, <1>4 DEF LinearModel
      <4> QED
        BY <4>1
    <3> QED
      BY <3>1
  <2> QED
    BY <1>9, <2>1, Zenon DEF ColumnValue
<1>12. Total([r \in m.rows |-> SlackWeight(w, r) * m.b[r]], m.rows) = V
  <2>1. [r \in m.rows |-> SlackWeight(w, r) * m.b[r]] = [r \in m.rows |-> m.b[r] * v[r]]
    <3>1. ASSUME NEW r \in m.rows PROVE SlackWeight(w, r) * m.b[r] = m.b[r] * v[r]
      <4>1. SlackWeight(w, r) = v[r] /\ v[r] \in Int /\ m.b[r] \in Int
        BY <1>2, <1>3, <1>4 DEF LinearModel
      <4> QED
        BY <4>1
    <3> QED
      BY <3>1
  <2> QED
    BY <1>8, <2>1, Zenon DEF RhsOf
<1>13. c.rhs = d - V /\ \A k \in S : c.w[k] = w[k] - u[k]
  <2>1. c.rhs = d - V
    BY <1>1, <1>12 DEF WithoutSlacks
  <2>2. ASSUME NEW k \in S PROVE c.w[k] = w[k] - u[k]
    <3>1. k \in m.cols /\ IsStructural(k)
      BY <1>6
    <3>2. c.w[k] = w[k] - Total([r \in m.rows |-> SlackWeight(w, r) * m.a[r][k]], m.rows)
      BY <1>1, <3>1 DEF WithoutSlacks
    <3> QED
      BY <1>11, <3>1, <3>2
  <2> QED
    BY <2>1, <2>2
<1>14. \A k \in m.cols : w[k] \in Int
  BY <1>1 DEF AllInt
<1>15. \A k \in m.cols \ S : u[k] = w[k]
  <2> SUFFICES ASSUME NEW k \in m.cols \ S PROVE u[k] = w[k]
    OBVIOUS
  <2>1. PICK a : a = ColsOf(p)[k]
    OBVIOUS
  <2>2. a.kind = "slack" /\ a.row \in RowSet(p)
    <3>1. ColumnOfModel(p, a)
      BY <1>2, <2>1, ColumnsMeaning
    <3>2. a.kind # "x"
      BY <1>2, <1>5, <2>1 DEF StructuralColumns
    <3> QED
      BY <3>1, <3>2 DEF ColumnOfModel
  <2>3. PICK r \in m.rows : RowsOf(p)[r] = a.row
    BY <1>2, <2>2, RowsMeaning
  <2>4. \A i \in m.rows : m.a[i][k] = IF i = r THEN 1 ELSE 0
    <3> SUFFICES ASSUME NEW i \in m.rows PROVE m.a[i][k] = IF i = r THEN 1 ELSE 0
      OBVIOUS
    <3>1. m.a[i][k] = Entry(p, RowsOf(p)[i], a)
      BY <1>1, <1>2, <2>1, CanonicalFields
    <3>2. Entry(p, RowsOf(p)[i], a) = IF a.row = RowsOf(p)[i] THEN 1 ELSE 0
      BY <2>2 DEF Entry
    <3>3. a.row = RowsOf(p)[i] <=> i = r
      BY <1>2, <2>3, RowsMeaning
    <3> QED
      BY <3>1, <3>2, <3>3
  <2> DEFINE t == [i \in m.rows |-> m.a[i][k] * v[i]]
  <2>5. t[r] = v[r] /\ t[r] \in Int /\ \A i \in m.rows \ {r} : t[i] = 0
    BY <1>4, <2>4
  <2>6. u[k] = Total(t, m.rows)
    BY <1>9, Zenon DEF ColumnValue
  <2>7. v[r] = w[k]
    BY <1>4, <2>1, <2>2, <2>3
  <2>8. IsFiniteSet(m.rows)
    BY <1>2 DEF LinearModel
  <2> HIDE DEF t
  <2>9. Total(t, m.rows) = t[r]
    BY <2>5, <2>8, TotalSingle
  <2> QED
    BY <2>5, <2>6, <2>7, <2>9
<1>16. ASSUME NEW y, NEW h \in Int, AllInt(y, m.cols), \A i \in m.rows : RowValue(m, i, y) = h * m.b[i],
              Holds(w, y, m.cols, h, d)
       PROVE  Holds(c.w, y, S, h, c.rhs)
  <2> DEFINE f == [k \in m.cols |-> (w[k] - u[k]) * y[k]]
             g == TermsOf(u, y, m.cols)
             a == TermsOf(w, y, m.cols)
             s == [i \in m.rows |-> m.b[i] * v[i]]
             t == [i \in m.rows |-> RowValue(m, i, y) * v[i]]
  <2>1. ASSUME NEW k \in m.cols
        PROVE  f[k] \in Int /\ g[k] \in Int /\ a[k] = f[k] + g[k] /\ (k \notin S => f[k] = 0)
    <3>1. w[k] \in Int /\ u[k] \in Int /\ y[k] \in Int /\ (k \notin S => u[k] = w[k])
      BY <1>10, <1>14, <1>15, <1>16 DEF AllInt
    <3> QED
      BY <3>1 DEF TermsOf
  <2>2. ASSUME NEW i \in m.rows PROVE s[i] \in Int /\ t[i] = h * s[i]
    <3>1. m.b[i] \in Int /\ v[i] \in Int /\ RowValue(m, i, y) = h * m.b[i]
      BY <1>2, <1>4, <1>16 DEF LinearModel
    <3> QED
      BY <3>1
  <2>3. Total(t, m.rows) = Total(g, m.cols)
    <3>1. ColumnVector(m, y)
      BY <1>16 DEF ColumnVector
    <3>2. Total(t, m.rows) = Total([k \in m.cols |-> ColumnValue(m, k, v) * y[k]], m.cols)
      BY <1>2, <1>7, <3>1, Adjoint
    <3>3. [k \in m.cols |-> ColumnValue(m, k, v) * y[k]] = g
      BY <1>9 DEF TermsOf
    <3> QED
      BY <3>2, <3>3, Zenon
  <2>4. V = Total(s, m.rows)
    BY <1>8 DEF RhsOf
  <2>5. TermsOf(c.w, y, S) = [k \in S |-> f[k]]
    BY <1>6, <1>13 DEF TermsOf
  <2>6. Total(a, m.cols) >= h * d
    BY <1>16 DEF Holds
  <2>7. AllInt(s, m.rows) /\ AllInt(f, m.cols) /\ AllInt(g, m.cols) /\ IsFiniteSet(m.rows)
    BY <1>2, <2>1, <2>2 DEF AllInt, LinearModel
  <2>8. PICK q : q = [k \in S |-> f[k]]
    OBVIOUS
  <2> HIDE DEF f, g, a, s, t
  <2>9. Total(t, m.rows) = h * Total(s, m.rows)
    BY <2>2, <2>7, TotalMultiple
  <2>10. Total(a, m.cols) = Total(f, m.cols) + Total(g, m.cols)
    BY <1>2, <2>1, <2>7, TotalSum
  <2>11. Total(f, m.cols) = Total(f, S) /\ Total(f, S) = Total(q, S)
    <3>1. IsFiniteSet(S) /\ AllInt(f, S) /\ \A k \in S : f[k] = q[k]
      BY <1>2, <1>6, <2>7, <2>8, FS_Subset DEF AllInt
    <3>2. \A k \in m.cols \ S : f[k] = 0
      BY <2>1
    <3> QED
      BY <1>2, <1>6, <2>7, <3>1, <3>2, TotalSupport, TotalEqual
  <2>12. Total(f, m.cols) \in Int
    BY <1>2, <2>7, TotalType
  <2>13. Total(q, S) >= h * (d - V)
    <3>1. Total(g, m.cols) = h * V
      BY <2>3, <2>4, <2>9
    <3>2. h * (d - V) = h * d - h * V /\ h * d \in Int /\ h * V \in Int
      BY <1>10
    <3> QED
      BY <2>6, <2>10, <2>11, <2>12, <3>1, <3>2
  <2> QED
    BY <1>13, <2>5, <2>8, <2>13 DEF Holds
<1>17. AllInt(c.w, S) /\ c.rhs \in Int
  BY <1>6, <1>10, <1>13, <1>14 DEF AllInt
<1> QED
  BY <1>1, <1>5, <1>16, <1>17

\* No variable is without a bound.
NoFree(p) == \A j \in p.vars : p.lo[j].finite \/ p.up[j].finite
\* The weight of a variable times what its column adds to its offset is what
\* the column weighs.
LEMMA WeightOfVariable ==
  ASSUME NEW p, WellFormed(p), NoFree(p), NEW j \in p.vars, NEW S, S = Parts(p, j),
         NEW w, AllInt(w, S), NEW y, AllInt(y, S), NEW C, C = ColsOf(p)
  PROVE  /\ IsFiniteSet(S)
         /\ Total([k \in S |-> C[k].sign * w[k]], S) \in Int
         /\ Total([k \in S |-> C[k].sign * y[k]], S) \in Int
         /\ Total(TermsOf(w, y, S), S) \in Int
         /\ Total([k \in S |-> C[k].sign * w[k]], S) * Total([k \in S |-> C[k].sign * y[k]], S)
              = Total(TermsOf(w, y, S), S)
<1> DEFINE f == [k \in S |-> C[k].sign * w[k]]
           g == [k \in S |-> C[k].sign * y[k]]
           a == TermsOf(w, y, S)
<1>1. S = {} \/ \E k \in DOMAIN C : S = {k} /\ C[k].sign \in {1, -1}
  <2>1. p.lo[j].finite \/ p.up[j].finite
    BY DEF NoFree
  <2> QED
    BY <2>1, PartsOfVariable
<1>2. CASE S = {}
  <2>1. IsFiniteSet(S)
    BY <1>2, FS_EmptySet
  <2> HIDE DEF f, g, a
  <2>2. Total(f, S) = 0 /\ Total(g, S) = 0 /\ Total(a, S) = 0
    BY <1>2, TotalEmpty
  <2>3. 0 * 0 = 0
    OBVIOUS
  <2>4. IsFiniteSet(S) /\ Total(f, S) \in Int /\ Total(g, S) \in Int /\ Total(a, S) \in Int /\ Total(f, S) * Total(g, S) = Total(a, S)
    BY <2>1, <2>2, <2>3
  <2> QED
    BY <2>4 DEF f, g, a
<1>3. CASE \E k \in DOMAIN C : S = {k} /\ C[k].sign \in {1, -1}
  <2>1. PICK k \in DOMAIN C : S = {k} /\ C[k].sign \in {1, -1}
    BY <1>3
  <2>2. IsFiniteSet(S) /\ k \in S
    BY <2>1, FS_Singleton
  <2>3. PICK s \in {1, -1} : s = C[k].sign
    BY <2>1
  <2>4. w[k] \in Int /\ y[k] \in Int
    BY <2>2 DEF AllInt
  <2>5. f[k] = s * w[k] /\ g[k] = s * y[k] /\ a[k] = w[k] * y[k]
    BY <2>2, <2>3 DEF TermsOf
  <2>6. f[k] \in Int /\ g[k] \in Int /\ a[k] \in Int
    BY <2>4, <2>5
  <2>7. f[k] * g[k] = a[k]
    <3>1. CASE s = 1
      BY <2>4, <2>5, <3>1
    <3>2. CASE s = -1
      <4>1. (-1) * w[k] = -w[k] /\ (-1) * y[k] = -y[k] /\ (-w[k]) * (-y[k]) = w[k] * y[k]
        BY <2>4
      <4> QED
        BY <2>5, <3>2, <4>1
    <3> QED
      BY <3>1, <3>2
  <2>8. \A l \in S \ {k} : f[l] = 0 /\ g[l] = 0 /\ a[l] = 0
    BY <2>1
  <2> HIDE DEF f, g, a
  <2>9. Total(f, S) = f[k] /\ Total(g, S) = g[k] /\ Total(a, S) = a[k]
    BY <2>2, <2>6, <2>8, TotalSingle
  <2>10. IsFiniteSet(S) /\ Total(f, S) \in Int /\ Total(g, S) \in Int /\ Total(a, S) \in Int /\ Total(f, S) * Total(g, S) = Total(a, S)
    BY <2>2, <2>6, <2>7, <2>9
  <2> QED
    BY <2>10 DEF f, g, a
<1> QED
  BY <1>1, <1>2, <1>3

\* An inequality of the columns is one of the variables.
LEMMA InVariablesHolds ==
  ASSUME NEW p, p = relaxed, WellFormed(p), NoFree(p), NEW b, AllInt(b.w, StructuralColumns(p)), b.rhs \in Int,
         NEW c, c = InVariables(b)
  PROVE  /\ c.coefficient \in [p.vars -> Int] /\ c.rhs \in Int
         /\ \A y, h, x : /\ h \in Int /\ AllInt(y, DOMAIN ColsOf(p)) /\ \A j \in p.vars : x[j] = Reconstruct(p, y, h)[j]
                         /\ Holds(b.w, y, StructuralColumns(p), h, b.rhs)
                         => Lhs(c, x) >= h * c.rhs
<1>1. PICK C : C = ColsOf(p)
  OBVIOUS
<1>2. PICK S : S = StructuralColumns(p)
  OBVIOUS
<1>3. PICK w : w = b.w
  OBVIOUS
<1>4. PICK u : u = c.coefficient
  OBVIOUS
<1>5. \A j \in p.vars : Parts(p, j) \subseteq S
  BY <1>2 DEF Parts, StructuralColumns
<1>6. IsFiniteSet(S) /\ S \subseteq DOMAIN C /\ IsFiniteSet(p.vars)
  <2>1. IsFiniteSet(DOMAIN C) /\ S \in SUBSET DOMAIN C
    BY <1>1, <1>2, ColumnsMeaning DEF StructuralColumns
  <2> QED
    BY <2>1, FS_Subset DEF WellFormed
<1>7. /\ u = [j \in p.vars |-> Total([k \in Parts(p, j) |-> C[k].sign * w[k]], Parts(p, j))]
      /\ c.rhs = b.rhs + Total([j \in p.vars |-> u[j] * Offset(p, j)], p.vars)
  <2>1. \A j : Pieces(j) = Parts(p, j)
    BY DEF Pieces, Parts, Columns
  <2>2. u = [j \in p.vars |-> Total([k \in Pieces(j) |-> C[k].sign * w[k]], Pieces(j))]
    BY <1>1, <1>3, <1>4 DEF InVariables, Columns
  <2>3. \A j : Total([k \in Pieces(j) |-> C[k].sign * w[k]], Pieces(j)) = Total([k \in Parts(p, j) |-> C[k].sign * w[k]], Parts(p, j))
    BY <2>1, Zenon
  <2>4. c.rhs = b.rhs + Total([j \in p.vars |-> u[j] * Offset(p, j)], p.vars)
    BY <1>4 DEF InVariables
  <2> QED
    BY <2>2, <2>3, <2>4
<1>8. ASSUME NEW j \in p.vars
      PROVE  u[j] \in Int /\ Offset(p, j) \in Int
  <2>1. AllInt(w, Parts(p, j))
    BY <1>2, <1>3, <1>5 DEF AllInt
  <2>2. PICK s : s = Parts(p, j)
    OBVIOUS
  <2>3. Total([k \in s |-> C[k].sign * w[k]], s) \in Int
    BY <1>1, <2>1, <2>2, WeightOfVariable
  <2>4. u[j] = Total([k \in Parts(p, j) |-> C[k].sign * w[k]], Parts(p, j))
    BY <1>7
  <2>5. Offset(p, j) \in Int
    BY OffsetsType DEF AllInt, Offsets
  <2> QED
    BY <2>2, <2>3, <2>4, <2>5
<1> DEFINE o == [j \in p.vars |-> u[j] * Offset(p, j)]
<1>9. AllInt(o, p.vars)
  BY <1>8 DEF AllInt
<1>10. c.coefficient \in [p.vars -> Int] /\ c.rhs \in Int
  <2>1. u \in [p.vars -> Int]
    BY <1>7, <1>8
  <2>2. Total(o, p.vars) \in Int
    BY <1>6, <1>9, TotalType
  <2> QED
    BY <1>4, <1>7, <2>1, <2>2
<1>11. ASSUME NEW y, NEW h \in Int, NEW x, AllInt(y, DOMAIN C), \A j \in p.vars : x[j] = Reconstruct(p, y, h)[j],
              Holds(w, y, S, h, b.rhs)
       PROVE  Lhs(c, x) >= h * c.rhs
  <2> DEFINE F == TermsOf(w, y, S)
             v == [k \in S |-> C[k].var]
             T == [j \in p.vars |-> Total(F, {k \in S : v[k] = j})]
             H == [j \in p.vars |-> h * o[j]]
             l == [j \in p.vars |-> u[j] * x[j]]
  <2>1. AllInt(F, S)
    <3>1. \A k \in S : w[k] \in Int /\ y[k] \in Int
      BY <1>2, <1>3, <1>6, <1>11 DEF AllInt
    <3> QED
      BY <3>1 DEF AllInt, TermsOf
  <2>2. \A k \in S : v[k] \in p.vars
    BY <1>1, <1>2, ColumnsMeaning DEF StructuralColumns, ColumnOfModel
  <2>3. ASSUME NEW j \in p.vars PROVE l[j] = H[j] + T[j] /\ T[j] \in Int /\ H[j] = h * o[j]
    <3>1. PICK s : s = Parts(p, j)
      OBVIOUS
    <3>2. {k \in S : v[k] = j} = s
      BY <1>1, <1>2, <3>1 DEF Parts, StructuralColumns
    <3>3. AllInt(w, s) /\ AllInt(y, s) /\ s \subseteq S
      BY <1>1, <1>2, <1>3, <1>5, <1>6, <1>11, <3>1 DEF AllInt
    <3>4. PICK t : t = Total([k \in s |-> C[k].sign * y[k]], s)
      OBVIOUS
    <3>5. PICK a : a = Total(TermsOf(w, y, s), s)
      OBVIOUS
    <3>6. u[j] = Total([k \in s |-> C[k].sign * w[k]], s)
      BY <1>7, <3>1
    <3>7. IsFiniteSet(s) /\ u[j] * t = a /\ t \in Int /\ a \in Int
      BY <1>1, <3>1, <3>3, <3>4, <3>5, <3>6, WeightOfVariable
    <3>8. Total(F, s) = a
      <4>1. AllInt(F, s) /\ \A k \in s : F[k] = TermsOf(w, y, s)[k]
        BY <2>1, <3>3 DEF AllInt, TermsOf
      <4>2. PICK g : g = TermsOf(w, y, s)
        OBVIOUS
      <4> HIDE DEF F
      <4>3. IsFiniteSet(s) /\ AllInt(F, s) /\ \A k \in s : F[k] = g[k]
        BY <3>7, <4>1, <4>2, Zenon
      <4>4. Total(F, s) = Total(g, s)
        BY ONLY <4>3, TotalEqual
      <4> QED
        BY <3>5, <4>2, <4>4, Zenon
    <3>9. T[j] = a
      BY <3>2, <3>8
    <3>10. x[j] = h * Offset(p, j) + t
      BY <1>1, <1>11, <3>1, <3>4, ReconstructedType
    <3>11. u[j] \in Int /\ Offset(p, j) \in Int
      BY <1>8
    <3>12. u[j] * (h * Offset(p, j) + t) = h * (u[j] * Offset(p, j)) + u[j] * t
      BY <3>7, <3>11
    <3> QED
      BY <3>7, <3>9, <3>10, <3>12
  <2>4. AllInt(T, p.vars) /\ AllInt(H, p.vars)
    <3> SUFFICES ASSUME NEW j \in p.vars PROVE T[j] \in Int /\ H[j] \in Int
      BY DEF AllInt
    <3>1. PICK n \in Int : n = o[j]
      BY <1>9 DEF AllInt
    <3>2. H[j] = h * n /\ h * n \in Int
      BY <3>1
    <3> QED
      BY <2>3, <3>2
  <2>5. Total(F, S) >= h * b.rhs
    BY <1>11 DEF Holds
  <2>6. DOMAIN u = p.vars
    BY <1>7
  <2>7. Lhs(c, x) = Total(l, p.vars)
    BY <1>4, <2>6, Zenon DEF Lhs
  <2>8. Total(F, S) = Total(T, p.vars)
    <3> HIDE DEF F, v
    <3>1. IsFiniteSet(S) /\ IsFiniteSet(p.vars) /\ AllInt(F, S) /\ \A k \in S : v[k] \in p.vars
      BY <1>6, <2>1, <2>2
    <3>2. Total(F, S) = Total([j \in p.vars |-> Total(F, {k \in S : v[k] = j})], p.vars)
      BY ONLY <3>1, TotalClasses
    <3> QED
      BY <3>2
  <2>9. c.rhs = b.rhs + Total(o, p.vars)
    BY <1>7
  <2>10. \A j \in p.vars : l[j] = H[j] + T[j] /\ H[j] = h * o[j]
    BY <2>3
  <2> HIDE DEF F, T, H, l, o
  <2>11. Total(l, p.vars) = Total(H, p.vars) + Total(T, p.vars)
    BY <1>6, <2>4, <2>10, TotalSum
  <2>12. Total(H, p.vars) = h * Total(o, p.vars)
    BY <1>6, <1>9, <2>10, TotalMultiple
  <2>13. Total(o, p.vars) \in Int /\ Total(T, p.vars) \in Int
    BY <1>6, <1>9, <2>4, TotalType
  <2>14. h * (b.rhs + Total(o, p.vars)) = h * b.rhs + h * Total(o, p.vars) /\ h * b.rhs \in Int /\ h * Total(o, p.vars) \in Int
    BY <2>13
  <2> QED
    BY <2>5, <2>7, <2>8, <2>9, <2>11, <2>12, <2>13, <2>14
<1> QED
  BY <1>1, <1>2, <1>3, <1>10, <1>11

-----------------------------------------------------------------------------
\* The values of a function on a finite set are finitely many.
LEMMA ValuesFinite ==
  ASSUME NEW V, IsFiniteSet(V), NEW f
  PROVE  IsFiniteSet({f[j] : j \in V})
<1> DEFINE T == {f[j] : j \in V}
           g == [j \in V |-> f[j]]
<1>1. g \in Surjection(V, T)
  <2>1. g \in [V -> T] /\ \A t \in T : \E j \in V : g[j] = t
    OBVIOUS
  <2> QED
    BY <2>1 DEF Surjection
<1> HIDE DEF g, T
<1>2. IsFiniteSet(T)
  BY <1>1, FS_Surjection
<1> QED
  BY <1>2 DEF T

\* The divisor taken out divides every number of the cut.
LEMMA DivisorDivides ==
  ASSUME NEW c, NEW V, IsFiniteSet(V), c.coefficient \in [V -> Int], c.rhs \in Int, NEW g, g = Divisor(c)
  PROVE  /\ g \in Nat \ {0} /\ c.rhs = g * (c.rhs \div g) /\ c.rhs \div g \in Int
         /\ \A j \in V : c.coefficient[j] = g * (c.coefficient[j] \div g) /\ c.coefficient[j] \div g \in Int
<1> DEFINE u == c.coefficient
           A == {c.rhs} \union {u[j] : j \in DOMAIN u}
           S == {IF z < 0 THEN -z ELSE z : z \in A}
           B == (S \ {0}) \union {Max(S)}
           least == Min(B)
           K == {k \in 1 .. least : \A z \in A : Divides(k, z)}
           G == {1} \union K
<1>1. g = Max(G)
  BY DEF Divisor
<1>2. IsFiniteSet(A) /\ A \in SUBSET Int /\ c.rhs \in A /\ \A j \in V : u[j] \in A
  <2>1. DOMAIN u = V /\ \A j \in V : u[j] \in Int
    OBVIOUS
  <2>2. IsFiniteSet({u[j] : j \in V})
    BY ValuesFinite
  <2>3. IsFiniteSet({u[j] : j \in V} \union {c.rhs})
    BY <2>2, FS_AddElement
  <2>4. A = {u[j] : j \in V} \union {c.rhs}
    BY <2>1
  <2>5. IsFiniteSet(A)
    BY <2>3, <2>4, Zenon
  <2> QED
    BY <2>1, <2>5
<1> HIDE DEF A
<1>3. IsFiniteSet(S) /\ S \in SUBSET Int /\ S # {}
  <2> DEFINE f == [z \in A |-> IF z < 0 THEN -z ELSE z]
  <2>1. S = {f[z] : z \in A}
    OBVIOUS
  <2>2. IsFiniteSet({f[z] : z \in A})
    BY <1>2, ValuesFinite
  <2>3. IsFiniteSet(S)
    BY <2>1, <2>2, Zenon
  <2> QED
    BY <1>2, <2>3
<1> HIDE DEF S
<1>4. IsFiniteSet(B) /\ B \in SUBSET Int /\ B # {}
  <2>1. Max(S) \in Int
    BY <1>3, LargestOfSet DEF Largest
  <2>2. IsFiniteSet(S \ {0})
    BY <1>3, FS_Subset
  <2>3. IsFiniteSet(B)
    BY <2>2, FS_AddElement
  <2> QED
    BY <1>3, <2>1, <2>3
<1> HIDE DEF B
<1>5. least \in Int
  BY <1>4, FirstOfSet DEF First, Min
<1> HIDE DEF least
<1>6. IsFiniteSet(G) /\ G \in SUBSET Int /\ G # {} /\ \A k \in G : k = 1 \/ (k \in Nat \ {0} /\ \A z \in A : Divides(k, z))
  <2>1. IsFiniteSet(1 .. least)
    BY <1>5, FS_Interval
  <2>2. K \in SUBSET (1 .. least)
    OBVIOUS
  <2>3. IsFiniteSet(K)
    BY <2>1, <2>2, FS_Subset
  <2>4. G = K \union {1}
    OBVIOUS
  <2>5. IsFiniteSet(G)
    <3> HIDE DEF G, K
    <3>1. IsFiniteSet(K \union {1})
      BY <2>3, FS_AddElement
    <3> QED
      BY <2>4, <3>1, Zenon
  <2>6. \A k \in 1 .. least : k \in Nat \ {0}
    BY <1>5
  <2> QED
    BY <2>5, <2>6
<1> HIDE DEF G
<1>7. g \in G
  BY <1>1, <1>6, LargestOfSet DEF Largest
<1>8. g \in Nat \ {0} /\ \A z \in A : z % g = 0
  <2>1. CASE g = 1
    <3>1. ASSUME NEW z \in A PROVE z % g = 0
      <4>1. z \in Int
        BY <1>2
      <4> QED
        BY <2>1, <4>1
    <3> QED
      BY <2>1, <3>1
  <2>2. CASE g # 1
    BY <1>6, <1>7, <2>2 DEF Divides
  <2> QED
    BY <2>1, <2>2
<1>9. ASSUME NEW z \in A PROVE z = g * (z \div g) /\ z \div g \in Int
  <2>1. PICK n \in Int : n = z
    BY <1>2
  <2>2. n \div g \in Int /\ n % g = 0 /\ n = g * (n \div g) + (n % g)
    BY <1>8, <2>1, Remainder
  <2>3. n = g * (n \div g)
    BY <1>8, <2>2
  <2> QED
    BY <2>1, <2>2, <2>3
<1> QED
  BY <1>2, <1>8, <1>9

\* Taking it out leaves the cut valid.
LEMMA ReducedHolds ==
  ASSUME NEW c, NEW V, IsFiniteSet(V), c.coefficient \in [V -> Int], c.rhs \in Int, NEW e, e = Reduced(c)
  PROVE  /\ e.coefficient \in [V -> Int] /\ e.rhs \in Int
         /\ \A x, h : h \in Int /\ AllInt(x, V) /\ Lhs(c, x) >= h * c.rhs => Lhs(e, x) >= h * e.rhs
<1>1. PICK g : g = Divisor(c)
  OBVIOUS
<1>2. /\ g \in Nat \ {0} /\ c.rhs = g * (c.rhs \div g) /\ c.rhs \div g \in Int
      /\ \A j \in V : c.coefficient[j] = g * (c.coefficient[j] \div g) /\ c.coefficient[j] \div g \in Int
  BY <1>1, DivisorDivides
<1>3. DOMAIN c.coefficient = V
  OBVIOUS
<1>4. e.coefficient = [j \in V |-> c.coefficient[j] \div g] /\ e.rhs = c.rhs \div g
  BY <1>1, <1>3 DEF Reduced
<1>5. PICK u, a, r : u = e.coefficient /\ a = c.coefficient /\ r = e.rhs
  OBVIOUS
<1>6. r \in Int /\ c.rhs = g * r /\ u \in [V -> Int] /\ \A j \in V : a[j] = g * u[j] /\ u[j] \in Int
  <2>1. \A j \in V : u[j] = c.coefficient[j] \div g
    BY <1>4, <1>5
  <2> QED
    BY <1>2, <1>4, <1>5, <2>1
<1>7. ASSUME NEW x, NEW h \in Int, AllInt(x, V), Lhs(c, x) >= h * c.rhs PROVE Lhs(e, x) >= h * e.rhs
  <2> DEFINE s == [j \in V |-> u[j] * x[j]]
             t == [j \in V |-> a[j] * x[j]]
  <2>1. ASSUME NEW j \in V PROVE s[j] \in Int /\ t[j] = g * s[j]
    <3>1. u[j] \in Int /\ x[j] \in Int /\ a[j] = g * u[j]
      BY <1>6, <1>7 DEF AllInt
    <3>2. (g * u[j]) * x[j] = g * (u[j] * x[j]) /\ u[j] * x[j] \in Int
      BY <1>2, <3>1
    <3> QED
      BY <3>1, <3>2
  <2>2. Lhs(e, x) = Total(s, V) /\ Lhs(c, x) = Total(t, V)
    <3>1. DOMAIN u = V /\ DOMAIN a = V
      BY <1>5, <1>6
    <3> QED
      BY <1>5, <3>1, Zenon DEF Lhs
  <2>3. AllInt(s, V) /\ (\A j \in V : t[j] = g * s[j]) /\ g \in Int
    BY <1>2, <2>1 DEF AllInt
  <2> HIDE DEF s, t
  <2>4. Total(t, V) = g * Total(s, V) /\ Total(s, V) \in Int
    BY <2>3, TotalMultiple, TotalType
  <2>5. PICK n \in Int : n = Total(s, V)
    BY <2>4
  <2>6. g * n >= h * (g * r) /\ h * (g * r) = g * (h * r) /\ h * r \in Int
    BY <1>2, <1>6, <1>7, <2>2, <2>4, <2>5
  <2>7. n >= h * r
    <3>1. g * (h * r) <= g * n <=> h * r <= n
      BY <1>2, <2>6, OrderOfMultiples
    <3>2. g * (h * r) <= g * n
      BY <1>2, <2>6
    <3> QED
      BY <2>6, <3>1, <3>2
  <2> QED
    BY <1>5, <2>2, <2>5, <2>7
<1> QED
  BY <1>4, <1>5, <1>6, <1>7

-----------------------------------------------------------------------------
\* A model whose integer variables are bounded from below, and whose other
\* variables have a bound; the relaxation that was solved; and what the
\* simplex method leaves when it reports an optimum.
Bounded(p) == IsProgram(p) /\ NoFree(p) /\ \A j \in p.ints : p.lo[j].finite
Relaxation(p) == p = relaxed /\ Bounded(p) /\ lp = Canonical(p)
Settled ==
  /\ factored = basis /\ rowSign \in [lp.rows -> {1, -1}] /\ left \in SUBSET lp.rows
  /\ \A p \in left : basis[p] \in lp.cols
  /\ answer.den = PointIn(lp, rowSign, left, basis, RhsIn(lp, rowSign)).den
  /\ answer.primal = SpreadIn(lp, left, basis, PointIn(lp, rowSign, left, basis, RhsIn(lp, rowSign)).num)

\* The canonical model numbers its rows and columns.
LEMMA CanonicalNumbered ==
  ASSUME NEW p, WellFormed(p), NEW k \in Canonical(p).cols
  PROVE  Numbered(Canonical(p))
<1>1. PICK m : m = Canonical(p)
  OBVIOUS
<1>2. LinearModel(m) /\ ModelRecord(m) /\ m.rows = DOMAIN RowsOf(p) /\ m.cols = DOMAIN ColsOf(p)
  BY <1>1, CanonicalFields
<1>3. PICK R, C : R = RowsOf(p) /\ C = ColsOf(p)
  OBVIOUS
<1>4. R \in Seq(RowSet(p)) /\ C \in Seq(ColumnSet(p))
  BY <1>3, RowsListed, ColumnsListed DEF Enumerates
<1>5. DOMAIN R \in SUBSET (Nat \ {0}) /\ DOMAIN C \in SUBSET Nat
  <2>1. DOMAIN R = 1 .. Len(R) /\ Len(R) \in Nat /\ DOMAIN C = 1 .. Len(C) /\ Len(C) \in Nat
    BY <1>4, LenProperties
  <2> QED
    BY <2>1
<1>6. m.rows \in SUBSET (Nat \ {0}) /\ m.cols \in SUBSET Nat /\ m.cols # {}
  BY <1>1, <1>2, <1>3, <1>5
<1> QED
  BY <1>1, <1>2, <1>6 DEF Numbered

\* The basis of an optimum, if there is a position in it.
LEMMA SettledBasis ==
  ASSUME NEW p, Relaxation(p), Settled, D \in Nat \ {0}, NEW a \in left
  PROVE  /\ ModelBasis(lp, rowSign, left, basis) /\ basis[a] \in lp.cols
         /\ D = PointIn(lp, rowSign, left, basis, RhsIn(lp, rowSign)).den
         /\ answer.primal = SpreadIn(lp, left, basis, PointIn(lp, rowSign, left, basis, RhsIn(lp, rowSign)).num)
         /\ Tableau(a) = [k \in lp.cols |-> TableauIn(lp, rowSign, left, basis, a, k)]
<1>1. Rows(lp, rowSign, left) /\ basis[a] \in lp.cols
  <2>1. WellFormed(p) /\ lp = Canonical(p)
    BY DEF Relaxation, Bounded, IsProgram
  <2>2. basis[a] \in lp.cols
    BY DEF Settled
  <2>3. Numbered(lp)
    BY <2>1, <2>2, CanonicalNumbered
  <2> QED
    BY <2>2, <2>3 DEF Rows, Settled
<1>2. /\ D = PointIn(lp, rowSign, left, basis, RhsIn(lp, rowSign)).den
      /\ answer.primal = SpreadIn(lp, left, basis, PointIn(lp, rowSign, left, basis, RhsIn(lp, rowSign)).num)
  BY DEF Settled, D
<1>3. ~ Singular(MatrixIn(lp, rowSign, left, basis), left)
  <2>1. SystemOn(MatrixIn(lp, rowSign, left, basis), left, RhsIn(lp, rowSign))
    BY <1>1, BasisSystem
  <2>2. Solution(MatrixIn(lp, rowSign, left, basis), left, RhsIn(lp, rowSign)).den \in Nat \ {0}
    BY <1>2 DEF PointIn
  <2> QED
    BY <2>1, <2>2, SolutionType
<1>4. ModelBasis(lp, rowSign, left, basis)
  BY <1>1, <1>3 DEF ModelBasis, Settled
<1>5. Tableau(a) = [k \in lp.cols |-> TableauIn(lp, rowSign, left, basis, a, k)]
  <2>1. UnitVector(a) = UnitAt(a, left)
    BY DEF UnitVector, UnitAt
  <2>2. Btran(UnitVector(a)) = PricesIn(lp, rowSign, left, basis, UnitAt(a, left))
    BY <2>1, HeldBasis DEF Settled
  <2>3. PICK u : u = PricesIn(lp, rowSign, left, basis, UnitAt(a, left))
    OBVIOUS
  <2>4. Tableau(a) = [k \in lp.cols |-> Total([i \in left |-> WorkColumn(k)[i] * u.num[i]], left)]
    BY <2>2, <2>3 DEF Tableau, TableauRow
  <2>5. \A k : Total([i \in left |-> WorkColumn(k)[i] * u.num[i]], left) = TableauIn(lp, rowSign, left, basis, a, k)
    <3>1. \A k : TableauIn(lp, rowSign, left, basis, a, k) = Total([i \in left |-> ColumnIn(lp, rowSign, k)[i] * u.num[i]], left)
      BY <2>3 DEF TableauIn, Pairing
    <3>2. \A k : WorkColumn(k) = ColumnIn(lp, rowSign, k)
      BY HeldBasis
    <3> QED
      BY <3>1, <3>2
  <2> QED
    BY <2>4, <2>5
<1> QED
  BY <1>1, <1>2, <1>4, <1>5

\* The columns of the integer variables.
IntegerColumns(p) == {k \in DOMAIN ColsOf(p) : ColsOf(p)[k].kind = "x" /\ ColsOf(p)[k].var \in p.ints}

\* An integer variable that can move has one column, of positive sign.
LEMMA IntegerColumn ==
  ASSUME NEW p, Bounded(p), NEW k \in IntegerColumns(p), NEW j, j = ColsOf(p)[k].var
  PROVE  j \in p.vars /\ ColsOf(p)[k].sign = 1 /\ Parts(p, j) = {k}
<1>1. WellFormed(p) /\ p.ints \subseteq p.vars
  BY DEF Bounded, IsProgram
<1>2. k \in DOMAIN ColsOf(p) /\ ColsOf(p)[k].kind = "x" /\ j \in p.ints
  BY DEF IntegerColumns
<1>3. j \in p.vars /\ p.lo[j].finite
  BY <1>1, <1>2 DEF Bounded
<1>4. k \in Parts(p, j)
  BY <1>2 DEF Parts
<1>5. \E l \in DOMAIN ColsOf(p) : Parts(p, j) = {l} /\ ColsOf(p)[l].sign = 1
  BY <1>1, <1>3, <1>4, PartsOfVariable
<1>6. PICK l \in DOMAIN ColsOf(p) : Parts(p, j) = {l} /\ ColsOf(p)[l].sign = 1
  BY <1>5
<1>7. l = k
  BY <1>4, <1>6
<1> QED
  BY <1>3, <1>6, <1>7

(***************************************************************************)
(* A row the generators take: its right-hand side has the fraction of the  *)
(* integer variable at its position, where it holds for every point of the *)
(* model.                                                                  *)
(***************************************************************************)
LEMMA FractionalRow ==
  ASSUME NEW p, Relaxation(p), Settled, D \in Nat \ {0}, NEW a \in CutPositions,
         NEW row, row = Tableau(a), NEW f, f = FractionAt(a)
  PROVE  /\ f \in Nat /\ 0 < f /\ f < D /\ IsFiniteSet(lp.cols) /\ AllInt(row, lp.cols)
         /\ DOMAIN row = lp.cols /\ AllInt(answer.primal, lp.cols)
         /\ basis[a] \in IntegerColumns(p)
         /\ \A k \in Basic : k \in lp.cols /\ ((k = basis[a] /\ row[k] = D) \/ row[k] = 0)
         /\ \E q \in Int : \A x \in Points(p, Halves) :
              Total(TermsOf(row, ColumnPoint(p, Halves, x), lp.cols), lp.cols) = Halves * (D * q + f)
<1>1. PICK m, sg, L, e : m = lp /\ sg = rowSign /\ L = left /\ e = D
  OBVIOUS
<1>2. PICK g : g = basis
  OBVIOUS
<1>3. /\ a \in L /\ IsInteger(g[a]) /\ 20 * FractionAt(a) >= e
      /\ 20 * FractionAt(a) <= 19 * e
  BY <1>1, <1>2 DEF CutPositions
<1>4. /\ ModelBasis(m, sg, L, g) /\ g[a] \in m.cols
      /\ e = PointIn(m, sg, L, g, RhsIn(m, sg)).den
      /\ answer.primal = SpreadIn(m, L, g, PointIn(m, sg, L, g, RhsIn(m, sg)).num)
      /\ row = [k \in m.cols |-> TableauIn(m, sg, L, g, a, k)]
  BY <1>1, <1>2, <1>3, SettledBasis
<1>5. WellFormed(p) /\ m = Canonical(p) /\ Bounded(p) /\ p = relaxed /\ IsProgram(p)
  BY <1>1 DEF Relaxation, Bounded, IsProgram
<1>6. /\ m.cols = DOMAIN ColsOf(p) /\ m.rows = DOMAIN RowsOf(p) /\ IsFiniteSet(m.cols)
  BY <1>5, CanonicalFields, ColumnsMeaning
<1>7. Rows(m, sg, L) /\ ~ Singular(MatrixIn(m, sg, L, g), L) /\ \A b \in L : g[b] \in m.cols
  BY <1>4 DEF ModelBasis
<1>8. PICK X : X = PointIn(m, sg, L, g, RhsIn(m, sg)).num
  OBVIOUS
<1>9. AllInt(X, L)
  BY <1>7, <1>8, BasisPoint, BasisSystem
<1>10. g[a] \in IntegerColumns(p)
  BY <1>3, <1>4, <1>5, <1>6 DEF IsInteger, IsStructural, Columns, IntegerColumns
<1>11. PICK j : j = ColsOf(p)[g[a]].var
  OBVIOUS
<1>12. j \in p.vars /\ ColsOf(p)[g[a]].sign = 1 /\ Parts(p, j) = {g[a]}
  BY <1>5, <1>10, <1>11, IntegerColumn
<1>13. answer.primal[g[a]] = X[a] /\ X[a] \in Int
  BY <1>3, <1>4, <1>8, <1>9, BasisPositions DEF AllInt
<1>14. PICK z : z = answer.primal
  OBVIOUS
<1>15. AllInt(z, m.cols)
  <2>1. Placed(m, sg, L, g, X)
    BY <1>7, <1>9 DEF Placed
  <2>2. z \in [m.cols -> Int]
    BY <1>4, <1>8, <1>14, <2>1, SpreadType
  <2> QED
    BY <2>2 DEF AllInt
<1>16. PICK w : w = Reconstruct(p, z, e)[j]
  OBVIOUS
<1>17. w = e * Offset(p, j) + X[a] /\ Offset(p, j) \in Int
  <2> DEFINE t == [k \in Parts(p, j) |-> ColsOf(p)[k].sign * z[k]]
  <2>1. w = e * Offset(p, j) + Total(t, Parts(p, j))
    <3>1. AllInt(z, DOMAIN ColsOf(p)) /\ e \in Int
      BY <1>1, <1>6, <1>15
    <3>2. WellFormed(p) /\ j \in p.vars
      BY <1>5, <1>12
    <3>3. Reconstruct(p, z, e)[j]
            = e * Offset(p, j) + Total([k \in Parts(p, j) |-> ColsOf(p)[k].sign * z[k]], Parts(p, j))
      BY ONLY <3>1, <3>2, ReconstructedType
    <3> QED
      BY <1>16, <3>3
  <2>2. t[g[a]] = X[a] /\ IsFiniteSet({g[a]})
    <3>1. t[g[a]] = 1 * X[a]
      BY <1>12, <1>13, <1>14
    <3>2. 1 * X[a] = X[a]
      BY <1>13
    <3>3. IsFiniteSet({g[a]})
      BY FS_Singleton
    <3> QED
      BY <3>1, <3>2, <3>3
  <2> HIDE DEF t
  <2>3. Total(t, {g[a]}) = t[g[a]]
    BY <1>13, <2>2, TotalSingle
  <2>4. Offset(p, j) \in Int
    BY <1>5, <1>12, OffsetsType DEF AllInt, Offsets
  <2> QED
    BY <1>12, <2>1, <2>2, <2>3, <2>4
<1>18. f = w % e /\ FractionAt(a) = f
  BY <1>1, <1>2, <1>5, <1>11, <1>14, <1>16 DEF FractionAt, Point, Columns
<1>19. w \in Int /\ e \in Nat \ {0}
  BY <1>1, <1>13, <1>17
<1>20. f \in Nat /\ f < e /\ w = e * (w \div e) + f /\ w \div e \in Int
  BY <1>18, <1>19, Remainder
<1>21. 0 < f
  BY <1>3, <1>18, <1>19, <1>20
<1>22. PICK q \in Int : X[a] = e * q + f
  <2>1. PICK n \in Int : n = w \div e
    BY <1>20
  <2>2. PICK c \in Int, d \in Int : c = Offset(p, j) /\ d = X[a]
    BY <1>13, <1>17
  <2>3. w = e * n + f /\ w = e * c + d
    BY <1>17, <1>20, <2>1, <2>2
  <2>4. d = e * (n - c) + f /\ n - c \in Int
    <3>1. e \in Int /\ f \in Int /\ e * n + f = e * c + d
      BY <1>19, <1>20, <2>3
    <3> QED
      BY ONLY <3>1, n \in Int, c \in Int, d \in Int
  <2> QED
    BY <2>2, <2>4
<1>23. ASSUME NEW x \in Points(p, Halves)
       PROVE  Total(TermsOf(row, ColumnPoint(p, Halves, x), m.cols), m.cols) = Halves * (e * q + f)
  <2>1. PICK y : y = ColumnPoint(p, Halves, x)
    OBVIOUS
  <2>2. AllInt(y, m.cols) /\ \A i \in m.rows : RowValue(m, i, y) = Halves * m.b[i]
    BY <1>5, <1>6, <2>1, CutConstants, ColumnPointMeaning
  <2>3. Halves \in Int
    BY CutConstants
  <2>4. Total([k \in m.cols |-> TableauIn(m, sg, L, g, a, k) * y[k]], m.cols) = Halves * X[a]
    BY <1>3, <1>4, <1>8, <2>2, <2>3, TableauHolds
  <2>5. TermsOf(row, y, m.cols) = [k \in m.cols |-> TableauIn(m, sg, L, g, a, k) * y[k]]
    BY <1>4 DEF TermsOf
  <2>6. Total(TermsOf(row, y, m.cols), m.cols) = Halves * X[a]
    BY <2>4, <2>5, Zenon
  <2> QED
    BY <1>22, <2>1, <2>6
<1>24. AllInt(row, m.cols)
  <2>1. \A k : TableauIn(m, sg, L, g, a, k) \in Int
    BY <1>3, <1>7, TableauEntry
  <2> QED
    BY <1>4, <2>1 DEF AllInt
<1>25. ASSUME NEW k \in Basic PROVE k \in m.cols /\ ((k = g[a] /\ row[k] = e) \/ row[k] = 0)
  <2>1. PICK b \in L : k = g[b]
    BY <1>1, <1>2 DEF Basic
  <2>2. k \in m.cols /\ row[k] = TableauIn(m, sg, L, g, a, g[b])
    BY <1>4, <1>7, <2>1
  <2>3. TableauIn(m, sg, L, g, a, g[b]) = IF b = a THEN PricesIn(m, sg, L, g, UnitAt(a, L)).den ELSE 0
    BY <1>3, <1>7, TableauEntry
  <2>4. PricesIn(m, sg, L, g, UnitAt(a, L)).den = e
    <3>1. AllInt(UnitAt(a, L), L) /\ AllInt(RhsIn(m, sg), L)
      BY <1>7, BasisSystem DEF AllInt, UnitAt
    <3> QED
      BY <1>4, <1>7, <3>1, BasisPrices
  <2> QED
    BY <2>1, <2>2, <2>3, <2>4
<1>26. \E c \in Int : \A x \in Points(p, Halves) :
         Total(TermsOf(row, ColumnPoint(p, Halves, x), m.cols), m.cols) = Halves * (e * c + f)
  BY <1>23
<1> QED
  BY <1>1, <1>2, <1>4, <1>6, <1>10, <1>14, <1>15, <1>20, <1>21, <1>24, <1>25, <1>26

\* The weights of either generator round such a row, and those of the basic
\* columns may be left out.
LEMMA WeightsHold ==
  ASSUME NEW p, Relaxation(p), D \in Nat \ {0}, IsFiniteSet(lp.cols), NEW row, AllInt(row, lp.cols),
         NEW f \in Nat, f < D,
         \A k \in Basic : \E t \in Int : row[k] = D * t /\ (k \notin IntegerColumns(p) => t = 0),
         NEW w, w = GomoryWeights(row, f) \/ w = MirWeights(row, f),
         NEW q \in Int, NEW T \in SUBSET Points(p, Halves),
         \A x \in T : Total(TermsOf(row, ColumnPoint(p, Halves, x), lp.cols), lp.cols) = Halves * (D * q + f)
  PROVE  /\ AllInt(w, lp.cols)
         /\ \A x \in T : Holds(w, ColumnPoint(p, Halves, x), lp.cols, Halves, f * (D - f))
<1>1. PICK N, J, e, h : N = lp.cols /\ J = IntegerColumns(p) /\ e = D /\ h = Halves
  OBVIOUS
<1>2. /\ Bounded(p) /\ IsProgram(p) /\ WellFormed(p) /\ lp = Canonical(p) /\ p = relaxed
      /\ e \in Nat \ {0} /\ h \in Nat \ {0}
  BY <1>1, CutConstants DEF Relaxation, Bounded, IsProgram
<1>3. N = DOMAIN ColsOf(p)
  BY <1>1, <1>2, CanonicalFields
<1>4. ASSUME NEW k \in N PROVE w[k] \in Int /\ Rounds(w[k], row[k], f, e, J, k)
  <2>1. PICK i \in BOOLEAN : i = (k \in J)
    <3>1. (k \in J) \in BOOLEAN
      OBVIOUS
    <3> QED
      BY <3>1, Zenon
  <2>2. IsInteger(k) = i
    BY <1>1, <1>2, <1>3, <2>1 DEF IsInteger, IsStructural, Columns, IntegerColumns
  <2>3. row[k] \in Int
    BY <1>1 DEF AllInt
  <2>4. CASE k \in Basic
    <3>1. w[k] = 0
      BY <1>1, <2>4 DEF GomoryWeights, MirWeights
    <3>2. PICK t \in Int : row[k] = e * t /\ (k \notin J => t = 0)
      BY <1>1, <2>4
    <3>3. row[k] = e * t + 0 /\ 0 >= (e - f) * 0 /\ 0 >= (-f) * 0
      BY <1>2, <3>2
    <3> QED
      BY <3>1, <3>2, <3>3 DEF Rounds
  <2>5. CASE k \notin Basic
    <3>1. w[k] = GomoryWeight(row[k], f, i) \/ w[k] = MirWeight(row[k], f, i)
      BY <1>1, <2>2, <2>5 DEF GomoryWeights, MirWeights
    <3>2. w[k] = GomoryWeight(row[k], f, i)
      BY <1>1, <1>2, <2>3, <3>1, SameWeights
    <3>3. GomoryWeight(row[k], f, i) \in Int /\ Rounds(GomoryWeight(row[k], f, i), row[k], f, D, J, k)
      <4>1. D \in Nat \ {0} /\ row[k] \in Int /\ f \in Nat /\ f < D /\ i \in BOOLEAN /\ i = (k \in J)
        BY <2>1, <2>3
      <4> QED
        BY ONLY <4>1, GomoryRounds
    <3> QED
      BY <1>1, <3>2, <3>3, Zenon
  <2> QED
    BY <2>4, <2>5
<1>5. AllInt(w, N)
  BY <1>4 DEF AllInt
<1>6. ASSUME NEW x \in T
      PROVE  Holds(w, ColumnPoint(p, h, x), N, h, f * (e - f))
  <2>1. PICK y : y = ColumnPoint(p, h, x)
    OBVIOUS
  <2>2. x \in Points(p, h)
    BY <1>1
  <2>3. AllInt(y, N) /\ \A k \in N : y[k] >= 0
    BY <1>2, <1>3, <2>1, <2>2, ColumnPointMeaning
  <2>4. \A k \in N \cap J : \E z \in Int : y[k] = h * z
    <3> SUFFICES ASSUME NEW k \in J PROVE \E z \in Int : y[k] = h * z
      OBVIOUS
    <3>1. ColsOf(p)[k].sign = 1
      BY <1>1, <1>2, IntegerColumn
    <3>2. k \in DOMAIN ColsOf(p) /\ ColsOf(p)[k].kind = "x" /\ ColsOf(p)[k].var \in p.ints
      BY <1>1 DEF IntegerColumns
    <3> QED
      BY <1>2, <2>1, <2>2, <3>1, <3>2, IntegralColumn
  <2>5. Total(TermsOf(row, y, N), N) = h * (e * q + f)
    BY <1>1, <2>1
  <2>6. f <= e /\ h \in Nat /\ e \in Nat
    BY <1>1, <1>2
  <2>7. Total(TermsOf(w, y, N), N) >= h * (f * (e - f))
    <3>1. IsFiniteSet(N) /\ AllInt(row, N) /\ f \in Nat /\ q \in Int
      BY <1>1
    <3>2. \A k \in N : Rounds(w[k], row[k], f, e, J, k)
      BY <1>4
    <3> QED
      BY ONLY <1>5, <2>3, <2>4, <2>5, <2>6, <3>1, <3>2, RoundedRow
  <2> QED
    BY <2>1, <2>7 DEF Holds
<1> QED
  BY <1>1, <1>5, <1>6

\* The cuts that no point of the model violates.
GlobalCuts(p) ==
  {c \in [coefficient : [p.vars -> Int], rhs : Int, violation : Int] :
     \A x \in Points(p, Halves) : Lhs(c, x) >= Halves * c.rhs}

\* An inequality that holds at every point gives a cut that does.
LEMMA CutOfIsGlobal ==
  ASSUME NEW p, Relaxation(p), D \in Nat \ {0}, AllInt(answer.primal, lp.cols), NEW w, AllInt(w, lp.cols), NEW d \in Int,
         \A x \in Points(p, Halves) : Holds(w, ColumnPoint(p, Halves, x), lp.cols, Halves, d)
  PROVE  CutOf(w, d) \in Seq(GlobalCuts(p))
<1>1. PICK h : h = Halves
  OBVIOUS
<1>2. /\ Bounded(p) /\ NoFree(p) /\ IsProgram(p) /\ WellFormed(p) /\ lp = Canonical(p) /\ p = relaxed /\ h \in Nat \ {0}
      /\ IsFiniteSet(p.vars)
  BY <1>1, CutConstants DEF Relaxation, Bounded, IsProgram, WellFormed
<1>3. lp.cols = DOMAIN ColsOf(p) /\ lp.rows = DOMAIN RowsOf(p)
  BY <1>2, CanonicalFields
<1>4. PICK b : b = WithoutSlacks(w, d)
  OBVIOUS
<1>5. /\ AllInt(b.w, StructuralColumns(p)) /\ b.rhs \in Int
      /\ \A y, n : /\ n \in Int /\ AllInt(y, lp.cols) /\ \A i \in lp.rows : RowValue(lp, i, y) = n * lp.b[i]
                   /\ Holds(w, y, lp.cols, n, d)
                   => Holds(b.w, y, StructuralColumns(p), n, b.rhs)
  BY <1>2, <1>4, WithoutSlacksHolds
<1>6. PICK c : c = InVariables(b)
  OBVIOUS
<1>7. /\ c.coefficient \in [p.vars -> Int] /\ c.rhs \in Int
      /\ \A y, n, x : /\ n \in Int /\ AllInt(y, DOMAIN ColsOf(p)) /\ \A j \in p.vars : x[j] = Reconstruct(p, y, n)[j]
                      /\ Holds(b.w, y, StructuralColumns(p), n, b.rhs)
                      => Lhs(c, x) >= n * c.rhs
  BY <1>2, <1>5, <1>6, InVariablesHolds
<1>8. PICK e : e = Reduced(c)
  OBVIOUS
<1>9. /\ e.coefficient \in [p.vars -> Int] /\ e.rhs \in Int
      /\ \A x, n : n \in Int /\ AllInt(x, p.vars) /\ Lhs(c, x) >= n * c.rhs => Lhs(e, x) >= n * e.rhs
  BY <1>2, <1>7, <1>8, ReducedHolds
<1>10. ASSUME NEW x \in Points(p, h) PROVE Lhs(e, x) >= h * e.rhs
  <2>1. PICK y : y = ColumnPoint(p, h, x)
    OBVIOUS
  <2>2. /\ AllInt(y, DOMAIN ColsOf(p)) /\ \A i \in DOMAIN RowsOf(p) : RowValue(lp, i, y) = h * lp.b[i]
        /\ \A j \in p.vars : x[j] = Reconstruct(p, y, h)[j]
    BY <1>2, <2>1, ColumnPointMeaning
  <2>3. h \in Int
    BY <1>2
  <2>4. Holds(w, y, lp.cols, h, d)
    BY <1>1, <2>1
  <2>5. Holds(b.w, y, StructuralColumns(p), h, b.rhs)
    BY <1>3, <1>5, <2>2, <2>3, <2>4
  <2>6. Lhs(c, x) >= h * c.rhs
    BY <1>7, <2>2, <2>3, <2>5
  <2>7. AllInt(x, p.vars)
    BY DEF Points, AllInt
  <2> QED
    BY <1>9, <2>3, <2>6, <2>7
<1>11. PICK v : v = D * e.rhs - Lhs(e, Point)
  OBVIOUS
<1>12. v \in Int
  <2>1. AllInt(Point, p.vars)
    <3>1. D \in Int /\ AllInt(answer.primal, DOMAIN ColsOf(p))
      BY <1>3
    <3>2. Reconstruct(p, answer.primal, D) \in [p.vars -> Int]
      BY <1>2, <3>1, ReconstructedType
    <3> QED
      BY <1>2, <3>2 DEF Point, AllInt
  <2>2. Lhs(e, Point) \in Int
    <3> DEFINE s == [j \in p.vars |-> e.coefficient[j] * Point[j]]
    <3>1. \A j \in p.vars : s[j] \in Int
      <4> SUFFICES ASSUME NEW j \in p.vars PROVE s[j] \in Int
        OBVIOUS
      <4>1. PICK a \in Int, z \in Int : a = e.coefficient[j] /\ z = Point[j]
        BY <1>9, <2>1 DEF AllInt
      <4> QED
        BY <4>1
    <3>2. Lhs(e, Point) = Total(s, p.vars)
      <4>1. DOMAIN e.coefficient = p.vars
        BY <1>9
      <4> QED
        BY <4>1, Zenon DEF Lhs
    <3>3. AllInt(s, p.vars)
      BY <3>1 DEF AllInt
    <3> HIDE DEF s
    <3>4. Total(s, p.vars) \in Int
      BY <1>2, <3>3, TotalType
    <3> QED
      BY <3>2, <3>4
  <2>3. D * e.rhs \in Int
    BY <1>9
  <2> QED
    BY <1>11, <2>2, <2>3
<1>13. PICK r : r = [coefficient |-> e.coefficient, rhs |-> e.rhs, violation |-> v]
  OBVIOUS
<1>14. r \in GlobalCuts(p)
  <2>1. r \in [coefficient : [p.vars -> Int], rhs : Int, violation : Int]
    BY <1>9, <1>12, <1>13
  <2>2. \A x : Lhs(r, x) = Lhs(e, x)
    BY <1>13 DEF Lhs
  <2>3. \A x \in Points(p, Halves) : Lhs(r, x) >= Halves * r.rhs
    BY <1>1, <1>10, <1>13, <2>2
  <2> QED
    BY <2>1, <2>3 DEF GlobalCuts
<1>15. CutOf(w, d) = IF NormSquared(e) > 0 /\ v > 0 THEN <<r>> ELSE <<>>
  BY <1>4, <1>6, <1>8, <1>11, <1>13 DEF CutOf
<1>16. CutOf(w, d) = <<r>> \/ CutOf(w, d) = <<>>
  BY <1>15
<1>17. <<r>> \in Seq(GlobalCuts(p)) /\ <<>> \in Seq(GlobalCuts(p))
  BY <1>14
<1> QED
  BY <1>16, <1>17

\* Every cut of the row at a position is valid for the model solved.
LEMMA CutsAtPosition ==
  ASSUME NEW p, Relaxation(p), Settled, D \in Nat \ {0}, NEW a \in CutPositions
  PROVE  GomoryCut(a) \in Seq(GlobalCuts(p)) /\ MirCuts(a) \in Seq(GlobalCuts(p))
<1>1. PICK row, f, e, N, h : row = Tableau(a) /\ f = FractionAt(a) /\ e = D /\ N = lp.cols /\ h = Halves
  OBVIOUS
<1>2. /\ f \in Nat /\ 0 < f /\ f < e /\ IsFiniteSet(N) /\ AllInt(row, N)
      /\ DOMAIN row = N /\ AllInt(answer.primal, N) /\ basis[a] \in IntegerColumns(p)
      /\ \A k \in Basic : k \in N /\ ((k = basis[a] /\ row[k] = e) \/ row[k] = 0)
      /\ \E q \in Int : \A x \in Points(p, h) :
           Total(TermsOf(row, ColumnPoint(p, h, x), N), N) = h * (e * q + f)
  BY <1>1, FractionalRow
<1>3. PICK q \in Int : \A x \in Points(p, h) : Total(TermsOf(row, ColumnPoint(p, h, x), N), N) = h * (e * q + f)
  BY <1>2
<1>4. e \in Nat \ {0} /\ h \in Nat \ {0} /\ IsProgram(p) /\ WellFormed(p) /\ N = DOMAIN ColsOf(p)
  <2>1. IsProgram(p) /\ WellFormed(p) /\ lp = Canonical(p)
    BY DEF Relaxation, Bounded, IsProgram
  <2> QED
    BY <1>1, <2>1, CutConstants, CanonicalFields
<1>5. ASSUME NEW w, NEW g \in Nat, g < e, AllInt(w, N),
             \A x \in Points(p, h) : Holds(w, ColumnPoint(p, h, x), N, h, g * (e - g))
      PROVE  CutOf(w, g * (e - g)) \in Seq(GlobalCuts(p))
  <2>1. PICK d \in Int : d = g * (e - g)
    BY <1>4
  <2>2. \A x \in Points(p, Halves) : Holds(w, ColumnPoint(p, Halves, x), lp.cols, Halves, d)
    BY <1>1, <1>5, <2>1
  <2>3. AllInt(answer.primal, lp.cols) /\ AllInt(w, lp.cols)
    BY <1>1, <1>2, <1>5
  <2>4. CutOf(w, d) \in Seq(GlobalCuts(p))
    BY <2>2, <2>3, CutOfIsGlobal
  <2> QED
    BY <2>1, <2>4
<1>6. ASSUME NEW r, NEW g \in Nat, g < e, NEW n \in Int, AllInt(r, N),
             \A k \in Basic : \E t \in Int : r[k] = e * t /\ (k \notin IntegerColumns(p) => t = 0),
             \A x \in Points(p, h) : Total(TermsOf(r, ColumnPoint(p, h, x), N), N) = h * (e * n + g)
      PROVE  /\ CutOf(GomoryWeights(r, g), g * (e - g)) \in Seq(GlobalCuts(p))
             /\ CutOf(MirWeights(r, g), g * (e - g)) \in Seq(GlobalCuts(p))
  <2>1. ASSUME NEW w, w = GomoryWeights(r, g) \/ w = MirWeights(r, g)
        PROVE  CutOf(w, g * (e - g)) \in Seq(GlobalCuts(p))
    <3>1. PICK T : T = Points(p, Halves)
      OBVIOUS
    <3>2. AllInt(w, lp.cols) /\ \A x \in T : Holds(w, ColumnPoint(p, Halves, x), lp.cols, Halves, g * (D - g))
      <4>1. IsFiniteSet(lp.cols) /\ AllInt(r, lp.cols) /\ g < D /\ T \in SUBSET Points(p, Halves)
        BY <1>1, <1>2, <1>6, <3>1
      <4>2. \A k \in Basic : \E t \in Int : r[k] = D * t /\ (k \notin IntegerColumns(p) => t = 0)
        BY <1>1, <1>6
      <4>3. \A x \in T : Total(TermsOf(r, ColumnPoint(p, Halves, x), lp.cols), lp.cols) = Halves * (D * n + g)
        BY <1>1, <1>6, <3>1
      <4> QED
        BY <2>1, <4>1, <4>2, <4>3, WeightsHold
    <3> QED
      BY <1>1, <1>5, <1>6, <3>1, <3>2
  <2> QED
    BY <2>1
<1>7. \A k \in Basic : \E t \in Int : row[k] = e * t /\ (k \notin IntegerColumns(p) => t = 0)
  <2> SUFFICES ASSUME NEW k \in Basic PROVE \E t \in Int : row[k] = e * t /\ (k \notin IntegerColumns(p) => t = 0)
    OBVIOUS
  <2>1. CASE row[k] = 0
    <3>1. row[k] = e * 0
      BY <1>4, <2>1
    <3> QED
      BY <3>1
  <2>2. CASE row[k] # 0
    <3>1. row[k] = e * 1 /\ k \in IntegerColumns(p)
      BY <1>2, <1>4, <2>2
    <3> QED
      BY <3>1
  <2> QED
    BY <2>1, <2>2
<1>8. PICK r : r = [k \in DOMAIN row |-> -row[k]]
  OBVIOUS
<1>9. AllInt(r, N) /\ \A k \in N : r[k] = -row[k]
  BY <1>2, <1>8 DEF AllInt
<1>10. \A k \in Basic : \E t \in Int : r[k] = e * t /\ (k \notin IntegerColumns(p) => t = 0)
  <2> SUFFICES ASSUME NEW k \in Basic PROVE \E t \in Int : r[k] = e * t /\ (k \notin IntegerColumns(p) => t = 0)
    OBVIOUS
  <2>1. CASE row[k] = 0
    <3>1. r[k] = e * 0
      BY <1>2, <1>4, <1>9, <2>1
    <3> QED
      BY <3>1
  <2>2. CASE row[k] # 0
    <3>1. r[k] = e * (-1) /\ k \in IntegerColumns(p)
      BY <1>2, <1>4, <1>9, <2>2
    <3> QED
      BY <3>1
  <2> QED
    BY <2>1, <2>2
<1>11. PICK g \in Nat : g = e - f /\ g < e
  <2>1. e - f \in Nat /\ e - f < e
    BY <1>2, <1>4
  <2> QED
    BY <2>1
<1>12. ASSUME NEW x \in Points(p, h)
       PROVE  Total(TermsOf(r, ColumnPoint(p, h, x), N), N) = h * (e * ((-1) - q) + g)
  <2>1. PICK y : y = ColumnPoint(p, h, x)
    OBVIOUS
  <2>2. AllInt(y, N)
    BY <1>4, <2>1, ColumnPointMeaning
  <2> DEFINE s == TermsOf(row, y, N)
             t == TermsOf(r, y, N)
  <2>3. ASSUME NEW k \in N PROVE s[k] \in Int /\ t[k] = (-1) * s[k]
    <3>1. PICK i \in Int, j \in Int : i = row[k] /\ j = y[k]
      BY <1>2, <2>2 DEF AllInt
    <3>2. s[k] = i * j /\ t[k] = (-i) * j
      BY <1>9, <3>1 DEF TermsOf
    <3> QED
      BY <3>2
  <2>4. AllInt(s, N) /\ \A k \in N : t[k] = (-1) * s[k]
    BY <2>3 DEF AllInt
  <2>5. Total(s, N) = h * (e * q + f)
    BY <1>3, <2>1
  <2> HIDE DEF s, t
  <2>6. Total(t, N) = (-1) * Total(s, N)
    <3>1. -1 \in Int
      OBVIOUS
    <3> QED
      BY <1>2, <2>4, <3>1, TotalMultiple
  <2>7. (-1) * (h * (e * q + f)) = h * (e * ((-1) - q) + g)
    <3>1. -(e * q + f) = e * ((-1) - q) + g
      BY <1>2, <1>4, <1>11
    <3>2. (-1) * (h * (e * q + f)) = h * (-(e * q + f))
      <4>1. PICK z \in Int : z = e * q + f
        BY <1>2, <1>4
      <4>2. (-1) * (h * z) = h * (-z)
        BY <1>4
      <4> QED
        BY <4>1, <4>2
    <3> QED
      BY <3>1, <3>2
  <2> QED
    BY <2>1, <2>5, <2>6, <2>7 DEF t
<1>13. /\ CutOf(GomoryWeights(row, f), f * (e - f)) \in Seq(GlobalCuts(p))
       /\ CutOf(MirWeights(row, f), f * (e - f)) \in Seq(GlobalCuts(p))
  BY <1>2, <1>3, <1>6, <1>7
<1>14. CutOf(MirWeights(r, g), g * (e - g)) \in Seq(GlobalCuts(p))
  <2>1. (-1) - q \in Int
    OBVIOUS
  <2> QED
    BY <1>6, <1>9, <1>10, <1>11, <1>12, <2>1
<1>15. GomoryCut(a) \in Seq(GlobalCuts(p))
  BY <1>1, <1>13 DEF GomoryCut
<1>16. MirCuts(a) \in Seq(GlobalCuts(p))
  <2>1. PICK c, d : c = CutOf(MirWeights(row, f), f * (e - f)) /\ d = CutOf(MirWeights(r, g), g * (e - g))
    OBVIOUS
  <2>2. c \in Seq(GlobalCuts(p)) /\ d \in Seq(GlobalCuts(p))
    BY <1>13, <1>14, <2>1
  <2>3. g * (e - g) = f * (e - f)
    BY <1>2, <1>4, <1>11
  <2>4. MirCuts(a) = c \o d
    BY <1>1, <1>8, <1>11, <2>1, <2>3 DEF MirCuts
  <2> QED
    BY <2>2, <2>4, ConcatProperties
<1> QED
  BY <1>15, <1>16

-----------------------------------------------------------------------------
(***************************************************************************)
(* Lists of cuts: joining, sorting and filtering them adds no other cut.   *)
(***************************************************************************)
\* The join of lists of members of S is a list of them.
LEMMA FlattenInto ==
  ASSUME NEW S, NEW n \in Nat, NEW ss \in [1 .. n -> Seq(S)]
  PROVE  FlattenSeq(ss) \in Seq(S)
<1>1. ss \in Seq(Seq(S)) /\ Len(ss) = n
  <2>1. ss \in Seq(Seq(S))
    BY SeqDef
  <2>2. DOMAIN ss = 1 .. Len(ss) /\ Len(ss) \in Nat
    BY <2>1, LenProperties
  <2> QED
    BY <2>1, <2>2
<1>2. CASE n = 0
  <2>1. FlattenSeq(ss) = ss
    BY <1>1, <1>2 DEF FlattenSeq
  <2>2. ss = <<>>
    BY <1>1, <1>2
  <2>3. <<>> \in Seq(S)
    OBVIOUS
  <2> QED
    BY <2>1, <2>2, <2>3, Zenon
<1>3. CASE n > 0
  <2>1. PICK f : Joins(ss, n, f) /\ FlattenSeq(ss) = f[n]
    BY <1>1, <1>3, FlattenJoins
  <2> DEFINE G == {m \in Nat : m + 1 <= n => f[m + 1] \in Seq(S)}
  <2>2. \A i \in 1 .. n : f[i] = IF i = 1 THEN ss[i] ELSE f[i - 1] \o ss[i]
    BY <2>1, Zenon DEF Joins
  <2>3. 0 \in G
    <3>1. 1 \in 1 .. n
      BY <1>3
    <3>2. f[1] = ss[1] /\ ss[1] \in Seq(S)
      BY <2>2, <3>1
    <3> QED
      BY <3>2
  <2>4. ASSUME NEW m \in Nat, m \in G PROVE m + 1 \in G
    <3> SUFFICES ASSUME (m + 1) + 1 <= n PROVE f[(m + 1) + 1] \in Seq(S)
      OBVIOUS
    <3>1. PICK k \in 1 .. n : k = (m + 1) + 1 /\ k - 1 = m + 1 /\ k # 1
      OBVIOUS
    <3>2. f[m + 1] \in Seq(S) /\ ss[k] \in Seq(S)
      BY <2>4, <3>1
    <3>3. f[k] = f[m + 1] \o ss[k]
      BY <2>2, <3>1
    <3>4. f[m + 1] \o ss[k] \in Seq(S)
      BY <3>2, ConcatProperties
    <3> QED
      BY <3>1, <3>3, <3>4, Zenon
  <2> HIDE DEF G
  <2>5. \A m \in Nat : m \in G
    BY <2>3, <2>4, NatSetInduction
  <2>6. PICK m \in Nat : m + 1 = n
    <3>1. n - 1 \in Nat /\ (n - 1) + 1 = n
      BY <1>3
    <3> QED
      BY <3>1
  <2>7. m + 1 <= n => f[m + 1] \in Seq(S)
    BY <2>5, <2>6, Zenon DEF G
  <2>8. m + 1 <= n
    BY <2>6
  <2> QED
    BY <2>1, <2>6, <2>7, <2>8, Zenon
<1> QED
  BY <1>2, <1>3

\* What a fold that sorts ("rank") or filters does with the next cut.
Taken(kind, list, c) == IF kind = "rank" THEN Inserted(list, c) ELSE KeptWith(list, c)
TakesAll(kind, list, S, g) ==
  g = [s \in S |-> IF s = {} THEN <<>> ELSE Taken(kind, g[s \ {Largest(s)}], list[Largest(s)])]

\* Either fold is a recursion over the sets of positions that takes the
\* largest last.
LEMMA RankUnfolds ==
  ASSUME NEW list
  PROVE  Ranked(list) = (CHOOSE g : TakesAll("rank", list, SUBSET DOMAIN list, g))[DOMAIN list]
  BY DEF Ranked, FoldLeft, MapThenFoldSet, Largest, TakesAll, Taken

\* And so does the filter.
LEMMA FilterUnfolds ==
  ASSUME NEW list, NEW t, t = Ranked(list)
  PROVE  FilterCuts(list) = (CHOOSE g : TakesAll("keep", t, SUBSET DOMAIN t, g))[DOMAIN t]
  BY DEF FilterCuts, FoldLeft, MapThenFoldSet, Largest, TakesAll, Taken

\* The recursion has a solution.
LEMMA TakingExists ==
  ASSUME NEW kind, NEW list, NEW S \in SUBSET Int, IsFiniteSet(S)
  PROVE  \E g : TakesAll(kind, list, SUBSET S, g)
<1> DEFINE G == {n \in Nat : \E g : TakesAll(kind, list, UpTo(S, n), g)}
           next(g, s) == Taken(kind, g[s \ {Largest(s)}], list[Largest(s)])
<1>0. \A s \in SUBSET S : IsFiniteSet(s) /\ Cardinality(s) \in Nat /\ Cardinality(s) <= Cardinality(S)
  BY FS_Subset, FS_CardinalityType
<1>1. 0 \in G
  <2> DEFINE g == [s \in UpTo(S, 0) |-> <<>>]
  <2>1. \A s \in UpTo(S, 0) : s = {}
    BY <1>0, FS_EmptySet DEF UpTo
  <2>2. TakesAll(kind, list, UpTo(S, 0), g)
    BY <2>1 DEF TakesAll
  <2> QED
    BY <2>2
<1>2. ASSUME NEW n \in Nat, n \in G PROVE n + 1 \in G
  <2>1. PICK g : TakesAll(kind, list, UpTo(S, n), g)
    BY <1>2
  <2> DEFINE h == [s \in UpTo(S, n + 1) |-> IF s = {} THEN <<>> ELSE next(g, s)]
  <2>2. ASSUME NEW s \in UpTo(S, n + 1), s # {} PROVE s \ {Largest(s)} \in UpTo(S, n)
    <3>1. IsFiniteSet(s) /\ s \in SUBSET Int /\ s \in SUBSET S
      BY <1>0 DEF UpTo
    <3>2. Largest(s) \in s
      BY <2>2, <3>1, LargestOfSet
    <3>3. Cardinality(s \ {Largest(s)}) = Cardinality(s) - 1
      BY <3>1, <3>2, FS_RemoveElement
    <3>4. Cardinality(s) \in Nat /\ Cardinality(s) <= n + 1
      BY <1>0, <3>1 DEF UpTo
    <3>5. s \ {Largest(s)} \in SUBSET S
      BY <3>1
    <3>6. Cardinality(s \ {Largest(s)}) <= n
      BY <3>3, <3>4
    <3> QED
      BY <3>5, <3>6 DEF UpTo
  <2>3. ASSUME NEW s \in UpTo(S, n) PROVE g[s] = h[s]
    <3>1. s \in UpTo(S, n + 1)
      BY <1>0 DEF UpTo
    <3> QED
      BY <3>1, <2>1, Zenon DEF TakesAll
  <2>4. h = [s \in UpTo(S, n + 1) |-> IF s = {} THEN <<>> ELSE next(h, s)]
    <3>1. ASSUME NEW s \in UpTo(S, n + 1), s # {} PROVE next(g, s) = next(h, s)
      BY <2>2, <2>3, <3>1, Zenon
    <3> HIDE DEF next
    <3> QED
      BY <3>1
  <2>5. TakesAll(kind, list, UpTo(S, n + 1), h)
    BY <2>4, Zenon DEF TakesAll
  <2> QED
    BY <2>5
<1>3. Cardinality(S) \in G
  <2> HIDE DEF G
  <2> QED
    BY <1>1, <1>2, NatSetInduction, FS_CardinalityType
<1>4. UpTo(S, Cardinality(S)) = SUBSET S
  BY <1>0 DEF UpTo
<1> QED
  BY <1>3, <1>4

\* Sorting a cut in, or keeping it, adds nothing else to a list.
LEMMA TakenInto ==
  ASSUME NEW kind, NEW S, NEW list \in Seq(S), NEW c \in S
  PROVE  Taken(kind, list, c) \in Seq(S)
<1>1. Inserted(list, c) \in Seq(S)
  <2> DEFINE before == {k \in DOMAIN list : ~ Better(c, list[k])}
  <2>1. DOMAIN list = 1 .. Len(list) /\ Len(list) \in Nat
    BY LenProperties
  <2>2. IsFiniteSet(DOMAIN list) /\ Cardinality(DOMAIN list) = Len(list)
    <3>1. PICK n : n = Len(list)
      OBVIOUS
    <3>2. n \in Nat /\ 1 \in Int /\ n \in Int
      BY <2>1, <3>1
    <3>3. IsFiniteSet(1 .. n) /\ Cardinality(1 .. n) = n
      BY ONLY <3>2, FS_Interval
    <3> QED
      BY <2>1, <3>1, <3>3, Zenon
  <2>3. before \in SUBSET DOMAIN list
    OBVIOUS
  <2>4. Cardinality(before) \in Nat /\ Cardinality(before) <= Len(list)
    <3> HIDE DEF before
    <3> QED
      BY <2>2, <2>3, FS_Subset, FS_CardinalityType
  <2>5. PICK i : i = 1 + Cardinality(before)
    OBVIOUS
  <2> HIDE DEF before
  <2>6. i \in Nat /\ i - 1 \in Nat /\ i - 1 <= Len(list)
    BY <2>4, <2>5
  <2>7. SubSeq(list, 1, i - 1) \in Seq(S) /\ SubSeq(list, i, Len(list)) \in Seq(S)
    BY <2>1, <2>6
  <2>8. <<c>> \in Seq(S)
    OBVIOUS
  <2>9. SubSeq(list, 1, i - 1) \o <<c>> \in Seq(S)
    BY <2>7, <2>8, ConcatProperties
  <2>10. (SubSeq(list, 1, i - 1) \o <<c>>) \o SubSeq(list, i, Len(list)) \in Seq(S)
    BY <2>7, <2>9, ConcatProperties
  <2>11. Inserted(list, c) = (SubSeq(list, 1, i - 1) \o <<c>>) \o SubSeq(list, i, Len(list))
    BY <2>5, Zenon DEF Inserted, InsertAt, before
  <2> QED
    BY <2>10, <2>11, Zenon
<1>2. KeptWith(list, c) \in Seq(S)
  <2>1. Append(list, c) \in Seq(S)
    OBVIOUS
  <2> QED
    BY <2>1, Zenon DEF KeptWith
<1> QED
  BY <1>1, <1>2, Zenon DEF Taken

\* So neither fold does.
LEMMA TakingInto ==
  ASSUME NEW kind, NEW S, NEW list \in Seq(S)
  PROVE  (CHOOSE g : TakesAll(kind, list, SUBSET DOMAIN list, g))[DOMAIN list] \in Seq(S)
<1>1. PICK n \in Nat : n = Len(list) /\ DOMAIN list = 1 .. n
  BY LenProperties
<1> DEFINE A == 1 .. n
           g == CHOOSE h : TakesAll(kind, list, SUBSET A, h)
           G == {k \in Nat : k <= n => g[1 .. k] \in Seq(S)}
<1>2. A \in SUBSET Int /\ IsFiniteSet(A)
  BY FS_Interval
<1>3. TakesAll(kind, list, SUBSET A, g)
  BY <1>2, TakingExists
<1> HIDE DEF g
<1>4. 0 \in G
  <2>1. 1 .. 0 = {} /\ {} \in SUBSET A
    OBVIOUS
  <2>2. g[{}] = <<>>
    BY <1>3, <2>1, Zenon DEF TakesAll
  <2>3. <<>> \in Seq(S)
    OBVIOUS
  <2> QED
    BY <2>1, <2>2, <2>3
<1>5. ASSUME NEW m \in Nat, m \in G PROVE m + 1 \in G
  <2> SUFFICES ASSUME m + 1 <= n PROVE g[1 .. (m + 1)] \in Seq(S)
    OBVIOUS
  <2>1. PICK k \in 1 .. n : k = m + 1 /\ k - 1 = m
    OBVIOUS
  <2>2. 1 .. k \in SUBSET A /\ 1 .. k # {} /\ 1 .. k \in SUBSET Int /\ IsFiniteSet(1 .. k)
    <3>1. k \in Int /\ 1 \in 1 .. k
      OBVIOUS
    <3>2. IsFiniteSet(1 .. k)
      BY <3>1, FS_Interval
    <3>3. \A i \in 1 .. k : i \in 1 .. n /\ i \in Int
      BY <3>1
    <3> QED
      BY <3>1, <3>2, <3>3
  <2>3. Largest(1 .. k) = k
    <3>1. Largest(1 .. k) \in 1 .. k /\ \A y \in 1 .. k : Largest(1 .. k) >= y
      BY <2>2, LargestOfSet
    <3> QED
      BY <3>1
  <2>4. (1 .. k) \ {k} = 1 .. m
    BY <2>1
  <2>5. g[1 .. k] = Taken(kind, g[(1 .. k) \ {Largest(1 .. k)}], list[Largest(1 .. k)])
    BY <1>3, <2>2, Zenon DEF TakesAll
  <2>6. g[1 .. k] = Taken(kind, g[1 .. m], list[k])
    BY <2>3, <2>4, <2>5, Zenon
  <2>7. g[1 .. m] \in Seq(S) /\ list[k] \in S
    <3>1. m <= n
      OBVIOUS
    <3> QED
      BY <1>1, <1>5, <3>1
  <2>8. Taken(kind, g[1 .. m], list[k]) \in Seq(S)
    BY <2>7, TakenInto
  <2> QED
    BY <2>1, <2>6, <2>8, Zenon
<1> HIDE DEF G
<1>6. n \in G
  BY <1>4, <1>5, NatSetInduction
<1> QED
  BY <1>1, <1>6 DEF G, g

\* filter_cuts returns cuts of the list it is given.
LEMMA FilterInto ==
  ASSUME NEW S, NEW list \in Seq(S)
  PROVE  FilterCuts(list) \in Seq(S)
<1>1. PICK t : t = Ranked(list)
  OBVIOUS
<1>2. t \in Seq(S)
  BY <1>1, RankUnfolds, TakingInto
<1> QED
  BY <1>1, <1>2, FilterUnfolds, TakingInto

\* The first cuts of a list, up to the limit.
LEMMA AtMostInto ==
  ASSUME NEW S, NEW list \in Seq(S)
  PROVE  AtMost(list) \in Seq(S)
<1>1. PICK n \in Nat : n = Len(list)
  BY LenProperties
<1>2. Min({MaxCuts, n}) \in Nat /\ Min({MaxCuts, n}) <= n
  <2>1. MaxCuts \in Nat
    BY CutConstants
  <2>2. \E m \in {MaxCuts, n} : \A y \in {MaxCuts, n} : m <= y
    <3>1. CASE MaxCuts <= n
      BY <2>1, <3>1
    <3>2. CASE ~ MaxCuts <= n
      BY <2>1, <3>2
    <3> QED
      BY <3>1, <3>2
  <2> QED
    BY <2>1, <2>2 DEF Min
<1>3. PICK m : m = Min({MaxCuts, n})
  OBVIOUS
<1>4. SubSeq(list, 1, m) \in Seq(S)
  <2>1. m \in Nat /\ m <= n /\ DOMAIN list = 1 .. n
    BY <1>1, <1>2, <1>3, LenProperties
  <2>2. \A i \in 1 .. m : list[i] \in S
    BY <2>1
  <2> QED
    BY <2>1, <2>2, SubSeqProperties
<1> QED
  BY <1>1, <1>3, <1>4, Zenon DEF AtMost

-----------------------------------------------------------------------------
\* So the lists of cuts the generators make hold global cuts.
LEMMA GeneratedCuts ==
  ASSUME NEW p, Relaxation(p), Settled, D \in Nat \ {0}
  PROVE  /\ AtMost(InOrder([a \in CutPositions |-> GomoryCut(a)])) \in Seq(GlobalCuts(p))
         /\ InOrder([a \in CutPositions |-> MirCuts(a)]) \in Seq(GlobalCuts(p))
<1>1. PICK n \in Nat : lp.rows = 1 .. n
  <2>1. WellFormed(p) /\ lp = Canonical(p)
    BY DEF Relaxation, Bounded, IsProgram
  <2>2. lp.rows = DOMAIN RowsOf(p) /\ RowsOf(p) \in Seq(RowSet(p))
    BY <2>1, CanonicalFields, RowsListed DEF Enumerates
  <2> QED
    BY <2>2, LenProperties
<1>2. PICK S : S = GlobalCuts(p)
  OBVIOUS
<1>3. PICK P : P = CutPositions
  OBVIOUS
<1>4. <<>> \in Seq(S)
  OBVIOUS
<1>5. ASSUME NEW f, DOMAIN f = P, \A a \in P : f[a] \in Seq(S)
      PROVE  InOrder(f) \in Seq(S)
  <2>1. PICK ss : ss = [a \in lp.rows |-> IF a \in DOMAIN f THEN f[a] ELSE <<>>]
    OBVIOUS
  <2>2. ss \in [1 .. n -> Seq(S)]
    BY <1>1, <1>4, <1>5, <2>1
  <2>3. FlattenSeq(ss) \in Seq(S)
    BY <2>2, FlattenInto
  <2> QED
    BY <2>1, <2>3 DEF InOrder
<1>6. PICK g, r : g = [a \in CutPositions |-> GomoryCut(a)] /\ r = [a \in CutPositions |-> MirCuts(a)]
  OBVIOUS
<1>7. \A a \in P : GomoryCut(a) \in Seq(S) /\ MirCuts(a) \in Seq(S)
  BY <1>2, <1>3, CutsAtPosition
<1>8. DOMAIN g = P /\ DOMAIN r = P /\ \A a \in P : g[a] \in Seq(S) /\ r[a] \in Seq(S)
  BY <1>3, <1>6, <1>7
<1>9. InOrder(g) \in Seq(S) /\ InOrder(r) \in Seq(S)
  BY <1>5, <1>8
<1>10. AtMost(InOrder(g)) \in Seq(S)
  BY <1>9, AtMostInto
<1> QED
  BY <1>2, <1>6, <1>9, <1>10

-----------------------------------------------------------------------------
(***************************************************************************)
(* Where either method reports an optimum it leaves the basis of it, and   *)
(* the verifier has accepted its witness.                                  *)
(***************************************************************************)
Concluded ==
  stage = "done" /\ answer.status = "optimal" =>
    /\ Settled /\ D \in Nat \ {0}
    /\ OptimalWitness(Scaled(lp, D), answer.primal, answer.dual)

\* A method that goes on, or ends without an optimum, claims none.
LEMMA GoesOn == ASSUME stage' # "done" PROVE Concluded'
BY DEF Concluded
\* An end that is no optimum, whatever it is.
LEMMA EndsOtherwise == ASSUME NEW a, Finish(a), a.status # "optimal" PROVE Concluded'
BY DEF Finish, Concluded
\* Failing is no optimum.
LEMMA FailsOtherwise == ASSUME NEW s, NEW w, s # "optimal", Fail(s, w) PROVE Concluded'
<1>1. [NoAnswer EXCEPT !.status = s, !.message = w].status = s
  BY DEF NoAnswer
<1> QED
  BY <1>1, EndsOtherwise DEF Fail
\* Nor is another answer, accepted or not.
LEMMA CertifiesOtherwise == ASSUME NEW a, Certify(a), a.status # "optimal" PROVE Concluded'
BY EndsOtherwise, FailsOtherwise DEF Certify

\* An optimum is the vertex of the basis.
LEMMA OptimumSettles ==
  ASSUME SimplexInv, stage \in {"two", "dual"}, NEW x, x = Ftran(WorkRhs), NEW y, Certify(Optimal(x, y))
  PROVE  Concluded'
<1>1. Placement /\ factored = basis /\ \A p \in left : basis[p] \in lp.cols
  BY DEF SimplexInv, InTwo, InDual, ModelBasis
<1>2. x = PointIn(lp, rowSign, left, basis, RhsIn(lp, rowSign)) /\ Spread(x.num) = SpreadIn(lp, left, basis, x.num)
  BY <1>1, HeldBasis
<1>3. PICK a : a = Optimal(x, y)
  OBVIOUS
<1>4. a.status = "optimal" /\ a.den = x.den /\ a.primal = Spread(x.num)
  BY <1>3 DEF Optimal, NoAnswer
<1>5. CASE Finish(a) /\ Accepted(a)
  <2>1. /\ answer' = a /\ lp' = lp /\ rowSign' = rowSign /\ left' = left /\ basis' = basis /\ factored' = factored
    BY <1>5 DEF Finish, workVars
  <2>2. a.den \in Nat \ {0} /\ OptimalWitness(Scaled(lp, a.den), a.primal, a.dual)
    BY <1>4, <1>5 DEF Accepted
  <2>3. /\ a.den = PointIn(lp, rowSign, left, basis, RhsIn(lp, rowSign)).den
        /\ a.primal = SpreadIn(lp, left, basis, PointIn(lp, rowSign, left, basis, RhsIn(lp, rowSign)).num)
    BY <1>2, <1>4, Zenon
  <2>4. rowSign \in [lp.rows -> {1, -1}] /\ left \in SUBSET lp.rows
    BY <1>1 DEF Placement
  <2>5. Settled'
    BY <1>1, <2>1, <2>3, <2>4, Zenon DEF Settled
  <2>6. D' = a.den
    BY <2>1 DEF D
  <2>7. OptimalWitness(Scaled(lp', D'), answer'.primal, answer'.dual)
    BY <2>1, <2>2, <2>6, Zenon
  <2> QED
    BY <2>2, <2>5, <2>6, <2>7 DEF Concluded
<1>6. CASE Fail("numerical_failure", "witness rejected")
  BY <1>6, FailsOtherwise
<1> QED
  BY <1>3, <1>5, <1>6 DEF Certify

\* So whatever step ends a method, and none changes the model.
LEMMA StepConcludes ==
  ASSUME SimplexInv, stage # "done", SimplexStep
  PROVE  Concluded' /\ lp' = lp
<1>1. lp' = lp
  BY DEF SimplexStep, PrimalStep, Start, Iterate, OutOfIterations, CleanNext, CleanEnds, Breakdown, DualStart,
         DualIterate, PhaseOneEnds, NoRowBlocks, Certify, Fail, Finish, Pivot, Cold
<1>2. ASSUME Start \/ CleanNext \/ CleanEnds PROVE Concluded'
  <2>1. stage' \in {"one", "two"} \/ stage' = "clean" \/ Fail("numerical_failure", "singular basis")
    BY <1>2 DEF Start, CleanNext, CleanEnds
  <2> QED
    BY <2>1, GoesOn, FailsOtherwise
<1>3. ASSUME OutOfIterations \/ Breakdown PROVE Concluded'
  <2>1. CASE OutOfIterations
    BY <2>1, FailsOtherwise DEF OutOfIterations
  <2>2. CASE Breakdown
    BY <2>2, FailsOtherwise DEF Breakdown
  <2> QED
    BY <1>3, <2>1, <2>2
<1>4. ASSUME Iterate PROVE Concluded'
  <2>1. stage \in {"one", "two"}
    BY <1>4 DEF Iterate
  <2>2. PICK x, y : /\ x = Ftran(WorkRhs) /\ y = Btran(BasicCosts)
                    /\ \/ stage = "one" /\ PhaseOneEnds(x, y)
                       \/ stage = "two" /\ Certify(Optimal(x, y))
                       \/ \E d, j : NoRowBlocks(x, d, j) \/ Pivot(Leaving(x, d), j)
    BY <1>4 DEF Iterate
  <2>3. CASE stage = "two" /\ Certify(Optimal(x, y))
    BY <2>2, <2>3, OptimumSettles
  <2>4. CASE PhaseOneEnds(x, y)
    <3>1. Infeasible(y).status = "infeasible"
      BY DEF Infeasible, NoAnswer
    <3>2. Certify(Infeasible(y)) \/ stage' = "clean"
      BY <2>4 DEF PhaseOneEnds
    <3> QED
      BY <3>1, <3>2, CertifiesOtherwise, GoesOn
  <2>5. ASSUME NEW d, NEW j, NoRowBlocks(x, d, j) PROVE Concluded'
    <3>1. Unbounded(x, d, j).status = "unbounded"
      BY DEF Unbounded, NoAnswer
    <3>2. Certify(Unbounded(x, d, j)) \/ Fail("numerical_failure", "phase I failed")
      BY <2>5 DEF NoRowBlocks
    <3> QED
      BY <3>1, <3>2, CertifiesOtherwise, FailsOtherwise
  <2>6. ASSUME NEW d, NEW j, Pivot(Leaving(x, d), j) PROVE Concluded'
    BY <2>1, <2>6, GoesOn DEF Pivot
  <2> QED
    BY <2>2, <2>3, <2>4, <2>5, <2>6
<1>5. ASSUME DualStart PROVE Concluded'
  <2>1. stage' \in {"start", "dual"} \/ Fail("numerical_failure", "invalid basis")
    BY <1>5 DEF DualStart, Cold
  <2> QED
    BY <2>1, GoesOn, FailsOtherwise
<1>6. ASSUME DualIterate PROVE Concluded'
  <2>1. stage = "dual"
    BY <1>6 DEF DualIterate
  <2>2. PICK x, y : /\ x = Ftran(WorkRhs)
                    /\ \/ Fail("numerical_failure", "dual feasibility lost") \/ Cold
                       \/ Fail("numerical_failure", "not dual feasible")
                       \/ Certify(Optimal(x, y))
                       \/ \E pi : Certify(Farkas(pi))
                       \/ \E p, j : Pivot(p, j)
    BY <1>6 DEF DualIterate
  <2>3. CASE Certify(Optimal(x, y))
    BY <2>1, <2>2, <2>3, OptimumSettles
  <2>4. ASSUME NEW pi, Certify(Farkas(pi)) PROVE Concluded'
    <3>1. Farkas(pi).status = "infeasible"
      BY DEF Farkas, NoAnswer
    <3> QED
      BY <2>4, <3>1, CertifiesOtherwise
  <2>5. ASSUME NEW p, NEW j, Pivot(p, j) PROVE Concluded'
    BY <2>1, <2>5, GoesOn DEF Pivot
  <2>6. CASE Cold
    BY <2>6, GoesOn DEF Cold
  <2> QED
    BY <2>2, <2>3, <2>4, <2>5, <2>6, FailsOtherwise
<1> QED
  BY <1>1, <1>2, <1>3, <1>4, <1>5, <1>6 DEF SimplexStep, PrimalStep

\* What leaves the methods alone keeps what they found.
LEMMA ConclusionRests ==
  ASSUME Concluded, UNCHANGED <<lp, rowSign, left, basis, factored, stage, answer>> PROVE Concluded'
BY DEF Concluded, Settled, D

-----------------------------------------------------------------------------
(***************************************************************************)
(* Rows made of global cuts cut off no point, and leave the variables and  *)
(* the objective alone.                                                    *)
(***************************************************************************)
SameVariables(p, q) ==
  /\ q.vars = p.vars /\ q.c = p.c /\ q.offset = p.offset /\ q.sense = p.sense
  /\ q.lo = p.lo /\ q.up = p.up /\ q.ints = p.ints
\* The model q is p with the rows of a list of k cuts after its own m.
ExtendedBy(p, q, list, m, k) ==
  /\ SameVariables(p, q) /\ DOMAIN q = DOMAIN p
  /\ m \in Nat /\ k \in Nat /\ DOMAIN list = 1 .. k /\ p.rows = 1 .. m
  /\ q.rows = 1 .. m + k
  /\ q.a = p.a \o [n \in DOMAIN list |-> list[n].coefficient]
  /\ q.rowLo = p.rowLo \o [n \in DOMAIN list |-> At(list[n].rhs)]
  /\ q.rowUp = p.rowUp \o [n \in DOMAIN list |-> NoBound]
\* The fields of the model with the cuts.
LEMMA WithCutsFields ==
  ASSUME NEW p, IsProgram(p), NEW list \in Seq(GlobalCuts(p))
  PROVE  ExtendedBy(p, WithCuts(p, list), list, Cardinality(p.rows), Len(list))
<1>0. PICK q, m : q = WithCuts(p, list) /\ m = Cardinality(p.rows)
  OBVIOUS
<1>1. /\ {"vars", "c", "offset", "rows", "sense", "a", "lo", "up", "rowLo", "rowUp", "ints", "grid"} \subseteq DOMAIN p
      /\ IsFiniteSet(p.rows) /\ p.rows = 1 .. Cardinality(p.rows)
  BY DEF IsProgram, WellFormed
<1>2. m \in Nat
  BY <1>0, <1>1, FS_CardinalityType
<1>3. Len(list) \in Nat /\ DOMAIN list = 1 .. Len(list)
  BY LenProperties
<1>4. /\ q.rows = 1 .. m + Len(list)
      /\ q.a = p.a \o [n \in DOMAIN list |-> list[n].coefficient]
      /\ q.rowLo = p.rowLo \o [n \in DOMAIN list |-> At(list[n].rhs)]
      /\ q.rowUp = p.rowUp \o [n \in DOMAIN list |-> NoBound]
  BY <1>0, <1>1 DEF WithCuts
<1>5. /\ q.vars = p.vars /\ q.c = p.c /\ q.offset = p.offset /\ q.sense = p.sense
      /\ q.lo = p.lo /\ q.up = p.up /\ q.ints = p.ints /\ DOMAIN q = DOMAIN p
  BY <1>0, <1>1 DEF WithCuts
<1>6. SameVariables(p, q)
  BY <1>5 DEF SameVariables
<1>7. p.rows = 1 .. m
  BY <1>0, <1>1
<1>8. ExtendedBy(p, q, list, m, Len(list))
  BY <1>2, <1>3, <1>4, <1>5, <1>6, <1>7 DEF ExtendedBy
<1> QED
  BY <1>0, <1>8

\* A list of n entries, and one that is the entries of another and then more.
IsList(f, n) == f = [i \in 1 .. n |-> f[i]]
Appended(s, f, g, m, k) ==
  /\ IsList(s, m + k)
  /\ \A i \in 1 .. m : s[i] = f[i]
  /\ \A n \in 1 .. k : s[m + n] = g[n]
\* Rows appended to rows.
LEMMA RowsAppended ==
  ASSUME NEW m \in Nat, NEW k \in Nat, NEW f, IsList(f, m), NEW g, IsList(g, k)
  PROVE  Appended(f \o g, f, g, m, k)
<1>0. PICK s : s = f \o g
  OBVIOUS
<1>1. PICK S : S = {f[i] : i \in 1 .. m} \union {g[n] : n \in 1 .. k}
  OBVIOUS
<1>2. f \in [1 .. m -> S] /\ g \in [1 .. k -> S]
  BY <1>1 DEF IsList
<1>3. f \in Seq(S) /\ g \in Seq(S)
  BY <1>2, SeqDef
<1>4. Len(f) = m /\ Len(g) = k
  BY <1>2, <1>3, LenProperties
<1>5. s \in Seq(S) /\ Len(s) = m + k
  BY <1>0, <1>3, <1>4, ConcatProperties
<1>6. DOMAIN s = 1 .. m + k /\ s \in [1 .. m + k -> S]
  BY <1>5, LenProperties
<1>7. \A i \in 1 .. m + k : s[i] = IF i <= m THEN f[i] ELSE g[i - m]
  BY <1>0, <1>3, <1>4, ConcatProperties
<1>8. ASSUME NEW n \in 1 .. k PROVE s[m + n] = g[n]
  <2>1. m + n \in 1 .. m + k /\ ~ m + n <= m /\ (m + n) - m = n
    OBVIOUS
  <2> QED
    BY <1>7, <2>1
<1>9. ASSUME NEW i \in 1 .. m PROVE s[i] = f[i]
  <2>1. i \in 1 .. m + k /\ i <= m
    OBVIOUS
  <2> QED
    BY <1>7, <2>1
<1>10. IsList(s, m + k)
  BY <1>6 DEF IsList
<1>11. Appended(s, f, g, m, k)
  BY <1>8, <1>9, <1>10 DEF Appended
<1> QED
  BY <1>0, <1>11

\* Its rows: those of the model, and one for each cut.
CutRows(p, q, list, m, k) ==
  /\ m \in Nat /\ k \in Nat /\ p.rows = 1 .. m /\ q.rows = 1 .. m + k
  /\ q.a = [i \in q.rows |-> q.a[i]]
  /\ q.rowLo = [i \in q.rows |-> q.rowLo[i]] /\ q.rowUp = [i \in q.rows |-> q.rowUp[i]]
  /\ \A i \in p.rows : q.a[i] = p.a[i] /\ q.rowLo[i] = p.rowLo[i] /\ q.rowUp[i] = p.rowUp[i]
  /\ \A n \in 1 .. k : /\ list[n] \in GlobalCuts(p) /\ q.a[m + n] = list[n].coefficient
                       /\ q.rowLo[m + n] = At(list[n].rhs) /\ q.rowUp[m + n] = NoBound
\* The model with the cuts has these.
LEMMA WithCutsRows ==
  ASSUME NEW p, NEW list \in Seq(GlobalCuts(p)), NEW q, NEW m, NEW k, IsProgram(p), ExtendedBy(p, q, list, m, k)
  PROVE  CutRows(p, q, list, m, k)
<1>1. /\ m \in Nat /\ k \in Nat /\ DOMAIN list = 1 .. k /\ p.rows = 1 .. m /\ q.rows = 1 .. m + k
      /\ q.a = p.a \o [n \in 1 .. k |-> list[n].coefficient]
      /\ q.rowLo = p.rowLo \o [n \in 1 .. k |-> At(list[n].rhs)]
      /\ q.rowUp = p.rowUp \o [n \in 1 .. k |-> NoBound]
  BY Zenon DEF ExtendedBy
<1>2. IsList(p.a, m) /\ IsList(p.rowLo, m) /\ IsList(p.rowUp, m)
  BY <1>1, Zenon DEF IsProgram, IsList
<1>3. PICK c, l, u : /\ c = [n \in 1 .. k |-> list[n].coefficient] /\ l = [n \in 1 .. k |-> At(list[n].rhs)]
                     /\ u = [n \in 1 .. k |-> NoBound]
  OBVIOUS
<1>4. IsList(c, k) /\ IsList(l, k) /\ IsList(u, k)
  BY <1>3 DEF IsList
<1>5. q.a = p.a \o c /\ q.rowLo = p.rowLo \o l /\ q.rowUp = p.rowUp \o u
  BY <1>1, <1>3
<1>10. m \in Nat /\ k \in Nat
  BY <1>1
<1>6. IsList(q.a, m + k) /\ (\A i \in 1 .. m : q.a[i] = p.a[i]) /\ \A n \in 1 .. k : q.a[m + n] = c[n]
  <2>1. Appended(p.a \o c, p.a, c, m, k)
    BY ONLY <1>2, <1>4, <1>10, RowsAppended
  <2> QED
    BY <1>5, <2>1 DEF Appended
<1>7. /\ IsList(q.rowLo, m + k) /\ (\A i \in 1 .. m : q.rowLo[i] = p.rowLo[i])
      /\ \A n \in 1 .. k : q.rowLo[m + n] = l[n]
  <2>1. Appended(p.rowLo \o l, p.rowLo, l, m, k)
    BY ONLY <1>2, <1>4, <1>10, RowsAppended
  <2> QED
    BY <1>5, <2>1 DEF Appended
<1>8. /\ IsList(q.rowUp, m + k) /\ (\A i \in 1 .. m : q.rowUp[i] = p.rowUp[i])
      /\ \A n \in 1 .. k : q.rowUp[m + n] = u[n]
  <2>1. Appended(p.rowUp \o u, p.rowUp, u, m, k)
    BY ONLY <1>2, <1>4, <1>10, RowsAppended
  <2> QED
    BY <1>5, <2>1 DEF Appended
<1>9. \A n \in 1 .. k : list[n] \in GlobalCuts(p)
  BY <1>1
<1> QED
  BY <1>1, <1>3, <1>6, <1>7, <1>8, <1>9 DEF IsList, CutRows

\* A row of it is one of the model or a cut.
LEMMA RowOrCut ==
  ASSUME NEW m \in Nat, NEW k \in Nat, NEW i \in 1 .. m + k
  PROVE  i \in 1 .. m \/ \E n \in 1 .. k : i = m + n
<1>1. CASE i <= m
  BY <1>1
<1>2. CASE ~ i <= m
  <2>1. i - m \in 1 .. k /\ i = m + (i - m)
    BY <1>2
  <2> QED
    BY <2>1
<1> QED
  BY <1>1, <1>2

\* It is a model of the same kind.
LEMMA WithCutsBounded ==
  ASSUME NEW p, Bounded(p), NEW list \in Seq(GlobalCuts(p)), NEW q, q = WithCuts(p, list)
  PROVE  Bounded(q) /\ SameVariables(p, q)
<1>1. IsProgram(p) /\ WellFormed(p) /\ NoFree(p) /\ \A j \in p.ints : p.lo[j].finite
  BY DEF Bounded, IsProgram
<1>2. PICK m, k : m = Cardinality(p.rows) /\ k = Len(list)
  OBVIOUS
<1>18. list \in Seq(GlobalCuts(p)) /\ IsProgram(p)
  BY <1>1
<1>19. ExtendedBy(p, WithCuts(p, list), list, Cardinality(p.rows), Len(list))
  BY ONLY <1>18, WithCutsFields
<1>10. ExtendedBy(p, q, list, m, k)
  BY <1>2, <1>19, Zenon
<1>20. CutRows(p, q, list, m, k)
  BY ONLY <1>10, <1>18, WithCutsRows
<1>3. /\ m \in Nat /\ k \in Nat /\ p.rows = 1 .. m /\ q.rows = 1 .. m + k
      /\ q.a = [i \in q.rows |-> q.a[i]]
      /\ q.rowLo = [i \in q.rows |-> q.rowLo[i]] /\ q.rowUp = [i \in q.rows |-> q.rowUp[i]]
      /\ \A i \in p.rows : q.a[i] = p.a[i] /\ q.rowLo[i] = p.rowLo[i] /\ q.rowUp[i] = p.rowUp[i]
      /\ \A n \in 1 .. k : /\ list[n] \in GlobalCuts(p) /\ q.a[m + n] = list[n].coefficient
                           /\ q.rowLo[m + n] = At(list[n].rhs) /\ q.rowUp[m + n] = NoBound
  BY <1>20, Zenon DEF CutRows
<1>4. /\ q.vars = p.vars /\ q.c = p.c /\ q.offset = p.offset /\ q.sense = p.sense
      /\ q.lo = p.lo /\ q.up = p.up /\ q.ints = p.ints /\ DOMAIN q = DOMAIN p
  BY <1>10, Zenon DEF ExtendedBy, SameVariables
<1>5. \A n \in 1 .. k : list[n].coefficient \in [p.vars -> Int] /\ list[n].rhs \in Int
  BY <1>3 DEF GlobalCuts
<1>6. ASSUME NEW i \in q.rows
      PROVE  Bounds(q.rowLo[i], q.rowUp[i]) /\ \A j \in q.vars : q.a[i][j] \in Int
  <2>1. CASE i \in p.rows
    BY <1>1, <1>3, <1>4, <2>1 DEF WellFormed
  <2>2. CASE \E n \in 1 .. k : i = m + n
    <3>1. PICK n \in 1 .. k : i = m + n
      BY <2>2
    <3>2. q.rowLo[i] = At(list[n].rhs) /\ q.rowUp[i] = NoBound /\ q.a[i] = list[n].coefficient
      BY <1>3, <3>1
    <3>3. list[n].rhs \in Int /\ list[n].coefficient \in [p.vars -> Int]
      BY <1>5
    <3>4. Bounds(At(list[n].rhs), NoBound)
      BY <3>3 DEF Bounds, IsBound, At, NoBound
    <3> QED
      BY <1>4, <3>2, <3>3, <3>4
  <2> QED
    <3>1. m \in Nat /\ k \in Nat /\ i \in 1 .. m + k /\ p.rows = 1 .. m
      BY <1>3, <1>6
    <3>2. i \in 1 .. m \/ \E n \in 1 .. k : i = m + n
      BY ONLY <3>1, RowOrCut
    <3> QED
      BY <2>1, <2>2, <3>1, <3>2
<1>7. WellFormed(q)
  <2>1. m + k \in Nat
    BY <1>3
  <2>2. IsFiniteSet(q.rows) /\ Cardinality(q.rows) = m + k
    BY <1>3, <2>1, FS_Interval
  <2>3. q.rows = 1 .. Cardinality(q.rows)
    BY <1>3, <2>2
  <2>4. /\ {"vars", "c", "offset"} \subseteq DOMAIN q
        /\ IsFiniteSet(q.vars) /\ q.vars = 1 .. Cardinality(q.vars)
        /\ q.sense \in {1, -1} /\ q.offset \in Int
        /\ \A j \in q.vars : q.c[j] \in Int /\ Bounds(q.lo[j], q.up[j])
    BY <1>1, <1>4 DEF WellFormed
  <2> QED
    BY <1>6, <2>2, <2>3, <2>4 DEF WellFormed
<1>8. IsProgram(q)
  <2>1. /\ {"rows", "sense", "a", "lo", "up", "rowLo", "rowUp", "ints", "grid"} \subseteq DOMAIN q
        /\ q.lo = [j \in q.vars |-> q.lo[j]] /\ q.up = [j \in q.vars |-> q.up[j]] /\ q.ints \subseteq q.vars
    BY <1>1, <1>4 DEF IsProgram
  <2> QED
    BY <1>3, <1>7, <2>1 DEF IsProgram
<1>9. NoFree(q) /\ \A j \in q.ints : q.lo[j].finite
  BY <1>1, <1>4 DEF NoFree
<1> QED
  BY <1>4, <1>8, <1>9 DEF Bounded, SameVariables

\* No point is lost.
LEMMA WithCutsKeepsPoints ==
  ASSUME NEW p, Bounded(p), NEW list \in Seq(GlobalCuts(p)), NEW q, q = WithCuts(p, list),
         NEW x \in Points(p, Halves)
  PROVE  x \in Points(q, Halves)
<1>1. IsProgram(p) /\ IsProgram(q) /\ SameVariables(p, q)
  BY WithCutsBounded DEF Bounded
<1>2. PICK m, k : m = Cardinality(p.rows) /\ k = Len(list)
  OBVIOUS
<1>18. list \in Seq(GlobalCuts(p)) /\ IsProgram(p)
  BY <1>1
<1>19. ExtendedBy(p, WithCuts(p, list), list, Cardinality(p.rows), Len(list))
  BY ONLY <1>18, WithCutsFields
<1>21. ExtendedBy(p, q, list, m, k)
  BY <1>2, <1>19, Zenon
<1>20. CutRows(p, q, list, m, k)
  BY ONLY <1>21, <1>18, WithCutsRows
<1>3. /\ m \in Nat /\ k \in Nat /\ p.rows = 1 .. m /\ q.rows = 1 .. m + k
      /\ \A i \in p.rows : q.a[i] = p.a[i] /\ q.rowLo[i] = p.rowLo[i] /\ q.rowUp[i] = p.rowUp[i]
      /\ \A n \in 1 .. k : /\ list[n] \in GlobalCuts(p) /\ q.a[m + n] = list[n].coefficient
                           /\ q.rowLo[m + n] = At(list[n].rhs) /\ q.rowUp[m + n] = NoBound
  BY <1>20, Zenon DEF CutRows
<1>4. PICK h : h = Halves /\ h \in Nat \ {0}
  BY CutConstants
<1>5. PICK o, u : o = Over(p, h) /\ u = Over(q, h)
  OBVIOUS
<1>6. /\ o.vars = p.vars /\ o.rows = p.rows /\ o.a = p.a /\ o.ints = p.ints /\ o.grid = h
      /\ \A j \in p.vars : o.lo[j] = Times(p.lo[j], h) /\ o.up[j] = Times(p.up[j], h)
      /\ \A i \in p.rows : o.rowLo[i] = Times(p.rowLo[i], h) /\ o.rowUp[i] = Times(p.rowUp[i], h)
  BY <1>1, <1>4, <1>5, OverFields
<1>7. /\ u.vars = q.vars /\ u.rows = q.rows /\ u.a = q.a /\ u.ints = q.ints /\ u.grid = h
      /\ \A j \in q.vars : u.lo[j] = Times(q.lo[j], h) /\ u.up[j] = Times(q.up[j], h)
      /\ \A i \in q.rows : u.rowLo[i] = Times(q.rowLo[i], h) /\ u.rowUp[i] = Times(q.rowUp[i], h)
  BY <1>1, <1>4, <1>5, OverFields
<1>8. q.vars = p.vars /\ q.lo = p.lo /\ q.up = p.up /\ q.ints = p.ints
  BY <1>1 DEF SameVariables
<1>9. x \in [p.vars -> Int] /\ Satisfies(o, x)
  BY <1>4, <1>5 DEF Points
<1>10. \A j \in u.ints : x[j] % u.grid = 0
  BY <1>6, <1>7, <1>8, <1>9 DEF Satisfies
<1>11. \A j \in u.vars : Within(x[j], u.lo[j], u.up[j])
  <2> SUFFICES ASSUME NEW j \in u.vars PROVE Within(x[j], u.lo[j], u.up[j])
    OBVIOUS
  <2>1. j \in o.vars /\ u.lo[j] = o.lo[j] /\ u.up[j] = o.up[j]
    BY <1>6, <1>7, <1>8
  <2>2. Within(x[j], o.lo[j], o.up[j])
    BY <1>9, <2>1 DEF Satisfies
  <2> QED
    BY <2>1, <2>2
<1>12. ASSUME NEW i \in u.rows PROVE Within(Activity(u, i, x), u.rowLo[i], u.rowUp[i])
  <2>1. CASE i \in p.rows
    <3>1. u.a[i] = o.a[i] /\ u.rowLo[i] = o.rowLo[i] /\ u.rowUp[i] = o.rowUp[i] /\ i \in o.rows /\ u.vars = o.vars
      BY <1>3, <1>6, <1>7, <1>8, <1>12, <2>1
    <3>2. Activity(u, i, x) = Activity(o, i, x)
      BY <3>1, Zenon DEF Activity
    <3>3. Within(Activity(o, i, x), o.rowLo[i], o.rowUp[i])
      BY <1>9, <3>1 DEF Satisfies
    <3> QED
      BY <3>1, <3>2, <3>3, Zenon
  <2>2. CASE \E n \in 1 .. k : i = m + n
    <3>1. PICK n \in 1 .. k : i = m + n
      BY <2>2
    <3>2. PICK c : c = list[n] /\ c \in GlobalCuts(p)
      BY <1>3
    <3>3. u.a[i] = c.coefficient /\ u.rowLo[i] = Times(At(c.rhs), h) /\ u.rowUp[i] = Times(NoBound, h)
      <4>1. q.a[i] = c.coefficient /\ q.rowLo[i] = At(c.rhs) /\ q.rowUp[i] = NoBound
        BY <1>3, <3>1, <3>2
      <4>2. u.a[i] = q.a[i] /\ u.rowLo[i] = Times(q.rowLo[i], h) /\ u.rowUp[i] = Times(q.rowUp[i], h)
        BY <1>7, <1>12
      <4> QED
        BY <4>1, <4>2, Zenon
    <3>4. c.coefficient \in [p.vars -> Int] /\ c.rhs \in Int /\ Lhs(c, x) >= h * c.rhs
      BY <1>4, <3>2 DEF GlobalCuts
    <3>5. DOMAIN c.coefficient = u.vars
      BY <1>7, <1>8, <3>4
    <3>6. Activity(u, i, x) = Lhs(c, x)
      BY <3>3, <3>5, Zenon DEF Activity, Lhs
    <3>7. /\ u.rowLo[i].finite /\ u.rowLo[i].value = h * c.rhs /\ ~ u.rowUp[i].finite
      BY <3>3 DEF Times, At, NoBound
    <3>8. PICK z, w : z = Lhs(c, x) /\ w = h * c.rhs
      OBVIOUS
    <3>9. w <= z
      <4>1. z \in Int
        <5>1. AllInt(x, p.vars) /\ AllInt(c.coefficient, p.vars) /\ IsFiniteSet(p.vars)
          BY <1>1, <1>9, <3>4 DEF AllInt, IsProgram, WellFormed
        <5>2. PICK f : f = [j \in p.vars |-> c.coefficient[j] * x[j]]
          OBVIOUS
        <5>3. AllInt(f, p.vars)
          BY <5>1, <5>2 DEF AllInt
        <5>4. z = Total(f, p.vars)
          BY <1>7, <1>8, <3>5, <3>8, <5>2 DEF Lhs
        <5> QED
          BY <5>1, <5>3, <5>4, TotalType
      <4>2. w \in Int
        BY <1>4, <3>4, <3>8
      <4> QED
        BY <3>4, <3>8, <4>1, <4>2
    <3> QED
      BY <3>6, <3>7, <3>8, <3>9 DEF Within
  <2> QED
    <3>1. m \in Nat /\ k \in Nat /\ i \in 1 .. m + k /\ p.rows = 1 .. m
      BY <1>3, <1>7, <1>12
    <3>2. i \in 1 .. m \/ \E n \in 1 .. k : i = m + n
      BY ONLY <3>1, RowOrCut
    <3> QED
      BY <2>1, <2>2, <3>1, <3>2
<1>13. Satisfies(u, x)
  BY <1>10, <1>11, <1>12 DEF Satisfies
<1> QED
  BY <1>4, <1>5, <1>8, <1>9, <1>13 DEF Points

-----------------------------------------------------------------------------
(***************************************************************************)
(* The invariant of the round.  Every model considered has a variable that *)
(* is not fixed, and so a column.                                          *)
(***************************************************************************)
Movable(p) == \E j \in p.vars : ~ Fixes(p.lo[j], p.up[j])
Suited == \A p \in Programs : Bounded(p) /\ Movable(p)

ModelsKept ==
  /\ Bounded(given) /\ Movable(given) /\ Bounded(relaxed) /\ SameVariables(given, relaxed)
  /\ Points(given, Halves) \subseteq Points(relaxed, Halves) /\ lp = Canonical(relaxed)
InRound ==
  /\ phase \notin {"resolve", "ready"} => relaxed = given
  /\ phase \in {"gomory", "mir", "filter"} => stage = "done" /\ answer.status = "optimal"
CutsKept == candidates \in Seq(GlobalCuts(given)) /\ cuts \in Seq(GlobalCuts(given))
CutInv == ModelsKept /\ InRound /\ CutsKept /\ SimplexInv /\ Concluded

\* Such a model has a column, and its canonical form is numbered.
LEMMA MovableNumbered ==
  ASSUME NEW p, WellFormed(p), Movable(p)
  PROVE  Numbered(Canonical(p))
<1>1. PICK j \in p.vars : ~ Fixes(p.lo[j], p.up[j])
  BY DEF Movable
<1>2. PICK C : C = ColsOf(p)
  OBVIOUS
<1>3. \E k \in DOMAIN C : TRUE
  BY <1>1, <1>2, PartsOfVariable
<1>4. PICK k : k \in DOMAIN C
  BY <1>3
<1>5. k \in Canonical(p).cols
  BY <1>2, <1>4 DEF Canonical
<1> QED
  BY <1>5, CanonicalNumbered

\* It is so with the cuts as well.
LEMMA SameMovable ==
  ASSUME NEW p, NEW q, SameVariables(p, q), Movable(p)
  PROVE  Movable(q)
BY DEF SameVariables, Movable

\* At the start.
LEMMA CutInvStarts ==
  ASSUME Suited, CutInit PROVE CutInv
<1>1. /\ given \in Programs /\ relaxed = given /\ phase = "root" /\ candidates = <<>> /\ cuts = <<>>
      /\ lp = Canonical(given) /\ answer = NoAnswer /\ stage = "start"
  BY DEF CutInit, SimplexIdle
<1>2. Bounded(given) /\ Movable(given)
  BY <1>1 DEF Suited
<1>3. Numbered(lp)
  BY <1>1, <1>2, MovableNumbered DEF Bounded, IsProgram
<1>4. SimplexInv
  BY <1>1, <1>3 DEF SimplexInv, NoAnswer, Alarms
<1>5. SameVariables(given, relaxed)
  BY <1>1 DEF SameVariables
<1>6. CutsKept
  BY <1>1 DEF CutsKept
<1> QED
  BY <1>1, <1>2, <1>4, <1>5, <1>6 DEF CutInv, ModelsKept, InRound, Concluded

\* A step of the simplex methods.
LEMMA SolvingKeeps ==
  ASSUME CutInv, Solving PROVE CutInv'
<1>1. stage # "done" /\ SimplexStep /\ SimplexInv
  BY DEF CutInv, Solving
<1>2. SimplexInv' /\ Concluded' /\ lp' = lp
  BY <1>1, SimplexKept, StepConcludes
<1>3. given' = given /\ relaxed' = relaxed /\ phase' = phase /\ candidates' = candidates /\ cuts' = cuts
  BY DEF Solving, cutVars
<1>4. ModelsKept'
  BY <1>2, <1>3 DEF CutInv, ModelsKept
<1>5. InRound'
  BY <1>1, <1>3 DEF CutInv, InRound
<1>6. CutsKept'
  BY <1>3 DEF CutInv, CutsKept
<1> QED
  BY <1>2, <1>4, <1>5, <1>6 DEF CutInv

\* A step of the round leaves the solved relaxation alone, until the cuts are
\* added.
LEMMA RoundKeeps ==
  ASSUME CutInv, UNCHANGED <<given, relaxed, simplexVars>>, CutsKept', InRound' PROVE CutInv'
<1>1. /\ given' = given /\ relaxed' = relaxed /\ UNCHANGED <<lp, workVars, stage, countVars, answer>>
  BY DEF simplexVars
<1>2. /\ lp' = lp /\ rowSign' = rowSign /\ left' = left /\ basis' = basis /\ factored' = factored
      /\ stage' = stage /\ step' = step /\ cleaned' = cleaned /\ answer' = answer
  BY <1>1 DEF workVars, countVars
<1>3. SimplexInv'
  BY <1>1, <1>2, SimplexRests DEF CutInv
<1>4. Concluded'
  BY <1>2, ConclusionRests DEF CutInv
<1>5. ModelsKept'
  BY <1>1, <1>2 DEF CutInv, ModelsKept
<1> QED
  BY <1>3, <1>4, <1>5 DEF CutInv

\* The relaxation has no optimum, or it gives the first bound.
LEMMA RootKeeps ==
  ASSUME CutInv, RelaxationFails \/ RootSolved \/ NothingToCut \/ Resolved PROVE CutInv'
<1>1. UNCHANGED <<given, relaxed, simplexVars>> /\ candidates' = candidates /\ cuts' = cuts
  BY DEF RelaxationFails, RootSolved, NothingToCut, Resolved
<1>2. CutsKept'
  BY <1>1 DEF CutInv, CutsKept
<1>3. given' = given /\ relaxed' = relaxed /\ stage' = stage /\ answer' = answer
  BY <1>1 DEF simplexVars
<1>4. \/ phase' = "ready"
      \/ phase' = "gomory" /\ phase = "root" /\ stage = "done" /\ answer.status = "optimal"
  BY DEF RelaxationFails, RootSolved, NothingToCut, Resolved
<1>5. InRound'
  BY <1>3, <1>4 DEF CutInv, InRound
<1> QED
  BY <1>1, <1>2, <1>5, RoundKeeps

\* Cuts are made.
LEMMA MakeKeeps ==
  ASSUME CutInv, NEW list \in Seq(GlobalCuts(given)), NEW next \in {"mir", "filter"},
         phase \in {"gomory", "mir"}, Make(list, next)
  PROVE  CutInv'
<1>1. /\ UNCHANGED <<given, relaxed, simplexVars>> /\ cuts' = cuts
      /\ candidates' = list \/ candidates' = <<>>
      /\ phase' \in {"gomory", "mir", "filter"}
  BY DEF Make
<1>2. given' = given /\ relaxed' = relaxed /\ stage' = stage /\ answer' = answer
  BY <1>1 DEF simplexVars
<1>3. PICK G : G = GlobalCuts(given)
  OBVIOUS
<1>4. <<>> \in Seq(G)
  OBVIOUS
<1>5. candidates' \in Seq(G) /\ cuts' \in Seq(G)
  BY <1>1, <1>3, <1>4 DEF CutInv, CutsKept
<1>6. CutsKept'
  BY <1>2, <1>3, <1>5 DEF CutsKept
<1>7. InRound'
  BY <1>1, <1>2 DEF CutInv, InRound
<1> QED
  BY <1>1, <1>6, <1>7, RoundKeeps

\* Gomory's generator and MIR's.
LEMMA GeneratorsKeep ==
  ASSUME CutInv, MakeGomory \/ MakeMir PROVE CutInv'
<1>1. phase \in {"gomory", "mir"}
  BY DEF MakeGomory, MakeMir
<1>2. relaxed = given /\ stage = "done" /\ answer.status = "optimal"
  BY <1>1 DEF CutInv, InRound
<1>3. PICK p : p = given
  OBVIOUS
<1>4. Relaxation(p)
  BY <1>2, <1>3 DEF CutInv, ModelsKept, Relaxation
<1>5. Settled /\ D \in Nat \ {0}
  BY <1>2 DEF CutInv, Concluded
<1>6. PICK f, g : f = AtMost(InOrder([a \in CutPositions |-> GomoryCut(a)])) /\ g = InOrder([a \in CutPositions |-> MirCuts(a)])
  OBVIOUS
<1>7. f \in Seq(GlobalCuts(p)) /\ g \in Seq(GlobalCuts(p))
  BY <1>4, <1>5, <1>6, GeneratedCuts
<1>8. f \in Seq(GlobalCuts(given)) /\ g \in Seq(GlobalCuts(given))
  BY <1>3, <1>7
<1>9. CASE MakeGomory
  <2>1. PICK n : n = IF EnableMir THEN "mir" ELSE "filter"
    OBVIOUS
  <2>2. n \in {"mir", "filter"}
    BY <2>1
  <2>3. Make(f, n)
    BY <1>6, <1>9, <2>1 DEF MakeGomory
  <2> QED
    BY <1>1, <1>8, <2>2, <2>3, MakeKeeps
<1>10. CASE MakeMir
  <2>1. Make(g, "filter")
    BY <1>6, <1>10 DEF MakeMir
  <2> QED
    BY <1>1, <1>8, <2>1, MakeKeeps
<1> QED
  BY <1>9, <1>10

\* Cuts are kept.
LEMMA KeepKeeps ==
  ASSUME CutInv, Keep PROVE CutInv'
<1>1. /\ UNCHANGED <<given, relaxed, simplexVars>> /\ phase \in {"gomory", "mir"} /\ phase' \in {"mir", "filter"}
      /\ cuts' = cuts \o FilterCuts(candidates) /\ candidates' = <<>>
  BY DEF Keep
<1>2. given' = given /\ relaxed' = relaxed /\ stage' = stage /\ answer' = answer
  BY <1>1 DEF simplexVars
<1>3. PICK G, f : G = GlobalCuts(given) /\ f = FilterCuts(candidates)
  OBVIOUS
<1>4. candidates \in Seq(G) /\ cuts \in Seq(G)
  BY <1>3 DEF CutInv, CutsKept
<1>5. f \in Seq(G)
  BY <1>3, <1>4, FilterInto
<1>6. cuts \o f \in Seq(G)
  BY <1>4, <1>5, ConcatProperties
<1>7. <<>> \in Seq(G)
  OBVIOUS
<1>8. CutsKept'
  BY <1>1, <1>2, <1>3, <1>6, <1>7 DEF CutsKept
<1>9. InRound'
  BY <1>1, <1>2 DEF CutInv, InRound
<1> QED
  BY <1>1, <1>8, <1>9, RoundKeeps

\* Cuts become rows.
LEMMA AddKeeps ==
  ASSUME CutInv, AddCuts PROVE CutInv'
<1>1. /\ given' = given /\ candidates' = candidates /\ phase = "filter" /\ phase' = "resolve"
      /\ cuts' = FilterCuts(cuts) /\ relaxed' = WithCuts(relaxed, cuts') /\ lp' = Canonical(relaxed')
      /\ stage' = "warm" /\ answer' = NoAnswer
  BY DEF AddCuts
<1>2. relaxed = given
  BY <1>1 DEF CutInv, InRound
<1>3. PICK p, list, q : p = given /\ list = FilterCuts(cuts) /\ q = WithCuts(p, list)
  OBVIOUS
<1>4. Bounded(p) /\ Movable(p) /\ cuts \in Seq(GlobalCuts(p)) /\ candidates \in Seq(GlobalCuts(p))
  BY <1>3 DEF CutInv, ModelsKept, CutsKept
<1>5. list \in Seq(GlobalCuts(p))
  BY <1>3, <1>4, FilterInto
<1>6. Bounded(q) /\ SameVariables(p, q)
  <2>1. q = WithCuts(p, list)
    BY <1>3
  <2> QED
    BY ONLY <1>4, <1>5, <2>1, WithCutsBounded
<1>7. \A x \in Points(p, Halves) : x \in Points(q, Halves)
  <2>1. q = WithCuts(p, list)
    BY <1>3
  <2> QED
    BY ONLY <1>4, <1>5, <2>1, WithCutsKeepsPoints
<1>8. Numbered(Canonical(q))
  BY <1>4, <1>6, SameMovable, MovableNumbered DEF Bounded, IsProgram
<1>9. given' = p /\ cuts' = list /\ relaxed' = q /\ lp' = Canonical(q)
  BY <1>1, <1>2, <1>3
<1>10. ModelsKept'
  BY <1>4, <1>6, <1>7, <1>9 DEF ModelsKept
<1>11. CutsKept'
  BY <1>1, <1>4, <1>5, <1>9 DEF CutsKept
<1>12. InRound'
  BY <1>1 DEF InRound
<1>13. SimplexInv'
  BY <1>1, <1>8, <1>9 DEF SimplexInv, NoAnswer, Alarms
<1>14. Concluded'
  BY <1>1, GoesOn
<1> QED
  BY <1>10, <1>11, <1>12, <1>13, <1>14 DEF CutInv

\* Nothing happens.
LEMMA CutStutterKeeps ==
  ASSUME CutInv, UNCHANGED vars PROVE CutInv'
<1>1. /\ UNCHANGED <<given, relaxed, simplexVars>> /\ candidates' = candidates /\ cuts' = cuts /\ phase' = phase
  BY DEF vars, cutVars
<1>2. given' = given /\ relaxed' = relaxed /\ stage' = stage /\ answer' = answer
  BY <1>1 DEF simplexVars
<1>3. CutsKept' /\ InRound'
  BY <1>1, <1>2 DEF CutInv, CutsKept, InRound
<1> QED
  BY <1>1, <1>3, RoundKeeps

\* Every step keeps it.
LEMMA CutInvKept ==
  ASSUME CutInv, [Next]_vars PROVE CutInv'
BY SolvingKeeps, RootKeeps, GeneratorsKeep, KeepKeeps, AddKeeps, CutStutterKeeps DEF Next

\* A point of the run is a point.
LEMMA SolutionIsPoint ==
  ASSUME NEW x \in Solutions PROVE x \in Points(given, Halves)
<1>1. x \in [given.vars -> Box] /\ Satisfies(Over(given, Halves), x)
  BY DEF Solutions
<1>2. Box \subseteq Int
  BY CutConstants
<1>3. x \in [given.vars -> Int]
  BY <1>1, <1>2
<1> QED
  BY <1>1, <1>3 DEF Points

\* The cuts it speaks of are valid.
LEMMA CutInvIsGlobal ==
  ASSUME CutInv PROVE CutsAreGlobal
<1> SUFFICES ASSUME NEW n \in DOMAIN cuts, NEW x \in Solutions PROVE Lhs(cuts[n], x) >= Halves * cuts[n].rhs
  BY DEF CutsAreGlobal
<1>1. PICK p : p = given
  OBVIOUS
<1>2. PICK list : list = cuts
  OBVIOUS
<1>3. list \in Seq(GlobalCuts(p))
  BY <1>1, <1>2 DEF CutInv, CutsKept
<1>4. list[n] \in GlobalCuts(p)
  BY <1>2, <1>3, LenProperties
<1>5. x \in Points(p, Halves)
  BY <1>1, SolutionIsPoint
<1> QED
  BY <1>2, <1>4, <1>5 DEF GlobalCuts

(***************************************************************************)
(* No cut of the root round cuts off a point of the model given, for every *)
(* set of models whose integer variables have a lower bound and which have *)
(* no free variable.                                                       *)
(***************************************************************************)
THEOREM RootCutsAreGlobal ==
  ASSUME Suited PROVE CutSpec => []CutsAreGlobal
<1>1. CutInit => CutInv
  BY CutInvStarts
<1>2. CutInv /\ [Next]_vars => CutInv'
  BY CutInvKept
<1>3. CutInv => CutsAreGlobal
  BY CutInvIsGlobal
<1> QED
  BY <1>1, <1>2, <1>3, PTL DEF CutSpec

-----------------------------------------------------------------------------
(***************************************************************************)
(* The value of an accepted optimum of the relaxation bounds the objective *)
(* of every point, when the model is to be minimised.                      *)
(***************************************************************************)
\* Multiplying out.
LEMMA BoundArithmetic ==
  ASSUME NEW c \in Int, NEW k \in Int, NEW z \in Int, NEW w \in Int, NEW d \in Int, NEW h \in Int,
         h * c <= d * (w - h * k)
  PROVE  (c + d * (k + z)) * h <= d * (w + h * z)
<1>1. PICK n \in Int : n = d * h
  OBVIOUS
<1>2. (c + d * (k + z)) * h = h * c + n * k + n * z
  <2>1. (d * (k + z)) * h = n * k + n * z
    BY <1>1
  <2> QED
    BY <1>1, <2>1
<1>3. d * (w - h * k) = d * w - n * k
  <2>1. d * (h * k) = n * k
    BY <1>1
  <2> QED
    BY <2>1
<1>4. d * (w + h * z) = d * w + n * z
  <2>1. d * (h * z) = n * z
    BY <1>1
  <2> QED
    BY <2>1
<1>5. d * w \in Int /\ n * k \in Int /\ n * z \in Int /\ h * c \in Int
  BY <1>1
<1>6. h * c <= d * w - n * k
  BY <1>3
<1> QED
  BY <1>2, <1>4, <1>5, <1>6

\* The constant of the canonical objective.
LEMMA OffsetOfCanonical ==
  ASSUME NEW p, WellFormed(p), p.sense = 1
  PROVE  /\ WeightedSum(p, CostWeights(p), Offsets(p)) \in Int /\ p.offset \in Int
         /\ Canonical(p).offset = WeightedSum(p, CostWeights(p), Offsets(p)) + p.offset
<1> DEFINE w == CostWeights(p)
           f == [j \in p.vars |-> w[j] * Offsets(p)[j]]
           g == [j \in p.vars |-> p.c[j] * Offset(p, j)]
<1>1. AllInt(w, p.vars) /\ AllInt(Offsets(p), p.vars) /\ p.offset \in Int /\ IsFiniteSet(p.vars)
  BY OffsetsType DEF WellFormed, CostWeights, AllInt
<1>2. WeightedSum(p, w, Offsets(p)) \in Int
  BY <1>1, WeightedSumType
<1>3. f = g
  <2>1. \A j \in p.vars : w[j] * Offsets(p)[j] = p.c[j] * Offset(p, j)
    BY DEF WellFormed, CostWeights, Offsets
  <2> QED
    BY <2>1
<1>4. AllInt(f, p.vars)
  BY <1>1 DEF AllInt
<1>5. Total(f, p.vars) \in Int
  <2> HIDE DEF f
  <2> QED
    BY <1>1, <1>4, TotalType
<1>6. WeightedSum(p, w, Offsets(p)) = Total(f, p.vars)
  BY DEF WeightedSum
<1>7. Canonical(p).offset = p.sense * Total(g, p.vars) + p.offset
  BY DEF Canonical
<1>8. PICK t \in Int : t = Total(f, p.vars)
  BY <1>5
<1>9. Total(g, p.vars) = t
  BY <1>3, <1>8, Zenon
<1>10. Canonical(p).offset = t + p.offset
  BY <1>1, <1>7, <1>9
<1> QED
  BY <1>1, <1>2, <1>6, <1>8, <1>10

\* The value of an optimum accepted, over d, against a point over h.
LEMMA ValueIsLeast ==
  ASSUME NEW p, Bounded(p), p.sense = 1, NEW m, m = Canonical(p), NEW h \in Nat \ {0}, NEW d \in Nat \ {0},
         NEW u, NEW y, OptimalWitness(Scaled(m, d), u, y), NEW x \in Points(p, h)
  PROVE  /\ CostOf(m, u) + d * m.offset \in Int
         /\ (CostOf(m, u) + d * m.offset) * h <= d * Objective(Over(p, h), x)
<1> DEFINE w == CostWeights(p)
<1>1. IsProgram(p) /\ WellFormed(p)
  BY DEF Bounded, IsProgram
<1>2. LinearModel(m) /\ ModelRecord(m) /\ m.rows = DOMAIN RowsOf(p) /\ m.cols = DOMAIN ColsOf(p) /\ m.offset \in Int
  BY <1>1, CanonicalFields
<1>3. PICK g : g = ColumnPoint(p, h, x)
  OBVIOUS
<1>4. /\ AllInt(g, DOMAIN ColsOf(p)) /\ \A k \in DOMAIN ColsOf(p) : g[k] >= 0
      /\ \A i \in DOMAIN RowsOf(p) : RowValue(Canonical(p), i, g) = h * Canonical(p).b[i]
      /\ \A j \in p.vars : x[j] = Reconstruct(p, g, h)[j]
  BY <1>1, <1>3, ColumnPointMeaning
<1>5. ColumnVector(m, g) /\ Nonnegative(m, g) /\ \A i \in m.rows : RowValue(m, i, g) = h * m.b[i]
  BY <1>2, <1>4, Zenon DEF ColumnVector, Nonnegative
<1>6. h * CostOf(m, u) <= d * CostOf(m, g)
  BY ONLY <1>2, <1>5, OptimalWitness(Scaled(m, d), u, y), h \in Nat \ {0}, d \in Nat \ {0}, AcceptedOptimumIsLeast
<1>7. h \in Int /\ d \in Int
  OBVIOUS
<1>8. CostOf(m, g) = WeightedSum(p, w, Reconstruct(p, g, h)) - h * WeightedSum(p, w, Offsets(p))
  <2>1. CostOf(Canonical(p), g) = WeightedSum(p, w, Reconstruct(p, g, h)) - h * WeightedSum(p, w, Offsets(p))
    BY <1>1, <1>4, <1>7, CostMeaning
  <2> QED
    BY <2>1
<1>9. WeightedSum(p, w, Reconstruct(p, g, h)) = WeightedSum(p, w, x)
  <2>1. [j \in p.vars |-> w[j] * Reconstruct(p, g, h)[j]] = [j \in p.vars |-> w[j] * x[j]]
    <3> HIDE DEF w
    <3> QED
      BY <1>4
  <2> QED
    BY <2>1, Zenon DEF WeightedSum
<1>10. AllInt(x, p.vars) /\ AllInt(w, p.vars)
  <2>1. AllInt(x, p.vars)
    BY <1>1, PointInBounds
  <2> QED
    BY <1>1, <2>1 DEF WellFormed, CostWeights, AllInt
<1>11. WeightedSum(p, w, x) \in Int
  BY <1>1, <1>10, WeightedSumType
<1>12. /\ WeightedSum(p, w, Offsets(p)) \in Int /\ p.offset \in Int
       /\ m.offset = WeightedSum(p, w, Offsets(p)) + p.offset
  BY <1>1, OffsetOfCanonical
<1>13. Objective(Over(p, h), x) = WeightedSum(p, w, x) + h * p.offset
  <2>1. /\ Objective(Over(p, h), x) \in Int
        /\ p.sense * Objective(Over(p, h), x) = WeightedSum(p, w, x) + h * (p.sense * p.offset)
    BY <1>1, <1>7, <1>10, ObjectiveMeaning
  <2>2. PICK o \in Int : o = Objective(Over(p, h), x)
    BY <2>1
  <2>3. PICK s, z : s = p.sense /\ z = p.offset
    OBVIOUS
  <2>4. s * o = WeightedSum(p, w, x) + h * (s * z) /\ s = 1 /\ z \in Int
    BY <1>12, <2>1, <2>2, <2>3
  <2>5. PICK v \in Int : v = WeightedSum(p, w, x)
    BY <1>11
  <2>6. o = v + h * z
    BY <2>4, <2>5
  <2> QED
    BY <2>2, <2>3, <2>5, <2>6
<1>14. CostOf(m, u) \in Int
  <2>1. Scaled(m, d).cols = m.cols
    BY <1>2, <1>7, ScaledFields
  <2>2. ColumnVector(m, u)
    BY <2>1 DEF OptimalWitness, ForColumns, ColumnVector, AllInt
  <2>3. IsFiniteSet(m.cols) /\ \A j \in m.cols : m.c[j] \in Int /\ u[j] \in Int
    BY <1>2, <2>2 DEF LinearModel, ColumnVector, AllInt
  <2>4. PICK f : f = [j \in m.cols |-> m.c[j] * u[j]]
    OBVIOUS
  <2>5. AllInt(f, m.cols)
    BY <2>3, <2>4 DEF AllInt
  <2>6. Total(f, m.cols) \in Int
    BY <2>3, <2>5, TotalType
  <2> QED
    BY <2>4, <2>6 DEF CostOf
<1>15. PICK c, k, z, v : /\ c = CostOf(m, u) /\ k = WeightedSum(p, w, Offsets(p)) /\ z = p.offset
                         /\ v = WeightedSum(p, w, x)
  OBVIOUS
<1>16. c \in Int /\ k \in Int /\ z \in Int /\ v \in Int
  BY <1>11, <1>12, <1>14, <1>15
<1>17. h * c <= d * (v - h * k)
  <2>1. CostOf(m, g) = v - h * k
    BY <1>8, <1>9, <1>15, Zenon
  <2> QED
    BY <1>6, <1>15, <2>1, Zenon
<1>18. (c + d * (k + z)) * h <= d * (v + h * z)
  BY ONLY <1>7, <1>16, <1>17, BoundArithmetic
<1>19. m.offset = k + z /\ Objective(Over(p, h), x) = v + h * z /\ CostOf(m, u) = c
  BY <1>12, <1>13, <1>15, Zenon
<1>20. c + d * (k + z) \in Int
  BY <1>7, <1>16
<1> QED
  BY <1>18, <1>19, <1>20, Zenon

\* The objective is the same for the model with the cuts.
LEMMA SameObjective ==
  ASSUME NEW p, NEW q, IsProgram(p), IsProgram(q), SameVariables(p, q), NEW h \in Nat \ {0}, NEW x
  PROVE  Objective(Over(q, h), x) = Objective(Over(p, h), x)
<1>1. PICK o, u : o = Over(p, h) /\ u = Over(q, h)
  OBVIOUS
<1>2. o.vars = p.vars /\ o.c = p.c /\ o.offset = h * p.offset
  BY <1>1, OverFields
<1>3. u.vars = q.vars /\ u.c = q.c /\ u.offset = h * q.offset
  BY <1>1, OverFields
<1>4. u.vars = o.vars /\ u.c = o.c /\ u.offset = o.offset
  BY <1>2, <1>3 DEF SameVariables
<1>5. Objective(u, x) = Objective(o, x)
  BY <1>4, Zenon DEF Objective
<1> QED
  BY <1>1, <1>5

-----------------------------------------------------------------------------
\* The bound holds for the points of the model given.
BoundsPoints(n, d, p) ==
  /\ n \in Int /\ d \in Nat \ {0}
  /\ \A x \in Points(p, Halves) : n * Halves <= d * Objective(Over(p, Halves), x)
BoundKept == given.sense = 1 /\ (bound.known => BoundsPoints(bound.num, bound.den, given))
Minimised == \A p \in Programs : p.sense = 1

\* The value of a relaxation solved is such a bound.
LEMMA ValueBounds ==
  ASSUME CutInv, stage = "done", answer.status = "optimal", given.sense = 1
  PROVE  BoundsPoints(Value, D, given)
<1>1. PICK p, q, m, h, d, u, y : /\ p = given /\ q = relaxed /\ m = lp /\ h = Halves /\ d = D
                                 /\ u = answer.primal /\ y = answer.dual
  OBVIOUS
<1>2. /\ Bounded(p) /\ Bounded(q) /\ SameVariables(p, q) /\ m = Canonical(q)
      /\ \A x \in Points(p, h) : x \in Points(q, h)
  BY <1>1 DEF CutInv, ModelsKept
<1>3. d \in Nat \ {0} /\ OptimalWitness(Scaled(m, d), u, y)
  BY <1>1 DEF CutInv, Concluded
<1>4. h \in Nat \ {0}
  BY <1>1, CutConstants
<1>5. q.sense = 1
  BY <1>1, <1>2 DEF SameVariables
<1>6. PICK v : v = CostOf(m, u) + d * m.offset
  OBVIOUS
<1>7. Value = v
  BY <1>1, <1>6, Zenon DEF Value
<1>8. v \in Int
  <2>1. WellFormed(q)
    BY <1>2 DEF Bounded, IsProgram
  <2>2. LinearModel(m) /\ ModelRecord(m) /\ m.offset \in Int
    BY <1>2, <2>1, CanonicalFields
  <2>3. Scaled(m, d).cols = m.cols
    BY <1>3, <2>2, ScaledFields
  <2>4. IsFiniteSet(m.cols) /\ \A j \in m.cols : m.c[j] \in Int /\ u[j] \in Int
    BY <1>3, <2>2, <2>3 DEF LinearModel, OptimalWitness, ForColumns
  <2>5. PICK f : f = [j \in m.cols |-> m.c[j] * u[j]]
    OBVIOUS
  <2>6. AllInt(f, m.cols)
    BY <2>4, <2>5 DEF AllInt
  <2>7. Total(f, m.cols) \in Int
    BY <2>4, <2>6, TotalType
  <2>8. CostOf(m, u) \in Int
    BY <2>5, <2>7 DEF CostOf
  <2> QED
    BY <1>3, <1>6, <2>2, <2>8
<1>9. ASSUME NEW x \in Points(p, h) PROVE v * h <= d * Objective(Over(p, h), x)
  <2>1. x \in Points(q, h)
    BY <1>2
  <2>2. (CostOf(m, u) + d * m.offset) * h <= d * Objective(Over(q, h), x)
    BY ONLY <1>2, <1>3, <1>4, <1>5, <2>1, ValueIsLeast
  <2>3. Objective(Over(q, h), x) = Objective(Over(p, h), x)
    BY <1>2, <1>4, SameObjective DEF Bounded
  <2> QED
    BY <1>6, <2>2, <2>3, Zenon
<1>10. BoundsPoints(v, d, p)
  BY <1>1, <1>3, <1>8, <1>9 DEF BoundsPoints
<1> QED
  BY <1>1, <1>7, <1>10, Zenon

\* Every step keeps the bound.
LEMMA BoundKeeps ==
  ASSUME CutInv, BoundKept, [Next]_vars PROVE BoundKept'
<1>1. given' = given
  BY DEF Next, Solving, RelaxationFails, RootSolved, MakeGomory, MakeMir, Make, Keep, NothingToCut, AddCuts, Resolved,
         vars, cutVars
<1>2. PICK p : p = given
  OBVIOUS
<1>3. CASE RootSolved \/ Resolved
  <2>1. \/ bound' = bound
        \/ /\ stage = "done" /\ answer.status = "optimal"
           /\ bound' = [known |-> TRUE, num |-> Value, den |-> D]
    BY <1>3 DEF RootSolved, Resolved
  <2>2. CASE bound' = bound
    BY <1>1, <2>2 DEF BoundKept
  <2>3. CASE /\ stage = "done" /\ answer.status = "optimal"
             /\ bound' = [known |-> TRUE, num |-> Value, den |-> D]
    <3>1. BoundsPoints(Value, D, given)
      BY <2>3, ValueBounds DEF BoundKept
    <3>2. bound'.num = Value /\ bound'.den = D
      BY <2>3
    <3>3. BoundsPoints(bound'.num, bound'.den, given')
      BY <1>1, <3>1, <3>2, Zenon
    <3> QED
      BY <1>1, <3>3 DEF BoundKept
  <2> QED
    BY <2>1, <2>2, <2>3
<1>4. CASE ~ (RootSolved \/ Resolved)
  <2>1. bound' = bound
    BY <1>4 DEF Next, Solving, RelaxationFails, MakeGomory, MakeMir, Make, Keep, NothingToCut, AddCuts, vars, cutVars
  <2> QED
    BY <1>1, <2>1 DEF BoundKept
<1> QED
  BY <1>3, <1>4

(***************************************************************************)
(* The bound the tree search starts from holds for every point of the      *)
(* model given, before and after the cuts, for every set of models to be   *)
(* minimised that meet the same conditions.                                *)
(***************************************************************************)
THEOREM RootBoundHolds ==
  ASSUME Suited, Minimised PROVE CutSpec => []RootBoundIsValid
<1>1. CutInit => CutInv /\ BoundKept
  <2>1. CutInit => BoundKept
    BY DEF CutInit, NoBoundYet, BoundKept, Minimised
  <2> QED
    BY <2>1, CutInvStarts
<1>2. CutInv /\ BoundKept /\ [Next]_vars => CutInv' /\ BoundKept'
  BY CutInvKept, BoundKeeps
<1>3. CutInv /\ BoundKept => RootBoundIsValid
  BY SolutionIsPoint DEF BoundKept, BoundsPoints, RootBoundIsValid
<1> QED
  BY <1>1, <1>2, <1>3, PTL DEF CutSpec

(***************************************************************************)
(* Both solves of the round keep to the rules of the simplex methods: the  *)
(* bases are feasible for the primal method and dual feasible for the dual *)
(* one, also from the basis of the relaxation without the cuts, and the    *)
(* verifier accepts what they find.                                        *)
(***************************************************************************)
THEOREM RoundMethodsSound ==
  ASSUME Suited PROVE CutSpec => [](KeepsPrimalFeasible /\ KeepsDualFeasible /\ WitnessAccepted)
<1>1. CutInit => CutInv
  BY CutInvStarts
<1>2. CutInv /\ [Next]_vars => CutInv'
  BY CutInvKept
<1>3. CutInv => KeepsPrimalFeasible /\ KeepsDualFeasible /\ WitnessAccepted
  BY InvariantsFollow DEF CutInv
<1> QED
  BY <1>1, <1>2, <1>3, PTL DEF CutSpec
=============================================================================
