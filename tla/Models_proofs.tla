---------------------------- MODULE Models_proofs ---------------------------
(***************************************************************************)
(* Linear and canonical models and the bases of the simplex methods, for   *)
(* every model and every size.                                             *)
(*                                                                         *)
(* First what the witnesses of a canonical model prove: weak duality, from *)
(* which an accepted optimum is a least one, and the meaning of a Farkas   *)
(* vector and of a ray.  Then canonicalization: the rows and columns are   *)
(* enumerated without repetition, a row of the canonical model says of its *)
(* columns what the row given says of the variables they stand for, every  *)
(* point of the model has a canonical point that comes back to it, and an  *)
(* answer cheaper than all canonical points maps back to one no worse than *)
(* any point.                                                              *)
(*                                                                         *)
(* Then square systems and bases.  The determinant by cofactors expands    *)
(* along any row and column, so Solution solves its system; a pivot        *)
(* changes solutions by the rule of the tableau; and what a basis gives in *)
(* the end, an optimum, a Farkas vector or a ray, is a witness the         *)
(* verifier accepts, however many redundant rows were dropped.             *)
(*                                                                         *)
(* Last, the invariant of the simplex methods: whatever they are given,    *)
(* they hold the kind of basis their stage asks for.                       *)
(*                                                                         *)
(* The sums are finite folds; what they satisfy is proved by induction     *)
(* over finite sets, in the form of a least counterexample, as the order   *)
(* of strict subsets is well founded.                                      *)
(***************************************************************************)
EXTENDS DualSimplex, Canonicalize, FiniteSetTheorems, SequenceTheorems, TLAPS

\* A nonempty family of subsets of a finite set has a minimal member.
LEMMA LeastSet ==
  ASSUME NEW S, IsFiniteSet(S), NEW T, T \subseteq SUBSET S, T # {}
  PROVE  \E A \in T : \A B \in T : B \subseteq A => B = A
<1>1. IsWellFoundedOn(StrictSubsetOrdering(S), FiniteSubsetsOf(S))
  BY FS_StrictSubsetOrderingWellFounded
<1>2. FiniteSubsetsOf(S) = SUBSET S
  BY FS_FiniteSubsetsOfFinite
<1>3. \E A \in T : \A B \in T : ~ (<<B, A>> \in StrictSubsetOrdering(S))
  BY <1>1, <1>2, WFMin
<1> QED
  BY <1>3 DEF StrictSubsetOrdering

\* Induction over the subsets of a finite set, as a statement about a family
\* of sets: what holds of the empty set and survives one more member holds of
\* the set.
LEMMA SetInduction ==
  ASSUME NEW S, IsFiniteSet(S), NEW G, {} \in G,
         \A A \in SUBSET S, x \in S : A \in G /\ x \notin A => A \union {x} \in G
  PROVE  S \in G
<1> DEFINE T == {A \in SUBSET S : A \notin G}
<1> SUFFICES ASSUME S \notin G PROVE FALSE
  OBVIOUS
<1>1. PICK A \in T : \A B \in T : B \subseteq A => B = A
  <2>1. S \in T /\ T \subseteq SUBSET S
    OBVIOUS
  <2> HIDE DEF T
  <2> QED
    BY <2>1, LeastSet
<1>2. PICK x \in A : TRUE
  BY <1>1
<1>3. A \ {x} \in G
  BY <1>1, <1>2
<1>4. (A \ {x}) \union {x} = A
  BY <1>2
<1> QED
  BY <1>1, <1>2, <1>3, <1>4

\* Induction over the naturals, as a statement about a set of numbers.
LEMMA NatSetInduction ==
  ASSUME NEW G, 0 \in G, \A n \in Nat : n \in G => n + 1 \in G
  PROVE  \A n \in Nat : n \in G
<1> DEFINE T == {n \in Nat : n \notin G}
<1> SUFFICES ASSUME T # {} PROVE FALSE
  OBVIOUS
<1>1. PICK n \in T : \A m \in T : ~ (<<m, n>> \in OpToRel(<, Nat))
  <2>1. T \subseteq Nat
    OBVIOUS
  <2> HIDE DEF T
  <2> QED
    BY <2>1, NatLessThanWellFounded, WFMin
<1>2. \A m \in T : ~ (m < n)
  BY <1>1 DEF OpToRel
<1>3. n # 0 /\ n \in Nat
  OBVIOUS
<1>4. n - 1 \in Nat /\ n - 1 < n /\ (n - 1) + 1 = n
  BY <1>3
<1> QED
  BY <1>2, <1>4

-----------------------------------------------------------------------------
Chosen(s) == CHOOSE x \in s : TRUE
Accumulates(f, D, g) == g = [s \in D |-> IF s = {} THEN 0 ELSE f[Chosen(s)] + g[s \ {Chosen(s)}]]

\* Total as the library folds it: the function that a recursion over subsets
\* defines, applied to the set.
LEMMA TotalUnfolds ==
  ASSUME NEW f, NEW S
  PROVE  Total(f, S) = (CHOOSE g : Accumulates(f, SUBSET S, g))[S]
  BY DEF Total, FoldFunctionOnSet, MapThenFoldSet, Accumulates, Chosen

UpTo(S, n) == {s \in SUBSET S : Cardinality(s) <= n}

\* That function exists on the subsets of a finite set ...
LEMMA IterateExists ==
  ASSUME NEW f, NEW S, IsFiniteSet(S)
  PROVE  \E g : Accumulates(f, SUBSET S, g)
<1> DEFINE G == {n \in Nat : \E g : Accumulates(f, UpTo(S, n), g)}
<1>0. \A s \in SUBSET S : IsFiniteSet(s) /\ Cardinality(s) \in Nat /\ Cardinality(s) <= Cardinality(S)
  BY FS_Subset, FS_CardinalityType
<1>1. 0 \in G
  <2> DEFINE g == [s \in UpTo(S, 0) |-> 0]
  <2>1. \A s \in UpTo(S, 0) : s = {}
    BY <1>0, FS_EmptySet DEF UpTo
  <2>2. Accumulates(f, UpTo(S, 0), g)
    BY <2>1 DEF Accumulates
  <2> QED
    BY <2>2
<1>2. ASSUME NEW n \in Nat, n \in G PROVE n + 1 \in G
  <2>1. PICK g : Accumulates(f, UpTo(S, n), g)
    BY <1>2
  <2> DEFINE h == [s \in UpTo(S, n + 1) |-> IF s = {} THEN 0 ELSE f[Chosen(s)] + g[s \ {Chosen(s)}]]
  <2>2. ASSUME NEW s \in UpTo(S, n + 1), s # {} PROVE s \ {Chosen(s)} \in UpTo(S, n)
    <3>1. Chosen(s) \in s
      BY <2>2 DEF Chosen
    <3>2. Cardinality(s \ {Chosen(s)}) = Cardinality(s) - 1
      BY <3>1, <1>0, FS_RemoveElement DEF UpTo
    <3> QED
      BY <3>2, <1>0 DEF UpTo
  <2>3. ASSUME NEW s \in UpTo(S, n) PROVE s \in UpTo(S, n + 1) /\ g[s] = h[s]
    <3>1. s \in UpTo(S, n + 1)
      BY <1>0 DEF UpTo
    <3> QED
      BY <3>1, <2>1, Zenon DEF Accumulates
  <2>4. h = [s \in UpTo(S, n + 1) |-> IF s = {} THEN 0 ELSE f[Chosen(s)] + h[s \ {Chosen(s)}]]
    BY <2>2, <2>3
  <2>5. Accumulates(f, UpTo(S, n + 1), h)
    BY <2>4, Zenon DEF Accumulates
  <2> QED
    BY <2>5
<1>3. Cardinality(S) \in G
  <2> HIDE DEF G
  <2> QED
    BY <1>1, <1>2, NatSetInduction, FS_CardinalityType
<1>4. UpTo(S, Cardinality(S)) = SUBSET S
  BY <1>0 DEF UpTo
<1> QED
  BY <1>3, <1>4

\* ... and all of them agree where they overlap,
LEMMA IterateUnique ==
  ASSUME NEW f, NEW S, IsFiniteSet(S), NEW A \in SUBSET S, NEW g, NEW h,
         Accumulates(f, SUBSET S, g), Accumulates(f, SUBSET A, h)
  PROVE  \A s \in SUBSET A : g[s] = h[s]
<1> DEFINE T == {s \in SUBSET A : g[s] # h[s]}
<1> SUFFICES ASSUME T # {} PROVE FALSE
  OBVIOUS
<1>1. PICK s \in T : \A r \in T : r \subseteq s => r = s
  <2>1. IsFiniteSet(A) /\ T \subseteq SUBSET A
    BY FS_Subset
  <2> HIDE DEF T
  <2> QED
    BY <2>1, LeastSet
<1>2. /\ g[s] = IF s = {} THEN 0 ELSE f[Chosen(s)] + g[s \ {Chosen(s)}]
      /\ h[s] = IF s = {} THEN 0 ELSE f[Chosen(s)] + h[s \ {Chosen(s)}]
  <2>1. s \in SUBSET A /\ s \in SUBSET S
    OBVIOUS
  <2> QED
    BY <2>1, Zenon DEF Accumulates
<1>3. s # {}
  BY <1>1, <1>2
<1>4. Chosen(s) \in s
  BY <1>3 DEF Chosen
<1>5. g[s \ {Chosen(s)}] = h[s \ {Chosen(s)}]
  BY <1>1, <1>4
<1> QED
  BY <1>1, <1>2, <1>3, <1>5

\* so that Total is the value of any of them.
LEMMA TotalAccumulates ==
  ASSUME NEW f, NEW S, IsFiniteSet(S), NEW g, Accumulates(f, SUBSET S, g), NEW A \in SUBSET S
  PROVE  Total(f, A) = g[A]
<1> DEFINE h == CHOOSE h : Accumulates(f, SUBSET A, h)
<1>1. IsFiniteSet(A)
  BY FS_Subset
<1>2. Accumulates(f, SUBSET A, h)
  BY <1>1, IterateExists
<1>3. Total(f, A) = h[A]
  BY TotalUnfolds
<1> HIDE DEF h
<1> QED
  BY <1>2, <1>3, IterateUnique

\* The sum of nothing is zero.
LEMMA TotalEmpty ==
  ASSUME NEW f PROVE Total(f, {}) = 0
<1>1. IsFiniteSet({})
  BY FS_EmptySet
<1> DEFINE g == CHOOSE h : Accumulates(f, SUBSET {}, h)
<1>2. Accumulates(f, SUBSET {}, g)
  BY <1>1, IterateExists
<1>3. Total(f, {}) = g[{}]
  BY TotalUnfolds, Zenon
<1> HIDE DEF g
<1>4. g[{}] = 0
  BY <1>2, Zenon DEF Accumulates
<1> QED
  BY <1>3, <1>4, Zenon

\* A sum is the term chosen first and the sum of the others.
LEMMA TotalChosen ==
  ASSUME NEW f, NEW S, IsFiniteSet(S), S # {}
  PROVE  Total(f, S) = f[Chosen(S)] + Total(f, S \ {Chosen(S)})
<1>1. PICK g : Accumulates(f, SUBSET S, g)
  BY IterateExists
<1>2. g[S] = f[Chosen(S)] + g[S \ {Chosen(S)}]
  BY <1>1, Zenon DEF Accumulates
<1> QED
  BY <1>1, <1>2, TotalAccumulates

AllInt(f, S) == \A x \in S : f[x] \in Int

\* A sum of integers is an integer.
LEMMA TotalType ==
  ASSUME NEW f, NEW S, IsFiniteSet(S), AllInt(f, S)
  PROVE  Total(f, S) \in Int
<1> DEFINE T == {A \in SUBSET S : Total(f, A) \notin Int}
<1> SUFFICES ASSUME T # {} PROVE FALSE
  OBVIOUS
<1>1. PICK A \in T : \A B \in T : B \subseteq A => B = A
  <2> HIDE DEF T
  <2>1. T \subseteq SUBSET S
    BY DEF T
  <2> QED
    BY <2>1, LeastSet
<1>2. A # {}
  <2>1. Total(f, {}) \in Int
    BY TotalEmpty
  <2> QED
    BY <2>1
<1>3. IsFiniteSet(A) /\ Chosen(A) \in A
  BY <1>2, FS_Subset DEF Chosen
<1>4. Total(f, A \ {Chosen(A)}) \in Int
  BY <1>1, <1>3
<1>5. f[Chosen(A)] \in Int
  BY <1>3 DEF AllInt
<1> QED
  BY <1>1, <1>2, <1>3, <1>4, <1>5, TotalChosen

\* Any one term may be taken out first, whichever the fold chooses.
LEMMA TotalRemove ==
  ASSUME NEW f, NEW S, IsFiniteSet(S), AllInt(f, S), NEW x \in S
  PROVE  Total(f, S) = f[x] + Total(f, S \ {x})
<1> DEFINE T == {A \in SUBSET S : \E z \in A : Total(f, A) # f[z] + Total(f, A \ {z})}
<1> SUFFICES ASSUME T # {} PROVE FALSE
  OBVIOUS
<1>1. PICK A \in T : \A B \in T : B \subseteq A => B = A
  <2> HIDE DEF T
  <2>1. T \subseteq SUBSET S
    BY DEF T
  <2> QED
    BY <2>1, LeastSet
<1>2. PICK z \in A : Total(f, A) # f[z] + Total(f, A \ {z})
  BY <1>1
<1> DEFINE y == Chosen(A)
<1>3. IsFiniteSet(A) /\ y \in A
  BY FS_Subset DEF Chosen
<1>4. Total(f, A) = f[y] + Total(f, A \ {y})
  BY <1>2, <1>3, TotalChosen
<1> HIDE DEF y
<1>5. y # z
  BY <1>2, <1>4
<1>6. Total(f, A \ {y}) = f[z] + Total(f, (A \ {y}) \ {z})
  <2>1. A \ {y} \notin T
    BY <1>1, <1>2, <1>3
  <2>2. A \ {y} \in SUBSET S /\ z \in A \ {y}
    BY <1>2, <1>3, <1>5
  <2> QED
    BY <2>1, <2>2
<1>7. Total(f, A \ {z}) = f[y] + Total(f, (A \ {z}) \ {y})
  <2>1. A \ {z} \notin T
    BY <1>1, <1>2, <1>3
  <2>2. A \ {z} \in SUBSET S /\ y \in A \ {z}
    BY <1>2, <1>3, <1>5
  <2> QED
    BY <2>1, <2>2
<1>8. (A \ {z}) \ {y} = (A \ {y}) \ {z}
  OBVIOUS
<1>9. f[y] \in Int /\ f[z] \in Int /\ Total(f, (A \ {y}) \ {z}) \in Int
  <2>1. IsFiniteSet((A \ {y}) \ {z}) /\ AllInt(f, (A \ {y}) \ {z})
    BY <1>3, FS_RemoveElement DEF AllInt
  <2> QED
    BY <2>1, <1>2, <1>3, TotalType DEF AllInt
<1>10. Total(f, A \ {z}) = f[y] + Total(f, (A \ {y}) \ {z})
  BY <1>7, <1>8, Zenon
<1> HIDE DEF T
<1> QED
  BY <1>2, <1>4, <1>6, <1>9, <1>10

\* A term is added to a sum.
LEMMA TotalInsert ==
  ASSUME NEW f, NEW S, IsFiniteSet(S), NEW x, x \notin S, AllInt(f, S \union {x})
  PROVE  Total(f, S \union {x}) = f[x] + Total(f, S)
<1>1. IsFiniteSet(S \union {x})
  BY FS_AddElement
<1>2. (S \union {x}) \ {x} = S
  OBVIOUS
<1> QED
  BY <1>1, <1>2, TotalRemove

-----------------------------------------------------------------------------
\* Equal terms have equal sums.
LEMMA TotalEqual ==
  ASSUME NEW f, NEW g, NEW S, IsFiniteSet(S), AllInt(f, S), \A x \in S : f[x] = g[x]
  PROVE  Total(f, S) = Total(g, S)
<1> DEFINE G == {A \in SUBSET S : Total(f, A) = Total(g, A)}
<1>1. {} \in G
  BY TotalEmpty
<1>2. ASSUME NEW A \in SUBSET S, NEW x \in S, A \in G, x \notin A PROVE A \union {x} \in G
  <2>1. IsFiniteSet(A) /\ AllInt(f, A \union {x}) /\ AllInt(g, A \union {x})
    BY FS_Subset DEF AllInt
  <2>2. /\ Total(f, A \union {x}) = f[x] + Total(f, A)
        /\ Total(g, A \union {x}) = g[x] + Total(g, A)
    BY <1>2, <2>1, TotalInsert
  <2> QED
    BY <1>2, <2>2
<1>3. S \in G
  <2> HIDE DEF G
  <2> QED
    BY <1>1, <1>2, SetInduction
<1> QED
  BY <1>3

\* The sum of sums, term by term.
LEMMA TotalSum ==
  ASSUME NEW f, NEW g, NEW h, NEW S, IsFiniteSet(S), AllInt(f, S), AllInt(g, S),
         \A x \in S : h[x] = f[x] + g[x]
  PROVE  Total(h, S) = Total(f, S) + Total(g, S)
<1> DEFINE G == {A \in SUBSET S : Total(h, A) = Total(f, A) + Total(g, A)}
<1>1. {} \in G
  BY TotalEmpty
<1>2. ASSUME NEW A \in SUBSET S, NEW x \in S, A \in G, x \notin A PROVE A \union {x} \in G
  <2>1. /\ IsFiniteSet(A) /\ AllInt(h, A \union {x})
        /\ AllInt(f, A \union {x}) /\ AllInt(g, A \union {x})
        /\ AllInt(f, A) /\ AllInt(g, A)
    BY FS_Subset DEF AllInt
  <2>2. /\ Total(f, A \union {x}) = f[x] + Total(f, A)
        /\ Total(g, A \union {x}) = g[x] + Total(g, A)
        /\ Total(h, A \union {x}) = h[x] + Total(h, A)
    BY <1>2, <2>1, TotalInsert
  <2>3. f[x] \in Int /\ g[x] \in Int /\ Total(f, A) \in Int /\ Total(g, A) \in Int
    BY <2>1, TotalType DEF AllInt
  <2> QED
    BY <1>2, <2>2, <2>3
<1>3. S \in G
  <2> HIDE DEF G
  <2> QED
    BY <1>1, <1>2, SetInduction
<1> QED
  BY <1>3

\* A factor common to all terms is a factor of the sum.
LEMMA TotalMultiple ==
  ASSUME NEW f, NEW h, NEW k \in Int, NEW S, IsFiniteSet(S), AllInt(f, S),
         \A x \in S : h[x] = k * f[x]
  PROVE  Total(h, S) = k * Total(f, S)
<1> DEFINE G == {A \in SUBSET S : Total(h, A) = k * Total(f, A)}
<1>1. {} \in G
  BY TotalEmpty
<1>2. ASSUME NEW A \in SUBSET S, NEW x \in S, A \in G, x \notin A PROVE A \union {x} \in G
  <2>1. /\ IsFiniteSet(A) /\ AllInt(h, A \union {x})
        /\ AllInt(f, A \union {x}) /\ AllInt(f, A)
    BY FS_Subset DEF AllInt
  <2>2. /\ Total(f, A \union {x}) = f[x] + Total(f, A)
        /\ Total(h, A \union {x}) = h[x] + Total(h, A)
    BY <1>2, <2>1, TotalInsert
  <2>3. f[x] \in Int /\ Total(f, A) \in Int
    BY <2>1, TotalType DEF AllInt
  <2>4. h[x] = k * f[x] /\ Total(h, A) = k * Total(f, A)
    BY <1>2
  <2>5. k * (f[x] + Total(f, A)) = k * f[x] + k * Total(f, A)
    BY <2>3
  <2> QED
    BY <2>2, <2>4, <2>5
<1>3. S \in G
  <2> HIDE DEF G
  <2> QED
    BY <1>1, <1>2, SetInduction
<1> QED
  BY <1>3

\* Larger terms have a larger sum.
LEMMA TotalMonotone ==
  ASSUME NEW f, NEW g, NEW S, IsFiniteSet(S), AllInt(f, S), AllInt(g, S),
         \A x \in S : f[x] <= g[x]
  PROVE  Total(f, S) <= Total(g, S)
<1> DEFINE G == {A \in SUBSET S : Total(f, A) <= Total(g, A)}
<1>1. {} \in G
  BY TotalEmpty
<1>2. ASSUME NEW A \in SUBSET S, NEW x \in S, A \in G, x \notin A PROVE A \union {x} \in G
  <2>1. /\ IsFiniteSet(A)
        /\ AllInt(f, A \union {x}) /\ AllInt(g, A \union {x})
        /\ AllInt(f, A) /\ AllInt(g, A)
    BY FS_Subset DEF AllInt
  <2>2. /\ Total(f, A \union {x}) = f[x] + Total(f, A)
        /\ Total(g, A \union {x}) = g[x] + Total(g, A)
    BY <1>2, <2>1, TotalInsert
  <2>3. f[x] \in Int /\ g[x] \in Int /\ Total(f, A) \in Int /\ Total(g, A) \in Int
    BY <2>1, TotalType DEF AllInt
  <2> QED
    BY <1>2, <2>2, <2>3
<1>3. S \in G
  <2> HIDE DEF G
  <2> QED
    BY <1>1, <1>2, SetInduction
<1> QED
  BY <1>3

\* Zeros add up to zero.
LEMMA TotalZero ==
  ASSUME NEW f, NEW S, IsFiniteSet(S), \A x \in S : f[x] = 0
  PROVE  Total(f, S) = 0
<1>1. AllInt(f, S) /\ \A x \in S : f[x] = 0 * f[x]
  BY DEF AllInt
<1>2. Total(f, S) = 0 * Total(f, S)
  BY <1>1, TotalMultiple
<1>3. Total(f, S) \in Int
  BY <1>1, TotalType
<1> QED
  BY <1>2, <1>3

\* A sum of terms that are not negative is not negative.
LEMMA TotalNonnegative ==
  ASSUME NEW f, NEW S, IsFiniteSet(S), AllInt(f, S), \A x \in S : f[x] >= 0
  PROVE  Total(f, S) >= 0
<1> DEFINE z == [x \in S |-> 0]
<1>1. AllInt(z, S) /\ (\A x \in S : z[x] <= f[x]) /\ \A x \in S : z[x] = 0
  BY DEF AllInt
<1> HIDE DEF z
<1>2. Total(z, S) = 0 /\ Total(z, S) <= Total(f, S)
  BY <1>1, TotalZero, TotalMonotone
<1>3. Total(f, S) \in Int
  BY TotalType
<1> QED
  BY <1>2, <1>3

\* A sum splits into a part and the rest.
LEMMA TotalUnion ==
  ASSUME NEW f, NEW S, IsFiniteSet(S), AllInt(f, S), NEW B \in SUBSET S
  PROVE  Total(f, S) = Total(f, B) + Total(f, S \ B)
<1> DEFINE C == S \ B
           G == {A \in SUBSET C : Total(f, B \union A) = Total(f, B) + Total(f, A)}
<1>0. /\ IsFiniteSet(B) /\ IsFiniteSet(C)
      /\ AllInt(f, B) /\ Total(f, B) \in Int
  <2>1. IsFiniteSet(B) /\ IsFiniteSet(C) /\ AllInt(f, B)
    BY FS_Subset DEF AllInt
  <2> QED
    BY <2>1, TotalType
<1>1. {} \in G
  BY <1>0, TotalEmpty
<1>2. ASSUME NEW A \in SUBSET C, NEW x \in C, A \in G, x \notin A PROVE A \union {x} \in G
  <2>1. /\ IsFiniteSet(A) /\ IsFiniteSet(B \union A)
        /\ AllInt(f, A \union {x}) /\ AllInt(f, A) /\ AllInt(f, (B \union A) \union {x})
    BY FS_Subset DEF AllInt
  <2>2. /\ Total(f, A \union {x}) = f[x] + Total(f, A)
        /\ Total(f, (B \union A) \union {x}) = f[x] + Total(f, B \union A)
    BY <1>2, <2>1, TotalInsert
  <2>3. f[x] \in Int /\ Total(f, A) \in Int
    BY <2>1, TotalType DEF AllInt
  <2>4. B \union (A \union {x}) = (B \union A) \union {x}
    OBVIOUS
  <2>5. Total(f, B \union (A \union {x})) = f[x] + Total(f, B \union A)
    BY <2>2, <2>4, Zenon
  <2> QED
    BY <1>0, <1>2, <2>2, <2>3, <2>5
<1>3. C \in G
  <2> HIDE DEF G
  <2> QED
    BY <1>0, <1>1, <1>2, SetInduction
<1>4. B \union C = S
  OBVIOUS
<1> QED
  BY <1>3, <1>4

\* Only the terms that are not zero count.
LEMMA TotalSupport ==
  ASSUME NEW f, NEW S, IsFiniteSet(S), AllInt(f, S), NEW B \in SUBSET S,
         \A x \in S \ B : f[x] = 0
  PROVE  Total(f, S) = Total(f, B)
<1>1. IsFiniteSet(S \ B) /\ IsFiniteSet(B) /\ AllInt(f, B)
  BY FS_Subset DEF AllInt
<1>2. Total(f, S \ B) = 0 /\ Total(f, B) \in Int
  BY <1>1, TotalZero, TotalType
<1> QED
  BY <1>2, TotalUnion

\* A sum with one term that is not zero.
LEMMA TotalSingle ==
  ASSUME NEW f, NEW S, IsFiniteSet(S), NEW k \in S, f[k] \in Int, \A x \in S \ {k} : f[x] = 0
  PROVE  Total(f, S) = f[k]
<1>1. IsFiniteSet(S \ {k}) /\ AllInt(f, S)
  BY FS_RemoveElement DEF AllInt
<1> QED
  BY <1>1, TotalRemove, TotalZero

\* The order of two finite sums may be exchanged.
LEMMA TotalExchange ==
  ASSUME NEW R, NEW C, IsFiniteSet(R), IsFiniteSet(C), NEW h,
         \A i \in R, j \in C : h[i][j] \in Int
  PROVE  Total([i \in R |-> Total([j \in C |-> h[i][j]], C)], R)
           = Total([j \in C |-> Total([i \in R |-> h[i][j]], R)], C)
<1> DEFINE row(i) == Total([j \in C |-> h[i][j]], C)
           col(A, j) == Total([i \in R |-> h[i][j]], A)
           G == {A \in SUBSET R : Total([i \in R |-> row(i)], A) = Total([j \in C |-> col(A, j)], C)}
<1>1. {} \in G
  <2>1. \A j \in C : [k \in C |-> col({}, k)][j] = 0
    BY TotalEmpty
  <2>2. Total([j \in C |-> col({}, j)], C) = 0
    BY <2>1, TotalZero
  <2> QED
    BY <2>2, TotalEmpty
<1>2. ASSUME NEW A \in SUBSET R, NEW x \in R, A \in G, x \notin A PROVE A \union {x} \in G
  <2>1. IsFiniteSet(A) /\ \A j \in C : AllInt([i \in R |-> h[i][j]], A \union {x}) /\ AllInt([i \in R |-> h[i][j]], A)
    BY FS_Subset DEF AllInt
  <2>2. \A j \in C : col(A \union {x}, j) = h[x][j] + col(A, j) /\ col(A, j) \in Int
    BY <1>2, <2>1, TotalInsert, TotalType
  <2>3. \A i \in R : AllInt([j \in C |-> h[i][j]], C) /\ row(i) \in Int
    BY TotalType DEF AllInt
  <2>4. AllInt([i \in R |-> row(i)], A \union {x})
    BY <2>3 DEF AllInt
  <2>5. Total([i \in R |-> row(i)], A \union {x}) = row(x) + Total([i \in R |-> row(i)], A)
    BY <1>2, <2>1, <2>4, TotalInsert
  <2>6. Total([j \in C |-> col(A \union {x}, j)], C) = row(x) + Total([j \in C |-> col(A, j)], C)
    <3> DEFINE ff == [j \in C |-> h[x][j]]
               gg == [j \in C |-> col(A, j)]
               hh == [j \in C |-> col(A \union {x}, j)]
    <3>1. AllInt(ff, C) /\ AllInt(gg, C) /\ \A j \in C : hh[j] = ff[j] + gg[j]
      BY <2>2, <2>3 DEF AllInt
    <3> HIDE DEF ff, gg, hh
    <3>2. Total(hh, C) = Total(ff, C) + Total(gg, C)
      BY <3>1, TotalSum
    <3> QED
      BY <3>2 DEF ff, gg, hh
  <2> QED
    BY <1>2, <2>5, <2>6
<1>3. R \in G
  <2> HIDE DEF G
  <2> QED
    BY <1>1, <1>2, SetInduction
<1> QED
  BY <1>3

-----------------------------------------------------------------------------
\* A model of finitely many rows and columns with integer data, and vectors
\* for it.
LinearModel(m) ==
  /\ IsFiniteSet(m.rows) /\ IsFiniteSet(m.cols)
  /\ \A i \in m.rows : m.b[i] \in Int /\ \A j \in m.cols : m.a[i][j] \in Int
  /\ \A j \in m.cols : m.c[j] \in Int
ColumnVector(m, x) == AllInt(x, m.cols)
RowVector(m, y) == AllInt(y, m.rows)

\* Rows, columns, costs and right-hand sides of integer vectors are integers.
LEMMA ValuesAreIntegers ==
  ASSUME NEW m, LinearModel(m), NEW x, ColumnVector(m, x), NEW y, RowVector(m, y)
  PROVE  /\ \A i \in m.rows : RowValue(m, i, x) \in Int
         /\ \A j \in m.cols : ColumnValue(m, j, y) \in Int
         /\ CostOf(m, x) \in Int /\ RhsOf(m, y) \in Int
<1>1. ASSUME NEW i \in m.rows PROVE RowValue(m, i, x) \in Int
  <2>1. AllInt([j \in m.cols |-> m.a[i][j] * x[j]], m.cols)
    BY DEF AllInt, LinearModel, ColumnVector
  <2> QED
    BY <2>1, TotalType DEF RowValue, LinearModel
<1>2. ASSUME NEW j \in m.cols PROVE ColumnValue(m, j, y) \in Int
  <2>1. AllInt([i \in m.rows |-> m.a[i][j] * y[i]], m.rows)
    BY DEF AllInt, LinearModel, RowVector
  <2> QED
    BY <2>1, TotalType DEF ColumnValue, LinearModel
<1>3. /\ AllInt([j \in m.cols |-> m.c[j] * x[j]], m.cols)
      /\ AllInt([i \in m.rows |-> m.b[i] * y[i]], m.rows)
  BY DEF AllInt, LinearModel, ColumnVector, RowVector
<1> QED
  BY <1>1, <1>2, <1>3, TotalType DEF CostOf, RhsOf, LinearModel

\* The rows of a point weighed by multipliers are the columns of the
\* multipliers weighed by the point.
LEMMA Adjoint ==
  ASSUME NEW m, LinearModel(m), NEW x, ColumnVector(m, x), NEW y, RowVector(m, y)
  PROVE  Total([i \in m.rows |-> RowValue(m, i, x) * y[i]], m.rows)
           = Total([j \in m.cols |-> ColumnValue(m, j, y) * x[j]], m.cols)
<1> DEFINE R == m.rows
           C == m.cols
           h == [i \in R |-> [j \in C |-> m.a[i][j] * x[j] * y[i]]]
<1>1. IsFiniteSet(R) /\ IsFiniteSet(C) /\ \A i \in R, j \in C : h[i][j] \in Int
  BY DEF LinearModel, ColumnVector, RowVector, AllInt
<1>2. ASSUME NEW i \in R
      PROVE  Total([j \in C |-> h[i][j]], C) = RowValue(m, i, x) * y[i]
  <2> DEFINE f == [j \in C |-> m.a[i][j] * x[j]]
             g == [j \in C |-> h[i][j]]
  <2>1. AllInt(f, C) /\ y[i] \in Int /\ \A j \in C : g[j] = y[i] * f[j]
    BY DEF LinearModel, ColumnVector, RowVector, AllInt
  <2>2. Total(f, C) = RowValue(m, i, x) /\ RowValue(m, i, x) \in Int
    BY ValuesAreIntegers DEF RowValue
  <2> HIDE DEF f, g
  <2>3. Total(g, C) = y[i] * Total(f, C)
    BY <1>1, <2>1, TotalMultiple
  <2>4. Total(g, C) = RowValue(m, i, x) * y[i]
    BY <2>1, <2>2, <2>3
  <2> QED
    BY <2>4 DEF g
<1>3. ASSUME NEW j \in C
      PROVE  Total([i \in R |-> h[i][j]], R) = ColumnValue(m, j, y) * x[j]
  <2> DEFINE f == [i \in R |-> m.a[i][j] * y[i]]
             g == [i \in R |-> h[i][j]]
  <2>1. AllInt(f, R) /\ x[j] \in Int /\ \A i \in R : g[i] = x[j] * f[i]
    BY DEF LinearModel, ColumnVector, RowVector, AllInt
  <2>2. Total(f, R) = ColumnValue(m, j, y) /\ ColumnValue(m, j, y) \in Int
    BY ValuesAreIntegers DEF ColumnValue
  <2> HIDE DEF f, g
  <2>3. Total(g, R) = x[j] * Total(f, R)
    BY <1>1, <2>1, TotalMultiple
  <2>4. Total(g, R) = ColumnValue(m, j, y) * x[j]
    BY <2>1, <2>2, <2>3
  <2> QED
    BY <2>4 DEF g
<1> HIDE DEF h
<1>4. Total([i \in R |-> Total([j \in C |-> h[i][j]], C)], R)
        = Total([j \in C |-> Total([i \in R |-> h[i][j]], R)], C)
  BY <1>1, TotalExchange
<1>5. /\ [i \in R |-> Total([j \in C |-> h[i][j]], C)] = [i \in R |-> RowValue(m, i, x) * y[i]]
      /\ [j \in C |-> Total([i \in R |-> h[i][j]], R)] = [j \in C |-> ColumnValue(m, j, y) * x[j]]
  BY <1>2, <1>3
<1> QED
  BY <1>4, <1>5, Zenon

\* A point that satisfies the rows is worth b y whatever the multipliers are.
LEMMA RhsOfRows ==
  ASSUME NEW m, LinearModel(m), NEW x, ColumnVector(m, x), NEW y, RowVector(m, y), RowsHold(m, x)
  PROVE  RhsOf(m, y) = Total([j \in m.cols |-> ColumnValue(m, j, y) * x[j]], m.cols)
<1>1. [i \in m.rows |-> RowValue(m, i, x) * y[i]] = [i \in m.rows |-> m.b[i] * y[i]]
  BY DEF RowsHold
<1>2. Total([i \in m.rows |-> RowValue(m, i, x) * y[i]], m.rows)
        = Total([j \in m.cols |-> ColumnValue(m, j, y) * x[j]], m.cols)
  BY Adjoint
<1> QED
  BY <1>1, <1>2, Zenon DEF RhsOf

(***************************************************************************)
(* Weak duality: multipliers without a negative reduced cost bound the     *)
(* cost of every point from below.                                         *)
(***************************************************************************)
THEOREM WeakDuality ==
  ASSUME NEW m, LinearModel(m), NEW x, ColumnVector(m, x), NEW y, RowVector(m, y),
         PrimalFeasible(m, x), DualFeasible(m, y)
  PROVE  RhsOf(m, y) <= CostOf(m, x)
<1> DEFINE f == [j \in m.cols |-> ColumnValue(m, j, y) * x[j]]
           g == [j \in m.cols |-> m.c[j] * x[j]]
<1>1. RhsOf(m, y) = Total(f, m.cols)
  BY RhsOfRows DEF PrimalFeasible
<1>2. CostOf(m, x) = Total(g, m.cols)
  BY DEF CostOf
<1>3. ASSUME NEW j \in m.cols
      PROVE  f[j] \in Int /\ g[j] \in Int /\ f[j] <= g[j]
  <2>1. ColumnValue(m, j, y) \in Int /\ m.c[j] \in Int /\ x[j] \in Int /\ x[j] >= 0
    BY ValuesAreIntegers DEF LinearModel, ColumnVector, AllInt, PrimalFeasible, Nonnegative
  <2>2. m.c[j] - ColumnValue(m, j, y) >= 0
    BY DEF DualFeasible, ReducedCost
  <2>3. (m.c[j] - ColumnValue(m, j, y)) * x[j] >= 0
    BY <2>1, <2>2
  <2> QED
    BY <2>1, <2>3
<1> HIDE DEF f, g
<1>4. IsFiniteSet(m.cols) /\ AllInt(f, m.cols) /\ AllInt(g, m.cols)
  BY <1>3 DEF LinearModel, AllInt
<1>5. Total(f, m.cols) <= Total(g, m.cols)
  BY <1>3, <1>4, TotalMonotone
<1> QED
  BY <1>1, <1>2, <1>5

-----------------------------------------------------------------------------
\* A model is a record whose vectors and rows are indexed by its rows and
\* columns, so that scaling its fields scales the entries the sums meet.
ModelRecord(m) ==
  /\ DOMAIN m = {"rows", "cols", "a", "b", "c", "offset"}
  /\ m.rows \subseteq DOMAIN m.a /\ m.rows \subseteq DOMAIN m.b /\ m.cols \subseteq DOMAIN m.c
  /\ \A i \in m.rows : m.cols \subseteq DOMAIN m.a[i]

\* Scaling an answer's denominator into the model changes b and c alone.
LEMMA ScaledFields ==
  ASSUME NEW m, ModelRecord(m), NEW d
  PROVE  /\ Scaled(m, d).rows = m.rows /\ Scaled(m, d).cols = m.cols
         /\ Scaled(m, d).a = m.a /\ Scaled(m, d).offset = m.offset
         /\ \A i \in m.rows : Scaled(m, d).b[i] = d * m.b[i]
         /\ \A j \in m.cols : Scaled(m, d).c[j] = d * m.c[j]
<1> DEFINE bb == [i \in DOMAIN m.b |-> d * m.b[i]]
           cc == [j \in DOMAIN m.c |-> d * m.c[j]]
<1>1. Scaled(m, d) = [m EXCEPT !.b = bb, !.c = cc]
  BY DEF Scaled
<1>2. (\A i \in m.rows : bb[i] = d * m.b[i]) /\ \A j \in m.cols : cc[j] = d * m.c[j]
  BY DEF ModelRecord
<1> HIDE DEF bb, cc
<1>3. /\ Scaled(m, d).rows = m.rows /\ Scaled(m, d).cols = m.cols
      /\ Scaled(m, d).a = m.a /\ Scaled(m, d).offset = m.offset
      /\ Scaled(m, d).b = bb /\ Scaled(m, d).c = cc
  BY <1>1 DEF ModelRecord
<1> QED
  BY <1>2, <1>3

\* So sums over the matrix stay, and sums over b and c are multiplied.
LEMMA ScaledSums ==
  ASSUME NEW m, ModelRecord(m), LinearModel(m), NEW d \in Int,
         NEW x, ColumnVector(m, x), NEW y, RowVector(m, y)
  PROVE  /\ \A i \in m.rows : RowValue(Scaled(m, d), i, x) = RowValue(m, i, x)
         /\ \A j \in m.cols : ColumnValue(Scaled(m, d), j, y) = ColumnValue(m, j, y)
         /\ CostOf(Scaled(m, d), x) = d * CostOf(m, x)
         /\ RhsOf(Scaled(m, d), y) = d * RhsOf(m, y)
<1> DEFINE M == Scaled(m, d)
           cf == [j \in m.cols |-> m.c[j] * x[j]]
           cg == [j \in m.cols |-> M.c[j] * x[j]]
           bf == [i \in m.rows |-> m.b[i] * y[i]]
           bg == [i \in m.rows |-> M.b[i] * y[i]]
<1>1. /\ M.rows = m.rows /\ M.cols = m.cols /\ M.a = m.a
      /\ \A i \in m.rows : M.b[i] = d * m.b[i]
      /\ \A j \in m.cols : M.c[j] = d * m.c[j]
  BY ScaledFields
<1> HIDE DEF M
<1>2. /\ CostOf(M, x) = Total(cg, m.cols) /\ CostOf(m, x) = Total(cf, m.cols)
      /\ RhsOf(M, y) = Total(bg, m.rows) /\ RhsOf(m, y) = Total(bf, m.rows)
  BY <1>1, Zenon DEF CostOf, RhsOf
<1>3. /\ AllInt(cf, m.cols) /\ AllInt(bf, m.rows)
      /\ \A j \in m.cols : cg[j] = d * cf[j]
      /\ \A i \in m.rows : bg[i] = d * bf[i]
  BY <1>1 DEF LinearModel, ColumnVector, RowVector, AllInt
<1> HIDE DEF cf, cg, bf, bg
<1>4. Total(cg, m.cols) = d * Total(cf, m.cols) /\ Total(bg, m.rows) = d * Total(bf, m.rows)
  BY <1>3, TotalMultiple DEF LinearModel
<1>5. /\ \A i \in m.rows : RowValue(M, i, x) = RowValue(m, i, x)
      /\ \A j \in m.cols : ColumnValue(M, j, y) = ColumnValue(m, j, y)
  BY <1>1, Zenon DEF RowValue, ColumnValue
<1> QED
  BY <1>2, <1>4, <1>5 DEF M

(***************************************************************************)
(* No point is cheaper than one whose witness of optimality is accepted    *)
(* (verify_reference_result), whatever the denominators d of the answer    *)
(* and e of the point: the rationals x / d and g / e are compared.         *)
(***************************************************************************)
THEOREM AcceptedOptimumIsLeast ==
  ASSUME NEW m, ModelRecord(m), LinearModel(m), NEW d \in Nat \ {0}, NEW x, NEW y,
         OptimalWitness(Scaled(m, d), x, y),
         NEW e \in Nat \ {0}, NEW g, ColumnVector(m, g), Nonnegative(m, g),
         \A i \in m.rows : RowValue(m, i, g) = e * m.b[i]
  PROVE  e * CostOf(m, x) <= d * CostOf(m, g)
<1> DEFINE M == Scaled(m, d)
           f == [i \in m.rows |-> RowValue(m, i, g) * y[i]]
           r == [i \in m.rows |-> m.b[i] * y[i]]
           k == [j \in m.cols |-> ColumnValue(m, j, y) * g[j]]
           c == [j \in m.cols |-> m.c[j] * g[j]]
           u == [j \in m.cols |-> d * c[j]]
<1>1. /\ M.rows = m.rows /\ M.cols = m.cols
      /\ \A j \in m.cols : M.c[j] = d * m.c[j]
  BY ScaledFields
<1>2. ColumnVector(m, x) /\ RowVector(m, y)
  BY <1>1 DEF OptimalWitness, ForColumns, ForRows, ColumnVector, RowVector, AllInt
<1>3. /\ \A j \in m.cols : ColumnValue(M, j, y) = ColumnValue(m, j, y)
      /\ CostOf(M, x) = d * CostOf(m, x) /\ RhsOf(M, y) = d * RhsOf(m, y)
  BY <1>2, ScaledSums
<1>4. CostOf(m, x) = RhsOf(m, y)
  <2>1. d * CostOf(m, x) = d * RhsOf(m, y)
    BY <1>3 DEF OptimalWitness
  <2>2. CostOf(m, x) \in Int /\ RhsOf(m, y) \in Int
    BY <1>2, ValuesAreIntegers
  <2> QED
    BY <2>1, <2>2
<1>5. ASSUME NEW j \in m.cols
      PROVE  k[j] \in Int /\ c[j] \in Int /\ u[j] \in Int /\ k[j] <= u[j]
  <2>1. ColumnValue(m, j, y) \in Int /\ m.c[j] \in Int /\ g[j] \in Int /\ g[j] >= 0
    BY <1>2, ValuesAreIntegers DEF LinearModel, ColumnVector, AllInt, Nonnegative
  <2>2. d * m.c[j] - ColumnValue(m, j, y) >= 0
    BY <1>1, <1>3 DEF OptimalWitness, DualFeasible, ReducedCost
  <2>3. (d * m.c[j] - ColumnValue(m, j, y)) * g[j] >= 0
    BY <2>1, <2>2
  <2>4. (d * m.c[j]) * g[j] = d * (m.c[j] * g[j])
    BY <2>1
  <2> QED
    BY <2>1, <2>3, <2>4
<1>6. AllInt(r, m.rows) /\ \A i \in m.rows : f[i] = e * r[i]
  BY <1>2 DEF LinearModel, RowVector, AllInt
<1>7. Total(f, m.rows) = Total(k, m.cols)
  BY <1>2, Adjoint
<1>8. RhsOf(m, y) = Total(r, m.rows) /\ CostOf(m, g) = Total(c, m.cols)
  BY DEF RhsOf, CostOf
<1>9. \A j \in m.cols : u[j] = d * c[j]
  OBVIOUS
<1> HIDE DEF M, f, r, k, c, u
<1>10. IsFiniteSet(m.rows) /\ IsFiniteSet(m.cols) /\ d \in Int /\ e \in Int
  BY DEF LinearModel
<1>11. Total(f, m.rows) = e * Total(r, m.rows)
  BY <1>6, <1>10, TotalMultiple
<1>12. AllInt(k, m.cols) /\ AllInt(u, m.cols) /\ AllInt(c, m.cols)
  BY <1>5 DEF AllInt
<1>13. Total(k, m.cols) <= Total(u, m.cols) /\ Total(u, m.cols) = d * Total(c, m.cols)
  BY <1>5, <1>9, <1>10, <1>12, TotalMonotone, TotalMultiple
<1> QED
  BY <1>4, <1>7, <1>8, <1>11, <1>13, Zenon

(***************************************************************************)
(* A model with an accepted Farkas vector has no point, not even a         *)
(* fractional one: there is none over any denominator d.                   *)
(***************************************************************************)
THEOREM FarkasMeansInfeasible ==
  ASSUME NEW m, LinearModel(m), NEW y, FarkasWitness(m, y),
         NEW d \in Nat \ {0}, NEW g, ColumnVector(m, g), Nonnegative(m, g)
  PROVE  ~ \A i \in m.rows : RowValue(m, i, g) = d * m.b[i]
<1> SUFFICES ASSUME \A i \in m.rows : RowValue(m, i, g) = d * m.b[i] PROVE FALSE
  OBVIOUS
<1> DEFINE f == [i \in m.rows |-> RowValue(m, i, g) * y[i]]
           r == [i \in m.rows |-> m.b[i] * y[i]]
           k == [j \in m.cols |-> ColumnValue(m, j, y) * g[j]]
           z == [j \in m.cols |-> 0]
<1>1. RowVector(m, y)
  BY DEF FarkasWitness, ForRows, RowVector, AllInt
<1>2. ASSUME NEW j \in m.cols
      PROVE  k[j] \in Int /\ k[j] <= 0
  <2>1. ColumnValue(m, j, y) \in Int /\ g[j] \in Int /\ g[j] >= 0 /\ ColumnValue(m, j, y) <= 0
    BY <1>1, ValuesAreIntegers DEF ColumnVector, AllInt, Nonnegative, FarkasWitness
  <2>2. (-ColumnValue(m, j, y)) * g[j] >= 0
    BY <2>1
  <2> QED
    BY <2>1, <2>2
<1>3. AllInt(r, m.rows) /\ \A i \in m.rows : f[i] = d * r[i]
  BY <1>1 DEF LinearModel, RowVector, AllInt
<1>4. Total(f, m.rows) = Total(k, m.cols)
  BY <1>1, Adjoint
<1>5. RhsOf(m, y) = Total(r, m.rows) /\ RhsOf(m, y) > 0 /\ RhsOf(m, y) \in Int
  BY <1>1, ValuesAreIntegers DEF RhsOf, FarkasWitness
<1>6. AllInt(z, m.cols) /\ \A j \in m.cols : z[j] = 0 /\ k[j] <= z[j]
  BY <1>2 DEF AllInt
<1>7. AllInt(k, m.cols)
  BY <1>2 DEF AllInt
<1> HIDE DEF f, r, k, z
<1>8. IsFiniteSet(m.rows) /\ IsFiniteSet(m.cols) /\ d \in Int
  BY DEF LinearModel
<1>9. Total(f, m.rows) = d * Total(r, m.rows)
  BY <1>3, <1>8, TotalMultiple
<1>10. Total(k, m.cols) <= Total(z, m.cols) /\ Total(z, m.cols) = 0
  BY <1>6, <1>7, <1>8, TotalMonotone, TotalZero
<1>11. d * RhsOf(m, y) > 0
  BY <1>5
<1> QED
  BY <1>4, <1>5, <1>9, <1>10, <1>11

\* A sum of multiples is the multiple of the sums.
LEMMA TotalCombination ==
  ASSUME NEW f, NEW g, NEW h, NEW t \in Int, NEW S, IsFiniteSet(S), AllInt(f, S), AllInt(g, S),
         \A x \in S : h[x] = f[x] + t * g[x]
  PROVE  Total(h, S) = Total(f, S) + t * Total(g, S)
<1> DEFINE u == [x \in S |-> t * g[x]]
<1>1. AllInt(u, S) /\ (\A x \in S : u[x] = t * g[x]) /\ \A x \in S : h[x] = f[x] + u[x]
  BY DEF AllInt
<1> HIDE DEF u
<1>2. Total(u, S) = t * Total(g, S) /\ Total(h, S) = Total(f, S) + Total(u, S)
  BY <1>1, TotalMultiple, TotalSum
<1> QED
  BY <1>2, Zenon

\* Rows and costs are linear along a direction.
LEMMA ValuesAlong ==
  ASSUME NEW m, LinearModel(m), NEW x, ColumnVector(m, x), NEW d, ColumnVector(m, d), NEW t \in Int,
         NEW p, \A j \in m.cols : p[j] = x[j] + t * d[j]
  PROVE  /\ \A i \in m.rows : RowValue(m, i, p) = RowValue(m, i, x) + t * RowValue(m, i, d)
         /\ CostOf(m, p) = CostOf(m, x) + t * CostOf(m, d)
<1>1. ASSUME NEW i \in m.rows
      PROVE  RowValue(m, i, p) = RowValue(m, i, x) + t * RowValue(m, i, d)
  <2> DEFINE f == [j \in m.cols |-> m.a[i][j] * x[j]]
             g == [j \in m.cols |-> m.a[i][j] * d[j]]
             h == [j \in m.cols |-> m.a[i][j] * p[j]]
  <2>1. AllInt(f, m.cols) /\ AllInt(g, m.cols) /\ \A j \in m.cols : h[j] = f[j] + t * g[j]
    BY DEF LinearModel, ColumnVector, AllInt
  <2> HIDE DEF f, g, h
  <2>2. Total(h, m.cols) = Total(f, m.cols) + t * Total(g, m.cols)
    BY <2>1, TotalCombination DEF LinearModel
  <2> QED
    BY <2>2 DEF f, g, h, RowValue
<1>2. CostOf(m, p) = CostOf(m, x) + t * CostOf(m, d)
  <2> DEFINE f == [j \in m.cols |-> m.c[j] * x[j]]
             g == [j \in m.cols |-> m.c[j] * d[j]]
             h == [j \in m.cols |-> m.c[j] * p[j]]
  <2>1. AllInt(f, m.cols) /\ AllInt(g, m.cols) /\ \A j \in m.cols : h[j] = f[j] + t * g[j]
    BY DEF LinearModel, ColumnVector, AllInt
  <2> HIDE DEF f, g, h
  <2>2. Total(h, m.cols) = Total(f, m.cols) + t * Total(g, m.cols)
    BY <2>1, TotalCombination DEF LinearModel
  <2> QED
    BY <2>2 DEF f, g, h, CostOf
<1> QED
  BY <1>1, <1>2

(***************************************************************************)
(* Along a ray whose witness is accepted every point is feasible, and each *)
(* step costs at least one unit less: the model has no least cost.         *)
(***************************************************************************)
THEOREM RayMeansUnbounded ==
  ASSUME NEW m, LinearModel(m), NEW x, NEW d, RayWitness(m, x, d), NEW t \in Nat
  PROVE  LET p == [j \in m.cols |-> x[j] + t * d[j]]
         IN  PrimalFeasible(m, p) /\ CostOf(m, p) <= CostOf(m, x) - t
<1> DEFINE p == [j \in m.cols |-> x[j] + t * d[j]]
<1>1. ColumnVector(m, x) /\ ColumnVector(m, d)
  BY DEF RayWitness, ForColumns, ColumnVector, AllInt
<1>2. \A j \in m.cols : p[j] = x[j] + t * d[j]
  OBVIOUS
<1>3. \A j \in m.cols : p[j] >= 0
  <2> SUFFICES ASSUME NEW j \in m.cols PROVE p[j] >= 0
    OBVIOUS
  <2>1. x[j] \in Int /\ d[j] \in Int /\ x[j] >= 0 /\ d[j] >= 0
    BY <1>1 DEF ColumnVector, AllInt, RayWitness, PrimalFeasible, Nonnegative
  <2>2. t * d[j] >= 0
    BY <2>1
  <2> QED
    BY <2>1, <2>2
<1> HIDE DEF p
<1>4. /\ \A i \in m.rows : RowValue(m, i, p) = RowValue(m, i, x) + t * RowValue(m, i, d)
      /\ CostOf(m, p) = CostOf(m, x) + t * CostOf(m, d)
  BY <1>1, <1>2, ValuesAlong
<1>5. ASSUME NEW i \in m.rows PROVE RowValue(m, i, p) = m.b[i]
  <2>1. RowValue(m, i, x) = m.b[i] /\ RowValue(m, i, d) = 0 /\ m.b[i] \in Int
    BY DEF RayWitness, PrimalFeasible, RowsHold, LinearModel
  <2> QED
    BY <1>4, <2>1
<1>6. CostOf(m, x) \in Int /\ CostOf(m, d) \in Int /\ CostOf(m, d) <= -1
  <2>1. CostOf(m, x) \in Int /\ CostOf(m, d) \in Int
    <3>1. RowVector(m, [i \in m.rows |-> 0])
      BY DEF RowVector, AllInt
    <3> QED
      BY <1>1, <3>1, ValuesAreIntegers
  <2> QED
    BY <2>1 DEF RayWitness
<1>7. t * (CostOf(m, d) + 1) <= 0
  BY <1>6
<1> QED
  BY <1>3, <1>4, <1>5, <1>6, <1>7 DEF p, PrimalFeasible, Nonnegative, RowsHold

-----------------------------------------------------------------------------
\* A sequence that lists the members of a set, each once.
Enumerates(s, S) ==
  /\ s \in Seq(S)
  /\ \A k, l \in DOMAIN s : s[k] = s[l] => k = l
  /\ \A x \in S : \E k \in DOMAIN s : s[k] = x

\* The empty sequence, one member and two members.
LEMMA EnumeratesNone == Enumerates(<<>>, {})
  BY DEF Enumerates

\* One member.
LEMMA EnumeratesOne ==
  ASSUME NEW x PROVE Enumerates(<<x>>, {x})
  BY DEF Enumerates

\* Two different members.
LEMMA EnumeratesTwo ==
  ASSUME NEW x, NEW y, x # y PROVE Enumerates(<<x, y>>, {x, y})
<1>1. <<x, y>> \in Seq({x, y}) /\ DOMAIN <<x, y>> = {1, 2} /\ <<x, y>>[1] = x /\ <<x, y>>[2] = y
  OBVIOUS
<1> QED
  BY <1>1 DEF Enumerates

\* Where the elements of a concatenation come from.
LEMMA ConcatElements ==
  ASSUME NEW S, NEW s \in Seq(S), NEW t \in Seq(S)
  PROVE  /\ s \o t \in Seq(S)
         /\ \A k \in DOMAIN s : k \in DOMAIN (s \o t) /\ (s \o t)[k] = s[k]
         /\ \A l \in DOMAIN t : \E k \in DOMAIN (s \o t) : (s \o t)[k] = t[l]
         /\ \A k \in DOMAIN (s \o t) :
              (k \in DOMAIN s /\ (s \o t)[k] = s[k]) \/ \E l \in DOMAIN t : (s \o t)[k] = t[l]
<1> DEFINE st == s \o t
<1>1. /\ st \in Seq(S) /\ Len(st) = Len(s) + Len(t)
      /\ \A i \in 1 .. Len(s) + Len(t) : st[i] = IF i <= Len(s) THEN s[i] ELSE t[i - Len(s)]
  BY ConcatProperties
<1>2. /\ Len(s) \in Nat /\ Len(t) \in Nat
      /\ DOMAIN s = 1 .. Len(s) /\ DOMAIN t = 1 .. Len(t) /\ DOMAIN st = 1 .. Len(s) + Len(t)
  <2>1. DOMAIN st = 1 .. Len(st)
    BY <1>1
  <2> QED
    BY <1>1, <2>1
<1> HIDE DEF st
<1>3. \A k \in DOMAIN s : k \in DOMAIN st /\ st[k] = s[k]
  BY <1>1, <1>2
<1>4. \A l \in DOMAIN t : \E k \in DOMAIN st : st[k] = t[l]
  <2> SUFFICES ASSUME NEW l \in DOMAIN t PROVE Len(s) + l \in DOMAIN st /\ st[Len(s) + l] = t[l]
    OBVIOUS
  <2>1. l \in Nat /\ 1 <= l /\ l <= Len(t)
    BY <1>2
  <2>2. Len(s) + l \in 1 .. Len(s) + Len(t) /\ ~ (Len(s) + l <= Len(s)) /\ (Len(s) + l) - Len(s) = l
    BY <1>2, <2>1
  <2> QED
    BY <1>1, <1>2, <2>2
<1>5. \A k \in DOMAIN st : (k \in DOMAIN s /\ st[k] = s[k]) \/ \E l \in DOMAIN t : st[k] = t[l]
  <2> SUFFICES ASSUME NEW k \in DOMAIN st, ~ (k \in DOMAIN s /\ st[k] = s[k])
               PROVE  k - Len(s) \in DOMAIN t /\ st[k] = t[k - Len(s)]
    OBVIOUS
  <2>1. k \in Nat /\ 1 <= k /\ k <= Len(s) + Len(t)
    BY <1>2
  <2>2. ~ (k <= Len(s))
    BY <1>1, <1>2, <2>1
  <2> QED
    BY <1>1, <1>2, <2>1, <2>2
<1> QED
  BY <1>1, <1>3, <1>4, <1>5 DEF st

\* Two lists without a common member make one.
LEMMA EnumeratesConcat ==
  ASSUME NEW A, NEW B, A \cap B = {}, NEW s, Enumerates(s, A), NEW t, Enumerates(t, B)
  PROVE  Enumerates(s \o t, A \union B)
<1> DEFINE U == A \union B
           st == s \o t
<1>1. s \in Seq(A) /\ t \in Seq(B)
  BY DEF Enumerates
<1>2. s \in Seq(U) /\ t \in Seq(U)
  BY <1>1, SeqMonotonic
<1>3. /\ st \in Seq(U) /\ Len(st) = Len(s) + Len(t)
      /\ \A i \in 1 .. Len(s) + Len(t) : st[i] = IF i <= Len(s) THEN s[i] ELSE t[i - Len(s)]
  BY <1>2, ConcatProperties
<1>4. /\ Len(s) \in Nat /\ Len(t) \in Nat /\ DOMAIN s = 1 .. Len(s) /\ DOMAIN t = 1 .. Len(t)
      /\ \A k \in 1 .. Len(s) : s[k] \in A
      /\ \A k \in 1 .. Len(t) : t[k] \in B
  BY <1>1
<1>5. DOMAIN st = 1 .. Len(s) + Len(t)
  <2>1. DOMAIN st = 1 .. Len(st)
    BY <1>3
  <2> QED
    BY <1>3, <2>1
<1>8. /\ \A k \in DOMAIN s : k \in DOMAIN st /\ st[k] = s[k]
      /\ \A l \in DOMAIN t : \E k \in DOMAIN st : st[k] = t[l]
  BY <1>2, ConcatElements
<1> HIDE DEF st
<1>6. ASSUME NEW k \in DOMAIN st, NEW l \in DOMAIN st, st[k] = st[l] PROVE k = l
  <2>1. k \in Nat /\ l \in Nat /\ 1 <= k /\ 1 <= l /\ k <= Len(s) + Len(t) /\ l <= Len(s) + Len(t)
    BY <1>4, <1>5
  <2>2. CASE k <= Len(s) /\ l <= Len(s)
    BY <1>3, <1>4, <1>6, <2>1, <2>2 DEF Enumerates
  <2>3. CASE ~ (k <= Len(s)) /\ ~ (l <= Len(s))
    <3>1. k - Len(s) \in DOMAIN t /\ l - Len(s) \in DOMAIN t
      BY <1>4, <2>1, <2>3
    <3>2. t[k - Len(s)] = t[l - Len(s)]
      BY <1>3, <1>5, <1>6, <2>3
    <3>3. k - Len(s) = l - Len(s)
      BY <3>1, <3>2 DEF Enumerates
    <3> QED
      BY <1>4, <2>1, <3>3
  <2>4. CASE k <= Len(s) /\ ~ (l <= Len(s))
    <3>1. st[k] \in A /\ st[l] \in B
      BY <1>3, <1>4, <2>1, <2>4
    <3> QED
      BY <1>6, <3>1
  <2>5. CASE ~ (k <= Len(s)) /\ l <= Len(s)
    <3>1. st[k] \in B /\ st[l] \in A
      BY <1>3, <1>4, <2>1, <2>5
    <3> QED
      BY <1>6, <3>1
  <2> QED
    BY <2>2, <2>3, <2>4, <2>5
<1>7. ASSUME NEW x \in U PROVE \E k \in DOMAIN st : st[k] = x
  <2>1. CASE x \in A
    <3>1. PICK k \in DOMAIN s : s[k] = x
      BY <2>1 DEF Enumerates
    <3> QED
      BY <1>8, <3>1
  <2>2. CASE x \in B
    <3>1. PICK l \in DOMAIN t : t[l] = x
      BY <2>2 DEF Enumerates
    <3> QED
      BY <1>8, <3>1
  <2> QED
    BY <2>1, <2>2
<1> QED
  BY <1>3, <1>6, <1>7 DEF Enumerates, st

\* Lists joined one after the other.
Joins(ss, n, f) == f = [i \in 1 .. n |-> IF i = 1 THEN ss[i] ELSE f[i - 1] \o ss[i]]

\* The sequences joined one after the other: the recursion of FlattenSeq has
\* a solution,
LEMMA JoinExists ==
  ASSUME NEW ss, NEW n \in Nat
  PROVE  \E f : Joins(ss, n, f)
<1> DEFINE G == {m \in Nat : \E f : Joins(ss, m, f)}
<1>1. 0 \in G
  <2>1. Joins(ss, 0, [i \in 1 .. 0 |-> 0])
    BY DEF Joins
  <2> QED
    BY <2>1
<1>2. ASSUME NEW m \in Nat, m \in G PROVE m + 1 \in G
  <2>1. PICK f : Joins(ss, m, f)
    BY <1>2
  <2> DEFINE g == [i \in 1 .. m + 1 |-> IF i = 1 THEN ss[i] ELSE f[i - 1] \o ss[i]]
  <2>2. ASSUME NEW i \in 1 .. m PROVE i \in 1 .. m + 1 /\ g[i] = f[i]
    <3>1. f[i] = IF i = 1 THEN ss[i] ELSE f[i - 1] \o ss[i]
      BY <2>1, Zenon DEF Joins
    <3> QED
      BY <3>1
  <2>3. ASSUME NEW i \in 1 .. m + 1 PROVE g[i] = IF i = 1 THEN ss[i] ELSE g[i - 1] \o ss[i]
    <3>1. CASE i = 1
      BY <3>1
    <3>2. CASE i # 1
      <4>1. i - 1 \in 1 .. m
        BY <3>2
      <4>2. g[i - 1] = f[i - 1]
        BY <2>2, <4>1
      <4> QED
        BY <3>2, <4>2
    <3> QED
      BY <3>1, <3>2
  <2>4. Joins(ss, m + 1, g)
    <3>1. g = [i \in 1 .. m + 1 |-> g[i]]
      OBVIOUS
    <3> HIDE DEF g
    <3> QED
      BY <2>3, <3>1 DEF Joins
  <2> QED
    BY <2>4
<1> HIDE DEF G
<1>3. n \in G
  BY <1>1, <1>2, NatSetInduction
<1> QED
  BY <1>3 DEF G

\* and FlattenSeq is the last value of one.
LEMMA FlattenJoins ==
  ASSUME NEW ss, NEW n \in Nat, n > 0, Len(ss) = n
  PROVE  \E f : Joins(ss, n, f) /\ FlattenSeq(ss) = f[n]
<1> DEFINE f == CHOOSE f : Joins(ss, n, f)
<1>1. Joins(ss, n, f)
  BY JoinExists
<1>2. FlattenSeq(ss) = f[n]
  BY DEF FlattenSeq, Joins
<1> QED
  BY <1>1, <1>2

\* Flattening lists of disjoint sets lists their union.
LEMMA EnumeratesFlat ==
  ASSUME NEW n \in Nat, NEW ss, NEW A, ss = [i \in 1 .. n |-> ss[i]],
         \A i \in 1 .. n : Enumerates(ss[i], A[i]),
         \A i, j \in 1 .. n : i # j => A[i] \cap A[j] = {}
  PROVE  Enumerates(FlattenSeq(ss), UNION {A[i] : i \in 1 .. n})
<1>0. PICK T : ss \in Seq(T)
  <2> DEFINE U == UNION {A[i] : i \in 1 .. n}
  <2>1. \A i \in 1 .. n : ss[i] \in Seq(U)
    <3> SUFFICES ASSUME NEW i \in 1 .. n PROVE ss[i] \in Seq(U)
      OBVIOUS
    <3>1. ss[i] \in Seq(A[i]) /\ A[i] \subseteq U
      BY DEF Enumerates
    <3> HIDE DEF U
    <3> QED
      BY <3>1, SeqMonotonic
  <2> HIDE DEF U
  <2>2. ss \in [1 .. n -> Seq(U)]
    BY <2>1
  <2>3. ss \in Seq(Seq(U))
    BY <2>2, SeqDef
  <2> QED
    BY <2>3
<1>1. Len(ss) = n
  <2>1. DOMAIN ss = 1 .. Len(ss) /\ Len(ss) \in Nat
    BY <1>0, LenProperties
  <2> QED
    BY <2>1
<1>2. CASE n = 0
  <2>1. FlattenSeq(ss) = ss
    BY <1>1, <1>2 DEF FlattenSeq
  <2>2. ss = <<>>
    BY <1>1, <1>2
  <2>3. UNION {A[i] : i \in 1 .. n} = {}
    BY <1>2
  <2> QED
    BY <2>1, <2>2, <2>3, EnumeratesNone
<1>3. CASE n > 0
  <2>1. PICK f : Joins(ss, n, f) /\ FlattenSeq(ss) = f[n]
    BY <1>1, <1>3, FlattenJoins
  <2> DEFINE upTo(m) == UNION {A[i] : i \in 1 .. m}
             G == {m \in Nat : m + 1 <= n => Enumerates(f[m + 1], upTo(m + 1))}
  <2>2. \A i \in 1 .. n : f[i] = IF i = 1 THEN ss[i] ELSE f[i - 1] \o ss[i]
    BY <2>1, Zenon DEF Joins
  <2>3. 0 \in G
    <3>1. upTo(1) = A[1] /\ 1 \in 1 .. n
      BY <1>3
    <3>2. f[1] = ss[1]
      BY <2>2, <3>1
    <3>3. Enumerates(f[1], A[1])
      BY <3>1, <3>2
    <3> HIDE DEF upTo
    <3> QED
      BY <3>1, <3>3
  <2>4. ASSUME NEW m \in Nat, m \in G PROVE m + 1 \in G
    <3> SUFFICES ASSUME (m + 1) + 1 <= n PROVE Enumerates(f[(m + 1) + 1], upTo((m + 1) + 1))
      OBVIOUS
    <3>1. PICK k \in 1 .. n : k = m + 2 /\ k - 1 = m + 1 /\ k # 1
      OBVIOUS
    <3>2. Enumerates(f[m + 1], upTo(m + 1))
      BY <2>4
    <3>3. f[k] = f[m + 1] \o ss[k]
      BY <2>2, <3>1
    <3>4. upTo(m + 1) \cap A[k] = {}
      <4>1. \A i \in 1 .. m + 1 : i \in 1 .. n /\ i # k
        BY <3>1
      <4> QED
        BY <4>1
    <3>5. upTo(k) = upTo(m + 1) \union A[k]
      <4>1. 1 .. k = (1 .. m + 1) \union {k}
        BY <3>1
      <4> QED
        BY <4>1
    <3> HIDE DEF upTo
    <3>6. Enumerates(f[k], upTo(k))
      <4>1. Enumerates(ss[k], A[k])
        OBVIOUS
      <4>2. Enumerates(f[m + 1] \o ss[k], upTo(m + 1) \union A[k])
        BY <3>2, <3>4, <4>1, EnumeratesConcat
      <4> QED
        BY <3>3, <3>5, <4>2, Zenon
    <3>7. (m + 1) + 1 = k
      BY <3>1
    <3> QED
      BY <3>6, <3>7
  <2> HIDE DEF G
  <2>5. \A m \in Nat : m \in G
    BY <2>3, <2>4, NatSetInduction
  <2> HIDE DEF upTo
  <2>6. PICK m \in Nat : m + 1 = n
    <3>1. n - 1 \in Nat /\ (n - 1) + 1 = n
      BY <1>3
    <3> QED
      BY <3>1
  <2>7. Enumerates(f[n], upTo(n))
    <3>1. m + 1 <= n => Enumerates(f[m + 1], upTo(m + 1))
      BY <2>5, <2>6, Zenon DEF G
    <3>2. m + 1 <= n
      BY <2>6
    <3> QED
      BY <2>6, <3>1, <3>2, Zenon
  <2> QED
    BY <2>1, <2>7 DEF upTo
<1> QED
  BY <1>2, <1>3

-----------------------------------------------------------------------------
\* The rows and columns a model is given.
RowMembers(p, i) ==
  IF Fixes(p.rowLo[i], p.rowUp[i]) THEN {[kind |-> "eq", of |-> i]}
  ELSE (IF p.rowUp[i].finite THEN {[kind |-> "up", of |-> i]} ELSE {})
         \union (IF p.rowLo[i].finite THEN {[kind |-> "lo", of |-> i]} ELSE {})
RangeMembers(p, j) ==
  IF p.lo[j].finite /\ p.up[j].finite /\ p.lo[j].value # p.up[j].value
  THEN {[kind |-> "range", of |-> j]} ELSE {}
RowSet(p) == (UNION {RowMembers(p, i) : i \in p.rows}) \union (UNION {RangeMembers(p, j) : j \in p.vars})

SignSet(p, j) ==
  IF Fixes(p.lo[j], p.up[j]) THEN {}
  ELSE IF p.lo[j].finite THEN {1} ELSE IF p.up[j].finite THEN {-1} ELSE {1, -1}
StructuralMembers(p, j) == {[kind |-> "x", var |-> j, sign |-> s] : s \in SignSet(p, j)}
SlackMembers(r) == IF r.kind = "eq" THEN {} ELSE {[kind |-> "slack", row |-> r]}
ColumnSet(p) ==
  (UNION {StructuralMembers(p, j) : j \in p.vars}) \union (UNION {SlackMembers(r) : r \in RowSet(p)})

\* add_canonical_row and the loop over boxed variables list every canonical row
\* once,
LEMMA RowsListed ==
  ASSUME NEW p, WellFormed(p) PROVE Enumerates(RowsOf(p), RowSet(p))
<1>1. PICK n \in Nat : p.rows = 1 .. n
  BY FS_CardinalityType DEF WellFormed
<1>0. PICK m \in Nat : p.vars = 1 .. m
  BY FS_CardinalityType DEF WellFormed
<1> DEFINE rs == [i \in 1 .. n |-> RowsFor(p, i)]
           vs == [j \in 1 .. m |-> RangeRow(p, j)]
           A == [i \in 1 .. n |-> RowMembers(p, i)]
           B == [j \in 1 .. m |-> RangeMembers(p, j)]
           RA == UNION {A[i] : i \in 1 .. n}
           RB == UNION {B[j] : j \in 1 .. m}
<1>2. ASSUME NEW i \in 1 .. n PROVE Enumerates(RowsFor(p, i), RowMembers(p, i))
  <2> DEFINE e == [kind |-> "eq", of |-> i]
             u == [kind |-> "up", of |-> i]
             l == [kind |-> "lo", of |-> i]
  <2>1. Enumerates(<<e>>, {e}) /\ Enumerates(<<>>, {}) /\ Enumerates(<<u>>, {u}) /\ Enumerates(<<l>>, {l})
    BY EnumeratesOne, EnumeratesNone
  <2>2. u # l
    OBVIOUS
  <2> HIDE DEF e, u, l
  <2> DEFINE us == IF p.rowUp[i].finite THEN <<u>> ELSE <<>>
             ls == IF p.rowLo[i].finite THEN <<l>> ELSE <<>>
             U == IF p.rowUp[i].finite THEN {u} ELSE {}
             L == IF p.rowLo[i].finite THEN {l} ELSE {}
  <2>3. Enumerates(us, U) /\ Enumerates(ls, L) /\ U \cap L = {}
    BY <2>1, <2>2
  <2>4. /\ RowsFor(p, i) = IF Fixes(p.rowLo[i], p.rowUp[i]) THEN <<e>> ELSE us \o ls
        /\ RowMembers(p, i) = IF Fixes(p.rowLo[i], p.rowUp[i]) THEN {e} ELSE U \union L
    BY DEF RowsFor, RowMembers, e, u, l
  <2> HIDE DEF us, ls, U, L
  <2>5. Enumerates(us \o ls, U \union L)
    BY <2>3, EnumeratesConcat
  <2> QED
    BY <2>1, <2>4, <2>5
<1>3. ASSUME NEW j \in 1 .. m PROVE Enumerates(RangeRow(p, j), RangeMembers(p, j))
  BY EnumeratesOne, EnumeratesNone DEF RangeRow, RangeMembers
<1>4. /\ \A i \in 1 .. n : \A r \in A[i] : r.of = i /\ r.kind \in {"eq", "up", "lo"}
      /\ \A j \in 1 .. m : \A r \in B[j] : r.of = j /\ r.kind = "range"
  BY DEF RowMembers, RangeMembers
<1>5. /\ rs = [i \in 1 .. n |-> rs[i]] /\ vs = [j \in 1 .. m |-> vs[j]]
      /\ (\A i \in 1 .. n : Enumerates(rs[i], A[i])) /\ (\A j \in 1 .. m : Enumerates(vs[j], B[j]))
  BY <1>2, <1>3
<1>6. RowsOf(p) = FlattenSeq(rs) \o FlattenSeq(vs)
  BY <1>0, <1>1 DEF RowsOf
<1>7. RowSet(p) = RA \union RB
  <2>1. {A[i] : i \in 1 .. n} = {RowMembers(p, i) : i \in p.rows}
    BY <1>1
  <2>2. {B[j] : j \in 1 .. m} = {RangeMembers(p, j) : j \in p.vars}
    BY <1>0
  <2> HIDE DEF A, B
  <2> QED
    BY <2>1, <2>2, Zenon DEF RowSet
<1> HIDE DEF rs, vs, A, B
<1>8. /\ \A i, j \in 1 .. n : i # j => A[i] \cap A[j] = {}
      /\ \A i, j \in 1 .. m : i # j => B[i] \cap B[j] = {}
  <2>1. ASSUME NEW i \in 1 .. n, NEW j \in 1 .. n, i # j PROVE A[i] \cap A[j] = {}
    BY <1>4, <2>1
  <2>2. ASSUME NEW i \in 1 .. m, NEW j \in 1 .. m, i # j PROVE B[i] \cap B[j] = {}
    BY <1>4, <2>2
  <2> QED
    BY <2>1, <2>2
<1>9. RA \cap RB = {}
  <2> SUFFICES ASSUME NEW r, r \in RA, r \in RB PROVE FALSE
    OBVIOUS
  <2>1. PICK i \in 1 .. n : r \in A[i]
    OBVIOUS
  <2>2. PICK j \in 1 .. m : r \in B[j]
    OBVIOUS
  <2> QED
    BY <1>4, <2>1, <2>2
<1>10. Enumerates(FlattenSeq(rs), RA)
  <2>1. rs = [i \in 1 .. n |-> rs[i]]
    BY <1>5
  <2>2. \A i \in 1 .. n : Enumerates(rs[i], A[i])
    BY <1>5
  <2>3. \A i, j \in 1 .. n : i # j => A[i] \cap A[j] = {}
    BY <1>8
  <2> QED
    BY <2>1, <2>2, <2>3, EnumeratesFlat
<1>11. Enumerates(FlattenSeq(vs), RB)
  <2>1. vs = [j \in 1 .. m |-> vs[j]]
    BY <1>5
  <2>2. \A j \in 1 .. m : Enumerates(vs[j], B[j])
    BY <1>5
  <2>3. \A i, j \in 1 .. m : i # j => B[i] \cap B[j] = {}
    BY <1>8
  <2> QED
    BY <2>1, <2>2, <2>3, EnumeratesFlat
<1> HIDE DEF RA, RB
<1>12. Enumerates(FlattenSeq(rs) \o FlattenSeq(vs), RA \union RB)
  BY <1>9, <1>10, <1>11, EnumeratesConcat
<1> QED
  BY <1>6, <1>7, <1>12, Zenon

\* and the columns are listed once as well.
LEMMA ColumnsListed ==
  ASSUME NEW p, WellFormed(p) PROVE Enumerates(ColsOf(p), ColumnSet(p))
<1>1. PICK R : R = RowsOf(p)
  OBVIOUS
<1>2. Enumerates(R, RowSet(p))
  BY <1>1, RowsListed
<1>3. PICK n \in Nat : DOMAIN R = 1 .. n
  <2>1. R \in Seq(RowSet(p))
    BY <1>2 DEF Enumerates
  <2> QED
    BY <2>1, LenProperties
<1>4. PICK m \in Nat : p.vars = 1 .. m
  BY FS_CardinalityType DEF WellFormed
<1> DEFINE xs == [j \in 1 .. m |-> [q \in DOMAIN Signs(p, j) |-> [kind |-> "x", var |-> j, sign |-> Signs(p, j)[q]]]]
           ss == [k \in 1 .. n |-> SlackFor(R[k])]
           A == [j \in 1 .. m |-> StructuralMembers(p, j)]
           B == [k \in 1 .. n |-> SlackMembers(R[k])]
           RA == UNION {A[j] : j \in 1 .. m}
           RB == UNION {B[k] : k \in 1 .. n}
<1>5. ASSUME NEW j \in 1 .. m PROVE Enumerates(xs[j], StructuralMembers(p, j))
  <2> DEFINE u == [kind |-> "x", var |-> j, sign |-> 1]
             l == [kind |-> "x", var |-> j, sign |-> -1]
  <2>1. /\ Enumerates(<<>>, {}) /\ Enumerates(<<u>>, {u}) /\ Enumerates(<<l>>, {l})
        /\ Enumerates(<<u, l>>, {u, l})
    <3>1. u # l
      OBVIOUS
    <3> HIDE DEF u, l
    <3> QED
      BY <3>1, EnumeratesNone, EnumeratesOne, EnumeratesTwo
  <2>2. CASE Fixes(p.lo[j], p.up[j])
    <3>1. Signs(p, j) = <<>> /\ SignSet(p, j) = {}
      BY <2>2 DEF Signs, SignSet
    <3>2. xs[j] = <<>> /\ StructuralMembers(p, j) = {}
      BY <3>1 DEF StructuralMembers
    <3> QED
      BY <2>1, <3>2
  <2>3. CASE ~ Fixes(p.lo[j], p.up[j]) /\ p.lo[j].finite
    <3>1. Signs(p, j) = <<1>> /\ SignSet(p, j) = {1}
      BY <2>3 DEF Signs, SignSet
    <3>2. xs[j] = <<u>> /\ StructuralMembers(p, j) = {u}
      BY <3>1 DEF StructuralMembers
    <3> QED
      BY <2>1, <3>2
  <2>4. CASE ~ Fixes(p.lo[j], p.up[j]) /\ ~ p.lo[j].finite /\ p.up[j].finite
    <3>1. Signs(p, j) = <<-1>> /\ SignSet(p, j) = {-1}
      BY <2>4 DEF Signs, SignSet
    <3>2. xs[j] = <<l>> /\ StructuralMembers(p, j) = {l}
      BY <3>1 DEF StructuralMembers
    <3> QED
      BY <2>1, <3>2
  <2>5. CASE ~ Fixes(p.lo[j], p.up[j]) /\ ~ p.lo[j].finite /\ ~ p.up[j].finite
    <3>1. Signs(p, j) = <<1, -1>> /\ SignSet(p, j) = {1, -1}
      BY <2>5 DEF Signs, SignSet
    <3>2. xs[j] = <<u, l>> /\ StructuralMembers(p, j) = {u, l}
      BY <3>1 DEF StructuralMembers
    <3> QED
      BY <2>1, <3>2
  <2> QED
    BY <2>2, <2>3, <2>4, <2>5
<1>6. ASSUME NEW k \in 1 .. n PROVE Enumerates(ss[k], SlackMembers(R[k]))
  BY EnumeratesNone, EnumeratesOne DEF SlackFor, SlackMembers
<1>7. /\ \A j \in 1 .. m : \A c \in A[j] : c.kind = "x" /\ c.var = j
      /\ \A k \in 1 .. n : \A c \in B[k] : c.kind = "slack" /\ c.row = R[k]
  BY DEF StructuralMembers, SlackMembers
<1>8. /\ xs = [j \in 1 .. m |-> xs[j]] /\ ss = [k \in 1 .. n |-> ss[k]]
      /\ (\A j \in 1 .. m : Enumerates(xs[j], A[j])) /\ (\A k \in 1 .. n : Enumerates(ss[k], B[k]))
  BY <1>5, <1>6
<1>9. ColsOf(p) = FlattenSeq(xs) \o FlattenSeq(ss)
  <2>1. Slacks(p) = FlattenSeq([k \in DOMAIN R |-> SlackFor(R[k])])
    BY <1>1, Zenon DEF Slacks
  <2> QED
    BY <1>3, <1>4, <2>1, Zenon DEF ColsOf, Structurals
<1>10. ColumnSet(p) = RA \union RB
  <2>1. {A[j] : j \in 1 .. m} = {StructuralMembers(p, j) : j \in p.vars}
    BY <1>4
  <2>2. {B[k] : k \in 1 .. n} = {SlackMembers(r) : r \in RowSet(p)}
    <3>1. \A k \in 1 .. n : R[k] \in RowSet(p)
      BY <1>2, <1>3 DEF Enumerates
    <3>2. \A r \in RowSet(p) : \E k \in 1 .. n : R[k] = r
      BY <1>2, <1>3 DEF Enumerates
    <3> QED
      BY <3>1, <3>2
  <2> HIDE DEF A, B
  <2> QED
    BY <2>1, <2>2, Zenon DEF ColumnSet
<1> HIDE DEF xs, ss, A, B
<1>11. \A i, j \in 1 .. m : i # j => A[i] \cap A[j] = {}
  <2>1. ASSUME NEW i \in 1 .. m, NEW j \in 1 .. m, i # j PROVE A[i] \cap A[j] = {}
    BY <1>7, <2>1
  <2> QED
    BY <2>1
<1>12. \A k, l \in 1 .. n : k # l => B[k] \cap B[l] = {}
  <2>1. ASSUME NEW k \in 1 .. n, NEW l \in 1 .. n, k # l PROVE B[k] \cap B[l] = {}
    <3>1. R[k] # R[l]
      BY <1>2, <1>3, <2>1 DEF Enumerates
    <3> QED
      BY <1>7, <3>1
  <2> QED
    BY <2>1
<1>13. RA \cap RB = {}
  <2> SUFFICES ASSUME NEW r, r \in RA, r \in RB PROVE FALSE
    OBVIOUS
  <2>1. PICK i \in 1 .. m : r \in A[i]
    OBVIOUS
  <2>2. PICK j \in 1 .. n : r \in B[j]
    OBVIOUS
  <2> QED
    BY <1>7, <2>1, <2>2
<1>14. Enumerates(FlattenSeq(xs), RA)
  <2>1. xs = [j \in 1 .. m |-> xs[j]]
    BY <1>8
  <2>2. \A j \in 1 .. m : Enumerates(xs[j], A[j])
    BY <1>8
  <2> QED
    BY <1>11, <2>1, <2>2, EnumeratesFlat
<1>15. Enumerates(FlattenSeq(ss), RB)
  <2>1. ss = [k \in 1 .. n |-> ss[k]]
    BY <1>8
  <2>2. \A k \in 1 .. n : Enumerates(ss[k], B[k])
    BY <1>8
  <2> QED
    BY <1>12, <2>1, <2>2, EnumeratesFlat, SMTT(30)
<1> HIDE DEF RA, RB
<1>16. Enumerates(FlattenSeq(xs) \o FlattenSeq(ss), RA \union RB)
  BY <1>13, <1>14, <1>15, EnumeratesConcat
<1> QED
  BY <1>9, <1>10, <1>16, Zenon

-----------------------------------------------------------------------------
\* The columns that stand for a variable.
Parts(p, j) == {k \in DOMAIN ColsOf(p) : ColsOf(p)[k].kind = "x" /\ ColsOf(p)[k].var = j}

\* What a row stands for: an equation or one side of a row given, or the upper
\* bound of a variable that has both.
RowOfModel(p, r) ==
  \/ /\ r.kind \in {"eq", "up", "lo"} /\ r.of \in p.rows
     /\ r.kind = "eq" => Fixes(p.rowLo[r.of], p.rowUp[r.of])
     /\ r.kind = "up" => p.rowUp[r.of].finite
     /\ r.kind = "lo" => p.rowLo[r.of].finite
  \/ r.kind = "range" /\ r.of \in p.vars /\ p.lo[r.of].finite /\ p.up[r.of].finite
     /\ p.lo[r.of].value # p.up[r.of].value
ColumnOfModel(p, c) ==
  \/ c.kind = "x" /\ c.var \in p.vars /\ c.sign \in SignSet(p, c.var)
  \/ c.kind = "slack" /\ c.row \in RowSet(p) /\ c.row.kind # "eq"

\* Every row listed stands for a bound of the model.
LEMMA RowMeaning ==
  ASSUME NEW p, NEW r \in RowSet(p) PROVE RowOfModel(p, r)
<1>1. CASE \E i \in p.rows : r \in RowMembers(p, i)
  BY <1>1 DEF RowMembers, RowOfModel
<1>2. CASE \E j \in p.vars : r \in RangeMembers(p, j)
  BY <1>2 DEF RangeMembers, RowOfModel
<1> QED
  BY <1>1, <1>2 DEF RowSet

\* The positions of the rows are finitely many and name each row once.
LEMMA RowsMeaning ==
  ASSUME NEW p, WellFormed(p)
  PROVE  /\ IsFiniteSet(DOMAIN RowsOf(p))
         /\ \A i \in DOMAIN RowsOf(p) : RowsOf(p)[i] \in RowSet(p) /\ RowOfModel(p, RowsOf(p)[i])
         /\ \A i, k \in DOMAIN RowsOf(p) : RowsOf(p)[i] = RowsOf(p)[k] => i = k
         /\ \A r \in RowSet(p) : \E i \in DOMAIN RowsOf(p) : RowsOf(p)[i] = r
<1>1. Enumerates(RowsOf(p), RowSet(p))
  BY RowsListed
<1>2. PICK R : R = RowsOf(p)
  OBVIOUS
<1>3. R \in Seq(RowSet(p))
  BY <1>1, <1>2 DEF Enumerates
<1>4. DOMAIN R = 1 .. Len(R) /\ Len(R) \in Nat /\ \A i \in DOMAIN R : R[i] \in RowSet(p)
  BY <1>3, LenProperties
<1>5. IsFiniteSet(DOMAIN R)
  BY <1>4, FS_Interval
<1> QED
  BY <1>1, <1>2, <1>4, <1>5, RowMeaning DEF Enumerates

\* Every column stands for a side of a variable or for the slack of a row.
LEMMA ColumnMeaning ==
  ASSUME NEW p, NEW c \in ColumnSet(p) PROVE ColumnOfModel(p, c)
<1>1. CASE \E j \in p.vars : c \in StructuralMembers(p, j)
  BY <1>1 DEF StructuralMembers, ColumnOfModel
<1>2. CASE \E r \in RowSet(p) : c \in SlackMembers(r)
  BY <1>2 DEF SlackMembers, ColumnOfModel
<1> QED
  BY <1>1, <1>2 DEF ColumnSet

\* The positions of the columns are finitely many and name each column once.
LEMMA ColumnsMeaning ==
  ASSUME NEW p, WellFormed(p)
  PROVE  /\ IsFiniteSet(DOMAIN ColsOf(p))
         /\ \A k \in DOMAIN ColsOf(p) : ColumnOfModel(p, ColsOf(p)[k])
         /\ \A k, l \in DOMAIN ColsOf(p) : ColsOf(p)[k] = ColsOf(p)[l] => k = l
         /\ \A c \in ColumnSet(p) : \E k \in DOMAIN ColsOf(p) : ColsOf(p)[k] = c
<1>1. Enumerates(ColsOf(p), ColumnSet(p))
  BY ColumnsListed
<1>2. PICK C : C = ColsOf(p)
  OBVIOUS
<1>3. C \in Seq(ColumnSet(p))
  BY <1>1, <1>2 DEF Enumerates
<1>4. DOMAIN C = 1 .. Len(C) /\ Len(C) \in Nat /\ \A k \in DOMAIN C : C[k] \in ColumnSet(p)
  BY <1>3, LenProperties
<1>5. IsFiniteSet(DOMAIN C)
  BY <1>4, FS_Interval
<1> QED
  BY <1>1, <1>2, <1>4, <1>5, ColumnMeaning DEF Enumerates

\* Each row but an equation has one slack column.
LEMMA OneSlack ==
  ASSUME NEW p, WellFormed(p), NEW r \in RowSet(p), r.kind # "eq"
  PROVE  \E k \in DOMAIN ColsOf(p) :
           /\ ColsOf(p)[k].kind = "slack" /\ ColsOf(p)[k].row = r
           /\ \A l \in DOMAIN ColsOf(p) : ColsOf(p)[l].kind = "slack" /\ ColsOf(p)[l].row = r => l = k
<1> DEFINE s == [kind |-> "slack", row |-> r]
<1>1. s \in ColumnSet(p)
  BY DEF ColumnSet, SlackMembers
<1>2. PICK k \in DOMAIN ColsOf(p) : ColsOf(p)[k] = s
  BY <1>1, ColumnsMeaning
<1>3. PICK C : C = ColsOf(p)
  OBVIOUS
<1>4. C \in Seq(ColumnSet(p)) /\ \A l \in DOMAIN C : C[l] \in ColumnSet(p)
  <2>1. C \in Seq(ColumnSet(p))
    BY <1>3, ColumnsListed DEF Enumerates
  <2> QED
    BY <2>1, LenProperties
<1>5. ASSUME NEW c \in ColumnSet(p), c.kind = "slack", c.row = r PROVE c = s
  BY <1>5 DEF ColumnSet, SlackMembers, StructuralMembers
<1>6. ASSUME NEW l \in DOMAIN ColsOf(p), ColsOf(p)[l].kind = "slack", ColsOf(p)[l].row = r PROVE l = k
  <2>1. ColsOf(p)[l] = s
    BY <1>3, <1>4, <1>5, <1>6
  <2> QED
    BY <1>2, <2>1, ColumnsMeaning
<1> QED
  BY <1>2, <1>6

\* The columns of a variable: none if it is fixed, one that counts from the
\* bound it has, or two of opposite sign.
LEMMA PartsOfVariable ==
  ASSUME NEW p, WellFormed(p), NEW j \in p.vars
  PROVE  LET C == ColsOf(p)
         IN  IF Fixes(p.lo[j], p.up[j]) THEN Parts(p, j) = {}
             ELSE IF p.lo[j].finite THEN \E k \in DOMAIN C : Parts(p, j) = {k} /\ C[k].sign = 1
             ELSE IF p.up[j].finite THEN \E k \in DOMAIN C : Parts(p, j) = {k} /\ C[k].sign = -1
             ELSE \E k, l \in DOMAIN C : k # l /\ Parts(p, j) = {k, l} /\ C[k].sign = 1 /\ C[l].sign = -1
<1> DEFINE C == ColsOf(p)
           x(s) == [kind |-> "x", var |-> j, sign |-> s]
<1>1. \A s \in SignSet(p, j) : \E k \in DOMAIN C : C[k] = x(s)
  <2> SUFFICES ASSUME NEW s \in SignSet(p, j) PROVE x(s) \in ColumnSet(p)
    BY ColumnsMeaning
  <2> QED
    BY DEF ColumnSet, StructuralMembers
<1>2. ASSUME NEW k \in Parts(p, j) PROVE k \in DOMAIN C /\ C[k].sign \in SignSet(p, j) /\ C[k] = x(C[k].sign)
  <2>1. k \in DOMAIN C /\ C[k].kind = "x" /\ C[k].var = j
    BY DEF Parts
  <2>2. PICK D : D = ColsOf(p)
    OBVIOUS
  <2>3. D \in Seq(ColumnSet(p)) /\ \A l \in DOMAIN D : D[l] \in ColumnSet(p)
    <3>1. D \in Seq(ColumnSet(p))
      BY <2>2, ColumnsListed DEF Enumerates
    <3> QED
      BY <3>1, LenProperties
  <2>4. C[k] \in ColumnSet(p)
    BY <2>1, <2>2, <2>3
  <2> QED
    BY <2>1, <2>4 DEF ColumnSet, StructuralMembers, SlackMembers
<1>3. \A k, l \in DOMAIN C : C[k] = C[l] => k = l
  BY ColumnsMeaning
<1>4. \A k \in DOMAIN C : C[k].kind = "x" /\ C[k].var = j => k \in Parts(p, j)
  BY DEF Parts
<1>5. CASE Fixes(p.lo[j], p.up[j])
  BY <1>2, <1>5 DEF SignSet
<1>6. CASE ~ Fixes(p.lo[j], p.up[j]) /\ p.lo[j].finite
  <2>1. SignSet(p, j) = {1}
    BY <1>6 DEF SignSet
  <2>2. PICK k \in DOMAIN C : C[k] = x(1)
    BY <1>1, <2>1
  <2>3. k \in Parts(p, j) /\ C[k].sign = 1
    BY <1>4, <2>2
  <2>4. \A l \in Parts(p, j) : l = k
    BY <1>2, <1>3, <2>1, <2>2
  <2> QED
    BY <1>6, <2>3, <2>4
<1>7. CASE ~ Fixes(p.lo[j], p.up[j]) /\ ~ p.lo[j].finite /\ p.up[j].finite
  <2>1. SignSet(p, j) = {-1}
    BY <1>7 DEF SignSet
  <2>2. PICK k \in DOMAIN C : C[k] = x(-1)
    BY <1>1, <2>1
  <2>3. k \in Parts(p, j) /\ C[k].sign = -1
    BY <1>4, <2>2
  <2>4. \A l \in Parts(p, j) : l = k
    BY <1>2, <1>3, <2>1, <2>2
  <2> QED
    BY <1>7, <2>3, <2>4
<1>8. CASE ~ Fixes(p.lo[j], p.up[j]) /\ ~ p.lo[j].finite /\ ~ p.up[j].finite
  <2>1. SignSet(p, j) = {1, -1}
    BY <1>8 DEF SignSet
  <2>2. PICK k \in DOMAIN C : C[k] = x(1)
    BY <1>1, <2>1
  <2>3. PICK l \in DOMAIN C : C[l] = x(-1)
    BY <1>1, <2>1
  <2>4. k \in Parts(p, j) /\ C[k].sign = 1 /\ l \in Parts(p, j) /\ C[l].sign = -1
    BY <1>4, <2>2, <2>3
  <2>5. ASSUME NEW q \in Parts(p, j) PROVE q = k \/ q = l
    <3>1. q \in DOMAIN C /\ C[q] = x(C[q].sign) /\ C[q].sign \in {1, -1}
      BY <1>2, <2>1
    <3>2. C[q] = C[k] \/ C[q] = C[l]
      BY <2>2, <2>3, <3>1
    <3> QED
      BY <1>3, <2>2, <2>3, <3>1, <3>2
  <2> QED
    BY <1>8, <2>4, <2>5
<1> QED
  BY <1>5, <1>6, <1>7, <1>8

-----------------------------------------------------------------------------
\* A sum taken class by class.
LEMMA TotalClasses ==
  ASSUME NEW S, IsFiniteSet(S), NEW V, IsFiniteSet(V), NEW v, \A k \in S : v[k] \in V,
         NEW f, AllInt(f, S)
  PROVE  Total(f, S) = Total([j \in V |-> Total(f, {k \in S : v[k] = j})], V)
<1> DEFINE t == [k \in S |-> [j \in V |-> IF v[k] = j THEN f[k] ELSE 0]]
           class(j) == {k \in S : v[k] = j}
<1>1. \A k \in S, j \in V : t[k][j] \in Int
  BY DEF AllInt
<1>2. Total([k \in S |-> Total([j \in V |-> t[k][j]], V)], S)
        = Total([j \in V |-> Total([k \in S |-> t[k][j]], S)], V)
  <2> HIDE DEF t
  <2> QED
    BY <1>1, TotalExchange
<1>3. ASSUME NEW k \in S PROVE Total([j \in V |-> t[k][j]], V) = f[k]
  <2> DEFINE g == [j \in V |-> t[k][j]]
  <2>1. v[k] \in V /\ g[v[k]] = f[k] /\ f[k] \in Int /\ \A j \in V \ {v[k]} : g[j] = 0
    BY DEF AllInt
  <2> HIDE DEF g
  <2>2. Total(g, V) = g[v[k]]
    BY <2>1, TotalSingle
  <2> QED
    BY <2>1, <2>2 DEF g
<1>4. ASSUME NEW j \in V PROVE Total([k \in S |-> t[k][j]], S) = Total(f, class(j))
  <2> DEFINE g == [k \in S |-> t[k][j]]
  <2>1. AllInt(g, S) /\ class(j) \in SUBSET S /\ (\A k \in S \ class(j) : g[k] = 0)
    BY <1>1 DEF AllInt
  <2>2. IsFiniteSet(class(j)) /\ AllInt(g, class(j)) /\ \A k \in class(j) : g[k] = f[k]
    BY FS_Subset DEF AllInt
  <2> HIDE DEF g, class
  <2>3. Total(g, S) = Total(g, class(j)) /\ Total(g, class(j)) = Total(f, class(j))
    BY <2>1, <2>2, TotalSupport, TotalEqual
  <2> QED
    BY <2>3 DEF g
<1>5. Total([k \in S |-> f[k]], S) = Total(f, S)
  <2> DEFINE g == [k \in S |-> f[k]]
  <2>1. AllInt(g, S) /\ \A k \in S : g[k] = f[k]
    BY DEF AllInt
  <2> HIDE DEF g
  <2>2. Total(g, S) = Total(f, S)
    BY <2>1, TotalEqual
  <2> QED
    BY <2>2 DEF g
<1> HIDE DEF t
<1>6. /\ [k \in S |-> Total([j \in V |-> t[k][j]], V)] = [k \in S |-> f[k]]
      /\ [j \in V |-> Total([k \in S |-> t[k][j]], S)] = [j \in V |-> Total(f, class(j))]
  BY <1>3, <1>4
<1> QED
  BY <1>2, <1>5, <1>6, Zenon

WeightedSum(p, w, x) == Total([j \in p.vars |-> w[j] * x[j]], p.vars)
Offsets(p) == [j \in p.vars |-> Offset(p, j)]
StructuralColumns(p) == {k \in DOMAIN ColsOf(p) : ColsOf(p)[k].kind = "x"}

\* Weighted sums are integers.
LEMMA WeightedSumType ==
  ASSUME NEW p, WellFormed(p), NEW w, AllInt(w, p.vars), NEW x, AllInt(x, p.vars)
  PROVE  WeightedSum(p, w, x) \in Int
<1>1. IsFiniteSet(p.vars) /\ AllInt([j \in p.vars |-> w[j] * x[j]], p.vars)
  BY DEF WellFormed, AllInt
<1> QED
  BY <1>1, TotalType DEF WeightedSum

\* So are the offsets of the variables.
LEMMA OffsetsType ==
  ASSUME NEW p, WellFormed(p) PROVE AllInt(Offsets(p), p.vars)
  BY DEF WellFormed, Offsets, Offset, Bounds, IsBound, AllInt

\* What reconstruct_primal gives a variable, and what the columns of the
\* variables are worth at any weights.
LEMMA ReconstructedType ==
  ASSUME NEW p, WellFormed(p), NEW X, AllInt(X, DOMAIN ColsOf(p)), NEW d \in Int
  PROVE  /\ Reconstruct(p, X, d) \in [p.vars -> Int]
         /\ \A j \in p.vars : /\ Total([k \in Parts(p, j) |-> ColsOf(p)[k].sign * X[k]], Parts(p, j)) \in Int
                               /\ Reconstruct(p, X, d)[j] = d * Offset(p, j)
                                    + Total([k \in Parts(p, j) |-> ColsOf(p)[k].sign * X[k]], Parts(p, j))
<1> DEFINE part(j) == Total([k \in Parts(p, j) |-> ColsOf(p)[k].sign * X[k]], Parts(p, j))
<1>1. Reconstruct(p, X, d) = [j \in p.vars |-> d * Offset(p, j) + part(j)]
  BY DEF Reconstruct, Parts
<1>2. ASSUME NEW j \in p.vars PROVE part(j) \in Int /\ Offset(p, j) \in Int
  <2>1. IsFiniteSet(Parts(p, j))
    BY ColumnsMeaning, FS_Subset DEF Parts
  <2>2. \A k \in Parts(p, j) : k \in DOMAIN ColsOf(p) /\ ColsOf(p)[k].sign \in {1, -1}
    BY ColumnsMeaning DEF Parts, ColumnOfModel, SignSet
  <2>3. AllInt([k \in Parts(p, j) |-> ColsOf(p)[k].sign * X[k]], Parts(p, j))
    BY <2>2 DEF AllInt
  <2>4. Offset(p, j) \in Int
    BY OffsetsType DEF Offsets, AllInt
  <2> QED
    BY <2>1, <2>3, <2>4, TotalType
<1> HIDE DEF part
<1>3. Reconstruct(p, X, d) \in [p.vars -> Int] /\ \A j \in p.vars : Reconstruct(p, X, d)[j] = d * Offset(p, j) + part(j)
  BY <1>1, <1>2
<1> QED
  BY <1>2, <1>3 DEF part

\* Weights applied to the columns of the variables are the weights applied to
\* the variables, less those of the offsets.
LEMMA WeightedColumns ==
  ASSUME NEW p, WellFormed(p), NEW w, AllInt(w, p.vars), NEW X, AllInt(X, DOMAIN ColsOf(p)), NEW d \in Int
  PROVE  Total([k \in StructuralColumns(p) |-> w[ColsOf(p)[k].var] * (ColsOf(p)[k].sign * X[k])], StructuralColumns(p))
           = WeightedSum(p, w, Reconstruct(p, X, d)) - d * WeightedSum(p, w, Offsets(p))
<1> DEFINE C == ColsOf(p)
           S == StructuralColumns(p)
           x == Reconstruct(p, X, d)
           v == [k \in S |-> C[k].var]
           e(j) == [k \in Parts(p, j) |-> C[k].sign * X[k]]
           part(j) == Total(e(j), Parts(p, j))
           f == [k \in S |-> w[C[k].var] * (C[k].sign * X[k])]
           h == [j \in p.vars |-> Total(f, {k \in S : v[k] = j})]
           a == [j \in p.vars |-> w[j] * Offsets(p)[j]]
           b == [j \in p.vars |-> w[j] * x[j]]
<1>1. IsFiniteSet(S) /\ IsFiniteSet(p.vars)
  BY ColumnsMeaning, FS_Subset DEF StructuralColumns, WellFormed
<1>2. \A k \in S : k \in DOMAIN C /\ C[k].var \in p.vars /\ C[k].sign \in {1, -1} /\ X[k] \in Int
  BY ColumnsMeaning DEF StructuralColumns, ColumnOfModel, SignSet, AllInt
<1>3. AllInt(f, S) /\ \A k \in S : v[k] \in p.vars
  BY <1>2 DEF AllInt
<1>4. Total(f, S) = Total(h, p.vars)
  <2> HIDE DEF f, v, S
  <2> QED
    BY <1>1, <1>3, TotalClasses
<1>5. ASSUME NEW j \in p.vars PROVE h[j] = w[j] * part(j)
  <2>1. {k \in S : v[k] = j} = Parts(p, j)
    BY DEF StructuralColumns, Parts
  <2>2. \A k \in Parts(p, j) : k \in S /\ f[k] = w[j] * e(j)[k] /\ e(j)[k] \in Int
    BY <1>2 DEF StructuralColumns, Parts
  <2>3. IsFiniteSet(Parts(p, j)) /\ AllInt(e(j), Parts(p, j)) /\ w[j] \in Int
    BY <1>1, <2>2, ColumnsMeaning, FS_Subset DEF Parts, AllInt
  <2>4. h[j] = Total(f, Parts(p, j))
    BY <2>1
  <2> HIDE DEF f, h, e
  <2>5. Total(f, Parts(p, j)) = w[j] * Total(e(j), Parts(p, j))
    BY <2>2, <2>3, TotalMultiple
  <2> QED
    BY <2>4, <2>5
<1>6. ASSUME NEW j \in p.vars PROVE h[j] \in Int /\ a[j] \in Int /\ b[j] \in Int /\ b[j] = h[j] + d * a[j]
  <2>1. part(j) \in Int /\ x[j] = d * Offset(p, j) + part(j)
    BY ReconstructedType
  <2>2. w[j] \in Int /\ Offset(p, j) \in Int /\ Offsets(p)[j] = Offset(p, j)
    BY OffsetsType DEF AllInt, Offsets
  <2> DEFINE pt == part(j)
             o == Offset(p, j)
             y == w[j]
             xj == x[j]
  <2>3. a[j] = y * o /\ b[j] = y * xj /\ h[j] = y * pt
    BY <1>5, <2>2
  <2>4. pt \in Int /\ o \in Int /\ y \in Int /\ xj = d * o + pt
    BY <2>1, <2>2
  <2> HIDE DEF pt, o, y, xj, a, b, h
  <2>5. y * xj = y * pt + d * (y * o)
    BY <2>4
  <2> QED
    BY <2>3, <2>4, <2>5
<1> HIDE DEF h, a, b, f
<1>7. AllInt(h, p.vars) /\ AllInt(a, p.vars)
  BY <1>6 DEF AllInt
<1>8. Total(b, p.vars) = Total(h, p.vars) + d * Total(a, p.vars)
  BY <1>1, <1>6, <1>7, TotalCombination
<1>9. Total(h, p.vars) \in Int /\ Total(a, p.vars) \in Int
  BY <1>1, <1>7, TotalType
<1>10. Total(h, p.vars) = Total(b, p.vars) - d * Total(a, p.vars)
  <2> DEFINE q == d * Total(a, p.vars)
  <2>1. q \in Int
    BY <1>9
  <2> HIDE DEF q
  <2>2. Total(h, p.vars) = Total(b, p.vars) - q
    BY <1>8, <1>9, <2>1 DEF q
  <2> QED
    BY <2>2 DEF q
<1> QED
  BY <1>4, <1>10 DEF f, a, b, WeightedSum

-----------------------------------------------------------------------------
\* What a canonical row bounds from above, as weights of the variables given,
\* the bound, and the value of its slack.
RowWeights(p, r) ==
  [j \in p.vars |-> IF r.kind = "range" THEN IF j = r.of THEN 1 ELSE 0
                    ELSE RowSign(r) * p.a[r.of][j]]
RowLimit(p, r) == IF r.kind = "range" THEN p.up[r.of].value ELSE RowSign(r) * RowBound(p, r).value
RowAt(p, r, x) == WeightedSum(p, RowWeights(p, r), x)
SlackColumn(p, r) == CHOOSE k \in DOMAIN ColsOf(p) : ColsOf(p)[k].kind = "slack" /\ ColsOf(p)[k].row = r
SlackAt(p, r, X) == IF r.kind = "eq" THEN 0 ELSE X[SlackColumn(p, r)]
CostWeights(p) == [j \in p.vars |-> p.sense * p.c[j]]

\* The weights of a row, of the costs, and the limits are integers.
LEMMA WeightsType ==
  ASSUME NEW p, WellFormed(p), NEW r \in RowSet(p)
  PROVE  AllInt(RowWeights(p, r), p.vars) /\ AllInt(CostWeights(p), p.vars) /\ RowLimit(p, r) \in Int
<1>1. RowOfModel(p, r)
  BY RowMeaning
<1>2. RowSign(r) \in Int
  BY DEF RowSign
<1>3. AllInt(RowWeights(p, r), p.vars)
  BY <1>1, <1>2 DEF RowWeights, RowOfModel, AllInt, WellFormed
<1>4. AllInt(CostWeights(p), p.vars)
  BY DEF CostWeights, AllInt, WellFormed
<1>5. RowLimit(p, r) \in Int
  BY <1>1, <1>2 DEF RowLimit, RowBound, RowOfModel, WellFormed, Bounds, IsBound
<1> QED
  BY <1>3, <1>4, <1>5

\* The right-hand side is the limit less what the offsets of the variables use.
LEMMA RhsIsLimit ==
  ASSUME NEW p, WellFormed(p), NEW r \in RowSet(p)
  PROVE  Rhs(p, r) \in Int /\ Rhs(p, r) = RowLimit(p, r) - RowAt(p, r, Offsets(p))
<1>0. RowOfModel(p, r) /\ RowLimit(p, r) \in Int /\ AllInt(Offsets(p), p.vars) /\ IsFiniteSet(p.vars)
  BY RowMeaning, WeightsType, OffsetsType DEF WellFormed
<1> DEFINE f == [j \in p.vars |-> RowWeights(p, r)[j] * Offsets(p)[j]]
<1>1. RowAt(p, r, Offsets(p)) = Total(f, p.vars)
  BY DEF RowAt, WeightedSum
<1>2. CASE r.kind = "range"
  <2>1. r.of \in p.vars /\ p.lo[r.of].finite /\ p.up[r.of].finite /\ p.lo[r.of].value \in Int /\ p.up[r.of].value \in Int
    BY <1>0, <1>2 DEF RowOfModel, WellFormed, Bounds, IsBound
  <2>2. Offsets(p)[r.of] = p.lo[r.of].value
    BY <2>1 DEF Offsets, Offset
  <2>3. \A j \in p.vars : RowWeights(p, r)[j] = IF j = r.of THEN 1 ELSE 0
    BY <1>2 DEF RowWeights
  <2>4. \A j \in p.vars : Offsets(p)[j] \in Int /\ f[j] = RowWeights(p, r)[j] * Offsets(p)[j]
    BY <1>0 DEF AllInt
  <2> HIDE DEF f
  <2>5. f[r.of] = p.lo[r.of].value /\ \A j \in p.vars \ {r.of} : f[j] = 0
    <3>1. f[r.of] = p.lo[r.of].value
      BY <2>1, <2>2, <2>3, <2>4
    <3>2. ASSUME NEW j \in p.vars \ {r.of}  PROVE f[j] = 0
      <4>1. RowWeights(p, r)[j] = 0
        BY <2>3
      <4> QED
        BY <2>4, <4>1
    <3> QED
      BY <3>1, <3>2
  <2>6. Total(f, p.vars) = f[r.of]
    BY <1>0, <2>1, <2>5, TotalSingle
  <2>7. Rhs(p, r) = p.up[r.of].value - p.lo[r.of].value /\ RowLimit(p, r) = p.up[r.of].value
    BY <1>2 DEF Rhs, RowLimit
  <2> QED
    BY <1>1, <2>1, <2>5, <2>6, <2>7
<1>3. CASE r.kind # "range"
  <2>1. r.of \in p.rows /\ RowSign(r) \in Int /\ RowBound(p, r).value \in Int
    BY <1>0, <1>3 DEF RowOfModel, RowSign, RowBound, WellFormed, Bounds, IsBound
  <2> DEFINE g == [j \in p.vars |-> p.a[r.of][j] * Offset(p, j)]
             z == RowSign(r)
             b == RowBound(p, r).value
             t == Shift(p, r.of)
  <2>2. t = Total(g, p.vars)
    BY DEF Shift
  <2>3. \A j \in p.vars : g[j] \in Int /\ f[j] = z * g[j]
    BY <1>0, <1>3, <2>1 DEF RowWeights, Offsets, AllInt, WellFormed
  <2>4. Rhs(p, r) = z * (b - t) /\ RowLimit(p, r) = z * b
    BY <1>3 DEF Rhs, RowLimit
  <2>5. z \in Int /\ b \in Int
    BY <2>1
  <2> HIDE DEF f, g, z, b, t
  <2>6. Total(f, p.vars) = z * Total(g, p.vars) /\ Total(g, p.vars) \in Int
    BY <1>0, <2>3, <2>5, TotalMultiple, TotalType DEF AllInt
  <2>7. z * (b - t) = z * b - z * t /\ z * (b - t) \in Int
    BY <2>2, <2>5, <2>6
  <2> QED
    BY <1>1, <2>2, <2>4, <2>6, <2>7
<1> QED
  BY <1>2, <1>3

\* The canonical model is a linear model with integer data; its fields.
LEMMA CanonicalFields ==
  ASSUME NEW p, WellFormed(p)
  PROVE  LET M == Canonical(p) R == RowsOf(p) C == ColsOf(p)
         IN  /\ LinearModel(M) /\ ModelRecord(M) /\ M.offset \in Int
             /\ M.rows = DOMAIN R /\ M.cols = DOMAIN C
             /\ \A i \in DOMAIN R : M.b[i] = Rhs(p, R[i]) /\ \A k \in DOMAIN C : M.a[i][k] = Entry(p, R[i], C[k])
             /\ \A k \in DOMAIN C : M.c[k] = IF C[k].kind = "x" THEN p.sense * p.c[C[k].var] * C[k].sign ELSE 0
<1> DEFINE M == Canonical(p)
<1>0. PICK R, C : R = RowsOf(p) /\ C = ColsOf(p)
  OBVIOUS
<1>1. /\ M.rows = DOMAIN R /\ M.cols = DOMAIN C
      /\ M.a = [i \in DOMAIN R |-> [k \in DOMAIN C |-> Entry(p, R[i], C[k])]]
      /\ M.b = [i \in DOMAIN R |-> Rhs(p, R[i])]
      /\ M.c = [k \in DOMAIN C |-> IF C[k].kind = "x" THEN p.sense * p.c[C[k].var] * C[k].sign ELSE 0]
      /\ M.offset = p.sense * Total([j \in p.vars |-> p.c[j] * Offset(p, j)], p.vars) + p.offset
      /\ DOMAIN M = {"rows", "cols", "a", "b", "c", "offset"}
  BY <1>0 DEF Canonical
<1> HIDE DEF M
<1>2. /\ \A i \in DOMAIN R : R[i] \in RowSet(p) /\ RowOfModel(p, R[i])
      /\ \A k \in DOMAIN C : ColumnOfModel(p, C[k])
      /\ IsFiniteSet(DOMAIN R) /\ IsFiniteSet(DOMAIN C)
  BY <1>0, RowsMeaning, ColumnsMeaning
<1>3. ASSUME NEW i \in DOMAIN R, NEW k \in DOMAIN C PROVE Entry(p, R[i], C[k]) \in Int
  <2>1. RowOfModel(p, R[i]) /\ ColumnOfModel(p, C[k])
    BY <1>2
  <2>2. CASE C[k].kind = "slack"
    BY <2>2 DEF Entry
  <2>3. CASE C[k].kind = "x"
    <3>1. C[k].var \in p.vars /\ C[k].sign \in Int /\ C[k].kind # "slack"
      BY <2>1, <2>3 DEF ColumnOfModel, SignSet
    <3>2. CASE R[i].kind = "range"
      BY <2>3, <3>1, <3>2 DEF Entry
    <3>3. CASE R[i].kind # "range"
      <4>1. p.a[R[i].of][C[k].var] \in Int /\ RowSign(R[i]) \in Int
        BY <2>1, <3>1, <3>3 DEF RowOfModel, WellFormed, RowSign
      <4> QED
        BY <2>3, <3>1, <3>3, <4>1 DEF Entry
    <3> QED
      BY <3>2, <3>3
  <2> QED
    BY <2>1, <2>2, <2>3 DEF ColumnOfModel
<1>4. \A i \in DOMAIN R : Rhs(p, R[i]) \in Int
  BY <1>2, RhsIsLimit
<1>5. \A k \in DOMAIN C : M.c[k] \in Int
  BY <1>1, <1>2 DEF ColumnOfModel, SignSet, WellFormed
<1>6. LinearModel(M)
  BY <1>1, <1>2, <1>3, <1>4, <1>5 DEF LinearModel
<1>7. ModelRecord(M)
  BY <1>1 DEF ModelRecord
<1>8. M.offset \in Int
  <2>1. AllInt([j \in p.vars |-> p.c[j] * Offset(p, j)], p.vars) /\ IsFiniteSet(p.vars)
    BY OffsetsType DEF AllInt, Offsets, WellFormed
  <2>2. Total([j \in p.vars |-> p.c[j] * Offset(p, j)], p.vars) \in Int
    BY <2>1, TotalType
  <2>3. p.sense \in Int /\ p.offset \in Int
    BY DEF WellFormed
  <2> QED
    BY <1>1, <2>2, <2>3
<1> QED
  BY <1>0, <1>1, <1>6, <1>7, <1>8 DEF M

\* The value of a canonical row at X is what the row says of the point X stands
\* for, relative to the offsets, plus the slack of the row.
LEMMA RowValueMeaning ==
  ASSUME NEW p, WellFormed(p), NEW X, AllInt(X, DOMAIN ColsOf(p)), NEW d \in Int,
         NEW i \in DOMAIN RowsOf(p)
  PROVE  LET r == RowsOf(p)[i]
         IN  /\ SlackAt(p, r, X) \in Int
             /\ RowValue(Canonical(p), i, X)
                  = (RowAt(p, r, Reconstruct(p, X, d)) - d * RowAt(p, r, Offsets(p))) + SlackAt(p, r, X)
<1>1. PICK r : r = RowsOf(p)[i]
  OBVIOUS
<1>2. r \in RowSet(p) /\ RowOfModel(p, r)
  BY <1>1, RowsMeaning
<1> DEFINE C == ColsOf(p)
           D == DOMAIN C
           S == StructuralColumns(p)
           M == Canonical(p)
           w == RowWeights(p, r)
           f == [k \in D |-> Entry(p, r, C[k]) * X[k]]
           g == [k \in S |-> w[C[k].var] * (C[k].sign * X[k])]
           x == Reconstruct(p, X, d)
<1>3. IsFiniteSet(D) /\ S \in SUBSET D /\ \A k \in D : ColumnOfModel(p, C[k]) /\ X[k] \in Int
  BY ColumnsMeaning DEF StructuralColumns, AllInt
<1>4. RowValue(M, i, X) = Total(f, D)
  <2>1. M.cols = D /\ \A k \in D : M.a[i][k] = Entry(p, r, C[k])
    BY <1>1, CanonicalFields
  <2>2. [j \in M.cols |-> M.a[i][j] * X[j]] = f
    BY <2>1
  <2> QED
    BY <2>1, <2>2, Zenon DEF RowValue
<1>5. AllInt(w, p.vars)
  BY <1>2, WeightsType
<1>6. ASSUME NEW k \in S
      PROVE  f[k] = g[k] /\ g[k] \in Int
  <2>1. k \in D /\ C[k].kind = "x" /\ C[k].var \in p.vars /\ C[k].sign \in {1, -1} /\ X[k] \in Int
    BY <1>3 DEF StructuralColumns, ColumnOfModel, SignSet
  <2>2. w[C[k].var] \in Int
    BY <1>5, <2>1 DEF AllInt
  <2>3. Entry(p, r, C[k]) = w[C[k].var] * C[k].sign
    <3>1. CASE r.kind = "range"
      BY <2>1, <3>1 DEF Entry, RowWeights
    <3>2. CASE r.kind # "range"
      BY <2>1, <3>2 DEF Entry, RowWeights
    <3> QED
      BY <3>1, <3>2
  <2> DEFINE u == w[C[k].var]
             s == C[k].sign
             z == X[k]
  <2>4. u \in Int /\ s \in Int /\ z \in Int
    BY <2>1, <2>2
  <2>5. f[k] = (u * s) * z /\ g[k] = u * (s * z)
    BY <2>1, <2>3
  <2> HIDE DEF u, s, z, f, g
  <2>6. (u * s) * z = u * (s * z) /\ u * (s * z) \in Int
    BY <2>4
  <2> QED
    BY <2>5, <2>6
<1>7. ASSUME NEW k \in D \ S
      PROVE  C[k].kind = "slack" /\ f[k] = IF C[k].row = r THEN X[k] ELSE 0
  <2>1. C[k].kind = "slack" /\ X[k] \in Int
    BY <1>3 DEF StructuralColumns, ColumnOfModel
  <2>2. f[k] = Entry(p, r, C[k]) * X[k]
    OBVIOUS
  <2>3. Entry(p, r, C[k]) = IF C[k].row = r THEN 1 ELSE 0
    BY <2>1 DEF Entry
  <2> HIDE DEF f
  <2> QED
    BY <2>1, <2>2, <2>3
<1>8. AllInt(f, D) /\ IsFiniteSet(S) /\ IsFiniteSet(D \ S) /\ AllInt(g, S) /\ AllInt(f, S)
  <2>1. \A k \in D : f[k] \in Int
    <3> HIDE DEF f, g
    <3> QED
      BY <1>3, <1>6, <1>7
  <2> HIDE DEF f, g
  <2> QED
    BY <1>3, <1>6, <2>1, FS_Subset DEF AllInt
<1>9. Total(f, D) = Total(f, S) + Total(f, D \ S)
  <2> HIDE DEF f, S, D
  <2> QED
    BY <1>3, <1>8, TotalUnion
<1>10. Total(f, S) = Total(g, S)
  <2> HIDE DEF f, g
  <2>1. \A k \in S : f[k] = g[k]
    BY <1>6
  <2> HIDE DEF S
  <2> QED
    BY <1>8, <2>1, TotalEqual
<1>11. Total(g, S) = WeightedSum(p, w, x) - d * WeightedSum(p, w, Offsets(p))
  BY <1>5, WeightedColumns
<1>12. Total(f, D \ S) = SlackAt(p, r, X) /\ SlackAt(p, r, X) \in Int
  <2>1. CASE r.kind = "eq"
    <3>1. \A k \in D \ S : C[k].row # r
      BY <1>2, <1>3, <1>7, <2>1 DEF ColumnOfModel
    <3>2. \A k \in D \ S : f[k] = 0
      <4> HIDE DEF f
      <4> QED
        BY <1>7, <3>1
    <3> HIDE DEF f, S, D
    <3>3. Total(f, D \ S) = 0
      BY <1>8, <3>2, TotalZero
    <3> QED
      BY <2>1, <3>3 DEF SlackAt
  <2>2. CASE r.kind # "eq"
    <3>1. PICK k \in D : /\ C[k].kind = "slack" /\ C[k].row = r
                         /\ \A l \in D : C[l].kind = "slack" /\ C[l].row = r => l = k
      BY <1>2, <2>2, OneSlack
    <3>2. SlackColumn(p, r) = k
      BY <3>1 DEF SlackColumn
    <3>3. k \in D \ S
      BY <3>1 DEF StructuralColumns
    <3>4. f[k] = X[k] /\ X[k] \in Int /\ \A l \in (D \ S) \ {k} : f[l] = 0
      <4> HIDE DEF f
      <4> QED
        BY <1>3, <1>7, <3>1, <3>3
    <3> HIDE DEF f, S, D
    <3>5. Total(f, D \ S) = f[k]
      BY <1>8, <3>3, <3>4, TotalSingle
    <3> QED
      BY <2>2, <3>2, <3>4, <3>5 DEF SlackAt
  <2> QED
    BY <2>1, <2>2
<1>13. RowAt(p, r, x) = WeightedSum(p, w, x) /\ RowAt(p, r, Offsets(p)) = WeightedSum(p, w, Offsets(p))
  BY DEF RowAt
<1>14. RowValue(M, i, X) = (RowAt(p, r, x) - d * RowAt(p, r, Offsets(p))) + SlackAt(p, r, X)
  <2> HIDE DEF f, g, S, D, x, w, M
  <2> QED
    BY <1>4, <1>9, <1>10, <1>11, <1>12, <1>13
<1> QED
  BY <1>1, <1>12, <1>14

\* Up to the sense and the offsets, the cost of X is the cost of the point.
LEMMA CostMeaning ==
  ASSUME NEW p, WellFormed(p), NEW X, AllInt(X, DOMAIN ColsOf(p)), NEW d \in Int
  PROVE  CostOf(Canonical(p), X)
           = WeightedSum(p, CostWeights(p), Reconstruct(p, X, d))
               - d * WeightedSum(p, CostWeights(p), Offsets(p))
<1> DEFINE C == ColsOf(p)
           D == DOMAIN C
           S == StructuralColumns(p)
           M == Canonical(p)
           w == CostWeights(p)
           f == [k \in D |-> M.c[k] * X[k]]
           g == [k \in S |-> w[C[k].var] * (C[k].sign * X[k])]
<1>3. IsFiniteSet(D) /\ S \in SUBSET D /\ \A k \in D : ColumnOfModel(p, C[k]) /\ X[k] \in Int
  BY ColumnsMeaning DEF StructuralColumns, AllInt
<1>4. CostOf(M, X) = Total(f, D)
  <2>1. M.cols = D
    BY CanonicalFields
  <2> QED
    BY <2>1 DEF CostOf
<1>5. AllInt(w, p.vars)
  BY DEF CostWeights, AllInt, WellFormed
<1>6. ASSUME NEW k \in S
      PROVE  f[k] = g[k] /\ g[k] \in Int
  <2>1. k \in D /\ C[k].kind = "x" /\ C[k].var \in p.vars /\ C[k].sign \in {1, -1} /\ X[k] \in Int
    BY <1>3 DEF StructuralColumns, ColumnOfModel, SignSet
  <2>2. w[C[k].var] \in Int /\ w[C[k].var] = p.sense * p.c[C[k].var]
    BY <1>5, <2>1 DEF AllInt, CostWeights
  <2>3. M.c[k] = w[C[k].var] * C[k].sign
    <3>1. M.c[k] = p.sense * p.c[C[k].var] * C[k].sign
      BY <2>1, CanonicalFields
    <3> QED
      BY <2>2, <3>1
  <2> DEFINE u == w[C[k].var]
             s == C[k].sign
             z == X[k]
  <2>4. u \in Int /\ s \in Int /\ z \in Int
    BY <2>1, <2>2
  <2>5. f[k] = (u * s) * z /\ g[k] = u * (s * z)
    BY <2>1, <2>3
  <2> HIDE DEF u, s, z, f, g
  <2>6. (u * s) * z = u * (s * z) /\ u * (s * z) \in Int
    BY <2>4
  <2> QED
    BY <2>5, <2>6
<1>7. ASSUME NEW k \in D \ S PROVE f[k] = 0
  <2>1. C[k].kind # "x" /\ X[k] \in Int
    BY <1>3 DEF StructuralColumns
  <2>2. M.c[k] = 0
    BY <2>1, CanonicalFields
  <2> QED
    BY <2>1, <2>2
<1>8. AllInt(f, D) /\ IsFiniteSet(S) /\ IsFiniteSet(D \ S) /\ AllInt(g, S) /\ AllInt(f, S)
  <2>1. \A k \in D : f[k] \in Int
    <3> HIDE DEF f, g
    <3> QED
      BY <1>3, <1>6, <1>7
  <2> HIDE DEF f, g
  <2> QED
    BY <1>3, <1>6, <2>1, FS_Subset DEF AllInt
<1>9. Total(f, D) = Total(f, S)
  <2> HIDE DEF f, S, D
  <2> QED
    BY <1>3, <1>7, <1>8, TotalSupport
<1>10. Total(f, S) = Total(g, S)
  <2> HIDE DEF f, g
  <2>1. \A k \in S : f[k] = g[k]
    BY <1>6
  <2> HIDE DEF S
  <2> QED
    BY <1>8, <2>1, TotalEqual
<1>11. Total(g, S) = WeightedSum(p, w, Reconstruct(p, X, d)) - d * WeightedSum(p, w, Offsets(p))
  BY <1>5, WeightedColumns
<1> QED
  BY <1>4, <1>9, <1>10, <1>11, Zenon
-----------------------------------------------------------------------------
\* What a row says of a point: the value of the variable it bounds, or the
\* activity of the row given, counted from above.
LEMMA RowAtMeaning ==
  ASSUME NEW p, WellFormed(p), NEW r \in RowSet(p), NEW x, AllInt(x, p.vars)
  PROVE  /\ RowAt(p, r, x) \in Int
         /\ r.kind = "range" => RowAt(p, r, x) = x[r.of]
         /\ r.kind # "range" => /\ Activity(p, r.of, x) \in Int
                                /\ RowAt(p, r, x) = RowSign(r) * Activity(p, r.of, x)
<1>0. RowOfModel(p, r) /\ IsFiniteSet(p.vars) /\ AllInt(RowWeights(p, r), p.vars)
  BY RowMeaning, WeightsType DEF WellFormed
<1> DEFINE f == [j \in p.vars |-> RowWeights(p, r)[j] * x[j]]
<1>1. RowAt(p, r, x) = Total(f, p.vars)
  BY DEF RowAt, WeightedSum
<1>2. RowAt(p, r, x) \in Int
  BY <1>0, WeightedSumType DEF RowAt
<1>3. CASE r.kind = "range"
  <2>1. r.of \in p.vars
    BY <1>0, <1>3 DEF RowOfModel
  <2>2. \A j \in p.vars : RowWeights(p, r)[j] = IF j = r.of THEN 1 ELSE 0
    BY <1>3 DEF RowWeights
  <2>3. \A j \in p.vars : x[j] \in Int /\ f[j] = RowWeights(p, r)[j] * x[j]
    BY DEF AllInt
  <2> HIDE DEF f
  <2>4. f[r.of] = x[r.of] /\ x[r.of] \in Int
    BY <2>1, <2>2, <2>3
  <2>5. ASSUME NEW j \in p.vars \ {r.of} PROVE f[j] = 0
    <3>1. RowWeights(p, r)[j] = 0
      BY <2>2
    <3> QED
      BY <2>3, <3>1
  <2>6. Total(f, p.vars) = f[r.of]
    BY <1>0, <2>1, <2>4, <2>5, TotalSingle
  <2> QED
    BY <1>1, <1>2, <1>3, <2>4, <2>6
<1>4. CASE r.kind # "range"
  <2>1. r.of \in p.rows /\ RowSign(r) \in Int
    BY <1>0, <1>4 DEF RowOfModel, RowSign
  <2> DEFINE g == [j \in p.vars |-> p.a[r.of][j] * x[j]]
             z == RowSign(r)
  <2>2. Activity(p, r.of, x) = Total(g, p.vars)
    BY DEF Activity
  <2>3. ASSUME NEW j \in p.vars PROVE g[j] \in Int /\ f[j] = z * g[j]
    <3>1. p.a[r.of][j] \in Int /\ x[j] \in Int
      BY <2>1 DEF AllInt, WellFormed
    <3>2. RowWeights(p, r)[j] = z * p.a[r.of][j]
      BY <1>4 DEF RowWeights
    <3>3. f[j] = (z * p.a[r.of][j]) * x[j] /\ g[j] = p.a[r.of][j] * x[j]
      BY <3>2
    <3> HIDE DEF f, g, z
    <3>4. z \in Int
      BY <2>1 DEF z
    <3> QED
      BY <3>1, <3>3, <3>4
  <2>5. z \in Int
    BY <2>1
  <2> HIDE DEF f, g, z
  <2>6. Total(f, p.vars) = z * Total(g, p.vars) /\ Total(g, p.vars) \in Int
    BY <1>0, <2>3, <2>5, TotalMultiple, TotalType DEF AllInt
  <2> QED
    BY <1>1, <1>2, <1>4, <2>2, <2>6 DEF z
<1> QED
  BY <1>3, <1>4

\* The bounds of variables and rows, as satisfies_bounds checks them.
InBounds(p, g) ==
  /\ \A j \in p.vars : Within(g[j], p.lo[j], p.up[j])
  /\ \A i \in p.rows : Within(Activity(p, i, g), p.rowLo[i], p.rowUp[i])

\* The canonical point of a point of the model: each column takes its side of
\* the distance from the offset, each slack what its row leaves.
PositivePart(z) == IF z >= 0 THEN z ELSE 0
CanonicalPoint(p, g) ==
  [k \in DOMAIN ColsOf(p) |->
    LET c == ColsOf(p)[k]
    IN  IF c.kind = "x" THEN PositivePart(c.sign * (g[c.var] - Offset(p, c.var)))
        ELSE RowLimit(p, c.row) - RowAt(p, c.row, g)]

\* It is a vector of integers, none of them negative.
LEMMA CanonicalPointSigned ==
  ASSUME NEW p, WellFormed(p), NEW g, AllInt(g, p.vars), InBounds(p, g)
  PROVE  /\ AllInt(CanonicalPoint(p, g), DOMAIN ColsOf(p))
         /\ \A k \in DOMAIN ColsOf(p) : CanonicalPoint(p, g)[k] >= 0
<1> SUFFICES ASSUME NEW k \in DOMAIN ColsOf(p)
             PROVE  CanonicalPoint(p, g)[k] \in Int /\ CanonicalPoint(p, g)[k] >= 0
  BY DEF AllInt
<1>1. PICK c : c = ColsOf(p)[k]
  OBVIOUS
<1>2. ColumnOfModel(p, c)
  BY <1>1, ColumnsMeaning
<1>3. CASE c.kind = "x"
  <2>1. c.var \in p.vars /\ c.sign \in {1, -1}
    BY <1>2, <1>3 DEF ColumnOfModel, SignSet
  <2>2. g[c.var] \in Int /\ Offset(p, c.var) \in Int
    BY <2>1, OffsetsType DEF AllInt, Offsets
  <2>3. CanonicalPoint(p, g)[k] = PositivePart(c.sign * (g[c.var] - Offset(p, c.var)))
    BY <1>1, <1>3 DEF CanonicalPoint
  <2>4. c.sign * (g[c.var] - Offset(p, c.var)) \in Int
    BY <2>1, <2>2
  <2> QED
    BY <2>3, <2>4 DEF PositivePart
<1>4. CASE c.kind = "slack"
  <2>1. PICK r : r = c.row
    OBVIOUS
  <2>2. r \in RowSet(p) /\ r.kind # "eq" /\ RowOfModel(p, r)
    BY <1>2, <1>4, <2>1, RowMeaning DEF ColumnOfModel
  <2>3. CanonicalPoint(p, g)[k] = RowLimit(p, r) - RowAt(p, r, g)
    BY <1>1, <1>4, <2>1 DEF CanonicalPoint
  <2>4. RowLimit(p, r) \in Int /\ RowAt(p, r, g) \in Int
    BY <2>2, WeightsType, RowAtMeaning
  <2>5. CASE r.kind = "range"
    <3>1. r.of \in p.vars /\ p.up[r.of].finite /\ RowLimit(p, r) = p.up[r.of].value /\ RowAt(p, r, g) = g[r.of]
      BY <2>2, <2>5, RowAtMeaning DEF RowOfModel, RowLimit
    <3>2. g[r.of] <= p.up[r.of].value /\ g[r.of] \in Int
      BY <3>1 DEF InBounds, Within, AllInt
    <3> QED
      BY <2>3, <2>4, <3>1, <3>2
  <2>6. CASE r.kind # "range"
    <3>1. r.of \in p.rows /\ r.kind \in {"up", "lo"} /\ Activity(p, r.of, g) \in Int
          /\ RowAt(p, r, g) = RowSign(r) * Activity(p, r.of, g)
          /\ RowLimit(p, r) = RowSign(r) * RowBound(p, r).value
      BY <2>2, <2>6, RowAtMeaning DEF RowOfModel, RowLimit
    <3>2. Within(Activity(p, r.of, g), p.rowLo[r.of], p.rowUp[r.of])
      BY <3>1 DEF InBounds
    <3>3. CASE r.kind = "up"
      <4>1. Activity(p, r.of, g) <= p.rowUp[r.of].value /\ RowSign(r) = 1 /\ RowBound(p, r) = p.rowUp[r.of]
        BY <2>2, <3>2, <3>3 DEF RowOfModel, Within, RowSign, RowBound
      <4>2. p.rowUp[r.of].value \in Int
        BY <3>1 DEF WellFormed, Bounds, IsBound
      <4> QED
        BY <2>3, <2>4, <3>1, <4>1, <4>2
    <3>4. CASE r.kind = "lo"
      <4>1. p.rowLo[r.of].value <= Activity(p, r.of, g) /\ RowSign(r) = -1 /\ RowBound(p, r) = p.rowLo[r.of]
        BY <2>2, <3>2, <3>4 DEF RowOfModel, Within, RowSign, RowBound
      <4>2. p.rowLo[r.of].value \in Int
        BY <3>1 DEF WellFormed, Bounds, IsBound
      <4> QED
        BY <2>3, <2>4, <3>1, <4>1, <4>2
    <3> QED
      BY <3>1, <3>3, <3>4
  <2> QED
    BY <2>5, <2>6
<1> QED
  BY <1>2, <1>3, <1>4 DEF ColumnOfModel

\* Mapped back, the canonical point is the point it was made of.
LEMMA PointComesBack ==
  ASSUME NEW p, WellFormed(p), NEW g, AllInt(g, p.vars), InBounds(p, g)
  PROVE  \A j \in p.vars : Reconstruct(p, CanonicalPoint(p, g), 1)[j] = g[j]
<1> DEFINE C == ColsOf(p)
           X == CanonicalPoint(p, g)
<1>0. AllInt(X, DOMAIN C)
  BY CanonicalPointSigned
<1> SUFFICES ASSUME NEW j \in p.vars PROVE Reconstruct(p, X, 1)[j] = g[j]
  OBVIOUS
<1> DEFINE P == Parts(p, j)
           f == [k \in P |-> C[k].sign * X[k]]
<1>1. Reconstruct(p, X, 1)[j] = 1 * Offset(p, j) + Total(f, P) /\ Total(f, P) \in Int
  BY <1>0, ReconstructedType
<1>2. g[j] \in Int /\ Offset(p, j) \in Int
  BY OffsetsType DEF AllInt, Offsets
<1>3. Within(g[j], p.lo[j], p.up[j]) /\ IsBound(p.lo[j]) /\ IsBound(p.up[j])
  BY DEF InBounds, WellFormed, Bounds
<1>4. \A k \in P : k \in DOMAIN C /\ X[k] = PositivePart(C[k].sign * (g[j] - Offset(p, j)))
  BY DEF Parts, CanonicalPoint
<1>5. Total(f, P) = g[j] - Offset(p, j)
  <2>1. CASE Fixes(p.lo[j], p.up[j])
    <3>1. P = {}
      BY <2>1, PartsOfVariable
    <3>2. g[j] = Offset(p, j)
      BY <1>2, <1>3, <2>1 DEF Within, Fixes, Offset, IsBound
    <3> HIDE DEF f
    <3> QED
      BY <1>2, <3>1, <3>2, TotalEmpty
  <2>2. CASE ~ Fixes(p.lo[j], p.up[j]) /\ p.lo[j].finite
    <3>1. PICK k \in DOMAIN C : P = {k} /\ C[k].sign = 1
      BY <2>2, PartsOfVariable
    <3>2. g[j] >= Offset(p, j)
      BY <1>2, <1>3, <2>2 DEF Within, Offset, IsBound
    <3>3. X[k] = g[j] - Offset(p, j)
      BY <1>2, <1>4, <3>1, <3>2 DEF PositivePart
    <3>4. f[k] = g[j] - Offset(p, j) /\ f[k] \in Int /\ k \in P /\ IsFiniteSet(P)
      <4>1. k \in P
        BY <3>1
      <4>2. f[k] = C[k].sign * X[k]
        BY <4>1
      <4>3. IsFiniteSet(P)
        BY <3>1, FS_Singleton, Zenon
      <4> HIDE DEF f, X, P
      <4> QED
        BY <1>2, <3>1, <3>3, <4>1, <4>2, <4>3
    <3> HIDE DEF f, P
    <3>5. Total(f, P) = f[k]
      BY <3>1, <3>4, TotalSingle DEF P
    <3> QED
      BY <3>4, <3>5
  <2>3. CASE ~ Fixes(p.lo[j], p.up[j]) /\ ~ p.lo[j].finite /\ p.up[j].finite
    <3>1. PICK k \in DOMAIN C : P = {k} /\ C[k].sign = -1
      BY <2>3, PartsOfVariable
    <3>2. g[j] <= Offset(p, j)
      BY <1>2, <1>3, <2>3 DEF Within, Offset, IsBound
    <3>3. X[k] = Offset(p, j) - g[j]
      BY <1>2, <1>4, <3>1, <3>2 DEF PositivePart
    <3>4. f[k] = g[j] - Offset(p, j) /\ f[k] \in Int /\ k \in P /\ IsFiniteSet(P)
      <4>1. k \in P
        BY <3>1
      <4>2. f[k] = C[k].sign * X[k]
        BY <4>1
      <4>3. IsFiniteSet(P)
        BY <3>1, FS_Singleton, Zenon
      <4> HIDE DEF f, X, P
      <4> QED
        BY <1>2, <3>1, <3>3, <4>1, <4>2, <4>3
    <3> HIDE DEF f, P
    <3>5. Total(f, P) = f[k]
      BY <3>1, <3>4, TotalSingle DEF P
    <3> QED
      BY <3>4, <3>5
  <2>4. CASE ~ Fixes(p.lo[j], p.up[j]) /\ ~ p.lo[j].finite /\ ~ p.up[j].finite
    <3>1. PICK k \in DOMAIN C : \E l \in DOMAIN C : k # l /\ P = {k, l} /\ C[k].sign = 1 /\ C[l].sign = -1
      BY <2>4, PartsOfVariable
    <3>2. PICK l \in DOMAIN C : k # l /\ P = {k, l} /\ C[k].sign = 1 /\ C[l].sign = -1
      BY <3>1
    <3>3. X[k] = PositivePart(g[j] - Offset(p, j)) /\ X[l] = PositivePart(Offset(p, j) - g[j])
      BY <1>2, <1>4, <3>2
    <3>4. f[k] = PositivePart(g[j] - Offset(p, j)) /\ f[l] = - PositivePart(Offset(p, j) - g[j])
      BY <1>2, <3>2, <3>3 DEF PositivePart
    <3>5. f[k] \in Int /\ f[l] \in Int /\ f[k] + f[l] = g[j] - Offset(p, j)
      BY <1>2, <3>4 DEF PositivePart
    <3>6. IsFiniteSet({l}) /\ {k, l} = {l} \union {k} /\ k \notin {l} /\ IsFiniteSet({k, l})
      <4>1. IsFiniteSet({l}) /\ k \notin {l}
        BY <3>2, FS_Singleton
      <4>2. {k, l} = {l} \union {k}
        OBVIOUS
      <4>3. IsFiniteSet({l} \union {k})
        BY <4>1, FS_AddElement
      <4> QED
        BY <4>1, <4>2, <4>3, Zenon
    <3> HIDE DEF f
    <3>7. Total(f, {l} \union {k}) = f[k] + Total(f, {l})
      <4>1. AllInt(f, {l} \union {k})
        BY <3>5 DEF AllInt
      <4> QED
        BY <3>6, <4>1, TotalInsert
    <3>8. Total(f, {l}) = f[l]
      BY <3>5, <3>6, TotalSingle
    <3> QED
      BY <3>2, <3>5, <3>6, <3>7, <3>8, Zenon
  <2> QED
    BY <2>1, <2>2, <2>3, <2>4
<1> QED
  BY <1>1, <1>2, <1>5

\* A point of the model becomes a feasible canonical point.
THEOREM CanonicalPointFeasible ==
  ASSUME NEW p, WellFormed(p), NEW g, AllInt(g, p.vars), InBounds(p, g)
  PROVE  /\ ColumnVector(Canonical(p), CanonicalPoint(p, g))
         /\ PrimalFeasible(Canonical(p), CanonicalPoint(p, g))
<1> DEFINE M == Canonical(p)
           R == RowsOf(p)
           C == ColsOf(p)
           X == CanonicalPoint(p, g)
           x == Reconstruct(p, X, 1)
<1>1. M.rows = DOMAIN R /\ M.cols = DOMAIN C /\ \A i \in DOMAIN R : M.b[i] = Rhs(p, R[i])
  BY CanonicalFields
<1>2. AllInt(X, DOMAIN C) /\ \A k \in DOMAIN C : X[k] >= 0
  BY CanonicalPointSigned
<1>3. ASSUME NEW i \in DOMAIN R PROVE RowValue(M, i, X) = M.b[i]
  <2>1. PICK r : r = R[i]
    OBVIOUS
  <2>2. r \in RowSet(p) /\ RowOfModel(p, r)
    BY <2>1, RowsMeaning
  <2>3. SlackAt(p, r, X) \in Int /\ RowValue(M, i, X) = (RowAt(p, r, x) - 1 * RowAt(p, r, Offsets(p))) + SlackAt(p, r, X)
    BY <1>2, <2>1, RowValueMeaning
  <2>4. RowAt(p, r, x) = RowAt(p, r, g) /\ RowAt(p, r, g) \in Int /\ RowAt(p, r, Offsets(p)) \in Int
    <3>1. [j \in p.vars |-> RowWeights(p, r)[j] * x[j]] = [j \in p.vars |-> RowWeights(p, r)[j] * g[j]]
      BY PointComesBack
    <3>2. RowAt(p, r, x) = RowAt(p, r, g)
      BY <3>1 DEF RowAt, WeightedSum
    <3> QED
      BY <2>2, <3>2, RowAtMeaning, OffsetsType
  <2>5. RowLimit(p, r) \in Int /\ M.b[i] = RowLimit(p, r) - RowAt(p, r, Offsets(p))
    BY <1>1, <2>1, <2>2, WeightsType, RhsIsLimit
  <2>6. SlackAt(p, r, X) = RowLimit(p, r) - RowAt(p, r, g)
    <3>1. CASE r.kind = "eq"
      <4>1. r.of \in p.rows /\ Fixes(p.rowLo[r.of], p.rowUp[r.of]) /\ Within(Activity(p, r.of, g), p.rowLo[r.of], p.rowUp[r.of])
        BY <2>2, <3>1 DEF RowOfModel, InBounds
      <4>2. RowLimit(p, r) = 1 * p.rowUp[r.of].value /\ p.rowUp[r.of].value \in Int
        BY <3>1, <4>1 DEF RowLimit, RowSign, RowBound, WellFormed, Bounds, IsBound
      <4>3. RowAt(p, r, g) = 1 * Activity(p, r.of, g) /\ Activity(p, r.of, g) \in Int
        BY <2>2, <3>1, RowAtMeaning DEF RowSign
      <4>4. Activity(p, r.of, g) = p.rowUp[r.of].value
        BY <4>1, <4>2, <4>3 DEF Fixes, Within
      <4>5. SlackAt(p, r, X) = 0
        BY <3>1 DEF SlackAt
      <4> QED
        BY <4>2, <4>3, <4>4, <4>5
    <3>2. CASE r.kind # "eq"
      <4>1. PICK k \in DOMAIN C : /\ C[k].kind = "slack" /\ C[k].row = r
                                  /\ \A l \in DOMAIN C : C[l].kind = "slack" /\ C[l].row = r => l = k
        BY <2>2, <3>2, OneSlack
      <4>2. SlackColumn(p, r) = k
        BY <4>1 DEF SlackColumn
      <4>3. X[k] = RowLimit(p, r) - RowAt(p, r, g)
        BY <4>1 DEF CanonicalPoint
      <4> QED
        BY <3>2, <4>2, <4>3 DEF SlackAt
    <3> QED
      BY <3>1, <3>2
  <2> HIDE DEF M, R, C, X, x
  <2> QED
    BY <2>3, <2>4, <2>5, <2>6
<1> QED
  BY <1>1, <1>2, <1>3 DEF ColumnVector, PrimalFeasible, Nonnegative, RowsHold
-----------------------------------------------------------------------------
\* The objective of an answer over d: the weights of the canonical costs, up to
\* the sense, and the offset.
LEMMA ObjectiveMeaning ==
  ASSUME NEW p, WellFormed(p), NEW x, AllInt(x, p.vars), NEW d \in Int
  PROVE  /\ Objective(Over(p, d), x) \in Int
         /\ p.sense * Objective(Over(p, d), x)
              = WeightedSum(p, CostWeights(p), x) + d * (p.sense * p.offset)
<1> DEFINE o == Over(p, d)
           f == [j \in p.vars |-> p.c[j] * x[j]]
           g == [j \in p.vars |-> CostWeights(p)[j] * x[j]]
           T == Total(f, p.vars)
           s == p.sense
           z == p.offset
<1>1. o.vars = p.vars /\ o.c = p.c /\ o.offset = d * p.offset
  BY DEF Over, WellFormed
<1>2. s \in {1, -1} /\ z \in Int /\ IsFiniteSet(p.vars)
  BY DEF WellFormed
<1>3. ASSUME NEW j \in p.vars PROVE f[j] \in Int /\ g[j] = s * f[j]
  <2>1. p.c[j] \in Int /\ x[j] \in Int /\ CostWeights(p)[j] = s * p.c[j]
    BY DEF WellFormed, AllInt, CostWeights
  <2>2. f[j] = p.c[j] * x[j] /\ g[j] = (s * p.c[j]) * x[j]
    BY <2>1
  <2> HIDE DEF f, g, s
  <2> QED
    BY <1>2, <2>1, <2>2
<1>4. Objective(o, x) = T + d * z
  <2>1. Objective(o, x) = Total([j \in p.vars |-> p.c[j] * x[j]], p.vars) + d * p.offset
    BY <1>1, Zenon DEF Objective
  <2> QED
    BY <2>1
<1>5. T \in Int /\ Total(g, p.vars) = s * T
  <2> HIDE DEF f, g, s
  <2>1. AllInt(f, p.vars) /\ s \in Int
    BY <1>2, <1>3 DEF AllInt
  <2> QED
    BY <1>2, <1>3, <2>1, TotalMultiple, TotalType
<1>6. WeightedSum(p, CostWeights(p), x) = s * T
  BY <1>5 DEF WeightedSum
<1> HIDE DEF o, T, s, z
<1>7. s * (T + d * z) = s * T + d * (s * z) /\ T + d * z \in Int
  BY <1>2, <1>5
<1> QED
  BY <1>4, <1>6, <1>7 DEF o, s, z

\* Where X, over d, costs no more than a canonical point, the point X stands for
\* is no worse than the point of the model it was made of.
THEOREM CheaperMapsBack ==
  ASSUME NEW p, WellFormed(p), NEW X, AllInt(X, DOMAIN ColsOf(p)), NEW d \in Nat \ {0},
         NEW g, AllInt(g, p.vars), InBounds(p, g),
         CostOf(Canonical(p), X) <= d * CostOf(Canonical(p), CanonicalPoint(p, g))
  PROVE  ~ p.sense * Objective(p, g) * d < p.sense * Objective(Over(p, d), Reconstruct(p, X, d))
<1> DEFINE G == CanonicalPoint(p, g)
           x == Reconstruct(p, X, d)
           h == Reconstruct(p, G, 1)
           w == CostWeights(p)
           A == WeightedSum(p, w, x)
           B == WeightedSum(p, w, g)
           K == WeightedSum(p, w, Offsets(p))
           s == p.sense
           z == p.offset
           u == s * Objective(p, g)
           v == s * Objective(Over(p, d), x)
<1>1. AllInt(G, DOMAIN ColsOf(p)) /\ AllInt(w, p.vars) /\ AllInt(Offsets(p), p.vars) /\ s \in Int /\ z \in Int
  BY CanonicalPointSigned, OffsetsType DEF CostWeights, AllInt, WellFormed
<1>2. x \in [p.vars -> Int]
  BY ReconstructedType
<1>3. AllInt(x, p.vars)
  BY <1>2 DEF AllInt
<1>4. A \in Int /\ B \in Int /\ K \in Int
  BY <1>1, <1>3, WeightedSumType
<1>5. CostOf(Canonical(p), X) = A - d * K
  BY CostMeaning
<1>6. CostOf(Canonical(p), G) = B - 1 * K
  <2>1. CostOf(Canonical(p), G) = WeightedSum(p, w, h) - 1 * K
    BY <1>1, CostMeaning
  <2>2. [j \in p.vars |-> w[j] * h[j]] = [j \in p.vars |-> w[j] * g[j]]
    BY PointComesBack
  <2>3. WeightedSum(p, w, h) = B
    BY <2>2 DEF WeightedSum
  <2> QED
    BY <2>1, <2>3
<1>7. v = A + d * (s * z)
  BY <1>3, ObjectiveMeaning
<1>8. u = B + s * z
  <2>1. s * Objective(Over(p, 1), g) = B + 1 * (s * z)
    BY ObjectiveMeaning
  <2>2. Objective(Over(p, 1), g) = Objective(p, g)
    <3>1. Over(p, 1).vars = p.vars /\ Over(p, 1).c = p.c /\ Over(p, 1).offset = 1 * p.offset
      BY DEF Over, WellFormed
    <3>2. Over(p, 1).offset = p.offset
      BY <1>1, <3>1
    <3> QED
      BY <3>1, <3>2, Zenon DEF Objective
  <2>3. s * z \in Int
    BY <1>1
  <2> HIDE DEF s, z, B
  <2> QED
    BY <2>1, <2>2, <2>3, <1>4 DEF u
<1>9. A - d * K <= d * (B - K)
  <2>1. CostOf(Canonical(p), X) <= d * CostOf(Canonical(p), G)
    OBVIOUS
  <2> DEFINE cX == CostOf(Canonical(p), X)
             cG == CostOf(Canonical(p), G)
  <2>2. cX <= d * cG /\ cX = A - d * K /\ cG = B - 1 * K
    BY <1>5, <1>6, <2>1
  <2> HIDE DEF A, B, K, cX, cG
  <2>3. cG = B - K
    BY <1>4, <2>2
  <2> QED
    BY <2>2, <2>3
<1>10. s * z \in Int
  BY <1>1
<1> DEFINE q == s * z
<1> HIDE DEF A, B, K, q
<1>11. ~ (B + q) * d < A + d * q
  <2>1. d * (B - K) = d * B - d * K /\ (B + q) * d = d * B + d * q
    BY <1>4, <1>10 DEF q
  <2>2. d * B \in Int /\ d * K \in Int /\ d * q \in Int
    BY <1>4, <1>10 DEF q
  <2> DEFINE dB == d * B
             dK == d * K
             dq == d * q
  <2>3. A - dK <= dB - dK /\ (B + q) * d = dB + dq /\ d * q = dq
    BY <1>9, <2>1
  <2>4. dB \in Int /\ dK \in Int /\ dq \in Int
    BY <2>2
  <2> HIDE DEF dB, dK, dq
  <2>5. A <= dB
    BY <1>4, <2>3, <2>4
  <2>6. ~ dB + dq < A + dq
    BY <1>4, <2>4, <2>5
  <2> QED
    BY <2>3, <2>6, Zenon
<1>12. u * d = (B + q) * d /\ v = A + d * q
  BY <1>7, <1>8 DEF q
<1>13. ~ u * d < v
  BY <1>11, <1>12, Zenon
<1> QED
  BY <1>13 DEF u, v, x, s

-----------------------------------------------------------------------------
\* Determinants.
\* Minors of a matrix: rows R against columns C, as many of each.  Determinant
\* expands along the first row left, whatever the rows are named.
RowFor(R, S) == CHOOSE r \in R : Cardinality({q \in R : q >= r}) = Cardinality(S)
Cofactor(S, k) == IF Cardinality({q \in S : q < k}) % 2 = 0 THEN 1 ELSE -1
Expansion(a, r, S, m) ==
  Total([k \in S |-> IF a[r][k] = 0 THEN 0 ELSE Cofactor(S, k) * a[r][k] * m[S \ {k}]], S)
Expands(a, R, F, m) == m = [S \in F |-> IF S = {} THEN 1 ELSE Expansion(a, RowFor(R, S), S, m)]
Minor(a, R, C) == (CHOOSE m : Expands(a, R, SUBSET C, m))[C]

\* The determinant is the minor of all rows and columns.
LEMMA DeterminantIsMinor ==
  ASSUME NEW a, NEW names
  PROVE  Determinant(a, names) = Minor(a, names, names)
  BY DEF Determinant, Minor, Expands, Expansion, RowFor, Cofactor

\* The recursion has a solution on the subsets of a finite set.
LEMMA ExpansionExists ==
  ASSUME NEW a, NEW R, NEW C, IsFiniteSet(C)
  PROVE  \E m : Expands(a, R, SUBSET C, m)
<1> DEFINE G == {n \in Nat : \E m : Expands(a, R, UpTo(C, n), m)}
           next(m, S) == Expansion(a, RowFor(R, S), S, m)
<1>0. \A s \in SUBSET C : IsFiniteSet(s) /\ Cardinality(s) \in Nat /\ Cardinality(s) <= Cardinality(C)
  BY FS_Subset, FS_CardinalityType
<1>1. 0 \in G
  <2> DEFINE m == [s \in UpTo(C, 0) |-> 1]
  <2>1. \A s \in UpTo(C, 0) : s = {}
    BY <1>0, FS_EmptySet DEF UpTo
  <2>2. Expands(a, R, UpTo(C, 0), m)
    BY <2>1 DEF Expands
  <2> QED
    BY <2>2
<1>2. ASSUME NEW n \in Nat, n \in G PROVE n + 1 \in G
  <2>1. PICK m : Expands(a, R, UpTo(C, n), m)
    BY <1>2
  <2> DEFINE h == [s \in UpTo(C, n + 1) |-> IF s = {} THEN 1 ELSE next(m, s)]
  <2>2. ASSUME NEW s \in UpTo(C, n + 1), NEW k \in s PROVE s \ {k} \in UpTo(C, n)
    <3>1. Cardinality(s \ {k}) = Cardinality(s) - 1
      BY <1>0, FS_RemoveElement DEF UpTo
    <3> QED
      BY <3>1, <1>0 DEF UpTo
  <2>3. ASSUME NEW s \in UpTo(C, n) PROVE m[s] = h[s]
    <3>1. s \in UpTo(C, n + 1)
      BY <1>0 DEF UpTo
    <3> QED
      BY <3>1, <2>1, Zenon DEF Expands
  <2>4. h = [s \in UpTo(C, n + 1) |-> IF s = {} THEN 1 ELSE next(h, s)]
    <3>1. ASSUME NEW s \in UpTo(C, n + 1) PROVE next(m, s) = next(h, s)
      <4>1. \A k \in s : m[s \ {k}] = h[s \ {k}]
        BY <2>2, <2>3
      <4> HIDE DEF h
      <4>2. [k \in s |-> IF a[RowFor(R, s)][k] = 0 THEN 0 ELSE Cofactor(s, k) * a[RowFor(R, s)][k] * m[s \ {k}]]
              = [k \in s |-> IF a[RowFor(R, s)][k] = 0 THEN 0 ELSE Cofactor(s, k) * a[RowFor(R, s)][k] * h[s \ {k}]]
        BY <4>1
      <4> QED
        BY <4>2, Zenon DEF Expansion
    <3> HIDE DEF next
    <3> QED
      BY <3>1
  <2>5. Expands(a, R, UpTo(C, n + 1), h)
    BY <2>4, Zenon DEF Expands
  <2> QED
    BY <2>5
<1>3. Cardinality(C) \in G
  <2> HIDE DEF G
  <2> QED
    BY <1>1, <1>2, NatSetInduction, FS_CardinalityType
<1>4. UpTo(C, Cardinality(C)) = SUBSET C
  BY <1>0 DEF UpTo
<1> QED
  BY <1>3, <1>4

\* Two expansions agree where the rows they use have the same entries.
SameRows(a, R, b, Q, S) ==
  \A Z \in SUBSET S : \A k \in Z : a[RowFor(R, Z)][k] = b[RowFor(Q, Z)][k]
Comparable(a, R, F, m, b, Q, H, n, S) ==
  /\ Expands(a, R, SUBSET F, m) /\ Expands(b, Q, SUBSET H, n)
  /\ IsFiniteSet(S) /\ S \subseteq F /\ S \subseteq H
  /\ SameRows(a, R, b, Q, S)
\* Expansions of matrices that agree on the rows used agree, however the rows are named.
LEMMA ExpansionsAgree ==
  ASSUME NEW a, NEW R, NEW F, NEW m, NEW b, NEW Q, NEW H, NEW n, NEW S,
         Comparable(a, R, F, m, b, Q, H, n, S)
  PROVE  m[S] = n[S]
<1> USE DEF Comparable
<1> DEFINE T == {Z \in SUBSET S : m[Z] # n[Z]}
<1> SUFFICES ASSUME T # {} PROVE FALSE
  OBVIOUS
<1>1. PICK Z \in T : \A B \in T : B \subseteq Z => B = Z
  <2>1. T \subseteq SUBSET S
    OBVIOUS
  <2> HIDE DEF T
  <2> QED
    BY <2>1, LeastSet
<1>2. /\ m[Z] = IF Z = {} THEN 1 ELSE Expansion(a, RowFor(R, Z), Z, m)
      /\ n[Z] = IF Z = {} THEN 1 ELSE Expansion(b, RowFor(Q, Z), Z, n)
  <2>1. Z \in SUBSET F /\ Z \in SUBSET H
    OBVIOUS
  <2> QED
    BY <2>1, Zenon DEF Expands
<1>3. \A k \in Z : m[Z \ {k}] = n[Z \ {k}] /\ a[RowFor(R, Z)][k] = b[RowFor(Q, Z)][k]
  BY <1>1 DEF SameRows
<1>4. [k \in Z |-> IF a[RowFor(R, Z)][k] = 0 THEN 0 ELSE Cofactor(Z, k) * a[RowFor(R, Z)][k] * m[Z \ {k}]]
        = [k \in Z |-> IF b[RowFor(Q, Z)][k] = 0 THEN 0 ELSE Cofactor(Z, k) * b[RowFor(Q, Z)][k] * n[Z \ {k}]]
  BY <1>3
<1>5. Expansion(a, RowFor(R, Z), Z, m) = Expansion(b, RowFor(Q, Z), Z, n)
  BY <1>4, Zenon DEF Expansion
<1> QED
  BY <1>1, <1>2, <1>5

-----------------------------------------------------------------------------
\* The first of a set of rows.
First(R) == CHOOSE r \in R : \A q \in R : r <= q
\* The least row.
LEMMA FirstOfSet ==
  ASSUME NEW R \in SUBSET Int, IsFiniteSet(R), R # {}
  PROVE  First(R) \in R /\ \A q \in R : First(R) <= q
<1> DEFINE G == {A \in SUBSET R : A = {} \/ \E m \in A : \A y \in A : m <= y}
<1>1. {} \in G
  OBVIOUS
<1>2. ASSUME NEW A \in SUBSET R, NEW x \in R, A \in G, x \notin A PROVE A \union {x} \in G
  <2>1. CASE A = {}
    BY <2>1
  <2>2. CASE A # {}
    <3>1. PICK m \in A : \A y \in A : m <= y
      BY <1>2, <2>2
    <3>2. CASE m <= x
      BY <3>1, <3>2
    <3>3. CASE ~ m <= x
      <4>1. \A y \in A \union {x} : x <= y
        BY <3>1, <3>3
      <4> QED
        BY <4>1
    <3> QED
      BY <3>2, <3>3
  <2> QED
    BY <2>1, <2>2
<1>3. R \in G
  <2> HIDE DEF G
  <2> QED
    BY <1>1, <1>2, SetInduction
<1> QED
  BY <1>3 DEF First

\* Among as many rows as columns the row expanded along is the first, and the
\* row of fewer columns is found among the others.
Above(R, r) == {q \in R : q >= r}
\* The rows from r on are more than those from a later row on.
LEMMA AboveCount ==
  ASSUME NEW R \in SUBSET Int, IsFiniteSet(R), NEW r \in R, NEW s \in R, r < s
  PROVE  Cardinality(Above(R, s)) < Cardinality(Above(R, r))
<1>0. r \in Int /\ s \in Int /\ r >= r /\ ~ r >= s
  OBVIOUS
<1>a. ASSUME NEW q \in R, q >= s PROVE q >= r
  <2>1. q \in Int
    OBVIOUS
  <2> QED
    BY <1>0, <1>a, <2>1
<1>1. Above(R, s) \subseteq Above(R, r) /\ r \in Above(R, r) /\ r \notin Above(R, s)
  BY <1>0, <1>a, Zenon DEF Above
<1>2. IsFiniteSet(Above(R, r)) /\ IsFiniteSet(Above(R, s))
  BY FS_Subset DEF Above
<1>3. Above(R, s) # Above(R, r)
  BY <1>1
<1>4. Cardinality(Above(R, s)) <= Cardinality(Above(R, r)) /\ Cardinality(Above(R, s)) # Cardinality(Above(R, r))
  BY <1>1, <1>2, <1>3, FS_Subset
<1> QED
  BY <1>2, <1>4, FS_CardinalityType

\* All columns are expanded along the first row,
LEMMA RowForFirst ==
  ASSUME NEW R \in SUBSET Int, IsFiniteSet(R), R # {}, NEW S, Cardinality(S) = Cardinality(R)
  PROVE  RowFor(R, S) = First(R)
<1>1. First(R) \in R /\ \A q \in R : First(R) <= q
  BY FirstOfSet
<1>2. Above(R, First(R)) = R
  BY <1>1 DEF Above
<1>3. \A r \in R : r # First(R) => Cardinality(Above(R, r)) # Cardinality(R)
  <2> SUFFICES ASSUME NEW r \in R, r # First(R) PROVE Cardinality(Above(R, r)) < Cardinality(R)
    BY FS_CardinalityType
  <2>1. First(R) < r
    <3>1. First(R) \in Int /\ r \in Int /\ First(R) <= r
      BY <1>1
    <3> QED
      BY <3>1
  <2> QED
    BY <1>1, <1>2, <2>1, AboveCount
<1>4. First(R) \in R /\ Cardinality({q \in R : q >= First(R)}) = Cardinality(S)
  BY <1>1, <1>2 DEF Above
<1>5. \A r \in R : Cardinality({q \in R : q >= r}) = Cardinality(S) => r = First(R)
  BY <1>3 DEF Above
<1> QED
  BY <1>4, <1>5 DEF RowFor

\* some row has any given number of rows from it on,
LEMMA RowExists ==
  ASSUME NEW n \in Nat
  PROVE  \A R \in SUBSET Int : IsFiniteSet(R) /\ Cardinality(R) = n =>
           \A k \in 1 .. n : \E r \in R : Cardinality(Above(R, r)) = k
<1> DEFINE G == {i \in Nat : \A R \in SUBSET Int : IsFiniteSet(R) /\ Cardinality(R) = i =>
                    \A k \in 1 .. i : \E r \in R : Cardinality(Above(R, r)) = k}
<1>1. 0 \in G
  OBVIOUS
<1>2. ASSUME NEW i \in Nat, i \in G PROVE i + 1 \in G
  <2> SUFFICES ASSUME NEW R \in SUBSET Int, IsFiniteSet(R), Cardinality(R) = i + 1, NEW k \in 1 .. i + 1
               PROVE  \E r \in R : Cardinality(Above(R, r)) = k
    OBVIOUS
  <2>1. R # {}
    BY FS_EmptySet
  <2>2. First(R) \in R /\ \A q \in R : First(R) <= q
    BY <2>1, FirstOfSet
  <2>3. CASE k = i + 1
    <3>1. Above(R, First(R)) = R
      BY <2>2 DEF Above
    <3> QED
      BY <2>2, <2>3, <3>1
  <2>4. CASE k # i + 1
    <3> DEFINE Q == R \ {First(R)}
    <3>1. IsFiniteSet(Q) /\ Cardinality(Q) = i /\ Q \in SUBSET Int
      <4>1. IsFiniteSet(Q) /\ Cardinality(Q) = (i + 1) - 1
        BY <2>2, FS_RemoveElement
      <4>2. Q \in SUBSET Int
        OBVIOUS
      <4> HIDE DEF Q
      <4> QED
        BY <4>1, <4>2
    <3>2. k \in 1 .. i
      BY <2>4
    <3>3. PICK r \in Q : Cardinality(Above(Q, r)) = k
      BY <1>2, <3>1, <3>2
    <3>4. Above(Q, r) = Above(R, r)
      <4>1. First(R) \in Int /\ r \in Int /\ First(R) < r
        <5>1. First(R) \in Int /\ r \in Int /\ First(R) <= r /\ First(R) # r
          BY <2>2, <3>3
        <5> QED
          BY <5>1
      <4>2. ~ First(R) >= r
        BY <4>1
      <4> QED
        BY <4>2, Zenon DEF Above
    <3> QED
      BY <3>3, <3>4
  <2> QED
    BY <2>3, <2>4
<1> HIDE DEF G
<1>3. n \in G
  BY <1>1, <1>2, NatSetInduction
<1> QED
  BY <1>3 DEF G

\* and fewer columns along a row of the others.
LEMMA RowForRest ==
  ASSUME NEW R \in SUBSET Int, IsFiniteSet(R), R # {}, NEW S, IsFiniteSet(S), S # {},
         Cardinality(S) < Cardinality(R)
  PROVE  RowFor(R, S) = RowFor(R \ {First(R)}, S)
<1> DEFINE Q == R \ {First(R)}
<1>1. First(R) \in R /\ \A q \in R : First(R) <= q
  BY FirstOfSet
<1>2. IsFiniteSet(Q) /\ Cardinality(Q) = Cardinality(R) - 1 /\ Q \in SUBSET Int /\ Cardinality(Q) \in Nat
  BY <1>1, FS_RemoveElement, FS_CardinalityType
<1>3. Cardinality(S) \in 1 .. Cardinality(Q)
  BY <1>2, FS_EmptySet, FS_CardinalityType
<1>4. PICK r \in Q : Cardinality(Above(Q, r)) = Cardinality(S)
  BY <1>2, <1>3, RowExists
<1>5. \A q \in Q : Above(Q, q) = Above(R, q)
  <2> SUFFICES ASSUME NEW q \in Q PROVE Above(Q, q) = Above(R, q)
    OBVIOUS
  <2>1. First(R) \in Int /\ q \in Int /\ First(R) < q
    <3>1. First(R) \in Int /\ q \in Int /\ First(R) <= q /\ First(R) # q
      BY <1>1
    <3> QED
      BY <3>1
  <2>2. ~ First(R) >= q
    BY <2>1
  <2> QED
    BY <2>2, Zenon DEF Above
<1>6. \A q \in R : q # r => Cardinality(Above(R, q)) # Cardinality(S)
  <2> SUFFICES ASSUME NEW q \in R, q # r PROVE Cardinality(Above(R, q)) # Cardinality(Above(R, r))
    BY <1>4, <1>5
  <2>0. IsFiniteSet(Above(R, q)) /\ IsFiniteSet(Above(R, r))
    BY FS_Subset DEF Above
  <2>1. Cardinality(Above(R, q)) \in Nat /\ Cardinality(Above(R, r)) \in Nat
    BY <2>0, FS_CardinalityType
  <2>2. q < r \/ r < q
    BY <1>4
  <2> QED
    BY <2>1, <2>2, <1>4, AboveCount
<1>7. RowFor(R, S) = r
  <2>1. r \in R /\ Cardinality({q \in R : q >= r}) = Cardinality(S)
    BY <1>4, <1>5 DEF Above
  <2>2. \A q \in R : Cardinality({p \in R : p >= q}) = Cardinality(S) => q = r
    BY <1>6 DEF Above
  <2> QED
    BY <2>1, <2>2 DEF RowFor
<1>8. RowFor(Q, S) = r
  <2>1. r \in Q /\ Cardinality({q \in Q : q >= r}) = Cardinality(S)
    BY <1>4 DEF Above
  <2>2. \A q \in Q : Cardinality({p \in Q : p >= q}) = Cardinality(S) => q = r
    BY <1>5, <1>6 DEF Above
  <2> HIDE DEF Q
  <2> QED
    BY <2>1, <2>2 DEF RowFor
<1> QED
  BY <1>7, <1>8

-----------------------------------------------------------------------------
\* As many rows as columns, named by integers, and integer entries.
Balanced(R, C) ==
  /\ R \in SUBSET Int /\ C \in SUBSET Int /\ IsFiniteSet(R) /\ IsFiniteSet(C)
  /\ Cardinality(R) = Cardinality(C)
Entries(a, R, C) == \A r \in R, k \in C : a[r][k] \in Int
Others(R) == R \ {First(R)}

\* A row and a column less leave as many rows as columns.
LEMMA BalancedShrinks ==
  ASSUME NEW R, NEW C, Balanced(R, C), C # {}
  PROVE  /\ R # {} /\ First(R) \in R /\ \A r \in R : First(R) <= r
         /\ \A r \in R, k \in C : Balanced(R \ {r}, C \ {k})
<1>1. R # {}
  BY FS_EmptySet DEF Balanced
<1>2. First(R) \in R /\ \A r \in R : First(R) <= r
  BY <1>1, FirstOfSet DEF Balanced
<1>3. \A r \in R, k \in C : Balanced(R \ {r}, C \ {k})
  <2> SUFFICES ASSUME NEW r \in R, NEW k \in C PROVE Balanced(R \ {r}, C \ {k})
    OBVIOUS
  <2>1. /\ IsFiniteSet(R \ {r}) /\ IsFiniteSet(C \ {k})
        /\ Cardinality(R \ {r}) = Cardinality(R) - 1 /\ Cardinality(C \ {k}) = Cardinality(C) - 1
    BY FS_RemoveElement DEF Balanced
  <2> QED
    BY <2>1 DEF Balanced
<1> QED
  BY <1>1, <1>2, <1>3

\* A minor is the value of an expansion on all the columns.
LEMMA MinorChosen ==
  ASSUME NEW a, NEW R, NEW C, IsFiniteSet(C)
  PROVE  \E m : Expands(a, R, SUBSET C, m) /\ Minor(a, R, C) = m[C]
<1> DEFINE m == CHOOSE m : Expands(a, R, SUBSET C, m)
<1>1. Expands(a, R, SUBSET C, m)
  BY ExpansionExists
<1>2. Minor(a, R, C) = m[C]
  BY Zenon DEF Minor
<1> QED
  BY <1>1, <1>2

\* No rows and no columns leave one.
LEMMA MinorEmpty ==
  ASSUME NEW a, NEW R
  PROVE  Minor(a, R, {}) = 1
<1>1. IsFiniteSet({})
  BY FS_EmptySet
<1>2. PICK m : Expands(a, R, SUBSET {}, m) /\ Minor(a, R, {}) = m[{}]
  BY <1>1, MinorChosen
<1>3. {} \in SUBSET {}
  OBVIOUS
<1> QED
  BY <1>2, <1>3, Zenon DEF Expands

\* A minor is expanded along its first row, into minors without it.
Along(a, R, C) ==
  [k \in C |-> IF a[First(R)][k] = 0 THEN 0
               ELSE Cofactor(C, k) * a[First(R)][k] * Minor(a, Others(R), C \ {k})]
\* A minor expands along its first row.
LEMMA MinorExpands ==
  ASSUME NEW a, NEW R, NEW C, Balanced(R, C), C # {}
  PROVE  Minor(a, R, C) = Total(Along(a, R, C), C)
<1>0. R \in SUBSET Int /\ IsFiniteSet(R) /\ IsFiniteSet(C) /\ Cardinality(C) = Cardinality(R) /\ R # {}
  BY BalancedShrinks DEF Balanced
<1>1. PICK m : Expands(a, R, SUBSET C, m) /\ Minor(a, R, C) = m[C]
  BY <1>0, MinorChosen
<1>2. m[C] = Expansion(a, First(R), C, m)
  <2>1. C \in SUBSET C
    OBVIOUS
  <2>2. m[C] = Expansion(a, RowFor(R, C), C, m)
    BY <1>1, <2>1, Zenon DEF Expands
  <2> QED
    BY <1>0, <2>2, RowForFirst
<1>3. ASSUME NEW k \in C PROVE m[C \ {k}] = Minor(a, Others(R), C \ {k})
  <2>1. IsFiniteSet(C \ {k}) /\ C \ {k} \subseteq C
    BY <1>0, FS_RemoveElement
  <2>2. PICK n : Expands(a, Others(R), SUBSET (C \ {k}), n) /\ Minor(a, Others(R), C \ {k}) = n[C \ {k}]
    BY <2>1, MinorChosen
  <2>3. SameRows(a, R, a, Others(R), C \ {k})
    <3> SUFFICES ASSUME NEW Z \in SUBSET (C \ {k}), Z # {} PROVE RowFor(R, Z) = RowFor(Others(R), Z)
      BY Zenon DEF SameRows
    <3>1. IsFiniteSet(Z) /\ Cardinality(Z) <= Cardinality(C \ {k}) /\ Cardinality(C \ {k}) = Cardinality(C) - 1
      BY <1>0, <2>1, FS_Subset, FS_RemoveElement
    <3>2. Cardinality(Z) < Cardinality(R)
      BY <1>0, <2>1, <3>1, FS_CardinalityType
    <3> QED
      BY <1>0, <3>1, <3>2, RowForRest DEF Others
  <2> QED
    <3>1. m[C \ {k}] = n[C \ {k}]
      <4>1. Expands(a, R, SUBSET C, m) /\ Expands(a, Others(R), SUBSET (C \ {k}), n)
        BY <1>1, <2>2
      <4>2. PICK B : B = C \ {k}
        OBVIOUS
      <4>3. Expands(a, Others(R), SUBSET B, n) /\ IsFiniteSet(B) /\ B \subseteq C /\ B \subseteq B /\ SameRows(a, R, a, Others(R), B)
        BY <2>1, <2>3, <4>1, <4>2
      <4>4. m[B] = n[B]
        <5>1. Comparable(a, R, C, m, a, Others(R), B, n, B)
          BY <4>1, <4>3, Zenon DEF Comparable
        <5> QED
          BY <5>1, ExpansionsAgree
      <4> QED
        BY <4>2, <4>4
    <3> QED
      BY <2>2, <3>1
<1>4. Expansion(a, First(R), C, m) = Total(Along(a, R, C), C)
  <2>1. [k \in C |-> IF a[First(R)][k] = 0 THEN 0 ELSE Cofactor(C, k) * a[First(R)][k] * m[C \ {k}]] = Along(a, R, C)
    BY <1>3 DEF Along
  <2> QED
    BY <2>1, Zenon DEF Expansion
<1> QED
  BY <1>1, <1>2, <1>4

\* A minor depends on the entries in its rows and columns only.
AgreeOn(a, b, R, C) == \A r \in R, k \in C : a[r][k] = b[r][k]
\* A minor depends on its rows and columns alone.
LEMMA MinorLocal ==
  ASSUME NEW a, NEW b, NEW R, NEW C, Balanced(R, C), AgreeOn(a, b, R, C)
  PROVE  Minor(a, R, C) = Minor(b, R, C)
<1>0. R \in SUBSET Int /\ IsFiniteSet(R) /\ IsFiniteSet(C) /\ Cardinality(C) = Cardinality(R) /\ Cardinality(C) \in Nat
  BY FS_CardinalityType DEF Balanced
<1>a. IsFiniteSet(C) /\ C \subseteq C
  BY <1>0
<1>1. PICK m : Expands(a, R, SUBSET C, m) /\ Minor(a, R, C) = m[C]
  BY <1>a, MinorChosen
<1>2. PICK n : Expands(b, R, SUBSET C, n) /\ Minor(b, R, C) = n[C]
  BY <1>a, MinorChosen
<1>3. SameRows(a, R, b, R, C)
  <2> SUFFICES ASSUME NEW Z \in SUBSET C, Z # {} PROVE RowFor(R, Z) \in R
    BY DEF SameRows, AgreeOn
  <2>1. IsFiniteSet(Z) /\ Cardinality(Z) <= Cardinality(C) /\ Cardinality(Z) \in Nat /\ Cardinality(Z) # 0
    BY <1>0, FS_Subset, FS_CardinalityType, FS_EmptySet
  <2>2. Cardinality(Z) \in 1 .. Cardinality(C)
    BY <1>0, <2>1
  <2>3. \E r \in R : Cardinality(Above(R, r)) = Cardinality(Z)
    BY <1>0, <2>2, RowExists
  <2> QED
    BY <2>3 DEF RowFor, Above
<1> QED
  <2>1. m[C] = n[C]
    <3>1. Comparable(a, R, C, m, b, R, C, n, C)
      BY <1>a, <1>1, <1>2, <1>3, Zenon DEF Comparable
    <3> QED
      BY <3>1, ExpansionsAgree
  <2> QED
    BY <1>1, <1>2, <2>1

\* A cofactor is a sign.
LEMMA CofactorType ==
  ASSUME NEW S, NEW k
  PROVE  Cofactor(S, k) \in {1, -1}
  BY DEF Cofactor

\* A minor of integers is an integer.
LEMMA MinorType ==
  ASSUME NEW a, NEW R, NEW C, Balanced(R, C), Entries(a, R, C)
  PROVE  Minor(a, R, C) \in Int
<1> DEFINE T == {S \in SUBSET C : \E Q \in SUBSET R : Balanced(Q, S) /\ Minor(a, Q, S) \notin Int}
<1> SUFFICES ASSUME T # {} PROVE FALSE
  OBVIOUS
<1>1. PICK S \in T : \A B \in T : B \subseteq S => B = S
  <2>1. T \subseteq SUBSET C /\ IsFiniteSet(C)
    BY DEF Balanced
  <2> HIDE DEF T
  <2> QED
    BY <2>1, LeastSet
<1>2. PICK Q \in SUBSET R : Balanced(Q, S) /\ Minor(a, Q, S) \notin Int
  BY <1>1
<1>3. S # {}
  BY <1>2, MinorEmpty
<1>4. /\ First(Q) \in Q
      /\ \A k \in S : Balanced(Others(Q), S \ {k}) /\ Minor(a, Others(Q), S \ {k}) \in Int
  <2>1. First(Q) \in Q /\ \A k \in S : Balanced(Others(Q), S \ {k})
    BY <1>2, <1>3, BalancedShrinks DEF Others
  <2>2. ASSUME NEW k \in S PROVE Minor(a, Others(Q), S \ {k}) \in Int
    <3>1. S \ {k} \in SUBSET C /\ Others(Q) \in SUBSET R /\ S \ {k} # S /\ S \ {k} \subseteq S
      BY <1>2 DEF Others
    <3> QED
      BY <1>1, <2>1, <3>1
  <2> QED
    BY <2>1, <2>2
<1>5. AllInt(Along(a, Q, S), S)
  <2> SUFFICES ASSUME NEW k \in S PROVE Along(a, Q, S)[k] \in Int
    BY DEF AllInt
  <2>1. a[First(Q)][k] \in Int /\ Minor(a, Others(Q), S \ {k}) \in Int /\ Cofactor(S, k) \in Int
    <3>1. First(Q) \in R /\ k \in C
      BY <1>2, <1>4
    <3>2. Cofactor(S, k) \in Int
      BY CofactorType
    <3> QED
      BY <1>4, <3>1, <3>2 DEF Entries
  <2>2. Along(a, Q, S)[k] = IF a[First(Q)][k] = 0 THEN 0
               ELSE Cofactor(S, k) * a[First(Q)][k] * Minor(a, Others(Q), S \ {k})
    BY DEF Along
  <2> QED
    BY <2>1, <2>2
<1>6. Total(Along(a, Q, S), S) \in Int
  BY <1>2, <1>5, TotalType DEF Balanced
<1> QED
  BY <1>2, <1>3, <1>6, MinorExpands

\* The expansion without the test for zero.
Products(a, R, C) ==
  [k \in C |-> Cofactor(C, k) * (a[First(R)][k] * Minor(a, Others(R), C \ {k}))]
\* The expansion along the first row, with the types of its terms.
LEMMA Laplace ==
  ASSUME NEW a, NEW R, NEW C, Balanced(R, C), Entries(a, R, C), C # {}
  PROVE  /\ Minor(a, R, C) = Total(Products(a, R, C), C)
         /\ AllInt(Products(a, R, C), C)
         /\ \A k \in C : /\ Minor(a, Others(R), C \ {k}) \in Int
                         /\ Cofactor(C, k) \in {1, -1}
                         /\ a[First(R)][k] \in Int
<1>1. /\ First(R) \in R
      /\ \A k \in C : /\ Minor(a, Others(R), C \ {k}) \in Int
                      /\ Cofactor(C, k) \in {1, -1}
                      /\ a[First(R)][k] \in Int
  <2>1. First(R) \in R /\ \A k \in C : Balanced(Others(R), C \ {k})
    BY BalancedShrinks DEF Others
  <2>2. \A k \in C : Entries(a, Others(R), C \ {k})
    BY DEF Entries, Others
  <2> QED
    BY <2>1, <2>2, MinorType, CofactorType DEF Entries
<1>2. ASSUME NEW k \in C
      PROVE  Along(a, R, C)[k] = Products(a, R, C)[k] /\ Products(a, R, C)[k] \in Int
  <2>1. PICK x \in Int, y \in Int, s \in {1, -1} :
          x = a[First(R)][k] /\ y = Minor(a, Others(R), C \ {k}) /\ s = Cofactor(C, k)
    BY <1>1
  <2>2. (IF x = 0 THEN 0 ELSE s * x * y) = s * (x * y) /\ s * (x * y) \in Int
    <3>1. CASE x = 0
      <4>1. x * y = 0
        BY <3>1
      <4> QED
        BY <3>1, <4>1
    <3>2. CASE x # 0
      <4>1. s * x * y = s * (x * y) /\ x * y \in Int
        OBVIOUS
      <4> QED
        BY <3>2, <4>1
    <3> QED
      BY <3>1, <3>2
  <2> QED
    BY <2>1, <2>2 DEF Along, Products
<1>3. Along(a, R, C) = Products(a, R, C)
  <2>1. \A k \in C : Along(a, R, C)[k] = Products(a, R, C)[k]
    BY <1>2
  <2> QED
    BY <2>1 DEF Along, Products
<1> QED
  BY <1>1, <1>2, <1>3, MinorExpands DEF AllInt

\* Taking out two columns in either order gives opposite signs.
LEMMA CofactorsSwap ==
  ASSUME NEW S \in SUBSET Int, IsFiniteSet(S), NEW k \in S, NEW l \in S, k # l
  PROVE  Cofactor(S, k) * Cofactor(S \ {k}, l) = -(Cofactor(S, l) * Cofactor(S \ {l}, k))
<1>1. ASSUME NEW i \in S, NEW j \in S, i < j
      PROVE  Cofactor(S \ {j}, i) = Cofactor(S, i) /\ Cofactor(S \ {i}, j) = -Cofactor(S, j)
  <2>0. i \in Int /\ j \in Int /\ ~ j < i
    BY <1>1
  <2>1. {q \in S \ {j} : q < i} = {q \in S : q < i}
    BY <2>0
  <2>2. i \in {q \in S : q < j} /\ {q \in S \ {i} : q < j} = {q \in S : q < j} \ {i}
    BY <1>1
  <2> DEFINE B == {q \in S : q < j}
  <2>3. IsFiniteSet(B) /\ Cardinality(B) \in Nat
    BY FS_Subset, FS_CardinalityType
  <2>4. Cardinality(B \ {i}) = Cardinality(B) - 1
    BY <2>2, <2>3, FS_RemoveElement
  <2>5. PICK n \in Nat : n = Cardinality(B)
    BY <2>3
  <2>6. (n - 1) % 2 = 0 <=> n % 2 # 0
    OBVIOUS
  <2>7. Cofactor(S \ {j}, i) = Cofactor(S, i)
    BY <2>1 DEF Cofactor
  <2>8. Cofactor(S, j) = IF n % 2 = 0 THEN 1 ELSE -1
    BY <2>5 DEF Cofactor
  <2>9. Cofactor(S \ {i}, j) = IF (n - 1) % 2 = 0 THEN 1 ELSE -1
    BY <2>2, <2>4, <2>5 DEF Cofactor
  <2> QED
    BY <2>6, <2>7, <2>8, <2>9
<1>2. PICK u \in {1, -1}, v \in {1, -1} : u = Cofactor(S, k) /\ v = Cofactor(S, l)
  BY CofactorType
<1>3. k < l \/ l < k
  OBVIOUS
<1>4. CASE k < l
  <2>1. Cofactor(S \ {l}, k) = u /\ Cofactor(S \ {k}, l) = -v
    BY <1>1, <1>2, <1>4
  <2> QED
    BY <1>2, <2>1
<1>5. CASE l < k
  <2>1. Cofactor(S \ {k}, l) = v /\ Cofactor(S \ {l}, k) = -u
    BY <1>1, <1>2, <1>5
  <2> QED
    BY <1>2, <2>1
<1> QED
  BY <1>3, <1>4, <1>5

\* A double sum of opposite terms is zero.
LEMMA TotalAntisymmetric ==
  ASSUME NEW S, IsFiniteSet(S), NEW g,
         \A k, l \in S : g[k][l] \in Int /\ g[k][l] + g[l][k] = 0
  PROVE  Total([k \in S |-> Total([l \in S |-> g[k][l]], S)], S) = 0
<1> DEFINE row(k) == Total([l \in S |-> g[k][l]], S)
           col(l) == Total([k \in S |-> g[k][l]], S)
<1>1. Total([k \in S |-> row(k)], S) = Total([l \in S |-> col(l)], S)
  BY TotalExchange
<1>2. ASSUME NEW l \in S PROVE col(l) = (-1) * row(l) /\ row(l) \in Int
  <2> DEFINE f == [k \in S |-> g[l][k]]
             h == [k \in S |-> g[k][l]]
  <2>1. AllInt(f, S) /\ \A k \in S : h[k] = (-1) * f[k]
    <3>1. \A k \in S : h[k] = g[k][l] /\ f[k] = g[l][k] /\ h[k] \in Int /\ f[k] \in Int /\ h[k] + f[k] = 0
      OBVIOUS
    <3> HIDE DEF f, h
    <3>2. \A x, y \in Int : x + y = 0 => x = (-1) * y
      OBVIOUS
    <3>3. AllInt(f, S)
      BY <3>1 DEF AllInt
    <3> QED
      BY <3>1, <3>2, <3>3
  <2> HIDE DEF f, h
  <2>2. Total(h, S) = (-1) * Total(f, S) /\ Total(f, S) \in Int
    BY <2>1, TotalMultiple, TotalType
  <2> QED
    BY <2>2 DEF f, h
<1> HIDE DEF row, col
<1> DEFINE rows == [k \in S |-> row(k)]
           cols == [l \in S |-> col(l)]
<1>3. AllInt(rows, S) /\ \A l \in S : cols[l] = (-1) * rows[l]
  BY <1>2 DEF AllInt
<1>4. Total(rows, S) = Total(cols, S)
  BY <1>1
<1> HIDE DEF rows, cols
<1>5. Total(cols, S) = (-1) * Total(rows, S) /\ Total(rows, S) \in Int
  BY <1>3, TotalMultiple, TotalType
<1>6. Total(rows, S) = 0
  BY <1>4, <1>5
<1> QED
  BY <1>6 DEF rows, row

-----------------------------------------------------------------------------
\* Equal rows.
\* The matrix b is a with the vector v in place of its column k.
IsPut(b, a, k, v, R, C) == \A r \in R, c \in C : b[r][c] = IF c = k THEN v[r] ELSE a[r][c]

\* Away from the column replaced nothing changes.
LEMMA PutElsewhere ==
  ASSUME NEW a, NEW b, NEW k, NEW v, NEW R, NEW C, IsPut(b, a, k, v, R, C),
         NEW Q \in SUBSET R, NEW S \in SUBSET C, k \notin S, Balanced(Q, S)
  PROVE  Minor(b, Q, S) = Minor(a, Q, S)
<1>1. AgreeOn(b, a, Q, S)
  BY DEF IsPut, AgreeOn
<1> QED
  BY <1>1, MinorLocal

-----------------------------------------------------------------------------
\* A sum over a set of sums over what is left of it, as one double sum.
Off(h, S) == [k \in S |-> [l \in S |-> IF l = k THEN 0 ELSE h[k][l]]]
\* A sum without its diagonal term.
LEMMA OffTotal ==
  ASSUME NEW S, IsFiniteSet(S), NEW h, \A k, l \in S : k # l => h[k][l] \in Int, NEW k \in S
  PROVE  /\ AllInt(h[k], S \ {k})
         /\ Total([l \in S |-> Off(h, S)[k][l]], S) = Total(h[k], S \ {k})
<1> DEFINE f == [l \in S |-> Off(h, S)[k][l]]
<1>1. AllInt(h[k], S \ {k})
  BY DEF AllInt
<1>2. f[k] = 0 /\ \A l \in S \ {k} : f[l] = h[k][l]
  BY DEF Off
<1>3. AllInt(f, S) /\ AllInt(f, S \ {k})
  <2>1. \A l \in S : f[l] \in Int
    BY <1>2
  <2> HIDE DEF f
  <2> QED
    BY <2>1 DEF AllInt
<1>4. IsFiniteSet(S \ {k})
  BY FS_RemoveElement
<1> HIDE DEF f
<1>5. PICK y \in Int : y = Total(f, S \ {k})
  BY <1>3, <1>4, TotalType
<1>6. Total(f, S) = 0 + y
  BY <1>2, <1>3, <1>5, TotalRemove
<1>7. Total(f, S \ {k}) = Total(h[k], S \ {k})
  <2>1. PICK e : e = h[k]
    OBVIOUS
  <2>2. \A l \in S \ {k} : f[l] = e[l]
    BY <1>2, <2>1
  <2>3. Total(f, S \ {k}) = Total(e, S \ {k})
    BY <1>3, <1>4, <2>2, TotalEqual
  <2> QED
    BY <2>1, <2>3
<1>8. Total(f, S) = Total(h[k], S \ {k})
  BY <1>5, <1>6, <1>7
<1> QED
  BY <1>1, <1>8 DEF f

\* A minor with a row used twice is zero.
LEMMA RepeatedRow ==
  ASSUME NEW a, NEW R, NEW C, Balanced(R, C), Entries(a, R, C), NEW r \in R, r # First(R)
  PROVE  Total([k \in C |-> Cofactor(C, k) * (a[r][k] * Minor(a, Others(R), C \ {k}))], C) = 0
<1> DEFINE Twice(Q, S) == [k \in S |-> Cofactor(S, k) * (a[r][k] * Minor(a, Others(Q), S \ {k}))]
           Ready(Q, S) == Balanced(Q, S) /\ Entries(a, Q, S) /\ r \in Q /\ r # First(Q)
           T == {S \in SUBSET C : \E Q \in SUBSET R : Ready(Q, S) /\ Total(Twice(Q, S), S) # 0}
<1> SUFFICES ASSUME T # {} PROVE FALSE
  <2>1. T = {} => Total(Twice(R, C), C) = 0
    <3>1. C \in SUBSET C /\ R \in SUBSET R /\ Ready(R, C)
      OBVIOUS
    <3> HIDE DEF Ready, Twice
    <3> QED
      BY <3>1
  <2> QED
    BY <2>1
<1>1. PICK S \in T : \A B \in T : B \subseteq S => B = S
  <2>1. T \subseteq SUBSET C /\ IsFiniteSet(C)
    BY DEF Balanced
  <2> HIDE DEF T
  <2> QED
    BY <2>1, LeastSet
<1>2. PICK Q \in SUBSET R : Ready(Q, S) /\ Total(Twice(Q, S), S) # 0
  BY <1>1
<1> DEFINE P == Others(Q)
           s == First(P)
           h == [k \in S |-> [l \in S |-> (Cofactor(S, k) * Cofactor(S \ {k}, l))
                    * ((a[r][k] * a[s][l]) * Minor(a, Others(P), (S \ {k}) \ {l}))]]
           g == Off(h, S)
<1>3. IsFiniteSet(S) /\ S \in SUBSET Int /\ S # {} /\ First(Q) \in Q /\ r \in P
  <2>1. S # {}
    <3>1. Q # {} /\ IsFiniteSet(Q) /\ Cardinality(Q) = Cardinality(S)
      BY <1>2 DEF Balanced
    <3> QED
      BY <3>1, FS_EmptySet
  <2>2. First(Q) \in Q
    BY <1>2, <2>1, BalancedShrinks
  <2> QED
    BY <1>2, <2>1, <2>2 DEF Balanced, Others
<1>4. ASSUME NEW k \in S
      PROVE  /\ Balanced(P, S \ {k}) /\ Entries(a, P, S \ {k}) /\ S \ {k} # {}
             /\ s \in P
             /\ \A l \in S \ {k} : Balanced(Others(P), (S \ {k}) \ {l})
  <2>1. Balanced(P, S \ {k}) /\ Entries(a, P, S \ {k})
    BY <1>2, <1>3, BalancedShrinks DEF Others, Entries
  <2>2. S \ {k} # {}
    <3>1. P # {} /\ IsFiniteSet(P) /\ Cardinality(P) = Cardinality(S \ {k})
      BY <1>3, <2>1 DEF Balanced
    <3> QED
      BY <3>1, FS_EmptySet
  <2>3. s \in P /\ \A l \in S \ {k} : Balanced(P \ {s}, (S \ {k}) \ {l})
    BY <2>1, <2>2, BalancedShrinks
  <2> QED
    BY <2>1, <2>2, <2>3 DEF Others
<1>5. ASSUME NEW k \in S, NEW l \in S, k # l
      PROVE  /\ Cofactor(S, k) \in {1, -1} /\ Cofactor(S \ {k}, l) \in {1, -1}
             /\ a[r][k] \in Int /\ a[s][l] \in Int
             /\ Minor(a, Others(P), (S \ {k}) \ {l}) \in Int
  <2>1. Balanced(Others(P), (S \ {k}) \ {l}) /\ s \in P
    <3>1. l \in S \ {k}
      BY <1>5
    <3> QED
      BY <1>4, <3>1
  <2>2. P \subseteq Q /\ Others(P) \subseteq Q
    BY DEF Others
  <2>3. a[r][k] \in Int /\ a[s][l] \in Int
    BY <1>2, <2>1, <2>2 DEF Entries
  <2>4. Entries(a, Others(P), (S \ {k}) \ {l})
    BY <1>2, <2>2 DEF Entries
  <2> QED
    BY <2>1, <2>3, <2>4, CofactorType, MinorType
<1>6. \A k, l \in S : k # l => h[k][l] \in Int
  <2> SUFFICES ASSUME NEW k \in S, NEW l \in S, k # l PROVE h[k][l] \in Int
    OBVIOUS
  <2>1. PICK p \in {1, -1}, q \in {1, -1}, x \in Int, y \in Int, z \in Int :
          p = Cofactor(S, k) /\ q = Cofactor(S \ {k}, l) /\ x = a[r][k] /\ y = a[s][l]
          /\ z = Minor(a, Others(P), (S \ {k}) \ {l})
    BY <1>5
  <2>2. (p * q) * ((x * y) * z) \in Int
    OBVIOUS
  <2> QED
    BY <2>1, <2>2
<1>7. ASSUME NEW k \in S PROVE Twice(Q, S)[k] = Total([l \in S |-> g[k][l]], S)
  <2> DEFINE f == Products(a, P, S \ {k})
  <2>1. /\ Minor(a, P, S \ {k}) = Total(f, S \ {k}) /\ AllInt(f, S \ {k})
    BY <1>4, Laplace
  <2>2. ASSUME NEW l \in S \ {k} PROVE h[k][l] = (Cofactor(S, k) * a[r][k]) * f[l]
    <3>1. PICK p \in {1, -1}, q \in {1, -1}, x \in Int, y \in Int, z \in Int :
          p = Cofactor(S, k) /\ q = Cofactor(S \ {k}, l) /\ x = a[r][k] /\ y = a[s][l]
          /\ z = Minor(a, Others(P), (S \ {k}) \ {l})
      BY <1>5
    <3>2. (p * q) * ((x * y) * z) = (p * x) * (q * (y * z))
      <4>1. PICK w \in Int : w = y * z
        OBVIOUS
      <4>2. (x * y) * z = x * w
        BY <4>1
      <4>3. PICK t \in Int : t = x * w
        OBVIOUS
      <4>4. (p * q) * t = (p * x) * (q * w)
        <5>1. CASE p = 1
          <6>1. CASE q = 1
            BY <4>3, <5>1, <6>1
          <6>2. CASE q = -1
            BY <4>3, <5>1, <6>2
          <6> QED BY <6>1, <6>2
        <5>2. CASE p = -1
          <6>1. CASE q = 1
            BY <4>3, <5>2, <6>1
          <6>2. CASE q = -1
            BY <4>3, <5>2, <6>2
          <6> QED BY <6>1, <6>2
        <5> QED BY <5>1, <5>2
      <4> QED
        BY <4>1, <4>2, <4>3, <4>4
    <3>3. f[l] = q * (y * z)
      BY <3>1 DEF Products
    <3> HIDE DEF f
    <3> QED
      BY <3>1, <3>2, <3>3
  <2> HIDE DEF f
  <2>3. PICK c \in Int : c = Cofactor(S, k) * a[r][k]
    <3>1. PICK p \in {1, -1}, x \in Int : p = Cofactor(S, k) /\ x = a[r][k]
      BY <1>2, CofactorType DEF Entries
    <3>2. p * x \in Int
      OBVIOUS
    <3> QED
      BY <3>1, <3>2
  <2>4. PICK e : e = h[k]
    OBVIOUS
  <2>5. Total(e, S \ {k}) = c * Total(f, S \ {k})
    <3>1. \A l \in S \ {k} : e[l] = c * f[l]
      BY <2>2, <2>3, <2>4
    <3>2. IsFiniteSet(S \ {k})
      BY <1>3, FS_RemoveElement
    <3> QED
      BY <2>1, <3>1, <3>2, TotalMultiple
  <2>6. Total([l \in S |-> g[k][l]], S) = Total(h[k], S \ {k})
    <3> HIDE DEF h
    <3> QED
      BY <1>3, <1>6, OffTotal
  <2>7. Twice(Q, S)[k] = c * Total(f, S \ {k})
    <3>1. PICK p \in {1, -1}, x \in Int, z \in Int : p = Cofactor(S, k) /\ x = a[r][k] /\ z = Minor(a, P, S \ {k})
      <4>1. Minor(a, P, S \ {k}) \in Int
        BY <1>4, MinorType
      <4> QED
        BY <1>2, <4>1, CofactorType DEF Entries
    <3>2. p * (x * z) = (p * x) * z
      OBVIOUS
    <3> QED
      BY <2>1, <2>3, <3>1, <3>2
  <2> QED
    BY <2>4, <2>5, <2>6, <2>7
<1>8. Total(Twice(Q, S), S) = Total([k \in S |-> Total([l \in S |-> g[k][l]], S)], S)
  <2> DEFINE rows == [k \in S |-> Total([l \in S |-> g[k][l]], S)]
  <2>1. Twice(Q, S) = rows
    <3>1. \A k \in S : Twice(Q, S)[k] = rows[k]
      BY <1>7
    <3> HIDE DEF g
    <3> QED
      BY <3>1
  <2> QED
    BY <2>1, Zenon
<1>9. \A k, l \in S : g[k][l] \in Int
  <2> HIDE DEF h
  <2> QED
    BY <1>6 DEF Off
<1>10. CASE r = s
  <2>1. ASSUME NEW k \in S, NEW l \in S PROVE g[k][l] + g[l][k] = 0
    <3>1. CASE k = l
      <4>1. g[k][l] = 0 /\ g[l][k] = 0
        BY <3>1 DEF Off
      <4> HIDE DEF g
      <4> QED
        BY <4>1
    <3>2. CASE k # l
      <4>1. g[k][l] = h[k][l] /\ g[l][k] = h[l][k]
        <5> HIDE DEF h
        <5> QED
          BY <3>2 DEF Off
      <4>2. PICK p \in {1, -1}, q \in {1, -1}, x \in Int, y \in Int, z \in Int :
            p = Cofactor(S, k) /\ q = Cofactor(S \ {k}, l) /\ x = a[r][k] /\ y = a[s][l]
            /\ z = Minor(a, Others(P), (S \ {k}) \ {l})
        BY <1>5, <3>2
      <4>3. PICK u \in {1, -1}, t \in {1, -1} : u = Cofactor(S, l) /\ t = Cofactor(S \ {l}, k)
        BY CofactorType
      <4>4. p * q = -(u * t)
        BY <1>3, <3>2, <4>2, <4>3, CofactorsSwap
      <4>5. (S \ {l}) \ {k} = (S \ {k}) \ {l}
        OBVIOUS
      <4>6. h[k][l] = (p * q) * ((x * y) * z) /\ h[l][k] = (u * t) * ((y * x) * z)
        BY <1>10, <4>2, <4>3, <4>5
      <4>7. PICK e \in Int : e = (x * y) * z
        OBVIOUS
      <4>8. (y * x) * z = e
        BY <4>7
      <4> HIDE DEF g, h
      <4>9. h[k][l] = (p * q) * e /\ h[l][k] = (u * t) * e
        BY <4>6, <4>7, <4>8
      <4> QED
        BY <4>1, <4>4, <4>9
    <3> QED
      BY <3>1, <3>2
  <2> HIDE DEF g
  <2>2. Total([k \in S |-> Total([l \in S |-> g[k][l]], S)], S) = 0
    BY <1>3, <1>9, <2>1, TotalAntisymmetric
  <2> QED
    BY <1>2, <1>8, <2>2
<1>11. CASE r # s
  <2>1. ASSUME NEW l \in S PROVE Total([k \in S |-> g[k][l]], S) = 0
    <3> DEFINE f == [k \in S |-> g[k][l]]
               e == Twice(P, S \ {l})
               Sl == S \ {l}
    <3>1. Balanced(P, Sl) /\ Entries(a, P, Sl) /\ IsFiniteSet(Sl)
      BY <1>3, <1>4, FS_RemoveElement
    <3>2. Total(e, Sl) = 0
      <4>1. Ready(P, Sl)
        BY <1>3, <1>11, <3>1
      <4>2. Sl \in SUBSET C /\ P \in SUBSET R /\ Sl \subseteq S /\ Sl # S
        BY DEF Others
      <4>3. Sl \notin T
        <5> HIDE DEF P, Sl, T
        <5> QED
          BY <1>1, <4>2
      <4>4. Total(Twice(P, Sl), Sl) # 0 => Sl \in T
        <5> HIDE DEF P, Sl, Ready, Twice
        <5> QED
          BY <4>1, <4>2
      <4>5. Total(Twice(P, Sl), Sl) = 0
        <5> HIDE DEF P, Sl, T, Twice
        <5> QED
          BY <4>3, <4>4
      <4> QED
        BY <4>5
    <3>3. f[l] = 0 /\ AllInt(f, S) /\ AllInt(f, Sl)
      <4>1. f[l] = 0
        BY DEF Off
      <4> HIDE DEF g
      <4> QED
        BY <1>9, <4>1 DEF AllInt
    <3>4. PICK c \in Int : c = -(Cofactor(S, l) * a[s][l])
      <4>1. PICK p \in {1, -1}, x \in Int : p = Cofactor(S, l) /\ x = a[s][l]
        <5>1. s \in Q
          BY <1>4 DEF Others
        <5> QED
          BY <1>2, <5>1, CofactorType DEF Entries
      <4>2. -(p * x) \in Int
        OBVIOUS
      <4> QED
        BY <4>1, <4>2
    <3>5. ASSUME NEW k \in Sl PROVE f[k] = c * e[k] /\ e[k] \in Int
      <4>1. k \in S /\ k # l
        OBVIOUS
      <4>2. PICK p \in {1, -1}, q \in {1, -1}, x \in Int, y \in Int, z \in Int :
            p = Cofactor(S, k) /\ q = Cofactor(S \ {k}, l) /\ x = a[r][k] /\ y = a[s][l]
            /\ z = Minor(a, Others(P), (S \ {k}) \ {l})
        BY <1>5, <4>1
      <4>3. PICK u \in {1, -1}, t \in {1, -1} : u = Cofactor(S, l) /\ t = Cofactor(S \ {l}, k)
        BY CofactorType
      <4>4. p * q = -(u * t)
        BY <1>3, <4>1, <4>2, <4>3, CofactorsSwap
      <4>5. (S \ {l}) \ {k} = (S \ {k}) \ {l}
        OBVIOUS
      <4>6. f[k] = (p * q) * ((x * y) * z)
        <5>1. g[k][l] = h[k][l]
          <6> HIDE DEF h
          <6> QED
            BY <4>1 DEF Off
        <5>2. f[k] = g[k][l]
          BY <4>1
        <5> HIDE DEF f, g
        <5> QED
          BY <4>1, <4>2, <5>1, <5>2
      <4>7. e[k] = t * (x * z)
        BY <4>1, <4>2, <4>3, <4>5
      <4>8. c = -(u * y)
        BY <3>4, <4>2, <4>3
      <4>9. (p * q) * ((x * y) * z) = c * (t * (x * z)) /\ t * (x * z) \in Int
        <5>1. PICK w \in Int : w = x * z
          OBVIOUS
        <5>2. (x * y) * z = y * w
          BY <5>1
        <5>3. PICK m \in Int : m = y * w
          OBVIOUS
        <5>4. c * (t * w) = -((u * t) * m)
          <6>1. CASE u = 1
            <7>1. CASE t = 1
              BY <4>8, <5>3, <6>1, <7>1
            <7>2. CASE t = -1
              BY <4>8, <5>3, <6>1, <7>2
            <7> QED BY <7>1, <7>2
          <6>2. CASE u = -1
            <7>1. CASE t = 1
              BY <4>8, <5>3, <6>2, <7>1
            <7>2. CASE t = -1
              BY <4>8, <5>3, <6>2, <7>2
            <7> QED BY <7>1, <7>2
          <6> QED BY <6>1, <6>2
        <5>5. (p * q) * m = -((u * t) * m)
          BY <4>4
        <5>6. t * w \in Int
          OBVIOUS
        <5> QED
          BY <5>1, <5>2, <5>3, <5>4, <5>5, <5>6
      <4> HIDE DEF f, e
      <4> QED
        BY <4>6, <4>7, <4>9
    <3> HIDE DEF f, e, Sl
    <3>6. Total(f, Sl) = c * Total(e, Sl) /\ Total(e, Sl) \in Int
      <4>1. AllInt(e, Sl)
        BY <3>5 DEF AllInt
      <4> QED
        BY <3>1, <3>5, <4>1, TotalMultiple, TotalType
    <3>7. Total(f, S) = f[l] + Total(f, Sl)
      BY <1>3, <3>3, TotalRemove DEF Sl
    <3>8. Total(f, S) = 0
      <4>1. c * 0 = 0
        OBVIOUS
      <4> QED
        BY <3>2, <3>3, <3>6, <3>7, <4>1
    <3> QED
      BY <3>8 DEF f
  <2> HIDE DEF g
  <2>2. Total([k \in S |-> Total([l \in S |-> g[k][l]], S)], S)
          = Total([l \in S |-> Total([k \in S |-> g[k][l]], S)], S)
    BY <1>3, <1>9, TotalExchange
  <2>3. Total([l \in S |-> Total([k \in S |-> g[k][l]], S)], S) = 0
    BY <1>3, <2>1, TotalZero
  <2> QED
    BY <1>2, <1>8, <2>2, <2>3
<1> QED
  BY <1>10, <1>11

-----------------------------------------------------------------------------
\* A minor with two equal rows is zero.
EqualRows(a, r, s, C) == \A k \in C : a[r][k] = a[s][k]
\* Two equal rows anywhere make a minor vanish.
LEMMA EqualRowsVanish ==
  ASSUME NEW a, NEW R, NEW C, Balanced(R, C), Entries(a, R, C), NEW r \in R, NEW s \in R, r # s,
         EqualRows(a, r, s, C)
  PROVE  Minor(a, R, C) = 0
<1> DEFINE Ready(Q, S) == Balanced(Q, S) /\ r \in Q /\ s \in Q
           T == {S \in SUBSET C : \E Q \in SUBSET R : Ready(Q, S) /\ Minor(a, Q, S) # 0}
<1> SUFFICES ASSUME T # {} PROVE FALSE
  <2>1. T = {} => Minor(a, R, C) = 0
    <3>1. C \in SUBSET C /\ R \in SUBSET R /\ Ready(R, C)
      OBVIOUS
    <3> HIDE DEF Ready
    <3> QED
      BY <3>1
  <2> QED
    BY <2>1
<1>1. PICK S \in T : \A B \in T : B \subseteq S => B = S
  <2>1. T \subseteq SUBSET C /\ IsFiniteSet(C)
    BY DEF Balanced
  <2> HIDE DEF T
  <2> QED
    BY <2>1, LeastSet
<1>2. PICK Q \in SUBSET R : Ready(Q, S) /\ Minor(a, Q, S) # 0
  BY <1>1
<1>3. /\ Entries(a, Q, S) /\ EqualRows(a, r, s, S) /\ S \subseteq C
      /\ S # {} /\ IsFiniteSet(S) /\ First(Q) \in Q
      /\ \A k \in S : Balanced(Others(Q), S \ {k})
  <2>1. Entries(a, Q, S) /\ EqualRows(a, r, s, S) /\ S \subseteq C
    BY <1>2 DEF Entries, EqualRows
  <2>2. S # {} /\ IsFiniteSet(S)
    <3>1. Q # {} /\ IsFiniteSet(Q) /\ Cardinality(Q) = Cardinality(S) /\ IsFiniteSet(S)
      BY <1>2 DEF Balanced
    <3> QED
      BY <3>1, FS_EmptySet
  <2> QED
    BY <1>2, <2>1, <2>2, BalancedShrinks DEF Others
<1>4. Minor(a, Q, S) = Total(Products(a, Q, S), S)
  BY <1>2, <1>3, Laplace
<1>5. ASSUME NEW t \in {r, s}, t # First(Q), First(Q) \in {r, s} PROVE FALSE
  <2>1. Total([k \in S |-> Cofactor(S, k) * (a[t][k] * Minor(a, Others(Q), S \ {k}))], S) = 0
    BY <1>2, <1>3, <1>5, RepeatedRow
  <2>2. \A k \in S : a[t][k] = a[First(Q)][k]
    BY <1>3, <1>5 DEF EqualRows
  <2>3. Products(a, Q, S) = [k \in S |-> Cofactor(S, k) * (a[t][k] * Minor(a, Others(Q), S \ {k}))]
    BY <2>2 DEF Products
  <2> QED
    BY <1>2, <1>4, <2>1, <2>3
<1>6. CASE First(Q) \notin {r, s}
  <2>1. ASSUME NEW k \in S PROVE Products(a, Q, S)[k] = 0
    <3>1. Ready(Others(Q), S \ {k})
      BY <1>2, <1>3, <1>6 DEF Others
    <3>2. S \ {k} \in SUBSET C /\ Others(Q) \in SUBSET R /\ S \ {k} \subseteq S /\ S \ {k} # S
      BY DEF Others
    <3>3. S \ {k} \notin T
      <4> HIDE DEF T
      <4> QED
        BY <1>1, <3>2
    <3>4. Minor(a, Others(Q), S \ {k}) = 0
      <4> HIDE DEF Ready
      <4> QED
        BY <3>1, <3>2, <3>3
    <3>5. PICK x \in Int, p \in Int : x = a[First(Q)][k] /\ p = Cofactor(S, k)
      <4>1. a[First(Q)][k] \in Int
        BY <1>3 DEF Entries
      <4>2. Cofactor(S, k) \in Int
        BY CofactorType
      <4> QED
        BY <4>1, <4>2
    <3>6. p * (x * 0) = 0
      <4>1. x * 0 = 0
        OBVIOUS
      <4>2. p * 0 = 0
        OBVIOUS
      <4> QED
        BY <4>1, <4>2
    <3> QED
      BY <3>4, <3>5, <3>6 DEF Products
  <2>2. Total(Products(a, Q, S), S) = 0
    BY <1>3, <2>1, TotalZero
  <2> QED
    BY <1>2, <1>4, <2>2
<1> QED
  BY <1>5, <1>6

-----------------------------------------------------------------------------
\* The sign of the first row, and of the rows after it once it is taken out.
LEMMA FirstCofactor ==
  ASSUME NEW R \in SUBSET Int, IsFiniteSet(R), R # {}
  PROVE  /\ Cofactor(R, First(R)) = 1
         /\ \A s \in Others(R) : /\ Cofactor(Others(R), s) = -Cofactor(R, s)
                                 /\ First(R \ {s}) = First(R) /\ Others(R \ {s}) = Others(R) \ {s}
<1>1. First(R) \in R /\ \A q \in R : First(R) <= q
  BY FirstOfSet
<1>2. \A A \in SUBSET R : First(R) \in A => Cofactor(A, First(R)) = 1
  <2> SUFFICES ASSUME NEW A \in SUBSET R, First(R) \in A PROVE Cofactor(A, First(R)) = 1
    OBVIOUS
  <2>1. {q \in A : q < First(R)} = {}
    <3>1. ASSUME NEW q \in A PROVE ~ q < First(R)
      <4>1. q \in Int /\ First(R) \in Int /\ First(R) <= q
        BY <1>1
      <4> QED
        BY <4>1
    <3> QED
      BY <3>1
  <2>2. Cardinality({q \in A : q < First(R)}) = 0
    BY <2>1, FS_EmptySet
  <2>3. 0 % 2 = 0
    OBVIOUS
  <2> QED
    BY <2>2, <2>3 DEF Cofactor
<1>3. ASSUME NEW s \in Others(R)
      PROVE  /\ Cofactor(Others(R), s) = -Cofactor(R, s)
             /\ First(R \ {s}) = First(R) /\ Others(R \ {s}) = Others(R) \ {s}
  <2>1. s \in R /\ s # First(R)
    BY DEF Others
  <2>2. Cofactor(R, First(R)) * Cofactor(R \ {First(R)}, s) = -(Cofactor(R, s) * Cofactor(R \ {s}, First(R)))
    BY <1>1, <2>1, CofactorsSwap
  <2>3. Cofactor(R, First(R)) = 1 /\ Cofactor(R \ {s}, First(R)) = 1
    BY <1>1, <1>2, <2>1
  <2>4. PICK p \in Int, f \in Int : p = Cofactor(R \ {First(R)}, s) /\ f = Cofactor(R, s)
    BY CofactorType
  <2>5. 1 * p = p /\ f * 1 = f
    OBVIOUS
  <2>6. p = -f
    BY <2>2, <2>3, <2>4, <2>5
  <2>7. First(R \ {s}) = First(R)
    <3> DEFINE A == R \ {s}
    <3>1. First(R) \in A /\ \A q \in A : First(R) <= q
      BY <1>1, <2>1
    <3>2. \A r \in A : (\A q \in A : r <= q) => r = First(R)
      <4> SUFFICES ASSUME NEW r \in A, \A q \in A : r <= q PROVE r = First(R)
        OBVIOUS
      <4>1. r <= First(R) /\ First(R) <= r /\ r \in Int /\ First(R) \in Int
        BY <1>1, <3>1
      <4> QED
        BY <4>1
    <3> HIDE DEF A
    <3>3. First(A) = First(R)
      BY <3>1, <3>2 DEF First
    <3> QED
      BY <3>3 DEF A
  <2>8. Others(R \ {s}) = Others(R) \ {s}
    BY <2>7 DEF Others
  <2> QED
    BY <2>4, <2>6, <2>7, <2>8 DEF Others
<1> QED
  BY <1>1, <1>2, <1>3

\* Signs gathered in front of a product of three.
LEMMA SignsApart ==
  ASSUME NEW u \in {1, -1}, NEW p \in {1, -1}, NEW x \in Int, NEW y \in Int, NEW z \in Int
  PROVE  /\ (u * x) * (p * (y * z)) = (u * p) * ((x * y) * z)
         /\ (u * x) * (p * (y * z)) = (u * p) * ((y * x) * z)
         /\ (u * p) * ((x * y) * z) \in Int
<1>1. PICK w \in Int : w = y * z
  OBVIOUS
<1>2. PICK t \in Int : t = x * w
  OBVIOUS
<1>3. (x * y) * z = t
  <2>1. (x * y) * z = x * (y * z)
    OBVIOUS
  <2> QED
    BY <1>1, <1>2, <2>1
<1>4. y * x = x * y
  OBVIOUS
<1>5. (u * x) * (p * w) = (u * p) * t /\ (u * p) * t \in Int
  <2>1. CASE u = 1
    <3>1. CASE p = 1
      BY <1>2, <2>1, <3>1
    <3>2. CASE p = -1
      BY <1>2, <2>1, <3>2
    <3> QED
      BY <3>1, <3>2
  <2>2. CASE u = -1
    <3>1. CASE p = 1
      BY <1>2, <2>2, <3>1
    <3>2. CASE p = -1
      BY <1>2, <2>2, <3>2
    <3> QED
      BY <3>1, <3>2
  <2> QED
    BY <2>1, <2>2
<1> QED
  BY <1>1, <1>3, <1>4, <1>5

-----------------------------------------------------------------------------
\* Columns, and the transposed matrix.
\* A minor is expanded along any of its columns.
ByColumn(a, R, C, k) ==
  [s \in R |-> (Cofactor(R, s) * Cofactor(C, k)) * (a[s][k] * Minor(a, R \ {s}, C \ {k}))]
Expandable(a, R, C) == Balanced(R, C) /\ Entries(a, R, C)

\* What a step of the induction works with: the terms of the double sum.
Signed(Q, S, k, l, s) == (Cofactor(S, l) * Cofactor(S \ {l}, k)) * Cofactor(Others(Q), s)
Twin(a, Q, S, k, l, s) == (a[First(Q)][l] * a[s][k]) * Minor(a, Others(Q) \ {s}, (S \ {l}) \ {k})
TwinTerms(a, Q, S, k) ==
  [l \in S \ {k} |-> [s \in Others(Q) |-> Signed(Q, S, k, l, s) * Twin(a, Q, S, k, l, s)]]

\* What an expansion along a row and a column at once works with.
LEMMA TwinData ==
  ASSUME NEW a, NEW Q, NEW S, Expandable(a, Q, S), NEW k \in S
  PROVE  /\ First(Q) \in Q /\ IsFiniteSet(Q) /\ IsFiniteSet(S) /\ Q \in SUBSET Int /\ S \in SUBSET Int
         /\ IsFiniteSet(S \ {k}) /\ IsFiniteSet(Others(Q)) /\ Q # {} /\ S # {}
         /\ \A s \in Q, l \in S : Expandable(a, Q \ {s}, S \ {l}) /\ a[s][l] \in Int
         /\ \A s \in Others(Q), l \in S \ {k} : Minor(a, Others(Q) \ {s}, (S \ {l}) \ {k}) \in Int
<1>1. /\ First(Q) \in Q /\ IsFiniteSet(Q) /\ IsFiniteSet(S) /\ Q \in SUBSET Int /\ S \in SUBSET Int
      /\ IsFiniteSet(S \ {k}) /\ IsFiniteSet(Others(Q)) /\ Q # {} /\ S # {}
  BY BalancedShrinks, FS_RemoveElement DEF Expandable, Balanced, Others
<1>2. ASSUME NEW s \in Q, NEW l \in S PROVE Expandable(a, Q \ {s}, S \ {l}) /\ a[s][l] \in Int
  BY BalancedShrinks DEF Expandable, Entries
<1>3. ASSUME NEW s \in Others(Q), NEW l \in S \ {k}
      PROVE  Minor(a, Others(Q) \ {s}, (S \ {l}) \ {k}) \in Int
  <2>1. Expandable(a, Others(Q), S \ {l})
    BY <1>1, <1>2 DEF Others
  <2>2. Balanced(Others(Q) \ {s}, (S \ {l}) \ {k})
    <3>1. k \in S \ {l}
      OBVIOUS
    <3>2. S \ {l} # {}
      BY <3>1
    <3> QED
      BY <2>1, <3>1, <3>2, BalancedShrinks DEF Expandable
  <2>3. Entries(a, Others(Q) \ {s}, (S \ {l}) \ {k})
    BY <2>1 DEF Expandable, Entries
  <2> QED
    BY <2>2, <2>3, MinorType
<1> QED
  BY <1>1, <1>2, <1>3

\* One term of the expansion along the first row is a row of the double sum ...
LEMMA TwinRow ==
  ASSUME NEW a, NEW Q, NEW S, Expandable(a, Q, S), NEW k \in S, NEW l \in S \ {k},
         Minor(a, Others(Q), S \ {l}) = Total(ByColumn(a, Others(Q), S \ {l}, k), Others(Q))
  PROVE  /\ Products(a, Q, S)[l] = Total(TwinTerms(a, Q, S, k)[l], Others(Q))
         /\ AllInt(TwinTerms(a, Q, S, k)[l], Others(Q))
<1> DEFINE P == Others(Q)
           e == ByColumn(a, P, S \ {l}, k)
           h == TwinTerms(a, Q, S, k)[l]
<1>1. /\ IsFiniteSet(P) /\ First(Q) \in Q
      /\ \A s \in P : a[s][k] \in Int /\ Minor(a, P \ {s}, (S \ {l}) \ {k}) \in Int
      /\ a[First(Q)][l] \in Int
  <2>0. l \in S
    OBVIOUS
  <2>1. IsFiniteSet(P) /\ First(Q) \in Q
    BY TwinData
  <2>2. \A s \in P, i \in S \ {k} : Minor(a, P \ {s}, (S \ {i}) \ {k}) \in Int
    BY TwinData
  <2>3. \A s \in Q, i \in S : a[s][i] \in Int
    BY TwinData
  <2> QED
    BY <2>0, <2>1, <2>2, <2>3 DEF Others
<1>2. PICK u \in {1, -1}, x \in Int : u = Cofactor(S, l) /\ x = a[First(Q)][l]
  BY <1>1, CofactorType
<1>3. ASSUME NEW s \in P PROVE h[s] = (u * x) * e[s] /\ h[s] \in Int /\ e[s] \in Int
  <2>1. PICK c \in {1, -1}, d \in {1, -1}, y \in Int, z \in Int :
          c = Cofactor(P, s) /\ d = Cofactor(S \ {l}, k) /\ y = a[s][k] /\ z = Minor(a, P \ {s}, (S \ {l}) \ {k})
    BY <1>1, CofactorType
  <2>2. PICK p \in {1, -1} : p = c * d
    OBVIOUS
  <2>3. (u * d) * c = u * p
    BY <2>2
  <2>4. e[s] = p * (y * z)
    BY <2>1, <2>2 DEF ByColumn
  <2>5. h[s] = (u * p) * ((x * y) * z)
    <3>1. h[s] = ((u * d) * c) * ((x * y) * z)
      BY <1>2, <2>1 DEF TwinTerms, Signed, Twin
    <3> QED
      BY <2>3, <3>1
  <2>6. (u * x) * (p * (y * z)) = (u * p) * ((x * y) * z) /\ (u * p) * ((x * y) * z) \in Int
    BY SignsApart
  <2>7. p * (y * z) \in Int
    OBVIOUS
  <2> QED
    BY <2>4, <2>5, <2>6, <2>7
<1>4. PICK c \in Int : c = u * x
  OBVIOUS
<1> HIDE DEF h, e
<1>5. AllInt(e, P) /\ AllInt(h, P) /\ \A s \in P : h[s] = c * e[s]
  BY <1>3, <1>4 DEF AllInt
<1>6. Total(h, P) = c * Total(e, P)
  BY <1>1, <1>5, TotalMultiple
<1>7. Total(e, P) \in Int
  BY <1>1, <1>5, TotalType
<1>8. Products(a, Q, S)[l] = u * (x * Total(e, P))
  BY <1>2 DEF Products, e
<1>9. u * (x * Total(e, P)) = (u * x) * Total(e, P)
  <2>1. PICK y \in Int : y = Total(e, P)
    BY <1>7
  <2>2. u * (x * y) = (u * x) * y
    OBVIOUS
  <2> QED
    BY <2>1, <2>2
<1> QED
  BY <1>4, <1>5, <1>6, <1>8, <1>9 DEF h

\* ... and one term of the expansion along the column a column of it.
LEMMA TwinColumn ==
  ASSUME NEW a, NEW Q, NEW S, Expandable(a, Q, S), NEW k \in S, NEW s \in Others(Q)
  PROVE  ByColumn(a, Q, S, k)[s] = Total([l \in S \ {k} |-> TwinTerms(a, Q, S, k)[l][s]], S \ {k})
<1> DEFINE P == Others(Q)
           W == S \ {k}
           e == Products(a, Q \ {s}, W)
           h == [l \in W |-> TwinTerms(a, Q, S, k)[l][s]]
<1>0. s \in Q /\ s # First(Q) /\ Q \in SUBSET Int /\ S \in SUBSET Int /\ Q # {} /\ IsFiniteSet(Q) /\ IsFiniteSet(S)
      /\ First(Q) \in Q /\ IsFiniteSet(W)
  BY TwinData DEF Others
<1>1. First(Q \ {s}) = First(Q) /\ Others(Q \ {s}) = P \ {s} /\ Cofactor(P, s) = -Cofactor(Q, s)
  BY <1>0, FirstCofactor
<1>2. Expandable(a, Q \ {s}, W)
  BY <1>0, TwinData
<1>3. W # {}
  <2>1. Q \ {s} # {} /\ IsFiniteSet(Q \ {s}) /\ Cardinality(Q \ {s}) = Cardinality(W)
    BY <1>0, <1>2, FS_RemoveElement DEF Expandable, Balanced
  <2> QED
    BY <2>1, FS_EmptySet
<1>4. Minor(a, Q \ {s}, W) = Total(e, W) /\ AllInt(e, W)
  BY <1>2, <1>3, Laplace DEF Expandable
<1>5. PICK u \in {1, -1}, y \in Int : u = Cofactor(Q, s) * Cofactor(S, k) /\ y = a[s][k]
  <2>1. PICK p \in {1, -1}, q \in {1, -1} : p = Cofactor(Q, s) /\ q = Cofactor(S, k)
    BY CofactorType
  <2>2. p * q \in {1, -1}
    OBVIOUS
  <2>3. a[s][k] \in Int
    BY <1>0, TwinData
  <2> QED
    BY <2>1, <2>2, <2>3
<1>6. ASSUME NEW l \in W PROVE h[l] = (u * y) * e[l]
  <2>1. PICK x \in Int, z \in Int, p \in {1, -1} :
          x = a[First(Q)][l] /\ z = Minor(a, P \ {s}, (S \ {l}) \ {k}) /\ p = Cofactor(W, l)
    BY <1>0, TwinData, CofactorType
  <2>2. (S \ {l}) \ {k} = W \ {l}
    OBVIOUS
  <2>3. e[l] = p * (x * z)
    BY <1>1, <2>1, <2>2 DEF Products
  <2>4. Signed(Q, S, k, l, s) = u * p
    <3>1. PICK c \in {1, -1}, d \in {1, -1}, f \in {1, -1}, g \in {1, -1} :
            c = Cofactor(S, l) /\ d = Cofactor(S \ {l}, k) /\ f = Cofactor(Q, s) /\ g = Cofactor(S, k)
      BY CofactorType
    <3>2. c * d = -(g * p)
      <4>1. l \in S /\ l # k
        OBVIOUS
      <4>2. Cofactor(S, l) * Cofactor(S \ {l}, k) = -(Cofactor(S, k) * Cofactor(S \ {k}, l))
        BY <1>0, <4>1, CofactorsSwap
      <4> QED
        BY <2>1, <3>1, <4>2
    <3>3. (c * d) * (-f) = (f * g) * p
      BY <3>2
    <3> QED
      BY <1>1, <1>5, <3>1, <3>3 DEF Signed
  <2>5. h[l] = (u * p) * ((x * y) * z)
    BY <1>5, <2>1, <2>4 DEF TwinTerms, Twin
  <2>6. (u * y) * (p * (x * z)) = (u * p) * ((x * y) * z)
    BY SignsApart
  <2> QED
    BY <2>3, <2>5, <2>6
<1>7. PICK c \in Int : c = u * y
  OBVIOUS
<1>8. ByColumn(a, Q, S, k)[s] = u * (y * Total(e, W))
  BY <1>0, <1>4, <1>5 DEF ByColumn
<1> HIDE DEF h, e
<1>9. Total(h, W) = c * Total(e, W) /\ Total(e, W) \in Int
  <2>1. \A l \in W : h[l] = c * e[l]
    BY <1>6, <1>7
  <2> QED
    <3> HIDE DEF W
    <3>1. IsFiniteSet(W) /\ AllInt(e, W) /\ c \in Int
      BY <1>0, <1>4
    <3>2. Total(h, W) = c * Total(e, W)
      BY <2>1, <3>1, TotalMultiple
    <3>3. Total(e, W) \in Int
      BY <3>1, TotalType
    <3> QED
      BY <3>2, <3>3
<1>10. u * (y * Total(e, W)) = (u * y) * Total(e, W)
  <2>1. PICK x \in Int : x = Total(e, W)
    BY <1>9
  <2>2. u * (y * x) = (u * y) * x
    OBVIOUS
  <2> QED
    BY <2>1, <2>2
<1> QED
  BY <1>7, <1>8, <1>9, <1>10 DEF h

\* A minor expands along any column.
LEMMA ColumnExpansion ==
  ASSUME NEW a, NEW R, NEW C, Expandable(a, R, C), NEW k \in C
  PROVE  Minor(a, R, C) = Total(ByColumn(a, R, C, k), R)
<1> DEFINE Holds(Q, S) == Minor(a, Q, S) = Total(ByColumn(a, Q, S, k), Q)
           T == {S \in SUBSET C : k \in S /\ \E Q \in SUBSET R : Expandable(a, Q, S) /\ ~ Holds(Q, S)}
<1> SUFFICES ASSUME T # {} PROVE FALSE
  <2>1. T = {} => Holds(R, C)
    <3>1. C \in SUBSET C /\ R \in SUBSET R
      OBVIOUS
    <3> HIDE DEF Holds
    <3> QED
      BY <3>1
  <2> QED
    BY <2>1
<1>1. PICK S \in T : \A B \in T : B \subseteq S => B = S
  <2>1. T \subseteq SUBSET C /\ IsFiniteSet(C)
    BY DEF Expandable, Balanced
  <2> HIDE DEF T
  <2> QED
    BY <2>1, LeastSet
<1>2. PICK Q \in SUBSET R : Expandable(a, Q, S) /\ ~ Holds(Q, S)
  BY <1>1
<1> DEFINE P == Others(Q)
           W == S \ {k}
           r == First(Q)
           f == Products(a, Q, S)
           g == ByColumn(a, Q, S, k)
           h == TwinTerms(a, Q, S, k)
<1>3. k \in S /\ S \in SUBSET C
  BY <1>1
<1>4. /\ r \in Q /\ IsFiniteSet(Q) /\ IsFiniteSet(S) /\ IsFiniteSet(W) /\ IsFiniteSet(P) /\ Q # {} /\ S # {}
      /\ Q \in SUBSET Int
      /\ \A l \in S : Expandable(a, P, S \ {l})
  BY <1>2, <1>3, TwinData DEF Others
<1>5. Minor(a, Q, S) = Total(f, S) /\ AllInt(f, S)
  BY <1>2, <1>4, Laplace DEF Expandable
<1>6. AllInt(g, Q)
  <2> SUFFICES ASSUME NEW s \in Q PROVE g[s] \in Int
    BY DEF AllInt
  <2>1. Expandable(a, Q \ {s}, W) /\ a[s][k] \in Int
    BY <1>2, <1>3, TwinData
  <2>2. PICK p \in {1, -1}, q \in {1, -1}, x \in Int, z \in Int :
          p = Cofactor(Q, s) /\ q = Cofactor(S, k) /\ x = a[s][k] /\ z = Minor(a, Q \ {s}, W)
    BY <2>1, CofactorType, MinorType DEF Expandable
  <2>3. (p * q) * (x * z) \in Int
    OBVIOUS
  <2> QED
    BY <2>2, <2>3 DEF ByColumn
<1>7. f[k] = g[r]
  <2>1. Cofactor(Q, r) = 1
    BY <1>4, FirstCofactor
  <2>2. PICK p \in {1, -1} : p = Cofactor(S, k)
    BY CofactorType
  <2>3. 1 * p = p
    OBVIOUS
  <2> QED
    BY <1>3, <1>4, <2>1, <2>2, <2>3 DEF Products, ByColumn, Others
<1>8. ASSUME NEW l \in W PROVE f[l] = Total(h[l], P) /\ AllInt(h[l], P)
  <2>1. S \ {l} \in SUBSET C /\ P \in SUBSET R /\ S \ {l} \subseteq S /\ S \ {l} # S /\ k \in S \ {l}
    BY <1>3 DEF Others
  <2>2. S \ {l} \notin T
    <3> HIDE DEF T
    <3> QED
      BY <1>1, <2>1
  <2>3. Holds(P, S \ {l})
    <3> HIDE DEF Holds, P
    <3> QED
      BY <1>4, <2>1, <2>2
  <2> QED
    BY <1>2, <1>3, <2>3, TwinRow
<1>9. ASSUME NEW s \in P PROVE g[s] = Total([l \in W |-> h[l][s]], W)
  BY <1>2, <1>3, TwinColumn
<1> HIDE DEF P, W, r, f, g, h
<1>10. Total(f, W) = Total([l \in W |-> Total(h[l], P)], W) /\ Total(f, W) \in Int
  <2>1. AllInt(f, W)
    BY <1>5 DEF AllInt, W
  <2>2. \A l \in W : f[l] = [m \in W |-> Total(h[m], P)][l]
    BY <1>8
  <2> QED
    BY <1>4, <2>1, <2>2, TotalEqual, TotalType
<1>11. Total(g, P) = Total([s \in P |-> Total([l \in W |-> h[l][s]], W)], P)
  <2>1. AllInt(g, P)
    BY <1>6 DEF AllInt, P, Others
  <2> DEFINE col == [s \in P |-> Total([l \in W |-> h[l][s]], W)]
  <2>2. \A s \in P : g[s] = col[s]
    BY <1>9
  <2> HIDE DEF col
  <2>3. Total(g, P) = Total(col, P)
    BY <1>4, <2>1, <2>2, TotalEqual
  <2> QED
    BY <2>3 DEF col
<1>12. Total([l \in W |-> Total(h[l], P)], W) = Total([s \in P |-> Total([l \in W |-> h[l][s]], W)], P)
  <2>1. \A l \in W, s \in P : h[l][s] \in Int
    BY <1>8 DEF AllInt
  <2>2. Total([l \in W |-> Total([s \in P |-> h[l][s]], P)], W) = Total([s \in P |-> Total([l \in W |-> h[l][s]], W)], P)
    BY <1>4, <2>1, TotalExchange
  <2>3. \A l \in W : h[l] = [s \in P |-> h[l][s]]
    BY DEF h, TwinTerms, W, P
  <2>4. [l \in W |-> Total(h[l], P)] = [l \in W |-> Total([s \in P |-> h[l][s]], P)]
    BY <2>3
  <2> QED
    BY <2>2, <2>4
<1>13. Total(f, S) = f[k] + Total(f, W) /\ Total(g, Q) = g[r] + Total(g, P)
  BY <1>3, <1>4, <1>5, <1>6, TotalRemove DEF W, P, Others, r
<1>14. Total(f, S) = Total(g, Q)
  BY <1>7, <1>10, <1>11, <1>12, <1>13
<1> QED
  BY <1>2, <1>5, <1>14 DEF f, g

-----------------------------------------------------------------------------
\* Rows and columns exchanged leave a minor as it is.
Flipped(b, a, R, C) == \A r \in R, k \in C : b[k][r] = a[r][k]
\* The transposed matrix has the same minors.
LEMMA FlippedMinor ==
  ASSUME NEW a, NEW b, NEW R, NEW C, Expandable(a, R, C), Flipped(b, a, R, C)
  PROVE  Minor(b, C, R) = Minor(a, R, C)
<1> DEFINE T == {S \in SUBSET C : \E Q \in SUBSET R : Expandable(a, Q, S) /\ Minor(b, S, Q) # Minor(a, Q, S)}
<1> SUFFICES ASSUME T # {} PROVE FALSE
  <2>1. C \in SUBSET C /\ R \in SUBSET R
    OBVIOUS
  <2> QED
    BY <2>1
<1>1. PICK S \in T : \A B \in T : B \subseteq S => B = S
  <2>1. T \subseteq SUBSET C /\ IsFiniteSet(C)
    BY DEF Expandable, Balanced
  <2> HIDE DEF T
  <2> QED
    BY <2>1, LeastSet
<1>2. PICK Q \in SUBSET R : Expandable(a, Q, S) /\ Minor(b, S, Q) # Minor(a, Q, S)
  BY <1>1
<1>3. Balanced(S, Q) /\ Flipped(b, a, Q, S) /\ Entries(b, S, Q) /\ S \in SUBSET C
  BY <1>2 DEF Expandable, Balanced, Entries, Flipped
<1>4. CASE S = {}
  <2>1. Q = {}
    BY <1>2, <1>4, FS_EmptySet DEF Expandable, Balanced
  <2> QED
    BY <1>2, <1>4, <2>1, MinorEmpty
<1>5. CASE S # {}
  <2> DEFINE c == First(S)
             f == Products(b, S, Q)
             g == ByColumn(a, Q, S, c)
  <2>1. /\ Q # {} /\ c \in S /\ IsFiniteSet(Q) /\ IsFiniteSet(S) /\ S \in SUBSET Int
        /\ \A s \in Q : Expandable(a, Q \ {s}, S \ {c})
    <3>1. Q # {} /\ IsFiniteSet(Q) /\ IsFiniteSet(S) /\ S \in SUBSET Int
      BY <1>2, <1>5, FS_EmptySet DEF Expandable, Balanced
    <3>2. c \in S
      BY <1>3, <3>1, BalancedShrinks
    <3> QED
      BY <1>2, <3>1, <3>2, TwinData
  <2>2. Minor(b, S, Q) = Total(f, Q) /\ AllInt(f, Q)
    BY <1>3, <2>1, Laplace
  <2>3. Minor(a, Q, S) = Total(g, Q)
    BY <1>2, <2>1, ColumnExpansion
  <2>4. ASSUME NEW s \in Q PROVE f[s] = g[s]
    <3>1. S \ {c} \in SUBSET C /\ Q \ {s} \in SUBSET R /\ S \ {c} \subseteq S /\ S \ {c} # S
      BY <1>3, <2>1
    <3>2. S \ {c} \notin T
      <4> HIDE DEF T, c
      <4> QED
        BY <1>1, <3>1
    <3>3. Minor(b, S \ {c}, Q \ {s}) = Minor(a, Q \ {s}, S \ {c})
      <4> HIDE DEF c
      <4> QED
        BY <2>1, <3>1, <3>2
    <3>4. b[c][s] = a[s][c]
      BY <1>3, <2>1 DEF Flipped
    <3>5. Cofactor(S, c) = 1
      BY <1>5, <2>1, FirstCofactor
    <3>6. PICK p \in {1, -1} : p = Cofactor(Q, s)
      BY CofactorType
    <3>7. p * 1 = p
      OBVIOUS
    <3> QED
      BY <3>3, <3>4, <3>5, <3>6, <3>7 DEF Products, ByColumn, Others
  <2> HIDE DEF f, g
  <2>5. Total(f, Q) = Total(g, Q)
    BY <2>1, <2>2, <2>4, TotalEqual
  <2> QED
    BY <1>2, <2>2, <2>3, <2>5
<1> QED
  BY <1>4, <1>5

\* The cofactors of one row against the entries of another.
Against(a, R, C, r, s) ==
  [k \in C |-> (Cofactor(R, s) * Cofactor(C, k)) * (a[r][k] * Minor(a, R \ {s}, C \ {k}))]
\* A row against the cofactors of a row: its own gives the minor, another gives zero.
LEMMA RowCofactors ==
  ASSUME NEW a, NEW R, NEW C, Expandable(a, R, C), NEW r \in R, NEW s \in R
  PROVE  Total(Against(a, R, C, r, s), C) = IF r = s THEN Minor(a, R, C) ELSE 0
<1> DEFINE b == [q \in R |-> IF q = s THEN a[r] ELSE a[q]]
           t == [k \in C |-> [q \in R |-> b[q][k]]]
           f == ByColumn(t, C, R, s)
<1>1. Expandable(b, R, C) /\ Expandable(t, C, R) /\ Flipped(t, b, R, C)
  <2>1. \A q \in R, k \in C : b[q][k] \in Int /\ t[k][q] = b[q][k]
    BY DEF Expandable, Entries
  <2> HIDE DEF b, t
  <2> QED
    BY <2>1 DEF Expandable, Balanced, Entries, Flipped
<1>2. Minor(t, C, R) = Minor(b, R, C)
  BY <1>1, FlippedMinor
<1>3. Minor(b, R, C) = IF r = s THEN Minor(a, R, C) ELSE 0
  <2>1. CASE r = s
    <3>1. AgreeOn(b, a, R, C)
      BY <2>1 DEF AgreeOn
    <3> QED
      BY <1>1, <2>1, <3>1, MinorLocal DEF Expandable
  <2>2. CASE r # s
    <3>1. EqualRows(b, r, s, C)
      BY <2>2 DEF EqualRows
    <3> QED
      BY <1>1, <2>2, <3>1, EqualRowsVanish DEF Expandable
  <2> QED
    BY <2>1, <2>2
<1>4. Minor(t, C, R) = Total(f, C)
  BY <1>1, ColumnExpansion
<1>5. f = Against(a, R, C, r, s)
  <2>1. ASSUME NEW k \in C PROVE f[k] = Against(a, R, C, r, s)[k]
    <3>1. Expandable(b, R \ {s}, C \ {k})
      BY <1>1, TwinData
    <3>2. Flipped(t, b, R \ {s}, C \ {k})
      BY <1>1 DEF Flipped
    <3>3. Minor(t, C \ {k}, R \ {s}) = Minor(b, R \ {s}, C \ {k})
      BY <3>1, <3>2, FlippedMinor
    <3>4. Minor(b, R \ {s}, C \ {k}) = Minor(a, R \ {s}, C \ {k})
      <4>1. AgreeOn(b, a, R \ {s}, C \ {k})
        BY DEF AgreeOn
      <4> QED
        BY <3>1, <4>1, MinorLocal DEF Expandable
    <3>5. t[k][s] = a[r][k]
      OBVIOUS
    <3>6. PICK p \in {1, -1}, q \in {1, -1} : p = Cofactor(R, s) /\ q = Cofactor(C, k)
      BY CofactorType
    <3>7. q * p = p * q
      OBVIOUS
    <3> HIDE DEF t, b
    <3> QED
      BY <3>3, <3>4, <3>5, <3>6, <3>7 DEF ByColumn, Against
  <2> HIDE DEF t
  <2> QED
    BY <2>1 DEF ByColumn, Against
<1> HIDE DEF f, b, t
<1> QED
  BY <1>2, <1>3, <1>4, <1>5

-----------------------------------------------------------------------------
\* Cramer's rule.
\* Cramer's rule: the minors with the right hand side in place of one column
\* solve the system scaled by the minor.
Puts(B, a, v, R, C) ==
  /\ Expandable(a, R, C) /\ AllInt(v, R)
  /\ \A k \in C : IsPut(B[k], a, k, v, R, C)
Weighted(a, v, R, C, k) ==
  [s \in R |-> v[s] * ((Cofactor(R, s) * Cofactor(C, k)) * Minor(a, R \ {s}, C \ {k}))]

\* The minor with v put in a column expands along it.
LEMMA PutMinor ==
  ASSUME NEW B, NEW a, NEW v, NEW R, NEW C, Puts(B, a, v, R, C), NEW k \in C
  PROVE  /\ Minor(B[k], R, C) = Total(Weighted(a, v, R, C, k), R)
         /\ AllInt(Weighted(a, v, R, C, k), R)
         /\ Minor(B[k], R, C) \in Int
<1> DEFINE b == B[k]
           f == ByColumn(b, R, C, k)
           g == Weighted(a, v, R, C, k)
<1>1. Expandable(b, R, C) /\ IsPut(b, a, k, v, R, C)
  BY DEF Puts, Expandable, Entries, IsPut, AllInt
<1>2. Minor(b, R, C) = Total(f, R) /\ Minor(b, R, C) \in Int
  BY <1>1, ColumnExpansion, MinorType DEF Expandable
<1>3. ASSUME NEW s \in R PROVE f[s] = g[s] /\ g[s] \in Int
  <2>1. Expandable(a, R \ {s}, C \ {k}) /\ Expandable(b, R \ {s}, C \ {k})
    BY <1>1, TwinData DEF Puts
  <2>2. Minor(b, R \ {s}, C \ {k}) = Minor(a, R \ {s}, C \ {k})
    <3>1. R \ {s} \in SUBSET R /\ C \ {k} \in SUBSET C /\ k \notin C \ {k}
      OBVIOUS
    <3> QED
      BY <1>1, <2>1, <3>1, PutElsewhere DEF Expandable
  <2>3. b[s][k] = v[s]
    BY <1>1 DEF IsPut
  <2>4. PICK p \in {1, -1}, q \in {1, -1}, x \in Int, z \in Int :
          p = Cofactor(R, s) /\ q = Cofactor(C, k) /\ x = v[s] /\ z = Minor(a, R \ {s}, C \ {k})
    BY <2>1, CofactorType, MinorType DEF Expandable, Puts, AllInt
  <2>5. (p * q) * (x * z) = x * ((p * q) * z) /\ x * ((p * q) * z) \in Int
    <3>1. p * q = 1 \/ p * q = -1
      OBVIOUS
    <3>2. PICK w \in Int : w = x * z
      OBVIOUS
    <3>3. x * (1 * z) = w /\ x * ((-1) * z) = -w
      BY <3>2
    <3>4. 1 * w = w /\ (-1) * w = -w
      OBVIOUS
    <3> QED
      BY <3>1, <3>2, <3>3, <3>4
  <2>6. f[s] = (p * q) * (x * z)
    BY <2>2, <2>3, <2>4 DEF ByColumn
  <2>7. g[s] = x * ((p * q) * z)
    BY <2>4 DEF Weighted
  <2> QED
    BY <2>5, <2>6, <2>7
<1>4. IsFiniteSet(R)
  BY DEF Puts, Expandable, Balanced
<1> HIDE DEF f, g
<1>5. AllInt(g, R) /\ AllInt(f, R)
  BY <1>3 DEF AllInt
<1>6. Total(f, R) = Total(g, R)
  BY <1>3, <1>4, <1>5, TotalEqual
<1> QED
  BY <1>2, <1>5, <1>6 DEF g

\* Each equation holds of the minors with v put in a column.
LEMMA CramerRow ==
  ASSUME NEW B, NEW a, NEW v, NEW R, NEW C, Puts(B, a, v, R, C), NEW r \in R
  PROVE  Total([k \in C |-> a[r][k] * Minor(B[k], R, C)], C) = v[r] * Minor(a, R, C)
<1> DEFINE h == [k \in C |-> [s \in R |-> a[r][k] * Weighted(a, v, R, C, k)[s]]]
           f == [k \in C |-> a[r][k] * Minor(B[k], R, C)]
           rows == [k \in C |-> Total([s \in R |-> h[k][s]], R)]
           cols == [s \in R |-> Total([k \in C |-> h[k][s]], C)]
           det == Minor(a, R, C)
<1>0. IsFiniteSet(R) /\ IsFiniteSet(C) /\ Expandable(a, R, C) /\ det \in Int /\ v[r] \in Int
  BY MinorType DEF Puts, Expandable, Balanced, AllInt
<1>1. ASSUME NEW k \in C
      PROVE  f[k] = rows[k] /\ \A s \in R : h[k][s] \in Int
  <2> DEFINE g == [s \in R |-> h[k][s]]
             e == Weighted(a, v, R, C, k)
  <2>1. Minor(B[k], R, C) = Total(e, R) /\ AllInt(e, R)
    BY PutMinor
  <2>2. PICK x \in Int : x = a[r][k]
    BY <1>0 DEF Expandable, Entries
  <2>3. \A s \in R : g[s] = x * e[s] /\ x * e[s] \in Int /\ h[k][s] = g[s]
    <3> SUFFICES ASSUME NEW s \in R PROVE g[s] = x * e[s] /\ x * e[s] \in Int /\ h[k][s] = g[s]
      OBVIOUS
    <3>1. PICK y \in Int : y = e[s]
      BY <2>1 DEF AllInt
    <3>2. x * y \in Int
      OBVIOUS
    <3> HIDE DEF e
    <3>3. g[s] = x * e[s] /\ h[k][s] = g[s]
      BY <2>2 DEF e
    <3> QED
      BY <3>1, <3>2, <3>3
  <2> HIDE DEF e, g, h
  <2>4. Total(g, R) = x * Total(e, R)
    BY <1>0, <2>1, <2>3, TotalMultiple
  <2>5. f[k] = x * Total(e, R)
    BY <2>1, <2>2
  <2>6. \A s \in R : h[k][s] \in Int
    BY <2>3
  <2>7. rows[k] = Total(g, R)
    BY DEF g
  <2> HIDE DEF rows, f
  <2> QED
    BY <2>4, <2>5, <2>6, <2>7
<1>2. ASSUME NEW s \in R PROVE cols[s] = IF s = r THEN v[r] * det ELSE 0
  <2> DEFINE g == [k \in C |-> h[k][s]]
             e == Against(a, R, C, r, s)
  <2>1. Total(e, C) = IF r = s THEN det ELSE 0
    BY <1>0, RowCofactors
  <2>2. PICK y \in Int : y = v[s]
    BY DEF Puts, AllInt
  <2>3. ASSUME NEW k \in C PROVE g[k] = y * e[k] /\ e[k] \in Int
    <3>1. Expandable(a, R \ {s}, C \ {k})
      BY <1>0, TwinData
    <3>2. PICK p \in {1, -1}, q \in {1, -1}, x \in Int, z \in Int :
            p = Cofactor(R, s) /\ q = Cofactor(C, k) /\ x = a[r][k] /\ z = Minor(a, R \ {s}, C \ {k})
      BY <1>0, <3>1, CofactorType, MinorType DEF Expandable, Entries
    <3>3. PICK u \in {1, -1} : u = p * q
      OBVIOUS
    <3>4. e[k] = u * (x * z)
      BY <3>2, <3>3 DEF Against
    <3>5. g[k] = x * (y * (u * z))
      BY <2>2, <3>2, <3>3 DEF Weighted
    <3>6. x * (y * (u * z)) = y * (u * (x * z)) /\ u * (x * z) \in Int
      <4>1. x * (y * z) = y * (x * z)
        OBVIOUS
      <4>2. PICK w \in Int : w = x * z
        OBVIOUS
      <4>3. CASE u = 1
        <5>1. u * z = z /\ u * (x * z) = x * z
          BY <4>2, <4>3
        <5> QED
          BY <4>1, <4>2, <5>1
      <4>4. CASE u = -1
        <5>1. x * (y * (-z)) = -(x * (y * z)) /\ y * (-(x * z)) = -(y * (x * z))
          OBVIOUS
        <5>2. u * z = -z /\ u * (x * z) = -(x * z)
          BY <4>2, <4>4
        <5> QED
          BY <4>1, <4>2, <5>1, <5>2
      <4> QED
        BY <4>3, <4>4
    <3> HIDE DEF e, g
    <3> QED
      BY <3>4, <3>5, <3>6
  <2> HIDE DEF e, g, h
  <2>4. Total(g, C) = y * Total(e, C)
    <3>1. AllInt(e, C) /\ \A k \in C : g[k] = y * e[k]
      BY <2>3 DEF AllInt
    <3> QED
      BY <1>0, <3>1, TotalMultiple
  <2>5. cols[s] = Total(g, C)
    BY DEF g
  <2>6. y * 0 = 0
    OBVIOUS
  <2> HIDE DEF cols, det
  <2>7. CASE s = r
    <3>1. Total(e, C) = det
      BY <2>1, <2>7
    <3> QED
      BY <2>2, <2>4, <2>5, <2>7, <3>1
  <2>8. CASE s # r
    <3>1. Total(e, C) = 0
      BY <2>1, <2>8
    <3> QED
      BY <2>4, <2>5, <2>6, <2>8, <3>1
  <2> QED
    BY <2>7, <2>8
<1>3. Total(rows, C) = Total(cols, R)
  <2>1. \A k \in C, s \in R : h[k][s] \in Int
    BY <1>1
  <2> HIDE DEF h
  <2> QED
    BY <1>0, <2>1, TotalExchange
<1>4. f = rows
  <2>1. \A k \in C : f[k] = rows[k]
    BY <1>1
  <2> HIDE DEF h
  <2> QED
    BY <2>1
<1>5. Total(cols, R) = v[r] * det
  <2>1. cols[r] = v[r] * det /\ \A s \in R \ {r} : cols[s] = 0
    BY <1>2
  <2>2. v[r] * det \in Int
    <3>1. PICK x \in Int, y \in Int : x = v[r] /\ y = det
      BY <1>0
    <3>2. x * y \in Int
      OBVIOUS
    <3> QED
      BY <3>1, <3>2
  <2> HIDE DEF cols, det
  <2> QED
    BY <1>0, <2>1, <2>2, TotalSingle
<1> QED
  BY <1>3, <1>4, <1>5

-----------------------------------------------------------------------------
(***************************************************************************)
(* Square systems.  What Solution returns solves the system, and nothing   *)
(* else does if the matrix is not singular.                                *)
(***************************************************************************)
Names(N) == N \in SUBSET Int /\ IsFiniteSet(N)
SquareOn(a, N) == Names(N) /\ a \in [N -> [N -> Int]]
MatrixTimes(a, N, x) == [r \in N |-> Total([k \in N |-> a[r][k] * x[k]], N)]
Solves(a, N, x, v, d) ==
  AllInt(x, N) /\ d \in Int /\ \A r \in N : MatrixTimes(a, N, x)[r] = v[r] * d
PutAt(a, N, k, v) == [r \in N |-> [a[r] EXCEPT ![k] = v[r]]]
SystemOn(a, N, v) == SquareOn(a, N) /\ AllInt(v, N)

\* The determinant of a square matrix is its minor.
LEMMA SquareExpands ==
  ASSUME NEW a, NEW N, SquareOn(a, N)
  PROVE  Expandable(a, N, N) /\ Determinant(a, N) = Minor(a, N, N) /\ Determinant(a, N) \in Int
<1>1. Expandable(a, N, N)
  BY DEF SquareOn, Names, Expandable, Balanced, Entries
<1> QED
  BY <1>1, DeterminantIsMinor, MinorType DEF Expandable

\* A column put into a square matrix leaves it square.
LEMMA PutSquare ==
  ASSUME NEW a, NEW N, NEW v, SystemOn(a, N, v), NEW k \in N
  PROVE  SquareOn(PutAt(a, N, k, v), N) /\ IsPut(PutAt(a, N, k, v), a, k, v, N, N)
<1> DEFINE b == PutAt(a, N, k, v)
<1>1. ASSUME NEW r \in N PROVE b[r] \in [N -> Int] /\ \A c \in N : b[r][c] = IF c = k THEN v[r] ELSE a[r][c]
  <2>1. a[r] \in [N -> Int] /\ v[r] \in Int
    BY DEF SystemOn, SquareOn, AllInt
  <2>2. b[r] = [a[r] EXCEPT ![k] = v[r]]
    BY DEF PutAt
  <2> HIDE DEF b
  <2> QED
    BY <2>1, <2>2
<1>2. b \in [N -> [N -> Int]]
  BY <1>1 DEF PutAt
<1> HIDE DEF b
<1>3. SquareOn(b, N) /\ IsPut(b, a, k, v, N, N)
  BY <1>1, <1>2 DEF SquareOn, SystemOn, IsPut
<1> QED
  BY <1>3 DEF b

\* The sign that makes the denominator positive.
Sign(d) == IF d < 0 THEN -1 ELSE 1
Numerators(a, N, v) == [k \in N |-> Sign(Determinant(a, N)) * Determinant(PutAt(a, N, k, v), N)]
\* What Solution returns.
LEMMA SolutionIs ==
  ASSUME NEW a, NEW N, NEW v
  PROVE  /\ Solution(a, N, v).den = Sign(Determinant(a, N)) * Determinant(a, N)
         /\ Solution(a, N, v).num = Numerators(a, N, v)
  BY DEF Solution, Sign, PutAt, Numerators

\* The denominator is positive unless the matrix is singular.
LEMMA SolutionType ==
  ASSUME NEW a, NEW N, NEW v, SystemOn(a, N, v)
  PROVE  /\ Solution(a, N, v).den \in Nat
         /\ Solution(a, N, v).den = 0 <=> Singular(a, N)
         /\ Solution(a, N, v).num \in [N -> Int]
         /\ \A k \in N : Solution(a, N, v).num[k] = 0 <=> Singular(PutAt(a, N, k, v), N)
<1>1. PICK d \in Int : d = Determinant(a, N)
  BY SquareExpands DEF SystemOn
<1>2. Sign(d) * d \in Nat /\ (Sign(d) * d = 0 <=> d = 0)
  BY DEF Sign
<1>3. ASSUME NEW k \in N
      PROVE  /\ Sign(d) * Determinant(PutAt(a, N, k, v), N) \in Int
             /\ Sign(d) * Determinant(PutAt(a, N, k, v), N) = 0 <=> Singular(PutAt(a, N, k, v), N)
  <2>1. PICK e \in Int : e = Determinant(PutAt(a, N, k, v), N)
    BY PutSquare, SquareExpands
  <2>2. Sign(d) * e \in Int /\ (Sign(d) * e = 0 <=> e = 0)
    BY DEF Sign
  <2> QED
    BY <2>1, <2>2 DEF Singular
<1> DEFINE x == Numerators(a, N, v)
<1>4. Solution(a, N, v).den = Sign(d) * d /\ Solution(a, N, v).num = x
  BY <1>1, SolutionIs
<1>5. x \in [N -> Int] /\ \A k \in N : x[k] = 0 <=> Singular(PutAt(a, N, k, v), N)
  BY <1>1, <1>3 DEF Numerators
<1> HIDE DEF x
<1>6. d = 0 <=> Singular(a, N)
  BY <1>1 DEF Singular
<1> QED
  BY <1>2, <1>4, <1>5, <1>6

(***************************************************************************)
(* Cramer's rule: what Solution returns solves the system, for every       *)
(* square matrix of integers; a singular one has the denominator zero.     *)
(***************************************************************************)
THEOREM SolutionSolves ==
  ASSUME NEW a, NEW N, NEW v, SystemOn(a, N, v)
  PROVE  Solves(a, N, Solution(a, N, v).num, v, Solution(a, N, v).den)
<1> DEFINE d == Determinant(a, N)
           B == [k \in N |-> PutAt(a, N, k, v)]
           x == Solution(a, N, v).num
<1>1. Puts(B, a, v, N, N)
  <2>1. \A k \in N : IsPut(B[k], a, k, v, N, N)
    BY PutSquare
  <2> HIDE DEF B
  <2> QED
    BY <2>1, SquareExpands DEF Puts, SystemOn
<1>2. Minor(a, N, N) = d /\ d \in Int
  BY SquareExpands DEF SystemOn
<1>3. ASSUME NEW k \in N PROVE x[k] = Sign(d) * Minor(B[k], N, N) /\ Minor(B[k], N, N) \in Int
  <2>1. Determinant(PutAt(a, N, k, v), N) = Minor(PutAt(a, N, k, v), N, N)
    BY DeterminantIsMinor
  <2>2. x[k] = Sign(d) * Determinant(PutAt(a, N, k, v), N)
    <3>1. x = Numerators(a, N, v)
      BY SolutionIs
    <3> HIDE DEF x
    <3> QED
      BY <3>1 DEF Numerators
  <2> QED
    BY <1>1, <2>1, <2>2, PutMinor
<1>4. PICK s \in {1, -1} : s = Sign(d)
  BY DEF Sign
<1>5. ASSUME NEW r \in N PROVE MatrixTimes(a, N, x)[r] = v[r] * (s * d)
  <2> DEFINE f == [k \in N |-> a[r][k] * Minor(B[k], N, N)]
             g == [k \in N |-> a[r][k] * x[k]]
  <2>1. Total(f, N) = v[r] * d
    BY <1>1, <1>2, CramerRow
  <2>2. ASSUME NEW k \in N PROVE g[k] = s * f[k] /\ f[k] \in Int
    <3>1. a[r][k] \in Int
      BY DEF SystemOn, SquareOn
    <3>2. PICK e \in Int, y \in Int : e = a[r][k] /\ y = Minor(B[k], N, N)
      BY <1>3, <3>1
    <3>3. e * (s * y) = s * (e * y) /\ e * y \in Int
      OBVIOUS
    <3>4. x[k] = s * y
      BY <1>3, <1>4, <3>2
    <3> HIDE DEF x, B
    <3> QED
      BY <3>2, <3>3, <3>4
  <2>3. IsFiniteSet(N)
    BY DEF SystemOn, SquareOn, Names
  <2> HIDE DEF f, g
  <2>4. AllInt(f, N) /\ \A k \in N : g[k] = s * f[k]
    BY <2>2 DEF AllInt
  <2>5. Total(g, N) = s * Total(f, N)
    BY <2>3, <2>4, TotalMultiple
  <2>6. s * (v[r] * d) = v[r] * (s * d)
    <3>1. PICK e \in Int : e = v[r]
      BY DEF SystemOn, AllInt
    <3>2. s * (e * d) = e * (s * d)
      BY <1>2
    <3> QED
      BY <3>1, <3>2
  <2> QED
    BY <2>1, <2>5, <2>6 DEF MatrixTimes, g
<1>6. Solution(a, N, v).den = s * d
  BY <1>4, SolutionIs
<1>7. AllInt(x, N) /\ s * d \in Int
  <2>1. \A k \in N : x[k] \in Int
    BY SolutionType
  <2> QED
    BY <1>2, <2>1 DEF AllInt
<1> QED
  BY <1>5, <1>6, <1>7 DEF Solves

\* Rows and columns exchanged.
LEMMA TransposedSquare ==
  ASSUME NEW a, NEW N, SquareOn(a, N)
  PROVE  /\ SquareOn(Transposed(a, N), N) /\ Determinant(Transposed(a, N), N) = Determinant(a, N)
         /\ \A r, k \in N : Transposed(a, N)[r][k] = a[k][r]
<1>1. \A r, k \in N : a[k][r] \in Int
  BY DEF SquareOn
<1>2. SquareOn(Transposed(a, N), N) /\ \A r, k \in N : Transposed(a, N)[r][k] = a[k][r]
  BY <1>1 DEF SquareOn, Transposed
<1>3. Flipped(Transposed(a, N), a, N, N)
  BY <1>2 DEF Flipped
<1> QED
  BY <1>2, <1>3, SquareExpands, FlippedMinor

-----------------------------------------------------------------------------
\* A matrix applied to one vector and paired with another.
Pairing(u, w, N) == Total([k \in N |-> u[k] * w[k]], N)
\* Products of integer vectors are integers.
LEMMA PairingType ==
  ASSUME NEW N, Names(N), NEW u, NEW w, AllInt(u, N), AllInt(w, N)
  PROVE  Pairing(u, w, N) \in Int
<1> DEFINE f == [k \in N |-> u[k] * w[k]]
<1>1. ASSUME NEW k \in N PROVE f[k] \in Int
  <2>1. PICK x \in Int, y \in Int : x = u[k] /\ y = w[k]
    BY DEF AllInt
  <2>2. x * y \in Int
    OBVIOUS
  <2> QED
    BY <2>1, <2>2
<1>2. AllInt(f, N)
  BY <1>1 DEF AllInt
<1> QED
  BY <1>2, TotalType DEF Pairing, Names

\* So are products with the matrix.
LEMMA TimesType ==
  ASSUME NEW a, NEW N, SquareOn(a, N), NEW x, AllInt(x, N)
  PROVE  AllInt(MatrixTimes(a, N, x), N)
<1> SUFFICES ASSUME NEW r \in N PROVE MatrixTimes(a, N, x)[r] \in Int
  BY DEF AllInt
<1>1. AllInt(a[r], N) /\ Names(N)
  BY DEF AllInt, SquareOn
<1>2. Pairing(a[r], x, N) \in Int
  BY <1>1, PairingType
<1>3. MatrixTimes(a, N, x)[r] = Pairing(a[r], x, N)
  BY DEF MatrixTimes, Pairing
<1> QED
  BY <1>2, <1>3

\* The matrix on one side is its transpose on the other.
LEMMA Paired ==
  ASSUME NEW a, NEW N, SquareOn(a, N), NEW x, AllInt(x, N), NEW y, AllInt(y, N)
  PROVE  Pairing(MatrixTimes(a, N, x), y, N) = Pairing(MatrixTimes(Transposed(a, N), N, y), x, N)
<1> DEFINE m == [rows |-> N, cols |-> N, a |-> a, b |-> [i \in N |-> 0], c |-> [i \in N |-> 0]]
<1>1. LinearModel(m) /\ m.rows = N /\ m.cols = N /\ m.a = a
  BY DEF LinearModel, SquareOn, Names
<1> HIDE DEF m
<1>2. ColumnVector(m, x) /\ RowVector(m, y)
  BY <1>1 DEF ColumnVector, RowVector
<1>3. Total([i \in N |-> RowValue(m, i, x) * y[i]], N) = Total([j \in N |-> ColumnValue(m, j, y) * x[j]], N)
  BY <1>1, <1>2, Adjoint
<1>4. \A i \in N : RowValue(m, i, x) = MatrixTimes(a, N, x)[i]
  BY <1>1 DEF RowValue, MatrixTimes
<1>5. ASSUME NEW j \in N PROVE ColumnValue(m, j, y) = MatrixTimes(Transposed(a, N), N, y)[j]
  <2>1. \A i \in N : Transposed(a, N)[j][i] = a[i][j]
    BY TransposedSquare
  <2>2. [i \in N |-> a[i][j] * y[i]] = [i \in N |-> Transposed(a, N)[j][i] * y[i]]
    BY <2>1
  <2> QED
    BY <1>1, <2>2 DEF ColumnValue, MatrixTimes
<1>6. [i \in N |-> RowValue(m, i, x) * y[i]] = [i \in N |-> MatrixTimes(a, N, x)[i] * y[i]]
  BY <1>4
<1>7. [j \in N |-> ColumnValue(m, j, y) * x[j]] = [j \in N |-> MatrixTimes(Transposed(a, N), N, y)[j] * x[j]]
  BY <1>5
<1> QED
  BY <1>3, <1>6, <1>7 DEF Pairing

\* If a x = d v and the transposed matrix takes y to e w, then e (w x) = d (v y).
LEMMA SolutionsPair ==
  ASSUME NEW a, NEW N, SquareOn(a, N), NEW x, NEW v, NEW d, NEW y, NEW w, NEW e,
         AllInt(v, N), AllInt(w, N), Solves(a, N, x, v, d), Solves(Transposed(a, N), N, y, w, e)
  PROVE  e * Pairing(w, x, N) = d * Pairing(v, y, N)
<1> DEFINE p == MatrixTimes(a, N, x)
           q == MatrixTimes(Transposed(a, N), N, y)
<1>1. Pairing(p, y, N) = Pairing(q, x, N) /\ IsFiniteSet(N) /\ d \in Int /\ e \in Int /\ AllInt(x, N) /\ AllInt(y, N)
  <2>1. IsFiniteSet(N) /\ d \in Int /\ e \in Int /\ AllInt(x, N) /\ AllInt(y, N)
    BY DEF Solves, SquareOn, Names
  <2> QED
    BY <2>1, Paired
<1> DEFINE f == [k \in N |-> p[k] * y[k]]
           g == [k \in N |-> v[k] * y[k]]
           h == [k \in N |-> q[k] * x[k]]
           u == [k \in N |-> w[k] * x[k]]
<1>2. ASSUME NEW k \in N PROVE f[k] = d * g[k] /\ g[k] \in Int /\ h[k] = e * u[k] /\ u[k] \in Int
  <2>1. PICK yk \in Int, vk \in Int, xk \in Int, wk \in Int : yk = y[k] /\ vk = v[k] /\ xk = x[k] /\ wk = w[k]
    BY <1>1 DEF AllInt
  <2>2. (vk * d) * yk = d * (vk * yk) /\ vk * yk \in Int
    BY <1>1
  <2>3. (wk * e) * xk = e * (wk * xk) /\ wk * xk \in Int
    BY <1>1
  <2>4. p[k] = vk * d /\ q[k] = wk * e
    BY <2>1 DEF Solves
  <2> HIDE DEF p, q
  <2> QED
    BY <2>1, <2>2, <2>3, <2>4
<1> HIDE DEF p, q
<1>3. Pairing(p, y, N) = Total(f, N) /\ Pairing(v, y, N) = Total(g, N) /\ Pairing(q, x, N) = Total(h, N)
      /\ Pairing(w, x, N) = Total(u, N)
  BY DEF Pairing
<1> HIDE DEF f, g, h, u
<1>4. Total(f, N) = d * Total(g, N)
  <2>1. AllInt(g, N) /\ \A k \in N : f[k] = d * g[k]
    BY <1>2 DEF AllInt
  <2> QED
    BY <1>1, <2>1, TotalMultiple
<1>5. Total(h, N) = e * Total(u, N)
  <2>1. AllInt(u, N) /\ \A k \in N : h[k] = e * u[k]
    BY <1>2 DEF AllInt
  <2> QED
    BY <1>1, <2>1, TotalMultiple
<1> QED
  BY <1>1, <1>3, <1>4, <1>5

\* One unit vector.
UnitAt(k, N) == [q \in N |-> IF q = k THEN 1 ELSE 0]
\* A unit vector takes out an entry.
LEMMA PairingUnit ==
  ASSUME NEW N, Names(N), NEW x, AllInt(x, N), NEW k \in N
  PROVE  Pairing(UnitAt(k, N), x, N) = x[k] /\ Pairing(x, UnitAt(k, N), N) = x[k] /\ AllInt(UnitAt(k, N), N)
<1> DEFINE f == [q \in N |-> UnitAt(k, N)[q] * x[q]]
           g == [q \in N |-> x[q] * UnitAt(k, N)[q]]
<1>1. IsFiniteSet(N) /\ x[k] \in Int
  BY DEF Names, AllInt
<1>2. ASSUME NEW q \in N PROVE f[q] = (IF q = k THEN x[k] ELSE 0) /\ g[q] = IF q = k THEN x[k] ELSE 0
  <2>1. PICK z \in Int : z = x[q]
    BY DEF AllInt
  <2>2. 1 * z = z /\ 0 * z = 0 /\ z * 1 = z /\ z * 0 = 0
    OBVIOUS
  <2>3. UnitAt(k, N)[q] = IF q = k THEN 1 ELSE 0
    BY DEF UnitAt
  <2> QED
    BY <2>1, <2>2, <2>3
<1> HIDE DEF f, g
<1>3. Total(f, N) = x[k] /\ Total(g, N) = x[k]
  BY <1>1, <1>2, TotalSingle
<1>4. AllInt(UnitAt(k, N), N)
  BY DEF AllInt, UnitAt
<1> QED
  BY <1>3, <1>4 DEF Pairing, f, g

(***************************************************************************)
(* A nonsingular system has no other solution.                             *)
(***************************************************************************)
THEOREM OnlySolution ==
  ASSUME NEW a, NEW N, NEW v, SystemOn(a, N, v), ~ Singular(a, N), NEW y, NEW c, Solves(a, N, y, v, c)
  PROVE  \A k \in N : Solution(a, N, v).den * y[k] = c * Solution(a, N, v).num[k]
<1> SUFFICES ASSUME NEW k \in N PROVE Solution(a, N, v).den * y[k] = c * Solution(a, N, v).num[k]
  OBVIOUS
<1> DEFINE t == Transposed(a, N)
           e == UnitAt(k, N)
           w == Solution(t, N, e)
           x == Solution(a, N, v)
<1>1. SquareOn(a, N) /\ Names(N) /\ AllInt(v, N)
  BY DEF SystemOn, SquareOn
<1>2. SystemOn(t, N, e) /\ ~ Singular(t, N)
  <2>1. AllInt(e, N)
    BY DEF AllInt, UnitAt
  <2> QED
    BY <1>1, <2>1, TransposedSquare DEF SystemOn, Singular
<1>3. Solves(t, N, w.num, e, w.den) /\ w.den \in Nat /\ w.den # 0 /\ AllInt(w.num, N)
  <2>1. Solves(t, N, w.num, e, w.den) /\ w.den \in Nat /\ w.den # 0
    BY <1>2, SolutionSolves, SolutionType
  <2> QED
    BY <2>1 DEF Solves
<1>4. Solves(a, N, x.num, v, x.den)
  BY SolutionSolves
<1> HIDE DEF t, e, w, x
<1>5. PICK p \in Int : p = Pairing(v, w.num, N)
  BY <1>1, <1>3, PairingType
<1>6. ASSUME NEW z, NEW d, Solves(a, N, z, v, d) PROVE w.den * z[k] = d * p /\ z[k] \in Int
  <2>1. w.den * Pairing(e, z, N) = d * p
    <3>1. AllInt(e, N) /\ Solves(Transposed(a, N), N, w.num, e, w.den)
      BY <1>2, <1>3 DEF SystemOn, t
    <3> QED
      BY <1>1, <1>5, <1>6, <3>1, SolutionsPair
  <2>2. AllInt(z, N)
    BY <1>6 DEF Solves
  <2>3. Pairing(e, z, N) = z[k]
    BY <1>1, <2>2, PairingUnit DEF e
  <2> QED
    BY <2>1, <2>2, <2>3 DEF AllInt
<1>7. PICK m \in Nat \ {0}, d \in Int, yk \in Int, xk \in Int, cc \in Int :
        m = w.den /\ d = x.den /\ yk = y[k] /\ xk = x.num[k] /\ cc = c
  BY <1>3, <1>4, <1>6 DEF Solves
<1>8. m * yk = cc * p /\ m * xk = d * p
  BY <1>4, <1>6, <1>7
<1>9. m * (d * yk) = m * (cc * xk)
  <2>1. m * (d * yk) = d * (m * yk) /\ m * (cc * xk) = cc * (m * xk)
    OBVIOUS
  <2>2. d * (cc * p) = cc * (d * p)
    OBVIOUS
  <2> QED
    BY <1>8, <2>1, <2>2
<1>10. d * yk = cc * xk
  <2>1. PICK f \in Int, g \in Int : f = d * yk /\ g = cc * xk
    OBVIOUS
  <2>2. m * f = m * g
    BY <1>9, <2>1
  <2>3. f = g
    BY <2>2
  <2> QED
    BY <2>1, <2>3
<1> QED
  BY <1>7, <1>10 DEF x

-----------------------------------------------------------------------------
(***************************************************************************)
(* A pivot: the vector w takes the place of column p.  The matrix stays    *)
(* nonsingular if the entry of p in the solution for w is not zero, and    *)
(* the solution for any other vector changes by the rule of the tableau.   *)
(***************************************************************************)
LEMMA PivotMatrix ==
  ASSUME NEW a, NEW N, NEW w, SystemOn(a, N, w), NEW p \in N, Solution(a, N, w).num[p] # 0
  PROVE  SquareOn(PutAt(a, N, p, w), N) /\ ~ Singular(PutAt(a, N, p, w), N)
  BY PutSquare, SolutionType

Exchanged(x, d, den, p, N) ==
  [k \in N |-> IF k = p THEN den * x[p] ELSE x[k] * d[p] - d[k] * x[p]]

\* The exchanged vector solves the exchanged system.
LEMMA ExchangedSolves ==
  ASSUME NEW a, NEW N, NEW w, SystemOn(a, N, w), NEW p \in N, NEW v, AllInt(v, N),
         NEW x, NEW d, NEW den, Solves(a, N, x, v, den), Solves(a, N, d, w, den)
  PROVE  Solves(PutAt(a, N, p, w), N, Exchanged(x, d, den, p, N), v, d[p] * den)
<1> DEFINE b == PutAt(a, N, p, w)
           y == Exchanged(x, d, den, p, N)
<1>1. SquareOn(b, N) /\ IsPut(b, a, p, w, N, N) /\ IsFiniteSet(N) /\ AllInt(w, N) /\ \A r, k \in N : a[r][k] \in Int
  <2>1. SquareOn(b, N) /\ IsPut(b, a, p, w, N, N)
    BY PutSquare
  <2>2. IsFiniteSet(N) /\ AllInt(w, N) /\ \A r, k \in N : a[r][k] \in Int
    BY DEF SystemOn, SquareOn, Names
  <2> QED
    BY <2>1, <2>2
<1>2. PICK xp \in Int, dp \in Int, D \in Int : xp = x[p] /\ dp = d[p] /\ D = den
  BY DEF Solves, AllInt
<1>3. \A k \in N : x[k] \in Int /\ d[k] \in Int
  BY DEF Solves, AllInt
<1>4. ASSUME NEW k \in N
      PROVE  y[k] \in Int /\ y[k] = IF k = p THEN D * xp ELSE x[k] * dp - d[k] * xp
  <2>1. PICK xk \in Int, dk \in Int : xk = x[k] /\ dk = d[k]
    BY <1>3
  <2>2. D * xp \in Int /\ xk * dp - dk * xp \in Int
    OBVIOUS
  <2> QED
    BY <1>2, <2>1, <2>2 DEF Exchanged
<1>5. ASSUME NEW r \in N PROVE MatrixTimes(b, N, y)[r] = v[r] * (dp * D)
  <2> DEFINE W == N \ {p}
             f == [k \in N |-> a[r][k] * x[k]]
             g == [k \in N |-> a[r][k] * d[k]]
             h == [k \in N |-> b[r][k] * y[k]]
  <2>0. IsFiniteSet(W) /\ p \notin W
    BY <1>1, FS_RemoveElement
  <2>1. Total(f, N) = v[r] * D /\ Total(g, N) = w[r] * D
    BY <1>2 DEF Solves, MatrixTimes
  <2>2. PICK vr \in Int, wr \in Int, ap \in Int : vr = v[r] /\ wr = w[r] /\ ap = a[r][p]
    BY <1>1 DEF AllInt
  <2>3. ASSUME NEW k \in N PROVE f[k] \in Int /\ g[k] \in Int /\ h[k] \in Int /\ (k # p => h[k] = dp * f[k] + (-xp) * g[k])
    <3>1. PICK e \in Int, xk \in Int, dk \in Int, yk \in Int, bk \in Int :
            e = a[r][k] /\ xk = x[k] /\ dk = d[k] /\ yk = y[k] /\ bk = b[r][k]
      <4>1. b[r][k] \in Int
        BY <1>1 DEF SquareOn
      <4> QED
        BY <1>1, <1>3, <1>4, <4>1
    <3>2. e * xk \in Int /\ e * dk \in Int /\ bk * yk \in Int
      OBVIOUS
    <3>3. f[k] = e * xk /\ g[k] = e * dk /\ h[k] = bk * yk
      BY <3>1
    <3>4. ASSUME k # p PROVE bk * yk = dp * (e * xk) + (-xp) * (e * dk)
      <4>1. bk = e /\ yk = xk * dp - dk * xp
        <5>1. b[r][k] = a[r][k]
          BY <1>1, <3>4 DEF IsPut
        <5> QED
          BY <1>4, <3>1, <3>4, <5>1
      <4>2. e * (xk * dp - dk * xp) = dp * (e * xk) + (-xp) * (e * dk)
        OBVIOUS
      <4> QED
        BY <4>1, <4>2
    <3> HIDE DEF f, g, h
    <3> QED
      BY <3>2, <3>3, <3>4
  <2>4. f[p] = ap * xp /\ g[p] = ap * dp /\ h[p] = wr * (D * xp)
    <3>1. b[r][p] = wr
      BY <1>1, <2>2 DEF IsPut
    <3>2. y[p] = D * xp
      BY <1>4
    <3> QED
      BY <1>2, <2>2, <3>1, <3>2
  <2> HIDE DEF f, g, h, y, b, W
  <2>5. AllInt(f, N) /\ AllInt(g, N) /\ AllInt(h, N) /\ AllInt(f, W) /\ AllInt(g, W) /\ AllInt(h, W)
    BY <2>3 DEF AllInt, W
  <2>6. Total(f, N) = f[p] + Total(f, W) /\ Total(g, N) = g[p] + Total(g, W) /\ Total(h, N) = h[p] + Total(h, W)
    BY <1>1, <2>5, TotalRemove DEF W
  <2>7. PICK F \in Int, G \in Int, H \in Int : F = Total(f, W) /\ G = Total(g, W) /\ H = Total(h, W)
    BY <2>0, <2>5, TotalType
  <2>8. H = dp * F + (-xp) * G
    <3> DEFINE u == [k \in W |-> dp * f[k]]
    <3>1. ASSUME NEW k \in W PROVE u[k] \in Int /\ h[k] = u[k] + (-xp) * g[k]
      <4>1. k \in N /\ k # p
        BY DEF W
      <4>2. PICK fk \in Int : fk = f[k]
        BY <2>3, <4>1
      <4>3. dp * fk \in Int
        OBVIOUS
      <4> QED
        BY <2>3, <4>1, <4>2, <4>3
    <3>2. \A k \in W : u[k] = dp * f[k]
      OBVIOUS
    <3> HIDE DEF u
    <3>3. AllInt(u, W)
      BY <3>1 DEF AllInt
    <3>4. Total(u, W) = dp * Total(f, W)
      BY <2>0, <2>5, <3>2, TotalMultiple
    <3>5. PICK t \in Int : t = -xp
      OBVIOUS
    <3>6. Total(h, W) = Total(u, W) + t * Total(g, W)
      <4>1. \A k \in W : h[k] = u[k] + t * g[k]
        BY <3>1, <3>5
      <4> QED
        BY <2>0, <2>5, <3>3, <4>1, TotalCombination
    <3> QED
      BY <2>7, <3>4, <3>5, <3>6
  <2>9. ap * xp + F = vr * D /\ ap * dp + G = wr * D
    BY <2>1, <2>2, <2>4, <2>6, <2>7
  <2>10. wr * (D * xp) + H = vr * (dp * D)
    <3>1. F = vr * D - ap * xp /\ G = wr * D - ap * dp
      <4>1. ap * xp \in Int /\ vr * D \in Int /\ ap * dp \in Int /\ wr * D \in Int
        OBVIOUS
      <4> QED
        BY <2>9, <4>1
    <3>2. dp * F = dp * (vr * D) - dp * (ap * xp) /\ (-xp) * G = -(xp * (wr * D)) + xp * (ap * dp)
      BY <3>1
    <3>3. dp * (ap * xp) = xp * (ap * dp) /\ wr * (D * xp) = xp * (wr * D) /\ vr * (dp * D) = dp * (vr * D)
      OBVIOUS
    <3>4. PICK s1 \in Int, s2 \in Int, s3 \in Int : s1 = dp * (vr * D) /\ s2 = xp * (ap * dp) /\ s3 = xp * (wr * D)
      OBVIOUS
    <3>5. H = (s1 - s2) + (-s3 + s2)
      BY <2>8, <3>2, <3>3, <3>4
    <3> QED
      BY <3>3, <3>4, <3>5
  <2>11. Total(h, N) = vr * (dp * D)
    BY <2>4, <2>6, <2>7, <2>10
  <2> QED
    BY <2>2, <2>11 DEF MatrixTimes, h
<1>6. AllInt(y, N)
  BY <1>4 DEF AllInt
<1>7. dp * D \in Int /\ d[p] * den = dp * D
  BY <1>2
<1> QED
  BY <1>5, <1>6, <1>7 DEF Solves

\* The solution before and after, up to its denominators.
LEMMA PivotSolution ==
  ASSUME NEW a, NEW N, NEW w, SystemOn(a, N, w), NEW p \in N, NEW v, AllInt(v, N), ~ Singular(a, N),
         Solution(a, N, w).num[p] # 0
  PROVE  LET b == PutAt(a, N, p, w)
             y == Exchanged(Solution(a, N, v).num, Solution(a, N, w).num, Solution(a, N, v).den, p, N)
         IN  \A k \in N : /\ y[k] \in Int
                          /\ Solution(b, N, v).den * y[k]
                               = (Solution(a, N, w).num[p] * Solution(a, N, v).den) * Solution(b, N, v).num[k]
<1> DEFINE b == PutAt(a, N, p, w)
           x == Solution(a, N, v)
           d == Solution(a, N, w)
           y == Exchanged(x.num, d.num, x.den, p, N)
<1>1. SquareOn(a, N) /\ SystemOn(a, N, v) /\ SquareOn(b, N) /\ SystemOn(b, N, v) /\ ~ Singular(b, N)
  BY PivotMatrix DEF SystemOn
<1>2. Solves(a, N, x.num, v, x.den) /\ Solves(a, N, d.num, w, d.den)
  BY <1>1, SolutionSolves
<1>3. x.den = d.den
  BY SolutionIs
<1>4. Solves(b, N, y, v, d.num[p] * x.den)
  <2>1. Solves(a, N, d.num, w, x.den)
    BY <1>2, <1>3
  <2> HIDE DEF x, d
  <2> QED
    BY <1>2, <2>1, ExchangedSolves
<1>5. \A k \in N : Solution(b, N, v).den * y[k] = (d.num[p] * x.den) * Solution(b, N, v).num[k]
  <2> HIDE DEF b, x, d, y
  <2> QED
    BY <1>1, <1>4, OnlySolution
<1>6. \A k \in N : y[k] \in Int
  BY <1>4 DEF Solves, AllInt
<1> QED
  BY <1>5, <1>6

-----------------------------------------------------------------------------
\* Signs of exchanged solutions.
\* Positive factors on both sides of an equation keep the signs.
LEMMA SignOfMultiple ==
  ASSUME NEW m \in Nat \ {0}, NEW y \in Int
  PROVE  (y > 0 => m * y > 0) /\ (y = 0 => m * y = 0) /\ (y < 0 => m * y < 0)
<1>1. y > 0 => m * y > 0
  OBVIOUS
<1>2. y = 0 => m * y = 0
  OBVIOUS
<1>3. y < 0 => m * y < 0
  <2>1. m * y = -(m * (-y))
    OBVIOUS
  <2>2. -y > 0 => m * (-y) > 0
    OBVIOUS
  <2> QED
    BY <2>1, <2>2
<1> QED
  BY <1>1, <1>2, <1>3

\* Equal multiples by positive numbers have the same sign.
LEMMA SameSign ==
  ASSUME NEW m \in Nat \ {0}, NEW n \in Nat \ {0}, NEW y \in Int, NEW z \in Int, m * y = n * z
  PROVE  (y >= 0 <=> z >= 0) /\ (y = 0 <=> z = 0) /\ (y > 0 <=> z > 0)
<1>1. PICK s \in Int, t \in Int : s = m * y /\ t = n * z
  OBVIOUS
<1>2. (y > 0 => s > 0) /\ (y = 0 => s = 0) /\ (y < 0 => s < 0)
  BY <1>1, SignOfMultiple
<1>3. (z > 0 => t > 0) /\ (z = 0 => t = 0) /\ (z < 0 => t < 0)
  BY <1>1, SignOfMultiple
<1>4. s = t
  BY <1>1
<1> QED
  BY <1>2, <1>3, <1>4

\* The denominator of a nonsingular system is positive.
LEMMA SolutionPositive ==
  ASSUME NEW a, NEW N, NEW v, SystemOn(a, N, v), ~ Singular(a, N)
  PROVE  /\ Solution(a, N, v).den \in Nat \ {0}
         /\ \A k \in N : Solution(a, N, v).num[k] \in Int
  BY SolutionType

\* The ratio test keeps the solution from turning negative.
LEMMA RatioPivot ==
  ASSUME NEW a, NEW N, NEW w, SystemOn(a, N, w), NEW p \in N, NEW v, AllInt(v, N), ~ Singular(a, N),
         Solution(a, N, w).num[p] > 0,
         \A k \in N : Solution(a, N, v).num[k] >= 0,
         \A k \in N : Solution(a, N, w).num[k] > 0 =>
           Solution(a, N, v).num[p] * Solution(a, N, w).num[k]
             <= Solution(a, N, v).num[k] * Solution(a, N, w).num[p]
  PROVE  LET b == PutAt(a, N, p, w)
         IN  /\ SquareOn(b, N) /\ ~ Singular(b, N)
             /\ \A k \in N : Solution(b, N, v).num[k] >= 0
<1> DEFINE b == PutAt(a, N, p, w)
           x == Solution(a, N, v)
           d == Solution(a, N, w)
           z == Solution(b, N, v)
           y == Exchanged(x.num, d.num, x.den, p, N)
<1>1. SystemOn(a, N, v) /\ d.num[p] \in Int /\ d.num[p] # 0
  <2>1. d.num[p] \in Int
    BY SolutionPositive
  <2> QED
    BY <2>1 DEF SystemOn
<1>2. SquareOn(b, N) /\ SystemOn(b, N, v) /\ ~ Singular(b, N)
  BY <1>1, PivotMatrix DEF SystemOn
<1>3. PICK D \in Nat \ {0}, E \in Nat \ {0}, dp \in Nat \ {0}, xp \in Nat :
        D = x.den /\ E = z.den /\ dp = d.num[p] /\ xp = x.num[p]
  <2>1. x.den \in Nat \ {0} /\ z.den \in Nat \ {0} /\ x.num[p] \in Int
    BY <1>1, <1>2, SolutionPositive
  <2> QED
    BY <1>1, <2>1
<1>4. ASSUME NEW k \in N PROVE z.num[k] >= 0
  <2>1. y[k] \in Int /\ E * y[k] = (dp * D) * z.num[k] /\ z.num[k] \in Int
    BY <1>1, <1>2, <1>3, PivotSolution, SolutionPositive
  <2>2. PICK xk \in Nat, dk \in Int : xk = x.num[k] /\ dk = d.num[k]
    BY <1>1, SolutionPositive
  <2>3. y[k] >= 0
    <3>1. CASE k = p
      <4>1. y[k] = D * xp
        BY <1>3, <3>1 DEF Exchanged
      <4> HIDE DEF y
      <4> QED
        BY <4>1
    <3>2. CASE k # p
      <4>1. y[k] = xk * dp - dk * xp
        BY <1>3, <2>2, <3>2 DEF Exchanged
      <4>2. CASE dk > 0
        <5>1. xp * dk <= xk * dp
          BY <1>3, <2>2, <4>2
        <5>2. dk * xp = xp * dk /\ xk * dp \in Int /\ xp * dk \in Int
          OBVIOUS
        <5> HIDE DEF y
        <5> QED
          BY <4>1, <5>1, <5>2
      <4>3. CASE ~ dk > 0
        <5>1. xk * dp >= 0 /\ xk * dp \in Int
          OBVIOUS
        <5>2. PICK e \in Nat : e = -dk
          BY <4>3
        <5>3. e * xp >= 0 /\ e * xp \in Int /\ dk * xp = -(e * xp)
          BY <5>2
        <5> HIDE DEF y
        <5> QED
          BY <4>1, <5>1, <5>3
      <4> QED
        BY <4>2, <4>3
    <3> QED
      BY <3>1, <3>2
  <2>4. PICK s \in Int, t \in Int, F \in Nat \ {0} : s = y[k] /\ t = z.num[k] /\ F = dp * D
    BY <2>1
  <2> HIDE DEF y, z
  <2>5. E * s = F * t
    BY <2>1, <2>4
  <2>6. s >= 0 <=> t >= 0
    BY <2>5, SameSign
  <2> QED
    BY <2>3, <2>4, <2>6
<1> QED
  BY <1>2, <1>4

\* A pivot at a position whose value is zero changes no other value.
LEMMA DegeneratePivot ==
  ASSUME NEW a, NEW N, NEW w, SystemOn(a, N, w), NEW p \in N, NEW v, AllInt(v, N), ~ Singular(a, N),
         Solution(a, N, w).num[p] # 0, Solution(a, N, v).num[p] = 0
  PROVE  LET b == PutAt(a, N, p, w)
         IN  /\ SquareOn(b, N) /\ ~ Singular(b, N)
             /\ Solution(b, N, v).num[p] = 0
             /\ \A k \in N : Solution(b, N, v).den * Solution(a, N, v).num[k]
                               = Solution(a, N, v).den * Solution(b, N, v).num[k]
<1> DEFINE b == PutAt(a, N, p, w)
           x == Solution(a, N, v)
           d == Solution(a, N, w)
           z == Solution(b, N, v)
           y == Exchanged(x.num, d.num, x.den, p, N)
<1>1. SystemOn(a, N, v) /\ SquareOn(b, N) /\ SystemOn(b, N, v) /\ ~ Singular(b, N)
  BY PivotMatrix DEF SystemOn
<1>2. PICK D \in Nat \ {0}, E \in Nat \ {0}, dp \in Int : D = x.den /\ E = z.den /\ dp = d.num[p] /\ dp # 0
  <2>1. x.den \in Nat \ {0} /\ z.den \in Nat \ {0} /\ d.num[p] \in Int
    BY <1>1, SolutionPositive
  <2> QED
    BY <2>1
<1>3. ASSUME NEW k \in N PROVE E * x.num[k] = D * z.num[k] /\ (k = p => z.num[k] = 0)
  <2>1. PICK s \in Int, t \in Int, xk \in Int, dk \in Int :
          s = y[k] /\ t = z.num[k] /\ xk = x.num[k] /\ dk = d.num[k]
    BY <1>1, <1>2, PivotSolution, SolutionPositive
  <2>2. E * s = (dp * D) * t
    BY <1>1, <1>2, <2>1, PivotSolution
  <2>3. s = xk * dp
    <3>1. CASE k = p
      <4>1. s = D * 0 /\ xk = 0
        BY <1>2, <2>1, <3>1 DEF Exchanged
      <4> QED
        BY <4>1
    <3>2. CASE k # p
      <4>1. s = xk * dp - dk * 0
        BY <1>2, <2>1, <3>2 DEF Exchanged
      <4> QED
        BY <4>1
    <3> QED
      BY <3>1, <3>2
  <2>4. dp * (E * xk) = dp * (D * t)
    <3>1. E * (xk * dp) = dp * (E * xk) /\ (dp * D) * t = dp * (D * t)
      OBVIOUS
    <3> QED
      BY <2>2, <2>3, <3>1
  <2>5. E * xk = D * t
    <3>1. PICK f \in Int, g \in Int : f = E * xk /\ g = D * t
      OBVIOUS
    <3>2. dp * (f - g) = 0
      <4>1. dp * (f - g) = dp * f - dp * g /\ dp * f \in Int
        OBVIOUS
      <4> QED
        BY <2>4, <3>1, <4>1
    <3>3. f - g = 0
      BY <1>2, <3>2
    <3> QED
      BY <3>1, <3>3
  <2>6. ASSUME k = p PROVE t = 0
    <3>1. xk = 0
      BY <2>1, <2>6
    <3>2. E * 0 = 0
      OBVIOUS
    <3>3. D * t = 0
      BY <2>5, <3>1, <3>2
    <3> QED
      BY <3>3
  <2> QED
    BY <2>1, <2>5, <2>6
<1> QED
  BY <1>1, <1>2, <1>3

-----------------------------------------------------------------------------
\* Unit matrices, kernels and dropped rows.
\* The identity.
LEMMA IdentityDeterminant ==
  ASSUME NEW a, NEW N, SquareOn(a, N), \A r, k \in N : a[r][k] = IF r = k THEN 1 ELSE 0
  PROVE  Determinant(a, N) = 1
<1> DEFINE T == {S \in SUBSET N : Minor(a, S, S) # 1}
<1> SUFFICES ASSUME T # {} PROVE FALSE
  <2>1. T = {} => Minor(a, N, N) = 1
    OBVIOUS
  <2> QED
    BY <2>1, SquareExpands
<1>0. IsFiniteSet(N) /\ N \in SUBSET Int
  BY DEF SquareOn, Names
<1>1. PICK S \in T : \A B \in T : B \subseteq S => B = S
  <2>1. T \subseteq SUBSET N /\ IsFiniteSet(N)
    BY <1>0
  <2> HIDE DEF T
  <2> QED
    BY <2>1, LeastSet
<1>2. S \in SUBSET N /\ Minor(a, S, S) # 1 /\ S # {}
  BY <1>1, MinorEmpty
<1>3. Balanced(S, S) /\ Entries(a, S, S) /\ IsFiniteSet(S) /\ S \in SUBSET Int
  <2>1. IsFiniteSet(S)
    BY <1>0, <1>2, FS_Subset
  <2>2. \A r, k \in N : a[r][k] \in Int
    BY DEF SquareOn
  <2> QED
    BY <1>0, <1>2, <2>1, <2>2 DEF Balanced, Entries
<1>4. First(S) \in S /\ Cofactor(S, First(S)) = 1
  BY <1>2, <1>3, FirstOfSet, FirstCofactor
<1>5. Minor(a, S, S) = Total(Products(a, S, S), S) /\ AllInt(Products(a, S, S), S)
  BY <1>2, <1>3, Laplace
<1>6. Minor(a, Others(S), S \ {First(S)}) = 1
  <2>1. Others(S) \in SUBSET N /\ Others(S) \subseteq S /\ Others(S) # S
    BY <1>2, <1>4 DEF Others
  <2>2. Others(S) \notin T
    <3> HIDE DEF T
    <3> QED
      BY <1>1, <2>1
  <2>3. Minor(a, Others(S), Others(S)) = 1
    BY <2>1, <2>2
  <2> QED
    BY <2>3 DEF Others
<1>7. Products(a, S, S)[First(S)] = 1
  <2>1. a[First(S)][First(S)] = 1
    BY <1>2, <1>4
  <2>2. 1 * (1 * 1) = 1
    OBVIOUS
  <2> QED
    BY <1>4, <1>6, <2>1, <2>2 DEF Products
<1>8. ASSUME NEW k \in S \ {First(S)} PROVE Products(a, S, S)[k] = 0
  <2>1. a[First(S)][k] = 0
    BY <1>2, <1>4
  <2>2. PICK p \in Int, z \in Int : p = Cofactor(S, k) /\ z = Minor(a, Others(S), S \ {k})
    BY <1>2, <1>3, Laplace
  <2>3. 0 * z = 0 /\ p * 0 = 0
    OBVIOUS
  <2> QED
    BY <2>1, <2>2, <2>3 DEF Products
<1>9. Total(Products(a, S, S), S) = 1
  BY <1>3, <1>4, <1>7, <1>8, TotalSingle
<1> QED
  BY <1>2, <1>5, <1>9

\* The unit matrix solves to the vector itself.
LEMMA IdentitySolution ==
  ASSUME NEW a, NEW N, NEW v, SystemOn(a, N, v), \A r, k \in N : a[r][k] = IF r = k THEN 1 ELSE 0
  PROVE  ~ Singular(a, N) /\ \A k \in N : Solution(a, N, v).num[k] = v[k]
<1>1. SquareOn(a, N) /\ Determinant(a, N) = 1 /\ Names(N) /\ AllInt(v, N)
  BY IdentityDeterminant DEF SystemOn, SquareOn
<1>2. ~ Singular(a, N)
  BY <1>1 DEF Singular
<1>3. Solution(a, N, v).den = 1
  <2>1. Sign(1) * 1 = 1
    BY DEF Sign
  <2> QED
    BY <1>1, <2>1, SolutionIs
<1>4. Solves(a, N, v, v, 1)
  <2> SUFFICES ASSUME NEW r \in N PROVE MatrixTimes(a, N, v)[r] = v[r] * 1
    BY <1>1 DEF Solves
  <2>1. Pairing(UnitAt(r, N), v, N) = v[r]
    BY <1>1, PairingUnit
  <2>2. a[r] = UnitAt(r, N)
    <3>1. a[r] \in [N -> Int] /\ \A k \in N : a[r][k] = IF k = r THEN 1 ELSE 0
      BY DEF SystemOn, SquareOn
    <3> QED
      BY <3>1 DEF UnitAt
  <2>3. MatrixTimes(a, N, v)[r] = Pairing(a[r], v, N)
    BY DEF MatrixTimes, Pairing
  <2>4. PICK z \in Int : z = v[r]
    BY <1>1 DEF AllInt
  <2>5. z * 1 = z
    OBVIOUS
  <2> QED
    BY <2>1, <2>2, <2>3, <2>4, <2>5
<1>5. ASSUME NEW k \in N PROVE Solution(a, N, v).num[k] = v[k]
  <2>1. 1 * v[k] = 1 * Solution(a, N, v).num[k]
    BY <1>2, <1>3, <1>4, OnlySolution
  <2>2. v[k] \in Int /\ Solution(a, N, v).num[k] \in Int
    BY <1>1, <1>2, SolutionPositive DEF AllInt
  <2> QED
    BY <2>1, <2>2
<1> QED
  BY <1>2, <1>5

\* A row combination that vanishes on all columns, though not itself zero.
LEMMA KernelSingular ==
  ASSUME NEW a, NEW N, SquareOn(a, N), NEW w, AllInt(w, N),
         \A k \in N : MatrixTimes(Transposed(a, N), N, w)[k] = 0, NEW q \in N, w[q] # 0
  PROVE  Singular(a, N)
<1> SUFFICES ASSUME ~ Singular(a, N) PROVE FALSE
  OBVIOUS
<1> DEFINE t == Transposed(a, N)
           v == [k \in N |-> 0]
<1>1. SystemOn(t, N, v) /\ ~ Singular(t, N)
  <2>1. AllInt(v, N)
    BY DEF AllInt
  <2> QED
    BY <2>1, TransposedSquare DEF SystemOn, Singular
<1>2. Solves(t, N, w, v, 0)
  <2>1. \A k \in N : MatrixTimes(t, N, w)[k] = v[k] * 0
    <3>1. 0 * 0 = 0
      OBVIOUS
    <3>2. \A k \in N : v[k] = 0
      OBVIOUS
    <3> HIDE DEF v
    <3> QED
      BY <3>1, <3>2
  <2> QED
    BY <2>1 DEF Solves
<1> HIDE DEF t, v
<1>3. PICK D \in Nat \ {0}, y \in Int, z \in Int : D = Solution(t, N, v).den /\ y = w[q] /\ z = Solution(t, N, v).num[q]
  BY <1>1, SolutionPositive DEF AllInt
<1>4. D * y = 0 * z
  BY <1>1, <1>2, <1>3, OnlySolution
<1>5. D * y = 0
  BY <1>4
<1>6. y = 0
  BY <1>5
<1> QED
  BY <1>3, <1>6

\* A row and a column left out at a position whose value is zero.
Restricted(a, M) == [r \in M |-> [k \in M |-> a[r][k]]]
\* A solution whose entry p is zero solves the system without p.
LEMMA DropSolution ==
  ASSUME NEW a, NEW N, NEW v, SystemOn(a, N, v), ~ Singular(a, N), NEW p \in N,
         Solution(a, N, v).num[p] = 0,
         ~ Singular(Restricted(a, N \ {p}), N \ {p})
  PROVE  LET M == N \ {p}
             b == Restricted(a, M)
         IN  /\ SystemOn(b, M, v)
             /\ \A k \in M : Solution(b, M, v).den * Solution(a, N, v).num[k]
                               = Solution(a, N, v).den * Solution(b, M, v).num[k]
<1> DEFINE M == N \ {p}
           b == Restricted(a, M)
           x == Solution(a, N, v)
<1>1. \A r, k \in N : a[r][k] \in Int
  BY DEF SystemOn, SquareOn
<1>2. SystemOn(b, M, v) /\ IsFiniteSet(N)
  <2>1. Names(M) /\ AllInt(v, M) /\ IsFiniteSet(N)
    BY FS_RemoveElement DEF SystemOn, SquareOn, Names, AllInt
  <2> QED
    BY <1>1, <2>1 DEF SystemOn, SquareOn, Restricted
<1>3. Solves(a, N, x.num, v, x.den)
  BY SolutionSolves
<1>4. Solves(b, M, x.num, v, x.den)
  <2>1. AllInt(x.num, M) /\ AllInt(x.num, N) /\ x.den \in Int
    BY <1>3 DEF Solves, AllInt
  <2>2. ASSUME NEW r \in M PROVE MatrixTimes(b, M, x.num)[r] = v[r] * x.den
    <3> DEFINE f == [k \in N |-> a[r][k] * x.num[k]]
               g == [k \in M |-> b[r][k] * x.num[k]]
    <3>1. ASSUME NEW k \in N PROVE f[k] \in Int /\ (k = p => f[k] = 0)
      <4>1. PICK e \in Int, xk \in Int : e = a[r][k] /\ xk = x.num[k]
        BY <1>1, <2>1 DEF AllInt
      <4>2. e * xk \in Int /\ e * 0 = 0
        OBVIOUS
      <4>3. f[k] = e * xk
        BY <4>1
      <4>4. k = p => xk = 0
        BY <4>1
      <4> HIDE DEF f
      <4> QED
        BY <4>2, <4>3, <4>4
    <3>2. \A k \in M : f[k] = g[k]
      BY DEF Restricted
    <3>3. Total(f, N) = v[r] * x.den
      BY <1>3 DEF Solves, MatrixTimes
    <3> HIDE DEF f, g
    <3>4. AllInt(f, N) /\ AllInt(f, M) /\ f[p] = 0 /\ IsFiniteSet(M)
      BY <1>2, <3>1, FS_RemoveElement DEF AllInt
    <3>5. PICK y \in Int : y = Total(f, M)
      BY <3>4, TotalType
    <3>6. Total(f, N) = 0 + y
      BY <1>2, <3>4, <3>5, TotalRemove
    <3>7. Total(f, M) = Total(g, M)
      BY <3>2, <3>4, TotalEqual
    <3>8. MatrixTimes(b, M, x.num)[r] = Total(g, M)
      BY DEF MatrixTimes, g
    <3> QED
      BY <3>3, <3>5, <3>6, <3>7, <3>8
  <2> QED
    BY <2>1, <2>2 DEF Solves
<1> HIDE DEF b, M, x
<1>5. \A k \in M : Solution(b, M, v).den * x.num[k] = x.den * Solution(b, M, v).num[k]
  <2>1. ~ Singular(b, M)
    BY DEF b, M
  <2> QED
    BY <1>2, <1>4, <2>1, OnlySolution
<1> QED
  BY <1>2, <1>5 DEF b, M, x

-----------------------------------------------------------------------------
(***************************************************************************)
(* A basis as data: m is a model, sg the sign of each row, L the rows left *)
(* and f the column at each position; ph is the phase: in the first the    *)
(* artificials carry the costs.  The operators of PrimalSimplex are these  *)
(* at lp, rowSign, left and basis.                                         *)
(***************************************************************************)
Numbered(m) ==
  /\ ModelRecord(m) /\ LinearModel(m)
  /\ m.rows \in SUBSET (Nat \ {0}) /\ m.cols \in SUBSET Nat /\ m.cols # {}
ArtificialIn(m, i) == Max(m.cols) + i
ArtificialsIn(m) == {ArtificialIn(m, i) : i \in m.rows}
ColumnIn(m, sg, j) ==
  [i \in m.rows |-> IF j \notin m.cols THEN (IF j = ArtificialIn(m, i) THEN 1 ELSE 0)
                    ELSE sg[i] * m.a[i][j]]
RhsIn(m, sg) == [i \in m.rows |-> sg[i] * m.b[i]]
MatrixIn(m, sg, L, f) == [i \in L |-> [p \in L |-> ColumnIn(m, sg, f[p])[i]]]
Rows(m, sg, L) == Numbered(m) /\ sg \in [m.rows -> {1, -1}] /\ L \in SUBSET m.rows

Largest(s) == Max(s)

\* A finite set of numbers has a largest.
LEMMA LargestOfSet ==
  ASSUME NEW S \in SUBSET Int, IsFiniteSet(S), S # {}
  PROVE  Largest(S) \in S /\ \A y \in S : Largest(S) >= y
<1> DEFINE G == {A \in SUBSET S : A = {} \/ \E m \in A : \A y \in A : m >= y}
<1>1. {} \in G
  OBVIOUS
<1>2. ASSUME NEW A \in SUBSET S, NEW x \in S, A \in G, x \notin A PROVE A \union {x} \in G
  <2>1. CASE A = {}
    BY <2>1
  <2>2. CASE A # {}
    <3>1. PICK m \in A : \A y \in A : m >= y
      BY <1>2, <2>2
    <3>2. CASE m >= x
      BY <3>1, <3>2
    <3>3. CASE ~ m >= x
      <4>1. \A y \in A \union {x} : x >= y
        BY <3>1, <3>3
      <4> QED
        BY <4>1
    <3> QED
      BY <3>2, <3>3
  <2> QED
    BY <2>1, <2>2
<1>3. S \in G
  <2> HIDE DEF G
  <2> QED
    BY <1>1, <1>2, SetInduction
<1> QED
  BY <1>3 DEF Largest, Max

\* Artificial columns are no columns of the model, and all different.
LEMMA ArtificialsApart ==
  ASSUME NEW m, Numbered(m)
  PROVE  /\ \A i \in m.rows : ArtificialIn(m, i) \in Nat /\ ArtificialIn(m, i) \notin m.cols
         /\ \A i, k \in m.rows : ArtificialIn(m, i) = ArtificialIn(m, k) => i = k
<1>1. IsFiniteSet(m.cols) /\ m.cols \in SUBSET Int /\ m.cols # {}
  BY DEF Numbered, LinearModel
<1>2. Max(m.cols) \in m.cols /\ \A y \in m.cols : Max(m.cols) >= y
  BY <1>1, LargestOfSet DEF Largest
<1>3. Max(m.cols) \in Nat /\ m.cols \in SUBSET Nat
  BY <1>2 DEF Numbered
<1> DEFINE M == Max(m.cols)
<1> HIDE DEF M
<1>4. M \in Nat /\ \A y \in m.cols : y \in Nat /\ M >= y
  BY <1>2, <1>3 DEF M
<1>5. \A i \in m.rows : i \in Nat /\ i > 0 /\ ArtificialIn(m, i) = M + i
  BY DEF Numbered, ArtificialIn, M
<1> QED
  BY <1>4, <1>5

\* Matrix and right-hand side of a basis are a square system, and the
\* transposed matrix weighs each basic column.
LEMMA BasisSystem ==
  ASSUME NEW m, NEW sg, NEW L, Rows(m, sg, L), NEW f
  PROVE  /\ Names(L) /\ SquareOn(MatrixIn(m, sg, L, f), L)
         /\ AllInt(RhsIn(m, sg), L) /\ \A j : AllInt(ColumnIn(m, sg, j), L)
         /\ SystemOn(MatrixIn(m, sg, L, f), L, RhsIn(m, sg))
         /\ \A j : SystemOn(MatrixIn(m, sg, L, f), L, ColumnIn(m, sg, j))
         /\ \A i, p \in L : MatrixIn(m, sg, L, f)[i][p] = ColumnIn(m, sg, f[p])[i]
<1>1. Names(L)
  <2>1. L \in SUBSET Int /\ IsFiniteSet(m.rows) /\ L \subseteq m.rows
    BY DEF Rows, Numbered, LinearModel
  <2>2. IsFiniteSet(L)
    BY <2>1, FS_Subset
  <2> QED
    BY <2>1, <2>2 DEF Names
<1>2. \A i \in L : i \in m.rows /\ sg[i] \in {1, -1} /\ m.b[i] \in Int /\ \A j \in m.cols : m.a[i][j] \in Int
  BY DEF Rows, Numbered, LinearModel
<1>3. \A j : AllInt(ColumnIn(m, sg, j), L)
  <2> SUFFICES ASSUME NEW j, NEW i \in L PROVE ColumnIn(m, sg, j)[i] \in Int
    BY DEF AllInt
  <2>1. ColumnIn(m, sg, j)[i] = IF j \notin m.cols THEN (IF j = ArtificialIn(m, i) THEN 1 ELSE 0)
                    ELSE sg[i] * m.a[i][j]
    BY <1>2 DEF ColumnIn
  <2>2. j \in m.cols => sg[i] * m.a[i][j] \in Int
    BY <1>2
  <2> QED
    BY <2>1, <2>2
<1>4. AllInt(RhsIn(m, sg), L)
  BY <1>2 DEF AllInt, RhsIn
<1>5. \A i, p \in L : MatrixIn(m, sg, L, f)[i][p] = ColumnIn(m, sg, f[p])[i]
  BY DEF MatrixIn
<1>6. SquareOn(MatrixIn(m, sg, L, f), L)
  <2>1. \A i, p \in L : ColumnIn(m, sg, f[p])[i] \in Int
    BY <1>3 DEF AllInt
  <2>2. MatrixIn(m, sg, L, f) \in [L -> [L -> Int]]
    BY <2>1 DEF MatrixIn
  <2> QED
    BY <1>1, <2>2 DEF SquareOn
<1> QED
  BY <1>1, <1>3, <1>4, <1>5, <1>6 DEF SystemOn

\* The transposed basis weighs its columns.
LEMMA BasisTransposed ==
  ASSUME NEW m, NEW sg, NEW L, Rows(m, sg, L), NEW f, NEW y, NEW p \in L
  PROVE  MatrixTimes(Transposed(MatrixIn(m, sg, L, f), L), L, y)[p] = Pairing(ColumnIn(m, sg, f[p]), y, L)
<1>1. \A i \in L : Transposed(MatrixIn(m, sg, L, f), L)[p][i] = ColumnIn(m, sg, f[p])[i]
  BY BasisSystem DEF Transposed
<1>2. [i \in L |-> Transposed(MatrixIn(m, sg, L, f), L)[p][i] * y[i]] = [i \in L |-> ColumnIn(m, sg, f[p])[i] * y[i]]
  BY <1>1
<1> QED
  BY <1>2 DEF MatrixTimes, Pairing

\* A basis whose solution has no negative entry.
FeasibleIn(m, sg, L, f) ==
  /\ ~ Singular(MatrixIn(m, sg, L, f), L)
  /\ \A p \in L : Solution(MatrixIn(m, sg, L, f), L, RhsIn(m, sg)).num[p] >= 0

\* Unit columns, all of them or all artificial, are one.
LEMMA UnitBasis ==
  ASSUME NEW m, NEW sg, NEW L, Rows(m, sg, L), NEW f,
         \A i, p \in L : ColumnIn(m, sg, f[p])[i] = IF i = p THEN 1 ELSE 0,
         \A i \in L : RhsIn(m, sg)[i] >= 0
  PROVE  FeasibleIn(m, sg, L, f)
<1>1. SystemOn(MatrixIn(m, sg, L, f), L, RhsIn(m, sg))
      /\ \A r, k \in L : MatrixIn(m, sg, L, f)[r][k] = IF r = k THEN 1 ELSE 0
  BY BasisSystem
<1>2. ~ Singular(MatrixIn(m, sg, L, f), L)
      /\ \A k \in L : Solution(MatrixIn(m, sg, L, f), L, RhsIn(m, sg)).num[k] = RhsIn(m, sg)[k]
  BY <1>1, IdentitySolution
<1> QED
  BY <1>2 DEF FeasibleIn

\* The artificial basis is feasible when no right-hand side is negative,
LEMMA ArtificialBasis ==
  ASSUME NEW m, NEW sg, Rows(m, sg, m.rows), NEW f, \A p \in m.rows : f[p] = ArtificialIn(m, p),
         \A i \in m.rows : RhsIn(m, sg)[i] >= 0
  PROVE  FeasibleIn(m, sg, m.rows, f)
<1>1. Numbered(m)
  BY DEF Rows
<1>2. ASSUME NEW i \in m.rows, NEW p \in m.rows
      PROVE  ColumnIn(m, sg, f[p])[i] = IF i = p THEN 1 ELSE 0
  <2>1. f[p] = ArtificialIn(m, p) /\ f[p] \notin m.cols /\ (f[p] = ArtificialIn(m, i) <=> i = p)
    BY <1>1, ArtificialsApart
  <2>2. ColumnIn(m, sg, f[p])[i] = IF f[p] \notin m.cols THEN (IF f[p] = ArtificialIn(m, i) THEN 1 ELSE 0)
                    ELSE sg[i] * m.a[i][f[p]]
    BY DEF ColumnIn
  <2> QED
    BY <2>1, <2>2
<1> QED
  BY <1>2, UnitBasis

\* and so is one of unit columns.
LEMMA CrashBasis ==
  ASSUME NEW m, NEW sg, Rows(m, sg, m.rows), NEW f,
         \A p \in m.rows : f[p] \in m.cols /\ \A r \in m.rows : sg[r] * m.a[r][f[p]] = (IF r = p THEN 1 ELSE 0),
         \A i \in m.rows : RhsIn(m, sg)[i] >= 0
  PROVE  FeasibleIn(m, sg, m.rows, f)
<1>2. ASSUME NEW i \in m.rows, NEW p \in m.rows
      PROVE  ColumnIn(m, sg, f[p])[i] = IF i = p THEN 1 ELSE 0
  <2>1. ColumnIn(m, sg, f[p])[i] = sg[i] * m.a[i][f[p]]
    BY DEF ColumnIn
  <2> QED
    BY <2>1
<1> QED
  BY <1>2, UnitBasis

EntersAt(g, f, L, p, j) == g[p] = j /\ \A q \in L \ {p} : g[q] = f[q]

\* A pivot puts the entering column in the place of the leaving one.
LEMMA PivotPuts ==
  ASSUME NEW m, NEW sg, NEW L, Rows(m, sg, L), NEW f, NEW p \in L, NEW j, NEW g, EntersAt(g, f, L, p, j)
  PROVE  MatrixIn(m, sg, L, g) = PutAt(MatrixIn(m, sg, L, f), L, p, ColumnIn(m, sg, j))
<1>1. g[p] = j /\ \A q \in L \ {p} : g[q] = f[q]
  BY DEF EntersAt
<1>2. ASSUME NEW i \in L
      PROVE  MatrixIn(m, sg, L, g)[i] = [MatrixIn(m, sg, L, f)[i] EXCEPT ![p] = ColumnIn(m, sg, j)[i]]
  <2>1. MatrixIn(m, sg, L, g)[i] = [q \in L |-> ColumnIn(m, sg, g[q])[i]]
    BY DEF MatrixIn
  <2>2. MatrixIn(m, sg, L, f)[i] = [q \in L |-> ColumnIn(m, sg, f[q])[i]]
    BY DEF MatrixIn
  <2>3. \A q \in L : ColumnIn(m, sg, g[q])[i] = IF q = p THEN ColumnIn(m, sg, j)[i] ELSE ColumnIn(m, sg, f[q])[i]
    BY <1>1
  <2> QED
    BY <2>1, <2>2, <2>3
<1>3. MatrixIn(m, sg, L, g) = [i \in L |-> MatrixIn(m, sg, L, g)[i]]
  BY DEF MatrixIn
<1>4. PutAt(MatrixIn(m, sg, L, f), L, p, ColumnIn(m, sg, j))
        = [i \in L |-> [MatrixIn(m, sg, L, f)[i] EXCEPT ![p] = ColumnIn(m, sg, j)[i]]]
  BY DEF PutAt
<1>5. MatrixIn(m, sg, L, g) = PutAt(MatrixIn(m, sg, L, f), L, p, ColumnIn(m, sg, j))
  BY <1>2, <1>3, <1>4
<1> QED
  BY <1>5

-----------------------------------------------------------------------------
\* The point of a basis.
\* A value at the positions of a basis, spread over the columns of the model.
SpreadIn(m, L, f, x) == [j \in m.cols |-> Total([p \in L |-> IF f[p] = j THEN x[p] ELSE 0], L)]
Placed(m, sg, L, f, x) == Rows(m, sg, L) /\ AllInt(x, L) /\ \A p \in L : f[p] \in m.cols

\* The point spread over the columns.
LEMMA SpreadType ==
  ASSUME NEW m, NEW sg, NEW L, NEW f, NEW x, Placed(m, sg, L, f, x)
  PROVE  /\ SpreadIn(m, L, f, x) \in [m.cols -> Int]
         /\ (\A p \in L : x[p] >= 0) => \A j \in m.cols : SpreadIn(m, L, f, x)[j] >= 0
         /\ (\A p \in L : x[p] <= 0) => \A j \in m.cols : SpreadIn(m, L, f, x)[j] <= 0
         /\ \A j \in m.cols : (\A p \in L : f[p] # j) => SpreadIn(m, L, f, x)[j] = 0
<1>1. IsFiniteSet(L)
  BY BasisSystem DEF Placed, Names
<1> SUFFICES ASSUME NEW j \in m.cols
             PROVE  /\ SpreadIn(m, L, f, x)[j] \in Int
                    /\ (\A p \in L : x[p] >= 0) => SpreadIn(m, L, f, x)[j] >= 0
                    /\ (\A p \in L : x[p] <= 0) => SpreadIn(m, L, f, x)[j] <= 0
                    /\ (\A p \in L : f[p] # j) => SpreadIn(m, L, f, x)[j] = 0
  <2>1. SpreadIn(m, L, f, x) = [k \in m.cols |-> SpreadIn(m, L, f, x)[k]]
    BY DEF SpreadIn
  <2> QED
    BY <2>1
<1> DEFINE g == [p \in L |-> IF f[p] = j THEN x[p] ELSE 0]
           z == [p \in L |-> 0]
<1>2. SpreadIn(m, L, f, x)[j] = Total(g, L)
  BY DEF SpreadIn
<1>3. AllInt(g, L) /\ (\A p \in L : x[p] >= 0) => \A p \in L : g[p] >= 0
  BY DEF AllInt, Placed
<1>4. (\A p \in L : x[p] <= 0) => \A p \in L : g[p] <= z[p]
  BY DEF AllInt, Placed
<1>5. (\A p \in L : f[p] # j) => \A p \in L : g[p] = 0
  OBVIOUS
<1>6. AllInt(g, L) /\ AllInt(z, L) /\ \A p \in L : z[p] = 0
  BY DEF AllInt, Placed
<1> HIDE DEF g, z
<1>7. Total(g, L) \in Int /\ Total(z, L) = 0
  BY <1>1, <1>6, TotalType, TotalZero
<1>8. (\A p \in L : x[p] >= 0) => Total(g, L) >= 0
  BY <1>1, <1>3, <1>6, TotalNonnegative
<1>9. (\A p \in L : x[p] <= 0) => Total(g, L) <= Total(z, L)
  BY <1>1, <1>4, <1>6, TotalMonotone
<1>10. (\A p \in L : f[p] # j) => Total(g, L) = 0
  BY <1>1, <1>5, TotalZero
<1> QED
  BY <1>2, <1>7, <1>8, <1>9, <1>10

\* Weighed over the columns it is weighed over the positions.
LEMMA SpreadWeighed ==
  ASSUME NEW m, NEW sg, NEW L, NEW f, NEW x, Placed(m, sg, L, f, x), NEW u, AllInt(u, m.cols)
  PROVE  Total([j \in m.cols |-> u[j] * SpreadIn(m, L, f, x)[j]], m.cols)
           = Total([p \in L |-> u[f[p]] * x[p]], L)
<1>1. IsFiniteSet(L) /\ IsFiniteSet(m.cols)
  BY BasisSystem DEF Placed, Names, Rows, Numbered, LinearModel
<1> DEFINE h == [j \in m.cols |-> [p \in L |-> IF f[p] = j THEN u[j] * x[p] ELSE 0]]
           w(j) == [p \in L |-> IF f[p] = j THEN x[p] ELSE 0]
           v(p) == [j \in m.cols |-> h[j][p]]
<1>2. \A j \in m.cols, p \in L : h[j][p] \in Int /\ h[j][p] = IF f[p] = j THEN u[j] * x[p] ELSE 0
  BY DEF AllInt, Placed
<1>3. ASSUME NEW j \in m.cols PROVE Total(h[j], L) = u[j] * SpreadIn(m, L, f, x)[j]
  <2>1. u[j] \in Int /\ AllInt(w(j), L) /\ \A p \in L : h[j][p] = u[j] * w(j)[p]
    BY <1>2 DEF AllInt, Placed
  <2>2. SpreadIn(m, L, f, x)[j] = Total(w(j), L)
    BY DEF SpreadIn
  <2> HIDE DEF h, w
  <2>3. Total(h[j], L) = u[j] * Total(w(j), L)
    BY <1>1, <2>1, TotalMultiple
  <2> QED
    BY <2>2, <2>3
<1>4. ASSUME NEW p \in L PROVE Total(v(p), m.cols) = u[f[p]] * x[p]
  <2>1. f[p] \in m.cols /\ v(p)[f[p]] = u[f[p]] * x[p] /\ v(p)[f[p]] \in Int
        /\ \A j \in m.cols \ {f[p]} : v(p)[j] = 0
    BY <1>2 DEF AllInt, Placed
  <2> HIDE DEF h, v
  <2>2. Total(v(p), m.cols) = v(p)[f[p]]
    BY <1>1, <2>1, TotalSingle
  <2> QED
    BY <2>1, <2>2
<1>5. Total([j \in m.cols |-> Total([p \in L |-> h[j][p]], L)], m.cols)
        = Total([p \in L |-> Total([j \in m.cols |-> h[j][p]], m.cols)], L)
  <2>1. IsFiniteSet(L) /\ IsFiniteSet(m.cols) /\ \A j \in m.cols, p \in L : h[j][p] \in Int
    BY <1>1, <1>2
  <2> HIDE DEF h
  <2> QED
    BY <2>1, TotalExchange
<1>6. \A j \in m.cols : h[j] = [p \in L |-> h[j][p]]
  OBVIOUS
<1> HIDE DEF h
<1>7. [j \in m.cols |-> Total([p \in L |-> h[j][p]], L)] = [j \in m.cols |-> u[j] * SpreadIn(m, L, f, x)[j]]
  BY <1>3, <1>6
<1>8. [p \in L |-> Total([j \in m.cols |-> h[j][p]], m.cols)] = [p \in L |-> u[f[p]] * x[p]]
  BY <1>4
<1> QED
  BY <1>5, <1>7, <1>8

\* So the rows left hold as the system of the basis does, and the cost is that
\* of the basic columns.
LEMMA SpreadRows ==
  ASSUME NEW m, NEW sg, NEW L, NEW f, NEW x, Placed(m, sg, L, f, x), NEW i \in L
  PROVE  /\ RowValue(m, i, SpreadIn(m, L, f, x)) \in Int
         /\ sg[i] * RowValue(m, i, SpreadIn(m, L, f, x)) = MatrixTimes(MatrixIn(m, sg, L, f), L, x)[i]
<1>1. IsFiniteSet(L) /\ IsFiniteSet(m.cols) /\ i \in m.rows /\ sg[i] \in Int
  <2>1. Rows(m, sg, L)
    BY DEF Placed
  <2>2. Names(L) /\ i \in m.rows /\ sg[i] \in {1, -1} /\ IsFiniteSet(m.cols)
    BY <2>1, BasisSystem DEF Rows, Numbered, LinearModel
  <2> QED
    BY <2>2 DEF Names
<1>2. AllInt(m.a[i], m.cols)
  BY <1>1 DEF Placed, Rows, Numbered, LinearModel, AllInt
<1> DEFINE s == [p \in L |-> m.a[i][f[p]] * x[p]]
           t == [p \in L |-> MatrixIn(m, sg, L, f)[i][p] * x[p]]
<1>3. RowValue(m, i, SpreadIn(m, L, f, x)) = Total(s, L)
  BY <1>2, SpreadWeighed DEF RowValue
<1>4. \A p \in L : t[p] = sg[i] * s[p] /\ s[p] \in Int
  <2> SUFFICES ASSUME NEW p \in L PROVE t[p] = sg[i] * s[p] /\ s[p] \in Int
    OBVIOUS
  <2>1. MatrixIn(m, sg, L, f)[i][p] = sg[i] * m.a[i][f[p]]
    <3>1. MatrixIn(m, sg, L, f)[i][p] = ColumnIn(m, sg, f[p])[i] /\ f[p] \in m.cols
      BY BasisSystem DEF Placed
    <3> QED
      BY <1>1, <3>1 DEF ColumnIn
  <2>2. m.a[i][f[p]] \in Int /\ x[p] \in Int
    BY <1>2 DEF AllInt, Placed
  <2>3. PICK A \in Int, X \in Int, S \in Int : A = m.a[i][f[p]] /\ X = x[p] /\ S = sg[i]
    BY <1>1, <2>2
  <2>4. t[p] = (S * A) * X /\ s[p] = A * X
    BY <2>1, <2>3
  <2>5. (S * A) * X = S * (A * X) /\ A * X \in Int
    BY <2>3
  <2> QED
    BY <2>3, <2>4, <2>5
<1>5. MatrixTimes(MatrixIn(m, sg, L, f), L, x)[i] = Total(t, L)
  BY DEF MatrixTimes
<1> HIDE DEF s, t
<1>6. AllInt(s, L)
  BY <1>4 DEF AllInt
<1>7. Total(t, L) = sg[i] * Total(s, L) /\ Total(s, L) \in Int
  BY <1>1, <1>4, <1>6, TotalMultiple, TotalType
<1> QED
  BY <1>3, <1>5, <1>7

\* Its cost is that of the basic columns.
LEMMA SpreadCost ==
  ASSUME NEW m, NEW sg, NEW L, NEW f, NEW x, Placed(m, sg, L, f, x)
  PROVE  CostOf(m, SpreadIn(m, L, f, x)) = Total([p \in L |-> m.c[f[p]] * x[p]], L)
<1>1. AllInt(m.c, m.cols)
  BY DEF Placed, Rows, Numbered, LinearModel, AllInt
<1> QED
  BY <1>1, SpreadWeighed DEF CostOf

\* A solution of the basis, over d, satisfies the rows left over d.
LEMMA SpreadSolves ==
  ASSUME NEW m, NEW sg, NEW L, NEW f, NEW x, Placed(m, sg, L, f, x), NEW d, NEW v, NEW s,
         \A i \in L : s[i] \in Int /\ v[i] = sg[i] * s[i],
         Solves(MatrixIn(m, sg, L, f), L, x, v, d)
  PROVE  \A i \in L : RowValue(m, i, SpreadIn(m, L, f, x)) = d * s[i]
<1> SUFFICES ASSUME NEW i \in L PROVE RowValue(m, i, SpreadIn(m, L, f, x)) = d * s[i]
  OBVIOUS
<1>1. sg[i] \in {1, -1} /\ s[i] \in Int /\ d \in Int /\ v[i] = sg[i] * s[i]
  BY DEF Placed, Rows, Numbered, LinearModel, Solves
<1>2. sg[i] * RowValue(m, i, SpreadIn(m, L, f, x)) = v[i] * d
      /\ RowValue(m, i, SpreadIn(m, L, f, x)) \in Int
  BY SpreadRows DEF Solves
<1>3. PICK R \in Int, B \in Int : R = RowValue(m, i, SpreadIn(m, L, f, x)) /\ B = s[i]
  BY <1>1, <1>2
<1>4. sg[i] * R = (sg[i] * B) * d
  BY <1>1, <1>2, <1>3
<1>5. R = d * B
  <2>1. CASE sg[i] = 1
    BY <1>1, <1>3, <1>4, <2>1
  <2>2. CASE sg[i] = -1
    <3>1. -R = (-B) * d /\ d \in Int
      BY <1>1, <1>3, <1>4, <2>2
    <3>2. (-B) * d = -(d * B)
      BY <1>3, <3>1
    <3> QED
      BY <1>3, <3>1, <3>2
  <2> QED
    BY <1>1, <2>1, <2>2
<1> QED
  BY <1>3, <1>5

-----------------------------------------------------------------------------
\* The multipliers of a basis.
\* Multipliers of the rows left, as multipliers of the rows of the model.
DualIn(m, sg, L, y) == [i \in m.rows |-> IF i \in L THEN sg[i] * y[i] ELSE 0]

\* Multipliers of the rows left weigh all the rows,
LEMMA DualWeighs ==
  ASSUME NEW m, NEW sg, NEW L, Rows(m, sg, L), NEW y, AllInt(y, L), NEW s, AllInt(s, m.rows),
         NEW t, \A i \in L : t[i] = sg[i] * s[i]
  PROVE  Total([i \in m.rows |-> s[i] * DualIn(m, sg, L, y)[i]], m.rows) = Pairing(t, y, L)
<1> DEFINE g == [i \in m.rows |-> s[i] * DualIn(m, sg, L, y)[i]]
           h == [i \in L |-> t[i] * y[i]]
<1>1. IsFiniteSet(m.rows) /\ L \in SUBSET m.rows /\ IsFiniteSet(L)
  <2>1. IsFiniteSet(m.rows) /\ L \in SUBSET m.rows
    BY DEF Rows, Numbered, LinearModel
  <2> QED
    BY <2>1, FS_Subset
<1>2. ASSUME NEW i \in L PROVE g[i] = h[i] /\ g[i] \in Int
  <2>1. i \in m.rows /\ sg[i] \in {1, -1} /\ s[i] \in Int /\ y[i] \in Int /\ t[i] = sg[i] * s[i]
    BY <1>1 DEF Rows, AllInt
  <2>2. g[i] = s[i] * (sg[i] * y[i]) /\ h[i] = (sg[i] * s[i]) * y[i]
    BY <2>1 DEF DualIn
  <2>3. PICK S \in Int, Y \in Int, G \in Int : S = s[i] /\ Y = y[i] /\ G = sg[i]
    BY <2>1
  <2>4. S * (G * Y) = (G * S) * Y /\ S * (G * Y) \in Int
    BY <2>3
  <2> QED
    BY <2>2, <2>3, <2>4
<1>3. ASSUME NEW i \in m.rows \ L PROVE g[i] = 0
  <2>1. DualIn(m, sg, L, y)[i] = 0 /\ s[i] \in Int
    BY DEF DualIn, AllInt
  <2> QED
    BY <2>1
<1> HIDE DEF g, h
<1>4. AllInt(g, m.rows) /\ AllInt(g, L)
  <2>1. ASSUME NEW i \in m.rows PROVE g[i] \in Int
    BY <1>2, <1>3
  <2> QED
    BY <1>1, <2>1 DEF AllInt
<1>5. Total(g, m.rows) = Total(g, L)
  BY <1>1, <1>3, <1>4, TotalSupport
<1>6. Total(g, L) = Total(h, L)
  BY <1>1, <1>2, <1>4, TotalEqual
<1> QED
  BY <1>5, <1>6 DEF g, h, Pairing

\* the columns and the right-hand side.
LEMMA DualColumns ==
  ASSUME NEW m, NEW sg, NEW L, Rows(m, sg, L), NEW y, AllInt(y, L)
  PROVE  /\ DualIn(m, sg, L, y) \in [m.rows -> Int]
         /\ \A j \in m.cols : ColumnValue(m, j, DualIn(m, sg, L, y)) = Pairing(ColumnIn(m, sg, j), y, L)
         /\ RhsOf(m, DualIn(m, sg, L, y)) = Pairing(RhsIn(m, sg), y, L)
<1>1. L \in SUBSET m.rows /\ sg \in [m.rows -> {1, -1}] /\ LinearModel(m)
  BY DEF Rows, Numbered
<1>2. DualIn(m, sg, L, y) \in [m.rows -> Int]
  <2>1. ASSUME NEW i \in m.rows PROVE (IF i \in L THEN sg[i] * y[i] ELSE 0) \in Int
    <3>1. sg[i] \in {1, -1}
      BY <1>1
    <3>2. i \in L => y[i] \in Int
      BY DEF AllInt
    <3> QED
      BY <3>1, <3>2
  <2> QED
    BY <2>1 DEF DualIn
<1>3. ASSUME NEW j \in m.cols PROVE ColumnValue(m, j, DualIn(m, sg, L, y)) = Pairing(ColumnIn(m, sg, j), y, L)
  <2> DEFINE s == [i \in m.rows |-> m.a[i][j]]
  <2>1. AllInt(s, m.rows)
    BY <1>1 DEF AllInt, LinearModel
  <2>2. \A i \in L : ColumnIn(m, sg, j)[i] = sg[i] * s[i]
    BY <1>1 DEF ColumnIn
  <2>3. [i \in m.rows |-> m.a[i][j] * DualIn(m, sg, L, y)[i]] = [i \in m.rows |-> s[i] * DualIn(m, sg, L, y)[i]]
    OBVIOUS
  <2> HIDE DEF s
  <2>4. Total([i \in m.rows |-> s[i] * DualIn(m, sg, L, y)[i]], m.rows) = Pairing(ColumnIn(m, sg, j), y, L)
    BY <2>1, <2>2, DualWeighs
  <2> QED
    BY <2>3, <2>4 DEF ColumnValue
<1>4. RhsOf(m, DualIn(m, sg, L, y)) = Pairing(RhsIn(m, sg), y, L)
  <2>1. AllInt(m.b, m.rows)
    BY <1>1 DEF AllInt, LinearModel
  <2>2. \A i \in L : RhsIn(m, sg)[i] = sg[i] * m.b[i]
    BY <1>1 DEF RhsIn
  <2> QED
    BY <2>1, <2>2, DualWeighs DEF RhsOf
<1> QED
  BY <1>2, <1>3, <1>4

\* A positive factor cancels in an equation.
LEMMA FactorCancels ==
  ASSUME NEW d \in Nat \ {0}, NEW p \in Int, NEW q \in Int, d * p = d * q
  PROVE  p = q
<1>1. d * (p - q) = d * p - d * q /\ p - q \in Int
  OBVIOUS
<1>2. d * (p - q) = 0
  BY <1>1
<1>3. PICK r \in Int : r = p - q
  BY <1>1
<1>4. d * r = 0
  BY <1>2, <1>3
<1>5. r = 0
  BY <1>3, <1>4, SignOfMultiple
<1> QED
  BY <1>3, <1>5

-----------------------------------------------------------------------------
\* Costs and reduced costs; an artificial column costs 1 in the first phase.
CostIn(m, ph, j) ==
  IF ph = 1 THEN (IF j \notin m.cols THEN 1 ELSE 0) ELSE IF j \notin m.cols THEN 0 ELSE m.c[j]
CostsIn(m, ph, L, f) == [p \in L |-> CostIn(m, ph, f[p])]
PricedIn(m, sg, L, ph, j, y) ==
  CostIn(m, ph, j) * y.den - Total([i \in L |-> ColumnIn(m, sg, j)[i] * y.num[i]], L)
PricesIn(m, sg, L, f, w) == Solution(Transposed(MatrixIn(m, sg, L, f), L), L, w)
PointIn(m, sg, L, f, v) == Solution(MatrixIn(m, sg, L, f), L, v)

\* Costs are integers in both phases.
LEMMA CostType ==
  ASSUME NEW m, Numbered(m), NEW ph \in {1, 2}, NEW L, NEW f
  PROVE  (\A j : CostIn(m, ph, j) \in Int) /\ AllInt(CostsIn(m, ph, L, f), L)
<1>1. ASSUME NEW j PROVE CostIn(m, ph, j) \in Int
  <2>1. j \in m.cols => m.c[j] \in Int
    BY DEF Numbered, LinearModel
  <2> QED
    BY <2>1 DEF CostIn
<1> QED
  BY <1>1 DEF CostsIn, AllInt

\* A nonsingular basis: its points and its prices.
LEMMA BasisPoint ==
  ASSUME NEW m, NEW sg, NEW L, Rows(m, sg, L), NEW f, ~ Singular(MatrixIn(m, sg, L, f), L), NEW v, AllInt(v, L)
  PROVE  LET x == PointIn(m, sg, L, f, v)
         IN  /\ x.den \in Nat \ {0} /\ x.num \in [L -> Int] /\ AllInt(x.num, L)
             /\ Solves(MatrixIn(m, sg, L, f), L, x.num, v, x.den)
<1>1. SystemOn(MatrixIn(m, sg, L, f), L, v)
  BY BasisSystem DEF SystemOn
<1> DEFINE x == PointIn(m, sg, L, f, v)
<1>2. x.den \in Nat \ {0} /\ x.num \in [L -> Int]
  BY <1>1, SolutionPositive, SolutionType DEF PointIn
<1>3. Solves(MatrixIn(m, sg, L, f), L, x.num, v, x.den)
  BY <1>1, SolutionSolves DEF PointIn
<1>4. AllInt(x.num, L)
  BY <1>2 DEF AllInt
<1> QED
  BY <1>2, <1>3, <1>4

\* Prices of basic costs share the denominator of the point and pair with it.
LEMMA BasisPrices ==
  ASSUME NEW m, NEW sg, NEW L, Rows(m, sg, L), NEW f, ~ Singular(MatrixIn(m, sg, L, f), L),
         NEW v, AllInt(v, L), NEW w, AllInt(w, L)
  PROVE  LET x == PointIn(m, sg, L, f, v) y == PricesIn(m, sg, L, f, w)
         IN  /\ y.den = x.den /\ y.den \in Nat \ {0} /\ y.num \in [L -> Int] /\ AllInt(y.num, L)
             /\ Pairing(w, x.num, L) = Pairing(v, y.num, L)
             /\ \A p \in L : Pairing(ColumnIn(m, sg, f[p]), y.num, L) = w[p] * y.den
             /\ Solves(Transposed(MatrixIn(m, sg, L, f), L), L, y.num, w, y.den)
<1> DEFINE B == MatrixIn(m, sg, L, f)
           T == Transposed(B, L)
           x == PointIn(m, sg, L, f, v)
           y == PricesIn(m, sg, L, f, w)
<1>1. SquareOn(B, L) /\ Names(L)
  BY BasisSystem
<1>2. SquareOn(T, L) /\ Determinant(T, L) = Determinant(B, L)
  BY <1>1, TransposedSquare
<1>3. SystemOn(T, L, w) /\ ~ Singular(T, L)
  BY <1>2 DEF SystemOn, Singular
<1>4. y.den \in Nat \ {0} /\ y.num \in [L -> Int] /\ Solves(T, L, y.num, w, y.den)
  <2>1. PricesIn(m, sg, L, f, w) = Solution(T, L, w)
    BY DEF PricesIn
  <2> HIDE DEF T
  <2>2. Solution(T, L, w).den \in Nat \ {0} /\ Solution(T, L, w).num \in [L -> Int]
    BY <1>3, SolutionPositive, SolutionType
  <2>3. Solves(T, L, Solution(T, L, w).num, w, Solution(T, L, w).den)
    BY <1>3, SolutionSolves
  <2> QED
    BY <2>1, <2>2, <2>3
<1>5. y.den = x.den
  <2>1. Solution(T, L, w).den = Sign(Determinant(T, L)) * Determinant(T, L)
    BY SolutionIs
  <2>2. Solution(B, L, v).den = Sign(Determinant(B, L)) * Determinant(B, L)
    BY SolutionIs
  <2> QED
    BY <1>2, <2>1, <2>2 DEF PricesIn, PointIn
<1>6. x.den \in Nat \ {0} /\ AllInt(x.num, L) /\ Solves(B, L, x.num, v, x.den)
  BY BasisPoint
<1>7. AllInt(y.num, L)
  BY <1>4 DEF AllInt
<1>8. \A p \in L : Pairing(ColumnIn(m, sg, f[p]), y.num, L) = w[p] * y.den
  BY <1>4, BasisTransposed DEF Solves
<1> HIDE DEF x, y, B, T
<1>9. Pairing(w, x.num, L) = Pairing(v, y.num, L)
  <2>1. y.den * Pairing(w, x.num, L) = x.den * Pairing(v, y.num, L)
    <3>1. Solves(Transposed(B, L), L, y.num, w, y.den)
      BY <1>4 DEF T
    <3> QED
      BY <1>1, <1>6, <3>1, SolutionsPair
  <2>2. Pairing(w, x.num, L) \in Int /\ Pairing(v, y.num, L) \in Int
    BY <1>1, <1>6, <1>7, PairingType
  <2>3. PICK P \in Int, Q \in Int, D \in Nat \ {0} :
          P = Pairing(w, x.num, L) /\ Q = Pairing(v, y.num, L) /\ D = x.den
    BY <1>6, <2>2
  <2>4. D * P = D * Q
    BY <1>5, <2>1, <2>3
  <2>5. P = Q
    BY <2>4, FactorCancels
  <2> QED
    BY <2>3, <2>5
<1> QED
  BY <1>4, <1>5, <1>7, <1>8, <1>9 DEF x, y, B, T

-----------------------------------------------------------------------------
\* The witnesses a basis makes.
\* The rows dropped follow from the rows left.
ImpliedIn(m, L) ==
  \A x \in [m.cols -> Int], d \in Int :
    (\A i \in L : RowValue(m, i, x) = d * m.b[i]) => \A i \in m.rows : RowValue(m, i, x) = d * m.b[i]
\* A nonsingular basis of columns of the model.
ModelBasis(m, sg, L, f) ==
  /\ Rows(m, sg, L) /\ ~ Singular(MatrixIn(m, sg, L, f), L)
  /\ \A p \in L : f[p] \in m.cols

\* Basic columns have no reduced cost.
LEMMA BasicPriced ==
  ASSUME NEW m, NEW sg, NEW L, Rows(m, sg, L), NEW f, ~ Singular(MatrixIn(m, sg, L, f), L),
         NEW ph \in {1, 2}, NEW p \in L
  PROVE  PricedIn(m, sg, L, ph, f[p], PricesIn(m, sg, L, f, CostsIn(m, ph, L, f))) = 0
<1> DEFINE w == CostsIn(m, ph, L, f)
           y == PricesIn(m, sg, L, f, w)
<1>1. AllInt(w, L) /\ CostIn(m, ph, f[p]) \in Int /\ w[p] = CostIn(m, ph, f[p])
  BY CostType DEF Rows, CostsIn
<1>2. AllInt(RhsIn(m, sg), L)
  BY BasisSystem
<1> HIDE DEF w
<1>3. y.den \in Nat /\ Pairing(ColumnIn(m, sg, f[p]), y.num, L) = w[p] * y.den
  BY <1>1, <1>2, BasisPrices
<1>4. PricedIn(m, sg, L, ph, f[p], y) = CostIn(m, ph, f[p]) * y.den - Pairing(ColumnIn(m, sg, f[p]), y.num, L)
  BY DEF PricedIn, Pairing
<1>5. PICK k \in Int, n \in Nat : k = w[p] /\ n = y.den
  BY <1>1, <1>3
<1>6. PricedIn(m, sg, L, ph, f[p], y) = k * n - k * n /\ k * n \in Int
  BY <1>1, <1>3, <1>4, <1>5
<1>7. PricedIn(m, sg, L, ph, f[p], y) = 0
  BY <1>6
<1> QED
  BY <1>7 DEF w

\* A nonnegative basic solution satisfies every row, those dropped included.
LEMMA PointAccepted ==
  ASSUME NEW m, NEW sg, NEW L, NEW f, ModelBasis(m, sg, L, f), ImpliedIn(m, L),
         NEW x, x = PointIn(m, sg, L, f, RhsIn(m, sg)), \A p \in L : x.num[p] >= 0
  PROVE  LET X == SpreadIn(m, L, f, x.num)
         IN  /\ x.den \in Nat \ {0} /\ X \in [m.cols -> Int] /\ Nonnegative(m, X)
             /\ \A i \in m.rows : RowValue(m, i, X) = x.den * m.b[i]
<1> DEFINE X == SpreadIn(m, L, f, x.num)
<1>1. AllInt(RhsIn(m, sg), L)
  BY BasisSystem DEF ModelBasis
<1>2. x.den \in Nat \ {0} /\ AllInt(x.num, L) /\ Solves(MatrixIn(m, sg, L, f), L, x.num, RhsIn(m, sg), x.den)
  BY <1>1, BasisPoint DEF ModelBasis
<1>3. Placed(m, sg, L, f, x.num)
  BY <1>2 DEF Placed, ModelBasis
<1>4. X \in [m.cols -> Int] /\ \A j \in m.cols : X[j] >= 0
  BY <1>3, SpreadType
<1>5. \A i \in L : RowValue(m, i, X) = x.den * m.b[i]
  <2>1. \A i \in L : m.b[i] \in Int /\ RhsIn(m, sg)[i] = sg[i] * m.b[i]
    BY DEF ModelBasis, Rows, Numbered, LinearModel, RhsIn
  <2> QED
    BY <1>2, <1>3, <2>1, SpreadSolves
<1> HIDE DEF X
<1>6. \A i \in m.rows : RowValue(m, i, X) = x.den * m.b[i]
  BY <1>2, <1>4, <1>5 DEF ImpliedIn
<1> QED
  BY <1>2, <1>4, <1>6 DEF X, Nonnegative

\* A point and multipliers that are complementary cost the same.
LEMMA ComplementaryCost ==
  ASSUME NEW m, LinearModel(m), NEW x, ColumnVector(m, x), NEW y, RowVector(m, y),
         RowsHold(m, x), Complementary(m, x, y)
  PROVE  CostOf(m, x) = RhsOf(m, y)
<1> DEFINE g == [j \in m.cols |-> m.c[j] * x[j]]
           h == [j \in m.cols |-> ColumnValue(m, j, y) * x[j]]
<1>1. \A j \in m.cols : ColumnValue(m, j, y) \in Int /\ m.c[j] \in Int /\ x[j] \in Int
  BY ValuesAreIntegers DEF LinearModel, ColumnVector, AllInt
<1>2. ASSUME NEW j \in m.cols PROVE g[j] = h[j] /\ g[j] \in Int
  <2>1. x[j] * (m.c[j] - ColumnValue(m, j, y)) = 0
    BY DEF Complementary, ReducedCost
  <2>2. PICK X \in Int, C \in Int, V \in Int : X = x[j] /\ C = m.c[j] /\ V = ColumnValue(m, j, y)
    BY <1>1
  <2>3. X * (C - V) = C * X - V * X
    BY <2>2
  <2>4. C * X = V * X /\ C * X \in Int
    BY <2>1, <2>2, <2>3
  <2> QED
    BY <2>2, <2>4
<1>3. IsFiniteSet(m.cols) /\ AllInt(g, m.cols)
  BY <1>2 DEF LinearModel, AllInt
<1>4. RhsOf(m, y) = Total(h, m.cols)
  BY RhsOfRows
<1>5. CostOf(m, x) = Total(g, m.cols)
  BY DEF CostOf
<1> HIDE DEF g, h
<1>6. Total(g, m.cols) = Total(h, m.cols)
  BY <1>2, <1>3, TotalEqual
<1> QED
  BY <1>4, <1>5, <1>6

\* Multiplying the right-hand side and the cost leaves a linear model.
LEMMA ScaledIsLinear ==
  ASSUME NEW m, ModelRecord(m), LinearModel(m), NEW d \in Int
  PROVE  LinearModel(Scaled(m, d))
<1>1. /\ Scaled(m, d).rows = m.rows /\ Scaled(m, d).cols = m.cols /\ Scaled(m, d).a = m.a
      /\ \A i \in m.rows : Scaled(m, d).b[i] = d * m.b[i]
      /\ \A j \in m.cols : Scaled(m, d).c[j] = d * m.c[j]
  BY ScaledFields
<1>2. /\ \A i \in m.rows : d * m.b[i] \in Int
      /\ \A j \in m.cols : d * m.c[j] \in Int
  BY DEF LinearModel
<1> QED
  BY <1>1, <1>2 DEF LinearModel

(***************************************************************************)
(* A basis with a nonnegative solution and no negative reduced cost makes  *)
(* a witness of optimality that the verifier accepts, over the denominator *)
(* of its solution.                                                        *)
(***************************************************************************)
THEOREM OptimalAccepted ==
  ASSUME NEW m, NEW sg, NEW L, NEW f, ModelBasis(m, sg, L, f), ImpliedIn(m, L),
         NEW x, x = PointIn(m, sg, L, f, RhsIn(m, sg)), \A p \in L : x.num[p] >= 0,
         NEW y, y = PricesIn(m, sg, L, f, CostsIn(m, 2, L, f)),
         \A j \in m.cols : (\A p \in L : f[p] # j) => PricedIn(m, sg, L, 2, j, y) >= 0
  PROVE  x.den \in Nat \ {0} /\ OptimalWitness(Scaled(m, x.den), SpreadIn(m, L, f, x.num), DualIn(m, sg, L, y.num))
<1> DEFINE X == SpreadIn(m, L, f, x.num)
           Y == DualIn(m, sg, L, y.num)
           M == Scaled(m, x.den)
           w == CostsIn(m, 2, L, f)
<1>1. ModelRecord(m) /\ LinearModel(m) /\ Rows(m, sg, L) /\ Numbered(m)
  BY DEF ModelBasis, Rows, Numbered
<1>2. x.den \in Nat \ {0} /\ X \in [m.cols -> Int] /\ Nonnegative(m, X)
      /\ \A i \in m.rows : RowValue(m, i, X) = x.den * m.b[i]
  BY PointAccepted
<1>3. AllInt(RhsIn(m, sg), L) /\ AllInt(w, L)
  BY <1>1, BasisSystem, CostType
<1>4. y.den = x.den /\ AllInt(y.num, L)
  <2> HIDE DEF w
  <2>1. y = PricesIn(m, sg, L, f, w)
    BY DEF w
  <2>2. ~ Singular(MatrixIn(m, sg, L, f), L)
    BY DEF ModelBasis
  <2>3. /\ PricesIn(m, sg, L, f, w).den = PointIn(m, sg, L, f, RhsIn(m, sg)).den
        /\ AllInt(PricesIn(m, sg, L, f, w).num, L)
    BY <1>1, <1>3, <2>2, BasisPrices
  <2> QED
    BY <2>1, <2>3
<1>5. Y \in [m.rows -> Int] /\ \A j \in m.cols : ColumnValue(m, j, Y) = Pairing(ColumnIn(m, sg, j), y.num, L)
  BY <1>1, <1>4, DualColumns
<1> DEFINE R(j) == PricedIn(m, sg, L, 2, j, y)
<1> HIDE DEF X, Y, w, R
<1>a. x.den \in Int
  BY <1>2
<1>6. ASSUME NEW j \in m.cols
      PROVE  /\ R(j) \in Int
             /\ R(j) = x.den * m.c[j] - ColumnValue(m, j, Y)
             /\ R(j) >= 0
             /\ X[j] * R(j) = 0
  <2>1. R(j) = m.c[j] * y.den - Pairing(ColumnIn(m, sg, j), y.num, L)
    BY DEF PricedIn, Pairing, CostIn, R
  <2>2. m.c[j] \in Int /\ Pairing(ColumnIn(m, sg, j), y.num, L) \in Int
    BY <1>1, <1>4, BasisSystem, PairingType DEF LinearModel
  <2>3. R(j) \in Int
        /\ R(j) = x.den * m.c[j] - ColumnValue(m, j, Y)
    <3>1. PICK C \in Int, D \in Int, P \in Int :
            C = m.c[j] /\ D = x.den /\ P = Pairing(ColumnIn(m, sg, j), y.num, L)
      BY <1>a, <2>2
    <3>2. R(j) = C * D - P
      BY <1>4, <2>1, <3>1
    <3>3. ColumnValue(m, j, Y) = P
      BY <1>5, <3>1
    <3>4. R(j) = D * C - P /\ D * C - P \in Int
      BY <3>1, <3>2
    <3> QED
      BY <3>1, <3>3, <3>4
  <2>a. PICK r \in Int : r = R(j)
    BY <2>3
  <2>b. X[j] \in Int
    BY <1>2
  <2>4. CASE \A p \in L : f[p] # j
    <3>1. R(j) >= 0
      BY <2>4 DEF R
    <3>2. X[j] = 0
      <4>1. AllInt(x.num, L)
        BY <1>1, <1>3, BasisPoint DEF ModelBasis
      <4>2. Placed(m, sg, L, f, x.num)
        BY <1>1, <4>1 DEF Placed, ModelBasis
      <4> QED
        BY <2>4, <4>2, SpreadType DEF X
    <3>3. X[j] * r = 0
      BY <2>a, <3>2
    <3> QED
      BY <2>3, <2>a, <3>1, <3>3
  <2>5. CASE \E p \in L : f[p] = j
    <3>1. R(j) = 0
      <4>1. PICK p \in L : f[p] = j
        BY <2>5
      <4>2. ~ Singular(MatrixIn(m, sg, L, f), L)
        BY DEF ModelBasis
      <4>3. PricedIn(m, sg, L, 2, f[p], PricesIn(m, sg, L, f, CostsIn(m, 2, L, f))) = 0
        BY <1>1, <4>2, BasicPriced
      <4> QED
        BY <4>1, <4>3 DEF R
    <3>3. X[j] * r = 0 /\ r >= 0
      BY <2>a, <2>b, <3>1
    <3> QED
      BY <2>3, <2>a, <3>3
  <2> QED
    BY <2>3, <2>4, <2>5
<1>7. /\ M.rows = m.rows /\ M.cols = m.cols
      /\ \A i \in m.rows : M.b[i] = x.den * m.b[i]
      /\ \A j \in m.cols : M.c[j] = x.den * m.c[j]
  BY <1>1, ScaledFields
<1>8. ColumnVector(m, X) /\ RowVector(m, Y)
  BY <1>2, <1>5 DEF ColumnVector, RowVector, AllInt
<1>9. /\ \A i \in m.rows : RowValue(M, i, X) = RowValue(m, i, X)
      /\ \A j \in m.cols : ColumnValue(M, j, Y) = ColumnValue(m, j, Y)
  BY <1>1, <1>2, <1>8, ScaledSums
<1>10. LinearModel(M)
  BY <1>1, <1>2, ScaledIsLinear
<1> HIDE DEF M
<1>11. RowsHold(M, X) /\ Nonnegative(M, X)
  BY <1>2, <1>7, <1>9 DEF RowsHold, Nonnegative
<1>12. \A j \in m.cols : ReducedCost(M, j, Y) = R(j)
  BY <1>6, <1>7, <1>9 DEF ReducedCost
<1>13. DualFeasible(M, Y) /\ Complementary(M, X, Y)
  BY <1>6, <1>7, <1>12 DEF DualFeasible, Complementary
<1>14. ColumnVector(M, X) /\ RowVector(M, Y)
  BY <1>7, <1>8 DEF ColumnVector, RowVector
<1>15. CostOf(M, X) = RhsOf(M, Y)
  BY <1>10, <1>11, <1>13, <1>14, ComplementaryCost
<1>16. ForColumns(M, X) /\ ForRows(M, Y)
  BY <1>2, <1>5, <1>7 DEF ForColumns, ForRows
<1>17. OptimalWitness(M, X, Y)
  BY <1>11, <1>13, <1>15, <1>16 DEF OptimalWitness, PrimalFeasible
<1> QED
  BY <1>2, <1>17 DEF M, X, Y

-----------------------------------------------------------------------------
\* The multipliers of a first phase that ends above zero exclude every point.
LEMMA FarkasAccepted ==
  ASSUME NEW m, NEW sg, NEW L, Rows(m, sg, L), NEW f, ~ Singular(MatrixIn(m, sg, L, f), L),
         NEW x, x = PointIn(m, sg, L, f, RhsIn(m, sg)),
         NEW y, y = PricesIn(m, sg, L, f, CostsIn(m, 1, L, f)),
         \A j \in m.cols : (\A p \in L : f[p] # j) => PricedIn(m, sg, L, 1, j, y) >= 0,
         Pairing(CostsIn(m, 1, L, f), x.num, L) > 0
  PROVE  FarkasWitness(m, DualIn(m, sg, L, y.num))
<1> DEFINE Y == DualIn(m, sg, L, y.num)
           w == CostsIn(m, 1, L, f)
<1>1. Numbered(m)
  BY DEF Rows
<1>2. AllInt(RhsIn(m, sg), L) /\ AllInt(w, L)
  BY <1>1, BasisSystem, CostType
<1>3. y = PricesIn(m, sg, L, f, w)
  OBVIOUS
<1> HIDE DEF w
<1>4. y.den \in Nat \ {0} /\ AllInt(y.num, L) /\ Pairing(w, x.num, L) = Pairing(RhsIn(m, sg), y.num, L)
  BY <1>2, <1>3, BasisPrices
<1>5. /\ Y \in [m.rows -> Int]
      /\ \A j \in m.cols : ColumnValue(m, j, Y) = Pairing(ColumnIn(m, sg, j), y.num, L)
      /\ RhsOf(m, Y) = Pairing(RhsIn(m, sg), y.num, L)
  BY <1>4, DualColumns
<1> HIDE DEF Y
<1>6. RhsOf(m, Y) > 0
  <2>1. Pairing(w, x.num, L) > 0
    BY DEF w
  <2> QED
    BY <1>4, <1>5, <2>1
<1>7. ASSUME NEW j \in m.cols PROVE ColumnValue(m, j, Y) <= 0
  <2>1. PricedIn(m, sg, L, 1, j, y) >= 0
    <3>1. CASE \A p \in L : f[p] # j
      BY <3>1
    <3>2. CASE \E p \in L : f[p] = j
      <4>1. PICK p \in L : f[p] = j
        BY <3>2
      <4>2. PricedIn(m, sg, L, 1, f[p], PricesIn(m, sg, L, f, CostsIn(m, 1, L, f))) = 0
        BY BasicPriced
      <4> QED
        BY <4>1, <4>2
    <3> QED
      BY <3>1, <3>2
  <2>2. PricedIn(m, sg, L, 1, j, y) = 0 * y.den - Pairing(ColumnIn(m, sg, j), y.num, L)
    BY DEF PricedIn, Pairing, CostIn
  <2>3. AllInt(ColumnIn(m, sg, j), L) /\ Names(L)
    BY BasisSystem
  <2>4. Pairing(ColumnIn(m, sg, j), y.num, L) \in Int
    BY <1>4, <2>3, PairingType
  <2>5. PICK P \in Int, D \in Nat : P = Pairing(ColumnIn(m, sg, j), y.num, L) /\ D = y.den
    BY <1>4, <2>4
  <2>6. 0 * D - P >= 0
    BY <2>1, <2>2, <2>5
  <2>7. P <= 0
    BY <2>5, <2>6
  <2> QED
    BY <1>5, <2>5, <2>7
<1> QED
  BY <1>5, <1>6, <1>7 DEF FarkasWitness, ForRows, Y

-----------------------------------------------------------------------------
\* A column that no row blocks gives a ray.
RayIn(m, L, f, d, j) == [SpreadIn(m, L, f, [p \in L |-> -d.num[p]]) EXCEPT ![j] = d.den]

Enters(m, sg, L, f, d, j) ==
  Placed(m, sg, L, f, d.num) /\ d.den \in Int /\ j \in m.cols /\ \A p \in L : f[p] # j
Pulled(w, u, L, f) == \A p \in L : w[p] = u[f[p]]

\* What it is worth: the entering column less the basic columns it replaces.
LEMMA RayWeighed ==
  ASSUME NEW m, NEW sg, NEW L, NEW f, NEW d, NEW j, Enters(m, sg, L, f, d, j),
         NEW u, AllInt(u, m.cols), NEW w, Pulled(w, u, L, f)
  PROVE  Pairing(u, RayIn(m, L, f, d, j), m.cols) = u[j] * d.den - Pairing(w, d.num, L)
<1> DEFINE n == [p \in L |-> -d.num[p]]
           S == SpreadIn(m, L, f, n)
           R == RayIn(m, L, f, d, j)
           g == [k \in m.cols |-> u[k] * S[k]]
           h == [k \in m.cols |-> u[k] * R[k]]
           e == [p \in L |-> u[f[p]] * d.num[p]]
           en == [p \in L |-> u[f[p]] * n[p]]
<1>0. Placed(m, sg, L, f, d.num) /\ d.den \in Int /\ j \in m.cols /\ \A p \in L : f[p] # j
  BY DEF Enters
<1>1. IsFiniteSet(L) /\ IsFiniteSet(m.cols)
  BY <1>0, BasisSystem DEF Placed, Names, Rows, Numbered, LinearModel
<1>2. Placed(m, sg, L, f, n)
  BY <1>0 DEF Placed, AllInt
<1>3. S \in [m.cols -> Int] /\ S[j] = 0
  BY <1>0, <1>2, SpreadType
<1>4. R[j] = d.den /\ \A k \in m.cols \ {j} : R[k] = S[k]
  <2>1. R = [S EXCEPT ![j] = d.den]
    BY DEF RayIn
  <2> HIDE DEF R, S
  <2> QED
    BY <1>0, <1>3, <2>1
<1>5. Total(g, m.cols) = Total(en, L)
  BY <1>2, SpreadWeighed
<1>6. \A p \in L : en[p] = -1 * e[p] /\ e[p] \in Int
  <2> SUFFICES ASSUME NEW p \in L PROVE en[p] = -1 * e[p] /\ e[p] \in Int
    OBVIOUS
  <2>1. f[p] \in m.cols /\ d.num[p] \in Int /\ u[f[p]] \in Int
    BY <1>0 DEF Placed, AllInt
  <2>2. PICK U \in Int, D \in Int : U = u[f[p]] /\ D = d.num[p]
    BY <2>1
  <2>3. en[p] = U * (-D) /\ e[p] = U * D
    BY <2>2
  <2>4. U * (-D) = -1 * (U * D) /\ U * D \in Int
    BY <2>2
  <2> QED
    BY <2>3, <2>4
<1>7. g[j] = 0 /\ h[j] = u[j] * d.den /\ \A k \in m.cols \ {j} : h[k] = g[k]
  <2>1. u[j] \in Int
    BY <1>0 DEF AllInt
  <2> HIDE DEF S, R
  <2> QED
    BY <1>0, <1>3, <1>4, <2>1
<1>8. AllInt(g, m.cols)
  <2> HIDE DEF S
  <2> QED
    BY <1>3 DEF AllInt
<1> HIDE DEF S, R, g, h, e, en, n
<1>9. AllInt(h, m.cols)
  <2>1. u[j] * d.den \in Int
    BY <1>0 DEF AllInt
  <2>2. ASSUME NEW k \in m.cols PROVE h[k] \in Int
    BY <1>7, <1>8, <2>1 DEF AllInt
  <2> QED
    BY <2>2 DEF AllInt
<1>10. Total(h, m.cols) = h[j] + Total(h, m.cols \ {j}) /\ Total(g, m.cols) = g[j] + Total(g, m.cols \ {j})
  BY <1>0, <1>1, <1>8, <1>9, TotalRemove
<1>11. Total(h, m.cols \ {j}) = Total(g, m.cols \ {j}) /\ Total(g, m.cols \ {j}) \in Int
  <2>1. IsFiniteSet(m.cols \ {j}) /\ AllInt(h, m.cols \ {j}) /\ AllInt(g, m.cols \ {j})
    BY <1>1, <1>8, <1>9, FS_RemoveElement DEF AllInt
  <2> QED
    BY <1>7, <2>1, TotalEqual, TotalType
<1>12. AllInt(e, L)
  BY <1>6 DEF AllInt
<1>13. Total(en, L) = -1 * Total(e, L) /\ Total(e, L) \in Int
  <2>1. PICK K \in Int : K = -1
    OBVIOUS
  <2>2. \A p \in L : en[p] = K * e[p]
    BY <1>6, <2>1
  <2>3. Total(en, L) = K * Total(e, L) /\ Total(e, L) \in Int
    BY <1>1, <1>12, <2>2, TotalMultiple, TotalType
  <2> QED
    BY <2>1, <2>3
<1>14. u[j] * d.den \in Int
  BY <1>0 DEF AllInt
<1>15. Total(h, m.cols) = u[j] * d.den - Total(e, L)
  <2>1. PICK A \in Int, B \in Int, C \in Int : A = u[j] * d.den /\ B = Total(g, m.cols \ {j}) /\ C = Total(e, L)
    BY <1>11, <1>13, <1>14
  <2>2. Total(h, m.cols) = A + B
    BY <1>7, <1>10, <1>11, <2>1
  <2>3. 0 + B = -1 * C
    BY <1>5, <1>7, <1>10, <1>13, <2>1
  <2>4. A + B = A - C
    BY <2>1, <2>3
  <2> QED
    BY <2>1, <2>2, <2>4
<1>16. [p \in L |-> u[f[p]] * d.num[p]] = [p \in L |-> w[p] * d.num[p]]
  BY DEF Pulled
<1> QED
  BY <1>15, <1>16 DEF h, e, R, Pairing

\* The direction of an entering column satisfies the rows without right-hand sides,
LEMMA RayRows ==
  ASSUME NEW m, NEW sg, NEW L, NEW f, ModelBasis(m, sg, L, f), ImpliedIn(m, L),
         NEW j \in m.cols, \A p \in L : f[p] # j,
         NEW d, d = PointIn(m, sg, L, f, ColumnIn(m, sg, j)), \A p \in L : d.num[p] <= 0
  PROVE  LET D == RayIn(m, L, f, d, j)
         IN  /\ D \in [m.cols -> Int] /\ Nonnegative(m, D)
             /\ \A i \in m.rows : RowValue(m, i, D) = 0
<1> DEFINE n == [p \in L |-> -d.num[p]]
           S == SpreadIn(m, L, f, n)
           D == RayIn(m, L, f, d, j)
<1>1. Rows(m, sg, L) /\ LinearModel(m) /\ ~ Singular(MatrixIn(m, sg, L, f), L)
  BY DEF ModelBasis, Rows, Numbered
<1>2. AllInt(ColumnIn(m, sg, j), L)
  BY <1>1, BasisSystem
<1>3. d.den \in Nat \ {0} /\ AllInt(d.num, L) /\ Solves(MatrixIn(m, sg, L, f), L, d.num, ColumnIn(m, sg, j), d.den)
  BY <1>1, <1>2, BasisPoint
<1>4. Placed(m, sg, L, f, d.num)
  BY <1>1, <1>3 DEF Placed, ModelBasis
<1>5. Placed(m, sg, L, f, n) /\ \A p \in L : n[p] >= 0
  <2>1. \A p \in L : d.num[p] \in Int
    BY <1>3 DEF AllInt
  <2> QED
    BY <1>4, <2>1 DEF Placed, AllInt
<1>6. S \in [m.cols -> Int] /\ \A k \in m.cols : S[k] >= 0
  BY <1>5, SpreadType
<1>7. D = [S EXCEPT ![j] = d.den]
  BY DEF RayIn
<1>8. D \in [m.cols -> Int] /\ \A k \in m.cols : D[k] >= 0
  <2> HIDE DEF S, D
  <2> QED
    BY <1>3, <1>6, <1>7
<1>9. ASSUME NEW i \in L PROVE RowValue(m, i, D) = 0 * m.b[i]
  <2>1. i \in m.rows /\ AllInt(m.a[i], m.cols) /\ m.b[i] \in Int
    BY <1>1 DEF Rows, LinearModel, AllInt
  <2> DEFINE s == [k \in L |-> m.a[k][j]]
             e == Total([p \in L |-> m.a[i][f[p]] * d.num[p]], L)
  <2>2. \A k \in L : s[k] \in Int /\ ColumnIn(m, sg, j)[k] = sg[k] * s[k]
    BY <1>1 DEF Rows, LinearModel, ColumnIn
  <2> HIDE DEF s
  <2>3. RowValue(m, i, SpreadIn(m, L, f, d.num)) = d.den * s[i]
    BY <1>3, <1>4, <2>2, SpreadSolves
  <2>4. RowValue(m, i, SpreadIn(m, L, f, d.num)) = e
    BY <1>4, <2>1, SpreadWeighed DEF RowValue
  <2>5. d.den \in Int
    BY <1>3
  <2>6. RowValue(m, i, D) = m.a[i][j] * d.den - e
    <3> DEFINE w == [p \in L |-> m.a[i][f[p]]]
    <3>1. \A p \in L : w[p] = m.a[i][f[p]]
      OBVIOUS
    <3>2. e = Pairing(w, d.num, L)
      <4>1. [p \in L |-> m.a[i][f[p]] * d.num[p]] = [p \in L |-> w[p] * d.num[p]]
        OBVIOUS
      <4> QED
        BY <4>1 DEF Pairing
    <3> HIDE DEF w, e
    <3>3. Pairing(m.a[i], D, m.cols) = m.a[i][j] * d.den - Pairing(w, d.num, L)
      <4>1. Pulled(w, m.a[i], L, f)
        BY <3>1 DEF Pulled
      <4>2. Enters(m, sg, L, f, d, j)
        BY <1>4, <2>5 DEF Enters
      <4> QED
        BY <2>1, <4>1, <4>2, RayWeighed
    <3> HIDE DEF D
    <3>4. RowValue(m, i, D) = Pairing(m.a[i], D, m.cols)
      BY DEF RowValue, Pairing
    <3> QED
      BY <3>2, <3>3, <3>4
  <2> HIDE DEF e, D
  <2>7. PICK A \in Int, B \in Int, C \in Int : A = m.a[i][j] /\ B = d.den /\ C = m.b[i]
    BY <1>3, <2>1 DEF AllInt
  <2>8. e = B * A /\ RowValue(m, i, D) = A * B - e
    BY <2>3, <2>4, <2>6, <2>7 DEF s
  <2>9. A * B = B * A /\ A * B \in Int /\ 0 * C = 0
    BY <2>7
  <2> QED
    BY <2>7, <2>8, <2>9
<1> HIDE DEF D
<1>10. \A i \in m.rows : RowValue(m, i, D) = 0 * m.b[i]
  BY <1>8, <1>9 DEF ImpliedIn
<1>11. \A i \in m.rows : 0 * m.b[i] = 0
  BY <1>1 DEF LinearModel
<1> QED
  BY <1>8, <1>10, <1>11 DEF D, Nonnegative

\* and its cost is the reduced cost of the column.
LEMMA RayCost ==
  ASSUME NEW m, NEW sg, NEW L, NEW f, ModelBasis(m, sg, L, f),
         NEW y, y = PricesIn(m, sg, L, f, CostsIn(m, 2, L, f)),
         NEW j \in m.cols, \A p \in L : f[p] # j,
         NEW d, d = PointIn(m, sg, L, f, ColumnIn(m, sg, j))
  PROVE  CostOf(m, RayIn(m, L, f, d, j)) = PricedIn(m, sg, L, 2, j, y)
<1> DEFINE w == CostsIn(m, 2, L, f)
<1>1. Rows(m, sg, L) /\ Numbered(m) /\ LinearModel(m) /\ ~ Singular(MatrixIn(m, sg, L, f), L)
  BY DEF ModelBasis, Rows, Numbered
<1>2. AllInt(ColumnIn(m, sg, j), L) /\ AllInt(w, L)
  BY <1>1, BasisSystem, CostType
<1>3. d.den \in Nat \ {0} /\ AllInt(d.num, L)
  BY <1>1, <1>2, BasisPoint
<1>4. Placed(m, sg, L, f, d.num) /\ d.den \in Int
  BY <1>1, <1>3 DEF Placed, ModelBasis
<1>5. \A p \in L : w[p] = m.c[f[p]]
  BY DEF CostsIn, CostIn, ModelBasis
<1>6. y = PricesIn(m, sg, L, f, w)
  OBVIOUS
<1> HIDE DEF w
<1>7. y.den = d.den /\ Pairing(w, d.num, L) = Pairing(ColumnIn(m, sg, j), y.num, L)
  BY <1>1, <1>2, <1>6, BasisPrices
<1>8. AllInt(m.c, m.cols)
  BY <1>1 DEF LinearModel, AllInt
<1>9. CostOf(m, RayIn(m, L, f, d, j)) = m.c[j] * d.den - Pairing(w, d.num, L)
  <2>1. Pairing(m.c, RayIn(m, L, f, d, j), m.cols) = m.c[j] * d.den - Pairing(w, d.num, L)
    <3>1. Pulled(w, m.c, L, f)
      BY <1>5 DEF Pulled
    <3>2. Enters(m, sg, L, f, d, j)
      BY <1>4 DEF Enters
    <3> QED
      BY <1>8, <3>1, <3>2, RayWeighed
  <2> DEFINE D == RayIn(m, L, f, d, j)
  <2> HIDE DEF D
  <2>2. CostOf(m, D) = Pairing(m.c, D, m.cols)
    BY DEF CostOf, Pairing
  <2> QED
    BY <2>1, <2>2 DEF D
<1>11. PricedIn(m, sg, L, 2, j, y) = m.c[j] * y.den - Pairing(ColumnIn(m, sg, j), y.num, L)
  BY DEF PricedIn, Pairing, CostIn
<1> QED
  BY <1>7, <1>9, <1>11

(***************************************************************************)
(* An entering column that no basic variable blocks makes a ray the        *)
(* verifier accepts.                                                       *)
(***************************************************************************)
THEOREM RayAccepted ==
  ASSUME NEW m, NEW sg, NEW L, NEW f, ModelBasis(m, sg, L, f), ImpliedIn(m, L),
         NEW x, x = PointIn(m, sg, L, f, RhsIn(m, sg)), \A p \in L : x.num[p] >= 0,
         NEW y, y = PricesIn(m, sg, L, f, CostsIn(m, 2, L, f)),
         NEW j \in m.cols, \A p \in L : f[p] # j, PricedIn(m, sg, L, 2, j, y) < 0,
         NEW d, d = PointIn(m, sg, L, f, ColumnIn(m, sg, j)), \A p \in L : d.num[p] <= 0
  PROVE  /\ x.den \in Nat \ {0}
         /\ RayWitness(Scaled(m, x.den), SpreadIn(m, L, f, x.num), RayIn(m, L, f, d, j))
<1> DEFINE X == SpreadIn(m, L, f, x.num)
           D == RayIn(m, L, f, d, j)
           M == Scaled(m, x.den)
<1>1. ModelRecord(m) /\ LinearModel(m)
  BY DEF ModelBasis, Rows, Numbered
<1>2. x.den \in Nat \ {0} /\ X \in [m.cols -> Int] /\ Nonnegative(m, X)
      /\ \A i \in m.rows : RowValue(m, i, X) = x.den * m.b[i]
  BY PointAccepted
<1>3. D \in [m.cols -> Int] /\ Nonnegative(m, D) /\ \A i \in m.rows : RowValue(m, i, D) = 0
  BY RayRows
<1>4. CostOf(m, D) < 0
  BY RayCost
<1> HIDE DEF X, D
<1>5. /\ M.rows = m.rows /\ M.cols = m.cols
      /\ \A i \in m.rows : M.b[i] = x.den * m.b[i]
  BY <1>1, ScaledFields
<1>6. ColumnVector(m, X) /\ ColumnVector(m, D) /\ RowVector(m, [i \in m.rows |-> 0])
  BY <1>2, <1>3 DEF ColumnVector, RowVector, AllInt
<1>7. /\ \A i \in m.rows : RowValue(M, i, X) = RowValue(m, i, X) /\ RowValue(M, i, D) = RowValue(m, i, D)
      /\ CostOf(M, D) = x.den * CostOf(m, D)
  BY <1>1, <1>2, <1>6, ScaledSums
<1>8. CostOf(m, D) \in Int
  BY <1>1, <1>6, ValuesAreIntegers
<1> HIDE DEF M
<1>9. CostOf(M, D) < 0
  <2>1. PICK c \in Int, n \in Nat \ {0} : c = CostOf(m, D) /\ n = x.den
    BY <1>2, <1>8
  <2>2. n * c < 0
    BY <1>4, <2>1, SignOfMultiple
  <2> QED
    BY <1>7, <2>1, <2>2
<1>10. RowsHold(M, X) /\ Nonnegative(M, X) /\ Nonnegative(M, D) /\ \A i \in M.rows : RowValue(M, i, D) = 0
  BY <1>2, <1>3, <1>5, <1>7 DEF RowsHold, Nonnegative
<1>11. ForColumns(M, X) /\ ForColumns(M, D)
  BY <1>2, <1>3, <1>5 DEF ForColumns
<1>12. RayWitness(M, X, D)
  BY <1>9, <1>10, <1>11 DEF RayWitness, PrimalFeasible
<1> QED
  BY <1>2, <1>12 DEF M, X, D

-----------------------------------------------------------------------------
IsCombined(z, a, x, b, y, N) == \A k \in N : z[k] = a * x[k] + b * y[k]
\* A product with a combination of vectors,
LEMMA PairingCombined ==
  ASSUME NEW N, Names(N), NEW u, AllInt(u, N), NEW x, AllInt(x, N), NEW y, AllInt(y, N),
         NEW a \in Int, NEW b \in Int, NEW z, IsCombined(z, a, x, b, y, N)
  PROVE  AllInt(z, N) /\ Pairing(u, z, N) = a * Pairing(u, x, N) + b * Pairing(u, y, N)
<1> DEFINE ux == [k \in N |-> u[k] * x[k]]
           uy == [k \in N |-> u[k] * y[k]]
           uz == [k \in N |-> u[k] * z[k]]
           ax == [k \in N |-> a * ux[k]]
           by == [k \in N |-> b * uy[k]]
<1>1. ASSUME NEW k \in N
      PROVE  z[k] \in Int /\ ux[k] \in Int /\ uy[k] \in Int /\ ax[k] \in Int /\ by[k] \in Int /\ uz[k] = ax[k] + by[k]
  <2>1. PICK U \in Int, X \in Int, Y \in Int : U = u[k] /\ X = x[k] /\ Y = y[k]
    BY DEF AllInt
  <2>0. z[k] = a * X + b * Y
    BY <2>1 DEF IsCombined
  <2>2. /\ ux[k] = U * X /\ uy[k] = U * Y /\ z[k] = a * X + b * Y
        /\ uz[k] = U * (a * X + b * Y) /\ ax[k] = a * (U * X) /\ by[k] = b * (U * Y)
    BY <2>0, <2>1
  <2>3. U * (a * X + b * Y) = a * (U * X) + b * (U * Y)
    BY <2>1
  <2>4. U * X \in Int /\ U * Y \in Int /\ a * X + b * Y \in Int /\ a * (U * X) \in Int /\ b * (U * Y) \in Int
    BY <2>1
  <2> QED
    BY <2>2, <2>3, <2>4
<1>2. IsFiniteSet(N) /\ AllInt(z, N) /\ AllInt(ux, N) /\ AllInt(uy, N) /\ AllInt(ax, N) /\ AllInt(by, N)
  <2> HIDE DEF ux, uy, uz, ax, by
  <2> QED
    BY <1>1 DEF Names, AllInt
<1>3. (\A k \in N : ax[k] = a * ux[k]) /\ (\A k \in N : by[k] = b * uy[k])
  OBVIOUS
<1> HIDE DEF ux, uy, uz, ax, by
<1>4. Total(uz, N) = Total(ax, N) + Total(by, N)
  BY <1>1, <1>2, TotalSum
<1>5. Total(ax, N) = a * Total(ux, N) /\ Total(by, N) = b * Total(uy, N)
  BY <1>2, <1>3, TotalMultiple
<1> QED
  BY <1>2, <1>4, <1>5 DEF ux, uy, uz, Pairing

\* and with a negated one.
LEMMA PairingNegated ==
  ASSUME NEW N, Names(N), NEW u, AllInt(u, N), NEW x, AllInt(x, N), NEW z, \A k \in N : z[k] = -x[k]
  PROVE  AllInt(z, N) /\ Pairing(u, x, N) \in Int /\ Pairing(u, z, N) = -Pairing(u, x, N)
<1>1. PICK a \in Int, b \in Int : a = -1 /\ b = 0
  OBVIOUS
<1>2. IsCombined(z, a, x, b, x, N)
  BY <1>1 DEF AllInt, IsCombined
<1>3. AllInt(z, N) /\ Pairing(u, z, N) = a * Pairing(u, x, N) + b * Pairing(u, x, N)
  BY <1>2, PairingCombined
<1>4. Pairing(u, x, N) \in Int
  BY PairingType
<1> QED
  BY <1>1, <1>3, <1>4

-----------------------------------------------------------------------------
\* Row p of the tableau, from the prices of a unit vector.
TableauIn(m, sg, L, f, p, k) ==
  Pairing(ColumnIn(m, sg, k), PricesIn(m, sg, L, f, UnitAt(p, L)).num, L)

\* It is the entry of each column at p, and for basic columns the unit vector.
LEMMA TableauEntry ==
  ASSUME NEW m, NEW sg, NEW L, Rows(m, sg, L), NEW f, ~ Singular(MatrixIn(m, sg, L, f), L), NEW p \in L
  PROVE  /\ \A k : /\ TableauIn(m, sg, L, f, p, k) \in Int
                   /\ TableauIn(m, sg, L, f, p, k) = PointIn(m, sg, L, f, ColumnIn(m, sg, k)).num[p]
         /\ \A q \in L : TableauIn(m, sg, L, f, p, f[q])
                           = IF q = p THEN PricesIn(m, sg, L, f, UnitAt(p, L)).den ELSE 0
         /\ Pairing(RhsIn(m, sg), PricesIn(m, sg, L, f, UnitAt(p, L)).num, L)
              = PointIn(m, sg, L, f, RhsIn(m, sg)).num[p]
<1> DEFINE e == UnitAt(p, L)
           pi == PricesIn(m, sg, L, f, e)
<1>1. Names(L) /\ AllInt(RhsIn(m, sg), L) /\ \A k : AllInt(ColumnIn(m, sg, k), L)
  BY BasisSystem
<1>2. AllInt(e, L) /\ \A q \in L : e[q] = IF q = p THEN 1 ELSE 0
  BY DEF UnitAt, AllInt
<1> HIDE DEF e
<1>3. ASSUME NEW v, AllInt(v, L)
      PROVE  Pairing(v, pi.num, L) = PointIn(m, sg, L, f, v).num[p] /\ Pairing(v, pi.num, L) \in Int
  <2> DEFINE x == PointIn(m, sg, L, f, v)
  <2>1. AllInt(x.num, L)
    BY <1>3, BasisPoint
  <2>2. Pairing(e, x.num, L) = Pairing(v, pi.num, L)
    BY <1>2, <1>3, BasisPrices
  <2> HIDE DEF x, pi
  <2>3. Pairing(e, x.num, L) = x.num[p]
    BY <1>1, <2>1, PairingUnit DEF e
  <2>4. x.num[p] \in Int
    BY <2>1 DEF AllInt
  <2> QED
    BY <2>2, <2>3, <2>4 DEF x
<1>4. \A q \in L : Pairing(ColumnIn(m, sg, f[q]), pi.num, L) = e[q] * pi.den /\ pi.den \in Nat
  BY <1>1, <1>2, BasisPrices
<1> HIDE DEF pi
<1>5. \A q \in L : Pairing(ColumnIn(m, sg, f[q]), pi.num, L) = IF q = p THEN pi.den ELSE 0
  BY <1>2, <1>4
<1>6. \A k : TableauIn(m, sg, L, f, p, k) = Pairing(ColumnIn(m, sg, k), pi.num, L)
  BY DEF TableauIn, pi, e
<1> QED
  BY <1>1, <1>3, <1>5, <1>6 DEF pi, e

(***************************************************************************)
(* A row of the tableau with a negative right-hand side and no negative    *)
(* entry makes a Farkas vector the verifier accepts.                       *)
(***************************************************************************)
THEOREM DualFarkasAccepted ==
  ASSUME NEW m, NEW sg, NEW f, ModelBasis(m, sg, m.rows, f), \A i \in m.rows : sg[i] = 1,
         NEW p \in m.rows, PointIn(m, sg, m.rows, f, RhsIn(m, sg)).num[p] < 0,
         \A j \in m.cols : (\A q \in m.rows : f[q] # j) => TableauIn(m, sg, m.rows, f, p, j) >= 0
  PROVE  FarkasWitness(m, [i \in m.rows |-> -PricesIn(m, sg, m.rows, f, UnitAt(p, m.rows)).num[i]])
<1> DEFINE L == m.rows
           pi == PricesIn(m, sg, L, f, UnitAt(p, L))
           z == [i \in m.rows |-> -pi.num[i]]
<1>1. Rows(m, sg, L) /\ ~ Singular(MatrixIn(m, sg, L, f), L)
  BY DEF ModelBasis
<1>2. Names(L) /\ AllInt(RhsIn(m, sg), L) /\ (\A k : AllInt(ColumnIn(m, sg, k), L)) /\ AllInt(UnitAt(p, L), L)
  BY <1>1, BasisSystem DEF UnitAt, AllInt
<1>3. pi.den \in Nat \ {0} /\ AllInt(pi.num, L)
  BY <1>1, <1>2, BasisPrices
<1>4. \A i \in L : z[i] = -pi.num[i]
  OBVIOUS
<1>5. Pairing(RhsIn(m, sg), pi.num, L) < 0
  BY <1>1, TableauEntry
<1>6. ASSUME NEW j \in m.cols PROVE Pairing(ColumnIn(m, sg, j), pi.num, L) >= 0
  <2>1. TableauIn(m, sg, L, f, p, j) = Pairing(ColumnIn(m, sg, j), pi.num, L)
    BY DEF TableauIn
  <2>2. CASE \A q \in L : f[q] # j
    BY <2>1, <2>2
  <2>3. CASE \E q \in L : f[q] = j
    <3>1. PICK q \in L : f[q] = j
      BY <2>3
    <3>2. TableauIn(m, sg, L, f, p, f[q]) = IF q = p THEN pi.den ELSE 0
      BY <1>1, TableauEntry
    <3> HIDE DEF pi
    <3> QED
      BY <1>3, <2>1, <3>1, <3>2
  <2> QED
    BY <2>2, <2>3
<1> HIDE DEF pi, z
<1>7. AllInt(z, L) /\ Pairing(RhsIn(m, sg), z, L) = -Pairing(RhsIn(m, sg), pi.num, L)
      /\ Pairing(RhsIn(m, sg), pi.num, L) \in Int
  BY <1>2, <1>3, <1>4, PairingNegated
<1>8. \A j : Pairing(ColumnIn(m, sg, j), z, L) = -Pairing(ColumnIn(m, sg, j), pi.num, L)
             /\ Pairing(ColumnIn(m, sg, j), pi.num, L) \in Int
  BY <1>2, <1>3, <1>4, PairingNegated
<1>9. DualIn(m, sg, L, z) = z
  <2>1. \A i \in m.rows : sg[i] * z[i] = z[i]
    BY <1>7 DEF AllInt
  <2>2. DualIn(m, sg, L, z) = [i \in m.rows |-> z[i]]
    BY <2>1 DEF DualIn
  <2>3. z = [i \in m.rows |-> z[i]]
    BY DEF z
  <2> QED
    BY <2>2, <2>3
<1>10. /\ z \in [m.rows -> Int]
       /\ \A j \in m.cols : ColumnValue(m, j, z) = Pairing(ColumnIn(m, sg, j), z, L)
       /\ RhsOf(m, z) = Pairing(RhsIn(m, sg), z, L)
  BY <1>1, <1>7, <1>9, DualColumns
<1>11. RhsOf(m, z) > 0
  BY <1>5, <1>7, <1>10
<1>12. \A j \in m.cols : ColumnValue(m, j, z) <= 0
  BY <1>6, <1>8, <1>10
<1>13. FarkasWitness(m, z)
  BY <1>10, <1>11, <1>12 DEF FarkasWitness, ForRows
<1> QED
  BY <1>13 DEF z, pi

-----------------------------------------------------------------------------
\* The dual pivot.
\* A pivot of the dual method: the ratios of the prices before and after.
PricesOf(m, sg, L, f) == PricesIn(m, sg, L, f, CostsIn(m, 2, L, f))
PriceAt(m, sg, L, f, k) == PricedIn(m, sg, L, 2, k, PricesOf(m, sg, L, f))
DualFeasibleIn(m, sg, L, f) == \A k \in m.cols : PriceAt(m, sg, L, f, k) >= 0
LeastRatio(m, sg, L, f, p, j) ==
  /\ j \in m.cols /\ TableauIn(m, sg, L, f, p, j) < 0
  /\ \A k \in m.cols : (\A q \in L : f[q] # k) /\ TableauIn(m, sg, L, f, p, k) < 0 =>
       PriceAt(m, sg, L, f, j) * TableauIn(m, sg, L, f, p, k) >= PriceAt(m, sg, L, f, k) * TableauIn(m, sg, L, f, p, j)
Margin(m, sg, L, f, p, j, k) ==
  PriceAt(m, sg, L, f, j) * TableauIn(m, sg, L, f, p, k) - TableauIn(m, sg, L, f, p, j) * PriceAt(m, sg, L, f, k)

\* Reduced costs over their denominator.
LEMMA PriceType ==
  ASSUME NEW m, NEW sg, NEW L, NEW f, ModelBasis(m, sg, L, f)
  PROVE  LET y == PricesOf(m, sg, L, f)
         IN  /\ y.den \in Nat \ {0} /\ AllInt(y.num, L)
             /\ \A v : AllInt(v, L) => y.den = PointIn(m, sg, L, f, v).den
             /\ \A k \in m.cols : /\ m.c[k] \in Int /\ Pairing(ColumnIn(m, sg, k), y.num, L) \in Int
                                  /\ PriceAt(m, sg, L, f, k) \in Int
                                  /\ PriceAt(m, sg, L, f, k) = m.c[k] * y.den - Pairing(ColumnIn(m, sg, k), y.num, L)
             /\ \A q \in L : PriceAt(m, sg, L, f, f[q]) = 0
             /\ Solves(Transposed(MatrixIn(m, sg, L, f), L), L, y.num, CostsIn(m, 2, L, f), y.den)
<1> DEFINE y == PricesOf(m, sg, L, f)
           w == CostsIn(m, 2, L, f)
<1>1. Rows(m, sg, L) /\ Numbered(m) /\ LinearModel(m) /\ ~ Singular(MatrixIn(m, sg, L, f), L)
  BY DEF ModelBasis, Rows, Numbered
<1>2. Names(L) /\ AllInt(RhsIn(m, sg), L) /\ AllInt(w, L) /\ \A k : AllInt(ColumnIn(m, sg, k), L)
  BY <1>1, BasisSystem, CostType
<1>3. y = PricesIn(m, sg, L, f, w)
  BY DEF PricesOf
<1> HIDE DEF w, y
<1>4. /\ y.den \in Nat \ {0} /\ AllInt(y.num, L)
      /\ Solves(Transposed(MatrixIn(m, sg, L, f), L), L, y.num, w, y.den)
      /\ \A v : AllInt(v, L) => y.den = PointIn(m, sg, L, f, v).den
  BY <1>1, <1>2, <1>3, BasisPrices
<1>5. ASSUME NEW k \in m.cols
      PROVE  /\ m.c[k] \in Int /\ Pairing(ColumnIn(m, sg, k), y.num, L) \in Int
             /\ PriceAt(m, sg, L, f, k) \in Int
             /\ PriceAt(m, sg, L, f, k) = m.c[k] * y.den - Pairing(ColumnIn(m, sg, k), y.num, L)
  <2>1. m.c[k] \in Int /\ Pairing(ColumnIn(m, sg, k), y.num, L) \in Int
    BY <1>1, <1>2, <1>4, PairingType DEF LinearModel
  <2>2. PriceAt(m, sg, L, f, k) = m.c[k] * y.den - Pairing(ColumnIn(m, sg, k), y.num, L)
    BY DEF PriceAt, PricedIn, Pairing, CostIn, y
  <2>3. m.c[k] * y.den - Pairing(ColumnIn(m, sg, k), y.num, L) \in Int
    BY <1>4, <2>1
  <2> QED
    BY <2>1, <2>2, <2>3
<1>6. \A q \in L : PriceAt(m, sg, L, f, f[q]) = 0
  BY <1>1, BasicPriced DEF PriceAt, PricesOf
<1> QED
  BY <1>4, <1>5, <1>6 DEF y, w

\* The ratio test leaves no margin negative.
LEMMA MarginSign ==
  ASSUME NEW m, NEW sg, NEW L, NEW f, ModelBasis(m, sg, L, f), DualFeasibleIn(m, sg, L, f),
         NEW p \in L, NEW j, LeastRatio(m, sg, L, f, p, j), NEW k \in m.cols
  PROVE  Margin(m, sg, L, f, p, j, k) \in Int /\ Margin(m, sg, L, f, p, j, k) >= 0
<1>1. Rows(m, sg, L) /\ ~ Singular(MatrixIn(m, sg, L, f), L) /\ j \in m.cols
  BY DEF ModelBasis, LeastRatio
<1>2. PriceAt(m, sg, L, f, j) \in Int /\ PriceAt(m, sg, L, f, k) \in Int
      /\ PriceAt(m, sg, L, f, j) >= 0 /\ PriceAt(m, sg, L, f, k) >= 0
  BY <1>1, PriceType DEF DualFeasibleIn
<1>3. TableauIn(m, sg, L, f, p, j) \in Int /\ TableauIn(m, sg, L, f, p, k) \in Int
      /\ TableauIn(m, sg, L, f, p, j) < 0
  BY <1>1, TableauEntry DEF LeastRatio
<1>4. PICK r \in Nat, s \in Nat, a \in Int, b \in Int :
        /\ r = PriceAt(m, sg, L, f, j) /\ s = PriceAt(m, sg, L, f, k)
        /\ a = TableauIn(m, sg, L, f, p, j) /\ b = TableauIn(m, sg, L, f, p, k)
  <2>1. \A z \in Int : z >= 0 => z \in Nat
    OBVIOUS
  <2> QED
    BY <1>2, <1>3, <2>1
<1>5. Margin(m, sg, L, f, p, j, k) = r * b - a * s /\ r * b - a * s \in Int
  BY <1>4 DEF Margin
<1>6. a < 0
  BY <1>3, <1>4
<1>7. b >= 0 => r * b - a * s >= 0
  <2>1. b >= 0 => r * b >= 0
    BY <1>4
  <2>2. a * s <= 0
    BY <1>4, <1>6
  <2>3. r * b \in Int /\ a * s \in Int
    BY <1>4
  <2> QED
    BY <2>1, <2>2, <2>3
<1>8. CASE \E q \in L : f[q] = k
  <2>1. PICK q \in L : f[q] = k
    BY <1>8
  <2>2. TableauIn(m, sg, L, f, p, f[q]) = IF q = p THEN PricesIn(m, sg, L, f, UnitAt(p, L)).den ELSE 0
    BY <1>1, TableauEntry
  <2>3. AllInt(UnitAt(p, L), L) /\ AllInt(RhsIn(m, sg), L)
    BY <1>1, BasisSystem DEF UnitAt, AllInt
  <2>4. PricesIn(m, sg, L, f, UnitAt(p, L)).den \in Nat
    BY <1>1, <2>3, BasisPrices
  <2>5. b >= 0
    BY <1>4, <2>1, <2>2, <2>4
  <2> QED
    BY <1>5, <1>7, <2>5
<1>9. CASE (\A q \in L : f[q] # k) /\ b < 0
  <2>1. r * b >= s * a
    BY <1>4, <1>9 DEF LeastRatio
  <2>2. s * a = a * s /\ r * b \in Int /\ a * s \in Int
    BY <1>4
  <2> QED
    BY <1>5, <2>1, <2>2
<1>10. CASE b >= 0
  BY <1>5, <1>7, <1>10
<1> QED
  BY <1>4, <1>8, <1>9, <1>10

\* A pivot at an entry that is not zero keeps the basis nonsingular.
LEMMA PivotNonsingular ==
  ASSUME NEW m, NEW sg, NEW L, Rows(m, sg, L), NEW f, ~ Singular(MatrixIn(m, sg, L, f), L),
         NEW p \in L, NEW j, PointIn(m, sg, L, f, ColumnIn(m, sg, j)).num[p] # 0,
         NEW g, EntersAt(g, f, L, p, j)
  PROVE  ~ Singular(MatrixIn(m, sg, L, g), L)
<1>1. SystemOn(MatrixIn(m, sg, L, f), L, ColumnIn(m, sg, j))
  BY BasisSystem
<1>2. Solution(MatrixIn(m, sg, L, f), L, ColumnIn(m, sg, j)).num[p] # 0
  BY DEF PointIn
<1>3. ~ Singular(PutAt(MatrixIn(m, sg, L, f), L, p, ColumnIn(m, sg, j)), L)
  BY <1>1, <1>2, PivotMatrix
<1>4. MatrixIn(m, sg, L, g) = PutAt(MatrixIn(m, sg, L, f), L, p, ColumnIn(m, sg, j))
  BY PivotPuts
<1> QED
  BY <1>3, <1>4

-----------------------------------------------------------------------------
Weight(m, sg, L, f, p, j) == (-TableauIn(m, sg, L, f, p, j)) * PricesOf(m, sg, L, f).den
Mixed(m, sg, L, f, p, j) ==
  [i \in L |-> (-TableauIn(m, sg, L, f, p, j)) * PricesOf(m, sg, L, f).num[i]
                 + (-PriceAt(m, sg, L, f, j)) * PricesIn(m, sg, L, f, UnitAt(p, L)).num[i]]

\* The prices mixed with the pivot row leave each column its margin.
LEMMA MixedPrices ==
  ASSUME NEW m, NEW sg, NEW L, NEW f, ModelBasis(m, sg, L, f), NEW p \in L, NEW j \in m.cols
  PROVE  /\ AllInt(Mixed(m, sg, L, f, p, j), L) /\ Weight(m, sg, L, f, p, j) \in Int
         /\ \A k \in m.cols : Pairing(ColumnIn(m, sg, k), Mixed(m, sg, L, f, p, j), L)
              = m.c[k] * Weight(m, sg, L, f, p, j) - Margin(m, sg, L, f, p, j, k)
<1> DEFINE z == Mixed(m, sg, L, f, p, j)
           y == PricesOf(m, sg, L, f)
           pi == PricesIn(m, sg, L, f, UnitAt(p, L))
<1>1. Rows(m, sg, L) /\ ~ Singular(MatrixIn(m, sg, L, f), L)
  BY DEF ModelBasis
<1>2. Names(L) /\ AllInt(RhsIn(m, sg), L) /\ \A k : AllInt(ColumnIn(m, sg, k), L)
  BY <1>1, BasisSystem
<1>3. AllInt(UnitAt(p, L), L)
  BY DEF UnitAt, AllInt
<1>4. AllInt(pi.num, L)
  BY <1>1, <1>2, <1>3, BasisPrices
<1>5. y.den \in Int /\ AllInt(y.num, L)
      /\ \A k \in m.cols : /\ m.c[k] \in Int /\ PriceAt(m, sg, L, f, k) \in Int
                           /\ Pairing(ColumnIn(m, sg, k), y.num, L) \in Int
                           /\ PriceAt(m, sg, L, f, k) = m.c[k] * y.den - Pairing(ColumnIn(m, sg, k), y.num, L)
  BY PriceType
<1>6. \A k : TableauIn(m, sg, L, f, p, k) \in Int /\ TableauIn(m, sg, L, f, p, k) = Pairing(ColumnIn(m, sg, k), pi.num, L)
  BY <1>1, TableauEntry DEF TableauIn
<1>7. PICK a \in Int, r \in Int, D \in Int :
        a = TableauIn(m, sg, L, f, p, j) /\ r = PriceAt(m, sg, L, f, j) /\ D = y.den
  BY <1>5, <1>6
<1>8. PICK na \in Int, nr \in Int : na = -a /\ nr = -r
  BY <1>7
<1>9. IsCombined(z, na, y.num, nr, pi.num, L)
  BY <1>7, <1>8 DEF IsCombined, Mixed
<1>10. Weight(m, sg, L, f, p, j) = na * D
  BY <1>7, <1>8 DEF Weight
<1> HIDE DEF z, y, pi
<1>11. ASSUME NEW k \in m.cols
       PROVE  AllInt(z, L) /\ Pairing(ColumnIn(m, sg, k), z, L)
                = na * Pairing(ColumnIn(m, sg, k), y.num, L) + nr * Pairing(ColumnIn(m, sg, k), pi.num, L)
  <2>1. AllInt(ColumnIn(m, sg, k), L)
    BY <1>2
  <2> QED
    BY <2>1, <1>2, <1>4, <1>5, <1>9, PairingCombined
<1>12. ASSUME NEW k \in m.cols
       PROVE  Pairing(ColumnIn(m, sg, k), z, L)
                = m.c[k] * Weight(m, sg, L, f, p, j) - Margin(m, sg, L, f, p, j, k)
  <2>1. PICK c \in Int, s \in Int, b \in Int, u \in Int :
          c = m.c[k] /\ s = PriceAt(m, sg, L, f, k) /\ b = TableauIn(m, sg, L, f, p, k)
          /\ u = Pairing(ColumnIn(m, sg, k), y.num, L)
    BY <1>5, <1>6
  <2>2. s = c * D - u
    BY <1>5, <1>7, <2>1
  <2>3. Pairing(ColumnIn(m, sg, k), z, L) = na * u + nr * b
    BY <1>6, <1>11, <2>1
  <2>4. Margin(m, sg, L, f, p, j, k) = r * b - a * s
    BY <1>7, <2>1 DEF Margin
  <2>5. u = c * D - s
    BY <2>2
  <2>6. na * u + nr * b = c * (na * D) - (r * b - a * s)
    <3>1. na * u = na * (c * D) - na * s
      BY <2>5
    <3>2. na * (c * D) = c * (na * D)
      OBVIOUS
    <3>3. na * s = -(a * s) /\ nr * b = -(r * b)
      BY <1>8
    <3>4. PICK e \in Int, g \in Int, h \in Int : e = c * (na * D) /\ g = a * s /\ h = r * b
      OBVIOUS
    <3>5. na * u = e - (-g) /\ nr * b = -h
      BY <3>1, <3>2, <3>3, <3>4
    <3> QED
      BY <3>4, <3>5
  <2> QED
    BY <2>1, <2>3, <2>4, <2>6, <1>10
<1>13. AllInt(z, L)
  BY <1>11
<1>14. na * D \in Int
  OBVIOUS
<1> QED
  BY <1>10, <1>12, <1>13, <1>14 DEF z

\* The columns of the basis after the pivot have no margin.
LEMMA BasicMargin ==
  ASSUME NEW m, NEW sg, NEW L, NEW f, ModelBasis(m, sg, L, f), NEW p \in L, NEW j \in m.cols,
         NEW g, EntersAt(g, f, L, p, j), NEW q \in L
  PROVE  g[q] \in m.cols /\ Margin(m, sg, L, f, p, j, g[q]) = 0
<1>1. Rows(m, sg, L) /\ ~ Singular(MatrixIn(m, sg, L, f), L) /\ \A t \in L : f[t] \in m.cols
  BY DEF ModelBasis
<1>2. \A k : TableauIn(m, sg, L, f, p, k) \in Int
  BY <1>1, TableauEntry
<1>3. \A k \in m.cols : PriceAt(m, sg, L, f, k) \in Int
  BY PriceType
<1>4. CASE q = p
  <2>1. g[q] = j
    BY <1>4 DEF EntersAt
  <2>2. PICK a \in Int, r \in Int : a = TableauIn(m, sg, L, f, p, j) /\ r = PriceAt(m, sg, L, f, j)
    BY <1>2, <1>3
  <2>3. Margin(m, sg, L, f, p, j, j) = r * a - a * r
    BY <2>2 DEF Margin
  <2>4. r * a - a * r = 0
    OBVIOUS
  <2> QED
    BY <2>1, <2>3, <2>4
<1>5. CASE q # p
  <2>1. g[q] = f[q] /\ f[q] \in m.cols
    BY <1>1, <1>5 DEF EntersAt
  <2>2. PriceAt(m, sg, L, f, f[q]) = 0
    BY PriceType
  <2>3. TableauIn(m, sg, L, f, p, f[q]) = 0
    BY <1>1, <1>5, TableauEntry
  <2>4. PICK a \in Int, r \in Int : a = TableauIn(m, sg, L, f, p, j) /\ r = PriceAt(m, sg, L, f, j)
    BY <1>2, <1>3
  <2>5. Margin(m, sg, L, f, p, j, f[q]) = r * 0 - a * 0
    BY <2>2, <2>3, <2>4 DEF Margin
  <2> QED
    BY <2>1, <2>5
<1> QED
  BY <1>4, <1>5

-----------------------------------------------------------------------------
\* Solutions of the transposed system are proportional to the prices.
LEMMA OnlyPrices ==
  ASSUME NEW m, NEW sg, NEW L, Rows(m, sg, L), NEW f, ~ Singular(MatrixIn(m, sg, L, f), L),
         NEW w, AllInt(w, L), NEW z, AllInt(z, L), NEW c \in Int,
         \A q \in L : Pairing(ColumnIn(m, sg, f[q]), z, L) = w[q] * c
  PROVE  \A k \in L : PricesIn(m, sg, L, f, w).den * z[k] = c * PricesIn(m, sg, L, f, w).num[k]
<1> DEFINE a == MatrixIn(m, sg, L, f)
           b == Transposed(a, L)
<1>1. SquareOn(a, L)
  BY BasisSystem
<1>2. SquareOn(b, L) /\ Determinant(b, L) = Determinant(a, L)
  BY <1>1, TransposedSquare
<1>3. ~ Singular(b, L)
  BY <1>2 DEF Singular
<1>4. SystemOn(b, L, w)
  BY <1>2 DEF SystemOn
<1>5. \A q \in L : MatrixTimes(b, L, z)[q] = Pairing(ColumnIn(m, sg, f[q]), z, L)
  BY BasisTransposed
<1>6. Solves(b, L, z, w, c)
  BY <1>5 DEF Solves
<1>7. PricesIn(m, sg, L, f, w) = Solution(b, L, w)
  BY DEF PricesIn
<1> HIDE DEF a, b
<1> QED
  BY <1>3, <1>4, <1>6, <1>7, OnlySolution

\* Proportional vectors have proportional products.
LEMMA PairingScaled ==
  ASSUME NEW N, Names(N), NEW u, AllInt(u, N), NEW x, AllInt(x, N), NEW y, AllInt(y, N),
         NEW a \in Int, NEW b \in Int, \A k \in N : a * x[k] = b * y[k]
  PROVE  a * Pairing(u, x, N) = b * Pairing(u, y, N)
<1> DEFINE z == [k \in N |-> a * x[k]]
<1>0. \A k \in N : x[k] \in Int /\ y[k] \in Int
  BY DEF AllInt
<1>1. IsCombined(z, a, x, 0, x, N)
  BY <1>0 DEF IsCombined
<1>2. IsCombined(z, b, y, 0, y, N)
  BY <1>0 DEF IsCombined
<1> HIDE DEF z
<1>3. Pairing(u, z, N) = a * Pairing(u, x, N) + 0 * Pairing(u, x, N)
  BY <1>1, PairingCombined
<1>4. Pairing(u, z, N) = b * Pairing(u, y, N) + 0 * Pairing(u, y, N)
  BY <1>2, PairingCombined
<1>5. PICK s \in Int, t \in Int : s = Pairing(u, x, N) /\ t = Pairing(u, y, N)
  BY PairingType
<1>6. a * s + 0 * s = b * t + 0 * t
  BY <1>3, <1>4, <1>5
<1>7. a * s = b * t
  BY <1>6
<1> QED
  BY <1>5, <1>7

\* A negative entry times a positive denominator.
LEMMA NegativeEntry ==
  ASSUME NEW a \in Int, a < 0, NEW D \in Nat \ {0}
  PROVE  (-a) * D \in Nat \ {0}
<1>1. -a \in Nat \ {0}
  OBVIOUS
<1>2. PICK n \in Nat \ {0} : n = -a
  BY <1>1
<1>3. n * D \in Nat /\ n * D # 0
  OBVIOUS
<1> QED
  BY <1>2, <1>3

(***************************************************************************)
(* A dual pivot on the least ratio keeps the basis nonsingular, and no     *)
(* reduced cost becomes negative.                                          *)
(***************************************************************************)
THEOREM DualPivot ==
  ASSUME NEW m, NEW sg, NEW L, NEW f, ModelBasis(m, sg, L, f), DualFeasibleIn(m, sg, L, f),
         NEW p \in L, NEW j, LeastRatio(m, sg, L, f, p, j), NEW g, EntersAt(g, f, L, p, j)
  PROVE  ModelBasis(m, sg, L, g) /\ DualFeasibleIn(m, sg, L, g)
<1>1. Rows(m, sg, L) /\ ~ Singular(MatrixIn(m, sg, L, f), L)
  BY DEF ModelBasis
<1>2. j \in m.cols /\ TableauIn(m, sg, L, f, p, j) \in Int /\ TableauIn(m, sg, L, f, p, j) < 0
  BY <1>1, TableauEntry DEF LeastRatio
<1>3. ~ Singular(MatrixIn(m, sg, L, g), L)
  <2>1. PointIn(m, sg, L, f, ColumnIn(m, sg, j)).num[p] = TableauIn(m, sg, L, f, p, j)
    BY <1>1, TableauEntry
  <2>2. PointIn(m, sg, L, f, ColumnIn(m, sg, j)).num[p] # 0
    BY <1>2, <2>1
  <2> QED
    BY <1>1, <2>2, PivotNonsingular
<1>4. \A q \in L : g[q] \in m.cols /\ Margin(m, sg, L, f, p, j, g[q]) = 0
  BY <1>2, BasicMargin
<1>5. ModelBasis(m, sg, L, g)
  BY <1>1, <1>3, <1>4 DEF ModelBasis
<1> DEFINE z == Mixed(m, sg, L, f, p, j)
           M == Weight(m, sg, L, f, p, j)
           w == CostsIn(m, 2, L, g)
           y == PricesOf(m, sg, L, g)
<1>6. M \in Nat \ {0}
  <2>1. PricesOf(m, sg, L, f).den \in Nat \ {0}
    BY PriceType
  <2>2. (-TableauIn(m, sg, L, f, p, j)) * PricesOf(m, sg, L, f).den \in Nat \ {0}
    BY <1>2, <2>1, NegativeEntry
  <2> QED
    BY <2>2 DEF Weight
<1>7. /\ AllInt(z, L)
      /\ \A k \in m.cols : Pairing(ColumnIn(m, sg, k), z, L) = m.c[k] * M - Margin(m, sg, L, f, p, j, k)
  BY <1>2, MixedPrices
<1>8. /\ y.den \in Nat \ {0} /\ AllInt(y.num, L)
      /\ \A k \in m.cols : /\ m.c[k] \in Int /\ Pairing(ColumnIn(m, sg, k), y.num, L) \in Int
                           /\ PriceAt(m, sg, L, g, k) \in Int
                           /\ PriceAt(m, sg, L, g, k) = m.c[k] * y.den - Pairing(ColumnIn(m, sg, k), y.num, L)
  BY <1>5, PriceType
<1>9. Names(L) /\ AllInt(w, L) /\ \A k : AllInt(ColumnIn(m, sg, k), L)
  <2>1. Numbered(m)
    BY <1>1 DEF Rows
  <2> QED
    BY <1>1, <2>1, BasisSystem, CostType
<1>10. y = PricesIn(m, sg, L, g, w)
  BY DEF PricesOf
<1>11. \A q \in L : w[q] = m.c[g[q]]
  BY <1>4 DEF CostsIn, CostIn
<1> HIDE DEF z, M, w, y
<1>12. \A q \in L : Pairing(ColumnIn(m, sg, g[q]), z, L) = w[q] * M
  <2> TAKE q \in L
  <2>1. Pairing(ColumnIn(m, sg, g[q]), z, L) = m.c[g[q]] * M - 0
    BY <1>4, <1>7
  <2>2. m.c[g[q]] \in Int /\ w[q] = m.c[g[q]]
    BY <1>4, <1>8, <1>11
  <2>3. PICK c \in Int : c = m.c[g[q]]
    BY <2>2
  <2>4. c * M - 0 = c * M
    BY <1>6
  <2> QED
    BY <2>1, <2>2, <2>3, <2>4
<1>13. \A k \in L : y.den * z[k] = M * y.num[k]
  <2>1. M \in Int
    BY <1>6
  <2> QED
    BY <1>1, <1>3, <1>7, <1>9, <1>10, <1>12, <2>1, OnlyPrices
<1>14. ASSUME NEW k \in m.cols
       PROVE  PriceAt(m, sg, L, g, k) >= 0
  <2>1. y.den * Pairing(ColumnIn(m, sg, k), z, L) = M * Pairing(ColumnIn(m, sg, k), y.num, L)
    <3>1. AllInt(ColumnIn(m, sg, k), L) /\ y.den \in Int /\ M \in Int
      BY <1>6, <1>8, <1>9
    <3> QED
      BY <1>7, <1>8, <1>9, <1>13, <3>1, PairingScaled
  <2>2. Margin(m, sg, L, f, p, j, k) \in Int /\ Margin(m, sg, L, f, p, j, k) >= 0
    BY MarginSign
  <2>3. PICK D \in Nat \ {0}, N \in Nat \ {0}, c \in Int, u \in Int, h \in Int, r \in Int :
          /\ D = y.den /\ N = M /\ c = m.c[k] /\ u = Pairing(ColumnIn(m, sg, k), y.num, L)
          /\ h = Margin(m, sg, L, f, p, j, k) /\ r = PriceAt(m, sg, L, g, k)
    BY <1>6, <1>8, <2>2
  <2>4. D * (c * N - h) = N * u
    BY <1>7, <2>1, <2>3
  <2>5. r = c * D - u
    BY <1>8, <2>3
  <2>6. N * r = D * h
    <3>1. N * r = N * (c * D) - N * u
      BY <2>5
    <3>2. N * (c * D) = D * (c * N)
      OBVIOUS
    <3>3. D * (c * N - h) = D * (c * N) - D * h
      OBVIOUS
    <3>4. PICK e \in Int, s \in Int, t \in Int : e = D * (c * N) /\ s = D * h /\ t = N * u
      OBVIOUS
    <3>5. e - s = t /\ N * r = e - t
      BY <2>4, <3>1, <3>2, <3>3, <3>4
    <3> QED
      BY <3>4, <3>5
  <2>7. h >= 0
    BY <2>2, <2>3
  <2>8. r >= 0
    BY <2>6, <2>7, SameSign
  <2> QED
    BY <2>3, <2>8
<1> QED
  BY <1>5, <1>14 DEF DualFeasibleIn

-----------------------------------------------------------------------------
\* The primal pivot, and the clean-up of artificials.
\* A primal pivot that passes the ratio test keeps the basis feasible.
LEMMA PrimalPivot ==
  ASSUME NEW m, NEW sg, NEW L, Rows(m, sg, L), NEW f, FeasibleIn(m, sg, L, f), NEW p \in L, NEW j,
         NEW x, x = PointIn(m, sg, L, f, RhsIn(m, sg)), NEW d, d = PointIn(m, sg, L, f, ColumnIn(m, sg, j)),
         d.num[p] > 0, \A q \in L : d.num[q] > 0 => x.num[p] * d.num[q] <= x.num[q] * d.num[p],
         NEW g, EntersAt(g, f, L, p, j)
  PROVE  FeasibleIn(m, sg, L, g)
<1> DEFINE a == MatrixIn(m, sg, L, f)
           v == RhsIn(m, sg)
           w == ColumnIn(m, sg, j)
<1>1. SystemOn(a, L, w) /\ AllInt(v, L)
  BY BasisSystem
<1>2. ~ Singular(a, L) /\ \A k \in L : Solution(a, L, v).num[k] >= 0
  BY DEF FeasibleIn
<1>3. x = Solution(a, L, v) /\ d = Solution(a, L, w)
  BY DEF PointIn
<1>4. MatrixIn(m, sg, L, g) = PutAt(a, L, p, w)
  BY PivotPuts
<1>7. FeasibleIn(m, sg, L, g)
        <=> ~ Singular(MatrixIn(m, sg, L, g), L) /\ \A k \in L : Solution(MatrixIn(m, sg, L, g), L, v).num[k] >= 0
  BY DEF FeasibleIn
<1> HIDE DEF a, v, w
<1>5. /\ Solution(a, L, w).num[p] > 0
      /\ \A k \in L : Solution(a, L, w).num[k] > 0 =>
           Solution(a, L, v).num[p] * Solution(a, L, w).num[k]
             <= Solution(a, L, v).num[k] * Solution(a, L, w).num[p]
  BY <1>3
<1>6. ~ Singular(PutAt(a, L, p, w), L) /\ \A k \in L : Solution(PutAt(a, L, p, w), L, v).num[k] >= 0
  BY <1>1, <1>2, <1>5, RatioPivot
<1> QED
  BY <1>4, <1>6, <1>7

\* No artificial column of the basis has a value.
CleanIn(m, sg, L, f) ==
  /\ FeasibleIn(m, sg, L, f)
  /\ \A q \in L : f[q] \notin m.cols => PointIn(m, sg, L, f, RhsIn(m, sg)).num[q] = 0

\* A column of the model takes the place of an artificial without a value.
LEMMA CleanPivot ==
  ASSUME NEW m, NEW sg, NEW L, Rows(m, sg, L), NEW f, CleanIn(m, sg, L, f),
         NEW p \in L, f[p] \notin m.cols, NEW j \in m.cols,
         PointIn(m, sg, L, f, ColumnIn(m, sg, j)).num[p] # 0, NEW g, EntersAt(g, f, L, p, j)
  PROVE  CleanIn(m, sg, L, g)
<1> DEFINE a == MatrixIn(m, sg, L, f)
           v == RhsIn(m, sg)
           w == ColumnIn(m, sg, j)
           b == PutAt(a, L, p, w)
<1>1. SystemOn(a, L, w) /\ AllInt(v, L)
  BY BasisSystem
<1>2. ~ Singular(a, L) /\ \A k \in L : Solution(a, L, v).num[k] >= 0
  BY DEF CleanIn, FeasibleIn
<1>3. Solution(a, L, w).num[p] # 0
  BY DEF PointIn
<1>4. \A q \in L : f[q] \notin m.cols => Solution(a, L, v).num[q] = 0
  BY DEF CleanIn, PointIn
<1>5. MatrixIn(m, sg, L, g) = b
  BY PivotPuts
<1>6. CleanIn(m, sg, L, g)
        <=> /\ ~ Singular(MatrixIn(m, sg, L, g), L)
            /\ \A k \in L : Solution(MatrixIn(m, sg, L, g), L, v).num[k] >= 0
            /\ \A q \in L : g[q] \notin m.cols => Solution(MatrixIn(m, sg, L, g), L, v).num[q] = 0
  BY DEF CleanIn, FeasibleIn, PointIn
<1>7. \A q \in L : g[q] \notin m.cols => f[q] \notin m.cols
  BY DEF EntersAt
<1> HIDE DEF a, v, w
<1>8. SystemOn(a, L, v)
  BY <1>1 DEF SystemOn
<1>9. /\ SquareOn(b, L) /\ ~ Singular(b, L)
      /\ \A k \in L : Solution(b, L, v).den * Solution(a, L, v).num[k]
                        = Solution(a, L, v).den * Solution(b, L, v).num[k]
  BY <1>1, <1>2, <1>3, <1>4, DegeneratePivot
<1> HIDE DEF b
<1>10. SystemOn(b, L, v)
  BY <1>1, <1>9 DEF SystemOn
<1>11. /\ Solution(a, L, v).den \in Nat \ {0} /\ \A k \in L : Solution(a, L, v).num[k] \in Int
  BY <1>2, <1>8, SolutionPositive
<1>12. /\ Solution(b, L, v).den \in Nat \ {0} /\ \A k \in L : Solution(b, L, v).num[k] \in Int
  BY <1>9, <1>10, SolutionPositive
<1>13. ASSUME NEW k \in L
       PROVE  /\ Solution(b, L, v).num[k] >= 0
              /\ Solution(a, L, v).num[k] = 0 => Solution(b, L, v).num[k] = 0
  <2>1. PICK M \in Nat \ {0}, N \in Nat \ {0}, y \in Int, z \in Int :
          /\ M = Solution(b, L, v).den /\ N = Solution(a, L, v).den
          /\ y = Solution(a, L, v).num[k] /\ z = Solution(b, L, v).num[k]
    BY <1>11, <1>12
  <2>2. M * y = N * z
    BY <1>9, <2>1
  <2>3. (y >= 0 <=> z >= 0) /\ (y = 0 <=> z = 0)
    BY <2>2, SameSign
  <2> QED
    BY <1>2, <2>1, <2>3
<1> QED
  BY <1>4, <1>5, <1>6, <1>7, <1>9, <1>13

\* A row weighed by u holds if every other row does and u combines them to
\* nothing.
LEMMA DroppedRow ==
  ASSUME NEW m, LinearModel(m), NEW u, RowVector(m, u), NEW p \in m.rows, u[p] # 0,
         \A j \in m.cols : ColumnValue(m, j, u) = 0, RhsOf(m, u) = 0,
         NEW x, ColumnVector(m, x), NEW d \in Int,
         \A i \in m.rows \ {p} : u[i] = 0 \/ RowValue(m, i, x) = d * m.b[i]
  PROVE  RowValue(m, p, x) = d * m.b[p]
<1> DEFINE F == [i \in m.rows |-> RowValue(m, i, x) * u[i]]
           G == [i \in m.rows |-> m.b[i] * u[i]]
           H == [i \in m.rows |-> F[i] + (-d) * G[i]]
<1>1. IsFiniteSet(m.rows) /\ IsFiniteSet(m.cols) /\ \A i \in m.rows : m.b[i] \in Int /\ u[i] \in Int /\ RowValue(m, i, x) \in Int
  BY ValuesAreIntegers DEF LinearModel, RowVector, AllInt
<1>2. AllInt(F, m.rows) /\ AllInt(G, m.rows)
  BY <1>1 DEF AllInt
<1>3. Total(F, m.rows) = 0
  <2>1. Total(F, m.rows) = Total([j \in m.cols |-> ColumnValue(m, j, u) * x[j]], m.cols)
    BY Adjoint
  <2> DEFINE K == [j \in m.cols |-> ColumnValue(m, j, u) * x[j]]
  <2>2. \A j \in m.cols : K[j] = 0
    BY DEF ColumnVector, AllInt
  <2> HIDE DEF K
  <2>3. Total(K, m.cols) = 0
    BY <1>1, <2>2, TotalZero
  <2> QED
    BY <2>1, <2>3 DEF K
<1>4. Total(G, m.rows) = 0
  BY DEF RhsOf
<1>5. \A i \in m.rows : H[i] = F[i] + (-d) * G[i]
  OBVIOUS
<1>6. \A i \in m.rows \ {p} : H[i] = 0
  <2> TAKE i \in m.rows \ {p}
  <2>1. PICK r \in Int, b \in Int, e \in Int : r = RowValue(m, i, x) /\ b = m.b[i] /\ e = u[i]
    BY <1>1
  <2>2. H[i] = r * e + (-d) * (b * e)
    BY <2>1
  <2>3. CASE e = 0
    BY <2>2, <2>3
  <2>4. CASE r = d * b
    <3>1. (d * b) * e + (-d) * (b * e) = 0
      OBVIOUS
    <3> QED
      BY <2>2, <2>4, <3>1
  <2> QED
    BY <2>1, <2>3, <2>4
<1>7. PICK r \in Int, b \in Int, e \in Int : r = RowValue(m, p, x) /\ b = m.b[p] /\ e = u[p]
  BY <1>1
<1>8. H[p] = r * e + (-d) * (b * e)
  BY <1>7
<1> HIDE DEF F, G, H
<1>9. Total(H, m.rows) = 0 + (-d) * 0
  <2>1. Total(H, m.rows) = Total(F, m.rows) + (-d) * Total(G, m.rows)
    BY <1>1, <1>2, <1>5, TotalCombination
  <2> QED
    BY <1>3, <1>4, <2>1
<1>10. H[p] \in Int
  BY <1>8
<1>11. H[p] = 0
  BY <1>1, <1>6, <1>9, <1>10, TotalSingle
<1>12. (r - d * b) * e = 0
  <2>1. (r - d * b) * e = r * e + (-d) * (b * e)
    OBVIOUS
  <2> QED
    BY <1>8, <1>11, <2>1
<1>13. r - d * b = 0
  <2>1. \A t, n \in Int : t * n = 0 /\ n # 0 => t = 0
    OBVIOUS
  <2>2. r - d * b \in Int /\ e # 0
    BY <1>7
  <2> QED
    BY <1>12, <2>1, <2>2
<1> QED
  BY <1>7, <1>13

-----------------------------------------------------------------------------
\* An entry with the weight zero adds nothing.
LEMMA PairingRestrict ==
  ASSUME NEW N, Names(N), NEW u, AllInt(u, N), NEW w, AllInt(w, N), NEW p \in N, w[p] = 0
  PROVE  Pairing(u, w, N) = Pairing(u, w, N \ {p})
<1> DEFINE F == [k \in N |-> u[k] * w[k]]
           G == [k \in N \ {p} |-> u[k] * w[k]]
<1>1. IsFiniteSet(N) /\ IsFiniteSet(N \ {p})
  BY FS_RemoveElement DEF Names
<1>2. AllInt(F, N) /\ F[p] = 0 /\ \A k \in N \ {p} : F[k] = G[k] /\ F[k] \in Int
  BY DEF AllInt
<1>3. Pairing(u, w, N) = Total(F, N) /\ Pairing(u, w, N \ {p}) = Total(G, N \ {p})
  BY DEF Pairing
<1> HIDE DEF F, G
<1>4. AllInt(F, N \ {p})
  BY <1>2 DEF AllInt
<1>5. Total(F, N \ {p}) = Total(G, N \ {p}) /\ Total(F, N \ {p}) \in Int
  BY <1>1, <1>2, <1>4, TotalEqual, TotalType
<1>6. Total(F, N) = F[p] + Total(F, N \ {p})
  BY <1>1, <1>2, TotalRemove
<1>7. Total(F, N) = Total(F, N \ {p})
  BY <1>2, <1>5, <1>6
<1> QED
  BY <1>3, <1>5, <1>7

\* The artificial of position p serves no column of the model, and can go.
Redundant(m, sg, L, f, p) ==
  /\ p \in L /\ f[p] \notin m.cols
  /\ PointIn(m, sg, L, f, RhsIn(m, sg)).num[p] = 0
  /\ \A j \in m.cols : (\A q \in L : f[q] # j) => PointIn(m, sg, L, f, ColumnIn(m, sg, j)).num[p] = 0
Agrees(g, f, M) == \A q \in M : g[q] = f[q]

\* The row of the tableau of an artificial that stays is zero on the model.
LEMMA RedundantRow ==
  ASSUME NEW m, NEW sg, NEW L, Rows(m, sg, L), NEW f, ~ Singular(MatrixIn(m, sg, L, f), L),
         NEW p, Redundant(m, sg, L, f, p)
  PROVE  /\ p \in L /\ AllInt(PricesIn(m, sg, L, f, UnitAt(p, L)).num, L)
         /\ \A j \in m.cols : TableauIn(m, sg, L, f, p, j) = 0
         /\ \A q \in L \ {p} : TableauIn(m, sg, L, f, p, f[q]) = 0
         /\ TableauIn(m, sg, L, f, p, f[p]) # 0
         /\ Pairing(RhsIn(m, sg), PricesIn(m, sg, L, f, UnitAt(p, L)).num, L) = 0
<1>1. p \in L /\ f[p] \notin m.cols
  BY DEF Redundant
<1>2. Names(L) /\ AllInt(RhsIn(m, sg), L)
  BY BasisSystem
<1>3. AllInt(UnitAt(p, L), L)
  BY DEF UnitAt, AllInt
<1>4. /\ PricesIn(m, sg, L, f, UnitAt(p, L)).den \in Nat \ {0}
      /\ AllInt(PricesIn(m, sg, L, f, UnitAt(p, L)).num, L)
  BY <1>2, <1>3, BasisPrices
<1>5. /\ \A k : TableauIn(m, sg, L, f, p, k) = PointIn(m, sg, L, f, ColumnIn(m, sg, k)).num[p]
      /\ \A q \in L : TableauIn(m, sg, L, f, p, f[q])
                        = IF q = p THEN PricesIn(m, sg, L, f, UnitAt(p, L)).den ELSE 0
      /\ Pairing(RhsIn(m, sg), PricesIn(m, sg, L, f, UnitAt(p, L)).num, L)
           = PointIn(m, sg, L, f, RhsIn(m, sg)).num[p]
  BY <1>1, TableauEntry
<1>6. ASSUME NEW j \in m.cols
      PROVE  TableauIn(m, sg, L, f, p, j) = 0
  <2>1. CASE \A q \in L : f[q] # j
    BY <1>5, <2>1 DEF Redundant
  <2>2. ASSUME NEW q \in L, f[q] = j
        PROVE  TableauIn(m, sg, L, f, p, j) = 0
    BY <1>1, <1>5, <2>2
  <2> QED
    BY <2>1, <2>2
<1>7. TableauIn(m, sg, L, f, p, f[p]) # 0
  BY <1>1, <1>4, <1>5
<1>8. Pairing(RhsIn(m, sg), PricesIn(m, sg, L, f, UnitAt(p, L)).num, L) = 0
  BY <1>5 DEF Redundant
<1>9. \A q \in L \ {p} : TableauIn(m, sg, L, f, p, f[q]) = 0
  BY <1>5
<1> QED
  BY <1>1, <1>4, <1>6, <1>7, <1>8, <1>9

\* The row dropped carries weight in the combination that vanishes.
LEMMA RowHasWeight ==
  ASSUME NEW m, NEW sg, NEW L, Rows(m, sg, L), NEW f, ~ Singular(MatrixIn(m, sg, L, f), L),
         NEW p, Redundant(m, sg, L, f, p), NEW g, Agrees(g, f, L \ {p}),
         ~ Singular(MatrixIn(m, sg, L \ {p}, g), L \ {p})
  PROVE  PricesIn(m, sg, L, f, UnitAt(p, L)).num[p] # 0
<1> DEFINE w == PricesIn(m, sg, L, f, UnitAt(p, L)).num
           M == L \ {p}
           b == MatrixIn(m, sg, M, g)
<1>1. SUFFICES ASSUME w[p] = 0 PROVE FALSE
  OBVIOUS
<1>2. Names(L) /\ \A j : AllInt(ColumnIn(m, sg, j), L)
  BY BasisSystem
<1>3. /\ p \in L /\ AllInt(w, L)
      /\ \A q \in L : TableauIn(m, sg, L, f, p, f[q]) = Pairing(ColumnIn(m, sg, f[q]), w, L)
      /\ \A q \in M : TableauIn(m, sg, L, f, p, f[q]) = 0
      /\ TableauIn(m, sg, L, f, p, f[p]) # 0
  BY RedundantRow DEF TableauIn
<1>4. Rows(m, sg, M)
  BY DEF Rows
<1>5. SquareOn(b, M)
  BY <1>4, BasisSystem
<1>6. AllInt(w, M)
  BY <1>3 DEF AllInt
<1>7. \A q \in M : MatrixTimes(Transposed(b, M), M, w)[q] = Pairing(ColumnIn(m, sg, g[q]), w, M)
  BY <1>4, BasisTransposed
<1>8. \A q \in M : g[q] = f[q] /\ q \in L
  BY DEF Agrees
<1>9. ~ Singular(b, M)
  OBVIOUS
<1>10. \A k \in M : k \in L
  OBVIOUS
<1> HIDE DEF w, b
<1>11. ASSUME NEW q \in M
       PROVE  MatrixTimes(Transposed(b, M), M, w)[q] = 0
  <2>1. Pairing(ColumnIn(m, sg, f[q]), w, L) = Pairing(ColumnIn(m, sg, f[q]), w, M)
    BY <1>1, <1>2, <1>3, PairingRestrict
  <2>2. Pairing(ColumnIn(m, sg, f[q]), w, L) = 0
    BY <1>3, <1>8
  <2> QED
    BY <1>7, <1>8, <2>1, <2>2
<1> DEFINE K == M
<1>12. SquareOn(b, K) /\ AllInt(w, K) /\ ~ Singular(b, K) /\ \A k \in K : MatrixTimes(Transposed(b, K), K, w)[k] = 0
  BY <1>5, <1>6, <1>9, <1>11
<1>13. \A q \in L : q = p \/ q \in K
  OBVIOUS
<1> HIDE DEF K
<1>14. \A q \in K : w[q] = 0
  BY <1>12, KernelSingular
<1> DEFINE F == [k \in L |-> ColumnIn(m, sg, f[p])[k] * w[k]]
<1>15. \A q \in L : F[q] = 0
  BY <1>1, <1>2, <1>13, <1>14 DEF AllInt
<1>16. Pairing(ColumnIn(m, sg, f[p]), w, L) = Total(F, L)
  BY DEF Pairing
<1> HIDE DEF F
<1>17. Total(F, L) = 0
  BY <1>2, <1>15, TotalZero DEF Names
<1> QED
  BY <1>3, <1>16, <1>17

(***************************************************************************)
(* Dropping a redundant row with its basic artificial keeps every dropped  *)
(* row implied by those left.                                              *)
(***************************************************************************)
THEOREM DropImplied ==
  ASSUME NEW m, NEW sg, NEW L, Rows(m, sg, L), NEW f, ~ Singular(MatrixIn(m, sg, L, f), L),
         NEW p, Redundant(m, sg, L, f, p), NEW g, Agrees(g, f, L \ {p}),
         ~ Singular(MatrixIn(m, sg, L \ {p}, g), L \ {p}), ImpliedIn(m, L)
  PROVE  ImpliedIn(m, L \ {p})
<1> DEFINE w == PricesIn(m, sg, L, f, UnitAt(p, L)).num
           u == DualIn(m, sg, L, w)
<1>1. LinearModel(m) /\ sg \in [m.rows -> {1, -1}] /\ L \subseteq m.rows
  BY DEF Rows, Numbered
<1>2. /\ p \in L /\ AllInt(w, L)
      /\ \A j \in m.cols : Pairing(ColumnIn(m, sg, j), w, L) = 0
      /\ Pairing(RhsIn(m, sg), w, L) = 0
  BY RedundantRow DEF TableauIn
<1>3. w[p] # 0
  BY RowHasWeight
<1> HIDE DEF w
<1>4. /\ u \in [m.rows -> Int] /\ \A j \in m.cols : ColumnValue(m, j, u) = Pairing(ColumnIn(m, sg, j), w, L)
      /\ RhsOf(m, u) = Pairing(RhsIn(m, sg), w, L)
  BY <1>2, DualColumns
<1>5. u[p] = sg[p] * w[p] /\ \A i \in m.rows : i \notin L => u[i] = 0
  BY <1>1, <1>2 DEF DualIn
<1> HIDE DEF u
<1>6. u[p] # 0 /\ RowVector(m, u) /\ p \in m.rows
  <2>1. w[p] \in Int /\ (sg[p] = 1 \/ sg[p] = -1) /\ p \in m.rows
    BY <1>1, <1>2 DEF AllInt
  <2>2. u[p] # 0
    BY <1>3, <1>5, <2>1
  <2> QED
    BY <1>4, <2>1, <2>2 DEF RowVector, AllInt
<1>7. (\A j \in m.cols : ColumnValue(m, j, u) = 0) /\ RhsOf(m, u) = 0
  BY <1>2, <1>4
<1> SUFFICES ASSUME NEW x \in [m.cols -> Int], NEW d \in Int,
                    \A i \in L \ {p} : RowValue(m, i, x) = d * m.b[i]
             PROVE  \A i \in m.rows : RowValue(m, i, x) = d * m.b[i]
  BY DEF ImpliedIn
<1>8. \A i \in m.rows \ {p} : u[i] = 0 \/ RowValue(m, i, x) = d * m.b[i]
  BY <1>5
<1>9. ColumnVector(m, x)
  BY DEF ColumnVector, AllInt
<1>10. RowValue(m, p, x) = d * m.b[p]
  BY <1>1, <1>6, <1>7, <1>8, <1>9, DroppedRow
<1>11. \A i \in L : RowValue(m, i, x) = d * m.b[i]
  BY <1>10
<1> QED
  BY <1>11 DEF ImpliedIn

-----------------------------------------------------------------------------
\* A position without a value goes with its row.
LEMMA CleanDrop ==
  ASSUME NEW m, NEW sg, NEW L, Rows(m, sg, L), NEW f, CleanIn(m, sg, L, f),
         NEW p \in L, PointIn(m, sg, L, f, RhsIn(m, sg)).num[p] = 0, NEW g, Agrees(g, f, L \ {p}),
         ~ Singular(MatrixIn(m, sg, L \ {p}, g), L \ {p})
  PROVE  CleanIn(m, sg, L \ {p}, g)
<1> DEFINE M == L \ {p}
           a == MatrixIn(m, sg, L, f)
           b == MatrixIn(m, sg, M, g)
           v == RhsIn(m, sg)
<1>1. SystemOn(a, L, v) /\ \A i, q \in L : a[i][q] = ColumnIn(m, sg, f[q])[i]
  BY BasisSystem
<1>2. Rows(m, sg, M)
  BY DEF Rows
<1>3. SystemOn(b, M, v)
  BY <1>2, BasisSystem
<1>4. Restricted(a, M) = b
  <2>1. \A r \in M, k \in M : a[r][k] = ColumnIn(m, sg, g[k])[r]
    BY <1>1 DEF Agrees
  <2> HIDE DEF a
  <2> QED
    BY <2>1 DEF Restricted, MatrixIn
<1>5. ~ Singular(a, L) /\ \A k \in L : Solution(a, L, v).num[k] >= 0
  BY DEF CleanIn, FeasibleIn
<1>6. /\ Solution(a, L, v).num[p] = 0
      /\ \A q \in L : f[q] \notin m.cols => Solution(a, L, v).num[q] = 0
  BY DEF CleanIn, PointIn
<1>7. CleanIn(m, sg, M, g)
        <=> /\ ~ Singular(b, M)
            /\ \A k \in M : Solution(b, M, v).num[k] >= 0
            /\ \A q \in M : g[q] \notin m.cols => Solution(b, M, v).num[q] = 0
  BY DEF CleanIn, FeasibleIn, PointIn
<1>8. ~ Singular(b, M) /\ \A q \in M : q \in L /\ g[q] = f[q]
  BY DEF Agrees
<1> HIDE DEF a, b, v
<1>9. \A k \in M : Solution(b, M, v).den * Solution(a, L, v).num[k]
                     = Solution(a, L, v).den * Solution(b, M, v).num[k]
  BY <1>1, <1>4, <1>5, <1>6, <1>8, DropSolution
<1>10. Solution(a, L, v).den \in Nat \ {0} /\ \A k \in L : Solution(a, L, v).num[k] \in Int
  BY <1>1, <1>5, SolutionPositive
<1>11. Solution(b, M, v).den \in Nat \ {0} /\ \A k \in M : Solution(b, M, v).num[k] \in Int
  BY <1>3, <1>8, SolutionPositive
<1>12. ASSUME NEW k \in M
       PROVE  /\ Solution(b, M, v).num[k] >= 0
              /\ Solution(a, L, v).num[k] = 0 => Solution(b, M, v).num[k] = 0
  <2>1. PICK D \in Nat \ {0}, N \in Nat \ {0}, y \in Int, z \in Int :
          /\ D = Solution(b, M, v).den /\ N = Solution(a, L, v).den
          /\ y = Solution(a, L, v).num[k] /\ z = Solution(b, M, v).num[k]
    BY <1>8, <1>10, <1>11
  <2>2. D * y = N * z
    BY <1>9, <2>1
  <2>3. (y >= 0 <=> z >= 0) /\ (y = 0 <=> z = 0)
    BY <2>2, SameSign
  <2>4. Solution(a, L, v).num[k] >= 0
    BY <1>5, <1>8
  <2> QED
    BY <2>1, <2>3, <2>4
<1> QED
  BY <1>6, <1>7, <1>8, <1>12

-----------------------------------------------------------------------------
\* Ratios are transitive.
LEMMA RatiosCompare ==
  ASSUME NEW a \in Int, NEW b \in Int, NEW c \in Int,
         NEW d \in Nat \ {0}, NEW e \in Nat \ {0}, NEW g \in Nat \ {0},
         a * e <= b * d, b * g <= c * e
  PROVE  a * g <= c * d
<1>1. (a * e) * g <= (b * d) * g
  <2>1. PICK s \in Int, t \in Int : s = a * e /\ t = b * d
    OBVIOUS
  <2>2. s * g <= t * g
    BY <2>1
  <2> QED
    BY <2>1, <2>2
<1>2. (b * g) * d <= (c * e) * d
  <2>1. PICK s \in Int, t \in Int : s = b * g /\ t = c * e
    OBVIOUS
  <2>2. s * d <= t * d
    BY <2>1
  <2> QED
    BY <2>1, <2>2
<1>3. (b * d) * g = (b * g) * d /\ (a * e) * g = e * (a * g) /\ (c * e) * d = e * (c * d)
  OBVIOUS
<1>4. PICK s \in Int, t \in Int : s = a * g /\ t = c * d
  OBVIOUS
<1>5. e * s <= e * t
  <2>1. PICK h \in Int, k \in Int, l \in Int : h = e * s /\ k = e * t /\ l = (b * d) * g
    OBVIOUS
  <2>2. h <= l /\ l <= k
    BY <1>1, <1>2, <1>3, <1>4, <2>1
  <2>3. h <= k
    BY <2>2
  <2> QED
    BY <2>1, <2>3
<1>6. ~ s > t
  <2>1. SUFFICES ASSUME s > t PROVE FALSE
    OBVIOUS
  <2>2. PICK u \in Nat \ {0} : s = t + u
    <3>1. s - t \in Nat \ {0} /\ s = t + (s - t)
      BY <2>1
    <3> QED
      BY <3>1
  <2>3. e * s = e * t + e * u
    BY <2>2
  <2>4. e * u \in Nat /\ e * u # 0
    OBVIOUS
  <2>5. PICK h \in Int, k \in Int, l \in Nat : h = e * s /\ k = e * t /\ l = e * u
    BY <2>4
  <2> QED
    BY <1>5, <2>3, <2>4, <2>5
<1> QED
  BY <1>4, <1>6

\* Among finitely many ratios there is a least one.
Ratios(x, d, B) == \A q \in B : x[q] \in Int /\ d[q] \in Nat \ {0}
LeastOf(x, d, A) == {p \in A : \A q \in A : x[p] * d[q] <= x[q] * d[p]}
\* There is a least ratio.
LEMMA LeastExists ==
  ASSUME NEW B, IsFiniteSet(B), NEW x, NEW d, Ratios(x, d, B), B # {}
  PROVE  LeastOf(x, d, B) # {}
<1> DEFINE G == {A \in SUBSET B : A = {} \/ LeastOf(x, d, A) # {}}
<1>1. {} \in G
  OBVIOUS
<1>2. ASSUME NEW A \in SUBSET B, NEW r \in B, A \in G, r \notin A
      PROVE  A \union {r} \in G
  <2>1. x[r] \in Int /\ d[r] \in Nat \ {0} /\ x[r] * d[r] <= x[r] * d[r]
    BY DEF Ratios
  <2>2. CASE A = {}
    <3>1. r \in LeastOf(x, d, A \union {r})
      BY <2>1, <2>2 DEF LeastOf
    <3> QED
      BY <3>1
  <2>3. CASE A # {}
    <3>1. PICK p : p \in LeastOf(x, d, A)
      BY <1>2, <2>3
    <3>2. p \in A /\ (\A q \in A : x[p] * d[q] <= x[q] * d[p]) /\ p \in B
      BY <3>1 DEF LeastOf
    <3>3. x[p] \in Int /\ d[p] \in Nat \ {0} /\ x[p] * d[p] <= x[p] * d[p]
      BY <3>2 DEF Ratios
    <3>4. CASE x[p] * d[r] <= x[r] * d[p]
      <4>1. p \in LeastOf(x, d, A \union {r})
        BY <3>2, <3>4 DEF LeastOf
      <4> QED
        BY <4>1
    <3>5. CASE ~ x[p] * d[r] <= x[r] * d[p]
      <4>1. x[r] * d[p] <= x[p] * d[r]
        <5>1. x[p] * d[r] \in Int /\ x[r] * d[p] \in Int
          BY <2>1, <3>3
        <5> QED
          BY <3>5, <5>1
      <4>2. ASSUME NEW q \in A
            PROVE  x[r] * d[q] <= x[q] * d[r]
        <5>1. x[q] \in Int /\ d[q] \in Nat \ {0} /\ x[p] * d[q] <= x[q] * d[p]
          BY <3>2 DEF Ratios
        <5> QED
          BY <2>1, <3>3, <4>1, <5>1, RatiosCompare
      <4>3. r \in LeastOf(x, d, A \union {r})
        BY <2>1, <4>2 DEF LeastOf
      <4> QED
        BY <4>3
    <3> QED
      BY <3>4, <3>5
  <2> QED
    BY <2>2, <2>3
<1> HIDE DEF G
<1>3. B \in G
  BY <1>1, <1>2, SetInduction
<1> QED
  BY <1>3 DEF G

\* And among finitely many numbers a least one.
LEMMA LowestExists ==
  ASSUME NEW B, IsFiniteSet(B), NEW x, \A q \in B : x[q] \in Int, B # {}
  PROVE  \E p \in B : \A q \in B : x[p] <= x[q]
<1> DEFINE d == [q \in B |-> 1]
<1>1. Ratios(x, d, B) /\ \A q \in B : d[q] = 1
  BY DEF Ratios
<1> HIDE DEF d
<1>2. PICK p : p \in LeastOf(x, d, B)
  BY <1>1, LeastExists
<1>3. p \in B /\ \A q \in B : x[p] * d[q] <= x[q] * d[p]
  BY <1>2 DEF LeastOf
<1>4. \A q \in B : x[p] <= x[q]
  BY <1>1, <1>3
<1> QED
  BY <1>3, <1>4
-----------------------------------------------------------------------------
(***************************************************************************)
(* The methods in terms of the basis they hold.                            *)
(***************************************************************************)
Phase == IF stage = "one" THEN 1 ELSE 2
\* What the method computes is computed from the basis it holds.
LEMMA HeldBasis ==
  /\ \A f : BasisMatrix(f) = MatrixIn(lp, rowSign, left, f)
  /\ WorkRhs = RhsIn(lp, rowSign) /\ \A j : WorkColumn(j) = ColumnIn(lp, rowSign, j)
  /\ \A v : Ftran(v) = PointIn(lp, rowSign, left, factored, v) /\ Btran(v) = PricesIn(lp, rowSign, left, factored, v)
  /\ BasicCosts = CostsIn(lp, Phase, left, basis)
  /\ \A j, y : Priced(j, y) = PricedIn(lp, rowSign, left, Phase, j, y)
  /\ \A x : Spread(x) = SpreadIn(lp, left, basis, x)
  /\ \A y : DualOf(y) = DualIn(lp, rowSign, left, y.num)
  /\ \A p : UnitVector(p) = UnitAt(p, left)
  /\ \A pi : \A j \in lp.cols : TableauRow(pi)[j] = Pairing(ColumnIn(lp, rowSign, j), pi.num, left)
<1>1. \A j : WorkColumn(j) = ColumnIn(lp, rowSign, j)
  BY DEF WorkColumn, ColumnIn, IsArtificial, Artificial, ArtificialIn
<1>2. \A f : BasisMatrix(f) = MatrixIn(lp, rowSign, left, f)
  BY <1>1 DEF BasisMatrix, MatrixIn
<1>3. WorkRhs = RhsIn(lp, rowSign)
  BY DEF WorkRhs, RhsIn
<1>4. \A v : Ftran(v) = PointIn(lp, rowSign, left, factored, v) /\ Btran(v) = PricesIn(lp, rowSign, left, factored, v)
  BY <1>2 DEF Ftran, Btran, PointIn, PricesIn
<1>5. \A j : Cost(j) = CostIn(lp, Phase, j)
  BY DEF Cost, CostIn, Phase, IsArtificial
<1>6. BasicCosts = CostsIn(lp, Phase, left, basis)
  BY <1>5 DEF BasicCosts, CostsIn
<1>7. \A j, y : Priced(j, y) = PricedIn(lp, rowSign, left, Phase, j, y)
  BY <1>1, <1>5 DEF Priced, PricedIn
<1>8. \A x : Spread(x) = SpreadIn(lp, left, basis, x)
  BY DEF Spread, SpreadIn
<1>9. \A y : DualOf(y) = DualIn(lp, rowSign, left, y.num)
  BY DEF DualOf, DualIn
<1>10. \A p : UnitVector(p) = UnitAt(p, left)
  BY DEF UnitVector, UnitAt
<1>11. \A pi : \A j \in lp.cols : TableauRow(pi)[j] = Pairing(ColumnIn(lp, rowSign, j), pi.num, left)
  BY <1>1 DEF TableauRow, Pairing
<1> QED
  BY <1>1, <1>2, <1>3, <1>4, <1>6, <1>7, <1>8, <1>9, <1>10, <1>11

(***************************************************************************)
(* The invariant of both methods.                                          *)
(***************************************************************************)
Alarms == {"witness rejected", "dual feasibility lost"}
Placement ==
  /\ rowSign \in [lp.rows -> {1, -1}] /\ left \in SUBSET lp.rows
  /\ DOMAIN basis = left /\ \A p \in left : basis[p] \in Nat
InOne == left = lp.rows /\ factored = basis /\ FeasibleIn(lp, rowSign, left, basis)
InClean ==
  /\ cleaned \in Nat /\ \A p \in left : p < cleaned => basis[p] \in lp.cols
  /\ ~ Singular(MatrixIn(lp, rowSign, left, basis), left) =>
       CleanIn(lp, rowSign, left, basis) /\ ImpliedIn(lp, left)
InTwo ==
  /\ factored = basis /\ FeasibleIn(lp, rowSign, left, basis) /\ ImpliedIn(lp, left)
  /\ \A p \in left : basis[p] \in lp.cols
InDual ==
  /\ left = lp.rows /\ (\A i \in lp.rows : rowSign[i] = 1) /\ factored = basis
  /\ ModelBasis(lp, rowSign, left, basis)
  /\ step > 0 => DualFeasibleIn(lp, rowSign, left, basis)
SimplexInv ==
  /\ Numbered(lp) /\ answer.message \notin Alarms
  /\ stage \in {"one", "clean", "two", "dual"} => Placement
  /\ stage = "one" => InOne
  /\ stage = "clean" => InClean
  /\ stage = "two" => InTwo
  /\ stage = "dual" => InDual

\* The rows left are rows of the model.
LEMMA PlacedRows == ASSUME Numbered(lp), Placement PROVE Rows(lp, rowSign, left)
BY DEF Placement, Rows

\* The properties follow from the invariant.
LEMMA InvariantsFollow ==
  ASSUME SimplexInv PROVE KeepsPrimalFeasible /\ KeepsDualFeasible /\ WitnessAccepted
<1>1. WitnessAccepted
  BY DEF SimplexInv, Alarms, WitnessAccepted
<1>2. \A f : BasisMatrix(f) = MatrixIn(lp, rowSign, left, f)
  BY HeldBasis
<1>3. Ftran(WorkRhs) = Solution(MatrixIn(lp, rowSign, left, factored), left, RhsIn(lp, rowSign))
  BY HeldBasis DEF PointIn
<1>4. KeepsPrimalFeasible
  BY <1>2, <1>3 DEF SimplexInv, InOne, InTwo, FeasibleIn, KeepsPrimalFeasible
<1>5. KeepsDualFeasible
  BY <1>2 DEF SimplexInv, Alarms, InDual, ModelBasis, KeepsDualFeasible
<1> QED
  BY <1>1, <1>4, <1>5

\* An answer ends the method, whatever it is, if it raises no alarm.
LEMMA FinishKeeps ==
  ASSUME SimplexInv, NEW a, Finish(a), a.message \notin Alarms PROVE SimplexInv'
<1>1. stage' = "done" /\ answer' = a /\ lp' = lp
  BY DEF Finish
<1>2. Numbered(lp')
  BY <1>1 DEF SimplexInv
<1> QED
  BY <1>1, <1>2 DEF SimplexInv, Alarms

\* A failure keeps it,
LEMMA FailKeeps ==
  ASSUME SimplexInv, NEW s, NEW w, Fail(s, w), w \notin Alarms PROVE SimplexInv'
<1>1. [NoAnswer EXCEPT !.status = s, !.message = w].message = w
  BY DEF NoAnswer
<1>2. Finish([NoAnswer EXCEPT !.status = s, !.message = w])
  BY DEF Fail
<1> DEFINE a == [NoAnswer EXCEPT !.status = s, !.message = w]
<1> HIDE DEF a
<1> QED
  BY <1>1, <1>2, FinishKeeps DEF a

\* and so does an answer whose witness is accepted.
LEMMA CertifyKeeps ==
  ASSUME SimplexInv, NEW a, Certify(a), Accepted(a), a.message \notin Alarms PROVE SimplexInv'
BY FinishKeeps DEF Certify

-----------------------------------------------------------------------------
\* The least of a set.
LEMMA MinOfSet ==
  ASSUME NEW B, B \subseteq Int, IsFiniteSet(B), B # {} PROVE Min(B) \in B /\ \A q \in B : Min(B) <= q
<1> DEFINE x == [q \in B |-> q]
<1>1. \A q \in B : x[q] = q /\ x[q] \in Int
  OBVIOUS
<1> HIDE DEF x
<1>2. \E p \in B : \A q \in B : x[p] <= x[q]
  BY <1>1, LowestExists
<1>3. \E p \in B : \A q \in B : p <= q
  BY <1>1, <1>2
<1> QED
  BY <1>3 DEF Min

\* The columns to price.
LEMMA NonbasicColumns ==
  ASSUME Numbered(lp)
  PROVE  /\ Nonbasic \subseteq Nat /\ IsFiniteSet(Nonbasic) /\ lp.cols \subseteq Nat
         /\ \A j \in Nonbasic : \A p \in left : basis[p] # j
         /\ \A j \in lp.cols : (\A p \in left : basis[p] # j) => j \in Nonbasic
         /\ stage # "one" => Nonbasic \subseteq lp.cols
         /\ Artificials \subseteq Nat /\ lp.rows \subseteq Nat /\ IsFiniteSet(lp.rows)
<1>1. lp.cols \subseteq Nat /\ lp.rows \subseteq Nat /\ IsFiniteSet(lp.cols) /\ IsFiniteSet(lp.rows)
  BY DEF Numbered, LinearModel
<1>2. Artificials \subseteq Nat
  BY ArtificialsApart DEF Artificials, Artificial, ArtificialIn
<1>3. IsFiniteSet(Artificials)
  <2> DEFINE h == [i \in lp.rows |-> Artificial(i)]
  <2>1. \A i \in lp.rows : h[i] \in Artificials
    BY DEF Artificials
  <2>2. \A j \in Artificials : \E i \in lp.rows : h[i] = j
    BY DEF Artificials
  <2>3. h \in [lp.rows -> Artificials]
    BY <2>1
  <2> HIDE DEF h
  <2>4. h \in Surjection(lp.rows, Artificials)
    BY <2>2, <2>3 DEF Surjection
  <2> QED
    BY <1>1, <2>4, FS_Surjection
<1>4. IsFiniteSet(lp.cols \union Artificials)
  BY <1>1, <1>3, FS_Union
<1>5. Nonbasic \subseteq lp.cols \union Artificials
  BY DEF Nonbasic
<1>6. IsFiniteSet(Nonbasic)
  BY <1>4, <1>5, FS_Subset
<1>7. Nonbasic \subseteq Nat
  BY <1>1, <1>2, <1>5
<1>8. \A j \in Nonbasic : \A p \in left : basis[p] # j
  BY DEF Nonbasic, Basic
<1>9. \A j \in lp.cols : (\A p \in left : basis[p] # j) => j \in Nonbasic
  BY DEF Nonbasic, Basic
<1>10. stage # "one" => Nonbasic \subseteq lp.cols
  BY DEF Nonbasic
<1> QED
  BY <1>1, <1>2, <1>6, <1>7, <1>8, <1>9, <1>10

\* Prices are numbers.
LEMMA PricedType ==
  ASSUME Numbered(lp), Placement, ~ Singular(MatrixIn(lp, rowSign, left, factored), left), NEW y, y = Btran(BasicCosts)
  PROVE  /\ y = PricesIn(lp, rowSign, left, factored, CostsIn(lp, Phase, left, basis))
         /\ \A j : Priced(j, y) \in Int
<1>1. Rows(lp, rowSign, left) /\ Phase \in {1, 2}
  BY PlacedRows DEF Phase
<1>2. AllInt(CostsIn(lp, Phase, left, basis), left) /\ \A j : CostIn(lp, Phase, j) \in Int
  BY <1>1, CostType
<1>3. y = PricesIn(lp, rowSign, left, factored, CostsIn(lp, Phase, left, basis))
  BY HeldBasis
<1>4. Names(left) /\ AllInt(RhsIn(lp, rowSign), left) /\ \A j : AllInt(ColumnIn(lp, rowSign, j), left)
  BY <1>1, BasisSystem
<1>5. y.den \in Nat /\ AllInt(y.num, left)
  BY <1>1, <1>2, <1>3, <1>4, BasisPrices
<1>6. ASSUME NEW j
      PROVE  Priced(j, y) \in Int
  <2>1. Priced(j, y) = CostIn(lp, Phase, j) * y.den - Pairing(ColumnIn(lp, rowSign, j), y.num, left)
    BY HeldBasis DEF PricedIn, Pairing
  <2>2. AllInt(ColumnIn(lp, rowSign, j), left)
    BY <1>4
  <2>3. Pairing(ColumnIn(lp, rowSign, j), y.num, left) \in Int
    BY <1>4, <1>5, <2>2, PairingType
  <2> QED
    BY <1>2, <1>5, <2>1, <2>3
<1> QED
  BY <1>3, <1>6

\* Both rules choose a column that improves the objective.
LEMMA EnteringImproves ==
  ASSUME Numbered(lp), NEW y, \A j : Priced(j, y) \in Int, Improving(y) # {}
  PROVE  Entering(y) \in Nonbasic /\ Priced(Entering(y), y) < 0
<1>1. Improving(y) \subseteq Nonbasic /\ Nonbasic \subseteq Nat /\ IsFiniteSet(Nonbasic)
  BY NonbasicColumns DEF Improving
<1>2. IsFiniteSet(Improving(y)) /\ Improving(y) \subseteq Int
  <2> DEFINE I == Improving(y)
  <2>0. I \subseteq Nonbasic /\ Nonbasic \subseteq Nat
    BY <1>1
  <2> HIDE DEF I
  <2>1. I \in SUBSET Nonbasic /\ I \subseteq Int
    BY <2>0
  <2>2. IsFiniteSet(Nonbasic)
    BY <1>1
  <2>3. IsFiniteSet(I)
    BY <2>1, <2>2, FS_Subset
  <2> QED
    BY <2>1, <2>3 DEF I
<1>3. Min(Improving(y)) \in Improving(y)
  BY <1>2, MinOfSet
<1> DEFINE x == [j \in Improving(y) |-> Priced(j, y)]
           B == {j \in Improving(y) : \A k \in Improving(y) : Priced(j, y) <= Priced(k, y)}
<1>4. \A j \in Improving(y) : x[j] = Priced(j, y) /\ x[j] \in Int
  OBVIOUS
<1> HIDE DEF x
<1>5. \E j \in Improving(y) : \A k \in Improving(y) : x[j] <= x[k]
  BY <1>2, <1>4, LowestExists
<1>6. B # {} /\ B \subseteq Improving(y)
  BY <1>4, <1>5
<1>7. IsFiniteSet(B) /\ B \subseteq Int
  BY <1>2, <1>6, FS_Subset
<1>8. MostNegative(y) = Min(B)
  BY DEF MostNegative
<1> HIDE DEF B
<1>9. Min(B) \in B
  BY <1>6, <1>7, MinOfSet
<1>10. Entering(y) \in Improving(y)
  BY <1>3, <1>6, <1>8, <1>9 DEF Entering, FirstImproving
<1> QED
  BY <1>1, <1>10 DEF Improving

\* The position that leaves passes the ratio test.
LEMMA LeavingBlocks ==
  ASSUME IsFiniteSet(left), \A p \in left : basis[p] \in Nat, NEW x, NEW d,
         AllInt(x.num, left), AllInt(d.num, left), Blocking(d) # {}
  PROVE  LET p == Leaving(x, d)
         IN  /\ p \in left /\ d.num[p] > 0
             /\ \A q \in left : d.num[q] > 0 => x.num[p] * d.num[q] <= x.num[q] * d.num[p]
<1> DEFINE B == Blocking(d)
           A == LeastOf(x.num, d.num, B)
<1>1. B \subseteq left /\ B # {} /\ \A q \in left : q \in B <=> d.num[q] > 0
  BY DEF Blocking
<1>2. IsFiniteSet(B)
  BY <1>1, FS_Subset
<1>3. Ratios(x.num, d.num, B)
  BY <1>1 DEF Ratios, AllInt
<1>4. A = {p \in B : \A q \in B : x.num[p] * d.num[q] <= x.num[q] * d.num[p]}
  BY DEF LeastOf
<1>5. Leaving(x, d) = CHOOSE p \in A : \A q \in A : basis[p] <= basis[q]
  BY <1>4 DEF Leaving
<1> HIDE DEF B
<1>6. A # {}
  BY <1>1, <1>2, <1>3, LeastExists
<1> HIDE DEF A
<1>7. A \subseteq B
  BY <1>4
<1>8. IsFiniteSet(A) /\ \A q \in A : basis[q] \in Int
  BY <1>1, <1>2, <1>7, FS_Subset
<1>9. \E p \in A : \A q \in A : basis[p] <= basis[q]
  BY <1>6, <1>8, LowestExists
<1>10. Leaving(x, d) \in A
  BY <1>5, <1>9
<1> QED
  BY <1>1, <1>4, <1>10

-----------------------------------------------------------------------------
\* The steps of the primal method.
\* Start finds a feasible basis of unit columns or of artificials.
LEMMA StartKeeps ==
  ASSUME SimplexInv, Start PROVE SimplexInv'
<1>1. /\ Numbered(lp) /\ LinearModel(lp) /\ lp.rows \subseteq Nat /\ lp.cols \subseteq Nat /\ answer.message \notin Alarms
      /\ IsFiniteSet(lp.cols) /\ \A i \in lp.rows : lp.b[i] \in Int
  BY NonbasicColumns DEF SimplexInv, Numbered, LinearModel
<1>2. /\ lp' = lp /\ answer' = answer /\ left' = lp.rows /\ factored' = basis'
      /\ rowSign' = [i \in lp.rows |-> IF lp.b[i] < 0 THEN -1 ELSE 1]
  BY DEF Start
<1>3. PICK sg : sg = [i \in lp.rows |-> IF lp.b[i] < 0 THEN -1 ELSE 1]
  OBVIOUS
<1>4. sg \in [lp.rows -> {1, -1}] /\ \A i \in lp.rows : RhsIn(lp, sg)[i] >= 0
  <2>1. \A i \in lp.rows : sg[i] = (IF lp.b[i] < 0 THEN -1 ELSE 1) /\ RhsIn(lp, sg)[i] = sg[i] * lp.b[i]
    BY <1>3 DEF RhsIn
  <2>2. sg \in [lp.rows -> {1, -1}]
    BY <1>3
  <2>3. \A i \in lp.rows : sg[i] * lp.b[i] >= 0
    <3> TAKE i \in lp.rows
    <3>1. PICK b \in Int : b = lp.b[i]
      BY <1>1
    <3>2. b < 0 => (-1) * b >= 0
      OBVIOUS
    <3>3. ~ b < 0 => 1 * b >= 0
      OBVIOUS
    <3> QED
      BY <2>1, <3>1, <3>2, <3>3
  <2> QED
    BY <2>1, <2>2, <2>3
<1>5. Rows(lp, sg, lp.rows)
  BY <1>1, <1>4 DEF Rows
<1>6. CASE stage' = "two" /\ basis' = [i \in lp.rows |-> Min(CrashColumn(rowSign', i))]
           /\ \A i \in lp.rows : CrashColumn(rowSign', i) # {}
  <2>1. PICK f : f = [i \in lp.rows |-> Min(CrashColumn(sg, i))]
    OBVIOUS
  <2>2. basis' = f /\ \A i \in lp.rows : CrashColumn(sg, i) # {}
    BY <1>2, <1>3, <1>6, <2>1
  <2>3. \A i \in lp.rows : f[i] \in CrashColumn(sg, i)
    <3> TAKE i \in lp.rows
    <3>1. CrashColumn(sg, i) \in SUBSET lp.cols /\ CrashColumn(sg, i) \subseteq lp.cols
      BY DEF CrashColumn
    <3>2. CrashColumn(sg, i) \subseteq Int /\ IsFiniteSet(CrashColumn(sg, i))
      BY <1>1, <3>1, FS_Subset
    <3>3. Min(CrashColumn(sg, i)) \in CrashColumn(sg, i)
      BY <2>2, <3>2, MinOfSet
    <3> QED
      BY <2>1, <3>3
  <2>4. \A p \in lp.rows : f[p] \in lp.cols /\ \A r \in lp.rows : sg[r] * lp.a[r][f[p]] = (IF r = p THEN 1 ELSE 0)
    BY <2>3 DEF CrashColumn, Unit
  <2>5. FeasibleIn(lp, sg, lp.rows, f)
    BY <1>4, <1>5, <2>4, CrashBasis
  <2>6. ImpliedIn(lp, lp.rows)
    BY DEF ImpliedIn
  <2>7. Placement'
    BY <1>1, <1>2, <1>3, <1>4, <2>1, <2>2, <2>4 DEF Placement
  <2>8. FeasibleIn(lp', rowSign', left', basis') /\ ImpliedIn(lp', left')
    BY <1>2, <1>3, <2>2, <2>5, <2>6
  <2>9. InTwo'
    BY <1>2, <2>2, <2>4, <2>8 DEF InTwo
  <2>10. Numbered(lp') /\ answer'.message \notin Alarms
    BY <1>1, <1>2
  <2> QED
    BY <1>6, <2>7, <2>9, <2>10 DEF SimplexInv, Alarms
<1>7. CASE stage' = "one" /\ basis' = [i \in lp.rows |-> Artificial(i)]
  <2>1. PICK f : f = [i \in lp.rows |-> Artificial(i)]
    OBVIOUS
  <2>2. basis' = f
    BY <1>7, <2>1
  <2>3. \A p \in lp.rows : f[p] = ArtificialIn(lp, p) /\ f[p] \in Nat
    BY <1>1, <2>1, ArtificialsApart DEF Artificial, ArtificialIn
  <2>4. FeasibleIn(lp, sg, lp.rows, f)
    BY <1>4, <1>5, <2>3, ArtificialBasis
  <2>5. Placement'
    BY <1>1, <1>2, <1>3, <1>4, <2>1, <2>2, <2>3 DEF Placement
  <2>6. FeasibleIn(lp', rowSign', left', basis')
    BY <1>2, <1>3, <2>2, <2>4
  <2>7. InOne'
    BY <1>2, <2>6 DEF InOne
  <2>8. Numbered(lp') /\ answer'.message \notin Alarms
    BY <1>1, <1>2
  <2> QED
    BY <1>7, <2>5, <2>7, <2>8 DEF SimplexInv, Alarms
<1> QED
  BY <1>6, <1>7 DEF Start

-----------------------------------------------------------------------------
\* What an iteration of the primal method starts from.
LEMMA PrimalFacts ==
  ASSUME SimplexInv, stage \in {"one", "two"}, NEW x, x = Ftran(WorkRhs), NEW y, y = Btran(BasicCosts)
  PROVE  /\ Placement /\ factored = basis /\ Rows(lp, rowSign, left) /\ IsFiniteSet(left)
         /\ FeasibleIn(lp, rowSign, left, basis) /\ ~ Singular(MatrixIn(lp, rowSign, left, basis), left)
         /\ x = PointIn(lp, rowSign, left, basis, RhsIn(lp, rowSign))
         /\ AllInt(x.num, left) /\ \A p \in left : x.num[p] >= 0
         /\ y = PricesIn(lp, rowSign, left, basis, CostsIn(lp, Phase, left, basis))
         /\ \A j : Priced(j, y) \in Int /\ Priced(j, y) = PricedIn(lp, rowSign, left, Phase, j, y)
<1>1. Placement /\ factored = basis /\ FeasibleIn(lp, rowSign, left, basis) /\ Numbered(lp)
  BY DEF SimplexInv, InOne, InTwo
<1>2. Rows(lp, rowSign, left)
  BY <1>1, PlacedRows
<1>3. ~ Singular(MatrixIn(lp, rowSign, left, basis), left)
  BY <1>1 DEF FeasibleIn
<1>4. x = PointIn(lp, rowSign, left, basis, RhsIn(lp, rowSign))
  BY <1>1, HeldBasis
<1>5. Names(left) /\ AllInt(RhsIn(lp, rowSign), left)
  BY <1>2, BasisSystem
<1>6. AllInt(x.num, left)
  BY <1>2, <1>3, <1>4, <1>5, BasisPoint
<1>7. \A p \in left : x.num[p] >= 0
  BY <1>1, <1>4 DEF FeasibleIn, PointIn
<1>8. /\ y = PricesIn(lp, rowSign, left, factored, CostsIn(lp, Phase, left, basis))
      /\ \A j : Priced(j, y) \in Int
  BY <1>1, <1>3, PricedType
<1>9. \A j : Priced(j, y) = PricedIn(lp, rowSign, left, Phase, j, y)
  BY HeldBasis
<1>10. IsFiniteSet(left)
  BY <1>5 DEF Names
<1> QED
  BY <1>1, <1>2, <1>3, <1>4, <1>6, <1>7, <1>8, <1>9, <1>10

\* A pivot of either phase.
LEMMA PivotKeeps ==
  ASSUME SimplexInv, stage \in {"one", "two"}, NEW x, x = Ftran(WorkRhs), NEW y, y = Btran(BasicCosts),
         NEW j \in Nonbasic, NEW d, d = Ftran(WorkColumn(j)), Blocking(d) # {}, Pivot(Leaving(x, d), j)
  PROVE  SimplexInv'
<1>1. /\ Placement /\ factored = basis /\ Rows(lp, rowSign, left) /\ IsFiniteSet(left)
      /\ FeasibleIn(lp, rowSign, left, basis) /\ ~ Singular(MatrixIn(lp, rowSign, left, basis), left)
      /\ x = PointIn(lp, rowSign, left, basis, RhsIn(lp, rowSign)) /\ AllInt(x.num, left)
  BY PrimalFacts
<1>2. d = PointIn(lp, rowSign, left, basis, ColumnIn(lp, rowSign, j))
  BY <1>1, HeldBasis
<1>3. AllInt(ColumnIn(lp, rowSign, j), left)
  BY <1>1, BasisSystem
<1>4. AllInt(d.num, left)
  BY <1>1, <1>2, <1>3, BasisPoint
<1>5. PICK p : p = Leaving(x, d)
  OBVIOUS
<1>6. \A q \in left : basis[q] \in Nat
  BY <1>1 DEF Placement
<1>7. p \in left /\ d.num[p] > 0 /\ \A q \in left : d.num[q] > 0 => x.num[p] * d.num[q] <= x.num[q] * d.num[p]
  BY <1>1, <1>4, <1>5, <1>6, LeavingBlocks
<1>8. /\ basis' = [basis EXCEPT ![p] = j] /\ factored' = [factored EXCEPT ![p] = j]
      /\ UNCHANGED <<lp, rowSign, left, stage, answer>>
  BY <1>5 DEF Pivot
<1>9. PICK g : g = [basis EXCEPT ![p] = j]
  OBVIOUS
<1>10. DOMAIN basis = left
  BY <1>1 DEF Placement
<1>11. EntersAt(g, basis, left, p, j) /\ DOMAIN g = left
  BY <1>7, <1>9, <1>10 DEF EntersAt
<1>12. FeasibleIn(lp, rowSign, left, g)
  BY <1>1, <1>2, <1>7, <1>11, PrimalPivot
<1>13. Numbered(lp) /\ answer.message \notin Alarms
  BY DEF SimplexInv
<1>14. Numbered(lp) /\ j \in Nat /\ (stage = "two" => j \in lp.cols)
  BY <1>13, NonbasicColumns
<1>15. \A q \in left : g[q] \in Nat /\ (stage = "two" => g[q] \in lp.cols)
  <2>1. stage = "two" => \A q \in left : basis[q] \in lp.cols
    BY <1>13 DEF SimplexInv, InTwo
  <2> QED
    BY <1>6, <1>11, <1>14, <2>1 DEF EntersAt
<1>16. basis' = g /\ factored' = g
  BY <1>1, <1>8, <1>9
<1>17. Placement'
  BY <1>1, <1>8, <1>11, <1>15, <1>16 DEF Placement
<1>18. FeasibleIn(lp', rowSign', left', basis')
  BY <1>8, <1>12, <1>16
<1>19. Numbered(lp') /\ answer'.message \notin Alarms /\ stage' = stage
  BY <1>8, <1>13, <1>14
<1>20. stage = "one" => InOne'
  BY <1>8, <1>16, <1>18 DEF SimplexInv, InOne
<1>21. stage = "two" => InTwo'
  <2>1. stage = "two" => ImpliedIn(lp, left)
    BY DEF SimplexInv, InTwo
  <2>2. stage = "two" => ImpliedIn(lp', left')
    BY <1>8, <2>1
  <2> QED
    BY <1>8, <1>15, <1>16, <1>18, <2>2 DEF InTwo
<1> QED
  BY <1>17, <1>19, <1>20, <1>21 DEF SimplexInv, Alarms

-----------------------------------------------------------------------------
\* A zero sum without negative terms has none but zeros.
LEMMA ZeroTerms ==
  ASSUME NEW f, NEW S, IsFiniteSet(S), AllInt(f, S), \A k \in S : f[k] >= 0, Total(f, S) = 0, NEW k \in S
  PROVE  f[k] = 0
<1>1. IsFiniteSet(S \ {k}) /\ AllInt(f, S \ {k}) /\ \A l \in S \ {k} : f[l] >= 0
  BY FS_RemoveElement DEF AllInt
<1>2. Total(f, S \ {k}) >= 0 /\ Total(f, S \ {k}) \in Int
  BY <1>1, TotalNonnegative, TotalType
<1>3. 0 = f[k] + Total(f, S \ {k})
  BY TotalRemove
<1>4. f[k] \in Int /\ f[k] >= 0
  BY DEF AllInt
<1> QED
  BY <1>2, <1>3, <1>4

\* A phase one of no cost leaves no artificial with a value.
LEMMA NoCostIsClean ==
  ASSUME NEW m, NEW sg, NEW L, Rows(m, sg, L), NEW f, FeasibleIn(m, sg, L, f),
         Pairing(CostsIn(m, 1, L, f), PointIn(m, sg, L, f, RhsIn(m, sg)).num, L) = 0
  PROVE  CleanIn(m, sg, L, f)
<1> DEFINE x == PointIn(m, sg, L, f, RhsIn(m, sg)).num
           F == [p \in L |-> CostsIn(m, 1, L, f)[p] * x[p]]
<1>1. Names(L) /\ AllInt(RhsIn(m, sg), L) /\ ~ Singular(MatrixIn(m, sg, L, f), L)
  BY BasisSystem DEF FeasibleIn
<1>2. AllInt(x, L)
  BY <1>1, BasisPoint
<1>3. \A p \in L : x[p] >= 0
  BY DEF FeasibleIn, PointIn
<1>4. \A p \in L : CostsIn(m, 1, L, f)[p] = IF f[p] \notin m.cols THEN 1 ELSE 0
  BY DEF CostsIn, CostIn
<1>5. \A p \in L : F[p] = CostsIn(m, 1, L, f)[p] * x[p]
  OBVIOUS
<1>6. Total(F, L) = 0
  BY DEF Pairing
<1> HIDE DEF x, F
<1>7. AllInt(F, L) /\ \A p \in L : F[p] >= 0 /\ (f[p] \notin m.cols => F[p] = x[p])
  BY <1>2, <1>3, <1>4, <1>5 DEF AllInt
<1>8. \A p \in L : F[p] = 0
  BY <1>1, <1>6, <1>7, ZeroTerms DEF Names
<1>9. \A p \in L : f[p] \notin m.cols => x[p] = 0
  BY <1>7, <1>8
<1> QED
  BY <1>9 DEF CleanIn, x

\* The three kinds of witnesses.
LEMMA AcceptedKinds ==
  ASSUME NEW a
  PROVE  /\ a.status = "optimal" /\ a.den \in Nat \ {0} /\ OptimalWitness(Scaled(lp, a.den), a.primal, a.dual) => Accepted(a)
         /\ a.status = "infeasible" /\ FarkasWitness(lp, a.certificate) => Accepted(a)
         /\ a.status = "unbounded" /\ a.den \in Nat \ {0} /\ RayWitness(Scaled(lp, a.den), a.primal, a.ray) => Accepted(a)
BY DEF Accepted

\* Without an improving column every column of the model has its price.
LEMMA NoneImproves ==
  ASSUME SimplexInv, stage \in {"one", "two"}, NEW y, y = Btran(BasicCosts), Improving(y) = {}
  PROVE  \A j \in lp.cols : (\A p \in left : basis[p] # j) => PricedIn(lp, rowSign, left, Phase, j, y) >= 0
<1>1. \A j : Priced(j, y) \in Int /\ Priced(j, y) = PricedIn(lp, rowSign, left, Phase, j, y)
  BY PrimalFacts
<1>2. Numbered(lp)
  BY DEF SimplexInv
<1>3. \A j \in lp.cols : (\A p \in left : basis[p] # j) => j \in Nonbasic
  BY <1>2, NonbasicColumns
<1>4. \A j \in Nonbasic : ~ Priced(j, y) < 0
  BY DEF Improving
<1> TAKE j \in lp.cols
<1>5. PICK r \in Int : r = Priced(j, y)
  BY <1>1
<1> QED
  BY <1>1, <1>3, <1>4, <1>5

\* The end of phase one: infeasibility proved, or no artificial with a value.
LEMMA PhaseOneKeeps ==
  ASSUME SimplexInv, stage = "one", NEW x, x = Ftran(WorkRhs), NEW y, y = Btran(BasicCosts),
         Improving(y) = {}, PhaseOneEnds(x, y)
  PROVE  SimplexInv'
<1>1. /\ Placement /\ Rows(lp, rowSign, left) /\ FeasibleIn(lp, rowSign, left, basis)
      /\ ~ Singular(MatrixIn(lp, rowSign, left, basis), left)
      /\ x = PointIn(lp, rowSign, left, basis, RhsIn(lp, rowSign))
      /\ y = PricesIn(lp, rowSign, left, basis, CostsIn(lp, Phase, left, basis))
  BY PrimalFacts
<1>2. Phase = 1
  BY DEF Phase
<1>3. \A j \in lp.cols : (\A p \in left : basis[p] # j) => PricedIn(lp, rowSign, left, 1, j, y) >= 0
  BY <1>2, NoneImproves
<1>4. Total([p \in left |-> Cost(basis[p]) * x.num[p]], left) = Pairing(CostsIn(lp, 1, left, basis), x.num, left)
  <2>1. \A p \in left : CostsIn(lp, 1, left, basis)[p] = Cost(basis[p])
    BY DEF CostsIn, CostIn, Cost, IsArtificial
  <2>2. [p \in left |-> Cost(basis[p]) * x.num[p]] = [p \in left |-> CostsIn(lp, 1, left, basis)[p] * x.num[p]]
    BY <2>1
  <2> QED
    BY <2>2 DEF Pairing
<1>5. CASE Pairing(CostsIn(lp, 1, left, basis), x.num, left) > 0 /\ Certify(Infeasible(y))
  <2>1. FarkasWitness(lp, DualIn(lp, rowSign, left, y.num))
    BY <1>1, <1>2, <1>3, <1>5, FarkasAccepted
  <2>2. DualOf(y) = DualIn(lp, rowSign, left, y.num)
    BY HeldBasis
  <2>3. Infeasible(y).status = "infeasible" /\ Infeasible(y).certificate = DualOf(y) /\ Infeasible(y).message = ""
    BY DEF Infeasible, NoAnswer
  <2>4. Accepted(Infeasible(y))
    BY <2>1, <2>2, <2>3, AcceptedKinds
  <2> QED
    BY <1>5, <2>3, <2>4, CertifyKeeps DEF Alarms
<1>6. CASE /\ Pairing(CostsIn(lp, 1, left, basis), x.num, left) = 0
           /\ stage' = "clean" /\ cleaned' = 0 /\ UNCHANGED <<lp, workVars, answer>>
  <2>1. CleanIn(lp, rowSign, left, basis)
    BY <1>1, <1>6, NoCostIsClean
  <2>2. left = lp.rows
    BY DEF SimplexInv, InOne
  <2>3. ImpliedIn(lp, left)
    BY <2>2 DEF ImpliedIn
  <2>4. /\ stage' = "clean" /\ cleaned' = 0 /\ lp' = lp /\ rowSign' = rowSign /\ left' = left
        /\ basis' = basis /\ answer' = answer
    BY <1>6 DEF workVars
  <2>5. CleanIn(lp', rowSign', left', basis') /\ ImpliedIn(lp', left')
    BY <2>1, <2>3, <2>4
  <2>6. \A p \in left : basis[p] \in Nat /\ left \subseteq Nat
    BY <1>1, <2>2, NonbasicColumns DEF Placement, Rows
  <2>7. InClean'
    <3>1. \A p \in left' : ~ p < cleaned'
      BY <2>4, <2>6
    <3> QED
      BY <2>4, <2>5, <3>1 DEF InClean
  <2>8. Placement'
    BY <1>1, <2>4 DEF Placement
  <2>9. Numbered(lp') /\ answer'.message \notin Alarms
    BY <2>4 DEF SimplexInv
  <2> QED
    BY <2>4, <2>7, <2>8, <2>9 DEF SimplexInv, Alarms
<1> QED
  BY <1>4, <1>5, <1>6 DEF PhaseOneEnds

-----------------------------------------------------------------------------
\* Phase two ends in an optimum the verifier accepts.
LEMMA OptimalKeeps ==
  ASSUME SimplexInv, stage = "two", NEW x, x = Ftran(WorkRhs), NEW y, y = Btran(BasicCosts),
         Improving(y) = {}, Certify(Optimal(x, y))
  PROVE  SimplexInv'
<1>1. /\ Rows(lp, rowSign, left) /\ ~ Singular(MatrixIn(lp, rowSign, left, basis), left)
      /\ x = PointIn(lp, rowSign, left, basis, RhsIn(lp, rowSign)) /\ \A p \in left : x.num[p] >= 0
      /\ y = PricesIn(lp, rowSign, left, basis, CostsIn(lp, Phase, left, basis))
  BY PrimalFacts
<1>2. Phase = 2
  BY DEF Phase
<1>3. \A j \in lp.cols : (\A p \in left : basis[p] # j) => PricedIn(lp, rowSign, left, 2, j, y) >= 0
  BY <1>2, NoneImproves
<1>4. ModelBasis(lp, rowSign, left, basis) /\ ImpliedIn(lp, left)
  BY <1>1 DEF SimplexInv, InTwo, ModelBasis
<1>5. /\ x.den \in Nat \ {0}
      /\ OptimalWitness(Scaled(lp, x.den), SpreadIn(lp, left, basis, x.num), DualIn(lp, rowSign, left, y.num))
  BY <1>1, <1>2, <1>3, <1>4, OptimalAccepted
<1>6. Spread(x.num) = SpreadIn(lp, left, basis, x.num) /\ DualOf(y) = DualIn(lp, rowSign, left, y.num)
  BY HeldBasis
<1>7. /\ Optimal(x, y).status = "optimal" /\ Optimal(x, y).den = x.den /\ Optimal(x, y).message = ""
      /\ Optimal(x, y).primal = Spread(x.num) /\ Optimal(x, y).dual = DualOf(y)
  BY DEF Optimal, NoAnswer
<1>8. Accepted(Optimal(x, y))
  BY <1>5, <1>6, <1>7, AcceptedKinds
<1> QED
  BY <1>7, <1>8, CertifyKeeps DEF Alarms

\* Or in a ray.
LEMMA UnboundedKeeps ==
  ASSUME SimplexInv, stage = "two", NEW x, x = Ftran(WorkRhs), NEW y, y = Btran(BasicCosts),
         NEW j \in Nonbasic, Priced(j, y) < 0, NEW d, d = Ftran(WorkColumn(j)), Blocking(d) = {},
         Certify(Unbounded(x, d, j))
  PROVE  SimplexInv'
<1>1. /\ Rows(lp, rowSign, left) /\ ~ Singular(MatrixIn(lp, rowSign, left, basis), left) /\ factored = basis
      /\ x = PointIn(lp, rowSign, left, basis, RhsIn(lp, rowSign)) /\ \A p \in left : x.num[p] >= 0
      /\ y = PricesIn(lp, rowSign, left, basis, CostsIn(lp, Phase, left, basis))
      /\ Priced(j, y) = PricedIn(lp, rowSign, left, Phase, j, y)
  BY PrimalFacts
<1>2. Phase = 2
  BY DEF Phase
<1>3. Numbered(lp)
  BY DEF SimplexInv
<1>4. j \in lp.cols /\ \A p \in left : basis[p] # j
  BY <1>3, NonbasicColumns
<1>5. d = PointIn(lp, rowSign, left, basis, ColumnIn(lp, rowSign, j))
  BY <1>1, HeldBasis
<1>6. AllInt(ColumnIn(lp, rowSign, j), left)
  BY <1>1, BasisSystem
<1>7. AllInt(d.num, left)
  BY <1>1, <1>5, <1>6, BasisPoint
<1>8. \A p \in left : d.num[p] <= 0
  <2> TAKE p \in left
  <2>1. PICK r \in Int : r = d.num[p]
    BY <1>7 DEF AllInt
  <2>2. ~ r > 0
    BY <2>1 DEF Blocking
  <2> QED
    BY <2>1, <2>2
<1>9. ModelBasis(lp, rowSign, left, basis) /\ ImpliedIn(lp, left)
  BY <1>1 DEF SimplexInv, InTwo, ModelBasis
<1>10. PricedIn(lp, rowSign, left, 2, j, y) < 0
  BY <1>1, <1>2
<1>11. /\ x.den \in Nat \ {0}
       /\ RayWitness(Scaled(lp, x.den), SpreadIn(lp, left, basis, x.num), RayIn(lp, left, basis, d, j))
  BY <1>1, <1>2, <1>4, <1>5, <1>8, <1>9, <1>10, RayAccepted
<1>12. Spread(x.num) = SpreadIn(lp, left, basis, x.num)
       /\ [Spread([p \in left |-> -d.num[p]]) EXCEPT ![j] = d.den] = RayIn(lp, left, basis, d, j)
  BY HeldBasis DEF RayIn
<1>13. /\ Unbounded(x, d, j).status = "unbounded" /\ Unbounded(x, d, j).den = x.den /\ Unbounded(x, d, j).message = ""
       /\ Unbounded(x, d, j).primal = Spread(x.num)
       /\ Unbounded(x, d, j).ray = [Spread([p \in left |-> -d.num[p]]) EXCEPT ![j] = d.den]
  BY DEF Unbounded, NoAnswer
<1>15. PICK a : a = Unbounded(x, d, j)
  OBVIOUS
<1>16. /\ a.status = "unbounded" /\ a.den \in Nat \ {0} /\ a.primal = SpreadIn(lp, left, basis, x.num)
       /\ a.ray = RayIn(lp, left, basis, d, j)
  BY <1>11, <1>12, <1>13, <1>15
<1>17. RayWitness(Scaled(lp, a.den), a.primal, a.ray)
  BY <1>11, <1>13, <1>15, <1>16
<1>18. Accepted(a)
  BY <1>16, <1>17, AcceptedKinds
<1>14. Accepted(Unbounded(x, d, j))
  BY <1>15, <1>18
<1> QED
  BY <1>13, <1>14, CertifyKeeps DEF Alarms

\* Each action of the primal method keeps the invariant.
LEMMA IterateKeeps ==
  ASSUME SimplexInv, Iterate PROVE SimplexInv'
<1>1. stage \in {"one", "two"}
  BY DEF Iterate
<1>2. PICK x, y : /\ x = Ftran(WorkRhs) /\ y = Btran(BasicCosts)
                  /\ \/ /\ Improving(y) = {}
                        /\ \/ stage = "one" /\ PhaseOneEnds(x, y)
                           \/ stage = "two" /\ Certify(Optimal(x, y))
                     \/ /\ Improving(y) # {}
                        /\ LET j == Entering(y)
                               d == Ftran(WorkColumn(j))
                           IN  \/ Blocking(d) = {} /\ NoRowBlocks(x, d, j)
                               \/ Blocking(d) # {} /\ Pivot(Leaving(x, d), j)
  BY DEF Iterate
<1>3. CASE Improving(y) = {} /\ stage = "one" /\ PhaseOneEnds(x, y)
  BY <1>2, <1>3, PhaseOneKeeps
<1>4. CASE Improving(y) = {} /\ stage = "two" /\ Certify(Optimal(x, y))
  BY <1>2, <1>4, OptimalKeeps
<1>5. CASE Improving(y) # {}
  <2>1. Numbered(lp)
    BY DEF SimplexInv
  <2>2. \A k : Priced(k, y) \in Int
    BY <1>1, <1>2, PrimalFacts
  <2>3. PICK j, d : j = Entering(y) /\ d = Ftran(WorkColumn(j))
    OBVIOUS
  <2>4. j \in Nonbasic /\ Priced(j, y) < 0
    BY <1>5, <2>1, <2>2, <2>3, EnteringImproves
  <2>5. \/ Blocking(d) = {} /\ NoRowBlocks(x, d, j)
        \/ Blocking(d) # {} /\ Pivot(Leaving(x, d), j)
    BY <1>2, <1>5, <2>3
  <2>6. CASE Blocking(d) # {} /\ Pivot(Leaving(x, d), j)
    BY <1>1, <1>2, <2>3, <2>4, <2>6, PivotKeeps
  <2>7. CASE Blocking(d) = {} /\ stage = "one" /\ Fail("numerical_failure", "phase I failed")
    <3>1. "phase I failed" \notin Alarms
      BY DEF Alarms
    <3> QED
      BY <2>7, <3>1, FailKeeps
  <2>8. CASE Blocking(d) = {} /\ stage = "two" /\ Certify(Unbounded(x, d, j))
    BY <1>2, <2>3, <2>4, <2>8, UnboundedKeeps
  <2> QED
    BY <1>1, <2>5, <2>6, <2>7, <2>8 DEF NoRowBlocks
<1> QED
  BY <1>2, <1>3, <1>4, <1>5

\* The iteration limit and a singular basis end a method.
LEMMA StopsKeep ==
  ASSUME SimplexInv, OutOfIterations \/ Breakdown PROVE SimplexInv'
<1>1. "" \notin Alarms /\ "arithmetic" \notin Alarms
  BY DEF Alarms
<1>2. CASE OutOfIterations
  BY <1>1, <1>2, FailKeeps DEF OutOfIterations
<1>3. CASE Breakdown
  BY <1>1, <1>3, FailKeeps DEF Breakdown
<1> QED
  BY <1>2, <1>3

-----------------------------------------------------------------------------
\* The next position of the clean-up.
LEMMA CleanNextKeeps ==
  ASSUME SimplexInv, CleanNext PROVE SimplexInv'
<1>1. stage = "clean" /\ ToClean # {}
  BY DEF CleanNext
<1>2. Placement /\ InClean /\ Numbered(lp) /\ answer.message \notin Alarms
  BY <1>1 DEF SimplexInv
<1>3. Rows(lp, rowSign, left)
  BY <1>2, PlacedRows
<1>4. \A f : BasisMatrix(f) = MatrixIn(lp, rowSign, left, f)
  BY HeldBasis
<1>5. CASE Singular(BasisMatrix(basis), left)
  <2>1. Fail("numerical_failure", "singular basis")
    BY <1>1, <1>5 DEF CleanNext
  <2>2. "singular basis" \notin Alarms
    BY DEF Alarms
  <2> QED
    BY <2>1, <2>2, FailKeeps
<1>6. CASE ~ Singular(BasisMatrix(basis), left)
  <2>1. /\ ~ Singular(MatrixIn(lp, rowSign, left, basis), left)
        /\ CleanIn(lp, rowSign, left, basis) /\ ImpliedIn(lp, left)
    BY <1>2, <1>4, <1>6 DEF InClean
  <2>2. PICK p : p = Min(ToClean)
    OBVIOUS
  <2>3. PICK U : U = {j \in lp.cols \ Basic : EntryAt(p, j) # 0}
    OBVIOUS
  <2>4. /\ \/ U # {} /\ basis' = [basis EXCEPT ![p] = Min(U)] /\ left' = left
           \/ U = {} /\ left' = left \ {p} /\ basis' = [q \in left' |-> basis[q]]
        /\ cleaned' = p + 1 /\ UNCHANGED <<lp, rowSign, factored, stage, step, remaining, answer>>
    BY <1>1, <1>6, <2>2, <2>3 DEF CleanNext
  <2>5. left \subseteq Nat /\ IsFiniteSet(left) /\ lp.cols \subseteq Nat /\ IsFiniteSet(lp.cols)
    <3>1. Names(left) /\ lp.rows \subseteq Nat /\ left \subseteq lp.rows
      BY <1>2, <1>3, BasisSystem, NonbasicColumns DEF Rows
    <3> QED
      BY <1>2, <3>1, NonbasicColumns DEF Numbered, LinearModel, Names
  <2>6. p \in ToClean /\ \A q \in ToClean : p <= q
    <3>0. ToClean \subseteq left
      BY DEF ToClean
    <3>1. ToClean \in SUBSET left /\ ToClean \subseteq Int
      BY <2>5, <3>0
    <3>2. IsFiniteSet(ToClean)
      BY <2>5, <3>1, FS_Subset
    <3> QED
      BY <1>1, <2>2, <3>1, <3>2, MinOfSet
  <2>7. /\ p \in left /\ p >= cleaned /\ basis[p] \notin lp.cols /\ p \in Nat /\ cleaned \in Nat
        /\ \A q \in left : q < p => basis[q] \in lp.cols
    <3>1. p \in left /\ p >= cleaned /\ basis[p] \notin lp.cols /\ p \in Nat /\ cleaned \in Nat
      BY <1>2, <2>5, <2>6 DEF ToClean, IsArtificial, InClean
    <3>2. ASSUME NEW q \in left, q < p
          PROVE  basis[q] \in lp.cols
      <4>1. q \in Nat /\ q \notin ToClean
        BY <2>5, <2>6, <3>1, <3>2
      <4>2. q < cleaned => basis[q] \in lp.cols
        BY <1>2 DEF InClean
      <4>3. q >= cleaned => basis[q] \in lp.cols
        BY <4>1 DEF ToClean, IsArtificial
      <4> QED
        BY <3>1, <4>1, <4>2, <4>3
    <3> QED
      BY <3>1, <3>2
  <2>8. PointIn(lp, rowSign, left, basis, RhsIn(lp, rowSign)).num[p] = 0
    BY <2>1, <2>7 DEF CleanIn
  <2>9. \A j : EntryAt(p, j) = PointIn(lp, rowSign, left, basis, ColumnIn(lp, rowSign, j)).num[p]
    BY HeldBasis DEF EntryAt, PointIn
  <2>10. CASE U # {} /\ basis' = [basis EXCEPT ![p] = Min(U)] /\ left' = left
    <3>1. PICK j : j = Min(U)
      OBVIOUS
    <3>2. j \in U
      <4>1. U \in SUBSET lp.cols /\ U \subseteq Int
        BY <2>3, <2>5
      <4>2. IsFiniteSet(U)
        BY <2>5, <4>1, FS_Subset
      <4> QED
        BY <2>10, <3>1, <4>1, <4>2, MinOfSet
    <3>3. j \in lp.cols /\ j \in Nat /\ PointIn(lp, rowSign, left, basis, ColumnIn(lp, rowSign, j)).num[p] # 0
      BY <2>3, <2>5, <2>9, <3>2
    <3>4. PICK g : g = [basis EXCEPT ![p] = j]
      OBVIOUS
    <3>5. DOMAIN basis = left /\ \A q \in left : basis[q] \in Nat
      BY <1>2 DEF Placement
    <3>6. EntersAt(g, basis, left, p, j) /\ DOMAIN g = left
      BY <2>7, <3>4, <3>5 DEF EntersAt
    <3>7. CleanIn(lp, rowSign, left, g)
      BY <1>3, <2>1, <2>7, <3>3, <3>6, CleanPivot
    <3>8. basis' = g /\ left' = left /\ lp' = lp /\ rowSign' = rowSign /\ stage' = stage /\ answer' = answer
      BY <2>4, <2>10, <3>1, <3>4
    <3>9. CleanIn(lp', rowSign', left', basis') /\ ImpliedIn(lp', left')
      BY <2>1, <3>7, <3>8
    <3>10. Placement'
      <4>1. \A q \in left : g[q] \in Nat
        BY <3>3, <3>5, <3>6 DEF EntersAt
      <4> QED
        BY <1>2, <3>6, <3>8, <4>1 DEF Placement
    <3>11. \A q \in left : q < p + 1 => g[q] \in lp.cols
      <4> TAKE q \in left
      <4>1. q \in Nat /\ (q < p + 1 => q = p \/ q < p)
        BY <2>5, <2>7
      <4>2. q < p => g[q] = basis[q]
        BY <2>7, <3>6, <4>1 DEF EntersAt
      <4>3. g[p] = j
        BY <3>6 DEF EntersAt
      <4> QED
        BY <2>7, <3>3, <4>1, <4>2, <4>3
    <3>12. InClean'
      BY <2>4, <2>7, <3>8, <3>9, <3>11 DEF InClean
    <3> QED
      BY <1>1, <1>2, <3>8, <3>10, <3>12 DEF SimplexInv, Alarms
  <2>11. CASE U = {} /\ left' = left \ {p} /\ basis' = [q \in left' |-> basis[q]]
    <3>1. PICK M, g : M = left \ {p} /\ g = [q \in M |-> basis[q]]
      OBVIOUS
    <3>2. /\ left' = M /\ basis' = g /\ lp' = lp /\ rowSign' = rowSign /\ stage' = stage /\ answer' = answer
          /\ cleaned' = p + 1
      BY <2>4, <2>11, <3>1
    <3>3. Agrees(g, basis, left \ {p})
      BY <3>1 DEF Agrees
    <3>4. Redundant(lp, rowSign, left, basis, p)
      <4>1. \A j \in lp.cols : (\A q \in left : basis[q] # j) => j \notin Basic
        BY DEF Basic
      <4> QED
        BY <2>3, <2>7, <2>8, <2>9, <2>11, <4>1 DEF Redundant
    <3>5. ASSUME ~ Singular(MatrixIn(lp, rowSign, M, g), M)
          PROVE  CleanIn(lp, rowSign, M, g) /\ ImpliedIn(lp, M)
      <4>1. ~ Singular(MatrixIn(lp, rowSign, left \ {p}, g), left \ {p})
        BY <3>1, <3>5
      <4>2. ImpliedIn(lp, left \ {p})
        BY <1>3, <2>1, <3>3, <3>4, <4>1, DropImplied
      <4>3. CleanIn(lp, rowSign, left \ {p}, g)
        BY <1>3, <2>1, <2>7, <2>8, <3>3, <4>1, CleanDrop
      <4> QED
        BY <3>1, <4>2, <4>3
    <3>6. ~ Singular(MatrixIn(lp', rowSign', left', basis'), left')
            => CleanIn(lp', rowSign', left', basis') /\ ImpliedIn(lp', left')
      BY <3>2, <3>5
    <3>7. Placement'
      <4>1. M \subseteq left /\ DOMAIN g = M /\ \A q \in M : g[q] = basis[q]
        BY <3>1
      <4> QED
        BY <1>2, <3>2, <4>1 DEF Placement
    <3>8. \A q \in M : q < p + 1 => g[q] \in lp.cols
      <4> TAKE q \in M
      <4>1. q \in left /\ q # p /\ q \in Nat /\ g[q] = basis[q]
        BY <2>5, <3>1
      <4> QED
        BY <2>7, <4>1
    <3>9. InClean'
      BY <2>7, <3>2, <3>6, <3>8 DEF InClean
    <3> QED
      BY <1>1, <1>2, <3>2, <3>7, <3>9 DEF SimplexInv, Alarms
  <2> QED
    BY <2>4, <2>10, <2>11
<1> QED
  BY <1>5, <1>6

-----------------------------------------------------------------------------
\* The second phase starts from a clean basis.
LEMMA CleanEndsKeeps ==
  ASSUME SimplexInv, CleanEnds PROVE SimplexInv'
<1>1. stage = "clean" /\ ToClean = {}
  BY DEF CleanEnds
<1>2. Placement /\ InClean /\ Numbered(lp) /\ answer.message \notin Alarms
  BY <1>1 DEF SimplexInv
<1>3. BasisMatrix(basis) = MatrixIn(lp, rowSign, left, basis)
  BY HeldBasis
<1>4. CASE Singular(BasisMatrix(basis), left)
  <2>1. Fail("numerical_failure", "singular basis")
    BY <1>1, <1>4 DEF CleanEnds
  <2>2. "singular basis" \notin Alarms
    BY DEF Alarms
  <2> QED
    BY <2>1, <2>2, FailKeeps
<1>5. CASE ~ Singular(BasisMatrix(basis), left)
  <2>1. CleanIn(lp, rowSign, left, basis) /\ ImpliedIn(lp, left)
    BY <1>2, <1>3, <1>5 DEF InClean
  <2>2. /\ factored' = basis /\ stage' = "two" /\ lp' = lp /\ rowSign' = rowSign /\ left' = left /\ basis' = basis
        /\ answer' = answer
    BY <1>1, <1>5 DEF CleanEnds
  <2>3. \A p \in left : basis[p] \in lp.cols
    <3>1. lp.rows \subseteq Nat /\ left \subseteq lp.rows
      BY <1>2, NonbasicColumns DEF Placement
    <3> TAKE p \in left
    <3>2. p \in Nat /\ cleaned \in Nat /\ (p >= cleaned \/ p < cleaned)
      BY <1>2, <3>1 DEF InClean
    <3>3. p >= cleaned => basis[p] \in lp.cols
      BY <1>1 DEF ToClean, IsArtificial
    <3>4. p < cleaned => basis[p] \in lp.cols
      BY <1>2 DEF InClean
    <3> QED
      BY <3>2, <3>3, <3>4
  <2>4. FeasibleIn(lp, rowSign, left, basis)
    BY <2>1 DEF CleanIn
  <2>5. FeasibleIn(lp', rowSign', left', basis') /\ ImpliedIn(lp', left')
    BY <2>1, <2>2, <2>4
  <2>6. InTwo'
    BY <2>2, <2>3, <2>5 DEF InTwo
  <2>7. Placement'
    BY <1>2, <2>2 DEF Placement
  <2> QED
    BY <1>2, <2>2, <2>6, <2>7 DEF SimplexInv, Alarms
<1> QED
  BY <1>4, <1>5

\* So every step of the primal method does.
LEMMA PrimalKeeps ==
  ASSUME SimplexInv, PrimalStep PROVE SimplexInv'
BY StartKeeps, IterateKeeps, StopsKeep, CleanNextKeeps, CleanEndsKeeps DEF PrimalStep

-----------------------------------------------------------------------------
\* The primal method is started from scratch.
LEMMA ColdKeeps ==
  ASSUME SimplexInv, Cold PROVE SimplexInv'
<1>1. stage' = "start" /\ lp' = lp /\ answer' = answer
  BY DEF Cold
<1>2. Numbered(lp') /\ answer'.message \notin Alarms
  BY <1>1 DEF SimplexInv
<1> QED
  BY <1>1, <1>2 DEF SimplexInv, Alarms

\* The dual method starts from the basis given or falls back to the primal.
LEMMA DualStartKeeps ==
  ASSUME SimplexInv, DualStart PROVE SimplexInv'
<1>1. CASE Cold
  BY <1>1, ColdKeeps
<1>2. CASE Fail("numerical_failure", "invalid basis")
  <2>1. "invalid basis" \notin Alarms
    BY DEF Alarms
  <2> QED
    BY <1>2, <2>1, FailKeeps
<1>3. CASE /\ ValidWarm /\ ~ Singular(WarmMatrix, lp.rows)
           /\ stage' = "dual" /\ rowSign' = [i \in lp.rows |-> 1] /\ left' = lp.rows
           /\ basis' = warm.columns /\ factored' = warm.columns
           /\ step' = 0 /\ UNCHANGED <<lp, answer, warm, usedCold>>
  <2>1. Numbered(lp) /\ answer.message \notin Alarms
    BY DEF SimplexInv
  <2>2. PICK sg, f : sg = [i \in lp.rows |-> 1] /\ f = warm.columns
    OBVIOUS
  <2>3. DOMAIN f = lp.rows /\ \A i \in lp.rows : f[i] \in lp.cols
    BY <1>3, <2>2 DEF ValidWarm
  <2>4. Rows(lp, sg, lp.rows)
    BY <2>1, <2>2 DEF Rows
  <2>5. WarmMatrix = MatrixIn(lp, sg, lp.rows, f)
    <3>1. \A i, p \in lp.rows : ColumnIn(lp, sg, f[p])[i] = lp.a[i][f[p]]
      <4> TAKE i \in lp.rows, p \in lp.rows
      <4>1. f[p] \in lp.cols /\ lp.a[i][f[p]] \in Int
        BY <2>1, <2>3 DEF Numbered, LinearModel
      <4>2. ColumnIn(lp, sg, f[p])[i] = 1 * lp.a[i][f[p]]
        BY <2>2, <4>1 DEF ColumnIn
      <4> QED
        BY <4>1, <4>2
    <3> QED
      BY <2>2, <3>1 DEF WarmMatrix, MatrixIn
  <2>6. ModelBasis(lp, sg, lp.rows, f)
    BY <1>3, <2>3, <2>4, <2>5 DEF ModelBasis
  <2>7. /\ lp' = lp /\ rowSign' = sg /\ left' = lp.rows /\ basis' = f /\ factored' = f /\ step' = 0
        /\ answer' = answer /\ stage' = "dual"
    BY <1>3, <2>2
  <2>8. ModelBasis(lp', rowSign', left', basis')
    BY <2>6, <2>7
  <2>9. InDual'
    <3>1. ~ step' > 0
      BY <2>7
    <3>2. \A i \in lp.rows : sg[i] = 1
      BY <2>2
    <3> QED
      BY <2>7, <2>8, <3>1, <3>2 DEF InDual
  <2>10. Placement'
    <3>1. \A p \in lp.rows : f[p] \in Nat
      BY <2>1, <2>3 DEF Numbered
    <3> QED
      BY <2>2, <2>3, <2>7, <3>1 DEF Placement
  <2> QED
    BY <2>1, <2>7, <2>9, <2>10 DEF SimplexInv, Alarms
<1> QED
  BY <1>1, <1>2, <1>3 DEF DualStart

-----------------------------------------------------------------------------
\* What an iteration of the dual method starts from.
LEMMA DualFacts ==
  ASSUME SimplexInv, stage = "dual", NEW x, x = Ftran(WorkRhs), NEW y, y = Btran(BasicCosts)
  PROVE  /\ ModelBasis(lp, rowSign, left, basis) /\ Rows(lp, rowSign, left) /\ Numbered(lp)
         /\ ~ Singular(MatrixIn(lp, rowSign, left, basis), left)
         /\ left = lp.rows /\ factored = basis /\ ImpliedIn(lp, left) /\ \A i \in lp.rows : rowSign[i] = 1
         /\ x = PointIn(lp, rowSign, left, basis, RhsIn(lp, rowSign)) /\ AllInt(x.num, left)
         /\ y = PricesOf(lp, rowSign, left, basis)
         /\ \A j : Priced(j, y) = PriceAt(lp, rowSign, left, basis, j)
         /\ \A j \in lp.cols : PriceAt(lp, rowSign, left, basis, j) \in Int
         /\ (\A j \in lp.cols : Priced(j, y) >= 0) <=> DualFeasibleIn(lp, rowSign, left, basis)
<1>1. InDual /\ Placement /\ Numbered(lp)
  BY DEF SimplexInv
<1>2. /\ ModelBasis(lp, rowSign, left, basis) /\ left = lp.rows /\ factored = basis
      /\ \A i \in lp.rows : rowSign[i] = 1
  BY <1>1 DEF InDual
<1>3. Rows(lp, rowSign, left) /\ ~ Singular(MatrixIn(lp, rowSign, left, basis), left)
  BY <1>2 DEF ModelBasis
<1>4. Phase = 2
  BY DEF Phase
<1>5. ImpliedIn(lp, left)
  BY <1>2 DEF ImpliedIn
<1>6. x = PointIn(lp, rowSign, left, basis, RhsIn(lp, rowSign))
  BY <1>2, HeldBasis
<1>7. AllInt(RhsIn(lp, rowSign), left)
  BY <1>3, BasisSystem
<1>8. AllInt(x.num, left)
  BY <1>3, <1>6, <1>7, BasisPoint
<1>9. y = PricesOf(lp, rowSign, left, basis)
  BY <1>2, <1>4, HeldBasis DEF PricesOf
<1>10. \A j : Priced(j, y) = PriceAt(lp, rowSign, left, basis, j)
  BY <1>4, <1>9, HeldBasis DEF PriceAt
<1>11. \A j \in lp.cols : PriceAt(lp, rowSign, left, basis, j) \in Int
  BY <1>2, PriceType
<1>12. (\A j \in lp.cols : Priced(j, y) >= 0) <=> DualFeasibleIn(lp, rowSign, left, basis)
  BY <1>10 DEF DualFeasibleIn
<1> QED
  BY <1>1, <1>2, <1>3, <1>5, <1>6, <1>8, <1>9, <1>10, <1>11, <1>12

-----------------------------------------------------------------------------
\* The steps of the dual method.
\* It ends with an optimum,
LEMMA DualOptimalKeeps ==
  ASSUME SimplexInv, stage = "dual", NEW x, x = Ftran(WorkRhs), NEW y, y = Btran(BasicCosts),
         DualFeasibleNow(y), InfeasibleRows(x) = {}, Certify(Optimal(x, y))
  PROVE  SimplexInv'
<1>1. /\ ModelBasis(lp, rowSign, left, basis) /\ ImpliedIn(lp, left)
      /\ x = PointIn(lp, rowSign, left, basis, RhsIn(lp, rowSign)) /\ AllInt(x.num, left)
      /\ y = PricesOf(lp, rowSign, left, basis)
      /\ \A j : Priced(j, y) = PriceAt(lp, rowSign, left, basis, j)
  BY DualFacts
<1>2. \A p \in left : x.num[p] >= 0
  <2> TAKE p \in left
  <2>1. PICK r \in Int : r = x.num[p]
    BY <1>1 DEF AllInt
  <2>2. ~ r < 0
    BY <2>1 DEF InfeasibleRows
  <2> QED
    BY <2>1, <2>2
<1>3. y = PricesIn(lp, rowSign, left, basis, CostsIn(lp, 2, left, basis))
  BY <1>1 DEF PricesOf
<1>4. \A j \in lp.cols : (\A p \in left : basis[p] # j) => PricedIn(lp, rowSign, left, 2, j, y) >= 0
  BY <1>1 DEF DualFeasibleNow, PriceAt
<1>5. /\ x.den \in Nat \ {0}
      /\ OptimalWitness(Scaled(lp, x.den), SpreadIn(lp, left, basis, x.num), DualIn(lp, rowSign, left, y.num))
  BY <1>1, <1>2, <1>3, <1>4, OptimalAccepted
<1>6. Spread(x.num) = SpreadIn(lp, left, basis, x.num) /\ DualOf(y) = DualIn(lp, rowSign, left, y.num)
  BY HeldBasis
<1>7. /\ Optimal(x, y).status = "optimal" /\ Optimal(x, y).den = x.den /\ Optimal(x, y).message = ""
      /\ Optimal(x, y).primal = Spread(x.num) /\ Optimal(x, y).dual = DualOf(y)
  BY DEF Optimal, NoAnswer
<1>8. Accepted(Optimal(x, y))
  BY <1>5, <1>6, <1>7, AcceptedKinds
<1> QED
  BY <1>7, <1>8, CertifyKeeps DEF Alarms

\* The row of the tableau the dual method works with.
LEMMA TableauFacts ==
  ASSUME SimplexInv, stage = "dual", NEW x, x = Ftran(WorkRhs), NEW y, y = Btran(BasicCosts),
         NEW p \in InfeasibleRows(x), NEW pi, pi = Btran(UnitVector(p)), NEW alpha, alpha = TableauRow(pi)
  PROVE  /\ p \in left /\ x.num[p] < 0 /\ pi = PricesIn(lp, rowSign, left, basis, UnitAt(p, left))
         /\ \A j \in lp.cols : alpha[j] \in Int /\ alpha[j] = TableauIn(lp, rowSign, left, basis, p, j)
         /\ \A j \in lp.cols : (\A q \in left : basis[q] # j) <=> j \notin Basic
<1>1. /\ Rows(lp, rowSign, left) /\ ~ Singular(MatrixIn(lp, rowSign, left, basis), left) /\ factored = basis
  BY DualFacts
<1>2. p \in left /\ x.num[p] < 0
  BY DEF InfeasibleRows
<1>3. pi = PricesIn(lp, rowSign, left, basis, UnitAt(p, left))
  BY <1>1, HeldBasis
<1>4. \A j \in lp.cols : alpha[j] = TableauIn(lp, rowSign, left, basis, p, j)
  BY <1>3, HeldBasis DEF TableauIn
<1>5. \A j \in lp.cols : TableauIn(lp, rowSign, left, basis, p, j) \in Int
  BY <1>1, <1>2, TableauEntry
<1>6. \A j \in lp.cols : (\A q \in left : basis[q] # j) <=> j \notin Basic
  BY DEF Basic
<1> QED
  BY <1>2, <1>3, <1>4, <1>5, <1>6

\* with a Farkas vector,
LEMMA DualFarkasKeeps ==
  ASSUME SimplexInv, stage = "dual", NEW x, x = Ftran(WorkRhs), NEW y, y = Btran(BasicCosts),
         NEW p \in InfeasibleRows(x), NEW pi, pi = Btran(UnitVector(p)), NEW alpha, alpha = TableauRow(pi),
         Negative(alpha) = {}, Certify(Farkas(pi))
  PROVE  SimplexInv'
<1>1. /\ ModelBasis(lp, rowSign, left, basis) /\ left = lp.rows /\ \A i \in lp.rows : rowSign[i] = 1
      /\ x = PointIn(lp, rowSign, left, basis, RhsIn(lp, rowSign))
  BY DualFacts
<1>2. /\ p \in left /\ x.num[p] < 0 /\ pi = PricesIn(lp, rowSign, left, basis, UnitAt(p, left))
      /\ \A j \in lp.cols : alpha[j] \in Int /\ alpha[j] = TableauIn(lp, rowSign, left, basis, p, j)
      /\ \A j \in lp.cols : (\A q \in left : basis[q] # j) <=> j \notin Basic
  BY TableauFacts
<1>3. \A j \in lp.cols : (\A q \in left : basis[q] # j) => TableauIn(lp, rowSign, left, basis, p, j) >= 0
  <2> TAKE j \in lp.cols
  <2>1. PICK r \in Int : r = alpha[j]
    BY <1>2
  <2>2. j \notin Basic => ~ r < 0
    BY <2>1 DEF Negative
  <2>3. (\A q \in left : basis[q] # j) => r >= 0
    BY <1>2, <2>1, <2>2
  <2>4. r = TableauIn(lp, rowSign, left, basis, p, j)
    BY <1>2, <2>1
  <2> QED
    BY <2>3, <2>4
<1>4. FarkasWitness(lp, [i \in lp.rows |-> -PricesIn(lp, rowSign, lp.rows, basis, UnitAt(p, lp.rows)).num[i]])
  <2>1. /\ ModelBasis(lp, rowSign, lp.rows, basis) /\ p \in lp.rows
        /\ PointIn(lp, rowSign, lp.rows, basis, RhsIn(lp, rowSign)).num[p] < 0
        /\ \A j \in lp.cols : (\A q \in lp.rows : basis[q] # j) => TableauIn(lp, rowSign, lp.rows, basis, p, j) >= 0
    BY <1>1, <1>2, <1>3
  <2> QED
    BY <1>1, <2>1, DualFarkasAccepted
<1>5. /\ Farkas(pi).status = "infeasible" /\ Farkas(pi).message = ""
      /\ Farkas(pi).certificate = [i \in lp.rows |-> -pi.num[i]]
  BY DEF Farkas, NoAnswer
<1>6. Farkas(pi).certificate = [i \in lp.rows |-> -PricesIn(lp, rowSign, lp.rows, basis, UnitAt(p, lp.rows)).num[i]]
  BY <1>1, <1>2, <1>5
<1>7. Accepted(Farkas(pi))
  BY <1>4, <1>5, <1>6, AcceptedKinds
<1> QED
  BY <1>5, <1>7, CertifyKeeps DEF Alarms

\* or exchanges a column of least ratio.
LEMMA DualPivotKeeps ==
  ASSUME SimplexInv, stage = "dual", NEW x, x = Ftran(WorkRhs), NEW y, y = Btran(BasicCosts), DualFeasibleNow(y),
         NEW p \in InfeasibleRows(x), NEW pi, pi = Btran(UnitVector(p)), NEW alpha, alpha = TableauRow(pi),
         NEW j \in LeastRatios(alpha, y), Pivot(p, j)
  PROVE  SimplexInv'
<1>1. /\ ModelBasis(lp, rowSign, left, basis) /\ left = lp.rows /\ factored = basis /\ Numbered(lp)
      /\ \A i \in lp.rows : rowSign[i] = 1
      /\ \A k : Priced(k, y) = PriceAt(lp, rowSign, left, basis, k)
      /\ (\A k \in lp.cols : Priced(k, y) >= 0) <=> DualFeasibleIn(lp, rowSign, left, basis)
  BY DualFacts
<1>2. /\ p \in left
      /\ \A k \in lp.cols : alpha[k] \in Int /\ alpha[k] = TableauIn(lp, rowSign, left, basis, p, k)
      /\ \A k \in lp.cols : (\A q \in left : basis[q] # k) <=> k \notin Basic
  BY TableauFacts
<1>3. DualFeasibleIn(lp, rowSign, left, basis)
  BY <1>1 DEF DualFeasibleNow
<1>4. j \in lp.cols /\ alpha[j] < 0 /\ \A k \in Negative(alpha) : Priced(j, y) * alpha[k] >= Priced(k, y) * alpha[j]
  BY DEF LeastRatios, Negative
<1>5. LeastRatio(lp, rowSign, left, basis, p, j)
  <2>1. TableauIn(lp, rowSign, left, basis, p, j) < 0
    BY <1>2, <1>4
  <2>2. ASSUME NEW k \in lp.cols, \A q \in left : basis[q] # k, TableauIn(lp, rowSign, left, basis, p, k) < 0
        PROVE  PriceAt(lp, rowSign, left, basis, j) * TableauIn(lp, rowSign, left, basis, p, k)
                 >= PriceAt(lp, rowSign, left, basis, k) * TableauIn(lp, rowSign, left, basis, p, j)
    <3>1. k \in Negative(alpha)
      BY <1>2, <2>2 DEF Negative
    <3>2. Priced(j, y) * alpha[k] >= Priced(k, y) * alpha[j]
      BY <1>4, <3>1
    <3>3. /\ Priced(j, y) = PriceAt(lp, rowSign, left, basis, j) /\ Priced(k, y) = PriceAt(lp, rowSign, left, basis, k)
          /\ alpha[k] = TableauIn(lp, rowSign, left, basis, p, k)
          /\ alpha[j] = TableauIn(lp, rowSign, left, basis, p, j)
      BY <1>1, <1>2, <1>4
    <3> QED
      BY <3>2, <3>3
  <2> QED
    BY <1>4, <2>1, <2>2 DEF LeastRatio
<1>6. /\ basis' = [basis EXCEPT ![p] = j] /\ factored' = [factored EXCEPT ![p] = j]
      /\ lp' = lp /\ rowSign' = rowSign /\ left' = left /\ stage' = stage /\ answer' = answer
  BY DEF Pivot
<1>7. PICK g : g = [basis EXCEPT ![p] = j]
  OBVIOUS
<1>8. Placement /\ answer.message \notin Alarms
  BY DEF SimplexInv
<1>9. DOMAIN basis = left /\ \A q \in left : basis[q] \in Nat
  BY <1>8 DEF Placement
<1>10. EntersAt(g, basis, left, p, j) /\ DOMAIN g = left
  BY <1>2, <1>7, <1>9 DEF EntersAt
<1>11. ModelBasis(lp, rowSign, left, g) /\ DualFeasibleIn(lp, rowSign, left, g)
  BY <1>1, <1>2, <1>3, <1>5, <1>10, DualPivot
<1>12. basis' = g /\ factored' = g
  BY <1>1, <1>6, <1>7
<1>13. ModelBasis(lp', rowSign', left', basis') /\ DualFeasibleIn(lp', rowSign', left', basis')
  BY <1>6, <1>11, <1>12
<1>14. InDual'
  BY <1>1, <1>6, <1>12, <1>13 DEF InDual
<1>15. Placement'
  <2>1. j \in Nat
    BY <1>1, <1>4 DEF Numbered
  <2>2. \A q \in left : g[q] \in Nat
    BY <1>9, <1>10, <2>1 DEF EntersAt
  <2> QED
    BY <1>6, <1>8, <1>10, <1>12, <2>2 DEF Placement
<1> QED
  BY <1>1, <1>6, <1>8, <1>14, <1>15 DEF SimplexInv, Alarms

\* So does every iteration of the dual method.
LEMMA DualIterateKeeps ==
  ASSUME SimplexInv, DualIterate PROVE SimplexInv'
<1>1. stage = "dual" /\ step < remaining
  BY DEF DualIterate
<1>2. PICK x, y :
        /\ x = Ftran(WorkRhs) /\ y = Btran(BasicCosts)
        /\ \/ /\ ~ DualFeasibleNow(y)
              /\ \/ step > 0
                 \/ Cold \/ Fail("numerical_failure", "not dual feasible")
           \/ DualFeasibleNow(y) /\ InfeasibleRows(x) = {} /\ Certify(Optimal(x, y))
           \/ /\ DualFeasibleNow(y)
              /\ \E p \in InfeasibleRows(x) : \E pi \in {Btran(UnitVector(p))} :
                   \/ Negative(TableauRow(pi)) = {} /\ Certify(Farkas(pi))
                   \/ \E j \in LeastRatios(TableauRow(pi), y) : Pivot(p, j)
  BY DEF DualIterate
<1>3. CASE ~ DualFeasibleNow(y) /\ step > 0
  <2>1. (\A j \in lp.cols : Priced(j, y) >= 0) <=> DualFeasibleIn(lp, rowSign, left, basis)
    BY <1>1, <1>2, DualFacts
  <2>2. DualFeasibleIn(lp, rowSign, left, basis)
    BY <1>1, <1>3 DEF SimplexInv, InDual
  <2> QED
    BY <1>3, <2>1, <2>2 DEF DualFeasibleNow
<1>4. CASE Cold
  BY <1>4, ColdKeeps
<1>5. CASE Fail("numerical_failure", "not dual feasible")
  <2>1. "not dual feasible" \notin Alarms
    BY DEF Alarms
  <2> QED
    BY <1>5, <2>1, FailKeeps
<1>6. CASE DualFeasibleNow(y) /\ InfeasibleRows(x) = {} /\ Certify(Optimal(x, y))
  BY <1>1, <1>2, <1>6, DualOptimalKeeps
<1>7. ASSUME DualFeasibleNow(y), NEW p \in InfeasibleRows(x), NEW pi, pi = Btran(UnitVector(p)),
             Negative(TableauRow(pi)) = {}, Certify(Farkas(pi))
      PROVE  SimplexInv'
  BY <1>1, <1>2, <1>7, DualFarkasKeeps
<1>8. ASSUME DualFeasibleNow(y), NEW p \in InfeasibleRows(x), NEW pi, pi = Btran(UnitVector(p)),
             NEW j \in LeastRatios(TableauRow(pi), y), Pivot(p, j)
      PROVE  SimplexInv'
  BY <1>1, <1>2, <1>8, DualPivotKeeps
<1> QED
  BY <1>2, <1>3, <1>4, <1>5, <1>6, <1>7, <1>8

\* Every step of the methods, and every other.
LEMMA SimplexKept ==
  ASSUME SimplexInv, SimplexStep PROVE SimplexInv'
BY PrimalKeeps, DualStartKeeps, DualIterateKeeps DEF SimplexStep

\* Stuttering changes nothing.
LEMMA SimplexRests ==
  ASSUME SimplexInv, UNCHANGED <<lp, workVars, stage, step, cleaned, answer>> PROVE SimplexInv'
<1>1. /\ lp' = lp /\ rowSign' = rowSign /\ left' = left /\ basis' = basis /\ factored' = factored
      /\ stage' = stage /\ step' = step /\ cleaned' = cleaned /\ answer' = answer
  BY DEF workVars
<1> QED
  BY <1>1 DEF SimplexInv, Placement, InOne, InClean, InTwo, InDual
=============================================================================
