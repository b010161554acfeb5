------------------------------ MODULE MpsFile ------------------------------
(***************************************************************************)
(* What an MPS file declares, by its lines alone: each section is a table  *)
(* of records, and it does not matter where in the file they stand.  A     *)
(* line is [margin, fields]: whether it starts in the first column, where  *)
(* headers stand, and its tokens.                                          *)
(***************************************************************************)
EXTENDS Canonicalize

CONSTANT Number  \* the tokens that are finite numbers, with their values
ASSUME NumbersAreWhole == \A t \in DOMAIN Number : Number[t] \in Int

VARIABLE file    \* the lines

Lines == DOMAIN file
Word(k, n) == file[k].fields[n]
Width(k) == Len(file[k].fields)

\* The data lines of the sections S.
HeadersBefore(k) == {i \in 1 .. k - 1 : file[i].margin}
Under(S) ==
  {k \in Lines : /\ ~ file[k].margin /\ Width(k) > 0
                 /\ HeadersBefore(k) # {} /\ Word(Max(HeadersBefore(k)), 1) \in S}

Markers(word) == {k \in Under({"COLUMNS"}) : Width(k) = 3 /\ Word(k, 2) = "MARKER" /\ Word(k, 3) = word}
Mentions(x) ==
  {k \in Under({"COLUMNS"}) \ (Markers("INTORG") \union Markers("INTEND")) : Word(k, 1) = x}
ColumnsOfFile == {Word(k, 1) : k \in Under({"COLUMNS"}) \ (Markers("INTORG") \union Markers("INTEND"))}
Marked(x) ==
  \E k \in Mentions(x) :
    Cardinality({i \in Markers("INTORG") : i < k}) > Cardinality({i \in Markers("INTEND") : i < k})

-----------------------------------------------------------------------------
\* Cells: a name and the value after it, at an even or odd place of a line.
CellsOf(k, first) == {<<k, n>> : n \in {i \in first .. Width(k) - 1 : (i - first) % 2 = 0}}
NameIn(c) == Word(c[1], c[2])
Values(C) == Total([c \in C |-> Number[Word(c[1], c[2] + 1)]], C)

Coefficient(r, x) == Values({c \in UNION {CellsOf(k, 2) : k \in Mentions(x)} : NameIn(c) = r})
RimCells(s, r) == {c \in UNION {CellsOf(k, 1 + (Width(k) % 2)) : k \in Under({s})} : NameIn(c) = r}
Rim(s, r) == Values(RimCells(s, r))

TypeOf(r) == Word(Min({k \in Under({"ROWS"}) : Word(k, 2) = r}), 1)
RowsOfType(T) == {Word(k, 2) : k \in {i \in Under({"ROWS"}) : Word(i, 1) \in T}}
ObjectiveRow ==
  IF Under({"OBJNAME"}) # {} THEN Word(Max(Under({"OBJNAME"})), 1)
  ELSE Word(Min({k \in Under({"ROWS"}) : Word(k, 1) = "N"}), 2)
Sense ==
  IF Under({"OBJSENSE"}) # {} /\ Word(Max(Under({"OBJSENSE"})), 1) = "MAX" THEN -1 ELSE 1

\* A row holds for the activity z: the right-hand side bounds it, and a range
\* bounds it on the other side; on an equation the sign of the range tells
\* which side is opened.
RowHolds(r, z) ==
  LET b == Rim("RHS", r) w == Rim("RANGES", r) ranged == RimCells("RANGES", r) # {}
      near == z - b \in -w .. w \/ z - b \in w .. -w
  IN  CASE TypeOf(r) = "L" -> z <= b /\ (ranged => near)
        [] TypeOf(r) = "G" -> z >= b /\ (ranged => near)
        [] TypeOf(r) = "E" -> z - b \in 0 .. w \/ z - b \in w .. 0

-----------------------------------------------------------------------------
\* The last record that bounds a side of a column counts.
BoundsOf(x, types) == {k \in Under({"BOUNDS"}) : Word(k, 3) = x /\ Word(k, 1) \in types}
Latest(x, types) == Max(BoundsOf(x, types))
Kind(k) == Word(k, 1)
Limit(k, ofBinary) == IF Kind(k) = "BV" THEN At(ofBinary) ELSE At(Number[Word(k, 4)])

SetLower == {"LO", "FX", "LI", "BV", "FR", "MI"}
SetUpper == {"UP", "FX", "UI", "BV", "FR", "PL"}
Lower(x) ==
  IF BoundsOf(x, SetLower) = {} THEN At(0)
  ELSE IF Kind(Latest(x, SetLower)) \in {"FR", "MI"} THEN NoBound ELSE Limit(Latest(x, SetLower), 0)
Upper(x) ==
  IF BoundsOf(x, SetUpper) = {} THEN (IF Marked(x) THEN At(1) ELSE NoBound)
  ELSE IF Kind(Latest(x, SetUpper)) \in {"FR", "PL"} THEN NoBound ELSE Limit(Latest(x, SetUpper), 1)
Type(x) ==
  IF BoundsOf(x, {"BV", "LI", "UI"}) = {} THEN (IF Marked(x) THEN "integer" ELSE "continuous")
  ELSE IF Kind(Latest(x, {"BV", "LI", "UI"})) = "BV" THEN "binary" ELSE "integer"

\* QMATRIX gives each entry of the Hessian, QUADOBJ those on and on one side
\* of the diagonal.
Written(s, x, y) ==
  LET K == {k \in Under({s}) : Word(k, 1) = x /\ Word(k, 2) = y}
  IN  Total([k \in K |-> Number[Word(k, 3)]], K)
QuadraticEntry(x, y) ==
  Written("QMATRIX", x, y) + Written("QUADOBJ", x, y) + (IF x = y THEN 0 ELSE Written("QUADOBJ", y, x))

(***************************************************************************)
(* The order the sections must keep: a column is named in COLUMNS before   *)
(* it is bounded or given curvature, and the objective before it is given  *)
(* coefficients.                                                           *)
(***************************************************************************)
Orderly ==
  /\ \A k \in Under({"BOUNDS"}) : Mentions(Word(k, 3)) # {} /\ \A i \in Mentions(Word(k, 3)) : i < k
  /\ \A k \in Under({"QUADOBJ", "QMATRIX"}), n \in {1, 2} : \E i \in Mentions(Word(k, n)) : i < k
  /\ \A k \in Under({"OBJNAME"}) : \A i \in Under({"COLUMNS"}) : k < i
  /\ ObjectiveRow \in RowsOfType({"N"})
=============================================================================
