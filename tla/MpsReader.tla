----------------------------- MODULE MpsReader -----------------------------
(***************************************************************************)
(* parse_mps: a free-format MPS file is read line by line into a model.    *)
(* What a data line means depends on the section the last header opened    *)
(* and on what was read before it, and sections may come in any order and  *)
(* more than once.  The model built is keyed by the names of the rows and  *)
(* columns.                                                                *)
(***************************************************************************)
EXTENDS MpsFile

CONSTANTS
  Files,        \* the files that may be given
  Flawed,       \* those that break the contract of the format
  MaxRows, MaxColumns, MaxNonzeros     \* MpsLimits

ASSUME ReaderConstants == MaxRows \in Nat /\ MaxColumns \in Nat /\ MaxNonzeros \in Nat

\* Tokens are not empty, and a line without tokens starts nowhere.
NoName == ""
Line == [margin : BOOLEAN, fields : Seq(STRING \ {NoName})]
ASSUME FilesAreText ==
  \A f \in Files : f \in Seq(Line) /\ \A k \in DOMAIN f : f[k].margin => f[k].fields # <<>>

VARIABLES
  at,           \* how many lines were read
  section,
  sense, objectiveName,
  rows, columns,
  entries, quad,      \* tagged with where they were read
  vectors,      \* rhs_vector, range_vector and bound_vector
  inBlock, sawEnd,
  outcome, model
tables == <<rows, columns, entries, quad>>
options == <<sense, objectiveName, vectors, inBlock>>
vars == <<file, at, section, tables, options, sawEnd, outcome, model>>

NoModel == [sense |-> 0]
RimSections == {"RHS", "RANGES"}
QuadSections == {"QUADOBJ", "QMATRIX"}
Headers == {"NAME", "OBJSENSE", "OBJNAME", "ROWS", "COLUMNS", "BOUNDS", "ENDATA"}
             \union RimSections \union QuadSections

Init ==
  /\ file \in Files /\ at = 0 /\ section = "none"
  /\ sense = 1 /\ objectiveName = NoName
  /\ rows = <<>> /\ columns = <<>> /\ entries = {} /\ quad = {}
  /\ vectors = [s \in {"RHS", "RANGES", "BOUNDS"} |-> NoName]
  /\ inBlock = FALSE /\ sawEnd = FALSE
  /\ outcome = "reading" /\ model = NoModel

-----------------------------------------------------------------------------
Reading == outcome = "reading" /\ at < Len(file)
Fields == file[at + 1].fields
Data(s) == Reading /\ Fields # <<>> /\ ~ file[at + 1].margin /\ ~ sawEnd /\ section = s

NextLine == at' = at + 1 /\ UNCHANGED <<file, outcome, model>>
Reject == outcome' = "error" /\ UNCHANGED <<file, at, section, tables, options, sawEnd, model>>

IsNumber(token) == token \in DOMAIN Number
RowNamed(name) == {i \in DOMAIN rows : rows[i].name = name}
TheRow(name) == CHOOSE i \in RowNamed(name) : TRUE

\* find_or_add_column: the table with the column in it, and where.
ColumnNamed(table, name) == {j \in DOMAIN table : table[j].name = name}
Fresh(name) ==
  [name |-> name, type |-> IF inBlock THEN "integer" ELSE "continuous",
   lower |-> At(0), upper |-> IF inBlock THEN At(1) ELSE NoBound, objective |-> 0]
WithColumn(table, name) ==
  IF ColumnNamed(table, name) = {} THEN Append(table, Fresh(name)) ELSE table
TheColumn(table, name) == CHOOSE j \in ColumnNamed(table, name) : TRUE
Fits(table) == Len(table) <= MaxColumns

\* The row and value tokens of a record, from field `start` on.
Pairs(start) ==
  [k \in 1 .. (Len(Fields) + 1 - start) \div 2 |->
     [row |-> Fields[start + 2 * k - 2], value |-> Fields[start + 2 * k - 1]]]

-----------------------------------------------------------------------------
\* Blank lines and comments.
SkipLine ==
  /\ Reading /\ Fields = <<>>
  /\ NextLine /\ UNCHANGED <<section, tables, options, sawEnd>>

AfterEnd == Reading /\ Fields # <<>> /\ sawEnd /\ Reject

Header ==
  /\ Reading /\ Fields # <<>> /\ file[at + 1].margin /\ ~ sawEnd
  /\ IF Head(Fields) \in Headers /\ (Head(Fields) = "NAME" \/ Len(Fields) = 1)
     THEN /\ section' = IF Head(Fields) = "NAME" THEN "none" ELSE Head(Fields)
          /\ sawEnd' = (Head(Fields) = "ENDATA")
          /\ NextLine /\ UNCHANGED <<tables, options>>
     ELSE Reject

Stray == Data("none") /\ Reject

ObjectiveSense ==
  /\ Data("OBJSENSE")
  /\ IF Len(Fields) = 1 /\ Head(Fields) \in {"MIN", "MAX"}
     THEN /\ sense' = IF Head(Fields) = "MIN" THEN 1 ELSE -1
          /\ section' = "none"
          /\ NextLine /\ UNCHANGED <<tables, objectiveName, vectors, inBlock, sawEnd>>
     ELSE Reject

ObjectiveNameRecord ==
  /\ Data("OBJNAME")
  /\ IF Len(Fields) = 1
     THEN /\ objectiveName' = Head(Fields) /\ section' = "none"
          /\ NextLine /\ UNCHANGED <<tables, sense, vectors, inBlock, sawEnd>>
     ELSE Reject

RowRecord ==
  /\ Data("ROWS")
  /\ IF Len(Fields) = 2 /\ Fields[1] \in {"N", "E", "L", "G"} /\ RowNamed(Fields[2]) = {} /\ Len(rows) < MaxRows
     THEN /\ rows' = Append(rows, [type |-> Fields[1], name |-> Fields[2], rhs |-> NoBound, range |-> NoBound])
          /\ objectiveName' = IF Fields[1] = "N" /\ objectiveName = NoName THEN Fields[2] ELSE objectiveName
          /\ NextLine /\ UNCHANGED <<section, columns, entries, quad, sense, vectors, inBlock, sawEnd>>
     ELSE Reject

IsMarker == Len(Fields) = 3 /\ Fields[2] = "MARKER"
Marker ==
  /\ Data("COLUMNS") /\ IsMarker
  /\ IF Fields[3] = (IF inBlock THEN "INTEND" ELSE "INTORG")
     THEN inBlock' = ~ inBlock
          /\ NextLine /\ UNCHANGED <<section, tables, sense, objectiveName, vectors, sawEnd>>
     ELSE Reject

\* A column named again inside an integer block becomes integer then.
MadeInteger(table, j) ==
  IF inBlock /\ table[j].type = "continuous"
  THEN [table EXCEPT ![j].type = "integer", ![j].upper = At(1)] ELSE table
SumOver(pairs, S) == Total([k \in S |-> Number[pairs[k].value]], S)

InObjectiveByName(pair) == pair.row = objectiveName
InObjective(pair) == rows[TheRow(pair.row)].type = "N"

ColumnRecord ==
  /\ Data("COLUMNS") /\ ~ IsMarker
  /\ LET table == WithColumn(columns, Fields[1])
         j == TheColumn(table, Fields[1])
         pairs == Pairs(2)
         ofObjective == {k \in DOMAIN pairs : InObjective(pairs[k])}
         cells == {[place |-> <<at, k>>, row |-> TheRow(pairs[k].row), column |-> j,
                    value |-> Number[pairs[k].value]] : k \in DOMAIN pairs \ ofObjective}
     IN  IF /\ Len(Fields) \in {3, 5} /\ Fits(table)
            /\ \A k \in DOMAIN pairs : RowNamed(pairs[k].row) # {} /\ IsNumber(pairs[k].value)
            /\ \A k \in ofObjective : pairs[k].row = objectiveName
            /\ Cardinality(entries \union cells) <= MaxNonzeros
         THEN /\ columns' = [MadeInteger(table, j) EXCEPT ![j].objective = @ + SumOver(pairs, ofObjective)]
              /\ entries' = entries \union cells
              /\ NextLine /\ UNCHANGED <<section, rows, quad, options, sawEnd>>
         ELSE Reject

\* RHS and RANGES: without a vector's name the record has an even length.
AnyVector(s, name) == TRUE
OneVector(s, name) == vectors[s] \in {NoName, name}
RimRecord(s) ==
  /\ Data(s)
  /\ LET named == Len(Fields) \in {3, 5}
         pairs == Pairs(IF named THEN 2 ELSE 1)
         field(i) == IF s = "RHS" THEN rows[i].rhs ELSE rows[i].range
         given(i) == {k \in DOMAIN pairs : TheRow(pairs[k].row) = i}
         value(i) == At(Number[pairs[CHOOSE k \in given(i) : TRUE].value])
     IN  IF /\ Len(Fields) \in 2 .. 5 /\ (named => OneVector(s, Fields[1]))
            /\ \A k \in DOMAIN pairs : RowNamed(pairs[k].row) # {} /\ IsNumber(pairs[k].value)
            /\ \A k \in DOMAIN pairs : LET i == TheRow(pairs[k].row)
                 IN rows[i].type # "N" /\ ~ field(i).finite /\ Cardinality(given(i)) = 1
         THEN /\ rows' = [i \in DOMAIN rows |->
                   IF given(i) = {} THEN rows[i]
                   ELSE IF s = "RHS" THEN [rows[i] EXCEPT !.rhs = value(i)]
                   ELSE [rows[i] EXCEPT !.range = value(i)]]
              /\ vectors' = IF named THEN [vectors EXCEPT ![s] = Fields[1]] ELSE vectors
              /\ NextLine /\ UNCHANGED <<section, columns, entries, quad, sense, objectiveName, inBlock, sawEnd>>
         ELSE Reject

Bounded(c, type, z) ==
  CASE type = "LO" -> [c EXCEPT !.lower = At(z)]
    [] type = "UP" -> [c EXCEPT !.upper = At(z)]
    [] type = "FX" -> [c EXCEPT !.lower = At(z), !.upper = At(z)]
    [] type = "FR" -> [c EXCEPT !.lower = NoBound, !.upper = NoBound]
    [] type = "MI" -> [c EXCEPT !.lower = NoBound]
    [] type = "PL" -> [c EXCEPT !.upper = NoBound]
    [] type = "BV" -> [c EXCEPT !.type = "binary", !.lower = At(0), !.upper = At(1)]
    [] type = "LI" -> [c EXCEPT !.type = "integer", !.lower = At(z)]
    [] type = "UI" -> [c EXCEPT !.type = "integer", !.upper = At(z)]
NumberedBounds == {"LO", "UP", "FX", "LI", "UI"}
PlainBounds == {"FR", "MI", "PL", "BV"}

BoundRecord ==
  /\ Data("BOUNDS")
  /\ IF /\ \/ Len(Fields) = 4 /\ Fields[1] \in NumberedBounds /\ IsNumber(Fields[4])
           \/ Len(Fields) = 3 /\ Fields[1] \in PlainBounds
        /\ OneVector("BOUNDS", Fields[2]) /\ Fits(WithColumn(columns, Fields[3]))
     THEN LET table == WithColumn(columns, Fields[3])
              j == TheColumn(table, Fields[3])
              z == IF Len(Fields) = 4 THEN Number[Fields[4]] ELSE 0
          IN  /\ columns' = [table EXCEPT ![j] = Bounded(@, Fields[1], z)]
              /\ vectors' = [vectors EXCEPT !["BOUNDS"] = Fields[2]]
              /\ NextLine /\ UNCHANGED <<section, rows, entries, quad, sense, objectiveName, inBlock, sawEnd>>
     ELSE Reject

QuadRecord(s) ==
  /\ Data(s)
  /\ LET table == WithColumn(WithColumn(columns, Fields[1]), Fields[2])
     IN  IF Len(Fields) = 3 /\ Fits(table) /\ IsNumber(Fields[3])
         THEN /\ columns' = table
              /\ quad' = quad \union
                   {[place |-> at, first |-> TheColumn(table, Fields[1]),
                     second |-> TheColumn(table, Fields[2]), value |-> Number[Fields[3]],
                     mirrored |-> s = "QUADOBJ"]}
              /\ NextLine /\ UNCHANGED <<section, rows, entries, options, sawEnd>>
         ELSE Reject

-----------------------------------------------------------------------------
\* The interval of a row, from its type, right-hand side and range.
Magnitude(z) == IF z < 0 THEN -z ELSE z
RowLowerBelow(type, rhs, range) ==
  CASE type = "G" -> At(rhs.value)
    [] type \in {"E", "L"} -> IF range.finite \/ type = "E" THEN At(rhs.value - Magnitude(range.value)) ELSE NoBound
RowLower(type, rhs, range) ==
  CASE type = "G" \/ (type = "E" /\ range.value >= 0) -> At(rhs.value)
    [] type = "E" /\ range.value < 0 -> At(rhs.value - Magnitude(range.value))
    [] type = "L" -> IF range.finite THEN At(rhs.value - Magnitude(range.value)) ELSE NoBound
RowUpper(type, rhs, range) ==
  CASE type = "L" \/ (type = "E" /\ range.value <= 0) -> At(rhs.value)
    [] type = "E" /\ range.value > 0 -> At(rhs.value + Magnitude(range.value))
    [] type = "G" -> IF range.finite THEN At(rhs.value + Magnitude(range.value)) ELSE NoBound

\* The entries of a matrix, duplicates summed: SparseMatrixBuilder::build.
Summed(S) == Total([e \in S |-> e.value], S)
Hessian(i, j) ==
  Summed({q \in quad : q.first = i /\ q.second = j})
    + Summed({q \in quad : q.mirrored /\ i # j /\ q.first = j /\ q.second = i})

Constraints == {i \in DOMAIN rows : rows[i].type # "N"}
RowNames == {rows[i].name : i \in Constraints}
ColumnNames == {columns[j].name : j \in DOMAIN columns}
Col(name) == TheColumn(columns, name)
Built ==
  [sense |-> sense,
   type |-> [x \in ColumnNames |-> columns[Col(x)].type],
   lower |-> [x \in ColumnNames |-> columns[Col(x)].lower],
   upper |-> [x \in ColumnNames |-> columns[Col(x)].upper],
   objective |-> [x \in ColumnNames |-> columns[Col(x)].objective],
   rowLower |-> [r \in RowNames |-> LET i == TheRow(r) IN RowLower(rows[i].type, rows[i].rhs, rows[i].range)],
   rowUpper |-> [r \in RowNames |-> LET i == TheRow(r) IN RowUpper(rows[i].type, rows[i].rhs, rows[i].range)],
   matrix |-> [r \in RowNames |-> [x \in ColumnNames |->
      Summed({e \in entries : e.row = TheRow(r) /\ e.column = Col(x)})]],
   hessian |-> [x \in ColumnNames |-> [y \in ColumnNames |-> Hessian(Col(x), Col(y))]]]

\* Model::validate
Consistent(lower, upper) == lower.finite /\ upper.finite => lower.value <= upper.value
Valid(m) ==
  /\ \A x \in DOMAIN m.type :
       /\ Consistent(m.lower[x], m.upper[x])
       /\ m.type[x] = "binary" => /\ m.lower[x].finite /\ m.upper[x].finite
                                  /\ m.lower[x].value >= 0 /\ m.upper[x].value <= 1
  /\ \A r \in DOMAIN m.rowLower : Consistent(m.rowLower[r], m.rowUpper[r])

EndOfFile ==
  /\ outcome = "reading" /\ at = Len(file)
  /\ IF sawEnd /\ ~ inBlock /\ RowNamed(objectiveName) # {} /\ Valid(Built)
     THEN outcome' = "read" /\ model' = Built
     ELSE outcome' = "error" /\ UNCHANGED model
  /\ UNCHANGED <<file, at, section, tables, options, sawEnd>>

Next ==
  \/ SkipLine \/ AfterEnd \/ Header \/ Stray
  \/ ObjectiveSense \/ ObjectiveNameRecord
  \/ RowRecord \/ Marker \/ ColumnRecord
  \/ (\E s \in RimSections : RimRecord(s))
  \/ BoundRecord
  \/ (\E s \in QuadSections : QuadRecord(s))
  \/ EndOfFile

Spec == Init /\ [][Next]_vars

-----------------------------------------------------------------------------
(***************************************************************************)
(* The reader reads what the file declares, whatever the order of its      *)
(* sections, and however often one comes back, as long as the columns come *)
(* before what is said of them.                                            *)
(***************************************************************************)
ReadsDeclared ==
  outcome = "read" /\ Orderly =>
    /\ model.sense = Sense
    /\ DOMAIN model.rowLower = RowsOfType({"E", "L", "G"})
    /\ \A r \in DOMAIN model.rowLower : \A z \in -5 .. 5 :
         Within(z, model.rowLower[r], model.rowUpper[r]) <=> RowHolds(r, z)
    /\ DOMAIN model.type = ColumnsOfFile
    /\ \A x \in DOMAIN model.type :
         /\ model.type[x] = Type(x)
         /\ model.lower[x] = Lower(x) /\ model.upper[x] = Upper(x)
         /\ model.objective[x] = Coefficient(ObjectiveRow, x)
         /\ \A r \in DOMAIN model.matrix : model.matrix[r][x] = Coefficient(r, x)
         /\ \A y \in DOMAIN model.type : model.hessian[x][y] = QuadraticEntry(x, y)

(***************************************************************************)
(* A file is rejected if it breaks the contract of the format, and only    *)
(* then: no order of the sections of a sound file makes it unreadable.     *)
(***************************************************************************)
RejectsTheFlawed == outcome # "reading" => (outcome = "error" <=> file \in Flawed)

(***************************************************************************)
(* The tables the model is built from, by position: names are unique, no   *)
(* table outgrows its limit, and every entry lies in a row and a column    *)
(* that exist, and never in an objective row, which has no index in the    *)
(* matrix.                                                                 *)
(***************************************************************************)
DistinctNames(table) == \A i, j \in DOMAIN table : table[i].name = table[j].name => i = j
IndicesResolve ==
  /\ DistinctNames(rows) /\ Len(rows) <= MaxRows
  /\ DistinctNames(columns) /\ Len(columns) <= MaxColumns
  /\ Cardinality(entries) <= MaxNonzeros
  /\ \A e \in entries : /\ e.row \in DOMAIN rows /\ rows[e.row].type # "N"
                         /\ e.column \in DOMAIN columns
  /\ \A q \in quad : q.first \in DOMAIN columns /\ q.second \in DOMAIN columns
=============================================================================
