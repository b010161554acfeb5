-------------------------- MODULE MpsReader_proofs --------------------------
(***************************************************************************)
(* The tables the reader fills stay consistent, and a file whose columns   *)
(* come before what is said of them is read as it declares, for every file *)
(* and every limit.  A table is a sequence of records; of a file only that *)
(* it is a sequence of lines is assumed, of its tokens only that numbers   *)
(* are numbers.                                                            *)
(***************************************************************************)
EXTENDS MpsReader, Models_proofs

Elements(t) == {t[i] : i \in DOMAIN t}
IsTable(t) == t \in Seq(Elements(t))

IsRow(r) == r = [f \in {"type", "name", "rhs", "range"} |-> r[f]]
IsColumn(c) == c = [f \in {"name", "type", "lower", "upper", "objective"} |-> c[f]]

GoodRows(t) == IsTable(t) /\ DistinctNames(t) /\ \A i \in DOMAIN t : IsRow(t[i])
GoodColumns(t) == IsTable(t) /\ DistinctNames(t) /\ \A j \in DOMAIN t : IsColumn(t[j])

ReaderInv == IndicesResolve /\ GoodRows(rows) /\ GoodColumns(columns)

-----------------------------------------------------------------------------
\* A sequence is a table of its own elements.
LEMMA SequenceIsTable ==
  ASSUME NEW n \in Nat, NEW u, u = [i \in 1 .. n |-> u[i]]
  PROVE  IsTable(u)
<1>1. \A i \in 1 .. n : u[i] \in Elements(u)
  BY DEF Elements
<1>2. u \in [1 .. n -> Elements(u)]
  <2> DEFINE E == Elements(u)
  <2> HIDE DEF E
  <2>1. \A i \in 1 .. n : u[i] \in E BY <1>1 DEF E
  <2>2. u \in [1 .. n -> E] BY <2>1
  <2> QED BY <2>2 DEF E
<1>3. Seq(Elements(u)) = UNION {[1 .. k -> Elements(u)] : k \in Nat}
  BY SeqDef, Zenon
<1>4. u \in UNION {[1 .. k -> Elements(u)] : k \in Nat}
  BY <1>2, Zenon
<1> QED BY <1>3, <1>4, Zenon DEF IsTable

\* A record appended to a table.
LEMMA AppendTable ==
  ASSUME NEW t, IsTable(t), NEW e
  PROVE  /\ IsTable(Append(t, e)) /\ Len(t) \in Nat /\ Len(Append(t, e)) = Len(t) + 1
         /\ DOMAIN t = 1 .. Len(t) /\ DOMAIN Append(t, e) = 1 .. Len(t) + 1
         /\ \A i \in DOMAIN t : Append(t, e)[i] = t[i]
         /\ Append(t, e)[Len(t) + 1] = e
<1> DEFINE S == Elements(t) \union {e}
           u == Append(t, e)
<1>1. t \in Seq(S)
  BY SeqMonotonic DEF IsTable
<1>2. /\ u \in Seq(S) /\ Len(t) \in Nat /\ Len(u) = Len(t) + 1 /\ DOMAIN t = 1 .. Len(t)
      /\ DOMAIN u = 1 .. Len(t) + 1 /\ u[Len(t) + 1] = e
      /\ \A i \in DOMAIN t : u[i] = t[i]
  BY <1>1
<1>3. Len(t) + 1 \in Nat /\ u = [i \in 1 .. Len(t) + 1 |-> u[i]]
  BY <1>2, LenProperties
<1>4. IsTable(u)
  BY <1>3, SequenceIsTable
<1> QED BY <1>2, <1>4

\* A table whose records were changed in place.
LEMMA SameDomain ==
  ASSUME NEW t, IsTable(t), NEW u, u = [i \in DOMAIN t |-> u[i]]
  PROVE  IsTable(u) /\ DOMAIN u = DOMAIN t /\ Len(u) = Len(t)
<1>1. Len(t) \in Nat /\ DOMAIN t = 1 .. Len(t)
  BY LenProperties DEF IsTable
<1>3. IsTable(u)
  BY <1>1, SequenceIsTable
<1>4. DOMAIN u = 1 .. Len(u) /\ Len(u) \in Nat
  BY <1>3, LenProperties DEF IsTable
<1> QED BY <1>1, <1>3, <1>4

\* find_or_add_column finds or adds one column of that name.
LEMMA FoundOrAdded ==
  ASSUME NEW t, GoodColumns(t), NEW name
  PROVE  /\ GoodColumns(WithColumn(t, name)) /\ DOMAIN t \subseteq DOMAIN WithColumn(t, name)
         /\ \A j \in DOMAIN t : WithColumn(t, name)[j] = t[j]
         /\ TheColumn(WithColumn(t, name), name) \in DOMAIN WithColumn(t, name)
<1>1. CASE ColumnNamed(t, name) # {}
  BY <1>1 DEF WithColumn, TheColumn, ColumnNamed
<1>2. CASE ColumnNamed(t, name) = {}
  <2> DEFINE u == Append(t, Fresh(name))
  <2>1. /\ IsTable(u) /\ Len(t) \in Nat /\ DOMAIN t = 1 .. Len(t) /\ DOMAIN u = 1 .. Len(t) + 1
        /\ \A i \in DOMAIN t : u[i] = t[i]
        /\ u[Len(t) + 1] = Fresh(name)
    BY AppendTable DEF GoodColumns
  <2>2. IsColumn(Fresh(name)) /\ Fresh(name).name = name
    BY DEF Fresh, IsColumn
  <2>3. GoodColumns(u)
    BY <1>2, <2>1, <2>2 DEF GoodColumns, DistinctNames, ColumnNamed
  <2>4. Len(t) + 1 \in ColumnNamed(u, name)
    BY <2>1, <2>2 DEF ColumnNamed
  <2>5. TheColumn(u, name) \in DOMAIN u
    BY <2>4 DEF TheColumn, ColumnNamed
  <2> QED BY <1>2, <2>1, <2>3, <2>5 DEF WithColumn
<1> QED BY <1>1, <1>2

\* A column rewritten with its name kept.
LEMMA Rewritten ==
  ASSUME NEW t, GoodColumns(t), NEW j \in DOMAIN t, NEW c, IsColumn(c), c.name = t[j].name
  PROVE  /\ GoodColumns([t EXCEPT ![j] = c]) /\ DOMAIN [t EXCEPT ![j] = c] = DOMAIN t
         /\ Len([t EXCEPT ![j] = c]) = Len(t)
<1> DEFINE u == [t EXCEPT ![j] = c]
<1>1. IsTable(u) /\ DOMAIN u = DOMAIN t /\ Len(u) = Len(t)
  <2>1. u = [i \in DOMAIN t |-> u[i]]
    OBVIOUS
  <2> QED BY <2>1, SameDomain DEF GoodColumns
<1>2. \A i \in DOMAIN u : IsColumn(u[i]) /\ u[i].name = t[i].name
  BY DEF GoodColumns
<1> QED BY <1>1, <1>2 DEF GoodColumns, DistinctNames

-----------------------------------------------------------------------------
\* Empty tables are sound, and so are tables left alone.
LEMMA ReaderInit == Init => ReaderInv
<1> SUFFICES ASSUME Init PROVE ReaderInv
  OBVIOUS
<1>1. rows = <<>> /\ columns = <<>> /\ entries = {} /\ quad = {}
  BY DEF Init
<1>2. IsTable(<<>>) /\ DOMAIN <<>> = {} /\ Len(<<>>) = 0
  BY EmptySeq DEF IsTable
<1> QED BY <1>1, <1>2, FS_EmptySet, ReaderConstants
        DEF ReaderInv, IndicesResolve, GoodRows, GoodColumns, DistinctNames

LEMMA ReaderUntouched == ReaderInv /\ UNCHANGED tables => ReaderInv'
BY DEF ReaderInv, IndicesResolve, GoodRows, GoodColumns, IsTable, Elements, DistinctNames, tables

\* A row is only appended, under a name that is new.
LEMMA ReaderRow == ReaderInv /\ RowRecord => ReaderInv'
<1> SUFFICES ASSUME ReaderInv, RowRecord,
                    rows' = Append(rows, [type |-> Fields[1], name |-> Fields[2],
                                          rhs |-> NoBound, range |-> NoBound]),
                    RowNamed(Fields[2]) = {}, Len(rows) < MaxRows, UNCHANGED <<columns, entries, quad>>
             PROVE  ReaderInv'
  BY ReaderUntouched DEF RowRecord, Reject
<1> DEFINE e == [type |-> Fields[1], name |-> Fields[2], rhs |-> NoBound, range |-> NoBound]
<1>1. /\ IsTable(rows') /\ Len(rows) \in Nat /\ Len(rows') = Len(rows) + 1
      /\ DOMAIN rows = 1 .. Len(rows) /\ DOMAIN rows' = 1 .. Len(rows) + 1
      /\ \A i \in DOMAIN rows : rows'[i] = rows[i]
      /\ rows'[Len(rows) + 1] = e
  BY AppendTable DEF ReaderInv, GoodRows
<1>2. IsRow(e) /\ e.name = Fields[2]
  BY DEF IsRow
<1>3. DistinctNames(rows')
  BY <1>1, <1>2 DEF ReaderInv, GoodRows, DistinctNames, RowNamed
<1>4. \A i \in DOMAIN rows' : IsRow(rows'[i])
  BY <1>1, <1>2 DEF ReaderInv, GoodRows
<1>5. \A c \in entries : c.row \in DOMAIN rows' /\ rows'[c.row].type # "N" /\ c.column \in DOMAIN columns
  BY <1>1 DEF ReaderInv, IndicesResolve
<1>6. Len(rows') <= MaxRows
  BY <1>1, ReaderConstants
<1>7. GoodColumns(columns)' /\ GoodRows(rows)' /\ DistinctNames(rows)' /\ DistinctNames(columns)'
  <2>1. GoodRows(rows') /\ GoodColumns(columns) /\ columns' = columns
    BY <1>1, <1>3, <1>4 DEF ReaderInv, GoodRows
  <2>2. GoodRows(rows)' /\ DistinctNames(rows)'
    BY <2>1 DEF GoodRows, DistinctNames, IsTable, Elements
  <2>3. GoodColumns(columns)' /\ DistinctNames(columns)'
    BY <2>1 DEF GoodColumns, DistinctNames, IsTable, Elements
  <2> QED BY <2>2, <2>3
<1> QED BY <1>5, <1>6, <1>7 DEF ReaderInv, IndicesResolve

\* A record of COLUMNS adds entries of its own column in rows that exist.
LEMMA ReaderColumn == ReaderInv /\ ColumnRecord => ReaderInv'
<1> SUFFICES ASSUME ReaderInv, ColumnRecord, ~ Reject PROVE ReaderInv'
  BY ReaderUntouched DEF Reject
<1> DEFINE table == WithColumn(columns, Fields[1])
           j == TheColumn(table, Fields[1])
           pairs == Pairs(2)
           ofObjective == {k \in DOMAIN pairs : InObjective(pairs[k])}
           cells == {[place |-> <<at, k>>, row |-> TheRow(pairs[k].row), column |-> j,
                      value |-> Number[pairs[k].value]] : k \in DOMAIN pairs \ ofObjective}
<1> HIDE DEF pairs
<1>1. /\ Fits(table) /\ \A k \in DOMAIN pairs : RowNamed(pairs[k].row) # {}
      /\ Cardinality(entries \union cells) <= MaxNonzeros
      /\ columns' = [MadeInteger(table, j) EXCEPT ![j].objective = @ + SumOver(pairs, ofObjective)]
      /\ entries' = entries \union cells
      /\ UNCHANGED <<rows, quad>>
  BY DEF ColumnRecord, pairs
<1>2. /\ GoodColumns(table) /\ DOMAIN columns \subseteq DOMAIN table /\ j \in DOMAIN table
  BY FoundOrAdded DEF ReaderInv
<1> HIDE DEF table, j
<1>3. /\ GoodColumns(MadeInteger(table, j)) /\ DOMAIN MadeInteger(table, j) = DOMAIN table
      /\ Len(MadeInteger(table, j)) = Len(table)
  <2> DEFINE c == [table[j] EXCEPT !.type = "integer", !.upper = At(1)]
  <2>1. IsColumn(c) /\ c.name = table[j].name
    <3>1. IsColumn(table[j])
      BY <1>2 DEF GoodColumns
    <3> HIDE DEF table, j
    <3> QED BY <3>1 DEF IsColumn
  <2>2. [table EXCEPT ![j].type = "integer", ![j].upper = At(1)] = [table EXCEPT ![j] = c]
    BY <1>2, <2>1
  <2>3. GoodColumns([table EXCEPT ![j] = c]) /\ DOMAIN [table EXCEPT ![j] = c] = DOMAIN table
        /\ Len([table EXCEPT ![j] = c]) = Len(table)
    BY <1>2, <2>1, Rewritten
  <2> QED BY <1>2, <2>2, <2>3 DEF MadeInteger
<1> DEFINE table2 == MadeInteger(table, j)
<1> HIDE DEF table2
<1>4. GoodColumns(columns') /\ DOMAIN columns' = DOMAIN table /\ Len(columns') = Len(table)
  <2> DEFINE z == SumOver(pairs, ofObjective)
             c == [table2[j] EXCEPT !.objective = @ + z]
  <2> HIDE DEF z
  <2>1. IsColumn(table2[j]) /\ j \in DOMAIN table2
    BY <1>2, <1>3 DEF GoodColumns, table2
  <2>2. IsColumn(c) /\ c.name = table2[j].name
    BY <2>1 DEF IsColumn
  <2>3. columns' = [table2 EXCEPT ![j] = c]
    BY <1>1, <2>1 DEF table2, z
  <2> QED BY <1>3, <2>1, <2>2, <2>3, Rewritten DEF table2
<1>5. \A c \in cells : c.row \in DOMAIN rows /\ rows[c.row].type # "N" /\ c.column \in DOMAIN columns'
  <2> SUFFICES ASSUME NEW k \in DOMAIN pairs \ ofObjective
               PROVE  /\ TheRow(pairs[k].row) \in DOMAIN rows /\ rows[TheRow(pairs[k].row)].type # "N"
                      /\ j \in DOMAIN columns'
    OBVIOUS
  <2>1. TheRow(pairs[k].row) \in DOMAIN rows
    BY <1>1 DEF TheRow, RowNamed
  <2>2. rows[TheRow(pairs[k].row)].type # "N"
    BY DEF InObjective
  <2> QED BY <1>2, <1>4, <2>1, <2>2
<1>6. GoodRows(rows)' /\ GoodColumns(columns)' /\ DistinctNames(rows)' /\ DistinctNames(columns)'
  <2>1. GoodRows(rows) /\ rows' = rows
    BY <1>1 DEF ReaderInv
  <2> QED BY <1>4, <2>1 DEF GoodRows, GoodColumns, DistinctNames, IsTable, Elements
<1>7. /\ \A e \in entries' : e.row \in DOMAIN rows' /\ rows'[e.row].type # "N" /\ e.column \in DOMAIN columns'
      /\ \A q \in quad' : q.first \in DOMAIN columns' /\ q.second \in DOMAIN columns'
  <2>1. \A e \in entries : e.row \in DOMAIN rows /\ rows[e.row].type # "N" /\ e.column \in DOMAIN columns'
    BY <1>2, <1>4 DEF ReaderInv, IndicesResolve
  <2>2. \A q \in quad : q.first \in DOMAIN columns' /\ q.second \in DOMAIN columns'
    BY <1>2, <1>4 DEF ReaderInv, IndicesResolve
  <2> QED BY <1>1, <1>5, <2>1, <2>2
<1>8. Len(rows') <= MaxRows /\ Len(columns') <= MaxColumns /\ Cardinality(entries') <= MaxNonzeros
  BY <1>1, <1>4 DEF ReaderInv, IndicesResolve, Fits
<1> QED BY <1>6, <1>7, <1>8 DEF ReaderInv, IndicesResolve

\* A right-hand side or a range changes neither name nor type of a row.
LEMMA ReaderRim == ASSUME NEW s, ReaderInv, RimRecord(s) PROVE ReaderInv'
<1> SUFFICES ASSUME ~ Reject PROVE ReaderInv'
  BY ReaderUntouched DEF Reject
<1>1. PICK given, value :
        /\ rows' = [i \in DOMAIN rows |->
             IF given[i] THEN rows[i]
             ELSE IF s = "RHS" THEN [rows[i] EXCEPT !.rhs = value[i]]
             ELSE [rows[i] EXCEPT !.range = value[i]]]
        /\ UNCHANGED <<columns, entries, quad>>
  <2> DEFINE pairs == Pairs(IF Len(Fields) \in {3, 5} THEN 2 ELSE 1)
             at_(i) == {k \in DOMAIN pairs : TheRow(pairs[k].row) = i}
             value_(i) == At(Number[pairs[CHOOSE k \in at_(i) : TRUE].value])
             g == [i \in DOMAIN rows |-> at_(i) = {}]
             v == [i \in DOMAIN rows |-> value_(i)]
  <2>1. /\ rows' = [i \in DOMAIN rows |->
             IF at_(i) = {} THEN rows[i]
             ELSE IF s = "RHS" THEN [rows[i] EXCEPT !.rhs = value_(i)]
             ELSE [rows[i] EXCEPT !.range = value_(i)]]
        /\ UNCHANGED <<columns, entries, quad>>
    BY DEF RimRecord
  <2> HIDE DEF at_, value_
  <2>2. rows' = [i \in DOMAIN rows |->
             IF g[i] THEN rows[i]
             ELSE IF s = "RHS" THEN [rows[i] EXCEPT !.rhs = v[i]]
             ELSE [rows[i] EXCEPT !.range = v[i]]]
    BY <2>1
  <2> HIDE DEF g, v
  <2>3. UNCHANGED <<columns, entries, quad>>
    BY <2>1
  <2> HIDE <2>1
  <2> WITNESS g, v
  <2> QED BY <2>2, <2>3
<1>2. IsTable(rows') /\ DOMAIN rows' = DOMAIN rows /\ Len(rows') = Len(rows)
  <2>1. rows' = [i \in DOMAIN rows |-> rows'[i]]
    BY <1>1
  <2> QED BY <2>1, SameDomain DEF ReaderInv, GoodRows
<1>3. \A i \in DOMAIN rows : IsRow(rows'[i]) /\ rows'[i].name = rows[i].name /\ rows'[i].type = rows[i].type
  <2> TAKE i \in DOMAIN rows
  <2>1. IsRow(rows[i])
    BY DEF ReaderInv, GoodRows
  <2>2. \/ rows'[i] = rows[i]
        \/ rows'[i] = [rows[i] EXCEPT !.rhs = value[i]]
        \/ rows'[i] = [rows[i] EXCEPT !.range = value[i]]
    BY <1>1
  <2> QED BY <2>1, <2>2 DEF IsRow
<1>4. DistinctNames(rows')
  BY <1>2, <1>3 DEF ReaderInv, GoodRows, DistinctNames
<1>5. GoodRows(rows)' /\ GoodColumns(columns)' /\ DistinctNames(rows)' /\ DistinctNames(columns)'
  <2>1. GoodRows(rows') /\ GoodColumns(columns) /\ columns' = columns
    BY <1>1, <1>2, <1>3, <1>4 DEF ReaderInv, GoodRows
  <2> QED BY <2>1 DEF GoodRows, GoodColumns, DistinctNames, IsTable, Elements
<1>6. \A e \in entries : e.row \in DOMAIN rows' /\ rows'[e.row].type # "N" /\ e.column \in DOMAIN columns
  BY <1>2, <1>3 DEF ReaderInv, IndicesResolve
<1> QED BY <1>1, <1>2, <1>5, <1>6 DEF ReaderInv, IndicesResolve

\* What a table of more columns does not disturb.
LEMMA MoreColumns ==
  ASSUME ReaderInv, UNCHANGED <<rows, entries>>, GoodColumns(columns'), Len(columns') <= MaxColumns,
         DOMAIN columns \subseteq DOMAIN columns',
         \A q \in quad' : q \in quad \/ (q.first \in DOMAIN columns' /\ q.second \in DOMAIN columns')
  PROVE  ReaderInv'
<1>1. GoodRows(rows)' /\ GoodColumns(columns)' /\ DistinctNames(rows)' /\ DistinctNames(columns)'
  BY DEF ReaderInv, GoodRows, GoodColumns, DistinctNames, IsTable, Elements
<1>2. /\ \A e \in entries' : e.row \in DOMAIN rows' /\ rows'[e.row].type # "N" /\ e.column \in DOMAIN columns'
      /\ \A q \in quad' : q.first \in DOMAIN columns' /\ q.second \in DOMAIN columns'
  BY DEF ReaderInv, IndicesResolve
<1> QED BY <1>1, <1>2 DEF ReaderInv, IndicesResolve

\* Each bound type keeps the name of its column.
LEMMA BoundedColumn ==
  ASSUME NEW c, IsColumn(c), NEW type \in NumberedBounds \union PlainBounds, NEW z
  PROVE  IsColumn(Bounded(c, type, z)) /\ Bounded(c, type, z).name = c.name
<1> DEFINE keeps(d) == IsColumn(d) /\ d.name = c.name
<1>1. /\ keeps([c EXCEPT !.lower = At(z)]) /\ keeps([c EXCEPT !.upper = At(z)])
      /\ keeps([c EXCEPT !.lower = At(z), !.upper = At(z)])
  BY DEF IsColumn
<1>2. /\ keeps([c EXCEPT !.lower = NoBound, !.upper = NoBound])
      /\ keeps([c EXCEPT !.lower = NoBound]) /\ keeps([c EXCEPT !.upper = NoBound])
  BY DEF IsColumn
<1>3. /\ keeps([c EXCEPT !.type = "binary", !.lower = At(0), !.upper = At(1)])
      /\ keeps([c EXCEPT !.type = "integer", !.lower = At(z)])
      /\ keeps([c EXCEPT !.type = "integer", !.upper = At(z)])
  BY DEF IsColumn
<1> HIDE DEF keeps
<1>4. keeps(Bounded(c, type, z))
  BY <1>1, <1>2, <1>3 DEF Bounded, NumberedBounds, PlainBounds
<1> QED BY <1>4 DEF keeps

\* A bound moves no column.
LEMMA ReaderBound == ReaderInv /\ BoundRecord => ReaderInv'
<1> SUFFICES ASSUME ReaderInv, BoundRecord, ~ Reject PROVE ReaderInv'
  BY ReaderUntouched DEF Reject
<1> DEFINE table == WithColumn(columns, Fields[3])
           j == TheColumn(table, Fields[3])
           z == IF Len(Fields) = 4 THEN Number[Fields[4]] ELSE 0
           c == Bounded(table[j], Fields[1], z)
<1>1. /\ Fits(table) /\ Fields[1] \in NumberedBounds \union PlainBounds
      /\ columns' = [table EXCEPT ![j] = c] /\ UNCHANGED <<rows, entries, quad>>
  BY DEF BoundRecord
<1>2. GoodColumns(table) /\ DOMAIN columns \subseteq DOMAIN table /\ j \in DOMAIN table
  BY FoundOrAdded DEF ReaderInv
<1> HIDE DEF table, j, z
<1>3. IsColumn(c) /\ c.name = table[j].name
  BY <1>1, <1>2, BoundedColumn DEF GoodColumns
<1> HIDE DEF c
<1>4. GoodColumns(columns') /\ DOMAIN columns' = DOMAIN table /\ Len(columns') = Len(table)
  BY <1>1, <1>2, <1>3, Rewritten
<1> QED BY <1>1, <1>2, <1>4, MoreColumns DEF Fits

\* A record of the Hessian adds the columns it names.
LEMMA ReaderQuad == ASSUME NEW s, ReaderInv, QuadRecord(s) PROVE ReaderInv'
<1> SUFFICES ASSUME ~ Reject PROVE ReaderInv'
  BY ReaderUntouched DEF Reject
<1> DEFINE one == WithColumn(columns, Fields[1])
           table == WithColumn(one, Fields[2])
           q == [place |-> at, first |-> TheColumn(table, Fields[1]), second |-> TheColumn(table, Fields[2]),
                 value |-> Number[Fields[3]], mirrored |-> s = "QUADOBJ"]
<1>1. Fits(table) /\ columns' = table /\ quad' = quad \union {q} /\ UNCHANGED <<rows, entries>>
  BY DEF QuadRecord
<1>2. GoodColumns(one) /\ DOMAIN columns \subseteq DOMAIN one /\ TheColumn(one, Fields[1]) \in DOMAIN one
      /\ ColumnNamed(one, Fields[1]) # {}
  <2>1. GoodColumns(columns)
    BY DEF ReaderInv
  <2>2. GoodColumns(one) /\ DOMAIN columns \subseteq DOMAIN one /\ TheColumn(one, Fields[1]) \in DOMAIN one
    BY <2>1, FoundOrAdded
  <2>3. ColumnNamed(one, Fields[1]) # {}
    <3>1. CASE ColumnNamed(columns, Fields[1]) # {}
      BY <3>1 DEF WithColumn
    <3>2. CASE ColumnNamed(columns, Fields[1]) = {}
      <4>1. Len(columns) + 1 \in ColumnNamed(Append(columns, Fresh(Fields[1])), Fields[1])
        BY <2>1, AppendTable DEF GoodColumns, ColumnNamed, Fresh
      <4> QED BY <3>2, <4>1 DEF WithColumn
    <3> QED BY <3>1, <3>2
  <2> QED BY <2>2, <2>3
<1>3. /\ GoodColumns(table) /\ DOMAIN one \subseteq DOMAIN table
      /\ \A i \in DOMAIN one : table[i] = one[i]
      /\ TheColumn(table, Fields[2]) \in DOMAIN table
  BY <1>2, FoundOrAdded
<1>4. TheColumn(table, Fields[1]) \in DOMAIN table
  <2>1. ColumnNamed(table, Fields[1]) # {}
    BY <1>2, <1>3 DEF ColumnNamed
  <2> QED BY <2>1 DEF TheColumn, ColumnNamed
<1> HIDE DEF table, one
<1>5. q.first \in DOMAIN table /\ q.second \in DOMAIN table
  BY <1>3, <1>4
<1> HIDE DEF q
<1> QED BY <1>1, <1>2, <1>3, <1>5, MoreColumns DEF Fits

\* Every step keeps the tables sound.
LEMMA ReaderNext == ReaderInv /\ [Next]_vars => ReaderInv'
<1> SUFFICES ASSUME ReaderInv, [Next]_vars PROVE ReaderInv'
  OBVIOUS
<1>1. CASE RowRecord BY <1>1, ReaderRow
<1>2. CASE ColumnRecord BY <1>2, ReaderColumn
<1>3. ASSUME NEW s \in RimSections, RimRecord(s) PROVE ReaderInv' BY <1>3, ReaderRim
<1>4. CASE BoundRecord BY <1>4, ReaderBound
<1>5. ASSUME NEW s \in QuadSections, QuadRecord(s) PROVE ReaderInv' BY <1>5, ReaderQuad
<1>6. CASE SkipLine \/ AfterEnd \/ Header \/ Stray
  BY <1>6, ReaderUntouched DEF SkipLine, AfterEnd, Header, Stray, Reject
<1>7. CASE ObjectiveSense \/ ObjectiveNameRecord \/ Marker
  BY <1>7, ReaderUntouched DEF ObjectiveSense, ObjectiveNameRecord, Marker, Reject, tables
<1>8. CASE EndOfFile
  BY <1>8, ReaderUntouched DEF EndOfFile
<1>9. CASE UNCHANGED vars
  BY <1>9, ReaderUntouched DEF vars
<1> QED BY <1>1, <1>2, <1>3, <1>4, <1>5, <1>6, <1>7, <1>8, <1>9 DEF Next

(***************************************************************************)
(* Whatever file is read under whatever limits, the positions stored in    *)
(* the tables resolve, names stay unique and no table outgrows its limit.  *)
(***************************************************************************)
THEOREM ReaderIndicesResolve == Spec => []IndicesResolve
<1>1. ReaderInv => IndicesResolve BY DEF ReaderInv
<1> QED BY ReaderInit, ReaderNext, <1>1, PTL DEF Spec

-----------------------------------------------------------------------------
(***************************************************************************)
(* Sums.                                                                   *)
(***************************************************************************)
\* A sum does not depend on how its terms are named.
LEMMA TotalMoved ==
  ASSUME NEW S, IsFiniteSet(S), NEW T, IsFiniteSet(T), NEW v, \A k \in S : v[k] \in T,
         \A t \in T : \E k \in S : v[k] = t, \A k, l \in S : v[k] = v[l] => k = l,
         NEW f, AllInt(f, T), NEW g, \A k \in S : g[k] = f[v[k]]
  PROVE  Total(g, S) = Total(f, T)
<1>1. AllInt(g, S)
  BY DEF AllInt
<1> DEFINE h == [t \in T |-> Total(g, {k \in S : v[k] = t})]
<1>2. Total(g, S) = Total(h, T)
  BY <1>1, TotalClasses
<1>3. ASSUME NEW t \in T PROVE h[t] = f[t]
  <2>1. PICK k \in S : v[k] = t
    OBVIOUS
  <2>2. {l \in S : v[l] = t} = {k}
    BY <2>1
  <2>3. Total(g, {k}) = g[k]
    <3>1. IsFiniteSet({k}) /\ k \in {k} /\ g[k] \in Int /\ \A x \in {k} \ {k} : g[x] = 0
      BY <1>1, <2>1, FS_Singleton DEF AllInt
    <3> HIDE DEF h
    <3> QED
      BY <3>1, TotalSingle
  <2> QED
    BY <2>1, <2>2, <2>3
<1> HIDE DEF h
<1>4. AllInt(h, T)
  BY <1>3 DEF AllInt
<1>5. Total(h, T) = Total(f, T)
  BY <1>3, <1>4, TotalEqual
<1> QED
  BY <1>2, <1>5

\* The sum over two sets without a common member.
LEMMA TotalParts ==
  ASSUME NEW A, IsFiniteSet(A), NEW B, IsFiniteSet(B), A \cap B = {}, NEW f, AllInt(f, A \union B),
         NEW g, \A k \in A : g[k] = f[k], NEW h, \A k \in B : h[k] = f[k]
  PROVE  Total(f, A \union B) = Total(g, A) + Total(h, B)
<1>1. IsFiniteSet(A \union B) /\ A \in SUBSET (A \union B) /\ (A \union B) \ A = B
  BY FS_Union
<1>2. Total(f, A \union B) = Total(f, A) + Total(f, (A \union B) \ A)
  BY <1>1, TotalUnion
<1>3. AllInt(f, A) /\ AllInt(f, B) /\ AllInt(g, A) /\ AllInt(h, B)
  BY DEF AllInt
<1>4. Total(g, A) = Total(f, A)
  BY <1>3, TotalEqual
<1>5. Total(h, B) = Total(f, B)
  BY <1>3, TotalEqual
<1> QED
  BY <1>1, <1>2, <1>4, <1>5

\* The values of entries.
LEMMA SummedParts ==
  ASSUME NEW A, IsFiniteSet(A), NEW B, IsFiniteSet(B), A \cap B = {}, \A e \in A \union B : e.value \in Int
  PROVE  Summed(A \union B) = Summed(A) + Summed(B)
<1> DEFINE f == [e \in A \union B |-> e.value]
           g == [e \in A |-> e.value]
           h == [e \in B |-> e.value]
<1>1. AllInt(f, A \union B) /\ (\A k \in A : g[k] = f[k]) /\ \A k \in B : h[k] = f[k]
  BY DEF AllInt
<1>2. Summed(A \union B) = Total(f, A \union B) /\ Summed(A) = Total(g, A) /\ Summed(B) = Total(h, B)
  BY DEF Summed
<1> HIDE DEF f, g, h
<1>3. Total(f, A \union B) = Total(g, A) + Total(h, B)
  BY <1>1, TotalParts
<1> QED
  BY <1>2, <1>3

-----------------------------------------------------------------------------
(***************************************************************************)
(* What the reader knows of the lines it has read: each part says of one   *)
(* of its tables that it holds what those lines declare.  Together, for a  *)
(* file in order, they are inductive and give the model at the end.        *)
(***************************************************************************)
\* The lines read so far, by section.
Seen(T) == {k \in Under(T) : k <= at}

\* The section the reader is in is that of the last header before the line.
TextInv ==
  /\ file \in Files /\ at \in 0 .. Len(file)
  /\ section # "none" =>
       HeadersBefore(at + 1) # {} /\ Word(Max(HeadersBefore(at + 1)), 1) = section

SeenObjectives == {k \in Seen({"ROWS"}) : Word(k, 1) = "N"}

\* The sense is the last one given, the objective the one named last or, if
\* none is, the first row of type N.
ObjectiveInv ==
  /\ sense = IF Seen({"OBJSENSE"}) # {} /\ Word(Max(Seen({"OBJSENSE"})), 1) = "MAX" THEN -1 ELSE 1
  /\ objectiveName = IF Seen({"OBJNAME"}) # {} THEN Word(Max(Seen({"OBJNAME"})), 1)
                     ELSE IF SeenObjectives # {} THEN Word(Min(SeenObjectives), 2) ELSE NoName

RowTypes == {"N", "E", "L", "G"}
Declares(k, row) == Word(k, 1) = row.type /\ Word(k, 2) = row.name

\* The rows are the records of ROWS, one each.
RowsInv ==
  /\ \A i \in DOMAIN rows : rows[i].type \in RowTypes /\ \E k \in Seen({"ROWS"}) : Declares(k, rows[i])
  /\ \A k \in Seen({"ROWS"}) : \E i \in DOMAIN rows : Declares(k, rows[i])
  /\ \A k, l \in Seen({"ROWS"}) : Word(k, 2) = Word(l, 2) => k = l
  /\ \A k \in Seen({"ROWS"}) : Width(k) = 2

ValueAt(c) == Word(c[1], c[2] + 1)
RimLine(k) == CellsOf(k, 1 + (Width(k) % 2))
SeenRim(s, r) == {c \in UNION {RimLine(k) : k \in Seen({s})} : NameIn(c) = r}
Rimmed(C, given) ==
  \/ C = {} /\ given = NoBound
  \/ \E c \in C : C = {c} /\ IsNumber(ValueAt(c)) /\ given = At(Number[ValueAt(c)])

\* A row has a right-hand side or a range if and only if one cell gives it.
RimInv ==
  /\ \A i \in DOMAIN rows : \A r \in {rows[i].name} :
       Rimmed(SeenRim("RHS", r), rows[i].rhs) /\ Rimmed(SeenRim("RANGES", r), rows[i].range)
  /\ \A s \in RimSections : \A k \in Seen({s}) : \A c \in RimLine(k) : RowNamed(NameIn(c)) # {}

SeenMarkers(word) == {k \in Seen({"COLUMNS"}) : Width(k) = 3 /\ Word(k, 2) = "MARKER" /\ Word(k, 3) = word}
SeenColumns == Seen({"COLUMNS"}) \ (SeenMarkers("INTORG") \union SeenMarkers("INTEND"))
SeenMentions(x) == {k \in SeenColumns : Word(k, 1) = x}

\* The columns are those the records of COLUMNS name.
ColumnsInv ==
  /\ \A j \in DOMAIN columns : SeenMentions(columns[j].name) # {}
  /\ \A k \in SeenColumns : ColumnNamed(columns, Word(k, 1)) # {}

\* Every cell holds a number and names a row, and no objective row but the one.
CellsInv ==
  \A k \in SeenColumns : \A c \in CellsOf(k, 2) :
    /\ IsNumber(ValueAt(c))
    /\ \E i \in RowNamed(NameIn(c)) : rows[i].type = "N" => rows[i].name = objectiveName

\* A block of integers is open between its two markers.
BlockInv == Cardinality(SeenMarkers("INTORG")) = Cardinality(SeenMarkers("INTEND")) + (IF inBlock THEN 1 ELSE 0)

Opened(k) == Cardinality({i \in SeenMarkers("INTORG") : i < k}) > Cardinality({i \in SeenMarkers("INTEND") : i < k})
SeenMarked(x) == \E k \in SeenMentions(x) : Opened(k)
SeenBounds(x, T) == {k \in Seen({"BOUNDS"}) : Word(k, 3) = x /\ Word(k, 1) \in T}
LastRead(x, T) == Max(SeenBounds(x, T))
LowerRead(x) ==
  IF SeenBounds(x, SetLower) = {} THEN At(0)
  ELSE IF Kind(LastRead(x, SetLower)) \in {"FR", "MI"} THEN NoBound ELSE Limit(LastRead(x, SetLower), 0)
UpperRead(x) ==
  IF SeenBounds(x, SetUpper) = {} THEN (IF SeenMarked(x) THEN At(1) ELSE NoBound)
  ELSE IF Kind(LastRead(x, SetUpper)) \in {"FR", "PL"} THEN NoBound ELSE Limit(LastRead(x, SetUpper), 1)
Integral == {"BV", "LI", "UI"}
TypeRead(x) ==
  IF SeenBounds(x, Integral) = {} THEN (IF SeenMarked(x) THEN "integer" ELSE "continuous")
  ELSE IF Kind(LastRead(x, Integral)) = "BV" THEN "binary" ELSE "integer"

\* The type and the bounds of a column are those the last records of BOUNDS
\* and the markers give it.
BoundsInv ==
  \A j \in DOMAIN columns : \A x \in {columns[j].name} :
    columns[j].type = TypeRead(x) /\ columns[j].lower = LowerRead(x) /\ columns[j].upper = UpperRead(x)

SeenCells(r, x) == {c \in UNION {CellsOf(k, 2) : k \in SeenMentions(x)} : NameIn(c) = r}
SumRead(r, x) == Values(SeenCells(r, x))
EntriesAt(i, j) == {e \in entries : e.row = i /\ e.column = j}
CostKept == \A i \in RowNamed(objectiveName) : rows[i].type = "N"

\* The entries of a row and a column add up to the cells that give them; so
\* does the objective, once its row is known.
EntriesInv ==
  /\ IsFiniteSet(entries) /\ \A e \in entries : e.place[1] \in 0 .. at - 1 /\ e.value \in Int
  /\ \A j \in DOMAIN columns : \A x \in {columns[j].name} :
       /\ CostKept => \A r \in {objectiveName} : columns[j].objective = SumRead(r, x)
       /\ \A i \in DOMAIN rows : rows[i].type # "N" =>
            \A r \in {rows[i].name} : Summed(EntriesAt(i, j)) = SumRead(r, x)

SeenQuad(s, x, y) == {k \in Seen({s}) : Word(k, 1) = x /\ Word(k, 2) = y}
QuadRead(s, x, y) == Total([k \in SeenQuad(s, x, y) |-> Number[Word(k, 3)]], SeenQuad(s, x, y))
QuadAt(s, i, j) == {q \in quad : (q.mirrored <=> s = "QUADOBJ") /\ q.first = i /\ q.second = j}

\* So do those of the Hessian, by section.
QuadInv ==
  /\ IsFiniteSet(quad) /\ \A q \in quad : q.place \in 0 .. at - 1 /\ q.value \in Int /\ q.mirrored \in BOOLEAN
  /\ \A s \in QuadSections : \A k \in Seen({s}) : IsNumber(Word(k, 3))
  /\ \A i, j \in DOMAIN columns : \A x \in {columns[i].name}, y \in {columns[j].name} :
       \A s \in QuadSections : Summed(QuadAt(s, i, j)) = QuadRead(s, x, y)

\* The greatest and the least of a set of numbers.
LEMMA MaxIs ==
  ASSUME NEW S, S \subseteq Int, NEW m \in S, \A y \in S : m >= y PROVE Max(S) = m
<1>1. PICK z : z = Max(S)
  OBVIOUS
<1>2. z \in S /\ \A y \in S : z >= y
  BY <1>1 DEF Max
<1> HIDE <1>1
<1>3. z \in Int /\ m \in Int /\ z >= m /\ m >= z
  BY <1>2
<1>4. z = m
  BY <1>3
<1> QED
  BY <1>1, <1>4

\* Dually for the least.
LEMMA MinIs ==
  ASSUME NEW S, S \subseteq Int, NEW m \in S, \A y \in S : m <= y PROVE Min(S) = m
<1>1. PICK z : z = Min(S)
  OBVIOUS
<1>2. z \in S /\ \A y \in S : z <= y
  BY <1>1 DEF Min
<1> HIDE <1>1
<1>3. z \in Int /\ m \in Int /\ z <= m /\ m <= z
  BY <1>2
<1>4. z = m
  BY <1>3
<1> QED
  BY <1>1, <1>4

\* They are members of a finite set.
LEMMA MaxIsMember ==
  ASSUME NEW S, S \subseteq Int, IsFiniteSet(S), S # {} PROVE Max(S) \in S /\ \A y \in S : Max(S) >= y
<1>1. \E x \in S : \A y \in S : x >= y
  <2> DEFINE G == {A \in SUBSET S : A = {} \/ \E x \in A : \A y \in A : x >= y}
  <2>1. {} \in G
    OBVIOUS
  <2>2. ASSUME NEW A \in SUBSET S, NEW z \in S, A \in G, z \notin A PROVE A \union {z} \in G
    <3>1. z \in Int /\ A \subseteq Int
      OBVIOUS
    <3>2. CASE A = {}
      BY <3>1, <3>2
    <3>3. CASE A # {}
      <4>1. PICK x \in A : \A y \in A : x >= y
        BY <2>2, <3>3
      <4>2. CASE x >= z
        BY <3>1, <4>1, <4>2
      <4>3. CASE ~ (x >= z)
        <5>1. \A y \in A \union {z} : z >= y
          BY <3>1, <4>1, <4>3
        <5> QED
          BY <5>1
      <4> QED
        BY <4>2, <4>3
    <3> QED
      BY <3>2, <3>3
  <2> HIDE DEF G
  <2>3. S \in G
    BY <2>1, <2>2, SetInduction
  <2> QED
    BY <2>3 DEF G
<1> QED
  BY <1>1 DEF Max

\* And the least.
LEMMA MinIsMember ==
  ASSUME NEW S, S \subseteq Int, IsFiniteSet(S), S # {} PROVE Min(S) \in S /\ \A y \in S : Min(S) <= y
<1>1. \E x \in S : \A y \in S : x <= y
  <2> DEFINE G == {A \in SUBSET S : A = {} \/ \E x \in A : \A y \in A : x <= y}
  <2>1. {} \in G
    OBVIOUS
  <2>2. ASSUME NEW A \in SUBSET S, NEW z \in S, A \in G, z \notin A PROVE A \union {z} \in G
    <3>1. z \in Int /\ A \subseteq Int
      OBVIOUS
    <3>2. CASE A = {}
      BY <3>1, <3>2
    <3>3. CASE A # {}
      <4>1. PICK x \in A : \A y \in A : x <= y
        BY <2>2, <3>3
      <4>2. CASE x <= z
        BY <3>1, <4>1, <4>2
      <4>3. CASE ~ (x <= z)
        <5>1. \A y \in A \union {z} : z <= y
          BY <3>1, <4>1, <4>3
        <5> QED
          BY <5>1
      <4> QED
        BY <4>2, <4>3
    <3> QED
      BY <3>2, <3>3
  <2> HIDE DEF G
  <2>3. S \in G
    BY <2>1, <2>2, SetInduction
  <2> QED
    BY <2>3 DEF G
<1> QED
  BY <1>1 DEF Min

\* The lines of a file.
LEMMA Text ==
  ASSUME file \in Files
  PROVE  /\ Len(file) \in Nat /\ Lines = 1 .. Len(file)
         /\ \A k \in Lines : /\ file[k].margin \in BOOLEAN /\ Width(k) \in Nat
                             /\ file[k].fields = <<>> <=> Width(k) = 0
                             /\ DOMAIN file[k].fields = 1 .. Width(k)
                             /\ file[k].margin => Width(k) > 0
                             /\ \A n \in 1 .. Width(k) : Word(k, n) # NoName
                             /\ Width(k) > 0 => Head(file[k].fields) = Word(k, 1)
<1>1. file \in Seq(Line) /\ \A k \in DOMAIN file : file[k].margin => file[k].fields # <<>>
  BY FilesAreText
<1>2. Len(file) \in Nat /\ DOMAIN file = 1 .. Len(file) /\ \A k \in DOMAIN file : file[k] \in Line
  BY <1>1
<1> SUFFICES ASSUME NEW k \in DOMAIN file
             PROVE  /\ file[k].margin \in BOOLEAN /\ Len(file[k].fields) \in Nat
                    /\ file[k].fields = <<>> <=> Len(file[k].fields) = 0
                    /\ DOMAIN file[k].fields = 1 .. Len(file[k].fields)
                    /\ file[k].margin => Len(file[k].fields) > 0
                    /\ \A n \in 1 .. Len(file[k].fields) : file[k].fields[n] # NoName
                    /\ Len(file[k].fields) > 0 => Head(file[k].fields) = file[k].fields[1]
  BY <1>2 DEF Lines, Width, Word
<1>3. file[k].margin \in BOOLEAN /\ file[k].fields \in Seq(STRING \ {NoName})
  BY <1>2 DEF Line
<1> DEFINE T == STRING \ {NoName}
           w == file[k].fields
<1>4. NoName \notin T
  OBVIOUS
<1> HIDE DEF T
<1>5. w \in Seq(T)
  BY <1>3 DEF T
<1>6. Len(w) \in Nat /\ DOMAIN w = 1 .. Len(w) /\ (\A n \in 1 .. Len(w) : w[n] \in T) /\ (w = <<>> <=> Len(w) = 0)
  BY <1>5, EmptySeq
<1>7. (w # <<>> => Len(w) > 0) /\ (Len(w) > 0 => Head(w) = w[1])
  BY <1>5, <1>6
<1> QED
  BY <1>1, <1>3, <1>4, <1>6, <1>7

\* A line adds itself to the headers before the next if it is one.
LEMMA HeadersGrow ==
  ASSUME file \in Files, at \in Nat, at + 1 \in Lines
  PROVE  /\ HeadersBefore(at + 2) = HeadersBefore(at + 1) \union (IF file[at + 1].margin THEN {at + 1} ELSE {})
         /\ file[at + 1].margin => Max(HeadersBefore(at + 2)) = at + 1
<1>1. file[at + 1].margin \in BOOLEAN /\ (at + 2) - 1 = at + 1 /\ (at + 1) - 1 = at
  BY Text
<1>2. 1 .. at + 1 = (1 .. at) \union {at + 1}
  OBVIOUS
<1>3. HeadersBefore(at + 2) = HeadersBefore(at + 1) \union (IF file[at + 1].margin THEN {at + 1} ELSE {})
  BY <1>1, <1>2 DEF HeadersBefore
<1>4. ASSUME file[at + 1].margin PROVE Max(HeadersBefore(at + 2)) = at + 1
  <2>1. PICK n : n = at + 1
    OBVIOUS
  <2>2. PICK S : S = HeadersBefore(at + 2)
    OBVIOUS
  <2>3. S \subseteq Int /\ n \in S /\ \A y \in S : n >= y
    BY <1>1, <1>4, <1>3, <2>1, <2>2 DEF HeadersBefore
  <2>4. Max(S) = n
    BY <2>3, MaxIs
  <2> QED
    BY <2>1, <2>2, <2>4
<1> QED
  BY <1>3, <1>4

\* A step that reads a line of section s, and one that reads no data.
Advances(s) ==
  /\ file' = file /\ at' = at + 1 /\ at + 1 \in Lines
  /\ \A T : Seen(T)' = IF s \in T THEN Seen(T) \union {at + 1} ELSE Seen(T)
Stays == file' = file /\ at' \in {at, at + 1} /\ \A T : Seen(T)' = Seen(T)

\* A data line belongs to the section the reader is in, any other to none.
LEMMA InSection ==
  ASSUME TextInv, NEW s, Data(s), s # "none", NEW T
  PROVE  at + 1 \in Under(T) <=> s \in T
<1>1. at + 1 \in Lines /\ Width(at + 1) > 0 /\ ~ file[at + 1].margin
  BY Text DEF TextInv, Data, Reading, Fields
<1>2. HeadersBefore(at + 1) # {} /\ Word(Max(HeadersBefore(at + 1)), 1) = s
  BY DEF TextInv, Data
<1> QED
  BY <1>1, <1>2 DEF Under

\* A header or an empty line is no data line.
LEMMA NoSection ==
  ASSUME TextInv, Reading, Fields = <<>> \/ file[at + 1].margin, NEW T
  PROVE  at + 1 \notin Under(T)
<1>1. at + 1 \in Lines
  BY Text DEF TextInv, Reading
<1>2. Fields = <<>> => Width(at + 1) = 0
  BY <1>1, Text DEF TextInv, Fields
<1> QED
  BY <1>1, <1>2 DEF Under

\* A line read is seen under the section it stands in.
LEMMA SeenGrows ==
  ASSUME TextInv, file' = file, at' = at + 1, NEW T
  PROVE  Seen(T)' = Seen(T) \union (IF at + 1 \in Under(T) THEN {at + 1} ELSE {})
<1>1. Under(T)' = Under(T)
  BY DEF Under, HeadersBefore, Lines, Width, Word
<1>2. Under(T) \subseteq Int /\ at \in Int
  BY Text DEF Under, TextInv
<1>3. Seen(T)' = {k \in Under(T) : k <= at + 1}
  BY <1>1 DEF Seen
<1> QED
  BY <1>2, <1>3 DEF Seen

\* A record advances its section; an empty line, a header and a step that
\* reads nothing advance none.
LEMMA Reads ==
  ASSUME TextInv, NEW s, Data(s), s # "none", NextLine
  PROVE  Advances(s)
<1>1. file' = file /\ at' = at + 1 /\ at + 1 \in Lines
  BY Text DEF TextInv, Data, Reading, NextLine
<1>2. ASSUME NEW T PROVE Seen(T)' = IF s \in T THEN Seen(T) \union {at + 1} ELSE Seen(T)
  BY <1>1, SeenGrows, InSection
<1> QED
  BY <1>1, <1>2 DEF Advances

\* So a line without data is passed,
LEMMA Skips ==
  ASSUME TextInv, Reading, Fields = <<>> \/ file[at + 1].margin, NextLine
  PROVE  Stays
<1>1. file' = file /\ at' = at + 1
  BY DEF NextLine
<1>2. ASSUME NEW T PROVE Seen(T)' = Seen(T)
  BY <1>1, SeenGrows, NoSection
<1> QED
  BY <1>1, <1>2 DEF Stays

\* and a step that reads nothing sees nothing.
LEMMA Waits ==
  ASSUME UNCHANGED <<file, at>> PROVE Stays
<1>1. ASSUME NEW T PROVE Seen(T)' = Seen(T)
  BY DEF Seen, Under, HeadersBefore, Lines, Width, Word
<1> QED
  BY <1>1 DEF Stays

\* The section the reader is in is that of the last header.
LEMMA TextInit == Init => TextInv
<1> SUFFICES ASSUME Init PROVE TextInv
  OBVIOUS
<1>1. Len(file) \in Nat
  BY Text DEF Init
<1> QED
  BY <1>1 DEF Init, TextInv

\* Each header sets the section, and no other line does.
LEMMA TextNext == TextInv /\ [Next]_vars => TextInv'
<1> SUFFICES ASSUME TextInv, [Next]_vars PROVE TextInv'
  OBVIOUS
<1>1. ASSUME UNCHANGED <<file, at, section>> PROVE TextInv'
  BY <1>1 DEF TextInv, HeadersBefore, Word
<1>2. ASSUME Reading, NextLine, section' = "none"
      PROVE  TextInv'
  BY <1>2, Text DEF TextInv, Reading, NextLine
<1>3. ASSUME Reading, NextLine, section' = section, ~ file[at + 1].margin
      PROVE  TextInv'
  <2>1. file' = file /\ at' = at + 1 /\ at + 1 \in 0 .. Len(file) /\ at + 1 \in Lines /\ (at + 1) + 1 = at + 2
    BY <1>3, Text DEF TextInv, Reading, NextLine
  <2>2. HeadersBefore(at + 2) = HeadersBefore(at + 1)
    <3>1. file \in Files /\ at \in Nat
      BY Text DEF TextInv
    <3> QED
      BY <3>1, <2>1, <1>3, HeadersGrow
  <2>3. HeadersBefore(at + 1)' = HeadersBefore(at + 1)
    BY <2>1, <2>2 DEF HeadersBefore
  <2> QED
    BY <2>1, <2>3, <1>3 DEF TextInv, Word
<1>4. ASSUME Reading, NextLine, file[at + 1].margin, section' = Head(Fields)
      PROVE  TextInv'
  <2>1. file' = file /\ at' = at + 1 /\ at + 1 \in 0 .. Len(file) /\ at + 1 \in Lines /\ (at + 1) + 1 = at + 2
    BY <1>4, Text DEF TextInv, Reading, NextLine
  <2>2. Max(HeadersBefore(at + 2)) = at + 1 /\ at + 1 \in HeadersBefore(at + 2)
    <3>1. file \in Files /\ at \in Nat
      BY Text DEF TextInv
    <3> QED
      BY <3>1, <2>1, <1>4, HeadersGrow
  <2>3. HeadersBefore(at + 1)' = HeadersBefore(at + 2)
    BY <2>1 DEF HeadersBefore
  <2>4. Head(Fields) = Word(at + 1, 1)
    BY <2>1, <1>4, Text DEF TextInv, Word, Fields
  <2> QED
    BY <2>1, <2>2, <2>3, <2>4, <1>4 DEF TextInv, Word
<1>5. CASE Reject \/ EndOfFile \/ UNCHANGED vars
  BY <1>5, <1>1 DEF Reject, EndOfFile, vars
<1>6. CASE SkipLine /\ ~ Reject
  <2>1. ~ file[at + 1].margin
    BY <1>6, Text DEF SkipLine, TextInv, Reading, Fields
  <2> QED
    BY <2>1, <1>3, <1>6 DEF SkipLine
<1>7. CASE Header /\ ~ Reject
  BY <1>7, <1>2, <1>4 DEF Header
<1>8. CASE (ObjectiveSense \/ ObjectiveNameRecord) /\ ~ Reject
  BY <1>8, <1>2 DEF ObjectiveSense, ObjectiveNameRecord, Data
<1>9. CASE (RowRecord \/ Marker \/ ColumnRecord \/ BoundRecord) /\ ~ Reject
  BY <1>9, <1>3 DEF RowRecord, Marker, ColumnRecord, BoundRecord, Data
<1>10. ASSUME NEW s, RimRecord(s) \/ QuadRecord(s), ~ Reject PROVE TextInv'
  BY <1>10, <1>3 DEF RimRecord, QuadRecord, Data
<1>11. CASE AfterEnd \/ Stray
  BY <1>11, <1>5 DEF AfterEnd, Stray
<1> QED
  BY <1>5, <1>6, <1>7, <1>8, <1>9, <1>10, <1>11 DEF Next

-----------------------------------------------------------------------------
(***************************************************************************)
(* The sense and the objective.                                            *)
(***************************************************************************)
\* The line read last is the latest of its section.
LEMMA SeenLatest ==
  ASSUME TextInv, NEW S, S \subseteq Int, \A k \in S : k <= at
  PROVE  Max(S \union {at + 1}) = at + 1
<1>1. at \in Int
  BY Text DEF TextInv
<1>2. PICK n : n = at + 1
  OBVIOUS
<1>3. PICK R : R = S \union {at + 1}
  OBVIOUS
<1>4. R \subseteq Int /\ n \in R /\ \A y \in R : n >= y
  BY <1>1, <1>2, <1>3
<1> QED
  BY <1>2, <1>3, <1>4, MaxIs

\* Lines seen are lines of the file, and finitely many.
LEMMA SeenLines ==
  ASSUME TextInv, NEW T PROVE Seen(T) \subseteq Lines /\ Seen(T) \subseteq Int /\ \A k \in Seen(T) : k <= at /\ Width(k) > 0
BY Text DEF TextInv, Seen, Under

\* A set of lines is finite.
LEMMA FiniteLines ==
  ASSUME TextInv, NEW S, S \subseteq Lines PROVE IsFiniteSet(S) /\ S \subseteq Int
<1>1. PICK n : n = Len(file)
  OBVIOUS
<1>2. n \in Nat /\ Lines = 1 .. n
  BY <1>1, Text DEF TextInv
<1>3. IsFiniteSet(1 .. n) /\ S \in SUBSET (1 .. n) /\ 1 .. n \subseteq Int
  BY <1>2, FS_Interval
<1> QED
  BY <1>3, FS_Subset

\* Sense and objective stay while no line of theirs is read.
LEMMA ObjectiveFrame ==
  ASSUME ObjectiveInv, UNCHANGED <<file, sense, objectiveName>>, Seen({"OBJSENSE"})' = Seen({"OBJSENSE"}),
         Seen({"OBJNAME"})' = Seen({"OBJNAME"}), Seen({"ROWS"})' = Seen({"ROWS"})
  PROVE  ObjectiveInv'
BY DEF ObjectiveInv, SeenObjectives, Word

\* The sense declared last counts.
LEMMA ObjectiveOfSense ==
  ASSUME TextInv, ObjectiveInv, ObjectiveSense, ~ Reject PROVE ObjectiveInv'
<1>1. /\ Advances("OBJSENSE") /\ UNCHANGED <<file, objectiveName>> /\ Len(Fields) = 1 /\ Head(Fields) \in {"MIN", "MAX"}
      /\ sense' = IF Head(Fields) = "MIN" THEN 1 ELSE -1
  BY Reads DEF ObjectiveSense, Advances
<1>2. /\ Seen({"OBJSENSE"})' = Seen({"OBJSENSE"}) \union {at + 1}
      /\ Seen({"OBJNAME"})' = Seen({"OBJNAME"}) /\ Seen({"ROWS"})' = Seen({"ROWS"})
  BY <1>1 DEF Advances
<1>3. Max(Seen({"OBJSENSE"})') = at + 1
  BY <1>2, SeenLines, SeenLatest
<1>4. Head(Fields) = Word(at + 1, 1)
  BY <1>1, Text DEF TextInv, Advances, Fields, Width
<1>5. sense' = IF Seen({"OBJSENSE"})' # {} /\ Word(Max(Seen({"OBJSENSE"})'), 1) = "MAX" THEN -1 ELSE 1
  BY <1>1, <1>2, <1>3, <1>4
<1> QED
  BY <1>1, <1>2, <1>5 DEF ObjectiveInv, SeenObjectives, Word

\* So does the name of the objective.
LEMMA ObjectiveOfName ==
  ASSUME TextInv, ObjectiveInv, ObjectiveNameRecord, ~ Reject PROVE ObjectiveInv'
<1>1. /\ Advances("OBJNAME") /\ UNCHANGED <<file, sense>> /\ Len(Fields) = 1 /\ objectiveName' = Head(Fields)
  BY Reads DEF ObjectiveNameRecord, Advances
<1>2. /\ Seen({"OBJNAME"})' = Seen({"OBJNAME"}) \union {at + 1}
      /\ Seen({"OBJSENSE"})' = Seen({"OBJSENSE"})
  BY <1>1 DEF Advances
<1>3. Max(Seen({"OBJNAME"})') = at + 1
  BY <1>2, SeenLines, SeenLatest
<1>4. Head(Fields) = Word(at + 1, 1)
  BY <1>1, Text DEF TextInv, Advances, Fields, Width
<1>5. Seen({"OBJNAME"})' # {} /\ objectiveName' = Word(Max(Seen({"OBJNAME"})'), 1)
  BY <1>1, <1>2, <1>3, <1>4
<1> QED
  BY <1>1, <1>2, <1>5 DEF ObjectiveInv, Word

\* No objective row was read if none has a name yet.
LEMMA ObjectiveNamed ==
  ASSUME TextInv, ObjectiveInv, RowsInv
  PROVE  objectiveName = NoName => Seen({"OBJNAME"}) = {} /\ SeenObjectives = {}
<1>1. ASSUME Seen({"OBJNAME"}) # {} PROVE objectiveName # NoName
  <2>1. PICK S : S = Seen({"OBJNAME"})
    OBVIOUS
  <2>2. PICK n : n = Max(S)
    OBVIOUS
  <2>3. IsFiniteSet(S) /\ S # {} /\ S \subseteq Int
    BY <1>1, <2>1, SeenLines, FiniteLines
  <2>4. n \in S
    BY <2>2, <2>3, MaxIsMember
  <2>5. Width(n) \in Nat /\ Width(n) > 0 /\ \A m \in 1 .. Width(n) : Word(n, m) # NoName
    BY <2>1, <2>4, SeenLines, Text DEF TextInv
  <2>6. Word(n, 1) # NoName
    BY <2>5
  <2> QED
    BY <1>1, <2>1, <2>2, <2>6 DEF ObjectiveInv
<1>2. ASSUME Seen({"OBJNAME"}) = {}, SeenObjectives # {} PROVE objectiveName # NoName
  <2>1. PICK S : S = SeenObjectives
    OBVIOUS
  <2>2. PICK n : n = Min(S)
    OBVIOUS
  <2>3. IsFiniteSet(S) /\ S # {} /\ S \subseteq Int
    <3>1. S \subseteq Lines
      BY <2>1, SeenLines DEF SeenObjectives
    <3> QED
      BY <1>2, <2>1, <3>1, FiniteLines
  <2>4. n \in S
    BY <2>2, <2>3, MinIsMember
  <2>5. Width(n) = 2 /\ \A m \in 1 .. Width(n) : Word(n, m) # NoName
    BY <2>1, <2>4, SeenLines, Text DEF TextInv, RowsInv, SeenObjectives
  <2>6. Word(n, 2) # NoName
    BY <2>5
  <2> QED
    BY <1>2, <2>1, <2>2, <2>6 DEF ObjectiveInv
<1> QED
  BY <1>1, <1>2

\* The first objective row names the objective if nothing else did.
LEMMA ObjectiveOfRow ==
  ASSUME TextInv, ObjectiveInv, RowsInv, RowRecord, ~ Reject PROVE ObjectiveInv'
<1>1. /\ Advances("ROWS") /\ UNCHANGED <<file, sense>>
      /\ objectiveName' = IF Fields[1] = "N" /\ objectiveName = NoName THEN Fields[2] ELSE objectiveName
  BY Reads DEF RowRecord, Advances
<1>2. /\ Seen({"ROWS"})' = Seen({"ROWS"}) \union {at + 1}
      /\ Seen({"OBJSENSE"})' = Seen({"OBJSENSE"}) /\ Seen({"OBJNAME"})' = Seen({"OBJNAME"})
  BY <1>1 DEF Advances
<1>3. SeenObjectives' = SeenObjectives \union (IF Fields[1] = "N" THEN {at + 1} ELSE {})
  BY <1>1, <1>2 DEF SeenObjectives, Word, Fields
<1>4. SeenObjectives \subseteq Int /\ (\A k \in SeenObjectives : k <= at) /\ at \in Int /\ IsFiniteSet(SeenObjectives)
  <2>1. SeenObjectives \subseteq Lines /\ at \in Int /\ \A k \in SeenObjectives : k <= at
    BY SeenLines, Text DEF TextInv, SeenObjectives
  <2> QED
    BY <2>1, FiniteLines
<1>5. ASSUME SeenObjectives # {} PROVE Min(SeenObjectives') = Min(SeenObjectives)
  <2>1. PICK n, R : n = Min(SeenObjectives) /\ R = SeenObjectives'
    OBVIOUS
  <2>2. n \in SeenObjectives /\ \A y \in SeenObjectives : n <= y
    BY <1>4, <1>5, <2>1, MinIsMember
  <2>3. R \subseteq Int /\ n \in R /\ \A y \in R : n <= y
    BY <1>3, <1>4, <2>1, <2>2
  <2> QED
    BY <2>1, <2>3, MinIs
<1>6. ASSUME SeenObjectives = {}, Fields[1] = "N" PROVE SeenObjectives' # {} /\ Word(Min(SeenObjectives'), 2) = Fields[2]
  <2>1. PICK n, R : n = at + 1 /\ R = SeenObjectives'
    OBVIOUS
  <2>2. R = {n}
    BY <1>3, <1>6, <2>1
  <2>5. n \in Int
    BY <1>4, <2>1
  <2>3. R \subseteq Int /\ n \in R /\ \A y \in R : n <= y
    BY <2>2, <2>5
  <2>4. Min(R) = n
    BY <2>3, MinIs
  <2> QED
    BY <2>1, <2>2, <2>4 DEF Word, Fields
<1>7. objectiveName' = IF Seen({"OBJNAME"})' # {} THEN Word(Max(Seen({"OBJNAME"})'), 1)
                       ELSE IF SeenObjectives' # {} THEN Word(Min(SeenObjectives'), 2) ELSE NoName
  <2>1. CASE objectiveName = NoName
    <3>1. Seen({"OBJNAME"}) = {} /\ SeenObjectives = {}
      BY <2>1, ObjectiveNamed
    <3> QED
      BY <2>1, <3>1, <1>1, <1>2, <1>3, <1>6
  <2>2. CASE objectiveName # NoName
    <3>1. CASE Seen({"OBJNAME"}) # {}
      BY <2>2, <3>1, <1>1, <1>2 DEF ObjectiveInv
    <3>2. CASE Seen({"OBJNAME"}) = {}
      <4>1. SeenObjectives # {} /\ objectiveName = Word(Min(SeenObjectives), 2)
        BY <2>2, <3>2 DEF ObjectiveInv
      <4> QED
        BY <2>2, <3>2, <4>1, <1>1, <1>2, <1>3, <1>5
    <3> QED
      BY <3>1, <3>2
  <2> QED
    BY <2>1, <2>2
<1>8. sense' = IF Seen({"OBJSENSE"})' # {} /\ Word(Max(Seen({"OBJSENSE"})'), 1) = "MAX" THEN -1 ELSE 1
  BY <1>1, <1>2 DEF ObjectiveInv
<1> QED
  BY <1>1, <1>7, <1>8 DEF ObjectiveInv, Word

-----------------------------------------------------------------------------
(***************************************************************************)
(* The rows, and their right-hand sides and ranges.                        *)
(***************************************************************************)
\* Every declared row has one line of ROWS, and the other way round.
LEMMA RowsFrame ==
  ASSUME RowsInv, file' = file, Seen({"ROWS"})' = Seen({"ROWS"}), DOMAIN rows' = DOMAIN rows,
         \A i \in DOMAIN rows : rows'[i].type = rows[i].type /\ rows'[i].name = rows[i].name
  PROVE  RowsInv'
<1>1. \A i \in DOMAIN rows' : rows'[i].type \in RowTypes /\ \E k \in Seen({"ROWS"})' : Declares(k, rows[i])
  BY DEF RowsInv
<1>2. \A k \in Seen({"ROWS"})' : \E i \in DOMAIN rows' : Declares(k, rows[i])
  BY DEF RowsInv
<1> QED
  BY <1>1, <1>2 DEF RowsInv, Declares, Word, Width

\* A record of ROWS adds its row, which no earlier one declares.
LEMMA RowsOfRow ==
  ASSUME TextInv, ReaderInv, RowsInv, RowRecord, ~ Reject PROVE RowsInv'
<1> DEFINE row == [type |-> Fields[1], name |-> Fields[2], rhs |-> NoBound, range |-> NoBound]
<1>1. /\ Advances("ROWS") /\ file' = file /\ rows' = Append(rows, row) /\ RowNamed(Fields[2]) = {}
      /\ Fields[1] \in RowTypes /\ Len(Fields) = 2
  BY Reads DEF RowRecord, Advances, RowTypes
<1>2. Seen({"ROWS"})' = Seen({"ROWS"}) \union {at + 1}
  BY <1>1 DEF Advances
<1>3. /\ DOMAIN rows = 1 .. Len(rows) /\ DOMAIN rows' = 1 .. Len(rows) + 1 /\ Len(rows) \in Nat
      /\ \A i \in DOMAIN rows : rows'[i] = rows[i]
      /\ rows'[Len(rows) + 1] = row
  BY <1>1, AppendTable DEF ReaderInv, GoodRows
<1>4. row.type = Word(at + 1, 1) /\ row.name = Word(at + 1, 2) /\ Width(at + 1) = 2
  BY <1>1 DEF Word, Fields, Width
<1>5. \A k \in Seen({"ROWS"}) : Word(k, 2) # row.name
  BY <1>1 DEF RowsInv, RowNamed, Declares
<1> HIDE DEF row
<1>6. \A i \in DOMAIN rows' : rows'[i].type \in RowTypes /\ \E k \in Seen({"ROWS"})' : Declares(k, rows'[i])
  <2> SUFFICES ASSUME NEW i \in DOMAIN rows'
               PROVE  rows'[i].type \in RowTypes /\ \E k \in Seen({"ROWS"})' : Declares(k, rows'[i])
    OBVIOUS
  <2>1. CASE i \in DOMAIN rows
    BY <1>2, <1>3, <2>1 DEF RowsInv
  <2>2. CASE i \notin DOMAIN rows
    <3>1. rows'[i] = row
      BY <1>3, <2>2
    <3>2. Declares(at + 1, row) /\ row.type \in RowTypes
      BY <1>1, <1>4 DEF Declares, row
    <3> QED
      BY <1>2, <3>1, <3>2
  <2> QED
    BY <2>1, <2>2
<1>7. \A k \in Seen({"ROWS"})' : \E i \in DOMAIN rows' : Declares(k, rows'[i])
  <2> SUFFICES ASSUME NEW k \in Seen({"ROWS"})' PROVE \E i \in DOMAIN rows' : Declares(k, rows'[i])
    OBVIOUS
  <2>1. CASE k \in Seen({"ROWS"})
    BY <1>3, <2>1 DEF RowsInv
  <2>2. CASE k = at + 1
    BY <1>3, <1>4, <2>2 DEF Declares
  <2> QED
    BY <1>2, <2>1, <2>2
<1>8. /\ \A k, l \in Seen({"ROWS"})' : Word(k, 2) = Word(l, 2) => k = l
      /\ \A k \in Seen({"ROWS"})' : Width(k) = 2
  BY <1>2, <1>4, <1>5 DEF RowsInv
<1> QED
  BY <1>1, <1>6, <1>7, <1>8 DEF RowsInv, Declares, Word, Width

\* Half of an even number.
LEMMA EvenNumber == ASSUME NEW d \in Int, d % 2 = 0 PROVE \E h \in Int : d = 2 * h
OBVIOUS

\* The name and value tokens of the line now read.
LEMMA CellsOfLine ==
  ASSUME TextInv, Reading, NEW start \in {1, 2}, NEW p, p = Pairs(start)
  PROVE  /\ CellsOf(at + 1, start) = {<<at + 1, start + 2 * k - 2>> : k \in DOMAIN p}
         /\ DOMAIN p \subseteq Nat \ {0} /\ IsFiniteSet(DOMAIN p)
         /\ \A k \in DOMAIN p : /\ NameIn(<<at + 1, start + 2 * k - 2>>) = p[k].row
                                /\ ValueAt(<<at + 1, start + 2 * k - 2>>) = p[k].value
<1>1. PICK w : w = Len(Fields)
  OBVIOUS
<1>2. w \in Nat /\ w = Width(at + 1)
  BY <1>1, Text DEF TextInv, Reading, Fields, Width
<1>3. PICK n : n = (w + 1 - start) \div 2
  OBVIOUS
<1>4. DOMAIN p = 1 .. n
  BY <1>1, <1>3 DEF Pairs
<1>5. n \in Int /\ 2 * n <= w + 1 - start /\ w + 1 - start < 2 * n + 2
  BY <1>2, <1>3
<1>6. DOMAIN p \subseteq Nat \ {0} /\ IsFiniteSet(DOMAIN p)
  <2>1. CASE n \in Nat
    BY <1>4, <2>1, FS_Interval
  <2>2. CASE n \notin Nat
    <3>1. 1 .. n = {}
      BY <1>5, <2>2
    <3> QED
      BY <1>4, <3>1, FS_EmptySet
  <2> QED
    BY <2>1, <2>2
<1>7. {m \in start .. w - 1 : (m - start) % 2 = 0} = {start + 2 * k - 2 : k \in 1 .. n}
  <2>1. ASSUME NEW m \in start .. w - 1, (m - start) % 2 = 0 PROVE \E k \in 1 .. n : m = start + 2 * k - 2
    <3>0. m \in Int /\ m - start \in Int
      BY <1>2
    <3>1. PICK h \in Int : m - start = 2 * h
      BY <3>0, <2>1, EvenNumber
    <3>2. h + 1 \in 1 .. n /\ m = start + 2 * (h + 1) - 2
      BY <1>2, <1>5, <2>1, <3>1
    <3> QED
      BY <3>2
  <2>2. ASSUME NEW k \in 1 .. n PROVE start + 2 * k - 2 \in start .. w - 1 /\ ((start + 2 * k - 2) - start) % 2 = 0
    BY <1>2, <1>5
  <2> QED
    BY <2>1, <2>2
<1>8. CellsOf(at + 1, start) = {<<at + 1, start + 2 * k - 2>> : k \in 1 .. n}
  BY <1>2, <1>7 DEF CellsOf
<1>9. ASSUME NEW k \in DOMAIN p
      PROVE  /\ NameIn(<<at + 1, start + 2 * k - 2>>) = p[k].row
             /\ ValueAt(<<at + 1, start + 2 * k - 2>>) = p[k].value
  <2>1. k \in Int
    BY <1>6
  <2>2. p[k] = [row |-> Fields[start + 2 * k - 2], value |-> Fields[start + 2 * k - 1]]
    BY <1>4, <1>1, <1>3 DEF Pairs
  <2>3. (start + 2 * k - 2) + 1 = start + 2 * k - 1
    BY <2>1
  <2>4. NameIn(<<at + 1, start + 2 * k - 2>>) = Fields[start + 2 * k - 2]
    BY DEF NameIn, Word, Fields
  <2>5. ValueAt(<<at + 1, start + 2 * k - 2>>) = Fields[start + 2 * k - 1]
    BY <2>3 DEF ValueAt, Word, Fields
  <2> QED
    BY <2>2, <2>4, <2>5
<1> QED
  BY <1>4, <1>6, <1>8, <1>9

\* The cells of a row grow by those of the line now read, if it is of their
\* section, and by nothing else.
LEMMA SeenRimGrows ==
  ASSUME NEW z, Advances(z), NEW s, NEW r
  PROVE  SeenRim(s, r)' = SeenRim(s, r) \union (IF z = s THEN {c \in RimLine(at + 1) : NameIn(c) = r} ELSE {})
<1>1. /\ Seen({s})' = IF z = s THEN Seen({s}) \union {at + 1} ELSE Seen({s})
      /\ file' = file
  BY DEF Advances
<1>2. SeenRim(s, r)' = {c \in UNION {RimLine(k) : k \in Seen({s})'} : NameIn(c) = r}
  BY <1>1 DEF SeenRim, RimLine, CellsOf, NameIn, Word, Width
<1> HIDE DEF Advances
<1> QED
  BY <1>1, <1>2 DEF SeenRim

\* No line of the section, no cell.
LEMMA SeenRimSame ==
  ASSUME file' = file, NEW s, NEW r, Seen({s})' = Seen({s})
  PROVE  SeenRim(s, r)' = SeenRim(s, r)
<1>1. SeenRim(s, r)' = {c \in UNION {RimLine(k) : k \in Seen({s})'} : NameIn(c) = r}
  BY DEF SeenRim, RimLine, CellsOf, NameIn, Word, Width
<1> QED
  BY <1>1 DEF SeenRim

\* Rims without a new line of theirs.
LEMMA RimFrame ==
  ASSUME RimInv, file' = file, \A s \in RimSections : Seen({s})' = Seen({s}), rows' = rows
  PROVE  RimInv'
<1>1. \A i \in DOMAIN rows : \A r \in {rows[i].name} :
        Rimmed(SeenRim("RHS", r)', rows[i].rhs) /\ Rimmed(SeenRim("RANGES", r)', rows[i].range)
  BY SeenRimSame DEF RimInv, RimSections
<1>2. \A s \in RimSections : \A k \in Seen({s})' : \A c \in RimLine(k) : RowNamed(NameIn(c)) # {}
  BY DEF RimInv
<1>3. \A i \in DOMAIN rows' : \A r \in {rows'[i].name} :
        Rimmed(SeenRim("RHS", r), rows[i].rhs)' /\ Rimmed(SeenRim("RANGES", r), rows[i].range)'
  BY <1>1 DEF Rimmed, ValueAt, IsNumber, Word
<1>4. \A s \in RimSections : \A k \in Seen({s})' : \A c \in RimLine(k)' : RowNamed(NameIn(c))' # {}
  <2>1. \A k : RimLine(k)' = RimLine(k) /\ \A c : NameIn(c)' = NameIn(c)
    BY DEF NameIn, RimLine, CellsOf, Word, Width
  <2>2. \A n : RowNamed(n)' = RowNamed(n)
    BY DEF RowNamed
  <2>3. \A c : RowNamed(NameIn(c))' = RowNamed(NameIn(c))
    BY <2>1 DEF RowNamed
  <2> QED
    BY <1>2, <2>1, <2>3
<1> QED
  BY <1>3, <1>4 DEF RimInv

\* find_row: the one row of a name.
LEMMA RowFound ==
  ASSUME DistinctNames(rows), NEW name, RowNamed(name) # {}
  PROVE  /\ TheRow(name) \in DOMAIN rows /\ rows[TheRow(name)].name = name
         /\ \A i \in DOMAIN rows : rows[i].name = name <=> TheRow(name) = i
<1>1. TheRow(name) \in RowNamed(name)
  BY DEF TheRow
<1> QED
  BY <1>1 DEF RowNamed, DistinctNames

\* Nothing was said yet of a row that is new.
LEMMA RimOfRow ==
  ASSUME TextInv, ReaderInv, RimInv, RowRecord, ~ Reject PROVE RimInv'
<1> DEFINE row == [type |-> Fields[1], name |-> Fields[2], rhs |-> NoBound, range |-> NoBound]
<1>1. /\ Advances("ROWS") /\ file' = file /\ rows' = Append(rows, row) /\ RowNamed(Fields[2]) = {}
  BY Reads DEF RowRecord, Advances
<1>2. \A s \in RimSections : Seen({s})' = Seen({s})
  BY <1>1 DEF Advances, RimSections
<1>3. /\ DOMAIN rows = 1 .. Len(rows) /\ DOMAIN rows' = 1 .. Len(rows) + 1 /\ Len(rows) \in Nat
      /\ \A i \in DOMAIN rows : rows'[i] = rows[i]
      /\ rows'[Len(rows) + 1] = row
  BY <1>1, AppendTable DEF ReaderInv, GoodRows
<1>4. row.name = Fields[2] /\ row.rhs = NoBound /\ row.range = NoBound
  OBVIOUS
<1> HIDE DEF row
<1>5. \A s \in RimSections : \A r : SeenRim(s, r)' = SeenRim(s, r)
  BY <1>1, <1>2, SeenRimSame
<1>6. \A s \in RimSections : SeenRim(s, row.name) = {}
  BY <1>1, <1>4 DEF RimInv, SeenRim
<1>7. \A i \in DOMAIN rows' : \A r \in {rows'[i].name} :
        Rimmed(SeenRim("RHS", r), rows'[i].rhs) /\ Rimmed(SeenRim("RANGES", r), rows'[i].range)
  <2> SUFFICES ASSUME NEW i \in DOMAIN rows', NEW r, r = rows'[i].name
               PROVE  Rimmed(SeenRim("RHS", r), rows'[i].rhs) /\ Rimmed(SeenRim("RANGES", r), rows'[i].range)
    OBVIOUS
  <2>1. CASE i \in DOMAIN rows
    BY <1>3, <2>1 DEF RimInv
  <2>2. CASE i \notin DOMAIN rows
    <3>1. rows'[i] = row
      BY <1>3, <2>2
    <3> QED
      BY <1>4, <1>6, <3>1 DEF Rimmed, RimSections
  <2> QED
    BY <2>1, <2>2
<1>8. \A i \in DOMAIN rows' : \A r \in {rows'[i].name} :
        Rimmed(SeenRim("RHS", r), rows[i].rhs)' /\ Rimmed(SeenRim("RANGES", r), rows[i].range)'
  <2>1. \A i \in DOMAIN rows' : \A r \in {rows'[i].name} :
          Rimmed(SeenRim("RHS", r)', rows'[i].rhs) /\ Rimmed(SeenRim("RANGES", r)', rows'[i].range)
    BY <1>5, <1>7 DEF RimSections
  <2> QED
    <3>1. \A c : ValueAt(c)' = ValueAt(c)
      BY <1>1 DEF ValueAt, Word
    <3> SUFFICES ASSUME NEW i \in DOMAIN rows', NEW r, r = rows'[i].name
                 PROVE  Rimmed(SeenRim("RHS", r), rows[i].rhs)' /\ Rimmed(SeenRim("RANGES", r), rows[i].range)'
      OBVIOUS
    <3>2. Rimmed(SeenRim("RHS", r)', rows'[i].rhs) /\ Rimmed(SeenRim("RANGES", r)', rows'[i].range)
      BY <2>1
    <3>3. Rimmed(SeenRim("RHS", r), rows[i].rhs)'
      BY <3>1, <3>2 DEF Rimmed, IsNumber
    <3>4. Rimmed(SeenRim("RANGES", r), rows[i].range)'
      BY <3>1, <3>2 DEF Rimmed, IsNumber
    <3> QED
      BY <3>3, <3>4
<1>9. \A s \in RimSections : \A k \in Seen({s})' : \A c \in RimLine(k)' : RowNamed(NameIn(c))' # {}
  <2>1. \A k : RimLine(k)' = RimLine(k) /\ \A c : NameIn(c)' = NameIn(c)
    BY <1>1 DEF NameIn, RimLine, CellsOf, Word, Width
  <2>2. \A n : RowNamed(n) \subseteq RowNamed(n)'
    BY <1>3 DEF RowNamed
  <2>3. \A s \in RimSections : \A k \in Seen({s})' : \A c \in RimLine(k)' : RowNamed(NameIn(c)) # {}
    BY <1>2, <2>1 DEF RimInv
  <2>4. \A c : RowNamed(NameIn(c))' = {i \in DOMAIN rows' : rows'[i].name = NameIn(c)}
    BY <2>1 DEF RowNamed
  <2>5. \A c : RowNamed(NameIn(c)) # {} => RowNamed(NameIn(c))' # {}
    BY <2>4, <1>3 DEF RowNamed
  <2> QED
    BY <2>3, <2>5
<1> QED
  BY <1>8, <1>9 DEF RimInv

Rims(s, row) == IF s = "RHS" THEN row.rhs ELSE row.range

\* A record sets the right-hand side or the range of every row it names, which had none.
LEMMA RimOfRim ==
  ASSUME TextInv, ReaderInv, RimInv, NEW s \in RimSections, RimRecord(s), ~ Reject PROVE RimInv'
<1> DEFINE start == IF Len(Fields) \in {3, 5} THEN 2 ELSE 1
           pairs == Pairs(start)
           given(i) == {k \in DOMAIN pairs : TheRow(pairs[k].row) = i}
           value(i) == At(Number[pairs[CHOOSE k \in given(i) : TRUE].value])
           cell(k) == <<at + 1, start + 2 * k - 2>>
<1>1. /\ Advances(s) /\ file' = file /\ Reading /\ Len(Fields) \in 2 .. 5
      /\ \A k \in DOMAIN pairs : RowNamed(pairs[k].row) # {} /\ IsNumber(pairs[k].value)
      /\ \A k \in DOMAIN pairs :
           /\ ~ (IF s = "RHS" THEN rows[TheRow(pairs[k].row)].rhs ELSE rows[TheRow(pairs[k].row)].range).finite
           /\ Cardinality(given(TheRow(pairs[k].row))) = 1
      /\ rows' = [i \in DOMAIN rows |->
                   IF given(i) = {} THEN rows[i]
                   ELSE IF s = "RHS" THEN [rows[i] EXCEPT !.rhs = value(i)]
                   ELSE [rows[i] EXCEPT !.range = value(i)]]
  BY Reads DEF RimRecord, Advances, Data, RimSections
<1>2. start \in {1, 2} /\ start = 1 + (Width(at + 1) % 2)
  <2>1. Width(at + 1) = Len(Fields)
    BY DEF Width, Fields
  <2>3. 2 % 2 = 0 /\ 3 % 2 = 1 /\ 4 % 2 = 0 /\ 5 % 2 = 1
    BY ONLY TRUE
  <2>4. PICK n : n = Len(Fields)
    OBVIOUS
  <2>7. Len(Fields) \in 2 .. 5
    BY <1>1, Zenon
  <2>8. n \in 2 .. 5
    BY ONLY <2>4, <2>7, Zenon
  <2>5. start = IF n \in {3, 5} THEN 2 ELSE 1
    BY <2>4
  <2>6. (IF n \in {3, 5} THEN 2 ELSE 1) = 1 + (n % 2)
    <3>1. n = 2 \/ n = 3 \/ n = 4 \/ n = 5
      BY ONLY <2>8
    <3> QED
      BY ONLY <3>1, <2>3
  <2> QED
    BY <2>1, <2>4, <2>5, <2>6
<1> HIDE DEF start
<1>3. /\ RimLine(at + 1) = {cell(k) : k \in DOMAIN pairs}
      /\ IsFiniteSet(DOMAIN pairs)
      /\ \A k \in DOMAIN pairs : NameIn(cell(k)) = pairs[k].row /\ ValueAt(cell(k)) = pairs[k].value
  <2>1. TextInv /\ Reading /\ start \in {1, 2}
    BY <1>1, <1>2
  <2>2. RimLine(at + 1) = CellsOf(at + 1, start)
    BY <1>2 DEF RimLine
  <2> QED
    BY ONLY <2>1, <2>2, CellsOfLine
<1> HIDE DEF pairs, cell
<1>4. \A z \in RimSections : \A r : SeenRim(z, r)' =
         SeenRim(z, r) \union (IF z = s THEN {c \in RimLine(at + 1) : NameIn(c) = r} ELSE {})
  BY <1>1, SeenRimGrows
<1>5. ASSUME NEW i \in DOMAIN rows, NEW r, r = rows[i].name
      PROVE  /\ {c \in RimLine(at + 1) : NameIn(c) = r} = {cell(k) : k \in given(i)}
             /\ given(i) # {} => \E k \in given(i) : given(i) = {k}
             /\ given(i) # {} => ~ Rims(s, rows[i]).finite
  <2>1. \A k \in DOMAIN pairs : pairs[k].row = r <=> k \in given(i)
    BY <1>1, <1>5, RowFound DEF ReaderInv, GoodRows
  <2>2. {c \in RimLine(at + 1) : NameIn(c) = r} = {cell(k) : k \in given(i)}
    BY <2>1, <1>3
  <2>3. ASSUME given(i) # {} PROVE \E k \in given(i) : given(i) = {k}
    <3>1. PICK k \in DOMAIN pairs : TheRow(pairs[k].row) = i
      BY <2>3
    <3>2. PICK G : G = given(i)
      OBVIOUS
    <3>3. Cardinality(G) = 1 /\ IsFiniteSet(G)
      <4>1. G \in SUBSET DOMAIN pairs
        BY <3>2
      <4> QED
        BY <1>1, <1>3, <3>1, <3>2, <4>1, FS_Subset
    <3>4. PICK x : G = {x}
      BY <3>3, FS_Singleton
    <3> QED
      BY <3>2, <3>4
  <2>4. given(i) # {} => ~ Rims(s, rows[i]).finite
    BY <1>1 DEF Rims
  <2> QED
    BY <2>2, <2>3, <2>4
<1>6. ASSUME NEW i \in DOMAIN rows, NEW r, r = rows[i].name
      PROVE  /\ Rimmed(SeenRim(s, r)', Rims(s, rows'[i]))
             /\ \A z \in RimSections \ {s} : Rimmed(SeenRim(z, r)', Rims(z, rows'[i]))
             /\ rows'[i].name = rows[i].name
  <2> HIDE DEF given
  <2>1. IsRow(rows[i]) /\ \A z \in RimSections : Rimmed(SeenRim(z, r), Rims(z, rows[i]))
    BY <1>6 DEF ReaderInv, GoodRows, RimInv, RimSections, Rims
  <2>2. CASE given(i) = {}
    <3>1. rows'[i] = rows[i]
      BY <1>1, <2>2
    <3>2. \A z \in RimSections : SeenRim(z, r)' = SeenRim(z, r)
      <4>1. {cell(k) : k \in given(i)} = {}
        BY <2>2
      <4>2. {c \in RimLine(at + 1) : NameIn(c) = r} = {}
        BY <1>5, <1>6, <4>1
      <4> QED
        BY <1>4, <4>2
    <3> QED
      BY <2>1, <3>1, <3>2
  <2>3. CASE given(i) # {}
    <3>1. PICK k \in given(i) : given(i) = {k}
      BY <1>5, <1>6, <2>3
    <3>2. value(i) = At(Number[pairs[k].value])
      <4>1. (CHOOSE x \in given(i) : TRUE) = k
        BY <3>1
      <4> QED
        BY <4>1
    <3>3. k \in DOMAIN pairs
      BY DEF given
    <3>4. SeenRim(s, r) = {}
      <4>1. ~ Rims(s, rows[i]).finite
        BY <1>5, <1>6, <2>3
      <4> QED
        BY <2>1, <4>1 DEF Rimmed, At
    <3>5. SeenRim(s, r)' = {cell(k)}
      <4>1. {c \in RimLine(at + 1) : NameIn(c) = r} = {cell(k)}
        BY <1>5, <1>6, <3>1
      <4> QED
        BY <1>4, <3>4, <4>1
    <3>6. \A z \in RimSections \ {s} : SeenRim(z, r)' = SeenRim(z, r)
      BY <1>4
    <3> HIDE DEF value
    <3>7. rows'[i] = IF s = "RHS" THEN [rows[i] EXCEPT !.rhs = value(i)] ELSE [rows[i] EXCEPT !.range = value(i)]
      BY <1>1, <2>3
    <3>8. Rims(s, rows'[i]) = value(i) /\ rows'[i].name = rows[i].name
          /\ \A z \in RimSections \ {s} : Rims(z, rows'[i]) = Rims(z, rows[i])
      <4>1. CASE s = "RHS"
        BY <2>1, <3>7, <4>1 DEF IsRow, Rims, RimSections
      <4>2. CASE s = "RANGES"
        BY <2>1, <3>7, <4>2 DEF IsRow, Rims, RimSections
      <4> QED
        BY <4>1, <4>2 DEF RimSections
    <3>9. Rimmed(SeenRim(s, r)', Rims(s, rows'[i]))
      BY <1>1, <1>3, <3>2, <3>3, <3>5, <3>8 DEF Rimmed
    <3> QED
      BY <2>1, <3>6, <3>8, <3>9
  <2> QED
    BY <2>2, <2>3
<1>7. DOMAIN rows' = DOMAIN rows
  BY <1>1
<1>8. \A i \in DOMAIN rows' : \A r \in {rows'[i].name} :
        Rimmed(SeenRim("RHS", r), rows[i].rhs)' /\ Rimmed(SeenRim("RANGES", r), rows[i].range)'
  <2>1. \A i \in DOMAIN rows' : \A r \in {rows'[i].name} :
          Rimmed(SeenRim("RHS", r)', rows'[i].rhs) /\ Rimmed(SeenRim("RANGES", r)', rows'[i].range)
    BY <1>6, <1>7 DEF RimSections, Rims
  <2> QED
    <3>1. \A c : ValueAt(c)' = ValueAt(c)
      BY <1>1 DEF ValueAt, Word
    <3> SUFFICES ASSUME NEW i \in DOMAIN rows', NEW r, r = rows'[i].name
                 PROVE  Rimmed(SeenRim("RHS", r), rows[i].rhs)' /\ Rimmed(SeenRim("RANGES", r), rows[i].range)'
      OBVIOUS
    <3>2. Rimmed(SeenRim("RHS", r)', rows'[i].rhs) /\ Rimmed(SeenRim("RANGES", r)', rows'[i].range)
      BY <2>1
    <3>3. Rimmed(SeenRim("RHS", r), rows[i].rhs)'
      BY <3>1, <3>2 DEF Rimmed, IsNumber
    <3>4. Rimmed(SeenRim("RANGES", r), rows[i].range)'
      BY <3>1, <3>2 DEF Rimmed, IsNumber
    <3> QED
      BY <3>3, <3>4
<1>9. \A z \in RimSections : \A k \in Seen({z})' : \A c \in RimLine(k)' : RowNamed(NameIn(c))' # {}
  <2>1. \A k : RimLine(k)' = RimLine(k) /\ \A c : NameIn(c)' = NameIn(c)
    BY <1>1 DEF NameIn, RimLine, CellsOf, Word, Width
  <2>2. \A c : RowNamed(NameIn(c))' = RowNamed(NameIn(c))
    <3>1. \A c : RowNamed(NameIn(c))' = {i \in DOMAIN rows' : rows'[i].name = NameIn(c)}
      BY <2>1 DEF RowNamed
    <3> QED
      BY <3>1, <1>6, <1>7 DEF RowNamed
  <2>3. \A c \in RimLine(at + 1) : RowNamed(NameIn(c)) # {}
    BY <1>1, <1>3
  <2>4. \A z \in RimSections : \A k \in Seen({z})' : k = at + 1 \/ k \in Seen({z})
    BY <1>1 DEF Advances
  <2> QED
    BY <2>1, <2>2, <2>3, <2>4 DEF RimInv
<1> QED
  BY <1>8, <1>9 DEF RimInv

-----------------------------------------------------------------------------
(***************************************************************************)
(* The columns: blocks of integers, and what a column is by its lines.     *)
(***************************************************************************)
\* The markers and the columns seen.
LEMMA MarkersSeen ==
  ASSUME TextInv, NEW w
  PROVE  SeenMarkers(w) \subseteq Seen({"COLUMNS"}) /\ IsFiniteSet(SeenMarkers(w)) /\ Cardinality(SeenMarkers(w)) \in Nat
<1>1. SeenMarkers(w) \subseteq Seen({"COLUMNS"})
  BY DEF SeenMarkers
<1>2. SeenMarkers(w) \subseteq Lines
  BY <1>1, SeenLines
<1> QED
  BY <1>1, <1>2, FiniteLines, FS_CardinalityType

\* Whether the line now read is a marker of that word.
Marks(w) == Width(at + 1) = 3 /\ Word(at + 1, 2) = "MARKER" /\ Word(at + 1, 3) = w

\* A marker is one line more.
LEMMA MarkersGrow ==
  ASSUME TextInv, Advances("COLUMNS"), NEW w
  PROVE  SeenMarkers(w)' = SeenMarkers(w) \union (IF Marks(w) THEN {at + 1} ELSE {})
<1>1. Seen({"COLUMNS"})' = Seen({"COLUMNS"}) \union {at + 1} /\ file' = file
  BY DEF Advances
<1>2. SeenMarkers(w)' = {k \in Seen({"COLUMNS"})' : Width(k) = 3 /\ Word(k, 2) = "MARKER" /\ Word(k, 3) = w}
  BY <1>1 DEF SeenMarkers, Width, Word
<1> QED
  BY <1>1, <1>2 DEF SeenMarkers, Marks

\* A line outside COLUMNS.
LEMMA OtherLine ==
  ASSUME file' = file, Seen({"COLUMNS"})' = Seen({"COLUMNS"})
  PROVE  /\ \A w : SeenMarkers(w)' = SeenMarkers(w)
         /\ SeenColumns' = SeenColumns
         /\ \A x : SeenMentions(x)' = SeenMentions(x)
         /\ \A x : SeenMarked(x)' <=> SeenMarked(x)
<1>1. \A w : SeenMarkers(w)' = SeenMarkers(w)
  BY DEF SeenMarkers, Width, Word
<1>2. SeenColumns' = SeenColumns
  BY <1>1 DEF SeenColumns
<1>3. \A x : SeenMentions(x)' = SeenMentions(x)
  BY <1>2 DEF SeenMentions, Word
<1>4. \A k : Opened(k)' <=> Opened(k)
  BY <1>1 DEF Opened
<1>5. \A x : SeenMarked(x)' <=> SeenMarked(x)
  BY <1>3, <1>4 DEF SeenMarked
<1> QED
  BY <1>1, <1>2, <1>3, <1>5

\* A block stays as it is outside COLUMNS.
LEMMA BlockFrame ==
  ASSUME BlockInv, file' = file, Seen({"COLUMNS"})' = Seen({"COLUMNS"}), inBlock' = inBlock
  PROVE  BlockInv'
BY OtherLine DEF BlockInv

\* A line keeps the markers before it.
LEMMA OpenedKept ==
  ASSUME TextInv, Advances("COLUMNS"), NEW k, k \in Int, k <= at + 1
  PROVE  /\ Opened(k)' <=> Opened(k)
         /\ \A w : {i \in SeenMarkers(w) : i < k}' = {i \in SeenMarkers(w) : i < k}
<1>1. \A w : {i \in SeenMarkers(w)' : i < k} = {i \in SeenMarkers(w) : i < k}
  <2>1. at \in Int
    BY Text DEF TextInv
  <2> QED
    BY <2>1, MarkersGrow
<1> QED
  BY <1>1 DEF Opened

\* A column is mentioned on lines already read.
LEMMA MarkedBefore ==
  ASSUME TextInv, NEW k \in SeenColumns PROVE k \in Int /\ k <= at /\ k # at + 1
<1>1. k \in Int /\ k <= at /\ at \in Int
  BY SeenLines, Text DEF TextInv, SeenColumns
<1> QED
  BY <1>1

\* A marker opens or closes a block and names no column.
LEMMA MarkerLine ==
  ASSUME TextInv, BlockInv, Marker, ~ Reject
  PROVE  /\ BlockInv'
         /\ SeenColumns' = SeenColumns
         /\ \A x : SeenMentions(x)' = SeenMentions(x)
         /\ \A x : SeenMarked(x)' <=> SeenMarked(x)
<1>0. PICK new, old : /\ new = IF inBlock THEN "INTEND" ELSE "INTORG"
                      /\ old = IF inBlock THEN "INTORG" ELSE "INTEND"
  OBVIOUS
<1>1. Advances("COLUMNS") /\ inBlock' = ~ inBlock /\ IsMarker /\ Fields[3] = new /\ file' = file
  BY <1>0, Reads DEF Marker, Advances
<1>2. Marks(new) /\ ~ Marks(old)
  BY <1>0, <1>1 DEF Marks, IsMarker, Fields, Width, Word
<1>3. SeenMarkers(new)' = SeenMarkers(new) \union {at + 1} /\ SeenMarkers(old)' = SeenMarkers(old)
  BY <1>1, <1>2, MarkersGrow
<1>4. at + 1 \notin Seen({"COLUMNS"}) /\ at + 1 \notin SeenMarkers(new) /\ at + 1 \notin SeenMarkers(old)
  <2>1. at \in Int
    BY Text DEF TextInv
  <2> QED
    BY <2>1, SeenLines, MarkersSeen
<1>5. Cardinality(SeenMarkers(new)') = Cardinality(SeenMarkers(new)) + 1
  BY <1>3, <1>4, MarkersSeen, FS_AddElement
<1>6. BlockInv'
  <2>1. \A w : Cardinality(SeenMarkers(w)) \in Nat
    BY MarkersSeen
  <2>2. CASE inBlock
    <3>1. ~ inBlock' /\ new = "INTEND" /\ old = "INTORG"
      BY <1>0, <1>1, <2>2
    <3> QED
      <4>1. Cardinality(SeenMarkers("INTORG")) = Cardinality(SeenMarkers("INTEND")) + 1
        BY <2>2 DEF BlockInv
      <4>2. /\ Cardinality(SeenMarkers("INTEND")') = Cardinality(SeenMarkers("INTEND")) + 1
          /\ Cardinality(SeenMarkers("INTORG")') = Cardinality(SeenMarkers("INTORG"))
        BY <1>3, <1>5, <3>1, Zenon
      <4>3. Cardinality(SeenMarkers("INTORG")') = Cardinality(SeenMarkers("INTEND")') + 0
        BY ONLY <2>1, <4>1, <4>2
      <4> QED
        BY ONLY <3>1, <4>3 DEF BlockInv
  <2>3. CASE ~ inBlock
    <3>1. inBlock' /\ new = "INTORG" /\ old = "INTEND"
      BY <1>0, <1>1, <2>3
    <3> QED
      <4>1. Cardinality(SeenMarkers("INTORG")) = Cardinality(SeenMarkers("INTEND")) + 0
        BY <2>3 DEF BlockInv
      <4>2. /\ Cardinality(SeenMarkers("INTORG")') = Cardinality(SeenMarkers("INTORG")) + 1
          /\ Cardinality(SeenMarkers("INTEND")') = Cardinality(SeenMarkers("INTEND"))
        BY <1>3, <1>5, <3>1, Zenon
      <4>3. Cardinality(SeenMarkers("INTORG")') = Cardinality(SeenMarkers("INTEND")') + 1
        BY ONLY <2>1, <4>1, <4>2
      <4> QED
        BY ONLY <3>1, <4>3 DEF BlockInv
  <2> QED
    BY <2>2, <2>3
<1>7. SeenColumns' = SeenColumns
  <2>1. Seen({"COLUMNS"})' = Seen({"COLUMNS"}) \union {at + 1}
    BY <1>1 DEF Advances
  <2>2. SeenMarkers("INTORG")' \union SeenMarkers("INTEND")'
          = SeenMarkers("INTORG") \union SeenMarkers("INTEND") \union {at + 1}
    <3>1. CASE inBlock
      BY <1>0, <1>3, <3>1
    <3>2. CASE ~ inBlock
      BY <1>0, <1>3, <3>2
    <3> QED
      BY <3>1, <3>2
  <2> QED
    BY <1>4, <2>1, <2>2 DEF SeenColumns
<1>8. \A x : SeenMentions(x)' = SeenMentions(x)
  BY <1>1, <1>7 DEF SeenMentions, Word
<1>9. \A k \in SeenColumns : Opened(k)' <=> Opened(k)
  <2> SUFFICES ASSUME NEW k \in SeenColumns PROVE Opened(k)' <=> Opened(k)
    OBVIOUS
  <2>1. k \in Int /\ k <= at + 1
    <3>1. at \in Int
      BY Text DEF TextInv
    <3> QED
      BY <3>1, MarkedBefore
  <2> QED
    BY <1>1, <2>1, OpenedKept
<1>10. \A x : SeenMarked(x)' <=> SeenMarked(x)
  BY <1>8, <1>9 DEF SeenMarked, SeenMentions
<1> QED
  BY <1>6, <1>7, <1>8, <1>10

\* A record of COLUMNS mentions its column.
LEMMA ColumnLine ==
  ASSUME TextInv, BlockInv, Advances("COLUMNS"), ~ IsMarker
  PROVE  /\ \A w : SeenMarkers(w)' = SeenMarkers(w)
         /\ SeenColumns' = SeenColumns \union {at + 1} /\ at + 1 \notin SeenColumns
         /\ \A x : SeenMentions(x)' = SeenMentions(x) \union (IF Word(at + 1, 1) = x THEN {at + 1} ELSE {})
         /\ \A x : SeenMarked(x)' <=> SeenMarked(x) \/ (Word(at + 1, 1) = x /\ inBlock)
<1>1. \A w : SeenMarkers(w)' = SeenMarkers(w)
  <2>1. \A w : ~ Marks(w)
    BY DEF Marks, IsMarker, Fields, Width, Word
  <2> QED
    BY <2>1, MarkersGrow
<1>2. SeenColumns' = SeenColumns \union {at + 1} /\ at + 1 \notin Seen({"COLUMNS"})
  <2>1. Seen({"COLUMNS"})' = Seen({"COLUMNS"}) \union {at + 1}
    BY DEF Advances
  <2>2. at + 1 \notin Seen({"COLUMNS"})
    <3>1. at \in Int
      BY Text DEF TextInv
    <3> QED
      BY <3>1, SeenLines
  <2>3. at + 1 \notin SeenMarkers("INTORG") \union SeenMarkers("INTEND")
    BY <2>2, MarkersSeen
  <2> QED
    BY <1>1, <2>1, <2>2, <2>3 DEF SeenColumns
<1>3. \A x : SeenMentions(x)' = SeenMentions(x) \union (IF Word(at + 1, 1) = x THEN {at + 1} ELSE {})
  <2>1. file' = file
    BY DEF Advances
  <2> QED
    BY <1>2, <2>1 DEF SeenMentions, Word
<1>4. \A k \in SeenColumns : Opened(k)' <=> Opened(k)
  <2> SUFFICES ASSUME NEW k \in SeenColumns PROVE Opened(k)' <=> Opened(k)
    OBVIOUS
  <2>1. k \in Int /\ k <= at + 1
    <3>1. at \in Int
      BY Text DEF TextInv
    <3> QED
      BY <3>1, MarkedBefore
  <2> QED
    BY <2>1, OpenedKept
<1>5. ASSUME NEW n, n = at + 1 PROVE Opened(n)' <=> inBlock
  <2>1. at \in Int
    BY Text DEF TextInv
  <2>3. n \in Int /\ n <= at + 1
    BY <2>1, <1>5
  <2>4. \A w : {i \in SeenMarkers(w) : i < n} = SeenMarkers(w)
    <3>1. \A w : \A i \in SeenMarkers(w) : i < n
      BY <2>1, <1>5, MarkersSeen, SeenLines
    <3> QED
      BY <3>1
  <2>5. Opened(n) <=> Cardinality(SeenMarkers("INTORG")) > Cardinality(SeenMarkers("INTEND"))
    BY <2>4 DEF Opened
  <2>6. Opened(n) <=> inBlock
    <3>1. \A w : Cardinality(SeenMarkers(w)) \in Nat
      BY MarkersSeen
    <3> QED
      BY <2>5, <3>1 DEF BlockInv
  <2>7. Opened(n)' <=> Opened(n)
    BY <2>3, OpenedKept
  <2> QED
    BY <2>6, <2>7
<1>6. \A x : SeenMarked(x)' <=> SeenMarked(x) \/ (Word(at + 1, 1) = x /\ inBlock)
  <2> SUFFICES ASSUME NEW x PROVE SeenMarked(x)' <=> SeenMarked(x) \/ (Word(at + 1, 1) = x /\ inBlock)
    OBVIOUS
  <2>1. SeenMentions(x) \subseteq SeenColumns
    BY DEF SeenMentions
  <2>2. PICK n : n = at + 1
    OBVIOUS
  <2>3. Opened(n)' <=> inBlock
    BY <1>5, <2>2
  <2>4. SeenMentions(x)' = SeenMentions(x) \union (IF Word(n, 1) = x THEN {n} ELSE {})
    BY <1>3, <2>2
  <2>5. SeenMarked(x)' <=> \E k \in SeenMentions(x)' : Opened(k)'
    BY DEF SeenMarked
  <2>6. SeenMarked(x) <=> \E k \in SeenMentions(x) : Opened(k)'
    BY <1>4, <2>1 DEF SeenMarked
  <2>7. Word(n, 1) = Word(at + 1, 1)
    BY <2>2
  <2> QED
    BY <2>3, <2>4, <2>5, <2>6, <2>7
<1> QED
  BY <1>1, <1>2, <1>3, <1>6 DEF SeenColumns

\* A record of COLUMNS opens and closes no block.
LEMMA BlockOfColumn ==
  ASSUME TextInv, BlockInv, Advances("COLUMNS"), ~ IsMarker, inBlock' = inBlock PROVE BlockInv'
BY ColumnLine DEF BlockInv

\* What was seen is what the file declares up to here.
LEMMA SeenIsDeclared ==
  /\ \A T : Seen(T) = {k \in Under(T) : k <= at}
  /\ \A w : SeenMarkers(w) = {k \in Markers(w) : k <= at}
  /\ \A x : SeenMentions(x) = {k \in Mentions(x) : k <= at}
<1>1. \A w : SeenMarkers(w) = {k \in Markers(w) : k <= at}
  BY DEF SeenMarkers, Markers, Seen
<1>2. \A x : SeenMentions(x) = {k \in Mentions(x) : k <= at}
  BY <1>1 DEF SeenMentions, SeenColumns, Mentions, Seen
<1> QED
  BY <1>1, <1>2 DEF Seen

\* A column is bounded or given curvature after it was named.
LEMMA NamedBefore ==
  ASSUME TextInv, ColumnsInv, NEW x, NEW i \in Mentions(x), i < at + 1
  PROVE  SeenMentions(x) # {} /\ ColumnNamed(columns, x) # {}
<1>1. i \in Int /\ at \in Int
  BY Text DEF TextInv, Mentions, Under
<1>2. i \in SeenMentions(x)
  BY <1>1, SeenIsDeclared
<1>3. i \in SeenColumns /\ Word(i, 1) = x
  BY <1>2 DEF SeenMentions
<1> QED
  BY <1>2, <1>3 DEF ColumnsInv

\* So a file in order bounds no column it has not named.
LEMMA BoundedLate ==
  ASSUME TextInv, Orderly, ColumnsInv, Data("BOUNDS")
  PROVE  SeenMentions(Fields[3]) # {} /\ ColumnNamed(columns, Fields[3]) # {}
<1>1. at + 1 \in Under({"BOUNDS"})
  BY InSection
<1>2. Word(at + 1, 3) = Fields[3]
  BY DEF Word, Fields
<1>3. PICK i \in Mentions(Fields[3]) : i < at + 1
  BY <1>1, <1>2 DEF Orderly
<1> QED
  BY <1>3, NamedBefore

\* Nor does it give curvature to a column it has not named,
LEMMA CurvedLate ==
  ASSUME TextInv, Orderly, ColumnsInv, NEW s \in QuadSections, Data(s), NEW n \in {1, 2}
  PROVE  ColumnNamed(columns, Fields[n]) # {}
<1>1. at + 1 \in Under({"QUADOBJ", "QMATRIX"})
  BY InSection DEF QuadSections
<1>2. Word(at + 1, n) = Fields[n]
  BY DEF Word, Fields
<1>3. PICK i \in Mentions(Fields[n]) : i < at + 1
  BY <1>1, <1>2 DEF Orderly
<1> QED
  BY <1>3, NamedBefore

\* so a column has no bounds when it is first named,
LEMMA BoundedNever ==
  ASSUME TextInv, Orderly, Data("COLUMNS"), ~ IsMarker, NEW T
  PROVE  SeenBounds(Fields[1], T) = {}
<1>1. at + 1 \in Under({"COLUMNS"})
  BY InSection
<1>2. at + 1 \in Mentions(Fields[1])
  BY <1>1 DEF Mentions, Markers, IsMarker, Word, Width, Fields
<1> SUFFICES ASSUME NEW k \in SeenBounds(Fields[1], T) PROVE FALSE
  OBVIOUS
<1>3. k \in Under({"BOUNDS"}) /\ Word(k, 3) = Fields[1] /\ k <= at /\ k \in Int /\ at \in Int
  BY SeenLines, Text DEF SeenBounds, Seen, TextInv
<1>4. at + 1 < k
  BY <1>2, <1>3 DEF Orderly
<1> QED
  BY <1>3, <1>4

\* nor curvature while the table does not hold it,
LEMMA CurvedNever ==
  ASSUME TextInv, Orderly, ColumnsInv, NEW x, ColumnNamed(columns, x) = {}, NEW s \in QuadSections, NEW k \in Seen({s})
  PROVE  Word(k, 1) # x /\ Word(k, 2) # x
<1>1. k \in Under({"QUADOBJ", "QMATRIX"}) /\ k <= at /\ k \in Int /\ at \in Int
  BY SeenLines, Text DEF Seen, TextInv, Under, QuadSections
<1> SUFFICES ASSUME NEW n \in {1, 2}, Word(k, n) = x PROVE FALSE
  OBVIOUS
<1>2. PICK i \in Mentions(x) : i < k
  BY <1>1 DEF Orderly
<1>3. i < at + 1
  <2>1. i \in Int
    BY Text DEF TextInv, Mentions, Under
  <2> QED
    BY <1>1, <1>2, <2>1
<1> QED
  BY <1>3, NamedBefore

\* and the objective is named before every column.
LEMMA NamedFirst ==
  ASSUME TextInv, Orderly, ColumnsInv, Data("OBJNAME")
  PROVE  SeenColumns = {} /\ DOMAIN columns = {}
<1>1. at + 1 \in Under({"OBJNAME"})
  BY InSection
<1>2. Seen({"COLUMNS"}) = {}
  <2> SUFFICES ASSUME NEW k \in Seen({"COLUMNS"}) PROVE FALSE
    OBVIOUS
  <2>1. k \in Under({"COLUMNS"}) /\ k <= at /\ k \in Int /\ at \in Int
    BY SeenLines, Text DEF Seen, TextInv
  <2>2. at + 1 < k
    BY <1>1, <2>1 DEF Orderly
  <2> QED
    BY <2>1, <2>2
<1>3. SeenColumns = {}
  BY <1>2 DEF SeenColumns
<1> QED
  BY <1>3 DEF ColumnsInv, SeenMentions

\* find_or_add_column: the table and the place.
LEMMA ColumnPlaced ==
  ASSUME NEW t, GoodColumns(t), NEW x
  PROVE  /\ TheColumn(WithColumn(t, x), x) \in DOMAIN WithColumn(t, x)
         /\ WithColumn(t, x)[TheColumn(WithColumn(t, x), x)].name = x
         /\ DistinctNames(WithColumn(t, x))
         /\ DOMAIN WithColumn(t, x) = DOMAIN t \union {TheColumn(WithColumn(t, x), x)}
         /\ \A i \in DOMAIN t : WithColumn(t, x)[i] = t[i]
         /\ ColumnNamed(t, x) = {} <=> TheColumn(WithColumn(t, x), x) \notin DOMAIN t
         /\ ColumnNamed(t, x) = {} => WithColumn(t, x)[TheColumn(WithColumn(t, x), x)] = Fresh(x)
<1>1. CASE ColumnNamed(t, x) # {}
  <2>1. TheColumn(t, x) \in ColumnNamed(t, x)
    BY <1>1 DEF TheColumn
  <2>2. WithColumn(t, x) = t
    BY <1>1 DEF WithColumn
  <2> QED
    BY <1>1, <2>1, <2>2 DEF GoodColumns, ColumnNamed
<1>2. CASE ColumnNamed(t, x) = {}
  <2>1. PICK u, n : u = Append(t, Fresh(x)) /\ n = Len(t) + 1
    OBVIOUS
  <2>2. WithColumn(t, x) = u
    BY <1>2, <2>1 DEF WithColumn
  <2>3. /\ DOMAIN t = 1 .. Len(t) /\ DOMAIN u = 1 .. Len(t) + 1 /\ Len(t) \in Nat
        /\ \A i \in DOMAIN t : u[i] = t[i]
        /\ u[n] = Fresh(x)
    BY <2>1, AppendTable DEF GoodColumns
  <2>4. Fresh(x).name = x
    BY DEF Fresh
  <2>5. n \notin DOMAIN t /\ DOMAIN u = DOMAIN t \union {n}
    BY <2>1, <2>3
  <2>6. ColumnNamed(u, x) = {n}
    BY <1>2, <2>3, <2>4, <2>5 DEF ColumnNamed
  <2>7. TheColumn(u, x) = n
    BY <2>6 DEF TheColumn
  <2>8. DistinctNames(u)
    <3>1. \A i, j \in DOMAIN t : u[i].name = u[j].name => i = j
      BY <2>3 DEF GoodColumns, DistinctNames
    <3>2. \A i \in DOMAIN u : u[i].name = x => i = n
      BY <2>6 DEF ColumnNamed
    <3> QED
      BY <2>3, <2>4, <2>5, <3>1, <3>2 DEF DistinctNames
  <2> QED
    BY <1>2, <2>2, <2>3, <2>4, <2>5, <2>7, <2>8
<1> QED
  BY <1>1, <1>2

\* What a record of COLUMNS does to the table: the column and what is added to its objective.
ColumnBefore(j) == IF j \in DOMAIN columns THEN columns[j] ELSE Fresh(Fields[1])
Promoted(j) == inBlock /\ ColumnBefore(j).type = "continuous"
ColumnAdded(j, z) ==
  /\ DOMAIN columns' = DOMAIN columns \union {j}
  /\ \A i \in DOMAIN columns \ {j} : columns'[i] = columns[i] /\ columns[i].name # Fields[1]
  /\ columns'[j].name = Fields[1] /\ ColumnBefore(j).name = Fields[1]
  /\ columns'[j].type = IF Promoted(j) THEN "integer" ELSE ColumnBefore(j).type
  /\ columns'[j].lower = ColumnBefore(j).lower
  /\ columns'[j].upper = IF Promoted(j) THEN At(1) ELSE ColumnBefore(j).upper
  /\ columns'[j].objective = ColumnBefore(j).objective + z

\* A record of COLUMNS changes the one column it names.
LEMMA ColumnRead ==
  ASSUME ReaderInv, ColumnRecord, ~ Reject,
         NEW j, j = TheColumn(WithColumn(columns, Fields[1]), Fields[1]),
         NEW z, z = SumOver(Pairs(2), {k \in DOMAIN Pairs(2) : InObjective(Pairs(2)[k])})
  PROVE  ColumnAdded(j, z)
<1>1. PICK t : t = WithColumn(columns, Fields[1])
  OBVIOUS
<1>2. columns' = [MadeInteger(t, j) EXCEPT ![j].objective = @ + z]
  BY <1>1 DEF ColumnRecord
<1>3. /\ j \in DOMAIN t /\ t[j].name = Fields[1] /\ DistinctNames(t)
      /\ DOMAIN t = DOMAIN columns \union {j} /\ \A i \in DOMAIN columns : t[i] = columns[i]
      /\ j \notin DOMAIN columns => t[j] = Fresh(Fields[1])
  BY <1>1, ColumnPlaced DEF ReaderInv
<1>4. t[j] = ColumnBefore(j)
  BY <1>3 DEF ColumnBefore
<1>5. IsColumn(t[j])
  BY <1>3 DEF ReaderInv, GoodColumns, IsColumn, Fresh
<1>6. PICK c : c = t[j]
  OBVIOUS
<1>7. c = [f \in {"name", "type", "lower", "upper", "objective"} |-> c[f]]
  BY <1>5, <1>6 DEF IsColumn
<1>8. PICK m : m = MadeInteger(t, j)
  OBVIOUS
<1>9. DOMAIN m = DOMAIN t /\ \A i \in DOMAIN t \ {j} : m[i] = t[i]
  BY <1>8 DEF MadeInteger
<1>10. PICK d : d = IF Promoted(j) THEN [c EXCEPT !.type = "integer", !.upper = At(1)] ELSE c
  OBVIOUS
<1>11. m[j] = d
  BY <1>3, <1>4, <1>6, <1>8, <1>10 DEF MadeInteger, Promoted
<1>12. /\ DOMAIN d = {"name", "type", "lower", "upper", "objective"}
       /\ d.name = c.name /\ d.lower = c.lower /\ d.objective = c.objective
       /\ d.type = (IF Promoted(j) THEN "integer" ELSE c.type)
       /\ d.upper = (IF Promoted(j) THEN At(1) ELSE c.upper)
  BY <1>7, <1>10
<1>13. /\ DOMAIN columns' = DOMAIN t /\ \A i \in DOMAIN t \ {j} : columns'[i] = t[i]
       /\ columns'[j] = [d EXCEPT !.objective = @ + z]
  BY <1>2, <1>3, <1>8, <1>9, <1>11
<1>14. /\ columns'[j].name = c.name /\ columns'[j].lower = c.lower /\ columns'[j].type = d.type
       /\ columns'[j].upper = d.upper /\ columns'[j].objective = c.objective + z
  BY <1>12, <1>13
<1>15. \A i \in DOMAIN columns \ {j} : columns[i].name # Fields[1]
  BY <1>3 DEF DistinctNames
<1> QED
  BY <1>3, <1>4, <1>6, <1>12, <1>13, <1>14, <1>15 DEF ColumnAdded

SameNames(t) == DOMAIN t = DOMAIN columns /\ \A j \in DOMAIN columns : t[j].name = columns[j].name

\* The columns of the table are those the lines name.
LEMMA ColumnsFrame ==
  ASSUME ColumnsInv, file' = file, SeenColumns' = SeenColumns, SameNames(columns') PROVE ColumnsInv'
<1>1. \A j \in DOMAIN columns' : \E k \in SeenColumns' : Word(k, 1) = columns'[j].name
  BY DEF ColumnsInv, SeenMentions, SameNames
<1>2. \A k \in SeenColumns' : \E j \in DOMAIN columns' : columns'[j].name = Word(k, 1)
  BY DEF ColumnsInv, ColumnNamed, SameNames
<1> QED
  BY <1>1, <1>2 DEF ColumnsInv, SeenMentions, ColumnNamed, Word

\* A record of COLUMNS adds its own.
LEMMA ColumnsOfColumn ==
  ASSUME TextInv, BlockInv, ColumnsInv, Advances("COLUMNS"), ~ IsMarker, NEW j, NEW z, ColumnAdded(j, z)
  PROVE  ColumnsInv'
<1>1. SeenColumns' = SeenColumns \union {at + 1} /\ file' = file /\ Word(at + 1, 1) = Fields[1]
  BY ColumnLine DEF Advances, Word, Fields
<1>2. \A i \in DOMAIN columns : columns'[i].name = columns[i].name
  BY DEF ColumnAdded, ColumnBefore
<1>3. \A i \in DOMAIN columns' : \E k \in SeenColumns' : Word(k, 1) = columns'[i].name
  <2> SUFFICES ASSUME NEW i \in DOMAIN columns' PROVE \E k \in SeenColumns' : Word(k, 1) = columns'[i].name
    OBVIOUS
  <2>1. CASE i = j
    BY <1>1, <2>1 DEF ColumnAdded
  <2>2. CASE i \in DOMAIN columns
    BY <1>1, <1>2, <2>2 DEF ColumnsInv, SeenMentions
  <2> QED
    BY <2>1, <2>2 DEF ColumnAdded
<1>4. \A k \in SeenColumns' : \E i \in DOMAIN columns' : columns'[i].name = Word(k, 1)
  <2> SUFFICES ASSUME NEW k \in SeenColumns' PROVE \E i \in DOMAIN columns' : columns'[i].name = Word(k, 1)
    OBVIOUS
  <2>1. CASE k = at + 1
    BY <1>1, <2>1 DEF ColumnAdded
  <2>2. CASE k \in SeenColumns
    <3>1. PICK i \in DOMAIN columns : columns[i].name = Word(k, 1)
      BY <2>2 DEF ColumnsInv, ColumnNamed
    <3> QED
      BY <1>2, <3>1 DEF ColumnAdded
  <2> QED
    BY <1>1, <2>1, <2>2
<1> QED
  BY <1>1, <1>3, <1>4 DEF ColumnsInv, SeenMentions, ColumnNamed, Word

\* Rows come, but none of those a cell names changes.
RowsKept ==
  /\ DOMAIN rows \subseteq DOMAIN rows'
  /\ \A i \in DOMAIN rows : rows'[i].type = rows[i].type /\ rows'[i].name = rows[i].name
  /\ objectiveName' = objectiveName \/ \A i \in DOMAIN rows : rows[i].type # "N"

CellIs(c, t, name) ==
  IsNumber(ValueAt(c)) /\ \E i \in DOMAIN t : t[i].name = NameIn(c) /\ (t[i].type = "N" => t[i].name = name)

\* A cell has a number, and an objective row in it is the objective.
LEMMA CellsAre == CellsInv <=> \A k \in SeenColumns : \A c \in CellsOf(k, 2) : CellIs(c, rows, objectiveName)
BY DEF CellsInv, CellIs, RowNamed

\* The same after a step.
LEMMA CellsAreNext ==
  ASSUME file' = file, \A k \in SeenColumns' : \A c \in CellsOf(k, 2) : CellIs(c, rows', objectiveName')
  PROVE  CellsInv'
<1>1. \A k : CellsOf(k, 2)' = CellsOf(k, 2) /\ \A c : NameIn(c)' = NameIn(c) /\ ValueAt(c)' = ValueAt(c)
  BY DEF CellsOf, NameIn, ValueAt, Word, Width
<1>2. \A k \in SeenColumns' : \A c \in CellsOf(k, 2)' :
        IsNumber(ValueAt(c)') /\ \E i \in DOMAIN rows' :
           rows'[i].name = NameIn(c)' /\ (rows'[i].type = "N" => rows'[i].name = objectiveName')
  BY <1>1 DEF CellIs
<1> QED
  BY <1>2 DEF CellsInv, RowNamed, IsNumber

\* Cells stay while no line of COLUMNS is read.
LEMMA CellsFrame ==
  ASSUME CellsInv, file' = file, SeenColumns' = SeenColumns, RowsKept PROVE CellsInv'
<1>1. \A c : CellIs(c, rows, objectiveName) => CellIs(c, rows', objectiveName')
  <2> SUFFICES ASSUME NEW c, CellIs(c, rows, objectiveName) PROVE CellIs(c, rows', objectiveName')
    OBVIOUS
  <2>1. PICK i \in DOMAIN rows : rows[i].name = NameIn(c) /\ (rows[i].type = "N" => rows[i].name = objectiveName)
    BY DEF CellIs
  <2>2. i \in DOMAIN rows' /\ rows'[i].name = NameIn(c) /\ (rows'[i].type = "N" => rows'[i].name = objectiveName')
    BY <2>1 DEF RowsKept
  <2> QED
    BY <2>2 DEF CellIs
<1> QED
  BY <1>1, CellsAre, CellsAreNext

\* A record of COLUMNS is refused unless its cells are sound.
LEMMA CellsOfColumn ==
  ASSUME TextInv, ReaderInv, BlockInv, CellsInv, ColumnRecord, ~ Reject PROVE CellsInv'
<1> DEFINE pairs == Pairs(2)
<1> HIDE DEF pairs
<1>1. /\ Advances("COLUMNS") /\ ~ IsMarker /\ file' = file /\ Reading
      /\ UNCHANGED <<rows, objectiveName>>
      /\ \A k \in DOMAIN pairs : RowNamed(pairs[k].row) # {} /\ IsNumber(pairs[k].value)
      /\ \A k \in DOMAIN pairs : InObjective(pairs[k]) => pairs[k].row = objectiveName
  BY Reads DEF ColumnRecord, Advances, Data, options, pairs
<1>2. SeenColumns' = SeenColumns \union {at + 1}
  BY <1>1, ColumnLine
<1>3. \A c \in CellsOf(at + 1, 2) : CellIs(c, rows, objectiveName)
  <2>1. pairs = Pairs(2)
    BY DEF pairs
  <2>2. PICK start : start = 2
    OBVIOUS
  <2>3. /\ CellsOf(at + 1, start) = {<<at + 1, start + 2 * k - 2>> : k \in DOMAIN pairs}
        /\ \A k \in DOMAIN pairs : /\ NameIn(<<at + 1, start + 2 * k - 2>>) = pairs[k].row
                                   /\ ValueAt(<<at + 1, start + 2 * k - 2>>) = pairs[k].value
    BY <1>1, <2>1, <2>2, CellsOfLine
  <2> SUFFICES ASSUME NEW k \in DOMAIN pairs PROVE CellIs(<<at + 1, start + 2 * k - 2>>, rows, objectiveName)
    BY <2>2, <2>3
  <2>4. PICK i : i = TheRow(pairs[k].row)
    OBVIOUS
  <2>5. i \in DOMAIN rows /\ rows[i].name = pairs[k].row
    BY <1>1, <2>4, RowFound DEF ReaderInv, GoodRows
  <2>6. rows[i].type = "N" => rows[i].name = objectiveName
    BY <1>1, <2>4, <2>5 DEF InObjective
  <2> QED
    BY <1>1, <2>3, <2>5, <2>6 DEF CellIs
<1>4. \A k \in SeenColumns' : \A c \in CellsOf(k, 2) : CellIs(c, rows', objectiveName')
  BY <1>1, <1>2, <1>3, CellsAre
<1> QED
  BY <1>1, <1>4, CellsAreNext

\* What the bounds read so far say of a column.
LEMMA BoundsReadSame ==
  ASSUME file' = file, NEW x, \A T : SeenBounds(x, T)' = SeenBounds(x, T), SeenMarked(x)' <=> SeenMarked(x)
  PROVE  TypeRead(x)' = TypeRead(x) /\ LowerRead(x)' = LowerRead(x) /\ UpperRead(x)' = UpperRead(x)
<1>1. \A k : Kind(k)' = Kind(k) /\ Limit(k, 0)' = Limit(k, 0) /\ Limit(k, 1)' = Limit(k, 1)
  BY DEF Kind, Limit, Word
<1>2. \A T : LastRead(x, T)' = LastRead(x, T)
  BY DEF LastRead
<1>3. \A T : Kind(LastRead(x, T))' = Kind(LastRead(x, T)) /\ Limit(LastRead(x, T), 0)' = Limit(LastRead(x, T), 0)
             /\ Limit(LastRead(x, T), 1)' = Limit(LastRead(x, T), 1)
  BY <1>2 DEF Kind, Limit, Word
<1>4. TypeRead(x)' = TypeRead(x)
  BY <1>3 DEF TypeRead
<1>5. LowerRead(x)' = LowerRead(x)
  BY <1>3 DEF LowerRead
<1>6. UpperRead(x)' = UpperRead(x)
  BY <1>3 DEF UpperRead
<1> QED
  BY <1>4, <1>5, <1>6

\* No record of BOUNDS, no bound.
LEMMA SeenBoundsSame ==
  ASSUME file' = file, Seen({"BOUNDS"})' = Seen({"BOUNDS"}), NEW x, NEW T PROVE SeenBounds(x, T)' = SeenBounds(x, T)
BY DEF SeenBounds, Word

SameBounds(c, d) == c.type = d.type /\ c.lower = d.lower /\ c.upper = d.upper

\* The invariant after a step, by columns.
LEMMA BoundsNext ==
  ASSUME \A j \in DOMAIN columns' : \A x \in {columns'[j].name} :
           columns'[j].type = TypeRead(x)' /\ columns'[j].lower = LowerRead(x)' /\ columns'[j].upper = UpperRead(x)'
  PROVE  BoundsInv'
BY DEF BoundsInv

\* Bounds stay while no line of theirs is read and no column changes.
LEMMA BoundsFrame ==
  ASSUME BoundsInv, file' = file, Seen({"BOUNDS"})' = Seen({"BOUNDS"}), \A x : SeenMarked(x)' <=> SeenMarked(x),
         SameNames(columns'), \A j \in DOMAIN columns : SameBounds(columns'[j], columns[j])
  PROVE  BoundsInv'
<1>1. \A x : TypeRead(x)' = TypeRead(x) /\ LowerRead(x)' = LowerRead(x) /\ UpperRead(x)' = UpperRead(x)
  BY SeenBoundsSame, BoundsReadSame
<1> QED
  BY <1>1, BoundsNext DEF BoundsInv, SameNames, SameBounds

\* A new column has the bounds of its block.
LEMMA BoundsOfColumn ==
  ASSUME TextInv, BlockInv, ColumnsInv, BoundsInv, Orderly, Data("COLUMNS"), Advances("COLUMNS"), ~ IsMarker,
         NEW j, NEW z, ColumnAdded(j, z)
  PROVE  BoundsInv'
<1>1. /\ file' = file /\ Seen({"BOUNDS"})' = Seen({"BOUNDS"}) /\ Word(at + 1, 1) = Fields[1]
      /\ \A x : SeenMarked(x)' <=> SeenMarked(x) \/ (Fields[1] = x /\ inBlock)
  BY ColumnLine DEF Advances, Word, Fields
<1>2. \A x, T : SeenBounds(x, T)' = SeenBounds(x, T)
  BY <1>1, SeenBoundsSame
<1>3. ASSUME NEW i \in DOMAIN columns, i # j, NEW x, x = columns[i].name
      PROVE  columns'[i] = columns[i] /\ columns[i].type = TypeRead(x)'
             /\ columns[i].lower = LowerRead(x)' /\ columns[i].upper = UpperRead(x)'
  <2>1. columns'[i] = columns[i] /\ x # Fields[1]
    BY <1>3 DEF ColumnAdded
  <2>2. SeenMarked(x)' <=> SeenMarked(x)
    BY <1>1, <2>1
  <2>3. TypeRead(x)' = TypeRead(x) /\ LowerRead(x)' = LowerRead(x) /\ UpperRead(x)' = UpperRead(x)
    BY <1>1, <1>2, <2>2, BoundsReadSame
  <2> QED
    BY <1>3, <2>1, <2>3 DEF BoundsInv
<1>4. PICK x : x = Fields[1]
  OBVIOUS
<1>5. \A T : SeenBounds(x, T) = {}
  BY <1>4, BoundedNever
<1>6. \A T : SeenBounds(x, T)' = {}
  BY <1>2, <1>5
<1>7. /\ TypeRead(x)' = (IF SeenMarked(x)' THEN "integer" ELSE "continuous")
      /\ LowerRead(x)' = At(0) /\ UpperRead(x)' = (IF SeenMarked(x)' THEN At(1) ELSE NoBound)
  BY <1>6 DEF TypeRead, LowerRead, UpperRead
<1>8. SeenMarked(x)' <=> SeenMarked(x) \/ inBlock
  BY <1>1, <1>4
<1>9. PICK c : c = ColumnBefore(j)
  OBVIOUS
<1>10. /\ c.type = (IF SeenMarked(x) \/ (j \notin DOMAIN columns /\ inBlock) THEN "integer" ELSE "continuous")
       /\ c.lower = At(0)
       /\ c.upper = (IF SeenMarked(x) \/ (j \notin DOMAIN columns /\ inBlock) THEN At(1) ELSE NoBound)
  <2>1. CASE j \in DOMAIN columns
    <3>1. c = columns[j] /\ c.name = x
      BY <1>4, <1>9, <2>1 DEF ColumnAdded, ColumnBefore
    <3>2. c.type = TypeRead(x) /\ c.lower = LowerRead(x) /\ c.upper = UpperRead(x)
      BY <2>1, <3>1 DEF BoundsInv
    <3> QED
      BY <1>5, <2>1, <3>2 DEF TypeRead, LowerRead, UpperRead
  <2>2. CASE j \notin DOMAIN columns
    <3>1. c = Fresh(x)
      BY <1>4, <1>9, <2>2 DEF ColumnBefore
    <3>2. ~ SeenMarked(x)
      <4>1. \A k \in SeenColumns : Word(k, 1) # x
        BY <1>4, <2>2 DEF ColumnsInv, ColumnNamed, ColumnAdded
      <4> QED
        BY <4>1 DEF SeenMarked, SeenMentions
    <3> QED
      BY <2>2, <3>1, <3>2 DEF Fresh
  <2> QED
    BY <2>1, <2>2
<1>11. /\ columns'[j].name = x
       /\ columns'[j].type = (IF inBlock /\ c.type = "continuous" THEN "integer" ELSE c.type)
       /\ columns'[j].lower = c.lower
       /\ columns'[j].upper = IF inBlock /\ c.type = "continuous" THEN At(1) ELSE c.upper
  BY <1>4, <1>9 DEF ColumnAdded, Promoted
<1>12. columns'[j].type = TypeRead(x)' /\ columns'[j].lower = LowerRead(x)' /\ columns'[j].upper = UpperRead(x)'
  BY <1>7, <1>8, <1>10, <1>11
<1>13. DOMAIN columns' = DOMAIN columns \union {j}
  BY DEF ColumnAdded
<1> QED
  BY <1>3, <1>11, <1>12, <1>13, BoundsNext

-----------------------------------------------------------------------------
(***************************************************************************)
(* Bounds.                                                                 *)
(***************************************************************************)
\* A bound of a column that exists changes that column only.
BoundSet(j, z) ==
  /\ j \in DOMAIN columns /\ columns[j].name = Fields[3] /\ DOMAIN columns' = DOMAIN columns
  /\ columns'[j] = Bounded(columns[j], Fields[1], z)
  /\ \A i \in DOMAIN columns \ {j} : columns'[i] = columns[i] /\ columns[i].name # Fields[3]

\* A record of BOUNDS changes the one column it names.
LEMMA BoundRead ==
  ASSUME TextInv, ReaderInv, ColumnsInv, Orderly, BoundRecord, ~ Reject,
         NEW j, j = TheColumn(WithColumn(columns, Fields[3]), Fields[3]),
         NEW z, z = IF Len(Fields) = 4 THEN Number[Fields[4]] ELSE 0
  PROVE  BoundSet(j, z)
<1>1. Data("BOUNDS") /\ columns' = [WithColumn(columns, Fields[3]) EXCEPT ![j] = Bounded(@, Fields[1], z)]
  BY DEF BoundRecord
<1>2. ColumnNamed(columns, Fields[3]) # {}
  BY <1>1, BoundedLate
<1>3. WithColumn(columns, Fields[3]) = columns
  BY <1>2 DEF WithColumn
<1>4. j \in DOMAIN columns /\ columns[j].name = Fields[3] /\ DistinctNames(columns)
  <2>1. GoodColumns(columns) /\ DistinctNames(columns)
    BY DEF ReaderInv, GoodColumns
  <2>2. PICK x : x = Fields[3]
    OBVIOUS
  <2>3. j \in DOMAIN WithColumn(columns, x) /\ WithColumn(columns, x)[j].name = x
    <3>1. /\ TheColumn(WithColumn(columns, x), x) \in DOMAIN WithColumn(columns, x)
          /\ WithColumn(columns, x)[TheColumn(WithColumn(columns, x), x)].name = x
      BY <2>1, ColumnPlaced
    <3>2. j = TheColumn(WithColumn(columns, x), x)
      BY <2>2
    <3> QED
      BY <3>1, <3>2
  <2> QED
    BY <1>3, <2>1, <2>2, <2>3
<1>5. columns' = [columns EXCEPT ![j] = Bounded(columns[j], Fields[1], z)]
  BY <1>1, <1>3
<1> QED
  BY <1>4, <1>5 DEF BoundSet, DistinctNames

\* A record of BOUNDS is seen for its column and its type.
LEMMA SeenBoundsGrow ==
  ASSUME TextInv, Advances("BOUNDS"), NEW n, n = at + 1
  PROVE  /\ \A x, T : SeenBounds(x, T)' = SeenBounds(x, T) \union (IF Word(n, 3) = x /\ Word(n, 1) \in T THEN {n} ELSE {})
         /\ \A x, T : Word(n, 3) = x /\ Word(n, 1) \in T => LastRead(x, T)' = n
<1>1. \A x, T : SeenBounds(x, T)' = SeenBounds(x, T) \union (IF Word(n, 3) = x /\ Word(n, 1) \in T THEN {n} ELSE {})
  <2>1. Seen({"BOUNDS"})' = Seen({"BOUNDS"}) \union {n} /\ file' = file
    BY DEF Advances
  <2>2. \A x, T : SeenBounds(x, T)' = {k \in Seen({"BOUNDS"})' : Word(k, 3) = x /\ Word(k, 1) \in T}
    BY <2>1 DEF SeenBounds, Word
  <2> QED
    BY <2>1, <2>2 DEF SeenBounds
<1>2. ASSUME NEW x, NEW T, Word(n, 3) = x, Word(n, 1) \in T PROVE LastRead(x, T)' = n
  <2>1. SeenBounds(x, T) \subseteq Int /\ \A k \in SeenBounds(x, T) : k <= at
    BY SeenLines DEF SeenBounds
  <2>2. PICK S : S = SeenBounds(x, T)
    OBVIOUS
  <2>3. Max(S \union {at + 1}) = at + 1
    BY <2>1, <2>2, SeenLatest
  <2>4. SeenBounds(x, T)' = S \union {n}
    BY <1>1, <1>2, <2>2
  <2> QED
    BY <2>3, <2>4 DEF LastRead
<1> QED
  BY <1>1, <1>2

\* What one more bound says.
LEMMA BoundsReadNext ==
  ASSUME TextInv, Advances("BOUNDS"), NEW n, n = at + 1, NEW x, x = Word(n, 3), SeenMarked(x)' <=> SeenMarked(x)
  PROVE  /\ LowerRead(x)' = IF Word(n, 1) \notin SetLower THEN LowerRead(x)
                            ELSE IF Word(n, 1) \in {"FR", "MI"} THEN NoBound ELSE Limit(n, 0)
         /\ UpperRead(x)' = IF Word(n, 1) \notin SetUpper THEN UpperRead(x)
                            ELSE IF Word(n, 1) \in {"FR", "PL"} THEN NoBound ELSE Limit(n, 1)
         /\ TypeRead(x)' = IF Word(n, 1) \notin Integral THEN TypeRead(x)
                           ELSE IF Word(n, 1) = "BV" THEN "binary" ELSE "integer"
<1>1. /\ \A T : SeenBounds(x, T)' = SeenBounds(x, T) \union (IF Word(n, 1) \in T THEN {n} ELSE {})
      /\ \A T : Word(n, 1) \in T => LastRead(x, T)' = n
      /\ file' = file
  BY SeenBoundsGrow DEF Advances
<1>2. \A k : Kind(k)' = Kind(k) /\ Limit(k, 0)' = Limit(k, 0) /\ Limit(k, 1)' = Limit(k, 1)
  BY <1>1 DEF Kind, Limit, Word
<1>3. ASSUME NEW T, Word(n, 1) \notin T
      PROVE  /\ SeenBounds(x, T)' = SeenBounds(x, T) /\ Kind(LastRead(x, T))' = Kind(LastRead(x, T))
             /\ Limit(LastRead(x, T), 0)' = Limit(LastRead(x, T), 0)
             /\ Limit(LastRead(x, T), 1)' = Limit(LastRead(x, T), 1)
  <2>1. SeenBounds(x, T)' = SeenBounds(x, T)
    BY <1>1, <1>3
  <2>2. LastRead(x, T)' = LastRead(x, T)
    BY <2>1 DEF LastRead
  <2> QED
    BY <1>1, <2>1, <2>2 DEF Kind, Limit, Word
<1>4. ASSUME NEW T, Word(n, 1) \in T
      PROVE  /\ SeenBounds(x, T)' # {} /\ Kind(LastRead(x, T))' = Word(n, 1)
             /\ Limit(LastRead(x, T), 0)' = Limit(n, 0) /\ Limit(LastRead(x, T), 1)' = Limit(n, 1)
  <2>1. SeenBounds(x, T)' # {} /\ LastRead(x, T)' = n
    BY <1>1, <1>4
  <2> QED
    BY <1>1, <2>1 DEF Kind, Limit, Word
<1>5. LowerRead(x)' = IF Word(n, 1) \notin SetLower THEN LowerRead(x)
                      ELSE IF Word(n, 1) \in {"FR", "MI"} THEN NoBound ELSE Limit(n, 0)
  <2>1. CASE Word(n, 1) \in SetLower
    BY <1>4, <2>1 DEF LowerRead
  <2>2. CASE Word(n, 1) \notin SetLower
    BY <1>3, <2>2 DEF LowerRead
  <2> QED
    BY <2>1, <2>2
<1>6. UpperRead(x)' = IF Word(n, 1) \notin SetUpper THEN UpperRead(x)
                      ELSE IF Word(n, 1) \in {"FR", "PL"} THEN NoBound ELSE Limit(n, 1)
  <2>1. CASE Word(n, 1) \in SetUpper
    BY <1>4, <2>1 DEF UpperRead
  <2>2. CASE Word(n, 1) \notin SetUpper
    BY <1>3, <2>2 DEF UpperRead
  <2> QED
    BY <2>1, <2>2
<1>7. TypeRead(x)' = IF Word(n, 1) \notin Integral THEN TypeRead(x)
                     ELSE IF Word(n, 1) = "BV" THEN "binary" ELSE "integer"
  <2>1. CASE Word(n, 1) \in Integral
    BY <1>4, <2>1 DEF TypeRead, Integral
  <2>2. CASE Word(n, 1) \notin Integral
    BY <1>3, <2>2 DEF TypeRead, Integral
  <2> QED
    BY <2>1, <2>2
<1> QED
  BY <1>5, <1>6, <1>7

\* The last record that bounds a side of a column counts.
LEMMA BoundsOfBound ==
  ASSUME TextInv, ReaderInv, BoundsInv, Advances("BOUNDS"), \A x : SeenMarked(x)' <=> SeenMarked(x),
         NEW j, NEW z, BoundSet(j, z), Fields[1] \in NumberedBounds \union PlainBounds,
         Fields[1] \in NumberedBounds => z = Number[Fields[4]]
  PROVE  BoundsInv'
<1>1. PICK n, x, type : n = at + 1 /\ x = Fields[3] /\ type = Fields[1]
  OBVIOUS
<1>2. Word(n, 3) = x /\ Word(n, 1) = type /\ Word(n, 4) = Fields[4] /\ file' = file
  BY <1>1 DEF Word, Fields, Advances
<1>3. ASSUME NEW i \in DOMAIN columns, i # j, NEW y, y = columns[i].name
      PROVE  columns'[i] = columns[i] /\ columns[i].type = TypeRead(y)'
             /\ columns[i].lower = LowerRead(y)' /\ columns[i].upper = UpperRead(y)'
  <2>1. columns'[i] = columns[i] /\ y # x
    BY <1>1, <1>3 DEF BoundSet
  <2>2. \A T : SeenBounds(y, T)' = SeenBounds(y, T)
    <3>1. \A w, T : SeenBounds(w, T)' =
            SeenBounds(w, T) \union (IF Word(n, 3) = w /\ Word(n, 1) \in T THEN {n} ELSE {})
      BY <1>1, SeenBoundsGrow
    <3> QED
      BY <1>2, <2>1, <3>1
  <2>3. TypeRead(y)' = TypeRead(y) /\ LowerRead(y)' = LowerRead(y) /\ UpperRead(y)' = UpperRead(y)
    BY <1>2, <2>2, BoundsReadSame
  <2> QED
    BY <1>3, <2>1, <2>3 DEF BoundsInv
<1>4. /\ LowerRead(x)' = IF type \notin SetLower THEN LowerRead(x)
                         ELSE IF type \in {"FR", "MI"} THEN NoBound ELSE Limit(n, 0)
      /\ UpperRead(x)' = IF type \notin SetUpper THEN UpperRead(x)
                         ELSE IF type \in {"FR", "PL"} THEN NoBound ELSE Limit(n, 1)
      /\ TypeRead(x)' = IF type \notin Integral THEN TypeRead(x) ELSE IF type = "BV" THEN "binary" ELSE "integer"
  BY <1>1, <1>2, BoundsReadNext
<1>5. PICK c : c = columns[j]
  OBVIOUS
<1>6. /\ columns'[j] = Bounded(c, type, z) /\ IsColumn(c) /\ c.name = x
      /\ c.type = TypeRead(x) /\ c.lower = LowerRead(x) /\ c.upper = UpperRead(x)
  BY <1>1, <1>5 DEF BoundSet, BoundsInv, ReaderInv, GoodColumns
<1>7. \A b \in {0, 1} : Limit(n, b) = IF type = "BV" THEN At(b) ELSE At(Number[Fields[4]])
  BY <1>2 DEF Limit, Kind
<1>8. c = [f \in {"name", "type", "lower", "upper", "objective"} |-> c[f]]
  BY <1>6 DEF IsColumn
<1>9. PICK d : d = columns'[j]
  OBVIOUS
<1>10. /\ d.name = c.name
       /\ d.lower = IF type \notin SetLower THEN c.lower
                    ELSE IF type \in {"FR", "MI"} THEN NoBound ELSE IF type = "BV" THEN At(0) ELSE At(z)
       /\ d.upper = IF type \notin SetUpper THEN c.upper
                    ELSE IF type \in {"FR", "PL"} THEN NoBound ELSE IF type = "BV" THEN At(1) ELSE At(z)
       /\ d.type = IF type \notin Integral THEN c.type ELSE IF type = "BV" THEN "binary" ELSE "integer"
  <2>1. CASE type \in {"LO", "UP", "FX"}
    BY <1>6, <1>8, <1>9, <2>1 DEF Bounded, SetLower, SetUpper, Integral
  <2>2. CASE type \in {"FR", "MI", "PL"}
    BY <1>6, <1>8, <1>9, <2>2 DEF Bounded, SetLower, SetUpper, Integral
  <2>3. CASE type \in {"BV", "LI", "UI"}
    BY <1>6, <1>8, <1>9, <2>3 DEF Bounded, SetLower, SetUpper, Integral
  <2> QED
    BY <1>1, <2>1, <2>2, <2>3 DEF NumberedBounds, PlainBounds
<1>11. \A b \in {0, 1} : type \in (SetLower \union SetUpper) \ {"FR", "MI", "PL", "BV"} => At(z) = Limit(n, b)
  BY <1>1, <1>7 DEF SetLower, SetUpper, NumberedBounds
<1>12. d.lower = LowerRead(x)'
  BY <1>4, <1>6, <1>7, <1>10, <1>11 DEF SetLower
<1>13. d.upper = UpperRead(x)'
  BY <1>4, <1>6, <1>7, <1>10, <1>11 DEF SetUpper
<1>14. d.type = TypeRead(x)' /\ d.name = x
  BY <1>4, <1>6, <1>10
<1>15. DOMAIN columns' = DOMAIN columns
  BY DEF BoundSet
<1> QED
  BY <1>3, <1>9, <1>12, <1>13, <1>14, <1>15, BoundsNext

-----------------------------------------------------------------------------
(***************************************************************************)
(* The entries of the matrix and the objective.                            *)
(***************************************************************************)
\* Cells are finitely many, and their values numbers.
LEMMA FinitePairs ==
  ASSUME NEW k, NEW S, IsFiniteSet(S) PROVE IsFiniteSet({<<k, m>> : m \in S})
<1> DEFINE G == {A \in SUBSET S : IsFiniteSet({<<k, m>> : m \in A})}
<1>1. {} \in G
  <2>1. {<<k, m>> : m \in {}} = {}
    OBVIOUS
  <2> QED
    BY <2>1, FS_EmptySet
<1>2. ASSUME NEW A \in SUBSET S, NEW z \in S, A \in G, z \notin A PROVE A \union {z} \in G
  <2>1. {<<k, m>> : m \in A \union {z}} = {<<k, m>> : m \in A} \union {<<k, z>>}
    OBVIOUS
  <2>2. IsFiniteSet({<<k, m>> : m \in A}) /\ IsFiniteSet({<<k, z>>})
    BY <1>2, FS_Singleton
  <2>3. PICK U, V : U = {<<k, m>> : m \in A} /\ V = {<<k, z>>}
    OBVIOUS
  <2>4. IsFiniteSet(U \union V)
    BY <2>2, <2>3, FS_Union
  <2>5. IsFiniteSet({<<k, m>> : m \in A \union {z}})
    BY <2>1, <2>3, <2>4
  <2> QED
    BY <2>5
<1> HIDE DEF G
<1>3. S \in G
  BY <1>1, <1>2, SetInduction
<1> QED
  BY <1>3 DEF G

\* So the cells of a line are,
LEMMA FiniteCells ==
  ASSUME TextInv, NEW k \in Lines PROVE IsFiniteSet(CellsOf(k, 2))
<1>1. PICK w : w = Width(k)
  OBVIOUS
<1>2. w \in Nat
  BY <1>1, Text DEF TextInv
<1>3. IsFiniteSet({i \in 2 .. w - 1 : (i - 2) % 2 = 0})
  <2>1. IsFiniteSet(2 .. w - 1)
    BY <1>2, FS_Interval
  <2>2. {i \in 2 .. w - 1 : (i - 2) % 2 = 0} \in SUBSET (2 .. w - 1)
    OBVIOUS
  <2> QED
    BY <2>1, <2>2, FS_Subset
<1>4. PICK S : S = {i \in 2 .. w - 1 : (i - 2) % 2 = 0}
  OBVIOUS
<1>5. IsFiniteSet({<<k, m>> : m \in S})
  BY <1>3, <1>4, FinitePairs
<1>6. CellsOf(k, 2) = {<<k, m>> : m \in S}
  BY <1>1, <1>4 DEF CellsOf
<1> QED
  BY <1>5, <1>6

\* those seen of a row and a column are,
LEMMA FiniteSeenCells ==
  ASSUME TextInv, NEW x, NEW r PROVE IsFiniteSet(SeenCells(r, x))
<1>1. PICK M : M = SeenMentions(x)
  OBVIOUS
<1>2. M \subseteq Lines
  BY <1>1, SeenLines DEF SeenMentions, SeenColumns
<1>3. IsFiniteSet(M)
  BY <1>2, FiniteLines
<1> DEFINE G == {A \in SUBSET M : IsFiniteSet(UNION {CellsOf(k, 2) : k \in A})}
<1>4. {} \in G
  <2>1. UNION {CellsOf(k, 2) : k \in {}} = {}
    OBVIOUS
  <2> QED
    BY <2>1, FS_EmptySet
<1>5. ASSUME NEW A \in SUBSET M, NEW z \in M, A \in G, z \notin A PROVE A \union {z} \in G
  <2>1. PICK U, V : U = UNION {CellsOf(k, 2) : k \in A} /\ V = CellsOf(z, 2)
    OBVIOUS
  <2>2. UNION {CellsOf(k, 2) : k \in A \union {z}} = U \union V
    BY <2>1
  <2>3. IsFiniteSet(U) /\ IsFiniteSet(V)
    BY <1>2, <1>5, <2>1, FiniteCells
  <2>4. IsFiniteSet(U \union V)
    BY <2>3, FS_Union
  <2> QED
    BY <2>2, <2>4
<1> HIDE DEF G
<1>6. M \in G
  BY <1>3, <1>4, <1>5, SetInduction
<1>7. PICK U : U = UNION {CellsOf(k, 2) : k \in M}
  OBVIOUS
<1>8. IsFiniteSet(U) /\ SeenCells(r, x) \in SUBSET U
  BY <1>1, <1>6, <1>7 DEF G, SeenCells
<1> QED
  BY <1>8, FS_Subset

\* and each has a number.
LEMMA WholeCells ==
  ASSUME TextInv, CellsInv, NEW x, NEW r, NEW c \in SeenCells(r, x)
  PROVE  Number[Word(c[1], c[2] + 1)] \in Int /\ c[1] \in SeenColumns /\ RowNamed(r) # {}
<1>1. PICK k \in SeenMentions(x) : c \in CellsOf(k, 2) /\ NameIn(c) = r
  BY DEF SeenCells
<1>2. k \in SeenColumns /\ c[1] = k
  BY <1>1 DEF SeenMentions, CellsOf
<1>3. IsNumber(ValueAt(c)) /\ RowNamed(NameIn(c)) # {}
  BY <1>1, <1>2 DEF CellsInv
<1> QED
  BY <1>1, <1>2, <1>3, NumbersAreWhole DEF ValueAt, IsNumber

\* A coefficient stays while its column is not mentioned.
LEMMA SumReadSame ==
  ASSUME file' = file, NEW x, SeenMentions(x)' = SeenMentions(x), NEW r
  PROVE  SumRead(r, x)' = SumRead(r, x)
<1>1. SeenCells(r, x)' = SeenCells(r, x)
  BY DEF SeenCells, CellsOf, NameIn, Word, Width
<1> QED
  BY <1>1 DEF SumRead, Values, Word

\* Nothing is read of a row that does not exist.
LEMMA SumReadNothing ==
  ASSUME TextInv, CellsInv, NEW r, RowNamed(r) = {}, NEW x PROVE SumRead(r, x) = 0
<1>1. SeenCells(r, x) = {}
  BY WholeCells
<1> QED
  BY <1>1, TotalEmpty DEF SumRead, Values

\* The pairs of a record that name a row.
PairsOf(p, r) == {k \in DOMAIN p : p[k].row = r}

\* It grows by the cells of a line that mentions it.
LEMMA SumReadGrows ==
  ASSUME TextInv, BlockInv, CellsInv, Reading, Advances("COLUMNS"), ~ IsMarker,
         NEW p, p = Pairs(2), \A k \in DOMAIN p : IsNumber(p[k].value), NEW x, x = Fields[1], NEW r
  PROVE  SumRead(r, x)' = SumRead(r, x) + SumOver(p, PairsOf(p, r))
<1>1. PICK n, start : n = at + 1 /\ start = 2
  OBVIOUS
<1>2. /\ file' = file /\ Word(n, 1) = x /\ n \in Int /\ n \notin SeenColumns
      /\ SeenMentions(x)' = SeenMentions(x) \union {n}
  <2>1. at \in Int
    BY Text DEF TextInv
  <2> QED
    BY <1>1, <2>1, ColumnLine DEF Advances, Word, Fields
<1>3. /\ CellsOf(n, 2) = {<<n, start + 2 * k - 2>> : k \in DOMAIN p}
      /\ DOMAIN p \subseteq Nat \ {0} /\ IsFiniteSet(DOMAIN p)
      /\ \A k \in DOMAIN p : /\ NameIn(<<n, start + 2 * k - 2>>) = p[k].row
                             /\ ValueAt(<<n, start + 2 * k - 2>>) = p[k].value
  BY <1>1, CellsOfLine
<1>4. PICK C, D : C = SeenCells(r, x) /\ D = {c \in CellsOf(n, 2) : NameIn(c) = r}
  OBVIOUS
<1>5. SeenCells(r, x)' = C \union D
  <2>1. SeenCells(r, x)' = {c \in UNION {CellsOf(k, 2) : k \in SeenMentions(x)'} : NameIn(c) = r}
    BY <1>2 DEF SeenCells, CellsOf, NameIn, Word, Width
  <2> QED
    BY <1>2, <1>4, <2>1 DEF SeenCells
<1>6. PICK K : K = PairsOf(p, r)
  OBVIOUS
<1>7. K \subseteq DOMAIN p /\ IsFiniteSet(K)
  <2>1. K \in SUBSET DOMAIN p
    BY <1>6 DEF PairsOf
  <2> QED
    BY <1>3, <2>1, FS_Subset
<1> DEFINE v == [k \in K |-> <<n, start + 2 * k - 2>>]
           g == [k \in K |-> Number[p[k].value]]
           f == [c \in C \union D |-> Number[Word(c[1], c[2] + 1)]]
<1>8. D = {v[k] : k \in K}
  <2>1. \A k : k \in K <=> k \in DOMAIN p /\ p[k].row = r
    BY <1>6 DEF PairsOf
  <2>2. \A k \in K : v[k] = <<n, start + 2 * k - 2>>
    OBVIOUS
  <2> HIDE DEF v
  <2>3. ASSUME NEW k \in K PROVE v[k] \in D
    <3>1. v[k] \in CellsOf(n, 2) /\ NameIn(v[k]) = p[k].row
      BY <1>3, <2>1, <2>2
    <3> QED
      BY <1>4, <2>1, <3>1
  <2>4. ASSUME NEW c \in D PROVE \E k \in K : v[k] = c
    <3>1. PICK k \in DOMAIN p : c = <<n, start + 2 * k - 2>>
      BY <1>3, <1>4
    <3>2. p[k].row = r
      BY <1>3, <1>4, <3>1
    <3> QED
      BY <2>1, <2>2, <3>1, <3>2
  <2> QED
    BY <2>3, <2>4
<1>9. /\ \A k \in K : v[k] \in D
      /\ \A c \in D : \E k \in K : v[k] = c
  BY <1>8
<1>10. \A k, l \in K : v[k] = v[l] => k = l
  <2> SUFFICES ASSUME NEW k \in K, NEW l \in K, v[k] = v[l] PROVE k = l
    OBVIOUS
  <2>1. start + 2 * k - 2 = start + 2 * l - 2
    OBVIOUS
  <2>2. k \in Nat /\ l \in Nat
    BY <1>3, <1>7
  <2> QED
    BY <1>1, <2>1, <2>2
<1>11. IsFiniteSet(D)
  <2>1. D \subseteq CellsOf(n, 2) /\ n \in Lines
    BY <1>1, <1>4 DEF Advances
  <2>2. D \in SUBSET CellsOf(n, 2) /\ IsFiniteSet(CellsOf(n, 2))
    BY <2>1, FiniteCells
  <2> QED
    BY <2>2, FS_Subset
<1>12. \A k \in K : g[k] = f[v[k]] /\ f[v[k]] \in Int
  <2> SUFFICES ASSUME NEW k \in K PROVE g[k] = f[v[k]] /\ f[v[k]] \in Int
    OBVIOUS
  <2>1. v[k] \in D /\ v[k] = <<n, start + 2 * k - 2>> /\ k \in DOMAIN p
    BY <1>7, <1>9
  <2>2. ValueAt(v[k]) = p[k].value
    BY <1>3, <2>1
  <2>3. f[v[k]] = Number[ValueAt(v[k])]
    BY <2>1 DEF ValueAt
  <2>4. Number[p[k].value] \in Int
    BY <2>1, NumbersAreWhole DEF IsNumber
  <2> QED
    BY <2>2, <2>3, <2>4
<1>13. AllInt(f, C \union D)
  <2>1. \A c \in C : f[c] \in Int
    BY <1>4, WholeCells
  <2>2. \A c \in D : f[c] \in Int
    BY <1>9, <1>12
  <2> QED
    BY <2>1, <2>2 DEF AllInt
<1>14. C \cap D = {} /\ IsFiniteSet(C)
  <2>1. \A c \in C : c[1] # n
    BY <1>2, <1>4, WholeCells
  <2>2. \A c \in D : c[1] = n
    BY <1>4 DEF CellsOf
  <2> QED
    BY <1>4, <2>1, <2>2, FiniteSeenCells
<1> DEFINE h == [c \in C |-> Number[Word(c[1], c[2] + 1)]]
<1>15. \A c \in C : h[c] = f[c]
  OBVIOUS
<1>16. SumRead(r, x)' = Total(f, C \union D)
  BY <1>2, <1>5 DEF SumRead, Values, Word
<1>17. SumRead(r, x) = Total(h, C)
  BY <1>4 DEF SumRead, Values
<1>18. SumOver(p, K) = Total(g, K)
  BY DEF SumOver
<1> HIDE DEF v, g, f, h
<1>19. Total(g, K) = Total(f, D)
  <2>1. AllInt(f, D)
    BY <1>13 DEF AllInt
  <2> QED
    BY <1>7, <1>9, <1>10, <1>11, <1>12, <2>1, TotalMoved
<1>20. Total(f, C \union D) = Total(h, C) + Total(f, D)
  <2>1. \A c \in D : f[c] = f[c]
    OBVIOUS
  <2> QED
    BY <1>11, <1>13, <1>14, <1>15, TotalParts
<1> QED
  BY <1>6, <1>16, <1>17, <1>18, <1>19, <1>20

\* The entries and the costs, as the invariant has them in the next state.
LEMMA EntriesNext ==
  ASSUME IsFiniteSet(entries'), \A e \in entries' : e.place[1] \in 0 .. at' - 1 /\ e.value \in Int,
         \A j \in DOMAIN columns' : \A x \in {columns'[j].name} :
           /\ (\A i \in DOMAIN rows' : rows'[i].name = objectiveName' => rows'[i].type = "N") =>
                 \A r \in {objectiveName'} : columns'[j].objective = SumRead(r, x)'
           /\ \A i \in DOMAIN rows' : rows'[i].type # "N" =>
                \A r \in {rows'[i].name} : Summed({e \in entries' : e.row = i /\ e.column = j}) = SumRead(r, x)'
  PROVE  EntriesInv'
<1>1. CostKept' <=> \A i \in DOMAIN rows' : rows'[i].name = objectiveName' => rows'[i].type = "N"
  BY DEF CostKept, RowNamed
<1>2. \A i, j : EntriesAt(i, j)' = {e \in entries' : e.row = i /\ e.column = j}
  BY DEF EntriesAt
<1>3. \A S : Summed(S)' = Summed(S)
  BY DEF Summed
<1> QED
  BY <1>1, <1>2, <1>3 DEF EntriesInv, EntriesAt, Summed

\* A place read is one of those before the next.
LEMMA AfterThat == ASSUME NEW n \in Int, NEW m \in {n, n + 1}, NEW k \in 0 .. n - 1 PROVE k \in 0 .. m - 1
OBVIOUS

SameCosts(t) == \A j \in DOMAIN columns : t[j].objective = columns[j].objective

\* Entries stay while no column is read and no row or column changes.
LEMMA EntriesFrame ==
  ASSUME TextInv, EntriesInv, file' = file, at' \in {at, at + 1}, \A x : SeenMentions(x)' = SeenMentions(x),
         UNCHANGED <<entries, objectiveName>>, SameNames(columns'), SameCosts(columns'),
         RowsKept, DOMAIN rows' = DOMAIN rows
  PROVE  EntriesInv'
<1>1. \A x, r : SumRead(r, x)' = SumRead(r, x)
  BY SumReadSame
<1>2. \A e \in entries' : e.place[1] \in 0 .. at' - 1 /\ e.value \in Int
  <2>1. at \in Int
    BY Text DEF TextInv
  <2>2. \A e \in entries : e.place[1] \in 0 .. at - 1 /\ e.value \in Int
    BY DEF EntriesInv
  <2> SUFFICES ASSUME NEW e \in entries PROVE e.place[1] \in 0 .. at' - 1
    BY <2>2
  <2>3. e.place[1] \in 0 .. at - 1
    BY <2>2
  <2> QED
    BY <2>1, <2>3, AfterThat
<1> SUFFICES ASSUME NEW j \in DOMAIN columns, NEW x, x = columns[j].name
             PROVE  /\ (\A i \in DOMAIN rows : rows[i].name = objectiveName => rows[i].type = "N") =>
                          columns[j].objective = SumRead(objectiveName, x)
                    /\ \A i \in DOMAIN rows : rows[i].type # "N" =>
                         \A r \in {rows[i].name} : Summed({e \in entries : e.row = i /\ e.column = j}) = SumRead(r, x)
  <2>1. /\ DOMAIN columns' = DOMAIN columns /\ DOMAIN rows' = DOMAIN rows
        /\ \A j \in DOMAIN columns : columns'[j].name = columns[j].name /\ columns'[j].objective = columns[j].objective
        /\ \A i \in DOMAIN rows : rows'[i].name = rows[i].name /\ rows'[i].type = rows[i].type
    BY DEF SameNames, SameCosts, RowsKept
  <2>2. IsFiniteSet(entries')
    BY DEF EntriesInv
  <2>3. \A j \in DOMAIN columns' : \A x \in {columns'[j].name} :
           /\ (\A i \in DOMAIN rows' : rows'[i].name = objectiveName' => rows'[i].type = "N") =>
                 \A r \in {objectiveName'} : columns'[j].objective = SumRead(r, x)'
           /\ \A i \in DOMAIN rows' : rows'[i].type # "N" =>
                \A r \in {rows'[i].name} : Summed({e \in entries' : e.row = i /\ e.column = j}) = SumRead(r, x)'
    BY <1>1, <2>1
  <2> QED
    BY <1>2, <2>2, <2>3, EntriesNext
<1>3. (\A i \in DOMAIN rows : rows[i].name = objectiveName => rows[i].type = "N") =>
         columns[j].objective = SumRead(objectiveName, x)
  BY DEF EntriesInv, CostKept, RowNamed
<1>4. \A i \in DOMAIN rows : rows[i].type # "N" =>
        \A r \in {rows[i].name} : Summed({e \in entries : e.row = i /\ e.column = j}) = SumRead(r, x)
  BY DEF EntriesInv, EntriesAt
<1> QED
  BY <1>3, <1>4

\* A new row has neither cells nor entries yet.
LEMMA EntriesOfRow ==
  ASSUME TextInv, ReaderInv, ObjectiveInv, RowsInv, CellsInv, EntriesInv, RowRecord, ~ Reject PROVE EntriesInv'
<1> DEFINE row == [type |-> Fields[1], name |-> Fields[2], rhs |-> NoBound, range |-> NoBound]
<1>1. /\ Advances("ROWS") /\ file' = file /\ rows' = Append(rows, row) /\ RowNamed(Fields[2]) = {}
      /\ UNCHANGED <<columns, entries>> /\ at' = at + 1
      /\ objectiveName' = IF Fields[1] = "N" /\ objectiveName = NoName THEN Fields[2] ELSE objectiveName
  BY Reads DEF RowRecord, Advances
<1>2. PICK n : n = Len(rows) + 1
  OBVIOUS
<1>3. /\ DOMAIN rows' = DOMAIN rows \union {n} /\ n \notin DOMAIN rows
      /\ \A i \in DOMAIN rows : rows'[i] = rows[i]
      /\ rows'[n] = row
  <2>1. /\ DOMAIN rows = 1 .. Len(rows) /\ DOMAIN rows' = 1 .. Len(rows) + 1 /\ Len(rows) \in Nat
        /\ \A i \in DOMAIN rows : rows'[i] = rows[i]
        /\ rows'[Len(rows) + 1] = row
    BY <1>1, AppendTable DEF ReaderInv, GoodRows
  <2> QED
    BY <1>2, <2>1
<1>4. row.name = Fields[2]
  OBVIOUS
<1> HIDE DEF row
<1>5. \A x, r : SumRead(r, x)' = SumRead(r, x)
  <2>1. Seen({"COLUMNS"})' = Seen({"COLUMNS"})
    BY <1>1 DEF Advances
  <2> QED
    BY <1>1, <2>1, OtherLine, SumReadSame
<1>6. \A x : SumRead(Fields[2], x) = 0
  BY <1>1, SumReadNothing
<1>7. objectiveName = NoName => RowNamed(NoName) = {} /\ \A x : SumRead(NoName, x) = 0
  <2>1. \A i \in DOMAIN rows : rows[i].name # NoName
    <3> SUFFICES ASSUME NEW i \in DOMAIN rows PROVE rows[i].name # NoName
      OBVIOUS
    <3>1. PICK k \in Seen({"ROWS"}) : Declares(k, rows[i])
      BY DEF RowsInv
    <3>2. Width(k) = 2 /\ \A m \in 1 .. Width(k) : Word(k, m) # NoName
      BY <3>1, SeenLines, Text DEF TextInv, RowsInv
    <3>3. Word(k, 2) # NoName
      BY <3>2
    <3> QED
      BY <3>1, <3>3 DEF Declares
  <2>2. RowNamed(NoName) = {}
    BY <2>1 DEF RowNamed
  <2> QED
    BY <2>2, SumReadNothing
<1>8. \A e \in entries' : e.place[1] \in 0 .. at' - 1 /\ e.value \in Int
  <2>1. at \in Int
    BY Text DEF TextInv
  <2>2. \A e \in entries : e.place[1] \in 0 .. at - 1 /\ e.value \in Int
    BY DEF EntriesInv
  <2> SUFFICES ASSUME NEW e \in entries PROVE e.place[1] \in 0 .. at' - 1
    BY <1>1, <2>2
  <2>3. e.place[1] \in 0 .. at - 1
    BY <2>2
  <2> QED
    BY <1>1, <2>1, <2>3, AfterThat
<1>9. ASSUME NEW j \in DOMAIN columns, NEW x, x = columns[j].name,
             \A i \in DOMAIN rows' : rows'[i].name = objectiveName' => rows'[i].type = "N"
      PROVE  columns[j].objective = SumRead(objectiveName', x)
  <2>1. CASE objectiveName' = objectiveName
    <3>1. CostKept
      BY <1>3, <1>9, <2>1 DEF CostKept, RowNamed
    <3> QED
      BY <1>9, <2>1, <3>1 DEF EntriesInv
  <2>2. CASE objectiveName' # objectiveName
    <3>1. objectiveName = NoName /\ objectiveName' = Fields[2]
      BY <1>1, <2>2
    <3>2. CostKept
      BY <1>7, <3>1 DEF CostKept
    <3>3. columns[j].objective = 0
      BY <1>7, <1>9, <3>1, <3>2 DEF EntriesInv
    <3> QED
      BY <1>6, <3>1, <3>3
  <2> QED
    BY <2>1, <2>2
<1>10. ASSUME NEW j \in DOMAIN columns, NEW x, x = columns[j].name, NEW i \in DOMAIN rows', rows'[i].type # "N"
       PROVE  Summed({e \in entries : e.row = i /\ e.column = j}) = SumRead(rows'[i].name, x)
  <2>1. CASE i \in DOMAIN rows
    BY <1>3, <1>10, <2>1 DEF EntriesInv, EntriesAt
  <2>2. CASE i = n
    <3>1. {e \in entries : e.row = i /\ e.column = j} = {}
      BY <1>3, <2>2 DEF ReaderInv, IndicesResolve
    <3>2. Summed({}) = 0
      BY TotalEmpty DEF Summed
    <3> QED
      BY <1>3, <1>4, <1>6, <2>2, <3>1, <3>2
  <2> QED
    BY <1>3, <2>1, <2>2
<1>11. \A j \in DOMAIN columns' : \A x \in {columns'[j].name} :
         /\ (\A i \in DOMAIN rows' : rows'[i].name = objectiveName' => rows'[i].type = "N") =>
               \A r \in {objectiveName'} : columns'[j].objective = SumRead(r, x)'
         /\ \A i \in DOMAIN rows' : rows'[i].type # "N" =>
              \A r \in {rows'[i].name} : Summed({e \in entries' : e.row = i /\ e.column = j}) = SumRead(r, x)'
  BY <1>1, <1>5, <1>9, <1>10
<1>12. IsFiniteSet(entries')
  BY <1>1 DEF EntriesInv
<1> QED
  BY <1>8, <1>11, <1>12, EntriesNext

\* The image of a finite set.
LEMMA FiniteImage ==
  ASSUME NEW S, IsFiniteSet(S), NEW v PROVE IsFiniteSet({v[k] : k \in S})
<1> DEFINE G == {A \in SUBSET S : IsFiniteSet({v[k] : k \in A})}
<1>1. {} \in G
  <2>1. {v[k] : k \in {}} = {}
    OBVIOUS
  <2> QED
    BY <2>1, FS_EmptySet
<1>2. ASSUME NEW A \in SUBSET S, NEW z \in S, A \in G, z \notin A PROVE A \union {z} \in G
  <2>1. PICK U, V : U = {v[k] : k \in A} /\ V = {v[z]}
    OBVIOUS
  <2>2. {v[k] : k \in A \union {z}} = U \union V
    BY <2>1
  <2>3. IsFiniteSet(U) /\ IsFiniteSet(V)
    BY <1>2, <2>1, FS_Singleton
  <2>4. IsFiniteSet(U \union V)
    BY <2>3, FS_Union
  <2> QED
    BY <2>2, <2>4
<1> HIDE DEF G
<1>3. S \in G
  BY <1>1, <1>2, SetInduction
<1> QED
  BY <1>3 DEF G

\* Nothing is read of a column that does not exist.
LEMMA ColumnUnread ==
  ASSUME ColumnsInv, NEW x, ColumnNamed(columns, x) = {}, NEW r PROVE SumRead(r, x) = 0
<1>1. SeenMentions(x) = {}
  BY DEF ColumnsInv, SeenMentions
<1>2. SeenCells(r, x) = {}
  BY <1>1 DEF SeenCells
<1> QED
  BY <1>2, TotalEmpty DEF SumRead, Values

\* The entries of the line now read, and those of one row.
CellAt(p, j, k) == [place |-> <<at, k>>, row |-> TheRow(p[k].row), column |-> j, value |-> Number[p[k].value]]
Outside(p) == {k \in DOMAIN p : ~ InObjective(p[k])}
Cells(p, j) == {CellAt(p, j, k) : k \in Outside(p)}

\* A line adds the values of its cells to the coefficients of its column.
LEMMA CellsSummed ==
  ASSUME NEW p, IsFiniteSet(DOMAIN p), \A k \in DOMAIN p : IsNumber(p[k].value), NEW j, NEW K \in SUBSET DOMAIN p
  PROVE  IsFiniteSet({CellAt(p, j, k) : k \in K}) /\ Summed({CellAt(p, j, k) : k \in K}) = SumOver(p, K)
<1> DEFINE v == [k \in K |-> CellAt(p, j, k)]
           T == {v[k] : k \in K}
           f == [e \in T |-> e.value]
           g == [k \in K |-> Number[p[k].value]]
<1>1. {CellAt(p, j, k) : k \in K} = T
  OBVIOUS
<1>2. IsFiniteSet(K)
  BY FS_Subset
<1>3. IsFiniteSet(T)
  <2> HIDE DEF v
  <2> QED
    BY <1>2, FiniteImage
<1>4. \A k \in K : v[k] \in T /\ g[k] = f[v[k]]
  BY DEF CellAt
<1>5. \A e \in T : \E k \in K : v[k] = e
  OBVIOUS
<1>6. \A k, l \in K : v[k] = v[l] => k = l
  <2> SUFFICES ASSUME NEW k \in K, NEW l \in K, v[k] = v[l] PROVE k = l
    OBVIOUS
  <2>1. v[k].place = <<at, k>> /\ v[l].place = <<at, l>>
    BY DEF CellAt
  <2>2. <<at, k>> = <<at, l>>
    BY <2>1
  <2> QED
    BY <2>2
<1>7. \A k \in K : g[k] \in Int
  BY NumbersAreWhole DEF IsNumber
<1>9. SumOver(p, K) = Total(g, K) /\ Summed(T) = Total(f, T)
  BY DEF SumOver, Summed
<1> HIDE DEF v, T, f, g
<1>8. AllInt(f, T)
  <2> SUFFICES ASSUME NEW e \in T PROVE f[e] \in Int
    BY DEF AllInt
  <2>1. PICK k \in K : v[k] = e
    BY ONLY <1>5
  <2>2. g[k] = f[e]
    BY ONLY <1>4, <2>1, k \in K, Zenon
  <2>3. g[k] \in Int
    BY ONLY <1>7, k \in K
  <2> QED
    BY ONLY <2>2, <2>3
<1>10. Total(g, K) = Total(f, T)
  BY <1>2, <1>3, <1>4, <1>5, <1>6, <1>8, TotalMoved
<1> QED
  BY <1>1, <1>3, <1>9, <1>10

\* So the entries and the objective still add up to the cells read.
LEMMA EntriesOfColumn ==
  ASSUME TextInv, ReaderInv, BlockInv, ColumnsInv, CellsInv, EntriesInv, ColumnRecord, ~ Reject,
         NEW p, p = Pairs(2), NEW j, j = TheColumn(WithColumn(columns, Fields[1]), Fields[1]),
         NEW z, z = SumOver(p, {k \in DOMAIN p : InObjective(p[k])})
  PROVE  EntriesInv'
<1>1. /\ Advances("COLUMNS") /\ ~ IsMarker /\ file' = file /\ Reading /\ at' = at + 1
      /\ UNCHANGED <<rows, objectiveName>>
      /\ \A k \in DOMAIN p : RowNamed(p[k].row) # {} /\ IsNumber(p[k].value)
      /\ \A k \in DOMAIN p : InObjective(p[k]) => p[k].row = objectiveName
  BY Reads DEF ColumnRecord, Advances, Data, options
<1>2. entries' = entries \union Cells(p, j)
  <2>1. entries' = entries \union
          {[place |-> <<at, k>>, row |-> TheRow(p[k].row), column |-> j, value |-> Number[p[k].value]] :
             k \in DOMAIN p \ {k \in DOMAIN p : InObjective(p[k])}}
    BY DEF ColumnRecord
  <2>2. Outside(p) = DOMAIN p \ {k \in DOMAIN p : InObjective(p[k])}
    BY DEF Outside
  <2> QED
    BY <2>1, <2>2 DEF Cells, CellAt
<1>3. ColumnAdded(j, z)
  BY ColumnRead
<1>4. PICK x : x = Fields[1]
  OBVIOUS
<1>5. IsFiniteSet(DOMAIN p) /\ DOMAIN p \subseteq Nat
  <2>1. PICK start : start = 2
    OBVIOUS
  <2>2. start \in {1, 2} /\ p = Pairs(start)
    BY <2>1
  <2> QED
    BY <1>1, <2>2, CellsOfLine
<1>6. \A r : SumRead(r, x)' = SumRead(r, x) + SumOver(p, PairsOf(p, r))
  BY <1>1, <1>4, SumReadGrows
<1>7. \A y, r : y # x => SumRead(r, y)' = SumRead(r, y)
  <2>1. \A y : y # x => SeenMentions(y)' = SeenMentions(y)
    <3>1. Word(at + 1, 1) = x
      BY <1>4 DEF Word, Fields
    <3>2. \A y : SeenMentions(y)' = SeenMentions(y) \union (IF Word(at + 1, 1) = y THEN {at + 1} ELSE {})
      BY <1>1, ColumnLine
    <3> QED
      BY <3>1, <3>2
  <2> QED
    BY <1>1, <2>1, SumReadSame
<1>8. IsFiniteSet(Cells(p, j)) /\ IsFiniteSet(entries')
  <2>1. Outside(p) \in SUBSET DOMAIN p
    BY DEF Outside
  <2>2. IsFiniteSet(Cells(p, j))
    BY <1>1, <1>5, <2>1, CellsSummed DEF Cells
  <2>3. PICK S : S = Cells(p, j)
    OBVIOUS
  <2>4. IsFiniteSet(entries \union S)
    BY <2>2, <2>3, FS_Union DEF EntriesInv
  <2> QED
    BY <1>2, <2>2, <2>3, <2>4
<1>9. /\ \A e \in Cells(p, j) : e.place[1] = at /\ e.value \in Int /\ e.column = j
      /\ at \in Nat
  <2>1. at \in Nat
    BY Text DEF TextInv
  <2>2. \A k \in Outside(p) : Number[p[k].value] \in Int
    BY <1>1, NumbersAreWhole DEF Outside, IsNumber
  <2> QED
    BY <2>1, <2>2 DEF Cells, CellAt
<1>10. \A e \in entries : e.place[1] \in 0 .. at - 1 /\ e.value \in Int
  BY DEF EntriesInv
<1>11. \A e \in entries' : e.place[1] \in 0 .. at' - 1 /\ e.value \in Int
  <2> SUFFICES ASSUME NEW e \in entries' PROVE e.place[1] \in 0 .. (at + 1) - 1 /\ e.value \in Int
    BY <1>1
  <2>1. CASE e \in entries
    <3>1. PICK m : m = e.place[1]
      OBVIOUS
    <3>2. m \in 0 .. at - 1 /\ e.value \in Int
      BY <1>10, <2>1, <3>1
    <3>3. m \in 0 .. (at + 1) - 1
      BY <1>9, <3>2
    <3> QED
      BY <3>1, <3>2, <3>3
  <2>2. CASE e \in Cells(p, j)
    BY <1>9, <2>2
  <2> QED
    BY <1>2, <2>1, <2>2
<1>12. ASSUME NEW i \in DOMAIN rows, rows[i].type # "N", NEW r, r = rows[i].name
       PROVE  /\ {e \in Cells(p, j) : e.row = i /\ e.column = j} = {CellAt(p, j, k) : k \in PairsOf(p, r)}
              /\ PairsOf(p, r) \in SUBSET DOMAIN p
  <2>1. \A k \in DOMAIN p : p[k].row = r <=> TheRow(p[k].row) = i
    BY <1>1, <1>12, RowFound DEF ReaderInv, GoodRows
  <2>2. \A k \in DOMAIN p : TheRow(p[k].row) = i => k \in Outside(p)
    BY <1>12 DEF Outside, InObjective
  <2>3. \A k \in Outside(p) : k \in DOMAIN p /\ (CellAt(p, j, k).row = i <=> TheRow(p[k].row) = i) /\ CellAt(p, j, k).column = j
    BY DEF Outside, CellAt
  <2> QED
    BY <2>1, <2>2, <2>3 DEF Cells, PairsOf
<1>13. ASSUME NEW i \in DOMAIN rows, rows[i].type # "N", NEW r, r = rows[i].name
       PROVE  Summed({e \in entries : e.row = i /\ e.column = j}) = SumRead(r, x)
  <2>1. CASE j \in DOMAIN columns
    <3>1. columns[j].name = x
      BY <1>3, <1>4, <2>1 DEF ColumnAdded, ColumnBefore
    <3> QED
      BY <1>13, <2>1, <3>1 DEF EntriesInv, EntriesAt
  <2>2. CASE j \notin DOMAIN columns
    <3>1. {e \in entries : e.row = i /\ e.column = j} = {}
      BY <2>2 DEF ReaderInv, IndicesResolve
    <3>2. Summed({}) = 0
      BY TotalEmpty DEF Summed
    <3>3. ColumnNamed(columns, x) = {}
      BY <1>3, <1>4, <2>2 DEF ColumnAdded, ColumnNamed
    <3> QED
      BY <3>1, <3>2, <3>3, ColumnUnread
  <2> QED
    BY <2>1, <2>2
<1>14. ASSUME NEW i \in DOMAIN rows, rows[i].type # "N", NEW r, r = rows[i].name
       PROVE  Summed({e \in entries' : e.row = i /\ e.column = j}) = SumRead(r, x)'
  <2>1. PICK A, B : /\ A = {e \in entries : e.row = i /\ e.column = j}
                    /\ B = {e \in Cells(p, j) : e.row = i /\ e.column = j}
    OBVIOUS
  <2>2. {e \in entries' : e.row = i /\ e.column = j} = A \union B
    BY <1>2, <2>1
  <2>3. IsFiniteSet(A) /\ IsFiniteSet(B) /\ \A e \in A \union B : e.value \in Int
    <3>1. A \in SUBSET entries /\ B \in SUBSET Cells(p, j)
      BY <2>1
    <3>2. IsFiniteSet(entries)
      BY DEF EntriesInv
    <3>3. IsFiniteSet(A) /\ IsFiniteSet(B)
      BY <1>8, <3>1, <3>2, FS_Subset
    <3> QED
      BY <1>9, <1>10, <3>1, <3>3
  <2>4. A \cap B = {}
    <3>1. \A e \in A : e.place[1] \in 0 .. at - 1
      BY <1>10, <2>1
    <3>2. at \notin 0 .. at - 1 /\ \A e \in B : e.place[1] = at
      BY <1>9, <2>1
    <3> QED
      BY <3>1, <3>2
  <2>5. Summed(A \union B) = Summed(A) + Summed(B)
    BY <2>3, <2>4, SummedParts
  <2>6. Summed(B) = SumOver(p, PairsOf(p, r))
    <3>1. B = {CellAt(p, j, k) : k \in PairsOf(p, r)} /\ PairsOf(p, r) \in SUBSET DOMAIN p
      BY <1>12, <1>14, <2>1
    <3>2. PICK K : K = PairsOf(p, r)
      OBVIOUS
    <3>3. Summed({CellAt(p, j, k) : k \in K}) = SumOver(p, K)
      <4>1. K \in SUBSET DOMAIN p /\ IsFiniteSet(DOMAIN p) /\ \A k \in DOMAIN p : IsNumber(p[k].value)
        BY <1>1, <1>5, <3>1, <3>2
      <4> QED
        BY ONLY <4>1, CellsSummed
    <3> QED
      BY <3>1, <3>2, <3>3
  <2>7. Summed(A) = SumRead(r, x)
    BY <1>13, <1>14, <2>1
  <2> QED
    BY <1>6, <2>2, <2>5, <2>6, <2>7
<1>15. ASSUME NEW i \in DOMAIN columns, i # j, NEW y, y = columns[i].name, NEW l \in DOMAIN rows, rows[l].type # "N",
              NEW r, r = rows[l].name
       PROVE  Summed({e \in entries' : e.row = l /\ e.column = i}) = SumRead(r, y)'
  <2>1. {e \in entries' : e.row = l /\ e.column = i} = {e \in entries : e.row = l /\ e.column = i}
    BY <1>2, <1>9, <1>15
  <2>2. y # x
    BY <1>3, <1>4, <1>15 DEF ColumnAdded
  <2>3. Summed({e \in entries : e.row = l /\ e.column = i}) = SumRead(r, y)
    BY <1>15 DEF EntriesInv, EntriesAt
  <2> QED
    BY <1>7, <2>1, <2>2, <2>3
<1>16. ASSUME \A i \in DOMAIN rows : rows[i].name = objectiveName => rows[i].type = "N"
       PROVE  /\ columns'[j].objective = SumRead(objectiveName, x) + SumOver(p, PairsOf(p, objectiveName))
              /\ \A i \in DOMAIN columns \ {j} : columns'[i].objective = SumRead(objectiveName, columns[i].name)
  <2>1. CostKept
    BY <1>16 DEF CostKept, RowNamed
  <2>2. {k \in DOMAIN p : InObjective(p[k])} = PairsOf(p, objectiveName)
    <3>1. ASSUME NEW k \in DOMAIN p, p[k].row = objectiveName PROVE InObjective(p[k])
      <4>1. TheRow(p[k].row) \in DOMAIN rows /\ rows[TheRow(p[k].row)].name = p[k].row
        BY <1>1, RowFound DEF ReaderInv, GoodRows
      <4> QED
        BY <1>16, <3>1, <4>1 DEF InObjective
    <3> QED
      BY <1>1, <3>1 DEF PairsOf
  <2>3. z = SumOver(p, PairsOf(p, objectiveName))
    BY <2>2
  <2>4. ColumnBefore(j).objective = SumRead(objectiveName, x)
    <3>1. CASE j \in DOMAIN columns
      <4>1. columns[j].name = x
        BY <1>3, <1>4, <3>1 DEF ColumnAdded, ColumnBefore
      <4> QED
        BY <2>1, <3>1, <4>1 DEF EntriesInv, ColumnBefore
    <3>2. CASE j \notin DOMAIN columns
      <4>1. ColumnNamed(columns, x) = {}
        BY <1>3, <1>4, <3>2 DEF ColumnAdded, ColumnNamed
      <4>2. SumRead(objectiveName, x) = 0
        BY <4>1, ColumnUnread
      <4> QED
        BY <3>2, <4>2 DEF ColumnBefore, Fresh
    <3> QED
      BY <3>1, <3>2
  <2>5. columns'[j].objective = ColumnBefore(j).objective + z /\ \A i \in DOMAIN columns \ {j} : columns'[i] = columns[i]
    BY <1>3 DEF ColumnAdded
  <2>6. \A i \in DOMAIN columns : columns[i].objective = SumRead(objectiveName, columns[i].name)
    BY <2>1 DEF EntriesInv
  <2> QED
    BY <2>3, <2>4, <2>5, <2>6
<1>17. /\ DOMAIN columns' = DOMAIN columns \union {j} /\ columns'[j].name = x
       /\ \A i \in DOMAIN columns \ {j} : columns'[i].name = columns[i].name /\ columns[i].name # x
  BY <1>3, <1>4 DEF ColumnAdded
<1>18. ASSUME NEW i \in DOMAIN columns', NEW y, y = columns'[i].name
       PROVE  /\ (\A l \in DOMAIN rows : rows[l].name = objectiveName => rows[l].type = "N") =>
                    \A r \in {objectiveName} : columns'[i].objective = SumRead(r, y)'
              /\ \A l \in DOMAIN rows : rows[l].type # "N" =>
                   \A r \in {rows[l].name} : Summed({e \in entries' : e.row = l /\ e.column = i}) = SumRead(r, y)'
  <2>1. CASE i = j
    <3>1. y = x
      BY <1>17, <1>18, <2>1
    <3> QED
      BY <1>6, <1>14, <1>16, <2>1, <3>1
  <2>2. CASE i # j
    <3>1. i \in DOMAIN columns /\ y = columns[i].name /\ y # x
      BY <1>17, <1>18, <2>2
    <3> QED
      BY <1>7, <1>15, <1>16, <2>2, <3>1
  <2> QED
    BY <2>1, <2>2
<1> QED
  BY <1>1, <1>8, <1>11, <1>18, EntriesNext

-----------------------------------------------------------------------------
(***************************************************************************)
(* The Hessian.                                                            *)
(***************************************************************************)
QuadOf(Q, s, i, j) == {q \in Q : (q.mirrored <=> s = "QUADOBJ") /\ q.first = i /\ q.second = j}

\* The same for curvature.
LEMMA QuadNext ==
  ASSUME file' = file, IsFiniteSet(quad'),
         \A q \in quad' : q.place \in 0 .. at' - 1 /\ q.value \in Int /\ q.mirrored \in BOOLEAN,
         \A s \in QuadSections : \A k \in Seen({s})' : IsNumber(Word(k, 3)),
         \A i, j \in DOMAIN columns' : \A x \in {columns'[i].name}, y \in {columns'[j].name} :
           \A s \in QuadSections : Summed(QuadOf(quad', s, i, j)) = QuadRead(s, x, y)'
  PROVE  QuadInv'
<1>1. \A s, i, j : QuadAt(s, i, j)' = QuadOf(quad', s, i, j)
  BY DEF QuadAt, QuadOf
<1>2. \A k : Word(k, 3)' = Word(k, 3)
  BY DEF Word
<1>3. \A s, i, j : Summed(QuadAt(s, i, j))' = Summed(QuadOf(quad', s, i, j))
  BY <1>1 DEF Summed
<1>4. \A s \in QuadSections : \A k \in Seen({s})' : IsNumber(Word(k, 3))'
  BY <1>2 DEF IsNumber
<1>5. \A i, j \in DOMAIN columns' : \A x \in {columns'[i].name}, y \in {columns'[j].name} :
        \A s \in QuadSections : Summed(QuadAt(s, i, j))' = QuadRead(s, x, y)'
  BY <1>3
<1> QED
  BY <1>4, <1>5 DEF QuadInv

\* No line of the section, no curvature.
LEMMA QuadReadSame ==
  ASSUME file' = file, NEW s, Seen({s})' = Seen({s}), NEW x, NEW y PROVE QuadRead(s, x, y)' = QuadRead(s, x, y)
<1>1. SeenQuad(s, x, y)' = SeenQuad(s, x, y)
  BY DEF SeenQuad, Word
<1> QED
  BY <1>1 DEF QuadRead, Word

\* Places read are before the next line.
LEMMA QuadPlaces ==
  ASSUME TextInv, QuadInv, at' \in {at, at + 1}, NEW q \in quad
  PROVE  q.place \in 0 .. at' - 1 /\ q.value \in Int /\ q.mirrored \in BOOLEAN
<1>1. at \in Int
  BY Text DEF TextInv
<1>2. q.place \in 0 .. at - 1 /\ q.value \in Int /\ q.mirrored \in BOOLEAN
  BY DEF QuadInv
<1>3. q.place \in 0 .. at' - 1
  BY <1>1, <1>2, AfterThat
<1> QED
  BY <1>2, <1>3

\* Curvature stays while none is read and no column changes.
LEMMA QuadFrame ==
  ASSUME TextInv, QuadInv, file' = file, at' \in {at, at + 1}, \A s \in QuadSections : Seen({s})' = Seen({s}),
         quad' = quad, SameNames(columns')
  PROVE  QuadInv'
<1>1. \A s \in QuadSections : \A x, y : QuadRead(s, x, y)' = QuadRead(s, x, y)
  BY QuadReadSame
<1>2. IsFiniteSet(quad') /\ \A q \in quad' : q.place \in 0 .. at' - 1 /\ q.value \in Int /\ q.mirrored \in BOOLEAN
  BY QuadPlaces DEF QuadInv
<1>3. \A s \in QuadSections : \A k \in Seen({s})' : IsNumber(Word(k, 3))
  BY DEF QuadInv
<1>4. \A i, j \in DOMAIN columns' : \A x \in {columns'[i].name}, y \in {columns'[j].name} :
        \A s \in QuadSections : Summed(QuadOf(quad', s, i, j)) = QuadRead(s, x, y)'
  BY <1>1 DEF QuadInv, QuadAt, QuadOf, SameNames
<1> QED
  BY <1>2, <1>3, <1>4, QuadNext

\* A column that is new has no curvature yet.
LEMMA QuadOfColumn ==
  ASSUME TextInv, ReaderInv, ColumnsInv, QuadInv, Orderly, Advances("COLUMNS"), quad' = quad,
         NEW j, NEW z, ColumnAdded(j, z)
  PROVE  QuadInv'
<1>1. file' = file /\ at' \in {at, at + 1} /\ \A s \in QuadSections : Seen({s})' = Seen({s})
  BY DEF Advances, QuadSections
<1>2. \A s \in QuadSections : \A x, y : QuadRead(s, x, y)' = QuadRead(s, x, y)
  BY <1>1, QuadReadSame
<1>3. /\ DOMAIN columns' = DOMAIN columns \union {j}
      /\ \A i \in DOMAIN columns : columns'[i].name = columns[i].name
      /\ columns'[j].name = Fields[1]
  BY DEF ColumnAdded, ColumnBefore
<1>4. ASSUME j \notin DOMAIN columns, NEW i, NEW l, i = j \/ l = j, NEW x, NEW y, x = columns'[i].name, y = columns'[l].name,
             NEW s \in QuadSections
      PROVE  Summed(QuadOf(quad, s, i, l)) = QuadRead(s, x, y)
  <2>1. ColumnNamed(columns, Fields[1]) = {}
    BY <1>4 DEF ColumnAdded, ColumnNamed
  <2>2. x = Fields[1] \/ y = Fields[1]
    BY <1>3, <1>4
  <2>3. SeenQuad(s, x, y) = {}
    <3>1. \A k \in Seen({s}) : Word(k, 1) # Fields[1] /\ Word(k, 2) # Fields[1]
      BY <2>1, CurvedNever
    <3> QED
      BY <2>2, <3>1 DEF SeenQuad
  <2>4. QuadOf(quad, s, i, l) = {}
    BY <1>4 DEF QuadOf, ReaderInv, IndicesResolve
  <2>5. Summed({}) = 0
    BY TotalEmpty DEF Summed
  <2>6. QuadRead(s, x, y) = 0
    BY <2>3, TotalEmpty DEF QuadRead
  <2> QED
    BY <2>4, <2>5, <2>6
<1>5. \A i, l \in DOMAIN columns' : \A x \in {columns'[i].name}, y \in {columns'[l].name} :
        \A s \in QuadSections : Summed(QuadOf(quad', s, i, l)) = QuadRead(s, x, y)'
  <2> SUFFICES ASSUME NEW i \in DOMAIN columns', NEW l \in DOMAIN columns', NEW x, NEW y,
                      x = columns'[i].name, y = columns'[l].name, NEW s \in QuadSections
               PROVE  Summed(QuadOf(quad, s, i, l)) = QuadRead(s, x, y)
    BY <1>2
  <2>1. CASE i \in DOMAIN columns /\ l \in DOMAIN columns
    BY <1>3, <2>1 DEF QuadInv, QuadAt, QuadOf
  <2>2. CASE i \notin DOMAIN columns \/ l \notin DOMAIN columns
    BY <1>3, <1>4, <2>2
  <2> QED
    BY <2>1, <2>2
<1>6. IsFiniteSet(quad') /\ \A q \in quad' : q.place \in 0 .. at' - 1 /\ q.value \in Int /\ q.mirrored \in BOOLEAN
  BY <1>1, QuadPlaces DEF QuadInv
<1>7. \A s \in QuadSections : \A k \in Seen({s})' : IsNumber(Word(k, 3))
  BY <1>1 DEF QuadInv
<1> QED
  BY <1>1, <1>5, <1>6, <1>7, QuadNext

\* The lines of one entry are finitely many.
LEMMA FiniteQuads ==
  ASSUME TextInv, NEW s, NEW x, NEW y PROVE IsFiniteSet(SeenQuad(s, x, y)) /\ SeenQuad(s, x, y) \subseteq Seen({s})
<1>1. SeenQuad(s, x, y) \subseteq Seen({s}) /\ SeenQuad(s, x, y) \subseteq Lines
  BY SeenLines DEF SeenQuad
<1> QED
  BY <1>1, FiniteLines

\* A record of the Hessian adds its value to one entry.
LEMMA QuadReadGrows ==
  ASSUME TextInv, QuadInv, NEW s \in QuadSections, Advances(s), NEW n, n = at + 1, IsNumber(Word(n, 3)), NEW x, NEW y
  PROVE  QuadRead(s, x, y)' = QuadRead(s, x, y) + (IF Word(n, 1) = x /\ Word(n, 2) = y THEN Number[Word(n, 3)] ELSE 0)
<1>1. Seen({s})' = Seen({s}) \union {n} /\ file' = file /\ n \notin Seen({s})
  <2>1. at \in Int
    BY Text DEF TextInv
  <2> QED
    BY <2>1, SeenLines DEF Advances
<1>2. SeenQuad(s, x, y)' = SeenQuad(s, x, y) \union (IF Word(n, 1) = x /\ Word(n, 2) = y THEN {n} ELSE {})
  <2>1. SeenQuad(s, x, y)' = {k \in Seen({s})' : Word(k, 1) = x /\ Word(k, 2) = y}
    BY <1>1 DEF SeenQuad, Word
  <2> QED
    BY <1>1, <2>1 DEF SeenQuad
<1>3. PICK K : K = SeenQuad(s, x, y)
  OBVIOUS
<1>4. IsFiniteSet(K) /\ n \notin K /\ \A k \in K : Number[Word(k, 3)] \in Int
  <2>1. IsFiniteSet(K) /\ K \subseteq Seen({s})
    BY <1>3, FiniteQuads
  <2> QED
    BY <1>1, <2>1, NumbersAreWhole DEF QuadInv, IsNumber
<1>5. CASE ~ (Word(n, 1) = x /\ Word(n, 2) = y)
  <2>1. QuadRead(s, x, y)' = Total([k \in K |-> Number[Word(k, 3)]], K)
    BY <1>1, <1>2, <1>3, <1>5 DEF QuadRead, Word
  <2>2. AllInt([k \in K |-> Number[Word(k, 3)]], K)
    BY <1>4 DEF AllInt
  <2>3. Total([k \in K |-> Number[Word(k, 3)]], K) \in Int
    BY <1>4, <2>2, TotalType
  <2>4. QuadRead(s, x, y) = Total([k \in K |-> Number[Word(k, 3)]], K)
    BY <1>3 DEF QuadRead
  <2> QED
    BY <1>5, <2>1, <2>3, <2>4
<1>6. CASE Word(n, 1) = x /\ Word(n, 2) = y
  <2> DEFINE f == [k \in K \union {n} |-> Number[Word(k, 3)]]
             g == [k \in K |-> Number[Word(k, 3)]]
  <2>1. QuadRead(s, x, y)' = Total(f, K \union {n})
    BY <1>1, <1>2, <1>3, <1>6 DEF QuadRead, Word
  <2>2. QuadRead(s, x, y) = Total(g, K)
    BY <1>3 DEF QuadRead
  <2>3. /\ \A k \in K \union {n} : f[k] \in Int
        /\ \A k \in K : g[k] = f[k]
        /\ f[n] = Number[Word(n, 3)]
    BY <1>4, NumbersAreWhole DEF IsNumber
  <2> HIDE DEF f, g
  <2>4. IsFiniteSet({n}) /\ K \cap {n} = {} /\ AllInt(f, K \union {n}) /\ \A k \in {n} : f[k] = f[k]
    BY <1>4, <2>3, FS_Singleton DEF AllInt
  <2>5. Total(f, K \union {n}) = Total(g, K) + Total(f, {n})
    BY <1>4, <2>3, <2>4, TotalParts
  <2>6. Total(f, {n}) = f[n]
    <3>1. IsFiniteSet({n}) /\ n \in {n} /\ f[n] \in Int /\ \A k \in {n} \ {n} : f[k] = 0
      BY <2>3, <2>4
    <3> QED
      BY <3>1, TotalSingle
  <2> QED
    BY <1>6, <2>1, <2>2, <2>3, <2>5, <2>6
<1> QED
  BY <1>5, <1>6

\* So the entries of the Hessian still add up to their lines.
LEMMA QuadOfQuad ==
  ASSUME TextInv, ReaderInv, ColumnsInv, QuadInv, Orderly, NEW s \in QuadSections, QuadRecord(s), ~ Reject
  PROVE  QuadInv' /\ columns' = columns
<1>1. /\ Advances(s) /\ Data(s) /\ IsNumber(Fields[3]) /\ file' = file /\ at' = at + 1
      /\ columns' = WithColumn(WithColumn(columns, Fields[1]), Fields[2])
      /\ quad' = quad \union
                   {[place |-> at, first |-> TheColumn(columns', Fields[1]),
                     second |-> TheColumn(columns', Fields[2]), value |-> Number[Fields[3]],
                     mirrored |-> s = "QUADOBJ"]}
  BY Reads DEF QuadRecord, Advances, QuadSections
<1>2. ColumnNamed(columns, Fields[1]) # {} /\ ColumnNamed(columns, Fields[2]) # {}
  BY <1>1, CurvedLate
<1>3. columns' = columns
  BY <1>1, <1>2 DEF WithColumn
<1>4. PICK n, x, y, a, b, v : /\ n = at + 1 /\ x = Fields[1] /\ y = Fields[2] /\ v = Number[Fields[3]]
                              /\ a = TheColumn(columns, x) /\ b = TheColumn(columns, y)
  OBVIOUS
<1>5. /\ a \in DOMAIN columns /\ columns[a].name = x
      /\ b \in DOMAIN columns /\ columns[b].name = y
  BY <1>2, <1>4 DEF TheColumn, ColumnNamed
<1>6. DistinctNames(columns)
  BY DEF ReaderInv, GoodColumns
<1>7. Word(n, 1) = x /\ Word(n, 2) = y /\ IsNumber(Word(n, 3)) /\ Number[Word(n, 3)] = v /\ v \in Int
  BY <1>1, <1>4, NumbersAreWhole DEF Word, Fields, IsNumber
<1>8. PICK q : q = [place |-> at, first |-> a, second |-> b, value |-> v, mirrored |-> s = "QUADOBJ"]
  OBVIOUS
<1>9. quad' = quad \union {q}
  BY <1>1, <1>3, <1>4, <1>8
<1>10. /\ q.place = at /\ q.first = a /\ q.second = b /\ q.value = v /\ (q.mirrored <=> s = "QUADOBJ")
       /\ q.mirrored \in BOOLEAN
  BY <1>8
<1> HIDE <1>8
<1>11. q \notin quad /\ IsFiniteSet(quad) /\ \A c \in quad : c.value \in Int
  <2>1. at \in Int
    BY Text DEF TextInv
  <2>2. at \notin 0 .. at - 1
    BY <2>1
  <2> QED
    BY <2>2, <1>10 DEF QuadInv
<1>12. IsFiniteSet(quad')
  BY <1>9, <1>11, FS_AddElement
<1>13. \A c \in quad' : c.place \in 0 .. at' - 1 /\ c.value \in Int /\ c.mirrored \in BOOLEAN
  <2>1. at \in Nat
    BY Text DEF TextInv
  <2>2. \A c \in quad : c.place \in 0 .. at' - 1 /\ c.value \in Int /\ c.mirrored \in BOOLEAN
    BY <1>1, QuadPlaces
  <2>3. at \in 0 .. at' - 1
    BY <1>1, <2>1
  <2> QED
    BY <1>7, <1>9, <1>10, <2>2, <2>3
<1>14. \A t \in QuadSections : \A k \in Seen({t})' : IsNumber(Word(k, 3))
  <2>1. \A t \in QuadSections : \A k \in Seen({t})' : k \in Seen({t}) \/ k = n
    BY <1>1, <1>4 DEF Advances
  <2> QED
    BY <1>7, <2>1 DEF QuadInv
<1>15. ASSUME NEW i \in DOMAIN columns, NEW j \in DOMAIN columns, NEW c, NEW d, c = columns[i].name, d = columns[j].name,
              NEW t \in QuadSections
       PROVE  Summed(QuadOf(quad', t, i, j)) = QuadRead(t, c, d)'
  <2>1. PICK A : A = QuadOf(quad, t, i, j)
    OBVIOUS
  <2>2. Summed(A) = QuadRead(t, c, d)
    BY <1>15, <2>1 DEF QuadInv, QuadAt, QuadOf
  <2>3. i = a <=> c = x
    BY <1>5, <1>6, <1>15 DEF DistinctNames
  <2>4. j = b <=> d = y
    BY <1>5, <1>6, <1>15 DEF DistinctNames
  <2>5. CASE t # s
    <3>1. QuadOf(quad', t, i, j) = A
      BY <1>9, <1>10, <2>1, <2>5 DEF QuadOf, QuadSections
    <3>2. Seen({t})' = Seen({t})
      BY <1>1, <2>5 DEF Advances
    <3>3. QuadRead(t, c, d)' = QuadRead(t, c, d)
      BY <1>1, <3>2, QuadReadSame
    <3> QED
      BY <2>2, <3>1, <3>3
  <2>6. CASE t = s
    <3>1. QuadRead(s, c, d)' = QuadRead(s, c, d) + (IF x = c /\ y = d THEN v ELSE 0)
      BY <1>1, <1>4, <1>7, QuadReadGrows
    <3>2. A \subseteq quad /\ IsFiniteSet(A)
      <4>1. A \in SUBSET quad
        BY <2>1 DEF QuadOf
      <4> QED
        BY <1>11, <4>1, FS_Subset
    <3>3. Summed(A) \in Int
      <4> DEFINE f == [e \in A |-> e.value]
      <4>1. AllInt(f, A) /\ Summed(A) = Total(f, A)
        BY <1>11, <3>2 DEF AllInt, Summed
      <4> HIDE DEF f
      <4> QED
        BY <3>2, <4>1, TotalType
    <3>4. CASE x = c /\ y = d
      <4>1. QuadOf(quad', s, i, j) = A \union {q}
        BY <1>9, <1>10, <2>1, <2>3, <2>4, <2>6, <3>4 DEF QuadOf
      <4>2. IsFiniteSet({q}) /\ A \cap {q} = {} /\ \A e \in A \union {q} : e.value \in Int
        BY <1>7, <1>10, <1>11, <3>2, FS_Singleton
      <4>3. Summed(A \union {q}) = Summed(A) + Summed({q})
        BY <3>2, <4>2, SummedParts
      <4>4. Summed({q}) = v
        <5> DEFINE f == [e \in {q} |-> e.value]
        <5>1. q \in {q} /\ f[q] = v /\ f[q] \in Int /\ (\A e \in {q} \ {q} : f[e] = 0) /\ Summed({q}) = Total(f, {q})
          BY <1>7, <1>10 DEF Summed
        <5> HIDE DEF f
        <5>2. Total(f, {q}) = f[q]
          BY <4>2, <5>1, TotalSingle
        <5> QED
          BY <5>1, <5>2
      <4> QED
        BY <2>2, <2>6, <3>1, <3>4, <4>1, <4>3, <4>4
    <3>5. CASE ~ (x = c /\ y = d)
      <4>1. QuadOf(quad', s, i, j) = A
        BY <1>9, <1>10, <2>1, <2>3, <2>4, <2>6, <3>5 DEF QuadOf
      <4> QED
        BY <2>2, <2>6, <3>1, <3>3, <3>5, <4>1
    <3> QED
      BY <3>4, <3>5
  <2> QED
    BY <2>5, <2>6
<1>16. \A i, j \in DOMAIN columns' : \A c \in {columns'[i].name}, d \in {columns'[j].name} :
         \A t \in QuadSections : Summed(QuadOf(quad', t, i, j)) = QuadRead(t, c, d)'
  BY <1>3, <1>15
<1> QED
  BY <1>1, <1>3, <1>12, <1>13, <1>14, <1>16, QuadNext

-----------------------------------------------------------------------------
(***************************************************************************)
(* Every step keeps what is known.                                         *)
(***************************************************************************)
\* Everything the reader knows.
Known ==
  /\ ObjectiveInv /\ RowsInv /\ RimInv /\ ColumnsInv /\ CellsInv /\ BlockInv /\ BoundsInv
  /\ EntriesInv /\ QuadInv

\* A right-hand side or a range keeps the rows.
LEMMA RimKeeps ==
  ASSUME ReaderInv, NEW s, RimRecord(s), ~ Reject
  PROVE  /\ DOMAIN rows' = DOMAIN rows
         /\ \A i \in DOMAIN rows : rows'[i].name = rows[i].name /\ rows'[i].type = rows[i].type
<1>1. PICK given, value :
        rows' = [i \in DOMAIN rows |->
             IF given[i] THEN rows[i]
             ELSE IF s = "RHS" THEN [rows[i] EXCEPT !.rhs = value[i]]
             ELSE [rows[i] EXCEPT !.range = value[i]]]
  <2> DEFINE pairs == Pairs(IF Len(Fields) \in {3, 5} THEN 2 ELSE 1)
             at_(i) == {k \in DOMAIN pairs : TheRow(pairs[k].row) = i}
             value_(i) == At(Number[pairs[CHOOSE k \in at_(i) : TRUE].value])
             g == [i \in DOMAIN rows |-> at_(i) = {}]
             v == [i \in DOMAIN rows |-> value_(i)]
  <2>1. rows' = [i \in DOMAIN rows |->
             IF at_(i) = {} THEN rows[i]
             ELSE IF s = "RHS" THEN [rows[i] EXCEPT !.rhs = value_(i)]
             ELSE [rows[i] EXCEPT !.range = value_(i)]]
    BY DEF RimRecord
  <2> HIDE DEF at_, value_
  <2>2. rows' = [i \in DOMAIN rows |->
             IF g[i] THEN rows[i]
             ELSE IF s = "RHS" THEN [rows[i] EXCEPT !.rhs = v[i]]
             ELSE [rows[i] EXCEPT !.range = v[i]]]
    BY <2>1
  <2> HIDE DEF g, v
  <2> HIDE <2>1
  <2> WITNESS g, v
  <2> QED BY <2>2
<1>2. ASSUME NEW i \in DOMAIN rows PROVE rows'[i].name = rows[i].name /\ rows'[i].type = rows[i].type
  <2>1. IsRow(rows[i])
    BY DEF ReaderInv, GoodRows
  <2>2. \/ rows'[i] = rows[i]
        \/ rows'[i] = [rows[i] EXCEPT !.rhs = value[i]]
        \/ rows'[i] = [rows[i] EXCEPT !.range = value[i]]
    BY <1>1
  <2> QED
    BY <2>1, <2>2 DEF IsRow
<1> QED
  BY <1>1, <1>2

\* A bound changes neither the name of a column nor its objective.
LEMMA BoundedKeeps ==
  ASSUME NEW c, IsColumn(c), NEW type \in NumberedBounds \union PlainBounds, NEW z
  PROVE  Bounded(c, type, z).name = c.name /\ Bounded(c, type, z).objective = c.objective
<1> DEFINE keeps(d) == d.name = c.name /\ d.objective = c.objective
<1>1. /\ keeps([c EXCEPT !.lower = At(z)]) /\ keeps([c EXCEPT !.upper = At(z)])
      /\ keeps([c EXCEPT !.lower = At(z), !.upper = At(z)])
  BY DEF IsColumn
<1>2. /\ keeps([c EXCEPT !.lower = NoBound, !.upper = NoBound])
      /\ keeps([c EXCEPT !.lower = NoBound]) /\ keeps([c EXCEPT !.upper = NoBound])
  BY DEF IsColumn
<1>3. /\ keeps([c EXCEPT !.type = "binary", !.lower = At(0), !.upper = At(1)])
      /\ keeps([c EXCEPT !.type = "integer", !.lower = At(z)])
      /\ keeps([c EXCEPT !.type = "integer", !.upper = At(z)])
  BY DEF IsColumn
<1> HIDE DEF keeps
<1>4. keeps(Bounded(c, type, z))
  BY <1>1, <1>2, <1>3 DEF Bounded, NumberedBounds, PlainBounds
<1> QED BY <1>4 DEF keeps

\* What a step does not touch stays known.
LEMMA KnownTables ==
  ASSUME TextInv, Known, file' = file, at' \in {at, at + 1},
         Seen({"COLUMNS"})' = Seen({"COLUMNS"}), Seen({"BOUNDS"})' = Seen({"BOUNDS"}),
         \A s \in QuadSections : Seen({s})' = Seen({s}),
         UNCHANGED <<columns, entries, quad, inBlock, objectiveName>>,
         DOMAIN rows' = DOMAIN rows,
         \A i \in DOMAIN rows : rows'[i].name = rows[i].name /\ rows'[i].type = rows[i].type
  PROVE  ColumnsInv' /\ CellsInv' /\ BlockInv' /\ BoundsInv' /\ EntriesInv' /\ QuadInv'
<1>1. /\ SeenColumns' = SeenColumns /\ (\A x : SeenMentions(x)' = SeenMentions(x))
      /\ \A x : SeenMarked(x)' <=> SeenMarked(x)
  BY OtherLine
<1>2. SameNames(columns') /\ SameCosts(columns') /\ RowsKept /\ \A j \in DOMAIN columns : SameBounds(columns'[j], columns[j])
  BY DEF SameNames, SameCosts, RowsKept, SameBounds
<1>3. ColumnsInv'
  BY <1>1, <1>2, ColumnsFrame DEF Known
<1>4. CellsInv'
  BY <1>1, <1>2, CellsFrame DEF Known
<1>5. BlockInv'
  BY BlockFrame DEF Known
<1>6. BoundsInv'
  BY <1>1, <1>2, BoundsFrame DEF Known
<1>7. EntriesInv'
  BY <1>1, <1>2, EntriesFrame DEF Known
<1>8. QuadInv'
  BY <1>2, QuadFrame DEF Known
<1> QED
  BY <1>3, <1>4, <1>5, <1>6, <1>7, <1>8

\* A step that changes no table keeps what is known of it, and each kind of
\* record keeps it for its own reasons.
LEMMA KnownStays == ASSUME TextInv, Known, Stays, UNCHANGED <<tables, options>> PROVE Known'
<1>1. /\ file' = file /\ at' \in {at, at + 1} /\ (\A T : Seen(T)' = Seen(T))
      /\ UNCHANGED <<rows, columns, entries, quad, inBlock, objectiveName, sense>>
  BY DEF Stays, tables, options
<1>2. ColumnsInv' /\ CellsInv' /\ BlockInv' /\ BoundsInv' /\ EntriesInv' /\ QuadInv'
  BY <1>1, KnownTables
<1>3. ObjectiveInv' /\ RowsInv' /\ RimInv'
  BY <1>1, ObjectiveFrame, RowsFrame, RimFrame DEF Known
<1> QED
  BY <1>2, <1>3 DEF Known

\* The sense,
LEMMA KnownSense == ASSUME TextInv, Known, ObjectiveSense, ~ Reject PROVE Known'
<1>1. /\ Advances("OBJSENSE") /\ UNCHANGED <<rows, columns, entries, quad, inBlock, objectiveName>>
  BY Reads DEF ObjectiveSense, tables
<1>2. /\ file' = file /\ at' \in {at, at + 1} /\ (\A T : "OBJSENSE" \notin T => Seen(T)' = Seen(T))
  BY <1>1 DEF Advances
<1>3. /\ Seen({"COLUMNS"})' = Seen({"COLUMNS"}) /\ Seen({"BOUNDS"})' = Seen({"BOUNDS"})
      /\ Seen({"ROWS"})' = Seen({"ROWS"})
      /\ (\A s \in QuadSections : Seen({s})' = Seen({s})) /\ \A s \in RimSections : Seen({s})' = Seen({s})
  BY <1>2 DEF QuadSections, RimSections
<1>4. ColumnsInv' /\ CellsInv' /\ BlockInv' /\ BoundsInv' /\ EntriesInv' /\ QuadInv'
  BY <1>1, <1>2, <1>3, KnownTables
<1>5. RowsInv' /\ RimInv'
  BY <1>1, <1>2, <1>3, RowsFrame, RimFrame DEF Known
<1>6. ObjectiveInv'
  BY ObjectiveOfSense DEF Known
<1> QED
  BY <1>4, <1>5, <1>6 DEF Known

\* a right-hand side or a range,
LEMMA KnownRim == ASSUME TextInv, ReaderInv, Known, NEW s \in RimSections, RimRecord(s), ~ Reject PROVE Known'
<1>1. /\ Advances(s) /\ UNCHANGED <<columns, entries, quad, inBlock, objectiveName, sense>>
  BY Reads DEF RimRecord, RimSections
<1>2. /\ file' = file /\ at' \in {at, at + 1} /\ (\A T : s \notin T => Seen(T)' = Seen(T))
  BY <1>1 DEF Advances
<1>3. /\ Seen({"COLUMNS"})' = Seen({"COLUMNS"}) /\ Seen({"BOUNDS"})' = Seen({"BOUNDS"})
      /\ Seen({"ROWS"})' = Seen({"ROWS"}) /\ Seen({"OBJSENSE"})' = Seen({"OBJSENSE"})
      /\ Seen({"OBJNAME"})' = Seen({"OBJNAME"})
      /\ (\A t \in QuadSections : Seen({t})' = Seen({t}))
  BY <1>2 DEF QuadSections, RimSections
<1>4. /\ DOMAIN rows' = DOMAIN rows
      /\ \A i \in DOMAIN rows : rows'[i].name = rows[i].name /\ rows'[i].type = rows[i].type
  BY RimKeeps
<1>5. ColumnsInv' /\ CellsInv' /\ BlockInv' /\ BoundsInv' /\ EntriesInv' /\ QuadInv'
  BY <1>1, <1>2, <1>3, <1>4, KnownTables
<1>6. RowsInv' /\ ObjectiveInv'
  BY <1>1, <1>2, <1>3, <1>4, RowsFrame, ObjectiveFrame DEF Known
<1>7. RimInv'
  BY RimOfRim DEF Known
<1> QED
  BY <1>5, <1>6, <1>7 DEF Known

\* the name of the objective,
LEMMA KnownName == ASSUME TextInv, Known, Orderly, ObjectiveNameRecord, ~ Reject PROVE Known'
<1>1. /\ Advances("OBJNAME") /\ Data("OBJNAME") /\ UNCHANGED <<rows, columns, entries, quad, inBlock, sense>>
  BY Reads DEF ObjectiveNameRecord, tables
<1>2. /\ file' = file /\ at' \in {at, at + 1} /\ (\A T : "OBJNAME" \notin T => Seen(T)' = Seen(T))
  BY <1>1 DEF Advances
<1>3. /\ Seen({"COLUMNS"})' = Seen({"COLUMNS"}) /\ Seen({"BOUNDS"})' = Seen({"BOUNDS"})
      /\ Seen({"ROWS"})' = Seen({"ROWS"})
      /\ (\A s \in QuadSections : Seen({s})' = Seen({s})) /\ \A s \in RimSections : Seen({s})' = Seen({s})
  BY <1>2 DEF QuadSections, RimSections
<1>4. /\ SeenColumns' = SeenColumns /\ (\A x : SeenMentions(x)' = SeenMentions(x))
      /\ \A x : SeenMarked(x)' <=> SeenMarked(x)
  BY <1>2, <1>3, OtherLine
<1>5. SameNames(columns') /\ \A j \in DOMAIN columns : SameBounds(columns'[j], columns[j])
  BY <1>1 DEF SameNames, SameBounds
<1>6. ColumnsInv' /\ BlockInv' /\ BoundsInv' /\ QuadInv'
  BY <1>1, <1>2, <1>3, <1>4, <1>5, ColumnsFrame, BlockFrame, BoundsFrame, QuadFrame DEF Known
<1>7. RowsInv' /\ RimInv'
  BY <1>1, <1>2, <1>3, RowsFrame, RimFrame DEF Known
<1>8. ObjectiveInv'
  BY ObjectiveOfName DEF Known
<1>9. SeenColumns = {} /\ DOMAIN columns = {}
  BY <1>1, NamedFirst DEF Known
<1>10. CellsInv'
  BY <1>2, <1>4, <1>9, CellsAreNext
<1>11. EntriesInv'
  <2>1. \A e \in entries' : e.place[1] \in 0 .. at' - 1 /\ e.value \in Int
    <3>1. at \in Int
      BY Text DEF TextInv
    <3>2. \A e \in entries : e.place[1] \in 0 .. at - 1 /\ e.value \in Int
      BY DEF Known, EntriesInv
    <3> SUFFICES ASSUME NEW e \in entries PROVE e.place[1] \in 0 .. at' - 1
      BY <1>1, <3>2
    <3>3. e.place[1] \in 0 .. at - 1
      BY <3>2
    <3> QED
      BY <1>2, <3>1, <3>3, AfterThat
  <2>2. IsFiniteSet(entries')
    BY <1>1 DEF Known, EntriesInv
  <2>3. DOMAIN columns' = {}
    BY <1>1, <1>9
  <2> QED
    BY <2>1, <2>2, <2>3, EntriesNext
<1> QED
  BY <1>6, <1>7, <1>8, <1>10, <1>11 DEF Known

\* a row,
LEMMA KnownRow == ASSUME TextInv, ReaderInv, Known, RowRecord, ~ Reject PROVE Known'
<1>1. /\ Advances("ROWS") /\ UNCHANGED <<columns, entries, quad, inBlock, sense>>
      /\ rows' = Append(rows, [type |-> Fields[1], name |-> Fields[2], rhs |-> NoBound, range |-> NoBound])
      /\ objectiveName' = IF Fields[1] = "N" /\ objectiveName = NoName THEN Fields[2] ELSE objectiveName
  BY Reads DEF RowRecord
<1>2. /\ file' = file /\ at' \in {at, at + 1} /\ (\A T : "ROWS" \notin T => Seen(T)' = Seen(T))
  BY <1>1 DEF Advances
<1>3. /\ Seen({"COLUMNS"})' = Seen({"COLUMNS"}) /\ Seen({"BOUNDS"})' = Seen({"BOUNDS"})
      /\ (\A s \in QuadSections : Seen({s})' = Seen({s}))
  BY <1>2 DEF QuadSections
<1>4. /\ SeenColumns' = SeenColumns /\ (\A x : SeenMentions(x)' = SeenMentions(x))
      /\ \A x : SeenMarked(x)' <=> SeenMarked(x)
  BY <1>2, <1>3, OtherLine
<1>5. SameNames(columns') /\ \A j \in DOMAIN columns : SameBounds(columns'[j], columns[j])
  BY <1>1 DEF SameNames, SameBounds
<1>6. ColumnsInv' /\ BlockInv' /\ BoundsInv' /\ QuadInv'
  BY <1>1, <1>2, <1>3, <1>4, <1>5, ColumnsFrame, BlockFrame, BoundsFrame, QuadFrame DEF Known
<1>7. RowsKept
  <2>1. DOMAIN rows \subseteq DOMAIN rows' /\ \A i \in DOMAIN rows : rows'[i] = rows[i]
    <3>1. PICK row : rows' = Append(rows, row)
      BY <1>1
    <3>2. /\ DOMAIN rows = 1 .. Len(rows) /\ DOMAIN rows' = 1 .. Len(rows) + 1 /\ Len(rows) \in Nat
          /\ \A i \in DOMAIN rows : rows'[i] = rows[i]
      BY <3>1, AppendTable DEF ReaderInv, GoodRows
    <3> QED
      BY <3>2
  <2>2. objectiveName = NoName => \A i \in DOMAIN rows : rows[i].type # "N"
    <3>1. objectiveName = NoName => SeenObjectives = {}
      BY ObjectiveNamed DEF Known
    <3> QED
      BY <3>1 DEF Known, RowsInv, Declares, SeenObjectives
  <2> QED
    BY <1>1, <2>1, <2>2 DEF RowsKept
<1>8. CellsInv'
  BY <1>2, <1>4, <1>7, CellsFrame DEF Known
<1>9. EntriesInv'
  BY EntriesOfRow DEF Known
<1>10. ObjectiveInv' /\ RowsInv' /\ RimInv'
  BY ObjectiveOfRow, RowsOfRow, RimOfRow DEF Known
<1> QED
  BY <1>6, <1>8, <1>9, <1>10 DEF Known

\* a marker,
LEMMA KnownMarker == ASSUME TextInv, Known, Marker, ~ Reject PROVE Known'
<1>1. /\ Advances("COLUMNS") /\ UNCHANGED <<rows, columns, entries, quad, objectiveName, sense>>
  BY Reads DEF Marker, tables
<1>2. /\ file' = file /\ at' \in {at, at + 1} /\ (\A T : "COLUMNS" \notin T => Seen(T)' = Seen(T))
  BY <1>1 DEF Advances
<1>3. /\ Seen({"BOUNDS"})' = Seen({"BOUNDS"}) /\ Seen({"OBJSENSE"})' = Seen({"OBJSENSE"})
      /\ Seen({"ROWS"})' = Seen({"ROWS"}) /\ Seen({"OBJNAME"})' = Seen({"OBJNAME"})
      /\ (\A s \in QuadSections : Seen({s})' = Seen({s})) /\ \A s \in RimSections : Seen({s})' = Seen({s})
  BY <1>2 DEF QuadSections, RimSections
<1>4. /\ BlockInv' /\ SeenColumns' = SeenColumns /\ (\A x : SeenMentions(x)' = SeenMentions(x))
      /\ \A x : SeenMarked(x)' <=> SeenMarked(x)
  BY MarkerLine DEF Known
<1>5. SameNames(columns') /\ SameCosts(columns') /\ RowsKept /\ \A j \in DOMAIN columns : SameBounds(columns'[j], columns[j])
  BY <1>1 DEF SameNames, SameCosts, RowsKept, SameBounds
<1>6. ColumnsInv' /\ CellsInv' /\ BoundsInv' /\ QuadInv'
  BY <1>1, <1>2, <1>3, <1>4, <1>5, ColumnsFrame, CellsFrame, BoundsFrame, QuadFrame DEF Known
<1>7. EntriesInv'
  BY <1>1, <1>2, <1>4, <1>5, EntriesFrame DEF Known
<1>8. ObjectiveInv' /\ RowsInv' /\ RimInv'
  BY <1>1, <1>2, <1>3, ObjectiveFrame, RowsFrame, RimFrame DEF Known
<1> QED
  BY <1>4, <1>6, <1>7, <1>8 DEF Known

\* a column,
LEMMA KnownColumn == ASSUME TextInv, ReaderInv, Known, Orderly, ColumnRecord, ~ Reject PROVE Known'
<1>1. PICK p, j, z : /\ p = Pairs(2) /\ j = TheColumn(WithColumn(columns, Fields[1]), Fields[1])
                     /\ z = SumOver(p, {k \in DOMAIN p : InObjective(p[k])})
  OBVIOUS
<1>2. ColumnAdded(j, z)
  BY <1>1, ColumnRead
<1>3. /\ Advances("COLUMNS") /\ Data("COLUMNS") /\ ~ IsMarker
      /\ UNCHANGED <<rows, quad, objectiveName, sense, inBlock>>
  BY Reads DEF ColumnRecord, options
<1>4. /\ file' = file /\ at' \in {at, at + 1} /\ (\A T : "COLUMNS" \notin T => Seen(T)' = Seen(T))
  BY <1>3 DEF Advances
<1>5. /\ Seen({"OBJSENSE"})' = Seen({"OBJSENSE"})
      /\ Seen({"ROWS"})' = Seen({"ROWS"}) /\ Seen({"OBJNAME"})' = Seen({"OBJNAME"})
      /\ \A s \in RimSections : Seen({s})' = Seen({s})
  BY <1>4 DEF RimSections
<1>6. ObjectiveInv' /\ RowsInv' /\ RimInv'
  BY <1>3, <1>4, <1>5, ObjectiveFrame, RowsFrame, RimFrame DEF Known
<1>7. ColumnsInv' /\ BlockInv' /\ BoundsInv' /\ QuadInv'
  BY <1>2, <1>3, ColumnsOfColumn, BlockOfColumn, BoundsOfColumn, QuadOfColumn DEF Known
<1>8. CellsInv'
  BY CellsOfColumn DEF Known
<1>9. EntriesInv'
  BY <1>1, EntriesOfColumn DEF Known
<1> QED
  BY <1>6, <1>7, <1>8, <1>9 DEF Known

\* a bound,
LEMMA KnownBound == ASSUME TextInv, ReaderInv, Known, Orderly, BoundRecord, ~ Reject PROVE Known'
<1>1. PICK j, z : /\ j = TheColumn(WithColumn(columns, Fields[3]), Fields[3])
                  /\ z = IF Len(Fields) = 4 THEN Number[Fields[4]] ELSE 0
  OBVIOUS
<1>2. BoundSet(j, z)
  BY <1>1, BoundRead DEF Known
<1>3. /\ Advances("BOUNDS") /\ Fields[1] \in NumberedBounds \union PlainBounds
      /\ UNCHANGED <<rows, entries, quad, objectiveName, sense, inBlock>>
  BY Reads DEF BoundRecord
<1>4. Fields[1] \in NumberedBounds => z = Number[Fields[4]]
  <2>1. Fields[1] \in NumberedBounds => Len(Fields) = 4
    BY DEF BoundRecord, NumberedBounds, PlainBounds
  <2> QED
    BY <1>1, <2>1
<1>5. /\ file' = file /\ at' \in {at, at + 1} /\ (\A T : "BOUNDS" \notin T => Seen(T)' = Seen(T))
  BY <1>3 DEF Advances
<1>6. /\ Seen({"COLUMNS"})' = Seen({"COLUMNS"}) /\ Seen({"OBJSENSE"})' = Seen({"OBJSENSE"})
      /\ Seen({"ROWS"})' = Seen({"ROWS"}) /\ Seen({"OBJNAME"})' = Seen({"OBJNAME"})
      /\ (\A s \in QuadSections : Seen({s})' = Seen({s})) /\ \A s \in RimSections : Seen({s})' = Seen({s})
  BY <1>5 DEF QuadSections, RimSections
<1>7. /\ SeenColumns' = SeenColumns /\ (\A x : SeenMentions(x)' = SeenMentions(x))
      /\ \A x : SeenMarked(x)' <=> SeenMarked(x)
  BY <1>5, <1>6, OtherLine
<1>8. SameNames(columns') /\ SameCosts(columns')
  <2>1. IsColumn(columns[j])
    BY <1>2 DEF BoundSet, ReaderInv, GoodColumns
  <2>2. columns'[j].name = columns[j].name /\ columns'[j].objective = columns[j].objective
    BY <1>2, <1>3, <2>1, BoundedKeeps DEF BoundSet
  <2> QED
    BY <1>2, <2>2 DEF BoundSet, SameNames, SameCosts
<1>9. RowsKept
  BY <1>3 DEF RowsKept
<1>10. ColumnsInv' /\ CellsInv' /\ BlockInv' /\ QuadInv'
  BY <1>3, <1>5, <1>6, <1>7, <1>8, <1>9, ColumnsFrame, CellsFrame, BlockFrame, QuadFrame DEF Known
<1>11. EntriesInv'
  BY <1>3, <1>5, <1>7, <1>8, <1>9, EntriesFrame DEF Known
<1>12. BoundsInv'
  BY <1>2, <1>3, <1>4, <1>7, BoundsOfBound DEF Known
<1>13. ObjectiveInv' /\ RowsInv' /\ RimInv'
  BY <1>3, <1>5, <1>6, ObjectiveFrame, RowsFrame, RimFrame DEF Known
<1> QED
  BY <1>10, <1>11, <1>12, <1>13 DEF Known

\* and an entry of the Hessian.
LEMMA KnownQuad == ASSUME TextInv, ReaderInv, Known, Orderly, NEW s \in QuadSections, QuadRecord(s), ~ Reject PROVE Known'
<1>1. QuadInv' /\ columns' = columns
  BY QuadOfQuad DEF Known
<1>2. /\ Advances(s) /\ UNCHANGED <<rows, entries, objectiveName, sense, inBlock>>
  BY Reads DEF QuadRecord, QuadSections, options
<1>3. /\ file' = file /\ at' \in {at, at + 1} /\ (\A T : s \notin T => Seen(T)' = Seen(T))
  BY <1>2 DEF Advances
<1>4. /\ Seen({"COLUMNS"})' = Seen({"COLUMNS"}) /\ Seen({"OBJSENSE"})' = Seen({"OBJSENSE"})
      /\ Seen({"ROWS"})' = Seen({"ROWS"}) /\ Seen({"OBJNAME"})' = Seen({"OBJNAME"})
      /\ Seen({"BOUNDS"})' = Seen({"BOUNDS"}) /\ \A t \in RimSections : Seen({t})' = Seen({t})
  BY <1>3 DEF QuadSections, RimSections
<1>5. /\ SeenColumns' = SeenColumns /\ (\A x : SeenMentions(x)' = SeenMentions(x))
      /\ \A x : SeenMarked(x)' <=> SeenMarked(x)
  BY <1>3, <1>4, OtherLine
<1>6. SameNames(columns') /\ SameCosts(columns') /\ RowsKept /\ \A j \in DOMAIN columns : SameBounds(columns'[j], columns[j])
  BY <1>1, <1>2 DEF SameNames, SameCosts, RowsKept, SameBounds
<1>7. ColumnsInv' /\ CellsInv' /\ BlockInv' /\ BoundsInv'
  BY <1>2, <1>3, <1>4, <1>5, <1>6, ColumnsFrame, CellsFrame, BlockFrame, BoundsFrame DEF Known
<1>8. EntriesInv'
  BY <1>2, <1>3, <1>5, <1>6, EntriesFrame DEF Known
<1>9. ObjectiveInv' /\ RowsInv' /\ RimInv'
  BY <1>2, <1>3, <1>4, ObjectiveFrame, RowsFrame, RimFrame DEF Known
<1> QED
  BY <1>1, <1>7, <1>8, <1>9 DEF Known

-----------------------------------------------------------------------------
(***************************************************************************)
(* At the end of the file.                                                 *)
(***************************************************************************)
\* Nothing is known of a file before its first line.
LEMMA KnownInit == Init => Known
<1> SUFFICES ASSUME Init PROVE Known
  OBVIOUS
<1>1. /\ at = 0 /\ sense = 1 /\ objectiveName = NoName /\ rows = <<>> /\ columns = <<>> /\ entries = {} /\ quad = {}
      /\ inBlock = FALSE
  BY DEF Init
<1>2. \A T : Seen(T) = {}
  <2>1. TextInv
    BY TextInit
  <2>2. \A T : \A k \in Seen(T) : k \in Int /\ k <= 0 /\ k \in Lines
    BY <1>1, <2>1, SeenLines
  <2>3. \A k \in Lines : k > 0
    BY <2>1, Text DEF TextInv
  <2> QED
    BY <2>2, <2>3
<1>3. DOMAIN rows = {} /\ DOMAIN columns = {}
  BY <1>1, EmptySeq
<1>4. SeenColumns = {} /\ (\A w : SeenMarkers(w) = {}) /\ SeenObjectives = {}
  BY <1>2 DEF SeenColumns, SeenMarkers, SeenObjectives
<1>5. ObjectiveInv
  BY <1>1, <1>2, <1>4 DEF ObjectiveInv
<1>6. RowsInv /\ RimInv
  BY <1>2, <1>3 DEF RowsInv, RimInv
<1>7. ColumnsInv /\ CellsInv /\ BoundsInv
  BY <1>3, <1>4 DEF ColumnsInv, CellsInv, BoundsInv
<1>8. BlockInv
  <2>1. Cardinality({}) = 0
    BY FS_EmptySet
  <2>2. Cardinality(SeenMarkers("INTORG")) = 0 /\ Cardinality(SeenMarkers("INTEND")) = 0 /\ ~ inBlock
    BY <1>1, <1>4, <2>1
  <2> QED
    BY <2>2 DEF BlockInv
<1>9. EntriesInv /\ QuadInv
  BY <1>1, <1>2, <1>3, FS_EmptySet DEF EntriesInv, QuadInv
<1> QED
  BY <1>5, <1>6, <1>7, <1>8, <1>9 DEF Known

\* Any step of the reader on a file in order.
LEMMA KnownNext == TextInv /\ ReaderInv /\ Known /\ Orderly /\ [Next]_vars => Known'
<1> SUFFICES ASSUME TextInv, ReaderInv, Known, Orderly, [Next]_vars PROVE Known'
  OBVIOUS
<1>1. ASSUME UNCHANGED <<file, at, tables, options>> PROVE Known'
  <2>1. Stays
    BY <1>1, Waits
  <2> QED
    BY <1>1, <2>1, KnownStays
<1>2. CASE Reject \/ EndOfFile \/ UNCHANGED vars
  BY <1>1, <1>2 DEF Reject, EndOfFile, vars
<1>3. CASE AfterEnd \/ Stray
  BY <1>2, <1>3 DEF AfterEnd, Stray
<1>4. CASE (SkipLine \/ Header) /\ ~ Reject
  <2>1. Reading /\ (Fields = <<>> \/ file[at + 1].margin) /\ NextLine /\ UNCHANGED <<tables, options>>
    BY <1>4 DEF SkipLine, Header
  <2>2. Stays
    BY <2>1, Skips
  <2> QED
    BY <2>1, <2>2, KnownStays
<1>5. CASE ObjectiveSense /\ ~ Reject
  BY <1>5, KnownSense
<1>6. CASE ObjectiveNameRecord /\ ~ Reject
  BY <1>6, KnownName
<1>7. CASE RowRecord /\ ~ Reject
  BY <1>7, KnownRow
<1>8. CASE Marker /\ ~ Reject
  BY <1>8, KnownMarker
<1>9. CASE ColumnRecord /\ ~ Reject
  BY <1>9, KnownColumn
<1>10. ASSUME NEW s \in RimSections, RimRecord(s), ~ Reject PROVE Known'
  BY <1>10, KnownRim
<1>11. CASE BoundRecord /\ ~ Reject
  BY <1>11, KnownBound
<1>12. ASSUME NEW s \in QuadSections, QuadRecord(s), ~ Reject PROVE Known'
  BY <1>12, KnownQuad
<1> QED
  BY <1>2, <1>3, <1>4, <1>5, <1>6, <1>7, <1>8, <1>9, <1>10, <1>11, <1>12 DEF Next

\* At the end of the file everything was read.
LEMMA EverythingSeen ==
  ASSUME TextInv, at = Len(file)
  PROVE  /\ \A T : Seen(T) = Under(T)
         /\ \A w : SeenMarkers(w) = Markers(w)
         /\ \A x : SeenMentions(x) = Mentions(x)
<1>1. \A T : \A k \in Under(T) : k <= at
  BY Text DEF TextInv, Under
<1>2. \A T : Seen(T) = Under(T)
  BY <1>1 DEF Seen
<1>3. \A w : \A k \in Markers(w) : k <= at
  BY <1>1 DEF Markers
<1>4. \A x : \A k \in Mentions(x) : k <= at
  BY <1>1 DEF Mentions
<1> QED
  BY <1>2, <1>3, <1>4, SeenIsDeclared

\* What was read is what the file declares: of a column,
LEMMA DeclaredColumn ==
  ASSUME TextInv, at = Len(file), NEW x
  PROVE  /\ TypeRead(x) = Type(x) /\ LowerRead(x) = Lower(x) /\ UpperRead(x) = Upper(x)
         /\ \A r : SumRead(r, x) = Coefficient(r, x)
<1>1. /\ \A T : Seen(T) = Under(T)
      /\ \A w : SeenMarkers(w) = Markers(w)
      /\ \A y : SeenMentions(y) = Mentions(y)
  BY EverythingSeen
<1>2. \A T : SeenBounds(x, T) = BoundsOf(x, T) /\ LastRead(x, T) = Latest(x, T)
  BY <1>1 DEF SeenBounds, BoundsOf, LastRead, Latest
<1>3. SeenMarked(x) <=> Marked(x)
  BY <1>1 DEF SeenMarked, Marked, Opened
<1>4. TypeRead(x) = Type(x)
  BY <1>2, <1>3 DEF TypeRead, Type, Integral
<1>5. LowerRead(x) = Lower(x)
  BY <1>2 DEF LowerRead, Lower
<1>6. UpperRead(x) = Upper(x)
  BY <1>2, <1>3 DEF UpperRead, Upper
<1>7. \A r : SumRead(r, x) = Coefficient(r, x)
  BY <1>1 DEF SumRead, Coefficient, SeenCells
<1> QED
  BY <1>4, <1>5, <1>6, <1>7

\* The sense,
LEMMA DeclaredSense ==
  ASSUME TextInv, ObjectiveInv, at = Len(file) PROVE sense = Sense
<1>1. Seen({"OBJSENSE"}) = Under({"OBJSENSE"})
  BY EverythingSeen
<1> QED
  BY <1>1 DEF ObjectiveInv, Sense

\* the objective and its row,
LEMMA DeclaredObjective ==
  ASSUME TextInv, ObjectiveInv, RowsInv, Orderly, at = Len(file), RowNamed(objectiveName) # {}
  PROVE  objectiveName = ObjectiveRow /\ CostKept
<1>1. \A T : Seen(T) = Under(T)
  BY EverythingSeen
<1>2. objectiveName # NoName
  <2>1. PICK i \in DOMAIN rows : rows[i].name = objectiveName
    BY DEF RowNamed
  <2>2. PICK k \in Seen({"ROWS"}) : Declares(k, rows[i])
    BY DEF RowsInv
  <2>3. Width(k) = 2 /\ \A m \in 1 .. Width(k) : Word(k, m) # NoName
    BY <2>2, SeenLines, Text DEF TextInv, RowsInv
  <2>4. Word(k, 2) # NoName
    BY <2>3
  <2> QED
    BY <2>1, <2>2, <2>4 DEF Declares
<1>3. objectiveName = ObjectiveRow
  <2>1. SeenObjectives = {k \in Under({"ROWS"}) : Word(k, 1) = "N"}
    BY <1>1 DEF SeenObjectives
  <2> QED
    BY <1>1, <1>2, <2>1 DEF ObjectiveInv, ObjectiveRow
<1>4. PICK k \in Under({"ROWS"}) : Word(k, 1) = "N" /\ Word(k, 2) = objectiveName
  BY <1>3 DEF Orderly, RowsOfType
<1>5. CostKept
  <2> SUFFICES ASSUME NEW i \in RowNamed(objectiveName) PROVE rows[i].type = "N"
    BY DEF CostKept
  <2>1. PICK l \in Seen({"ROWS"}) : Declares(l, rows[i])
    BY DEF RowsInv, RowNamed
  <2>2. l = k
    BY <1>1, <1>4, <2>1 DEF RowsInv, Declares, RowNamed
  <2> QED
    BY <1>4, <2>1, <2>2 DEF Declares
<1> QED
  BY <1>3, <1>5

\* and the rows and their types.
LEMMA DeclaredRows ==
  ASSUME TextInv, RowsInv, at = Len(file)
  PROVE  /\ RowNames = RowsOfType({"E", "L", "G"})
         /\ \A i \in DOMAIN rows : \A r \in {rows[i].name} : TypeOf(r) = rows[i].type
<1>1. Seen({"ROWS"}) = Under({"ROWS"})
  BY EverythingSeen
<1>2. RowNames = RowsOfType({"E", "L", "G"})
  <2>1. ASSUME NEW i \in Constraints PROVE rows[i].name \in RowsOfType({"E", "L", "G"})
    <3>1. rows[i].type \in {"E", "L", "G"} /\ \E k \in Under({"ROWS"}) : Declares(k, rows[i])
      BY <1>1 DEF RowsInv, RowTypes, Constraints
    <3> QED
      BY <3>1 DEF RowsOfType, Declares
  <2>2. ASSUME NEW k \in Under({"ROWS"}), Word(k, 1) \in {"E", "L", "G"} PROVE Word(k, 2) \in RowNames
    <3>1. PICK i \in DOMAIN rows : Declares(k, rows[i])
      BY <1>1 DEF RowsInv
    <3>2. i \in Constraints
      BY <2>2, <3>1 DEF Constraints, Declares
    <3> QED
      BY <3>1, <3>2 DEF RowNames, Declares
  <2> QED
    BY <2>1, <2>2 DEF RowNames, RowsOfType
<1>3. ASSUME NEW i \in DOMAIN rows, NEW r, r = rows[i].name PROVE TypeOf(r) = rows[i].type
  <2>1. PICK k \in Under({"ROWS"}) : Declares(k, rows[i])
    BY <1>1 DEF RowsInv
  <2>2. {l \in Under({"ROWS"}) : Word(l, 2) = r} = {k}
    BY <1>1, <1>3, <2>1 DEF RowsInv, Declares
  <2>3. k \in Int
    BY <1>1, SeenLines
  <2>4. Min({k}) = k
    <3>1. {k} \subseteq Int /\ k \in {k} /\ \A y \in {k} : k <= y
      BY <2>3
    <3>2. PICK S : S = {k}
      OBVIOUS
    <3> QED
      BY <3>1, <3>2, MinIs
  <2> QED
    BY <2>1, <2>2, <2>4 DEF TypeOf, Declares
<1> QED
  BY <1>2, <1>3

\* The right-hand side and the range of a row, by its cells.
LEMMA RimValue ==
  ASSUME NEW C, NEW given, Rimmed(C, given)
  PROVE  Values(C) = given.value /\ given.value \in Int /\ (given.finite <=> C # {})
<1>1. CASE C = {} /\ given = NoBound
  BY <1>1, TotalEmpty DEF Values, NoBound
<1>2. CASE ~ (C = {} /\ given = NoBound)
  <2>1. PICK c \in C : C = {c} /\ IsNumber(ValueAt(c)) /\ given = At(Number[ValueAt(c)])
    BY <1>2 DEF Rimmed
  <2> DEFINE f == [d \in {c} |-> Number[Word(d[1], d[2] + 1)]]
  <2>2. Number[ValueAt(c)] \in Int
    BY <2>1, NumbersAreWhole DEF IsNumber
  <2>3. f[c] = Number[ValueAt(c)] /\ c \in {c} /\ (\A d \in {c} \ {c} : f[d] = 0) /\ Values(C) = Total(f, {c})
    BY <2>1 DEF ValueAt, Values
  <2>4. IsFiniteSet({c})
    BY FS_Singleton
  <2> HIDE DEF f
  <2>5. Total(f, {c}) = f[c]
    BY <2>2, <2>3, <2>4, TotalSingle
  <2> QED
    BY <2>1, <2>2, <2>3, <2>5 DEF At
<1> QED
  BY <1>1, <1>2

\* The interval of a row is the set of activities for which it holds.
Near(z, b, w) == z - b \in -w .. w \/ z - b \in w .. -w
\* A type, a right-hand side and a range give the activities of the row.
LEMMA IntervalOfRow ==
  ASSUME NEW type \in {"E", "L", "G"}, NEW rhs, NEW range, rhs.value \in Int, range.value \in Int,
         range.finite \in BOOLEAN, ~ range.finite => range.value = 0, NEW z \in Int
  PROVE  Within(z, RowLower(type, rhs, range), RowUpper(type, rhs, range)) <=>
           CASE type = "L" -> z <= rhs.value /\ (range.finite => Near(z, rhs.value, range.value))
             [] type = "G" -> z >= rhs.value /\ (range.finite => Near(z, rhs.value, range.value))
             [] type = "E" -> z - rhs.value \in 0 .. range.value \/ z - rhs.value \in range.value .. 0
<1>1. PICK b \in Int, w \in Int : b = rhs.value /\ w = range.value
  OBVIOUS
<1>2. \A v : At(v).finite = TRUE /\ At(v).value = v /\ NoBound.finite = FALSE
  BY DEF At, NoBound
<1>3. Magnitude(w) = (IF w < 0 THEN -w ELSE w) /\ Magnitude(w) \in Int
  BY DEF Magnitude
<1>4. CASE type = "L"
  <2>1. /\ RowUpper(type, rhs, range) = At(b)
        /\ RowLower(type, rhs, range) = IF range.finite THEN At(b - Magnitude(w)) ELSE NoBound
    BY <1>1, <1>4 DEF RowUpper, RowLower
  <2>2. Within(z, RowLower(type, rhs, range), RowUpper(type, rhs, range)) <=>
          z <= b /\ (range.finite => b - Magnitude(w) <= z)
    <3>1. CASE range.finite
      BY <1>2, <2>1, <3>1 DEF Within
    <3>2. CASE ~ range.finite
      BY <1>2, <2>1, <3>2 DEF Within
    <3> QED
      BY <3>1, <3>2
  <2>3. z <= b => (b - Magnitude(w) <= z <=> Near(z, b, w))
    BY <1>3 DEF Near
  <2> QED
    BY <1>1, <1>4, <2>2, <2>3
<1>5. CASE type = "G"
  <2>1. /\ RowLower(type, rhs, range) = At(b)
        /\ RowUpper(type, rhs, range) = IF range.finite THEN At(b + Magnitude(w)) ELSE NoBound
    BY <1>1, <1>5 DEF RowUpper, RowLower
  <2>2. Within(z, RowLower(type, rhs, range), RowUpper(type, rhs, range)) <=>
          z >= b /\ (range.finite => z <= b + Magnitude(w))
    <3>1. CASE range.finite
      BY <1>2, <2>1, <3>1 DEF Within
    <3>2. CASE ~ range.finite
      BY <1>2, <2>1, <3>2 DEF Within
    <3> QED
      BY <3>1, <3>2
  <2>3. z >= b => (z <= b + Magnitude(w) <=> Near(z, b, w))
    BY <1>3 DEF Near
  <2> QED
    BY <1>1, <1>5, <2>2, <2>3
<1>6. CASE type = "E"
  <2>1. Magnitude(w) = IF w < 0 THEN -w ELSE w
    BY <1>3
  <2>2. w >= 0 => RowLower(type, rhs, range) = At(b)
    BY <1>1, <1>6 DEF RowLower
  <2>3. ~ (w >= 0) => RowLower(type, rhs, range) = At(b - Magnitude(w))
    <3> SUFFICES ASSUME ~ (w >= 0) PROVE RowLower(type, rhs, range) = At(b - Magnitude(w))
      OBVIOUS
    <3>1. /\ ~ (type = "G" \/ (type = "E" /\ range.value >= 0)) /\ range.value < 0
          /\ type = "E" /\ type # "L" /\ type # "G"
      BY <1>1, <1>6
    <3>2. RowLower(type, rhs, range) = At(rhs.value - Magnitude(range.value))
      BY <3>1, Zenon DEF RowLower
    <3> QED
      BY <1>1, <3>2, Zenon
  <2>4. w <= 0 => RowUpper(type, rhs, range) = At(b)
    BY <1>1, <1>6 DEF RowUpper
  <2>5. ~ (w <= 0) => RowUpper(type, rhs, range) = At(b + Magnitude(w))
    <3> SUFFICES ASSUME ~ (w <= 0) PROVE RowUpper(type, rhs, range) = At(b + Magnitude(w))
      OBVIOUS
    <3>1. /\ ~ (type = "L" \/ (type = "E" /\ range.value <= 0)) /\ range.value > 0
          /\ type = "E" /\ type # "L" /\ type # "G"
      BY <1>1, <1>6
    <3>2. RowUpper(type, rhs, range) = At(rhs.value + Magnitude(range.value))
      BY <3>1, Zenon DEF RowUpper
    <3> QED
      BY <1>1, <3>2, Zenon
  <2>6. \A u, v : Within(z, At(u), At(v)) <=> u <= z /\ z <= v
    BY <1>2 DEF Within
  <2>7. Within(z, RowLower(type, rhs, range), RowUpper(type, rhs, range)) <=> z - b \in 0 .. w \/ z - b \in w .. 0
    <3>1. CASE w > 0
      <4>1. Within(z, RowLower(type, rhs, range), RowUpper(type, rhs, range)) <=> b <= z /\ z <= b + w
        BY <2>1, <2>2, <2>5, <2>6, <3>1
      <4> QED
        BY <3>1, <4>1
    <3>2. CASE w = 0
      <4>1. Within(z, RowLower(type, rhs, range), RowUpper(type, rhs, range)) <=> b <= z /\ z <= b
        BY <2>2, <2>4, <2>6, <3>2
      <4> QED
        BY <3>2, <4>1
    <3>3. CASE w < 0
      <4>1. Within(z, RowLower(type, rhs, range), RowUpper(type, rhs, range)) <=> b + w <= z /\ z <= b
        BY <2>1, <2>3, <2>4, <2>6, <3>3
      <4> QED
        BY <3>3, <4>1
    <3> QED
      BY <3>1, <3>2, <3>3
  <2> QED
    BY <1>1, <1>6, <2>7
<1> QED
  BY <1>4, <1>5, <1>6

\* A row holds for the activities its lines allow.
LEMMA DeclaredRow ==
  ASSUME TextInv, ReaderInv, RowsInv, RimInv, at = Len(file), NEW i \in Constraints, NEW r, r = rows[i].name, NEW z \in Int
  PROVE  Within(z, RowLower(rows[i].type, rows[i].rhs, rows[i].range), RowUpper(rows[i].type, rows[i].rhs, rows[i].range))
           <=> RowHolds(r, z)
<1>1. i \in DOMAIN rows /\ rows[i].type \in {"E", "L", "G"} /\ TypeOf(r) = rows[i].type
  BY DeclaredRows DEF Constraints, RowsInv, RowTypes
<1>2. \A s : SeenRim(s, r) = RimCells(s, r)
  BY EverythingSeen DEF SeenRim, RimCells, RimLine
<1>3. Rimmed(RimCells("RHS", r), rows[i].rhs) /\ Rimmed(RimCells("RANGES", r), rows[i].range)
  BY <1>1, <1>2 DEF RimInv
<1>4. PICK type, rhs, range : type = rows[i].type /\ rhs = rows[i].rhs /\ range = rows[i].range
  OBVIOUS
<1>5. /\ Rim("RHS", r) = rhs.value /\ rhs.value \in Int
      /\ Rim("RANGES", r) = range.value /\ range.value \in Int
      /\ range.finite <=> RimCells("RANGES", r) # {}
  BY <1>3, <1>4, RimValue DEF Rim
<1>6. range.finite \in BOOLEAN /\ (~ range.finite => range.value = 0)
  <2>1. range = NoBound \/ \E v : range = At(v)
    BY <1>3, <1>4 DEF Rimmed
  <2>2. \A v : At(v).finite = TRUE
    BY DEF At
  <2>3. NoBound.finite = FALSE /\ NoBound.value = 0
    BY DEF NoBound
  <2> QED
    BY <2>1, <2>2, <2>3
<1>7. Within(z, RowLower(type, rhs, range), RowUpper(type, rhs, range)) <=>
        CASE type = "L" -> z <= rhs.value /\ (range.finite => Near(z, rhs.value, range.value))
          [] type = "G" -> z >= rhs.value /\ (range.finite => Near(z, rhs.value, range.value))
          [] type = "E" -> z - rhs.value \in 0 .. range.value \/ z - rhs.value \in range.value .. 0
  <2>1. /\ type \in {"E", "L", "G"} /\ rhs.value \in Int /\ range.value \in Int /\ range.finite \in BOOLEAN
        /\ ~ range.finite => range.value = 0
        /\ z \in Int
    BY <1>1, <1>4, <1>5, <1>6
  <2> QED
    BY ONLY <2>1, IntervalOfRow
<1>8. RowHolds(r, z) <=>
        CASE type = "L" -> z <= rhs.value /\ (range.finite => Near(z, rhs.value, range.value))
          [] type = "G" -> z >= rhs.value /\ (range.finite => Near(z, rhs.value, range.value))
          [] type = "E" -> z - rhs.value \in 0 .. range.value \/ z - rhs.value \in range.value .. 0
  <2>1. CASE type = "L"
    BY <1>1, <1>4, <1>5, <2>1 DEF RowHolds, Near
  <2>2. CASE type = "G"
    BY <1>1, <1>4, <1>5, <2>2 DEF RowHolds, Near
  <2>3. CASE type = "E"
    BY <1>1, <1>4, <1>5, <2>3 DEF RowHolds, Near
  <2> QED
    BY <1>1, <1>4, <2>1, <2>2, <2>3
<1> QED
  BY <1>4, <1>7, <1>8

\* An entry of the Hessian is what its lines give it.
LEMMA DeclaredQuad ==
  ASSUME TextInv, ReaderInv, QuadInv, at = Len(file), NEW i \in DOMAIN columns, NEW j \in DOMAIN columns,
         NEW x, x = columns[i].name, NEW y, y = columns[j].name
  PROVE  Hessian(i, j) = QuadraticEntry(x, y)
<1>1. \A s, c, d : QuadRead(s, c, d) = Written(s, c, d)
  <2>1. \A s, c, d : SeenQuad(s, c, d) = {k \in Under({s}) : Word(k, 1) = c /\ Word(k, 2) = d}
    BY EverythingSeen DEF SeenQuad
  <2> QED
    BY <2>1 DEF QuadRead, Written
<1>2. PICK A, B, C : A = QuadAt("QUADOBJ", i, j) /\ B = QuadAt("QMATRIX", i, j) /\ C = QuadAt("QUADOBJ", j, i)
  OBVIOUS
<1>3. /\ Summed(A) = Written("QUADOBJ", x, y) /\ Summed(B) = Written("QMATRIX", x, y)
      /\ Summed(C) = Written("QUADOBJ", y, x)
  BY <1>1, <1>2 DEF QuadInv, QuadSections
<1>4. /\ {q \in quad : q.first = i /\ q.second = j} = A \union B /\ A \cap B = {}
      /\ \A q \in A \union B : q.value \in Int
      /\ A \in SUBSET quad /\ B \in SUBSET quad /\ IsFiniteSet(quad)
  BY <1>2 DEF QuadAt, QuadInv
<1>5. IsFiniteSet(A) /\ IsFiniteSet(B)
  BY <1>4, FS_Subset
<1>6. Summed(A \union B) = Summed(A) + Summed(B)
  BY <1>4, <1>5, SummedParts
<1>7. x = y <=> i = j
  BY DEF ReaderInv, GoodColumns, DistinctNames
<1>8. Summed({q \in quad : q.mirrored /\ i # j /\ q.first = j /\ q.second = i}) = IF x = y THEN 0 ELSE Summed(C)
  <2>1. CASE i = j
    <3>1. {q \in quad : q.mirrored /\ i # j /\ q.first = j /\ q.second = i} = {}
      BY <2>1
    <3>2. Summed({}) = 0
      BY TotalEmpty DEF Summed
    <3> QED
      BY <1>7, <2>1, <3>1, <3>2
  <2>2. CASE i # j
    <3>1. {q \in quad : q.mirrored /\ i # j /\ q.first = j /\ q.second = i} = C
      BY <1>2, <2>2 DEF QuadAt
    <3> QED
      BY <1>7, <2>2, <3>1
  <2> QED
    BY <2>1, <2>2
<1>9. Summed(A) \in Int /\ Summed(B) \in Int
  <2> DEFINE f == [q \in A |-> q.value]
             g == [q \in B |-> q.value]
  <2>1. AllInt(f, A) /\ AllInt(g, B) /\ Summed(A) = Total(f, A) /\ Summed(B) = Total(g, B)
    BY <1>4 DEF AllInt, Summed
  <2> HIDE DEF f, g
  <2> QED
    BY <1>5, <2>1, TotalType
<1>10. PICK h : h = IF x = y THEN 0 ELSE Summed(C)
  OBVIOUS
<1>11. Hessian(i, j) = Summed(A) + Summed(B) + h
  BY <1>4, <1>6, <1>8, <1>10 DEF Hessian
<1>12. QuadraticEntry(x, y) = Summed(B) + Summed(A) + h
  BY <1>3, <1>10 DEF QuadraticEntry
<1> QED
  BY <1>9, <1>11, <1>12

\* The model m is the one the file declares.
IsDeclared(m) ==
  /\ m.sense = Sense
  /\ DOMAIN m.rowLower = RowsOfType({"E", "L", "G"})
  /\ \A r \in DOMAIN m.rowLower : \A z \in -5 .. 5 :
       Within(z, m.rowLower[r], m.rowUpper[r]) <=> RowHolds(r, z)
  /\ DOMAIN m.type = ColumnsOfFile
  /\ \A x \in DOMAIN m.type :
       /\ m.type[x] = Type(x)
       /\ m.lower[x] = Lower(x) /\ m.upper[x] = Upper(x)
       /\ m.objective[x] = Coefficient(ObjectiveRow, x)
       /\ \A r \in DOMAIN m.matrix : m.matrix[r][x] = Coefficient(r, x)
       /\ \A y \in DOMAIN m.type : m.hessian[x][y] = QuadraticEntry(x, y)

\* What a file declares does not change while it is read.
LEMMA FileStays ==
  ASSUME file' = file
  PROVE  /\ Orderly' <=> Orderly
         /\ \A m : IsDeclared(m)' <=> IsDeclared(m)
<1>1. /\ Lines' = Lines
      /\ \A k, n : Word(k, n)' = Word(k, n)
      /\ \A k : Width(k)' = Width(k)
      /\ \A T : Under(T)' = Under(T)
  BY DEF Under, HeadersBefore, Lines, Width, Word
<1>2. /\ \A w : Markers(w)' = Markers(w)
      /\ \A x : Mentions(x)' = Mentions(x)
      /\ ColumnsOfFile' = ColumnsOfFile
  BY <1>1 DEF Markers, Mentions, ColumnsOfFile
<1>3. \A x : Marked(x)' <=> Marked(x)
  BY <1>2 DEF Marked
<1>4. /\ \A k, n : CellsOf(k, n)' = CellsOf(k, n)
      /\ \A c : NameIn(c)' = NameIn(c)
      /\ \A C : Values(C)' = Values(C)
  BY <1>1 DEF CellsOf, NameIn, Values
<1>5. \A r, x : Coefficient(r, x)' = Coefficient(r, x)
  BY <1>2, <1>4 DEF Coefficient
<1>6. \A s, r : RimCells(s, r)' = RimCells(s, r) /\ Rim(s, r)' = Rim(s, r)
  BY <1>1, <1>4 DEF RimCells, Rim
<1>7. /\ \A r : TypeOf(r)' = TypeOf(r)
      /\ \A T : RowsOfType(T)' = RowsOfType(T)
      /\ ObjectiveRow' = ObjectiveRow /\ Sense' = Sense
  BY <1>1 DEF TypeOf, RowsOfType, ObjectiveRow, Sense
<1>8. ASSUME NEW r, NEW z PROVE RowHolds(r, z)' <=> RowHolds(r, z)
  <2>1. /\ Rim("RHS", r)' = Rim("RHS", r) /\ Rim("RANGES", r)' = Rim("RANGES", r)
        /\ RimCells("RANGES", r)' = RimCells("RANGES", r) /\ TypeOf(r)' = TypeOf(r)
    BY <1>6, <1>7
  <2> QED
    BY ONLY <2>1 DEF RowHolds
<1>9. /\ \A x, T : BoundsOf(x, T)' = BoundsOf(x, T) /\ Latest(x, T)' = Latest(x, T)
      /\ \A k : Kind(k)' = Kind(k)
      /\ \A k, n : Limit(k, n)' = Limit(k, n)
  BY <1>1 DEF BoundsOf, Latest, Kind, Limit
<1>10. \A x : Lower(x)' = Lower(x) /\ Upper(x)' = Upper(x) /\ Type(x)' = Type(x)
  BY <1>3, <1>9 DEF Lower, Upper, Type
<1>11. \A x, y : QuadraticEntry(x, y)' = QuadraticEntry(x, y)
  <2>1. \A s, x, y : Written(s, x, y)' = Written(s, x, y)
    BY <1>1 DEF Written
  <2> QED
    BY <2>1 DEF QuadraticEntry
<1>12. Orderly' <=> Orderly
  BY <1>1, <1>2, <1>7 DEF Orderly
<1>13. ASSUME NEW m PROVE IsDeclared(m)' <=> IsDeclared(m)
  BY <1>2, <1>5, <1>7, <1>8, <1>10, <1>11 DEF IsDeclared
<1> QED
  BY <1>12, <1>13

\* The model built at the end of an orderly file is the one it declares.
LEMMA BuiltIsDeclared ==
  ASSUME TextInv, ReaderInv, Known, Orderly, at = Len(file), RowNamed(objectiveName) # {}
  PROVE  IsDeclared(Built)
<1>1. /\ \A T : Seen(T) = Under(T)
      /\ \A w : SeenMarkers(w) = Markers(w)
      /\ \A x : SeenMentions(x) = Mentions(x)
  BY EverythingSeen
<1>2. PICK m : m = Built
  OBVIOUS
<1>3. /\ m.sense = sense
      /\ DOMAIN m.type = ColumnNames /\ DOMAIN m.rowLower = RowNames /\ DOMAIN m.matrix = RowNames
  BY <1>2 DEF Built
<1>4. ASSUME NEW x \in ColumnNames
      PROVE  \E j \in DOMAIN columns : Col(x) = j /\ columns[j].name = x
  <2>1. ColumnNamed(columns, x) # {}
    BY DEF ColumnNames, ColumnNamed
  <2>2. Col(x) \in ColumnNamed(columns, x)
    BY <2>1 DEF Col, TheColumn
  <2> QED
    BY <2>2 DEF ColumnNamed
<1>5. ASSUME NEW r \in RowNames
      PROVE  \E i \in Constraints : TheRow(r) = i /\ rows[i].name = r
  <2>1. DistinctNames(rows)
    BY DEF ReaderInv, GoodRows
  <2>2. PICK i \in Constraints : rows[i].name = r
    BY DEF RowNames
  <2>3. RowNamed(r) # {} /\ i \in DOMAIN rows
    BY <2>2 DEF RowNamed, Constraints
  <2>4. TheRow(r) = i
    BY <2>1, <2>2, <2>3, RowFound
  <2> QED
    BY <2>2, <2>4
<1>6. ColumnNames = ColumnsOfFile
  <2>1. ASSUME NEW j \in DOMAIN columns PROVE columns[j].name \in ColumnsOfFile
    <3>1. SeenMentions(columns[j].name) # {}
      BY DEF Known, ColumnsInv
    <3>2. Mentions(columns[j].name) # {}
      BY <1>1, <3>1
    <3> QED
      BY <3>2 DEF Mentions, ColumnsOfFile
  <2>2. ASSUME NEW y \in ColumnsOfFile PROVE y \in ColumnNames
    <3>1. PICK k \in SeenColumns : Word(k, 1) = y
      BY <1>1 DEF ColumnsOfFile, SeenColumns
    <3>2. ColumnNamed(columns, y) # {}
      BY <3>1 DEF Known, ColumnsInv
    <3> QED
      BY <3>2 DEF ColumnNamed, ColumnNames
  <2> QED
    BY <2>1, <2>2 DEF ColumnNames
<1>7. ASSUME NEW r \in RowNames, NEW z \in -5 .. 5
      PROVE  Within(z, m.rowLower[r], m.rowUpper[r]) <=> RowHolds(r, z)
  <2>1. PICK i \in Constraints : TheRow(r) = i /\ rows[i].name = r
    BY <1>5
  <2>2. /\ m.rowLower[r] = RowLower(rows[i].type, rows[i].rhs, rows[i].range)
        /\ m.rowUpper[r] = RowUpper(rows[i].type, rows[i].rhs, rows[i].range)
    BY <1>2, <2>1 DEF Built
  <2>3. z \in Int /\ RowsInv /\ RimInv
    BY DEF Known
  <2> QED
    BY <2>1, <2>2, <2>3, DeclaredRow
<1>8. ASSUME NEW x \in ColumnNames
      PROVE  /\ m.type[x] = Type(x)
             /\ m.lower[x] = Lower(x) /\ m.upper[x] = Upper(x)
             /\ m.objective[x] = Coefficient(ObjectiveRow, x)
             /\ \A r \in RowNames : m.matrix[r][x] = Coefficient(r, x)
             /\ \A y \in ColumnNames : m.hessian[x][y] = QuadraticEntry(x, y)
  <2>1. PICK j \in DOMAIN columns : Col(x) = j /\ columns[j].name = x
    BY <1>4
  <2>2. /\ TypeRead(x) = Type(x) /\ LowerRead(x) = Lower(x) /\ UpperRead(x) = Upper(x)
        /\ \A r : SumRead(r, x) = Coefficient(r, x)
    BY DeclaredColumn
  <2>3. m.type[x] = Type(x) /\ m.lower[x] = Lower(x) /\ m.upper[x] = Upper(x)
    <3>1. m.type[x] = columns[j].type /\ m.lower[x] = columns[j].lower /\ m.upper[x] = columns[j].upper
      BY <1>2, <2>1 DEF Built
    <3> QED
      BY <2>1, <2>2, <3>1 DEF Known, BoundsInv
  <2>4. m.objective[x] = Coefficient(ObjectiveRow, x)
    <3>1. m.objective[x] = columns[j].objective
      BY <1>2, <2>1 DEF Built
    <3>2. objectiveName = ObjectiveRow /\ CostKept
      BY DeclaredObjective DEF Known
    <3>3. columns[j].objective = SumRead(ObjectiveRow, x)
      BY <2>1, <3>2 DEF Known, EntriesInv
    <3> QED
      BY <2>2, <3>1, <3>3
  <2>5. ASSUME NEW r \in RowNames PROVE m.matrix[r][x] = Coefficient(r, x)
    <3>1. PICK i \in Constraints : TheRow(r) = i /\ rows[i].name = r
      BY <1>5
    <3>2. m.matrix[r][x] = Summed(EntriesAt(i, j))
      BY <1>2, <2>1, <3>1 DEF Built, EntriesAt
    <3>3. Summed(EntriesAt(i, j)) = SumRead(r, x)
      BY <2>1, <3>1 DEF Known, EntriesInv, Constraints
    <3> QED
      BY <2>2, <3>2, <3>3
  <2>6. ASSUME NEW y \in ColumnNames PROVE m.hessian[x][y] = QuadraticEntry(x, y)
    <3>1. PICK l \in DOMAIN columns : Col(y) = l /\ columns[l].name = y
      BY <1>4
    <3>2. m.hessian[x][y] = Hessian(j, l)
      BY <1>2, <2>1, <3>1 DEF Built
    <3>3. Hessian(j, l) = QuadraticEntry(x, y)
      BY <2>1, <3>1, DeclaredQuad DEF Known
    <3> QED
      BY <3>2, <3>3
  <2> QED
    BY <2>3, <2>4, <2>5, <2>6
<1>9. sense = Sense /\ RowNames = RowsOfType({"E", "L", "G"})
  BY DeclaredSense, DeclaredRows DEF Known
<1>10. IsDeclared(m)
  BY <1>3, <1>6, <1>7, <1>8, <1>9 DEF IsDeclared
<1> QED
  BY <1>2, <1>10

\* The inductive invariant: what is known while a file in order is read, and
\* the model at its end.
ReadsInv ==
  /\ TextInv /\ ReaderInv /\ (Orderly => Known)
  /\ outcome = "read" /\ Orderly => IsDeclared(model)

\* Nothing is read at the start.
LEMMA ReadsInit == Init => ReadsInv
  BY TextInit, ReaderInit, KnownInit DEF ReadsInv, Init

\* Every step keeps it, and the end of the file builds the model.
LEMMA ReadsNext == ReadsInv /\ [Next]_vars => ReadsInv'
<1> SUFFICES ASSUME ReadsInv, [Next]_vars PROVE ReadsInv'
  OBVIOUS
<1>1. TextInv' /\ ReaderInv'
  BY TextNext, ReaderNext DEF ReadsInv
<1>2. UNCHANGED vars \/ Reject \/ EndOfFile \/ NextLine
  <2> SUFFICES ASSUME Next, ~ Reject, ~ EndOfFile PROVE NextLine
    OBVIOUS
  <2>1. CASE SkipLine \/ AfterEnd \/ Header \/ Stray
    BY <2>1 DEF SkipLine, AfterEnd, Header, Stray
  <2>2. CASE ObjectiveSense \/ ObjectiveNameRecord \/ RowRecord \/ Marker
    BY <2>2 DEF ObjectiveSense, ObjectiveNameRecord, RowRecord, Marker
  <2>3. CASE ColumnRecord \/ BoundRecord
    BY <2>3 DEF ColumnRecord, BoundRecord
  <2>4. ASSUME NEW s, RimRecord(s) \/ QuadRecord(s) PROVE NextLine
    BY <2>4 DEF RimRecord, QuadRecord
  <2> QED
    BY <2>1, <2>2, <2>3, <2>4 DEF Next
<1>3. (Orderly' <=> Orderly) /\ \A m : IsDeclared(m)' <=> IsDeclared(m)
  <2>1. file' = file
    BY <1>2 DEF vars, Reject, EndOfFile, NextLine
  <2> QED
    BY <2>1, FileStays
<1>4. Orderly' => Known'
  BY <1>3, KnownNext DEF ReadsInv
<1>5. outcome' = "read" /\ Orderly => \E m : model' = m /\ IsDeclared(m)
  <2> SUFFICES ASSUME outcome' = "read", Orderly PROVE \E m : model' = m /\ IsDeclared(m)
    OBVIOUS
  <2>1. CASE EndOfFile
    <3>1. at = Len(file) /\ RowNamed(objectiveName) # {} /\ model' = Built
      BY <2>1 DEF EndOfFile
    <3>2. IsDeclared(Built)
      BY <3>1, BuiltIsDeclared DEF ReadsInv
    <3> QED
      BY <3>1, <3>2
  <2>2. CASE UNCHANGED <<outcome, model>>
    BY <2>2 DEF ReadsInv
  <2>3. EndOfFile \/ UNCHANGED <<outcome, model>>
    BY <1>2 DEF vars, Reject, NextLine
  <2> QED
    BY <2>1, <2>2, <2>3
<1> QED
  BY <1>1, <1>3, <1>4, <1>5 DEF ReadsInv

(***************************************************************************)
(* The reader reads what the file declares: whatever the order of its      *)
(* sections and however often one comes back, as long as its columns come  *)
(* before what is said of them, the model returned has the rows, columns,  *)
(* bounds, types, coefficients and curvature of the file's own records.    *)
(***************************************************************************)
THEOREM ReaderReadsDeclared == Spec => []ReadsDeclared
<1>1. ReadsInv => ReadsDeclared
  BY DEF ReadsInv, ReadsDeclared, IsDeclared
<1> QED
  BY ReadsInit, ReadsNext, <1>1, PTL DEF Spec
=============================================================================
