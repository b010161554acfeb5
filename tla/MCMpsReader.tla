---------------------------- MODULE MCMpsReader ----------------------------
EXTENDS MpsReader

H(name) == <<[margin |-> TRUE, fields |-> <<name>>]>>
D(fields) == <<[margin |-> FALSE, fields |-> fields]>>
Blank == D(<<>>)

Tokens == [t \in {"-2", "-1", "0", "1", "2"} |->
             CASE t = "-2" -> -2 [] t = "-1" -> -1 [] t = "0" -> 0 [] t = "1" -> 1 [] t = "2" -> 2]

Open == D(<<"M", "MARKER", "INTORG">>)
Close == D(<<"M", "MARKER", "INTEND">>)
Bound(type, value) == D(IF value = "" THEN <<type, "B", "X">> ELSE <<type, "B", "X", value>>)

RowTables == {H("ROWS") \o D(<<"N", "O">>) \o D(<<t, "R">>) : t \in {"E", "L", "G"}}
OneRow == H("ROWS") \o D(<<"N", "O">>) \o D(<<"L", "R">>)
TwoObjectives == H("ROWS") \o D(<<"N", "P">>) \o D(<<"L", "R">>) \o D(<<"N", "O">>)
OneColumn == H("COLUMNS") \o D(<<"X", "O", "1", "R", "2">>)

\* Columns in one block, across blocks, twice in a row and around other sections.
ColumnTables ==
  {OneColumn,
   H("COLUMNS") \o Open \o D(<<"X", "R", "1">>) \o Close \o D(<<"Y", "O", "2", "R", "-1">>),
   H("COLUMNS") \o D(<<"X", "O", "1">>) \o Open \o D(<<"X", "R", "1", "R", "1">>) \o Close}
RhsTables == {<<>>, H("RHS") \o D(<<"B", "R", "2">>), H("RHS") \o D(<<"R", "-1">>)}
RangeTables == {<<>>} \union {H("RANGES") \o D(<<"G", "R", w>>) : w \in {"-2", "0", "1"}}
BoundTables ==
  {<<>>} \union
  {H("BOUNDS") \o b :
     b \in {Bound("UP", "2"), Bound("LO", "-1") \o Bound("UP", "0"), Bound("FX", "1"), Bound("MI", ""),
            Bound("FR", "") \o Bound("UI", "2"), Bound("BV", ""), Bound("BV", "") \o Bound("LI", "1"),
            Bound("UP", "1") \o Bound("PL", "")}}
Quadratics ==
  {<<>>, H("QUADOBJ") \o D(<<"X", "X", "2">>) \o D(<<"X", "Y", "1">>),
   H("QMATRIX") \o D(<<"X", "Y", "1">>) \o D(<<"Y", "X", "1">>)}
YColumn == H("COLUMNS") \o D(<<"Y", "R", "1">>)

End == H("ENDATA")
Join(blocks) == FlattenSeq(blocks)

\* Sound files: rows with their right-hand sides and ranges, columns with
\* their bounds and curvature, and the choice of an objective; the sections
\* in several orders.
RowFiles ==
  UNION {{Join(<<t, OneColumn, b, g, End>>), Join(<<t, g, b, OneColumn, Blank, End>>)} :
           t \in RowTables, b \in RhsTables, g \in RangeTables}
ColumnFiles ==
  UNION {{Join(<<OneRow, c, YColumn, b, q, End>>), Join(<<OneRow, c, b, YColumn, q, End>>),
          Join(<<H("NAME"), H("OBJSENSE"), D(<<"MAX">>), OneRow, YColumn, c, q, b, End>>)} :
           c \in ColumnTables, b \in BoundTables, q \in Quadratics}
ObjectiveFiles ==
  {Join(<<H("OBJNAME"), D(<<"O">>), TwoObjectives, OneColumn, End>>),
   Join(<<TwoObjectives, H("OBJNAME"), D(<<"O">>), OneColumn, H("OBJSENSE"), D(<<"MIN">>), End, Blank>>)}

\* Files with one flaw each.
FlawedFiles ==
  {Join(<<OneRow, OneColumn>>), Join(<<OneRow, End, OneColumn>>), Join(<<OneColumn, OneRow, End>>),
   Join(<<D(<<"N", "O">>), End>>), Join(<<H("ROWS"), D(<<"L", "R">>), End>>),
   Join(<<OneRow, H("ROWS"), D(<<"G", "R">>), End>>), Join(<<OneRow, H("LAZY"), End>>),
   Join(<<H("OBJSENSE"), D(<<"BEST">>), End>>), Join(<<H("OBJNAME"), D(<<"O", "P">>), End>>),
   Join(<<TwoObjectives, OneColumn, End>>), Join(<<OneRow, H("COLUMNS"), Open, Open, End>>),
   Join(<<OneRow, H("COLUMNS"), Close, End>>), Join(<<OneRow, H("COLUMNS"), Open, OneColumn, End>>),
   Join(<<OneRow, H("COLUMNS"), D(<<"X", "Q", "1">>), End>>),
   Join(<<OneRow, OneColumn, YColumn, H("COLUMNS"), D(<<"Z", "R", "1">>), End>>),
   Join(<<OneRow, H("RHS"), D(<<"B", "O", "1">>), End>>),
   Join(<<OneRow, H("RHS"), D(<<"B", "R", "1">>), D(<<"B", "R", "1">>), End>>),
   Join(<<OneRow, H("RANGES"), D(<<"G", "R", "1", "R", "2">>), End>>),
   Join(<<OneRow, H("RHS"), D(<<"B", "R", "1">>), D(<<"A", "R", "1">>), End>>),
   Join(<<OneRow, OneColumn, H("BOUNDS"), Bound("UP", ""), End>>),
   Join(<<OneRow, OneColumn, H("BOUNDS"), Bound("UP", "-1"), End>>),
   Join(<<OneRow, OneColumn, H("BOUNDS"), Bound("BV", ""), Bound("FR", ""), End>>),
   Join(<<OneRow, OneColumn, H("BOUNDS"), Bound("UP", "1"), D(<<"UP", "A", "X", "1">>), End>>),
   Join(<<OneRow, OneColumn, H("QUADOBJ"), D(<<"X", "X">>), End>>)}

\* Columns bounded before they are named, and an objective chosen too late.
Disorderly ==
  {Join(<<OneRow, b, c, End>>) : c \in ColumnTables, b \in {H("BOUNDS") \o Bound("UP", "2")}}
  \union {Join(<<OneRow, H("OBJNAME"), D(<<"R">>), End>>)}

FilesGiven == RowFiles \union ColumnFiles \union ObjectiveFiles \union FlawedFiles \union Disorderly
=============================================================================
