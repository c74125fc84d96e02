------------------------------ MODULE Visitor ------------------------------
(***************************************************************************)
(* What a statement must be before it is run: the semantic checks           *)
(* (src/src/query/parser/visitor.py), the rewriting of what they let pass   *)
(* (src/src/query/rewriter), and the rows of an INSERT.                     *)
(***************************************************************************)
EXTENDS Parser, FiniteSets

CONSTANTS Columns,      \* the columns of each table
          Types,        \* the type of each column, of <<table, column>>
          Required,     \* the columns that are NOT NULL
          Indexes,      \* the names of indexes
          World         \* the greatest longitude and latitude

Numeric == {"SMALLINT", "INTEGER", "BIGINT", "NUMERIC", "REAL", "DOUBLE PRECISION"}
Dates == {"DATE", "TIME", "TIMESTAMP"}
Strings == {"CHAR", "VARCHAR", "TEXT"}
Spatial == {"POINT", "POLYGON", "RECTANGLE", "GEOMETRY"}
Orderable == Numeric \union Dates \union Strings

TableExists(t) == t \in DOMAIN Columns
InTable(t, c) == TableExists(t) /\ c \in ToSet(Columns[t])

(* _resolve_select_column                                                   *)
TablesOf(stm) == <<stm.table>> \o [i \in DOMAIN stm.join |-> stm.join[i].table]

IsColumn(stm, name) ==
  IF name[1] = "" THEN Cardinality({i \in DOMAIN TablesOf(stm) : InTable(TablesOf(stm)[i], name[2])}) = 1
  ELSE name[1] \in ToSet(TablesOf(stm)) /\ InTable(name[1], name[2])

Owned(stm, name) ==
  <<CHOOSE t \in ToSet(TablesOf(stm)) : InTable(t, name[2]) /\ name[1] \in {"", t}, name[2]>>

TypeOf(stm, name) == Types[Owned(stm, name)]

-----------------------------------------------------------------------------
(* Literals.                                                                *)

OnEarth(p) == p[1] \in -World[1] .. World[1] /\ p[2] \in -World[2] .. World[2]

(* Point, Polygon and Rectangle refuse other data.                          *)
IsGeometry(exp) ==
  CASE exp.kind = "point" -> OnEarth(exp.value)
    [] exp.kind = "rectangle" ->
         /\ Len(exp.value) = 4
         /\ OnEarth(<<exp.value[1], exp.value[2]>>) /\ OnEarth(<<exp.value[3], exp.value[4]>>) /\ exp.value[2] <= exp.value[4]
    [] exp.kind = "polygon" ->
         /\ Len(exp.value) >= 4 /\ Head(exp.value) = Last(exp.value) /\ Cardinality(ToSet(exp.value)) >= 3
         /\ \A i \in DOMAIN exp.value : OnEarth(exp.value[i])
    [] OTHER -> FALSE

(* The mean of the corners, each of them once.                              *)
Center(exp) ==
  LET sum(s, c) == FoldLeft(LAMBDA n, p : n + p[c], 0, s)
      corners == Front(exp.value)
  IN CASE exp.kind = "point" -> exp.value
       [] exp.kind = "rectangle" -> <<(exp.value[1] + exp.value[3]) \div 2, (exp.value[2] + exp.value[4]) \div 2>>
       [] exp.kind = "polygon" -> <<sum(corners, 1) \div Len(corners), sum(corners, 2) \div Len(corners)>>

(* What is stored: a datum, or the geometry.                                *)
Literal(exp) ==
  CASE exp.kind = "centroid" -> [kind |-> "point", value |-> Center(exp.value)]
    [] exp.kind \in {"point", "rectangle", "polygon"} -> exp
    [] OTHER -> exp.value

IsLiteral(exp) ==
  CASE exp.kind = "id" -> FALSE
    [] exp.kind \in {"point", "rectangle", "polygon"} -> IsGeometry(exp)
    [] exp.kind = "centroid" -> exp.value.kind \in {"rectangle", "polygon"} /\ IsGeometry(exp.value)
    [] OTHER -> TRUE

(* Column.validate of the literal; the width of a text is left out.         *)
Fits(exp, type, nullable) ==
  LET kind == IF exp.kind = "centroid" THEN "point" ELSE exp.kind
  IN CASE kind = "null" -> nullable
       [] kind = "num" -> type \in Numeric
       [] kind = "string" -> type \in Strings
       [] kind = "point" -> type \in {"POINT", "GEOMETRY"}
       [] kind = "rectangle" -> type \in {"RECTANGLE", "GEOMETRY"}
       [] kind = "polygon" -> type \in {"POLYGON", "GEOMETRY"}
       [] OTHER -> FALSE

-----------------------------------------------------------------------------
(* SELECT.                                                                  *)

Items(stm, f) == SelectSeq(stm.items, LAMBDA item : item.f = f)
Aggregates(stm) == \E i \in DOMAIN stm.items : stm.items[i].f \in {"COUNT", "SUM", "AVG", "MIN", "MAX"}
IsDistance(item) == item.distance # <<>>
ByDistance(stm) == \E i \in DOMAIN stm.order : IsDistance(stm.order[i])
WhereIs(stm, node) == stm.where # <<>> /\ stm.where[1].node = node

StarThen(stm, functions) ==
  \A i \in DOMAIN stm.items : stm.items[i] = Star =>
    stm.items[1] = Star /\ \A j \in DOMAIN stm.items : stm.items[j] = Star \/ stm.items[j].f \in functions

Alone(stm) == stm.join = <<>> /\ stm.group = <<>> /\ ~Aggregates(stm) /\ ~ByDistance(stm)

IsText(stm, name) == IsColumn(stm, name) /\ TypeOf(stm, name) \in Strings

TextSearchAccepted(stm) ==
  LET scores == Items(stm, "SCORE")
      score == scores[1]
      match == stm.where[1]
  IN /\ StarThen(stm, {"SCORE"})
     /\ (scores # <<>> \/ WhereIs(stm, "match")) => Alone(stm) /\ Len(scores) <= 1
     /\ WhereIs(stm, "match") => IsText(stm, match.left) /\ match.right # {}
     /\ scores # <<>> =>
          /\ score.column # Unbound /\ IsText(stm, score.column) /\ score.query # {}
          /\ WhereIs(stm, "match") => score.ranking = match.op
          /\ ~InTable(stm.table, score.alias)

VectorSearchAccepted(stm) ==
  LET scores == Items(stm, "SIMILARITY_SCORE")
      similar == stm.where[1]
  IN (scores # <<>> \/ WhereIs(stm, "similar")) =>
       /\ StarThen(stm, {"SCORE", "SIMILARITY_SCORE"}) /\ Alone(stm) /\ Len(scores) <= 1
       /\ WhereIs(stm, "similar")
       /\ similar.left # <<>> => IsColumn(stm, similar.left[1])
       /\ \A i \in DOMAIN scores : ~InTable(stm.table, scores[i].alias)

(* A side of ON that is not of the table of FROM is of the other table.     *)
JoinAccepted(stm) ==
  LET on == stm.join[1]
      table(name) == IF name[1] = stm.table THEN stm.table ELSE on.table
  IN /\ TableExists(on.table)
     /\ on.left[1] \in {stm.table, on.table} /\ on.right[1] \in {stm.table, on.table}
     /\ InTable(table(on.left), on.left[2]) /\ InTable(table(on.right), on.right[2])
     /\ Types[<<table(on.left), on.left[2]>>] = Types[<<table(on.right), on.right[2]>>]

ItemAccepted(stm, item) ==
  CASE item = Star \/ item.f \in {"SCORE", "SIMILARITY_SCORE"} -> TRUE
    [] item.column = Star.column -> item.f = "COUNT"
    [] OTHER -> IsColumn(stm, item.column) /\ (item.f \in {"SUM", "AVG"} => TypeOf(stm, item.column) \in Numeric)

(* A column and a column of its type, or a literal that it may hold; a      *)
(* geometry is no value here.                                               *)
Comparable(stm, cond) ==
  /\ IsColumn(stm, cond.left)
  /\ IF cond.right.kind = "id"
       THEN IsColumn(stm, cond.right.value) /\ TypeOf(stm, cond.right.value) = TypeOf(stm, cond.left)
       ELSE /\ cond.right.kind \in {"num", "string", "null"}
            /\ Fits(cond.right, TypeOf(stm, cond.left), Owned(stm, cond.left) \notin Required)
  /\ cond.op # "=" => TypeOf(stm, cond.left) \in Orderable

IsSpatial(stm, name) == IsColumn(stm, name) /\ TypeOf(stm, name) \in Spatial

DistanceAccepted(stm, distance) ==
  /\ distance.metric \in {"EUCLIDEAN", "HAVERSINE"} /\ IsSpatial(stm, distance.geometry)
  /\ \/ distance.point.kind = "point" /\ IsGeometry(distance.point)
     \/ distance.point.kind = "id" /\ IsColumn(stm, distance.point.value) /\ TypeOf(stm, distance.point.value) \in {"POINT", "GEOMETRY"}

SpatialAccepted(stm, cond) ==
  IF cond.node = "within"
    THEN IsSpatial(stm, cond.left) /\ Len(cond.right.value) >= 3 /\ \A i \in DOMAIN cond.right.value : OnEarth(cond.right.value[i])
    ELSE /\ DistanceAccepted(stm, cond.left)
         /\ \/ cond.right.kind = "num"
            \/ cond.right.kind = "id" /\ IsColumn(stm, cond.right.value) /\ TypeOf(stm, cond.right.value) \in Numeric

ScoreAliases(stm) ==
  {<<"", item.alias>> : item \in {i \in ToSet(stm.items) : i.f \in {"SCORE", "SIMILARITY_SCORE"}}}

SelectAccepted(stm) ==
  /\ TableExists(stm.table)
  /\ stm.limit # <<>> => stm.limit[1] > 0
  /\ stm.join # <<>> => JoinAccepted(stm)
  /\ TextSearchAccepted(stm) /\ VectorSearchAccepted(stm)
  /\ \A i \in DOMAIN stm.items : ItemAccepted(stm, stm.items[i])
  /\ WhereIs(stm, "binary") => Comparable(stm, stm.where[1])
  /\ WhereIs(stm, "within") \/ WhereIs(stm, "distance") => SpatialAccepted(stm, stm.where[1])
  /\ \A i \in DOMAIN stm.order :
       IF IsDistance(stm.order[i]) THEN DistanceAccepted(stm, stm.order[i].distance[1])
       ELSE stm.order[i].column \in ScoreAliases(stm) \/ IsColumn(stm, stm.order[i].column)
  /\ \A i \in DOMAIN stm.group : IsColumn(stm, stm.group[i])

-----------------------------------------------------------------------------
(* The statements that write.                                               *)

Single(table) == [table |-> table, join |-> <<>>]

Nullable(t, c) == <<t, c>> \notin Required

(* The columns of the values; all of them when none is named.               *)
Targets(stm) == IF stm.columns = <<>> THEN Columns[stm.table] ELSE stm.columns

InsertAccepted(stm) ==
  /\ TableExists(stm.table)
  /\ IsInjective(stm.columns) /\ \A i \in DOMAIN stm.columns : InTable(stm.table, stm.columns[i])
  /\ \A c \in ToSet(Columns[stm.table]) \ ToSet(Targets(stm)) : Nullable(stm.table, c)
  /\ \A r \in DOMAIN stm.rows :
       LET values == stm.rows[r].values
       IN /\ Len(values) = Len(Targets(stm))
          /\ \A i \in DOMAIN values :
               LET c == Targets(stm)[i]
               IN IsLiteral(values[i]) /\ Fits(values[i], Types[<<stm.table, c>>], Nullable(stm.table, c))

(* The record of a row of values, and NULL for what is not named.           *)
Stored(stm, values) ==
  [i \in DOMAIN Columns[stm.table] |->
     LET at == SelectInSeq(Targets(stm), LAMBDA c : c = Columns[stm.table][i])
     IN IF at = 0 THEN NoValue ELSE Literal(values[at])]

(* visit_binary_exp: the other conditions are for SELECT only, and so is a  *)
(* name with its table.                                                     *)
ConditionAccepted(table, cond) ==
  /\ cond.node = "binary" /\ cond.left[1] = "" /\ (cond.right.kind = "id" => cond.right.value[1] = "")
  /\ cond.right.kind # "id" => IsLiteral(cond.right)
  /\ IsColumn(Single(table), cond.left)
  /\ IF cond.right.kind = "id"
       THEN IsColumn(Single(table), cond.right.value) /\ TypeOf(Single(table), cond.right.value) = TypeOf(Single(table), cond.left)
       ELSE Fits(cond.right, TypeOf(Single(table), cond.left), Nullable(table, cond.left[2]))
  /\ cond.op # "=" => TypeOf(Single(table), cond.left) \in Orderable

DeleteAccepted(stm) ==
  TableExists(stm.table) /\ \A i \in DOMAIN stm.where : ConditionAccepted(stm.table, stm.where[i])

UpdateAccepted(stm) ==
  /\ InTable(stm.table, stm.column) /\ IsLiteral(stm.value)
  /\ Fits(stm.value, Types[<<stm.table, stm.column>>], Nullable(stm.table, stm.column))
  /\ ConditionAccepted(stm.table, stm.where[1])

-----------------------------------------------------------------------------
(* The statements that define.                                              *)

TableAccepted(stm) ==
  LET names == [i \in DOMAIN stm.columns |-> stm.columns[i].name]
      sized(c) == IF c.size = <<>> THEN c.type \notin {"CHAR", "VARCHAR"} ELSE c.size[1] > 0
  IN /\ ~TableExists(stm.table)
     /\ IsInjective(names) /\ Cardinality({i \in DOMAIN stm.columns : stm.columns[i].key}) <= 1
     /\ \A i \in DOMAIN stm.columns : sized(stm.columns[i])

IndexAccepted(stm) ==
  /\ InTable(stm.table, stm.column)
  /\ stm.type = "RTREE" => Types[<<stm.table, stm.column>>] \in Spatial
  /\ stm.type \in {"GIN", "SPIMI"} => Types[<<stm.table, stm.column>>] \in Strings

Accepted(stm) ==
  CASE stm.node = "select" -> SelectAccepted(stm)
    [] stm.node = "explain" -> SelectAccepted(stm.inner)
    [] stm.node = "insert" -> InsertAccepted(stm)
    [] stm.node = "delete" -> DeleteAccepted(stm)
    [] stm.node = "update" -> UpdateAccepted(stm)
    [] stm.node = "create table" -> TableAccepted(stm)
    [] stm.node = "create index" -> IndexAccepted(stm)
    [] stm.node = "drop table" -> TableExists(stm.table)
    [] stm.node = "drop index" -> stm.ifExists \/ stm.index \in Indexes
    [] OTHER -> TRUE

(* A column compared with itself is always equal.                  *)
Simplified(stm) ==
  IF /\ stm.node \in {"select", "delete"} /\ WhereIs(stm, "binary")
     /\ stm.where[1].right.kind = "id" /\ stm.where[1].right.value = stm.where[1].left /\ stm.where[1].op \in {"=", "<=", ">="}
    THEN [stm EXCEPT !.where = <<>>] ELSE stm

Rewritten(stm) ==
  IF stm.node = "explain" THEN [stm EXCEPT !.inner = Simplified(@)] ELSE Simplified(stm)
=============================================================================
