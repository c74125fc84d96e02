------------------------------ MODULE Queries ------------------------------
(***************************************************************************)
(* A statement from its words to its answer: the parser, the checks, the   *)
(* plan that build_select_plan (src/src/query/planner/plan_builder.py)      *)
(* chooses for a SELECT, operator by operator from the tables up, and the   *)
(* rows of an INSERT.  An operator is one step.                             *)
(*                                                                          *)
(* The metric of space is EUCLIDEAN, on whole coordinates.  A text is a     *)
(* number, with terms; the score of a row is 1, or 0 without a term of the  *)
(* query.  How far an object is from another one is the difference of their *)
(* numbers, and its similarity the negative of that.                        *)
(***************************************************************************)
EXTENDS Executors, Visitor, Geometry

CONSTANTS Requests,       \* what is written, what it says and the rows of the tables: [written, asked, verdict, rows]
          Indexed,        \* columns <<table, name>> with a B+ tree or a hash index
          TextIndexed,    \* those with a GIN or SPIMI index
          SpatialIndexed, \* those with an R-tree
          Terms,          \* the terms of each datum of a text column
          FirstRadius,    \* of the search for the nearest rows
          MaxRadius       \* the diagonal of the world

VARIABLES request,  \* what was asked
          stm,      \* the statement, when it is parsed
          stage,    \* what is next
          schema,   \* the columns of the rows
          input,    \* what the last operator took
          stream    \* what it gave

vars == <<request, stm, stage, schema, input, stream>>

NoStatement == [node |-> "none"]

Init ==
  /\ \E r \in DOMAIN Requests : \E rows \in Requests[r].tables :
       request = [written |-> Requests[r].written, asked |-> Requests[r].asked, verdict |-> Requests[r].verdict, rows |-> rows]
  /\ stm = NoStatement /\ stage = "parse" /\ schema = <<>> /\ input = <<>> /\ stream = <<>>

-----------------------------------------------------------------------------
(* The front end.                                                           *)

Goes(out, next) ==
  /\ stream' = out /\ stage' = next
  /\ UNCHANGED <<request, schema, input>>

Reads(found) ==
  /\ stm' = IF found = <<>> THEN NoStatement ELSE found[1]
  /\ IF found = <<>> THEN Goes(<<Raised>>, "done") ELSE Goes(<<>>, "check")

Parse == stage = "parse" /\ Reads(StatementOf(request.written))

(* The plan of an EXPLAIN is shown; that of EXPLAIN ANALYZE is run.         *)
Check ==
  LET next == Rewritten(stm)
  IN /\ stage = "check"
     /\ stm' = IF stm.node = "explain" THEN next.inner ELSE next
     /\ IF ~Accepted(stm) THEN Goes(<<Raised>>, "done")
        ELSE Goes(<<>>, CASE stm.node = "select" -> "source"
                          [] stm.node = "explain" -> IF stm.analyze THEN "source" ELSE "shown"
                          [] stm.node = "insert" -> "values"
                          [] OTHER -> "done")

Insertion ==
  /\ stage = "values" /\ UNCHANGED stm
  /\ Goes([r \in DOMAIN stm.rows |-> Stored(stm, stm.rows[r].values)], "done")

-----------------------------------------------------------------------------
(* Names.                                                                   *)

Unknown == 0

Position(cols, name) == SelectInSeq(cols, LAMBDA c : c = name)

(* _resolve_column_name, as a position: the name itself, or without its     *)
(* table, or the one column of that name.                                   *)
Resolve(cols, name) ==
  LET same == {i \in DOMAIN cols : cols[i][2] = name[2]}
  IN IF Position(cols, name) # 0 THEN Position(cols, name)
     ELSE IF name[1] # "" /\ Position(cols, <<"", name[2]>>) # 0 THEN Position(cols, <<"", name[2]>>)
     ELSE IF name[1] = "" /\ Cardinality(same) = 1 THEN CHOOSE i \in same : TRUE
     ELSE Unknown

ResolveAll(cols, names) == [i \in DOMAIN names |-> Resolve(cols, names[i])]

Plain(table) == [i \in DOMAIN Columns[table] |-> <<"", Columns[table][i]>>]

(* _join_schema                                                             *)
JoinSchema(s) ==
  LET qualified(t) == [i \in DOMAIN Columns[t] |-> <<t, Columns[t][i]>>]
  IN qualified(s.table) \o qualified(s.join[1].table)

-----------------------------------------------------------------------------
(* Space.                                                                   *)

Distance2(p, q) == (p[1] - q[1]) * (p[1] - q[1]) + (p[2] - q[2]) * (p[2] - q[2])

(* The square of the distance in a row, or Null.                            *)
Far(distance, row, cols) ==
  LET at == row[Resolve(cols, distance.geometry)]
      to == IF distance.point.kind = "id" THEN row[Resolve(cols, distance.point.value)] ELSE distance.point
  IN IF Null \in {at, to} THEN Null ELSE Distance2(Center(at), Center(to))

(* SpatialFilter._matches                                                   *)
Ring(polygon) == IF Head(polygon) = Last(polygon) THEN polygon ELSE Append(polygon, Head(polygon))

InSpace(cond, row, cols) ==
  IF cond.node = "within"
    THEN LET at == row[Resolve(cols, cond.left)] IN at # Null /\ PointInPolygon(Center(at), Ring(cond.right.value))
    ELSE LET far == Far(cond.left, row, cols)
             bound == IF cond.right.kind = "id" THEN row[Resolve(cols, cond.right.value)] ELSE cond.right.value
         IN /\ Null \notin {far, bound}
            /\ IF bound < 0 THEN Compare(cond.op, 0, bound) ELSE Compare(cond.op, far, bound * bound)

WorldBox == Box(-World[1], -World[2], World[1], World[2])

(* distance_bounding_boxes                                                  *)
Circle(center, radius) ==
  IF radius < 0 THEN WorldBox
  ELSE Box(Greatest(-World[1], center[1] - radius), Greatest(-World[2], center[2] - radius),
           Least(World[1], center[1] + radius), Least(World[2], center[2] + radius))

Candidates(cond) ==
  IF cond.node = "within" THEN BoundingBox(cond.right.value)
  ELSE IF cond.op \in {"<", "<=", "="} /\ cond.left.point.kind = "point" /\ cond.right.kind = "num"
    THEN Circle(cond.left.point.value, cond.right.value)
  ELSE WorldBox

(* What an R-tree finds: the least corner of a geometry must be in the box. *)
InIndex(box, geometry) ==
  geometry # Null /\ BoxContains(box, <<geometry.value[1], geometry.value[2]>>)

WithSpatialIndex(column) == <<stm.table, column[2]>> \in SpatialIndexed

-----------------------------------------------------------------------------
(* The source of the rows.                                                  *)

Takes(in, out, cols, next) ==
  /\ input' = in /\ stream' = out /\ schema' = cols
  /\ stage' = IF Fails(out) /\ Len(out) = 1 THEN "done" ELSE next
  /\ UNCHANGED <<request, stm>>

Matching == IF WhereIs(stm, "match") THEN stm.where ELSE <<>>
Scoring == Items(stm, "SCORE")
Searching == Matching # <<>> \/ Scoring # <<>>
InSpaceOnly == WhereIs(stm, "within") \/ WhereIs(stm, "distance")

Scan(table) == request.rows[table]

(* The columns that ON compares.  A side that is not of its table is looked *)
(* up in the other table, but stays where it stands: it may be beyond the   *)
(* rows.                                                                    *)
JoinColumns ==
  LET on == stm.join[1]
      left == IF on.left[1] = stm.table THEN stm.table ELSE on.table
      right == IF on.right[1] = on.table THEN on.table ELSE stm.table
  IN <<Position(Plain(left), <<"", on.left[2]>>), Position(Plain(right), <<"", on.right[2]>>)>>

Join ==
  LET left == Scan(stm.table)
      right == Scan(stm.join[1].table)
      beyond(s, c) == s # <<>> /\ c > Len(s[1])
  IN /\ stage = "source" /\ stm.join # <<>>
     /\ Takes(<<>>,
              IF stm.join[1].table = stm.table \/ beyond(left, JoinColumns[1]) \/ beyond(right, JoinColumns[2])
                THEN <<Raised>>
                ELSE HashJoin(left, right, JoinColumns[1], JoinColumns[2]), JoinSchema(stm), "where")

(* _equality_index: of the column as it is written, and a literal.          *)
ByIndex ==
  /\ WhereIs(stm, "binary") /\ stm.where[1].op = "=" /\ stm.where[1].right.kind # "id"
  /\ stm.where[1].left[1] = "" /\ <<stm.table, stm.where[1].left[2]>> \in Indexed

(* _text_index_scan: MATCH, or else SCORE, of a column with an index, and   *)
(* no two different searches.                                               *)
ByTextIndex ==
  LET column == IF Matching # <<>> THEN Matching[1].left ELSE Scoring[1].column
  IN /\ Searching
     /\ (Matching # <<>> /\ Scoring # <<>>) =>
          Matching[1].left[2] = Scoring[1].column[2] /\ Matching[1].right = Scoring[1].query
     /\ <<stm.table, column[2]>> \in TextIndexed

(* The first distance of ORDER BY, when nothing of space is in WHERE.       *)
DistanceOrder ==
  LET of == SelectSeq(stm.order, LAMBDA item : IsDistance(item))
  IN IF InSpaceOnly \/ stm.join # <<>> \/ of = <<>> THEN <<>> ELSE of[1].distance

BySpatialIndex ==
  IF InSpaceOnly THEN WithSpatialIndex(IF WhereIs(stm, "within") THEN stm.where[1].left ELSE stm.where[1].left.geometry)
  ELSE DistanceOrder # <<>> /\ WithSpatialIndex(DistanceOrder[1].geometry)

(* The rows of an index come in an order of its own.                        *)
IndexScan ==
  LET c == Resolve(Plain(stm.table), stm.where[1].left)
      found == SelectSeq(Scan(stm.table), LAMBDA row : row[c] = stm.where[1].right.value)
  IN /\ stage = "source" /\ stm.join = <<>> /\ ByIndex /\ ~ByTextIndex /\ DistanceOrder = <<>>
     /\ \E out \in SetToSeqs(ToSet(found)) : Takes(<<>>, out, Plain(stm.table), "search")

(* The rows of the boxes, or all of them for ORDER BY: of the R-tree, and   *)
(* those without a geometry.                                                *)
SpatialIndexScan ==
  LET cols == Plain(stm.table)
      geometry(row) == IF WhereIs(stm, "within") THEN row[Resolve(cols, stm.where[1].left)]
                       ELSE IF InSpaceOnly THEN row[Resolve(cols, stm.where[1].left.geometry)]
                       ELSE row[Resolve(cols, DistanceOrder[1].geometry)]
      found == {row \in ToSet(Scan(stm.table)) :
                  IF InSpaceOnly THEN InIndex(Candidates(stm.where[1]), geometry(row))
                  ELSE geometry(row) = Null \/ InIndex(WorldBox, geometry(row))}
  IN /\ stage = "source" /\ stm.join = <<>> /\ BySpatialIndex
     /\ \E out \in SetToSeqs(found) : Takes(<<>>, out, cols, "where")

SeqScan ==
  /\ stage = "source" /\ stm.join = <<>> /\ ~ByTextIndex /\ ~BySpatialIndex /\ (ByIndex => DistanceOrder # <<>>)
  /\ Takes(<<>>, Scan(stm.table), Plain(stm.table), "where")

HasTerm(row, cols, column, query) ==
  LET d == row[Resolve(cols, column)]
  IN d # Null /\ \E t \in query : t \in Terms[d]

WithScore(s, cols, scores) ==
  IF scores = <<>> THEN s
  ELSE [i \in DOMAIN s |-> Append(s[i], IF HasTerm(s[i], cols, scores[1].column, scores[1].query) THEN 1 ELSE 0)]

ScoreSchema(cols, scores) == IF scores = <<>> THEN cols ELSE Append(cols, <<"", scores[1].alias>>)

(* The documents that match as they are ranked, or every row with its       *)
(* score.  Another WHERE is not looked at.                                  *)
TextIndexScan ==
  LET cols == Plain(stm.table)
      found == SelectSeq(Scan(stm.table), LAMBDA row : HasTerm(row, cols, Matching[1].left, Matching[1].right))
  IN /\ stage = "source" /\ stm.join = <<>> /\ ByTextIndex
     /\ \/ /\ Matching # <<>>
           /\ \E out \in SetToSeqs(ToSet(found)) :
                Takes(<<>>, WithScore(out, cols, Scoring), ScoreSchema(cols, Scoring), "group")
        \/ /\ Matching = <<>>
           /\ Takes(<<>>, WithScore(Scan(stm.table), cols, Scoring), ScoreSchema(cols, Scoring), "group")

-----------------------------------------------------------------------------
(* The operators above it.                                                  *)

(* Filter, or SpatialFilter; a MATCH or a SIMILAR_TO comes later.  NULL     *)
(* cannot be written on the right, and with SCORE a WHERE is a comparison.  *)
Where ==
  LET cond == stm.where[1]
      right(row) == CASE cond.right.kind = "id" -> row[Resolve(schema, cond.right.value)]
                      [] cond.right.kind = "null" -> Raised
                      [] OTHER -> cond.right.value
  IN /\ stage = "where"
     /\ Takes(stream,
              CASE stm.where = <<>> \/ WhereIs(stm, "match") -> stream
                [] WhereIs(stm, "binary") -> Filter(stream, LAMBDA row : row[Resolve(schema, cond.left)], cond.op, right)
                [] Scoring # <<>> -> <<Raised>>
                [] InSpaceOnly -> SelectSeq(stream, LAMBDA row : row # Raised /\ InSpace(cond, row, schema))
                [] OTHER -> stream,
              schema, "search")

(* TextSearch: the transient index is of the rows that come up.             *)
TextSearch ==
  LET kept == IF Matching = <<>> THEN stream
              ELSE SelectSeq(stream, LAMBDA row : HasTerm(row, schema, Matching[1].left, Matching[1].right))
  IN /\ stage = "search"
     /\ Takes(stream, IF ~Searching THEN stream
                      ELSE IF Fails(stream) THEN <<Raised>> ELSE WithScore(kept, schema, Scoring),
              ScoreSchema(schema, Scoring), "similar")

(* VectorSearch without an index: the k nearest to what is asked for of the *)
(* column that is named, or of the first text, or of the first column.      *)
Alike(row, at, target) == IF row[at] > target THEN target - row[at] ELSE row[at] - target

VectorSearch ==
  LET cond == stm.where[1]
      texts == {i \in DOMAIN schema : Types[<<stm.table, schema[i][2]>>] \in Strings}
      at == IF cond.left # <<>> THEN Resolve(schema, <<"", cond.left[1][2]>>)
            ELSE IF texts # {} THEN Min(texts) ELSE 1
      media == SelectSeq(stream, LAMBDA row : row[at] # Null)
      nearest == Limit(SortSeq(media, LAMBDA p, q : Alike(p, at, cond.right) > Alike(q, at, cond.right)), cond.k)
      scores == Items(stm, "SIMILARITY_SCORE")
      scored == IF scores = <<>> THEN nearest
                ELSE [i \in DOMAIN nearest |-> Append(nearest[i], Alike(nearest[i], at, cond.right))]
  IN /\ stage = "similar"
     /\ Takes(stream, IF WhereIs(stm, "similar") THEN scored ELSE stream, ScoreSchema(schema, scores), "group")

GroupColumns == ResolveAll(schema, stm.group)

PhysicalItems ==
  [i \in DOMAIN stm.items |->
     [f |-> stm.items[i].f,
      column |-> IF stm.items[i].column = Star.column THEN 0 ELSE Resolve(schema, stm.items[i].column)]]

(* _aggregate_schema: two columns of one name raise.                        *)
ItemName(item) == IF item.f = "" THEN schema[Resolve(schema, item.column)] ELSE <<item.f, item.column[2]>>

Group ==
  LET by == [i \in DOMAIN GroupColumns |-> By(GroupColumns[i], FALSE)]
      named == [i \in DOMAIN stm.items |-> ItemName(stm.items[i])]
      fails == Fails(stream) /\ (Aggregates(stm) \/ stm.group # <<>>)
  IN /\ stage = "group"
     /\ Takes(stream,
              IF fails \/ (Aggregates(stm) /\ ~IsInjective(named)) THEN <<Raised>>
              ELSE IF Aggregates(stm) THEN HashAggregate(stream, GroupColumns, PhysicalItems)
              ELSE IF stm.group # <<>> THEN GroupAggregate(Sorted(stream, by), GroupColumns)
              ELSE stream,
              IF Aggregates(stm) THEN named ELSE schema, "order")

OrderBy == [i \in DOMAIN stm.order |-> By(Resolve(schema, stm.order[i].column), stm.order[i].descending)]

(* KNNScan: a row without a distance is last, and nothing is descending.    *)
Closer(p, q, items, cols) ==
  LET of(row, i) == IF IsDistance(items[i]) THEN Far(items[i].distance[1], row, cols) ELSE row[Resolve(cols, items[i].column)]
      less(x, y, i) == IF IsDistance(items[i]) /\ Null \in {x, y} THEN y = Null /\ x # Null ELSE LessThan(x, y)
  IN \E i \in DOMAIN items :
       less(of(p, i), of(q, i), i) /\ \A j \in 1 .. i - 1 : of(p, j) = of(q, j)

(* _can_use_index_for_top_k                                                 *)
TopByIndex ==
  /\ BySpatialIndex /\ stm.where = <<>> /\ stm.group = <<>> /\ ~Aggregates(stm) /\ stm.limit # <<>>
  /\ IsDistance(stm.order[1]) /\ stm.order[1].distance[1].point.kind = "point"

(* _open_index_top_k: the radius is doubled until the limit is reached, or  *)
(* the whole world, with the rows without a geometry.                       *)
NearestRows ==
  LET distance == stm.order[1].distance[1]
      far(row) == Far(distance, row, schema)
      near(r) == {row \in ToSet(Scan(stm.table)) :
                    /\ InIndex(Circle(distance.point.value, r), row[Resolve(schema, distance.geometry)])
                    /\ far(row) <= r * r}
      radii == {FirstRadius * 2 ^ i : i \in 0 .. MaxRadius} \cap 1 .. MaxRadius - 1
      enough == {r \in radii : Cardinality(near(r)) >= stm.limit[1]}
  IN IF enough # {} THEN near(Min(enough))
     ELSE near(MaxRadius) \union {row \in ToSet(Scan(stm.table)) : far(row) = Null}

Sort ==
  /\ stage = "order" /\ ~ByDistance(stm)
  /\ Takes(stream, IF stm.order = <<>> THEN stream
                   ELSE IF Fails(stream) \/ \E i \in DOMAIN OrderBy : OrderBy[i].column = Unknown THEN <<Raised>>
                   ELSE Sorted(stream, OrderBy), schema, "limit")

KNNScan ==
  LET rows == IF TopByIndex THEN NearestRows ELSE ToSet(stream)
  IN /\ stage = "order" /\ ByDistance(stm)
     /\ IF Fails(stream) THEN Takes(stream, <<Raised>>, schema, "limit")
        ELSE \E out \in SetToSeqs(rows) :
               /\ \A i \in 1 .. Len(out) - 1 : ~Closer(out[i + 1], out[i], stm.order, schema)
               /\ Takes(stream, out, schema, "limit")

Cut ==
  /\ stage = "limit"
  /\ Takes(stream, IF stm.limit = <<>> THEN stream ELSE Limit(stream, stm.limit[1]), schema, "project")

Project ==
  LET columns == [i \in DOMAIN stm.items |->
                    LET item == stm.items[i]
                    IN CASE item.f \in {"SCORE", "SIMILARITY_SCORE"} -> Position(schema, <<"", item.alias>>)
                         [] item.f # "" -> Position(schema, <<item.f, item.column[2]>>)
                         [] OTHER -> Resolve(schema, item.column)]
  IN /\ stage = "project"
     /\ Takes(stream, IF Star \in ToSet(stm.items) THEN stream ELSE Projection(stream, columns), schema, "done")

Done == stage \in {"done", "shown"} /\ UNCHANGED vars

Next ==
  \/ Parse \/ Check \/ Insertion
  \/ Join \/ IndexScan \/ SpatialIndexScan \/ SeqScan \/ TextIndexScan
  \/ Where \/ TextSearch \/ VectorSearch \/ Group \/ Sort \/ KNNScan \/ Cut \/ Project
  \/ Done

Spec == Init /\ [][Next]_vars

-----------------------------------------------------------------------------
(* What a statement asks for.                                               *)

Asked == IF request.asked.node = "explain" THEN request.asked.inner ELSE request.asked

WithScores(s, aliases) ==
  s \o [i \in DOMAIN aliases |-> <<"", aliases[i].alias>>]

ScoreItems == Items(Asked, "SCORE") \o Items(Asked, "SIMILARITY_SCORE")

AskedColumns ==
  IF Asked.join = <<>> THEN WithScores(Plain(Asked.table), ScoreItems) ELSE JoinSchema(Asked)

Named(name) ==
  LET exact == {i \in DOMAIN AskedColumns : AskedColumns[i] = name}
      same == {i \in DOMAIN AskedColumns :
                 AskedColumns[i][2] = name[2] /\ (name[1] = "" \/ AskedColumns[i][1] \in {"", name[1]})}
  IN IF exact # {} THEN exact ELSE same

ColumnOf(name) == CHOOSE i \in Named(name) : TRUE

AskedIs(node) == Asked.where # <<>> /\ Asked.where[1].node = node

SearchedColumn ==
  LET texts == {i \in DOMAIN Columns[Asked.table] : Types[<<Asked.table, Columns[Asked.table][i]>>] \in Strings}
  IN IF Asked.where[1].left # <<>> THEN ColumnOf(<<"", Asked.where[1].left[1][2]>>) ELSE IF texts # {} THEN Min(texts) ELSE 1

Likeness(row) == -Greatest(row[SearchedColumn] - Asked.where[1].right, Asked.where[1].right - row[SearchedColumn])

(* A row of the table with its scores.                                      *)
Scored(row) ==
  row \o [i \in DOMAIN ScoreItems |->
            IF ScoreItems[i].f = "SCORE"
              THEN IF HasTerm(row, AskedColumns, ScoreItems[i].column, ScoreItems[i].query) THEN 1 ELSE 0
            ELSE Likeness(row)]

Combined ==
  LET on == Asked.join[1]
  IN IF Asked.join # <<>>
       THEN {row \in {l \o r : l \in ToSet(Scan(Asked.table)), r \in ToSet(Scan(on.table))} :
               row[ColumnOf(on.left)] = row[ColumnOf(on.right)]}
     ELSE IF AskedIs("similar") THEN {Scored(row) : row \in {q \in ToSet(Scan(Asked.table)) : q[SearchedColumn] # Null}}
     ELSE {Scored(row) : row \in ToSet(Scan(Asked.table))}

(* The rows of the tables that satisfy ON and WHERE.                        *)
Operands(row) ==
  LET cond == Asked.where[1]
  IN <<row[ColumnOf(cond.left)], IF cond.right.kind = "id" THEN row[ColumnOf(cond.right.value)] ELSE cond.right.value>>

Itself == Asked.where[1].right.kind = "id" /\ Asked.where[1].left = Asked.where[1].right.value

Unordered(row) == AskedIs("binary") /\ Ordering(Asked.where[1].op) /\ Null \in ToSet(Operands(row))

Satisfies(row) ==
  LET cond == Asked.where[1]
  IN CASE AskedIs("binary") -> \/ Itself /\ cond.op \in {"=", "<=", ">="}
                               \/ ~Unordered(row) /\ Compare(cond.op, Operands(row)[1], Operands(row)[2])
       [] AskedIs("match") -> HasTerm(row, AskedColumns, cond.left, cond.right)
       [] AskedIs("within") \/ AskedIs("distance") -> InSpace(cond, row, AskedColumns)
       [] OTHER -> TRUE

Satisfying == {row \in Combined : Satisfies(row)}

(* Of equally near rows any is right.                                       *)
Likest(from) ==
  {rows \in SUBSET from :
     /\ Cardinality(rows) = Least(Asked.where[1].k, Cardinality(from))
     /\ \A in \in rows, out \in from \ rows : Likeness(in) >= Likeness(out)}

Selections == IF AskedIs("similar") THEN Likest(Satisfying) ELSE {Satisfying}

(* A row of an answer comes from one row, or from a group of rows.          *)
UnitsOf(rows) ==
  LET key(row) == [i \in DOMAIN Asked.group |-> row[ColumnOf(Asked.group[i])]]
  IN IF Asked.group # <<>> THEN {{q \in rows : key(q) = key(row)} : row \in rows}
     ELSE IF Aggregates(Asked) THEN {rows}
     ELSE {{row} : row \in rows}

ValuesOf(item, unit) ==
  LET at == ColumnOf(IF item.f \in {"SCORE", "SIMILARITY_SCORE"} THEN <<"", item.alias>> ELSE item.column)
      data == {row \in unit : row[at] # Null}
  IN CASE item.f = "COUNT" -> {Cardinality(unit)}
       [] item.f \in {"", "SCORE", "SIMILARITY_SCORE"} -> {row[at] : row \in unit}
       [] item.f = "SUM" -> {MapThenSumSet(LAMBDA row : row[at], data)}
       [] data = {} -> {Null}
       [] item.f = "AVG" -> {MapThenSumSet(LAMBDA row : row[at], data) \div Cardinality(data)}
       [] item.f = "MIN" -> {Min({row[at] : row \in data})}
       [] item.f = "MAX" -> {Max({row[at] : row \in data})}

Shows(row, unit) ==
  IF Star \in ToSet(Asked.items) THEN row \in unit
  ELSE \A i \in DOMAIN Asked.items : row[i] \in ValuesOf(Asked.items[i], unit)

InOrder(units) ==
  LET one(unit) == CHOOSE row \in unit : TRUE
      by == [i \in DOMAIN Asked.order |-> By(ColumnOf(Asked.order[i].column), Asked.order[i].descending)]
  IN \A i, j \in DOMAIN units : i < j =>
       IF ByDistance(Asked) THEN ~Closer(one(units[j]), one(units[i]), Asked.order, AskedColumns)
       ELSE ~Before(one(units[j]), one(units[i]), by)

Answers(out) ==
  \E rows \in Selections :
    LET count == Cardinality(UnitsOf(rows))
    IN /\ Len(out) = IF Asked.limit = <<>> THEN count ELSE Least(count, Asked.limit[1])
       /\ \E units \in SetToSeqs(UnitsOf(rows)) :
            (\A i \in DOMAIN out : Shows(out[i], units[i])) /\ InOrder(units)

(* What is accepted and cannot be done: an order with NULL, or NULL on the  *)
(* right; ORDER BY a column that aggregates do not show; a join of a table  *)
(* with itself.                                                             *)
MayFail ==
  \/ \E row \in Combined : Unordered(row)
  \/ AskedIs("binary") /\ Asked.where[1].right.kind = "null"
  \/ Aggregates(Asked) /\ \E i \in DOMAIN Asked.order : \A j \in DOMAIN Asked.items :
       Asked.items[j].f # "" \/ Asked.items[j].column # Asked.order[i].column
  \/ Asked.join # <<>> /\ Asked.join[1].table = Asked.table

(* What the code does otherwise: an ON that names the joined table first, a *)
(* SCORE with a WHERE and an index, aggregates of more rows than the memory *)
(* holds, without GROUP BY, the order of distances that descend, and        *)
(* rectangles and polygons in an R-tree.                                    *)
Regular ==
  LET points == \A row \in ToSet(Scan(Asked.table)) : \A i \in DOMAIN row :
                  (Types[<<Asked.table, Columns[Asked.table][i]>>] \in Spatial /\ row[i] # Null) => row[i].kind = "point"
  IN /\ Asked.join # <<>> => Asked.join[1].left[1] = Asked.table
     /\ (Items(Asked, "SCORE") # <<>> /\ Asked.where # <<>>) => AskedIs("match")
     /\ (Aggregates(Asked) /\ Asked.group = <<>>) => Cardinality(Satisfying) <= MemoryRecords
     /\ ByDistance(Asked) => \A i \in DOMAIN Asked.order : ~Asked.order[i].descending
     /\ points

(* The rows of an INSERT: each value in the column it is written for, as it *)
(* is written, and NULL where nothing is, which a required column never is. *)
Inserts(out) ==
  LET columns == Columns[Asked.table]
      targets == IF Asked.columns = <<>> THEN columns ELSE Asked.columns
      same(datum, exp) == IF exp.kind = "centroid" THEN datum.kind = "point" /\ datum.value = Center(exp.value)
                          ELSE datum = IF exp.kind \in {"point", "rectangle", "polygon"} THEN exp ELSE exp.value
      right(row, values) ==
        \A i \in DOMAIN columns :
          \/ \E j \in DOMAIN targets : targets[j] = columns[i] /\ same(row[i], values[j])
          \/ columns[i] \notin ToSet(targets) /\ row[i] = NoValue
  IN /\ Len(out) = Len(Asked.rows)
     /\ \A r \in DOMAIN out :
          /\ Len(out[r]) = Len(columns) /\ right(out[r], Asked.rows[r].values)
          /\ \A i \in DOMAIN columns : <<Asked.table, columns[i]>> \in Required => out[r][i] # NoValue

-----------------------------------------------------------------------------
(* A join through partitions, and partitions of partitions, and chunks of   *)
(* what cannot be parted any more gives every pair of rows with equal keys  *)
(* once, as the nested loop and the merge of sorted rows do                 *)
(* (hash_join.py:35-190, nested_loop_join.py, sort_merge_join.py).          *)
JoinsAgree ==
  LET l == JoinColumns[1]  r == JoinColumns[2]
      left == Scan(stm.table)  right == Scan(stm.join[1].table)
      pairs == {i \o j : <<i, j>> \in {p \in ToSet(left) \X ToSet(right) : p[1][l] = p[2][r]}}
      whole(s) == Len(s) = Cardinality(pairs) /\ ToSet(s) = pairs
      merged == SortMergeJoin(left, right, l, r)
  IN stage = "where" /\ stm.join # <<>> =>
       /\ whole(stream) /\ whole(NestedLoopJoin(left, right, l, r))
       /\ merged = <<Raised>> \/ whole(merged)

(* Runs, passes and the last merge give the rows in order, and rows of one  *)
(* key in the order they came; GROUP BY keeps the first row of each key,    *)
(* and aggregates over a sorted input are those of the partitions           *)
(* (sort.py:52-173, group_aggregate.py, aggregate/sort.py).                 *)
SortsStable ==
  LET stable(by) ==
        /\ Len(stream) = Len(input) /\ ToSet(stream) = ToSet(input)
        /\ \A i, j \in DOMAIN stream : i < j =>
             /\ ~Before(stream[j], stream[i], by)
             /\ Before(stream[i], stream[j], by) \/ Position(input, stream[i]) <= Position(input, stream[j])
      groups == ResolveAll(AskedColumns, stm.group)
      by == [i \in DOMAIN groups |-> By(groups[i], FALSE)]
      first(row) == \A i \in 1 .. Position(input, row) - 1 : Key(input[i], groups) # Key(row, groups)
      items == [i \in DOMAIN stm.items |->
                  [f |-> stm.items[i].f,
                   column |-> IF stm.items[i].column = Star.column THEN 0 ELSE Resolve(AskedColumns, stm.items[i].column)]]
  IN /\ (stage = "limit" /\ stm.order # <<>> /\ ~ByDistance(stm) /\ ~Fails(stream)) => stable(OrderBy)
     /\ (stage = "order" /\ stm.group # <<>> /\ ~Fails(stream)) =>
          IF Aggregates(stm)
            THEN ToSet(stream) = ToSet(SortAggregate(Sorted(input, by), groups, items))
            ELSE /\ ToSet(stream) = {row \in ToSet(input) : first(row)}
                 /\ \A i, j \in DOMAIN stream : i < j => Before(stream[i], stream[j], by)

(* What is written is what is read, however it is written; what breaks the  *)
(* grammar or the schema is refused; and whatever plan is chosen, with an   *)
(* index or without, spilled or not, the answer is what the statement asks  *)
(* for (parser.py, visitor.py, plan_builder.py:46-230).  Answers are        *)
(* compared that have up to four rows before LIMIT.                         *)
AnswersMatch ==
  /\ stage = "check" => request.verdict # "malformed" /\ stm = request.asked
  /\ stage = "done" =>
       CASE request.verdict # "answered" -> Fails(stream)
         [] Asked.node = "insert" -> Inserts(stream)
         [] Asked.node # "select" -> stream = <<>>
         [] ~Regular -> TRUE
         [] Fails(stream) -> MayFail
         [] Cardinality(UnitsOf(Satisfying)) <= 4 -> Answers(stream)
         [] OTHER -> TRUE

(* "source -> Filter -> [TextSearch]" (build_select_plan, plan_builder.py): *)
(* every row of an answer has passed the WHERE.                             *)
WhereKept ==
  (stage = "done" /\ stm.node = "select" /\ ~Fails(stream) /\ Asked.where # <<>> /\ Star \in ToSet(Asked.items)) =>
    \A row \in ToSet(stream) : Satisfies(row)

(* "Emits one representative record for each distinct group key"            *)
(* (hash_aggregate.py:16).                                                  *)
OneRowPerGroup ==
  stage = "order" /\ ~Fails(stream) /\ Aggregates(stm) => Len(stream) = Cardinality(UnitsOf(Satisfying))

(* A join is on the columns that ON names.                                  *)
JoinsOn ==
  stage = "where" /\ stm.join # <<>> /\ ~Fails(stream) => ToSet(stream) = Combined
=============================================================================
