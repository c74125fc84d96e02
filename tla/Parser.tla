------------------------------- MODULE Parser -------------------------------
(***************************************************************************)
(* The scanner and the parser of SQL (src/src/query/parser).                *)
(*                                                                          *)
(* What is written is a sequence of lexemes [kind, text]: words in capitals *)
(* unless they are names, numbers, strings and marks.  A token is [type,    *)
(* text]; punctuation and keywords are named by what is written, and the    *)
(* words that are keywords by their place only (MATCH, AS, DESC, ...) are   *)
(* identifiers.  A rule of the grammar is the node it starts with, whose    *)
(* fields are the defaults, and its steps; a step takes tokens and fills    *)
(* fields.  The parser is greedy: of alternatives it takes the first whose  *)
(* words are ahead, and never comes back.                                   *)
(*                                                                          *)
(* A name is <<table, column>>, <<"", column>> without a table.  What may   *)
(* be missing is a sequence of at most one.                                 *)
(***************************************************************************)
EXTENDS Integers, Sequences, SequencesExt, TLC

CONSTANT NoValue  \* what NULL is

Keywords ==
  {"EXPLAIN", "ANALYZE", "SELECT", "FROM", "JOIN", "WHERE", "DELETE", "UPDATE", "SET", "VALUES", "ON", "USING", "UNIQUE",
   "SMALLINT", "INTEGER", "BIGINT", "NUMERIC", "REAL", "CHAR", "VARCHAR", "TEXT", "BOOLEAN", "DATE", "TIME", "TIMESTAMP",
   "BYTEA", "POINT", "NULL", "DISTANCIA", "DENTRO_DE", "POLYGON", "RECTANGLE", "GEOMETRY",
   "CENTROIDE", "LIMIT", "BTREE", "HASH", "RTREE", "GIN", "SPIMI", "IF", "EXISTS", "HEAP", "SEQUENTIAL", "BM25", "TF_IDF",
   "IVF", "HNSW", "SIMILAR_TO", "SIMILARITY_SCORE", "WITH", "METRIC", "EUCLIDEAN", "DOT_PRODUCT", "COSINE"}

Compound(first, second) ==
  CASE <<first, second>> \in {<<"BEGIN", "TRANSACTION">>, <<"END", "TRANSACTION">>, <<"ORDER", "BY">>, <<"GROUP", "BY">>,
                              <<"INSERT", "INTO">>, <<"CREATE", "TABLE">>, <<"CREATE", "INDEX">>, <<"DROP", "TABLE">>,
                              <<"DROP", "INDEX">>, <<"PRIMARY", "KEY">>, <<"NOT", "NULL">>, <<"DOUBLE", "PRECISION">>} ->
         first \o " " \o second
    [] <<first, second>> = <<"SIMILAR", "TO">> -> "SIMILAR_TO"
    [] <<first, second>> = <<"DOT", "PRODUCT">> -> "DOT_PRODUCT"
    [] OTHER -> ""

Marks == {"*", "(", ")", ",", ".", ";", "=", "!=", "<", "<=", ">", ">="}

(* Scanner.next_token, of all that is written: two words may be one token.  *)
Scanned(lexemes) ==
  LET Joins(i) == IF i \notin 1 .. Len(lexemes) - 1 \/ lexemes[i].kind # "word" \/ lexemes[i + 1].kind # "word" THEN ""
                  ELSE Compound(lexemes[i].text, lexemes[i + 1].text)
      token(i) ==
        LET l == lexemes[i]
            type == CASE l.kind = "number" -> "NUM"
                      [] l.kind = "string" -> "STRING"
                      [] l.kind = "word" -> IF Joins(i) # "" THEN Joins(i) ELSE IF l.text \in Keywords THEN l.text ELSE "ID"
                      [] l.text = "<>" -> "!="
                      [] OTHER -> IF l.text \in Marks THEN l.text ELSE "ERR"
        IN [type |-> type, text |-> IF type \in {"ID", "NUM", "STRING"} THEN l.text ELSE type]
      starts == SelectSeq([i \in DOMAIN lexemes |-> i], LAMBDA i : Joins(i - 1) = "")
  IN [i \in DOMAIN starts |-> token(starts[i])]

-----------------------------------------------------------------------------
(* The grammar.                                                             *)

(* expect, and what becomes of the token or of the node of another rule.    *)
Take(word) == <<[do |-> "take", word |-> word]>>
Text(field, word) == <<[do |-> "text", field |-> field, word |-> word]>>
Put(field, value) == <<[do |-> "put", field |-> field, value |-> value]>>
Rule(field, rule) == <<[do |-> "rule", field |-> field, rule |-> rule]>>
Add(field, rule) == <<[do |-> "add", field |-> field, rule |-> rule]>>
AddText(field, word) == <<[do |-> "more", field |-> field, word |-> word]>>

OneOf(choices) == <<[do |-> "one", choices |-> choices]>>
While(choices) == <<[do |-> "while", choices |-> choices]>>
If(words, steps) == <<words, steps>>
Else(steps) == <<<<>>, steps>>
Opt(words, steps) == OneOf(<<If(words, steps), Else(<<>>)>>)
Positive(field) == <<[do |-> "positive", field |-> field]>>
Bind == <<[do |-> "bind"]>>

(* x { COMA x }                                                             *)
List(steps) == steps \o While(<<If(<<",">>, Take(",") \o steps)>>)

(* The token of one of the words, as it is written.                         *)
AnyOf(field, words) == OneOf([i \in DOMAIN words |-> If(<<words[i]>>, Text(field, words[i]))])

(* A word that is an identifier, or a token of its own.                     *)
Choice(field, words) == OneOf([i \in DOMAIN words |-> If(<<words[i]>>, Take(words[i]) \o Put(field, words[i]))])

-----------------------------------------------------------------------------
(* Names, values and conditions.                                            *)

QualifiedName ==
  [node |-> <<"", "">>,
   steps |-> OneOf(<<If(<<"ID", ".">>, Text(1, "ID") \o Take(".") \o Text(2, "ID")), Else(Text(2, "ID"))>>)]

Point == [node |-> <<0, 0>>, steps |-> Take("POINT") \o Take("(") \o Text(1, "NUM") \o Take(",") \o Text(2, "NUM") \o Take(")")]

Polygon == Put("kind", "polygon") \o Put("value", <<>>) \o Take("POLYGON") \o Take("(") \o List(Add("value", "Point")) \o Take(")")
Rectangle == Put("kind", "rectangle") \o Put("value", <<>>) \o Take("RECTANGLE") \o Take("(") \o List(AddText("value", "NUM")) \o Take(")")

Centroid == Put("kind", "centroid") \o Take("CENTROIDE") \o Take("(") \o Rule("value", "Value") \o Take(")")

Value ==
  [node |-> [kind |-> "null", value |-> NoValue],
   steps |-> OneOf(<<
     If(<<"NUM">>, Put("kind", "num") \o Text("value", "NUM")),
     If(<<"STRING">>, Put("kind", "string") \o Text("value", "STRING")),
     If(<<"POINT">>, Put("kind", "point") \o Rule("value", "Point")),
     If(<<"POLYGON">>, Polygon),
     If(<<"RECTANGLE">>, Rectangle),
     If(<<"NULL">>, Take("NULL")),
     If(<<"CENTROIDE">>, Centroid),
     If(<<"ID">>, Put("kind", "id") \o Rule("value", "QualifiedName"))>>)]

PolygonOnly == [node |-> [kind |-> "polygon", value |-> <<>>], steps |-> Polygon]

Distance ==
  [node |-> [geometry |-> <<"", "">>, point |-> <<>>, metric |-> "HAVERSINE"],
   steps |-> Take("DISTANCIA") \o Take("(") \o Rule("geometry", "QualifiedName") \o Take(",") \o Rule("point", "Value")
             \o Opt(<<",">>, Take(",") \o OneOf(<<If(<<"EUCLIDEAN">>, Text("metric", "EUCLIDEAN")), Else(Text("metric", "ID"))>>))
             \o Take(")")]

Operators == <<"=", "!=", "<", "<=", ">", ">=">>

Search == Text("right", "STRING")

Match ==
  Put("node", "match") \o Put("op", "BM25") \o Take("MATCH") \o Take("(") \o Rule("left", "QualifiedName") \o Take(",")
  \o Search \o Take(")") \o Opt(<<"USING">>, Take("USING") \o AnyOf("op", <<"BM25", "TF_IDF">>))

(* ', k = N', and the index and the metric.                                 *)
Nearest == Text("right", "STRING") \o Take(",") \o Take("k") \o Take("=") \o Text("k", "NUM") \o Positive("k")

Ways ==
  Put("op", "HNSW") \o Put("metric", "COSINE")
  \o Opt(<<"USING">>, Take("USING") \o Choice("op", <<"IVF", "HNSW">>))
  \o Opt(<<"WITH">>, Take("WITH") \o Take("METRIC") \o Take("=")
                     \o Choice("metric", <<"COSINE", "EUCLIDEAN", "DOT_PRODUCT">>))

SimilarTo ==
  Put("node", "similar") \o Put("left", <<>>) \o Take("SIMILAR_TO") \o Take("(")
  \o OneOf(<<If(<<"STRING">>, <<>>), Else(Add("left", "QualifiedName") \o Take(","))>>)
  \o Nearest \o Take(")") \o Ways

(* column SIMILAR_TO 'x', k = N, with or without parentheses.               *)
ColumnSimilarTo ==
  Put("node", "similar") \o Put("left", <<>>) \o Add("left", "QualifiedName") \o Take("SIMILAR_TO")
  \o OneOf(<<If(<<"(">>, Take("(") \o Nearest \o Take(")")), Else(Nearest)>>) \o Ways

Compared == AnyOf("op", Operators) \o Rule("right", "Value")

(* The word after a name, qualified or not, tells what the condition is.    *)
Condition ==
  LET after(word, steps) == <<If(<<"ID", word>>, steps), If(<<"ID", ".", "ID", word>>, steps)>>
  IN [node |-> [node |-> "binary", left |-> <<"", "">>, op |-> "", right |-> <<>>],
      steps |-> OneOf(<<
        If(<<"DENTRO_DE">>, Put("node", "within") \o Take("DENTRO_DE") \o Take("(") \o Rule("left", "QualifiedName")
                            \o Take(",") \o Rule("right", "PolygonOnly") \o Take(")")),
        If(<<"SIMILAR_TO">>, SimilarTo),
        If(<<"DISTANCIA">>, Put("node", "distance") \o Rule("left", "Distance") \o Compared),
        If(<<"MATCH", "(">>, Match)>>
        \o after("MATCH", Put("node", "match") \o Put("op", "BM25") \o Rule("left", "QualifiedName") \o Take("MATCH") \o Search)
        \o after("SIMILAR_TO", ColumnSimilarTo)
        \o <<Else(Rule("left", "QualifiedName") \o Compared)>>)]

WhereClause == Opt(<<"WHERE">>, Take("WHERE") \o Add("where", "Condition"))

-----------------------------------------------------------------------------
(* SELECT.                                                                  *)

Alias ==
  OneOf(<<If(<<"AS">>, Take("AS") \o Text("alias", "ID")), If(<<"ID">>, Text("alias", "ID")), Else(<<>>)>>)

Unbound == <<"", "">>

Score ==
  Put("f", "SCORE") \o Put("column", Unbound) \o Put("query", {}) \o Put("ranking", "BM25") \o Put("alias", "score")
  \o Take("SCORE") \o Take("(")
  \o OneOf(<<If(<<")">>, Take(")")),
             Else(Rule("column", "QualifiedName") \o Take(",") \o Text("query", "STRING") \o Take(")"))>>)
  \o Alias

SimilarityScore ==
  Put("f", "SIMILARITY_SCORE") \o Put("alias", "similarity_score")
  \o Take("SIMILARITY_SCORE") \o Take("(") \o Take(")") \o Alias

Star == [f |-> "", column |-> <<"", "*">>]

Aggregate(f) ==
  If(<<f, "(">>, Put("f", f) \o Take(f) \o Take("(")
                 \o OneOf(<<If(<<"*">>, Take("*")), Else(Rule("column", "QualifiedName"))>>) \o Take(")"))

(* What stands before a parenthesis is a function, and must be one.         *)
SelectItem ==
  [node |-> [f |-> "", column |-> <<"", "*">>],
   steps |-> OneOf(<<
     If(<<"SCORE", "(">>, Score), If(<<"SIMILARITY_SCORE", "(">>, SimilarityScore),
     Aggregate("COUNT"), Aggregate("SUM"), Aggregate("AVG"), Aggregate("MIN"), Aggregate("MAX"),
     If(<<"ID", "(">>, Take("a function")),
     If(<<"SIMILARITY_SCORE">>, Take("SIMILARITY_SCORE") \o Put("column", <<"", "SIMILARITY_SCORE">>)),
     Else(Rule("column", "QualifiedName"))>>)]

SelectList ==
  OneOf(<<If(<<"*">>, Take("*") \o Put("items", <<Star>>)), Else(Add("items", "SelectItem"))>>)
  \o While(<<If(<<",">>, Take(",") \o Add("items", "SelectItem"))>>)

JoinClause ==
  [node |-> [table |-> "", left |-> <<"", "">>, right |-> <<"", "">>],
   steps |-> Take("JOIN") \o Text("table", "ID") \o Take("ON")
             \o Rule("left", "QualifiedName") \o Take("=") \o Rule("right", "QualifiedName")]

OrderItem ==
  [node |-> [column |-> Unbound, distance |-> <<>>, descending |-> FALSE],
   steps |-> OneOf(<<If(<<"DISTANCIA">>, Add("distance", "Distance")), Else(Rule("column", "QualifiedName"))>>)
             \o OneOf(<<If(<<"DESC">>, Take("DESC") \o Put("descending", TRUE)), If(<<"ASC">>, Take("ASC")), Else(<<>>)>>)]

(* In any order, and the last of each counts.                               *)
GroupOrOrder ==
  While(<<If(<<"ORDER BY">>, Take("ORDER BY") \o Put("order", <<>>) \o List(Add("order", "OrderItem"))),
          If(<<"GROUP BY">>, Take("GROUP BY") \o Put("group", <<>>) \o List(Add("group", "QualifiedName")))>>)

Select ==
  [node |-> [node |-> "select", items |-> <<>>, table |-> "", join |-> <<>>, where |-> <<>>,
             group |-> <<>>, order |-> <<>>, limit |-> <<>>],
   steps |-> Take("SELECT") \o SelectList \o Take("FROM") \o Text("table", "ID")
             \o Opt(<<"JOIN">>, Add("join", "JoinClause")) \o WhereClause \o Bind
             \o GroupOrOrder \o Opt(<<"LIMIT">>, Take("LIMIT") \o AddText("limit", "NUM"))]

Explain ==
  [node |-> [node |-> "explain", analyze |-> FALSE, inner |-> <<>>],
   steps |-> Take("EXPLAIN") \o Opt(<<"ANALYZE">>, Take("ANALYZE") \o Put("analyze", TRUE)) \o Rule("inner", "Select")]

-----------------------------------------------------------------------------
(* The statements that write, and those that define.                        *)

ValueRow == [node |-> [values |-> <<>>], steps |-> Take("(") \o List(Add("values", "Value")) \o Take(")")]

Insert ==
  [node |-> [node |-> "insert", table |-> "", columns |-> <<>>, rows |-> <<>>],
   steps |-> Take("INSERT INTO") \o Text("table", "ID")
             \o Opt(<<"(">>, Take("(") \o List(AddText("columns", "ID")) \o Take(")"))
             \o Take("VALUES") \o List(Add("rows", "ValueRow"))]

Delete ==
  [node |-> [node |-> "delete", table |-> "", where |-> <<>>],
   steps |-> Take("DELETE") \o Take("FROM") \o Text("table", "ID") \o WhereClause]

Update ==
  [node |-> [node |-> "update", table |-> "", column |-> "", value |-> <<>>, where |-> <<>>],
   steps |-> Take("UPDATE") \o Text("table", "ID") \o Take("SET") \o Text("column", "ID") \o Take("=") \o Rule("value", "Value")
             \o Take("WHERE") \o Add("where", "Condition")]

TypeNames ==
  <<"SMALLINT", "INTEGER", "BIGINT", "NUMERIC", "REAL", "DOUBLE PRECISION", "CHAR", "VARCHAR", "TEXT", "BOOLEAN",
    "DATE", "TIME", "TIMESTAMP", "BYTEA", "POINT", "POLYGON", "RECTANGLE", "GEOMETRY">>

ColumnDef ==
  [node |-> [name |-> "", type |-> "", size |-> <<>>, key |-> FALSE, nullable |-> TRUE, unique |-> FALSE],
   steps |-> Text("name", "ID") \o AnyOf("type", TypeNames) \o Opt(<<"(">>, Take("(") \o AddText("size", "NUM") \o Take(")"))
             \o While(<<If(<<"PRIMARY KEY">>, Take("PRIMARY KEY") \o Put("key", TRUE)),
                        If(<<"NOT NULL">>, Take("NOT NULL") \o Put("nullable", FALSE)),
                        If(<<"UNIQUE">>, Take("UNIQUE") \o Put("unique", TRUE))>>)]

CreateTable ==
  [node |-> [node |-> "create table", table |-> "", columns |-> <<>>, storage |-> "HEAP"],
   steps |-> Take("CREATE TABLE") \o Text("table", "ID") \o Take("(") \o List(Add("columns", "ColumnDef")) \o Take(")")
             \o Opt(<<"USING">>, Take("USING") \o AnyOf("storage", <<"HEAP", "SEQUENTIAL">>))]

IndexTypes == <<"BTREE", "HASH", "RTREE", "GIN", "SPIMI", "IVF", "HNSW">>

(* USING before the column, or after it.                                    *)
CreateIndex ==
  LET using == Take("USING") \o AnyOf("type", IndexTypes)
      column == Take("(") \o Text("column", "ID") \o Take(")")
  IN [node |-> [node |-> "create index", index |-> "", table |-> "", column |-> "", type |-> ""],
      steps |-> Take("CREATE INDEX") \o Text("index", "ID") \o Take("ON") \o Text("table", "ID")
                \o OneOf(<<If(<<"USING">>, using \o column), Else(column \o using)>>)]

DropTable == [node |-> [node |-> "drop table", table |-> ""], steps |-> Take("DROP TABLE") \o Text("table", "ID")]

DropIndex ==
  [node |-> [node |-> "drop index", index |-> "", ifExists |-> FALSE],
   steps |-> Take("DROP INDEX") \o Opt(<<"IF">>, Take("IF") \o Take("EXISTS") \o Put("ifExists", TRUE)) \o Text("index", "ID")]

Transaction(word) == If(<<word>>, Take(word) \o Put("stm", [node |-> word]))

Statement ==
  [node |-> [stm |-> <<>>],
   steps |-> OneOf(<<If(<<"EXPLAIN">>, Rule("stm", "Explain")), If(<<"SELECT">>, Rule("stm", "Select")),
                     If(<<"INSERT INTO">>, Rule("stm", "Insert")), If(<<"DELETE">>, Rule("stm", "Delete")),
                     If(<<"UPDATE">>, Rule("stm", "Update")),
                     Transaction("BEGIN TRANSACTION"), Transaction("END TRANSACTION"),
                     If(<<"CREATE TABLE">>, Rule("stm", "CreateTable")), If(<<"CREATE INDEX">>, Rule("stm", "CreateIndex")),
                     If(<<"DROP TABLE">>, Rule("stm", "DropTable")), If(<<"DROP INDEX">>, Rule("stm", "DropIndex"))>>)
             \o Take(";")]

Rules ==
  [QualifiedName |-> QualifiedName, Point |-> Point, Value |-> Value,
   PolygonOnly |-> PolygonOnly, Distance |-> Distance, Condition |-> Condition, SelectItem |-> SelectItem,
   JoinClause |-> JoinClause, OrderItem |-> OrderItem, Select |-> Select, Explain |-> Explain, ValueRow |-> ValueRow,
   Insert |-> Insert, Delete |-> Delete, Update |-> Update, ColumnDef |-> ColumnDef, CreateTable |-> CreateTable,
   CreateIndex |-> CreateIndex, DropTable |-> DropTable, DropIndex |-> DropIndex, Statement |-> Statement]

-----------------------------------------------------------------------------
(* The parser: [rest, node, ok], the tokens ahead, the node that is made,   *)
(* and whether there was no error yet.                                      *)

Sees(p, words) ==
  \A i \in DOMAIN words :
    /\ i <= Len(p.rest)
    /\ p.rest[i].type = words[i] \/ (p.rest[i].type = "ID" /\ p.rest[i].text = words[i])

Wrong(p) == [p EXCEPT !.ok = FALSE]
Advanced(p) == [p EXCEPT !.rest = Tail(@)]

Filled(p, field, value) == [p EXCEPT !.node = (field :> value) @@ @]

(* SCORE without arguments is of the MATCH of its SELECT.                   *)
Bound(stm) ==
  IF stm.where = <<>> \/ stm.where[1].node # "match" THEN stm
  ELSE [stm EXCEPT !.items = [i \in DOMAIN @ |->
         IF @[i].f = "SCORE" /\ @[i].column = Unbound
           THEN [@[i] EXCEPT !.column = stm.where[1].left, !.query = stm.where[1].right, !.ranking = stm.where[1].op]
           ELSE @[i]]]

FirstSeen(p, choices) == SelectInSeq(choices, LAMBDA c : Sees(p, c[1]))

(* What the parser of a rule found goes into a field, or at the end of it.  *)
Found(p, s, r) ==
  Filled([p EXCEPT !.rest = r.rest, !.ok = r.ok], s.field,
         IF s.do = "rule" THEN r.node ELSE Append(p.node[s.field], r.node))

Began(p, rule) == [rest |-> p.rest, node |-> rule.node, ok |-> TRUE]

(* Tokens that are taken, and what is put or looked at without a token.     *)
Stepped(p, s) ==
  IF s.do \in {"take", "text", "more"} /\ ~Sees(p, <<s.word>>) THEN Wrong(p)
  ELSE CASE s.do = "take" -> Advanced(p)
         [] s.do = "text" -> Filled(Advanced(p), s.field, p.rest[1].text)
         [] s.do = "more" -> Filled(Advanced(p), s.field, Append(p.node[s.field], p.rest[1].text))
         [] s.do = "put" -> Filled(p, s.field, s.value)
         [] s.do = "positive" -> IF p.node[s.field] > 0 THEN p ELSE Wrong(p)
         [] s.do = "bind" -> [p EXCEPT !.node = Bound(@)]

RECURSIVE Parsed(_, _)
Parsed(p, steps) ==
  LET of(rule) == Parsed(Began(p, rule), rule.steps)
      choice(s, i) ==
        IF i # 0 THEN Parsed(p, s.choices[i][2] \o IF s.do = "while" THEN <<s>> ELSE <<>>)
        ELSE IF s.do = "while" THEN p ELSE Wrong(p)
      step(s) ==
        CASE s.do \in {"rule", "add"} -> Found(p, s, of(Rules[s.rule]))
          [] s.do \in {"one", "while"} -> choice(s, FirstSeen(p, s.choices))
          [] OTHER -> Stepped(p, s)
  IN IF steps = <<>> \/ ~p.ok THEN p ELSE Parsed(step(Head(steps)), Tail(steps))

Whole(p) == IF p.ok /\ p.rest = <<>> THEN <<p.node.stm>> ELSE <<>>

(* execute: one statement, and nothing after it; else no statement at all.  *)
StatementOf(lexemes) ==
  LET begin == [rest |-> Scanned(lexemes), node |-> Statement.node, ok |-> TRUE]
  IN Whole(Parsed(begin, Statement.steps))
=============================================================================
