----------------------------- MODULE MCQueries -----------------------------
(***************************************************************************)
(* Statements over three tables: a is (id, k, v), k may be NULL and has an  *)
(* index, v is a text and has one; b is (k, id); c is (id, g, n), g is      *)
(* where a row is and has an R-tree, or may be NULL, in a world of 7 by 7.  *)
(* Two rows fit in memory, there are two partitions, and a partition is     *)
(* parted once more.                                                        *)
(***************************************************************************)
EXTENDS Queries

CONSTANTS null, raised

ColumnsOfAll == [a |-> <<"id", "k", "v">>, b |-> <<"k", "id">>, c |-> <<"id", "g", "n">>]
TypesOfAll ==
  (<<"a", "id">> :> "INTEGER") @@ (<<"a", "k">> :> "INTEGER") @@ (<<"a", "v">> :> "TEXT")
  @@ (<<"b", "k">> :> "INTEGER") @@ (<<"b", "id">> :> "INTEGER")
  @@ (<<"c", "id">> :> "INTEGER") @@ (<<"c", "g">> :> "GEOMETRY") @@ (<<"c", "n">> :> "INTEGER")
Keys3 == {<<"a", "id">>, <<"b", "id">>, <<"c", "id">>}
TheIndexes == {"ak", "av", "cg"}
IndexOnK == {<<"a", "k">>}
IndexOnV == {<<"a", "v">>}
IndexOnG == {<<"c", "g">>}
TermsOf == <<{1}, {1, 2}>>
SmallWorld == <<3, 3>>

(* Half of a number at each depth; NULL counts as 0.                        *)
Halves(key, depth) ==
  1 + ((FoldLeft(LAMBDA n, d : n + (IF d = null THEN 0 ELSE d), 0, key) \div (2 ^ depth)) % 2)

-----------------------------------------------------------------------------
(* What statements say.                                                     *)

N(n) == <<"", n>>
Col(c) == [f |-> "", column |-> c]
Agg(f, c) == [f |-> f, column |-> c]
ScoreOf(c, q, ranking, alias) == [f |-> "SCORE", column |-> N(c), query |-> q, ranking |-> ranking, alias |-> alias]
Similarity == [f |-> "SIMILARITY_SCORE", column |-> Star.column, alias |-> "similarity_score"]
Lit(x) == [kind |-> "num", value |-> x]
Txt(x) == [kind |-> "string", value |-> x]
Id(c) == [kind |-> "id", value |-> c]
Pt(x, y) == [kind |-> "point", value |-> <<x, y>>]
NullExp == [kind |-> "null", value |-> null]
Square(p, q) == <<p, <<q[1], p[2]>>, q, <<p[1], q[2]>>>>
Polygonal(corners) == [kind |-> "polygon", value |-> corners]
Rect(x0, y0, x1, y1) == [kind |-> "rectangle", value |-> <<x0, y0, x1, y1>>]

All(t) == [node |-> "select", items |-> <<Star>>, table |-> t, join |-> <<>>, where |-> <<>>,
           group |-> <<>>, order |-> <<>>, limit |-> <<>>]
Cond(l, op, r) == <<[node |-> "binary", left |-> l, op |-> op, right |-> r]>>
MatchOf(c, q, ranking) == <<[node |-> "match", left |-> N(c), op |-> ranking, right |-> q]>>
SimilarOf(left, target, k) ==
  <<[node |-> "similar", left |-> left, op |-> "IVF", right |-> target, k |-> k, metric |-> "EUCLIDEAN"]>>
Within(c, corners) == <<[node |-> "within", left |-> N(c), op |-> "", right |-> Polygonal(corners)]>>
To(c, p) == [geometry |-> N(c), point |-> p, metric |-> "EUCLIDEAN"]
Apart(d, op, r) == <<[node |-> "distance", left |-> d, op |-> op, right |-> r]>>
OrderOn(c, down) == [column |-> c, distance |-> <<>>, descending |-> down]
OrderTo(d, down) == [column |-> Unbound, distance |-> <<d>>, descending |-> down]
On(l, r) == <<[table |-> "b", left |-> l, right |-> r]>>

OfOneTable ==
  LET a == All("a")
  IN <<[a EXCEPT !.where = Cond(N("k"), "=", Lit(1))],
       [a EXCEPT !.where = Cond(<<"a", "k">>, "!=", Lit(1)), !.items = <<Col(N("id"))>>],
       [a EXCEPT !.where = Cond(N("k"), "=", Id(N("id"))), !.order = <<OrderOn(N("id"), TRUE)>>],
       [a EXCEPT !.where = Cond(N("k"), ">=", Id(N("k")))],
       [a EXCEPT !.where = Cond(N("k"), "<", Id(N("k")))],
       [a EXCEPT !.where = Cond(N("k"), ">=", Lit(2)), !.limit = <<1>>],
       [a EXCEPT !.where = Cond(N("v"), "<", Txt(2)), !.order = <<OrderOn(N("k"), FALSE)>>],
       [a EXCEPT !.items = <<Col(N("k")), Agg("COUNT", Star.column), Agg("SUM", N("id"))>>,
                 !.group = <<N("k")>>, !.order = <<OrderOn(N("k"), TRUE)>>, !.limit = <<2>>],
       [a EXCEPT !.items = <<Agg("COUNT", Star.column), Agg("MIN", N("k")), Agg("AVG", N("id"))>>],
       [a EXCEPT !.items = <<Agg("MAX", N("id")), Col(N("v"))>>, !.group = <<N("v")>>,
                 !.where = Cond(N("k"), "=", Lit(2))],
       [a EXCEPT !.items = <<Col(N("k"))>>, !.group = <<N("k"), N("v")>>],
       [a EXCEPT !.items = <<Col(N("id"))>>, !.limit = <<2>>,
                 !.order = <<OrderOn(N("k"), TRUE), OrderOn(<<"a", "v">>, FALSE)>>],
       [a EXCEPT !.where = MatchOf("v", {2}, "BM25"), !.items = <<Star, ScoreOf("v", {2}, "BM25", "score")>>,
                 !.order = <<OrderOn(N("k"), FALSE)>>],
       [a EXCEPT !.where = MatchOf("v", {2}, "TF_IDF"), !.items = <<ScoreOf("v", {2}, "TF_IDF", "r")>>],
       [a EXCEPT !.where = MatchOf("v", {2}, "BM25"), !.items = <<Col(N("id")), ScoreOf("v", {1}, "BM25", "score")>>],
       [a EXCEPT !.items = <<Col(N("id")), ScoreOf("v", {2}, "BM25", "s")>>, !.order = <<OrderOn(N("s"), TRUE)>>],
       [a EXCEPT !.items = <<Star, ScoreOf("v", {2}, "BM25", "score")>>, !.where = Cond(N("id"), "=", Lit(1))],
       [a EXCEPT !.where = SimilarOf(<<N("v")>>, 2, 1), !.items = <<Col(N("id")), Similarity>>],
       [a EXCEPT !.where = SimilarOf(<<>>, 1, 2)]>>

OfSpace ==
  LET c == All("c")
  IN <<[c EXCEPT !.where = Within("g", Square(<<-1, -1>>, <<2, 2>>))],
       [c EXCEPT !.where = Apart(To("g", Pt(1, 1)), "<=", Lit(2)), !.items = <<Col(N("id"))>>],
       [c EXCEPT !.where = Apart(To("g", Pt(0, 0)), ">", Id(N("n")))],
       [c EXCEPT !.where = Apart(To("g", Id(N("g"))), "=", Lit(0)), !.order = <<OrderTo(To("g", Pt(3, 3)), FALSE)>>],
       [c EXCEPT !.order = <<OrderTo(To("g", Pt(2, 0)), FALSE), OrderOn(N("n"), FALSE)>>, !.limit = <<1>>],
       [c EXCEPT !.order = <<OrderTo(To("g", Pt(2, 0)), FALSE)>>, !.limit = <<2>>, !.items = <<Col(N("id"))>>],
       [c EXCEPT !.order = <<OrderOn(N("n"), FALSE), OrderTo(To("g", Pt(-3, 1)), FALSE)>>, !.limit = <<2>>],
       [c EXCEPT !.order = <<OrderTo(To("g", Pt(2, 0)), FALSE)>>, !.where = Cond(N("n"), "=", Lit(2)), !.limit = <<1>>]>>

Joined ==
  LET a == All("a")
      on == On(<<"a", "k">>, <<"b", "k">>)
  IN <<[a EXCEPT !.join = on],
       [a EXCEPT !.join = On(<<"b", "k">>, <<"a", "k">>)],
       [a EXCEPT !.join = on, !.items = <<Col(<<"b", "id">>), Col(N("v"))>>,
                 !.where = Cond(<<"b", "id">>, "!=", Lit(1)), !.order = <<OrderOn(<<"b", "id">>, TRUE)>>],
       [a EXCEPT !.join = on, !.items = <<Col(<<"a", "id">>), Agg("COUNT", <<"b", "id">>)>>, !.group = <<<<"a", "id">>>>],
       [a EXCEPT !.join = <<[table |-> "a", left |-> <<"a", "k">>, right |-> <<"a", "id">>]>>]>>

Values(list) == [values |-> list]
Into(t, columns, rows) == [node |-> "insert", table |-> t, columns |-> columns, rows |-> rows]
Hall == Square(<<0, 0>>, <<2, 2>>) \o <<<<0, 0>>>>

Writing ==
  <<Into("a", <<>>, <<Values(<<Lit(1), NullExp, Txt(2)>>), Values(<<Lit(2), Lit(1), NullExp>>)>>),
    Into("a", <<"v", "id">>, <<Values(<<Txt(1), Lit(3)>>)>>),
    Into("c", <<>>, <<Values(<<Lit(1), Rect(0, 0, 2, 1), Lit(1)>>), Values(<<Lit(2), Polygonal(Hall), NullExp>>)>>),
    Into("c", <<"g", "id">>, <<Values(<<[kind |-> "centroid", value |-> Polygonal(Hall)], Lit(2)>>)>>),
    [node |-> "delete", table |-> "a", where |-> <<>>],
    [node |-> "delete", table |-> "a", where |-> Cond(N("k"), "<=", Id(N("k")))],
    [node |-> "update", table |-> "c", column |-> "g", value |-> Pt(1, 2), where |-> Cond(N("n"), "<", Lit(2))],
    [node |-> "BEGIN TRANSACTION"], [node |-> "END TRANSACTION"]>>

Def(n, type, size, key, nullable, unique) ==
  [name |-> n, type |-> type, size |-> size, key |-> key, nullable |-> nullable, unique |-> unique]

Defining ==
  <<[node |-> "create table", table |-> "d", storage |-> "SEQUENTIAL",
     columns |-> <<Def("id", "INTEGER", <<>>, TRUE, TRUE, FALSE), Def("w", "VARCHAR", <<20>>, FALSE, FALSE, TRUE),
                   Def("x", "DOUBLE PRECISION", <<>>, FALSE, TRUE, FALSE)>>],
    [node |-> "create index", index |-> "bk", table |-> "b", column |-> "k", type |-> "HASH"],
    [node |-> "drop table", table |-> "b"],
    [node |-> "drop index", index |-> "zz", ifExists |-> TRUE],
    [node |-> "explain", analyze |-> FALSE, inner |-> [All("a") EXCEPT !.where = Cond(N("k"), "=", Lit(1))]],
    [node |-> "explain", analyze |-> TRUE, inner |-> [All("a") EXCEPT !.limit = <<1>>]]>>

(* Each of them breaks one rule.                                            *)
Refused ==
  <<[All("a") EXCEPT !.items = <<Col(N("w"))>>], All("d"),
    [All("a") EXCEPT !.limit = <<0>>],
    [All("a") EXCEPT !.join = On(<<"a", "v">>, <<"b", "k">>)],
    [All("a") EXCEPT !.join = On(<<"a", "k">>, <<"b", "k">>), !.items = <<Col(N("id"))>>],
    [All("a") EXCEPT !.items = <<Agg("SUM", N("v"))>>],
    [All("a") EXCEPT !.where = Cond(N("k"), "=", Txt(1))],
    [All("a") EXCEPT !.where = MatchOf("k", {1}, "BM25")],
    [All("a") EXCEPT !.items = <<Star, Similarity>>, !.where = SimilarOf(<<N("v")>>, 2, 1)],
    [All("a") EXCEPT !.items = <<ScoreOf("v", {1}, "BM25", "score")>>, !.where = MatchOf("v", {2}, "TF_IDF")],
    [All("a") EXCEPT !.items = <<ScoreOf("v", {1}, "BM25", "k")>>],
    [All("c") EXCEPT !.where = Within("n", Square(<<0, 0>>, <<1, 1>>))],
    [All("c") EXCEPT !.where = Apart(To("g", Pt(4, 0)), "<", Lit(1))],
    [All("a") EXCEPT !.group = <<N("id")>>, !.where = MatchOf("v", {1}, "BM25")],
    Into("a", <<>>, <<Values(<<Lit(1), Lit(1)>>)>>), Into("a", <<>>, <<Values(<<Lit(1), Lit(1), Lit(1)>>)>>),
    Into("a", <<"k">>, <<Values(<<Lit(1)>>)>>),
    Into("a", <<"id", "id">>, <<Values(<<Lit(1), Lit(2)>>)>>), Into("a", <<>>, <<Values(<<NullExp, Lit(1), Txt(1)>>)>>),
    Into("c", <<>>, <<Values(<<Lit(1), Rect(0, 2, 1, 1), Lit(1)>>)>>),
    Into("c", <<>>, <<Values(<<Lit(1), Polygonal(Square(<<0, 0>>, <<1, 1>>)), Lit(1)>>)>>),
    [node |-> "delete", table |-> "a", where |-> Cond(<<"a", "k">>, "=", Lit(1))],
    [node |-> "delete", table |-> "c", where |-> Within("g", Square(<<0, 0>>, <<1, 1>>))],
    [node |-> "update", table |-> "a", column |-> "id", value |-> NullExp, where |-> Cond(N("k"), "=", Lit(1))],
    [node |-> "create table", table |-> "a", storage |-> "HEAP", columns |-> <<Def("id", "INTEGER", <<>>, FALSE, TRUE, FALSE)>>],
    [node |-> "create table", table |-> "d", storage |-> "HEAP", columns |-> <<Def("w", "VARCHAR", <<>>, FALSE, TRUE, FALSE)>>],
    [node |-> "create index", index |-> "bk", table |-> "b", column |-> "k", type |-> "RTREE"],
    [node |-> "drop index", index |-> "zz", ifExists |-> FALSE]>>

-----------------------------------------------------------------------------
(* How they are written: in one of two ways, where the grammar has two.     *)

W(w) == <<[kind |-> "word", text |-> w]>>
Ws(words) == [i \in DOMAIN words |-> [kind |-> "word", text |-> words[i]]]
M(m) == <<[kind |-> "mark", text |-> m]>>
Num(n) == <<[kind |-> "number", text |-> n]>>
Str(x) == <<[kind |-> "string", text |-> x]>>
Parens(s) == M("(") \o s \o M(")")
Commas(list) == FoldLeft(LAMBDA s, l : IF s = <<>> THEN l ELSE s \o M(",") \o l, <<>>, list)
Maybe(s, on) == IF on THEN s ELSE <<>>

Named2(n) == IF n = Star.column THEN M("*") ELSE IF n[1] = "" THEN W(n[2]) ELSE W(n[1]) \o M(".") \o W(n[2])
PointW(p) == W("POINT") \o Parens(Num(p[1]) \o M(",") \o Num(p[2]))
ShapeW(e) ==
  IF e.kind = "polygon" THEN W("POLYGON") \o Parens(Commas([i \in DOMAIN e.value |-> PointW(e.value[i])]))
  ELSE W("RECTANGLE") \o Parens(Commas([i \in DOMAIN e.value |-> Num(e.value[i])]))
ExpW(e) ==
  CASE e.kind = "num" -> Num(e.value) [] e.kind = "string" -> Str(e.value) [] e.kind = "null" -> W("NULL")
    [] e.kind = "id" -> Named2(e.value) [] e.kind = "point" -> PointW(e.value)
    [] e.kind = "centroid" -> W("CENTROIDE") \o Parens(ShapeW(e.value))
    [] OTHER -> ShapeW(e)
OpW(op, way) == M(IF op = "!=" /\ way = 2 THEN "<>" ELSE op)
DistanceW(d) == W("DISTANCIA") \o Parens(Named2(d.geometry) \o M(",") \o ExpW(d.point) \o M(",") \o W(d.metric))

CondW(c, way) ==
  LET nearest == Str(c.right) \o M(",") \o W("k") \o M("=") \o Num(c.k)
      ways == Ws(<<"USING", c.op, "WITH", "METRIC">>) \o M("=") \o W(c.metric)
  IN CASE c.node = "binary" -> Named2(c.left) \o OpW(c.op, way) \o ExpW(c.right)
       [] c.node = "within" -> W("DENTRO_DE") \o Parens(Named2(c.left) \o M(",") \o ShapeW(c.right))
       [] c.node = "distance" -> DistanceW(c.left) \o OpW(c.op, way) \o ExpW(c.right)
       [] c.node = "match" ->
            IF way = 2 /\ c.op = "BM25" THEN Named2(c.left) \o W("MATCH") \o Str(c.right)
            ELSE W("MATCH") \o Parens(Named2(c.left) \o M(",") \o Str(c.right)) \o Ws(<<"USING", c.op>>)
       [] c.left = <<>> -> W("SIMILAR_TO") \o Parens(nearest) \o ways
       [] way = 1 -> Named2(c.left[1]) \o W("SIMILAR_TO") \o nearest \o ways
       [] OTHER -> Named2(c.left[1]) \o Ws(<<"SIMILAR", "TO">>) \o Parens(nearest) \o ways

WhereW(st, way) == IF st.where = <<>> THEN <<>> ELSE W("WHERE") \o CondW(st.where[1], way)

ItemW(item, st, way) ==
  LET bound == st.where # <<>> /\ st.where[1].node = "match" /\ st.where[1].left = item.column
               /\ st.where[1].right = item.query /\ st.where[1].op = item.ranking
      alias == IF way = 1 THEN Ws(<<"AS", item.alias>>) ELSE Maybe(W(item.alias), item.alias # "score")
  IN CASE item.f = "" -> Named2(item.column)
       [] item.f = "SCORE" ->
            W("SCORE") \o Parens(Maybe(Named2(item.column) \o M(",") \o Str(item.query), ~bound \/ (way = 1 /\ item.ranking = "BM25")))
            \o alias
       [] item.f = "SIMILARITY_SCORE" -> W("SIMILARITY_SCORE") \o Parens(<<>>)
       [] OTHER -> W(item.f) \o Parens(Named2(item.column))

OrderW(item, way) ==
  (IF item.distance # <<>> THEN DistanceW(item.distance[1]) ELSE Named2(item.column))
  \o (IF item.descending THEN W("DESC") ELSE Maybe(W("ASC"), way = 1))

SelectW(st, way) ==
  LET group == Maybe(Ws(<<"GROUP", "BY">>) \o Commas([i \in DOMAIN st.group |-> Named2(st.group[i])]), st.group # <<>>)
      order == Maybe(Ws(<<"ORDER", "BY">>) \o Commas([i \in DOMAIN st.order |-> OrderW(st.order[i], way)]), st.order # <<>>)
      join(on) == Ws(<<"JOIN", on.table, "ON">>) \o Named2(on.left) \o M("=") \o Named2(on.right)
  IN W("SELECT") \o Commas([i \in DOMAIN st.items |-> ItemW(st.items[i], st, way)]) \o Ws(<<"FROM", st.table>>)
     \o (IF st.join = <<>> THEN <<>> ELSE join(st.join[1])) \o WhereW(st, way)
     \o (IF way = 1 THEN group \o order ELSE order \o group)
     \o (IF st.limit = <<>> THEN <<>> ELSE W("LIMIT") \o Num(st.limit[1]))

DefW(c) ==
  W(c.name) \o (IF c.type = "DOUBLE PRECISION" THEN Ws(<<"DOUBLE", "PRECISION">>) ELSE W(c.type))
  \o (IF c.size = <<>> THEN <<>> ELSE Parens(Num(c.size[1])))
  \o Maybe(Ws(<<"PRIMARY", "KEY">>), c.key) \o Maybe(Ws(<<"NOT", "NULL">>), ~c.nullable) \o Maybe(W("UNIQUE"), c.unique)

WordsOf(st, way) ==
  CASE st.node = "select" -> SelectW(st, way)
    [] st.node = "explain" -> W("EXPLAIN") \o Maybe(W("ANALYZE"), st.analyze) \o SelectW(st.inner, way)
    [] st.node = "insert" ->
         Ws(<<"INSERT", "INTO", st.table>>)
         \o Maybe(Parens(Commas([i \in DOMAIN st.columns |-> W(st.columns[i])])), st.columns # <<>>) \o W("VALUES")
         \o Commas([r \in DOMAIN st.rows |->
                      Parens(Commas([i \in DOMAIN st.rows[r].values |-> ExpW(st.rows[r].values[i])]))])
    [] st.node = "delete" -> Ws(<<"DELETE", "FROM", st.table>>) \o WhereW(st, way)
    [] st.node = "update" -> Ws(<<"UPDATE", st.table, "SET", st.column>>) \o M("=") \o ExpW(st.value) \o WhereW(st, way)
    [] st.node = "create table" ->
         Ws(<<"CREATE", "TABLE", st.table>>) \o Parens(Commas([i \in DOMAIN st.columns |-> DefW(st.columns[i])]))
         \o Ws(<<"USING", st.storage>>)
    [] st.node = "create index" ->
         Ws(<<"CREATE", "INDEX", st.index, "ON", st.table>>)
         \o (IF way = 1 THEN Ws(<<"USING", st.type>>) \o Parens(W(st.column)) ELSE Parens(W(st.column)) \o Ws(<<"USING", st.type>>))
    [] st.node = "drop table" -> Ws(<<"DROP", "TABLE", st.table>>)
    [] st.node = "drop index" -> Ws(<<"DROP", "INDEX">>) \o Maybe(Ws(<<"IF", "EXISTS">>), st.ifExists) \o W(st.index)
    [] st.node = "BEGIN TRANSACTION" -> Ws(<<"BEGIN", "TRANSACTION">>)
    [] st.node = "END TRANSACTION" -> Ws(<<"END", "TRANSACTION">>)

Lexemes(st, way) == WordsOf(st, way) \o M(";")

-----------------------------------------------------------------------------
Ks == {null, 1, 2}
Upto(n, S) == UNION {[1 .. m -> S] : m \in 0 .. n}
As(n, V) == {[i \in DOMAIN f |-> <<i, f[i][1], f[i][2]>>] : f \in Upto(n, Ks \X V)}
Bs(n) == {[i \in DOMAIN f |-> <<f[i], i>>] : f \in Upto(n, Ks)}
Cs(n, G) == {[i \in DOMAIN f |-> <<i, f[i][1], f[i][2]>>] : f \in Upto(n, G \X {null, 2})}
Tables(as, bs, cs) == [a : as, b : bs, c : cs]
Empty == Tables({<<>>}, {<<>>}, {<<>>})
Places == {null, Pt(0, 0), Pt(2, 1), Pt(-3, 3), Rect(1, 1, 3, 3)}

Requests2(stms, verdict, way, tables) ==
  [i \in DOMAIN stms |-> [written |-> Lexemes(stms[i], way), asked |-> stms[i], verdict |-> verdict, tables |-> tables]]

One == Tables(As(1, {1}), {<<>>}, {<<>>})

Small == Requests2(OfOneTable, "answered", 1, Tables(As(3, {1, 2}), {<<>>}, {<<>>}))
Again == Requests2(OfOneTable, "answered", 2, Tables(As(1, {1, 2}), {<<>>}, {<<>>}))
Spilled == Requests2(SelectSeq(OfOneTable, LAMBDA s : s.order # <<>> \/ s.group # <<>>), "answered", 2,
                     Tables({r \in As(5, {1}) : Len(r) > 3}, {<<>>}, {<<>>}))
Pairs2 == Requests2(Joined, "answered", 1, Tables(As(2, {1}), Bs(4), {<<>>}))
Spaces == Requests2(OfSpace, "answered", 2, Tables({<<>>}, {<<>>}, Cs(3, Places)))
Others == Requests2(Writing \o Defining, "answered", 1, One) \o Requests2(Writing \o Defining, "answered", 2, One)
Wrong2 == Requests2(Refused, "refused", 2, One)

(* Without its first word, without its end, or with one word more.          *)
Broken ==
  LET of(cut(_)) ==
        LET whole == OfOneTable \o OfSpace \o Writing \o Refused
        IN [i \in DOMAIN whole |-> [written |-> cut(Lexemes(whole[i], 1)), asked |-> NoStatement,
                                    verdict |-> "malformed", tables |-> Empty]]
  IN of(LAMBDA w : Tail(w)) \o of(LAMBDA w : Front(w)) \o of(LAMBDA w : w \o W("x"))

AllRequests == Small \o Again \o Spilled \o Pairs2 \o Spaces \o Others \o Wrong2 \o Broken
=============================================================================
