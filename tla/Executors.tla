----------------------------- MODULE Executors -----------------------------
(***************************************************************************)
(* The operators of a plan (src/src/query/executor): what each of them      *)
(* makes of the rows that come up from below.                               *)
(*                                                                          *)
(* What an operator gives, row by row, is a stream: a sequence of rows that *)
(* may end in Raised.  A row is a sequence of data, integers or Null.       *)
(***************************************************************************)
EXTENDS Integers, Sequences, FiniteSets, SequencesExt

CONSTANTS Null, Raised,
          MemoryRecords,   \* memory_records of every external operator
          Partitions,      \* partition_count
          MaxDepth,        \* how often a partition is partitioned again
          Bucket(_, _)     \* of a key, a sequence of data, at a depth

ASSUME MemoryAssumption == MemoryRecords \in Nat \ {0} /\ Partitions \in Nat \ {0, 1} /\ MaxDepth \in Nat

Fails(s) == s # <<>> /\ Last(s) = Raised

Joint(streams) == FlattenSeq(streams)

(* memory_records at a time.                                                *)
Chunks(s, n) ==
  [c \in 1 .. (Len(s) + n - 1) \div n |-> SubSeq(s, (c - 1) * n + 1, Min({c * n, Len(s)}))]

-----------------------------------------------------------------------------
(* Joins, on the columns l of the left and r of the right rows.             *)

Pairs(left, right, l, r) ==
  Joint([i \in DOMAIN left |->
    LET with == SelectSeq(right, LAMBDA row : row[r] = left[i][l])
    IN [j \in DOMAIN with |-> left[i] \o with[j]]])

NestedLoopJoin(left, right, l, r) == Pairs(left, right, l, r)

Partition(rows, key, depth) ==
  [p \in 1 .. Partitions |-> SelectSeq(rows, LAMBDA row : Bucket(<<row[key]>>, depth) = p)]

(* A bug: what does not fill a chunk is forgotten.                          *)
ChunkedProbeWhole(left, right, l, r) ==
  LET whole == Chunks(SubSeq(right, 1, Len(right) - (Len(right) % MemoryRecords)), MemoryRecords)
  IN Joint([c \in DOMAIN whole |-> Pairs(left, whole[c], l, r)])

ChunkedProbe(left, right, l, r) ==
  LET chunks == Chunks(right, MemoryRecords)
  IN Joint([c \in DOMAIN chunks |-> Pairs(left, chunks[c], l, r)])

RECURSIVE JoinPartition(_, _, _, _, _)
JoinPartition(left, right, l, r, depth) ==
  IF Len(right) <= MemoryRecords THEN Pairs(left, right, l, r)
  ELSE IF depth < MaxDepth THEN
    LET lefts == Partition(left, l, depth + 1)
        rights == Partition(right, r, depth + 1)
    IN Joint([p \in 1 .. Partitions |-> JoinPartition(lefts[p], rights[p], l, r, depth + 1)])
  ELSE ChunkedProbe(left, right, l, r)

HashJoin(left, right, l, r) ==
  LET lefts == Partition(left, l, 0)
      rights == Partition(right, r, 0)
  IN Joint([p \in 1 .. Partitions |-> JoinPartition(lefts[p], rights[p], l, r, 0)])

-----------------------------------------------------------------------------
(* Sort: by a sequence of a column and a direction each.  NULL comes first, *)
(* and last when descending.                                                *)

By(column, descending) == [column |-> column, descending |-> descending]

LessThan(x, y) == (x = Null /\ y # Null) \/ (x # Null /\ y # Null /\ x < y)

Before(a, b, by) ==
  \E i \in DOMAIN by :
    LET x == a[by[i].column]
        y == b[by[i].column]
    IN /\ IF by[i].descending THEN LessThan(y, x) ELSE LessThan(x, y)
       /\ \A j \in 1 .. i - 1 : a[by[j].column] = b[by[j].column]

(* list.sort of a run                                                       *)
SortedRun(run, by) ==
  FoldLeft(LAMBDA s, row : SelectSeq(s, LAMBDA q : ~Before(row, q, by)) \o <<row>>
                           \o SelectSeq(s, LAMBDA q : Before(row, q, by)), <<>>, run)

(* A bug: of equal heads that of the last run goes first.                   *)
LeastRunLast(runs, by) ==
  CHOOSE i \in DOMAIN runs :
    /\ runs[i] # <<>>
    /\ \A j \in DOMAIN runs : runs[j] # <<>> =>
         ~Before(runs[j][1], runs[i][1], by) /\ (j > i => Before(runs[i][1], runs[j][1], by))

(* The top of the heap of (key, run_index).                                 *)
LeastRun(runs, by) ==
  CHOOSE i \in DOMAIN runs :
    /\ runs[i] # <<>>
    /\ \A j \in DOMAIN runs : runs[j] # <<>> =>
         ~Before(runs[j][1], runs[i][1], by) /\ (j < i => Before(runs[i][1], runs[j][1], by))

RECURSIVE MergeRuns(_, _)
MergeRuns(runs, by) ==
  IF \A i \in DOMAIN runs : runs[i] = <<>> THEN <<>>
  ELSE LET i == LeastRun(runs, by)
       IN <<runs[i][1]>> \o MergeRuns([runs EXCEPT ![i] = Tail(@)], by)

RECURSIVE MergePasses(_, _)
MergePasses(runs, by) ==
  LET fanIn == Max({2, MemoryRecords - 1})
      groups == Chunks(runs, fanIn)
  IN IF Len(runs) <= fanIn THEN MergeRuns(runs, by)
     ELSE MergePasses([g \in DOMAIN groups |-> MergeRuns(groups[g], by)], by)

Sorted(rows, by) ==
  LET runs == Chunks(rows, MemoryRecords)
  IN MergePasses([i \in DOMAIN runs |-> SortedRun(runs[i], by)], by)

(* Sort-merge join: Python cannot order NULL.                               *)
SortMergeJoin(left, right, l, r) ==
  LET ls == SortedRun(left, <<By(l, FALSE)>>)
      rs == SortedRun(right, <<By(r, FALSE)>>)
      missing(s, key) == \E i \in DOMAIN s : s[i][key] = Null
      stuck(s, key, other) == missing(s, key) /\ (Len(s) > 1 \/ other # <<>>)
  IN IF stuck(ls, l, rs) \/ stuck(rs, r, ls) THEN <<Raised>> ELSE Pairs(ls, rs, l, r)

-----------------------------------------------------------------------------
(* Aggregates.  An item of a SELECT list is [f, column]; f is "" for a      *)
(* column, and the column of COUNT-star is 0.                               *)

Key(row, group) == [i \in DOMAIN group |-> row[group[i]]]

(* The keys of a dictionary filled row by row.                              *)
Keys(rows, group) ==
  FoldLeft(LAMBDA ks, row : IF Key(row, group) \in ToSet(ks) THEN ks ELSE Append(ks, Key(row, group)), <<>>, rows)

Total(data) == FoldLeft(LAMBDA n, d : n + d, 0, data)

(* _aggregate, and, of a spilled group, _build_state_row: they differ on    *)
(* the SUM of nothing.                                                      *)
Aggregated(item, rows, spilled) ==
  LET data == SelectSeq([i \in DOMAIN rows |-> rows[i][item.column]], LAMBDA d : d # Null)
  IN CASE item.f = "" -> rows[1][item.column]
       [] item.f = "COUNT" -> Len(rows)
       [] item.f = "SUM" -> IF data = <<>> /\ spilled THEN Null ELSE Total(data)
       [] data = <<>> -> Null
       [] item.f = "AVG" -> Total(data) \div Len(data)
       [] item.f = "MIN" -> Min(ToSet(data))
       [] item.f = "MAX" -> Max(ToSet(data))

Groups(rows, group, items, spilled) ==
  LET found == Keys(rows, group)
      keys == IF rows = <<>> /\ group = <<>> THEN <<<<>>>> ELSE found
      of(k) == SelectSeq(rows, LAMBDA row : Key(row, group) = k)
  IN [n \in DOMAIN keys |-> [i \in DOMAIN items |-> Aggregated(items[i], of(keys[n]), spilled)]]

(* A bug: the row that shows that the memory is full is not spilled.        *)
HashAggregateLosing(rows, group, items) ==
  LET left == SubSeq(rows, 1, MemoryRecords) \o SubSeq(rows, MemoryRecords + 2, Len(rows))
      part(p) == SelectSeq(left, LAMBDA row : Bucket(Key(row, group), 0) = p)
  IN IF Len(rows) <= MemoryRecords THEN Groups(rows, group, items, FALSE)
     ELSE Joint([p \in 1 .. Partitions |-> Groups(part(p), group, items, TRUE)])

(* One row more than fits and all go to partitions, each of them a table of *)
(* groups of its own: without GROUP BY there is a group in every partition. *)
HashAggregate(rows, group, items) ==
  LET part(p) == SelectSeq(rows, LAMBDA row : Bucket(Key(row, group), 0) = p)
  IN IF Len(rows) <= MemoryRecords THEN Groups(rows, group, items, FALSE)
     ELSE Joint([p \in 1 .. Partitions |-> Groups(part(p), group, items, TRUE)])

(* One group at a time, of a sorted child; nothing at all from no row.      *)
SortAggregate(rows, group, items) ==
  IF rows = <<>> THEN <<>> ELSE Groups(rows, group, items, FALSE)

(* The first row of every run of equal keys.                                *)
GroupAggregate(rows, group) ==
  LET first == {i \in DOMAIN rows : i = 1 \/ Key(rows[i], group) # Key(rows[i - 1], group)}
      at == SetToSortSeq(first, LAMBDA i, j : i < j)
  IN [n \in DOMAIN at |-> rows[at[n]]]
-----------------------------------------------------------------------------
(* WHERE, LIMIT and the SELECT list: row by row.                            *)

Ordering(op) == op \in {"<", "<=", ">", ">="}

Compare(op, x, y) ==
  CASE op = "=" -> x = y
    [] op = "!=" -> x # y
    [] op = "<" -> x < y
    [] op = "<=" -> x <= y
    [] op = ">" -> x > y
    [] op = ">=" -> x >= y

(* Filter: an ordering with NULL raises, after the rows before it.          *)
Filter(s, Left(_), op, Right(_)) ==
  LET bad == {i \in DOMAIN s : s[i] = Raised \/ (Ordering(op) /\ Null \in {Left(s[i]), Right(s[i])})}
      upTo == IF bad = {} THEN Len(s) ELSE Min(bad) - 1
      good == SelectSeq(SubSeq(s, 1, upTo), LAMBDA row : Compare(op, Left(row), Right(row)))
  IN IF bad = {} THEN good ELSE Append(good, Raised)

(* What is beyond the limit is not asked for, and does not raise.           *)
Limit(s, n) == SubSeq(s, 1, Min({n, Len(s)}))

Projection(s, columns) ==
  [i \in DOMAIN s |-> IF s[i] = Raised THEN Raised ELSE [c \in DOMAIN columns |-> s[i][columns[c]]]]
=============================================================================
