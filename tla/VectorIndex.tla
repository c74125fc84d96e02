---------------------------- MODULE VectorIndex ----------------------------
(***************************************************************************)
(* The vector index of a column of images and sounds (src/src/index/vector  *)
(* and Catalog): lists around centroids (IVF) or a graph of labels (HNSW),  *)
(* the extractor that goes with it, and the files of both.  Centroids are   *)
(* some of the vectors (KMeans), and the graph finds the nearest of its     *)
(* nodes (hnswlib).                                                         *)
(***************************************************************************)
EXTENDS Integers, Sequences, FiniteSets, SequencesExt, TLC

CONSTANTS Vector,          \* what is extracted from each object
          Modality,        \* of each object: an image or a sound
          Lists, Probes,   \* n_lists, n_probe
          MaxElements      \* of a new graph

Metric == {"cosine", "euclidean", "dot_product"}

Dot(x, y) == x[1] * y[1] + x[2] * y[2]
Norm(x) == CHOOSE n \in 0 .. 10 : n * n = Dot(x, x)

(* compute_distance, in hundredths for the cosine, and of a Euclidean       *)
(* distance the square; vectors have whole norms.                           *)
Distance(metric, x, y) ==
  CASE metric = "euclidean" -> (x[1] - y[1]) * (x[1] - y[1]) + (x[2] - y[2]) * (x[2] - y[2])
    [] metric = "dot_product" -> -Dot(x, y)
    [] metric = "cosine" -> IF Norm(x) = 0 \/ Norm(y) = 0 THEN 100
                            ELSE 100 - (100 * Dot(x, y)) \div (Norm(x) * Norm(y))

(* An item is the object of a row, and the codebook its vector is in.       *)
Ranked(items, q, k, metric) ==
  LET far(i) == Distance(metric, q, Vector[i.key])
      all == SortSeq(items, LAMBDA i, j : far(i) < far(j))
  IN SubSeq(all, 1, Min({k, Len(all)}))

-----------------------------------------------------------------------------
(* IVF                                                                      *)

NoLists == [type |-> "ivf", centroids |-> <<>>, lists |-> <<>>, listOf |-> <<>>, count |-> 0]

(* _append                                                                  *)
WithAppended(x, l, item) ==
  [x EXCEPT !.lists = [n \in DOMAIN @ \union {l} |->
                         (IF n \in DOMAIN @ THEN @[n] ELSE <<>>) \o (IF n = l THEN <<item>> ELSE <<>>)],
            !.listOf = (item.rid :> l) @@ @,
            !.count = @ + 1]

ClosestCentroid(centroids, v) ==
  CHOOSE c \in DOMAIN centroids :
    \A d \in DOMAIN centroids :
      LET far == Distance("euclidean", centroids[c], v)
          other == Distance("euclidean", centroids[d], v)
      IN far < other \/ (far = other /\ c <= d)

IvfWithout(x, rid) ==
  IF rid \notin DOMAIN x.listOf THEN x
  ELSE [x EXCEPT !.lists[x.listOf[rid]] = SelectSeq(@, LAMBDA item : item.rid # rid),
                 !.listOf = [r \in DOMAIN @ \ {rid} |-> @[r]],
                 !.count = @ - 1]

IvfWith(x, item) ==
  LET rest == IvfWithout(x, item.rid)
      v == Vector[item.key]
  IN IF rest.centroids = <<>> THEN WithAppended([rest EXCEPT !.centroids = <<v>>], 1, item)
     ELSE WithAppended(rest, ClosestCentroid(rest.centroids, v), item)

IvfBuilt(items) ==
  LET n == Min({Lists, Len(items)})
      around(cs) == FoldLeft(LAMBDA x, item : WithAppended(x, ClosestCentroid(cs, Vector[item.key]), item),
                             [NoLists EXCEPT !.centroids = cs, !.lists = [c \in 1 .. n |-> <<>>]], items)
  IN IF items = <<>> THEN {NoLists}
     ELSE {around(cs) : cs \in [1 .. n -> {Vector[i.key] : i \in ToSet(items)}]}

IvfSearch(x, q, k, metric) ==
  LET far(c) == Distance(metric, q, x.centroids[c])
      near == SortSeq([c \in DOMAIN x.centroids |-> c], LAMBDA c, d : far(c) < far(d) \/ (far(c) = far(d) /\ c < d))
      probed == SubSeq(near, 1, Min({Probes, Len(near)}))
  IN IF x.count = 0 THEN <<>>
     ELSE Ranked(FlattenSeq([p \in DOMAIN probed |-> x.lists[probed[p]]]), q, k, metric)

-----------------------------------------------------------------------------
(* HNSW: the labels of the graph, some of them marked as deleted, the maps  *)
(* between labels and rows, and the vectors themselves.                     *)

NoGraph == [type |-> "hnsw", graph |-> <<>>, deleted |-> {}, ridOf |-> <<>>, labelOf |-> <<>>,
            raw |-> <<>>, next |-> 0, max |-> MaxElements]

Without(f, x) == [y \in DOMAIN f \ {x} |-> f[y]]

HnswWithout(x, rid) ==
  LET label == x.labelOf[rid]
  IN IF rid \notin DOMAIN x.labelOf THEN x
     ELSE [x EXCEPT !.deleted = @ \union {label}, !.ridOf = Without(@, label), !.labelOf = Without(@, rid),
                    !.raw = Without(@, label)]

WithLabel(x, item) ==
  [x EXCEPT !.graph = (x.next :> item) @@ @, !.raw = (x.next :> item) @@ @,
            !.ridOf = (x.next :> item.rid) @@ @, !.labelOf = (item.rid :> x.next) @@ @, !.next = @ + 1]

(* Labels that are deleted still count.                                     *)
HnswWith(x, item) ==
  LET rest == HnswWithout(x, item.rid)
      full == Cardinality(DOMAIN rest.graph) >= rest.max
  IN WithLabel(IF full THEN [rest EXCEPT !.max = @ * 2] ELSE rest, item)

(* Without a row the graph stays as it was.                                 *)
HnswBuilt(x, items) ==
  IF items = <<>> THEN [NoGraph EXCEPT !.graph = x.graph, !.deleted = x.deleted, !.max = x.max]
  ELSE FoldLeft(WithLabel, [NoGraph EXCEPT !.max = Max({x.max, Len(items) * 2})], items)

Items(f) == LET labels == SetToSeq(DOMAIN f) IN [i \in DOMAIN labels |-> f[labels[i]]]

(* The graph is one of cosine distances.                                    *)
HnswSearch(x, q, k, metric) ==
  LET found == Min({k, Cardinality(DOMAIN x.ridOf)})
      alive == [l \in DOMAIN x.graph \ x.deleted |-> [x.graph[l] EXCEPT !.rid = x.ridOf[l]]]
      stored == [l \in DOMAIN x.raw |-> [x.raw[l] EXCEPT !.rid = x.ridOf[l]]]
  IN Ranked(Items(IF metric = "cosine" THEN alive ELSE stored), q, found, metric)

-----------------------------------------------------------------------------
(* What both offer.                                                         *)

New(type) == IF type = "ivf" THEN NoLists ELSE NoGraph
With(x, item) == IF x.type = "ivf" THEN IvfWith(x, item) ELSE HnswWith(x, item)
Removed(x, rid) == IF x.type = "ivf" THEN IvfWithout(x, rid) ELSE HnswWithout(x, rid)
Built(x, items) == IF x.type = "ivf" THEN IvfBuilt(items) ELSE {HnswBuilt(x, items)}
Search(x, q, k, metric) == IF x.type = "ivf" THEN IvfSearch(x, q, k, metric) ELSE HnswSearch(x, q, k, metric)

(* The items an index holds.                                                *)
Held(x) == IF x.type = "ivf" THEN UNION {ToSet(x.lists[l]) : l \in DOMAIN x.lists}
           ELSE {x.graph[l] : l \in DOMAIN x.graph \ x.deleted}

(* The books of an index agree with what it holds: the count and the lists  *)
(* of the rows, or the two maps, the graph and its capacity.                *)
InStep(x) ==
  IF x.type = "ivf" THEN
    /\ x.count = Cardinality(Held(x)) /\ DOMAIN x.listOf = {i.rid : i \in Held(x)}
    /\ \A l \in DOMAIN x.lists : \A i \in ToSet(x.lists[l]) : x.listOf[i.rid] = l
  ELSE
    /\ \A l \in DOMAIN x.ridOf : x.labelOf[x.ridOf[l]] = l
    /\ \A r \in DOMAIN x.labelOf : x.ridOf[x.labelOf[r]] = r
    /\ DOMAIN x.raw = DOMAIN x.ridOf /\ DOMAIN x.ridOf = DOMAIN x.graph \ x.deleted
    /\ Cardinality(DOMAIN x.graph) <= x.max

-----------------------------------------------------------------------------
(* The extractor: a codebook for each modality, told by the objects it was  *)
(* trained on and by who asked for it.  <<>> is no extractor.               *)

Codebook(objects, query) == [of |-> objects, query |-> query]

(* ExtractFeatures.fit                                                      *)
Fitted(objects) ==
  [m \in {Modality[o] : o \in objects} |-> Codebook({o \in objects : Modality[o] = m}, FALSE)]

(* extract trains a codebook for a modality it does not know.               *)
Extracting(extractor, object, query) ==
  IF Modality[object] \in DOMAIN extractor THEN extractor
  ELSE (Modality[object] :> Codebook({object}, query)) @@ extractor

Item(extractor, object, rid) == [rid |-> rid, key |-> object, by |-> extractor[Modality[object]]]

(* An index and its extractor, in memory and in their files; the file of an *)
(* index is written over, and not whole after a save that failed.           *)
Memory(index, extractor) == [index |-> index, extractor |-> extractor]
Disk(index, extractor, whole) == [index |-> index, extractor |-> extractor, whole |-> whole]
Outcome(mem, disk, raised) == [mem |-> mem, disk |-> disk, raised |-> raised]

Saved(mem, disk) == Outcome(mem, [disk EXCEPT !.index = mem.index, !.whole = TRUE], "nothing")
NotSaved(mem, disk) == Outcome(mem, [disk EXCEPT !.whole = FALSE], "not saved")

(* _build_vector_index, of a table's rows <<object, RID>>: an extractor is  *)
(* there when the index has been saved.                                     *)
Build(s, rows) ==
  LET extractor == Fitted({row[1] : row \in rows})
      items == SetToSeq({Item(extractor, row[1], row[2]) : row \in rows})
  IN UNION {{Outcome(Memory(x, extractor), Disk(x, extractor, TRUE), "nothing"),
             NotSaved(Memory(x, <<>>), s.disk)} : x \in Built(s.mem.index, items)}

(* _vector_extractor_for                                                    *)
Ready(s, rows) == IF s.mem.extractor # <<>> THEN {Outcome(s.mem, s.disk, "nothing")} ELSE Build(s, rows)

(* _extract_row_vector: a codebook that a row taught is saved at once.      *)
WithFile(o, from, to) == IF to = from THEN o ELSE [o EXCEPT !.disk.extractor = to]

(* _index_row_vector: what cannot be saved is removed again.                *)
IndexRow(s, object, rid, rows) ==
  UNION {LET known == o.mem.extractor
             extractor == Extracting(known, object, FALSE)
             with == Memory(With(o.mem.index, Item(extractor, object, rid)), extractor)
             without == [with EXCEPT !.index = Removed(with.index, rid)]
         IN IF o.raised # "nothing" THEN {o}
            ELSE {WithFile(after, known, extractor) : after \in {Saved(with, o.disk), NotSaved(without, o.disk)}}
         : o \in Ready(s, rows)}

(* _unindex_row_vector: what cannot be saved is added again.                *)
UnindexRow(s, object, rid, rows) ==
  UNION {LET known == o.mem.extractor
             extractor == Extracting(known, object, FALSE)
             index == Removed(o.mem.index, rid)
             again == Memory(With(index, Item(extractor, object, rid)), extractor)
         IN IF o.raised # "nothing" THEN {o}
            ELSE {Saved(Memory(index, known), o.disk),
                  IF index = o.mem.index THEN NotSaved(o.mem, o.disk)
                  ELSE WithFile(NotSaved(again, o.disk), known, extractor)}
         : o \in Ready(s, rows)}

(* register_update                                                          *)
UpdateRow(s, old, new, rows) ==
  UNION {IF o.raised # "nothing" THEN {o} ELSE IndexRow(o, new[1], new[2], rows)
         : o \in UnindexRow(s, old[1], old[2], rows)}

(* _rebuild_vector_index, after a crash: an index of its own, and without   *)
(* rows no extractor.                                                       *)
Rebuilt(type, disk, rows) ==
  LET empty == Memory(New(type), <<>>)
  IN IF rows = {} THEN {Outcome(empty, Disk(New(type), <<>>, TRUE), "nothing")}
     ELSE {o \in Build([mem |-> empty, disk |-> disk], rows) : o.raised = "nothing"}
=============================================================================
