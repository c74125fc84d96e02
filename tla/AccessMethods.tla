--------------------------- MODULE AccessMethods ---------------------------
(***************************************************************************)
(* The files of a table other than the heap, as src/src/catalog/catalog.py *)
(* opens them: a B+ tree, an extendible hash, an R-tree, an inverted index  *)
(* or an index of vectors over one column, or the table itself as a         *)
(* sequential file, by its key or by RID.  Each is pages, and the one that  *)
(* leads to the others: a root or a directory, or the overflow file; an     *)
(* index of texts or of vectors is what is in memory and what is on disk.   *)
(* Every operation runs under the latch of the table and is one step.       *)
(***************************************************************************)
EXTENDS Integers, Sequences, FiniteSets, SequencesExt

CONSTANTS UniqueRow, RepeatedRow,  \* rows of a unique and of another B+ tree: <<key, RID>>
          KeyLen, PageRoom, RidSize, SlotSize, ChildSize, TreePages,
          HashRow, Hash, PayloadLen, BucketRoom, BucketSlot, MaxDepth,
          Point, Capacity, BoxPages,
          Text, BlockDocs, TextRow,
          Vector, Modality, Lists, Probes, MaxElements, MaxLabels, VectorRow,
          Sought,          \* the objects queries look for
          KeyedRow, RowByRid, MainRoom, MainSlot, OverflowPerPage, Threshold, MaxOverflow,
          Window, Region, Target, Query  \* boxes, polygons, points and terms that queries name

ASSUME KeysAssumption == DOMAIN KeyLen \subseteq Nat /\ KeyLen \in [DOMAIN KeyLen -> Nat \ {0}]
ASSUME HashesAssumption ==
  /\ Hash \in [DOMAIN Hash -> Nat] /\ PayloadLen \in [DOMAIN Hash -> Nat]
  /\ MaxDepth \in Nat /\ BucketRoom \in Nat /\ BucketSlot \in Nat \ {0}
  /\ \A e \in HashRow : e = <<e[1], e[2]>> /\ e[1] \in DOMAIN Hash
ASSUME SizesAssumption == {BlockDocs, Lists, Probes, MaxElements} \subseteq Nat \ {0}

ASSUME RowsAssumption ==
  /\ \A e \in KeyedRow \union RowByRid : e = <<e[1], e[2]>> /\ e[1] \in Nat /\ e[2] \in Nat \ {0}
  /\ MainRoom \in Nat /\ MainSlot \in Nat

ASSUME PointsAssumption ==
  /\ Point \in [DOMAIN Point -> Int \X Int] /\ Capacity \in Nat \ {0, 1}
  /\ Window \subseteq [x0 : Int, y0 : Int, x1 : Int, y1 : Int]

VARIABLES kind,    \* the type of the file
          nodes,   \* its pages
          root,    \* root_page_id, the directory, the overflow file, or what is saved
          unique, raised

vars == <<kind, nodes, root, unique, raised>>

BT == INSTANCE BTree WITH Key <- DOMAIN KeyLen, MaxNodes <- TreePages,
                          Rid <- {e[2] : e \in UniqueRow \union RepeatedRow}
EH == INSTANCE ExtendibleHash WITH directory <- root, buckets <- nodes, PageRoom <- BucketRoom,
                                   SlotSize <- BucketSlot, Rid <- {e[2] : e \in HashRow}
RT == INSTANCE RTree WITH MaxNodes <- BoxPages
SF == INSTANCE SequentialFile WITH pages <- nodes, overflow <- root, PageRoom <- MainRoom,
                                   SlotSize <- MainSlot
TX == INSTANCE TextIndex
VI == INSTANCE VectorIndex

Sequential == kind \in {"rows by key", "rows by rid"}
Vectorial == kind \in {"ivf", "hnsw"}

Init ==
  \/ kind = "btree" /\ BT!Init
  \/ kind = "hash" /\ EH!Init /\ unique = FALSE
  \/ kind = "rtree" /\ RT!Init /\ unique = FALSE /\ raised = "nothing"
  \/ kind = "text" /\ nodes = TX!Nothing /\ root = TX!Nothing /\ unique = FALSE /\ raised = "nothing"
  \/ /\ kind \in {"ivf", "hnsw"} /\ unique = FALSE /\ raised = "nothing"
     /\ \E o \in VI!Rebuilt(kind, <<>>, {}) : nodes = o.mem /\ root = o.disk
  \/ kind \in {"rows by key", "rows by rid"} /\ SF!Init /\ unique = TRUE

(* The entries the pages hold.                                              *)
Indexed ==
  CASE kind = "btree" -> BT!Indexed
    [] kind = "hash" -> EH!Indexed
    [] kind = "rtree" -> {<<Point[r], r>> : r \in RT!Indexed}
    [] kind = "text" -> {e \in TextRow : \E d \in DOMAIN nodes.lengths :
                           TX!DocRid(d) = e[2] /\ TX!Documents(nodes)[d] = TX!Counts(Text[e[1]])}
    [] Vectorial -> {<<i.key, i.rid>> : i \in VI!Held(nodes.index)}
    [] Sequential -> {<<row.key, row.len>> : row \in ToSet(SF!Scan(SF!This))}

Row ==
  CASE kind = "btree" -> IF unique THEN UniqueRow ELSE RepeatedRow
    [] kind = "hash" -> HashRow
    [] kind = "rtree" -> {<<Point[r], r>> : r \in DOMAIN Point}
    [] kind = "text" -> TextRow
    [] Vectorial -> VectorRow
    [] kind = "rows by key" -> KeyedRow
    [] kind = "rows by rid" -> RowByRid

(* _save_index_change of a text index: a change that cannot be saved is     *)
(* taken back in memory.  Save keeps the old file until the new one is      *)
(* whole.                                                                   *)
Saved(changed, restored) ==
  \/ nodes' = changed /\ root' = changed /\ raised' = "nothing"
  \/ nodes' = restored /\ raised' = "not saved" /\ UNCHANGED root

Vectors == [mem |-> nodes, disk |-> root]
Turns(o) == nodes' = o.mem /\ root' = o.disk /\ raised' = o.raised

(* register_insert                                                          *)
Insert(k, r) ==
  \/ kind = "btree" /\ BT!Insert(k, r)
  \/ kind = "hash" /\ EH!Insert(k, r) /\ UNCHANGED unique
  \/ kind = "rtree" /\ RT!Insert(r) /\ UNCHANGED <<unique, raised>>
  \/ /\ kind = "text" /\ UNCHANGED unique
     /\ LET with == TX!WithDocument(nodes, TX!DocId(r), Text[k])
        IN Saved(with, TX!WithoutDocument(with, TX!DocId(r)))
  \/ /\ Vectorial /\ UNCHANGED unique
     /\ kind = "hnsw" => nodes.index.next < MaxLabels
     /\ \E o \in VI!IndexRow(Vectors, k, r, Indexed \union {<<k, r>>}) : Turns(o)
  \/ Sequential /\ SF!Insert(k, r) /\ UNCHANGED unique

(* unregister_delete                                                        *)
Delete(k, r) ==
  \/ kind = "btree" /\ BT!Delete(k, r)
  \/ kind = "hash" /\ EH!Delete(k, r) /\ UNCHANGED unique
  \/ kind = "rtree" /\ RT!Delete(r) /\ UNCHANGED <<unique, raised>>
  \/ /\ kind = "text" /\ UNCHANGED unique
     /\ LET without == TX!WithoutDocument(nodes, TX!DocId(r))
        IN Saved(without, TX!WithDocument(without, TX!DocId(r), Text[k]))
  \/ /\ Vectorial /\ UNCHANGED unique
     /\ kind = "hnsw" => nodes.index.next < MaxLabels
     /\ \E o \in VI!UnindexRow(Vectors, k, r, Indexed) : Turns(o)
  \/ kind = "rows by key" /\ SF!DeleteKey(k) /\ UNCHANGED unique
  \/ /\ kind = "rows by rid"
     /\ \E rid \in SF!Rids : SF!Get(rid) = SF!Row(k, r) /\ SF!DeleteRid(rid)
     /\ UNCHANGED unique

(* register_update of a text or an object, whose row may move, and          *)
(* SequentialFile.update.                                                   *)
Update(k, r, new) ==
  \/ /\ kind = "rows by rid" /\ UNCHANGED unique
     /\ \E rid \in SF!Rids : SF!Get(rid) = SF!Row(k, r) /\ SF!Update(rid, SF!Row(new[1], new[2]))
  \/ /\ kind = "text" /\ new # <<k, r>> /\ UNCHANGED unique
     /\ LET old == TX!DocId(r)
            to == TX!DocId(new[2])
            gone(x) == TX!WithoutDocument(TX!WithoutDocument(x, old), to)
            changed == TX!WithDocument(gone(nodes), to, Text[new[1]])
        IN Saved(changed, TX!WithDocument(gone(changed), old, Text[k]))
  \/ /\ Vectorial /\ new # <<k, r>> /\ UNCHANGED unique
     /\ kind = "hnsw" => nodes.index.next + 1 < MaxLabels
     /\ \E o \in VI!UpdateRow(Vectors, <<k, r>>, new, (Indexed \ {<<k, r>>}) \union {new}) : Turns(o)

(* rank by TF-IDF computes the norms, and a restart loads the saved index.  *)
Rank == kind = "text" /\ nodes' = TX!WithNorms(nodes) /\ UNCHANGED <<root, unique, raised>>
Load ==
  \/ kind = "text" /\ nodes' = root /\ UNCHANGED <<root, unique, raised>>
  \/ /\ Vectorial /\ root.whole /\ nodes' = VI!Memory(root.index, root.extractor)
     /\ UNCHANGED <<root, unique, raised>>

(* A query for an object like the ones in the table may teach the extractor *)
(* a modality (VectorSearch.open); a crash has the index built anew from    *)
(* the rows (rebuild_derived).                                              *)
Ask(k) ==
  /\ Vectorial /\ nodes.extractor # <<>>
  /\ nodes' = [nodes EXCEPT !.extractor = VI!Extracting(@, k, TRUE)]
  /\ UNCHANGED <<root, unique, raised>>

Rebuild ==
  /\ Vectorial /\ UNCHANGED unique
  /\ \E o \in VI!Rebuilt(kind, root, Indexed) : Turns(o)

Reorganize == kind = "rows by key" /\ SF!Reorganize /\ UNCHANGED unique

(* The statement has seen to it that no other row has the key, or the slot. *)
Free(k) == \A e \in Indexed : e[1] # k
FreeRid(r) == \A e \in Indexed : e[2] # r
MayHold(k, r) == (Sequential => Free(k)) /\ (kind = "text" \/ Vectorial => FreeRid(r))

Next ==
  /\ UNCHANGED kind
  /\ \/ \E e \in Row \ Indexed : MayHold(e[1], e[2]) /\ Insert(e[1], e[2])
     \/ \E e \in Indexed : Delete(e[1], e[2])
     \/ \E e \in Indexed, f \in Row :
          /\ IF Sequential THEN f[1] = e[1] \/ Free(f[1]) ELSE f[2] = e[2] \/ FreeRid(f[2])
          /\ Update(e[1], e[2], f)
     \/ Reorganize \/ Rank \/ Load \/ Rebuild
     \/ \E k \in Sought : Ask(k)

Spec == Init /\ [][Next]_vars

-----------------------------------------------------------------------------
(* Every file is a set of entries that single operations change: nothing   *)
(* is lost in a split, a loan, a merge or a reorganization, an insert that  *)
(* raises half way through its splits takes nothing away, and a row that is *)
(* there can be removed (btree.py:157-415, extendible_hash_index.py:45-169, *)
(* rtree.py:188-339, sequential_file.py:177-450).  Keys of a B+ tree have   *)
(* one length here, and the room of its pages is one whose halves, after a  *)
(* split, are not both too empty: see AccessMethods_merge.cfg.              *)
KeyIndexSpec == INSTANCE KeyIndex WITH entries <- Indexed, updates <- (kind \in {"rows by rid", "text", "ivf", "hnsw"})
IsKeyIndex == KeyIndexSpec!Spec

(* The rows nearest to q: all k of them, unless only some lists are looked  *)
(* at.                                                                      *)
NearestFound(q, metric, k) ==
  LET found == VI!Search(nodes.index, q, k, metric)
      far(i) == VI!Distance(metric, q, Vector[i.key])
      exact == kind = "hnsw" \/ Len(nodes.index.centroids) <= Probes
  IN /\ \A n \in DOMAIN found : <<found[n].key, found[n].rid>> \in Indexed
     /\ \A m, n \in DOMAIN found : m < n => found[m].rid # found[n].rid /\ far(found[m]) <= far(found[n])
     /\ exact => /\ Len(found) = Min({k, Cardinality(Indexed)})
                 /\ \A i \in VI!Held(nodes.index) \ ToSet(found), n \in DOMAIN found : far(found[n]) <= far(i)

(* A search for the vector a row has gives the row, or as many as near: the *)
(* list it is in is the first that is looked at.                            *)
OwnVectorFinds(item) ==
  LET v == Vector[item.key]
      found == VI!Search(nodes.index, v, 1, "euclidean")
  IN found # <<>> /\ VI!Distance("euclidean", v, Vector[found[1].key]) = 0

(* As long as no key is held twice, a search in a B+ tree ends in the leaf  *)
(* that has the key, a range gives every row between its ends in order, and *)
(* a delete finds its entry; in a hash index both go straight to the one    *)
(* bucket with every row of the key (btree.py:46-160,                       *)
(* extendible_hash_index.py:124-169).  A window finds every row whose point *)
(* is in it and nothing else, through boxes that overlap, and a delete      *)
(* finds its row (rtree.py:141-286).  Both rankings of a text index find    *)
(* every document with a term of the query, from norms that are not stale,  *)
(* and the index is, in memory, on disk and up to its postings' order, what *)
(* SPIMI builds from the same rows (inverted_index.py, spimi.py).  The      *)
(* nearest k objects come in order and without doubles, all of them from a  *)
(* graph or when every list is looked at, and an object is found by its own *)
(* vector; the books of a vector index agree, and what rows had to teach    *)
(* the extractor is one codebook for each modality (ivf_index.py,           *)
(* hnsw_index.py, catalog.py:587-673).                                      *)
LookupsComplete ==
  LET held(k) == {e[2] : e \in {x \in Indexed : x[1] = k}}
      texts == SetToSeq({<<TX!DocId(e[2]), Text[e[1]]>> : e \in Indexed})
      hits(q) == {TX!DocId(e[2]) : e \in {x \in Indexed : \E t \in q : t \in ToSet(Text[x[1]])}}
      plain(x) == [x EXCEPT !.norms = <<>>]
  IN /\ kind = "btree" /\ unique =>
          /\ \A k \in DOMAIN KeyLen : BT!SearchAll(k) = held(k)
          /\ \A a, b \in DOMAIN KeyLen :
               LET found == BT!Between(a, b)
               IN /\ {e.rid : e \in ToSet(found)} = UNION {held(k) : k \in a .. b}
                  /\ \A i \in 1 .. Len(found) - 1 : found[i].key < found[i + 1].key
          /\ raised # "missing"
     /\ kind = "hash" =>
          (\A k \in DOMAIN Hash : EH!Search(k) = held(k)) /\ raised # "missing"
     /\ kind = "rtree" =>
          /\ \A w \in Window : RT!RangeQuery(w) = {e[2] : e \in {x \in Indexed : RT!BoxContains(w, x[1])}}
          /\ \A e \in Indexed : RT!DeleteBelow(nodes, root, e[2]).removed
     /\ kind = "text" =>
          /\ \A q \in Query : TX!Bm25(nodes, q) = hits(q) /\ TX!TfIdf(nodes, q) = hits(q)
          /\ nodes.norms \in {<<>>, TX!Norms(nodes)}
          /\ plain(nodes) = TX!IndexCorpus(texts) /\ plain(root) = plain(nodes)
     /\ Vectorial =>
          /\ VI!InStep(nodes.index)
          /\ raised = "nothing" => root.whole /\ VI!Held(root.index) = VI!Held(nodes.index)
          /\ \A q \in DOMAIN Vector, metric \in VI!Metric, n \in 1 .. 2 : NearestFound(Vector[q], metric, n)
          /\ \A i \in VI!Held(nodes.index) : OwnVectorFinds(i)
          /\ nodes.extractor # <<>> => \A i, j \in VI!Held(nodes.index) :
               Modality[i.key] = Modality[j.key] /\ ~i.by.query /\ ~j.by.query => i.by = j.by

(* Splits, loans and merges keep the tree balanced and every node within    *)
(* its page; as long as no key repeats they also keep the chain of the      *)
(* leaves in the order of the tree and its entries in key order, each of    *)
(* them once (btree.py:201-456).                                            *)
LeavesChained ==
  LET leaves == BT!InOrder(root)
      all == BT!ChainFrom(leaves[1])
  IN kind = "btree" =>
     /\ Cardinality(BT!Depth(root)) = 1
     /\ \A p \in DOMAIN nodes : BT!Fits(nodes[p])
     /\ unique =>
          /\ \A i \in DOMAIN leaves :
               nodes[leaves[i]].next = IF i = Len(leaves) THEN BT!NoSibling ELSE leaves[i + 1]
          /\ \A i \in 1 .. Len(all) - 1 : all[i].key < all[i + 1].key
          /\ Len(all) = Cardinality(Indexed)

(* The directory and the buckets agree on every local depth, two pointers   *)
(* lead to one bucket exactly when they agree on the bits of its depth      *)
(* (extendible_hash_index.py:75-114, 190-205), and, where keys have one     *)
(* length, an insert fails only when as many rows as a bucket holds share   *)
(* all the bits a directory has.                                            *)
BucketsShared ==
  LET at == root.at
      clash(k) == Cardinality({e \in Indexed : EH!BucketIdx(e[1], MaxDepth) = EH!BucketIdx(k, MaxDepth)})
      full(k) == BucketRoom \div (BucketSlot + PayloadLen[k])
      oneLength == \A k, l \in DOMAIN Hash : PayloadLen[k] = PayloadLen[l]
  IN kind = "hash" =>
     /\ \A i, j \in DOMAIN at :
          at[i].page = at[j].page <=> i % EH!Pow2[at[i].depth] = j % EH!Pow2[at[i].depth]
     /\ \A i \in DOMAIN at : at[i].depth = nodes[at[i].page].depth /\ at[i].depth <= root.depth
     /\ oneLength /\ raised = "directory full" => \E k \in DOMAIN Hash : clash(k) = full(k)

(* The box kept for a page is exactly the box of what it holds, so no       *)
(* descent misses a row, and no page below the root is empty or over full   *)
(* (rtree.py:188-354).                                                      *)
BoxesTight ==
  kind = "rtree" =>
    \A p \in RT!Reachable :
      LET es == nodes[p].entries
      IN /\ Len(es) <= Capacity
         /\ es # <<>> \/ p = root
         /\ nodes[p].leaf \/ \A e \in ToSet(es) : e.mbr = RT!Mbr(nodes[e.ref].entries)

(* Reading through the R-tree gives what reading every row would: a polygon *)
(* (as many of its edges turn left of the point as a convex ring has), and  *)
(* the nearest k rows, found in a circle that doubles (rtree.py:141-168,    *)
(* geometry.py:192-209, spatial_scan.py:285-326).                           *)
SpatialAnswers ==
  LET rows == {e[2] : e \in Indexed}
      inside(r, ring) == \A i \in 1 .. Len(ring) - 1 : RT!Cross(ring[i], ring[i + 1], Point[r]) >= 0
  IN kind = "rtree" =>
     /\ \A ring \in Region : RT!Within(ring) = {r \in rows : inside(r, ring)}
     /\ \A c \in Target, k \in 1 .. 2 : RT!Nearest(RT!Circle(c, 1, k, 8), c, k) = RT!Nearest(rows, c, k)

(* The live slots of a page and its chain stay in key order through shifts, *)
(* updates and reuse.  As long as the smallest row of a page is in the page *)
(* and not in its chain, and above the rows of the page before, a search by *)
(* key gives the row, and the scan gives every row once in key order; the   *)
(* clustered index gives the same row, but for a key below the smallest of  *)
(* every page, which is in the chain of the first                           *)
(* (sequential_file.py:211-217, 346-396, 496-604, clustered_index.py:65-71).*)
PagesInOrder ==
  LET Keys(p) == {row.key : row \in ToSet(SF!Live(nodes[p]))}
      Above(p) == Keys(p) \union {c[1] : c \in ToSet(root.chain[p])}
      all == SF!Scan(SF!This)
      regular == \A p \in 2 .. Len(nodes) :
                   \E low \in Keys(p) : (\A k \in Above(p - 1) : k < low) /\ (\A k \in Above(p) : low <= k)
      held(k) == SF!Kept(all, {i \in DOMAIN all : all[i].key = k})
      minima == SF!PageMinima(SF!This)
      below(k) == minima # {} /\ \A m \in minima : k < m[1]
  IN Sequential =>
     /\ \A p \in DOMAIN nodes :
          /\ \A i, j \in DOMAIN SF!Live(nodes[p]) : i < j => SF!Live(nodes[p])[i].key <= SF!Live(nodes[p])[j].key
          /\ \A i, j \in DOMAIN root.chain[p] : i < j => root.chain[p][i][1] < root.chain[p][j][1]
     /\ kind = "rows by key" /\ regular =>
          /\ \A i, j \in DOMAIN all : i < j => all[i].key < all[j].key
          /\ \A k \in {e[1] : e \in Row} :
               /\ SF!Search(SF!This, k) = held(k)
               /\ SF!ClusteredSearch(SF!This, k) = IF below(k) THEN <<>> ELSE held(k)

(* "Returns every RID stored under key" (search_all, btree.py:47).          *)
FindsEvery ==
  kind = "btree" => \A k \in DOMAIN KeyLen : BT!SearchAll(k) = {e[2] : e \in {x \in Indexed : x[1] = k}}

(* "Las consultas y las filas nuevas se extraen con este mismo codebook,    *)
(* para que sus vectores sean comparables con los del índice"               *)
(* (catalog.py:605-606).                                                    *)
OneCodebook ==
  Vectorial =>
    \A i \in VI!Held(nodes.index), m \in DOMAIN nodes.extractor :
      Modality[i.key] = m => i.by.of = nodes.extractor[m].of

(* "Returns the RID associated with the greatest key <= key" (predecessor,  *)
(* btree.py:74).                                                            *)
FindsPredecessor ==
  kind = "btree" /\ unique =>
    \A k \in DOMAIN KeyLen : BT!Predecessor(k) = {} => ~\E e \in Indexed : e[1] <= k

(* An entry that would fit on a page of its own fits into the tree: what an *)
(* insert refuses as too large is the entry, not the leaf (btree.py:128).   *)
FittingKeysTaken == kind = "btree" => raised # "too large"
=============================================================================
