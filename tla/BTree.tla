------------------------------- MODULE BTree -------------------------------
(***************************************************************************)
(* The B+ tree index (src/src/index/btree): pages of entries, splits,      *)
(* borrowing, merging, the chain of the leaves.                            *)
(*                                                                         *)
(* An operation runs under the latch of its table and is one step.  Bytes  *)
(* are counted in units; a page is a leaf (entries in key order, the next  *)
(* leaf, the bytes its data area has given out) or an inner node.          *)
(***************************************************************************)
EXTENDS Integers, Sequences, FiniteSets, SequencesExt

CONSTANTS Key,       \* the indexed values, as integers in their order
          KeyLen,    \* the length of each key once encoded
          Rid,       \* rows
          PageRoom,  \* a page without its header
          RidSize, SlotSize, ChildSize,
          MaxNodes   \* bound: pages of the index file

VARIABLES
  nodes,    \* the pages of the index file
  root,     \* root_page_id
  unique,   \* is the tree told to refuse a key it holds?
  raised    \* what the last operation raised, or "nothing"

treeVars == <<nodes, root, unique, raised>>

NoSibling == 0

Leaf(entries, next, data) == [leaf |-> TRUE, entries |-> entries, next |-> next, data |-> data]
Inner(keys, children) == [leaf |-> FALSE, keys |-> keys, children |-> children]

Init ==
  /\ nodes = <<Leaf(<<>>, NoSibling, 0)>>
  /\ root = 1
  /\ unique \in BOOLEAN
  /\ raised = "nothing"

-----------------------------------------------------------------------------
(* One node.                                                                *)

Total(size(_), s) == FoldLeft(LAMBDA acc, x : acc + size(x), 0, s)

Count(n) == IF n.leaf THEN Len(n.entries) ELSE Len(n.keys)

EntryLen(e) == KeyLen[e.key] + RidSize
KeyBytes(keys) == Total(LAMBDA k : KeyLen[k], keys)

HasRoomFor(n, k) ==
  IF n.leaf
    THEN PageRoom - n.data - (Count(n) + 1) * SlotSize >= KeyLen[k] + RidSize
    ELSE PageRoom - KeyBytes(n.keys) - (Count(n) + 2) * ChildSize - (Count(n) + 1) * SlotSize
           >= KeyLen[k]

(* Removed entries leave their bytes behind in the data area of a leaf.     *)
Occupancy(n) ==
  Count(n) * SlotSize + IF n.leaf THEN n.data ELSE KeyBytes(n.keys) + (Count(n) + 1) * ChildSize

IsUnderflow(n) == 2 * Occupancy(n) < PageRoom

KeysOf(n) == IF n.leaf THEN [i \in DOMAIN n.entries |-> n.entries[i].key] ELSE n.keys

BisectLeft(keys, k) == 1 + Cardinality({i \in DOMAIN keys : keys[i] < k})
BisectRight(keys, k) == 1 + Cardinality({i \in DOMAIN keys : keys[i] <= k})

(* A bug: a key equal to a separator is looked for on its left.             *)
ChildIndexLeft(n, k) == BisectLeft(n.keys, k)

(* find_child_index                                                         *)
ChildIndex(n, k) == BisectRight(n.keys, k)

(* insert_leaf_entry: an entry goes before its equals.                      *)
WithEntry(n, e) ==
  [n EXCEPT !.entries = InsertAt(@, BisectLeft(KeysOf(n), e.key), e), !.data = @ + EntryLen(e)]

(* insert_internal_entry: the new child lies to the right of its key.       *)
WithChild(n, k, child) ==
  LET at == BisectRight(n.keys, k)
  IN Inner(InsertAt(n.keys, at, k), InsertAt(n.children, at + 1, child))

(* remove_leaf_entry, 0 if the leaf does not hold the entry.                *)
EntryIndex(n, e) == SelectInSeq(n.entries, LAMBDA x : x = e)

-----------------------------------------------------------------------------
(* Pages rebuilt by _rebuild_leaf and _rebuild_internal, one after the      *)
(* other: contents that do not fit raise IndexCorruptionError and leave     *)
(* what went in before.                                                     *)

RebuiltLeaf(entries, next) ==
  FoldLeft(LAMBDA n, e : WithEntry(n, e), Leaf(<<>>, next, 0), entries)

Fits(n) == Occupancy(n) <= PageRoom

Prefix(n, len) ==
  IF n.leaf THEN RebuiltLeaf(SubSeq(n.entries, 1, len), n.next)
  ELSE Inner(SubSeq(n.keys, 1, len), SubSeq(n.children, 1, len + 1))

Truncated(n) == Prefix(n, CHOOSE len \in 0 .. Count(n) :
                            /\ Fits(Prefix(n, len))
                            /\ len = Count(n) \/ ~Fits(Prefix(n, len + 1)))

Rebuild(pages, todo) ==
  FoldLeft(LAMBDA acc, step :
             IF acc.err # "nothing" THEN acc
             ELSE IF Fits(step.node) THEN [acc EXCEPT !.pages[step.page] = step.node]
             ELSE [pages |-> [acc.pages EXCEPT ![step.page] = Truncated(step.node)], err |-> "corrupt"],
           [pages |-> pages, err |-> "nothing"], todo)

Step(page, node) == [page |-> page, node |-> node]

-----------------------------------------------------------------------------
(* insert                                                                   *)

Abs(x) == IF x < 0 THEN -x ELSE x

(* The first of the fairest points at which both halves fit; 0 if none.     *)
FairestSplit(left(_), right(_), points, room) ==
  LET fit == {i \in points : left(i) <= room /\ right(i) <= room}
      gap(i) == Abs(left(i) - right(i))
      best == {i \in fit : \A j \in fit : gap(i) <= gap(j)}
  IN IF fit = {} THEN 0 ELSE CHOOSE i \in best : \A j \in best : i <= j

LeafSplitPoint(es) ==
  LET bytes(s) == Total(LAMBDA e : EntryLen(e) + SlotSize, s)
  IN FairestSplit(LAMBDA i : bytes(SubSeq(es, 1, i)), LAMBDA i : bytes(SubSeq(es, i + 1, Len(es))),
                  1 .. Len(es) - 1, PageRoom)

(* The key that moves up is the one after the first m.                      *)
InnerSplitPoint(keys) ==
  LET bytes(s) == Total(LAMBDA k : KeyLen[k] + SlotSize + ChildSize, s)
  IN FairestSplit(LAMBDA m : bytes(SubSeq(keys, 1, m)), LAMBDA m : bytes(SubSeq(keys, m + 2, Len(keys))),
                  1 .. Len(keys) - 1, PageRoom - ChildSize)

Inserted(pages, up, err) == [pages |-> pages, up |-> up, err |-> err]

(* A bug: the new leaf forgets who came after the old one.                  *)
SplitLeafDropsNext(pages, p, e) ==
  LET n == pages[p]
      all == InsertAt(n.entries, BisectRight(KeysOf(n), e.key), e)
      i == LeafSplitPoint(all)
      new == Len(pages) + 1
      right == RebuiltLeaf(SubSeq(all, i + 1, Len(all)), NoSibling)
  IN IF i = 0 THEN Inserted(pages, <<>>, "too large")
     ELSE Inserted(Append([pages EXCEPT ![p] = RebuiltLeaf(SubSeq(all, 1, i), new)], right),
                   <<all[i + 1].key, new>>, "nothing")

SplitLeaf(pages, p, e) ==
  LET n == pages[p]
      all == InsertAt(n.entries, BisectRight(KeysOf(n), e.key), e)
      i == LeafSplitPoint(all)
      new == Len(pages) + 1
      right == RebuiltLeaf(SubSeq(all, i + 1, Len(all)), n.next)
  IN IF i = 0 THEN Inserted(pages, <<>>, "too large")
     ELSE Inserted(Append([pages EXCEPT ![p] = RebuiltLeaf(SubSeq(all, 1, i), new)], right),
                   <<all[i + 1].key, new>>, "nothing")

SplitInnerAt(pages, p, n, m) ==
  LET new == Len(pages) + 1
      right == Inner(SubSeq(n.keys, m + 2, Len(n.keys)), SubSeq(n.children, m + 2, Len(n.children)))
  IN IF m = 0 THEN Inserted(pages, <<>>, "too large")
     ELSE Inserted(Append([pages EXCEPT ![p] = Prefix(n, m)], right), <<n.keys[m + 1], new>>, "nothing")

SplitInner(pages, p, up) ==
  LET n == WithChild(pages[p], up[1], up[2]) IN SplitInnerAt(pages, p, n, InnerSplitPoint(n.keys))

(* Is the key in the leaf of a tree that refuses duplicates?                *)
Refused(n, k) == unique /\ \E i \in DOMAIN n.entries : n.entries[i].key = k

(* What became of a child of n goes up into page p.                         *)
Linked(p, n, below) ==
  IF below.up = <<>> THEN below
  ELSE IF HasRoomFor(n, below.up[1])
    THEN Inserted([below.pages EXCEPT ![p] = WithChild(n, below.up[1], below.up[2])], <<>>, "nothing")
  ELSE SplitInner(below.pages, p, below.up)

InsertBelow(pages, page, e) ==
  LET into[p \in DOMAIN pages] ==
        LET n == pages[p] IN
        IF n.leaf THEN
          IF Refused(n, e.key) THEN Inserted(pages, <<>>, "duplicate")
          ELSE IF HasRoomFor(n, e.key) THEN Inserted([pages EXCEPT ![p] = WithEntry(n, e)], <<>>, "nothing")
          ELSE SplitLeaf(pages, p, e)
        ELSE
          Linked(p, n, into[n.children[ChildIndex(n, e.key)]])
  IN into[page]

(* _create_new_root: a root that was split gets a page above it.            *)
Rooted(done) ==
  LET grown == Append(done.pages, Inner(<<done.up[1]>>, <<root, done.up[2]>>))
  IN /\ Len(done.pages) < MaxNodes \/ Len(done.pages) = Len(nodes)
     /\ raised' = done.err
     /\ nodes' = IF done.up = <<>> THEN done.pages ELSE grown
     /\ root' = IF done.up = <<>> THEN root ELSE Len(grown)

Insert(k, r) ==
  LET e == [key |-> k, rid |-> r]
  IN /\ IF EntryLen(e) + SlotSize > PageRoom
          THEN raised' = "too large" /\ UNCHANGED <<nodes, root>>
          ELSE Rooted(InsertBelow(nodes, root, e))
     /\ UNCHANGED unique

-----------------------------------------------------------------------------
(* delete                                                                   *)

(* _replace_key and _remove_key_and_right_child                             *)
KeyReplaced(n, i, k) == Inner([n.keys EXCEPT ![i] = k], n.children)
ChildRemoved(n, i) == Inner(RemoveAt(n.keys, i), RemoveAt(n.children, i + 1))

BorrowFromLeft(pages, p, i) ==
  LET parent == pages[p]
      l == parent.children[i - 1]  c == parent.children[i]
      left == pages[l]  child == pages[c]
      taken == Last(left.entries)
  IN IF child.leaf
       THEN <<Step(l, RebuiltLeaf(Front(left.entries), left.next)),
              Step(c, RebuiltLeaf(<<taken>> \o child.entries, child.next)),
              Step(p, KeyReplaced(parent, i - 1, taken.key))>>
       ELSE <<Step(l, Inner(Front(left.keys), Front(left.children))),
              Step(c, Inner(<<parent.keys[i - 1]>> \o child.keys, <<Last(left.children)>> \o child.children)),
              Step(p, KeyReplaced(parent, i - 1, Last(left.keys)))>>

BorrowFromRight(pages, p, i) ==
  LET parent == pages[p]
      c == parent.children[i]  r == parent.children[i + 1]
      child == pages[c]  right == pages[r]
  IN IF child.leaf
       THEN <<Step(c, RebuiltLeaf(Append(child.entries, right.entries[1]), child.next)),
              Step(r, RebuiltLeaf(Tail(right.entries), right.next)),
              Step(p, KeyReplaced(parent, i, right.entries[2].key))>>
       ELSE <<Step(c, Inner(Append(child.keys, parent.keys[i]), Append(child.children, right.children[1]))),
              Step(r, Inner(Tail(right.keys), Tail(right.children))),
              Step(p, KeyReplaced(parent, i, right.keys[1]))>>

(* _merge_leaves and _merge_internal: child i + 1 goes into child i.  Room  *)
(* is found out about only while the page is rebuilt.  Nobody reads the     *)
(* right page again: its contents are forgotten here.                       *)
Merge(pages, p, i) ==
  LET parent == pages[p]
      l == parent.children[i]
      r == parent.children[i + 1]
      left == pages[l]  right == pages[r]
  IN <<Step(l, IF left.leaf THEN RebuiltLeaf(left.entries \o right.entries, right.next)
               ELSE Inner(Append(left.keys, parent.keys[i]) \o right.keys, left.children \o right.children)),
       Step(p, ChildRemoved(parent, i)), Step(r, Leaf(<<>>, NoSibling, 0))>>

CanLend(n) == ~IsUnderflow(n) /\ Count(n) > 1

(* _rebalance_child                                                         *)
Rebalance(pages, p, i) ==
  LET children == pages[p].children
  IN Rebuild(pages,
       IF i > 1 /\ CanLend(pages[children[i - 1]]) THEN BorrowFromLeft(pages, p, i)
       ELSE IF i < Len(children) /\ CanLend(pages[children[i + 1]]) THEN BorrowFromRight(pages, p, i)
       ELSE Merge(pages, p, IF i > 1 THEN i - 1 ELSE i))

(* Page p after a change, and is it short?                                  *)
Deleted(p, pages, err) ==
  [pages |-> pages, under |-> err = "nothing" /\ p # root /\ IsUnderflow(pages[p]), err |-> err]

Balanced(p, done) == Deleted(p, done.pages, done.err)

DeleteBelow(pages, page, e) ==
  LET from[p \in DOMAIN pages] ==
        LET n == pages[p]
            at == EntryIndex(n, e)
            i == ChildIndex(n, e.key)
            raise(below) == IF below.under THEN Balanced(p, Rebalance(below.pages, p, i)) ELSE below
        IN IF ~n.leaf THEN raise(from[n.children[i]])
           ELSE IF at = 0 THEN Deleted(p, pages, "missing")
           ELSE Deleted(p, [pages EXCEPT ![p].entries = RemoveAt(@, at)], "nothing")
  IN from[page]

(* _shrink_root_if_needed                                                   *)
Shrunk(done) ==
  LET top == done.pages[root]
  IN /\ nodes' = done.pages
     /\ raised' = done.err
     /\ root' = IF done.err = "nothing" /\ ~top.leaf /\ Count(top) = 0 THEN top.children[1] ELSE root
     /\ UNCHANGED unique

Delete(k, r) == Shrunk(DeleteBelow(nodes, root, [key |-> k, rid |-> r]))

-----------------------------------------------------------------------------
(* Reading.                                                                 *)

LeafFor(page, k) ==
  LET leaf[p \in DOMAIN nodes] ==
        IF nodes[p].leaf THEN p ELSE leaf[nodes[p].children[ChildIndex(nodes[p], k)]]
  IN leaf[page]

ChainFrom(page) ==
  LET from[p \in DOMAIN nodes \union {NoSibling}] ==
        IF p = NoSibling THEN <<>> ELSE nodes[p].entries \o from[nodes[p].next]
  IN from[page]

TakeWhile(test(_), s) ==
  LET stop == SelectInSeq(s, LAMBDA x : ~test(x))
  IN IF stop = 0 THEN s ELSE SubSeq(s, 1, stop - 1)

(* search_all: the equals of the one leaf the descent ends in, and on       *)
(* along the chain.                                                         *)
SearchAll(k) ==
  LET n == nodes[LeafFor(root, k)]
      here == SelectSeq(n.entries, LAMBDA e : e.key = k)
      there == TakeWhile(LAMBDA e : e.key = k, ChainFrom(n.next))
  IN {e.rid : e \in ToSet(here \o there)}

(* predecessor: the last entry that is not above the key, from that leaf on *)
Predecessor(k) ==
  LET upTo == TakeWhile(LAMBDA e : e.key <= k, ChainFrom(LeafFor(root, k)))
  IN IF upTo = <<>> THEN {} ELSE {Last(upTo)}

(* range                                                                    *)
Between(a, b) ==
  LET from == SelectSeq(nodes[LeafFor(root, a)].entries, LAMBDA e : e.key >= a)
      entries == from \o ChainFrom(nodes[LeafFor(root, a)].next)
  IN TakeWhile(LAMBDA e : e.key <= b, entries)

-----------------------------------------------------------------------------
(* The leaves as the tree orders them, and their entries.                   *)
InOrder(page) ==
  LET leaves[p \in DOMAIN nodes] ==
        IF nodes[p].leaf THEN <<p>>
        ELSE FoldLeft(LAMBDA acc, c : acc \o leaves[c], <<>>, nodes[p].children)
  IN leaves[page]

Depth(page) ==
  LET depths[p \in DOMAIN nodes] ==
        IF nodes[p].leaf THEN {0} ELSE {d + 1 : d \in UNION {depths[c] : c \in ToSet(nodes[p].children)}}
  IN depths[page]

Indexed == UNION {{<<e.key, e.rid>> : e \in ToSet(nodes[p].entries)} : p \in ToSet(InOrder(root))}
=============================================================================
