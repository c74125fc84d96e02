------------------------------- MODULE RTree -------------------------------
(***************************************************************************)
(* The R-tree (src/src/index/rtree) and the scans that read it             *)
(* (query/executor/access/spatial_scan.py, processing/spatial_filter.py).  *)
(*                                                                         *)
(* A page is a list of entries: a box and a row in a leaf, a box and a     *)
(* page above.  Every row has one point; an operation is one step.         *)
(***************************************************************************)
EXTENDS Geometry, FiniteSets, SequencesExt

CONSTANTS Point,     \* rows and their points: [Rid -> Int \X Int]
          Capacity,  \* entries of a page
          MaxNodes   \* bound: pages of the index file

VARIABLES nodes, root

rtreeVars == <<nodes, root>>

Rows == DOMAIN Point

Leaf(entries) == [leaf |-> TRUE, entries |-> entries]
Inner(entries) == [leaf |-> FALSE, entries |-> entries]
Entry(mbr, ref) == [mbr |-> mbr, ref |-> ref]

Init == nodes = <<Leaf(<<>>)>> /\ root = 1

(* The pages of the tree; pages that were emptied stay in the file.         *)
Reachable ==
  LET below[p \in DOMAIN nodes] ==
        {p} \union IF nodes[p].leaf THEN {} ELSE UNION {below[e.ref] : e \in ToSet(nodes[p].entries)}
  IN below[root]

-----------------------------------------------------------------------------
(* One node.                                                                *)

Mbr(entries) ==
  LET upTo[n \in 0 .. Len(entries)] ==
        IF n = 0 THEN entries[1].mbr ELSE BoxUnion(upTo[n - 1], entries[n].mbr)
  IN upTo[Len(entries)]

Enlargement(b, added) == Area(BoxUnion(b, added)) - Area(b)

(* The first of the positions S at which a value is greatest.               *)
ArgMax(value, S) ==
  LET top == {i \in S : \A j \in S : value[i] >= value[j]} IN CHOOSE i \in top : \A j \in top : i <= j

(* The entry that begins last and the one that ends first on an axis, how   *)
(* far they are apart and how far the entries spread.                       *)
Axis(low, high) ==
  LET at == DOMAIN low
      least(value) == ArgMax([i \in at |-> -value[i]], at)
      hl == ArgMax(low, at)
      lh == least(high)
      width == high[ArgMax(high, at)] - low[least(low)]
  IN [pair |-> <<hl, lh>>, gap |-> IF width = 0 THEN 0 ELSE low[hl] - high[lh],
      width |-> IF width = 0 THEN 1 ELSE width]

(* The pair of entries whose centres are farthest apart.                    *)
Farthest(es) ==
  LET dist(i, j) ==
        LET dx == es[i].mbr.x0 + es[i].mbr.x1 - es[j].mbr.x0 - es[j].mbr.x1
            dy == es[i].mbr.y0 + es[i].mbr.y1 - es[j].mbr.y0 - es[j].mbr.y1
        IN dx * dx + dy * dy
      pairs == [n \in 1 .. Len(es) * Len(es) |-> <<1 + (n - 1) \div Len(es), 1 + ((n - 1) % Len(es))>>]
  IN pairs[ArgMax([n \in DOMAIN pairs |-> dist(pairs[n][1], pairs[n][2])],
                  {n \in DOMAIN pairs : pairs[n][1] < pairs[n][2]})]

(* _linear_split_seeds: the pair that lies farthest apart on one axis       *)
(* relative to the spread on it, unless that is one entry.                  *)
Seeds(es) ==
  LET x == Axis([i \in DOMAIN es |-> es[i].mbr.x0], [i \in DOMAIN es |-> es[i].mbr.x1])
      y == Axis([i \in DOMAIN es |-> es[i].mbr.y0], [i \in DOMAIN es |-> es[i].mbr.y1])
      best == IF y.gap * x.width > x.gap * y.width THEN y.pair ELSE x.pair
  IN IF best[1] # best[2] THEN best ELSE Farthest(es)

(* max(1, ceil(0.4 * capacity))                                             *)
MinimumFill == Greatest(1, (4 * Capacity + 9) \div 10)

ToLeft(left, right, e) ==
  LET lm == Mbr(left)  rm == Mbr(right)
      le == Enlargement(lm, e.mbr)  re == Enlargement(rm, e.mbr)
  IN IF le # re THEN le < re
     ELSE IF Area(lm) # Area(rm) THEN Area(lm) < Area(rm)
     ELSE Len(left) <= Len(right)

Halves(left, right, rest) == [left |-> left, right |-> right, rest |-> rest]

(* One more entry goes to its half, or all of them if it needs them.        *)
Distributed(h) ==
  LET lead == [j \in DOMAIN h.rest |->
                 Enlargement(Mbr(h.left), h.rest[j].mbr) - Enlargement(Mbr(h.right), h.rest[j].mbr)]
      i == ArgMax([j \in DOMAIN lead |-> Greatest(lead[j], -lead[j])], DOMAIN lead)
      e == h.rest[i]
  IN IF h.rest = <<>> THEN h
     ELSE IF Len(h.left) + Len(h.rest) = MinimumFill THEN Halves(h.left \o h.rest, h.right, <<>>)
     ELSE IF Len(h.right) + Len(h.rest) = MinimumFill THEN Halves(h.left, h.right \o h.rest, <<>>)
     ELSE IF ToLeft(h.left, h.right, e) THEN Halves(Append(h.left, e), h.right, RemoveAt(h.rest, i))
     ELSE Halves(h.left, Append(h.right, e), RemoveAt(h.rest, i))

SeededSplit(es, seeds) ==
  LET rest == RemoveAt(RemoveAt(es, Greatest(seeds[1], seeds[2])), Least(seeds[1], seeds[2]))
      after[n \in 0 .. Len(es)] ==
        IF n = 0 THEN Halves(<<es[seeds[1]]>>, <<es[seeds[2]]>>, rest)
        ELSE Distributed(after[n - 1])
  IN <<after[Len(es)].left, after[Len(es)].right>>

LinearSplit(es) == SeededSplit(es, Seeds(es))

-----------------------------------------------------------------------------
(* insert                                                                   *)

(* The child whose box grows least, then the smallest, then the oldest.     *)
Selected(es, mbr) ==
  LET before(a, b) ==
        LET ea == Enlargement(a.mbr, mbr)  eb == Enlargement(b.mbr, mbr)
        IN \/ ea < eb
           \/ ea = eb /\ Area(a.mbr) < Area(b.mbr)
           \/ ea = eb /\ Area(a.mbr) = Area(b.mbr) /\ a.ref <= b.ref
  IN CHOOSE i \in DOMAIN es : \A j \in DOMAIN es : before(es[i], es[j])

(* What a step leaves: the pages, the page's own new box, its new sibling.  *)
Grown(pages, mbr, split) == [pages |-> pages, mbr |-> mbr, split |-> split]

Halved(pages, p, halves) ==
  LET right == [pages[p] EXCEPT !.entries = halves[2]]
  IN Grown(Append([pages EXCEPT ![p].entries = halves[1]], right), Mbr(halves[1]),
           <<Entry(Mbr(halves[2]), Len(pages) + 1)>>)

(* The page gets the entries, or shares them with a new page.               *)
Placed(pages, p, es) ==
  IF Len(es) <= Capacity THEN Grown([pages EXCEPT ![p].entries = es], Mbr(es), <<>>)
  ELSE Halved(pages, p, LinearSplit(es))

(* A bug: the box above keeps the size it had before the child grew.        *)
KeepsOldBox(es, i, mbr) == es

WithBox(es, i, mbr) == [es EXCEPT ![i].mbr = mbr]

(* What became of child i goes up into page p.                              *)
Linked(p, i, below) ==
  Placed(below.pages, p, WithBox(below.pages[p].entries, i, below.mbr) \o below.split)

InsertBelow(pages, page, e) ==
  LET into[p \in Reachable] ==
        LET es == pages[p].entries
            i == Selected(es, e.mbr)
        IN IF pages[p].leaf THEN Placed(pages, p, Append(es, e)) ELSE Linked(p, i, into[es[i].ref])
  IN into[page]

(* A root that was split gets a page above it.                              *)
Rooted(done) ==
  LET top == Inner(<<Entry(done.mbr, root)>> \o done.split)
  IN /\ Len(done.pages) < MaxNodes \/ Len(done.pages) = Len(nodes)
     /\ IF done.split = <<>>
          THEN nodes' = done.pages /\ UNCHANGED root
          ELSE nodes' = Append(done.pages, top) /\ root' = Len(done.pages) + 1

Insert(r) == Rooted(InsertBelow(nodes, root, Entry(BoxOf(Point[r]), r)))

-----------------------------------------------------------------------------
(* delete: the boxes above shrink, an emptied page leaves its parent, pages *)
(* are never joined.                                                        *)

Nowhere == [removed |-> FALSE, pages |-> <<>>]

Removal(pages, p, es) == [removed |-> TRUE, pages |-> [pages EXCEPT ![p].entries = es]]

DeleteBelow(pages, page, r) ==
  LET from[p \in DOMAIN pages] ==
        LET es == pages[p].entries
            mine == SelectInSeq(es, LAMBDA e : e.ref = r)
            found == {i \in DOMAIN es : BoxContains(es[i].mbr, Point[r]) /\ from[es[i].ref].removed}
            first == CHOOSE i \in found : \A j \in found : i <= j
            done == from[es[first].ref]
            left == done.pages[es[first].ref].entries
        IN IF pages[p].leaf
             THEN IF mine = 0 THEN Nowhere ELSE Removal(pages, p, RemoveAt(es, mine))
           ELSE IF found = {} THEN Nowhere
           ELSE Removal(done.pages, p,
                        IF left = <<>> THEN RemoveAt(es, first) ELSE WithBox(es, first, Mbr(left)))
  IN from[page]

(* delete, with _shrink_root                                                *)
Delete(r) ==
  LET done == DeleteBelow(nodes, root, r)
      top == done.pages[root]
  IN IF ~done.removed THEN UNCHANGED rtreeVars
     ELSE /\ nodes' = IF top.entries = <<>> THEN [done.pages EXCEPT ![root] = Leaf(<<>>)] ELSE done.pages
          /\ root' = IF ~top.leaf /\ Len(top.entries) = 1 THEN top.entries[1].ref ELSE root

-----------------------------------------------------------------------------
(* Reading.                                                                 *)

RangeQuery(box) ==
  LET below[p \in DOMAIN nodes] ==
        LET hit == {e \in ToSet(nodes[p].entries) : Intersects(e.mbr, box)}
        IN IF nodes[p].leaf THEN {e.ref : e \in {x \in hit : BoxContains(box, <<x.mbr.x0, x.mbr.y0>>)}}
           ELSE UNION {below[e.ref] : e \in hit}
  IN below[root]

(* WHERE ST_WITHIN: candidates from the box of the polygon, then            *)
(* SpatialFilter.                                                           *)
Within(polygon) == {r \in RangeQuery(BoundingBox(polygon)) : PointInPolygon(Point[r], polygon)}

Distance2(p, q) == (p[1] - q[1]) * (p[1] - q[1]) + (p[2] - q[2]) * (p[2] - q[2])

(* ORDER BY distance LIMIT k, from the index: a circle that doubles until   *)
(* it holds k rows or everything.  The nearest k of its rows follow.        *)
Circle(center, first, k, reach) ==
  LET within[radius \in Nat] ==
        LET box == Box(center[1] - radius, center[2] - radius, center[1] + radius, center[2] + radius)
            inside == {r \in RangeQuery(box) : Distance2(center, Point[r]) <= radius * radius}
        IN IF Cardinality(inside) >= k \/ radius >= reach THEN inside ELSE within[Least(2 * radius, reach)]
  IN within[first]

Nearest(rows, center, k) ==
  LET key(r) == <<Distance2(center, Point[r]), r>>
      closer(a, b) == key(a)[1] < key(b)[1] \/ (key(a)[1] = key(b)[1] /\ a < b)
  IN {r \in rows : Cardinality({q \in rows : closer(q, r)}) < k}

-----------------------------------------------------------------------------
Indexed == UNION {{e.ref : e \in ToSet(nodes[p].entries)} : p \in {q \in Reachable : nodes[q].leaf}}
=============================================================================
