------------------------------ MODULE Geometry ------------------------------
(***************************************************************************)
(* Points, boxes and polygons (src/src/spatial/geometry.py), on a grid of  *)
(* whole coordinates.  A point is <<x, y>>; a polygon is the sequence of   *)
(* its vertices, the first repeated at the end.                            *)
(***************************************************************************)
EXTENDS Integers, Sequences

Least(a, b) == IF a <= b THEN a ELSE b
Greatest(a, b) == IF a >= b THEN a ELSE b

Box(x0, y0, x1, y1) == [x0 |-> x0, y0 |-> y0, x1 |-> x1, y1 |-> y1]
BoxOf(p) == Box(p[1], p[2], p[1], p[2])

BoxUnion(b, c) ==
  Box(Least(b.x0, c.x0), Least(b.y0, c.y0), Greatest(b.x1, c.x1), Greatest(b.y1, c.y1))

Area(b) == (b.x1 - b.x0) * (b.y1 - b.y0)

BoxContains(b, p) == p[1] \in b.x0 .. b.x1 /\ p[2] \in b.y0 .. b.y1

Intersects(b, c) == b.x0 <= c.x1 /\ c.x0 <= b.x1 /\ b.y0 <= c.y1 /\ c.y0 <= b.y1

BoundingBox(polygon) ==
  LET xs == {polygon[i][1] : i \in DOMAIN polygon}
      ys == {polygon[i][2] : i \in DOMAIN polygon}
      low(s) == CHOOSE v \in s : \A w \in s : v <= w
      high(s) == CHOOSE v \in s : \A w \in s : v >= w
  IN Box(low(xs), low(ys), high(xs), high(ys))

-----------------------------------------------------------------------------
(* point_in_polygon: the edges a ray from the point to the right crosses.   *)

Cross(a, b, c) == (b[1] - a[1]) * (c[2] - a[2]) - (b[2] - a[2]) * (c[1] - a[1])

PointOnSegment(p, a, b) == Cross(a, b, p) = 0 /\ BoxContains(BoxUnion(BoxOf(a), BoxOf(b)), p)

(* point.x < crossing_x, multiplied by end.y - start.y.                     *)
LeftOfCrossing(p, a, b) ==
  LET dy == b[2] - a[2]
      gap == (a[1] - p[1]) * dy + (p[2] - a[2]) * (b[1] - a[1])
  IN IF dy > 0 THEN gap > 0 ELSE gap < 0

(* A bug: an end that lies on the ray counts for both of its edges.         *)
CrossesClosed(p, a, b) ==
  /\ p[2] \in Least(a[2], b[2]) .. Greatest(a[2], b[2]) /\ a[2] # b[2]
  /\ LeftOfCrossing(p, a, b)

Crosses(p, a, b) == (a[2] > p[2]) # (b[2] > p[2]) /\ LeftOfCrossing(p, a, b)

PointInPolygon(p, polygon) ==
  LET edges == 1 .. Len(polygon) - 1
      crossed == {i \in edges : Crosses(p, polygon[i], polygon[i + 1])}
      on == \E i \in edges : PointOnSegment(p, polygon[i], polygon[i + 1])
      odd[n \in 0 .. Len(polygon)] == IF n = 0 THEN FALSE ELSE (n \in crossed) # odd[n - 1]
  IN /\ BoxContains(BoundingBox(polygon), p)
     /\ on \/ odd[Len(polygon)]
=============================================================================
