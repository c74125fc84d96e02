----------------------------- MODULE HeapSlots -----------------------------
(***************************************************************************)
(* A heap table as its callers see it (storage/heap/heap_file.py): a       *)
(* directory of slots, named by RIDs, each of which is empty, holds a row, *)
(* or forwards to the slot its row was moved to.  Where a row lies inside  *)
(* its page, and which free slot is large enough for it, is left open: an  *)
(* insertion takes any free slot.                                          *)
(***************************************************************************)
EXTENDS Naturals, FiniteSets

CONSTANTS Rid,        \* row identifiers, in scan order
          Row,        \* row contents
          Empty       \* what an empty slot holds (and get() says None)

ASSUME RidAssumption == Rid \subseteq Nat /\ IsFiniteSet(Rid)
\* (the status of a slot tells rows, forwarding pointers and nothing apart)
ASSUME SlotAssumption == Empty \notin Row /\ (Row \cup {Empty}) \cap Rid = {}

Slot == Row \cup Rid \cup {Empty}
Heap == [Rid -> Slot]

IsForward(h, r) == h[r] \in Rid

(* The slots get() and delete() visit from r: r and where it forwards to.   *)
Chain(h, r) ==
  LET after[n \in 0 .. Cardinality(Rid)] ==
        IF n = 0 THEN {r}
        ELSE LET met == after[n - 1] IN met \cup {h[x] : x \in {y \in met : IsForward(h, y)}}
  IN after[Cardinality(Rid)]

(* The slot at the end of the forwarding pointers.                          *)
Target(h, r) == CHOOSE x \in Chain(h, r) : ~ IsForward(h, x)

(* get(rid): the row, or Empty.                                             *)
Get(h, r) == h[Target(h, r)]

FreeSlots(h) == {r \in Rid : h[r] = Empty}

(* insert(record) into the free slot e.                                     *)
Insert(h, e, row) == [h EXCEPT ![e] = row]

(* delete(rid): empties the slot and every slot it forwards to.             *)
Delete(h, r) == [x \in Rid |-> IF x \in Chain(h, r) THEN Empty ELSE h[x]]

(* update(rid, row): what may become of the heap, and the RID returned.     *)
(* Rows of different lengths (moves) need not fit where the old one was.    *)
(* The row is overwritten in place, or inserted elsewhere with a forwarding *)
(* pointer left behind; a caller that came through a forwarding pointer     *)
(* gets its own RID back, the others get the new one.                       *)
Update(h, r, row, moves) ==
  LET s == Target(h, r)
      inPlace == [heap |-> [h EXCEPT ![s] = row], rid |-> r]
      moved(e) == [heap |-> [h EXCEPT ![e] = row, ![s] = e],
                   rid  |-> IF IsForward(h, r) THEN r ELSE e]
  IN {inPlace} \cup IF moves THEN {moved(e) : e \in FreeSlots(h) \ {s}} ELSE {}

(* The rows scan() yields, as a bag: how often each row is stored.          *)
Stored(h) == [v \in Row |-> Cardinality({r \in Rid : h[r] = v})]
=============================================================================
