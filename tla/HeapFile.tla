------------------------------ MODULE HeapFile ------------------------------
(***************************************************************************)
(* Heap files of slotted pages (src/src/storage/heap/heap_file.py): rows   *)
(* of different lengths, free-space reuse, compaction, forwarding.         *)
(*                                                                         *)
(* Every operation runs under the latch of the table and is one step.      *)
(* Lengths are in units of the smallest row; a row is written as so many   *)
(* copies of its value, so that a read of bytes that belong to another row *)
(* shows.  Pages and slots are counted from 1 (the code counts from 0).    *)
(***************************************************************************)
EXTENDS Integers, Sequences, FiniteSets

CONSTANTS Row,         \* row contents
          Size,        \* the length of each row once encoded
          PageSize,    \* PAGE_SIZE
          HeaderSize,  \* HEADER_SIZE
          SlotSize,    \* SLOT_SIZE
          MaxPages,    \* bound: pages in the file
          Zero,        \* an unwritten unit
          Garbled      \* what decoding bytes of several rows gives

ASSUME SizeAssumption == Size \in [Row -> Nat \ {0}]
ASSUME RowsFit == \A v \in Row : Size[v] + SlotSize <= PageSize - HeaderSize
ASSUME LayoutAssumption == {PageSize, HeaderSize, SlotSize, MaxPages} \subseteq Nat \ {0}
\* (the status of a slot tells rows, forwarding pointers and nothing apart)
ASSUME RowsAreNoRids == Zero \notin Row /\ \A v \in Row \cup {Zero} : v \notin Nat

VARIABLES
  pages,    \* the pages, as the buffer pool shows them
  hint,     \* _page_hint
  returned  \* the RID the last operation returned, or NoRid

heapVars == <<pages, hint, returned>>

NoRid == <<0, 0>>

(* A slot is EMPTY or VALID with an offset and a length, or FORWARDED with  *)
(* a page and a slot.                                                       *)
SlotEntry(status, a, b) == [status |-> status, a |-> a, b |-> b]

Unwritten == [k \in 0 .. PageSize - 1 |-> Zero]

(* A page as _allocate_and_init_page leaves it, and one that was allocated  *)
(* by a process that died before its header reached the disk.               *)
FreshPage == [slots |-> <<>>, free |-> PageSize, data |-> Unwritten]
BlankPage == [slots |-> <<>>, free |-> 0, data |-> Unwritten]

Init ==
  /\ pages \in {<<FreshPage>>, <<BlankPage>>}
  /\ hint = 0
  /\ returned = NoRid

-----------------------------------------------------------------------------
(* One page.                                                                *)

SlotsWith(pg, status) == {i \in DOMAIN pg.slots : pg.slots[i].status = status}

Bytes(a, b) == a .. a + b - 1

ReadRow(pg, i) ==
  LET s == pg.slots[i]
      ofRow(v) == s.b = Size[v] /\ \A k \in Bytes(s.a, s.b) : pg.data[k] = v
  IN IF \E v \in Row : ofRow(v) THEN CHOOSE v \in Row : ofRow(v) ELSE Garbled

WriteRow(pg, a, v) ==
  [pg EXCEPT !.data = [k \in DOMAIN @ |-> IF k \in Bytes(a, Size[v]) THEN v ELSE @[k]]]

SetSlot(pg, i, entry) == [pg EXCEPT !.slots[i] = entry]

ReusableSlots(pg, v) == {i \in SlotsWith(pg, "EMPTY") : pg.slots[i].b >= Size[v]}

(* A bug: the entry of the new slot is not counted.                         *)
CanAppendForgetsSlot(pg, v) ==
  pg.free - (HeaderSize + Len(pg.slots) * SlotSize) >= Size[v]

CanAppend(pg, v) ==
  pg.free - (HeaderSize + Len(pg.slots) * SlotSize) >= SlotSize + Size[v]

(* _try_insert_into_page: is there room, and in which slot?                 *)
HasRoom(pg, v) == ReusableSlots(pg, v) # {} \/ CanAppend(pg, v)

Least(S) == CHOOSE x \in S : \A y \in S : x <= y

SlotFor(pg, v) == IF ReusableSlots(pg, v) # {} THEN Least(ReusableSlots(pg, v)) ELSE Len(pg.slots) + 1

(* ... and the page afterwards.                                             *)
InsertedInto(pg, v) ==
  LET i == SlotFor(pg, v)
      offset == pg.free - Size[v]
  IN IF ReusableSlots(pg, v) # {}
       THEN SetSlot(WriteRow(pg, pg.slots[i].a, v), i, SlotEntry("VALID", pg.slots[i].a, Size[v]))
       ELSE [WriteRow(pg, offset, v) EXCEPT
               !.slots = Append(@, SlotEntry("VALID", offset, Size[v])), !.free = offset]

(* compact_page: the live rows, in slot order, are packed at the end of the *)
(* page; Packed(pg, i) is where the row of slot i begins then.              *)
Packed(pg, i) ==
  LET live == SlotsWith(pg, "VALID")
      start[j \in 0 .. Len(pg.slots)] ==
        IF j = 0 THEN PageSize ELSE IF j \in live THEN start[j - 1] - pg.slots[j].b ELSE start[j - 1]
  IN start[i]

(* A bug: empty slots keep the room they had.                               *)
CompactKeepsRoom(pg) ==
  LET live == SlotsWith(pg, "VALID")
      from(k) == {i \in live : k \in Bytes(Packed(pg, i), pg.slots[i].b)}
  IN [slots |-> [i \in DOMAIN pg.slots |->
                   IF i \in live THEN [pg.slots[i] EXCEPT !.a = Packed(pg, i)] ELSE pg.slots[i]],
      free  |-> Packed(pg, Len(pg.slots)),
      data  |-> [k \in DOMAIN pg.data |->
                   IF from(k) = {} THEN pg.data[k]
                   ELSE LET i == Least(from(k)) IN pg.data[pg.slots[i].a + k - Packed(pg, i)]]]

Compact(pg) ==
  LET live == SlotsWith(pg, "VALID")
      from(k) == {i \in live : k \in Bytes(Packed(pg, i), pg.slots[i].b)}
      entry(i) == CASE i \in live -> [pg.slots[i] EXCEPT !.a = Packed(pg, i)]
                    [] pg.slots[i].status = "EMPTY" -> SlotEntry("EMPTY", 0, 0)
                    [] OTHER -> pg.slots[i]
  IN [slots |-> [i \in DOMAIN pg.slots |-> entry(i)],
      free  |-> Packed(pg, Len(pg.slots)),
      data  |-> [k \in DOMAIN pg.data |->
                   IF from(k) = {} THEN pg.data[k]
                   ELSE LET i == Least(from(k)) IN pg.data[pg.slots[i].a + k - Packed(pg, i)]]]

-----------------------------------------------------------------------------
(* insert(), given the pages p: the pages are tried in order from the hint, *)
(* then those with empty slots are compacted and tried again, then a page   *)
(* is allocated.  The result: the pages, the hint and the RID.              *)

From(p, k) == ((hint + k) % Len(p)) + 1

(* A bug: the RID of the slot after the one that was filled.                *)
InsertAtNextSlot(p, n, v) ==
  [pages |-> [p EXCEPT ![n] = InsertedInto(@, v)], hint |-> n - 1, rid |-> <<n, SlotFor(p[n], v) + 1>>]

InsertAt(p, n, v) ==
  [pages |-> [p EXCEPT ![n] = InsertedInto(@, v)], hint |-> n - 1, rid |-> <<n, SlotFor(p[n], v)>>]

InsertResult(p, v) ==
  LET turns == 0 .. Len(p) - 1
      fits == {k \in turns : HasRoom(p[From(p, k)], v)}
      worn == {k \in turns : SlotsWith(p[From(p, k)], "EMPTY") # {}}
      made == {k \in worn : HasRoom(Compact(p[From(p, k)]), v)}
      CompactedUpTo(k) == [n \in DOMAIN p |->
        IF \E j \in worn : j <= k /\ From(p, j) = n THEN Compact(p[n]) ELSE p[n]]
  IN CASE fits # {} -> InsertAt(p, From(p, Least(fits)), v)
       [] fits = {} /\ made # {} -> InsertAt(CompactedUpTo(Least(made)), From(p, Least(made)), v)
       [] OTHER -> InsertAt(Append(CompactedUpTo(Len(p)), FreshPage), Len(p) + 1, v)

InsertRow(v) ==
  LET res == InsertResult(pages, v)
  IN /\ Len(res.pages) <= MaxPages
     /\ pages' = res.pages
     /\ hint' = res.hint
     /\ returned' = res.rid

-----------------------------------------------------------------------------
(* Rows behind RIDs.                                                        *)

UsedRids == UNION {{n} \X DOMAIN pages[n].slots : n \in DOMAIN pages}

Entry(rid) == pages[rid[1]].slots[rid[2]]
Forwarded(rid) == Entry(rid).status = "FORWARDED"
PointedTo(rid) == <<Entry(rid).a, Entry(rid).b>>

(* The slots a chain of forwarding pointers visits.                         *)
Visited(rid) ==
  LET after[n \in 0 .. Cardinality(UsedRids)] ==
        IF n = 0 THEN {rid}
        ELSE LET met == after[n - 1] IN met \cup {PointedTo(x) : x \in {y \in met : Forwarded(y)}}
  IN after[Cardinality(UsedRids)]

End(rid) == CHOOSE x \in Visited(rid) : ~ Forwarded(x)

(* A bug: only the slot of the given RID is emptied.                        *)
DeleteRowOwnSlot(rid) ==
  /\ pages' = [pages EXCEPT ![rid[1]] = SetSlot(@, rid[2],
       IF Forwarded(rid) THEN SlotEntry("EMPTY", 0, 0) ELSE SlotEntry("EMPTY", Entry(rid).a, Entry(rid).b))]
  /\ returned' = NoRid
  /\ UNCHANGED hint

(* delete(rid): forwarding slots on the way lose their pointer, the row's   *)
(* slot keeps its offset and length.                                        *)
DeleteRow(rid) ==
  /\ pages' = [n \in DOMAIN pages |->
       [pages[n] EXCEPT !.slots = [i \in DOMAIN @ |->
          IF <<n, i>> \notin Visited(rid) THEN @[i]
          ELSE IF @[i].status = "FORWARDED" THEN SlotEntry("EMPTY", 0, 0)
          ELSE SlotEntry("EMPTY", @[i].a, @[i].b)]]]
  /\ returned' = NoRid
  /\ UNCHANGED hint

FitsInPlace(x, v) == Size[v] <= Entry(x).b

(* update(rid, v), at the end x of the chain: in place, or elsewhere with a *)
(* forwarding pointer left behind.                                          *)
UpdateInPlace(rid, v) ==
  LET x == End(rid)
      e == Entry(x)
  IN /\ FitsInPlace(x, v)
     /\ pages' = [pages EXCEPT ![x[1]] = SetSlot(WriteRow(@, e.a, v), x[2],
                                                 SlotEntry("VALID", e.a, Size[v]))]
     /\ returned' = rid
     /\ UNCHANGED hint

(* A bug: the pointer that is left behind names the old RID.                *)
RelocatePointsBack(rid, v) ==
  LET x == End(rid)
      res == InsertResult(pages, v)
  IN /\ ~ FitsInPlace(x, v)
     /\ Len(res.pages) <= MaxPages
     /\ pages' = [res.pages EXCEPT ![x[1]] = SetSlot(@, x[2], SlotEntry("FORWARDED", rid[1], rid[2]))]
     /\ hint' = res.hint
     /\ returned' = IF Forwarded(rid) THEN rid ELSE res.rid

Relocate(rid, v) ==
  LET x == End(rid)
      res == InsertResult(pages, v)
  IN /\ ~ FitsInPlace(x, v)
     /\ Len(res.pages) <= MaxPages
     /\ pages' = [res.pages EXCEPT ![x[1]] =
                    SetSlot(@, x[2], SlotEntry("FORWARDED", res.rid[1], res.rid[2]))]
     /\ hint' = res.hint
     /\ returned' = IF Forwarded(rid) THEN rid ELSE res.rid

Next ==
  \/ \E v \in Row : InsertRow(v)
  \/ \E rid \in UsedRids : DeleteRow(rid)
  \/ \E rid \in UsedRids, v \in Row : UpdateInPlace(rid, v) \/ Relocate(rid, v)

Spec == Init /\ [][Next]_heapVars

-----------------------------------------------------------------------------
(* Properties.                                                              *)

MaxSlots == (PageSize - HeaderSize) \div SlotSize

TypeOK ==
  /\ Len(pages) \in 1 .. MaxPages
  /\ \A n \in DOMAIN pages :
       /\ pages[n].free \in 0 .. PageSize
       /\ pages[n].data \in [0 .. PageSize - 1 -> Row \cup {Zero}]
       /\ \A i \in DOMAIN pages[n].slots :
            LET e == pages[n].slots[i]
            IN IF e.status = "FORWARDED" THEN <<e.a, e.b>> \in UsedRids
               ELSE e.status \in {"EMPTY", "VALID"} /\ e.a \in Nat /\ e.b \in Nat
  /\ hint \in 0 .. Len(pages) - 1
  /\ returned \in UsedRids \cup {NoRid}

(* The areas of a page: the header and slot array grow up, the rows lie     *)
(* above the free space, and no two slots claim the same bytes, whatever    *)
(* reuse, shrinking, compaction and relocation came before.                 *)
Area(pg, i) ==
  IF pg.slots[i].status = "FORWARDED" THEN {} ELSE Bytes(pg.slots[i].a, pg.slots[i].b)

Disjoint ==
  \A n \in DOMAIN pages :
    LET pg == pages[n]
    IN /\ pg.slots # <<>> => HeaderSize + Len(pg.slots) * SlotSize <= pg.free
       /\ \A i \in DOMAIN pg.slots : Area(pg, i) \subseteq pg.free .. PageSize - 1
       /\ \A i, j \in DOMAIN pg.slots : i # j => Area(pg, i) \cap Area(pg, j) = {}

(* Forwarding pointers lead somewhere: get() and update() terminate.        *)
ChainsEnd == \A rid \in UsedRids : \E x \in Visited(rid) : ~ Forwarded(x)

(* The row get(rid) returns, Zero for None.                                 *)
Get(rid) ==
  LET x == End(rid) IN IF Entry(x).status = "VALID" THEN ReadRow(pages[x[1]], x[2]) ELSE Zero

(* "A Record ID uniquely and stably identifies a record" (rid.py): a row    *)
(* that is inserted is found under its own RID and no other.                *)
InsertsUnderOneRid ==
  [][\A v \in Row : InsertRow(v) =>
       \A rid \in UsedRids \ {returned'} : Get(rid)' = Get(rid)]_heapVars

(* "Always returns the ORIGINAL rid" (update()).                            *)
UpdateReturnsOriginal ==
  [][\A rid \in UsedRids, v \in Row : Relocate(rid, v) => returned' = rid]_heapVars

(* "Tries to reuse space left by a lazy delete or a shrinking update first; *)
(* ... and finally to allocating a new page if no existing page has room"   *)
(* (insert()): a page is added when even compaction would make no room.     *)
(* (A page without a header is another matter: nothing is ever put there.)  *)
GrowsOnlyWhenFull ==
  [][\A v \in Row : InsertRow(v) /\ Len(pages') > Len(pages) =>
       \A n \in DOMAIN pages : pages[n] # BlankPage => ~ HasRoom(Compact(pages[n]), v)]_heapVars

(* The file implements a table of slots: an operation changes the row it is *)
(* about and no other, every row reads back as it was written, and RIDs go  *)
(* on leading to their rows.                                                *)
Number(rid) == (rid[1] - 1) * MaxSlots + rid[2]

Contents(rid) ==
  IF rid[1] \notin DOMAIN pages \/ rid[2] \notin DOMAIN pages[rid[1]].slots THEN Zero
  ELSE CASE Forwarded(rid) -> Number(PointedTo(rid))
         [] Entry(rid).status = "VALID" -> ReadRow(pages[rid[1]], rid[2])
         [] OTHER -> Zero

RidOf(x) == <<((x - 1) \div MaxSlots) + 1, ((x - 1) % MaxSlots) + 1>>

Slots == INSTANCE SlotTable WITH
           Rid <- 1 .. MaxPages * MaxSlots, Empty <- Zero,
           slots <- [x \in 1 .. MaxPages * MaxSlots |-> Contents(RidOf(x))],
           returned <- IF returned = NoRid THEN 0 ELSE Number(returned)

ImplementsSlotTable == Slots!Spec
=============================================================================
