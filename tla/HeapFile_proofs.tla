-------------------------- MODULE HeapFile_proofs --------------------------
(***************************************************************************)
(* Proofs about heap files, for any rows, row lengths, page layout and     *)
(* number of pages: pages stay laid out, live slots readable and chains of *)
(* forwarding pointers finite, and a file implements a table of slots.     *)
(***************************************************************************)
EXTENDS HeapFile, Induction_proofs, SequenceTheorems

SlotSet == [status : {"EMPTY", "VALID", "FORWARDED"}, a : Nat, b : Nat]
PageSet == [slots : Seq(SlotSet), free : 0 .. PageSize, data : [0 .. PageSize - 1 -> Row \cup {Zero}]]

(* The first byte behind the header and n slots.                            *)
Top(n) == HeaderSize + n * SlotSize

(* The layout of a page.                                                    *)
Laid(pg) ==
  /\ pg \in PageSet
  /\ pg.slots # <<>> => Top(Len(pg.slots)) <= pg.free
  /\ \A i \in DOMAIN pg.slots : Area(pg, i) \subseteq pg.free .. PageSize - 1
  /\ \A i, j \in DOMAIN pg.slots : i # j => Area(pg, i) \cap Area(pg, j) = {}

Written(pg, i, v) == pg.slots[i].b = Size[v] /\ \A k \in Bytes(pg.slots[i].a, pg.slots[i].b) : pg.data[k] = v

(* What can be read: every live slot holds a row, in full.                  *)
Readable(pg) == \A i \in SlotsWith(pg, "VALID") : \E v \in Row : Written(pg, i, v)

GoodPage(pg) == Laid(pg) /\ Readable(pg)

-----------------------------------------------------------------------------
(* Numbers.                                                                 *)

(* The constants of the page layout and the lengths of rows are numbers.    *)
LEMMA Layout == /\ PageSize \in Nat \ {0} /\ HeaderSize \in Nat \ {0} /\ SlotSize \in Nat \ {0}
                /\ MaxPages \in Nat \ {0}
                /\ \A v \in Row : Size[v] \in Nat /\ Size[v] > 0
BY LayoutAssumption, SizeAssumption

(* Each slot entry takes SlotSize bytes; one and any row fit in a page.     *)
LEMMA TopSteps ==
  /\ \A n \in Nat : Top(n) \in Nat /\ Top(n) > 0 /\ Top(n + 1) = Top(n) + SlotSize
  /\ \A v \in Row : Top(1) + Size[v] <= PageSize
<1>1. ASSUME NEW n \in Nat
      PROVE  n * SlotSize \in Nat /\ (n + 1) * SlotSize = n * SlotSize + SlotSize
  BY Layout
<1>2. 1 * SlotSize = SlotSize
  BY Layout
<1>3. \A v \in Row : Top(1) + Size[v] <= PageSize
  BY <1>2, Layout, RowsFit DEF Top
<1> QED
  BY <1>1, <1>3, Layout DEF Top

(* Least gives the least member.                                            *)
LEMMA LeastIsLeast ==
  ASSUME NEW S, S \subseteq Nat, S # {}
  PROVE  Least(S) \in S /\ \A y \in S : Least(S) <= y
<1>1. \E x \in S : \A y \in S : x <= y
  BY LeastNat
<1> QED
  BY <1>1, Zenon DEF Least

-----------------------------------------------------------------------------
(* One page.                                                                *)

(* What the fields of a page are.                                           *)
LEMMA PageTypes ==
  ASSUME NEW pg \in PageSet
  PROVE  /\ pg.slots \in Seq(SlotSet) /\ Len(pg.slots) \in Nat /\ DOMAIN pg.slots = 1 .. Len(pg.slots)
         /\ pg.free \in 0 .. PageSize /\ pg.free \in Nat
         /\ pg.data \in [0 .. PageSize - 1 -> Row \cup {Zero}]
         /\ \A i \in DOMAIN pg.slots :
              /\ pg.slots[i] \in SlotSet
              /\ pg.slots[i].status \in {"EMPTY", "VALID", "FORWARDED"}
              /\ pg.slots[i].a \in Nat /\ pg.slots[i].b \in Nat
<1>1. pg.slots \in Seq(SlotSet) /\ pg.free \in 0 .. PageSize /\ pg.data \in [0 .. PageSize - 1 -> Row \cup {Zero}]
  BY DEF PageSet
<1>2. Len(pg.slots) \in Nat /\ DOMAIN pg.slots = 1 .. Len(pg.slots) /\ \A i \in DOMAIN pg.slots : pg.slots[i] \in SlotSet
  BY <1>1
<1>3. pg.free \in Nat
  BY <1>1, Layout
<1> QED
  BY <1>1, <1>2, <1>3 DEF SlotSet

(* A page just allocated, with or without its header, is in order.          *)
LEMMA NewPages == GoodPage(FreshPage) /\ GoodPage(BlankPage)
<1>1. Unwritten \in [0 .. PageSize - 1 -> Row \cup {Zero}]
  BY DEF Unwritten
<1>2. <<>> \in Seq(SlotSet) /\ DOMAIN << >> = {}
  OBVIOUS
<1>3. PageSize \in 0 .. PageSize /\ 0 \in 0 .. PageSize
  BY Layout
<1> QED
  BY <1>1, <1>2, <1>3 DEF GoodPage, Laid, Readable, FreshPage, BlankPage, PageSet, SlotsWith

(* A row reads back as what was written: nothing else fits its bytes.       *)
LEMMA ReadsBack ==
  ASSUME NEW pg, Laid(pg), NEW i \in DOMAIN pg.slots, NEW v \in Row, Written(pg, i, v)
  PROVE  ReadRow(pg, i) = v
<1> DEFINE s == pg.slots[i]
           ofRow(w) == s.b = Size[w] /\ \A k \in Bytes(s.a, s.b) : pg.data[k] = w
<1>1. ofRow(v)
  BY DEF Written
<1>2. ASSUME NEW w \in Row, ofRow(w) PROVE w = v
  <2>1. s.a \in Nat /\ s.b \in Nat /\ s.b > 0
    BY <1>1, PageTypes, Layout DEF Laid
  <2>2. s.a \in Bytes(s.a, s.b)
    BY <2>1 DEF Bytes
  <2> QED
    BY <1>1, <1>2, <2>2
<1>3. ReadRow(pg, i) = IF \E w \in Row : ofRow(w) THEN CHOOSE w \in Row : ofRow(w) ELSE Garbled
  BY DEF ReadRow
<1> HIDE DEF ofRow
<1> QED
  BY <1>1, <1>2, <1>3, Zenon

(* Slots whose areas shrink stay apart.                                     *)
LEMMA ShrunkLaid ==
  ASSUME NEW pg, Laid(pg), NEW qg \in PageSet,
         DOMAIN qg.slots = DOMAIN pg.slots, Len(qg.slots) = Len(pg.slots), qg.free = pg.free,
         \A i \in DOMAIN pg.slots : Area(qg, i) \subseteq Area(pg, i)
  PROVE  Laid(qg)
<1>1. qg.slots # <<>> => pg.slots # <<>>
  <2>1. pg.slots = <<>> => DOMAIN qg.slots = {} /\ qg.slots \in Seq(SlotSet)
    BY PageTypes
  <2> QED
    BY <2>1
<1>2. \A i, j \in DOMAIN pg.slots : i # j => Area(pg, i) \cap Area(pg, j) = {}
  BY DEF Laid
<1>3. \A i, j \in DOMAIN qg.slots : i # j => Area(qg, i) \cap Area(qg, j) = {}
  BY <1>2
<1>4. \A i \in DOMAIN qg.slots : Area(qg, i) \subseteq qg.free .. PageSize - 1
  BY DEF Laid
<1> QED
  BY <1>1, <1>3, <1>4 DEF Laid

(* What an operation on slot i leaves of the others.                        *)
OthersStay(pg, qg, i) ==
  \A j \in DOMAIN pg.slots \ {i} :
    /\ qg.slots[j] = pg.slots[j]
    /\ pg.slots[j].status = "VALID" => \A k \in Area(pg, j) : qg.data[k] = pg.data[k]

(* Bytes and slots that stay read the same.                                 *)
LEMMA OthersRead ==
  ASSUME NEW pg, Laid(pg), NEW qg, NEW i, OthersStay(pg, qg, i),
         NEW j \in DOMAIN pg.slots, j # i, pg.slots[j].status = "VALID", NEW v \in Row, Written(pg, j, v)
  PROVE  Written(qg, j, v)
BY DEF OthersStay, Written, Area

(* write of a row: its bytes change, all others stay.                       *)
LEMMA WriteRowIs ==
  ASSUME NEW pg \in PageSet, NEW v \in Row, NEW a \in Nat
  PROVE  LET qg == WriteRow(pg, a, v)
         IN /\ qg \in PageSet /\ qg.slots = pg.slots /\ qg.free = pg.free
            /\ \A k \in 0 .. PageSize - 1 : k \in Bytes(a, Size[v]) => qg.data[k] = v
            /\ \A k \in 0 .. PageSize - 1 : k \notin Bytes(a, Size[v]) => qg.data[k] = pg.data[k]
<1> DEFINE d == [k \in DOMAIN pg.data |-> IF k \in Bytes(a, Size[v]) THEN v ELSE pg.data[k]]
<1>1. WriteRow(pg, a, v) = [pg EXCEPT !.data = d]
  BY DEF WriteRow
<1>2. DOMAIN pg.data = 0 .. PageSize - 1
  BY PageTypes
<1>3. d \in [0 .. PageSize - 1 -> Row \cup {Zero}]
  BY <1>2, PageTypes
<1>4. \A k \in 0 .. PageSize - 1 : d[k] = IF k \in Bytes(a, Size[v]) THEN v ELSE pg.data[k]
  BY <1>2
<1> HIDE DEF d
<1>5. LET qg == [pg EXCEPT !.data = d]
      IN qg \in PageSet /\ qg.slots = pg.slots /\ qg.free = pg.free /\ qg.data = d
  BY <1>3 DEF PageSet
<1> QED
  BY <1>1, <1>4, <1>5

(* A slot entry is replaced, the others stay.                               *)
LEMMA SetSlotIs ==
  ASSUME NEW pg \in PageSet, NEW i \in DOMAIN pg.slots, NEW entry \in SlotSet
  PROVE  LET qg == SetSlot(pg, i, entry)
         IN /\ qg \in PageSet /\ qg.free = pg.free /\ qg.data = pg.data
            /\ DOMAIN qg.slots = DOMAIN pg.slots /\ Len(qg.slots) = Len(pg.slots)
            /\ qg.slots[i] = entry
            /\ \A j \in DOMAIN pg.slots : j # i => qg.slots[j] = pg.slots[j]
<1> DEFINE s == [pg.slots EXCEPT ![i] = entry]
<1>1. SetSlot(pg, i, entry) = [pg EXCEPT !.slots = s]
  BY DEF SetSlot, PageSet
<1>2. /\ s \in Seq(SlotSet) /\ DOMAIN s = DOMAIN pg.slots /\ Len(s) = Len(pg.slots) /\ s[i] = entry
      /\ \A j \in DOMAIN pg.slots : j # i => s[j] = pg.slots[j]
  BY PageTypes
<1> HIDE DEF s
<1>3. LET qg == [pg EXCEPT !.slots = s]
      IN qg \in PageSet /\ qg.slots = s /\ qg.free = pg.free /\ qg.data = pg.data
  BY <1>2 DEF PageSet
<1> QED
  BY <1>1, <1>2, <1>3

(* The fields of a slot entry.                                              *)
LEMMA EntryIs ==
  ASSUME NEW status \in {"EMPTY", "VALID", "FORWARDED"}, NEW a \in Nat, NEW b \in Nat
  PROVE  LET e == SlotEntry(status, a, b) IN e \in SlotSet /\ e.status = status /\ e.a = a /\ e.b = b
BY DEF SlotEntry, SlotSet

(* A row that is no longer than the slot's area is written into the slot.   *)
LEMMA RowPutIn ==
  ASSUME NEW pg, GoodPage(pg), NEW i \in DOMAIN pg.slots, pg.slots[i].status # "FORWARDED",
         NEW v \in Row, Size[v] <= pg.slots[i].b
  PROVE  LET a == pg.slots[i].a
             qg == SetSlot(WriteRow(pg, a, v), i, SlotEntry("VALID", a, Size[v]))
         IN /\ GoodPage(qg) /\ DOMAIN qg.slots = DOMAIN pg.slots
            /\ OthersStay(pg, qg, i)
            /\ qg.slots[i].status = "VALID" /\ Written(qg, i, v)
<1> DEFINE a == pg.slots[i].a
           wg == WriteRow(pg, a, v)
           qg == SetSlot(wg, i, SlotEntry("VALID", a, Size[v]))
<1>0. pg \in PageSet /\ Laid(pg) /\ Readable(pg)
  BY DEF GoodPage, Laid
<1>1. a \in Nat /\ pg.slots[i].b \in Nat /\ Size[v] \in Nat /\ Size[v] > 0
  BY <1>0, PageTypes, Layout
<1>2. /\ wg \in PageSet /\ wg.slots = pg.slots /\ wg.free = pg.free
      /\ \A k \in 0 .. PageSize - 1 : k \in Bytes(a, Size[v]) => wg.data[k] = v
      /\ \A k \in 0 .. PageSize - 1 : k \notin Bytes(a, Size[v]) => wg.data[k] = pg.data[k]
  BY <1>0, <1>1, WriteRowIs
<1>3. /\ SlotEntry("VALID", a, Size[v]) \in SlotSet
      /\ SlotEntry("VALID", a, Size[v]).status = "VALID"
      /\ SlotEntry("VALID", a, Size[v]).a = a /\ SlotEntry("VALID", a, Size[v]).b = Size[v]
  BY <1>1, EntryIs
<1> HIDE DEF wg
<1>4. /\ qg \in PageSet /\ qg.free = pg.free /\ qg.data = wg.data
      /\ DOMAIN qg.slots = DOMAIN pg.slots /\ Len(qg.slots) = Len(pg.slots)
      /\ qg.slots[i] = SlotEntry("VALID", a, Size[v])
      /\ \A j \in DOMAIN pg.slots : j # i => qg.slots[j] = pg.slots[j]
  BY <1>2, <1>3, SetSlotIs
<1> HIDE DEF qg
<1>5. Area(pg, i) = Bytes(a, pg.slots[i].b) /\ Area(qg, i) = Bytes(a, Size[v])
  BY <1>3, <1>4 DEF Area
<1>6. Area(qg, i) \subseteq Area(pg, i)
  BY <1>1, <1>5 DEF Bytes
<1>7. \A j \in DOMAIN pg.slots : Area(qg, j) \subseteq Area(pg, j)
  BY <1>4, <1>6 DEF Area
<1>8. Laid(qg)
  BY <1>0, <1>4, <1>7, ShrunkLaid
<1>9. \A j \in DOMAIN pg.slots : Area(pg, j) \subseteq 0 .. PageSize - 1
  BY <1>0, PageTypes DEF Laid
<1>10. Written(qg, i, v)
  BY <1>2, <1>3, <1>4, <1>5, <1>6, <1>9 DEF Written
<1>11. OthersStay(pg, qg, i)
  <2>1. ASSUME NEW j \in DOMAIN pg.slots \ {i}, NEW k \in Area(pg, j) PROVE qg.data[k] = pg.data[k]
    <3>1. k \notin Area(pg, i)
      BY <1>0 DEF Laid
    <3> QED
      BY <1>2, <1>4, <1>5, <1>6, <1>9, <3>1
  <2> QED
    BY <1>4, <2>1 DEF OthersStay
<1>12. Readable(qg)
  <2>1. ASSUME NEW j \in SlotsWith(qg, "VALID"), j # i PROVE \E w \in Row : Written(qg, j, w)
    <3>1. j \in SlotsWith(pg, "VALID") /\ j \in DOMAIN pg.slots /\ pg.slots[j].status = "VALID"
      BY <1>4, <2>1 DEF SlotsWith
    <3>2. PICK w \in Row : Written(pg, j, w)
      BY <1>0, <3>1 DEF Readable
    <3> QED
      BY <1>0, <1>11, <2>1, <3>1, <3>2, OthersRead
  <2> QED
    BY <1>10, <2>1 DEF Readable
<1>13. qg.slots[i].status = "VALID"
  BY <1>3, <1>4
<1> QED
  BY <1>4, <1>8, <1>10, <1>11, <1>12, <1>13 DEF GoodPage, qg, wg

(* A row that fits between the slots and the rows gets a new slot.          *)
LEMMA RowAppended ==
  ASSUME NEW pg, GoodPage(pg), NEW v \in Row, CanAppend(pg, v)
  PROVE  LET offset == pg.free - Size[v]
             i == Len(pg.slots) + 1
             qg == [WriteRow(pg, offset, v) EXCEPT
                      !.slots = Append(@, SlotEntry("VALID", offset, Size[v])), !.free = offset]
         IN /\ GoodPage(qg) /\ DOMAIN qg.slots = DOMAIN pg.slots \cup {i}
            /\ i \in Nat /\ i \notin DOMAIN pg.slots
            /\ OthersStay(pg, qg, i)
            /\ qg.slots[i].status = "VALID" /\ Written(qg, i, v)
<1> DEFINE offset == pg.free - Size[v]
           i == Len(pg.slots) + 1
           wg == WriteRow(pg, offset, v)
           entry == SlotEntry("VALID", offset, Size[v])
           qg == [wg EXCEPT !.slots = Append(@, entry), !.free = offset]
<1>0. /\ pg \in PageSet /\ Laid(pg) /\ Readable(pg)
      /\ Len(pg.slots) \in Nat /\ DOMAIN pg.slots = 1 .. Len(pg.slots)
      /\ pg.free \in 0 .. PageSize /\ pg.free \in Nat
      /\ Size[v] \in Nat /\ Size[v] > 0
  BY PageTypes, Layout DEF GoodPage, Laid
<1>1. /\ Top(i) = Top(Len(pg.slots)) + SlotSize /\ Top(i) \in Nat /\ Top(Len(pg.slots)) \in Nat
      /\ pg.free - Top(Len(pg.slots)) >= SlotSize + Size[v]
  <2>1. pg.free - Top(Len(pg.slots)) >= SlotSize + Size[v]
    BY DEF CanAppend, Top
  <2>2. Len(pg.slots) \in Nat /\ i = Len(pg.slots) + 1 /\ i \in Nat
    BY <1>0
  <2> QED
    BY <2>1, <2>2, TopSteps, Zenon
<1>2. /\ offset \in Nat /\ offset \in 0 .. PageSize /\ offset < pg.free
      /\ Top(i) <= offset
  BY <1>0, <1>1, Layout
<1>3. entry \in SlotSet /\ entry.status = "VALID" /\ entry.a = offset /\ entry.b = Size[v]
  BY <1>0, <1>2, EntryIs
<1>4. /\ wg \in PageSet /\ wg.slots = pg.slots /\ wg.free = pg.free
      /\ \A k \in 0 .. PageSize - 1 : k \in Bytes(offset, Size[v]) => wg.data[k] = v
      /\ \A k \in 0 .. PageSize - 1 : k \notin Bytes(offset, Size[v]) => wg.data[k] = pg.data[k]
  BY <1>0, <1>2, WriteRowIs
<1> HIDE DEF entry, wg
<1>5. /\ Append(pg.slots, entry) \in Seq(SlotSet) /\ Len(Append(pg.slots, entry)) = i
      /\ DOMAIN Append(pg.slots, entry) = 1 .. i
      /\ Append(pg.slots, entry)[i] = entry
      /\ \A j \in DOMAIN pg.slots : Append(pg.slots, entry)[j] = pg.slots[j]
  BY <1>0, <1>3, PageTypes
<1>6. /\ qg \in PageSet /\ qg.slots = Append(pg.slots, entry) /\ qg.free = offset /\ qg.data = wg.data
  BY <1>2, <1>4, <1>5 DEF PageSet
<1> HIDE DEF qg
<1>7. DOMAIN qg.slots = DOMAIN pg.slots \cup {i} /\ i \in Nat /\ i \notin DOMAIN pg.slots
  BY <1>0, <1>5, <1>6
<1>8. Area(qg, i) = Bytes(offset, Size[v]) /\ Bytes(offset, Size[v]) = offset .. pg.free - 1
  <2>1. Area(qg, i) = Bytes(offset, Size[v])
    BY <1>3, <1>5, <1>6 DEF Area
  <2> QED
    BY <2>1, <1>0 DEF Bytes
<1>9. \A j \in DOMAIN pg.slots : Area(qg, j) = Area(pg, j) /\ Area(pg, j) \subseteq pg.free .. PageSize - 1
  BY <1>0, <1>5, <1>6 DEF Area, Laid
<1>10. Laid(qg)
  <2>1. qg.slots # <<>> => Top(Len(qg.slots)) <= qg.free
    BY <1>2, <1>5, <1>6
  <2>2. \A j \in DOMAIN qg.slots : Area(qg, j) \subseteq qg.free .. PageSize - 1
    <3>1. Area(qg, i) \subseteq qg.free .. PageSize - 1
      BY <1>0, <1>2, <1>6, <1>8, Layout
    <3>2. \A j \in DOMAIN pg.slots : Area(qg, j) \subseteq qg.free .. PageSize - 1
      BY <1>0, <1>2, <1>6, <1>9
    <3> QED
      BY <3>1, <3>2, <1>7
  <2>3. \A j \in DOMAIN pg.slots : Area(qg, j) \cap Area(qg, i) = {}
    BY <1>0, <1>8, <1>9
  <2>4. \A j, k \in DOMAIN pg.slots : j # k => Area(qg, j) \cap Area(qg, k) = {}
    BY <1>0, <1>9 DEF Laid
  <2>5. \A j, k \in DOMAIN qg.slots : j # k => Area(qg, j) \cap Area(qg, k) = {}
    BY <1>7, <2>3, <2>4
  <2> QED
    BY <1>6, <2>1, <2>2, <2>5 DEF Laid
<1>11. Written(qg, i, v)
  <2>1. \A k \in Bytes(offset, Size[v]) : k \in 0 .. PageSize - 1
    BY <1>0, <1>2, <1>8, Layout
  <2> QED
    BY <1>3, <1>4, <1>5, <1>6, <2>1 DEF Written
<1>12. OthersStay(pg, qg, i)
  <2>1. ASSUME NEW j \in DOMAIN pg.slots, NEW k \in Area(pg, j) PROVE qg.data[k] = pg.data[k]
    <3>1. k \in pg.free .. PageSize - 1
      BY <1>9
    <3>2. k \in 0 .. PageSize - 1 /\ k \notin Bytes(offset, Size[v])
      BY <1>0, <1>8, <3>1
    <3> QED
      BY <1>4, <1>6, <3>2
  <2> QED
    BY <1>5, <1>6, <2>1 DEF OthersStay
<1>13. Readable(qg)
  <2>1. ASSUME NEW j \in SlotsWith(qg, "VALID"), j # i PROVE \E w \in Row : Written(qg, j, w)
    <3>1. j \in SlotsWith(pg, "VALID") /\ j \in DOMAIN pg.slots /\ pg.slots[j].status = "VALID"
      BY <1>5, <1>6, <1>7, <2>1 DEF SlotsWith
    <3>2. PICK w \in Row : Written(pg, j, w)
      BY <1>0, <3>1 DEF Readable
    <3> QED
      BY <1>0, <1>12, <2>1, <3>1, <3>2, OthersRead
  <2> QED
    BY <1>11, <2>1 DEF Readable
<1>14. qg.slots[i].status = "VALID"
  BY <1>3, <1>5, <1>6
<1> QED
  BY <1>7, <1>10, <1>11, <1>12, <1>13, <1>14 DEF GoodPage, qg, wg, entry

(* insert() puts a row into a page that has room for it.                    *)
LEMMA RowInserted ==
  ASSUME NEW pg, GoodPage(pg), NEW v \in Row, HasRoom(pg, v)
  PROVE  LET i == SlotFor(pg, v)
             qg == InsertedInto(pg, v)
         IN /\ GoodPage(qg) /\ DOMAIN qg.slots = DOMAIN pg.slots \cup {i} /\ i \in Nat
            /\ i \in DOMAIN pg.slots => pg.slots[i].status = "EMPTY" /\ pg.slots[i].b >= Size[v]
            /\ OthersStay(pg, qg, i)
            /\ qg.slots[i].status = "VALID" /\ Written(qg, i, v)
<1>1. CASE ReusableSlots(pg, v) # {}
  <2>1. ReusableSlots(pg, v) \subseteq Nat
    BY PageTypes DEF ReusableSlots, SlotsWith, GoodPage, Laid
  <2> DEFINE i == Least(ReusableSlots(pg, v))
  <2>2. i \in ReusableSlots(pg, v)
    BY <1>1, <2>1, LeastIsLeast
  <2>3. SlotFor(pg, v) = i
    BY <1>1 DEF SlotFor
  <2> HIDE DEF i
  <2>4. i \in DOMAIN pg.slots /\ pg.slots[i].status = "EMPTY" /\ pg.slots[i].b >= Size[v] /\ i \in Nat
    BY <2>1, <2>2 DEF ReusableSlots, SlotsWith
  <2>5. pg.slots[i].status # "FORWARDED" /\ Size[v] <= pg.slots[i].b
    BY <2>4, PageTypes, Layout DEF GoodPage, Laid
  <2>6. InsertedInto(pg, v) =
          SetSlot(WriteRow(pg, pg.slots[i].a, v), i, SlotEntry("VALID", pg.slots[i].a, Size[v]))
    BY <1>1, <2>3 DEF InsertedInto
  <2> QED
    BY <2>3, <2>4, <2>5, <2>6, RowPutIn
<1>2. CASE ~ (ReusableSlots(pg, v) # {})
  <2>1. SlotFor(pg, v) = Len(pg.slots) + 1 /\ CanAppend(pg, v)
    BY <1>2 DEF SlotFor, HasRoom
  <2> DEFINE i == Len(pg.slots) + 1
             qg == [WriteRow(pg, pg.free - Size[v], v) EXCEPT
                      !.slots = Append(@, SlotEntry("VALID", pg.free - Size[v], Size[v])), !.free = pg.free - Size[v]]
  <2>2. InsertedInto(pg, v) = qg
    BY <1>2 DEF InsertedInto
  <2>3. /\ GoodPage(qg) /\ DOMAIN qg.slots = DOMAIN pg.slots \cup {i}
        /\ i \in Nat /\ i \notin DOMAIN pg.slots
        /\ OthersStay(pg, qg, i)
        /\ qg.slots[i].status = "VALID" /\ Written(qg, i, v)
    BY <2>1, RowAppended
  <2> HIDE DEF qg, i
  <2> QED
    BY <2>1, <2>2, <2>3 DEF i
<1> QED
  BY <1>1, <1>2

-----------------------------------------------------------------------------
(* Compaction.                                                              *)

(* Where rows are packed: the recursion of Packed, unrolled.                *)
LEMMA PackedSteps ==
  ASSUME NEW pg \in PageSet
  PROVE  /\ Packed(pg, 0) = PageSize
         /\ \A j \in 0 .. Len(pg.slots) : Packed(pg, j) \in Int
         /\ \A j \in 1 .. Len(pg.slots) :
              /\ j \in SlotsWith(pg, "VALID") => Packed(pg, j) = Packed(pg, j - 1) - pg.slots[j].b
              /\ j \notin SlotsWith(pg, "VALID") => Packed(pg, j) = Packed(pg, j - 1)
<1> DEFINE N == Len(pg.slots)
           live == SlotsWith(pg, "VALID")
           start[j \in 0 .. N] ==
             IF j = 0 THEN PageSize ELSE IF j \in live THEN start[j - 1] - pg.slots[j].b ELSE start[j - 1]
           step == [j \in 1 .. N |-> [x \in Int |-> IF j \in live THEN x - pg.slots[j].b ELSE x]]
<1>1. N \in Nat /\ PageSize \in Int /\ \A j \in 1 .. N : pg.slots[j].b \in Int
  BY PageTypes, Layout
<1>2. \A i : Packed(pg, i) = start[i]
  BY DEF Packed
<1>3. IsTable(step, N, Int)
  <2>1. \A j \in 1 .. N : [x \in Int |-> IF j \in live THEN x - pg.slots[j].b ELSE x] \in [Int -> Int]
    BY <1>1
  <2> QED
    BY <1>1, <2>1 DEF IsTable
<1>4. PICK f : Iterates(f, PageSize, step, N, Int)
  <2> HIDE DEF step, N
  <2> QED
    BY <1>1, <1>3, IterationExists, Zenon
<1>5. f = [j \in 0 .. N |-> IF j = 0 THEN PageSize ELSE IF j \in live THEN f[j - 1] - pg.slots[j].b ELSE f[j - 1]]
  <2>1. f \in [0 .. N -> Int] /\ f[0] = PageSize /\ \A j \in 1 .. N : f[j] = step[j][f[j - 1]]
    BY <1>4 DEF Iterates
  <2>2. ASSUME NEW j \in 1 .. N
        PROVE  f[j] = IF j \in live THEN f[j - 1] - pg.slots[j].b ELSE f[j - 1]
    <3>1. f[j - 1] \in Int
      BY <1>1, <2>1
    <3> QED
      BY <2>1, <3>1
  <2> HIDE DEF step, live, N
  <2>3. \A j \in 0 .. N : f[j] = IF j = 0 THEN PageSize ELSE IF j \in live THEN f[j - 1] - pg.slots[j].b ELSE f[j - 1]
    <3>1. \A j \in 0 .. N : j # 0 => j \in 1 .. N
      BY <1>1
    <3> QED
      BY <2>1, <2>2, <3>1, Zenon
  <2> QED
    BY <2>1, <2>3
<1>6. start = [j \in 0 .. N |->
                 IF j = 0 THEN PageSize ELSE IF j \in live THEN start[j - 1] - pg.slots[j].b ELSE start[j - 1]]
  <2> HIDE DEF live, N
  <2> QED
    BY <1>5, Zenon
<1> HIDE DEF start, step
<1>7. /\ start[0] = PageSize
      /\ \A j \in 1 .. N : start[j] = IF j \in live THEN start[j - 1] - pg.slots[j].b ELSE start[j - 1]
  <2> HIDE DEF live, N
  <2>1. 0 \in 0 .. N /\ \A j \in 1 .. N : j \in 0 .. N /\ j # 0
    BY <1>1
  <2>2. \A j \in 0 .. N : start[j] = IF j = 0 THEN PageSize ELSE IF j \in live THEN start[j - 1] - pg.slots[j].b ELSE start[j - 1]
    BY <1>6, Zenon
  <2> QED
    BY <2>1, <2>2, Zenon
<1>8. \A j \in 0 .. N : start[j] \in Int
  <2> DEFINE S == {j \in 0 .. N : start[j] \in Int}
  <2>1. 0 \in S
    BY <1>1, <1>7
  <2>2. ASSUME NEW j \in 1 .. N, j - 1 \in S PROVE j \in S
    <3>1. start[j] = IF j \in live THEN start[j - 1] - pg.slots[j].b ELSE start[j - 1]
      BY <1>7
    <3>2. start[j - 1] \in Int /\ pg.slots[j].b \in Int
      BY <1>1, <2>2
    <3> QED
      BY <3>1, <3>2
  <2> HIDE DEF S
  <2>3. 0 .. N \subseteq S
    BY <1>1, <2>1, <2>2, BoundedInduction
  <2> QED
    BY <2>3 DEF S
<1> QED
  BY <1>2, <1>7, <1>8

(* The packed rows take as many bytes as before, at the end of the page.    *)
LEMMA PackedBounds ==
  ASSUME NEW pg, Laid(pg)
  PROVE  /\ \A i, j \in 0 .. Len(pg.slots) : i <= j => Packed(pg, j) <= Packed(pg, i)
         /\ pg.free <= Packed(pg, Len(pg.slots))
<1> DEFINE N == Len(pg.slots)
           live == SlotsWith(pg, "VALID")
           P(j) == Packed(pg, j)
           Taken(j) == {k \in 0 .. PageSize - 1 : \E i \in live : i <= j /\ k \in Area(pg, i)}
<1>0. pg \in PageSet /\ N \in Nat /\ DOMAIN pg.slots = 1 .. N /\ pg.free \in 0 .. PageSize /\ pg.free \in Nat
  BY PageTypes DEF Laid
<1>1. \A i \in DOMAIN pg.slots : pg.slots[i].a \in Nat /\ pg.slots[i].b \in Nat
  BY <1>0, PageTypes
<1>2. /\ P(0) = PageSize /\ \A j \in 0 .. N : P(j) \in Int
      /\ \A j \in 1 .. N : j \in live => P(j) = P(j - 1) - pg.slots[j].b
      /\ \A j \in 1 .. N : j \notin live => P(j) = P(j - 1)
  BY <1>0, PackedSteps
<1>3. live \subseteq 1 .. N
  BY <1>0 DEF SlotsWith
<1>4. \A i \in live : Area(pg, i) = Bytes(pg.slots[i].a, pg.slots[i].b) /\ Area(pg, i) \subseteq pg.free .. PageSize - 1
  BY <1>0, <1>3 DEF SlotsWith, Area, Laid
<1> HIDE DEF P, live, N
<1>5. ASSUME NEW i \in 0 .. N PROVE \A j \in 0 .. N : i <= j => P(j) <= P(i)
  <2> DEFINE S == {j \in 0 .. N : i <= j => P(j) <= P(i)}
  <2>1. 0 \in S
    BY <1>0, <1>2
  <2>2. ASSUME NEW j \in 1 .. N, j - 1 \in S PROVE j \in S
    <3>1. j \in 0 .. N /\ j - 1 \in 0 .. N /\ P(j) \in Int /\ P(j - 1) \in Int /\ P(i) \in Int
      BY <1>0, <1>2
    <3>2. P(j) <= P(j - 1)
      <4>1. CASE j \in live
        <5>1. P(j) = P(j - 1) - pg.slots[j].b /\ pg.slots[j].b \in Nat
          BY <1>0, <1>1, <1>2, <4>1
        <5> QED
          BY <3>1, <5>1
      <4>2. CASE j \notin live
        BY <1>2, <3>1, <4>2
      <4> QED
        BY <4>1, <4>2
    <3>3. i <= j => i = j \/ i <= j - 1
      BY <1>0
    <3>4. i <= j - 1 => P(j - 1) <= P(i)
      BY <2>2
    <3>5. i = j => P(j) = P(i)
      OBVIOUS
    <3>6. i <= j => P(j) <= P(i)
      BY <3>1, <3>2, <3>3, <3>4, <3>5
    <3> QED
      BY <3>1, <3>6
  <2> HIDE DEF S
  <2>3. 0 .. N \subseteq S
    BY <1>0, <2>1, <2>2, BoundedInduction
  <2> QED
    BY <2>3 DEF S
<1>6. \A j \in 0 .. N : IsFiniteSet(Taken(j)) /\ Cardinality(Taken(j)) = PageSize - P(j)
  <2> DEFINE S == {j \in 0 .. N : IsFiniteSet(Taken(j)) /\ Cardinality(Taken(j)) = PageSize - P(j)}
  <2>1. 0 \in S
    <3>1. Taken(0) = {}
      BY <1>3
    <3>2. IsFiniteSet(Taken(0)) /\ Cardinality(Taken(0)) = 0
      BY <3>1, FS_EmptySet, Zenon
    <3> HIDE DEF Taken
    <3> QED
      BY <1>0, <1>2, <3>2, Layout
  <2>2. ASSUME NEW j \in 1 .. N, j - 1 \in S PROVE j \in S
    <3>1. j \in 0 .. N /\ j - 1 \in 0 .. N /\ P(j) \in Int /\ P(j - 1) \in Int
      BY <1>0, <1>2
    <3>2. IsFiniteSet(Taken(j - 1)) /\ Cardinality(Taken(j - 1)) = PageSize - P(j - 1)
      BY <2>2
    <3>3. CASE j \notin live
      <4>1. \A i \in live : i <= j <=> i <= j - 1
        BY <1>0, <1>3, <3>3
      <4>2. Taken(j) = Taken(j - 1)
        BY <4>1
      <4> HIDE DEF Taken
      <4> QED
        BY <1>2, <3>1, <3>2, <3>3, <4>2
    <3>4. CASE j \in live
      <4>1. \A i \in live : i <= j <=> i <= j - 1 \/ i = j
        BY <1>0, <1>3
      <4>2. Area(pg, j) \subseteq 0 .. PageSize - 1
        BY <1>0, <1>4, <3>4, Layout
      <4>3. Taken(j) = Taken(j - 1) \cup Area(pg, j)
        BY <3>4, <4>1, <4>2
      <4>4. Taken(j - 1) \cap Area(pg, j) = {}
        <5>1. \A i \in live : i <= j - 1 => i # j /\ i \in DOMAIN pg.slots /\ j \in DOMAIN pg.slots
          BY <1>0, <1>3
        <5>2. \A i \in live : i <= j - 1 => Area(pg, i) \cap Area(pg, j) = {}
          BY <5>1 DEF Laid
        <5> QED
          BY <5>2
      <4>5. /\ IsFiniteSet(Area(pg, j))
            /\ Cardinality(Area(pg, j)) = pg.slots[j].b
        <5> DEFINE a == pg.slots[j].a
                   b == pg.slots[j].b
        <5>1. a \in Nat /\ b \in Nat /\ Area(pg, j) = a .. a + b - 1
          BY <1>0, <1>1, <1>4, <3>4 DEF Bytes
        <5> HIDE DEF a, b
        <5>2. IsFiniteSet(a .. a + b - 1) /\ Cardinality(a .. a + b - 1) = b
          BY <5>1, IntervalSize
        <5> QED
          BY <5>1, <5>2 DEF b
      <4>6. Cardinality(Taken(j)) =
              Cardinality(Taken(j - 1)) + Cardinality(Area(pg, j)) - Cardinality(Taken(j - 1) \cap Area(pg, j))
            /\ IsFiniteSet(Taken(j))
        <5> HIDE DEF Taken
        <5> QED
          BY <3>2, <4>3, <4>5, FS_Union
      <4>7. Cardinality(Taken(j - 1) \cap Area(pg, j)) = 0
        <5> HIDE DEF Taken
        <5> QED
          BY <4>4, FS_EmptySet
      <4>8. P(j) = P(j - 1) - pg.slots[j].b /\ pg.slots[j].b \in Int
        BY <1>0, <1>1, <1>2, <3>4
      <4> HIDE DEF Taken
      <4> QED
        BY <3>1, <3>2, <4>5, <4>6, <4>7, <4>8, Layout
    <3> QED
      BY <3>3, <3>4
  <2> HIDE DEF S
  <2>3. 0 .. N \subseteq S
    BY <1>0, <2>1, <2>2, BoundedInduction
  <2> QED
    BY <2>3 DEF S
<1>7. Cardinality(Taken(N)) <= PageSize - pg.free
  <2>1. Taken(N) \in SUBSET (pg.free .. PageSize - 1)
    BY <1>4
  <2>2. /\ IsFiniteSet(pg.free .. PageSize - 1)
        /\ Cardinality(pg.free .. PageSize - 1) = PageSize - pg.free
    <3> DEFINE n == PageSize - pg.free
    <3>1. n \in Nat /\ pg.free + n - 1 = PageSize - 1
      BY <1>0, Layout
    <3> HIDE DEF n
    <3>2. IsFiniteSet(pg.free .. pg.free + n - 1) /\ Cardinality(pg.free .. pg.free + n - 1) = n
      BY <1>0, <3>1, IntervalSize
    <3> QED
      BY <3>1, <3>2 DEF n
  <2>3. Cardinality(Taken(N)) <= Cardinality(pg.free .. PageSize - 1)
    <3> HIDE DEF Taken
    <3> QED
      BY <2>1, <2>2, FS_Subset
  <2> HIDE DEF Taken
  <2> QED
    BY <1>0, <2>2, <2>3, Layout
<1>8. N \in 0 .. N /\ P(N) \in Int
  BY <1>0, <1>2
<1> HIDE DEF Taken
<1>9. pg.free <= P(N)
  BY <1>0, <1>6, <1>7, <1>8, Layout
<1> QED
  BY <1>5, <1>9 DEF P, N

(* Compaction keeps the slots: the rows read back as before, the pointers   *)
(* stay, and the empty slots give up their room.                            *)
SameSlot(pg, qg, i) ==
  /\ qg.slots[i].status = pg.slots[i].status
  /\ pg.slots[i].status = "FORWARDED" => qg.slots[i] = pg.slots[i]
  /\ pg.slots[i].status = "VALID" => \A v \in Row : Written(pg, i, v) => Written(qg, i, v)

LEMMA Compacted ==
  ASSUME NEW pg, GoodPage(pg)
  PROVE  LET qg == Compact(pg)
         IN /\ GoodPage(qg) /\ DOMAIN qg.slots = DOMAIN pg.slots
            /\ \A i \in DOMAIN pg.slots : SameSlot(pg, qg, i)
            /\ \A v \in Row : ReusableSlots(qg, v) = {}
<1> DEFINE N == Len(pg.slots)
           live == SlotsWith(pg, "VALID")
           P(j) == Packed(pg, j)
           from(k) == {i \in live : k \in Bytes(P(i), pg.slots[i].b)}
           entry(i) == CASE i \in live -> [pg.slots[i] EXCEPT !.a = P(i)]
                         [] pg.slots[i].status = "EMPTY" -> SlotEntry("EMPTY", 0, 0)
                         [] OTHER -> pg.slots[i]
           slots == [i \in DOMAIN pg.slots |-> entry(i)]
           data == [k \in DOMAIN pg.data |->
                      IF from(k) = {} THEN pg.data[k]
                      ELSE LET i == Least(from(k)) IN pg.data[pg.slots[i].a + k - P(i)]]
           qg == Compact(pg)
<1>0. /\ pg \in PageSet /\ Laid(pg) /\ Readable(pg)
      /\ N \in Nat /\ DOMAIN pg.slots = 1 .. N /\ pg.free \in 0 .. PageSize /\ pg.free \in Nat
      /\ DOMAIN pg.data = 0 .. PageSize - 1 /\ pg.data \in [0 .. PageSize - 1 -> Row \cup {Zero}]
  BY PageTypes DEF GoodPage, Laid
<1>1. \A i \in DOMAIN pg.slots :
        /\ pg.slots[i] \in SlotSet /\ pg.slots[i].a \in Nat /\ pg.slots[i].b \in Nat
        /\ pg.slots[i].status \in {"EMPTY", "VALID", "FORWARDED"}
  BY <1>0, PageTypes
<1>2. qg = [slots |-> slots, free |-> P(N), data |-> data]
  BY DEF Compact
<1>3. live \subseteq 1 .. N /\ \A i \in 1 .. N : i \in live <=> pg.slots[i].status = "VALID"
  BY <1>0 DEF SlotsWith
<1>4. /\ P(0) = PageSize /\ \A j \in 0 .. N : P(j) \in Int
      /\ \A j \in live : P(j) = P(j - 1) - pg.slots[j].b
      /\ \A i, j \in 0 .. N : i <= j => P(j) <= P(i)
      /\ pg.free <= P(N)
  BY <1>0, <1>3, PackedSteps, PackedBounds
<1> HIDE DEF P, live, N
<1>5. \A j \in 0 .. N : P(j) \in Nat /\ P(N) <= P(j) /\ P(j) <= PageSize
  <2>1. N \in 0 .. N /\ 0 \in 0 .. N /\ \A j \in 0 .. N : j <= N /\ 0 <= j
    BY <1>0
  <2> QED
    BY <1>0, <1>4, <2>1, Layout
<1>6. \A i \in live : Area(pg, i) = Bytes(pg.slots[i].a, pg.slots[i].b) /\ Area(pg, i) \subseteq 0 .. PageSize - 1
  <2>1. \A i \in live : Area(pg, i) \subseteq pg.free .. PageSize - 1
    BY <1>0, <1>3 DEF Laid
  <2>2. \A i \in live : Area(pg, i) = Bytes(pg.slots[i].a, pg.slots[i].b)
    BY <1>0, <1>3 DEF Area
  <2> QED
    BY <1>0, <2>1, <2>2, Layout
<1> DEFINE Home(i) == Bytes(P(i), pg.slots[i].b)
<1>7. \A i \in live : Home(i) = P(i) .. P(i - 1) - 1
  <2>1. ASSUME NEW i \in live PROVE Home(i) = P(i) .. P(i - 1) - 1
    <3>1. i \in 0 .. N /\ i - 1 \in 0 .. N /\ P(i) \in Int /\ P(i - 1) \in Int /\ pg.slots[i].b \in Int
      BY <1>0, <1>1, <1>3, <1>4
    <3>2. P(i) + pg.slots[i].b - 1 = P(i - 1) - 1
      BY <1>4, <3>1
    <3> QED
      BY <3>2 DEF Bytes
  <2> QED
    BY <2>1
<1>8. \A i \in live : Home(i) \subseteq P(N) .. PageSize - 1
  <2>1. ASSUME NEW i \in live, NEW k \in P(i) .. P(i - 1) - 1 PROVE k \in P(N) .. PageSize - 1
    <3>1. i \in 0 .. N /\ i - 1 \in 0 .. N /\ N \in 0 .. N
      BY <1>0, <1>3
    <3> QED
      BY <1>5, <3>1, <2>1, Layout
  <2> QED
    BY <1>7, <2>1
<1>9. \A i, j \in live : i # j => Home(i) \cap Home(j) = {}
  <2>1. ASSUME NEW i \in live, NEW j \in live, i < j PROVE Home(i) \cap Home(j) = {}
    <3>1. /\ i \in 0 .. N /\ i - 1 \in 0 .. N /\ j - 1 \in 0 .. N /\ j \in 0 .. N /\ i <= j - 1
          /\ P(i) \in Int /\ P(i - 1) \in Int /\ P(j) \in Int /\ P(j - 1) \in Int
      BY <1>0, <1>3, <1>4, <2>1
    <3>2. P(j - 1) <= P(i)
      BY <1>4, <3>1
    <3>3. ASSUME NEW k \in P(i) .. P(i - 1) - 1, k \in P(j) .. P(j - 1) - 1 PROVE FALSE
      BY <3>1, <3>2, <3>3
    <3> QED
      BY <1>7, <3>3
  <2>2. \A i, j \in live : i # j => i < j \/ j < i
    BY <1>0, <1>3
  <2> QED
    BY <2>1, <2>2
<1>10. \A i \in live : \A k \in Home(i) : from(k) = {i}
  BY <1>9
<1>11. ASSUME NEW i \in live, NEW k \in Home(i)
       PROVE  k \in 0 .. PageSize - 1 /\ pg.slots[i].a + k - P(i) \in Area(pg, i) /\ data[k] = pg.data[pg.slots[i].a + k - P(i)]
  <2>1. i \in DOMAIN pg.slots /\ i \in Nat /\ P(i) \in Nat /\ P(N) \in Nat /\ pg.slots[i].a \in Nat /\ pg.slots[i].b \in Nat
    BY <1>0, <1>1, <1>3, <1>5
  <2>2. k \in 0 .. PageSize - 1
    BY <1>8, <1>11, <2>1, Layout
  <2>3. pg.slots[i].a + k - P(i) \in Area(pg, i)
    BY <1>6, <1>11, <2>1 DEF Bytes
  <2>4. from(k) = {i}
    BY <1>10, <1>11
  <2>5. Least({i}) = i
    <3>1. {i} \subseteq Nat /\ {i} # {}
      BY <2>1
    <3>2. Least({i}) \in {i}
      BY <3>1, LeastIsLeast
    <3> QED
      BY <3>2
  <2>6. data[k] = IF from(k) = {} THEN pg.data[k]
                  ELSE LET j == Least(from(k)) IN pg.data[pg.slots[j].a + k - P(j)]
    BY <1>0, <2>2
  <2> HIDE DEF from, data
  <2> QED
    BY <2>2, <2>3, <2>4, <2>5, <2>6
<1>12. data \in [0 .. PageSize - 1 -> Row \cup {Zero}]
  <2>1. ASSUME NEW k \in 0 .. PageSize - 1 PROVE data[k] \in Row \cup {Zero}
    <3>1. CASE from(k) = {}
      BY <1>0, <3>1
    <3>2. CASE from(k) # {}
      <4>1. PICK i \in live : k \in Home(i)
        BY <3>2
      <4>2. pg.slots[i].a + k - P(i) \in 0 .. PageSize - 1
        BY <1>6, <1>11, <4>1
      <4>3. data[k] = pg.data[pg.slots[i].a + k - P(i)]
        BY <1>11, <4>1
      <4> HIDE DEF data
      <4> QED
        BY <1>0, <4>2, <4>3
    <3> QED
      BY <3>1, <3>2
  <2>2. data = [k \in 0 .. PageSize - 1 |-> data[k]]
    BY <1>0
  <2> HIDE DEF data
  <2> QED
    BY <2>1, <2>2
<1>13. \A i \in DOMAIN pg.slots :
         /\ i \in live => /\ entry(i) \in SlotSet /\ entry(i).status = "VALID"
                          /\ entry(i).a = P(i) /\ entry(i).b = pg.slots[i].b
         /\ pg.slots[i].status = "EMPTY" => entry(i) \in SlotSet /\ entry(i).status = "EMPTY" /\ entry(i).a = 0 /\ entry(i).b = 0
         /\ pg.slots[i].status = "FORWARDED" => entry(i) = pg.slots[i]
  <2>1. ASSUME NEW i \in DOMAIN pg.slots, i \in live
        PROVE  /\ entry(i) \in SlotSet /\ entry(i).status = "VALID"
               /\ entry(i).a = P(i) /\ entry(i).b = pg.slots[i].b
    <3>1. entry(i) = [pg.slots[i] EXCEPT !.a = P(i)]
      BY <1>0, <1>3, <2>1
    <3>2. P(i) \in Nat /\ pg.slots[i] \in SlotSet /\ pg.slots[i].status = "VALID"
      BY <1>0, <1>1, <1>3, <1>5, <2>1
    <3> HIDE DEF entry
    <3> QED
      BY <3>1, <3>2 DEF SlotSet
  <2>2. ASSUME NEW i \in DOMAIN pg.slots, pg.slots[i].status = "EMPTY"
        PROVE  entry(i) \in SlotSet /\ entry(i).status = "EMPTY" /\ entry(i).a = 0 /\ entry(i).b = 0
    <3>1. entry(i) = SlotEntry("EMPTY", 0, 0)
      BY <1>0, <1>3, <2>2
    <3> HIDE DEF entry
    <3> QED
      BY <3>1, EntryIs
  <2>3. ASSUME NEW i \in DOMAIN pg.slots, pg.slots[i].status = "FORWARDED" PROVE entry(i) = pg.slots[i]
    BY <1>0, <1>3, <2>3
  <2> QED
    BY <2>1, <2>2, <2>3
<1>14. slots \in Seq(SlotSet) /\ Len(slots) = N /\ DOMAIN slots = 1 .. N /\ \A i \in 1 .. N : slots[i] = entry(i)
  <2>1. \A i \in DOMAIN pg.slots : entry(i) \in SlotSet
    <3> HIDE DEF entry
    <3> QED
      BY <1>0, <1>1, <1>3, <1>13
  <2> HIDE DEF entry
  <2>2. slots \in [1 .. N -> SlotSet]
    BY <1>0, <2>1
  <2> QED
    BY <1>0, <2>2
<1> HIDE DEF entry, slots, data, from
<1>15. /\ qg \in PageSet /\ qg.slots = slots /\ qg.free = P(N) /\ qg.data = data
       /\ Len(qg.slots) = N /\ DOMAIN qg.slots = 1 .. N
  <2>1. P(N) \in 0 .. PageSize
    BY <1>0, <1>5, Layout
  <2> HIDE DEF qg
  <2> QED
    BY <1>2, <1>12, <1>14, <2>1 DEF PageSet
<1> HIDE DEF qg
<1>16. \A i \in DOMAIN pg.slots :
         /\ i \in live => qg.slots[i].status = "VALID" /\ Area(qg, i) = Home(i)
                          /\ qg.slots[i].a = P(i) /\ qg.slots[i].b = pg.slots[i].b
         /\ i \notin live => qg.slots[i].status = pg.slots[i].status /\ Area(qg, i) = {}
         /\ pg.slots[i].status = "FORWARDED" => qg.slots[i] = pg.slots[i]
         /\ pg.slots[i].status = "EMPTY" => qg.slots[i].b = 0
  <2>1. ASSUME NEW i \in DOMAIN pg.slots, i \in live PROVE qg.slots[i].status = "VALID" /\ Area(qg, i) = Home(i)
                          /\ qg.slots[i].a = P(i) /\ qg.slots[i].b = pg.slots[i].b
    BY <1>0, <1>13, <1>14, <1>15, <2>1 DEF Area
  <2>2. ASSUME NEW i \in DOMAIN pg.slots, pg.slots[i].status = "EMPTY"
        PROVE  qg.slots[i].status = "EMPTY" /\ qg.slots[i].b = 0 /\ Area(qg, i) = {}
    <3>1. qg.slots[i].status = "EMPTY" /\ qg.slots[i].a = 0 /\ qg.slots[i].b = 0
      BY <1>0, <1>13, <1>14, <1>15, <2>2
    <3> QED
      BY <3>1 DEF Area, Bytes
  <2>3. ASSUME NEW i \in DOMAIN pg.slots, pg.slots[i].status = "FORWARDED"
        PROVE  qg.slots[i] = pg.slots[i] /\ Area(qg, i) = {}
    BY <1>0, <1>13, <1>14, <1>15, <2>3 DEF Area
  <2>4. \A i \in DOMAIN pg.slots : i \notin live => pg.slots[i].status = "EMPTY" \/ pg.slots[i].status = "FORWARDED"
    BY <1>0, <1>1, <1>3
  <2>5. \A i \in live : pg.slots[i].status = "VALID"
    BY <1>3
  <2> QED
    BY <2>1, <2>2, <2>3, <2>4, <2>5
<1>17. Laid(qg)
  <2>1. qg.slots # <<>> => Top(Len(qg.slots)) <= qg.free
    <3>1. qg.slots # <<>> => pg.slots # <<>>
      BY <1>0, <1>15
    <3>2. pg.slots # <<>> => Top(N) <= pg.free
      BY <1>0 DEF Laid, N
    <3>3. Top(N) \in Nat /\ N \in 0 .. N
      BY <1>0, TopSteps
    <3> QED
      BY <1>0, <1>4, <1>15, <3>1, <3>2, <3>3
  <2>2. \A i \in DOMAIN qg.slots : Area(qg, i) \subseteq qg.free .. PageSize - 1
    BY <1>0, <1>8, <1>15, <1>16
  <2>3. \A i, j \in DOMAIN qg.slots : i # j => Area(qg, i) \cap Area(qg, j) = {}
    BY <1>0, <1>9, <1>15, <1>16
  <2> QED
    BY <1>15, <2>1, <2>2, <2>3 DEF Laid
<1>18. ASSUME NEW i \in live, NEW v \in Row, Written(pg, i, v) PROVE Written(qg, i, v)
  <2>1. \A k \in Area(pg, i) : pg.data[k] = v
    BY <1>6, <1>18 DEF Written
  <2>2. \A k \in Home(i) : qg.data[k] = v
    BY <1>11, <1>15, <2>1
  <2> QED
    BY <1>0, <1>3, <1>16, <1>18, <2>2 DEF Written
<1>19. \A i \in DOMAIN pg.slots : SameSlot(pg, qg, i)
  BY <1>0, <1>3, <1>16, <1>18 DEF SameSlot
<1>20. Readable(qg)
  <2>1. \A i \in SlotsWith(qg, "VALID") : i \in live
    BY <1>0, <1>3, <1>15, <1>16 DEF SlotsWith
  <2> QED
    BY <1>0, <1>18, <2>1 DEF Readable, live
<1>21. ASSUME NEW v \in Row PROVE ReusableSlots(qg, v) = {}
  <2>1. \A i \in SlotsWith(qg, "EMPTY") : qg.slots[i].b = 0
    <3>1. \A i \in SlotsWith(qg, "EMPTY") : i \in DOMAIN pg.slots /\ qg.slots[i].status = "EMPTY"
      BY <1>0, <1>15 DEF SlotsWith
    <3> QED
      BY <1>0, <1>1, <1>3, <1>16, <3>1
  <2>2. Size[v] \in Nat /\ Size[v] > 0
    BY Layout
  <2> QED
    BY <2>1, <2>2 DEF ReusableSlots
<1> QED
  BY <1>0, <1>15, <1>17, <1>19, <1>20, <1>21 DEF GoodPage, qg

-----------------------------------------------------------------------------
(* A file of pages.                                                         *)

FileOK(p) == p \in Seq(PageSet) /\ p # <<>> /\ \A n \in DOMAIN p : GoodPage(p[n])

Used(p) == UNION {{n} \X DOMAIN p[n].slots : n \in DOMAIN p}
SlotOf(p, x) == p[x[1]].slots[x[2]]

(* Every slot of p means in q what it meant in p.                           *)
Kept(p, q, X) == \A x \in X : SameSlot(p[x[1]], q[x[1]], x[2])

(* The RIDs of a file, taken apart.                                         *)
LEMMA UsedIs ==
  ASSUME NEW p
  PROVE  /\ \A n, i : <<n, i>> \in Used(p) <=> n \in DOMAIN p /\ i \in DOMAIN p[n].slots
         /\ \A x \in Used(p) : x = <<x[1], x[2]>> /\ x[1] \in DOMAIN p /\ x[2] \in DOMAIN p[x[1]].slots
BY DEF Used

(* What the pages of a file are.                                            *)
LEMMA FileTypes ==
  ASSUME NEW p, FileOK(p)
  PROVE  /\ p \in Seq(PageSet) /\ Len(p) \in Nat /\ Len(p) > 0 /\ DOMAIN p = 1 .. Len(p)
         /\ \A n \in DOMAIN p : GoodPage(p[n]) /\ Laid(p[n]) /\ p[n] \in PageSet /\ DOMAIN p[n].slots \subseteq Nat
<1>1. p \in Seq(PageSet) /\ Len(p) \in Nat /\ Len(p) > 0 /\ DOMAIN p = 1 .. Len(p) /\ \A n \in DOMAIN p : p[n] \in PageSet
  BY DEF FileOK
<1>2. \A n \in DOMAIN p : GoodPage(p[n]) /\ Laid(p[n])
  BY DEF FileOK, GoodPage
<1>3. \A n \in DOMAIN p : DOMAIN p[n].slots \subseteq Nat
  BY <1>1, PageTypes
<1> QED
  BY <1>1, <1>2, <1>3

(* Slots that mean the same, and again the same.                            *)
LEMMA SameSlotTransitive ==
  ASSUME NEW pg, NEW qg, NEW rg, NEW i, SameSlot(pg, qg, i), SameSlot(qg, rg, i)
  PROVE  SameSlot(pg, rg, i)
BY DEF SameSlot

(* A page that does not change keeps its slots.                             *)
LEMMA SameSlotReflexive == \A pg, i : SameSlot(pg, pg, i)
BY DEF SameSlot

(* The file q is p with the row v in the slot x, which was free.            *)
PutInto(p, q, x, v) ==
  /\ FileOK(q) /\ Len(q) >= Len(p)
  /\ Used(q) = Used(p) \cup {x}
  /\ x \in Used(p) => SlotOf(p, x).status = "EMPTY" /\ SlotOf(p, x).b >= Size[v]
  /\ Kept(p, q, Used(p) \ {x})
  /\ SlotOf(q, x).status = "VALID" /\ Written(q[x[1]], x[2], v)

(* One page of a file is replaced.                                          *)
LEMMA PageReplaced ==
  ASSUME NEW p, FileOK(p), NEW n \in DOMAIN p, NEW qg, GoodPage(qg)
  PROVE  LET q == [p EXCEPT ![n] = qg]
         IN /\ FileOK(q) /\ Len(q) = Len(p) /\ DOMAIN q = DOMAIN p
            /\ q[n] = qg /\ \A m \in DOMAIN p : m # n => q[m] = p[m]
<1> DEFINE q == [p EXCEPT ![n] = qg]
<1>1. qg \in PageSet
  BY DEF GoodPage, Laid
<1>2. /\ q \in Seq(PageSet) /\ Len(q) = Len(p) /\ DOMAIN q = DOMAIN p
      /\ q[n] = qg /\ \A m \in DOMAIN p : m # n => q[m] = p[m]
  BY <1>1, FileTypes
<1>3. q # <<>>
  BY <1>2, FileTypes
<1>4. \A m \in DOMAIN q : GoodPage(q[m])
  BY <1>2, FileTypes
<1> HIDE DEF q
<1> QED
  BY <1>2, <1>3, <1>4 DEF FileOK, q

(* A row goes into page n, whose other slots may have been compacted before.*)
LEMMA InsertedAt ==
  ASSUME NEW p, FileOK(p), NEW c, FileOK(c), Len(c) >= Len(p), Used(c) = Used(p), Kept(p, c, Used(p)),
         NEW n \in DOMAIN c, NEW v \in Row, HasRoom(c[n], v), c = p \/ ReusableSlots(c[n], v) = {}
  PROVE  LET res == InsertAt(c, n, v)
         IN /\ PutInto(p, res.pages, res.rid, v)
            /\ res.hint \in 0 .. Len(res.pages) - 1
            /\ res.rid \in Nat \X Nat
<1> DEFINE pg == c[n]
           qg == InsertedInto(pg, v)
           q == [c EXCEPT ![n] = qg]
           i == SlotFor(pg, v)
           x == <<n, i>>
<1>1. /\ GoodPage(pg) /\ n \in Nat /\ n \in 1 .. Len(c) /\ DOMAIN pg.slots = 1 .. Len(pg.slots) /\ Len(pg.slots) \in Nat
      /\ Len(c) \in Nat
  BY FileTypes, PageTypes
<1>2. /\ GoodPage(qg) /\ DOMAIN qg.slots = DOMAIN pg.slots \cup {i} /\ i \in Nat
      /\ i \in DOMAIN pg.slots => pg.slots[i].status = "EMPTY" /\ pg.slots[i].b >= Size[v]
      /\ OthersStay(pg, qg, i)
      /\ qg.slots[i].status = "VALID" /\ Written(qg, i, v)
  BY <1>1, RowInserted
<1>3. InsertAt(c, n, v) = [pages |-> q, hint |-> n - 1, rid |-> x]
  BY DEF InsertAt
<1>4. i \in DOMAIN pg.slots => c = p
  <2>1. ReusableSlots(pg, v) = {} => i = Len(pg.slots) + 1
    BY DEF SlotFor
  <2> QED
    BY <1>1, <2>1
<1> HIDE DEF qg, i
<1>5. /\ FileOK(q) /\ Len(q) = Len(c) /\ DOMAIN q = DOMAIN c
      /\ q[n] = qg /\ \A m \in DOMAIN c : m # n => q[m] = c[m]
  BY <1>2, PageReplaced
<1> HIDE DEF q
<1>6. Used(q) = Used(p) \cup {x}
  <2>1. \A m \in DOMAIN c : \A j : <<m, j>> \in Used(q) <=> <<m, j>> \in Used(c) \/ <<m, j>> = x
    <3>1. \A m \in DOMAIN c : \A j : <<m, j>> \in Used(q) <=> j \in DOMAIN q[m].slots
      BY <1>5, UsedIs
    <3>2. \A m \in DOMAIN c : \A j : <<m, j>> \in Used(c) <=> j \in DOMAIN c[m].slots
      BY UsedIs
    <3>3. \A m, j : <<m, j>> = x <=> m = n /\ j = i
      OBVIOUS
    <3> QED
      BY <1>2, <1>5, <3>1, <3>2, <3>3
  <2>2. \A y \in Used(q) : y = <<y[1], y[2]>> /\ y[1] \in DOMAIN c
    BY <1>5, UsedIs
  <2>3. \A y \in Used(c) : y = <<y[1], y[2]>> /\ y[1] \in DOMAIN c
    BY UsedIs
  <2>4. x = <<x[1], x[2]>> /\ x[1] \in DOMAIN c
    OBVIOUS
  <2> HIDE DEF x
  <2>5. \A y : y \in Used(q) <=> y \in Used(c) \cup {x}
    BY <2>1, <2>2, <2>3, <2>4
  <2> QED
    BY <2>5
<1>7. x \in Used(p) => SlotOf(p, x).status = "EMPTY" /\ SlotOf(p, x).b >= Size[v]
  <2>1. x \in Used(p) => i \in DOMAIN pg.slots
    BY UsedIs
  <2> QED
    BY <1>2, <1>4, <2>1 DEF SlotOf
<1>8. Kept(p, q, Used(p) \ {x})
  <2> SUFFICES ASSUME NEW y \in Used(p) \ {x} PROVE SameSlot(p[y[1]], q[y[1]], y[2])
    BY DEF Kept
  <2>1. y[1] \in DOMAIN c /\ y[2] \in DOMAIN c[y[1]].slots /\ y = <<y[1], y[2]>>
    BY UsedIs
  <2>2. SameSlot(p[y[1]], c[y[1]], y[2])
    BY DEF Kept
  <2>3. SameSlot(c[y[1]], q[y[1]], y[2])
    <3>1. CASE y[1] # n
      BY <1>5, <2>1, <3>1, SameSlotReflexive
    <3>2. CASE y[1] = n
      <4>1. y[2] \in DOMAIN pg.slots \ {i}
        BY <2>1, <3>2
      <4>2. qg.slots[y[2]] = pg.slots[y[2]]
        BY <1>2, <4>1 DEF OthersStay
      <4>3. ASSUME pg.slots[y[2]].status = "VALID", NEW w \in Row, Written(pg, y[2], w) PROVE Written(qg, y[2], w)
        BY <1>1, <1>2, <4>1, <4>3, OthersRead DEF GoodPage
      <4>4. SameSlot(pg, qg, y[2])
        BY <4>2, <4>3 DEF SameSlot
      <4> QED
        BY <1>5, <3>2, <4>4
    <3> QED
      BY <3>1, <3>2
  <2> QED
    BY <2>2, <2>3, SameSlotTransitive
<1>9. SlotOf(q, x).status = "VALID" /\ Written(q[x[1]], x[2], v)
  BY <1>2, <1>5 DEF SlotOf
<1>10. PutInto(p, q, x, v)
  BY <1>5, <1>6, <1>7, <1>8, <1>9 DEF PutInto
<1>11. n - 1 \in 0 .. Len(q) - 1 /\ x \in Nat \X Nat
  BY <1>1, <1>2, <1>5
<1> HIDE DEF x
<1> QED
  BY <1>3, <1>10, <1>11

(* Pages are compacted, and possibly a fresh page added: nothing changes    *)
(* but the layout.                                                          *)
LEMMA PagesCompacted ==
  ASSUME NEW p, FileOK(p), NEW D,
         NEW c, c = [n \in DOMAIN p |-> IF n \in D THEN Compact(p[n]) ELSE p[n]]
  PROVE  FileOK(c) /\ Len(c) = Len(p) /\ DOMAIN c = DOMAIN p /\ Used(c) = Used(p) /\ Kept(p, c, Used(p))
<1>1. \A n \in DOMAIN p :
        /\ GoodPage(c[n]) /\ DOMAIN c[n].slots = DOMAIN p[n].slots
        /\ \A i \in DOMAIN p[n].slots : SameSlot(p[n], c[n], i)
  <2>1. ASSUME NEW n \in DOMAIN p, n \in D
        PROVE  /\ GoodPage(c[n]) /\ DOMAIN c[n].slots = DOMAIN p[n].slots
               /\ \A i \in DOMAIN p[n].slots : SameSlot(p[n], c[n], i)
    <3>1. c[n] = Compact(p[n]) /\ GoodPage(p[n])
      BY <2>1, FileTypes
    <3> QED
      BY <3>1, Compacted
  <2>2. ASSUME NEW n \in DOMAIN p, n \notin D
        PROVE  /\ GoodPage(c[n]) /\ DOMAIN c[n].slots = DOMAIN p[n].slots
               /\ \A i \in DOMAIN p[n].slots : SameSlot(p[n], c[n], i)
    <3>1. c[n] = p[n] /\ GoodPage(p[n])
      BY <2>2, FileTypes
    <3> QED
      BY <3>1, SameSlotReflexive
  <2> QED
    BY <2>1, <2>2
<1>2. \A n \in DOMAIN p : c[n] \in PageSet
  BY <1>1 DEF GoodPage, Laid
<1>3. c \in [1 .. Len(p) -> PageSet] /\ DOMAIN c = DOMAIN p
  <2>1. DOMAIN p = 1 .. Len(p)
    BY FileTypes
  <2>2. DOMAIN c = DOMAIN p
    OBVIOUS
  <2>3. c = [n \in 1 .. Len(p) |-> c[n]]
    BY <2>1
  <2> QED
    BY <1>2, <2>1, <2>2, <2>3
<1>4. c \in Seq(PageSet) /\ Len(c) = Len(p) /\ c # <<>>
  <2>1. Len(p) \in Nat /\ Len(p) > 0
    BY FileTypes
  <2> QED
    BY <1>3, <2>1
<1>5. FileOK(c)
  BY <1>1, <1>3, <1>4 DEF FileOK
<1>6. Used(c) = Used(p)
  BY <1>1, <1>3 DEF Used
<1>7. Kept(p, c, Used(p))
  BY <1>1, UsedIs DEF Kept
<1> QED
  BY <1>3, <1>4, <1>5, <1>6, <1>7

(* A page is added at the end of the file.                                  *)
LEMMA PageAdded ==
  ASSUME NEW p, FileOK(p)
  PROVE  LET c == Append(p, FreshPage)
         IN /\ FileOK(c) /\ Len(c) = Len(p) + 1 /\ Used(c) = Used(p) /\ Kept(p, c, Used(p))
            /\ Len(p) + 1 \in DOMAIN c /\ c[Len(p) + 1] = FreshPage
<1> DEFINE c == Append(p, FreshPage)
<1>1. FreshPage \in PageSet /\ GoodPage(FreshPage) /\ DOMAIN FreshPage.slots = {}
  BY NewPages DEF GoodPage, Laid, FreshPage
<1>2. p \in Seq(PageSet) /\ Len(p) \in Nat /\ DOMAIN p = 1 .. Len(p) /\ \A n \in DOMAIN p : GoodPage(p[n])
  BY FileTypes
<1>3. /\ c \in Seq(PageSet) /\ Len(c) = Len(p) + 1 /\ c # <<>> /\ DOMAIN c = DOMAIN p \cup {Len(p) + 1}
      /\ c[Len(p) + 1] = FreshPage /\ Len(p) + 1 \notin DOMAIN p
      /\ \A n \in DOMAIN p : c[n] = p[n]
  BY <1>1, <1>2
<1> HIDE DEF c
<1>4. FileOK(c)
  BY <1>1, <1>2, <1>3 DEF FileOK
<1>5. Used(c) = Used(p)
  <2>1. \A n, i : <<n, i>> \in Used(c) <=> <<n, i>> \in Used(p)
    <3>1. \A n, i : <<n, i>> \in Used(c) <=> n \in DOMAIN c /\ i \in DOMAIN c[n].slots
      BY UsedIs
    <3>2. \A n, i : <<n, i>> \in Used(p) <=> n \in DOMAIN p /\ i \in DOMAIN p[n].slots
      BY UsedIs
    <3> QED
      BY <1>1, <1>3, <3>1, <3>2
  <2>2. \A y \in Used(c) : y = <<y[1], y[2]>>
    BY UsedIs
  <2>3. \A y \in Used(p) : y = <<y[1], y[2]>>
    BY UsedIs
  <2> QED
    BY <2>1, <2>2, <2>3
<1>6. Kept(p, c, Used(p))
  BY <1>3, UsedIs, SameSlotReflexive DEF Kept
<1> QED
  BY <1>3, <1>4, <1>5, <1>6 DEF c

(* insert() as a whole, wherever the row goes.                              *)
LEMMA InsertPuts ==
  ASSUME NEW p, FileOK(p), hint \in Nat, NEW v \in Row
  PROVE  LET res == InsertResult(p, v)
         IN /\ PutInto(p, res.pages, res.rid, v)
            /\ res.hint \in 0 .. Len(res.pages) - 1
            /\ res.rid \in Nat \X Nat
<1> DEFINE turns == 0 .. Len(p) - 1
           fits == {k \in turns : HasRoom(p[From(p, k)], v)}
           worn == {k \in turns : SlotsWith(p[From(p, k)], "EMPTY") # {}}
           made == {k \in worn : HasRoom(Compact(p[From(p, k)]), v)}
           Behind(k) == {n \in DOMAIN p : \E j \in worn : j <= k /\ From(p, j) = n}
           CompactedUpTo(k) == [n \in DOMAIN p |->
             IF \E j \in worn : j <= k /\ From(p, j) = n THEN Compact(p[n]) ELSE p[n]]
           Holds(res) == /\ PutInto(p, res.pages, res.rid, v)
                         /\ res.hint \in 0 .. Len(res.pages) - 1
                         /\ res.rid \in Nat \X Nat
<1> SUFFICES Holds(InsertResult(p, v))
  OBVIOUS
<1>1. InsertResult(p, v) =
        CASE fits # {} -> InsertAt(p, From(p, Least(fits)), v)
          [] fits = {} /\ made # {} -> InsertAt(CompactedUpTo(Least(made)), From(p, Least(made)), v)
          [] OTHER -> InsertAt(Append(CompactedUpTo(Len(p)), FreshPage), Len(p) + 1, v)
  BY DEF InsertResult
<1>2. turns \subseteq Nat /\ Len(p) \in Nat /\ Len(p) > 0
  BY FileTypes
<1>3. \A k \in turns : From(p, k) \in DOMAIN p
  <2>1. ASSUME NEW k \in turns PROVE From(p, k) \in DOMAIN p
    <3>1. hint + k \in Nat /\ Len(p) \in Nat /\ Len(p) > 0
      BY <1>2
    <3>2. (hint + k) % Len(p) \in 0 .. Len(p) - 1
      BY <3>1
    <3>3. ((hint + k) % Len(p)) + 1 \in 1 .. Len(p)
      BY <3>1, <3>2
    <3> QED
      BY <3>3, FileTypes DEF From
  <2> QED
    BY <2>1
<1>4. fits \subseteq Nat /\ made \subseteq worn /\ made \subseteq Nat /\ fits \subseteq turns /\ worn \subseteq turns
  BY <1>2
<1>5. \A k : /\ FileOK(CompactedUpTo(k)) /\ Len(CompactedUpTo(k)) = Len(p) /\ DOMAIN CompactedUpTo(k) = DOMAIN p
             /\ Used(CompactedUpTo(k)) = Used(p) /\ Kept(p, CompactedUpTo(k), Used(p))
  <2> TAKE k
  <2>1. CompactedUpTo(k) = [n \in DOMAIN p |-> IF n \in Behind(k) THEN Compact(p[n]) ELSE p[n]]
    BY Zenon
  <2> HIDE DEF CompactedUpTo, Behind
  <2> QED
    BY <2>1, PagesCompacted
<1>6. CASE fits # {}
  <2> DEFINE n == From(p, Least(fits))
  <2>1. Least(fits) \in fits
    <3> HIDE DEF fits
    <3> QED
      BY <1>4, <1>6, LeastIsLeast
  <2>2. n \in DOMAIN p /\ HasRoom(p[n], v)
    BY <1>3, <2>1
  <2>3. InsertResult(p, v) = InsertAt(p, n, v)
    <3> HIDE DEF fits, made, CompactedUpTo
    <3> QED
      BY <1>1, <1>6
  <2> HIDE DEF n
  <2>4. Kept(p, p, Used(p)) /\ Len(p) >= Len(p)
    BY <1>2, SameSlotReflexive DEF Kept
  <2>5. Holds(InsertAt(p, n, v))
    BY <2>2, <2>4, InsertedAt
  <2> QED
    BY <2>3, <2>5
<1>7. CASE fits = {} /\ made # {}
  <2> DEFINE k == Least(made)
             n == From(p, k)
             c == CompactedUpTo(k)
  <2>1. k \in made /\ k \in worn /\ k \in turns
    <3>1. k \in made
      <4> HIDE DEF made
      <4> QED
        BY <1>4, <1>7, LeastIsLeast
    <3> QED
      BY <3>1
  <2>2. n \in DOMAIN p /\ HasRoom(Compact(p[n]), v) /\ GoodPage(p[n])
    BY <1>3, <2>1, FileTypes
  <2>3. c[n] = Compact(p[n])
    <3>1. k <= k
      BY <1>2, <2>1
    <3>2. \E j \in worn : j <= k /\ From(p, j) = n
      BY <2>1, <3>1
    <3> HIDE DEF worn
    <3> QED
      BY <2>2, <3>2
  <2>4. ReusableSlots(c[n], v) = {} /\ HasRoom(c[n], v)
    BY <2>2, <2>3, Compacted
  <2>5. InsertResult(p, v) = InsertAt(c, n, v)
    <3> HIDE DEF fits, made, CompactedUpTo
    <3> QED
      BY <1>1, <1>7
  <2>6. /\ FileOK(c) /\ Len(c) = Len(p) /\ DOMAIN c = DOMAIN p
        /\ Used(c) = Used(p) /\ Kept(p, c, Used(p))
    <3> HIDE DEF CompactedUpTo
    <3> QED
      BY <1>5
  <2> HIDE DEF n, c
  <2>7. Holds(InsertAt(c, n, v))
    BY <1>2, <2>2, <2>4, <2>6, InsertedAt
  <2> QED
    BY <2>5, <2>7
<1>8. CASE fits = {} /\ made = {}
  <2> DEFINE d == CompactedUpTo(Len(p))
             n == Len(p) + 1
             c == Append(d, FreshPage)
  <2>1. /\ FileOK(d) /\ Len(d) = Len(p) /\ DOMAIN d = DOMAIN p
        /\ Used(d) = Used(p) /\ Kept(p, d, Used(p))
    <3> HIDE DEF CompactedUpTo
    <3> QED
      BY <1>5
  <2>2. InsertResult(p, v) = InsertAt(c, n, v)
    <3> HIDE DEF fits, made, CompactedUpTo
    <3> QED
      BY <1>1, <1>8
  <2> HIDE DEF d
  <2>3. /\ FileOK(c) /\ Len(c) = n /\ Used(c) = Used(d) /\ Kept(d, c, Used(d))
        /\ n \in DOMAIN c /\ c[n] = FreshPage
    BY <2>1, PageAdded
  <2>4. ReusableSlots(FreshPage, v) = {}
    BY DEF ReusableSlots, SlotsWith, FreshPage
  <2>5. HasRoom(FreshPage, v)
    <3>1. FreshPage.free = PageSize /\ Len(FreshPage.slots) = 0
      BY DEF FreshPage
    <3>2. 0 * SlotSize = 0
      BY Layout
    <3>3. Size[v] \in Nat /\ Size[v] + SlotSize <= PageSize - HeaderSize
      BY Layout, RowsFit
    <3> QED
      BY <3>1, <3>2, <3>3, Layout DEF HasRoom, CanAppend
  <2>6. Kept(p, c, Used(p))
    BY <2>1, <2>3, SameSlotTransitive DEF Kept
  <2>7. Len(c) >= Len(p)
    BY <1>2, <2>3
  <2> HIDE DEF c, n
  <2>8. Holds(InsertAt(c, n, v))
    BY <2>1, <2>3, <2>4, <2>5, <2>6, <2>7, InsertedAt
  <2> QED
    BY <2>2, <2>8
<1> HIDE DEF fits, made, Holds
<1> QED
  BY <1>6, <1>7, <1>8

-----------------------------------------------------------------------------
(* Forwarding.                                                              *)

IsForwarded(p, x) == SlotOf(p, x).status = "FORWARDED"
To(p, x) == <<SlotOf(p, x).a, SlotOf(p, x).b>>
Forwards(p) == {x \in Used(p) : IsForwarded(p, x)}
Pointers(p) == [x \in Forwards(p) |-> To(p, x)]

(* Pointers lead to slots, and never in a circle: each goes down in a rank. *)
Chained(p) ==
  /\ \A x \in Forwards(p) : To(p, x) \in Used(p)
  /\ \E rank \in [Used(p) -> Nat] : \A x \in Forwards(p) : rank[To(p, x)] < rank[x]

(* Header, slots and rows fit in a page, so there are at most MaxSlots.     *)
LEMMA SlotsBounded ==
  ASSUME NEW pg, Laid(pg), NEW i \in DOMAIN pg.slots
  PROVE  MaxSlots \in Nat /\ i \in 1 .. MaxSlots
<1> DEFINE n == Len(pg.slots)
           room == PageSize - HeaderSize
<1>1. n \in Nat /\ i \in 1 .. n /\ pg.free \in 0 .. PageSize /\ room \in Int
  BY PageTypes, Layout DEF Laid
<1>2. Top(n) <= PageSize
  <2>1. pg.slots # <<>>
    OBVIOUS
  <2>2. Top(n) <= pg.free
    BY <2>1 DEF Laid
  <2>3. Top(n) \in Nat
    BY <1>1, TopSteps
  <2> QED
    BY <1>1, <2>2, <2>3, Layout
<1> HIDE DEF n
<1>3. n * SlotSize <= room /\ n * SlotSize \in Nat /\ n >= 1
  <2>1. n * SlotSize \in Nat
    BY <1>1, Layout
  <2> QED
    BY <1>1, <1>2, <2>1, Layout DEF Top
<1>4. room >= 1
  <2>1. n * SlotSize >= 1
    BY <1>1, <1>3, Layout
  <2> QED
    BY <1>1, <1>3, <2>1
<1> HIDE DEF room
<1>5. room \div SlotSize \in Nat /\ room < (room \div SlotSize + 1) * SlotSize
  BY <1>1, <1>4, Layout
<1>6. n <= room \div SlotSize
  <2> SUFFICES ASSUME n >= room \div SlotSize + 1 PROVE FALSE
    BY <1>1, <1>5
  <2>1. n * SlotSize >= (room \div SlotSize + 1) * SlotSize
    BY <1>1, <1>5, Layout
  <2> QED
    BY <1>1, <1>3, <1>5, <2>1, Layout
<1>7. MaxSlots = room \div SlotSize
  BY DEF MaxSlots, room
<1> QED
  BY <1>1, <1>5, <1>6, <1>7

(* A file has finitely many RIDs.                                           *)
LEMMA UsedFinite ==
  ASSUME NEW p, FileOK(p)
  PROVE  IsFiniteSet(Used(p)) /\ Cardinality(Used(p)) \in Nat
<1>1. Len(p) \in Nat /\ DOMAIN p = 1 .. Len(p) /\ \A n \in DOMAIN p : Laid(p[n])
  BY FileTypes
<1>2. CASE Used(p) = {}
  BY <1>2, FS_EmptySet, FS_CardinalityType
<1>3. CASE Used(p) # {}
  <2>1. PICK x \in Used(p) : TRUE
    BY <1>3
  <2>2. MaxSlots \in Nat
    BY <1>1, <2>1, UsedIs, SlotsBounded
  <2>3. IsFiniteSet(1 .. Len(p)) /\ IsFiniteSet(1 .. MaxSlots)
    BY <1>1, <2>2, FS_Interval
  <2>4. IsFiniteSet((1 .. Len(p)) \X (1 .. MaxSlots))
    BY <2>3, FS_Product
  <2>5. Used(p) \in SUBSET ((1 .. Len(p)) \X (1 .. MaxSlots))
    <3>1. ASSUME NEW y \in Used(p) PROVE y \in (1 .. Len(p)) \X (1 .. MaxSlots)
      BY <1>1, UsedIs, SlotsBounded
    <3> QED
      BY <3>1
  <2>6. IsFiniteSet(Used(p))
    BY <2>4, <2>5, FS_Subset
  <2> QED
    BY <2>6, FS_CardinalityType
<1> QED
  BY <1>2, <1>3

(* The operators of HeapFile on its pages, for any file.                    *)
LEMMA RidsAre ==
  /\ UsedRids = Used(pages)
  /\ \A x : Forwarded(x) <=> IsForwarded(pages, x)
  /\ \A x : PointedTo(x) = To(pages, x)
  /\ \A x : Entry(x) = SlotOf(pages, x)
BY DEF UsedRids, Used, Forwarded, IsForwarded, PointedTo, To, Entry, SlotOf

(* What Visited gives.                                                      *)
LEMMA VisitedIs ==
  ASSUME FileOK(pages), Chained(pages), NEW rid \in Used(pages)
  PROVE  /\ IsReach(Visited(rid), rid, Used(pages), Forwards(pages), Pointers(pages))
         /\ \E x \in Visited(rid) : x \notin Forwards(pages)
<1> DEFINE U == Used(pages)
           F == Forwards(pages)
           p == Pointers(pages)
           N == Cardinality(UsedRids)
           Onward(met) == met \cup {PointedTo(x) : x \in {y \in met : Forwarded(y)}}
           after[n \in 0 .. N] ==
             IF n = 0 THEN {rid} ELSE LET met == after[n - 1] IN met \cup {PointedTo(x) : x \in {y \in met : Forwarded(y)}}
<1>1. N \in Nat /\ N = Cardinality(U) /\ IsFiniteSet(U)
  BY RidsAre, UsedFinite
<1>2. F \in SUBSET U /\ p \in [F -> U] /\ \A x \in F : p[x] = PointedTo(x)
  BY RidsAre DEF Forwards, Pointers, Chained
<1>3. \A met \in SUBSET U : Onward(met) = met \cup {p[x] : x \in met \cap F}
  <2>1. ASSUME NEW met \in SUBSET U PROVE {y \in met : Forwarded(y)} = met \cap F
    BY RidsAre DEF Forwards
  <2> QED
    BY <1>2, <2>1
<1>4. Visited(rid) = after[N]
  BY DEF Visited
<1> HIDE DEF U, F, p, N
<1>5. rid \in U
  BY DEF U
<1>6. PICK f \in [0 .. N -> SUBSET U] : IsFollowing(f, rid, F, p, N)
  BY <1>1, <1>2, <1>5, FollowingExists
<1>7. f = [n \in 0 .. N |->
             IF n = 0 THEN {rid} ELSE LET met == f[n - 1] IN met \cup {PointedTo(x) : x \in {y \in met : Forwarded(y)}}]
  <2>1. \A n \in 0 .. N : f[n] = IF n = 0 THEN {rid} ELSE f[n - 1] \cup {p[x] : x \in f[n - 1] \cap F}
    BY <1>6, Zenon DEF IsFollowing
  <2>2. \A n \in 0 .. N : n # 0 => f[n - 1] \in SUBSET U
    BY <1>1, <1>6
  <2> HIDE DEF Onward
  <2>3. \A n \in 0 .. N : f[n] = IF n = 0 THEN {rid} ELSE Onward(f[n - 1])
    BY <1>3, <2>1, <2>2, Zenon
  <2>4. f = [n \in 0 .. N |-> f[n]]
    BY <1>6
  <2>5. f = [n \in 0 .. N |-> IF n = 0 THEN {rid} ELSE Onward(f[n - 1])]
    BY <2>3, <2>4, Zenon
  <2> QED
    BY <2>5, Zenon DEF Onward
<1>8. after = [n \in 0 .. N |->
                 IF n = 0 THEN {rid} ELSE LET met == after[n - 1] IN met \cup {PointedTo(x) : x \in {y \in met : Forwarded(y)}}]
  BY <1>7, Zenon
<1> HIDE DEF after
<1>9. \A n \in 0 .. N : after[n] = IF n = 0 THEN {rid} ELSE Onward(after[n - 1])
  BY <1>8, Zenon
<1> HIDE DEF Onward
<1>10. \A n \in 0 .. N : after[n] \in SUBSET U
  <2> DEFINE S == {n \in 0 .. N : after[n] \in SUBSET U}
  <2>1. 0 \in S
    BY <1>1, <1>5, <1>9
  <2>2. ASSUME NEW n \in 1 .. N, n - 1 \in S PROVE n \in S
    <3>1. n \in 0 .. N /\ n # 0 /\ n - 1 \in 0 .. N /\ after[n - 1] \in SUBSET U
      BY <1>1, <2>2
    <3>2. after[n] = after[n - 1] \cup {p[x] : x \in after[n - 1] \cap F}
      BY <1>3, <1>9, <3>1, Zenon
    <3>3. {p[x] : x \in after[n - 1] \cap F} \in SUBSET U
      BY <1>2
    <3> QED
      BY <3>1, <3>2, <3>3
  <2> HIDE DEF S
  <2>3. 0 .. N \subseteq S
    BY <1>1, <2>1, <2>2, BoundedInduction
  <2> QED
    BY <2>3 DEF S
<1>11. IsFollowing(after, rid, F, p, N)
  <2>1. \A n \in 0 .. N : n # 0 => after[n - 1] \in SUBSET U
    <3>1. \A n \in 0 .. N : n # 0 => n - 1 \in 0 .. N
      BY <1>1
    <3> QED
      BY <1>10, <3>1
  <2>2. \A n \in 0 .. N : after[n] = IF n = 0 THEN {rid} ELSE after[n - 1] \cup {p[x] : x \in after[n - 1] \cap F}
    BY <1>3, <1>9, <2>1, Zenon
  <2>3. after = [n \in 0 .. N |-> after[n]]
    BY <1>8
  <2> QED
    BY <2>2, <2>3, Zenon DEF IsFollowing
<1>12. IsReach(after[N], rid, U, F, p)
  BY <1>1, <1>2, <1>5, <1>11, FollowingReaches
<1>13. \E x \in after[N] : x \notin F
  <2>1. PICK rank \in [U -> Nat] : \A x \in F : rank[p[x]] < rank[x]
    <3>1. PICK rank \in [Used(pages) -> Nat] : \A x \in Forwards(pages) : rank[To(pages, x)] < rank[x]
      BY DEF Chained
    <3> QED
      BY <3>1, <1>2, RidsAre DEF U, F
  <2> QED
    BY <1>12, <2>1, ReachEnds
<1> QED
  BY <1>4, <1>12, <1>13 DEF U, F, p

(* The end of a chain.                                                      *)
LEMMA EndIs ==
  ASSUME FileOK(pages), Chained(pages), NEW rid \in Used(pages)
  PROVE  /\ End(rid) \in Visited(rid) /\ End(rid) \in Used(pages) /\ ~ IsForwarded(pages, End(rid))
         /\ \A x \in Visited(rid) : ~ IsForwarded(pages, x) => x = End(rid)
<1>1. PICK x \in Visited(rid) : x \notin Forwards(pages)
  BY VisitedIs
<1>2. Visited(rid) \subseteq Used(pages) /\ \A y, z \in Visited(rid) \ Forwards(pages) : y = z
  BY VisitedIs DEF IsReach
<1>3. x \in Visited(rid) /\ ~ Forwarded(x)
  BY <1>1, <1>2, RidsAre DEF Forwards
<1>4. End(rid) \in Visited(rid) /\ ~ Forwarded(End(rid))
  BY <1>3, Zenon DEF End
<1> QED
  BY <1>2, <1>4, RidsAre DEF Forwards

-----------------------------------------------------------------------------
(* What the operations do to a file.                                        *)

(* The slots of a page are given new entries that claim no more than before *)
(* and hold no rows but those that were there.                              *)
LEMMA SlotsReset ==
  ASSUME NEW pg, GoodPage(pg), NEW s, s \in Seq(SlotSet),
         DOMAIN s = DOMAIN pg.slots, Len(s) = Len(pg.slots),
         \A i \in DOMAIN pg.slots : \/ s[i] = pg.slots[i]
                                    \/ s[i].status = "FORWARDED"
                                    \/ s[i].status = "EMPTY" /\ s[i].b = 0
                                    \/ /\ s[i].status = "EMPTY" /\ pg.slots[i].status # "FORWARDED"
                                       /\ s[i].a = pg.slots[i].a /\ s[i].b = pg.slots[i].b
  PROVE  LET qg == [pg EXCEPT !.slots = s]
         IN GoodPage(qg) /\ qg.slots = s /\ \A i \in DOMAIN pg.slots : s[i] = pg.slots[i] => SameSlot(pg, qg, i)
<1> DEFINE qg == [pg EXCEPT !.slots = s]
<1>1. pg \in PageSet /\ Laid(pg) /\ Readable(pg)
  BY DEF GoodPage, Laid
<1>2. qg \in PageSet /\ qg.slots = s /\ qg.data = pg.data /\ qg.free = pg.free
  BY <1>1 DEF PageSet
<1> HIDE DEF qg
<1>3. ASSUME NEW i \in DOMAIN pg.slots PROVE Area(qg, i) \subseteq Area(pg, i)
  <2>1. s[i].status = "EMPTY" /\ s[i].b = 0 => Area(qg, i) = {}
    <3>1. s[i].a \in Nat
      BY <1>2, PageTypes
    <3> QED
      BY <1>2, <3>1 DEF Area, Bytes
  <2> QED
    BY <1>2, <2>1 DEF Area
<1>4. Laid(qg)
  BY <1>1, <1>2, <1>3, ShrunkLaid
<1>5. \A i \in DOMAIN pg.slots : \A v : s[i] = pg.slots[i] /\ Written(pg, i, v) => Written(qg, i, v)
  BY <1>2 DEF Written
<1>6. Readable(qg)
  <2>1. \A i \in SlotsWith(qg, "VALID") : i \in SlotsWith(pg, "VALID") /\ i \in DOMAIN pg.slots /\ s[i] = pg.slots[i]
    BY <1>2 DEF SlotsWith
  <2> QED
    BY <1>1, <1>5, <2>1 DEF Readable
<1>7. \A i \in DOMAIN pg.slots : s[i] = pg.slots[i] => SameSlot(pg, qg, i)
  BY <1>2, <1>5 DEF SameSlot
<1> QED
  BY <1>2, <1>4, <1>6, <1>7 DEF GoodPage, qg

(* A slot gets a forwarding pointer.                                        *)
LEMMA SlotForwarded ==
  ASSUME NEW pg, GoodPage(pg), NEW i \in DOMAIN pg.slots, NEW a \in Nat, NEW b \in Nat
  PROVE  LET qg == SetSlot(pg, i, SlotEntry("FORWARDED", a, b))
         IN /\ GoodPage(qg) /\ DOMAIN qg.slots = DOMAIN pg.slots
            /\ qg.slots[i].status = "FORWARDED" /\ qg.slots[i].a = a /\ qg.slots[i].b = b
            /\ \A j \in DOMAIN pg.slots : j # i => SameSlot(pg, qg, j)
<1> DEFINE entry == SlotEntry("FORWARDED", a, b)
           s == [pg.slots EXCEPT ![i] = entry]
           qg == SetSlot(pg, i, entry)
<1>1. pg \in PageSet
  BY DEF GoodPage, Laid
<1>2. entry \in SlotSet /\ entry.status = "FORWARDED" /\ entry.a = a /\ entry.b = b
  BY EntryIs
<1> HIDE DEF entry
<1>3. /\ s \in Seq(SlotSet) /\ DOMAIN s = DOMAIN pg.slots /\ Len(s) = Len(pg.slots)
      /\ s[i] = entry /\ \A j \in DOMAIN pg.slots : j # i => s[j] = pg.slots[j]
  BY <1>1, <1>2, PageTypes
<1>4. qg = [pg EXCEPT !.slots = s]
  BY <1>1 DEF SetSlot, PageSet
<1> HIDE DEF s, qg
<1>5. GoodPage(qg) /\ qg.slots = s /\ \A j \in DOMAIN pg.slots : s[j] = pg.slots[j] => SameSlot(pg, qg, j)
  BY <1>2, <1>3, <1>4, SlotsReset
<1> QED
  BY <1>2, <1>3, <1>5 DEF qg, entry

(* The entry of a slot that delete() comes by.                              *)
Emptied(e) == IF e.status = "FORWARDED" THEN SlotEntry("EMPTY", 0, 0) ELSE SlotEntry("EMPTY", e.a, e.b)

EmptiedSlots(pg, V) == [i \in DOMAIN pg.slots |-> IF i \notin V THEN pg.slots[i] ELSE Emptied(pg.slots[i])]

(* The slots V of a page are emptied.                                       *)
LEMMA SlotsEmptied ==
  ASSUME NEW pg, GoodPage(pg), NEW V
  PROVE  LET qg == [pg EXCEPT !.slots = EmptiedSlots(pg, V)]
         IN /\ GoodPage(qg) /\ DOMAIN qg.slots = DOMAIN pg.slots
            /\ \A i \in DOMAIN pg.slots : /\ i \in V => qg.slots[i].status = "EMPTY"
                                          /\ i \notin V => SameSlot(pg, qg, i)
<1> DEFINE s == EmptiedSlots(pg, V)
           qg == [pg EXCEPT !.slots = s]
<1>1. pg \in PageSet /\ DOMAIN pg.slots = 1 .. Len(pg.slots) /\ Len(pg.slots) \in Nat
  BY PageTypes DEF GoodPage, Laid
<1>2. ASSUME NEW e \in SlotSet
      PROVE  /\ Emptied(e) \in SlotSet /\ Emptied(e).status = "EMPTY"
             /\ \/ Emptied(e).b = 0
                \/ e.status # "FORWARDED" /\ Emptied(e).a = e.a /\ Emptied(e).b = e.b
  <2>1. e.a \in Nat /\ e.b \in Nat
    BY DEF SlotSet
  <2> QED
    BY <2>1, EntryIs DEF Emptied
<1>3. \A i \in DOMAIN pg.slots : pg.slots[i] \in SlotSet
  BY <1>1, PageTypes
<1>4. \A i \in DOMAIN pg.slots : s[i] \in SlotSet
  BY <1>2, <1>3 DEF EmptiedSlots
<1>5. DOMAIN s = DOMAIN pg.slots /\ s \in [1 .. Len(pg.slots) -> SlotSet]
  <2>1. DOMAIN s = DOMAIN pg.slots
    BY DEF EmptiedSlots
  <2>2. s = [i \in 1 .. Len(pg.slots) |-> s[i]]
    BY <1>1 DEF EmptiedSlots
  <2> QED
    BY <1>1, <1>4, <2>1, <2>2
<1>6. s \in Seq(SlotSet) /\ Len(s) = Len(pg.slots)
  BY <1>1, <1>5
<1>7. \A i \in DOMAIN pg.slots : \/ s[i] = pg.slots[i]
                                 \/ s[i].status = "FORWARDED"
                                 \/ s[i].status = "EMPTY" /\ s[i].b = 0
                                 \/ /\ s[i].status = "EMPTY" /\ pg.slots[i].status # "FORWARDED"
                                    /\ s[i].a = pg.slots[i].a /\ s[i].b = pg.slots[i].b
  BY <1>2, <1>3 DEF EmptiedSlots
<1>8. \A i \in DOMAIN pg.slots : (i \in V => s[i].status = "EMPTY") /\ (i \notin V => s[i] = pg.slots[i])
  BY <1>2, <1>3 DEF EmptiedSlots
<1>9. GoodPage(qg) /\ qg.slots = s /\ \A i \in DOMAIN pg.slots : s[i] = pg.slots[i] => SameSlot(pg, qg, i)
  <2> HIDE DEF s
  <2> QED
    BY <1>5, <1>6, <1>7, SlotsReset
<1> HIDE DEF qg
<1> QED
  BY <1>5, <1>8, <1>9 DEF qg

(* The file q is p with ... the slots V emptied.                            *)
Emptying(p, q, V) ==
  /\ FileOK(q) /\ Len(q) = Len(p) /\ Used(q) = Used(p)
  /\ \A x \in Used(p) \cap V : SlotOf(q, x).status = "EMPTY"
  /\ Kept(p, q, Used(p) \ V)

(* ... the row v in the slot x in place of what was there.                  *)
Overwriting(p, q, x, v) ==
  /\ FileOK(q) /\ Len(q) = Len(p) /\ Used(q) = Used(p)
  /\ SlotOf(q, x).status = "VALID" /\ Written(q[x[1]], x[2], v)
  /\ Kept(p, q, Used(p) \ {x})

(* ... the row v in the slot y, which was free, and x forwarding to y.      *)
Moving(p, q, x, y, v) ==
  /\ FileOK(q) /\ Len(q) >= Len(p) /\ Used(q) = Used(p) \cup {y} /\ x # y
  /\ y \in Used(p) => SlotOf(p, y).status = "EMPTY"
  /\ SlotOf(q, y).status = "VALID" /\ Written(q[y[1]], y[2], v)
  /\ IsForwarded(q, x) /\ To(q, x) = y
  /\ Kept(p, q, Used(p) \ {x, y})

(* insert() puts a row into a free slot, or a new one.                      *)
LEMMA InsertDoes ==
  ASSUME FileOK(pages), hint \in Nat, NEW v \in Row, InsertRow(v)
  PROVE  /\ PutInto(pages, pages', returned', v) /\ Len(pages') <= MaxPages
         /\ hint' \in 0 .. Len(pages') - 1
<1> DEFINE res == InsertResult(pages, v)
<1>1. PutInto(pages, res.pages, res.rid, v) /\ res.hint \in 0 .. Len(res.pages) - 1
  BY InsertPuts
<1>2. Len(res.pages) <= MaxPages /\ pages' = res.pages /\ hint' = res.hint /\ returned' = res.rid
  BY DEF InsertRow
<1> HIDE DEF res
<1> QED
  BY <1>1, <1>2

(* delete() empties the slots of a chain.                                   *)
LEMMA DeleteDoes ==
  ASSUME FileOK(pages), NEW rid, DeleteRow(rid)
  PROVE  Emptying(pages, pages', Visited(rid)) /\ returned' = NoRid /\ hint' = hint
<1> DEFINE V(n) == {i \in DOMAIN pages[n].slots : <<n, i>> \in Visited(rid)}
           page(n) == [pages[n] EXCEPT !.slots = EmptiedSlots(pages[n], V(n))]
<1>1. \A n \in DOMAIN pages : GoodPage(pages[n])
  BY FileTypes
<1>2. pages' = [n \in DOMAIN pages |-> page(n)]
  <2>1. \A n \in DOMAIN pages : EmptiedSlots(pages[n], V(n)) =
          [i \in DOMAIN pages[n].slots |->
             IF <<n, i>> \notin Visited(rid) THEN pages[n].slots[i]
             ELSE IF pages[n].slots[i].status = "FORWARDED" THEN SlotEntry("EMPTY", 0, 0)
             ELSE SlotEntry("EMPTY", pages[n].slots[i].a, pages[n].slots[i].b)]
    BY DEF EmptiedSlots, Emptied
  <2>2. pages' = [n \in DOMAIN pages |->
          [pages[n] EXCEPT !.slots = [i \in DOMAIN pages[n].slots |->
             IF <<n, i>> \notin Visited(rid) THEN pages[n].slots[i]
             ELSE IF pages[n].slots[i].status = "FORWARDED" THEN SlotEntry("EMPTY", 0, 0)
             ELSE SlotEntry("EMPTY", pages[n].slots[i].a, pages[n].slots[i].b)]]]
    BY DEF DeleteRow
  <2> HIDE DEF V
  <2> QED
    BY <2>1, <2>2, Zenon
<1>3. ASSUME NEW n \in DOMAIN pages
      PROVE  /\ GoodPage(page(n)) /\ DOMAIN page(n).slots = DOMAIN pages[n].slots
             /\ \A i \in DOMAIN pages[n].slots : /\ i \in V(n) => page(n).slots[i].status = "EMPTY"
                                                 /\ i \notin V(n) => SameSlot(pages[n], page(n), i)
  <2> HIDE DEF V
  <2> QED
    BY <1>1, SlotsEmptied
<1>4. returned' = NoRid /\ hint' = hint
  BY DEF DeleteRow
<1> HIDE DEF page
<1>5. DOMAIN pages' = DOMAIN pages /\ \A n \in DOMAIN pages : pages'[n] = page(n)
  BY <1>2
<1>6. pages' \in [1 .. Len(pages) -> PageSet]
  <2>1. DOMAIN pages = 1 .. Len(pages)
    BY FileTypes
  <2>2. pages' = [n \in 1 .. Len(pages) |-> page(n)]
    BY <1>2, <2>1
  <2>3. \A n \in 1 .. Len(pages) : page(n) \in PageSet
    BY <1>3, <2>1 DEF GoodPage, Laid
  <2> QED
    BY <2>2, <2>3
<1>7. pages' \in Seq(PageSet) /\ Len(pages') = Len(pages) /\ pages' # <<>>
  <2>1. Len(pages) \in Nat /\ Len(pages) > 0
    BY FileTypes
  <2> QED
    BY <1>6, <2>1
<1>8. FileOK(pages')
  BY <1>3, <1>5, <1>7 DEF FileOK
<1>9. Used(pages') = Used(pages)
  BY <1>3, <1>5 DEF Used
<1>10. \A x \in Used(pages) \cap Visited(rid) : SlotOf(pages', x).status = "EMPTY"
  <2>1. ASSUME NEW x \in Used(pages) \cap Visited(rid) PROVE SlotOf(pages', x).status = "EMPTY"
    <3>1. x[1] \in DOMAIN pages /\ x[2] \in V(x[1])
      BY UsedIs
    <3> QED
      BY <1>3, <1>5, <3>1 DEF SlotOf
  <2> QED
    BY <2>1
<1>11. Kept(pages, pages', Used(pages) \ Visited(rid))
  <2>1. ASSUME NEW x \in Used(pages) \ Visited(rid) PROVE SameSlot(pages[x[1]], pages'[x[1]], x[2])
    <3>1. x[1] \in DOMAIN pages /\ x[2] \in DOMAIN pages[x[1]].slots /\ x[2] \notin V(x[1])
      BY UsedIs
    <3> QED
      BY <1>3, <1>5, <3>1
  <2> QED
    BY <2>1 DEF Kept
<1> QED
  BY <1>4, <1>7, <1>8, <1>9, <1>10, <1>11 DEF Emptying

(* A replaced page that has the slots of the old one.                       *)
LEMMA UsedStays ==
  ASSUME NEW p, FileOK(p), NEW q, DOMAIN q = DOMAIN p, NEW n \in DOMAIN p,
         DOMAIN q[n].slots = DOMAIN p[n].slots, \A m \in DOMAIN p : m # n => q[m] = p[m]
  PROVE  Used(q) = Used(p)
<1>1. \A m \in DOMAIN p : DOMAIN q[m].slots = DOMAIN p[m].slots
  OBVIOUS
<1> QED
  BY <1>1 DEF Used

(* update() in place overwrites the row at the end of the chain.            *)
LEMMA UpdateInPlaceDoes ==
  ASSUME FileOK(pages), Chained(pages), NEW rid \in Used(pages), NEW v \in Row, UpdateInPlace(rid, v)
  PROVE  Overwriting(pages, pages', End(rid), v) /\ returned' = rid /\ hint' = hint
<1> DEFINE x == End(rid)
           n == x[1]
           i == x[2]
           pg == pages[n]
           qg == SetSlot(WriteRow(pg, pg.slots[i].a, v), i, SlotEntry("VALID", pg.slots[i].a, Size[v]))
<1>1. x \in Used(pages) /\ ~ IsForwarded(pages, x)
  BY EndIs
<1>2. n \in DOMAIN pages /\ i \in DOMAIN pg.slots /\ pg.slots[i].status # "FORWARDED" /\ GoodPage(pg) /\ x = <<n, i>>
  BY <1>1, UsedIs, FileTypes DEF IsForwarded, SlotOf
<1>3. /\ Size[v] <= pg.slots[i].b
      /\ pages' = [pages EXCEPT ![n] = qg]
      /\ returned' = rid /\ hint' = hint
  BY DEF UpdateInPlace, FitsInPlace, Entry
<1> HIDE DEF x
<1>4. /\ GoodPage(qg) /\ DOMAIN qg.slots = DOMAIN pg.slots
      /\ OthersStay(pg, qg, i)
      /\ qg.slots[i].status = "VALID" /\ Written(qg, i, v)
  BY <1>2, <1>3, RowPutIn
<1> HIDE DEF qg
<1>5. /\ FileOK(pages') /\ Len(pages') = Len(pages) /\ DOMAIN pages' = DOMAIN pages
      /\ pages'[n] = qg /\ \A m \in DOMAIN pages : m # n => pages'[m] = pages[m]
  <2> DEFINE q == [pages EXCEPT ![n] = qg]
  <2>1. n \in DOMAIN pages /\ GoodPage(qg)
    BY <1>2, <1>4
  <2> HIDE DEF pg, n
  <2>2. /\ FileOK(q) /\ Len(q) = Len(pages) /\ DOMAIN q = DOMAIN pages
        /\ q[n] = qg /\ \A m \in DOMAIN pages : m # n => q[m] = pages[m]
    BY <2>1, PageReplaced
  <2> HIDE DEF q
  <2> QED
    BY <1>3, <2>2 DEF q
<1>6. Used(pages') = Used(pages)
  BY <1>2, <1>4, <1>5, UsedStays
<1>7. Kept(pages, pages', Used(pages) \ {x})
  <2> SUFFICES ASSUME NEW y \in Used(pages) \ {x} PROVE SameSlot(pages[y[1]], pages'[y[1]], y[2])
    BY DEF Kept
  <2>1. y[1] \in DOMAIN pages /\ y[2] \in DOMAIN pages[y[1]].slots /\ y = <<y[1], y[2]>>
    BY UsedIs
  <2>2. CASE y[1] # n
    BY <1>5, <2>1, <2>2, SameSlotReflexive
  <2>3. CASE y[1] = n
    <3>1. y[2] \in DOMAIN pg.slots \ {i}
      BY <1>2, <2>1, <2>3
    <3>2. qg.slots[y[2]] = pg.slots[y[2]]
      BY <1>4, <3>1 DEF OthersStay
    <3>3. ASSUME pg.slots[y[2]].status = "VALID", NEW w \in Row, Written(pg, y[2], w) PROVE Written(qg, y[2], w)
      BY <1>2, <1>4, <3>1, <3>3, OthersRead DEF GoodPage
    <3> QED
      BY <1>5, <2>3, <3>2, <3>3 DEF SameSlot
  <2> QED
    BY <2>2, <2>3
<1> QED
  BY <1>2, <1>3, <1>4, <1>5, <1>6, <1>7 DEF Overwriting, SlotOf, x

(* update() elsewhere puts the row into a free slot and points there.       *)
LEMMA RelocateDoes ==
  ASSUME FileOK(pages), Chained(pages), hint \in Nat, NEW rid \in Used(pages), NEW v \in Row, Relocate(rid, v)
  PROVE  \E y \in Nat \X Nat :
           /\ Moving(pages, pages', End(rid), y, v) /\ Len(pages') <= MaxPages
           /\ hint' \in 0 .. Len(pages') - 1
           /\ returned' = IF IsForwarded(pages, rid) THEN rid ELSE y
<1> DEFINE x == End(rid)
           n == x[1]
           i == x[2]
           res == InsertResult(pages, v)
           p == res.pages
           y == res.rid
<1>1. x \in Used(pages) /\ ~ IsForwarded(pages, x)
  BY EndIs
<1>2. n \in DOMAIN pages /\ i \in DOMAIN pages[n].slots /\ x = <<n, i>>
  BY <1>1, UsedIs
<1>3. /\ ~ (Size[v] <= SlotOf(pages, x).b)
      /\ Len(p) <= MaxPages
      /\ pages' = [p EXCEPT ![n] = SetSlot(p[n], i, SlotEntry("FORWARDED", y[1], y[2]))]
      /\ hint' = res.hint
      /\ returned' = IF IsForwarded(pages, rid) THEN rid ELSE y
  BY RidsAre DEF Relocate, FitsInPlace
<1>4. PutInto(pages, p, y, v) /\ res.hint \in 0 .. Len(p) - 1 /\ y \in Nat \X Nat
  BY InsertPuts
<1>5. x # y
  <2>1. SlotOf(pages, x).b \in Nat /\ Size[v] \in Nat
    BY <1>2, FileTypes, PageTypes, Layout DEF SlotOf
  <2>2. y \in Used(pages) => SlotOf(pages, y).b >= Size[v]
    BY <1>4 DEF PutInto
  <2> HIDE DEF x, y
  <2> QED
    BY <1>1, <1>3, <2>1, <2>2
<1> HIDE DEF x, res
<1>6. /\ FileOK(p) /\ Len(p) >= Len(pages) /\ Used(p) = Used(pages) \cup {y}
      /\ y \in Used(pages) => SlotOf(pages, y).status = "EMPTY"
      /\ Kept(pages, p, Used(pages) \ {y})
      /\ SlotOf(p, y).status = "VALID" /\ Written(p[y[1]], y[2], v)
  BY <1>4 DEF PutInto
<1> DEFINE qg == SetSlot(p[n], i, SlotEntry("FORWARDED", y[1], y[2]))
<1>7. n \in DOMAIN p /\ i \in DOMAIN p[n].slots /\ GoodPage(p[n]) /\ y[1] \in Nat /\ y[2] \in Nat /\ y = <<y[1], y[2]>>
  <2>1. x \in Used(p)
    BY <1>1, <1>6
  <2> QED
    BY <1>2, <1>4, <1>6, <2>1, UsedIs, FileTypes
<1>8. /\ GoodPage(qg) /\ DOMAIN qg.slots = DOMAIN p[n].slots
      /\ qg.slots[i].status = "FORWARDED" /\ qg.slots[i].a = y[1] /\ qg.slots[i].b = y[2]
      /\ \A j \in DOMAIN p[n].slots : j # i => SameSlot(p[n], qg, j)
  <2> HIDE DEF p, n, i, y
  <2> QED
    BY <1>7, SlotForwarded
<1> HIDE DEF qg
<1>9. /\ FileOK(pages') /\ Len(pages') = Len(p) /\ DOMAIN pages' = DOMAIN p
      /\ pages'[n] = qg /\ \A m \in DOMAIN p : m # n => pages'[m] = p[m]
  BY <1>3, <1>6, <1>7, <1>8, PageReplaced DEF qg
<1> HIDE DEF p, y
<1>10. Used(pages') = Used(p)
  BY <1>6, <1>7, <1>8, <1>9, UsedStays
<1>11. \A z \in Used(p) \ {x} : SameSlot(p[z[1]], pages'[z[1]], z[2])
  <2> TAKE z \in Used(p) \ {x}
  <2>1. z[1] \in DOMAIN p /\ z[2] \in DOMAIN p[z[1]].slots /\ z = <<z[1], z[2]>>
    BY UsedIs
  <2>2. CASE z[1] # n
    BY <1>9, <2>1, <2>2, SameSlotReflexive
  <2>3. CASE z[1] = n
    BY <1>2, <1>8, <1>9, <2>1, <2>3
  <2> QED
    BY <2>2, <2>3
<1>12. Kept(pages, pages', Used(pages) \ {x, y})
  <2> SUFFICES ASSUME NEW z \in Used(pages) \ {x, y} PROVE SameSlot(pages[z[1]], pages'[z[1]], z[2])
    BY DEF Kept
  <2>1. SameSlot(pages[z[1]], p[z[1]], z[2])
    BY <1>6 DEF Kept
  <2>2. SameSlot(p[z[1]], pages'[z[1]], z[2])
    BY <1>6, <1>11
  <2> QED
    BY <2>1, <2>2, SameSlotTransitive
<1>13. SlotOf(pages', y).status = "VALID" /\ Written(pages'[y[1]], y[2], v)
  <2>1. y \in Used(p) \ {x}
    BY <1>5, <1>6
  <2>2. SameSlot(p[y[1]], pages'[y[1]], y[2])
    BY <1>11, <2>1
  <2> QED
    BY <1>6, <2>2 DEF SameSlot, SlotOf
<1>14. IsForwarded(pages', x) /\ To(pages', x) = y
  BY <1>7, <1>8, <1>9 DEF IsForwarded, To, SlotOf
<1>15. Moving(pages, pages', x, y, v)
  BY <1>5, <1>6, <1>9, <1>10, <1>12, <1>13, <1>14 DEF Moving
<1>16. Len(pages') <= MaxPages /\ hint' \in 0 .. Len(pages') - 1
  BY <1>3, <1>4, <1>9
<1> QED
  BY <1>3, <1>4, <1>15, <1>16 DEF x

(* A slot that is kept forwards as before.                                  *)
LEMMA KeptForwards ==
  ASSUME NEW p, NEW q, NEW X, Kept(p, q, X), NEW x \in X
  PROVE  /\ IsForwarded(q, x) <=> IsForwarded(p, x)
         /\ IsForwarded(p, x) => To(q, x) = To(p, x)
         /\ SlotOf(q, x).status = SlotOf(p, x).status
BY DEF Kept, SameSlot, IsForwarded, To, SlotOf

(* Pointers that are left out do no harm.                                   *)
LEMMA FewerPointers ==
  ASSUME NEW p, Chained(p), NEW q, Used(p) \subseteq Used(q),
         Forwards(q) \subseteq Forwards(p), \A x \in Forwards(q) : To(q, x) = To(p, x)
  PROVE  Chained(q)
<1>1. PICK rank \in [Used(p) -> Nat] : \A x \in Forwards(p) : rank[To(p, x)] < rank[x]
  BY DEF Chained
<1> DEFINE new == [x \in Used(q) |-> IF x \in Used(p) THEN rank[x] ELSE 0]
<1>2. new \in [Used(q) -> Nat]
  OBVIOUS
<1>3. \A x \in Forwards(q) : x \in Used(p) /\ To(q, x) \in Used(p) /\ rank[To(q, x)] < rank[x]
  BY <1>1 DEF Chained, Forwards
<1>4. \A x \in Forwards(q) : To(q, x) \in Used(q) /\ new[To(q, x)] < new[x]
  BY <1>3
<1> HIDE DEF new
<1> QED
  BY <1>2, <1>4 DEF Chained

(* A new row disturbs no chain ...                                          *)
LEMMA InsertChained ==
  ASSUME NEW p, Chained(p), NEW q, NEW x, NEW v, PutInto(p, q, x, v)
  PROVE  Chained(q)
<1>1. Used(q) = Used(p) \cup {x} /\ Kept(p, q, Used(p) \ {x}) /\ ~ IsForwarded(q, x)
  BY DEF PutInto, IsForwarded
<1>2. \A y \in Forwards(q) : y \in Forwards(p) /\ To(q, y) = To(p, y)
  <2>1. \A y \in Forwards(q) : y \in Used(p) \ {x} /\ IsForwarded(q, y)
    BY <1>1 DEF Forwards
  <2> QED
    BY <1>1, <2>1, KeptForwards DEF Forwards
<1> QED
  BY <1>1, <1>2, FewerPointers

(* ... emptied slots take their pointers with them ...                      *)
LEMMA DeleteChained ==
  ASSUME NEW p, Chained(p), NEW q, NEW V, Emptying(p, q, V)
  PROVE  Chained(q)
<1>1. \A y \in Forwards(q) : y \in Used(p) \ V /\ IsForwarded(q, y)
  BY DEF Emptying, Forwards, IsForwarded
<1>2. \A y \in Forwards(q) : y \in Forwards(p) /\ To(q, y) = To(p, y)
  BY <1>1, KeptForwards DEF Forwards, Emptying
<1> QED
  BY <1>2, FewerPointers DEF Emptying

(* ... and a row overwritten at the end of a chain leaves it alone.         *)
LEMMA OverwriteChained ==
  ASSUME NEW p, Chained(p), NEW q, NEW x, NEW v, Overwriting(p, q, x, v)
  PROVE  Chained(q)
<1>1. \A y \in Forwards(q) : y \in Used(p) \ {x} /\ IsForwarded(q, y)
  BY DEF Overwriting, Forwards, IsForwarded
<1>2. \A y \in Forwards(q) : y \in Forwards(p) /\ To(q, y) = To(p, y)
  BY <1>1, KeptForwards DEF Forwards, Overwriting
<1> QED
  BY <1>2, FewerPointers DEF Overwriting

(* The new pointer leads from a slot without one to another without one.    *)
LEMMA MoveChained ==
  ASSUME NEW p, Chained(p), NEW q, NEW x \in Used(p), ~ IsForwarded(p, x), NEW y, NEW v, Moving(p, q, x, y, v)
  PROVE  Chained(q)
<1>1. /\ Used(q) = Used(p) \cup {y} /\ x # y /\ ~ IsForwarded(q, y)
      /\ y \in Used(p) => ~ IsForwarded(p, y)
      /\ To(q, x) = y /\ Kept(p, q, Used(p) \ {x, y})
  BY DEF Moving, IsForwarded
<1>2. \A z \in Forwards(q) : z = x \/ (z \in Forwards(p) /\ z # x /\ z # y /\ To(q, z) = To(p, z))
  <2>1. ASSUME NEW z \in Forwards(q), z # x PROVE z \in Forwards(p) /\ z # y /\ To(q, z) = To(p, z)
    <3>1. z \in Used(p) \ {x, y} /\ IsForwarded(q, z)
      BY <1>1, <2>1 DEF Forwards
    <3> QED
      BY <1>1, <3>1, KeptForwards DEF Forwards
  <2> QED
    BY <2>1
<1>3. PICK rank \in [Used(p) -> Nat] : \A z \in Forwards(p) : rank[To(p, z)] < rank[z]
  BY DEF Chained
<1> DEFINE new == [z \in Used(q) |-> IF z = y THEN 0 ELSE rank[z] + 1]
<1>4. new \in [Used(q) -> Nat]
  <2>1. \A z \in Used(q) : z # y => z \in Used(p)
    BY <1>1
  <2> QED
    BY <2>1
<1>5. ASSUME NEW z \in Forwards(q) PROVE To(q, z) \in Used(q) /\ new[To(q, z)] < new[z]
  <2>1. CASE z = x
    <3>1. To(q, z) = y /\ z # y /\ z \in Used(p) /\ rank[z] \in Nat
      BY <1>1, <2>1
    <3> QED
      BY <1>1, <3>1
  <2>2. CASE z # x
    <3>1. z \in Forwards(p) /\ z # y /\ To(q, z) = To(p, z)
      BY <1>2, <2>2
    <3>2. z \in Used(p) /\ To(p, z) \in Used(p) /\ rank[To(p, z)] < rank[z] /\ rank[z] \in Nat /\ rank[To(p, z)] \in Nat
      BY <1>3, <3>1 DEF Chained, Forwards
    <3>3. new[z] = rank[z] + 1 /\ (new[To(q, z)] = 0 \/ new[To(q, z)] = rank[To(p, z)] + 1)
      BY <1>1, <3>1, <3>2
    <3> QED
      BY <1>1, <3>1, <3>2, <3>3
  <2> QED
    BY <2>1, <2>2
<1> HIDE DEF new
<1> QED
  BY <1>4, <1>5 DEF Chained

-----------------------------------------------------------------------------
(* The invariant.                                                           *)

HeapInv ==
  /\ FileOK(pages) /\ Len(pages) <= MaxPages
  /\ Chained(pages)
  /\ hint \in 0 .. Len(pages) - 1
  /\ returned \in Used(pages) \cup {NoRid}

(* The parts of the invariant that nearly every step uses.                  *)
LEMMA HeapInvFacts ==
  ASSUME HeapInv
  PROVE  /\ FileOK(pages) /\ Chained(pages) /\ hint \in Nat /\ UsedRids = Used(pages)
         /\ Len(pages) \in Nat /\ Len(pages) > 0
  BY FileTypes, RidsAre DEF HeapInv

(* A file of one page, with or without a header, is in order ...            *)
LEMMA InitHeapInv == Init => HeapInv
<1> SUFFICES ASSUME Init PROVE HeapInv
  OBVIOUS
<1>1. PICK pg \in {FreshPage, BlankPage} : pages = <<pg>>
  BY DEF Init
<1>2. GoodPage(pg) /\ pg.slots = <<>> /\ pg \in PageSet
  BY NewPages DEF GoodPage, Laid, FreshPage, BlankPage
<1>3. pages \in Seq(PageSet) /\ Len(pages) = 1 /\ DOMAIN pages = {1} /\ pages[1] = pg /\ pages # <<>>
  BY <1>1, <1>2
<1>4. FileOK(pages)
  BY <1>2, <1>3 DEF FileOK
<1>5. Used(pages) = {}
  <2>1. DOMAIN pg.slots = {}
    BY <1>2
  <2> QED
    BY <1>3, <2>1 DEF Used
<1>6. Chained(pages)
  <2>1. Forwards(pages) = {} /\ [x \in Used(pages) |-> 0] \in [Used(pages) -> Nat]
    BY <1>5 DEF Forwards
  <2> QED
    BY <2>1 DEF Chained
<1> QED
  BY <1>3, <1>4, <1>6, Layout DEF HeapInv, Init

(* ... and every operation keeps it so.                                     *)
LEMMA NextHeapInv == HeapInv /\ [Next]_heapVars => HeapInv'
<1> SUFFICES ASSUME HeapInv, [Next]_heapVars PROVE HeapInv'
  OBVIOUS
<1>0. /\ FileOK(pages) /\ Chained(pages) /\ hint \in Nat /\ UsedRids = Used(pages)
      /\ Len(pages) \in Nat /\ Len(pages) > 0
  BY HeapInvFacts
<1>1. ASSUME NEW v \in Row, InsertRow(v) PROVE HeapInv'
  <2>1. /\ PutInto(pages, pages', returned', v) /\ Len(pages') <= MaxPages
        /\ hint' \in 0 .. Len(pages') - 1
    BY <1>0, <1>1, InsertDoes
  <2>2. Chained(pages')
    BY <1>0, <2>1, InsertChained
  <2> QED
    BY <2>1, <2>2 DEF HeapInv, PutInto
<1>2. ASSUME NEW rid \in UsedRids, DeleteRow(rid) PROVE HeapInv'
  <2>1. Emptying(pages, pages', Visited(rid)) /\ returned' = NoRid /\ hint' = hint
    BY <1>0, <1>2, DeleteDoes
  <2>2. Chained(pages')
    BY <1>0, <2>1, DeleteChained
  <2> QED
    BY <2>1, <2>2 DEF HeapInv, Emptying
<1>3. ASSUME NEW rid \in UsedRids, NEW v \in Row, UpdateInPlace(rid, v) PROVE HeapInv'
  <2>1. Overwriting(pages, pages', End(rid), v) /\ returned' = rid /\ hint' = hint
    BY <1>0, <1>3, UpdateInPlaceDoes
  <2>2. Chained(pages')
    BY <1>0, <2>1, OverwriteChained
  <2> QED
    BY <1>0, <2>1, <2>2 DEF HeapInv, Overwriting
<1>4. ASSUME NEW rid \in UsedRids, NEW v \in Row, Relocate(rid, v) PROVE HeapInv'
  <2>1. PICK y \in Nat \X Nat :
           /\ Moving(pages, pages', End(rid), y, v) /\ Len(pages') <= MaxPages
           /\ hint' \in 0 .. Len(pages') - 1
           /\ returned' = IF IsForwarded(pages, rid) THEN rid ELSE y
    BY <1>0, <1>4, RelocateDoes
  <2>2. Chained(pages')
    BY <1>0, <2>1, EndIs, MoveChained
  <2>3. returned' \in Used(pages')
    BY <1>0, <2>1 DEF Moving
  <2> QED
    BY <2>1, <2>2, <2>3 DEF HeapInv, Moving
<1>5. CASE UNCHANGED heapVars
  BY <1>5 DEF HeapInv, heapVars
<1> QED
  BY <1>1, <1>2, <1>3, <1>4, <1>5 DEF Next

(* The file stays in order: pages laid out, live slots readable, pointers   *)
(* that end.                                                                *)
THEOREM HeapInvariant == Spec => []HeapInv
<1> QED
  BY InitHeapInv, NextHeapInv, PTL DEF Spec

(* The invariant gives the types of the state ...                           *)
LEMMA HeapInvTypes == HeapInv => TypeOK
<1> SUFFICES ASSUME HeapInv PROVE TypeOK
  OBVIOUS
<1>0. /\ FileOK(pages) /\ Chained(pages) /\ UsedRids = Used(pages)
      /\ Len(pages) \in 1 .. MaxPages
  BY HeapInvFacts, Layout DEF HeapInv
<1>1. ASSUME NEW n \in DOMAIN pages, NEW i \in DOMAIN pages[n].slots
      PROVE  LET e == pages[n].slots[i]
             IN IF e.status = "FORWARDED" THEN <<e.a, e.b>> \in UsedRids
                ELSE e.status \in {"EMPTY", "VALID"} /\ e.a \in Nat /\ e.b \in Nat
  <2>1. /\ pages[n].slots[i].status \in {"EMPTY", "VALID", "FORWARDED"}
        /\ pages[n].slots[i].a \in Nat /\ pages[n].slots[i].b \in Nat
    BY <1>0, FileTypes, PageTypes
  <2>2. pages[n].slots[i].status = "FORWARDED" => <<pages[n].slots[i].a, pages[n].slots[i].b>> \in UsedRids
    <3>1. <<n, i>> \in Used(pages) /\ <<n, i>>[1] = n /\ <<n, i>>[2] = i
      BY UsedIs
    <3>2. pages[n].slots[i].status = "FORWARDED" => <<n, i>> \in Forwards(pages)
      BY <3>1 DEF Forwards, IsForwarded, SlotOf
    <3> QED
      BY <1>0, <3>1, <3>2 DEF Chained, To, SlotOf
  <2> QED
    BY <2>1, <2>2
<1>2. \A n \in DOMAIN pages : pages[n].free \in 0 .. PageSize /\ pages[n].data \in [0 .. PageSize - 1 -> Row \cup {Zero}]
  BY <1>0, FileTypes, PageTypes
<1>3. hint \in 0 .. Len(pages) - 1 /\ returned \in UsedRids \cup {NoRid}
  BY <1>0 DEF HeapInv
<1> QED
  BY <1>0, <1>1, <1>2, <1>3 DEF TypeOK

(* Slots, pages, the hint and the returned RID are always well formed.      *)
THEOREM TypeCorrect == Spec => []TypeOK
<1> QED
  BY HeapInvariant, HeapInvTypes, PTL

(* ... the layout of the pages ...                                          *)
LEMMA HeapInvDisjoint == HeapInv => Disjoint
<1> SUFFICES ASSUME HeapInv, NEW n \in DOMAIN pages PROVE
      LET pg == pages[n]
      IN /\ pg.slots # <<>> => HeaderSize + Len(pg.slots) * SlotSize <= pg.free
         /\ \A i \in DOMAIN pg.slots : Area(pg, i) \subseteq pg.free .. PageSize - 1
         /\ \A i, j \in DOMAIN pg.slots : i # j => Area(pg, i) \cap Area(pg, j) = {}
  BY DEF Disjoint
<1>1. Laid(pages[n])
  BY HeapInvFacts, FileTypes
<1> QED
  BY <1>1 DEF Laid, Top

(* No two slots ever claim the same bytes, and none reaches into the slot   *)
(* array: after any reuse, shrinking, compaction and relocation.            *)
THEOREM AreasDisjoint == Spec => []Disjoint
<1> QED
  BY HeapInvariant, HeapInvDisjoint, PTL

(* ... and the ends of the chains.                                          *)
LEMMA HeapInvChainsEnd == HeapInv => ChainsEnd
<1> SUFFICES ASSUME HeapInv, NEW rid \in UsedRids PROVE \E x \in Visited(rid) : ~ Forwarded(x)
  BY DEF ChainsEnd
<1>1. FileOK(pages) /\ Chained(pages) /\ rid \in Used(pages)
  BY HeapInvFacts
<1> QED
  BY <1>1, EndIs, RidsAre

(* Forwarding pointers always lead to a slot without one: get(), update()   *)
(* and delete() do not go round in circles.                                 *)
THEOREM ChainsAlwaysEnd == Spec => []ChainsEnd
<1> QED
  BY HeapInvariant, HeapInvChainsEnd, PTL

-----------------------------------------------------------------------------
(* The file as a table of slots: the refinement of SlotTable.               *)

Rids == 1 .. MaxPages * MaxSlots

(* Contents and the slots it gives, for any file.                           *)
ContentsOf(p, x) ==
  IF x[1] \notin DOMAIN p \/ x[2] \notin DOMAIN p[x[1]].slots THEN Zero
  ELSE CASE IsForwarded(p, x) -> Number(To(p, x))
         [] SlotOf(p, x).status = "VALID" -> ReadRow(p[x[1]], x[2])
         [] OTHER -> Zero

Table(p) == [r \in Rids |-> ContentsOf(p, RidOf(r))]

(* The table that HeapFile maps the file to.                                *)
LEMMA TableIsContents == [r \in 1 .. MaxPages * MaxSlots |-> Contents(RidOf(r))] = Table(pages)
<1>1. \A x : Contents(x) = ContentsOf(pages, x)
  BY Zenon DEF Contents, ContentsOf, IsForwarded, Forwarded, SlotOf, Entry, PointedTo, To
<1> QED
  BY <1>1, Zenon DEF Table, Rids

(* Quotient and remainder.                                                  *)
LEMMA Division ==
  ASSUME NEW m \in Nat, m > 0, NEW a \in Nat, NEW b \in 0 .. m - 1
  PROVE  (a * m + b) \div m = a /\ (a * m + b) % m = b
<1> DEFINE n == a * m + b
           q == n \div m
           r == n % m
<1>1. n \in Nat /\ a * m \in Nat
  OBVIOUS
<1>2. n = a * m + b
  OBVIOUS
<1> HIDE DEF n
<1>3. q \in Nat /\ r \in 0 .. m - 1 /\ n = q * m + r
  BY <1>1
<1> HIDE DEF q, r
<1>4. q * m \in Nat
  BY <1>3
<1>5. ~ (q < a)
  <2> SUFFICES ASSUME q < a PROVE FALSE
    OBVIOUS
  <2>1. PICK k \in Nat : a = q + 1 + k
    <3>1. a - q - 1 \in Nat /\ a = q + 1 + (a - q - 1)
      BY <1>3
    <3> QED
      BY <3>1
  <2>2. a * m = q * m + m + k * m /\ k * m \in Nat
    BY <1>3, <2>1
  <2> QED
    BY <1>1, <1>2, <1>3, <1>4, <2>2
<1>6. ~ (q > a)
  <2> SUFFICES ASSUME q > a PROVE FALSE
    OBVIOUS
  <2>1. PICK k \in Nat : q = a + 1 + k
    <3>1. q - a - 1 \in Nat /\ q = a + 1 + (q - a - 1)
      BY <1>3
    <3> QED
      BY <3>1
  <2>2. q * m = a * m + m + k * m /\ k * m \in Nat
    BY <1>3, <2>1
  <2> QED
    BY <1>1, <1>2, <1>3, <1>4, <2>2
<1>7. q = a
  BY <1>3, <1>5, <1>6
<1> QED
  BY <1>2, <1>3, <1>7 DEF n, q, r

(* RIDs are numbered one to one.                                            *)
LEMMA Numbering ==
  ASSUME MaxSlots \in Nat, NEW n \in 1 .. MaxPages, NEW i \in 1 .. MaxSlots
  PROVE  Number(<<n, i>>) \in Rids /\ RidOf(Number(<<n, i>>)) = <<n, i>>
<1> DEFINE a == n - 1
           b == i - 1
           m == MaxSlots
<1>1. a \in Nat /\ b \in 0 .. m - 1 /\ m > 0 /\ m \in Nat /\ MaxPages \in Nat /\ a + 1 <= MaxPages
  BY Layout
<1>2. Number(<<n, i>>) = a * m + b + 1
  BY <1>1 DEF Number
<1>3. a * m \in Nat
  BY <1>1
<1>4. a * m + m <= MaxPages * m
  <2>1. PICK k \in Nat : MaxPages = a + 1 + k
    <3>1. MaxPages - a - 1 \in Nat /\ MaxPages = a + 1 + (MaxPages - a - 1)
      BY <1>1
    <3> QED
      BY <3>1
  <2>2. MaxPages * m = a * m + m + k * m /\ k * m \in Nat
    BY <1>1, <2>1
  <2> QED
    BY <1>3, <2>2, <1>1
<1>5. Number(<<n, i>>) \in Rids
  BY <1>1, <1>2, <1>3, <1>4 DEF Rids
<1>6. (Number(<<n, i>>) - 1) \div m = a /\ (Number(<<n, i>>) - 1) % m = b
  <2>1. (a * m + b) \div m = a /\ (a * m + b) % m = b
    <3> HIDE DEF a, b, m
    <3> QED
      BY <1>1, Division
  <2>2. Number(<<n, i>>) - 1 = a * m + b
    BY <1>1, <1>2, <1>3
  <2> QED
    BY <2>1, <2>2
<1> QED
  BY <1>1, <1>5, <1>6 DEF RidOf

(* Every number is that of the RID it stands for.                           *)
LEMMA RidsNumbered ==
  ASSUME NEW r \in Rids, MaxSlots \in Int
  PROVE  MaxSlots \in Nat /\ Number(RidOf(r)) = r
<1>1. r >= 1 /\ r \in Nat /\ MaxSlots > 0
  <2>1. r \in Int /\ r >= 1 /\ MaxPages * MaxSlots >= 1
    BY Layout DEF Rids
  <2>2. MaxSlots > 0
    BY <2>1, Layout
  <2> QED
    BY <2>1, <2>2
<1>2. r - 1 = ((r - 1) \div MaxSlots) * MaxSlots + ((r - 1) % MaxSlots)
  BY <1>1
<1>3. (r - 1) \div MaxSlots \in Int /\ (r - 1) % MaxSlots \in Int /\ ((r - 1) \div MaxSlots) * MaxSlots \in Int
  BY <1>1
<1> QED
  BY <1>1, <1>2, <1>3 DEF Number, RidOf

(* MaxSlots is a number ...                                                 *)
LEMMA MaxSlotsInt == MaxSlots \in Int
BY Layout DEF MaxSlots

(* ... and so are the RIDs of the table.                                    *)
LEMMA RidsInNat == Rids \subseteq Nat
BY MaxSlotsInt, Layout DEF Rids

(* A file that may be looked at as a table.                                 *)
TableOK(p) == FileOK(p) /\ Len(p) <= MaxPages /\ Chained(p)

(* Each RID of the file has its number in the table.                        *)
LEMMA Numbered ==
  ASSUME NEW p, FileOK(p), Len(p) <= MaxPages, NEW x \in Used(p)
  PROVE  Number(x) \in Rids /\ RidOf(Number(x)) = x
<1>1. x = <<x[1], x[2]>> /\ x[1] \in 1 .. Len(p) /\ Laid(p[x[1]]) /\ x[2] \in DOMAIN p[x[1]].slots
  BY UsedIs, FileTypes
<1>2. MaxSlots \in Nat /\ x[2] \in 1 .. MaxSlots
  BY <1>1, SlotsBounded
<1>3. x[1] \in 1 .. MaxPages
  BY <1>1, FileTypes, Layout
<1> QED
  BY <1>1, <1>2, <1>3, Numbering

(* What the slots of a file show in the table.                              *)
LEMMA ContentsAre ==
  ASSUME NEW p, FileOK(p)
  PROVE  /\ \A x : x[1] \notin DOMAIN p \/ x[2] \notin DOMAIN p[x[1]].slots => ContentsOf(p, x) = Zero
         /\ \A x \in Used(p) : IsForwarded(p, x) => ContentsOf(p, x) = Number(To(p, x))
         /\ \A x \in Used(p) : SlotOf(p, x).status = "EMPTY" => ContentsOf(p, x) = Zero
         /\ \A x \in Used(p), v \in Row : SlotOf(p, x).status = "VALID" /\ Written(p[x[1]], x[2], v) => ContentsOf(p, x) = v
         /\ \A x \in Used(p) : ~ IsForwarded(p, x) => ContentsOf(p, x) \in Row \cup {Zero}
<1>1. \A x : x[1] \notin DOMAIN p \/ x[2] \notin DOMAIN p[x[1]].slots => ContentsOf(p, x) = Zero
  BY DEF ContentsOf
<1>2. ASSUME NEW x \in Used(p)
      PROVE  /\ IsForwarded(p, x) => ContentsOf(p, x) = Number(To(p, x))
             /\ SlotOf(p, x).status = "EMPTY" => ContentsOf(p, x) = Zero
             /\ SlotOf(p, x).status = "VALID" => ContentsOf(p, x) = ReadRow(p[x[1]], x[2])
             /\ SlotOf(p, x).status \in {"EMPTY", "VALID", "FORWARDED"}
  <2>1. x[1] \in DOMAIN p /\ x[2] \in DOMAIN p[x[1]].slots /\ p[x[1]] \in PageSet
    BY UsedIs, FileTypes
  <2>2. SlotOf(p, x).status \in {"EMPTY", "VALID", "FORWARDED"}
    BY <2>1, PageTypes DEF SlotOf
  <2> QED
    BY <2>1, <2>2 DEF ContentsOf, IsForwarded
<1>3. ASSUME NEW x \in Used(p), NEW v \in Row, SlotOf(p, x).status = "VALID", Written(p[x[1]], x[2], v)
      PROVE  ContentsOf(p, x) = v
  <2>1. Laid(p[x[1]]) /\ x[2] \in DOMAIN p[x[1]].slots
    BY UsedIs, FileTypes
  <2> QED
    BY <1>2, <1>3, <2>1, ReadsBack
<1>4. ASSUME NEW x \in Used(p), SlotOf(p, x).status = "VALID"
      PROVE  ContentsOf(p, x) \in Row
  <2>1. x[2] \in SlotsWith(p[x[1]], "VALID") /\ Readable(p[x[1]])
    BY <1>4, UsedIs, FileTypes DEF SlotsWith, SlotOf, GoodPage
  <2> QED
    BY <1>3, <1>4, <2>1 DEF Readable
<1> QED
  BY <1>1, <1>2, <1>3, <1>4 DEF IsForwarded

(* Where the table forwards.                                                *)
LEMMA TableForwards ==
  ASSUME NEW p, TableOK(p)
  PROVE  /\ \A x \in Used(p) : Table(p)[Number(x)] = ContentsOf(p, x)
         /\ \A x \in Used(p) : IsForwarded(p, x) => Table(p)[Number(x)] = Number(To(p, x)) /\ Number(To(p, x)) \in Rids
         /\ \A x \in Used(p) : Slots!IsForward(Table(p), Number(x)) <=> IsForwarded(p, x)
         /\ \A r \in Rids : RidOf(r) \notin Used(p) => Table(p)[r] = Zero
<1>0. FileOK(p) /\ Len(p) <= MaxPages /\ Chained(p)
  BY DEF TableOK
<1>1. \A x \in Used(p) : Table(p)[Number(x)] = ContentsOf(p, x)
  BY <1>0, Numbered DEF Table
<1>2. \A x \in Used(p) : IsForwarded(p, x) => Table(p)[Number(x)] = Number(To(p, x)) /\ Number(To(p, x)) \in Rids
  <2> SUFFICES ASSUME NEW x \in Used(p), IsForwarded(p, x)
               PROVE  Table(p)[Number(x)] = Number(To(p, x)) /\ Number(To(p, x)) \in Rids
    OBVIOUS
  <2>1. To(p, x) \in Used(p)
    BY <1>0 DEF Chained, Forwards
  <2> QED
    BY <1>0, <1>1, <2>1, ContentsAre, Numbered
<1>3. \A x \in Used(p) : Slots!IsForward(Table(p), Number(x)) <=> IsForwarded(p, x)
  <2>1. Rids \subseteq Nat
    BY RidsInNat
  <2>2. \A x \in Used(p) : ~ IsForwarded(p, x) => Table(p)[Number(x)] \notin Rids
    <3>1. \A x \in Used(p) : ~ IsForwarded(p, x) => ContentsOf(p, x) \in Row \cup {Zero}
      BY <1>0, ContentsAre
    <3> QED
      BY <1>1, <2>1, <3>1, RowsAreNoRids
  <2> QED
    BY <1>2, <2>2 DEF Slots!IsForward, Rids
<1>4. ASSUME NEW r \in Rids, RidOf(r) \notin Used(p) PROVE Table(p)[r] = Zero
  <2> DEFINE x == RidOf(r)
  <2>1. x = <<x[1], x[2]>>
    BY DEF RidOf
  <2>2. x[1] \notin DOMAIN p \/ x[2] \notin DOMAIN p[x[1]].slots
    BY <1>4, <2>1, UsedIs
  <2>3. Table(p)[r] = ContentsOf(p, x)
    BY DEF Table
  <2> HIDE DEF x
  <2> QED
    BY <1>0, <2>2, <2>3, ContentsAre
<1> QED
  BY <1>1, <1>2, <1>3, <1>4

(* Slots that are kept hold what they held.                                 *)
LEMMA TableKept ==
  ASSUME NEW p, TableOK(p), NEW q, FileOK(q), NEW X, Used(p) \subseteq Used(q), Used(q) \subseteq Used(p) \cup X,
         Kept(p, q, Used(p) \ X), NEW r \in Rids, RidOf(r) \notin X
  PROVE  Table(q)[r] = Table(p)[r]
<1> DEFINE x == RidOf(r)
<1>0. FileOK(p) /\ Table(p)[r] = ContentsOf(p, x) /\ Table(q)[r] = ContentsOf(q, x) /\ x = <<x[1], x[2]>>
  BY DEF TableOK, Table, RidOf
<1>1. x \notin X
  OBVIOUS
<1> HIDE DEF x
<1>2. CASE x \notin Used(p)
  <2>1. x \notin Used(q)
    BY <1>1, <1>2
  <2>2. x[1] \notin DOMAIN p \/ x[2] \notin DOMAIN p[x[1]].slots
    BY <1>0, <1>2, UsedIs
  <2>3. x[1] \notin DOMAIN q \/ x[2] \notin DOMAIN q[x[1]].slots
    BY <1>0, <2>1, UsedIs
  <2> QED
    BY <1>0, <2>2, <2>3, ContentsAre
<1>3. CASE x \in Used(p)
  <2>1. x \in Used(q) /\ SameSlot(p[x[1]], q[x[1]], x[2])
    BY <1>1, <1>3 DEF Kept
  <2>2. /\ IsForwarded(q, x) <=> IsForwarded(p, x)
        /\ IsForwarded(p, x) => To(q, x) = To(p, x)
        /\ SlotOf(q, x).status = SlotOf(p, x).status
    BY <2>1 DEF SameSlot, IsForwarded, To, SlotOf
  <2>3. CASE IsForwarded(p, x)
    BY <1>0, <1>3, <2>1, <2>2, <2>3, ContentsAre
  <2>4. CASE SlotOf(p, x).status = "EMPTY"
    BY <1>0, <1>3, <2>1, <2>2, <2>4, ContentsAre
  <2>5. CASE SlotOf(p, x).status = "VALID"
    <3>1. PICK v \in Row : Written(p[x[1]], x[2], v)
      <4>1. x[2] \in SlotsWith(p[x[1]], "VALID") /\ Readable(p[x[1]])
        BY <1>0, <1>3, <2>5, UsedIs, FileTypes DEF SlotsWith, SlotOf, GoodPage
      <4> QED
        BY <4>1 DEF Readable
    <3>2. Written(q[x[1]], x[2], v)
      BY <2>1, <2>5, <3>1 DEF SameSlot, SlotOf
    <3>3. ContentsOf(p, x) = v
      BY <1>0, <1>3, <2>5, <3>1, ContentsAre
    <3>4. ContentsOf(q, x) = v
      BY <2>1, <2>2, <2>5, <3>2, ContentsAre
    <3> QED
      BY <1>0, <3>3, <3>4
  <2>6. SlotOf(p, x).status \in {"EMPTY", "VALID", "FORWARDED"}
    <3>1. x[2] \in DOMAIN p[x[1]].slots /\ p[x[1]] \in PageSet
      BY <1>0, <1>3, UsedIs, FileTypes
    <3> QED
      BY <3>1, PageTypes DEF SlotOf
  <2> QED
    BY <2>3, <2>4, <2>5, <2>6 DEF IsForwarded
<1> QED
  BY <1>2, <1>3

(* The chain of a row of the file is its chain in the table.                *)
LEMMA ChainInTable ==
  ASSUME TableOK(pages), NEW rid \in Used(pages)
  PROVE  /\ Slots!Chain(Table(pages), Number(rid)) = {Number(x) : x \in Visited(rid)}
         /\ Slots!Target(Table(pages), Number(rid)) = Number(End(rid))
<1> DEFINE h == Table(pages)
           r == Number(rid)
           C == Slots!Chain(h, r)
           V == Visited(rid)
<1>0. FileOK(pages) /\ Len(pages) <= MaxPages /\ Chained(pages) /\ r \in Rids
  BY Numbered DEF TableOK
<1>1. IsReach(V, rid, Used(pages), Forwards(pages), Pointers(pages))
  BY <1>0, VisitedIs
<1>2. IsReach(C, r, Rids, Forwarding(h, Rids), Leading(h, Rids))
  <2>1. IsFiniteSet(Rids)
    BY MaxSlotsInt, Layout, FS_Interval DEF Rids
  <2>2. C = Following(h, Rids, r)
    BY Zenon DEF Slots!Chain, Following, Slots!IsForward, Slots!Cardinality, Cardinality, Rids
  <2> HIDE DEF h, r, C
  <2> QED
    BY <1>0, <2>1, <2>2, FollowingIs
<1> DEFINE G == {y \in Rids : Slots!IsForward(h, y)}
<1> HIDE DEF C
<1>3. /\ C \in SUBSET Rids /\ r \in C
      /\ \A y \in C \cap G : h[y] \in C
      /\ \A D : r \in D /\ (\A y \in D \cap G : h[y] \in D) => C \subseteq D
      /\ \A x, y \in C \ G : x = y
  <2>1. Forwarding(h, Rids) = G
    BY Zenon DEF Forwarding, Slots!IsForward, Rids
  <2>2. \A y \in G : Leading(h, Rids)[y] = h[y]
    BY <2>1, Zenon DEF Leading
  <2> HIDE DEF G, h, r
  <2> QED
    BY <1>2, <2>1, <2>2 DEF IsReach
<1>4. /\ V \subseteq Used(pages) /\ rid \in V
      /\ \A x \in V : IsForwarded(pages, x) => To(pages, x) \in V
      /\ \A D : rid \in D /\ (\A x \in D \cap Forwards(pages) : To(pages, x) \in D) => V \subseteq D
  BY <1>1 DEF IsReach, Forwards, Pointers
<1>5. \A x \in Used(pages) : /\ IsForwarded(pages, x) => h[Number(x)] = Number(To(pages, x)) /\ Number(x) \in G
                             /\ Number(x) \in G => IsForwarded(pages, x)
                             /\ Number(x) \in Rids
  BY <1>0, TableForwards, Numbered
<1> HIDE DEF h, G, V
<1>6. C \subseteq {Number(x) : x \in V}
  <2> DEFINE D == {Number(x) : x \in V}
  <2>1. r \in D
    BY <1>4
  <2>2. ASSUME NEW y \in D \cap G PROVE h[y] \in D
    <3>1. PICK x \in V : y = Number(x)
      BY <2>2
    <3>2. IsForwarded(pages, x) /\ h[y] = Number(To(pages, x)) /\ To(pages, x) \in V
      BY <1>4, <1>5, <2>2, <3>1
    <3> QED
      BY <3>2
  <2> HIDE DEF D
  <2>3. C \subseteq D
    BY <1>3, <2>1, <2>2
  <2> QED
    BY <2>3 DEF D
<1>7. \A x \in V : Number(x) \in C
  <2> DEFINE D == {x \in Used(pages) : Number(x) \in C}
  <2>1. rid \in D
    BY <1>3
  <2>2. ASSUME NEW x \in D \cap Forwards(pages) PROVE To(pages, x) \in D
    <3>1. x \in Used(pages) /\ IsForwarded(pages, x) /\ Number(x) \in C /\ To(pages, x) \in Used(pages)
      BY <1>0 DEF Forwards, Chained
    <3>2. Number(x) \in G /\ h[Number(x)] = Number(To(pages, x))
      BY <1>5, <3>1
    <3> QED
      BY <1>3, <3>1, <3>2
  <2> HIDE DEF D
  <2>3. V \subseteq D
    BY <1>4, <2>1, <2>2
  <2> QED
    BY <2>3 DEF D
<1>8. C = {Number(x) : x \in V}
  BY <1>6, <1>7
<1>9. Slots!Target(h, r) = Number(End(rid))
  <2> DEFINE s == Number(End(rid))
  <2>1. End(rid) \in V /\ ~ IsForwarded(pages, End(rid)) /\ End(rid) \in Used(pages)
    BY <1>0, EndIs DEF V
  <2>2. s \in C /\ s \notin G /\ s \in Rids
    BY <1>5, <1>7, <2>1
  <2>3. \A y \in C : y \in Rids /\ (y \in G <=> Slots!IsForward(h, y))
    BY <1>3 DEF G
  <2> HIDE DEF s
  <2>4. \A y \in C : ~ Slots!IsForward(h, y) <=> y = s
    BY <1>3, <2>2, <2>3
  <2>5. Slots!Target(h, r) = CHOOSE y \in C : ~ Slots!IsForward(h, y)
    BY Zenon DEF Slots!Target, C
  <2> QED
    BY <2>2, <2>4, <2>5, Zenon DEF s
<1> QED
  BY <1>8, <1>9 DEF C, V, h

(* A step of the file is a step of the table: insertion ...                 *)
LEMMA InsertInTable ==
  ASSUME NEW p, TableOK(p), NEW q, Len(q) <= MaxPages, NEW x, NEW v \in Row, PutInto(p, q, x, v)
  PROVE  /\ Number(x) \in Slots!FreeSlots(Table(p))
         /\ Table(q) = Slots!Insert(Table(p), Number(x), v)
         /\ x \in Used(q)
<1>1. /\ FileOK(q) /\ Used(q) = Used(p) \cup {x} /\ FileOK(p)
      /\ x \in Used(p) => SlotOf(p, x).status = "EMPTY"
      /\ Kept(p, q, Used(p) \ {x})
      /\ SlotOf(q, x).status = "VALID" /\ Written(q[x[1]], x[2], v)
  BY DEF PutInto, TableOK
<1>2. Number(x) \in Rids /\ RidOf(Number(x)) = x
  BY <1>1, Numbered
<1>3. Table(p)[Number(x)] = Zero
  BY <1>1, <1>2, TableForwards, ContentsAre
<1>4. Table(q)[Number(x)] = v
  BY <1>1, <1>2, ContentsAre DEF Table
<1>5. ASSUME NEW r \in Rids, r # Number(x) PROVE Table(q)[r] = Table(p)[r]
  <2>1. RidOf(r) \notin {x}
    BY <1>5, RidsNumbered, MaxSlotsInt
  <2> QED
    BY <1>1, <2>1, TableKept
<1>6. Table(q) = [Table(p) EXCEPT ![Number(x)] = v]
  <2>1. Table(q) = [r \in Rids |-> Table(q)[r]] /\ DOMAIN Table(p) = Rids
    BY DEF Table
  <2> HIDE DEF Table
  <2> QED
    BY <1>2, <1>4, <1>5, <2>1
<1> QED
  BY <1>1, <1>2, <1>3, <1>6 DEF Slots!FreeSlots, Slots!Insert, Rids

(* ... deletion ...                                                         *)
LEMMA DeleteInTable ==
  ASSUME TableOK(pages), NEW q, NEW rid \in Used(pages), Emptying(pages, q, Visited(rid))
  PROVE  Table(q) = Slots!Delete(Table(pages), Number(rid))
<1> DEFINE V == Visited(rid)
           C == Slots!Chain(Table(pages), Number(rid))
<1>1. /\ FileOK(q) /\ Used(q) = Used(pages) /\ FileOK(pages) /\ Len(pages) <= MaxPages
      /\ \A x \in Used(pages) \cap V : SlotOf(q, x).status = "EMPTY"
      /\ Kept(pages, q, Used(pages) \ V)
  BY DEF Emptying, TableOK
<1>2. C = {Number(x) : x \in V}
  BY ChainInTable
<1>3. V \subseteq Used(pages)
  BY <1>1, VisitedIs DEF IsReach, TableOK
<1> HIDE DEF V, C
<1>4. ASSUME NEW r \in C PROVE Table(q)[r] = Zero
  <2>1. PICK x \in V : r = Number(x)
    BY <1>2
  <2>2. r \in Rids /\ RidOf(r) = x
    BY <1>1, <1>3, <2>1, Numbered
  <2> QED
    BY <1>1, <1>3, <2>2, ContentsAre DEF Table
<1>5. ASSUME NEW r \in Rids, r \notin C PROVE Table(q)[r] = Table(pages)[r]
  <2>1. RidOf(r) \notin V
    BY <1>2, <1>5, RidsNumbered, MaxSlotsInt
  <2> QED
    BY <1>1, <2>1, TableKept
<1>6. Table(q) = [r \in Rids |-> IF r \in C THEN Zero ELSE Table(pages)[r]]
  <2>1. Table(q) = [r \in Rids |-> Table(q)[r]]
    BY DEF Table
  <2> HIDE DEF Table
  <2>2. \A r \in Rids : Table(q)[r] = IF r \in C THEN Zero ELSE Table(pages)[r]
    BY <1>4, <1>5
  <2> QED
    BY <2>1, <2>2, Zenon
<1> QED
  BY <1>6, Zenon DEF Slots!Delete, C, Rids

(* ... an update in place ...                                               *)
LEMMA OverwriteInTable ==
  ASSUME TableOK(pages), NEW q, NEW rid \in Used(pages), NEW v \in Row, Overwriting(pages, q, End(rid), v)
  PROVE  [heap |-> Table(q), rid |-> Number(rid)] \in Slots!Update(Table(pages), Number(rid), v, TRUE)
<1> DEFINE x == End(rid)
           s == Number(x)
<1>1. /\ FileOK(q) /\ Used(q) = Used(pages) /\ FileOK(pages) /\ Len(pages) <= MaxPages
      /\ SlotOf(q, x).status = "VALID" /\ Written(q[x[1]], x[2], v)
      /\ Kept(pages, q, Used(pages) \ {x})
  BY DEF Overwriting, TableOK
<1>2. Slots!Target(Table(pages), Number(rid)) = s
  BY ChainInTable
<1>3. x \in Used(pages)
  BY <1>1, EndIs DEF TableOK
<1> HIDE DEF x
<1>4. s \in Rids /\ RidOf(s) = x
  BY <1>1, <1>3, Numbered
<1>5. Table(q)[s] = v
  BY <1>1, <1>3, <1>4, ContentsAre DEF Table
<1>6. ASSUME NEW r \in Rids, r # s PROVE Table(q)[r] = Table(pages)[r]
  <2>1. RidOf(r) \notin {x}
    BY <1>6, RidsNumbered, MaxSlotsInt
  <2> QED
    BY <1>1, <2>1, TableKept
<1>7. Table(q) = [Table(pages) EXCEPT ![s] = v]
  <2>1. Table(q) = [r \in Rids |-> Table(q)[r]] /\ DOMAIN Table(pages) = Rids
    BY DEF Table
  <2> HIDE DEF Table, s
  <2> QED
    BY <1>4, <1>5, <1>6, <2>1
<1> HIDE DEF s
<1> QED
  BY <1>2, <1>7 DEF Slots!Update

(* ... and a relocation.                                                    *)
LEMMA MoveInTable ==
  ASSUME TableOK(pages), NEW q, Len(q) <= MaxPages, NEW rid \in Used(pages), NEW v \in Row, NEW y,
         Moving(pages, q, End(rid), y, v)
  PROVE  /\ y \in Used(q)
         /\ [heap |-> Table(q), rid |-> IF IsForwarded(pages, rid) THEN Number(rid) ELSE Number(y)]
              \in Slots!Update(Table(pages), Number(rid), v, TRUE)
<1> DEFINE x == End(rid)
           s == Number(x)
           e == Number(y)
           h == Table(pages)
<1>1. /\ FileOK(q) /\ Used(q) = Used(pages) \cup {y} /\ FileOK(pages) /\ Len(pages) <= MaxPages /\ x # y
      /\ y \in Used(pages) => SlotOf(pages, y).status = "EMPTY"
      /\ SlotOf(q, y).status = "VALID" /\ Written(q[y[1]], y[2], v)
      /\ IsForwarded(q, x) /\ To(q, x) = y
      /\ Kept(pages, q, Used(pages) \ {x, y})
  BY DEF Moving, TableOK
<1>2. Slots!Target(h, Number(rid)) = s
  BY ChainInTable
<1>3. x \in Used(pages)
  BY <1>1, EndIs DEF TableOK
<1>4. Slots!IsForward(h, Number(rid)) <=> IsForwarded(pages, rid)
  BY TableForwards
<1> HIDE DEF x
<1>5. s \in Rids /\ RidOf(s) = x /\ e \in Rids /\ RidOf(e) = y /\ e # s
  BY <1>1, <1>3, Numbered
<1>6. h[e] = Zero
  BY <1>1, <1>5, TableForwards, ContentsAre
<1>7. Table(q)[e] = v
  BY <1>1, <1>5, ContentsAre DEF Table
<1>8. Table(q)[s] = e
  BY <1>1, <1>3, <1>5, ContentsAre DEF Table
<1>9. ASSUME NEW r \in Rids, r # s, r # e PROVE Table(q)[r] = h[r]
  <2> DEFINE X == {x, y}
  <2>1. RidOf(r) \notin X
    BY <1>9, RidsNumbered, MaxSlotsInt
  <2>2. Used(pages) \subseteq Used(q) /\ Used(q) \subseteq Used(pages) \cup X /\ Kept(pages, q, Used(pages) \ X)
    BY <1>1
  <2> HIDE DEF X, h
  <2> QED
    BY <1>1, <2>1, <2>2, TableKept DEF h
<1>10. Table(q) = [h EXCEPT ![e] = v, ![s] = e]
  <2>1. Table(q) = [r \in Rids |-> Table(q)[r]] /\ DOMAIN h = Rids
    BY DEF Table
  <2> HIDE DEF Table, s, e, h
  <2> QED
    BY <1>5, <1>7, <1>8, <1>9, <2>1
<1> HIDE DEF s, h
<1>11. e \in Slots!FreeSlots(h) \ {s}
  BY <1>5, <1>6 DEF Slots!FreeSlots, Rids
<1> HIDE DEF e
<1>12. [heap |-> [h EXCEPT ![e] = v, ![s] = e], rid |-> IF Slots!IsForward(h, Number(rid)) THEN Number(rid) ELSE e]
         \in Slots!Update(h, Number(rid), v, TRUE)
  BY <1>2, <1>11 DEF Slots!Update
<1> QED
  BY <1>1, <1>4, <1>10, <1>12 DEF e, h

(* An empty file is an empty table.                                         *)
LEMMA InitInTable == Init => Slots!Init
<1> SUFFICES ASSUME Init PROVE Slots!Init
  OBVIOUS
<1>1. pages \in {<<FreshPage>>, <<BlankPage>>} /\ returned = NoRid
  BY DEF Init
<1>2. FileOK(pages) /\ TableOK(pages)
  BY InitHeapInv DEF HeapInv, TableOK
<1>3. Used(pages) = {}
  <2>1. DOMAIN pages = {1} /\ pages[1].slots = <<>>
    BY <1>1 DEF FreshPage, BlankPage
  <2> QED
    BY <2>1 DEF Used
<1>4. \A r \in Rids : Table(pages)[r] = Zero
  BY <1>2, <1>3, TableForwards
<1>5. Table(pages) = [r \in Rids |-> Zero]
  <2>1. Table(pages) = [r \in Rids |-> Table(pages)[r]]
    BY DEF Table
  <2> QED
    BY <1>4, <2>1, Zenon
<1>6. [r \in 1 .. MaxPages * MaxSlots |-> Contents(RidOf(r))] = [r \in 1 .. MaxPages * MaxSlots |-> Zero]
  BY <1>5, TableIsContents, Zenon DEF Rids
<1> QED
  BY <1>1, <1>6 DEF Slots!Init

(* Every step of the file is a step of the table, or changes nothing there. *)
LEMMA NextInTable == HeapInv /\ HeapInv' /\ [Next]_heapVars => [Slots!Next]_(Slots!tableVars)
<1> SUFFICES ASSUME HeapInv, HeapInv', [Next]_heapVars PROVE [Slots!Next]_(Slots!tableVars)
  OBVIOUS
<1> DEFINE h == [r \in 1 .. MaxPages * MaxSlots |-> Contents(RidOf(r))]
           ret == IF returned = NoRid THEN 0 ELSE Number(returned)
<1>0. /\ FileOK(pages) /\ Chained(pages) /\ hint \in Nat /\ UsedRids = Used(pages)
      /\ TableOK(pages) /\ Len(pages) <= MaxPages /\ Len(pages') <= MaxPages /\ FileOK(pages')
  BY HeapInvFacts DEF HeapInv, TableOK
<1>1. h = Table(pages)
  BY TableIsContents
<1>2. h' = Table(pages')
  <2>1. \A x : Contents(x)' = ContentsOf(pages', x)
    BY Zenon DEF Contents, ContentsOf, IsForwarded, Forwarded, SlotOf, Entry, PointedTo, To
  <2>2. \A x : RidOf(x)' = RidOf(x)
    BY DEF RidOf, MaxSlots
  <2> QED
    BY <2>1, <2>2, Zenon DEF Table, Rids
<1>3. /\ \A x \in Used(pages) : Number(x) \in Rids /\ x # NoRid
      /\ \A x \in Used(pages') : Number(x) \in Rids /\ x # NoRid
  <2>1. ASSUME NEW p, FileOK(p), Len(p) <= MaxPages PROVE \A x \in Used(p) : Number(x) \in Rids /\ x # NoRid
    <3>1. \A x \in Used(p) : x[1] # 0
      BY <2>1, UsedIs, FileTypes
    <3> QED
      BY <2>1, <3>1, Numbered DEF NoRid
  <2> QED
    BY <1>0, <2>1
<1>4. ASSUME NEW e \in Slots!FreeSlots(h), NEW v \in Row, ret' = e, h' = Slots!Insert(h, e, v)
      PROVE  Slots!Next
  BY <1>4, Zenon DEF Slots!Next, Slots!InsertRow
<1>5. ASSUME NEW r \in Rids, ret' = 0, h' = Slots!Delete(h, r)
      PROVE  Slots!Next
  BY <1>5, Zenon DEF Slots!Next, Slots!DeleteRow, Rids
<1>6. ASSUME NEW r \in Rids, NEW v \in Row, NEW u \in Slots!Update(h, r, v, TRUE), ret' = u.rid, h' = u.heap
      PROVE  Slots!Next
  BY <1>6, Zenon DEF Slots!Next, Slots!UpdateRow, Rids
<1>7. h' = h /\ ret' = ret => UNCHANGED Slots!tableVars
  BY Zenon DEF Slots!tableVars
<1>8. /\ returned' = NoRid => ret' = 0
      /\ \A x \in Used(pages') : returned' = x => ret' = Number(x)
  BY <1>3 DEF Number, MaxSlots
<1> HIDE DEF h, ret
<1>9. ASSUME NEW v \in Row, InsertRow(v) PROVE Slots!Next
  <2>1. PutInto(pages, pages', returned', v)
    BY <1>0, <1>9, InsertDoes
  <2>2. /\ Number(returned') \in Slots!FreeSlots(h)
        /\ h' = Slots!Insert(h, Number(returned'), v)
        /\ returned' \in Used(pages')
    BY <1>0, <1>1, <1>2, <2>1, InsertInTable
  <2>3. ret' = Number(returned')
    BY <1>8, <2>2
  <2> QED
    BY <1>4, <2>2, <2>3
<1>10. ASSUME NEW rid \in UsedRids, DeleteRow(rid) PROVE Slots!Next
  <2>1. Emptying(pages, pages', Visited(rid)) /\ returned' = NoRid
    BY <1>0, <1>10, DeleteDoes
  <2>2. h' = Slots!Delete(h, Number(rid))
    BY <1>0, <1>1, <1>2, <2>1, DeleteInTable
  <2> QED
    BY <1>0, <1>3, <1>5, <1>8, <2>1, <2>2
<1>11. ASSUME NEW rid \in UsedRids, NEW v \in Row, UpdateInPlace(rid, v) PROVE Slots!Next
  <2>1. Overwriting(pages, pages', End(rid), v) /\ returned' = rid
    BY <1>0, <1>11, UpdateInPlaceDoes
  <2> DEFINE u == [heap |-> h', rid |-> Number(rid)]
  <2>2. u \in Slots!Update(h, Number(rid), v, TRUE)
    BY <1>0, <1>1, <1>2, <2>1, OverwriteInTable
  <2>3. ret' = Number(rid) /\ Number(rid) \in Rids
    BY <1>0, <1>3, <1>8, <2>1 DEF Overwriting
  <2>4. u.rid = Number(rid) /\ u.heap = h'
    OBVIOUS
  <2> HIDE DEF u
  <2> QED
    BY <1>6, <2>2, <2>3, <2>4
<1>12. ASSUME NEW rid \in UsedRids, NEW v \in Row, Relocate(rid, v) PROVE Slots!Next
  <2>1. PICK y \in Nat \X Nat : /\ Moving(pages, pages', End(rid), y, v)
                                /\ returned' = IF IsForwarded(pages, rid) THEN rid ELSE y
    BY <1>0, <1>12, RelocateDoes
  <2> DEFINE n == IF IsForwarded(pages, rid) THEN Number(rid) ELSE Number(y)
             u == [heap |-> h', rid |-> n]
  <2>2. u \in Slots!Update(h, Number(rid), v, TRUE) /\ y \in Used(pages')
    BY <1>0, <1>1, <1>2, <2>1, MoveInTable
  <2>3. ret' = n /\ Number(rid) \in Rids
    <3>1. rid \in Used(pages')
      BY <1>0, <2>1 DEF Moving
    <3> QED
      BY <1>0, <1>3, <1>8, <2>1, <2>2, <3>1
  <2>4. u.rid = n /\ u.heap = h'
    OBVIOUS
  <2> HIDE DEF u, n
  <2> QED
    BY <1>6, <2>2, <2>3, <2>4
<1>13. CASE UNCHANGED heapVars
  <2>1. h' = h
    BY <1>1, <1>2, <1>13 DEF heapVars
  <2>2. ret' = ret
    BY <1>13 DEF heapVars, ret, Number, MaxSlots
  <2> QED
    BY <1>7, <2>1, <2>2
<1> QED
  BY <1>9, <1>10, <1>11, <1>12, <1>13 DEF Next

(* The file implements the table of slots that Transactions works with: an  *)
(* operation does to the row it is about what it does there, to the row of  *)
(* no other slot anything at all, and returns the RID it returns there.     *)
THEOREM ImplementsTheTable == Spec => ImplementsSlotTable
<1>1. HeapInv /\ HeapInv' /\ [Next]_heapVars => [Slots!Next]_(Slots!tableVars)
  BY NextInTable
<1> QED
  BY <1>1, InitInTable, HeapInvariant, PTL DEF Spec, ImplementsSlotTable, Slots!Spec
=============================================================================
