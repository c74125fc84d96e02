--------------------------- MODULE SequentialFile ---------------------------
(***************************************************************************)
(* The sequential file (src/src/storage/sequential/sequential_file.py) and *)
(* the page its clustered index sends a key to (index/btree).              *)
(*                                                                         *)
(* pages is the chain of main pages: a page is its directory of slots in   *)
(* key order and the bytes its data area has given out.  The rows that did *)
(* not fit lie in the slots of a heap file, over.rows; a chain for each     *)
(* page, in memory, names them: over.chain.  A row is a key and a length,   *)
(* in units.                                                                *)
(***************************************************************************)
EXTENDS Integers, Sequences, FiniteSets, SequencesExt

CONSTANTS PageRoom,         \* a main page without its header
          SlotSize,
          OverflowPerPage,  \* rows in a page of the overflow file
          Threshold,        \* reorganize_threshold, in hundredths
          MaxOverflow       \* bound: slots of the overflow file

VARIABLES pages, overflow, raised

Row(key, len) == [key |-> key, len |-> len]
Slot(row, room, valid) == [row |-> row, room |-> room, valid |-> valid]
EmptyPage == [slots |-> <<>>, data |-> 0]
NoRow == Row(0, 0)

(* A file, and what an operation leaves of it.                              *)
File(ps, over) == [pages |-> ps, over |-> over, raised |-> "nothing"]
Fresh(ps, rows) == File(ps, [rows |-> rows, chain |-> [p \in DOMAIN ps |-> <<>>]])
This == File(pages, overflow)

Becomes(file) ==
  /\ pages' = file.pages
  /\ overflow' = file.over
  /\ raised' = file.raised

Init ==
  LET new == Fresh(<<EmptyPage>>, <<>>)
  IN pages = new.pages /\ overflow = new.over /\ raised = new.raised

-----------------------------------------------------------------------------
(* What is left of a sequence at some of its positions.                     *)
Nth(at, n) == CHOOSE i \in at : Cardinality({j \in at : j <= i}) = n
Kept(s, at) == [n \in 1 .. Cardinality(at) |-> s[Nth(at, n)]]

-----------------------------------------------------------------------------
(* One page.                                                                *)

Live(page) ==
  LET valid == Kept(page.slots, {i \in DOMAIN page.slots : page.slots[i].valid})
  IN [i \in DOMAIN valid |-> valid[i].row]

(* _try_insert_sorted: behind the last row that is not above it; the slots  *)
(* after it move up by one.  The page itself without contiguous room.       *)
WithRow(page, row) ==
  LET upTo == {i \in DOMAIN page.slots : page.slots[i].valid /\ page.slots[i].row.key <= row.key}
      at == 1 + Cardinality(UNION {1 .. i : i \in upTo})
  IN IF PageRoom - page.data - Len(page.slots) * SlotSize < SlotSize + row.len THEN page
     ELSE [slots |-> InsertAt(page.slots, at, Slot(row, row.len, TRUE)), data |-> page.data + row.len]

(* A bug: a key equal to the smallest of the next page stays on this one.   *)
TargetPageBefore(file, k) ==
  LET ps == file.pages
      before == {p \in DOMAIN ps : p = Len(ps) \/ Live(ps[p + 1]) = <<>> \/ k <= Live(ps[p + 1])[1].key}
  IN CHOOSE p \in before : \A q \in before : p <= q

(* _find_target_page: the page before the first whose smallest live key is  *)
(* above the key, or that has no live row.                                  *)
TargetPage(file, k) ==
  LET ps == file.pages
      before == {p \in DOMAIN ps : p = Len(ps) \/ Live(ps[p + 1]) = <<>> \/ k < Live(ps[p + 1])[1].key}
  IN CHOOSE p \in before : \A q \in before : p <= q

-----------------------------------------------------------------------------
(* Reading.                                                                 *)

(* The rows of a page's chain whose slot still holds a row, each by the key *)
(* the chain has for it.                                                    *)
Spilled(over, p) ==
  LET chain == over.chain[p]
      held == Kept(chain, {i \in DOMAIN chain : over.rows[chain[i][2]] # NoRow})
  IN [i \in DOMAIN held |-> [key |-> held[i][1], row |-> over.rows[held[i][2]]]]

(* _merge_by_key: a main row goes before a spilled row of its key.          *)
Merged(main, spilled) ==
  LET ahead(i) == Cardinality({j \in DOMAIN spilled : spilled[j].key < main[i].key})
      behind(j) == Cardinality({i \in DOMAIN main : main[i].key <= spilled[j].key})
  IN [n \in 1 .. Len(main) + Len(spilled) |->
        IF \E i \in DOMAIN main : i + ahead(i) = n
          THEN main[CHOOSE i \in DOMAIN main : i + ahead(i) = n]
          ELSE spilled[CHOOSE j \in DOMAIN spilled : j + behind(j) = n].row]

Scan(file) ==
  LET upTo[p \in 0 .. Len(file.pages)] ==
        IF p = 0 THEN <<>> ELSE upTo[p - 1] \o Merged(Live(file.pages[p]), Spilled(file.over, p))
  IN upTo[Len(file.pages)]

SearchInPage(file, p, k) ==
  LET main == Live(file.pages[p])
      spilled == Spilled(file.over, p)
      mine == Kept(spilled, {i \in DOMAIN spilled : spilled[i].key = k})
  IN Kept(main, {i \in DOMAIN main : main[i].key = k}) \o [i \in DOMAIN mine |-> mine[i].row]

Search(file, k) == SearchInPage(file, TargetPage(file, k), k)

(* The smallest live key of every page that has one, as sync() enters them  *)
(* in the clustered index.                                                  *)
PageMinima(file) ==
  {<<Live(file.pages[p])[1].key, p>> : p \in {q \in DOMAIN file.pages : Live(file.pages[q]) # <<>>}}

(* ClusteredIndex.search: the page with the greatest of them up to the key. *)
ClusteredSearch(file, k) ==
  LET minima == PageMinima(file)
      upTo == {m \in minima : m[1] <= k}
  IN IF minima = {} THEN Search(file, k)
     ELSE IF upTo = {} THEN <<>>
     ELSE SearchInPage(file, (CHOOSE m \in upTo : \A n \in upTo : n[1] <= m[1])[2], k)

-----------------------------------------------------------------------------
(* insert                                                                   *)

FreeSlot(over) == SelectInSeq(over.rows, LAMBDA r : r = NoRow)

(* The spilled row gets a slot of the heap file first.  Entering it into    *)
(* the chain compares RIDs when the chain has the key already, which Python *)
(* refuses: the row stays in the heap file, and nothing leads to it.        *)
WithSpilled(file, p, row) ==
  LET over == file.over
      free == FreeSlot(over)
      slot == IF free = 0 THEN Len(over.rows) + 1 ELSE free
      rows == IF free = 0 THEN Append(over.rows, row) ELSE [over.rows EXCEPT ![slot] = row]
      at == 1 + Cardinality({i \in DOMAIN over.chain[p] : over.chain[p][i][1] < row.key})
  IN IF \E i \in DOMAIN over.chain[p] : over.chain[p][i][1] = row.key
       THEN [file EXCEPT !.over.rows = rows, !.raised = "TypeError"]
       ELSE [file EXCEPT !.over.rows = rows, !.over.chain[p] = InsertAt(@, at, <<row.key, slot>>)]

WithInserted(file, row) ==
  LET p == TargetPage(file, row.key)
      page == WithRow(file.pages[p], row)
  IN IF row.len + SlotSize > PageRoom THEN [file EXCEPT !.raised = "too large"]
     ELSE IF page # file.pages[p] THEN [file EXCEPT !.pages[p] = page]
     ELSE WithSpilled(file, p, row)

InBound(file) == Len(file.over.rows) <= MaxOverflow

Insert(key, len) ==
  LET new == WithInserted(This, Row(key, len)) IN InBound(new) /\ Becomes(new)

-----------------------------------------------------------------------------
(* reorganize                                                               *)

(* The pages that hold these rows, four fifths full.                        *)
Packed(rows) ==
  LET place(done, row) ==
        LET full == done.used + row.len + SlotSize > (4 * PageRoom) \div 5
            at == IF full THEN Append(done.pages, EmptyPage) ELSE done.pages
        IN [pages |-> [at EXCEPT ![Len(at)] = WithRow(@, row)],
            used |-> row.len + SlotSize + IF full THEN 0 ELSE done.used]
      after[n \in 0 .. Len(rows)] ==
        IF n = 0 THEN [pages |-> <<EmptyPage>>, used |-> 0] ELSE place(after[n - 1], rows[n])
  IN after[Len(rows)].pages

(* A bug: the rows of the main pages only.                                  *)
ReorganizedMain(file) ==
  Fresh(Packed(FoldLeft(LAMBDA rows, page : rows \o Live(page), <<>>, file.pages)), file.over.rows)

(* The chains are dropped; the overflow file keeps its rows and its pages.  *)
Reorganized(file) == Fresh(Packed(Scan(file)), file.over.rows)

Reorganize == Becomes([Reorganized(This) EXCEPT !.raised = raised])

(* wasted_space_ratio, for pages without headers; a heap file has a page    *)
(* from the start.                                                          *)
TooMuchWaste(file) ==
  LET lost(page) == FoldLeft(LAMBDA n, s : IF s.valid THEN n ELSE n + s.room + SlotSize, 0, page.slots)
      emptied == FoldLeft(LAMBDA n, page : n + lost(page), 0, file.pages)
      rows == Len(file.over.rows)
      spilled == PageRoom * IF rows = 0 THEN 1 ELSE 1 + (rows - 1) \div OverflowPerPage
  IN 100 * (emptied + spilled) > Threshold * (Len(file.pages) * PageRoom + spilled)

MaybeReorganized(file) == IF TooMuchWaste(file) THEN Reorganized(file) ELSE file

-----------------------------------------------------------------------------
(* delete                                                                   *)

(* delete(key): the rows of the key in its target page and in its chain.    *)
DeleteKey(key) ==
  LET p == TargetPage(This, key)
      gone(s) == s.valid /\ s.row.key = key
      slots == pages[p].slots
      mine == {c[2] : c \in {d \in ToSet(overflow.chain[p]) : d[1] = key}}
      left == [This EXCEPT
                 !.pages[p].slots = [i \in DOMAIN slots |->
                                       IF gone(slots[i]) THEN [slots[i] EXCEPT !.valid = FALSE] ELSE slots[i]],
                 !.over.rows = [i \in DOMAIN @ |-> IF i \in mine THEN NoRow ELSE @[i]],
                 !.over.chain[p] = Kept(@, {i \in DOMAIN @ : @[i][1] # key})]
  IN Becomes(IF left = This THEN [This EXCEPT !.raised = "missing"] ELSE MaybeReorganized(left))

(* By RID, as SQL statements do: the slot of a page, or of the heap file.   *)
InPage(p, i) == [spilled |-> FALSE, page |-> p, slot |-> i]
InHeap(i) == [spilled |-> TRUE, page |-> 0, slot |-> i]

(* scan_with_rid, as a set                                                  *)
Rids ==
  UNION {{InPage(p, i) : i \in {j \in DOMAIN pages[p].slots : pages[p].slots[j].valid}}
           \union {InHeap(c[2]) : c \in {d \in ToSet(overflow.chain[p]) : overflow.rows[d[2]] # NoRow}} :
         p \in DOMAIN pages}

Get(rid) == IF rid.spilled THEN overflow.rows[rid.slot] ELSE pages[rid.page].slots[rid.slot].row

(* delete(rid): a spilled row leaves its entry in the chain behind.         *)
WithoutRid(rid) ==
  IF rid.spilled THEN [This EXCEPT !.over.rows[rid.slot] = NoRow]
  ELSE [This EXCEPT !.pages[rid.page].slots[rid.slot].valid = FALSE]

DeleteRid(rid) == Becomes(WithoutRid(rid))

-----------------------------------------------------------------------------
(* update(rid, row): a spilled row stays where it is, and under its old key *)
(* in the chain; one in a page stays if its key does and it is not longer.  *)
(* The rest is a delete and an insert.                                      *)
Update(rid, row) ==
  LET slot == pages[rid.page].slots[rid.slot]
      new == IF rid.spilled THEN [This EXCEPT !.over.rows[rid.slot] = row]
             ELSE IF row.len <= slot.row.len /\ row.key = slot.row.key
               THEN [This EXCEPT !.pages[rid.page].slots[rid.slot] = Slot(row, row.len, TRUE)]
             ELSE WithInserted(WithoutRid(rid), row)
  IN InBound(new) /\ Becomes(new)
=============================================================================
