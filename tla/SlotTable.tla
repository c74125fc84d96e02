----------------------------- MODULE SlotTable -----------------------------
(***************************************************************************)
(* A heap table as a machine: the slots of HeapSlots under insertions,     *)
(* deletions and updates that choose free slots as they like.  This is how *)
(* Transactions uses a table; HeapFile is shown to implement it.           *)
(***************************************************************************)
EXTENDS HeapSlots

VARIABLES
  slots,    \* what each slot holds
  returned  \* the RID the last operation returned, 0 if none

tableVars == <<slots, returned>>

Init ==
  /\ slots = [r \in Rid |-> Empty]
  /\ returned = 0

InsertRow(row) ==
  \E e \in FreeSlots(slots) :
    /\ returned' = e
    /\ slots' = Insert(slots, e, row)

DeleteRow(r) ==
  /\ returned' = 0
  /\ slots' = Delete(slots, r)

UpdateRow(r, row) ==
  \E u \in Update(slots, r, row, TRUE) :
    /\ returned' = u.rid
    /\ slots' = u.heap

Next ==
  \/ \E row \in Row : InsertRow(row)
  \/ \E r \in Rid : DeleteRow(r)
  \/ \E r \in Rid, row \in Row : UpdateRow(r, row)

Spec == Init /\ [][Next]_tableVars
=============================================================================
