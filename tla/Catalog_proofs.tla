--------------------------- MODULE Catalog_proofs ---------------------------
(***************************************************************************)
(* Proofs about Catalog: its type invariant, that the indexes and the       *)
(* values of the UNIQUE column follow the rows, and that a row read through *)
(* an index stays as it was read.                                           *)
(*                                                                          *)
(* IndexesAgree and UniquesAgree are inductive on their own, given types.   *)
(* ReadsRepeat is not: it rests on the locks.                               *)
(***************************************************************************)
EXTENDS Catalog, TLAPS

Index == [type : IndexType, entries : SUBSET (Key \X Rid)]
AChange == [op : {"insert", "delete", "update"}, rid : Rid, before : Stored \union {None}]
ATxn == [phase : {"idle", "active", "aborting"}, undo : Seq(AChange),
         scan : SUBSET [key : Key, rid : Rid], seen : SUBSET [key : Key, rid : Rid, value : Stored]]

-----------------------------------------------------------------------------
(* What serving the indexes gives.                                          *)

(* An index that is served keeps its type, and has keys only.               *)
LEMMA EntryTypes ==
  ASSUME TypeOK, NEW r \in Rid, NEW old, NEW new
  PROVE  /\ DOMAIN WithEntry(old, new, r) = DOMAIN indexes
         /\ \A i \in DOMAIN indexes : WithEntry(old, new, r)[i] \in Index
<1>1. \A i \in DOMAIN indexes : indexes[i] \in Index
  BY DEF TypeOK, Index
<1>2. DOMAIN WithEntry(old, new, r) = DOMAIN indexes
  BY DEF WithEntry
<1>3. ASSUME NEW i \in DOMAIN indexes
      PROVE  \/ WithEntry(old, new, r)[i] = indexes[i]
             \/ WithEntry(old, new, r)[i] = [indexes[i] EXCEPT !.entries = (@ \ {<<old, r>>}) \union ({<<new, r>>} \cap (Key \X Rid))]
             \/ WithEntry(old, new, r)[i] = [indexes[i] EXCEPT !.entries = (@ \ {<<old, r>>}) \union {}]
  BY DEF WithEntry
<1>4. ASSUME NEW index \in Index, NEW E \in SUBSET (Key \X Rid)
      PROVE  [index EXCEPT !.entries = (@ \ {<<old, r>>}) \union E] \in Index
  <2>1. index.entries \subseteq Key \X Rid
    BY DEF Index
  <2>2. (index.entries \ {<<old, r>>}) \union E \in SUBSET (Key \X Rid)
    BY <2>1
  <2> QED
    BY <2>2 DEF Index
<1>5. ASSUME NEW i \in DOMAIN indexes PROVE WithEntry(old, new, r)[i] \in Index
  <2> DEFINE E == {<<new, r>>} \cap (Key \X Rid)
  <2>1. E \in SUBSET (Key \X Rid) /\ {} \in SUBSET (Key \X Rid)
    OBVIOUS
  <2>2. /\ [indexes[i] EXCEPT !.entries = (@ \ {<<old, r>>}) \union E] \in Index
        /\ [indexes[i] EXCEPT !.entries = (@ \ {<<old, r>>}) \union {}] \in Index
    <3> HIDE DEF E
    <3> QED
      BY <1>1, <1>4, <2>1
  <2> QED
    BY <1>1, <1>3, <2>2
<1> QED
  BY <1>2, <1>5

(* If no index raises, each is served in full.                              *)
LEMMA EntryServed ==
  ASSUME NEW r \in Rid, NEW old, NEW new, old # new, ~Raises(old, new, r), NEW i \in DOMAIN indexes
  PROVE  WithEntry(old, new, r)[i] = [indexes[i] EXCEPT !.entries = (@ \ {<<old, r>>}) \union ({<<new, r>>} \cap (Key \X Rid))]
<1>1. \A j \in DOMAIN indexes : ~Stops(j, old, new, r)
  BY DEF Raises
<1> QED
  BY <1>1 DEF WithEntry

(* The entries of the rows, when one row has changed.                       *)
LEMMA EntriesFollow ==
  ASSUME TypeOK, NEW r \in Rid, NEW new, rows' = [rows EXCEPT ![r] = new]
  PROVE  EntriesOf' = (EntriesOf \ {<<rows[r], r>>}) \union ({<<new, r>>} \cap (Key \X Rid))
<1>1. \A q \in Rid : rows'[q] = IF q = r THEN new ELSE rows[q]
  BY DEF TypeOK
<1> QED
  BY <1>1 DEF EntriesOf

LEMMA IndexesFollow ==
  ASSUME TypeOK, NEW r \in Rid, NEW new, Becomes(r, new), ~Raises(rows[r], new, r),
         \A i \in DOMAIN indexes : indexes[i].entries = EntriesOf
  PROVE  \A i \in DOMAIN indexes' : indexes'[i].entries = EntriesOf'
<1>1. rows' = [rows EXCEPT ![r] = new] /\ indexes' = WithEntry(rows[r], new, r)
  BY DEF Becomes
<1>2. DOMAIN indexes' = DOMAIN indexes
  BY <1>1, EntryTypes
<1>3. CASE rows[r] = new
  <2>1. rows' = rows
    BY <1>1, <1>3 DEF TypeOK
  <2>2. EntriesOf' = EntriesOf
    BY <2>1 DEF EntriesOf
  <2>3. \A i \in DOMAIN indexes : indexes'[i] = indexes[i]
    BY <1>1, <1>3 DEF WithEntry
  <2> QED
    BY <1>2, <2>2, <2>3
<1>4. CASE rows[r] # new
  <2> SUFFICES ASSUME NEW i \in DOMAIN indexes PROVE indexes'[i].entries = EntriesOf'
    BY <1>2
  <2>1. indexes[i] \in Index
    BY DEF TypeOK, Index
  <2>2. indexes'[i] = [indexes[i] EXCEPT !.entries = (@ \ {<<rows[r], r>>}) \union ({<<new, r>>} \cap (Key \X Rid))]
    BY <1>1, <1>4, EntryServed
  <2>3. indexes'[i].entries = (indexes[i].entries \ {<<rows[r], r>>}) \union ({<<new, r>>} \cap (Key \X Rid))
    BY <2>1, <2>2 DEF Index
  <2> QED
    BY <1>1, <2>3, EntriesFollow
<1> QED
  BY <1>3, <1>4

-----------------------------------------------------------------------------
(* Types.                                                                   *)

(* A change of a row, and a failed one, keep the types of what they change. *)
LEMMA BecomesTypes ==
  ASSUME TypeOK, NEW r \in Rid, NEW new \in Stored \union {None}, Becomes(r, new)
  PROVE  /\ rows' \in [Rid -> Stored \union {None}]
         /\ uniques' \subseteq Stored
         /\ DOMAIN indexes' = DOMAIN indexes /\ \A i \in DOMAIN indexes' : indexes'[i] \in Index
         /\ faults' \subseteq {"not indexed", "taken twice"}
<1>1. rows' \in [Rid -> Stored \union {None}]
  BY DEF TypeOK, Becomes
<1>2. uniques' \subseteq Stored
  BY DEF TypeOK, Becomes
<1>3. DOMAIN indexes' = DOMAIN indexes /\ \A i \in DOMAIN indexes' : indexes'[i] \in Index
  BY EntryTypes DEF Becomes
<1>4. faults' \subseteq {"not indexed", "taken twice"}
  BY DEF TypeOK, Becomes
<1> QED
  BY <1>1, <1>2, <1>3, <1>4

LEMMA UnindexedTypes ==
  ASSUME TypeOK, NEW r \in Rid, StaysUnindexed(r)
  PROVE  /\ rows' = rows /\ uniques' = uniques
         /\ DOMAIN indexes' = DOMAIN indexes /\ \A i \in DOMAIN indexes' : indexes'[i] \in Index
         /\ faults' \subseteq {"not indexed", "taken twice"}
BY EntryTypes DEF TypeOK, StaysUnindexed

(* What is under the tables: the rows, and what is derived from them.       *)
TablesOK ==
  /\ table \in BOOLEAN
  /\ rows \in [Rid -> Stored \union {None}]
  /\ uniques \subseteq Stored
  /\ DOMAIN indexes \subseteq 1 .. nextIndex - 1
  /\ \A i \in DOMAIN indexes : indexes[i] \in Index
  /\ nextIndex \in Nat \ {0}
  /\ faults \subseteq {"not indexed", "taken twice"}

SessionsOK ==
  /\ writer \in [Rid -> Txn \union {None}]
  /\ readers \in [Rid -> SUBSET Txn]
  /\ txn \in [Txn -> ATxn]

LEMMA TypeParts ==
  /\ TypeOK <=> TablesOK /\ SessionsOK
  /\ TypeOK' <=> TablesOK' /\ SessionsOK'
BY DEF TypeOK, TablesOK, SessionsOK, Index, ATxn, AChange

LEMMA ChangedTypes ==
  ASSUME TypeOK, NEW t \in Txn, NEW change \in AChange, NEW raised \in BOOLEAN, Changed(t, change, raised)
  PROVE  SessionsOK'
<1> USE TypeParts DEF SessionsOK
<1>1. writer' \in [Rid -> Txn \union {None}] /\ readers' \in [Rid -> SUBSET Txn]
  BY DEF Changed, AChange
<1>2. Append(txn[t].undo, change) \in Seq(AChange)
  BY DEF ATxn
<1>3. {s \in txn[t].seen : s.rid # change.rid} \subseteq [key : Key, rid : Rid, value : Stored]
  BY DEF ATxn
<1>4. txn' \in [Txn -> ATxn]
  <2> DEFINE after == [txn[t] EXCEPT !.undo = Append(@, change), !.phase = IF raised THEN "aborting" ELSE "active",
                                    !.seen = {s \in @ : s.rid # change.rid}]
  <2>1. txn' = [txn EXCEPT ![t] = after]
    BY DEF Changed
  <2>2. after \in ATxn
    BY <1>2, <1>3 DEF ATxn
  <2> HIDE DEF after
  <2> QED
    BY <2>1, <2>2
<1> QED
  BY <1>1, <1>4

LEMMA EndedTypes ==
  ASSUME TypeOK, NEW t \in Txn, Ended(t)
  PROVE  SessionsOK'
<1>1. Idle \in ATxn
  BY DEF Idle, ATxn
<1> QED
  BY <1>1, TypeParts DEF Ended, SessionsOK

(* The types of everything are kept by each step.                           *)
LEMMA TypeStep ==
  ASSUME TypeOK, [Next]_vars
  PROVE  TypeOK'
<1> USE TypeParts
<1>1. ASSUME NEW t \in Txn, NEW r \in Rid, NEW v \in Stored, Insert(t, r, v) PROVE TypeOK'
  <2>1. Change("insert", r, None) \in AChange /\ Raises(None, v, r) \in BOOLEAN
    BY DEF Change, AChange, Raises, Stops, Refuses
  <2>2. SessionsOK'
    BY <1>1, <2>1, ChangedTypes DEF Insert
  <2> QED
    BY <1>1, <2>2, BecomesTypes DEF Insert, Changed, TablesOK
<1>2. ASSUME NEW t \in Txn, NEW r \in Rid, NEW v \in Stored, Update(t, r, v) PROVE TypeOK'
  <2>1. Change("update", r, rows[r]) \in AChange /\ Raises(rows[r], v, r) \in BOOLEAN
    BY DEF Change, AChange, Raises, Stops, Refuses, TablesOK
  <2>2. SessionsOK'
    BY <1>2, <2>1, ChangedTypes DEF Update
  <2> QED
    BY <1>2, <2>2, BecomesTypes DEF Update, Changed, TablesOK
<1>3. ASSUME NEW t \in Txn, NEW r \in Rid, Delete(t, r) PROVE TypeOK'
  <2>1. Change("delete", r, rows[r]) \in AChange /\ Raises(rows[r], None, r) \in BOOLEAN
    BY DEF Change, AChange, Raises, Stops, Refuses, TablesOK
  <2>2. SessionsOK'
    BY <1>3, <2>1, ChangedTypes DEF Delete
  <2> QED
    BY <1>3, <2>2, BecomesTypes, UnindexedTypes DEF Delete, Changed, TablesOK
<1>4. ASSUME NEW t \in Txn, NEW i \in DOMAIN indexes, NEW k \in Key, OpenScan(t, i, k) PROVE TypeOK'
  <2>1. indexes[i].entries \subseteq Key \X Rid
    BY DEF TablesOK, Index
  <2>2. {[key |-> k, rid |-> e[2]] : e \in {e \in indexes[i].entries : e[1] = k}} \subseteq [key : Key, rid : Rid]
    BY <2>1
  <2> DEFINE scan == {[key |-> k, rid |-> e[2]] : e \in {e \in indexes[i].entries : e[1] = k}}
             after == [txn[t] EXCEPT !.phase = "active", !.scan = scan]
  <2>4. txn' = [txn EXCEPT ![t] = after]
    BY <1>4 DEF OpenScan
  <2>5. after \in ATxn
    <3> HIDE DEF scan
    <3>1. scan \subseteq [key : Key, rid : Rid]
      BY <2>2 DEF scan
    <3> QED
      BY <3>1 DEF SessionsOK, ATxn
  <2>3. SessionsOK'
    <3>1. UNCHANGED <<writer, readers>>
      BY <1>4 DEF OpenScan
    <3> HIDE DEF after
    <3> QED
      BY <2>4, <2>5, <3>1 DEF SessionsOK
  <2> QED
    BY <1>4, <2>3 DEF OpenScan, TablesOK
<1>5. ASSUME NEW t \in Txn, NEW s \in txn[t].scan, ReadNext(t, s) PROVE TypeOK'
  <2>1. s \in [key : Key, rid : Rid] /\ s.rid \in Rid /\ s.key \in Key
    BY DEF SessionsOK, ATxn
  <2>2. rows[s.rid] # None => [key |-> s.key, rid |-> s.rid, value |-> rows[s.rid]] \in [key : Key, rid : Rid, value : Stored]
    BY <2>1 DEF TablesOK
  <2>3. txn[t].scan \ {s} \subseteq [key : Key, rid : Rid]
    BY DEF SessionsOK, ATxn
  <2>4. txn' \in [Txn -> ATxn]
    <3> DEFINE seen == IF rows[s.rid] = None THEN txn[t].seen
                       ELSE txn[t].seen \union {[key |-> s.key, rid |-> s.rid, value |-> rows[s.rid]]}
               after == [txn[t] EXCEPT !.scan = @ \ {s}, !.seen = seen]
    <3>1. seen \subseteq [key : Key, rid : Rid, value : Stored]
      BY <2>2 DEF SessionsOK, ATxn
    <3>2. txn' = [txn EXCEPT ![t] = after]
      BY <1>5 DEF ReadNext, Read, SessionsOK
    <3>3. after \in ATxn
      <4> HIDE DEF seen
      <4> QED
        BY <2>3, <3>1 DEF SessionsOK, ATxn
    <3> HIDE DEF after
    <3> QED
      BY <3>2, <3>3 DEF SessionsOK
  <2>5. SessionsOK'
    BY <1>5, <2>1, <2>4 DEF ReadNext, Read, SessionsOK
  <2> QED
    BY <1>5, <2>5 DEF ReadNext, Read, TablesOK
<1>6. ASSUME NEW t \in Txn, Commit(t) \/ EndAbort(t) PROVE TypeOK'
  BY <1>6, EndedTypes DEF Commit, EndAbort, TablesOK
<1>7. ASSUME NEW t \in Txn, Fail(t) PROVE TypeOK'
  BY <1>7 DEF Fail, TablesOK, SessionsOK, ATxn
<1>8. ASSUME NEW t \in Txn, NEW slot \in Rid, UndoStep(t, slot) PROVE TypeOK'
  <2> DEFINE change == txn[t].undo[Len(txn[t].undo)]
  <2>1. txn[t].undo \in Seq(AChange) /\ txn[t].undo # <<>>
    BY <1>8 DEF UndoStep, SessionsOK, ATxn
  <2>2. change \in AChange /\ SubSeq(txn[t].undo, 1, Len(txn[t].undo) - 1) \in Seq(AChange)
    BY <2>1
  <2>3. change.before \in Stored \union {None}
    BY <2>2 DEF AChange
  <2>4. ASSUME NEW raised, Undone(t, raised) PROVE SessionsOK'
    <3>1. CASE raised
      BY <2>4, <3>1, EndedTypes DEF Undone
    <3>2. CASE ~raised
      <4> DEFINE rest == SubSeq(txn[t].undo, 1, Len(txn[t].undo) - 1)
                 after == [txn[t] EXCEPT !.undo = rest]
      <4>1. txn' = [txn EXCEPT ![t] = after] /\ UNCHANGED <<writer, readers>>
        BY <2>4, <3>2 DEF Undone
      <4>2. after \in ATxn
        <5> HIDE DEF rest
        <5>1. rest \in Seq(AChange)
          BY <2>2 DEF rest
        <5> QED
          BY <5>1 DEF SessionsOK, ATxn
      <4> HIDE DEF after
      <4> QED
        BY <4>1, <4>2 DEF SessionsOK
    <3> QED
      BY <3>1, <3>2
  <2>5. SessionsOK'
    BY <1>8, <2>4 DEF UndoStep
  <2>6. TablesOK'
    <3>1. CASE UNCHANGED <<rows, uniques, indexes, faults>>
      BY <1>8, <3>1 DEF UndoStep, TablesOK
    <3>2. CASE StaysUnindexed(slot)
      BY <1>8, <3>2, UnindexedTypes DEF UndoStep, TablesOK
    <3>3. CASE Becomes(slot, change.before)
      BY <1>8, <2>3, <3>3, BecomesTypes DEF UndoStep, TablesOK
    <3> QED
      BY <1>8, <3>1, <3>2, <3>3 DEF UndoStep
  <2> QED
    BY <2>5, <2>6
<1>9. ASSUME CreateTable PROVE TypeOK'
  BY <1>9 DEF CreateTable, TablesOK, SessionsOK
<1>16. ASSUME Load PROVE TypeOK'
  <2>1. uniques' = {rows[r] : r \in Rid} \ {None} /\ table' = table
    BY <1>16 DEF Load
  <2>2. UNCHANGED <<rows, indexes, nextIndex, writer, readers, txn, faults>>
    BY <1>16 DEF Load
  <2>3. uniques' \subseteq Stored
    BY <2>1 DEF TablesOK
  <2> QED
    BY <2>1, <2>2, <2>3 DEF TablesOK, SessionsOK
<1>15. ASSUME DropTable PROVE TypeOK'
  <2>1. DOMAIN indexes' = {} /\ uniques' = {} /\ faults' = {} /\ table' = FALSE /\ rows' = [r \in Rid |-> None]
    BY <1>15 DEF DropTable
  <2>2. UNCHANGED <<nextIndex, writer, readers, txn>>
    BY <1>15 DEF DropTable
  <2> QED
    BY <2>1, <2>2 DEF TablesOK, SessionsOK
<1>10. EntriesOf \in SUBSET (Key \X Rid)
  BY DEF EntriesOf
<1>11. ASSUME NEW type \in IndexType, CreateIndex(type) PROVE TypeOK'
  <2> DEFINE made == [type |-> type, entries |-> EntriesOf]
  <2>1. made \in Index
    BY <1>10 DEF Index
  <2>2. CASE indexes' = indexes
    <3>1. nextIndex \in Nat \ {0} /\ nextIndex' = nextIndex + 1 /\ DOMAIN indexes \subseteq 1 .. nextIndex - 1
      BY <1>11 DEF CreateIndex, TablesOK
    <3>2. DOMAIN indexes' \subseteq 1 .. nextIndex' - 1 /\ nextIndex' \in Nat \ {0}
      BY <2>2, <3>1
    <3> QED
      BY <1>11, <2>2, <3>2 DEF CreateIndex, TablesOK, SessionsOK
  <2>3. CASE indexes' = [i \in DOMAIN indexes \union {nextIndex} |-> IF i = nextIndex THEN made ELSE indexes[i]]
    <3>1. DOMAIN indexes' = DOMAIN indexes \union {nextIndex} /\ \A i \in DOMAIN indexes' : indexes'[i] \in Index
      <4> HIDE DEF made
      <4> QED
        BY <2>1, <2>3 DEF TablesOK
    <3>3. nextIndex \in Nat \ {0} /\ nextIndex' = nextIndex + 1 /\ DOMAIN indexes \subseteq 1 .. nextIndex - 1
      BY <1>11 DEF CreateIndex, TablesOK
    <3>2. DOMAIN indexes' \subseteq 1 .. nextIndex' - 1 /\ nextIndex' \in Nat \ {0}
      <4>1. \A i \in DOMAIN indexes' : i \in 1 .. nextIndex' - 1
        BY <3>1, <3>3
      <4> QED
        BY <3>3, <4>1
    <3> QED
      BY <1>11, <3>1, <3>2 DEF CreateIndex, TablesOK, SessionsOK
  <2> QED
    BY <1>11, <2>2, <2>3 DEF CreateIndex
<1>12. ASSUME NEW id \in DOMAIN indexes, DropIndex(id) PROVE TypeOK'
  BY <1>12 DEF DropIndex, TablesOK, SessionsOK
<1>13. ASSUME Rebuild PROVE TypeOK'
  BY <1>10, <1>13 DEF Rebuild, TablesOK, SessionsOK, Index
<1>14. ASSUME UNCHANGED vars PROVE TypeOK'
  BY <1>14 DEF vars, TablesOK, SessionsOK
<1> QED
  BY <1>1, <1>2, <1>3, <1>4, <1>5, <1>6, <1>7, <1>8, <1>9, <1>11, <1>12, <1>13, <1>14, <1>15, <1>16 DEF Next, Statement, End, Ddl

(* Every variable has its type: catalog.py:90-165 and what changes it.      *)
THEOREM TypeCorrect == Spec => []TypeOK
<1>1. Init => TypeOK
  <2> SUFFICES ASSUME Init PROVE TypeOK
    OBVIOUS
  <2>1. Idle \in ATxn
    BY DEF Idle, ATxn
  <2>2. DOMAIN indexes = {}
    BY DEF Init
  <2>3. TablesOK /\ SessionsOK
    <3>1. TablesOK
      <4>1. rows = [r \in Rid |-> None] /\ uniques = {} /\ nextIndex = 1 /\ faults = {}
        BY DEF Init
      <4>2. nextIndex \in Nat \ {0}
        BY <4>1
      <4>6. table \in BOOLEAN
        BY DEF Init
      <4>3. rows \in [Rid -> Stored \union {None}]
        BY <4>1
      <4>4. DOMAIN indexes \subseteq 1 .. nextIndex - 1 /\ \A i \in DOMAIN indexes : indexes[i] \in Index
        BY <2>2
      <4>5. uniques \subseteq Stored /\ faults \subseteq {"not indexed", "taken twice"}
        BY <4>1
      <4> QED
        BY <4>2, <4>3, <4>4, <4>5, <4>6 DEF TablesOK
    <3>2. writer \in [Rid -> Txn \union {None}] /\ readers \in [Rid -> SUBSET Txn]
      BY DEF Init
    <3>3. txn \in [Txn -> ATxn]
      BY <2>1 DEF Init
    <3> QED
      BY <3>1, <3>2, <3>3 DEF SessionsOK
  <2> QED
    BY <2>3, TypeParts
<1>2. TypeOK /\ [Next]_vars => TypeOK'
  BY TypeStep
<1> QED
  BY <1>1, <1>2, PTL DEF Spec

-----------------------------------------------------------------------------
(* The indexes follow the rows.                                             *)

LEMMA BecomesAgrees ==
  ASSUME TypeOK, IndexesAgree, NEW r \in Rid, NEW new \in Stored \union {None}, Becomes(r, new)
  PROVE  IndexesAgree'
<1> SUFFICES ASSUME "not indexed" \notin faults' PROVE \A i \in DOMAIN indexes' : indexes'[i].entries = EntriesOf'
  BY DEF IndexesAgree
<1>1. ~Raises(rows[r], new, r) /\ "not indexed" \notin faults
  BY DEF Becomes
<1> QED
  BY <1>1, IndexesFollow DEF IndexesAgree

LEMMA UntouchedAgrees ==
  ASSUME IndexesAgree, UNCHANGED <<rows, indexes, faults>>
  PROVE  IndexesAgree'
BY DEF IndexesAgree, EntriesOf

LEMMA UnindexedAgrees ==
  ASSUME NEW r \in Rid, StaysUnindexed(r)
  PROVE  IndexesAgree'
BY DEF IndexesAgree, StaysUnindexed

(* What a step of an abort does to a row gives a value the row may have.    *)
LEMMA BeforeTypes ==
  ASSUME TypeOK, NEW t \in Txn, NEW slot \in Rid, UndoStep(t, slot)
  PROVE  txn[t].undo[Len(txn[t].undo)] \in AChange
<1>1. txn[t].undo \in Seq(AChange) /\ txn[t].undo # <<>>
  BY DEF UndoStep, TypeOK, AChange
<1> QED
  BY <1>1

LEMMA IndexesStep ==
  ASSUME TypeOK, IndexesAgree, [Next]_vars
  PROVE  IndexesAgree'
<1>1. ASSUME NEW t \in Txn, NEW r \in Rid, NEW v \in Stored, Insert(t, r, v) \/ Update(t, r, v) PROVE IndexesAgree'
  BY <1>1, BecomesAgrees DEF Insert, Update
<1>2. ASSUME NEW t \in Txn, NEW r \in Rid, Delete(t, r) PROVE IndexesAgree'
  BY <1>2, BecomesAgrees, UnindexedAgrees DEF Delete
<1>3. ASSUME NEW t \in Txn, NEW i, NEW k, OpenScan(t, i, k) PROVE IndexesAgree'
  BY <1>3, UntouchedAgrees DEF OpenScan
<1>4. ASSUME NEW t \in Txn, NEW s, ReadNext(t, s) PROVE IndexesAgree'
  BY <1>4, UntouchedAgrees DEF ReadNext, Read
<1>5. ASSUME NEW t \in Txn, Commit(t) \/ Fail(t) \/ EndAbort(t) PROVE IndexesAgree'
  BY <1>5, UntouchedAgrees DEF Commit, Fail, EndAbort
<1>6. ASSUME NEW t \in Txn, NEW slot \in Rid, UndoStep(t, slot) PROVE IndexesAgree'
  <2> DEFINE before == txn[t].undo[Len(txn[t].undo)].before
  <2>1. before \in Stored \union {None}
    BY <1>6, BeforeTypes DEF AChange
  <2>2. CASE UNCHANGED <<rows, indexes, faults>>
    BY <2>2, UntouchedAgrees
  <2>3. CASE StaysUnindexed(slot)
    BY <2>3, UnindexedAgrees
  <2>4. CASE Becomes(slot, before)
    BY <2>1, <2>4, BecomesAgrees
  <2> QED
    BY <1>6, <2>2, <2>3, <2>4 DEF UndoStep
<1>7. CASE CreateTable
  BY <1>7, UntouchedAgrees DEF CreateTable
<1>8. CASE DropTable
  <2>1. DOMAIN indexes' = {}
    BY <1>8 DEF DropTable
  <2> QED
    BY <2>1 DEF IndexesAgree
<1>9. ASSUME NEW type \in IndexType, CreateIndex(type) PROVE IndexesAgree'
  <2>1. EntriesOf' = EntriesOf /\ faults' = faults
    BY <1>9 DEF CreateIndex, EntriesOf
  <2>2. CASE indexes' = indexes
    BY <2>1, <2>2 DEF IndexesAgree
  <2>3. CASE indexes' = [i \in DOMAIN indexes \union {nextIndex} |->
                           IF i = nextIndex THEN [type |-> type, entries |-> EntriesOf] ELSE indexes[i]]
    BY <2>1, <2>3 DEF IndexesAgree
  <2> QED
    BY <1>9, <2>2, <2>3 DEF CreateIndex
<1>10. ASSUME NEW id \in DOMAIN indexes, DropIndex(id) PROVE IndexesAgree'
  BY <1>10 DEF DropIndex, IndexesAgree, EntriesOf
<1>11. CASE Load
  BY <1>11, UntouchedAgrees DEF Load
<1>12. CASE Rebuild
  <2>1. EntriesOf' = EntriesOf
    BY <1>12 DEF Rebuild, EntriesOf
  <2>2. \A i \in DOMAIN indexes : indexes[i] \in Index
    BY DEF TypeOK, Index
  <2>3. \A i \in DOMAIN indexes' : indexes'[i].entries = EntriesOf
    BY <1>12, <2>2 DEF Rebuild, Index
  <2> QED
    BY <2>1, <2>3 DEF IndexesAgree
<1>13. CASE UNCHANGED vars
  BY <1>13, UntouchedAgrees DEF vars
<1> QED
  BY <1>1, <1>2, <1>3, <1>4, <1>5, <1>6, <1>7, <1>8, <1>9, <1>10, <1>11, <1>12, <1>13 DEF Next, Statement, End, Ddl

(* Every index has exactly the rows that have a key, whatever statements,   *)
(* undo steps, DDL and restarts come between each other, unless an index    *)
(* has raised while it was served (catalog.py:224-275, 466-567, 850-997).   *)
THEOREM IndexesCorrect == Spec => []IndexesAgree
<1>1. Init => IndexesAgree
  <2> SUFFICES ASSUME Init PROVE IndexesAgree
    OBVIOUS
  <2>1. DOMAIN indexes = {}
    BY DEF Init
  <2> QED
    BY <2>1 DEF IndexesAgree
<1>2. TypeOK /\ IndexesAgree /\ [Next]_vars => IndexesAgree'
  BY IndexesStep
<1> QED
  BY <1>1, <1>2, TypeCorrect, PTL DEF Spec

-----------------------------------------------------------------------------
(* The values of the UNIQUE column follow the rows.                         *)

Taken == uniques = {rows[q] : q \in Rid} \ {None}

Single == \A r, q \in Rid : r # q /\ rows[r] # None => rows[r] # rows[q]

LEMMA UniqueParts == (UniquesAgree <=> (faults = {} => Taken /\ Single)) /\ (UniquesAgree' <=> (faults' = {} => Taken' /\ Single'))
BY DEF UniquesAgree, Taken, Single

LEMMA BecomesUnique ==
  ASSUME TypeOK, UniquesAgree, NEW r \in Rid, NEW new \in Stored \union {None}, Becomes(r, new)
  PROVE  UniquesAgree'
<1> SUFFICES ASSUME faults' = {} PROVE Taken' /\ Single'
  BY UniqueParts
<1>1. ~Raises(rows[r], new, r) /\ faults = {} /\ ~(rows[r] # new /\ new \in uniques)
  BY DEF Becomes
<1>2. Taken /\ Single
  BY <1>1, UniqueParts
<1>3. \A q \in Rid : rows'[q] = IF q = r THEN new ELSE rows[q]
  BY DEF TypeOK, Becomes
<1>4. uniques' = (uniques \ {rows[r]}) \union ({new} \ {None})
  BY <1>1 DEF Becomes
<1>5. CASE rows[r] = new
  <2>1. \A q \in Rid : rows'[q] = rows[q]
    BY <1>3, <1>5
  <2>2. uniques' = uniques
    BY <1>2, <1>4, <1>5 DEF Taken
  <2> QED
    BY <1>2, <2>1, <2>2 DEF Taken, Single
<1>6. CASE rows[r] # new
  <2>1. new \notin uniques
    BY <1>1, <1>6
  <2>2. Single'
    BY <1>2, <1>3, <2>1 DEF Taken, Single
  <2>3. uniques' = {rows'[q] : q \in Rid} \ {None}
    BY <1>2, <1>3, <1>4, <2>1 DEF Taken, Single
  <2> QED
    BY <2>2, <2>3 DEF Taken
<1> QED
  BY <1>5, <1>6

LEMMA UntouchedUnique ==
  ASSUME UniquesAgree, UNCHANGED <<rows, uniques, faults>>
  PROVE  UniquesAgree'
BY DEF UniquesAgree

LEMMA UnindexedUnique ==
  ASSUME NEW r \in Rid, StaysUnindexed(r)
  PROVE  UniquesAgree'
BY DEF UniquesAgree, StaysUnindexed

LEMMA UniquesStep ==
  ASSUME TypeOK, UniquesAgree, [Next]_vars
  PROVE  UniquesAgree'
<1>1. ASSUME NEW t \in Txn, NEW r \in Rid, NEW v \in Stored, Insert(t, r, v) \/ Update(t, r, v) PROVE UniquesAgree'
  BY <1>1, BecomesUnique DEF Insert, Update
<1>2. ASSUME NEW t \in Txn, NEW r \in Rid, Delete(t, r) PROVE UniquesAgree'
  BY <1>2, BecomesUnique, UnindexedUnique DEF Delete
<1>3. ASSUME NEW t \in Txn, NEW i, NEW k, OpenScan(t, i, k) PROVE UniquesAgree'
  BY <1>3, UntouchedUnique DEF OpenScan
<1>4. ASSUME NEW t \in Txn, NEW s, ReadNext(t, s) PROVE UniquesAgree'
  BY <1>4, UntouchedUnique DEF ReadNext, Read
<1>5. ASSUME NEW t \in Txn, Commit(t) \/ Fail(t) \/ EndAbort(t) PROVE UniquesAgree'
  BY <1>5, UntouchedUnique DEF Commit, Fail, EndAbort
<1>6. ASSUME NEW t \in Txn, NEW slot \in Rid, UndoStep(t, slot) PROVE UniquesAgree'
  <2> DEFINE before == txn[t].undo[Len(txn[t].undo)].before
  <2>1. before \in Stored \union {None}
    BY <1>6, BeforeTypes DEF AChange
  <2>2. CASE UNCHANGED <<rows, uniques, faults>>
    BY <2>2, UntouchedUnique
  <2>3. CASE StaysUnindexed(slot)
    BY <2>3, UnindexedUnique
  <2>4. CASE Becomes(slot, before)
    BY <2>1, <2>4, BecomesUnique
  <2> QED
    BY <1>6, <2>2, <2>3, <2>4 DEF UndoStep
<1>7. CASE DropTable
  <2>1. \A r \in Rid : rows'[r] = None
    BY <1>7 DEF DropTable
  <2>2. uniques' = {}
    BY <1>7 DEF DropTable
  <2> QED
    BY <2>1, <2>2 DEF UniquesAgree
<1>8. CASE CreateTable \/ (\E type \in IndexType : CreateIndex(type)) \/ (\E id \in DOMAIN indexes : DropIndex(id))
  BY <1>8, UntouchedUnique DEF CreateTable, CreateIndex, DropIndex
<1>9. CASE Load \/ Rebuild
  BY <1>9 DEF Load, Rebuild, UniquesAgree
<1>10. CASE UNCHANGED vars
  BY <1>10, UntouchedUnique DEF vars
<1> QED
  BY <1>1, <1>2, <1>3, <1>4, <1>5, <1>6, <1>7, <1>8, <1>9, <1>10 DEF Next, Statement, End, Ddl

(* The values taken are those of the rows, each of one row, unless an index *)
(* has raised, or an UPDATE or the undo of a DELETE has brought in a value  *)
(* that another row has (catalog.py:915-988, 1055-1094).                    *)
THEOREM UniquesCorrect == Spec => []UniquesAgree
<1>1. Init => UniquesAgree
  <2> SUFFICES ASSUME Init PROVE UniquesAgree
    OBVIOUS
  <2>1. uniques = {} /\ \A r \in Rid : rows[r] = None
    BY DEF Init
  <2> QED
    BY <2>1 DEF UniquesAgree
<1>2. TypeOK /\ UniquesAgree /\ [Next]_vars => UniquesAgree'
  BY UniquesStep
<1> QED
  BY <1>1, <1>2, TypeCorrect, PTL DEF Spec

-----------------------------------------------------------------------------
(* The locks, and that a read is repeatable.                                *)

(* Nothing is left of a transaction that has ended.                         *)
IdleOK == \A t \in Txn : txn[t].phase = "idle" => txn[t].undo = <<>> /\ txn[t].seen = {}

(* A row that is locked exclusively is shared with nobody else.             *)
SharedOK == \A r \in Rid : writer[r] # None => readers[r] \subseteq {writer[r]}

(* What a transaction may have to undo, it has locked.                      *)
OwnedOK == faults = {} => \A t \in Txn : \A k \in 1 .. Len(txn[t].undo) : writer[txn[t].undo[k].rid] = t

(* What a transaction has read, it has locked.                              *)
SeenOK == \A t \in Txn : \A s \in txn[t].seen : t \in readers[s.rid]

LocksOK == IdleOK /\ SharedOK /\ OwnedOK /\ SeenOK

LEMMA ChangedLocks ==
  ASSUME TypeOK, LocksOK, NEW t \in Txn, NEW change \in AChange, NEW raised \in BOOLEAN,
         MayWrite(t, change.rid), Changed(t, change, raised), faults \subseteq faults', raised => faults' # {}
  PROVE  LocksOK'
<1>1. change.rid \in Rid /\ txn \in [Txn -> ATxn] /\ writer \in [Rid -> Txn \union {None}] /\ readers \in [Rid -> SUBSET Txn]
  BY TypeParts DEF AChange, SessionsOK
<1> DEFINE after == [txn[t] EXCEPT !.undo = Append(@, change), !.phase = IF raised THEN "aborting" ELSE "active",
                                  !.seen = {s \in @ : s.rid # change.rid}]
<1>2. txn' = [txn EXCEPT ![t] = after]
  BY DEF Changed
<1>3. /\ after.phase # "idle" /\ after.undo = Append(txn[t].undo, change)
      /\ after.seen \subseteq txn[t].seen
  BY <1>1 DEF ATxn
<1>4. txn[t].undo \in Seq(AChange)
  BY <1>1 DEF ATxn
<1>5. \A u \in Txn : txn'[u] = IF u = t THEN after ELSE txn[u]
  BY <1>1, <1>2
<1> HIDE DEF after
<1>6. IdleOK'
  BY <1>3, <1>5 DEF LocksOK, IdleOK
<1>7. SharedOK'
  BY <1>1 DEF LocksOK, SharedOK, MayWrite, Changed
<1>8. OwnedOK'
  <2> SUFFICES ASSUME faults' = {}, NEW u \in Txn, NEW k \in 1 .. Len(txn'[u].undo)
               PROVE writer'[txn'[u].undo[k].rid] = u
    BY DEF OwnedOK
  <2>1. faults = {} /\ writer' = [writer EXCEPT ![change.rid] = t]
    BY DEF Changed
  <2>2. CASE u = t
    <3>1. txn'[t].undo = Append(txn[t].undo, change)
      BY <1>3, <1>5
    <3>2. k = Len(txn[t].undo) + 1 => txn'[t].undo[k] = change
      BY <1>4, <3>1
    <3>3. k # Len(txn[t].undo) + 1 => k \in 1 .. Len(txn[t].undo) /\ txn'[t].undo[k] = txn[t].undo[k]
      BY <1>4, <2>2, <3>1
    <3>4. k \in 1 .. Len(txn[t].undo) => writer[txn[t].undo[k].rid] = t
      BY <2>1 DEF LocksOK, OwnedOK
    <3>5. k \in 1 .. Len(txn[t].undo) => txn[t].undo[k].rid \in Rid
      <4>1. k \in 1 .. Len(txn[t].undo) => txn[t].undo[k] \in AChange
        BY <1>4
      <4> QED
        BY <4>1 DEF AChange
    <3> QED
      BY <1>1, <2>1, <2>2, <3>2, <3>3, <3>4, <3>5
  <2>3. CASE u # t
    <3>1. txn'[u].undo = txn[u].undo /\ txn[u].undo \in Seq(AChange)
      BY <1>1, <1>5, <2>3 DEF ATxn
    <3>4. writer[txn[u].undo[k].rid] = u
      BY <2>1, <3>1 DEF LocksOK, OwnedOK
    <3>5. txn[u].undo[k] \in AChange
      BY <3>1
    <3>2. writer[txn[u].undo[k].rid] = u /\ txn[u].undo[k].rid \in Rid
      BY <3>4, <3>5 DEF AChange
    <3>3. txn[u].undo[k].rid # change.rid
      BY <2>3, <3>2, NoneIsNothing DEF MayWrite
    <3> QED
      BY <1>1, <2>1, <3>1, <3>2, <3>3
  <2> QED
    BY <2>2, <2>3
<1>9. SeenOK'
  BY <1>3, <1>5 DEF LocksOK, SeenOK, Changed
<1> QED
  BY <1>6, <1>7, <1>8, <1>9 DEF LocksOK

LEMMA EndedLocks ==
  ASSUME TypeOK, LocksOK, NEW t \in Txn, Ended(t), faults \subseteq faults'
  PROVE  LocksOK'
<1>1. txn \in [Txn -> ATxn] /\ writer \in [Rid -> Txn \union {None}] /\ readers \in [Rid -> SUBSET Txn]
  BY TypeParts DEF SessionsOK
<1>2. \A u \in Txn : txn'[u] = IF u = t THEN Idle ELSE txn[u]
  BY <1>1 DEF Ended
<1>3. Idle.undo = <<>> /\ Idle.seen = {}
  BY DEF Idle
<1>4. IdleOK'
  BY <1>2, <1>3 DEF LocksOK, IdleOK
<1>5. SharedOK'
  BY <1>1 DEF LocksOK, SharedOK, Ended
<1>6. OwnedOK'
  <2> SUFFICES ASSUME faults' = {}, NEW u \in Txn, NEW k \in 1 .. Len(txn'[u].undo)
               PROVE writer'[txn'[u].undo[k].rid] = u
    BY DEF OwnedOK
  <2>1. u # t
    BY <1>2, <1>3
  <2>2. txn'[u].undo = txn[u].undo /\ txn[u].undo \in Seq(AChange)
    BY <1>1, <1>2, <2>1 DEF ATxn
  <2>4. faults = {} /\ writer[txn[u].undo[k].rid] = u
    BY <2>2 DEF LocksOK, OwnedOK
  <2>5. txn[u].undo[k] \in AChange
    BY <2>2
  <2>3. writer[txn[u].undo[k].rid] = u /\ txn[u].undo[k].rid \in Rid
    BY <2>4, <2>5 DEF AChange
  <2> QED
    BY <2>1, <2>2, <2>3 DEF Ended
<1>7. SeenOK'
  <2> SUFFICES ASSUME NEW u \in Txn, NEW s \in txn'[u].seen PROVE u \in readers'[s.rid]
    BY DEF SeenOK
  <2>1. u # t /\ s \in txn[u].seen
    BY <1>2, <1>3
  <2>2. s.rid \in Rid /\ u \in readers[s.rid]
    BY <1>1, <2>1 DEF LocksOK, SeenOK, ATxn
  <2> QED
    BY <2>1, <2>2 DEF Ended
<1> QED
  BY <1>4, <1>5, <1>6, <1>7 DEF LocksOK

(* A step that leaves the locks and what there is to undo alone.            *)
LEMMA UntouchedLocks ==
  ASSUME LocksOK, UNCHANGED <<writer, readers, faults>>,
         \A u \in Txn : txn'[u].undo = txn[u].undo /\ txn'[u].seen = txn[u].seen,
         \A u \in Txn : txn'[u].phase = "idle" => txn[u].phase = "idle"
  PROVE  LocksOK'
BY DEF LocksOK, IdleOK, SharedOK, OwnedOK, SeenOK

LEMMA LocksStep ==
  ASSUME TypeOK, LocksOK, [Next]_vars
  PROVE  LocksOK'
<1>0. txn \in [Txn -> ATxn] /\ writer \in [Rid -> Txn \union {None}] /\ readers \in [Rid -> SUBSET Txn]
  BY TypeParts DEF SessionsOK
<1>1. ASSUME NEW t \in Txn, NEW r \in Rid, NEW v \in Stored, Insert(t, r, v) PROVE LocksOK'
  <2>1. Change("insert", r, None) \in AChange /\ Change("insert", r, None).rid = r /\ Raises(None, v, r) \in BOOLEAN
    BY DEF Change, AChange, Raises, Stops, Refuses
  <2>2. rows[r] = None /\ faults \subseteq faults' /\ (Raises(None, v, r) => faults' # {})
    BY <1>1 DEF Insert, Becomes
  <2> QED
    BY <1>1, <2>1, <2>2, ChangedLocks DEF Insert
<1>2. ASSUME NEW t \in Txn, NEW r \in Rid, NEW v \in Stored, Update(t, r, v) PROVE LocksOK'
  <2>1. Change("update", r, rows[r]) \in AChange /\ Change("update", r, rows[r]).rid = r /\ Raises(rows[r], v, r) \in BOOLEAN
    BY TypeParts DEF Change, AChange, Raises, Stops, Refuses, TablesOK
  <2>2. faults \subseteq faults' /\ (Raises(rows[r], v, r) => faults' # {})
    BY <1>2 DEF Update, Becomes
  <2> QED
    BY <1>2, <2>1, <2>2, ChangedLocks DEF Update
<1>3. ASSUME NEW t \in Txn, NEW r \in Rid, Delete(t, r) PROVE LocksOK'
  <2>1. Change("delete", r, rows[r]) \in AChange /\ Change("delete", r, rows[r]).rid = r /\ Raises(rows[r], None, r) \in BOOLEAN
    BY TypeParts DEF Change, AChange, Raises, Stops, Refuses, TablesOK
  <2>2. faults \subseteq faults' /\ (Raises(rows[r], None, r) => faults' # {})
    BY <1>3 DEF Delete, Becomes, StaysUnindexed
  <2> QED
    BY <1>3, <2>1, <2>2, ChangedLocks DEF Delete
<1>4. ASSUME NEW t \in Txn, NEW i \in DOMAIN indexes, NEW k \in Key, OpenScan(t, i, k) PROVE LocksOK'
  <2>1. \A u \in Txn : txn'[u].undo = txn[u].undo /\ txn'[u].seen = txn[u].seen /\ (txn'[u].phase = "idle" => txn[u].phase = "idle")
    BY <1>0, <1>4 DEF OpenScan, ATxn
  <2> QED
    BY <1>4, <2>1, UntouchedLocks DEF OpenScan
<1>5. ASSUME NEW t \in Txn, NEW s \in txn[t].scan, ReadNext(t, s) PROVE LocksOK'
  <2>1. s.rid \in Rid
    BY <1>0 DEF ATxn
  <2>2. \A u \in Txn : txn'[u].undo = txn[u].undo /\ txn'[u].phase = txn[u].phase
    BY <1>0, <1>5 DEF ReadNext, Read, ATxn
  <2>3. \A u \in Txn : \A z \in txn'[u].seen : z \in txn[u].seen \/ (u = t /\ z.rid = s.rid)
    BY <1>0, <1>5 DEF ReadNext, Read, ATxn
  <2>4. \A r \in Rid : readers'[r] = IF r = s.rid THEN readers[r] \union {t} ELSE readers[r]
    BY <1>0, <1>5, <2>1 DEF ReadNext
  <2>5. UNCHANGED <<writer, faults>> /\ txn[t].phase = "active" /\ writer[s.rid] \in {None, t}
    BY <1>5 DEF ReadNext, Read
  <2>6. SharedOK'
    BY <2>1, <2>4, <2>5 DEF LocksOK, SharedOK
  <2>7. SeenOK'
    <3> SUFFICES ASSUME NEW u \in Txn, NEW z \in txn'[u].seen PROVE u \in readers'[z.rid]
      BY DEF SeenOK
    <3>1. z.rid \in Rid /\ (z \in txn[u].seen => u \in readers[z.rid])
      BY <1>0, <2>1, <2>3 DEF LocksOK, SeenOK, ATxn
    <3> QED
      BY <2>1, <2>3, <2>4, <3>1
  <2>8. IdleOK'
    <3>1. \A u \in Txn : u # t => txn'[u].seen = txn[u].seen
      BY <1>0, <1>5 DEF ReadNext, Read
    <3> QED
      BY <2>2, <2>5, <3>1 DEF LocksOK, IdleOK
  <2>9. OwnedOK'
    BY <2>2, <2>5 DEF LocksOK, OwnedOK
  <2> QED
    BY <2>6, <2>7, <2>8, <2>9 DEF LocksOK
<1>6. ASSUME NEW t \in Txn, Commit(t) \/ EndAbort(t) PROVE LocksOK'
  BY <1>6, EndedLocks DEF Commit, EndAbort
<1>7. ASSUME NEW t \in Txn, Fail(t) PROVE LocksOK'
  <2>1. \A u \in Txn : txn'[u].undo = txn[u].undo /\ txn'[u].seen = txn[u].seen /\ (txn'[u].phase = "idle" => txn[u].phase = "idle")
    BY <1>0, <1>7 DEF Fail, ATxn
  <2> QED
    BY <1>7, <2>1, UntouchedLocks DEF Fail
<1>8. ASSUME NEW t \in Txn, NEW slot \in Rid, UndoStep(t, slot) PROVE LocksOK'
  <2> DEFINE before == txn[t].undo[Len(txn[t].undo)].before
             rest == SubSeq(txn[t].undo, 1, Len(txn[t].undo) - 1)
  <2>1. faults \subseteq faults'
    BY <1>8 DEF UndoStep, Becomes, StaysUnindexed
  <2>2. CASE Ended(t)
    BY <2>1, <2>2, EndedLocks
  <2>3. CASE txn' = [txn EXCEPT ![t].undo = rest] /\ UNCHANGED <<writer, readers>>
    <3>1. txn[t].phase = "aborting" /\ txn[t].undo # <<>> /\ txn[t].undo \in Seq(AChange)
      BY <1>0, <1>8 DEF UndoStep, ATxn
    <3>2. \A u \in Txn : txn'[u].seen = txn[u].seen /\ txn'[u].phase = txn[u].phase
      BY <1>0, <2>3 DEF ATxn
    <3>3. \A u \in Txn : txn'[u].undo = IF u = t THEN rest ELSE txn[u].undo
      BY <1>0, <2>3 DEF ATxn
    <3>4. \A k \in 1 .. Len(rest) : k \in 1 .. Len(txn[t].undo) /\ rest[k] = txn[t].undo[k]
      BY <3>1
    <3>5. OwnedOK'
      <4> HIDE DEF rest
      <4> QED
        BY <2>1, <2>3, <3>3, <3>4 DEF LocksOK, OwnedOK
    <3>6. IdleOK'
      BY <3>1, <3>2, <3>3 DEF LocksOK, IdleOK
    <3>7. SharedOK' /\ SeenOK'
      BY <2>3, <3>2 DEF LocksOK, SharedOK, SeenOK
    <3> QED
      BY <3>5, <3>6, <3>7 DEF LocksOK
  <2> QED
    BY <1>8, <2>2, <2>3 DEF UndoStep, Undone
<1>9. CASE DropTable
  <2>1. UNCHANGED <<writer, readers, txn>> /\ \A u \in Txn : txn[u].undo = <<>>
    BY <1>9 DEF DropTable, AllIdle, LocksOK, IdleOK
  <2>2. IdleOK' /\ SharedOK' /\ SeenOK'
    BY <2>1 DEF LocksOK, IdleOK, SharedOK, SeenOK
  <2>3. OwnedOK'
    BY <2>1 DEF OwnedOK
  <2> QED
    BY <2>2, <2>3 DEF LocksOK
<1>10. CASE UNCHANGED <<writer, readers, txn, faults>>
  BY <1>10 DEF LocksOK, IdleOK, SharedOK, OwnedOK, SeenOK
<1>11. CASE CreateTable \/ (\E type \in IndexType : CreateIndex(type)) \/ (\E id \in DOMAIN indexes : DropIndex(id))
            \/ Load \/ Rebuild \/ UNCHANGED vars
  BY <1>10, <1>11 DEF CreateTable, CreateIndex, DropIndex, Load, Rebuild, vars
<1> QED
  BY <1>1, <1>2, <1>3, <1>4, <1>5, <1>6, <1>7, <1>8, <1>9, <1>11 DEF Next, Statement, End, Ddl

(* Only the row r changes, and no other transaction that is active has      *)
(* read it.                                                                 *)
LEMMA ReadsStay ==
  ASSUME TypeOK, ReadsRepeat, NEW r \in Rid, faults' = {} => faults = {}, NEW t \in Txn,
         \A q \in Rid : q # r => rows'[q] = rows[q],
         \A u \in Txn : u # t => txn'[u] = txn[u],
         faults' = {} => \A u \in Txn : u # t /\ txn[u].phase = "active" => \A s \in txn[u].seen : s.rid # r,
         faults' = {} /\ txn'[t].phase = "active" => \A s \in txn'[t].seen : s.rid \in Rid /\ rows'[s.rid] = s.value
  PROVE  ReadsRepeat'
<1> SUFFICES ASSUME faults' = {}, NEW u \in Txn, NEW s \in txn'[u].seen, txn'[u].phase = "active"
             PROVE rows'[s.rid] = s.value
  BY DEF ReadsRepeat
<1>1. CASE u = t
  BY <1>1
<1>2. CASE u # t
  <2>1. s \in txn[u].seen /\ s.rid \in Rid
    BY <1>2, TypeParts DEF SessionsOK, ATxn
  <2> QED
    BY <1>2, <2>1 DEF ReadsRepeat
<1> QED
  BY <1>1, <1>2

LEMMA UntouchedReads ==
  ASSUME ReadsRepeat, UNCHANGED <<rows, faults>>,
         \A u \in Txn : txn'[u].phase = "active" => txn'[u].seen \subseteq txn[u].seen /\ (txn[u].phase = "active" \/ txn[u].seen = {})
  PROVE  ReadsRepeat'
BY DEF ReadsRepeat

LEMMA ReadsStep ==
  ASSUME TypeOK, LocksOK, ReadsRepeat, [Next]_vars
  PROVE  ReadsRepeat'
<1>0. /\ txn \in [Txn -> ATxn] /\ writer \in [Rid -> Txn \union {None}] /\ readers \in [Rid -> SUBSET Txn]
      /\ rows \in [Rid -> Stored \union {None}]
  BY TypeParts DEF SessionsOK, TablesOK
<1>1. ASSUME NEW t \in Txn, NEW change \in AChange, NEW raised, Changed(t, change, raised), MayWrite(t, change.rid),
             \A q \in Rid : q # change.rid => rows'[q] = rows[q], faults \subseteq faults'
      PROVE  ReadsRepeat'
  <2>1. \A u \in Txn : u # t => txn'[u] = txn[u]
    BY <1>0, <1>1 DEF Changed
  <2>2. \A s \in txn'[t].seen : s \in txn[t].seen /\ s.rid # change.rid /\ s.rid \in Rid
    BY <1>0, <1>1 DEF Changed, ATxn
  <2>3. \A u \in Txn : u # t => \A s \in txn[u].seen : s.rid # change.rid
    BY <1>1 DEF MayWrite, LocksOK, SeenOK
  <2>4. txn[t].phase = "active" \/ txn[t].seen = {}
    BY <1>1 DEF MayWrite, Running, LocksOK, IdleOK
  <2>5. change.rid \in Rid
    BY DEF AChange
  <2>6. faults' = {} => \A s \in txn'[t].seen : s.rid \in Rid /\ rows'[s.rid] = s.value
    BY <1>1, <2>2, <2>4 DEF ReadsRepeat
  <2> QED
    BY <1>1, <2>1, <2>3, <2>5, <2>6, ReadsStay
<1>2. ASSUME NEW r \in Rid, NEW new, Becomes(r, new)
      PROVE  (\A q \in Rid : q # r => rows'[q] = rows[q]) /\ faults \subseteq faults'
  BY <1>0, <1>2 DEF Becomes
<1>3. ASSUME NEW t \in Txn, NEW r \in Rid, NEW v \in Stored, Insert(t, r, v) PROVE ReadsRepeat'
  <2>1. Change("insert", r, None) \in AChange /\ Change("insert", r, None).rid = r
    BY DEF Change, AChange
  <2> QED
    BY <1>1, <1>2, <1>3, <2>1 DEF Insert
<1>4. ASSUME NEW t \in Txn, NEW r \in Rid, NEW v \in Stored, Update(t, r, v) PROVE ReadsRepeat'
  <2>1. Change("update", r, rows[r]) \in AChange /\ Change("update", r, rows[r]).rid = r
    BY <1>0 DEF Change, AChange
  <2> QED
    BY <1>1, <1>2, <1>4, <2>1 DEF Update
<1>5. ASSUME NEW t \in Txn, NEW r \in Rid, Delete(t, r) PROVE ReadsRepeat'
  <2>1. Change("delete", r, rows[r]) \in AChange /\ Change("delete", r, rows[r]).rid = r
    BY <1>0 DEF Change, AChange
  <2>2. (\A q \in Rid : q # r => rows'[q] = rows[q]) /\ faults \subseteq faults'
    BY <1>2, <1>5 DEF Delete, StaysUnindexed
  <2> QED
    BY <1>1, <1>5, <2>1, <2>2 DEF Delete
<1>6. ASSUME NEW t \in Txn, NEW i \in DOMAIN indexes, NEW k \in Key, OpenScan(t, i, k) PROVE ReadsRepeat'
  <2>1. \A u \in Txn : txn'[u].seen = txn[u].seen /\ (txn'[u].phase = txn[u].phase \/ (u = t /\ txn[t].phase \in {"idle", "active"}))
    BY <1>0, <1>6 DEF OpenScan, Running, ATxn
  <2>2. \A u \in Txn : txn'[u].phase = "active" => txn[u].phase = "active" \/ txn[u].seen = {}
    BY <2>1 DEF LocksOK, IdleOK
  <2> QED
    BY <1>6, <2>1, <2>2, UntouchedReads DEF OpenScan
<1>7. ASSUME NEW t \in Txn, NEW s \in txn[t].scan, ReadNext(t, s) PROVE ReadsRepeat'
  <2>1. UNCHANGED <<rows, faults>> /\ txn[t].phase = "active"
    BY <1>7 DEF ReadNext, Read
  <2>2. \A u \in Txn : txn'[u].phase = txn[u].phase
    BY <1>0, <1>7 DEF ReadNext, Read, ATxn
  <2>3. \A u \in Txn : \A z \in txn'[u].seen : z \in txn[u].seen \/ (u = t /\ rows[z.rid] = z.value)
    <3>1. ASSUME NEW u \in Txn, NEW z \in txn'[u].seen, z \notin txn[u].seen
          PROVE  u = t /\ z = [key |-> s.key, rid |-> s.rid, value |-> rows[s.rid]]
      BY <1>0, <1>7, <3>1 DEF ReadNext, Read, ATxn
    <3> QED
      BY <3>1
  <2> QED
    BY <2>1, <2>2, <2>3 DEF ReadsRepeat
<1>8. ASSUME NEW t \in Txn, Ended(t), UNCHANGED <<rows, faults>> PROVE ReadsRepeat'
  <2>1. \A u \in Txn : txn'[u] = IF u = t THEN Idle ELSE txn[u]
    BY <1>0, <1>8 DEF Ended
  <2> QED
    BY <1>8, <2>1, UntouchedReads DEF Idle
<1>9. ASSUME NEW t \in Txn, Fail(t) PROVE ReadsRepeat'
  <2>1. \A u \in Txn : txn'[u].seen = txn[u].seen /\ (txn'[u].phase = "active" => txn[u].phase = "active")
    BY <1>0, <1>9 DEF Fail, ATxn
  <2> QED
    BY <1>9, <2>1, UntouchedReads DEF Fail
<1>10. ASSUME NEW t \in Txn, NEW slot \in Rid, UndoStep(t, slot) PROVE ReadsRepeat'
  <2> DEFINE change == txn[t].undo[Len(txn[t].undo)]
  <2>1. change \in AChange /\ txn[t].phase = "aborting" /\ txn[t].undo # <<>> /\ txn[t].undo \in Seq(AChange)
    BY <1>0, <1>10, BeforeTypes DEF UndoStep, ATxn
  <2>2. faults \subseteq faults' /\ (\A q \in Rid : q # slot => rows'[q] = rows[q])
    BY <1>0, <1>10 DEF UndoStep, StaysUnindexed, Becomes
  <2>3. \A u \in Txn : u # t => txn'[u] = txn[u]
    BY <1>0, <1>10 DEF UndoStep, Undone, Ended
  <2>4. txn'[t].phase # "active"
    <3>1. CASE Ended(t)
      BY <1>0, <3>1 DEF Ended, Idle
    <3>2. CASE txn' = [txn EXCEPT ![t].undo = SubSeq(@, 1, Len(@) - 1)]
      BY <1>0, <2>1, <3>2 DEF ATxn
    <3> QED
      BY <1>10, <3>1, <3>2 DEF UndoStep, Undone
  <2>5. CASE rows[slot] = None
    <3>1. \A u \in Txn : \A s \in txn[u].seen : s.value \in Stored
      BY <1>0 DEF ATxn
    <3>2. faults = {} => \A u \in Txn : txn[u].phase = "active" => \A s \in txn[u].seen : s.rid # slot
      BY <2>5, <3>1, NoneIsNothing DEF ReadsRepeat, Stored
    <3> QED
      BY <2>2, <2>3, <2>4, <3>2, ReadsStay
  <2>6. CASE slot = change.rid
    <3>1. Len(txn[t].undo) \in 1 .. Len(txn[t].undo)
      BY <2>1
    <3>2. faults = {} => writer[slot] = t
      BY <2>6, <3>1 DEF LocksOK, OwnedOK
    <3>3. faults = {} => \A u \in Txn : u # t => \A s \in txn[u].seen : s.rid # slot
      BY <3>2, NoneIsNothing DEF LocksOK, SharedOK, SeenOK
    <3> QED
      BY <2>2, <2>3, <2>4, <3>3, ReadsStay
  <2> QED
    BY <1>10, <2>5, <2>6 DEF UndoStep
<1>11. CASE DropTable
  <2>1. \A u \in Txn : txn'[u].phase = "idle"
    BY <1>11 DEF DropTable, AllIdle
  <2> QED
    BY <2>1 DEF ReadsRepeat
<1>12. CASE CreateTable \/ (\E type \in IndexType : CreateIndex(type)) \/ (\E id \in DOMAIN indexes : DropIndex(id))
            \/ Load \/ Rebuild \/ UNCHANGED vars
  <2>1. UNCHANGED <<rows, txn, faults>>
    BY <1>12 DEF CreateTable, CreateIndex, DropIndex, Load, Rebuild, vars
  <2> QED
    BY <2>1 DEF ReadsRepeat
<1> QED
  BY <1>3, <1>4, <1>5, <1>6, <1>7, <1>8, <1>9, <1>10, <1>11, <1>12 DEF Next, Statement, End, Ddl, Commit, EndAbort

(* A row an index scan has given stays as it was read until the transaction *)
(* that read it ends or changes it (index_scan.py:25-43, row_undo.py:11-40).*)
THEOREM ReadsRepeatable == Spec => []ReadsRepeat
<1>1. Init => LocksOK /\ ReadsRepeat
  <2> SUFFICES ASSUME Init PROVE LocksOK /\ ReadsRepeat
    OBVIOUS
  <2>1. \A t \in Txn : txn[t].undo = <<>> /\ txn[t].seen = {} /\ txn[t].phase = "idle"
    BY DEF Init, Idle
  <2>2. \A r \in Rid : writer[r] = None
    BY DEF Init
  <2>3. OwnedOK
    BY <2>1 DEF OwnedOK
  <2> QED
    BY <2>1, <2>2, <2>3 DEF LocksOK, IdleOK, SharedOK, SeenOK, ReadsRepeat
<1>2. TypeOK /\ LocksOK /\ ReadsRepeat /\ [Next]_vars => (LocksOK /\ ReadsRepeat)'
  BY LocksStep, ReadsStep
<1> QED
  BY <1>1, <1>2, TypeCorrect, PTL DEF Spec
=============================================================================
