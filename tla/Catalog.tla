------------------------------ MODULE Catalog ------------------------------
(***************************************************************************)
(* The catalog (src/src/catalog/catalog.py): a table, the values its       *)
(* UNIQUE column has taken, its indexes, and how statements, undo steps,   *)
(* DDL and a restart keep them in step with the rows.                      *)
(*                                                                         *)
(* The table has one column that matters, UNIQUE and nullable, and every   *)
(* index is over it.  A critical section of the table latch is one step.   *)
(* The order in which a statement scans, locks and reads its rows again is *)
(* the business of Transactions: here a row is locked and changed in one   *)
(* step, and stays in its slot.                                            *)
(***************************************************************************)
EXTENDS Integers, Sequences, FiniteSets

CONSTANTS Txn, Rid, Key,
          Null,        \* the value NULL
          None,        \* no row, nobody
          IndexType,   \* "btree", "hash", "rtree", "gin"; SPIMI is like GIN
          MaxIndexes,  \* bound: indexes ever made
          MaxChanges   \* bound: changes of a transaction

ASSUME NullIsNoKey == Null \notin Key
ASSUME NoneIsNothing == None \notin Key \union {Null} \union Txn

VARIABLES
  table,      \* is there a table of that name
  rows,       \* its rows by RID
  uniques,    \* _unique_values of its column
  indexes,    \* its indexes by index_id: [type, entries]
  nextIndex,  \* _next_index_id
  writer,     \* exclusive row locks
  readers,    \* shared row locks
  txn,        \* the transaction of each session: [phase, undo, scan, seen]
  faults      \* which of the known ways to lose track have been taken

vars == <<table, rows, uniques, indexes, nextIndex, writer, readers, txn, faults>>

Stored == Key \union {Null}

Idle == [phase |-> "idle", undo |-> <<>>, scan |-> {}, seen |-> {}]

Init ==
  /\ table = FALSE
  /\ rows = [r \in Rid |-> None]
  /\ uniques = {}
  /\ indexes = <<>>
  /\ nextIndex = 1
  /\ writer = [r \in Rid |-> None]
  /\ readers = [r \in Rid |-> {}]
  /\ txn = [t \in Txn |-> Idle]
  /\ faults = {}

-----------------------------------------------------------------------------
(* What an index holds.                                                     *)

(* encode_key refuses NULL; _rtree_key and the text indexes leave it out.   *)
Refuses(type, v) == type \in {"btree", "hash"} /\ v = Null

EntriesOf == {<<rows[r], r>> : r \in {q \in Rid : rows[q] \in Key}}

(* A B+ tree also raises when the entry it is to delete is not there.       *)
Stops(i, old, new, r) ==
  \/ Refuses(indexes[i].type, old) \/ Refuses(indexes[i].type, new)
  \/ indexes[i].type = "btree" /\ old # None /\ <<old, r>> \notin indexes[i].entries

Raises(old, new, r) == old # new /\ \E i \in DOMAIN indexes : Stops(i, old, new, r)

(* A bug: an update enters the new value and leaves the old one.            *)
WithEntryAdded(old, new, r) ==
  [i \in DOMAIN indexes |-> [indexes[i] EXCEPT !.entries = @ \union ({<<new, r>>} \cap (Key \X Rid))]]

(* A bug: a row whose column is NULL is entered in a text index.            *)
WithNullEntered(old, new, r) ==
  LET with(i) == IF Stops(i, old, new, r) THEN {} ELSE {<<new, r>>} \cap (Stored \X Rid)
  IN [i \in DOMAIN indexes |-> [indexes[i] EXCEPT !.entries = (@ \ {<<old, r>>}) \union with(i)]]

(* register_insert, unregister_delete and register_update of the row r that *)
(* had the value `old' and has `new' now, None for no row: index by index,  *)
(* until one raises; that one may have taken the old entry out.             *)
WithEntry(old, new, r) ==
  LET without(i) == indexes[i].entries \ {<<old, r>>}
      reached(i) == old # new /\ \A j \in DOMAIN indexes : j < i => ~Stops(j, old, new, r)
      with(i) == IF Stops(i, old, new, r) THEN {} ELSE {<<new, r>>} \cap (Key \X Rid)
  IN [i \in DOMAIN indexes |->
        IF reached(i) THEN [indexes[i] EXCEPT !.entries = without(i) \union with(i)] ELSE indexes[i]]

-----------------------------------------------------------------------------
(* The row r and what is derived from it, after a change of the row.  The   *)
(* values of the UNIQUE column follow if no index raised.                   *)

(* A bug: an update, or a delete, does not give the old value free.         *)
BecomesTaken(r, new) ==
  LET raised == Raises(rows[r], new, r)
  IN /\ rows' = [rows EXCEPT ![r] = new]
     /\ indexes' = WithEntry(rows[r], new, r)
     /\ uniques' = IF raised THEN uniques ELSE uniques \union ({new} \ {None})
     /\ faults' = faults \union (IF raised THEN {"not indexed"} ELSE {})

Becomes(r, new) ==
  LET old == rows[r]
      raised == Raises(old, new, r)
  IN /\ rows' = [rows EXCEPT ![r] = new]
     /\ indexes' = WithEntry(old, new, r)
     /\ uniques' = IF raised THEN uniques ELSE (uniques \ {old}) \union ({new} \ {None})
     /\ faults' = faults \union (IF raised THEN {"not indexed"} ELSE {})
                         \union (IF old # new /\ new \in uniques THEN {"taken twice"} ELSE {})

(* unregister_delete has raised before the row was taken out.               *)
StaysUnindexed(r) ==
  /\ indexes' = WithEntry(rows[r], None, r)
  /\ faults' = faults \union {"not indexed"}
  /\ UNCHANGED <<rows, uniques>>

Change(op, r, before) == [op |-> op, rid |-> r, before |-> before]

Running(t) == table /\ txn[t].phase \in {"idle", "active"} /\ txn[t].scan = {}

MayWrite(t, r) ==
  /\ Running(t) /\ Len(txn[t].undo) < MaxChanges
  /\ writer[r] \in {None, t} /\ readers[r] \subseteq {t}

(* A change is logged and can be undone before the indexes are served: one  *)
(* that raises there leaves it to the abort.  A new row is locked last.     *)
Changed(t, change, raised) ==
  /\ writer' = IF change.op = "insert" /\ raised THEN writer ELSE [writer EXCEPT ![change.rid] = t]
  /\ txn' = [txn EXCEPT ![t].undo = Append(@, change),
                        ![t].phase = IF raised THEN "aborting" ELSE "active",
                        ![t].seen = {s \in @ : s.rid # change.rid}]
  /\ UNCHANGED <<table, nextIndex, readers>>

Insert(t, r, v) ==
  /\ MayWrite(t, r) /\ rows[r] = None
  /\ v \notin uniques
  /\ Becomes(r, v)
  /\ Changed(t, Change("insert", r, None), Raises(None, v, r))

Delete(t, r) ==
  LET raised == Raises(rows[r], None, r)
  IN /\ MayWrite(t, r) /\ rows[r] # None
     /\ IF raised THEN StaysUnindexed(r) ELSE Becomes(r, None)
     /\ Changed(t, Change("delete", r, rows[r]), raised)

(* register_update takes the new value down as taken, whoever has it.       *)
Update(t, r, v) ==
  /\ MayWrite(t, r) /\ rows[r] # None
  /\ Becomes(r, v)
  /\ Changed(t, Change("update", r, rows[r]), Raises(rows[r], v, r))

-----------------------------------------------------------------------------
(* IndexScan.open: the RIDs of a key under the latch, then each row under   *)
(* its shared lock, whatever its value is by then.                          *)

OpenScan(t, i, k) ==
  LET found == {e \in indexes[i].entries : e[1] = k}
  IN /\ Running(t) /\ found # {} /\ indexes[i].type \in {"btree", "hash"}
     /\ txn' = [txn EXCEPT ![t].phase = "active", ![t].scan = {[key |-> k, rid |-> e[2]] : e \in found}]
     /\ UNCHANGED <<table, rows, uniques, indexes, nextIndex, writer, readers, faults>>

Read(t, s) ==
  /\ txn' = [txn EXCEPT ![t].scan = @ \ {s},
                        ![t].seen = IF rows[s.rid] = None THEN @
                                    ELSE @ \union {[key |-> s.key, rid |-> s.rid, value |-> rows[s.rid]]}]
  /\ UNCHANGED <<table, rows, uniques, indexes, nextIndex, writer, faults>>

(* A bug: the row is read without a lock.                                   *)
ReadNextUnlocked(t, s) == txn[t].phase = "active" /\ Read(t, s) /\ UNCHANGED readers

ReadNext(t, s) ==
  /\ txn[t].phase = "active"
  /\ writer[s.rid] \in {None, t}
  /\ readers' = [readers EXCEPT ![s.rid] = @ \union {t}]
  /\ Read(t, s)

-----------------------------------------------------------------------------
(* The end of a transaction.                                                *)

Ended(t) ==
  /\ txn' = [txn EXCEPT ![t] = Idle]
  /\ writer' = [r \in Rid |-> IF writer[r] = t THEN None ELSE writer[r]]
  /\ readers' = [r \in Rid |-> readers[r] \ {t}]

Commit(t) ==
  /\ txn[t].phase = "active" /\ txn[t].scan = {}
  /\ Ended(t)
  /\ UNCHANGED <<table, rows, uniques, indexes, nextIndex, faults>>

(* A deadlock, a timeout, a value that is taken.                            *)
Fail(t) ==
  /\ txn[t].phase = "active"
  /\ txn' = [txn EXCEPT ![t].phase = "aborting", ![t].scan = {}]
  /\ UNCHANGED <<table, rows, uniques, indexes, nextIndex, writer, readers, faults>>

(* An undo step that raises ends the abort: what comes before it is not     *)
(* undone, and the locks go.                                                *)
Undone(t, raised) ==
  IF raised THEN Ended(t)
  ELSE /\ txn' = [txn EXCEPT ![t].undo = SubSeq(@, 1, Len(@) - 1)]
       /\ UNCHANGED <<writer, readers>>

(* undo_insert, undo_delete and undo_update, with no lock but those the     *)
(* transaction has.  A deleted row comes back in any free slot, if no other *)
(* row has its own.                                                         *)
UndoStep(t, slot) ==
  LET change == txn[t].undo[Len(txn[t].undo)]
      now == rows[change.rid]
      nothing == (change.op = "delete") # (now = None)
      raised == Raises(rows[slot], change.before, slot)
  IN /\ txn[t].phase = "aborting" /\ txn[t].undo # <<>>
     /\ IF change.op = "delete" /\ now = None THEN rows[slot] = None ELSE slot = change.rid
     /\ \/ nothing /\ UNCHANGED <<rows, uniques, indexes, faults>> /\ Undone(t, FALSE)
        \/ ~nothing /\ change.op = "insert" /\ raised /\ StaysUnindexed(slot) /\ Undone(t, TRUE)
        \/ ~nothing /\ ~(change.op = "insert" /\ raised) /\ Becomes(slot, change.before) /\ Undone(t, raised)
     /\ UNCHANGED <<table, nextIndex>>

EndAbort(t) ==
  /\ txn[t].phase = "aborting" /\ txn[t].undo = <<>>
  /\ Ended(t)
  /\ UNCHANGED <<table, rows, uniques, indexes, nextIndex, faults>>

-----------------------------------------------------------------------------
(* DDL, and the start of the engine.                                        *)

CreateTable ==
  /\ ~table /\ table' = TRUE
  /\ UNCHANGED <<rows, uniques, indexes, nextIndex, writer, readers, txn, faults>>

AllIdle == \A t \in Txn : txn[t].phase = "idle"

(* Not under a transaction; the engine does not see to that.                *)
DropTable ==
  /\ table /\ AllIdle
  /\ table' = FALSE
  /\ rows' = [r \in Rid |-> None]
  /\ uniques' = {} /\ indexes' = <<>> /\ faults' = {}
  /\ UNCHANGED <<nextIndex, writer, readers, txn>>

(* The index is built from the rows as they are, committed or not.          *)
CreateIndex(type) ==
  /\ table /\ nextIndex <= MaxIndexes
  /\ nextIndex' = nextIndex + 1
  /\ indexes' = IF \E r \in Rid : Refuses(type, rows[r]) THEN indexes
                ELSE [i \in DOMAIN indexes \union {nextIndex} |->
                        IF i = nextIndex THEN [type |-> type, entries |-> EntriesOf] ELSE indexes[i]]
  /\ UNCHANGED <<table, rows, uniques, writer, readers, txn, faults>>

DropIndex(id) ==
  /\ indexes' = [i \in DOMAIN indexes \ {id} |-> indexes[i]]
  /\ UNCHANGED <<table, rows, uniques, nextIndex, writer, readers, txn, faults>>

(* _load: the values are read from the rows.                                *)
Load ==
  /\ table /\ AllIdle
  /\ uniques' = {rows[r] : r \in Rid} \ {None}
  /\ UNCHANGED <<table, rows, indexes, nextIndex, writer, readers, txn, faults>>

(* rebuild_derived, after a recovery that has changed the rows.             *)
Rebuild ==
  /\ table /\ AllIdle
  /\ \A i \in DOMAIN indexes, r \in Rid : ~Refuses(indexes[i].type, rows[r])
  /\ uniques' = {rows[r] : r \in Rid} \ {None}
  /\ indexes' = [i \in DOMAIN indexes |-> [indexes[i] EXCEPT !.entries = EntriesOf]]
  /\ UNCHANGED <<table, rows, nextIndex, writer, readers, txn, faults>>

Statement(t) ==
  \/ \E r \in Rid, v \in Stored : Insert(t, r, v) \/ Update(t, r, v)
  \/ \E r \in Rid : Delete(t, r)
  \/ \E i \in DOMAIN indexes, k \in Key : OpenScan(t, i, k)
  \/ \E s \in txn[t].scan : ReadNext(t, s)

End(t) == Commit(t) \/ Fail(t) \/ (\E slot \in Rid : UndoStep(t, slot)) \/ EndAbort(t)

Ddl ==
  \/ CreateTable \/ DropTable
  \/ \E type \in IndexType : CreateIndex(type)
  \/ \E id \in DOMAIN indexes : DropIndex(id)

Next == (\E t \in Txn : Statement(t) \/ End(t)) \/ Ddl \/ Load \/ Rebuild

Spec == Init /\ [][Next]_vars

-----------------------------------------------------------------------------
TypeOK ==
  /\ table \in BOOLEAN
  /\ rows \in [Rid -> Stored \union {None}]
  /\ uniques \subseteq Stored
  /\ DOMAIN indexes \subseteq 1 .. nextIndex - 1
  /\ \A i \in DOMAIN indexes : indexes[i] \in [type : IndexType, entries : SUBSET (Key \X Rid)]
  /\ nextIndex \in Nat \ {0}
  /\ writer \in [Rid -> Txn \union {None}]
  /\ readers \in [Rid -> SUBSET Txn]
  /\ txn \in [Txn -> [phase : {"idle", "active", "aborting"},
                      undo : Seq([op : {"insert", "delete", "update"}, rid : Rid, before : Stored \union {None}]),
                      scan : SUBSET [key : Key, rid : Rid],
                      seen : SUBSET [key : Key, rid : Rid, value : Stored]]]
  /\ faults \subseteq {"not indexed", "taken twice"}

(* Whatever statements, undo steps, new indexes and restarts come between   *)
(* each other, every index has exactly the rows of the table that have a    *)
(* key, as long as no index has raised while it was served                  *)
(* (catalog.py:224-275, 466-567, 850-997, row_undo.py:15-42).               *)
IndexesAgree ==
  "not indexed" \notin faults => \A i \in DOMAIN indexes : indexes[i].entries = EntriesOf

(* ... and the values taken are those of the rows, each of one row, as long *)
(* as neither an UPDATE nor the undo of a DELETE has brought in a value     *)
(* that another row has (catalog.py:915-988, 1055-1094).                    *)
UniquesAgree ==
  faults = {} =>
    /\ uniques = {rows[r] : r \in Rid} \ {None}
    /\ \A r, q \in Rid : r # q /\ rows[r] # None => rows[r] # rows[q]

(* A row an index scan has given stays as it was read until the transaction *)
(* that read it ends or changes it, whatever is undone meanwhile            *)
(* (index_scan.py:25-43, row_undo.py:11-40).                                *)
ReadsRepeat ==
  faults = {} => \A t \in Txn : \A s \in txn[t].seen :
    txn[t].phase = "active" => rows[s.rid] = s.value

(* "Any failure (including a DeadlockError) aborts the transaction so its   *)
(* locks are released and its changes undone" (_run_in_transaction,         *)
(* query_engine.py): an abort ends with no step left to undo.               *)
AbortsUndoAll ==
  [][\A t \in Txn : txn[t].phase = "aborting" /\ txn'[t].phase = "idle" => txn[t].undo = <<>>]_vars

(* check_unique: "Returns True if value does not violate a UNIQUE/PK        *)
(* constraint on this column" (catalog.py:1055-1063): no value twice.       *)
OneRowPerValue == \A r, q \in Rid : r # q /\ rows[r] # None => rows[r] # rows[q]

(* A row that an index scan gives for a key has that key.                   *)
ScansMatch == \A t \in Txn : \A s \in txn[t].seen : s.value = s.key
=============================================================================
