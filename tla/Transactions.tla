---------------------------- MODULE Transactions ----------------------------
(***************************************************************************)
(* Transactions over heap tables: the statements of query_engine.py and    *)
(* plan_builder.py, the transaction manager with its undo lists, the       *)
(* write-ahead log, and crash recovery.                                    *)
(*                                                                         *)
(* A step is what one thread does under the latch of a table, or one wait  *)
(* for a row lock.  The WAL is durable record by record (append() calls    *)
(* fsync); pages reach the disk when a transaction ends and whenever the   *)
(* buffer pool evicts them.  Every slot is a page of its own, so that a    *)
(* crash may find any subset of the dirty slots on disk.                   *)
(***************************************************************************)
EXTENDS HeapSlots, Integers, Sequences

CONSTANTS Session,   \* client threads
          Table,     \* heap tables
          MaxBegin,  \* bound: transactions begun by one process
          Workloads  \* what the clients do and how often the process dies

(* A workload: the kinds of statement the clients use (ops), the sets of    *)
(* rows their WHERE conditions select (where), the rows they write (insert, *)
(* update), what the tables hold at first (initial), whether rows vary in   *)
(* length, so that an update can move one (moves), whether statements may   *)
(* fail (fails); and the bounds on the transactions one process begins      *)
(* (begins), the statements of a transaction (stmts), the crashes (dies),   *)
(* and the processes that serve clients (serves): the later ones recover    *)
(* and stay idle.                                                           *)
Workload ==
  [ops : SUBSET {"select", "insert", "delete", "update"}, where : SUBSET (SUBSET Row),
   insert : SUBSET Row, update : SUBSET Row, initial : [Table -> Heap], moves : BOOLEAN,
   fails : BOOLEAN, begins : 0 .. MaxBegin, stmts : Nat, dies : Nat, serves : Nat]

ASSUME BoundAssumption == MaxBegin \in Nat
ASSUME WorkloadsAssumption == Workloads \subseteq Workload

VARIABLES
  mem,      \* the tables as the buffer pool shows them
  disk,     \* the tables in the data files
  log,      \* the WAL: BEGIN, DATA, COMMIT and ABORT records
  nextId,   \* _ids: the next transaction id of this process
  txn,      \* _local.txn_id of each thread, 0 when it has none
  undo,     \* _local.undo: what abort() would have to undo, oldest first
  flushes,  \* _local.flushes: the tables to flush when the transaction ends
  locked,   \* row locks: [thread -> [{"S", "X"} -> set of <<table, rid>>]]
  pc,       \* where each thread is
  stmt,     \* the statement it runs
  scan,     \* its scan: the next slot, the row being locked, the rows matched
  count,    \* statements started in the thread's transaction
  process,  \* "serving", "recovering" or "marking" (losers, after recovery)
  todo,     \* recovery: loser records still to be undone
  losers,   \* recovery: loser transactions still to be marked as aborted
  moved,    \* recovery: make_undo's map from logged RIDs to re-inserted rows
  crashes,  \* crashes so far
  committed, \* history: the bag of rows that the finished transactions leave
  workload  \* one of Workloads

storeVars == <<mem, disk, log>>
txnVars == <<nextId, txn, undo, flushes, locked>>
stmtVars == <<pc, stmt, scan, count>>
recVars == <<process, todo, losers, moved, crashes>>
ghostVars == <<committed, workload>>
vars == <<storeVars, txnVars, stmtVars, recVars, ghostVars>>

-----------------------------------------------------------------------------
NoStmt == [op |-> "none"]
NoScan == [next |-> 0, rid |-> 0, matches |-> <<>>]

Begun(id) == [kind |-> "BEGIN", id |-> id]
Committed(id) == [kind |-> "COMMIT", id |-> id]
Aborted(id) == [kind |-> "ABORT", id |-> id]
Data(id, op, t, r, n, before, after) ==
  [kind |-> "DATA", id |-> id, op |-> op, table |-> t, rid |-> r, new |-> n,
   before |-> before, after |-> after]

(* What abort() needs to undo one row change (row_undo.py): for an update   *)
(* `rid' is the RID the update returned.                                    *)
Change(op, t, r, before, after) ==
  [op |-> op, table |-> t, rid |-> r, before |-> before, after |-> after]

NoLocks == [m \in {"S", "X"} |-> {}]

Init ==
  /\ workload \in Workloads
  /\ mem = workload.initial /\ disk = workload.initial
  /\ log = <<>>
  /\ nextId = 1
  /\ txn = [s \in Session |-> 0]
  /\ undo = [s \in Session |-> <<>>]
  /\ flushes = [s \in Session |-> {}]
  /\ locked = [s \in Session |-> NoLocks]
  /\ pc = [s \in Session |-> "idle"]
  /\ stmt = [s \in Session |-> NoStmt]
  /\ scan = [s \in Session |-> NoScan]
  /\ count = [s \in Session |-> 0]
  /\ process = "serving"
  /\ todo = <<>> /\ losers = {} /\ moved = [r \in Rid |-> r]
  /\ crashes = 0
  /\ committed = [t \in Table |-> Stored(workload.initial[t])]

-----------------------------------------------------------------------------
(* Row locks, as RowLocks has them: see LockManager for the waiting.        *)

(* A bug: a writer does not mind readers.                                   *)
LockableOverReaders(s, m, t, r) ==
  \A u \in Session \ {s} : <<t, r>> \notin locked[u]["X"]

Lockable(s, m, t, r) ==
  \A u \in Session \ {s} : /\ <<t, r>> \notin locked[u]["X"]
                           /\ m = "X" => <<t, r>> \notin locked[u]["S"]

Locking(s, m, t, r) == [locked EXCEPT ![s][m] = @ \cup {<<t, r>>}]

-----------------------------------------------------------------------------
(* Statements.                                                              *)

At(s, place) == process = "serving" /\ pc[s] = place

(* begin(): an explicit BEGIN, or the implicit one before a statement.      *)
Begin(s) ==
  /\ At(s, "idle") /\ txn[s] = 0
  /\ nextId <= workload.begins /\ crashes < workload.serves
  /\ txn' = [txn EXCEPT ![s] = nextId]
  /\ nextId' = nextId + 1
  /\ log' = Append(log, Begun(nextId))
  /\ count' = [count EXCEPT ![s] = 0]
  /\ UNCHANGED <<mem, disk, undo, flushes, locked, pc, stmt, scan, recVars, ghostVars>>

Statements ==
  LET w == workload
  IN [op : w.ops \cap {"select"}, table : Table, where : {Row}] \cup
     [op : w.ops \cap {"insert"}, table : Table, to : w.insert] \cup
     [op : w.ops \cap {"delete"}, table : Table, where : w.where] \cup
     [op : w.ops \cap {"update"}, table : Table, where : w.where, to : w.update]

(* _execute_statement() for a statement of a running transaction.           *)
Start(s) ==
  /\ At(s, "idle") /\ txn[s] # 0 /\ count[s] < workload.stmts
  /\ count' = [count EXCEPT ![s] = @ + 1]
  /\ \E st \in Statements :
       /\ stmt' = [stmt EXCEPT ![s] = st]
       /\ flushes' = [flushes EXCEPT ![s] = IF st.op = "select" THEN @ ELSE @ \cup {st.table}]
       /\ pc' = [pc EXCEPT ![s] = IF st.op = "insert" THEN "insert" ELSE "scan"]
  /\ scan' = [scan EXCEPT ![s] = NoScan]
  /\ UNCHANGED <<storeVars, nextId, txn, undo, locked, recVars, ghostVars>>

(* The new row's X lock, asked for without waiting (_try_lock_new_rid); if  *)
(* it is taken the thread waits for it after it has left the latch.         *)
LockNewRow(s, t, r, goOn) ==
  IF Lockable(s, "X", t, r)
    THEN /\ locked' = Locking(s, "X", t, r)
         /\ pc' = [pc EXCEPT ![s] = goOn]
    ELSE /\ UNCHANGED locked
         /\ pc' = [pc EXCEPT ![s] = "newrow"]

(* execute_insert(), for one row of literals.                               *)
InsertRow(s) ==
  /\ At(s, "insert")
  /\ LET t == stmt[s].table
         row == stmt[s].to
     IN \E e \in FreeSlots(mem[t]) :
          /\ mem' = [mem EXCEPT ![t] = Insert(@, e, row)]
          /\ log' = Append(log, Data(txn[s], "INSERT", t, e, e, Empty, row))
          /\ undo' = [undo EXCEPT ![s] = Append(@, Change("INSERT", t, e, Empty, row))]
          /\ LockNewRow(s, t, e, "idle")
          /\ scan' = [scan EXCEPT ![s].rid = e]
  /\ UNCHANGED <<disk, nextId, txn, flushes, stmt, count, recVars, ghostVars>>

(* The blocking lock_rid() for a new row, outside the latch.                *)
WaitNewRow(s) ==
  /\ At(s, "newrow")
  /\ Lockable(s, "X", stmt[s].table, scan[s].rid)
  /\ locked' = Locking(s, "X", stmt[s].table, scan[s].rid)
  /\ pc' = [pc EXCEPT ![s] = IF stmt[s].op = "insert" THEN "idle" ELSE "apply"]
  /\ UNCHANGED <<storeVars, nextId, txn, undo, flushes, stmt, scan, count, recVars, ghostVars>>

-----------------------------------------------------------------------------
(* Scans: SeqScan.next() of a SELECT, _locked_matches() of a DELETE or an   *)
(* UPDATE.  The latch is released between rows and while a lock is awaited. *)

RestOfScan(s) == {r \in Rid : r > scan[s].next /\ mem[stmt[s].table][r] \in Row}

(* The scan yields the next row; rows that a DELETE or an UPDATE does not   *)
(* want are passed over without a lock.                                     *)
NextRow(s) ==
  /\ At(s, "scan")
  /\ \E r \in RestOfScan(s) :
       /\ \A q \in RestOfScan(s) : r <= q
       /\ IF mem[stmt[s].table][r] \in stmt[s].where
            THEN /\ scan' = [scan EXCEPT ![s].next = r, ![s].rid = r]
                 /\ pc' = [pc EXCEPT ![s] = "lockrow"]
            ELSE /\ scan' = [scan EXCEPT ![s].next = r]
                 /\ UNCHANGED pc
  /\ UNCHANGED <<storeVars, txnVars, stmt, count, recVars, ghostVars>>

(* A bug: a SELECT does not lock what it reads.                             *)
LockRowUnlessSelect(s) ==
  /\ At(s, "lockrow")
  /\ LET t == stmt[s].table
     IN IF stmt[s].op = "select"
          THEN UNCHANGED locked
          ELSE Lockable(s, "X", t, scan[s].rid) /\ locked' = Locking(s, "X", t, scan[s].rid)
  /\ pc' = [pc EXCEPT ![s] = "reread"]
  /\ UNCHANGED <<storeVars, nextId, txn, undo, flushes, stmt, scan, count, recVars, ghostVars>>

(* A bug: every scan takes shared locks.                                    *)
LockRowShared(s) ==
  /\ At(s, "lockrow")
  /\ Lockable(s, "S", stmt[s].table, scan[s].rid)
  /\ locked' = Locking(s, "S", stmt[s].table, scan[s].rid)
  /\ pc' = [pc EXCEPT ![s] = "reread"]
  /\ UNCHANGED <<storeVars, nextId, txn, undo, flushes, stmt, scan, count, recVars, ghostVars>>

(* lock_rid() returns: shared for a SELECT, else exclusive.                 *)
LockRow(s) ==
  /\ At(s, "lockrow")
  /\ LET m == IF stmt[s].op = "select" THEN "S" ELSE "X"
         t == stmt[s].table
     IN /\ Lockable(s, m, t, scan[s].rid)
        /\ locked' = Locking(s, m, t, scan[s].rid)
  /\ pc' = [pc EXCEPT ![s] = "reread"]
  /\ UNCHANGED <<storeVars, nextId, txn, undo, flushes, stmt, scan, count, recVars, ghostVars>>

(* A bug: the row read again is not checked.                                *)
RereadUnchecked(s) ==
  /\ At(s, "reread")
  /\ LET r == scan[s].rid
     IN scan' = [scan EXCEPT ![s].matches =
                   Append(@, [rid |-> r, row |-> Get(mem[stmt[s].table], r)])]
  /\ pc' = [pc EXCEPT ![s] = "scan"]
  /\ UNCHANGED <<storeVars, txnVars, stmt, count, recVars, ghostVars>>

(* The row is read again under the latch, now that it is locked.            *)
Reread(s) ==
  /\ At(s, "reread")
  /\ LET r == scan[s].rid
         row == Get(mem[stmt[s].table], r)
     IN scan' = [scan EXCEPT ![s].matches =
                   IF row \in stmt[s].where THEN Append(@, [rid |-> r, row |-> row]) ELSE @]
  /\ pc' = [pc EXCEPT ![s] = "scan"]
  /\ UNCHANGED <<storeVars, txnVars, stmt, count, recVars, ghostVars>>

(* The scan is over: a SELECT is done, the others apply their changes.      *)
EndScan(s) ==
  /\ At(s, "scan") /\ RestOfScan(s) = {}
  /\ pc' = [pc EXCEPT ![s] = IF stmt[s].op = "select" THEN "idle" ELSE "apply"]
  /\ UNCHANGED <<storeVars, txnVars, stmt, scan, count, recVars, ghostVars>>

(* execute_delete(), for one match: log, then delete.                       *)
ApplyDelete(s) ==
  /\ At(s, "apply") /\ stmt[s].op = "delete" /\ scan[s].matches # <<>>
  /\ LET t == stmt[s].table
         m == Head(scan[s].matches)
     IN /\ log' = Append(log, Data(txn[s], "DELETE", t, m.rid, m.rid, m.row, Empty))
        /\ undo' = [undo EXCEPT ![s] = Append(@, Change("DELETE", t, m.rid, m.row, Empty))]
        /\ mem' = [mem EXCEPT ![t] = Delete(@, m.rid)]
  /\ scan' = [scan EXCEPT ![s].matches = Tail(@)]
  /\ UNCHANGED <<disk, nextId, txn, flushes, locked, pc, stmt, count, recVars, ghostVars>>

(* execute_update(), for one match: update, then log; a row that moved      *)
(* needs a lock under its new RID.                                          *)
ApplyUpdate(s) ==
  /\ At(s, "apply") /\ stmt[s].op = "update" /\ scan[s].matches # <<>>
  /\ LET t == stmt[s].table
         m == Head(scan[s].matches)
         row == stmt[s].to
     IN \E u \in Update(mem[t], m.rid, row, workload.moves) :
          /\ mem' = [mem EXCEPT ![t] = u.heap]
          /\ log' = Append(log, Data(txn[s], "UPDATE", t, m.rid, u.rid, m.row, row))
          /\ undo' = [undo EXCEPT ![s] = Append(@, Change("UPDATE", t, u.rid, m.row, row))]
          /\ IF u.rid = m.rid THEN UNCHANGED <<locked, pc>> ELSE LockNewRow(s, t, u.rid, "apply")
          /\ scan' = [scan EXCEPT ![s].rid = u.rid, ![s].matches = Tail(@)]
  /\ UNCHANGED <<disk, nextId, txn, flushes, stmt, count, recVars, ghostVars>>

EndApply(s) ==
  /\ At(s, "apply") /\ scan[s].matches = <<>>
  /\ pc' = [pc EXCEPT ![s] = "idle"]
  /\ UNCHANGED <<storeVars, txnVars, stmt, scan, count, recVars, ghostVars>>

-----------------------------------------------------------------------------
(* The end of a transaction.                                                *)

(* A bug: the pages stay in the buffer pool.                                *)
FlushedNothing(s) == disk

(* _flush_dirty_pages(): the tables the transaction wrote, all their pages. *)
Flushed(s) == [t \in Table |-> IF t \in flushes[s] THEN mem[t] ELSE disk[t]]

CommitFlush(s) ==
  /\ At(s, "idle") /\ txn[s] # 0
  /\ disk' = Flushed(s)
  /\ pc' = [pc EXCEPT ![s] = "flushed"]
  /\ UNCHANGED <<mem, log, txnVars, stmt, scan, count, recVars, ghostVars>>

(* The bag of rows after the changes ch.                                    *)
Changed(bag, ch) ==
  LET Came(t, v) == Cardinality({i \in DOMAIN ch : ch[i].table = t /\ ch[i].after = v})
      Went(t, v) == Cardinality({i \in DOMAIN ch : ch[i].table = t /\ ch[i].before = v})
  IN [t \in Table |-> [v \in Row |-> bag[t][v] + Came(t, v) - Went(t, v)]]

(* _states, release_all() and _clear().                                     *)
EndTxn(s) ==
  /\ txn' = [txn EXCEPT ![s] = 0]
  /\ undo' = [undo EXCEPT ![s] = <<>>]
  /\ flushes' = [flushes EXCEPT ![s] = {}]
  /\ locked' = [locked EXCEPT ![s] = NoLocks]
  /\ pc' = [pc EXCEPT ![s] = "idle"]
  /\ stmt' = [stmt EXCEPT ![s] = NoStmt]
  /\ scan' = [scan EXCEPT ![s] = NoScan]
  /\ UNCHANGED <<nextId, count>>

(* The COMMIT record, on disk when append() returns, then the locks go.     *)
Commit(s) ==
  /\ At(s, "flushed")
  /\ log' = Append(log, Committed(txn[s]))
  /\ committed' = Changed(committed, undo[s])
  /\ EndTxn(s)
  /\ UNCHANGED <<mem, disk, recVars, workload>>

(* A statement fails: a duplicate key, a value out of range, a deadlock.    *)
Fail(s) ==
  /\ workload.fails
  /\ process = "serving" /\ txn[s] # 0 /\ pc[s] \in {"idle", "insert", "lockrow", "newrow"}
  /\ pc' = [pc EXCEPT ![s] = "abort"]
  /\ UNCHANGED <<storeVars, txnVars, stmt, scan, count, recVars, ghostVars>>

Undoing(s, op) ==
  At(s, "abort") /\ undo[s] # <<>> /\ undo[s][Len(undo[s])].op = op

(* A bug: all undo steps of a transaction are dropped once one has run.     *)
UndoneAll(s) == undo' = [undo EXCEPT ![s] = <<>>]

Undone(s) == undo' = [undo EXCEPT ![s] = SubSeq(@, 1, Len(@) - 1)]

(* undo_insert(): with its compensation record, unless the row is gone.     *)
UndoInsert(s) ==
  /\ Undoing(s, "INSERT")
  /\ LET c == undo[s][Len(undo[s])]
         row == Get(mem[c.table], c.rid)
     IN IF row = Empty
          THEN UNCHANGED <<mem, log>>
          ELSE /\ log' = Append(log, Data(txn[s], "DELETE", c.table, c.rid, c.rid, row, Empty))
               /\ mem' = [mem EXCEPT ![c.table] = Delete(@, c.rid)]
  /\ Undone(s)
  /\ UNCHANGED <<disk, nextId, txn, flushes, locked, stmtVars, recVars, ghostVars>>

(* A bug: a slot emptied by the delete is taken for one in use.             *)
UndoDeleteSkipped(s) ==
  /\ Undoing(s, "DELETE")
  /\ Undone(s)
  /\ UNCHANGED <<storeVars, nextId, txn, flushes, locked, stmtVars, recVars, ghostVars>>

(* undo_delete(): the row goes into any free slot, unless its old slot is   *)
(* in use again.                                                            *)
UndoDelete(s) ==
  /\ Undoing(s, "DELETE")
  /\ LET c == undo[s][Len(undo[s])]
     IN IF Get(mem[c.table], c.rid) # Empty
          THEN UNCHANGED <<mem, log>>
          ELSE \E e \in FreeSlots(mem[c.table]) :
                 /\ mem' = [mem EXCEPT ![c.table] = Insert(@, e, c.before)]
                 /\ log' = Append(log, Data(txn[s], "INSERT", c.table, e, e, Empty, c.before))
  /\ Undone(s)
  /\ UNCHANGED <<disk, nextId, txn, flushes, locked, stmtVars, recVars, ghostVars>>

(* undo_update(): the old row is written over the new one.                  *)
UndoUpdate(s) ==
  /\ Undoing(s, "UPDATE")
  /\ LET c == undo[s][Len(undo[s])]
     IN \E u \in Update(mem[c.table], c.rid, c.before, workload.moves) :
          /\ mem' = [mem EXCEPT ![c.table] = u.heap]
          /\ log' = Append(log, Data(txn[s], "UPDATE", c.table, c.rid, u.rid, c.after, c.before))
  /\ Undone(s)
  /\ UNCHANGED <<disk, nextId, txn, flushes, locked, stmtVars, recVars, ghostVars>>

AbortFlush(s) ==
  /\ At(s, "abort") /\ undo[s] = <<>>
  /\ disk' = Flushed(s)
  /\ pc' = [pc EXCEPT ![s] = "undone"]
  /\ UNCHANGED <<mem, log, txnVars, stmt, scan, count, recVars, ghostVars>>

Abort(s) ==
  /\ At(s, "undone")
  /\ log' = Append(log, Aborted(txn[s]))
  /\ EndTxn(s)
  /\ UNCHANGED <<mem, disk, recVars, ghostVars>>

-----------------------------------------------------------------------------
(* The buffer pool, crashes, and recovery at the next start.                *)

(* A page is evicted, whoever changed it (also while recovery runs).        *)
WriteBack(t, r) ==
  /\ disk[t][r] # mem[t][r]
  /\ disk' = [disk EXCEPT ![t][r] = mem[t][r]]
  /\ UNCHANGED <<mem, log, txnVars, stmtVars, recVars, ghostVars>>

Logged(kind) == {log[i].id : i \in {j \in DOMAIN log : log[j].kind = kind}}

(* A bug: aborted transactions are undone once more.                        *)
LosersWithAborted == Logged("BEGIN") \ Logged("COMMIT")

Losers == Logged("BEGIN") \ (Logged("COMMIT") \cup Logged("ABORT"))

(* What the losers changed, the last change first.                          *)
LoserChanges ==
  LET upTo[i \in 0 .. Len(log)] ==
        IF i = 0 THEN <<>>
        ELSE IF log[i].kind = "DATA" /\ log[i].id \in Losers THEN <<log[i]>> \o upTo[i - 1]
        ELSE upTo[i - 1]
  IN upTo[Len(log)]

(* The process dies and is started again: recover() reads the log, and the  *)
(* new TransactionManager counts its ids from 1.                            *)
Crash ==
  /\ crashes < workload.dies
  /\ crashes' = crashes + 1
  /\ mem' = disk
  /\ nextId' = 1
  /\ txn' = [s \in Session |-> 0]
  /\ undo' = [s \in Session |-> <<>>]
  /\ flushes' = [s \in Session |-> {}]
  /\ locked' = [s \in Session |-> NoLocks]
  /\ pc' = [s \in Session |-> "idle"]
  /\ stmt' = [s \in Session |-> NoStmt]
  /\ scan' = [s \in Session |-> NoScan]
  /\ count' = [s \in Session |-> 0]
  /\ process' = "recovering"
  /\ losers' = Losers
  /\ todo' = LoserChanges
  /\ moved' = [r \in Rid |-> r]
  /\ UNCHANGED <<disk, log, ghostVars>>

(* make_undo().undo(): the record at the head of `todo'.                    *)
Recovering(op) == process = "recovering" /\ todo # <<>> /\ Head(todo).op = op

RecoverInsert ==
  /\ Recovering("INSERT")
  /\ LET rec == Head(todo)
         r == moved[rec.rid]
     IN mem' = IF Get(mem[rec.table], r) = rec.after
                 THEN [mem EXCEPT ![rec.table] = Delete(@, r)] ELSE mem
  /\ todo' = Tail(todo)
  /\ UNCHANGED <<disk, log, txnVars, stmtVars, process, losers, moved, crashes, ghostVars>>

(* A bug: the row is inserted without a look at what is there.              *)
RecoverDeleteBlind ==
  /\ Recovering("DELETE")
  /\ LET rec == Head(todo)
     IN \E e \in FreeSlots(mem[rec.table]) :
          /\ mem' = [mem EXCEPT ![rec.table] = Insert(@, e, rec.before)]
          /\ moved' = [moved EXCEPT ![rec.rid] = e]
  /\ todo' = Tail(todo)
  /\ UNCHANGED <<disk, log, txnVars, stmtVars, process, losers, crashes, ghostVars>>

RecoverDelete ==
  /\ Recovering("DELETE")
  /\ LET rec == Head(todo)
     IN IF Get(mem[rec.table], moved[rec.rid]) = rec.before
          THEN UNCHANGED <<mem, moved>>
          ELSE \E e \in FreeSlots(mem[rec.table]) :
                 /\ mem' = [mem EXCEPT ![rec.table] = Insert(@, e, rec.before)]
                 /\ moved' = [moved EXCEPT ![rec.rid] = e]
  /\ todo' = Tail(todo)
  /\ UNCHANGED <<disk, log, txnVars, stmtVars, process, losers, crashes, ghostVars>>

(* _undo_update(): the row is looked for under both RIDs.                   *)
RecoverUpdate ==
  /\ Recovering("UPDATE")
  /\ LET rec == Head(todo)
         h == mem[rec.table]
         target == IF Get(h, moved[rec.new]) # Empty THEN moved[rec.new] ELSE moved[rec.rid]
         found == Get(h, target)
     IN \/ /\ found = Empty
           /\ \E e \in FreeSlots(h) :
                /\ mem' = [mem EXCEPT ![rec.table] = Insert(@, e, rec.before)]
                /\ moved' = [moved EXCEPT ![rec.rid] = e, ![rec.new] = e]
        \/ /\ found \notin {Empty, rec.before}
           /\ \E u \in Update(h, target, rec.before, workload.moves) : mem' = [mem EXCEPT ![rec.table] = u.heap]
           /\ UNCHANGED moved
        \/ /\ found = rec.before
           /\ UNCHANGED <<mem, moved>>
  /\ todo' = Tail(todo)
  /\ UNCHANGED <<disk, log, txnVars, stmtVars, process, losers, crashes, ghostVars>>

(* A bug: the losers are marked before their undo is on disk.               *)
RecoverWithoutFlush ==
  /\ process = "recovering" /\ todo = <<>>
  /\ process' = "marking"
  /\ UNCHANGED <<storeVars, txnVars, stmtVars, todo, losers, moved, crashes, ghostVars>>

(* _flush_table() for the tables recovery touched.                          *)
RecoverFlush ==
  /\ process = "recovering" /\ todo = <<>>
  /\ disk' = mem
  /\ process' = "marking"
  /\ UNCHANGED <<mem, log, txnVars, stmtVars, todo, losers, moved, crashes, ghostVars>>

(* An ABORT record for one more loser.                                      *)
MarkLoser ==
  /\ process = "marking" /\ losers # {}
  /\ \E id \in losers :
       /\ \A other \in losers : id <= other
       /\ log' = Append(log, Aborted(id))
       /\ losers' = losers \ {id}
  /\ UNCHANGED <<mem, disk, txnVars, stmtVars, process, todo, moved, crashes, ghostVars>>

Serve ==
  /\ process = "marking" /\ losers = {}
  /\ process' = "serving"
  /\ UNCHANGED <<storeVars, txnVars, stmtVars, todo, losers, moved, crashes, ghostVars>>

-----------------------------------------------------------------------------
Step(s) ==
  \/ Begin(s) \/ Start(s)
  \/ InsertRow(s) \/ WaitNewRow(s)
  \/ NextRow(s) \/ LockRow(s) \/ Reread(s) \/ EndScan(s)
  \/ ApplyDelete(s) \/ ApplyUpdate(s) \/ EndApply(s)
  \/ CommitFlush(s) \/ Commit(s)
  \/ Fail(s) \/ UndoInsert(s) \/ UndoDelete(s) \/ UndoUpdate(s) \/ AbortFlush(s) \/ Abort(s)

Recover == RecoverInsert \/ RecoverDelete \/ RecoverUpdate \/ RecoverFlush \/ MarkLoser \/ Serve

Next ==
  \/ \E s \in Session : Step(s)
  \/ \E t \in Table, r \in Rid : WriteBack(t, r)
  \/ Crash
  \/ Recover

Spec == Init /\ [][Next]_vars
-----------------------------------------------------------------------------
(* Properties.                                                              *)

ChangeOp == {"INSERT", "DELETE", "UPDATE"}
ChangeType ==
  [op : ChangeOp, table : Table, rid : Rid, before : Row \cup {Empty}, after : Row \cup {Empty}]
DataType ==
  [kind : {"DATA"}, id : 1 .. MaxBegin, op : ChangeOp, table : Table, rid : Rid, new : Rid,
   before : Row \cup {Empty}, after : Row \cup {Empty}]
LogType == DataType \cup [kind : {"BEGIN", "COMMIT", "ABORT"}, id : 1 .. MaxBegin]

TypeOK ==
  /\ mem \in [Table -> Heap] /\ disk \in [Table -> Heap]
  /\ \A i \in DOMAIN log : log[i] \in LogType
  /\ nextId \in 1 .. MaxBegin + 1
  /\ txn \in [Session -> 0 .. MaxBegin]
  /\ \A s \in Session : \A i \in DOMAIN undo[s] : undo[s][i] \in ChangeType
  /\ flushes \in [Session -> SUBSET Table]
  /\ locked \in [Session -> [{"S", "X"} -> SUBSET (Table \X Rid)]]
  /\ pc \in [Session -> {"idle", "insert", "scan", "lockrow", "reread", "apply", "newrow",
                         "flushed", "abort", "undone"}]
  /\ stmt \in [Session -> Statements \cup {NoStmt}]
  /\ \A s \in Session :
        /\ scan[s].next \in Rid \cup {0} /\ scan[s].rid \in Rid \cup {0}
        /\ \A i \in DOMAIN scan[s].matches : scan[s].matches[i] \in [rid : Rid, row : Row]
  /\ count \in [Session -> 0 .. workload.stmts]
  /\ process \in {"serving", "recovering", "marking"}
  /\ \A i \in DOMAIN todo : todo[i] \in DataType
  /\ losers \subseteq 1 .. MaxBegin
  /\ moved \in [Rid -> Rid]
  /\ crashes \in 0 .. workload.dies
  /\ committed \in [Table -> [Row -> Int]]
  /\ workload \in Workloads

(* A transaction leaves all of its changes or none: when nothing runs, the  *)
(* tables hold exactly the rows that the committed transactions leave,      *)
(* whichever statements failed, whenever the process crashed (also during   *)
(* recovery) and whatever had reached the disk.                             *)
Quiet == process = "serving" /\ \A s \in Session : txn[s] = 0

AllOrNothing == Quiet => \A t \in Table : Stored(mem[t]) = committed[t]

(* At every moment: the rows stored are the committed ones plus what the    *)
(* undo lists of the running transactions say they changed.  An undo list   *)
(* that misses a change, or undoes one twice, loses or invents a row.       *)
AllChanges == UNION {{<<s, i>> : i \in DOMAIN undo[s]} : s \in Session}

Pending(t, v) ==
    Cardinality({c \in AllChanges : undo[c[1]][c[2]].table = t /\ undo[c[1]][c[2]].after = v})
  - Cardinality({c \in AllChanges : undo[c[1]][c[2]].table = t /\ undo[c[1]][c[2]].before = v})

UndoListsExplainTables ==
  process = "serving" =>
    \A t \in Table, v \in Row : Stored(mem[t])[v] = committed[t][v] + Pending(t, v)

(* FORCE: whatever is not on disk belongs to a transaction that is still    *)
(* running and has logged it; what a COMMIT or an ABORT record finishes is  *)
(* on disk, together with the compensations.                                *)
LoggedBy(id, t, r) ==
  \E i \in DOMAIN log : /\ log[i].kind = "DATA" /\ log[i].id = id
                        /\ log[i].table = t /\ r \in {log[i].rid, log[i].new}

Forced ==
  process = "serving" =>
    \A t \in Table, r \in Rid : mem[t][r] # disk[t][r] =>
      \E s \in Session : txn[s] # 0 /\ t \in flushes[s] /\ LoggedBy(txn[s], t, r)

(* The rows a statement has matched stay what they were until it has used   *)
(* them: the `before' it logs, and undoes to, is what it overwrites.        *)
MatchesHold ==
  \A s \in Session : pc[s] \in {"scan", "lockrow", "reread", "apply", "newrow"} =>
    \A i \in DOMAIN scan[s].matches :
      LET m == scan[s].matches[i] IN Get(mem[stmt[s].table], m.rid) = m.row

(* Unfinished work of others at a slot.                                     *)
WrittenByOther(s, t, r) ==
  \E u \in Session \ {s} : \E i \in DOMAIN undo[u] : undo[u][i].table = t /\ undo[u][i].rid = r

(* A row a transaction has read, matched or written stays as it is until    *)
(* the transaction ends, unless it is changed by that transaction: shared   *)
(* locks of readers, exclusive ones of writers, and abort()'s undo steps,   *)
(* which take no locks, may not get into each other's rows.  (A slot may be *)
(* locked and hold another's new row: one that waits for the lock.)         *)
OthersLeave(s, t, r) ==
  /\ <<t, r>> \in locked[s]["S"] \cup locked[s]["X"]
  /\ mem[t][r] \in Row /\ ~ WrittenByOther(s, t, r)
  /\ crashes' = crashes
  => mem'[t][r] = mem[t][r] \/ undo'[s] # undo[s]

LockedRowsStay == [][\A s \in Session, t \in Table, r \in Rid : OthersLeave(s, t, r)]_vars

(* A scan gives every row once: no two of its matches lead to one slot.     *)
MatchedOnce ==
  \A s \in Session :
    \A i, j \in DOMAIN scan[s].matches :
      LET place(k) == Target(mem[stmt[s].table], scan[s].matches[k].rid)
      IN i # j => place(i) # place(j)

(* No statement reads a row that another unfinished transaction wrote.      *)
ReadCommitted ==
  \A s \in Session :
    Len(scan'[s].matches) > Len(scan[s].matches) =>
      ~ WrittenByOther(s, stmt[s].table, scan[s].rid)

ReadsAreCommitted == [][ReadCommitted]_vars
=============================================================================
