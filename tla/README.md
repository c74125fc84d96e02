# A TLA+ development of Multimodal DBMS Lite

Multimodal DBMS Lite (`src/`) is a small database engine in Python: heap and
sequential files under a buffer pool, a catalog, B+ tree, hash, R-tree, text and
vector indexes, an SQL front end, and transactions with strict two-phase locking,
a write-ahead log and crash recovery, used by many threads through an HTTP server.
This directory holds TLA+ models of it, the TLC configurations that check them,
and proofs that TLAPS checks. Paths below are relative to `src/src/` unless they
begin with another directory.

## 1. The system

| part | state it keeps | operations | what makes it correct |
|---|---|---|---|
| lock manager `transaction/lock_manager.py` | `_holders`, `_held_by_txn`, `_waiting`, one condition | `acquire`, `release_all` | compatible holders, no undetected deadlock, no innocent victim, no lost wakeup, every wait ends |
| transaction manager `transaction/transaction_manager.py`, `row_undo.py`, `log_manager.py` | per thread: `txn_id`, undo list, tables to flush; ids; the log file | `begin`, `commit`, `abort`, undo steps | a transaction leaves all of its changes or none; FORCE |
| recovery `transaction/recovery.py` | the map `moved` | `run_startup_recovery` | the tables hold exactly the committed rows, however often the process dies |
| statements `query/query_engine.py`, `query/planner/plan_builder.py`, `query/executor/access/`, `storage/latch.py` | the scan, the matched rows | SELECT, INSERT, DELETE, UPDATE | rows used are locked and current; only committed rows are read |
| heap file `storage/heap/heap_file.py` | pages of slots and rows, `_page_hint` | `insert`, `get`, `delete`, `update`, `compact_page`, `scan` | rows read back, areas do not overlap, forwarding chains end |
| buffer pool `storage/buffer_manager.py`, `file_manager.py` | frames, page table, pin counts, histories; the file | `fetch_page`, `unpin_page`, `flush_page`, `flush_all`, `reset`, `allocate_page` | pins protect, nothing is lost, LRU-K order |
| sequential file `storage/sequential/` | sorted pages, overflow file, `_overflow_chain` | `insert`, `delete`, `update`, `search`, `reorganize` | order, complete answers over overflow and reorganisation |
| catalog `catalog/catalog.py` | system tables, `_unique_values`, physical indexes, latches | DDL, `register_insert`, `unregister_delete`, `register_update`, `rebuild_derived` | UNIQUE holds, indexes agree with tables |
| B+ tree, clustered index, extendible hash, R-tree (`index/`) | pages of nodes or buckets | `insert`, `delete`, `search`, ranges, windows | every entry is found, structure stays balanced and within its pages |
| text, vector, multimedia indexes (`index/`) | inverted lists, centroids and lists, graphs, codebooks, their files | build, add, remove, search, save, load | memory, file and table agree; every match is found |
| planner and executors (`query/planner/`, `query/executor/`) | per plan node cursors, partitions, runs | `open`, `next`, `close` | each plan returns the rows the statement asks for |
| parser, visitor, rewriter (`query/parser/`, `query/rewriter/`) | tokens | `parse_*`, `visit_*` | what is written is what is run; the rest is refused |
| loaders, `api/`, `frontend/`, `benchmarks/` | none of the engine's | call the parts above | |

How they interact. A statement is parsed, checked against the catalog and rewritten; a
SELECT becomes a tree of plan nodes. It runs in its thread's transaction (an implicit one
unless BEGIN opened it). It scans or changes a table under the table's re-entrant
latch and asks the lock manager for row locks outside of it (`storage/latch.py:9-11`;
the one request under the latch does not wait). Every row change appends a DATA
record to the log (durable at once: `append()` calls fsync) and an undo callback to
the thread's list; then the catalog serves the indexes of the table, one by one, and the set of
values that a UNIQUE column has taken. `commit()` flushes the pages of the tables written, then appends
COMMIT, then releases the locks; `abort()` runs the undo list backwards, each step
logging a compensation record and serving the indexes again, flushes, appends ABORT and releases. Tables live in
pages of a buffer pool that evicts dirty pages when it needs a frame (STEAL). At the
next start recovery undoes, backwards through the log, what transactions without a
COMMIT or ABORT record changed, rebuilds indexes and UNIQUE values from the rows, flushes, and marks them with ABORT.

What is hard in it: waits and upgrades in the lock manager; rows that change between
a scan, a lock request and the second read; aborts that run while others work and
reuse the slots they freed; STEAL, so that any part of a transaction's pages may be on
disk at a crash, and crashes during aborts and recovery; rows that move to another
page; indexes that raise after the row is stored; derived state (UNIQUE values, entries, boxes,
norms, codebooks) that must follow every change and its undo; splits and merges of pages; one question with many
plans, and operators that spill. `PROJECT.json` lists each such place under `hazards` with the properties that
watch it, or the reason why none does.

## 2. Modules

    RowLocks   <--implements--  LockManager  (+ CycleSearch, MCLockManager, LockManager_proofs)
       :                            (RowLocks is what Transactions uses as `Lockable', `Locking')
    HeapSlots  <--extends-----  Transactions (+ MCTransactions, Transactions_proofs)
       ^
    SlotTable  (HeapSlots as a state machine)
       <--implements--  HeapFile     (+ MCHeapFile; Induction_proofs, HeapFile_proofs)
    PageStore  <--implements--  BufferManager (+ MCBufferManager, BufferManager_proofs)
       :                            (what Transactions has as `mem', `disk' and `WriteBack')
    Catalog    (+ MCCatalog, Catalog_proofs)
       :                            (its `entries' of an index are the entries of a KeyIndex)
    KeyIndex   <--implements--  AccessMethods (+ MCAccessMethods; AccessMethods_proofs,
                                    SequentialFile_proofs)
                                    INSTANCE BTree, ExtendibleHash, RTree, TextIndex, VectorIndex, SequentialFile
    Queries    (+ MCQueries) EXTENDS Executors, Visitor (EXTENDS Parser), Geometry (also under RTree)

### Storage and transactions

* **LockManager** has the three dictionaries as functions with a NoMode for
  absent entries (Python deletes an entry that becomes empty; nothing reads the
  difference) and, for each transaction, where its thread is. The code runs under one
  mutex, so one round of the loop in `acquire()` is one action: `Attempt` is the
  disjunction of its exits (`AlreadyHeld`, `Grant`, `Deadlock`, `TimedOut`, `Sleep`),
  reached from the call (`Acquire`) or from the condition (`Resume`). `notify_all()`
  makes every sleeper `awake`; an awake thread has not got the mutex yet, and others may
  come first. `HasCycle` says that the asker can reach itself in the wait-for graph;
  **CycleSearch** has the recursive search of the code, and `SearchIsHasCycle` compares
  them in every reachable state. They are apart because the provers accept no RECURSIVE
  operator in a module with proofs.
* **RowLocks** is strict two-phase locking without waiting: locks are granted
  when compatible, get stronger, and go all at once.
* **HeapSlots** is a heap file as a table of slots: `Empty`, a row, or the RID
  that a moved row's slot forwards to; `Insert`, `Delete`, `Update`, `Get`, `Stored` are
  what the file's operations do to it.
* **Transactions** has sessions (threads), tables as the pool shows them (`mem`)
  and as the files have them (`disk`), the log, and the transaction manager's thread-local
  state. One action is what a thread does under the table's latch, or one wait for a lock:
  INSERT is one action plus the wait for a lock on a reused slot (`InsertRow`,
  `WaitNewRow`); a scan gives a row (`NextRow`), waits for its lock (`LockRow`) and reads
  it again (`Reread`); matched rows are changed one by one (`ApplyDelete`, `ApplyUpdate`).
  `CommitFlush` and `Commit`, and each undo step, `AbortFlush` and `Abort`, are apart, so
  that the process can die between them. `WriteBack` is the eviction of a page, at any
  time, also during recovery. `Crash` loses the pool and every thread; recovery is then a
  sequence of actions of its own, and `Crash` can hit that too. `committed` is a history
  variable: the bag of rows that the committed transactions leave.
* **HeapFile** has pages with headers, slots and bytes, in units of the smallest row:
  first-fit over pages from `_page_hint`, reuse of EMPTY slots, compaction, shrinking
  and relocating updates, forwarding. A row is written as as many copies of its value as it
  is long, so a read of another row's bytes is seen (`Garbled`). One initial state is the
  page whose header never reached the disk. `ImplementsSlotTable` shows that
  the file implements **SlotTable**, so that Transactions may use the slots.
* **BufferManager** has frames with page, bytes, pin count, dirty bit and access
  history, the page table and the file. `Modify` is the one external action:
  clients change a page they have pinned, and tell so when they unpin it.
  **PageStore** is what it promises: a current and a stable value per page; the
  current one changes only when somebody who has the page open writes, the stable one is
  overwritten by it whenever the pool likes, and a crash makes the
  current ones equal to the stable ones.

### The catalog and the access methods

* **Catalog** has one table with one column that matters, UNIQUE and nullable, its rows by RID,
  `uniques` (`_unique_values`), `indexes` by `index_id` with their entries, row locks, and
  for each session its phase, undo list, open index scan and the rows it has seen. `Becomes` is what
  `register_insert`, `unregister_delete` and `register_update` make of the derived state when a row
  changes: `WithEntry` serves index after index until one raises (`Stops`: NULL in a
  BTREE or HASH index, a B+ tree without the entry it is to delete), and the UNIQUE values follow
  only if none has. An insert or an update that raises has changed the row by then, a delete has not
  (`StaysUnindexed`). `UndoStep` is `undo_insert`, `undo_delete` or `undo_update`; one that raises ends the abort,
  drops the rest of the list and frees the locks, as `abort()` does. `OpenScan` and `ReadNext` are
  IndexScan: RIDs under the latch, rows under their locks later. `CreateTable`, `DropTable`, `CreateIndex`, `DropIndex` are DDL, `Load` the values at a
  start, `Rebuild` is `rebuild_derived`. `faults` is a history variable: which of the two
  known ways to lose track have been taken, an index that raised (`not indexed`) or a value
  brought in that another row has (`taken twice`).
* **KeyIndex** is what an access method promises: a set of entries; an insert adds
  its entry, a delete removes it, one that raises changes nothing, and a method with an update of its own may
  end between taking the old entry out and putting the new one in.
* **AccessMethods** opens one file, of any kind, as the catalog would, and lets statements insert,
  delete and update rows in any order, with saves that fail, restarts from the file, rebuilds and reorganisation
  where the kind has them. An operation runs under the latch of its table and is one action. The modules it
  instantiates have what is inside:
  **BTree** (`index/btree/`: bytes of a page, the fairest split point, splits up to a new root, loans from and merges with
  siblings, the chain of leaves, search, ranges, predecessor), **ExtendibleHash** (buckets with reused slots, splits, doubling
  of the directory, its greatest depth), **RTree** (choice of subtree, linear split, boxes on the way up, emptied pages, and the reads of
  `spatial_scan.py`), **TextIndex** (GIN postings, lengths and norms; SPIMI's
  blocks and their merge; which documents BM25 and TF-IDF find), **VectorIndex** (IVF lists, HNSW labels
  and the growth of the graph, the extractor with a codebook per modality, and the catalog's part in all of them),
  **SequentialFile** (pages in key order, shifts, reuse, overflow chains, reorganisation past a threshold, and the clustered index).

### Queries

* **Parser** has the grammar as data: a rule is a node with defaults and the steps that take
  tokens and fill fields; the scanner joins two words where the code does, and the parser is greedy. **Visitor** has the
  semantic checks of `visitor.py`, the rule of the rewriter, and what INSERT stores.
  **Executors** has the plan nodes as operators on streams of rows, a stream being a sequence that may end in
  `Raised`: Grace hash join with repartitioning and chunked probing, nested loop and sort-merge
  joins, external sort, hash, sort and group aggregation, filter, limit, projection. **Geometry** has points, boxes and
  polygons on whole coordinates.
* **Queries** takes a statement from its lexemes to its answer: `Parse`, `Check`, then one action
  per plan node that `build_select_plan()` puts in (`SeqScan`, `IndexScan`, `SpatialIndexScan`,
  `TextIndexScan` or `Join`; `Where`, `TextSearch`, `VectorSearch`, `Group`, `Sort` or `KNNScan`, `Cut`, `Project`), or
  `Insertion`. Rows that an index gives come in any order. The second half of the module is the reference: what the
  statement asks for (`Answers`), from its syntax tree and the tables alone.

## 3. What is checked

Every listed run is a `.cfg` of an `MC*` module. The passing ones explore the whole
state space of their instance; the violations stop at the counterexample.

| run | question | instance |
|---|---|---|
| `locks` | safety of the lock manager and refinement of RowLocks | 3 threads, 3 rows |
| `locks_live` | every lock request ends | 3 threads, 2 rows, no symmetry |
| `recovery` | all or nothing, FORCE, with crashes at any point | 2 sessions, 4 slots, 3 rows |
| `isolation` | undo lists, matched rows, locked rows, committed reads, with statements failing anywhere | 2 sessions, 3 slots |
| `buffer_pool` | safety of the pool and refinement of PageStore | 2 clients, 2 frames, 3 pages, K = 2 |
| `heap_file` | page layout, forwarding, refinement of SlotTable | 2 pages of 5 units, rows of 1 and 2 |
| `access_methods` | structure, answers and refinement of KeyIndex, for every kind of file | a few entries to a page, up to 8 pages; 4 to 12 rows of each kind |
| `catalog` | indexes, UNIQUE values and index scans among transactions, DDL and restarts | 2 sessions, 2 slots, 2 values and NULL, one index, a B+ tree or GIN |
| `queries` | answers of plans, joins, sorts and groups that spill, the front end | three tables of up to 5 rows, memory for 2 rows, 2 partitions |
| `restarted_ids`, `failed_inserts`, `repeated_keys` | the three findings | |

What the properties say:

* `NoDeadlock`: no set of transactions in which each waits for a member. The search
  runs only when a request begins to wait; the property says that grants made while
  others sleep never close a circle behind their backs. `VictimsAreGuilty`: who gets
  a DeadlockError would have waited for itself. `NoLostWakeup`: a thread that sleeps has a blocker.
* `WaitsEnd`: every request is granted, refused or times out.
* `AllOrNothing`: when no transaction is active and recovery is over, each table
  holds exactly the rows that the committed transactions leave, as a bag: a recovered row may come
  back under another RID. `Forced`: a slot that differs from the disk
  belongs to a transaction that is active, will flush it when it ends, and has logged it; what a
  COMMIT or an ABORT record finishes is on disk.
* `UndoListsExplainTables`: in every state, not only quiet ones, the tables are the
  committed rows plus what the undo lists say was changed. `MatchesHold`: the rows a statement has matched
  are still what they were when it uses them. `LockedRowsStay`: nobody, undo steps of
  other transactions included, changes a row that a transaction has locked.
  `ReadsAreCommitted`: no statement reads another transaction's uncommitted row.
* `PinsAreUsers`, `PageTableAgrees`, `CleanIsOnDisk`, `EvictsTheColdest`: no page is taken
  from a user or dropped unsaved; the victim has the oldest K-th last access, pages with fewer than K
  accesses first.
* `Disjoint`, `ChainsEnd`: the areas of a page, and the forwarding pointers.
* `IndexesAgree`: as long as no index has raised, each has exactly the rows with a key.
  `UniquesAgree`: without either fault, the values taken are those of the rows, each of one row. `ReadsRepeat`: a row that an index scan has
  given stays as it was read while its reader runs. They are stated up to `faults` because the code does lose track in
  those two ways; everything else that could make them fail, undo and DDL in between included, is covered.
* `LookupsComplete`: searches, ranges, rankings and nearest neighbours give what a look at every
  row would; text and vector indexes agree with their files, and a text index with what SPIMI builds from the same rows.
  `LeavesChained`, `BucketsShared`, `BoxesTight`, `PagesInOrder` are the structure of the B+ tree, the hash index, the R-tree and the
  sequential file, each as the searches rely on it. Of an R-tree `LookupsComplete` says that a window gives exactly the rows in it and
  that a delete finds its row; `SpatialAnswers` adds what is made of windows, polygons and the nearest k.
* `JoinsAgree`: the spilled join, the nested loop and the merge give the same pairs, each once.
  `SortsStable`: order, stability and groups. `AnswersMatch`: the statement parsed is the one
  written, what breaks a rule is refused, and the answer is right for every plan: the rows, their number after LIMIT, and their
  order. Where the code knowingly or not does otherwise, the statement is left out by
  `Regular`, which lists the five cases; they are among the counterexamples below.
* `ImplementsRowLocks`, `ImplementsPageStore`, `ImplementsSlotTable`, `IsKeyIndex`: refinements.

**Workloads.** Transactions is parameterised by `Workloads`: each initial state
picks one, which names the statements clients may run, the rows their WHERE
selects, the initial rows, whether updates can move rows, whether statements fail,
and how many transactions, statements and crashes there are. A run
explores all behaviours of each of its workloads. The passing ones were
chosen around the code's known weak points, which each have a workload of their own below:

* `recovery`: two transactions with up to two INSERTs, DELETEs or UPDATEs
  each over two rows, and a crash (`TwoWriters`); the same with three crashes and without
  deletes (`DyingOften`), because a delete recovered twice goes wrong; and updates that abort, with
  three crashes (`DyingInAborts`).
* `isolation`: readers against inserts and updates (`Readers`); a full table
  in which a deleted slot is the only one free, with deletes (`FullTable`); updates that
  move rows (`MovingRows`), by one session, because a scan can see a moved row twice.

Queries is parameterised by `Requests` in the same way: what is written, what it says, whether it is to be answered, refused
or is malformed, and the tables it runs over. MCQueries writes each statement in one or both of the ways the grammar has, and
also without its first word, without its end and with one word more.

**Bounds.** Two or three actors suffice for the hazards listed: a deadlock of
three, a barging third thread, an undo against one other transaction. `MaxBegin` and the
workload's `begins` bound transactions per process, `stmts` the statements of one,
`dies` the crashes, `serves` the processes that accept clients. Slots are finite, so an
INSERT with no free slot waits, where the code would add a page: the runs that need a
free slot have one more than rows. Every slot counts as a page of its own for
`WriteBack` and `Crash`: a coarser grouping of slots on pages gives a subset of these
behaviours. `MaxAccess` bounds the accesses counted since the pool was empty; five let the
histories of both frames pass K. `MaxPages` bounds pages: three against two frames cause
evictions, with all frames pinned as a reachable case; two in the heap file are
enough for relocation, reuse and first-fit past a full page.

In Catalog `MaxIndexes` bounds the indexes ever made and `MaxChanges` the changes of a transaction: two, so that an undo step has another behind it.
`ValuesOnce` ends the exploration behind a value taken twice, where no property says anything any more. In AccessMethods `TreePages` and `BoxPages`
bound the pages of the trees: two entries to a leaf make trees of three levels out of five keys, which loans, merges and a
shrinking root need. `MaxDepth` bounds the directory (8 entries), with six keys of which three share all the bits it has, so that it fills up. `BlockDocs` is the size of a block of SPIMI.
`MaxElements` is the capacity of a new graph, two, so that it grows; `MaxLabels` bounds the labels it ever gives.
`MaxOverflow` bounds the overflow file and `Threshold` is the share of overflow at which the file reorganises itself.
In Queries `MemoryRecords`, `Partitions` and `MaxDepth` (repartitioning) are the constants of the operators, as small as
they can be; `FirstRadius` and `MaxRadius` are the first and the last circle of a nearest-rows search, and the world is `World`, 7 by 7 points.
Answers of more than four rows before LIMIT are compared by the properties of the operators only.

**Deadlock checking** is off for the lock manager, Transactions and the heap file: all transactions may have ended,
all bounds may be reached, or the file may be full.

**Fairness.** `FairSpec` of LockManager: weak fairness of `Resume(t)` (a thread
woken from a condition eventually gets the mutex), strong fairness of `ReleaseAll(t)` (a
transaction that is again and again able to end does end: implicit ones end with their
statement, explicit ones with END or an error, and each returns to a state where it can after every request).
Nothing is assumed about
timers. A thread may find the lock taken each time it wakes; that the wait still ends
is because each transaction ends once and the set of transactions is finite.
With an endless supply of new readers a writer could wait for ever: the code has no queue.
The other modules have no liveness: their operations run to their end in one call.

### Findings

1. `restarted_ids`: ids restart at 1 while the log is kept
   (`transaction/transaction_manager.py:28`), so a loser can count as finished.
2. `failed_inserts`: a row with NULL in a column with a BTREE or HASH index is stored and logged before the
   index refuses it; `undo_insert()` raises in the same place, before it deletes the row (`transaction/row_undo.py:13-20`), and the
   loop over the undo list ends (`transaction_manager.py:121`). The row stays, and so do all earlier changes of the transaction.
3. `repeated_keys`: entries of one key that straddle a split of a B+ tree leaf are not all found, as the
   search goes to the leaf on the right (`index/btree/btree.py:48`). In the program itself, 1000 rows with three values in an
   indexed column give 130, 96 and 113 rows to the three equality queries instead of 334, 333 and 333.

Further counterexamples. Those with a configuration of their own are run with
`tlc -config X.cfg M`; for the others, replace the properties in a copy of the configuration named.

| configuration and module | violated | what happens |
|---|---|---|
| `Transactions_abort_deletes`, MCTransactions | AllOrNothing | aborting a DELETE of two rows loses one: undo runs backwards, the row put back first takes the first free slot, and `undo_delete()` takes that slot in use for "already restored" (`transaction/row_undo.py:25`) |
| `Transactions_recover_twice` | AllOrNothing | a crash during recovery duplicates a row: the RID of a re-inserted row is remembered only in memory (`transaction/recovery.py:70`), although lines 7-8 call a second recovery harmless |
| `Transactions_update_delete` | AllOrNothing | UPDATE then DELETE of one row, then a crash before either reached the disk: undoing the delete compares with the row as it was deleted, finds the older version the disk still has, and inserts the deleted one beside it |
| `Transactions_moved_tables` | AllOrNothing | `moved` has no table in its key; RIDs of two tables collide |
| `Transactions_relocate_crash` | AllOrNothing | a relocating UPDATE with one of its two pages on disk |
| `Transactions_dirty_read` | ReadsAreCommitted | an INSERT reuses the slot of an uncommitted DELETE and waits for its lock; when the deleter commits, a waiting SELECT may get the lock first |
| `Transactions_seen_twice` | MatchedOnce | a scan meets a row before and after an update moves it |
| Catalog, INVARIANT `OneRowPerValue`, without the CONSTRAINT | | UPDATE to a value that another row has is not refused (`catalog/catalog.py:976-988`); and a DELETE frees its value before it commits, so that its abort puts the row back beside a new one |
| Catalog, INVARIANT `ScansMatch` | | an index scan waits for a row whose key changes meanwhile and returns it (`query/executor/access/index_scan.py:39`) |
| HeapFile, PROPERTY `InsertsUnderOneRid` | | a moved row is deleted by its new RID, its old slot still forwards there (`storage/heap/heap_file.py:171`), and an insert reuses that slot: the new row answers to two RIDs |
| HeapFile, PROPERTY `UpdateReturnsOriginal` | | `update()` returns the new RID; its comment says the original |
| HeapFile, PROPERTY `GrowsOnlyWhenFull` | | only pages with an EMPTY slot are compacted, so the bytes that a shrinking update gave up are not found |
| AccessMethods, INVARIANT `FindsPredecessor` | | `predecessor()` of a key before the leaf's first gives nothing, though the leaf on the left has one |
| AccessMethods, INVARIANT `FittingKeysTaken`, with `KeyLen` of different lengths | | an entry that would fit a page of its own is refused when no split point suits both halves |
| `AccessMethods_merge`, MCAccessMethods | LeavesChained | a delete only borrows an entry for a leaf, but its parent, left underfull by an inner split, is reported too (`index/btree/btree.py:279`) and merged with a sibling as full as itself; with the key between them that is one key too many for the page, `_rebuild_internal()` raises `IndexCorruptionError` half way (`btree.py:382-388`, `:433-444`) and leaves two pages with the same children. It needs an inner page for an even number of keys; the program does it with VARCHAR keys of 10 characters and some 10,800 rows |
| AccessMethods, INVARIANT `OneCodebook` | | a query teaches the extractor a modality (`vector_search.py:85`), the codebook is not saved, and rows after a restart get another one |
| Queries, INVARIANT `WhereKept` | | SCORE over a text index ignores any WHERE but MATCH (`plan_builder.py:152`) |
| Queries, INVARIANT `OneRowPerGroup` | | aggregates without GROUP BY over spilled input give one row for each partition (`hash_aggregate.py:85`) |
| Queries, INVARIANT `JoinsOn` | | ON that names the joined table first compares the wrong columns (`plan_builder.py:68`) |

Other divergences met while modelling, which the models have as the code has them: ORDER BY a distance ignores DESC; `SELECT *,
SIMILARITY_SCORE()` is always refused; an R-tree window compares only the least corner of a rectangle or polygon (`rtree.py:155`);
DROP TABLE takes no row locks; the system table of columns does not keep NOT NULL (`catalog/column.py:56`); the overflow chains of a sequential file are lost at a
restart; keys of equal hash beyond a bucket fill the directory.

## 4. What is proved

For every finite set of clients, any page contents, number of pages and frames and K, for
any sets of transactions and resources, for any sets of sessions, tables, slots, rows, values and index types, any
number of crashes and any of the bounds. The only assumptions are those
that the modules name: of BufferManager (the numbers are naturals, at least one frame and K at least 1, the
clients are finitely many, the blank page is a page content), of Catalog (`NullIsNoKey`: NULL is not a key;
`NoneIsNothing`: the absence of a row or an owner is neither a value nor a session), of HeapFile (`SizeAssumption`,
`LayoutAssumption`: sizes are positive; `RowsFit`: a row fits an empty page, which `insert()` checks by raising;
`RowsAreNoRids`), of HeapSlots (`RidAssumption`: finitely many slots, numbered; `SlotAssumption`: a row is not a
number nor the empty slot), of Transactions (`BoundAssumption`, `WorkloadsAssumption`) and of AccessMethods, for hash indexes
(`HashesAssumption`: hashes, lengths, the greatest depth and the room of a page are naturals, a slot takes up room, a row is a key of the hash with a RID), for R-trees
(`PointsAssumption`: points and windows have whole coordinates; a page has at least two entries, since `_promote_root` raises if a new root
cannot take both halves, `rtree.py:121-124`, and a page of the engine's has over a hundred)
and for sequential files (`RowsAssumption`: a row is a key, a natural, and a length, which is positive; the room of a page and of a slot are naturals).

* **LockManager_proofs**: `TypeCorrect`, `TablesAgreeAlways`, `LocksCompatible`,
  `DeadlockFree`, `NoWakeupLost`, `VictimsGuilty`, `RefinesRowLocks`. The inductive
  invariant is the conjunction of the five checked invariants. `NoDeadlock` and
  `NoLostWakeup` are not inductive alone: a grant adds edges from
  sleepers to the holder, and the reason why no circle arises is that the grantee has no
  request left (`TablesAgree`), so it waits for nobody. A sleep is the only step that adds an edge
  out of the sleeper, and the search has refused circles through it (`NoNewDeadlock`).
* **BufferManager_proofs**: `PoolInvariant`, `TypeCorrect`, `PageTableCorrect`,
  `PinsCorrect`, `CleanFramesOnDisk`, `PoolIsAPageStore`, `TheColdestLeaves`. The invariant adds two facts
  to the checked ones: empty frames are clean, and nothing beyond the end of the
  file is cached. `PinsCorrect` says that the frame an eviction
  takes has no user; with `CleanIsOnDisk` an eviction writes what would
  be lost, and so changes nothing but the stable copy in PageStore. `TheColdestLeaves` has an invariant of its own, `ClockInv`:
  references lie in the past, and no two frames are referenced at the same time, so that the K-th references of two candidates
  never tie and the frame chosen is the coldest whatever order the scan for it takes.
* **Catalog_proofs**: `TypeCorrect`, `IndexesCorrect`, `UniquesCorrect`, `ReadsRepeatable`. The first three are inductive, given types: the lemmas
  `IndexesFollow` and `BecomesUnique` say that serving the indexes and the values after a change of one row keeps them in step
  with the rows, whatever the change and whoever makes it. `ReadsRepeat` is not inductive: that nobody changes a row that was read rests on the locks. The invariant `LocksOK` adds
  that idle sessions have nothing to undo and nothing seen (`IdleOK`), that a row with a writer has no other reader
  (`SharedOK`), that every change to be undone is of a row its transaction has locked (`OwnedOK`), and that a row seen
  is one with a shared lock of its reader (`SeenOK`). Then a write needs a lock that the reader excludes, and an undo step is of a
  row its transaction has locked or, putting a deleted row back, of an empty slot, which nobody has seen a row in.
  `OwnedOK` needs `faults = {}`: an insert whose index raises never gets to lock its row.
* **HeapFile_proofs**: `HeapInvariant`, `TypeCorrect`, `AreasDisjoint`, `ChainsAlwaysEnd`, `ImplementsTheTable`. The
  bytes of a page (`Disjoint`) and the forwarding chains (`ChainsEnd`) are correct together or not at all, since a DATA
  record that moves gives up bytes and makes a pointer. `HeapInv` is that every page is laid out (`FileOK`: the slots in use are
  readable, within the row area and apart), and that every pointer leads to a slot in use, with a rank that decreases along
  it (`Chained`), so that no circle closes. `ChainsAlwaysEnd` then needs an induction along a chain; *Induction_proofs* does it without the
  library's induction theorems (their parameter is an operator): `FollowingReaches` takes the least number of steps of a
  set of naturals. `ImplementsTheTable` numbers the RIDs and shows that each operation is the operation of SlotTable on
  the numbers, or changes no slot: that is what entitles Transactions, built of the same operators, to call its tables heaps.
* **AccessMethods_proofs**. *For hash indexes*: `HashLookupsComplete`, `BucketsAlwaysShared`, `HashIsKeyIndex`, for any hash
  function, lengths of keys, room of a page and depth of the directory, and so for any number of splits in one insert. The invariant `HashInv` is that every bucket
  is well formed (`BucketOK`: the bytes given out are those of its slots and fit the page, no entry is there twice), that the
  directory leads right (`Leads`: two pointers share a bucket exactly when they agree on the bits of its depth, and both sides tell the same depth), and that
  every entry is in the bucket that its key leads to (`EntriesLed`). A split has three ways to go wrong, and a lemma for each: the grown
  directory must lead where the old one did (`GrownLeads`), the pointers handed over must be those with the next bit (`HandedOverLeads`), and
  `insert()` throws away what the bucket answers when it puts the entries back (`extendible_hash_index.py:112`, `:114`): none is lost, since the entries of a page fit any page
  they go to, with as many of their old neighbours as come along (`PutKeepsSlim`, `RedistributedIs`). That a full directory means as many rows as fit a bucket with all their bits equal
  (`DeepestBucket`, `FullCount`) is for entries of one length only: a shorter entry that takes over a slot
  loses the rest of its bytes until the bucket splits.
  *For R-trees*: `BoxesAlwaysTight`, `RTreeLookupsComplete`, `RTreeIsKeyIndex`, for any points and any number of entries on a page, and so for trees of any
  height. The invariant, `TreeInv`, is that the pages reached from the root form a `Tree`: pages hang on levels, leaves at level 0 (`Levels`, with a rank that falls
  by one from page to child, so that there is no circle and all leaves are equally deep), each below exactly one
  entry (`Hung`, `Apart`, which also says that no row is in two leaves), none over full or empty but a root that is a leaf (`Filled`), with the box above
  each the box of its entries (`Tight`), and every row of a leaf with the box of its point (`Pointed`). `BoxesTight` alone is not inductive: a split would break a box
  kept by some second parent, and nothing in it forbids one. In the middle of an operation this is not so: the page just written has a new sibling that
  hangs nowhere yet, and the box above it is out of date. So `Forest` has a set of tops and a set of pages whose boxes
  may be wrong, `RewrittenKeeps` says what writing one page does to a forest, and the descents are followed along their ranks:
  `Into` is what an insert has made of the pages when it comes back up to a page (`LeafInto`, `InnerInto`, `InsertedBelow`), `From` the same for a delete
  (`LeafFrom`, `InnerFrom`, `DeletedBelow`), where an emptied page is taken out by its parent. `PlacedSplit` has the linear split: whatever the seeds are
  (two different entries), every entry goes to one half and each half fits its page. That `_shrink_root` looks
  only once is enough (`TopShrunk`): a page below the root is never empty, so the entry that is left leads to a page with entries.
  No window misses a row (`WindowExact`) since the boxes of all pages on the way to it hold its point (`TopReached`), and a delete goes down
  every such way until one has the row (`DeleteFinds`).
* **Transactions_proofs**, for rows of one length (`FixedLength`: no update relocates a row, the initial
  heaps have no forwarding slots): `TypeCorrect`; `ForcedAlways`, from `ForceInv` and from `RestInv`, that
  nobody runs before recovery is over; `LockedRowsAlwaysStay`, from `LockInv`: X locks exclude (`Exclusive`), and a
  session in the middle of a change or an undo holds the lock of the row (`HoldsItsRows`); `MatchedOnceAlways`, from
  `OrderInv`, that a scan moves forward. `MatchesAlwaysHold` and `ReadsAlwaysCommitted` take `SlotsKept` besides: where rows are inserted, no
  slot is emptied under somebody's eyes (no deletes, no failing statement). A row in a slot whose lock was waited for
  is otherwise not the one the lock was meant for; `Transactions_dirty_read` below is what happens then.
* **SequentialFile_proofs**: `PagesAlwaysInOrder`, for files by key and by RID, and `KeyedFileIsKeyIndex`, for any lengths of
  rows, room of a page and share of waste at which the file reorganises itself. The invariant `SeqInv` is that the live slots of every page and the entries of
  every chain are in key order and name what is there (`FileOK`), which needs no more than that, whatever is inserted, shifted, updated and reorganised; and, for
  a file by key, that no key is in it twice (`KeyedOnce`) and that every row fits an empty page. Three things carry the rest. A page
  and its chain merged are their rows and nothing else, so that the scan is a set of rows per page, and an operation on the page a key belongs to changes it by that
  key's row. Reorganisation packs the scan (`Packed`, a recursive function, unfolded row by row): a page that is to be four fifths full has room for the next row, or a new page
  has, since every row fits one. And where pages begin with rows of their own (`regular` in `PagesInOrder`), the target page of a key is the only
  one that can hold it, so a search is the scan filtered; the clustered index knows pages by their smallest live key and gives
  nothing for a key below all of them (`ClusteredIs`), which is what `clustered_index.py:65-71` does. Without `regular` a row whose page has lost its first rows
  may be in another page than a search looks in; the property says so by its hypothesis.
* **Transactions_proofs**, its last part, for rows of one length and `UndoKept`: `AllOrNothingAlways`, that after any
  number of crashes, wherever they fall, the tables recovery leaves are exactly what the committed transactions wrote; and
  `UndoListsAlwaysExplain`, that taking back what the running transactions have in their undo lists gives the committed
  tables. The idea of the invariant: for a set of transactions, `Origin` is the tables as they would be without them (of each slot they changed,
  the `before` of the first record). `BaseInv` says that `Origin` with respect to the losers, those with neither
  a COMMIT nor an ABORT record, is `committed`. What a transaction
  has logged is about slots that it X-locks (`OwnInv`), no two losers have logged changes of one slot (`SoleInv`), and the tables are
  `Origin` without the transaction plus what its undo list says came and minus what it says went (`AccInv`); where nothing is inserted
  the lists have only updates of rows (`ListInv`), so that abort() finds every slot taken. The
  disk has each slot in some version of the log (`DiskInv`); recovery, going backwards over the losers' changes (`RecInv`, `LeftOf`), meets
  a page that has the change or never got it, and both lead to the `before` (`Restored`).
  `UndoKept` is `SlotsKept`, no deletes where statements fail or the process dies, clients served by the first process only where
  it dies (those started after a crash recover and stay idle), and, where both inserts and updates are interrupted by crashes, no WHERE that selects an inserted row.
  It is sufficient, not tight, but each part is there for a counterexample of the next table or of section 3 (`restart_ids`,
  `abort_deletes`, `recover_twice`, `update_delete`). It holds of the workloads with crashes of the run `recovery`
  in which nobody deletes, for any number of crashes instead of the run's two.

Met while proving, found again by TLC, not runs of the project:

| workload of MCTransactions | violated | what happens |
|---|---|---|
| inserts and updates, two crashes | AllOrNothing | recovery undoes the UPDATE of a row that never reached the disk by inserting the old version (`transaction/row_undo.py`), its page is written, the second crash loses `moved`, and the second recovery inserts the row once more |
| inserts and updates, a statement fails, three transactions | UndoListsExplainTables | an UPDATE waits for the lock of a row whose INSERT aborts, and gets the lock of the empty slot; another INSERT uses the slot again and waits; the UPDATE matches this uncommitted row; the INSERT fails, its undo removes the row; the UPDATE writes it back. The comment at `query/plan_builder.py:528` knows only of slots freed by a DELETE |

Only model-checked: `WaitsEnd` (liveness and ENABLED are beyond the prover),
`SearchIsHasCycle` (a RECURSIVE operator; induction over data), Transactions for rows that move
and for the workloads beyond `SlotsKept` and `UndoKept` (`Readers`, `FullTable` and `MovingRows` of the run `isolation`, `TwoWriters` of
`recovery`), HeapFile's three properties that the code violates (above), AccessMethods for the B+ tree (`LeavesChained`, which does not hold
for every room of a page, see `AccessMethods_merge` above), the polygons and nearest rows of an R-tree (`SpatialAnswers`: that as many edges turn left of a point inside as a convex ring
has, and that a circle that holds k rows holds the nearest k, are about lines and square roots, and counting rows that are closer), files by RID, text and vectors (`LookupsComplete` and `IsKeyIndex` of them), and Queries, whose operators
(repartitioning, passes of a sort, the grammar) are RECURSIVE. The descents of the B+ tree are recursive functions, on which the prover works as it does on those of the R-tree, but no proof of them has been made.
The refinement of the transaction model's
storage into HeapFile and BufferManager is by the shared operators of HeapSlots and the
shape of `WriteBack`, not by one composed module; that of the catalog's indexes into AccessMethods is by KeyIndex.

## 5. What is not modelled, and the plan

Left out of the models above:

* torn page writes and a torn last log line; commits that raise; a multi-row INSERT is a transaction of several one-row INSERTs; a change and its log record are one step,
  as no other thread can evict pages of that table between them (the table's pool is used under its latch),
  except inside a relocating update (see the hazards);
* transactions over a sequential file, whose RIDs name other rows after a shift, and its restart;
* rows that change in several columns, two UNIQUE columns or two tables at once in the catalog: each column has its own
  values and indexes in the code, so that they do not meet;
* entries of different lengths in the B+ tree of the listed run, where a merge may overflow a page (`btree.py:368`), and pages whose halves are both
  underfull after an inner split (`AccessMethods_merge`): the listed run has a room, 10 units, where they are not;
* the metric HAVERSINE and its boxes, rounding, the numbers of a text score (0 or 1 here), vectors without whole norms, the
  features of media: real arithmetic or external libraries;
* characters to lexemes, error messages, the text of EXPLAIN (without ANALYZE a plan is only shown), SHOW;
* loaders (they issue the statements that are modelled), the HTTP layer, benchmarks, frontend.

Worth doing next: Transactions with rows that move, where a torn forwarding pointer may close a circle after a crash; proofs for the B+ tree with pages in which `LeavesChained` holds, and
`LookupsComplete` for keys that are not repeated; `SpatialAnswers`;
recovery and the rebuilding of derived state in one model; the shifting RIDs of a sequential
file under transactions.
