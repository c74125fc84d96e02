------------------------ MODULE Transactions_proofs ------------------------
(***************************************************************************)
(* Proofs about transactions over tables whose rows all have the same      *)
(* length, so that an update never moves one: for any number of clients,   *)
(* tables, rows, slots and crashes, with statements that fail or not, a    *)
(* crash during recovery included.                                         *)
(***************************************************************************)
EXTENDS Transactions, Induction_proofs, SequenceTheorems

-----------------------------------------------------------------------------
(* What get() and delete() visit from a slot.                               *)
LEMMA ChainIs ==
  ASSUME NEW h, NEW r \in Rid
  PROVE  IsReach(Chain(h, r), r, Rid, Forwarding(h, Rid), Leading(h, Rid))
<1>1. Chain(h, r) = Following(h, Rid, r)
  BY Zenon DEF Chain, Following, IsForward
<1> QED
  BY <1>1, RidAssumption, FollowingIs

(* Heaps in which no slot forwards: those of tables whose rows all have the *)
(* same length.                                                             *)
FlatHeap == [Rid -> Row \cup {Empty}]

(* A row is where its RID says.                                             *)
LEMMA FlatReads ==
  ASSUME NEW h \in FlatHeap, NEW r \in Rid
  PROVE  ~ IsForward(h, r) /\ Chain(h, r) = {r} /\ Target(h, r) = r /\ Get(h, r) = h[r]
<1>1. \A x \in Rid : ~ IsForward(h, x)
  BY SlotAssumption DEF FlatHeap, IsForward
<1>2. r \in Chain(h, r)
  BY ChainIs DEF IsReach
<1>3. Chain(h, r) \subseteq {r}
  <2> DEFINE C == {r}
  <2>1. r \in C /\ \A x \in C \cap Forwarding(h, Rid) : Leading(h, Rid)[x] \in C
    BY <1>1 DEF Forwarding, IsForward
  <2> HIDE DEF C
  <2>2. Chain(h, r) \subseteq C
    BY <2>1, ChainIs DEF IsReach
  <2> QED
    BY <2>2 DEF C
<1>4. Chain(h, r) = {r}
  BY <1>2, <1>3
<1>5. Target(h, r) = r
  BY <1>1, <1>4 DEF Target
<1> QED
  BY <1>1, <1>4, <1>5 DEF Get

(* Insertions, deletions and updates change that slot and no other.         *)
LEMMA FlatWrites ==
  ASSUME NEW h \in FlatHeap, NEW r \in Rid, NEW row \in Row \cup {Empty}
  PROVE  LET g == [h EXCEPT ![r] = row]
         IN /\ g \in FlatHeap
            /\ Insert(h, r, row) = g
            /\ row = Empty => Delete(h, r) = g
            /\ Update(h, r, row, FALSE) = {[heap |-> g, rid |-> r]}
<1> DEFINE g == [h EXCEPT ![r] = row]
<1>1. g \in FlatHeap
  BY DEF FlatHeap
<1>2. Insert(h, r, row) = g
  BY DEF Insert
<1>3. row = Empty => Delete(h, r) = g
  <2>1. Delete(h, r) = [x \in Rid |-> IF x = r THEN Empty ELSE h[x]]
    <3>1. \A x : x \in Chain(h, r) <=> x = r
      BY FlatReads
    <3> QED
      BY <3>1, Zenon DEF Delete
  <2>2. [h EXCEPT ![r] = Empty] = [x \in Rid |-> IF x = r THEN Empty ELSE h[x]]
    BY DEF FlatHeap
  <2> QED
    BY <2>1, <2>2
<1>4. Update(h, r, row, FALSE) = {[heap |-> g, rid |-> r]}
  BY FlatReads DEF Update
<1> QED
  BY <1>1, <1>2, <1>3, <1>4

-----------------------------------------------------------------------------
(* The workload of the behaviour is one of rows of one length.              *)
FixedLength == /\ ~ workload.moves
               /\ \A t \in Table : workload.initial[t] \in FlatHeap

Places == {"idle", "insert", "scan", "lockrow", "reread", "apply", "newrow", "flushed", "abort", "undone"}
ScanType == [next : Rid \cup {0}, rid : Rid \cup {0}, matches : Seq([rid : Rid, row : Row])]

(* The types, with the sequences as a whole and heaps that never forward.   *)
StoreTypes ==
  /\ mem \in [Table -> FlatHeap] /\ disk \in [Table -> FlatHeap]
  /\ log \in Seq(LogType)

TxnTypes ==
  /\ nextId \in 1 .. MaxBegin + 1
  /\ txn \in [Session -> 0 .. MaxBegin]
  /\ undo \in [Session -> Seq(ChangeType)]
  /\ flushes \in [Session -> SUBSET Table]
  /\ locked \in [Session -> [{"S", "X"} -> SUBSET (Table \X Rid)]]

StmtTypes ==
  /\ pc \in [Session -> Places]
  /\ stmt \in [Session -> Statements \cup {NoStmt}]
  /\ scan \in [Session -> ScanType]
  /\ count \in [Session -> 0 .. workload.stmts]

RecTypes ==
  /\ process \in {"serving", "recovering", "marking"}
  /\ todo \in Seq(DataType)
  /\ losers \subseteq 1 .. MaxBegin
  /\ moved \in [Rid -> Rid]
  /\ crashes \in 0 .. workload.dies

GhostTypes ==
  /\ committed \in [Table -> [Row -> Int]]
  /\ workload \in Workloads
  /\ FixedLength

(* A thread that is not idle runs a transaction, and what it runs is the    *)
(* kind of statement its place is for.                                      *)
RunsStatement(s) ==
  /\ pc[s] # "idle" => txn[s] # 0
  /\ pc[s] = "insert" => stmt[s].op = "insert"
  /\ pc[s] = "newrow" => stmt[s].op = "insert" /\ scan[s].rid \in Rid
  /\ pc[s] \in {"scan", "lockrow", "reread"} => stmt[s].op \in {"select", "delete", "update"}
  /\ pc[s] \in {"lockrow", "reread"} => scan[s].rid \in Rid
  /\ pc[s] = "apply" => stmt[s].op \in {"delete", "update"}

Running == \A s \in Session : RunsStatement(s)

TypeInv == StoreTypes /\ TxnTypes /\ StmtTypes /\ RecTypes /\ GhostTypes /\ Running

-----------------------------------------------------------------------------
(* What a workload and its statements are.                                  *)

(* The fields of a workload.                                                *)
LEMMA WorkloadIs ==
  ASSUME workload \in Workloads
  PROVE  /\ workload.begins \in 0 .. MaxBegin /\ workload.stmts \in Nat /\ workload.dies \in Nat
         /\ workload.insert \subseteq Row /\ workload.update \subseteq Row
         /\ \A w \in workload.where : w \subseteq Row
         /\ workload.initial \in [Table -> Heap]
BY WorkloadsAssumption DEF Workload

(* The fields of a statement.                                               *)
LEMMA StatementIs ==
  ASSUME workload \in Workloads, NEW st \in Statements
  PROVE  /\ st.op \in {"select", "insert", "delete", "update"} /\ st.table \in Table
         /\ st.op \in {"insert", "update"} => st.to \in Row
         /\ st.op \in {"select", "delete", "update"} => st.where \subseteq Row
BY WorkloadIs DEF Statements

(* What a thread that is at work runs.                                      *)
LEMMA StmtIs ==
  ASSUME TypeInv, NEW s \in Session
  PROVE  /\ stmt[s].op # "none" => stmt[s] \in Statements
         /\ stmt[s].op \in {"select", "insert", "delete", "update"} => stmt[s].table \in Table
         /\ stmt[s].op \in {"insert", "update"} => stmt[s].to \in Row
         /\ stmt[s].op \in {"select", "delete", "update"} => stmt[s].where \subseteq Row
<1>1. stmt[s] \in Statements \cup {NoStmt} /\ workload \in Workloads
  BY DEF TypeInv, StmtTypes, GhostTypes
<1> QED
  BY <1>1, StatementIs DEF NoStmt

(* The log records and the changes that statements make.                    *)
LEMMA RecordTypes ==
  /\ \A id \in 1 .. MaxBegin : {Begun(id), Committed(id), Aborted(id)} \subseteq LogType
  /\ \A id \in 1 .. MaxBegin, op \in ChangeOp, t \in Table, r, n \in Rid, b, a \in Row \cup {Empty} :
       Data(id, op, t, r, n, b, a) \in DataType /\ Data(id, op, t, r, n, b, a) \in LogType
  /\ \A op \in ChangeOp, t \in Table, r \in Rid, b, a \in Row \cup {Empty} : Change(op, t, r, b, a) \in ChangeType
  /\ \A rec \in LogType : rec.id \in 1 .. MaxBegin /\ (rec.kind = "DATA" => rec \in DataType)
BY DEF Begun, Committed, Aborted, Data, Change, LogType, DataType, ChangeType

(* How often each row is stored is a number.                                *)
LEMMA StoredType ==
  ASSUME NEW h
  PROVE  Stored(h) \in [Row -> Int]
<1>1. ASSUME NEW v \in Row PROVE Cardinality({r \in Rid : h[r] = v}) \in Nat
  <2>1. {r \in Rid : h[r] = v} \in SUBSET Rid
    OBVIOUS
  <2> QED
    BY <2>1, RidAssumption, FS_Subset, FS_CardinalityType
<1> QED
  BY <1>1 DEF Stored

(* The history variable counts rows.                                        *)
LEMMA ChangedType ==
  ASSUME NEW bag \in [Table -> [Row -> Int]], NEW ch \in Seq(ChangeType)
  PROVE  Changed(bag, ch) \in [Table -> [Row -> Int]]
<1>1. ASSUME NEW S \in SUBSET DOMAIN ch PROVE Cardinality(S) \in Nat
  <2>1. IsFiniteSet(DOMAIN ch)
    BY FS_Interval
  <2> QED
    BY <2>1, FS_Subset, FS_CardinalityType
<1> DEFINE Came(t, v) == Cardinality({i \in DOMAIN ch : ch[i].table = t /\ ch[i].after = v})
           Went(t, v) == Cardinality({i \in DOMAIN ch : ch[i].table = t /\ ch[i].before = v})
<1>2. \A t, v : Came(t, v) \in Nat /\ Went(t, v) \in Nat
  BY <1>1
<1>3. Changed(bag, ch) = [t \in Table |-> [v \in Row |-> bag[t][v] + Came(t, v) - Went(t, v)]]
  BY DEF Changed
<1> HIDE DEF Came, Went
<1>4. \A t \in Table, v \in Row : bag[t][v] + Came(t, v) - Went(t, v) \in Int
  BY <1>2
<1> QED
  BY <1>3, <1>4

(* What the transactions ids have logged up to the i-th record, the last    *)
(* change first.                                                            *)
LeftOf(l, ids, n) ==
  LET upTo[i \in 0 .. Len(l)] ==
        IF i = 0 THEN <<>>
        ELSE IF l[i].kind = "DATA" /\ l[i].id \in ids THEN <<l[i]>> \o upTo[i - 1]
        ELSE upTo[i - 1]
  IN upTo[n]

Kept(l, ids, i) == l[i].kind = "DATA" /\ l[i].id \in ids

(* The recursion of LoserChanges, unrolled: it gives DATA records.          *)
LEMMA LeftUnrolled ==
  ASSUME NEW l \in Seq(LogType), NEW ids
  PROVE  /\ LeftOf(l, ids, 0) = <<>>
         /\ \A i \in 0 .. Len(l) : LeftOf(l, ids, i) \in Seq(DataType)
         /\ \A i \in 1 .. Len(l) : LeftOf(l, ids, i) = IF Kept(l, ids, i) THEN <<l[i]>> \o LeftOf(l, ids, i - 1)
                                                       ELSE LeftOf(l, ids, i - 1)
<1> DEFINE N == Len(l)
           D == Seq(DataType)
           kept(i) == l[i].kind = "DATA" /\ l[i].id \in ids
           upTo[i \in 0 .. N] ==
             IF i = 0 THEN <<>>
             ELSE IF l[i].kind = "DATA" /\ l[i].id \in ids THEN <<l[i]>> \o upTo[i - 1]
             ELSE upTo[i - 1]
<1>1. N \in Nat /\ \A i \in 1 .. N : l[i] \in LogType
  OBVIOUS
<1>2. \A i \in 1 .. N, q \in D : kept(i) => <<l[i]>> \o q \in D
  <2>1. \A i \in 1 .. N : kept(i) => <<l[i]>> \in D
    BY <1>1, RecordTypes
  <2> HIDE DEF kept, N
  <2> QED
    BY <2>1
<1>3. \A i : LeftOf(l, ids, i) = upTo[i]
  BY DEF LeftOf
<1> DEFINE step == [i \in 1 .. N |-> [q \in D |-> IF kept(i) THEN <<l[i]>> \o q ELSE q]]
<1>4. \A i \in 1 .. N, q \in D : step[i][q] = IF kept(i) THEN <<l[i]>> \o q ELSE q
  BY Zenon
<1>5. IsTable(step, N, D)
  <2> HIDE DEF kept, D
  <2>1. ASSUME NEW i \in 1 .. N PROVE step[i] \in [D -> D]
    BY <1>2
  <2>2. DOMAIN step = 1 .. N /\ step = [i \in 1 .. N |-> step[i]]
    OBVIOUS
  <2> HIDE DEF step
  <2> QED
    BY <1>1, <2>1, <2>2 DEF IsTable
<1> HIDE DEF step
<1>6. PICK f : Iterates(f, <<>>, step, N, D)
  <2>1. <<>> \in D
    OBVIOUS
  <2> HIDE DEF D, N
  <2> QED
    BY <1>5, <2>1, IterationExists
<1>7. f \in [0 .. N -> D] /\ f[0] = <<>> /\ \A i \in 1 .. N : f[i] = step[i][f[i - 1]]
  BY <1>6 DEF Iterates
<1>8. \A i \in 0 .. N : f[i] = IF i = 0 THEN <<>>
                               ELSE IF l[i].kind = "DATA" /\ l[i].id \in ids THEN <<l[i]>> \o f[i - 1]
                               ELSE f[i - 1]
  <2> HIDE DEF D, N
  <2>1. \A i \in 0 .. N : i # 0 => i \in 1 .. N /\ i - 1 \in 0 .. N
    BY <1>1
  <2>2. \A i \in 0 .. N : i # 0 => f[i - 1] \in D
    BY <1>7, <2>1
  <2> QED
    BY <1>4, <1>7, <2>1, <2>2, Zenon
<1>9. f = [i \in 0 .. N |-> IF i = 0 THEN <<>>
                            ELSE IF l[i].kind = "DATA" /\ l[i].id \in ids THEN <<l[i]>> \o f[i - 1]
                            ELSE f[i - 1]]
  <2>1. f = [i \in 0 .. N |-> f[i]]
    BY <1>7
  <2> QED
    BY <1>8, <2>1, Zenon
<1>10. upTo = [i \in 0 .. N |-> IF i = 0 THEN <<>>
                                ELSE IF l[i].kind = "DATA" /\ l[i].id \in ids THEN <<l[i]>> \o upTo[i - 1]
                                ELSE upTo[i - 1]]
  BY <1>9, Zenon
<1> HIDE DEF upTo
<1> DEFINE S == {i \in 0 .. N : upTo[i] \in D}
<1>11. upTo[0] = <<>> /\ 0 \in S
  BY <1>1, <1>10
<1>12. \A i \in 1 .. N : upTo[i] = IF kept(i) THEN <<l[i]>> \o upTo[i - 1] ELSE upTo[i - 1]
  <2>1. \A i \in 1 .. N : i \in 0 .. N /\ i # 0
    BY <1>1
  <2> QED
    BY <1>10, <2>1, Zenon
<1>13. ASSUME NEW i \in 1 .. N, i - 1 \in S PROVE i \in S
  <2>1. i \in 0 .. N /\ upTo[i] = IF kept(i) THEN <<l[i]>> \o upTo[i - 1] ELSE upTo[i - 1]
    BY <1>1, <1>12
  <2> HIDE DEF kept, D, N
  <2> QED
    BY <1>2, <1>13, <2>1
<1>14. 0 .. N \subseteq S
  <2> HIDE DEF S, N
  <2> QED
    BY <1>1, <1>11, <1>13, BoundedInduction
<1>15. \A i \in 0 .. N : upTo[i] \in D
  BY <1>14
<1> HIDE DEF D, N
<1>16. \A i \in 0 .. N : LeftOf(l, ids, i) \in D
  BY <1>3, <1>15
<1>17. LeftOf(l, ids, 0) = <<>>
  BY <1>3, <1>11
<1>18. \A i \in 1 .. N : LeftOf(l, ids, i) = IF Kept(l, ids, i) THEN <<l[i]>> \o LeftOf(l, ids, i - 1)
                                             ELSE LeftOf(l, ids, i - 1)
  BY <1>3, <1>12, Zenon DEF Kept
<1> QED
  BY <1>16, <1>17, <1>18 DEF D, N

(* The losers' changes are DATA records.                                    *)
LEMMA LoserChangesType ==
  ASSUME log \in Seq(LogType)
  PROVE  LoserChanges \in Seq(DataType)
<1>1. LoserChanges = LeftOf(log, Losers, Len(log))
  BY DEF LoserChanges, LeftOf
<1>2. \A ids : LeftOf(log, ids, Len(log)) \in Seq(DataType)
  <2>1. Len(log) \in 0 .. Len(log)
    OBVIOUS
  <2> QED
    BY <2>1, LeftUnrolled
<1> QED
  BY <1>1, <1>2

(* The initial states are well typed.                                       *)
LEMMA InitTypeInv == Init /\ FixedLength => TypeInv
<1> SUFFICES ASSUME Init, FixedLength PROVE TypeInv
  OBVIOUS
<1>1. workload \in Workloads
  BY DEF Init
<1>2. StoreTypes
  <2>1. workload.initial \in [Table -> FlatHeap]
    BY <1>1, WorkloadIs DEF FixedLength
  <2> QED
    BY <2>1 DEF Init, StoreTypes
<1>3. TxnTypes
  <2>1. NoLocks \in [{"S", "X"} -> SUBSET (Table \X Rid)]
    BY DEF NoLocks
  <2> QED
    BY <2>1, BoundAssumption DEF Init, TxnTypes
<1>4. StmtTypes
  <2>1. NoScan \in ScanType /\ "idle" \in Places
    BY DEF NoScan, ScanType, Places
  <2> QED
    BY <1>1, <2>1, WorkloadIs DEF Init, StmtTypes
<1>5. RecTypes
  BY <1>1, WorkloadIs DEF Init, RecTypes
<1>6. GhostTypes
  BY <1>1, StoredType DEF Init, GhostTypes
<1>7. Running
  BY DEF Init, Running, RunsStatement
<1> QED
  BY <1>2, <1>3, <1>4, <1>5, <1>6, <1>7 DEF TypeInv

(* What stays when its variables do.                                        *)
LEMMA TypesStay ==
  ASSUME TypeInv
  PROVE  /\ UNCHANGED storeVars => StoreTypes'
         /\ UNCHANGED txnVars => TxnTypes'
         /\ UNCHANGED <<stmtVars, workload>> => StmtTypes'
         /\ UNCHANGED <<recVars, workload>> => RecTypes'
         /\ UNCHANGED ghostVars => GhostTypes'
         /\ UNCHANGED <<recVars, ghostVars>> => RecTypes' /\ GhostTypes'
         /\ UNCHANGED <<txn, pc, stmt, scan>> => Running'
<1>1. UNCHANGED storeVars => StoreTypes'
  BY DEF TypeInv, StoreTypes, storeVars
<1>2. UNCHANGED txnVars => TxnTypes'
  BY DEF TypeInv, TxnTypes, txnVars
<1>3. UNCHANGED <<stmtVars, workload>> => StmtTypes'
  BY DEF TypeInv, StmtTypes, stmtVars, Statements
<1>4. UNCHANGED <<recVars, workload>> => RecTypes'
  BY DEF TypeInv, RecTypes, recVars
<1>5. UNCHANGED ghostVars => GhostTypes'
  BY DEF TypeInv, GhostTypes, ghostVars, FixedLength
<1>6. UNCHANGED <<txn, pc, stmt, scan>> => Running'
  BY DEF TypeInv, Running, RunsStatement
<1>7. UNCHANGED <<recVars, ghostVars>> => RecTypes' /\ GhostTypes'
  BY <1>4, <1>5 DEF ghostVars
<1> QED
  BY <1>1, <1>2, <1>3, <1>4, <1>5, <1>6, <1>7

(* A transaction begins, a statement starts.                                *)
LEMMA StartTypes ==
  ASSUME TypeInv, NEW s \in Session, Begin(s) \/ Start(s)
  PROVE  TypeInv'
<1>0. workload \in Workloads /\ log \in Seq(LogType)
  BY DEF TypeInv, GhostTypes, StoreTypes
<1>1. CASE Begin(s)
  <2>1. nextId \in 1 .. MaxBegin /\ nextId + 1 \in 1 .. MaxBegin + 1 /\ nextId # 0
    BY <1>0, <1>1, WorkloadIs, BoundAssumption DEF Begin, TypeInv, TxnTypes
  <2>2. StoreTypes'
    <3>1. Append(log, Begun(nextId)) \in Seq(LogType)
      BY <1>0, <2>1, RecordTypes
    <3> QED
      BY <1>1, <3>1 DEF Begin, TypeInv, StoreTypes
  <2>3. TxnTypes'
    BY <1>1, <2>1 DEF Begin, TypeInv, TxnTypes
  <2>4. StmtTypes'
    BY <1>0, <1>1, WorkloadIs DEF Begin, TypeInv, StmtTypes, Statements, ghostVars
  <2>5. Running'
    BY <1>1, <2>1 DEF Begin, At, TypeInv, Running, RunsStatement, TxnTypes
  <2> QED
    BY <1>1, <2>2, <2>3, <2>4, <2>5, TypesStay DEF Begin, TypeInv, ghostVars
<1>2. CASE Start(s)
  <2>1. PICK st \in Statements :
          /\ stmt' = [stmt EXCEPT ![s] = st]
          /\ flushes' = [flushes EXCEPT ![s] = IF st.op = "select" THEN @ ELSE @ \cup {st.table}]
          /\ pc' = [pc EXCEPT ![s] = IF st.op = "insert" THEN "insert" ELSE "scan"]
    BY <1>2 DEF Start
  <2>2. st.op \in {"select", "insert", "delete", "update"} /\ st.table \in Table
    BY <1>0, StatementIs
  <2>3. TxnTypes'
    BY <1>2, <2>1, <2>2 DEF Start, TypeInv, TxnTypes
  <2>4. StmtTypes'
    <3>1. NoScan \in ScanType
      BY DEF NoScan, ScanType
    <3>2. count' \in [Session -> 0 .. workload'.stmts]
      BY <1>0, <1>2, WorkloadIs DEF Start, TypeInv, StmtTypes, ghostVars
    <3>3. pc' \in [Session -> Places] /\ stmt' \in [Session -> Statements' \cup {NoStmt}]
      BY <1>2, <2>1 DEF Start, TypeInv, StmtTypes, Statements, ghostVars, Places
    <3>4. scan' \in [Session -> ScanType]
      BY <1>2, <3>1 DEF Start, TypeInv, StmtTypes
    <3> QED
      BY <3>2, <3>3, <3>4 DEF StmtTypes
  <2>5. Running'
    <3> SUFFICES ASSUME NEW u \in Session PROVE RunsStatement(u)'
      BY DEF Running
    <3> QED
      BY <1>2, <2>1, <2>2 DEF Start, At, TypeInv, Running, RunsStatement, StmtTypes
  <2> QED
    BY <1>2, <2>3, <2>4, <2>5, TypesStay DEF Start, TypeInv, ghostVars
<1> QED
  BY <1>1, <1>2

(* A scan that moves on.                                                    *)
LEMMA ScanMoves ==
  ASSUME scan \in [Session -> ScanType], NEW s \in Session, NEW r \in Rid \cup {0}
  PROVE  /\ [scan EXCEPT ![s].next = r] \in [Session -> ScanType]
         /\ [scan EXCEPT ![s].next = r, ![s].rid = r] \in [Session -> ScanType]
<1> DEFINE Q == Seq([rid : Rid, row : Row])
<1>1. ScanType = [next : Rid \cup {0}, rid : Rid \cup {0}, matches : Q]
  BY DEF ScanType
<1> HIDE DEF Q
<1>2. [scan EXCEPT ![s].next = r] \in [Session -> ScanType]
  BY <1>1
<1>3. [scan EXCEPT ![s].next = r, ![s].rid = r] \in [Session -> ScanType]
  BY <1>1
<1> QED
  BY <1>2, <1>3

(* The list of its matches changes.                                         *)
LEMMA MatchesMove ==
  ASSUME scan \in [Session -> ScanType], NEW s \in Session, NEW q \in Seq([rid : Rid, row : Row]),
         \/ scan' = [scan EXCEPT ![s].matches = q]
         \/ \E r \in Rid : scan' = [scan EXCEPT ![s] = [@ EXCEPT !.rid = r, !.matches = q]]
  PROVE  /\ scan' \in [Session -> ScanType] /\ scan'[s].matches = q
         /\ \A u \in Session \ {s} : scan'[u] = scan[u]
<1> DEFINE Q == Seq([rid : Rid, row : Row])
<1>1. ScanType = [next : Rid \cup {0}, rid : Rid \cup {0}, matches : Q] /\ q \in Q
  BY DEF ScanType
<1> HIDE DEF Q
<1> QED
  BY <1>1

(* A session that moves on: the statements of the others run as before.     *)
LEMMA OthersRun ==
  ASSUME TypeInv, NEW s \in Session, RunsStatement(s)',
         \A u \in Session \ {s} : txn'[u] = txn[u] /\ pc'[u] = pc[u] /\ stmt'[u] = stmt[u] /\ scan'[u] = scan[u]
  PROVE  Running'
<1>1. \A u \in Session \ {s} : RunsStatement(u)'
  BY DEF TypeInv, Running, RunsStatement
<1> QED
  BY <1>1 DEF Running

(* The lock of a new row.                                                   *)
LEMMA LockTypes ==
  ASSUME TypeInv, NEW s \in Session, NEW m \in {"S", "X"}, NEW t \in Table, NEW r \in Rid
  PROVE  Locking(s, m, t, r) \in [Session -> [{"S", "X"} -> SUBSET (Table \X Rid)]]
BY DEF TypeInv, TxnTypes, Locking

-----------------------------------------------------------------------------
(* What a step that writes a row does, when no slot forwards: it changes    *)
(* one slot, and logs that.                                                 *)
Held == Row \cup {Empty}

Puts(t, r, v) == mem' = [mem EXCEPT ![t] = [@ EXCEPT ![r] = v]]

Logs(s, op, t, r, before, after) == log' = Append(log, Data(txn[s], op, t, r, r, before, after))

(* Of one thread, in its transaction.                                       *)
Writes(s, op, t, r, before, after) ==
  /\ txn[s] \in 1 .. MaxBegin /\ op \in ChangeOp /\ t \in Table /\ r \in Rid
  /\ before \in Held /\ after \in Held
  /\ Puts(t, r, after) /\ Logs(s, op, t, r, before, after)

(* What one write does to the types of the tables, the log and the undo     *)
(* list.                                                                    *)
LEMMA WriteTypes ==
  ASSUME TypeInv, NEW s \in Session, NEW op, NEW t, NEW r, NEW before, NEW after,
         Writes(s, op, t, r, before, after), UNCHANGED disk
  PROVE  /\ StoreTypes'
         /\ Change(op, t, r, before, after) \in ChangeType
         /\ \A u \in Table, q \in Rid : mem'[u][q] = IF u = t /\ q = r THEN after ELSE mem[u][q]
<1>1. mem \in [Table -> FlatHeap] /\ log \in Seq(LogType)
  BY DEF TypeInv, StoreTypes
<1>2. t \in Table /\ r \in Rid /\ after \in Held /\ mem' = [mem EXCEPT ![t] = [@ EXCEPT ![r] = after]]
  BY DEF Writes, Puts
<1>3. mem[t] \in FlatHeap /\ [mem[t] EXCEPT ![r] = after] \in FlatHeap
  BY <1>1, <1>2 DEF FlatHeap, Held
<1>4. mem' \in [Table -> FlatHeap]
  BY <1>1, <1>2, <1>3
<1>5. Data(txn[s], op, t, r, r, before, after) \in LogType
  BY DEF Writes, Data, DataType, LogType, Held
<1>6. log' \in Seq(LogType)
  BY <1>1, <1>5 DEF Writes, Logs
<1>7. Change(op, t, r, before, after) \in ChangeType
  BY DEF Writes, Change, ChangeType, Held
<1>8. ASSUME NEW u \in Table, NEW q \in Rid PROVE mem'[u][q] = IF u = t /\ q = r THEN after ELSE mem[u][q]
  BY <1>1, <1>2, <1>3 DEF FlatHeap
<1> QED
  BY <1>1, <1>4, <1>6, <1>7, <1>8 DEF StoreTypes, TypeInv

(* The slots of a table.                                                    *)
LEMMA SlotIs ==
  ASSUME TypeInv, NEW t \in Table
  PROVE  /\ mem[t] \in FlatHeap /\ disk[t] \in FlatHeap
         /\ \A r \in Rid : mem[t][r] \in Held /\ Get(mem[t], r) = mem[t][r]
         /\ \A r \in FreeSlots(mem[t]) : r \in Rid /\ mem[t][r] = Empty
<1>1. mem[t] \in FlatHeap /\ disk[t] \in FlatHeap
  BY DEF TypeInv, StoreTypes
<1> QED
  BY <1>1, FlatReads DEF FlatHeap, Held, FreeSlots

(* A session that has begun, and where it is.                               *)
LEMMA SessionIs ==
  ASSUME TypeInv, NEW s \in Session
  PROVE  /\ txn[s] \in 0 .. MaxBegin /\ RunsStatement(s)
         /\ undo[s] \in Seq(ChangeType) /\ scan[s] \in ScanType /\ pc[s] \in Places
         /\ pc[s] # "idle" => txn[s] \in 1 .. MaxBegin
BY BoundAssumption DEF TypeInv, TxnTypes, StmtTypes, Running, RunsStatement

(* execute_insert().                                                        *)
LEMMA InsertDoes ==
  ASSUME TypeInv, NEW s \in Session, InsertRow(s)
  PROVE  LET t == stmt[s].table
             row == stmt[s].to
         IN \E e \in Rid :
              /\ Writes(s, "INSERT", t, e, Empty, row) /\ mem[t][e] = Empty
              /\ undo' = [undo EXCEPT ![s] = Append(@, Change("INSERT", t, e, Empty, row))]
              /\ LockNewRow(s, t, e, "idle")
              /\ scan' = [scan EXCEPT ![s].rid = e]
<1> DEFINE t == stmt[s].table
           row == stmt[s].to
<1>1. stmt[s].op = "insert" /\ txn[s] \in 1 .. MaxBegin /\ t \in Table /\ row \in Row
  BY SessionIs, StmtIs DEF InsertRow, At, RunsStatement
<1>2. PICK e \in FreeSlots(mem[t]) :
        /\ mem' = [mem EXCEPT ![t] = Insert(@, e, row)]
        /\ log' = Append(log, Data(txn[s], "INSERT", t, e, e, Empty, row))
        /\ undo' = [undo EXCEPT ![s] = Append(@, Change("INSERT", t, e, Empty, row))]
        /\ LockNewRow(s, t, e, "idle")
        /\ scan' = [scan EXCEPT ![s].rid = e]
  BY DEF InsertRow
<1> HIDE DEF t, row
<1>3. e \in Rid /\ mem[t][e] = Empty
  BY <1>1, SlotIs
<1>4. Writes(s, "INSERT", t, e, Empty, row)
  BY <1>1, <1>2, <1>3 DEF Writes, Puts, Logs, Insert, ChangeOp, Held
<1> QED
  BY <1>2, <1>3, <1>4 DEF t, row

(* The first match of a statement that applies its changes.                 *)
LEMMA MatchIs ==
  ASSUME TypeInv, NEW s \in Session, scan[s].matches # <<>>
  PROVE  /\ Head(scan[s].matches).rid \in Rid /\ Head(scan[s].matches).row \in Row
         /\ Tail(scan[s].matches) \in Seq([rid : Rid, row : Row])
<1> DEFINE q == scan[s].matches
           M == [rid : Rid, row : Row]
<1>1. q \in Seq(M) /\ q # <<>>
  BY SessionIs DEF ScanType
<1> HIDE DEF q, M
<1>2. Head(q) \in M /\ Tail(q) \in Seq(M)
  BY <1>1, HeadTailProperties
<1> QED
  BY <1>2 DEF q, M

(* execute_delete().                                                        *)
LEMMA DeleteDoes ==
  ASSUME TypeInv, NEW s \in Session, ApplyDelete(s)
  PROVE  LET t == stmt[s].table
             m == Head(scan[s].matches)
         IN /\ Writes(s, "DELETE", t, m.rid, m.row, Empty)
            /\ undo' = [undo EXCEPT ![s] = Append(@, Change("DELETE", t, m.rid, m.row, Empty))]
<1> DEFINE t == stmt[s].table
           m == Head(scan[s].matches)
<1>1. txn[s] \in 1 .. MaxBegin /\ t \in Table /\ m.rid \in Rid /\ m.row \in Row
  BY SessionIs, StmtIs, MatchIs DEF ApplyDelete, At
<1>2. /\ log' = Append(log, Data(txn[s], "DELETE", t, m.rid, m.rid, m.row, Empty))
      /\ undo' = [undo EXCEPT ![s] = Append(@, Change("DELETE", t, m.rid, m.row, Empty))]
      /\ mem' = [mem EXCEPT ![t] = Delete(@, m.rid)]
  BY DEF ApplyDelete
<1> HIDE DEF t, m
<1>3. Delete(mem[t], m.rid) = [mem[t] EXCEPT ![m.rid] = Empty]
  BY <1>1, SlotIs, FlatWrites
<1>4. Writes(s, "DELETE", t, m.rid, m.row, Empty)
  BY <1>1, <1>2, <1>3 DEF Writes, Puts, Logs, ChangeOp, Held
<1> QED
  BY <1>2, <1>4 DEF t, m

(* execute_update(): the row stays where it is.                             *)
LEMMA UpdateDoes ==
  ASSUME TypeInv, NEW s \in Session, ApplyUpdate(s)
  PROVE  LET t == stmt[s].table
             m == Head(scan[s].matches)
             row == stmt[s].to
         IN /\ Writes(s, "UPDATE", t, m.rid, m.row, row)
            /\ undo' = [undo EXCEPT ![s] = Append(@, Change("UPDATE", t, m.rid, m.row, row))]
            /\ UNCHANGED <<locked, pc>>
            /\ scan' = [scan EXCEPT ![s] = [@ EXCEPT !.rid = m.rid, !.matches = Tail(scan[s].matches)]]
<1> DEFINE t == stmt[s].table
           m == Head(scan[s].matches)
           row == stmt[s].to
<1>1. txn[s] \in 1 .. MaxBegin /\ t \in Table /\ m.rid \in Rid /\ m.row \in Row /\ row \in Row
  BY SessionIs, StmtIs, MatchIs DEF ApplyUpdate, At
<1>2. PICK u \in Update(mem[t], m.rid, row, workload.moves) :
        /\ mem' = [mem EXCEPT ![t] = u.heap]
        /\ log' = Append(log, Data(txn[s], "UPDATE", t, m.rid, u.rid, m.row, row))
        /\ undo' = [undo EXCEPT ![s] = Append(@, Change("UPDATE", t, u.rid, m.row, row))]
        /\ IF u.rid = m.rid THEN UNCHANGED <<locked, pc>> ELSE LockNewRow(s, t, u.rid, "apply")
        /\ scan' = [scan EXCEPT ![s].rid = u.rid, ![s].matches = Tail(@)]
  BY DEF ApplyUpdate
<1> HIDE DEF t, m, row
<1>3. u = [heap |-> [mem[t] EXCEPT ![m.rid] = row], rid |-> m.rid]
  <2>1. workload.moves = FALSE
    BY DEF TypeInv, GhostTypes, FixedLength
  <2>2. mem[t] \in FlatHeap /\ row \in Row \cup {Empty} /\ u \in Update(mem[t], m.rid, row, FALSE)
    BY <1>1, <1>2, <2>1, SlotIs
  <2> DEFINE g == [mem[t] EXCEPT ![m.rid] = row]
  <2>3. Update(mem[t], m.rid, row, FALSE) = {[heap |-> g, rid |-> m.rid]}
    BY <1>1, <2>2, FlatWrites
  <2> HIDE DEF g
  <2>4. u = [heap |-> g, rid |-> m.rid]
    BY <2>2, <2>3, Zenon
  <2> QED
    BY <2>4 DEF g
<1>4. Writes(s, "UPDATE", t, m.rid, m.row, row)
  BY <1>1, <1>2, <1>3 DEF Writes, Puts, Logs, ChangeOp, Held
<1>5. scan' = [scan EXCEPT ![s] = [@ EXCEPT !.rid = m.rid, !.matches = Tail(scan[s].matches)]]
  <2> DEFINE Q == Seq([rid : Rid, row : Row])
  <2>1. scan \in [Session -> [next : Rid \cup {0}, rid : Rid \cup {0}, matches : Q]]
    BY DEF TypeInv, StmtTypes, ScanType
  <2> HIDE DEF Q
  <2>2. u.rid = m.rid
    BY <1>3
  <2>3. scan' = [scan EXCEPT ![s].rid = m.rid, ![s].matches = Tail(@)]
    BY <1>2, <2>2
  <2> QED
    BY <2>1, <2>3
<1> QED
  BY <1>2, <1>3, <1>4, <1>5 DEF t, m, row

-----------------------------------------------------------------------------
(* The undo steps of an abort: the last change of the thread, if any of it  *)
(* is left to undo.                                                         *)
LEMMA LastChange ==
  ASSUME TypeInv, NEW s \in Session, undo[s] # <<>>
  PROVE  LET c == undo[s][Len(undo[s])]
         IN /\ c \in ChangeType /\ c.op \in ChangeOp /\ c.table \in Table /\ c.rid \in Rid
            /\ c.before \in Held /\ c.after \in Held
<1>1. undo[s] \in Seq(ChangeType) /\ undo[s] # <<>>
  BY SessionIs
<1>2. undo[s][Len(undo[s])] \in ChangeType
  <2> DEFINE C == ChangeType
             q == undo[s]
  <2>1. q \in Seq(C) /\ q # <<>>
    BY <1>1
  <2> HIDE DEF C, q
  <2>2. q[Len(q)] \in C
    BY <2>1
  <2> QED
    BY <2>2 DEF C, q
<1> QED
  BY <1>2 DEF ChangeType, Held

(* undo_insert().                                                           *)
LEMMA UndoInsertDoes ==
  ASSUME TypeInv, NEW s \in Session, UndoInsert(s)
  PROVE  LET c == undo[s][Len(undo[s])]
         IN \/ UNCHANGED <<mem, log>>
            \/ Writes(s, "DELETE", c.table, c.rid, mem[c.table][c.rid], Empty)
<1> DEFINE c == undo[s][Len(undo[s])]
<1>1. undo[s] # <<>> /\ txn[s] \in 1 .. MaxBegin
  BY SessionIs DEF UndoInsert, Undoing, At
<1>2. c.table \in Table /\ c.rid \in Rid
  BY <1>1, LastChange
<1>3. IF Get(mem[c.table], c.rid) = Empty
        THEN UNCHANGED <<mem, log>>
        ELSE /\ log' = Append(log, Data(txn[s], "DELETE", c.table, c.rid, c.rid, Get(mem[c.table], c.rid), Empty))
             /\ mem' = [mem EXCEPT ![c.table] = Delete(@, c.rid)]
  BY DEF UndoInsert
<1> HIDE DEF c
<1>4. /\ Get(mem[c.table], c.rid) = mem[c.table][c.rid] /\ mem[c.table][c.rid] \in Held
      /\ Delete(mem[c.table], c.rid) = [mem[c.table] EXCEPT ![c.rid] = Empty]
  <2>1. mem[c.table] \in FlatHeap /\ Get(mem[c.table], c.rid) = mem[c.table][c.rid] /\ mem[c.table][c.rid] \in Held
    BY <1>2, SlotIs
  <2>2. Delete(mem[c.table], c.rid) = [mem[c.table] EXCEPT ![c.rid] = Empty]
    BY <1>2, <2>1, FlatWrites
  <2> QED
    BY <2>1, <2>2
<1>5. ASSUME mem[c.table][c.rid] # Empty
      PROVE  Writes(s, "DELETE", c.table, c.rid, mem[c.table][c.rid], Empty)
  BY <1>1, <1>2, <1>3, <1>4, <1>5 DEF Writes, Puts, Logs, ChangeOp, Held
<1>6. mem[c.table][c.rid] = Empty => UNCHANGED <<mem, log>>
  BY <1>3, <1>4
<1> QED
  BY <1>5, <1>6 DEF c

(* undo_delete().                                                           *)
LEMMA UndoDeleteDoes ==
  ASSUME TypeInv, NEW s \in Session, UndoDelete(s)
  PROVE  LET c == undo[s][Len(undo[s])]
         IN \/ UNCHANGED <<mem, log>>
            \/ \E e \in Rid : mem[c.table][e] = Empty /\ Writes(s, "INSERT", c.table, e, Empty, c.before)
<1> DEFINE c == undo[s][Len(undo[s])]
<1>1. undo[s] # <<>> /\ txn[s] \in 1 .. MaxBegin
  BY SessionIs DEF UndoDelete, Undoing, At
<1>2. c.table \in Table /\ c.rid \in Rid /\ c.before \in Held
  BY <1>1, LastChange
<1>3. \/ UNCHANGED <<mem, log>>
      \/ \E e \in FreeSlots(mem[c.table]) :
           /\ mem' = [mem EXCEPT ![c.table] = Insert(@, e, c.before)]
           /\ log' = Append(log, Data(txn[s], "INSERT", c.table, e, e, Empty, c.before))
  BY DEF UndoDelete
<1> HIDE DEF c
<1>4. ASSUME NEW e \in FreeSlots(mem[c.table]),
             mem' = [mem EXCEPT ![c.table] = Insert(@, e, c.before)],
             log' = Append(log, Data(txn[s], "INSERT", c.table, e, e, Empty, c.before))
      PROVE  e \in Rid /\ mem[c.table][e] = Empty /\ Writes(s, "INSERT", c.table, e, Empty, c.before)
  <2>1. e \in Rid /\ mem[c.table][e] = Empty
    BY <1>2, SlotIs
  <2> QED
    BY <1>1, <1>2, <1>4, <2>1 DEF Writes, Puts, Logs, Insert, ChangeOp, Held
<1>5. \/ UNCHANGED <<mem, log>>
      \/ \E e \in Rid : mem[c.table][e] = Empty /\ Writes(s, "INSERT", c.table, e, Empty, c.before)
  BY <1>3, <1>4
<1> QED
  BY <1>5 DEF c

(* undo_update().                                                           *)
LEMMA UndoUpdateDoes ==
  ASSUME TypeInv, NEW s \in Session, UndoUpdate(s)
  PROVE  LET c == undo[s][Len(undo[s])]
         IN Writes(s, "UPDATE", c.table, c.rid, c.after, c.before)
<1> DEFINE c == undo[s][Len(undo[s])]
<1>1. undo[s] # <<>> /\ txn[s] \in 1 .. MaxBegin
  BY SessionIs DEF UndoUpdate, Undoing, At
<1>2. c.table \in Table /\ c.rid \in Rid /\ c.before \in Held /\ c.after \in Held
  BY <1>1, LastChange
<1>3. PICK u \in Update(mem[c.table], c.rid, c.before, workload.moves) :
        /\ mem' = [mem EXCEPT ![c.table] = u.heap]
        /\ log' = Append(log, Data(txn[s], "UPDATE", c.table, c.rid, u.rid, c.after, c.before))
  BY DEF UndoUpdate
<1> HIDE DEF c
<1>4. u = [heap |-> [mem[c.table] EXCEPT ![c.rid] = c.before], rid |-> c.rid]
  <2>1. workload.moves = FALSE
    BY DEF TypeInv, GhostTypes, FixedLength
  <2>2. mem[c.table] \in FlatHeap /\ u \in Update(mem[c.table], c.rid, c.before, FALSE)
    BY <1>2, <1>3, <2>1, SlotIs
  <2> DEFINE g == [mem[c.table] EXCEPT ![c.rid] = c.before]
  <2>3. Update(mem[c.table], c.rid, c.before, FALSE) = {[heap |-> g, rid |-> c.rid]}
    BY <1>2, <2>2, FlatWrites DEF Held
  <2> HIDE DEF g
  <2>4. u = [heap |-> g, rid |-> c.rid]
    BY <2>2, <2>3, Zenon
  <2> QED
    BY <2>4 DEF g
<1>5. Writes(s, "UPDATE", c.table, c.rid, c.after, c.before)
  BY <1>1, <1>2, <1>3, <1>4 DEF Writes, Puts, Logs, ChangeOp, Held
<1> QED
  BY <1>5 DEF c

(* A change undone: the others remain.                                      *)
LEMMA UndoneTypes ==
  ASSUME TypeInv, NEW s \in Session, undo[s] # <<>>, Undone(s)
  PROVE  /\ undo' \in [Session -> Seq(ChangeType)]
         /\ undo'[s] # undo[s]
         /\ Len(undo'[s]) = Len(undo[s]) - 1 /\ DOMAIN undo'[s] \subseteq DOMAIN undo[s]
         /\ \A i \in DOMAIN undo'[s] : undo'[s][i] = undo[s][i]
<1> DEFINE C == ChangeType
           q == undo[s]
           p == SubSeq(q, 1, Len(q) - 1)
<1>1. q \in Seq(C) /\ q # <<>>
  BY SessionIs
<1>2. undo \in [Session -> Seq(C)] /\ undo' = [undo EXCEPT ![s] = p]
  BY DEF TypeInv, TxnTypes, Undone
<1> HIDE DEF C, q
<1>3. /\ p \in Seq(C) /\ Len(p) = Len(q) - 1 /\ DOMAIN p \subseteq DOMAIN q
      /\ \A i \in DOMAIN p : p[i] = q[i]
  <2> DEFINE n == Len(q) - 1
  <2>1. Len(q) \in Nat \ {0} /\ n \in Int /\ 0 <= n /\ 1 \in Int /\ DOMAIN q = 1 .. n + 1
        /\ \A i \in 1 .. n : q[i] \in C
    BY <1>1
  <2> HIDE DEF n
  <2>2. /\ SubSeq(q, 1, n) \in Seq(C) /\ Len(SubSeq(q, 1, n)) = IF 1 <= n THEN n - 1 + 1 ELSE 0
        /\ \A i \in 1 .. n - 1 + 1 : SubSeq(q, 1, n)[i] = q[1 + i - 1]
    BY <2>1, SubSeqProperties
  <2>3. p = SubSeq(q, 1, n)
    BY DEF n
  <2> HIDE DEF p
  <2>4. p \in Seq(C) /\ Len(p) = n /\ DOMAIN p = 1 .. n
    BY <2>1, <2>2, <2>3
  <2>5. \A i \in 1 .. n : p[i] = q[i]
    BY <2>1, <2>2, <2>3
  <2> QED
    BY <2>1, <2>4, <2>5 DEF n
<1> HIDE DEF p
<1>4. p # q
  BY <1>1, <1>3
<1>5. undo' \in [Session -> Seq(C)] /\ undo'[s] = p
  BY <1>2, <1>3
<1> QED
  BY <1>3, <1>4, <1>5 DEF C, q

-----------------------------------------------------------------------------
(* Every step of a thread keeps the types.                                  *)

(* A thread inserts a row.                                                  *)
LEMMA InsertTypes ==
  ASSUME TypeInv, NEW s \in Session, InsertRow(s)
  PROVE  TypeInv'
<1> DEFINE t == stmt[s].table
           row == stmt[s].to
<1>1. PICK e \in Rid :
        /\ Writes(s, "INSERT", t, e, Empty, row)
        /\ undo' = [undo EXCEPT ![s] = Append(@, Change("INSERT", t, e, Empty, row))]
        /\ LockNewRow(s, t, e, "idle")
        /\ scan' = [scan EXCEPT ![s].rid = e]
  BY InsertDoes
<1>2. stmt[s].op = "insert"
  BY SessionIs DEF InsertRow, At, RunsStatement
<1> HIDE DEF t, row
<1>3. /\ UNCHANGED <<disk, nextId, txn, flushes, stmt, count, recVars, ghostVars>> /\ txn[s] # 0
      /\ txn[s] \in 0 .. MaxBegin
  BY SessionIs DEF InsertRow, At
<1>4. StoreTypes' /\ Change("INSERT", t, e, Empty, row) \in ChangeType
  BY <1>1, <1>3, WriteTypes
<1>5. t \in Table
  BY <1>1 DEF Writes
<1>6. TxnTypes'
  <2>1. undo' \in [Session -> Seq(ChangeType)]
    BY <1>1, <1>4, SessionIs DEF TypeInv, TxnTypes
  <2>2. locked' = locked \/ locked' = Locking(s, "X", t, e)
    BY <1>1 DEF LockNewRow
  <2>3. locked' \in [Session -> [{"S", "X"} -> SUBSET (Table \X Rid)]]
    BY <1>5, <2>2, LockTypes DEF TypeInv, TxnTypes
  <2> QED
    BY <1>3, <2>1, <2>3 DEF TypeInv, TxnTypes
<1>7. pc' = [pc EXCEPT ![s] = "idle"] \/ pc' = [pc EXCEPT ![s] = "newrow"]
  BY <1>1 DEF LockNewRow
<1>8. StmtTypes'
  <2>1. pc' \in [Session -> Places]
    BY <1>7 DEF TypeInv, StmtTypes, Places
  <2>2. scan' \in [Session -> ScanType]
    BY <1>1 DEF TypeInv, StmtTypes, ScanType
  <2> QED
    BY <1>3, <2>1, <2>2 DEF TypeInv, StmtTypes, Statements, ghostVars
<1>9. Running'
  <2>1. RunsStatement(s)'
    BY <1>1, <1>2, <1>3, <1>7 DEF TypeInv, StmtTypes, RunsStatement, ScanType
  <2> QED
    BY <1>1, <1>3, <1>7, <2>1, OthersRun DEF TypeInv, StmtTypes
<1>10. RecTypes' /\ GhostTypes'
  BY <1>3, TypesStay
<1> QED
  BY <1>4, <1>6, <1>8, <1>9, <1>10 DEF TypeInv

(* A thread waits for the lock of a row, or reads on.                       *)
LEMMA ScanTypes ==
  ASSUME TypeInv, NEW s \in Session,
         WaitNewRow(s) \/ NextRow(s) \/ LockRow(s) \/ Reread(s) \/ EndScan(s) \/ EndApply(s) \/ Fail(s)
  PROVE  TypeInv'
<1>1. /\ UNCHANGED <<storeVars, nextId, txn, undo, flushes, stmt, count, recVars, ghostVars>>
      /\ txn[s] # 0 /\ txn[s] \in 0 .. MaxBegin
  BY SessionIs DEF WaitNewRow, NextRow, LockRow, Reread, EndScan, EndApply, Fail, At, txnVars
<1>2. /\ pc \in [Session -> Places] /\ scan \in [Session -> ScanType]
      /\ locked \in [Session -> [{"S", "X"} -> SUBSET (Table \X Rid)]]
  BY DEF TypeInv, StmtTypes, TxnTypes
<1>3. SUFFICES /\ pc' \in [Session -> Places] /\ scan' \in [Session -> ScanType]
               /\ locked' \in [Session -> [{"S", "X"} -> SUBSET (Table \X Rid)]]
               /\ RunsStatement(s)'
               /\ \A u \in Session \ {s} : pc'[u] = pc[u] /\ scan'[u] = scan[u]
  <2>1. StmtTypes'
    BY <1>1, <1>3 DEF TypeInv, StmtTypes, Statements, ghostVars
  <2>2. TxnTypes'
    BY <1>1, <1>3 DEF TypeInv, TxnTypes
  <2>3. Running'
    BY <1>1, <1>3, OthersRun
  <2>4. RecTypes' /\ GhostTypes' /\ StoreTypes'
    BY <1>1, TypesStay
  <2> QED
    BY <2>1, <2>2, <2>3, <2>4 DEF TypeInv
<1>4. CASE WaitNewRow(s)
  <2>1. stmt[s].op = "insert" /\ stmt[s].table \in Table /\ scan[s].rid \in Rid
    BY <1>4, SessionIs, StmtIs DEF WaitNewRow, At, RunsStatement
  <2>2. locked' \in [Session -> [{"S", "X"} -> SUBSET (Table \X Rid)]]
    BY <1>4, <2>1, LockTypes DEF WaitNewRow
  <2>3. pc' = [pc EXCEPT ![s] = "idle"] /\ scan' = scan
    BY <1>4, <2>1 DEF WaitNewRow
  <2> QED
    BY <1>1, <1>2, <2>2, <2>3 DEF RunsStatement, Places
<1>5. CASE NextRow(s)
  <2>1. PICK r \in Rid : \/ /\ scan' = [scan EXCEPT ![s].next = r, ![s].rid = r]
                            /\ pc' = [pc EXCEPT ![s] = "lockrow"]
                         \/ /\ scan' = [scan EXCEPT ![s].next = r]
                            /\ UNCHANGED pc
    BY <1>5 DEF NextRow, RestOfScan
  <2>2. locked' = locked /\ pc[s] = "scan" /\ stmt[s].op \in {"select", "delete", "update"}
    BY <1>5, SessionIs DEF NextRow, txnVars, At, RunsStatement
  <2>3. scan' \in [Session -> ScanType]
    <3>1. /\ [scan EXCEPT ![s].next = r] \in [Session -> ScanType]
          /\ [scan EXCEPT ![s].next = r, ![s].rid = r] \in [Session -> ScanType]
      BY <1>2, ScanMoves
    <3> QED
      BY <2>1, <3>1, Zenon
  <2>4. pc' \in [Session -> Places]
    BY <1>2, <2>1 DEF Places
  <2>5. RunsStatement(s)'
    BY <1>1, <1>2, <2>1, <2>2 DEF RunsStatement, ScanType
  <2> QED
    BY <1>2, <2>1, <2>2, <2>3, <2>4, <2>5
<1>6. CASE LockRow(s)
  <2>1. stmt[s].op \in {"select", "delete", "update"} /\ stmt[s].table \in Table /\ scan[s].rid \in Rid
    BY <1>6, SessionIs, StmtIs DEF LockRow, At, RunsStatement
  <2>2. PICK m \in {"S", "X"} : locked' = Locking(s, m, stmt[s].table, scan[s].rid)
    BY <1>6 DEF LockRow
  <2>3. locked' \in [Session -> [{"S", "X"} -> SUBSET (Table \X Rid)]]
    BY <2>1, <2>2, LockTypes
  <2>4. pc' = [pc EXCEPT ![s] = "reread"] /\ scan' = scan
    BY <1>6 DEF LockRow
  <2> QED
    BY <1>1, <1>2, <2>1, <2>3, <2>4 DEF RunsStatement, Places
<1>7. CASE Reread(s)
  <2>1. stmt[s].op \in {"select", "delete", "update"} /\ stmt[s].table \in Table /\ scan[s].rid \in Rid
    BY <1>7, SessionIs, StmtIs DEF Reread, At, RunsStatement
  <2> DEFINE row == Get(mem[stmt[s].table], scan[s].rid)
             q == IF row \in stmt[s].where THEN Append(scan[s].matches, [rid |-> scan[s].rid, row |-> row])
                  ELSE scan[s].matches
  <2>2. scan' = [scan EXCEPT ![s].matches = q] /\ pc' = [pc EXCEPT ![s] = "scan"] /\ locked' = locked
    BY <1>7 DEF Reread, txnVars
  <2>3. q \in Seq([rid : Rid, row : Row])
    <3> DEFINE M == [rid : Rid, row : Row]
    <3>1. scan[s].matches \in Seq(M) /\ stmt[s].where \subseteq Row
      BY <1>2, <2>1, StmtIs DEF ScanType
    <3>2. row \in Row => [rid |-> scan[s].rid, row |-> row] \in M
      BY <2>1
    <3> HIDE DEF M, row
    <3>3. q \in Seq(M)
      BY <3>1, <3>2
    <3> QED
      BY <3>3 DEF M
  <2> HIDE DEF q
  <2>4. scan' \in [Session -> ScanType]
    BY <1>2, <2>2, <2>3, MatchesMove
  <2>5. RunsStatement(s)'
    BY <1>1, <1>2, <2>1, <2>2 DEF RunsStatement, ScanType
  <2> QED
    BY <1>2, <2>2, <2>4, <2>5 DEF Places
<1>8. CASE EndScan(s)
  <2>1. /\ stmt[s].op \in {"select", "delete", "update"} /\ locked' = locked /\ scan' = scan
        /\ pc' = [pc EXCEPT ![s] = IF stmt[s].op = "select" THEN "idle" ELSE "apply"]
    BY <1>8, SessionIs DEF EndScan, At, RunsStatement, txnVars
  <2> QED
    BY <1>1, <1>2, <2>1 DEF RunsStatement, Places
<1>9. CASE EndApply(s)
  <2>1. pc' = [pc EXCEPT ![s] = "idle"] /\ scan' = scan /\ locked' = locked
    BY <1>9 DEF EndApply, txnVars
  <2> QED
    BY <1>2, <2>1 DEF RunsStatement, Places
<1>10. CASE Fail(s)
  <2>1. pc' = [pc EXCEPT ![s] = "abort"] /\ scan' = scan /\ locked' = locked
    BY <1>10 DEF Fail, txnVars
  <2> QED
    BY <1>1, <1>2, <2>1 DEF RunsStatement, Places
<1> QED
  BY <1>4, <1>5, <1>6, <1>7, <1>8, <1>9, <1>10

(* A thread applies a change to its first match.                            *)
LEMMA ApplyTypes ==
  ASSUME TypeInv, NEW s \in Session, ApplyDelete(s) \/ ApplyUpdate(s)
  PROVE  TypeInv'
<1> DEFINE t == stmt[s].table
           m == Head(scan[s].matches)
<1>1. PICK op, after :
        /\ Writes(s, op, t, m.rid, m.row, after)
        /\ undo' = [undo EXCEPT ![s] = Append(@, Change(op, t, m.rid, m.row, after))]
  <2>1. CASE ApplyDelete(s)
    BY <2>1, DeleteDoes
  <2>2. CASE ApplyUpdate(s)
    <3>1. /\ Writes(s, "UPDATE", t, m.rid, m.row, stmt[s].to)
          /\ undo' = [undo EXCEPT ![s] = Append(@, Change("UPDATE", t, m.rid, m.row, stmt[s].to))]
      BY <2>2, UpdateDoes
    <3> QED
      BY <3>1
  <2> QED
    BY <2>1, <2>2
<1>2. scan[s].matches # <<>>
  BY DEF ApplyDelete, ApplyUpdate
<1>3. m.rid \in Rid /\ Tail(scan[s].matches) \in Seq([rid : Rid, row : Row])
  BY <1>2, MatchIs
<1>4. \/ scan' = [scan EXCEPT ![s].matches = Tail(scan[s].matches)]
      \/ scan' = [scan EXCEPT ![s] = [@ EXCEPT !.rid = m.rid, !.matches = Tail(scan[s].matches)]]
  <2>1. CASE ApplyDelete(s)
    BY <2>1 DEF ApplyDelete
  <2>2. CASE ApplyUpdate(s)
    BY <2>2, UpdateDoes
  <2> QED
    BY <2>1, <2>2
<1>5. /\ UNCHANGED <<disk, nextId, txn, flushes, locked, pc, stmt, count, recVars, ghostVars>>
      /\ pc[s] = "apply" /\ txn[s] # 0 /\ stmt[s].op \in {"delete", "update"}
  BY SessionIs, UpdateDoes DEF ApplyDelete, ApplyUpdate, At, RunsStatement
<1> HIDE DEF t, m
<1>6. StoreTypes' /\ Change(op, t, m.rid, m.row, after) \in ChangeType
  BY <1>1, <1>5, WriteTypes
<1>7. TxnTypes'
  BY <1>1, <1>5, <1>6, SessionIs DEF TypeInv, TxnTypes
<1>8. StmtTypes'
  <2>1. scan \in [Session -> ScanType] /\ scan[s] \in ScanType
    BY DEF TypeInv, StmtTypes
  <2>2. scan' \in [Session -> ScanType]
    BY <1>3, <1>4, <2>1, MatchesMove
  <2> QED
    BY <1>5, <2>2 DEF TypeInv, StmtTypes, Statements, ghostVars
<1>9. Running'
  <2>1. RunsStatement(s)'
    BY <1>5 DEF RunsStatement
  <2>2. \A u \in Session \ {s} : scan'[u] = scan[u]
    BY <1>4 DEF TypeInv, StmtTypes
  <2> QED
    BY <1>5, <2>1, <2>2, OthersRun
<1>10. RecTypes' /\ GhostTypes'
  BY <1>5, TypesStay
<1> QED
  BY <1>6, <1>7, <1>8, <1>9, <1>10 DEF TypeInv

(* A thread undoes its last change.                                         *)
LEMMA UndoTypes ==
  ASSUME TypeInv, NEW s \in Session, UndoInsert(s) \/ UndoDelete(s) \/ UndoUpdate(s)
  PROVE  TypeInv'
<1>1. /\ undo[s] # <<>> /\ Undone(s)
      /\ UNCHANGED <<disk, nextId, txn, flushes, locked, stmtVars, recVars, ghostVars>>
  BY DEF UndoInsert, UndoDelete, UndoUpdate, Undoing
<1>2. StoreTypes'
  <2>1. \/ UNCHANGED <<mem, log>>
        \/ \E op, t, r, before, after : Writes(s, op, t, r, before, after)
    BY UndoInsertDoes, UndoDeleteDoes, UndoUpdateDoes
  <2> QED
    BY <1>1, <2>1, WriteTypes, TypesStay DEF storeVars
<1>3. TxnTypes'
  BY <1>1, UndoneTypes DEF TypeInv, TxnTypes
<1> QED
  BY <1>1, <1>2, <1>3, TypesStay DEF TypeInv, stmtVars, ghostVars

(* A transaction ends.                                                      *)
LEMMA EndTypes ==
  ASSUME TypeInv, NEW s \in Session, CommitFlush(s) \/ Commit(s) \/ AbortFlush(s) \/ Abort(s)
  PROVE  TypeInv'
<1>1. CASE CommitFlush(s) \/ AbortFlush(s)
  <2>1. /\ UNCHANGED <<mem, log, txnVars, stmt, scan, count, recVars, ghostVars>> /\ txn[s] # 0
        /\ disk' = Flushed(s) /\ \E place \in {"flushed", "undone"} : pc' = [pc EXCEPT ![s] = place]
    BY <1>1, SessionIs DEF CommitFlush, AbortFlush, At
  <2>2. StoreTypes'
    BY <2>1 DEF TypeInv, StoreTypes, Flushed
  <2>3. StmtTypes'
    BY <2>1 DEF TypeInv, StmtTypes, Statements, Places, ghostVars
  <2>4. Running'
    <3>1. RunsStatement(s)'
      BY <2>1 DEF RunsStatement, TypeInv, StmtTypes, txnVars
    <3> QED
      BY <2>1, <3>1, OthersRun DEF txnVars, TypeInv, StmtTypes
  <2>5. RecTypes' /\ GhostTypes' /\ TxnTypes'
    BY <2>1, TypesStay
  <2> QED
    BY <2>2, <2>3, <2>4, <2>5 DEF TypeInv
<1>2. CASE Commit(s) \/ Abort(s)
  <2>1. /\ UNCHANGED <<mem, disk, recVars, workload>> /\ EndTxn(s)
        /\ \/ log' = Append(log, Committed(txn[s])) /\ committed' = Changed(committed, undo[s])
           \/ log' = Append(log, Aborted(txn[s])) /\ UNCHANGED committed
        /\ txn[s] \in 1 .. MaxBegin
    BY <1>2, SessionIs DEF Commit, Abort, At, ghostVars
  <2>2. StoreTypes'
    <3>1. Committed(txn[s]) \in LogType /\ Aborted(txn[s]) \in LogType
      BY <2>1, RecordTypes
    <3>2. log' \in Seq(LogType)
      BY <2>1, <3>1 DEF TypeInv, StoreTypes
    <3> QED
      BY <2>1, <3>2 DEF TypeInv, StoreTypes
  <2>3. TxnTypes'
    <3>1. NoLocks \in [{"S", "X"} -> SUBSET (Table \X Rid)]
      BY DEF NoLocks
    <3>2. txn' \in [Session -> 0 .. MaxBegin] /\ undo' \in [Session -> Seq(ChangeType)]
      BY <2>1, BoundAssumption DEF EndTxn, TypeInv, TxnTypes
    <3>3. locked' \in [Session -> [{"S", "X"} -> SUBSET (Table \X Rid)]]
      BY <2>1, <3>1 DEF EndTxn, TypeInv, TxnTypes
    <3>4. flushes' \in [Session -> SUBSET Table] /\ nextId' \in 1 .. MaxBegin + 1
      BY <2>1 DEF EndTxn, TypeInv, TxnTypes
    <3> QED
      BY <3>2, <3>3, <3>4 DEF TxnTypes
  <2>4. StmtTypes'
    <3>1. NoScan \in ScanType
      BY DEF NoScan, ScanType
    <3> QED
      BY <2>1, <3>1 DEF EndTxn, TypeInv, StmtTypes, Statements, Places
  <2>5. GhostTypes'
    BY <2>1, SessionIs, ChangedType DEF TypeInv, GhostTypes, FixedLength
  <2>6. Running'
    <3>1. RunsStatement(s)'
      BY <2>1 DEF EndTxn, RunsStatement, TypeInv, StmtTypes
    <3>2. \A u \in Session \ {s} : txn'[u] = txn[u] /\ pc'[u] = pc[u] /\ stmt'[u] = stmt[u] /\ scan'[u] = scan[u]
      BY <2>1 DEF EndTxn, TypeInv, StmtTypes, TxnTypes
    <3> QED
      BY <3>1, <3>2, OthersRun
  <2> QED
    BY <2>1, <2>2, <2>3, <2>4, <2>5, <2>6, TypesStay DEF TypeInv
<1> QED
  BY <1>1, <1>2

(* A page is evicted.                                                       *)
LEMMA WriteBackTypes ==
  ASSUME TypeInv, NEW t \in Table, NEW r \in Rid, WriteBack(t, r)
  PROVE  /\ TypeInv'
         /\ \A u \in Table, q \in Rid : disk'[u][q] = IF u = t /\ q = r THEN mem[u][q] ELSE disk[u][q]
<1>1. disk \in [Table -> FlatHeap] /\ mem \in [Table -> FlatHeap]
  BY DEF TypeInv, StoreTypes
<1>2. disk' = [disk EXCEPT ![t][r] = mem[t][r]] /\ UNCHANGED <<mem, log, txnVars, stmtVars, recVars, ghostVars>>
  BY DEF WriteBack
<1>3. disk' \in [Table -> FlatHeap]
  BY <1>1, <1>2 DEF FlatHeap
<1>4. \A u \in Table, q \in Rid : disk'[u][q] = IF u = t /\ q = r THEN mem[u][q] ELSE disk[u][q]
  BY <1>1, <1>2 DEF FlatHeap
<1>5. StoreTypes'
  BY <1>2, <1>3 DEF TypeInv, StoreTypes
<1>6. TxnTypes' /\ RecTypes' /\ GhostTypes'
  BY <1>2, TypesStay
<1>7. StmtTypes' /\ Running'
  BY <1>2, TypesStay DEF stmtVars, ghostVars, txnVars
<1> QED
  BY <1>4, <1>5, <1>6, <1>7 DEF TypeInv

(* What the losers are, and that the records of recovery are of the log.    *)
LEMMA LosersType == ASSUME TypeInv PROVE Losers \subseteq 1 .. MaxBegin
BY RecordTypes DEF TypeInv, StoreTypes, Losers, Logged

(* The process dies.                                                        *)
LEMMA CrashTypes ==
  ASSUME TypeInv, Crash
  PROVE  TypeInv'
<1>1. StoreTypes'
  BY DEF TypeInv, StoreTypes, Crash
<1>2. TxnTypes'
  <2>1. NoLocks \in [{"S", "X"} -> SUBSET (Table \X Rid)]
    BY DEF NoLocks
  <2> QED
    BY <2>1, BoundAssumption DEF Crash, TxnTypes
<1>3. StmtTypes'
  <2>1. NoScan \in ScanType
    BY DEF NoScan, ScanType
  <2>2. workload.stmts \in Nat
    BY WorkloadIs DEF TypeInv, GhostTypes
  <2> QED
    BY <2>1, <2>2 DEF Crash, StmtTypes, Places, Statements, ghostVars
<1>4. RecTypes'
  <2>1. crashes' \in 0 .. workload'.dies
    BY WorkloadIs DEF Crash, TypeInv, RecTypes, GhostTypes, ghostVars
  <2>2. todo' \in Seq(DataType)
    BY LoserChangesType DEF Crash, TypeInv, StoreTypes
  <2>3. losers' \subseteq 1 .. MaxBegin
    BY LosersType DEF Crash
  <2> QED
    BY <2>1, <2>2, <2>3 DEF Crash, RecTypes
<1>5. GhostTypes'
  BY TypesStay DEF Crash
<1>6. Running'
  BY DEF Crash, Running, RunsStatement
<1> QED
  BY <1>1, <1>2, <1>3, <1>4, <1>5, <1>6 DEF TypeInv

(* The next record of recovery.                                             *)
LEMMA RecordIs ==
  ASSUME TypeInv, todo # <<>>
  PROVE  LET rec == Head(todo)
         IN /\ rec.table \in Table /\ rec.rid \in Rid /\ rec.new \in Rid /\ rec.before \in Held /\ rec.after \in Held
            /\ moved[rec.rid] \in Rid /\ moved[rec.new] \in Rid
            /\ Tail(todo) \in Seq(DataType)
<1> DEFINE D == DataType
<1>1. todo \in Seq(D) /\ todo # <<>>
  BY DEF TypeInv, RecTypes
<1> HIDE DEF D
<1>2. Head(todo) \in D /\ Tail(todo) \in Seq(D)
  BY <1>1, HeadTailProperties
<1> QED
  BY <1>2 DEF D, DataType, Held, TypeInv, RecTypes

(* A record of a loser is undone: in memory, and in one slot.               *)
RecoverRecord == RecoverInsert \/ RecoverDelete \/ RecoverUpdate

(* What a step of recovery does to the tables and to its own variables.     *)
LEMMA RecoverDoes ==
  ASSUME TypeInv, RecoverRecord
  PROVE  /\ \/ UNCHANGED mem
            \/ \E t \in Table, r \in Rid, v \in Held : Puts(t, r, v)
         /\ moved' \in [Rid -> Rid] /\ todo' \in Seq(DataType)
         /\ process = "recovering"
         /\ UNCHANGED <<disk, log, txnVars, stmtVars, process, losers, crashes, ghostVars>>
<1> DEFINE rec == Head(todo)
           t == rec.table
           h == mem[t]
           a == moved[rec.rid]
           b == moved[rec.new]
<1>1. /\ todo # <<>> /\ todo' = Tail(todo) /\ process = "recovering"
      /\ UNCHANGED <<disk, log, txnVars, stmtVars, process, losers, crashes, ghostVars>>
  BY DEF RecoverRecord, RecoverInsert, RecoverDelete, RecoverUpdate, Recovering
<1>2. /\ t \in Table /\ rec.rid \in Rid /\ rec.new \in Rid /\ rec.before \in Held
      /\ a \in Rid /\ b \in Rid /\ todo' \in Seq(DataType)
  BY <1>1, RecordIs
<1>3. h \in FlatHeap /\ moved \in [Rid -> Rid]
  BY <1>2, SlotIs DEF TypeInv, RecTypes
<1>4. SUFFICES /\ \/ UNCHANGED mem
                  \/ \E r \in Rid, v \in Held : mem' = [mem EXCEPT ![t] = [h EXCEPT ![r] = v]]
               /\ moved' \in [Rid -> Rid]
  BY <1>1, <1>2 DEF Puts
<1>5. CASE RecoverInsert
  <2>1. /\ mem' = mem \/ mem' = [mem EXCEPT ![t] = Delete(h, a)]
        /\ moved' = moved
    BY <1>5 DEF RecoverInsert
  <2> HIDE DEF rec, t, h, a
  <2>2. Delete(h, a) = [h EXCEPT ![a] = Empty]
    BY <1>2, <1>3, FlatWrites
  <2>3. mem' = mem \/ mem' = [mem EXCEPT ![t] = [h EXCEPT ![a] = Empty]]
    BY <2>1, <2>2
  <2>4. a \in Rid /\ Empty \in Held
    BY <1>2 DEF Held
  <2> QED
    BY <1>3, <2>1, <2>3, <2>4, Zenon
<1>6. CASE RecoverDelete
  <2>1. \/ UNCHANGED <<mem, moved>>
        \/ \E e \in FreeSlots(h) : /\ mem' = [mem EXCEPT ![t] = Insert(h, e, rec.before)]
                                   /\ moved' = [moved EXCEPT ![rec.rid] = e]
    BY <1>6 DEF RecoverDelete
  <2> HIDE DEF rec, t, h, a
  <2> QED
    BY <1>2, <1>3, <2>1 DEF Insert, FreeSlots
<1>7. CASE RecoverUpdate
  <2>1. PICK target : /\ target = IF Get(h, b) # Empty THEN b ELSE a
                      /\ \/ \E e \in FreeSlots(h) :
                              /\ mem' = [mem EXCEPT ![t] = Insert(h, e, rec.before)]
                              /\ moved' = [moved EXCEPT ![rec.rid] = e, ![rec.new] = e]
                         \/ /\ \E u \in Update(h, target, rec.before, workload.moves) : mem' = [mem EXCEPT ![t] = u.heap]
                            /\ UNCHANGED moved
                         \/ UNCHANGED <<mem, moved>>
    BY <1>7 DEF RecoverUpdate
  <2> HIDE DEF rec, t, h, a, b
  <2>2. target \in Rid /\ workload.moves = FALSE
    BY <1>2, <2>1 DEF TypeInv, GhostTypes, FixedLength
  <2>3. CASE \E e \in FreeSlots(h) :
               /\ mem' = [mem EXCEPT ![t] = Insert(h, e, rec.before)]
               /\ moved' = [moved EXCEPT ![rec.rid] = e, ![rec.new] = e]
    <3>1. PICK e \in Rid : /\ mem' = [mem EXCEPT ![t] = [h EXCEPT ![e] = rec.before]]
                           /\ moved' = [moved EXCEPT ![rec.rid] = e, ![rec.new] = e]
      BY <2>3 DEF Insert, FreeSlots
    <3>2. moved' \in [Rid -> Rid]
      BY <1>3, <3>1
    <3> QED
      BY <1>2, <3>1, <3>2, Zenon
  <2>4. CASE /\ \E u \in Update(h, target, rec.before, workload.moves) : mem' = [mem EXCEPT ![t] = u.heap]
             /\ UNCHANGED moved
    <3> DEFINE g == [h EXCEPT ![target] = rec.before]
    <3>1. Update(h, target, rec.before, FALSE) = {[heap |-> g, rid |-> target]}
      BY <1>2, <1>3, <2>2, FlatWrites DEF Held
    <3> HIDE DEF g
    <3>2. mem' = [mem EXCEPT ![t] = g]
      <4>1. PICK u \in Update(h, target, rec.before, FALSE) : mem' = [mem EXCEPT ![t] = u.heap]
        BY <2>2, <2>4
      <4>2. u = [heap |-> g, rid |-> target]
        BY <3>1, <4>1, Zenon
      <4> QED
        BY <4>1, <4>2
    <3>3. mem' = [mem EXCEPT ![t] = [h EXCEPT ![target] = rec.before]]
      BY <3>2 DEF g
    <3>4. moved' \in [Rid -> Rid]
      BY <1>3, <2>4
    <3> QED
      BY <1>2, <2>2, <3>3, <3>4, Zenon
  <2> QED
    BY <1>3, <2>1, <2>3, <2>4
<1> QED
  BY <1>5, <1>6, <1>7 DEF RecoverRecord

(* Recovery keeps the types.                                                *)
LEMMA RecoverTypes ==
  ASSUME TypeInv, Recover
  PROVE  TypeInv'
<1>1. CASE RecoverRecord
  <2>1. UNCHANGED <<disk, log, txnVars, stmtVars, process, losers, crashes, ghostVars>>
    BY <1>1, RecoverDoes
  <2>2. mem' \in [Table -> FlatHeap]
    <3>1. mem \in [Table -> FlatHeap]
      BY DEF TypeInv, StoreTypes
    <3>2. ASSUME NEW t \in Table, NEW r \in Rid, NEW v \in Held, Puts(t, r, v)
          PROVE  mem' \in [Table -> FlatHeap]
      <4>1. mem[t] \in FlatHeap /\ [mem[t] EXCEPT ![r] = v] \in FlatHeap
        BY <3>1 DEF FlatHeap, Held
      <4> QED
        BY <3>1, <3>2, <4>1 DEF Puts
    <3> QED
      BY <1>1, <3>1, <3>2, RecoverDoes
  <2>3. StoreTypes'
    BY <2>1, <2>2 DEF TypeInv, StoreTypes
  <2>4. RecTypes'
    BY <1>1, <2>1, RecoverDoes DEF TypeInv, RecTypes, ghostVars
  <2>5. TxnTypes' /\ GhostTypes'
    BY <2>1, TypesStay
  <2>6. StmtTypes' /\ Running'
    BY <2>1, TypesStay DEF stmtVars, ghostVars, txnVars
  <2> QED
    BY <2>3, <2>4, <2>5, <2>6 DEF TypeInv
<1>2. CASE RecoverFlush
  <2>1. UNCHANGED <<mem, log, txnVars, stmtVars, todo, losers, moved, crashes, ghostVars>>
        /\ disk' = mem /\ process' = "marking"
    BY <1>2 DEF RecoverFlush
  <2>2. StoreTypes' /\ RecTypes'
    BY <2>1 DEF TypeInv, StoreTypes, RecTypes, ghostVars
  <2>5. TxnTypes' /\ GhostTypes'
    BY <2>1, TypesStay
  <2>6. StmtTypes' /\ Running'
    BY <2>1, TypesStay DEF stmtVars, ghostVars, txnVars
  <2> QED
    BY <2>2, <2>5, <2>6 DEF TypeInv
<1>3. CASE MarkLoser
  <2>1. PICK id \in losers : log' = Append(log, Aborted(id)) /\ losers' = losers \ {id}
    BY <1>3 DEF MarkLoser
  <2>2. UNCHANGED <<mem, disk, txnVars, stmtVars, process, todo, moved, crashes, ghostVars>>
    BY <1>3 DEF MarkLoser
  <2>3. StoreTypes'
    <3>1. Aborted(id) \in LogType /\ log \in Seq(LogType)
      BY RecordTypes DEF TypeInv, RecTypes, StoreTypes
    <3> QED
      BY <2>1, <2>2, <3>1 DEF TypeInv, StoreTypes
  <2>4. RecTypes'
    BY <2>1, <2>2 DEF TypeInv, RecTypes, ghostVars
  <2>5. TxnTypes' /\ GhostTypes'
    BY <2>2, TypesStay
  <2>6. StmtTypes' /\ Running'
    BY <2>2, TypesStay DEF stmtVars, ghostVars, txnVars
  <2> QED
    BY <2>3, <2>4, <2>5, <2>6 DEF TypeInv
<1>4. CASE Serve
  <2>1. UNCHANGED <<storeVars, txnVars, stmtVars, todo, losers, moved, crashes, ghostVars>>
        /\ process' = "serving"
    BY <1>4 DEF Serve
  <2>2. StoreTypes' /\ TxnTypes' /\ GhostTypes'
    BY <2>1, TypesStay
  <2>4. RecTypes'
    BY <2>1 DEF TypeInv, RecTypes, ghostVars
  <2>6. StmtTypes' /\ Running'
    BY <2>1, TypesStay DEF stmtVars, ghostVars, txnVars
  <2> QED
    BY <2>2, <2>4, <2>6 DEF TypeInv
<1> QED
  BY <1>1, <1>2, <1>3, <1>4 DEF Recover, RecoverRecord

(* Every step keeps the types.                                              *)
LEMMA TypeInvStep == TypeInv /\ [Next]_vars => TypeInv'
<1> SUFFICES ASSUME TypeInv, [Next]_vars PROVE TypeInv'
  OBVIOUS
<1>1. CASE UNCHANGED vars
  BY <1>1, TypesStay DEF vars, storeVars, txnVars, stmtVars, recVars, ghostVars, TypeInv
<1>2. ASSUME NEW s \in Session, Step(s) PROVE TypeInv'
  BY <1>2, StartTypes, InsertTypes, ScanTypes, ApplyTypes, UndoTypes, EndTypes DEF Step
<1>3. ASSUME NEW t \in Table, NEW r \in Rid, WriteBack(t, r) PROVE TypeInv'
  BY <1>3, WriteBackTypes
<1> QED
  BY <1>1, <1>2, <1>3, CrashTypes, RecoverTypes DEF Next

(* The types of the proof imply those the runs check.                       *)
LEMMA TypeInvImplies == TypeInv => TypeOK
<1> SUFFICES ASSUME TypeInv PROVE TypeOK
  OBVIOUS
<1>1. mem \in [Table -> Heap] /\ disk \in [Table -> Heap]
  <2>1. FlatHeap \subseteq Heap
    BY DEF FlatHeap, Heap, Slot
  <2> QED
    BY <2>1 DEF TypeInv, StoreTypes
<1>2. \A i \in DOMAIN log : log[i] \in LogType
  BY DEF TypeInv, StoreTypes
<1>3. \A s \in Session : \A i \in DOMAIN undo[s] : undo[s][i] \in ChangeType
  BY DEF TypeInv, TxnTypes
<1>4. ASSUME NEW s \in Session
      PROVE  /\ scan[s].next \in Rid \cup {0} /\ scan[s].rid \in Rid \cup {0}
             /\ \A i \in DOMAIN scan[s].matches : scan[s].matches[i] \in [rid : Rid, row : Row]
  <2> DEFINE M == [rid : Rid, row : Row]
             q == scan[s].matches
  <2>1. q \in Seq(M) /\ scan[s].next \in Rid \cup {0} /\ scan[s].rid \in Rid \cup {0}
    BY SessionIs DEF ScanType
  <2> HIDE DEF M, q
  <2>2. \A i \in DOMAIN q : q[i] \in M
    BY <2>1
  <2> QED
    BY <2>1, <2>2 DEF M, q
<1>5. \A i \in DOMAIN todo : todo[i] \in DataType
  BY DEF TypeInv, RecTypes
<1>6. /\ pc \in [Session -> {"idle", "insert", "scan", "lockrow", "reread", "apply", "newrow",
                             "flushed", "abort", "undone"}]
      /\ stmt \in [Session -> Statements \cup {NoStmt}]
      /\ count \in [Session -> 0 .. workload.stmts]
  BY DEF TypeInv, StmtTypes, Places
<1> QED
  BY <1>1, <1>2, <1>3, <1>4, <1>5, <1>6 DEF TypeOK, TypeInv, TxnTypes, RecTypes, GhostTypes

(* The types of every variable, in every state of every behaviour whose     *)
(* rows have one length: threads, WAL, undo lists, locks, and recovery.     *)
THEOREM TypeCorrect == Spec /\ FixedLength => []TypeOK
<1>1. Spec /\ FixedLength => []TypeInv
  BY InitTypeInv, TypeInvStep, PTL DEF Spec
<1> QED
  BY <1>1, TypeInvImplies, PTL

-----------------------------------------------------------------------------
(* What a step of one thread leaves alone: the other threads, and recovery. *)
Same(u) == /\ txn'[u] = txn[u] /\ undo'[u] = undo[u] /\ flushes'[u] = flushes[u] /\ locked'[u] = locked[u]
           /\ pc'[u] = pc[u] /\ stmt'[u] = stmt[u] /\ scan'[u] = scan[u]

(* A step of one thread leaves what is another thread's alone.              *)
LEMMA OthersStay ==
  ASSUME TypeInv, NEW s \in Session, Step(s)
  PROVE  /\ process = "serving" /\ UNCHANGED <<recVars, workload>>
         /\ \A u \in Session \ {s} : Same(u)
<1>1. /\ txn \in [Session -> 0 .. MaxBegin] /\ undo \in [Session -> Seq(ChangeType)]
      /\ flushes \in [Session -> SUBSET Table]
      /\ locked \in [Session -> [{"S", "X"} -> SUBSET (Table \X Rid)]]
      /\ pc \in [Session -> Places] /\ stmt \in [Session -> Statements \cup {NoStmt}]
      /\ scan \in [Session -> ScanType]
  BY DEF TypeInv, TxnTypes, StmtTypes
<1>2. DOMAIN txn = Session /\ DOMAIN undo = Session /\ DOMAIN flushes = Session /\ DOMAIN locked = Session
      /\ DOMAIN pc = Session /\ DOMAIN stmt = Session /\ DOMAIN scan = Session
  BY <1>1
<1>3. CASE Begin(s) \/ Start(s)
  BY <1>1, <1>3 DEF Begin, Start, At, recVars, ghostVars, Same
<1>4. CASE InsertRow(s)
  <2>1. PICK e \in Rid :
        /\ undo' = [undo EXCEPT ![s] = Append(@, Change("INSERT", stmt[s].table, e, Empty, stmt[s].to))]
        /\ LockNewRow(s, stmt[s].table, e, "idle")
        /\ scan' = [scan EXCEPT ![s].rid = e]
    BY <1>4, InsertDoes
  <2>2. /\ locked' = locked \/ locked' = [locked EXCEPT ![s]["X"] = @ \cup {<<stmt[s].table, e>>}]
        /\ pc' = [pc EXCEPT ![s] = "idle"] \/ pc' = [pc EXCEPT ![s] = "newrow"]
    BY <2>1 DEF LockNewRow, Locking
  <2> QED
    BY <1>2, <1>4, <2>1, <2>2 DEF InsertRow, At, recVars, ghostVars, Same
<1>5. CASE WaitNewRow(s)
  BY <1>2, <1>5 DEF WaitNewRow, Locking, At, recVars, ghostVars, Same
<1>6. CASE NextRow(s) \/ Reread(s) \/ EndScan(s) \/ EndApply(s) \/ Fail(s)
  BY <1>2, <1>6 DEF NextRow, Reread, EndScan, EndApply, Fail, At, txnVars, recVars, ghostVars, Same
<1>7. CASE LockRow(s)
  BY <1>2, <1>7 DEF LockRow, Locking, At, recVars, ghostVars, Same
<1>8. CASE ApplyDelete(s)
  BY <1>2, <1>8 DEF ApplyDelete, At, recVars, ghostVars, Same
<1>9. CASE ApplyUpdate(s)
  BY <1>2, <1>9, UpdateDoes DEF ApplyUpdate, At, recVars, ghostVars, Same
<1>10. CASE UndoInsert(s) \/ UndoDelete(s) \/ UndoUpdate(s)
  BY <1>2, <1>10 DEF UndoInsert, UndoDelete, UndoUpdate, Undoing, Undone, At, stmtVars, recVars, ghostVars, Same
<1>11. CASE CommitFlush(s) \/ AbortFlush(s)
  BY <1>2, <1>11 DEF CommitFlush, AbortFlush, At, txnVars, recVars, ghostVars, Same
<1>12. CASE Commit(s) \/ Abort(s)
  BY <1>2, <1>12 DEF Commit, Abort, EndTxn, At, recVars, ghostVars, Same
<1> QED
  BY <1>3, <1>4, <1>5, <1>6, <1>7, <1>8, <1>9, <1>10, <1>11, <1>12 DEF Step

(* No transaction runs while the process recovers.                          *)
Resting(s) == txn[s] = 0 /\ undo[s] = <<>> /\ locked[s] = NoLocks /\ pc[s] = "idle" /\ scan[s] = NoScan

RestInv == process # "serving" => \A s \in Session : Resting(s)

(* At first the process serves.                                             *)
LEMMA InitRestInv == Init => RestInv
BY DEF Init, RestInv

(* No thread runs before recovery is over.                                  *)
LEMMA RestInvStep == TypeInv /\ RestInv /\ [Next]_vars => RestInv'
<1> SUFFICES ASSUME TypeInv, RestInv, [Next]_vars PROVE RestInv'
  OBVIOUS
<1>1. CASE UNCHANGED vars
  BY <1>1 DEF vars, txnVars, stmtVars, recVars, RestInv, Resting
<1>2. ASSUME NEW s \in Session, Step(s) PROVE RestInv'
  BY <1>2, OthersStay DEF RestInv, recVars
<1>3. ASSUME NEW t \in Table, NEW r \in Rid, WriteBack(t, r) PROVE RestInv'
  BY <1>3 DEF WriteBack, txnVars, stmtVars, recVars, RestInv, Resting
<1>4. CASE Crash
  BY <1>4 DEF Crash, RestInv, Resting
<1>5. CASE Recover
  BY <1>5 DEF Recover, RecoverInsert, RecoverDelete, RecoverUpdate, RecoverFlush, MarkLoser, Serve,
              Recovering, txnVars, stmtVars, RestInv, Resting
<1> QED
  BY <1>1, <1>2, <1>3, <1>4, <1>5 DEF Next

-----------------------------------------------------------------------------
(* FORCE.  What a thread writes is in a table it will flush.                *)
WillFlush(s) ==
  /\ pc[s] \in {"insert", "newrow", "scan", "lockrow", "reread", "apply"}
       /\ stmt[s].op \in {"insert", "delete", "update"} => stmt[s].table \in flushes[s]
  /\ \A i \in DOMAIN undo[s] : undo[s][i].table \in flushes[s]

FlushInv == \A s \in Session : WillFlush(s)

(* What a step of a thread does to the tables: it flushes, it ends the      *)
(* transaction, it changes nothing, or it writes one slot and logs that.    *)
Flushing(s) == CommitFlush(s) \/ AbortFlush(s)
Ending(s) == Commit(s) \/ Abort(s)
Logging == log' = log \/ \E rec : log' = Append(log, rec)

Working(s) ==
  /\ UNCHANGED disk /\ flushes[s] \subseteq flushes'[s] /\ (txn[s] # 0 => txn'[s] = txn[s])
  /\ pc'[s] \notin {"flushed", "undone"}
  /\ \/ UNCHANGED mem /\ Logging
     \/ \E op, t, r, before, after : Writes(s, op, t, r, before, after) /\ t \in flushes[s]

(* The log grows, and names what is written.                                *)
LEMMA LogGrows ==
  ASSUME TypeInv, NEW id, NEW t, NEW r, Logging, LoggedBy(id, t, r)
  PROVE  LoggedBy(id, t, r)'
<1>1. log \in Seq(LogType)
  BY DEF TypeInv, StoreTypes
<1>2. ASSUME NEW rec PROVE /\ Len(Append(log, rec)) = Len(log) + 1 /\ Len(log) \in Nat
                           /\ DOMAIN log = 1 .. Len(log) /\ DOMAIN Append(log, rec) = 1 .. Len(log) + 1
                           /\ Append(log, rec)[Len(log) + 1] = rec
                           /\ \A i \in 1 .. Len(log) : Append(log, rec)[i] = log[i]
  BY <1>1
<1>3. CASE log' = log
  BY <1>3 DEF LoggedBy
<1>4. ASSUME NEW rec, log' = Append(log, rec) PROVE LoggedBy(id, t, r)'
  <2>1. PICK i \in DOMAIN log : /\ log[i].kind = "DATA" /\ log[i].id = id
                                /\ log[i].table = t /\ r \in {log[i].rid, log[i].new}
    BY DEF LoggedBy
  <2>2. i \in DOMAIN log' /\ log'[i] = log[i]
    BY <1>2, <1>4, <2>1
  <2> QED
    BY <2>1, <2>2 DEF LoggedBy
<1> QED
  BY <1>3, <1>4 DEF Logging

(* A write that is logged is in the log, under its transaction's id.        *)
LEMMA LogNames ==
  ASSUME TypeInv, NEW s \in Session, NEW op, NEW t, NEW r, NEW before, NEW after, Logs(s, op, t, r, before, after)
  PROVE  /\ Logging
         /\ \E i \in DOMAIN log' : /\ log'[i].kind = "DATA" /\ log'[i].id = txn[s]
                                   /\ log'[i].table = t /\ r \in {log'[i].rid, log'[i].new}
<1> DEFINE rec == Data(txn[s], op, t, r, r, before, after)
<1>1. log' = Append(log, rec) /\ log \in Seq(LogType)
  BY DEF Logs, TypeInv, StoreTypes
<1>2. rec.kind = "DATA" /\ rec.id = txn[s] /\ rec.table = t /\ rec.rid = r
  BY DEF Data
<1> HIDE DEF rec
<1>3. Len(log) + 1 \in DOMAIN log' /\ log'[Len(log) + 1] = rec
  BY <1>1
<1> QED
  BY <1>1, <1>2, <1>3 DEF Logging

(* What a thread's step does to the tables and the log.                     *)
LEMMA StepStores ==
  ASSUME TypeInv, FlushInv, NEW s \in Session, Step(s)
  PROVE  Flushing(s) \/ Ending(s) \/ Working(s)
<1>1. /\ txn \in [Session -> 0 .. MaxBegin] /\ pc \in [Session -> Places]
      /\ flushes \in [Session -> SUBSET Table] /\ WillFlush(s)
  BY DEF TypeInv, TxnTypes, StmtTypes, FlushInv
<1>2. CASE Begin(s) \/ Start(s)
  BY <1>1, <1>2 DEF Begin, Start, At, storeVars, Working, Logging
<1>3. CASE InsertRow(s)
  <2>1. PICK e : /\ Writes(s, "INSERT", stmt[s].table, e, Empty, stmt[s].to)
                 /\ LockNewRow(s, stmt[s].table, e, "idle")
    BY <1>3, InsertDoes
  <2>2. stmt[s].op = "insert" /\ pc[s] = "insert" /\ UNCHANGED <<disk, txn, flushes>>
    BY <1>3, SessionIs DEF InsertRow, At, RunsStatement
  <2>3. pc'[s] \in {"idle", "newrow"}
    BY <1>1, <2>1 DEF LockNewRow
  <2> QED
    BY <1>1, <2>1, <2>2, <2>3 DEF WillFlush, Working
<1>4. CASE WaitNewRow(s) \/ NextRow(s) \/ LockRow(s) \/ Reread(s) \/ EndScan(s) \/ EndApply(s) \/ Fail(s)
  <2>1. UNCHANGED <<storeVars, txn, flushes>>
    BY <1>4 DEF WaitNewRow, NextRow, LockRow, Reread, EndScan, EndApply, Fail, txnVars
  <2>2. pc'[s] \notin {"flushed", "undone"}
    BY <1>1, <1>4 DEF WaitNewRow, NextRow, LockRow, Reread, EndScan, EndApply, Fail, At
  <2> QED
    BY <2>1, <2>2 DEF storeVars, Working, Logging
<1>5. CASE ApplyDelete(s) \/ ApplyUpdate(s)
  <2>1. \E op, r, before, after : Writes(s, op, stmt[s].table, r, before, after)
    <3>1. ASSUME ApplyDelete(s) PROVE \E op, r, before, after : Writes(s, op, stmt[s].table, r, before, after)
      BY <3>1, DeleteDoes
    <3>2. ASSUME ApplyUpdate(s) PROVE \E op, r, before, after : Writes(s, op, stmt[s].table, r, before, after)
      BY <3>2, UpdateDoes
    <3> QED
      BY <1>5, <3>1, <3>2
  <2>2. stmt[s].op \in {"delete", "update"} /\ pc[s] = "apply" /\ UNCHANGED <<disk, txn, flushes, pc>>
    BY <1>5, UpdateDoes DEF ApplyDelete, ApplyUpdate, At
  <2> QED
    BY <1>1, <2>1, <2>2 DEF WillFlush, Working
<1>6. CASE UndoInsert(s) \/ UndoDelete(s) \/ UndoUpdate(s)
  <2> DEFINE t == undo[s][Len(undo[s])].table
  <2>1. /\ undo[s] # <<>> /\ pc[s] = "abort" /\ UNCHANGED <<disk, txn, flushes, pc>>
    BY <1>6 DEF UndoInsert, UndoDelete, UndoUpdate, Undoing, At, stmtVars
  <2>2. t \in flushes[s]
    <3>1. Len(undo[s]) \in DOMAIN undo[s]
      <4> DEFINE q == undo[s]
                 C == ChangeType
      <4>1. q \in Seq(C) /\ q # <<>>
        BY <2>1, SessionIs
      <4> HIDE DEF q, C
      <4>2. Len(q) \in DOMAIN q
        BY <4>1
      <4> QED
        BY <4>2 DEF q
    <3> QED
      BY <1>1, <3>1 DEF WillFlush
  <2>3. UNCHANGED <<mem, log>> \/ \E op, r, before, after : Writes(s, op, t, r, before, after)
    <3>1. CASE UndoInsert(s)
      BY <3>1, UndoInsertDoes
    <3>2. CASE UndoDelete(s)
      BY <3>2, UndoDeleteDoes
    <3>3. CASE UndoUpdate(s)
      BY <3>3, UndoUpdateDoes
    <3> QED
      BY <1>6, <3>1, <3>2, <3>3
  <2> HIDE DEF t
  <2> QED
    BY <2>1, <2>2, <2>3 DEF Working, Logging
<1> QED
  BY <1>2, <1>3, <1>4, <1>5, <1>6 DEF Step, Flushing, Ending

(* What one more change, or one less, does to an undo list.                 *)
LEMMA UndoGrows ==
  ASSUME TypeInv, NEW s \in Session, NEW c \in ChangeType, undo' = [undo EXCEPT ![s] = Append(@, c)]
  PROVE  /\ Len(undo'[s]) = Len(undo[s]) + 1 /\ DOMAIN undo'[s] = DOMAIN undo[s] \cup {Len(undo'[s])}
         /\ DOMAIN undo[s] = 1 .. Len(undo[s]) /\ Len(undo[s]) \in Nat
         /\ undo'[s][Len(undo'[s])] = c /\ \A i \in DOMAIN undo[s] : undo'[s][i] = undo[s][i]
         /\ undo'[s] # undo[s]
<1> DEFINE q == undo[s]
           p == Append(q, c)
           C == ChangeType
<1>1. undo \in [Session -> Seq(C)] /\ undo'[s] = p
  BY DEF TypeInv, TxnTypes
<1>2. q \in Seq(C) /\ c \in C
  BY <1>1
<1> HIDE DEF q, C
<1>3. /\ Len(p) = Len(q) + 1 /\ DOMAIN p = DOMAIN q \cup {Len(p)} /\ DOMAIN q = 1 .. Len(q) /\ Len(q) \in Nat
      /\ p[Len(p)] = c /\ \A i \in DOMAIN q : p[i] = q[i]
  BY <1>2
<1> HIDE DEF p
<1>4. p # q
  BY <1>3
<1> QED
  BY <1>1, <1>3, <1>4 DEF q

(* At first nothing is to be flushed.                                       *)
LEMMA InitFlushInv == Init => FlushInv
BY DEF Init, FlushInv, WillFlush

(* Every step keeps the tables to flush.                                    *)
LEMMA FlushInvStep == TypeInv /\ FlushInv /\ [Next]_vars => FlushInv'
<1> SUFFICES ASSUME TypeInv, FlushInv, [Next]_vars PROVE FlushInv'
  OBVIOUS
<1>0. /\ pc \in [Session -> Places] /\ stmt \in [Session -> Statements \cup {NoStmt}]
      /\ flushes \in [Session -> SUBSET Table]
  BY DEF TypeInv, TxnTypes, StmtTypes
<1>1. ASSUME UNCHANGED <<undo, flushes, pc, stmt>> PROVE FlushInv'
  BY <1>1 DEF FlushInv, WillFlush
<1>2. ASSUME NEW s \in Session, Step(s) PROVE FlushInv'
  <2>1. WillFlush(s) /\ \A u \in Session \ {s} : WillFlush(u)'
    BY <1>2, OthersStay DEF FlushInv, WillFlush, Same
  <2> SUFFICES WillFlush(s)'
    BY <2>1 DEF FlushInv
  <2>2. CASE Begin(s)
    BY <1>0, <2>1, <2>2 DEF Begin, WillFlush
  <2>3. CASE Start(s)
    <3>1. PICK st \in Statements :
            /\ stmt' = [stmt EXCEPT ![s] = st]
            /\ flushes' = [flushes EXCEPT ![s] = IF st.op = "select" THEN @ ELSE @ \cup {st.table}]
      BY <2>3 DEF Start
    <3>2. undo' = undo /\ stmt'[s] = st /\ flushes'[s] = IF st.op = "select" THEN flushes[s] ELSE flushes[s] \cup {st.table}
      BY <1>0, <2>3, <3>1 DEF Start
    <3> QED
      BY <2>1, <3>2 DEF WillFlush
  <2>4. CASE InsertRow(s)
    <3>1. PICK e : /\ Writes(s, "INSERT", stmt[s].table, e, Empty, stmt[s].to)
                   /\ undo' = [undo EXCEPT ![s] = Append(@, Change("INSERT", stmt[s].table, e, Empty, stmt[s].to))]
                   /\ LockNewRow(s, stmt[s].table, e, "idle")
      BY <2>4, InsertDoes
    <3>2. pc[s] = "insert" /\ stmt[s].op = "insert" /\ UNCHANGED <<disk, flushes, stmt>>
      BY <2>4, SessionIs DEF InsertRow, At, RunsStatement
    <3> DEFINE c == Change("INSERT", stmt[s].table, e, Empty, stmt[s].to)
    <3>3. c \in ChangeType
      BY <3>1, <3>2, WriteTypes
    <3>4. c.table = stmt[s].table
      BY DEF Change
    <3>5. undo' = [undo EXCEPT ![s] = Append(@, c)]
      BY <3>1
    <3> HIDE DEF c
    <3>6. \A i \in DOMAIN undo'[s] : undo'[s][i] = c \/ (i \in DOMAIN undo[s] /\ undo'[s][i] = undo[s][i])
      BY <3>3, <3>5, UndoGrows
    <3> QED
      BY <2>1, <3>2, <3>4, <3>6 DEF WillFlush
  <2>5. CASE WaitNewRow(s) \/ NextRow(s) \/ LockRow(s) \/ Reread(s) \/ EndScan(s) \/ EndApply(s) \/ Fail(s)
    <3>1. UNCHANGED <<undo, flushes, stmt>>
      BY <2>5 DEF WaitNewRow, NextRow, LockRow, Reread, EndScan, EndApply, Fail, txnVars
    <3>2. \/ pc'[s] \in {"idle", "abort"}
          \/ /\ pc[s] \in {"insert", "newrow", "scan", "lockrow", "reread", "apply"}
      BY <1>0, <2>5 DEF WaitNewRow, NextRow, LockRow, Reread, EndScan, EndApply, Fail, At
    <3> QED
      BY <2>1, <3>1, <3>2 DEF WillFlush
  <2>6. CASE ApplyDelete(s) \/ ApplyUpdate(s)
    <3> DEFINE m == Head(scan[s].matches)
    <3>1. /\ UNCHANGED <<disk, flushes, stmt, pc>> /\ pc[s] = "apply" /\ stmt[s].op \in {"delete", "update"}
      BY <2>6, UpdateDoes DEF ApplyDelete, ApplyUpdate, At
    <3>2. PICK op, after : /\ Writes(s, op, stmt[s].table, m.rid, m.row, after)
                           /\ undo' = [undo EXCEPT ![s] = Append(@, Change(op, stmt[s].table, m.rid, m.row, after))]
      <4>1. CASE ApplyDelete(s)
        BY <4>1, DeleteDoes
      <4>2. CASE ApplyUpdate(s)
        <5>1. /\ Writes(s, "UPDATE", stmt[s].table, m.rid, m.row, stmt[s].to)
              /\ undo' = [undo EXCEPT ![s] = Append(@, Change("UPDATE", stmt[s].table, m.rid, m.row, stmt[s].to))]
          BY <4>2, UpdateDoes
        <5> QED
          BY <5>1
      <4> QED
        BY <2>6, <4>1, <4>2
    <3> HIDE DEF m
    <3> DEFINE c == Change(op, stmt[s].table, m.rid, m.row, after)
    <3>3. c \in ChangeType
      BY <3>1, <3>2, WriteTypes
    <3>4. c.table = stmt[s].table
      BY DEF Change
    <3>5. undo' = [undo EXCEPT ![s] = Append(@, c)]
      BY <3>2
    <3> HIDE DEF c
    <3>6. \A i \in DOMAIN undo'[s] : undo'[s][i] = c \/ (i \in DOMAIN undo[s] /\ undo'[s][i] = undo[s][i])
      BY <3>3, <3>5, UndoGrows
    <3> QED
      BY <2>1, <3>1, <3>4, <3>6 DEF WillFlush
  <2>7. CASE UndoInsert(s) \/ UndoDelete(s) \/ UndoUpdate(s)
    <3>1. /\ undo[s] # <<>> /\ Undone(s) /\ UNCHANGED <<flushes, pc, stmt>>
      BY <2>7 DEF UndoInsert, UndoDelete, UndoUpdate, Undoing, stmtVars
    <3>2. \A i \in DOMAIN undo'[s] : i \in DOMAIN undo[s] /\ undo'[s][i] = undo[s][i]
      BY <3>1, UndoneTypes
    <3> QED
      BY <2>1, <3>1, <3>2 DEF WillFlush
  <2>8. CASE CommitFlush(s) \/ AbortFlush(s)
    BY <1>0, <2>1, <2>8 DEF CommitFlush, AbortFlush, txnVars, WillFlush
  <2>9. CASE Commit(s) \/ Abort(s)
    BY <1>0, <2>9 DEF Commit, Abort, EndTxn, WillFlush, TypeInv, TxnTypes
  <2> QED
    BY <1>2, <2>2, <2>3, <2>4, <2>5, <2>6, <2>7, <2>8, <2>9 DEF Step
<1>3. ASSUME NEW t \in Table, NEW r \in Rid, WriteBack(t, r) PROVE FlushInv'
  BY <1>1, <1>3 DEF WriteBack, txnVars, stmtVars
<1>4. CASE Crash
  BY <1>4 DEF Crash, FlushInv, WillFlush
<1>5. CASE Recover
  BY <1>1, <1>5 DEF Recover, RecoverInsert, RecoverDelete, RecoverUpdate, RecoverFlush, MarkLoser, Serve,
                    Recovering, txnVars, stmtVars
<1>6. CASE UNCHANGED vars
  BY <1>1, <1>6 DEF vars, txnVars, stmtVars
<1> QED
  BY <1>2, <1>3, <1>4, <1>5, <1>6 DEF Next

(* What is not on disk is a thread's that still has to flush it.            *)
DirtyWith(s, t, r) ==
  txn[s] # 0 /\ pc[s] \notin {"flushed", "undone"} /\ t \in flushes[s] /\ LoggedBy(txn[s], t, r)

ForceInv ==
  /\ FlushInv
  /\ process = "marking" => mem = disk
  /\ process = "serving" =>
       \A t \in Table, r \in Rid : mem[t][r] # disk[t][r] => \E s \in Session : DirtyWith(s, t, r)

(* Every step keeps FORCE.                                                  *)
LEMMA ForceInvStep == TypeInv /\ RestInv /\ ForceInv /\ [Next]_vars => ForceInv'
<1> SUFFICES ASSUME TypeInv, RestInv, ForceInv, [Next]_vars PROVE ForceInv'
  OBVIOUS
<1>0. FlushInv /\ FlushInv'
  BY FlushInvStep DEF ForceInv
<1>1. CASE UNCHANGED vars
  BY <1>0, <1>1 DEF vars, storeVars, txnVars, stmtVars, recVars, ForceInv, DirtyWith, LoggedBy
<1>2. ASSUME NEW s \in Session, Step(s) PROVE ForceInv'
  <2>1. /\ process = "serving" /\ process' = "serving" /\ \A u \in Session \ {s} : Same(u)
    BY <1>2, OthersStay DEF recVars
  <2> SUFFICES ASSUME NEW t \in Table, NEW r \in Rid, mem'[t][r] # disk'[t][r]
               PROVE  \E u \in Session : DirtyWith(u, t, r)'
    BY <1>0, <2>1 DEF ForceInv
  <2>2. mem[t][r] # disk[t][r] => \E u \in Session : DirtyWith(u, t, r)
    BY <2>1 DEF ForceInv
  <2>3. ASSUME Logging, NEW u \in Session \ {s}, DirtyWith(u, t, r) PROVE DirtyWith(u, t, r)'
    <3>1. txn'[u] = txn[u] /\ flushes'[u] = flushes[u] /\ pc'[u] = pc[u]
      BY <2>1 DEF Same
    <3> DEFINE id == txn[u]
    <3>2. LoggedBy(id, t, r)
      BY <2>3 DEF DirtyWith
    <3>3. LoggedBy(id, t, r) => \E i \in DOMAIN log' : /\ log'[i].kind = "DATA" /\ log'[i].id = id
                                                       /\ log'[i].table = t /\ r \in {log'[i].rid, log'[i].new}
      BY <2>3, LogGrows DEF LoggedBy
    <3> QED
      BY <2>3, <3>1, <3>2, <3>3 DEF DirtyWith, LoggedBy
  <2>4. CASE Flushing(s)
    <3>1. /\ UNCHANGED <<mem, log>> /\ disk' = Flushed(s)
      BY <2>4 DEF Flushing, CommitFlush, AbortFlush
    <3>2. t \notin flushes[s] /\ mem[t][r] # disk[t][r]
      BY <3>1 DEF Flushed
    <3>3. PICK u \in Session : DirtyWith(u, t, r)
      BY <2>2, <3>2
    <3>4. u # s /\ Logging
      BY <3>1, <3>2, <3>3 DEF DirtyWith, Logging
    <3> QED
      BY <2>3, <3>3, <3>4
  <2>5. CASE Ending(s)
    <3>1. /\ UNCHANGED <<mem, disk>> /\ Logging /\ pc[s] \in {"flushed", "undone"}
      BY <2>5 DEF Ending, Commit, Abort, At, Logging
    <3>2. PICK u \in Session : DirtyWith(u, t, r)
      BY <2>2, <3>1
    <3>3. u # s
      BY <3>1, <3>2 DEF DirtyWith
    <3> QED
      BY <2>3, <3>1, <3>2, <3>3
  <2>6. CASE Working(s)
    <3>1. /\ UNCHANGED disk /\ flushes[s] \subseteq flushes'[s] /\ (txn[s] # 0 => txn'[s] = txn[s])
          /\ pc'[s] \notin {"flushed", "undone"}
      BY <2>6 DEF Working
    <3>2. ASSUME Logging, DirtyWith(s, t, r) PROVE DirtyWith(s, t, r)'
      <4> DEFINE id == txn[s]
      <4>1. LoggedBy(id, t, r) /\ txn'[s] = id /\ id # 0 /\ t \in flushes'[s]
        BY <3>1, <3>2 DEF DirtyWith
      <4>2. LoggedBy(id, t, r) => \E i \in DOMAIN log' : /\ log'[i].kind = "DATA" /\ log'[i].id = id
                                                         /\ log'[i].table = t /\ r \in {log'[i].rid, log'[i].new}
        BY <3>2, LogGrows DEF LoggedBy
      <4> QED
        BY <3>1, <4>1, <4>2 DEF DirtyWith, LoggedBy
    <3>3. CASE UNCHANGED mem /\ Logging
      <4>1. PICK u \in Session : DirtyWith(u, t, r)
        BY <2>2, <3>1, <3>3
      <4> QED
        BY <2>3, <3>2, <3>3, <4>1
    <3>4. ASSUME NEW op, NEW tt, NEW rr, NEW before, NEW after,
                 Writes(s, op, tt, rr, before, after), tt \in flushes[s]
          PROVE  \E u \in Session : DirtyWith(u, t, r)'
      <4>1. Logs(s, op, tt, rr, before, after) /\ txn[s] \in 1 .. MaxBegin
        BY <3>4 DEF Writes
      <4>2. Logging
        BY <4>1, LogNames
      <4>3. CASE t = tt /\ r = rr
        <5> DEFINE id == txn[s]
        <5>1. txn'[s] = id /\ id # 0 /\ t \in flushes'[s]
          BY <3>1, <3>4, <4>1, <4>3
        <5>2. \E i \in DOMAIN log' : /\ log'[i].kind = "DATA" /\ log'[i].id = id
                                     /\ log'[i].table = t /\ r \in {log'[i].rid, log'[i].new}
          BY <4>1, <4>3, LogNames
        <5> QED
          BY <3>1, <5>1, <5>2 DEF DirtyWith, LoggedBy
      <4>4. CASE ~ (t = tt /\ r = rr)
        <5>1. mem'[t][r] = mem[t][r]
          BY <3>1, <3>4, <4>4, WriteTypes
        <5>2. PICK u \in Session : DirtyWith(u, t, r)
          BY <2>2, <3>1, <5>1
        <5> QED
          BY <2>3, <3>2, <4>2, <5>2
      <4> QED
        BY <4>3, <4>4
    <3> QED
      BY <2>6, <3>3, <3>4 DEF Working
  <2> QED
    BY <1>0, <1>2, <2>4, <2>5, <2>6, StepStores
<1>3. ASSUME NEW t \in Table, NEW r \in Rid, WriteBack(t, r) PROVE ForceInv'
  <2>1. /\ \A u \in Table, q \in Rid : disk'[u][q] = IF u = t /\ q = r THEN mem[u][q] ELSE disk[u][q]
        /\ disk[t][r] # mem[t][r] /\ UNCHANGED <<mem, log, txn, pc, flushes, process>>
    BY <1>3, WriteBackTypes DEF WriteBack, txnVars, stmtVars, recVars
  <2>2. process # "marking"
    BY <2>1 DEF ForceInv
  <2> QED
    BY <1>0, <2>1, <2>2 DEF ForceInv, DirtyWith, LoggedBy
<1>4. CASE Crash
  BY <1>0, <1>4 DEF Crash, ForceInv
<1>5. CASE Recover
  <2>1. CASE RecoverRecord
    BY <1>0, <2>1, RecoverDoes DEF ForceInv
  <2>2. CASE RecoverFlush
    BY <1>0, <2>2 DEF RecoverFlush, ForceInv
  <2>3. CASE MarkLoser
    BY <1>0, <2>3 DEF MarkLoser, ForceInv
  <2>4. CASE Serve
    BY <1>0, <2>4 DEF Serve, ForceInv, storeVars
  <2> QED
    BY <1>5, <2>1, <2>2, <2>3, <2>4 DEF Recover, RecoverRecord
<1> QED
  BY <1>1, <1>2, <1>3, <1>4, <1>5 DEF Next

(* FORCE: whatever is not on disk belongs to a transaction that is still    *)
(* running and has logged it, so that a COMMIT or ABORT record is written   *)
(* when all its transaction did is on disk: nothing has to be redone.       *)
THEOREM ForcedAlways == Spec /\ FixedLength => []Forced
<1>1. Init => ForceInv
  BY InitFlushInv DEF Init, ForceInv
<1>2. TypeInv /\ RestInv /\ ForceInv => Forced
  BY DEF ForceInv, Forced, DirtyWith
<1> QED
  BY <1>1, <1>2, InitTypeInv, TypeInvStep, InitRestInv, RestInvStep, ForceInvStep, PTL DEF Spec

-----------------------------------------------------------------------------
(* Row locks: an exclusive lock excludes every other lock on the row, and a *)
(* statement holds the locks of the rows it has matched.                    *)
Mode(s) == IF stmt[s].op = "select" THEN "S" ELSE "X"

Exclusive ==
  \A s, u \in Session : \A t \in Table, r \in Rid :
    s # u /\ <<t, r>> \in locked[u]["X"] => <<t, r>> \notin locked[s]["S"] \cup locked[s]["X"]

HoldsItsRows(s) ==
  /\ pc[s] \in {"scan", "lockrow", "reread", "apply"} =>
       \A i \in DOMAIN scan[s].matches : <<stmt[s].table, scan[s].matches[i].rid>> \in locked[s][Mode(s)]
  /\ pc[s] = "reread" => <<stmt[s].table, scan[s].rid>> \in locked[s][Mode(s)]

LockInv == Exclusive /\ \A s \in Session : HoldsItsRows(s)

(* A thread takes one lock, or gives up all it has.                         *)
LEMMA LockStep ==
  ASSUME TypeInv, NEW s \in Session, Step(s)
  PROVE  \/ locked' = locked
         \/ locked' = [locked EXCEPT ![s] = NoLocks] /\ Ending(s)
         \/ \E m \in {"S", "X"}, t \in Table, r \in Rid : Lockable(s, m, t, r) /\ locked' = Locking(s, m, t, r)
<1>1. CASE InsertRow(s)
  <2>1. PICK e \in Rid : /\ Writes(s, "INSERT", stmt[s].table, e, Empty, stmt[s].to)
                         /\ LockNewRow(s, stmt[s].table, e, "idle")
    BY <1>1, InsertDoes
  <2> QED
    BY <2>1 DEF LockNewRow, Writes
<1>2. CASE WaitNewRow(s)
  BY <1>2, SessionIs, StmtIs DEF WaitNewRow, At, RunsStatement
<1>3. CASE LockRow(s)
  <2>1. stmt[s].table \in Table /\ scan[s].rid \in Rid
    BY <1>3, SessionIs, StmtIs DEF LockRow, At, RunsStatement
  <2>2. Lockable(s, Mode(s), stmt[s].table, scan[s].rid) /\ locked' = Locking(s, Mode(s), stmt[s].table, scan[s].rid)
    BY <1>3 DEF LockRow, Mode
  <2>3. Mode(s) \in {"S", "X"}
    BY DEF Mode
  <2> QED
    BY <2>1, <2>2, <2>3
<1>4. CASE ApplyUpdate(s)
  BY <1>4, UpdateDoes
<1>5. CASE Ending(s)
  BY <1>5 DEF Ending, Commit, Abort, EndTxn
<1>6. CASE \/ Begin(s) \/ Start(s) \/ NextRow(s) \/ Reread(s) \/ EndScan(s) \/ ApplyDelete(s) \/ EndApply(s)
           \/ CommitFlush(s) \/ Fail(s) \/ UndoInsert(s) \/ UndoDelete(s) \/ UndoUpdate(s) \/ AbortFlush(s)
  BY <1>6 DEF Begin, Start, NextRow, Reread, EndScan, ApplyDelete, EndApply, CommitFlush, Fail,
              UndoInsert, UndoDelete, UndoUpdate, AbortFlush, txnVars
<1> QED
  BY <1>1, <1>2, <1>3, <1>4, <1>5, <1>6 DEF Step, Ending

(* A lock that is granted leaves the exclusive locks exclusive.             *)
LEMMA ExclusiveStep ==
  ASSUME TypeInv, Exclusive, NEW s \in Session, Step(s)
  PROVE  Exclusive'
<1>1. locked \in [Session -> [{"S", "X"} -> SUBSET (Table \X Rid)]]
  BY DEF TypeInv, TxnTypes
<1>2. CASE locked' = locked
  BY <1>2 DEF Exclusive
<1>3. CASE locked' = [locked EXCEPT ![s] = NoLocks]
  BY <1>1, <1>3 DEF Exclusive, NoLocks
<1>4. ASSUME NEW m \in {"S", "X"}, NEW t \in Table, NEW r \in Rid, Lockable(s, m, t, r), locked' = Locking(s, m, t, r)
      PROVE  Exclusive'
  <2>1. /\ locked'[s][m] = locked[s][m] \cup {<<t, r>>} /\ \A n \in {"S", "X"} \ {m} : locked'[s][n] = locked[s][n]
        /\ \A u \in Session \ {s} : locked'[u] = locked[u]
    BY <1>1, <1>4 DEF Locking
  <2> SUFFICES ASSUME NEW a \in Session, NEW b \in Session, NEW tt \in Table, NEW rr \in Rid,
                      a # b, <<tt, rr>> \in locked'[b]["X"]
               PROVE  <<tt, rr>> \notin locked'[a]["S"] \cup locked'[a]["X"]
    BY DEF Exclusive
  <2>2. CASE <<tt, rr>> = <<t, r>> /\ (a = s \/ b = s)
    <3>1. \A u \in Session \ {s} : /\ <<t, r>> \notin locked[u]["X"]
                                   /\ m = "X" => <<t, r>> \notin locked[u]["S"]
      BY <1>4 DEF Lockable
    <3>2. CASE a = s
      BY <2>1, <2>2, <3>1, <3>2
    <3>3. CASE b = s
      <4>1. CASE m = "X"
        BY <2>1, <2>2, <3>1, <3>3, <4>1
      <4>2. CASE m = "S"
        BY <2>1, <2>2, <3>3, <4>2 DEF Exclusive
      <4> QED
        BY <4>1, <4>2
    <3> QED
      BY <2>2, <3>2, <3>3
  <2>3. CASE ~ (<<tt, rr>> = <<t, r>> /\ (a = s \/ b = s))
    <3>1. \A u \in {a, b}, n \in {"S", "X"} : <<tt, rr>> \in locked'[u][n] => <<tt, rr>> \in locked[u][n]
      BY <2>1, <2>3
    <3> QED
      BY <3>1 DEF Exclusive
  <2> QED
    BY <2>2, <2>3
<1> QED
  BY <1>2, <1>3, <1>4, LockStep

(* What a lock taken leaves held.                                           *)
LEMMA LocksGrow ==
  ASSUME TypeInv, NEW s \in Session, NEW m \in {"S", "X"}, NEW t \in Table, NEW r \in Rid,
         locked' = Locking(s, m, t, r)
  PROVE  <<t, r>> \in locked'[s][m] /\ \A n \in {"S", "X"} : locked[s][n] \subseteq locked'[s][n]
BY DEF TypeInv, TxnTypes, Locking

(* The matches of a statement when it has read one more row, or used one.   *)
LEMMA MatchesGrow ==
  ASSUME TypeInv, NEW s \in Session, Reread(s)
  PROVE  LET q == scan[s].matches
             x == [rid |-> scan[s].rid, row |-> Get(mem[stmt[s].table], scan[s].rid)]
         IN /\ scan'[s].matches = IF x.row \in stmt[s].where THEN Append(q, x) ELSE q
            /\ scan'[s].next = scan[s].next /\ scan'[s].rid = scan[s].rid
            /\ \A i \in DOMAIN scan'[s].matches :
                 \/ i \in DOMAIN q /\ scan'[s].matches[i] = q[i]
                 \/ i = Len(q) + 1 /\ scan'[s].matches[i] = x /\ x.row \in stmt[s].where
            /\ DOMAIN q = 1 .. Len(q) /\ Len(q) \in Nat
<1> DEFINE Q == Seq([rid : Rid, row : Row])
           q == scan[s].matches
           x == [rid |-> scan[s].rid, row |-> Get(mem[stmt[s].table], scan[s].rid)]
           p == IF x.row \in stmt[s].where THEN Append(q, x) ELSE q
<1>1. scan \in [Session -> [next : Rid \cup {0}, rid : Rid \cup {0}, matches : Q]] /\ q \in Q
  BY SessionIs DEF TypeInv, StmtTypes, ScanType
<1>2. scan' = [scan EXCEPT ![s].matches = p]
  BY DEF Reread
<1>3. \E C : q \in Seq(C)
  BY <1>1
<1> HIDE DEF Q, q, x
<1>4. /\ \A i \in DOMAIN p : \/ i \in DOMAIN q /\ p[i] = q[i]
                             \/ i = Len(q) + 1 /\ p[i] = x /\ x.row \in stmt[s].where
      /\ DOMAIN q = 1 .. Len(q) /\ Len(q) \in Nat
  BY <1>3
<1>5. p = IF x.row \in stmt[s].where THEN Append(q, x) ELSE q
  OBVIOUS
<1> HIDE DEF p
<1>6. scan'[s].matches = p /\ scan'[s].next = scan[s].next /\ scan'[s].rid = scan[s].rid
  BY <1>1, <1>2
<1> QED
  BY <1>4, <1>5, <1>6 DEF q, x

(* A change takes the first match off the list.                             *)
LEMMA MatchesShrink ==
  ASSUME TypeInv, NEW s \in Session, ApplyDelete(s) \/ ApplyUpdate(s)
  PROVE  LET q == scan[s].matches
         IN /\ scan'[s].matches = Tail(q)
            /\ DOMAIN q = 1 .. Len(q) /\ Len(q) \in Nat \ {0} /\ Head(q) = q[1]
            /\ \A i \in DOMAIN Tail(q) : i + 1 \in DOMAIN q /\ i \in Nat \ {0} /\ Tail(q)[i] = q[i + 1]
<1> DEFINE Q == Seq([rid : Rid, row : Row])
           q == scan[s].matches
<1>1. /\ scan \in [Session -> [next : Rid \cup {0}, rid : Rid \cup {0}, matches : Q]] /\ q \in Q
      /\ q # <<>>
  BY SessionIs DEF TypeInv, StmtTypes, ScanType, ApplyDelete, ApplyUpdate
<1>2. \/ scan' = [scan EXCEPT ![s].matches = Tail(q)]
      \/ scan' = [scan EXCEPT ![s] = [@ EXCEPT !.rid = Head(q).rid, !.matches = Tail(q)]]
  BY UpdateDoes DEF ApplyDelete
<1>3. \E C : q \in Seq(C)
  BY <1>1
<1> HIDE DEF Q, q
<1>4. /\ DOMAIN q = 1 .. Len(q) /\ Len(q) \in Nat \ {0} /\ Head(q) = q[1]
      /\ \A i \in DOMAIN Tail(q) : i + 1 \in DOMAIN q /\ i \in Nat \ {0} /\ Tail(q)[i] = q[i + 1]
  BY <1>1, <1>3
<1>5. scan'[s].matches = Tail(q)
  BY <1>1, <1>2
<1> QED
  BY <1>4, <1>5 DEF q

(* Every step keeps the row locks in order.                                 *)
LEMMA LockInvStep == TypeInv /\ LockInv /\ [Next]_vars => LockInv'
<1> SUFFICES ASSUME TypeInv, LockInv, [Next]_vars PROVE LockInv'
  OBVIOUS
<1>0. /\ pc \in [Session -> Places] /\ stmt \in [Session -> Statements \cup {NoStmt}]
      /\ locked \in [Session -> [{"S", "X"} -> SUBSET (Table \X Rid)]] /\ scan \in [Session -> ScanType]
  BY DEF TypeInv, TxnTypes, StmtTypes
<1>1. ASSUME UNCHANGED <<locked, pc, stmt, scan>> PROVE LockInv'
  BY <1>1 DEF LockInv, Exclusive, HoldsItsRows, Mode
<1>2. ASSUME NEW s \in Session, Step(s) PROVE LockInv'
  <2>1. Exclusive' /\ HoldsItsRows(s)
    BY <1>2, ExclusiveStep DEF LockInv
  <2>2. \A u \in Session \ {s} : HoldsItsRows(u)'
    BY <1>2, OthersStay DEF LockInv, HoldsItsRows, Mode, Same
  <2> SUFFICES HoldsItsRows(s)'
    BY <2>1, <2>2 DEF LockInv
  <2>3. CASE Begin(s)
    BY <1>0, <2>1, <2>3 DEF Begin, HoldsItsRows, Mode
  <2>4. CASE Start(s)
    BY <1>0, <2>4 DEF Start, HoldsItsRows, NoScan
  <2>5. CASE InsertRow(s) \/ WaitNewRow(s)
    <3>1. pc'[s] \in {"idle", "newrow"}
      <4>1. CASE InsertRow(s)
        BY <1>0, <4>1, InsertDoes DEF LockNewRow
      <4>2. CASE WaitNewRow(s)
        BY <1>0, <4>2, SessionIs DEF WaitNewRow, At, RunsStatement
      <4> QED
        BY <2>5, <4>1, <4>2
    <3> QED
      BY <3>1 DEF HoldsItsRows
  <2>6. CASE NextRow(s)
    <3>1. scan'[s].matches = scan[s].matches /\ pc'[s] # "reread" /\ pc[s] = "scan" /\ UNCHANGED <<locked, stmt>>
      BY <1>0, <2>6 DEF NextRow, txnVars, ScanType, At
    <3> QED
      BY <2>1, <3>1 DEF HoldsItsRows, Mode
  <2>7. CASE LockRow(s)
    <3>1. stmt[s].table \in Table /\ scan[s].rid \in Rid
      BY <2>7, SessionIs, StmtIs DEF LockRow, At, RunsStatement
    <3>2. locked' = Locking(s, Mode(s), stmt[s].table, scan[s].rid) /\ Mode(s) \in {"S", "X"}
      BY <2>7 DEF LockRow, Mode
    <3>3. pc[s] = "lockrow" /\ UNCHANGED <<stmt, scan>> /\ Mode(s)' = Mode(s)
      BY <2>7 DEF LockRow, At, Mode
    <3>4. /\ <<stmt[s].table, scan[s].rid>> \in locked'[s][Mode(s)]
          /\ locked[s][Mode(s)] \subseteq locked'[s][Mode(s)]
      BY <3>1, <3>2, LocksGrow
    <3> QED
      BY <2>1, <3>3, <3>4 DEF HoldsItsRows
  <2>8. CASE Reread(s)
    <3>1. /\ pc[s] = "reread" /\ UNCHANGED <<locked, stmt>> /\ pc'[s] = "scan"
      BY <1>0, <2>8 DEF Reread, txnVars, At
    <3>2. \A i \in DOMAIN scan'[s].matches : \/ i \in DOMAIN scan[s].matches /\ scan'[s].matches[i] = scan[s].matches[i]
                                            \/ scan'[s].matches[i].rid = scan[s].rid
      <4> DEFINE x == [rid |-> scan[s].rid, row |-> Get(mem[stmt[s].table], scan[s].rid)]
      <4>1. x.rid = scan[s].rid
        OBVIOUS
      <4>2. \A i \in DOMAIN scan'[s].matches : \/ i \in DOMAIN scan[s].matches /\ scan'[s].matches[i] = scan[s].matches[i]
                                              \/ scan'[s].matches[i] = x
        BY <2>8, MatchesGrow
      <4> HIDE DEF x
      <4> QED
        BY <4>1, <4>2
    <3> QED
      BY <2>1, <3>1, <3>2 DEF HoldsItsRows, Mode
  <2>9. CASE EndScan(s) \/ EndApply(s)
    BY <1>0, <2>1, <2>9 DEF EndScan, EndApply, txnVars, At, HoldsItsRows, Mode
  <2>10. CASE ApplyDelete(s) \/ ApplyUpdate(s)
    <3>1. /\ pc[s] = "apply" /\ UNCHANGED <<locked, stmt, pc>>
      BY <2>10, UpdateDoes DEF ApplyDelete, ApplyUpdate, At
    <3>2. \A i \in DOMAIN scan'[s].matches : i + 1 \in DOMAIN scan[s].matches /\ scan'[s].matches[i] = scan[s].matches[i + 1]
      BY <2>10, MatchesShrink
    <3> QED
      BY <2>1, <3>1, <3>2 DEF HoldsItsRows, Mode
  <2>11. CASE UndoInsert(s) \/ UndoDelete(s) \/ UndoUpdate(s)
    BY <2>11 DEF UndoInsert, UndoDelete, UndoUpdate, Undoing, At, stmtVars, HoldsItsRows
  <2>12. CASE CommitFlush(s) \/ AbortFlush(s) \/ Fail(s) \/ Commit(s) \/ Abort(s)
    <3>1. pc'[s] \in {"flushed", "undone", "abort", "idle"}
      BY <1>0, <2>12 DEF CommitFlush, AbortFlush, Fail, Commit, Abort, EndTxn
    <3> QED
      BY <3>1 DEF HoldsItsRows
  <2> QED
    BY <1>2, <2>3, <2>4, <2>5, <2>6, <2>7, <2>8, <2>9, <2>10, <2>11, <2>12 DEF Step
<1>3. ASSUME NEW t \in Table, NEW r \in Rid, WriteBack(t, r) PROVE LockInv'
  BY <1>1, <1>3 DEF WriteBack, txnVars, stmtVars
<1>4. CASE Crash
  BY <1>4 DEF Crash, LockInv, Exclusive, HoldsItsRows, NoLocks
<1>5. CASE Recover
  BY <1>1, <1>5 DEF Recover, RecoverInsert, RecoverDelete, RecoverUpdate, RecoverFlush, MarkLoser, Serve,
                    Recovering, txnVars, stmtVars
<1>6. CASE UNCHANGED vars
  BY <1>1, <1>6 DEF vars, txnVars, stmtVars
<1> QED
  BY <1>2, <1>3, <1>4, <1>5, <1>6 DEF Next

(* At first nothing is locked.                                              *)
LEMMA InitLockInv == Init => LockInv
BY DEF Init, LockInv, Exclusive, HoldsItsRows, NoLocks

(* What a thread writes over: a row it has locked, its own change, or an    *)
(* empty slot.                                                              *)
LEMMA WritesWhere ==
  ASSUME TypeInv, LockInv, NEW s \in Session, Step(s), NEW t \in Table, NEW r \in Rid, mem'[t][r] # mem[t][r]
  PROVE  /\ undo'[s] # undo[s]
         /\ \/ mem[t][r] = Empty
            \/ pc[s] = "apply" /\ <<t, r>> \in locked[s]["X"]
            \/ undo[s] # <<>> /\ t = undo[s][Len(undo[s])].table /\ r = undo[s][Len(undo[s])].rid
<1>1. mem \in [Table -> FlatHeap] /\ undo \in [Session -> Seq(ChangeType)]
  BY DEF TypeInv, StoreTypes, TxnTypes
<1>2. ASSUME NEW op, NEW u, NEW q, NEW before, NEW after, Writes(s, op, u, q, before, after), UNCHANGED disk
      PROVE  t = u /\ r = q
  BY <1>2, WriteTypes
<1>3. CASE InsertRow(s)
  <2>1. PICK e \in Rid :
        /\ Writes(s, "INSERT", stmt[s].table, e, Empty, stmt[s].to) /\ mem[stmt[s].table][e] = Empty
        /\ undo' = [undo EXCEPT ![s] = Append(@, Change("INSERT", stmt[s].table, e, Empty, stmt[s].to))]
    BY <1>3, InsertDoes
  <2>2. UNCHANGED disk
    BY <1>3 DEF InsertRow
  <2>3. Change("INSERT", stmt[s].table, e, Empty, stmt[s].to) \in ChangeType
    BY <2>1, <2>2, WriteTypes
  <2>4. t = stmt[s].table /\ r = e
    BY <1>2, <2>1, <2>2
  <2>5. undo'[s] # undo[s]
    <3> DEFINE c == Change("INSERT", stmt[s].table, e, Empty, stmt[s].to)
    <3>1. c \in ChangeType /\ undo' = [undo EXCEPT ![s] = Append(@, c)]
      BY <2>1, <2>3
    <3> HIDE DEF c
    <3> QED
      BY <3>1, UndoGrows
  <2> QED
    BY <2>1, <2>4, <2>5
<1>4. CASE ApplyDelete(s) \/ ApplyUpdate(s)
  <2> DEFINE m == Head(scan[s].matches)
  <2>1. PICK op, after : /\ Writes(s, op, stmt[s].table, m.rid, m.row, after)
                         /\ undo' = [undo EXCEPT ![s] = Append(@, Change(op, stmt[s].table, m.rid, m.row, after))]
    <3>1. CASE ApplyDelete(s)
      BY <3>1, DeleteDoes
    <3>2. CASE ApplyUpdate(s)
      <4>1. /\ Writes(s, "UPDATE", stmt[s].table, m.rid, m.row, stmt[s].to)
            /\ undo' = [undo EXCEPT ![s] = Append(@, Change("UPDATE", stmt[s].table, m.rid, m.row, stmt[s].to))]
        BY <3>2, UpdateDoes
      <4> QED
        BY <4>1
    <3> QED
      BY <1>4, <3>1, <3>2
  <2>2. UNCHANGED disk /\ pc[s] = "apply" /\ stmt[s].op \in {"delete", "update"}
    BY <1>4 DEF ApplyDelete, ApplyUpdate, At
  <2>3. 1 \in DOMAIN scan[s].matches /\ m = scan[s].matches[1]
    BY <1>4, MatchesShrink
  <2>4. <<stmt[s].table, m.rid>> \in locked[s]["X"]
    BY <2>2, <2>3 DEF LockInv, HoldsItsRows, Mode
  <2> HIDE DEF m
  <2>5. t = stmt[s].table /\ r = m.rid
    BY <1>2, <2>1, <2>2
  <2>6. undo'[s] # undo[s]
    <3> DEFINE c == Change(op, stmt[s].table, m.rid, m.row, after)
    <3>1. c \in ChangeType
      BY <2>1, <2>2, WriteTypes
    <3>2. undo' = [undo EXCEPT ![s] = Append(@, c)]
      BY <2>1
    <3> HIDE DEF c
    <3> QED
      BY <3>1, <3>2, UndoGrows
  <2> QED
    BY <2>2, <2>4, <2>5, <2>6
<1>5. CASE UndoInsert(s) \/ UndoDelete(s) \/ UndoUpdate(s)
  <2> DEFINE c == undo[s][Len(undo[s])]
  <2>1. undo[s] # <<>> /\ Undone(s) /\ UNCHANGED disk
    BY <1>5 DEF UndoInsert, UndoDelete, UndoUpdate, Undoing
  <2>2. undo'[s] # undo[s]
    BY <2>1, UndoneTypes
  <2>3. CASE UndoInsert(s)
    <3>1. \/ UNCHANGED mem
          \/ Writes(s, "DELETE", c.table, c.rid, mem[c.table][c.rid], Empty)
      BY <2>3, UndoInsertDoes
    <3> HIDE DEF c
    <3>2. t = c.table /\ r = c.rid
      BY <1>2, <2>1, <3>1
    <3> QED
      BY <2>1, <2>2, <3>2 DEF c
  <2>4. CASE UndoDelete(s)
    <3>1. \/ UNCHANGED mem
          \/ \E e \in Rid : mem[c.table][e] = Empty /\ Writes(s, "INSERT", c.table, e, Empty, c.before)
      BY <2>4, UndoDeleteDoes
    <3> HIDE DEF c
    <3>2. mem[t][r] = Empty
      BY <1>2, <2>1, <3>1
    <3> QED
      BY <2>2, <3>2
  <2>5. CASE UndoUpdate(s)
    <3>1. Writes(s, "UPDATE", c.table, c.rid, c.after, c.before)
      BY <2>5, UndoUpdateDoes
    <3> HIDE DEF c
    <3>2. t = c.table /\ r = c.rid
      BY <1>2, <2>1, <3>1
    <3> QED
      BY <2>1, <2>2, <3>2 DEF c
  <2> QED
    BY <1>5, <2>3, <2>4, <2>5
<1>6. CASE \/ Begin(s) \/ Start(s) \/ WaitNewRow(s) \/ NextRow(s) \/ LockRow(s) \/ Reread(s) \/ EndScan(s)
           \/ EndApply(s) \/ CommitFlush(s) \/ Commit(s) \/ Fail(s) \/ AbortFlush(s) \/ Abort(s)
  BY <1>6 DEF Begin, Start, WaitNewRow, NextRow, LockRow, Reread, EndScan, EndApply, CommitFlush, Commit, Fail,
              AbortFlush, Abort, storeVars
<1> QED
  BY <1>3, <1>4, <1>5, <1>6 DEF Step

(* No step changes a row that another transaction has locked.               *)
LEMMA OthersLeaveStep ==
  ASSUME TypeInv, RestInv, LockInv, [Next]_vars, NEW s \in Session, NEW t \in Table, NEW r \in Rid
  PROVE  OthersLeave(s, t, r)
<1> SUFFICES ASSUME <<t, r>> \in locked[s]["S"] \cup locked[s]["X"], mem[t][r] \in Row,
                    ~ WrittenByOther(s, t, r), crashes' = crashes, mem'[t][r] # mem[t][r]
             PROVE  undo'[s] # undo[s]
  BY DEF OthersLeave
<1>1. mem[t][r] # Empty
  BY SlotAssumption
<1>2. ASSUME NEW u \in Session, Step(u) PROVE undo'[s] # undo[s]
  <2>1. CASE u = s
    BY <1>2, <2>1, WritesWhere
  <2>2. CASE u # s
    <3>1. CASE pc[u] = "apply" /\ <<t, r>> \in locked[u]["X"]
      BY <2>2, <3>1 DEF LockInv, Exclusive
    <3>2. CASE undo[u] # <<>> /\ t = undo[u][Len(undo[u])].table /\ r = undo[u][Len(undo[u])].rid
      <4>1. Len(undo[u]) \in DOMAIN undo[u]
        <5> DEFINE q == undo[u]
                   C == ChangeType
        <5>1. q \in Seq(C) /\ q # <<>>
          BY <3>2, SessionIs
        <5> HIDE DEF q, C
        <5>2. Len(q) \in DOMAIN q
          BY <5>1
        <5> QED
          BY <5>2 DEF q
      <4> QED
        BY <2>2, <3>2, <4>1 DEF WrittenByOther
    <3> QED
      BY <1>1, <1>2, <3>1, <3>2, WritesWhere
  <2> QED
    BY <2>1, <2>2
<1>3. ASSUME NEW tt \in Table, NEW rr \in Rid, WriteBack(tt, rr) PROVE undo'[s] # undo[s]
  BY <1>3 DEF WriteBack
<1>4. CASE Crash
  BY <1>4 DEF Crash, TypeInv, RecTypes
<1>5. CASE Recover
  <2>1. process # "serving"
    BY <1>5 DEF Recover, RecoverInsert, RecoverDelete, RecoverUpdate, RecoverFlush, MarkLoser, Serve, Recovering
  <2> QED
    BY <2>1 DEF RestInv, Resting, NoLocks
<1>6. CASE UNCHANGED vars
  BY <1>6 DEF vars, storeVars
<1> QED
  BY <1>2, <1>3, <1>4, <1>5, <1>6 DEF Next

(* A row that a transaction has locked is changed by no other one, neither  *)
(* by a statement nor by an undo step, which takes no locks.                *)
THEOREM LockedRowsAlwaysStay == Spec /\ FixedLength => LockedRowsStay
<1> DEFINE Left == \A s \in Session, t \in Table, r \in Rid : OthersLeave(s, t, r)
<1>1. TypeInv /\ RestInv /\ LockInv /\ [Next]_vars => [Left]_vars
  BY OthersLeaveStep
<1>2. Spec /\ FixedLength => [][Left]_vars
  BY <1>1, InitTypeInv, TypeInvStep, InitRestInv, RestInvStep, InitLockInv, LockInvStep, PTL DEF Spec
<1> QED
  BY <1>2 DEF LockedRowsStay

-----------------------------------------------------------------------------
(* A scan matches the rows in the order of their RIDs, each once.           *)
InOrder(s) ==
  /\ \A i, j \in DOMAIN scan[s].matches : i < j => scan[s].matches[i].rid < scan[s].matches[j].rid
  /\ pc[s] \in {"scan", "lockrow", "reread"} =>
       \A i \in DOMAIN scan[s].matches : scan[s].matches[i].rid <= scan[s].next
  /\ pc[s] \in {"lockrow", "reread"} =>
       /\ scan[s].rid = scan[s].next
       /\ \A i \in DOMAIN scan[s].matches : scan[s].matches[i].rid < scan[s].next
  /\ scan[s].matches # <<>> => stmt[s].op \in {"select", "delete", "update"}

OrderInv == \A s \in Session : InOrder(s)

(* A match is a RID and a row.                                              *)
LEMMA MatchTypes ==
  ASSUME TypeInv, NEW s \in Session, NEW i \in DOMAIN scan[s].matches
  PROVE  scan[s].matches[i].rid \in Rid /\ scan[s].matches[i].row \in Row /\ i \in Nat \ {0}
<1> DEFINE M == [rid : Rid, row : Row]
           q == scan[s].matches
<1>1. q \in Seq(M) /\ i \in DOMAIN q
  BY SessionIs DEF ScanType
<1> HIDE DEF M, q
<1>2. q[i] \in M /\ i \in Nat \ {0}
  BY <1>1
<1> QED
  BY <1>2 DEF M, q

(* Every step keeps the matches in the order of their RIDs.                 *)
LEMMA OrderInvStep == TypeInv /\ OrderInv /\ [Next]_vars => OrderInv'
<1> SUFFICES ASSUME TypeInv, OrderInv, [Next]_vars PROVE OrderInv'
  OBVIOUS
<1>0. /\ pc \in [Session -> Places] /\ scan \in [Session -> ScanType] /\ Rid \subseteq Nat
  BY RidAssumption DEF TypeInv, StmtTypes
<1>1. ASSUME UNCHANGED <<pc, stmt, scan>> PROVE OrderInv'
  BY <1>1 DEF OrderInv, InOrder
<1>2. ASSUME NEW s \in Session, Step(s) PROVE OrderInv'
  <2>1. InOrder(s) /\ \A u \in Session \ {s} : InOrder(u)'
    BY <1>2, OthersStay DEF OrderInv, InOrder, Same
  <2> SUFFICES InOrder(s)'
    BY <2>1 DEF OrderInv
  <2>2. \A i \in DOMAIN scan[s].matches : scan[s].matches[i].rid \in Nat
    BY <1>0, MatchTypes
  <2>3. CASE Begin(s) \/ LockRow(s)
    BY <1>0, <2>1, <2>3 DEF Begin, LockRow, At, InOrder
  <2>4. CASE Start(s)
    BY <1>0, <2>4 DEF Start, InOrder, NoScan
  <2>5. CASE InsertRow(s) \/ WaitNewRow(s) \/ CommitFlush(s) \/ AbortFlush(s) \/ Fail(s) \/ Commit(s) \/ Abort(s)
    <3>1. pc'[s] \in {"idle", "newrow", "flushed", "undone", "abort"}
      <4>1. CASE InsertRow(s)
        BY <1>0, <4>1, InsertDoes DEF LockNewRow
      <4>2. CASE WaitNewRow(s)
        BY <1>0, <4>2, SessionIs DEF WaitNewRow, At, RunsStatement
      <4>3. CASE CommitFlush(s) \/ AbortFlush(s) \/ Fail(s) \/ Commit(s) \/ Abort(s)
        BY <1>0, <4>3 DEF CommitFlush, AbortFlush, Fail, Commit, Abort, EndTxn
      <4> QED
        BY <2>5, <4>1, <4>2, <4>3
    <3>2. CASE Commit(s) \/ Abort(s)
      BY <1>0, <3>1, <3>2 DEF Commit, Abort, EndTxn, NoScan, InOrder
    <3>3. CASE ~ (Commit(s) \/ Abort(s))
      <4>1. scan'[s].matches = scan[s].matches /\ stmt' = stmt
        <5>1. CASE InsertRow(s)
          BY <1>0, <5>1 DEF InsertRow, ScanType
        <5> QED
          BY <2>5, <3>3, <5>1 DEF WaitNewRow, CommitFlush, AbortFlush, Fail
      <4> QED
        BY <2>1, <3>1, <4>1 DEF InOrder
    <3> QED
      BY <3>2, <3>3
  <2>6. CASE NextRow(s)
    <3>1. PICK r \in RestOfScan(s) : \/ /\ scan' = [scan EXCEPT ![s].next = r, ![s].rid = r]
                                        /\ pc' = [pc EXCEPT ![s] = "lockrow"]
                                     \/ /\ scan' = [scan EXCEPT ![s].next = r]
                                        /\ UNCHANGED pc
      BY <2>6 DEF NextRow
    <3>2. r \in Rid /\ r > scan[s].next /\ scan[s].next \in Nat /\ r \in Nat /\ pc[s] = "scan"
      BY <1>0, <2>6, <3>1 DEF RestOfScan, NextRow, At, ScanType
    <3>3. scan'[s].next = r /\ scan'[s].matches = scan[s].matches /\ stmt' = stmt
      BY <1>0, <2>6, <3>1 DEF NextRow, ScanType
    <3>4. pc'[s] \in {"scan", "lockrow"} /\ (pc'[s] = "lockrow" => scan'[s].rid = r)
      BY <1>0, <3>1, <3>2 DEF ScanType
    <3> QED
      BY <2>1, <2>2, <3>2, <3>3, <3>4 DEF InOrder
  <2>7. CASE Reread(s)
    <3> DEFINE q == scan[s].matches
               x == [rid |-> scan[s].rid, row |-> Get(mem[stmt[s].table], scan[s].rid)]
               p == scan'[s].matches
    <3>1. /\ pc[s] = "reread" /\ pc'[s] = "scan" /\ scan[s].rid \in Rid
          /\ stmt'[s].op \in {"select", "delete", "update"}
      BY <1>0, <2>7, SessionIs DEF Reread, At, RunsStatement
    <3>2. x.rid = scan[s].rid
      OBVIOUS
    <3>3. /\ scan'[s].next = scan[s].next /\ DOMAIN q = 1 .. Len(q) /\ Len(q) \in Nat
          /\ \A i \in DOMAIN p : (i \in DOMAIN q /\ p[i] = q[i]) \/ (i = Len(q) + 1 /\ p[i] = x)
      BY <2>7, MatchesGrow
    <3> HIDE DEF x
    <3>4. \A i \in DOMAIN p : (i \in 1 .. Len(q) /\ p[i].rid = q[i].rid) \/ (i = Len(q) + 1 /\ p[i].rid = scan[s].rid)
      BY <3>2, <3>3
    <3>5. /\ scan[s].rid = scan[s].next /\ scan[s].rid \in Nat
          /\ \A i \in 1 .. Len(q) : q[i].rid < scan[s].next /\ q[i].rid \in Nat
          /\ \A i, j \in 1 .. Len(q) : i < j => q[i].rid < q[j].rid
      BY <1>0, <2>1, <2>2, <3>1, <3>3 DEF InOrder
    <3> HIDE DEF q, p
    <3>6. \A i, j \in DOMAIN p : i < j => p[i].rid < p[j].rid
      BY <3>3, <3>4, <3>5
    <3>7. \A i \in DOMAIN p : p[i].rid <= scan[s].next
      BY <3>4, <3>5
    <3> QED
      BY <3>1, <3>3, <3>6, <3>7 DEF InOrder, p
  <2>8. CASE EndScan(s) \/ EndApply(s)
    BY <1>0, <2>1, <2>8 DEF EndScan, EndApply, At, InOrder
  <2>9. CASE ApplyDelete(s) \/ ApplyUpdate(s)
    <3> DEFINE q == scan[s].matches
               p == scan'[s].matches
    <3>1. pc[s] = "apply" /\ pc' = pc /\ stmt'[s].op \in {"delete", "update"}
      BY <2>9, UpdateDoes DEF ApplyDelete, ApplyUpdate, At
    <3>2. \A i \in DOMAIN p : i + 1 \in DOMAIN q /\ i \in Nat /\ p[i] = q[i + 1]
      BY <2>9, MatchesShrink
    <3>3. \A i, j \in DOMAIN q : i < j => q[i].rid < q[j].rid
      BY <2>1, <3>1 DEF InOrder
    <3> HIDE DEF q, p
    <3>4. \A i, j \in DOMAIN p : i < j => p[i].rid < p[j].rid
      <4> SUFFICES ASSUME NEW i \in DOMAIN p, NEW j \in DOMAIN p, i < j PROVE p[i].rid < p[j].rid
        OBVIOUS
      <4>1. i + 1 \in DOMAIN q /\ j + 1 \in DOMAIN q /\ i + 1 < j + 1 /\ p[i] = q[i + 1] /\ p[j] = q[j + 1]
        BY <3>2
      <4> QED
        BY <3>3, <4>1
    <3> QED
      BY <3>1, <3>4 DEF InOrder, p
  <2>10. CASE UndoInsert(s) \/ UndoDelete(s) \/ UndoUpdate(s)
    BY <2>1, <2>10 DEF UndoInsert, UndoDelete, UndoUpdate, stmtVars, InOrder
  <2> QED
    BY <1>2, <2>3, <2>4, <2>5, <2>6, <2>7, <2>8, <2>9, <2>10 DEF Step
<1>3. ASSUME NEW t \in Table, NEW r \in Rid, WriteBack(t, r) PROVE OrderInv'
  BY <1>1, <1>3 DEF WriteBack, stmtVars
<1>4. CASE Crash
  BY <1>4 DEF Crash, OrderInv, InOrder, NoScan
<1>5. CASE Recover
  BY <1>1, <1>5 DEF Recover, RecoverInsert, RecoverDelete, RecoverUpdate, RecoverFlush, MarkLoser, Serve,
                    Recovering, stmtVars
<1>6. CASE UNCHANGED vars
  BY <1>1, <1>6 DEF vars, stmtVars
<1> QED
  BY <1>2, <1>3, <1>4, <1>5, <1>6 DEF Next

(* At first nothing is matched.                                             *)
LEMMA InitOrderInv == Init => OrderInv
BY DEF Init, OrderInv, InOrder, NoScan

(* A scan gives each row once, if updates move none.                        *)
THEOREM MatchedOnceAlways == Spec /\ FixedLength => []MatchedOnce
<1>1. TypeInv /\ OrderInv => MatchedOnce
  <2> SUFFICES ASSUME TypeInv, OrderInv, NEW s \in Session,
                      NEW i \in DOMAIN scan[s].matches, NEW j \in DOMAIN scan[s].matches, i # j
               PROVE  Target(mem[stmt[s].table], scan[s].matches[i].rid)
                        # Target(mem[stmt[s].table], scan[s].matches[j].rid)
    BY DEF MatchedOnce
  <2>1. /\ scan[s].matches[i].rid \in Rid /\ scan[s].matches[j].rid \in Rid /\ i \in Nat /\ j \in Nat
        /\ Rid \subseteq Nat
    BY MatchTypes, RidAssumption
  <2>2. stmt[s].table \in Table
    <3>1. scan[s].matches # <<>>
      OBVIOUS
    <3> QED
      BY <3>1, StmtIs DEF OrderInv, InOrder
  <2>3. mem[stmt[s].table] \in FlatHeap
    BY <2>2, SlotIs
  <2>4. scan[s].matches[i].rid # scan[s].matches[j].rid
    <3> DEFINE q == scan[s].matches
    <3>1. \A k, n \in DOMAIN q : k < n => q[k].rid < q[n].rid
      BY DEF OrderInv, InOrder
    <3>2. i \in DOMAIN q /\ j \in DOMAIN q /\ q[i].rid \in Nat /\ q[j].rid \in Nat
      BY <2>1
    <3> HIDE DEF q
    <3>3. i < j \/ j < i
      BY <2>1
    <3>4. q[i].rid # q[j].rid
      BY <3>1, <3>2, <3>3
    <3> QED
      BY <3>4 DEF q
  <2> QED
    BY <2>1, <2>3, <2>4, FlatReads
<1> QED
  BY <1>1, InitTypeInv, TypeInvStep, InitOrderInv, OrderInvStep, PTL DEF Spec

-----------------------------------------------------------------------------
(* Slots that are not used again: either nothing is inserted, or nothing    *)
(* empties a slot.  (Where a slot can be emptied and filled again under a   *)
(* lock that waits, statements read rows that are not committed.)           *)
SlotsKept == "insert" \in workload.ops => "delete" \notin workload.ops /\ ~ workload.fails

(* Where rows are inserted, a locked slot, or one being locked, has a row;  *)
(* a transaction holds the X locks of what it has changed, and its matches  *)
(* are what the tables hold.                                                *)
RowsKept(s) ==
  /\ \A t \in Table, r \in Rid : <<t, r>> \in locked[s]["S"] \cup locked[s]["X"] => mem[t][r] \in Row
  /\ pc[s] \in {"lockrow", "reread"} => mem[stmt[s].table][scan[s].rid] \in Row

WritesLocked(s) == \A i \in DOMAIN undo[s] : <<undo[s][i].table, undo[s][i].rid>> \in locked[s]["X"]

MatchesAre(s) ==
  pc[s] \in {"scan", "lockrow", "reread", "apply"} =>
    \A i \in DOMAIN scan[s].matches : mem[stmt[s].table][scan[s].matches[i].rid] = scan[s].matches[i].row

KeepInv ==
  /\ SlotsKept
  /\ \A s \in Session :
       /\ pc[s] # "newrow" /\ (~ workload.fails => pc[s] \notin {"abort", "undone"})
       /\ "insert" \in workload.ops => RowsKept(s)
       /\ WritesLocked(s)
       /\ MatchesAre(s)

(* What a thread runs is of a kind the workload has.                        *)
LEMMA OpIs ==
  ASSUME TypeInv, NEW s \in Session, stmt[s].op # "none"
  PROVE  stmt[s].op \in workload.ops
BY StmtIs DEF Statements

(* A row stays a row.                                                       *)
LEMMA RowsRemain ==
  ASSUME TypeInv, KeepInv, "insert" \in workload.ops, NEW s \in Session, Step(s),
         NEW t \in Table, NEW r \in Rid, mem[t][r] \in Row
  PROVE  mem'[t][r] \in Row
<1>1. ~ workload.fails /\ "delete" \notin workload.ops
  BY DEF KeepInv, SlotsKept
<1>2. CASE InsertRow(s)
  <2>1. PICK e \in Rid : Writes(s, "INSERT", stmt[s].table, e, Empty, stmt[s].to)
    BY <1>2, InsertDoes
  <2>2. UNCHANGED disk /\ stmt[s].to \in Row
    BY <1>2, SessionIs, StmtIs DEF InsertRow, At, RunsStatement
  <2> QED
    BY <2>1, <2>2, WriteTypes
<1>3. CASE ApplyUpdate(s)
  <2> DEFINE m == Head(scan[s].matches)
  <2>1. Writes(s, "UPDATE", stmt[s].table, m.rid, m.row, stmt[s].to)
    BY <1>3, UpdateDoes
  <2>2. UNCHANGED disk /\ stmt[s].to \in Row
    BY <1>3, StmtIs DEF ApplyUpdate
  <2> HIDE DEF m
  <2> QED
    BY <2>1, <2>2, WriteTypes
<1>4. ~ ApplyDelete(s)
  BY <1>1, OpIs DEF ApplyDelete
<1>5. ~ UndoInsert(s) /\ ~ UndoDelete(s) /\ ~ UndoUpdate(s)
  BY <1>1 DEF UndoInsert, UndoDelete, UndoUpdate, Undoing, At, KeepInv
<1>6. CASE \/ Begin(s) \/ Start(s) \/ WaitNewRow(s) \/ NextRow(s) \/ LockRow(s) \/ Reread(s) \/ EndScan(s)
           \/ EndApply(s) \/ CommitFlush(s) \/ Commit(s) \/ Fail(s) \/ AbortFlush(s) \/ Abort(s)
  BY <1>6 DEF Begin, Start, WaitNewRow, NextRow, LockRow, Reread, EndScan, EndApply, CommitFlush, Commit, Fail,
              AbortFlush, Abort, storeVars
<1> QED
  BY <1>2, <1>3, <1>4, <1>5, <1>6 DEF Step

(* A new row is locked at once: nobody locks an empty slot.                 *)
LEMMA InsertLocks ==
  ASSUME TypeInv, KeepInv, NEW s \in Session, InsertRow(s)
  PROVE  LET t == stmt[s].table
             row == stmt[s].to
         IN \E e \in Rid :
              /\ Writes(s, "INSERT", t, e, Empty, row) /\ mem[t][e] = Empty
              /\ undo' = [undo EXCEPT ![s] = Append(@, Change("INSERT", t, e, Empty, row))]
              /\ locked' = Locking(s, "X", t, e) /\ pc' = [pc EXCEPT ![s] = "idle"]
<1> DEFINE t == stmt[s].table
           row == stmt[s].to
<1>1. PICK e \in Rid :
        /\ Writes(s, "INSERT", t, e, Empty, row) /\ mem[t][e] = Empty
        /\ undo' = [undo EXCEPT ![s] = Append(@, Change("INSERT", t, e, Empty, row))]
        /\ LockNewRow(s, t, e, "idle")
  BY InsertDoes
<1>2. "insert" \in workload.ops
  BY OpIs, SessionIs DEF InsertRow, At, RunsStatement
<1> HIDE DEF t, row
<1>3. t \in Table
  BY <1>1 DEF Writes
<1>4. \A u \in Session : <<t, e>> \notin locked[u]["S"] \cup locked[u]["X"]
  BY <1>1, <1>2, <1>3, SlotAssumption DEF KeepInv, RowsKept
<1>5. Lockable(s, "X", t, e)
  BY <1>4 DEF Lockable
<1>6. locked' = Locking(s, "X", t, e) /\ pc' = [pc EXCEPT ![s] = "idle"]
  BY <1>1, <1>5 DEF LockNewRow
<1> QED
  BY <1>1, <1>6 DEF t, row

(* What a step of one thread does to the rows another one has matched.      *)
LEMMA OthersKeep ==
  ASSUME TypeInv, RestInv, LockInv, KeepInv, [Next]_vars,
         NEW s \in Session, NEW u \in Session \ {s}, Step(s),
         NEW t \in Table, NEW r \in Rid, <<t, r>> \in locked[u]["S"] \cup locked[u]["X"], mem[t][r] \in Row
  PROVE  mem'[t][r] = mem[t][r]
<1>1. undo'[u] = undo[u] /\ crashes' = crashes
  BY OthersStay DEF Same, recVars
<1>2. ~ WrittenByOther(u, t, r)
  BY DEF WrittenByOther, KeepInv, WritesLocked, LockInv, Exclusive
<1> QED
  BY <1>1, <1>2, OthersLeaveStep DEF OthersLeave

(* The steps of the others keep what a transaction relies on.               *)
LEMMA OthersKept ==
  ASSUME TypeInv, RestInv, LockInv, KeepInv, [Next]_vars,
         NEW s \in Session, NEW u \in Session \ {s}, Step(s)
  PROVE  /\ pc'[u] # "newrow" /\ (~ workload'.fails => pc'[u] \notin {"abort", "undone"})
         /\ "insert" \in workload'.ops => RowsKept(u)'
         /\ WritesLocked(u)'
         /\ MatchesAre(u)'
<1>1. Same(u) /\ workload' = workload
  BY OthersStay
<1>2. /\ pc[u] # "newrow" /\ (~ workload.fails => pc[u] \notin {"abort", "undone"})
      /\ "insert" \in workload.ops => RowsKept(u)
      /\ WritesLocked(u) /\ MatchesAre(u) /\ HoldsItsRows(u)
  BY DEF KeepInv, LockInv
<1>3. pc'[u] # "newrow" /\ (~ workload'.fails => pc'[u] \notin {"abort", "undone"})
  BY <1>1, <1>2 DEF Same
<1>4. ASSUME "insert" \in workload.ops PROVE RowsKept(u)'
  <2>1. \A t \in Table, r \in Rid : mem[t][r] \in Row => mem'[t][r] \in Row
    BY <1>4, RowsRemain
  <2>2. pc[u] \in {"lockrow", "reread"} => stmt[u].table \in Table /\ scan[u].rid \in Rid
    BY SessionIs, StmtIs DEF RunsStatement
  <2> QED
    BY <1>1, <1>2, <1>4, <2>1, <2>2 DEF RowsKept, Same
<1>5. WritesLocked(u)'
  BY <1>1, <1>2 DEF WritesLocked, Same
<1>6. MatchesAre(u)'
  <2> SUFFICES ASSUME pc[u] \in {"scan", "lockrow", "reread", "apply"}, NEW i \in DOMAIN scan[u].matches
               PROVE  mem'[stmt[u].table][scan[u].matches[i].rid] = scan[u].matches[i].row
    BY <1>1 DEF MatchesAre, Same
  <2>1. stmt[u].table \in Table /\ scan[u].matches[i].rid \in Rid /\ scan[u].matches[i].row \in Row
    BY SessionIs, StmtIs, MatchTypes DEF RunsStatement
  <2>2. /\ <<stmt[u].table, scan[u].matches[i].rid>> \in locked[u]["S"] \cup locked[u]["X"]
        /\ mem[stmt[u].table][scan[u].matches[i].rid] = scan[u].matches[i].row
    BY <1>2 DEF HoldsItsRows, Mode, MatchesAre
  <2> QED
    BY <2>1, <2>2, OthersKeep
<1> QED
  BY <1>1, <1>3, <1>4, <1>5, <1>6

(* Its own steps keep it as well.                                           *)
LEMMA OwnKept ==
  ASSUME TypeInv, LockInv, OrderInv, KeepInv, NEW s \in Session, Step(s)
  PROVE  /\ pc'[s] # "newrow" /\ (~ workload'.fails => pc'[s] \notin {"abort", "undone"})
         /\ "insert" \in workload'.ops => RowsKept(s)'
         /\ WritesLocked(s)'
         /\ MatchesAre(s)'
<1>0. /\ pc \in [Session -> Places] /\ stmt \in [Session -> Statements \cup {NoStmt}] /\ scan \in [Session -> ScanType]
      /\ locked \in [Session -> [{"S", "X"} -> SUBSET (Table \X Rid)]] /\ undo \in [Session -> Seq(ChangeType)]
  BY DEF TypeInv, TxnTypes, StmtTypes
<1>1. /\ pc[s] # "newrow" /\ (~ workload.fails => pc[s] \notin {"abort", "undone"})
      /\ "insert" \in workload.ops => RowsKept(s)
      /\ WritesLocked(s) /\ MatchesAre(s) /\ HoldsItsRows(s) /\ InOrder(s) /\ SlotsKept
  BY DEF KeepInv, LockInv, OrderInv
<1>2. workload' = workload
  BY OthersStay
<1>3. CASE Begin(s)
  BY <1>0, <1>1, <1>2, <1>3 DEF Begin, RowsKept, WritesLocked, MatchesAre
<1>4. CASE Start(s)
  <2>1. /\ UNCHANGED <<mem, undo, locked>> /\ pc'[s] \in {"insert", "scan"} /\ scan'[s].matches = <<>>
    BY <1>0, <1>4 DEF Start, storeVars, NoScan
  <2> QED
    BY <1>1, <1>2, <2>1 DEF RowsKept, WritesLocked, MatchesAre
<1>5. CASE InsertRow(s)
  <2> DEFINE t == stmt[s].table
  <2>1. PICK e \in Rid :
          /\ Writes(s, "INSERT", t, e, Empty, stmt[s].to)
          /\ undo' = [undo EXCEPT ![s] = Append(@, Change("INSERT", t, e, Empty, stmt[s].to))]
          /\ locked' = Locking(s, "X", t, e) /\ pc' = [pc EXCEPT ![s] = "idle"]
    BY <1>5, InsertLocks
  <2>2. stmt[s].to \in Row /\ UNCHANGED disk
    BY <1>5, SessionIs, StmtIs DEF InsertRow, At, RunsStatement
  <2> HIDE DEF t
  <2>3. t \in Table /\ mem'[t][e] \in Row
    BY <2>1, <2>2, WriteTypes DEF Writes
  <2>4. <<t, e>> \in locked'[s]["X"] /\ \A n \in {"S", "X"} : locked[s][n] \subseteq locked'[s][n]
    BY <2>1, <2>3, LocksGrow
  <2>5. \A n \in {"S", "X"} : locked'[s][n] \subseteq locked[s][n] \cup {<<t, e>>}
    BY <1>0, <2>1 DEF Locking
  <2>6. ASSUME "insert" \in workload.ops PROVE RowsKept(s)'
    <3>1. \A u \in Table, r \in Rid : mem[u][r] \in Row => mem'[u][r] \in Row
      BY <2>6, RowsRemain
    <3> QED
      BY <1>0, <1>1, <2>1, <2>3, <2>5, <2>6, <3>1 DEF RowsKept
  <2>7. WritesLocked(s)'
    <3> DEFINE c == Change("INSERT", t, e, Empty, stmt[s].to)
    <3>1. c \in ChangeType /\ undo' = [undo EXCEPT ![s] = Append(@, c)]
      BY <2>1, <2>2, WriteTypes
    <3>2. c.table = t /\ c.rid = e
      BY DEF Change
    <3> HIDE DEF c
    <3>3. \A i \in DOMAIN undo'[s] : undo'[s][i] = c \/ (i \in DOMAIN undo[s] /\ undo'[s][i] = undo[s][i])
      BY <3>1, UndoGrows
    <3> QED
      BY <1>1, <2>4, <3>2, <3>3 DEF WritesLocked
  <2>8. pc'[s] = "idle"
    BY <1>0, <2>1
  <2> QED
    BY <1>2, <2>6, <2>7, <2>8 DEF MatchesAre
<1>6. ~ WaitNewRow(s)
  BY <1>1 DEF WaitNewRow, At
<1>7. CASE NextRow(s)
  <2>1. PICK r \in RestOfScan(s) :
          IF mem[stmt[s].table][r] \in stmt[s].where
            THEN /\ scan' = [scan EXCEPT ![s].next = r, ![s].rid = r]
                 /\ pc' = [pc EXCEPT ![s] = "lockrow"]
            ELSE /\ scan' = [scan EXCEPT ![s].next = r]
                 /\ UNCHANGED pc
    BY <1>7 DEF NextRow
  <2>2. mem[stmt[s].table][r] \in Row /\ pc[s] = "scan" /\ UNCHANGED <<mem, undo, locked, stmt>>
    BY <1>7, <2>1 DEF RestOfScan, NextRow, At, storeVars, txnVars
  <2>3. scan'[s].matches = scan[s].matches /\ (pc'[s] = "lockrow" => scan'[s].rid = r) /\ pc'[s] \in {"scan", "lockrow"}
    BY <1>0, <2>1, <2>2 DEF ScanType
  <2> QED
    BY <1>1, <1>2, <2>2, <2>3 DEF RowsKept, WritesLocked, MatchesAre
<1>8. CASE LockRow(s)
  <2>1. stmt[s].table \in Table /\ scan[s].rid \in Rid
    BY <1>8, SessionIs, StmtIs DEF LockRow, At, RunsStatement
  <2>2. locked' = Locking(s, Mode(s), stmt[s].table, scan[s].rid) /\ Mode(s) \in {"S", "X"}
    BY <1>8 DEF LockRow, Mode
  <2>3. pc[s] = "lockrow" /\ UNCHANGED <<mem, undo, stmt, scan>> /\ pc'[s] = "reread"
    BY <1>0, <1>8 DEF LockRow, At, storeVars
  <2>4. \A n \in {"S", "X"} : /\ locked[s][n] \subseteq locked'[s][n]
                              /\ locked'[s][n] \subseteq locked[s][n] \cup {<<stmt[s].table, scan[s].rid>>}
    BY <1>0, <2>2 DEF Locking
  <2> QED
    BY <1>1, <1>2, <2>1, <2>3, <2>4 DEF RowsKept, WritesLocked, MatchesAre
<1>9. CASE Reread(s)
  <2> DEFINE q == scan[s].matches
             x == [rid |-> scan[s].rid, row |-> Get(mem[stmt[s].table], scan[s].rid)]
             p == scan'[s].matches
  <2>1. /\ pc[s] = "reread" /\ pc'[s] = "scan" /\ scan[s].rid \in Rid /\ stmt[s].table \in Table
        /\ UNCHANGED <<mem, undo, locked, stmt>>
    BY <1>0, <1>9, SessionIs, StmtIs DEF Reread, At, RunsStatement, storeVars, txnVars
  <2>2. x.rid = scan[s].rid /\ x.row = mem[stmt[s].table][scan[s].rid]
    BY <2>1, SlotIs
  <2>3. \A i \in DOMAIN p : (i \in DOMAIN q /\ p[i] = q[i]) \/ p[i] = x
    BY <1>9, MatchesGrow
  <2> HIDE DEF x
  <2>4. MatchesAre(s)'
    BY <1>1, <2>1, <2>2, <2>3 DEF MatchesAre
  <2> QED
    BY <1>1, <1>2, <2>1, <2>4 DEF RowsKept, WritesLocked
<1>10. CASE EndScan(s) \/ EndApply(s)
  BY <1>0, <1>1, <1>2, <1>10 DEF EndScan, EndApply, At, storeVars, txnVars, RowsKept, WritesLocked, MatchesAre
<1>11. CASE ApplyDelete(s) \/ ApplyUpdate(s)
  <2> DEFINE m == Head(scan[s].matches)
             t == stmt[s].table
             q == scan[s].matches
             p == scan'[s].matches
  <2>1. PICK op, after : /\ Writes(s, op, t, m.rid, m.row, after)
                         /\ undo' = [undo EXCEPT ![s] = Append(@, Change(op, t, m.rid, m.row, after))]
    <3>1. CASE ApplyDelete(s)
      BY <3>1, DeleteDoes
    <3>2. CASE ApplyUpdate(s)
      <4>1. /\ Writes(s, "UPDATE", t, m.rid, m.row, stmt[s].to)
            /\ undo' = [undo EXCEPT ![s] = Append(@, Change("UPDATE", t, m.rid, m.row, stmt[s].to))]
        BY <3>2, UpdateDoes
      <4> QED
        BY <4>1
    <3> QED
      BY <1>11, <3>1, <3>2
  <2>2. UNCHANGED <<disk, locked, stmt, pc>> /\ pc[s] = "apply" /\ stmt[s].op \in {"delete", "update"}
    BY <1>11, UpdateDoes DEF ApplyDelete, ApplyUpdate, At
  <2>3. /\ 1 \in DOMAIN q /\ m = q[1]
        /\ \A i \in DOMAIN p : i + 1 \in DOMAIN q /\ i \in Nat \ {0} /\ p[i] = q[i + 1]
    <3>1. /\ p = Tail(q) /\ DOMAIN q = 1 .. Len(q) /\ Len(q) \in Nat \ {0} /\ m = q[1]
          /\ \A i \in DOMAIN Tail(q) : i + 1 \in DOMAIN q /\ i \in Nat \ {0} /\ Tail(q)[i] = q[i + 1]
      BY <1>11, MatchesShrink
    <3>2. 1 \in DOMAIN q
      <4> HIDE DEF q, m
      <4> QED
        BY <3>1
    <3> HIDE DEF p, q, m
    <3>3. \A i \in DOMAIN p : i + 1 \in DOMAIN q /\ i \in Nat \ {0} /\ p[i] = q[i + 1]
      BY <3>1, Zenon
    <3> QED
      BY <3>1, <3>2, <3>3
  <2>4. <<t, m.rid>> \in locked[s]["X"]
    BY <1>1, <2>2, <2>3 DEF HoldsItsRows, Mode
  <2>5. \A i \in DOMAIN p : p[i].rid \in Rid /\ p[i].rid # m.rid
    <3> SUFFICES ASSUME NEW i \in DOMAIN p PROVE p[i].rid \in Rid /\ p[i].rid # m.rid
      OBVIOUS
    <3>1. i + 1 \in DOMAIN q /\ 1 < i + 1 /\ p[i] = q[i + 1] /\ m = q[1] /\ 1 \in DOMAIN q
      BY <2>3
    <3>2. q[1].rid < q[i + 1].rid
      BY <1>1, <3>1 DEF InOrder
    <3>3. q[1].rid \in Rid /\ q[i + 1].rid \in Rid
      BY <3>1, MatchTypes
    <3> DEFINE a == q[1].rid
               b == q[i + 1].rid
    <3>4. a \in Nat /\ b \in Nat /\ a < b
      BY <3>2, <3>3, RidAssumption
    <3>5. p[i].rid = b /\ m.rid = a
      BY <3>1
    <3> HIDE DEF a, b
    <3>6. a # b
      BY <3>4
    <3> QED
      BY <3>3, <3>5, <3>6 DEF b
  <2> HIDE DEF m, t, q, p
  <2>6. t \in Table /\ \A r \in Rid : r # m.rid => mem'[t][r] = mem[t][r]
    BY <2>1, <2>2, WriteTypes DEF Writes
  <2>7. MatchesAre(s)'
    <3>1. \A i \in DOMAIN p : mem[t][p[i].rid] = p[i].row
      BY <1>1, <2>2, <2>3 DEF MatchesAre, q, t
    <3>2. \A i \in DOMAIN p : mem'[t][p[i].rid] = p[i].row
      BY <2>5, <2>6, <3>1
    <3> QED
      BY <2>2, <3>2 DEF MatchesAre, p, t
  <2>8. WritesLocked(s)'
    <3> DEFINE c == Change(op, t, m.rid, m.row, after)
    <3>1. c \in ChangeType /\ undo' = [undo EXCEPT ![s] = Append(@, c)]
      BY <2>1, <2>2, WriteTypes
    <3>2. c.table = t /\ c.rid = m.rid
      BY DEF Change
    <3> HIDE DEF c
    <3>3. \A i \in DOMAIN undo'[s] : undo'[s][i] = c \/ (i \in DOMAIN undo[s] /\ undo'[s][i] = undo[s][i])
      BY <3>1, UndoGrows
    <3> QED
      BY <1>1, <2>2, <2>4, <3>2, <3>3 DEF WritesLocked
  <2>9. ASSUME "insert" \in workload.ops PROVE RowsKept(s)'
    <3>1. \A u \in Table, r \in Rid : mem[u][r] \in Row => mem'[u][r] \in Row
      BY <2>9, RowsRemain
    <3> QED
      BY <1>1, <2>2, <2>9, <3>1 DEF RowsKept
  <2> QED
    BY <1>1, <1>2, <2>2, <2>7, <2>8, <2>9
<1>12. CASE UndoInsert(s) \/ UndoDelete(s) \/ UndoUpdate(s)
  <2>1. /\ undo[s] # <<>> /\ Undone(s) /\ pc[s] = "abort" /\ UNCHANGED <<locked, pc>>
    BY <1>12 DEF UndoInsert, UndoDelete, UndoUpdate, Undoing, At, stmtVars
  <2>2. \A i \in DOMAIN undo'[s] : i \in DOMAIN undo[s] /\ undo'[s][i] = undo[s][i]
    BY <2>1, UndoneTypes
  <2> QED
    BY <1>1, <1>2, <2>1, <2>2 DEF SlotsKept, WritesLocked, MatchesAre
<1>13. CASE CommitFlush(s) \/ AbortFlush(s) \/ Fail(s)
  <2>1. UNCHANGED <<mem, undo, locked>> /\ pc'[s] \in {"flushed", "undone", "abort"}
    BY <1>0, <1>13 DEF CommitFlush, AbortFlush, Fail, storeVars, txnVars
  <2>2. pc'[s] \in {"undone", "abort"} => workload.fails
    BY <1>0, <1>1, <1>13 DEF CommitFlush, AbortFlush, Fail, At
  <2> QED
    BY <1>1, <1>2, <2>1, <2>2 DEF RowsKept, WritesLocked, MatchesAre
<1>14. CASE Commit(s) \/ Abort(s)
  <2>1. pc'[s] = "idle" /\ undo'[s] = <<>> /\ locked'[s] = NoLocks
    BY <1>0, <1>14 DEF Commit, Abort, EndTxn
  <2> QED
    BY <2>1 DEF RowsKept, WritesLocked, MatchesAre, NoLocks
<1> QED
  BY <1>3, <1>4, <1>5, <1>6, <1>7, <1>8, <1>9, <1>10, <1>11, <1>12, <1>13, <1>14 DEF Step

(* Every step keeps what the transactions rely on.                          *)
LEMMA KeepInvStep == TypeInv /\ RestInv /\ LockInv /\ OrderInv /\ KeepInv /\ [Next]_vars => KeepInv'
<1> SUFFICES ASSUME TypeInv, RestInv, LockInv, OrderInv, KeepInv, [Next]_vars PROVE KeepInv'
  OBVIOUS
<1>0. workload' = workload
  <2>1. ASSUME NEW s \in Session, Step(s) PROVE workload' = workload
    BY <2>1, OthersStay
  <2>2. ASSUME NEW t \in Table, NEW r \in Rid, WriteBack(t, r) PROVE workload' = workload
    BY <2>2 DEF WriteBack, ghostVars
  <2> QED
    BY <2>1, <2>2 DEF Next, vars, ghostVars, Crash, Recover, RecoverInsert, RecoverDelete, RecoverUpdate, RecoverFlush,
                      MarkLoser, Serve
<1>1. SlotsKept'
  BY <1>0 DEF KeepInv, SlotsKept
<1>2. ASSUME NEW s \in Session, Step(s) PROVE KeepInv'
  <2>1. \A u \in Session : /\ pc'[u] # "newrow" /\ (~ workload'.fails => pc'[u] \notin {"abort", "undone"})
                           /\ "insert" \in workload'.ops => RowsKept(u)'
                           /\ WritesLocked(u)'
                           /\ MatchesAre(u)'
    BY <1>2, OthersKept, OwnKept
  <2> QED
    BY <1>1, <2>1 DEF KeepInv
<1>3. ASSUME \A s \in Session : Resting(s)' PROVE KeepInv'
  <2>1. \A s \in Session : pc'[s] = "idle" /\ locked'[s] = NoLocks /\ undo'[s] = <<>>
    BY <1>3 DEF Resting
  <2> QED
    BY <1>1, <2>1 DEF KeepInv, RowsKept, WritesLocked, MatchesAre, NoLocks
<1>4. CASE Crash
  BY <1>3, <1>4 DEF Crash, Resting
<1>5. CASE Recover
  <2>1. process # "serving" /\ UNCHANGED <<txnVars, stmtVars>>
    BY <1>5 DEF Recover, RecoverInsert, RecoverDelete, RecoverUpdate, RecoverFlush, MarkLoser, Serve, Recovering
  <2> QED
    BY <1>3, <2>1 DEF RestInv, Resting, txnVars, stmtVars
<1>6. ASSUME UNCHANGED <<mem, undo, locked, pc, stmt, scan>> PROVE KeepInv'
  BY <1>0, <1>1, <1>6 DEF KeepInv, RowsKept, WritesLocked, MatchesAre
<1>7. ASSUME NEW t \in Table, NEW r \in Rid, WriteBack(t, r) PROVE KeepInv'
  BY <1>6, <1>7 DEF WriteBack, txnVars, stmtVars
<1>8. CASE UNCHANGED vars
  BY <1>6, <1>8 DEF vars, storeVars, txnVars, stmtVars
<1> QED
  BY <1>2, <1>4, <1>5, <1>7, <1>8 DEF Next

(* At first no transaction relies on anything.                              *)
LEMMA InitKeepInv == Init /\ SlotsKept => KeepInv
BY DEF Init, KeepInv, RowsKept, WritesLocked, MatchesAre, NoLocks

(* The rows a statement has matched are still what it matched when it uses  *)
(* them, where slots are not used again.                                    *)
THEOREM MatchesAlwaysHold == Spec /\ FixedLength /\ SlotsKept => []MatchesHold
<1>1. TypeInv /\ KeepInv => MatchesHold
  <2> SUFFICES ASSUME TypeInv, KeepInv, NEW s \in Session,
                      pc[s] \in {"scan", "lockrow", "reread", "apply", "newrow"}, NEW i \in DOMAIN scan[s].matches
               PROVE  Get(mem[stmt[s].table], scan[s].matches[i].rid) = scan[s].matches[i].row
    BY DEF MatchesHold
  <2>1. pc[s] \in {"scan", "lockrow", "reread", "apply"}
    BY DEF KeepInv
  <2>2. stmt[s].table \in Table /\ scan[s].matches[i].rid \in Rid
    BY <2>1, SessionIs, StmtIs, MatchTypes DEF RunsStatement
  <2> QED
    BY <2>1, <2>2, SlotIs DEF KeepInv, MatchesAre
<1> QED
  BY <1>1, InitTypeInv, TypeInvStep, InitRestInv, RestInvStep, InitLockInv, LockInvStep, InitOrderInv, OrderInvStep,
     InitKeepInv, KeepInvStep, PTL DEF Spec

(* A statement reads no row that another unfinished transaction has         *)
(* written, where slots are not used again.                                 *)
THEOREM ReadsAlwaysCommitted == Spec /\ FixedLength /\ SlotsKept => ReadsAreCommitted
<1>1. TypeInv /\ RestInv /\ LockInv /\ KeepInv /\ [Next]_vars => [ReadCommitted]_vars
  <2> SUFFICES ASSUME TypeInv, RestInv, LockInv, KeepInv, Next, NEW s \in Session,
                      Len(scan'[s].matches) > Len(scan[s].matches)
               PROVE  ~ WrittenByOther(s, stmt[s].table, scan[s].rid)
    BY DEF ReadCommitted
  <2>1. CASE Reread(s)
    <3>1. <<stmt[s].table, scan[s].rid>> \in locked[s]["S"] \cup locked[s]["X"]
      BY <2>1 DEF LockInv, HoldsItsRows, Mode, Reread, At
    <3>2. stmt[s].table \in Table /\ scan[s].rid \in Rid
      BY <2>1, SessionIs, StmtIs DEF Reread, At, RunsStatement
    <3> QED
      BY <3>1, <3>2 DEF WrittenByOther, KeepInv, WritesLocked, LockInv, Exclusive
  <2>2. ASSUME scan'[s].matches = scan[s].matches PROVE FALSE
    <3>1. Len(scan[s].matches) \in Nat
      BY SessionIs DEF ScanType
    <3> QED
      BY <2>2, <3>1
  <2>3. ASSUME scan'[s].matches = <<>> PROVE FALSE
    <3>1. Len(scan[s].matches) \in Nat /\ Len(<<>>) = 0
      BY SessionIs DEF ScanType
    <3> QED
      BY <2>3, <3>1
  <2>4. scan \in [Session -> ScanType]
    BY DEF TypeInv, StmtTypes
  <2>5. ASSUME NEW u \in Session, Step(u), ~ Reread(s) PROVE scan'[s].matches \in {scan[s].matches, <<>>}
                                                              \/ ApplyDelete(s) \/ ApplyUpdate(s)
    <3>1. CASE u # s
      BY <2>5, <3>1, OthersStay DEF Same
    <3>2. CASE u = s
      <4>1. CASE Start(s) \/ Commit(s) \/ Abort(s)
        BY <2>4, <4>1 DEF Start, Commit, Abort, EndTxn, NoScan
      <4>2. CASE NextRow(s) \/ InsertRow(s)
        <5> DEFINE Q == Seq([rid : Rid, row : Row])
        <5>1. scan \in [Session -> [next : Rid \cup {0}, rid : Rid \cup {0}, matches : Q]]
          BY <2>4 DEF ScanType
        <5> HIDE DEF Q
        <5>2. CASE NextRow(s)
          BY <5>1, <5>2 DEF NextRow
        <5>3. CASE InsertRow(s)
          BY <5>1, <5>3 DEF InsertRow
        <5> QED
          BY <4>2, <5>2, <5>3
      <4> QED
        BY <2>5, <3>2, <4>1, <4>2
           DEF Step, Begin, WaitNewRow, LockRow, EndScan, EndApply, CommitFlush, Fail, UndoInsert, UndoDelete,
               UndoUpdate, AbortFlush, stmtVars
    <3> QED
      BY <3>1, <3>2
  <2>6. CASE ApplyDelete(s) \/ ApplyUpdate(s)
    <3> DEFINE q == scan[s].matches
               M == [rid : Rid, row : Row]
    <3>1. scan'[s].matches = Tail(q) /\ Len(q) \in Nat \ {0} /\ q \in Seq(M)
      BY <2>6, MatchesShrink, SessionIs DEF ScanType
    <3>2. Len(scan'[s].matches) > Len(q)
      OBVIOUS
    <3> HIDE DEF q, M
    <3>3. Len(Tail(q)) = Len(q) - 1
      BY <3>1
    <3> QED
      BY <3>1, <3>2, <3>3
  <2>7. ASSUME NEW t \in Table, NEW r \in Rid, WriteBack(t, r) PROVE FALSE
    BY <2>2, <2>7 DEF WriteBack, stmtVars
  <2>8. CASE Crash
    BY <2>3, <2>8 DEF Crash, NoScan
  <2>9. CASE Recover
    BY <2>2, <2>9 DEF Recover, RecoverInsert, RecoverDelete, RecoverUpdate, RecoverFlush, MarkLoser, Serve, stmtVars
  <2> QED
    BY <2>1, <2>2, <2>3, <2>5, <2>6, <2>7, <2>8, <2>9 DEF Next
<1>2. Spec /\ FixedLength /\ SlotsKept => [][ReadCommitted]_vars
  BY <1>1, InitTypeInv, TypeInvStep, InitRestInv, RestInvStep, InitLockInv, LockInvStep, InitOrderInv, OrderInvStep,
     InitKeepInv, KeepInvStep, PTL DEF Spec
<1> QED
  BY <1>2 DEF ReadsAreCommitted

-----------------------------------------------------------------------------
(***************************************************************************)
(* Transactions leave all of their changes or none, with statements that   *)
(* fail, crashes, and crashes during recovery, for the workloads where     *)
(* undo finds what it looks for (UndoKept).                                *)
(***************************************************************************)

(* Undo and recovery meet the slots as their records have them: no slot is  *)
(* used again while a transaction may still undo what it did there.         *)
UndoKept ==
  /\ SlotsKept
  /\ workload.fails => "delete" \notin workload.ops
  /\ workload.dies > 0 =>
       /\ workload.serves <= 1 /\ "delete" \notin workload.ops
       /\ {"insert", "update"} \subseteq workload.ops => \A w \in workload.where : w \cap workload.insert = {}

-----------------------------------------------------------------------------
(* Counting.                                                                *)
One(b) == IF b THEN 1 ELSE 0
Is(x, y) == IF x = y THEN 1 ELSE 0

(* One more element, or none.                                               *)
LEMMA Counted ==
  ASSUME NEW S, IsFiniteSet(S), NEW x, x \notin S, NEW T, T \ {x} = S
  PROVE  /\ IsFiniteSet(T) /\ Cardinality(S) \in Nat
         /\ Cardinality(T) = Cardinality(S) + One(x \in T)
<1>1. CASE x \in T
  <2>1. T = S \cup {x}
    BY <1>1
  <2> QED
    BY <1>1, <2>1, FS_AddElement, FS_CardinalityType DEF One
<1>2. CASE x \notin T
  <2>1. T = S
    BY <1>2
  <2> QED
    BY <1>2, <2>1, FS_CardinalityType DEF One
<1> QED
  BY <1>1, <1>2

(* The rows of a table are a finite bag.                                    *)
LEMMA StoredCounts ==
  ASSUME NEW h, NEW v \in Row
  PROVE  LET S == {r \in Rid : h[r] = v}
         IN Stored(h)[v] = Cardinality(S) /\ IsFiniteSet(S) /\ Cardinality(S) \in Nat
<1> DEFINE S == {r \in Rid : h[r] = v}
<1>1. IsFiniteSet(S)
  BY RidAssumption, FS_Subset
<1> QED
  BY <1>1, FS_CardinalityType DEF Stored

(* Two tables that differ at the slot r at most.                            *)
ButFor(r, g, h) == \A x \in Rid \ {r} : g[x] = h[x]

(* A slot that changes moves one row into the bag and one out of it.        *)
LEMMA StoredMoves ==
  ASSUME NEW h, NEW g, NEW r \in Rid, ButFor(r, g, h), NEW v \in Row
  PROVE  /\ Stored(g)[v] + Is(h[r], v) = Stored(h)[v] + Is(g[r], v)
         /\ Stored(g)[v] \in Nat /\ Stored(h)[v] \in Nat
<1> DEFINE S == {x \in Rid \ {r} : h[x] = v}
           G == {x \in Rid : g[x] = v}
           H == {x \in Rid : h[x] = v}
<1>1. IsFiniteSet(S)
  BY RidAssumption, FS_Subset
<1>2. r \notin S /\ G \ {r} = S /\ H \ {r} = S
  BY DEF ButFor
<1>3. (r \in G <=> g[r] = v) /\ (r \in H <=> h[r] = v)
  OBVIOUS
<1>4. Stored(g)[v] = Cardinality(G) /\ Stored(h)[v] = Cardinality(H)
  BY DEF Stored
<1> HIDE DEF S, G, H
<1>5. Cardinality(S) \in Nat /\ Cardinality(G) = Cardinality(S) + One(r \in G)
  BY <1>1, <1>2, Counted
<1>6. Cardinality(H) = Cardinality(S) + One(r \in H)
  BY <1>1, <1>2, Counted
<1>7. One(r \in G) = Is(g[r], v) /\ One(r \in H) = Is(h[r], v)
  BY <1>3 DEF One, Is
<1>8. Is(g[r], v) \in Nat /\ Is(h[r], v) \in Nat
  BY DEF Is
<1> QED
  BY <1>4, <1>5, <1>6, <1>7, <1>8

(* The tables a and b differ at the slots W at most, and there as m and n.  *)
Swapped(a, b, m, n, W) ==
  /\ \A x \in Rid : x \in W => a[x] = m[x] /\ b[x] = n[x]
  /\ \A x \in Rid : x \notin W => a[x] = b[x] /\ m[x] = n[x]

(* So the bags of the four tables differ by the same rows.                  *)
LEMMA StoredSwap ==
  ASSUME NEW a, NEW b, NEW m, NEW n, NEW W, NEW v \in Row, Swapped(a, b, m, n, W)
  PROVE  /\ Stored(a)[v] + Stored(n)[v] = Stored(b)[v] + Stored(m)[v]
         /\ Stored(a)[v] \in Nat /\ Stored(b)[v] \in Nat /\ Stored(m)[v] \in Nat /\ Stored(n)[v] \in Nat
<1>1. ASSUME NEW h
      PROVE  LET I == {x \in Rid : x \in W /\ h[x] = v}
                 O == {x \in Rid : x \notin W /\ h[x] = v}
             IN Stored(h)[v] = Cardinality(I) + Cardinality(O) /\ Cardinality(I) \in Nat /\ Cardinality(O) \in Nat
  <2> DEFINE I == {x \in Rid : x \in W /\ h[x] = v}
             O == {x \in Rid : x \notin W /\ h[x] = v}
             S == {x \in Rid : h[x] = v}
  <2>1. S = I \cup O /\ I \cap O = {}
    OBVIOUS
  <2>2. IsFiniteSet(I) /\ IsFiniteSet(O)
    BY RidAssumption, FS_Subset
  <2>3. Stored(h)[v] = Cardinality(S)
    BY DEF Stored
  <2> HIDE DEF I, O, S
  <2>4. Cardinality(S) = Cardinality(I) + Cardinality(O) - Cardinality({})
    BY <2>1, <2>2, FS_Union
  <2>5. Cardinality(I) \in Nat /\ Cardinality(O) \in Nat /\ Cardinality({}) = 0
    BY <2>2, FS_CardinalityType, FS_EmptySet
  <2>6. Stored(h)[v] = Cardinality(I) + Cardinality(O) /\ Cardinality(I) \in Nat /\ Cardinality(O) \in Nat
    BY <2>3, <2>4, <2>5
  <2> QED
    BY <2>6 DEF I, O
<1> DEFINE In(h) == {x \in Rid : x \in W /\ h[x] = v}
           Off(h) == {x \in Rid : x \notin W /\ h[x] = v}
<1>2. In(a) = In(m) /\ In(b) = In(n) /\ Off(a) = Off(b) /\ Off(m) = Off(n)
  BY DEF Swapped
<1>3. \A h : Stored(h)[v] = Cardinality(In(h)) + Cardinality(Off(h))
             /\ Cardinality(In(h)) \in Nat /\ Cardinality(Off(h)) \in Nat
  BY <1>1
<1> HIDE DEF In, Off
<1> QED
  BY <1>2, <1>3

-----------------------------------------------------------------------------
(* What the log tells of a slot.                                            *)

(* The records of the transactions ids about the slot r of the table t.     *)
About(rec, ids, t, r) == rec.kind = "DATA" /\ rec.id \in ids /\ rec.table = t /\ rec.rid = r
Records(l, ids, t, r) == {i \in DOMAIN l : About(l[i], ids, t, r)}

First(l, ids, t, r) ==
  CHOOSE i \in Records(l, ids, t, r) : \A j \in Records(l, ids, t, r) : i <= j

(* The table as it would be without these transactions: each slot as their  *)
(* first record about it says, the others as they are.                      *)
Origin(m, l, ids, t) ==
  [r \in Rid |-> IF Records(l, ids, t, r) = {} THEN m[t][r] ELSE l[First(l, ids, t, r)].before]

(* There is a first record.                                                 *)
LEMMA FirstIs ==
  ASSUME NEW l \in Seq(LogType), NEW ids, NEW t, NEW r, Records(l, ids, t, r) # {}
  PROVE  LET f == First(l, ids, t, r)
         IN f \in Records(l, ids, t, r) /\ f \in DOMAIN l /\ \A j \in Records(l, ids, t, r) : f <= j
<1> DEFINE S == Records(l, ids, t, r)
<1>1. S \subseteq Nat /\ S \subseteq DOMAIN l /\ S # {}
  BY DEF Records
<1>2. \E i \in S : \A j \in S : i <= j
  <2> HIDE DEF S
  <2> QED
    BY <1>1, LeastNat
<1>3. First(l, ids, t, r) = CHOOSE i \in S : \A j \in S : i <= j
  BY DEF First
<1> HIDE DEF S
<1>4. First(l, ids, t, r) \in S /\ \A j \in S : First(l, ids, t, r) <= j
  BY <1>2, <1>3
<1> QED
  BY <1>1, <1>4 DEF S

(* One more record in the log.                                              *)
LEMMA AppendIs ==
  ASSUME NEW l \in Seq(LogType), NEW rec \in LogType
  PROVE  LET k == Append(l, rec)
         IN /\ k \in Seq(LogType) /\ DOMAIN l = 1 .. Len(l) /\ DOMAIN k = DOMAIN l \cup {Len(l) + 1}
            /\ k[Len(l) + 1] = rec /\ Len(l) \in Nat /\ Len(k) = Len(l) + 1
            /\ \A i \in DOMAIN l : k[i] = l[i] /\ i # Len(l) + 1 /\ i <= Len(l) + 1
OBVIOUS

(* The log k is the log l and one record.                                   *)
Longer(k, l, rec) == k = Append(l, rec)

(* The records about a slot in a log that has become longer by one record:  *)
(* the first record stays the first.                                        *)
LEMMA RecordsGrow ==
  ASSUME NEW l \in Seq(LogType), NEW rec \in LogType, NEW k, Longer(k, l, rec), NEW ids, NEW t, NEW r
  PROVE  /\ About(rec, ids, t, r) => Records(k, ids, t, r) = Records(l, ids, t, r) \cup {Len(l) + 1}
         /\ ~ About(rec, ids, t, r) => Records(k, ids, t, r) = Records(l, ids, t, r)
         /\ Records(l, ids, t, r) # {} => /\ First(k, ids, t, r) = First(l, ids, t, r)
                                          /\ k[First(k, ids, t, r)] = l[First(l, ids, t, r)]
         /\ Records(l, ids, t, r) = {} /\ About(rec, ids, t, r) => k[First(k, ids, t, r)] = rec
<1> DEFINE n == Len(l) + 1
           new == About(rec, ids, t, r)
           S == Records(l, ids, t, r)
           T == Records(k, ids, t, r)
<1>1. /\ k \in Seq(LogType) /\ DOMAIN k = DOMAIN l \cup {n} /\ k[n] = rec
      /\ \A i \in DOMAIN l : k[i] = l[i] /\ i # n /\ i <= n
  BY AppendIs DEF Longer
<1> HIDE DEF n
<1>2. (new => T = S \cup {n}) /\ (~ new => T = S)
  BY <1>1 DEF Records
<1>3. S \subseteq DOMAIN l /\ S \subseteq Nat /\ n \in Nat
  BY DEF Records, n
<1>4. ASSUME S # {} PROVE First(k, ids, t, r) = First(l, ids, t, r) /\ k[First(k, ids, t, r)] = l[First(l, ids, t, r)]
  <2> DEFINE f == First(l, ids, t, r)
             g == First(k, ids, t, r)
  <2>1. f \in S /\ \A j \in S : f <= j
    BY <1>4, FirstIs
  <2>2. T # {}
    BY <1>2, <1>4
  <2>3. g \in T /\ \A j \in T : g <= j
    BY <1>1, <2>2, FirstIs
  <2> HIDE DEF f, g, S, T, new
  <2>4. f \in T /\ f # n /\ f <= n /\ f \in Nat
    BY <1>1, <1>2, <1>3, <2>1
  <2>5. g # n
    <3>1. g <= f
      BY <2>3, <2>4
    <3> QED
      BY <1>3, <2>4, <3>1
  <2>6. g \in S
    BY <1>2, <2>3, <2>5
  <2>7. g = f
    BY <1>3, <2>1, <2>3, <2>4, <2>6
  <2> QED
    BY <1>1, <1>3, <2>1, <2>7 DEF f, g
<1>5. ASSUME S = {}, new PROVE k[First(k, ids, t, r)] = rec
  <2>1. T = {n}
    BY <1>2, <1>5
  <2>2. First(k, ids, t, r) \in T
    BY <1>1, <2>1, FirstIs
  <2> QED
    BY <1>1, <2>1, <2>2
<1> QED
  BY <1>2, <1>4, <1>5 DEF n

(* Records of other transactions, or of another kind, say nothing.          *)
LEMMA OriginStays ==
  ASSUME NEW l \in Seq(LogType), NEW rec \in LogType, NEW k, Longer(k, l, rec), NEW ids, NEW m, NEW t,
         rec.kind # "DATA" \/ rec.id \notin ids
  PROVE  Origin(m, k, ids, t) = Origin(m, l, ids, t)
<1>1. ASSUME NEW r
      PROVE  /\ Records(k, ids, t, r) = Records(l, ids, t, r)
             /\ Records(l, ids, t, r) # {} => k[First(k, ids, t, r)] = l[First(l, ids, t, r)]
  <2>1. ~ About(rec, ids, t, r)
    BY DEF About
  <2> QED
    BY <2>1, RecordsGrow
<1>2. \A r \in Rid : (IF Records(k, ids, t, r) = {} THEN m[t][r] ELSE k[First(k, ids, t, r)].before)
                   = (IF Records(l, ids, t, r) = {} THEN m[t][r] ELSE l[First(l, ids, t, r)].before)
  BY <1>1
<1> QED
  BY <1>2, Zenon DEF Origin

(* The tables n are m but for what the record says.                         *)
Written(n, m, rec) ==
  /\ m[rec.table][rec.rid] = rec.before
  /\ \A t \in Table, r \in Rid : t # rec.table \/ r # rec.rid => n[t][r] = m[t][r]

(* What such a write does to the table without the transactions ids:        *)
(* nothing, unless another transaction writes a slot they have no record    *)
(* of.                                                                      *)
OriginFollows(n, k, m, l, rec, ids, t, r) ==
  /\ rec.id \in ids => Origin(n, k, ids, t)[r] = Origin(m, l, ids, t)[r]
  /\ rec.id \notin ids /\ Records(l, ids, t, r) # {} => Origin(n, k, ids, t)[r] = Origin(m, l, ids, t)[r]
  /\ rec.id \notin ids /\ Records(l, ids, t, r) = {} =>
       Origin(n, k, ids, t)[r] = n[t][r] /\ Origin(m, l, ids, t)[r] = m[t][r]

(* A logged write by one of the transactions leaves the origin, one by      *)
(* another goes into it, if the slot is not theirs.                         *)
LEMMA OriginWrites ==
  ASSUME NEW l \in Seq(LogType), NEW rec \in DataType, NEW k, Longer(k, l, rec), NEW ids, NEW m, NEW n,
         Written(n, m, rec), NEW t \in Table, NEW r \in Rid
  PROVE  OriginFollows(n, k, m, l, rec, ids, t, r)
<1> USE DEF OriginFollows
<1>0. rec \in LogType /\ rec.kind = "DATA"
  BY DEF LogType, DataType
<1>1. /\ About(rec, ids, t, r) => Records(k, ids, t, r) = Records(l, ids, t, r) \cup {Len(l) + 1}
      /\ ~ About(rec, ids, t, r) => Records(k, ids, t, r) = Records(l, ids, t, r)
      /\ Records(l, ids, t, r) # {} => k[First(k, ids, t, r)] = l[First(l, ids, t, r)]
      /\ Records(l, ids, t, r) = {} /\ About(rec, ids, t, r) => k[First(k, ids, t, r)] = rec
  BY <1>0, RecordsGrow
<1>2. /\ Origin(n, k, ids, t)[r] = IF Records(k, ids, t, r) = {} THEN n[t][r] ELSE k[First(k, ids, t, r)].before
      /\ Origin(m, l, ids, t)[r] = IF Records(l, ids, t, r) = {} THEN m[t][r] ELSE l[First(l, ids, t, r)].before
  BY DEF Origin
<1>3. CASE About(rec, ids, t, r)
  <2>1. t = rec.table /\ r = rec.rid /\ Records(k, ids, t, r) # {} /\ m[t][r] = rec.before /\ rec.id \in ids
    BY <1>1, <1>3 DEF About, Written
  <2> QED
    BY <1>1, <1>2, <1>3, <2>1
<1>4. CASE ~ About(rec, ids, t, r)
  <2>1. Records(k, ids, t, r) = Records(l, ids, t, r)
    BY <1>1, <1>4
  <2>2. rec.id \in ids => n[t][r] = m[t][r]
    BY <1>0, <1>4 DEF About, Written
  <2> QED
    BY <1>1, <1>2, <2>1, <2>2
<1> QED
  BY <1>3, <1>4

-----------------------------------------------------------------------------
(* The transactions of the log.                                             *)

(* The ids a log has records of one kind for, as it grows.                  *)
LEMMA LoggedGrows ==
  ASSUME log \in Seq(LogType), NEW rec \in LogType, Longer(log', log, rec), NEW kind
  PROVE  Logged(kind)' = Logged(kind) \cup (IF rec.kind = kind THEN {rec.id} ELSE {})
<1> DEFINE n == Len(log) + 1
<1>1. /\ DOMAIN log' = DOMAIN log \cup {n} /\ log'[n] = rec
      /\ \A i \in DOMAIN log : log'[i] = log[i]
  BY AppendIs DEF Longer
<1> HIDE DEF n
<1>2. ASSUME NEW id \in Logged(kind)' PROVE id \in Logged(kind) \cup (IF rec.kind = kind THEN {rec.id} ELSE {})
  BY <1>1, <1>2 DEF Logged
<1>3. ASSUME NEW id \in Logged(kind) PROVE id \in Logged(kind)'
  BY <1>1, <1>3 DEF Logged
<1>4. rec.kind = kind => rec.id \in Logged(kind)'
  BY <1>1 DEF Logged
<1> QED
  BY <1>2, <1>3, <1>4

(* Who is a loser changes when transactions begin and end.                  *)
LEMMA LosersGrow ==
  ASSUME log \in Seq(LogType), NEW rec \in LogType, Longer(log', log, rec)
  PROVE  /\ rec.kind = "DATA" => Losers' = Losers
         /\ rec.kind = "BEGIN" /\ (\A i \in DOMAIN log : log[i].id # rec.id) => Losers' = Losers \cup {rec.id}
         /\ rec.kind \in {"COMMIT", "ABORT"} => Losers' = Losers \ {rec.id}
<1>1. /\ Logged("BEGIN")' = Logged("BEGIN") \cup (IF rec.kind = "BEGIN" THEN {rec.id} ELSE {})
      /\ Logged("COMMIT")' = Logged("COMMIT") \cup (IF rec.kind = "COMMIT" THEN {rec.id} ELSE {})
      /\ Logged("ABORT")' = Logged("ABORT") \cup (IF rec.kind = "ABORT" THEN {rec.id} ELSE {})
  BY LoggedGrows
<1>2. (\A i \in DOMAIN log : log[i].id # rec.id) => rec.id \notin Logged("COMMIT") \cup Logged("ABORT")
  BY DEF Logged
<1>3. CASE rec.kind = "DATA"
  BY <1>1, <1>3 DEF Losers
<1>4. CASE rec.kind = "BEGIN"
  BY <1>1, <1>2, <1>4 DEF Losers
<1>5. CASE rec.kind \in {"COMMIT", "ABORT"}
  BY <1>1, <1>5 DEF Losers
<1> QED
  BY <1>3, <1>4, <1>5

-----------------------------------------------------------------------------
(* The steps of the threads, by what they do to the tables, the log and the *)
(* undo lists.                                                              *)

(* What the undo list of an aborting transaction says is in the tables:     *)
(* each change is what the slot holds, or what the next change to the slot  *)
(* found there.                                                             *)
SameSlot(c, d) == c.table = d.table /\ c.rid = d.rid

Explains(q, m) ==
  \A i \in DOMAIN q :
    LET c == q[i]
    IN /\ c.op = "UPDATE"
       /\ \/ /\ m[c.table][c.rid] = c.after
             /\ \A j \in DOMAIN q : j > i => ~ SameSlot(c, q[j])
          \/ \E j \in DOMAIN q : /\ j > i /\ SameSlot(c, q[j]) /\ q[j].before = c.after
                                /\ \A k \in DOMAIN q : i < k /\ k < j => ~ SameSlot(c, q[k])

(* The workload is one undo can serve; who runs no transaction has nothing  *)
(* to undo, nor has who has undone it.                                      *)
UndoInv ==
  /\ UndoKept
  /\ \A s \in Session : /\ txn[s] = 0 \/ pc[s] = "undone" => undo[s] = <<>>
                        /\ workload.fails => Explains(undo[s], mem)

(* The rows a statement has matched are rows it asked for.                  *)
Wanted(s) ==
  pc[s] \in {"scan", "lockrow", "reread", "apply"} =>
    \A i \in DOMAIN scan[s].matches : scan[s].matches[i].row \in stmt[s].where

WhereInv == \A s \in Session : Wanted(s)

(* Every step of a thread keeps that.                                       *)
LEMMA WhereInvStep == TypeInv /\ WhereInv /\ [Next]_vars => WhereInv'
<1> SUFFICES ASSUME TypeInv, WhereInv, [Next]_vars PROVE WhereInv'
  OBVIOUS
<1>0. pc \in [Session -> Places] /\ scan \in [Session -> ScanType]
  BY DEF TypeInv, StmtTypes
<1>1. ASSUME UNCHANGED <<pc, stmt, scan>> PROVE WhereInv'
  BY <1>1 DEF WhereInv, Wanted
<1>2. ASSUME NEW s \in Session, Step(s) PROVE WhereInv'
  <2>1. Wanted(s) /\ \A u \in Session \ {s} : Wanted(u)'
    BY <1>2, OthersStay DEF WhereInv, Wanted, Same
  <2> SUFFICES Wanted(s)'
    BY <2>1 DEF WhereInv
  <2>2. CASE Begin(s) \/ LockRow(s) \/ EndScan(s) \/ EndApply(s)
    BY <1>0, <2>1, <2>2 DEF Begin, LockRow, EndScan, EndApply, At, Wanted
  <2>3. CASE Start(s)
    BY <1>0, <2>3 DEF Start, Wanted, NoScan
  <2>4. CASE InsertRow(s) \/ WaitNewRow(s) \/ CommitFlush(s) \/ AbortFlush(s) \/ Fail(s) \/ Commit(s) \/ Abort(s)
    <3>1. pc'[s] \in {"idle", "newrow", "flushed", "undone", "abort"}
      <4>1. CASE InsertRow(s)
        BY <1>0, <4>1, InsertDoes DEF LockNewRow
      <4>2. CASE WaitNewRow(s)
        BY <1>0, <4>2, SessionIs DEF WaitNewRow, At, RunsStatement
      <4>3. CASE CommitFlush(s) \/ AbortFlush(s) \/ Fail(s) \/ Commit(s) \/ Abort(s)
        BY <1>0, <4>3 DEF CommitFlush, AbortFlush, Fail, Commit, Abort, EndTxn
      <4> QED
        BY <2>4, <4>1, <4>2, <4>3
    <3> QED
      BY <3>1 DEF Wanted
  <2>5. CASE NextRow(s)
    <3>1. pc[s] = "scan" /\ scan'[s].matches = scan[s].matches /\ stmt' = stmt
      BY <1>0, <2>5 DEF NextRow, At, ScanType
    <3> QED
      BY <2>1, <3>1 DEF Wanted
  <2>6. CASE Reread(s)
    <3> DEFINE q == scan[s].matches
               row == Get(mem[stmt[s].table], scan[s].rid)
               x == [rid |-> scan[s].rid, row |-> row]
               p == scan'[s].matches
    <3>1. pc[s] = "reread" /\ stmt' = stmt /\ \A i \in DOMAIN q : q[i].row \in stmt[s].where
      BY <2>1, <2>6 DEF Reread, At, Wanted
    <3>2. p = IF row \in stmt[s].where THEN Append(q, x) ELSE q
      BY <1>0, <2>6 DEF Reread, ScanType
    <3>3. \A i \in DOMAIN p : (i \in DOMAIN q /\ p[i] = q[i]) \/ p[i] = x
      BY <2>6, MatchesGrow
    <3>4. x.row = row
      OBVIOUS
    <3> HIDE DEF x, row
    <3>5. ASSUME NEW i \in DOMAIN p PROVE p[i].row \in stmt[s].where
      <4>1. CASE row \in stmt[s].where
        BY <3>1, <3>3, <3>4, <4>1
      <4>2. CASE row \notin stmt[s].where
        BY <3>1, <3>2, <4>2
      <4> QED
        BY <4>1, <4>2
    <3> QED
      BY <3>1, <3>5 DEF Wanted
  <2>7. CASE ApplyDelete(s) \/ ApplyUpdate(s)
    <3> DEFINE q == scan[s].matches
               p == scan'[s].matches
    <3>1. pc[s] = "apply" /\ stmt' = stmt
      BY <2>7 DEF ApplyDelete, ApplyUpdate, At
    <3>2. \A i \in DOMAIN p : i + 1 \in DOMAIN q /\ p[i] = q[i + 1]
      BY <2>7, MatchesShrink
    <3>3. \A i \in DOMAIN q : q[i].row \in stmt[s].where
      BY <2>1, <3>1 DEF Wanted
    <3> HIDE DEF q, p
    <3>4. \A i \in DOMAIN p : p[i].row \in stmt[s].where
      BY <3>2, <3>3
    <3> QED
      BY <3>1, <3>4 DEF Wanted, p
  <2>8. CASE UndoInsert(s) \/ UndoDelete(s) \/ UndoUpdate(s)
    BY <2>1, <2>8 DEF UndoInsert, UndoDelete, UndoUpdate, stmtVars, Wanted
  <2> QED
    BY <1>2, <2>2, <2>3, <2>4, <2>5, <2>6, <2>7, <2>8 DEF Step
<1>3. ASSUME NEW t \in Table, NEW r \in Rid, WriteBack(t, r) PROVE WhereInv'
  BY <1>1, <1>3 DEF WriteBack, stmtVars
<1>4. CASE Crash
  BY <1>4 DEF Crash, WhereInv, Wanted, NoScan
<1>5. CASE Recover
  BY <1>1, <1>5 DEF Recover, RecoverInsert, RecoverDelete, RecoverUpdate, RecoverFlush, MarkLoser, Serve,
                    Recovering, stmtVars
<1>6. CASE UNCHANGED vars
  BY <1>1, <1>6 DEF vars, stmtVars
<1> QED
  BY <1>2, <1>3, <1>4, <1>5, <1>6 DEF Next

(* A thread writes a slot that only its transaction has locked.             *)
Moves(s, op, t, r, before, after) ==
  /\ Writes(s, op, t, r, before, after) /\ mem[t][r] = before
  /\ UNCHANGED <<disk, nextId, txn, committed>> /\ pc'[s] # "undone"
  /\ \A u \in Session \ {s} : <<t, r>> \notin locked[u]["X"]
  /\ <<t, r>> \in locked'[s]["X"] /\ \A u \in Session : locked[u]["X"] \subseteq locked'[u]["X"]

(* A change that a statement makes, added to the undo list ...              *)
Does(s, op, t, r, before, after) ==
  /\ Moves(s, op, t, r, before, after)
  /\ \/ op = "INSERT" /\ "insert" \in workload.ops /\ before = Empty /\ after \in Row \cap workload.insert
     \/ op = "DELETE" /\ "delete" \in workload.ops
     \/ /\ op = "UPDATE" /\ "update" \in workload.ops /\ after \in Row
        /\ before \in Row /\ \E w \in workload.where : before \in w
  /\ undo' = [undo EXCEPT ![s] = Append(@, Change(op, t, r, before, after))]

(* ... or takes back the last change it has made.                           *)
Undoes(s, op, t, r, before, after) ==
  /\ Moves(s, op, t, r, before, after)
  /\ op = "UPDATE" /\ workload.fails
  /\ undo[s] # <<>> /\ Undone(s)
  /\ LET c == undo[s][Len(undo[s])]
     IN c.op = "UPDATE" /\ c.table = t /\ c.rid = r /\ c.before = after /\ c.after = before

(* Other steps do not change what the tables hold.                          *)
Passes(s) ==
  /\ UNCHANGED <<mem, log, nextId, txn, undo, committed>>
  /\ \A u \in Session : locked[u]["X"] \subseteq locked'[u]["X"]
  /\ pc'[s] = "undone" => undo[s] = <<>>
  /\ disk' = disk \/ (disk' = Flushed(s) /\ txn[s] # 0)

(* Locks stay until the transaction ends.                                   *)
LEMMA LocksStay ==
  ASSUME TypeInv, NEW s \in Session, Step(s), ~ Ending(s), NEW u \in Session
  PROVE  locked[u]["X"] \subseteq locked'[u]["X"]
<1>1. CASE u # s
  BY <1>1, OthersStay DEF Same
<1>2. CASE u = s
  <2>1. CASE locked' = locked
    BY <2>1
  <2>2. CASE \E m \in {"S", "X"}, t \in Table, r \in Rid : Lockable(s, m, t, r) /\ locked' = Locking(s, m, t, r)
    BY <1>2, <2>2, LocksGrow
  <2> QED
    BY <2>1, <2>2, LockStep
<1> QED
  BY <1>1, <1>2

(* The changes of a statement.                                              *)
LEMMA Changing ==
  ASSUME TypeInv, LockInv, KeepInv, WhereInv, NEW s \in Session, InsertRow(s) \/ ApplyDelete(s) \/ ApplyUpdate(s)
  PROVE  \E op, t, r, before, after : Does(s, op, t, r, before, after)
<1>0. Step(s) /\ ~ Ending(s)
  BY DEF Step, Ending, Commit, Abort, InsertRow, ApplyDelete, ApplyUpdate, At
<1>1. \A u \in Session : locked[u]["X"] \subseteq locked'[u]["X"]
  BY <1>0, LocksStay
<1>2. UNCHANGED <<disk, nextId, txn, committed>> /\ pc[s] \in {"insert", "apply"}
  BY DEF InsertRow, ApplyDelete, ApplyUpdate, At, ghostVars
<1>3. CASE InsertRow(s)
  <2> DEFINE t == stmt[s].table
             row == stmt[s].to
  <2>1. PICK e \in Rid :
          /\ Writes(s, "INSERT", t, e, Empty, row) /\ mem[t][e] = Empty
          /\ undo' = [undo EXCEPT ![s] = Append(@, Change("INSERT", t, e, Empty, row))]
          /\ locked' = Locking(s, "X", t, e) /\ pc' = [pc EXCEPT ![s] = "idle"]
    BY <1>3, InsertLocks
  <2>2. row \in Row \cap workload.insert /\ "insert" \in workload.ops
    <3>0. stmt[s].op = "insert"
      BY <1>3, SessionIs DEF InsertRow, At, RunsStatement
    <3>1. stmt[s].op = "insert" /\ stmt[s] \in Statements
      BY <3>0, StmtIs
    <3>2. row \in workload.insert
      BY <3>1 DEF Statements
    <3> QED
      BY <3>1, <3>2, StmtIs, OpIs
  <2> HIDE DEF t, row
  <2>3. t \in Table
    BY <2>1 DEF Writes
  <2>4. <<t, e>> \in locked'[s]["X"]
    BY <2>1, <2>3, LocksGrow
  <2>5. \A u \in Session : <<t, e>> \notin locked[u]["X"]
    BY <2>1, <2>2, <2>3, SlotAssumption DEF KeepInv, RowsKept
  <2>6. pc'[s] # "undone"
    BY <2>1 DEF TypeInv, StmtTypes
  <2>7. Does(s, "INSERT", t, e, Empty, row)
    BY <1>1, <1>2, <2>1, <2>2, <2>4, <2>5, <2>6 DEF Does, Moves
  <2> QED
    BY <2>7
<1>4. CASE ApplyDelete(s) \/ ApplyUpdate(s)
  <2> DEFINE t == stmt[s].table
             m == Head(scan[s].matches)
  <2>1. scan[s].matches # <<>> /\ stmt[s].op \in {"delete", "update"} /\ pc[s] = "apply"
    BY <1>4 DEF ApplyDelete, ApplyUpdate, At
  <2>2. 1 \in DOMAIN scan[s].matches /\ m = scan[s].matches[1]
    <3> DEFINE q == scan[s].matches
    <3>1. DOMAIN q = 1 .. Len(q) /\ Len(q) \in Nat \ {0} /\ Head(q) = q[1]
      BY <1>4, MatchesShrink
    <3> HIDE DEF q
    <3>2. 1 \in DOMAIN q
      BY <3>1
    <3> QED
      BY <3>1, <3>2 DEF q
  <2>3. mem[t][m.rid] = m.row /\ <<t, m.rid>> \in locked[s]["X"]
    BY <2>1, <2>2 DEF KeepInv, MatchesAre, LockInv, HoldsItsRows, Mode
  <2>4. m.rid \in Rid /\ m.row \in Row /\ t \in Table
    BY <2>1, MatchIs, StmtIs
  <2>5. \A u \in Session \ {s} : <<t, m.rid>> \notin locked[u]["X"]
    BY <2>3, <2>4 DEF LockInv, Exclusive
  <2>6. <<t, m.rid>> \in locked'[s]["X"] /\ pc'[s] # "undone"
    BY <1>1, <1>4, <2>1, <2>3, UpdateDoes DEF ApplyDelete
  <2>7. ASSUME ApplyDelete(s) PROVE Does(s, "DELETE", t, m.rid, m.row, Empty)
    <3>1. /\ Writes(s, "DELETE", t, m.rid, m.row, Empty)
          /\ undo' = [undo EXCEPT ![s] = Append(@, Change("DELETE", t, m.rid, m.row, Empty))]
      BY <2>7, DeleteDoes
    <3>2. "delete" \in workload.ops
      BY <2>7, OpIs DEF ApplyDelete
    <3> HIDE DEF t, m
    <3> QED
      BY <1>1, <1>2, <2>3, <2>5, <2>6, <3>1, <3>2 DEF Does, Moves
  <2>8. ASSUME ApplyUpdate(s) PROVE Does(s, "UPDATE", t, m.rid, m.row, stmt[s].to)
    <3>1. /\ Writes(s, "UPDATE", t, m.rid, m.row, stmt[s].to)
          /\ undo' = [undo EXCEPT ![s] = Append(@, Change("UPDATE", t, m.rid, m.row, stmt[s].to))]
      BY <2>8, UpdateDoes
    <3>2. "update" \in workload.ops /\ stmt[s].to \in Row
      BY <2>8, OpIs, StmtIs DEF ApplyUpdate
    <3>3. stmt[s].op = "update" /\ stmt[s] \in Statements
      BY <2>8, StmtIs DEF ApplyUpdate
    <3>4. stmt[s].where \in workload.where
      BY <3>3 DEF Statements
    <3>5. m.row \in stmt[s].where
      BY <2>1, <2>2 DEF WhereInv, Wanted
    <3> HIDE DEF t, m
    <3> QED
      BY <1>1, <1>2, <2>3, <2>4, <2>5, <2>6, <3>1, <3>2, <3>4, <3>5 DEF Does, Moves
  <2> QED
    BY <1>4, <2>7, <2>8
<1> QED
  BY <1>3, <1>4

(* The steps of an abort: only updates have to be undone, and they find     *)
(* what they have written.                                                  *)
LEMMA TakingBack ==
  ASSUME TypeInv, LockInv, KeepInv, UndoInv, NEW s \in Session, UndoInsert(s) \/ UndoDelete(s) \/ UndoUpdate(s)
  PROVE  \E op, t, r, before, after : Undoes(s, op, t, r, before, after)
<1> DEFINE c == undo[s][Len(undo[s])]
<1>0. Step(s) /\ ~ Ending(s)
  BY DEF Step, Ending, Commit, Abort, UndoInsert, UndoDelete, UndoUpdate, Undoing, At
<1>1. \A u \in Session : locked[u]["X"] \subseteq locked'[u]["X"]
  BY <1>0, LocksStay
<1>2. /\ UNCHANGED <<disk, nextId, txn, committed, pc, locked>> /\ pc[s] = "abort" /\ undo[s] # <<>> /\ Undone(s)
      /\ c.op \in {"INSERT", "DELETE", "UPDATE"} /\ (c.op = "UPDATE" => UndoUpdate(s))
  BY DEF UndoInsert, UndoDelete, UndoUpdate, Undoing, At, ghostVars, stmtVars
<1>3. workload.fails
  BY <1>2 DEF KeepInv
<1>4. Len(undo[s]) \in DOMAIN undo[s] /\ DOMAIN undo[s] \subseteq Nat /\ \A j \in DOMAIN undo[s] : ~ (j > Len(undo[s]))
  <2> DEFINE q == undo[s]
             C == ChangeType
  <2>1. q \in Seq(C) /\ q # <<>>
    BY <1>2, SessionIs
  <2> HIDE DEF q, C
  <2> QED
    BY <2>1 DEF q
<1>5. Explains(undo[s], mem) /\ WritesLocked(s)
  BY <1>3 DEF UndoInv, KeepInv
<1>6. c.op = "UPDATE" /\ mem[c.table][c.rid] = c.after /\ <<c.table, c.rid>> \in locked[s]["X"]
  BY <1>4, <1>5 DEF Explains, WritesLocked
<1>7. Writes(s, "UPDATE", c.table, c.rid, c.after, c.before)
  BY <1>2, <1>6, UndoUpdateDoes
<1>8. c.table \in Table /\ c.rid \in Rid
  BY <1>7 DEF Writes
<1>9. \A u \in Session \ {s} : <<c.table, c.rid>> \notin locked[u]["X"]
  BY <1>6, <1>8 DEF LockInv, Exclusive
<1>10. Undoes(s, "UPDATE", c.table, c.rid, c.after, c.before)
  <2>1. pc'[s] # "undone" /\ <<c.table, c.rid>> \in locked'[s]["X"]
    BY <1>2, <1>6
  <2>2. Moves(s, "UPDATE", c.table, c.rid, c.after, c.before)
    BY <1>1, <1>2, <1>6, <1>7, <1>9, <2>1 DEF Moves
  <2> QED
    BY <1>2, <1>3, <1>6, <2>2 DEF Undoes
<1> QED
  BY <1>10

(* So a step of a thread begins a transaction, ends it, does or undoes a    *)
(* change, or passes.                                                       *)
LEMMA StepKinds ==
  ASSUME TypeInv, LockInv, KeepInv, WhereInv, UndoInv, NEW s \in Session, Step(s)
  PROVE  \/ Begin(s) \/ Ending(s) \/ Passes(s)
         \/ \E op, t, r, before, after : Does(s, op, t, r, before, after)
         \/ \E op, t, r, before, after : Undoes(s, op, t, r, before, after)
<1>1. CASE Begin(s) \/ Commit(s) \/ Abort(s)
  BY <1>1 DEF Ending
<1>2. CASE InsertRow(s) \/ ApplyDelete(s) \/ ApplyUpdate(s)
  BY <1>2, Changing
<1>3. CASE UndoInsert(s) \/ UndoDelete(s) \/ UndoUpdate(s)
  BY <1>3, TakingBack
<1>4. CASE \/ Start(s) \/ WaitNewRow(s) \/ NextRow(s) \/ LockRow(s) \/ Reread(s) \/ EndScan(s) \/ EndApply(s)
           \/ CommitFlush(s) \/ Fail(s) \/ AbortFlush(s)
  <2>1. ~ Ending(s) \/ Ending(s)
    OBVIOUS
  <2>2. ASSUME ~ Ending(s) PROVE \A u \in Session : locked[u]["X"] \subseteq locked'[u]["X"]
    BY <2>2, LocksStay
  <2>3. UNCHANGED <<mem, log, nextId, txn, undo, committed>> /\ (disk' = disk \/ (disk' = Flushed(s) /\ txn[s] # 0))
    BY <1>4, SessionIs DEF Start, WaitNewRow, NextRow, LockRow, Reread, EndScan, EndApply, CommitFlush, Fail, AbortFlush,
                storeVars, txnVars, ghostVars, At, RunsStatement
  <2>4. pc \in [Session -> Places]
    BY DEF TypeInv, StmtTypes
  <2>5. pc'[s] = "undone" => undo[s] = <<>>
    <3>1. CASE AbortFlush(s)
      BY <3>1 DEF AbortFlush
    <3>2. CASE \/ Start(s) \/ WaitNewRow(s) \/ NextRow(s) \/ LockRow(s) \/ Reread(s) \/ EndScan(s) \/ EndApply(s)
               \/ CommitFlush(s) \/ Fail(s)
      BY <2>4, <3>2 DEF Start, WaitNewRow, NextRow, LockRow, Reread, EndScan, EndApply, CommitFlush, Fail, At
    <3> QED
      BY <1>4, <3>1, <3>2
  <2> QED
    BY <2>2, <2>3, <2>5 DEF Passes
<1> QED
  BY <1>1, <1>2, <1>3, <1>4 DEF Step

(* One change more, or less.                                                *)
LEMMA ExplainsMore ==
  ASSUME NEW q \in Seq(ChangeType), NEW c \in ChangeType, NEW p, Longer(p, q, c), NEW m, NEW n,
         Explains(q, m), c.op = "UPDATE", m[c.table][c.rid] = c.before, n[c.table][c.rid] = c.after,
         \A d \in ChangeType : ~ SameSlot(d, c) => n[d.table][d.rid] = m[d.table][d.rid]
  PROVE  Explains(p, n)
<1> DEFINE N == Len(q) + 1
<1>1. /\ DOMAIN p = DOMAIN q \cup {N} /\ p[N] = c /\ N \in Nat
      /\ \A i \in DOMAIN q : p[i] = q[i] /\ i \in Nat /\ i < N /\ q[i] \in ChangeType
  BY DEF Longer
<1> HIDE DEF N
<1>2. ASSUME NEW i \in DOMAIN q
      PROVE  /\ p[i].op = "UPDATE"
             /\ \/ /\ n[p[i].table][p[i].rid] = p[i].after
                   /\ \A j \in DOMAIN p : j > i => ~ SameSlot(p[i], p[j])
                \/ \E j \in DOMAIN p : /\ j > i /\ SameSlot(p[i], p[j]) /\ p[j].before = p[i].after
                                       /\ \A k \in DOMAIN p : i < k /\ k < j => ~ SameSlot(p[i], p[k])
  <2> DEFINE d == q[i]
  <2>0. d \in ChangeType /\ p[i] = d /\ i \in Nat /\ i < N /\ d.op = "UPDATE"
    BY <1>1 DEF Explains
  <2>1. CASE m[d.table][d.rid] = d.after /\ \A j \in DOMAIN q : j > i => ~ SameSlot(d, q[j])
    <3>1. CASE SameSlot(d, c)
      <4>1. c.before = d.after
        BY <2>1, <3>1 DEF SameSlot
      <4>2. \A k \in DOMAIN p : i < k /\ k < N => ~ SameSlot(d, p[k])
        BY <1>1, <2>0, <2>1
      <4>3. N \in DOMAIN p /\ N > i /\ p[N] = c
        BY <1>1, <2>0
      <4> HIDE DEF d
      <4> QED
        BY <2>0, <3>1, <4>1, <4>2, <4>3
    <3>2. CASE ~ SameSlot(d, c)
      <4>1. n[d.table][d.rid] = d.after
        BY <2>0, <2>1, <3>2
      <4>2. \A j \in DOMAIN p : j > i => ~ SameSlot(d, p[j])
        BY <1>1, <2>1, <3>2
      <4> HIDE DEF d
      <4> QED
        BY <2>0, <4>1, <4>2
    <3> QED
      BY <3>1, <3>2
  <2>2. ASSUME NEW j \in DOMAIN q, j > i, SameSlot(d, q[j]), q[j].before = d.after,
               \A k \in DOMAIN q : i < k /\ k < j => ~ SameSlot(d, q[k])
        PROVE  \E h \in DOMAIN p : /\ h > i /\ SameSlot(p[i], p[h]) /\ p[h].before = p[i].after
                                   /\ \A k \in DOMAIN p : i < k /\ k < h => ~ SameSlot(p[i], p[k])
    <3>1. j \in DOMAIN p /\ p[j] = q[j] /\ j \in Nat /\ j < N
      BY <1>1
    <3>2. \A k \in DOMAIN p : i < k /\ k < j => ~ SameSlot(d, p[k])
      BY <1>1, <2>2, <3>1
    <3> HIDE DEF d
    <3> QED
      BY <2>0, <2>2, <3>1, <3>2
  <2> QED
    BY <2>0, <2>1, <2>2 DEF Explains
<1>3. /\ p[N].op = "UPDATE" /\ n[p[N].table][p[N].rid] = p[N].after
      /\ \A j \in DOMAIN p : j > N => ~ SameSlot(p[N], p[j])
  BY <1>1
<1> QED
  BY <1>1, <1>2, <1>3 DEF Explains

(* The list p is the list q without its last element.                       *)
Shorter(p, q) == DOMAIN p = DOMAIN q \ {Len(q)} /\ \A i \in DOMAIN p : p[i] = q[i]

(* An undo list that explains the tables still does when its last change is *)
(* undone and taken off.                                                    *)
LEMMA ExplainsLess ==
  ASSUME NEW q \in Seq(ChangeType), q # <<>>, NEW p, NEW m, NEW n, Explains(q, m), Shorter(p, q),
         n[q[Len(q)].table][q[Len(q)].rid] = q[Len(q)].before,
         \A d \in ChangeType : ~ SameSlot(d, q[Len(q)]) => n[d.table][d.rid] = m[d.table][d.rid]
  PROVE  Explains(p, n)
<1> DEFINE N == Len(q)
           c == q[N]
<1>1. /\ N \in DOMAIN q /\ N \in Nat
      /\ \A i \in DOMAIN q : i \in Nat /\ i <= N /\ q[i] \in ChangeType
  <2> DEFINE C == ChangeType
  <2>1. q \in Seq(C)
    OBVIOUS
  <2> HIDE DEF C
  <2>2. DOMAIN q = 1 .. N /\ N \in Nat \ {0} /\ \A i \in DOMAIN q : q[i] \in C
    BY <2>1
  <2> HIDE DEF N
  <2> QED
    BY <2>2 DEF C
<1>0. DOMAIN p = DOMAIN q \ {N}
  BY DEF Shorter
<1>2. \A i \in DOMAIN p : i \in DOMAIN q /\ p[i] = q[i] /\ i < N
  BY <1>0, <1>1 DEF Shorter
<1> HIDE DEF N
<1>3. ASSUME NEW i \in DOMAIN p
      PROVE  /\ p[i].op = "UPDATE"
             /\ \/ /\ n[p[i].table][p[i].rid] = p[i].after
                   /\ \A j \in DOMAIN p : j > i => ~ SameSlot(p[i], p[j])
                \/ \E j \in DOMAIN p : /\ j > i /\ SameSlot(p[i], p[j]) /\ p[j].before = p[i].after
                                       /\ \A k \in DOMAIN p : i < k /\ k < j => ~ SameSlot(p[i], p[k])
  <2> DEFINE d == q[i]
  <2>0. d \in ChangeType /\ p[i] = d /\ i \in Nat /\ i < N /\ d.op = "UPDATE" /\ i \in DOMAIN q
    BY <1>1, <1>2 DEF Explains
  <2>1. CASE m[d.table][d.rid] = d.after /\ \A j \in DOMAIN q : j > i => ~ SameSlot(d, q[j])
    <3>1. ~ SameSlot(d, c)
      BY <1>1, <2>0, <2>1
    <3>2. n[d.table][d.rid] = d.after
      BY <2>0, <2>1, <3>1 DEF N
    <3>3. \A j \in DOMAIN p : j > i => ~ SameSlot(d, p[j])
      BY <1>2, <2>1
    <3> HIDE DEF d
    <3> QED
      BY <2>0, <3>2, <3>3
  <2>2. ASSUME NEW j \in DOMAIN q, j > i, SameSlot(d, q[j]), q[j].before = d.after,
               \A k \in DOMAIN q : i < k /\ k < j => ~ SameSlot(d, q[k])
        PROVE  \/ /\ n[p[i].table][p[i].rid] = p[i].after
                  /\ \A h \in DOMAIN p : h > i => ~ SameSlot(p[i], p[h])
               \/ \E h \in DOMAIN p : /\ h > i /\ SameSlot(p[i], p[h]) /\ p[h].before = p[i].after
                                      /\ \A k \in DOMAIN p : i < k /\ k < h => ~ SameSlot(p[i], p[k])
    <3>0. \A k \in DOMAIN p : i < k /\ k < j => ~ SameSlot(d, p[k])
      BY <1>2, <2>2
    <3>1. CASE j = N
      <4>1. n[d.table][d.rid] = d.after
        BY <2>2, <3>1 DEF SameSlot, N
      <4>2. \A h \in DOMAIN p : h > i => ~ SameSlot(d, p[h])
        BY <1>2, <3>0, <3>1
      <4> HIDE DEF d
      <4> QED
        BY <2>0, <4>1, <4>2
    <3>2. CASE j # N
      <4>1. j \in DOMAIN p /\ p[j] = q[j]
        BY <1>0, <1>2, <3>2
      <4> HIDE DEF d
      <4> QED
        BY <2>0, <2>2, <3>0, <4>1
    <3> QED
      BY <3>1, <3>2
  <2> QED
    BY <2>0, <2>1, <2>2 DEF Explains
<1> QED
  BY <1>3 DEF Explains

-----------------------------------------------------------------------------
(* What is proved of every transaction already.                             *)
Known == TypeInv /\ RestInv /\ LockInv /\ OrderInv /\ KeepInv /\ ForceInv /\ WhereInv

(* The workload is one for the whole behaviour.                             *)
LEMMA WorkloadStays == TypeInv /\ [Next]_vars => workload' = workload
<1> SUFFICES ASSUME TypeInv, [Next]_vars PROVE workload' = workload
  OBVIOUS
<1>1. ASSUME NEW s \in Session, Step(s) PROVE workload' = workload
  BY <1>1, OthersStay
<1>2. ASSUME NEW t \in Table, NEW r \in Rid, WriteBack(t, r) PROVE workload' = workload
  BY <1>2 DEF WriteBack, ghostVars
<1> QED
  BY <1>1, <1>2 DEF Next, vars, ghostVars, Crash, Recover, RecoverInsert, RecoverDelete, RecoverUpdate, RecoverFlush,
                    MarkLoser, Serve

(* All of that holds at first ...                                           *)
LEMMA KnownInit == Init /\ FixedLength /\ UndoKept => Known
BY InitTypeInv, InitRestInv, InitLockInv, InitOrderInv, InitKeepInv, InitFlushInv
   DEF Known, UndoKept, ForceInv, Init, WhereInv, Wanted, NoScan

(* ... and every step keeps it.                                             *)
LEMMA KnownStep == Known /\ [Next]_vars => Known'
BY TypeInvStep, RestInvStep, LockInvStep, OrderInvStep, KeepInvStep, ForceInvStep, WhereInvStep DEF Known

(* A slot that a thread writes.                                             *)
LEMMA MovesIs ==
  ASSUME TypeInv, NEW s \in Session, NEW op, NEW t, NEW r, NEW before, NEW after,
         Moves(s, op, t, r, before, after)
  PROVE  /\ t \in Table /\ r \in Rid /\ op \in ChangeOp /\ before \in Held /\ after \in Held
         /\ \A u \in Table, q \in Rid : mem'[u][q] = IF u = t /\ q = r THEN after ELSE mem[u][q]
         /\ Change(op, t, r, before, after) \in ChangeType
         /\ Data(txn[s], op, t, r, r, before, after) \in DataType /\ txn[s] \in 1 .. MaxBegin
         /\ Longer(log', log, Data(txn[s], op, t, r, r, before, after))
         /\ mem[t][r] = before /\ txn' = txn /\ txn'[s] # 0 /\ pc'[s] # "undone" /\ committed' = committed
BY WriteTypes DEF Moves, Writes, Logs, Longer, Data, DataType, Held

(* The list of changes without the last.                                    *)
LEMMA UndoneIs ==
  ASSUME TypeInv, NEW s \in Session, undo[s] # <<>>, Undone(s)
  PROVE  Shorter(undo'[s], undo[s])
<1> DEFINE q == undo[s]
           p == undo'[s]
           C == ChangeType
<1>1. q \in Seq(C) /\ q # <<>>
  BY SessionIs
<1>2. undo' \in [Session -> Seq(C)] /\ Len(p) = Len(q) - 1 /\ \A i \in DOMAIN p : p[i] = q[i]
  BY UndoneTypes
<1>3. p \in Seq(C)
  BY <1>2
<1> HIDE DEF q, p, C
<1>4. Len(q) \in Nat /\ DOMAIN q = 1 .. Len(q) /\ Len(q) # 0
  BY <1>1
<1>5. DOMAIN p = 1 .. Len(p)
  BY <1>3
<1>6. DOMAIN p = DOMAIN q \ {Len(q)}
  BY <1>2, <1>4, <1>5
<1>7. Shorter(p, q)
  BY <1>2, <1>6 DEF Shorter
<1> QED
  BY <1>7 DEF q, p

(* Every step keeps the undo lists in step with the tables.                 *)
LEMMA UndoInvStep == Known /\ UndoInv /\ [Next]_vars => UndoInv'
<1> SUFFICES ASSUME Known, UndoInv, [Next]_vars PROVE UndoInv'
  OBVIOUS
<1>0. TypeInv /\ RestInv /\ LockInv /\ KeepInv /\ WhereInv /\ TypeInv'
  BY TypeInvStep DEF Known
<1>1. workload' = workload
  BY <1>0, WorkloadStays
<1>2. UndoKept' /\ UndoKept
  BY <1>1 DEF UndoInv, UndoKept, SlotsKept
<1>3. ASSUME \A s \in Session : undo'[s] = <<>> PROVE UndoInv'
  BY <1>2, <1>3 DEF UndoInv, Explains
<1>4. ASSUME UNCHANGED <<mem, undo, txn, pc>> PROVE UndoInv'
  BY <1>1, <1>2, <1>4 DEF UndoInv
<1>5. ASSUME NEW s \in Session, Step(s) PROVE UndoInv'
  <2> SUFFICES ASSUME NEW u \in Session
               PROVE  /\ txn'[u] = 0 \/ pc'[u] = "undone" => undo'[u] = <<>>
                      /\ workload.fails => Explains(undo'[u], mem')
    BY <1>1, <1>2 DEF UndoInv
  <2>0. /\ txn[u] = 0 \/ pc[u] = "undone" => undo[u] = <<>>
        /\ workload.fails => Explains(undo[u], mem)
        /\ WritesLocked(u)
    BY <1>0 DEF UndoInv, KeepInv
  <2>1. undo \in [Session -> Seq(ChangeType)] /\ txn \in [Session -> 0 .. MaxBegin] /\ pc \in [Session -> Places]
    BY <1>0 DEF TypeInv, TxnTypes, StmtTypes
  <2>2. u # s => Same(u)
    BY <1>0, <1>5, OthersStay
  <2>3. CASE Begin(s)
    <3>1. UNCHANGED <<mem, undo, pc>> /\ pc[s] = "idle" /\ txn[s] = 0
      BY <2>3 DEF Begin, At
    <3> QED
      BY <2>0, <2>2, <3>1 DEF Same
  <2>4. CASE Ending(s)
    <3>1. UNCHANGED mem /\ undo'[s] = <<>>
      BY <2>1, <2>4 DEF Ending, Commit, Abort, EndTxn
    <3> QED
      BY <2>0, <2>2, <3>1 DEF Same, Explains
  <2>5. CASE Passes(s)
    BY <2>0, <2>2, <2>5 DEF Passes, Same
  <2>6. ASSUME NEW op, NEW t, NEW r, NEW before, NEW after, Moves(s, op, t, r, before, after), u # s
        PROVE  /\ txn'[u] = 0 \/ pc'[u] = "undone" => undo'[u] = <<>>
               /\ workload.fails => Explains(undo'[u], mem')
    <3>1. <<t, r>> \notin locked[u]["X"]
      BY <2>6 DEF Moves
    <3>2. \A v \in Table, q \in Rid : mem'[v][q] = IF v = t /\ q = r THEN after ELSE mem[v][q]
      BY <1>0, <2>6, MovesIs
    <3>3. \A i \in DOMAIN undo[u] : undo[u][i].table \in Table /\ undo[u][i].rid \in Rid
      <4> DEFINE q == undo[u]
                 C == ChangeType
      <4>1. q \in Seq(C)
        BY <2>1
      <4>2. \A c \in C : c.table \in Table /\ c.rid \in Rid
        BY DEF ChangeType
      <4> HIDE DEF q, C
      <4>3. \A i \in DOMAIN q : q[i] \in C
        BY <4>1
      <4> QED
        BY <4>2, <4>3 DEF q
    <3>4. \A i \in DOMAIN undo[u] : mem'[undo[u][i].table][undo[u][i].rid] = mem[undo[u][i].table][undo[u][i].rid]
      BY <2>0, <3>1, <3>2, <3>3 DEF WritesLocked
    <3>5. Explains(undo[u], mem) => Explains(undo[u], mem')
      BY <3>4, Zenon DEF Explains
    <3> QED
      BY <2>0, <2>2, <2>6, <3>5 DEF Same
  <2>7. ASSUME NEW op, NEW t, NEW r, NEW before, NEW after, Does(s, op, t, r, before, after), u = s
        PROVE  /\ txn'[u] = 0 \/ pc'[u] = "undone" => undo'[u] = <<>>
               /\ workload.fails => Explains(undo'[u], mem')
    <3> DEFINE c == Change(op, t, r, before, after)
    <3>0. Moves(s, op, t, r, before, after)
      BY <2>7 DEF Does
    <3>1. txn'[s] # 0 /\ pc'[s] # "undone"
      BY <1>0, <3>0, MovesIs
    <3>2. ASSUME workload.fails PROVE Explains(undo'[s], mem')
      <4>1. op = "UPDATE"
        BY <1>2, <2>7, <3>2 DEF Does, UndoKept, SlotsKept
      <4>2. c \in ChangeType /\ c.op = op /\ c.table = t /\ c.rid = r /\ c.before = before /\ c.after = after
        BY <1>0, <3>0, MovesIs DEF Change
      <4>3. mem[t][r] = before /\ t \in Table /\ r \in Rid
        BY <1>0, <3>0, MovesIs
      <4>4. \A v \in Table, q \in Rid : mem'[v][q] = IF v = t /\ q = r THEN after ELSE mem[v][q]
        BY <1>0, <3>0, MovesIs
      <4>5. Longer(undo'[s], undo[s], c) /\ undo[s] \in Seq(ChangeType)
        BY <2>1, <2>7 DEF Does, Longer
      <4> HIDE DEF c
      <4>6. mem'[c.table][c.rid] = c.after /\ mem[c.table][c.rid] = c.before /\ c.op = "UPDATE"
        BY <4>1, <4>2, <4>3, <4>4
      <4>7. \A d \in ChangeType : ~ SameSlot(d, c) => mem'[d.table][d.rid] = mem[d.table][d.rid]
        BY <4>2, <4>4 DEF SameSlot, ChangeType
      <4>8. Explains(undo[s], mem)
        BY <2>0, <2>7, <3>2
      <4> QED
        BY <4>2, <4>5, <4>6, <4>7, <4>8, ExplainsMore
    <3> QED
      BY <2>7, <3>1, <3>2
  <2>8. ASSUME NEW op, NEW t, NEW r, NEW before, NEW after, Undoes(s, op, t, r, before, after), u = s
        PROVE  /\ txn'[u] = 0 \/ pc'[u] = "undone" => undo'[u] = <<>>
               /\ workload.fails => Explains(undo'[u], mem')
    <3> DEFINE N == Len(undo[s])
               c == undo[s][N]
    <3>0. Moves(s, op, t, r, before, after) /\ undo[s] # <<>> /\ Undone(s)
      BY <2>8 DEF Undoes
    <3>1. txn'[s] # 0 /\ pc'[s] # "undone"
      BY <1>0, <3>0, MovesIs
    <3>2. c.table = t /\ c.rid = r /\ c.before = after /\ c.after = before
      BY <2>8 DEF Undoes
    <3>3. \A v \in Table, q \in Rid : mem'[v][q] = IF v = t /\ q = r THEN after ELSE mem[v][q]
      BY <1>0, <3>0, MovesIs
    <3>4. Shorter(undo'[s], undo[s])
      BY <1>0, <3>0, UndoneIs
    <3>5. undo[s] \in Seq(ChangeType) /\ t \in Table /\ r \in Rid
      BY <1>0, <2>1, <3>0, MovesIs
    <3>6. ASSUME workload.fails PROVE Explains(undo'[s], mem')
      <4>1. mem'[c.table][c.rid] = c.before
        BY <3>2, <3>3, <3>5
      <4>2. \A d \in ChangeType : ~ SameSlot(d, c) => mem'[d.table][d.rid] = mem[d.table][d.rid]
        BY <3>2, <3>3 DEF SameSlot, ChangeType
      <4>3. Explains(undo[s], mem)
        BY <2>0, <2>8, <3>6
      <4> QED
        BY <3>0, <3>4, <3>5, <4>1, <4>2, <4>3, ExplainsLess
    <3> QED
      BY <2>8, <3>1, <3>6
  <2> QED
    BY <1>0, <1>5, <2>3, <2>4, <2>5, <2>6, <2>7, <2>8, StepKinds DEF Does, Undoes
<1>6. ASSUME NEW t \in Table, NEW r \in Rid, WriteBack(t, r) PROVE UndoInv'
  BY <1>4, <1>6 DEF WriteBack, txnVars, stmtVars
<1>7. CASE Crash
  BY <1>3, <1>7 DEF Crash
<1>8. CASE Recover
  <2>1. process # "serving" /\ UNCHANGED <<txnVars, stmtVars>>
    BY <1>8 DEF Recover, RecoverInsert, RecoverDelete, RecoverUpdate, RecoverFlush, MarkLoser, Serve, Recovering
  <2> QED
    BY <1>0, <1>3, <2>1 DEF RestInv, Resting, txnVars
<1>9. CASE UNCHANGED vars
  BY <1>4, <1>9 DEF vars, storeVars, txnVars, stmtVars
<1> QED
  BY <1>5, <1>6, <1>7, <1>8, <1>9 DEF Next

(* At first the undo lists are empty.                                       *)
LEMMA InitUndoInv == Init /\ UndoKept => UndoInv
BY DEF Init, UndoInv, Explains

(* Steps that change neither the tables in memory nor the log; pages may    *)
(* reach the disk.                                                          *)
Quietly ==
  /\ UNCHANGED <<mem, log, nextId, txn, undo, committed, recVars>>
  /\ \A u \in Session : locked[u]["X"] \subseteq locked'[u]["X"]
  /\ \A t \in Table, r \in Rid : disk'[t][r] \in {disk[t][r], mem[t][r]}

(* The steps of the system, by what they do to the tables and the log.      *)
LEMMA NextKinds ==
  ASSUME Known, UndoInv, [Next]_vars
  PROVE  \/ Quietly
         \/ \E s \in Session : Step(s) /\ Begin(s)
         \/ \E s \in Session : Step(s) /\ Ending(s)
         \/ \E s \in Session : Step(s) /\ \E op, t, r, before, after : Does(s, op, t, r, before, after)
         \/ \E s \in Session : Step(s) /\ \E op, t, r, before, after : Undoes(s, op, t, r, before, after)
         \/ Crash \/ RecoverRecord \/ RecoverFlush \/ MarkLoser \/ Serve
<1>0. TypeInv /\ LockInv /\ KeepInv /\ WhereInv
  BY DEF Known
<1>1. ASSUME NEW s \in Session, Step(s), Passes(s) PROVE Quietly
  <2>1. UNCHANGED <<mem, log, nextId, txn, undo, committed, recVars>>
    BY <1>0, <1>1, OthersStay DEF Passes
  <2>2. \A t \in Table, r \in Rid : disk'[t][r] \in {disk[t][r], mem[t][r]}
    BY <1>1 DEF Passes, Flushed
  <2> QED
    BY <1>1, <2>1, <2>2 DEF Passes, Quietly
<1>2. ASSUME NEW t \in Table, NEW r \in Rid, WriteBack(t, r) PROVE Quietly
  <2>1. \A u \in Table, q \in Rid : disk'[u][q] = IF u = t /\ q = r THEN mem[u][q] ELSE disk[u][q]
    BY <1>0, <1>2, WriteBackTypes
  <2>2. UNCHANGED <<mem, log, nextId, txn, undo, committed, recVars, locked>>
    BY <1>2 DEF WriteBack, txnVars, ghostVars
  <2> QED
    BY <2>1, <2>2 DEF Quietly
<1>3. CASE UNCHANGED vars
  BY <1>3 DEF vars, storeVars, txnVars, ghostVars, Quietly
<1>4. ASSUME NEW s \in Session, Step(s)
      PROVE  \/ Begin(s) \/ Ending(s) \/ Quietly
             \/ \E op, t, r, before, after : Does(s, op, t, r, before, after)
             \/ \E op, t, r, before, after : Undoes(s, op, t, r, before, after)
  BY <1>0, <1>1, <1>4, StepKinds
<1> QED
  BY <1>2, <1>3, <1>4 DEF Next, Recover, RecoverRecord

-----------------------------------------------------------------------------
(* The log names the transactions: those that run are its losers, and ids   *)
(* are used once, as long as one process serves.                            *)
IdInv ==
  /\ process = "serving" => Losers = {txn[s] : s \in Session} \ {0}
  /\ \A s, u \in Session : s # u /\ txn[s] = txn[u] => txn[s] = 0
  /\ crashes > 0 => \A s \in Session : txn[s] = 0
  /\ crashes = 0 => (\A i \in DOMAIN log : log[i].id < nextId) /\ \A s \in Session : txn[s] < nextId
  /\ process # "serving" => losers = Losers /\ crashes > 0
  /\ \A i \in DOMAIN log : log[i].kind = "DATA" => log[i].new = log[i].rid

(* The records of a longer log.                                             *)
LEMMA LongerIs ==
  ASSUME TypeInv, NEW rec \in LogType, Longer(log', log, rec)
  PROVE  \A i \in DOMAIN log' : log'[i] = rec \/ (i \in DOMAIN log /\ log'[i] = log[i])
BY AppendIs DEF Longer, TypeInv, StoreTypes

(* At first there is no transaction.                                        *)
LEMMA InitIdInv == Init => IdInv
<1> SUFFICES ASSUME Init PROVE IdInv
  OBVIOUS
<1>1. log = <<>> /\ txn = [s \in Session |-> 0] /\ nextId = 1 /\ crashes = 0 /\ process = "serving"
  BY DEF Init
<1>2. Losers = {}
  BY <1>1 DEF Losers, Logged
<1> QED
  BY <1>1, <1>2 DEF IdInv

(* A transaction begins in the process that serves, before any crash.       *)
LEMMA BeginIs ==
  ASSUME Known, UndoInv, NEW s \in Session, Begin(s)
  PROVE  /\ crashes = 0 /\ process = "serving" /\ txn[s] = 0 /\ nextId \in 1 .. MaxBegin
         /\ Begun(nextId) \in LogType /\ Longer(log', log, Begun(nextId))
         /\ txn' = [txn EXCEPT ![s] = nextId] /\ nextId' = nextId + 1
         /\ UNCHANGED <<mem, disk, undo, locked, recVars, committed, workload>>
<1>1. nextId <= workload.begins /\ crashes < workload.serves
  BY DEF Begin
<1>2. nextId \in 1 .. MaxBegin
  BY <1>1, WorkloadIs, BoundAssumption DEF Known, TypeInv, TxnTypes, GhostTypes
<1>3. crashes = 0
  <2>1. crashes \in Nat /\ workload.dies \in Nat /\ workload.serves \in Nat /\ crashes <= workload.dies
    BY WorkloadsAssumption DEF Known, TypeInv, RecTypes, GhostTypes, Workload
  <2>2. workload.dies > 0 => workload.serves <= 1
    BY DEF UndoInv, UndoKept
  <2> QED
    BY <1>1, <2>1, <2>2
<1> QED
  BY <1>2, <1>3, RecordTypes DEF Begin, At, Longer, ghostVars

(* A transaction ends.                                                      *)
LEMMA EndIs ==
  ASSUME Known, UndoInv, NEW s \in Session, Ending(s)
  PROVE  /\ process = "serving" /\ txn[s] \in 1 .. MaxBegin
         /\ \E rec \in LogType : Longer(log', log, rec) /\ rec.kind \in {"COMMIT", "ABORT"} /\ rec.id = txn[s]
         /\ txn' = [txn EXCEPT ![s] = 0] /\ undo' = [undo EXCEPT ![s] = <<>>]
         /\ locked' = [locked EXCEPT ![s] = NoLocks]
         /\ UNCHANGED <<mem, disk, nextId, recVars, workload>>
         /\ committed' = Changed(committed, undo[s]) \/ (committed' = committed /\ undo[s] = <<>>)
<1>1. At(s, "flushed") \/ At(s, "undone")
  BY DEF Ending, Commit, Abort
<1>2. process = "serving" /\ txn[s] \in 1 .. MaxBegin
  BY <1>1, SessionIs DEF At, Known
<1>3. \E rec \in LogType : Longer(log', log, rec) /\ rec.kind \in {"COMMIT", "ABORT"} /\ rec.id = txn[s]
  <2> DEFINE id == txn[s]
  <2>1. Committed(id) \in LogType /\ Aborted(id) \in LogType
    BY <1>2, RecordTypes
  <2>2. Committed(id).kind = "COMMIT" /\ Committed(id).id = id /\ Aborted(id).kind = "ABORT" /\ Aborted(id).id = id
    BY DEF Committed, Aborted
  <2>3. log' = Append(log, Committed(id)) \/ log' = Append(log, Aborted(id))
    BY DEF Ending, Commit, Abort
  <2> HIDE DEF id
  <2>4. Longer(log', log, Committed(id)) \/ Longer(log', log, Aborted(id))
    BY <2>3 DEF Longer
  <2> QED
    BY <2>1, <2>2, <2>4 DEF id
<1>4. Abort(s) => undo[s] = <<>>
  BY DEF Abort, At, UndoInv
<1> QED
  BY <1>2, <1>3, <1>4 DEF Ending, Commit, Abort, EndTxn, ghostVars

(* Every step keeps the log and the transactions together.                  *)
LEMMA IdInvStep == Known /\ UndoInv /\ IdInv /\ [Next]_vars => IdInv'
<1> SUFFICES ASSUME Known, UndoInv, IdInv, [Next]_vars PROVE IdInv'
  OBVIOUS
<1>0. /\ TypeInv /\ log \in Seq(LogType) /\ txn \in [Session -> 0 .. MaxBegin]
      /\ nextId \in Nat /\ crashes \in Nat /\ MaxBegin \in Nat
  BY BoundAssumption DEF Known, TypeInv, StoreTypes, TxnTypes, RecTypes
<1>1. ASSUME UNCHANGED <<log, nextId, txn, process, crashes, losers>> PROVE IdInv'
  <2>1. Losers' = Losers
    BY <1>1 DEF Losers, Logged
  <2> QED
    BY <1>1, <2>1 DEF IdInv
<1>2. CASE Quietly
  BY <1>1, <1>2 DEF Quietly, recVars
<1>3. ASSUME NEW s \in Session, Begin(s) PROVE IdInv'
  <2>1. /\ crashes = 0 /\ process = "serving" /\ txn[s] = 0 /\ nextId \in 1 .. MaxBegin
        /\ Begun(nextId) \in LogType /\ Longer(log', log, Begun(nextId))
        /\ txn' = [txn EXCEPT ![s] = nextId] /\ nextId' = nextId + 1 /\ UNCHANGED recVars
    BY <1>3, BeginIs
  <2>2. Begun(nextId).kind = "BEGIN" /\ Begun(nextId).id = nextId
    BY DEF Begun
  <2>3. \A i \in DOMAIN log : log[i].id < nextId /\ log[i].id \in 1 .. MaxBegin
    BY <1>0, <2>1, RecordTypes DEF IdInv
  <2>4. Losers' = Losers \cup {nextId}
    <3>1. \A i \in DOMAIN log : log[i].id # Begun(nextId).id
      BY <1>0, <2>2, <2>3
    <3> QED
      BY <1>0, <2>1, <2>2, <3>1, LosersGrow
  <2>5. {txn'[u] : u \in Session} \ {0} = ({txn[u] : u \in Session} \ {0}) \cup {nextId}
    BY <1>0, <2>1
  <2>6. \A i \in DOMAIN log' : log'[i] = Begun(nextId) \/ (i \in DOMAIN log /\ log'[i] = log[i])
    BY <1>0, <2>1, LongerIs
  <2>7. \A i \in DOMAIN log' : log'[i].id < nextId' /\ (log'[i].kind = "DATA" => log'[i].new = log'[i].rid)
    BY <1>0, <2>1, <2>2, <2>3, <2>6 DEF IdInv
  <2>8. \A u \in Session : txn[u] < nextId
    BY <2>1 DEF IdInv
  <2>9. process' = process /\ crashes' = crashes
    BY <2>1 DEF recVars
  <2> QED
    BY <1>0, <2>1, <2>4, <2>5, <2>7, <2>8, <2>9 DEF IdInv
<1>4. ASSUME NEW s \in Session, Ending(s) PROVE IdInv'
  <2> DEFINE id == txn[s]
  <2>1. /\ process = "serving" /\ id \in 1 .. MaxBegin
        /\ txn' = [txn EXCEPT ![s] = 0] /\ UNCHANGED <<nextId, recVars>>
    BY <1>4, EndIs
  <2>2. PICK rec \in LogType : Longer(log', log, rec) /\ rec.kind \in {"COMMIT", "ABORT"} /\ rec.id = id
    BY <1>4, EndIs
  <2> HIDE DEF id
  <2>3. Losers' = Losers \ {id}
    BY <1>0, <2>2, LosersGrow
  <2>4. {txn'[u] : u \in Session} \ {0} = ({txn[u] : u \in Session} \ {0}) \ {id}
    <3>1. \A u \in Session \ {s} : txn'[u] = txn[u] /\ txn[u] # id
      BY <1>0, <2>1 DEF IdInv, id
    <3>2. txn'[s] = 0 /\ txn[s] = id
      BY <1>0, <2>1 DEF id
    <3> QED
      BY <3>1, <3>2
  <2>5. \A i \in DOMAIN log' : log'[i] = rec \/ (i \in DOMAIN log /\ log'[i] = log[i])
    BY <1>0, <2>2, LongerIs
  <2>6. crashes = 0 => id < nextId
    BY DEF IdInv, id
  <2>7. crashes = 0 => \A i \in DOMAIN log' : log'[i].id < nextId
    BY <2>2, <2>5, <2>6 DEF IdInv
  <2>8. \A i \in DOMAIN log' : log'[i].kind = "DATA" => log'[i].new = log'[i].rid
    BY <2>2, <2>5 DEF IdInv
  <2>9. \A u \in Session : txn'[u] \in {txn[u], 0}
    BY <1>0, <2>1
  <2>10. nextId \in Nat \ {0}
    BY DEF Known, TypeInv, TxnTypes
  <2>11. process' = process /\ crashes' = crashes
    BY <2>1 DEF recVars
  <2>12. process' = "serving" => Losers' = {txn'[u] : u \in Session} \ {0}
    BY <2>1, <2>3, <2>4 DEF IdInv
  <2>13. \A u, w \in Session : u # w /\ txn'[u] = txn'[w] => txn'[u] = 0
    BY <2>9 DEF IdInv
  <2> QED
    BY <2>1, <2>7, <2>8, <2>9, <2>10, <2>11, <2>12, <2>13 DEF IdInv
<1>5. ASSUME NEW s \in Session, Step(s), NEW op, NEW t, NEW r, NEW before, NEW after, Moves(s, op, t, r, before, after)
      PROVE  IdInv'
  <2> DEFINE rec == Data(txn[s], op, t, r, r, before, after)
  <2>1. rec \in DataType /\ txn[s] \in 1 .. MaxBegin /\ Longer(log', log, rec)
    BY <1>0, <1>5, MovesIs
  <2>2. rec.kind = "DATA" /\ rec.id = txn[s] /\ rec.new = rec.rid
    BY DEF Data
  <2>3. UNCHANGED <<nextId, txn>>
    BY <1>5 DEF Moves
  <2>4. UNCHANGED <<process, crashes, losers>>
    BY <1>0, <1>5, OthersStay DEF recVars
  <2> HIDE DEF rec
  <2>5. rec \in LogType
    BY <2>1 DEF LogType
  <2>6. Losers' = Losers
    BY <1>0, <2>1, <2>2, <2>5, LosersGrow
  <2>7. \A i \in DOMAIN log' : log'[i] = rec \/ (i \in DOMAIN log /\ log'[i] = log[i])
    BY <1>0, <2>1, <2>5, LongerIs
  <2> QED
    BY <2>2, <2>3, <2>4, <2>6, <2>7 DEF IdInv
<1>6. CASE Crash
  <2>1. /\ txn' = [s \in Session |-> 0] /\ process' = "recovering" /\ losers' = Losers /\ log' = log
        /\ crashes' = crashes + 1
    BY <1>6 DEF Crash
  <2>2. Losers' = Losers
    BY <2>1 DEF Losers, Logged
  <2> QED
    BY <1>0, <2>1, <2>2 DEF IdInv
<1>7. CASE RecoverRecord
  BY <1>0, <1>1, <1>7, RecoverDoes DEF txnVars
<1>8. CASE RecoverFlush
  <2>1. UNCHANGED <<log, nextId, txn, crashes, losers>> /\ process # "serving" /\ process' # "serving"
    BY <1>8 DEF RecoverFlush, txnVars
  <2>2. Losers' = Losers
    BY <2>1 DEF Losers, Logged
  <2> QED
    BY <2>1, <2>2 DEF IdInv
<1>9. CASE MarkLoser
  <2>1. PICK id \in losers : log' = Append(log, Aborted(id)) /\ losers' = losers \ {id}
    BY <1>9 DEF MarkLoser
  <2>2. UNCHANGED <<nextId, txn, process, crashes>> /\ process = "marking"
    BY <1>9 DEF MarkLoser, txnVars
  <2>3. id \in 1 .. MaxBegin
    BY DEF Known, TypeInv, RecTypes
  <2>4. Aborted(id) \in LogType /\ Aborted(id).kind = "ABORT" /\ Aborted(id).id = id
    BY <2>3, RecordTypes DEF Aborted
  <2>5. Longer(log', log, Aborted(id))
    BY <2>1 DEF Longer
  <2>6. Losers' = Losers \ {id}
    BY <1>0, <2>4, <2>5, LosersGrow
  <2>7. \A i \in DOMAIN log' : log'[i] = Aborted(id) \/ (i \in DOMAIN log /\ log'[i] = log[i])
    BY <1>0, <2>4, <2>5, LongerIs
  <2>8. \A i \in DOMAIN log' : log'[i].kind = "DATA" => log'[i].new = log'[i].rid
    BY <2>4, <2>7 DEF IdInv
  <2> QED
    BY <1>0, <2>1, <2>2, <2>6, <2>8 DEF IdInv
<1>10. CASE Serve
  <2>1. UNCHANGED <<log, nextId, txn, crashes>> /\ process = "marking" /\ losers = {}
    BY <1>10 DEF Serve, storeVars, txnVars
  <2>2. Losers' = Losers /\ Losers = {}
    BY <2>1 DEF Losers, Logged, IdInv
  <2>3. \A s \in Session : txn'[s] = 0
    BY <2>1 DEF Known, RestInv, Resting
  <2>4. process' = "serving"
    BY <1>10 DEF Serve
  <2>5. {txn'[s] : s \in Session} \ {0} = {}
    BY <2>3
  <2> QED
    BY <2>1, <2>2, <2>3, <2>4, <2>5 DEF IdInv
<1> QED
  BY <1>2, <1>3, <1>4, <1>5, <1>6, <1>7, <1>8, <1>9, <1>10, NextKinds DEF Does, Undoes

-----------------------------------------------------------------------------
(* What a transaction has logged a change of, it has locked, so that no     *)
(* slot has records of two losers.                                          *)
OwnInv ==
  \A s \in Session, t \in Table, r \in Rid :
    txn[s] # 0 /\ Records(log, {txn[s]}, t, r) # {} => <<t, r>> \in locked[s]["X"]

(* No two losers have logged changes of one slot.                           *)
SoleInv ==
  \A a, b \in Losers : \A t \in Table, r \in Rid :
    Records(log, {a}, t, r) # {} /\ Records(log, {b}, t, r) # {} => a = b

(* What a transaction logs is about a slot that it locks.                   *)
LEMMA OwnInvStep == Known /\ UndoInv /\ IdInv /\ OwnInv /\ [Next]_vars => OwnInv'
<1> SUFFICES ASSUME Known, UndoInv, IdInv, OwnInv, [Next]_vars,
                    NEW u \in Session, NEW t \in Table, NEW r \in Rid,
                    txn'[u] # 0, Records(log', {txn'[u]}, t, r) # {}
             PROVE  <<t, r>> \in locked'[u]["X"]
  BY DEF OwnInv
<1>0. TypeInv /\ log \in Seq(LogType) /\ txn \in [Session -> 0 .. MaxBegin]
  BY DEF Known, TypeInv, StoreTypes, TxnTypes
<1>1. txn[u] # 0 /\ Records(log, {txn[u]}, t, r) # {} => <<t, r>> \in locked[u]["X"]
  BY DEF OwnInv
<1>2. CASE Quietly
  BY <1>1, <1>2 DEF Quietly
<1>3. ASSUME NEW s \in Session, Step(s), Begin(s) PROVE <<t, r>> \in locked'[u]["X"]
  <2> DEFINE id == txn'[u]
             rec == Begun(nextId)
  <2>1. /\ rec \in LogType /\ Longer(log', log, rec) /\ crashes = 0 /\ nextId \in 1 .. MaxBegin
        /\ txn' = [txn EXCEPT ![s] = nextId] /\ UNCHANGED locked
    BY <1>3, BeginIs
  <2>2. rec.kind = "BEGIN"
    BY DEF Begun
  <2>3. Records(log, {id}, t, r) # {}
    <3>1. ~ About(rec, {id}, t, r)
      BY <2>2 DEF About
    <3> HIDE DEF rec, id
    <3>2. Records(log', {id}, t, r) = Records(log, {id}, t, r)
      BY <1>0, <2>1, <3>1, RecordsGrow
    <3> QED
      BY <3>2 DEF id
  <2>4. CASE u = s
    <3>1. id = nextId
      BY <1>0, <2>1, <2>4
    <3>2. \A i \in DOMAIN log : log[i].id # nextId
      <4>1. \A i \in DOMAIN log : log[i].id < nextId /\ log[i].id \in 1 .. MaxBegin
        BY <1>0, <2>1, RecordTypes DEF IdInv
      <4> QED
        BY <2>1, <4>1
    <3> QED
      BY <2>3, <3>1, <3>2 DEF Records, About
  <2>5. CASE u # s
    BY <1>0, <1>1, <2>1, <2>3, <2>5
  <2> QED
    BY <2>4, <2>5
<1>4. ASSUME NEW s \in Session, Step(s), Ending(s) PROVE <<t, r>> \in locked'[u]["X"]
  <2> DEFINE id == txn[u]
  <2>1. txn' = [txn EXCEPT ![s] = 0] /\ locked' = [locked EXCEPT ![s] = NoLocks]
    BY <1>4, EndIs
  <2>2. u # s /\ txn'[u] = id
    BY <1>0, <2>1
  <2>3. locked'[u] = locked[u]
    BY <2>1, <2>2 DEF Known, TypeInv, TxnTypes
  <2>4. PICK rec \in LogType : Longer(log', log, rec) /\ rec.kind \in {"COMMIT", "ABORT"}
    BY <1>4, EndIs
  <2>5. ~ About(rec, {id}, t, r)
    BY <2>4 DEF About
  <2> HIDE DEF id
  <2>6. Records(log', {id}, t, r) = Records(log, {id}, t, r)
    BY <1>0, <2>4, <2>5, RecordsGrow
  <2> QED
    BY <1>1, <2>2, <2>3, <2>6 DEF id
<1>5. ASSUME NEW s \in Session, Step(s), NEW op, NEW tt, NEW rr, NEW before, NEW after,
             Moves(s, op, tt, rr, before, after)
      PROVE  <<t, r>> \in locked'[u]["X"]
  <2> DEFINE rec == Data(txn[s], op, tt, rr, rr, before, after)
             id == txn[u]
  <2>1. rec \in DataType /\ Longer(log', log, rec) /\ txn' = txn /\ txn[s] \in 1 .. MaxBegin
    BY <1>0, <1>5, MovesIs
  <2>2. rec.kind = "DATA" /\ rec.id = txn[s] /\ rec.table = tt /\ rec.rid = rr
    BY DEF Data
  <2>3. About(rec, {id}, t, r) => u = s /\ t = tt /\ r = rr
    BY <2>1, <2>2 DEF About, IdInv
  <2>4. /\ <<tt, rr>> \in locked'[s]["X"] /\ locked[u]["X"] \subseteq locked'[u]["X"]
    BY <1>5 DEF Moves
  <2> HIDE DEF rec, id
  <2>5. rec \in LogType
    BY <2>1 DEF LogType
  <2>6. ~ About(rec, {id}, t, r) => Records(log', {id}, t, r) = Records(log, {id}, t, r)
    BY <1>0, <2>1, <2>5, RecordsGrow
  <2>7. id = txn[u] /\ txn'[u] = id
    BY <2>1 DEF id
  <2> QED
    BY <1>1, <2>3, <2>4, <2>6, <2>7
<1>6. CASE Crash \/ RecoverRecord \/ RecoverFlush \/ MarkLoser \/ Serve
  <2>1. CASE Crash
    BY <2>1 DEF Crash
  <2>2. CASE RecoverRecord \/ RecoverFlush \/ MarkLoser \/ Serve
    <3>1. process # "serving" /\ txn' = txn
      BY <1>0, <2>2, RecoverDoes DEF RecoverFlush, MarkLoser, Serve, txnVars
    <3> QED
      BY <3>1 DEF Known, RestInv, Resting
  <2> QED
    BY <1>6, <2>1, <2>2
<1> QED
  BY <1>2, <1>3, <1>4, <1>5, <1>6, NextKinds DEF Does, Undoes

(* While the process serves, the locks keep the losers apart.               *)
LEMMA ServingSole == process = "serving" /\ TypeInv /\ LockInv /\ IdInv /\ OwnInv => SoleInv
<1> SUFFICES ASSUME process = "serving", TypeInv, LockInv, IdInv, OwnInv,
                    NEW a \in Losers, NEW b \in Losers, NEW t \in Table, NEW r \in Rid,
                    Records(log, {a}, t, r) # {}, Records(log, {b}, t, r) # {}
             PROVE  a = b
  BY DEF SoleInv
<1>1. PICK s \in Session : a = txn[s] /\ txn[s] # 0
  BY DEF IdInv
<1>2. PICK u \in Session : b = txn[u] /\ txn[u] # 0
  BY DEF IdInv
<1>3. <<t, r>> \in locked[s]["X"] /\ <<t, r>> \in locked[u]["X"]
  BY <1>1, <1>2 DEF OwnInv
<1>4. s = u
  BY <1>3 DEF LockInv, Exclusive
<1> QED
  BY <1>1, <1>2, <1>4

(* Recovery ends losers, one by one, and starts none.                       *)
LEMMA SoleInvStep == Known /\ UndoInv /\ IdInv /\ OwnInv /\ SoleInv /\ [Next]_vars => SoleInv'
<1> SUFFICES ASSUME Known, UndoInv, IdInv, OwnInv, SoleInv, [Next]_vars PROVE SoleInv'
  OBVIOUS
<1>0. TypeInv /\ log \in Seq(LogType) /\ Known' /\ IdInv' /\ OwnInv'
  BY KnownStep, IdInvStep, OwnInvStep DEF Known, TypeInv, StoreTypes
<1>1. ASSUME UNCHANGED log PROVE SoleInv'
  <2>1. Losers' = Losers
    BY <1>1 DEF Losers, Logged
  <2> QED
    BY <1>1, <2>1 DEF SoleInv
<1>2. ASSUME NEW s \in Session, Step(s) PROVE SoleInv'
  <2>1. process' = "serving"
    BY <1>0, <1>2, OthersStay DEF recVars
  <2>2. (process = "serving" /\ TypeInv /\ LockInv /\ IdInv /\ OwnInv => SoleInv)'
    BY ServingSole, PTL
  <2> QED
    BY <1>0, <2>1, <2>2 DEF Known
<1>3. CASE MarkLoser
  <2>1. PICK id \in losers : log' = Append(log, Aborted(id))
    BY <1>3 DEF MarkLoser
  <2>2. id \in 1 .. MaxBegin
    BY DEF Known, TypeInv, RecTypes
  <2>3. Aborted(id) \in LogType /\ Aborted(id).kind = "ABORT" /\ Aborted(id).id = id
    BY <2>2, RecordTypes DEF Aborted
  <2>4. Longer(log', log, Aborted(id))
    BY <2>1 DEF Longer
  <2>5. Losers' = Losers \ {id}
    BY <1>0, <2>3, <2>4, LosersGrow
  <2>6. ASSUME NEW a, NEW t \in Table, NEW r \in Rid PROVE Records(log', {a}, t, r) = Records(log, {a}, t, r)
    <3>1. ~ About(Aborted(id), {a}, t, r)
      BY <2>3 DEF About
    <3> QED
      BY <1>0, <2>3, <2>4, <3>1, RecordsGrow
  <2>7. ASSUME NEW a \in Losers', NEW b \in Losers', NEW t \in Table, NEW r \in Rid,
               Records(log', {a}, t, r) # {}, Records(log', {b}, t, r) # {}
        PROVE  a = b
    <3>1. a \in Losers /\ b \in Losers
      BY <2>5
    <3>2. Records(log, {a}, t, r) # {} /\ Records(log, {b}, t, r) # {}
      BY <2>6, <2>7
    <3> QED
      BY <3>1, <3>2 DEF SoleInv
  <2> QED
    BY <2>7 DEF SoleInv
<1>4. CASE Quietly \/ Crash \/ RecoverRecord \/ RecoverFlush \/ Serve
  BY <1>0, <1>1, <1>4, RecoverDoes DEF Quietly, Crash, RecoverFlush, Serve, storeVars
<1> QED
  BY <1>2, <1>3, <1>4, NextKinds

-----------------------------------------------------------------------------
(* What a transaction has changed, by its undo list: at every moment the    *)
(* tables hold what they held for it, and what came and went since.         *)
Came(q, t, v) == Cardinality({i \in DOMAIN q : q[i].table = t /\ q[i].after = v})
Went(q, t, v) == Cardinality({i \in DOMAIN q : q[i].table = t /\ q[i].before = v})

(* The rows stored are those stored without the transaction and what its    *)
(* undo list says.                                                          *)
AccInv ==
  \A s \in Session, t \in Table, v \in Row :
    txn[s] # 0 =>
      Stored(mem[t])[v] = Stored(Origin(mem, log, {txn[s]}, t))[v] + Came(undo[s], t, v) - Went(undo[s], t, v)

(* Tables with the same slots store the same rows.                          *)
LEMMA StoredSame ==
  ASSUME NEW h, NEW g, \A r \in Rid : h[r] = g[r], NEW v \in Row
  PROVE  Stored(h)[v] = Stored(g)[v]
<1>1. {r \in Rid : h[r] = v} = {r \in Rid : g[r] = v}
  OBVIOUS
<1> QED
  BY <1>1 DEF Stored

(* The list p has one change more than q, the change c.                     *)
OneMore(p, q, c) ==
  /\ IsFiniteSet(DOMAIN q)
  /\ \E i \in DOMAIN p : DOMAIN q = DOMAIN p \ {i} /\ p[i] = c /\ \A j \in DOMAIN q : q[j] = p[j]

(* It counts once, if it is one that is counted.                            *)
LEMMA CountsOne ==
  ASSUME NEW q, NEW p, NEW c, OneMore(p, q, c), NEW t, NEW v
  PROVE  /\ Came(p, t, v) = Came(q, t, v) + Is(<<c.table, c.after>>, <<t, v>>)
         /\ Went(p, t, v) = Went(q, t, v) + Is(<<c.table, c.before>>, <<t, v>>)
         /\ Came(p, t, v) \in Nat /\ Came(q, t, v) \in Nat /\ Went(p, t, v) \in Nat /\ Went(q, t, v) \in Nat
<1> DEFINE S == {j \in DOMAIN q : q[j].table = t /\ q[j].after = v}
           T == {j \in DOMAIN p : p[j].table = t /\ p[j].after = v}
           A == {j \in DOMAIN q : q[j].table = t /\ q[j].before = v}
           B == {j \in DOMAIN p : p[j].table = t /\ p[j].before = v}
<1>0. PICK i \in DOMAIN p : DOMAIN q = DOMAIN p \ {i} /\ p[i] = c /\ \A j \in DOMAIN q : q[j] = p[j]
  BY DEF OneMore
<1>1. IsFiniteSet(S) /\ IsFiniteSet(A)
  BY FS_Subset DEF OneMore
<1>2. i \notin S /\ T \ {i} = S /\ i \notin A /\ B \ {i} = A
  BY <1>0
<1>3. /\ i \in T <=> c.table = t /\ c.after = v
      /\ i \in B <=> c.table = t /\ c.before = v
  BY <1>0
<1>4. /\ Came(p, t, v) = Cardinality(T) /\ Came(q, t, v) = Cardinality(S)
      /\ Went(p, t, v) = Cardinality(B) /\ Went(q, t, v) = Cardinality(A)
  BY DEF Came, Went
<1>5. /\ One(i \in T) = Is(<<c.table, c.after>>, <<t, v>>)
      /\ One(i \in B) = Is(<<c.table, c.before>>, <<t, v>>)
  BY <1>3 DEF One, Is
<1> HIDE DEF S, T, A, B
<1>6. Cardinality(S) \in Nat /\ Cardinality(T) = Cardinality(S) + One(i \in T)
  BY <1>1, <1>2, Counted
<1>7. Cardinality(A) \in Nat /\ Cardinality(B) = Cardinality(A) + One(i \in B)
  BY <1>1, <1>2, Counted
<1>8. One(i \in T) \in Nat /\ One(i \in B) \in Nat
  BY DEF One
<1> QED
  BY <1>4, <1>5, <1>6, <1>7, <1>8

(* An undo list that a change is added to, or taken from.                   *)
LEMMA ChangeAdded ==
  ASSUME NEW q \in Seq(ChangeType), NEW c \in ChangeType, NEW p, Longer(p, q, c)
  PROVE  OneMore(p, q, c)
<1> DEFINE C == ChangeType
           N == Len(q) + 1
<1>1. q \in Seq(C) /\ c \in C /\ p = Append(q, c)
  BY DEF Longer
<1> HIDE DEF C
<1>2. /\ DOMAIN q = 1 .. Len(q) /\ Len(q) \in Nat /\ DOMAIN p = 1 .. N /\ p[N] = c
      /\ \A j \in DOMAIN q : q[j] = p[j]
  BY <1>1
<1>3. N \in DOMAIN p /\ DOMAIN q = DOMAIN p \ {N}
  BY <1>2
<1>4. IsFiniteSet(DOMAIN q)
  BY <1>2, FS_Interval
<1> HIDE DEF N
<1> QED
  BY <1>2, <1>3, <1>4 DEF OneMore

(* An undo list that its last change is taken from.                         *)
LEMMA ChangeTaken ==
  ASSUME NEW q \in Seq(ChangeType), q # <<>>, NEW p, Shorter(p, q)
  PROVE  OneMore(q, p, q[Len(q)])
<1> DEFINE C == ChangeType
           N == Len(q)
<1>1. q \in Seq(C)
  OBVIOUS
<1> HIDE DEF C
<1>2. DOMAIN q = 1 .. N /\ N \in Nat \ {0}
  BY <1>1
<1>3. N \in DOMAIN q /\ DOMAIN p = DOMAIN q \ {N} /\ \A j \in DOMAIN p : p[j] = q[j]
  BY <1>2 DEF Shorter
<1>4. IsFiniteSet(DOMAIN q)
  BY <1>2, FS_Interval
<1>5. IsFiniteSet(DOMAIN p)
  BY <1>3, <1>4, FS_Subset
<1> HIDE DEF N
<1> QED
  BY <1>3, <1>5 DEF OneMore, N

(* An empty list counts nothing.                                            *)
LEMMA CountsNone == \A t, v : Came(<<>>, t, v) = 0 /\ Went(<<>>, t, v) = 0
<1>1. \A t, v : {i \in DOMAIN <<>> : <<>>[i].table = t /\ <<>>[i].after = v} = {}
                /\ {i \in DOMAIN <<>> : <<>>[i].table = t /\ <<>>[i].before = v} = {}
  OBVIOUS
<1> QED
  BY <1>1, FS_EmptySet DEF Came, Went

(* How often a row comes and goes is a number.                              *)
LEMMA CountsAre ==
  ASSUME NEW q \in Seq(ChangeType), NEW t, NEW v
  PROVE  Came(q, t, v) \in Nat /\ Went(q, t, v) \in Nat
<1>1. IsFiniteSet(DOMAIN q)
  <2> DEFINE C == ChangeType
  <2>1. q \in Seq(C)
    OBVIOUS
  <2> HIDE DEF C
  <2>2. DOMAIN q = 1 .. Len(q) /\ Len(q) \in Nat
    BY <2>1
  <2> QED
    BY <2>2, FS_Interval
<1>2. /\ IsFiniteSet({i \in DOMAIN q : q[i].table = t /\ q[i].after = v})
      /\ IsFiniteSet({i \in DOMAIN q : q[i].table = t /\ q[i].before = v})
  BY <1>1, FS_Subset
<1> QED
  BY <1>2, FS_CardinalityType DEF Came, Went

(* A write moves a row into the table and one out of it.                    *)
LEMMA MovesStored ==
  ASSUME TypeInv, NEW s \in Session, NEW op, NEW tt, NEW rr, NEW before, NEW after,
         Moves(s, op, tt, rr, before, after), NEW t \in Table, NEW v \in Row
  PROVE  /\ Stored(mem'[t])[v] + Is(<<tt, before>>, <<t, v>>) = Stored(mem[t])[v] + Is(<<tt, after>>, <<t, v>>)
         /\ Stored(mem'[t])[v] \in Nat /\ Stored(mem[t])[v] \in Nat
<1>1. /\ tt \in Table /\ rr \in Rid /\ mem[tt][rr] = before
      /\ \A u \in Table, q \in Rid : mem'[u][q] = IF u = tt /\ q = rr THEN after ELSE mem[u][q]
  BY MovesIs
<1>2. CASE t = tt
  <2> DEFINE g == mem'[t]
             h == mem[t]
  <2>1. ButFor(rr, g, h) /\ h[rr] = before /\ g[rr] = after
    BY <1>1, <1>2 DEF ButFor
  <2> HIDE DEF g, h
  <2>2. /\ Stored(g)[v] + Is(h[rr], v) = Stored(h)[v] + Is(g[rr], v)
        /\ Stored(g)[v] \in Nat /\ Stored(h)[v] \in Nat
    BY <1>1, <2>1, StoredMoves
  <2>3. Is(<<tt, before>>, <<t, v>>) = Is(h[rr], v) /\ Is(<<tt, after>>, <<t, v>>) = Is(g[rr], v)
    BY <1>2, <2>1 DEF Is
  <2> QED
    BY <2>2, <2>3 DEF g, h
<1>3. CASE t # tt
  <2>1. Stored(mem'[t])[v] = Stored(mem[t])[v]
    BY <1>1, <1>3, StoredSame
  <2>2. Is(<<tt, before>>, <<t, v>>) = 0 /\ Is(<<tt, after>>, <<t, v>>) = 0
    BY <1>3 DEF Is
  <2>3. Stored(mem[t])[v] \in Nat
    BY StoredCounts
  <2> QED
    BY <2>1, <2>2, <2>3
<1> QED
  BY <1>2, <1>3

(* A write leaves the tables as they would be without its transaction.      *)
LEMMA MovesOrigin ==
  ASSUME TypeInv, NEW s \in Session, NEW op, NEW tt, NEW rr, NEW before, NEW after,
         Moves(s, op, tt, rr, before, after), NEW ids, NEW t \in Table, NEW r \in Rid
  PROVE  /\ txn[s] \in ids => Origin(mem', log', ids, t)[r] = Origin(mem, log, ids, t)[r]
         /\ txn[s] \notin ids /\ Records(log, ids, t, r) # {} =>
              Origin(mem', log', ids, t)[r] = Origin(mem, log, ids, t)[r]
         /\ txn[s] \notin ids /\ Records(log, ids, t, r) = {} =>
              Origin(mem', log', ids, t)[r] = mem'[t][r] /\ Origin(mem, log, ids, t)[r] = mem[t][r]
<1> DEFINE rec == Data(txn[s], op, tt, rr, rr, before, after)
<1>1. /\ rec \in DataType /\ Longer(log', log, rec) /\ tt \in Table /\ rr \in Rid /\ mem[tt][rr] = before
      /\ \A u \in Table, q \in Rid : mem'[u][q] = IF u = tt /\ q = rr THEN after ELSE mem[u][q]
  BY MovesIs
<1>2. rec.table = tt /\ rec.rid = rr /\ rec.before = before /\ rec.id = txn[s]
  BY DEF Data
<1>3. log \in Seq(LogType)
  BY DEF TypeInv, StoreTypes
<1> HIDE DEF rec
<1> DEFINE k == log'
           n == mem'
           m == mem
<1>4. Written(n, m, rec)
  BY <1>1, <1>2 DEF Written
<1>5. Longer(k, log, rec) /\ rec \in DataType
  BY <1>1
<1> HIDE DEF k, n, m
<1>6. OriginFollows(n, k, m, log, rec, ids, t, r)
  BY <1>3, <1>4, <1>5, OriginWrites
<1> QED
  BY <1>2, <1>6 DEF k, n, m, OriginFollows

(* A write of another transaction goes into the table and into what the     *)
(* table would be without this one.                                         *)
LEMMA MovesBoth ==
  ASSUME TypeInv, IdInv, LockInv, OwnInv, NEW s \in Session, NEW op, NEW tt, NEW rr, NEW before, NEW after,
         Moves(s, op, tt, rr, before, after), NEW u \in Session, u # s, txn[u] # 0, NEW t \in Table, NEW v \in Row
  PROVE  LET o == Origin(mem, log, {txn[u]}, t)
             p == Origin(mem', log', {txn[u]}, t)
         IN /\ Stored(mem'[t])[v] + Stored(o)[v] = Stored(mem[t])[v] + Stored(p)[v]
            /\ Stored(mem'[t])[v] \in Nat /\ Stored(o)[v] \in Nat /\ Stored(mem[t])[v] \in Nat /\ Stored(p)[v] \in Nat
<1> DEFINE id == txn[u]
           a == mem'[t]
           b == mem[t]
           p == Origin(mem', log', {id}, t)
           o == Origin(mem, log, {id}, t)
           W == {r \in Rid : Records(log, {id}, t, r) = {}}
<1>1. /\ tt \in Table /\ rr \in Rid /\ txn[s] \in 1 .. MaxBegin
      /\ \A x \in Table, r \in Rid : mem'[x][r] = IF x = tt /\ r = rr THEN after ELSE mem[x][r]
  BY MovesIs
<1>2. txn[s] \notin {id}
  BY <1>1 DEF IdInv
<1>3. Records(log, {id}, tt, rr) = {}
  BY <1>1 DEF OwnInv, Moves
<1>4. ASSUME NEW r \in Rid, r \in W PROVE a[r] = p[r] /\ b[r] = o[r]
  <2> DEFINE ids == {id}
  <2>1. txn[s] \notin ids /\ Records(log, ids, t, r) = {}
    BY <1>2, <1>4
  <2> HIDE DEF ids, id
  <2>2. Origin(mem', log', ids, t)[r] = mem'[t][r] /\ Origin(mem, log, ids, t)[r] = mem[t][r]
    BY <2>1, MovesOrigin
  <2> QED
    BY <2>2 DEF ids
<1>5. ASSUME NEW r \in Rid, r \notin W PROVE a[r] = b[r] /\ p[r] = o[r]
  <2>1. p[r] = o[r]
    BY <1>2, <1>5, MovesOrigin
  <2>2. a[r] = b[r]
    BY <1>1, <1>3, <1>5
  <2> QED
    BY <2>1, <2>2
<1> HIDE DEF a, b, p, o, W
<1>6. Swapped(a, b, p, o, W)
  BY <1>4, <1>5 DEF Swapped
<1>7. /\ Stored(a)[v] + Stored(o)[v] = Stored(b)[v] + Stored(p)[v]
      /\ Stored(a)[v] \in Nat /\ Stored(b)[v] \in Nat /\ Stored(p)[v] \in Nat /\ Stored(o)[v] \in Nat
  BY <1>6, StoredSwap
<1> QED
  BY <1>7 DEF a, b, p, o

(* The undo lists account for what each transaction has changed.            *)
LEMMA AccInvStep == Known /\ UndoInv /\ IdInv /\ OwnInv /\ AccInv /\ [Next]_vars => AccInv'
<1> SUFFICES ASSUME Known, UndoInv, IdInv, OwnInv, AccInv, [Next]_vars,
                    NEW u \in Session, NEW t \in Table, NEW v \in Row, txn'[u] # 0
             PROVE  Stored(mem'[t])[v] = Stored(Origin(mem', log', {txn'[u]}, t))[v]
                                         + Came(undo'[u], t, v) - Went(undo'[u], t, v)
  BY DEF AccInv
<1> DEFINE Goal == Stored(mem'[t])[v] = Stored(Origin(mem', log', {txn'[u]}, t))[v]
                                        + Came(undo'[u], t, v) - Went(undo'[u], t, v)
           o == Origin(mem, log, {txn[u]}, t)
           p == Origin(mem', log', {txn[u]}, t)
<1>0. /\ TypeInv /\ LockInv /\ log \in Seq(LogType) /\ txn \in [Session -> 0 .. MaxBegin]
      /\ undo \in [Session -> Seq(ChangeType)]
  BY DEF Known, TypeInv, StoreTypes, TxnTypes
<1>1. txn[u] # 0 => Stored(mem[t])[v] = Stored(o)[v] + Came(undo[u], t, v) - Went(undo[u], t, v)
  BY DEF AccInv
<1>2. CASE Quietly
  BY <1>1, <1>2 DEF Quietly
<1>3. ASSUME NEW s \in Session, Step(s), Begin(s) PROVE Goal
  <2> DEFINE rec == Begun(nextId)
  <2>1. /\ rec \in LogType /\ Longer(log', log, rec) /\ txn[s] = 0 /\ crashes = 0 /\ nextId \in 1 .. MaxBegin
        /\ txn' = [txn EXCEPT ![s] = nextId] /\ UNCHANGED <<mem, undo>>
    BY <1>3, BeginIs
  <2>2. rec.kind = "BEGIN"
    BY DEF Begun
  <2> HIDE DEF rec
  <2>3. Origin(mem, log', {txn'[u]}, t) = Origin(mem, log, {txn'[u]}, t)
    <3> DEFINE id == txn'[u]
               m == mem
    <3> HIDE DEF id, m
    <3>1. Origin(m, log', {id}, t) = Origin(m, log, {id}, t)
      BY <1>0, <2>1, <2>2, OriginStays
    <3> QED
      BY <3>1 DEF id, m
  <2>4. CASE u = s
    <3>1. \A i \in DOMAIN log : log[i].id # nextId
      <4>1. \A i \in DOMAIN log : log[i].id < nextId /\ log[i].id \in 1 .. MaxBegin
        BY <1>0, <2>1, RecordTypes DEF IdInv
      <4> QED
        BY <2>1, <4>1
    <3>2. txn'[u] = nextId
      BY <1>0, <2>1, <2>4
    <3>3. \A r \in Rid : Records(log, {nextId}, t, r) = {}
      BY <3>1 DEF Records, About
    <3> DEFINE h == Origin(mem, log, {nextId}, t)
    <3>4. \A r \in Rid : h[r] = mem[t][r]
      BY <3>3 DEF Origin
    <3> HIDE DEF h
    <3>5. Stored(h)[v] = Stored(mem[t])[v] /\ Stored(mem[t])[v] \in Nat
      BY <3>4, StoredSame, StoredCounts
    <3>6. undo'[u] = <<>>
      BY <2>1, <2>4 DEF UndoInv
    <3>7. Came(undo'[u], t, v) = 0 /\ Went(undo'[u], t, v) = 0
      BY <3>6, CountsNone
    <3>8. Origin(mem', log', {txn'[u]}, t) = h
      BY <2>1, <2>3, <3>2 DEF h
    <3> DEFINE x == Stored(mem[t])[v]
    <3>9. Stored(mem'[t])[v] = x /\ Stored(h)[v] = x /\ x \in Nat
      BY <2>1, <3>5
    <3> HIDE DEF x
    <3> QED
      BY <3>7, <3>8, <3>9
  <2>5. CASE u # s
    <3>1. txn'[u] = txn[u] /\ undo' = undo /\ mem' = mem
      BY <1>0, <2>1, <2>5
    <3> QED
      BY <1>1, <2>3, <3>1
  <2> QED
    BY <2>4, <2>5
<1>4. ASSUME NEW s \in Session, Step(s), Ending(s) PROVE Goal
  <2>1. txn' = [txn EXCEPT ![s] = 0] /\ undo' = [undo EXCEPT ![s] = <<>>] /\ mem' = mem
    BY <1>4, EndIs
  <2>2. u # s /\ txn'[u] = txn[u] /\ undo'[u] = undo[u]
    BY <1>0, <2>1
  <2>3. PICK rec \in LogType : Longer(log', log, rec) /\ rec.kind \in {"COMMIT", "ABORT"}
    BY <1>4, EndIs
  <2>4. Origin(mem, log', {txn[u]}, t) = Origin(mem, log, {txn[u]}, t)
    <3> DEFINE id == txn[u]
               m == mem
    <3> HIDE DEF id, m
    <3>1. Origin(m, log', {id}, t) = Origin(m, log, {id}, t)
      BY <1>0, <2>3, OriginStays
    <3> QED
      BY <3>1 DEF id, m
  <2> QED
    BY <1>1, <2>1, <2>2, <2>4
<1>5. ASSUME NEW s \in Session, Step(s), NEW op, NEW tt, NEW rr, NEW before, NEW after,
             Moves(s, op, tt, rr, before, after), u # s
      PROVE  Goal
  <2>1. txn' = txn
    BY <1>0, <1>5, MovesIs
  <2>2. undo'[u] = undo[u]
    BY <1>0, <1>5, OthersStay DEF Same
  <2>3. /\ Stored(mem'[t])[v] + Stored(o)[v] = Stored(mem[t])[v] + Stored(p)[v]
        /\ Stored(mem'[t])[v] \in Nat /\ Stored(o)[v] \in Nat /\ Stored(mem[t])[v] \in Nat /\ Stored(p)[v] \in Nat
    BY <1>0, <1>5, <2>1, MovesBoth
  <2>4. Stored(mem[t])[v] = Stored(o)[v] + Came(undo[u], t, v) - Went(undo[u], t, v)
    BY <1>1, <2>1
  <2>5. Came(undo[u], t, v) \in Nat /\ Went(undo[u], t, v) \in Nat
    BY <1>0, CountsAre
  <2> DEFINE a == Stored(mem'[t])[v]
             b == Stored(mem[t])[v]
             x == Stored(o)[v]
             y == Stored(p)[v]
             c == Came(undo[u], t, v)
             w == Went(undo[u], t, v)
  <2>6. /\ a + x = b + y /\ b = x + c - w
        /\ a \in Nat /\ b \in Nat /\ x \in Nat /\ y \in Nat /\ c \in Nat /\ w \in Nat
    BY <2>3, <2>4, <2>5
  <2> HIDE DEF a, b, x, y, c, w
  <2>7. a = y + c - w
    BY <2>6
  <2> QED
    BY <2>1, <2>2, <2>7 DEF a, y, c, w
<1>6. ASSUME NEW s \in Session, Step(s), NEW op, NEW tt, NEW rr, NEW before, NEW after,
             Moves(s, op, tt, rr, before, after), u = s,
             \/ OneMore(undo'[s], undo[s], Change(op, tt, rr, before, after))
             \/ \E c : OneMore(undo[s], undo'[s], c) /\ c.table = tt /\ c.before = after /\ c.after = before
      PROVE  Goal
  <2>1. txn' = txn
    BY <1>0, <1>6, MovesIs
  <2>2. \A r \in Rid : p[r] = o[r]
    BY <1>0, <1>6, MovesOrigin
  <2>3. /\ Stored(mem'[t])[v] + Is(<<tt, before>>, <<t, v>>) = Stored(mem[t])[v] + Is(<<tt, after>>, <<t, v>>)
        /\ Stored(mem'[t])[v] \in Nat /\ Stored(mem[t])[v] \in Nat
    BY <1>0, <1>6, MovesStored
  <2> DEFINE x == Is(<<tt, before>>, <<t, v>>)
             y == Is(<<tt, after>>, <<t, v>>)
             q == undo[s]
             k == undo'[s]
  <2>4. x \in Nat /\ y \in Nat
    BY DEF Is
  <2>5. Stored(mem[t])[v] = Stored(o)[v] + Came(q, t, v) - Went(q, t, v)
    BY <1>1, <1>6, <2>1
  <2>6. /\ Came(k, t, v) + Went(q, t, v) + x = Went(k, t, v) + Came(q, t, v) + y
        /\ Came(k, t, v) \in Nat /\ Went(k, t, v) \in Nat /\ Came(q, t, v) \in Nat /\ Went(q, t, v) \in Nat
    <3>1. CASE OneMore(k, q, Change(op, tt, rr, before, after))
      <4> DEFINE c == Change(op, tt, rr, before, after)
      <4>1. c.table = tt /\ c.before = before /\ c.after = after
        BY DEF Change
      <4> HIDE DEF c, q, k
      <4>2. /\ Came(k, t, v) = Came(q, t, v) + Is(<<c.table, c.after>>, <<t, v>>)
            /\ Went(k, t, v) = Went(q, t, v) + Is(<<c.table, c.before>>, <<t, v>>)
            /\ Came(k, t, v) \in Nat /\ Came(q, t, v) \in Nat /\ Went(k, t, v) \in Nat /\ Went(q, t, v) \in Nat
        BY <3>1, CountsOne DEF c
      <4>3. Came(k, t, v) = Came(q, t, v) + y /\ Went(k, t, v) = Went(q, t, v) + x
        BY <4>1, <4>2
      <4> HIDE DEF x, y
      <4> QED
        BY <2>4, <4>2, <4>3
    <3>2. ASSUME NEW c, OneMore(q, k, c), c.table = tt, c.before = after, c.after = before
          PROVE  /\ Came(k, t, v) + Went(q, t, v) + x = Went(k, t, v) + Came(q, t, v) + y
                 /\ Came(k, t, v) \in Nat /\ Went(k, t, v) \in Nat /\ Came(q, t, v) \in Nat /\ Went(q, t, v) \in Nat
      <4> HIDE DEF q, k
      <4>1. /\ Came(q, t, v) = Came(k, t, v) + Is(<<c.table, c.after>>, <<t, v>>)
            /\ Went(q, t, v) = Went(k, t, v) + Is(<<c.table, c.before>>, <<t, v>>)
            /\ Came(k, t, v) \in Nat /\ Came(q, t, v) \in Nat /\ Went(k, t, v) \in Nat /\ Went(q, t, v) \in Nat
        BY <3>2, CountsOne
      <4>2. Came(q, t, v) = Came(k, t, v) + x /\ Went(q, t, v) = Went(k, t, v) + y
        BY <3>2, <4>1
      <4> HIDE DEF x, y
      <4> QED
        BY <2>4, <4>1, <4>2
    <3> QED
      BY <1>6, <3>1, <3>2
  <2> HIDE DEF o, p
  <2>7. Stored(o)[v] = Stored(p)[v] /\ Stored(o)[v] \in Nat
    BY <2>2, StoredSame, StoredCounts
  <2> HIDE DEF x, y, q, k
  <2>8. Stored(mem'[t])[v] + x = Stored(mem[t])[v] + y
    BY <2>3 DEF x, y
  <2>9. Stored(mem'[t])[v] = Stored(p)[v] + Came(k, t, v) - Went(k, t, v)
    BY <2>3, <2>4, <2>5, <2>6, <2>7, <2>8
  <2> QED
    BY <1>6, <2>1, <2>9 DEF p, k
<1>7. ASSUME NEW s \in Session, Step(s), NEW op, NEW tt, NEW rr, NEW before, NEW after,
             Does(s, op, tt, rr, before, after)
      PROVE  Goal
  <2>1. Moves(s, op, tt, rr, before, after)
    BY <1>7 DEF Does
  <2>2. Longer(undo'[s], undo[s], Change(op, tt, rr, before, after)) /\ undo[s] \in Seq(ChangeType)
    BY <1>0, <1>7 DEF Does, Longer
  <2>3. Change(op, tt, rr, before, after) \in ChangeType
    BY <1>0, <2>1, MovesIs
  <2>4. OneMore(undo'[s], undo[s], Change(op, tt, rr, before, after))
    BY <2>2, <2>3, ChangeAdded
  <2> QED
    BY <1>5, <1>6, <1>7, <2>1, <2>4
<1>8. ASSUME NEW s \in Session, Step(s), NEW op, NEW tt, NEW rr, NEW before, NEW after,
             Undoes(s, op, tt, rr, before, after)
      PROVE  Goal
  <2>1. Moves(s, op, tt, rr, before, after)
    BY <1>8 DEF Undoes
  <2> DEFINE c == undo[s][Len(undo[s])]
  <2>2. /\ undo[s] \in Seq(ChangeType) /\ undo[s] # <<>> /\ Shorter(undo'[s], undo[s])
    BY <1>0, <1>8, UndoneIs DEF Undoes
  <2>3. c.table = tt /\ c.before = after /\ c.after = before
    BY <1>8 DEF Undoes
  <2>4. OneMore(undo[s], undo'[s], c)
    BY <2>2, ChangeTaken
  <2> HIDE DEF c
  <2> QED
    BY <1>5, <1>6, <1>8, <2>1, <2>3, <2>4
<1>9. CASE Crash \/ RecoverRecord \/ RecoverFlush \/ MarkLoser \/ Serve
  <2>1. CASE Crash
    BY <2>1 DEF Crash
  <2>2. CASE RecoverRecord \/ RecoverFlush \/ MarkLoser \/ Serve
    <3>1. process # "serving" /\ txn' = txn
      BY <1>0, <2>2, RecoverDoes DEF RecoverFlush, MarkLoser, Serve, txnVars
    <3> QED
      BY <3>1 DEF Known, RestInv, Resting
  <2> QED
    BY <1>9, <2>1, <2>2
<1> QED
  BY <1>2, <1>3, <1>4, <1>7, <1>8, <1>9, NextKinds

-----------------------------------------------------------------------------
(* What is left of the recursion of LoserChanges.                           *)

(* The list up to the k-th record: nothing, or the last record there is of  *)
(* these transactions, and the list before it.                              *)
LastLeft(l, ids, k) ==
  \/ LeftOf(l, ids, k) = <<>> /\ \A i \in 1 .. k : ~ Kept(l, ids, i)
  \/ \E j \in 1 .. k : /\ Kept(l, ids, j) /\ \A i \in 1 .. k : j < i => ~ Kept(l, ids, i)
                       /\ LeftOf(l, ids, k) # <<>>
                       /\ Head(LeftOf(l, ids, k)) = l[j] /\ Tail(LeftOf(l, ids, k)) = LeftOf(l, ids, j - 1)

(* Every list that recovery may have left is of that form.                  *)
LEMMA LeftIs ==
  ASSUME NEW l \in Seq(LogType), NEW ids
  PROVE  \A k \in 0 .. Len(l) : LastLeft(l, ids, k)
<1> DEFINE N == Len(l)
           S == {k \in 0 .. N : LastLeft(l, ids, k)}
<1>1. N \in Nat
  OBVIOUS
<1>2. LeftOf(l, ids, 0) = <<>>
  BY LeftUnrolled
<1>3. /\ \A i \in 0 .. N : LeftOf(l, ids, i) \in Seq(DataType)
      /\ \A i \in 1 .. N : LeftOf(l, ids, i) = IF Kept(l, ids, i) THEN <<l[i]>> \o LeftOf(l, ids, i - 1)
                                               ELSE LeftOf(l, ids, i - 1)
  BY LeftUnrolled
<1>4. \A i \in 1 .. N : Kept(l, ids, i) => l[i] \in DataType
  <2>1. \A i \in 1 .. N : l[i] \in LogType
    OBVIOUS
  <2> QED
    BY <2>1, RecordTypes DEF Kept
<1> HIDE DEF N
<1>5. 0 \in S
  BY <1>1, <1>2 DEF LastLeft
<1>6. ASSUME NEW k \in 1 .. N, k - 1 \in S PROVE k \in S
  <2>0. k \in 0 .. N /\ k - 1 \in 0 .. N /\ k \in Nat /\ LastLeft(l, ids, k - 1)
    BY <1>1, <1>6
  <2>1. CASE Kept(l, ids, k)
    <3> DEFINE p == LeftOf(l, ids, k - 1)
               q == LeftOf(l, ids, k)
               D == DataType
               x == l[k]
    <3>1. p \in Seq(D) /\ q = <<x>> \o p /\ x \in D
      BY <1>3, <1>4, <2>0, <2>1
    <3> HIDE DEF p, q, D, x
    <3>2. q # <<>> /\ Head(q) = x /\ Tail(q) = p
      BY <3>1
    <3>3. k \in 1 .. k /\ \A i \in 1 .. k : ~ (k < i)
      BY <2>0, <1>6
    <3>4. LastLeft(l, ids, k)
      BY <2>1, <3>2, <3>3 DEF p, q, x, LastLeft
    <3> QED
      BY <2>0, <3>4
  <2>2. CASE ~ Kept(l, ids, k)
    <3>1. LeftOf(l, ids, k) = LeftOf(l, ids, k - 1)
      BY <1>3, <2>2
    <3>2. \A i \in 1 .. k : i = k \/ i \in 1 .. k - 1
      BY <2>0
    <3>3. CASE LeftOf(l, ids, k - 1) = <<>> /\ \A i \in 1 .. k - 1 : ~ Kept(l, ids, i)
      <4>1. LastLeft(l, ids, k)
        BY <2>2, <3>1, <3>2, <3>3 DEF LastLeft
      <4> QED
        BY <2>0, <4>1
    <3>4. ASSUME NEW j \in 1 .. k - 1, Kept(l, ids, j), \A i \in 1 .. k - 1 : j < i => ~ Kept(l, ids, i),
                 LeftOf(l, ids, k - 1) # <<>>, Head(LeftOf(l, ids, k - 1)) = l[j],
                 Tail(LeftOf(l, ids, k - 1)) = LeftOf(l, ids, j - 1)
          PROVE  k \in S
      <4>1. j \in 1 .. k /\ \A i \in 1 .. k : j < i => ~ Kept(l, ids, i)
        BY <2>0, <2>2, <3>2, <3>4
      <4>2. LastLeft(l, ids, k)
        BY <3>1, <3>4, <4>1 DEF LastLeft
      <4> QED
        BY <2>0, <4>2
    <3> QED
      BY <2>0, <3>3, <3>4 DEF LastLeft
  <2> QED
    BY <2>1, <2>2
<1>7. 0 .. N \subseteq S
  <2> HIDE DEF S
  <2> QED
    BY <1>1, <1>5, <1>6, BoundedInduction
<1> QED
  BY <1>7 DEF N

-----------------------------------------------------------------------------
(* What is stored without the losers is what is committed.                  *)
BaseInv == \A t \in Table, v \in Row : Stored(Origin(mem, log, Losers, t))[v] = committed[t][v]

(* The same records say the same.                                           *)
LEMMA OriginSame ==
  ASSUME NEW l, NEW ids, NEW jds, NEW m, NEW t, NEW r \in Rid, Records(l, ids, t, r) = Records(l, jds, t, r)
  PROVE  Origin(m, l, ids, t)[r] = Origin(m, l, jds, t)[r]
<1>1. First(l, ids, t, r) = First(l, jds, t, r)
  BY DEF First
<1> QED
  BY <1>1 DEF Origin

(* A slot with records of one loser has records of no other.                *)
LEMMA SoleRecords ==
  ASSUME SoleInv, NEW id \in Losers, NEW t \in Table, NEW r \in Rid
  PROVE  /\ Records(log, {id}, t, r) # {} => /\ Records(log, Losers \ {id}, t, r) = {}
                                             /\ Records(log, Losers, t, r) = Records(log, {id}, t, r)
         /\ Records(log, {id}, t, r) = {} => Records(log, Losers, t, r) = Records(log, Losers \ {id}, t, r)
<1>1. ASSUME NEW i \in Records(log, Losers \ {id}, t, r) PROVE Records(log, {id}, t, r) = {}
  <2> DEFINE b == log[i].id
  <2>1. b \in Losers /\ b # id /\ i \in Records(log, {b}, t, r)
    BY DEF Records, About
  <2> HIDE DEF b
  <2> QED
    BY <2>1 DEF SoleInv
<1>2. Records(log, Losers, t, r) = Records(log, {id}, t, r) \cup Records(log, Losers \ {id}, t, r)
  <2> DEFINE L == Losers
  <2> HIDE DEF L
  <2>1. id \in L => Records(log, L, t, r) = Records(log, {id}, t, r) \cup Records(log, L \ {id}, t, r)
    BY DEF Records, About
  <2> QED
    BY <2>1 DEF L
<1> QED
  BY <1>1, <1>2

(* What a transaction has changed is committed, or undone, when it ends.    *)
LEMMA EndBase ==
  ASSUME Known, UndoInv, IdInv, SoleInv, AccInv, BaseInv, NEW s \in Session, Ending(s),
         NEW t \in Table, NEW v \in Row
  PROVE  Stored(Origin(mem', log', Losers', t))[v] = committed'[t][v]
<1> DEFINE id == txn[s]
           L == Losers
           a == mem[t]
           b == Origin(mem, log, {id}, t)
           m == Origin(mem, log, L \ {id}, t)
           n == Origin(mem, log, L, t)
           W == {r \in Rid : Records(log, {id}, t, r) # {}}
<1>0. /\ TypeInv /\ log \in Seq(LogType) /\ undo \in [Session -> Seq(ChangeType)]
      /\ committed \in [Table -> [Row -> Int]]
  BY DEF Known, TypeInv, StoreTypes, TxnTypes, GhostTypes
<1>1. process = "serving" /\ id \in 1 .. MaxBegin /\ mem' = mem
  BY <1>0, EndIs
<1>2. PICK rec \in LogType : Longer(log', log, rec) /\ rec.kind \in {"COMMIT", "ABORT"} /\ rec.id = id
  BY <1>0, EndIs
<1>3. Losers' = L \ {id} /\ id \in L
  <2>1. Losers' = Losers \ {rec.id}
    BY <1>0, <1>2, LosersGrow
  <2>2. id \in Losers
    BY <1>1, BoundAssumption DEF IdInv
  <2> QED
    BY <1>2, <2>1, <2>2
<1>4. Origin(mem', log', Losers', t) = m
  <2> DEFINE ids == L \ {id}
             w == mem
  <2> HIDE DEF ids, w, L, id
  <2>1. Origin(w, log', ids, t) = Origin(w, log, ids, t)
    BY <1>0, <1>2, OriginStays
  <2> QED
    BY <1>1, <1>3, <2>1 DEF ids, w
<1>5. ASSUME NEW r \in Rid, r \in W PROVE a[r] = m[r] /\ b[r] = n[r]
  <2>1. /\ Records(log, L \ {id}, t, r) = {} /\ Records(log, L, t, r) = Records(log, {id}, t, r)
    BY <1>3, <1>5, SoleRecords
  <2> DEFINE ids == L \ {id}
             jds == {id}
             w == mem
  <2> HIDE DEF ids, jds, w, L, id
  <2>2. Records(log, ids, t, r) = {} => Origin(w, log, ids, t)[r] = w[t][r]
    BY DEF Origin
  <2>3. Records(log, jds, t, r) = Records(log, L, t, r) => Origin(w, log, jds, t)[r] = Origin(w, log, L, t)[r]
    BY OriginSame
  <2> QED
    BY <2>1, <2>2, <2>3 DEF ids, jds, w
<1>6. ASSUME NEW r \in Rid, r \notin W PROVE a[r] = b[r] /\ m[r] = n[r]
  <2>1. Records(log, L, t, r) = Records(log, L \ {id}, t, r) /\ Records(log, {id}, t, r) = {}
    BY <1>3, <1>6, SoleRecords
  <2> DEFINE ids == L \ {id}
             jds == {id}
             w == mem
  <2> HIDE DEF ids, jds, w, L, id
  <2>2. Records(log, jds, t, r) = {} => Origin(w, log, jds, t)[r] = w[t][r]
    BY DEF Origin
  <2>3. Records(log, ids, t, r) = Records(log, L, t, r) => Origin(w, log, ids, t)[r] = Origin(w, log, L, t)[r]
    BY OriginSame
  <2> QED
    BY <2>1, <2>2, <2>3 DEF ids, jds, w
<1> HIDE DEF a, b, m, n, W
<1>7. Swapped(a, b, m, n, W)
  BY <1>5, <1>6 DEF Swapped
<1>8. /\ Stored(a)[v] + Stored(n)[v] = Stored(b)[v] + Stored(m)[v]
      /\ Stored(a)[v] \in Nat /\ Stored(b)[v] \in Nat /\ Stored(m)[v] \in Nat /\ Stored(n)[v] \in Nat
  BY <1>7, StoredSwap
<1> DEFINE c == Came(undo[s], t, v)
           w == Went(undo[s], t, v)
<1>9. Stored(a)[v] = Stored(b)[v] + c - w /\ Stored(n)[v] = committed[t][v]
  BY <1>1 DEF AccInv, BaseInv, a, b, n
<1>10. c \in Nat /\ w \in Nat
  BY <1>0, CountsAre
<1>11. committed'[t][v] = committed[t][v] + c - w
  <2>1. CASE committed' = Changed(committed, undo[s])
    BY <2>1 DEF Changed, Came, Went
  <2>2. CASE committed' = committed /\ undo[s] = <<>>
    <3>1. c = 0 /\ w = 0
      BY <2>2, CountsNone
    <3>2. committed[t][v] \in Int
      BY <1>0
    <3> HIDE DEF c, w
    <3> QED
      BY <2>2, <3>1, <3>2
  <2> QED
    BY <1>0, <2>1, <2>2, EndIs
<1> DEFINE A == Stored(a)[v]
           B == Stored(b)[v]
           M == Stored(m)[v]
           N == Stored(n)[v]
<1>12. /\ A + N = B + M /\ A = B + c - w /\ A \in Nat /\ B \in Nat /\ M \in Nat /\ N \in Nat
       /\ c \in Nat /\ w \in Nat
  BY <1>8, <1>9, <1>10
<1> HIDE DEF A, B, M, N, c, w
<1>13. M = N + c - w
  BY <1>12
<1>14. Stored(m)[v] = committed[t][v] + c - w
  BY <1>9, <1>13 DEF M, N
<1> QED
  BY <1>4, <1>11, <1>14

(* At first nothing is logged, and nothing runs.                            *)
LEMMA InitLogInvs == Init => OwnInv /\ SoleInv /\ AccInv /\ BaseInv
<1> SUFFICES ASSUME Init PROVE OwnInv /\ SoleInv /\ AccInv /\ BaseInv
  OBVIOUS
<1>1. log = <<>> /\ txn = [s \in Session |-> 0] /\ mem = workload.initial
      /\ committed = [t \in Table |-> Stored(workload.initial[t])]
  BY DEF Init
<1>2. Losers = {}
  BY <1>1 DEF Losers, Logged
<1>3. OwnInv /\ SoleInv /\ AccInv
  BY <1>1, <1>2 DEF OwnInv, SoleInv, AccInv
<1>4. ASSUME NEW t \in Table, NEW v \in Row PROVE Stored(Origin(mem, log, Losers, t))[v] = committed[t][v]
  <2> DEFINE ids == Losers
             m == mem
             h == mem[t]
             g == Origin(m, log, ids, t)
  <2>1. ASSUME NEW r \in Rid PROVE h[r] = g[r]
    <3>1. Records(log, ids, t, r) = {}
      BY <1>1 DEF Records
    <3> QED
      BY <3>1 DEF Origin
  <2> HIDE DEF g, h
  <2>2. Stored(h)[v] = Stored(g)[v]
    BY <2>1, StoredSame
  <2>3. committed[t] = Stored(h)
    BY <1>1 DEF h
  <2> QED
    BY <2>2, <2>3 DEF g
<1> QED
  BY <1>3, <1>4 DEF BaseInv

-----------------------------------------------------------------------------
(* Recovery.  What a crash may leave on disk.  A row that a transaction has *)
(* inserted is on disk or it is not; a row that one has updated is there in *)
(* some version.                                                            *)
Fits(m, d, c) ==
  \/ /\ c.op = "UPDATE" /\ c.before \in Row
     /\ m[c.table][c.rid] \in Row /\ d[c.table][c.rid] \in Row
  \/ /\ c.op = "INSERT" /\ "insert" \in workload.ops /\ c.before = Empty /\ c.after \in Row \cap workload.insert
     /\ m[c.table][c.rid] \in {Empty, c.after} /\ d[c.table][c.rid] \in {Empty, c.after}

Stands(m, c) == c.op = "INSERT" => m[c.table][c.rid] = c.after

InsertedAt(l, t, r) ==
  \E i \in DOMAIN l : l[i].kind = "DATA" /\ l[i].op = "INSERT" /\ l[i].table = t /\ l[i].rid = r

NearDisk(m, d, l) ==
  \A t \in Table, r \in Rid :
    /\ m[t][r] = Empty => d[t][r] = Empty
    /\ m[t][r] \in Row => d[t][r] \in Row \/ InsertedAt(l, t, r)

OneKind(l) ==
  \A i, j \in DOMAIN l :
    /\ l[i].kind = "DATA" /\ l[j].kind = "DATA"
    /\ l[i].table = l[j].table /\ l[i].rid = l[j].rid
    => l[i].op = l[j].op

DiskInv ==
  workload.dies > 0 =>
    /\ crashes = 0 => NearDisk(mem, disk, log)
    /\ \A i \in DOMAIN log :
         log[i].kind = "DATA" => Fits(mem, disk, log[i]) /\ (crashes = 0 => Stands(mem, log[i]))
    /\ OneKind(log)

(* Where nothing is inserted, what abort() undoes is updates of rows.       *)
ListInv ==
  workload.dies > 0 /\ "insert" \notin workload.ops =>
    \A s \in Session : \A i \in DOMAIN undo[s] : undo[s][i].before \in Row /\ undo[s][i].after \in Row

(* The slots whose first record is behind the k-th are as it found them.    *)
Restored(m, l, ids, k) ==
  \A t \in Table, r \in Rid :
    Records(l, ids, t, r) # {} /\ First(l, ids, t, r) > k => m[t][r] = l[First(l, ids, t, r)].before

(* Recovery goes back through the records of the losers, and puts what they *)
(* found where they found it; when it is through, no change of a loser is   *)
(* left.                                                                    *)
RecInv ==
  /\ process = "recovering" =>
       /\ moved = [r \in Rid |-> r]
       /\ \A t \in Table, r \in Rid : Records(log, Losers, t, r) = {} => mem[t][r] = disk[t][r]
       /\ \E k \in 0 .. Len(log) : todo = LeftOf(log, Losers, k) /\ Restored(mem, log, Losers, k)
  /\ process = "marking" => \A t \in Table, r \in Rid : mem[t][r] = Origin(mem, log, Losers, t)[r]

(* The step of recovery that puts back what the record j has found, the     *)
(* last one of a loser up to k.                                             *)
Restores(k, j) ==
  /\ k \in 0 .. Len(log) /\ j \in 1 .. k /\ Restored(mem, log, Losers, k)
  /\ Kept(log, Losers, j) /\ \A i \in 1 .. k : j < i => ~ Kept(log, Losers, i)
  /\ todo' = LeftOf(log, Losers, j - 1) /\ moved' = moved
  /\ \A t \in Table, r \in Rid :
       mem'[t][r] = IF t = log[j].table /\ r = log[j].rid THEN log[j].before ELSE mem[t][r]

(* Every step of recovery is of that kind.                                  *)
LEMMA RecoverRestores ==
  ASSUME Known, UndoInv, IdInv, DiskInv, RecInv, RecoverRecord
  PROVE  \E k, j : Restores(k, j)
<1>0. TypeInv /\ log \in Seq(LogType) /\ Len(log) \in Nat
  BY DEF Known, TypeInv, StoreTypes
<1>1. todo # <<>> /\ todo' = Tail(todo) /\ process = "recovering"
  BY DEF RecoverRecord, RecoverInsert, RecoverDelete, RecoverUpdate, Recovering
<1>2. PICK k \in 0 .. Len(log) : todo = LeftOf(log, Losers, k) /\ Restored(mem, log, Losers, k)
  BY <1>1 DEF RecInv
<1>3. PICK j \in 1 .. k : /\ Kept(log, Losers, j) /\ \A i \in 1 .. k : j < i => ~ Kept(log, Losers, i)
                          /\ Head(todo) = log[j] /\ todo' = LeftOf(log, Losers, j - 1)
  <2> DEFINE ids == Losers
  <2> HIDE DEF ids
  <2>1. LastLeft(log, ids, k)
    BY <1>0, <1>2, LeftIs
  <2> QED
    BY <1>1, <1>2, <2>1 DEF LastLeft, ids
<1> DEFINE rec == log[j]
           t == rec.table
           r == rec.rid
           h == mem[t]
<1>4. /\ t \in Table /\ r \in Rid /\ rec.before \in Held /\ rec.after \in Held /\ rec.kind = "DATA"
      /\ moved[rec.rid] = r /\ moved[rec.new] = r /\ j \in DOMAIN log
  <2>1. j \in DOMAIN log /\ rec.kind = "DATA"
    BY <1>0, <1>3 DEF Kept
  <2>2. rec.new = rec.rid
    BY <2>1 DEF IdInv
  <2>3. t \in Table /\ r \in Rid /\ rec.before \in Held /\ rec.after \in Held
    BY <1>0, <1>1, <1>3, RecordIs
  <2> QED
    BY <1>1, <2>1, <2>2, <2>3 DEF RecInv
<1>5. h \in FlatHeap /\ Get(h, r) = h[r] /\ h[r] \in Held /\ mem \in [Table -> FlatHeap]
  BY <1>0, <1>4, SlotIs DEF TypeInv, StoreTypes
<1>6. workload.dies > 0
  BY <1>0, <1>1, WorkloadIs DEF IdInv, TypeInv, RecTypes, GhostTypes
<1>7. SUFFICES /\ moved' = moved
               /\ mem' = [mem EXCEPT ![t] = [h EXCEPT ![r] = rec.before]] \/ (mem' = mem /\ h[r] = rec.before)
  <2>1. CASE mem' = mem /\ h[r] = rec.before
    BY <1>2, <1>3, <1>7, <2>1 DEF Restores
  <2>2. CASE mem' = [mem EXCEPT ![t] = [h EXCEPT ![r] = rec.before]]
    <3>1. ASSUME NEW u \in Table, NEW q \in Rid
          PROVE  mem'[u][q] = IF u = log[j].table /\ q = log[j].rid THEN log[j].before ELSE mem[u][q]
      BY <1>4, <1>5, <2>2 DEF FlatHeap
    <3> QED
      BY <1>2, <1>3, <1>7, <3>1 DEF Restores
  <2> QED
    BY <1>7, <2>1, <2>2
<1>8. Fits(mem, disk, rec)
  BY <1>4, <1>6 DEF DiskInv
<1>9. CASE rec.op = "INSERT"
  <2>1. rec.op = "INSERT" /\ rec.before = Empty /\ h[r] \in {Empty, rec.after}
    BY <1>8, <1>9 DEF Fits
  <2>2. RecoverInsert
    BY <1>3, <2>1 DEF RecoverRecord, RecoverDelete, RecoverUpdate, Recovering
  <2>3. moved' = moved /\ mem' = IF Get(h, r) = rec.after THEN [mem EXCEPT ![t] = Delete(h, r)] ELSE mem
    BY <1>3, <1>4, <2>2 DEF RecoverInsert
  <2>4. Delete(h, r) = [h EXCEPT ![r] = Empty]
    <3> HIDE DEF h, r
    <3> QED
      BY <1>4, <1>5, FlatWrites
  <2> HIDE DEF h, r, t, rec
  <2> QED
    BY <1>5, <2>1, <2>3, <2>4
<1>10. CASE rec.op # "INSERT"
  <2>1. rec.op = "UPDATE" /\ rec.before \in Row /\ h[r] \in Row
    BY <1>8, <1>10 DEF Fits
  <2>2. RecoverUpdate
    BY <1>3, <2>1 DEF RecoverRecord, RecoverDelete, RecoverInsert, Recovering
  <2> DEFINE target == IF Get(h, moved[rec.new]) # Empty THEN moved[rec.new] ELSE moved[rec.rid]
  <2>3. target = r
    BY <1>4
  <2>4. \/ Get(h, target) = Empty
        \/ moved' = moved /\ \E u \in Update(h, target, rec.before, workload.moves) : mem' = [mem EXCEPT ![t] = u.heap]
        \/ Get(h, target) = rec.before /\ UNCHANGED <<mem, moved>>
    BY <1>3, <2>2 DEF RecoverUpdate
  <2>5. workload.moves = FALSE
    BY <1>0 DEF TypeInv, GhostTypes, FixedLength
  <2>6. h[r] # Empty
    BY <2>1, SlotAssumption
  <2> DEFINE w == rec.before
             g == [h EXCEPT ![r] = w]
  <2> HIDE DEF target
  <2>7. Update(h, r, w, FALSE) = {[heap |-> g, rid |-> r]}
    <3> HIDE DEF h, r, w
    <3>1. w \in Row \cup {Empty}
      BY <1>4 DEF Held, w
    <3> QED
      BY <1>4, <1>5, <3>1, FlatWrites
  <2> HIDE DEF g, w, h, r, t, rec
  <2>8. CASE moved' = moved /\ \E u \in Update(h, r, w, FALSE) : mem' = [mem EXCEPT ![t] = u.heap]
    <3>1. PICK u \in Update(h, r, w, FALSE) : mem' = [mem EXCEPT ![t] = u.heap]
      BY <2>8
    <3>2. u = [heap |-> g, rid |-> r]
      BY <2>7, <3>1, Zenon
    <3>3. mem' = [mem EXCEPT ![t] = g]
      BY <3>1, <3>2
    <3> QED
      BY <2>8, <3>3 DEF g, w
  <2> QED
    BY <1>5, <2>3, <2>4, <2>5, <2>6, <2>8 DEF w
<1> QED
  BY <1>9, <1>10

(* At first nothing is logged, and the tables are on disk.                  *)
LEMMA InitRecovery == Init => DiskInv /\ ListInv /\ RecInv
BY DEF Init, DiskInv, NearDisk, OneKind, ListInv, RecInv

(* Undo lists get longer by updates of rows, where nothing is inserted.     *)
LEMMA ListInvStep == Known /\ UndoInv /\ ListInv /\ [Next]_vars => ListInv'
<1> SUFFICES ASSUME Known, UndoInv, ListInv, [Next]_vars, workload'.dies > 0, "insert" \notin workload'.ops
             PROVE  \A s \in Session : \A i \in DOMAIN undo'[s] : undo'[s][i].before \in Row /\ undo'[s][i].after \in Row
  BY DEF ListInv
<1> DEFINE RowLists == \A s \in Session : \A i \in DOMAIN undo'[s] :
                         undo'[s][i].before \in Row /\ undo'[s][i].after \in Row
<1>0. /\ TypeInv /\ undo \in [Session -> Seq(ChangeType)] /\ workload' = workload
      /\ workload.dies > 0 /\ "insert" \notin workload.ops /\ "delete" \notin workload.ops
  BY WorkloadStays DEF Known, TypeInv, TxnTypes, UndoInv, UndoKept
<1>1. \A s \in Session : \A i \in DOMAIN undo[s] : undo[s][i].before \in Row /\ undo[s][i].after \in Row
  BY <1>0 DEF ListInv
<1>2. CASE undo' = undo
  BY <1>1, <1>2
<1>3. ASSUME NEW s \in Session, Ending(s) PROVE RowLists
  <2>1. undo' = [undo EXCEPT ![s] = <<>>]
    BY <1>3, EndIs
  <2>2. ASSUME NEW u \in Session PROVE undo'[u] = undo[u] \/ undo'[u] = <<>>
    BY <1>0, <2>1
  <2> QED
    BY <1>1, <2>2
<1>4. ASSUME NEW s \in Session, NEW op, NEW t, NEW r, NEW before, NEW after, Does(s, op, t, r, before, after)
      PROVE  RowLists
  <2>1. op = "UPDATE" /\ before \in Row /\ after \in Row
    BY <1>0, <1>4 DEF Does
  <2> DEFINE c == Change(op, t, r, before, after)
             C == ChangeType
  <2>2. undo' = [undo EXCEPT ![s] = Append(@, c)] /\ c \in C
    BY <1>0, <1>4, MovesIs DEF Does
  <2>3. c.before \in Row /\ c.after \in Row
    BY <2>1 DEF Change
  <2>4. undo \in [Session -> Seq(C)]
    BY <1>0
  <2> HIDE DEF c, C
  <2>5. ASSUME NEW u \in Session, NEW i \in DOMAIN undo'[u]
        PROVE  undo'[u][i] = c \/ (i \in DOMAIN undo[u] /\ undo'[u][i] = undo[u][i])
    BY <2>2, <2>4, <2>5
  <2> QED
    BY <1>1, <2>3, <2>5
<1>5. ASSUME NEW s \in Session, NEW op, NEW t, NEW r, NEW before, NEW after, Undoes(s, op, t, r, before, after)
      PROVE  RowLists
  <2>1. Undone(s) /\ Shorter(undo'[s], undo[s])
    BY <1>0, <1>5, UndoneIs DEF Undoes
  <2>2. ASSUME NEW u \in Session, NEW i \in DOMAIN undo'[u] PROVE i \in DOMAIN undo[u] /\ undo'[u][i] = undo[u][i]
    <3>1. u # s => undo'[u] = undo[u]
      BY <1>0, <2>1 DEF Undone
    <3> QED
      BY <2>1, <2>2, <3>1 DEF Shorter
  <2> QED
    BY <1>1, <2>2
<1>6. CASE Crash
  <2>1. \A s \in Session : undo'[s] = <<>>
    BY <1>6 DEF Crash
  <2> QED
    BY <2>1
<1>7. ASSUME NEW s \in Session, Begin(s) PROVE undo' = undo
  BY <1>7, BeginIs
<1>8. CASE RecoverRecord
  BY <1>0, <1>2, <1>8, RecoverDoes DEF txnVars
<1>9. CASE Quietly \/ RecoverFlush \/ MarkLoser \/ Serve
  BY <1>2, <1>9 DEF Quietly, RecoverFlush, MarkLoser, Serve, txnVars
<1> QED
  BY <1>2, <1>3, <1>4, <1>5, <1>6, <1>7, <1>8, <1>9, NextKinds

(* A statement writes a slot of the kind of record it logs: a slot that is  *)
(* free or taken by an insert is never updated or inserted into again.      *)
LEMMA OneKindMore ==
  ASSUME Known, UndoInv, IdInv, DiskInv, workload.dies > 0, crashes = 0,
         NEW s \in Session, NEW op, NEW t, NEW r, NEW before, NEW after,
         Does(s, op, t, r, before, after) \/ Undoes(s, op, t, r, before, after)
  PROVE  \A i \in DOMAIN log :
           log[i].kind = "DATA" /\ log[i].table = t /\ log[i].rid = r => op = "UPDATE" /\ log[i].op = "UPDATE"
<1> SUFFICES ASSUME NEW i \in DOMAIN log, log[i].kind = "DATA", log[i].table = t, log[i].rid = r
             PROVE  op = "UPDATE" /\ log[i].op = "UPDATE"
  OBVIOUS
<1>1. Fits(mem, disk, log[i]) /\ Stands(mem, log[i])
  BY DEF DiskInv
<1>2. mem[t][r] = before
  BY DEF Does, Undoes, Moves
<1>3. mem[t][r] \in Row
  BY <1>1 DEF Fits, Stands
<1>4. op = "UPDATE"
  BY <1>2, <1>3, SlotAssumption DEF Does, Undoes, UndoInv, UndoKept
<1>5. ASSUME log[i].op = "INSERT" PROVE FALSE
  <2>1. "insert" \in workload.ops /\ mem[t][r] \in workload.insert
    BY <1>1, <1>5 DEF Fits, Stands
  <2>2. ~ workload.fails
    BY <2>1 DEF UndoInv, UndoKept, SlotsKept
  <2>3. PICK w \in workload.where : before \in w /\ "update" \in workload.ops
    BY <1>4, <2>2 DEF Does, Undoes
  <2>4. w \cap workload.insert = {}
    BY <2>1, <2>3 DEF UndoInv, UndoKept
  <2> QED
    BY <1>2, <2>1, <2>3, <2>4
<1> QED
  BY <1>1, <1>4, <1>5 DEF Fits

(* Every step keeps what may be on disk.                                    *)
LEMMA DiskInvStep == Known /\ UndoInv /\ IdInv /\ DiskInv /\ ListInv /\ RecInv /\ [Next]_vars => DiskInv'
<1> DEFINE Goal == /\ crashes' = 0 => NearDisk(mem', disk', log')
                   /\ \A i \in DOMAIN log' :
                        log'[i].kind = "DATA" => /\ Fits(mem', disk', log'[i])
                                                 /\ crashes' = 0 => Stands(mem', log'[i])
                   /\ OneKind(log')
           Keeps == /\ crashes' = crashes /\ mem' = mem
                    /\ \A t \in Table, r \in Rid : disk'[t][r] \in {disk[t][r], mem[t][r]}
<1> SUFFICES ASSUME Known, UndoInv, IdInv, DiskInv, ListInv, RecInv, [Next]_vars PROVE DiskInv'
  OBVIOUS
<1>w. workload' = workload
  BY WorkloadStays DEF Known
<1> SUFFICES ASSUME workload'.dies > 0 PROVE Goal
  BY <1>w DEF DiskInv, Fits
<1>0. /\ TypeInv /\ log \in Seq(LogType) /\ workload' = workload /\ crashes \in Nat
      /\ workload.dies > 0 /\ "delete" \notin workload.ops
  BY WorkloadStays DEF Known, TypeInv, StoreTypes, RecTypes, UndoInv, UndoKept, SlotsKept
<1>1. /\ crashes = 0 => NearDisk(mem, disk, log)
      /\ \A i \in DOMAIN log :
           log[i].kind = "DATA" => Fits(mem, disk, log[i]) /\ (crashes = 0 => Stands(mem, log[i]))
      /\ OneKind(log)
  BY <1>0 DEF DiskInv
<1>2. \A i \in DOMAIN log : log[i].kind = "DATA" => log[i].table \in Table /\ log[i].rid \in Rid
  BY <1>0, RecordTypes DEF DataType
<1>3. ASSUME Keeps PROVE /\ \A c : c.table \in Table /\ c.rid \in Rid /\ Fits(mem, disk, c) => Fits(mem', disk', c)
                         /\ \A l : NearDisk(mem, disk, l) => NearDisk(mem', disk', l)
  BY <1>3 DEF Fits, NearDisk
<1>4. ASSUME Keeps, log' = log PROVE Goal
  BY <1>1, <1>2, <1>3, <1>4
<1>5. ASSUME Keeps, NEW rec \in LogType, Longer(log', log, rec), rec.kind # "DATA" PROVE Goal
  <2>1. \A i \in DOMAIN log' : log'[i] = rec \/ (i \in DOMAIN log /\ log'[i] = log[i])
    BY <1>0, <1>5, LongerIs
  <2>2. \A i \in DOMAIN log : i \in DOMAIN log' /\ log'[i] = log[i]
    BY <1>0, <1>5, AppendIs DEF Longer
  <2>3. NearDisk(mem', disk', log) => NearDisk(mem', disk', log')
    BY <2>2 DEF NearDisk, InsertedAt
  <2>4. OneKind(log')
    BY <1>1, <1>5, <2>1 DEF OneKind
  <2>5. crashes' = crashes /\ mem' = mem
    BY <1>5
  <2> QED
    BY <1>1, <1>2, <1>3, <1>5, <2>1, <2>3, <2>4, <2>5
<1>6. ASSUME NEW s \in Session, Begin(s) PROVE Goal
  <2>1. /\ Begun(nextId) \in LogType /\ Longer(log', log, Begun(nextId)) /\ UNCHANGED <<mem, disk, recVars>>
    BY <1>6, BeginIs
  <2>2. Begun(nextId).kind # "DATA"
    BY DEF Begun
  <2> QED
    BY <1>5, <2>1, <2>2 DEF recVars
<1>7. ASSUME NEW s \in Session, Ending(s) PROVE Goal
  <2>1. PICK rec \in LogType : Longer(log', log, rec) /\ rec.kind \in {"COMMIT", "ABORT"}
    BY <1>7, EndIs
  <2>2. UNCHANGED <<mem, disk, recVars>>
    BY <1>7, EndIs
  <2> QED
    BY <1>5, <2>1, <2>2 DEF recVars
<1>8. ASSUME NEW s \in Session, Step(s), NEW op, NEW t, NEW r, NEW before, NEW after,
             Does(s, op, t, r, before, after) \/ Undoes(s, op, t, r, before, after)
      PROVE  Goal
  <2> DEFINE rec == Data(txn[s], op, t, r, r, before, after)
  <2>0. Moves(s, op, t, r, before, after)
    BY <1>8 DEF Does, Undoes
  <2>1. /\ rec \in DataType /\ Longer(log', log, rec) /\ t \in Table /\ r \in Rid /\ mem[t][r] = before
        /\ \A u \in Table, q \in Rid : mem'[u][q] = IF u = t /\ q = r THEN after ELSE mem[u][q]
        /\ txn' = txn /\ txn'[s] # 0
    BY <1>0, <2>0, MovesIs
  <2>2. \/ op = "INSERT" /\ "insert" \in workload.ops /\ before = Empty /\ after \in Row \cap workload.insert
        \/ op = "UPDATE" /\ before \in Row /\ after \in Row
    <3>1. CASE Does(s, op, t, r, before, after)
      BY <1>0, <3>1 DEF Does
    <3>2. CASE Undoes(s, op, t, r, before, after)
      <4>1. "insert" \notin workload.ops
        BY <3>2 DEF Undoes, UndoInv, UndoKept, SlotsKept
      <4>2. undo[s] # <<>> /\ Len(undo[s]) \in DOMAIN undo[s]
        <5> DEFINE C == ChangeType
                   q == undo[s]
        <5>1. q \in Seq(C) /\ q # <<>>
          BY <1>0, <3>2 DEF Undoes, TypeInv, TxnTypes
        <5> HIDE DEF C, q
        <5>2. Len(q) \in DOMAIN q
          BY <5>1
        <5> QED
          BY <5>1, <5>2 DEF q
      <4> QED
        BY <1>0, <3>2, <4>1, <4>2 DEF Undoes, ListInv
    <3> QED
      BY <1>8, <3>1, <3>2
  <2>3. disk' = disk
    BY <2>0 DEF Moves
  <2>4. rec.op = op /\ rec.before = before /\ rec.table = t /\ rec.rid = r /\ rec.after = after /\ rec.kind = "DATA"
    BY DEF Data
  <2>5. crashes = 0 /\ crashes' = crashes
    BY <1>0, <1>8, <2>1, OthersStay DEF IdInv, recVars
  <2>6. \A i \in DOMAIN log :
          log[i].kind = "DATA" /\ log[i].table = t /\ log[i].rid = r => op = "UPDATE" /\ log[i].op = "UPDATE"
    BY <1>0, <1>8, <2>5, OneKindMore
  <2> HIDE DEF rec
  <2>7. rec \in LogType /\ Empty \notin Row
    BY <2>1, SlotAssumption DEF LogType
  <2>8. /\ \A i \in DOMAIN log' : log'[i] = rec \/ (i \in DOMAIN log /\ log'[i] = log[i])
        /\ \A i \in DOMAIN log : i \in DOMAIN log' /\ log'[i] = log[i]
        /\ \E i \in DOMAIN log' : log'[i] = rec
    BY <1>0, <2>1, <2>7, LongerIs, AppendIs DEF Longer
  <2>9. ASSUME NEW u \in Table, NEW q \in Rid
        PROVE  /\ mem'[u][q] = Empty => disk'[u][q] = Empty
               /\ mem'[u][q] \in Row => disk'[u][q] \in Row \/ InsertedAt(log', u, q)
    <3>1. /\ mem[u][q] = Empty => disk[u][q] = Empty
          /\ mem[u][q] \in Row => disk[u][q] \in Row \/ InsertedAt(log, u, q)
      BY <1>1, <2>5 DEF NearDisk
    <3>2. InsertedAt(log, u, q) => InsertedAt(log', u, q)
      BY <2>8 DEF InsertedAt
    <3>3. CASE u = t /\ q = r
      <4>1. mem'[t][r] = after /\ after # Empty
        BY <2>1, <2>2, <2>7
      <4>2. op = "INSERT" => InsertedAt(log', t, r)
        BY <2>4, <2>8 DEF InsertedAt
      <4>3. op = "UPDATE" => disk[t][r] \in Row
        BY <2>1, <2>2, <2>6, <3>1, <3>3 DEF InsertedAt
      <4> QED
        BY <2>2, <2>3, <3>3, <4>1, <4>2, <4>3
    <3>4. CASE ~ (u = t /\ q = r)
      BY <2>1, <2>3, <3>1, <3>2, <3>4
    <3> QED
      BY <3>3, <3>4
  <2>10. Fits(mem', disk', rec) /\ Stands(mem', rec)
    <3>1. mem'[t][r] = after
      BY <2>1
    <3>2. op = "INSERT" => disk[t][r] = Empty
      BY <1>1, <2>1, <2>2, <2>5 DEF NearDisk
    <3>3. op = "UPDATE" => disk[t][r] \in Row
      BY <1>1, <2>1, <2>2, <2>5, <2>6 DEF NearDisk, InsertedAt
    <3> QED
      BY <2>2, <2>3, <2>4, <3>1, <3>2, <3>3 DEF Fits, Stands
  <2>11. ASSUME NEW i \in DOMAIN log, log[i].kind = "DATA"
         PROVE  Fits(mem', disk', log[i]) /\ Stands(mem', log[i])
    <3>1. Fits(mem, disk, log[i]) /\ Stands(mem, log[i]) /\ log[i].table \in Table /\ log[i].rid \in Rid
      BY <1>1, <1>2, <2>5, <2>11
    <3>2. CASE log[i].table = t /\ log[i].rid = r
      BY <2>1, <2>2, <2>3, <2>6, <2>11, <3>1, <3>2 DEF Fits, Stands
    <3>3. CASE ~ (log[i].table = t /\ log[i].rid = r)
      <4>1. mem'[log[i].table][log[i].rid] = mem[log[i].table][log[i].rid]
        BY <2>1, <3>1, <3>3
      <4> QED
        BY <2>3, <3>1, <4>1 DEF Fits, Stands
    <3> QED
      BY <3>2, <3>3
  <2>12. OneKind(log')
    <3> SUFFICES ASSUME NEW i \in DOMAIN log', NEW j \in DOMAIN log', log'[i].kind = "DATA", log'[j].kind = "DATA",
                        log'[i].table = log'[j].table, log'[i].rid = log'[j].rid
                 PROVE  log'[i].op = log'[j].op
      BY DEF OneKind
    <3> QED
      BY <1>1, <2>4, <2>6, <2>8 DEF OneKind
  <2>13. NearDisk(mem', disk', log')
    BY <2>9 DEF NearDisk
  <2> QED
    BY <2>8, <2>10, <2>11, <2>12, <2>13
<1>9. CASE Crash
  <2>1. mem' = disk /\ disk' = disk /\ log' = log /\ crashes' # 0
    BY <1>0, <1>9 DEF Crash
  <2>2. \A c : Fits(mem, disk, c) => Fits(disk, disk, c)
    BY DEF Fits
  <2> QED
    BY <1>1, <2>1, <2>2
<1>10. CASE RecoverRecord
  <2>1. UNCHANGED <<disk, log, crashes>> /\ crashes # 0
    BY <1>0, <1>10, RecoverDoes DEF IdInv
  <2>2. PICK k, j : Restores(k, j)
    BY <1>10, RecoverRestores
  <2>3. j \in DOMAIN log /\ log[j].kind = "DATA" /\ Fits(mem, disk, log[j])
    BY <1>0, <1>1, <2>2 DEF Restores, Kept
  <2>4. ASSUME NEW i \in DOMAIN log, log[i].kind = "DATA" PROVE Fits(mem', disk, log[i])
    <3>1. Fits(mem, disk, log[i]) /\ log[i].table \in Table /\ log[i].rid \in Rid
      BY <1>1, <1>2, <2>4
    <3>2. mem'[log[i].table][log[i].rid] =
            IF log[i].table = log[j].table /\ log[i].rid = log[j].rid THEN log[j].before
            ELSE mem[log[i].table][log[i].rid]
      BY <2>2, <3>1 DEF Restores
    <3>3. log[i].table = log[j].table /\ log[i].rid = log[j].rid => log[i].op = log[j].op
      BY <1>1, <2>3, <2>4 DEF OneKind
    <3> QED
      BY <2>3, <3>1, <3>2, <3>3 DEF Fits
  <2> QED
    BY <1>1, <2>1, <2>4
<1>11. CASE RecoverFlush
  BY <1>4, <1>11 DEF RecoverFlush
<1>12. CASE MarkLoser
  <2>1. PICK id \in losers : log' = Append(log, Aborted(id))
    BY <1>12 DEF MarkLoser
  <2>2. Aborted(id) \in LogType /\ Aborted(id).kind # "DATA"
    BY <1>0, RecordTypes DEF TypeInv, RecTypes, Aborted
  <2>3. Longer(log', log, Aborted(id))
    BY <2>1 DEF Longer
  <2>4. UNCHANGED <<mem, disk, crashes>>
    BY <1>12 DEF MarkLoser
  <2> QED
    BY <1>5, <2>2, <2>3, <2>4
<1>13. CASE Serve
  BY <1>4, <1>13 DEF Serve, storeVars
<1>14. CASE Quietly
  BY <1>4, <1>14 DEF Quietly, recVars
<1> QED
  BY <1>6, <1>7, <1>8, <1>9, <1>10, <1>11, <1>12, <1>13, <1>14, NextKinds

(* When recovery is through, every slot is as the losers found it.          *)
LEMMA NothingLeft ==
  ASSUME Known, RecInv, process = "recovering", todo = <<>>, NEW t \in Table, NEW r \in Rid
  PROVE  mem[t][r] = Origin(mem, log, Losers, t)[r]
<1> DEFINE ids == Losers
           m == mem
           R == Records(log, ids, t, r)
           f == First(log, ids, t, r)
<1>1. log \in Seq(LogType) /\ Len(log) \in Nat
  BY DEF Known, TypeInv, StoreTypes
<1>2. PICK k \in 0 .. Len(log) : todo = LeftOf(log, ids, k) /\ Restored(m, log, ids, k)
  BY DEF RecInv
<1> HIDE DEF ids, m
<1>3. \A i \in 1 .. k : ~ Kept(log, ids, i)
  <2>1. LastLeft(log, ids, k)
    BY <1>1, LeftIs
  <2> QED
    BY <1>2, <2>1 DEF LastLeft
<1>4. R # {} => m[t][r] = log[f].before
  <2> SUFFICES ASSUME R # {} PROVE m[t][r] = log[f].before
    OBVIOUS
  <2>1. f \in R /\ f \in DOMAIN log
    BY <1>1, FirstIs
  <2>2. Kept(log, ids, f)
    BY <2>1 DEF Records, About, Kept
  <2> HIDE DEF f
  <2>3. f > k
    BY <1>1, <1>3, <2>1, <2>2
  <2> QED
    BY <1>2, <2>3 DEF Restored, f
<1>5. m[t][r] = Origin(m, log, ids, t)[r]
  BY <1>4 DEF Origin
<1> QED
  BY <1>5 DEF m, ids

(* Every step keeps recovery on its way.                                    *)
LEMMA RecInvStep ==
  Known /\ UndoInv /\ IdInv /\ SoleInv /\ DiskInv /\ RecInv /\ [Next]_vars => RecInv'
<1> SUFFICES ASSUME Known, UndoInv, IdInv, SoleInv, DiskInv, RecInv, [Next]_vars PROVE RecInv'
  OBVIOUS
<1>0. TypeInv /\ log \in Seq(LogType) /\ Len(log) \in Nat
  BY DEF Known, TypeInv, StoreTypes
<1>1. ASSUME log' = log PROVE Losers' = Losers
  BY <1>1 DEF Losers, Logged
<1>2. CASE Quietly
  <2>1. /\ UNCHANGED <<mem, log, process, todo, moved>> /\ Losers' = Losers
        /\ \A t \in Table, r \in Rid : disk'[t][r] \in {disk[t][r], mem[t][r]}
    BY <1>1, <1>2 DEF Quietly, recVars
  <2> DEFINE ids == Losers
  <2> HIDE DEF ids
  <2>2. ids' = ids
    BY <2>1 DEF ids
  <2>3. ASSUME process = "recovering"
        PROVE  /\ moved = [r \in Rid |-> r]
               /\ \A t \in Table, r \in Rid : Records(log, ids, t, r) = {} => mem[t][r] = disk'[t][r]
               /\ \E k \in 0 .. Len(log) : todo = LeftOf(log, ids, k) /\ Restored(mem, log, ids, k)
    BY <2>1, <2>3 DEF RecInv, ids
  <2>4. process = "marking" => \A t \in Table, r \in Rid : mem[t][r] = Origin(mem, log, ids, t)[r]
    BY DEF RecInv, ids
  <2> QED
    BY <2>1, <2>3, <2>4 DEF RecInv, ids
<1>3. ASSUME NEW s \in Session, Step(s) PROVE RecInv'
  <2>1. process' = "serving"
    BY <1>0, <1>3, OthersStay DEF recVars
  <2> QED
    BY <2>1 DEF RecInv
<1>4. CASE Crash
  <2>1. /\ mem' = disk /\ disk' = disk /\ log' = log /\ process' = "recovering" /\ moved' = [r \in Rid |-> r]
        /\ todo' = LoserChanges /\ Losers' = Losers
    BY <1>1, <1>4 DEF Crash
  <2> DEFINE ids == Losers
             K == Len(log)
             m == mem'
  <2>2. todo' = LeftOf(log, ids, K)
    BY <2>1 DEF LoserChanges, LeftOf
  <2> HIDE DEF ids, m
  <2>3. ASSUME NEW t \in Table, NEW r \in Rid, Records(log, ids, t, r) # {} PROVE ~ First(log, ids, t, r) > K
    <3>1. First(log, ids, t, r) \in DOMAIN log
      BY <1>0, <2>3, FirstIs
    <3> QED
      BY <1>0, <3>1
  <2>4. Restored(m, log, ids, K)
    BY <2>3 DEF Restored
  <2>5. K \in 0 .. Len(log)
    BY <1>0
  <2>6. \E k \in 0 .. Len(log) : todo' = LeftOf(log, ids, k) /\ Restored(m, log, ids, k)
    BY <2>2, <2>4, <2>5
  <2> QED
    BY <2>1, <2>6 DEF RecInv, ids, m
<1>5. CASE RecoverRecord
  <2>1. UNCHANGED <<disk, log, process>> /\ process = "recovering" /\ Losers' = Losers
    BY <1>0, <1>1, <1>5, RecoverDoes
  <2>2. PICK k, j : Restores(k, j)
    BY <1>5, RecoverRestores
  <2> DEFINE ids == Losers
             m == mem
             n == mem'
  <2>3. /\ k \in 0 .. Len(log) /\ j \in 1 .. k /\ Restored(m, log, ids, k)
        /\ Kept(log, ids, j) /\ \A i \in 1 .. k : j < i => ~ Kept(log, ids, i)
        /\ todo' = LeftOf(log, ids, j - 1) /\ moved' = moved
        /\ \A t \in Table, r \in Rid :
             n[t][r] = IF t = log[j].table /\ r = log[j].rid THEN log[j].before ELSE m[t][r]
    BY <2>2 DEF Restores
  <2>4. \A t \in Table, r \in Rid : Records(log, ids, t, r) = {} => m[t][r] = disk[t][r]
    BY <2>1 DEF RecInv
  <2> HIDE DEF ids, m, n
  <2>5. j \in DOMAIN log /\ j - 1 \in 0 .. Len(log)
    BY <1>0, <2>3
  <2>6. ASSUME NEW t \in Table, NEW r \in Rid, t = log[j].table, r = log[j].rid PROVE j \in Records(log, ids, t, r)
    BY <2>3, <2>5, <2>6 DEF Records, About, Kept
  <2>7. \A t \in Table, r \in Rid : Records(log, ids, t, r) = {} => n[t][r] = disk[t][r]
    BY <2>3, <2>4, <2>6
  <2>8. ASSUME NEW t \in Table, NEW r \in Rid, Records(log, ids, t, r) # {}, First(log, ids, t, r) > j - 1
        PROVE  n[t][r] = log[First(log, ids, t, r)].before
    <3> DEFINE f == First(log, ids, t, r)
    <3>1. f \in Records(log, ids, t, r) /\ f \in DOMAIN log /\ \A i \in Records(log, ids, t, r) : f <= i
      BY <1>0, <2>8, FirstIs
    <3>2. Kept(log, ids, f) /\ log[f].table = t /\ log[f].rid = r
      BY <3>1 DEF Records, About, Kept
    <3> HIDE DEF f
    <3>3. f > j - 1
      BY <2>8 DEF f
    <3>4. f = j \/ f > k
      BY <1>0, <2>3, <3>1, <3>2, <3>3
    <3>5. CASE f = j
      BY <2>3, <3>2, <3>5 DEF f
    <3>6. CASE f > k
      <4>1. m[t][r] = log[f].before
        BY <2>3, <2>8, <3>6 DEF Restored, f
      <4>2. ~ (f <= j)
        BY <1>0, <2>3, <3>1, <3>6
      <4>3. ~ (t = log[j].table /\ r = log[j].rid)
        BY <2>6, <3>1, <4>2
      <4> QED
        BY <2>3, <4>1, <4>3 DEF f
    <3> QED
      BY <3>4, <3>5, <3>6
  <2>9. Restored(n, log, ids, j - 1)
    BY <2>8 DEF Restored
  <2>10. \E i \in 0 .. Len(log) : todo' = LeftOf(log, ids, i) /\ Restored(n, log, ids, i)
    BY <2>3, <2>5, <2>9
  <2>11. moved' = [r \in Rid |-> r]
    BY <2>1, <2>3 DEF RecInv
  <2> QED
    BY <2>1, <2>7, <2>10, <2>11 DEF RecInv, ids, n
<1>6. CASE RecoverFlush
  <2>1. mem' = mem /\ log' = log /\ process' = "marking" /\ process = "recovering" /\ todo = <<>> /\ Losers' = Losers
    BY <1>1, <1>6 DEF RecoverFlush
  <2>2. \A t \in Table, r \in Rid : mem[t][r] = Origin(mem, log, Losers, t)[r]
    BY <2>1, NothingLeft
  <2> QED
    BY <2>1, <2>2 DEF RecInv
<1>7. CASE MarkLoser
  <2>1. PICK id \in losers : log' = Append(log, Aborted(id)) /\ process' = process /\ process = "marking" /\ mem' = mem
    BY <1>7 DEF MarkLoser
  <2>2. Aborted(id) \in LogType /\ Aborted(id).kind = "ABORT" /\ Aborted(id).id = id /\ id \in Losers
    BY <1>0, <2>1, RecordTypes DEF TypeInv, RecTypes, Aborted, IdInv
  <2>3. Longer(log', log, Aborted(id))
    BY <2>1 DEF Longer
  <2>4. Losers' = Losers \ {id}
    BY <1>0, <2>2, <2>3, LosersGrow
  <2> DEFINE L == Losers
             ids == L \ {id}
             m == mem
  <2>5. ASSUME NEW t \in Table, NEW r \in Rid PROVE m[t][r] = Origin(m, log', ids, t)[r]
    <3>1. \/ Records(log, ids, t, r) = {} \/ Records(log, ids, t, r) = Records(log, L, t, r)
      BY <2>2, SoleRecords
    <3>2. m[t][r] = Origin(m, log, L, t)[r]
      BY <2>1 DEF RecInv
    <3> HIDE DEF L, ids, m
    <3>3. Origin(m, log', ids, t) = Origin(m, log, ids, t)
      BY <1>0, <2>2, <2>3, OriginStays
    <3>4. CASE Records(log, ids, t, r) = {}
      BY <3>3, <3>4 DEF Origin
    <3>5. CASE Records(log, ids, t, r) = Records(log, L, t, r)
      BY <3>2, <3>3, <3>5, OriginSame
    <3> QED
      BY <3>1, <3>4, <3>5
  <2>6. ASSUME NEW t \in Table, NEW r \in Rid PROVE mem'[t][r] = Origin(mem', log', Losers', t)[r]
    <3>1. mem' = m /\ Losers' = ids
      BY <2>1, <2>4
    <3> HIDE DEF m, ids
    <3> QED
      BY <2>5, <3>1
  <2> QED
    BY <2>1, <2>6 DEF RecInv
<1>8. CASE Serve
  BY <1>8 DEF Serve, RecInv
<1> QED
  BY <1>2, <1>3, <1>4, <1>5, <1>6, <1>7, <1>8, NextKinds

(* Before a crash a slot that no loser has a record of is on disk.          *)
LEMMA OnDisk ==
  ASSUME Known, IdInv, RecInv, NEW t \in Table, NEW r \in Rid, Records(log, Losers, t, r) = {}
  PROVE  mem[t][r] = disk[t][r]
<1>1. CASE process = "serving"
  <2> SUFFICES ASSUME mem[t][r] # disk[t][r] PROVE FALSE
    OBVIOUS
  <2>1. PICK s \in Session : DirtyWith(s, t, r)
    BY <1>1 DEF Known, ForceInv
  <2>2. txn[s] \in Losers
    BY <1>1, <2>1 DEF DirtyWith, IdInv
  <2>3. PICK i \in DOMAIN log : /\ log[i].kind = "DATA" /\ log[i].id = txn[s]
                                /\ log[i].table = t /\ r \in {log[i].rid, log[i].new}
    BY <2>1 DEF DirtyWith, LoggedBy
  <2>4. log[i].rid = r
    BY <2>3 DEF IdInv
  <2> QED
    BY <2>2, <2>3, <2>4 DEF Records, About
<1>2. CASE process = "recovering"
  BY <1>2 DEF RecInv
<1>3. CASE process = "marking"
  BY <1>3 DEF Known, ForceInv
<1> QED
  BY <1>1, <1>2, <1>3 DEF Known, TypeInv, RecTypes

(* Every step keeps what is stored without the losers equal to what is      *)
(* committed.                                                               *)
LEMMA BaseInvStep ==
  /\ Known /\ UndoInv /\ IdInv /\ OwnInv /\ SoleInv /\ AccInv /\ DiskInv /\ RecInv /\ BaseInv
  /\ [Next]_vars
  => BaseInv'
<1> SUFFICES ASSUME Known, UndoInv, IdInv, OwnInv, SoleInv, AccInv, DiskInv, RecInv, BaseInv, [Next]_vars
             PROVE  BaseInv'
  OBVIOUS
<1>0. TypeInv /\ log \in Seq(LogType) /\ txn \in [Session -> 0 .. MaxBegin]
  BY DEF Known, TypeInv, StoreTypes, TxnTypes
<1>1. ASSUME committed' = committed,
             \A t \in Table, r \in Rid : Origin(mem', log', Losers', t)[r] = Origin(mem, log, Losers, t)[r]
      PROVE  BaseInv'
  <2> SUFFICES ASSUME NEW t \in Table, NEW v \in Row
               PROVE  Stored(Origin(mem', log', Losers', t))[v] = committed'[t][v]
    BY DEF BaseInv
  <2> DEFINE h == Origin(mem', log', Losers', t)
             g == Origin(mem, log, Losers, t)
  <2>1. \A r \in Rid : h[r] = g[r]
    BY <1>1
  <2>2. Stored(g)[v] = committed[t][v]
    BY DEF BaseInv
  <2> HIDE DEF h, g
  <2>3. Stored(h)[v] = Stored(g)[v]
    BY <2>1, StoredSame
  <2> QED
    BY <1>1, <2>2, <2>3 DEF h
<1>2. ASSUME log' = log PROVE Losers' = Losers
  BY <1>2 DEF Losers, Logged
<1>3. ASSUME UNCHANGED <<mem, log, committed>> PROVE BaseInv'
  BY <1>1, <1>2, <1>3
<1>4. CASE Quietly \/ RecoverFlush \/ Serve
  BY <1>3, <1>4 DEF Quietly, RecoverFlush, Serve, storeVars, ghostVars
<1>5. ASSUME NEW s \in Session, Begin(s) PROVE BaseInv'
  <2> DEFINE rec == Begun(nextId)
             ids == Losers'
             jds == Losers
             m == mem
  <2>1. /\ rec \in LogType /\ Longer(log', log, rec) /\ UNCHANGED <<mem, committed>> /\ crashes = 0
    BY <1>5, BeginIs
  <2>2. rec.kind = "BEGIN" /\ rec.id = nextId
    BY DEF Begun
  <2>3. ASSUME NEW t \in Table, NEW r \in Rid PROVE Records(log, ids, t, r) = Records(log, jds, t, r)
    <3>1. \A i \in DOMAIN log : log[i].id # nextId
      <4>1. \A i \in DOMAIN log : log[i].id < nextId /\ log[i].id \in 1 .. MaxBegin
        BY <1>0, <2>1, RecordTypes DEF IdInv
      <4>2. nextId \in 1 .. MaxBegin + 1
        BY DEF Known, TypeInv, TxnTypes
      <4> QED
        BY <4>1, <4>2
    <3>2. ids = jds \cup {nextId}
      <4> HIDE DEF rec
      <4>1. Losers' = Losers \cup {rec.id}
        BY <1>0, <2>1, <2>2, <3>1, LosersGrow
      <4> QED
        BY <2>2, <4>1
    <3> HIDE DEF ids, jds, rec
    <3> QED
      BY <3>1, <3>2 DEF Records, About
  <2> HIDE DEF rec, ids, jds, m
  <2>4. ASSUME NEW t \in Table, NEW r \in Rid PROVE Origin(m, log', ids, t)[r] = Origin(m, log, jds, t)[r]
    <3>1. Origin(m, log', ids, t) = Origin(m, log, ids, t)
      BY <1>0, <2>1, <2>2, OriginStays
    <3>2. Origin(m, log, ids, t)[r] = Origin(m, log, jds, t)[r]
      BY <2>3, OriginSame
    <3> QED
      BY <3>1, <3>2
  <2>5. ASSUME NEW t \in Table, NEW r \in Rid
        PROVE  Origin(mem', log', Losers', t)[r] = Origin(mem, log, Losers, t)[r]
    BY <2>1, <2>4 DEF ids, jds, m
  <2> QED
    BY <1>1, <2>1, <2>5
<1>6. ASSUME NEW s \in Session, Ending(s) PROVE BaseInv'
  BY <1>6, EndBase DEF BaseInv
<1>7. ASSUME NEW s \in Session, Step(s), NEW op, NEW tt, NEW rr, NEW before, NEW after,
             Moves(s, op, tt, rr, before, after)
      PROVE  BaseInv'
  <2> DEFINE rec == Data(txn[s], op, tt, rr, rr, before, after)
             ids == Losers
  <2>1. /\ rec \in DataType /\ Longer(log', log, rec) /\ txn'[s] # 0 /\ txn' = txn /\ committed' = committed
    BY <1>0, <1>7, MovesIs
  <2>2. rec.kind = "DATA"
    BY DEF Data
  <2>3. txn[s] \in ids
    <3>1. process = "serving"
      BY <2>1 DEF Known, RestInv, Resting
    <3> QED
      BY <2>1, <3>1 DEF IdInv
  <2> HIDE DEF rec
  <2>4. Losers' = ids
    BY <1>0, <2>1, <2>2, LosersGrow DEF LogType
  <2> HIDE DEF ids
  <2>5. ASSUME NEW t \in Table, NEW r \in Rid PROVE Origin(mem', log', ids, t)[r] = Origin(mem, log, ids, t)[r]
    BY <1>0, <1>7, <2>3, MovesOrigin
  <2>6. ASSUME NEW t \in Table, NEW r \in Rid
        PROVE  Origin(mem', log', Losers', t)[r] = Origin(mem, log, Losers, t)[r]
    BY <2>4, <2>5 DEF ids
  <2> QED
    BY <1>1, <2>1, <2>6
<1>8. CASE Crash
  <2>1. mem' = disk /\ log' = log /\ committed' = committed
    BY <1>8 DEF Crash, ghostVars
  <2>2. ASSUME NEW t \in Table, NEW r \in Rid
        PROVE  Origin(mem', log', Losers', t)[r] = Origin(mem, log, Losers, t)[r]
    <3> DEFINE ids == Losers
               m == mem
               n == disk
    <3>1. Records(log, ids, t, r) = {} => m[t][r] = n[t][r]
      BY OnDisk
    <3>2. Losers' = ids
      BY <1>2, <2>1
    <3> HIDE DEF ids, m, n
    <3>3. Origin(n, log, ids, t)[r] = Origin(m, log, ids, t)[r]
      BY <3>1 DEF Origin
    <3> QED
      BY <2>1, <3>2, <3>3 DEF ids, m, n
  <2> QED
    BY <1>1, <2>1, <2>2
<1>9. CASE RecoverRecord
  <2>1. log' = log /\ committed' = committed
    BY <1>0, <1>9, RecoverDoes DEF ghostVars
  <2>2. PICK k, j : Restores(k, j)
    BY <1>9, RecoverRestores
  <2>3. ASSUME NEW t \in Table, NEW r \in Rid
        PROVE  Origin(mem', log', Losers', t)[r] = Origin(mem, log, Losers, t)[r]
    <3> DEFINE ids == Losers
               m == mem
               n == mem'
    <3>1. /\ k \in 0 .. Len(log) /\ j \in 1 .. k /\ Kept(log, ids, j)
          /\ n[t][r] = IF t = log[j].table /\ r = log[j].rid THEN log[j].before ELSE m[t][r]
      BY <2>2 DEF Restores
    <3>2. Losers' = ids
      BY <1>2, <2>1
    <3> HIDE DEF ids, m, n
    <3>3. t = log[j].table /\ r = log[j].rid => Records(log, ids, t, r) # {}
      <4>1. j \in DOMAIN log
        BY <1>0, <3>1
      <4> QED
        BY <3>1, <4>1 DEF Records, About, Kept
    <3>4. Origin(n, log, ids, t)[r] = Origin(m, log, ids, t)[r]
      BY <3>1, <3>3 DEF Origin
    <3> QED
      BY <2>1, <3>2, <3>4 DEF ids, m, n
  <2> QED
    BY <1>1, <2>1, <2>3
<1>10. CASE MarkLoser
  <2>1. process = "marking" /\ process' = "marking" /\ mem' = mem /\ committed' = committed
    BY <1>10 DEF MarkLoser, ghostVars
  <2>2. RecInv'
    BY RecInvStep
  <2>3. ASSUME NEW t \in Table, NEW r \in Rid
        PROVE  Origin(mem', log', Losers', t)[r] = Origin(mem, log, Losers, t)[r]
    <3>1. mem[t][r] = Origin(mem, log, Losers, t)[r]
      BY <2>1 DEF RecInv
    <3>2. mem'[t][r] = Origin(mem', log', Losers', t)[r]
      BY <2>1, <2>2 DEF RecInv
    <3> QED
      BY <2>1, <3>1, <3>2
  <2> QED
    BY <1>1, <2>1, <2>3
<1> QED
  BY <1>4, <1>5, <1>6, <1>7, <1>8, <1>9, <1>10, NextKinds DEF Does, Undoes

-----------------------------------------------------------------------------
(* The whole of it.                                                         *)
RecoveryInv ==
  Known /\ UndoInv /\ IdInv /\ OwnInv /\ SoleInv /\ AccInv /\ DiskInv /\ ListInv /\ RecInv /\ BaseInv

(* Every step keeps it.                                                     *)
LEMMA RecoveryInvStep == RecoveryInv /\ [Next]_vars => RecoveryInv'
BY KnownStep, UndoInvStep, IdInvStep, OwnInvStep, SoleInvStep, AccInvStep, DiskInvStep, ListInvStep, RecInvStep,
   BaseInvStep DEF RecoveryInv

(* It holds at first.                                                       *)
LEMMA InitRecoveryInv == Init /\ FixedLength /\ UndoKept => RecoveryInv
BY KnownInit, InitUndoInv, InitIdInv, InitLogInvs, InitRecovery DEF RecoveryInv

(* When there are no losers, only what is committed is stored.              *)
LEMMA NoLosers ==
  ASSUME RecoveryInv, Losers = {}, NEW t \in Table, NEW v \in Row
  PROVE  Stored(mem[t])[v] = committed[t][v]
<1> DEFINE ids == Losers
           m == mem
           h == mem[t]
           g == Origin(m, log, ids, t)
<1>1. Stored(g)[v] = committed[t][v]
  BY DEF RecoveryInv, BaseInv
<1>2. ASSUME NEW r \in Rid PROVE h[r] = g[r]
  <2>1. Records(log, ids, t, r) = {}
    BY DEF Records, About
  <2> HIDE DEF ids, m
  <2>2. g[r] = m[t][r]
    BY <2>1 DEF Origin
  <2> QED
    BY <2>2 DEF m
<1> HIDE DEF g, h
<1>3. Stored(h)[v] = Stored(g)[v]
  BY <1>2, StoredSame
<1> QED
  BY <1>1, <1>3 DEF h

(* When nothing runs there is no loser, and nothing but what is committed.  *)
LEMMA QuietIsCommitted == RecoveryInv => AllOrNothing
<1> SUFFICES ASSUME RecoveryInv, Quiet, NEW t \in Table PROVE Stored(mem[t]) = committed[t]
  BY DEF AllOrNothing
<1>1. Losers = {}
  BY DEF RecoveryInv, IdInv, Quiet
<1>2. \A v \in Row : Stored(mem[t])[v] = committed[t][v]
  BY <1>1, NoLosers
<1>3. committed[t] \in [Row -> Int] /\ Stored(mem[t]) \in [Row -> Int]
  BY StoredType DEF RecoveryInv, Known, TypeInv, GhostTypes
<1> QED
  BY <1>2, <1>3

(* A transaction leaves all of its changes or none, whichever statements    *)
(* failed, whenever the process crashed and whatever had reached the disk.  *)
THEOREM AllOrNothingAlways == Spec /\ FixedLength /\ UndoKept => []AllOrNothing
<1>1. Init /\ FixedLength /\ UndoKept => RecoveryInv
  BY InitRecoveryInv
<1>2. RecoveryInv /\ [Next]_vars => RecoveryInv'
  BY RecoveryInvStep
<1>3. RecoveryInv => AllOrNothing
  BY QuietIsCommitted
<1> QED
  BY <1>1, <1>2, <1>3, PTL DEF Spec

-----------------------------------------------------------------------------
(* The changes of all undo lists as one.                                    *)
Flat(u) == [c \in UNION {{<<s, i>> : i \in DOMAIN u[s]} : s \in Session} |-> u[c[1]][c[2]]]

(* They are what is pending.                                                *)
LEMMA PendingIs ==
  /\ AllChanges = DOMAIN Flat(undo)
  /\ \A t, v : Pending(t, v) = Came(Flat(undo), t, v) - Went(Flat(undo), t, v)
<1>1. AllChanges = DOMAIN Flat(undo) /\ \A c \in AllChanges : Flat(undo)[c] = undo[c[1]][c[2]]
  BY DEF AllChanges, Flat
<1> DEFINE F == Flat(undo)
           D == AllChanges
<1>2. D = DOMAIN F /\ \A c \in D : F[c] = undo[c[1]][c[2]]
  BY <1>1
<1>3. ASSUME NEW t, NEW v PROVE Pending(t, v) = Came(F, t, v) - Went(F, t, v)
  <2> DEFINE A == {c \in D : undo[c[1]][c[2]].table = t /\ undo[c[1]][c[2]].after = v}
             B == {c \in D : undo[c[1]][c[2]].table = t /\ undo[c[1]][c[2]].before = v}
             G == {c \in DOMAIN F : F[c].table = t /\ F[c].after = v}
             H == {c \in DOMAIN F : F[c].table = t /\ F[c].before = v}
  <2>1. A = G /\ B = H
    <3> HIDE DEF F, D
    <3> QED
      BY <1>2
  <2>2. Pending(t, v) = Cardinality(A) - Cardinality(B)
    BY DEF Pending
  <2> HIDE DEF F
  <2>3. Came(F, t, v) = Cardinality(G) /\ Went(F, t, v) = Cardinality(H)
    BY DEF Came, Went
  <2> HIDE DEF A, B, G, H
  <2> QED
    BY <2>1, <2>2, <2>3
<1> QED
  BY <1>1, <1>3

(* One list grows by one change.                                            *)
LEMMA FlatOneMore ==
  ASSUME NEW u, NEW w, NEW s \in Session, NEW c, OneMore(w[s], u[s], c),
         \A x \in Session \ {s} : w[x] = u[x], IsFiniteSet(DOMAIN Flat(u))
  PROVE  OneMore(Flat(w), Flat(u), c)
<1>1. PICK i \in DOMAIN w[s] : DOMAIN u[s] = DOMAIN w[s] \ {i} /\ w[s][i] = c /\ \A j \in DOMAIN u[s] : u[s][j] = w[s][j]
  BY DEF OneMore
<1> DEFINE x == <<s, i>>
<1>2. DOMAIN Flat(w) = UNION {{<<a, j>> : j \in DOMAIN w[a]} : a \in Session}
      /\ DOMAIN Flat(u) = UNION {{<<a, j>> : j \in DOMAIN u[a]} : a \in Session}
  BY DEF Flat
<1>3. x \in DOMAIN Flat(w)
  BY <1>1, <1>2
<1>4. DOMAIN Flat(u) = DOMAIN Flat(w) \ {x}
  <2>1. ASSUME NEW d \in DOMAIN Flat(u) PROVE d \in DOMAIN Flat(w) /\ d # x
    <3>1. PICK a \in Session : d \in {<<a, j>> : j \in DOMAIN u[a]}
      BY <1>2, <2>1
    <3>2. PICK j \in DOMAIN u[a] : d = <<a, j>>
      BY <3>1
    <3>3. j \in DOMAIN w[a] /\ ~ (a = s /\ j = i)
      BY <1>1
    <3> QED
      BY <1>2, <3>2, <3>3
  <2>2. ASSUME NEW d \in DOMAIN Flat(w), d # x PROVE d \in DOMAIN Flat(u)
    <3>1. PICK a \in Session : d \in {<<a, j>> : j \in DOMAIN w[a]}
      BY <1>2, <2>2
    <3>2. PICK j \in DOMAIN w[a] : d = <<a, j>>
      BY <3>1
    <3>3. j \in DOMAIN u[a]
      BY <1>1, <2>2, <3>2
    <3> QED
      BY <1>2, <3>2, <3>3
  <2> QED
    BY <2>1, <2>2
<1>5. Flat(w)[x] = c
  BY <1>1, <1>2, <1>3 DEF Flat
<1>6. ASSUME NEW d \in DOMAIN Flat(u) PROVE Flat(u)[d] = Flat(w)[d]
  <2>1. PICK a \in Session : d \in {<<a, j>> : j \in DOMAIN u[a]}
    BY <1>2, <1>6
  <2>2. PICK j \in DOMAIN u[a] : d = <<a, j>>
    BY <2>1
  <2>3. Flat(u)[d] = u[a][j] /\ Flat(w)[d] = w[a][j]
    BY <1>4, <1>6, <2>2 DEF Flat
  <2>4. u[a][j] = w[a][j]
    BY <1>1
  <2> QED
    BY <2>3, <2>4
<1> HIDE DEF x
<1> QED
  BY <1>3, <1>4, <1>5, <1>6 DEF OneMore

(* As many pairs as there are things in them.                               *)
LEMMA Tagged ==
  ASSUME NEW I, IsFiniteSet(I), NEW s
  PROVE  IsFiniteSet({<<s, i>> : i \in I}) /\ Cardinality({<<s, i>> : i \in I}) = Cardinality(I)
<1> DEFINE T == {<<s, i>> : i \in I}
           f == [i \in I |-> <<s, i>>]
<1>1. f \in [I -> T] /\ (\A a, b \in I : f[a] = f[b] => a = b) /\ \A t \in T : \E i \in I : f[i] = t
  OBVIOUS
<1> HIDE DEF f, T
<1>2. ExistsBijection(I, T)
  BY <1>1 DEF ExistsBijection, Bijection, Injection, Surjection, IsInjective
<1>3. IsFiniteSet(T) /\ Cardinality(T) = Cardinality(I)
  BY <1>2, FS_Bijection
<1> QED
  BY <1>3 DEF T

(* The changes f are those of g and those of the list q, tagged.            *)
Joined(f, g, q, s) ==
  /\ IsFiniteSet(DOMAIN g) /\ IsFiniteSet(DOMAIN q)
  /\ DOMAIN f = DOMAIN g \cup {<<s, i>> : i \in DOMAIN q}
  /\ \A i \in DOMAIN q : <<s, i>> \notin DOMAIN g /\ f[<<s, i>>] = q[i]
  /\ \A d \in DOMAIN g : f[d] = g[d]

(* What they count is counted together.                                     *)
LEMMA JoinedCounts ==
  ASSUME NEW f, NEW g, NEW q, NEW s, Joined(f, g, q, s), NEW t, NEW v
  PROVE  /\ Came(f, t, v) = Came(g, t, v) + Came(q, t, v)
         /\ Went(f, t, v) = Went(g, t, v) + Went(q, t, v)
<1>1. ASSUME NEW P, NEW Q, P \subseteq DOMAIN g, Q \subseteq DOMAIN q
      PROVE  Cardinality(P \cup {<<s, i>> : i \in Q}) = Cardinality(P) + Cardinality(Q)
  <2> DEFINE T == {<<s, i>> : i \in Q}
  <2>1. IsFiniteSet(P) /\ IsFiniteSet(Q)
    BY <1>1, FS_Subset DEF Joined
  <2>2. IsFiniteSet(T) /\ Cardinality(T) = Cardinality(Q)
    BY <2>1, Tagged
  <2>3. P \cap T = {}
    BY <1>1 DEF Joined
  <2> HIDE DEF T
  <2>4. Cardinality(P \cup T) = Cardinality(P) + Cardinality(T) - Cardinality({})
    BY <2>1, <2>2, <2>3, FS_Union
  <2>5. Cardinality({}) = 0 /\ Cardinality(P) \in Nat /\ Cardinality(T) \in Nat
    BY <2>1, <2>2, FS_EmptySet, FS_CardinalityType
  <2>6. Cardinality(P \cup T) = Cardinality(P) + Cardinality(Q)
    BY <2>2, <2>4, <2>5
  <2> QED
    BY <2>6 DEF T
<1> DEFINE A == {d \in DOMAIN g : g[d].table = t /\ g[d].after = v}
           B == {i \in DOMAIN q : q[i].table = t /\ q[i].after = v}
           C == {d \in DOMAIN g : g[d].table = t /\ g[d].before = v}
           D == {i \in DOMAIN q : q[i].table = t /\ q[i].before = v}
<1>2. /\ {d \in DOMAIN f : f[d].table = t /\ f[d].after = v} = A \cup {<<s, i>> : i \in B}
      /\ {d \in DOMAIN f : f[d].table = t /\ f[d].before = v} = C \cup {<<s, i>> : i \in D}
  BY DEF Joined
<1>3. Cardinality(A \cup {<<s, i>> : i \in B}) = Cardinality(A) + Cardinality(B)
  BY <1>1
<1>4. Cardinality(C \cup {<<s, i>> : i \in D}) = Cardinality(C) + Cardinality(D)
  BY <1>1
<1> QED
  BY <1>2, <1>3, <1>4 DEF Came, Went

(* One list is emptied.                                                     *)
LEMMA FlatJoined ==
  ASSUME NEW u, NEW w, NEW s \in Session, w[s] = <<>>, \A x \in Session \ {s} : w[x] = u[x],
         IsFiniteSet(DOMAIN Flat(u)), IsFiniteSet(DOMAIN u[s])
  PROVE  IsFiniteSet(DOMAIN Flat(w)) /\ Joined(Flat(u), Flat(w), u[s], s)
<1>1. DOMAIN Flat(w) = UNION {{<<a, j>> : j \in DOMAIN w[a]} : a \in Session}
      /\ DOMAIN Flat(u) = UNION {{<<a, j>> : j \in DOMAIN u[a]} : a \in Session}
  BY DEF Flat
<1>2. DOMAIN w[s] = {}
  OBVIOUS
<1>3. ASSUME NEW d \in DOMAIN Flat(w) PROVE d \in DOMAIN Flat(u) /\ d[1] # s /\ Flat(u)[d] = Flat(w)[d]
  <2>1. PICK a \in Session : d \in {<<a, j>> : j \in DOMAIN w[a]}
    BY <1>1, <1>3
  <2>2. PICK j \in DOMAIN w[a] : d = <<a, j>>
    BY <2>1
  <2>3. a # s /\ j \in DOMAIN u[a] /\ w[a] = u[a]
    BY <1>2
  <2>4. d \in DOMAIN Flat(u)
    BY <1>1, <2>2, <2>3
  <2> QED
    BY <1>3, <2>2, <2>3, <2>4 DEF Flat
<1>4. ASSUME NEW i \in DOMAIN u[s] PROVE <<s, i>> \in DOMAIN Flat(u) /\ Flat(u)[<<s, i>>] = u[s][i]
  <2>1. <<s, i>> \in DOMAIN Flat(u)
    BY <1>1
  <2> QED
    BY <2>1 DEF Flat
<1>5. ASSUME NEW d \in DOMAIN Flat(u), d \notin DOMAIN Flat(w) PROVE d \in {<<s, i>> : i \in DOMAIN u[s]}
  <2>1. PICK a \in Session : d \in {<<a, j>> : j \in DOMAIN u[a]}
    BY <1>1, <1>5
  <2>2. a = s
    BY <1>1, <1>5, <2>1
  <2> QED
    BY <2>1, <2>2
<1>6. DOMAIN Flat(u) = DOMAIN Flat(w) \cup {<<s, i>> : i \in DOMAIN u[s]}
  BY <1>3, <1>4, <1>5
<1>7. IsFiniteSet(DOMAIN Flat(w))
  BY <1>3, FS_Subset
<1>8. \A i \in DOMAIN u[s] : <<s, i>> \notin DOMAIN Flat(w)
  BY <1>3
<1> QED
  BY <1>3, <1>4, <1>6, <1>7, <1>8 DEF Joined

-----------------------------------------------------------------------------
(* At every moment the undo lists say what is stored beyond what is         *)
(* committed.                                                               *)
PendInv == IsFiniteSet(DOMAIN Flat(undo)) /\ UndoListsExplainTables

(* Empty lists say nothing.                                                 *)
LEMMA NothingPending ==
  ASSUME \A s \in Session : undo[s] = <<>>
  PROVE  IsFiniteSet(DOMAIN Flat(undo)) /\ \A t, v : Pending(t, v) = 0
<1>1. DOMAIN Flat(undo) = {}
  BY DEF Flat
<1> DEFINE f == Flat(undo)
<1>2. ASSUME NEW t, NEW v PROVE Came(f, t, v) = 0 /\ Went(f, t, v) = 0
  <2> DEFINE A == {i \in DOMAIN f : f[i].table = t /\ f[i].after = v}
             B == {i \in DOMAIN f : f[i].table = t /\ f[i].before = v}
  <2>1. A = {} /\ B = {}
    BY <1>1
  <2>2. Cardinality(A) = 0 /\ Cardinality(B) = 0
    BY <2>1, FS_EmptySet
  <2> HIDE DEF f
  <2> QED
    BY <2>2 DEF Came, Went
<1>3. \A t, v : Pending(t, v) = Came(f, t, v) - Went(f, t, v)
  BY PendingIs
<1> QED
  BY <1>1, <1>2, <1>3, FS_EmptySet

(* Every step keeps the account of the undo lists.                          *)
LEMMA PendInvStep == RecoveryInv /\ PendInv /\ [Next]_vars => PendInv'
<1> SUFFICES ASSUME RecoveryInv, PendInv, [Next]_vars PROVE PendInv'
  OBVIOUS
<1> DEFINE f == Flat(undo)
           g == Flat(undo')
<1>0. /\ Known /\ UndoInv /\ IdInv /\ TypeInv /\ undo \in [Session -> Seq(ChangeType)]
      /\ committed \in [Table -> [Row -> Int]] /\ IsFiniteSet(DOMAIN f)
  BY DEF RecoveryInv, Known, TypeInv, TxnTypes, GhostTypes, PendInv
<1>1. /\ \A t, v : Pending(t, v) = Came(f, t, v) - Went(f, t, v)
      /\ \A t, v : Pending(t, v)' = Came(g, t, v) - Went(g, t, v)
  <2>1. \A t, v : Pending(t, v) = Came(Flat(undo), t, v) - Went(Flat(undo), t, v)
    BY PendingIs
  <2>2. (\A t, v : Pending(t, v) = Came(Flat(undo), t, v) - Went(Flat(undo), t, v))'
    BY PendingIs, PTL
  <2> QED
    BY <2>1, <2>2
<1>2. process = "serving" =>
        \A t \in Table, v \in Row : Stored(mem[t])[v] = committed[t][v] + Came(f, t, v) - Went(f, t, v)
  <2> HIDE DEF f
  <2>1. ASSUME process = "serving", NEW t \in Table, NEW v \in Row
        PROVE  Stored(mem[t])[v] = committed[t][v] + (Came(f, t, v) - Went(f, t, v))
    BY <1>1, <2>1 DEF PendInv, UndoListsExplainTables
  <2> QED
    BY <2>1
<1>3. ASSUME IsFiniteSet(DOMAIN g),
             process' = "serving" =>
               \A t \in Table, v \in Row : Stored(mem'[t])[v] = committed'[t][v] + Came(g, t, v) - Went(g, t, v)
      PROVE  PendInv'
  BY <1>1, <1>3 DEF PendInv, UndoListsExplainTables
<1>4. ASSUME UNCHANGED <<mem, undo, committed>>, process' # "serving" \/ process = "serving" PROVE PendInv'
  BY <1>0, <1>2, <1>3, <1>4
<1>5. CASE Quietly
  BY <1>4, <1>5 DEF Quietly, recVars
<1>6. ASSUME NEW s \in Session, Begin(s) PROVE PendInv'
  <2>1. process = "serving" /\ UNCHANGED <<mem, undo, committed>>
    BY <1>0, <1>6, BeginIs
  <2> QED
    BY <1>4, <2>1
<1>7. CASE RecoverFlush \/ MarkLoser
  BY <1>4, <1>7 DEF RecoverFlush, MarkLoser, txnVars, ghostVars
<1>8. ASSUME NEW p, NEW q, NEW c, OneMore(p, q, c), NEW t, NEW v
      PROVE  /\ Came(p, t, v) = Came(q, t, v) + Is(<<c.table, c.after>>, <<t, v>>)
             /\ Went(p, t, v) = Went(q, t, v) + Is(<<c.table, c.before>>, <<t, v>>)
             /\ Came(p, t, v) \in Nat /\ Came(q, t, v) \in Nat /\ Went(p, t, v) \in Nat /\ Went(q, t, v) \in Nat
  BY <1>8, CountsOne
<1>9. ASSUME NEW s \in Session, Step(s), NEW op, NEW tt, NEW rr, NEW before, NEW after,
             Does(s, op, tt, rr, before, after)
      PROVE  PendInv'
  <2> DEFINE c == Change(op, tt, rr, before, after)
             C == ChangeType
             u == undo
             w == undo'
  <2>1. /\ c \in C /\ tt \in Table /\ committed' = committed /\ txn[s] # 0
        /\ undo' = [undo EXCEPT ![s] = Append(@, c)]
    BY <1>0, <1>9, MovesIs DEF Does
  <2>2. c.table = tt /\ c.before = before /\ c.after = after
    BY DEF Change
  <2>3. process = "serving"
    BY <1>0, <2>1 DEF Known, RestInv, Resting
  <2>4. OneMore(w[s], u[s], c)
    <3> DEFINE q == u[s]
               p == w[s]
    <3>1. q \in Seq(C)
      BY <1>0
    <3>2. p = Append(q, c)
      BY <1>0, <2>1
    <3> HIDE DEF p, q, c
    <3>3. Longer(p, q, c)
      BY <3>2 DEF Longer
    <3>4. OneMore(p, q, c)
      BY <2>1, <3>1, <3>3, ChangeAdded
    <3> QED
      BY <3>4 DEF p, q
  <2>5. \A x \in Session \ {s} : w[x] = u[x]
    BY <1>0, <2>1
  <2> HIDE DEF u, w, c
  <2>6. OneMore(Flat(w), Flat(u), c)
    BY <1>0, <2>4, <2>5, FlatOneMore DEF u
  <2>7. OneMore(g, f, c)
    BY <2>6 DEF u, w
  <2> HIDE DEF f, g
  <2>8. IsFiniteSet(DOMAIN g)
    <3>1. PICK i \in DOMAIN g : DOMAIN f = DOMAIN g \ {i}
      BY <2>7 DEF OneMore
    <3>2. DOMAIN g = DOMAIN f \cup {i}
      BY <3>1
    <3> DEFINE F == DOMAIN f
    <3>3. IsFiniteSet(F)
      BY <1>0 DEF f
    <3> HIDE DEF F
    <3>4. IsFiniteSet(F \cup {i})
      BY <3>3, FS_AddElement
    <3> QED
      BY <3>2, <3>4 DEF F
  <2>9. ASSUME NEW t \in Table, NEW v \in Row
        PROVE  Stored(mem'[t])[v] = committed'[t][v] + Came(g, t, v) - Went(g, t, v)
    <3>1. /\ Stored(mem'[t])[v] + Is(<<tt, before>>, <<t, v>>) = Stored(mem[t])[v] + Is(<<tt, after>>, <<t, v>>)
          /\ Stored(mem'[t])[v] \in Nat /\ Stored(mem[t])[v] \in Nat
      BY <1>0, <1>9, MovesStored DEF Does
    <3>2. /\ Came(g, t, v) = Came(f, t, v) + Is(<<tt, after>>, <<t, v>>)
          /\ Went(g, t, v) = Went(f, t, v) + Is(<<tt, before>>, <<t, v>>)
          /\ Came(g, t, v) \in Nat /\ Came(f, t, v) \in Nat /\ Went(g, t, v) \in Nat /\ Went(f, t, v) \in Nat
      BY <1>8, <2>2, <2>7
    <3>3. Stored(mem[t])[v] = committed[t][v] + Came(f, t, v) - Went(f, t, v) /\ committed[t][v] \in Int
      BY <1>0, <1>2, <2>3
    <3>4. Is(<<tt, after>>, <<t, v>>) \in Nat /\ Is(<<tt, before>>, <<t, v>>) \in Nat
      BY DEF Is
    <3> DEFINE M == Stored(mem'[t])[v]
               N == Stored(mem[t])[v]
               I == Is(<<tt, after>>, <<t, v>>)
               O == Is(<<tt, before>>, <<t, v>>)
               A == Came(f, t, v)
               B == Went(f, t, v)
               X == Came(g, t, v)
               Y == Went(g, t, v)
               K == committed[t][v]
    <3>5. /\ M + O = N + I /\ X = A + I /\ Y = B + O /\ N = K + A - B
          /\ M \in Nat /\ N \in Nat /\ I \in Nat /\ O \in Nat /\ A \in Nat /\ B \in Nat /\ X \in Nat /\ Y \in Nat /\ K \in Int
      BY <3>1, <3>2, <3>3, <3>4
    <3> HIDE DEF M, N, I, O, A, B, X, Y, K
    <3>6. M = K + X - Y
      BY <3>5
    <3> QED
      BY <2>1, <3>6 DEF M, K, X, Y
  <2> QED
    BY <1>3, <2>8, <2>9 DEF g
<1>10. ASSUME NEW s \in Session, Step(s), NEW op, NEW tt, NEW rr, NEW before, NEW after,
              Undoes(s, op, tt, rr, before, after)
       PROVE  PendInv'
  <2> DEFINE c == undo[s][Len(undo[s])]
             u == undo
             w == undo'
  <2>1. /\ tt \in Table /\ committed' = committed /\ txn[s] # 0
    BY <1>0, <1>10, MovesIs DEF Undoes
  <2>2. c.table = tt /\ c.before = after /\ c.after = before
    BY <1>10 DEF Undoes
  <2>3. process = "serving"
    BY <1>0, <2>1 DEF Known, RestInv, Resting
  <2>4. OneMore(u[s], w[s], c)
    <3> DEFINE q == u[s]
               p == w[s]
    <3>1. q \in Seq(ChangeType) /\ q # <<>>
      BY <1>0, <1>10 DEF Undoes
    <3>2. Shorter(p, q)
      BY <1>0, <1>10, UndoneIs DEF Undoes
    <3> HIDE DEF p, q
    <3>3. OneMore(q, p, q[Len(q)])
      BY <3>1, <3>2, ChangeTaken
    <3> QED
      BY <3>3 DEF p, q
  <2>5. \A x \in Session \ {s} : u[x] = w[x]
    BY <1>0, <1>10 DEF Undoes, Undone
  <2>6. IsFiniteSet(DOMAIN g)
    <3>1. DOMAIN g \subseteq DOMAIN f
      <4>1. \A x \in Session : DOMAIN w[x] \subseteq DOMAIN u[x]
        BY <2>4, <2>5 DEF OneMore
      <4> QED
        BY <4>1 DEF Flat
    <3> QED
      BY <1>0, <3>1, FS_Subset
  <2> HIDE DEF u, w, c
  <2>7. OneMore(f, g, c)
    <3>1. OneMore(Flat(u), Flat(w), c)
      BY <2>4, <2>5, <2>6, FlatOneMore DEF w
    <3> QED
      BY <3>1 DEF u, w
  <2> HIDE DEF f, g
  <2>9. ASSUME NEW t \in Table, NEW v \in Row
        PROVE  Stored(mem'[t])[v] = committed'[t][v] + Came(g, t, v) - Went(g, t, v)
    <3>1. /\ Stored(mem'[t])[v] + Is(<<tt, before>>, <<t, v>>) = Stored(mem[t])[v] + Is(<<tt, after>>, <<t, v>>)
          /\ Stored(mem'[t])[v] \in Nat /\ Stored(mem[t])[v] \in Nat
      <4>1. Moves(s, op, tt, rr, before, after)
        BY <1>10 DEF Undoes
      <4> QED
        BY <1>0, <4>1, MovesStored
    <3>2. /\ Came(f, t, v) = Came(g, t, v) + Is(<<tt, before>>, <<t, v>>)
          /\ Went(f, t, v) = Went(g, t, v) + Is(<<tt, after>>, <<t, v>>)
          /\ Came(g, t, v) \in Nat /\ Came(f, t, v) \in Nat /\ Went(g, t, v) \in Nat /\ Went(f, t, v) \in Nat
      BY <1>8, <2>2, <2>7
    <3>3. Stored(mem[t])[v] = committed[t][v] + Came(f, t, v) - Went(f, t, v) /\ committed[t][v] \in Int
      BY <1>0, <1>2, <2>3
    <3>4. Is(<<tt, after>>, <<t, v>>) \in Nat /\ Is(<<tt, before>>, <<t, v>>) \in Nat
      BY DEF Is
    <3> DEFINE M == Stored(mem'[t])[v]
               N == Stored(mem[t])[v]
               I == Is(<<tt, after>>, <<t, v>>)
               O == Is(<<tt, before>>, <<t, v>>)
               A == Came(f, t, v)
               B == Went(f, t, v)
               X == Came(g, t, v)
               Y == Went(g, t, v)
               K == committed[t][v]
    <3>5. /\ M + O = N + I /\ A = X + O /\ B = Y + I /\ N = K + A - B
          /\ M \in Nat /\ N \in Nat /\ I \in Nat /\ O \in Nat /\ A \in Nat /\ B \in Nat /\ X \in Nat /\ Y \in Nat /\ K \in Int
      BY <3>1, <3>2, <3>3, <3>4
    <3> HIDE DEF M, N, I, O, A, B, X, Y, K
    <3>6. M = K + X - Y
      BY <3>5
    <3> QED
      BY <2>1, <3>6 DEF M, K, X, Y
  <2> QED
    BY <1>3, <2>6, <2>9 DEF g
<1>11. ASSUME NEW s \in Session, Ending(s) PROVE PendInv'
  <2> DEFINE q == undo[s]
             u == undo
             w == undo'
  <2>1. /\ process = "serving" /\ mem' = mem /\ undo' = [undo EXCEPT ![s] = <<>>]
        /\ committed' = Changed(committed, q) \/ (committed' = committed /\ q = <<>>)
    BY <1>0, <1>11, EndIs
  <2>2. w[s] = <<>> /\ \A x \in Session \ {s} : w[x] = u[x]
    BY <1>0, <2>1
  <2>3. IsFiniteSet(DOMAIN u[s])
    <3> DEFINE C == ChangeType
               p == u[s]
    <3>1. p \in Seq(C)
      BY <1>0
    <3> HIDE DEF C, p
    <3>2. DOMAIN p = 1 .. Len(p) /\ Len(p) \in Nat
      BY <3>1
    <3>3. IsFiniteSet(DOMAIN p)
      BY <3>2, FS_Interval
    <3> QED
      BY <3>3 DEF p
  <2>4. IsFiniteSet(DOMAIN g) /\ Joined(f, g, q, s)
    <3> HIDE DEF u, w
    <3>1. IsFiniteSet(DOMAIN Flat(w)) /\ Joined(Flat(u), Flat(w), u[s], s)
      BY <1>0, <2>2, <2>3, FlatJoined DEF u
    <3> QED
      BY <3>1 DEF u, w
  <2>5. ASSUME NEW t \in Table, NEW v \in Row
        PROVE  committed'[t][v] = committed[t][v] + Came(q, t, v) - Went(q, t, v)
    <3>1. CASE committed' = Changed(committed, q)
      BY <3>1 DEF Changed, Came, Went
    <3>2. CASE committed' = committed /\ q = <<>>
      <4>1. Came(q, t, v) = 0 /\ Went(q, t, v) = 0 /\ committed[t][v] \in Int
        BY <1>0, <3>2, CountsNone
      <4> QED
        BY <3>2, <4>1
    <3> QED
      BY <2>1, <3>1, <3>2
  <2> HIDE DEF f, g
  <2>6. ASSUME NEW t \in Table, NEW v \in Row
        PROVE  Stored(mem'[t])[v] = committed'[t][v] + Came(g, t, v) - Went(g, t, v)
    <3>1. Came(f, t, v) = Came(g, t, v) + Came(q, t, v) /\ Went(f, t, v) = Went(g, t, v) + Went(q, t, v)
      <4> HIDE DEF q
      <4> QED
        BY <2>4, JoinedCounts
    <3>2. Came(q, t, v) \in Nat /\ Went(q, t, v) \in Nat
      BY <1>0, CountsAre
    <3>3. Came(g, t, v) \in Nat /\ Went(g, t, v) \in Nat
      BY <2>4, FS_Subset, FS_CardinalityType DEF Came, Went
    <3>4. Stored(mem[t])[v] = committed[t][v] + Came(f, t, v) - Went(f, t, v) /\ committed[t][v] \in Int
      BY <1>0, <1>2, <2>1
    <3>5. committed'[t][v] = committed[t][v] + Came(q, t, v) - Went(q, t, v)
      BY <2>5
    <3> DEFINE N == Stored(mem[t])[v]
               I == Came(q, t, v)
               O == Went(q, t, v)
               A == Came(f, t, v)
               B == Went(f, t, v)
               X == Came(g, t, v)
               Y == Went(g, t, v)
               K == committed[t][v]
               L == committed'[t][v]
    <3>6. /\ A = X + I /\ B = Y + O /\ N = K + A - B /\ L = K + I - O
          /\ I \in Nat /\ O \in Nat /\ X \in Nat /\ Y \in Nat /\ K \in Int
      BY <3>1, <3>2, <3>3, <3>4, <3>5
    <3> HIDE DEF N, I, O, A, B, X, Y, K, L
    <3>7. N = L + X - Y
      BY <3>6
    <3> QED
      BY <2>1, <3>7 DEF N, L, X, Y
  <2> QED
    BY <1>3, <2>4, <2>6 DEF g
<1>12. ASSUME \A s \in Session : undo'[s] = <<>>,
              process' = "serving" => \A t \in Table, v \in Row : Stored(mem'[t])[v] = committed'[t][v]
       PROVE  PendInv'
  <2>1. (\A s \in Session : undo[s] = <<>>)' => (IsFiniteSet(DOMAIN Flat(undo)) /\ \A t, v : Pending(t, v) = 0)'
    <3>1. (\A s \in Session : undo[s] = <<>>) => (IsFiniteSet(DOMAIN Flat(undo)) /\ \A t, v : Pending(t, v) = 0)
      BY NothingPending
    <3>2. ((\A s \in Session : undo[s] = <<>>) => (IsFiniteSet(DOMAIN Flat(undo)) /\ \A t, v : Pending(t, v) = 0))'
      BY NothingPending, PTL
    <3> QED
      BY <3>2
  <2>2. IsFiniteSet(DOMAIN Flat(undo')) /\ \A t, v : Pending(t, v)' = 0
    BY <1>12, <2>1
  <2>3. committed' \in [Table -> [Row -> Int]]
    BY <1>0, TypeInvStep DEF TypeInv, GhostTypes
  <2> QED
    BY <1>12, <2>2, <2>3 DEF PendInv, UndoListsExplainTables
<1>13. CASE Crash
  <2>1. process' # "serving" /\ \A s \in Session : undo'[s] = <<>>
    BY <1>13 DEF Crash
  <2> QED
    BY <1>12, <2>1
<1>14. CASE RecoverRecord
  <2>1. process' # "serving" /\ process # "serving" /\ undo' = undo
    BY <1>0, <1>14, RecoverDoes DEF txnVars
  <2> QED
    BY <1>0, <1>12, <2>1 DEF Known, RestInv, Resting
<1>15. CASE Serve
  <2>1. process = "marking" /\ losers = {} /\ UNCHANGED <<mem, undo, committed>>
    BY <1>15 DEF Serve, storeVars, txnVars, ghostVars
  <2>2. Losers = {}
    BY <1>0, <2>1 DEF IdInv
  <2>3. \A t \in Table, v \in Row : Stored(mem[t])[v] = committed[t][v]
    BY <2>2, NoLosers
  <2>4. \A s \in Session : undo[s] = <<>>
    BY <1>0, <2>1 DEF Known, RestInv, Resting
  <2> QED
    BY <1>12, <2>1, <2>3, <2>4
<1> QED
  BY <1>0, <1>5, <1>6, <1>7, <1>9, <1>10, <1>11, <1>13, <1>14, <1>15, NextKinds

(* At first nothing is pending.                                             *)
LEMMA InitPendInv == Init /\ FixedLength => PendInv
<1> SUFFICES ASSUME Init, FixedLength PROVE PendInv
  OBVIOUS
<1>1. \A s \in Session : undo[s] = <<>>
  BY DEF Init
<1>2. IsFiniteSet(DOMAIN Flat(undo)) /\ \A t, v : Pending(t, v) = 0
  BY <1>1, NothingPending
<1>3. mem = workload.initial /\ committed = [t \in Table |-> Stored(workload.initial[t])]
  BY DEF Init
<1>4. committed \in [Table -> [Row -> Int]]
  BY InitTypeInv DEF TypeInv, GhostTypes
<1> QED
  BY <1>2, <1>3, <1>4 DEF PendInv, UndoListsExplainTables

(* At every moment the rows stored are the committed ones plus what the     *)
(* undo lists of the running transactions say they changed: no list misses  *)
(* a change, or undoes one twice.                                           *)
THEOREM UndoListsAlwaysExplain == Spec /\ FixedLength /\ UndoKept => []UndoListsExplainTables
<1>1. Init /\ FixedLength /\ UndoKept => RecoveryInv /\ PendInv
  BY InitRecoveryInv, InitPendInv
<1>2. RecoveryInv /\ PendInv /\ [Next]_vars => (RecoveryInv /\ PendInv)'
  BY RecoveryInvStep, PendInvStep
<1>3. PendInv => UndoListsExplainTables
  BY DEF PendInv
<1> QED
  BY <1>1, <1>2, <1>3, PTL DEF Spec
=============================================================================
