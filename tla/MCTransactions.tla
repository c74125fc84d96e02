--------------------------- MODULE MCTransactions ---------------------------
(* Transactions on a few slots: workloads on tables that hold some rows,    *)
(* with free slots around them or without any.                              *)
EXTENDS Transactions, TLC

CONSTANTS rowA, rowB, rowC

Fill(f) == [t \in Table |-> [r \in Rid |-> IF r \in DOMAIN f THEN f[r] ELSE Empty]]

(* One update of a row a to b, in a transaction that may be interrupted.    *)
Base ==
  [ops |-> {"update"}, where |-> {{rowA}}, insert |-> {rowB}, update |-> {rowB},
   initial |-> Fill(2 :> rowA), moves |-> FALSE, fails |-> FALSE,
   begins |-> 1, stmts |-> 1, dies |-> 1, serves |-> 1]

-----------------------------------------------------------------------------
(* Recovery.                                                                *)

TwoWriters ==
  [Base EXCEPT !.ops = {"insert", "delete", "update"}, !.where = {{rowA}, {rowC}},
               !.initial = Fill(2 :> rowA @@ 3 :> rowC), !.begins = 2, !.stmts = 2]

(* The process dies again and again, also while it recovers.                *)
DyingOften == [TwoWriters EXCEPT !.ops = {"insert", "update"}, !.dies = 3]

(* Transactions abort, and the process dies while they do.                  *)
DyingInAborts ==
  [Base EXCEPT !.where = {{rowA, rowB}}, !.update = {rowA, rowB}, !.initial = Fill(2 :> rowA @@ 3 :> rowB),
               !.fails = TRUE, !.begins = 2, !.stmts = 2, !.dies = 3]

RecoveryWorkloads == {TwoWriters, DyingOften, DyingInAborts}

-----------------------------------------------------------------------------
(* Isolation and aborts, while the process lives.                           *)

Alive == [Base EXCEPT !.where = {{rowA, rowB}}, !.fails = TRUE, !.dies = 0]

Readers == [Alive EXCEPT !.ops = {"select", "insert", "update"}, !.begins = 2, !.stmts = 2]

(* No slot is ever free: a deleted row can only come back where it was.     *)
FullTable ==
  [Alive EXCEPT !.ops = {"select", "delete", "update"}, !.where = {{rowA}}, !.update = {rowA, rowB},
                !.initial = Fill([r \in Rid |-> IF r = 1 THEN rowA ELSE rowB]),
                !.begins = 2, !.stmts = 2]

(* One client, whose updates move rows to other slots.                      *)
MovingRows ==
  [Alive EXCEPT !.ops = {"insert", "update"}, !.update = {rowA, rowB}, !.moves = TRUE, !.stmts = 3]

IsolationWorkloads == {Readers, FullTable, MovingRows}

-----------------------------------------------------------------------------
(* Workloads that break what the code promises.                             *)

(* DELETE of two rows, then an abort.                                       *)
AbortsDeletes ==
  {[Base EXCEPT !.ops = {"delete"}, !.where = {{rowA, rowB}}, !.initial = Fill(2 :> rowA @@ 3 :> rowB),
                !.fails = TRUE, !.dies = 0]}

(* UPDATE and DELETE of one row, then a crash.                              *)
UpdatesAndDeletes ==
  {[Base EXCEPT !.ops = {"delete", "update"}, !.where = {{rowA, rowB}}, !.stmts = 2]}

(* DELETE, a crash, and another one while recovery runs.                    *)
RecoversTwice == {[Base EXCEPT !.ops = {"delete"}, !.dies = 2]}

(* A process that serves clients after recovery, and dies like the first.   *)
ServesAgain == {[Base EXCEPT !.dies = 2, !.serves = 2]}

(* The same RIDs in two tables.                                             *)
TwoTables == {[Base EXCEPT !.ops = {"delete", "update"}, !.stmts = 2]}

(* An update that moves its row, then a crash.                              *)
MovesAndDies == {[Base EXCEPT !.moves = TRUE]}

(* A slot is emptied by a DELETE and filled by an INSERT of another         *)
(* transaction while a SELECT waits for its lock.                           *)
ReusesSlots ==
  {[Base EXCEPT !.ops = {"select", "insert", "delete"}, !.begins = 3, !.dies = 0]}

(* A scan meets a row, and again where an update has moved it.              *)
MovesUnderScans ==
  {[Base EXCEPT !.ops = {"select", "update"}, !.moves = TRUE, !.begins = 2, !.dies = 0]}

Symmetric == Permutations(Session)
=============================================================================
