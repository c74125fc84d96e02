------------------------------ MODULE RowLocks ------------------------------
(***************************************************************************)
(* What the engine relies on from its lock manager, without threads,       *)
(* waiting or wake-ups: a table of row locks.  A transaction collects      *)
(* locks that are compatible with everybody else's, may turn a shared lock *)
(* into an exclusive one, and gives back everything at once when it ends   *)
(* (strict two-phase locking).  LockManager is shown to implement this.    *)
(***************************************************************************)
EXTENDS Naturals

CONSTANTS Txn, Resource

VARIABLES
  mode,   \* the lock each transaction has on each resource
  ended   \* transactions that gave their locks back

rowVars == <<mode, ended>>

Free == "none"

Init ==
  /\ mode = [r \in Resource |-> [t \in Txn |-> Free]]
  /\ ended = {}

Conflict(m, n) == m # Free /\ n # Free /\ (m = "X" \/ n = "X")

(* Strengthen only: a free or shared lock becomes m.                        *)
Take(t, r, m) ==
  /\ t \notin ended
  /\ mode[r][t] # "X" /\ mode[r][t] # m
  /\ \A u \in Txn \ {t} : ~ Conflict(m, mode[r][u])
  /\ mode' = [mode EXCEPT ![r][t] = m]
  /\ UNCHANGED ended

End(t) ==
  /\ t \notin ended
  /\ mode' = [r \in Resource |-> [mode[r] EXCEPT ![t] = Free]]
  /\ ended' = ended \cup {t}

Next ==
  \E t \in Txn :
    \/ \E r \in Resource, m \in {"S", "X"} : Take(t, r, m)
    \/ End(t)

Spec == Init /\ [][Next]_rowVars
=============================================================================
