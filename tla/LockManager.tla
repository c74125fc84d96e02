---------------------------- MODULE LockManager ----------------------------
(***************************************************************************)
(* The strict two-phase lock manager (src/src/transaction/lock_manager.py).*)
(*                                                                         *)
(* Every method of LockManager runs under one condition variable, so what  *)
(* happens between two waits of a thread is one atomic step: one round of  *)
(* the loop of acquire().  A thread that goes to sleep inside acquire() is *)
(* "asleep"; notify_all() or its timer make it "awake", and it then runs   *)
(* another round with the request it left in `waiting'.                    *)
(*                                                                         *)
(* A transaction belongs to one thread, so it has at most one request      *)
(* outstanding.  Transaction ids are never reused by a running process,    *)
(* so a transaction that released its locks has ended.                     *)
(***************************************************************************)
EXTENDS Naturals, FiniteSets

CONSTANTS Txn,        \* transaction ids
          Resource    \* lock names (rid_resource: one per row)

VARIABLES
  holders,    \* _holders: who holds each resource, and in which mode
  heldByTxn,  \* _held_by_txn: the resources each transaction holds
  waiting,    \* _waiting: the request each transaction is blocked on
  timed,      \* local variable of acquire(): was a timeout given?
  pc          \* where the transaction's thread is

lockVars == <<holders, heldByTxn, waiting, timed, pc>>

NoMode == "none"
LockMode == {"S", "X"}

TypeOK ==
  /\ holders \in [Resource -> [Txn -> LockMode \cup {NoMode}]]
  /\ heldByTxn \in [Txn -> SUBSET Resource]
  /\ waiting \in [Txn -> [Resource -> LockMode \cup {NoMode}]]
  /\ timed \in [Txn -> BOOLEAN]
  /\ pc \in [Txn -> {"running", "asleep", "awake", "aborting", "ended"}]

Init ==
  /\ holders = [r \in Resource |-> [t \in Txn |-> NoMode]]
  /\ heldByTxn = [t \in Txn |-> {}]
  /\ waiting = [t \in Txn |-> [r \in Resource |-> NoMode]]
  /\ timed = [t \in Txn |-> FALSE]
  /\ pc = [t \in Txn |-> "running"]

-----------------------------------------------------------------------------
(* The wait-for graph.  The operators take the tables as arguments because  *)
(* acquire() searches the graph after it has recorded its own request.      *)

(* A bug: an upgrade looks at exclusive holders only.                       *)
BlockersExclusiveOnly(hold, t, r, m) == {u \in Txn \ {t} : hold[r][u] = "X"}

(* _blockers: the other holders of r whose mode conflicts with m.           *)
Blockers(hold, t, r, m) ==
  {u \in Txn \ {t} : hold[r][u] # NoMode /\ (m = "X" \/ hold[r][u] = "X")}

(* The edges _has_cycle follows out of t: the blockers of its requests.     *)
WaitsFor(hold, wait, t) ==
  UNION {Blockers(hold, t, r, wait[t][r]) :
            r \in {q \in Resource : wait[t][q] # NoMode}}

(* A bug: only two transactions that wait for each other are found.         *)
HasCycleOfTwo(hold, wait, t) ==
  \E u \in WaitsFor(hold, wait, t) : t \in WaitsFor(hold, wait, u)

(* A bug: whoever would wait for a waiting transaction is a victim.         *)
HasCycleChain(hold, wait, t) ==
  \E u \in WaitsFor(hold, wait, t) : WaitsFor(hold, wait, u) # {}

(* _has_cycle(t): the depth-first search closes a path that starts at t.    *)
(* Stated as a fixed point: some set with t in it where everybody waits for *)
(* a member of the set.  CycleSearch compares it with the recursion.        *)
HasCycle(hold, wait, t) ==
  \E S \in SUBSET Txn : /\ t \in S
                        /\ \A x \in S : WaitsFor(hold, wait, x) \cap S # {}

(* Everybody t waits for, directly or through others (used to state what a  *)
(* deadlock victim is, the code has no such set).                           *)
WaitsForPlus(hold, wait, t) ==
  {u \in Txn : \A R \in SUBSET Txn :
      (/\ WaitsFor(hold, wait, t) \subseteq R
       /\ \A x \in R : WaitsFor(hold, wait, x) \subseteq R) => u \in R}

-----------------------------------------------------------------------------
(* One round of the loop in acquire(), for the request (t, r, m).           *)

Wanting(t, r, m) == [waiting EXCEPT ![t][r] = m]
NotWanting(t, r) == [waiting EXCEPT ![t][r] = NoMode]

(* The lock is held already, in this mode or in exclusive mode: return.     *)
AlreadyHeld(t, r, m) ==
  /\ holders[r][t] = "X" \/ holders[r][t] = m
  /\ pc' = [pc EXCEPT ![t] = "running"]
  /\ UNCHANGED <<holders, heldByTxn, waiting, timed>>

(* A bug: a shared request of an exclusive holder is granted once more.     *)
NotHeldInMode(t, r, m) == holders[r][t] # m

NotHeld(t, r, m) == holders[r][t] # "X" /\ holders[r][t] # m

(* Nobody is in the way: the lock is granted (or upgraded).                 *)
Grant(t, r, m) ==
  /\ NotHeld(t, r, m)
  /\ Blockers(holders, t, r, m) = {}
  /\ holders' = [holders EXCEPT ![r][t] = m]
  /\ heldByTxn' = [heldByTxn EXCEPT ![t] = @ \cup {r}]
  /\ waiting' = NotWanting(t, r)
  /\ pc' = [pc EXCEPT ![t] = "running"]
  /\ UNCHANGED timed

(* A bug: the victim leaves its request behind.                             *)
DeadlockKeepsRequest(t, r, m) ==
  /\ NotHeld(t, r, m)
  /\ Blockers(holders, t, r, m) # {}
  /\ HasCycle(holders, Wanting(t, r, m), t)
  /\ waiting' = Wanting(t, r, m)
  /\ pc' = [pc EXCEPT ![t] = "aborting"]
  /\ UNCHANGED <<holders, heldByTxn, timed>>

(* Waiting would close a cycle: DeadlockError.  The engine aborts the       *)
(* transaction, which ends in release_all.                                  *)
Deadlock(t, r, m) ==
  /\ NotHeld(t, r, m)
  /\ Blockers(holders, t, r, m) # {}
  /\ HasCycle(holders, Wanting(t, r, m), t)
  /\ waiting' = NotWanting(t, r)
  /\ pc' = [pc EXCEPT ![t] = "aborting"]
  /\ UNCHANGED <<holders, heldByTxn, timed>>

(* The deadline has passed: LockTimeoutError, the transaction goes on.      *)
TimedOut(t, r, m, tm) ==
  /\ tm
  /\ NotHeld(t, r, m)
  /\ Blockers(holders, t, r, m) # {}
  /\ ~ HasCycle(holders, Wanting(t, r, m), t)
  /\ waiting' = NotWanting(t, r)
  /\ pc' = [pc EXCEPT ![t] = "running"]
  /\ UNCHANGED <<holders, heldByTxn, timed>>

(* Wait on the condition, until notified or until the timeout.              *)
Sleep(t, r, m, tm) ==
  /\ NotHeld(t, r, m)
  /\ Blockers(holders, t, r, m) # {}
  /\ ~ HasCycle(holders, Wanting(t, r, m), t)
  /\ waiting' = Wanting(t, r, m)
  /\ timed' = [timed EXCEPT ![t] = tm]
  /\ pc' = [pc EXCEPT ![t] = "asleep"]
  /\ UNCHANGED <<holders, heldByTxn>>

Attempt(t, r, m, tm) ==
  \/ AlreadyHeld(t, r, m)
  \/ Grant(t, r, m)
  \/ Deadlock(t, r, m)
  \/ TimedOut(t, r, m, tm)
  \/ Sleep(t, r, m, tm)

(* A call of acquire(): its first round.                                    *)
Acquire(t, r, m, tm) == pc[t] = "running" /\ Attempt(t, r, m, tm)

(* A thread woken up in acquire(): the next round with the same request.    *)
Resume(t) ==
  /\ pc[t] = "awake"
  /\ \E r \in Resource, m \in LockMode :
        waiting[t][r] = m /\ Attempt(t, r, m, timed[t])

(* The condition's wait(remaining) returns because the time is over.        *)
TimerExpires(t) ==
  /\ pc[t] = "asleep" /\ timed[t]
  /\ pc' = [pc EXCEPT ![t] = "awake"]
  /\ UNCHANGED <<holders, heldByTxn, waiting, timed>>

(* Bugs: nobody, or only one of the sleepers, is notified.                  *)
NotifiedNobody(p, t) == [p EXCEPT ![t] = "ended"]

NotifiedOne(p, t) ==
  LET first == CHOOSE u \in Txn : p[u] = "asleep" \/ \A v \in Txn : p[v] # "asleep"
  IN [u \in Txn |-> IF u = t THEN "ended"
                    ELSE IF u = first /\ p[u] = "asleep" THEN "awake" ELSE p[u]]

(* notify_all(): every thread asleep on the condition wakes up.             *)
Notified(p, t) ==
  [u \in Txn |-> IF u = t THEN "ended" ELSE IF p[u] = "asleep" THEN "awake" ELSE p[u]]

(* A bug: the entry of a resource goes with its first holder.               *)
ReleaseAllDropsEntry(t) ==
  /\ pc[t] \in {"running", "aborting"}
  /\ holders' = [r \in Resource \ heldByTxn[t] |-> holders[r]]
  /\ heldByTxn' = [heldByTxn EXCEPT ![t] = {}]
  /\ UNCHANGED waiting
  /\ pc' = Notified(pc, t)
  /\ UNCHANGED timed

(* release_all(t): at the end of commit() or abort().                       *)
ReleaseAll(t) ==
  /\ pc[t] \in {"running", "aborting"}
  /\ holders' = [r \in Resource |->
        IF r \in heldByTxn[t] THEN [holders[r] EXCEPT ![t] = NoMode] ELSE holders[r]]
  /\ heldByTxn' = [heldByTxn EXCEPT ![t] = {}]
  /\ waiting' = [waiting EXCEPT ![t] = [r \in Resource |-> NoMode]]
  /\ pc' = Notified(pc, t)
  /\ UNCHANGED timed

Next ==
  \E t \in Txn :
    \/ \E r \in Resource, m \in LockMode, tm \in BOOLEAN : Acquire(t, r, m, tm)
    \/ Resume(t)
    \/ TimerExpires(t)
    \/ ReleaseAll(t)

Spec == Init /\ [][Next]_lockVars

(* Threads that are awake get to run, and every transaction that keeps      *)
(* getting the chance to end does end: an implicit transaction ends with    *)
(* its statement, an explicit one with END or with an error.                *)
Fairness == \A t \in Txn : WF_lockVars(Resume(t)) /\ SF_lockVars(ReleaseAll(t))

FairSpec == Spec /\ Fairness

-----------------------------------------------------------------------------
(* Safety.                                                                  *)

(* The two views of who holds what agree (release_all walks _held_by_txn,   *)
(* acquire reads _holders), and _waiting holds a request exactly while its  *)
(* thread is inside acquire(), for a lock it lacks: an entry left behind    *)
(* would be an edge of the wait-for graph that nobody waits on.             *)
TablesAgree ==
  \A t \in Txn :
    /\ heldByTxn[t] = {r \in Resource : holders[r][t] # NoMode}
    /\ pc[t] \in {"asleep", "awake"} => \E r \in Resource : waiting[t][r] # NoMode
    /\ \A r \in Resource : waiting[t][r] # NoMode =>
          /\ pc[t] \in {"asleep", "awake"}
          /\ NotHeld(t, r, waiting[t][r])
          /\ \A q \in Resource : waiting[t][q] # NoMode => q = r

(* An exclusive holder is alone, whatever mix of grants, upgrades of shared *)
(* locks, timeouts and releases led there.                                  *)
Compatible ==
  \A r \in Resource : \A t, u \in Txn :
    t # u /\ holders[r][t] = "X" => holders[r][u] = NoMode

(* No set of transactions is ever blocked on itself: the search at each     *)
(* wait refuses the last edge of every cycle, also of the cycle of two      *)
(* shared holders that both upgrade, and no grant adds an edge that closes  *)
(* one behind the back of the threads already asleep.                       *)
Stuck(S) == \A t \in S : WaitsFor(holders, waiting, t) \cap S # {}

NoDeadlock == \A S \in SUBSET Txn : Stuck(S) => S = {}

(* A thread asleep in acquire() is still blocked: every release that could  *)
(* let it in has woken it (there is no queue and no targeted notify, a      *)
(* missing notify_all() would leave it asleep with the lock free).          *)
NoLostWakeup ==
  \A t \in Txn : pc[t] = "asleep" => WaitsFor(holders, waiting, t) # {}

(* Only a transaction that would wait for itself is made a victim: a search *)
(* that meets somebody else's cycle must not abort the bystander.           *)
VictimOnCycle ==
  \A t \in Txn :
    pc'[t] = "aborting" /\ pc[t] # "aborting" =>
      \E r \in Resource, m \in LockMode :
        t \in WaitsForPlus(holders, Wanting(t, r, m), t)

VictimsAreGuilty == [][VictimOnCycle]_lockVars

(* The lock manager implements strict two-phase row locks: grants and       *)
(* upgrades only strengthen a lock, all locks go together, at the end.      *)
Locks == INSTANCE RowLocks WITH
           mode <- holders, ended <- {t \in Txn : pc[t] = "ended"}

ImplementsRowLocks == Locks!Spec

-----------------------------------------------------------------------------
(* Liveness: every request ends (granted, refused or timed out), although   *)
(* a woken thread may find the lock taken by a later request.               *)
WaitsEnd ==
  \A t \in Txn : pc[t] \in {"asleep", "awake"} ~> pc[t] \notin {"asleep", "awake"}
=============================================================================
