------------------------- MODULE LockManager_proofs -------------------------
(***************************************************************************)
(* Proofs about the lock manager, for any sets of transactions and rows.   *)
(* All of it rests on one inductive invariant, the conjunction of the      *)
(* invariants that TLC checks on three transactions and three rows.        *)
(***************************************************************************)
EXTENDS LockManager, TLAPS

IInv == TypeOK /\ TablesAgree /\ Compatible /\ NoDeadlock /\ NoLostWakeup

(* Edges(t): the wait-for edges out of t in the current state.              *)
Edges(t) == WaitsFor(holders, waiting, t)

-----------------------------------------------------------------------------
(* The wait-for graph when one entry of one of the tables changes.          *)

(* What a blocked transaction waits for, member by member.                  *)
LEMMA EdgeMembers ==
  ASSUME NEW hold, NEW wait, NEW x, NEW u
  PROVE  u \in WaitsFor(hold, wait, x) <=>
           /\ u \in Txn /\ u # x
           /\ \E r \in Resource :
                /\ wait[x][r] # NoMode
                /\ hold[r][u] # NoMode
                /\ wait[x][r] = "X" \/ hold[r][u] = "X"
BY DEF WaitsFor, Blockers

(* A transaction without a request waits for nobody.                        *)
LEMMA NoRequestNoEdge ==
  ASSUME NEW hold, NEW wait, NEW x, \A r \in Resource : wait[x][r] = NoMode
  PROVE  WaitsFor(hold, wait, x) = {}
BY EdgeMembers

(* The edges of a transaction depend on its own requests only.              *)
LEMMA OwnRequestsOnly ==
  ASSUME NEW hold, NEW wait, NEW wait2, NEW x, wait[x] = wait2[x]
  PROVE  WaitsFor(hold, wait, x) = WaitsFor(hold, wait2, x)
BY DEF WaitsFor

(* If nobody but t gains an edge, and t gains none that closes a cycle      *)
(* through t, then there is still no deadlock.                              *)
LEMMA NoNewDeadlock ==
  ASSUME NoDeadlock, NEW t \in Txn,
         \A x \in Txn \ {t} : Edges(x)' \subseteq Edges(x) \cup {t},
         \A S \in SUBSET Txn : ~ (t \in S /\ \A x \in S : Edges(x)' \cap S # {})
  PROVE  NoDeadlock'
<1> SUFFICES ASSUME NEW S \in SUBSET Txn, Stuck(S)'
             PROVE  S = {}
  BY DEF NoDeadlock
<1>1. \A x \in S : Edges(x)' \cap S # {}
  BY DEF Stuck, Edges
<1>2. t \notin S
  BY <1>1
<1>3. \A x \in S : Edges(x) \cap S # {}
  BY <1>1, <1>2
<1> QED
  BY <1>3 DEF NoDeadlock, Stuck, Edges

-----------------------------------------------------------------------------
(* The initial state.                                                       *)

LEMMA InitIInv == Init => IInv
<1> SUFFICES ASSUME Init PROVE IInv
  OBVIOUS
<1>1. TypeOK /\ TablesAgree /\ Compatible
  BY DEF Init, TypeOK, TablesAgree, Compatible, NoMode, LockMode
<1>2. \A t \in Txn : Edges(t) = {}
  BY NoRequestNoEdge DEF Init, Edges
<1>3. NoDeadlock
  BY <1>2 DEF NoDeadlock, Stuck, Edges
<1>4. NoLostWakeup
  BY DEF NoLostWakeup, Init
<1> QED
  BY <1>1, <1>3, <1>4 DEF IInv

-----------------------------------------------------------------------------
(* One round of acquire().  Ready(t, r, m): the thread of t is at the       *)
(* start of a round for its request (r, m).                                 *)

Ready(t, r, m) ==
  \/ pc[t] = "running"
  \/ pc[t] = "awake" /\ waiting[t][r] = m

(* Only the requested resource can have an entry in the thread's requests.  *)
LEMMA ReadyRequests ==
  ASSUME IInv, NEW t \in Txn, NEW r \in Resource, NEW m \in LockMode, Ready(t, r, m)
  PROVE  /\ \A q \in Resource : q # r => waiting[t][q] = NoMode
         /\ pc[t] = "running" => waiting[t][r] = NoMode
BY DEF IInv, TypeOK, TablesAgree, Ready, NoMode, LockMode

LEMMA StutterKeeps ==
  ASSUME IInv, UNCHANGED lockVars
  PROVE  IInv'
<1> USE DEF lockVars, IInv
<1>1. TypeOK' /\ TablesAgree' /\ Compatible'
  BY DEF TypeOK, TablesAgree, Compatible, NotHeld
<1>2. NoDeadlock' /\ NoLostWakeup'
  BY DEF NoDeadlock, Stuck, NoLostWakeup
<1> QED
  BY <1>1, <1>2

LEMMA AlreadyHeldKeeps ==
  ASSUME IInv, NEW t \in Txn, NEW r \in Resource, NEW m \in LockMode,
         Ready(t, r, m), AlreadyHeld(t, r, m)
  PROVE  IInv'
<1>1. pc[t] = "running"
  BY DEF Ready, AlreadyHeld, IInv, TablesAgree, NotHeld, LockMode, NoMode
<1>2. UNCHANGED lockVars
  BY <1>1 DEF AlreadyHeld, IInv, TypeOK, lockVars
<1> QED
  BY <1>2, StutterKeeps

(* The round ends without a lock: the request is gone, nothing else moved.  *)
LEMMA GiveUpKeeps ==
  ASSUME IInv, NEW t \in Txn, NEW r \in Resource, NEW m \in LockMode,
         Ready(t, r, m),
         waiting' = NotWanting(t, r),
         pc' = [pc EXCEPT ![t] = "running"] \/ pc' = [pc EXCEPT ![t] = "aborting"],
         UNCHANGED <<holders, heldByTxn, timed>>
  PROVE  IInv'
<1> USE DEF IInv
<1>1. \A q \in Resource : waiting'[t][q] = NoMode
  BY ReadyRequests DEF TypeOK, NotWanting
<1>2. \A x \in Txn \ {t} : waiting'[x] = waiting[x] /\ pc'[x] = pc[x]
  BY DEF TypeOK, NotWanting
<1>3. TypeOK'
  BY DEF TypeOK, NotWanting, NoMode
<1>4. TablesAgree'
  BY <1>1, <1>2 DEF TypeOK, TablesAgree, NotHeld
<1>5. Compatible'
  BY DEF Compatible
<1>6. Edges(t)' = {} /\ \A x \in Txn \ {t} : Edges(x)' = Edges(x)
  BY <1>1, <1>2, NoRequestNoEdge, OwnRequestsOnly DEF Edges
<1>7. NoDeadlock'
  BY <1>6, NoNewDeadlock
<1>8. NoLostWakeup'
  BY <1>2, <1>6 DEF NoLostWakeup, Edges, TypeOK
<1> QED
  BY <1>3, <1>4, <1>5, <1>7, <1>8

LEMMA GrantKeeps ==
  ASSUME IInv, NEW t \in Txn, NEW r \in Resource, NEW m \in LockMode,
         Ready(t, r, m), Grant(t, r, m)
  PROVE  IInv'
<1> USE DEF IInv
<1>1. \A q \in Resource : waiting'[t][q] = NoMode
  BY ReadyRequests DEF TypeOK, NotWanting, Grant
<1>2. \A x \in Txn \ {t} : waiting'[x] = waiting[x] /\ pc'[x] = pc[x]
  BY DEF TypeOK, NotWanting, Grant
<1>3. TypeOK'
  BY DEF TypeOK, NotWanting, Grant, NoMode
<1>4. \A q \in Resource, x \in Txn :
        holders'[q][x] = IF q = r /\ x = t THEN m ELSE holders[q][x]
  BY DEF TypeOK, Grant
<1>5. TablesAgree'
  BY <1>1, <1>2, <1>4 DEF TypeOK, TablesAgree, NotHeld, Grant, NoMode, LockMode
<1>6. Compatible'
  <2>1. \A u \in Txn \ {t} : holders[r][u] = NoMode \/ (m # "X" /\ holders[r][u] # "X")
    BY DEF Grant, Blockers
  <2> QED
    BY <1>4, <2>1 DEF Compatible, LockMode, NoMode
<1>7. Edges(t)' = {}
  BY <1>1, NoRequestNoEdge DEF Edges
<1>8. \A x \in Txn \ {t} : Edges(x)' \subseteq Edges(x) \cup {t}
  BY <1>2, <1>4, EdgeMembers DEF Edges
<1>9. NoDeadlock'
  BY <1>7, <1>8, NoNewDeadlock
<1>10. \A x \in Txn \ {t} : Edges(x) \subseteq Edges(x)'
  <2> SUFFICES ASSUME NEW x \in Txn \ {t}, NEW u \in Edges(x) PROVE u \in Edges(x)'
    OBVIOUS
  <2>1. PICK q \in Resource : /\ waiting[x][q] # NoMode /\ holders[q][u] # NoMode
                              /\ waiting[x][q] = "X" \/ holders[q][u] = "X"
    BY EdgeMembers DEF Edges
  <2>2. u \in Txn /\ u # x
    BY EdgeMembers DEF Edges
  <2>3. /\ waiting'[x][q] # NoMode /\ holders'[q][u] # NoMode
        /\ waiting'[x][q] = "X" \/ holders'[q][u] = "X"
    BY <1>2, <1>4, <2>1, <2>2 DEF Grant, NotHeld, LockMode, NoMode
  <2> QED
    BY <2>2, <2>3, EdgeMembers DEF Edges
<1>11. NoLostWakeup'
  BY <1>2, <1>10 DEF NoLostWakeup, Edges, TypeOK, Grant
<1> QED
  BY <1>3, <1>5, <1>6, <1>9, <1>11

LEMMA SleepKeeps ==
  ASSUME IInv, NEW t \in Txn, NEW r \in Resource, NEW m \in LockMode, NEW tm \in BOOLEAN,
         Ready(t, r, m), Sleep(t, r, m, tm)
  PROVE  IInv'
<1> USE DEF IInv
<1>1. /\ waiting'[t][r] = m
      /\ \A q \in Resource : q # r => waiting'[t][q] = NoMode
  BY ReadyRequests DEF TypeOK, Wanting, Sleep
<1>2. \A x \in Txn \ {t} : waiting'[x] = waiting[x] /\ pc'[x] = pc[x]
  BY DEF TypeOK, Wanting, Sleep
<1>3. TypeOK'
  BY DEF TypeOK, Wanting, Sleep, NoMode
<1>4. TablesAgree'
  BY <1>1, <1>2 DEF TypeOK, TablesAgree, NotHeld, Sleep, NoMode, LockMode
<1>5. Compatible'
  BY DEF Compatible, Sleep
<1>6. \A x \in Txn \ {t} : Edges(x)' = Edges(x)
  BY <1>2, OwnRequestsOnly DEF Edges, Sleep
<1>7. \A S \in SUBSET Txn : ~ (t \in S /\ \A x \in S : Edges(x)' \cap S # {})
  BY DEF Sleep, HasCycle, Edges
<1>8. NoDeadlock'
  BY <1>6, <1>7, NoNewDeadlock
<1>9. Edges(t)' # {}
  <2>1. PICK u \in Blockers(holders, t, r, m) : TRUE
    BY DEF Sleep
  <2>2. u \in Edges(t)'
    BY <1>1, <2>1, EdgeMembers DEF Edges, Blockers, Sleep, LockMode, NoMode
  <2> QED
    BY <2>2
<1>10. NoLostWakeup'
  BY <1>2, <1>6, <1>9 DEF NoLostWakeup, Edges
<1> QED
  BY <1>3, <1>4, <1>5, <1>8, <1>10

LEMMA AttemptKeeps ==
  ASSUME IInv, NEW t \in Txn, NEW r \in Resource, NEW m \in LockMode, NEW tm \in BOOLEAN,
         Ready(t, r, m), Attempt(t, r, m, tm)
  PROVE  IInv'
<1>1. CASE AlreadyHeld(t, r, m)
  BY <1>1, AlreadyHeldKeeps
<1>2. CASE Grant(t, r, m)
  BY <1>2, GrantKeeps
<1>3. CASE Deadlock(t, r, m)
  BY <1>3, GiveUpKeeps DEF Deadlock
<1>4. CASE TimedOut(t, r, m, tm)
  BY <1>4, GiveUpKeeps DEF TimedOut
<1>5. CASE Sleep(t, r, m, tm)
  BY <1>5, SleepKeeps
<1> QED
  BY <1>1, <1>2, <1>3, <1>4, <1>5 DEF Attempt

-----------------------------------------------------------------------------
(* The timer and the release of all locks.                                  *)

LEMMA TimerKeeps ==
  ASSUME IInv, NEW t \in Txn, TimerExpires(t)
  PROVE  IInv'
<1> USE DEF IInv
<1>1. TypeOK' /\ TablesAgree' /\ Compatible'
  BY DEF TypeOK, TablesAgree, NotHeld, Compatible, TimerExpires
<1>2. NoDeadlock'
  BY DEF NoDeadlock, Stuck, TimerExpires
<1>3. NoLostWakeup'
  BY DEF NoLostWakeup, TypeOK, TimerExpires
<1> QED
  BY <1>1, <1>2, <1>3

LEMMA ReleaseKeeps ==
  ASSUME IInv, NEW t \in Txn, ReleaseAll(t)
  PROVE  IInv'
<1> USE DEF IInv
<1>1. \A q \in Resource : waiting'[t][q] = NoMode
  BY DEF TypeOK, ReleaseAll
<1>2. \A x \in Txn \ {t} : waiting'[x] = waiting[x]
  BY DEF TypeOK, ReleaseAll
<1>3. \A q \in Resource, x \in Txn :
        holders'[q][x] = IF x = t THEN NoMode ELSE holders[q][x]
  BY DEF TypeOK, TablesAgree, ReleaseAll
<1>4. \A x \in Txn : pc'[x] # "asleep" /\ (pc[x] \in {"asleep", "awake"} /\ x # t => pc'[x] = "awake")
  BY DEF TypeOK, ReleaseAll, Notified
<1>5. TypeOK'
  BY DEF TypeOK, ReleaseAll, Notified, NoMode
<1>6. TablesAgree'
  <2>1. \A x \in Txn : heldByTxn'[x] = {r \in Resource : holders'[r][x] # NoMode}
    <3> SUFFICES ASSUME NEW x \in Txn
                 PROVE  heldByTxn'[x] = {r \in Resource : holders'[r][x] # NoMode}
      OBVIOUS
    <3>1. CASE x = t
      BY <1>3, <3>1 DEF TypeOK, ReleaseAll
    <3>2. CASE x # t
      BY <1>3, <3>2 DEF TypeOK, TablesAgree, ReleaseAll
    <3> QED
      BY <3>1, <3>2
  <2>2. ASSUME NEW x \in Txn, pc'[x] \in {"asleep", "awake"}
        PROVE  \E r \in Resource : waiting'[x][r] # NoMode
    <3>1. x # t /\ pc[x] \in {"asleep", "awake"}
      BY <2>2 DEF TypeOK, ReleaseAll, Notified
    <3> QED
      BY <1>2, <3>1 DEF TablesAgree
  <2>3. ASSUME NEW x \in Txn, NEW r \in Resource, waiting'[x][r] # NoMode
        PROVE  /\ pc'[x] \in {"asleep", "awake"}
               /\ NotHeld(x, r, waiting[x][r])'
               /\ \A q \in Resource : waiting'[x][q] # NoMode => q = r
    <3>1. x # t /\ waiting'[x] = waiting[x]
      BY <1>1, <1>2, <2>3
    <3>2. holders'[r][x] = holders[r][x]
      BY <1>3, <3>1
    <3> QED
      BY <1>4, <2>3, <3>1, <3>2 DEF TablesAgree, NotHeld
  <2> QED
    BY <2>1, <2>2, <2>3 DEF TablesAgree
<1>7. Compatible'
  BY <1>3 DEF Compatible, NoMode
<1>8. Edges(t)' = {}
  BY <1>1, NoRequestNoEdge DEF Edges
<1>9. \A x \in Txn \ {t} : Edges(x)' \subseteq Edges(x)
  BY <1>2, <1>3, EdgeMembers DEF Edges
<1>10. NoDeadlock'
  BY <1>8, <1>9, NoNewDeadlock
<1>11. NoLostWakeup'
  BY <1>4 DEF NoLostWakeup
<1> QED
  BY <1>5, <1>6, <1>7, <1>10, <1>11

-----------------------------------------------------------------------------
(* The invariant is inductive.                                              *)

LEMMA NextIInv == IInv /\ [Next]_lockVars => IInv'
<1>1. ASSUME IInv, Next PROVE IInv'
  <2>1. PICK t \in Txn :
          \/ \E r \in Resource, m \in LockMode, tm \in BOOLEAN : Acquire(t, r, m, tm)
          \/ Resume(t)
          \/ TimerExpires(t)
          \/ ReleaseAll(t)
    BY <1>1 DEF Next
  <2>2. ASSUME NEW r \in Resource, NEW m \in LockMode, NEW tm \in BOOLEAN,
               Acquire(t, r, m, tm)
        PROVE  IInv'
    BY <1>1, <2>2, AttemptKeeps DEF Acquire, Ready
  <2>3. CASE Resume(t)
    <3>1. timed[t] \in BOOLEAN
      BY <1>1 DEF IInv, TypeOK
    <3>2. PICK r \in Resource, m \in LockMode :
            pc[t] = "awake" /\ waiting[t][r] = m /\ Attempt(t, r, m, timed[t])
      BY <2>3 DEF Resume
    <3> QED
      BY <1>1, <3>1, <3>2, AttemptKeeps DEF Ready
  <2>4. CASE TimerExpires(t)
    BY <1>1, <2>4, TimerKeeps
  <2>5. CASE ReleaseAll(t)
    BY <1>1, <2>5, ReleaseKeeps
  <2> QED
    BY <2>1, <2>2, <2>3, <2>4, <2>5
<1>2. ASSUME IInv, UNCHANGED lockVars PROVE IInv'
  BY <1>2, StutterKeeps
<1> QED
  BY <1>1, <1>2

LEMMA Invariance == Spec => []IInv
BY InitIInv, NextIInv, PTL DEF Spec

(* The record and queue discipline of the tables: every state of every     *)
(* table is one the code can build.                                         *)
THEOREM TypeCorrect == Spec => []TypeOK
BY Invariance, PTL DEF IInv

(* _holders and _held_by_txn agree, and no request outlives its wait.       *)
THEOREM TablesAgreeAlways == Spec => []TablesAgree
BY Invariance, PTL DEF IInv

(* An exclusive lock excludes every other lock on the row.                  *)
THEOREM LocksCompatible == Spec => []Compatible
BY Invariance, PTL DEF IInv

(* The search before each wait is enough: no set of transactions, of any    *)
(* size, over any number of rows, ever waits for itself.                    *)
THEOREM DeadlockFree == Spec => []NoDeadlock
BY Invariance, PTL DEF IInv

(* Whoever sleeps still has somebody to wait for.                           *)
THEOREM NoWakeupLost == Spec => []NoLostWakeup
BY Invariance, PTL DEF IInv

-----------------------------------------------------------------------------
(* Only transactions on a cycle are refused.  The search answers yes for    *)
(* any cycle it can reach; that the cycle goes through t is because the     *)
(* graph had none before t asked.                                           *)

LEMMA CycleThroughAsker ==
  ASSUME NoDeadlock, NEW t \in Txn, NEW wait,
         \A x \in Txn \ {t} : waiting[x] = wait[x],
         HasCycle(holders, wait, t)
  PROVE  t \in WaitsForPlus(holders, wait, t)
<1> DEFINE W(x) == WaitsFor(holders, wait, x)
<1>1. PICK S \in SUBSET Txn : t \in S /\ \A x \in S : W(x) \cap S # {}
  BY DEF HasCycle
<1> SUFFICES ASSUME NEW R \in SUBSET Txn, W(t) \subseteq R,
                    \A x \in R : W(x) \subseteq R, t \notin R
             PROVE  FALSE
  BY DEF WaitsForPlus
<1>2. S \cap R # {}
  BY <1>1
<1>3. \A x \in S \cap R : W(x) = Edges(x)
  BY OwnRequestsOnly DEF Edges
<1> HIDE DEF W
<1>4. \A x \in S \cap R : W(x) \cap (S \cap R) # {}
  BY <1>1
<1>5. Stuck(S \cap R)
  BY <1>3, <1>4 DEF Stuck, Edges
<1> QED
  BY <1>2, <1>5 DEF NoDeadlock

LEMMA VictimStep == IInv /\ [Next]_lockVars => [VictimOnCycle]_lockVars
<1> SUFFICES ASSUME IInv, Next, NEW t \in Txn, pc'[t] = "aborting", pc[t] # "aborting"
             PROVE  \E r \in Resource, m \in LockMode :
                       t \in WaitsForPlus(holders, Wanting(t, r, m), t)
  BY DEF VictimOnCycle
<1>1. PICK r \in Resource, m \in LockMode : Deadlock(t, r, m)
  <2> USE DEF IInv, TypeOK
  <2>1. PICK u \in Txn :
          \/ \E r \in Resource, m \in LockMode, tm \in BOOLEAN : Attempt(u, r, m, tm)
          \/ TimerExpires(u)
          \/ ReleaseAll(u)
    BY DEF Next, Acquire, Resume
  <2>2. ~ TimerExpires(u) /\ ~ ReleaseAll(u)
    BY DEF TimerExpires, ReleaseAll, Notified
  <2>3. PICK r \in Resource, m \in LockMode, tm \in BOOLEAN : Attempt(u, r, m, tm)
    BY <2>1, <2>2
  <2>4. ~ AlreadyHeld(u, r, m) /\ ~ Grant(u, r, m) /\ ~ TimedOut(u, r, m, tm) /\ ~ Sleep(u, r, m, tm)
    BY DEF AlreadyHeld, Grant, TimedOut, Sleep
  <2>5. Deadlock(u, r, m) /\ u = t
    BY <2>3, <2>4 DEF Attempt, Deadlock
  <2> QED
    BY <2>5
<1>2. \A x \in Txn \ {t} : waiting[x] = Wanting(t, r, m)[x]
  BY DEF Wanting, IInv, TypeOK
<1> QED
  BY <1>1, <1>2, CycleThroughAsker DEF Deadlock, IInv

(* A deadlock victim is a transaction that would have waited for itself.    *)
THEOREM VictimsGuilty == Spec => VictimsAreGuilty
BY Invariance, VictimStep, PTL DEF Spec, VictimsAreGuilty

-----------------------------------------------------------------------------
(* Refinement: the lock manager implements RowLocks.                        *)

LEMMA InitRefines == Init => Locks!Init
BY DEF Init, Locks!Init, NoMode, Locks!Free

LEMMA NextRefines == IInv /\ [Next]_lockVars => [Locks!Next]_(Locks!rowVars)
<1> USE DEF Locks!rowVars
<1> DEFINE ended == {t \in Txn : pc[t] = "ended"}
<1>1. ASSUME IInv, Next PROVE [Locks!Next]_(Locks!rowVars)
  <2>1. ASSUME NEW t \in Txn, NEW r \in Resource, NEW m \in LockMode, NEW tm \in BOOLEAN,
               Ready(t, r, m), Attempt(t, r, m, tm)
        PROVE  [Locks!Next]_(Locks!rowVars)
    <3>1. ended' = ended /\ t \notin ended
      BY <1>1, <2>1 DEF Ready, Attempt, AlreadyHeld, Grant, Deadlock, TimedOut, Sleep, IInv, TypeOK
    <3>2. CASE Grant(t, r, m)
      <4>1. \A u \in Txn \ {t} : ~ Locks!Conflict(m, holders[r][u])
        BY <3>2 DEF Grant, Blockers, Locks!Conflict, Locks!Free, NoMode, LockMode
      <4>2. Locks!Take(t, r, m)
        BY <3>1, <3>2, <4>1 DEF Grant, NotHeld, Locks!Take
      <4> QED
        BY <4>2 DEF Locks!Next, LockMode
    <3>3. CASE ~ Grant(t, r, m)
      BY <2>1, <3>1, <3>3 DEF Attempt, AlreadyHeld, Deadlock, TimedOut, Sleep
    <3> QED
      BY <3>2, <3>3
  <2>2. ASSUME NEW t \in Txn, TimerExpires(t)
        PROVE  [Locks!Next]_(Locks!rowVars)
    <3>1. ended' = ended /\ holders' = holders
      BY <1>1, <2>2 DEF TimerExpires, IInv, TypeOK
    <3> QED
      BY <3>1
  <2>3. ASSUME NEW t \in Txn, ReleaseAll(t)
        PROVE  [Locks!Next]_(Locks!rowVars)
    <3>1. t \notin ended /\ ended' = ended \cup {t}
      BY <1>1, <2>3 DEF ReleaseAll, Notified, IInv, TypeOK
    <3>2. holders' = [r \in Resource |-> [holders[r] EXCEPT ![t] = NoMode]]
      BY <1>1, <2>3 DEF ReleaseAll, IInv, TypeOK, TablesAgree
    <3>3. Locks!End(t)
      BY <3>1, <3>2 DEF Locks!End, Locks!Free, NoMode
    <3> QED
      BY <3>3 DEF Locks!Next
  <2>4. ASSUME NEW t \in Txn, Resume(t)
        PROVE  [Locks!Next]_(Locks!rowVars)
    <3>1. timed[t] \in BOOLEAN
      BY <1>1 DEF IInv, TypeOK
    <3>2. PICK r \in Resource, m \in LockMode :
            pc[t] = "awake" /\ waiting[t][r] = m /\ Attempt(t, r, m, timed[t])
      BY <2>4 DEF Resume
    <3> QED
      BY <2>1, <3>1, <3>2 DEF Ready
  <2> QED
    BY <1>1, <2>1, <2>2, <2>3, <2>4 DEF Next, Acquire, Ready
<1>2. ASSUME UNCHANGED lockVars PROVE UNCHANGED Locks!rowVars
  BY <1>2 DEF lockVars
<1> QED
  BY <1>1, <1>2

(* Seen through its table of holders, the lock manager with its sleeping    *)
(* threads, notifications, timeouts and victims is strict two-phase         *)
(* locking: compatible grants, upgrades, one release at the end.            *)
THEOREM RefinesRowLocks == Spec => ImplementsRowLocks
BY Invariance, InitRefines, NextRefines, PTL DEF Spec, ImplementsRowLocks, Locks!Spec
=============================================================================
