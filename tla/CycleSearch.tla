---------------------------- MODULE CycleSearch ----------------------------
(* The recursion of LockManager._has_cycle, next to the set form HasCycle   *)
(* that LockManager states it by (the proofs need a form without recursion).*)
EXTENDS LockManager

(* A bug: the search stops below the direct blockers.                       *)
SearchShallow(hold, wait, start, visited) ==
  \/ start \in visited
  \/ \E u \in WaitsFor(hold, wait, start) : WaitsFor(hold, wait, u) \cap visited # {}

(* _has_cycle(start, visited): visited is copied on each way down, so it is *)
(* the path that led here.                                                  *)
RECURSIVE Search(_, _, _, _)
Search(hold, wait, start, visited) ==
  \/ start \in visited
  \/ \E u \in WaitsFor(hold, wait, start) : Search(hold, wait, u, visited \cup {start})

(* The depth-first search answers what HasCycle says, for every request a   *)
(* running thread could make in a reachable state (where the graph may have *)
(* joins and long paths but, by NoDeadlock, no cycle yet).                  *)
SearchIsHasCycle ==
  \A t \in Txn : pc[t] = "running" =>
    \A r \in Resource, m \in LockMode :
      Search(holders, Wanting(t, r, m), t, {}) = HasCycle(holders, Wanting(t, r, m), t)
=============================================================================
