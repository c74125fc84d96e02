----------------------------- MODULE PageStore -----------------------------
(***************************************************************************)
(* What the storage layer relies on from a buffer pool over one file:      *)
(* pages that change only when somebody who has opened them writes, that   *)
(* reach the file at any moment and at the latest when they are flushed,   *)
(* and that a crash takes back to what the file holds.  BufferManager is   *)
(* shown to implement this.                                                *)
(***************************************************************************)
EXTENDS Naturals

CONSTANTS User,   \* those who open pages
          Page,   \* page ids, 0 and up
          None,   \* no page
          Value,  \* page contents
          Blank   \* what a page holds when it is allocated

VARIABLES
  current,  \* what a reader of each page sees
  stable,   \* what the file holds
  count,    \* pages allocated
  open      \* the page each user has open, or None

storeVars == <<current, stable, count, open>>

Init ==
  /\ current = [p \in Page |-> Blank]
  /\ stable = current
  /\ count = 0
  /\ open = [u \in User |-> None]

Allocate ==
  /\ count \in Page
  /\ count' = count + 1
  /\ UNCHANGED <<current, stable, open>>

(* Some pages, chosen by nobody in particular, reach the file.              *)
Saved(P) == stable' = [p \in Page |-> IF p \in P THEN current[p] ELSE stable[p]]

WriteBack(P) == Saved(P) /\ UNCHANGED <<current, count, open>>

(* To open a page others may have to make room.                             *)
Open(u, p, P) ==
  /\ open[u] = None /\ p < count
  /\ open' = [open EXCEPT ![u] = p]
  /\ Saved(P)
  /\ UNCHANGED <<current, count>>

Write(u, v) ==
  /\ open[u] \in Page
  /\ current' = [current EXCEPT ![open[u]] = v]
  /\ UNCHANGED <<stable, count, open>>

Close(u) ==
  /\ open[u] \in Page
  /\ open' = [open EXCEPT ![u] = None]
  /\ UNCHANGED <<current, stable, count>>

Truncate ==
  /\ \A u \in User : open[u] = None
  /\ current' = [p \in Page |-> Blank]
  /\ stable' = [p \in Page |-> Blank]
  /\ count' = 0
  /\ UNCHANGED open

Crash ==
  /\ current' = stable
  /\ open' = [u \in User |-> None]
  /\ UNCHANGED <<stable, count>>

Next ==
  \/ Allocate
  \/ \E P \in SUBSET Page : WriteBack(P)
  \/ \E u \in User, p \in Page, P \in SUBSET Page : Open(u, p, P)
  \/ \E u \in User, v \in Value : Write(u, v)
  \/ \E u \in User : Close(u)
  \/ Truncate
  \/ Crash

Spec == Init /\ [][Next]_storeVars
=============================================================================
