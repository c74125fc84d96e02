--------------------------- MODULE BufferManager ---------------------------
(***************************************************************************)
(* The buffer pool of one file (src/src/storage/buffer_manager.py) over    *)
(* its FileManager (file_manager.py): pins, dirty bits, LRU-K replacement. *)
(*                                                                         *)
(* A client is one use of a page, from a fetch_page() to its unpin_page(): *)
(* a scan that keeps the page of its current row pinned while it waits for *)
(* locks, or a step of an operation that changes pages.  The methods run   *)
(* one at a time (under the latch of the table); a client may change the   *)
(* page it has pinned at any moment, and says so when it unpins it.        *)
(***************************************************************************)
EXTENDS Integers, Sequences, FiniteSets

CONSTANTS Client,    \* users of pages
          PoolSize,  \* frames in the pool
          K,         \* lru_k
          MaxPages,  \* bound: pages of the file
          Value,     \* page contents
          Blank,     \* a page as allocate_page() writes it
          MaxAccess  \* bound: accesses recorded since the pool was made

ASSUME PoolAssumption == PoolSize \in Nat \ {0} /\ K \in Nat \ {0}
ASSUME PagesAssumption == MaxPages \in Nat /\ MaxAccess \in Nat
ASSUME ClientsAssumption == IsFiniteSet(Client)
ASSUME ValuesAssumption == Blank \in Value

VARIABLES
  page,      \* frames[f].page.page_id, NoPage when the frame is empty
  data,      \* frames[f].page.data
  pins,      \* frames[f].pin_count
  dirty,     \* frames[f].dirty_bit
  history,   \* frames[f].access_history
  pageTable, \* page_table: the frame of a page, NoFrame when it is not cached
  accesses,  \* _access_counter
  file,      \* the pages on disk
  pageCount, \* pages the file has
  using,     \* the page each client has pinned, or NoPage
  wrote      \* did the client change the page it has pinned?

frameVars == <<page, data, pins, dirty, history>>
poolVars == <<frameVars, pageTable, accesses>>
fileVars == <<file, pageCount>>
clientVars == <<using, wrote>>
vars == <<poolVars, fileVars, clientVars>>

Page == 0 .. MaxPages
Frame == 1 .. PoolSize
NoPage == -1
NoFrame == 0

Init ==
  /\ page = [f \in Frame |-> NoPage]
  /\ data = [f \in Frame |-> Blank]
  /\ pins = [f \in Frame |-> 0]
  /\ dirty = [f \in Frame |-> FALSE]
  /\ history = [f \in Frame |-> <<>>]
  /\ pageTable = [p \in Page |-> NoFrame]
  /\ accesses = 0
  /\ file = [p \in Page |-> Blank] /\ pageCount = 0
  /\ using = [c \in Client |-> NoPage] /\ wrote = [c \in Client |-> FALSE]

-----------------------------------------------------------------------------
(* Replacement.                                                             *)

Cached(p) == pageTable[p] # NoFrame

IsEmpty(f) == page[f] = NoPage

(* A bug: a pinned frame is a candidate.                                    *)
CandidatesWithPinned == {f \in Frame : ~ IsEmpty(f)}

Candidates == {f \in Frame : ~ IsEmpty(f) /\ pins[f] = 0}

Last(s) == s[Len(s)]

Cold == {f \in Candidates : Len(history[f]) < K}

(* A bug: the oldest reference decides, not the K-th most recent one.       *)
VictimFifo(f) == f \in Candidates /\ \A g \in Candidates : history[f][1] <= history[g][1]

(* _choose_victim().                                                        *)
Victim(f) ==
  \/ /\ f \in Cold
     /\ \A g \in Cold : Last(history[f]) <= Last(history[g])
  \/ /\ Cold = {} /\ f \in Candidates
     /\ \A g \in Candidates :
          history[f][Len(history[f]) - K + 1] <= history[g][Len(history[g]) - K + 1]

(* _find_free_or_victim_frame(): the first empty frame, or the victim.      *)
FreeOrVictim(f) ==
  \/ IsEmpty(f) /\ \A g \in 1 .. f - 1 : ~ IsEmpty(g)
  \/ (\A g \in Frame : ~ IsEmpty(g)) /\ Victim(f)

(* A bug: a dirty victim is dropped.                                        *)
EvictedToDiskNever(f) == file

(* The file after _evict(f) (and after nothing, if f is empty).             *)
EvictedToDisk(f) == IF dirty[f] THEN [file EXCEPT ![page[f]] = data[f]] ELSE file

(* A bug: the entry of the evicted page stays.                              *)
WithoutPageOfForgotten(f) == pageTable

(* The page table after _evict(f).                                          *)
WithoutPageOf(f) == [p \in Page |-> IF pageTable[p] = f THEN NoFrame ELSE pageTable[p]]

-----------------------------------------------------------------------------
(* fetch_page(p) by a client.                                               *)

(* A bug: a cached page is handed out without a pin.                        *)
FetchHitUnpinned(c, p) ==
  /\ using[c] = NoPage /\ Cached(p) /\ accesses < MaxAccess
  /\ history' = [history EXCEPT ![pageTable[p]] = Append(@, accesses + 1)]
  /\ accesses' = accesses + 1
  /\ using' = [using EXCEPT ![c] = p]
  /\ UNCHANGED <<page, data, pins, dirty, pageTable, fileVars, wrote>>

FetchHit(c, p) ==
  /\ using[c] = NoPage /\ Cached(p) /\ accesses < MaxAccess
  /\ LET f == pageTable[p]
     IN /\ pins' = [pins EXCEPT ![f] = @ + 1]
        /\ history' = [history EXCEPT ![f] = Append(@, accesses + 1)]
  /\ accesses' = accesses + 1
  /\ using' = [using EXCEPT ![c] = p]
  /\ UNCHANGED <<page, data, dirty, pageTable, fileVars, wrote>>

FetchMiss(c, p) ==
  /\ using[c] = NoPage /\ ~ Cached(p) /\ p < pageCount /\ accesses < MaxAccess
  /\ \E f \in Frame :
       /\ FreeOrVictim(f)
       /\ file' = EvictedToDisk(f)
       /\ page' = [page EXCEPT ![f] = p]
       /\ data' = [data EXCEPT ![f] = file[p]]
       /\ pins' = [pins EXCEPT ![f] = 1]
       /\ dirty' = [dirty EXCEPT ![f] = FALSE]
       /\ history' = [history EXCEPT ![f] = <<accesses + 1>>]
       /\ pageTable' = [WithoutPageOf(f) EXCEPT ![p] = f]
  /\ accesses' = accesses + 1
  /\ using' = [using EXCEPT ![c] = p]
  /\ UNCHANGED <<pageCount, wrote>>

(* The page is not in the file: a victim has been evicted when read_page()  *)
(* raises, and its frame stays empty.                                       *)
FetchAbsent(c, p) ==
  /\ using[c] = NoPage /\ ~ Cached(p) /\ p >= pageCount
  /\ \E f \in Frame :
       /\ FreeOrVictim(f)
       /\ file' = EvictedToDisk(f)
       /\ page' = [page EXCEPT ![f] = NoPage]
       /\ pins' = [pins EXCEPT ![f] = 0]
       /\ dirty' = [dirty EXCEPT ![f] = FALSE]
       /\ history' = [history EXCEPT ![f] = <<>>]
       /\ pageTable' = WithoutPageOf(f)
  /\ UNCHANGED <<data, accesses, pageCount, clientVars>>

-----------------------------------------------------------------------------
(* The client changes the page it uses, through the Page object it got.     *)
Modify(c, v) ==
  /\ using[c] # NoPage
  /\ data' = [data EXCEPT ![pageTable[using[c]]] = v]
  /\ wrote' = [wrote EXCEPT ![c] = TRUE]
  /\ UNCHANGED <<page, pins, dirty, history, pageTable, accesses, fileVars, using>>

(* A bug: the last unpin decides whether the page is dirty.                 *)
UnpinOverwritesDirty(c, d) ==
  /\ using[c] # NoPage
  /\ wrote[c] => d
  /\ LET f == pageTable[using[c]]
     IN /\ pins' = [pins EXCEPT ![f] = IF @ > 0 THEN @ - 1 ELSE @]
        /\ dirty' = [dirty EXCEPT ![f] = d]
  /\ using' = [using EXCEPT ![c] = NoPage]
  /\ wrote' = [wrote EXCEPT ![c] = FALSE]
  /\ UNCHANGED <<page, data, history, pageTable, accesses, fileVars>>

(* A bug: a scan that is closed twice gives its pin back twice, and nothing *)
(* stops the count at zero.                                                 *)
UnpinWithoutFloor(c, d) ==
  /\ using[c] # NoPage
  /\ wrote[c] => d
  /\ LET f == pageTable[using[c]]
     IN /\ pins' = [pins EXCEPT ![f] = @ - 1]
        /\ dirty' = [dirty EXCEPT ![f] = @ \/ d]
  /\ wrote' = [wrote EXCEPT ![c] = FALSE]
  /\ UNCHANGED <<page, data, history, pageTable, accesses, fileVars, using>>

(* unpin_page(p, is_dirty = d), by a client that does not hide its changes. *)
Unpin(c, d) ==
  /\ using[c] # NoPage
  /\ wrote[c] => d
  /\ LET f == pageTable[using[c]]
     IN /\ pins' = [pins EXCEPT ![f] = IF @ > 0 THEN @ - 1 ELSE @]
        /\ dirty' = [dirty EXCEPT ![f] = @ \/ d]
  /\ using' = [using EXCEPT ![c] = NoPage]
  /\ wrote' = [wrote EXCEPT ![c] = FALSE]
  /\ UNCHANGED <<page, data, history, pageTable, accesses, fileVars>>

(* flush_page(p): the page is written if its frame is dirty.                *)
FlushPage(p) ==
  /\ Cached(p) /\ dirty[pageTable[p]]
  /\ file' = [file EXCEPT ![p] = data[pageTable[p]]]
  /\ dirty' = [dirty EXCEPT ![pageTable[p]] = FALSE]
  /\ UNCHANGED <<page, data, pins, history, pageTable, accesses, pageCount, clientVars>>

FlushAll ==
  /\ \E f \in Frame : dirty[f]
  /\ file' = [p \in Page |-> IF \E f \in Frame : page[f] = p /\ dirty[f]
                             THEN data[pageTable[p]] ELSE file[p]]
  /\ dirty' = [f \in Frame |-> FALSE]
  /\ UNCHANGED <<page, data, pins, history, pageTable, accesses, pageCount, clientVars>>

(* An empty pool.                                                           *)
EmptyPool ==
  /\ page' = [f \in Frame |-> NoPage]
  /\ data' = [f \in Frame |-> Blank]
  /\ pins' = [f \in Frame |-> 0]
  /\ dirty' = [f \in Frame |-> FALSE]
  /\ history' = [f \in Frame |-> <<>>]
  /\ pageTable' = [p \in Page |-> NoFrame]
  /\ accesses' = 0

(* reset(), refused while a page is pinned.                                 *)
Reset ==
  /\ \A f \in Frame : pins[f] = 0
  /\ EmptyPool
  /\ file' = [p \in Page |-> Blank]
  /\ pageCount' = 0
  /\ UNCHANGED clientVars

AllocatePage ==
  /\ pageCount < MaxPages
  /\ file' = [file EXCEPT ![pageCount] = Blank]
  /\ pageCount' = pageCount + 1
  /\ UNCHANGED <<poolVars, clientVars>>

(* The process dies; the next one opens the file with a pool of its own.    *)
Crash ==
  /\ EmptyPool
  /\ using' = [c \in Client |-> NoPage]
  /\ wrote' = [c \in Client |-> FALSE]
  /\ UNCHANGED fileVars

Next ==
  \/ \E c \in Client, p \in Page : FetchHit(c, p) \/ FetchMiss(c, p) \/ FetchAbsent(c, p)
  \/ \E c \in Client, v \in Value : Modify(c, v)
  \/ \E c \in Client, d \in BOOLEAN : Unpin(c, d)
  \/ \E p \in Page : FlushPage(p)
  \/ FlushAll \/ Reset \/ AllocatePage \/ Crash

Spec == Init /\ [][Next]_vars

-----------------------------------------------------------------------------
(* Properties.                                                              *)

TypeOK ==
  /\ page \in [Frame -> Page \cup {NoPage}]
  /\ data \in [Frame -> Value]
  /\ pins \in [Frame -> Nat]
  /\ dirty \in [Frame -> BOOLEAN]
  /\ history \in [Frame -> Seq(Nat)]
  /\ pageTable \in [Page -> Frame \cup {NoFrame}]
  /\ accesses \in Nat
  /\ file \in [Page -> Value] /\ pageCount \in 0 .. MaxPages
  /\ using \in [Client -> Page \cup {NoPage}]
  /\ wrote \in [Client -> BOOLEAN]

(* The page table and the frames agree: no page is in two frames (two       *)
(* copies would drift apart), no entry leads to another page's frame.       *)
PageTableAgrees ==
  \A f \in Frame, p \in Page : page[f] = p <=> pageTable[p] = f

(* Whoever has a page pinned finds it in its frame, and the pin count of a  *)
(* frame is the number of its users: an eviction that takes a page from a   *)
(* user, or a pin that nobody gives back, would break it.                   *)
UsersOf(p) == {c \in Client : using[c] = p}

PinsAreUsers ==
  /\ \A f \in Frame : pins[f] = IF IsEmpty(f) THEN 0 ELSE Cardinality(UsersOf(page[f]))
  /\ \A c \in Client : using[c] # NoPage => Cached(using[c])

(* A frame that is not dirty holds what the file holds, except for changes  *)
(* of clients that have not unpinned the page yet: dropping it loses        *)
(* nothing.                                                                 *)
CleanIsOnDisk ==
  \A f \in Frame :
    ~ IsEmpty(f) /\ ~ dirty[f] /\ (\A c \in UsersOf(page[f]) : ~ wrote[c]) =>
      data[f] = file[page[f]]

(* The page that leaves the pool is the one LRU-K gives up: its K-th most   *)
(* recent reference (none counts as infinitely old) is oldest, the last     *)
(* reference deciding between pages that have no K-th.                      *)
KthLast(f) == IF Len(history[f]) < K THEN 0 ELSE history[f][Len(history[f]) - K + 1]

Older(f, g) ==
  KthLast(f) < KthLast(g) \/ (KthLast(f) = KthLast(g) /\ Last(history[f]) <= Last(history[g]))

Evicted(f) == ~ IsEmpty(f) /\ page'[f] # page[f] /\ accesses' >= accesses /\ pageCount' = pageCount

EvictsTheColdest ==
  [][\A f \in Frame : Evicted(f) /\ (\E g \in Frame : g # f /\ page'[g] = page[g] /\ ~ IsEmpty(g)) =>
       \A g \in Candidates : Older(f, g)]_vars

(* The pool implements a page store: evictions, flushes and reloads, in     *)
(* whatever order they come between the changes, are invisible to readers,  *)
(* and a page changes only through a client that has it pinned.             *)
Current == [p \in Page |-> IF Cached(p) THEN data[pageTable[p]] ELSE file[p]]

Store == INSTANCE PageStore WITH
           User <- Client, None <- NoPage,
           current <- Current, stable <- file, count <- pageCount, open <- using

ImplementsPageStore == Store!Spec
=============================================================================
