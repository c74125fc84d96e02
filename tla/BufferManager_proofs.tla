------------------------ MODULE BufferManager_proofs ------------------------
(***************************************************************************)
(* Proofs about the buffer pool, for any number of frames, pages, clients  *)
(* and any K: the page table and the pins stay right, no frame that may be *)
(* dropped holds something the file lacks, and so the pool is a page store;*)
(* the page that leaves the pool is the one that LRU-K gives up.           *)
(***************************************************************************)
EXTENDS BufferManager, FiniteSetTheorems, TLAPS

(* Empty frames are clean, or the next page in them would count as dirty.   *)
EmptyIsClean == \A f \in Frame : IsEmpty(f) => ~ dirty[f]

(* Nothing is cached that was not allocated, nor written there on disk.     *)
BeyondTheEnd == \A p \in Page : p >= pageCount => file[p] = Blank /\ ~ Cached(p)

IInv ==
  /\ TypeOK
  /\ PageTableAgrees
  /\ PinsAreUsers
  /\ CleanIsOnDisk
  /\ EmptyIsClean
  /\ BeyondTheEnd

-----------------------------------------------------------------------------
(* Frames, pages and their users.                                           *)

(* A cached page is in the frame the table names, and that is not empty.    *)
LEMMA FrameOfPage ==
  ASSUME IInv, NEW p \in Page, Cached(p)
  PROVE  /\ pageTable[p] \in Frame
         /\ page[pageTable[p]] = p
         /\ ~ IsEmpty(pageTable[p])
BY DEF IInv, TypeOK, PageTableAgrees, Cached, IsEmpty, Page, NoPage, NoFrame, Frame

(* The users of a page after a step.                                        *)
UsersNext(p) == {c \in Client : using'[c] = p}

(* The users of a page are finitely many.                                   *)
LEMMA UsersFinite ==
  ASSUME NEW p
  PROVE  IsFiniteSet(UsersOf(p)) /\ IsFiniteSet(UsersNext(p))
BY ClientsAssumption, FS_Subset DEF UsersOf, UsersNext

(* A frame whose pin count is zero has no users.                            *)
LEMMA UnpinnedIsUnused ==
  ASSUME IInv, NEW f \in Frame, ~ IsEmpty(f), pins[f] = 0
  PROVE  UsersOf(page[f]) = {}
BY UsersFinite, FS_EmptySet DEF IInv, PinsAreUsers

(* Whatever frame a fetch takes is empty or unused.                         *)
LEMMA TakenIsUnused ==
  ASSUME IInv, NEW f \in Frame, FreeOrVictim(f)
  PROVE  IsEmpty(f) \/ (~ IsEmpty(f) /\ UsersOf(page[f]) = {})
BY UnpinnedIsUnused DEF FreeOrVictim, Victim, Cold, Candidates

(* The file after an eviction holds what the readers of the pool saw.       *)
LEMMA EvictionSavesThePage ==
  ASSUME IInv, NEW f \in Frame, FreeOrVictim(f), NEW q \in Page
  PROVE  /\ EvictedToDisk(f) \in [Page -> Value]
         /\ page[f] = q => EvictedToDisk(f)[q] = data[f]
         /\ page[f] # q => EvictedToDisk(f)[q] = file[q]
<1>1. CASE IsEmpty(f)
  BY <1>1 DEF IInv, TypeOK, EmptyIsClean, EvictedToDisk, IsEmpty, Page, NoPage
<1>2. CASE ~ IsEmpty(f)
  <2>1. \A c \in UsersOf(page[f]) : ~ wrote[c]
    BY <1>2, TakenIsUnused
  <2> QED
    BY <1>2, <2>1 DEF IInv, TypeOK, CleanIsOnDisk, EvictedToDisk, IsEmpty
<1> QED
  BY <1>1, <1>2
-----------------------------------------------------------------------------
(* The initial state, and the state after EmptyPool.                        *)

LEMMA InitInvariant == Init => IInv
<1> SUFFICES ASSUME Init PROVE IInv
  OBVIOUS
<1>1. TypeOK
  BY PoolAssumption, PagesAssumption, ValuesAssumption DEF Init, TypeOK, Page
<1>2. PageTableAgrees /\ EmptyIsClean /\ BeyondTheEnd
  BY DEF Init, PageTableAgrees, EmptyIsClean, BeyondTheEnd, Page, Frame, NoPage, NoFrame, Cached
<1>3. PinsAreUsers /\ CleanIsOnDisk
  BY DEF Init, PinsAreUsers, CleanIsOnDisk, IsEmpty
<1> QED
  BY <1>1, <1>2, <1>3 DEF IInv

LEMMA EmptyPoolInvariant ==
  ASSUME EmptyPool, file' \in [Page -> Value], pageCount' \in 0 .. MaxPages,
         \A p \in Page : p >= pageCount' => file'[p] = Blank,
         using' = [c \in Client |-> NoPage], wrote' \in [Client -> BOOLEAN]
  PROVE  IInv'
<1>1. TypeOK'
  BY ValuesAssumption DEF EmptyPool, TypeOK, Page
<1>2. PageTableAgrees' /\ EmptyIsClean' /\ BeyondTheEnd'
  BY DEF EmptyPool, PageTableAgrees, EmptyIsClean, BeyondTheEnd, Page, Frame, NoPage, NoFrame,
         Cached
<1>3. PinsAreUsers' /\ CleanIsOnDisk'
  BY DEF EmptyPool, PinsAreUsers, CleanIsOnDisk, IsEmpty
<1> QED
  BY <1>1, <1>2, <1>3 DEF IInv

-----------------------------------------------------------------------------
(* Each method keeps the invariant.                                         *)

LEMMA FetchHitInvariant ==
  ASSUME IInv, NEW c \in Client, NEW p \in Page, FetchHit(c, p)
  PROVE  IInv'
<1> DEFINE f == pageTable[p]
<1>0. /\ using[c] = NoPage /\ Cached(p)
      /\ pins' = [pins EXCEPT ![f] = @ + 1]
      /\ history' = [history EXCEPT ![f] = Append(@, accesses + 1)]
      /\ accesses' = accesses + 1
      /\ using' = [using EXCEPT ![c] = p]
      /\ UNCHANGED <<page, data, dirty, pageTable, file, pageCount, wrote>>
  BY DEF FetchHit, fileVars
<1> HIDE DEF f
<1>1. f \in Frame /\ page[f] = p /\ ~ IsEmpty(f)
  BY <1>0, FrameOfPage DEF f
<1>2. TypeOK'
  BY <1>0, <1>1 DEF IInv, TypeOK
<1>3. PageTableAgrees' /\ EmptyIsClean' /\ BeyondTheEnd'
  BY <1>0 DEF IInv, PageTableAgrees, EmptyIsClean, BeyondTheEnd, IsEmpty, Cached
<1>4. UsersNext(p) = UsersOf(p) \cup {c} /\ c \notin UsersOf(p)
  BY <1>0 DEF IInv, TypeOK, UsersOf, UsersNext, Page, NoPage
<1>5. \A q \in Page : q # p => UsersNext(q) = UsersOf(q)
  BY <1>0 DEF IInv, TypeOK, UsersOf, UsersNext, Page, NoPage
<1>6. PinsAreUsers'
  <2>1. Cardinality(UsersNext(p)) = Cardinality(UsersOf(p)) + 1
    BY <1>4, UsersFinite, FS_AddElement
  <2>2. ASSUME NEW g \in Frame
        PROVE  pins'[g] = IF page[g] = NoPage THEN 0 ELSE Cardinality(UsersNext(page[g]))
    <3>1. CASE g = f
      BY <3>1, <1>0, <1>1, <2>1 DEF IInv, TypeOK, PinsAreUsers, IsEmpty
    <3>2. CASE g # f
      <4>1. page[g] # p
        BY <3>2, <1>1 DEF IInv, PageTableAgrees
      <4> QED
        BY <3>2, <4>1, <1>0, <1>5 DEF IInv, TypeOK, PinsAreUsers, IsEmpty
    <3> QED
      BY <3>1, <3>2
  <2>3. \A d \in Client : using'[d] # NoPage => pageTable'[using'[d]] # NoFrame
    BY <1>0 DEF IInv, TypeOK, PinsAreUsers, Cached
  <2> QED
    BY <2>2, <2>3, <1>0 DEF PinsAreUsers, Cached, UsersOf, UsersNext, IsEmpty
<1>7. CleanIsOnDisk'
  <2> SUFFICES ASSUME NEW g \in Frame, ~ IsEmpty(g), ~ dirty[g],
                      \A d \in UsersNext(page[g]) : ~ wrote[d]
               PROVE  data[g] = file[page[g]]
    BY <1>0 DEF CleanIsOnDisk, IsEmpty, UsersOf, UsersNext
  <2>1. page[g] \in Page
    BY DEF IInv, TypeOK, IsEmpty
  <2>2. UsersOf(page[g]) \subseteq UsersNext(page[g])
    BY <2>1, <1>4, <1>5
  <2> QED
    BY <2>2 DEF IInv, CleanIsOnDisk
<1> QED
  BY <1>2, <1>3, <1>6, <1>7 DEF IInv

LEMMA FetchMissInvariant ==
  ASSUME IInv, NEW c \in Client, NEW p \in Page, FetchMiss(c, p)
  PROVE  IInv'
<1> PICK f \in Frame :
       /\ FreeOrVictim(f)
       /\ file' = EvictedToDisk(f)
       /\ page' = [page EXCEPT ![f] = p]
       /\ data' = [data EXCEPT ![f] = file[p]]
       /\ pins' = [pins EXCEPT ![f] = 1]
       /\ dirty' = [dirty EXCEPT ![f] = FALSE]
       /\ history' = [history EXCEPT ![f] = <<accesses + 1>>]
       /\ pageTable' = [WithoutPageOf(f) EXCEPT ![p] = f]
  BY DEF FetchMiss
<1>1. /\ using[c] = NoPage /\ ~ Cached(p) /\ p < pageCount
      /\ using' = [using EXCEPT ![c] = p]
      /\ accesses' = accesses + 1
      /\ UNCHANGED <<pageCount, wrote>>
  BY DEF FetchMiss
<1>2. IsEmpty(f) \/ (~ IsEmpty(f) /\ UsersOf(page[f]) = {})
  BY TakenIsUnused
<1>3. \A g \in Frame : page[g] # p
  BY <1>1 DEF IInv, TypeOK, PageTableAgrees, Cached, NoFrame, Frame
<1>4. TypeOK'
  BY <1>1, EvictionSavesThePage DEF IInv, TypeOK, WithoutPageOf
<1>5. PageTableAgrees'
  BY <1>3 DEF IInv, TypeOK, PageTableAgrees, WithoutPageOf, NoFrame, Frame
<1>6. EmptyIsClean'
  BY DEF IInv, TypeOK, EmptyIsClean, IsEmpty, Page, NoPage
<1>7. BeyondTheEnd'
  <2> SUFFICES ASSUME NEW q \in Page, q >= pageCount
               PROVE  file'[q] = Blank /\ pageTable'[q] = NoFrame
    BY <1>1 DEF BeyondTheEnd, Cached
  <2>1. file[q] = Blank /\ pageTable[q] = NoFrame /\ q # p
    BY <1>1 DEF IInv, TypeOK, BeyondTheEnd, Cached, Page
  <2>2. page[f] # q
    BY <2>1 DEF IInv, PageTableAgrees, NoFrame, Frame
  <2> QED
    BY <2>1, <2>2, EvictionSavesThePage DEF IInv, TypeOK, WithoutPageOf
<1>8. \A q \in Page : q # p => UsersNext(q) = UsersOf(q)
  BY <1>1 DEF IInv, TypeOK, UsersOf, UsersNext, Page, NoPage
<1>9. UsersNext(p) = {c}
  BY <1>1 DEF IInv, TypeOK, UsersOf, UsersNext, Page, NoPage, PinsAreUsers
<1>10. PinsAreUsers'
  <2>1. ASSUME NEW g \in Frame
        PROVE  pins'[g] = IF page'[g] = NoPage THEN 0 ELSE Cardinality(UsersNext(page'[g]))
    <3>1. CASE g = f
      <4>1. page'[g] = p /\ pins'[g] = 1 /\ p # NoPage
        BY <3>1 DEF IInv, TypeOK, Page, NoPage
      <4>2. Cardinality(UsersNext(p)) = 1
        BY <1>9, FS_Singleton
      <4> QED
        BY <4>1, <4>2
    <3>2. CASE g # f
      <4>1. page'[g] = page[g] /\ pins'[g] = pins[g] /\ page[g] \in Page \cup {NoPage}
        BY <3>2 DEF IInv, TypeOK
      <4>2. page[g] # NoPage => UsersNext(page[g]) = UsersOf(page[g])
        BY <4>1, <1>3, <1>8
      <4>3. pins[g] = IF page[g] = NoPage THEN 0 ELSE Cardinality(UsersOf(page[g]))
        BY DEF IInv, PinsAreUsers, IsEmpty
      <4> QED
        BY <4>1, <4>2, <4>3
    <3> QED
      BY <3>1, <3>2
  <2>2. ASSUME NEW d \in Client, using'[d] # NoPage
        PROVE  pageTable'[using'[d]] # NoFrame
    <3>1. CASE d = c
      BY <3>1, <1>1 DEF IInv, TypeOK, WithoutPageOf, Frame, NoFrame
    <3>2. CASE d # c
      <4>1. using'[d] = using[d] /\ using[d] \in Page /\ Cached(using[d]) /\ using[d] # p
        BY <3>2, <2>2, <1>1 DEF IInv, TypeOK, PinsAreUsers
      <4>2. pageTable[using[d]] # f
        BY <2>2, <4>1, <1>2 DEF IInv, PageTableAgrees, UsersOf, IsEmpty
      <4> QED
        BY <4>1, <4>2, <1>1 DEF IInv, TypeOK, Cached, WithoutPageOf
    <3> QED
      BY <3>1, <3>2
  <2> QED
    BY <2>1, <2>2 DEF PinsAreUsers, Cached, UsersOf, UsersNext, IsEmpty
<1>11. CleanIsOnDisk'
  <2> SUFFICES ASSUME NEW g \in Frame, page'[g] # NoPage, ~ dirty'[g],
                      \A d \in UsersNext(page'[g]) : ~ wrote'[d]
               PROVE  data'[g] = file'[page'[g]]
    BY DEF CleanIsOnDisk, IsEmpty, UsersOf, UsersNext
  <2>1. CASE g = f
    BY <2>1, <1>3, EvictionSavesThePage DEF IInv, TypeOK
  <2>2. CASE g # f
    <3>1. page'[g] = page[g] /\ page[g] \in Page /\ ~ dirty[g] /\ ~ IsEmpty(g)
      BY <2>2 DEF IInv, TypeOK, IsEmpty
    <3>2. page[f] # page[g]
      BY <2>2, <3>1 DEF IInv, PageTableAgrees
    <3>3. \A d \in UsersOf(page[g]) : ~ wrote[d]
      BY <3>1, <1>1, <1>3, <1>8
    <3> QED
      BY <2>2, <3>1, <3>2, <3>3, EvictionSavesThePage DEF IInv, TypeOK, CleanIsOnDisk
  <2> QED
    BY <2>1, <2>2
<1> QED
  BY <1>4, <1>5, <1>6, <1>7, <1>10, <1>11 DEF IInv

LEMMA FetchAbsentInvariant ==
  ASSUME IInv, NEW c \in Client, NEW p \in Page, FetchAbsent(c, p)
  PROVE  IInv'
<1> PICK f \in Frame :
       /\ FreeOrVictim(f)
       /\ file' = EvictedToDisk(f)
       /\ page' = [page EXCEPT ![f] = NoPage]
       /\ pins' = [pins EXCEPT ![f] = 0]
       /\ dirty' = [dirty EXCEPT ![f] = FALSE]
       /\ history' = [history EXCEPT ![f] = <<>>]
       /\ pageTable' = WithoutPageOf(f)
  BY DEF FetchAbsent
<1>1. UNCHANGED <<data, accesses, pageCount, using, wrote>>
  BY DEF FetchAbsent, clientVars
<1>2. IsEmpty(f) \/ (~ IsEmpty(f) /\ UsersOf(page[f]) = {})
  BY TakenIsUnused
<1>3. TypeOK'
  BY <1>1, EvictionSavesThePage DEF IInv, TypeOK, WithoutPageOf
<1>4. PageTableAgrees'
  BY DEF IInv, TypeOK, PageTableAgrees, WithoutPageOf, NoFrame, Frame, NoPage, Page
<1>5. EmptyIsClean'
  BY DEF IInv, TypeOK, EmptyIsClean, IsEmpty
<1>6. BeyondTheEnd'
  <2> SUFFICES ASSUME NEW q \in Page, q >= pageCount
               PROVE  file'[q] = Blank /\ pageTable'[q] = NoFrame
    BY <1>1 DEF BeyondTheEnd, Cached
  <2>1. file[q] = Blank /\ pageTable[q] = NoFrame
    BY DEF IInv, BeyondTheEnd, Cached
  <2>2. page[f] # q
    BY <2>1 DEF IInv, PageTableAgrees, NoFrame, Frame
  <2> QED
    BY <2>1, <2>2, EvictionSavesThePage DEF WithoutPageOf
<1>7. \A q : UsersNext(q) = UsersOf(q)
  BY <1>1 DEF UsersOf, UsersNext
<1>8. PinsAreUsers'
  <2>1. \A g \in Frame : pins'[g] = IF page'[g] = NoPage THEN 0 ELSE Cardinality(UsersNext(page'[g]))
    BY <1>7 DEF IInv, TypeOK, PinsAreUsers, IsEmpty
  <2>2. ASSUME NEW d \in Client, using[d] # NoPage
        PROVE  pageTable'[using[d]] # NoFrame
    <3>1. using[d] \in Page /\ pageTable[using[d]] # NoFrame
      BY <2>2 DEF IInv, TypeOK, PinsAreUsers, Cached
    <3>2. pageTable[using[d]] # f
      BY <2>2, <3>1, <1>2 DEF IInv, PageTableAgrees, UsersOf, IsEmpty
    <3> QED
      BY <3>1, <3>2 DEF WithoutPageOf
  <2> QED
    BY <1>1, <2>1, <2>2 DEF PinsAreUsers, Cached, UsersOf, UsersNext, IsEmpty
<1>9. CleanIsOnDisk'
  <2> SUFFICES ASSUME NEW g \in Frame, page'[g] # NoPage, ~ dirty'[g],
                      \A d \in UsersNext(page'[g]) : ~ wrote'[d]
               PROVE  data'[g] = file'[page'[g]]
    BY DEF CleanIsOnDisk, IsEmpty, UsersOf, UsersNext
  <2>1. g # f /\ page'[g] = page[g] /\ page[g] \in Page /\ ~ dirty[g] /\ ~ IsEmpty(g)
    BY DEF IInv, TypeOK, IsEmpty
  <2>2. page[f] # page[g]
    BY <2>1 DEF IInv, PageTableAgrees
  <2>3. \A d \in UsersOf(page[g]) : ~ wrote[d]
    BY <2>1, <1>1, <1>7
  <2> QED
    BY <1>1, <2>1, <2>2, <2>3, EvictionSavesThePage DEF IInv, CleanIsOnDisk
<1> QED
  BY <1>3, <1>4, <1>5, <1>6, <1>8, <1>9 DEF IInv
LEMMA ModifyInvariant ==
  ASSUME IInv, NEW c \in Client, NEW v \in Value, Modify(c, v)
  PROVE  IInv'
<1> DEFINE f == pageTable[using[c]]
<1>0. /\ using[c] # NoPage
      /\ data' = [data EXCEPT ![f] = v]
      /\ wrote' = [wrote EXCEPT ![c] = TRUE]
      /\ UNCHANGED <<page, pins, dirty, history, pageTable, accesses, file, pageCount, using>>
  BY DEF Modify, fileVars
<1>1. using[c] \in Page /\ f \in Frame /\ page[f] = using[c]
  BY <1>0, FrameOfPage DEF IInv, TypeOK, PinsAreUsers
<1> HIDE DEF f
<1>2. TypeOK'
  BY <1>0, <1>1 DEF IInv, TypeOK
<1>3. PageTableAgrees' /\ EmptyIsClean' /\ BeyondTheEnd'
  BY <1>0 DEF IInv, PageTableAgrees, EmptyIsClean, BeyondTheEnd, IsEmpty, Cached
<1>4. PinsAreUsers'
  BY <1>0 DEF IInv, PinsAreUsers, IsEmpty, Cached, UsersOf
<1>5. CleanIsOnDisk'
  <2> SUFFICES ASSUME NEW g \in Frame, page[g] # NoPage, ~ dirty[g],
                      \A d \in UsersOf(page[g]) : ~ wrote'[d]
               PROVE  data'[g] = file[page[g]]
    BY <1>0 DEF CleanIsOnDisk, IsEmpty, UsersOf
  <2>1. c \notin UsersOf(page[g])
    BY <1>0 DEF IInv, TypeOK
  <2>2. g # f
    BY <2>1, <1>1 DEF UsersOf
  <2>3. \A d \in UsersOf(page[g]) : ~ wrote[d]
    BY <2>1, <1>0 DEF IInv, TypeOK, UsersOf
  <2> QED
    BY <2>2, <2>3, <1>0 DEF IInv, TypeOK, CleanIsOnDisk, IsEmpty
<1> QED
  BY <1>2, <1>3, <1>4, <1>5 DEF IInv

LEMMA UnpinInvariant ==
  ASSUME IInv, NEW c \in Client, NEW d \in BOOLEAN, Unpin(c, d)
  PROVE  IInv'
<1> DEFINE p == using[c]
           f == pageTable[p]
<1>0. /\ p # NoPage /\ (wrote[c] => d)
      /\ pins' = [pins EXCEPT ![f] = IF @ > 0 THEN @ - 1 ELSE @]
      /\ dirty' = [dirty EXCEPT ![f] = @ \/ d]
      /\ using' = [using EXCEPT ![c] = NoPage]
      /\ wrote' = [wrote EXCEPT ![c] = FALSE]
      /\ UNCHANGED <<page, data, history, pageTable, accesses, file, pageCount>>
  BY DEF Unpin, fileVars
<1>1. p \in Page /\ f \in Frame /\ page[f] = p /\ pageTable[p] = f
  BY <1>0, FrameOfPage DEF IInv, TypeOK, PinsAreUsers
<1>2. c \in UsersOf(p)
  BY DEF UsersOf
<1> HIDE DEF f, p
<1>3. TypeOK'
  BY <1>0, <1>1 DEF IInv, TypeOK
<1>4. PageTableAgrees' /\ BeyondTheEnd'
  BY <1>0 DEF IInv, PageTableAgrees, BeyondTheEnd, Cached
<1>5. EmptyIsClean'
  BY <1>0, <1>1 DEF IInv, TypeOK, EmptyIsClean, IsEmpty
<1>6. UsersNext(p) = UsersOf(p) \ {c}
  BY <1>0 DEF IInv, TypeOK, UsersOf, UsersNext
<1>7. \A q \in Page : q # p => UsersNext(q) = UsersOf(q)
  BY <1>0, <1>1 DEF IInv, TypeOK, UsersOf, UsersNext, Page, NoPage, p
<1>8. PinsAreUsers'
  <2>1. Cardinality(UsersNext(p)) = Cardinality(UsersOf(p)) - 1 /\ Cardinality(UsersOf(p)) > 0
    <3>1. Cardinality(UsersOf(p)) \in Nat /\ Cardinality(UsersOf(p)) # 0
      BY <1>2, UsersFinite, FS_CardinalityType, FS_EmptySet
    <3>2. Cardinality(UsersNext(p)) = Cardinality(UsersOf(p)) - 1
      BY <1>2, <1>6, UsersFinite, FS_RemoveElement
    <3> QED
      BY <3>1, <3>2
  <2>2. ASSUME NEW g \in Frame
        PROVE  pins'[g] = IF page[g] = NoPage THEN 0 ELSE Cardinality(UsersNext(page[g]))
    <3>1. pins[g] = IF page[g] = NoPage THEN 0 ELSE Cardinality(UsersOf(page[g]))
      BY DEF IInv, PinsAreUsers, IsEmpty
    <3>2. CASE g = f
      BY <3>1, <3>2, <1>0, <1>1, <2>1 DEF IInv, TypeOK
    <3>3. CASE g # f
      <4>1. page[g] # p /\ page[g] \in Page \cup {NoPage} /\ pins'[g] = pins[g]
        BY <3>3, <1>0, <1>1 DEF IInv, TypeOK, PageTableAgrees
      <4> QED
        BY <3>1, <4>1, <1>7
    <3> QED
      BY <3>2, <3>3
  <2>3. \A e \in Client : using'[e] # NoPage => pageTable'[using'[e]] # NoFrame
    BY <1>0 DEF IInv, TypeOK, PinsAreUsers, Cached
  <2> QED
    BY <2>2, <2>3, <1>0 DEF PinsAreUsers, Cached, UsersOf, UsersNext, IsEmpty
<1>9. CleanIsOnDisk'
  <2> SUFFICES ASSUME NEW g \in Frame, page[g] # NoPage, ~ dirty'[g],
                      \A e \in UsersNext(page[g]) : ~ wrote'[e]
               PROVE  data[g] = file[page[g]]
    BY <1>0 DEF CleanIsOnDisk, IsEmpty, UsersOf, UsersNext
  <2>1. page[g] \in Page /\ ~ dirty[g] /\ (g = f => ~ d)
    BY <1>0, <1>1 DEF IInv, TypeOK
  <2>2. \A e \in UsersOf(page[g]) : ~ wrote[e]
    <3>1. CASE g = f
      BY <3>1, <2>1, <1>0, <1>1, <1>6 DEF IInv, TypeOK, UsersOf
    <3>2. CASE g # f
      <4>1. page[g] # p
        BY <3>2, <1>1 DEF IInv, PageTableAgrees
      <4> QED
        BY <4>1, <2>1, <1>0, <1>7 DEF IInv, TypeOK, UsersOf, p
    <3> QED
      BY <3>1, <3>2
  <2> QED
    BY <2>1, <2>2 DEF IInv, CleanIsOnDisk, IsEmpty
<1> QED
  BY <1>3, <1>4, <1>5, <1>8, <1>9 DEF IInv

LEMMA FlushPageInvariant ==
  ASSUME IInv, NEW p \in Page, FlushPage(p)
  PROVE  IInv'
<1> DEFINE f == pageTable[p]
<1>0. /\ Cached(p) /\ dirty[f]
      /\ file' = [file EXCEPT ![p] = data[f]]
      /\ dirty' = [dirty EXCEPT ![f] = FALSE]
      /\ UNCHANGED <<page, data, pins, history, pageTable, accesses, pageCount, using, wrote>>
  BY DEF FlushPage, clientVars
<1>1. f \in Frame /\ page[f] = p
  BY <1>0, FrameOfPage
<1> HIDE DEF f
<1>2. TypeOK'
  BY <1>0, <1>1 DEF IInv, TypeOK
<1>3. PageTableAgrees' /\ EmptyIsClean' /\ PinsAreUsers'
  BY <1>0 DEF IInv, TypeOK, PageTableAgrees, EmptyIsClean, PinsAreUsers, IsEmpty, Cached, UsersOf
<1>4. BeyondTheEnd'
  BY <1>0 DEF IInv, TypeOK, BeyondTheEnd, Cached
<1>5. CleanIsOnDisk'
  BY <1>0, <1>1 DEF IInv, TypeOK, CleanIsOnDisk, PageTableAgrees, IsEmpty, UsersOf
<1> QED
  BY <1>2, <1>3, <1>4, <1>5 DEF IInv

LEMMA FlushAllInvariant ==
  ASSUME IInv, FlushAll
  PROVE  IInv'
<1>0. /\ file' = [p \in Page |-> IF \E f \in Frame : page[f] = p /\ dirty[f]
                                 THEN data[pageTable[p]] ELSE file[p]]
      /\ dirty' = [f \in Frame |-> FALSE]
      /\ UNCHANGED <<page, data, pins, history, pageTable, accesses, pageCount, using, wrote>>
  BY DEF FlushAll, clientVars
<1>1. \A f \in Frame, p \in Page : page[f] = p => pageTable[p] = f
  BY DEF IInv, PageTableAgrees
<1>2. TypeOK'
  BY <1>0, <1>1 DEF IInv, TypeOK
<1>3. PageTableAgrees' /\ EmptyIsClean' /\ PinsAreUsers'
  BY <1>0 DEF IInv, PageTableAgrees, EmptyIsClean, PinsAreUsers, IsEmpty, Cached, UsersOf
<1>4. BeyondTheEnd'
  <2> SUFFICES ASSUME NEW p \in Page, p >= pageCount
               PROVE  file'[p] = Blank /\ pageTable[p] = NoFrame
    BY <1>0 DEF BeyondTheEnd, Cached
  <2>1. file[p] = Blank /\ pageTable[p] = NoFrame
    BY DEF IInv, BeyondTheEnd, Cached
  <2> QED
    BY <2>1, <1>0, <1>1 DEF NoFrame, Frame
<1>5. CleanIsOnDisk'
  <2> SUFFICES ASSUME NEW g \in Frame, page[g] # NoPage,
                      \A d \in UsersOf(page[g]) : ~ wrote[d]
               PROVE  data[g] = file'[page[g]]
    BY <1>0 DEF CleanIsOnDisk, IsEmpty, UsersOf
  <2>1. page[g] \in Page /\ pageTable[page[g]] = g
    BY <1>1 DEF IInv, TypeOK
  <2>2. CASE dirty[g]
    BY <2>1, <2>2, <1>0
  <2>3. CASE ~ dirty[g]
    <3>1. ~ \E f \in Frame : page[f] = page[g] /\ dirty[f]
      BY <2>1, <2>3, <1>1
    <3> QED
      BY <2>1, <2>3, <3>1, <1>0 DEF IInv, CleanIsOnDisk, IsEmpty
  <2> QED
    BY <2>2, <2>3
<1> QED
  BY <1>2, <1>3, <1>4, <1>5 DEF IInv

LEMMA ResetInvariant ==
  ASSUME IInv, Reset
  PROVE  IInv'
<1>1. using' = [c \in Client |-> NoPage]
  <2>1. ASSUME NEW c \in Client PROVE using[c] = NoPage
    <3> SUFFICES ASSUME using[c] # NoPage PROVE FALSE
      OBVIOUS
    <3>1. using[c] \in Page /\ Cached(using[c])
      BY DEF IInv, TypeOK, PinsAreUsers
    <3> DEFINE f == pageTable[using[c]]
    <3>2. f \in Frame /\ page[f] = using[c] /\ ~ IsEmpty(f)
      BY <3>1, FrameOfPage
    <3>3. UsersOf(using[c]) = {}
      BY <3>2, UnpinnedIsUnused DEF Reset
    <3> QED
      BY <3>3 DEF UsersOf
  <2> QED
    BY <2>1 DEF IInv, TypeOK, Reset, clientVars
<1>2. file' \in [Page -> Value] /\ pageCount' \in 0 .. MaxPages
      /\ (\A p \in Page : p >= pageCount' => file'[p] = Blank)
      /\ wrote' \in [Client -> BOOLEAN]
  BY ValuesAssumption, PagesAssumption DEF IInv, TypeOK, Reset, clientVars
<1> QED
  BY <1>1, <1>2, EmptyPoolInvariant DEF Reset

LEMMA AllocateInvariant ==
  ASSUME IInv, AllocatePage
  PROVE  IInv'
<1>0. /\ pageCount < MaxPages /\ pageCount' = pageCount + 1
      /\ UNCHANGED <<page, data, pins, dirty, history, pageTable, accesses, using, wrote>>
  BY DEF AllocatePage, poolVars, frameVars, clientVars
<1>1. file' = file /\ pageCount \in Page
  BY ValuesAssumption, PagesAssumption DEF AllocatePage, IInv, TypeOK, BeyondTheEnd, Page
<1>2. TypeOK'
  BY <1>0, <1>1, PagesAssumption DEF IInv, TypeOK
<1>3. PageTableAgrees' /\ EmptyIsClean' /\ PinsAreUsers' /\ CleanIsOnDisk'
  BY <1>0, <1>1 DEF IInv, PageTableAgrees, EmptyIsClean, PinsAreUsers, CleanIsOnDisk, IsEmpty,
                    Cached, UsersOf
<1>4. BeyondTheEnd'
  BY <1>0, <1>1 DEF IInv, TypeOK, BeyondTheEnd, Cached, Page
<1> QED
  BY <1>2, <1>3, <1>4 DEF IInv

LEMMA CrashInvariant ==
  ASSUME IInv, Crash
  PROVE  IInv'
<1>1. file' \in [Page -> Value] /\ pageCount' \in 0 .. MaxPages
      /\ (\A p \in Page : p >= pageCount' => file'[p] = Blank)
      /\ wrote' \in [Client -> BOOLEAN]
  BY DEF IInv, TypeOK, BeyondTheEnd, Crash, fileVars
<1> QED
  BY <1>1, EmptyPoolInvariant DEF Crash

LEMMA StepInvariant == IInv /\ [Next]_vars => IInv'
<1> SUFFICES ASSUME IInv, [Next]_vars PROVE IInv'
  OBVIOUS
<1>1. CASE UNCHANGED vars
  <2>1. UNCHANGED <<page, data, pins, dirty, history, pageTable, accesses, file, pageCount,
                    using, wrote>>
    BY <1>1 DEF vars, poolVars, frameVars, fileVars, clientVars
  <2> QED
    BY <2>1 DEF IInv, TypeOK, PageTableAgrees, PinsAreUsers, CleanIsOnDisk, EmptyIsClean,
                BeyondTheEnd, IsEmpty, Cached, UsersOf
<1>2. CASE Next
  BY <1>2, FetchHitInvariant, FetchMissInvariant, FetchAbsentInvariant, ModifyInvariant,
     UnpinInvariant, FlushPageInvariant, FlushAllInvariant, ResetInvariant, AllocateInvariant,
     CrashInvariant DEF Next
<1> QED
  BY <1>1, <1>2

(* The invariant holds of every reachable state of the pool.                *)
THEOREM PoolInvariant == Spec => []IInv
<1> QED
  BY InitInvariant, StepInvariant, PTL DEF Spec
(* The type invariant: frames, tables and counters stay in their ranges.    *)
THEOREM TypeCorrect == Spec => []TypeOK
<1>1. IInv => TypeOK
  BY DEF IInv
<1> QED
  BY PoolInvariant, <1>1, PTL

(* No page is ever in two frames, and page_table never names a wrong frame. *)
THEOREM PageTableCorrect == Spec => []PageTableAgrees
<1>1. IInv => PageTableAgrees
  BY DEF IInv
<1> QED
  BY PoolInvariant, <1>1, PTL

(* Pin counts are exact, and a page in use is never evicted, whatever the   *)
(* replacement policy would like to take.                                   *)
THEOREM PinsCorrect == Spec => []PinsAreUsers
<1>1. IInv => PinsAreUsers
  BY DEF IInv
<1> QED
  BY PoolInvariant, <1>1, PTL

(* A frame that may be dropped without a write holds what the file holds.   *)
THEOREM CleanFramesOnDisk == Spec => []CleanIsOnDisk
<1>1. IInv => CleanIsOnDisk
  BY DEF IInv
<1> QED
  BY PoolInvariant, <1>1, PTL

-----------------------------------------------------------------------------
(* The refinement: every method is a step of the page store, or a stutter.  *)

LEMMA InitIsStoreInit == Init => Store!Init
BY DEF Init, Store!Init, Current, Cached

LEMMA FetchHitRefines ==
  ASSUME IInv, NEW c \in Client, NEW p \in Page, FetchHit(c, p)
  PROVE  Store!Next
<1>1. UNCHANGED <<data, pageTable, file, pageCount>> /\ Cached(p)
      /\ using[c] = NoPage /\ using' = [using EXCEPT ![c] = p]
  BY DEF FetchHit, fileVars
<1>2. p < pageCount
  BY <1>1 DEF IInv, TypeOK, BeyondTheEnd, Page
<1>3. file' = [q \in Page |-> IF q \in {} THEN Current[q] ELSE file[q]]
  BY <1>1 DEF IInv, TypeOK
<1>4. Current' = Current
  BY <1>1 DEF Current, Cached
<1>5. Store!Open(c, p, {})
  BY <1>1, <1>2, <1>3, <1>4 DEF Store!Open, Store!Saved
<1> QED
  BY <1>5 DEF Store!Next

(* A fetch that evicts writes the victim back, if at all.                   *)
LEMMA EvictionSaves ==
  ASSUME IInv, NEW f \in Frame, FreeOrVictim(f), file' = EvictedToDisk(f)
  PROVE  \E P \in SUBSET Page : Store!Saved(P)
<1>1. CASE IsEmpty(f) \/ ~ dirty[f]
  <2>1. file' = [p \in Page |-> IF p \in {} THEN Current[p] ELSE file[p]]
    BY <1>1 DEF IInv, TypeOK, EmptyIsClean, EvictedToDisk
  <2>2. Store!Saved({}) /\ {} \in SUBSET Page
    BY <2>1 DEF Store!Saved
  <2> QED
    BY <2>2
<1>2. CASE ~ IsEmpty(f) /\ dirty[f]
  <2> DEFINE q == page[f]
  <2>1. q \in Page /\ pageTable[q] = f /\ Current[q] = data[f]
    BY <1>2 DEF IInv, TypeOK, PageTableAgrees, IsEmpty, Current, Cached, Frame, NoFrame
  <2>2. file' = [p \in Page |-> IF p \in {q} THEN Current[p] ELSE file[p]]
    BY <1>2, <2>1 DEF EvictedToDisk, IInv, TypeOK
  <2>3. Store!Saved({q}) /\ {q} \in SUBSET Page
    BY <2>1, <2>2 DEF Store!Saved
  <2> QED
    BY <2>3
<1> QED
  BY <1>1, <1>2

LEMMA FetchMissRefines ==
  ASSUME IInv, NEW c \in Client, NEW p \in Page, FetchMiss(c, p)
  PROVE  Store!Next
<1> PICK f \in Frame :
       /\ FreeOrVictim(f)
       /\ file' = EvictedToDisk(f)
       /\ data' = [data EXCEPT ![f] = file[p]]
       /\ pageTable' = [WithoutPageOf(f) EXCEPT ![p] = f]
  BY DEF FetchMiss
<1>1. ~ Cached(p) /\ UNCHANGED pageCount /\ p < pageCount
      /\ using[c] = NoPage /\ using' = [using EXCEPT ![c] = p]
  BY DEF FetchMiss
<1>2. ASSUME NEW q \in Page
      PROVE  Current'[q] = Current[q]
  <2>1. CASE q = p
    BY <2>1, <1>1 DEF IInv, TypeOK, Current, Cached, WithoutPageOf, Frame, NoFrame
  <2>2. CASE q # p /\ pageTable[q] = f
    <3>1. page[f] = q
      BY <2>2 DEF IInv, PageTableAgrees
    <3> QED
      BY <2>2, <3>1, EvictionSavesThePage DEF Current, Cached, WithoutPageOf, Frame, NoFrame
  <2>3. CASE q # p /\ pageTable[q] # f
    <3>1. page[f] # q
      BY <2>3 DEF IInv, PageTableAgrees
    <3> QED
      BY <2>3, <3>1, EvictionSavesThePage DEF IInv, TypeOK, Current, Cached, WithoutPageOf
  <2> QED
    BY <2>1, <2>2, <2>3
<1>3. Current' = Current
  BY <1>2 DEF Current
<1>4. PICK P \in SUBSET Page : Store!Saved(P)
  BY EvictionSaves
<1>5. Store!Open(c, p, P)
  BY <1>1, <1>3, <1>4 DEF Store!Open
<1> QED
  BY <1>5 DEF Store!Next

LEMMA FetchAbsentRefines ==
  ASSUME IInv, NEW c \in Client, NEW p \in Page, FetchAbsent(c, p)
  PROVE  Store!Next
<1> PICK f \in Frame :
       /\ FreeOrVictim(f)
       /\ file' = EvictedToDisk(f)
       /\ pageTable' = WithoutPageOf(f)
  BY DEF FetchAbsent
<1>1. UNCHANGED <<data, pageCount, using>>
  BY DEF FetchAbsent, clientVars
<1>2. ASSUME NEW q \in Page
      PROVE  Current'[q] = Current[q]
  <2>1. CASE pageTable[q] = f
    <3>1. page[f] = q
      BY <2>1 DEF IInv, PageTableAgrees
    <3> QED
      BY <2>1, <3>1, EvictionSavesThePage DEF Current, Cached, WithoutPageOf, Frame, NoFrame
  <2>2. CASE pageTable[q] # f
    <3>1. page[f] # q
      BY <2>2 DEF IInv, PageTableAgrees
    <3> QED
      BY <2>2, <3>1, <1>1, EvictionSavesThePage DEF Current, Cached, WithoutPageOf
  <2> QED
    BY <2>1, <2>2
<1>3. Current' = Current
  BY <1>2 DEF Current
<1>4. PICK P \in SUBSET Page : Store!Saved(P)
  BY EvictionSaves
<1>5. Store!WriteBack(P)
  BY <1>1, <1>3, <1>4 DEF Store!WriteBack
<1> QED
  BY <1>5 DEF Store!Next

LEMMA ModifyRefines ==
  ASSUME IInv, NEW c \in Client, NEW v \in Value, Modify(c, v)
  PROVE  Store!Next
<1> DEFINE p == using[c]
           f == pageTable[p]
<1>1. p \in Page /\ Cached(p) /\ f \in Frame /\ page[f] = p
  BY FrameOfPage DEF IInv, TypeOK, PinsAreUsers, Modify
<1>3. data' = [data EXCEPT ![f] = v] /\ UNCHANGED <<pageTable, file, pageCount, using>>
  BY DEF Modify, fileVars
<1>4. ASSUME NEW q \in Page
      PROVE  Current'[q] = IF q = p THEN v ELSE Current[q]
  BY <1>1, <1>3 DEF IInv, TypeOK, PageTableAgrees, Current, Cached, Frame, NoFrame
<1>5. Current' = [Current EXCEPT ![p] = v]
  BY <1>4 DEF Current
<1>6. Store!Write(c, v)
  BY <1>1, <1>3, <1>5 DEF Store!Write
<1> QED
  BY <1>1, <1>6 DEF Store!Next

LEMMA UnpinRefines ==
  ASSUME IInv, NEW c \in Client, NEW d \in BOOLEAN, Unpin(c, d)
  PROVE  Store!Next
<1>1. using[c] \in Page /\ using' = [using EXCEPT ![c] = NoPage]
  BY DEF Unpin, IInv, TypeOK
<1>2. UNCHANGED <<Current, file, pageCount>>
  BY DEF Unpin, Current, Cached, fileVars
<1>3. Store!Close(c)
  BY <1>1, <1>2 DEF Store!Close
<1> QED
  BY <1>3 DEF Store!Next

LEMMA FlushPageRefines ==
  ASSUME IInv, NEW p \in Page, FlushPage(p)
  PROVE  Store!Next
<1>1. UNCHANGED <<data, pageTable, pageCount, using>> /\ Cached(p)
      /\ file' = [file EXCEPT ![p] = data[pageTable[p]]]
  BY DEF FlushPage, clientVars
<1>2. Current' = Current
  BY <1>1 DEF IInv, TypeOK, Current, Cached
<1>3. file' = [q \in Page |-> IF q \in {p} THEN Current[q] ELSE file[q]]
  BY <1>1 DEF IInv, TypeOK, Current
<1>4. Store!WriteBack({p})
  BY <1>1, <1>2, <1>3 DEF Store!WriteBack, Store!Saved
<1>5. {p} \in SUBSET Page
  OBVIOUS
<1> QED
  BY <1>4, <1>5 DEF Store!Next

LEMMA FlushAllRefines ==
  ASSUME IInv, FlushAll
  PROVE  Store!Next
<1> DEFINE P == {p \in Page : \E f \in Frame : page[f] = p /\ dirty[f]}
<1>1. UNCHANGED <<data, pageTable, pageCount, using>>
      /\ file' = [p \in Page |-> IF p \in P THEN data[pageTable[p]] ELSE file[p]]
  BY DEF FlushAll, clientVars
<1>2. \A p \in P : Cached(p)
  BY DEF IInv, PageTableAgrees, Cached, Frame, NoFrame
<1>3. Current' = Current
  BY <1>1, <1>2 DEF Current, Cached
<1>4. file' = [p \in Page |-> IF p \in P THEN Current[p] ELSE file[p]]
  BY <1>1, <1>2 DEF Current
<1>5. Store!WriteBack(P)
  BY <1>1, <1>3, <1>4 DEF Store!WriteBack, Store!Saved
<1>6. P \in SUBSET Page
  OBVIOUS
<1> QED
  BY <1>5, <1>6 DEF Store!Next

LEMMA ResetRefines ==
  ASSUME IInv, Reset
  PROVE  Store!Next
<1>1. \A c \in Client : using[c] = NoPage
  <2> SUFFICES ASSUME NEW c \in Client, using[c] # NoPage
               PROVE  FALSE
    OBVIOUS
  <2> DEFINE f == pageTable[using[c]]
  <2>1. f \in Frame /\ page[f] = using[c] /\ ~ IsEmpty(f)
    BY FrameOfPage DEF IInv, TypeOK, PinsAreUsers
  <2>2. pins[f] = 0
    BY <2>1 DEF Reset
  <2> QED
    BY <2>1, <2>2, UnpinnedIsUnused DEF UsersOf
<1>2. Store!Truncate
  BY <1>1 DEF Reset, EmptyPool, Store!Truncate, Current, Cached, clientVars
<1> QED
  BY <1>2 DEF Store!Next

LEMMA AllocateRefines ==
  ASSUME IInv, AllocatePage
  PROVE  Store!Next
<1>1. file' = file /\ pageCount \in Page
  BY ValuesAssumption, PagesAssumption DEF AllocatePage, IInv, TypeOK, BeyondTheEnd, Page
<1>2. Current' = Current
  BY <1>1 DEF AllocatePage, poolVars, frameVars, Current, Cached
<1>3. Store!Allocate
  BY <1>1, <1>2 DEF AllocatePage, clientVars, Store!Allocate
<1> QED
  BY <1>3 DEF Store!Next

LEMMA CrashRefines ==
  ASSUME IInv, Crash
  PROVE  Store!Next
<1>1. Current' = file
  BY DEF Crash, EmptyPool, fileVars, IInv, TypeOK, Current, Cached
<1>2. Store!Crash
  BY <1>1 DEF Crash, fileVars, Store!Crash
<1> QED
  BY <1>2 DEF Store!Next

(* The pool is a page store: eviction, reloading and flushing never change  *)
(* what a page reads as, and a crash takes back no more than the pages that *)
(* had not been written.                                                    *)
THEOREM PoolIsAPageStore == Spec => ImplementsPageStore
<1>1. IInv /\ [Next]_vars => [Store!Next]_Store!storeVars
  <2> SUFFICES ASSUME IInv, [Next]_vars
               PROVE  Store!Next \/ UNCHANGED Store!storeVars
    OBVIOUS
  <2>1. CASE UNCHANGED vars
    BY <2>1 DEF vars, poolVars, frameVars, fileVars, clientVars, Store!storeVars, Current, Cached
  <2>2. CASE Next
    BY <2>2, FetchHitRefines, FetchMissRefines, FetchAbsentRefines, ModifyRefines, UnpinRefines,
       FlushPageRefines, FlushAllRefines, ResetRefines, AllocateRefines, CrashRefines DEF Next
  <2> QED
    BY <2>1, <2>2
<1> QED
  BY InitIsStoreInit, PoolInvariant, <1>1, PTL DEF Spec, ImplementsPageStore, Store!Spec
-----------------------------------------------------------------------------
(* Replacement.                                                             *)

(* A frame with a page has been referenced, no reference is later than the  *)
(* clock, and no two frames were referenced at the same time.               *)
Referenced(f) == ~ IsEmpty(f) => Len(history[f]) > 0
InThePast(f) == \A i \in DOMAIN history[f] : history[f][i] \in 1 .. accesses
NeverAtOnce(f, g) ==
  f # g => \A i \in DOMAIN history[f], j \in DOMAIN history[g] : history[f][i] # history[g][j]

ClockInv ==
  /\ \A f \in Frame : Referenced(f) /\ InThePast(f)
  /\ \A f, g \in Frame : NeverAtOnce(f, g)

(* A frame is as it was.                                                    *)
Kept(f) == history'[f] = history[f] /\ page'[f] = page[f]

(* A frame is referenced now, as one reference more or as the first.        *)
ReferencedNow(f) ==
  \/ history'[f] = Append(history[f], accesses + 1)
  \/ history'[f] = <<accesses + 1>>

(* Histories that are forgotten or stay as they are keep the invariant.     *)
LEMMA ClockStays ==
  ASSUME TypeOK, ClockInv, accesses' = accesses,
         \A f \in Frame : Kept(f) \/ (page'[f] = NoPage /\ history'[f] = <<>>)
  PROVE  ClockInv'
<1>1. ASSUME NEW f \in Frame PROVE (Referenced(f) /\ InThePast(f))'
  BY <1>1 DEF ClockInv, Referenced, InThePast, IsEmpty, Kept
<1>2. ASSUME NEW f \in Frame, NEW g \in Frame PROVE NeverAtOnce(f, g)'
  BY <1>2 DEF ClockInv, NeverAtOnce, Kept
<1> QED
  BY <1>1, <1>2 DEF ClockInv

(* A reference to one frame keeps it: the clock has moved on.               *)
LEMMA ClockTicks ==
  ASSUME TypeOK, ClockInv, accesses' = accesses + 1, NEW f \in Frame, ReferencedNow(f),
         \A g \in Frame \ {f} : Kept(g)
  PROVE  ClockInv'
<1>0. history \in [Frame -> Seq(Nat)] /\ accesses \in Nat
  BY DEF TypeOK
<1>1. /\ Len(history'[f]) > 0
      /\ \A i \in DOMAIN history'[f] :
           history'[f][i] = accesses + 1 \/ (i \in DOMAIN history[f] /\ history'[f][i] = history[f][i])
  <2>1. CASE history'[f] = Append(history[f], accesses + 1)
    BY <1>0, <2>1
  <2>2. CASE history'[f] = <<accesses + 1>>
    BY <2>2
  <2> QED
    BY <2>1, <2>2 DEF ReferencedNow
<1>2. ASSUME NEW g \in Frame PROVE (Referenced(g) /\ InThePast(g))'
  <2>1. CASE g = f
    BY <1>0, <1>1, <2>1 DEF ClockInv, Referenced, InThePast, IsEmpty
  <2>2. CASE g # f
    BY <1>0, <2>2 DEF ClockInv, Referenced, InThePast, IsEmpty, Kept
  <2> QED
    BY <2>1, <2>2
<1>3. ASSUME NEW g \in Frame \ {f} PROVE NeverAtOnce(f, g)' /\ NeverAtOnce(g, f)'
  <2>1. history'[g] = history[g] /\ InThePast(g) /\ NeverAtOnce(f, g)
    BY <1>3 DEF Kept, ClockInv
  <2>2. \A j \in DOMAIN history[g] : history[g][j] # accesses + 1
    BY <1>0, <2>1 DEF InThePast
  <2> QED
    BY <1>1, <2>1, <2>2 DEF NeverAtOnce
<1>4. ASSUME NEW g \in Frame \ {f}, NEW h \in Frame \ {f} PROVE NeverAtOnce(g, h)'
  BY <1>4 DEF ClockInv, NeverAtOnce, Kept
<1> QED
  BY <1>2, <1>3, <1>4 DEF ClockInv, NeverAtOnce

LEMMA ClockInvStep == IInv /\ ClockInv /\ [Next]_vars => ClockInv'
<1> SUFFICES ASSUME IInv, ClockInv, [Next]_vars PROVE ClockInv'
  OBVIOUS
<1>0. TypeOK
  BY DEF IInv
<1>1. ASSUME NEW c \in Client, NEW p \in Page, FetchHit(c, p) PROVE ClockInv'
  <2> DEFINE f == pageTable[p]
  <2>1. f \in Frame /\ accesses' = accesses + 1 /\ page' = page
        /\ history' = [history EXCEPT ![f] = Append(@, accesses + 1)]
    BY <1>1, FrameOfPage DEF FetchHit
  <2>2. ReferencedNow(f) /\ \A g \in Frame \ {f} : Kept(g)
    BY <1>0, <2>1 DEF TypeOK, ReferencedNow, Kept
  <2> QED
    BY <1>0, <2>1, <2>2, ClockTicks
<1>2. ASSUME NEW c \in Client, NEW p \in Page, FetchMiss(c, p) PROVE ClockInv'
  <2>1. PICK f \in Frame : page' = [page EXCEPT ![f] = p] /\ history' = [history EXCEPT ![f] = <<accesses + 1>>]
    BY <1>2 DEF FetchMiss
  <2>2. ReferencedNow(f) /\ \A g \in Frame \ {f} : Kept(g)
    BY <1>0, <2>1 DEF TypeOK, ReferencedNow, Kept
  <2> QED
    BY <1>0, <1>2, <2>2, ClockTicks DEF FetchMiss
<1>3. ASSUME NEW c \in Client, NEW p \in Page, FetchAbsent(c, p) PROVE ClockInv'
  <2>1. PICK f \in Frame : page' = [page EXCEPT ![f] = NoPage] /\ history' = [history EXCEPT ![f] = <<>>]
    BY <1>3 DEF FetchAbsent
  <2>2. \A g \in Frame : Kept(g) \/ (page'[g] = NoPage /\ history'[g] = <<>>)
    BY <1>0, <2>1 DEF TypeOK, Kept
  <2> QED
    BY <1>0, <1>3, <2>2, ClockStays DEF FetchAbsent
<1>4. CASE EmptyPool
  BY <1>4 DEF EmptyPool, ClockInv, Referenced, InThePast, NeverAtOnce, IsEmpty
<1>5. CASE UNCHANGED <<page, history, accesses>>
  BY <1>0, <1>5, ClockStays DEF Kept
<1>6. EmptyPool \/ UNCHANGED <<page, history, accesses>>
      \/ \E c \in Client, p \in Page : FetchHit(c, p) \/ FetchMiss(c, p) \/ FetchAbsent(c, p)
  BY DEF Next, Modify, Unpin, FlushPage, FlushAll, Reset, AllocatePage, Crash, vars, poolVars, frameVars
<1> QED
  BY <1>1, <1>2, <1>3, <1>4, <1>5, <1>6

LEMMA InitClockInv == Init => ClockInv
BY DEF Init, ClockInv, Referenced, InThePast, NeverAtOnce, IsEmpty

(* The victim is at least as old as every other candidate.  The policy only *)
(* compares K-th references, and those of two frames are never the same.    *)
LEMMA VictimIsOldest ==
  ASSUME TypeOK, ClockInv, NEW f \in Frame, Victim(f), NEW g \in Candidates
  PROVE  Older(f, g)
<1>0. g \in Frame /\ f \in Candidates /\ K \in Nat \ {0} /\ history[f] \in Seq(Nat) /\ history[g] \in Seq(Nat)
  BY PoolAssumption DEF Candidates, Cold, Victim, TypeOK
<1>1. Len(history[f]) > 0 /\ Len(history[g]) > 0
  BY <1>0 DEF ClockInv, Referenced, Candidates
<1>2. InThePast(g) /\ NeverAtOnce(f, g)
  BY <1>0 DEF ClockInv
<1>3. CASE Len(history[f]) < K
  <2>1. f \in Cold /\ \A h \in Cold : Last(history[f]) <= Last(history[h])
    BY <1>0, <1>3 DEF Victim, Cold
  <2>2. CASE Len(history[g]) < K
    BY <1>0, <1>3, <2>1, <2>2 DEF Cold, Older, KthLast
  <2>3. CASE ~ Len(history[g]) < K
    <3>1. Len(history[g]) - K + 1 \in DOMAIN history[g]
      BY <1>0, <2>3
    <3>2. history[g][Len(history[g]) - K + 1] > 0
      BY <1>2, <3>1, <1>0 DEF InThePast, TypeOK
    <3> QED
      BY <1>3, <2>3, <3>2 DEF Older, KthLast
  <2> QED
    BY <2>2, <2>3
<1>4. CASE ~ Len(history[f]) < K
  <2>1. Cold = {} /\ history[f][Len(history[f]) - K + 1] <= history[g][Len(history[g]) - K + 1]
    BY <1>4 DEF Victim, Cold
  <2>2. ~ Len(history[g]) < K
    BY <2>1 DEF Cold
  <2> DEFINE i == Len(history[f]) - K + 1
             j == Len(history[g]) - K + 1
  <2>3. i \in DOMAIN history[f] /\ j \in DOMAIN history[g]
    BY <1>0, <1>4, <2>2
  <2>4. history[f][i] \in Nat /\ history[g][j] \in Nat
    BY <1>0, <2>3
  <2>5. CASE f = g
    BY <1>0, <1>1, <2>5, <2>4, <1>4 DEF Older, KthLast, Last
  <2>6. CASE f # g
    <3>1. history[f][i] # history[g][j]
      BY <1>2, <2>3, <2>6 DEF NeverAtOnce
    <3>2. history[f][i] < history[g][j]
      BY <2>1, <2>4, <3>1
    <3> QED
      BY <1>4, <2>2, <3>2 DEF Older, KthLast
  <2> QED
    BY <2>5, <2>6
<1> QED
  BY <1>3, <1>4

(* The page that leaves the pool is always the one LRU-K gives up, whatever *)
(* K and however often the clock has ticked.                                *)
THEOREM TheColdestLeaves == Spec => EvictsTheColdest
<1> DEFINE Leaves == \A f \in Frame : Evicted(f) /\ (\E g \in Frame : g # f /\ page'[g] = page[g] /\ ~ IsEmpty(g)) =>
                       \A g \in Candidates : Older(f, g)
<1>1. IInv /\ ClockInv /\ [Next]_vars => [Leaves]_vars
  <2> SUFFICES ASSUME IInv, ClockInv, Next, NEW f \in Frame, Evicted(f),
                      NEW h \in Frame, page'[h] = page[h], ~ IsEmpty(h)
               PROVE  \A g \in Candidates : Older(f, g)
    OBVIOUS
  <2>0. TypeOK
    BY DEF IInv
  <2>1. page' # page /\ ~ EmptyPool
    BY DEF Evicted, EmptyPool, IsEmpty
  <2>2. PICK c \in Client, p \in Page : FetchMiss(c, p) \/ FetchAbsent(c, p)
    BY <2>1 DEF Next, FetchHit, Modify, Unpin, FlushPage, FlushAll, Reset, AllocatePage, Crash,
                poolVars, frameVars
  <2>3. PICK e \in Frame : FreeOrVictim(e) /\ \A g \in Frame \ {e} : page'[g] = page[g]
    BY <2>0, <2>2 DEF FetchMiss, FetchAbsent, TypeOK
  <2>4. f = e /\ Victim(f)
    BY <2>3 DEF Evicted, FreeOrVictim
  <2> QED
    BY <2>0, <2>4, VictimIsOldest
<1>2. Spec => []ClockInv
  <2>1. Init => ClockInv
    BY InitClockInv
  <2>2. IInv /\ ClockInv /\ [Next]_vars => ClockInv'
    BY ClockInvStep
  <2> QED
    BY <2>1, <2>2, PoolInvariant, PTL DEF Spec
<1> QED
  BY <1>1, <1>2, PoolInvariant, PTL DEF Spec, EvictsTheColdest
=============================================================================
