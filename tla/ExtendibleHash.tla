--------------------------- MODULE ExtendibleHash ---------------------------
(***************************************************************************)
(* The extendible hash index (src/src/index/extendible_hash): a directory  *)
(* of 2^global depth pointers, buckets of slots, splits.  An operation runs *)
(* under the latch of its table and is one step.                           *)
(***************************************************************************)
EXTENDS Integers, Sequences, FiniteSets, SequencesExt

CONSTANTS Hash,       \* the hash of each key: [Key -> Nat]
          PayloadLen, \* the length of each key with its RID: [Key -> Nat]
          Rid,
          PageRoom,   \* a bucket page without its header
          SlotSize,
          MaxDepth    \* MAX_DIRECTORY_DEPTH

VARIABLES
  directory,  \* the global depth and, from 0, each entry's bucket and local depth
  buckets,    \* the bucket pages: a local depth, slots, the bytes given out
  raised      \* what the last operation raised, or "nothing"

hashVars == <<directory, buckets, raised>>

Key == DOMAIN Hash

Slot(k, r, valid, len) == [key |-> k, rid |-> r, valid |-> valid, len |-> len]
Bucket(depth, slots, data) == [depth |-> depth, slots |-> slots, data |-> data]
Pointer(page, depth) == [page |-> page, depth |-> depth]

(* create                                                                   *)
Init ==
  /\ directory = [depth |-> 0, at |-> [i \in {0} |-> Pointer(1, 0)]]
  /\ buckets = <<Bucket(0, <<>>, 0)>>
  /\ raised = "nothing"

(* 1 << n, for the depths there are                                         *)
Pow2[n \in 0 .. MaxDepth] == IF n = 0 THEN 1 ELSE 2 * Pow2[n - 1]

(* _get_bucket_idx: the lowest global depth bits.                           *)
BucketIdx(k, depth) == Hash[k] % Pow2[depth]

-----------------------------------------------------------------------------
(* HashBucketPage.insert: the first emptied slot that is long enough, then  *)
(* the free space.  <<>> if there is neither.                               *)

Recyclable(b, k) == SelectInSeq(b.slots, LAMBDA s : ~s.valid /\ s.len >= PayloadLen[k])

WithEntry(b, k, r) ==
  LET new == Slot(k, r, TRUE, PayloadLen[k])
      i == Recyclable(b, k)
  IN IF i # 0 THEN <<Bucket(b.depth, [b.slots EXCEPT ![i] = new], b.data)>>
     ELSE IF PageRoom - b.data - Len(b.slots) * SlotSize < SlotSize + PayloadLen[k] THEN <<>>
     ELSE <<Bucket(b.depth, Append(b.slots, new), b.data + PayloadLen[k])>>

(* An insert whose answer nobody looks at.                                  *)
Put(b, k, r) == LET with == WithEntry(b, k, r) IN IF with = <<>> THEN b ELSE with[1]

-----------------------------------------------------------------------------
(* One split of bucket p of the index h.                                    *)

(* _grow_directory: the upper half repeats the lower one.                   *)
GrownDirectory(d) ==
  [depth |-> d.depth + 1, at |-> [i \in 0 .. Pow2[d.depth + 1] - 1 |-> d.at[i % Pow2[d.depth]]]]

(* A bucket as deep as the directory needs one more bit.                    *)
Widened(h, p) == IF h.buckets[p].depth = h.directory.depth THEN GrownDirectory(h.directory) ELSE h.directory

(* A bug: a bucket that is already shallower than the directory is handed   *)
(* on by the top bit of the directory, not by its own.                      *)
HandedByTopBit(d, p, local, new) ==
  [depth |-> d.depth,
   at |-> [i \in DOMAIN d.at |->
     IF d.at[i].page # p THEN d.at[i]
     ELSE Pointer(IF (i \div Pow2[d.depth - 1]) % 2 = 1 THEN new ELSE p, local + 1)]]

(* The pointers to p that have its next bit set lead to the new bucket.     *)
HandedOver(d, p, local, new) ==
  [depth |-> d.depth,
   at |-> [i \in DOMAIN d.at |->
     IF d.at[i].page # p THEN d.at[i]
     ELSE Pointer(IF (i \div Pow2[local]) % 2 = 1 THEN new ELSE p, local + 1)]]

(* The first n slots of the old bucket, each entry put where its pointer in *)
(* the directory d leads.                                                   *)
Redistributed(d, p, new, depth, slots) ==
  LET goes(s) == IF d.at[BucketIdx(s.key, d.depth)].page = p THEN p ELSE new
      after[n \in 0 .. Len(slots)] ==
        IF n = 0 THEN [page \in {p, new} |-> Bucket(depth, <<>>, 0)]
        ELSE IF slots[n].valid
          THEN [after[n - 1] EXCEPT ![goes(slots[n])] = Put(@, slots[n].key, slots[n].rid)]
        ELSE after[n - 1]
  IN after[Len(slots)]

Split(h, p) ==
  LET local == h.buckets[p].depth
      new == Len(h.buckets) + 1
      d == HandedOver(Widened(h, p), p, local, new)
      halves == Redistributed(d, p, new, local + 1, h.buckets[p].slots)
  IN [directory |-> d, buckets |-> Append([h.buckets EXCEPT ![p] = halves[p]], halves[new])]

-----------------------------------------------------------------------------
(* The operations.                                                          *)

Index == [directory |-> directory, buckets |-> buckets]

PageOf(h, k) == h.directory.at[BucketIdx(k, h.directory.depth)].page
BucketOf(h, k) == h.buckets[PageOf(h, k)]

(* A directory that is full raises when it has to grow.                     *)
CanSplit(h, b) == ~(b.depth = h.directory.depth /\ b.depth = MaxDepth)

(* insert splits until the entry fits or the directory cannot grow: each    *)
(* split takes one bit more, MaxDepth at most.  The splits made stay.       *)
Opened(h, k, r) ==
  LET after[n \in 0 .. MaxDepth] ==
        IF n = 0 THEN h
        ELSE LET g == after[n - 1]
             IN IF WithEntry(BucketOf(g, k), k, r) = <<>> /\ CanSplit(g, BucketOf(g, k))
                  THEN Split(g, PageOf(g, k)) ELSE g
  IN after[MaxDepth]

Insert(k, r) ==
  LET h == Opened(Index, k, r)
      with == WithEntry(BucketOf(h, k), k, r)
  IN /\ directory' = h.directory
     /\ buckets' = IF with = <<>> THEN h.buckets ELSE [h.buckets EXCEPT ![PageOf(h, k)] = with[1]]
     /\ raised' = IF with = <<>> THEN "directory full" ELSE "nothing"

(* remove: the slot is left to later inserts; buckets are never joined.     *)
Delete(k, r) ==
  LET p == PageOf(Index, k)
      i == SelectInSeq(buckets[p].slots, LAMBDA s : s.valid /\ s.key = k /\ s.rid = r)
  IN /\ buckets' = IF i = 0 THEN buckets ELSE [buckets EXCEPT ![p].slots[i].valid = FALSE]
     /\ raised' = IF i = 0 THEN "missing" ELSE "nothing"
     /\ UNCHANGED directory

(* get_all_entries                                                          *)
Entries(b) == {b.slots[i] : i \in {j \in DOMAIN b.slots : b.slots[j].valid}}

Search(k) == {s.rid : s \in {x \in Entries(BucketOf(Index, k)) : x.key = k}}

-----------------------------------------------------------------------------
(* What the buckets hold, whoever points to them.                           *)
Indexed == {<<s.key, s.rid>> : s \in UNION {Entries(buckets[p]) : p \in DOMAIN buckets}}
=============================================================================
