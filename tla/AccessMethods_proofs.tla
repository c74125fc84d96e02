------------------------ MODULE AccessMethods_proofs ------------------------
(***************************************************************************)
(* Proofs about the extendible hash index, for any hash function, lengths  *)
(* of keys, sizes of buckets and depth of the directory: every row is in   *)
(* the bucket that a search for its key looks into, no split loses one,    *)
(* and so the index is a set of entries.  And about the R-tree, for any    *)
(* points and any number of entries on a page: pages hang on levels, the   *)
(* box kept for a page is the box of its entries, so no descent misses a   *)
(* row, and the tree is a set of rows.                                     *)
(***************************************************************************)
EXTENDS AccessMethods, Induction_proofs, SequenceTheorems

-----------------------------------------------------------------------------
(* The lowest bits of a number.                                             *)

LEMMA DivMod ==
  ASSUME NEW m \in Nat \ {0}, NEW i \in Nat
  PROVE  i = (i \div m) * m + (i % m) /\ i % m \in 0 .. m - 1 /\ i \div m \in Nat
OBVIOUS

LEMMA ModIs ==
  ASSUME NEW m \in Nat \ {0}, NEW q \in Nat, NEW x \in 0 .. m - 1
  PROVE  (q * m + x) % m = x
OBVIOUS

(* One bit more.                                                            *)
LEMMA NextBit ==
  ASSUME NEW m \in Nat \ {0}, NEW i \in Nat
  PROVE  i % (2 * m) = (i % m) + m * ((i \div m) % 2)
<1> DEFINE q == i \div m
           x == i % m
           h == q \div 2
           b == q % 2
<1>1. i = q * m + x /\ x \in 0 .. m - 1 /\ q \in Nat
  BY DivMod
<1> HIDE DEF q, x
<1>2. q = h * 2 + b /\ b \in 0 .. 1 /\ h \in Nat
  BY <1>1
<1> HIDE DEF h, b
<1>3. i = h * (2 * m) + (x + m * b)
  BY <1>1, <1>2
<1>4. x + m * b \in 0 .. (2 * m) - 1
  <2>1. CASE b = 0
    BY <1>1, <2>1
  <2>2. CASE b = 1
    BY <1>1, <2>2
  <2> QED
    BY <1>2, <2>1, <2>2
<1>5. 2 * m \in Nat \ {0}
  OBVIOUS
<1> DEFINE mm == 2 * m
           y == x + m * b
<1>6. (h * mm + y) % mm = y
  <2>1. mm \in Nat \ {0} /\ y \in 0 .. mm - 1
    BY <1>4, <1>5
  <2> HIDE DEF mm, y
  <2> QED
    BY <1>2, <2>1, ModIs
<1> QED
  BY <1>3, <1>6 DEF q, x, b, h

LEMMA ModMod ==
  ASSUME NEW m \in Nat \ {0}, NEW i \in Nat
  PROVE  (i % (2 * m)) % m = i % m
<1> DEFINE b == (i \div m) % 2
           x == i % m
<1>1. i \div m \in Nat /\ x \in 0 .. m - 1
  BY DivMod
<1>2. b \in Nat
  BY <1>1
<1>3. i % (2 * m) = b * m + x
  <2>1. i % (2 * m) = x + m * b
    BY NextBit
  <2> HIDE DEF b, x
  <2> QED
    BY <2>1, <1>1, <1>2
<1>4. (b * m + x) % m = x
  <2> HIDE DEF b, x
  <2> QED
    BY <1>1, <1>2, ModIs
<1> QED
  BY <1>3, <1>4

(* The powers of two are what their recursion says.                         *)
LEMMA PowersAre ==
  /\ EH!Pow2 \in [0 .. MaxDepth -> Nat]
  /\ EH!Pow2[0] = 1
  /\ \A n \in 1 .. MaxDepth : EH!Pow2[n] = 2 * EH!Pow2[n - 1]
<1> DEFINE N == MaxDepth
           double == [x \in Nat |-> 2 * x]
           step == [n \in 1 .. N |-> double]
<1>1. N \in Nat
  BY HashesAssumption
<1>2. double \in [Nat -> Nat]
  OBVIOUS
<1>3. PICK f : Iterates(f, 1, step, N, Nat)
  <2>1. IsTable(step, N, Nat)
    <3> HIDE DEF double, N
    <3> QED
      BY <1>1, <1>2 DEF IsTable
  <2> HIDE DEF step, N
  <2> QED
    BY <2>1, IterationExists
<1>4. f \in [0 .. N -> Nat] /\ f[0] = 1
  BY <1>3 DEF Iterates
<1>5. ASSUME NEW n \in 1 .. N PROVE f[n] = 2 * f[n - 1]
  <2>1. f[n] = step[n][f[n - 1]] /\ f[n - 1] \in Nat
    <3>1. n - 1 \in 0 .. N
      BY <1>1
    <3> HIDE DEF step, N
    <3> QED
      BY <1>3, <1>4, <3>1 DEF Iterates
  <2>2. step[n] = double
    OBVIOUS
  <2> QED
    BY <2>1, <2>2
<1>6. f = [n \in 0 .. N |-> IF n = 0 THEN 1 ELSE 2 * f[n - 1]]
  <2>1. \A n \in 0 .. N : f[n] = IF n = 0 THEN 1 ELSE 2 * f[n - 1]
    BY <1>1, <1>4, <1>5
  <2>2. f = [n \in 0 .. N |-> f[n]]
    BY <1>4
  <2> HIDE DEF N
  <2> QED
    BY <2>1, <2>2, Zenon
<1>7. EH!Pow2 = [n \in 0 .. N |-> IF n = 0 THEN 1 ELSE 2 * EH!Pow2[n - 1]]
  BY <1>6, Zenon DEF EH!Pow2
<1>8. \A n \in 0 .. N : EH!Pow2[n] = IF n = 0 THEN 1 ELSE 2 * EH!Pow2[n - 1]
  BY <1>7, Zenon
<1> HIDE DEF N
<1>9. \A n \in 0 .. N : EH!Pow2[n] = f[n]
  <2> DEFINE S == {n \in 0 .. N : EH!Pow2[n] = f[n]}
  <2>1. 0 \in S
    BY <1>1, <1>4, <1>8
  <2>2. ASSUME NEW n \in 1 .. N, n - 1 \in S PROVE n \in S
    <3>1. n \in 0 .. N /\ n # 0
      BY <1>1
    <3>2. EH!Pow2[n] = 2 * EH!Pow2[n - 1]
      BY <1>8, <3>1
    <3> QED
      BY <1>5, <2>2, <3>1, <3>2
  <2> HIDE DEF S
  <2>3. 0 .. N \subseteq S
    BY <1>1, <2>1, <2>2, BoundedInduction
  <2> QED
    BY <2>3 DEF S
<1>10. EH!Pow2 = f
  <2>1. EH!Pow2 = [n \in 0 .. N |-> EH!Pow2[n]]
    BY <1>7, <1>8, Zenon
  <2>2. f = [n \in 0 .. N |-> f[n]]
    BY <1>4
  <2> QED
    BY <1>9, <2>1, <2>2, Zenon
<1> QED
  BY <1>4, <1>5, <1>10 DEF N

LEMMA PowersPositive == \A n \in 0 .. MaxDepth : EH!Pow2[n] \in Nat \ {0}
<1> DEFINE S == {n \in 0 .. MaxDepth : EH!Pow2[n] \in Nat \ {0}}
<1>1. 0 \in S
  BY PowersAre, HashesAssumption
<1>2. ASSUME NEW n \in 1 .. MaxDepth, n - 1 \in S PROVE n \in S
  BY <1>2, PowersAre, HashesAssumption
<1> HIDE DEF S
<1>3. 0 .. MaxDepth \subseteq S
  BY <1>1, <1>2, BoundedInduction, HashesAssumption
<1> QED
  BY <1>3 DEF S

(* The lowest a bits, of all bits and of the lowest b.                      *)
LEMMA FewerBits ==
  ASSUME NEW a \in 0 .. MaxDepth, NEW b \in a .. MaxDepth, NEW i \in Nat
  PROVE  (i % EH!Pow2[b]) % EH!Pow2[a] = i % EH!Pow2[a]
<1> DEFINE N == MaxDepth - a
           m == EH!Pow2[a]
           S == {n \in 0 .. N : \A j \in Nat : (j % EH!Pow2[a + n]) % m = j % m}
<1>0. N \in Nat /\ MaxDepth \in Nat /\ a \in Nat /\ b \in Nat
  BY HashesAssumption
<1>1. m \in Nat \ {0}
  BY PowersPositive
<1> HIDE DEF m
<1>2. 0 \in S
  <2>1. ASSUME NEW j \in Nat PROVE (j % m) % m = j % m
    <3>1. j % m \in 0 .. m - 1
      BY <1>1, DivMod
    <3> QED
      BY <1>1, <3>1
  <2> QED
    BY <1>0, <2>1 DEF m
<1>3. ASSUME NEW n \in 1 .. N, n - 1 \in S PROVE n \in S
  <2> DEFINE w == EH!Pow2[a + (n - 1)]
  <2>1. a + (n - 1) \in 0 .. MaxDepth /\ a + n \in 1 .. MaxDepth /\ (a + n) - 1 = a + (n - 1)
    BY <1>0
  <2>2. w \in Nat \ {0} /\ EH!Pow2[a + n] = 2 * w
    BY <2>1, PowersAre, PowersPositive
  <2>3. \A j \in Nat : (j % w) % m = j % m
    BY <1>3
  <2> HIDE DEF w
  <2>4. ASSUME NEW j \in Nat PROVE (j % (2 * w)) % m = j % m
    <3>1. (j % (2 * w)) % w = j % w
      BY <2>2, ModMod
    <3> DEFINE ww == 2 * w
               x == j % ww
    <3>2. ww \in Nat \ {0}
      BY <2>2
    <3>3. x \in Nat
      <4> HIDE DEF ww
      <4>1. j % ww \in 0 .. ww - 1
        BY <3>2, DivMod
      <4> QED
        BY <3>2, <4>1
    <3> HIDE DEF x
    <3>4. (x % w) % m = x % m
      BY <2>3, <3>3
    <3>5. x % w = j % w
      BY <3>1 DEF x
    <3> QED
      BY <2>3, <3>4, <3>5 DEF x
  <2>5. \A j \in Nat : (j % EH!Pow2[a + n]) % m = j % m
    BY <2>2, <2>4
  <2> QED
    BY <1>0, <2>5
<1>4. 0 .. N \subseteq S
  <2> HIDE DEF S, N
  <2> QED
    BY <1>0, <1>2, <1>3, BoundedInduction
<1>5. b - a \in 0 .. N /\ a + (b - a) = b
  BY <1>0
<1> QED
  BY <1>4, <1>5 DEF m

(* Numbers agree in one bit more when they agree and the next bits do.      *)
LEMMA OneBitMore ==
  ASSUME NEW a \in Nat, a < MaxDepth, NEW i \in Nat, NEW j \in Nat
  PROVE  i % EH!Pow2[a + 1] = j % EH!Pow2[a + 1] <=>
           /\ i % EH!Pow2[a] = j % EH!Pow2[a]
           /\ (i \div EH!Pow2[a]) % 2 = (j \div EH!Pow2[a]) % 2
<1> DEFINE m == EH!Pow2[a]
           x == i % m
           y == j % m
           c == (i \div m) % 2
           d == (j \div m) % 2
<1>1. a \in 0 .. MaxDepth /\ a + 1 \in 1 .. MaxDepth /\ (a + 1) - 1 = a
  BY HashesAssumption
<1>2. m \in Nat \ {0} /\ EH!Pow2[a + 1] = 2 * m
  BY <1>1, PowersAre, PowersPositive
<1> HIDE DEF m
<1>3. i \div m \in Nat /\ j \div m \in Nat /\ x \in 0 .. m - 1 /\ y \in 0 .. m - 1
  BY <1>2, DivMod
<1>4. c \in 0 .. 1 /\ d \in 0 .. 1
  BY <1>3
<1>5. i % (2 * m) = x + m * c /\ j % (2 * m) = y + m * d
  BY <1>2, NextBit
<1>6. x + m * c = y + m * d <=> x = y /\ c = d
  <2> HIDE DEF x, y, c, d
  <2>1. m * 0 = 0 /\ m * 1 = m
    BY <1>2
  <2>2. CASE c = 0
    BY <1>2, <1>3, <1>4, <2>1, <2>2
  <2>3. CASE c = 1
    BY <1>2, <1>3, <1>4, <2>1, <2>3
  <2> QED
    BY <1>4, <2>2, <2>3
<1> QED
  BY <1>2, <1>5, <1>6 DEF m

-----------------------------------------------------------------------------
(* Buckets.                                                                 *)

Key == DOMAIN Hash
Rid == {e[2] : e \in HashRow}

SlotSet == [key : Key, rid : Rid, valid : BOOLEAN, len : Nat]
BucketSet == [depth : Nat, slots : Seq(SlotSet), data : Nat]

(* A bucket that has bytes for the payload of every slot: those up to slot  *)
(* n end before mark n.                                                     *)
Marked(b, mark) ==
  /\ mark \in [0 .. Len(b.slots) -> 0 .. b.data]
  /\ \A n \in 1 .. Len(b.slots) : mark[n - 1] + b.slots[n].len <= mark[n]

InPage(b) == b.data + Len(b.slots) * BucketSlot <= BucketRoom

(* Payloads have the length of their key, and no entry comes twice.         *)
Exact(b) == \A i \in DOMAIN b.slots : b.slots[i].valid => b.slots[i].len = PayloadLen[b.slots[i].key]
Distinct(b) ==
  \A i, j \in DOMAIN b.slots :
    b.slots[i].valid /\ b.slots[j].valid /\ b.slots[i].key = b.slots[j].key /\ b.slots[i].rid = b.slots[j].rid
      => i = j

(* Where every key is l long, so is every payload.                          *)
AllLong(l) == \A k \in Key : PayloadLen[k] = l
Even(b) ==
  \A l \in Nat : AllLong(l) =>
    b.data = l * Len(b.slots) /\ \A i \in DOMAIN b.slots : b.slots[i].len = l

BucketOK(b) ==
  /\ b \in BucketSet
  /\ \E mark : Marked(b, mark)
  /\ InPage(b)
  /\ Exact(b)
  /\ Distinct(b)
  /\ Even(b)

Holds(b) == {<<b.slots[i].key, b.slots[i].rid>> : i \in {j \in DOMAIN b.slots : b.slots[j].valid}}

LEMMA FreshBucket ==
  ASSUME NEW d \in Nat
  PROVE  BucketOK(EH!Bucket(d, <<>>, 0)) /\ Holds(EH!Bucket(d, <<>>, 0)) = {}
<1> DEFINE b == EH!Bucket(d, <<>>, 0)
           mark == [n \in 0 .. 0 |-> 0]
<1>1. b \in BucketSet /\ b.slots = <<>> /\ b.data = 0 /\ Len(b.slots) = 0 /\ DOMAIN b.slots = {}
  BY DEF EH!Bucket, BucketSet
<1> HIDE DEF b
<1>2. Marked(b, mark)
  BY <1>1 DEF Marked
<1>3. InPage(b)
  BY <1>1, HashesAssumption DEF InPage
<1>4. Exact(b) /\ Distinct(b) /\ Holds(b) = {}
  BY <1>1 DEF Exact, Distinct, Holds
<1>5. Even(b)
  BY <1>1 DEF Even
<1> QED
  BY <1>1, <1>2, <1>3, <1>4, <1>5 DEF BucketOK, b

LEMMA KeyTypes ==
  ASSUME NEW k \in Key
  PROVE  PayloadLen[k] \in Nat /\ Hash[k] \in Nat
BY HashesAssumption DEF Key

LEMMA BucketTypes ==
  ASSUME NEW b \in BucketSet
  PROVE  /\ b.slots \in Seq(SlotSet) /\ Len(b.slots) \in Nat /\ DOMAIN b.slots = 1 .. Len(b.slots)
         /\ b.data \in Nat /\ b.depth \in Nat
         /\ b = EH!Bucket(b.depth, b.slots, b.data)
         /\ \A i \in DOMAIN b.slots :
              /\ b.slots[i] \in SlotSet /\ b.slots[i].len \in Nat /\ b.slots[i].key \in Key
              /\ b.slots[i].rid \in Rid /\ b.slots[i].valid \in BOOLEAN
<1>1. /\ b.slots \in Seq(SlotSet) /\ b.data \in Nat /\ b.depth \in Nat
      /\ b = EH!Bucket(b.depth, b.slots, b.data)
  BY DEF BucketSet, EH!Bucket
<1>2. ASSUME NEW x \in SlotSet PROVE x.len \in Nat /\ x.key \in Key /\ x.rid \in Rid /\ x.valid \in BOOLEAN
  BY DEF SlotSet
<1>3. Len(b.slots) \in Nat /\ DOMAIN b.slots = 1 .. Len(b.slots)
  BY <1>1
<1>4. \A i \in DOMAIN b.slots : b.slots[i] \in SlotSet
  BY <1>1, <1>3
<1> QED
  BY <1>1, <1>2, <1>3, <1>4

(* The first emptied slot that is long enough, if there is one.             *)
LEMMA RecyclableIs ==
  ASSUME NEW b \in BucketSet, NEW k \in Key
  PROVE  /\ EH!Recyclable(b, k) \in 0 .. Len(b.slots)
         /\ EH!Recyclable(b, k) # 0 =>
              ~ b.slots[EH!Recyclable(b, k)].valid /\ b.slots[EH!Recyclable(b, k)].len >= PayloadLen[k]
         /\ EH!Recyclable(b, k) = 0 =>
              \A i \in DOMAIN b.slots : b.slots[i].valid \/ b.slots[i].len < PayloadLen[k]
<1> DEFINE I == {i \in 1 .. Len(b.slots) : ~ b.slots[i].valid /\ b.slots[i].len >= PayloadLen[k]}
<1>1. I \subseteq Nat /\ I \subseteq 1 .. Len(b.slots) /\ DOMAIN b.slots = 1 .. Len(b.slots)
  BY DEF BucketSet
<1>2. CASE I = {}
  <2>1. EH!Recyclable(b, k) = 0
    BY <1>2, Zenon DEF EH!Recyclable, EH!SelectInSeq
  <2>2. ASSUME NEW i \in DOMAIN b.slots PROVE b.slots[i].valid \/ b.slots[i].len < PayloadLen[k]
    <3>1. b.slots[i].len \in Nat /\ PayloadLen[k] \in Nat
      BY BucketTypes, KeyTypes
    <3>2. i \notin I /\ i \in 1 .. Len(b.slots)
      BY <1>1, <1>2
    <3> QED
      BY <3>1, <3>2
  <2>3. Len(b.slots) \in Nat
    BY DEF BucketSet
  <2> QED
    BY <2>1, <2>2, <2>3
<1>3. CASE I # {}
  <2>1. \E x \in I : \A y \in I : x <= y
    <3> HIDE DEF I
    <3> QED
      BY <1>1, <1>3, LeastNat
  <2>2. EH!Recyclable(b, k) = EH!Min(I)
    BY <1>3, Zenon DEF EH!Recyclable, EH!SelectInSeq
  <2>3. EH!Min(I) \in I
    BY <2>1, Zenon DEF EH!Min
  <2> QED
    BY <1>1, <2>2, <2>3, SMTT(30)
<1> QED
  BY <1>2, <1>3

(* What WithEntry makes of a bucket: a slot used again, one slot more, or   *)
(* nothing.                                                                 *)
NewSlot(k, r) == EH!Slot(k, r, TRUE, PayloadLen[k])
Reused(b, i, k, r) == EH!Bucket(b.depth, [b.slots EXCEPT ![i] = NewSlot(k, r)], b.data)
Appended(b, k, r) == EH!Bucket(b.depth, Append(b.slots, NewSlot(k, r)), b.data + PayloadLen[k])
TooSmall(b, k) == BucketRoom - b.data - Len(b.slots) * BucketSlot < BucketSlot + PayloadLen[k]

LEMMA WithEntryForms ==
  ASSUME NEW b \in BucketSet, NEW k, NEW r
  PROVE  EH!WithEntry(b, k, r) =
           IF EH!Recyclable(b, k) # 0 THEN <<Reused(b, EH!Recyclable(b, k), k, r)>>
           ELSE IF TooSmall(b, k) THEN <<>> ELSE <<Appended(b, k, r)>>
BY Zenon DEF EH!WithEntry, NewSlot, TooSmall, Reused, Appended

LEMMA NewSlotType ==
  ASSUME NEW k \in Key, NEW r \in Rid
  PROVE  NewSlot(k, r) \in SlotSet
BY KeyTypes DEF NewSlot, SlotSet, EH!Slot

LEMMA ReusedType ==
  ASSUME NEW b \in BucketSet, NEW i, NEW k \in Key, NEW r \in Rid
  PROVE  Reused(b, i, k, r) \in BucketSet
<1>1. [b.slots EXCEPT ![i] = NewSlot(k, r)] \in Seq(SlotSet)
  <2>1. ASSUME NEW n \in Nat, NEW s \in [1 .. n -> SlotSet], NEW x \in SlotSet
        PROVE  [s EXCEPT ![i] = x] \in Seq(SlotSet)
    <3>1. [s EXCEPT ![i] = x] \in [1 .. n -> SlotSet]
      OBVIOUS
    <3> HIDE DEF SlotSet
    <3> QED
      BY <3>1
  <2>2. Len(b.slots) \in Nat /\ b.slots \in [1 .. Len(b.slots) -> SlotSet]
    BY BucketTypes
  <2> QED
    BY <2>1, <2>2, NewSlotType
<1> QED
  BY <1>1, BucketTypes DEF Reused, BucketSet, EH!Bucket

LEMMA AppendedType ==
  ASSUME NEW b \in BucketSet, NEW k \in Key, NEW r \in Rid
  PROVE  Appended(b, k, r) \in BucketSet
<1>1. Append(b.slots, NewSlot(k, r)) \in Seq(SlotSet)
  BY BucketTypes, NewSlotType
<1>2. b.data + PayloadLen[k] \in Nat
  BY BucketTypes, KeyTypes
<1> QED
  BY <1>1, <1>2, BucketTypes DEF Appended, BucketSet, EH!Bucket

LEMMA PutType ==
  ASSUME NEW b \in BucketSet, NEW k \in Key, NEW r \in Rid
  PROVE  EH!Put(b, k, r) \in BucketSet
<1> DEFINE w == EH!WithEntry(b, k, r)
<1>1. w = <<>> \/ w[1] \in BucketSet
  BY WithEntryForms, ReusedType, AppendedType
<1> HIDE DEF w
<1>2. EH!Put(b, k, r) = IF w = <<>> THEN b ELSE w[1]
  BY DEF EH!Put, w
<1> QED
  BY <1>1, <1>2

(* A bucket that has, in slot i, one entry more.                            *)
Gets(b, c, i, k, r) ==
  /\ i \in DOMAIN c.slots /\ DOMAIN c.slots = DOMAIN b.slots \union {i}
  /\ i \in DOMAIN b.slots => ~ b.slots[i].valid
  /\ c.slots[i] = NewSlot(k, r)
  /\ \A j \in DOMAIN b.slots \ {i} : c.slots[j] = b.slots[j]

LEMMA GetsKeeps ==
  ASSUME NEW b, NEW c, NEW i, NEW k, NEW r, Gets(b, c, i, k, r),
         Exact(b), Distinct(b), <<k, r>> \notin Holds(b)
  PROVE  Exact(c) /\ Distinct(c) /\ Holds(c) = Holds(b) \union {<<k, r>>}
<1>1. /\ i \in DOMAIN c.slots /\ c.slots[i].key = k /\ c.slots[i].rid = r
      /\ c.slots[i].valid /\ c.slots[i].len = PayloadLen[k]
      /\ DOMAIN c.slots = DOMAIN b.slots \union {i}
      /\ i \in DOMAIN b.slots => ~ b.slots[i].valid
  BY DEF Gets, NewSlot, EH!Slot
<1>2. \A j \in DOMAIN c.slots \ {i} : j \in DOMAIN b.slots /\ c.slots[j] = b.slots[j]
  BY DEF Gets
<1>3. Exact(c)
  BY <1>1, <1>2 DEF Exact
<1>4. \A j \in DOMAIN b.slots : b.slots[j].valid => ~ (b.slots[j].key = k /\ b.slots[j].rid = r)
  BY DEF Holds
<1>5. Distinct(c)
  BY <1>1, <1>2, <1>4 DEF Distinct
<1>6. Holds(c) = Holds(b) \union {<<k, r>>}
  <2>1. ASSUME NEW e \in Holds(c) PROVE e \in Holds(b) \union {<<k, r>>}
    <3>1. PICK j \in DOMAIN c.slots : c.slots[j].valid /\ e = <<c.slots[j].key, c.slots[j].rid>>
      BY DEF Holds
    <3> QED
      BY <1>1, <1>2, <3>1 DEF Holds
  <2>2. ASSUME NEW e \in Holds(b) PROVE e \in Holds(c)
    <3>1. PICK j \in DOMAIN b.slots : b.slots[j].valid /\ e = <<b.slots[j].key, b.slots[j].rid>>
      BY DEF Holds
    <3>2. j \in DOMAIN c.slots \ {i}
      BY <1>1, <3>1
    <3> QED
      BY <1>2, <3>1, <3>2 DEF Holds
  <2>3. <<k, r>> \in Holds(c)
    BY <1>1 DEF Holds
  <2> QED
    BY <2>1, <2>2, <2>3
<1> QED
  BY <1>3, <1>5, <1>6

(* An emptied slot that is used again.                                      *)
LEMMA ReusedKeeps ==
  ASSUME NEW b, BucketOK(b), NEW k \in Key, NEW r \in Rid, <<k, r>> \notin Holds(b),
         NEW i \in DOMAIN b.slots, ~ b.slots[i].valid, b.slots[i].len >= PayloadLen[k]
  PROVE  BucketOK(Reused(b, i, k, r)) /\ Holds(Reused(b, i, k, r)) = Holds(b) \union {<<k, r>>}
<1> DEFINE c == Reused(b, i, k, r)
           new == NewSlot(k, r)
<1>0. b \in BucketSet /\ c \in BucketSet
  BY ReusedType DEF BucketOK
<1>1. /\ b.slots \in Seq(SlotSet) /\ Len(b.slots) \in Nat /\ DOMAIN b.slots = 1 .. Len(b.slots)
      /\ \A j \in DOMAIN b.slots : b.slots[j].len \in Nat
  BY <1>0, BucketTypes
<1>2. c.slots = [b.slots EXCEPT ![i] = new] /\ c.data = b.data
  BY DEF Reused, EH!Bucket
<1> HIDE DEF c
<1>3. /\ Len(c.slots) = Len(b.slots) /\ DOMAIN c.slots = DOMAIN b.slots /\ c.slots[i] = new
      /\ \A j \in DOMAIN b.slots \ {i} : c.slots[j] = b.slots[j]
  BY <1>1, <1>2
<1>4. new.len = PayloadLen[k] /\ PayloadLen[k] \in Nat
  BY KeyTypes DEF NewSlot, EH!Slot
<1>5. Gets(b, c, i, k, r)
  BY <1>3 DEF Gets
<1>6. Exact(c) /\ Distinct(c) /\ Holds(c) = Holds(b) \union {<<k, r>>}
  BY <1>5, GetsKeeps DEF BucketOK
<1>7. \E mark : Marked(c, mark)
  <2>1. PICK mark : Marked(b, mark)
    BY DEF BucketOK
  <2>2. mark \in [0 .. Len(c.slots) -> 0 .. c.data]
    BY <1>2, <1>3, <2>1 DEF Marked
  <2>3. b.data \in Nat
    BY <1>0, BucketTypes
  <2>4. ASSUME NEW n \in 1 .. Len(c.slots) PROVE mark[n - 1] + c.slots[n].len <= mark[n]
    <3>1. n \in DOMAIN b.slots /\ mark[n - 1] + b.slots[n].len <= mark[n]
      BY <1>1, <1>3, <2>1 DEF Marked
    <3>2. mark[n - 1] \in Nat /\ mark[n] \in Nat
      <4>1. n - 1 \in 0 .. Len(b.slots) /\ n \in 0 .. Len(b.slots)
        BY <1>1, <1>3
      <4>2. mark \in [0 .. Len(b.slots) -> 0 .. b.data]
        BY <2>1 DEF Marked
      <4> QED
        BY <2>3, <4>1, <4>2
    <3>3. c.slots[n].len <= b.slots[n].len /\ c.slots[n].len \in Nat /\ b.slots[n].len \in Nat
      BY <1>1, <1>3, <1>4, <3>1, SMTT(30)
    <3> QED
      BY <3>1, <3>2, <3>3
  <2> QED
    BY <2>2, <2>4 DEF Marked
<1>8. InPage(c)
  BY <1>2, <1>3 DEF InPage, BucketOK
<1>9. Even(c)
  <2>1. ASSUME NEW l \in Nat, AllLong(l)
        PROVE  c.data = l * Len(c.slots) /\ \A j \in DOMAIN c.slots : c.slots[j].len = l
    <3>1. b.data = l * Len(b.slots) /\ \A j \in DOMAIN b.slots : b.slots[j].len = l
      BY <2>1 DEF BucketOK, Even
    <3>2. new.len = l
      BY <1>4, <2>1 DEF AllLong
    <3> QED
      BY <1>2, <1>3, <3>1, <3>2
  <2> QED
    BY <2>1 DEF Even
<1> QED
  BY <1>0, <1>6, <1>7, <1>8, <1>9 DEF BucketOK, c

(* A slot more, where there is room.                                        *)
LEMMA AppendedKeeps ==
  ASSUME NEW b, BucketOK(b), NEW k \in Key, NEW r \in Rid, <<k, r>> \notin Holds(b), ~ TooSmall(b, k)
  PROVE  BucketOK(Appended(b, k, r)) /\ Holds(Appended(b, k, r)) = Holds(b) \union {<<k, r>>}
<1> DEFINE c == Appended(b, k, r)
           new == NewSlot(k, r)
           len == Len(b.slots)
           p == PayloadLen[k]
<1>0. b \in BucketSet /\ c \in BucketSet
  BY AppendedType DEF BucketOK
<1>1. /\ b.slots \in Seq(SlotSet) /\ len \in Nat /\ DOMAIN b.slots = 1 .. len /\ b.data \in Nat
      /\ \A j \in DOMAIN b.slots : b.slots[j].len \in Nat
  BY <1>0, BucketTypes
<1>2. c.slots = Append(b.slots, new) /\ c.data = b.data + p
  BY DEF Appended, EH!Bucket
<1>4. new.len = p /\ p \in Nat
  BY KeyTypes DEF NewSlot, EH!Slot
<1> HIDE DEF c, new
<1>3. /\ Len(c.slots) = len + 1 /\ DOMAIN c.slots = 1 .. len + 1 /\ c.slots[len + 1] = new
      /\ \A j \in 1 .. len : c.slots[j] = b.slots[j]
  BY <1>1, <1>2
<1> HIDE DEF len, p
<1>5. Gets(b, c, len + 1, k, r)
  BY <1>1, <1>3 DEF Gets, new
<1>6. Exact(c) /\ Distinct(c) /\ Holds(c) = Holds(b) \union {<<k, r>>}
  BY <1>5, GetsKeeps DEF BucketOK
<1>7. \E mark : Marked(c, mark)
  <2>1. PICK mark : Marked(b, mark)
    BY DEF BucketOK
  <2> DEFINE longer == [n \in 0 .. len + 1 |-> IF n = len + 1 THEN b.data + p ELSE mark[n]]
  <2>2. mark \in [0 .. len -> 0 .. b.data]
    BY <2>1 DEF Marked, len
  <2>3. longer \in [0 .. Len(c.slots) -> 0 .. c.data]
    BY <1>1, <1>2, <1>3, <1>4, <2>2
  <2>4. ASSUME NEW n \in 1 .. Len(c.slots) PROVE longer[n - 1] + c.slots[n].len <= longer[n]
    <3>1. CASE n = len + 1
      <4>1. longer[n] = b.data + p /\ longer[n - 1] = mark[len] /\ mark[len] \in 0 .. b.data
        BY <1>1, <2>2, <3>1
      <4> QED
        BY <1>1, <1>3, <1>4, <3>1, <4>1
    <3>2. CASE n # len + 1
      <4>1. n \in 1 .. len
        BY <1>1, <1>3, <3>2
      <4>2. longer[n] = mark[n] /\ longer[n - 1] = mark[n - 1] /\ c.slots[n] = b.slots[n]
        BY <1>1, <1>3, <4>1
      <4>3. mark[n - 1] + b.slots[n].len <= mark[n]
        BY <2>1, <4>1 DEF Marked, len
      <4> QED
        BY <4>2, <4>3
    <3> QED
      BY <3>1, <3>2
  <2> QED
    BY <2>3, <2>4 DEF Marked
<1>8. InPage(c)
  <2>1. BucketSlot \in Nat /\ BucketRoom \in Nat
    BY HashesAssumption
  <2>2. (len + 1) * BucketSlot = len * BucketSlot + BucketSlot /\ len * BucketSlot \in Nat
    BY <1>1, <2>1
  <2> DEFINE x == len * BucketSlot
  <2>3. ~ (BucketRoom - b.data - x < BucketSlot + p)
    BY DEF TooSmall, len, p
  <2>4. Len(c.slots) * BucketSlot = x + BucketSlot /\ x \in Nat
    BY <1>3, <2>2
  <2> HIDE DEF x
  <2>5. b.data + p + (x + BucketSlot) <= BucketRoom
    BY <1>1, <1>4, <2>1, <2>3, <2>4
  <2> QED
    BY <1>2, <2>4, <2>5 DEF InPage
<1>9. Even(c)
  <2>1. ASSUME NEW l \in Nat, AllLong(l)
        PROVE  c.data = l * Len(c.slots) /\ \A j \in DOMAIN c.slots : c.slots[j].len = l
    <3>1. b.data = l * len /\ \A j \in DOMAIN b.slots : b.slots[j].len = l
      BY <2>1 DEF BucketOK, Even, len
    <3>2. new.len = l /\ p = l
      BY <1>4, <2>1 DEF AllLong, p
    <3>3. l * (len + 1) = l * len + l
      BY <1>1
    <3>4. c.data = l * Len(c.slots)
      BY <1>2, <1>3, <3>1, <3>2, <3>3
    <3> QED
      BY <1>1, <1>3, <3>1, <3>2, <3>4
  <2> QED
    BY <2>1 DEF Even
<1> QED
  BY <1>0, <1>6, <1>7, <1>8, <1>9 DEF BucketOK, c

(* An insert into a bucket that succeeds adds its entry and no more.        *)
LEMMA WithEntryKeeps ==
  ASSUME NEW b, BucketOK(b), NEW k \in Key, NEW r \in Rid, <<k, r>> \notin Holds(b),
         EH!WithEntry(b, k, r) # <<>>
  PROVE  /\ BucketOK(EH!WithEntry(b, k, r)[1])
         /\ EH!WithEntry(b, k, r)[1].depth = b.depth
         /\ Holds(EH!WithEntry(b, k, r)[1]) = Holds(b) \union {<<k, r>>}
<1> DEFINE i == EH!Recyclable(b, k)
           w == EH!WithEntry(b, k, r)
<1>0. b \in BucketSet
  BY DEF BucketOK
<1>1. /\ Len(b.slots) \in Nat /\ DOMAIN b.slots = 1 .. Len(b.slots)
  BY <1>0, BucketTypes
<1>2. w = IF i # 0 THEN <<Reused(b, i, k, r)>> ELSE IF TooSmall(b, k) THEN <<>> ELSE <<Appended(b, k, r)>>
  BY <1>0, WithEntryForms
<1>3. CASE i # 0
  <2>1. i \in DOMAIN b.slots /\ ~ b.slots[i].valid /\ b.slots[i].len >= PayloadLen[k]
    BY <1>0, <1>1, <1>3, RecyclableIs
  <2>2. w[1] = Reused(b, i, k, r) /\ w[1].depth = b.depth
    BY <1>2, <1>3 DEF Reused, EH!Bucket
  <2> HIDE DEF i, w
  <2> QED
    BY <2>1, <2>2, ReusedKeeps DEF w
<1>4. CASE i = 0
  <2>1. ~ TooSmall(b, k)
    BY <1>2, <1>4
  <2>2. w[1] = Appended(b, k, r) /\ w[1].depth = b.depth
    BY <1>2, <1>4, <2>1 DEF Appended, EH!Bucket
  <2> HIDE DEF i, w
  <2> QED
    BY <2>1, <2>2, AppendedKeeps DEF w
<1> QED
  BY <1>3, <1>4

-----------------------------------------------------------------------------
(* A split: the entries of bucket b are put, one after the other, where     *)
(* their pointers lead.                                                     *)

(* What the first n slots have filled: no more than they took in b.         *)
Slim(c, n, bytes) ==
  /\ BucketOK(c)
  /\ \A i \in DOMAIN c.slots : c.slots[i].valid
  /\ Len(c.slots) <= n
  /\ c.data <= bytes

(* So there is always room for the next one.                                *)
LEMMA PutKeepsSlim ==
  ASSUME NEW b, BucketOK(b), NEW mark, Marked(b, mark),
         NEW n \in 1 .. Len(b.slots), b.slots[n].valid,
         NEW c, Slim(c, n - 1, mark[n - 1]),
         <<b.slots[n].key, b.slots[n].rid>> \notin Holds(c)
  PROVE  LET k == b.slots[n].key
             r == b.slots[n].rid
         IN /\ Slim(EH!Put(c, k, r), n, mark[n])
            /\ EH!Put(c, k, r).depth = c.depth
            /\ Holds(EH!Put(c, k, r)) = Holds(c) \union {<<k, r>>}
<1> DEFINE k == b.slots[n].key
           r == b.slots[n].rid
           p == PayloadLen[k]
           a == Appended(c, k, r)
<1>1. /\ b \in BucketSet /\ c \in BucketSet /\ BucketOK(c) /\ \A i \in DOMAIN c.slots : c.slots[i].valid
      /\ Len(c.slots) <= n - 1 /\ c.data <= mark[n - 1]
  BY DEF BucketOK, Slim
<1>2. /\ Len(b.slots) \in Nat /\ DOMAIN b.slots = 1 .. Len(b.slots) /\ b.data \in Nat
      /\ k \in Key /\ r \in Rid /\ n \in Nat
  BY <1>1, BucketTypes
<1>3. /\ c.slots \in Seq(SlotSet) /\ Len(c.slots) \in Nat /\ DOMAIN c.slots = 1 .. Len(c.slots) /\ c.data \in Nat
  BY <1>1, BucketTypes
<1>4. p \in Nat
  BY <1>2, KeyTypes
<1>5. /\ mark[n - 1] + p <= mark[n]
      /\ mark[n - 1] \in Nat /\ mark[n] \in 0 .. b.data
  <2>1. b.slots[n].len = p
    BY <1>2 DEF BucketOK, Exact
  <2>2. mark \in [0 .. Len(b.slots) -> 0 .. b.data] /\ mark[n - 1] + b.slots[n].len <= mark[n]
    BY DEF Marked
  <2>3. n - 1 \in 0 .. Len(b.slots) /\ n \in 0 .. Len(b.slots)
    BY <1>2
  <2>4. mark[n - 1] \in 0 .. b.data /\ mark[n] \in 0 .. b.data
    BY <2>2, <2>3
  <2> QED
    BY <1>2, <2>1, <2>2, <2>4
<1>6. EH!Recyclable(c, k) = 0
  <2>1. EH!Recyclable(c, k) \in 0 .. Len(c.slots)
    BY <1>1, <1>2, RecyclableIs
  <2>2. EH!Recyclable(c, k) # 0 => ~ c.slots[EH!Recyclable(c, k)].valid
    BY <1>1, <1>2, RecyclableIs
  <2> HIDE DEF k
  <2> QED
    BY <1>1, <1>3, <2>1, <2>2
<1>7. ~ TooSmall(c, k)
  <2> DEFINE x == Len(c.slots)
             y == Len(b.slots)
             sx == x * BucketSlot
             sy == y * BucketSlot
             size == BucketSlot
  <2>1. size \in Nat /\ BucketRoom \in Nat /\ x \in Nat /\ y \in Nat /\ x + 1 <= y
    BY <1>1, <1>2, <1>3, HashesAssumption
  <2>2. sx + size <= sy /\ sx \in Nat /\ sy \in Nat
    <3> HIDE DEF size, x, y
    <3>1. y = (x + 1) + (y - (x + 1)) /\ y - (x + 1) \in Nat
      BY <2>1
    <3>2. \A u, v, z \in Nat : (u + v) * z = u * z + v * z /\ u * z \in Nat
      OBVIOUS
    <3>3. y * size = (x + 1) * size + (y - (x + 1)) * size
      BY <2>1, <3>1, <3>2
    <3>4. (x + 1) * size = x * size + size /\ x * size \in Nat /\ (y - (x + 1)) * size \in Nat
      BY <2>1, <3>1, <3>2
    <3>5. x * size + size <= y * size /\ y * size \in Nat
      <4> DEFINE u == x * size
                 v == (y - (x + 1)) * size
                 w == y * size
                 z == (x + 1) * size
      <4>1. w = z + v /\ z = u + size /\ u \in Nat /\ v \in Nat
        BY <3>3, <3>4
      <4> HIDE DEF u, v, w, z
      <4>2. u + size <= w /\ w \in Nat
        BY <2>1, <4>1
      <4> QED
        BY <4>2 DEF u, w
    <3> QED
      BY <3>4, <3>5 DEF size
  <2>3. b.data + sy <= BucketRoom
    BY DEF BucketOK, InPage
  <2> HIDE DEF x, y, sx, sy, size, p, k
  <2>4. ~ (BucketRoom - c.data - sx < size + p)
    <3>1. \A u, v, w, z, bd, s, t, l, q \in Nat :
            u <= v /\ v + q <= w /\ w <= bd /\ s + z <= t /\ bd + t <= l => ~ (l - u - s < z + q)
      OBVIOUS
    <3>2. /\ c.data \in Nat /\ mark[n - 1] \in Nat /\ mark[n] \in Nat /\ mark[n] <= b.data
          /\ b.data \in Nat /\ p \in Nat /\ size \in Nat
      BY <1>2, <1>3, <1>4, <1>5, <2>1
    <3> QED
      BY <1>1, <1>5, <2>1, <2>2, <2>3, <3>1, <3>2, Zenon
  <2> QED
    BY <2>4 DEF TooSmall, sx, x, size, p
<1>8. EH!Put(c, k, r) = a
  <2>1. EH!WithEntry(c, k, r) = <<a>>
    BY <1>1, <1>6, <1>7, WithEntryForms
  <2> HIDE DEF k, r, a
  <2> QED
    BY <2>1 DEF EH!Put
<1>9. BucketOK(a) /\ Holds(a) = Holds(c) \union {<<k, r>>}
  BY <1>1, <1>2, <1>7, AppendedKeeps
<1>10. /\ a.depth = c.depth /\ a.data = c.data + p /\ a.slots = Append(c.slots, NewSlot(k, r))
  BY DEF Appended, EH!Bucket
<1>11. Slim(a, n, mark[n])
  <2> HIDE DEF k, r, a, p
  <2>1. NewSlot(k, r).valid
    BY DEF NewSlot, EH!Slot
  <2>2. Len(a.slots) = Len(c.slots) + 1 /\ \A i \in DOMAIN a.slots : a.slots[i].valid
    BY <1>1, <1>3, <1>10, <2>1
  <2>3. Len(a.slots) <= n
    BY <1>1, <1>2, <1>3, <2>2
  <2>4. a.data <= mark[n]
    BY <1>1, <1>2, <1>3, <1>4, <1>5, <1>10
  <2> QED
    BY <1>9, <2>2, <2>3, <2>4 DEF Slim
<1> QED
  BY <1>8, <1>9, <1>10, <1>11

(* Where the entry of slot s goes, and what the n first slots of b send to  *)
(* page q.                                                                  *)
Goes(d, p, new, s) == IF d.at[EH!BucketIdx(s.key, d.depth)].page = p THEN p ELSE new
Sent(b, d, p, new, q, n) ==
  {<<b.slots[i].key, b.slots[i].rid>> :
     i \in {j \in 1 .. n : b.slots[j].valid /\ Goes(d, p, new, b.slots[j]) = q}}

(* The two buckets after n slots.                                           *)
HalvesAre(f, b, d, p, new, depth, n, mark) ==
  \A q \in {p, new} :
    /\ Slim(f[q], n, mark[n])
    /\ f[q].depth = depth
    /\ Holds(f[q]) = Sent(b, d, p, new, q, n)

LEMMA OneMoreSlot ==
  ASSUME NEW b, BucketOK(b), NEW mark, Marked(b, mark), NEW d, NEW p, NEW new, NEW depth,
         NEW n \in 1 .. Len(b.slots),
         NEW f \in [{p, new} -> BucketSet], HalvesAre(f, b, d, p, new, depth, n - 1, mark)
  PROVE  LET s == b.slots[n]
             g == IF s.valid THEN [f EXCEPT ![Goes(d, p, new, s)] = EH!Put(f[Goes(d, p, new, s)], s.key, s.rid)]
                  ELSE f
         IN HalvesAre(g, b, d, p, new, depth, n, mark)
<1> DEFINE s == b.slots[n]
           to == Goes(d, p, new, s)
           put == EH!Put(f[to], s.key, s.rid)
           g == IF s.valid THEN [f EXCEPT ![to] = put] ELSE f
<1>1. b \in BucketSet
  BY DEF BucketOK
<1>2. /\ Len(b.slots) \in Nat /\ DOMAIN b.slots = 1 .. Len(b.slots) /\ b.data \in Nat
      /\ n \in DOMAIN b.slots /\ s.valid \in BOOLEAN /\ s.len \in Nat
  BY <1>1, BucketTypes
<1>3. to \in {p, new}
  BY DEF Goes
<1>4. mark[n - 1] <= mark[n] /\ mark[n - 1] \in Nat /\ mark[n] \in Nat
  <2>1. mark \in [0 .. Len(b.slots) -> 0 .. b.data] /\ mark[n - 1] + s.len <= mark[n]
    BY DEF Marked
  <2>2. n - 1 \in 0 .. Len(b.slots) /\ n \in 0 .. Len(b.slots)
    BY <1>2
  <2>3. mark[n - 1] \in 0 .. b.data /\ mark[n] \in 0 .. b.data
    BY <2>1, <2>2
  <2> QED
    BY <1>2, <2>1, <2>3
<1>5. ASSUME NEW q \in {p, new} PROVE Slim(f[q], n, mark[n])
  <2>1. Slim(f[q], n - 1, mark[n - 1]) /\ f[q] \in BucketSet
    BY DEF HalvesAre
  <2>2. Len(f[q].slots) \in Nat /\ f[q].data \in Nat
    BY <2>1, BucketTypes
  <2>3. Len(f[q].slots) <= n /\ f[q].data <= mark[n]
    BY <1>4, <2>1, <2>2 DEF Slim
  <2> QED
    BY <2>1, <2>3 DEF Slim
<1>6. ASSUME NEW q \in {p, new}
      PROVE  Sent(b, d, p, new, q, n) =
               Sent(b, d, p, new, q, n - 1) \union (IF s.valid /\ to = q THEN {<<s.key, s.rid>>} ELSE {})
  <2>1. \A j : j \in 1 .. n <=> j \in 1 .. n - 1 \/ j = n
    BY <1>2
  <2> DEFINE P(j) == b.slots[j].valid /\ Goes(d, p, new, b.slots[j]) = q
             J == {j \in 1 .. n : P(j)}
             I == {j \in 1 .. n - 1 : P(j)}
  <2>2. J = I \union (IF P(n) THEN {n} ELSE {})
    <3> HIDE DEF P
    <3> QED
      BY <2>1
  <2>3. Sent(b, d, p, new, q, n) = {<<b.slots[i].key, b.slots[i].rid>> : i \in J}
    BY DEF Sent
  <2>4. Sent(b, d, p, new, q, n - 1) = {<<b.slots[i].key, b.slots[i].rid>> : i \in I}
    BY DEF Sent
  <2>5. P(n) <=> s.valid /\ to = q
    OBVIOUS
  <2> HIDE DEF P, J, I, s, to
  <2>6. s = b.slots[n]
    BY DEF s
  <2> QED
    BY <2>2, <2>3, <2>4, <2>5, <2>6
<1>7. CASE ~ s.valid
  BY <1>5, <1>6, <1>7 DEF HalvesAre
<1>8. CASE s.valid
  <2>1. <<s.key, s.rid>> \notin Holds(f[to])
    <3>1. SUFFICES ASSUME <<s.key, s.rid>> \in Sent(b, d, p, new, to, n - 1) PROVE FALSE
      BY <1>3 DEF HalvesAre
    <3>2. PICK i \in 1 .. n - 1 : b.slots[i].valid /\ <<s.key, s.rid>> = <<b.slots[i].key, b.slots[i].rid>>
      BY <3>1 DEF Sent
    <3>3. i \in DOMAIN b.slots /\ i # n
      BY <1>2, <3>2
    <3> QED
      BY <1>2, <1>8, <3>2, <3>3 DEF BucketOK, Distinct
  <2>2. Slim(f[to], n - 1, mark[n - 1]) /\ f[to].depth = depth /\ Holds(f[to]) = Sent(b, d, p, new, to, n - 1)
    BY <1>3 DEF HalvesAre
  <2>3. Slim(put, n, mark[n]) /\ put.depth = f[to].depth /\ Holds(put) = Holds(f[to]) \union {<<s.key, s.rid>>}
    <3> HIDE DEF to
    <3> QED
      BY <1>8, <2>1, <2>2, PutKeepsSlim
  <2> HIDE DEF put, s
  <2>4. g[to] = put /\ \A q \in {p, new} : q # to => g[q] = f[q]
    BY <1>3, <1>8
  <2> HIDE DEF g, to
  <2>5. ASSUME NEW q \in {p, new}
        PROVE  /\ Slim(g[q], n, mark[n])
               /\ g[q].depth = depth
               /\ Holds(g[q]) = Sent(b, d, p, new, q, n)
    <3>1. CASE q = to
      BY <1>6, <1>8, <2>2, <2>3, <2>4, <3>1
    <3>2. CASE q # to
      <4>1. f[q].depth = depth /\ Holds(f[q]) = Sent(b, d, p, new, q, n - 1)
        BY DEF HalvesAre
      <4> QED
        BY <1>5, <1>6, <2>4, <3>2, <4>1
    <3> QED
      BY <3>1, <3>2
  <2>6. HalvesAre(g, b, d, p, new, depth, n, mark)
    BY <2>5 DEF HalvesAre
  <2> QED
    BY <2>6 DEF g, put, to, s
<1> QED
  BY <1>2, <1>7, <1>8

LEMMA RedistributedIs ==
  ASSUME NEW b, BucketOK(b), NEW d, NEW p, NEW new, NEW depth \in Nat
  PROVE  LET h == EH!Redistributed(d, p, new, depth, b.slots)
         IN \A q \in {p, new} :
              BucketOK(h[q]) /\ h[q].depth = depth /\ Holds(h[q]) = Sent(b, d, p, new, q, Len(b.slots))
<1> DEFINE N == Len(b.slots)
           D == [{p, new} -> BucketSet]
           fresh == [page \in {p, new} |-> EH!Bucket(depth, <<>>, 0)]
           goes(s) == Goes(d, p, new, s)
           with(f, s) == [f EXCEPT ![goes(s)] = EH!Put(f[goes(s)], s.key, s.rid)]
           turn(n, f) == IF b.slots[n].valid THEN with(f, b.slots[n]) ELSE f
           step == [n \in 1 .. N |-> [f \in D |-> turn(n, f)]]
           after[n \in 0 .. N] ==
             IF n = 0 THEN fresh
             ELSE IF b.slots[n].valid
               THEN [after[n - 1] EXCEPT ![goes(b.slots[n])] = EH!Put(@, b.slots[n].key, b.slots[n].rid)]
             ELSE after[n - 1]
<1>1. b \in BucketSet
  BY DEF BucketOK
<1>2. /\ N \in Nat /\ DOMAIN b.slots = 1 .. N
      /\ \A i \in 1 .. N : b.slots[i].key \in Key /\ b.slots[i].rid \in Rid /\ b.slots[i].valid \in BOOLEAN
  BY <1>1, BucketTypes
<1>3. EH!Redistributed(d, p, new, depth, b.slots) = after[N]
  BY DEF EH!Redistributed, Goes
<1> HIDE DEF N, D, fresh, goes
<1>4. fresh \in D /\ \A q \in {p, new} : fresh[q] = EH!Bucket(depth, <<>>, 0)
  <2>1. EH!Bucket(depth, <<>>, 0) \in BucketSet
    BY FreshBucket DEF BucketOK
  <2> QED
    BY <2>1 DEF fresh, D
<1>5. \A n \in 1 .. N, f \in D : turn(n, f) \in D
  <2>1. ASSUME NEW n \in 1 .. N, NEW f \in D, b.slots[n].valid PROVE with(f, b.slots[n]) \in D
    <3>1. goes(b.slots[n]) \in {p, new}
      BY DEF goes, Goes
    <3>2. f[goes(b.slots[n])] \in BucketSet
      BY <3>1 DEF D
    <3>3. EH!Put(f[goes(b.slots[n])], b.slots[n].key, b.slots[n].rid) \in BucketSet
      BY <1>2, <3>2, PutType
    <3> QED
      BY <3>1, <3>3 DEF D
  <2> QED
    BY <2>1
<1> HIDE DEF turn
<1>6. PICK f : Iterates(f, fresh, step, N, D)
  <2>1. IsTable(step, N, D)
    BY <1>2, <1>5 DEF IsTable
  <2> HIDE DEF step
  <2> QED
    BY <1>4, <2>1, IterationExists
<1>7. /\ f \in [0 .. N -> D] /\ f[0] = fresh
      /\ \A n \in 1 .. N : n - 1 \in 0 .. N /\ f[n - 1] \in D /\ f[n] = turn(n, f[n - 1])
  <2>1. f \in [0 .. N -> D] /\ f[0] = fresh /\ \A n \in 1 .. N : f[n] = step[n][f[n - 1]]
    BY <1>6 DEF Iterates
  <2>2. \A n \in 1 .. N : n - 1 \in 0 .. N
    BY <1>2
  <2> QED
    BY <2>1, <2>2
<1>8. f = [n \in 0 .. N |->
             IF n = 0 THEN fresh
             ELSE IF b.slots[n].valid
               THEN [f[n - 1] EXCEPT ![goes(b.slots[n])] = EH!Put(@, b.slots[n].key, b.slots[n].rid)]
             ELSE f[n - 1]]
  <2>1. \A n \in 0 .. N : n # 0 => n \in 1 .. N
    BY <1>2
  <2>2. \A n \in 0 .. N : f[n] = IF n = 0 THEN fresh ELSE turn(n, f[n - 1])
    BY <1>7, <2>1, Zenon
  <2>3. f = [n \in 0 .. N |-> f[n]]
    BY <1>7
  <2>4. f = [n \in 0 .. N |-> IF n = 0 THEN fresh ELSE turn(n, f[n - 1])]
    BY <2>2, <2>3, Zenon
  <2> QED
    BY <2>4, Zenon DEF turn
<1>9. after = [n \in 0 .. N |->
             IF n = 0 THEN fresh
             ELSE IF b.slots[n].valid
               THEN [after[n - 1] EXCEPT ![goes(b.slots[n])] = EH!Put(@, b.slots[n].key, b.slots[n].rid)]
             ELSE after[n - 1]]
  BY <1>8, Zenon
<1> HIDE DEF after
<1>10. \A n \in 0 .. N : after[n] = IF n = 0 THEN fresh ELSE turn(n, after[n - 1])
  BY <1>9, Zenon DEF turn
<1>11. PICK mark : Marked(b, mark)
  BY DEF BucketOK
<1> DEFINE S == {n \in 0 .. N : after[n] = f[n] /\ HalvesAre(after[n], b, d, p, new, depth, n, mark)}
<1>12. 0 \in S
  <2>1. 0 \in 0 .. N /\ after[0] = fresh /\ f[0] = fresh
    BY <1>2, <1>7, <1>10
  <2>2. mark[0] \in 0 .. b.data /\ b.data \in Nat
    BY <1>1, <1>2, <1>11, <2>1, BucketTypes DEF Marked, N
  <2>3. ASSUME NEW q \in {p, new}
        PROVE  Slim(fresh[q], 0, mark[0]) /\ fresh[q].depth = depth /\ Holds(fresh[q]) = Sent(b, d, p, new, q, 0)
    <3>1. fresh[q] = EH!Bucket(depth, <<>>, 0)
      BY <1>4
    <3>2. fresh[q].depth = depth /\ fresh[q].data = 0 /\ fresh[q].slots = <<>>
      BY <3>1 DEF EH!Bucket
    <3>3. BucketOK(fresh[q]) /\ Holds(fresh[q]) = {}
      BY <3>1, FreshBucket
    <3>4. Sent(b, d, p, new, q, 0) = {}
      BY DEF Sent
    <3>5. Slim(fresh[q], 0, mark[0])
      BY <2>2, <3>2, <3>3 DEF Slim
    <3> QED
      BY <3>2, <3>3, <3>4, <3>5
  <2> QED
    BY <2>1, <2>3 DEF HalvesAre
<1>13. ASSUME NEW n \in 1 .. N, n - 1 \in S PROVE n \in S
  <2>1. n \in 0 .. N /\ n # 0 /\ n \in 1 .. Len(b.slots)
    BY <1>2 DEF N
  <2>2. after[n - 1] = f[n - 1] /\ f[n - 1] \in D /\ HalvesAre(f[n - 1], b, d, p, new, depth, n - 1, mark)
    BY <1>7, <1>13
  <2>3. after[n] = turn(n, f[n - 1]) /\ f[n] = turn(n, f[n - 1])
    BY <1>7, <1>10, <2>1, <2>2
  <2>4. HalvesAre(turn(n, f[n - 1]), b, d, p, new, depth, n, mark)
    <3>1. f[n - 1] \in [{p, new} -> BucketSet]
      BY <2>2 DEF D
    <3> QED
      BY <1>11, <2>1, <2>2, <3>1, OneMoreSlot DEF turn, goes
  <2> QED
    BY <2>1, <2>3, <2>4
<1>14. N \in S
  <2> HIDE DEF S
  <2>1. 0 .. N \subseteq S
    BY <1>2, <1>12, <1>13, BoundedInduction
  <2> QED
    BY <1>2, <2>1
<1>15. HalvesAre(after[N], b, d, p, new, depth, N, mark)
  BY <1>14
<1> QED
  BY <1>3, <1>15 DEF HalvesAre, Slim, N

-----------------------------------------------------------------------------
(* The directory d leads into the buckets bs.                               *)

DirectorySet ==
  [depth : 0 .. MaxDepth,
   at : UNION {[0 .. EH!Pow2[n] - 1 -> [page : Nat, depth : Nat]] : n \in 0 .. MaxDepth}]

Lowest(i, bits) == i % EH!Pow2[bits]

Shares(at) == \A i, j \in DOMAIN at : at[i].page = at[j].page <=> Lowest(i, at[i].depth) = Lowest(j, at[i].depth)

Leads(d, bs) ==
  /\ d \in DirectorySet
  /\ DOMAIN d.at = 0 .. EH!Pow2[d.depth] - 1
  /\ \A i \in DOMAIN d.at :
       /\ d.at[i].page \in DOMAIN bs
       /\ d.at[i].depth = bs[d.at[i].page].depth
       /\ d.at[i].depth <= d.depth
  /\ Shares(d.at)

Lead(d, k) == d.at[EH!BucketIdx(k, d.depth)].page

LEMMA DirectoryTypes ==
  ASSUME NEW d \in DirectorySet
  PROVE  /\ d.depth \in 0 .. MaxDepth /\ MaxDepth \in Nat /\ EH!Pow2[d.depth] \in Nat \ {0}
         /\ d.at = [i \in DOMAIN d.at |-> d.at[i]]
         /\ \A i \in DOMAIN d.at : d.at[i] \in [page : Nat, depth : Nat]
         /\ d = [depth |-> d.depth, at |-> d.at]
<1>1. /\ d.depth \in 0 .. MaxDepth /\ d = [depth |-> d.depth, at |-> d.at]
      /\ d.at \in UNION {[0 .. EH!Pow2[n] - 1 -> [page : Nat, depth : Nat]] : n \in 0 .. MaxDepth}
  BY DEF DirectorySet
<1>2. PICK n \in 0 .. MaxDepth : d.at \in [0 .. EH!Pow2[n] - 1 -> [page : Nat, depth : Nat]]
  BY <1>1
<1> QED
  BY <1>1, <1>2, PowersPositive, HashesAssumption

LEMMA DirectoryMade ==
  ASSUME NEW n \in 0 .. MaxDepth, NEW at \in [0 .. EH!Pow2[n] - 1 -> [page : Nat, depth : Nat]]
  PROVE  [depth |-> n, at |-> at] \in DirectorySet
BY DEF DirectorySet

LEMMA IndexInDirectory ==
  ASSUME NEW d, NEW bs, Leads(d, bs), NEW k \in Key
  PROVE  EH!BucketIdx(k, d.depth) \in DOMAIN d.at /\ Lead(d, k) \in DOMAIN bs
<1>1. EH!Pow2[d.depth] \in Nat \ {0} /\ Hash[k] \in Nat
  BY DirectoryTypes, KeyTypes DEF Leads
<1>2. EH!BucketIdx(k, d.depth) \in 0 .. EH!Pow2[d.depth] - 1
  BY <1>1, DivMod DEF EH!BucketIdx
<1> QED
  BY <1>2 DEF Leads, Lead

(* Doubling the directory changes no lead.                                  *)
LEMMA GrownLeads ==
  ASSUME NEW d, NEW bs, Leads(d, bs), d.depth # MaxDepth
  PROVE  /\ Leads(EH!GrownDirectory(d), bs)
         /\ EH!GrownDirectory(d).depth = d.depth + 1
         /\ \A k \in Key : Lead(EH!GrownDirectory(d), k) = Lead(d, k)
<1> DEFINE n == d.depth
           g == EH!GrownDirectory(d)
<1>1. d \in DirectorySet /\ DOMAIN d.at = 0 .. EH!Pow2[n] - 1
  BY DEF Leads
<1>2. /\ n \in 0 .. MaxDepth /\ MaxDepth \in Nat /\ n + 1 \in 1 .. MaxDepth /\ n + 1 \in n .. MaxDepth
      /\ n + 1 \in 0 .. MaxDepth
  <2>1. n \in 0 .. MaxDepth /\ MaxDepth \in Nat /\ n # MaxDepth
    BY <1>1, DirectoryTypes
  <2> HIDE DEF n
  <2> QED
    BY <2>1
<1>3. EH!Pow2[n] \in Nat \ {0} /\ EH!Pow2[n + 1] \in Nat \ {0}
  BY <1>2, PowersPositive
<1>4. /\ g.depth = n + 1 /\ DOMAIN g.at = 0 .. EH!Pow2[n + 1] - 1
      /\ \A i \in DOMAIN g.at : g.at[i] = d.at[Lowest(i, n)]
  BY DEF EH!GrownDirectory, Lowest
<1>5. \A i \in Nat : Lowest(i, n) \in DOMAIN d.at
  BY <1>1, <1>3, DivMod DEF Lowest
<1>6. \A i \in DOMAIN g.at : i \in Nat
  BY <1>3, <1>4
<1>7. g \in DirectorySet
  <2>1. [i \in 0 .. EH!Pow2[n + 1] - 1 |-> d.at[Lowest(i, n)]]
          \in [0 .. EH!Pow2[n + 1] - 1 -> [page : Nat, depth : Nat]]
    BY <1>1, <1>4, <1>5, <1>6, DirectoryTypes
  <2> QED
    BY <1>2, <2>1, DirectoryMade DEF EH!GrownDirectory, Lowest
<1>8. ASSUME NEW i \in DOMAIN g.at
      PROVE  g.at[i].page \in DOMAIN bs /\ g.at[i].depth = bs[g.at[i].page].depth /\ g.at[i].depth <= g.depth
  <2>1. g.at[i] = d.at[Lowest(i, n)] /\ Lowest(i, n) \in DOMAIN d.at
    BY <1>4, <1>5, <1>6
  <2>2. /\ g.at[i].page \in DOMAIN bs /\ g.at[i].depth = bs[g.at[i].page].depth /\ g.at[i].depth <= n
        /\ g.at[i].depth \in Nat
    BY <1>1, <2>1, DirectoryTypes DEF Leads
  <2> QED
    BY <1>2, <1>4, <2>2
<1>9. Shares(g.at)
  <2>1. ASSUME NEW i \in DOMAIN g.at, NEW j \in DOMAIN g.at
        PROVE  g.at[i].page = g.at[j].page <=> Lowest(i, g.at[i].depth) = Lowest(j, g.at[i].depth)
    <3> DEFINE x == Lowest(i, n)
               y == Lowest(j, n)
               a == d.at[x].depth
    <3>1. g.at[i] = d.at[x] /\ g.at[j] = d.at[y] /\ x \in DOMAIN d.at /\ y \in DOMAIN d.at
      BY <1>4, <1>5, <1>6
    <3>2. d.at[x].page = d.at[y].page <=> Lowest(x, a) = Lowest(y, a)
      BY <3>1 DEF Leads, Shares
    <3>3. a \in 0 .. MaxDepth /\ n \in a .. MaxDepth /\ i \in Nat /\ j \in Nat
      <4>1. a \in Nat /\ a <= n
        BY <1>1, <3>1, DirectoryTypes DEF Leads
      <4> QED
        BY <1>2, <1>6, <4>1
    <3>4. Lowest(x, a) = Lowest(i, a) /\ Lowest(y, a) = Lowest(j, a)
      BY <3>3, FewerBits DEF Lowest
    <3> HIDE DEF x, y
    <3> QED
      BY <3>1, <3>2, <3>4
  <2> QED
    BY <2>1 DEF Shares
<1>10. ASSUME NEW k \in Key PROVE Lead(g, k) = Lead(d, k)
  <2>1. Hash[k] \in Nat /\ n \in 0 .. MaxDepth /\ n + 1 \in n .. MaxDepth
    BY <1>2, KeyTypes
  <2>2. EH!BucketIdx(k, n + 1) \in DOMAIN g.at
    BY <1>3, <1>4, <2>1, DivMod DEF EH!BucketIdx
  <2>3. Lowest(EH!BucketIdx(k, n + 1), n) = EH!BucketIdx(k, n)
    BY <2>1, FewerBits DEF EH!BucketIdx, Lowest
  <2>4. g.at[EH!BucketIdx(k, g.depth)] = d.at[EH!BucketIdx(k, n)]
    BY <1>4, <2>2, <2>3
  <2> HIDE DEF g
  <2> QED
    BY <2>4 DEF Lead
<1> HIDE DEF g
<1>11. Leads(g, bs)
  BY <1>4, <1>7, <1>8, <1>9 DEF Leads
<1> QED
  BY <1>4, <1>10, <1>11 DEF g

(* The pointers to p are shared between p and a new bucket.                 *)
SplitInto(bs, cs, p, new, depth) ==
  /\ p \in DOMAIN bs /\ new \notin DOMAIN bs /\ new \in Nat
  /\ DOMAIN cs = DOMAIN bs \union {new}
  /\ cs[p].depth = depth /\ cs[new].depth = depth
  /\ \A q \in DOMAIN bs \ {p} : cs[q] = bs[q]

LEMMA HandedOverLeads ==
  ASSUME NEW d, NEW bs, Leads(d, bs), NEW cs, NEW p, NEW new, NEW local \in Nat,
         bs[p].depth = local, local < d.depth, SplitInto(bs, cs, p, new, local + 1)
  PROVE  LET g == EH!HandedOver(d, p, local, new)
         IN /\ Leads(g, cs)
            /\ g.depth = d.depth
            /\ \A k \in Key : Lead(g, k) = Lead(d, k) \/ (Lead(d, k) = p /\ Lead(g, k) = new)
<1> DEFINE g == EH!HandedOver(d, p, local, new)
           Bit(i) == (i \div EH!Pow2[local]) % 2
<1>1. d \in DirectorySet /\ DOMAIN d.at = 0 .. EH!Pow2[d.depth] - 1
  BY DEF Leads
<1>2. d.depth \in 0 .. MaxDepth /\ MaxDepth \in Nat /\ local < MaxDepth /\ EH!Pow2[d.depth] \in Nat \ {0}
  <2> DEFINE n == d.depth
  <2>1. n \in 0 .. MaxDepth /\ MaxDepth \in Nat /\ EH!Pow2[n] \in Nat \ {0} /\ local < n
    BY <1>1, DirectoryTypes
  <2> HIDE DEF n
  <2>2. local < MaxDepth
    BY <2>1
  <2> QED
    BY <2>1, <2>2 DEF n
<1>3. EH!Pow2[local] \in Nat \ {0} /\ \A i \in DOMAIN d.at : i \in Nat /\ Bit(i) \in {0, 1}
  <2>1. local \in 0 .. MaxDepth
    BY <1>2
  <2>2. EH!Pow2[local] \in Nat \ {0}
    BY <2>1, PowersPositive
  <2>3. ASSUME NEW i \in DOMAIN d.at PROVE i \in Nat /\ Bit(i) \in {0, 1}
    <3>1. i \in Nat
      BY <1>1, <1>2
    <3>2. i \div EH!Pow2[local] \in Nat
      BY <2>2, <3>1, DivMod
    <3> QED
      BY <3>1, <3>2
  <2> QED
    BY <2>2, <2>3
<1>4. /\ g.depth = d.depth /\ DOMAIN g.at = DOMAIN d.at
      /\ g = [depth |-> g.depth, at |-> g.at] /\ g.at = [i \in DOMAIN g.at |-> g.at[i]]
      /\ \A i \in DOMAIN d.at : d.at[i].page # p => g.at[i] = d.at[i]
      /\ \A i \in DOMAIN d.at : d.at[i].page = p =>
           /\ g.at[i] = EH!Pointer(g.at[i].page, local + 1)
           /\ g.at[i].depth = local + 1
           /\ g.at[i].page = IF Bit(i) = 1 THEN new ELSE p
  BY DEF EH!Pointer, EH!HandedOver
<1> HIDE DEF g, Bit
<1>5. /\ p \in DOMAIN bs /\ new \notin DOMAIN bs /\ new \in Nat /\ DOMAIN cs = DOMAIN bs \union {new}
      /\ cs[p].depth = local + 1 /\ cs[new].depth = local + 1 /\ \A q \in DOMAIN bs \ {p} : cs[q] = bs[q]
  BY DEF SplitInto
<1>6. \A i \in DOMAIN d.at :
        /\ d.at[i].page \in DOMAIN bs /\ d.at[i].page \in Nat /\ d.at[i].depth \in Nat
        /\ d.at[i].depth = bs[d.at[i].page].depth /\ d.at[i].depth <= d.depth
  BY <1>1, DirectoryTypes DEF Leads
<1>7. ASSUME NEW i \in DOMAIN g.at
      PROVE  /\ g.at[i] \in [page : Nat, depth : Nat]
             /\ g.at[i].page \in DOMAIN cs /\ g.at[i].depth = cs[g.at[i].page].depth /\ g.at[i].depth <= g.depth
  <2>1. CASE d.at[i].page # p
    <3>1. g.at[i] = d.at[i] /\ i \in DOMAIN d.at
      BY <1>4, <2>1
    <3>2. g.at[i] \in [page : Nat, depth : Nat]
      BY <1>1, <3>1, DirectoryTypes
    <3> QED
      BY <1>4, <1>5, <1>6, <2>1, <3>1, <3>2
  <2>2. CASE d.at[i].page = p
    <3>1. /\ g.at[i] = EH!Pointer(g.at[i].page, local + 1) /\ g.at[i].depth = local + 1
          /\ g.at[i].page \in {p, new} /\ p \in Nat
      BY <1>4, <1>6, <2>2
    <3>2. local + 1 <= d.depth /\ local + 1 \in Nat
      BY <1>1, <1>2, DirectoryTypes
    <3>3. g.at[i] \in [page : Nat, depth : Nat]
      BY <1>5, <3>1, <3>2 DEF EH!Pointer
    <3> QED
      BY <1>4, <1>5, <3>1, <3>2, <3>3
  <2> QED
    BY <2>1, <2>2
<1>8. g \in DirectorySet
  <2>1. g.at \in [0 .. EH!Pow2[d.depth] - 1 -> [page : Nat, depth : Nat]] /\ g = [depth |-> d.depth, at |-> g.at]
    BY <1>1, <1>4, <1>7
  <2> QED
    BY <1>2, <2>1, DirectoryMade
<1>9. Shares(g.at)
  <2>1. ASSUME NEW i \in DOMAIN g.at, NEW j \in DOMAIN g.at
        PROVE  g.at[i].page = g.at[j].page <=> Lowest(i, g.at[i].depth) = Lowest(j, g.at[i].depth)
    <3>1. /\ i \in DOMAIN d.at /\ j \in DOMAIN d.at /\ i \in Nat /\ j \in Nat
          /\ Bit(i) \in {0, 1} /\ Bit(j) \in {0, 1}
      BY <1>3, <1>4
    <3>2. d.at[i].page = d.at[j].page <=> Lowest(i, d.at[i].depth) = Lowest(j, d.at[i].depth)
      BY <3>1 DEF Leads, Shares
    <3>3. d.at[i].page \in DOMAIN bs /\ d.at[j].page \in DOMAIN bs
      BY <1>6, <3>1
    <3>4. CASE d.at[i].page # p
      <4>1. g.at[i] = d.at[i] /\ g.at[j].page \in {d.at[j].page, new}
        BY <1>4, <3>1, <3>4
      <4>2. d.at[j].page # p => g.at[j] = d.at[j]
        BY <1>4, <3>1
      <4>3. d.at[j].page = p => g.at[j].page \in {p, new}
        BY <1>4, <3>1
      <4> QED
        BY <1>5, <3>2, <3>3, <3>4, <4>1, <4>2, <4>3
    <3>5. CASE d.at[i].page = p
      <4>1. g.at[i].page = (IF Bit(i) = 1 THEN new ELSE p) /\ g.at[i].depth = local + 1 /\ d.at[i].depth = local
        BY <1>4, <1>6, <3>1, <3>5
      <4>2. Lowest(i, local + 1) = Lowest(j, local + 1) <=> Lowest(i, local) = Lowest(j, local) /\ Bit(i) = Bit(j)
        BY <1>2, <3>1, OneBitMore DEF Lowest, Bit
      <4>3. CASE d.at[j].page = p
        <5>1. g.at[j].page = (IF Bit(j) = 1 THEN new ELSE p)
          BY <1>4, <3>1, <4>3
        <5>2. p # new
          BY <1>5
        <5> QED
          BY <3>1, <3>2, <3>5, <4>1, <4>2, <4>3, <5>1, <5>2
      <4>4. CASE d.at[j].page # p
        <5>1. g.at[j].page = d.at[j].page
          BY <1>4, <3>1, <4>4
        <5> QED
          BY <1>5, <3>2, <3>3, <3>5, <4>1, <4>2, <4>4, <5>1
      <4> QED
        BY <4>3, <4>4
    <3> QED
      BY <3>4, <3>5
  <2> QED
    BY <2>1 DEF Shares
<1>10. ASSUME NEW k \in Key PROVE Lead(g, k) = Lead(d, k) \/ (Lead(d, k) = p /\ Lead(g, k) = new)
  <2>1. EH!BucketIdx(k, d.depth) \in DOMAIN d.at
    BY IndexInDirectory
  <2> QED
    BY <1>4, <2>1 DEF Lead
<1>11. Leads(g, cs)
  BY <1>1, <1>4, <1>7, <1>8, <1>9 DEF Leads
<1> QED
  BY <1>4, <1>10, <1>11 DEF g

(* An index whose entries are where their keys lead.                        *)
HashSet == [directory : DirectorySet, buckets : Seq(BucketSet)]
EntriesLed(d, bs) == \A p \in DOMAIN bs : \A e \in Holds(bs[p]) : Lead(d, e[1]) = p
HeldBy(bs) == UNION {Holds(bs[p]) : p \in DOMAIN bs}
HashOK(h) ==
  /\ h \in HashSet
  /\ Leads(h.directory, h.buckets)
  /\ \A p \in DOMAIN h.buckets : BucketOK(h.buckets[p])
  /\ EntriesLed(h.directory, h.buckets)

LEMMA HashTypes ==
  ASSUME NEW h, HashOK(h)
  PROVE  /\ h.directory \in DirectorySet /\ h.buckets \in Seq(BucketSet)
         /\ Len(h.buckets) \in Nat /\ DOMAIN h.buckets = 1 .. Len(h.buckets)
         /\ \A k \in Key :
              /\ EH!PageOf(h, k) = Lead(h.directory, k)
              /\ EH!BucketOf(h, k) = h.buckets[Lead(h.directory, k)]
              /\ Lead(h.directory, k) \in DOMAIN h.buckets
              /\ BucketOK(EH!BucketOf(h, k)) /\ EH!BucketOf(h, k) \in BucketSet
              /\ EH!BucketOf(h, k).depth \in Nat /\ EH!BucketOf(h, k).depth <= h.directory.depth
<1>1. /\ h.directory \in DirectorySet /\ h.buckets \in Seq(BucketSet)
      /\ Len(h.buckets) \in Nat /\ DOMAIN h.buckets = 1 .. Len(h.buckets)
  BY DEF HashOK, HashSet
<1>2. ASSUME NEW k \in Key
      PROVE  /\ EH!PageOf(h, k) = Lead(h.directory, k)
             /\ EH!BucketOf(h, k) = h.buckets[Lead(h.directory, k)]
             /\ Lead(h.directory, k) \in DOMAIN h.buckets
             /\ BucketOK(EH!BucketOf(h, k)) /\ EH!BucketOf(h, k) \in BucketSet
             /\ EH!BucketOf(h, k).depth \in Nat /\ EH!BucketOf(h, k).depth <= h.directory.depth
  <2>1. EH!PageOf(h, k) = Lead(h.directory, k) /\ EH!BucketOf(h, k) = h.buckets[Lead(h.directory, k)]
    BY DEF EH!PageOf, EH!BucketOf, Lead
  <2>2. /\ EH!BucketIdx(k, h.directory.depth) \in DOMAIN h.directory.at
        /\ Lead(h.directory, k) \in DOMAIN h.buckets
    BY IndexInDirectory DEF HashOK
  <2>3. BucketOK(EH!BucketOf(h, k)) /\ EH!BucketOf(h, k) \in BucketSet
    BY <2>1, <2>2 DEF HashOK, BucketOK
  <2>4. EH!BucketOf(h, k).depth \in Nat
    BY <2>3, BucketTypes
  <2>5. EH!BucketOf(h, k).depth <= h.directory.depth
    BY <2>1, <2>2 DEF HashOK, Leads, Lead
  <2> QED
    BY <2>1, <2>2, <2>3, <2>4, <2>5
<1> QED
  BY <1>1, <1>2

(* A bucket that is as deep as the directory has it doubled.                *)
LEMMA WidenedLeads ==
  ASSUME NEW h, HashOK(h), NEW k \in Key, EH!CanSplit(h, EH!BucketOf(h, k))
  PROVE  LET d == EH!Widened(h, EH!PageOf(h, k))
         IN /\ Leads(d, h.buckets)
            /\ EH!BucketOf(h, k).depth < d.depth
            /\ \A l \in Key : Lead(d, l) = Lead(h.directory, l)
<1> DEFINE p == EH!PageOf(h, k)
           a == EH!BucketOf(h, k).depth
           n == h.directory.depth
<1>1. h.buckets[p].depth = a
  BY HashTypes
<1>2. a \in Nat /\ n \in 0 .. MaxDepth /\ MaxDepth \in Nat /\ a <= n
  BY HashTypes, DirectoryTypes
<1>3. ~ (a = n /\ a = MaxDepth)
  BY DEF EH!CanSplit
<1>4. Leads(h.directory, h.buckets)
  BY DEF HashOK
<1>5. CASE a = n
  <2>1. EH!Widened(h, p) = EH!GrownDirectory(h.directory)
    BY <1>1, <1>5 DEF EH!Widened
  <2>2. n # MaxDepth
    BY <1>3, <1>5
  <2> HIDE DEF p
  <2>3. /\ Leads(EH!Widened(h, p), h.buckets) /\ EH!Widened(h, p).depth = n + 1
        /\ \A l \in Key : Lead(EH!Widened(h, p), l) = Lead(h.directory, l)
    BY <1>4, <2>1, <2>2, GrownLeads
  <2>4. a < n + 1
    <3> HIDE DEF a, n
    <3> QED BY <1>2
  <2> QED
    BY <2>3, <2>4 DEF p
<1>6. CASE a # n
  <2>1. EH!Widened(h, p) = h.directory
    BY <1>1, <1>6 DEF EH!Widened
  <2>2. a < n
    <3> HIDE DEF a, n
    <3> QED BY <1>2, <1>6
  <2> HIDE DEF p
  <2> QED
    BY <1>4, <2>1, <2>2 DEF p
<1> QED
  BY <1>5, <1>6

(* A split loses nothing and takes one bit more.                            *)
LEMMA SplitKeeps ==
  ASSUME NEW h, HashOK(h), NEW k \in Key, EH!CanSplit(h, EH!BucketOf(h, k))
  PROVE  LET g == EH!Split(h, EH!PageOf(h, k))
         IN /\ HashOK(g)
            /\ HeldBy(g.buckets) = HeldBy(h.buckets)
            /\ EH!BucketOf(g, k).depth = EH!BucketOf(h, k).depth + 1
<1> DEFINE bs == h.buckets
           p == EH!PageOf(h, k)
           b == bs[p]
           local == b.depth
           new == Len(bs) + 1
           w == EH!Widened(h, p)
           d == EH!HandedOver(w, p, local, new)
           halves == EH!Redistributed(d, p, new, local + 1, b.slots)
           cs == Append([bs EXCEPT ![p] = halves[p]], halves[new])
           g == EH!Split(h, p)
<1>1. g = [directory |-> d, buckets |-> cs]
  BY DEF EH!Split
<1>2. /\ bs \in Seq(BucketSet) /\ Len(bs) \in Nat /\ DOMAIN bs = 1 .. Len(bs)
      /\ p \in DOMAIN bs /\ b = EH!BucketOf(h, k) /\ BucketOK(b) /\ b \in BucketSet /\ local \in Nat
      /\ p = Lead(h.directory, k)
  BY HashTypes
<1>3. Leads(w, bs) /\ local < w.depth /\ \A l \in Key : Lead(w, l) = Lead(h.directory, l)
  BY <1>2, WidenedLeads
<1>4. new \in Nat /\ new \notin DOMAIN bs /\ p # new /\ local + 1 \in Nat
  BY <1>2
<1> HIDE DEF g
<1>5. \A q \in {p, new} :
        BucketOK(halves[q]) /\ halves[q].depth = local + 1 /\ Holds(halves[q]) = Sent(b, d, p, new, q, Len(b.slots))
  <2> DEFINE up == local + 1
             hs == EH!Redistributed(d, p, new, up, b.slots)
  <2>1. up \in Nat /\ halves = hs
    BY <1>4
  <2> HIDE DEF bs, p, new, d, b, up, local
  <2>2. \A q \in {p, new} :
          BucketOK(hs[q]) /\ hs[q].depth = up /\ Holds(hs[q]) = Sent(b, d, p, new, q, Len(b.slots))
    <3>1. BucketOK(b) /\ up \in Nat
      BY <1>2, <2>1
    <3> QED
      BY <3>1, RedistributedIs, ZenonT(60)
  <2> HIDE DEF hs, halves
  <2> QED
    BY <2>1, <2>2 DEF up
<1>6. /\ cs \in Seq(BucketSet) /\ DOMAIN cs = DOMAIN bs \union {new}
      /\ cs[p] = halves[p] /\ cs[new] = halves[new] /\ \A q \in DOMAIN bs \ {p} : cs[q] = bs[q]
  <2> DEFINE x == halves[p]
             y == halves[new]
  <2>1. x \in BucketSet /\ y \in BucketSet
    BY <1>5, Zenon DEF BucketOK
  <2>2. cs = Append([bs EXCEPT ![p] = x], y)
    OBVIOUS
  <2> HIDE DEF x, y, cs, bs, p, halves
  <2>3. [bs EXCEPT ![p] = x] \in Seq(BucketSet) /\ Len([bs EXCEPT ![p] = x]) = Len(bs)
    BY <1>2, <2>1
  <2> DEFINE bx == [bs EXCEPT ![p] = x]
  <2>4. \A q \in DOMAIN bs : bx[q] = IF q = p THEN x ELSE bs[q]
    BY <1>2
  <2> HIDE DEF bx
  <2>5. cs \in Seq(BucketSet) /\ Len(cs) = Len(bs) + 1 /\ cs[Len(bs) + 1] = y /\ \A q \in 1 .. Len(bs) : cs[q] = bx[q]
    BY <1>2, <2>1, <2>2, <2>3 DEF bx
  <2>6. DOMAIN cs = DOMAIN bs \union {Len(bs) + 1}
    BY <1>2, <2>5
  <2> QED
    BY <1>2, <2>4, <2>5, <2>6, SMTT(60) DEF x, y
<1>7. SplitInto(bs, cs, p, new, local + 1)
  <2> HIDE DEF bs, cs, p, new, halves
  <2> QED
    BY <1>2, <1>4, <1>5, <1>6 DEF SplitInto
<1>8. /\ Leads(d, cs)
      /\ \A l \in Key : Lead(d, l) = Lead(w, l) \/ (Lead(w, l) = p /\ Lead(d, l) = new)
  <2> HIDE DEF bs, cs, p, new, w
  <2> QED
    BY <1>2, <1>3, <1>7, HandedOverLeads
<1>9. \A q \in DOMAIN cs : BucketOK(cs[q])
  <2>1. \A q \in DOMAIN bs : BucketOK(bs[q])
    BY DEF HashOK
  <2> HIDE DEF bs, cs, p, new, halves
  <2> QED
    BY <1>5, <1>6, <2>1
<1>10. \A q \in DOMAIN bs : \A e \in Holds(bs[q]) : e[1] \in Key /\ Lead(w, e[1]) = q
  <2>1. ASSUME NEW q \in DOMAIN bs, NEW e \in Holds(bs[q]) PROVE e[1] \in Key /\ Lead(w, e[1]) = q
    <3>1. bs[q] \in BucketSet
      BY DEF HashOK, BucketOK
    <3>2. PICK i \in DOMAIN bs[q].slots : e = <<bs[q].slots[i].key, bs[q].slots[i].rid>>
      BY DEF Holds
    <3>3. e[1] \in Key
      BY <3>1, <3>2, BucketTypes
    <3>4. Lead(h.directory, e[1]) = q
      BY DEF HashOK, EntriesLed
    <3> QED
      BY <1>3, <3>3, <3>4
  <2> QED
    BY <2>1
<1>11. \A q \in {p, new} : \A e : e \in Holds(cs[q]) <=> e \in Holds(b) /\ Lead(d, e[1]) = q
  <2>1. ASSUME NEW q \in {p, new}, NEW e
        PROVE  e \in Holds(cs[q]) <=> e \in Holds(b) /\ Lead(d, e[1]) = q
    <3>1. Holds(cs[q]) = Sent(b, d, p, new, q, Len(b.slots))
      <4> HIDE DEF cs, p, new, halves, b
      <4> QED
        BY <1>5, <1>6
    <3>2. DOMAIN b.slots = 1 .. Len(b.slots)
      BY <1>2, BucketTypes
    <3>3. e \in Holds(b) => Lead(d, e[1]) \in {p, new}
      <4> HIDE DEF d, p, new, w, bs
      <4> QED
        BY <1>2, <1>8, <1>10
    <3> HIDE DEF b, d, p, new, cs
    <3>4. e \in Holds(cs[q]) <=>
            \E i \in DOMAIN b.slots : /\ b.slots[i].valid /\ Goes(d, p, new, b.slots[i]) = q
                                      /\ e = <<b.slots[i].key, b.slots[i].rid>>
      BY <3>1, <3>2 DEF Sent
    <3>5. e \in Holds(b) <=> \E i \in DOMAIN b.slots : b.slots[i].valid /\ e = <<b.slots[i].key, b.slots[i].rid>>
      BY DEF Holds
    <3>6. \A i \in DOMAIN b.slots : e = <<b.slots[i].key, b.slots[i].rid>> =>
            Goes(d, p, new, b.slots[i]) = IF Lead(d, e[1]) = p THEN p ELSE new
      BY DEF Goes, Lead
    <3> QED
      BY <1>4, <3>3, <3>4, <3>5, <3>6
  <2> QED
    BY <2>1
<1>12. EntriesLed(d, cs)
  <2>1. ASSUME NEW q \in DOMAIN cs, NEW e \in Holds(cs[q]) PROVE Lead(d, e[1]) = q
    <3>1. CASE q \in {p, new}
      <4> HIDE DEF cs, p, new, b, d
      <4> QED
        BY <1>11, <2>1, <3>1
    <3>2. CASE q \notin {p, new}
      <4> HIDE DEF bs, cs, p, new, d, w
      <4>1. q \in DOMAIN bs /\ cs[q] = bs[q]
        BY <1>6, <3>2
      <4> QED
        BY <1>8, <1>10, <2>1, <3>2, <4>1
    <3> QED
      BY <3>1, <3>2
  <2> HIDE DEF cs, d
  <2> QED
    BY <2>1 DEF EntriesLed
<1>13. HeldBy(cs) = HeldBy(bs)
  <2> HIDE DEF bs, cs, p, new, d, w
  <2>1. ASSUME NEW e \in HeldBy(cs) PROVE e \in HeldBy(bs)
    <3>1. PICK q \in DOMAIN cs : e \in Holds(cs[q])
      BY DEF HeldBy
    <3>2. CASE q \in {p, new}
      BY <1>2, <1>11, <3>1, <3>2 DEF HeldBy
    <3>3. CASE q \notin {p, new}
      BY <1>6, <3>1, <3>3 DEF HeldBy
    <3> QED
      BY <3>2, <3>3
  <2>2. ASSUME NEW e \in HeldBy(bs) PROVE e \in HeldBy(cs)
    <3>1. PICK q \in DOMAIN bs : e \in Holds(bs[q])
      BY DEF HeldBy
    <3>2. CASE q = p
      <4>1. Lead(d, e[1]) \in {p, new}
        BY <1>8, <1>10, <3>1, <3>2
      <4>2. e \in Holds(cs[Lead(d, e[1])])
        BY <1>11, <3>1, <3>2, <4>1
      <4> QED
        BY <1>2, <1>6, <4>1, <4>2 DEF HeldBy
    <3>3. CASE q # p
      BY <1>6, <3>1, <3>3 DEF HeldBy
    <3> QED
      BY <3>2, <3>3
  <2> QED
    BY <2>1, <2>2
<1>14. g.directory = d /\ g.buckets = cs /\ g \in HashSet
  <2> HIDE DEF cs, d
  <2> QED
    BY <1>1, <1>6, <1>8 DEF HashSet, Leads
<1>15. HashOK(g)
  <2> HIDE DEF cs, d
  <2> QED
    BY <1>8, <1>9, <1>12, <1>14 DEF HashOK
<1>16. EH!BucketOf(g, k).depth = local + 1
  <2>1. Lead(d, k) \in {p, new}
    <3> HIDE DEF d, new, w, p
    <3> QED
      BY <1>2, <1>3, <1>8
  <2>2. EH!BucketOf(g, k) = cs[Lead(d, k)]
    <3> HIDE DEF cs, d
    <3> QED
      BY <1>14, <1>15, HashTypes
  <2> HIDE DEF cs, d, new, p, halves
  <2> QED
    BY <1>5, <1>6, <2>1, <2>2
<1> QED
  BY <1>2, <1>13, <1>14, <1>15, <1>16 DEF g

(* The splits of an insert: the entry fits, or every bit there can be is    *)
(* used.                                                                    *)
Fits(g, k, r) == EH!WithEntry(EH!BucketOf(g, k), k, r) # <<>>
Settled(g, k, r) == Fits(g, k, r) \/ ~ EH!CanSplit(g, EH!BucketOf(g, k))

LEMMA OpenedKeeps ==
  ASSUME NEW h, HashOK(h), NEW k \in Key, NEW r
  PROVE  LET g == EH!Opened(h, k, r)
         IN /\ HashOK(g)
            /\ HeldBy(g.buckets) = HeldBy(h.buckets)
            /\ ~ Fits(g, k, r) => EH!BucketOf(g, k).depth = MaxDepth /\ g.directory.depth = MaxDepth
<1> DEFINE N == MaxDepth
           D == {g \in HashSet : HashOK(g) /\ HeldBy(g.buckets) = HeldBy(h.buckets)}
           turn(g) == IF EH!WithEntry(EH!BucketOf(g, k), k, r) = <<>> /\ EH!CanSplit(g, EH!BucketOf(g, k))
                        THEN EH!Split(g, EH!PageOf(g, k)) ELSE g
           step == [n \in 1 .. N |-> [g \in D |-> turn(g)]]
           after[n \in 0 .. N] ==
             IF n = 0 THEN h
             ELSE LET g == after[n - 1]
                  IN IF EH!WithEntry(EH!BucketOf(g, k), k, r) = <<>> /\ EH!CanSplit(g, EH!BucketOf(g, k))
                       THEN EH!Split(g, EH!PageOf(g, k)) ELSE g
<1>1. N \in Nat
  BY HashesAssumption
<1>2. EH!Opened(h, k, r) = after[N]
  BY DEF EH!Opened
<1> HIDE DEF N, after
<1>3. h \in D
  BY DEF HashOK
<1>4. ASSUME NEW g \in D
      PROVE  /\ turn(g) \in D
             /\ ~ Settled(g, k, r) => EH!BucketOf(turn(g), k).depth = EH!BucketOf(g, k).depth + 1
             /\ Settled(g, k, r) => turn(g) = g
  <2>1. HashOK(g) /\ HeldBy(g.buckets) = HeldBy(h.buckets)
    OBVIOUS
  <2>2. CASE Settled(g, k, r)
    <3>1. turn(g) = g
      BY <2>2 DEF Settled, Fits
    <3> HIDE DEF turn, D
    <3> QED
      BY <2>2, <3>1
  <2>3. CASE ~ Settled(g, k, r)
    <3>1. turn(g) = EH!Split(g, EH!PageOf(g, k)) /\ EH!CanSplit(g, EH!BucketOf(g, k))
      BY <2>3 DEF Settled, Fits
    <3> DEFINE w == EH!Split(g, EH!PageOf(g, k))
    <3>2. /\ HashOK(w) /\ HeldBy(w.buckets) = HeldBy(g.buckets)
          /\ EH!BucketOf(w, k).depth = EH!BucketOf(g, k).depth + 1
      BY <2>1, <3>1, SplitKeeps
    <3> HIDE DEF w
    <3>3. w \in D
      BY <2>1, <3>2 DEF HashOK
    <3> HIDE DEF D
    <3> QED
      BY <2>3, <3>1, <3>2, <3>3 DEF w
  <2> QED
    BY <2>2, <2>3
<1>5. \A g \in D : HashOK(g) /\ HeldBy(g.buckets) = HeldBy(h.buckets)
  OBVIOUS
<1> HIDE DEF D, turn
<1>6. PICK f : Iterates(f, h, step, N, D)
  <2>1. IsTable(step, N, D)
    BY <1>1, <1>4 DEF IsTable
  <2> HIDE DEF step
  <2> QED
    BY <1>3, <2>1, IterationExists
<1>7. /\ f \in [0 .. N -> D] /\ f[0] = h
      /\ \A n \in 1 .. N : n - 1 \in 0 .. N /\ f[n - 1] \in D /\ f[n] = turn(f[n - 1])
  <2>1. f \in [0 .. N -> D] /\ f[0] = h /\ \A n \in 1 .. N : f[n] = step[n][f[n - 1]]
    BY <1>6 DEF Iterates
  <2>2. \A n \in 1 .. N : n - 1 \in 0 .. N
    BY <1>1
  <2> QED
    BY <2>1, <2>2
<1>8. f = [n \in 0 .. N |->
             IF n = 0 THEN h
             ELSE LET g == f[n - 1]
                  IN IF EH!WithEntry(EH!BucketOf(g, k), k, r) = <<>> /\ EH!CanSplit(g, EH!BucketOf(g, k))
                       THEN EH!Split(g, EH!PageOf(g, k)) ELSE g]
  <2>1. \A n \in 0 .. N : n # 0 => n \in 1 .. N
    BY <1>1
  <2>2. \A n \in 0 .. N : f[n] = IF n = 0 THEN h ELSE turn(f[n - 1])
    BY <1>7, <2>1, Zenon
  <2>3. f = [n \in 0 .. N |-> f[n]]
    BY <1>7
  <2>4. f = [n \in 0 .. N |-> IF n = 0 THEN h ELSE turn(f[n - 1])]
    BY <2>2, <2>3, Zenon
  <2> QED
    BY <2>4, Zenon DEF turn
<1>9. after = [n \in 0 .. N |->
             IF n = 0 THEN h
             ELSE LET g == after[n - 1]
                  IN IF EH!WithEntry(EH!BucketOf(g, k), k, r) = <<>> /\ EH!CanSplit(g, EH!BucketOf(g, k))
                       THEN EH!Split(g, EH!PageOf(g, k)) ELSE g]
  BY <1>8, Zenon DEF after
<1>10. \A n \in 0 .. N : after[n] = IF n = 0 THEN h ELSE turn(after[n - 1])
  BY <1>9, Zenon DEF turn
<1> DEFINE S == {n \in 0 .. N : /\ after[n] \in D
                                /\ Settled(after[n], k, r) \/ n <= EH!BucketOf(after[n], k).depth}
<1>11. 0 \in S
  <2>1. after[0] = h /\ 0 \in 0 .. N
    BY <1>1, <1>10
  <2>2. EH!BucketOf(h, k).depth \in Nat
    BY HashTypes
  <2> QED
    BY <1>3, <2>1, <2>2
<1>12. ASSUME NEW n \in 1 .. N, n - 1 \in S PROVE n \in S
  <2> DEFINE g == after[n - 1]
  <2>1. n \in 0 .. N /\ n # 0 /\ g \in D /\ (Settled(g, k, r) \/ n - 1 <= EH!BucketOf(g, k).depth)
    BY <1>1, <1>12
  <2>2. after[n] = turn(g)
    BY <1>10, <2>1
  <2> HIDE DEF g
  <2>3. after[n] \in D
    BY <1>4, <2>1, <2>2
  <2>4. CASE Settled(g, k, r)
    <3>1. Settled(after[n], k, r)
      BY <1>4, <2>1, <2>2, <2>4
    <3> QED
      BY <2>1, <2>3, <3>1
  <2>5. CASE ~ Settled(g, k, r)
    <3>1. EH!BucketOf(after[n], k).depth = EH!BucketOf(g, k).depth + 1 /\ n - 1 <= EH!BucketOf(g, k).depth
      BY <1>4, <2>1, <2>2, <2>5
    <3>2. EH!BucketOf(g, k).depth \in Nat
      BY <1>5, <2>1, HashTypes
    <3>3. n <= EH!BucketOf(after[n], k).depth
      BY <1>1, <3>1, <3>2
    <3> QED
      BY <2>1, <2>3, <3>3
  <2> QED
    BY <2>4, <2>5
<1>13. N \in S
  <2> HIDE DEF S
  <2>1. 0 .. N \subseteq S
    BY <1>1, <1>11, <1>12, BoundedInduction
  <2> QED
    BY <1>1, <2>1
<1> DEFINE g == after[N]
           a == EH!BucketOf(g, k).depth
           m == g.directory.depth
<1>14. HashOK(g) /\ HeldBy(g.buckets) = HeldBy(h.buckets) /\ (Settled(g, k, r) \/ N <= a)
  BY <1>5, <1>13
<1>15. a \in Nat /\ a <= m /\ m \in 0 .. MaxDepth /\ MaxDepth \in Nat
  <2> HIDE DEF g
  <2> QED
    BY <1>14, HashTypes, DirectoryTypes
<1>16. ~ Fits(g, k, r) => a = MaxDepth /\ m = MaxDepth
  <2>1. SUFFICES ASSUME ~ Fits(g, k, r) PROVE a = MaxDepth /\ m = MaxDepth
    OBVIOUS
  <2>2. CASE N <= a
    <3> HIDE DEF a, m
    <3> QED
      BY <1>15, <2>2 DEF N
  <2>3. CASE Settled(g, k, r)
    <3>1. a = m /\ a = MaxDepth
      BY <2>1, <2>3 DEF Settled, EH!CanSplit
    <3> QED
      BY <3>1
  <2> QED
    BY <1>14, <2>2, <2>3
<1> QED
  BY <1>2, <1>14, <1>16

-----------------------------------------------------------------------------
(* The operations change one bucket.                                        *)

LEMMA ReplacedKeeps ==
  ASSUME NEW h, HashOK(h), NEW p \in DOMAIN h.buckets, NEW c, BucketOK(c), c.depth = h.buckets[p].depth,
         \A e \in Holds(c) : Lead(h.directory, e[1]) = p
  PROVE  LET bs == [h.buckets EXCEPT ![p] = c]
         IN /\ HashOK([directory |-> h.directory, buckets |-> bs])
            /\ \A e : e \in HeldBy(bs) <=>
                        e \in Holds(c) \/ (e \in HeldBy(h.buckets) /\ e \notin Holds(h.buckets[p]))
<1> DEFINE d == h.directory
           old == h.buckets
           bs == [old EXCEPT ![p] = c]
<1>1. /\ d \in DirectorySet /\ old \in Seq(BucketSet) /\ Len(old) \in Nat /\ DOMAIN old = 1 .. Len(old)
      /\ c \in BucketSet
  BY HashTypes DEF BucketOK
<1>2. /\ Leads(d, old) /\ EntriesLed(d, old) /\ \A q \in DOMAIN old : BucketOK(old[q])
  BY DEF HashOK
<1>3. bs \in Seq(BucketSet) /\ DOMAIN bs = DOMAIN old /\ bs[p] = c /\ \A q \in DOMAIN old \ {p} : bs[q] = old[q]
  <2> HIDE DEF old
  <2> QED
    BY <1>1, ReplacedInSeq
<1> HIDE DEF bs
<1>4. Leads(d, bs)
  <2> HIDE DEF d
  <2>1. \A q \in DOMAIN old : bs[q].depth = old[q].depth
    BY <1>3
  <2> HIDE DEF old
  <2> QED
    BY <1>2, <1>3, <2>1 DEF Leads
<1>5. \A q \in DOMAIN bs : BucketOK(bs[q])
  BY <1>2, <1>3
<1>6. EntriesLed(d, bs)
  BY <1>2, <1>3 DEF EntriesLed
<1>7. HashOK([directory |-> d, buckets |-> bs])
  <2> HIDE DEF d
  <2> QED
    BY <1>1, <1>3, <1>4, <1>5, <1>6 DEF HashOK, HashSet
<1>8. ASSUME NEW e
      PROVE  e \in HeldBy(bs) <=> e \in Holds(c) \/ (e \in HeldBy(old) /\ e \notin Holds(old[p]))
  <2> HIDE DEF d, old
  <2>1. ASSUME e \in HeldBy(bs) PROVE e \in Holds(c) \/ (e \in HeldBy(old) /\ e \notin Holds(old[p]))
    <3>1. PICK q \in DOMAIN old : e \in Holds(bs[q])
      BY <1>3, <2>1 DEF HeldBy
    <3>2. CASE q = p
      BY <1>3, <3>1, <3>2
    <3>3. CASE q # p
      <4>1. e \in Holds(old[q]) /\ e \in HeldBy(old)
        BY <1>3, <3>1, <3>3 DEF HeldBy
      <4>2. Lead(d, e[1]) = q
        BY <1>2, <4>1 DEF EntriesLed
      <4>3. e \in Holds(old[p]) => Lead(d, e[1]) = p
        BY <1>2, <1>3 DEF EntriesLed, old
      <4> QED
        BY <3>3, <4>1, <4>2, <4>3
    <3> QED
      BY <3>2, <3>3
  <2>2. ASSUME e \in Holds(c) PROVE e \in HeldBy(bs)
    BY <1>3, <2>2 DEF HeldBy, old
  <2>3. ASSUME e \in HeldBy(old), e \notin Holds(old[p]) PROVE e \in HeldBy(bs)
    <3>1. PICK q \in DOMAIN old : e \in Holds(old[q])
      BY <2>3 DEF HeldBy
    <3>2. bs[q] = old[q] /\ q \in DOMAIN bs
      BY <1>3, <2>3, <3>1
    <3> QED
      BY <3>1, <3>2 DEF HeldBy
  <2> QED
    BY <2>1, <2>2, <2>3
<1> QED
  BY <1>7, <1>8 DEF bs

(* A slot that is emptied keeps its bytes.                                  *)
Emptied(b, i) ==
  EH!Bucket(b.depth, [b.slots EXCEPT ![i] = EH!Slot(b.slots[i].key, b.slots[i].rid, FALSE, b.slots[i].len)], b.data)

LEMMA EmptiedIs ==
  ASSUME NEW b \in BucketSet, NEW i \in DOMAIN b.slots
  PROVE  [b EXCEPT !.slots[i].valid = FALSE] = Emptied(b, i)
<1>1. ASSUME NEW s \in SlotSet
      PROVE  [s EXCEPT !.valid = FALSE] = EH!Slot(s.key, s.rid, FALSE, s.len)
  <2>1. \E x, y, z, u : s = [key |-> x, rid |-> y, valid |-> z, len |-> u]
    BY DEF SlotSet
  <2>2. PICK x, y, z, u : s = [key |-> x, rid |-> y, valid |-> z, len |-> u]
    BY <2>1
  <2>3. s.key = x /\ s.rid = y /\ s.len = u
    BY <2>2
  <2>4. [s EXCEPT !.valid = FALSE] = [key |-> x, rid |-> y, valid |-> FALSE, len |-> u]
    <3>1. ASSUME NEW v PROVE [s EXCEPT !.valid = v] = [key |-> x, rid |-> y, valid |-> v, len |-> u]
      BY <2>2
    <3> QED
      BY <3>1, Zenon
  <2> QED
    BY <2>3, <2>4 DEF EH!Slot
<1>2. ASSUME NEW f PROVE [b EXCEPT !.slots = f] = EH!Bucket(b.depth, f, b.data)
  BY DEF BucketSet, EH!Bucket
<1> DEFINE s == b.slots
           e == [s[i] EXCEPT !.valid = FALSE]
<1>3. s[i] \in SlotSet
  BY BucketTypes
<1>4. e = EH!Slot(s[i].key, s[i].rid, FALSE, s[i].len)
  BY <1>1, <1>3
<1>5. [b EXCEPT !.slots[i].valid = FALSE] = [b EXCEPT !.slots = [s EXCEPT ![i] = e]]
  OBVIOUS
<1>6. Emptied(b, i) = EH!Bucket(b.depth, [s EXCEPT ![i] = e], b.data)
  <2> HIDE DEF e
  <2> QED
    BY <1>4, Zenon DEF Emptied
<1> HIDE DEF s, e
<1> QED
  BY <1>2, <1>5, <1>6

LEMMA EmptiedKeeps ==
  ASSUME NEW b, BucketOK(b), NEW i \in DOMAIN b.slots, b.slots[i].valid
  PROVE  /\ BucketOK(Emptied(b, i))
         /\ Emptied(b, i).depth = b.depth
         /\ Holds(Emptied(b, i)) = Holds(b) \ {<<b.slots[i].key, b.slots[i].rid>>}
<1> DEFINE c == Emptied(b, i)
           new == EH!Slot(b.slots[i].key, b.slots[i].rid, FALSE, b.slots[i].len)
<1>1. b \in BucketSet
  BY DEF BucketOK
<1>2. /\ b.slots \in Seq(SlotSet) /\ Len(b.slots) \in Nat /\ DOMAIN b.slots = 1 .. Len(b.slots)
      /\ b.data \in Nat /\ b.depth \in Nat
      /\ \A j \in DOMAIN b.slots : b.slots[j] \in SlotSet
      /\ b.slots[i].len \in Nat /\ b.slots[i].key \in Key /\ b.slots[i].rid \in Rid
  BY <1>1, BucketTypes
<1>3. c.slots = [b.slots EXCEPT ![i] = new] /\ c.data = b.data /\ c.depth = b.depth
  BY DEF Emptied, EH!Bucket
<1>4. /\ new.key = b.slots[i].key /\ new.rid = b.slots[i].rid /\ new.len = b.slots[i].len /\ new.valid = FALSE
      /\ new \in SlotSet
  BY <1>2 DEF EH!Slot, SlotSet
<1>5. c.slots \in Seq(SlotSet)
  <2> DEFINE s == b.slots
  <2>1. s \in Seq(SlotSet) /\ c.slots = [s EXCEPT ![i] = new]
    BY <1>2, <1>3
  <2> HIDE DEF s, c, new
  <2> QED
    BY <1>4, <2>1, ReplacedInSeq
<1>6. c \in BucketSet
  <2>1. [b.slots EXCEPT ![i] = new] \in Seq(SlotSet)
    BY <1>3, <1>5
  <2> HIDE DEF new
  <2> QED
    BY <1>2, <2>1 DEF Emptied, EH!Bucket, BucketSet, new
<1> HIDE DEF c, new
<1>7. /\ Len(c.slots) = Len(b.slots) /\ DOMAIN c.slots = DOMAIN b.slots
      /\ c.slots[i] = new /\ \A j \in DOMAIN b.slots \ {i} : c.slots[j] = b.slots[j]
  BY <1>2, <1>3
<1>8. \A j \in DOMAIN b.slots : /\ c.slots[j].len = b.slots[j].len /\ c.slots[j].key = b.slots[j].key
                                /\ c.slots[j].rid = b.slots[j].rid
                                /\ c.slots[j].valid <=> b.slots[j].valid /\ j # i
  BY <1>4, <1>7
<1>9. \E mark : Marked(c, mark)
  <2>1. PICK mark : Marked(b, mark)
    BY DEF BucketOK
  <2>2. Marked(c, mark)
    BY <1>2, <1>3, <1>7, <1>8, <2>1 DEF Marked
  <2> QED
    BY <2>2
<1>10. InPage(c)
  BY <1>3, <1>7 DEF BucketOK, InPage
<1>11. Exact(c) /\ Distinct(c)
  BY <1>7, <1>8 DEF BucketOK, Exact, Distinct
<1>12. Even(c)
  BY <1>3, <1>7, <1>8 DEF BucketOK, Even
<1>13. Holds(c) = Holds(b) \ {<<b.slots[i].key, b.slots[i].rid>>}
  <2>1. ASSUME NEW e PROVE e \in Holds(c) <=> e \in Holds(b) /\ e # <<b.slots[i].key, b.slots[i].rid>>
    <3>1. e \in Holds(c) <=> \E j \in DOMAIN b.slots : b.slots[j].valid /\ j # i /\ e = <<b.slots[j].key, b.slots[j].rid>>
      BY <1>7, <1>8 DEF Holds
    <3>2. e \in Holds(b) <=> \E j \in DOMAIN b.slots : b.slots[j].valid /\ e = <<b.slots[j].key, b.slots[j].rid>>
      BY DEF Holds
    <3>3. \A j \in DOMAIN b.slots :
            b.slots[j].valid /\ <<b.slots[j].key, b.slots[j].rid>> = <<b.slots[i].key, b.slots[i].rid>> => j = i
      BY DEF BucketOK, Distinct
    <3> QED
      BY <3>1, <3>2, <3>3
  <2> QED
    BY <2>1
<1> QED
  BY <1>3, <1>6, <1>9, <1>10, <1>11, <1>12, <1>13 DEF BucketOK, c

-----------------------------------------------------------------------------
(* The invariant of the states.                                             *)

LEMMA IndexedIs == EH!Indexed = HeldBy(nodes)
<1>1. ASSUME NEW e PROVE e \in EH!Indexed <=> e \in HeldBy(nodes)
  <2>1. e \in EH!Indexed <=>
          \E p \in DOMAIN nodes : \E i \in DOMAIN nodes[p].slots :
            nodes[p].slots[i].valid /\ e = <<nodes[p].slots[i].key, nodes[p].slots[i].rid>>
    BY DEF EH!Indexed, EH!Entries
  <2>2. e \in HeldBy(nodes) <=>
          \E p \in DOMAIN nodes : \E i \in DOMAIN nodes[p].slots :
            nodes[p].slots[i].valid /\ e = <<nodes[p].slots[i].key, nodes[p].slots[i].rid>>
    BY DEF HeldBy, Holds
  <2> QED
    BY <2>1, <2>2
<1> QED
  BY <1>1

(* An index that could not take an entry: a bucket with no room and as many *)
(* bits as there are.                                                       *)
Clogged(h) ==
  \E k \in Key, r \in Rid :
    /\ ~ Fits(h, k, r)
    /\ EH!BucketOf(h, k).depth = MaxDepth
    /\ h.directory.depth = MaxDepth

HashInv ==
  kind = "hash" =>
    /\ HashOK(EH!Index)
    /\ unique = FALSE
    /\ raised \in {"nothing", "directory full"}
    /\ raised = "directory full" => Clogged(EH!Index)

LEMMA InsertKeeps ==
  ASSUME HashOK(EH!Index), NEW k \in Key, NEW r \in Rid, <<k, r>> \notin HeldBy(nodes), EH!Insert(k, r)
  PROVE  /\ HashOK(EH!Index)'
         /\ \/ raised' = "nothing" /\ HeldBy(nodes)' = HeldBy(nodes) \union {<<k, r>>}
            \/ raised' = "directory full" /\ HeldBy(nodes)' = HeldBy(nodes) /\ Clogged(EH!Index)'
<1> DEFINE h == EH!Opened(EH!Index, k, r)
           b == EH!BucketOf(h, k)
           p == EH!PageOf(h, k)
           w == EH!WithEntry(b, k, r)
<1>1. /\ root' = h.directory
      /\ nodes' = IF w = <<>> THEN h.buckets ELSE [h.buckets EXCEPT ![p] = w[1]]
      /\ raised' = IF w = <<>> THEN "directory full" ELSE "nothing"
  BY DEF EH!Insert
<1>2. EH!Index' = [directory |-> root', buckets |-> nodes'] /\ EH!Index.buckets = nodes
  BY DEF EH!Index
<1>3. /\ HashOK(h) /\ HeldBy(h.buckets) = HeldBy(nodes)
      /\ ~ Fits(h, k, r) => b.depth = MaxDepth /\ h.directory.depth = MaxDepth
  BY <1>2, OpenedKeeps
<1> HIDE DEF h
<1>4. CASE w = <<>>
  <2>1. EH!Index' = h
    <3>1. h = [directory |-> h.directory, buckets |-> h.buckets]
      BY <1>3 DEF HashOK, HashSet
    <3> QED
      BY <1>1, <1>2, <1>4, <3>1
  <2>2. ~ Fits(h, k, r)
    BY <1>4 DEF Fits
  <2>3. Clogged(h)
    BY <1>3, <2>2 DEF Clogged
  <2>4. HeldBy(nodes)' = HeldBy(nodes)
    <3>1. HeldBy(nodes)' = HeldBy(h.buckets)
      BY <1>1, <1>4
    <3> QED
      BY <1>3, <3>1
  <2> QED
    BY <1>1, <1>3, <1>4, <2>1, <2>3, <2>4
<1>5. CASE w # <<>>
  <2>1. /\ p \in DOMAIN h.buckets /\ b = h.buckets[p] /\ BucketOK(b) /\ p = Lead(h.directory, k)
    BY <1>3, HashTypes
  <2>2. <<k, r>> \notin Holds(b)
    BY <1>3, <2>1 DEF HeldBy
  <2> DEFINE c == w[1]
  <2>3. BucketOK(c) /\ c.depth = b.depth /\ Holds(c) = Holds(b) \union {<<k, r>>}
    <3> HIDE DEF b
    <3> QED
      BY <1>5, <2>1, <2>2, WithEntryKeeps
  <2>4. \A e \in Holds(c) : Lead(h.directory, e[1]) = p
    <3>1. \A e \in Holds(b) : Lead(h.directory, e[1]) = p
      BY <1>3, <2>1 DEF HashOK, EntriesLed
    <3> HIDE DEF p, b, c
    <3> QED
      BY <2>1, <2>3, <3>1
  <2> DEFINE bs == [h.buckets EXCEPT ![p] = c]
  <2> HIDE DEF p, b, c
  <2>5. /\ HashOK([directory |-> h.directory, buckets |-> bs])
        /\ \A e : e \in HeldBy(bs) <=> e \in Holds(c) \/ (e \in HeldBy(h.buckets) /\ e \notin Holds(h.buckets[p]))
    BY <1>3, <2>1, <2>3, <2>4, ReplacedKeeps
  <2>6. nodes' = bs /\ root' = h.directory /\ raised' = "nothing"
    BY <1>1, <1>5 DEF c, b, p
  <2> HIDE DEF bs
  <2>7. HashOK(EH!Index)'
    BY <1>2, <2>5, <2>6
  <2>8. HeldBy(bs) = HeldBy(nodes) \union {<<k, r>>}
    <3>1. \A e : e \in Holds(b) => e \in HeldBy(h.buckets)
      BY <2>1 DEF HeldBy
    <3> QED
      BY <1>3, <2>1, <2>3, <2>5, <3>1
  <2>9. HeldBy(nodes)' = HeldBy(bs)
    BY <2>6
  <2> QED
    BY <2>6, <2>7, <2>8, <2>9
<1> QED
  BY <1>4, <1>5

(* A delete finds its entry.                                                *)
LEMMA DeleteKeeps ==
  ASSUME HashOK(EH!Index), NEW k \in Key, NEW r \in Rid, <<k, r>> \in HeldBy(nodes), EH!Delete(k, r)
  PROVE  /\ HashOK(EH!Index)'
         /\ raised' = "nothing" /\ HeldBy(nodes)' = HeldBy(nodes) \ {<<k, r>>}
<1> DEFINE h == EH!Index
           p == EH!PageOf(h, k)
           b == nodes[p]
           I == {j \in 1 .. Len(b.slots) : b.slots[j].valid /\ b.slots[j].key = k /\ b.slots[j].rid = r}
           i == EH!SelectInSeq(b.slots, LAMBDA s : s.valid /\ s.key = k /\ s.rid = r)
<1>1. h.buckets = nodes /\ h.directory = root /\ EH!Index' = [directory |-> root', buckets |-> nodes']
  BY DEF EH!Index
<1>2. /\ nodes' = IF i = 0 THEN nodes ELSE [nodes EXCEPT ![p].slots[i].valid = FALSE]
      /\ raised' = IF i = 0 THEN "missing" ELSE "nothing"
      /\ root' = root
  BY DEF EH!Delete
<1>3. /\ p \in DOMAIN nodes /\ BucketOK(b) /\ p = Lead(root, k)
  BY <1>1, HashTypes
<1>4. <<k, r>> \in Holds(b)
  <2>1. PICK q \in DOMAIN nodes : <<k, r>> \in Holds(nodes[q])
    BY DEF HeldBy
  <2>2. Lead(root, <<k, r>>[1]) = q
    BY <1>1, <2>1 DEF HashOK, EntriesLed
  <2>3. q = p
    BY <1>3, <2>2
  <2> QED
    BY <2>1, <2>3
<1>5. b \in BucketSet /\ Len(b.slots) \in Nat /\ DOMAIN b.slots = 1 .. Len(b.slots)
  BY <1>3, BucketTypes DEF BucketOK
<1>6. I # {} /\ I \subseteq Nat
  BY <1>4, <1>5, SMTT(60) DEF Holds
<1>7. i \in I
  <2>1. \E x \in I : \A y \in I : x <= y
    <3> HIDE DEF I
    <3> QED
      BY <1>6, LeastNat
  <2>2. i = EH!Min(I)
    BY <1>6, Zenon DEF EH!SelectInSeq
  <2>3. EH!Min(I) \in I
    BY <2>1, Zenon DEF EH!Min
  <2> QED
    BY <2>2, <2>3
<1> HIDE DEF i
<1>8. i # 0 /\ i \in DOMAIN b.slots /\ b.slots[i].valid /\ b.slots[i].key = k /\ b.slots[i].rid = r
  BY <1>5, <1>7
<1> DEFINE c == Emptied(b, i)
<1>9. [b EXCEPT !.slots[i].valid = FALSE] = c
  BY <1>5, <1>8, EmptiedIs
<1>10. nodes' = [nodes EXCEPT ![p] = c] /\ raised' = "nothing" /\ root' = root
  <2>1. nodes' = [nodes EXCEPT ![p].slots[i].valid = FALSE]
    BY <1>2, <1>8
  <2>2. [nodes EXCEPT ![p].slots[i].valid = FALSE] = [nodes EXCEPT ![p] = [nodes[p] EXCEPT !.slots[i].valid = FALSE]]
    OBVIOUS
  <2> QED
    BY <1>2, <1>8, <1>9, <2>1, <2>2
<1>11. BucketOK(c) /\ c.depth = b.depth /\ Holds(c) = Holds(b) \ {<<k, r>>}
  <2> HIDE DEF b
  <2> QED
    BY <1>3, <1>8, EmptiedKeeps
<1>12. \A e \in Holds(c) : Lead(root, e[1]) = p
  <2>1. \A e \in Holds(b) : Lead(root, e[1]) = p
    BY <1>1, <1>3 DEF HashOK, EntriesLed
  <2> QED
    BY <1>11, <2>1
<1> HIDE DEF h, p, c
<1> DEFINE bs == [nodes EXCEPT ![p] = c]
<1>13. /\ HashOK([directory |-> root, buckets |-> bs])
       /\ \A e : e \in HeldBy(bs) <=> e \in Holds(c) \/ (e \in HeldBy(nodes) /\ e \notin Holds(b))
  <2>1. /\ HashOK(h) /\ p \in DOMAIN h.buckets /\ c.depth = h.buckets[p].depth
        /\ \A e \in Holds(c) : Lead(h.directory, e[1]) = p
    BY <1>1, <1>3, <1>11, <1>12 DEF h
  <2>2. /\ HashOK([directory |-> h.directory, buckets |-> [h.buckets EXCEPT ![p] = c]])
        /\ \A e : e \in HeldBy([h.buckets EXCEPT ![p] = c])
                    <=> e \in Holds(c) \/ (e \in HeldBy(h.buckets) /\ e \notin Holds(h.buckets[p]))
    BY <1>11, <2>1, ReplacedKeeps
  <2> QED
    BY <1>1, <2>2
<1> HIDE DEF bs
<1>14. HashOK(EH!Index)'
  BY <1>1, <1>10, <1>13 DEF bs
<1>15. HeldBy(bs) = HeldBy(nodes) \ {<<k, r>>}
  <2>1. \A e : e \in Holds(b) => e \in HeldBy(nodes)
    BY <1>3 DEF HeldBy
  <2> QED
    BY <1>4, <1>11, <1>13, <2>1
<1>16. HeldBy(nodes)' = HeldBy(bs)
  BY <1>10 DEF bs
<1> QED
  BY <1>10, <1>14, <1>15, <1>16

LEMMA HeldTypes ==
  ASSUME NEW h, HashOK(h)
  PROVE  \A e \in HeldBy(h.buckets) : e = <<e[1], e[2]>> /\ e[1] \in Key /\ e[2] \in Rid
<1>1. ASSUME NEW e \in HeldBy(h.buckets) PROVE e = <<e[1], e[2]>> /\ e[1] \in Key /\ e[2] \in Rid
  <2>1. PICK p \in DOMAIN h.buckets : e \in Holds(h.buckets[p])
    BY DEF HeldBy
  <2>2. h.buckets[p] \in BucketSet
    BY DEF HashOK, BucketOK
  <2>3. PICK i \in DOMAIN h.buckets[p].slots : e = <<h.buckets[p].slots[i].key, h.buckets[p].slots[i].rid>>
    BY <2>1 DEF Holds
  <2>4. h.buckets[p].slots[i].key \in Key /\ h.buckets[p].slots[i].rid \in Rid
    BY <2>2, BucketTypes
  <2> QED
    BY <2>3, <2>4
<1> QED
  BY <1>1

LEMMA HashViews ==
  ASSUME kind = "hash"
  PROVE  Indexed = HeldBy(nodes) /\ Row = HashRow /\ ~ Sequential /\ ~ Vectorial
<1>1. ~ Sequential /\ ~ Vectorial
  BY DEF Sequential, Vectorial
<1>2. Indexed = EH!Indexed
  BY <1>1 DEF Indexed
<1>3. Row = HashRow
  BY <1>1 DEF Row
<1> QED
  BY <1>1, <1>2, <1>3, IndexedIs

LEMMA HashStarts ==
  ASSUME Init, kind = "hash"
  PROVE  HashInv /\ HeldBy(nodes) = {} /\ raised = "nothing"
<1> DEFINE b == EH!Bucket(0, <<>>, 0)
           at == [i \in {0} |-> EH!Pointer(1, 0)]
           d == [depth |-> 0, at |-> at]
<1>1. root = d /\ nodes = <<b>> /\ raised = "nothing" /\ unique = FALSE
  BY DEF Init, EH!Init
<1>2. BucketOK(b) /\ Holds(b) = {} /\ b \in BucketSet /\ b.depth = 0
  <2>1. BucketOK(b) /\ Holds(b) = {}
    BY FreshBucket
  <2> QED
    BY <2>1 DEF BucketOK, EH!Bucket
<1> HIDE DEF b
<1>3. nodes \in Seq(BucketSet) /\ DOMAIN nodes = {1} /\ nodes[1] = b
  BY <1>1, <1>2
<1>4. /\ d.depth = 0 /\ d.at = at /\ DOMAIN at = {0} /\ at[0].page = 1 /\ at[0].depth = 0
      /\ at \in [{0} -> [page : Nat, depth : Nat]]
  BY DEF EH!Pointer
<1> HIDE DEF at
<1>5. 0 .. EH!Pow2[0] - 1 = {0} /\ 0 \in 0 .. MaxDepth
  BY PowersAre, HashesAssumption
<1>6. d \in DirectorySet
  BY <1>4, <1>5, DirectoryMade
<1> HIDE DEF d
<1>7. Leads(d, nodes)
  <2>1. Shares(d.at)
    BY <1>4 DEF Shares
  <2> QED
    BY <1>2, <1>3, <1>4, <1>5, <1>6, <2>1 DEF Leads
<1>8. EntriesLed(d, nodes) /\ HeldBy(nodes) = {}
  BY <1>2, <1>3 DEF EntriesLed, HeldBy
<1>9. HashOK(EH!Index)
  <2>1. EH!Index = [directory |-> d, buckets |-> nodes]
    BY <1>1 DEF EH!Index
  <2> QED
    BY <1>2, <1>3, <1>6, <1>7, <1>8, <2>1 DEF HashOK, HashSet
<1> QED
  BY <1>1, <1>8, <1>9 DEF HashInv

(* What a step of a hash index is.                                          *)
LEMMA HashSteps ==
  ASSUME kind = "hash", HashInv, Next
  PROVE  /\ (kind = "hash")' /\ unique' = unique
         /\ \E k \in Key, r \in Rid : \/ <<k, r>> \notin HeldBy(nodes) /\ EH!Insert(k, r)
                                      \/ <<k, r>> \in HeldBy(nodes) /\ EH!Delete(k, r)
<1>1. (kind = "hash")'
  BY DEF Next
<1>2. HashOK(EH!Index) /\ EH!Index.buckets = nodes
  BY DEF HashInv, EH!Index
<1>3. \A e \in Indexed : e = <<e[1], e[2]>> /\ e[1] \in Key /\ e[2] \in Rid
  BY <1>2, HashViews, HeldTypes
<1>4. \A e \in Row : e = <<e[1], e[2]>> /\ e[1] \in Key /\ e[2] \in Rid
  BY HashViews, HashesAssumption DEF Key, Rid
<1>5. ASSUME NEW e \in Row \ Indexed, Insert(e[1], e[2])
      PROVE  <<e[1], e[2]>> \notin HeldBy(nodes) /\ EH!Insert(e[1], e[2]) /\ unique' = unique
  <2>1. EH!Insert(e[1], e[2]) /\ unique' = unique
    BY <1>5, HashViews DEF Insert
  <2>2. e \notin HeldBy(nodes) /\ e = <<e[1], e[2]>>
    BY <1>4, HashViews
  <2> QED
    BY <2>1, <2>2
<1>6. ASSUME NEW e \in Indexed, Delete(e[1], e[2])
      PROVE  <<e[1], e[2]>> \in HeldBy(nodes) /\ EH!Delete(e[1], e[2]) /\ unique' = unique
  <2>1. EH!Delete(e[1], e[2]) /\ unique' = unique
    BY <1>6, HashViews DEF Delete
  <2>2. e \in HeldBy(nodes) /\ e = <<e[1], e[2]>>
    BY <1>3, HashViews
  <2> QED
    BY <2>1, <2>2
<1>7. \A k, r, new : ~ Update(k, r, new)
  BY HashViews DEF Update
<1>8. ~ Reorganize /\ ~ Rank /\ ~ Load /\ ~ Rebuild /\ \A k : ~ Ask(k)
  BY HashViews DEF Reorganize, Rank, Load, Rebuild, Ask
<1>9. \/ \E e \in Row \ Indexed : Insert(e[1], e[2])
      \/ \E e \in Indexed : Delete(e[1], e[2])
  BY <1>7, <1>8 DEF Next
<1> QED
  BY <1>1, <1>3, <1>4, <1>5, <1>6, <1>9

LEMMA HashStepKeeps ==
  ASSUME kind = "hash", HashInv, Next
  PROVE  /\ HashInv' /\ (kind = "hash")' /\ unique' = unique
         /\ \E e : \/ raised' = "nothing" /\ e \notin HeldBy(nodes) /\ HeldBy(nodes)' = HeldBy(nodes) \union {e}
                   \/ raised' = "directory full" /\ HeldBy(nodes)' = HeldBy(nodes)
                   \/ raised' = "nothing" /\ e \in HeldBy(nodes) /\ HeldBy(nodes)' = HeldBy(nodes) \ {e}
<1>1. (kind = "hash")' /\ unique' = unique /\ HashOK(EH!Index) /\ unique = FALSE
  BY HashSteps DEF HashInv
<1>2. PICK k \in Key, r \in Rid : \/ <<k, r>> \notin HeldBy(nodes) /\ EH!Insert(k, r)
                                  \/ <<k, r>> \in HeldBy(nodes) /\ EH!Delete(k, r)
  BY HashSteps
<1>3. CASE <<k, r>> \notin HeldBy(nodes) /\ EH!Insert(k, r)
  <2>1. /\ HashOK(EH!Index)'
        /\ \/ raised' = "nothing" /\ HeldBy(nodes)' = HeldBy(nodes) \union {<<k, r>>}
           \/ raised' = "directory full" /\ HeldBy(nodes)' = HeldBy(nodes) /\ Clogged(EH!Index)'
    BY <1>1, <1>3, InsertKeeps
  <2>2. HashInv'
    BY <1>1, <2>1 DEF HashInv
  <2> QED
    BY <1>1, <1>3, <2>1, <2>2
<1>4. CASE <<k, r>> \in HeldBy(nodes) /\ EH!Delete(k, r)
  <2>1. HashOK(EH!Index)' /\ raised' = "nothing" /\ HeldBy(nodes)' = HeldBy(nodes) \ {<<k, r>>}
    BY <1>1, <1>4, DeleteKeeps
  <2>2. HashInv'
    BY <1>1, <2>1 DEF HashInv
  <2> QED
    BY <1>1, <1>4, <2>1, <2>2
<1> QED
  BY <1>2, <1>3, <1>4

LEMMA KindStays ==
  ASSUME [Next]_vars
  PROVE  kind' = kind
BY DEF Next, vars

LEMMA HashInvHolds == Spec => []HashInv
<1>1. Init => HashInv
  <2>1. kind = "hash" \/ kind # "hash"
    OBVIOUS
  <2> QED
    BY <2>1, HashStarts DEF HashInv
<1>2. HashInv /\ [Next]_vars => HashInv'
  <2>1. ASSUME HashInv, Next, kind = "hash" PROVE HashInv'
    BY <2>1, HashStepKeeps
  <2>2. ASSUME HashInv, [Next]_vars, kind # "hash" PROVE HashInv'
    BY <2>2, KindStays DEF HashInv
  <2>3. ASSUME HashInv, UNCHANGED vars PROVE HashInv'
    BY <2>3 DEF HashInv, vars, EH!Index, Clogged, Fits
  <2> QED
    BY <2>1, <2>2, <2>3
<1> QED
  BY <1>1, <1>2, PTL DEF Spec

-----------------------------------------------------------------------------
(* Numbers of rows and of bytes.                                            *)

LEMMA DivIs ==
  ASSUME NEW m \in Nat \ {0}, NEW q \in Nat, NEW x \in 0 .. m - 1
  PROVE  (q * m + x) \div m = q
OBVIOUS

(* A bucket without a slot to use again holds as many rows as it has slots. *)
LEMMA HoldsCount ==
  ASSUME NEW b, BucketOK(b), \A i \in DOMAIN b.slots : b.slots[i].valid
  PROVE  Cardinality(Holds(b)) = Len(b.slots)
<1> DEFINE n == Len(b.slots)
           f == [i \in 1 .. n |-> <<b.slots[i].key, b.slots[i].rid>>]
<1>1. n \in Nat /\ DOMAIN b.slots = 1 .. n
  BY BucketTypes DEF BucketOK
<1>2. Holds(b) = {f[i] : i \in 1 .. n}
  BY <1>1 DEF Holds
<1>3. \A i, j \in 1 .. n : f[i] = f[j] => i = j
  BY <1>1 DEF BucketOK, Distinct
<1>4. f \in [1 .. n -> Holds(b)]
  BY <1>2
<1> HIDE DEF f
<1>5. f \in Bijection(1 .. n, Holds(b))
  <2>1. f \in Injection(1 .. n, Holds(b))
    BY <1>3, <1>4 DEF Injection, IsInjective
  <2>2. f \in Surjection(1 .. n, Holds(b))
    BY <1>2, <1>4 DEF Surjection
  <2> QED
    BY <2>1, <2>2 DEF Bijection
<1>6. IsFiniteSet(1 .. n) /\ Cardinality(1 .. n) = n
  <2>1. 1 + n - 1 = n
    BY <1>1
  <2> HIDE DEF n
  <2>2. IsFiniteSet(1 .. 1 + n - 1) /\ Cardinality(1 .. 1 + n - 1) = n
    BY <1>1, IntervalSize
  <2> QED
    BY <2>1, <2>2
<1>7. ExistsBijection(1 .. n, Holds(b))
  BY <1>5 DEF ExistsBijection
<1> QED
  BY <1>6, <1>7, FS_Bijection

(* As many as fit, where rows have one length and the next one has no room. *)
LEMMA FullCount ==
  ASSUME NEW b, BucketOK(b), NEW k \in Key, AllLong(PayloadLen[k]), NEW r, EH!WithEntry(b, k, r) = <<>>
  PROVE  Cardinality(Holds(b)) = BucketRoom \div (BucketSlot + PayloadLen[k])
<1> DEFINE n == Len(b.slots)
           l == PayloadLen[k]
           m == BucketSlot + l
<1>1. b \in BucketSet /\ n \in Nat /\ DOMAIN b.slots = 1 .. n /\ b.data \in Nat
  BY BucketTypes DEF BucketOK
<1>2. l \in Nat /\ BucketSlot \in Nat \ {0} /\ BucketRoom \in Nat
  BY KeyTypes, HashesAssumption
<1>3. EH!Recyclable(b, k) = 0 /\ TooSmall(b, k)
  <2>1. \A x : <<x>> # <<>>
    OBVIOUS
  <2> QED
    BY <1>1, <2>1, WithEntryForms, Zenon
<1>4. b.data = l * n /\ \A i \in DOMAIN b.slots : b.slots[i].len = l
  BY <1>2 DEF BucketOK, Even
<1>5. \A i \in DOMAIN b.slots : b.slots[i].valid
  <2>1. ASSUME NEW i \in DOMAIN b.slots PROVE b.slots[i].valid
    <3>1. b.slots[i].valid \/ b.slots[i].len < PayloadLen[k]
      BY <1>1, <1>3, RecyclableIs
    <3> QED
      BY <1>2, <1>4, <3>1
  <2> QED
    BY <2>1
<1>6. Cardinality(Holds(b)) = n
  BY <1>5, HoldsCount
<1>7. BucketRoom \div m = n
  <2> DEFINE s == BucketSlot
             u == l * n
             v == n * s
  <2>1. BucketRoom - u - v < s + l
    BY <1>3, <1>4 DEF TooSmall
  <2>2. u + v <= BucketRoom
    BY <1>4 DEF BucketOK, InPage
  <2>3. u \in Nat /\ v \in Nat /\ n * m = u + v /\ m \in Nat \ {0} /\ s \in Nat
    <3> HIDE DEF n, l
    <3> QED
      BY <1>1, <1>2
  <2> DEFINE x == BucketRoom - (u + v)
  <2>4. m = s + l
    OBVIOUS
  <2> HIDE DEF u, v, m, s, n, l
  <2>5. x \in 0 .. m - 1 /\ BucketRoom = n * m + x
    BY <1>2, <2>1, <2>2, <2>3, <2>4
  <2> HIDE DEF x
  <2>6. (n * m + x) \div m = n
    BY <1>1, <2>3, <2>5, DivIs
  <2> QED
    BY <2>5, <2>6
<1> QED
  BY <1>6, <1>7

(* In a bucket with every bit there is are the rows that share those bits.  *)
LEMMA DeepestBucket ==
  ASSUME NEW h, HashOK(h), NEW k \in Key, EH!BucketOf(h, k).depth = MaxDepth, h.directory.depth = MaxDepth
  PROVE  {e \in HeldBy(h.buckets) : EH!BucketIdx(e[1], MaxDepth) = EH!BucketIdx(k, MaxDepth)}
           = Holds(EH!BucketOf(h, k))
<1> DEFINE b == EH!BucketOf(h, k)
           d == h.directory
           p == Lead(d, k)
           bit(l) == EH!BucketIdx(l, MaxDepth)
<1>1. b = h.buckets[p] /\ p \in DOMAIN h.buckets /\ BucketOK(b)
  BY HashTypes
<1>2. \A l \in Key : bit(l) \in DOMAIN d.at /\ Lead(d, l) = d.at[bit(l)].page
  BY IndexInDirectory DEF HashOK, Lead
<1>3. \A l \in Key : bit(l) \in Nat /\ Lowest(bit(l), MaxDepth) = bit(l)
  <2>1. ASSUME NEW l \in Key PROVE bit(l) \in Nat /\ Lowest(bit(l), MaxDepth) = bit(l)
    <3> DEFINE m == EH!Pow2[MaxDepth]
               x == Hash[l] % m
    <3>1. m \in Nat \ {0}
      BY PowersPositive, HashesAssumption
    <3>2. x \in 0 .. m - 1
      <4>1. Hash[l] \in Nat
        BY KeyTypes
      <4> HIDE DEF m
      <4> QED
        BY <3>1, <4>1, DivMod
    <3>3. x \in Nat /\ x % m = x
      <4> HIDE DEF m, x
      <4> QED
        BY <3>1, <3>2
    <3> QED
      BY <3>3 DEF Lowest, EH!BucketIdx
  <2> QED
    BY <2>1
<1>4. d.at[bit(k)].depth = MaxDepth
  BY <1>1, <1>2 DEF HashOK, Leads
<1>5. \A e \in HeldBy(h.buckets) : e[1] \in Key
  BY HeldTypes
<1>6. ASSUME NEW e \in HeldBy(h.buckets), bit(e[1]) = bit(k) PROVE e \in Holds(b)
  <2>1. PICK q \in DOMAIN h.buckets : e \in Holds(h.buckets[q])
    BY DEF HeldBy
  <2>2. Lead(d, e[1]) = q
    BY <2>1 DEF HashOK, EntriesLed
  <2>3. q = p
    BY <1>2, <1>5, <1>6, <2>2
  <2> QED
    BY <1>1, <2>1, <2>3
<1>7. ASSUME NEW e \in Holds(b) PROVE e \in HeldBy(h.buckets) /\ bit(e[1]) = bit(k)
  <2>1. e \in HeldBy(h.buckets) /\ Lead(d, e[1]) = p /\ e[1] \in Key
    BY <1>1, <1>5 DEF HeldBy, HashOK, EntriesLed
  <2>2. d.at[bit(k)].page = d.at[bit(e[1])].page
    BY <1>2, <2>1
  <2>3. Lowest(bit(k), MaxDepth) = Lowest(bit(e[1]), MaxDepth)
    BY <1>2, <1>4, <2>1, <2>2 DEF HashOK, Leads, Shares
  <2> QED
    BY <1>3, <2>1, <2>3
<1> QED
  BY <1>6, <1>7

LEMMA SearchIs ==
  ASSUME HashOK(EH!Index), NEW k \in Key
  PROVE  EH!Search(k) = {e[2] : e \in {x \in HeldBy(nodes) : x[1] = k}}
<1> DEFINE b == EH!BucketOf(EH!Index, k)
           held == {e[2] : e \in {x \in HeldBy(nodes) : x[1] = k}}
<1>1. EH!Index.buckets = nodes /\ EH!Index.directory = root
  BY DEF EH!Index
<1>2. b = nodes[Lead(root, k)] /\ Lead(root, k) \in DOMAIN nodes
  BY <1>1, HashTypes
<1>3. ASSUME NEW r PROVE r \in EH!Search(k) <=> <<k, r>> \in Holds(b)
  <2> HIDE DEF b
  <2>1. r \in EH!Search(k) <=>
          \E i \in DOMAIN b.slots : b.slots[i].valid /\ b.slots[i].key = k /\ r = b.slots[i].rid
    BY DEF EH!Search, EH!Entries, b
  <2>2. <<k, r>> \in Holds(b) <=>
          \E i \in DOMAIN b.slots : b.slots[i].valid /\ <<k, r>> = <<b.slots[i].key, b.slots[i].rid>>
    BY DEF Holds
  <2> QED
    BY <2>1, <2>2
<1>4. ASSUME NEW r PROVE r \in held <=> <<k, r>> \in HeldBy(nodes)
  <2>1. \A e \in HeldBy(nodes) : e = <<e[1], e[2]>>
    BY <1>1, HeldTypes
  <2> QED
    BY <2>1
<1>5. ASSUME NEW r PROVE <<k, r>> \in Holds(b) <=> <<k, r>> \in HeldBy(nodes)
  <2>1. \A q \in DOMAIN nodes : <<k, r>> \in Holds(nodes[q]) => Lead(root, <<k, r>>[1]) = q
    BY <1>1 DEF HashOK, EntriesLed
  <2> QED
    BY <1>2, <2>1 DEF HeldBy
<1> HIDE DEF held, b
<1> QED
  BY <1>3, <1>4, <1>5 DEF held

-----------------------------------------------------------------------------
(* A search in a hash index gives every row of its key, and a row that is   *)
(* there is found when it is to be removed (LookupsComplete of the states   *)
(* of a hash index).                                                        *)
THEOREM HashLookupsComplete == Spec => [](kind = "hash" => LookupsComplete)
<1>1. HashInv => (kind = "hash" => LookupsComplete)
  <2>1. SUFFICES ASSUME HashInv, kind = "hash" PROVE LookupsComplete
    OBVIOUS
  <2>2. HashOK(EH!Index) /\ raised # "missing"
    BY <2>1 DEF HashInv
  <2>3. ~ Vectorial /\ Indexed = HeldBy(nodes)
    BY <2>1, HashViews
  <2>4. \A k \in DOMAIN Hash : EH!Search(k) = {e[2] : e \in {x \in Indexed : x[1] = k}}
    BY <2>2, <2>3, SearchIs DEF Key
  <2> QED
    BY <2>1, <2>2, <2>3, <2>4 DEF LookupsComplete
<1> QED
  BY <1>1, HashInvHolds, PTL

(* The directory and the buckets agree on the bits that lead to a bucket,   *)
(* and an insert fails only at as many rows as a bucket holds that share    *)
(* every bit a directory can have.                                          *)
THEOREM BucketsAlwaysShared == Spec => []BucketsShared
<1>1. HashInv => BucketsShared
  <2>1. SUFFICES ASSUME HashInv, kind = "hash" PROVE BucketsShared
    BY DEF BucketsShared
  <2> DEFINE clash(k) == Cardinality({e \in Indexed : EH!BucketIdx(e[1], MaxDepth) = EH!BucketIdx(k, MaxDepth)})
             full(k) == BucketRoom \div (BucketSlot + PayloadLen[k])
             oneLength == \A k, l \in DOMAIN Hash : PayloadLen[k] = PayloadLen[l]
  <2>2. HashOK(EH!Index) /\ EH!Index = [directory |-> root, buckets |-> nodes]
    BY <2>1 DEF HashInv, EH!Index
  <2>3. Leads(root, nodes)
    BY <2>2 DEF HashOK
  <2>4. \A i, j \in DOMAIN root.at :
          root.at[i].page = root.at[j].page <=>
            i % EH!Pow2[root.at[i].depth] = j % EH!Pow2[root.at[i].depth]
    BY <2>3 DEF Leads, Shares, Lowest
  <2>5. \A i \in DOMAIN root.at : root.at[i].depth = nodes[root.at[i].page].depth /\ root.at[i].depth <= root.depth
    BY <2>3 DEF Leads
  <2>6. ASSUME oneLength, raised = "directory full" PROVE \E k \in DOMAIN Hash : clash(k) = full(k)
    <3>1. Clogged(EH!Index)
      BY <2>1, <2>6 DEF HashInv
    <3>2. PICK k \in Key, r \in Rid :
            /\ ~ Fits(EH!Index, k, r)
            /\ EH!BucketOf(EH!Index, k).depth = MaxDepth
            /\ EH!Index.directory.depth = MaxDepth
      BY <3>1 DEF Clogged
    <3> DEFINE b == EH!BucketOf(EH!Index, k)
    <3>3. BucketOK(b) /\ EH!WithEntry(b, k, r) = <<>>
      BY <2>2, <3>2, HashTypes DEF Fits
    <3>4. AllLong(PayloadLen[k])
      BY <2>6 DEF AllLong, Key
    <3>5. Cardinality(Holds(b)) = full(k)
      BY <3>3, <3>4, FullCount
    <3>6. EH!Index.buckets = nodes /\ Indexed = HeldBy(nodes)
      BY <2>1, <2>2, HashViews
    <3>7. {e \in Indexed : EH!BucketIdx(e[1], MaxDepth) = EH!BucketIdx(k, MaxDepth)} = Holds(b)
      BY <2>2, <3>2, <3>6, DeepestBucket
    <3> QED
      BY <3>5, <3>7 DEF Key
  <2> QED
    BY <2>4, <2>5, <2>6 DEF BucketsShared
<1> QED
  BY <1>1, HashInvHolds, PTL

(* A hash index is a set of entries: an insert adds its entry or, when the  *)
(* directory is full, changes nothing, however many splits it made, and a   *)
(* delete takes its entry out (IsKeyIndex for a hash index).                *)
THEOREM HashIsKeyIndex == Spec /\ kind = "hash" => IsKeyIndex
<1> DEFINE H == kind = "hash" /\ HashInv
<1>1. Init /\ kind = "hash" => H /\ KeyIndexSpec!Init
  <2>1. SUFFICES ASSUME Init, kind = "hash" PROVE H /\ KeyIndexSpec!Init
    OBVIOUS
  <2>2. HashInv /\ HeldBy(nodes) = {} /\ raised = "nothing"
    BY <2>1, HashStarts
  <2>3. Indexed = {}
    BY <2>1, <2>2, HashViews
  <2>4. unique \in BOOLEAN
    BY <2>1, <2>2 DEF HashInv
  <2> QED
    BY <2>1, <2>2, <2>3, <2>4 DEF KeyIndexSpec!Init
<1> DEFINE updating == kind \in {"rows by rid", "text", "ivf", "hnsw"}
           view == <<Indexed, unique, updating, raised>>
<1>2. H /\ [Next]_vars => H' /\ [KeyIndexSpec!Next]_view
  <2>1. SUFFICES ASSUME kind = "hash", HashInv, [Next]_vars PROVE H' /\ [KeyIndexSpec!Next]_view
    OBVIOUS
  <2>2. CASE UNCHANGED vars
    <3>1. kind' = kind /\ Indexed = HeldBy(nodes) /\ HeldBy(nodes)' = HeldBy(nodes)
      BY <2>1, <2>2, HashViews DEF vars
    <3>2. (kind = "hash" => Indexed = HeldBy(nodes))'
      BY HashViews, PTL
    <3>3. HashInv'
      BY <2>1, <2>2 DEF HashInv, vars, EH!Index, Clogged, Fits
    <3> QED
      BY <2>1, <2>2, <3>1, <3>2, <3>3 DEF vars
  <2>3. CASE Next
    <3>1. /\ HashInv' /\ (kind = "hash")' /\ unique' = unique
          /\ \E e : \/ raised' = "nothing" /\ e \notin HeldBy(nodes) /\ HeldBy(nodes)' = HeldBy(nodes) \union {e}
                    \/ raised' = "directory full" /\ HeldBy(nodes)' = HeldBy(nodes)
                    \/ raised' = "nothing" /\ e \in HeldBy(nodes) /\ HeldBy(nodes)' = HeldBy(nodes) \ {e}
      BY <2>1, <2>3, HashStepKeeps
    <3>2. (kind = "hash" => Indexed = HeldBy(nodes))'
      BY HashViews, PTL
    <3>3. Indexed = HeldBy(nodes) /\ Indexed' = HeldBy(nodes)' /\ ~ unique /\ updating' = updating
      BY <2>1, <3>1, <3>2, HashViews DEF HashInv
    <3>4. KeyIndexSpec!Next
      <4> DEFINE gone == Indexed \ Indexed'
                 new == Indexed' \ Indexed
      <4>1. PICK e : \/ raised' = "nothing" /\ e \notin Indexed /\ Indexed' = Indexed \union {e}
                     \/ raised' = "directory full" /\ Indexed' = Indexed
                     \/ raised' = "nothing" /\ e \in Indexed /\ Indexed' = Indexed \ {e}
        BY <3>1, <3>3
      <4>2. \/ KeyIndexSpec!Add(gone, new) \/ KeyIndexSpec!Remove(gone, new) \/ KeyIndexSpec!Fail(gone, new)
        <5>1. CASE raised' = "nothing" /\ e \notin Indexed /\ Indexed' = Indexed \union {e}
          <6>1. gone = {} /\ new = {e}
            BY <5>1
          <6> HIDE DEF gone, new
          <6> QED
            BY <3>3, <5>1, <6>1 DEF KeyIndexSpec!Add, KeyIndexSpec!NoneOrOne, KeyIndexSpec!NewKeys
        <5>2. CASE raised' = "directory full" /\ Indexed' = Indexed
          BY <5>2 DEF KeyIndexSpec!Fail
        <5>3. CASE raised' = "nothing" /\ e \in Indexed /\ Indexed' = Indexed \ {e}
          <6>1. gone = {e} /\ new = {}
            BY <5>3
          <6> HIDE DEF gone, new
          <6> QED
            BY <5>3, <6>1 DEF KeyIndexSpec!Remove, KeyIndexSpec!NoneOrOne
        <5> QED
          BY <4>1, <5>1, <5>2, <5>3
      <4> HIDE DEF updating
      <4> QED
        BY <3>1, <3>3, <4>2 DEF KeyIndexSpec!Next, updating
    <3> QED
      BY <3>1, <3>4
  <2> QED
    BY <2>1, <2>2, <2>3
<1> QED
  BY <1>1, <1>2, PTL DEF Spec, IsKeyIndex, KeyIndexSpec!Spec

-----------------------------------------------------------------------------
(* The R-tree.  Pages refer to pages of a lower rank, emptied ones too, so  *)
(* that the descents end.                                                   *)

BoxSet == [x0 : Int, y0 : Int, x1 : Int, y1 : Int]
EntrySet == [mbr : BoxSet, ref : DOMAIN Point \union Nat]
NodeSet == [leaf : BOOLEAN, entries : Seq(EntrySet)]

Refs(ps, p) == {ps[p].entries[i].ref : i \in DOMAIN ps[p].entries}
Kids(ps, p) == IF ps[p].leaf THEN {} ELSE Refs(ps, p)

Ranked(ps, rank, N) ==
  /\ rank \in [DOMAIN ps -> 0 .. N]
  /\ \A p \in DOMAIN ps : \A k \in Kids(ps, p) : k \in DOMAIN ps /\ rank[k] < rank[p]

Under(f, p) ==
  {p} \union IF nodes[p].leaf THEN {} ELSE UNION {f[e.ref] : e \in RT!ToSet(nodes[p].entries)}

LEMMA UnderIs ==
  ASSUME NEW f, NEW p
  PROVE  Under(f, p) = {p} \union UNION {f[k] : k \in Kids(nodes, p)}
<1>1. Refs(nodes, p) = {e.ref : e \in RT!ToSet(nodes[p].entries)}
  BY DEF Refs, RT!ToSet
<1>2. CASE nodes[p].leaf
  BY <1>2 DEF Under, Kids
<1>3. CASE ~ nodes[p].leaf
  BY <1>1, <1>3 DEF Under, Kids
<1> QED
  BY <1>2, <1>3

LEMMA UnderSame ==
  ASSUME NEW f, NEW g, NEW p, \A k \in Kids(nodes, p) : f[k] = g[k]
  PROVE  Under(f, p) = Under(g, p)
BY UnderIs

LEMMA UnderExists ==
  ASSUME NEW rank, NEW N \in Nat, Ranked(nodes, rank, N)
  PROVE  \E f : f = [p \in DOMAIN nodes |-> Under(f, p)]
<1> DEFINE D == DOMAIN nodes
           Low(n) == {p \in D : rank[p] < n}
           S == {n \in Nat : \E f : f = [p \in Low(n) |-> Under(f, p)]}
<1>1. /\ \A p \in D : rank[p] \in 0 .. N
      /\ \A p \in D : \A k \in Kids(nodes, p) : k \in D /\ rank[k] < rank[p]
  BY DEF Ranked
<1> HIDE DEF D
<1>2. 0 \in S
  <2>1. Low(0) = {}
    BY <1>1
  <2> DEFINE f == [p \in Low(0) |-> {}]
  <2>2. f = [p \in Low(0) |-> Under(f, p)]
    BY <2>1
  <2> QED
    BY <2>2
<1>3. ASSUME NEW n \in Nat, n \in S PROVE n + 1 \in S
  <2>1. PICK f : f = [p \in Low(n) |-> Under(f, p)]
    BY <1>3
  <2> DEFINE g == [p \in Low(n + 1) |-> Under(f, p)]
  <2>2. \A q \in Low(n) : q \in Low(n + 1) /\ g[q] = f[q]
    <3> TAKE q \in Low(n)
    <3>1. q \in Low(n + 1)
      BY <1>1
    <3>2. f[q] = Under(f, q)
      BY <2>1
    <3> QED
      BY <3>1, <3>2
  <2>3. ASSUME NEW p \in Low(n + 1) PROVE Under(g, p) = Under(f, p)
    <3>1. \A k \in Kids(nodes, p) : k \in Low(n)
      BY <1>1
    <3>2. \A k \in Kids(nodes, p) : g[k] = f[k]
      BY <2>2, <3>1
    <3> HIDE DEF g
    <3> QED
      BY <3>2, UnderSame
  <2>4. g = [p \in Low(n + 1) |-> Under(g, p)]
    <3> DEFINE h == [p \in Low(n + 1) |-> Under(g, p)]
    <3>1. \A p \in Low(n + 1) : h[p] = g[p]
      BY <2>3
    <3> QED
      BY <3>1, Zenon
  <2> HIDE DEF g, Low
  <2>5. \E h : h = [p \in Low(n + 1) |-> Under(h, p)]
    BY <2>4, Zenon
  <2> QED
    BY <2>5
<1>4. N + 1 \in S
  <2> HIDE DEF S
  <2>1. Nat \subseteq S
    BY <1>2, <1>3, NatSetInduction
  <2> QED
    BY <2>1
<1>5. Low(N + 1) = D
  BY <1>1
<1> HIDE DEF Low
<1> QED
  BY <1>4, <1>5, Zenon DEF D

(* A page, the pages it refers to, and so on.                               *)
Closed(ps, C) == \A p \in C : Kids(ps, p) \subseteq C
Grows(ps, r, C) == r \in C /\ C \subseteq DOMAIN ps /\ Closed(ps, C)
Spans(ps, r, C) == Grows(ps, r, C) /\ \A B : Grows(ps, r, B) => C \subseteq B

LEMMA ReachableIs ==
  ASSUME NEW rank, NEW N \in Nat, Ranked(nodes, rank, N), root \in DOMAIN nodes
  PROVE  Spans(nodes, root, RT!Reachable)
<1> DEFINE f == CHOOSE g : g = [p \in DOMAIN nodes |-> Under(g, p)]
           D == DOMAIN nodes
           S == {n \in Nat : \A p \in D : rank[p] < n => Spans(nodes, p, f[p])}
<1>1. f = [p \in DOMAIN nodes |-> Under(f, p)]
  BY UnderExists, Zenon
<1>2. RT!Reachable = f[root]
  BY Zenon DEF RT!Reachable, Under
<1> HIDE DEF f
<1>3. /\ \A p \in D : rank[p] \in 0 .. N
      /\ \A p \in D : \A k \in Kids(nodes, p) : k \in D /\ rank[k] < rank[p]
  BY DEF Ranked
<1>4. \A p \in D : f[p] = {p} \union UNION {f[k] : k \in Kids(nodes, p)}
  BY <1>1, UnderIs
<1>5. 0 \in S
  BY <1>3
<1>6. ASSUME NEW n \in Nat, n \in S PROVE n + 1 \in S
  <2> SUFFICES ASSUME NEW p \in D, rank[p] < n + 1 PROVE Spans(nodes, p, f[p])
    BY <1>6
  <2>1. \A k \in Kids(nodes, p) : k \in D /\ Spans(nodes, k, f[k])
    BY <1>3, <1>6
  <2>2. f[p] = {p} \union UNION {f[k] : k \in Kids(nodes, p)}
    BY <1>4
  <2>3. p \in f[p] /\ f[p] \subseteq D
    BY <2>1, <2>2 DEF Spans, Grows
  <2>4. Closed(nodes, f[p])
    <3> SUFFICES ASSUME NEW q \in f[p], NEW x \in Kids(nodes, q) PROVE x \in f[p]
      BY DEF Closed
    <3>1. CASE q = p
      <4>1. x \in f[x]
        BY <2>1, <3>1 DEF Spans, Grows
      <4> QED
        BY <2>2, <3>1, <4>1
    <3>2. CASE q # p
      <4>1. PICK k \in Kids(nodes, p) : q \in f[k]
        BY <2>2, <3>2
      <4>2. x \in f[k]
        BY <2>1, <4>1 DEF Spans, Grows, Closed
      <4> QED
        BY <2>2, <4>2
    <3> QED
      BY <3>1, <3>2
  <2>5. ASSUME NEW B, Grows(nodes, p, B) PROVE f[p] \subseteq B
    <3>1. \A k \in Kids(nodes, p) : Grows(nodes, k, B)
      BY <2>5 DEF Grows, Closed
    <3>2. \A k \in Kids(nodes, p) : f[k] \subseteq B
      BY <2>1, <3>1 DEF Spans
    <3> QED
      BY <2>2, <2>5, <3>2 DEF Grows
  <2> QED
    BY <2>3, <2>4, <2>5 DEF Spans, Grows
<1>7. Nat \subseteq S
  <2> HIDE DEF S
  <2> QED
    BY <1>5, <1>6, NatSetInduction
<1>8. rank[root] \in 0 .. N /\ N + 1 \in S
  BY <1>3, <1>7
<1>9. rank[root] < N + 1 /\ root \in D
  BY <1>8
<1> QED
  BY <1>2, <1>8, <1>9

-----------------------------------------------------------------------------
(* Boxes and greatest values.                                               *)

LEMMA GreatestAt ==
  ASSUME NEW n \in Nat, NEW f \in [1 .. n -> Int], NEW T \in SUBSET (1 .. n), T # {}
  PROVE  \E i \in T : \A j \in T : f[i] >= f[j]
<1> DEFINE Good(m) == \A U \in SUBSET T : U # {} /\ (\A i \in U : i <= m) => \E i \in U : \A j \in U : f[i] >= f[j]
           S == {m \in Nat : Good(m)}
<1>0. \A i \in T : i \in Nat /\ i >= 1 /\ f[i] \in Int
  OBVIOUS
<1>1. 0 \in S
  <2>1. ASSUME NEW U \in SUBSET T, U # {}, \A i \in U : i <= 0 PROVE FALSE
    <3>1. PICK i \in U : TRUE
      BY <2>1
    <3>2. i \in T /\ i <= 0
      BY <2>1, <3>1
    <3> QED
      BY <1>0, <3>2
  <2> QED
    BY <2>1
<1>2. ASSUME NEW m \in Nat, m \in S PROVE m + 1 \in S
  <2> SUFFICES ASSUME NEW U \in SUBSET T, U # {}, \A i \in U : i <= m + 1
               PROVE  \E i \in U : \A j \in U : f[i] >= f[j]
    BY <1>2
  <2> DEFINE V == U \ {m + 1}
  <2>1. \A i \in V : i <= m
    OBVIOUS
  <2>2. CASE V = {}
    <3>1. PICK i \in U : TRUE
      OBVIOUS
    <3>2. \A j \in U : j = i
      BY <2>2
    <3>3. f[i] >= f[i]
      BY <1>0
    <3> QED
      BY <3>2, <3>3
  <2>3. CASE V # {}
    <3>1. PICK i \in V : \A j \in V : f[i] >= f[j]
      BY <1>2, <2>1, <2>3
    <3>2. CASE m + 1 \in U /\ f[m + 1] > f[i]
      <4>1. \A j \in U : f[j] \in Int /\ f[i] \in Int
        OBVIOUS
      <4>2. \A j \in U : f[m + 1] >= f[j]
        BY <3>1, <3>2, <4>1
      <4> QED
        BY <3>2, <4>2
    <3>3. CASE ~ (m + 1 \in U /\ f[m + 1] > f[i])
      <4>1. \A j \in U : f[j] \in Int /\ f[i] \in Int
        OBVIOUS
      <4>2. \A j \in U : f[i] >= f[j]
        BY <3>1, <3>3, <4>1
      <4> QED
        BY <3>1, <4>2
    <3> QED
      BY <3>2, <3>3
  <2> QED
    BY <2>2, <2>3
<1>3. n \in S
  <2> HIDE DEF S
  <2>1. Nat \subseteq S
    BY <1>1, <1>2, NatSetInduction
  <2> QED
    BY <2>1
<1> QED
  BY <1>3

(* The first position of a greatest value, as ArgMax chooses it.            *)
LEMMA BoxTypes ==
  ASSUME NEW b \in BoxSet, NEW c \in BoxSet
  PROVE  /\ RT!BoxUnion(b, c) \in BoxSet
         /\ RT!Area(b) \in Int
         /\ RT!Enlargement(b, c) \in Int
<1>1. \A x, y \in Int : RT!Least(x, y) \in Int /\ RT!Greatest(x, y) \in Int
  BY DEF RT!Least, RT!Greatest
<1>2. /\ b.x0 \in Int /\ b.x1 \in Int /\ b.y0 \in Int /\ b.y1 \in Int
      /\ c.x0 \in Int /\ c.x1 \in Int /\ c.y0 \in Int /\ c.y1 \in Int
  BY DEF BoxSet
<1>3. RT!BoxUnion(b, c) \in BoxSet
  BY <1>1, <1>2 DEF RT!BoxUnion, RT!Box, BoxSet
<1>4. \A a \in BoxSet : RT!Area(a) \in Int
  <2> TAKE a \in BoxSet
  <2>1. a.x1 - a.x0 \in Int /\ a.y1 - a.y0 \in Int
    BY DEF BoxSet
  <2>2. \A x, y \in Int : x * y \in Int
    OBVIOUS
  <2> QED
    BY <2>1, <2>2 DEF RT!Area
<1>5. RT!Enlargement(b, c) \in Int
  <2>1. RT!Area(RT!BoxUnion(b, c)) \in Int /\ RT!Area(b) \in Int
    BY <1>3, <1>4
  <2> QED
    BY <2>1 DEF RT!Enlargement
<1> QED
  BY <1>3, <1>4, <1>5

(* The box of a page, one entry at a time.                                  *)
MbrStepsWith(es, u) ==
  /\ \A n \in 0 .. Len(es) : u[n] \in BoxSet
  /\ u[0] = es[1].mbr /\ RT!Mbr(es) = u[Len(es)]
  /\ \A n \in 1 .. Len(es) : u[n] = RT!BoxUnion(u[n - 1], es[n].mbr)

MbrSteps(es) == \E u : MbrStepsWith(es, u)

LEMMA MbrStepped ==
  ASSUME NEW es \in Seq(EntrySet), es # <<>>
  PROVE  MbrSteps(es)
<1> DEFINE N == Len(es)
           D == BoxSet
           box(n) == es[n].mbr
           step == [n \in 1 .. N |-> [b \in D |-> RT!BoxUnion(b, box(n))]]
           upTo[n \in 0 .. N] == IF n = 0 THEN box(1) ELSE RT!BoxUnion(upTo[n - 1], box(n))
<1>1. N \in Nat /\ N # 0 /\ \A n \in 1 .. N : box(n) \in D
  <2>1. \A n \in 1 .. N : es[n] \in EntrySet
    OBVIOUS
  <2>2. \A e \in EntrySet : e.mbr \in D
    BY DEF EntrySet
  <2>3. N \in Nat /\ N # 0
    BY EmptySeq
  <2> QED
    BY <2>1, <2>2, <2>3
<1>2. RT!Mbr(es) = upTo[N]
  BY Zenon DEF RT!Mbr
<1> HIDE DEF N, box
<1>3. \A n \in 1 .. N, b \in D : RT!BoxUnion(b, box(n)) \in D
  BY <1>1, BoxTypes
<1>4. box(1) \in D
  BY <1>1
<1> HIDE DEF D
<1>5. PICK f : Iterates(f, box(1), step, N, D)
  <2>1. IsTable(step, N, D)
    BY <1>1, <1>3 DEF IsTable
  <2> HIDE DEF step
  <2> QED
    BY <1>4, <2>1, IterationExists
<1>6. /\ f \in [0 .. N -> D] /\ f[0] = box(1)
      /\ \A n \in 1 .. N : n - 1 \in 0 .. N /\ f[n - 1] \in D /\ f[n] = RT!BoxUnion(f[n - 1], box(n))
  <2>1. f \in [0 .. N -> D] /\ f[0] = box(1) /\ \A n \in 1 .. N : f[n] = step[n][f[n - 1]]
    BY <1>5 DEF Iterates
  <2>2. \A n \in 1 .. N : n - 1 \in 0 .. N
    BY <1>1
  <2> QED
    BY <2>1, <2>2
<1> HIDE DEF step
<1>7. \A n \in 0 .. N : n # 0 => n \in 1 .. N
  BY <1>1
<1>8. f = [n \in 0 .. N |-> IF n = 0 THEN box(1) ELSE RT!BoxUnion(f[n - 1], box(n))]
  <2>1. \A n \in 0 .. N : f[n] = IF n = 0 THEN box(1) ELSE RT!BoxUnion(f[n - 1], box(n))
    BY <1>6, <1>7, Zenon
  <2>2. f = [n \in 0 .. N |-> f[n]]
    BY <1>6
  <2> QED
    BY <2>1, <2>2, Zenon
<1>9. upTo = [n \in 0 .. N |-> IF n = 0 THEN box(1) ELSE RT!BoxUnion(upTo[n - 1], box(n))]
  BY <1>8, Zenon
<1> HIDE DEF upTo
<1>10. \A n \in 0 .. N : upTo[n] = IF n = 0 THEN box(1) ELSE RT!BoxUnion(upTo[n - 1], box(n))
  BY <1>9, Zenon
<1> DEFINE S == {n \in 0 .. N : upTo[n] \in D}
<1>11. 0 \in S
  BY <1>1, <1>4, <1>10
<1>12. ASSUME NEW n \in 1 .. N, n - 1 \in S PROVE n \in S
  <2>1. n \in 0 .. N /\ n # 0
    BY <1>1
  <2>2. upTo[n] = RT!BoxUnion(upTo[n - 1], box(n))
    BY <1>10, <2>1
  <2> QED
    BY <1>3, <1>12, <2>1, <2>2
<1>13. \A n \in 0 .. N : upTo[n] \in D
  <2> HIDE DEF S
  <2>1. 0 .. N \subseteq S
    BY <1>1, <1>11, <1>12, BoundedInduction
  <2> QED
    BY <2>1 DEF S
<1>14. /\ \A n \in 0 .. N : upTo[n] \in D
       /\ upTo[0] = box(1) /\ RT!Mbr(es) = upTo[N]
       /\ \A n \in 1 .. N : upTo[n] = RT!BoxUnion(upTo[n - 1], box(n))
  <2>1. \A n \in 1 .. N : n \in 0 .. N /\ n # 0
    BY <1>1
  <2>2. 0 \in 0 .. N
    BY <1>1
  <2> QED
    BY <1>2, <1>10, <1>13, <2>1, <2>2
<1> QED
  BY <1>14 DEF MbrSteps, MbrStepsWith, N, D, box


LEMMA MbrType ==
  ASSUME NEW es \in Seq(EntrySet), es # <<>>
  PROVE  RT!Mbr(es) \in BoxSet
<1>1. PICK u : MbrStepsWith(es, u)
  BY MbrStepped DEF MbrSteps
<1>2. Len(es) \in 0 .. Len(es)
  OBVIOUS
<1> QED
  BY <1>1, <1>2 DEF MbrStepsWith

-----------------------------------------------------------------------------
(* A split.                                                                 *)

LEMMA ArgMaxIn ==
  ASSUME NEW n \in Nat, NEW f, NEW T \in SUBSET (1 .. n), T # {}, \A i \in T : f[i] \in Int
  PROVE  RT!ArgMax(f, T) \in T
<1> DEFINE g == [i \in 1 .. n |-> IF i \in T THEN f[i] ELSE 0]
           top == {i \in T : \A j \in T : f[i] >= f[j]}
<1>1. g \in [1 .. n -> Int]
  OBVIOUS
<1>2. \A i \in T : g[i] = f[i]
  OBVIOUS
<1> HIDE DEF g
<1>3. \E i \in T : \A j \in T : g[i] >= g[j]
  BY <1>1, GreatestAt
<1>4. \E i \in T : \A j \in T : f[i] >= f[j]
  BY <1>2, <1>3
<1>5. top # {}
  BY <1>4
<1>6. top \subseteq Nat
  <2>1. \A i \in T : i \in Nat
    OBVIOUS
  <2>2. top \subseteq T
    OBVIOUS
  <2> HIDE DEF top
  <2> QED
    BY <2>1, <2>2
<1>7. \E i \in top : \A j \in top : i <= j
  <2> HIDE DEF top
  <2> QED
    BY <1>5, <1>6, LeastNat
<1>8. RT!ArgMax(f, T) \in top
  BY <1>7, Zenon DEF RT!ArgMax
<1> QED
  BY <1>8

LEMMA AxisIn ==
  ASSUME NEW n \in Nat, n # 0, NEW low \in [1 .. n -> Int], NEW high \in [1 .. n -> Int]
  PROVE  /\ RT!Axis(low, high).pair[1] \in 1 .. n
         /\ RT!Axis(low, high).pair[2] \in 1 .. n
<1> DEFINE at == 1 .. n
           neg == [i \in at |-> -high[i]]
<1>1. RT!Axis(low, high).pair = <<RT!ArgMax(low, DOMAIN low), RT!ArgMax([i \in DOMAIN low |-> -high[i]], DOMAIN low)>>
  BY DEF RT!Axis
<1>2. DOMAIN low = at
  OBVIOUS
<1>3. at \in SUBSET (1 .. n) /\ at # {}
  OBVIOUS
<1>4. \A i \in at : low[i] \in Int /\ neg[i] \in Int
  OBVIOUS
<1> HIDE DEF at, neg
<1>5. RT!ArgMax(low, at) \in at
  BY <1>3, <1>4, ArgMaxIn
<1>6. RT!ArgMax(neg, at) \in at
  BY <1>3, <1>4, ArgMaxIn
<1>7. RT!Axis(low, high).pair = <<RT!ArgMax(low, at), RT!ArgMax(neg, at)>>
  BY <1>1, <1>2, Zenon DEF neg
<1> QED
  BY <1>5, <1>6, <1>7 DEF at

LEMMA EntryTypes ==
  ASSUME NEW e \in EntrySet
  PROVE  /\ e.mbr \in BoxSet /\ e.ref \in DOMAIN Point \union Nat
         /\ e.mbr.x0 \in Int /\ e.mbr.x1 \in Int /\ e.mbr.y0 \in Int /\ e.mbr.y1 \in Int
BY DEF EntrySet, BoxSet

LEMMA PairsApart ==
  ASSUME NEW n \in Nat, n >= 2
  PROVE  \E m \in 1 .. n * n : 1 + (m - 1) \div n < 1 + ((m - 1) % n)
<1>1. n * n \in Nat /\ n * n >= 2
  <2>1. n * n >= n
    OBVIOUS
  <2> QED
    BY <2>1
<1>2. 2 \in 1 .. n * n
  BY <1>1
<1>3. 1 \div n = 0 /\ 1 % n = 1
  OBVIOUS
<1>4. (2 - 1) \div n = 0 /\ (2 - 1) % n = 1
  BY <1>3
<1> QED
  BY <1>2, <1>4

LEMMA FarthestIn ==
  ASSUME NEW es \in Seq(EntrySet), Len(es) >= 2
  PROVE  /\ RT!Farthest(es)[1] \in DOMAIN es /\ RT!Farthest(es)[2] \in DOMAIN es
         /\ RT!Farthest(es)[1] # RT!Farthest(es)[2]
<1> DEFINE n == Len(es)
           M == n * n
           pairs == [m \in 1 .. Len(es) * Len(es) |-> <<1 + (m - 1) \div Len(es), 1 + ((m - 1) % Len(es))>>]
           dist(i, j) ==
             LET dx == es[i].mbr.x0 + es[i].mbr.x1 - es[j].mbr.x0 - es[j].mbr.x1
                 dy == es[i].mbr.y0 + es[i].mbr.y1 - es[j].mbr.y0 - es[j].mbr.y1
             IN dx * dx + dy * dy
           f == [m \in DOMAIN pairs |-> dist(pairs[m][1], pairs[m][2])]
           apart == {m \in DOMAIN pairs : pairs[m][1] < pairs[m][2]}
<1>1. RT!Farthest(es) = pairs[RT!ArgMax(f, apart)]
  BY Zenon DEF RT!Farthest
<1>2. n \in Nat /\ n >= 2 /\ DOMAIN es = 1 .. n /\ M \in Nat
  OBVIOUS
<1>3. DOMAIN pairs = 1 .. M
  OBVIOUS
<1>4. \A m \in 1 .. M : /\ pairs[m][1] = 1 + (m - 1) \div n
                        /\ pairs[m][2] = 1 + ((m - 1) % n)
  OBVIOUS
<1>5. apart # {}
  <2>1. \E m \in 1 .. M : 1 + (m - 1) \div n < 1 + ((m - 1) % n)
    <3> HIDE DEF n
    <3> QED
      BY <1>2, PairsApart
  <2> HIDE DEF pairs, n
  <2> QED
    BY <1>3, <1>4, <2>1
<1>6. \A m \in apart : /\ m \in 1 .. M /\ pairs[m][1] \in 1 .. n /\ pairs[m][2] \in 1 .. n
                       /\ pairs[m][1] < pairs[m][2]
  <2> TAKE m \in apart
  <2>1. m \in 1 .. M /\ pairs[m][1] < pairs[m][2]
    BY <1>3
  <2>2. pairs[m][2] \in 1 .. n /\ pairs[m][1] \in Int /\ pairs[m][1] >= 1
    <3>1. m - 1 \in Nat
      BY <2>1
    <3>2. (m - 1) % n \in 0 .. n - 1 /\ (m - 1) \div n \in Nat
      <4> HIDE DEF n, pairs, apart
      <4> QED
        BY <1>2, <3>1
    <3> HIDE DEF n, pairs, apart
    <3> QED
      BY <1>2, <1>4, <2>1, <3>2
  <2> HIDE DEF n, pairs, apart
  <2> QED
    BY <1>2, <2>1, <2>2
<1>7. \A i, j \in 1 .. n : dist(i, j) \in Int
  <2> TAKE i, j \in 1 .. n
  <2>1. es[i] \in EntrySet /\ es[j] \in EntrySet
    BY <1>2
  <2> DEFINE dx == es[i].mbr.x0 + es[i].mbr.x1 - es[j].mbr.x0 - es[j].mbr.x1
             dy == es[i].mbr.y0 + es[i].mbr.y1 - es[j].mbr.y0 - es[j].mbr.y1
  <2>2. dx \in Int /\ dy \in Int
    BY <2>1, EntryTypes, SMTT(60)
  <2>3. \A x, y \in Int : x * x + y * y \in Int
    OBVIOUS
  <2>4. dist(i, j) = dx * dx + dy * dy
    OBVIOUS
  <2> HIDE DEF dx, dy, dist
  <2> QED
    BY <2>2, <2>3, <2>4
<1>8. \A m \in apart : f[m] \in Int
  <2> TAKE m \in apart
  <2>1. f[m] = dist(pairs[m][1], pairs[m][2])
    <3> HIDE DEF dist, pairs
    <3> QED
      BY <1>3
  <2> HIDE DEF dist, f, pairs, apart, n
  <2> QED
    BY <1>6, <1>7, <2>1
<1>9. apart \in SUBSET (1 .. M)
  BY <1>6
<1> HIDE DEF apart, f, dist, M, pairs, n
<1>10. RT!ArgMax(f, apart) \in apart
  BY <1>2, <1>5, <1>8, <1>9, ArgMaxIn
<1> QED
  BY <1>1, <1>2, <1>6, <1>10

LEMMA SeedsAre ==
  ASSUME NEW es \in Seq(EntrySet), Len(es) >= 2
  PROVE  /\ RT!Seeds(es)[1] \in DOMAIN es /\ RT!Seeds(es)[2] \in DOMAIN es
         /\ RT!Seeds(es)[1] # RT!Seeds(es)[2]
<1> DEFINE n == Len(es)
           x0 == [i \in DOMAIN es |-> es[i].mbr.x0]
           x1 == [i \in DOMAIN es |-> es[i].mbr.x1]
           y0 == [i \in DOMAIN es |-> es[i].mbr.y0]
           y1 == [i \in DOMAIN es |-> es[i].mbr.y1]
           px == RT!Axis(x0, x1).pair
           py == RT!Axis(y0, y1).pair
<1>1. \/ RT!Seeds(es) = px /\ px[1] # px[2]
      \/ RT!Seeds(es) = py /\ py[1] # py[2]
      \/ RT!Seeds(es) = RT!Farthest(es)
  BY Zenon DEF RT!Seeds
<1>2. n \in Nat /\ n # 0 /\ DOMAIN es = 1 .. n
  OBVIOUS
<1>3. /\ x0 \in [1 .. n -> Int] /\ x1 \in [1 .. n -> Int]
      /\ y0 \in [1 .. n -> Int] /\ y1 \in [1 .. n -> Int]
  <2>1. \A i \in 1 .. n : es[i] \in EntrySet
    BY <1>2
  <2> QED
    BY <1>2, <2>1, EntryTypes
<1> HIDE DEF n, x0, x1, y0, y1
<1>4. px[1] \in 1 .. n /\ px[2] \in 1 .. n /\ py[1] \in 1 .. n /\ py[2] \in 1 .. n
  BY <1>2, <1>3, AxisIn
<1> HIDE DEF px, py
<1> QED
  BY <1>1, <1>2, <1>4, FarthestIn

(* The entries of a list, what they refer to, and that they refer to        *)
(* different things.                                                        *)
Items(s) == {s[i] : i \in DOMAIN s}
Names(s) == {s[i].ref : i \in DOMAIN s}
Single(s) == \A i, j \in DOMAIN s : s[i].ref = s[j].ref => i = j
EntryList(s) == s \in Seq(EntrySet) /\ Single(s)

LEMMA JoinedIs ==
  ASSUME NEW s, NEW t, EntryList(s), EntryList(t), Names(s) \intersect Names(t) = {}
  PROVE  /\ EntryList(s \o t)
         /\ Items(s \o t) = Items(s) \union Items(t)
         /\ Names(s \o t) = Names(s) \union Names(t)
         /\ Len(s \o t) = Len(s) + Len(t)
<1> DEFINE u == s \o t  m == Len(s)  n == Len(t)
<1>1. s \in Seq(EntrySet) /\ t \in Seq(EntrySet)
  BY DEF EntryList
<1>2. /\ m \in Nat /\ n \in Nat /\ DOMAIN s = 1 .. m /\ DOMAIN t = 1 .. n
      /\ u \in Seq(EntrySet) /\ Len(u) = m + n /\ DOMAIN u = 1 .. m + n
      /\ \A i \in 1 .. m : u[i] = s[i]
      /\ \A i \in m + 1 .. m + n : u[i] = t[i - m]
  BY <1>1
<1> HIDE DEF u, m, n
<1>3. \A i \in 1 .. m + n : \/ i \in 1 .. m /\ u[i] = s[i]
                            \/ i - m \in 1 .. n /\ u[i] = t[i - m]
  BY <1>2
<1>4. /\ \A i \in 1 .. m : i \in 1 .. m + n /\ u[i] = s[i]
      /\ \A i \in 1 .. n : i + m \in 1 .. m + n /\ u[i + m] = t[i]
  BY <1>2
<1>5. Items(u) = Items(s) \union Items(t)
  BY <1>2, <1>3, <1>4 DEF Items
<1>6. Names(u) = Names(s) \union Names(t)
  BY <1>2, <1>3, <1>4 DEF Names
<1>7. Single(u)
  <2> SUFFICES ASSUME NEW i \in 1 .. m + n, NEW j \in 1 .. m + n, u[i].ref = u[j].ref PROVE i = j
    BY <1>2 DEF Single
  <2>1. /\ \A a \in 1 .. m : s[a].ref \in Names(s)
        /\ \A a \in 1 .. n : t[a].ref \in Names(t)
    BY <1>2 DEF Names
  <2>2. CASE i \in 1 .. m /\ u[i] = s[i] /\ j \in 1 .. m /\ u[j] = s[j]
    BY <1>2, <2>2 DEF EntryList, Single
  <2>3. CASE i - m \in 1 .. n /\ u[i] = t[i - m] /\ j - m \in 1 .. n /\ u[j] = t[j - m]
    <3>1. i - m = j - m
      BY <1>2, <2>3 DEF EntryList, Single
    <3> QED
      BY <1>2, <3>1
  <2> QED
    BY <1>3, <2>1, <2>2, <2>3
<1> QED
  BY <1>2, <1>5, <1>6, <1>7 DEF EntryList, u, m, n

LEMMA RemovedIs ==
  ASSUME NEW s, EntryList(s), NEW i \in DOMAIN s
  PROVE  /\ EntryList(RT!RemoveAt(s, i))
         /\ Items(RT!RemoveAt(s, i)) = Items(s) \ {s[i]}
         /\ Names(RT!RemoveAt(s, i)) = Names(s) \ {s[i].ref}
         /\ Len(RT!RemoveAt(s, i)) = Len(s) - 1
         /\ \A j \in DOMAIN s : j < i => j \in DOMAIN RT!RemoveAt(s, i) /\ RT!RemoveAt(s, i)[j] = s[j]
<1> DEFINE t == RT!RemoveAt(s, i)  n == Len(s)
<1>1. s \in Seq(EntrySet)
  BY DEF EntryList
<1>2. n \in Nat /\ DOMAIN s = 1 .. n /\ i \in 1 .. n
  BY <1>1
<1>3. t = SubSeq(s, 1, i - 1) \o SubSeq(s, i + 1, n)
  BY DEF RT!RemoveAt
<1>4. /\ SubSeq(s, 1, i - 1) \in Seq(EntrySet) /\ Len(SubSeq(s, 1, i - 1)) = i - 1
      /\ \A j \in 1 .. i - 1 : SubSeq(s, 1, i - 1)[j] = s[j]
      /\ SubSeq(s, i + 1, n) \in Seq(EntrySet) /\ Len(SubSeq(s, i + 1, n)) = n - i
      /\ \A j \in 1 .. n - i : SubSeq(s, i + 1, n)[j] = s[j + i]
  BY <1>1, <1>2, SMTT(30)
<1>5. /\ t \in Seq(EntrySet) /\ Len(t) = n - 1 /\ DOMAIN t = 1 .. n - 1
      /\ \A j \in 1 .. i - 1 : t[j] = s[j]
      /\ \A j \in i .. n - 1 : t[j] = s[j + 1]
  <2> DEFINE a == SubSeq(s, 1, i - 1)  b == SubSeq(s, i + 1, n)
  <2>1. /\ t = a \o b /\ a \in Seq(EntrySet) /\ b \in Seq(EntrySet) /\ Len(a) = i - 1 /\ Len(b) = n - i
        /\ \A j \in 1 .. i - 1 : a[j] = s[j]
        /\ \A j \in 1 .. n - i : b[j] = s[j + i]
    BY <1>3, <1>4
  <2> HIDE DEF a, b, t
  <2>2. t \in Seq(EntrySet) /\ Len(t) = n - 1
    <3>1. t \in Seq(EntrySet) /\ Len(t) = Len(a) + Len(b)
      BY <2>1, ConcatProperties
    <3>2. (i - 1) + (n - i) = n - 1
      BY <1>2
    <3> QED
      BY <2>1, <3>1, <3>2
  <2>3. \A j \in 1 .. i - 1 : t[j] = a[j]
    BY <1>2, <2>1
  <2>4. \A j \in i .. n - 1 : t[j] = b[j - (i - 1)] /\ j - (i - 1) \in 1 .. n - i /\ (j - (i - 1)) + i = j + 1
    BY <1>2, <2>1
  <2>5. \A j \in i .. n - 1 : t[j] = s[j + 1]
    BY <2>1, <2>4
  <2> QED
    BY <2>1, <2>2, <2>3, <2>5
<1> HIDE DEF t, n
<1>6. \A j \in DOMAIN t : \/ j \in DOMAIN s /\ j # i /\ t[j] = s[j] /\ j < i
                          \/ j + 1 \in DOMAIN s /\ j + 1 # i /\ t[j] = s[j + 1] /\ j >= i
  BY <1>2, <1>5
<1>7. \A k \in DOMAIN s \ {i} : \E j \in DOMAIN t : t[j] = s[k]
  <2> TAKE k \in DOMAIN s \ {i}
  <2>1. CASE k < i
    <3>1. k \in DOMAIN t /\ t[k] = s[k]
      BY <1>2, <1>5, <2>1
    <3> QED
      BY <3>1
  <2>2. CASE k > i
    <3>1. k - 1 \in DOMAIN t /\ t[k - 1] = s[(k - 1) + 1] /\ (k - 1) + 1 = k
      BY <1>2, <1>5, <2>2
    <3> QED
      BY <3>1
  <2> QED
    BY <1>2, <2>1, <2>2
<1>8. \A k \in DOMAIN s \ {i} : s[k].ref # s[i].ref /\ s[k] # s[i]
  BY DEF EntryList, Single
<1>9. Items(t) = Items(s) \ {s[i]}
  BY <1>6, <1>7, <1>8 DEF Items
<1>10. Names(t) = Names(s) \ {s[i].ref}
  BY <1>6, <1>7, <1>8 DEF Names
<1>11. Single(t)
  <2> SUFFICES ASSUME NEW j \in DOMAIN t, NEW k \in DOMAIN t, t[j].ref = t[k].ref PROVE j = k
    BY DEF Single
  <2>1. \A a, b \in DOMAIN s : s[a].ref = s[b].ref => a = b
    BY DEF EntryList, Single
  <2>2. j \in Int /\ k \in Int /\ i \in Int
    BY <1>2, <1>5
  <2> QED
    BY <1>6, <2>1, <2>2
<1>12. \A j \in DOMAIN s : j < i => j \in DOMAIN t /\ t[j] = s[j]
  BY <1>2, <1>5
<1> QED
  BY <1>5, <1>9, <1>10, <1>11, <1>12 DEF EntryList, t, n

(* Two halves and what is still to be shared between them: n entries, I.    *)
Parted(l, r, t, I, n) ==
  /\ EntryList(l) /\ EntryList(r) /\ EntryList(t)
  /\ l # <<>> /\ r # <<>>
  /\ Names(l) \intersect Names(r) = {}
  /\ Names(l) \intersect Names(t) = {}
  /\ Names(r) \intersect Names(t) = {}
  /\ I = Items(l) \union Items(r) \union Items(t)
  /\ n = Len(l) + Len(r) + Len(t)

Shared(h, I, n) == h = RT!Halves(h.left, h.right, h.rest) /\ Parted(h.left, h.right, h.rest, I, n)

LEMMA ListTypes ==
  ASSUME NEW s, EntryList(s)
  PROVE  /\ s \in Seq(EntrySet) /\ Len(s) \in Nat /\ DOMAIN s = 1 .. Len(s)
         /\ (s = <<>> <=> Len(s) = 0)
         /\ \A i \in DOMAIN s : s[i] \in EntrySet /\ s[i] \in Items(s) /\ s[i].ref \in Names(s)
<1>1. s \in Seq(EntrySet)
  BY DEF EntryList
<1>2. Len(s) \in Nat /\ DOMAIN s = 1 .. Len(s) /\ \A i \in DOMAIN s : s[i] \in EntrySet
  BY <1>1
<1>3. s = <<>> <=> Len(s) = 0
  BY <1>1, EmptySeq
<1> QED
  BY <1>1, <1>2, <1>3 DEF Items, Names

LEMMA SingletonIs ==
  ASSUME NEW e \in EntrySet
  PROVE  EntryList(<<e>>) /\ Items(<<e>>) = {e} /\ Names(<<e>>) = {e.ref} /\ Len(<<e>>) = 1
<1>1. <<e>> \in Seq(EntrySet) /\ Len(<<e>>) = 1 /\ DOMAIN <<e>> = {1} /\ <<e>>[1] = e
  OBVIOUS
<1> QED
  BY <1>1 DEF EntryList, Single, Items, Names

LEMMA AppendedIsJoined ==
  ASSUME NEW s \in Seq(EntrySet), NEW e
  PROVE  Append(s, e) = s \o <<e>>
OBVIOUS

(* The position taken next.                                                 *)
LEMMA DistributedIs ==
  ASSUME NEW h, NEW I, NEW n, Shared(h, I, n), h.rest # <<>>
  PROVE  \/ RT!Distributed(h) = RT!Halves(h.left \o h.rest, h.right, <<>>)
         \/ RT!Distributed(h) = RT!Halves(h.left, h.right \o h.rest, <<>>)
         \/ \E i \in DOMAIN h.rest :
              \/ RT!Distributed(h) = RT!Halves(Append(h.left, h.rest[i]), h.right, RT!RemoveAt(h.rest, i))
              \/ RT!Distributed(h) = RT!Halves(h.left, Append(h.right, h.rest[i]), RT!RemoveAt(h.rest, i))
<1> DEFINE lead == [j \in DOMAIN h.rest |->
                      RT!Enlargement(RT!Mbr(h.left), h.rest[j].mbr) - RT!Enlargement(RT!Mbr(h.right), h.rest[j].mbr)]
           f == [j \in DOMAIN lead |-> RT!Greatest(lead[j], -lead[j])]
           i == RT!ArgMax(f, DOMAIN lead)
           m == Len(h.rest)
<1>1. /\ h.left \in Seq(EntrySet) /\ h.left # <<>> /\ h.right \in Seq(EntrySet) /\ h.right # <<>>
      /\ m \in Nat /\ m # 0 /\ DOMAIN h.rest = 1 .. m /\ \A j \in 1 .. m : h.rest[j] \in EntrySet
  BY ListTypes DEF Shared, Parted
<1>2. RT!Mbr(h.left) \in BoxSet /\ RT!Mbr(h.right) \in BoxSet
  BY <1>1, MbrType
<1>3. \A j \in 1 .. m : lead[j] \in Int
  <2> TAKE j \in 1 .. m
  <2>1. h.rest[j].mbr \in BoxSet
    BY <1>1, EntryTypes
  <2>2. /\ RT!Enlargement(RT!Mbr(h.left), h.rest[j].mbr) \in Int
        /\ RT!Enlargement(RT!Mbr(h.right), h.rest[j].mbr) \in Int
    BY <1>2, <2>1, BoxTypes
  <2>3. lead[j] = RT!Enlargement(RT!Mbr(h.left), h.rest[j].mbr) - RT!Enlargement(RT!Mbr(h.right), h.rest[j].mbr)
    BY <1>1
  <2> QED
    BY <2>2, <2>3
<1>4. DOMAIN lead = 1 .. m
  BY <1>1
<1> HIDE DEF lead, m
<1>5. \A j \in DOMAIN lead : f[j] \in Int
  BY <1>3, <1>4 DEF RT!Greatest
<1>6. i \in DOMAIN lead
  <2>1. m \in Nat /\ 1 \in 1 .. m
    BY <1>1 DEF m
  <2>2. DOMAIN lead \in SUBSET (1 .. m) /\ DOMAIN lead # {}
    BY <1>4, <2>1
  <2> HIDE DEF f
  <2> QED
    BY <1>5, <2>1, <2>2, ArgMaxIn
<1>7. i \in DOMAIN h.rest
  BY <1>1, <1>4, <1>6
<1>8. \/ RT!Distributed(h) = RT!Halves(h.left \o h.rest, h.right, <<>>)
      \/ RT!Distributed(h) = RT!Halves(h.left, h.right \o h.rest, <<>>)
      \/ RT!Distributed(h) = RT!Halves(Append(h.left, h.rest[i]), h.right, RT!RemoveAt(h.rest, i))
      \/ RT!Distributed(h) = RT!Halves(h.left, Append(h.right, h.rest[i]), RT!RemoveAt(h.rest, i))
  BY Zenon DEF RT!Distributed, lead
<1> HIDE DEF i, f
<1> QED
  BY <1>7, <1>8

LEMMA NothingLeft ==
  /\ EntryList(<<>>) /\ Items(<<>>) = {} /\ Names(<<>>) = {} /\ Len(<<>>) = 0
BY DEF EntryList, Items, Names, Single

LEMMA HalvesIs ==
  ASSUME NEW l, NEW r, NEW t
  PROVE  RT!Halves(l, r, t).left = l /\ RT!Halves(l, r, t).right = r /\ RT!Halves(l, r, t).rest = t
BY DEF RT!Halves

(* What joins a half was not in it.                                         *)
LEMMA MovedLeft ==
  ASSUME NEW l, NEW r, NEW t, NEW I, NEW n, Parted(l, r, t, I, n),
         NEW s, NEW u, EntryList(s), EntryList(u), Names(s) \intersect Names(u) = {},
         Items(t) = Items(s) \union Items(u), Names(t) = Names(s) \union Names(u), Len(t) = Len(s) + Len(u)
  PROVE  Parted(l \o s, r, u, I, n)
<1> DEFINE k == l \o s
<1>1. /\ EntryList(l) /\ EntryList(r) /\ EntryList(t) /\ l # <<>> /\ r # <<>>
      /\ Names(l) \intersect Names(r) = {} /\ Names(l) \intersect Names(t) = {} /\ Names(r) \intersect Names(t) = {}
      /\ I = Items(l) \union Items(r) \union Items(t) /\ n = Len(l) + Len(r) + Len(t)
  BY DEF Parted
<1>2. Names(l) \intersect Names(s) = {}
  BY <1>1
<1>3. /\ EntryList(k) /\ Items(k) = Items(l) \union Items(s)
      /\ Names(k) = Names(l) \union Names(s) /\ Len(k) = Len(l) + Len(s)
  BY <1>1, <1>2, JoinedIs
<1>4. Len(l) \in Nat /\ Len(s) \in Nat /\ Len(u) \in Nat /\ Len(r) \in Nat /\ Len(l) # 0
  BY <1>1, ListTypes
<1> HIDE DEF k
<1>5. Len(k) # 0
  BY <1>3, <1>4
<1>6. k # <<>>
  BY <1>3, <1>5, ListTypes
<1>7. n = Len(k) + Len(r) + Len(u)
  BY <1>1, <1>3, <1>4
<1>8. I = Items(k) \union Items(r) \union Items(u)
  BY <1>1, <1>3
<1>9. /\ Names(k) \intersect Names(r) = {} /\ Names(k) \intersect Names(u) = {}
      /\ Names(r) \intersect Names(u) = {}
  BY <1>1, <1>3
<1> QED
  BY <1>1, <1>3, <1>6, <1>7, <1>8, <1>9 DEF Parted, k

LEMMA OtherHalf ==
  ASSUME NEW l, NEW r, NEW t, NEW I, NEW n, Parted(l, r, t, I, n)
  PROVE  Parted(r, l, t, I, n)
<1>1. Len(l) + Len(r) = Len(r) + Len(l)
  BY ListTypes DEF Parted
<1>2. /\ Names(r) \intersect Names(l) = {}
      /\ Items(r) \union Items(l) \union Items(t) = Items(l) \union Items(r) \union Items(t)
  BY DEF Parted
<1> QED
  BY <1>1, <1>2 DEF Parted

LEMMA MovedRight ==
  ASSUME NEW l, NEW r, NEW t, NEW I, NEW n, Parted(l, r, t, I, n),
         NEW s, NEW u, EntryList(s), EntryList(u), Names(s) \intersect Names(u) = {},
         Items(t) = Items(s) \union Items(u), Names(t) = Names(s) \union Names(u), Len(t) = Len(s) + Len(u)
  PROVE  Parted(l, r \o s, u, I, n)
<1>1. Parted(r, l, t, I, n)
  BY OtherHalf
<1>2. Parted(r \o s, l, u, I, n)
  BY <1>1, MovedLeft
<1> QED
  BY <1>2, OtherHalf

LEMMA OneTaken ==
  ASSUME NEW t, EntryList(t), NEW i \in DOMAIN t
  PROVE  LET s == <<t[i]>>  u == RT!RemoveAt(t, i)
         IN /\ EntryList(s) /\ EntryList(u) /\ Names(s) \intersect Names(u) = {}
            /\ Items(t) = Items(s) \union Items(u) /\ Names(t) = Names(s) \union Names(u)
            /\ Len(t) = Len(s) + Len(u) /\ Len(u) = Len(t) - 1
<1> DEFINE s == <<t[i]>>  u == RT!RemoveAt(t, i)
<1>1. t[i] \in EntrySet /\ t[i] \in Items(t) /\ t[i].ref \in Names(t) /\ Len(t) \in Nat
  BY ListTypes
<1>2. EntryList(s) /\ Items(s) = {t[i]} /\ Names(s) = {t[i].ref} /\ Len(s) = 1
  BY <1>1, SingletonIs
<1>3. EntryList(u) /\ Items(u) = Items(t) \ {t[i]} /\ Names(u) = Names(t) \ {t[i].ref} /\ Len(u) = Len(t) - 1
  BY RemovedIs
<1> HIDE DEF s, u
<1> QED
  BY <1>1, <1>2, <1>3 DEF s, u

LEMMA SharedIs ==
  ASSUME NEW l, NEW r, NEW t, NEW I, NEW n, Parted(l, r, t, I, n)
  PROVE  Shared(RT!Halves(l, r, t), I, n)
<1> DEFINE h == RT!Halves(l, r, t)
<1>1. h.left = l /\ h.right = r /\ h.rest = t
  BY HalvesIs
<1>2. h = RT!Halves(l, r, t)
  OBVIOUS
<1> HIDE DEF h
<1>3. h = RT!Halves(h.left, h.right, h.rest)
  BY <1>1, <1>2
<1>4. Shared(h, I, n)
  BY <1>1, <1>3 DEF Shared
<1> QED
  BY <1>4 DEF h

LEMMA DistributedKeeps ==
  ASSUME NEW h, NEW I, NEW n, Shared(h, I, n)
  PROVE  /\ Shared(RT!Distributed(h), I, n)
         /\ h.rest # <<>> => \/ RT!Distributed(h).rest = <<>>
                             \/ Len(RT!Distributed(h).rest) = Len(h.rest) - 1
<1> DEFINE d == RT!Distributed(h)
           l == h.left
           r == h.right
           t == h.rest
<1>1. Parted(l, r, t, I, n) /\ EntryList(l) /\ EntryList(r) /\ EntryList(t)
  BY DEF Shared, Parted
<1>2. CASE t = <<>>
  <2>1. d = h
    BY <1>2, Zenon DEF RT!Distributed
  <2> QED
    BY <1>2, <2>1
<1>3. CASE t # <<>>
  <2>1. \/ d = RT!Halves(l \o t, r, <<>>)
        \/ d = RT!Halves(l, r \o t, <<>>)
        \/ \E i \in DOMAIN t :
             \/ d = RT!Halves(Append(l, t[i]), r, RT!RemoveAt(t, i))
             \/ d = RT!Halves(l, Append(r, t[i]), RT!RemoveAt(t, i))
    BY <1>3, DistributedIs
  <2> HIDE DEF d, l, r, t
  <2>2. /\ EntryList(<<>>) /\ Names(t) \intersect Names(<<>>) = {} /\ Items(t) = Items(t) \union Items(<<>>)
        /\ Names(t) = Names(t) \union Names(<<>>) /\ Len(t) = Len(t) + Len(<<>>)
    BY <1>1, NothingLeft, ListTypes
  <2>3. CASE d = RT!Halves(l \o t, r, <<>>)
    <3>1. Parted(l \o t, r, <<>>, I, n)
      BY <1>1, <2>2, MovedLeft
    <3>2. Shared(d, I, n) /\ d.rest = <<>>
      BY <2>3, <3>1, SharedIs, HalvesIs
    <3> QED
      BY <3>2 DEF d
  <2>4. CASE d = RT!Halves(l, r \o t, <<>>)
    <3>1. Parted(l, r \o t, <<>>, I, n)
      BY <1>1, <2>2, MovedRight
    <3>2. Shared(d, I, n) /\ d.rest = <<>>
      BY <2>4, <3>1, SharedIs, HalvesIs
    <3> QED
      BY <3>2 DEF d
  <2>5. ASSUME NEW i \in DOMAIN t,
               \/ d = RT!Halves(Append(l, t[i]), r, RT!RemoveAt(t, i))
               \/ d = RT!Halves(l, Append(r, t[i]), RT!RemoveAt(t, i))
        PROVE  Shared(d, I, n) /\ Len(d.rest) = Len(t) - 1
    <3> DEFINE s == <<t[i]>>  u == RT!RemoveAt(t, i)
    <3>1. /\ EntryList(s) /\ EntryList(u) /\ Names(s) \intersect Names(u) = {}
          /\ Items(t) = Items(s) \union Items(u) /\ Names(t) = Names(s) \union Names(u)
          /\ Len(t) = Len(s) + Len(u) /\ Len(u) = Len(t) - 1
      BY <1>1, OneTaken
    <3>2. Append(l, t[i]) = l \o s /\ Append(r, t[i]) = r \o s
      BY <1>1, AppendedIsJoined DEF EntryList
    <3>3. d = RT!Halves(l \o s, r, u) \/ d = RT!Halves(l, r \o s, u)
      BY <2>5, <3>2
    <3> HIDE DEF s, u
    <3>4. Parted(l \o s, r, u, I, n) /\ Parted(l, r \o s, u, I, n)
      BY <1>1, <3>1, MovedLeft, MovedRight
    <3>5. Shared(d, I, n)
      BY <3>3, <3>4, SharedIs
    <3>6. d.rest = u
      BY <3>3, HalvesIs
    <3> QED
      BY <3>1, <3>5, <3>6
  <2> QED
    BY <2>1, <2>3, <2>4, <2>5, Zenon DEF d, t
<1> QED
  BY <1>2, <1>3

(* A split shares the entries among two pages that both get some.           *)
LEMMA SeedsTaken ==
  ASSUME NEW es, EntryList(es), NEW a \in DOMAIN es, NEW b \in DOMAIN es, a # b
  PROVE  Parted(<<es[a]>>, <<es[b]>>,
                RT!RemoveAt(RT!RemoveAt(es, RT!Greatest(a, b)), RT!Least(a, b)), Items(es), Len(es))
<1> DEFINE hi == RT!Greatest(a, b)
           lo == RT!Least(a, b)
           t == RT!RemoveAt(es, hi)
           u == RT!RemoveAt(t, lo)
           l == <<es[a]>>
           r == <<es[b]>>
<1>1. /\ Len(es) \in Nat /\ DOMAIN es = 1 .. Len(es)
      /\ \A i \in DOMAIN es : es[i] \in EntrySet /\ es[i] \in Items(es) /\ es[i].ref \in Names(es)
      /\ \A i, j \in DOMAIN es : es[i].ref = es[j].ref => i = j
  BY ListTypes DEF EntryList, Single
<1>2. lo < hi /\ lo \in DOMAIN es /\ hi \in DOMAIN es /\ {lo, hi} = {a, b}
  <2>1. a \in Int /\ b \in Int
    BY <1>1
  <2> QED
    BY <2>1 DEF RT!Least, RT!Greatest
<1> HIDE DEF lo, hi
<1>3. /\ EntryList(t) /\ Items(t) = Items(es) \ {es[hi]} /\ Names(t) = Names(es) \ {es[hi].ref}
      /\ Len(t) = Len(es) - 1 /\ lo \in DOMAIN t /\ t[lo] = es[lo]
  BY <1>2, RemovedIs
<1> HIDE DEF t
<1>4. /\ EntryList(u) /\ Items(u) = Items(t) \ {t[lo]} /\ Names(u) = Names(t) \ {t[lo].ref}
      /\ Len(u) = Len(t) - 1
  BY <1>3, RemovedIs
<1> HIDE DEF u
<1>5. /\ EntryList(l) /\ Items(l) = {es[a]} /\ Names(l) = {es[a].ref} /\ Len(l) = 1
      /\ EntryList(r) /\ Items(r) = {es[b]} /\ Names(r) = {es[b].ref} /\ Len(r) = 1
  BY <1>1, SingletonIs
<1>6. l # <<>> /\ r # <<>>
  OBVIOUS
<1> HIDE DEF l, r
<1>7. es[a].ref # es[b].ref
  BY <1>1
<1>8. {es[lo], es[hi]} = {es[a], es[b]} /\ {es[lo].ref, es[hi].ref} = {es[a].ref, es[b].ref}
  <2>1. (lo = a /\ hi = b) \/ (lo = b /\ hi = a)
    BY <1>2
  <2> QED
    BY <2>1
<1>9. /\ Names(l) \intersect Names(r) = {} /\ Names(l) \intersect Names(u) = {}
      /\ Names(r) \intersect Names(u) = {}
  <2>1. Names(u) = Names(es) \ {es[lo].ref, es[hi].ref}
    BY <1>3, <1>4
  <2>2. Names(u) = Names(es) \ {es[a].ref, es[b].ref}
    BY <1>8, <2>1
  <2> QED
    BY <1>5, <1>7, <2>2
<1>10. Items(es) = Items(l) \union Items(r) \union Items(u)
  <2>1. Items(u) = Items(es) \ {es[lo], es[hi]}
    BY <1>3, <1>4
  <2>2. Items(u) = Items(es) \ {es[a], es[b]}
    BY <1>8, <2>1
  <2> QED
    BY <1>1, <1>5, <2>2
<1>11. Len(es) = Len(l) + Len(r) + Len(u)
  BY <1>1, <1>3, <1>4, <1>5
<1>12. Parted(l, r, u, Items(es), Len(es))
  BY <1>4, <1>5, <1>6, <1>9, <1>10, <1>11 DEF Parted
<1> QED
  BY <1>12 DEF l, r, u, t, lo, hi

HalvesSet == [left : Seq(EntrySet), right : Seq(EntrySet), rest : Seq(EntrySet)]

LEMMA SharedType ==
  ASSUME NEW h, NEW I, NEW n, Shared(h, I, n)
  PROVE  h \in HalvesSet
<1> DEFINE l == h.left  r == h.right  t == h.rest
<1>1. l \in Seq(EntrySet) /\ r \in Seq(EntrySet) /\ t \in Seq(EntrySet) /\ h = RT!Halves(l, r, t)
  BY DEF Shared, Parted, EntryList
<1> HIDE DEF l, r, t
<1>2. RT!Halves(l, r, t) \in HalvesSet
  BY <1>1 DEF RT!Halves, HalvesSet
<1> QED
  BY <1>1, <1>2

LEMMA SplitShares ==
  ASSUME NEW es, EntryList(es), NEW seeds,
         seeds[1] \in DOMAIN es, seeds[2] \in DOMAIN es, seeds[1] # seeds[2]
  PROVE  \E l, r : RT!SeededSplit(es, seeds) = <<l, r>> /\ Parted(l, r, <<>>, Items(es), Len(es))
<1> DEFINE N == Len(es)
           I == Items(es)
           D == {h \in HalvesSet : Shared(h, I, N)}
           rest == RT!RemoveAt(RT!RemoveAt(es, RT!Greatest(seeds[1], seeds[2])), RT!Least(seeds[1], seeds[2]))
           start == RT!Halves(<<es[seeds[1]]>>, <<es[seeds[2]]>>, rest)
           after[n \in 0 .. N] == IF n = 0 THEN start ELSE RT!Distributed(after[n - 1])
           step == [n \in 1 .. N |-> [h \in D |-> RT!Distributed(h)]]
<1>1. RT!SeededSplit(es, seeds) = <<after[N].left, after[N].right>>
  BY Zenon DEF RT!SeededSplit
<1>2. N \in Nat
  BY ListTypes
<1>3. Shared(start, I, N)
  <2>1. Parted(<<es[seeds[1]]>>, <<es[seeds[2]]>>, rest, I, N)
    BY SeedsTaken
  <2> HIDE DEF rest, I, N
  <2> QED
    BY <2>1, SharedIs
<1> HIDE DEF start, N, I
<1>4. start \in D
  BY <1>3, SharedType
<1>5. \A h \in D : RT!Distributed(h) \in D
  <2> TAKE h \in D
  <2>1. Shared(RT!Distributed(h), I, N)
    BY DistributedKeeps
  <2> QED
    BY <2>1, SharedType
<1>6. \A h \in D : /\ Shared(h, I, N) /\ Len(h.rest) \in Nat
                   /\ h.rest # <<>> => \/ RT!Distributed(h).rest = <<>>
                                       \/ Len(RT!Distributed(h).rest) = Len(h.rest) - 1
                   /\ h.rest = <<>> => RT!Distributed(h).rest = <<>>
  <2> TAKE h \in D
  <2>1. Shared(h, I, N)
    OBVIOUS
  <2>2. Len(h.rest) \in Nat
    BY <2>1, ListTypes DEF Shared, Parted
  <2>3. h.rest = <<>> => RT!Distributed(h) = h
    BY Zenon DEF RT!Distributed
  <2> HIDE DEF D
  <2> QED
    BY <2>1, <2>2, <2>3, DistributedKeeps
<1> HIDE DEF D
<1>7. PICK f : Iterates(f, start, step, N, D)
  <2>1. IsTable(step, N, D)
    BY <1>2, <1>5 DEF IsTable
  <2> HIDE DEF step
  <2> QED
    BY <1>2, <1>4, <2>1, IterationExists
<1>8. /\ f \in [0 .. N -> D] /\ f[0] = start
      /\ \A n \in 1 .. N : n - 1 \in 0 .. N /\ f[n - 1] \in D /\ f[n] = RT!Distributed(f[n - 1])
  <2>1. f \in [0 .. N -> D] /\ f[0] = start /\ \A n \in 1 .. N : f[n] = step[n][f[n - 1]]
    BY <1>7 DEF Iterates
  <2>2. \A n \in 1 .. N : n - 1 \in 0 .. N
    BY <1>2
  <2> QED
    BY <2>1, <2>2
<1> HIDE DEF step
<1>9. f = [n \in 0 .. N |-> IF n = 0 THEN start ELSE RT!Distributed(f[n - 1])]
  <2>1. \A n \in 0 .. N : n # 0 => n \in 1 .. N
    BY <1>2
  <2>2. \A n \in 0 .. N : f[n] = IF n = 0 THEN start ELSE RT!Distributed(f[n - 1])
    BY <1>8, <2>1, Zenon
  <2>3. f = [n \in 0 .. N |-> f[n]]
    BY <1>8
  <2> QED
    BY <2>2, <2>3, Zenon
<1>10. after = [n \in 0 .. N |-> IF n = 0 THEN start ELSE RT!Distributed(after[n - 1])]
  BY <1>9, Zenon
<1> HIDE DEF after
<1>11. /\ \A n \in 0 .. N : after[n] = IF n = 0 THEN start ELSE RT!Distributed(after[n - 1])
  BY <1>10, Zenon
<1> DEFINE S == {n \in 0 .. N : after[n] \in D /\ (after[n].rest = <<>> \/ Len(after[n].rest) <= N - n)}
<1>12. 0 \in S
  <2>1. 0 \in 0 .. N /\ after[0] = start
    BY <1>2, <1>11
  <2>2. Len(start.rest) <= N
    <3>1. /\ N = Len(start.left) + Len(start.right) + Len(start.rest)
          /\ EntryList(start.left) /\ EntryList(start.right) /\ EntryList(start.rest)
      BY <1>3 DEF Shared, Parted
    <3>2. Len(start.left) \in Nat /\ Len(start.right) \in Nat /\ Len(start.rest) \in Nat
      BY <3>1, ListTypes
    <3>3. \A x, y, z \in Nat : N = x + y + z => z <= N
      BY <1>2
    <3> QED
      BY <3>1, <3>2, <3>3
  <2> QED
    BY <1>2, <1>4, <2>1, <2>2
<1>13. ASSUME NEW n \in 1 .. N, n - 1 \in S PROVE n \in S
  <2> DEFINE h == after[n - 1]
             d == RT!Distributed(h)
  <2>1. n \in 0 .. N /\ n # 0
    BY <1>2
  <2>2. after[n] = d
    BY <1>11, <2>1
  <2>3. h \in D /\ (h.rest = <<>> \/ Len(h.rest) <= N - (n - 1))
    BY <1>13
  <2> HIDE DEF h
  <2>4. /\ Len(h.rest) \in Nat
        /\ h.rest # <<>> => d.rest = <<>> \/ Len(d.rest) = Len(h.rest) - 1
        /\ h.rest = <<>> => d.rest = <<>>
    BY <1>6, <2>3
  <2>5. d \in D
    BY <1>5, <2>3
  <2> HIDE DEF d
  <2>6. d.rest = <<>> \/ Len(d.rest) <= N - n
    <3>1. CASE h.rest # <<>> /\ Len(d.rest) = Len(h.rest) - 1
      <4>1. Len(h.rest) <= N - (n - 1)
        BY <2>3, <3>1
      <4> QED
        BY <1>2, <2>1, <2>4, <3>1, <4>1
    <3> QED
      BY <2>4, <3>1
  <2> QED
    BY <2>1, <2>2, <2>5, <2>6
<1>14. 0 .. N \subseteq S
  <2> HIDE DEF S
  <2> QED
    BY <1>2, <1>12, <1>13, BoundedInduction
<1> DEFINE h == after[N]
<1>15. h \in D /\ (h.rest = <<>> \/ Len(h.rest) <= N - N)
  <2>1. N \in 0 .. N
    BY <1>2
  <2> QED
    BY <1>14, <2>1
<1> HIDE DEF h
<1>16. Parted(h.left, h.right, h.rest, I, N) /\ EntryList(h.rest)
  BY <1>6, <1>15 DEF Shared, Parted
<1>17. h.rest = <<>>
  <2>1. Len(h.rest) \in Nat /\ (h.rest = <<>> <=> Len(h.rest) = 0)
    BY <1>16, ListTypes
  <2> QED
    BY <1>2, <1>15, <2>1
<1>18. Parted(h.left, h.right, <<>>, I, N)
  BY <1>16, <1>17
<1> QED
  BY <1>1, <1>18 DEF h, I, N

-----------------------------------------------------------------------------
(* A forest: the pages A of the trees whose tops are T, on levels.  The     *)
(* boxes of the pages L may be out of date above them, and L may be empty.  *)
Levels(ps, A, rank) == \A p \in A : \A k \in Kids(ps, p) : k \in A /\ rank[k] + 1 = rank[p]

Hung(ps, A, T) ==
  /\ T \subseteq A /\ A \subseteq DOMAIN ps
  /\ \A p \in A : p \in T \/ \E q \in A : p \in Kids(ps, q)
  /\ \A p \in A : T \intersect Kids(ps, p) = {}

Apart(ps, A) ==
  \A p, q \in A : ps[p].leaf = ps[q].leaf =>
    \A i \in DOMAIN ps[p].entries, j \in DOMAIN ps[q].entries :
      ps[p].entries[i].ref = ps[q].entries[j].ref => p = q /\ i = j

Filled(ps, A, T, L) ==
  \A p \in A : /\ Len(ps[p].entries) <= Capacity
               /\ ps[p].entries # <<>> \/ p \in L \/ (p \in T /\ ps[p].leaf)

TightEntry(ps, e) == e.mbr = RT!Mbr(ps[e.ref].entries)

Tight(ps, A, L) ==
  \A p \in A : ~ ps[p].leaf =>
    \A i \in DOMAIN ps[p].entries : ps[p].entries[i].ref \notin L => TightEntry(ps, ps[p].entries[i])

PointEntry(e) == e.ref \in DOMAIN Point /\ e.mbr = RT!BoxOf(Point[e.ref])

Pointed(ps, A) ==
  \A p \in A : ps[p].leaf => \A i \in DOMAIN ps[p].entries : PointEntry(ps[p].entries[i])

Forest(ps, A, T, rank, N, L) ==
  /\ ps \in Seq(NodeSet) /\ N \in Nat
  /\ Ranked(ps, rank, N) /\ Levels(ps, A, rank) /\ Hung(ps, A, T) /\ Apart(ps, A)
  /\ Filled(ps, A, T, L) /\ Tight(ps, A, L) /\ Pointed(ps, A)

RowsUnder(ps, A) == UNION {Refs(ps, p) : p \in {q \in A : ps[q].leaf}}

LEMMA PageTypes ==
  ASSUME NEW ps \in Seq(NodeSet), NEW p \in DOMAIN ps
  PROVE  /\ ps[p] \in NodeSet /\ ps[p].leaf \in BOOLEAN /\ ps[p].entries \in Seq(EntrySet)
         /\ p \in 1 .. Len(ps) /\ Len(ps) \in Nat /\ p \in Nat
         /\ \A i \in DOMAIN ps[p].entries : ps[p].entries[i] \in EntrySet
<1>1. p \in 1 .. Len(ps) /\ Len(ps) \in Nat
  OBVIOUS
<1>2. ps[p] \in NodeSet
  BY <1>1
<1>3. ps[p].leaf \in BOOLEAN /\ ps[p].entries \in Seq(EntrySet)
  BY <1>2 DEF NodeSet
<1> QED
  BY <1>1, <1>2, <1>3

(* The entries of page p were written anew, to p and to new pages W.        *)
Rewritten(ps, qs, p, W) ==
  /\ qs \in Seq(NodeSet) /\ DOMAIN qs = DOMAIN ps \union W
  /\ W \intersect DOMAIN ps = {} /\ p \in DOMAIN ps
  /\ \A q \in DOMAIN ps \ {p} : qs[q] = ps[q]
  /\ \A q \in {p} \union W : qs[q].leaf = ps[p].leaf /\ Len(qs[q].entries) <= Capacity
  /\ \A q \in W : qs[q].entries # <<>>
  /\ \A q, s \in {p} \union W :
       \A i \in DOMAIN qs[q].entries, j \in DOMAIN qs[s].entries :
         qs[q].entries[i].ref = qs[s].entries[j].ref => q = s /\ i = j

Written(qs, p, W) == UNION {Refs(qs, q) : q \in {p} \union W}

(* In a leaf: rows that no other leaf has.                                  *)
LeafWritten(ps, A, qs, p, W, L) ==
  /\ ps[p].leaf /\ L \subseteq {p}
  /\ \A q \in {p} \union W : \A i \in DOMAIN qs[q].entries : PointEntry(qs[q].entries[i])
  /\ \A q \in A \ {p} : ps[q].leaf => Refs(ps, q) \intersect Written(qs, p, W) = {}

(* Above: what the page had, without pages that are empty, and tops.        *)
InnerWritten(ps, A, T, rank, qs, p, W, L) ==
  /\ ~ ps[p].leaf /\ L \subseteq Kids(ps, p) \union {p}
  /\ \A x \in Written(qs, p, W) : /\ x \in A /\ x # p /\ rank[x] + 1 = rank[p]
                                  /\ x \in Kids(ps, p) \union T /\ ps[x].entries # <<>>
  /\ \A g \in Kids(ps, p) \ Written(qs, p, W) : ps[g].entries = <<>>
  /\ \A q \in {p} \union W : \A i \in DOMAIN qs[q].entries : TightEntry(ps, qs[q].entries[i])

NewRank(qs, rank, p, W) == [q \in DOMAIN qs |-> IF q \in W THEN rank[p] ELSE rank[q]]

LeftOut(ps, qs, p, W) == Kids(ps, p) \ Written(qs, p, W)

NewTops(T, qs, p, W, inner) == (IF inner THEN T \ Written(qs, p, W) ELSE T) \union W

LEMMA RewrittenKeeps ==
  ASSUME NEW ps, NEW A, NEW T, NEW rank, NEW N, NEW L, Forest(ps, A, T, rank, N, L),
         NEW p \in A, NEW qs, NEW W, Rewritten(ps, qs, p, W),
         LeafWritten(ps, A, qs, p, W, L) \/ InnerWritten(ps, A, T, rank, qs, p, W, L)
  PROVE  Forest(qs, (A \ LeftOut(ps, qs, p, W)) \union W, NewTops(T, qs, p, W, ~ ps[p].leaf),
                NewRank(qs, rank, p, W), N, {p})
<1> DEFINE V == {p} \union W
           X == Written(qs, p, W)
           G == LeftOut(ps, qs, p, W)
           B == (A \ G) \union W
           U == NewTops(T, qs, p, W, ~ ps[p].leaf)
           r == NewRank(qs, rank, p, W)
           leaf == ps[p].leaf
(* What is known, in one place.                                             *)
<1>1. /\ ps \in Seq(NodeSet) /\ N \in Nat /\ qs \in Seq(NodeSet) /\ A \subseteq DOMAIN ps /\ T \subseteq A
      /\ DOMAIN qs = DOMAIN ps \union W /\ W \intersect DOMAIN ps = {} /\ p \in DOMAIN ps
  BY DEF Forest, Hung, Rewritten
<1>2. /\ \A q \in DOMAIN ps : q # p => q \notin V /\ qs[q] = ps[q] /\ Refs(qs, q) = Refs(ps, q) /\ Kids(qs, q) = Kids(ps, q)
      /\ \A q \in V : q \in DOMAIN qs /\ qs[q].leaf = leaf /\ Len(qs[q].entries) <= Capacity
      /\ \A q \in W : q \notin A /\ q \notin T /\ qs[q].entries # <<>> /\ q # p
  <2>1. /\ \A q \in DOMAIN ps : q # p => q \notin V /\ qs[q] = ps[q]
        /\ \A q \in V : q \in DOMAIN qs /\ qs[q].leaf = leaf /\ Len(qs[q].entries) <= Capacity
        /\ \A q \in W : qs[q].entries # <<>>
    BY <1>1 DEF Rewritten
  <2>2. \A q \in W : q \notin A /\ q \notin T /\ q # p
    BY <1>1
  <2>3. \A q \in DOMAIN ps : q # p => Refs(qs, q) = Refs(ps, q) /\ Kids(qs, q) = Kids(ps, q)
    BY <2>1 DEF Refs, Kids
  <2> HIDE DEF V, leaf
  <2> QED
    BY <2>1, <2>2, <2>3
<1>3. \A q \in V : /\ Refs(qs, q) \subseteq X
                   /\ \A i \in DOMAIN qs[q].entries : qs[q].entries[i].ref \in X
                   /\ leaf => Kids(qs, q) = {}
                   /\ ~ leaf => Kids(qs, q) = Refs(qs, q)
  BY <1>2 DEF Written, Refs, Kids
<1>4. \A x \in X : \E q \in V : x \in Refs(qs, q)
  BY DEF Written
<1>5. rank \in [DOMAIN ps -> 0 .. N] /\ \A q \in DOMAIN ps : \A k \in Kids(ps, q) : k \in DOMAIN ps /\ rank[k] < rank[q]
  BY DEF Forest, Ranked
<1>6. /\ r \in [DOMAIN qs -> 0 .. N]
      /\ \A q \in DOMAIN ps : r[q] = rank[q]
      /\ \A q \in V : r[q] = rank[p]
  <2>1. rank[p] \in 0 .. N /\ \A q \in DOMAIN ps : rank[q] \in 0 .. N
    BY <1>1, <1>5
  <2>2. \A q \in DOMAIN qs : r[q] = IF q \in W THEN rank[p] ELSE rank[q]
    BY DEF NewRank
  <2>3. DOMAIN r = DOMAIN qs /\ r = [q \in DOMAIN qs |-> r[q]]
    BY DEF NewRank
  <2> HIDE DEF r
  <2>4. \A q \in DOMAIN qs : r[q] \in 0 .. N
    BY <1>1, <2>1, <2>2
  <2> QED
    BY <1>1, <1>2, <2>1, <2>2, <2>3, <2>4
<1>7. G = Kids(ps, p) \ X /\ (leaf => G = {}) /\ (leaf => Kids(ps, p) = {})
  BY DEF LeftOut, Kids
<1>8. U = (IF leaf THEN T ELSE T \ X) \union W
  BY DEF NewTops
<1>9. leaf => /\ L \subseteq {p}
              /\ \A q \in V : \A i \in DOMAIN qs[q].entries : PointEntry(qs[q].entries[i])
              /\ \A q \in A : q # p /\ ps[q].leaf => Refs(ps, q) \intersect X = {}
  BY DEF LeafWritten, InnerWritten
<1>10. ~ leaf => /\ L \subseteq Kids(ps, p) \union {p}
                 /\ \A x \in X : /\ x \in A /\ x # p /\ rank[x] + 1 = rank[p]
                                 /\ x \in Kids(ps, p) \union T /\ ps[x].entries # <<>>
                 /\ \A g \in G : ps[g].entries = <<>>
                 /\ \A q \in V : \A i \in DOMAIN qs[q].entries : TightEntry(ps, qs[q].entries[i])
  BY DEF LeafWritten, InnerWritten, LeftOut
<1>11. /\ \A q \in A : \A k \in Kids(ps, q) : k \in A /\ rank[k] + 1 = rank[q]
       /\ \A q \in A : q \in T \/ \E s \in A : q \in Kids(ps, s)
       /\ \A q \in A : T \intersect Kids(ps, q) = {}
  BY DEF Forest, Levels, Hung
<1>12. \A q \in A : q # p => Kids(ps, q) \intersect Kids(ps, p) = {}
  <2> SUFFICES ASSUME NEW q \in A, q # p, NEW k, k \in Kids(ps, q), k \in Kids(ps, p) PROVE FALSE
    OBVIOUS
  <2>1. ~ ps[q].leaf /\ ~ leaf /\ k \in Refs(ps, q) /\ k \in Refs(ps, p)
    BY DEF Kids
  <2>2. PICK i \in DOMAIN ps[q].entries, j \in DOMAIN ps[p].entries :
          ps[q].entries[i].ref = k /\ ps[p].entries[j].ref = k
    BY <2>1 DEF Refs
  <2>3. ps[q].leaf = ps[p].leaf
    BY <1>1, <2>1, PageTypes
  <2> QED
    BY <2>2, <2>3 DEF Forest, Apart
<1> HIDE DEF X, G, U, r, leaf, V
<1>13. /\ p \in B /\ W \subseteq B /\ V \subseteq B /\ B \subseteq DOMAIN qs
       /\ \A q \in B : q \in V \/ (q \in A /\ q \notin G /\ q # p /\ q \in DOMAIN ps)
  <2>1. p \notin G
    <3>1. \A k \in Kids(ps, p) : rank[k] + 1 = rank[p] /\ rank[k] \in Int
      BY <1>1, <1>5, <1>11
    <3>2. rank[p] \in Int
      BY <1>1, <1>5
    <3> QED
      BY <1>7, <3>1, <3>2
  <2>2. V = {p} \union W
    BY DEF V
  <2> QED
    BY <1>1, <2>1, <2>2
<1> HIDE DEF B
<1>14. \A q \in B : q \notin V => Kids(ps, q) \subseteq B /\ Kids(qs, q) = Kids(ps, q) /\ qs[q] = ps[q]
  <2> SUFFICES ASSUME NEW q \in B, q \notin V, NEW k \in Kids(ps, q) PROVE k \in B
    BY <1>2, <1>13
  <2>1. k \in A /\ k \notin G
    BY <1>7, <1>11, <1>12, <1>13
  <2> QED
    BY <2>1 DEF B
<1>15. ~ leaf => X \subseteq B
  BY <1>7, <1>10 DEF B
(* The parts of the forest.                                                 *)
<1>16. Ranked(qs, r, N)
  <2> SUFFICES ASSUME NEW q \in DOMAIN qs, NEW k \in Kids(qs, q) PROVE k \in DOMAIN qs /\ r[k] < r[q]
    BY <1>6 DEF Ranked
  <2>1. CASE q \notin V
    <3>1. q \in DOMAIN ps /\ q # p /\ k \in Kids(ps, q)
      BY <1>1, <1>2, <2>1 DEF V
    <3>2. k \in DOMAIN ps /\ rank[k] < rank[q]
      BY <1>5, <3>1
    <3> QED
      BY <1>1, <1>6, <3>1, <3>2
  <2>2. CASE q \in V
    <3>1. ~ leaf /\ k \in X
      BY <1>3, <2>2
    <3>2. k \in A /\ k \in DOMAIN ps /\ rank[k] + 1 = rank[p] /\ rank[k] \in Int
      BY <1>1, <1>5, <1>10, <3>1
    <3>3. r[k] = rank[k] /\ r[q] = rank[p] /\ k \in DOMAIN qs
      BY <1>1, <1>6, <2>2, <3>2
    <3> QED
      BY <3>2, <3>3
  <2> QED
    BY <2>1, <2>2
<1>17. Levels(qs, B, r)
  <2> SUFFICES ASSUME NEW q \in B, NEW k \in Kids(qs, q) PROVE k \in B /\ r[k] + 1 = r[q]
    BY DEF Levels
  <2>1. CASE q \notin V
    <3>1. k \in Kids(ps, q) /\ k \in B /\ q \in A /\ q \in DOMAIN ps
      BY <1>13, <1>14, <2>1
    <3>2. rank[k] + 1 = rank[q] /\ k \in DOMAIN ps
      BY <1>1, <1>11, <3>1
    <3> QED
      BY <1>6, <3>1, <3>2
  <2>2. CASE q \in V
    <3>1. ~ leaf /\ k \in X
      BY <1>3, <2>2
    <3>2. k \in A /\ k \in DOMAIN ps /\ rank[k] + 1 = rank[p]
      BY <1>1, <1>10, <3>1
    <3> QED
      BY <1>6, <1>15, <2>2, <3>1, <3>2
  <2> QED
    BY <2>1, <2>2
<1>18. Hung(qs, B, U)
  <2>1. U \subseteq B
    <3>1. T \intersect G = {}
      BY <1>7, <1>11
    <3> QED
      BY <1>1, <1>8, <1>13, <3>1 DEF B
  <2>2. ASSUME NEW q \in B PROVE q \in U \/ \E s \in B : q \in Kids(qs, s)
    <3>1. CASE q \in W
      BY <1>8, <3>1
    <3>2. CASE q \in X /\ ~ leaf
      <4>1. PICK s \in V : q \in Refs(qs, s)
        BY <1>4, <3>2
      <4> QED
        BY <1>3, <1>13, <3>2, <4>1
    <3>3. CASE q \notin W /\ (q \notin X \/ leaf)
      <4>1. q \in A /\ q \notin G
        BY <3>3 DEF B
      <4>2. CASE q \in T
        BY <1>8, <3>3, <4>2
      <4>3. CASE q \notin T
        <5>1. PICK s \in A : q \in Kids(ps, s)
          BY <1>11, <4>1, <4>3
        <5>2. s # p
          BY <1>7, <3>3, <4>1, <5>1
        <5>3. s \notin G
          <6> SUFFICES ASSUME s \in G PROVE FALSE
            OBVIOUS
          <6>1. ps[s].entries = <<>>
            BY <1>7, <1>10
          <6>2. Kids(ps, s) = {}
            BY <6>1 DEF Kids, Refs
          <6> QED
            BY <5>1, <6>2
        <5>4. s \in B /\ s \notin V
          BY <1>1, <1>2, <5>2, <5>3 DEF B
        <5> QED
          BY <1>14, <5>1, <5>4
      <4> QED
        BY <4>2, <4>3
    <3> QED
      BY <3>1, <3>2, <3>3
  <2>3. ASSUME NEW q \in B PROVE U \intersect Kids(qs, q) = {}
    <3>1. CASE q \in V
      <4>1. CASE leaf
        BY <1>3, <3>1, <4>1
      <4>2. CASE ~ leaf
        <5>1. Kids(qs, q) \subseteq X /\ X \subseteq A /\ W \intersect A = {}
          BY <1>2, <1>3, <1>10, <3>1, <4>2
        <5> QED
          BY <1>8, <4>2, <5>1
      <4> QED
        BY <4>1, <4>2
    <3>2. CASE q \notin V
      <4>1. q \in A /\ Kids(qs, q) = Kids(ps, q) /\ Kids(ps, q) \subseteq A /\ W \intersect A = {}
        BY <1>2, <1>11, <1>13, <1>14, <3>2
      <4> QED
        BY <1>8, <1>11, <4>1
    <3> QED
      BY <3>1, <3>2
  <2> QED
    BY <1>13, <2>1, <2>2, <2>3 DEF Hung
<1>19. Apart(qs, B)
  <2>1. ASSUME NEW q \in B, NEW s \in B, q \in V, s \notin V, qs[q].leaf = qs[s].leaf,
               NEW i \in DOMAIN qs[q].entries, NEW j \in DOMAIN qs[s].entries
        PROVE  qs[q].entries[i].ref # qs[s].entries[j].ref
    <3>1. s \in A /\ s # p /\ qs[s] = ps[s]
      BY <1>13, <1>14, <2>1
    <3>2. qs[q].entries[i].ref \in X /\ qs[s].entries[j].ref \in Refs(ps, s) /\ ps[s].leaf = leaf
      BY <1>2, <1>3, <2>1, <3>1 DEF Refs
    <3>3. CASE leaf
      BY <1>9, <3>1, <3>2, <3>3
    <3>4. CASE ~ leaf
      <4>1. Kids(ps, s) = Refs(ps, s)
        BY <3>2, <3>4 DEF Kids
      <4> QED
        BY <1>10, <1>11, <1>12, <3>1, <3>2, <3>4, <4>1
    <3> QED
      BY <3>3, <3>4
  <2> SUFFICES ASSUME NEW q \in B, NEW s \in B, qs[q].leaf = qs[s].leaf,
                      NEW i \in DOMAIN qs[q].entries, NEW j \in DOMAIN qs[s].entries,
                      qs[q].entries[i].ref = qs[s].entries[j].ref
               PROVE  q = s /\ i = j
    BY DEF Apart
  <2>2. CASE q \in V /\ s \in V
    BY <2>2 DEF Rewritten, V
  <2>3. CASE q \notin V /\ s \notin V
    <3>1. q \in A /\ s \in A /\ qs[q] = ps[q] /\ qs[s] = ps[s]
      BY <1>13, <1>14, <2>3
    <3> QED
      BY <3>1 DEF Forest, Apart
  <2> QED
    BY <2>1, <2>2, <2>3
<1>20. Filled(qs, B, U, {p})
  <2> SUFFICES ASSUME NEW q \in B
               PROVE  /\ Len(qs[q].entries) <= Capacity
                      /\ qs[q].entries # <<>> \/ q = p \/ (q \in U /\ qs[q].leaf)
    BY DEF Filled
  <2>1. CASE q \in V
    BY <1>2, <2>1 DEF V
  <2>2. CASE q \notin V
    <3>1. q \in A /\ q \notin G /\ q # p /\ qs[q] = ps[q]
      BY <1>13, <1>14, <2>2
    <3>2. Len(ps[q].entries) <= Capacity /\ (ps[q].entries # <<>> \/ q \in L \/ (q \in T /\ ps[q].leaf))
      BY <3>1 DEF Forest, Filled
    <3>3. CASE q \in L
      BY <1>7, <1>9, <1>10, <3>1, <3>2, <3>3
    <3>4. CASE q \in T /\ ps[q].leaf
      BY <1>8, <1>10, <3>1, <3>2, <3>4
    <3> QED
      BY <3>1, <3>2, <3>3, <3>4
  <2> QED
    BY <2>1, <2>2
<1>21. Tight(qs, B, {p})
  <2> SUFFICES ASSUME NEW q \in B, ~ qs[q].leaf, NEW i \in DOMAIN qs[q].entries, qs[q].entries[i].ref # p
               PROVE  TightEntry(qs, qs[q].entries[i])
    BY DEF Tight
  <2> DEFINE e == qs[q].entries[i]
  <2>1. e.ref \in A /\ TightEntry(ps, e)
    <3>1. CASE q \in V
      <4>1. ~ leaf
        BY <1>2, <3>1
      <4> QED
        BY <1>3, <1>10, <3>1, <4>1
    <3>2. CASE q \notin V
      <4>1. q \in A /\ q # p /\ qs[q] = ps[q]
        BY <1>13, <1>14, <3>2
      <4>2. e.ref \in Kids(ps, q)
        BY <4>1 DEF Kids, Refs
      <4>3. e.ref \notin L
        BY <1>7, <1>9, <1>10, <1>12, <4>1, <4>2
      <4>4. TightEntry(ps, e)
        BY <4>1, <4>3 DEF Forest, Tight
      <4> QED
        BY <1>11, <4>1, <4>2, <4>4
    <3> QED
      BY <3>1, <3>2
  <2>2. qs[e.ref] = ps[e.ref]
    BY <1>1, <1>2, <2>1
  <2> HIDE DEF e
  <2>3. TightEntry(qs, e)
    BY <2>1, <2>2 DEF TightEntry
  <2> QED
    BY <2>3 DEF e
<1>22. Pointed(qs, B)
  <2> SUFFICES ASSUME NEW q \in B, qs[q].leaf, NEW i \in DOMAIN qs[q].entries PROVE PointEntry(qs[q].entries[i])
    BY DEF Pointed
  <2>1. CASE q \in V
    BY <1>2, <1>9, <2>1
  <2>2. CASE q \notin V
    <3>1. q \in A /\ qs[q] = ps[q]
      BY <1>13, <1>14, <2>2
    <3> QED
      BY <3>1 DEF Forest, Pointed
  <2> QED
    BY <2>1, <2>2
<1>23. Forest(qs, B, U, r, N, {p})
  BY <1>1, <1>16, <1>17, <1>18, <1>19, <1>20, <1>21, <1>22 DEF Forest
<1> QED
  BY <1>23 DEF B, U, r, G

RowsNow(ps, A, qs, B, p, W) ==
  RowsUnder(qs, B) = IF ps[p].leaf THEN (RowsUnder(ps, A) \ Refs(ps, p)) \union Written(qs, p, W)
                     ELSE RowsUnder(ps, A)

LEMMA RowsWritten ==
  ASSUME NEW ps, NEW A, NEW T, NEW rank, NEW N, NEW L, Forest(ps, A, T, rank, N, L),
         NEW p \in A, NEW qs, NEW W, Rewritten(ps, qs, p, W),
         LeafWritten(ps, A, qs, p, W, L) \/ InnerWritten(ps, A, T, rank, qs, p, W, L)
  PROVE  RowsNow(ps, A, qs, (A \ LeftOut(ps, qs, p, W)) \union W, p, W)
<1> DEFINE V == {p} \union W
           X == Written(qs, p, W)
           G == LeftOut(ps, qs, p, W)
           B == (A \ G) \union W
           now == RowsUnder(qs, B)
           before == RowsUnder(ps, A)
           leaf == ps[p].leaf
<1>1. /\ A \subseteq DOMAIN ps /\ W \intersect DOMAIN ps = {} /\ p \in DOMAIN ps
      /\ \A q \in DOMAIN ps : q # p => qs[q] = ps[q]
      /\ \A q \in V : qs[q].leaf = leaf
  BY DEF Forest, Hung, Rewritten
<1>2. \A q \in A : q # p => qs[q].leaf = ps[q].leaf /\ Refs(qs, q) = Refs(ps, q)
  BY <1>1 DEF Refs
<1>3. /\ \A x : x \in now <=> \E q \in B : qs[q].leaf /\ x \in Refs(qs, q)
      /\ \A x : x \in before <=> \E q \in A : ps[q].leaf /\ x \in Refs(ps, q)
      /\ \A x : x \in X <=> \E q \in V : x \in Refs(qs, q)
  BY DEF RowsUnder, Written
<1>4. p \in B
  <2>1. \A k \in Kids(ps, p) : rank[k] < rank[p] /\ rank[p] \in Int
    BY <1>1 DEF Forest, Ranked
  <2>2. p \notin G
    BY <2>1 DEF LeftOut
  <2> QED
    BY <2>2
<1>5. \A q \in A : q # p /\ ps[q].leaf /\ leaf => Refs(ps, q) \intersect Refs(ps, p) = {}
  <2>1. \A q \in A : ps[q].leaf \in BOOLEAN
    BY <1>1, PageTypes DEF Forest
  <2>2. Apart(ps, A)
    BY DEF Forest
  <2> SUFFICES ASSUME NEW q \in A, q # p, ps[q].leaf, leaf, NEW x, x \in Refs(ps, q), x \in Refs(ps, p)
               PROVE  FALSE
    OBVIOUS
  <2>3. PICK i \in DOMAIN ps[q].entries, j \in DOMAIN ps[p].entries :
          ps[q].entries[i].ref = x /\ ps[p].entries[j].ref = x
    BY DEF Refs
  <2>4. ps[q].leaf = ps[p].leaf
    BY <2>1
  <2> HIDE DEF V, X, G, B, now, before, leaf
  <2>5. q = p /\ i = j
    BY <2>2, <2>3, <2>4 DEF Apart
  <2> QED
    BY <2>5
<1>6. leaf => G = {}
  BY DEF LeftOut, Kids
<1>7. ~ leaf => \A g \in G : Refs(ps, g) = {}
  <2> SUFFICES ASSUME ~ leaf, NEW g \in G PROVE Refs(ps, g) = {}
    OBVIOUS
  <2>1. ps[g].entries = <<>>
    BY DEF LeafWritten, InnerWritten, LeftOut
  <2> QED
    BY <2>1 DEF Refs
<1>8. \A q : q \in B <=> (q \in A /\ q \notin G) \/ q \in W
  OBVIOUS
<1>9. V = {p} \union W
  OBVIOUS
<1> HIDE DEF V, X, G, B, now, before
<1>10. CASE leaf
  <2>1. ASSUME NEW x \in now PROVE x \in (before \ Refs(ps, p)) \union X
    <3>1. PICK q \in B : qs[q].leaf /\ x \in Refs(qs, q)
      BY <1>3
    <3>2. CASE q \in V
      BY <1>3, <3>1, <3>2
    <3>3. CASE q \notin V
      <4>1. q \in A /\ q # p
        BY <1>8, <1>9, <3>3
      <4> QED
        BY <1>2, <1>3, <1>5, <1>10, <3>1, <4>1
    <3> QED
      BY <3>2, <3>3
  <2>2. ASSUME NEW x \in before, x \notin Refs(ps, p) PROVE x \in now
    <3>1. PICK q \in A : ps[q].leaf /\ x \in Refs(ps, q)
      BY <1>3
    <3>2. q # p /\ q \in B
      BY <1>6, <1>8, <1>10, <2>2, <3>1
    <3> QED
      BY <1>2, <1>3, <3>1, <3>2
  <2>3. ASSUME NEW x \in X PROVE x \in now
    <3>1. PICK q \in V : x \in Refs(qs, q)
      BY <1>3
    <3>2. q \in B /\ qs[q].leaf
      BY <1>1, <1>4, <1>8, <1>9, <1>10, <3>1
    <3> QED
      BY <1>3, <3>1, <3>2
  <2> QED
    BY <1>10, <2>1, <2>2, <2>3 DEF RowsNow, now, before, X, B, G, leaf
<1>11. CASE ~ leaf
  <2>1. ASSUME NEW x \in now PROVE x \in before
    <3>1. PICK q \in B : qs[q].leaf /\ x \in Refs(qs, q)
      BY <1>3
    <3>2. q \notin V
      BY <1>1, <1>11, <3>1
    <3>3. q \in A /\ q # p
      BY <1>8, <1>9, <3>2
    <3> QED
      BY <1>2, <1>3, <3>1, <3>3
  <2>2. ASSUME NEW x \in before PROVE x \in now
    <3>1. PICK q \in A : ps[q].leaf /\ x \in Refs(ps, q)
      BY <1>3
    <3>2. q # p /\ q \in B
      BY <1>7, <1>8, <1>11, <3>1
    <3> QED
      BY <1>2, <1>3, <3>1, <3>2
  <2> QED
    BY <1>11, <2>1, <2>2 DEF RowsNow, now, before, X, B, G, leaf
<1> QED
  BY <1>10, <1>11

-----------------------------------------------------------------------------
(* The child an insert goes into.                                           *)
LEMMA LeastUnder ==
  ASSUME NEW n \in Nat, n # 0, NEW R,
         \A i, j \in 1 .. n : <<i, j>> \in R \/ <<j, i>> \in R,
         \A i, j, k \in 1 .. n : <<i, j>> \in R /\ <<j, k>> \in R => <<i, k>> \in R
  PROVE  \E i \in 1 .. n : \A j \in 1 .. n : <<i, j>> \in R
<1> DEFINE S == {m \in 0 .. n : m # 0 => \E i \in 1 .. m : \A j \in 1 .. m : <<i, j>> \in R}
<1>1. 0 \in S
  OBVIOUS
<1>2. ASSUME NEW m \in 1 .. n, m - 1 \in S PROVE m \in S
  <2>1. m \in 1 .. n /\ m \in 0 .. n /\ <<m, m>> \in R
    OBVIOUS
  <2>2. CASE m = 1
    <3>1. m \in 1 .. m /\ \A j \in 1 .. m : j = m
      BY <2>2
    <3>2. \A j \in 1 .. m : <<m, j>> \in R
      BY <2>1, <3>1
    <3> QED
      BY <2>1, <3>1, <3>2
  <2>3. CASE m # 1
    <3>1. PICK i \in 1 .. m - 1 : \A j \in 1 .. m - 1 : <<i, j>> \in R
      BY <1>2, <2>3
    <3>2. \A j \in 1 .. m : j \in 1 .. n /\ (j = m \/ j \in 1 .. m - 1)
      OBVIOUS
    <3>3. i \in 1 .. m /\ i \in 1 .. n
      OBVIOUS
    <3>4. CASE <<i, m>> \in R
      <4>1. \A j \in 1 .. m : <<i, j>> \in R
        BY <3>1, <3>2, <3>4
      <4> QED
        BY <2>1, <3>3, <4>1
    <3>5. CASE <<m, i>> \in R
      <4>1. \A j \in 1 .. m : <<m, j>> \in R
        <5> TAKE j \in 1 .. m
        <5>1. CASE j = m
          BY <2>1, <5>1
        <5>2. CASE j \in 1 .. m - 1
          <6>1. <<i, j>> \in R /\ j \in 1 .. n
            BY <3>1, <3>2, <5>2
          <6> QED
            BY <2>1, <3>3, <3>5, <6>1
        <5> QED
          BY <3>2, <5>1, <5>2
      <4>2. m \in 1 .. m
        OBVIOUS
      <4> QED
        BY <2>1, <4>1, <4>2
    <3> QED
      BY <2>1, <3>3, <3>4, <3>5
  <2> QED
    BY <2>2, <2>3
<1>3. 0 .. n \subseteq S
  <2> HIDE DEF S
  <2> QED
    BY <1>1, <1>2, BoundedInduction
<1>4. n \in S
  <2>1. n \in 0 .. n
    OBVIOUS
  <2> HIDE DEF S
  <2> QED
    BY <1>3, <2>1
<1> QED
  BY <1>4

LEMMA SelectedIn ==
  ASSUME NEW es \in Seq(EntrySet), es # <<>>, NEW b \in BoxSet,
         \A i \in DOMAIN es : es[i].ref \in Nat
  PROVE  RT!Selected(es, b) \in DOMAIN es
<1> DEFINE n == Len(es)
           g(i) == RT!Enlargement(es[i].mbr, b)
           a(i) == RT!Area(es[i].mbr)
           c(i) == es[i].ref
           before(i, j) == \/ g(i) < g(j)
                           \/ g(i) = g(j) /\ a(i) < a(j)
                           \/ g(i) = g(j) /\ a(i) = a(j) /\ c(i) <= c(j)
           R == {ij \in (1 .. n) \X (1 .. n) : before(ij[1], ij[2])}
<1>1. n \in Nat /\ n # 0 /\ DOMAIN es = 1 .. n
  BY EmptySeq
<1>2. \A i \in 1 .. n : g(i) \in Int /\ a(i) \in Int /\ c(i) \in Int
  <2> TAKE i \in 1 .. n
  <2>1. es[i].mbr \in BoxSet
    BY <1>1, EntryTypes
  <2>2. g(i) \in Int
    BY <2>1, BoxTypes
  <2>3. a(i) \in Int
    BY <2>1, BoxTypes
  <2>4. c(i) \in Int
    BY <1>1
  <2> QED
    BY <2>2, <2>3, <2>4
<1>3. RT!Selected(es, b) = CHOOSE i \in DOMAIN es : \A j \in DOMAIN es : before(i, j)
  BY DEF RT!Selected
<1> HIDE DEF n, g, a, c
<1>4. \A i, j \in 1 .. n : <<i, j>> \in R <=> before(i, j)
  OBVIOUS
<1>5. \A i, j \in 1 .. n : before(i, j) \/ before(j, i)
  BY <1>2
<1>6. \A i, j, k \in 1 .. n : before(i, j) /\ before(j, k) => before(i, k)
  BY <1>2
<1> HIDE DEF before, R
<1>7. \E i \in 1 .. n : \A j \in 1 .. n : <<i, j>> \in R
  <2>1. /\ \A i, j \in 1 .. n : <<i, j>> \in R \/ <<j, i>> \in R
        /\ \A i, j, k \in 1 .. n : <<i, j>> \in R /\ <<j, k>> \in R => <<i, k>> \in R
    BY <1>4, <1>5, <1>6
  <2> QED
    BY <1>1, <2>1, LeastUnder
<1>8. \E i \in 1 .. n : \A j \in 1 .. n : before(i, j)
  BY <1>4, <1>7
<1> QED
  BY <1>1, <1>3, <1>8, Zenon

(* What Placed leaves: page p, and a new one if the entries are too many.   *)
Siblings(qs, split, W) ==
  \/ W = {} /\ split = <<>>
  \/ \E s \in Nat : W = {s} /\ split = <<RT!Entry(RT!Mbr(qs[s].entries), s)>>

PlacedWell(ps, p, es, g, W) ==
  /\ Rewritten(ps, g.pages, p, W)
  /\ g.pages[p].entries # <<>> /\ g.mbr = RT!Mbr(g.pages[p].entries)
  /\ UNION {Items(g.pages[q].entries) : q \in {p} \union W} = Items(es)
  /\ Siblings(g.pages, g.split, W)

LEMMA GrownIs ==
  ASSUME NEW qs, NEW m, NEW s
  PROVE  LET g == RT!Grown(qs, m, s) IN g.pages = qs /\ g.mbr = m /\ g.split = s
BY DEF RT!Grown

LEMMA EntriesReplaced ==
  ASSUME NEW ps \in Seq(NodeSet), NEW p \in DOMAIN ps, NEW es \in Seq(EntrySet)
  PROVE  LET qs == [ps EXCEPT ![p].entries = es]
         IN /\ qs \in Seq(NodeSet) /\ DOMAIN qs = DOMAIN ps /\ Len(qs) = Len(ps)
            /\ \A q \in DOMAIN ps \ {p} : qs[q] = ps[q]
            /\ qs[p].leaf = ps[p].leaf /\ qs[p].entries = es
<1> DEFINE x == [ps[p] EXCEPT !.entries = es]
           qs == [ps EXCEPT ![p] = x]
<1>1. ps[p] \in NodeSet
  BY PageTypes
<1>2. x \in NodeSet /\ x.leaf = ps[p].leaf /\ x.entries = es
  BY <1>1 DEF NodeSet
<1> HIDE DEF x
<1>3. /\ qs \in Seq(NodeSet) /\ Len(qs) = Len(ps) /\ DOMAIN qs = DOMAIN ps
      /\ qs[p] = x /\ \A q \in DOMAIN ps \ {p} : qs[q] = ps[q]
  BY <1>2, ReplacedInSeq
<1>4. [ps EXCEPT ![p].entries = es] = qs
  BY DEF x
<1> HIDE DEF qs
<1> QED
  BY <1>2, <1>3, <1>4

LEMMA PlacedWhole ==
  ASSUME NEW ps \in Seq(NodeSet), NEW p \in DOMAIN ps, NEW es, EntryList(es), es # <<>>, Len(es) <= Capacity
  PROVE  PlacedWell(ps, p, es, RT!Placed(ps, p, es), {})
<1> DEFINE g == RT!Placed(ps, p, es)
           qs == [ps EXCEPT ![p].entries = es]
<1>1. g = RT!Grown(qs, RT!Mbr(es), <<>>)
  BY Zenon DEF RT!Placed
<1>2. g.pages = qs /\ g.mbr = RT!Mbr(es) /\ g.split = <<>>
  BY <1>1, GrownIs
<1>3. es \in Seq(EntrySet) /\ \A i, j \in DOMAIN es : es[i].ref = es[j].ref => i = j
  BY DEF EntryList, Single
<1>4. /\ qs \in Seq(NodeSet) /\ DOMAIN qs = DOMAIN ps
      /\ \A q \in DOMAIN ps \ {p} : qs[q] = ps[q]
      /\ qs[p].leaf = ps[p].leaf /\ qs[p].entries = es
  BY <1>3, EntriesReplaced
<1> HIDE DEF g, qs
<1>5. Rewritten(ps, qs, p, {})
  BY <1>3, <1>4 DEF Rewritten
<1>6. UNION {Items(qs[q].entries) : q \in {p} \union {}} = Items(es)
  BY <1>4
<1>7. PlacedWell(ps, p, es, g, {})
  BY <1>2, <1>4, <1>5, <1>6 DEF PlacedWell, Siblings
<1> QED
  BY <1>7 DEF g

LEMMA PlacedSplit ==
  ASSUME NEW ps \in Seq(NodeSet), NEW p \in DOMAIN ps, NEW es, EntryList(es), Len(es) = Capacity + 1
  PROVE  PlacedWell(ps, p, es, RT!Placed(ps, p, es), {Len(ps) + 1})
<1> DEFINE g == RT!Placed(ps, p, es)
           s == Len(ps) + 1
           seeds == RT!Seeds(es)
<1>1. Capacity \in Nat /\ Capacity >= 2 /\ es \in Seq(EntrySet)
  BY PointsAssumption DEF EntryList
<1>2. Len(es) >= 2 /\ ~ (Len(es) <= Capacity)
  BY <1>1
<1>3. PICK l, r : RT!SeededSplit(es, seeds) = <<l, r>> /\ Parted(l, r, <<>>, Items(es), Len(es))
  <2>1. seeds[1] \in DOMAIN es /\ seeds[2] \in DOMAIN es /\ seeds[1] # seeds[2]
    BY <1>1, <1>2, SeedsAre
  <2> HIDE DEF seeds
  <2> QED
    BY <2>1, SplitShares
<1> DEFINE right == [ps[p] EXCEPT !.entries = r]
           half == [ps EXCEPT ![p].entries = l]
           qs == Append(half, right)
<1>4. g = RT!Grown(qs, RT!Mbr(l), <<RT!Entry(RT!Mbr(r), s)>>)
  <2>1. RT!LinearSplit(es) = <<l, r>>
    BY <1>3 DEF RT!LinearSplit
  <2> DEFINE h == RT!LinearSplit(es)
  <2>2. g = RT!Grown(Append([ps EXCEPT ![p].entries = h[1]], [ps[p] EXCEPT !.entries = h[2]]), RT!Mbr(h[1]),
                     <<RT!Entry(RT!Mbr(h[2]), Len(ps) + 1)>>)
    BY <1>2, Zenon DEF RT!Placed, RT!Halved
  <2>3. h[1] = l /\ h[2] = r
    BY <2>1
  <2> HIDE DEF h
  <2> QED
    BY <2>2, <2>3
<1>5. g.pages = qs /\ g.mbr = RT!Mbr(l) /\ g.split = <<RT!Entry(RT!Mbr(r), s)>>
  <2> DEFINE new == <<RT!Entry(RT!Mbr(r), s)>>  m == RT!Mbr(l)
  <2>1. g = RT!Grown(qs, m, new)
    BY <1>4
  <2> HIDE DEF g, qs, new, m
  <2>2. g.pages = qs /\ g.mbr = m /\ g.split = new
    BY <2>1, GrownIs
  <2> QED
    BY <2>2 DEF m, new
<1>6. /\ EntryList(l) /\ EntryList(r) /\ l # <<>> /\ r # <<>>
      /\ Names(l) \intersect Names(r) = {}
      /\ Items(es) = Items(l) \union Items(r)
      /\ Len(es) = Len(l) + Len(r)
  <2>1. Len(l) \in Nat /\ Len(r) \in Nat
    BY <1>3, ListTypes DEF Parted
  <2> QED
    BY <1>3, <2>1, NothingLeft DEF Parted
<1>7. Len(l) <= Capacity /\ Len(r) <= Capacity
  <2>1. Len(l) \in Nat /\ Len(r) \in Nat /\ Len(l) # 0 /\ Len(r) # 0
    BY <1>6, ListTypes
  <2> QED
    BY <1>1, <1>6, <2>1
<1>8. /\ l \in Seq(EntrySet) /\ r \in Seq(EntrySet)
      /\ \A i \in DOMAIN l, j \in DOMAIN r : l[i].ref # r[j].ref
      /\ \A i, j \in DOMAIN l : l[i].ref = l[j].ref => i = j
      /\ \A i, j \in DOMAIN r : r[i].ref = r[j].ref => i = j
  <2>1. /\ \A i \in DOMAIN l : l[i].ref \in Names(l)
        /\ \A i \in DOMAIN r : r[i].ref \in Names(r)
    BY DEF Names
  <2> QED
    BY <1>6, <2>1 DEF EntryList, Single
<1>9. /\ half \in Seq(NodeSet) /\ DOMAIN half = DOMAIN ps /\ Len(half) = Len(ps)
      /\ \A q \in DOMAIN ps \ {p} : half[q] = ps[q]
      /\ half[p].leaf = ps[p].leaf /\ half[p].entries = l
  BY <1>8, EntriesReplaced
<1>10. right \in NodeSet /\ right.leaf = ps[p].leaf /\ right.entries = r
  <2>1. ps[p] \in NodeSet
    BY PageTypes
  <2> QED
    BY <1>8, <2>1 DEF NodeSet
<1> HIDE DEF g, half, right
<1>11. Len(ps) \in Nat /\ DOMAIN ps = 1 .. Len(ps) /\ s \in Nat /\ s \notin DOMAIN ps
  OBVIOUS
<1>12. /\ qs \in Seq(NodeSet) /\ DOMAIN qs = DOMAIN ps \union {s} /\ qs[s] = right
       /\ \A q \in DOMAIN ps : qs[q] = half[q]
  <2>1. Len(half) \in Nat /\ DOMAIN half = 1 .. Len(half)
    BY <1>9
  <2>2. /\ qs \in Seq(NodeSet) /\ Len(qs) = Len(half) + 1 /\ qs[Len(half) + 1] = right
        /\ \A q \in 1 .. Len(half) : qs[q] = half[q]
    BY <1>9, <1>10
  <2>3. DOMAIN qs = 1 .. Len(half) + 1
    BY <2>2
  <2> HIDE DEF qs
  <2> QED
    BY <1>9, <1>11, <2>1, <2>2, <2>3
<1> HIDE DEF qs, s
<1>13. /\ \A q \in DOMAIN ps \ {p} : qs[q] = ps[q]
       /\ qs[p].leaf = ps[p].leaf /\ qs[p].entries = l
       /\ qs[s].leaf = ps[p].leaf /\ qs[s].entries = r /\ p # s
  BY <1>9, <1>10, <1>11, <1>12
<1>14. Rewritten(ps, qs, p, {s})
  <2>1. \A q \in {p} \union {s} : q = p \/ q = s
    OBVIOUS
  <2>2. \A q, t \in {p} \union {s} :
          \A i \in DOMAIN qs[q].entries, j \in DOMAIN qs[t].entries :
            qs[q].entries[i].ref = qs[t].entries[j].ref => q = t /\ i = j
    BY <1>8, <1>13, <2>1
  <2>3. \A q \in {p} \union {s} : qs[q].leaf = ps[p].leaf /\ Len(qs[q].entries) <= Capacity
    BY <1>7, <1>13, <2>1
  <2>4. \A q \in {s} : qs[q].entries # <<>>
    BY <1>6, <1>13
  <2> QED
    BY <1>11, <1>12, <1>13, <2>2, <2>3, <2>4 DEF Rewritten
<1>15. UNION {Items(qs[q].entries) : q \in {p} \union {s}} = Items(es)
  BY <1>6, <1>13
<1>16. Siblings(qs, g.split, {s})
  BY <1>5, <1>11, <1>13 DEF Siblings
<1>17. PlacedWell(ps, p, es, g, {s})
  BY <1>5, <1>6, <1>13, <1>14, <1>15, <1>16 DEF PlacedWell
<1> QED
  BY <1>17 DEF g, s

LEMMA PlacedIs ==
  ASSUME NEW ps \in Seq(NodeSet), NEW p \in DOMAIN ps, NEW es, EntryList(es), es # <<>>,
         Len(es) <= Capacity + 1
  PROVE  \E W : PlacedWell(ps, p, es, RT!Placed(ps, p, es), W)
<1>1. Len(es) \in Nat /\ Capacity \in Nat
  BY ListTypes, PointsAssumption
<1>2. Len(es) <= Capacity \/ Len(es) = Capacity + 1
  BY <1>1
<1> QED
  BY <1>2, PlacedWhole, PlacedSplit

LEMMA WrittenIs ==
  ASSUME NEW ps, NEW p, NEW es, NEW g, NEW W, PlacedWell(ps, p, es, g, W)
  PROVE  /\ Written(g.pages, p, W) = Names(es)
         /\ \A q \in {p} \union W : \A i \in DOMAIN g.pages[q].entries : g.pages[q].entries[i] \in Items(es)
<1>1. UNION {Items(g.pages[q].entries) : q \in {p} \union W} = Items(es)
  BY DEF PlacedWell
<1>2. \A q \in {p} \union W : \A i \in DOMAIN g.pages[q].entries : g.pages[q].entries[i] \in Items(es)
  <2> TAKE q \in {p} \union W
  <2>1. Items(g.pages[q].entries) \subseteq Items(es)
    BY <1>1
  <2>2. \A i \in DOMAIN g.pages[q].entries : g.pages[q].entries[i] \in Items(g.pages[q].entries)
    BY DEF Items
  <2> QED
    BY <2>1, <2>2
<1>3. \A q : Refs(g.pages, q) = {e.ref : e \in Items(g.pages[q].entries)}
  BY DEF Refs, Items
<1>4. Names(es) = {e.ref : e \in Items(es)}
  BY DEF Names, Items
<1> QED
  BY <1>1, <1>2, <1>3, <1>4 DEF Written

-----------------------------------------------------------------------------
(* What a step below page p leaves as it was.                               *)
Keeps(ps, qs, A, B, rank, rk, p) ==
  /\ DOMAIN ps \subseteq DOMAIN qs /\ \A q \in DOMAIN ps : rk[q] = rank[q]
  /\ qs[p].leaf = ps[p].leaf
  /\ \A q \in A : rank[q] >= rank[p] => q \in B /\ (q # p => qs[q] = ps[q])

(* What an insert of row r below page p comes to.                           *)
IntoWith(ps, A, rank, N, top, p, g, r, B, rk, S) ==
  /\ Forest(g.pages, B, {top} \union S, rk, N, {p})
  /\ Keeps(ps, g.pages, A, B, rank, rk, p)
  /\ RowsUnder(g.pages, B) = RowsUnder(ps, A) \union {r}
  /\ g.pages[p].entries # <<>> /\ g.mbr = RT!Mbr(g.pages[p].entries)
  /\ Siblings(g.pages, g.split, S)
  /\ \A s \in S : s \notin DOMAIN ps /\ g.pages[s].entries # <<>> /\ rk[s] = rank[p]

Into(ps, A, rank, N, top, p, g, r) ==
  \E B, rk, S : IntoWith(ps, A, rank, N, top, p, g, r, B, rk, S)

LEMMA ForestTypes ==
  ASSUME NEW ps, NEW A, NEW T, NEW rank, NEW N, NEW L, Forest(ps, A, T, rank, N, L), NEW p \in A
  PROVE  /\ ps \in Seq(NodeSet) /\ p \in DOMAIN ps /\ N \in Nat /\ rank \in [DOMAIN ps -> 0 .. N]
         /\ A \subseteq DOMAIN ps /\ T \subseteq A /\ rank[p] \in Nat /\ rank[p] <= N
         /\ EntryList(ps[p].entries) /\ ps[p].leaf \in BOOLEAN /\ Len(ps[p].entries) <= Capacity
         /\ Names(ps[p].entries) = Refs(ps, p)
         /\ \A k \in Kids(ps, p) : k \in A /\ rank[k] \in Nat /\ rank[k] + 1 = rank[p] /\ k # p /\ k \notin T
<1>1. /\ ps \in Seq(NodeSet) /\ N \in Nat /\ rank \in [DOMAIN ps -> 0 .. N] /\ A \subseteq DOMAIN ps /\ T \subseteq A
  BY DEF Forest, Ranked, Hung
<1>2. p \in DOMAIN ps /\ rank[p] \in Nat /\ rank[p] <= N
  BY <1>1
<1>3. ps[p].entries \in Seq(EntrySet) /\ ps[p].leaf \in BOOLEAN
  BY <1>1, <1>2, PageTypes
<1>4. Single(ps[p].entries)
  BY DEF Forest, Apart, Single
<1>5. Len(ps[p].entries) <= Capacity
  BY DEF Forest, Filled
<1>6. \A k \in Kids(ps, p) : k \in A /\ rank[k] \in Nat /\ rank[k] + 1 = rank[p] /\ k # p /\ k \notin T
  <2> TAKE k \in Kids(ps, p)
  <2>1. k \in A /\ rank[k] + 1 = rank[p] /\ k \notin T
    BY DEF Forest, Levels, Hung
  <2>2. rank[k] \in Nat
    BY <1>1, <2>1
  <2> QED
    BY <1>2, <2>1, <2>2
<1> QED
  BY <1>1, <1>2, <1>3, <1>4, <1>5, <1>6 DEF EntryList, Names, Refs

LEMMA RefsApart ==
  ASSUME NEW ps, NEW A, Apart(ps, A), NEW p \in A, NEW q \in A, p # q, ps[p].leaf = ps[q].leaf
  PROVE  Refs(ps, p) \intersect Refs(ps, q) = {}
<1> SUFFICES ASSUME NEW x, x \in Refs(ps, p), x \in Refs(ps, q) PROVE FALSE
  OBVIOUS
<1>1. PICK i \in DOMAIN ps[p].entries, j \in DOMAIN ps[q].entries :
        ps[p].entries[i].ref = x /\ ps[q].entries[j].ref = x
  BY DEF Refs
<1> QED
  BY <1>1 DEF Apart

LEMMA LeafInto ==
  ASSUME NEW ps, NEW A, NEW top, NEW rank, NEW N, Forest(ps, A, {top}, rank, N, {}),
         NEW p \in A, ps[p].leaf, NEW e \in EntrySet, PointEntry(e), e.ref \notin RowsUnder(ps, A)
  PROVE  Into(ps, A, rank, N, top, p, RT!Placed(ps, p, Append(ps[p].entries, e)), e.ref)
<1> DEFINE es == ps[p].entries
           new == Append(es, e)
           g == RT!Placed(ps, p, new)
<1>1. /\ ps \in Seq(NodeSet) /\ p \in DOMAIN ps /\ A \subseteq DOMAIN ps /\ EntryList(es) /\ Len(es) <= Capacity
      /\ Names(es) = Refs(ps, p) /\ {top} \subseteq A
      /\ rank \in [DOMAIN ps -> 0 .. N]
  BY ForestTypes
<1>2. Refs(ps, p) \subseteq RowsUnder(ps, A)
  BY DEF RowsUnder
<1>3. /\ EntryList(new) /\ Items(new) = Items(es) \union {e} /\ Names(new) = Names(es) \union {e.ref}
      /\ Len(new) = Len(es) + 1 /\ new # <<>>
  <2> DEFINE one == <<e>>
  <2>1. EntryList(one) /\ Items(one) = {e} /\ Names(one) = {e.ref} /\ Len(one) = 1
    BY SingletonIs
  <2>2. new = es \o one
    BY <1>1, AppendedIsJoined DEF EntryList
  <2> HIDE DEF one, es
  <2>3. Names(es) \intersect Names(one) = {}
    BY <1>1, <1>2, <2>1
  <2> HIDE DEF new
  <2>4. /\ EntryList(new) /\ Items(new) = Items(es) \union {e} /\ Names(new) = Names(es) \union {e.ref}
        /\ Len(new) = Len(es) + 1
    <3>1. /\ EntryList(es \o one) /\ Items(es \o one) = Items(es) \union Items(one)
          /\ Names(es \o one) = Names(es) \union Names(one) /\ Len(es \o one) = Len(es) + Len(one)
      BY <1>1, <2>1, <2>3, JoinedIs
    <3> QED
      BY <2>1, <2>2, <3>1
  <2>5. new # <<>>
    BY <1>1, <2>4, ListTypes
  <2> QED
    BY <2>4, <2>5
<1>4. Len(new) <= Capacity + 1
  BY <1>1, <1>3, ListTypes, PointsAssumption
<1> HIDE DEF new
<1>5. PICK W : PlacedWell(ps, p, new, g, W)
  BY <1>1, <1>3, <1>4, PlacedIs
<1> HIDE DEF g
<1> DEFINE qs == g.pages
<1>6. /\ Rewritten(ps, qs, p, W) /\ qs[p].entries # <<>> /\ g.mbr = RT!Mbr(qs[p].entries)
      /\ Siblings(qs, g.split, W)
  BY <1>5 DEF PlacedWell
<1>7. /\ Written(qs, p, W) = Names(new)
      /\ \A q \in {p} \union W : \A i \in DOMAIN qs[q].entries : qs[q].entries[i] \in Items(new)
  BY <1>5, WrittenIs
<1> HIDE DEF qs
<1>8. LeafWritten(ps, A, qs, p, W, {})
  <2>1. \A i \in DOMAIN es : PointEntry(es[i])
    BY DEF Forest, Pointed
  <2>2. \A x \in Items(new) : PointEntry(x)
    BY <1>3, <2>1 DEF Items
  <2>3. ASSUME NEW q \in A \ {p}, ps[q].leaf PROVE Refs(ps, q) \intersect Written(qs, p, W) = {}
    <3>1. Refs(ps, q) \subseteq RowsUnder(ps, A)
      BY <2>3 DEF RowsUnder
    <3>2. Refs(ps, q) \intersect Refs(ps, p) = {}
      <4>1. ps[q].leaf = ps[p].leaf /\ Apart(ps, A)
        BY <1>1, <2>3, PageTypes DEF Forest
      <4> QED
        BY <4>1, RefsApart
    <3> QED
      BY <1>1, <1>3, <1>7, <3>1, <3>2
  <2> QED
    BY <1>7, <2>2, <2>3 DEF LeafWritten
<1> DEFINE B == (A \ LeftOut(ps, qs, p, W)) \union W
           rk == NewRank(qs, rank, p, W)
<1>9. LeftOut(ps, qs, p, W) = {}
  BY DEF LeftOut, Kids
<1>10. NewTops({top}, qs, p, W, ~ ps[p].leaf) = {top} \union W
  BY DEF NewTops
<1>11. Forest(qs, B, {top} \union W, rk, N, {p})
  <2>1. Forest(qs, B, NewTops({top}, qs, p, W, ~ ps[p].leaf), rk, N, {p})
    BY <1>6, <1>8, RewrittenKeeps
  <2> HIDE DEF B, rk
  <2> QED
    BY <1>10, <2>1
<1>12. RowsUnder(qs, B) = RowsUnder(ps, A) \union {e.ref}
  <2>1. RowsNow(ps, A, qs, B, p, W)
    BY <1>6, <1>8, RowsWritten
  <2> HIDE DEF B, es
  <2> QED
    BY <1>1, <1>2, <1>3, <1>7, <2>1 DEF RowsNow
<1>13. /\ DOMAIN qs = DOMAIN ps \union W /\ W \intersect DOMAIN ps = {}
       /\ \A q \in DOMAIN ps \ {p} : qs[q] = ps[q]
       /\ qs[p].leaf = ps[p].leaf /\ \A q \in W : qs[q].entries # <<>>
  BY <1>6 DEF Rewritten
<1>14. /\ \A q \in DOMAIN ps : rk[q] = rank[q]
       /\ \A q \in W : rk[q] = rank[p]
  BY <1>13 DEF NewRank
<1> HIDE DEF rk, es
<1>15. Keeps(ps, qs, A, B, rank, rk, p)
  BY <1>1, <1>9, <1>13, <1>14 DEF Keeps
<1> HIDE DEF B
<1>16. IntoWith(ps, A, rank, N, top, p, g, e.ref, B, rk, W)
  BY <1>6, <1>11, <1>12, <1>13, <1>14, <1>15 DEF IntoWith, qs
<1>17. Into(ps, A, rank, N, top, p, g, e.ref)
  BY <1>16 DEF Into
<1> QED
  BY <1>17 DEF g, new, es

LEMMA WithBoxIs ==
  ASSUME NEW es, EntryList(es), NEW i \in DOMAIN es, NEW m \in BoxSet
  PROVE  LET x == RT!WithBox(es, i, m)
         IN /\ EntryList(x) /\ Names(x) = Names(es) /\ Len(x) = Len(es)
            /\ DOMAIN x = DOMAIN es
            /\ x[i].mbr = m /\ x[i].ref = es[i].ref
            /\ \A j \in DOMAIN es \ {i} : x[j] = es[j]
<1> DEFINE e == [es[i] EXCEPT !.mbr = m]
           x == [es EXCEPT ![i] = e]
<1>1. es \in Seq(EntrySet) /\ es[i] \in EntrySet
  BY ListTypes
<1>2. e \in EntrySet /\ e.mbr = m /\ e.ref = es[i].ref
  BY <1>1 DEF EntrySet
<1>3. RT!WithBox(es, i, m) = x
  BY DEF RT!WithBox
<1> HIDE DEF e
<1>4. /\ x \in Seq(EntrySet) /\ Len(x) = Len(es) /\ DOMAIN x = DOMAIN es /\ x[i] = e
      /\ \A j \in DOMAIN es \ {i} : x[j] = es[j]
  BY <1>1, <1>2, ReplacedInSeq
<1> HIDE DEF x
<1>5. \A j \in DOMAIN es : x[j].ref = es[j].ref
  BY <1>2, <1>4
<1>6. Names(x) = Names(es)
  BY <1>4, <1>5 DEF Names
<1>7. Single(x)
  BY <1>4, <1>5 DEF EntryList, Single
<1> QED
  BY <1>2, <1>3, <1>4, <1>6, <1>7 DEF EntryList

LEMMA SplitIs ==
  ASSUME NEW qs \in Seq(NodeSet), NEW split, NEW S, Siblings(qs, split, S),
         \A s \in S : s \in DOMAIN qs /\ qs[s].entries # <<>>
  PROVE  /\ EntryList(split) /\ Names(split) = S /\ Len(split) <= 1
         /\ \A e \in Items(split) : TightEntry(qs, e)
<1>1. CASE S = {} /\ split = <<>>
  BY <1>1, NothingLeft
<1>2. ASSUME NEW s \in Nat, S = {s}, split = <<RT!Entry(RT!Mbr(qs[s].entries), s)>>
      PROVE  /\ EntryList(split) /\ Names(split) = S /\ Len(split) <= 1
             /\ \A e \in Items(split) : TightEntry(qs, e)
  <2> DEFINE m == RT!Mbr(qs[s].entries)
             e == RT!Entry(m, s)
  <2>1. m \in BoxSet
    <3>1. qs[s].entries \in Seq(EntrySet) /\ qs[s].entries # <<>>
      BY <1>2, PageTypes
    <3> QED
      BY <3>1, MbrType
  <2>2. e.mbr = m /\ e.ref = s
    BY DEF RT!Entry
  <2> HIDE DEF m
  <2>3. e \in EntrySet
    BY <2>1 DEF RT!Entry, EntrySet
  <2> HIDE DEF e
  <2>4. EntryList(<<e>>) /\ Items(<<e>>) = {e} /\ Names(<<e>>) = {s} /\ Len(<<e>>) = 1
    BY <2>2, <2>3, SingletonIs
  <2>5. split = <<e>>
    BY <1>2 DEF e, m
  <2>6. TightEntry(qs, e)
    BY <2>2 DEF TightEntry, m
  <2> QED
    BY <1>2, <2>4, <2>5, <2>6
<1> QED
  BY <1>1, <1>2 DEF Siblings

LEMMA InnerInto ==
  ASSUME NEW ps, NEW A, NEW top, NEW rank, NEW N, Forest(ps, A, {top}, rank, N, {}),
         NEW p \in A, ~ ps[p].leaf, NEW i \in DOMAIN ps[p].entries,
         NEW h, NEW r, Into(ps, A, rank, N, top, ps[p].entries[i].ref, h, r)
  PROVE  Into(ps, A, rank, N, top, p, RT!Linked(p, i, h), r)
<1> DEFINE es == ps[p].entries
           k == es[i].ref
           os == h.pages
           split == h.split
<1>1. PICK B, rk, S : IntoWith(ps, A, rank, N, top, k, h, r, B, rk, S)
  BY DEF Into
<1>2. /\ Forest(os, B, {top} \union S, rk, N, {k})
      /\ Keeps(ps, os, A, B, rank, rk, k)
      /\ RowsUnder(os, B) = RowsUnder(ps, A) \union {r}
      /\ os[k].entries # <<>> /\ h.mbr = RT!Mbr(os[k].entries)
      /\ Siblings(os, split, S)
      /\ \A s \in S : s \notin DOMAIN ps /\ os[s].entries # <<>> /\ rk[s] = rank[k]
  BY <1>1 DEF IntoWith
<1>3. /\ ps \in Seq(NodeSet) /\ p \in DOMAIN ps /\ A \subseteq DOMAIN ps /\ EntryList(es) /\ Len(es) <= Capacity
      /\ Names(es) = Refs(ps, p) /\ {top} \subseteq A /\ rank[p] \in Nat
      /\ \A x \in Kids(ps, p) : x \in A /\ rank[x] \in Nat /\ rank[x] + 1 = rank[p] /\ x # p /\ x \notin {top}
  BY ForestTypes
<1>4. /\ Refs(ps, p) = Kids(ps, p) /\ k \in Kids(ps, p)
      /\ \A j \in DOMAIN es : es[j].ref \in Kids(ps, p) /\ (es[j].ref = k => j = i)
  <2>1. Refs(ps, p) = Kids(ps, p) /\ \A j \in DOMAIN es : es[j].ref \in Refs(ps, p)
    BY DEF Refs, Kids
  <2> QED
    BY <1>3, <2>1 DEF EntryList, Single
<1> HIDE DEF es, k, os, split
<1>5. /\ DOMAIN ps \subseteq DOMAIN os /\ \A q \in DOMAIN ps : rk[q] = rank[q]
      /\ os[k].leaf = ps[k].leaf
      /\ \A q \in A : rank[q] >= rank[k] => q \in B /\ (q # k => os[q] = ps[q])
  BY <1>2 DEF Keeps
<1>6. /\ p \in B /\ os[p] = ps[p] /\ k # p /\ k \in A /\ rank[k] \in Nat /\ rank[k] + 1 = rank[p]
      /\ \A x \in Kids(ps, p) : x \in B /\ (x # k => os[x] = ps[x])
  <2>1. k # p /\ k \in A /\ rank[k] \in Nat /\ rank[k] + 1 = rank[p]
    BY <1>3, <1>4
  <2>2. rank[p] >= rank[k] /\ \A x \in Kids(ps, p) : rank[x] >= rank[k]
    BY <1>3, <2>1
  <2> QED
    BY <1>3, <1>5, <2>1, <2>2
<1>7. /\ os \in Seq(NodeSet) /\ p \in DOMAIN os /\ B \subseteq DOMAIN os /\ {top} \union S \subseteq B
      /\ k \in DOMAIN os /\ os[k].entries \in Seq(EntrySet)
  <2>1. /\ os \in Seq(NodeSet) /\ p \in DOMAIN os /\ B \subseteq DOMAIN os /\ {top} \union S \subseteq B
    BY <1>2, <1>6, ForestTypes
  <2>2. k \in DOMAIN os
    BY <1>4, <1>6, <2>1
  <2> QED
    BY <2>1, <2>2, PageTypes
<1> DEFINE boxed == RT!WithBox(es, i, h.mbr)
           new == boxed \o split
           g == RT!Placed(os, p, new)
<1>8. RT!Linked(p, i, h) = g
  BY <1>6, Zenon DEF RT!Linked, es, os, split
<1>9. /\ EntryList(boxed) /\ Names(boxed) = Names(es) /\ Len(boxed) = Len(es)
      /\ DOMAIN boxed = DOMAIN es /\ boxed[i].mbr = h.mbr /\ boxed[i].ref = k
      /\ \A j \in DOMAIN es \ {i} : boxed[j] = es[j]
  <2>1. h.mbr \in BoxSet
    BY <1>2, <1>7, MbrType
  <2>2. i \in DOMAIN es
    BY DEF es
  <2> HIDE DEF boxed
  <2> QED
    BY <1>3, <2>1, <2>2, WithBoxIs DEF boxed, k
<1>10. /\ EntryList(split) /\ Names(split) = S /\ Len(split) <= 1
       /\ \A e \in Items(split) : TightEntry(os, e)
  BY <1>2, <1>7, SplitIs
<1> HIDE DEF boxed
<1>11. S \intersect DOMAIN ps = {} /\ Kids(ps, p) \subseteq DOMAIN ps /\ top \in DOMAIN ps
  BY <1>2, <1>3
<1>12. /\ EntryList(new) /\ Items(new) = Items(boxed) \union Items(split) /\ Names(new) = Kids(ps, p) \union S
       /\ Len(new) = Len(es) + Len(split)
  <2>1. Names(boxed) \intersect Names(split) = {}
    BY <1>3, <1>4, <1>9, <1>10, <1>11
  <2> HIDE DEF new
  <2> QED
    BY <1>3, <1>4, <1>9, <1>10, <2>1, JoinedIs DEF new
<1>13. Len(new) <= Capacity + 1 /\ new # <<>>
  <2>1. Len(es) \in Nat /\ Len(split) \in Nat /\ Capacity \in Nat
    BY <1>3, <1>10, ListTypes, PointsAssumption
  <2>2. Len(new) <= Capacity + 1
    BY <1>3, <1>10, <1>12, <2>1
  <2>3. Names(new) # {}
    BY <1>4, <1>12
  <2>4. new # <<>>
    BY <2>3, NothingLeft
  <2> QED
    BY <2>2, <2>4
<1> HIDE DEF new
<1>14. PICK W : PlacedWell(os, p, new, g, W)
  BY <1>7, <1>12, <1>13, PlacedIs
<1> HIDE DEF g
<1> DEFINE qs == g.pages
<1>15. /\ Rewritten(os, qs, p, W) /\ qs[p].entries # <<>> /\ g.mbr = RT!Mbr(qs[p].entries)
       /\ Siblings(qs, g.split, W)
  BY <1>14 DEF PlacedWell
<1>16. /\ Written(qs, p, W) = Kids(ps, p) \union S
       /\ \A q \in {p} \union W : \A j \in DOMAIN qs[q].entries : qs[q].entries[j] \in Items(new)
  BY <1>12, <1>14, WrittenIs
<1> HIDE DEF qs
<1>17. Kids(os, p) = Kids(ps, p) /\ ~ os[p].leaf
  BY <1>6 DEF Kids, Refs
<1>18. \A e \in Items(new) : TightEntry(os, e)
  <2>1. \A j \in DOMAIN es : j # i => TightEntry(os, es[j])
    <3> SUFFICES ASSUME NEW j \in DOMAIN es, j # i PROVE TightEntry(os, es[j])
      OBVIOUS
    <3>1. es = os[p].entries /\ Tight(os, B, {k}) /\ es[j].ref \notin {k}
      BY <1>2, <1>4, <1>6 DEF Forest, es
    <3> QED
      BY <1>6, <1>17, <3>1 DEF Tight
  <2>2. TightEntry(os, boxed[i])
    BY <1>2, <1>9 DEF TightEntry
  <2>3. \A e \in Items(boxed) : TightEntry(os, e)
    BY <1>9, <2>1, <2>2 DEF Items
  <2> QED
    BY <1>10, <1>12, <2>3
<1>19. \A x \in Kids(ps, p) : os[x].entries # <<>>
  <2> SUFFICES ASSUME NEW x \in Kids(ps, p), x # k PROVE os[x].entries # <<>>
    BY <1>2
  <2>1. x \in A /\ x \notin {top} /\ os[x] = ps[x]
    BY <1>3, <1>6
  <2> QED
    BY <2>1 DEF Forest, Filled
<1>20. InnerWritten(os, B, {top} \union S, rk, qs, p, W, {k})
  <2>1. ASSUME NEW x \in Kids(ps, p)
        PROVE  /\ x \in B /\ x # p /\ rk[x] + 1 = rk[p]
               /\ x \in Kids(os, p) \union ({top} \union S) /\ os[x].entries # <<>>
    <3>1. x \in A /\ p \in DOMAIN ps /\ x \in DOMAIN ps
      BY <1>3
    <3> QED
      BY <1>3, <1>5, <1>6, <1>17, <1>19, <3>1
  <2>2. ASSUME NEW x \in S
        PROVE  /\ x \in B /\ x # p /\ rk[x] + 1 = rk[p]
               /\ x \in Kids(os, p) \union ({top} \union S) /\ os[x].entries # <<>>
    <3>1. rk[x] = rank[k] /\ rk[p] = rank[p] /\ x # p
      BY <1>2, <1>3, <1>5, <1>11
    <3> QED
      BY <1>2, <1>6, <1>7, <3>1
  <2>3. Kids(os, p) \ Written(qs, p, W) = {}
    BY <1>16, <1>17
  <2>4. \A q \in {p} \union W : \A j \in DOMAIN qs[q].entries : TightEntry(os, qs[q].entries[j])
    BY <1>16, <1>18
  <2>5. \A x \in Written(qs, p, W) : x \in Kids(ps, p) \/ x \in S
    BY <1>16
  <2> QED
    BY <1>4, <1>17, <2>1, <2>2, <2>3, <2>4, <2>5 DEF InnerWritten
<1> DEFINE C == (B \ LeftOut(os, qs, p, W)) \union W
           rl == NewRank(qs, rk, p, W)
<1>21. LeftOut(os, qs, p, W) = {}
  BY <1>16, <1>17 DEF LeftOut
<1>22. NewTops({top} \union S, qs, p, W, ~ os[p].leaf) = {top} \union W
  <2>1. top \notin Kids(ps, p) /\ top \notin S
    BY <1>3, <1>11
  <2> QED
    BY <1>16, <1>17, <2>1 DEF NewTops
<1>23. Forest(qs, C, {top} \union W, rl, N, {p})
  <2>1. Forest(qs, C, NewTops({top} \union S, qs, p, W, ~ os[p].leaf), rl, N, {p})
    BY <1>2, <1>6, <1>15, <1>20, RewrittenKeeps
  <2> HIDE DEF C, rl
  <2> QED
    BY <1>22, <2>1
<1>24. RowsUnder(qs, C) = RowsUnder(ps, A) \union {r}
  <2>1. RowsNow(os, B, qs, C, p, W)
    BY <1>2, <1>6, <1>15, <1>20, RowsWritten
  <2> HIDE DEF C
  <2> QED
    BY <1>2, <1>17, <2>1 DEF RowsNow
<1>25. /\ DOMAIN qs = DOMAIN os \union W /\ W \intersect DOMAIN os = {}
       /\ \A q \in DOMAIN os \ {p} : qs[q] = os[q]
       /\ qs[p].leaf = os[p].leaf /\ \A q \in W : qs[q].entries # <<>>
  BY <1>15 DEF Rewritten
<1>26. /\ \A q \in DOMAIN os : rl[q] = rk[q]
       /\ \A q \in W : rl[q] = rk[p]
  BY <1>25 DEF NewRank
<1> HIDE DEF rl
<1>27. Keeps(ps, qs, A, C, rank, rl, p)
  <2>1. \A q \in DOMAIN ps : q \in DOMAIN qs /\ rl[q] = rank[q]
    BY <1>5, <1>25, <1>26
  <2>2. ASSUME NEW q \in A, rank[q] >= rank[p] PROVE q \in C /\ (q # p => qs[q] = ps[q])
    <3>1. rank[q] \in Nat
      BY ForestTypes
    <3>2. rank[q] >= rank[k] /\ q # k
      BY <1>3, <1>6, <2>2, <3>1
    <3>3. q \in B /\ os[q] = ps[q] /\ q \in DOMAIN os
      BY <1>5, <1>7, <3>2
    <3> QED
      BY <1>21, <1>25, <3>3
  <2>3. qs[p].leaf = ps[p].leaf
    BY <1>6, <1>25
  <2> QED
    BY <2>1, <2>2, <2>3 DEF Keeps
<1> HIDE DEF C
<1>28. \A s \in W : s \notin DOMAIN ps /\ qs[s].entries # <<>> /\ rl[s] = rank[p]
  BY <1>3, <1>5, <1>25, <1>26
<1>29. IntoWith(ps, A, rank, N, top, p, g, r, C, rl, W)
  BY <1>15, <1>23, <1>24, <1>27, <1>28 DEF IntoWith, qs
<1>30. Into(ps, A, rank, N, top, p, g, r)
  BY <1>29 DEF Into
<1> QED
  BY <1>8, <1>30

(* The pages of a tree are the least set with its top and what they lead to. *)
LEMMA TreeIsLeast ==
  ASSUME NEW ps, NEW A, NEW t, NEW rank, NEW N, NEW L, Forest(ps, A, {t}, rank, N, L)
  PROVE  Spans(ps, t, A)
<1>1. /\ A \subseteq DOMAIN ps /\ t \in A /\ N \in Nat /\ rank \in [DOMAIN ps -> 0 .. N]
      /\ \A p \in A : p = t \/ \E q \in A : p \in Kids(ps, q)
      /\ \A q \in A : \A k \in Kids(ps, q) : k \in A /\ rank[k] + 1 = rank[q]
  BY DEF Forest, Hung, Levels, Ranked
<1>2. Grows(ps, t, A)
  BY <1>1 DEF Grows, Closed
<1>3. ASSUME NEW B, Grows(ps, t, B) PROVE A \subseteq B
  <2> DEFINE C == A \ B
             S == {n \in Nat : \A p \in C : rank[p] # N - n}
  <2>0. \A p \in C : p \in A /\ p \notin B /\ rank[p] \in Nat /\ rank[p] <= N
    BY <1>1
  <2>1. \A p \in C : \E q \in C : rank[q] = rank[p] + 1
    <3> TAKE p \in C
    <3>1. p # t
      BY <1>3 DEF Grows
    <3>2. PICK q \in A : p \in Kids(ps, q)
      BY <1>1, <3>1
    <3>3. q \notin B
      BY <1>3, <3>2 DEF Grows, Closed
    <3> QED
      BY <1>1, <3>2, <3>3
  <2> HIDE DEF C
  <2>2. 0 \in S
    <3>1. \A p \in C : rank[p] # N - 0
      <4> SUFFICES ASSUME NEW p \in C, rank[p] = N - 0 PROVE FALSE
        OBVIOUS
      <4>1. PICK q \in C : rank[q] = rank[p] + 1
        BY <2>1
      <4> QED
        BY <1>1, <2>0, <4>1
    <3> QED
      BY <3>1
  <2>3. ASSUME NEW n \in Nat, n \in S PROVE n + 1 \in S
    <3>1. \A p \in C : rank[p] # N - (n + 1)
      <4> SUFFICES ASSUME NEW p \in C, rank[p] = N - (n + 1) PROVE FALSE
        OBVIOUS
      <4>1. PICK q \in C : rank[q] = rank[p] + 1
        BY <2>1
      <4>2. rank[q] = N - n
        BY <1>1, <4>1
      <4> QED
        BY <2>3, <4>2
    <3> QED
      BY <3>1
  <2>4. Nat \subseteq S
    <3> HIDE DEF S
    <3> QED
      BY <2>2, <2>3, NatSetInduction
  <2>5. ASSUME NEW p \in C PROVE FALSE
    <3>1. N - rank[p] \in Nat /\ rank[p] = N - (N - rank[p])
      BY <1>1, <2>0
    <3> QED
      BY <2>4, <3>1
  <2> QED
    BY <2>5 DEF C
<1> QED
  BY <1>2, <1>3 DEF Spans

LEMMA ReachableIsTree ==
  ASSUME NEW A, NEW rank, NEW N, NEW L, Forest(nodes, A, {root}, rank, N, L)
  PROVE  RT!Reachable = A
<1>1. Spans(nodes, root, A)
  BY TreeIsLeast
<1>2. Spans(nodes, root, RT!Reachable)
  <2>1. N \in Nat /\ Ranked(nodes, rank, N) /\ root \in DOMAIN nodes
    BY DEF Forest, Hung
  <2> QED
    BY <2>1, ReachableIs
<1> QED
  BY <1>1, <1>2 DEF Spans

-----------------------------------------------------------------------------
(* The descent of an insert.                                                *)
Chosen(e, p) == RT!Selected(nodes[p].entries, e.mbr)

Going(f, e, p) ==
  IF nodes[p].leaf THEN RT!Placed(nodes, p, Append(nodes[p].entries, e))
  ELSE RT!Linked(p, Chosen(e, p), f[nodes[p].entries[Chosen(e, p)].ref])

LEMMA ChosenIn ==
  ASSUME NEW A, NEW rank, NEW N, Forest(nodes, A, {root}, rank, N, {}),
         NEW e \in EntrySet, NEW p \in A, ~ nodes[p].leaf
  PROVE  /\ Chosen(e, p) \in DOMAIN nodes[p].entries
         /\ nodes[p].entries[Chosen(e, p)].ref \in Kids(nodes, p)
<1>1. /\ nodes \in Seq(NodeSet) /\ A \subseteq DOMAIN nodes /\ EntryList(nodes[p].entries)
      /\ \A k \in Kids(nodes, p) : k \in A
  BY ForestTypes
<1>2. \A i \in DOMAIN nodes[p].entries : nodes[p].entries[i].ref \in Kids(nodes, p)
  BY DEF Kids, Refs
<1>3. \A i \in DOMAIN nodes[p].entries : nodes[p].entries[i].ref \in Nat
  <2> TAKE i \in DOMAIN nodes[p].entries
  <2>1. nodes[p].entries[i].ref \in DOMAIN nodes
    BY <1>1, <1>2
  <2> QED
    BY <1>1, <2>1, PageTypes
<1>4. nodes[p].entries # <<>>
  BY DEF Forest, Filled
<1>5. e.mbr \in BoxSet /\ nodes[p].entries \in Seq(EntrySet)
  BY <1>1, EntryTypes DEF EntryList
<1>6. Chosen(e, p) \in DOMAIN nodes[p].entries
  BY <1>3, <1>4, <1>5, SelectedIn DEF Chosen
<1> QED
  BY <1>2, <1>6

LEMMA GoingExists ==
  ASSUME NEW A, NEW rank, NEW N, Forest(nodes, A, {root}, rank, N, {}), NEW e \in EntrySet
  PROVE  \E f : f = [p \in A |-> Going(f, e, p)]
<1> DEFINE Low(n) == {p \in A : rank[p] < n}
           S == {n \in Nat : \E f : f = [p \in Low(n) |-> Going(f, e, p)]}
<1>1. /\ N \in Nat /\ \A p \in A : rank[p] \in 0 .. N
      /\ \A p \in A : ~ nodes[p].leaf =>
           LET k == nodes[p].entries[Chosen(e, p)].ref IN k \in A /\ rank[k] < rank[p]
  <2>1. N \in Nat /\ \A p \in A : rank[p] \in 0 .. N
    BY DEF Forest, Ranked, Hung
  <2>2. \A p \in A : \A k \in Kids(nodes, p) : k \in A /\ rank[k] < rank[p]
    BY ForestTypes
  <2> QED
    BY <2>1, <2>2, ChosenIn
<1>2. 0 \in S
  <2>1. Low(0) = {}
    BY <1>1
  <2> DEFINE f == [p \in Low(0) |-> {}]
  <2>2. f = [p \in Low(0) |-> Going(f, e, p)]
    BY <2>1
  <2> QED
    BY <2>2
<1>3. ASSUME NEW n \in Nat, n \in S PROVE n + 1 \in S
  <2>1. PICK f : f = [p \in Low(n) |-> Going(f, e, p)]
    BY <1>3
  <2> DEFINE g == [p \in Low(n + 1) |-> Going(f, e, p)]
  <2>2. \A q \in Low(n) : q \in Low(n + 1) /\ g[q] = f[q]
    <3> TAKE q \in Low(n)
    <3>1. q \in Low(n + 1)
      BY <1>1
    <3>2. f[q] = Going(f, e, q)
      BY <2>1
    <3> QED
      BY <3>1, <3>2
  <2>3. ASSUME NEW p \in Low(n + 1) PROVE Going(g, e, p) = Going(f, e, p)
    <3> DEFINE k == nodes[p].entries[Chosen(e, p)].ref
    <3>1. ~ nodes[p].leaf => k \in Low(n)
      BY <1>1
    <3>2. ~ nodes[p].leaf => g[k] = f[k]
      BY <2>2, <3>1
    <3> HIDE DEF g
    <3> QED
      BY <3>2, Zenon DEF Going
  <2>4. g = [p \in Low(n + 1) |-> Going(g, e, p)]
    <3> DEFINE h == [p \in Low(n + 1) |-> Going(g, e, p)]
    <3>1. \A p \in Low(n + 1) : h[p] = g[p]
      BY <2>3
    <3> QED
      BY <3>1, Zenon
  <2> HIDE DEF g, Low
  <2>5. \E h : h = [p \in Low(n + 1) |-> Going(h, e, p)]
    BY <2>4, Zenon
  <2> QED
    BY <2>5
<1>4. N + 1 \in S
  <2> HIDE DEF S
  <2>1. Nat \subseteq S
    BY <1>2, <1>3, NatSetInduction
  <2> QED
    BY <1>1, <2>1
<1>5. Low(N + 1) = A
  BY <1>1
<1> HIDE DEF Low
<1> QED
  BY <1>4, <1>5, Zenon

LEMMA InsertedBelow ==
  ASSUME NEW A, NEW rank, NEW N, Forest(nodes, A, {root}, rank, N, {}),
         NEW e \in EntrySet, PointEntry(e), e.ref \notin RowsUnder(nodes, A)
  PROVE  Into(nodes, A, rank, N, root, root, RT!InsertBelow(nodes, root, e), e.ref)
<1> DEFINE f == CHOOSE g : g = [p \in A |-> Going(g, e, p)]
           S == {n \in Nat : \A p \in A : rank[p] < n => Into(nodes, A, rank, N, root, p, f[p], e.ref)}
<1>1. f = [p \in A |-> Going(f, e, p)]
  BY GoingExists, Zenon
<1>2. RT!InsertBelow(nodes, root, e) = f[root]
  <2>1. RT!InsertBelow(nodes, root, e) = (CHOOSE g : g = [p \in RT!Reachable |-> Going(g, e, p)])[root]
    BY Zenon DEF RT!InsertBelow, Going, Chosen
  <2>2. RT!Reachable = A
    BY ReachableIsTree
  <2> QED
    BY <2>1, <2>2
<1> HIDE DEF f
<1>3. \A p \in A : f[p] = Going(f, e, p)
  BY <1>1
<1>4. N \in Nat /\ root \in A /\ \A p \in A : rank[p] \in 0 .. N
  BY DEF Forest, Ranked, Hung
<1>5. 0 \in S
  BY <1>4
<1>6. ASSUME NEW n \in Nat, n \in S PROVE n + 1 \in S
  <2> SUFFICES ASSUME NEW p \in A, rank[p] < n + 1 PROVE Into(nodes, A, rank, N, root, p, f[p], e.ref)
    BY <1>6
  <2>1. CASE nodes[p].leaf
    <3>1. f[p] = RT!Placed(nodes, p, Append(nodes[p].entries, e))
      BY <1>3, <2>1 DEF Going
    <3> QED
      BY <2>1, <3>1, LeafInto
  <2>2. CASE ~ nodes[p].leaf
    <3> DEFINE i == Chosen(e, p)
               k == nodes[p].entries[i].ref
    <3>1. f[p] = RT!Linked(p, i, f[k])
      BY <1>3, <2>2, Zenon DEF Going
    <3>2. i \in DOMAIN nodes[p].entries /\ k \in Kids(nodes, p)
      BY <2>2, ChosenIn
    <3>3. k \in A /\ rank[k] < n
      <4>1. k \in A /\ rank[k] \in Nat /\ rank[k] + 1 = rank[p] /\ rank[p] \in Nat
        BY <3>2, ForestTypes
      <4> QED
        BY <4>1
    <3>4. Into(nodes, A, rank, N, root, k, f[k], e.ref)
      BY <1>6, <3>3
    <3> HIDE DEF i
    <3>5. Into(nodes, A, rank, N, root, p, RT!Linked(p, i, f[k]), e.ref)
      BY <2>2, <3>2, <3>4, InnerInto
    <3> QED
      BY <3>1, <3>5
  <2> QED
    BY <2>1, <2>2
<1>7. Nat \subseteq S
  <2> HIDE DEF S
  <2> QED
    BY <1>5, <1>6, NatSetInduction
<1>8. N + 1 \in S /\ rank[root] < N + 1
  BY <1>4, <1>7
<1> QED
  BY <1>2, <1>4, <1>8

LEMMA TopSettled ==
  ASSUME NEW ps, NEW A, NEW t, NEW rank, NEW N, Forest(ps, A, {t}, rank, N, {t}), ps[t].entries # <<>>
  PROVE  Forest(ps, A, {t}, rank, N, {})
<1>1. Filled(ps, A, {t}, {})
  BY DEF Forest, Filled
<1>2. Tight(ps, A, {})
  <2> SUFFICES ASSUME NEW p \in A, ~ ps[p].leaf, NEW i \in DOMAIN ps[p].entries
               PROVE  TightEntry(ps, ps[p].entries[i])
    BY DEF Tight
  <2>1. ps[p].entries[i].ref \in Kids(ps, p)
    BY DEF Kids, Refs
  <2>2. ps[p].entries[i].ref \notin {t}
    BY <2>1, ForestTypes
  <2> QED
    BY <2>2 DEF Forest, Tight
<1> QED
  BY <1>1, <1>2 DEF Forest

(* The pages with one more, above both tops.                                *)
UnderCrown(qs, B, es) ==
  LET ns == Append(qs, RT!Inner(es))
      m == Len(qs) + 1
  IN /\ \E rl, M : Forest(ns, B \union {m}, {m}, rl, M, {})
     /\ RowsUnder(ns, B \union {m}) = RowsUnder(qs, B)

LEMMA Crowned ==
  ASSUME NEW qs, NEW B, NEW t, NEW s, t # s, NEW rk, NEW N, Forest(qs, B, {t} \union {s}, rk, N, {t}),
         qs[t].entries # <<>>, qs[s].entries # <<>>, rk[s] = rk[t],
         NEW es, EntryList(es), Len(es) <= Capacity, Names(es) = {t} \union {s},
         \A e \in Items(es) : TightEntry(qs, e)
  PROVE  UnderCrown(qs, B, es)
<1> DEFINE x == RT!Inner(es)
           ns == Append(qs, x)
           m == Len(qs) + 1
           C == B \union {m}
           rl == [q \in DOMAIN ns |-> IF q = m THEN rk[t] + 1 ELSE rk[q]]
<1>1. /\ qs \in Seq(NodeSet) /\ N \in Nat /\ B \subseteq DOMAIN qs /\ t \in B /\ s \in B
      /\ rk \in [DOMAIN qs -> 0 .. N]
      /\ \A q \in DOMAIN qs : \A k \in Kids(qs, q) : k \in DOMAIN qs /\ rk[k] < rk[q]
      /\ \A q \in B : \A k \in Kids(qs, q) : k \in B /\ rk[k] + 1 = rk[q] /\ k # t /\ k # s
      /\ \A q \in B : q \in {t} \union {s} \/ \E w \in B : q \in Kids(qs, w)
  BY DEF Forest, Ranked, Levels, Hung
<1>2. x \in NodeSet /\ x.leaf = FALSE /\ x.entries = es
  BY DEF RT!Inner, EntryList, NodeSet
<1>3. /\ es # <<>> /\ \A i \in DOMAIN es : es[i] \in Items(es) /\ (es[i].ref = t \/ es[i].ref = s)
      /\ \A i, j \in DOMAIN es : es[i].ref = es[j].ref => i = j
  <2>1. es # <<>>
    BY NothingLeft
  <2>2. \A i \in DOMAIN es : es[i].ref \in Names(es)
    BY DEF Names
  <2> QED
    BY <2>1, <2>2, ListTypes DEF EntryList, Single
<1> HIDE DEF x
<1>4. /\ ns \in Seq(NodeSet) /\ DOMAIN ns = DOMAIN qs \union {m} /\ m \notin DOMAIN qs /\ ns[m] = x
      /\ \A q \in DOMAIN qs : ns[q] = qs[q]
  <2>1. Len(qs) \in Nat /\ DOMAIN qs = 1 .. Len(qs)
    BY <1>1
  <2>2. /\ ns \in Seq(NodeSet) /\ Len(ns) = m /\ ns[m] = x
        /\ \A q \in 1 .. Len(qs) : ns[q] = qs[q]
    BY <1>1, <1>2
  <2>3. DOMAIN ns = 1 .. m
    BY <2>2
  <2> HIDE DEF ns
  <2> QED
    BY <2>1, <2>2, <2>3
<1> HIDE DEF ns, m
<1>5. /\ \A q \in DOMAIN qs : Kids(ns, q) = Kids(qs, q) /\ Refs(ns, q) = Refs(qs, q)
      /\ Kids(ns, m) = {t} \union {s} /\ ns[m].leaf = FALSE /\ ns[m].entries = es
  <2>1. \A q \in DOMAIN qs : Kids(ns, q) = Kids(qs, q) /\ Refs(ns, q) = Refs(qs, q)
    BY <1>4 DEF Kids, Refs
  <2>2. Refs(ns, m) = Names(es)
    BY <1>2, <1>4 DEF Refs, Names
  <2> QED
    BY <1>2, <1>4, <2>1, <2>2 DEF Kids
<1>6. /\ \A q \in DOMAIN qs : rl[q] = rk[q] /\ q # m /\ rk[q] \in Nat /\ rk[q] <= N
      /\ rl[m] = rk[t] + 1
  BY <1>1, <1>4
<1>7. rl \in [DOMAIN ns -> 0 .. N + 1]
  <2>1. \A q \in DOMAIN ns : rl[q] \in 0 .. N + 1
    BY <1>1, <1>4, <1>6
  <2>2. rl = [q \in DOMAIN ns |-> rl[q]]
    OBVIOUS
  <2> HIDE DEF rl
  <2> QED
    BY <2>1, <2>2
<1> HIDE DEF rl
<1>8. \A q \in C : q = m \/ (q \in B /\ q \in DOMAIN qs /\ q # m)
  BY <1>1, <1>4
<1>9. m \in C /\ B \subseteq C /\ C \subseteq DOMAIN ns /\ m \notin B
  BY <1>1, <1>4
<1> HIDE DEF C
<1>10. Ranked(ns, rl, N + 1)
  <2> SUFFICES ASSUME NEW q \in DOMAIN ns, NEW k \in Kids(ns, q) PROVE k \in DOMAIN ns /\ rl[k] < rl[q]
    BY <1>7 DEF Ranked
  <2>1. CASE q = m
    <3>1. (k = t \/ k = s) /\ k \in DOMAIN qs
      BY <1>1, <1>5, <2>1
    <3>2. rl[k] = rk[t] /\ rk[t] \in Nat /\ rl[q] = rk[t] + 1
      BY <1>1, <1>6, <2>1, <3>1
    <3> QED
      BY <1>4, <3>1, <3>2
  <2>2. CASE q # m
    BY <1>1, <1>4, <1>5, <1>6, <2>2
  <2> QED
    BY <2>1, <2>2
<1>11. Levels(ns, C, rl)
  <2> SUFFICES ASSUME NEW q \in C, NEW k \in Kids(ns, q) PROVE k \in C /\ rl[k] + 1 = rl[q]
    BY DEF Levels
  <2>1. CASE q = m
    BY <1>1, <1>5, <1>6, <1>9, <2>1
  <2>2. CASE q # m
    BY <1>1, <1>5, <1>6, <1>8, <1>9, <2>2
  <2> QED
    BY <2>1, <2>2
<1>12. Hung(ns, C, {m})
  <2>1. \A q \in C : q \in {m} \/ \E w \in C : q \in Kids(ns, w)
    BY <1>1, <1>5, <1>8, <1>9
  <2>2. \A q \in C : {m} \intersect Kids(ns, q) = {}
    BY <1>1, <1>4, <1>5, <1>8
  <2> QED
    BY <1>9, <2>1, <2>2 DEF Hung
<1>13. Apart(ns, C)
  <2>1. ASSUME NEW q \in B, ~ ns[q].leaf PROVE Kids(qs, q) = Refs(qs, q)
    BY <1>1, <1>4, <2>1 DEF Kids
  <2>2. ASSUME NEW q \in B, NEW i \in DOMAIN ns[q].entries, ~ ns[q].leaf
        PROVE  ns[q].entries[i].ref # t /\ ns[q].entries[i].ref # s
    <3>1. ns[q].entries[i].ref \in Refs(qs, q)
      BY <1>1, <1>4 DEF Refs
    <3> QED
      BY <1>1, <2>1, <2>2, <3>1
  <2> SUFFICES ASSUME NEW p \in C, NEW q \in C, ns[p].leaf = ns[q].leaf,
                      NEW i \in DOMAIN ns[p].entries, NEW j \in DOMAIN ns[q].entries,
                      ns[p].entries[i].ref = ns[q].entries[j].ref
               PROVE  p = q /\ i = j
    BY DEF Apart
  <2>3. CASE p \in B /\ q \in B
    <3>1. ns[p] = qs[p] /\ ns[q] = qs[q]
      BY <1>1, <1>4, <2>3
    <3> QED
      BY <2>3, <3>1 DEF Forest, Apart
  <2>4. CASE p = m /\ q = m
    BY <1>3, <1>5, <2>4
  <2>5. CASE p = m /\ q \in B
    BY <1>3, <1>5, <2>2, <2>5
  <2>6. CASE p \in B /\ q = m
    BY <1>3, <1>5, <2>2, <2>6
  <2> QED
    BY <1>8, <2>3, <2>4, <2>5, <2>6
<1>14. Filled(ns, C, {m}, {})
  <2> SUFFICES ASSUME NEW q \in C PROVE Len(ns[q].entries) <= Capacity /\ ns[q].entries # <<>>
    BY DEF Filled
  <2>1. CASE q = m
    BY <1>3, <1>5, <2>1
  <2>2. CASE q # m
    BY <1>4, <1>8, <2>2 DEF Forest, Filled
  <2> QED
    BY <2>1, <2>2
<1>15. Tight(ns, C, {})
  <2> SUFFICES ASSUME NEW q \in C, ~ ns[q].leaf, NEW i \in DOMAIN ns[q].entries
               PROVE  TightEntry(ns, ns[q].entries[i])
    BY DEF Tight
  <2> DEFINE e == ns[q].entries[i]
  <2>1. CASE q = m
    <3>1. e.ref \in DOMAIN qs /\ TightEntry(qs, e)
      BY <1>1, <1>3, <1>5, <2>1
    <3> HIDE DEF e
    <3>2. TightEntry(ns, e)
      BY <1>4, <3>1 DEF TightEntry
    <3> QED
      BY <3>2 DEF e
  <2>2. CASE q # m
    <3>1. q \in B /\ ns[q] = qs[q] /\ ~ qs[q].leaf
      BY <1>4, <1>8, <2>2
    <3>2. e.ref \in Kids(qs, q)
      BY <3>1 DEF Kids, Refs
    <3>3. e.ref \notin {t} /\ e.ref \in DOMAIN qs
      BY <1>1, <3>1, <3>2
    <3>4. TightEntry(qs, e)
      BY <3>1, <3>3 DEF Forest, Tight
    <3> HIDE DEF e
    <3>5. TightEntry(ns, e)
      BY <1>4, <3>3, <3>4 DEF TightEntry
    <3> QED
      BY <3>5 DEF e
  <2> QED
    BY <2>1, <2>2
<1>16. Pointed(ns, C)
  <2> SUFFICES ASSUME NEW q \in C, ns[q].leaf, NEW i \in DOMAIN ns[q].entries PROVE PointEntry(ns[q].entries[i])
    BY DEF Pointed
  <2>1. q \in B /\ ns[q] = qs[q]
    BY <1>4, <1>5, <1>8
  <2> QED
    BY <2>1 DEF Forest, Pointed
<1>17. Forest(ns, C, {m}, rl, N + 1, {})
  BY <1>1, <1>4, <1>10, <1>11, <1>12, <1>13, <1>14, <1>15, <1>16 DEF Forest
<1>18. RowsUnder(ns, C) = RowsUnder(qs, B)
  <2>1. \A q \in B : ns[q].leaf = qs[q].leaf /\ Refs(ns, q) = Refs(qs, q)
    BY <1>1, <1>4, <1>5
  <2>2. \A y : y \in RowsUnder(ns, C) <=> \E q \in C : ns[q].leaf /\ y \in Refs(ns, q)
    BY DEF RowsUnder
  <2>3. \A y : y \in RowsUnder(qs, B) <=> \E q \in B : qs[q].leaf /\ y \in Refs(qs, q)
    BY DEF RowsUnder
  <2>4. \A y : y \in RowsUnder(ns, C) <=> y \in RowsUnder(qs, B)
    BY <1>5, <1>8, <1>9, <2>1, <2>2, <2>3
  <2> QED
    BY <2>4
<1> QED
  BY <1>17, <1>18 DEF UnderCrown, C, x, ns, m

Tree(ps, t, A) == \E rank, N : Forest(ps, A, {t}, rank, N, {})

LEMMA TreeInsert ==
  ASSUME NEW A, Tree(nodes, root, A), NEW r \in DOMAIN Point, r \notin RowsUnder(nodes, A), RT!Insert(r)
  PROVE  \E B : Tree(nodes', root', B) /\ RowsUnder(nodes', B) = RowsUnder(nodes, A) \union {r}
<1> DEFINE e == RT!Entry(RT!BoxOf(Point[r]), r)
           done == RT!InsertBelow(nodes, root, e)
           qs == done.pages
           split == done.split
<1>1. PICK rank, N : Forest(nodes, A, {root}, rank, N, {})
  BY DEF Tree
<1>2. e \in EntrySet /\ e.ref = r /\ PointEntry(e)
  <2>1. Point[r] \in Int \X Int
    BY PointsAssumption
  <2>2. Point[r][1] \in Int /\ Point[r][2] \in Int
    BY <2>1
  <2>3. RT!BoxOf(Point[r]) \in BoxSet
    BY <2>2 DEF RT!BoxOf, RT!Box, BoxSet
  <2>4. e.ref = r /\ e.mbr = RT!BoxOf(Point[r])
    BY DEF RT!Entry
  <2>5. e \in EntrySet
    BY <2>3 DEF RT!Entry, EntrySet
  <2> HIDE DEF e
  <2> QED
    BY <2>4, <2>5 DEF PointEntry
<1>3. RT!Rooted(done)
  BY DEF RT!Insert
<1> HIDE DEF e
<1>4. Into(nodes, A, rank, N, root, root, done, r)
  BY <1>1, <1>2, InsertedBelow
<1> HIDE DEF done
<1>5. PICK B, rk, S : IntoWith(nodes, A, rank, N, root, root, done, r, B, rk, S)
  BY <1>4 DEF Into
<1>6. /\ Forest(qs, B, {root} \union S, rk, N, {root})
      /\ RowsUnder(qs, B) = RowsUnder(nodes, A) \union {r}
      /\ qs[root].entries # <<>> /\ done.mbr = RT!Mbr(qs[root].entries)
      /\ Siblings(qs, split, S)
      /\ \A s \in S : s \notin DOMAIN nodes /\ qs[s].entries # <<>> /\ rk[s] = rank[root]
      /\ rk[root] = rank[root] /\ root \in DOMAIN nodes
  <2>1. root \in DOMAIN nodes
    BY <1>1 DEF Forest, Hung
  <2> QED
    BY <1>5, <2>1 DEF IntoWith, Keeps
<1> HIDE DEF qs, split
<1>7. CASE S = {} /\ split = <<>>
  <2>1. nodes' = qs /\ root' = root
    BY <1>3, <1>7 DEF RT!Rooted, qs, split
  <2>2. Forest(qs, B, {root}, rk, N, {root})
    <3>1. {root} \union S = {root}
      BY <1>7
    <3> QED
      BY <1>6, <3>1
  <2>3. Forest(qs, B, {root}, rk, N, {})
    BY <1>6, <2>2, TopSettled
  <2>4. Tree(qs, root, B)
    BY <2>3 DEF Tree
  <2> QED
    BY <1>6, <2>1, <2>4
<1>8. ASSUME NEW s \in Nat, S = {s}, split = <<RT!Entry(RT!Mbr(qs[s].entries), s)>>
      PROVE  \E C : Tree(nodes', root', C) /\ RowsUnder(nodes', C) = RowsUnder(nodes, A) \union {r}
  <2> DEFINE first == <<RT!Entry(done.mbr, root)>>
             es == first \o split
             m == Len(qs) + 1
             ns == Append(qs, RT!Inner(es))
  <2>1. nodes' = ns /\ root' = m
    BY <1>3, <1>8 DEF RT!Rooted, qs, split
  <2>2. Forest(qs, B, {root} \union {s}, rk, N, {root}) /\ root # s /\ rk[s] = rk[root] /\ qs[s].entries # <<>>
    BY <1>6, <1>8
  <2>3. qs \in Seq(NodeSet) /\ root \in DOMAIN qs /\ s \in DOMAIN qs
    BY <2>2 DEF Forest, Hung
  <2>4. /\ EntryList(split) /\ Names(split) = {s} /\ Len(split) <= 1
        /\ \A x \in Items(split) : TightEntry(qs, x)
    BY <1>6, <1>8, <2>2, <2>3, SplitIs
  <2>5. /\ EntryList(first) /\ Names(first) = {root} /\ Len(first) <= 1
        /\ \A x \in Items(first) : TightEntry(qs, x)
    <3>1. Siblings(qs, first, {root})
      <4>1. root \in Nat
        BY <2>3, PageTypes
      <4> QED
        BY <1>6, <4>1 DEF Siblings
    <3> HIDE DEF first
    <3> QED
      BY <1>6, <2>3, <3>1, SplitIs
  <2> HIDE DEF first
  <2>6. /\ EntryList(es) /\ Items(es) = Items(first) \union Items(split) /\ Names(es) = {root} \union {s}
        /\ Len(es) = Len(first) + Len(split)
    <3>1. Names(first) \intersect Names(split) = {}
      BY <2>2, <2>4, <2>5
    <3> QED
      BY <2>4, <2>5, <3>1, JoinedIs
  <2> HIDE DEF es
  <2>7. Len(es) <= Capacity
    <3>1. Len(first) \in Nat /\ Len(split) \in Nat /\ Capacity \in Nat /\ Capacity >= 2
      BY <2>4, <2>5, ListTypes, PointsAssumption
    <3> QED
      BY <2>4, <2>5, <2>6, <3>1
  <2>8. \A x \in Items(es) : TightEntry(qs, x)
    BY <2>4, <2>5, <2>6
  <2>9. /\ \E rl, M : Forest(ns, B \union {m}, {m}, rl, M, {})
        /\ RowsUnder(ns, B \union {m}) = RowsUnder(qs, B)
    <3>1. UnderCrown(qs, B, es)
      BY <1>6, <2>2, <2>6, <2>7, <2>8, Crowned
    <3> QED
      BY <3>1 DEF UnderCrown
  <2> HIDE DEF ns, m
  <2>10. Tree(ns, m, B \union {m})
    BY <2>9 DEF Tree
  <2> QED
    BY <1>6, <2>1, <2>9, <2>10
<1> QED
  BY <1>6, <1>7, <1>8 DEF Siblings

-----------------------------------------------------------------------------
(* What a delete of row r below page p comes to, if it finds the row.       *)
FromWith(ps, A, rank, N, top, p, g, r, B) ==
  /\ Forest(g.pages, B, {top}, rank, N, {p})
  /\ Keeps(ps, g.pages, A, B, rank, rank, p)
  /\ r \in RowsUnder(ps, A) /\ RowsUnder(g.pages, B) = RowsUnder(ps, A) \ {r}

From(ps, A, rank, N, top, p, g, r) == g.removed => \E B : FromWith(ps, A, rank, N, top, p, g, r, B)

TakenFrom(ps, p, es, g) ==
  /\ g.removed /\ Rewritten(ps, g.pages, p, {})
  /\ g.pages[p].entries = es /\ Written(g.pages, p, {}) = Names(es)

LEMMA RemovalIs ==
  ASSUME NEW ps \in Seq(NodeSet), NEW p \in DOMAIN ps, NEW es, EntryList(es), Len(es) <= Capacity
  PROVE  TakenFrom(ps, p, es, RT!Removal(ps, p, es))
<1> DEFINE qs == [ps EXCEPT ![p].entries = es]
           g == RT!Removal(ps, p, es)
<1>1. g.removed /\ g.pages = qs
  BY DEF RT!Removal
<1>2. es \in Seq(EntrySet) /\ \A i, j \in DOMAIN es : es[i].ref = es[j].ref => i = j
  BY DEF EntryList, Single
<1>3. /\ qs \in Seq(NodeSet) /\ DOMAIN qs = DOMAIN ps
      /\ \A q \in DOMAIN ps \ {p} : qs[q] = ps[q]
      /\ qs[p].leaf = ps[p].leaf /\ qs[p].entries = es
  BY <1>2, EntriesReplaced
<1> HIDE DEF g, qs
<1>4. Rewritten(ps, qs, p, {})
  BY <1>2, <1>3 DEF Rewritten
<1>5. Written(qs, p, {}) = Names(es)
  BY <1>3 DEF Written, Refs, Names
<1> QED
  BY <1>1, <1>3, <1>4, <1>5 DEF TakenFrom, g

LEMMA SameRank ==
  ASSUME NEW ps, NEW qs, NEW rank, NEW p, NEW N, DOMAIN qs = DOMAIN ps, rank \in [DOMAIN ps -> 0 .. N]
  PROVE  NewRank(qs, rank, p, {}) = rank
<1>1. rank = [q \in DOMAIN ps |-> rank[q]]
  OBVIOUS
<1>2. NewRank(qs, rank, p, {}) = [q \in DOMAIN ps |-> rank[q]]
  BY DEF NewRank
<1> QED
  BY <1>1, <1>2

LEMMA LeafFrom ==
  ASSUME NEW ps, NEW A, NEW top, NEW rank, NEW N, Forest(ps, A, {top}, rank, N, {}),
         NEW p \in A, ps[p].leaf, NEW i \in DOMAIN ps[p].entries, NEW r, r = ps[p].entries[i].ref
  PROVE  From(ps, A, rank, N, top, p, RT!Removal(ps, p, RT!RemoveAt(ps[p].entries, i)), r)
<1> DEFINE es == ps[p].entries
           new == RT!RemoveAt(es, i)
           g == RT!Removal(ps, p, new)
<1>1. /\ ps \in Seq(NodeSet) /\ p \in DOMAIN ps /\ A \subseteq DOMAIN ps /\ EntryList(es) /\ Len(es) <= Capacity
      /\ Names(es) = Refs(ps, p) /\ {top} \subseteq A /\ rank \in [DOMAIN ps -> 0 .. N]
  BY ForestTypes
<1>2. Refs(ps, p) \subseteq RowsUnder(ps, A) /\ r \in Refs(ps, p)
  BY DEF RowsUnder, Refs
<1>3. /\ EntryList(new) /\ Items(new) = Items(es) \ {es[i]} /\ Names(new) = Names(es) \ {r}
      /\ Len(new) = Len(es) - 1
  BY <1>1, RemovedIs
<1>4. Len(new) <= Capacity
  BY <1>1, <1>3, ListTypes, PointsAssumption
<1> HIDE DEF new
<1> DEFINE qs == g.pages
<1>5. /\ Rewritten(ps, qs, p, {}) /\ qs[p].entries = new /\ Written(qs, p, {}) = Names(new)
  <2>1. TakenFrom(ps, p, new, g)
    BY <1>1, <1>3, <1>4, RemovalIs
  <2> QED
    BY <2>1 DEF TakenFrom
<1> HIDE DEF g
<1>6. LeafWritten(ps, A, qs, p, {}, {})
  <2>1. \A j \in DOMAIN es : PointEntry(es[j])
    BY DEF Forest, Pointed
  <2>2. \A x \in Items(new) : PointEntry(x)
    BY <1>3, <2>1 DEF Items
  <2>3. \A j \in DOMAIN new : PointEntry(new[j])
    BY <2>2 DEF Items
  <2>4. ASSUME NEW q \in A \ {p}, ps[q].leaf PROVE Refs(ps, q) \intersect Written(qs, p, {}) = {}
    <3>1. Refs(ps, q) \intersect Refs(ps, p) = {}
      <4>1. ps[q].leaf = ps[p].leaf /\ Apart(ps, A)
        BY <1>1, <2>4, PageTypes DEF Forest
      <4> QED
        BY <4>1, RefsApart
    <3> QED
      BY <1>1, <1>3, <1>5, <3>1
  <2> QED
    BY <1>5, <2>3, <2>4 DEF LeafWritten
<1> HIDE DEF qs
<1> DEFINE B == (A \ LeftOut(ps, qs, p, {})) \union {}
<1>7. LeftOut(ps, qs, p, {}) = {} /\ NewTops({top}, qs, p, {}, ~ ps[p].leaf) = {top}
  BY DEF LeftOut, Kids, NewTops
<1>8. B = A
  BY <1>7
<1>9. /\ DOMAIN qs = DOMAIN ps /\ \A q \in DOMAIN ps \ {p} : qs[q] = ps[q]
      /\ qs[p].leaf = ps[p].leaf
  BY <1>5 DEF Rewritten
<1>10. NewRank(qs, rank, p, {}) = rank
  BY <1>1, <1>9, SameRank
<1>11. Forest(qs, B, {top}, rank, N, {p})
  <2>1. Forest(qs, B, NewTops({top}, qs, p, {}, ~ ps[p].leaf), NewRank(qs, rank, p, {}), N, {p})
    BY <1>5, <1>6, RewrittenKeeps
  <2> HIDE DEF B
  <2> QED
    BY <1>7, <1>10, <2>1
<1>12. RowsUnder(qs, B) = RowsUnder(ps, A) \ {r}
  <2>1. RowsNow(ps, A, qs, B, p, {})
    BY <1>5, <1>6, RowsWritten
  <2> HIDE DEF B, es
  <2> QED
    BY <1>1, <1>2, <1>3, <1>5, <2>1 DEF RowsNow
<1> HIDE DEF B
<1>13. Keeps(ps, qs, A, B, rank, rank, p)
  BY <1>1, <1>8, <1>9 DEF Keeps
<1>14. FromWith(ps, A, rank, N, top, p, g, r, B)
  BY <1>2, <1>11, <1>12, <1>13 DEF FromWith, qs
<1>15. From(ps, A, rank, N, top, p, g, r)
  BY <1>14 DEF From
<1> QED
  BY <1>15 DEF g, new, es

(* What stays of the child's entry.                                         *)
LeftAbove(os, es, i) ==
  IF os[es[i].ref].entries = <<>> THEN RT!RemoveAt(es, i)
  ELSE RT!WithBox(es, i, RT!Mbr(os[es[i].ref].entries))

LEMMA LeftAboveIs ==
  ASSUME NEW os \in Seq(NodeSet), NEW es, EntryList(es), NEW i \in DOMAIN es, es[i].ref \in DOMAIN os,
         Len(es) <= Capacity, \A j \in DOMAIN es : j # i => TightEntry(os, es[j])
  PROVE  LET new == LeftAbove(os, es, i)
         IN /\ EntryList(new) /\ Len(new) <= Capacity
            /\ Names(new) = {k \in Names(es) : k # es[i].ref \/ os[k].entries # <<>>}
            /\ \A e \in Items(new) : TightEntry(os, e)
<1> DEFINE k == es[i].ref
           left == os[k].entries
           m == RT!Mbr(left)
<1>1. /\ Len(es) \in Nat /\ Capacity \in Nat
      /\ \A a, b \in DOMAIN es : es[a].ref = es[b].ref => a = b
  BY ListTypes, PointsAssumption DEF EntryList, Single
<1>2. left \in Seq(EntrySet)
  BY PageTypes
<1>3. CASE left = <<>>
  <2> DEFINE new == RT!RemoveAt(es, i)
  <2>1. LeftAbove(os, es, i) = new
    BY <1>3 DEF LeftAbove
  <2>2. /\ EntryList(new) /\ Items(new) = Items(es) \ {es[i]} /\ Names(new) = Names(es) \ {k}
        /\ Len(new) = Len(es) - 1
    BY RemovedIs
  <2> HIDE DEF new
  <2>3. \A e \in Items(new) : TightEntry(os, e)
    BY <2>2 DEF Items
  <2>4. Names(new) = {x \in Names(es) : x # k \/ os[x].entries # <<>>}
    BY <1>3, <2>2
  <2> QED
    BY <1>1, <2>1, <2>2, <2>3, <2>4
<1>4. CASE left # <<>>
  <2> DEFINE new == RT!WithBox(es, i, m)
  <2>1. LeftAbove(os, es, i) = new
    BY <1>4 DEF LeftAbove
  <2>2. m \in BoxSet
    BY <1>2, <1>4, MbrType
  <2> HIDE DEF m
  <2>3. /\ EntryList(new) /\ Names(new) = Names(es) /\ Len(new) = Len(es)
        /\ DOMAIN new = DOMAIN es /\ new[i].mbr = m /\ new[i].ref = k
        /\ \A j \in DOMAIN es \ {i} : new[j] = es[j]
    BY <2>2, WithBoxIs
  <2> HIDE DEF new
  <2>4. TightEntry(os, new[i])
    BY <2>3 DEF TightEntry, m
  <2>5. \A e \in Items(new) : TightEntry(os, e)
    BY <2>3, <2>4 DEF Items
  <2>6. Names(new) = {x \in Names(es) : x # k \/ os[x].entries # <<>>}
    BY <1>4, <2>3
  <2> QED
    BY <1>1, <2>1, <2>3, <2>5, <2>6
<1> QED
  BY <1>3, <1>4

LEMMA InnerFrom ==
  ASSUME NEW ps, NEW A, NEW top, NEW rank, NEW N, Forest(ps, A, {top}, rank, N, {}),
         NEW p \in A, ~ ps[p].leaf, NEW i \in DOMAIN ps[p].entries,
         NEW h, h.removed, NEW r, From(ps, A, rank, N, top, ps[p].entries[i].ref, h, r)
  PROVE  From(ps, A, rank, N, top, p, RT!Removal(h.pages, p, LeftAbove(h.pages, ps[p].entries, i)), r)
<1> DEFINE es == ps[p].entries
           k == es[i].ref
           os == h.pages
<1>1. PICK B : FromWith(ps, A, rank, N, top, k, h, r, B)
  BY DEF From
<1>2. /\ Forest(os, B, {top}, rank, N, {k})
      /\ Keeps(ps, os, A, B, rank, rank, k)
      /\ r \in RowsUnder(ps, A) /\ RowsUnder(os, B) = RowsUnder(ps, A) \ {r}
  BY <1>1 DEF FromWith
<1>3. /\ ps \in Seq(NodeSet) /\ p \in DOMAIN ps /\ A \subseteq DOMAIN ps /\ EntryList(es) /\ Len(es) <= Capacity
      /\ Names(es) = Refs(ps, p) /\ {top} \subseteq A /\ rank[p] \in Nat
      /\ \A x \in Kids(ps, p) : x \in A /\ rank[x] \in Nat /\ rank[x] + 1 = rank[p] /\ x # p /\ x \notin {top}
  BY ForestTypes
<1>4. /\ Refs(ps, p) = Kids(ps, p) /\ k \in Kids(ps, p)
      /\ \A j \in DOMAIN es : es[j].ref \in Kids(ps, p) /\ (es[j].ref = k => j = i)
  <2>1. Refs(ps, p) = Kids(ps, p) /\ \A j \in DOMAIN es : es[j].ref \in Refs(ps, p)
    BY DEF Refs, Kids
  <2> QED
    BY <1>3, <2>1 DEF EntryList, Single
<1> DEFINE new == LeftAbove(os, es, i)
           g == RT!Removal(os, p, new)
<1> HIDE DEF es, k, os
<1>5. /\ DOMAIN ps \subseteq DOMAIN os /\ os[k].leaf = ps[k].leaf
      /\ \A q \in A : rank[q] >= rank[k] => q \in B /\ (q # k => os[q] = ps[q])
  BY <1>2 DEF Keeps
<1>6. /\ p \in B /\ os[p] = ps[p] /\ k # p /\ k \in A /\ rank[k] \in Nat /\ rank[k] + 1 = rank[p]
      /\ \A x \in Kids(ps, p) : x \in B /\ (x # k => os[x] = ps[x])
  <2>1. k # p /\ k \in A /\ rank[k] \in Nat /\ rank[k] + 1 = rank[p]
    BY <1>3, <1>4
  <2>2. rank[p] >= rank[k] /\ \A x \in Kids(ps, p) : rank[x] >= rank[k]
    BY <1>3, <2>1
  <2> QED
    BY <1>3, <1>5, <2>1, <2>2
<1>7. /\ os \in Seq(NodeSet) /\ p \in DOMAIN os /\ B \subseteq DOMAIN os /\ {top} \subseteq B
      /\ k \in DOMAIN os /\ rank \in [DOMAIN os -> 0 .. N]
  <2>1. /\ os \in Seq(NodeSet) /\ p \in DOMAIN os /\ B \subseteq DOMAIN os /\ {top} \subseteq B
        /\ rank \in [DOMAIN os -> 0 .. N]
    BY <1>2, <1>6, ForestTypes
  <2> QED
    BY <1>4, <1>6, <2>1
<1>8. Kids(os, p) = Kids(ps, p) /\ ~ os[p].leaf
  BY <1>6 DEF Kids, Refs
<1>9. \A j \in DOMAIN es : j # i => TightEntry(os, es[j])
  <2> SUFFICES ASSUME NEW j \in DOMAIN es, j # i PROVE TightEntry(os, es[j])
    OBVIOUS
  <2>1. es = os[p].entries /\ Tight(os, B, {k}) /\ es[j].ref \notin {k}
    BY <1>2, <1>4, <1>6 DEF Forest, es
  <2> QED
    BY <1>6, <1>8, <2>1 DEF Tight
<1>10. /\ EntryList(new) /\ Len(new) <= Capacity
       /\ Names(new) = {x \in Kids(ps, p) : x # k \/ os[x].entries # <<>>}
       /\ \A e \in Items(new) : TightEntry(os, e)
  <2>1. /\ EntryList(new) /\ Len(new) <= Capacity
        /\ Names(new) = {x \in Names(es) : x # es[i].ref \/ os[x].entries # <<>>}
        /\ \A e \in Items(new) : TightEntry(os, e)
    <3>1. i \in DOMAIN es /\ es[i].ref \in DOMAIN os
      BY <1>7 DEF es, k
    <3> QED
      BY <1>3, <1>7, <1>9, <3>1, LeftAboveIs
  <2> HIDE DEF new
  <2> QED
    BY <1>3, <1>4, <2>1 DEF k
<1> HIDE DEF new
<1> DEFINE qs == g.pages
<1>11. g.removed /\ Rewritten(os, qs, p, {}) /\ qs[p].entries = new /\ Written(qs, p, {}) = Names(new)
  <2>1. TakenFrom(os, p, new, g)
    BY <1>7, <1>10, RemovalIs
  <2> QED
    BY <2>1 DEF TakenFrom
<1> HIDE DEF g, qs
<1>12. \A x \in Kids(ps, p) : x # k => os[x].entries # <<>>
  <2> SUFFICES ASSUME NEW x \in Kids(ps, p), x # k PROVE os[x].entries # <<>>
    OBVIOUS
  <2>1. x \in A /\ x \notin {top} /\ os[x] = ps[x]
    BY <1>3, <1>6
  <2> QED
    BY <2>1 DEF Forest, Filled
<1>13. InnerWritten(os, B, {top}, rank, qs, p, {}, {k})
  <2>1. ASSUME NEW x \in Written(qs, p, {})
        PROVE  /\ x \in B /\ x # p /\ rank[x] + 1 = rank[p]
               /\ x \in Kids(os, p) \union {top} /\ os[x].entries # <<>>
    BY <1>3, <1>6, <1>8, <1>10, <1>11, <1>12
  <2>2. \A x \in Kids(os, p) \ Written(qs, p, {}) : os[x].entries = <<>>
    BY <1>8, <1>10, <1>11
  <2>3. \A q \in {p} \union {} : \A j \in DOMAIN qs[q].entries : TightEntry(os, qs[q].entries[j])
    BY <1>10, <1>11 DEF Items
  <2> QED
    BY <1>4, <1>8, <2>1, <2>2, <2>3 DEF InnerWritten
<1> DEFINE C == (B \ LeftOut(os, qs, p, {})) \union {}
<1>14. \A x \in LeftOut(os, qs, p, {}) : x = k
  BY <1>8, <1>10, <1>11, <1>12 DEF LeftOut
<1>15. NewTops({top}, qs, p, {}, ~ os[p].leaf) = {top}
  <2>1. top \notin Written(qs, p, {})
    BY <1>3, <1>10, <1>11
  <2> QED
    BY <2>1 DEF NewTops
<1>16. /\ DOMAIN qs = DOMAIN os /\ \A q \in DOMAIN os \ {p} : qs[q] = os[q]
       /\ qs[p].leaf = os[p].leaf
  BY <1>11 DEF Rewritten
<1>17. NewRank(qs, rank, p, {}) = rank
  BY <1>7, <1>16, SameRank
<1>18. Forest(qs, C, {top}, rank, N, {p})
  <2>1. Forest(qs, C, NewTops({top}, qs, p, {}, ~ os[p].leaf), NewRank(qs, rank, p, {}), N, {p})
    BY <1>2, <1>6, <1>11, <1>13, RewrittenKeeps
  <2> HIDE DEF C
  <2> QED
    BY <1>15, <1>17, <2>1
<1>19. RowsUnder(qs, C) = RowsUnder(ps, A) \ {r}
  <2>1. RowsNow(os, B, qs, C, p, {})
    BY <1>2, <1>6, <1>11, <1>13, RowsWritten
  <2> HIDE DEF C
  <2> QED
    BY <1>2, <1>8, <2>1 DEF RowsNow
<1>20. Keeps(ps, qs, A, C, rank, rank, p)
  <2>1. ASSUME NEW q \in A, rank[q] >= rank[p] PROVE q \in C /\ (q # p => qs[q] = ps[q])
    <3>1. rank[q] \in Nat
      BY ForestTypes
    <3>2. rank[q] >= rank[k] /\ q # k
      BY <1>3, <1>6, <2>1, <3>1
    <3>3. q \in B /\ os[q] = ps[q] /\ q \in DOMAIN os
      BY <1>5, <1>7, <3>2
    <3> QED
      BY <1>14, <1>16, <3>2, <3>3
  <2>2. qs[p].leaf = ps[p].leaf
    BY <1>6, <1>16
  <2> QED
    BY <1>5, <1>16, <2>1, <2>2 DEF Keeps
<1> HIDE DEF C
<1>21. FromWith(ps, A, rank, N, top, p, g, r, C)
  BY <1>2, <1>18, <1>19, <1>20 DEF FromWith, qs
<1>22. From(ps, A, rank, N, top, p, g, r)
  BY <1>21 DEF From
<1> QED
  BY <1>22 DEF g, new, es, os

-----------------------------------------------------------------------------
(* The descent of a delete.                                                 *)
Mine(r, p) == RT!SelectInSeq(nodes[p].entries, LAMBDA e : e.ref = r)

Found(f, r, p) ==
  {i \in DOMAIN nodes[p].entries : /\ RT!BoxContains(nodes[p].entries[i].mbr, Point[r])
                                   /\ f[nodes[p].entries[i].ref].removed}

FirstOf(S) == CHOOSE i \in S : \A j \in S : i <= j

Through(f, p, i) ==
  LET os == f[nodes[p].entries[i].ref].pages
  IN RT!Removal(os, p, LeftAbove(os, nodes[p].entries, i))

Leaving(f, r, p) ==
  IF nodes[p].leaf
    THEN IF Mine(r, p) = 0 THEN RT!Nowhere
         ELSE RT!Removal(nodes, p, RT!RemoveAt(nodes[p].entries, Mine(r, p)))
  ELSE IF Found(f, r, p) = {} THEN RT!Nowhere
  ELSE Through(f, p, FirstOf(Found(f, r, p)))

LEMMA FirstOfIn ==
  ASSUME NEW S, S \subseteq Nat, S # {}
  PROVE  FirstOf(S) \in S
<1>1. \E i \in S : \A j \in S : i <= j
  BY LeastNat
<1> QED
  BY <1>1 DEF FirstOf

LEMMA FoundNat ==
  ASSUME NEW p \in DOMAIN nodes, nodes \in Seq(NodeSet), NEW f, NEW r
  PROVE  Found(f, r, p) \subseteq Nat /\ Found(f, r, p) \subseteq DOMAIN nodes[p].entries
<1>1. nodes[p].entries \in Seq(EntrySet)
  BY PageTypes
<1>2. DOMAIN nodes[p].entries \subseteq Nat
  BY <1>1
<1> QED
  BY <1>2 DEF Found

LEMMA LeavingSame ==
  ASSUME NEW p \in DOMAIN nodes, nodes \in Seq(NodeSet), NEW f, NEW g, NEW r,
         \A k \in Kids(nodes, p) : f[k] = g[k]
  PROVE  Leaving(f, r, p) = Leaving(g, r, p)
<1>1. CASE nodes[p].leaf
  BY <1>1 DEF Leaving
<1>2. CASE ~ nodes[p].leaf
  <2> DEFINE S == Found(f, r, p)
  <2>1. \A i \in DOMAIN nodes[p].entries : f[nodes[p].entries[i].ref] = g[nodes[p].entries[i].ref]
    BY <1>2 DEF Kids, Refs
  <2>2. S = Found(g, r, p)
    BY <2>1 DEF Found
  <2>3. S # {} => FirstOf(S) \in DOMAIN nodes[p].entries
    BY FoundNat, FirstOfIn
  <2> HIDE DEF S
  <2>4. S # {} => Through(f, p, FirstOf(S)) = Through(g, p, FirstOf(S))
    BY <2>1, <2>3 DEF Through
  <2>5. Leaving(f, r, p) = IF S = {} THEN RT!Nowhere ELSE Through(f, p, FirstOf(S))
    BY <1>2 DEF Leaving, S
  <2>6. Leaving(g, r, p) = IF S = {} THEN RT!Nowhere ELSE Through(g, p, FirstOf(S))
    BY <1>2, <2>2 DEF Leaving
  <2> QED
    BY <2>4, <2>5, <2>6
<1> QED
  BY <1>1, <1>2

LEMMA LeavingExists ==
  ASSUME NEW rank, NEW N \in Nat, Ranked(nodes, rank, N), nodes \in Seq(NodeSet), NEW r
  PROVE  \E f : f = [p \in DOMAIN nodes |-> Leaving(f, r, p)]
<1> DEFINE D == DOMAIN nodes
           Low(n) == {p \in D : rank[p] < n}
           S == {n \in Nat : \E f : f = [p \in Low(n) |-> Leaving(f, r, p)]}
<1>1. /\ \A p \in D : rank[p] \in 0 .. N
      /\ \A p \in D : \A k \in Kids(nodes, p) : k \in D /\ rank[k] < rank[p]
  BY DEF Ranked
<1>2. 0 \in S
  <2>1. Low(0) = {}
    BY <1>1
  <2> DEFINE f == [p \in Low(0) |-> {}]
  <2>2. f = [p \in Low(0) |-> Leaving(f, r, p)]
    BY <2>1
  <2> QED
    BY <2>2
<1>3. ASSUME NEW n \in Nat, n \in S PROVE n + 1 \in S
  <2>1. PICK f : f = [p \in Low(n) |-> Leaving(f, r, p)]
    BY <1>3
  <2> DEFINE g == [p \in Low(n + 1) |-> Leaving(f, r, p)]
  <2>2. \A q \in Low(n) : q \in Low(n + 1) /\ g[q] = f[q]
    <3> TAKE q \in Low(n)
    <3>1. q \in Low(n + 1)
      BY <1>1
    <3>2. f[q] = Leaving(f, r, q)
      BY <2>1
    <3> QED
      BY <3>1, <3>2
  <2>3. ASSUME NEW p \in Low(n + 1) PROVE Leaving(g, r, p) = Leaving(f, r, p)
    <3>1. \A k \in Kids(nodes, p) : k \in Low(n)
      BY <1>1
    <3>2. \A k \in Kids(nodes, p) : g[k] = f[k]
      BY <2>2, <3>1
    <3> HIDE DEF g
    <3>3. p \in DOMAIN nodes
      OBVIOUS
    <3> HIDE DEF Low
    <3> QED
      BY <3>2, <3>3, LeavingSame
  <2>4. g = [p \in Low(n + 1) |-> Leaving(g, r, p)]
    <3> DEFINE h == [p \in Low(n + 1) |-> Leaving(g, r, p)]
    <3>1. \A p \in Low(n + 1) : h[p] = g[p]
      BY <2>3
    <3> QED
      BY <3>1, Zenon
  <2> HIDE DEF g, Low
  <2>5. \E h : h = [p \in Low(n + 1) |-> Leaving(h, r, p)]
    BY <2>4, Zenon
  <2> QED
    BY <2>5
<1>4. N + 1 \in S
  <2> HIDE DEF S
  <2>1. Nat \subseteq S
    BY <1>2, <1>3, NatSetInduction
  <2> QED
    BY <2>1
<1>5. Low(N + 1) = D
  <2>1. \A p \in D : rank[p] < N + 1
    BY <1>1
  <2> QED
    BY <2>1
<1> HIDE DEF Low
<1> QED
  BY <1>4, <1>5, Zenon DEF D

LEMMA MineIs ==
  ASSUME NEW p \in DOMAIN nodes, nodes \in Seq(NodeSet), NEW r, Mine(r, p) # 0
  PROVE  Mine(r, p) \in DOMAIN nodes[p].entries /\ nodes[p].entries[Mine(r, p)].ref = r
<1> DEFINE es == nodes[p].entries
           I == {i \in 1 .. Len(es) : es[i].ref = r}
<1>1. es \in Seq(EntrySet)
  BY PageTypes
<1>2. DOMAIN es = 1 .. Len(es) /\ I \subseteq Nat
  BY <1>1
<1>3. Mine(r, p) = IF I # {} THEN RT!Min(I) ELSE 0
  BY Zenon DEF Mine, RT!SelectInSeq
<1>4. RT!Min(I) = CHOOSE x \in I : \A y \in I : x <= y
  BY DEF RT!Min
<1> HIDE DEF I
<1>5. I # {}
  BY <1>3
<1>6. RT!Min(I) \in I
  <2>1. \E x \in I : \A y \in I : x <= y
    BY <1>2, <1>5, LeastNat
  <2> QED
    BY <1>4, <2>1
<1> QED
  BY <1>2, <1>3, <1>5, <1>6 DEF I

LEMMA DeletedBelow ==
  ASSUME NEW A, NEW rank, NEW N, Forest(nodes, A, {root}, rank, N, {}), NEW r
  PROVE  From(nodes, A, rank, N, root, root, RT!DeleteBelow(nodes, root, r), r)
<1> DEFINE f == CHOOSE g : g = [p \in DOMAIN nodes |-> Leaving(g, r, p)]
           S == {n \in Nat : \A p \in A : rank[p] < n => From(nodes, A, rank, N, root, p, f[p], r)}
<1>1. nodes \in Seq(NodeSet) /\ N \in Nat /\ Ranked(nodes, rank, N)
  BY DEF Forest
<1>2. f = [p \in DOMAIN nodes |-> Leaving(f, r, p)]
  BY <1>1, LeavingExists, Zenon
<1>3. RT!DeleteBelow(nodes, root, r) = f[root]
  BY Zenon DEF RT!DeleteBelow, Leaving, Mine, Found, FirstOf, Through, LeftAbove
<1> HIDE DEF f
<1>4. /\ root \in A /\ \A p \in A : rank[p] \in 0 .. N /\ p \in DOMAIN nodes
      /\ \A p \in DOMAIN nodes : f[p] = Leaving(f, r, p)
  BY <1>2 DEF Forest, Ranked, Hung
<1>5. 0 \in S
  BY <1>4
<1>6. ASSUME NEW n \in Nat, n \in S PROVE n + 1 \in S
  <2> SUFFICES ASSUME NEW p \in A, rank[p] < n + 1 PROVE From(nodes, A, rank, N, root, p, f[p], r)
    BY <1>6
  <2>1. p \in DOMAIN nodes /\ f[p] = Leaving(f, r, p)
    BY <1>4
  <2>2. CASE f[p] = RT!Nowhere
    <3>1. ~ f[p].removed
      BY <2>2 DEF RT!Nowhere
    <3> QED
      BY <3>1 DEF From
  <2>3. CASE nodes[p].leaf /\ f[p] # RT!Nowhere
    <3> DEFINE i == Mine(r, p)
    <3>1. i # 0 /\ f[p] = RT!Removal(nodes, p, RT!RemoveAt(nodes[p].entries, i))
      BY <2>1, <2>3 DEF Leaving
    <3>2. i \in DOMAIN nodes[p].entries /\ r = nodes[p].entries[i].ref
      BY <1>1, <2>1, <3>1, MineIs
    <3> HIDE DEF i
    <3>3. From(nodes, A, rank, N, root, p, RT!Removal(nodes, p, RT!RemoveAt(nodes[p].entries, i)), r)
      BY <2>3, <3>2, LeafFrom
    <3> QED
      BY <3>1, <3>3
  <2>4. CASE ~ nodes[p].leaf /\ f[p] # RT!Nowhere
    <3> DEFINE F == Found(f, r, p)
               i == FirstOf(F)
               k == nodes[p].entries[i].ref
    <3>1. F # {} /\ f[p] = Through(f, p, i)
      BY <2>1, <2>4 DEF Leaving
    <3>2. i \in F /\ F \subseteq DOMAIN nodes[p].entries
      BY <1>1, <2>1, <3>1, FoundNat, FirstOfIn, SMTT(60)
    <3>3. i \in DOMAIN nodes[p].entries /\ f[k].removed
      BY <3>2, Zenon DEF Found
    <3> HIDE DEF F, i
    <3>4. k \in Kids(nodes, p)
      BY <2>4, <3>3 DEF Kids, Refs
    <3>5. k \in A /\ rank[k] < n
      <4>1. k \in A /\ rank[k] \in Nat /\ rank[k] + 1 = rank[p] /\ rank[p] \in Nat
        BY <3>4, ForestTypes
      <4> QED
        BY <4>1
    <3>6. From(nodes, A, rank, N, root, k, f[k], r)
      BY <1>6, <3>5
    <3>7. f[p] = RT!Removal(f[k].pages, p, LeftAbove(f[k].pages, nodes[p].entries, i))
      BY <3>1 DEF Through
    <3>8. From(nodes, A, rank, N, root, p, RT!Removal(f[k].pages, p, LeftAbove(f[k].pages, nodes[p].entries, i)), r)
      BY <2>4, <3>3, <3>6, InnerFrom
    <3> QED
      BY <3>7, <3>8
  <2> QED
    BY <2>2, <2>3, <2>4
<1>7. Nat \subseteq S
  <2> HIDE DEF S
  <2> QED
    BY <1>5, <1>6, NatSetInduction
<1>8. N + 1 \in S /\ rank[root] < N + 1
  BY <1>1, <1>4, <1>7
<1> QED
  BY <1>3, <1>4, <1>8

-----------------------------------------------------------------------------
(* What a delete makes of the top: an emptied one is an empty leaf again,   *)
(* and one with a single child gives way to it.                             *)
LEMMA TopEmptied ==
  ASSUME NEW qs, NEW B, NEW t, NEW rank, NEW N, Forest(qs, B, {t}, rank, N, {t}), qs[t].entries = <<>>
  PROVE  LET ns == [qs EXCEPT ![t] = RT!Leaf(<<>>)]
         IN /\ Tree(ns, t, {t}) /\ RowsUnder(ns, {t}) = {} /\ RowsUnder(qs, B) = {}
<1> DEFINE x == RT!Leaf(<<>>)
           ns == [qs EXCEPT ![t] = x]
<1>1. /\ qs \in Seq(NodeSet) /\ N \in Nat /\ t \in DOMAIN qs /\ t \in B /\ rank \in [DOMAIN qs -> 0 .. N]
      /\ \A q \in DOMAIN qs : \A k \in Kids(qs, q) : k \in DOMAIN qs /\ rank[k] < rank[q]
  BY DEF Forest, Ranked, Hung
<1>2. x \in NodeSet /\ x.leaf = TRUE /\ x.entries = <<>>
  BY DEF RT!Leaf, NodeSet
<1>3. Refs(qs, t) = {} /\ Kids(qs, t) = {}
  BY DEF Refs, Kids
<1>4. B = {t}
  <2>1. Grows(qs, t, {t})
    BY <1>1, <1>3 DEF Grows, Closed
  <2>2. B \subseteq {t}
    BY <2>1, TreeIsLeast DEF Spans
  <2> QED
    BY <1>1, <2>2
<1>5. RowsUnder(qs, B) = {}
  BY <1>3, <1>4 DEF RowsUnder
<1> HIDE DEF x
<1>6. /\ ns \in Seq(NodeSet) /\ DOMAIN ns = DOMAIN qs /\ ns[t] = x /\ \A q \in DOMAIN qs : q # t => ns[q] = qs[q]
  <2>1. Len(qs) \in Nat /\ DOMAIN qs = 1 .. Len(qs)
    BY <1>1
  <2> QED
    BY <1>1, <1>2, <2>1
<1> HIDE DEF ns
<1>7. /\ Refs(ns, t) = {} /\ Kids(ns, t) = {} /\ ns[t].leaf = TRUE /\ ns[t].entries = <<>>
      /\ \A q \in DOMAIN qs : q # t => Kids(ns, q) = Kids(qs, q)
  <2>1. ns[t].leaf = TRUE /\ ns[t].entries = <<>>
    BY <1>2, <1>6
  <2>2. \A q \in DOMAIN qs : q # t => Kids(ns, q) = Kids(qs, q)
    BY <1>6 DEF Refs, Kids
  <2>3. DOMAIN ns[t].entries = {}
    BY <2>1
  <2>4. Refs(ns, t) = {}
    BY <2>3 DEF Refs
  <2>5. Kids(ns, t) = {}
    BY <2>1 DEF Kids
  <2> QED
    BY <2>1, <2>2, <2>4, <2>5
<1>8. Ranked(ns, rank, N)
  BY <1>1, <1>6, <1>7 DEF Ranked
<1>9. Levels(ns, {t}, rank) /\ Hung(ns, {t}, {t})
  BY <1>1, <1>6, <1>7 DEF Levels, Hung
<1>10. DOMAIN ns[t].entries = {} /\ Len(ns[t].entries) = 0
  BY <1>7
<1>11. Apart(ns, {t}) /\ Filled(ns, {t}, {t}, {}) /\ Tight(ns, {t}, {}) /\ Pointed(ns, {t})
  <2>1. 0 <= Capacity
    BY PointsAssumption
  <2> QED
    BY <1>7, <1>10, <2>1 DEF Apart, Filled, Tight, Pointed
<1>12. Forest(ns, {t}, {t}, rank, N, {})
  BY <1>1, <1>6, <1>8, <1>9, <1>11 DEF Forest
<1>13. RowsUnder(ns, {t}) = {}
  BY <1>7 DEF RowsUnder
<1>14. Tree(ns, t, {t})
  BY <1>12 DEF Tree
<1> QED
  BY <1>5, <1>13, <1>14 DEF ns, x

LEMMA TopShrunk ==
  ASSUME NEW ps, NEW A, NEW t, NEW rank, NEW N, Forest(ps, A, {t}, rank, N, {}),
         ~ ps[t].leaf, Len(ps[t].entries) = 1
  PROVE  /\ Tree(ps, ps[t].entries[1].ref, A \ {t})
         /\ RowsUnder(ps, A \ {t}) = RowsUnder(ps, A)
<1> DEFINE k == ps[t].entries[1].ref
           B == A \ {t}
<1>1. /\ ps \in Seq(NodeSet) /\ N \in Nat /\ t \in A /\ A \subseteq DOMAIN ps
      /\ \A p \in A : p \in {t} \/ \E q \in A : p \in Kids(ps, q)
      /\ \A p \in A : \A x \in Kids(ps, p) : x \in A /\ rank[x] + 1 = rank[p] /\ x # t
  BY DEF Forest, Hung, Levels
<1>2. DOMAIN ps[t].entries = {1}
  BY <1>1, PageTypes
<1>3. Kids(ps, t) = {k}
  BY <1>2 DEF Kids, Refs
<1> HIDE DEF k, B
<1>4. \A p \in B : p \in A /\ p # t
  BY DEF B
<1>5. k \in B /\ B \subseteq A
  BY <1>1, <1>3 DEF B
<1>6. ASSUME NEW p \in B PROVE k \notin Kids(ps, p)
  <2> SUFFICES ASSUME k \in Kids(ps, p) PROVE FALSE
    OBVIOUS
  <2>1. ~ ps[p].leaf /\ k \in Refs(ps, p) /\ k \in Refs(ps, t)
    BY <1>3 DEF Kids
  <2>2. ps[p].leaf = ps[t].leaf
    BY <1>1, <1>4, <2>1, PageTypes
  <2>3. Apart(ps, A)
    BY DEF Forest
  <2> QED
    BY <1>1, <1>4, <2>1, <2>2, <2>3, RefsApart
<1>7. Levels(ps, B, rank)
  BY <1>1, <1>4 DEF Levels, B
<1>8. Hung(ps, B, {k})
  <2>1. ASSUME NEW p \in B PROVE p \in {k} \/ \E q \in B : p \in Kids(ps, q)
    <3>1. PICK q \in A : p \in Kids(ps, q)
      BY <1>1, <1>4
    <3>2. CASE q = t
      BY <1>3, <3>1, <3>2
    <3>3. CASE q # t
      BY <3>1, <3>3 DEF B
    <3> QED
      BY <3>2, <3>3
  <2> QED
    BY <1>1, <1>5, <1>6, <2>1 DEF Hung
<1>9. Apart(ps, B) /\ Tight(ps, B, {}) /\ Pointed(ps, B)
  BY <1>4 DEF Forest, Apart, Tight, Pointed
<1>10. Filled(ps, B, {k}, {})
  BY <1>4 DEF Forest, Filled
<1>11. Forest(ps, B, {k}, rank, N, {})
  BY <1>7, <1>8, <1>9, <1>10 DEF Forest
<1>12. RowsUnder(ps, B) = RowsUnder(ps, A)
  BY DEF RowsUnder, B
<1>13. Tree(ps, k, B)
  BY <1>11 DEF Tree
<1> QED
  BY <1>12, <1>13 DEF k, B

LEMMA TreeDelete ==
  ASSUME NEW A, Tree(nodes, root, A), NEW r, RT!Delete(r)
  PROVE  \/ UNCHANGED <<nodes, root>>
         \/ /\ r \in RowsUnder(nodes, A)
            /\ \E B : Tree(nodes', root', B) /\ RowsUnder(nodes', B) = RowsUnder(nodes, A) \ {r}
<1> DEFINE done == RT!DeleteBelow(nodes, root, r)
           qs == done.pages
           top == qs[root]
<1>1. PICK rank, N : Forest(nodes, A, {root}, rank, N, {})
  BY DEF Tree
<1>2. /\ ~ done.removed => UNCHANGED <<nodes, root>>
      /\ done.removed =>
           /\ nodes' = IF top.entries = <<>> THEN [qs EXCEPT ![root] = RT!Leaf(<<>>)] ELSE qs
           /\ root' = IF ~ top.leaf /\ Len(top.entries) = 1 THEN top.entries[1].ref ELSE root
  BY DEF RT!Delete, RT!rtreeVars
<1>3. From(nodes, A, rank, N, root, root, done, r)
  BY <1>1, DeletedBelow
<1> HIDE DEF done
<1>4. CASE ~ done.removed
  BY <1>2, <1>4
<1>5. CASE done.removed
  <2>1. PICK B : FromWith(nodes, A, rank, N, root, root, done, r, B)
    BY <1>3, <1>5 DEF From
  <2>2. /\ Forest(qs, B, {root}, rank, N, {root})
        /\ r \in RowsUnder(nodes, A) /\ RowsUnder(qs, B) = RowsUnder(nodes, A) \ {r}
    BY <2>1 DEF FromWith
  <2> HIDE DEF qs
  <2>3. CASE top.entries = <<>>
    <3> DEFINE ns == [qs EXCEPT ![root] = RT!Leaf(<<>>)]
    <3>1. nodes' = ns /\ root' = root
      <4>1. Len(top.entries) # 1
        BY <2>3
      <4> QED
        BY <1>2, <1>5, <2>3, <4>1
    <3>2. Tree(ns, root, {root}) /\ RowsUnder(ns, {root}) = {} /\ RowsUnder(qs, B) = {}
      BY <2>2, <2>3, TopEmptied
    <3> HIDE DEF ns
    <3> QED
      BY <2>2, <3>1, <3>2
  <2>4. CASE top.entries # <<>>
    <3>1. nodes' = qs
      BY <1>2, <1>5, <2>4
    <3>2. Forest(qs, B, {root}, rank, N, {})
      BY <2>2, <2>4, TopSettled
    <3>3. CASE ~ top.leaf /\ Len(top.entries) = 1
      <4>1. root' = top.entries[1].ref
        BY <1>2, <1>5, <3>3
      <4>2. Tree(qs, top.entries[1].ref, B \ {root}) /\ RowsUnder(qs, B \ {root}) = RowsUnder(qs, B)
        BY <3>2, <3>3, TopShrunk
      <4> HIDE DEF top
      <4> QED
        BY <2>2, <3>1, <4>1, <4>2
    <3>4. CASE ~ (~ top.leaf /\ Len(top.entries) = 1)
      <4>1. root' = root
        BY <1>2, <1>5, <3>4
      <4>2. Tree(qs, root, B)
        BY <3>2 DEF Tree
      <4> QED
        BY <2>2, <3>1, <4>1, <4>2
    <3> QED
      BY <3>3, <3>4
  <2> QED
    BY <2>3, <2>4
<1> QED
  BY <1>4, <1>5

-----------------------------------------------------------------------------
(* The R-tree as a file of the table.                                       *)
TreeInv ==
  kind = "rtree" => Tree(nodes, root, RT!Reachable) /\ unique = FALSE /\ raised = "nothing"

TreeRows == RowsUnder(nodes, RT!Reachable)

LEMMA PagesReachable == \A A : Tree(nodes, root, A) => RT!Reachable = A
BY ReachableIsTree DEF Tree

LEMMA PagesReachableThen == (\A A : Tree(nodes, root, A) => RT!Reachable = A)'
BY PagesReachable, PTL

LEMMA TreeViews ==
  kind = "rtree" => Indexed = {<<Point[r], r>> : r \in TreeRows} /\ ~ Sequential /\ ~ Vectorial
<1>1. RT!Indexed = TreeRows
  <2>1. \A p : Refs(nodes, p) = {e.ref : e \in RT!ToSet(nodes[p].entries)}
    BY DEF Refs, RT!ToSet
  <2> QED
    BY <2>1 DEF RT!Indexed, RowsUnder, TreeRows
<1>2. kind = "rtree" => Indexed = {<<Point[r], r>> : r \in RT!Indexed}
  BY DEF Indexed, Sequential, Vectorial
<1> QED
  BY <1>1, <1>2 DEF Sequential, Vectorial

LEMMA TreeStarts ==
  ASSUME Init, kind = "rtree"
  PROVE  TreeInv /\ TreeRows = {}
<1> DEFINE rank == [p \in {1} |-> 0]
<1>1. nodes = <<RT!Leaf(<<>>)>> /\ root = 1 /\ unique = FALSE /\ raised = "nothing"
  BY DEF Init, RT!Init
<1>2. /\ DOMAIN nodes = {1} /\ nodes[1].leaf = TRUE /\ nodes[1].entries = <<>>
      /\ nodes \in Seq(NodeSet)
  <2>1. RT!Leaf(<<>>) \in NodeSet
    BY DEF RT!Leaf, NodeSet
  <2> QED
    BY <1>1, <2>1 DEF RT!Leaf
<1>3. DOMAIN nodes[1].entries = {} /\ Len(nodes[1].entries) = 0
  BY <1>2
<1>4. Refs(nodes, 1) = {} /\ Kids(nodes, 1) = {}
  BY <1>2, <1>3 DEF Refs, Kids
<1>5. Ranked(nodes, rank, 0)
  BY <1>2, <1>4 DEF Ranked
<1>6. Levels(nodes, {1}, rank) /\ Hung(nodes, {1}, {1})
  BY <1>2, <1>4 DEF Levels, Hung
<1>7. Apart(nodes, {1}) /\ Filled(nodes, {1}, {1}, {}) /\ Tight(nodes, {1}, {}) /\ Pointed(nodes, {1})
  <2>1. 0 <= Capacity
    BY PointsAssumption
  <2> QED
    BY <1>2, <1>3, <2>1 DEF Apart, Filled, Tight, Pointed
<1>8. Tree(nodes, root, {1})
  <2>1. Forest(nodes, {1}, {1}, rank, 0, {})
    BY <1>2, <1>5, <1>6, <1>7 DEF Forest
  <2> QED
    BY <1>1, <2>1 DEF Tree
<1>9. RT!Reachable = {1}
  BY <1>8, PagesReachable
<1>10. TreeRows = {}
  BY <1>4, <1>9 DEF TreeRows, RowsUnder
<1> QED
  BY <1>1, <1>8, <1>9, <1>10 DEF TreeInv

LEMMA TreeStepKeeps ==
  ASSUME TreeInv, kind = "rtree", Next
  PROVE  /\ TreeInv' /\ (kind = "rtree")' /\ unique' = unique /\ raised' = "nothing"
         /\ \/ TreeRows' = TreeRows
            \/ \E r : r \notin TreeRows /\ TreeRows' = TreeRows \union {r}
            \/ \E r : r \in TreeRows /\ TreeRows' = TreeRows \ {r}
<1>1. Tree(nodes, root, RT!Reachable) /\ unique = FALSE /\ raised = "nothing"
  BY DEF TreeInv
<1>2. kind' = kind
  BY DEF Next
<1>3. (\A A : Tree(nodes, root, A) => RT!Reachable = A)'
  BY PagesReachableThen
<1>4. Indexed = {<<Point[r], r>> : r \in TreeRows} /\ ~ Sequential /\ ~ Vectorial
  BY TreeViews
<1>5. /\ UNCHANGED <<unique, raised>>
      /\ \/ \E r \in DOMAIN Point : r \notin TreeRows /\ RT!Insert(r)
         \/ \E r : RT!Delete(r)
  <2>1. CASE \E e \in Row \ Indexed : MayHold(e[1], e[2]) /\ Insert(e[1], e[2])
    <3>1. PICK e \in Row \ Indexed : Insert(e[1], e[2])
      BY <2>1
    <3>2. Row = {<<Point[r], r>> : r \in DOMAIN Point}
      BY <1>4 DEF Row, Sequential, Vectorial
    <3>3. PICK r \in DOMAIN Point : e = <<Point[r], r>>
      BY <3>1, <3>2
    <3>4. r \notin TreeRows /\ e[2] = r
      BY <1>4, <3>1, <3>3
    <3>5. RT!Insert(e[2]) /\ UNCHANGED <<unique, raised>>
      BY <1>4, <3>1 DEF Insert
    <3> QED
      BY <3>4, <3>5
  <2>2. CASE \E e \in Indexed : Delete(e[1], e[2])
    <3>1. PICK e \in Indexed : Delete(e[1], e[2])
      BY <2>2
    <3>2. RT!Delete(e[2]) /\ UNCHANGED <<unique, raised>>
      BY <3>1 DEF Delete, Sequential, Vectorial
    <3> QED
      BY <3>2
  <2>3. ~ Reorganize /\ ~ Rank /\ ~ Load /\ ~ Rebuild /\ (\A k : ~ Ask(k)) /\ (\A k, r, new : ~ Update(k, r, new))
    BY <1>4 DEF Reorganize, Rank, Load, Rebuild, Ask, Update
  <2> QED
    BY <2>1, <2>2, <2>3 DEF Next
<1>6. ASSUME NEW B, Tree(nodes', root', B) PROVE TreeInv' /\ TreeRows' = RowsUnder(nodes', B)
  <2>1. Tree(nodes, root, B)'
    BY <1>6
  <2>2. RT!Reachable' = B
    BY <1>3, <2>1
  <2> QED
    BY <1>1, <1>5, <2>1, <2>2 DEF TreeInv, TreeRows
<1>7. CASE \E r \in DOMAIN Point : r \notin TreeRows /\ RT!Insert(r)
  <2>1. PICK r \in DOMAIN Point : r \notin TreeRows /\ RT!Insert(r)
    BY <1>7
  <2>2. PICK B : Tree(nodes', root', B) /\ RowsUnder(nodes', B) = TreeRows \union {r}
    BY <1>1, <2>1, TreeInsert DEF TreeRows
  <2> QED
    BY <1>1, <1>2, <1>5, <1>6, <2>1, <2>2
<1>8. CASE \E r : RT!Delete(r)
  <2>1. PICK r : RT!Delete(r)
    BY <1>8
  <2>2. \/ UNCHANGED <<nodes, root>>
        \/ /\ r \in TreeRows
           /\ \E B : Tree(nodes', root', B) /\ RowsUnder(nodes', B) = TreeRows \ {r}
    BY <1>1, <2>1, TreeDelete DEF TreeRows
  <2>3. CASE UNCHANGED <<nodes, root>>
    <3>1. Tree(nodes', root', RT!Reachable)
      BY <1>1, <2>3
    <3> QED
      BY <1>1, <1>2, <1>5, <1>6, <2>3, <3>1 DEF TreeRows
  <2>4. CASE r \in TreeRows /\ \E B : Tree(nodes', root', B) /\ RowsUnder(nodes', B) = TreeRows \ {r}
    BY <1>1, <1>2, <1>5, <1>6, <2>4
  <2> QED
    BY <2>2, <2>3, <2>4
<1> QED
  BY <1>5, <1>7, <1>8

LEMMA TreeSame ==
  ASSUME TreeInv, UNCHANGED <<kind, nodes, root, unique, raised>>
  PROVE  TreeInv' /\ (kind = "rtree" => TreeRows' = TreeRows)
<1>1. CASE kind # "rtree"
  BY <1>1 DEF TreeInv
<1>2. CASE kind = "rtree"
  <2>1. PICK A : A = RT!Reachable
    OBVIOUS
  <2>2. Tree(nodes, root, A) /\ unique = FALSE /\ raised = "nothing"
    BY <1>2, <2>1 DEF TreeInv
  <2>3. Tree(nodes, root, A)'
    BY <2>2
  <2>4. (\A B : Tree(nodes, root, B) => RT!Reachable = B)'
    BY PagesReachableThen
  <2>5. RT!Reachable' = A
    BY <2>3, <2>4
  <2>6. TreeRows' = TreeRows
    BY <2>1, <2>5 DEF TreeRows
  <2> QED
    BY <2>2, <2>3, <2>5, <2>6 DEF TreeInv
<1> QED
  BY <1>1, <1>2

LEMMA TreeInvHolds == Spec => []TreeInv
<1>1. Init => TreeInv
  BY TreeStarts DEF TreeInv
<1>2. TreeInv /\ [Next]_vars => TreeInv'
  <2>1. SUFFICES ASSUME TreeInv, [Next]_vars PROVE TreeInv'
    OBVIOUS
  <2>2. CASE UNCHANGED vars
    BY <2>1, <2>2, TreeSame DEF vars
  <2>3. CASE Next
    <3>1. CASE kind = "rtree"
      BY <2>1, <2>3, <3>1, TreeStepKeeps
    <3>2. CASE kind # "rtree"
      BY <2>3, <3>2 DEF Next, TreeInv
    <3> QED
      BY <3>1, <3>2
  <2> QED
    BY <2>1, <2>2, <2>3
<1> QED
  BY <1>1, <1>2, PTL DEF Spec

-----------------------------------------------------------------------------
(* The box of a page holds the boxes of its entries.                        *)
LEMMA UnionHolds ==
  ASSUME NEW b \in BoxSet, NEW c \in BoxSet, NEW q \in Int \X Int, RT!BoxContains(b, q) \/ RT!BoxContains(c, q)
  PROVE  RT!BoxContains(RT!BoxUnion(b, c), q)
<1>1. /\ b.x0 \in Int /\ b.x1 \in Int /\ b.y0 \in Int /\ b.y1 \in Int
      /\ c.x0 \in Int /\ c.x1 \in Int /\ c.y0 \in Int /\ c.y1 \in Int
      /\ q[1] \in Int /\ q[2] \in Int
  BY DEF BoxSet
<1> DEFINE u == RT!BoxUnion(b, c)
<1>2. /\ u.x0 = RT!Least(b.x0, c.x0) /\ u.y0 = RT!Least(b.y0, c.y0)
      /\ u.x1 = RT!Greatest(b.x1, c.x1) /\ u.y1 = RT!Greatest(b.y1, c.y1)
  BY DEF RT!BoxUnion, RT!Box
<1> HIDE DEF u
<1>3. /\ u.x0 \in Int /\ u.x0 <= b.x0 /\ u.x0 <= c.x0
      /\ u.y0 \in Int /\ u.y0 <= b.y0 /\ u.y0 <= c.y0
      /\ u.x1 \in Int /\ b.x1 <= u.x1 /\ c.x1 <= u.x1
      /\ u.y1 \in Int /\ b.y1 <= u.y1 /\ c.y1 <= u.y1
  <2>1. u.x0 \in Int /\ u.x0 <= b.x0 /\ u.x0 <= c.x0
    BY <1>1, <1>2 DEF RT!Least, RT!Greatest
  <2>2. u.y0 \in Int /\ u.y0 <= b.y0 /\ u.y0 <= c.y0
    BY <1>1, <1>2 DEF RT!Least, RT!Greatest
  <2>3. u.x1 \in Int /\ b.x1 <= u.x1 /\ c.x1 <= u.x1
    BY <1>1, <1>2 DEF RT!Least, RT!Greatest
  <2>4. u.y1 \in Int /\ b.y1 <= u.y1 /\ c.y1 <= u.y1
    BY <1>1, <1>2 DEF RT!Least, RT!Greatest
  <2> QED
    BY <2>1, <2>2, <2>3, <2>4
<1>4. RT!BoxContains(u, q)
  BY <1>1, <1>3 DEF RT!BoxContains
<1> QED
  BY <1>4 DEF u

LEMMA MbrHolds ==
  ASSUME NEW es \in Seq(EntrySet), NEW i \in DOMAIN es, NEW q \in Int \X Int, RT!BoxContains(es[i].mbr, q)
  PROVE  RT!BoxContains(RT!Mbr(es), q)
<1>1. es # <<>> /\ Len(es) \in Nat /\ i \in 1 .. Len(es) /\ \A n \in 1 .. Len(es) : es[n].mbr \in BoxSet
  <2>1. \A n \in 1 .. Len(es) : es[n] \in EntrySet
    OBVIOUS
  <2> QED
    BY <2>1 DEF EntrySet
<1>2. MbrSteps(es)
  BY <1>1, MbrStepped
<1>3. PICK u : MbrStepsWith(es, u)
  BY <1>2 DEF MbrSteps
<1> DEFINE N == Len(es)
           S == {n \in 0 .. N : i <= n => RT!BoxContains(u[n], q)}
<1>4. 0 \in S
  BY <1>1
<1>5. ASSUME NEW n \in 1 .. N, n - 1 \in S PROVE n \in S
  <2>1. u[n] = RT!BoxUnion(u[n - 1], es[n].mbr) /\ u[n - 1] \in BoxSet /\ es[n].mbr \in BoxSet /\ n \in 0 .. N
    <3>1. n - 1 \in 0 .. N /\ n \in 0 .. N
      BY <1>1
    <3> QED
      BY <1>1, <1>3, <3>1 DEF MbrStepsWith
  <2>2. ASSUME i <= n PROVE RT!BoxContains(u[n - 1], q) \/ RT!BoxContains(es[n].mbr, q)
    <3>1. CASE i = n
      BY <3>1
    <3>2. CASE i # n
      <4>1. i <= n - 1
        BY <1>1, <2>2, <3>2
      <4> QED
        BY <1>5, <4>1
    <3> QED
      BY <3>1, <3>2
  <2>3. i <= n => RT!BoxContains(u[n], q)
    BY <2>1, <2>2, UnionHolds
  <2> QED
    BY <2>1, <2>3
<1>6. 0 .. N \subseteq S
  <2> HIDE DEF S
  <2> QED
    BY <1>1, <1>4, <1>5, BoundedInduction
<1>7. RT!BoxContains(u[N], q)
  <2>1. N \in S /\ i <= N
    BY <1>1, <1>6
  <2> QED
    BY <2>1
<1> QED
  BY <1>3, <1>7 DEF MbrStepsWith

(* What holds of a page and of every page above one of which it holds, is   *)
(* true of the top.                                                         *)
LEMMA TopReached ==
  ASSUME NEW ps, NEW A, NEW t, NEW rank, NEW N, NEW L, Forest(ps, A, {t}, rank, N, L),
         NEW G, NEW p \in A, p \in G, \A q \in A : \A k \in Kids(ps, q) : k \in G => q \in G
  PROVE  t \in G
<1> SUFFICES ASSUME t \notin G PROVE FALSE
  OBVIOUS
<1>1. t \in A /\ A \subseteq DOMAIN ps /\ \A q \in A : \A k \in Kids(ps, q) : k \in A
  BY DEF Forest, Hung, Levels
<1>2. Grows(ps, t, A \ G)
  BY <1>1 DEF Grows, Closed
<1>3. A \subseteq A \ G
  BY <1>2, TreeIsLeast DEF Spans
<1> QED
  BY <1>3

(* Where a point in the box of a child is in the box kept for it.           *)
LEMMA BoxAbove ==
  ASSUME NEW ps, NEW A, NEW T, NEW rank, NEW N, Forest(ps, A, T, rank, N, {}),
         NEW p \in A, NEW k \in Kids(ps, p), NEW q \in Int \X Int, RT!BoxContains(RT!Mbr(ps[k].entries), q)
  PROVE  /\ \E i \in DOMAIN ps[p].entries : ps[p].entries[i].ref = k /\ RT!BoxContains(ps[p].entries[i].mbr, q)
         /\ RT!BoxContains(RT!Mbr(ps[p].entries), q)
<1>1. ps[p].entries \in Seq(EntrySet)
  BY ForestTypes DEF EntryList
<1>2. ~ ps[p].leaf
  BY DEF Kids
<1>3. PICK i \in DOMAIN ps[p].entries : ps[p].entries[i].ref = k
  BY <1>2 DEF Kids, Refs
<1>4. ps[p].entries[i].mbr = RT!Mbr(ps[k].entries)
  BY <1>2, <1>3 DEF Forest, Tight, TightEntry
<1>5. RT!BoxContains(ps[p].entries[i].mbr, q)
  BY <1>4
<1>6. RT!BoxContains(RT!Mbr(ps[p].entries), q)
  BY <1>1, <1>5, MbrHolds
<1> QED
  BY <1>3, <1>5, <1>6

(* A leaf with a row has the point of the row in its box.                   *)
LEMMA BoxAround ==
  ASSUME NEW ps, NEW A, NEW T, NEW rank, NEW N, NEW L, Forest(ps, A, T, rank, N, L),
         NEW p \in A, ps[p].leaf, NEW i \in DOMAIN ps[p].entries
  PROVE  LET e == ps[p].entries[i]
         IN /\ e.ref \in DOMAIN Point /\ Point[e.ref] \in Int \X Int
            /\ e.mbr.x0 = Point[e.ref][1] /\ e.mbr.y0 = Point[e.ref][2]
            /\ RT!BoxContains(e.mbr, Point[e.ref])
            /\ RT!BoxContains(RT!Mbr(ps[p].entries), Point[e.ref])
<1> DEFINE e == ps[p].entries[i]
           q == Point[e.ref]
<1>1. ps[p].entries \in Seq(EntrySet)
  BY ForestTypes DEF EntryList
<1>2. e.ref \in DOMAIN Point /\ e.mbr = RT!BoxOf(q)
  BY DEF Forest, Pointed, PointEntry
<1>3. q \in Int \X Int
  BY <1>2, PointsAssumption
<1> HIDE DEF q
<1>4. q[1] \in Int /\ q[2] \in Int
  BY <1>3
<1>5. e.mbr.x0 = q[1] /\ e.mbr.y0 = q[2] /\ e.mbr.x1 = q[1] /\ e.mbr.y1 = q[2]
  BY <1>2 DEF RT!BoxOf, RT!Box
<1>6. RT!BoxContains(e.mbr, q)
  BY <1>4, <1>5 DEF RT!BoxContains
<1>7. RT!BoxContains(RT!Mbr(ps[p].entries), q)
  BY <1>1, <1>3, <1>6, MbrHolds
<1> QED
  BY <1>2, <1>3, <1>5, <1>6, <1>7 DEF q

-----------------------------------------------------------------------------
(* A window.                                                                *)
Hit(p, w) == {e \in RT!ToSet(nodes[p].entries) : RT!Intersects(e.mbr, w)}

Seeing(f, w, p) ==
  IF nodes[p].leaf THEN {e.ref : e \in {x \in Hit(p, w) : RT!BoxContains(w, <<x.mbr.x0, x.mbr.y0>>)}}
  ELSE UNION {f[e.ref] : e \in Hit(p, w)}

LEMMA SeeingIs ==
  ASSUME NEW f, NEW w, NEW p, NEW r
  PROVE  LET es == nodes[p].entries
         IN /\ nodes[p].leaf => (r \in Seeing(f, w, p) <=>
                 \E i \in DOMAIN es : /\ r = es[i].ref /\ RT!Intersects(es[i].mbr, w)
                                      /\ RT!BoxContains(w, <<es[i].mbr.x0, es[i].mbr.y0>>))
            /\ ~ nodes[p].leaf => (r \in Seeing(f, w, p) <=>
                 \E i \in DOMAIN es : RT!Intersects(es[i].mbr, w) /\ r \in f[es[i].ref])
<1> DEFINE es == nodes[p].entries
<1>1. \A e : e \in Hit(p, w) <=> \E i \in DOMAIN es : e = es[i] /\ RT!Intersects(e.mbr, w)
  BY DEF Hit, RT!ToSet
<1> HIDE DEF es
<1>2. ASSUME nodes[p].leaf
      PROVE  r \in Seeing(f, w, p) <=>
               \E i \in DOMAIN es : /\ r = es[i].ref /\ RT!Intersects(es[i].mbr, w)
                                    /\ RT!BoxContains(w, <<es[i].mbr.x0, es[i].mbr.y0>>)
  <2>1. r \in Seeing(f, w, p) <=>
          \E e \in Hit(p, w) : r = e.ref /\ RT!BoxContains(w, <<e.mbr.x0, e.mbr.y0>>)
    BY <1>2 DEF Seeing
  <2> QED
    BY <1>1, <2>1
<1>3. ASSUME ~ nodes[p].leaf
      PROVE  r \in Seeing(f, w, p) <=> \E i \in DOMAIN es : RT!Intersects(es[i].mbr, w) /\ r \in f[es[i].ref]
  <2>1. r \in Seeing(f, w, p) <=> \E e \in Hit(p, w) : r \in f[e.ref]
    BY <1>3 DEF Seeing
  <2> QED
    BY <1>1, <2>1
<1> QED
  BY <1>2, <1>3 DEF es

LEMMA SeeingSame ==
  ASSUME NEW f, NEW g, NEW w, NEW p, \A k \in Kids(nodes, p) : f[k] = g[k]
  PROVE  Seeing(f, w, p) = Seeing(g, w, p)
<1>1. CASE nodes[p].leaf
  BY <1>1 DEF Seeing
<1>2. CASE ~ nodes[p].leaf
  <2>1. \A e \in Hit(p, w) : e.ref \in Kids(nodes, p)
    BY <1>2 DEF Hit, Kids, Refs, RT!ToSet
  <2>2. {f[e.ref] : e \in Hit(p, w)} = {g[e.ref] : e \in Hit(p, w)}
    BY <2>1
  <2> QED
    BY <1>2, <2>2 DEF Seeing
<1> QED
  BY <1>1, <1>2

LEMMA SeeingExists ==
  ASSUME NEW rank, NEW N \in Nat, Ranked(nodes, rank, N), NEW w
  PROVE  \E f : f = [p \in DOMAIN nodes |-> Seeing(f, w, p)]
<1> DEFINE D == DOMAIN nodes
           Low(n) == {p \in D : rank[p] < n}
           S == {n \in Nat : \E f : f = [p \in Low(n) |-> Seeing(f, w, p)]}
<1>1. /\ \A p \in D : rank[p] \in 0 .. N
      /\ \A p \in D : \A k \in Kids(nodes, p) : k \in D /\ rank[k] < rank[p]
  BY DEF Ranked
<1> HIDE DEF D
<1>2. 0 \in S
  <2>1. Low(0) = {}
    BY <1>1
  <2> DEFINE f == [p \in Low(0) |-> {}]
  <2>2. f = [p \in Low(0) |-> Seeing(f, w, p)]
    BY <2>1
  <2> QED
    BY <2>2
<1>3. ASSUME NEW n \in Nat, n \in S PROVE n + 1 \in S
  <2>1. PICK f : f = [p \in Low(n) |-> Seeing(f, w, p)]
    BY <1>3
  <2> DEFINE g == [p \in Low(n + 1) |-> Seeing(f, w, p)]
  <2>2. \A q \in Low(n) : q \in Low(n + 1) /\ g[q] = f[q]
    <3> TAKE q \in Low(n)
    <3>1. q \in Low(n + 1)
      BY <1>1
    <3>2. f[q] = Seeing(f, w, q)
      BY <2>1
    <3> QED
      BY <3>1, <3>2
  <2>3. ASSUME NEW p \in Low(n + 1) PROVE Seeing(g, w, p) = Seeing(f, w, p)
    <3>1. \A k \in Kids(nodes, p) : k \in Low(n)
      BY <1>1
    <3>2. \A k \in Kids(nodes, p) : g[k] = f[k]
      BY <2>2, <3>1
    <3> HIDE DEF g
    <3> QED
      BY <3>2, SeeingSame
  <2>4. g = [p \in Low(n + 1) |-> Seeing(g, w, p)]
    <3> DEFINE h == [p \in Low(n + 1) |-> Seeing(g, w, p)]
    <3>1. \A p \in Low(n + 1) : h[p] = g[p]
      BY <2>3
    <3> QED
      BY <3>1, Zenon
  <2> HIDE DEF g, Low
  <2>5. \E h : h = [p \in Low(n + 1) |-> Seeing(h, w, p)]
    BY <2>4, Zenon
  <2> QED
    BY <2>5
<1>4. N + 1 \in S
  <2> HIDE DEF S
  <2>1. Nat \subseteq S
    BY <1>2, <1>3, NatSetInduction
  <2> QED
    BY <2>1
<1>5. Low(N + 1) = D
  BY <1>1
<1> HIDE DEF Low
<1> QED
  BY <1>4, <1>5, Zenon DEF D

LEMMA BothHold ==
  ASSUME NEW b \in BoxSet, NEW c \in BoxSet, NEW q \in Int \X Int, RT!BoxContains(b, q), RT!BoxContains(c, q)
  PROVE  RT!Intersects(b, c)
<1>1. /\ b.x0 \in Int /\ b.x1 \in Int /\ b.y0 \in Int /\ b.y1 \in Int
      /\ c.x0 \in Int /\ c.x1 \in Int /\ c.y0 \in Int /\ c.y1 \in Int
      /\ q[1] \in Int /\ q[2] \in Int
  BY DEF BoxSet
<1>2. /\ q[1] \in b.x0 .. b.x1 /\ q[2] \in b.y0 .. b.y1
      /\ q[1] \in c.x0 .. c.x1 /\ q[2] \in c.y0 .. c.y1
  BY DEF RT!BoxContains
<1>3. /\ b.x0 <= q[1] /\ q[1] <= b.x1 /\ b.y0 <= q[2] /\ q[2] <= b.y1
      /\ c.x0 <= q[1] /\ q[1] <= c.x1 /\ c.y0 <= q[2] /\ q[2] <= c.y1
  BY <1>1, <1>2
<1> QED
  BY <1>1, <1>3 DEF RT!Intersects

LEMMA WindowExact ==
  ASSUME NEW A, Tree(nodes, root, A), NEW w \in BoxSet
  PROVE  RT!RangeQuery(w) = {r \in RowsUnder(nodes, A) : RT!BoxContains(w, Point[r])}
<1> DEFINE f == CHOOSE g : g = [p \in DOMAIN nodes |-> Seeing(g, w, p)]
           in(r) == RT!BoxContains(w, Point[r])
<1>1. PICK rank, N : Forest(nodes, A, {root}, rank, N, {})
  BY DEF Tree
<1>2. /\ nodes \in Seq(NodeSet) /\ N \in Nat /\ Ranked(nodes, rank, N)
      /\ root \in A /\ A \subseteq DOMAIN nodes
      /\ \A p \in A : rank[p] \in 0 .. N
      /\ \A p \in A : \A k \in Kids(nodes, p) : k \in A /\ rank[k] < rank[p]
  BY <1>1 DEF Forest, Hung, Ranked, Levels
<1>3. f = [p \in DOMAIN nodes |-> Seeing(f, w, p)]
  BY <1>2, SeeingExists, Zenon
<1>4. RT!RangeQuery(w) = f[root]
  BY Zenon DEF RT!RangeQuery, Seeing, Hit
<1> HIDE DEF f
<1>5. \A p \in A : f[p] = Seeing(f, w, p)
  BY <1>2, <1>3
(* What a leaf gives.                                                       *)
<1>6. ASSUME NEW p \in A, nodes[p].leaf, NEW r
      PROVE  r \in f[p] <=> r \in Refs(nodes, p) /\ in(r)
  <2> DEFINE es == nodes[p].entries
  <2>1. ASSUME NEW i \in DOMAIN es
        PROVE  /\ <<es[i].mbr.x0, es[i].mbr.y0>> = Point[es[i].ref]
               /\ in(es[i].ref) => RT!Intersects(es[i].mbr, w)
    <3>1. /\ Point[es[i].ref] \in Int \X Int
          /\ es[i].mbr.x0 = Point[es[i].ref][1] /\ es[i].mbr.y0 = Point[es[i].ref][2]
          /\ RT!BoxContains(es[i].mbr, Point[es[i].ref])
      BY <1>1, <1>6, BoxAround
    <3>2. es[i].mbr \in BoxSet
      BY <1>2, PageTypes, EntryTypes
    <3>3. in(es[i].ref) => RT!Intersects(es[i].mbr, w)
      BY <3>1, <3>2, BothHold
    <3> HIDE DEF in
    <3> QED
      BY <3>1, <3>3, SMTT(30)
  <2>2. r \in f[p] <=> \E i \in DOMAIN es : /\ r = es[i].ref /\ RT!Intersects(es[i].mbr, w)
                                            /\ RT!BoxContains(w, <<es[i].mbr.x0, es[i].mbr.y0>>)
    BY <1>5, <1>6, SeeingIs
  <2>3. r \in Refs(nodes, p) <=> \E i \in DOMAIN es : r = es[i].ref
    BY DEF Refs
  <2> HIDE DEF es
  <2> QED
    BY <2>1, <2>2, <2>3
(* What a page above gives.                                                 *)
<1>7. ASSUME NEW p \in A, ~ nodes[p].leaf, NEW r
      PROVE  r \in f[p] <=> \E i \in DOMAIN nodes[p].entries :
               RT!Intersects(nodes[p].entries[i].mbr, w) /\ r \in f[nodes[p].entries[i].ref]
  BY <1>5, <1>7, SeeingIs
(* Nothing else is seen.                                                    *)
<1>8. ASSUME NEW r, r \in f[root] PROVE r \in RowsUnder(nodes, A) /\ in(r)
  <2> DEFINE Good(p) == r \in f[p] => r \in RowsUnder(nodes, A) /\ in(r)
             S == {n \in Nat : \A p \in A : rank[p] < n => Good(p)}
  <2>1. 0 \in S
    BY <1>2
  <2>2. ASSUME NEW n \in Nat, n \in S PROVE n + 1 \in S
    <3> SUFFICES ASSUME NEW p \in A, rank[p] < n + 1, r \in f[p] PROVE r \in RowsUnder(nodes, A) /\ in(r)
      BY <2>2
    <3>1. CASE nodes[p].leaf
      BY <1>6, <3>1 DEF RowsUnder
    <3>2. CASE ~ nodes[p].leaf
      <4>1. PICK i \in DOMAIN nodes[p].entries : r \in f[nodes[p].entries[i].ref]
        BY <1>7, <3>2
      <4>2. nodes[p].entries[i].ref \in Kids(nodes, p)
        BY <3>2 DEF Kids, Refs
      <4>3. nodes[p].entries[i].ref \in A /\ rank[nodes[p].entries[i].ref] < n
        BY <1>2, <4>2
      <4> QED
        BY <2>2, <4>1, <4>3
    <3> QED
      BY <3>1, <3>2
  <2>3. Nat \subseteq S
    <3> HIDE DEF S
    <3> QED
      BY <2>1, <2>2, NatSetInduction
  <2>4. N + 1 \in S /\ rank[root] < N + 1
    BY <1>2, <2>3
  <2> QED
    BY <1>2, <1>8, <2>4
(* Nothing is missed.                                                       *)
<1>9. ASSUME NEW r, r \in RowsUnder(nodes, A), in(r) PROVE r \in f[root]
  <2> DEFINE q == Point[r]
             G == {p \in A : r \in f[p] /\ RT!BoxContains(RT!Mbr(nodes[p].entries), q)}
  <2>1. PICK p \in A : nodes[p].leaf /\ r \in Refs(nodes, p)
    BY <1>9 DEF RowsUnder
  <2>2. PICK i \in DOMAIN nodes[p].entries : nodes[p].entries[i].ref = r
    BY <2>1 DEF Refs
  <2>3. q \in Int \X Int /\ RT!BoxContains(RT!Mbr(nodes[p].entries), q)
    BY <1>1, <2>1, <2>2, BoxAround
  <2>4. p \in G
    BY <1>6, <1>9, <2>1, <2>3
  <2>5. ASSUME NEW s \in A, NEW k \in Kids(nodes, s), k \in G PROVE s \in G
    <3>1. RT!BoxContains(RT!Mbr(nodes[k].entries), q) /\ r \in f[k]
      BY <2>5
    <3> HIDE DEF q, G
    <3>2. /\ \E j \in DOMAIN nodes[s].entries :
               nodes[s].entries[j].ref = k /\ RT!BoxContains(nodes[s].entries[j].mbr, q)
          /\ RT!BoxContains(RT!Mbr(nodes[s].entries), q)
      BY <1>1, <2>3, <3>1, BoxAbove
    <3>3. PICK j \in DOMAIN nodes[s].entries :
            nodes[s].entries[j].ref = k /\ RT!BoxContains(nodes[s].entries[j].mbr, q)
      BY <3>2
    <3>4. nodes[s].entries[j].mbr \in BoxSet
      BY <1>2, PageTypes, EntryTypes
    <3>5. RT!BoxContains(w, q)
      BY <1>9 DEF q
    <3>6. RT!Intersects(nodes[s].entries[j].mbr, w)
      BY <2>3, <3>3, <3>4, <3>5, BothHold
    <3>7. ~ nodes[s].leaf
      BY DEF Kids
    <3>8. r \in f[s]
      BY <1>7, <3>1, <3>3, <3>6, <3>7
    <3> QED
      BY <3>2, <3>8 DEF G
  <2> HIDE DEF G
  <2>6. root \in G
    BY <1>1, <2>4, <2>5, TopReached
  <2> QED
    BY <2>6 DEF G
<1> HIDE DEF in
<1>10. \A r : r \in f[root] <=> r \in RowsUnder(nodes, A) /\ in(r)
  BY <1>8, <1>9
<1>11. f[root] = {r \in RowsUnder(nodes, A) : in(r)}
  BY <1>10
<1> QED
  BY <1>4, <1>11 DEF in

(* A delete finds the row it is for.                                        *)
LEMMA DeleteFinds ==
  ASSUME NEW A, Tree(nodes, root, A), NEW r \in RowsUnder(nodes, A)
  PROVE  RT!DeleteBelow(nodes, root, r).removed
<1> DEFINE f == CHOOSE g : g = [p \in DOMAIN nodes |-> Leaving(g, r, p)]
           q == Point[r]
           G == {p \in A : f[p].removed /\ RT!BoxContains(RT!Mbr(nodes[p].entries), q)}
<1>1. PICK rank, N : Forest(nodes, A, {root}, rank, N, {})
  BY DEF Tree
<1>2. /\ nodes \in Seq(NodeSet) /\ N \in Nat /\ Ranked(nodes, rank, N)
      /\ root \in A /\ A \subseteq DOMAIN nodes
  BY <1>1 DEF Forest, Hung
<1>3. f = [p \in DOMAIN nodes |-> Leaving(f, r, p)]
  BY <1>2, LeavingExists, Zenon
<1>4. RT!DeleteBelow(nodes, root, r) = f[root]
  BY Zenon DEF RT!DeleteBelow, Leaving, Mine, Found, FirstOf, Through, LeftAbove
<1> HIDE DEF f
<1>5. \A p \in A : f[p] = Leaving(f, r, p)
  BY <1>2, <1>3
<1>6. PICK p \in A : nodes[p].leaf /\ r \in Refs(nodes, p)
  BY DEF RowsUnder
<1>7. PICK i \in DOMAIN nodes[p].entries : nodes[p].entries[i].ref = r
  BY <1>6 DEF Refs
<1>8. q \in Int \X Int /\ RT!BoxContains(RT!Mbr(nodes[p].entries), q)
  BY <1>1, <1>6, <1>7, BoxAround
<1>9. Mine(r, p) # 0
  <2> DEFINE es == nodes[p].entries
             I == {j \in 1 .. Len(es) : es[j].ref = r}
  <2>1. i \in I
    <3>1. es \in Seq(EntrySet)
      BY <1>2, PageTypes
    <3> QED
      BY <1>7, <3>1
  <2>2. Mine(r, p) = IF I # {} THEN RT!Min(I) ELSE 0
    BY Zenon DEF Mine, RT!SelectInSeq
  <2>3. RT!Min(I) = CHOOSE x \in I : \A y \in I : x <= y
    BY DEF RT!Min
  <2>4. I \subseteq Nat /\ 0 \notin I
    OBVIOUS
  <2> HIDE DEF I
  <2>5. RT!Min(I) \in I
    <3>1. \E x \in I : \A y \in I : x <= y
      BY <2>1, <2>4, LeastNat
    <3> QED
      BY <2>3, <3>1
  <2> QED
    BY <2>1, <2>2, <2>4, <2>5
<1>10. p \in G
  <2>1. f[p] = RT!Removal(nodes, p, RT!RemoveAt(nodes[p].entries, Mine(r, p)))
    BY <1>5, <1>6, <1>9 DEF Leaving
  <2>2. f[p].removed
    BY <2>1 DEF RT!Removal
  <2> QED
    BY <1>8, <2>2
<1>11. ASSUME NEW s \in A, NEW k \in Kids(nodes, s), k \in G PROVE s \in G
  <2>1. RT!BoxContains(RT!Mbr(nodes[k].entries), q) /\ f[k].removed
    BY <1>11
  <2>2. /\ \E j \in DOMAIN nodes[s].entries :
             nodes[s].entries[j].ref = k /\ RT!BoxContains(nodes[s].entries[j].mbr, Point[r])
        /\ RT!BoxContains(RT!Mbr(nodes[s].entries), q)
    BY <1>1, <1>8, <2>1, BoxAbove
  <2>3. ~ nodes[s].leaf
    BY DEF Kids
  <2>4. Found(f, r, s) # {}
    BY <2>1, <2>2 DEF Found
  <2>5. f[s] = Through(f, s, FirstOf(Found(f, r, s)))
    BY <1>5, <2>3, <2>4 DEF Leaving
  <2>6. \A ps, x, es : RT!Removal(ps, x, es).removed
    BY DEF RT!Removal
  <2>7. f[s].removed
    BY <2>5, <2>6 DEF Through
  <2> QED
    BY <2>2, <2>7
<1> HIDE DEF G
<1>12. root \in G
  BY <1>1, <1>10, <1>11, TopReached
<1> QED
  BY <1>4, <1>12 DEF G

(* No descent of an R-tree misses a row: a window gives exactly the rows    *)
(* whose points are in it, and a delete finds the row it is for             *)
(* (LookupsComplete of the states of an R-tree).                            *)
THEOREM RTreeLookupsComplete == Spec => [](kind = "rtree" => LookupsComplete)
<1>1. TreeInv => (kind = "rtree" => LookupsComplete)
  <2>1. SUFFICES ASSUME TreeInv, kind = "rtree" PROVE LookupsComplete
    OBVIOUS
  <2>2. Tree(nodes, root, RT!Reachable)
    BY <2>1 DEF TreeInv
  <2>3. Indexed = {<<Point[r], r>> : r \in TreeRows} /\ ~ Sequential /\ ~ Vectorial
    BY <2>1, TreeViews
  <2>4. ASSUME NEW w \in Window
        PROVE  RT!RangeQuery(w) = {e[2] : e \in {x \in Indexed : RT!BoxContains(w, x[1])}}
    <3> DEFINE in(p) == RT!BoxContains(w, p)
    <3>1. w \in BoxSet
      BY PointsAssumption DEF BoxSet
    <3>2. RT!RangeQuery(w) = {r \in TreeRows : in(Point[r])}
      BY <2>2, <3>1, WindowExact DEF TreeRows
    <3> HIDE DEF in
    <3>3. {r \in TreeRows : in(Point[r])} = {e[2] : e \in {x \in Indexed : in(x[1])}}
      <4>1. ASSUME NEW r PROVE r \in {e[2] : e \in {x \in Indexed : in(x[1])}} <=> r \in TreeRows /\ in(Point[r])
        <5>1. r \in {e[2] : e \in {x \in Indexed : in(x[1])}} <=> \E x \in Indexed : r = x[2] /\ in(x[1])
          OBVIOUS
        <5>2. ASSUME NEW x \in Indexed, r = x[2], in(x[1]) PROVE r \in TreeRows /\ in(Point[r])
          <6>1. PICK q \in TreeRows : x = <<Point[q], q>>
            BY <2>3
          <6>2. q = r /\ x[1] = Point[q]
            BY <5>2, <6>1
          <6> QED
            BY <5>2, <6>2
        <5>3. ASSUME r \in TreeRows, in(Point[r]) PROVE \E x \in Indexed : r = x[2] /\ in(x[1])
          <6> DEFINE x == <<Point[r], r>>
          <6>1. x \in Indexed /\ r = x[2] /\ x[1] = Point[r]
            BY <2>3, <5>3
          <6> HIDE DEF x
          <6> QED
            BY <5>3, <6>1
        <5> QED
          BY <5>1, <5>2, <5>3
      <4> QED
        BY <4>1
    <3> QED
      BY <3>2, <3>3 DEF in
  <2>5. \A e \in Indexed : RT!DeleteBelow(nodes, root, e[2]).removed
    <3> SUFFICES ASSUME NEW e \in Indexed PROVE RT!DeleteBelow(nodes, root, e[2]).removed
      OBVIOUS
    <3>1. e[2] \in RowsUnder(nodes, RT!Reachable)
      BY <2>3 DEF TreeRows
    <3> QED
      BY <2>2, <3>1, DeleteFinds
  <2> QED
    BY <2>1, <2>3, <2>4, <2>5 DEF LookupsComplete
<1> QED
  BY <1>1, TreeInvHolds, PTL

(* The box kept for a page is the box of its entries, however rows come and *)
(* go, pages are split and the root changes; no page is over full and none  *)
(* below the root is empty.                                                 *)
THEOREM BoxesAlwaysTight == Spec => []BoxesTight
<1>1. TreeInv => BoxesTight
  <2>1. SUFFICES ASSUME TreeInv, kind = "rtree", NEW p \in RT!Reachable
                 PROVE  LET es == nodes[p].entries
                        IN /\ Len(es) <= Capacity
                           /\ es # <<>> \/ p = root
                           /\ nodes[p].leaf \/ \A e \in ToSet(es) : e.mbr = RT!Mbr(nodes[e.ref].entries)
    BY DEF BoxesTight
  <2> DEFINE A == RT!Reachable
  <2>2. PICK rank, N : Forest(nodes, A, {root}, rank, N, {})
    BY <2>1 DEF TreeInv, Tree
  <2> HIDE DEF A
  <2>3. p \in A
    BY <2>1 DEF A
  <2>4. Len(nodes[p].entries) <= Capacity /\ (nodes[p].entries # <<>> \/ p = root)
    BY <2>2, <2>3 DEF Forest, Filled
  <2>5. ASSUME ~ nodes[p].leaf, NEW e \in ToSet(nodes[p].entries) PROVE e.mbr = RT!Mbr(nodes[e.ref].entries)
    <3>1. PICK i \in DOMAIN nodes[p].entries : e = nodes[p].entries[i]
      BY <2>5 DEF ToSet
    <3> QED
      BY <2>2, <2>3, <2>5, <3>1 DEF Forest, Tight, TightEntry
  <2> QED
    BY <2>4, <2>5
<1> QED
  BY <1>1, TreeInvHolds, PTL

(* An R-tree is a set of rows: an insert adds its row and a delete takes    *)
(* its row out, whatever is split and whichever pages are emptied on the    *)
(* way (IsKeyIndex for an R-tree).                                          *)
THEOREM RTreeIsKeyIndex == Spec /\ kind = "rtree" => IsKeyIndex
<1> DEFINE H == kind = "rtree" /\ TreeInv
           updating == kind \in {"rows by rid", "text", "ivf", "hnsw"}
           view == <<Indexed, unique, updating, raised>>
<1>1. Init /\ kind = "rtree" => H /\ KeyIndexSpec!Init
  <2>1. SUFFICES ASSUME Init, kind = "rtree" PROVE H /\ KeyIndexSpec!Init
    OBVIOUS
  <2>2. TreeInv /\ TreeRows = {}
    BY <2>1, TreeStarts
  <2>3. Indexed = {}
    BY <2>1, <2>2, TreeViews
  <2>4. unique \in BOOLEAN /\ raised = "nothing"
    BY <2>1, <2>2 DEF TreeInv
  <2> QED
    BY <2>1, <2>2, <2>3, <2>4 DEF KeyIndexSpec!Init
<1>2. H /\ [Next]_vars => H' /\ [KeyIndexSpec!Next]_view
  <2>1. SUFFICES ASSUME kind = "rtree", TreeInv, [Next]_vars PROVE H' /\ [KeyIndexSpec!Next]_view
    OBVIOUS
  <2>0. Indexed = {<<Point[r], r>> : r \in TreeRows}
    BY <2>1, TreeViews
  <2>2. (kind = "rtree" => Indexed = {<<Point[r], r>> : r \in TreeRows})'
    BY TreeViews, PTL
  <2>3. CASE UNCHANGED vars
    <3>1. UNCHANGED <<kind, nodes, root, unique, raised>>
      BY <2>3 DEF vars
    <3>2. TreeInv' /\ TreeRows' = TreeRows
      BY <2>1, <3>1, TreeSame
    <3> QED
      BY <2>0, <2>1, <2>2, <3>1, <3>2
  <2>4. CASE Next
    <3>1. /\ TreeInv' /\ (kind = "rtree")' /\ unique' = unique /\ raised' = "nothing"
          /\ \/ TreeRows' = TreeRows
             \/ \E r : r \notin TreeRows /\ TreeRows' = TreeRows \union {r}
             \/ \E r : r \in TreeRows /\ TreeRows' = TreeRows \ {r}
      BY <2>1, <2>4, TreeStepKeeps
    <3>2. unique = FALSE /\ raised = "nothing" /\ updating' = updating
      BY <2>1, <3>1 DEF TreeInv
    <3>3. Indexed' = {<<Point[r], r>> : r \in TreeRows'}
      BY <2>2, <3>1
    <3> DEFINE gone == Indexed \ Indexed'
               new == Indexed' \ Indexed
    <3>4. CASE TreeRows' = TreeRows
      <4>1. Indexed' = Indexed
        BY <2>0, <3>3, <3>4
      <4> QED
        BY <3>1, <3>2, <4>1
    <3>5. ASSUME NEW r, r \notin TreeRows, TreeRows' = TreeRows \union {r} PROVE KeyIndexSpec!Next
      <4>1. <<Point[r], r>> \notin Indexed /\ Indexed' = Indexed \union {<<Point[r], r>>}
        BY <2>0, <3>3, <3>5
      <4>2. gone = {} /\ new = {<<Point[r], r>>}
        BY <4>1
      <4> HIDE DEF gone, new
      <4>3. KeyIndexSpec!Add(gone, new)
        BY <3>1, <3>2, <4>2 DEF KeyIndexSpec!Add, KeyIndexSpec!NoneOrOne, KeyIndexSpec!NewKeys
      <4> HIDE DEF updating
      <4> QED
        BY <3>1, <3>2, <4>3 DEF KeyIndexSpec!Next, updating, gone, new
    <3>6. ASSUME NEW r, r \in TreeRows, TreeRows' = TreeRows \ {r} PROVE KeyIndexSpec!Next
      <4>1. <<Point[r], r>> \in Indexed /\ Indexed' = Indexed \ {<<Point[r], r>>}
        BY <2>0, <3>3, <3>6
      <4>2. gone = {<<Point[r], r>>} /\ new = {}
        BY <4>1
      <4> HIDE DEF gone, new
      <4>3. KeyIndexSpec!Remove(gone, new)
        BY <3>1, <4>2 DEF KeyIndexSpec!Remove, KeyIndexSpec!NoneOrOne
      <4> HIDE DEF updating
      <4> QED
        BY <3>1, <3>2, <4>3 DEF KeyIndexSpec!Next, updating, gone, new
    <3> HIDE DEF updating
    <3> QED
      BY <3>1, <3>4, <3>5, <3>6
  <2> QED
    BY <2>1, <2>3, <2>4
<1> QED
  BY <1>1, <1>2, PTL DEF Spec, IsKeyIndex, KeyIndexSpec!Spec
=============================================================================
