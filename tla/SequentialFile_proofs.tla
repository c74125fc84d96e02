------------------------ MODULE SequentialFile_proofs ------------------------
(***************************************************************************)
(* Proofs about the sequential file, for rows of any keys and lengths and  *)
(* pages of any size.  Whatever is done to it, the slots of every page and *)
(* the entries of every chain stay in key order (FileOK).  In a file by    *)
(* key no key is twice in it (KeyedOnce), and with it every insert, delete *)
(* and reorganization changes the set of rows as it should, and a search   *)
(* finds what a scan of everything would.                                  *)
(***************************************************************************)
EXTENDS AccessMethods, Induction_proofs, SequenceTheorems

-----------------------------------------------------------------------------
(* A function that tells as many arguments apart as it has values takes     *)
(* every value.                                                             *)
TellsApart(f, S) == \A x, y \in S : f[x] = f[y] => x = y

LEMMA FillsUp ==
  ASSUME NEW S, NEW T, IsFiniteSet(S), IsFiniteSet(T), Cardinality(S) = Cardinality(T),
         NEW f \in [S -> T], TellsApart(f, S)
  PROVE  \A t \in T : \E x \in S : f[x] = t
<1>1. f \in Injection(S, T)
  BY DEF Injection, IsInjective, TellsApart
<1>2. f \in Surjection(S, T)
  BY <1>1, FS_Injection
<1> QED
  BY <1>2 DEF Surjection

LEMMA FillsUpTo ==
  ASSUME NEW S, IsFiniteSet(S), NEW f \in [S -> 1 .. Cardinality(S)], TellsApart(f, S)
  PROVE  \A n \in 1 .. Cardinality(S) : \E x \in S : f[x] = n
<1> DEFINE T == 1 .. Cardinality(S)
<1>1. Cardinality(S) \in Nat
  BY FS_CardinalityType
<1>2. IsFiniteSet(T) /\ Cardinality(T) = Cardinality(S)
  BY <1>1, FS_Interval
<1> HIDE DEF T
<1>3. f \in [S -> T]
  BY DEF T
<1>4. \A t \in T : \E x \in S : f[x] = t
  BY <1>2, <1>3, FillsUp
<1> QED
  BY <1>4 DEF T

(* Where the n-th of a set of positions is: they come in their order, and   *)
(* each of them is one.                                                     *)
InOrder(S) ==
  /\ IsFiniteSet(S) /\ Cardinality(S) \in Nat
  /\ \A n \in 1 .. Cardinality(S) : SF!Nth(S, n) \in S
  /\ \A m, n \in 1 .. Cardinality(S) : m < n => SF!Nth(S, m) < SF!Nth(S, n)
  /\ \A i \in S : \E n \in 1 .. Cardinality(S) : SF!Nth(S, n) = i

LEMMA SizesOfRows ==
  ASSUME NEW S
  PROVE  SF!Cardinality(S) = Cardinality(S)
BY Zenon DEF SF!Cardinality, Cardinality

LEMMA NthForm ==
  ASSUME NEW S, NEW n
  PROVE  SF!Nth(S, n) = CHOOSE i \in S : Cardinality({j \in S : j <= i}) = n
BY Zenon DEF SF!Nth, SF!Cardinality, Cardinality

LEMMA KeptForm ==
  ASSUME NEW s, NEW S
  PROVE  SF!Kept(s, S) = [n \in 1 .. Cardinality(S) |-> s[SF!Nth(S, n)]]
BY Zenon DEF SF!Kept, SF!Cardinality, Cardinality

LEMMA NthInOrder ==
  ASSUME NEW N \in Nat, NEW S \in SUBSET (1 .. N)
  PROVE  InOrder(S)
<1> DEFINE upTo(i) == {j \in S : j <= i}
           r(i) == Cardinality(upTo(i))
           c == Cardinality(S)
<1>0. \A i \in S : i \in Nat
  OBVIOUS
<1>1. IsFiniteSet(S) /\ c \in Nat
  <2>1. IsFiniteSet(1 .. N) /\ S \in SUBSET (1 .. N)
    BY FS_Interval
  <2>2. IsFiniteSet(S)
    BY <2>1, FS_Subset
  <2> QED
    BY <2>2, FS_CardinalityType
<1>2. ASSUME NEW i \in S PROVE IsFiniteSet(upTo(i)) /\ r(i) \in 1 .. c
  <2>1. upTo(i) \in SUBSET S /\ i \in upTo(i)
    OBVIOUS
  <2> HIDE DEF upTo
  <2>2. IsFiniteSet(upTo(i)) /\ Cardinality(upTo(i)) <= c
    BY <1>1, <2>1, FS_Subset
  <2>3. Cardinality(upTo(i)) \in Nat /\ Cardinality(upTo(i)) # 0
    BY <2>1, <2>2, FS_CardinalityType, FS_EmptySet
  <2> QED
    BY <1>1, <2>2, <2>3
<1>3. ASSUME NEW i \in S, NEW k \in S, i < k PROVE r(i) < r(k)
  <2>1. upTo(i) \in SUBSET upTo(k) /\ k \in upTo(k) /\ k \notin upTo(i)
    <3>1. i \in Nat /\ k \in Nat /\ i <= k /\ k <= k /\ ~ (k <= i)
      BY <1>0, <1>3
    <3>2. \A j \in S : j <= i => j <= k
      BY <1>0, <3>1
    <3> QED
      BY <3>1, <3>2
  <2>2. IsFiniteSet(upTo(k)) /\ r(k) \in Nat /\ r(i) \in Nat
    BY <1>1, <1>2
  <2> HIDE DEF upTo
  <2>3. Cardinality(upTo(i)) <= Cardinality(upTo(k)) /\ Cardinality(upTo(i)) # Cardinality(upTo(k))
    BY <2>1, <2>2, FS_Subset
  <2> QED
    BY <2>2, <2>3
<1>4. ASSUME NEW i \in S, NEW k \in S, r(i) = r(k) PROVE i = k
  <2>1. i \in Nat /\ k \in Nat /\ r(i) \in Nat
    BY <1>0, <1>1, <1>2
  <2>2. ~ (i < k) /\ ~ (k < i)
    <3> HIDE DEF r
    <3> QED
      BY <1>3, <1>4, <2>1
  <2> QED
    BY <2>1, <2>2
<1>5. ASSUME NEW n \in 1 .. c PROVE \E i \in S : r(i) = n
  <2> DEFINE f == [i \in S |-> r(i)]
  <2>1. f \in [S -> 1 .. Cardinality(S)] /\ TellsApart(f, S)
    <3> HIDE DEF r
    <3> QED BY <1>2, <1>4 DEF TellsApart
  <2>2. \A x \in S : f[x] = r(x)
    <3> HIDE DEF r
    <3> QED OBVIOUS
  <2> HIDE DEF f, r
  <2>3. \E x \in S : f[x] = n
    BY ZenonT(40), <1>1, <2>1, FillsUpTo
  <2> QED
    BY <2>2, <2>3
<1>6. ASSUME NEW n \in 1 .. c PROVE SF!Nth(S, n) \in S /\ r(SF!Nth(S, n)) = n
  BY <1>5, NthForm, Zenon
<1>7. ASSUME NEW m \in 1 .. c, NEW n \in 1 .. c, m < n PROVE SF!Nth(S, m) < SF!Nth(S, n)
  <2> DEFINE a == SF!Nth(S, m)
             b == SF!Nth(S, n)
  <2>1. a \in S /\ b \in S /\ r(a) = m /\ r(b) = n
    BY <1>6
  <2>2. a \in Nat /\ b \in Nat
    BY <1>0, <2>1
  <2> HIDE DEF a, b, r
  <2>3. ~ (b < a) /\ a # b
    BY <1>1, <1>3, <1>7, <2>1
  <2>4. a < b
    BY <2>2, <2>3
  <2> QED
    BY <2>4 DEF a, b
<1>8. ASSUME NEW i \in S PROVE \E n \in 1 .. c : SF!Nth(S, n) = i
  <2>1. r(i) \in 1 .. c
    BY <1>2
  <2>2. SF!Nth(S, r(i)) \in S /\ r(SF!Nth(S, r(i))) = r(i)
    BY <1>6, <2>1
  <2>3. SF!Nth(S, r(i)) = i
    <3> HIDE DEF r
    <3> QED BY <1>4, <2>2
  <2> HIDE DEF r
  <2> QED
    BY <2>1, <2>3
<1> QED
  BY <1>1, <1>6, <1>7, <1>8 DEF InOrder

(* What is kept of a sequence.                                              *)
LEMMA KeptIs ==
  ASSUME NEW X, NEW s \in Seq(X), NEW S \in SUBSET (DOMAIN s)
  PROVE  /\ SF!Kept(s, S) \in Seq(X) /\ Len(SF!Kept(s, S)) = Cardinality(S) /\ InOrder(S)
         /\ DOMAIN SF!Kept(s, S) = 1 .. Cardinality(S)
         /\ \A n \in DOMAIN SF!Kept(s, S) : SF!Kept(s, S)[n] = s[SF!Nth(S, n)]
<1>1. InOrder(S)
  <2>1. Len(s) \in Nat /\ S \in SUBSET (1 .. Len(s))
    OBVIOUS
  <2> QED
    BY <2>1, NthInOrder
<1> DEFINE c == Cardinality(S)
           t == [n \in 1 .. c |-> s[SF!Nth(S, n)]]
<1>2. c \in Nat /\ \A n \in 1 .. c : SF!Nth(S, n) \in S
  BY <1>1 DEF InOrder
<1>3. \A n \in 1 .. c : s[SF!Nth(S, n)] \in X
  BY <1>2
<1>4. t \in [1 .. c -> X]
  BY <1>3
<1> HIDE DEF c
<1>5. t \in Seq(X) /\ Len(t) = c /\ DOMAIN t = 1 .. c
  BY <1>2, <1>4
<1>6. SF!Kept(s, S) = t
  BY KeptForm, Zenon DEF c
<1>7. \A n \in 1 .. c : t[n] = s[SF!Nth(S, n)]
  OBVIOUS
<1> HIDE DEF t
<1> QED
  BY <1>1, <1>5, <1>6, <1>7 DEF c

(* The positions from 1 to the greatest of a set of them.                   *)
LEMMA UpToGreatest ==
  ASSUME NEW N \in Nat, NEW S \in SUBSET (1 .. N)
  PROVE  \E m \in 0 .. N : /\ UNION {1 .. i : i \in S} = 1 .. m
                           /\ Cardinality(UNION {1 .. i : i \in S}) = m
                           /\ m # 0 => m \in S
                           /\ S \subseteq 1 .. m
<1> DEFINE T == {n \in 0 .. N : \A i \in S : i <= n}
<1>1. N \in T /\ T \subseteq Nat
  OBVIOUS
<1>2. PICK m \in T : \A n \in T : m <= n
  <2> HIDE DEF T
  <2> QED BY <1>1, LeastNat
<1>3. m \in 0 .. N /\ S \subseteq 1 .. m
  BY <1>2
<1>4. ASSUME m # 0 PROVE m \in S
  <2>1. m - 1 \in 0 .. N /\ m - 1 \notin T
    BY <1>2, <1>3, <1>4
  <2>2. PICK i \in S : ~ (i <= m - 1)
    BY <2>1
  <2> QED
    BY <1>3, <2>2
<1>5. UNION {1 .. i : i \in S} = 1 .. m
  BY <1>3, <1>4
<1>6. Cardinality(1 .. m) = m
  BY <1>3, FS_Interval
<1> QED
  BY <1>3, <1>4, <1>5, <1>6

(* ... and of a set that goes down to 1 they are the first ones.           *)
LEMMA FirstOnes ==
  ASSUME NEW N \in Nat, NEW S \in SUBSET (1 .. N), \A i \in S, j \in 1 .. N : j < i => j \in S
  PROVE  Cardinality(S) \in 0 .. N /\ S = 1 .. Cardinality(S)
<1>1. PICK m \in 0 .. N : (m # 0 => m \in S) /\ S \subseteq 1 .. m
  BY UpToGreatest
<1>2. ASSUME NEW j \in 1 .. m PROVE j \in S
  <2>1. m # 0 /\ m \in Nat /\ j \in 1 .. N /\ (j = m \/ j < m)
    OBVIOUS
  <2>2. m \in S
    BY <1>1, <2>1
  <2> QED
    BY <2>1, <2>2
<1>3. S = 1 .. m
  BY <1>1, <1>2, Zenon
<1>4. Cardinality(1 .. m) = m
  BY FS_Interval
<1> QED
  BY <1>3, <1>4

-----------------------------------------------------------------------------
(* The merge of a page's rows with its spilled rows.                        *)
RowSet == [key : Nat, len : Nat]
SpilledSet == [key : Nat, row : RowSet]

KeysUp(rows) == \A i, j \in DOMAIN rows : i < j => rows[i].key <= rows[j].key
KeysStrictlyUp(rows) == \A i, j \in DOMAIN rows : i < j => rows[i].key < rows[j].key

Ahead(main, spilled, i) == Cardinality({j \in DOMAIN spilled : spilled[j].key < main[i].key})
Behind(main, spilled, j) == Cardinality({i \in DOMAIN main : main[i].key <= spilled[j].key})

LEMMA RowKeys ==
  ASSUME NEW s
  PROVE  /\ s \in Seq(RowSet) => \A i \in DOMAIN s : s[i] \in RowSet /\ s[i].key \in Nat /\ s[i].len \in Nat
         /\ s \in Seq(SpilledSet) =>
              \A i \in DOMAIN s : s[i] \in SpilledSet /\ s[i].key \in Nat /\ s[i].row \in RowSet
<1>1. ASSUME s \in Seq(RowSet), NEW i \in DOMAIN s PROVE s[i] \in RowSet
  BY <1>1
<1>2. ASSUME s \in Seq(SpilledSet), NEW i \in DOMAIN s PROVE s[i] \in SpilledSet
  BY <1>2
<1>3. ASSUME NEW r \in RowSet PROVE r.key \in Nat /\ r.len \in Nat
  BY DEF RowSet
<1>4. ASSUME NEW r \in SpilledSet PROVE r.key \in Nat /\ r.row \in RowSet
  BY DEF SpilledSet
<1> QED
  BY <1>1, <1>2, <1>3, <1>4

LEMMA AheadIs ==
  ASSUME NEW main \in Seq(RowSet), NEW spilled \in Seq(SpilledSet), KeysStrictlyUp(spilled), NEW i \in DOMAIN main
  PROVE  /\ Ahead(main, spilled, i) \in 0 .. Len(spilled)
         /\ \A j \in DOMAIN spilled : j <= Ahead(main, spilled, i) <=> spilled[j].key < main[i].key
<1> DEFINE N == Len(spilled)
           S == {j \in DOMAIN spilled : spilled[j].key < main[i].key}
<1>1. N \in Nat /\ DOMAIN spilled = 1 .. N
  OBVIOUS
<1>2. main[i].key \in Nat /\ \A j \in DOMAIN spilled : spilled[j].key \in Nat
  BY RowKeys
<1>3. S \in SUBSET (1 .. N)
  BY <1>1
<1>4. ASSUME NEW j \in S, NEW k \in 1 .. N, k < j PROVE k \in S
  <2>1. spilled[k].key < spilled[j].key
    BY <1>1, <1>4 DEF KeysStrictlyUp
  <2> QED
    BY <1>1, <1>2, <1>4, <2>1
<1>5. Cardinality(S) \in 0 .. N /\ S = 1 .. Cardinality(S)
  <2> HIDE DEF S, N
  <2> QED BY <1>1, <1>3, <1>4, FirstOnes
<1>6. Ahead(main, spilled, i) = Cardinality(S)
  BY DEF Ahead
<1> DEFINE c == Cardinality(S)
<1>7. \A j \in DOMAIN spilled : j \in S <=> spilled[j].key < main[i].key
  OBVIOUS
<1>8. \A j \in 1 .. N : j \in S <=> j <= c
  <2> HIDE DEF S, N
  <2> QED BY <1>1, <1>5
<1> HIDE DEF S
<1> QED
  BY <1>1, <1>5, <1>6, <1>7, <1>8

LEMMA BehindIs ==
  ASSUME NEW main \in Seq(RowSet), NEW spilled \in Seq(SpilledSet), KeysUp(main), NEW j \in DOMAIN spilled
  PROVE  /\ Behind(main, spilled, j) \in 0 .. Len(main)
         /\ \A i \in DOMAIN main : i <= Behind(main, spilled, j) <=> main[i].key <= spilled[j].key
<1> DEFINE N == Len(main)
           S == {i \in DOMAIN main : main[i].key <= spilled[j].key}
<1>1. N \in Nat /\ DOMAIN main = 1 .. N
  OBVIOUS
<1>2. spilled[j].key \in Nat /\ \A i \in DOMAIN main : main[i].key \in Nat
  BY RowKeys
<1>3. S \in SUBSET (1 .. N)
  BY <1>1
<1>4. ASSUME NEW i \in S, NEW k \in 1 .. N, k < i PROVE k \in S
  <2>1. main[k].key <= main[i].key
    BY <1>1, <1>4 DEF KeysUp
  <2> QED
    BY <1>1, <1>2, <1>4, <2>1
<1>5. Cardinality(S) \in 0 .. N /\ S = 1 .. Cardinality(S)
  <2> HIDE DEF S, N
  <2> QED BY <1>1, <1>3, <1>4, FirstOnes
<1>6. Behind(main, spilled, j) = Cardinality(S)
  BY DEF Behind
<1> DEFINE c == Cardinality(S)
<1>7. \A i \in DOMAIN main : i \in S <=> main[i].key <= spilled[j].key
  OBVIOUS
<1>8. \A i \in 1 .. N : i \in S <=> i <= c
  <2> HIDE DEF S, N
  <2> QED BY <1>1, <1>5
<1> HIDE DEF S
<1> QED
  BY <1>1, <1>5, <1>6, <1>7, <1>8

(* The places that the rows of both take in it.                             *)
MainAt(main, spilled, i) == i + Ahead(main, spilled, i)
SpilledAt(main, spilled, j) == j + Behind(main, spilled, j)

Interleaves(main, spilled) ==
  LET L == Len(main) + Len(spilled)
      f(i) == MainAt(main, spilled, i)
      g(j) == SpilledAt(main, spilled, j)
  IN /\ \A i \in DOMAIN main : f(i) \in 1 .. L
     /\ \A j \in DOMAIN spilled : g(j) \in 1 .. L
     /\ \A i, k \in DOMAIN main : i < k => f(i) < f(k)
     /\ \A j, k \in DOMAIN spilled : j < k => g(j) < g(k)
     /\ \A i \in DOMAIN main, j \in DOMAIN spilled :
          IF main[i].key <= spilled[j].key THEN f(i) < g(j) ELSE g(j) < f(i)
     /\ \A n \in 1 .. L : (\E i \in DOMAIN main : f(i) = n) \/ (\E j \in DOMAIN spilled : g(j) = n)

LEMMA PlacesInterleave ==
  ASSUME NEW main \in Seq(RowSet), NEW spilled \in Seq(SpilledSet), KeysUp(main), KeysStrictlyUp(spilled)
  PROVE  Interleaves(main, spilled)
<1> DEFINE M == Len(main)
           K == Len(spilled)
           L == M + K
           a(i) == Ahead(main, spilled, i)
           b(j) == Behind(main, spilled, j)
           f(i) == MainAt(main, spilled, i)
           g(j) == SpilledAt(main, spilled, j)
<1>1. M \in Nat /\ K \in Nat /\ DOMAIN main = 1 .. M /\ DOMAIN spilled = 1 .. K
  OBVIOUS
<1>2. (\A i \in 1 .. M : main[i].key \in Nat) /\ (\A j \in 1 .. K : spilled[j].key \in Nat)
  BY <1>1, RowKeys
<1>3. \A i \in 1 .. M : a(i) \in 0 .. K /\ f(i) = i + a(i) /\ \A j \in 1 .. K : j <= a(i) <=> spilled[j].key < main[i].key
  BY <1>1, AheadIs DEF MainAt
<1>4. \A j \in 1 .. K : b(j) \in 0 .. M /\ g(j) = j + b(j) /\ \A i \in 1 .. M : i <= b(j) <=> main[i].key <= spilled[j].key
  BY <1>1, BehindIs DEF SpilledAt
<1> HIDE DEF M, K, a, b, f, g
<1>5. (\A i \in 1 .. M : f(i) \in 1 .. L) /\ (\A j \in 1 .. K : g(j) \in 1 .. L)
  BY <1>1, <1>3, <1>4
<1>6. ASSUME NEW i \in 1 .. M, NEW k \in 1 .. M, i < k PROVE f(i) < f(k)
  <2>1. main[i].key <= main[k].key
    BY <1>1, <1>6 DEF KeysUp
  <2>2. ASSUME a(k) < a(i) PROVE FALSE
    <3>1. a(i) \in 1 .. K /\ ~ (a(i) <= a(k))
      BY <1>1, <1>3, <2>2
    <3>2. spilled[a(i)].key < main[i].key /\ ~ (spilled[a(i)].key < main[k].key)
      BY <1>3, <3>1
    <3>3. spilled[a(i)].key \in Nat /\ main[i].key \in Nat /\ main[k].key \in Nat
      BY <1>2, <3>1
    <3> QED
      BY <2>1, <3>2, <3>3
  <2>3. a(i) \in Nat /\ a(k) \in Nat /\ f(i) = i + a(i) /\ f(k) = k + a(k)
    BY <1>1, <1>3
  <2> QED
    BY <1>1, <1>6, <2>2, <2>3
<1>7. ASSUME NEW j \in 1 .. K, NEW k \in 1 .. K, j < k PROVE g(j) < g(k)
  <2>1. spilled[j].key < spilled[k].key
    BY <1>1, <1>7 DEF KeysStrictlyUp
  <2>2. ASSUME b(k) < b(j) PROVE FALSE
    <3>1. b(j) \in 1 .. M /\ ~ (b(j) <= b(k))
      BY <1>1, <1>4, <2>2
    <3>2. main[b(j)].key <= spilled[j].key /\ ~ (main[b(j)].key <= spilled[k].key)
      BY <1>4, <3>1
    <3>3. main[b(j)].key \in Nat /\ spilled[j].key \in Nat /\ spilled[k].key \in Nat
      BY <1>2, <3>1
    <3> QED
      BY <2>1, <3>2, <3>3
  <2>3. b(j) \in Nat /\ b(k) \in Nat /\ g(j) = j + b(j) /\ g(k) = k + b(k)
    BY <1>1, <1>4
  <2> QED
    BY <1>1, <1>7, <2>2, <2>3
<1>8. ASSUME NEW i \in 1 .. M, NEW j \in 1 .. K
      PROVE  IF main[i].key <= spilled[j].key THEN f(i) < g(j) ELSE g(j) < f(i)
  <2>1. /\ a(i) \in Nat /\ b(j) \in Nat /\ f(i) = i + a(i) /\ g(j) = j + b(j)
        /\ j <= a(i) <=> spilled[j].key < main[i].key
        /\ i <= b(j) <=> main[i].key <= spilled[j].key
    BY <1>1, <1>3, <1>4
  <2>2. main[i].key \in Nat /\ spilled[j].key \in Nat
    BY <1>2
  <2>3. CASE main[i].key <= spilled[j].key
    BY <1>1, <2>1, <2>2, <2>3
  <2>4. CASE ~ (main[i].key <= spilled[j].key)
    BY <1>1, <2>1, <2>2, <2>4
  <2> QED
    BY <2>3, <2>4
<1>9. \A n \in 1 .. L : (\E i \in 1 .. M : f(i) = n) \/ (\E j \in 1 .. K : g(j) = n)
  <2> DEFINE S == 1 .. L
             h == [x \in S |-> IF x <= M THEN f(x) ELSE g(x - M)]
  <2>1. L \in Nat /\ \A x \in S : (x <= M => x \in 1 .. M) /\ (~ (x <= M) => x - M \in 1 .. K)
    BY <1>1
  <2>2. IsFiniteSet(S) /\ Cardinality(S) = L
    <3> HIDE DEF L
    <3> QED BY <2>1, FS_Interval
  <2>3. h \in [S -> 1 .. L]
    <3> HIDE DEF S
    <3>1. \A x \in S : (IF x <= M THEN f(x) ELSE g(x - M)) \in 1 .. L
      BY <1>5, <2>1
    <3> HIDE DEF L
    <3> QED BY <3>1
  <2>4. ASSUME NEW x \in S, NEW y \in S, h[x] = h[y], x < y PROVE FALSE
    <3>1. /\ h[x] = IF x <= M THEN f(x) ELSE g(x - M)
          /\ h[y] = IF y <= M THEN f(y) ELSE g(y - M)
      OBVIOUS
    <3>2. (\A i \in 1 .. M : f(i) \in Nat) /\ (\A j \in 1 .. K : g(j) \in Nat)
      BY <1>1, <1>5
    <3> HIDE DEF h
    <3>3. CASE y <= M
      <4>1. x \in 1 .. M /\ y \in 1 .. M /\ x <= M
        BY <1>1, <2>1, <2>4, <3>3
      <4>2. f(x) < f(y) /\ f(x) \in Nat /\ f(y) \in Nat
        BY <1>6, <2>4, <3>2, <4>1
      <4>3. h[x] = f(x) /\ h[y] = f(y)
        BY <3>1, <3>3, <4>1
      <4>4. f(x) = f(y)
        BY <2>4, <4>3, Zenon
      <4> QED
        BY <4>2, <4>4
    <3>4. CASE x <= M /\ ~ (y <= M)
      <4>1. x \in 1 .. M /\ y - M \in 1 .. K
        BY <2>1, <3>4
      <4>2. f(x) # g(y - M)
        BY <1>8, <3>2, <4>1
      <4> QED
        BY <2>4, <3>1, <3>4, <4>2
    <3>5. CASE ~ (x <= M)
      <4>1. ~ (y <= M) /\ x - M \in 1 .. K /\ y - M \in 1 .. K /\ x - M < y - M
        BY <1>1, <2>1, <2>4, <3>5
      <4>2. g(x - M) < g(y - M) /\ g(x - M) \in Nat /\ g(y - M) \in Nat
        BY <1>7, <3>2, <4>1
      <4>3. h[x] = g(x - M) /\ h[y] = g(y - M)
        BY <3>1, <3>5, <4>1
      <4>4. g(x - M) = g(y - M)
        BY <2>4, <4>3, Zenon
      <4> QED
        BY <4>2, <4>4
    <3> QED
      BY <3>3, <3>4, <3>5
  <2>5. TellsApart(h, S)
    <3>1. \A x, y \in S : x = y \/ x < y \/ y < x
      BY <2>1
    <3> HIDE DEF S, h
    <3> QED
      BY <2>4, <3>1 DEF TellsApart
  <2>6. ASSUME NEW n \in 1 .. L PROVE (\E i \in 1 .. M : f(i) = n) \/ (\E j \in 1 .. K : g(j) = n)
    <3>1. PICK x \in S : h[x] = n
      <4> HIDE DEF h, S, L
      <4> QED BY <2>2, <2>3, <2>5, FillsUpTo
    <3>2. h[x] = IF x <= M THEN f(x) ELSE g(x - M)
      OBVIOUS
    <3> HIDE DEF h, S
    <3> QED
      BY <2>1, <3>1, <3>2
  <2> QED
    BY <2>6
<1> QED
  BY <1>1, <1>5, <1>6, <1>7, <1>8, <1>9, Zenon DEF Interleaves, L, M, K, f, g

LEMMA MergedForm ==
  ASSUME NEW main, NEW spilled
  PROVE  SF!Merged(main, spilled) =
           [n \in 1 .. Len(main) + Len(spilled) |->
              IF \E i \in DOMAIN main : MainAt(main, spilled, i) = n
                THEN main[CHOOSE i \in DOMAIN main : MainAt(main, spilled, i) = n]
                ELSE spilled[CHOOSE j \in DOMAIN spilled : SpilledAt(main, spilled, j) = n].row]
BY Zenon DEF SF!Merged, MainAt, SpilledAt, Ahead, Behind, SF!Cardinality, Cardinality

(* Each row is in its place, and nothing else is there.                     *)
IsMerge(all, main, spilled) ==
  /\ all \in Seq(RowSet) /\ Len(all) = Len(main) + Len(spilled)
  /\ \A i \in DOMAIN main : MainAt(main, spilled, i) \in DOMAIN all /\ all[MainAt(main, spilled, i)] = main[i]
  /\ \A j \in DOMAIN spilled :
       SpilledAt(main, spilled, j) \in DOMAIN all /\ all[SpilledAt(main, spilled, j)] = spilled[j].row

LEMMA MergedIs ==
  ASSUME NEW main \in Seq(RowSet), NEW spilled \in Seq(SpilledSet), KeysUp(main), KeysStrictlyUp(spilled)
  PROVE  IsMerge(SF!Merged(main, spilled), main, spilled)
<1> DEFINE L == Len(main) + Len(spilled)
           f(i) == MainAt(main, spilled, i)
           g(j) == SpilledAt(main, spilled, j)
           at(n) == IF \E i \in DOMAIN main : f(i) = n
                      THEN main[CHOOSE i \in DOMAIN main : f(i) = n]
                      ELSE spilled[CHOOSE j \in DOMAIN spilled : g(j) = n].row
           all == [n \in 1 .. L |-> at(n)]
<1>1. SF!Merged(main, spilled) = all
  BY MergedForm, Zenon
<1>2. /\ \A i \in DOMAIN main : f(i) \in 1 .. L
      /\ \A j \in DOMAIN spilled : g(j) \in 1 .. L
      /\ \A i, k \in DOMAIN main : i < k => f(i) < f(k)
      /\ \A j, k \in DOMAIN spilled : j < k => g(j) < g(k)
      /\ \A i \in DOMAIN main, j \in DOMAIN spilled :
           IF main[i].key <= spilled[j].key THEN f(i) < g(j) ELSE g(j) < f(i)
      /\ \A n \in 1 .. L : (\E i \in DOMAIN main : f(i) = n) \/ (\E j \in DOMAIN spilled : g(j) = n)
  BY PlacesInterleave, Zenon DEF Interleaves
<1>3. /\ L \in Nat /\ Len(main) \in Nat /\ Len(spilled) \in Nat
      /\ \A i \in DOMAIN main : i \in Nat /\ main[i] \in RowSet
      /\ \A j \in DOMAIN spilled : j \in Nat /\ spilled[j].row \in RowSet
  BY RowKeys
<1> HIDE DEF L, f, g
<1>4. (\A i \in DOMAIN main : f(i) \in Nat) /\ (\A j \in DOMAIN spilled : g(j) \in Nat)
  BY <1>2, <1>3
<1>5. \A i, k \in DOMAIN main : f(i) = f(k) => i = k
  BY SMTT(30), <1>2, <1>3, <1>4
<1>6. \A j, k \in DOMAIN spilled : g(j) = g(k) => j = k
  BY <1>2, <1>3, <1>4
<1>7. \A i \in DOMAIN main, j \in DOMAIN spilled : f(i) # g(j)
  BY <1>2, <1>4
<1>8. ASSUME NEW i \in DOMAIN main PROVE at(f(i)) = main[i]
  <2> DEFINE x == CHOOSE k \in DOMAIN main : f(k) = f(i)
  <2>1. x \in DOMAIN main /\ f(x) = f(i)
    BY Zenon
  <2>2. x = i
    <3> HIDE DEF x
    <3> QED BY <1>5, <2>1
  <2>3. at(f(i)) = main[x]
    BY Zenon
  <2> HIDE DEF x, at
  <2> QED
    BY <2>2, <2>3
<1>9. ASSUME NEW j \in DOMAIN spilled PROVE at(g(j)) = spilled[j].row
  <2> DEFINE x == CHOOSE k \in DOMAIN spilled : g(k) = g(j)
  <2>1. x \in DOMAIN spilled /\ g(x) = g(j)
    BY Zenon
  <2>2. x = j
    <3> HIDE DEF x
    <3> QED BY <1>6, <2>1
  <2>3. ~ \E i \in DOMAIN main : f(i) = g(j)
    BY <1>7
  <2>4. at(g(j)) = spilled[x].row
    BY <2>3, Zenon
  <2> HIDE DEF x, at
  <2> QED
    BY <2>2, <2>4
<1> HIDE DEF at
<1>10. \A n \in 1 .. L : at(n) \in RowSet
  BY <1>2, <1>3, <1>8, <1>9
<1>11. all \in [1 .. L -> RowSet] /\ \A n \in 1 .. L : all[n] = at(n)
  BY <1>10
<1> HIDE DEF all
<1>12. all \in Seq(RowSet) /\ Len(all) = L /\ DOMAIN all = 1 .. L
  BY <1>3, <1>11
<1>13. \A i \in DOMAIN main : f(i) \in DOMAIN all /\ all[f(i)] = main[i]
  BY <1>2, <1>8, <1>11, <1>12
<1>14. \A j \in DOMAIN spilled : g(j) \in DOMAIN all /\ all[g(j)] = spilled[j].row
  BY <1>2, <1>9, <1>11, <1>12
<1> QED
  BY <1>1, <1>12, <1>13, <1>14, Zenon DEF IsMerge, L, f, g

(* The rows of the merge are the rows of both.                              *)
LEMMA MergedRows ==
  ASSUME NEW main \in Seq(RowSet), NEW spilled \in Seq(SpilledSet), KeysUp(main), KeysStrictlyUp(spilled)
  PROVE  LET all == SF!Merged(main, spilled)
         IN /\ all \in Seq(RowSet)
            /\ \A n \in DOMAIN all : (\E i \in DOMAIN main : all[n] = main[i]) \/ (\E j \in DOMAIN spilled : all[n] = spilled[j].row)
            /\ \A i \in DOMAIN main : \E n \in DOMAIN all : all[n] = main[i]
            /\ \A j \in DOMAIN spilled : \E n \in DOMAIN all : all[n] = spilled[j].row
<1> DEFINE all == SF!Merged(main, spilled)
           L == Len(main) + Len(spilled)
           f(i) == MainAt(main, spilled, i)
           g(j) == SpilledAt(main, spilled, j)
<1>1. /\ all \in Seq(RowSet) /\ Len(all) = L
      /\ \A i \in DOMAIN main : f(i) \in DOMAIN all /\ all[f(i)] = main[i]
      /\ \A j \in DOMAIN spilled : g(j) \in DOMAIN all /\ all[g(j)] = spilled[j].row
  BY MergedIs DEF IsMerge
<1>2. \A n \in 1 .. L : (\E i \in DOMAIN main : f(i) = n) \/ (\E j \in DOMAIN spilled : g(j) = n)
  BY PlacesInterleave, Zenon DEF Interleaves
<1> HIDE DEF all, L, f, g
<1>3. DOMAIN all = 1 .. L
  BY <1>1
<1> QED
  BY <1>1, <1>2, <1>3 DEF all

(* If they have their keys, and no key twice, so does the merge, in order.  *)
LEMMA MergedUp ==
  ASSUME NEW main \in Seq(RowSet), NEW spilled \in Seq(SpilledSet), KeysStrictlyUp(main), KeysStrictlyUp(spilled),
         \A j \in DOMAIN spilled : spilled[j].row.key = spilled[j].key,
         \A i \in DOMAIN main, j \in DOMAIN spilled : main[i].key # spilled[j].key
  PROVE  KeysStrictlyUp(SF!Merged(main, spilled))
<1> DEFINE all == SF!Merged(main, spilled)
           L == Len(main) + Len(spilled)
           f(i) == MainAt(main, spilled, i)
           g(j) == SpilledAt(main, spilled, j)
<1>0. KeysUp(main)
  BY RowKeys DEF KeysUp, KeysStrictlyUp
<1>1. /\ all \in Seq(RowSet) /\ Len(all) = L
      /\ \A i \in DOMAIN main : f(i) \in DOMAIN all /\ all[f(i)] = main[i]
      /\ \A j \in DOMAIN spilled : g(j) \in DOMAIN all /\ all[g(j)] = spilled[j].row
  BY <1>0, MergedIs DEF IsMerge
<1>2. /\ \A i, k \in DOMAIN main : i < k => f(i) < f(k)
      /\ \A j, k \in DOMAIN spilled : j < k => g(j) < g(k)
      /\ \A i \in DOMAIN main, j \in DOMAIN spilled :
           IF main[i].key <= spilled[j].key THEN f(i) < g(j) ELSE g(j) < f(i)
      /\ \A n \in 1 .. L : (\E i \in DOMAIN main : f(i) = n) \/ (\E j \in DOMAIN spilled : g(j) = n)
  BY <1>0, PlacesInterleave, Zenon DEF Interleaves
<1> HIDE DEF all, L, f, g
<1>3. /\ DOMAIN all = 1 .. L /\ DOMAIN all \subseteq Nat
      /\ \A i \in DOMAIN main : i \in Nat /\ main[i].key \in Nat /\ f(i) \in Nat
      /\ \A j \in DOMAIN spilled : j \in Nat /\ spilled[j].key \in Nat /\ g(j) \in Nat
  BY <1>1, RowKeys
<1>4. ASSUME NEW m \in DOMAIN all, NEW n \in DOMAIN all, m < n PROVE all[m].key < all[n].key
  <2>1. m \in Nat /\ n \in Nat
    BY <1>3
  <2>2. CASE \E i, k \in DOMAIN main : f(i) = m /\ f(k) = n
    <3>1. PICK i \in DOMAIN main, k \in DOMAIN main : f(i) = m /\ f(k) = n
      BY <2>2
    <3>2. ~ (k < i) /\ i # k
      BY <1>2, <1>4, <2>1, <3>1
    <3>3. i < k
      BY <1>3, <3>2
    <3> QED
      BY <1>1, <3>1, <3>3 DEF KeysStrictlyUp
  <2>3. CASE \E j, k \in DOMAIN spilled : g(j) = m /\ g(k) = n
    <3>1. PICK j \in DOMAIN spilled, k \in DOMAIN spilled : g(j) = m /\ g(k) = n
      BY <2>3
    <3>2. ~ (k < j) /\ j # k
      BY <1>2, <1>4, <2>1, <3>1
    <3>3. j < k
      BY <1>3, <3>2
    <3> QED
      BY <1>1, <3>1, <3>3 DEF KeysStrictlyUp
  <2>4. CASE \E i \in DOMAIN main, j \in DOMAIN spilled : f(i) = m /\ g(j) = n
    <3>1. PICK i \in DOMAIN main, j \in DOMAIN spilled : f(i) = m /\ g(j) = n
      BY <2>4
    <3>2. main[i].key <= spilled[j].key /\ main[i].key # spilled[j].key
      BY <1>2, <1>4, <2>1, <3>1
    <3>3. main[i].key < spilled[j].key
      BY <1>3, <3>2
    <3> QED
      BY <1>1, <3>1, <3>3
  <2>5. CASE \E i \in DOMAIN main, j \in DOMAIN spilled : g(j) = m /\ f(i) = n
    <3>1. PICK i \in DOMAIN main, j \in DOMAIN spilled : g(j) = m /\ f(i) = n
      BY <2>5
    <3>2. ~ (main[i].key <= spilled[j].key)
      BY <1>2, <1>4, <2>1, <3>1
    <3>3. spilled[j].key < main[i].key
      BY <1>3, <3>2
    <3> QED
      BY <1>1, <3>1, <3>3
  <2> QED
    BY <1>2, <1>3, <2>2, <2>3, <2>4, <2>5
<1> QED
  BY <1>4 DEF KeysStrictlyUp, all

(* A page: what its valid slots hold, in their order.                       *)
SFSlotSet == [row : RowSet, room : Nat, valid : BOOLEAN]
PageSet == [slots : Seq(SFSlotSet), data : Nat]
ValidAt(page) == {i \in DOMAIN page.slots : page.slots[i].valid}
SlotsUp(page) == \A i, j \in ValidAt(page) : i < j => page.slots[i].row.key <= page.slots[j].row.key

LEMMA PageTypes ==
  ASSUME NEW page \in PageSet
  PROVE  /\ page.slots \in Seq(SFSlotSet) /\ Len(page.slots) \in Nat /\ DOMAIN page.slots = 1 .. Len(page.slots)
         /\ page.data \in Nat
         /\ \A i \in DOMAIN page.slots :
              /\ page.slots[i] \in SFSlotSet /\ page.slots[i].row \in RowSet /\ page.slots[i].valid \in BOOLEAN
              /\ page.slots[i].room \in Nat /\ page.slots[i].row.key \in Nat
<1>1. page.slots \in Seq(SFSlotSet) /\ page.data \in Nat
  BY DEF PageSet
<1>2. \A i \in DOMAIN page.slots : page.slots[i] \in SFSlotSet
  BY <1>1
<1>3. ASSUME NEW s \in SFSlotSet PROVE s.row \in RowSet /\ s.valid \in BOOLEAN /\ s.room \in Nat /\ s.row.key \in Nat
  BY DEF SFSlotSet, RowSet
<1> QED
  BY <1>1, <1>2, <1>3

LEMMA LiveIs ==
  ASSUME NEW page \in PageSet
  PROVE  /\ SF!Live(page) \in Seq(RowSet) /\ InOrder(ValidAt(page))
         /\ DOMAIN SF!Live(page) = 1 .. Cardinality(ValidAt(page))
         /\ \A n \in DOMAIN SF!Live(page) : SF!Live(page)[n] = page.slots[SF!Nth(ValidAt(page), n)].row
<1> DEFINE S == ValidAt(page)
           valid == SF!Kept(page.slots, S)
           live == [i \in DOMAIN valid |-> valid[i].row]
<1>1. SF!Live(page) = live
  BY Zenon DEF SF!Live, ValidAt
<1>2. S \in SUBSET (DOMAIN page.slots) /\ page.slots \in Seq(SFSlotSet)
  BY PageTypes DEF ValidAt
<1>3. /\ valid \in Seq(SFSlotSet) /\ InOrder(S) /\ DOMAIN valid = 1 .. Cardinality(S)
      /\ \A n \in DOMAIN valid : valid[n] = page.slots[SF!Nth(S, n)]
  BY <1>2, KeptIs
<1> HIDE DEF S, valid
<1>4. \A n \in DOMAIN valid : valid[n].row \in RowSet
  <2>1. ASSUME NEW n \in DOMAIN valid PROVE valid[n] \in SFSlotSet
    <3>1. valid \in Seq(SFSlotSet)
      BY <1>3
    <3> QED BY <3>1
  <2> QED
    BY <2>1 DEF SFSlotSet
<1>5. live \in [1 .. Cardinality(S) -> RowSet] /\ \A n \in DOMAIN valid : live[n] = valid[n].row
  BY <1>3, <1>4
<1>6. Cardinality(S) \in Nat
  BY <1>3 DEF InOrder
<1> HIDE DEF live
<1>7. live \in Seq(RowSet) /\ DOMAIN live = 1 .. Cardinality(S)
  BY <1>5, <1>6
<1> QED
  BY <1>1, <1>3, <1>5, <1>7 DEF S

(* ... as a set, and in key order.                                          *)
LEMMA LiveRows ==
  ASSUME NEW page \in PageSet
  PROVE  /\ SF!Live(page) \in Seq(RowSet)
         /\ \A n \in DOMAIN SF!Live(page) : \E i \in ValidAt(page) : SF!Live(page)[n] = page.slots[i].row
         /\ \A i \in ValidAt(page) : \E n \in DOMAIN SF!Live(page) : SF!Live(page)[n] = page.slots[i].row
         /\ SlotsUp(page) => KeysUp(SF!Live(page))
         /\ SlotsUp(page) /\ (\A i, j \in ValidAt(page) : page.slots[i].row.key = page.slots[j].row.key => i = j)
              => KeysStrictlyUp(SF!Live(page))
<1> DEFINE S == ValidAt(page)
           live == SF!Live(page)
           at(n) == SF!Nth(S, n)
<1>1. /\ live \in Seq(RowSet) /\ InOrder(S) /\ DOMAIN live = 1 .. Cardinality(S)
      /\ \A n \in DOMAIN live : live[n] = page.slots[at(n)].row
  BY LiveIs
<1>2. /\ Cardinality(S) \in Nat
      /\ \A n \in 1 .. Cardinality(S) : at(n) \in S
      /\ \A m, n \in 1 .. Cardinality(S) : m < n => at(m) < at(n)
      /\ \A i \in S : \E n \in 1 .. Cardinality(S) : at(n) = i
  BY <1>1 DEF InOrder
<1>3. \A i \in S : i \in Nat /\ page.slots[i].row.key \in Nat
  BY PageTypes DEF ValidAt
<1> HIDE DEF live, at, S
<1>4. \A n \in DOMAIN live : live[n] = page.slots[at(n)].row /\ at(n) \in S
  BY <1>1, <1>2
<1>5. \A i \in S : \E n \in DOMAIN live : live[n] = page.slots[i].row
  BY <1>1, <1>2
<1>6. ASSUME SlotsUp(page) PROVE KeysUp(live)
  <2>1. \A i, j \in S : i < j => page.slots[i].row.key <= page.slots[j].row.key
    BY <1>6 DEF SlotsUp, S
  <2> QED
    BY <1>1, <1>2, <1>4, <2>1 DEF KeysUp
<1>7. ASSUME SlotsUp(page), \A i, j \in S : page.slots[i].row.key = page.slots[j].row.key => i = j
      PROVE  KeysStrictlyUp(live)
  <2>1. \A i, j \in S : i < j => page.slots[i].row.key <= page.slots[j].row.key
    BY <1>7 DEF SlotsUp, S
  <2>2. ASSUME NEW i \in S, NEW j \in S, i < j PROVE page.slots[i].row.key < page.slots[j].row.key
    <3>1. page.slots[i].row.key <= page.slots[j].row.key /\ i # j
      BY <1>3, <2>1, <2>2
    <3>2. page.slots[i].row.key # page.slots[j].row.key
      BY <1>7, <3>1
    <3> QED
      BY <1>3, <3>1, <3>2
  <2>3. \A m, n \in DOMAIN live : m < n => at(m) \in S /\ at(n) \in S /\ at(m) < at(n)
    BY <1>1, <1>2
  <2> QED
    BY <1>4, <2>2, <2>3 DEF KeysStrictlyUp
<1> QED
  BY <1>1, <1>4, <1>5, <1>6, <1>7, Zenon DEF S, live

(* A chain of the overflow file: its entries in key order, and what the     *)
(* slots they name hold.                                                    *)
EntrySet == Nat \X Nat
ChainUp(chain) == \A i, j \in DOMAIN chain : i < j => chain[i][1] < chain[j][1]
HeldAt(over, p) == {i \in DOMAIN over.chain[p] : over.rows[over.chain[p][i][2]] # SF!NoRow}
ChainOK(over, p) ==
  /\ over.rows \in Seq(RowSet) /\ over.chain[p] \in Seq(EntrySet)
  /\ \A i \in DOMAIN over.chain[p] : over.chain[p][i][2] \in DOMAIN over.rows
  /\ ChainUp(over.chain[p])

LEMMA SpilledIs ==
  ASSUME NEW over, NEW p, ChainOK(over, p)
  PROVE  /\ SF!Spilled(over, p) \in Seq(SpilledSet) /\ InOrder(HeldAt(over, p))
         /\ DOMAIN SF!Spilled(over, p) = 1 .. Cardinality(HeldAt(over, p))
         /\ \A n \in DOMAIN SF!Spilled(over, p) :
              LET c == over.chain[p][SF!Nth(HeldAt(over, p), n)]
              IN SF!Spilled(over, p)[n] = [key |-> c[1], row |-> over.rows[c[2]]]
<1> DEFINE S == HeldAt(over, p)
           chain == over.chain[p]
           held == SF!Kept(chain, S)
           of(c) == [key |-> c[1], row |-> over.rows[c[2]]]
           spilled == [i \in DOMAIN held |-> of(held[i])]
<1>1. SF!Spilled(over, p) = spilled
  BY Zenon DEF SF!Spilled, HeldAt
<1>2. S \in SUBSET (DOMAIN chain) /\ chain \in Seq(EntrySet)
  BY DEF ChainOK, HeldAt
<1>3. /\ held \in Seq(EntrySet) /\ InOrder(S) /\ DOMAIN held = 1 .. Cardinality(S)
      /\ \A n \in DOMAIN held : held[n] = chain[SF!Nth(S, n)]
  BY <1>2, KeptIs
<1>4. \A n \in DOMAIN held : SF!Nth(S, n) \in DOMAIN chain
  BY <1>2, <1>3 DEF InOrder
<1>5. \A i \in DOMAIN chain : of(chain[i]) \in SpilledSet
  <2>1. \A i \in DOMAIN chain : chain[i][1] \in Nat
    BY <1>2 DEF EntrySet
  <2>2. \A i \in DOMAIN chain : over.rows[chain[i][2]] \in RowSet
    BY DEF ChainOK
  <2> QED
    BY <2>1, <2>2 DEF SpilledSet
<1> HIDE DEF S, chain, held, of
<1>6. \A n \in DOMAIN held : of(held[n]) \in SpilledSet
  BY <1>3, <1>4, <1>5
<1>7. spilled \in [1 .. Cardinality(S) -> SpilledSet] /\ \A n \in DOMAIN held : spilled[n] = of(held[n])
  BY <1>3, <1>6
<1>8. Cardinality(S) \in Nat
  BY <1>3 DEF InOrder
<1> HIDE DEF spilled
<1>9. spilled \in Seq(SpilledSet) /\ DOMAIN spilled = 1 .. Cardinality(S)
  BY <1>7, <1>8
<1>10. \A n \in DOMAIN spilled : spilled[n] = of(chain[SF!Nth(S, n)])
  BY <1>3, <1>7, <1>9
<1> QED
  BY <1>1, <1>3, <1>9, <1>10 DEF S, chain, of

SpilledAre(over, p, spilled) ==
  LET chain == over.chain[p]
      S == HeldAt(over, p)
  IN /\ spilled \in Seq(SpilledSet) /\ KeysStrictlyUp(spilled)
     /\ \A n \in DOMAIN spilled : \E i \in S : spilled[n].key = chain[i][1] /\ spilled[n].row = over.rows[chain[i][2]]
     /\ \A i \in S : \E n \in DOMAIN spilled : spilled[n].key = chain[i][1] /\ spilled[n].row = over.rows[chain[i][2]]

LEMMA SpilledRows ==
  ASSUME NEW over, NEW p, ChainOK(over, p)
  PROVE  SpilledAre(over, p, SF!Spilled(over, p))
<1> DEFINE S == HeldAt(over, p)
           chain == over.chain[p]
           spilled == SF!Spilled(over, p)
           at(n) == SF!Nth(S, n)
<1>1. /\ spilled \in Seq(SpilledSet) /\ InOrder(S) /\ DOMAIN spilled = 1 .. Cardinality(S)
      /\ \A n \in DOMAIN spilled : spilled[n] = [key |-> chain[at(n)][1], row |-> over.rows[chain[at(n)][2]]]
  BY SpilledIs
<1>2. /\ \A n \in DOMAIN spilled : at(n) \in S
      /\ \A m, n \in DOMAIN spilled : m < n => at(m) < at(n)
      /\ \A i \in S : \E n \in DOMAIN spilled : at(n) = i
  BY <1>1 DEF InOrder
<1>3. (\A i, j \in S : i < j => chain[i][1] < chain[j][1]) /\ S \subseteq DOMAIN chain
  BY DEF ChainOK, ChainUp, HeldAt
<1> HIDE DEF S, chain, spilled, at
<1>4. \A n \in DOMAIN spilled : spilled[n].key = chain[at(n)][1] /\ spilled[n].row = over.rows[chain[at(n)][2]]
  BY <1>1
<1>5. KeysStrictlyUp(spilled)
  BY <1>2, <1>3, <1>4 DEF KeysStrictlyUp
<1>6. \A i \in S : \E n \in DOMAIN spilled : spilled[n].key = chain[i][1] /\ spilled[n].row = over.rows[chain[i][2]]
  BY <1>2, <1>4
<1>7. \A n \in DOMAIN spilled : \E i \in S : spilled[n].key = chain[i][1] /\ spilled[n].row = over.rows[chain[i][2]]
  BY <1>2, <1>4
<1> QED
  BY <1>1, <1>5, <1>6, <1>7 DEF S, chain, spilled, SpilledAre

(* The file.                                                                *)
OverSet(P) == [rows : Seq(RowSet), chain : [P -> Seq(EntrySet)]]
FileOK(file) ==
  /\ file.pages \in Seq(PageSet) /\ file.pages # <<>>
  /\ file.over \in OverSet(DOMAIN file.pages)
  /\ \A p \in DOMAIN file.pages : SlotsUp(file.pages[p]) /\ ChainOK(file.over, p)

SlotRows(file, p) == {file.pages[p].slots[i].row : i \in ValidAt(file.pages[p])}
ChainRows(file, p) == {file.over.rows[file.over.chain[p][i][2]] : i \in HeldAt(file.over, p)}
RowsOf(file, p) == SlotRows(file, p) \union ChainRows(file, p)
RowsIn(file) == UNION {RowsOf(file, p) : p \in DOMAIN file.pages}

PageRows(file, p) == SF!Merged(SF!Live(file.pages[p]), SF!Spilled(file.over, p))
Elements(s) == {s[n] : n \in DOMAIN s}

LEMMA PageRowsAre ==
  ASSUME NEW file, FileOK(file), NEW p \in DOMAIN file.pages
  PROVE  PageRows(file, p) \in Seq(RowSet) /\ Elements(PageRows(file, p)) = RowsOf(file, p)
<1> DEFINE page == file.pages[p]
           over == file.over
           main == SF!Live(page)
           spilled == SF!Spilled(over, p)
           all == SF!Merged(main, spilled)
<1>1. page \in PageSet /\ SlotsUp(page) /\ ChainOK(over, p)
  BY DEF FileOK
<1>2. /\ main \in Seq(RowSet) /\ KeysUp(main)
      /\ \A n \in DOMAIN main : \E i \in ValidAt(page) : main[n] = page.slots[i].row
      /\ \A i \in ValidAt(page) : \E n \in DOMAIN main : main[n] = page.slots[i].row
  BY <1>1, LiveRows
<1>3. /\ spilled \in Seq(SpilledSet) /\ KeysStrictlyUp(spilled)
      /\ \A n \in DOMAIN spilled : \E i \in HeldAt(over, p) : spilled[n].row = over.rows[over.chain[p][i][2]]
      /\ \A i \in HeldAt(over, p) : \E n \in DOMAIN spilled : spilled[n].row = over.rows[over.chain[p][i][2]]
  <2> DEFINE of(i) == over.rows[over.chain[p][i][2]]
  <2>1. /\ spilled \in Seq(SpilledSet) /\ KeysStrictlyUp(spilled)
        /\ \A n \in DOMAIN spilled : \E i \in HeldAt(over, p) : spilled[n].key = over.chain[p][i][1] /\ spilled[n].row = of(i)
        /\ \A i \in HeldAt(over, p) : \E n \in DOMAIN spilled : spilled[n].key = over.chain[p][i][1] /\ spilled[n].row = of(i)
    <3>1. SpilledAre(over, p, spilled)
      BY <1>1, SpilledRows
    <3> HIDE DEF spilled, over
    <3> QED
      BY <3>1, Zenon DEF SpilledAre
  <2> HIDE DEF spilled, of, over
  <2>2. /\ \A n \in DOMAIN spilled : \E i \in HeldAt(over, p) : spilled[n].row = of(i)
        /\ \A i \in HeldAt(over, p) : \E n \in DOMAIN spilled : spilled[n].row = of(i)
    BY <2>1
  <2> QED
    BY <2>1, <2>2 DEF of
<1> HIDE DEF main, spilled
<1>4. /\ all \in Seq(RowSet)
      /\ \A n \in DOMAIN all : (\E i \in DOMAIN main : all[n] = main[i]) \/ (\E j \in DOMAIN spilled : all[n] = spilled[j].row)
      /\ \A i \in DOMAIN main : \E n \in DOMAIN all : all[n] = main[i]
      /\ \A j \in DOMAIN spilled : \E n \in DOMAIN all : all[n] = spilled[j].row
  BY <1>2, <1>3, MergedRows, Zenon
<1>5. PageRows(file, p) = all
  BY Zenon DEF PageRows, main, spilled
<1> HIDE DEF all
<1>6. \A r : r \in SlotRows(file, p) <=> \E i \in DOMAIN main : r = main[i]
  BY <1>2 DEF SlotRows
<1>7. \A r : r \in ChainRows(file, p) <=> \E j \in DOMAIN spilled : r = spilled[j].row
  <2> DEFINE of(i) == over.rows[over.chain[p][i][2]]
  <2>1. \A r : r \in ChainRows(file, p) <=> \E i \in HeldAt(over, p) : r = of(i)
    BY DEF ChainRows
  <2>2. /\ \A n \in DOMAIN spilled : \E i \in HeldAt(over, p) : spilled[n].row = of(i)
        /\ \A i \in HeldAt(over, p) : \E n \in DOMAIN spilled : spilled[n].row = of(i)
    BY <1>3
  <2> HIDE DEF of, over
  <2> QED
    BY <2>1, <2>2
<1>8. \A r : r \in Elements(all) <=> (\E i \in DOMAIN main : r = main[i]) \/ (\E j \in DOMAIN spilled : r = spilled[j].row)
  BY <1>4 DEF Elements
<1>9. Elements(all) = RowsOf(file, p)
  BY <1>6, <1>7, <1>8 DEF RowsOf
<1> QED
  BY <1>4, <1>5, <1>9

(* No key twice: each slot and each chain entry has a key of its own, and   *)
(* an entry names a row with its key.                                       *)
KeyedOnce(file) ==
  LET slots(p) == file.pages[p].slots
      chain(p) == file.over.chain[p]
      P == DOMAIN file.pages
  IN /\ \A p, q \in P : \A i \in ValidAt(file.pages[p]), j \in ValidAt(file.pages[q]) :
          slots(p)[i].row.key = slots(q)[j].row.key => p = q /\ i = j
     /\ \A p, q \in P : \A i \in ValidAt(file.pages[p]), j \in DOMAIN chain(q) : slots(p)[i].row.key # chain(q)[j][1]
     /\ \A p, q \in P : \A i \in DOMAIN chain(p), j \in DOMAIN chain(q) :
          chain(p)[i][1] = chain(q)[j][1] => p = q /\ i = j
     /\ \A p \in P : \A i \in DOMAIN chain(p) :
          file.over.rows[chain(p)[i][2]] # SF!NoRow /\ file.over.rows[chain(p)[i][2]].key = chain(p)[i][1]

LEMMA PageRowsUp ==
  ASSUME NEW file, FileOK(file), KeyedOnce(file), NEW p \in DOMAIN file.pages
  PROVE  KeysStrictlyUp(PageRows(file, p))
<1> DEFINE page == file.pages[p]
           over == file.over
           main == SF!Live(page)
           spilled == SF!Spilled(over, p)
<1>1. page \in PageSet /\ SlotsUp(page) /\ ChainOK(over, p)
  BY DEF FileOK
<1>2. /\ \A i, j \in ValidAt(page) : page.slots[i].row.key = page.slots[j].row.key => i = j
      /\ \A i \in ValidAt(page), j \in DOMAIN over.chain[p] : page.slots[i].row.key # over.chain[p][j][1]
      /\ \A i \in DOMAIN over.chain[p] : over.rows[over.chain[p][i][2]].key = over.chain[p][i][1]
  BY DEF KeyedOnce
<1>3. /\ main \in Seq(RowSet) /\ KeysStrictlyUp(main)
      /\ \A n \in DOMAIN main : \E i \in ValidAt(page) : main[n] = page.slots[i].row
  BY <1>1, <1>2, LiveRows
<1>4. /\ spilled \in Seq(SpilledSet) /\ KeysStrictlyUp(spilled)
      /\ \A n \in DOMAIN spilled : \E i \in HeldAt(over, p) :
           spilled[n].key = over.chain[p][i][1] /\ spilled[n].row = over.rows[over.chain[p][i][2]]
  BY <1>1, SpilledRows DEF SpilledAre
<1>5. HeldAt(over, p) \subseteq DOMAIN over.chain[p]
  BY DEF HeldAt
<1> HIDE DEF main, spilled, page, over
<1>6. \A j \in DOMAIN spilled : spilled[j].row.key = spilled[j].key
  BY <1>2, <1>4, <1>5
<1>7. \A i \in DOMAIN main, j \in DOMAIN spilled : main[i].key # spilled[j].key
  BY <1>2, <1>3, <1>4, <1>5
<1>8. KeysStrictlyUp(SF!Merged(main, spilled))
  BY <1>3, <1>4, <1>6, <1>7, MergedUp
<1> QED
  BY <1>8, Zenon DEF PageRows, main, spilled, page, over

(* Rows of two pages have different keys.                                   *)
LEMMA PagesApart ==
  ASSUME NEW file, KeyedOnce(file), NEW p \in DOMAIN file.pages, NEW q \in DOMAIN file.pages, p # q,
         NEW r \in RowsOf(file, p), NEW t \in RowsOf(file, q)
  PROVE  r.key # t.key
<1> DEFINE slots(x) == file.pages[x].slots
           chain(x) == file.over.chain[x]
           V(x) == ValidAt(file.pages[x])
           H(x) == HeldAt(file.over, x)
<1>1. \A x \in DOMAIN file.pages : H(x) \subseteq DOMAIN chain(x)
  BY DEF HeldAt
<1>2. /\ \A i \in V(p), j \in V(q) : slots(p)[i].row.key # slots(q)[j].row.key
      /\ \A i \in V(p), j \in DOMAIN chain(q) : slots(p)[i].row.key # chain(q)[j][1]
      /\ \A i \in V(q), j \in DOMAIN chain(p) : slots(q)[i].row.key # chain(p)[j][1]
      /\ \A i \in DOMAIN chain(p), j \in DOMAIN chain(q) : chain(p)[i][1] # chain(q)[j][1]
      /\ \A x \in {p, q} : \A i \in DOMAIN chain(x) : file.over.rows[chain(x)[i][2]].key = chain(x)[i][1]
  BY SMTT(30) DEF KeyedOnce
<1>3. (\E i \in V(p) : r = slots(p)[i].row) \/ (\E i \in H(p) : r = file.over.rows[chain(p)[i][2]])
  BY ZenonT(60) DEF RowsOf, SlotRows, ChainRows
<1>4. (\E i \in V(q) : t = slots(q)[i].row) \/ (\E i \in H(q) : t = file.over.rows[chain(q)[i][2]])
  BY ZenonT(60) DEF RowsOf, SlotRows, ChainRows
<1> HIDE DEF slots, chain, V, H
<1>5. (\E i \in V(p) : r.key = slots(p)[i].row.key) \/ (\E i \in DOMAIN chain(p) : r.key = chain(p)[i][1])
  BY <1>1, <1>2, <1>3
<1>6. (\E i \in V(q) : t.key = slots(q)[i].row.key) \/ (\E i \in DOMAIN chain(q) : t.key = chain(q)[i][1])
  BY <1>1, <1>2, <1>4
<1> QED
  BY <1>2, <1>5, <1>6

(* A scan page by page.                                                     *)
ScanTable(file, f) ==
  LET N == Len(file.pages)
  IN /\ f \in [0 .. N -> Seq(RowSet)] /\ f[0] = <<>> /\ SF!Scan(file) = f[N]
     /\ \A p \in 1 .. N : f[p - 1] \in Seq(RowSet) /\ f[p] = f[p - 1] \o PageRows(file, p)

LEMMA ScanIs ==
  ASSUME NEW file, FileOK(file)
  PROVE  \E f : ScanTable(file, f)
<1> DEFINE N == Len(file.pages)
           D == Seq(RowSet)
           rows(p) == PageRows(file, p)
           step == [p \in 1 .. N |-> [s \in D |-> s \o rows(p)]]
           upTo[p \in 0 .. N] == IF p = 0 THEN <<>> ELSE upTo[p - 1] \o rows(p)
<1>1. N \in Nat /\ DOMAIN file.pages = 1 .. N
  BY DEF FileOK
<1>2. \A p \in 1 .. N : rows(p) \in D
  BY <1>1, PageRowsAre
<1>3. SF!Scan(file) = upTo[N]
  BY Zenon DEF SF!Scan, PageRows
<1> HIDE DEF N, rows
<1>4. \A p \in 1 .. N, s \in D : s \o rows(p) \in D
  BY <1>2
<1>5. <<>> \in D
  OBVIOUS
<1> HIDE DEF D
<1>6. PICK f : Iterates(f, <<>>, step, N, D)
  <2>1. IsTable(step, N, D)
    BY <1>1, <1>4 DEF IsTable
  <2> HIDE DEF step
  <2> QED
    BY <1>5, <2>1, IterationExists
<1>7. /\ f \in [0 .. N -> D] /\ f[0] = <<>>
      /\ \A p \in 1 .. N : p - 1 \in 0 .. N /\ f[p - 1] \in D /\ f[p] = f[p - 1] \o rows(p)
  <2>1. f \in [0 .. N -> D] /\ f[0] = <<>> /\ \A p \in 1 .. N : f[p] = step[p][f[p - 1]]
    BY <1>6 DEF Iterates
  <2>2. \A p \in 1 .. N : p - 1 \in 0 .. N
    BY <1>1
  <2> QED
    BY <2>1, <2>2
<1> HIDE DEF step
<1>8. \A p \in 0 .. N : p # 0 => p \in 1 .. N
  BY <1>1
<1>9. f = [p \in 0 .. N |-> IF p = 0 THEN <<>> ELSE f[p - 1] \o rows(p)]
  <2>1. \A p \in 0 .. N : f[p] = IF p = 0 THEN <<>> ELSE f[p - 1] \o rows(p)
    BY <1>7, <1>8, Zenon
  <2>2. f = [p \in 0 .. N |-> f[p]]
    BY <1>7
  <2> QED
    BY <2>1, <2>2, Zenon
<1>10. upTo = [p \in 0 .. N |-> IF p = 0 THEN <<>> ELSE upTo[p - 1] \o rows(p)]
  BY <1>9, Zenon
<1> HIDE DEF upTo
<1>11. \A p \in 0 .. N : upTo[p] = IF p = 0 THEN <<>> ELSE upTo[p - 1] \o rows(p)
  BY <1>10, Zenon
<1>12. \A p \in 0 .. N : upTo[p] = f[p]
  <2> DEFINE S == {p \in 0 .. N : upTo[p] = f[p]}
  <2>1. 0 \in S
    BY <1>1, <1>7, <1>11
  <2>2. ASSUME NEW p \in 1 .. N, p - 1 \in S PROVE p \in S
    <3>1. p \in 0 .. N /\ p # 0 /\ upTo[p - 1] = f[p - 1]
      BY <1>1, <2>2
    <3>2. upTo[p] = f[p - 1] \o rows(p)
      BY <1>11, <3>1, Zenon
    <3> QED
      BY <1>7, <3>1, <3>2
  <2> HIDE DEF S
  <2>3. 0 .. N \subseteq S
    BY <1>1, <2>1, <2>2, BoundedInduction
  <2> QED
    BY <2>3 DEF S
<1>13. SF!Scan(file) = f[N]
  BY <1>1, <1>3, <1>12
<1> QED
  BY <1>7, <1>13, Zenon DEF ScanTable, N, rows, D

LEMMA ConcatIs ==
  ASSUME NEW a \in Seq(RowSet), NEW b \in Seq(RowSet)
  PROVE  /\ Len(a) \in Nat /\ Len(b) \in Nat /\ DOMAIN a = 1 .. Len(a) /\ DOMAIN b = 1 .. Len(b)
         /\ a \o b \in Seq(RowSet) /\ DOMAIN (a \o b) = 1 .. Len(a) + Len(b)
         /\ \A i \in DOMAIN a : i \in DOMAIN (a \o b) /\ (a \o b)[i] = a[i]
         /\ \A i \in DOMAIN b : Len(a) + i \in DOMAIN (a \o b) /\ (a \o b)[Len(a) + i] = b[i]
         /\ \A i \in DOMAIN (a \o b) : i \in DOMAIN a \/ (i - Len(a) \in DOMAIN b /\ Len(a) + (i - Len(a)) = i)
<1>1. /\ Len(a \o b) = Len(a) + Len(b) /\ Len(a) \in Nat /\ Len(b) \in Nat /\ DOMAIN a = 1 .. Len(a) /\ DOMAIN b = 1 .. Len(b)
      /\ a \o b \in Seq(RowSet) /\ DOMAIN (a \o b) = 1 .. Len(a) + Len(b)
      /\ \A i \in 1 .. Len(a) + Len(b) : (a \o b)[i] = IF i <= Len(a) THEN a[i] ELSE b[i - Len(a)]
  OBVIOUS
<1>2. \A i \in DOMAIN a : i \in DOMAIN (a \o b) /\ (a \o b)[i] = a[i]
  BY <1>1
<1>3. ASSUME NEW i \in DOMAIN b PROVE Len(a) + i \in DOMAIN (a \o b) /\ (a \o b)[Len(a) + i] = b[i]
  <2>1. Len(a) + i \in 1 .. Len(a) + Len(b) /\ ~ (Len(a) + i <= Len(a)) /\ (Len(a) + i) - Len(a) = i
    BY <1>1
  <2> QED
    BY <1>1, <2>1
<1>4. \A i \in DOMAIN (a \o b) : i \in DOMAIN a \/ (i - Len(a) \in DOMAIN b /\ Len(a) + (i - Len(a)) = i)
  BY <1>1
<1> QED
  BY <1>1, <1>2, <1>3, <1>4

LEMMA ConcatElements ==
  ASSUME NEW a \in Seq(RowSet), NEW b \in Seq(RowSet)
  PROVE  Elements(a \o b) = Elements(a) \union Elements(b)
<1> DEFINE c == a \o b
<1>1. /\ \A i \in DOMAIN a : i \in DOMAIN c /\ c[i] = a[i]
      /\ \A i \in DOMAIN b : Len(a) + i \in DOMAIN c /\ c[Len(a) + i] = b[i]
      /\ \A i \in DOMAIN c : i \in DOMAIN a \/ (i - Len(a) \in DOMAIN b /\ Len(a) + (i - Len(a)) = i)
  BY ConcatIs
<1> HIDE DEF c
<1>2. \A i \in DOMAIN c : c[i] \in Elements(a) \union Elements(b)
  BY <1>1 DEF Elements
<1>3. \A i \in DOMAIN a : a[i] \in Elements(c)
  BY <1>1 DEF Elements
<1>4. \A i \in DOMAIN b : b[i] \in Elements(c)
  BY <1>1 DEF Elements
<1>5. Elements(c) \subseteq Elements(a) \union Elements(b) /\ Elements(a) \subseteq Elements(c) /\ Elements(b) \subseteq Elements(c)
  BY <1>2, <1>3, <1>4 DEF Elements
<1> QED
  BY <1>5 DEF c

KeysOnce(rows) == \A i, j \in DOMAIN rows : rows[i].key = rows[j].key => i = j

LEMMA ConcatOnce ==
  ASSUME NEW a \in Seq(RowSet), NEW b \in Seq(RowSet), KeysOnce(a), KeysOnce(b),
         \A r \in Elements(a), t \in Elements(b) : r.key # t.key
  PROVE  KeysOnce(a \o b)
<1> DEFINE c == a \o b
<1>1. /\ \A i \in DOMAIN a : i \in DOMAIN c /\ c[i] = a[i]
      /\ \A i \in DOMAIN b : Len(a) + i \in DOMAIN c /\ c[Len(a) + i] = b[i]
      /\ \A i \in DOMAIN c : i \in DOMAIN a \/ (i - Len(a) \in DOMAIN b /\ Len(a) + (i - Len(a)) = i)
  BY ConcatIs
<1>2. \A i \in DOMAIN a, j \in DOMAIN b : a[i].key # b[j].key
  BY DEF Elements
<1> HIDE DEF c
<1>3. ASSUME NEW i \in DOMAIN c, NEW j \in DOMAIN c, c[i].key = c[j].key PROVE i = j
  <2>1. CASE i \in DOMAIN a /\ j \in DOMAIN a
    BY <1>1, <1>3, <2>1 DEF KeysOnce
  <2>2. CASE i \notin DOMAIN a /\ j \notin DOMAIN a
    <3>1. i - Len(a) \in DOMAIN b /\ Len(a) + (i - Len(a)) = i /\ c[i] = b[i - Len(a)]
      BY <1>1, <2>2
    <3>2. j - Len(a) \in DOMAIN b /\ Len(a) + (j - Len(a)) = j /\ c[j] = b[j - Len(a)]
      BY <1>1, <2>2
    <3>3. i - Len(a) = j - Len(a)
      BY <1>3, <3>1, <3>2 DEF KeysOnce
    <3> QED
      BY <3>1, <3>2, <3>3
  <2>3. CASE i \in DOMAIN a /\ j \notin DOMAIN a
    BY <1>1, <1>2, <1>3, <2>3
  <2>4. CASE i \notin DOMAIN a /\ j \in DOMAIN a
    BY <1>1, <1>2, <1>3, <2>4
  <2> QED
    BY <2>1, <2>2, <2>3, <2>4
<1> QED
  BY <1>3 DEF KeysOnce, c

LEMMA ConcatUp ==
  ASSUME NEW a \in Seq(RowSet), NEW b \in Seq(RowSet), KeysStrictlyUp(a), KeysStrictlyUp(b),
         \A r \in Elements(a), t \in Elements(b) : r.key < t.key
  PROVE  KeysStrictlyUp(a \o b)
<1> DEFINE c == a \o b
<1>1. /\ Len(a) \in Nat /\ DOMAIN a = 1 .. Len(a) /\ DOMAIN b \subseteq Nat /\ DOMAIN c \subseteq Nat \ {0}
      /\ \A i \in DOMAIN a : i \in DOMAIN c /\ c[i] = a[i]
      /\ \A i \in DOMAIN b : Len(a) + i \in DOMAIN c /\ c[Len(a) + i] = b[i]
      /\ \A i \in DOMAIN c : i \in DOMAIN a \/ (i - Len(a) \in DOMAIN b /\ Len(a) + (i - Len(a)) = i)
  BY ConcatIs
<1>2. \A i \in DOMAIN a, j \in DOMAIN b : a[i].key < b[j].key
  BY DEF Elements
<1> HIDE DEF c
<1>3. ASSUME NEW i \in DOMAIN c, NEW j \in DOMAIN c, i < j PROVE c[i].key < c[j].key
  <2>0. i \in Nat /\ j \in Nat
    BY <1>1
  <2>1. CASE j \in DOMAIN a
    <3>1. i \in DOMAIN a
      BY <1>1, <1>3, <2>0, <2>1
    <3> QED
      BY <1>1, <1>3, <2>1, <3>1 DEF KeysStrictlyUp
  <2>2. CASE i \notin DOMAIN a /\ j \notin DOMAIN a
    <3>1. i - Len(a) \in DOMAIN b /\ Len(a) + (i - Len(a)) = i /\ c[i] = b[i - Len(a)]
      BY <1>1, <2>2
    <3>2. j - Len(a) \in DOMAIN b /\ Len(a) + (j - Len(a)) = j /\ c[j] = b[j - Len(a)]
      BY <1>1, <2>2
    <3>3. i - Len(a) < j - Len(a)
      BY <1>1, <1>3, <2>0
    <3>4. b[i - Len(a)].key < b[j - Len(a)].key
      BY <3>1, <3>2, <3>3 DEF KeysStrictlyUp
    <3> QED
      BY <3>1, <3>2, <3>4
  <2>3. CASE i \in DOMAIN a /\ j \notin DOMAIN a
    BY <1>1, <1>2, <2>3
  <2> QED
    BY <2>1, <2>2, <2>3
<1> QED
  BY <1>3 DEF KeysStrictlyUp, c

(* What a scan gives: the rows of all the pages, ...                        *)
LEMMA ScanRows ==
  ASSUME NEW file, FileOK(file)
  PROVE  SF!Scan(file) \in Seq(RowSet) /\ Elements(SF!Scan(file)) = RowsIn(file)
<1> DEFINE N == Len(file.pages)
           before(p) == UNION {RowsOf(file, q) : q \in 1 .. p}
           rows(p) == PageRows(file, p)
<1>1. N \in Nat /\ DOMAIN file.pages = 1 .. N
  BY DEF FileOK
<1>2. PICK f : ScanTable(file, f)
  BY ScanIs
<1>3. /\ f \in [0 .. N -> Seq(RowSet)] /\ f[0] = <<>> /\ SF!Scan(file) = f[N]
      /\ \A p \in 1 .. N : f[p - 1] \in Seq(RowSet) /\ f[p] = f[p - 1] \o rows(p)
  BY <1>2, Zenon DEF ScanTable
<1>4. \A p \in 1 .. N : rows(p) \in Seq(RowSet) /\ Elements(rows(p)) = RowsOf(file, p)
  BY <1>1, PageRowsAre
<1> HIDE DEF N, rows
<1> DEFINE S == {p \in 0 .. N : Elements(f[p]) = before(p)}
<1>5. 0 \in S
  <2>1. Elements(<<>>) = {} /\ before(0) = {}
    BY DEF Elements
  <2>2. Elements(f[0]) = Elements(<<>>)
    BY <1>3, Zenon
  <2>3. 0 \in 0 .. N
    BY <1>1
  <2> HIDE DEF before
  <2> QED
    BY <2>1, <2>2, <2>3
<1>6. ASSUME NEW p \in 1 .. N, p - 1 \in S PROVE p \in S
  <2>1. f[p - 1] \in Seq(RowSet) /\ rows(p) \in Seq(RowSet) /\ f[p] = f[p - 1] \o rows(p)
    BY <1>3, <1>4
  <2>2. Elements(f[p]) = Elements(f[p - 1]) \union Elements(rows(p))
    BY <2>1, ConcatElements
  <2>3. before(p) = before(p - 1) \union RowsOf(file, p)
    <3>1. p \in Nat /\ \A q : q \in 1 .. p <=> q \in 1 .. p - 1 \/ q = p
      BY <1>1
    <3> QED
      BY <3>1
  <2>4. p \in 0 .. N
    BY <1>1
  <2> HIDE DEF before
  <2> QED
    BY <1>4, <1>6, <2>2, <2>3, <2>4
<1> HIDE DEF S
<1>7. 0 .. N \subseteq S
  BY <1>1, <1>5, <1>6, BoundedInduction
<1>8. N \in 0 .. N
  BY <1>1
<1>9. Elements(f[N]) = before(N)
  BY <1>7, <1>8 DEF S
<1>10. before(N) = RowsIn(file)
  BY <1>1 DEF RowsIn
<1> QED
  BY <1>3, <1>8, <1>9, <1>10

LEMMA UpIsOnce ==
  ASSUME NEW s \in Seq(RowSet), KeysStrictlyUp(s)
  PROVE  KeysOnce(s)
<1>1. \A i \in DOMAIN s : i \in Nat /\ s[i].key \in Nat
  BY RowKeys
<1> QED
  BY <1>1 DEF KeysStrictlyUp, KeysOnce

(* ... every key once, ...                                                  *)
LEMMA ScanOnce ==
  ASSUME NEW file, FileOK(file), KeyedOnce(file)
  PROVE  KeysOnce(SF!Scan(file))
<1> DEFINE N == Len(file.pages)
           before(p) == UNION {RowsOf(file, q) : q \in 1 .. p}
           rows(p) == PageRows(file, p)
<1>1. N \in Nat /\ DOMAIN file.pages = 1 .. N
  BY DEF FileOK
<1>2. PICK f : ScanTable(file, f)
  BY ScanIs
<1>3. /\ f \in [0 .. N -> Seq(RowSet)] /\ f[0] = <<>> /\ SF!Scan(file) = f[N]
      /\ \A p \in 1 .. N : f[p - 1] \in Seq(RowSet) /\ f[p] = f[p - 1] \o rows(p)
  BY <1>2, Zenon DEF ScanTable
<1>4. \A p \in 1 .. N : rows(p) \in Seq(RowSet) /\ Elements(rows(p)) = RowsOf(file, p) /\ KeysOnce(rows(p))
  BY <1>1, PageRowsAre, PageRowsUp, UpIsOnce
<1>5. \A p \in 1 .. N, q \in 1 .. N : p # q => \A r \in RowsOf(file, p), t \in RowsOf(file, q) : r.key # t.key
  BY <1>1, PagesApart
<1> HIDE DEF N, rows
<1> DEFINE S == {p \in 0 .. N : Elements(f[p]) = before(p) /\ KeysOnce(f[p])}
<1>6. 0 \in S
  <2>1. Elements(<<>>) = {} /\ before(0) = {} /\ KeysOnce(<<>>)
    BY DEF Elements, KeysOnce
  <2>2. Elements(f[0]) = Elements(<<>>) /\ (KeysOnce(f[0]) <=> KeysOnce(<<>>))
    BY <1>3, Zenon
  <2>3. 0 \in 0 .. N
    BY <1>1
  <2> HIDE DEF before
  <2> QED
    BY <2>1, <2>2, <2>3
<1>7. ASSUME NEW p \in 1 .. N, p - 1 \in S PROVE p \in S
  <2>1. /\ f[p - 1] \in Seq(RowSet) /\ rows(p) \in Seq(RowSet) /\ f[p] = f[p - 1] \o rows(p)
        /\ KeysOnce(f[p - 1]) /\ KeysOnce(rows(p)) /\ Elements(f[p - 1]) = before(p - 1)
    BY <1>3, <1>4, <1>7
  <2>2. Elements(f[p]) = Elements(f[p - 1]) \union Elements(rows(p))
    BY <2>1, ConcatElements
  <2>3. before(p) = before(p - 1) \union RowsOf(file, p)
    <3>1. p \in Nat /\ \A q : q \in 1 .. p <=> q \in 1 .. p - 1 \/ q = p
      BY <1>1
    <3> QED
      BY <3>1
  <2>4. ASSUME NEW r \in Elements(f[p - 1]), NEW t \in Elements(rows(p)) PROVE r.key # t.key
    <3>1. PICK q \in 1 .. p - 1 : r \in RowsOf(file, q)
      BY <2>1, <2>4
    <3>2. q \in 1 .. N /\ q # p
      BY <1>1
    <3>3. t \in RowsOf(file, p)
      BY <1>4, <2>4
    <3> QED
      BY <1>5, <3>1, <3>2, <3>3
  <2>5. KeysOnce(f[p])
    BY <2>1, <2>4, ConcatOnce
  <2>6. p \in 0 .. N
    BY <1>1
  <2> HIDE DEF before
  <2> QED
    BY <1>4, <2>1, <2>2, <2>3, <2>5, <2>6
<1> HIDE DEF S
<1>8. 0 .. N \subseteq S
  BY <1>1, <1>6, <1>7, BoundedInduction
<1>9. N \in 0 .. N
  BY <1>1
<1>10. KeysOnce(f[N])
  BY <1>8, <1>9 DEF S
<1> QED
  BY <1>3, <1>10

(* ... and in order if the pages are.                                       *)
LEMMA ScanUp ==
  ASSUME NEW file, FileOK(file), KeyedOnce(file),
         \A p, q \in DOMAIN file.pages : p < q => \A r \in RowsOf(file, p), t \in RowsOf(file, q) : r.key < t.key
  PROVE  KeysStrictlyUp(SF!Scan(file))
<1> DEFINE N == Len(file.pages)
           before(p) == UNION {RowsOf(file, q) : q \in 1 .. p}
           rows(p) == PageRows(file, p)
<1>1. N \in Nat /\ DOMAIN file.pages = 1 .. N
  BY DEF FileOK
<1>2. PICK f : ScanTable(file, f)
  BY ScanIs
<1>3. /\ f \in [0 .. N -> Seq(RowSet)] /\ f[0] = <<>> /\ SF!Scan(file) = f[N]
      /\ \A p \in 1 .. N : f[p - 1] \in Seq(RowSet) /\ f[p] = f[p - 1] \o rows(p)
  BY <1>2, Zenon DEF ScanTable
<1>4. \A p \in 1 .. N : rows(p) \in Seq(RowSet) /\ Elements(rows(p)) = RowsOf(file, p) /\ KeysStrictlyUp(rows(p))
  BY <1>1, PageRowsAre, PageRowsUp
<1>5. \A p \in 1 .. N, q \in 1 .. N : p < q => \A r \in RowsOf(file, p), t \in RowsOf(file, q) : r.key < t.key
  BY <1>1
<1> HIDE DEF N, rows
<1> DEFINE S == {p \in 0 .. N : Elements(f[p]) = before(p) /\ KeysStrictlyUp(f[p])}
<1>6. 0 \in S
  <2>1. Elements(<<>>) = {} /\ before(0) = {} /\ KeysStrictlyUp(<<>>)
    BY DEF Elements, KeysStrictlyUp
  <2>2. Elements(f[0]) = Elements(<<>>) /\ (KeysStrictlyUp(f[0]) <=> KeysStrictlyUp(<<>>))
    BY <1>3, Zenon
  <2>3. 0 \in 0 .. N
    BY <1>1
  <2> HIDE DEF before
  <2> QED
    BY <2>1, <2>2, <2>3
<1>7. ASSUME NEW p \in 1 .. N, p - 1 \in S PROVE p \in S
  <2>1. /\ f[p - 1] \in Seq(RowSet) /\ rows(p) \in Seq(RowSet) /\ f[p] = f[p - 1] \o rows(p)
        /\ KeysStrictlyUp(f[p - 1]) /\ KeysStrictlyUp(rows(p)) /\ Elements(f[p - 1]) = before(p - 1)
    BY <1>3, <1>4, <1>7
  <2>2. Elements(f[p]) = Elements(f[p - 1]) \union Elements(rows(p))
    BY <2>1, ConcatElements
  <2>3. before(p) = before(p - 1) \union RowsOf(file, p)
    <3>1. p \in Nat /\ \A q : q \in 1 .. p <=> q \in 1 .. p - 1 \/ q = p
      BY <1>1
    <3> QED
      BY <3>1
  <2>4. ASSUME NEW r \in Elements(f[p - 1]), NEW t \in Elements(rows(p)) PROVE r.key < t.key
    <3>1. PICK q \in 1 .. p - 1 : r \in RowsOf(file, q)
      BY <2>1, <2>4
    <3>2. q \in 1 .. N /\ q < p
      BY <1>1
    <3>3. t \in RowsOf(file, p)
      BY <1>4, <2>4
    <3> QED
      BY <1>5, <3>1, <3>2, <3>3
  <2>5. KeysStrictlyUp(f[p])
    BY <2>1, <2>4, ConcatUp
  <2>6. p \in 0 .. N
    BY <1>1
  <2> HIDE DEF before
  <2> QED
    BY <1>4, <2>1, <2>2, <2>3, <2>5, <2>6
<1> HIDE DEF S
<1>8. 0 .. N \subseteq S
  BY <1>1, <1>6, <1>7, BoundedInduction
<1>9. N \in 0 .. N
  BY <1>1
<1>10. KeysStrictlyUp(f[N])
  BY <1>8, <1>9 DEF S
<1> QED
  BY <1>3, <1>10

(* One element more in a sequence: where the others go.                     *)
Moved(at, i) == IF i < at THEN i ELSE i + 1
GrownAt(t, s, at, x) ==
  /\ at \in DOMAIN t /\ t[at] = x /\ Len(t) = Len(s) + 1
  /\ \A i \in DOMAIN s : Moved(at, i) \in DOMAIN t /\ t[Moved(at, i)] = s[i] /\ Moved(at, i) # at
  /\ \A n \in DOMAIN t : n = at \/ \E i \in DOMAIN s : n = Moved(at, i)

LEMMA InsertedAt ==
  ASSUME NEW X, NEW s \in Seq(X), NEW at \in 1 .. Len(s) + 1, NEW x \in X
  PROVE  SF!InsertAt(s, at, x) \in Seq(X) /\ GrownAt(SF!InsertAt(s, at, x), s, at, x)
<1> DEFINE L == Len(s)
           a == SubSeq(s, 1, at - 1)
           b == SubSeq(s, at, L)
           t == (a \o <<x>>) \o b
<1>1. SF!InsertAt(s, at, x) = t
  BY DEF SF!InsertAt
<1>2. L \in Nat /\ at \in Nat /\ 1 <= at /\ at <= L + 1 /\ DOMAIN s = 1 .. L
  OBVIOUS
<1>3. /\ a \in Seq(X) /\ Len(a) = at - 1 /\ (\A i \in 1 .. at - 1 : a[i] = s[i])
      /\ b \in Seq(X) /\ Len(b) = L + 1 - at /\ (\A i \in 1 .. L + 1 - at : b[i] = s[at + i - 1])
  <2>1. /\ SubSeq(s, 1, at - 1) \in Seq(X)
        /\ Len(SubSeq(s, 1, at - 1)) = IF 1 <= at - 1 THEN at - 1 - 1 + 1 ELSE 0
        /\ \A i \in 1 .. at - 1 - 1 + 1 : SubSeq(s, 1, at - 1)[i] = s[1 + i - 1]
    BY <1>2, SubSeqProperties
  <2>2. /\ SubSeq(s, at, L) \in Seq(X)
        /\ Len(SubSeq(s, at, L)) = IF at <= L THEN L - at + 1 ELSE 0
        /\ \A i \in 1 .. L - at + 1 : SubSeq(s, at, L)[i] = s[at + i - 1]
    BY <1>2, SubSeqProperties
  <2> HIDE DEF L
  <2> QED
    BY <1>2, <2>1, <2>2
<1> HIDE DEF a, b, L
<1>4. /\ t \in Seq(X) /\ Len(t) = L + 1 /\ DOMAIN t = 1 .. L + 1
      /\ \A n \in 1 .. L + 1 : t[n] = IF n < at THEN a[n] ELSE IF n = at THEN x ELSE b[n - at]
  <2>1. a \o <<x>> \in Seq(X) /\ Len(a \o <<x>>) = at /\ \A n \in 1 .. at : (a \o <<x>>)[n] = IF n < at THEN a[n] ELSE x
    BY <1>2, <1>3
  <2> DEFINE c == a \o <<x>>
  <2> HIDE DEF c
  <2>2. /\ c \o b \in Seq(X) /\ Len(c \o b) = at + (L + 1 - at)
        /\ \A n \in 1 .. at + (L + 1 - at) : (c \o b)[n] = IF n <= at THEN c[n] ELSE b[n - at]
    BY <1>2, <1>3, <2>1 DEF c
  <2>3. at + (L + 1 - at) = L + 1
    BY <1>2
  <2>4. t = c \o b
    BY DEF c
  <2>5. t \in Seq(X) /\ Len(t) = L + 1 /\ \A n \in 1 .. L + 1 : t[n] = IF n <= at THEN c[n] ELSE b[n - at]
    BY <2>2, <2>3, <2>4
  <2>6. \A n \in 1 .. at : c[n] = IF n < at THEN a[n] ELSE x
    BY <2>1 DEF c
  <2> HIDE DEF t
  <2> QED
    BY <1>2, <2>5, <2>6
<1> HIDE DEF t
<1>5. at \in DOMAIN t /\ t[at] = x
  BY <1>2, <1>4
<1>6. ASSUME NEW i \in DOMAIN s PROVE Moved(at, i) \in DOMAIN t /\ t[Moved(at, i)] = s[i] /\ Moved(at, i) # at
  <2>1. i \in Nat /\ 1 <= i /\ i <= L
    BY <1>2
  <2>2. CASE i < at
    <3>1. Moved(at, i) = i /\ i \in 1 .. at - 1 /\ i \in 1 .. L + 1 /\ i # at
      BY <1>2, <2>1, <2>2 DEF Moved
    <3> QED
      BY <1>3, <1>4, <2>2, <3>1
  <2>3. CASE ~ (i < at)
    <3>1. /\ Moved(at, i) = i + 1 /\ i + 1 \in 1 .. L + 1 /\ ~ (i + 1 < at) /\ i + 1 # at
          /\ (i + 1) - at \in 1 .. L + 1 - at /\ at + ((i + 1) - at) - 1 = i
      BY <1>2, <2>1, <2>3 DEF Moved
    <3>2. t[i + 1] = b[(i + 1) - at]
      BY <1>4, <3>1
    <3>3. b[(i + 1) - at] = s[at + ((i + 1) - at) - 1]
      BY <1>3, <3>1
    <3> QED
      BY <1>4, <3>1, <3>2, <3>3
  <2> QED
    BY <2>2, <2>3
<1>7. ASSUME NEW n \in DOMAIN t, n # at PROVE \E i \in DOMAIN s : n = Moved(at, i)
  <2>1. n \in Nat /\ 1 <= n /\ n <= L + 1
    BY <1>2, <1>4
  <2>2. CASE n < at
    <3>1. n \in DOMAIN s /\ n = Moved(at, n)
      BY <1>2, <2>1, <2>2 DEF Moved
    <3> QED
      BY <3>1
  <2>3. CASE at < n
    <3>1. n - 1 \in DOMAIN s /\ n = Moved(at, n - 1)
      BY <1>2, <2>1, <2>3 DEF Moved
    <3> QED
      BY <3>1
  <2> QED
    BY <1>2, <1>7, <2>1, <2>2, <2>3
<1> QED
  BY <1>1, <1>4, <1>5, <1>6, <1>7 DEF GrownAt, L

LEMMA MovedUp ==
  ASSUME NEW at \in Nat, NEW i \in Nat, NEW j \in Nat
  PROVE  /\ i < j <=> Moved(at, i) < Moved(at, j)
         /\ Moved(at, i) = Moved(at, j) => i = j
         /\ at < Moved(at, i) <=> at <= i
         /\ Moved(at, i) < at <=> i < at
BY DEF Moved

(* A row more in a page.                                                    *)
NoRoom(page, row) == MainRoom - page.data - Len(page.slots) * MainSlot < MainSlot + row.len
NewSlotOf(row) == SF!Slot(row, row.len, TRUE)

LEMMA WithRowIs ==
  ASSUME NEW page \in PageSet, NEW row \in RowSet, SlotsUp(page)
  PROVE  /\ NoRoom(page, row) => SF!WithRow(page, row) = page
         /\ ~ NoRoom(page, row) =>
              LET new == SF!WithRow(page, row)
              IN /\ new \in PageSet /\ SlotsUp(new) /\ new # page /\ new.data = page.data + row.len
                 /\ \E at \in Nat : GrownAt(new.slots, page.slots, at, NewSlotOf(row))
<1> DEFINE slots == page.slots
           N == Len(slots)
           upTo == {i \in DOMAIN slots : slots[i].valid /\ slots[i].row.key <= row.key}
           m == Cardinality(UNION {1 .. i : i \in upTo})
           at == 1 + m
           grown == SF!InsertAt(slots, at, NewSlotOf(row))
           new == [slots |-> grown, data |-> page.data + row.len]
<1>1. SF!WithRow(page, row) = IF NoRoom(page, row) THEN page ELSE new
  BY Zenon DEF SF!WithRow, NoRoom, NewSlotOf, SF!Cardinality, Cardinality
<1>2. /\ slots \in Seq(SFSlotSet) /\ N \in Nat /\ DOMAIN slots = 1 .. N /\ page.data \in Nat
      /\ (\A i \in 1 .. N : slots[i].row.key \in Nat /\ slots[i].valid \in BOOLEAN)
      /\ row.key \in Nat /\ row.len \in Nat
  <2>1. row.key \in Nat /\ row.len \in Nat
    BY DEF RowSet
  <2> QED
    BY <2>1, PageTypes
<1>3. m \in 0 .. N /\ (m # 0 => m \in upTo) /\ upTo \subseteq 1 .. m
  <2>1. upTo \in SUBSET (1 .. N)
    BY <1>2
  <2>2. PICK x \in 0 .. N : m = x /\ (x # 0 => x \in upTo) /\ upTo \subseteq 1 .. x
    <3> HIDE DEF upTo, N
    <3>1. \E x \in 0 .. N : /\ UNION {1 .. i : i \in upTo} = 1 .. x
                            /\ Cardinality(UNION {1 .. i : i \in upTo}) = x
                            /\ x # 0 => x \in upTo
                            /\ upTo \subseteq 1 .. x
      BY <1>2, <2>1, UpToGreatest
    <3> QED
      BY <3>1
  <2> HIDE DEF upTo, N, m
  <2> QED
    BY <2>2
<1>4. /\ m # 0 => m \in 1 .. N /\ slots[m].valid /\ slots[m].row.key <= row.key
      /\ \A i \in 1 .. N : slots[i].valid /\ slots[i].row.key <= row.key => i <= m
  BY SMTT(30), <1>2, <1>3
<1> HIDE DEF upTo, m
<1>5. NewSlotOf(row) \in SFSlotSet /\ NewSlotOf(row).row = row /\ NewSlotOf(row).valid
  BY <1>2 DEF NewSlotOf, SF!Slot, SFSlotSet
<1>6. at \in 1 .. N + 1 /\ at \in Nat /\ m \in Nat
  BY <1>2, <1>3
<1>7. grown \in Seq(SFSlotSet) /\ GrownAt(grown, slots, at, NewSlotOf(row))
  <2> HIDE DEF slots, at, grown
  <2>1. at \in 1 .. Len(slots) + 1 /\ slots \in Seq(SFSlotSet)
    BY <1>2, <1>6
  <2> QED
    BY <1>5, <2>1, InsertedAt DEF grown
<1> HIDE DEF grown
<1>8. new \in PageSet /\ new.slots = grown /\ new.data = page.data + row.len
  BY <1>2, <1>7 DEF PageSet
<1>9. new # page
  <2>1. Len(grown) = N + 1
    BY <1>7 DEF GrownAt
  <2>2. Len(grown) # Len(page.slots)
    BY <1>2, <2>1
  <2> HIDE DEF new
  <2> QED
    BY <1>8, <2>2
<1>10. SlotsUp(new)
  <2>1. /\ at \in DOMAIN grown /\ grown[at] = NewSlotOf(row)
        /\ \A i \in DOMAIN slots : grown[Moved(at, i)] = slots[i]
        /\ \A n \in DOMAIN grown : n = at \/ \E i \in DOMAIN slots : n = Moved(at, i)
    BY <1>7 DEF GrownAt
  <2>2. \A i, j \in 1 .. N : slots[i].valid /\ slots[j].valid /\ i < j => slots[i].row.key <= slots[j].row.key
    BY <1>2 DEF SlotsUp, ValidAt
  <2> HIDE DEF slots, N, at
  <2>3. ASSUME NEW a \in DOMAIN grown, NEW b \in DOMAIN grown, grown[a].valid, grown[b].valid, a < b
        PROVE  grown[a].row.key <= grown[b].row.key
    <3>1. CASE \E i \in 1 .. N, j \in 1 .. N : a = Moved(at, i) /\ b = Moved(at, j)
      <4>1. PICK i \in 1 .. N, j \in 1 .. N : a = Moved(at, i) /\ b = Moved(at, j)
        BY <3>1
      <4>2. i < j /\ grown[a] = slots[i] /\ grown[b] = slots[j]
        BY <1>2, <1>6, <2>1, <2>3, <4>1, MovedUp
      <4> QED
        BY <2>2, <2>3, <4>2
    <3>2. CASE a = at /\ \E j \in 1 .. N : b = Moved(at, j)
      <4>1. PICK j \in 1 .. N : b = Moved(at, j)
        BY <3>2
      <4>2. at <= j /\ grown[b] = slots[j] /\ grown[a].row = row
        BY <1>2, <1>5, <1>6, <2>1, <2>3, <3>2, <4>1, MovedUp
      <4>3. ~ (j <= m)
        BY <1>6, <4>2 DEF at
      <4>4. ~ (slots[j].row.key <= row.key)
        BY <1>4, <2>3, <4>2, <4>3
      <4> QED
        BY <1>2, <4>2, <4>4
    <3>3. CASE b = at /\ \E i \in 1 .. N : a = Moved(at, i)
      <4>1. PICK i \in 1 .. N : a = Moved(at, i)
        BY <3>3
      <4>2. i < at /\ grown[a] = slots[i] /\ grown[b].row = row
        BY <1>2, <1>5, <1>6, <2>1, <2>3, <3>3, <4>1, MovedUp
      <4>3. m # 0 /\ (i = m \/ i < m)
        BY <1>6, <4>2 DEF at
      <4>4. m \in 1 .. N /\ slots[m].valid /\ slots[m].row.key <= row.key
        BY <1>4, <4>3
      <4>5. slots[i].row.key <= slots[m].row.key
        BY <1>2, <2>2, <2>3, <4>2, <4>3, <4>4
      <4> QED
        BY <1>2, <4>2, <4>4, <4>5
    <3>4. ~ (a = at /\ b = at)
      BY <1>6, <2>3
    <3> QED
      BY <1>2, <2>1, <3>1, <3>2, <3>3, <3>4
  <2> HIDE DEF new
  <2> QED
    BY <1>8, <2>3 DEF SlotsUp, ValidAt
<1> HIDE DEF new, at
<1>11. \E x \in Nat : GrownAt(new.slots, page.slots, x, NewSlotOf(row))
  BY <1>6, <1>7, <1>8 DEF slots
<1> QED
  BY <1>1, <1>8, <1>9, <1>10, <1>11

(* Where a key goes: some page, and the first before one that begins above  *)
(* the key or begins with nothing.                                          *)
Before(file, k) ==
  {p \in DOMAIN file.pages : p = Len(file.pages) \/ SF!Live(file.pages[p + 1]) = <<>>
                               \/ k < SF!Live(file.pages[p + 1])[1].key}

LEMMA TargetIs ==
  ASSUME NEW file, FileOK(file), NEW k
  PROVE  /\ SF!TargetPage(file, k) \in DOMAIN file.pages
         /\ SF!TargetPage(file, k) \in Before(file, k)
         /\ \A q \in Before(file, k) : SF!TargetPage(file, k) <= q
<1> DEFINE B == Before(file, k)
<1>1. Len(file.pages) \in Nat /\ DOMAIN file.pages = 1 .. Len(file.pages) /\ Len(file.pages) # 0
  <2>1. file.pages \in Seq(PageSet) /\ file.pages # <<>>
    BY DEF FileOK
  <2> QED
    BY <2>1
<1>2. Len(file.pages) \in B /\ B \subseteq Nat /\ B \subseteq DOMAIN file.pages
  BY <1>1 DEF Before
<1>3. SF!TargetPage(file, k) = CHOOSE p \in B : \A q \in B : p <= q
  BY Zenon DEF SF!TargetPage, Before
<1> HIDE DEF B
<1>4. \E p \in B : \A q \in B : p <= q
  BY <1>2, LeastNat
<1>5. SF!TargetPage(file, k) \in B /\ \A q \in B : SF!TargetPage(file, k) <= q
  BY <1>3, <1>4
<1> QED
  BY <1>2, <1>5 DEF B

(* A free slot of the overflow file, if it says there is one.               *)
LEMMA FreeSlotIs ==
  ASSUME NEW over, over.rows \in Seq(RowSet)
  PROVE  \/ SF!FreeSlot(over) = 0
         \/ SF!FreeSlot(over) \in DOMAIN over.rows /\ over.rows[SF!FreeSlot(over)] = SF!NoRow
<1> DEFINE I == {i \in 1 .. Len(over.rows) : over.rows[i] = SF!NoRow}
<1>1. I \subseteq Nat /\ DOMAIN over.rows = 1 .. Len(over.rows)
  OBVIOUS
<1>2. CASE I = {}
  BY <1>2, Zenon DEF SF!FreeSlot, SF!SelectInSeq
<1>3. CASE I # {}
  <2>1. \E x \in I : \A y \in I : x <= y
    <3> HIDE DEF I
    <3> QED
      BY <1>1, <1>3, LeastNat
  <2>2. SF!FreeSlot(over) = SF!Min(I)
    BY <1>3, Zenon DEF SF!FreeSlot, SF!SelectInSeq
  <2>3. SF!Min(I) \in I
    BY <2>1, Zenon DEF SF!Min
  <2> QED
    BY <1>1, <2>2, <2>3
<1> QED
  BY <1>2, <1>3

(* A file as an operation makes it.                                         *)
IsFile(file) == file = [pages |-> file.pages, over |-> file.over, raised |-> file.raised]

(* A row more in a page of the file.                                        *)
PutInPage(file, new, p, row) ==
  /\ new.over = file.over
  /\ new.pages = [file.pages EXCEPT ![p] = SF!WithRow(file.pages[p], row)]

LEMMA PageGrown ==
  ASSUME NEW file, FileOK(file), NEW p \in DOMAIN file.pages, NEW row \in RowSet, ~ NoRoom(file.pages[p], row),
         NEW new, PutInPage(file, new, p, row)
  PROVE  /\ FileOK(new) /\ DOMAIN new.pages = DOMAIN file.pages
         /\ new.pages[p] = SF!WithRow(file.pages[p], row) /\ new.pages[p] # file.pages[p]
         /\ new.pages[p].data = file.pages[p].data + row.len
         /\ \A q \in DOMAIN file.pages : q # p => new.pages[q] = file.pages[q]
         /\ \E at \in Nat : GrownAt(new.pages[p].slots, file.pages[p].slots, at, NewSlotOf(row))
<1> DEFINE page == SF!WithRow(file.pages[p], row)
<1>1. /\ file.pages \in Seq(PageSet) /\ file.pages # <<>> /\ file.pages[p] \in PageSet /\ SlotsUp(file.pages[p])
      /\ file.over \in OverSet(DOMAIN file.pages)
      /\ \A q \in DOMAIN file.pages : SlotsUp(file.pages[q]) /\ ChainOK(file.over, q)
  BY DEF FileOK
<1>2. /\ page \in PageSet /\ SlotsUp(page) /\ page # file.pages[p] /\ page.data = file.pages[p].data + row.len
      /\ \E at \in Nat : GrownAt(page.slots, file.pages[p].slots, at, NewSlotOf(row))
  <2> DEFINE old == file.pages[p]
  <2> HIDE DEF old
  <2>1. /\ old \in PageSet /\ SlotsUp(old) /\ ~ NoRoom(old, row)
    BY <1>1 DEF old
  <2>2. LET n == SF!WithRow(old, row)
        IN /\ n \in PageSet /\ SlotsUp(n) /\ n # old /\ n.data = old.data + row.len
           /\ \E at \in Nat : GrownAt(n.slots, old.slots, at, NewSlotOf(row))
    BY <2>1, WithRowIs
  <2> QED
    BY <2>2 DEF old
<1> HIDE DEF page
<1>3. /\ new.pages = [file.pages EXCEPT ![p] = page] /\ new.over = file.over
  BY DEF PutInPage, page
<1>4. /\ new.pages \in Seq(PageSet) /\ DOMAIN new.pages = DOMAIN file.pages /\ Len(new.pages) = Len(file.pages)
      /\ new.pages[p] = page /\ \A q \in DOMAIN file.pages : q # p => new.pages[q] = file.pages[q]
  BY <1>1, <1>2, <1>3, ReplacedInSeq
<1>5. new.pages # <<>>
  <2>1. Len(file.pages) # 0 /\ Len(<<>>) = 0
    BY <1>1
  <2> QED
    BY <1>4, <2>1
<1>6. \A q \in DOMAIN new.pages : SlotsUp(new.pages[q]) /\ ChainOK(new.over, q)
  BY <1>1, <1>2, <1>3, <1>4
<1>7. FileOK(new)
  BY <1>1, <1>3, <1>4, <1>5, <1>6 DEF FileOK
<1> QED
  BY <1>2, <1>4, <1>7 DEF page

(* The valid slots of a page that got a row.                                *)
GrowsBy(old, page, at, row) ==
  /\ at \in ValidAt(page) /\ page.slots[at].row = row
  /\ \A i \in ValidAt(old) : Moved(at, i) \in ValidAt(page) /\ page.slots[Moved(at, i)].row = old.slots[i].row
  /\ \A n \in ValidAt(page) :
       n = at \/ \E i \in ValidAt(old) : n = Moved(at, i) /\ page.slots[n].row = old.slots[i].row

LEMMA GrownValid ==
  ASSUME NEW old, NEW page, NEW at, NEW row, GrownAt(page.slots, old.slots, at, NewSlotOf(row))
  PROVE  GrowsBy(old, page, at, row)
<1> DEFINE t == page.slots
           s == old.slots
<1>1. /\ at \in DOMAIN t /\ t[at] = NewSlotOf(row)
      /\ \A i \in DOMAIN s : Moved(at, i) \in DOMAIN t /\ t[Moved(at, i)] = s[i]
      /\ \A n \in DOMAIN t : n = at \/ \E i \in DOMAIN s : n = Moved(at, i)
  BY DEF GrownAt
<1>2. NewSlotOf(row).valid /\ NewSlotOf(row).row = row
  BY DEF NewSlotOf, SF!Slot
<1>3. /\ \A n : n \in ValidAt(page) <=> n \in DOMAIN t /\ t[n].valid
      /\ \A n : n \in ValidAt(old) <=> n \in DOMAIN s /\ s[n].valid
  BY DEF ValidAt
<1> HIDE DEF s, t
<1>4. /\ at \in ValidAt(page) /\ t[at].row = row
      /\ \A i \in ValidAt(old) : Moved(at, i) \in ValidAt(page) /\ t[Moved(at, i)].row = s[i].row
  BY <1>1, <1>2, <1>3
<1>5. \A n \in ValidAt(page) : n = at \/ \E i \in ValidAt(old) : n = Moved(at, i) /\ t[n].row = s[i].row
  BY <1>1, <1>3
<1> QED
  BY <1>4, <1>5 DEF GrowsBy, s, t

(* The keys a file has are those of its rows.                               *)
LEMMA KeysOfRows ==
  ASSUME NEW file, KeyedOnce(file), NEW p \in DOMAIN file.pages
  PROVE  /\ \A i \in ValidAt(file.pages[p]) : \E r \in RowsIn(file) : r = file.pages[p].slots[i].row
         /\ \A i \in DOMAIN file.over.chain[p] :
              /\ i \in HeldAt(file.over, p)
              /\ \E r \in RowsIn(file) : r = file.over.rows[file.over.chain[p][i][2]] /\ r.key = file.over.chain[p][i][1]
<1>1. ASSUME NEW i \in ValidAt(file.pages[p]) PROVE \E r \in RowsIn(file) : r = file.pages[p].slots[i].row
  BY DEF RowsIn, RowsOf, SlotRows
<1>2. ASSUME NEW i \in DOMAIN file.over.chain[p]
      PROVE  /\ i \in HeldAt(file.over, p)
             /\ \E r \in RowsIn(file) : r = file.over.rows[file.over.chain[p][i][2]] /\ r.key = file.over.chain[p][i][1]
  <2> DEFINE r == file.over.rows[file.over.chain[p][i][2]]
  <2>1. r # SF!NoRow /\ r.key = file.over.chain[p][i][1]
    BY DEF KeyedOnce
  <2>2. i \in HeldAt(file.over, p)
    BY <2>1 DEF HeldAt
  <2>3. r \in RowsIn(file)
    <3>1. r \in ChainRows(file, p)
      BY <2>2 DEF ChainRows
    <3> HIDE DEF r
    <3> QED
      BY <3>1 DEF RowsIn, RowsOf
  <2> HIDE DEF r
  <2>4. r = file.over.rows[file.over.chain[p][i][2]]
    BY DEF r
  <2> QED
    BY <2>1, <2>2, <2>3, <2>4
<1> QED
  BY <1>1, <1>2

NewKey(file, k) == \A r \in RowsIn(file) : r.key # k

LEMMA PageGrownRows ==
  ASSUME NEW file, FileOK(file), NEW p \in DOMAIN file.pages, NEW row \in RowSet, ~ NoRoom(file.pages[p], row),
         NEW new, PutInPage(file, new, p, row)
  PROVE  /\ RowsIn(new) = RowsIn(file) \union {row}
         /\ KeyedOnce(file) /\ NewKey(file, row.key) => KeyedOnce(new)
<1> DEFINE P == DOMAIN file.pages
           V(q) == ValidAt(file.pages[q])
           W(q) == ValidAt(new.pages[q])
           s(q) == file.pages[q].slots
           t(q) == new.pages[q].slots
<1>1. /\ DOMAIN new.pages = P /\ new.over = file.over
      /\ \A q \in P : q # p => new.pages[q] = file.pages[q]
  BY PageGrown DEF PutInPage
<1>2. PICK at \in Nat : GrownAt(new.pages[p].slots, file.pages[p].slots, at, NewSlotOf(row))
  BY PageGrown
<1>3. /\ at \in W(p) /\ t(p)[at].row = row
      /\ \A i \in V(p) : Moved(at, i) \in W(p) /\ t(p)[Moved(at, i)].row = s(p)[i].row
      /\ \A n \in W(p) : n = at \/ \E i \in V(p) : n = Moved(at, i) /\ t(p)[n].row = s(p)[i].row
  <2>1. GrowsBy(file.pages[p], new.pages[p], at, row)
    BY <1>2, GrownValid
  <2> QED
    BY <2>1, Zenon DEF GrowsBy
<1>4. \A q \in P : q # p => W(q) = V(q) /\ t(q) = s(q)
  BY <1>1
<1> DEFINE C(q) == ChainRows(file, q)
<1>5. \A q \in P : ChainRows(new, q) = C(q)
  BY <1>1 DEF ChainRows
<1>6. /\ \A r : r \in RowsIn(file) <=> \E q \in P : (\E i \in V(q) : r = s(q)[i].row) \/ r \in C(q)
      /\ \A r : r \in RowsIn(new) <=> \E q \in P : (\E i \in W(q) : r = t(q)[i].row) \/ r \in C(q)
  BY <1>1, <1>5 DEF RowsIn, RowsOf, SlotRows
<1>7. KeyedOnce(file) /\ NewKey(file, row.key) =>
        /\ \A q \in P : \A i \in V(q) : s(q)[i].row.key # row.key
        /\ \A q \in P : \A i \in DOMAIN file.over.chain[q] : file.over.chain[q][i][1] # row.key
  <2> SUFFICES ASSUME KeyedOnce(file), NewKey(file, row.key)
      PROVE  /\ \A q \in P : \A i \in V(q) : s(q)[i].row.key # row.key
             /\ \A q \in P : \A i \in DOMAIN file.over.chain[q] : file.over.chain[q][i][1] # row.key
    OBVIOUS
  <2>1. ASSUME NEW q \in P, NEW i \in V(q) PROVE s(q)[i].row.key # row.key
    <3>1. \E r \in RowsIn(file) : r = s(q)[i].row
      BY KeysOfRows
    <3> QED
      BY <3>1 DEF NewKey
  <2>2. ASSUME NEW q \in P, NEW i \in DOMAIN file.over.chain[q] PROVE file.over.chain[q][i][1] # row.key
    <3>1. \E r \in RowsIn(file) : r.key = file.over.chain[q][i][1]
      BY KeysOfRows
    <3> QED
      BY <3>1 DEF NewKey
  <2> QED
    BY <2>1, <2>2
<1> DEFINE chain(q) == file.over.chain[q]
<1>8. KeyedOnce(file) =>
        /\ \A a, q \in P : \A i \in V(a), j \in V(q) : s(a)[i].row.key = s(q)[j].row.key => a = q /\ i = j
        /\ \A a, q \in P : \A i \in V(a), j \in DOMAIN chain(q) : s(a)[i].row.key # chain(q)[j][1]
  BY DEF KeyedOnce
<1>9. KeyedOnce(file) =>
        /\ \A a, q \in P : \A i \in DOMAIN chain(a), j \in DOMAIN chain(q) :
             chain(a)[i][1] = chain(q)[j][1] => a = q /\ i = j
        /\ \A a \in P : \A i \in DOMAIN chain(a) :
             file.over.rows[chain(a)[i][2]] # SF!NoRow /\ file.over.rows[chain(a)[i][2]].key = chain(a)[i][1]
  BY DEF KeyedOnce
<1>10. KeyedOnce(new) <=>
         /\ \A a, q \in P : \A i \in W(a), j \in W(q) : t(a)[i].row.key = t(q)[j].row.key => a = q /\ i = j
         /\ \A a, q \in P : \A i \in W(a), j \in DOMAIN chain(q) : t(a)[i].row.key # chain(q)[j][1]
         /\ \A a, q \in P : \A i \in DOMAIN chain(a), j \in DOMAIN chain(q) :
             chain(a)[i][1] = chain(q)[j][1] => a = q /\ i = j
         /\ \A a \in P : \A i \in DOMAIN chain(a) :
             file.over.rows[chain(a)[i][2]] # SF!NoRow /\ file.over.rows[chain(a)[i][2]].key = chain(a)[i][1]
  BY <1>1 DEF KeyedOnce
<1> HIDE DEF P, V, W, s, t, C, chain
<1>11. p \in P
  BY DEF P
<1>12. RowsIn(new) = RowsIn(file) \union {row}
  <2>1. ASSUME NEW r, r \in RowsIn(new) PROVE r \in RowsIn(file) \/ r = row
    <3>1. PICK q \in P : (\E i \in W(q) : r = t(q)[i].row) \/ r \in C(q)
      BY <1>6, <2>1
    <3> QED
      BY <1>3, <1>4, <1>6, <3>1
  <2>2. ASSUME NEW r, r \in RowsIn(file) PROVE r \in RowsIn(new)
    <3>1. PICK q \in P : (\E i \in V(q) : r = s(q)[i].row) \/ r \in C(q)
      BY <1>6, <2>2
    <3> QED
      BY ZenonT(40), <1>3, <1>4, <1>6, <3>1
  <2>3. row \in RowsIn(new)
    BY <1>3, <1>6, <1>11
  <2> QED
    BY <2>1, <2>2, <2>3
<1>13. ASSUME KeyedOnce(file), NewKey(file, row.key) PROVE KeyedOnce(new)
  <2>1. \A q \in P : \A n \in W(q) :
          \/ q = p /\ n = at /\ t(q)[n].row.key = row.key
          \/ \E i \in V(q) : n = (IF q = p THEN Moved(at, i) ELSE i) /\ t(q)[n].row.key = s(q)[i].row.key
    BY <1>3, <1>4
  <2>2. ASSUME NEW a \in P, NEW q \in P, NEW i \in W(a), NEW j \in W(q), t(a)[i].row.key = t(q)[j].row.key
        PROVE  a = q /\ i = j
    BY <1>7, <1>8, <1>13, <2>1, <2>2
  <2>3. ASSUME NEW a \in P, NEW q \in P, NEW i \in W(a), NEW j \in DOMAIN chain(q)
        PROVE  t(a)[i].row.key # chain(q)[j][1]
    BY <1>7, <1>8, <1>13, <2>1 DEF chain
  <2> QED
    BY <1>9, <1>10, <1>13, <2>2, <2>3
<1> QED
  BY <1>12, <1>13

(* An entry more in a chain that does not have its key.                     *)
ChainPlace(chain, k) == 1 + Cardinality({i \in DOMAIN chain : chain[i][1] < k})
ChainGrows(chain, new, at, entry) ==
  /\ new \in Seq(EntrySet) /\ ChainUp(new) /\ at \in Nat
  /\ GrownAt(new, chain, at, entry)

LEMMA ChainGrown ==
  ASSUME NEW chain \in Seq(EntrySet), ChainUp(chain), NEW k \in Nat, NEW slot \in Nat,
         \A i \in DOMAIN chain : chain[i][1] # k
  PROVE  ChainGrows(chain, SF!InsertAt(chain, ChainPlace(chain, k), <<k, slot>>), ChainPlace(chain, k), <<k, slot>>)
<1> DEFINE N == Len(chain)
           S == {i \in DOMAIN chain : chain[i][1] < k}
           c == Cardinality(S)
           at == ChainPlace(chain, k)
           new == SF!InsertAt(chain, at, <<k, slot>>)
<1>1. N \in Nat /\ DOMAIN chain = 1 .. N
  OBVIOUS
<1>2. \A i \in 1 .. N : chain[i] \in EntrySet /\ chain[i][1] \in Nat
  <2>1. \A i \in 1 .. N : chain[i] \in EntrySet
    BY <1>1
  <2> QED
    BY <2>1 DEF EntrySet
<1>3. c \in 0 .. N /\ S = 1 .. c
  <2>1. S \in SUBSET (1 .. N) /\ \A i \in S, j \in 1 .. N : j < i => j \in S
    <3>1. ASSUME NEW i \in S, NEW j \in 1 .. N, j < i PROVE j \in S
      <4>1. chain[j][1] < chain[i][1] /\ chain[i][1] < k
        BY <1>1, <3>1 DEF ChainUp
      <4> QED
        BY <1>1, <1>2, <4>1
    <3> QED
      BY <1>1, <3>1
  <2> HIDE DEF S
  <2> QED
    BY <1>1, <2>1, FirstOnes
<1>4. at = 1 + c
  BY DEF ChainPlace
<1>5. \A i \in 1 .. N : (i <= c => chain[i][1] < k) /\ (~ (i <= c) => k < chain[i][1])
  <2> SUFFICES ASSUME NEW i \in 1 .. N PROVE (i <= c => chain[i][1] < k) /\ (~ (i <= c) => k < chain[i][1])
    OBVIOUS
  <2>1. i \in S <=> i <= c
    <3> HIDE DEF S, c
    <3> QED
      BY <1>1, <1>3
  <2>2. i \in S <=> chain[i][1] < k
    BY <1>1
  <2>3. chain[i][1] # k
    BY <1>1
  <2> QED
    BY <1>2, <2>1, <2>2, <2>3
<1> HIDE DEF at, S, c
<1>6. at \in Nat /\ at \in 1 .. Len(chain) + 1 /\ c \in Nat
  BY <1>1, <1>3, <1>4
<1>7. <<k, slot>> \in EntrySet /\ <<k, slot>>[1] = k
  BY DEF EntrySet
<1>8. new \in Seq(EntrySet) /\ GrownAt(new, chain, at, <<k, slot>>)
  BY <1>6, <1>7, InsertedAt
<1> HIDE DEF new, N
<1>9. ChainUp(new)
  <2>1. /\ at \in DOMAIN new /\ new[at] = <<k, slot>>
        /\ \A i \in 1 .. N : new[Moved(at, i)] = chain[i]
        /\ \A n \in DOMAIN new : n = at \/ \E i \in 1 .. N : n = Moved(at, i)
    BY <1>1, <1>8 DEF GrownAt
  <2>2. new[at][1] = k /\ \A i \in 1 .. N : new[Moved(at, i)][1] = chain[i][1]
    BY <1>7, <2>1
  <2>3. ASSUME NEW a \in DOMAIN new, NEW b \in DOMAIN new, a < b PROVE new[a][1] < new[b][1]
    <3>1. CASE a = at /\ b = at
      BY <1>6, <2>3, <3>1
    <3>2. CASE a = at /\ \E j \in 1 .. N : b = Moved(at, j)
      <4>1. PICK j \in 1 .. N : b = Moved(at, j)
        BY <3>2
      <4>2. ~ (j <= c)
        BY <1>1, <1>4, <1>6, <2>3, <3>2, <4>1, MovedUp
      <4> QED
        BY <1>5, <2>2, <3>2, <4>1, <4>2
    <3>3. CASE b = at /\ \E i \in 1 .. N : a = Moved(at, i)
      <4>1. PICK i \in 1 .. N : a = Moved(at, i)
        BY <3>3
      <4>2. i <= c
        BY <1>1, <1>4, <1>6, <2>3, <3>3, <4>1, MovedUp
      <4> QED
        BY <1>5, <2>2, <3>3, <4>1, <4>2
    <3>4. CASE (\E i \in 1 .. N : a = Moved(at, i)) /\ (\E j \in 1 .. N : b = Moved(at, j))
      <4>1. PICK i \in 1 .. N, j \in 1 .. N : a = Moved(at, i) /\ b = Moved(at, j)
        BY <3>4
      <4>2. i < j
        BY <1>1, <1>6, <2>3, <4>1, MovedUp
      <4>3. chain[i][1] < chain[j][1]
        BY <1>1, <4>2 DEF ChainUp
      <4> QED
        BY <2>2, <4>1, <4>3
    <3> QED
      BY <2>1, <3>1, <3>2, <3>3, <3>4
  <2> QED
    BY <2>3 DEF ChainUp
<1> QED
  BY <1>6, <1>8, <1>9 DEF ChainGrows, at, new

(* A row more in the overflow file: in a slot that held none.               *)
StoredAt(old, rows, slot, row) ==
  /\ rows \in Seq(RowSet) /\ slot \in Nat /\ slot \in DOMAIN rows /\ rows[slot] = row
  /\ \A i \in DOMAIN old : i \in DOMAIN rows /\ (i = slot \/ rows[i] = old[i])
  /\ slot \in DOMAIN old => old[slot] = SF!NoRow

SpillSlot(over) == IF SF!FreeSlot(over) = 0 THEN Len(over.rows) + 1 ELSE SF!FreeSlot(over)
SpillRows(over, row) ==
  IF SF!FreeSlot(over) = 0 THEN Append(over.rows, row) ELSE [over.rows EXCEPT ![SpillSlot(over)] = row]

LEMMA SpillStores ==
  ASSUME NEW over, over.rows \in Seq(RowSet), NEW row \in RowSet
  PROVE  StoredAt(over.rows, SpillRows(over, row), SpillSlot(over), row)
<1> DEFINE free == SF!FreeSlot(over)
           rows == over.rows
           N == Len(rows)
<1>1. N \in Nat /\ DOMAIN rows = 1 .. N /\ rows \in Seq(RowSet)
  OBVIOUS
<1>2. CASE free = 0
  <2>1. SpillSlot(over) = N + 1 /\ SpillRows(over, row) = Append(rows, row)
    BY <1>2 DEF SpillSlot, SpillRows
  <2> DEFINE t == Append(rows, row)
  <2> HIDE DEF rows
  <2>2. t \in Seq(RowSet) /\ DOMAIN t = 1 .. N + 1 /\ t[N + 1] = row /\ \A i \in 1 .. N : t[i] = rows[i]
    BY <1>1
  <2> HIDE DEF t, N
  <2>3. N + 1 \in Nat /\ N + 1 \in 1 .. N + 1 /\ N + 1 \notin 1 .. N /\ \A i \in 1 .. N : i \in 1 .. N + 1
    BY <1>1
  <2>4. StoredAt(rows, t, N + 1, row)
    BY <1>1, <2>2, <2>3 DEF StoredAt
  <2> QED
    BY <2>1, <2>4 DEF t, rows
<1>3. CASE free # 0
  <2>1. free \in DOMAIN rows /\ rows[free] = SF!NoRow
    BY <1>3, FreeSlotIs
  <2>2. SpillSlot(over) = free /\ SpillRows(over, row) = [rows EXCEPT ![free] = row]
    BY <1>3 DEF SpillSlot, SpillRows
  <2> HIDE DEF rows, free
  <2> DEFINE t == [rows EXCEPT ![free] = row]
  <2>3. t \in Seq(RowSet) /\ DOMAIN t = DOMAIN rows /\ t[free] = row /\ \A i \in DOMAIN rows \ {free} : t[i] = rows[i]
    BY <1>1, <2>1, ReplacedInSeq
  <2> HIDE DEF t
  <2>4. free \in Nat
    BY <1>1, <2>1
  <2>5. StoredAt(rows, t, free, row)
    BY <1>1, <2>1, <2>3, <2>4 DEF StoredAt
  <2> QED
    BY <2>2, <2>5 DEF t, rows, free
<1> QED
  BY <1>2, <1>3

(* A row that goes to the overflow file: with an entry in the chain of its  *)
(* page, or without one.                                                    *)
HasKey(file, p, k) == \E i \in DOMAIN file.over.chain[p] : file.over.chain[p][i][1] = k
Spills(file, new, p, row) ==
  /\ new.pages = file.pages
  /\ StoredAt(file.over.rows, new.over.rows, SpillSlot(file.over), row)
  /\ new.over.chain \in [DOMAIN file.pages -> Seq(EntrySet)]
  /\ DOMAIN new.over.chain = DOMAIN file.over.chain
  /\ \A q \in DOMAIN file.over.chain : q # p => new.over.chain[q] = file.over.chain[q]
  /\ IF HasKey(file, p, row.key)
       THEN new.over.chain[p] = file.over.chain[p] /\ new.raised = "TypeError"
       ELSE /\ \E at \in Nat : ChainGrows(file.over.chain[p], new.over.chain[p], at, <<row.key, SpillSlot(file.over)>>)
            /\ new.raised = file.raised
  /\ IsFile(new) /\ new.over = [rows |-> new.over.rows, chain |-> new.over.chain]

LEMMA WithSpilledIs ==
  ASSUME NEW file, FileOK(file), IsFile(file), NEW p \in DOMAIN file.pages, NEW row \in RowSet
  PROVE  Spills(file, SF!WithSpilled(file, p, row), p, row)
<1> DEFINE ps == file.pages
           rows == file.over.rows
           chain == file.over.chain
           x == file.raised
           slot == SpillSlot(file.over)
           grown == SpillRows(file.over, row)
           t == SF!InsertAt(chain[p], ChainPlace(chain[p], row.key), <<row.key, slot>>)
           new == SF!WithSpilled(file, p, row)
<1>1. /\ file.over \in OverSet(DOMAIN ps) /\ ChainOK(file.over, p)
  BY DEF FileOK
<1>2. /\ file.over = [rows |-> rows, chain |-> chain] /\ rows \in Seq(RowSet)
      /\ chain \in [DOMAIN ps -> Seq(EntrySet)] /\ DOMAIN chain = DOMAIN ps
  BY <1>1 DEF OverSet
<1>3. file = [pages |-> ps, over |-> [rows |-> rows, chain |-> chain], raised |-> x]
  BY <1>2 DEF IsFile
<1>4. row.key \in Nat
  BY DEF RowSet
<1>5. StoredAt(rows, grown, slot, row)
  BY <1>2, SpillStores
<1>6. new = IF HasKey(file, p, row.key)
              THEN [pages |-> ps, over |-> [rows |-> grown, chain |-> chain], raised |-> "TypeError"]
              ELSE [pages |-> ps, over |-> [rows |-> grown, chain |-> [chain EXCEPT ![p] = t]], raised |-> x]
  <2>1. new = IF HasKey(file, p, row.key)
                THEN [file EXCEPT !.over.rows = grown, !.raised = "TypeError"]
                ELSE [file EXCEPT !.over.rows = grown, !.over.chain[p] = SF!InsertAt(@, ChainPlace(chain[p], row.key), <<row.key, slot>>)]
    BY Zenon DEF SF!WithSpilled, HasKey, SpillSlot, SpillRows, ChainPlace, SF!Cardinality, Cardinality
  <2> DEFINE y == [file EXCEPT !.over.rows = grown]
  <2> HIDE DEF new, grown, slot, t, ps, rows, chain, x
  <2>0. y = [pages |-> ps, over |-> [rows |-> grown, chain |-> chain], raised |-> x]
    BY <1>3
  <2>2. [file EXCEPT !.over.rows = grown, !.raised = "TypeError"]
          = [pages |-> ps, over |-> [rows |-> grown, chain |-> chain], raised |-> "TypeError"]
    <3>1. [file EXCEPT !.over.rows = grown, !.raised = "TypeError"] = [y EXCEPT !.raised = "TypeError"]
      BY Zenon
    <3> HIDE DEF y
    <3> QED
      BY <2>0, <3>1
  <2>3. [file EXCEPT !.over.rows = grown, !.over.chain[p] = SF!InsertAt(@, ChainPlace(chain[p], row.key), <<row.key, slot>>)]
          = [pages |-> ps, over |-> [rows |-> grown, chain |-> [chain EXCEPT ![p] = t]], raised |-> x]
    <3>1. [file EXCEPT !.over.rows = grown, !.over.chain[p] = SF!InsertAt(@, ChainPlace(chain[p], row.key), <<row.key, slot>>)]
            = [y EXCEPT !.over.chain[p] = SF!InsertAt(@, ChainPlace(chain[p], row.key), <<row.key, slot>>)]
      BY Zenon
    <3> HIDE DEF y
    <3>2. y.over.chain[p] = chain[p]
      BY <2>0
    <3>3. [y EXCEPT !.over.chain[p] = SF!InsertAt(@, ChainPlace(chain[p], row.key), <<row.key, slot>>)]
            = [y EXCEPT !.over.chain[p] = t]
      BY <3>2, Zenon DEF t
    <3>4. [y EXCEPT !.over.chain[p] = t] = [pages |-> ps, over |-> [rows |-> grown, chain |-> [chain EXCEPT ![p] = t]], raised |-> x]
      BY <2>0
    <3> QED
      BY <3>1, <3>3, <3>4
  <2> QED
    BY <2>1, <2>2, <2>3
<1> HIDE DEF new
<1>7. CASE HasKey(file, p, row.key)
  <2> HIDE DEF ps, rows, chain, x, grown, slot
  <2>1. new.pages = ps /\ new.over = [rows |-> grown, chain |-> chain] /\ new.raised = "TypeError" /\ IsFile(new)
    BY <1>6, <1>7 DEF IsFile
  <2>2. new.over.rows = grown /\ new.over.chain = chain
    BY <2>1
  <2> QED
    BY <1>2, <1>5, <1>7, <2>1, <2>2 DEF Spills, ps, rows, chain, slot, new
<1>8. CASE ~ HasKey(file, p, row.key)
  <2>1. ChainGrows(chain[p], t, ChainPlace(chain[p], row.key), <<row.key, slot>>)
    <3>1. chain[p] \in Seq(EntrySet) /\ ChainUp(chain[p]) /\ \A i \in DOMAIN chain[p] : chain[p][i][1] # row.key
      BY <1>1, <1>8 DEF ChainOK, HasKey
    <3>2. slot \in Nat
      BY <1>5 DEF StoredAt
    <3> HIDE DEF chain, slot
    <3> QED
      BY <1>4, <3>1, <3>2, ChainGrown
  <2> DEFINE at == ChainPlace(chain[p], row.key)
  <2>2. at \in Nat /\ ChainGrows(chain[p], t, at, <<row.key, slot>>)
    BY <2>1 DEF ChainGrows
  <2> HIDE DEF ps, rows, chain, x, grown, slot, t, at
  <2>3. new.pages = ps /\ new.over = [rows |-> grown, chain |-> [chain EXCEPT ![p] = t]] /\ new.raised = x /\ IsFile(new)
    BY <1>6, <1>8 DEF IsFile
  <2>4. new.over.rows = grown /\ new.over.chain = [chain EXCEPT ![p] = t]
    BY <2>3
  <2>5. /\ new.over.chain \in [DOMAIN ps -> Seq(EntrySet)]
        /\ DOMAIN new.over.chain = DOMAIN chain /\ new.over.chain[p] = t /\ \A q \in DOMAIN chain : q # p => new.over.chain[q] = chain[q]
    BY <1>2, <2>2, <2>4 DEF ps, ChainGrows
  <2>6. \E y \in Nat : ChainGrows(chain[p], new.over.chain[p], y, <<row.key, slot>>)
    BY <2>2, <2>5
  <2> QED
    BY <1>5, <1>8, <2>3, <2>4, <2>5, <2>6 DEF Spills, ps, rows, chain, slot, x, new
<1> QED
  BY <1>7, <1>8

LEMMA SpillsKeepOK ==
  ASSUME NEW file, FileOK(file), NEW p \in DOMAIN file.pages, NEW row \in RowSet, NEW new, Spills(file, new, p, row)
  PROVE  FileOK(new)
<1> DEFINE P == DOMAIN file.pages
           rows == file.over.rows
           chain == file.over.chain
           rows2 == new.over.rows
           chain2 == new.over.chain
           slot == SpillSlot(file.over)
<1>1. /\ file.pages \in Seq(PageSet) /\ file.pages # <<>> /\ new.pages = file.pages
      /\ \A q \in P : SlotsUp(file.pages[q])
      /\ \A q \in P : /\ chain[q] \in Seq(EntrySet) /\ ChainUp(chain[q])
                      /\ \A i \in DOMAIN chain[q] : chain[q][i][2] \in DOMAIN rows
  BY DEF FileOK, Spills, ChainOK
<1>2. /\ rows2 \in Seq(RowSet) /\ slot \in Nat /\ slot \in DOMAIN rows2
      /\ \A i \in DOMAIN rows : i \in DOMAIN rows2
  BY DEF Spills, StoredAt
<1>3. /\ chain2 \in [P -> Seq(EntrySet)] /\ DOMAIN chain2 = DOMAIN chain
      /\ \A q \in DOMAIN chain : q # p => chain2[q] = chain[q]
      /\ new.over = [rows |-> rows2, chain |-> chain2]
      /\ chain2[p] = chain[p] \/ \E at \in Nat : ChainGrows(chain[p], chain2[p], at, <<row.key, slot>>)
  BY DEF Spills
<1>4. new.over \in OverSet(P)
  BY <1>2, <1>3 DEF OverSet
<1>5. DOMAIN chain2 = P
  BY <1>3
<1> HIDE DEF P, rows, chain, rows2, chain2, slot
<1>6. ASSUME NEW q \in P PROVE ChainUp(chain2[q]) /\ \A i \in DOMAIN chain2[q] : chain2[q][i][2] \in DOMAIN rows2
  <2>1. CASE chain2[q] = chain[q]
    BY <1>1, <1>2, <2>1
  <2>2. CASE q = p /\ \E at \in Nat : ChainGrows(chain[p], chain2[p], at, <<row.key, slot>>)
    <3>1. PICK at \in Nat : ChainGrows(chain[p], chain2[p], at, <<row.key, slot>>)
      BY <2>2
    <3>2. /\ ChainUp(chain2[p]) /\ chain2[p][at] = <<row.key, slot>>
          /\ \A i \in DOMAIN chain[p] : chain2[p][Moved(at, i)] = chain[p][i]
          /\ \A n \in DOMAIN chain2[p] : n = at \/ \E i \in DOMAIN chain[p] : n = Moved(at, i)
      BY <3>1 DEF ChainGrows, GrownAt
    <3>3. chain2[p][at][2] = slot
      BY <3>2
    <3> QED
      BY <1>1, <1>2, <2>2, <3>2, <3>3
  <2> QED
    BY <1>3, <1>5, <2>1, <2>2
<1>7. \A q \in P : chain2[q] \in Seq(EntrySet)
  BY <1>3
<1>8. \A q \in P : ChainOK(new.over, q)
  BY <1>2, <1>6, <1>7 DEF ChainOK, rows2, chain2
<1> QED
  BY <1>1, <1>4, <1>8 DEF FileOK, P

(* A chain that got an entry, seen from the entry.                          *)
EntryGrows(chain, new, at, k, slot) ==
  /\ at \in DOMAIN new /\ new[at][1] = k /\ new[at][2] = slot
  /\ \A i \in DOMAIN chain : Moved(at, i) \in DOMAIN new /\ new[Moved(at, i)] = chain[i]
  /\ \A n \in DOMAIN new : n = at \/ \E i \in DOMAIN chain : n = Moved(at, i) /\ new[n] = chain[i]

LEMMA SpillsRows ==
  ASSUME NEW file, FileOK(file), KeyedOnce(file), NEW p \in DOMAIN file.pages,
         NEW row \in RowSet, row # SF!NoRow, NewKey(file, row.key),
         NEW new, Spills(file, new, p, row)
  PROVE  RowsIn(new) = RowsIn(file) \union {row} /\ KeyedOnce(new) /\ new.raised = file.raised
<1> DEFINE P == DOMAIN file.pages
           rows == file.over.rows
           chain(q) == file.over.chain[q]
           rows2 == new.over.rows
           chain2(q) == new.over.chain[q]
           slot == SpillSlot(file.over)
           V(q) == ValidAt(file.pages[q])
           s(q) == file.pages[q].slots
           k == row.key
           none == SF!NoRow
<1>1. new.pages = file.pages /\ DOMAIN file.over.chain = P
  BY DEF Spills, FileOK, OverSet
<1>2. /\ \A q \in P : \A i \in V(q) : s(q)[i].row.key # k
      /\ \A q \in P : \A i \in DOMAIN chain(q) : chain(q)[i][1] # k
  <2>1. ASSUME NEW q \in P, NEW i \in V(q) PROVE s(q)[i].row.key # row.key
    <3>1. \E r \in RowsIn(file) : r = s(q)[i].row
      BY KeysOfRows
    <3> QED
      BY <3>1 DEF NewKey
  <2>2. ASSUME NEW q \in P, NEW i \in DOMAIN chain(q) PROVE chain(q)[i][1] # row.key
    <3>1. \E r \in RowsIn(file) : r.key = file.over.chain[q][i][1]
      BY KeysOfRows
    <3> QED
      BY <3>1 DEF NewKey
  <2> QED
    BY <2>1, <2>2
<1>3. ~ HasKey(file, p, k)
  BY <1>2 DEF HasKey
<1>4. /\ slot \in DOMAIN rows2 /\ rows2[slot] = row
      /\ \A i \in DOMAIN rows : i = slot \/ rows2[i] = rows[i]
      /\ slot \in DOMAIN rows => rows[slot] = none
  BY DEF Spills, StoredAt
<1>5. /\ \A q \in P : q # p => chain2(q) = chain(q)
      /\ \E at \in Nat : ChainGrows(chain(p), chain2(p), at, <<k, slot>>)
      /\ new.raised = file.raised
  BY <1>1, <1>3 DEF Spills
<1>6. PICK at \in Nat : EntryGrows(chain(p), chain2(p), at, k, slot)
  <2> DEFINE a == chain(p)
             b == chain2(p)
  <2>1. PICK at \in Nat : ChainGrows(a, b, at, <<k, slot>>)
    BY <1>5
  <2> HIDE DEF a, b, k, slot
  <2>2. b[at] = <<k, slot>>
    BY <2>1 DEF ChainGrows, GrownAt
  <2>3. EntryGrows(a, b, at, k, slot)
    BY <2>1, <2>2 DEF ChainGrows, GrownAt, EntryGrows
  <2> QED
    BY <2>3 DEF a, b
<1>7. /\ at \in DOMAIN chain2(p) /\ chain2(p)[at][1] = k /\ chain2(p)[at][2] = slot
      /\ \A i \in DOMAIN chain(p) : Moved(at, i) \in DOMAIN chain2(p) /\ chain2(p)[Moved(at, i)] = chain(p)[i]
      /\ \A n \in DOMAIN chain2(p) : n = at \/ \E i \in DOMAIN chain(p) : n = Moved(at, i) /\ chain2(p)[n] = chain(p)[i]
  BY <1>6, Zenon DEF EntryGrows
<1>8. /\ \A a, q \in P : \A i \in V(a), j \in V(q) : s(a)[i].row.key = s(q)[j].row.key => a = q /\ i = j
      /\ \A a, q \in P : \A i \in V(a), j \in DOMAIN chain(q) : s(a)[i].row.key # chain(q)[j][1]
      /\ \A a, q \in P : \A i \in DOMAIN chain(a), j \in DOMAIN chain(q) :
           chain(a)[i][1] = chain(q)[j][1] => a = q /\ i = j
      /\ \A a \in P : \A i \in DOMAIN chain(a) :
           rows[chain(a)[i][2]] # none /\ rows[chain(a)[i][2]].key = chain(a)[i][1]
  BY DEF KeyedOnce
<1>9. KeyedOnce(new) <=>
        /\ \A a, q \in P : \A i \in V(a), j \in V(q) : s(a)[i].row.key = s(q)[j].row.key => a = q /\ i = j
        /\ \A a, q \in P : \A i \in V(a), j \in DOMAIN chain2(q) : s(a)[i].row.key # chain2(q)[j][1]
        /\ \A a, q \in P : \A i \in DOMAIN chain2(a), j \in DOMAIN chain2(q) :
             chain2(a)[i][1] = chain2(q)[j][1] => a = q /\ i = j
        /\ \A a \in P : \A i \in DOMAIN chain2(a) :
             rows2[chain2(a)[i][2]] # none /\ rows2[chain2(a)[i][2]].key = chain2(a)[i][1]
  BY <1>1 DEF KeyedOnce
<1>10. \A q \in P : \A i \in DOMAIN chain(q) : chain(q)[i][2] \in DOMAIN rows
  BY DEF FileOK, ChainOK
<1>11. /\ \A r : r \in RowsIn(file) <=>
                   \E q \in P : \/ \E i \in V(q) : r = s(q)[i].row
                                \/ \E i \in DOMAIN chain(q) : rows[chain(q)[i][2]] # none /\ r = rows[chain(q)[i][2]]
       /\ \A r : r \in RowsIn(new) <=>
                   \E q \in P : \/ \E i \in V(q) : r = s(q)[i].row
                                \/ \E i \in DOMAIN chain2(q) : rows2[chain2(q)[i][2]] # none /\ r = rows2[chain2(q)[i][2]]
  BY SMTT(30), <1>1 DEF RowsIn, RowsOf, SlotRows, ChainRows, HeldAt
<1>12. p \in P /\ row # none /\ row.key = k
  OBVIOUS
<1> HIDE DEF P, rows, chain, rows2, chain2, slot, V, s, k, none
<1>13. \A q \in P : \A i \in DOMAIN chain(q) : rows2[chain(q)[i][2]] = rows[chain(q)[i][2]]
  <2> SUFFICES ASSUME NEW q \in P, NEW i \in DOMAIN chain(q) PROVE rows2[chain(q)[i][2]] = rows[chain(q)[i][2]]
    OBVIOUS
  <2> DEFINE e == chain(q)[i][2]
  <2>1. e \in DOMAIN rows /\ rows[e] # none
    BY <1>8, <1>10
  <2> HIDE DEF e
  <2>2. e # slot
    BY <1>4, <2>1
  <2> QED
    BY <1>4, <2>1, <2>2 DEF e
<1>14. \A q \in P : \A n \in DOMAIN chain2(q) :
         \/ q = p /\ n = at /\ chain2(q)[n][1] = k /\ rows2[chain2(q)[n][2]] = row
         \/ \E i \in DOMAIN chain(q) :
              /\ n = (IF q = p THEN Moved(at, i) ELSE i) /\ chain2(q)[n] = chain(q)[i]
              /\ rows2[chain2(q)[n][2]] = rows[chain(q)[i][2]]
  <2> SUFFICES ASSUME NEW q \in P, NEW n \in DOMAIN chain2(q)
      PROVE  \/ q = p /\ n = at /\ chain2(q)[n][1] = k /\ rows2[chain2(q)[n][2]] = row
             \/ \E i \in DOMAIN chain(q) :
                  /\ n = (IF q = p THEN Moved(at, i) ELSE i) /\ chain2(q)[n] = chain(q)[i]
                  /\ rows2[chain2(q)[n][2]] = rows[chain(q)[i][2]]
    OBVIOUS
  <2>1. CASE q = p /\ n = at
    BY <1>4, <1>7, <2>1
  <2>2. CASE q = p /\ n # at
    <3>1. PICK i \in DOMAIN chain(p) : n = Moved(at, i) /\ chain2(p)[n] = chain(p)[i]
      BY <1>7, <2>2
    <3> QED
      BY <1>13, <2>2, <3>1
  <2>3. CASE q # p
    <3>1. chain2(q) = chain(q)
      BY <1>5, <2>3
    <3> QED
      BY <1>13, <2>3, <3>1
  <2> QED
    BY <2>1, <2>2, <2>3
<1>15. KeyedOnce(new)
  <2>1. ASSUME NEW a \in P, NEW q \in P, NEW i \in V(a), NEW j \in DOMAIN chain2(q)
        PROVE  s(a)[i].row.key # chain2(q)[j][1]
    BY <1>2, <1>8, <1>14
  <2>2. ASSUME NEW a \in P, NEW q \in P, NEW i \in DOMAIN chain2(a), NEW j \in DOMAIN chain2(q),
               chain2(a)[i][1] = chain2(q)[j][1]
        PROVE  a = q /\ i = j
    BY <1>2, <1>8, <1>14, <2>2
  <2>3. ASSUME NEW a \in P, NEW i \in DOMAIN chain2(a)
        PROVE  rows2[chain2(a)[i][2]] # none /\ rows2[chain2(a)[i][2]].key = chain2(a)[i][1]
    BY <1>8, <1>12, <1>14
  <2> QED
    BY <1>8, <1>9, <2>1, <2>2, <2>3
<1>16. RowsIn(new) = RowsIn(file) \union {row}
  <2>1. ASSUME NEW r, r \in RowsIn(new) PROVE r \in RowsIn(file) \/ r = row
    <3>1. PICK q \in P : \/ \E i \in V(q) : r = s(q)[i].row
                         \/ \E i \in DOMAIN chain2(q) : r = rows2[chain2(q)[i][2]]
      BY <1>11, <2>1
    <3> QED
      BY <1>8, <1>11, <1>14, <3>1
  <2>2. ASSUME NEW r, r \in RowsIn(file) PROVE r \in RowsIn(new)
    <3>1. PICK q \in P : \/ \E i \in V(q) : r = s(q)[i].row
                         \/ \E i \in DOMAIN chain(q) : rows[chain(q)[i][2]] # none /\ r = rows[chain(q)[i][2]]
      BY <1>11, <2>2
    <3>2. CASE \E i \in DOMAIN chain(q) : rows[chain(q)[i][2]] # none /\ r = rows[chain(q)[i][2]]
      <4>1. PICK i \in DOMAIN chain(q) : rows[chain(q)[i][2]] # none /\ r = rows[chain(q)[i][2]]
        BY <3>2
      <4>2. \E n \in DOMAIN chain2(q) : chain2(q)[n] = chain(q)[i]
        BY <1>5, <1>7
      <4> QED
        BY <1>11, <1>13, <4>1, <4>2
    <3> QED
      BY <1>11, <3>1, <3>2
  <2>3. row \in RowsIn(new)
    BY <1>4, <1>7, <1>11, <1>12
  <2> QED
    BY <2>1, <2>2, <2>3
<1> QED
  BY <1>5, <1>15, <1>16

(* The three ends of an insert.                                             *)
Inserts(file, new, row) ==
  LET p == SF!TargetPage(file, row.key)
  IN /\ p \in DOMAIN file.pages /\ IsFile(new)
     /\ \/ /\ row.len + MainSlot > MainRoom
           /\ new.pages = file.pages /\ new.over = file.over /\ new.raised = "too large"
        \/ /\ row.len + MainSlot <= MainRoom /\ ~ NoRoom(file.pages[p], row)
           /\ PutInPage(file, new, p, row) /\ new.raised = file.raised
        \/ /\ row.len + MainSlot <= MainRoom /\ Spills(file, new, p, row)

LEMMA WithInsertedIs ==
  ASSUME NEW file, FileOK(file), IsFile(file), NEW row \in RowSet
  PROVE  Inserts(file, SF!WithInserted(file, row), row)
<1> DEFINE p == SF!TargetPage(file, row.key)
           page == SF!WithRow(file.pages[p], row)
           new == SF!WithInserted(file, row)
           ps == file.pages
           ov == file.over
           x == file.raised
<1>1. p \in DOMAIN ps
  BY TargetIs
<1>2. row.len \in Nat /\ MainSlot \in Nat /\ MainRoom \in Nat
  BY RowsAssumption DEF RowSet
<1>3. page # ps[p] <=> ~ NoRoom(ps[p], row)
  <2> DEFINE old == ps[p]
  <2>1. old \in PageSet /\ SlotsUp(old)
    BY <1>1 DEF FileOK
  <2> HIDE DEF old
  <2>2. NoRoom(old, row) => SF!WithRow(old, row) = old
    BY <2>1, WithRowIs
  <2>3. ~ NoRoom(old, row) => SF!WithRow(old, row) # old
    BY <2>1, WithRowIs
  <2> QED
    BY <2>2, <2>3 DEF old
<1>4. new = IF row.len + MainSlot > MainRoom THEN [file EXCEPT !.raised = "too large"]
            ELSE IF page # ps[p] THEN [file EXCEPT !.pages[p] = page]
            ELSE SF!WithSpilled(file, p, row)
  BY Zenon DEF SF!WithInserted
<1>5. Spills(file, SF!WithSpilled(file, p, row), p, row)
  BY <1>1, WithSpilledIs
<1>6. file = [pages |-> ps, over |-> ov, raised |-> x]
  BY DEF IsFile
<1> HIDE DEF p, page, new, ps, ov, x
<1>7. CASE row.len + MainSlot > MainRoom
  <2>1. new = [pages |-> ps, over |-> ov, raised |-> "too large"]
    BY <1>4, <1>6, <1>7
  <2>2. new.pages = ps /\ new.over = ov /\ new.raised = "too large" /\ IsFile(new)
    BY <2>1 DEF IsFile
  <2> QED
    BY <1>1, <1>7, <2>2 DEF Inserts, p, ps, ov, new
<1>8. CASE ~ (row.len + MainSlot > MainRoom) /\ page # ps[p]
  <2>1. new = [pages |-> [ps EXCEPT ![p] = page], over |-> ov, raised |-> x]
    BY <1>4, <1>6, <1>8
  <2>2. new.pages = [ps EXCEPT ![p] = page] /\ new.over = ov /\ new.raised = x /\ IsFile(new)
    BY <2>1 DEF IsFile
  <2>3. ~ NoRoom(ps[p], row) /\ row.len + MainSlot <= MainRoom
    BY <1>2, <1>3, <1>8
  <2> QED
    BY <1>1, <2>2, <2>3 DEF Inserts, PutInPage, p, ps, ov, x, page, new
<1>9. CASE ~ (row.len + MainSlot > MainRoom) /\ page = ps[p]
  <2>1. new = SF!WithSpilled(file, p, row)
    BY <1>4, <1>9
  <2>2. Spills(file, new, p, row) /\ row.len + MainSlot <= MainRoom
    BY <1>2, <1>5, <1>9, <2>1
  <2>3. IsFile(new)
    BY <2>2 DEF Spills
  <2> QED
    BY <1>1, <2>2, <2>3 DEF Inserts, p, ps, new
<1> QED
  BY <1>7, <1>8, <1>9

LEMMA SamePages ==
  ASSUME NEW file, NEW new, new.pages = file.pages, new.over = file.over
  PROVE  /\ FileOK(file) => FileOK(new)
         /\ KeyedOnce(file) => KeyedOnce(new)
         /\ RowsIn(new) = RowsIn(file)
<1>1. FileOK(file) => FileOK(new)
  BY DEF FileOK
<1>2. KeyedOnce(file) => KeyedOnce(new)
  BY SMTT(30) DEF KeyedOnce
<1>3. RowsIn(new) = RowsIn(file)
  BY DEF RowsIn, RowsOf, SlotRows, ChainRows
<1> QED
  BY <1>1, <1>2, <1>3

LEMMA InsertedOK ==
  ASSUME NEW file, FileOK(file), IsFile(file), NEW row \in RowSet
  PROVE  FileOK(SF!WithInserted(file, row)) /\ IsFile(SF!WithInserted(file, row))
<1> DEFINE new == SF!WithInserted(file, row)
           p == SF!TargetPage(file, row.key)
<1>1. Inserts(file, new, row)
  BY WithInsertedIs
<1> HIDE DEF new
<1>2. /\ p \in DOMAIN file.pages /\ IsFile(new)
      /\ \/ new.pages = file.pages /\ new.over = file.over
         \/ ~ NoRoom(file.pages[p], row) /\ PutInPage(file, new, p, row)
         \/ Spills(file, new, p, row)
  BY <1>1 DEF Inserts
<1> HIDE DEF p
<1>3. FileOK(new)
  <2>1. CASE new.pages = file.pages /\ new.over = file.over
    BY <2>1, SamePages
  <2>2. CASE ~ NoRoom(file.pages[p], row) /\ PutInPage(file, new, p, row)
    BY <1>2, <2>2, PageGrown
  <2>3. CASE Spills(file, new, p, row)
    BY <1>2, <2>3, SpillsKeepOK
  <2> QED
    BY <1>2, <2>1, <2>2, <2>3
<1> QED
  BY <1>2, <1>3 DEF new

(* A file whose keys are all different, with rows that fit in a page.       *)
FitsMain(row) == row.len # 0 /\ row.len + MainSlot <= MainRoom
Sound(file) == FileOK(file) /\ KeyedOnce(file) /\ \A r \in RowsIn(file) : FitsMain(r)

LEMMA InsertedRows ==
  ASSUME NEW file, Sound(file), IsFile(file), file.raised = "nothing",
         NEW row \in RowSet, row.len # 0, NewKey(file, row.key),
         NEW new, new = SF!WithInserted(file, row)
  PROVE  /\ Sound(new) /\ IsFile(new)
         /\ \/ RowsIn(new) = RowsIn(file) /\ new.raised = "too large"
            \/ RowsIn(new) = RowsIn(file) \union {row} /\ new.raised = "nothing"
<1> DEFINE p == SF!TargetPage(file, row.key)
<1>1. Inserts(file, new, row) /\ FileOK(new) /\ IsFile(new)
  BY WithInsertedIs, InsertedOK DEF Sound
<1>2. /\ p \in DOMAIN file.pages
      /\ \/ new.pages = file.pages /\ new.over = file.over /\ new.raised = "too large"
         \/ FitsMain(row) /\ ~ NoRoom(file.pages[p], row) /\ PutInPage(file, new, p, row) /\ new.raised = file.raised
         \/ FitsMain(row) /\ Spills(file, new, p, row)
  BY <1>1 DEF Inserts, FitsMain
<1>3. row # SF!NoRow
  BY DEF SF!NoRow, SF!Row
<1> HIDE DEF p
<1>4. CASE new.pages = file.pages /\ new.over = file.over /\ new.raised = "too large"
  BY <1>1, <1>4, SamePages DEF Sound
<1>5. CASE FitsMain(row) /\ ~ NoRoom(file.pages[p], row) /\ PutInPage(file, new, p, row) /\ new.raised = file.raised
  <2>1. RowsIn(new) = RowsIn(file) \union {row} /\ KeyedOnce(new)
    BY <1>2, <1>5, PageGrownRows DEF Sound
  <2> QED
    BY <1>1, <1>5, <2>1 DEF Sound
<1>6. CASE FitsMain(row) /\ Spills(file, new, p, row)
  <2>1. RowsIn(new) = RowsIn(file) \union {row} /\ KeyedOnce(new) /\ new.raised = file.raised
    BY <1>2, <1>3, <1>6, SpillsRows DEF Sound
  <2> QED
    BY <1>1, <1>6, <2>1 DEF Sound
<1> QED
  BY <1>2, <1>4, <1>5, <1>6

(* All of a sequence.                                                       *)
LEMMA KeptAll ==
  ASSUME NEW X, NEW s \in Seq(X)
  PROVE  SF!Kept(s, DOMAIN s) = s
<1> DEFINE N == Len(s)
           D == DOMAIN s
<1>1. N \in Nat /\ D = 1 .. N /\ s = [n \in 1 .. N |-> s[n]]
  OBVIOUS
<1>2. Cardinality(D) = N
  <2>1. Cardinality(1 .. 1 + N - 1) = N
    BY <1>1, IntervalSize
  <2>2. 1 + N - 1 = N
    BY <1>1
  <2> QED
    BY <1>1, <2>1, <2>2
<1>3. \A i \in D : Cardinality({j \in D : j <= i}) = i
  <2> SUFFICES ASSUME NEW i \in D PROVE Cardinality({j \in D : j <= i}) = i
    OBVIOUS
  <2>1. i \in Nat /\ 1 + i - 1 = i
    BY <1>1
  <2>2. {j \in D : j <= i} = 1 .. i
    BY <1>1
  <2>3. Cardinality(1 .. 1 + i - 1) = i
    BY <2>1, IntervalSize
  <2> QED
    BY <2>1, <2>2, <2>3
<1> HIDE DEF D
<1>4. \A n \in D : SF!Nth(D, n) = n
  <2> SUFFICES ASSUME NEW n \in D PROVE SF!Nth(D, n) = n
    OBVIOUS
  <2>1. SF!Nth(D, n) = CHOOSE i \in D : Cardinality({j \in D : j <= i}) = n
    BY NthForm
  <2>2. Cardinality({j \in D : j <= n}) = n
    BY <1>3
  <2>3. SF!Nth(D, n) \in D /\ Cardinality({j \in D : j <= SF!Nth(D, n)}) = n
    BY <2>1, <2>2
  <2> QED
    BY <1>3, <2>3
<1>5. SF!Kept(s, D) = [n \in 1 .. N |-> s[SF!Nth(D, n)]]
  BY <1>2, KeptForm
<1> HIDE DEF N
<1>6. [n \in 1 .. N |-> s[SF!Nth(D, n)]] = [n \in 1 .. N |-> s[n]]
  BY <1>1, <1>4, Zenon
<1> QED
  BY <1>1, <1>5, <1>6 DEF D

(* What a delete by key leaves of a file.                                   *)
Goes(slot, k) == slot.valid /\ slot.row.key = k
Emptied(slot) == [slot EXCEPT !.valid = FALSE]
SlotsLeft(slots, k) == [i \in DOMAIN slots |-> IF Goes(slots[i], k) THEN Emptied(slots[i]) ELSE slots[i]]
Mine(chain, k) == {c[2] : c \in {d \in SF!ToSet(chain) : d[1] = k}}
RowsLeft(rows, mine) == [i \in DOMAIN rows |-> IF i \in mine THEN SF!NoRow ELSE rows[i]]
Others(chain, k) == {i \in DOMAIN chain : chain[i][1] # k}
Left(file, p, k) ==
  [pages |-> [file.pages EXCEPT ![p].slots = SlotsLeft(file.pages[p].slots, k)],
   over |-> [rows |-> RowsLeft(file.over.rows, Mine(file.over.chain[p], k)),
             chain |-> [file.over.chain EXCEPT ![p] = SF!Kept(file.over.chain[p], Others(file.over.chain[p], k))]],
   raised |-> file.raised]

LEMMA SlotsLeftAre ==
  ASSUME NEW slots \in Seq(SFSlotSet), NEW k
  PROVE  /\ SlotsLeft(slots, k) \in Seq(SFSlotSet) /\ DOMAIN SlotsLeft(slots, k) = DOMAIN slots
         /\ \A i \in DOMAIN slots : /\ SlotsLeft(slots, k)[i].row = slots[i].row
                                    /\ SlotsLeft(slots, k)[i].valid <=> slots[i].valid /\ slots[i].row.key # k
         /\ (\A i \in DOMAIN slots : ~ Goes(slots[i], k)) => SlotsLeft(slots, k) = slots
<1> DEFINE t == SlotsLeft(slots, k)
           N == Len(slots)
<1>1. N \in Nat /\ DOMAIN slots = 1 .. N /\ slots = [i \in 1 .. N |-> slots[i]]
  OBVIOUS
<1>2. \A s \in SFSlotSet : Emptied(s) \in SFSlotSet /\ Emptied(s).row = s.row /\ ~ Emptied(s).valid
  BY DEF SFSlotSet, Emptied
<1>3. \A i \in 1 .. N : slots[i] \in SFSlotSet /\ slots[i].valid \in BOOLEAN
  <2>1. \A i \in 1 .. N : slots[i] \in SFSlotSet
    BY <1>1
  <2> QED
    BY <2>1 DEF SFSlotSet
<1> HIDE DEF N
<1>4. /\ DOMAIN t = 1 .. N
      /\ \A i \in 1 .. N : t[i] = IF Goes(slots[i], k) THEN Emptied(slots[i]) ELSE slots[i]
  BY <1>1 DEF SlotsLeft
<1>5. t = [i \in 1 .. N |-> t[i]]
  BY <1>1 DEF SlotsLeft
<1> HIDE DEF t
<1>6. \A i \in 1 .. N : t[i] \in SFSlotSet /\ t[i].row = slots[i].row
                          /\ (t[i].valid <=> slots[i].valid /\ slots[i].row.key # k)
  BY <1>2, <1>3, <1>4 DEF Goes
<1>7. t \in Seq(SFSlotSet)
  BY <1>1, <1>5, <1>6
<1>8. (\A i \in 1 .. N : ~ Goes(slots[i], k)) => t = slots
  <2> SUFFICES ASSUME \A i \in 1 .. N : ~ Goes(slots[i], k) PROVE t = slots
    OBVIOUS
  <2>1. \A i \in 1 .. N : t[i] = slots[i]
    BY <1>4
  <2>2. [i \in 1 .. N |-> t[i]] = [i \in 1 .. N |-> slots[i]]
    BY <2>1, Zenon
  <2> QED
    BY <1>1, <1>5, <2>2
<1> QED
  BY <1>1, <1>4, <1>6, <1>7, <1>8 DEF t

LEMMA RowsLeftAre ==
  ASSUME NEW rows \in Seq(RowSet), NEW mine
  PROVE  /\ RowsLeft(rows, mine) \in Seq(RowSet) /\ DOMAIN RowsLeft(rows, mine) = DOMAIN rows
         /\ \A i \in DOMAIN rows : RowsLeft(rows, mine)[i] = IF i \in mine THEN SF!NoRow ELSE rows[i]
         /\ mine = {} => RowsLeft(rows, mine) = rows
<1> DEFINE t == RowsLeft(rows, mine)
           N == Len(rows)
<1>1. N \in Nat /\ DOMAIN rows = 1 .. N /\ rows = [i \in 1 .. N |-> rows[i]] /\ \A i \in 1 .. N : rows[i] \in RowSet
  OBVIOUS
<1>2. SF!NoRow \in RowSet
  BY DEF SF!NoRow, SF!Row, RowSet
<1> HIDE DEF N
<1>3. t = [i \in 1 .. N |-> IF i \in mine THEN SF!NoRow ELSE rows[i]]
  BY <1>1, Zenon DEF RowsLeft
<1> HIDE DEF t
<1>4. DOMAIN t = 1 .. N /\ \A i \in 1 .. N : t[i] = IF i \in mine THEN SF!NoRow ELSE rows[i]
  BY <1>3, Zenon
<1>5. t \in Seq(RowSet)
  <2>1. \A i \in 1 .. N : (IF i \in mine THEN SF!NoRow ELSE rows[i]) \in RowSet
    BY <1>1, <1>2
  <2> QED
    BY <1>1, <1>3, <2>1
<1>6. mine = {} => t = rows
  <2> SUFFICES ASSUME mine = {} PROVE t = rows
    OBVIOUS
  <2>1. t = [i \in 1 .. N |-> rows[i]]
    BY <1>3, Zenon
  <2> QED
    BY <1>1, <2>1
<1> QED
  BY <1>1, <1>4, <1>5, <1>6 DEF t

(* The parts of what is left.                                               *)
Leaves(file, new, p, k) ==
  /\ new.pages \in Seq(PageSet) /\ DOMAIN new.pages = DOMAIN file.pages /\ Len(new.pages) = Len(file.pages)
  /\ \A q \in DOMAIN file.pages : q # p => new.pages[q] = file.pages[q]
  /\ new.pages[p].slots = SlotsLeft(file.pages[p].slots, k)
  /\ new.over = [rows |-> new.over.rows, chain |-> new.over.chain]
  /\ new.over.rows = RowsLeft(file.over.rows, Mine(file.over.chain[p], k))
  /\ new.over.chain \in [DOMAIN file.pages -> Seq(EntrySet)]
  /\ \A q \in DOMAIN file.pages : q # p => new.over.chain[q] = file.over.chain[q]
  /\ new.over.chain[p] = SF!Kept(file.over.chain[p], Others(file.over.chain[p], k))
  /\ IsFile(new) /\ new.raised = file.raised

LEMMA LeftIs ==
  ASSUME NEW file, FileOK(file), NEW p \in DOMAIN file.pages, NEW k
  PROVE  Leaves(file, Left(file, p, k), p, k)
<1> DEFINE new == Left(file, p, k)
           ps == file.pages
           page == [ps[p] EXCEPT !.slots = SlotsLeft(ps[p].slots, k)]
           chain == file.over.chain
           kept == SF!Kept(chain[p], Others(chain[p], k))
           rows2 == RowsLeft(file.over.rows, Mine(chain[p], k))
           chain2 == [chain EXCEPT ![p] = kept]
<1>1. ps \in Seq(PageSet) /\ ps[p] \in PageSet /\ chain \in [DOMAIN ps -> Seq(EntrySet)] /\ chain[p] \in Seq(EntrySet)
  BY DEF FileOK, OverSet, ChainOK
<1>2. page \in PageSet /\ page.slots = SlotsLeft(ps[p].slots, k)
  <2> DEFINE old == ps[p]
             t == SlotsLeft(old.slots, k)
  <2>1. old \in PageSet
    BY <1>1
  <2> HIDE DEF old
  <2>2. old.slots \in Seq(SFSlotSet)
    BY <2>1 DEF PageSet
  <2>3. t \in Seq(SFSlotSet)
    BY <2>2, SlotsLeftAre
  <2> HIDE DEF t
  <2>4. [old EXCEPT !.slots = t] \in PageSet /\ [old EXCEPT !.slots = t].slots = t
    BY <2>1, <2>3 DEF PageSet
  <2> QED
    BY <2>4 DEF old, t
<1>3. kept \in Seq(EntrySet)
  <2>1. Others(chain[p], k) \in SUBSET (DOMAIN chain[p])
    BY DEF Others
  <2> HIDE DEF chain
  <2> QED
    BY <1>1, <2>1, KeptIs
<1>4. new = [pages |-> [ps EXCEPT ![p] = page], over |-> [rows |-> rows2, chain |-> chain2], raised |-> file.raised]
  BY Zenon DEF Left
<1> HIDE DEF new, page, kept, rows2, ps, chain
<1>5. /\ [ps EXCEPT ![p] = page] \in Seq(PageSet) /\ DOMAIN [ps EXCEPT ![p] = page] = DOMAIN ps
      /\ Len([ps EXCEPT ![p] = page]) = Len(ps)
      /\ [ps EXCEPT ![p] = page][p] = page /\ \A q \in DOMAIN ps \ {p} : [ps EXCEPT ![p] = page][q] = ps[q]
  <2>1. p \in DOMAIN ps
    BY DEF ps
  <2> QED
    BY <1>1, <1>2, <2>1, ReplacedInSeq
<1>6. chain2 \in [DOMAIN ps -> Seq(EntrySet)] /\ chain2[p] = kept /\ \A q \in DOMAIN ps : q # p => chain2[q] = chain[q]
  <2>1. p \in DOMAIN ps
    BY DEF ps
  <2> QED
    BY <1>1, <1>3, <2>1
<1> HIDE DEF chain2
<1>7. /\ new.pages = [ps EXCEPT ![p] = page] /\ new.over = [rows |-> rows2, chain |-> chain2]
      /\ new.raised = file.raised /\ IsFile(new)
  BY <1>4 DEF IsFile
<1>8. new.over.rows = rows2 /\ new.over.chain = chain2
  BY <1>7
<1> QED
  BY <1>2, <1>5, <1>6, <1>7, <1>8 DEF Leaves, new, ps, chain, rows2, kept

(* The parts of a file, one by one: what its slots and its entries hold.    *)
InSlots(file, p, r) == \E i \in ValidAt(file.pages[p]) : r = file.pages[p].slots[i].row
InChain(file, p, r) == \E i \in DOMAIN file.over.chain[p] : r = file.over.rows[file.over.chain[p][i][2]]

LEMMA RowsAre ==
  ASSUME NEW file, KeyedOnce(file), NEW p \in DOMAIN file.pages, NEW r
  PROVE  r \in RowsOf(file, p) <=> InSlots(file, p, r) \/ InChain(file, p, r)
<1>1. \A i \in DOMAIN file.over.chain[p] : i \in HeldAt(file.over, p)
  BY KeysOfRows
<1>2. \A i \in HeldAt(file.over, p) : i \in DOMAIN file.over.chain[p]
  BY DEF HeldAt
<1> QED
  BY <1>1, <1>2 DEF RowsOf, SlotRows, ChainRows, InSlots, InChain

(* One row for a key.                                                       *)
LEMMA OneRowForKey ==
  ASSUME NEW file, KeyedOnce(file), NEW r \in RowsIn(file), NEW t \in RowsIn(file), r.key = t.key
  PROVE  r = t
<1> DEFINE P == DOMAIN file.pages
           rows == file.over.rows
           chain(q) == file.over.chain[q]
           V(q) == ValidAt(file.pages[q])
           s(q) == file.pages[q].slots
<1>1. PICK p \in P, q \in P : r \in RowsOf(file, p) /\ t \in RowsOf(file, q)
  BY DEF RowsIn
<1>2. /\ InSlots(file, p, r) \/ InChain(file, p, r)
      /\ InSlots(file, q, t) \/ InChain(file, q, t)
  BY <1>1, RowsAre
<1>3. /\ (\E i \in V(p) : r = s(p)[i].row) \/ (\E i \in DOMAIN chain(p) : r = rows[chain(p)[i][2]])
      /\ (\E i \in V(q) : t = s(q)[i].row) \/ (\E i \in DOMAIN chain(q) : t = rows[chain(q)[i][2]])
  BY <1>2 DEF InSlots, InChain
<1>4. /\ \A a, b \in P : \A i \in V(a), j \in V(b) : s(a)[i].row.key = s(b)[j].row.key => a = b /\ i = j
      /\ \A a, b \in P : \A i \in V(a), j \in DOMAIN chain(b) : s(a)[i].row.key # chain(b)[j][1]
      /\ \A a, b \in P : \A i \in DOMAIN chain(a), j \in DOMAIN chain(b) :
           chain(a)[i][1] = chain(b)[j][1] => a = b /\ i = j
      /\ \A a \in P : \A i \in DOMAIN chain(a) : rows[chain(a)[i][2]].key = chain(a)[i][1]
  BY DEF KeyedOnce
<1> HIDE DEF P, rows, chain, V, s
<1>5. CASE \E i \in V(p) : r = s(p)[i].row
  <2>1. PICK i \in V(p) : r = s(p)[i].row
    BY <1>5
  <2>2. \A j \in DOMAIN chain(q) : t # rows[chain(q)[j][2]]
    BY <1>4, <2>1
  <2> QED
    BY <1>3, <1>4, <2>1, <2>2
<1>6. CASE \E i \in DOMAIN chain(p) : r = rows[chain(p)[i][2]]
  <2>1. PICK i \in DOMAIN chain(p) : r = rows[chain(p)[i][2]]
    BY <1>6
  <2>2. \A j \in V(q) : t # s(q)[j].row
    BY <1>4, <2>1
  <2> QED
    BY <1>3, <1>4, <2>1, <2>2
<1> QED
  BY <1>3, <1>5, <1>6

(* A chain without the entries of a key.                                    *)
ChainLeft(chain, new, k) ==
  /\ ChainUp(new)
  /\ \A n \in DOMAIN new : \E i \in DOMAIN chain : i = SF!Nth(Others(chain, k), n) /\ new[n] = chain[i] /\ chain[i][1] # k
  /\ \A i \in DOMAIN chain : chain[i][1] # k => \E n \in DOMAIN new : new[n] = chain[i]
  /\ \A m, n \in DOMAIN new : SF!Nth(Others(chain, k), m) = SF!Nth(Others(chain, k), n) => m = n

LEMMA ChainLeftIs ==
  ASSUME NEW chain \in Seq(EntrySet), ChainUp(chain), NEW k
  PROVE  ChainLeft(chain, SF!Kept(chain, Others(chain, k)), k)
<1> DEFINE S == Others(chain, k)
           new == SF!Kept(chain, S)
           at(n) == SF!Nth(S, n)
<1>1. S \in SUBSET (DOMAIN chain) /\ \A i \in DOMAIN chain : i \in S <=> chain[i][1] # k
  BY DEF Others
<1>2. /\ InOrder(S) /\ DOMAIN new = 1 .. Cardinality(S) /\ \A n \in DOMAIN new : new[n] = chain[at(n)]
  <2> HIDE DEF S
  <2> QED
    BY <1>1, KeptIs
<1> HIDE DEF S, new
<1>3. /\ Cardinality(S) \in Nat
      /\ \A n \in DOMAIN new : n \in Nat /\ at(n) \in S
      /\ \A m, n \in DOMAIN new : m < n => at(m) < at(n)
      /\ \A i \in S : \E n \in DOMAIN new : at(n) = i
  BY <1>2 DEF InOrder
<1>4. \A n \in DOMAIN new : at(n) \in DOMAIN chain /\ at(n) \in Nat
  BY <1>1, <1>3
<1> HIDE DEF at
<1>5. ChainUp(new)
  BY <1>2, <1>3, <1>4 DEF ChainUp
<1>6. \A m, n \in DOMAIN new : at(m) = at(n) => m = n
  <2> SUFFICES ASSUME NEW m \in DOMAIN new, NEW n \in DOMAIN new, m # n PROVE at(m) # at(n)
    BY Zenon
  <2>1. m < n \/ n < m
    BY <1>3
  <2>2. at(m) < at(n) \/ at(n) < at(m)
    BY <1>3, <2>1
  <2> QED
    BY <1>4, <2>2
<1>7. \A i \in DOMAIN chain : chain[i][1] # k => \E n \in DOMAIN new : new[n] = chain[i]
  BY <1>1, <1>2, <1>3
<1>8. \A n \in DOMAIN new : \E i \in DOMAIN chain : i = at(n) /\ new[n] = chain[i] /\ chain[i][1] # k
  BY <1>1, <1>2, <1>3
<1> QED
  BY <1>5, <1>6, <1>7, <1>8 DEF ChainLeft, at, new, S

LEMMA LeftOK ==
  ASSUME NEW file, FileOK(file), NEW p \in DOMAIN file.pages, NEW k, NEW new, Leaves(file, new, p, k)
  PROVE  FileOK(new)
<1> DEFINE P == DOMAIN file.pages
           chain == file.over.chain
           rows == file.over.rows
           chain2 == new.over.chain
           rows2 == new.over.rows
<1>1. /\ file.pages \in Seq(PageSet) /\ file.pages # <<>> /\ rows \in Seq(RowSet)
      /\ \A q \in P : SlotsUp(file.pages[q]) /\ file.pages[q] \in PageSet
      /\ \A q \in P : /\ chain[q] \in Seq(EntrySet) /\ ChainUp(chain[q])
                      /\ \A i \in DOMAIN chain[q] : chain[q][i][2] \in DOMAIN rows
  BY DEF FileOK, ChainOK
<1>2. /\ new.pages \in Seq(PageSet) /\ DOMAIN new.pages = P /\ Len(new.pages) = Len(file.pages)
      /\ \A q \in P : q # p => new.pages[q] = file.pages[q]
      /\ new.pages[p].slots = SlotsLeft(file.pages[p].slots, k)
      /\ new.over = [rows |-> rows2, chain |-> chain2]
      /\ rows2 = RowsLeft(rows, Mine(chain[p], k))
      /\ chain2 \in [P -> Seq(EntrySet)]
      /\ \A q \in P : q # p => chain2[q] = chain[q]
      /\ chain2[p] = SF!Kept(chain[p], Others(chain[p], k))
  BY DEF Leaves
<1>3. rows2 \in Seq(RowSet) /\ DOMAIN rows2 = DOMAIN rows
  <2> HIDE DEF rows, rows2, chain
  <2> QED
    BY <1>1, <1>2, RowsLeftAre
<1>4. new.pages # <<>>
  <2>1. Len(file.pages) # 0 /\ Len(<<>>) = 0
    BY <1>1
  <2> QED
    BY <1>2, <2>1
<1>5. SlotsUp(new.pages[p])
  <2> DEFINE s == file.pages[p].slots
             t == new.pages[p].slots
  <2>1. s \in Seq(SFSlotSet)
    BY <1>1, PageTypes
  <2>2. t = SlotsLeft(s, k)
    BY <1>2
  <2>3. \A i, j \in DOMAIN s : s[i].valid /\ s[j].valid /\ i < j => s[i].row.key <= s[j].row.key
    BY <1>1 DEF SlotsUp, ValidAt
  <2> HIDE DEF s, t
  <2>4. DOMAIN t = DOMAIN s /\ \A i \in DOMAIN s : t[i].row = s[i].row /\ (t[i].valid => s[i].valid)
    BY <2>1, <2>2, SlotsLeftAre
  <2>5. \A i, j \in DOMAIN t : t[i].valid /\ t[j].valid /\ i < j => t[i].row.key <= t[j].row.key
    BY <2>3, <2>4
  <2> QED
    BY <2>5 DEF SlotsUp, ValidAt, t
<1>6. ChainUp(chain2[p]) /\ \A i \in DOMAIN chain2[p] : chain2[p][i][2] \in DOMAIN rows2
  <2> DEFINE a == chain[p]
             b == chain2[p]
  <2>1. a \in Seq(EntrySet) /\ ChainUp(a) /\ b = SF!Kept(a, Others(a, k)) /\ \A i \in DOMAIN a : a[i][2] \in DOMAIN rows
    BY <1>1, <1>2
  <2> HIDE DEF a, b, rows, rows2
  <2>2. ChainLeft(a, b, k)
    BY <2>1, ChainLeftIs
  <2>3. ChainUp(b) /\ \A n \in DOMAIN b : \E i \in DOMAIN a : b[n] = a[i]
    BY <2>2 DEF ChainLeft
  <2>4. \A n \in DOMAIN b : b[n][2] \in DOMAIN rows2
    BY <1>3, <2>1, <2>3
  <2> QED
    BY <2>3, <2>4 DEF a, b
<1> HIDE DEF P, rows, chain, rows2, chain2
<1>7. \A q \in P : SlotsUp(new.pages[q])
  BY <1>1, <1>2, <1>5
<1>8. \A q \in P : chain2[q] \in Seq(EntrySet) /\ ChainUp(chain2[q]) /\ \A i \in DOMAIN chain2[q] : chain2[q][i][2] \in DOMAIN rows2
  BY <1>1, <1>2, <1>3, <1>6
<1>9. \A q \in P : ChainOK(new.over, q)
  BY <1>3, <1>8 DEF ChainOK, rows2, chain2
<1>10. new.over \in OverSet(P)
  BY <1>2, <1>3 DEF OverSet
<1> QED
  BY <1>2, <1>4, <1>7, <1>9, <1>10 DEF FileOK

GoneRows(file, p, k) == {r \in RowsOf(file, p) : r.key = k}

LEMMA LeftRows ==
  ASSUME NEW file, FileOK(file), KeyedOnce(file), NEW p \in DOMAIN file.pages, NEW k,
         NEW new, Leaves(file, new, p, k)
  PROVE  KeyedOnce(new) /\ RowsIn(new) = RowsIn(file) \ GoneRows(file, p, k)
<1> DEFINE P == DOMAIN file.pages
           rows == file.over.rows
           chain(q) == file.over.chain[q]
           rows2 == new.over.rows
           chain2(q) == new.over.chain[q]
           V(q) == ValidAt(file.pages[q])
           W(q) == ValidAt(new.pages[q])
           s(q) == file.pages[q].slots
           t(q) == new.pages[q].slots
           none == SF!NoRow
           mine == Mine(chain(p), k)
           from(n) == SF!Nth(Others(chain(p), k), n)
<1>1. /\ \A a, q \in P : \A i \in V(a), j \in V(q) : s(a)[i].row.key = s(q)[j].row.key => a = q /\ i = j
      /\ \A a, q \in P : \A i \in V(a), j \in DOMAIN chain(q) : s(a)[i].row.key # chain(q)[j][1]
      /\ \A a, q \in P : \A i \in DOMAIN chain(a), j \in DOMAIN chain(q) :
           chain(a)[i][1] = chain(q)[j][1] => a = q /\ i = j
      /\ \A a \in P : \A i \in DOMAIN chain(a) :
           rows[chain(a)[i][2]] # none /\ rows[chain(a)[i][2]].key = chain(a)[i][1]
  BY DEF KeyedOnce
<1>2. /\ DOMAIN new.pages = P
      /\ \A q \in P : q # p => t(q) = s(q) /\ W(q) = V(q) /\ chain2(q) = chain(q)
      /\ t(p) = SlotsLeft(s(p), k)
      /\ rows2 = RowsLeft(rows, mine)
      /\ chain2(p) = SF!Kept(chain(p), Others(chain(p), k))
  BY DEF Leaves
<1>3. /\ s(p) \in Seq(SFSlotSet) /\ rows \in Seq(RowSet) /\ chain(p) \in Seq(EntrySet) /\ ChainUp(chain(p))
      /\ \A q \in P : \A i \in DOMAIN chain(q) : chain(q)[i][2] \in DOMAIN rows
  <2>1. s(p) \in Seq(SFSlotSet)
    BY PageTypes DEF FileOK
  <2> QED
    BY <2>1 DEF FileOK, ChainOK
<1>4. /\ \A i : i \in W(p) <=> i \in V(p) /\ s(p)[i].row.key # k
      /\ \A i \in W(p) : t(p)[i].row = s(p)[i].row
  <2> DEFINE a == s(p)
             b == t(p)
  <2>1. a \in Seq(SFSlotSet) /\ b = SlotsLeft(a, k)
    BY <1>2, <1>3
  <2> HIDE DEF a, b
  <2>2. DOMAIN b = DOMAIN a /\ \A i \in DOMAIN a : b[i].row = a[i].row /\ (b[i].valid <=> a[i].valid /\ a[i].row.key # k)
    BY <2>1, SlotsLeftAre
  <2>3. /\ \A i : i \in W(p) <=> i \in DOMAIN b /\ b[i].valid
        /\ \A i : i \in V(p) <=> i \in DOMAIN a /\ a[i].valid
    BY DEF ValidAt, a, b
  <2>4. /\ \A i : i \in W(p) <=> i \in V(p) /\ a[i].row.key # k
        /\ \A i \in W(p) : b[i].row = a[i].row
    BY <2>2, <2>3
  <2> QED
    BY <2>4 DEF a, b
<1>5. \A i \in DOMAIN rows : rows2[i] = IF i \in mine THEN none ELSE rows[i]
  <2> HIDE DEF rows, rows2, mine
  <2> QED
    BY <1>2, <1>3, RowsLeftAre
<1>6. \A e : e \in mine <=> \E j \in DOMAIN chain(p) : chain(p)[j][1] = k /\ e = chain(p)[j][2]
  BY DEF Mine, SF!ToSet
<1>7. /\ \A n \in DOMAIN chain2(p) :
           \E i \in DOMAIN chain(p) : i = from(n) /\ chain2(p)[n] = chain(p)[i] /\ chain(p)[i][1] # k
      /\ \A i \in DOMAIN chain(p) : chain(p)[i][1] # k => \E n \in DOMAIN chain2(p) : chain2(p)[n] = chain(p)[i]
      /\ \A m, n \in DOMAIN chain2(p) : from(m) = from(n) => m = n
  <2> DEFINE a == chain(p)
             b == chain2(p)
  <2>1. a \in Seq(EntrySet) /\ ChainUp(a) /\ b = SF!Kept(a, Others(a, k))
    BY <1>2, <1>3
  <2> HIDE DEF a, b
  <2>2. ChainLeft(a, b, k)
    BY <2>1, ChainLeftIs
  <2> QED
    BY <2>2, Zenon DEF ChainLeft, a, b
<1>8. KeyedOnce(new) <=>
        /\ \A a, q \in P : \A i \in W(a), j \in W(q) : t(a)[i].row.key = t(q)[j].row.key => a = q /\ i = j
        /\ \A a, q \in P : \A i \in W(a), j \in DOMAIN chain2(q) : t(a)[i].row.key # chain2(q)[j][1]
        /\ \A a, q \in P : \A i \in DOMAIN chain2(a), j \in DOMAIN chain2(q) :
             chain2(a)[i][1] = chain2(q)[j][1] => a = q /\ i = j
        /\ \A a \in P : \A i \in DOMAIN chain2(a) :
             rows2[chain2(a)[i][2]] # none /\ rows2[chain2(a)[i][2]].key = chain2(a)[i][1]
  BY <1>2 DEF KeyedOnce
<1>9. \A r : r \in RowsIn(file) <=> \E q \in P : (\E i \in V(q) : r = s(q)[i].row) \/ (\E i \in DOMAIN chain(q) : r = rows[chain(q)[i][2]])
  <2>1. \A r : r \in RowsIn(file) <=> \E q \in P : r \in RowsOf(file, q)
    BY DEF RowsIn
  <2> QED
    BY <2>1, RowsAre DEF InSlots, InChain
<1>10. \A r : r \in GoneRows(file, p, k) <=>
         r.key = k /\ ((\E i \in V(p) : r = s(p)[i].row) \/ (\E i \in DOMAIN chain(p) : r = rows[chain(p)[i][2]]))
  BY RowsAre DEF InSlots, InChain, GoneRows
<1>11. KeyedOnce(new) =>
         \A r : r \in RowsIn(new) <=> \E q \in P : (\E i \in W(q) : r = t(q)[i].row) \/ (\E i \in DOMAIN chain2(q) : r = rows2[chain2(q)[i][2]])
  <2> SUFFICES ASSUME KeyedOnce(new)
      PROVE  \A r : r \in RowsIn(new) <=> \E q \in P : (\E i \in W(q) : r = t(q)[i].row) \/ (\E i \in DOMAIN chain2(q) : r = rows2[chain2(q)[i][2]])
    OBVIOUS
  <2>1. \A r : r \in RowsIn(new) <=> \E q \in DOMAIN new.pages : r \in RowsOf(new, q)
    BY DEF RowsIn
  <2>2. \A q \in DOMAIN new.pages : \A r : r \in RowsOf(new, q) <=> InSlots(new, q, r) \/ InChain(new, q, r)
    BY RowsAre
  <2> QED
    BY <1>2, <2>1, <2>2 DEF InSlots, InChain
<1>12. p \in P
  OBVIOUS
<1> HIDE DEF P, rows, chain, rows2, chain2, V, W, s, t, none, mine, from
<1>13. \A q \in P : \A n \in DOMAIN chain2(q) :
         \E i \in DOMAIN chain(q) : /\ i = (IF q = p THEN from(n) ELSE n) /\ chain2(q)[n] = chain(q)[i]
                                    /\ q = p => chain(q)[i][1] # k
  BY <1>2, <1>7
(* The rows of other entries stay.                                          *)
<1>14. \A q \in P : \A i \in DOMAIN chain(q) : (q = p => chain(q)[i][1] # k) => rows2[chain(q)[i][2]] = rows[chain(q)[i][2]]
  <2> SUFFICES ASSUME NEW q \in P, NEW i \in DOMAIN chain(q), q = p => chain(q)[i][1] # k
      PROVE  rows2[chain(q)[i][2]] = rows[chain(q)[i][2]]
    OBVIOUS
  <2> DEFINE e == chain(q)[i][2]
  <2>1. e \notin mine
    <3> SUFFICES ASSUME e \in mine PROVE FALSE
      OBVIOUS
    <3>1. PICK j \in DOMAIN chain(p) : chain(p)[j][1] = k /\ e = chain(p)[j][2]
      BY <1>6
    <3>2. rows[e].key = k /\ rows[e].key = chain(q)[i][1]
      BY <1>1, <1>12, <3>1
    <3>3. p = q
      BY <1>1, <1>12, <3>1, <3>2
    <3> QED
      BY <3>2, <3>3
  <2>2. e \in DOMAIN rows
    BY <1>3
  <2> HIDE DEF e
  <2> QED
    BY <1>5, <2>1, <2>2 DEF e
<1>15. \A q \in P : \A i \in W(q) : i \in V(q) /\ t(q)[i].row = s(q)[i].row /\ (q = p => s(q)[i].row.key # k)
  BY <1>2, <1>4
<1>16. KeyedOnce(new)
  <2>1. ASSUME NEW a \in P, NEW q \in P, NEW i \in W(a), NEW j \in W(q), t(a)[i].row.key = t(q)[j].row.key
        PROVE  a = q /\ i = j
    BY <1>1, <1>15, <2>1
  <2>2. ASSUME NEW a \in P, NEW q \in P, NEW i \in W(a), NEW j \in DOMAIN chain2(q)
        PROVE  t(a)[i].row.key # chain2(q)[j][1]
    BY <1>1, <1>13, <1>15
  <2>3. ASSUME NEW a \in P, NEW q \in P, NEW i \in DOMAIN chain2(a), NEW j \in DOMAIN chain2(q),
               chain2(a)[i][1] = chain2(q)[j][1]
        PROVE  a = q /\ i = j
    <3>1. PICK x \in DOMAIN chain(a) : x = (IF a = p THEN from(i) ELSE i) /\ chain2(a)[i] = chain(a)[x]
      BY <1>13
    <3>2. PICK y \in DOMAIN chain(q) : y = (IF q = p THEN from(j) ELSE j) /\ chain2(q)[j] = chain(q)[y]
      BY <1>13
    <3>3. a = q /\ x = y
      BY <1>1, <2>3, <3>1, <3>2
    <3> QED
      BY <1>7, <3>1, <3>2, <3>3
  <2>4. ASSUME NEW a \in P, NEW n \in DOMAIN chain2(a)
        PROVE  rows2[chain2(a)[n][2]] # none /\ rows2[chain2(a)[n][2]].key = chain2(a)[n][1]
    <3>1. PICK i \in DOMAIN chain(a) : chain2(a)[n] = chain(a)[i] /\ (a = p => chain(a)[i][1] # k)
      BY <1>13
    <3>2. rows2[chain(a)[i][2]] = rows[chain(a)[i][2]]
      BY <1>14, <3>1
    <3> QED
      BY <1>1, <3>1, <3>2
  <2> QED
    BY <1>8, <2>1, <2>2, <2>3, <2>4
<1>17. ASSUME NEW r, r \in RowsIn(new) PROVE r \in RowsIn(file) /\ r \notin GoneRows(file, p, k)
  <2>1. PICK q \in P : (\E i \in W(q) : r = t(q)[i].row) \/ (\E i \in DOMAIN chain2(q) : r = rows2[chain2(q)[i][2]])
    BY <1>11, <1>16, <1>17
  <2>2. CASE \E i \in W(q) : r = t(q)[i].row
    <3>1. PICK i \in V(q) : r = s(q)[i].row /\ (q = p => r.key # k)
      BY <1>15, <2>2
    <3>2. r \in RowsIn(file)
      BY <1>9, <3>1
    <3>3. r \notin GoneRows(file, p, k)
      BY <1>1, <1>10, <1>12, <3>1
    <3> QED
      BY <3>2, <3>3
  <2>3. CASE \E i \in DOMAIN chain2(q) : r = rows2[chain2(q)[i][2]]
    <3>1. PICK n \in DOMAIN chain2(q) : r = rows2[chain2(q)[n][2]]
      BY <2>3
    <3>2. PICK i \in DOMAIN chain(q) : chain2(q)[n] = chain(q)[i] /\ (q = p => chain(q)[i][1] # k)
      BY <1>13
    <3>3. r = rows[chain(q)[i][2]] /\ r.key = chain(q)[i][1]
      BY <1>1, <1>14, <3>1, <3>2
    <3>4. r \in RowsIn(file)
      BY <1>9, <3>3
    <3>5. r \notin GoneRows(file, p, k)
      <4>1. \A j \in V(p) : r # s(p)[j].row
        BY <1>1, <1>12, <3>3
      <4>2. \A j \in DOMAIN chain(p) : r = rows[chain(p)[j][2]] => r.key = chain(p)[j][1] /\ p = q
        BY <1>1, <1>12, <3>3
      <4> QED
        BY <1>10, <3>2, <3>3, <4>1, <4>2
    <3> QED
      BY <3>4, <3>5
  <2> QED
    BY <2>1, <2>2, <2>3
<1>18. ASSUME NEW r, r \in RowsIn(file), r \notin GoneRows(file, p, k) PROVE r \in RowsIn(new)
  <2>1. PICK q \in P : (\E i \in V(q) : r = s(q)[i].row) \/ (\E i \in DOMAIN chain(q) : r = rows[chain(q)[i][2]])
    BY <1>9, <1>18
  <2>2. q = p => r.key # k
    BY <1>10, <1>18, <2>1
  <2>3. CASE \E i \in V(q) : r = s(q)[i].row
    <3>1. PICK i \in V(q) : r = s(q)[i].row
      BY <2>3
    <3>2. i \in W(q) /\ t(q)[i].row = s(q)[i].row
      BY <1>2, <1>4, <2>2, <3>1
    <3> QED
      BY <1>11, <1>16, <3>1, <3>2
  <2>4. CASE \E i \in DOMAIN chain(q) : r = rows[chain(q)[i][2]]
    <3>1. PICK i \in DOMAIN chain(q) : r = rows[chain(q)[i][2]] /\ r.key = chain(q)[i][1]
      BY <1>1, <2>4
    <3>2. \E n \in DOMAIN chain2(q) : chain2(q)[n] = chain(q)[i]
      BY <1>2, <1>7, <2>2, <3>1
    <3>3. rows2[chain(q)[i][2]] = rows[chain(q)[i][2]]
      BY <1>14, <2>2, <3>1
    <3> QED
      BY <1>11, <1>16, <3>1, <3>2, <3>3
  <2> QED
    BY <2>1, <2>3, <2>4
<1> QED
  BY <1>16, <1>17, <1>18

(* What is left differs only if a row is gone.                              *)
LEMMA NothingGone ==
  ASSUME NEW file, FileOK(file), KeyedOnce(file), IsFile(file), NEW p \in DOMAIN file.pages, NEW k,
         GoneRows(file, p, k) = {}
  PROVE  Left(file, p, k) = file
<1> DEFINE ps == file.pages
           s == ps[p].slots
           chain == file.over.chain
           rows == file.over.rows
<1>1. /\ ps \in Seq(PageSet) /\ ps[p] \in PageSet /\ rows \in Seq(RowSet)
      /\ chain \in [DOMAIN ps -> Seq(EntrySet)] /\ chain[p] \in Seq(EntrySet)
      /\ file.over = [rows |-> rows, chain |-> chain]
  BY DEF FileOK, OverSet, ChainOK
<1>2. \A i \in DOMAIN s : ~ Goes(s[i], k)
  <2> SUFFICES ASSUME NEW i \in DOMAIN s, Goes(s[i], k) PROVE FALSE
    OBVIOUS
  <2>1. i \in ValidAt(ps[p]) /\ s[i].row.key = k
    BY DEF Goes, ValidAt
  <2>2. InSlots(file, p, s[i].row)
    BY <2>1 DEF InSlots
  <2>3. s[i].row \in RowsOf(file, p)
    BY <2>2, RowsAre
  <2> QED
    BY <2>1, <2>3 DEF GoneRows
<1>3. \A i \in DOMAIN chain[p] : chain[p][i][1] # k
  <2> SUFFICES ASSUME NEW i \in DOMAIN chain[p], chain[p][i][1] = k PROVE FALSE
    OBVIOUS
  <2> DEFINE r == rows[chain[p][i][2]]
  <2>1. r.key = k
    BY DEF KeyedOnce
  <2>2. InChain(file, p, r)
    BY DEF InChain
  <2> HIDE DEF r
  <2>3. r \in RowsOf(file, p)
    BY <2>2, RowsAre
  <2> QED
    BY <2>1, <2>3 DEF GoneRows
<1>4. SlotsLeft(s, k) = s
  <2>1. s \in Seq(SFSlotSet)
    BY <1>1, PageTypes
  <2> HIDE DEF s
  <2> QED
    BY <1>2, <2>1, SlotsLeftAre
<1>5. [ps EXCEPT ![p].slots = s] = ps
  <2>1. [ps[p] EXCEPT !.slots = s] = ps[p]
    <3> DEFINE old == ps[p]
    <3>1. old \in PageSet
      BY <1>1
    <3> HIDE DEF old
    <3>2. [old EXCEPT !.slots = old.slots] = old
      BY <3>1 DEF PageSet
    <3> QED
      BY <3>2 DEF old
  <2>2. [ps EXCEPT ![p] = ps[p]] = ps
    <3> HIDE DEF ps
    <3> QED
      BY <1>1
  <2>3. [ps EXCEPT ![p].slots = s] = [ps EXCEPT ![p] = [ps[p] EXCEPT !.slots = s]]
    BY Zenon
  <2> QED
    BY <2>1, <2>2, <2>3
<1>6. RowsLeft(rows, Mine(chain[p], k)) = rows
  <2>1. Mine(chain[p], k) = {}
    BY <1>3 DEF Mine, SF!ToSet
  <2> HIDE DEF rows
  <2> QED
    BY <1>1, <2>1, RowsLeftAre
<1>7. [chain EXCEPT ![p] = SF!Kept(chain[p], Others(chain[p], k))] = chain
  <2>1. Others(chain[p], k) = DOMAIN chain[p]
    BY <1>3 DEF Others
  <2> DEFINE a == chain[p]
  <2>2. SF!Kept(a, DOMAIN a) = a
    <3>1. a \in Seq(EntrySet)
      BY <1>1
    <3> HIDE DEF a
    <3> QED
      BY <3>1, KeptAll
  <2>3. SF!Kept(chain[p], Others(chain[p], k)) = chain[p]
    BY <2>1, <2>2
  <2> HIDE DEF chain
  <2> QED
    BY <1>1, <2>3
<1>8. Left(file, p, k) = [pages |-> ps, over |-> [rows |-> rows, chain |-> chain], raised |-> file.raised]
  BY <1>4, <1>5, <1>6, <1>7, Zenon DEF Left
<1> QED
  BY <1>1, <1>8 DEF IsFile

(* A file without chains.                                                   *)
FreshFile(f, ps, rs) ==
  /\ f.pages = ps /\ f.over = [rows |-> rs, chain |-> [p \in DOMAIN ps |-> <<>>]]
  /\ f.raised = "nothing" /\ IsFile(f)
  /\ f.over.rows = rs /\ \A p \in DOMAIN ps : f.over.chain[p] = <<>>

LEMMA FreshIs ==
  ASSUME NEW ps, NEW rs
  PROVE  FreshFile(SF!Fresh(ps, rs), ps, rs)
<1> DEFINE f == SF!Fresh(ps, rs)
           chain == [p \in DOMAIN ps |-> <<>>]
           over == [rows |-> rs, chain |-> chain]
<1>1. f = [pages |-> ps, over |-> over, raised |-> "nothing"]
  BY Zenon DEF SF!Fresh, SF!File
<1>2. over.rows = rs /\ over.chain = chain /\ \A p \in DOMAIN ps : chain[p] = <<>>
  OBVIOUS
<1> HIDE DEF f, over
<1>3. f.pages = ps /\ f.over = over /\ f.raised = "nothing" /\ IsFile(f)
  BY <1>1 DEF IsFile
<1> HIDE DEF chain
<1>4. f.over.rows = rs /\ f.over.chain = chain
  BY <1>2, <1>3
<1> QED
  BY <1>2, <1>3, <1>4 DEF FreshFile, f, over, chain

PagesOK(ps) == ps \in Seq(PageSet) /\ ps # <<>> /\ \A p \in DOMAIN ps : SlotsUp(ps[p])

LEMMA FreshOK ==
  ASSUME NEW ps, NEW rs \in Seq(RowSet), NEW f, FreshFile(f, ps, rs)
  PROVE  FileOK(f) <=> PagesOK(ps)
<1>1. f.pages = ps /\ f.over.rows = rs /\ \A p \in DOMAIN ps : f.over.chain[p] = <<>>
  BY DEF FreshFile
<1>2. <<>> \in Seq(EntrySet) /\ DOMAIN <<>> = {}
  OBVIOUS
<1>3. \A p \in DOMAIN ps : ChainOK(f.over, p)
  BY <1>1, <1>2 DEF ChainOK, ChainUp
<1>4. f.over \in OverSet(DOMAIN ps)
  BY <1>2 DEF FreshFile, OverSet
<1> QED
  BY <1>1, <1>3, <1>4 DEF FileOK, PagesOK

(* An empty page more.                                                      *)
LEMMA EmptyIs ==
  /\ SF!EmptyPage \in PageSet /\ SlotsUp(SF!EmptyPage) /\ ValidAt(SF!EmptyPage) = {}
  /\ SF!EmptyPage.data = 0 /\ Len(SF!EmptyPage.slots) = 0
<1>1. SF!EmptyPage = [slots |-> <<>>, data |-> 0]
  BY DEF SF!EmptyPage
<1>2. SF!EmptyPage.slots = <<>> /\ SF!EmptyPage.data = 0 /\ DOMAIN <<>> = {} /\ Len(<<>>) = 0 /\ <<>> \in Seq(SFSlotSet)
  BY <1>1
<1>3. ValidAt(SF!EmptyPage) = {}
  BY <1>2 DEF ValidAt
<1>4. SF!EmptyPage \in PageSet
  BY <1>1, <1>2 DEF PageSet
<1> QED
  BY <1>2, <1>3, <1>4 DEF SlotsUp

OnePageMore(ps, qs) == qs = Append(ps, SF!EmptyPage)

LEMMA PageAppended ==
  ASSUME NEW ps, PagesOK(ps), NEW rs \in Seq(RowSet), NEW f, FreshFile(f, ps, rs),
         NEW qs, OnePageMore(ps, qs), NEW g, FreshFile(g, qs, rs)
  PROVE  /\ PagesOK(qs) /\ qs[Len(qs)] = SF!EmptyPage
         /\ RowsIn(g) = RowsIn(f)
         /\ KeyedOnce(f) => KeyedOnce(g)
<1> DEFINE N == Len(ps)
           e == SF!EmptyPage
<1>1. N \in Nat /\ DOMAIN ps = 1 .. N /\ ps \in Seq(PageSet) /\ \A p \in DOMAIN ps : SlotsUp(ps[p])
  BY DEF PagesOK
<1>2. e \in PageSet /\ SlotsUp(e) /\ ValidAt(e) = {}
  BY EmptyIs
<1> HIDE DEF e
<1>3. qs \in Seq(PageSet) /\ Len(qs) = N + 1 /\ qs[N + 1] = e /\ DOMAIN qs = 1 .. N + 1 /\ \A p \in 1 .. N : qs[p] = ps[p]
  BY <1>1, <1>2 DEF e, OnePageMore
<1> HIDE DEF N
<1>4. \A p \in DOMAIN qs : p \in DOMAIN ps \/ p = N + 1
  BY <1>1, <1>3
<1>5. DOMAIN ps \subseteq DOMAIN qs /\ N + 1 \in DOMAIN qs /\ qs # <<>>
  <2>1. 1 .. N \subseteq 1 .. N + 1 /\ N + 1 \in 1 .. N + 1 /\ Len(<<>>) = 0 /\ N + 1 # 0
    BY <1>1
  <2> QED
    BY <1>1, <1>3, <2>1
<1>6. PagesOK(qs)
  BY <1>1, <1>2, <1>3, <1>4, <1>5 DEF PagesOK
<1>7. /\ f.pages = ps /\ g.pages = qs /\ DOMAIN <<>> = {}
      /\ \A p \in DOMAIN ps : f.over.chain[p] = <<>>
      /\ \A p \in DOMAIN qs : g.over.chain[p] = <<>>
  BY DEF FreshFile
<1>8. /\ \A p \in DOMAIN ps : ValidAt(g.pages[p]) = ValidAt(f.pages[p]) /\ g.pages[p].slots = f.pages[p].slots
      /\ ValidAt(g.pages[N + 1]) = {}
  BY <1>1, <1>2, <1>3, <1>7
<1>9. RowsIn(g) = RowsIn(f)
  <2>1. /\ \A p \in DOMAIN ps : SlotRows(g, p) = SlotRows(f, p) /\ ChainRows(f, p) = {}
        /\ SlotRows(g, N + 1) = {}
        /\ \A p \in DOMAIN qs : ChainRows(g, p) = {}
    BY <1>7, <1>8 DEF SlotRows, ChainRows, HeldAt
  <2>2. \A r : r \in RowsIn(f) <=> \E p \in DOMAIN ps : r \in SlotRows(f, p) \/ r \in ChainRows(f, p)
    BY <1>7 DEF RowsIn, RowsOf
  <2>3. \A r : r \in RowsIn(g) <=> \E p \in DOMAIN qs : r \in SlotRows(g, p) \/ r \in ChainRows(g, p)
    BY <1>7 DEF RowsIn, RowsOf
  <2> QED
    BY <1>4, <1>5, <2>1, <2>2, <2>3
<1>10. ASSUME KeyedOnce(f) PROVE KeyedOnce(g)
  <2>1. \A p, q \in DOMAIN ps : \A i \in ValidAt(f.pages[p]), j \in ValidAt(f.pages[q]) :
          f.pages[p].slots[i].row.key = f.pages[q].slots[j].row.key => p = q /\ i = j
    BY <1>7, <1>10 DEF KeyedOnce
  <2>2. \A p, q \in DOMAIN qs : \A i \in ValidAt(g.pages[p]), j \in ValidAt(g.pages[q]) :
          g.pages[p].slots[i].row.key = g.pages[q].slots[j].row.key => p = q /\ i = j
    <3> SUFFICES ASSUME NEW p \in DOMAIN qs, NEW q \in DOMAIN qs,
                        NEW i \in ValidAt(g.pages[p]), NEW j \in ValidAt(g.pages[q]),
                        g.pages[p].slots[i].row.key = g.pages[q].slots[j].row.key
        PROVE  p = q /\ i = j
      OBVIOUS
    <3>1. p # N + 1 /\ q # N + 1
      BY <1>8
    <3>2. p \in DOMAIN ps /\ q \in DOMAIN ps
      BY <1>4, <3>1
    <3>3. i \in ValidAt(f.pages[p]) /\ j \in ValidAt(f.pages[q])
      BY <1>8, <3>2
    <3>4. f.pages[p].slots[i].row.key = f.pages[q].slots[j].row.key
      BY <1>8, <3>2
    <3> QED
      BY <2>1, <3>2, <3>3, <3>4
  <2>3. \A p \in DOMAIN g.pages : DOMAIN g.over.chain[p] = {}
    BY <1>7
  <2> QED
    BY <1>7, <2>2, <2>3 DEF KeyedOnce
<1> QED
  BY <1>3, <1>6, <1>9, <1>10 DEF e

-----------------------------------------------------------------------------
(* Packing row after row: the last page has given out what is counted as    *)
(* used, so a row that is not sent to the next page fits in this one.       *)
Used(page) == page.data + Len(page.slots) * MainSlot
PackSet == {d \in [pages : Seq(PageSet), used : Nat] : PagesOK(d.pages) /\ Used(d.pages[Len(d.pages)]) = d.used}
Full(d, row) == d.used + row.len + MainSlot > (4 * MainRoom) \div 5
OnPages(d, row) == IF Full(d, row) THEN Append(d.pages, SF!EmptyPage) ELSE d.pages
Place(d, row) ==
  LET at == OnPages(d, row)
  IN [pages |-> [at EXCEPT ![Len(at)] = SF!WithRow(at[Len(at)], row)],
      used |-> row.len + MainSlot + IF Full(d, row) THEN 0 ELSE d.used]

Placed(d, new, row, rs) ==
  LET f == SF!Fresh(d.pages, rs)
      g == SF!Fresh(new.pages, rs)
  IN /\ new \in PackSet
     /\ RowsIn(g) = RowsIn(f) \union {row}
     /\ KeyedOnce(f) /\ NewKey(f, row.key) => KeyedOnce(g)

LEMMA PlaceIs ==
  ASSUME NEW d \in PackSet, NEW row \in RowSet, FitsMain(row), NEW rs \in Seq(RowSet)
  PROVE  Placed(d, Place(d, row), row, rs)
<1> DEFINE at == OnPages(d, row)
           L == Len(at)
           page == at[L]
           f == SF!Fresh(d.pages, rs)
           m == SF!Fresh(at, rs)
           ps2 == [at EXCEPT ![L] = SF!WithRow(page, row)]
           u == IF Full(d, row) THEN 0 ELSE d.used
           g == SF!Fresh(ps2, rs)
<1>1. /\ PagesOK(d.pages) /\ d.used \in Nat /\ Used(d.pages[Len(d.pages)]) = d.used
      /\ row.len \in Nat /\ MainSlot \in Nat /\ MainRoom \in Nat
  <2>1. row.len \in Nat
    BY DEF RowSet
  <2> QED
    BY <2>1, RowsAssumption DEF PackSet
<1>2. FreshFile(f, d.pages, rs) /\ FreshFile(m, at, rs) /\ FreshFile(g, ps2, rs)
  BY FreshIs
<1>3. PagesOK(at) /\ RowsIn(m) = RowsIn(f) /\ (KeyedOnce(f) => KeyedOnce(m)) /\ Used(page) = u
  <2>1. CASE Full(d, row)
    <3>1. at = Append(d.pages, SF!EmptyPage)
      BY <2>1 DEF OnPages
    <3> DEFINE ps == d.pages
    <3>0. PagesOK(ps) /\ FreshFile(f, ps, rs) /\ FreshFile(m, at, rs) /\ OnePageMore(ps, at)
      BY <1>1, <1>2, <3>1 DEF OnePageMore
    <3> HIDE DEF at, f, m, ps
    <3>2. PagesOK(at) /\ at[Len(at)] = SF!EmptyPage /\ RowsIn(m) = RowsIn(f) /\ (KeyedOnce(f) => KeyedOnce(m))
      BY <3>0, PageAppended
    <3>3. Used(SF!EmptyPage) = 0
      BY <1>1, EmptyIs DEF Used
    <3> QED
      BY <2>1, <3>2, <3>3
  <2>2. CASE ~ Full(d, row)
    <3>1. at = d.pages
      BY <2>2 DEF OnPages
    <3> QED
      BY <1>1, <2>2, <3>1
  <2> QED
    BY <2>1, <2>2
<1> HIDE DEF at
<1>4. at \in Seq(PageSet) /\ L \in DOMAIN at /\ page \in PageSet /\ Len(at) = L
  <2>1. at \in Seq(PageSet) /\ at # <<>>
    BY <1>3 DEF PagesOK
  <2> QED
    BY <2>1
<1> HIDE DEF L
<1>5. page.data \in Nat /\ Len(page.slots) \in Nat /\ Len(page.slots) * MainSlot \in Nat
  <2>1. page.data \in Nat /\ Len(page.slots) \in Nat
    <3> HIDE DEF page
    <3> QED
      BY <1>4, PageTypes
  <2> HIDE DEF page
  <2> QED
    BY <1>1, <2>1
<1> HIDE DEF page
<1>6. u \in Nat /\ u + row.len + MainSlot <= MainRoom
  <2>1. CASE Full(d, row)
    BY <1>1, <2>1 DEF FitsMain
  <2>2. CASE ~ Full(d, row)
    <3>1. (4 * MainRoom) \div 5 <= MainRoom /\ (4 * MainRoom) \div 5 \in Int
      BY <1>1
    <3> DEFINE x == (4 * MainRoom) \div 5
    <3>2. d.used + row.len + MainSlot <= x /\ x <= MainRoom /\ x \in Int
      BY <1>1, <2>2, <3>1 DEF Full
    <3> HIDE DEF x
    <3> QED
      BY <1>1, <2>2, <3>2
  <2> QED
    BY <2>1, <2>2
<1>7. ~ NoRoom(page, row)
  <2> DEFINE w == Len(page.slots) * MainSlot
  <2>1. page.data + w = u /\ w \in Nat
    BY <1>3, <1>5 DEF Used
  <2>2. NoRoom(page, row) <=> MainRoom - page.data - w < MainSlot + row.len
    BY DEF NoRoom
  <2>3. page.data \in Nat /\ row.len \in Nat /\ MainRoom \in Nat /\ MainSlot \in Nat
    BY <1>1, <1>5
  <2> DEFINE b == page.data  n == row.len
  <2>4. u \in Nat /\ u + n + MainSlot <= MainRoom
    BY <1>6
  <2>5. b + w = u /\ w \in Nat /\ b \in Nat /\ n \in Nat /\ MainRoom \in Nat /\ MainSlot \in Nat
    BY <2>1, <2>3
  <2> HIDE DEF w, u, b, n, f, m, g, ps2
  <2>6. ~ (MainRoom - b - w < MainSlot + n)
    BY <2>4, <2>5
  <2> QED
    BY <2>2, <2>6, Zenon DEF b, n
<1>8. FileOK(m) /\ m.pages = at /\ m.over = g.over /\ g.pages = ps2
  <2>1. DOMAIN ps2 = DOMAIN at
    OBVIOUS
  <2> QED
    BY <1>2, <1>3, <2>1, FreshOK DEF FreshFile
<1>9. PutInPage(m, g, L, row)
  BY <1>8 DEF PutInPage, page
<1> HIDE DEF f, m, g, ps2, u
<1>10. /\ FileOK(g) /\ DOMAIN ps2 = DOMAIN at
       /\ ps2[L].data = page.data + row.len
       /\ \E x \in Nat : GrownAt(ps2[L].slots, page.slots, x, NewSlotOf(row))
       /\ RowsIn(g) = RowsIn(m) \union {row}
       /\ KeyedOnce(m) /\ NewKey(m, row.key) => KeyedOnce(g)
  <2>1. L \in DOMAIN m.pages /\ ~ NoRoom(m.pages[L], row)
    BY <1>4, <1>7, <1>8 DEF page
  <2>2. /\ FileOK(g) /\ DOMAIN g.pages = DOMAIN m.pages
        /\ g.pages[L].data = m.pages[L].data + row.len
        /\ \E x \in Nat : GrownAt(g.pages[L].slots, m.pages[L].slots, x, NewSlotOf(row))
    BY <1>8, <1>9, <2>1, PageGrown
  <2>3. /\ RowsIn(g) = RowsIn(m) \union {row}
        /\ KeyedOnce(m) /\ NewKey(m, row.key) => KeyedOnce(g)
    BY <1>8, <1>9, <2>1, PageGrownRows
  <2> QED
    BY <1>8, <2>2, <2>3 DEF page
<1>11. PagesOK(ps2)
  BY <1>2, <1>10, FreshOK
<1>12. Len(ps2) = L
  <2>1. ps2 \in Seq(PageSet) /\ at \in Seq(PageSet)
    BY <1>4, <1>11 DEF PagesOK
  <2>2. DOMAIN ps2 = DOMAIN at
    BY <1>10
  <2>3. Len(ps2) = Len(at)
    BY <2>1, <2>2
  <2> QED
    BY <1>4, <2>3
<1>13. Used(ps2[L]) = row.len + MainSlot + u
  <2>1. Len(ps2[L].slots) = Len(page.slots) + 1
    BY <1>10 DEF GrownAt
  <2> DEFINE n == Len(page.slots)
  <2>2. (n + 1) * MainSlot = n * MainSlot + MainSlot
    <3> HIDE DEF n
    <3>1. n \in Nat /\ MainSlot \in Nat
      BY <1>1, <1>5 DEF n
    <3> QED
      BY <3>1
  <2> DEFINE w == n * MainSlot
  <2>3. page.data + w = u /\ w \in Nat /\ Used(ps2[L]) = page.data + row.len + (w + MainSlot)
    BY <1>3, <1>5, <1>10, <2>1, <2>2 DEF Used
  <2> HIDE DEF w
  <2> QED
    BY <1>1, <1>5, <2>3
<1> DEFINE new == [pages |-> ps2, used |-> row.len + MainSlot + u]
<1>14. Place(d, row) = new
  BY Zenon DEF Place, at, ps2, page, L, u
<1>15. new.pages = ps2 /\ new.used = row.len + MainSlot + u /\ new \in [pages : Seq(PageSet), used : Nat]
  BY <1>1, <1>6, <1>11 DEF PagesOK
<1> HIDE DEF new
<1>16. new \in PackSet
  BY <1>11, <1>12, <1>13, <1>15 DEF PackSet
<1>17. NewKey(f, row.key) => NewKey(m, row.key)
  BY <1>3 DEF NewKey
<1>18. Placed(d, new, row, rs)
  BY <1>3, <1>10, <1>15, <1>16, <1>17 DEF Placed, f, g
<1> QED
  BY <1>14, <1>18

LEMMA PlaceForm ==
  ASSUME NEW rows
  PROVE  SF!Packed(rows) =
           LET after[n \in 0 .. Len(rows)] ==
                 IF n = 0 THEN [pages |-> <<SF!EmptyPage>>, used |-> 0] ELSE Place(after[n - 1], rows[n])
           IN after[Len(rows)].pages
BY Zenon DEF SF!Packed, Place, OnPages, Full

PackedTable(rows, f) ==
  LET N == Len(rows)
  IN /\ f \in [0 .. N -> PackSet] /\ f[0] = [pages |-> <<SF!EmptyPage>>, used |-> 0] /\ SF!Packed(rows) = f[N].pages
     /\ \A n \in 1 .. N : f[n - 1] \in PackSet /\ f[n] = Place(f[n - 1], rows[n])

LEMMA FirstPacked ==
  /\ [pages |-> <<SF!EmptyPage>>, used |-> 0] \in PackSet
  /\ \A rs : LET f == SF!Fresh(<<SF!EmptyPage>>, rs) IN RowsIn(f) = {} /\ KeyedOnce(f)
<1> DEFINE e == SF!EmptyPage
           ps == <<e>>
           d == [pages |-> ps, used |-> 0]
<1>1. e \in PageSet /\ SlotsUp(e) /\ ValidAt(e) = {} /\ e.data = 0 /\ Len(e.slots) = 0
  BY EmptyIs
<1> HIDE DEF e
<1>2. ps \in Seq(PageSet) /\ Len(ps) = 1 /\ DOMAIN ps = {1} /\ ps[1] = e /\ ps # <<>>
  BY <1>1
<1> HIDE DEF ps
<1>3. PagesOK(ps)
  BY <1>1, <1>2 DEF PagesOK
<1>4. Used(e) = 0
  BY <1>1, RowsAssumption DEF Used
<1>5. d.pages = ps /\ d.used = 0 /\ d \in [pages : Seq(PageSet), used : Nat]
  BY <1>2
<1>6. d \in PackSet
  BY <1>2, <1>3, <1>4, <1>5 DEF PackSet
<1>7. ASSUME NEW rs PROVE RowsIn(SF!Fresh(ps, rs)) = {} /\ KeyedOnce(SF!Fresh(ps, rs))
  <2> DEFINE f == SF!Fresh(ps, rs)
  <2>1. FreshFile(f, ps, rs)
    BY FreshIs
  <2> HIDE DEF f
  <2>2. f.pages = ps /\ DOMAIN <<>> = {} /\ \A p \in DOMAIN ps : f.over.chain[p] = <<>>
    BY <2>1 DEF FreshFile
  <2>3. \A p \in DOMAIN ps : ValidAt(f.pages[p]) = {} /\ DOMAIN f.over.chain[p] = {}
    BY <1>1, <1>2, <2>2
  <2>4. RowsIn(f) = {}
    BY <2>2, <2>3 DEF RowsIn, RowsOf, SlotRows, ChainRows, HeldAt
  <2>5. KeyedOnce(f)
    BY <2>2, <2>3 DEF KeyedOnce
  <2> QED
    BY <2>4, <2>5 DEF f
<1> QED
  BY <1>6, <1>7 DEF ps, e

LEMMA PackedForm ==
  ASSUME NEW rows \in Seq(RowSet), \A n \in DOMAIN rows : FitsMain(rows[n])
  PROVE  \E f : PackedTable(rows, f)
<1> DEFINE N == Len(rows)
           D == PackSet
           first == [pages |-> <<SF!EmptyPage>>, used |-> 0]
           step == [n \in 1 .. N |-> [d \in D |-> Place(d, rows[n])]]
           after[n \in 0 .. N] == IF n = 0 THEN first ELSE Place(after[n - 1], rows[n])
<1>1. N \in Nat /\ DOMAIN rows = 1 .. N /\ \A n \in 1 .. N : rows[n] \in RowSet /\ FitsMain(rows[n])
  OBVIOUS
<1>2. \A n \in 1 .. N : \A d \in D : Place(d, rows[n]) \in D
  <2> SUFFICES ASSUME NEW n \in 1 .. N, NEW d \in D PROVE Place(d, rows[n]) \in D
    OBVIOUS
  <2>1. <<>> \in Seq(RowSet)
    OBVIOUS
  <2>2. Placed(d, Place(d, rows[n]), rows[n], <<>>)
    BY <1>1, <2>1, PlaceIs
  <2> QED
    BY <2>2 DEF Placed
<1>3. SF!Packed(rows) = after[N].pages
  BY PlaceForm, Zenon
<1>4. first \in D
  BY FirstPacked
<1> HIDE DEF N, D, first
<1>5. PICK f : Iterates(f, first, step, N, D)
  <2>1. IsTable(step, N, D)
    BY <1>1, <1>2 DEF IsTable
  <2> HIDE DEF step
  <2> QED
    BY <1>4, <2>1, IterationExists
<1>6. /\ f \in [0 .. N -> D] /\ f[0] = first
      /\ \A n \in 1 .. N : n - 1 \in 0 .. N /\ f[n - 1] \in D /\ f[n] = Place(f[n - 1], rows[n])
  <2>1. f \in [0 .. N -> D] /\ f[0] = first /\ \A n \in 1 .. N : f[n] = step[n][f[n - 1]]
    BY <1>5 DEF Iterates
  <2>2. \A n \in 1 .. N : n - 1 \in 0 .. N
    BY <1>1
  <2> QED
    BY <2>1, <2>2
<1> HIDE DEF step
<1>7. \A n \in 0 .. N : n # 0 => n \in 1 .. N
  BY <1>1
<1>8. f = [n \in 0 .. N |-> IF n = 0 THEN first ELSE Place(f[n - 1], rows[n])]
  <2>1. \A n \in 0 .. N : f[n] = IF n = 0 THEN first ELSE Place(f[n - 1], rows[n])
    BY <1>6, <1>7, Zenon
  <2>2. f = [n \in 0 .. N |-> f[n]]
    BY <1>6
  <2> QED
    BY <2>1, <2>2, Zenon
<1>9. after = [n \in 0 .. N |-> IF n = 0 THEN first ELSE Place(after[n - 1], rows[n])]
  BY <1>8, Zenon
<1> HIDE DEF after
<1>10. \A n \in 0 .. N : after[n] = IF n = 0 THEN first ELSE Place(after[n - 1], rows[n])
  BY <1>9, Zenon
<1>11. \A n \in 0 .. N : after[n] = f[n]
  <2> DEFINE S == {n \in 0 .. N : after[n] = f[n]}
  <2>1. 0 \in S
    BY <1>1, <1>6, <1>10
  <2>2. ASSUME NEW n \in 1 .. N, n - 1 \in S PROVE n \in S
    <3>1. n \in 0 .. N /\ n # 0 /\ after[n - 1] = f[n - 1]
      BY <1>1, <2>2
    <3>2. after[n] = Place(f[n - 1], rows[n])
      BY <1>10, <3>1, Zenon
    <3> QED
      BY <1>6, <3>1, <3>2
  <2> HIDE DEF S
  <2>3. 0 .. N \subseteq S
    BY <1>1, <2>1, <2>2, BoundedInduction
  <2> QED
    BY <2>3 DEF S
<1>12. SF!Packed(rows) = f[N].pages
  BY <1>1, <1>3, <1>11
<1> QED
  BY <1>6, <1>12, Zenon DEF PackedTable, N, D, first

IsPacked(rows, rs) ==
  LET f == SF!Fresh(SF!Packed(rows), rs)
  IN FileOK(f) /\ RowsIn(f) = Elements(rows) /\ KeyedOnce(f)

LEMMA PackedIs ==
  ASSUME NEW rows \in Seq(RowSet), KeysOnce(rows), \A n \in DOMAIN rows : FitsMain(rows[n]), NEW rs \in Seq(RowSet)
  PROVE  IsPacked(rows, rs)
<1> DEFINE N == Len(rows)
           before(n) == {rows[i] : i \in 1 .. n}
<1>1. N \in Nat /\ DOMAIN rows = 1 .. N /\ \A n \in 1 .. N : rows[n] \in RowSet /\ FitsMain(rows[n])
  OBVIOUS
<1>2. PICK f : PackedTable(rows, f)
  BY PackedForm
<1>3. /\ f \in [0 .. N -> PackSet] /\ f[0] = [pages |-> <<SF!EmptyPage>>, used |-> 0] /\ SF!Packed(rows) = f[N].pages
      /\ \A n \in 1 .. N : f[n - 1] \in PackSet /\ f[n] = Place(f[n - 1], rows[n])
  BY <1>2 DEF PackedTable
<1> DEFINE file(n) == SF!Fresh(f[n].pages, rs)
           S == {n \in 0 .. N : RowsIn(file(n)) = before(n) /\ KeyedOnce(file(n))}
<1>4. 0 \in S
  <2>1. f[0].pages = <<SF!EmptyPage>>
    BY <1>3
  <2>2. RowsIn(SF!Fresh(<<SF!EmptyPage>>, rs)) = {} /\ KeyedOnce(SF!Fresh(<<SF!EmptyPage>>, rs))
    BY FirstPacked
  <2>3. before(0) = {} /\ 0 \in 0 .. N
    BY <1>1
  <2> QED
    BY <2>1, <2>2, <2>3
<1>5. ASSUME NEW n \in 1 .. N, n - 1 \in S PROVE n \in S
  <2> DEFINE d == f[n - 1]
             row == rows[n]
  <2>1. d \in PackSet /\ f[n] = Place(d, row) /\ row \in RowSet /\ FitsMain(row)
    BY <1>1, <1>3
  <2>2. RowsIn(file(n - 1)) = before(n - 1) /\ KeyedOnce(file(n - 1))
    BY <1>5
  <2>3. before(n) = before(n - 1) \union {row}
    <3>1. \A i : i \in 1 .. n <=> i \in 1 .. n - 1 \/ i = n
      BY <1>1
    <3> QED
      BY <3>1
  <2>4. \A r \in before(n - 1) : r.key # row.key
    <3> SUFFICES ASSUME NEW i \in 1 .. n - 1 PROVE rows[i].key # rows[n].key
      OBVIOUS
    <3>1. i \in DOMAIN rows /\ n \in DOMAIN rows /\ i # n
      BY <1>1
    <3> QED
      BY <3>1 DEF KeysOnce
  <2> HIDE DEF d, row, before
  <2>5. Placed(d, Place(d, row), row, rs)
    BY <2>1, PlaceIs
  <2>6. Placed(d, f[n], row, rs)
    BY <2>1, <2>5
  <2>7. /\ RowsIn(SF!Fresh(f[n].pages, rs)) = RowsIn(SF!Fresh(d.pages, rs)) \union {row}
        /\ KeyedOnce(SF!Fresh(d.pages, rs)) /\ NewKey(SF!Fresh(d.pages, rs), row.key) => KeyedOnce(SF!Fresh(f[n].pages, rs))
    BY <2>6, Zenon DEF Placed
  <2>8. SF!Fresh(d.pages, rs) = file(n - 1)
    BY Zenon DEF d
  <2>9. NewKey(file(n - 1), row.key)
    BY <2>2, <2>4 DEF NewKey
  <2>10. RowsIn(file(n)) = before(n) /\ KeyedOnce(file(n))
    BY <2>2, <2>3, <2>7, <2>8, <2>9
  <2>11. n \in 0 .. N
    BY <1>1
  <2> QED
    BY <2>10, <2>11
<1>6. 0 .. N \subseteq S
  <2> HIDE DEF S, N
  <2> QED
    BY <1>1, <1>4, <1>5, BoundedInduction
<1>7. N \in 0 .. N
  BY <1>1
<1>8. RowsIn(file(N)) = before(N) /\ KeyedOnce(file(N))
  BY <1>6, <1>7
<1>9. before(N) = Elements(rows)
  BY <1>1 DEF Elements
<1>10. FileOK(file(N))
  <2>1. PagesOK(f[N].pages)
    BY <1>3, <1>7 DEF PackSet
  <2>2. FreshFile(file(N), f[N].pages, rs)
    BY FreshIs
  <2> HIDE DEF file
  <2> QED
    BY <2>1, <2>2, FreshOK
<1> QED
  BY <1>3, <1>8, <1>9, <1>10, Zenon DEF IsPacked

(* A reorganization keeps every row.                                        *)
LEMMA ReorganizedKeeps ==
  ASSUME NEW file, Sound(file)
  PROVE  /\ Sound(SF!Reorganized(file)) /\ IsFile(SF!Reorganized(file))
         /\ SF!Reorganized(file).raised = "nothing"
         /\ RowsIn(SF!Reorganized(file)) = RowsIn(file)
<1> DEFINE rows == SF!Scan(file)
           rs == file.over.rows
           new == SF!Reorganized(file)
<1>1. rows \in Seq(RowSet) /\ Elements(rows) = RowsIn(file) /\ KeysOnce(rows)
  BY ScanRows, ScanOnce DEF Sound
<1>2. \A r \in RowsIn(file) : FitsMain(r)
  BY DEF Sound
<1>3. \A n \in DOMAIN rows : FitsMain(rows[n])
  BY <1>1, <1>2 DEF Elements
<1>4. rs \in Seq(RowSet)
  BY DEF Sound, FileOK, OverSet
<1>5. new = SF!Fresh(SF!Packed(rows), rs)
  BY Zenon DEF SF!Reorganized
<1> HIDE DEF rows, rs, new
<1>6. IsPacked(rows, rs)
  BY <1>1, <1>3, <1>4, PackedIs
<1>7. FileOK(new) /\ RowsIn(new) = Elements(rows) /\ KeyedOnce(new)
  BY <1>5, <1>6, Zenon DEF IsPacked
<1>8. FreshFile(new, SF!Packed(rows), rs)
  BY <1>5, FreshIs
<1> QED
  BY <1>1, <1>2, <1>7, <1>8 DEF Sound, FreshFile, new

(* The file as the state has it, and as a step leaves it.                   *)
LEMMA ThisIs ==
  SF!This.pages = nodes /\ SF!This.over = root /\ SF!This.raised = "nothing" /\ IsFile(SF!This)
<1>1. SF!This = [pages |-> nodes, over |-> root, raised |-> "nothing"]
  BY Zenon DEF SF!This, SF!File
<1> DEFINE f == SF!This
<1> HIDE DEF f
<1>2. f.pages = nodes /\ f.over = root /\ f.raised = "nothing" /\ IsFile(f)
  BY <1>1 DEF IsFile, f
<1> QED
  BY <1>2 DEF f

LEMMA BecomesIs ==
  ASSUME NEW file, SF!Becomes(file)
  PROVE  /\ FileOK(file) => FileOK(SF!This)'
         /\ Sound(file) => Sound(SF!This)'
         /\ RowsIn(SF!This)' = RowsIn(file)
         /\ raised' = file.raised
<1> DEFINE new == SF!This'
<1>1. nodes' = file.pages /\ root' = file.over /\ raised' = file.raised
  BY DEF SF!Becomes
<1>2. (SF!This.pages = nodes /\ SF!This.over = root)'
  BY ThisIs, PTL
<1>3. new.pages = file.pages /\ new.over = file.over
  BY <1>1, <1>2
<1> HIDE DEF new
<1>4. /\ FileOK(file) => FileOK(new)
      /\ KeyedOnce(file) => KeyedOnce(new)
      /\ RowsIn(new) = RowsIn(file)
  BY <1>3, SamePages
<1>5. Sound(file) => Sound(new)
  BY <1>4 DEF Sound
<1> QED
  BY <1>1, <1>4, <1>5 DEF new

(* The entries of a sequential file are its rows.                           *)
PairsOf(R) == {<<r.key, r.len>> : r \in R}

LEMMA SequentialViews ==
  ASSUME Sequential
  PROVE  /\ FileOK(SF!This) => Indexed = PairsOf(RowsIn(SF!This))
         /\ ~ Vectorial
         /\ kind = "rows by key" => Row = KeyedRow
         /\ kind = "rows by rid" => Row = RowByRid
<1>1. kind \notin {"btree", "hash", "rtree", "text"} /\ ~ Vectorial
  BY DEF Sequential, Vectorial
<1>2. Indexed = {<<row.key, row.len>> : row \in ToSet(SF!Scan(SF!This))}
  BY <1>1, Zenon DEF Indexed
<1>3. ASSUME FileOK(SF!This) PROVE Indexed = PairsOf(RowsIn(SF!This))
  <2>1. Elements(SF!Scan(SF!This)) = RowsIn(SF!This)
    BY <1>3, ScanRows
  <2>2. ToSet(SF!Scan(SF!This)) = Elements(SF!Scan(SF!This))
    BY Zenon DEF ToSet, Elements
  <2>3. Indexed = {<<row.key, row.len>> : row \in RowsIn(SF!This)}
    BY <1>2, <2>1, <2>2, Zenon
  <2> QED
    BY <2>3, Zenon DEF PairsOf
<1>4. (kind = "rows by key" => Row = KeyedRow) /\ (kind = "rows by rid" => Row = RowByRid)
  BY <1>1, Zenon DEF Row
<1> QED
  BY <1>1, <1>3, <1>4

(* A new file.                                                              *)
LEMMA SequentialStarts ==
  ASSUME SF!Init
  PROVE  Sound(SF!This) /\ RowsIn(SF!This) = {} /\ raised = "nothing"
<1> DEFINE f == SF!Fresh(<<SF!EmptyPage>>, <<>>)
           d == [pages |-> <<SF!EmptyPage>>, used |-> 0]
<1>1. FreshFile(f, <<SF!EmptyPage>>, <<>>)
  BY FreshIs
<1>2. nodes = f.pages /\ root = f.over /\ raised = f.raised
  BY Zenon DEF SF!Init
<1>3. d \in PackSet /\ RowsIn(f) = {} /\ KeyedOnce(f)
  BY FirstPacked
<1>4. d.pages = <<SF!EmptyPage>>
  OBVIOUS
<1>5. PagesOK(<<SF!EmptyPage>>)
  <2> HIDE DEF d
  <2> QED
    BY <1>3, <1>4 DEF PackSet
<1> HIDE DEF f
<1>6. <<>> \in Seq(RowSet)
  OBVIOUS
<1>7. FileOK(f)
  BY <1>1, <1>5, <1>6, FreshOK
<1>8. SF!This.pages = f.pages /\ SF!This.over = f.over
  BY <1>2, ThisIs
<1>9. FileOK(SF!This) /\ KeyedOnce(SF!This) /\ RowsIn(SF!This) = {}
  BY <1>3, <1>7, <1>8, SamePages
<1> QED
  BY <1>1, <1>2, <1>9 DEF Sound, FreshFile

-----------------------------------------------------------------------------
(* The operations on a file whose keys are all different.                   *)
LEMMA KeyedInsert ==
  ASSUME Sound(SF!This), NEW k \in Nat, NEW n \in Nat \ {0}, NewKey(SF!This, k), SF!Insert(k, n)
  PROVE  /\ Sound(SF!This)'
         /\ \/ raised' = "too large" /\ RowsIn(SF!This)' = RowsIn(SF!This)
            \/ raised' = "nothing" /\ RowsIn(SF!This)' = RowsIn(SF!This) \union {SF!Row(k, n)}
<1> DEFINE row == SF!Row(k, n)
           new == SF!WithInserted(SF!This, row)
<1>1. SF!Becomes(new)
  BY Zenon DEF SF!Insert
<1>2. row \in RowSet /\ row.len # 0 /\ row.key = k
  BY DEF SF!Row, RowSet
<1>3. IsFile(SF!This) /\ SF!This.raised = "nothing"
  BY ThisIs
<1> DEFINE file == SF!This
<1> HIDE DEF row, new, file
<1>4. Sound(file) /\ IsFile(file) /\ file.raised = "nothing" /\ NewKey(file, row.key) /\ new = SF!WithInserted(file, row)
  BY <1>2, <1>3 DEF file, new
<1>5. /\ Sound(new) /\ IsFile(new)
      /\ \/ RowsIn(new) = RowsIn(file) /\ new.raised = "too large"
         \/ RowsIn(new) = RowsIn(file) \union {row} /\ new.raised = "nothing"
  BY <1>2, <1>4, InsertedRows
<1>6. Sound(SF!This)' /\ RowsIn(SF!This)' = RowsIn(new) /\ raised' = new.raised
  BY <1>1, <1>5, BecomesIs
<1> QED
  BY <1>5, <1>6 DEF file, row

LEMMA KeyedReorganize ==
  ASSUME Sound(SF!This), SF!Reorganize
  PROVE  Sound(SF!This)' /\ RowsIn(SF!This)' = RowsIn(SF!This) /\ raised' = raised
<1> DEFINE f == SF!Reorganized(SF!This)
           new == [f EXCEPT !.raised = raised]
<1>1. SF!Becomes(new)
  BY Zenon DEF SF!Reorganize
<1>2. Sound(f) /\ IsFile(f) /\ RowsIn(f) = RowsIn(SF!This)
  BY ReorganizedKeeps
<1> HIDE DEF f
<1>3. new.pages = f.pages /\ new.over = f.over /\ new.raised = raised
  BY <1>2 DEF IsFile
<1> HIDE DEF new
<1>4. FileOK(new) /\ KeyedOnce(new) /\ RowsIn(new) = RowsIn(f)
  BY <1>2, <1>3, SamePages DEF Sound
<1>5. Sound(new)
  BY <1>2, <1>4 DEF Sound
<1> QED
  BY <1>1, <1>2, <1>3, <1>4, <1>5, BecomesIs

LEMMA KeyedDelete ==
  ASSUME Sound(SF!This), NEW k, SF!DeleteKey(k)
  PROVE  /\ Sound(SF!This)'
         /\ \/ raised' = "missing" /\ RowsIn(SF!This)' = RowsIn(SF!This)
            \/ raised' = "nothing" /\ \E r \in RowsIn(SF!This) : RowsIn(SF!This)' = RowsIn(SF!This) \ {r}
<1> DEFINE file == SF!This
           p == SF!TargetPage(file, k)
           left == Left(file, p, k)
           missing == [file EXCEPT !.raised = "missing"]
           new == IF left = file THEN missing ELSE SF!MaybeReorganized(left)
<1>1. FileOK(file) /\ KeyedOnce(file) /\ IsFile(file) /\ file.raised = "nothing" /\ file.pages = nodes /\ file.over = root
      /\ p \in DOMAIN file.pages
  BY ThisIs, TargetIs DEF Sound
<1>2. SF!Becomes(new)
  <2> DEFINE slots == nodes[p].slots
             gone(s) == s.valid /\ s.row.key = k
             mine == {c[2] : c \in {d \in SF!ToSet(root.chain[p]) : d[1] = k}}
             x == [file EXCEPT
                     !.pages[p].slots = [i \in DOMAIN slots |->
                                           IF gone(slots[i]) THEN [slots[i] EXCEPT !.valid = FALSE] ELSE slots[i]],
                     !.over.rows = [i \in DOMAIN @ |-> IF i \in mine THEN SF!NoRow ELSE @[i]],
                     !.over.chain[p] = SF!Kept(@, {i \in DOMAIN @ : @[i][1] # k})]
  <2>1. SF!Becomes(IF x = file THEN missing ELSE SF!MaybeReorganized(x))
    BY Zenon DEF SF!DeleteKey
  <2>2. x = left
    <3> DEFINE slots2 == SlotsLeft(nodes[p].slots, k)
               y == [file EXCEPT !.pages[p].slots = slots2]
               z == [y EXCEPT !.over.rows = [i \in DOMAIN @ |-> IF i \in mine THEN SF!NoRow ELSE @[i]]]
               w == [z EXCEPT !.over.chain[p] = SF!Kept(@, {i \in DOMAIN @ : @[i][1] # k})]
    <3>1. x = w
      BY ZenonT(40) DEF SlotsLeft, Goes, Emptied
    <3>2. file = [pages |-> nodes, over |-> root, raised |-> "nothing"] /\ root = [rows |-> root.rows, chain |-> root.chain]
      BY <1>1 DEF IsFile, FileOK, OverSet
    <3> DEFINE pages2 == [nodes EXCEPT ![p].slots = slots2]
               rows2 == RowsLeft(root.rows, mine)
               kept == SF!Kept(root.chain[p], Others(root.chain[p], k))
               chain2 == [root.chain EXCEPT ![p] = kept]
    <3> HIDE DEF file, slots2, mine, p
    <3>3. y = [pages |-> pages2, over |-> root, raised |-> "nothing"]
      BY <3>2
    <3> HIDE DEF y, pages2
    <3>4. y.over.rows = root.rows /\ y.over = root
      BY <3>3
    <3>5. z = [y EXCEPT !.over.rows = rows2]
      BY <3>4, Zenon DEF RowsLeft
    <3> HIDE DEF rows2
    <3>6. [y EXCEPT !.over.rows = rows2] = [pages |-> pages2, over |-> [rows |-> rows2, chain |-> root.chain], raised |-> "nothing"]
      <4>1. [y EXCEPT !.over.rows = rows2] = [pages |-> pages2, over |-> [root EXCEPT !.rows = rows2], raised |-> "nothing"]
        BY <3>3
      <4>2. [root EXCEPT !.rows = rows2] = [rows |-> rows2, chain |-> root.chain]
        <5> DEFINE a == root.rows
                   c == root.chain
        <5>1. root = [rows |-> a, chain |-> c]
          BY <3>2
        <5> HIDE DEF a, c
        <5> QED
          BY <5>1
      <4> QED
        BY <4>1, <4>2
    <3>7. z = [pages |-> pages2, over |-> [rows |-> rows2, chain |-> root.chain], raised |-> "nothing"]
      BY <3>5, <3>6
    <3> HIDE DEF z
    <3>8. z.over.chain[p] = root.chain[p]
      BY <3>7
    <3>9. w = [z EXCEPT !.over.chain[p] = kept]
      BY <3>8, Zenon DEF Others
    <3> HIDE DEF kept
    <3>10. [z EXCEPT !.over.chain[p] = kept] = [pages |-> pages2, over |-> [rows |-> rows2, chain |-> chain2], raised |-> "nothing"]
      BY <3>7
    <3> HIDE DEF w
    <3>11. left = [pages |-> pages2, over |-> [rows |-> rows2, chain |-> chain2], raised |-> "nothing"]
      BY <1>1, Zenon DEF Left, pages2, rows2, kept, mine, Mine, slots2
    <3> QED
      BY <3>1, <3>9, <3>10, <3>11
  <2> HIDE DEF x, left, missing, file
  <2> QED
    BY <2>1, <2>2 DEF new
<1>3. Leaves(file, left, p, k)
  BY <1>1, LeftIs
<1>4. GoneRows(file, p, k) = {} => left = file
  BY <1>1, NothingGone
<1> HIDE DEF left, file, p
<1>5. FileOK(left) /\ KeyedOnce(left) /\ RowsIn(left) = RowsIn(file) \ GoneRows(file, p, k)
  BY <1>1, <1>3, LeftOK, LeftRows
<1>6. \A r \in RowsIn(file) : FitsMain(r)
  BY DEF Sound, file
<1>7. Sound(left) /\ left.raised = "nothing"
  BY <1>1, <1>3, <1>5, <1>6 DEF Sound, Leaves
<1>8. CASE left = file
  <2>1. new = missing
    BY <1>8
  <2>2. missing.pages = file.pages /\ missing.over = file.over /\ missing.raised = "missing"
    BY <1>1 DEF IsFile
  <2> HIDE DEF missing, new
  <2>3. FileOK(new) /\ KeyedOnce(new) /\ RowsIn(new) = RowsIn(file)
    BY <1>1, <2>1, <2>2, SamePages
  <2>4. Sound(new)
    BY <1>6, <2>3 DEF Sound
  <2> QED
    BY <1>2, <2>1, <2>2, <2>3, <2>4, BecomesIs DEF file
<1>9. CASE left # file
  <2> DEFINE maybe == SF!MaybeReorganized(left)
  <2>1. new = maybe
    BY <1>9
  <2>2. maybe = left \/ maybe = SF!Reorganized(left)
    BY Zenon DEF SF!MaybeReorganized
  <2>3. Sound(SF!Reorganized(left)) /\ SF!Reorganized(left).raised = "nothing" /\ RowsIn(SF!Reorganized(left)) = RowsIn(left)
    BY <1>7, ReorganizedKeeps
  <2> HIDE DEF maybe, new
  <2>4. Sound(new) /\ new.raised = "nothing" /\ RowsIn(new) = RowsIn(left)
    BY <1>7, <2>1, <2>2, <2>3
  <2>5. PICK r : r \in GoneRows(file, p, k)
    BY <1>4, <1>9
  <2>6. \A t \in GoneRows(file, p, k) : t \in RowsIn(file) /\ t.key = k
    BY <1>1 DEF GoneRows, RowsIn
  <2>7. \A t \in GoneRows(file, p, k) : t = r
    BY <1>1, <2>5, <2>6, OneRowForKey
  <2>8. RowsIn(left) = RowsIn(file) \ {r} /\ r \in RowsIn(file)
    BY <1>5, <2>5, <2>6, <2>7
  <2> QED
    BY <1>2, <2>4, <2>8, BecomesIs DEF file
<1> QED
  BY <1>8, <1>9

(* A page whose slots are the old ones, emptied or with other rows of their *)
(* keys.                                                                    *)
SlotsReplaced(file, new, p) ==
  LET old == file.pages[p].slots
      now == new.pages[p].slots
  IN /\ new.over = file.over /\ new.pages \in Seq(PageSet) /\ DOMAIN new.pages = DOMAIN file.pages
     /\ \A q \in DOMAIN file.pages : q # p => new.pages[q] = file.pages[q]
     /\ DOMAIN now = DOMAIN old
     /\ \A i \in DOMAIN old : now[i].valid => old[i].valid /\ now[i].row.key = old[i].row.key

LEMMA SlotsReplacedOK ==
  ASSUME NEW file, FileOK(file), NEW p \in DOMAIN file.pages, NEW new, SlotsReplaced(file, new, p)
  PROVE  FileOK(new)
<1>1. /\ file.pages \in Seq(PageSet) /\ file.pages # <<>> /\ file.over \in OverSet(DOMAIN file.pages)
      /\ \A q \in DOMAIN file.pages : SlotsUp(file.pages[q]) /\ ChainOK(file.over, q)
  BY DEF FileOK
<1>2. /\ new.over = file.over /\ new.pages \in Seq(PageSet) /\ DOMAIN new.pages = DOMAIN file.pages
      /\ \A q \in DOMAIN file.pages : q # p => new.pages[q] = file.pages[q]
      /\ DOMAIN new.pages[p].slots = DOMAIN file.pages[p].slots
      /\ \A i \in DOMAIN file.pages[p].slots :
           new.pages[p].slots[i].valid =>
             file.pages[p].slots[i].valid /\ new.pages[p].slots[i].row.key = file.pages[p].slots[i].row.key
  BY DEF SlotsReplaced
<1>3. SlotsUp(new.pages[p])
  <2>1. SUFFICES ASSUME NEW i \in ValidAt(new.pages[p]), NEW j \in ValidAt(new.pages[p]), i < j
                 PROVE  new.pages[p].slots[i].row.key <= new.pages[p].slots[j].row.key
    BY DEF SlotsUp
  <2>2. /\ i \in ValidAt(file.pages[p]) /\ new.pages[p].slots[i].row.key = file.pages[p].slots[i].row.key
        /\ j \in ValidAt(file.pages[p]) /\ new.pages[p].slots[j].row.key = file.pages[p].slots[j].row.key
    BY <1>2, <2>1 DEF ValidAt
  <2> QED
    BY <1>1, <2>1, <2>2 DEF SlotsUp
<1>4. new.pages # <<>>
  BY <1>1, <1>2
<1> QED
  BY <1>1, <1>2, <1>3, <1>4 DEF FileOK

(* The overflow file with another row in a slot.                            *)
RowsReplaced(file, new) ==
  /\ new.pages = file.pages /\ new.over = [rows |-> new.over.rows, chain |-> file.over.chain]
  /\ new.over.rows \in Seq(RowSet) /\ DOMAIN new.over.rows = DOMAIN file.over.rows

LEMMA RowsReplacedOK ==
  ASSUME NEW file, FileOK(file), NEW new, RowsReplaced(file, new)
  PROVE  FileOK(new)
<1>1. /\ file.pages \in Seq(PageSet) /\ file.pages # <<>> /\ file.over \in OverSet(DOMAIN file.pages)
      /\ \A q \in DOMAIN file.pages : SlotsUp(file.pages[q]) /\ ChainOK(file.over, q)
  BY DEF FileOK
<1> DEFINE rs == new.over.rows
           ch == file.over.chain
<1>2. /\ new.pages = file.pages /\ new.over = [rows |-> rs, chain |-> ch]
      /\ rs \in Seq(RowSet) /\ DOMAIN rs = DOMAIN file.over.rows
  BY DEF RowsReplaced
<1>3. ch \in [DOMAIN file.pages -> Seq(EntrySet)]
  BY <1>1 DEF OverSet
<1> HIDE DEF rs, ch
<1>4. new.over.rows = rs /\ new.over.chain = ch
  BY <1>2
<1>5. new.over \in OverSet(DOMAIN new.pages)
  BY <1>2, <1>3 DEF OverSet
<1>6. ASSUME NEW q \in DOMAIN file.pages PROVE ChainOK(new.over, q)
  <2>1. /\ file.over.chain[q] \in Seq(EntrySet) /\ ChainUp(file.over.chain[q])
        /\ \A i \in DOMAIN file.over.chain[q] : file.over.chain[q][i][2] \in DOMAIN file.over.rows
    BY <1>1, <1>6 DEF ChainOK
  <2>2. new.over.chain[q] = file.over.chain[q] /\ new.over.rows \in Seq(RowSet) /\ DOMAIN new.over.rows = DOMAIN file.over.rows
    BY <1>2, <1>4 DEF ch
  <2> QED
    BY <2>1, <2>2 DEF ChainOK
<1> QED
  BY <1>1, <1>2, <1>5, <1>6 DEF FileOK

(* Where a RID leads: to a slot with a row, of a page or of the heap file.  *)
LeadsTo(file, rid) ==
  IF rid.spilled
    THEN rid.slot \in DOMAIN file.over.rows
    ELSE rid.page \in DOMAIN file.pages /\ rid.slot \in ValidAt(file.pages[rid.page])

LEMMA RidLeads ==
  ASSUME FileOK(SF!This), NEW rid \in SF!Rids
  PROVE  LeadsTo(SF!This, rid)
<1>1. SF!This.pages = nodes /\ SF!This.over = root
  BY ThisIs
<1>2. PICK p \in DOMAIN nodes :
         \/ \E i \in DOMAIN nodes[p].slots : nodes[p].slots[i].valid /\ rid = SF!InPage(p, i)
         \/ \E c \in SF!ToSet(root.chain[p]) : rid = SF!InHeap(c[2])
  BY Zenon DEF SF!Rids
<1>3. CASE \E i \in DOMAIN nodes[p].slots : nodes[p].slots[i].valid /\ rid = SF!InPage(p, i)
  <2>1. PICK i \in DOMAIN nodes[p].slots : nodes[p].slots[i].valid /\ rid = SF!InPage(p, i)
    BY <1>3
  <2>2. rid.spilled = FALSE /\ rid.page = p /\ rid.slot = i
    BY <2>1 DEF SF!InPage
  <2> QED
    BY <1>1, <2>1, <2>2 DEF LeadsTo, ValidAt
<1>4. CASE \E c \in SF!ToSet(root.chain[p]) : rid = SF!InHeap(c[2])
  <2>1. PICK c \in SF!ToSet(root.chain[p]) : rid = SF!InHeap(c[2])
    BY <1>4
  <2>2. PICK i \in DOMAIN root.chain[p] : c = root.chain[p][i]
    BY Zenon, <2>1 DEF SF!ToSet
  <2>3. \A j \in DOMAIN root.chain[p] : root.chain[p][j][2] \in DOMAIN root.rows
    BY <1>1 DEF FileOK, ChainOK
  <2>4. rid.spilled = TRUE /\ rid.slot = c[2]
    BY <2>1 DEF SF!InHeap
  <2> QED
    BY <1>1, <2>2, <2>3, <2>4 DEF LeadsTo
<1> QED
  BY <1>2, <1>3, <1>4

(* A slot of a page that another takes the place of.                        *)
LEMMA SlotPut ==
  ASSUME NEW file, FileOK(file), IsFile(file), NEW p \in DOMAIN file.pages, NEW i \in ValidAt(file.pages[p]),
         NEW s \in SFSlotSet, s.valid => s.row.key = file.pages[p].slots[i].row.key,
         NEW new, new = [file EXCEPT !.pages[p].slots[i] = s]
  PROVE  FileOK(new) /\ IsFile(new) /\ new.raised = file.raised
<1> DEFINE page == file.pages[p]
           slots2 == [page.slots EXCEPT ![i] = s]
           page2 == [page EXCEPT !.slots = slots2]
           pages2 == [file.pages EXCEPT ![p] = page2]
<1>1. file.pages \in Seq(PageSet) /\ page \in PageSet
  BY DEF FileOK
<1>2. page.slots \in Seq(SFSlotSet) /\ page.data \in Nat /\ i \in DOMAIN page.slots /\ page.slots[i].valid
  BY <1>1, PageTypes DEF ValidAt
<1>3. slots2 \in Seq(SFSlotSet) /\ Len(slots2) = Len(page.slots) /\ DOMAIN slots2 = DOMAIN page.slots
      /\ slots2[i] = s /\ \A j \in DOMAIN page.slots \ {i} : slots2[j] = page.slots[j]
  BY <1>2, ReplacedInSeq
<1>4. page = [slots |-> page.slots, data |-> page.data]
  BY <1>1 DEF PageSet
<1>5. page2 = [slots |-> slots2, data |-> page.data]
  BY <1>4
<1> HIDE DEF slots2, page2
<1>6. page2 \in PageSet /\ page2.slots = slots2
  BY <1>2, <1>3, <1>5 DEF PageSet
<1>7. /\ pages2 \in Seq(PageSet) /\ DOMAIN pages2 = DOMAIN file.pages
      /\ pages2[p] = page2 /\ \A q \in DOMAIN file.pages \ {p} : pages2[q] = file.pages[q]
  BY <1>1, <1>6, ReplacedInSeq
<1>8. new = [file EXCEPT !.pages = pages2]
  BY DEF slots2, page2
<1> HIDE DEF pages2, page
<1>9. new.pages = pages2 /\ new.over = file.over /\ new.raised = file.raised /\ IsFile(new)
  BY <1>8 DEF IsFile
<1>10. SlotsReplaced(file, new, p)
  <2>1. \A j \in DOMAIN file.pages[p].slots :
          slots2[j].valid => file.pages[p].slots[j].valid /\ slots2[j].row.key = file.pages[p].slots[j].row.key
    BY <1>2, <1>3 DEF page
  <2> QED
    BY <1>3, <1>6, <1>7, <1>9, <2>1 DEF SlotsReplaced, page
<1> QED
  BY <1>9, <1>10, SlotsReplacedOK

(* A slot of the heap file that gets another row, or none.                  *)
LEMMA RowPut ==
  ASSUME NEW file, FileOK(file), IsFile(file), NEW i \in DOMAIN file.over.rows, NEW row \in RowSet,
         NEW new, new = [file EXCEPT !.over.rows[i] = row]
  PROVE  FileOK(new) /\ IsFile(new) /\ new.raised = file.raised
<1> DEFINE rs == file.over.rows
           ch == file.over.chain
           rows2 == [rs EXCEPT ![i] = row]
<1>1. rs \in Seq(RowSet) /\ file.over = [rows |-> rs, chain |-> ch]
  BY DEF FileOK, OverSet
<1>2. rows2 \in Seq(RowSet) /\ DOMAIN rows2 = DOMAIN rs
  BY <1>1, ReplacedInSeq
<1>3. new = [file EXCEPT !.over = [file.over EXCEPT !.rows = rows2]]
  BY Zenon
<1> HIDE DEF rs, ch, rows2
<1>4. [file.over EXCEPT !.rows = rows2] = [rows |-> rows2, chain |-> ch]
  BY <1>1
<1>5. /\ new.pages = file.pages /\ new.over = [rows |-> rows2, chain |-> ch] /\ new.raised = file.raised
      /\ IsFile(new)
  BY <1>3, <1>4 DEF IsFile
<1>6. RowsReplaced(file, new)
  BY <1>2, <1>5 DEF RowsReplaced, rs, ch
<1> QED
  BY <1>5, <1>6, RowsReplacedOK

LEMMA WithoutRidOK ==
  ASSUME FileOK(SF!This), NEW rid \in SF!Rids
  PROVE  FileOK(SF!WithoutRid(rid)) /\ IsFile(SF!WithoutRid(rid))
<1> DEFINE file == SF!This
           new == SF!WithoutRid(rid)
<1>1. FileOK(file) /\ IsFile(file) /\ LeadsTo(file, rid)
  BY ThisIs, RidLeads
<1>2. new = IF rid.spilled THEN [file EXCEPT !.over.rows[rid.slot] = SF!NoRow]
            ELSE [file EXCEPT !.pages[rid.page].slots[rid.slot].valid = FALSE]
  BY Zenon DEF SF!WithoutRid
<1> HIDE DEF file, new
<1>3. CASE rid.spilled
  <2>1. SF!NoRow \in RowSet
    BY DEF SF!NoRow, SF!Row, RowSet
  <2> QED
    BY <1>1, <1>2, <1>3, <2>1, RowPut DEF LeadsTo, file, new
<1>4. CASE ~ rid.spilled
  <2> DEFINE p == rid.page
             i == rid.slot
             old == file.pages[p].slots[i]
             s == [old EXCEPT !.valid = FALSE]
  <2>1. p \in DOMAIN file.pages /\ i \in ValidAt(file.pages[p])
    BY <1>1, <1>4 DEF LeadsTo
  <2>2. old \in SFSlotSet
    BY <1>1, <2>1, PageTypes DEF FileOK, ValidAt
  <2> HIDE DEF old
  <2>3. s \in SFSlotSet /\ ~ s.valid
    BY <2>2 DEF SFSlotSet
  <2> HIDE DEF s
  <2>4. new = [file EXCEPT !.pages[p].slots[i] = s]
    BY <1>2, <1>4, Zenon DEF s, old
  <2> HIDE DEF p, i
  <2> QED
    BY <1>1, <2>1, <2>3, <2>4, SlotPut DEF new
<1> QED
  BY <1>3, <1>4

(* Every operation by RID keeps the pages and the chains in order.          *)
LEMMA DeleteRidOK ==
  ASSUME FileOK(SF!This), NEW rid \in SF!Rids, SF!DeleteRid(rid)
  PROVE  FileOK(SF!This)'
<1>1. SF!Becomes(SF!WithoutRid(rid))
  BY Zenon DEF SF!DeleteRid
<1> QED
  BY <1>1, WithoutRidOK, BecomesIs

LEMMA InsertOK ==
  ASSUME FileOK(SF!This), NEW k \in Nat, NEW n \in Nat, SF!Insert(k, n)
  PROVE  FileOK(SF!This)'
<1>1. SF!Becomes(SF!WithInserted(SF!This, SF!Row(k, n)))
  BY Zenon DEF SF!Insert
<1>2. SF!Row(k, n) \in RowSet
  BY DEF SF!Row, RowSet
<1>3. FileOK(SF!WithInserted(SF!This, SF!Row(k, n)))
  BY <1>2, ThisIs, InsertedOK
<1> QED
  BY <1>1, <1>3, BecomesIs

LEMMA UpdateOK ==
  ASSUME FileOK(SF!This), NEW rid \in SF!Rids, NEW row \in RowSet, SF!Update(rid, row)
  PROVE  FileOK(SF!This)'
<1> DEFINE file == SF!This
           slot == nodes[rid.page].slots[rid.slot]
           inSlot == row.len <= slot.row.len /\ row.key = slot.row.key
           spilledNew == [file EXCEPT !.over.rows[rid.slot] = row]
           slotNew == [file EXCEPT !.pages[rid.page].slots[rid.slot] = SF!Slot(row, row.len, TRUE)]
           moved == SF!WithInserted(SF!WithoutRid(rid), row)
           new == IF rid.spilled THEN spilledNew ELSE IF inSlot THEN slotNew ELSE moved
<1>1. SF!Becomes(new)
  BY Zenon DEF SF!Update
<1>2. FileOK(file) /\ IsFile(file) /\ LeadsTo(file, rid) /\ file.pages = nodes
  BY ThisIs, RidLeads
<1>3. FileOK(moved)
  BY WithoutRidOK, InsertedOK
<1> HIDE DEF file, moved
<1>4. CASE rid.spilled
  <2>1. FileOK(spilledNew)
    BY <1>2, <1>4, RowPut DEF LeadsTo
  <2> QED
    BY <1>1, <1>4, <2>1, BecomesIs
<1>5. CASE ~ rid.spilled /\ inSlot
  <2> DEFINE p == rid.page
             i == rid.slot
             s == SF!Slot(row, row.len, TRUE)
  <2>1. p \in DOMAIN file.pages /\ i \in ValidAt(file.pages[p])
    BY <1>2, <1>5 DEF LeadsTo
  <2>2. row.len \in Nat
    BY DEF RowSet
  <2>3. s \in SFSlotSet /\ s.row = row
    BY <2>2 DEF SF!Slot, SFSlotSet
  <2>4. s.row.key = file.pages[p].slots[i].row.key
    BY <1>2, <1>5, <2>3
  <2> HIDE DEF s
  <2>5. slotNew = [file EXCEPT !.pages[p].slots[i] = s]
    BY DEF s
  <2> HIDE DEF p, i, slotNew
  <2>6. FileOK(slotNew)
    BY <1>2, <2>1, <2>3, <2>4, <2>5, SlotPut
  <2>7. new = slotNew
    BY <1>5
  <2> QED
    BY <1>1, <2>6, <2>7, BecomesIs
<1>6. CASE ~ rid.spilled /\ ~ inSlot
  <2>1. new = moved
    BY <1>6
  <2> QED
    BY <1>1, <1>3, <2>1, BecomesIs
<1> QED
  BY <1>4, <1>5, <1>6

-----------------------------------------------------------------------------
LEMMA KindStays ==
  ASSUME [Next]_vars
  PROVE  kind' = kind
BY DEF Next, vars

(* In a sequential file the pages and the chains are in order; in one by    *)
(* key, no key is there twice.                                              *)
SeqInv ==
  /\ Sequential => FileOK(SF!This) /\ unique = TRUE
  /\ kind = "rows by key" => Sound(SF!This)

LEMMA KeyedStarts ==
  ASSUME Init, Sequential
  PROVE  SeqInv /\ Sound(SF!This) /\ RowsIn(SF!This) = {} /\ raised = "nothing"
<1>1. SF!Init /\ unique = TRUE
  BY DEF Init, Sequential
<1>2. Sound(SF!This) /\ RowsIn(SF!This) = {} /\ raised = "nothing"
  BY <1>1, SequentialStarts
<1> QED
  BY <1>1, <1>2 DEF SeqInv, Sound

LEMMA PairsAre ==
  ASSUME NEW R, NEW e
  PROVE  e \in PairsOf(R) <=> \E r \in R : e = <<r.key, r.len>>
BY DEF PairsOf

(* What a step of a file by key is.                                         *)
LEMMA KeyedSteps ==
  ASSUME kind = "rows by key", Sound(SF!This), Next
  PROVE  /\ (kind = "rows by key")' /\ unique' = unique
         /\ \/ \E k \in Nat, n \in Nat \ {0} : NewKey(SF!This, k) /\ SF!Insert(k, n)
            \/ \E k : SF!DeleteKey(k)
            \/ SF!Reorganize
<1>1. (kind = "rows by key")'
  BY DEF Next
<1>2. Sequential /\ ~ Vectorial /\ Row = KeyedRow /\ Indexed = PairsOf(RowsIn(SF!This))
  <2>1. Sequential
    BY DEF Sequential
  <2> QED
    BY <2>1, SequentialViews DEF Sound
<1>3. \A e \in Row : e[1] \in Nat /\ e[2] \in Nat \ {0}
  BY <1>2, RowsAssumption
<1>4. ASSUME NEW e \in Row, MayHold(e[1], e[2]), Insert(e[1], e[2])
      PROVE  NewKey(SF!This, e[1]) /\ SF!Insert(e[1], e[2]) /\ unique' = unique
  <2>1. SF!Insert(e[1], e[2]) /\ unique' = unique
    BY <1>2, <1>4 DEF Insert
  <2>2. \A f \in Indexed : f[1] # e[1]
    BY <1>2, <1>4, Zenon DEF MayHold, Free
  <2>3. ASSUME NEW r \in RowsIn(SF!This) PROVE r.key # e[1]
    <3>1. <<r.key, r.len>> \in Indexed
      BY <1>2, PairsAre
    <3> QED
      BY <2>2, <3>1
  <2> QED
    BY <2>1, <2>3 DEF NewKey
<1>5. ASSUME NEW e \in Indexed, Delete(e[1], e[2])
      PROVE  SF!DeleteKey(e[1]) /\ unique' = unique
  BY <1>2, <1>5 DEF Delete
<1>6. \A k, r, new : ~ Update(k, r, new)
  BY <1>2 DEF Update
<1>7. ~ Rank /\ ~ Load /\ ~ Rebuild /\ \A k : ~ Ask(k)
  BY <1>2 DEF Rank, Load, Rebuild, Ask
<1>8. ASSUME Reorganize PROVE SF!Reorganize /\ unique' = unique
  BY <1>8 DEF Reorganize
<1>9. \/ \E e \in Row : MayHold(e[1], e[2]) /\ Insert(e[1], e[2])
      \/ \E e \in Indexed : Delete(e[1], e[2])
      \/ Reorganize
  BY <1>6, <1>7, Zenon DEF Next
<1> QED
  BY <1>1, <1>3, <1>4, <1>5, <1>8, <1>9

LEMMA KeyedStepKeeps ==
  ASSUME kind = "rows by key", Sound(SF!This), Next
  PROVE  /\ Sound(SF!This)' /\ (kind = "rows by key")' /\ unique' = unique
         /\ \/ raised' \in {"too large", "missing"} /\ RowsIn(SF!This)' = RowsIn(SF!This)
            \/ raised' = raised /\ RowsIn(SF!This)' = RowsIn(SF!This)
            \/ raised' = "nothing" /\ \E row : NewKey(SF!This, row.key) /\ RowsIn(SF!This)' = RowsIn(SF!This) \union {row}
            \/ raised' = "nothing" /\ \E r \in RowsIn(SF!This) : RowsIn(SF!This)' = RowsIn(SF!This) \ {r}
<1>1. (kind = "rows by key")' /\ unique' = unique
  BY KeyedSteps
<1>2. \/ \E k \in Nat, n \in Nat \ {0} : NewKey(SF!This, k) /\ SF!Insert(k, n)
      \/ \E k : SF!DeleteKey(k)
      \/ SF!Reorganize
  BY KeyedSteps
<1>3. ASSUME NEW k \in Nat, NEW n \in Nat \ {0}, NewKey(SF!This, k), SF!Insert(k, n)
      PROVE  /\ Sound(SF!This)'
             /\ \/ raised' = "too large" /\ RowsIn(SF!This)' = RowsIn(SF!This)
                \/ /\ raised' = "nothing"
                   /\ \E row : NewKey(SF!This, row.key) /\ RowsIn(SF!This)' = RowsIn(SF!This) \union {row}
  <2>1. /\ Sound(SF!This)'
        /\ \/ raised' = "too large" /\ RowsIn(SF!This)' = RowsIn(SF!This)
           \/ raised' = "nothing" /\ RowsIn(SF!This)' = RowsIn(SF!This) \union {SF!Row(k, n)}
    BY <1>3, KeyedInsert
  <2>2. SF!Row(k, n).key = k
    BY DEF SF!Row
  <2> QED
    BY <1>3, <2>1, <2>2
<1>4. ASSUME NEW k, SF!DeleteKey(k)
      PROVE  /\ Sound(SF!This)'
             /\ \/ raised' = "missing" /\ RowsIn(SF!This)' = RowsIn(SF!This)
                \/ raised' = "nothing" /\ \E r \in RowsIn(SF!This) : RowsIn(SF!This)' = RowsIn(SF!This) \ {r}
  BY <1>4, KeyedDelete
<1>5. ASSUME SF!Reorganize
      PROVE  Sound(SF!This)' /\ RowsIn(SF!This)' = RowsIn(SF!This) /\ raised' = raised
  BY <1>5, KeyedReorganize
<1> QED
  BY <1>1, <1>2, <1>3, <1>4, <1>5

(* A step of a file by RID.                                                 *)
LEMMA ByRidStepKeeps ==
  ASSUME kind = "rows by rid", FileOK(SF!This), Next
  PROVE  FileOK(SF!This)' /\ (kind = "rows by rid")' /\ unique' = unique
<1>1. (kind = "rows by rid")'
  BY DEF Next
<1>2. Sequential /\ ~ Vectorial /\ Row = RowByRid
  <2>1. Sequential
    BY DEF Sequential
  <2> QED
    BY <2>1, SequentialViews
<1>3. \A e \in Row : e[1] \in Nat /\ e[2] \in Nat
  BY <1>2, RowsAssumption
<1>4. ASSUME NEW e \in Row, Insert(e[1], e[2])
      PROVE  FileOK(SF!This)' /\ unique' = unique
  <2>1. SF!Insert(e[1], e[2]) /\ unique' = unique
    BY <1>2, <1>4 DEF Insert
  <2> QED
    BY <1>3, <2>1, InsertOK
<1>5. ASSUME NEW k, NEW r, Delete(k, r)
      PROVE  FileOK(SF!This)' /\ unique' = unique
  <2>1. /\ \E rid \in SF!Rids : SF!Get(rid) = SF!Row(k, r) /\ SF!DeleteRid(rid)
        /\ unique' = unique
    BY <1>2, <1>5, Zenon DEF Delete
  <2> QED
    BY <2>1, DeleteRidOK
<1>6. ASSUME NEW k, NEW r, NEW f \in Row, Update(k, r, f)
      PROVE  FileOK(SF!This)' /\ unique' = unique
  <2>1. /\ \E rid \in SF!Rids : SF!Get(rid) = SF!Row(k, r) /\ SF!Update(rid, SF!Row(f[1], f[2]))
        /\ unique' = unique
    BY <1>2, <1>6, Zenon DEF Update
  <2>2. SF!Row(f[1], f[2]) \in RowSet
    BY <1>3 DEF SF!Row, RowSet
  <2> QED
    BY <2>1, <2>2, UpdateOK
<1>7. ~ Reorganize /\ ~ Rank /\ ~ Load /\ ~ Rebuild /\ \A k : ~ Ask(k)
  BY <1>2 DEF Reorganize, Rank, Load, Rebuild, Ask
<1>8. \/ \E e \in Row : Insert(e[1], e[2])
      \/ \E e \in Indexed : Delete(e[1], e[2])
      \/ \E e \in Indexed, f \in Row : Update(e[1], e[2], f)
  BY <1>7, Zenon DEF Next
<1> QED
  BY <1>1, <1>4, <1>5, <1>6, <1>8

LEMMA SeqInvHolds == Spec => []SeqInv
<1>1. Init => SeqInv
  <2>1. ASSUME Init, ~ Sequential PROVE SeqInv
    BY <2>1 DEF SeqInv, Sequential
  <2> QED
    BY <2>1, KeyedStarts
<1>2. SeqInv /\ [Next]_vars => SeqInv'
  <2>1. ASSUME SeqInv, Next, kind = "rows by key" PROVE SeqInv'
    <3>1. Sound(SF!This) /\ unique = TRUE
      BY <2>1 DEF SeqInv, Sequential
    <3>2. Sound(SF!This)' /\ (kind = "rows by key")' /\ unique' = unique
      BY <2>1, <3>1, KeyedStepKeeps
    <3>3. (Sound(SF!This) => FileOK(SF!This))'
      BY DEF Sound
    <3> QED
      BY <3>1, <3>2, <3>3 DEF SeqInv
  <2>2. ASSUME SeqInv, Next, kind = "rows by rid" PROVE SeqInv'
    <3>1. FileOK(SF!This) /\ unique = TRUE
      BY <2>2 DEF SeqInv, Sequential
    <3>2. FileOK(SF!This)' /\ (kind = "rows by rid")' /\ unique' = unique
      BY <2>2, <3>1, ByRidStepKeeps
    <3> QED
      BY <3>1, <3>2 DEF SeqInv
  <2>3. ASSUME [Next]_vars, ~ Sequential PROVE SeqInv'
    BY <2>3, KindStays DEF SeqInv, Sequential
  <2>4. ASSUME SeqInv, UNCHANGED vars PROVE SeqInv'
    <3>1. UNCHANGED <<kind, nodes, root, unique, raised>>
      BY <2>4 DEF vars
    <3>2. SF!This' = SF!This
      BY <3>1 DEF SF!This, SF!File
    <3> QED
      BY <2>4, <3>1, <3>2 DEF SeqInv, Sequential
  <2> QED
    BY <2>1, <2>2, <2>3, <2>4 DEF Sequential
<1> QED
  BY <1>1, <1>2, PTL DEF Spec

(* One row more, or less, is one entry more, or less.                       *)
LEMMA PairMore ==
  ASSUME KeyedOnce(SF!This), NEW row, NewKey(SF!This, row.key)
  PROVE  LET R == RowsIn(SF!This)
             e == <<row.key, row.len>>
         IN /\ PairsOf(R \union {row}) = PairsOf(R) \union {e}
            /\ \A f \in PairsOf(R) : f[1] # row.key
<1> DEFINE R == RowsIn(SF!This)
<1>1. \A f \in PairsOf(R) : f[1] # row.key
  <2>1. SUFFICES ASSUME NEW f \in PairsOf(R) PROVE f[1] # row.key
    OBVIOUS
  <2>2. PICK r \in R : f = <<r.key, r.len>>
    BY PairsAre
  <2> QED
    BY <2>2 DEF NewKey
<1>2. PairsOf(R \union {row}) = PairsOf(R) \union {<<row.key, row.len>>}
  BY Zenon DEF PairsOf
<1> QED
  BY <1>1, <1>2

LEMMA PairLess ==
  ASSUME KeyedOnce(SF!This), NEW r \in RowsIn(SF!This)
  PROVE  LET R == RowsIn(SF!This)
             e == <<r.key, r.len>>
         IN e \in PairsOf(R) /\ PairsOf(R \ {r}) = PairsOf(R) \ {e}
<1> DEFINE R == RowsIn(SF!This)
           e == <<r.key, r.len>>
<1>1. e \in PairsOf(R)
  BY PairsAre
<1>2. ASSUME NEW t \in R, <<t.key, t.len>> = e PROVE t = r
  <2>1. t.key = r.key
    BY <1>2
  <2> QED
    BY <2>1, OneRowForKey
<1> HIDE DEF R, e
<1>3. ASSUME NEW f \in PairsOf(R \ {r}) PROVE f \in PairsOf(R) \ {e}
  <2>1. PICK t \in R \ {r} : f = <<t.key, t.len>>
    BY PairsAre
  <2> QED
    BY <1>2, <2>1, PairsAre
<1>4. ASSUME NEW f \in PairsOf(R), f # e PROVE f \in PairsOf(R \ {r})
  <2>1. PICK t \in R : f = <<t.key, t.len>>
    BY PairsAre
  <2>2. t # r
    BY <1>4, <2>1 DEF e
  <2> QED
    BY <2>1, <2>2, PairsAre
<1> QED
  BY <1>1, <1>3, <1>4 DEF R, e

LEMMA EntriesAre == Sequential /\ Sound(SF!This) => Indexed = PairsOf(RowsIn(SF!This))
BY SequentialViews DEF Sound

(* What a step of a file by key does to its entries.                        *)
LEMMA KeyedEntries ==
  ASSUME kind = "rows by key", Sound(SF!This), unique = TRUE, Next
  PROVE  /\ Sound(SF!This)' /\ (kind = "rows by key")' /\ unique' = unique
         /\ \/ raised' \in {"too large", "missing"} /\ Indexed' = Indexed
            \/ raised' = raised /\ Indexed' = Indexed
            \/ raised' = "nothing" /\ \E e : (\A f \in Indexed : f[1] # e[1]) /\ Indexed' = Indexed \union {e}
            \/ raised' = "nothing" /\ \E e \in Indexed : Indexed' = Indexed \ {e}
<1> DEFINE R == RowsIn(SF!This)
<1>1. /\ Sound(SF!This)' /\ (kind = "rows by key")' /\ unique' = unique
      /\ \/ raised' \in {"too large", "missing"} /\ R' = R
         \/ raised' = raised /\ R' = R
         \/ raised' = "nothing" /\ \E row : NewKey(SF!This, row.key) /\ R' = R \union {row}
         \/ raised' = "nothing" /\ \E r \in R : R' = R \ {r}
  BY KeyedStepKeeps
<1>2. Sequential
  BY DEF Sequential
<1>3. (Sequential /\ Sound(SF!This) => Indexed = PairsOf(RowsIn(SF!This)))'
  BY EntriesAre, PTL
<1>4. KeyedOnce(SF!This)
  BY DEF Sound
<1>5. Sequential' /\ Sound(SF!This)'
  BY <1>1 DEF Sequential
<1>6. Indexed = PairsOf(R) /\ Indexed' = PairsOf(R')
  <2>1. PairsOf(R)' = PairsOf(R')
    BY Zenon DEF PairsOf
  <2> QED
    BY <1>2, <1>3, <1>5, <2>1, EntriesAre
<1>7. ASSUME NEW row, NewKey(SF!This, row.key), R' = R \union {row}
      PROVE  \E e : (\A f \in Indexed : f[1] # e[1]) /\ Indexed' = Indexed \union {e}
  <2>1. /\ PairsOf(R \union {row}) = PairsOf(R) \union {<<row.key, row.len>>}
        /\ \A f \in PairsOf(R) : f[1] # row.key
    BY <1>4, <1>7, PairMore
  <2>2. <<row.key, row.len>>[1] = row.key
    OBVIOUS
  <2> QED
    BY <1>6, <1>7, <2>1, <2>2
<1>8. ASSUME NEW r \in R, R' = R \ {r}
      PROVE  \E e \in Indexed : Indexed' = Indexed \ {e}
  <2>1. <<r.key, r.len>> \in PairsOf(R) /\ PairsOf(R \ {r}) = PairsOf(R) \ {<<r.key, r.len>>}
    BY <1>4, PairLess
  <2> QED
    BY <1>6, <1>8, <2>1
<1> HIDE DEF R
<1>9. R' = R => Indexed' = Indexed
  BY <1>6
<1> QED
  BY <1>1, <1>7, <1>8, <1>9

(* A sequential file by key is a set of rows, one for a key: an insert adds *)
(* its row or, when it is too large, changes nothing; a delete by key takes *)
(* the row of the key out, or there was none; and a reorganization, its own *)
(* or the one a delete starts, loses none (IsKeyIndex for rows by key).     *)
THEOREM KeyedFileIsKeyIndex == Spec /\ kind = "rows by key" => IsKeyIndex
<1> DEFINE H == kind = "rows by key" /\ Sound(SF!This) /\ unique = TRUE
<1>1. Init /\ kind = "rows by key" => H /\ KeyIndexSpec!Init
  <2>1. SUFFICES ASSUME Init, kind = "rows by key" PROVE H /\ KeyIndexSpec!Init
    OBVIOUS
  <2>2. Sequential
    BY <2>1 DEF Sequential
  <2>3. SeqInv /\ Sound(SF!This) /\ RowsIn(SF!This) = {} /\ raised = "nothing"
    BY <2>1, <2>2, KeyedStarts
  <2>4. Indexed = PairsOf({})
    BY <2>2, <2>3, SequentialViews DEF Sound
  <2>5. Indexed = {} /\ unique = TRUE
    BY <2>2, <2>3, <2>4 DEF PairsOf, SeqInv
  <2>6. KeyIndexSpec!Init
    <3>1. (kind \in {"rows by rid", "text", "ivf", "hnsw"}) \in BOOLEAN
      OBVIOUS
    <3> QED
      BY <2>3, <2>5, <3>1 DEF KeyIndexSpec!Init
  <2> QED
    BY <2>1, <2>3, <2>5, <2>6
<1> DEFINE updating == kind \in {"rows by rid", "text", "ivf", "hnsw"}
           view == <<Indexed, unique, updating, raised>>
<1>2. H /\ [Next]_vars => H' /\ [KeyIndexSpec!Next]_view
  <2>1. SUFFICES ASSUME kind = "rows by key", Sound(SF!This), unique = TRUE, [Next]_vars
                 PROVE  H' /\ [KeyIndexSpec!Next]_view
    OBVIOUS
  <2>2. CASE UNCHANGED vars
    <3>1. UNCHANGED <<kind, nodes, root, unique, raised>>
      BY <2>2 DEF vars
    <3>2. SF!This' = SF!This
      BY <3>1 DEF SF!This, SF!File
    <3>3. Sound(SF!This)'
      BY <2>1, <3>2
    <3>4. Sequential
      BY <2>1 DEF Sequential
    <3>5. (Sequential /\ Sound(SF!This) => Indexed = PairsOf(RowsIn(SF!This)))'
      BY EntriesAre, PTL
    <3>6. Sequential'
      BY <3>1, <3>4 DEF Sequential
    <3>7. Indexed = PairsOf(RowsIn(SF!This))
      BY <2>1, <3>4, SequentialViews DEF Sound
    <3>8. Indexed' = PairsOf(RowsIn(SF!This))'
      BY <3>3, <3>5, <3>6
    <3>9. PairsOf(RowsIn(SF!This))' = PairsOf(RowsIn(SF!This))
      BY <3>2
    <3>10. Indexed' = Indexed
      BY <3>7, <3>8, <3>9
    <3> HIDE DEF updating
    <3>11. updating' = updating
      BY <3>1 DEF updating
    <3> QED
      BY <2>1, <3>1, <3>3, <3>10, <3>11
  <2>3. CASE Next
    <3>1. /\ Sound(SF!This)' /\ (kind = "rows by key")' /\ unique' = unique
          /\ \/ raised' \in {"too large", "missing"} /\ Indexed' = Indexed
             \/ raised' = raised /\ Indexed' = Indexed
             \/ raised' = "nothing" /\ \E e : (\A f \in Indexed : f[1] # e[1]) /\ Indexed' = Indexed \union {e}
             \/ raised' = "nothing" /\ \E e \in Indexed : Indexed' = Indexed \ {e}
      BY <2>1, <2>3, KeyedEntries
    <3>2. updating' = updating
      BY <2>1, <3>1
    <3>3. ASSUME ~ (raised' = raised /\ Indexed' = Indexed) PROVE KeyIndexSpec!Next
      <4> DEFINE gone == Indexed \ Indexed'
                 new == Indexed' \ Indexed
      <4>1. \/ KeyIndexSpec!Add(gone, new) \/ KeyIndexSpec!Remove(gone, new) \/ KeyIndexSpec!Fail(gone, new)
        <5>1. CASE raised' \in {"too large", "missing"} /\ Indexed' = Indexed
          <6>1. gone = {} /\ new = {} /\ raised' # "nothing"
            BY <5>1
          <6> QED
            BY <6>1 DEF KeyIndexSpec!Fail
        <5>2. ASSUME raised' = "nothing", NEW e, \A f \in Indexed : f[1] # e[1], Indexed' = Indexed \union {e}
              PROVE  KeyIndexSpec!Add(gone, new)
          <6>1. e \notin Indexed
            BY <5>2
          <6>2. gone = {} /\ new = {e}
            BY <5>2, <6>1
          <6> HIDE DEF gone, new
          <6> QED
            BY <5>2, <6>2 DEF KeyIndexSpec!Add, KeyIndexSpec!NoneOrOne, KeyIndexSpec!NewKeys
        <5>3. ASSUME raised' = "nothing", NEW e \in Indexed, Indexed' = Indexed \ {e}
              PROVE  KeyIndexSpec!Remove(gone, new)
          <6>1. gone = {e} /\ new = {}
            BY <5>3
          <6> HIDE DEF gone, new
          <6> QED
            BY <5>3, <6>1 DEF KeyIndexSpec!Remove, KeyIndexSpec!NoneOrOne
        <5> HIDE DEF gone, new
        <5> QED
          BY <3>1, <3>3, <5>1, <5>2, <5>3
      <4> HIDE DEF updating
      <4> QED
        BY <3>1, <3>2, <4>1 DEF KeyIndexSpec!Next, updating
    <3> HIDE DEF updating
    <3> QED
      BY <2>1, <3>1, <3>2, <3>3
  <2> QED
    BY <2>1, <2>2, <2>3
<1> QED
  BY <1>1, <1>2, PTL DEF Spec, IsKeyIndex, KeyIndexSpec!Spec

-----------------------------------------------------------------------------
(* Pages that begin above the rows of the page before, and below their own. *)
KeysIn(file, p) == {file.pages[p].slots[i].row.key : i \in ValidAt(file.pages[p])}
KeysAbove(file, p) == KeysIn(file, p) \union {file.over.chain[p][i][1] : i \in DOMAIN file.over.chain[p]}
Begins(file, p, low) ==
  /\ low \in KeysIn(file, p)
  /\ \A k \in KeysAbove(file, p - 1) : k < low
  /\ \A k \in KeysAbove(file, p) : low <= k
Regular(file) == \A p \in 2 .. Len(file.pages) : \E low \in KeysIn(file, p) : Begins(file, p, low)

LEMMA KeysAreNat ==
  ASSUME NEW file, FileOK(file), NEW p \in DOMAIN file.pages
  PROVE  KeysAbove(file, p) \subseteq Nat /\ KeysIn(file, p) \subseteq KeysAbove(file, p)
<1>1. file.pages[p] \in PageSet /\ ChainOK(file.over, p)
  BY DEF FileOK
<1>2. \A i \in ValidAt(file.pages[p]) : file.pages[p].slots[i].row.key \in Nat
  BY <1>1, PageTypes DEF ValidAt
<1>3. ASSUME NEW i \in DOMAIN file.over.chain[p] PROVE file.over.chain[p][i][1] \in Nat
  <2>1. file.over.chain[p] \in Seq(EntrySet)
    BY <1>1 DEF ChainOK
  <2>2. file.over.chain[p][i] \in EntrySet
    BY <2>1
  <2> QED
    BY <2>2 DEF EntrySet
<1> QED
  BY <1>2, <1>3 DEF KeysIn, KeysAbove

LEMMA RowKeysAbove ==
  ASSUME NEW file, KeyedOnce(file), NEW p \in DOMAIN file.pages, NEW r \in RowsOf(file, p)
  PROVE  r.key \in KeysAbove(file, p)
<1>1. InSlots(file, p, r) \/ InChain(file, p, r)
  BY RowsAre
<1>2. CASE InSlots(file, p, r)
  BY <1>2 DEF InSlots, KeysAbove, KeysIn
<1>3. CASE InChain(file, p, r)
  <2>1. PICK i \in DOMAIN file.over.chain[p] : r = file.over.rows[file.over.chain[p][i][2]]
    BY <1>3 DEF InChain
  <2>2. r.key = file.over.chain[p][i][1]
    BY <2>1 DEF KeyedOnce
  <2> QED
    BY <2>2 DEF KeysAbove
<1> QED
  BY <1>1, <1>2, <1>3

(* Whatever is in a page, or in its chain, is below what the next ones have.*)
LEMMA PagesUp ==
  ASSUME NEW file, FileOK(file), Regular(file)
  PROVE  \A q \in DOMAIN file.pages : \A p \in DOMAIN file.pages : p < q =>
           \A k \in KeysAbove(file, p), l \in KeysAbove(file, q) : k < l
<1> DEFINE N == Len(file.pages)
           Up(q) == \A p \in 1 .. N : p < q => \A k \in KeysAbove(file, p), l \in KeysAbove(file, q) : k < l
<1>1. N \in Nat /\ DOMAIN file.pages = 1 .. N
  BY DEF FileOK
<1>2. \A p \in 1 .. N : KeysAbove(file, p) \subseteq Nat /\ KeysIn(file, p) \subseteq KeysAbove(file, p)
  BY <1>1, KeysAreNat
<1>3. \A p \in 2 .. N : \E low \in KeysIn(file, p) : Begins(file, p, low)
  BY DEF Regular
<1> DEFINE S == {q \in 0 .. N : q = 0 \/ Up(q)}
<1> HIDE DEF N
<1>4. ASSUME NEW q \in 1 .. N, q = 1 \/ Up(q - 1) PROVE Up(q)
  <2>1. SUFFICES ASSUME NEW p \in 1 .. N, p < q, NEW k \in KeysAbove(file, p), NEW l \in KeysAbove(file, q)
                 PROVE  k < l
    OBVIOUS
  <2>2. q \in 2 .. N /\ q - 1 \in 1 .. N
    BY <1>1, <2>1
  <2>3. PICK low \in KeysIn(file, q) : Begins(file, q, low)
    BY <1>3, <2>2
  <2>4. low <= l /\ \A x \in KeysAbove(file, q - 1) : x < low
    BY <2>3 DEF Begins
  <2>5. k \in Nat /\ l \in Nat /\ low \in Nat
    BY <1>2
  <2>6. CASE p = q - 1
    BY <2>4, <2>5, <2>6
  <2>7. CASE p # q - 1
    <3>1. q - 1 \in 2 .. N /\ p < q - 1
      BY <1>1, <2>1, <2>2, <2>7
    <3>2. PICK mid \in KeysIn(file, q - 1) : Begins(file, q - 1, mid)
      BY <1>3, <3>1
    <3>3. mid \in KeysAbove(file, q - 1) /\ mid \in Nat
      BY <1>2, <2>2, <3>2
    <3>4. k < mid
      BY <1>4, <2>1, <3>1, <3>3
    <3>5. mid < low
      BY <2>4, <3>3
    <3> QED
      BY <2>4, <2>5, <3>3, <3>4, <3>5
  <2> QED
    BY <2>6, <2>7
<1>5. \A q \in 0 .. N : q = 0 \/ Up(q)
  <2> DEFINE P(q) == q = 0 \/ Up(q)
  <2> HIDE DEF Up
  <2>1. \A q \in 1 .. N : P(q - 1) => P(q)
    <3>1. SUFFICES ASSUME NEW q \in 1 .. N, P(q - 1) PROVE P(q)
      OBVIOUS
    <3>2. q = 1 \/ Up(q - 1)
      BY <1>1, <3>1
    <3> QED
      BY <1>4, <3>2
  <2>2. 0 \in S /\ S \subseteq 0 .. N
    BY <1>1
  <2>3. \A q \in 1 .. N : q - 1 \in S => q \in S
    BY <1>1, <2>1
  <2> HIDE DEF S
  <2>4. S = 0 .. N
    BY <1>1, <2>2, <2>3, BoundedInduction
  <2> QED
    BY <2>4 DEF S
<1> QED
  BY <1>1, <1>5

(* What is kept at one position, or at none.                                *)
LEMMA KeptFew ==
  ASSUME NEW X, NEW s \in Seq(X), NEW S \in SUBSET (DOMAIN s)
  PROVE  /\ S = {} => SF!Kept(s, S) = <<>>
         /\ \A i \in S : S = {i} => SF!Kept(s, S) = <<s[i]>>
<1>1. /\ SF!Kept(s, S) \in Seq(X) /\ Len(SF!Kept(s, S)) = Cardinality(S) /\ InOrder(S)
      /\ DOMAIN SF!Kept(s, S) = 1 .. Cardinality(S)
      /\ \A n \in DOMAIN SF!Kept(s, S) : SF!Kept(s, S)[n] = s[SF!Nth(S, n)]
  BY KeptIs
<1> DEFINE t == SF!Kept(s, S)
<1> HIDE DEF t
<1>2. /\ t \in Seq(X) /\ Len(t) = Cardinality(S) /\ DOMAIN t = 1 .. Cardinality(S)
      /\ \A n \in DOMAIN t : t[n] = s[SF!Nth(S, n)]
  BY <1>1 DEF t
<1>3. ASSUME S = {} PROVE t = <<>>
  <2>1. Len(t) = 0
    BY <1>2, <1>3, FS_EmptySet
  <2> QED
    BY <1>2, <2>1
<1>4. ASSUME NEW i \in S, S = {i} PROVE t = <<s[i]>>
  <2>1. Cardinality(S) = 1
    BY <1>4, FS_Singleton
  <2>2. SF!Nth(S, 1) \in S
    BY <1>1, <2>1 DEF InOrder
  <2> DEFINE at == SF!Nth(S, 1)
             c == Cardinality(S)
  <2>3. at = i /\ c = 1
    BY <1>4, <2>1, <2>2
  <2>4. t \in Seq(X) /\ Len(t) = c /\ DOMAIN t = 1 .. c /\ (1 \in DOMAIN t => t[1] = s[at])
    BY <1>2
  <2> HIDE DEF at, c
  <2>5. t \in Seq(X) /\ Len(t) = 1 /\ t[1] = s[i]
    BY <2>3, <2>4
  <2> QED
    BY <2>5
<1> QED
  BY <1>3, <1>4 DEF t

(* The rows with a key in a sequence that has no key twice.                 *)
OfKey(rows, k) == SF!Kept(rows, {i \in DOMAIN rows : rows[i].key = k})
OneOrNone(found, R, k) ==
  /\ (\A r \in R : r.key # k) => found = <<>>
  /\ \A r \in R : r.key = k => found = <<r>>

LEMMA OfKeyIs ==
  ASSUME NEW rows \in Seq(RowSet), KeysOnce(rows), NEW k
  PROVE  OneOrNone(OfKey(rows, k), Elements(rows), k)
<1> DEFINE S == {i \in DOMAIN rows : rows[i].key = k}
<1>1. S \in SUBSET (DOMAIN rows)
  OBVIOUS
<1>2. /\ S = {} => SF!Kept(rows, S) = <<>>
      /\ \A i \in S : S = {i} => SF!Kept(rows, S) = <<rows[i]>>
  BY <1>1, KeptFew
<1>3. OfKey(rows, k) = SF!Kept(rows, S)
  BY Zenon DEF OfKey
<1>4. ASSUME \A r \in Elements(rows) : r.key # k PROVE S = {}
  BY <1>4 DEF Elements
<1>5. ASSUME NEW r \in Elements(rows), r.key = k
      PROVE  \E i \in S : S = {i} /\ r = rows[i]
  <2>1. PICK i \in DOMAIN rows : r = rows[i]
    BY DEF Elements
  <2>2. \A j \in S : j = i
    BY <1>5, <2>1 DEF KeysOnce
  <2> QED
    BY <1>5, <2>1, <2>2
<1> HIDE DEF S
<1> QED
  BY <1>2, <1>3, <1>4, <1>5 DEF OneOrNone

(* ... and what a search in one page of a file finds.                       *)
LEMMA SearchFinds ==
  ASSUME NEW file, FileOK(file), KeyedOnce(file), NEW p \in DOMAIN file.pages, NEW k
  PROVE  OneOrNone(SF!SearchInPage(file, p, k), RowsOf(file, p), k)
<1> DEFINE page == file.pages[p]
           main == SF!Live(page)
           spilled == SF!Spilled(file.over, p)
           S == {i \in DOMAIN spilled : spilled[i].key = k}
           mine == SF!Kept(spilled, S)
           rest == [i \in DOMAIN mine |-> mine[i].row]
           found == SF!SearchInPage(file, p, k)
<1>1. found = OfKey(main, k) \o rest
  BY Zenon DEF SF!SearchInPage, OfKey
<1>2. page \in PageSet /\ SlotsUp(page) /\ ChainOK(file.over, p)
  BY DEF FileOK
<1>3. /\ main \in Seq(RowSet)
      /\ \A n \in DOMAIN main : \E i \in ValidAt(page) : main[n] = page.slots[i].row
      /\ \A i \in ValidAt(page) : \E n \in DOMAIN main : main[n] = page.slots[i].row
      /\ KeysStrictlyUp(main)
  <2>1. \A i, j \in ValidAt(page) : page.slots[i].row.key = page.slots[j].row.key => i = j
    BY SMTT(30) DEF KeyedOnce
  <2> QED
    BY <1>2, <2>1, LiveRows
<1>4. SpilledAre(file.over, p, spilled)
  BY <1>2, SpilledRows
<1>5. Elements(main) = SlotRows(file, p)
  BY <1>3 DEF Elements, SlotRows
<1> HIDE DEF main
<1>6. OneOrNone(OfKey(main, k), SlotRows(file, p), k)
  BY <1>3, <1>5, UpIsOnce, OfKeyIs
<1> HIDE DEF spilled
<1>7. spilled \in Seq(SpilledSet) /\ KeysStrictlyUp(spilled)
  BY <1>4 DEF SpilledAre
<1>8. S \in SUBSET (DOMAIN spilled)
  OBVIOUS
<1>9. /\ S = {} => mine = <<>>
      /\ \A i \in S : S = {i} => mine = <<spilled[i]>>
  BY <1>7, <1>8, KeptFew
<1>10. \A n \in DOMAIN spilled : \E r \in ChainRows(file, p) : spilled[n].row = r /\ r.key = spilled[n].key
  <2>1. SUFFICES ASSUME NEW n \in DOMAIN spilled
                 PROVE  \E r \in ChainRows(file, p) : spilled[n].row = r /\ r.key = spilled[n].key
    OBVIOUS
  <2>2. PICK i \in HeldAt(file.over, p) : spilled[n].key = file.over.chain[p][i][1]
                                           /\ spilled[n].row = file.over.rows[file.over.chain[p][i][2]]
    BY <1>4 DEF SpilledAre
  <2>3. i \in DOMAIN file.over.chain[p]
        /\ file.over.rows[file.over.chain[p][i][2]].key = file.over.chain[p][i][1]
    <3>1. i \in DOMAIN file.over.chain[p]
      BY <2>2 DEF HeldAt
    <3> QED
      BY <3>1 DEF KeyedOnce
  <2> QED
    BY <2>2, <2>3 DEF ChainRows
<1>11. \A r \in ChainRows(file, p) : \E n \in DOMAIN spilled : spilled[n].row = r
  BY <1>4 DEF SpilledAre, ChainRows
<1>12. OneOrNone(rest, ChainRows(file, p), k)
  <2>1. ASSUME \A r \in ChainRows(file, p) : r.key # k PROVE rest = <<>>
    <3>1. S = {}
      BY <1>10, <2>1
    <3>2. mine = <<>>
      BY <1>9, <3>1
    <3> HIDE DEF mine
    <3> QED
      BY <3>2
  <2>2. ASSUME NEW r \in ChainRows(file, p), r.key = k PROVE rest = <<r>>
    <3>1. PICK n \in DOMAIN spilled : spilled[n].row = r
      BY <1>11
    <3>2. spilled[n].key = k
      BY <1>10, <2>2, <3>1
    <3>3. \A i \in S : i = n
      <4>1. SUFFICES ASSUME NEW i \in S PROVE i = n
        OBVIOUS
      <4>2. i \in DOMAIN spilled /\ spilled[i].key = k /\ i \in Nat /\ n \in Nat /\ k \in Nat
        BY <1>7, <3>2, RowKeys
      <4>3. i < n => spilled[i].key < spilled[n].key
        BY <1>7, <4>2 DEF KeysStrictlyUp
      <4>4. n < i => spilled[n].key < spilled[i].key
        BY <1>7, <4>2 DEF KeysStrictlyUp
      <4> QED
        BY <3>2, <4>2, <4>3, <4>4
    <3>4. S = {n}
      BY <3>2, <3>3
    <3>5. mine = <<spilled[n]>>
      BY <1>9, <3>4
    <3> HIDE DEF mine
    <3> QED
      BY <3>1, <3>5
  <2> QED
    BY <2>1, <2>2 DEF OneOrNone
<1>13. \A r \in SlotRows(file, p), t \in ChainRows(file, p) : r.key # t.key
  <2>1. SUFFICES ASSUME NEW r \in SlotRows(file, p), NEW t \in ChainRows(file, p) PROVE r.key # t.key
    OBVIOUS
  <2>2. PICK i \in ValidAt(page) : r = page.slots[i].row
    BY DEF SlotRows
  <2>3. PICK j \in HeldAt(file.over, p) : t = file.over.rows[file.over.chain[p][j][2]]
    BY DEF ChainRows
  <2>4. j \in DOMAIN file.over.chain[p] /\ t.key = file.over.chain[p][j][1]
    BY <2>3 DEF HeldAt, KeyedOnce
  <2> QED
    BY <2>2, <2>4 DEF KeyedOnce
<1> DEFINE first == OfKey(main, k)
<1> HIDE DEF first, rest, found
<1>14. found = first \o rest
  BY <1>1 DEF first
<1>15. ASSUME \A r \in RowsOf(file, p) : r.key # k PROVE found = <<>>
  <2>1. first = <<>> /\ rest = <<>>
    BY <1>6, <1>12, <1>15 DEF OneOrNone, RowsOf, first
  <2> QED
    BY <1>14, <2>1
<1>16. ASSUME NEW r \in RowsOf(file, p), r.key = k PROVE found = <<r>>
  <2>1. CASE r \in SlotRows(file, p)
    <3>1. \A t \in ChainRows(file, p) : t.key # k
      BY <1>13, <1>16, <2>1
    <3>2. first = <<r>> /\ rest = <<>>
      BY <1>6, <1>12, <1>16, <2>1, <3>1 DEF OneOrNone, first
    <3> QED
      BY <1>14, <3>2
  <2>2. CASE r \in ChainRows(file, p)
    <3>1. \A t \in SlotRows(file, p) : t.key # k
      BY <1>13, <1>16, <2>2
    <3>2. first = <<>> /\ rest = <<r>>
      BY <1>6, <1>12, <1>16, <2>2, <3>1 DEF OneOrNone, first
    <3> QED
      BY <1>14, <3>2
  <2> QED
    BY <1>16, <2>1, <2>2 DEF RowsOf
<1> QED
  BY <1>15, <1>16 DEF OneOrNone, found

(* The same for all the rows.                                               *)
LEMMA HeldIs ==
  ASSUME NEW file, FileOK(file), KeyedOnce(file), NEW k
  PROVE  OneOrNone(OfKey(SF!Scan(file), k), RowsIn(file), k)
BY ScanRows, ScanOnce, OfKeyIs

(* A page that has every row with the key gives what the whole file has.    *)
LEMMA PageAnswers ==
  ASSUME NEW file, FileOK(file), KeyedOnce(file), NEW p \in DOMAIN file.pages, NEW k,
         \A r \in RowsIn(file) : r.key = k => r \in RowsOf(file, p)
  PROVE  SF!SearchInPage(file, p, k) = OfKey(SF!Scan(file), k)
<1>1. OneOrNone(SF!SearchInPage(file, p, k), RowsOf(file, p), k)
  BY SearchFinds
<1>2. OneOrNone(OfKey(SF!Scan(file), k), RowsIn(file), k)
  BY HeldIs
<1>3. RowsOf(file, p) \subseteq RowsIn(file)
  BY DEF RowsIn
<1> QED
  BY <1>1, <1>2, <1>3 DEF OneOrNone

(* The smallest row of a page.                                              *)
FirstKey(file, p) == SF!Live(file.pages[p])[1].key

LEMMA FirstIs ==
  ASSUME NEW file, FileOK(file), NEW p \in DOMAIN file.pages, SF!Live(file.pages[p]) # <<>>
  PROVE  FirstKey(file, p) \in KeysIn(file, p) /\ \A k \in KeysIn(file, p) : FirstKey(file, p) <= k
<1> DEFINE page == file.pages[p]
           main == SF!Live(page)
<1>1. page \in PageSet /\ SlotsUp(page)
  BY DEF FileOK
<1>2. /\ main \in Seq(RowSet)
      /\ \A n \in DOMAIN main : \E i \in ValidAt(page) : main[n] = page.slots[i].row
      /\ \A i \in ValidAt(page) : \E n \in DOMAIN main : main[n] = page.slots[i].row
      /\ KeysUp(main)
  BY <1>1, LiveRows
<1>3. FirstKey(file, p) = main[1].key /\ main # <<>>
  BY Zenon DEF FirstKey
<1> HIDE DEF main
<1>4. 1 \in DOMAIN main /\ \A n \in DOMAIN main : n \in Nat /\ 1 <= n
  BY <1>2, <1>3
<1>5. ASSUME NEW i \in ValidAt(page) PROVE main[1].key <= page.slots[i].row.key
  <2>1. PICK n \in DOMAIN main : main[n] = page.slots[i].row
    BY <1>2
  <2>2. main[1].key \in Nat
    BY <1>2, <1>4, RowKeys
  <2> QED
    BY <1>2, <1>4, <2>1, <2>2 DEF KeysUp
<1> QED
  BY <1>2, <1>3, <1>4, <1>5 DEF KeysIn

LEMMA RegularFirst ==
  ASSUME NEW file, FileOK(file), Regular(file), NEW p \in DOMAIN file.pages, p # 1
  PROVE  /\ SF!Live(file.pages[p]) # <<>>
         /\ FirstKey(file, p) \in KeysAbove(file, p)
         /\ \A k \in KeysAbove(file, p) : FirstKey(file, p) <= k
<1>1. file.pages \in Seq(PageSet) /\ file.pages[p] \in PageSet
  BY DEF FileOK
<1>2. p \in 2 .. Len(file.pages)
  BY <1>1
<1>3. PICK low \in KeysIn(file, p) : Begins(file, p, low)
  BY <1>2 DEF Regular
<1>4. SF!Live(file.pages[p]) # <<>>
  <2>1. PICK i \in ValidAt(file.pages[p]) : low = file.pages[p].slots[i].row.key
    BY <1>3 DEF KeysIn
  <2>2. \E n \in DOMAIN SF!Live(file.pages[p]) : SF!Live(file.pages[p])[n] = file.pages[p].slots[i].row
    BY <1>1, LiveRows
  <2> DEFINE main == SF!Live(file.pages[p])
  <2> HIDE DEF main
  <2>3. \E n \in DOMAIN main : TRUE
    BY <2>2 DEF main
  <2>4. main # <<>>
    BY <2>3
  <2> QED
    BY <2>4 DEF main
<1>5. FirstKey(file, p) \in KeysIn(file, p) /\ \A k \in KeysIn(file, p) : FirstKey(file, p) <= k
  BY <1>4, FirstIs
<1>6. KeysAbove(file, p) \subseteq Nat /\ KeysIn(file, p) \subseteq KeysAbove(file, p)
  BY KeysAreNat
<1>7. FirstKey(file, p) <= low /\ \A k \in KeysAbove(file, p) : low <= k
  BY <1>3, <1>5 DEF Begins
<1>8. ASSUME NEW k \in KeysAbove(file, p) PROVE FirstKey(file, p) <= k
  <2>1. k \in Nat /\ low \in Nat /\ FirstKey(file, p) \in Nat
    BY <1>3, <1>5, <1>6
  <2>2. FirstKey(file, p) <= low /\ low <= k
    BY <1>7
  <2> QED
    BY <2>1, <2>2
<1> QED
  BY <1>4, <1>5, <1>6, <1>8

(* The target page of a key has the row with the key, if there is one.      *)
LEMMA TargetHasKey ==
  ASSUME NEW file, FileOK(file), KeyedOnce(file), Regular(file), NEW r \in RowsIn(file)
  PROVE  r \in RowsOf(file, SF!TargetPage(file, r.key))
<1> DEFINE k == r.key
           t == SF!TargetPage(file, k)
           N == Len(file.pages)
<1>1. N \in Nat /\ DOMAIN file.pages = 1 .. N
  BY DEF FileOK
<1>2. /\ t \in DOMAIN file.pages /\ t \in Before(file, k)
      /\ \A q \in Before(file, k) : t <= q
  BY TargetIs
<1>3. PICK q \in DOMAIN file.pages : r \in RowsOf(file, q)
  BY DEF RowsIn
<1>4. k \in KeysAbove(file, q)
  BY <1>3, RowKeysAbove
<1>5. \A p \in DOMAIN file.pages : KeysAbove(file, p) \subseteq Nat
  BY KeysAreNat
<1>6. \A p \in DOMAIN file.pages :
        p < q => \A x \in KeysAbove(file, p), y \in KeysAbove(file, q) : x < y
  BY PagesUp
<1>7. \A p \in DOMAIN file.pages :
        q < p => \A x \in KeysAbove(file, q), y \in KeysAbove(file, p) : x < y
  BY PagesUp
<1>8. k \in Nat
  BY <1>4, <1>5
<1> HIDE DEF t, k
<1>9. ASSUME t < q PROVE FALSE
  <2>1. t + 1 \in DOMAIN file.pages /\ t # N /\ t + 1 # 1
    BY <1>1, <1>2, <1>3, <1>9
  <2>2. /\ SF!Live(file.pages[t + 1]) # <<>>
        /\ FirstKey(file, t + 1) \in KeysAbove(file, t + 1)
        /\ \A x \in KeysAbove(file, t + 1) : FirstKey(file, t + 1) <= x
    BY <2>1, RegularFirst
  <2>3. k < FirstKey(file, t + 1)
    BY <1>2, <2>1, <2>2 DEF Before, FirstKey
  <2>4. FirstKey(file, t + 1) \in Nat
    BY <1>5, <2>1, <2>2
  <2>5. CASE q = t + 1
    BY <1>4, <1>8, <2>2, <2>3, <2>4, <2>5
  <2>6. CASE q # t + 1
    <3>1. t + 1 < q
      BY <1>1, <1>2, <1>3, <1>9, <2>6
    <3>2. FirstKey(file, t + 1) < k
      BY <1>4, <1>6, <2>1, <2>2, <3>1
    <3> QED
      BY <1>8, <2>3, <2>4, <3>2
  <2> QED
    BY <2>5, <2>6
<1>10. ASSUME q < t PROVE FALSE
  <2>1. t - 1 \in DOMAIN file.pages /\ t # 1 /\ t - 1 # N /\ (t - 1) + 1 = t /\ ~ (t <= t - 1)
    BY <1>1, <1>2, <1>3, <1>10
  <2>2. SF!Live(file.pages[t]) # <<>> /\ FirstKey(file, t) \in KeysAbove(file, t)
    BY <1>2, <2>1, RegularFirst
  <2>3. t - 1 \notin Before(file, k)
    BY <1>2, <2>1
  <2>4. ~ (k < FirstKey(file, t))
    BY <2>1, <2>3 DEF Before, FirstKey
  <2>5. k < FirstKey(file, t)
    BY <1>2, <1>4, <1>7, <1>10, <2>2
  <2> QED
    BY <2>4, <2>5
<1>11. t = q
  BY <1>1, <1>2, <1>3, <1>9, <1>10
<1> QED
  BY <1>3, <1>11 DEF t, k

LEMMA SearchIsHeld ==
  ASSUME NEW file, FileOK(file), KeyedOnce(file), Regular(file), NEW k
  PROVE  SF!Search(file, k) = OfKey(SF!Scan(file), k)
<1> DEFINE t == SF!TargetPage(file, k)
<1>1. t \in DOMAIN file.pages
  BY TargetIs
<1>2. \A r \in RowsIn(file) : r.key = k => r \in RowsOf(file, t)
  BY TargetHasKey
<1>3. SF!Search(file, k) = SF!SearchInPage(file, t, k)
  BY Zenon DEF SF!Search
<1> HIDE DEF t
<1> QED
  BY <1>1, <1>2, <1>3, PageAnswers

LEMMA MinimaAre ==
  ASSUME NEW file, FileOK(file)
  PROVE  /\ \A m \in SF!PageMinima(file) :
              m[2] \in DOMAIN file.pages /\ SF!Live(file.pages[m[2]]) # <<>>
                /\ m[1] = FirstKey(file, m[2]) /\ m[1] \in Nat
         /\ \A p \in DOMAIN file.pages :
              SF!Live(file.pages[p]) # <<>> => <<FirstKey(file, p), p>> \in SF!PageMinima(file)
<1> DEFINE Q == {q \in DOMAIN file.pages : SF!Live(file.pages[q]) # <<>>}
<1>1. SF!PageMinima(file) = {<<FirstKey(file, p), p>> : p \in Q}
  BY Zenon DEF SF!PageMinima, FirstKey
<1>2. \A p \in Q : FirstKey(file, p) \in Nat
  BY FirstIs, KeysAreNat
<1>3. \A p \in Q : p \in DOMAIN file.pages /\ SF!Live(file.pages[p]) # <<>>
  OBVIOUS
<1>4. \A p \in DOMAIN file.pages : SF!Live(file.pages[p]) # <<>> => p \in Q
  OBVIOUS
<1> HIDE DEF Q
<1> QED
  BY <1>1, <1>2, <1>3, <1>4

(* The clustered index finds the row, but for a key below every page.       *)
LEMMA ClusteredIs ==
  ASSUME NEW file, FileOK(file), KeyedOnce(file), Regular(file), NEW k \in Nat
  PROVE  SF!ClusteredSearch(file, k) =
           IF SF!PageMinima(file) # {} /\ \A m \in SF!PageMinima(file) : k < m[1]
             THEN <<>> ELSE OfKey(SF!Scan(file), k)
<1> DEFINE minima == SF!PageMinima(file)
           upTo == {m \in minima : m[1] <= k}
           c == CHOOSE m \in upTo : \A n \in upTo : n[1] <= m[1]
           q == c[2]
<1>1. SF!ClusteredSearch(file, k) =
        IF minima = {} THEN SF!Search(file, k)
        ELSE IF upTo = {} THEN <<>>
        ELSE SF!SearchInPage(file, q, k)
  BY Zenon DEF SF!ClusteredSearch
<1>2. \A m \in minima : m[2] \in DOMAIN file.pages /\ SF!Live(file.pages[m[2]]) # <<>>
                          /\ m[1] = FirstKey(file, m[2]) /\ m[1] \in Nat
  BY MinimaAre
<1>3. \A p \in DOMAIN file.pages : SF!Live(file.pages[p]) # <<>> => <<FirstKey(file, p), p>> \in minima
  BY MinimaAre
<1> HIDE DEF minima
<1>4. upTo = {} <=> \A m \in minima : k < m[1]
  BY <1>2
<1>5. SF!Search(file, k) = OfKey(SF!Scan(file), k)
  BY SearchIsHeld
<1>6. ASSUME upTo # {} PROVE SF!SearchInPage(file, q, k) = OfKey(SF!Scan(file), k)
  <2>1. c \in upTo /\ \A n \in upTo : n[1] <= c[1]
    <3> DEFINE T == {k - m[1] : m \in upTo}
    <3>1. T \subseteq Nat /\ T # {}
      <4>1. \A m \in upTo : m[1] \in Nat /\ m[1] <= k
        BY <1>2
      <4>2. \A m \in upTo : k - m[1] \in Nat
        BY <4>1
      <4>3. PICK m \in upTo : TRUE
        BY <1>6
      <4> HIDE DEF upTo
      <4> QED
        BY <4>2, <4>3
    <3> HIDE DEF T
    <3>2. PICK x \in T : \A y \in T : x <= y
      BY <3>1, LeastNat
    <3>3. PICK m \in upTo : x = k - m[1]
      BY <3>2 DEF T
    <3>4. \A n \in upTo : n[1] <= m[1]
      <4>1. SUFFICES ASSUME NEW n \in upTo PROVE n[1] <= m[1]
        OBVIOUS
      <4>2. k - n[1] \in T
        BY DEF T
      <4>3. n[1] \in Nat /\ m[1] \in Nat /\ k - m[1] <= k - n[1]
        BY <1>2, <3>2, <3>3, <4>2
      <4> QED
        BY <4>3
    <3> QED
      BY <3>3, <3>4
  <2> HIDE DEF c
  <2>2. q \in DOMAIN file.pages /\ SF!Live(file.pages[q]) # <<>> /\ c[1] = FirstKey(file, q) /\ c[1] \in Nat /\ c[1] <= k
    BY <1>2, <2>1
  <2> HIDE DEF q, upTo
  <2>3. ASSUME NEW r \in RowsIn(file), r.key = k PROVE r \in RowsOf(file, q)
    <3>1. PICK p \in DOMAIN file.pages : r \in RowsOf(file, p)
      BY DEF RowsIn
    <3>2. k \in KeysAbove(file, p)
      BY <2>3, <3>1, RowKeysAbove
    <3>3. FirstKey(file, q) \in KeysAbove(file, q)
      BY <2>2, FirstIs, KeysAreNat
    <3>4. ASSUME p < q PROVE FALSE
      <4>1. k < FirstKey(file, q)
        BY <2>2, <3>2, <3>3, <3>4, PagesUp
      <4> QED
        BY <2>2, <4>1
    <3>5. ASSUME q < p PROVE FALSE
      <4>1. p # 1
        BY <2>2, <3>5 DEF FileOK
      <4>2. SF!Live(file.pages[p]) # <<>> /\ FirstKey(file, p) \in KeysAbove(file, p) /\ FirstKey(file, p) <= k
        BY <3>2, <4>1, RegularFirst
      <4>3. <<FirstKey(file, p), p>> \in upTo
        BY <1>3, <4>2 DEF upTo
      <4>4. FirstKey(file, p) <= FirstKey(file, q)
        BY <2>1, <2>2, <4>3
      <4>5. FirstKey(file, q) < FirstKey(file, p)
        BY <2>2, <3>3, <3>5, <4>2, PagesUp
      <4>6. FirstKey(file, q) \in Nat /\ FirstKey(file, p) \in Nat
        BY <2>2, <3>3, <4>2, KeysAreNat
      <4> QED
        BY <4>4, <4>5, <4>6
    <3>6. p \in Nat /\ q \in Nat
      BY <2>2 DEF FileOK
    <3> QED
      BY <3>1, <3>4, <3>5, <3>6
  <2> QED
    BY <2>2, <2>3, PageAnswers
<1> HIDE DEF upTo, q
<1> QED
  BY <1>1, <1>4, <1>5, <1>6 DEF minima

(* The rows of a regular file come in key order.                            *)
LEMMA ScanInOrder ==
  ASSUME NEW file, FileOK(file), KeyedOnce(file), Regular(file)
  PROVE  KeysStrictlyUp(SF!Scan(file))
<1>1. ASSUME NEW p \in DOMAIN file.pages, NEW q \in DOMAIN file.pages, p < q,
             NEW r \in RowsOf(file, p), NEW t \in RowsOf(file, q)
      PROVE  r.key < t.key
  BY <1>1, RowKeysAbove, PagesUp
<1> QED
  BY <1>1, ScanUp

(* The slots of every page and the entries of every chain are in key order  *)
(* whatever is done to the file, by key or by RID; and a file by key in     *)
(* which every page begins above the rows before it gives every row once in *)
(* order, and the one of a key to a search (PagesInOrder).                  *)
THEOREM PagesAlwaysInOrder == Spec => []PagesInOrder
<1>1. SeqInv => PagesInOrder
  <2>1. SUFFICES ASSUME SeqInv, Sequential PROVE PagesInOrder
    BY DEF PagesInOrder
  <2> DEFINE file == SF!This
             Keys(p) == {row.key : row \in ToSet(SF!Live(nodes[p]))}
             Above(p) == Keys(p) \union {c[1] : c \in ToSet(root.chain[p])}
             all == SF!Scan(SF!This)
             regular == \A p \in 2 .. Len(nodes) :
                          \E low \in Keys(p) : (\A k \in Above(p - 1) : k < low) /\ (\A k \in Above(p) : low <= k)
             held(k) == SF!Kept(all, {i \in DOMAIN all : all[i].key = k})
             minima == SF!PageMinima(SF!This)
             below(k) == minima # {} /\ \A m \in minima : k < m[1]
  <2>2. FileOK(file) /\ file.pages = nodes /\ file.over = root
    BY <2>1, ThisIs DEF SeqInv
  <2>3. \A p \in DOMAIN nodes :
          /\ nodes[p] \in PageSet /\ SlotsUp(nodes[p])
          /\ root.chain[p] \in Seq(EntrySet) /\ ChainUp(root.chain[p])
    BY <2>2 DEF FileOK, ChainOK
  <2>4. ASSUME NEW p \in DOMAIN nodes
        PROVE  /\ \A i, j \in DOMAIN SF!Live(nodes[p]) : i < j => SF!Live(nodes[p])[i].key <= SF!Live(nodes[p])[j].key
               /\ \A i, j \in DOMAIN root.chain[p] : i < j => root.chain[p][i][1] < root.chain[p][j][1]
    <3>1. KeysUp(SF!Live(nodes[p]))
      BY <2>3, LiveRows
    <3> QED
      BY <2>3, <3>1, Zenon DEF KeysUp, ChainUp
  <2>5. ASSUME NEW p \in DOMAIN nodes
        PROVE  Keys(p) = KeysIn(file, p) /\ Above(p) = KeysAbove(file, p)
    <3> DEFINE main == SF!Live(nodes[p])
               chain == root.chain[p]
    <3>1. /\ \A n \in DOMAIN main : \E i \in ValidAt(nodes[p]) : main[n] = nodes[p].slots[i].row
          /\ \A i \in ValidAt(nodes[p]) : \E n \in DOMAIN main : main[n] = nodes[p].slots[i].row
      BY <2>3, LiveRows
    <3>2. ToSet(main) = {main[n] : n \in DOMAIN main} /\ ToSet(chain) = {chain[i] : i \in DOMAIN chain}
      BY Zenon DEF ToSet
    <3>3. Keys(p) = {row.key : row \in ToSet(main)}
      BY Zenon
    <3>4. Above(p) = Keys(p) \union {c[1] : c \in ToSet(chain)}
      BY Zenon
    <3> HIDE DEF main, chain, Keys, Above
    <3>5. Keys(p) = {nodes[p].slots[i].row.key : i \in ValidAt(nodes[p])}
      BY <3>1, <3>2, <3>3
    <3>6. {c[1] : c \in ToSet(chain)} = {chain[i][1] : i \in DOMAIN chain}
      BY <3>2
    <3> QED
      BY <2>2, <3>4, <3>5, <3>6 DEF KeysIn, KeysAbove, chain
  <2>6. ASSUME kind = "rows by key", regular
        PROVE  /\ \A i, j \in DOMAIN all : i < j => all[i].key < all[j].key
               /\ \A k \in {e[1] : e \in Row} :
                    /\ SF!Search(SF!This, k) = held(k)
                    /\ SF!ClusteredSearch(SF!This, k) = IF below(k) THEN <<>> ELSE held(k)
    <3>1. FileOK(file) /\ KeyedOnce(file)
      BY <2>1, <2>6 DEF SeqInv, Sound
    <3>2. DOMAIN nodes = 1 .. Len(nodes) /\ Len(nodes) \in Nat
      BY <2>2 DEF FileOK
    <3> HIDE DEF file, Keys, Above
    <3>3. Regular(file)
      <4>1. SUFFICES ASSUME NEW p \in 2 .. Len(nodes) PROVE \E low \in KeysIn(file, p) : Begins(file, p, low)
        BY <2>2 DEF Regular
      <4>2. p \in DOMAIN nodes /\ p - 1 \in DOMAIN nodes
        BY <3>2
      <4>3. /\ Keys(p) = KeysIn(file, p) /\ Above(p) = KeysAbove(file, p)
            /\ Above(p - 1) = KeysAbove(file, p - 1)
        BY <2>5, <4>2
      <4>4. PICK low \in Keys(p) : (\A k \in Above(p - 1) : k < low) /\ (\A k \in Above(p) : low <= k)
        BY <2>6
      <4> QED
        BY <4>3, <4>4 DEF Begins
    <3>4. KeysStrictlyUp(SF!Scan(file))
      BY <3>1, <3>3, ScanInOrder
    <3>5. \A k \in {e[1] : e \in Row} : k \in Nat
      <4>1. Row = KeyedRow
        BY <2>1, <2>6, SequentialViews
      <4> QED
        BY <4>1, RowsAssumption
    <3>6. ASSUME NEW k \in Nat
          PROVE  /\ SF!Search(file, k) = OfKey(SF!Scan(file), k)
                 /\ SF!ClusteredSearch(file, k) =
                      IF SF!PageMinima(file) # {} /\ \A m \in SF!PageMinima(file) : k < m[1]
                        THEN <<>> ELSE OfKey(SF!Scan(file), k)
      BY <3>1, <3>3, SearchIsHeld, ClusteredIs
    <3>7. \A k : held(k) = OfKey(SF!Scan(file), k)
      BY Zenon DEF OfKey, file
    <3>8. all = SF!Scan(file) /\ minima = SF!PageMinima(file)
      BY Zenon DEF file
    <3>9. \A i, j \in DOMAIN all : i < j => all[i].key < all[j].key
      BY <3>4, <3>8, Zenon DEF KeysStrictlyUp
    <3> HIDE DEF all, minima, held
    <3>10. ASSUME NEW k \in {e[1] : e \in Row}
           PROVE  /\ SF!Search(file, k) = held(k)
                  /\ SF!ClusteredSearch(file, k) = IF below(k) THEN <<>> ELSE held(k)
      <4>1. k \in Nat
        BY <3>5
      <4>2. /\ SF!Search(file, k) = held(k)
            /\ SF!ClusteredSearch(file, k) =
                 IF minima # {} /\ \A m \in minima : k < m[1] THEN <<>> ELSE held(k)
        BY <3>6, <3>7, <3>8, <4>1
      <4> QED
        BY <4>2, Zenon
    <3> QED
      BY <3>9, <3>10, Zenon DEF file
  <2> HIDE DEF all, regular, held, below
  <2> QED
    BY <2>1, <2>4, <2>6, Zenon DEF PagesInOrder, all, regular, held, below
<1> QED
  BY <1>1, SeqInvHolds, PTL
=============================================================================
