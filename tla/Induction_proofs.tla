-------------------------- MODULE Induction_proofs --------------------------
(***************************************************************************)
(* Induction over the naturals in a form that needs no operator parameter: *)
(* what is to hold of every number is given as the set of the numbers it   *)
(* holds of.  From it: functions defined by recursion exist, and what a    *)
(* recursion that follows pointers reaches (Visited of HeapFile, Chain of  *)
(* HeapSlots).                                                             *)
(***************************************************************************)
EXTENDS Integers, Sequences, FiniteSets, TLAPS, WellFoundedInduction, NaturalsInduction, FiniteSetTheorems

(* A set of naturals that is not empty has a least element.                *)
LEMMA LeastNat ==
  ASSUME NEW T, T \subseteq Nat, T # {}
  PROVE  \E x \in T : \A y \in T : x <= y
<1> DEFINE R == {ss \in Nat \X Nat : ss[1] < ss[2]}
<1>1. OpToRel(<, Nat) = R
  BY Zenon DEF OpToRel
<1>2. \E x \in T : \A y \in T : ~ (<<y, x>> \in OpToRel(<, Nat))
  BY NatLessThanWellFounded, WFMin
<1>3. PICK x \in T : \A y \in T : <<y, x>> \notin R
  BY <1>1, <1>2, Zenon
<1>4. ASSUME NEW y \in T PROVE x <= y
  <2>1. /\ x \in Nat /\ y \in Nat
        /\ <<y, x>> \in Nat \X Nat
        /\ <<y, x>>[1] = y /\ <<y, x>>[2] = x
    OBVIOUS
  <2>2. ~ (<<y, x>>[1] < <<y, x>>[2])
    BY <1>3, <2>1, Zenon
  <2> QED
    BY <2>1, <2>2
<1> QED
  BY <1>4

(* Induction: a set with 0, and with each number the next, has all naturals.*)
LEMMA NatSetInduction ==
  ASSUME NEW S, 0 \in S, \A n \in Nat : n \in S => n + 1 \in S
  PROVE  Nat \subseteq S
<1> SUFFICES ASSUME Nat \ S # {} PROVE FALSE
  OBVIOUS
<1>1. PICK x \in Nat \ S : \A y \in Nat \ S : x <= y
  BY LeastNat
<1>2. x # 0 /\ x - 1 \in Nat
  BY <1>1
<1>3. x - 1 \in S
  BY <1>1, <1>2
<1> QED
  BY <1>1, <1>2, <1>3

(* ... and up to a bound.                                                  *)
LEMMA BoundedInduction ==
  ASSUME NEW N \in Nat, NEW S, 0 \in S, \A n \in 1 .. N : n - 1 \in S => n \in S
  PROVE  0 .. N \subseteq S
<1> DEFINE T == {n \in Nat : n <= N => n \in S}
<1>1. 0 \in T
  OBVIOUS
<1>2. ASSUME NEW n \in Nat, n \in T PROVE n + 1 \in T
  <2>1. CASE n + 1 <= N
    <3>1. n \in S /\ n + 1 \in 1 .. N /\ (n + 1) - 1 = n
      BY <1>2, <2>1
    <3> QED
      BY <3>1
  <2>2. CASE ~ (n + 1 <= N)
    BY <2>2
  <2> QED
    BY <2>1, <2>2
<1>3. Nat \subseteq T
  <2> HIDE DEF T
  <2> QED BY <1>1, <1>2, NatSetInduction
<1> QED
  BY <1>3

(* The n numbers from a on.                                                *)
LEMMA IntervalSize ==
  ASSUME NEW a \in Nat, NEW n \in Nat
  PROVE  IsFiniteSet(a .. a + n - 1) /\ Cardinality(a .. a + n - 1) = n
<1> DEFINE b == a + n - 1
<1>1. b \in Int /\ a \in Int
  OBVIOUS
<1>2. (a > b => n = 0) /\ (~ (a > b) => b - a + 1 = n)
  OBVIOUS
<1> HIDE DEF b
<1>3. IsFiniteSet(a .. b) /\ Cardinality(a .. b) = IF a > b THEN 0 ELSE b - a + 1
  BY <1>1, FS_Interval, Zenon
<1>4. Cardinality(a .. b) = n
  BY <1>2, <1>3
<1> QED
  BY <1>3, <1>4 DEF b

-----------------------------------------------------------------------------
(* A function that starts with d and then takes step n of the table step.   *)
IsTable(step, N, D) == N \in Nat /\ step \in [1 .. N -> [D -> D]]
Iterates(f, d, step, N, D) ==
  f \in [0 .. N -> D] /\ f[0] = d /\ \A n \in 1 .. N : f[n] = step[n][f[n - 1]]

(* It exists.                                                               *)
LEMMA IterationExists ==
  ASSUME NEW D, NEW d \in D, NEW N, NEW step, IsTable(step, N, D)
  PROVE  \E f : Iterates(f, d, step, N, D)
<1>0. N \in Nat /\ step \in [1 .. N -> [D -> D]]
  BY DEF IsTable
<1> DEFINE Good(f, m) == /\ f \in [0 .. m -> D]
                         /\ f[0] = d
                         /\ \A n \in 1 .. m : f[n] = step[n][f[n - 1]]
           S == {m \in 0 .. N : \E f \in [0 .. m -> D] : Good(f, m)}
<1>1. 0 \in S
  <2> DEFINE g == [n \in 0 .. 0 |-> d]
  <2>1. g \in [0 .. 0 -> D] /\ Good(g, 0) /\ 0 \in 0 .. N
    BY <1>0
  <2> HIDE DEF g, Good
  <2> QED
    BY <2>1
<1>2. ASSUME NEW m \in 1 .. N, m - 1 \in S PROVE m \in S
  <2>1. PICK f \in [0 .. m - 1 -> D] : Good(f, m - 1)
    BY <1>2
  <2> DEFINE g == [n \in 0 .. m |-> IF n = m THEN step[m][f[m - 1]] ELSE f[n]]
  <2>2. f[m - 1] \in D /\ step[m] \in [D -> D]
    BY <1>0, <2>1
  <2>3. step[m][f[m - 1]] \in D
    BY <2>2
  <2>4. g \in [0 .. m -> D]
    BY <2>1, <2>3
  <2>5. g[0] = d
    BY <2>1
  <2>6. ASSUME NEW n \in 1 .. m PROVE g[n] = step[n][g[n - 1]]
    BY <2>1
  <2> HIDE DEF g
  <2>7. Good(g, m) /\ m \in 0 .. N
    BY <2>4, <2>5, <2>6
  <2> HIDE DEF Good
  <2> QED
    BY <2>4, <2>7
<1>3. N \in S
  <2> HIDE DEF S
  <2>1. 0 .. N \subseteq S
    BY <1>0, <1>1, <1>2, BoundedInduction
  <2> QED
    BY <1>0, <2>1
<1>4. PICK f \in [0 .. N -> D] : Good(f, N)
  BY <1>3
<1> QED
  BY <1>4 DEF Iterates

-----------------------------------------------------------------------------
(* Following pointers: the slots F of U hold the pointers p.                *)

(* What has been met after n steps from r.                                  *)
IsFollowing(f, r, F, p, N) ==
  f = [n \in 0 .. N |-> IF n = 0 THEN {r} ELSE f[n - 1] \cup {p[x] : x \in f[n - 1] \cap F}]

(* There is such a function: the recursion defines something.               *)
LEMMA FollowingExists ==
  ASSUME NEW U, NEW r \in U, NEW F \in SUBSET U, NEW p \in [F -> U], NEW N \in Nat
  PROVE  \E f \in [0 .. N -> SUBSET U] : IsFollowing(f, r, F, p, N)
<1> DEFINE onward == [met \in SUBSET U |-> met \cup {p[x] : x \in met \cap F}]
           step == [n \in 1 .. N |-> onward]
<1>1. onward \in [SUBSET U -> SUBSET U]
  <2>1. ASSUME NEW met \in SUBSET U PROVE met \cup {p[x] : x \in met \cap F} \in SUBSET U
    OBVIOUS
  <2> QED
    BY <2>1
<1>2. step \in [1 .. N -> [SUBSET U -> SUBSET U]]
  <2> HIDE DEF onward
  <2> QED
    BY <1>1
<1>3. PICK f \in [0 .. N -> SUBSET U] : f[0] = {r} /\ \A n \in 1 .. N : f[n] = step[n][f[n - 1]]
  <2> HIDE DEF step
  <2>1. IsTable(step, N, SUBSET U)
    BY <1>2 DEF IsTable
  <2>2. {r} \in SUBSET U
    OBVIOUS
  <2>3. \E f : Iterates(f, {r}, step, N, SUBSET U)
    BY <2>1, <2>2, IterationExists, Zenon
  <2> QED
    BY <2>3 DEF Iterates
<1>4. ASSUME NEW n \in 0 .. N, n # 0
      PROVE  f[n] = f[n - 1] \cup {p[x] : x \in f[n - 1] \cap F}
  <2>1. n - 1 \in 0 .. N /\ n \in 1 .. N
    BY <1>4
  <2>2. f[n - 1] \in SUBSET U
    BY <2>1
  <2>3. f[n] = step[n][f[n - 1]]
    BY <1>3, <2>1
  <2>4. step[n] = onward
    BY <2>1, Zenon
  <2>5. onward[f[n - 1]] = f[n - 1] \cup {p[x] : x \in f[n - 1] \cap F}
    BY <2>2, Zenon
  <2> QED
    BY <2>3, <2>4, <2>5, Zenon
<1>5. f[0] = {r}
  BY <1>3
<1>6. \A n \in 0 .. N : f[n] = IF n = 0 THEN {r} ELSE f[n - 1] \cup {p[x] : x \in f[n - 1] \cap F}
  BY <1>4, <1>5, Zenon
<1>7. f = [n \in 0 .. N |-> f[n]]
  OBVIOUS
<1>8. IsFollowing(f, r, F, p, N)
  BY <1>6, <1>7, Zenon DEF IsFollowing
<1> QED
  BY <1>8

(* The slots met from r on: a set with r in it that contains, with a slot   *)
(* that holds a pointer, the slot it points to; every other such set is     *)
(* larger; and the pointers make one path of it, with one end at most.      *)
IsReach(R, r, U, F, p) ==
  /\ R \in SUBSET U
  /\ r \in R
  /\ \A x \in R \cap F : p[x] \in R
  /\ \A C : r \in C /\ (\A x \in C \cap F : p[x] \in C) => R \subseteq C
  /\ \A x, y \in R \ F : x = y

(* The pointers of a finite U are followed to the end in as many steps as U *)
(* has members.                                                             *)
THEOREM FollowingReaches ==
  ASSUME NEW U, IsFiniteSet(U), NEW r \in U, NEW F \in SUBSET U, NEW p \in [F -> U],
         NEW N \in Nat, N >= Cardinality(U),
         NEW f, IsFollowing(f, r, F, p, N)
  PROVE  IsReach(f[N], r, U, F, p)
<1>1. /\ f[0] = {r}
      /\ \A n \in 1 .. N : f[n] = f[n - 1] \cup {p[x] : x \in f[n - 1] \cap F}
  <2>1. 0 \in 0 .. N /\ \A n \in 1 .. N : n \in 0 .. N /\ n # 0
    OBVIOUS
  <2>2. \A n \in 0 .. N : f[n] = IF n = 0 THEN {r} ELSE f[n - 1] \cup {p[x] : x \in f[n - 1] \cap F}
    BY Zenon DEF IsFollowing
  <2> QED
    BY <2>1, <2>2, Zenon
<1>2. ASSUME NEW C, r \in C, \A x \in C \cap F : p[x] \in C
      PROVE  \A n \in 0 .. N : f[n] \subseteq C
  <2> DEFINE S == {n \in 0 .. N : f[n] \subseteq C}
  <2>1. 0 \in S
    BY <1>1, <1>2
  <2>2. ASSUME NEW n \in 1 .. N, n - 1 \in S PROVE n \in S
    BY <1>1, <1>2, <2>2
  <2> HIDE DEF S
  <2>3. 0 .. N \subseteq S
    BY <2>1, <2>2, BoundedInduction
  <2> QED
    BY <2>3 DEF S
<1>3. \A n \in 0 .. N : f[n] \subseteq U
  BY <1>2
<1>4. \A n \in 0 .. N : r \in f[n]
  <2> DEFINE S == {n \in 0 .. N : r \in f[n]}
  <2>1. 0 \in S
    BY <1>1
  <2>2. ASSUME NEW n \in 1 .. N, n - 1 \in S PROVE n \in S
    BY <1>1, <2>2
  <2> HIDE DEF S
  <2>3. 0 .. N \subseteq S
    BY <2>1, <2>2, BoundedInduction
  <2> QED
    BY <2>3 DEF S
<1> DEFINE Closed(n) == \A x \in f[n] \cap F : p[x] \in f[n]
           Inner(n) == {x \in f[n] : x \in F /\ p[x] \in f[n]}
<1>5. \A n \in 0 .. N : Closed(n) \/ Cardinality(f[n]) >= n + 1
  <2> DEFINE S == {n \in 0 .. N : Closed(n) \/ Cardinality(f[n]) >= n + 1}
  <2>1. 0 \in S
    <3>1. Cardinality(f[0]) = 1
      BY <1>1, FS_Singleton
    <3> QED
      BY <3>1
  <2>2. ASSUME NEW n \in 1 .. N, n - 1 \in S PROVE n \in S
    <3>1. n - 1 \in 0 .. N /\ f[n] = f[n - 1] \cup {p[x] : x \in f[n - 1] \cap F}
      BY <1>1
    <3>2. CASE Closed(n - 1)
      <4>1. f[n] = f[n - 1]
        BY <3>1, <3>2
      <4> QED
        BY <3>2, <4>1
    <3>3. CASE ~ Closed(n - 1)
      <4>1. PICK x \in f[n - 1] \cap F : p[x] \notin f[n - 1]
        BY <3>3
      <4>2. IsFiniteSet(f[n]) /\ IsFiniteSet(f[n - 1])
        BY <1>3, <3>1, FS_Subset
      <4>3. /\ IsFiniteSet(f[n - 1] \cup {p[x]})
            /\ Cardinality(f[n - 1] \cup {p[x]}) = Cardinality(f[n - 1]) + 1
        BY <4>1, <4>2, FS_AddElement
      <4>4. Cardinality(f[n - 1] \cup {p[x]}) <= Cardinality(f[n])
        <5>1. f[n - 1] \cup {p[x]} \in SUBSET f[n]
          BY <3>1, <4>1
        <5> QED
          BY <5>1, <4>2, FS_Subset
      <4>5. Cardinality(f[n - 1]) >= (n - 1) + 1
        BY <2>2, <3>3
      <4>6. Cardinality(f[n]) \in Nat /\ Cardinality(f[n - 1]) \in Nat
        BY <4>2, FS_CardinalityType
      <4> QED
        BY <4>3, <4>4, <4>5, <4>6
    <3> QED
      BY <3>2, <3>3
  <2> HIDE DEF S
  <2>3. 0 .. N \subseteq S
    BY <2>1, <2>2, BoundedInduction
  <2> QED
    BY <2>3 DEF S
<1>6. Closed(N)
  <2>1. Cardinality(f[N]) <= Cardinality(U) /\ Cardinality(f[N]) \in Nat /\ Cardinality(U) \in Nat
    BY <1>3, FS_Subset, FS_CardinalityType
  <2>2. ~ (Cardinality(f[N]) >= N + 1)
    BY <2>1
  <2> QED
    BY <1>5, <2>2
<1>7. \A n \in 0 .. N : \A x, y \in f[n] \ Inner(n) : x = y
  <2> DEFINE S == {n \in 0 .. N : \A x, y \in f[n] \ Inner(n) : x = y}
  <2>1. 0 \in S
    BY <1>1
  <2>2. ASSUME NEW n \in 1 .. N, n - 1 \in S PROVE n \in S
    <3>1. n - 1 \in 0 .. N /\ f[n] = f[n - 1] \cup {p[x] : x \in f[n - 1] \cap F}
      BY <1>1
    <3>2. \A x, y \in f[n - 1] \ Inner(n - 1) : x = y
      BY <2>2
    <3>3. Inner(n - 1) \subseteq Inner(n)
      BY <3>1
    <3>4. ASSUME NEW x \in f[n] \ Inner(n), NEW y \in f[n] \ Inner(n), x # y
          PROVE  FALSE
      <4>1. \A z \in f[n] \ f[n - 1] : \E u \in f[n - 1] \ Inner(n - 1) : u \in F /\ z = p[u]
        BY <3>1
      <4>2. \A z \in f[n - 1] \cap F : z \in Inner(n)
        BY <3>1
      <4>3. \A z \in f[n - 1] \ Inner(n) : z \notin F /\ z \notin Inner(n - 1)
        BY <3>3, <4>2
      <4> HIDE DEF Inner
      <4> QED
        BY <3>1, <3>2, <3>3, <3>4, <4>1, <4>2, <4>3
    <3> QED
      BY <3>4
  <2> HIDE DEF S
  <2>3. 0 .. N \subseteq S
    BY <2>1, <2>2, BoundedInduction
  <2> QED
    BY <2>3 DEF S
<1>8. \A x, y \in f[N] \ F : x = y
  BY <1>7
<1>9. N \in 0 .. N
  OBVIOUS
<1> QED
  BY <1>2, <1>3, <1>4, <1>6, <1>8, <1>9 DEF IsReach

(* Where what a slot of R holds is itself a slot, it is a pointer.          *)
Forwarding(h, R) == {x \in R : h[x] \in R}
Leading(h, R) == [x \in Forwarding(h, R) |-> h[x]]

(* The recursion of Chain (HeapSlots).                                      *)
Following(h, R, r) ==
  LET after[n \in 0 .. Cardinality(R)] ==
        IF n = 0 THEN {r}
        ELSE LET met == after[n - 1] IN met \cup {h[x] : x \in {y \in met : h[y] \in R}}
  IN after[Cardinality(R)]

LEMMA FollowingIs ==
  ASSUME NEW R, IsFiniteSet(R), NEW h, NEW r \in R
  PROVE  IsReach(Following(h, R, r), r, R, Forwarding(h, R), Leading(h, R))
<1> DEFINE F == Forwarding(h, R)
           p == Leading(h, R)
           N == Cardinality(R)
           Onward(met) == met \cup {h[x] : x \in {y \in met : h[y] \in R}}
           after[n \in 0 .. N] ==
             IF n = 0 THEN {r} ELSE LET met == after[n - 1] IN met \cup {h[x] : x \in {y \in met : h[y] \in R}}
<1>1. N \in Nat
  BY FS_CardinalityType
<1>2. F \in SUBSET R /\ p \in [F -> R] /\ \A x \in F : p[x] = h[x]
  BY DEF Forwarding, Leading
<1>3. \A met \in SUBSET R : Onward(met) = met \cup {p[x] : x \in met \cap F}
  <2>1. ASSUME NEW met \in SUBSET R PROVE {y \in met : h[y] \in R} = met \cap F
    BY DEF Forwarding
  <2> QED
    BY <1>2, <2>1
<1>4. Following(h, R, r) = after[N]
  BY DEF Following
<1> HIDE DEF F, p, N
<1>6. PICK f \in [0 .. N -> SUBSET R] : IsFollowing(f, r, F, p, N)
  BY <1>1, <1>2, FollowingExists
<1>7. f = [n \in 0 .. N |->
             IF n = 0 THEN {r} ELSE LET met == f[n - 1] IN met \cup {h[x] : x \in {y \in met : h[y] \in R}}]
  <2>1. \A n \in 0 .. N : f[n] = IF n = 0 THEN {r} ELSE f[n - 1] \cup {p[x] : x \in f[n - 1] \cap F}
    BY <1>6, Zenon DEF IsFollowing
  <2>2. \A n \in 0 .. N : n # 0 => f[n - 1] \in SUBSET R
    BY <1>1, <1>6
  <2> HIDE DEF Onward
  <2>3. \A n \in 0 .. N : f[n] = IF n = 0 THEN {r} ELSE Onward(f[n - 1])
    BY <1>3, <2>1, <2>2, Zenon
  <2>4. f = [n \in 0 .. N |-> f[n]]
    BY <1>6
  <2>5. f = [n \in 0 .. N |-> IF n = 0 THEN {r} ELSE Onward(f[n - 1])]
    BY <2>3, <2>4, Zenon
  <2> QED
    BY <2>5, Zenon DEF Onward
<1>8. after = [n \in 0 .. N |->
                 IF n = 0 THEN {r} ELSE LET met == after[n - 1] IN met \cup {h[x] : x \in {y \in met : h[y] \in R}}]
  BY <1>7, Zenon
<1> HIDE DEF after
<1>9. \A n \in 0 .. N : after[n] = IF n = 0 THEN {r} ELSE Onward(after[n - 1])
  BY <1>8, Zenon
<1> HIDE DEF Onward
<1>10. \A n \in 0 .. N : after[n] \in SUBSET R
  <2> DEFINE S == {n \in 0 .. N : after[n] \in SUBSET R}
  <2>1. 0 \in S
    BY <1>1, <1>9
  <2>2. ASSUME NEW n \in 1 .. N, n - 1 \in S PROVE n \in S
    <3>1. n \in 0 .. N /\ n # 0 /\ n - 1 \in 0 .. N /\ after[n - 1] \in SUBSET R
      BY <1>1, <2>2
    <3>2. after[n] = after[n - 1] \cup {p[x] : x \in after[n - 1] \cap F}
      BY <1>3, <1>9, <3>1, Zenon
    <3>3. {p[x] : x \in after[n - 1] \cap F} \in SUBSET R
      BY <1>2
    <3> QED
      BY <3>1, <3>2, <3>3
  <2> HIDE DEF S
  <2>3. 0 .. N \subseteq S
    BY <1>1, <2>1, <2>2, BoundedInduction
  <2> QED
    BY <2>3 DEF S
<1>11. IsFollowing(after, r, F, p, N)
  <2>1. \A n \in 0 .. N : n # 0 => after[n - 1] \in SUBSET R
    <3>1. \A n \in 0 .. N : n # 0 => n - 1 \in 0 .. N
      BY <1>1
    <3> QED
      BY <1>10, <3>1
  <2>2. \A n \in 0 .. N : after[n] = IF n = 0 THEN {r} ELSE after[n - 1] \cup {p[x] : x \in after[n - 1] \cap F}
    BY <1>3, <1>9, <2>1, Zenon
  <2>3. after = [n \in 0 .. N |-> after[n]]
    BY <1>8
  <2> QED
    BY <2>2, <2>3, Zenon DEF IsFollowing
<1>12. N >= Cardinality(R)
  BY <1>1 DEF N
<1>13. IsReach(after[N], r, R, F, p)
  BY <1>1, <1>2, <1>11, <1>12, FollowingReaches
<1> QED
  BY <1>4, <1>13 DEF F, p

(* Pointers that go down in some rank lead to a slot without one.           *)
LEMMA ReachEnds ==
  ASSUME NEW U, NEW r, NEW F, NEW p, NEW R, IsReach(R, r, U, F, p),
         NEW rank \in [U -> Nat], \A x \in F : rank[p[x]] < rank[x]
  PROVE  \E x \in R : x \notin F
<1> DEFINE T == {rank[x] : x \in R}
<1>1. T \subseteq Nat /\ T # {}
  BY DEF IsReach
<1>2. PICK m \in T : \A k \in T : m <= k
  <2> HIDE DEF T
  <2> QED
    BY <1>1, LeastNat
<1>3. PICK x \in R : m = rank[x]
  BY <1>2
<1>4. ASSUME x \in F PROVE FALSE
  <2>1. p[x] \in R /\ p[x] \in U /\ x \in U
    BY <1>4 DEF IsReach
  <2>2. rank[p[x]] \in T
    BY <2>1
  <2> QED
    BY <1>2, <1>3, <1>4, <2>1, <2>2
<1> QED
  BY <1>4

-----------------------------------------------------------------------------
(* A sequence with another element at one place.                            *)
LEMMA ReplacedInSeq ==
  ASSUME NEW S, NEW s \in Seq(S), NEW i, NEW x \in S
  PROVE  LET t == [s EXCEPT ![i] = x]
         IN /\ t \in Seq(S) /\ Len(t) = Len(s) /\ DOMAIN t = DOMAIN s
            /\ i \in DOMAIN s => t[i] = x
            /\ \A j \in DOMAIN s \ {i} : t[j] = s[j]
<1> DEFINE t == [s EXCEPT ![i] = x]
           n == Len(s)
<1>1. n \in Nat /\ s \in [1 .. n -> S] /\ DOMAIN s = 1 .. n
  OBVIOUS
<1> HIDE DEF n
<1>2. t \in [1 .. n -> S] /\ DOMAIN t = 1 .. n
  BY <1>1
<1>3. t \in Seq(S) /\ Len(t) = n
  <2> HIDE DEF t
  <2> QED
    BY <1>1, <1>2
<1>4. (i \in DOMAIN s => t[i] = x) /\ \A j \in DOMAIN s \ {i} : t[j] = s[j]
  BY <1>1
<1> QED
  BY <1>1, <1>2, <1>3, <1>4 DEF n
=============================================================================
