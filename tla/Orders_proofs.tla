---------------------------- MODULE Orders_proofs ----------------------------
(***************************************************************************)
(* What sorting by ranks, filtering and adding up return, for the proofs   *)
(* of AffectedGraph and Planning.                                          *)
(***************************************************************************)
EXTENDS Orders, SequencesExt, FiniteSetTheorems, FunctionTheorems, WellFoundedInduction, TLAPS

(* Distinct places below the cardinality leave no place free.              *)
LEMMA PlacesAreTaken ==
    ASSUME NEW S, IsFiniteSet(S),
           NEW place \in [S -> 0..(Cardinality(S) - 1)],
           \A x, y \in S : place[x] = place[y] => x = y
    PROVE  \A k \in 0..(Cardinality(S) - 1) : \E x \in S : place[x] = k
<1> DEFINE n == Cardinality(S)
           T == 0..(n - 1)
<1>1. n \in Nat
  BY FS_CardinalityType
<1>2. IsFiniteSet(T) /\ Cardinality(T) = n
  BY <1>1, FS_Interval
<1>3. place \in Injection(S, T)
  BY DEF Injection, IsInjective
<1>4. place \in Surjection(S, T)
  BY <1>2, <1>3, FS_Injection
<1> QED
  BY <1>4 DEF Surjection

EachPlaceOnce(before, S) ==
    /\ IsFiniteSet(S) /\ before \in [S -> 0..(Cardinality(S) - 1)]
    /\ \A x, y \in S : before[x] = before[y] => x = y

LEMMA SortedIsInOrder ==
    ASSUME NEW S, NEW before, EachPlaceOnce(before, S)
    PROVE  /\ Sorted(before) \in [1..Cardinality(S) -> S]
           /\ \A k \in 1..Cardinality(S) : before[Sorted(before)[k]] = k - 1
           /\ \A x \in S : before[x] + 1 \in 1..Cardinality(S) /\ Sorted(before)[before[x] + 1] = x
<1>0. /\ IsFiniteSet(S) /\ before \in [S -> 0..(Cardinality(S) - 1)]
      /\ \A x, y \in S : before[x] = before[y] => x = y
  BY DEF EachPlaceOnce
<1>1. DOMAIN before = S /\ Cardinality(S) \in Nat
  BY <1>0, FS_CardinalityType
<1>2. \A k \in 1..Cardinality(S) : \E x \in S : before[x] = k - 1
  <2> TAKE k \in 1..Cardinality(S)
  <2>1. k - 1 \in 0..(Cardinality(S) - 1)
    BY <1>1
  <2> QED
    BY <1>0, <2>1, PlacesAreTaken
<1>3. \A k \in 1..Cardinality(S) :
         /\ Sorted(before)[k] \in S
         /\ before[Sorted(before)[k]] = k - 1
  BY <1>1, <1>2 DEF Sorted
<1>4. Sorted(before) \in [1..Cardinality(S) -> S]
  BY <1>1, <1>3 DEF Sorted
<1>5. ASSUME NEW x \in S
      PROVE  before[x] + 1 \in 1..Cardinality(S) /\ Sorted(before)[before[x] + 1] = x
  <2>1. before[x] \in 0..(Cardinality(S) - 1)
    BY <1>0
  <2>2. before[x] + 1 \in 1..Cardinality(S) /\ (before[x] + 1) - 1 = before[x]
    BY <1>1, <2>1
  <2>3. Sorted(before)[before[x] + 1] \in S /\ before[Sorted(before)[before[x] + 1]] = before[x]
    BY <1>3, <2>2
  <2> QED
    BY <1>0, <2>2, <2>3
<1> QED
  BY <1>3, <1>4, <1>5

(* A set of natural numbers has fewer numbers below a smaller one.         *)
LEMMA FewerBefore ==
    ASSUME NEW S, IsFiniteSet(S), NEW rank \in [S -> Nat], NEW x \in S, NEW y \in S
    PROVE  LET before(z) == Cardinality({w \in S : rank[w] < rank[z]})
           IN  /\ before(x) \in 0..(Cardinality(S) - 1)
               /\ rank[x] < rank[y] => before(x) < before(y)
<1> DEFINE less(z) == {w \in S : rank[w] < rank[z]}
<1>1. \A z \in S : IsFiniteSet(less(z)) /\ less(z) \subseteq S /\ z \notin less(z)
  <2> TAKE z \in S
  <2>1. less(z) \in SUBSET S
    OBVIOUS
  <2> QED
    BY <2>1, FS_Subset
<1>2. ASSUME NEW T, IsFiniteSet(T), NEW z \in S, less(z) \subseteq T, z \in T
      PROVE  Cardinality(less(z)) < Cardinality(T)
  <2>1. Cardinality(less(z) \cup {z}) = Cardinality(less(z)) + 1
    BY <1>1, FS_AddElement
  <2>2. less(z) \cup {z} \in SUBSET T
    BY <1>2
  <2>3. Cardinality(less(z) \cup {z}) <= Cardinality(T)
    BY <1>2, <2>2, FS_Subset
  <2>4. Cardinality(less(z)) \in Nat /\ Cardinality(T) \in Nat
    BY <1>1, <1>2, FS_CardinalityType
  <2> QED
    BY <2>1, <2>3, <2>4
<1>3. Cardinality(less(x)) < Cardinality(S)
  BY <1>1, <1>2
<1>4. ASSUME rank[x] < rank[y] PROVE Cardinality(less(x)) < Cardinality(less(y))
  <2>1. less(x) \subseteq less(y) /\ x \in less(y)
    BY <1>4
  <2> QED
    BY <1>1, <1>2, <2>1
<1>5. Cardinality(less(x)) \in Nat /\ Cardinality(S) \in Nat
  BY <1>1, FS_CardinalityType
<1> QED
  BY <1>3, <1>4, <1>5

(* Sorting a finite set by ranks of which no two are the same lists it     *)
(* once, in the order of the ranks (workspace.rs:514, scheduler.rs:666).   *)
THEOREM RankedIsInOrder ==
    ASSUME NEW S, IsFiniteSet(S), NEW rank \in [S -> Nat],
           \A x, y \in S : rank[x] = rank[y] => x = y
    PROVE  /\ Cardinality(S) \in Nat
           /\ Ranked(rank) \in [1..Cardinality(S) -> S]
           /\ \A j, k \in 1..Cardinality(S) : j < k <=> rank[Ranked(rank)[j]] < rank[Ranked(rank)[k]]
           /\ \A x \in S : \E k \in 1..Cardinality(S) : Ranked(rank)[k] = x
<1> DEFINE before == [x \in S |-> Cardinality({y \in S : rank[y] < rank[x]})]
           n == Cardinality(S)
           r == Sorted(before)
<1>1. Ranked(rank) = r
  BY DEF Ranked
<1>2. n \in Nat
  BY FS_CardinalityType
<1>3. \A x, y \in S : rank[x] < rank[y] => before[x] < before[y]
  BY FewerBefore
<1>4. before \in [S -> 0..(n - 1)]
  <2>1. \A x \in S : before[x] \in 0..(n - 1)
    BY FewerBefore
  <2> QED
    BY <2>1
<1> HIDE DEF before
<1>5. \A x, y \in S : before[x] < before[y] => rank[x] < rank[y]
  <2> SUFFICES ASSUME NEW x \in S, NEW y \in S, before[x] < before[y] PROVE rank[x] < rank[y]
    OBVIOUS
  <2>1. before[x] \in Nat /\ before[y] \in Nat /\ rank[x] \in Nat /\ rank[y] \in Nat
    BY <1>4
  <2>2. rank[x] # rank[y]
    BY <2>1
  <2> QED
    BY <1>3, <2>1, <2>2
<1>6. \A x, y \in S : before[x] = before[y] => x = y
  <2> SUFFICES ASSUME NEW x \in S, NEW y \in S, before[x] = before[y] PROVE x = y
    OBVIOUS
  <2>1. before[x] \in Nat /\ before[y] \in Nat /\ rank[x] \in Nat /\ rank[y] \in Nat
    BY <1>4
  <2> QED
    BY <1>3, <2>1
<1> HIDE DEF r
<1>7. /\ r \in [1..n -> S]
      /\ \A k \in 1..n : before[r[k]] = k - 1
      /\ \A x \in S : before[x] + 1 \in 1..n /\ r[before[x] + 1] = x
  <2>1. EachPlaceOnce(before, S)
    BY <1>4, <1>6 DEF EachPlaceOnce
  <2>2. r = Sorted(before)
    BY DEF r
  <2> QED
    BY <2>1, <2>2, SortedIsInOrder
<1>8. ASSUME NEW j \in 1..n, NEW k \in 1..n
      PROVE  j < k <=> rank[r[j]] < rank[r[k]]
  <2>1. before[r[j]] = j - 1 /\ before[r[k]] = k - 1 /\ r[j] \in S /\ r[k] \in S
    BY <1>7
  <2>2. before[r[j]] < before[r[k]] <=> rank[r[j]] < rank[r[k]]
    BY <1>3, <1>5, <2>1
  <2> QED
    BY <1>2, <2>1, <2>2
<1> QED
  BY <1>1, <1>2, <1>7, <1>8

------------------------------------------------------------------------------
(* Induction and recursion along 0..L, over sets and functions.            *)
LEMMA LeastNumber ==
    ASSUME NEW S, S \subseteq Nat, S # {}
    PROVE  \E m \in S : \A n \in S : m <= n
<1>1. PICK m \in S : \A n \in S : ~(<<n, m>> \in OpToRel(<, Nat))
  BY NatLessThanWellFounded, WFMin
<1>2. ASSUME NEW n \in S PROVE m <= n
  <2>1. n \in Nat /\ m \in Nat /\ <<n, m>> \in Nat \X Nat /\ <<n, m>>[1] = n /\ <<n, m>>[2] = m
    OBVIOUS
  <2>2. ~(n < m)
    BY <1>1, <2>1 DEF OpToRel
  <2> QED
    BY <2>1, <2>2
<1> QED
  BY <1>2

LEMMA SetInduction ==
    ASSUME NEW L \in Nat, NEW G, 0 \in G, \A n \in 1..L : n - 1 \in G => n \in G
    PROVE  \A n \in 0..L : n \in G
<1> DEFINE Miss == {n \in 0..L : n \notin G}
<1> SUFFICES ASSUME Miss # {} PROVE FALSE
  OBVIOUS
<1>1. Miss \subseteq Nat
  OBVIOUS
<1>2. PICK m \in Miss : \A n \in Miss : m <= n
  BY <1>1, LeastNumber
<1>3. m \in 1..L /\ m - 1 < m
  OBVIOUS
<1>4. m - 1 \in Miss
  BY <1>3
<1> QED
  BY <1>2, <1>3, <1>4

LEMMA Recursion ==
    ASSUME NEW D, NEW start \in D, NEW L \in Nat, NEW step \in [1..L -> [D -> D]]
    PROVE  \E f \in [0..L -> D] : f[0] = start /\ \A n \in 1..L : f[n] = step[n][f[n - 1]]
<1> DEFINE Follows(f, m) == f[0] = start /\ \A n \in 1..m : f[n] = step[n][f[n - 1]]
           G == {m \in 0..L : \E f \in [0..m -> D] : Follows(f, m)}
<1>1. 0 \in G
  <2> DEFINE f == [n \in 0..0 |-> start]
  <2>1. f \in [0..0 -> D] /\ Follows(f, 0)
    OBVIOUS
  <2> HIDE DEF f, Follows
  <2>2. 0 \in 0..L
    OBVIOUS
  <2> QED
    BY <2>1, <2>2
<1>2. ASSUME NEW m \in 1..L, m - 1 \in G PROVE m \in G
  <2>1. PICK f \in [0..(m - 1) -> D] : Follows(f, m - 1)
    BY <1>2
  <2> DEFINE g == [n \in 0..m |-> IF n = m THEN step[m][f[m - 1]] ELSE f[n]]
  <2>2. m - 1 \in 0..(m - 1) /\ f[m - 1] \in D
    OBVIOUS
  <2>3. step[m] \in [D -> D] /\ step[m][f[m - 1]] \in D
    BY <2>2
  <2>4. \A n \in 0..m : n # m => n \in 0..(m - 1)
    OBVIOUS
  <2>5. g \in [0..m -> D]
    <3>1. \A n \in 0..m : (IF n = m THEN step[m][f[m - 1]] ELSE f[n]) \in D
      BY <2>3, <2>4
    <3> QED
      BY <3>1
  <2>6. \A n \in 0..(m - 1) : g[n] = f[n]
    OBVIOUS
  <2>7. g[m] = step[m][f[m - 1]]
    OBVIOUS
  <2> HIDE DEF g
  <2>8. Follows(g, m)
    <3>1. g[0] = start
      BY <2>1, <2>6
    <3>2. ASSUME NEW n \in 1..m PROVE g[n] = step[n][g[n - 1]]
      <4>1. n - 1 \in 0..(m - 1) /\ g[n - 1] = f[n - 1]
        BY <2>6
      <4>2. CASE n = m
        BY <2>7, <4>1, <4>2
      <4>3. CASE n # m
        <5>1. n \in 1..(m - 1) /\ n \in 0..(m - 1)
          BY <4>3
        <5> QED
          BY <2>1, <2>6, <4>1, <5>1
      <4> QED
        BY <4>2, <4>3
    <3> QED
      BY <3>1, <3>2
  <2>9. m \in 0..L
    OBVIOUS
  <2> HIDE DEF Follows
  <2>10. \E h \in [0..m -> D] : Follows(h, m)
    BY <2>5, <2>8
  <2> QED
    BY <2>9, <2>10
<1> HIDE DEF G
<1>3. \A m \in 0..L : m \in G
  BY <1>1, <1>2, SetInduction
<1>4. L \in G
  BY <1>3
<1> QED
  BY <1>4 DEF G

(* The recursion of OnlyOf has a solution, and it is the one it returns.   *)
LEMMA OnlyOfSteps ==
    ASSUME NEW T, NEW s \in Seq(T), NEW S
    PROVE  \E kept : /\ OnlyOf(s, S) = kept[Len(s)]
                     /\ kept[0] = << >>
                     /\ \A n \in 1..Len(s) :
                           kept[n] = IF s[n] \in S THEN Append(kept[n - 1], s[n]) ELSE kept[n - 1]
<1> DEFINE Is(f) == f = [n \in 0..Len(s) |->
                           IF n = 0 THEN << >>
                           ELSE IF s[n] \in S THEN Append(f[n - 1], s[n]) ELSE f[n - 1]]
           step == [n \in 1..Len(s) |->
                      [x \in Seq(T) |-> IF s[n] \in S THEN Append(x, s[n]) ELSE x]]
<1>1. Len(s) \in Nat /\ << >> \in Seq(T) /\ \A n \in 1..Len(s) : s[n] \in T
  OBVIOUS
<1>2. step \in [1..Len(s) -> [Seq(T) -> Seq(T)]]
  <2>1. \A n \in 1..Len(s), x \in Seq(T) : (IF s[n] \in S THEN Append(x, s[n]) ELSE x) \in Seq(T)
    BY <1>1
  <2> QED
    BY <2>1
<1>3. PICK f \in [0..Len(s) -> Seq(T)] :
          f[0] = << >> /\ \A n \in 1..Len(s) : f[n] = step[n][f[n - 1]]
  <2> DEFINE D == Seq(T)
             L == Len(s)
             start == << >>
  <2>1. start \in D /\ L \in Nat /\ step \in [1..L -> [D -> D]]
    BY <1>1, <1>2
  <2> HIDE DEF step, D, L, start
  <2>2. \E f \in [0..L -> D] : f[0] = start /\ \A n \in 1..L : f[n] = step[n][f[n - 1]]
    BY <2>1, Recursion
  <2> QED
    BY <2>2 DEF D, L, start
<1>4. Is(f)
  <2>1. ASSUME NEW n \in 0..Len(s)
        PROVE  f[n] = IF n = 0 THEN << >>
                      ELSE IF s[n] \in S THEN Append(f[n - 1], s[n]) ELSE f[n - 1]
    <3>1. CASE n = 0
      BY <1>3, <3>1
    <3>2. CASE n # 0
      <4>1. n \in 1..Len(s) /\ f[n - 1] \in Seq(T)
        BY <1>1, <3>2
      <4> QED
        BY <1>3, <3>2, <4>1
    <3> QED
      BY <3>1, <3>2
  <2> QED
    BY <2>1
<1>5. PICK kept : Is(kept) /\ OnlyOf(s, S) = kept[Len(s)]
  <2>1. Is(CHOOSE g : Is(g))
    BY <1>4
  <2>2. OnlyOf(s, S) = (CHOOSE g : Is(g))[Len(s)]
    BY DEF OnlyOf
  <2> QED
    BY <2>1, <2>2
<1> HIDE <1>4
<1>6. kept[0] = << >>
  BY <1>1, <1>5
<1>7. ASSUME NEW n \in 1..Len(s)
      PROVE  kept[n] = IF s[n] \in S THEN Append(kept[n - 1], s[n]) ELSE kept[n - 1]
  <2>1. n \in 0..Len(s) /\ n # 0
    BY <1>1
  <2>2. kept[n] = [i \in 0..Len(s) |->
                     IF i = 0 THEN << >>
                     ELSE IF s[i] \in S THEN Append(kept[i - 1], s[i]) ELSE kept[i - 1]][n]
    BY <1>5
  <2> QED
    BY <2>1, <2>2
<1> QED
  BY <1>5, <1>6, <1>7

(* Filtering keeps what it shall keep, in the order of the whole.          *)
LEMMA OnlyOfKeepsOrder ==
    ASSUME NEW T, NEW s \in Seq(T), NEW S
    PROVE  /\ OnlyOf(s, S) \in Seq(T)
           /\ \E at \in [1..Len(OnlyOf(s, S)) -> 1..Len(s)] :
                 /\ \A k \in 1..Len(OnlyOf(s, S)) : OnlyOf(s, S)[k] = s[at[k]] /\ s[at[k]] \in S
                 /\ \A j, k \in 1..Len(OnlyOf(s, S)) : j < k => at[j] < at[k]
                 /\ \A i \in 1..Len(s) : s[i] \in S => \E k \in 1..Len(OnlyOf(s, S)) : at[k] = i
<1> DEFINE Picks(x, n, at) ==
              /\ \A k \in 1..Len(x) : x[k] = s[at[k]] /\ s[at[k]] \in S
              /\ \A j, k \in 1..Len(x) : j < k => at[j] < at[k]
              /\ \A i \in 1..n : s[i] \in S => \E k \in 1..Len(x) : at[k] = i
           Keeps(x, n) == x \in Seq(T) /\ \E at \in [1..Len(x) -> 1..n] : Picks(x, n, at)
<1>1. PICK kept : /\ OnlyOf(s, S) = kept[Len(s)]
                  /\ kept[0] = << >>
                  /\ \A n \in 1..Len(s) :
                        kept[n] = IF s[n] \in S THEN Append(kept[n - 1], s[n]) ELSE kept[n - 1]
  BY OnlyOfSteps
<1> DEFINE G == {n \in 0..Len(s) : Keeps(kept[n], n)}
<1>2. Len(s) \in Nat
  OBVIOUS
<1>3. 0 \in G
  <2>1. << >> \in Seq(T) /\ Len(<< >>) = 0 /\ << >> \in [1..0 -> 1..0]
    OBVIOUS
  <2>2. Picks(<< >>, 0, << >>)
    BY <2>1
  <2> HIDE DEF Picks
  <2>3. Keeps(<< >>, 0)
    BY <2>1, <2>2
  <2> HIDE DEF Keeps
  <2>4. 0 \in 0..Len(s) /\ Keeps(kept[0], 0)
    BY <1>1, <1>2, <2>3
  <2> QED
    BY <2>4
<1>4. ASSUME NEW n \in 1..Len(s), n - 1 \in G PROVE n \in G
  <2>1. PICK x : x = kept[n - 1]
    OBVIOUS
  <2>2. x \in Seq(T) /\ n \in Nat /\ n - 1 \in Nat
    BY <1>4, <2>1
  <2>3. PICK at \in [1..Len(x) -> 1..(n - 1)] : Picks(x, n - 1, at)
    BY <1>4, <2>1
  <2>4. Len(x) \in Nat /\ \A k \in 1..Len(x) : at[k] \in 1..(n - 1)
    BY <2>2, <2>3
  <2>5. CASE s[n] \notin S
    <3>1. kept[n] = x
      BY <1>1, <2>1, <2>5
    <3>2. at \in [1..Len(x) -> 1..n]
      BY <2>2, <2>3
    <3>3. Picks(x, n, at)
      <4>1. /\ \A k \in 1..Len(x) : x[k] = s[at[k]] /\ s[at[k]] \in S
            /\ \A j, k \in 1..Len(x) : j < k => at[j] < at[k]
        BY <2>3
      <4>2. \A i \in 1..n : i = n \/ i \in 1..(n - 1)
        BY <2>2
      <4>3. \A i \in 1..n : s[i] \in S => \E k \in 1..Len(x) : at[k] = i
        BY <2>3, <2>5, <4>2
      <4> QED
        BY <4>1, <4>3
    <3> HIDE DEF Picks
    <3>4. Keeps(kept[n], n)
      BY <2>2, <3>1, <3>2, <3>3
    <3> HIDE DEF Keeps
    <3> QED
      BY <2>2, <3>4
  <2>6. CASE s[n] \in S
    <3> DEFINE y == Append(x, s[n])
               to == [k \in 1..Len(y) |-> IF k = Len(y) THEN n ELSE at[k]]
    <3>1. kept[n] = y
      BY <1>1, <2>1, <2>6
    <3>2. /\ y \in Seq(T) /\ Len(y) = Len(x) + 1 /\ y[Len(y)] = s[n]
          /\ \A k \in 1..Len(x) : y[k] = x[k]
      BY <2>2
    <3>3. \A k \in 1..Len(y) : k # Len(y) => k \in 1..Len(x)
      BY <2>4, <3>2
    <3>4. to \in [1..Len(y) -> 1..n]
      BY <2>2, <2>4, <3>2, <3>3
    <3>5. to[Len(y)] = n /\ \A k \in 1..Len(x) : to[k] = at[k] /\ k \in 1..Len(y)
      BY <2>4, <3>2
    <3> HIDE DEF y, to
    <3>6. \A k \in 1..Len(y) : y[k] = s[to[k]] /\ s[to[k]] \in S
      BY <2>3, <2>6, <3>2, <3>3, <3>5
    <3>7. ASSUME NEW j \in 1..Len(y), NEW k \in 1..Len(y), j < k PROVE to[j] < to[k]
      <4>1. j \in 1..Len(x)
        BY <2>4, <3>2, <3>7
      <4>2. CASE k = Len(y)
        <5>1. at[j] \in 1..(n - 1) /\ to[j] = at[j] /\ to[k] = n
          BY <2>4, <3>5, <4>1, <4>2
        <5> QED
          BY <2>2, <5>1
      <4>3. CASE k # Len(y)
        BY <2>3, <3>3, <3>5, <3>7, <4>1, <4>3
      <4> QED
        BY <4>2, <4>3
    <3>8. ASSUME NEW i \in 1..n, s[i] \in S PROVE \E k \in 1..Len(y) : to[k] = i
      <4>1. CASE i = n
        <5>1. Len(y) \in 1..Len(y)
          BY <2>4, <3>2
        <5> QED
          BY <3>5, <4>1, <5>1
      <4>2. CASE i # n
        <5>1. i \in 1..(n - 1)
          BY <2>2, <4>2
        <5>2. PICK k \in 1..Len(x) : at[k] = i
          BY <2>3, <3>8, <5>1
        <5> QED
          BY <3>5, <5>2
      <4> QED
        BY <4>1, <4>2
    <3>9. Picks(y, n, to)
      BY <3>6, <3>7, <3>8
    <3> HIDE DEF Picks
    <3>10. Keeps(kept[n], n)
      BY <3>1, <3>2, <3>4, <3>9
    <3> HIDE DEF Keeps
    <3> QED
      BY <2>2, <3>10
  <2> QED
    BY <2>5, <2>6
<1> HIDE DEF G
<1>5. \A n \in 0..Len(s) : n \in G
  BY <1>2, <1>3, <1>4, SetInduction
<1>6. Len(s) \in G
  BY <1>2, <1>5
<1> QED
  BY <1>1, <1>6 DEF G

------------------------------------------------------------------------------
(* Sequences that hold nothing twice.                                      *)
LEMMA AppendedOnce ==
    ASSUME NEW T, NEW s \in Seq(T), NEW x \in T
    PROVE  /\ ToSet(Append(s, x)) = ToSet(s) \cup {x}
           /\ IsInjective(s) /\ x \notin ToSet(s) => IsInjective(Append(s, x))
<1>1. /\ DOMAIN s = 1..Len(s) /\ DOMAIN Append(s, x) = 1..(Len(s) + 1) /\ Len(s) \in Nat
      /\ \A i \in 1..Len(s) : Append(s, x)[i] = s[i]
      /\ Append(s, x)[Len(s) + 1] = x
  OBVIOUS
<1>2. \A i \in 1..(Len(s) + 1) : i = Len(s) + 1 \/ i \in 1..Len(s)
  BY <1>1
<1>3. \A i \in 1..Len(s) : i \in 1..(Len(s) + 1)
  BY <1>1
<1>4. Len(s) + 1 \in 1..(Len(s) + 1)
  BY <1>1
<1>5. ToSet(Append(s, x)) = ToSet(s) \cup {x}
  BY <1>1, <1>2, <1>3, <1>4 DEF ToSet
<1>6. ASSUME IsInjective(s), x \notin ToSet(s) PROVE IsInjective(Append(s, x))
  <2> PICK t : t = Append(s, x)
    OBVIOUS
  <2>1. \A i \in 1..Len(s) : t[i] = s[i] /\ t[i] # x
    BY <1>1, <1>6 DEF ToSet
  <2>2. \A i, j \in 1..(Len(s) + 1) : t[i] = t[j] => i = j
    BY <1>1, <1>2, <1>6, <2>1 DEF IsInjective
  <2> QED
    BY <1>1, <2>2 DEF IsInjective
<1> QED
  BY <1>5, <1>6

LEMMA BeheadedOnce ==
    ASSUME NEW T, NEW s \in Seq(T), s # << >>
    PROVE  /\ Head(s) \in ToSet(s) /\ Head(s) \in T
           /\ IsInjective(s) => /\ ToSet(Tail(s)) = ToSet(s) \ {Head(s)}
                                /\ IsInjective(Tail(s))
<1>1. /\ Len(s) \in Nat /\ Len(s) >= 1 /\ DOMAIN s = 1..Len(s) /\ 1 \in 1..Len(s)
      /\ Head(s) = s[1] /\ DOMAIN Tail(s) = 1..(Len(s) - 1)
      /\ \A i \in 1..(Len(s) - 1) : Tail(s)[i] = s[i + 1]
  OBVIOUS
<1>2. \A i \in 1..(Len(s) - 1) : i + 1 \in 1..Len(s) /\ i + 1 # 1
  BY <1>1
<1>3. \A i \in 1..Len(s) : i # 1 => i - 1 \in 1..(Len(s) - 1) /\ (i - 1) + 1 = i
  BY <1>1
<1>4. ASSUME IsInjective(s)
      PROVE  ToSet(Tail(s)) = ToSet(s) \ {Head(s)} /\ IsInjective(Tail(s))
  <2>1. ASSUME NEW x \in ToSet(Tail(s)) PROVE x \in ToSet(s) \ {Head(s)}
    <3>1. PICK i \in 1..(Len(s) - 1) : x = s[i + 1]
      BY <1>1 DEF ToSet
    <3>2. i + 1 \in DOMAIN s /\ 1 \in DOMAIN s /\ i + 1 # 1
      BY <1>1, <1>2
    <3>3. s[i + 1] # s[1]
      BY <1>4, <3>2 DEF IsInjective
    <3> QED
      BY <1>1, <3>1, <3>2, <3>3 DEF ToSet
  <2>2. ASSUME NEW x \in ToSet(s), x # Head(s) PROVE x \in ToSet(Tail(s))
    <3>1. PICK i \in 1..Len(s) : x = s[i]
      BY <1>1 DEF ToSet
    <3>2. i # 1
      BY <1>1, <2>2, <3>1
    <3>3. i - 1 \in 1..(Len(s) - 1) /\ Tail(s)[i - 1] = x
      BY <1>1, <1>3, <3>1, <3>2
    <3> QED
      BY <1>1, <3>3 DEF ToSet
  <2>3. IsInjective(Tail(s))
    <3> SUFFICES ASSUME NEW i \in 1..(Len(s) - 1), NEW j \in 1..(Len(s) - 1), Tail(s)[i] = Tail(s)[j]
                 PROVE  i = j
      BY <1>1 DEF IsInjective
    <3>1. s[i + 1] = s[j + 1] /\ i + 1 \in DOMAIN s /\ j + 1 \in DOMAIN s
      BY <1>1, <1>2
    <3>2. i + 1 = j + 1
      BY <1>4, <3>1 DEF IsInjective
    <3> QED
      BY <3>2
  <2> QED
    BY <2>1, <2>2, <2>3
<1>5. Head(s) \in ToSet(s) /\ Head(s) \in T
  BY <1>1 DEF ToSet
<1> QED
  BY <1>4, <1>5

LEMMA JoinedOnce ==
    ASSUME NEW T, NEW s \in Seq(T), NEW t \in Seq(T)
    PROVE  /\ s \o t \in Seq(T)
           /\ ToSet(s \o t) = ToSet(s) \cup ToSet(t)
           /\ IsInjective(s) /\ IsInjective(t) /\ ToSet(s) \cap ToSet(t) = {} => IsInjective(s \o t)
<1> DEFINE n == Len(s)
           m == Len(t)
<1> PICK u : u = s \o t
  OBVIOUS
<1>1. /\ n \in Nat /\ m \in Nat /\ DOMAIN s = 1..n /\ DOMAIN t = 1..m /\ DOMAIN u = 1..(n + m)
      /\ u \in Seq(T)
      /\ \A i \in 1..n : u[i] = s[i] /\ i \in 1..(n + m)
      /\ \A i \in 1..m : u[n + i] = t[i] /\ n + i \in 1..(n + m)
  OBVIOUS
<1> HIDE DEF n, m
<1>2. \A i \in 1..(n + m) : i \in 1..n \/ (i - n \in 1..m /\ n + (i - n) = i)
  BY <1>1
<1>3. ToSet(u) = ToSet(s) \cup ToSet(t)
  <2>1. ToSet(u) \subseteq ToSet(s) \cup ToSet(t)
    <3> SUFFICES ASSUME NEW i \in 1..(n + m) PROVE u[i] \in ToSet(s) \cup ToSet(t)
      BY <1>1 DEF ToSet
    <3>1. CASE i \in 1..n
      BY <1>1, <3>1 DEF ToSet
    <3>2. CASE i - n \in 1..m /\ n + (i - n) = i
      <4>1. u[i] = t[i - n]
        BY <1>1, <3>2
      <4> QED
        BY <1>1, <3>2, <4>1 DEF ToSet
    <3> QED
      BY <1>2, <3>1, <3>2
  <2>2. \A i \in 1..n : s[i] \in ToSet(u)
    BY <1>1 DEF ToSet
  <2>3. \A i \in 1..m : t[i] \in ToSet(u)
    BY <1>1 DEF ToSet
  <2>4. ToSet(s) \subseteq ToSet(u)
    BY <1>1, <2>2 DEF ToSet
  <2>5. ToSet(t) \subseteq ToSet(u)
    BY <1>1, <2>3 DEF ToSet
  <2> QED
    BY <2>1, <2>4, <2>5
<1>4. ASSUME IsInjective(s), IsInjective(t), ToSet(s) \cap ToSet(t) = {} PROVE IsInjective(u)
  <2>1. \A i \in 1..n : u[i] \in ToSet(s)
    BY <1>1 DEF ToSet
  <2>2. \A i \in 1..(n + m) : i \notin 1..n => u[i] = t[i - n] /\ i - n \in 1..m
    <3> SUFFICES ASSUME NEW i \in 1..(n + m), i \notin 1..n PROVE u[i] = t[i - n] /\ i - n \in 1..m
      OBVIOUS
    <3>1. i - n \in 1..m /\ n + (i - n) = i
      BY <1>2
    <3> QED
      BY <1>1, <3>1
  <2>3. \A i \in 1..(n + m) : i \notin 1..n => u[i] \in ToSet(t)
    BY <1>1, <2>2 DEF ToSet
  <2> SUFFICES ASSUME NEW i \in 1..(n + m), NEW j \in 1..(n + m), u[i] = u[j] PROVE i = j
    BY <1>1 DEF IsInjective
  <2>4. CASE i \in 1..n
    <3>1. j \in 1..n
      BY <1>4, <2>1, <2>3, <2>4
    <3> QED
      BY <1>1, <1>4, <2>4, <3>1 DEF IsInjective
  <2>5. CASE i \notin 1..n
    <3>1. j \notin 1..n
      BY <1>4, <2>1, <2>3, <2>5
    <3>2. t[i - n] = t[j - n] /\ i - n \in DOMAIN t /\ j - n \in DOMAIN t
      BY <1>1, <2>2, <2>5, <3>1
    <3>3. i - n = j - n
      BY <1>4, <3>2 DEF IsInjective
    <3> QED
      BY <1>1, <3>3
  <2> QED
    BY <2>4, <2>5
<1> QED
  BY <1>1, <1>3, <1>4

LEMMA LengthIsCardinality ==
    ASSUME NEW T, NEW s \in Seq(T), IsInjective(s)
    PROVE  IsFiniteSet(ToSet(s)) /\ Cardinality(ToSet(s)) = Len(s)
<1>1. Len(s) \in Nat /\ DOMAIN s = 1..Len(s)
  OBVIOUS
<1>2. IsFiniteSet(1..Len(s)) /\ Cardinality(1..Len(s)) = Len(s)
  BY <1>1, FS_Interval
<1>3. s \in [1..Len(s) -> ToSet(s)] /\ \A x \in ToSet(s) : \E i \in 1..Len(s) : s[i] = x
  BY <1>1 DEF ToSet
<1>4. s \in Bijection(1..Len(s), ToSet(s))
  BY <1>1, <1>3 DEF Bijection, Injection, Surjection, IsInjective
<1> QED
  BY <1>2, <1>4, FS_Bijection DEF ExistsBijection

LEMMA RankedOnce ==
    ASSUME NEW S, IsFiniteSet(S), NEW rank \in [S -> Nat],
           \A x, y \in S : rank[x] = rank[y] => x = y
    PROVE  Ranked(rank) \in Seq(S) /\ IsInjective(Ranked(rank)) /\ ToSet(Ranked(rank)) = S
<1> PICK r : r = Ranked(rank)
  OBVIOUS
<1>1. /\ Cardinality(S) \in Nat
      /\ r \in [1..Cardinality(S) -> S]
      /\ \A j, k \in 1..Cardinality(S) : j < k <=> rank[r[j]] < rank[r[k]]
      /\ \A x \in S : \E k \in 1..Cardinality(S) : r[k] = x
  BY RankedIsInOrder
<1>2. r \in Seq(S)
  BY <1>1
<1>3. IsInjective(r)
  <2> SUFFICES ASSUME NEW j \in 1..Cardinality(S), NEW k \in 1..Cardinality(S), r[j] = r[k]
               PROVE  j = k
    BY <1>1 DEF IsInjective
  <2>1. rank[r[j]] \in Nat /\ rank[r[j]] = rank[r[k]]
    BY <1>1
  <2>2. ~(j < k) /\ ~(k < j)
    BY <1>1, <2>1
  <2> QED
    BY <1>1, <2>2
<1>4. ToSet(r) = S
  BY <1>1 DEF ToSet
<1> QED
  BY <1>2, <1>3, <1>4

LEMMA OnlyOfOnce ==
    ASSUME NEW T, NEW s \in Seq(T), NEW S
    PROVE  /\ OnlyOf(s, S) \in Seq(T)
           /\ ToSet(OnlyOf(s, S)) = ToSet(s) \cap S
           /\ IsInjective(s) => IsInjective(OnlyOf(s, S))
<1> PICK u : u = OnlyOf(s, S)
  OBVIOUS
<1>1. u \in Seq(T) /\ Len(u) \in Nat /\ DOMAIN u = 1..Len(u) /\ DOMAIN s = 1..Len(s)
  BY OnlyOfKeepsOrder
<1>2. PICK at \in [1..Len(u) -> 1..Len(s)] :
         /\ \A k \in 1..Len(u) : u[k] = s[at[k]] /\ s[at[k]] \in S
         /\ \A j, k \in 1..Len(u) : j < k => at[j] < at[k]
         /\ \A i \in 1..Len(s) : s[i] \in S => \E k \in 1..Len(u) : at[k] = i
  BY OnlyOfKeepsOrder
<1>3. ToSet(u) = ToSet(s) \cap S
  <2>1. \A k \in 1..Len(u) : u[k] \in ToSet(s) \cap S
    BY <1>1, <1>2 DEF ToSet
  <2>2. \A i \in 1..Len(s) : s[i] \in S => s[i] \in ToSet(u)
    BY <1>1, <1>2 DEF ToSet
  <2> QED
    BY <1>1, <2>1, <2>2 DEF ToSet
<1>4. ASSUME IsInjective(s) PROVE IsInjective(u)
  <2> SUFFICES ASSUME NEW j \in 1..Len(u), NEW k \in 1..Len(u), u[j] = u[k] PROVE j = k
    BY <1>1 DEF IsInjective
  <2>1. at[j] = at[k]
    <3>1. at[j] \in DOMAIN s /\ at[k] \in DOMAIN s
      BY <1>1, <1>2
    <3>2. s[at[j]] = s[at[k]]
      BY <1>2
    <3> QED
      BY <1>4, <3>1, <3>2 DEF IsInjective
  <2>2. at[j] \in Nat /\ at[k] \in Nat
    BY <1>2
  <2>3. ~(j < k) /\ ~(k < j)
    BY <1>2, <2>1, <2>2
  <2> QED
    BY <1>1, <2>3
<1> QED
  BY <1>1, <1>3, <1>4

------------------------------------------------------------------------------
(* Sums, a natural number per element of a finite set.                    *)
Picked(T) == CHOOSE x \in T : TRUE

(* All sums of f over parts of its domain D.                               *)
AllSums(sum, f, D) ==
    /\ sum \in [SUBSET D -> Nat]
    /\ sum[{}] = 0
    /\ \A T \in SUBSET D : T # {} => sum[T] = f[Picked(T)] + sum[T \ {Picked(T)}]

(* The recursion of SumOf has a solution, and it is the one it returns.    *)
LEMMA SumSteps ==
    ASSUME NEW D, IsFiniteSet(D), NEW f \in [D -> Nat]
    PROVE  \E sum : AllSums(sum, f, D) /\ \A S \in SUBSET D : SumOf(f, S) = sum[S]
<1> DEFINE L == Cardinality(D)
           M == [SUBSET D -> Nat]
           next(h) == [T \in SUBSET D |-> IF T = {} THEN 0 ELSE f[Picked(T)] + h[T \ {Picked(T)}]]
           zero == [T \in SUBSET D |-> 0]
           step == [n \in 1..L |-> [h \in M |-> next(h)]]
           Is(h) == h = [T \in SUBSET DOMAIN f |->
                            IF T = {} THEN 0 ELSE LET x == CHOOSE x \in T : TRUE IN f[x] + h[T \ {x}]]
<1>1. L \in Nat
  BY FS_CardinalityType
<1>2. \A T \in SUBSET D : T # {} => Picked(T) \in T /\ T \ {Picked(T)} \in SUBSET D
  BY DEF Picked
<1>3. \A h \in M : next(h) \in M
  <2> TAKE h \in M
  <2>1. \A T \in SUBSET D : (IF T = {} THEN 0 ELSE f[Picked(T)] + h[T \ {Picked(T)}]) \in Nat
    BY <1>2
  <2> QED
    BY <2>1
<1>4. step \in [1..L -> [M -> M]]
  <2> HIDE DEF next, M
  <2> QED
    BY <1>3
<1>5. \A n \in 1..L, h \in M : step[n][h] = next(h)
  <2> HIDE DEF next, M
  <2> QED
    OBVIOUS
<1>6. zero \in M
  OBVIOUS
<1>7. PICK g \in [0..L -> M] : g[0] = zero /\ \A n \in 1..L : g[n] = step[n][g[n - 1]]
  <2> HIDE DEF step, M, zero, L
  <2> QED
    BY <1>1, <1>4, <1>6, Recursion
<1>8. \A n \in 1..L : n - 1 \in 0..L /\ g[n - 1] \in M /\ g[n] = next(g[n - 1])
  <2> TAKE n \in 1..L
  <2>1. n - 1 \in 0..L
    BY <1>1
  <2> HIDE DEF step, M, zero, L, next
  <2> QED
    BY <1>5, <1>7, <2>1
<1>9. \A m \in 0..L : g[m][{}] = 0
  <2> TAKE m \in 0..L
  <2>1. CASE m = 0
    BY <1>7, <2>1
  <2>2. CASE m # 0
    <3>1. m \in 1..L
      BY <1>1, <2>2
    <3>2. g[m] = next(g[m - 1])
      BY <1>8, <3>1
    <3>3. next(g[m - 1])[{}] = 0
      OBVIOUS
    <3> QED
      BY <3>2, <3>3
  <2> QED
    BY <2>1, <2>2
<1>10. ASSUME NEW m \in 1..L, NEW T \in SUBSET D, T # {}
       PROVE  g[m][T] = f[Picked(T)] + g[m - 1][T \ {Picked(T)}]
  <2>1. g[m] = next(g[m - 1])
    BY <1>8
  <2>2. next(g[m - 1])[T] = f[Picked(T)] + g[m - 1][T \ {Picked(T)}]
    BY <1>10
  <2> QED
    BY <2>1, <2>2
<1>11. ASSUME NEW T \in SUBSET D, T # {}
       PROVE  Cardinality(T) \in Nat /\ Cardinality(T \ {Picked(T)}) = Cardinality(T) - 1
  <2>1. IsFiniteSet(T) /\ Picked(T) \in T
    BY <1>2, <1>11, FS_Subset
  <2> QED
    BY <2>1, FS_RemoveElement, FS_CardinalityType
<1> DEFINE Stable(n) == \A T \in SUBSET D : Cardinality(T) <= n => \A m \in n..L : g[m][T] = g[n][T]
           G == {n \in 0..L : Stable(n)}
<1>12. 0 \in G
  <2> SUFFICES ASSUME NEW T \in SUBSET D, Cardinality(T) <= 0, NEW m \in 0..L PROVE g[m][T] = g[0][T]
    BY <1>1
  <2>1. T = {}
    <3>1. IsFiniteSet(T) /\ Cardinality(T) \in Nat
      BY FS_Subset, FS_CardinalityType
    <3>2. Cardinality(T) = 0
      BY <3>1
    <3> QED
      BY <3>1, <3>2, FS_EmptySet
  <2> QED
    BY <1>1, <1>9, <2>1
<1>13. ASSUME NEW n \in 1..L, n - 1 \in G PROVE n \in G
  <2> SUFFICES ASSUME NEW T \in SUBSET D, Cardinality(T) <= n, NEW m \in n..L PROVE g[m][T] = g[n][T]
    BY <1>1
  <2>1. CASE T = {}
    BY <1>1, <1>9, <2>1
  <2>2. CASE T # {}
    <3>1. m \in 1..L /\ m - 1 \in (n - 1)..L
      BY <1>1
    <3>2. T \ {Picked(T)} \in SUBSET D /\ Cardinality(T \ {Picked(T)}) <= n - 1
      <4>1. T \ {Picked(T)} \in SUBSET D
        BY <1>2, <2>2
      <4>2. Cardinality(T) \in Nat /\ Cardinality(T \ {Picked(T)}) = Cardinality(T) - 1
        BY <1>11, <2>2
      <4>3. Cardinality(T \ {Picked(T)}) <= n - 1
        BY <4>2
      <4> QED
        BY <4>1, <4>3
    <3>3. g[m - 1][T \ {Picked(T)}] = g[n - 1][T \ {Picked(T)}]
      BY <1>13, <3>1, <3>2
    <3>4. n \in 1..L
      OBVIOUS
    <3>5. g[m][T] = f[Picked(T)] + g[m - 1][T \ {Picked(T)}]
      BY <1>10, <2>2, <3>1
    <3>6. g[n][T] = f[Picked(T)] + g[n - 1][T \ {Picked(T)}]
      BY <1>10, <2>2, <3>4
    <3> QED
      BY <3>3, <3>5, <3>6
  <2> QED
    BY <2>1, <2>2
<1> HIDE DEF G
<1>14. \A n \in 0..L : n \in G
  BY <1>1, <1>12, <1>13, SetInduction
<1> PICK h : h = g[L]
  OBVIOUS
<1>15. h \in M /\ h[{}] = 0
  BY <1>1, <1>7, <1>9
<1>16. ASSUME NEW T \in SUBSET D, T # {} PROVE h[T] = f[Picked(T)] + h[T \ {Picked(T)}]
  <2>1. Cardinality(T) \in Nat /\ Cardinality(T) <= L /\ Cardinality(T) # 0
    BY <1>16, FS_Subset, FS_EmptySet, FS_CardinalityType
  <2>2. L \in 1..L /\ L - 1 \in 0..L /\ L \in (L - 1)..L
    BY <1>1, <2>1
  <2>3. h[T] = f[Picked(T)] + g[L - 1][T \ {Picked(T)}]
    BY <1>10, <1>16, <2>2
  <2>4. T \ {Picked(T)} \in SUBSET D /\ Cardinality(T \ {Picked(T)}) <= L - 1
    <3>1. T \ {Picked(T)} \in SUBSET D
      BY <1>2, <1>16
    <3>2. Cardinality(T \ {Picked(T)}) = Cardinality(T) - 1
      BY <1>11, <1>16
    <3>3. Cardinality(T \ {Picked(T)}) <= L - 1
      <4> HIDE DEF L
      <4> QED
        BY <1>1, <2>1, <3>2
    <3> QED
      BY <3>1, <3>3
  <2>5. Stable(L - 1)
    BY <1>14, <2>2 DEF G
  <2>6. g[L][T \ {Picked(T)}] = g[L - 1][T \ {Picked(T)}]
    BY <2>2, <2>4, <2>5
  <2> QED
    BY <2>3, <2>6
<1>17. Is(h)
  <2>1. DOMAIN f = D
    OBVIOUS
  <2>2. \A T \in SUBSET D :
          h[T] = IF T = {} THEN 0 ELSE LET x == CHOOSE x \in T : TRUE IN f[x] + h[T \ {x}]
    BY <1>15, <1>16 DEF Picked
  <2>3. h = [T \in SUBSET D |-> h[T]]
    BY <1>15
  <2> HIDE DEF M, next
  <2> QED
    BY <2>1, <2>2, <2>3
<1>18. PICK sum : Is(sum) /\ \A S : SumOf(f, S) = sum[S]
  <2>1. Is(CHOOSE s : Is(s))
    <3> HIDE DEF Is
    <3> QED
      BY <1>17
  <2>2. \A S : SumOf(f, S) = (CHOOSE s : Is(s))[S]
    BY DEF SumOf
  <2> QED
    BY <2>1, <2>2
<1>19. ASSUME NEW T \in SUBSET D, T # {} PROVE sum[T] = f[Picked(T)] + sum[T \ {Picked(T)}]
  <2>1. sum[T] = [U \in SUBSET DOMAIN f |->
                    IF U = {} THEN 0 ELSE LET x == CHOOSE x \in U : TRUE IN f[x] + sum[U \ {x}]][T]
    BY <1>18
  <2> QED
    BY <1>19, <2>1 DEF Picked
<1>20. sum[{}] = 0
  <2>1. sum[{}] = [U \in SUBSET DOMAIN f |->
                    IF U = {} THEN 0 ELSE LET x == CHOOSE x \in U : TRUE IN f[x] + sum[U \ {x}]][{}]
    BY <1>18
  <2> QED
    BY <2>1
<1>21. DOMAIN sum = SUBSET D /\ sum = [T \in SUBSET D |-> sum[T]]
  BY <1>18
<1> DEFINE Number(n) == \A T \in SUBSET D : Cardinality(T) <= n => sum[T] \in Nat
           H == {n \in 0..L : Number(n)}
<1>22. 0 \in H
  <2> SUFFICES ASSUME NEW T \in SUBSET D, Cardinality(T) <= 0 PROVE sum[T] \in Nat
    BY <1>1
  <2>1. IsFiniteSet(T) /\ Cardinality(T) \in Nat
    BY FS_Subset, FS_CardinalityType
  <2>2. T = {}
    BY <2>1, FS_EmptySet
  <2> QED
    BY <1>20, <2>2
<1>23. ASSUME NEW n \in 1..L, n - 1 \in H PROVE n \in H
  <2>1. n \in 0..L
    BY <1>1
  <2> SUFFICES Number(n)
    <3> HIDE DEF Number
    <3> QED
      BY <2>1
  <2> SUFFICES ASSUME NEW T \in SUBSET D, Cardinality(T) <= n PROVE sum[T] \in Nat
    OBVIOUS
  <2> SUFFICES ASSUME T # {} PROVE sum[T] \in Nat
    <3>1. sum[{}] \in Nat
      BY <1>20
    <3> QED
      BY <3>1, Zenon
  <2>2. T \ {Picked(T)} \in SUBSET D /\ Cardinality(T \ {Picked(T)}) <= n - 1 /\ Picked(T) \in D
    <3>1. T \ {Picked(T)} \in SUBSET D /\ Picked(T) \in D
      BY <1>2
    <3>2. Cardinality(T) \in Nat /\ Cardinality(T \ {Picked(T)}) = Cardinality(T) - 1
      BY <1>11
    <3>3. Cardinality(T \ {Picked(T)}) <= n - 1
      BY <3>2
    <3> QED
      BY <3>1, <3>3
  <2>3. sum[T \ {Picked(T)}] \in Nat
    BY <1>23, <2>2
  <2>4. sum[T] = f[Picked(T)] + sum[T \ {Picked(T)}]
    BY <1>19, Zenon
  <2> QED
    BY <2>2, <2>3, <2>4
<1> HIDE DEF H
<1>24. \A n \in 0..L : n \in H
  BY <1>1, <1>22, <1>23, SetInduction
<1>25. ASSUME NEW T \in SUBSET D PROVE sum[T] \in Nat
  <2>1. L \in H /\ Cardinality(T) <= L
    BY <1>1, <1>24, FS_Subset
  <2> QED
    BY <2>1 DEF H
<1>26. sum \in [SUBSET D -> Nat]
  BY <1>21, <1>25
<1>27. AllSums(sum, f, D)
  BY <1>19, <1>20, <1>26 DEF AllSums
<1> QED
  BY <1>18, <1>27

LEMMA SmallerWithout ==
    ASSUME NEW D, IsFiniteSet(D), NEW S \in SUBSET D, NEW x \in S
    PROVE  /\ Cardinality(S) \in Nat /\ Cardinality(S) >= 1
           /\ Cardinality(S \ {x}) = Cardinality(S) - 1
<1>1. IsFiniteSet(S)
  BY FS_Subset
<1>2. Cardinality(S) \in Nat /\ Cardinality(S \ {x}) = Cardinality(S) - 1
  BY <1>1, FS_RemoveElement, FS_CardinalityType
<1>3. Cardinality(S \ {x}) \in Nat
  BY <1>1, FS_RemoveElement, FS_CardinalityType
<1> QED
  BY <1>2, <1>3

LEMMA NoneIn ==
    ASSUME NEW D, IsFiniteSet(D), NEW S \in SUBSET D, Cardinality(S) <= 0
    PROVE  S = {}
<1>1. IsFiniteSet(S) /\ Cardinality(S) \in Nat
  BY FS_Subset, FS_CardinalityType
<1>2. Cardinality(S) = 0
  BY <1>1
<1> QED
  BY <1>1, <1>2, FS_EmptySet

(* The order in which a sum is taken does not matter.                      *)
LEMMA SumWithout ==
    ASSUME NEW D, IsFiniteSet(D), NEW f \in [D -> Nat]
    PROVE  /\ SumOf(f, {}) = 0
           /\ \A S \in SUBSET D : SumOf(f, S) \in Nat
           /\ \A S \in SUBSET D : \A x \in S : SumOf(f, S) = f[x] + SumOf(f, S \ {x})
<1>1. PICK sum : AllSums(sum, f, D) /\ \A S \in SUBSET D : SumOf(f, S) = sum[S]
  BY SumSteps
<1>2. /\ sum \in [SUBSET D -> Nat]
      /\ \A S \in SUBSET D : SumOf(f, S) = sum[S]
      /\ sum[{}] = 0
      /\ \A T \in SUBSET D : T # {} => sum[T] = f[Picked(T)] + sum[T \ {Picked(T)}]
  BY <1>1 DEF AllSums
<1> PICK L : L = Cardinality(D)
  OBVIOUS
<1>3. L \in Nat
  BY FS_CardinalityType
<1> DEFINE Apart(n) == \A S \in SUBSET D : Cardinality(S) <= n => \A x \in S : sum[S] = f[x] + sum[S \ {x}]
           G == {n \in 0..L : Apart(n)}
<1>4. 0 \in G
  <2>1. Apart(0)
    <3> SUFFICES ASSUME NEW S \in SUBSET D, Cardinality(S) <= 0, NEW x \in S PROVE FALSE
      OBVIOUS
    <3>1. S = {}
      BY NoneIn
    <3> QED
      BY <3>1
  <2> QED
    BY <1>3, <2>1
<1>5. ASSUME NEW n \in 1..L, n - 1 \in G PROVE n \in G
  <2>1. Apart(n)
    <3> SUFFICES ASSUME NEW S \in SUBSET D, Cardinality(S) <= n, NEW x \in S
                 PROVE  sum[S] = f[x] + sum[S \ {x}]
      OBVIOUS
    <3>1. PICK c : c = Picked(S)
      OBVIOUS
    <3>2. c \in S
      BY <3>1 DEF Picked
    <3>3. sum[S] = f[c] + sum[S \ {c}]
      <4>1. S # {}
        OBVIOUS
      <4> QED
        BY <1>2, <3>1, <4>1, Zenon
    <3>4. CASE c = x
      BY <3>3, <3>4, Zenon
    <3>5. CASE c # x
      <4>1. PICK A, B, E : A = S \ {c} /\ B = S \ {x} /\ E = A \ {x}
        OBVIOUS
      <4>2. E = B \ {c} /\ x \in A /\ c \in B /\ A \in SUBSET D /\ B \in SUBSET D /\ E \in SUBSET D
        BY <3>2, <3>5, <4>1
      <4>3. Cardinality(A) <= n - 1 /\ Cardinality(B) <= n - 1
        BY <3>2, <4>1, SmallerWithout
      <4>4. Apart(n - 1)
        <5> HIDE DEF Apart
        <5> QED
          BY <1>5
      <4>5. A \in SUBSET D /\ x \in A /\ B \in SUBSET D /\ c \in B
        BY <4>2
      <4>6. sum[A] = f[x] + sum[A \ {x}] /\ sum[B] = f[c] + sum[B \ {c}]
        BY <4>3, <4>4, <4>5, Zenon
      <4>7. E = A \ {x} /\ E = B \ {c}
        BY <4>1, <4>2
      <4>8. sum[A] = f[x] + sum[E]
        BY <4>6, <4>7, Zenon
      <4>9. sum[B] = f[c] + sum[E]
        BY <4>6, <4>7, Zenon
      <4>10. sum[S] = f[c] + sum[A]
        BY <3>3, <4>1, Zenon
      <4>11. f[c] \in Nat /\ f[x] \in Nat /\ sum[E] \in Nat
        <5> HIDE DEF Apart
        <5>1. c \in D /\ x \in D /\ E \in SUBSET D
          BY <3>2, <4>2
        <5> QED
          BY <1>2, <5>1
      <4>12. PICK p, q, r, u, v, w :
                  /\ p = sum[A] /\ q = sum[B] /\ r = sum[E] /\ u = sum[S] /\ v = f[c] /\ w = f[x]
        OBVIOUS
      <4>13. p = w + r /\ q = v + r /\ u = v + p /\ v \in Nat /\ w \in Nat /\ r \in Nat
        BY <4>8, <4>9, <4>10, <4>11, <4>12, Zenon
      <4>14. u = w + q
        <5>1. p \in Nat /\ q \in Nat /\ u \in Nat
          BY <4>13
        <5> QED
          BY <4>13, <5>1
      <4>15. sum[S] = f[x] + sum[B]
        BY <4>12, <4>14, Zenon
      <4> QED
        BY <4>1, <4>15, Zenon
    <3> QED
      BY <3>4, <3>5
  <2>2. n \in 0..L
    BY <1>3
  <2> HIDE DEF Apart
  <2> QED
    BY <2>1, <2>2
<1> HIDE DEF G
<1>6. \A n \in 0..L : n \in G
  BY <1>3, <1>4, <1>5, SetInduction
<1>7. ASSUME NEW S \in SUBSET D, NEW x \in S PROVE SumOf(f, S) = f[x] + SumOf(f, S \ {x})
  <2>1. L \in 0..L /\ Cardinality(S) <= L
    BY <1>3, FS_Subset
  <2>2. Apart(L)
    BY <1>6, <2>1 DEF G
  <2>3. sum[S] = f[x] + sum[S \ {x}]
    BY <2>1, <2>2, Zenon
  <2>4. S \ {x} \in SUBSET D
    OBVIOUS
  <2> QED
    BY <1>2, <2>3, <2>4, Zenon
<1>8. {} \in SUBSET D
  OBVIOUS
<1>9. SumOf(f, {}) = 0
  BY <1>2, <1>8, Zenon
<1>10. \A S \in SUBSET D : SumOf(f, S) \in Nat
  BY <1>2
<1> QED
  BY <1>7, <1>9, <1>10

(* A sum under other names.                                                *)
LEMMA SumRenamed ==
    ASSUME NEW D, IsFiniteSet(D), NEW f \in [D -> Nat], NEW S \in SUBSET D,
           NEW E, IsFiniteSet(E), NEW g \in [E -> Nat], NEW h \in [S -> E],
           \A x, y \in S : h[x] = h[y] => x = y,
           \A x \in S : g[h[x]] = f[x]
    PROVE  SumOf(f, S) = SumOf(g, {h[x] : x \in S})
<1> DEFINE image(A) == {h[x] : x \in A}
<1>1. /\ SumOf(f, {}) = 0 /\ SumOf(g, {}) = 0
      /\ \A A \in SUBSET D : \A x \in A : SumOf(f, A) = f[x] + SumOf(f, A \ {x})
      /\ \A A \in SUBSET E : \A x \in A : SumOf(g, A) = g[x] + SumOf(g, A \ {x})
  BY SumWithout
<1> PICK L : L = Cardinality(D)
  OBVIOUS
<1>2. L \in Nat
  BY FS_CardinalityType
<1> DEFINE Same(n) == \A A \in SUBSET S : Cardinality(A) <= n => SumOf(f, A) = SumOf(g, image(A))
           G == {n \in 0..L : Same(n)}
<1>3. ASSUME NEW A \in SUBSET S, A = {} PROVE SumOf(f, A) = SumOf(g, image(A))
  <2>1. image(A) = {}
    BY <1>3
  <2> QED
    BY <1>1, <1>3, <2>1, Zenon
<1>4. 0 \in G
  <2>1. Same(0)
    <3> SUFFICES ASSUME NEW A \in SUBSET S, Cardinality(A) <= 0
                 PROVE  SumOf(f, A) = SumOf(g, image(A))
      OBVIOUS
    <3>1. A \in SUBSET D
      OBVIOUS
    <3>2. A = {}
      BY <3>1, NoneIn
    <3> QED
      BY <1>3, <3>2
  <2> HIDE DEF Same
  <2> QED
    BY <1>2, <2>1
<1>5. ASSUME NEW n \in 1..L, n - 1 \in G PROVE n \in G
  <2>1. Same(n)
    <3> SUFFICES ASSUME NEW A \in SUBSET S, Cardinality(A) <= n, A # {}
                 PROVE  SumOf(f, A) = SumOf(g, image(A))
      BY <1>3
    <3>1. PICK x : x \in A
      OBVIOUS
    <3>2. PICK B, C, I : B = A \ {x} /\ C = image(A) /\ I = image(B)
      OBVIOUS
    <3>3. /\ B \in SUBSET S /\ A \in SUBSET D /\ Cardinality(B) <= n - 1
          /\ C \in SUBSET E /\ h[x] \in C
      BY <3>1, <3>2, SmallerWithout
    <3>4. I = C \ {h[x]}
      <4>1. ASSUME NEW y \in A PROVE y \in B <=> h[y] # h[x]
        BY <3>1, <3>2, <4>1
      <4>2. \A z : z \in I <=> \E y \in B : z = h[y]
        BY <3>2
      <4>3. \A z : z \in C <=> \E y \in A : z = h[y]
        BY <3>2
      <4>4. B \subseteq A
        BY <3>2
      <4> QED
        BY <4>1, <4>2, <4>3, <4>4
    <3>5. Same(n - 1)
      BY <1>5
    <3>6. SumOf(f, B) = SumOf(g, I)
      BY <3>2, <3>3, <3>5, Zenon
    <3>7. SumOf(f, A) = f[x] + SumOf(f, B)
      BY <1>1, <3>1, <3>2, <3>3, Zenon
    <3>8. SumOf(g, C) = g[h[x]] + SumOf(g, I)
      BY <1>1, <3>3, <3>4, Zenon
    <3>9. g[h[x]] = f[x]
      BY <3>1
    <3> QED
      BY <3>2, <3>6, <3>7, <3>8, <3>9, Zenon
  <2>2. n \in 0..L
    BY <1>2
  <2> HIDE DEF Same
  <2> QED
    BY <2>1, <2>2
<1> HIDE DEF G
<1>6. \A n \in 0..L : n \in G
  BY <1>2, <1>4, <1>5, SetInduction
<1>7. L \in G /\ Cardinality(S) <= L
  BY <1>2, <1>6, FS_Subset
<1>8. Same(L)
  BY <1>7 DEF G
<1>9. S \in SUBSET S
  OBVIOUS
<1> QED
  BY <1>7, <1>8, <1>9, Zenon

(* What counts nothing can be left out.                                    *)
CountsOnly(f, D, S, T) ==
    /\ f \in [D -> Nat] /\ S \in SUBSET D /\ T \in SUBSET S
    /\ \A x \in S \ T : f[x] = 0

LEMMA SumWhere ==
    ASSUME NEW D, IsFiniteSet(D), NEW f, NEW S, NEW T, CountsOnly(f, D, S, T)
    PROVE  SumOf(f, S) = SumOf(f, T)
<1> SUFFICES ASSUME f \in [D -> Nat], S \in SUBSET D, T \in SUBSET S, \A x \in S \ T : f[x] = 0
             PROVE  SumOf(f, S) = SumOf(f, T)
  BY DEF CountsOnly
<1>1. /\ SumOf(f, {}) = 0
      /\ \A A \in SUBSET D : SumOf(f, A) \in Nat
      /\ \A A \in SUBSET D : \A x \in A : SumOf(f, A) = f[x] + SumOf(f, A \ {x})
  BY SumWithout
<1> PICK L : L = Cardinality(D)
  OBVIOUS
<1>2. L \in Nat
  BY FS_CardinalityType
<1> DEFINE Same(n) == \A A \in SUBSET S : Cardinality(A) <= n => SumOf(f, A) = SumOf(f, A \cap T)
           G == {n \in 0..L : Same(n)}
<1>3. ASSUME NEW A \in SUBSET S, A = {} PROVE SumOf(f, A) = SumOf(f, A \cap T)
  <2>1. A \cap T = A
    BY <1>3
  <2> QED
    BY <2>1, Zenon
<1>4. 0 \in G
  <2>1. Same(0)
    <3> SUFFICES ASSUME NEW A \in SUBSET S, Cardinality(A) <= 0
                 PROVE  SumOf(f, A) = SumOf(f, A \cap T)
      OBVIOUS
    <3>1. A \in SUBSET D
      OBVIOUS
    <3>2. A = {}
      BY <3>1, NoneIn
    <3> QED
      BY <1>3, <3>2
  <2> HIDE DEF Same
  <2> QED
    BY <1>2, <2>1
<1>5. ASSUME NEW n \in 1..L, n - 1 \in G PROVE n \in G
  <2>1. Same(n)
    <3> SUFFICES ASSUME NEW A \in SUBSET S, Cardinality(A) <= n, A # {}
                 PROVE  SumOf(f, A) = SumOf(f, A \cap T)
      BY <1>3
    <3>1. PICK x : x \in A
      OBVIOUS
    <3>2. PICK B, C, I : B = A \ {x} /\ C = A \cap T /\ I = B \cap T
      OBVIOUS
    <3>3. /\ B \in SUBSET S /\ A \in SUBSET D /\ Cardinality(B) <= n - 1
          /\ C \in SUBSET D /\ I \in SUBSET D
      BY <3>1, <3>2, SmallerWithout
    <3>4. Same(n - 1)
      BY <1>5
    <3>5. SumOf(f, B) = SumOf(f, I)
      BY <3>2, <3>3, <3>4, Zenon
    <3>6. SumOf(f, A) = f[x] + SumOf(f, B)
      BY <1>1, <3>1, <3>2, <3>3, Zenon
    <3>7. CASE x \in T
      <4>1. x \in C /\ I = C \ {x}
        BY <3>1, <3>2, <3>7
      <4>2. SumOf(f, C) = f[x] + SumOf(f, I)
        BY <1>1, <3>3, <4>1, Zenon
      <4> QED
        BY <3>2, <3>5, <3>6, <4>2, Zenon
    <3>8. CASE x \notin T
      <4>1. I = C /\ f[x] = 0
        BY <3>1, <3>2, <3>8
      <4>2. SumOf(f, I) \in Nat
        BY <1>1, <3>3
      <4>3. SumOf(f, A) = 0 + SumOf(f, I)
        BY <3>5, <3>6, <4>1, Zenon
      <4>4. SumOf(f, A) = SumOf(f, I)
        BY <4>2, <4>3
      <4> QED
        BY <3>2, <4>1, <4>4, Zenon
    <3> QED
      BY <3>7, <3>8
  <2>2. n \in 0..L
    BY <1>2
  <2> HIDE DEF Same
  <2> QED
    BY <2>1, <2>2
<1> HIDE DEF G
<1>6. \A n \in 0..L : n \in G
  BY <1>2, <1>4, <1>5, SetInduction
<1>7. L \in G /\ Cardinality(S) <= L
  BY <1>2, <1>6, FS_Subset
<1>8. Same(L)
  BY <1>7 DEF G
<1>9. S \in SUBSET S /\ S \cap T = T
  OBVIOUS
<1> QED
  BY <1>7, <1>8, <1>9, Zenon

(* Each counts at least c.                                                 *)
LEMMA SumAtLeast ==
    ASSUME NEW D, IsFiniteSet(D), NEW f \in [D -> Nat], NEW S \in SUBSET D, NEW c \in Nat,
           \A x \in S : f[x] >= c
    PROVE  SumOf(f, S) >= c * Cardinality(S)
<1>1. /\ SumOf(f, {}) = 0
      /\ \A A \in SUBSET D : SumOf(f, A) \in Nat
      /\ \A A \in SUBSET D : \A x \in A : SumOf(f, A) = f[x] + SumOf(f, A \ {x})
  BY SumWithout
<1> PICK L : L = Cardinality(D)
  OBVIOUS
<1>2. L \in Nat
  BY FS_CardinalityType
<1> DEFINE Enough(n) == \A A \in SUBSET S : Cardinality(A) <= n => SumOf(f, A) >= c * Cardinality(A)
           G == {n \in 0..L : Enough(n)}
<1>3. ASSUME NEW A \in SUBSET S, A = {} PROVE SumOf(f, A) >= c * Cardinality(A)
  <2>1. SumOf(f, A) = 0 /\ Cardinality(A) = 0
    BY <1>1, <1>3, FS_EmptySet, Zenon
  <2> QED
    BY <2>1
<1>4. 0 \in G
  <2>1. Enough(0)
    <3> SUFFICES ASSUME NEW A \in SUBSET S, Cardinality(A) <= 0
                 PROVE  SumOf(f, A) >= c * Cardinality(A)
      OBVIOUS
    <3>1. A \in SUBSET D
      OBVIOUS
    <3>2. A = {}
      BY <3>1, NoneIn
    <3> QED
      BY <1>3, <3>2
  <2> HIDE DEF Enough
  <2> QED
    BY <1>2, <2>1
<1>5. ASSUME NEW n \in 1..L, n - 1 \in G PROVE n \in G
  <2>1. Enough(n)
    <3> SUFFICES ASSUME NEW A \in SUBSET S, Cardinality(A) <= n, A # {}
                 PROVE  SumOf(f, A) >= c * Cardinality(A)
      BY <1>3
    <3>1. PICK x : x \in A
      OBVIOUS
    <3>2. PICK B : B = A \ {x}
      OBVIOUS
    <3>3. /\ B \in SUBSET S /\ B \in SUBSET D /\ A \in SUBSET D
          /\ Cardinality(A) \in Nat /\ Cardinality(A) >= 1 /\ Cardinality(B) = Cardinality(A) - 1
      BY <3>1, <3>2, SmallerWithout
    <3>4. Enough(n - 1) /\ Cardinality(B) <= n - 1
      BY <1>5, <3>3
    <3>5. SumOf(f, B) >= c * Cardinality(B)
      BY <3>3, <3>4, Zenon
    <3>6. SumOf(f, A) = f[x] + SumOf(f, B)
      BY <1>1, <3>1, <3>2, <3>3, Zenon
    <3>7. PICK a, sa, sb, w : a = Cardinality(A) /\ sa = SumOf(f, A) /\ sb = SumOf(f, B) /\ w = f[x]
      OBVIOUS
    <3>8. /\ sb \in Nat /\ w \in Nat /\ w >= c /\ a \in Nat /\ a >= 1
          /\ sb >= c * (a - 1) /\ sa = w + sb
      BY <1>1, <3>1, <3>3, <3>5, <3>6, <3>7
    <3>9. c * (a - 1) = c * a - c
      BY <3>8
    <3>10. c * a \in Nat
      BY <3>8
    <3>11. sa >= c * a
      BY <3>8, <3>9, <3>10
    <3> QED
      BY <3>7, <3>11
  <2>2. n \in 0..L
    BY <1>2
  <2> HIDE DEF Enough
  <2> QED
    BY <2>1, <2>2
<1> HIDE DEF G
<1>6. \A n \in 0..L : n \in G
  BY <1>2, <1>4, <1>5, SetInduction
<1>7. L \in G /\ Cardinality(S) <= L
  BY <1>2, <1>6, FS_Subset
<1>8. Enough(L)
  BY <1>7 DEF G
<1>9. S \in SUBSET S
  OBVIOUS
<1> QED
  BY <1>7, <1>8, <1>9, Zenon

(* One of the summands changes.                                            *)
CountsMore(g, f, D, x, w) ==
    /\ f \in [D -> Nat] /\ g \in [D -> Nat] /\ x \in D /\ w \in Nat
    /\ g[x] = f[x] + w
    /\ \A y \in D \ {x} : g[y] = f[y]

LEMMA SumUpdated ==
    ASSUME NEW D, IsFiniteSet(D), NEW f, NEW g, NEW x, NEW w, CountsMore(g, f, D, x, w)
    PROVE  SumOf(g, D) = SumOf(f, D) + w
<1> SUFFICES ASSUME f \in [D -> Nat], g \in [D -> Nat], x \in D, w \in Nat,
                    g[x] = f[x] + w, \A y \in D \ {x} : g[y] = f[y]
             PROVE  SumOf(g, D) = SumOf(f, D) + w
  BY DEF CountsMore
<1> PICK R : R = D \ {x}
  OBVIOUS
<1>1. R \in SUBSET D /\ D \in SUBSET D
  OBVIOUS
<1>2. SumOf(g, D) = g[x] + SumOf(g, R) /\ SumOf(f, D) = f[x] + SumOf(f, R)
  <2>1. SumOf(g, D) = g[x] + SumOf(g, D \ {x})
    BY <1>1, SumWithout
  <2>2. SumOf(f, D) = f[x] + SumOf(f, D \ {x})
    BY <1>1, SumWithout
  <2> QED
    BY <2>1, <2>2, Zenon
<1>3. SumOf(f, R) \in Nat
  BY <1>1, SumWithout
<1> DEFINE h == [y \in R |-> y]
<1>4. h \in [R -> D] /\ (\A y, z \in R : h[y] = h[z] => y = z) /\ \A y \in R : g[h[y]] = f[y]
  OBVIOUS
<1>5. {h[y] : y \in R} = R
  OBVIOUS
<1> HIDE DEF h
<1>6. SumOf(f, R) = SumOf(g, {h[y] : y \in R})
  BY <1>1, <1>4, SumRenamed
<1>7. SumOf(f, R) = SumOf(g, R)
  BY <1>5, <1>6, Zenon
<1>8. f[x] \in Nat /\ SumOf(g, D) = (f[x] + w) + SumOf(g, R)
  BY <1>2
<1> QED
  BY <1>2, <1>3, <1>7, <1>8

(* Each counts at most c.                                                  *)
LEMMA SumAtMost ==
    ASSUME NEW D, IsFiniteSet(D), NEW f \in [D -> Nat], NEW S \in SUBSET D, NEW c \in Nat,
           \A x \in S : f[x] <= c
    PROVE  SumOf(f, S) <= c * Cardinality(S)
<1>1. /\ SumOf(f, {}) = 0
      /\ \A A \in SUBSET D : SumOf(f, A) \in Nat
      /\ \A A \in SUBSET D : \A x \in A : SumOf(f, A) = f[x] + SumOf(f, A \ {x})
  BY SumWithout
<1> PICK L : L = Cardinality(D)
  OBVIOUS
<1>2. L \in Nat
  BY FS_CardinalityType
<1> DEFINE Few(n) == \A A \in SUBSET S : Cardinality(A) <= n => SumOf(f, A) <= c * Cardinality(A)
           G == {n \in 0..L : Few(n)}
<1>3. ASSUME NEW A \in SUBSET S, A = {} PROVE SumOf(f, A) <= c * Cardinality(A)
  <2>1. SumOf(f, A) = 0 /\ Cardinality(A) = 0
    BY <1>1, <1>3, FS_EmptySet, Zenon
  <2> QED
    BY <2>1
<1>4. 0 \in G
  <2>1. Few(0)
    <3> SUFFICES ASSUME NEW A \in SUBSET S, Cardinality(A) <= 0
                 PROVE  SumOf(f, A) <= c * Cardinality(A)
      OBVIOUS
    <3>1. A \in SUBSET D
      OBVIOUS
    <3>2. A = {}
      BY <3>1, NoneIn
    <3> QED
      BY <1>3, <3>2
  <2> HIDE DEF Few
  <2> QED
    BY <1>2, <2>1
<1>5. ASSUME NEW n \in 1..L, n - 1 \in G PROVE n \in G
  <2>1. Few(n)
    <3> SUFFICES ASSUME NEW A \in SUBSET S, Cardinality(A) <= n, A # {}
                 PROVE  SumOf(f, A) <= c * Cardinality(A)
      BY <1>3
    <3>1. PICK x : x \in A
      OBVIOUS
    <3>2. PICK B : B = A \ {x}
      OBVIOUS
    <3>3. /\ B \in SUBSET S /\ B \in SUBSET D /\ A \in SUBSET D
          /\ Cardinality(A) \in Nat /\ Cardinality(A) >= 1 /\ Cardinality(B) = Cardinality(A) - 1
      BY <3>1, <3>2, SmallerWithout
    <3>4. Few(n - 1) /\ Cardinality(B) <= n - 1
      BY <1>5, <3>3
    <3>5. SumOf(f, B) <= c * Cardinality(B)
      BY <3>3, <3>4, Zenon
    <3>6. SumOf(f, A) = f[x] + SumOf(f, B)
      BY <1>1, <3>1, <3>2, <3>3, Zenon
    <3>7. PICK a, sa, sb, w : a = Cardinality(A) /\ sa = SumOf(f, A) /\ sb = SumOf(f, B) /\ w = f[x]
      OBVIOUS
    <3>8. /\ sb \in Nat /\ w \in Nat /\ w <= c /\ a \in Nat /\ a >= 1
          /\ sb <= c * (a - 1) /\ sa = w + sb
      BY <1>1, <3>1, <3>3, <3>5, <3>6, <3>7
    <3>9. c * (a - 1) = c * a - c
      BY <3>8
    <3>10. c * a \in Nat
      BY <3>8
    <3>11. sa <= c * a
      BY <3>8, <3>9, <3>10
    <3> QED
      BY <3>7, <3>11
  <2>2. n \in 0..L
    BY <1>2
  <2> HIDE DEF Few
  <2> QED
    BY <2>1, <2>2
<1> HIDE DEF G
<1>6. \A n \in 0..L : n \in G
  BY <1>2, <1>4, <1>5, SetInduction
<1>7. L \in G /\ Cardinality(S) <= L
  BY <1>2, <1>6, FS_Subset
<1>8. Few(L)
  BY <1>7 DEF G
<1>9. S \in SUBSET S
  OBVIOUS
<1> QED
  BY <1>7, <1>8, <1>9, Zenon


(* Recursion, as a function of named parts.                                *)
Stepwise(D, start, L, step) == start \in D /\ L \in Nat /\ step \in [1..L -> [D -> D]]

Follows(f, D, start, L, step) ==
    f \in [0..L -> D] /\ f[0] = start /\ \A n \in 1..L : f[n] = step[n][f[n - 1]]

LEMMA StepsAreFollowed ==
    ASSUME NEW D, NEW start, NEW L, NEW step, Stepwise(D, start, L, step)
    PROVE  \E f : Follows(f, D, start, L, step)
<1>1. start \in D /\ L \in Nat /\ step \in [1..L -> [D -> D]]
  BY DEF Stepwise
<1> QED
  BY <1>1, Recursion DEF Follows

(* None counts more than all together.                                     *)
LEMMA SumHolds ==
    ASSUME NEW D, IsFiniteSet(D), NEW f \in [D -> Nat], NEW x \in D
    PROVE  SumOf(f, D) \in Nat /\ f[x] <= SumOf(f, D)
<1>1. /\ \A T \in SUBSET D : SumOf(f, T) \in Nat
      /\ \A T \in SUBSET D : \A z \in T : SumOf(f, T) = f[z] + SumOf(f, T \ {z})
  BY SumWithout
<1>2. D \in SUBSET D /\ D \ {x} \in SUBSET D
  OBVIOUS
<1>3. PICK a, b : a = SumOf(f, D) /\ b = SumOf(f, D \ {x})
  OBVIOUS
<1>4. a = f[x] + b /\ a \in Nat /\ b \in Nat
  BY <1>1, <1>2, <1>3, Zenon
<1>5. f[x] \in Nat
  OBVIOUS
<1> QED
  BY <1>3, <1>4, <1>5

(* A finite set of numbers has a largest one.                              *)
LEMMA LargestNumber ==
    ASSUME NEW S, S \subseteq Nat, IsFiniteSet(S), S # {}
    PROVE  \E x \in S : \A y \in S : y <= x
<1> DEFINE f == [x \in S |-> x]
<1>1. f \in [S -> Nat] /\ \A x \in S : f[x] = x
  OBVIOUS
<1> HIDE DEF f
<1> PICK top : top = SumOf(f, S)
  OBVIOUS
<1>2. top \in Nat /\ \A x \in S : x \in Nat /\ x <= top
  <2>1. \A x \in S : top \in Nat /\ f[x] <= top
    BY <1>1, SumHolds
  <2> QED
    BY <1>1, <2>1
<1> DEFINE mirror == {top - x : x \in S}
<1>3. mirror \subseteq Nat /\ mirror # {}
  <2>1. \A x \in S : top - x \in Nat
    BY <1>2
  <2> QED
    BY <2>1
<1>4. PICK z \in mirror : \A y \in mirror : z <= y
  BY <1>3, LeastNumber
<1>5. PICK x \in S : z = top - x
  BY <1>4
<1>6. ASSUME NEW y \in S PROVE y <= x
  <2>1. top - y \in mirror
    OBVIOUS
  <2>2. top - x <= top - y
    BY <1>4, <1>5, <2>1
  <2>3. x \in Nat /\ y \in Nat /\ top \in Nat
    BY <1>2
  <2> QED
    BY <2>2, <2>3
<1> QED
  BY <1>6

LEMMA ImageIsFinite ==
    ASSUME NEW S, IsFiniteSet(S), NEW T, NEW f \in [S -> T], \A y \in T : \E x \in S : f[x] = y
    PROVE  IsFiniteSet(T)
<1>1. f \in Surjection(S, T)
  BY DEF Surjection
<1> QED
  BY <1>1, FS_Surjection

(* Sorting a finite set by a strict total order, given by the elements     *)
(* before each, lists each element once.                                   *)
StrictOrder(less, S) ==
    /\ less \in [S -> SUBSET S]
    /\ \A x \in S : x \notin less[x]
    /\ \A x, y, z \in S : x \in less[y] /\ y \in less[z] => x \in less[z]
    /\ \A x, y \in S : x = y \/ x \in less[y] \/ y \in less[x]

Lists(r, S) ==
    /\ r \in [1..Cardinality(S) -> S]
    /\ \A j, k \in 1..Cardinality(S) : r[j] = r[k] => j = k
    /\ \A x \in S : \E k \in 1..Cardinality(S) : r[k] = x

LEMMA SortedByOrder ==
    ASSUME NEW S, IsFiniteSet(S), NEW less, StrictOrder(less, S),
           NEW before \in [S -> Nat], \A x \in S : before[x] = Cardinality(less[x])
    PROVE  Lists(Sorted(before), S)
<1>1. /\ less \in [S -> SUBSET S]
      /\ \A x \in S : x \notin less[x]
      /\ \A x, y, z \in S : x \in less[y] /\ y \in less[z] => x \in less[z]
      /\ \A x, y \in S : x = y \/ x \in less[y] \/ y \in less[x]
  BY DEF StrictOrder
<1> DEFINE n == Cardinality(S)
           r == Sorted(before)
<1>2. \A x \in S : IsFiniteSet(less[x]) /\ less[x] \subseteq S /\ x \notin less[x]
  <2> TAKE x \in S
  <2>1. less[x] \in SUBSET S /\ x \notin less[x]
    BY <1>1
  <2> QED
    BY <2>1, FS_Subset
<1>3. ASSUME NEW T, IsFiniteSet(T), NEW x \in S, less[x] \subseteq T, x \in T
      PROVE  Cardinality(less[x]) < Cardinality(T)
  <2>1. Cardinality(less[x] \cup {x}) = Cardinality(less[x]) + 1
    BY <1>2, FS_AddElement
  <2>2. less[x] \cup {x} \in SUBSET T
    BY <1>3
  <2>3. Cardinality(less[x] \cup {x}) <= Cardinality(T)
    BY <1>3, <2>2, FS_Subset
  <2>4. Cardinality(less[x]) \in Nat /\ Cardinality(T) \in Nat
    BY <1>2, <1>3, FS_CardinalityType
  <2> QED
    BY <2>1, <2>3, <2>4
<1>4. n \in Nat /\ \A x \in S : Cardinality(less[x]) \in Nat
  BY <1>2, FS_CardinalityType
<1>5. \A x \in S : before[x] \in 0..(n - 1)
  <2> TAKE x \in S
  <2>1. Cardinality(less[x]) < n
    BY <1>2, <1>3
  <2> QED
    BY <1>4, <2>1
<1>6. \A x, y \in S : x \in less[y] => before[x] < before[y]
  <2> SUFFICES ASSUME NEW x \in S, NEW y \in S, x \in less[y] PROVE before[x] < before[y]
    OBVIOUS
  <2>1. less[x] \subseteq less[y] /\ x \in less[y]
    BY <1>1
  <2> QED
    BY <1>2, <1>3, <2>1
<1>7. before \in [S -> 0..(n - 1)]
  BY <1>5
<1>8. \A x, y \in S : before[x] = before[y] => x = y
  <2> SUFFICES ASSUME NEW x \in S, NEW y \in S, before[x] = before[y], x # y PROVE FALSE
    OBVIOUS
  <2>1. before[x] \in Nat /\ before[y] \in Nat
    BY <1>5
  <2>2. before[x] < before[y] \/ before[y] < before[x]
    BY <1>1, <1>6
  <2> QED
    BY <2>1, <2>2
<1> HIDE DEF r
<1>9. /\ r \in [1..n -> S]
      /\ \A k \in 1..n : before[r[k]] = k - 1
      /\ \A x \in S : before[x] + 1 \in 1..n /\ r[before[x] + 1] = x
  <2>1. EachPlaceOnce(before, S)
    BY <1>7, <1>8 DEF EachPlaceOnce
  <2>2. r = Sorted(before)
    BY DEF r
  <2> QED
    BY <2>1, <2>2, SortedIsInOrder
<1>10. \A j, k \in 1..n : r[j] = r[k] => j = k
  <2> SUFFICES ASSUME NEW j \in 1..n, NEW k \in 1..n, r[j] = r[k] PROVE j = k
    OBVIOUS
  <2>1. j - 1 = k - 1
    BY <1>9
  <2> QED
    BY <1>4, <2>1
<1> QED
  BY <1>9, <1>10 DEF r, Lists

LEMMA SumWithoutOne ==
    ASSUME NEW D, IsFiniteSet(D), NEW f \in [D -> Nat], NEW k \in D, f[k] = 0, \A x \in D : f[x] <= 1
    PROVE  SumOf(f, D) \in Nat /\ SumOf(f, D) <= Cardinality(D) - 1
<1>1. /\ \A T \in SUBSET D : SumOf(f, T) \in Nat
      /\ \A T \in SUBSET D : \A x \in T : SumOf(f, T) = f[x] + SumOf(f, T \ {x})
  BY SumWithout
<1> PICK E : E = D \ {k}
  OBVIOUS
<1>2. E \in SUBSET D /\ D \in SUBSET D /\ \A x \in E : f[x] <= 1
  OBVIOUS
<1>3. SumOf(f, D) = f[k] + SumOf(f, E)
  BY <1>1, <1>2
<1>4. SumOf(f, E) <= 1 * Cardinality(E)
  BY <1>2, SumAtMost
<1>5. Cardinality(E) = Cardinality(D) - 1 /\ Cardinality(D) \in Nat
  BY <1>2, SmallerWithout
<1>6. SumOf(f, D) \in Nat /\ SumOf(f, E) \in Nat
  BY <1>1, <1>2
<1> PICK x, y, n, e : x = SumOf(f, D) /\ y = SumOf(f, E) /\ n = Cardinality(D) /\ e = Cardinality(E)
  OBVIOUS
<1> QED
  BY <1>3, <1>4, <1>5, <1>6

(* g says of h[x] what f says of x, and T are the names of S.              *)
Renames(f, D, S, g, E, h) ==
    /\ f \in [D -> Nat] /\ S \in SUBSET D /\ g \in [E -> Nat] /\ h \in [S -> E]
    /\ \A x, y \in S : h[x] = h[y] => x = y
    /\ \A x \in S : g[h[x]] = f[x]
    /\ \A y \in E : \E x \in S : y = h[x]

LEMMA SumOfAll ==
    ASSUME NEW D, IsFiniteSet(D), NEW f, NEW S, NEW E, IsFiniteSet(E), NEW g, NEW h, Renames(f, D, S, g, E, h)
    PROVE  SumOf(f, S) = SumOf(g, E)
<1>1. {h[x] : x \in S} = E
  BY DEF Renames
<1>2. SumOf(f, S) = SumOf(g, {h[x] : x \in S})
  BY SumRenamed DEF Renames
<1> QED
  BY <1>1, <1>2, Zenon

------------------------------------------------------------------------------
(* R puts the elements of S in a strict total order.                       *)
InOrder(R, S) ==
    /\ \A x \in S : <<x, x>> \notin R
    /\ \A x, y \in S : x # y => <<x, y>> \in R \/ <<y, x>> \in R
    /\ \A x, y, z \in S : <<x, y>> \in R /\ <<y, z>> \in R => <<x, z>> \in R

Ahead(R, S, x) == {y \in S : <<y, x>> \in R}

(* Who is ahead has fewer ahead of it.                                     *)
LEMMA FewerAhead ==
    ASSUME NEW S, IsFiniteSet(S), NEW R, InOrder(R, S), NEW x \in S, NEW y \in S, <<x, y>> \in R
    PROVE  /\ Cardinality(Ahead(R, S, x)) \in Nat /\ Cardinality(Ahead(R, S, y)) \in Nat
           /\ Cardinality(Ahead(R, S, x)) < Cardinality(Ahead(R, S, y))
<1> DEFINE A == Ahead(R, S, x)
           B == Ahead(R, S, y)
<1>1. A \in SUBSET S /\ B \in SUBSET S
  BY DEF Ahead
<1>2. IsFiniteSet(A) /\ IsFiniteSet(B) /\ Cardinality(A) \in Nat /\ Cardinality(B) \in Nat
  BY <1>1, FS_Subset, FS_CardinalityType
<1>3. A \in SUBSET (B \ {x}) /\ x \in B
  BY DEF InOrder, Ahead
<1>4. IsFiniteSet(B \ {x}) /\ Cardinality(B \ {x}) = Cardinality(B) - 1
  <2> HIDE DEF A, B
  <2> QED
    BY <1>2, <1>3, FS_RemoveElement
<1>5. Cardinality(A) <= Cardinality(B \ {x})
  <2> HIDE DEF A, B
  <2> QED
    BY <1>3, <1>4, FS_Subset
<1> HIDE DEF A, B
<1> QED
  BY <1>2, <1>4, <1>5 DEF A, B

(* The first n of an order are no more than n.                             *)
LEMMA FirstAreFew ==
    ASSUME NEW S, IsFiniteSet(S), NEW R, InOrder(R, S), NEW n \in Nat,
           NEW T, T = {x \in S : Cardinality(Ahead(R, S, x)) < n}
    PROVE  IsFiniteSet(T) /\ Cardinality(T) \in Nat /\ Cardinality(T) <= n
<1> DEFINE f == [x \in T |-> Cardinality(Ahead(R, S, x)) + 1]
<1>1. T \in SUBSET S /\ IsFiniteSet(T) /\ Cardinality(T) \in Nat
  <2>1. T \in SUBSET S
    OBVIOUS
  <2> QED
    BY <2>1, FS_Subset, FS_CardinalityType
<1>2. ASSUME NEW x \in T
      PROVE  Cardinality(Ahead(R, S, x)) \in Nat
  <2>1. Ahead(R, S, x) \in SUBSET S
    BY DEF Ahead
  <2> QED
    BY <2>1, FS_Subset, FS_CardinalityType
<1>3. f \in [T -> 1..n]
  BY <1>2
<1>4. \A x, y \in T : f[x] = f[y] => x = y
  <2> SUFFICES ASSUME NEW x \in T, NEW y \in T, x # y PROVE f[x] # f[y]
    OBVIOUS
  <2>1. <<x, y>> \in R \/ <<y, x>> \in R
    BY DEF InOrder
  <2>2. f[x] = Cardinality(Ahead(R, S, x)) + 1 /\ f[y] = Cardinality(Ahead(R, S, y)) + 1
    OBVIOUS
  <2>3. CASE <<x, y>> \in R
    BY <1>2, <2>2, <2>3, FewerAhead
  <2>4. CASE <<y, x>> \in R
    BY <1>2, <2>2, <2>4, FewerAhead
  <2> QED
    BY <2>1, <2>3, <2>4
<1> HIDE DEF f
<1>5. f \in Injection(T, 1..n)
  BY <1>3, <1>4 DEF Injection, IsInjective
<1>6. IsFiniteSet(1..n) /\ Cardinality(1..n) = n
  BY FS_Interval
<1> QED
  BY <1>1, <1>5, <1>6, FS_Injection

------------------------------------------------------------------------------
(* What holds of the empty set and is passed on by every element holds of  *)
(* every part of a finite set.                                             *)
LEMMA SubsetInduction ==
    ASSUME NEW D, IsFiniteSet(D), NEW G, {} \in G,
           \A S \in SUBSET D : \A x \in S : S \ {x} \in G => S \in G
    PROVE  \A S \in SUBSET D : S \in G
<1> PICK L : L = Cardinality(D)
  OBVIOUS
<1>1. L \in Nat
  BY FS_CardinalityType
<1> DEFINE All(n) == \A S \in SUBSET D : Cardinality(S) <= n => S \in G
           H == {n \in 0..L : All(n)}
<1>2. 0 \in H
  <2>1. All(0)
    BY NoneIn
  <2> HIDE DEF All
  <2> QED
    BY <1>1, <2>1
<1>3. ASSUME NEW n \in 1..L, n - 1 \in H PROVE n \in H
  <2>1. All(n)
    <3> SUFFICES ASSUME NEW S \in SUBSET D, Cardinality(S) <= n, S # {} PROVE S \in G
      OBVIOUS
    <3>1. PICK x : x \in S
      OBVIOUS
    <3>2. PICK T : T = S \ {x}
      OBVIOUS
    <3>3. T \in SUBSET D /\ Cardinality(S) \in Nat /\ Cardinality(T) = Cardinality(S) - 1
      BY <3>1, <3>2, SmallerWithout
    <3>4. All(n - 1) /\ Cardinality(T) <= n - 1
      BY <1>3, <3>3
    <3>5. T \in G
      BY <3>3, <3>4
    <3> QED
      BY <3>1, <3>2, <3>5
  <2>2. n \in 0..L
    BY <1>1
  <2> HIDE DEF All
  <2> QED
    BY <2>1, <2>2
<1> HIDE DEF H
<1>4. \A n \in 0..L : n \in H
  BY <1>1, <1>2, <1>3, SetInduction
<1>5. All(L)
  BY <1>1, <1>4 DEF H
<1>6. \A S \in SUBSET D : Cardinality(S) <= L
  BY FS_Subset
<1> QED
  BY <1>5, <1>6

(* A sum is at least (at most) c times another when every summand is.      *)
LEMMA SumOfMore ==
    ASSUME NEW D, IsFiniteSet(D), NEW f \in [D -> Nat], NEW g \in [D -> Nat], NEW c \in Nat,
           \A x \in D : f[x] >= c * g[x]
    PROVE  SumOf(f, D) \in Nat /\ SumOf(g, D) \in Nat /\ SumOf(f, D) >= c * SumOf(g, D)
<1>1. /\ SumOf(f, {}) = 0 /\ SumOf(g, {}) = 0
      /\ \A S \in SUBSET D : SumOf(f, S) \in Nat /\ SumOf(g, S) \in Nat
      /\ \A S \in SUBSET D : \A x \in S : /\ SumOf(f, S) = f[x] + SumOf(f, S \ {x})
                                          /\ SumOf(g, S) = g[x] + SumOf(g, S \ {x})
  BY SumWithout
<1> DEFINE G == {S \in SUBSET D : SumOf(f, S) >= c * SumOf(g, S)}
<1>2. {} \in G
  <2>1. c * 0 = 0
    OBVIOUS
  <2>2. SumOf(f, {}) >= c * SumOf(g, {})
    BY <1>1, <2>1
  <2> QED
    BY <2>2
<1>3. ASSUME NEW S \in SUBSET D, NEW x \in S, S \ {x} \in G PROVE S \in G
  <2>1. PICK T : T = S \ {x}
    OBVIOUS
  <2>2. T \in SUBSET D /\ SumOf(f, T) >= c * SumOf(g, T)
    BY <1>3, <2>1
  <2>3. SumOf(f, S) = f[x] + SumOf(f, T) /\ SumOf(g, S) = g[x] + SumOf(g, T)
    BY <1>1, <2>1
  <2>4. PICK p, q, r, t : p = SumOf(f, T) /\ q = SumOf(g, T) /\ r = f[x] /\ t = g[x]
    OBVIOUS
  <2>5. p \in Nat /\ q \in Nat /\ r \in Nat /\ t \in Nat /\ p >= c * q /\ r >= c * t
    BY <1>1, <2>2, <2>4
  <2>6. c * (t + q) = c * t + c * q
    BY <2>5
  <2>7. r + p >= c * (t + q)
    BY <2>5, <2>6
  <2> QED
    BY <2>3, <2>4, <2>7
<1> HIDE DEF G
<1>4. D \in G
  <2>1. \A S \in SUBSET D : S \in G
    BY <1>2, <1>3, SubsetInduction, Zenon
  <2> QED
    BY <2>1
<1> QED
  BY <1>1, <1>4 DEF G

LEMMA SumOfLess ==
    ASSUME NEW D, IsFiniteSet(D), NEW f \in [D -> Nat], NEW g \in [D -> Nat], NEW c \in Nat,
           \A x \in D : f[x] <= c * g[x]
    PROVE  SumOf(f, D) \in Nat /\ SumOf(g, D) \in Nat /\ SumOf(f, D) <= c * SumOf(g, D)
<1>1. /\ SumOf(f, {}) = 0 /\ SumOf(g, {}) = 0
      /\ \A S \in SUBSET D : SumOf(f, S) \in Nat /\ SumOf(g, S) \in Nat
      /\ \A S \in SUBSET D : \A x \in S : /\ SumOf(f, S) = f[x] + SumOf(f, S \ {x})
                                          /\ SumOf(g, S) = g[x] + SumOf(g, S \ {x})
  BY SumWithout
<1> DEFINE G == {S \in SUBSET D : SumOf(f, S) <= c * SumOf(g, S)}
<1>2. {} \in G
  <2>1. c * 0 = 0
    OBVIOUS
  <2>2. SumOf(f, {}) <= c * SumOf(g, {})
    BY <1>1, <2>1
  <2> QED
    BY <2>2
<1>3. ASSUME NEW S \in SUBSET D, NEW x \in S, S \ {x} \in G PROVE S \in G
  <2>1. PICK T : T = S \ {x}
    OBVIOUS
  <2>2. T \in SUBSET D /\ SumOf(f, T) <= c * SumOf(g, T)
    BY <1>3, <2>1
  <2>3. SumOf(f, S) = f[x] + SumOf(f, T) /\ SumOf(g, S) = g[x] + SumOf(g, T)
    BY <1>1, <2>1
  <2>4. PICK p, q, r, t : p = SumOf(f, T) /\ q = SumOf(g, T) /\ r = f[x] /\ t = g[x]
    OBVIOUS
  <2>5. p \in Nat /\ q \in Nat /\ r \in Nat /\ t \in Nat /\ p <= c * q /\ r <= c * t
    BY <1>1, <2>2, <2>4
  <2>6. c * (t + q) = c * t + c * q
    BY <2>5
  <2>7. r + p <= c * (t + q)
    BY <2>5, <2>6
  <2> QED
    BY <2>3, <2>4, <2>7
<1> HIDE DEF G
<1>4. D \in G
  <2>1. \A S \in SUBSET D : S \in G
    BY <1>2, <1>3, SubsetInduction, Zenon
  <2> QED
    BY <2>1
<1> QED
  BY <1>1, <1>4 DEF G

(* In a strict total order of a finite set every place is taken.           *)
LEMMA EveryRankIsTaken ==
    ASSUME NEW S, IsFiniteSet(S), NEW R, InOrder(R, S), NEW n \in 0..(Cardinality(S) - 1)
    PROVE  \E x \in S : Cardinality(Ahead(R, S, x)) = n
<1> DEFINE place == [x \in S |-> Cardinality(Ahead(R, S, x))]
<1>1. ASSUME NEW x \in S PROVE Cardinality(Ahead(R, S, x)) \in 0..(Cardinality(S) - 1)
  <2>1. Ahead(R, S, x) \in SUBSET (S \ {x})
    BY DEF Ahead, InOrder
  <2>2. IsFiniteSet(S \ {x}) /\ Cardinality(S) \in Nat /\ Cardinality(S \ {x}) = Cardinality(S) - 1
    BY FS_RemoveElement, FS_CardinalityType
  <2>3. PICK A : A = Ahead(R, S, x)
    OBVIOUS
  <2>4. PICK T : T = S \ {x}
    OBVIOUS
  <2>5. IsFiniteSet(T) /\ A \in SUBSET T
    BY <2>1, <2>2, <2>3, <2>4
  <2>6. IsFiniteSet(A) /\ Cardinality(A) <= Cardinality(T)
    BY <2>5, FS_Subset
  <2>7. Cardinality(A) \in Nat
    BY <2>6, FS_CardinalityType
  <2> QED
    BY <2>2, <2>3, <2>4, <2>6, <2>7
<1>2. place \in [S -> 0..(Cardinality(S) - 1)]
  BY <1>1
<1>3. ASSUME NEW x \in S, NEW y \in S, x # y PROVE place[x] # place[y]
  <2>1. CASE <<x, y>> \in R
    BY <2>1, FewerAhead
  <2>2. CASE <<y, x>> \in R
    BY <2>2, FewerAhead
  <2> QED
    BY <1>3, <2>1, <2>2 DEF InOrder
<1>4. \A x \in S : place[x] = Cardinality(Ahead(R, S, x))
  OBVIOUS
<1> HIDE DEF place
<1>5. \E x \in S : place[x] = n
  BY <1>2, <1>3, PlacesAreTaken
<1> QED
  BY <1>4, <1>5

------------------------------------------------------------------------------
(* The first n in an order, and what they have ahead of them.              *)
Foremost(R, S, n) == {x \in S : Cardinality(Ahead(R, S, x)) < n}

LEMMA AheadIsFinite ==
    ASSUME NEW S, IsFiniteSet(S), NEW R, NEW x
    PROVE  /\ IsFiniteSet(Ahead(R, S, x)) /\ Cardinality(Ahead(R, S, x)) \in Nat
           /\ \A T \in SUBSET Ahead(R, S, x) :
                 IsFiniteSet(T) /\ Cardinality(T) \in Nat /\ Cardinality(T) <= Cardinality(Ahead(R, S, x))
<1>1. Ahead(R, S, x) \in SUBSET S
  BY DEF Ahead
<1>2. PICK A : A = Ahead(R, S, x)
  OBVIOUS
<1>3. IsFiniteSet(A) /\ Cardinality(A) \in Nat
  BY <1>1, <1>2, FS_Subset, FS_CardinalityType
<1>4. ASSUME NEW T \in SUBSET A
      PROVE  IsFiniteSet(T) /\ Cardinality(T) \in Nat /\ Cardinality(T) <= Cardinality(A)
  BY <1>3, FS_Subset, FS_CardinalityType
<1> QED
  BY <1>2, <1>3, <1>4

(* A strict order that may leave elements unrelated.                       *)
PartialOrder(R, S) ==
    /\ \A x \in S : <<x, x>> \notin R
    /\ \A x, y, z \in S : <<x, y>> \in R /\ <<y, z>> \in R => <<x, z>> \in R

(* Where fewer than n are ahead, all that are ahead are among the first n; *)
(* where n are ahead, n of the first n are.                                *)
LEMMA FirstAhead ==
    ASSUME NEW X, IsFiniteSet(X), NEW U, X \subseteq U, NEW R, PartialOrder(R, U), NEW n \in Nat, NEW x \in U
    PROVE  /\ Cardinality(Ahead(R, X, x)) < n => Ahead(R, Foremost(R, X, n), x) = Ahead(R, X, x)
           /\ Cardinality(Ahead(R, X, x)) >= n => Cardinality(Ahead(R, Foremost(R, X, n), x)) >= n
<1> PICK T : T = Foremost(R, X, n)
  OBVIOUS
<1>1. T \in SUBSET X /\ \A y \in X : y \in T <=> Cardinality(Ahead(R, X, y)) < n
  BY DEF Foremost
<1>2. \A y : Cardinality(Ahead(R, X, y)) \in Nat
  BY AheadIsFinite
<1>3. ASSUME NEW y \in X, NEW z \in U, <<y, z>> \in R
      PROVE  Ahead(R, X, y) \in SUBSET Ahead(R, X, z)
  BY <1>3 DEF Ahead, PartialOrder
<1>4. ASSUME Cardinality(Ahead(R, X, x)) < n PROVE Ahead(R, T, x) = Ahead(R, X, x)
  <2>1. ASSUME NEW y \in Ahead(R, X, x) PROVE y \in T
    <3>1. y \in X /\ <<y, x>> \in R
      BY DEF Ahead
    <3>2. Ahead(R, X, y) \in SUBSET Ahead(R, X, x)
      BY <1>3, <3>1
    <3>3. Cardinality(Ahead(R, X, y)) <= Cardinality(Ahead(R, X, x))
      BY <3>2, AheadIsFinite
    <3> QED
      BY <1>1, <1>2, <1>4, <3>1, <3>3
  <2> QED
    BY <1>1, <2>1 DEF Ahead
<1>5. ASSUME Cardinality(Ahead(R, X, x)) >= n PROVE Cardinality(Ahead(R, T, x)) >= n
  <2>1. IsFiniteSet(T)
    BY <1>1, FS_Subset
  <2>2. Cardinality(Ahead(R, T, x)) \in Nat
    BY <2>1, AheadIsFinite
  <2>3. CASE Ahead(R, X, x) \in SUBSET T
    <3>1. Ahead(R, X, x) = Ahead(R, T, x)
      BY <1>1, <2>3 DEF Ahead
    <3> QED
      BY <1>5, <3>1
  <2>4. CASE ~(Ahead(R, X, x) \in SUBSET T)
    <3> DEFINE L == {y \in Ahead(R, X, x) : y \notin T}
               N == {Cardinality(Ahead(R, X, y)) : y \in L}
    <3>1. PICK z \in L : \A y \in L : Cardinality(Ahead(R, X, z)) <= Cardinality(Ahead(R, X, y))
      <4>1. N \in SUBSET Nat /\ N # {}
        BY <1>2, <2>4
      <4>2. PICK m \in N : \A n_1 \in N : m <= n_1
        <5> HIDE DEF N
        <5> QED
          BY <4>1, LeastNumber
      <4> QED
        BY <4>2
    <3>2. z \in X /\ z \in U /\ <<z, x>> \in R /\ z \notin T
      BY DEF Ahead
    <3>3. Cardinality(Ahead(R, X, z)) >= n
      BY <1>1, <1>2, <3>2
    <3>4. ASSUME NEW y \in Ahead(R, X, z) PROVE y \in T /\ <<y, x>> \in R
      <4>1. y \in X /\ y \in U /\ <<y, z>> \in R
        BY DEF Ahead
      <4>2. <<y, x>> \in R
        BY <3>2, <4>1 DEF PartialOrder
      <4>3. Ahead(R, X, y) \in SUBSET Ahead(R, X, z) /\ y \notin Ahead(R, X, y)
        BY <1>3, <3>2, <4>1 DEF Ahead, PartialOrder
      <4> PICK A, B : A = Ahead(R, X, y) /\ B = Ahead(R, X, z)
        OBVIOUS
      <4>4. /\ IsFiniteSet(A \cup {y}) /\ Cardinality(A \cup {y}) = Cardinality(A) + 1
            /\ A \cup {y} \in SUBSET B
        <5>1. IsFiniteSet(A)
          BY AheadIsFinite
        <5>2. IsFiniteSet(A \cup {y}) /\ Cardinality(A \cup {y}) = Cardinality(A) + 1
          BY <4>3, <5>1, FS_AddElement
        <5> QED
          BY <4>3, <5>2
      <4>5. Cardinality(A) < Cardinality(B)
        <5> PICK C : C = A \cup {y}
          OBVIOUS
        <5>1. Cardinality(C) <= Cardinality(B)
          BY <4>4, AheadIsFinite
        <5> QED
          BY <1>2, <4>4, <5>1
      <4>6. y \in T
        <5> SUFFICES ASSUME y \notin T PROVE FALSE
          OBVIOUS
        <5>1. y \in L
          BY <4>1, <4>2 DEF Ahead
        <5>2. Cardinality(B) <= Cardinality(A)
          BY <3>1, <5>1
        <5> QED
          BY <1>2, <4>5, <5>2
      <4> QED
        BY <4>2, <4>6
    <3>5. Ahead(R, X, z) \in SUBSET Ahead(R, T, x)
      BY <3>4 DEF Ahead
    <3>6. Cardinality(Ahead(R, X, z)) <= Cardinality(Ahead(R, T, x))
      BY <2>1, <3>5, AheadIsFinite
    <3> QED
      BY <1>2, <2>2, <3>3, <3>6
  <2> QED
    BY <2>3, <2>4
<1> QED
  BY <1>4, <1>5

(* With an element, H holds all of S that is ahead of it.                  *)
Upward(R, S, H) == \A x \in S, y \in S : x \in H /\ <<y, x>> \in R => y \in H

(* Keeping only the first n of what is there, before more arrives and some *)
(* of the last ones leave, does not change what the first n then are.      *)
LEMMA FirstOfFirst ==
    ASSUME NEW X, IsFiniteSet(X), NEW Q, IsFiniteSet(Q), NEW R, PartialOrder(R, X \cup Q), NEW n \in Nat, NEW H,
           Upward(R, X \cup Q, H)
    PROVE  Foremost(R, (Foremost(R, X, n) \cup Q) \cap H, n) = Foremost(R, (X \cup Q) \cap H, n)
<1> PICK D : D = (X \cup Q) \cap H
  OBVIOUS
<1> PICK E : E = (Foremost(R, X, n) \cup Q) \cap H
  OBVIOUS
<1>0. \A x \in X \cup Q, y \in X \cup Q : x \in H /\ <<y, x>> \in R => y \in H
  BY DEF Upward
<1> PICK U : U = X \cup Q
  OBVIOUS
<1> PICK T : T = Foremost(R, X, n)
  OBVIOUS
<1>1. T \in SUBSET X /\ \A y \in X : y \in T <=> Cardinality(Ahead(R, X, y)) < n
  BY DEF Foremost
<1>2. IsFiniteSet(U) /\ IsFiniteSet(D) /\ IsFiniteSet(E)
  <2>1. IsFiniteSet(U)
    BY FS_Union
  <2>2. D \in SUBSET U /\ E \in SUBSET U
    BY <1>1
  <2> QED
    BY <2>1, <2>2, FS_Subset
<1>3. E \in SUBSET D
  BY <1>1
<1>4. ASSUME NEW x \in D
      PROVE  x \in Foremost(R, E, n) <=> x \in Foremost(R, D, n)
  <2>1. x \in U /\ x \in H /\ PartialOrder(R, U) /\ X \subseteq U
    OBVIOUS
  <2>2. Ahead(R, E, x) = Ahead(R, T, x) \cup Ahead(R, Q, x)
    BY <1>0, <1>1, <2>1 DEF Ahead
  <2>3. Ahead(R, D, x) = Ahead(R, X, x) \cup Ahead(R, Q, x)
    BY <1>0, <2>1 DEF Ahead
  <2>4. CASE Cardinality(Ahead(R, X, x)) < n
    <3>1. Ahead(R, T, x) = Ahead(R, X, x)
      BY <2>1, <2>4, FirstAhead
    <3>2. Ahead(R, E, x) = Ahead(R, D, x)
      BY <2>2, <2>3, <3>1
    <3>3. x \in E
      BY <1>1, <2>1, <2>4
    <3> QED
      BY <3>2, <3>3 DEF Foremost
  <2>5. CASE ~(Cardinality(Ahead(R, X, x)) < n)
    <3>1. Cardinality(Ahead(R, X, x)) \in Nat
      BY AheadIsFinite
    <3>2. Cardinality(Ahead(R, T, x)) >= n
      BY <2>1, <2>5, <3>1, FirstAhead
    <3>3. /\ Cardinality(Ahead(R, T, x)) <= Cardinality(Ahead(R, E, x))
          /\ Cardinality(Ahead(R, T, x)) \in Nat /\ Cardinality(Ahead(R, E, x)) \in Nat
      BY <1>2, <2>2, AheadIsFinite
    <3>4. /\ Cardinality(Ahead(R, X, x)) <= Cardinality(Ahead(R, D, x))
          /\ Cardinality(Ahead(R, D, x)) \in Nat
      BY <1>2, <2>3, AheadIsFinite
    <3> QED
      BY <2>5, <3>1, <3>2, <3>3, <3>4 DEF Foremost
  <2> QED
    BY <2>4, <2>5
<1>5. Foremost(R, E, n) \subseteq D /\ Foremost(R, D, n) \subseteq D
  BY <1>3 DEF Foremost
<1> QED
  BY <1>4, <1>5
==============================================================================
