-------------------------- MODULE ConfigurationProofs --------------------------
(***************************************************************************)
(* Lemmas about the operators of Configuration that go through lists in    *)
(* order: InOrder itself, the cleaning of a path, and the picker's page.   *)
(* InOrder is determined by ranks, so what holds of it follows from facts  *)
(* about cardinalities, with no induction over the list.                   *)
(***************************************************************************)
EXTENDS Configuration, FiniteSetTheorems, SequenceTheorems, TLAPS

-----------------------------------------------------------------------------
(* The rank of an element, and that ranks count up from 1 without a gap.   *)
UpTo(I, i) == {j \in I : j <= i}
Rank(I, i) == Cardinality(UpTo(I, i))

LEMMA Ranks ==
  ASSUME NEW n \in Nat, NEW I \in SUBSET (1..n)
  PROVE  /\ IsFiniteSet(I) /\ Cardinality(I) \in Nat
         /\ \A i \in I : IsFiniteSet(UpTo(I, i)) /\ Rank(I, i) \in 1..Cardinality(I)
         /\ \A i, j \in I : i < j => Rank(I, i) < Rank(I, j)
         /\ \A k \in 1..Cardinality(I) : \E i \in I : Rank(I, i) = k
<1>1. IsFiniteSet(I) /\ Cardinality(I) \in Nat
  <2>1. IsFiniteSet(1..n)
    BY FS_Interval
  <2> QED
    BY <2>1, FS_Subset, FS_CardinalityType
<1>2. ASSUME NEW i \in I
      PROVE  IsFiniteSet(UpTo(I, i)) /\ Rank(I, i) \in 1..Cardinality(I)
  <2>1. UpTo(I, i) \in SUBSET I
    BY DEF UpTo
  <2>2. IsFiniteSet(UpTo(I, i)) /\ Rank(I, i) <= Cardinality(I)
    BY <1>1, <2>1, FS_Subset DEF Rank
  <2>3. Rank(I, i) \in Nat
    BY <2>2, FS_CardinalityType DEF Rank
  <2>4. i \in UpTo(I, i)
    BY DEF UpTo
  <2>5. Rank(I, i) # 0
    BY <2>2, <2>4, FS_EmptySet DEF Rank
  <2> QED
    BY <1>1, <2>2, <2>3, <2>5
<1>3. ASSUME NEW i \in I, NEW j \in I, i < j
      PROVE  Rank(I, i) < Rank(I, j)
  <2>0. \A m \in I : m \in Int
    OBVIOUS
  <2>1. j \notin UpTo(I, i) /\ UpTo(I, i) \cup {j} \in SUBSET UpTo(I, j)
    <3>1. ~(j <= i)
      BY <1>3, <2>0
    <3>2. \A m \in I : m <= i => m <= j
      BY <1>3, <2>0
    <3>3. j <= j
      BY <2>0
    <3> QED
      BY <3>1, <3>2, <3>3 DEF UpTo
  <2>2. Cardinality(UpTo(I, i) \cup {j}) = Rank(I, i) + 1
    BY <1>2, <2>1, FS_AddElement DEF Rank
  <2>3. Cardinality(UpTo(I, i) \cup {j}) <= Rank(I, j)
    BY <1>2, <2>1, FS_Subset DEF Rank
  <2> QED
    BY <1>2, <2>2, <2>3
<1>4. \A k \in 1..Cardinality(I) : \E i \in I : Rank(I, i) = k
  <2> DEFINE N == Cardinality(I)
             f == [i \in I |-> Rank(I, i)]
  <2>1. IsFiniteSet(1..N) /\ Cardinality(1..N) = N
    BY <1>1, FS_Interval
  <2>2. \A i, j \in I : f[i] = f[j] => i = j
    BY <1>2, <1>3
  <2>3. f \in Injection(I, 1..N)
    BY <1>2, <2>2 DEF Injection, IsInjective
  <2>4. f \in Surjection(I, 1..N)
    BY <2>1, <2>3, FS_Injection
  <2> QED
    BY <2>4 DEF Surjection
<1> QED
  BY <1>1, <1>2, <1>3, <1>4

LEMMA RankDetermines ==
  ASSUME NEW n \in Nat, NEW I \in SUBSET (1..n), NEW i \in I, NEW j \in I,
         Rank(I, i) = Rank(I, j)
  PROVE  i = j
<1>1. i \in Int /\ j \in Int
  OBVIOUS
<1>2. Rank(I, i) \in Int
  <2>1. Cardinality(I) \in Nat /\ Rank(I, i) \in 1..Cardinality(I)
    BY Ranks
  <2> QED
    BY <2>1
<1>3. \A k, l \in I : k < l => Rank(I, k) < Rank(I, l)
  BY Ranks
<1>4. ~(i < j) /\ ~(j < i)
  BY <1>2, <1>3
<1> QED
  BY <1>1, <1>4

LEMMA InOrderRanks ==
  ASSUME NEW n \in Nat, NEW I \in SUBSET (1..n)
  PROVE  /\ Cardinality(I) \in Nat
         /\ DOMAIN InOrder(I) = 1..Cardinality(I)
         /\ \A k \in 1..Cardinality(I) : InOrder(I)[k] \in I /\ Rank(I, InOrder(I)[k]) = k
<1> DEFINE q == InOrder(I)
           N == Cardinality(I)
<1>0. q = [k \in 1..N |-> CHOOSE i \in I : Rank(I, i) = k]
  BY DEF InOrder, Rank, UpTo
<1> HIDE DEF q
<1>1. N \in Nat
  BY Ranks
<1>2. ASSUME NEW k \in 1..N PROVE q[k] \in I /\ Rank(I, q[k]) = k
  <2>1. \E i \in I : Rank(I, i) = k
    BY Ranks
  <2>2. q[k] = CHOOSE i \in I : Rank(I, i) = k
    BY <1>0
  <2> QED
    BY <2>1, <2>2
<1>3. DOMAIN q = 1..N
  BY <1>0
<1> QED
  BY <1>1, <1>2, <1>3 DEF q

(* InOrder lists each number of the set once, and in order ...             *)
LEMMA InOrderLists ==
  ASSUME NEW n \in Nat, NEW I \in SUBSET (1..n)
  PROVE  LET q == InOrder(I)
         IN  /\ Cardinality(I) \in Nat
             /\ q \in [1..Cardinality(I) -> I] /\ q \in Seq(I) /\ Len(q) = Cardinality(I)
             /\ \A i \in I : \E k \in DOMAIN q : q[k] = i
             /\ \A k, l \in DOMAIN q : k < l => q[k] < q[l]
             /\ \A k, l \in DOMAIN q : q[k] = q[l] => k = l
<1> DEFINE q == InOrder(I)
           N == Cardinality(I)
<1>1. /\ N \in Nat /\ DOMAIN q = 1..N
      /\ \A k \in 1..N : q[k] \in I /\ Rank(I, q[k]) = k
  BY InOrderRanks
<1>2. q = [k \in 1..N |-> q[k]]
  BY DEF InOrder
<1> HIDE DEF q
<1>3. q \in [1..N -> I]
  BY <1>1, <1>2
<1>4. q \in Seq(I) /\ Len(q) = N
  BY <1>1, <1>3
<1>5. ASSUME NEW i \in I PROVE \E k \in 1..N : q[k] = i
  <2>1. Rank(I, i) \in 1..N
    BY Ranks
  <2>2. q[Rank(I, i)] \in I /\ Rank(I, q[Rank(I, i)]) = Rank(I, i)
    BY <1>1, <2>1
  <2>3. q[Rank(I, i)] = i
    BY <2>2, RankDetermines
  <2> QED
    BY <2>1, <2>3
<1>6. ASSUME NEW k \in 1..N, NEW l \in 1..N, k < l PROVE q[k] < q[l]
  <2>1. q[k] \in I /\ q[l] \in I /\ Rank(I, q[k]) = k /\ Rank(I, q[l]) = l
    BY <1>1
  <2>2. q[k] \in Int /\ q[l] \in Int /\ k \in Int /\ l \in Int
    <3>1. \A i \in I : i \in Int
      OBVIOUS
    <3>2. N \in Int
      BY <1>1
    <3>3. k \in Int /\ l \in Int
      BY <3>2
    <3>4. q[k] \in Int /\ q[l] \in Int
      BY <2>1, <3>1
    <3> QED
      BY <3>3, <3>4
  <2>3. \A i, j \in I : i < j => Rank(I, i) < Rank(I, j)
    BY Ranks
  <2>4. ~(q[l] < q[k]) /\ q[k] # q[l]
    BY <1>6, <2>1, <2>2, <2>3
  <2>5. \A a, b \in Int : ~(b < a) /\ a # b => a < b
    OBVIOUS
  <2> QED
    BY <2>2, <2>4, <2>5
<1>7. \A k, l \in 1..N : q[k] = q[l] => k = l
  BY <1>1
<1> QED
  BY <1>1, <1>3, <1>4, <1>5, <1>6, <1>7 DEF q

(* ... and whatever lists them so is InOrder.                              *)
LEMMA InOrderUnique ==
  ASSUME NEW n \in Nat, NEW I \in SUBSET (1..n), NEW k \in Nat, NEW e \in [1..k -> I],
         \A l, m \in 1..k : l < m => e[l] < e[m],
         \A i \in I : \E m \in 1..k : e[m] = i
  PROVE  e = InOrder(I) /\ Cardinality(I) = k
<1>0. /\ \A i \in I : i \in Int
      /\ \A m \in 1..k : m \in Int /\ e[m] \in I /\ e[m] \in Int
  <2>1. \A i \in I : i \in Int
    OBVIOUS
  <2>2. \A m \in 1..k : m \in Int
    OBVIOUS
  <2>3. \A m \in 1..k : e[m] \in I
    OBVIOUS
  <2> QED
    BY <2>1, <2>2, <2>3
<1>1. \A l, m \in 1..k : e[l] = e[m] => l = m
  BY <1>0
<1>2. \A l, m \in 1..k : e[l] <= e[m] <=> l <= m
  BY <1>0, <1>1
<1>3. ASSUME NEW m \in 1..k PROVE Rank(I, e[m]) = m
  <2> DEFINE f == [l \in 1..m |-> e[l]]
  <2>1. m \in Nat /\ 1..m \subseteq 1..k
    OBVIOUS
  <2>2. \A l \in 1..m : e[l] \in UpTo(I, e[m])
    BY <1>0, <1>2 DEF UpTo
  <2>3. \A i \in UpTo(I, e[m]) : \E l \in 1..m : e[l] = i
    BY <1>0, <1>2 DEF UpTo
  <2>4. f \in Bijection(1..m, UpTo(I, e[m]))
    BY <1>1, <2>1, <2>2, <2>3 DEF Bijection, Injection, Surjection, IsInjective
  <2>5. ExistsBijection(1..m, UpTo(I, e[m]))
    BY <2>4 DEF ExistsBijection
  <2> QED
    BY <2>1, <2>5, FS_CountingElements DEF Rank
<1>4. Cardinality(I) = k
  <2>1. e \in Bijection(1..k, I)
    BY <1>1 DEF Bijection, Injection, Surjection, IsInjective
  <2>2. ExistsBijection(1..k, I)
    BY <2>1 DEF ExistsBijection
  <2> QED
    BY <2>2, FS_CountingElements
<1>5. ASSUME NEW m \in 1..k PROVE InOrder(I)[m] = e[m]
  <2>1. InOrder(I)[m] \in I /\ Rank(I, InOrder(I)[m]) = m
    BY <1>4, InOrderRanks
  <2> QED
    BY <1>0, <1>3, <2>1, RankDetermines
<1>6. InOrder(I) \in [1..k -> I]
  BY <1>4, InOrderLists
<1> QED
  BY <1>4, <1>5, <1>6

-----------------------------------------------------------------------------
(* Cleaning a path.  What is left of it are the segments that are kept, in *)
(* their order; a clean path is left as it is, and a first segment that is *)
(* kept stays in front.                                                    *)
Counts(s) == s \notin {"", "."}
Plain(p) == \A i \in DOMAIN p : Counts(p[i])
Kept(p) == {i \in DOMAIN p : Counts(p[i])}

LEMMA CleanIsPlain ==
  ASSUME NEW p \in Seq(STRING)
  PROVE  /\ Kept(p) \in SUBSET (1..Len(p)) /\ Cardinality(Kept(p)) \in Nat
         /\ Clean(p) \in Seq(STRING) /\ Len(Clean(p)) = Cardinality(Kept(p))
         /\ \A m \in 1..Cardinality(Kept(p)) : Clean(p)[m] = p[InOrder(Kept(p))[m]]
         /\ Plain(Clean(p))
<1> DEFINE I == Kept(p)
           q == InOrder(I)
           N == Cardinality(I)
<1>1. Len(p) \in Nat /\ I \in SUBSET (1..Len(p))
  BY DEF Kept
<1>2. N \in Nat /\ q \in [1..N -> I]
  BY <1>1, InOrderLists
<1>3. Clean(p) = [m \in DOMAIN q |-> p[q[m]]]
  BY DEF Clean, Kept, Counts
<1> HIDE DEF q
<1>4. DOMAIN q = 1..N
  BY <1>2
<1>5. \A m \in 1..N : q[m] \in I
  BY <1>2
<1>6. \A i \in I : p[i] \in STRING /\ Counts(p[i])
  BY DEF Kept
<1> HIDE DEF I, N
<1>7. Clean(p) = [m \in 1..N |-> p[q[m]]]
  BY <1>3, <1>4
<1>8. \A m \in 1..N : p[q[m]] \in STRING
  BY <1>5, <1>6
<1>9. Clean(p) \in Seq(STRING) /\ Len(Clean(p)) = N
  BY <1>2, <1>7, <1>8
<1>10. Plain(Clean(p))
  BY <1>5, <1>6, <1>7 DEF Plain
<1>11. \A m \in 1..N : Clean(p)[m] = p[q[m]]
  BY <1>7
<1> QED
  BY <1>1, <1>2, <1>9, <1>10, <1>11 DEF I, N, q

LEMMA CleanIsIdempotent ==
  ASSUME NEW p \in Seq(STRING), Plain(p)
  PROVE  Clean(p) = p
<1> DEFINE n == Len(p)
           e == [m \in 1..n |-> m]
<1>1. n \in Nat /\ Kept(p) = 1..n
  BY DEF Kept, Plain
<1>2. e \in [1..n -> Kept(p)] /\ Kept(p) \in SUBSET (1..n)
  BY <1>1
<1>3. \A l, m \in 1..n : l < m => e[l] < e[m]
  OBVIOUS
<1>4. \A i \in Kept(p) : \E m \in 1..n : e[m] = i
  BY <1>1
<1> HIDE DEF n, e
<1>5. e = InOrder(Kept(p)) /\ Cardinality(Kept(p)) = n
  BY <1>1, <1>2, <1>3, <1>4, InOrderUnique
<1>6. Len(Clean(p)) = n /\ Clean(p) \in Seq(STRING)
  BY <1>5, CleanIsPlain
<1>7. \A m \in 1..n : Clean(p)[m] = p[e[m]]
  BY <1>5, CleanIsPlain
<1>8. \A m \in 1..n : Clean(p)[m] = p[m]
  BY <1>7 DEF e
<1> QED
  BY <1>6, <1>8, SeqEqual DEF n

LEMMA CleanKeepsHead ==
  ASSUME NEW p \in Seq(STRING), 1 \in Kept(p)
  PROVE  Clean(p) = <<Head(p)>> \o Clean(Tail(p))
<1> DEFINE t == Tail(p)
           n == Len(p)
           J == Kept(t)
           q == InOrder(J)
           N == Cardinality(J)
           e == [m \in 1..(N + 1) |-> IF m = 1 THEN 1 ELSE q[m - 1] + 1]
<1>a. 1 \in DOMAIN p
  BY DEF Kept
<1>0. p # <<>> /\ Head(p) = p[1]
  BY <1>a, EmptySeq
<1>1. n \in Nat \ {0} /\ DOMAIN p = 1..n
  BY <1>a
<1>2. /\ t \in Seq(STRING) /\ Len(t) = n - 1 /\ DOMAIN t = 1..(n - 1)
      /\ \A i \in 1..(n - 1) : t[i] = p[i + 1]
  BY <1>0, HeadTailProperties
<1> HIDE DEF t, n
<1>3. \A i \in 1..n : i \in Kept(p) <=> i = 1 \/ i - 1 \in J
  <2> SUFFICES ASSUME NEW i \in 1..n PROVE i \in Kept(p) <=> i = 1 \/ i - 1 \in J
    OBVIOUS
  <2>1. CASE i = 1
    BY <2>1
  <2>2. CASE i # 1
    <3>1. i - 1 \in 1..(n - 1) /\ (i - 1) + 1 = i
      BY <1>1, <2>2
    <3>2. t[i - 1] = p[i]
      BY <1>2, <3>1
    <3> QED
      BY <1>1, <1>2, <2>2, <3>1, <3>2 DEF Kept
  <2> QED
    BY <2>1, <2>2
<1>4. Kept(p) \in SUBSET (1..n) /\ J \in SUBSET (1..(n - 1)) /\ n - 1 \in Nat
  BY <1>1, <1>2 DEF Kept
<1>5a. /\ q \in [1..N -> J]
       /\ \A i \in J : \E m \in 1..N : q[m] = i
       /\ \A l, m \in 1..N : l < m => q[l] < q[m]
  BY <1>4, InOrderLists
<1>5. N \in Nat
  BY <1>4, InOrderLists
<1> HIDE DEF J, q, N
<1>6. \A m \in 1..N : q[m] \in J /\ q[m] \in 1..(n - 1)
  BY <1>4, <1>5a
<1>7. e[1] = 1 /\ \A m \in 2..(N + 1) : m - 1 \in 1..N /\ e[m] = q[m - 1] + 1
  BY <1>5
<1>8. e \in [1..(N + 1) -> Kept(p)]
  <2>1. ASSUME NEW m \in 1..(N + 1) PROVE e[m] \in Kept(p)
    <3>1. CASE m = 1
      BY <1>1, <1>3, <1>7, <3>1
    <3>2. CASE m # 1
      <4>1. m \in 2..(N + 1)
        BY <1>5, <3>2
      <4>2. q[m - 1] \in J /\ q[m - 1] \in 1..(n - 1) /\ e[m] = q[m - 1] + 1
        BY <1>6, <1>7, <4>1
      <4>3. e[m] \in 1..n /\ e[m] - 1 = q[m - 1]
        BY <1>1, <4>2
      <4> QED
        BY <1>3, <4>2, <4>3
    <3> QED
      BY <3>1, <3>2
  <2> QED
    BY <2>1
<1> HIDE DEF e
<1>9. ASSUME NEW l \in 1..(N + 1), NEW m \in 1..(N + 1), l < m PROVE e[l] < e[m]
  <2>1. m \in 2..(N + 1) /\ m - 1 \in 1..N /\ e[m] = q[m - 1] + 1 /\ q[m - 1] \in 1..(n - 1)
    BY <1>5, <1>6, <1>7, <1>9
  <2>2. CASE l = 1
    BY <1>1, <1>7, <2>1, <2>2
  <2>3. CASE l # 1
    <3>1. l \in 2..(N + 1) /\ l - 1 < m - 1
      BY <1>5, <1>9, <2>3
    <3>2. l - 1 \in 1..N /\ e[l] = q[l - 1] + 1 /\ q[l - 1] \in 1..(n - 1)
      BY <1>6, <1>7, <3>1
    <3>3. q[l - 1] < q[m - 1]
      BY <1>5a, <2>1, <3>1, <3>2
    <3> QED
      BY <1>1, <2>1, <3>2, <3>3
  <2> QED
    BY <2>2, <2>3
<1>10. ASSUME NEW i \in Kept(p) PROVE \E m \in 1..(N + 1) : e[m] = i
  <2>1. i \in 1..n
    BY <1>4
  <2>2. CASE i = 1
    BY <1>5, <1>7, <2>2
  <2>3. CASE i # 1
    <3>1. i - 1 \in J
      BY <1>3, <2>1, <2>3
    <3>2. PICK m \in 1..N : q[m] = i - 1
      BY <1>5a, <3>1
    <3>3. m + 1 \in 2..(N + 1) /\ m + 1 \in 1..(N + 1) /\ (m + 1) - 1 = m
      BY <1>5
    <3>4. e[m + 1] = q[m] + 1
      BY <1>7, <3>3
    <3>5. e[m + 1] = i
      BY <2>1, <3>2, <3>4
    <3> QED
      BY <3>3, <3>5
  <2> QED
    BY <2>2, <2>3
<1>11. n \in Nat /\ N + 1 \in Nat
  BY <1>1, <1>5
<1>12. e = InOrder(Kept(p)) /\ Cardinality(Kept(p)) = N + 1
  BY <1>4, <1>8, <1>9, <1>10, <1>11, InOrderUnique
<1>13. /\ Clean(p) \in Seq(STRING) /\ Len(Clean(p)) = N + 1
       /\ \A m \in 1..(N + 1) : Clean(p)[m] = p[e[m]]
  BY <1>12, CleanIsPlain
<1>14. /\ Clean(t) \in Seq(STRING) /\ Len(Clean(t)) = N
       /\ \A m \in 1..N : Clean(t)[m] = t[q[m]]
  BY <1>2, CleanIsPlain DEF J, q, N
<1> DEFINE r == <<p[1]>> \o Clean(t)
<1>15. /\ r \in Seq(STRING) /\ Len(r) = 1 + N
       /\ \A m \in 1..(1 + N) : r[m] = IF m <= 1 THEN p[1] ELSE Clean(t)[m - 1]
  <2>0. p[1] \in STRING
    BY <1>1
  <2> HIDE DEF r
  <2>1. <<p[1]>> \in Seq(STRING) /\ Len(<<p[1]>>) = 1 /\ <<p[1]>>[1] = p[1]
    BY <2>0
  <2>2. /\ r \in Seq(STRING) /\ Len(r) = 1 + N
        /\ \A m \in 1..(1 + N) : r[m] = IF m <= 1 THEN <<p[1]>>[m] ELSE Clean(t)[m - 1]
    BY <1>14, <2>1, ConcatProperties DEF r
  <2>3. \A m \in 1..(1 + N) : m <= 1 => m = 1
    BY <1>5
  <2> QED
    BY <2>1, <2>2, <2>3
<1> HIDE DEF r
<1>16. ASSUME NEW m \in 1..(N + 1) PROVE Clean(p)[m] = r[m]
  <2>1. CASE m = 1
    <3>1. m \in 1..(1 + N) /\ m <= 1
      BY <1>5, <2>1
    <3> QED
      BY <1>1, <1>7, <1>13, <1>15, <2>1, <3>1
  <2>2. CASE m # 1
    <3>1. m \in 2..(N + 1) /\ m \in 1..(1 + N) /\ ~(m <= 1)
      BY <1>5, <2>2
    <3>2. m - 1 \in 1..N /\ e[m] = q[m - 1] + 1 /\ q[m - 1] \in 1..(n - 1)
      BY <1>6, <1>7, <3>1
    <3>3. r[m] = t[q[m - 1]]
      BY <1>14, <1>15, <3>1, <3>2
    <3>4. Clean(p)[m] = p[q[m - 1] + 1]
      BY <1>13, <3>2
    <3> QED
      BY <1>2, <3>2, <3>3, <3>4
  <2> QED
    BY <2>1, <2>2
<1>17. Len(Clean(p)) = Len(r)
  BY <1>5, <1>13, <1>15
<1> QED
  BY <1>0, <1>13, <1>15, <1>16, <1>17, SeqEqual DEF r, t

-----------------------------------------------------------------------------
(* The picker's page.  Each of its lists is the cards of one group, each   *)
(* group with cards has one, and a group has two only if it is declared    *)
(* twice.                                                                  *)
GroupAt(c, n) ==
  IF n <= Len(Sections(c)) THEN c.groups[Sections(c)[n]].id
  ELSE c.personas[Extras(c)[n - Len(Sections(c))]].group

Grouped(c) == \E G, P \in Nat : DOMAIN c.groups = 1..G /\ DOMAIN c.personas = 1..P

LEMMA CardsListAGroup ==
  ASSUME NEW c, Grouped(c), NEW gid
  PROVE  /\ Cards(c, gid) \in Seq(DOMAIN c.personas)
         /\ DOMAIN Cards(c, gid) \in SUBSET (DOMAIN c.personas)
         /\ \A i \in DOMAIN c.personas : c.personas[i].group = gid =>
              \E k \in DOMAIN Cards(c, gid) : Cards(c, gid)[k] = i
         /\ \A k \in DOMAIN Cards(c, gid) : c.personas[Cards(c, gid)[k]].group = gid
         /\ \A k, l \in DOMAIN Cards(c, gid) : k < l => Cards(c, gid)[k] < Cards(c, gid)[l]
         /\ \A k, l \in DOMAIN Cards(c, gid) : Cards(c, gid)[k] = Cards(c, gid)[l] => k = l
<1> DEFINE I == {i \in DOMAIN c.personas : c.personas[i].group = gid}
           q == Cards(c, gid)
           N == Cardinality(I)
<1>1. PICK P \in Nat : DOMAIN c.personas = 1..P
  BY DEF Grouped
<1>2. q = InOrder(I)
  BY DEF Cards
<1>3. I \in SUBSET (1..P) /\ I \in SUBSET (DOMAIN c.personas)
  BY <1>1
<1>4. \A i \in I : c.personas[i].group = gid
  OBVIOUS
<1>5. \A i \in DOMAIN c.personas : c.personas[i].group = gid => i \in I
  OBVIOUS
<1> HIDE DEF I, q
<1>6. /\ N \in Nat /\ q \in [1..N -> I] /\ q \in Seq(I)
      /\ \A i \in I : \E k \in DOMAIN q : q[k] = i
      /\ \A k, l \in DOMAIN q : k < l => q[k] < q[l]
      /\ \A k, l \in DOMAIN q : q[k] = q[l] => k = l
  BY <1>2, <1>3, InOrderLists
<1>7. DOMAIN q \in SUBSET (1..P)
  <2>1. IsFiniteSet(1..P) /\ Cardinality(1..P) = P
    BY FS_Interval
  <2>2. N <= P
    BY <1>3, <2>1, FS_Subset
  <2>3. DOMAIN q = 1..N
    BY <1>6
  <2> QED
    BY <1>6, <2>2, <2>3
<1>8. q \in Seq(DOMAIN c.personas)
  BY <1>3, <1>6, SeqMonotonic
<1>9. \A k \in DOMAIN q : q[k] \in I
  BY <1>6
<1> QED
  BY <1>1, <1>4, <1>5, <1>6, <1>7, <1>8, <1>9 DEF q

LEMMA SectionsListGroups ==
  ASSUME NEW c, Grouped(c)
  PROVE  /\ Sections(c) \in Seq(DOMAIN c.groups)
         /\ \A k \in DOMAIN c.groups : Cards(c, c.groups[k].id) # <<>> =>
              \E n \in DOMAIN Sections(c) : Sections(c)[n] = k
         /\ \A n, m \in DOMAIN Sections(c) : Sections(c)[n] = Sections(c)[m] => n = m
<1> DEFINE I == {k \in DOMAIN c.groups : Cards(c, c.groups[k].id) # <<>>}
           q == Sections(c)
<1>1. PICK G \in Nat : DOMAIN c.groups = 1..G
  BY DEF Grouped
<1>2. q = InOrder(I)
  BY DEF Sections
<1>3. I \in SUBSET (1..G) /\ I \in SUBSET (DOMAIN c.groups)
  BY <1>1
<1>4. \A k \in DOMAIN c.groups : Cards(c, c.groups[k].id) # <<>> => k \in I
  OBVIOUS
<1> HIDE DEF I, q
<1>5. /\ q \in Seq(I)
      /\ \A k \in I : \E n \in DOMAIN q : q[n] = k
      /\ \A n, m \in DOMAIN q : q[n] = q[m] => n = m
  BY <1>2, <1>3, InOrderLists
<1>6. q \in Seq(DOMAIN c.groups)
  BY <1>3, <1>5, SeqMonotonic
<1> QED
  BY <1>4, <1>5, <1>6 DEF q

Undeclared(c, i) == \A k \in DOMAIN c.groups : c.groups[k].id # c.personas[i].group
First(c, i) == \A j \in DOMAIN c.personas : j < i => c.personas[j].group # c.personas[i].group

LEMMA ExtrasListGroups ==
  ASSUME NEW c, Grouped(c)
  PROVE  /\ Extras(c) \in Seq(DOMAIN c.personas)
         /\ \A i \in DOMAIN c.personas : Undeclared(c, i) /\ First(c, i) =>
              \E n \in DOMAIN Extras(c) : Extras(c)[n] = i
         /\ \A n \in DOMAIN Extras(c) : Undeclared(c, Extras(c)[n]) /\ First(c, Extras(c)[n])
         /\ \A n, m \in DOMAIN Extras(c) : Extras(c)[n] = Extras(c)[m] => n = m
<1> DEFINE I == {i \in DOMAIN c.personas :
                   /\ c.personas[i].group \notin {c.groups[k].id : k \in DOMAIN c.groups}
                   /\ \A j \in DOMAIN c.personas : j < i => c.personas[j].group # c.personas[i].group}
           q == Extras(c)
           N == Cardinality(I)
<1>1. PICK P \in Nat : DOMAIN c.personas = 1..P
  BY DEF Grouped
<1>2. q = InOrder(I)
  BY DEF Extras
<1>3. I \in SUBSET (1..P) /\ I \in SUBSET (DOMAIN c.personas)
  BY <1>1
<1>4. \A i \in DOMAIN c.personas : i \in I <=> Undeclared(c, i) /\ First(c, i)
  BY DEF Undeclared, First
<1> HIDE DEF I, q
<1>5. /\ N \in Nat /\ q \in [1..N -> I] /\ q \in Seq(I)
      /\ \A i \in I : \E n \in DOMAIN q : q[n] = i
      /\ \A n, m \in DOMAIN q : q[n] = q[m] => n = m
  BY <1>2, <1>3, InOrderLists
<1>6. q \in Seq(DOMAIN c.personas)
  BY <1>3, <1>5, SeqMonotonic
<1>7. \A n \in DOMAIN q : q[n] \in I
  BY <1>5
<1> QED
  BY <1>3, <1>4, <1>5, <1>6, <1>7 DEF q

LEMMA PageListsGroups ==
  ASSUME NEW c, Grouped(c)
  PROVE  /\ DOMAIN Page(c) = 1..(Len(Sections(c)) + Len(Extras(c)))
         /\ \A n \in DOMAIN Page(c) : Page(c)[n] = Cards(c, GroupAt(c, n))
<1> DEFINE s == Sections(c)
           x == Extras(c)
           a == [n \in DOMAIN s |-> Cards(c, c.groups[s[n]].id)]
           b == [n \in DOMAIN x |-> Cards(c, c.personas[x[n]].group)]
           T == Seq(DOMAIN c.personas)
<1>1. Page(c) = a \o b
  BY DEF Page
<1>2. s \in Seq(DOMAIN c.groups) /\ x \in Seq(DOMAIN c.personas)
  BY SectionsListGroups, ExtrasListGroups
<1>3. \A gid : Cards(c, gid) \in T
  BY CardsListAGroup
<1>5. \A n : GroupAt(c, n) = IF n <= Len(s) THEN c.groups[s[n]].id ELSE c.personas[x[n - Len(s)]].group
  BY DEF GroupAt
<1> HIDE DEF s, x, T
<1>6. Len(s) \in Nat /\ DOMAIN s = 1..Len(s) /\ Len(x) \in Nat /\ DOMAIN x = 1..Len(x)
  BY <1>2
<1>7. a \in Seq(T) /\ Len(a) = Len(s)
  BY <1>3, <1>6
<1>8. b \in Seq(T) /\ Len(b) = Len(x)
  BY <1>3, <1>6
<1>9. /\ \A n \in 1..Len(s) : a[n] = Cards(c, c.groups[s[n]].id)
      /\ \A n \in 1..Len(x) : b[n] = Cards(c, c.personas[x[n]].group)
  BY <1>6
<1> HIDE DEF a, b
<1>10. /\ a \o b \in Seq(T) /\ Len(a \o b) = Len(s) + Len(x)
       /\ \A n \in 1..(Len(s) + Len(x)) :
            (a \o b)[n] = IF n <= Len(s) THEN a[n] ELSE b[n - Len(s)]
  <2>1. a \in Seq(T) /\ b \in Seq(T)
    BY <1>7, <1>8
  <2>2. /\ a \o b \in Seq(T) /\ Len(a \o b) = Len(a) + Len(b)
        /\ \A n \in 1..(Len(a) + Len(b)) :
             (a \o b)[n] = IF n <= Len(a) THEN a[n] ELSE b[n - Len(a)]
    BY <2>1, ConcatProperties
  <2> QED
    BY <1>7, <1>8, <2>2
<1>11. ASSUME NEW n \in 1..(Len(s) + Len(x)) PROVE (a \o b)[n] = Cards(c, GroupAt(c, n))
  <2>1. CASE n <= Len(s)
    <3>1. n \in 1..Len(s)
      BY <1>6, <2>1
    <3> QED
      BY <1>5, <1>9, <1>10, <2>1, <3>1
  <2>2. CASE ~(n <= Len(s))
    <3>1. n - Len(s) \in 1..Len(x)
      BY <1>6, <2>2
    <3> QED
      BY <1>5, <1>9, <1>10, <2>2, <3>1
  <2> QED
    BY <2>1, <2>2
<1>12. DOMAIN (a \o b) = 1..(Len(s) + Len(x))
  BY <1>10
<1> QED
  BY <1>1, <1>11, <1>12 DEF s, x

(* A persona is on the page, at the one place its group has on it.         *)
LEMMA GroupsHaveAList ==
  ASSUME NEW c, Grouped(c), NEW i \in DOMAIN c.personas
  PROVE  \E n \in DOMAIN Page(c) : GroupAt(c, n) = c.personas[i].group
<1> DEFINE g == c.personas[i].group
           s == Sections(c)
           x == Extras(c)
           q == Cards(c, g)
<1>1. /\ Len(s) \in Nat /\ DOMAIN s = 1..Len(s) /\ Len(x) \in Nat /\ DOMAIN x = 1..Len(x)
      /\ DOMAIN Page(c) = 1..(Len(s) + Len(x))
  BY SectionsListGroups, ExtrasListGroups, PageListsGroups
<1>2. /\ q \in Seq(DOMAIN c.personas)
      /\ \A j \in DOMAIN c.personas : c.personas[j].group = g => \E k \in DOMAIN q : q[k] = j
      /\ \A k \in DOMAIN q : c.personas[q[k]].group = g
      /\ \A k, l \in DOMAIN q : k < l => q[k] < q[l]
  BY CardsListAGroup
<1>3. 1 \in DOMAIN q
  BY <1>2
<1>4. CASE \E k \in DOMAIN c.groups : c.groups[k].id = g
  <2>1. PICK k \in DOMAIN c.groups : c.groups[k].id = g
    BY <1>4
  <2>2. Cards(c, c.groups[k].id) # <<>>
    BY <1>3, <2>1
  <2>3. PICK n \in DOMAIN s : s[n] = k
    BY <2>2, SectionsListGroups
  <2>4. n \in DOMAIN Page(c) /\ n <= Len(s)
    BY <1>1, <2>3
  <2>5. GroupAt(c, n) = g
    BY <2>1, <2>3, <2>4 DEF GroupAt
  <2> QED
    BY <2>4, <2>5
<1>5. CASE \A k \in DOMAIN c.groups : c.groups[k].id # g
  <2>1. PICK P \in Nat : DOMAIN c.personas = 1..P
    BY DEF Grouped
  <2>2. q[1] \in DOMAIN c.personas /\ c.personas[q[1]].group = g
    BY <1>2, <1>3
  <2>3. ASSUME NEW j \in DOMAIN c.personas, j < q[1] PROVE c.personas[j].group # g
    <3>1. SUFFICES ASSUME c.personas[j].group = g PROVE FALSE
      OBVIOUS
    <3>2. PICK k \in DOMAIN q : q[k] = j
      BY <1>2, <3>1
    <3>3. k = 1 \/ 1 < k
      BY <1>2
    <3>4. q[1] = j \/ q[1] < j
      BY <1>2, <1>3, <3>2, <3>3
    <3>5. q[1] \in Int /\ j \in Int
      BY <2>1, <2>2
    <3> QED
      BY <2>3, <3>4, <3>5
  <2>4. Undeclared(c, q[1]) /\ First(c, q[1])
    BY <1>5, <2>2, <2>3 DEF Undeclared, First
  <2>5. PICK m \in DOMAIN x : x[m] = q[1]
    BY <2>2, <2>4, ExtrasListGroups
  <2>6. /\ Len(s) + m \in DOMAIN Page(c) /\ ~(Len(s) + m <= Len(s))
        /\ (Len(s) + m) - Len(s) = m
    BY <1>1
  <2>7. GroupAt(c, Len(s) + m) = g
    BY <2>2, <2>5, <2>6 DEF GroupAt
  <2> QED
    BY <2>6, <2>7
<1> QED
  BY <1>4, <1>5

LEMMA GroupsHaveOneList ==
  ASSUME NEW c, Grouped(c), NEW n \in DOMAIN Page(c), NEW m \in DOMAIN Page(c),
         GroupAt(c, n) = GroupAt(c, m),
         \A k, l \in DOMAIN c.groups :
           c.groups[k].id = GroupAt(c, n) /\ c.groups[l].id = GroupAt(c, n) => k = l
  PROVE  n = m
<1> DEFINE s == Sections(c)
           x == Extras(c)
<1>1. /\ s \in Seq(DOMAIN c.groups)
      /\ \A k, l \in DOMAIN s : s[k] = s[l] => k = l
  BY SectionsListGroups
<1>2. /\ x \in Seq(DOMAIN c.personas)
      /\ \A k \in DOMAIN x : Undeclared(c, x[k]) /\ First(c, x[k])
      /\ \A k, l \in DOMAIN x : x[k] = x[l] => k = l
  BY ExtrasListGroups
<1>3. DOMAIN Page(c) = 1..(Len(s) + Len(x))
  BY PageListsGroups
<1>4. /\ Len(s) \in Nat /\ DOMAIN s = 1..Len(s) /\ \A k \in DOMAIN s : s[k] \in DOMAIN c.groups
  BY <1>1
<1>5. /\ Len(x) \in Nat /\ DOMAIN x = 1..Len(x) /\ \A k \in DOMAIN x : x[k] \in DOMAIN c.personas
  BY <1>2
<1>6. \A k : GroupAt(c, k) = IF k <= Len(s) THEN c.groups[s[k]].id ELSE c.personas[x[k - Len(s)]].group
  BY DEF GroupAt
<1> HIDE DEF s, x
<1>7. \A k \in DOMAIN Page(c) :
        \/ k <= Len(s) /\ k \in DOMAIN s
        \/ ~(k <= Len(s)) /\ k - Len(s) \in DOMAIN x
  BY <1>3, <1>4, <1>5
<1>8. \A k, l \in DOMAIN Page(c) : ~(k <= Len(s) /\ ~(l <= Len(s)) /\ GroupAt(c, k) = GroupAt(c, l))
  <2> SUFFICES ASSUME NEW k \in DOMAIN Page(c), NEW l \in DOMAIN Page(c),
                      k <= Len(s), ~(l <= Len(s)), GroupAt(c, k) = GroupAt(c, l)
               PROVE  FALSE
    OBVIOUS
  <2>1. k \in DOMAIN s /\ l - Len(s) \in DOMAIN x
    BY <1>7
  <2>2. c.groups[s[k]].id = c.personas[x[l - Len(s)]].group
    BY <1>6
  <2>3. s[k] \in DOMAIN c.groups /\ Undeclared(c, x[l - Len(s)])
    BY <1>2, <1>4, <2>1
  <2> QED
    BY <2>2, <2>3 DEF Undeclared
<1>9. CASE n <= Len(s) /\ m <= Len(s)
  <2>1. n \in DOMAIN s /\ m \in DOMAIN s
    BY <1>7, <1>9
  <2>2. c.groups[s[n]].id = GroupAt(c, n) /\ c.groups[s[m]].id = GroupAt(c, n)
    BY <1>6, <1>9
  <2>3. s[n] = s[m]
    BY <1>4, <2>1, <2>2
  <2> QED
    BY <1>1, <2>1, <2>3
<1>10. CASE ~(n <= Len(s)) /\ ~(m <= Len(s))
  <2>1. n - Len(s) \in DOMAIN x /\ m - Len(s) \in DOMAIN x
    BY <1>7, <1>10
  <2> DEFINE i == x[n - Len(s)]
             j == x[m - Len(s)]
  <2>2. c.personas[i].group = c.personas[j].group
    BY <1>6, <1>10
  <2>3. i \in DOMAIN c.personas /\ j \in DOMAIN c.personas /\ First(c, i) /\ First(c, j)
    BY <1>2, <1>5, <2>1
  <2> HIDE DEF i, j
  <2>4. ~(i < j) /\ ~(j < i)
    BY <2>2, <2>3 DEF First
  <2>5. i \in Int /\ j \in Int
    BY <2>3 DEF Grouped
  <2>6. i = j
    BY <2>4, <2>5
  <2>7. n - Len(s) = m - Len(s)
    BY <1>2, <2>1, <2>6 DEF i, j
  <2>8. n \in Int /\ m \in Int
    BY <1>3, <1>4, <1>5
  <2> QED
    BY <1>4, <2>7, <2>8
<1> QED
  BY <1>8, <1>9, <1>10

(* So a persona has a card, and one unless its group is declared twice.    *)
LEMMA PageShowsPersonas ==
  ASSUME NEW c, Grouped(c), NEW i \in DOMAIN c.personas
  PROVE  LET shown == {p \in (DOMAIN Page(c)) \X (DOMAIN c.personas) :
                         p[2] \in DOMAIN Page(c)[p[1]] /\ Page(c)[p[1]][p[2]] = i}
             declared == {k \in DOMAIN c.groups : c.groups[k].id = c.personas[i].group}
         IN  /\ shown # {}
             /\ Cardinality(declared) < 2 => Cardinality(shown) = 1
<1> DEFINE g == c.personas[i].group
           q == Cards(c, g)
           shown == {p \in (DOMAIN Page(c)) \X (DOMAIN c.personas) :
                       p[2] \in DOMAIN Page(c)[p[1]] /\ Page(c)[p[1]][p[2]] = i}
           declared == {k \in DOMAIN c.groups : c.groups[k].id = g}
<1>1. PICK n \in DOMAIN Page(c) : GroupAt(c, n) = g
  BY GroupsHaveAList
<1>a. \A j \in DOMAIN c.personas : c.personas[j].group = g => \E l \in DOMAIN q : q[l] = j
  BY CardsListAGroup
<1>b. DOMAIN q \in SUBSET (DOMAIN c.personas) /\ \A l, m \in DOMAIN q : q[l] = q[m] => l = m
  BY CardsListAGroup
<1>2. PICK k \in DOMAIN q : q[k] = i
  BY <1>a
<1>3. k \in DOMAIN c.personas
  BY <1>b, <1>2
<1>4. Page(c)[n] = q
  BY <1>1, PageListsGroups
<1>5. <<n, k>> \in shown
  BY <1>1, <1>2, <1>3, <1>4
<1>6. ASSUME Cardinality(declared) < 2 PROVE Cardinality(shown) = 1
  <2>1. \A a, b \in DOMAIN c.groups : c.groups[a].id = g /\ c.groups[b].id = g => a = b
    <3> SUFFICES ASSUME NEW a \in declared, NEW b \in declared, a # b PROVE FALSE
      OBVIOUS
    <3>1. PICK G \in Nat : DOMAIN c.groups = 1..G
      BY DEF Grouped
    <3>2. IsFiniteSet(1..G) /\ declared \in SUBSET (1..G)
      BY <3>1, FS_Interval
    <3>3. IsFiniteSet(declared) /\ Cardinality(declared) \in Nat
      BY <3>2, FS_Subset, FS_CardinalityType
    <3>4. IsFiniteSet({a}) /\ Cardinality({a}) = 1
      BY FS_Singleton
    <3>5. Cardinality({a} \cup {b}) = 2
      <4>1. b \notin {a}
        OBVIOUS
      <4>2. Cardinality({a} \cup {b}) = Cardinality({a}) + 1
        BY <3>4, <4>1, FS_AddElement
      <4> QED
        BY <3>4, <4>2
    <3>6. {a} \cup {b} \in SUBSET declared
      OBVIOUS
    <3>7. Cardinality({a} \cup {b}) <= Cardinality(declared)
      BY <3>3, <3>6, FS_Subset
    <3> HIDE DEF declared
    <3> QED
      BY <1>6, <3>3, <3>5, <3>7
  <2>2. ASSUME NEW m \in DOMAIN Page(c), NEW l \in DOMAIN Page(c)[m], Page(c)[m][l] = i
        PROVE  m = n /\ l = k
    <3>1. Page(c)[m] = Cards(c, GroupAt(c, m))
      BY PageListsGroups
    <3> DEFINE h == GroupAt(c, m)
    <3>a. \A j \in DOMAIN Cards(c, h) : c.personas[Cards(c, h)[j]].group = h
      BY CardsListAGroup
    <3>2. GroupAt(c, m) = g
      BY <2>2, <3>1, <3>a
    <3>3. m = n
      BY <1>1, <2>1, <3>2, GroupsHaveOneList
    <3>4. l \in DOMAIN q /\ q[l] = i
      BY <1>4, <2>2, <3>3
    <3>5. l = k
      BY <1>b, <1>2, <3>4
    <3> QED
      BY <3>3, <3>5
  <2>3. shown = {<<n, k>>}
    BY <1>5, <2>2
  <2> QED
    BY <2>3, FS_Singleton
<1> QED
  BY <1>5, <1>6
==============================================================================
