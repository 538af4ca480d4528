---------------------------- MODULE RetrievalProofs ----------------------------
(* What holds of every run of Retrieval, however many threads, items and        *)
(* requests there are: the cached corpora are current but for what is known to  *)
(* be late, chosen uploads reach the prompt, rank fusion is fair and a mixed    *)
(* search shares its places.  First what the sorts and the merges return, then  *)
(* the caches, then the requests.                                               *)
EXTENDS Retrieval, SequenceTheorems, FiniteSetTheorems, FunctionTheorems, TLAPS

-----------------------------------------------------------------------------
(* Ranks *)

\* Each of D has a place of its own.
Ranks(D, before) ==
  /\ IsFiniteSet(D) /\ before \in [D -> SUBSET D]
  /\ \A n \in 1..Cardinality(D) :
       Nth(before, n) \in D /\ Cardinality(before[Nth(before, n)]) = n - 1
  /\ \A i \in D : \E n \in 1..Cardinality(D) : Nth(before, n) = i
  /\ \A i, j \in D : j \in before[i] => Cardinality(before[j]) < Cardinality(before[i])

\* A list read in the order of the places of D.
Read(s, D, before) == [n \in 1..Cardinality(D) |-> s[Nth(before, n)]]

\* Where everyone is before or after everyone else, each place belongs to one.
LEMMA Ranking ==
  ASSUME NEW D, IsFiniteSet(D), NEW before \in [D -> SUBSET D],
         \A i \in D : i \notin before[i],
         \A i, j \in D : i # j => i \in before[j] \/ j \in before[i],
         \A i, j \in D : j \in before[i] => before[j] \subseteq before[i]
  PROVE  Ranks(D, before)
  <1> DEFINE N == Cardinality(D)
             rank == [i \in D |-> Cardinality(before[i])]
  <1>1. N \in Nat
    BY FS_CardinalityType
  <1>2. ASSUME NEW i \in D PROVE IsFiniteSet(before[i]) /\ Cardinality(before[i]) \in 0..(N - 1)
    <2>1. before[i] \in SUBSET D
      OBVIOUS
    <2>2. IsFiniteSet(before[i]) /\ Cardinality(before[i]) <= N /\ Cardinality(before[i]) # N
      BY <2>1, FS_Subset, <1>2
    <2>3. Cardinality(before[i]) \in Nat
      BY <2>2, FS_CardinalityType
    <2>4. QED
      BY <1>1, <2>2, <2>3
  <1>3. ASSUME NEW i \in D, NEW j \in D, j \in before[i]
        PROVE  Cardinality(before[j]) < Cardinality(before[i])
    <2>1. before[j] \in SUBSET before[i] /\ before[j] # before[i]
      BY <1>3
    <2>2. /\ Cardinality(before[j]) <= Cardinality(before[i])
          /\ Cardinality(before[j]) # Cardinality(before[i])
      BY <1>2, <2>1, FS_Subset
    <2>3. Cardinality(before[j]) \in Nat /\ Cardinality(before[i]) \in Nat
      BY <1>2, FS_CardinalityType
    <2>4. QED
      BY <2>2, <2>3
  <1>4. rank \in [D -> 0..(N - 1)]
    BY <1>2
  <1>5. \A i, j \in D : rank[i] = rank[j] => i = j
    <2> SUFFICES ASSUME NEW i \in D, NEW j \in D, i # j PROVE rank[i] # rank[j]
      OBVIOUS
    <2>1. Cardinality(before[i]) \in Nat /\ Cardinality(before[j]) \in Nat
      BY <1>2, FS_CardinalityType
    <2>2. CASE i \in before[j]
      <3>1. Cardinality(before[i]) < Cardinality(before[j])
        BY <2>2, <1>3
      <3>2. QED
        BY <3>1, <2>1
    <2>3. CASE j \in before[i]
      <3>1. Cardinality(before[j]) < Cardinality(before[i])
        BY <2>3, <1>3
      <3>2. QED
        BY <3>1, <2>1
    <2>4. QED
      BY <2>2, <2>3
  <1>6. rank \in Injection(D, 0..(N - 1))
    <2> HIDE DEF rank, N
    <2>1. QED
      BY <1>4, <1>5, Fun_IsInj
  <1>7. IsFiniteSet(0..(N - 1)) /\ Cardinality(0..(N - 1)) = N
    <2>1. 0 \in Int /\ N - 1 \in Int
      BY <1>1
    <2>2. /\ IsFiniteSet(0..(N - 1))
          /\ Cardinality(0..(N - 1)) = IF 0 > N - 1 THEN 0 ELSE N - 1 - 0 + 1
      <3> HIDE DEF N
      <3>1. QED
        BY <2>1, FS_Interval
    <2>3. QED
      BY <1>1, <2>2
  <1>8. rank \in Surjection(D, 0..(N - 1))
    <2>1. Cardinality(D) = Cardinality(0..(N - 1))
      BY <1>7
    <2> HIDE DEF rank, N
    <2>2. QED
      BY <1>6, <1>7, <2>1, FS_Injection
  <1>9. ASSUME NEW n \in 1..N
        PROVE  Nth(before, n) \in D /\ Cardinality(before[Nth(before, n)]) = n - 1
    <2>1. n - 1 \in 0..(N - 1)
      BY <1>1
    <2>2. \E i \in D : rank[i] = n - 1
      <3> HIDE DEF rank, N
      <3>1. QED
        BY <1>8, <2>1 DEF Surjection
    <2>3. DOMAIN before = D
      OBVIOUS
    <2>4. QED
      BY <2>2, <2>3 DEF Nth
  <1>10. ASSUME NEW i \in D PROVE \E n \in 1..N : Nth(before, n) = i
    <2>1. rank[i] \in 0..(N - 1)
      BY <1>2
    <2>2. rank[i] + 1 \in 1..N /\ (rank[i] + 1) - 1 = rank[i]
      BY <1>1, <2>1
    <2>3. Nth(before, rank[i] + 1) \in D /\ rank[Nth(before, rank[i] + 1)] = rank[i]
      BY <1>9, <2>2
    <2>4. QED
      BY <1>5, <2>2, <2>3
  <1>11. QED
    BY <1>3, <1>9, <1>10 DEF Ranks

\* A list read through the ranks of some of its places.
LEMMA ReadIs ==
  ASSUME NEW T, NEW s \in Seq(T), NEW D, D \subseteq DOMAIN s, NEW before, Ranks(D, before)
  PROVE  LET r == Read(s, D, before) IN
         /\ r \in Seq(T) /\ Len(r) = Cardinality(D)
         /\ ToSet(r) = {s[i] : i \in D}
         /\ IsInjective(s) => IsInjective(r)
         /\ \A m, n \in 1..Cardinality(D) : Nth(before, m) = Nth(before, n) => m = n
  <1> DEFINE r == Read(s, D, before)
  <1>0. Cardinality(D) \in Nat
    BY FS_CardinalityType DEF Ranks
  <1> USE DEF Ranks, Read
  <1>1. \A n \in 1..Cardinality(D) : s[Nth(before, n)] \in T
    OBVIOUS
  <1>2. r \in Seq(T) /\ Len(r) = Cardinality(D) /\ DOMAIN r = 1..Cardinality(D)
    BY <1>0, <1>1
  <1>3. ToSet(r) = {s[i] : i \in D}
    BY <1>2 DEF ToSet
  <1>4. \A m, n \in 1..Cardinality(D) : Nth(before, m) = Nth(before, n) => m = n
    <2> SUFFICES ASSUME NEW m \in 1..Cardinality(D), NEW n \in 1..Cardinality(D),
                        Nth(before, m) = Nth(before, n)
                 PROVE  m = n
      OBVIOUS
    <2>1. m - 1 = n - 1
      OBVIOUS
    <2>2. QED
      BY <1>0, <2>1
  <1>5. IsInjective(s) => IsInjective(r)
    <2> SUFFICES ASSUME IsInjective(s), NEW m \in DOMAIN r, NEW n \in DOMAIN r, r[m] = r[n]
                 PROVE  m = n
      BY DEF IsInjective
    <2>1. s[Nth(before, m)] = s[Nth(before, n)]
      BY <1>2
    <2>2. Nth(before, m) = Nth(before, n)
      BY <1>2, <2>1 DEF IsInjective
    <2>3. QED
      BY <1>2, <1>4, <2>2
  <1>6. QED
    BY <1>2, <1>3, <1>4, <1>5

LEMMA OnlyIs ==
  ASSUME NEW T, NEW s \in Seq(T), NEW S
  PROVE  /\ Only(s, S) \in Seq(T)
         /\ ToSet(Only(s, S)) = ToSet(s) \cap S
         /\ Len(Only(s, S)) <= Len(s)
         /\ IsInjective(s) => IsInjective(Only(s, S))
  <1> DEFINE D == {i \in DOMAIN s : s[i] \in S}
             before == [i \in D |-> {j \in D : j < i}]
  <1>1. DOMAIN s = 1..Len(s) /\ Len(s) \in Nat
    OBVIOUS
  <1>2. IsFiniteSet(DOMAIN s) /\ Cardinality(DOMAIN s) = Len(s)
    BY <1>1, FS_Interval
  <1>3. D \in SUBSET (DOMAIN s)
    OBVIOUS
  <1>4. IsFiniteSet(D) /\ Cardinality(D) <= Len(s)
    BY <1>2, <1>3, FS_Subset
  <1>5. before \in [D -> SUBSET D]
    OBVIOUS
  <1>6. /\ \A i \in D : i \notin before[i]
        /\ \A i, j \in D : i # j => i \in before[j] \/ j \in before[i]
        /\ \A i, j \in D : j \in before[i] => before[j] \subseteq before[i]
    BY <1>1
  <1>7. Only(s, S) = Read(s, D, before)
    BY DEF Only, Read
  <1>8. ToSet(s) \cap S = {s[i] : i \in D}
    BY DEF ToSet
  <1> HIDE DEF D, before
  <1>9. Ranks(D, before)
    BY <1>4, <1>5, <1>6, Ranking
  <1>10. D \subseteq DOMAIN s
    BY <1>3
  <1>11. LET r == Read(s, D, before) IN
         /\ r \in Seq(T) /\ Len(r) = Cardinality(D)
         /\ ToSet(r) = {s[i] : i \in D}
         /\ IsInjective(s) => IsInjective(r)
    BY <1>9, <1>10, ReadIs
  <1>12. QED
    BY <1>4, <1>7, <1>8, <1>11

-----------------------------------------------------------------------------
(* Scores are fractions *)

Score == Nat \X (Nat \ {0})

LEMMA Times ==
  ASSUME NEW x \in Nat, NEW y \in Nat, NEW z \in Nat
  PROVE  /\ x >= y => x * z >= y * z
         /\ z > 0 /\ x * z >= y * z => x >= y
         /\ z > 0 /\ x > y => x * z > y * z
  OBVIOUS

LEMMA Fractions ==
  ASSUME NEW a \in Nat, NEW c \in Nat, NEW e \in Nat,
         NEW b \in Nat \ {0}, NEW d \in Nat \ {0}, NEW f \in Nat \ {0},
         a * d >= c * b, c * f >= e * d
  PROVE  a * f >= e * b
  <1>1. /\ a * d \in Nat /\ c * b \in Nat /\ c * f \in Nat
        /\ e * d \in Nat /\ a * f \in Nat /\ e * b \in Nat
    OBVIOUS
  <1>2. (a * d) * f >= (c * b) * f
    BY <1>1, Times
  <1>3. (c * f) * b >= (e * d) * b
    BY <1>1, Times
  <1>4. (a * d) * f = (a * f) * d /\ (c * b) * f = (c * f) * b /\ (e * d) * b = (e * b) * d
    OBVIOUS
  <1>5. (a * f) * d >= (e * b) * d
    <2>1. (a * d) * f \in Nat /\ (c * b) * f \in Nat /\ (e * d) * b \in Nat
      OBVIOUS
    <2>2. QED
      BY <1>2, <1>3, <1>4, <2>1
  <1>6. QED
    BY <1>1, <1>5, Times

LEMMA BetterOrder ==
  ASSUME NEW p \in Score, NEW q \in Score, NEW r \in Score
  PROVE  /\ Better(p, q) => ~Better(q, p)
         /\ ~Better(q, p) /\ ~Better(r, q) => ~Better(r, p)
         /\ Better(p, q) /\ ~Better(r, q) => Better(p, r)
         /\ ~Better(q, p) /\ Better(q, r) => Better(p, r)
  <1> DEFINE a == p[1]  b == p[2]  c == q[1]  d == q[2]  e == r[1]  f == r[2]
  <1>1. /\ a \in Nat /\ c \in Nat /\ e \in Nat
        /\ b \in Nat \ {0} /\ d \in Nat \ {0} /\ f \in Nat \ {0}
    BY DEF Score
  <1>2. /\ Better(p, q) <=> a * d > c * b
        /\ Better(q, p) <=> c * b > a * d
        /\ Better(q, r) <=> c * f > e * d
        /\ Better(r, q) <=> e * d > c * f
        /\ Better(p, r) <=> a * f > e * b
        /\ Better(r, p) <=> e * b > a * f
    BY DEF Better
  <1> HIDE DEF a, b, c, d, e, f
  <1>3. /\ a * d \in Nat /\ c * b \in Nat /\ c * f \in Nat
        /\ e * d \in Nat /\ a * f \in Nat /\ e * b \in Nat
    BY <1>1
  <1>4. a * d >= c * b /\ c * f >= e * d => a * f >= e * b
    BY <1>1, Fractions
  <1>5. e * b >= a * f /\ a * d >= c * b => e * d >= c * f
    BY <1>1, Fractions
  <1>6. c * f >= e * d /\ e * b >= a * f => c * b >= a * d
    BY <1>1, Fractions
  <1>7. QED
    BY <1>2, <1>3, <1>4, <1>5, <1>6

\* A sort keeps what it sorts, puts nothing before a better one and leaves equal ones
\* as they were.
LEMMA BestFirstIs ==
  ASSUME NEW T, NEW s \in Seq(T), NEW score, \A x \in ToSet(s) : score[x] \in Score
  PROVE  LET r == BestFirst(s, score) IN
         /\ r \in Seq(T) /\ Len(r) = Len(s) /\ ToSet(r) = ToSet(s)
         /\ IsInjective(s) => IsInjective(r)
         /\ Ranks(DOMAIN s, Ahead(s, score))
         /\ r = Read(s, DOMAIN s, Ahead(s, score))
         /\ \A m, n \in DOMAIN r : m < n => ~Better(score[r[n]], score[r[m]])
  <1> DEFINE D == DOMAIN s
             p(i) == score[s[i]]
             before == Ahead(s, score)
             r == BestFirst(s, score)
  <1>1. DOMAIN s = 1..Len(s) /\ Len(s) \in Nat
    OBVIOUS
  <1>2. IsFiniteSet(D) /\ Cardinality(D) = Len(s)
    BY <1>1, FS_Interval
  <1>3. \A i \in D : p(i) \in Score
    BY DEF ToSet
  <1>4. \A i \in D : before[i] = {j \in D : Better(p(j), p(i)) \/ (j < i /\ ~Better(p(i), p(j)))}
    BY DEF Ahead
  <1>5. before \in [D -> SUBSET D]
    BY DEF Ahead
  <1> HIDE DEF before
  <1>6. \A i \in D : i \notin before[i]
    <2> SUFFICES ASSUME NEW i \in D PROVE i \notin before[i]
      OBVIOUS
    <2>1. ~Better(p(i), p(i)) /\ ~(i < i)
      BY <1>1, <1>3, BetterOrder
    <2>2. QED
      BY <1>4, <2>1
  <1>7. \A i, j \in D : i # j => i \in before[j] \/ j \in before[i]
    <2> SUFFICES ASSUME NEW i \in D, NEW j \in D, i # j PROVE i \in before[j] \/ j \in before[i]
      OBVIOUS
    <2>1. i < j \/ j < i
      BY <1>1
    <2>2. QED
      BY <1>4, <2>1
  <1>8. \A i, j \in D : j \in before[i] => before[j] \subseteq before[i]
    <2> SUFFICES ASSUME NEW i \in D, NEW j \in D, j \in before[i], NEW k \in before[j]
                 PROVE  k \in before[i]
      OBVIOUS
    <2>1. k \in D
      BY <1>5
    <2>2. p(i) \in Score /\ p(j) \in Score /\ p(k) \in Score
      BY <1>3, <2>1
    <2>3. Better(p(j), p(i)) \/ (j < i /\ ~Better(p(i), p(j)))
      BY <1>4
    <2>4. Better(p(k), p(j)) \/ (k < j /\ ~Better(p(j), p(k)))
      BY <1>4
    <2>5. k < j /\ j < i => k < i
      BY <1>1, <2>1
    <2> HIDE DEF p
    <2>6. Better(p(k), p(i)) \/ (k < i /\ ~Better(p(i), p(k)))
      <3>1. /\ Better(p(k), p(j)) => ~Better(p(j), p(k))
            /\ Better(p(j), p(i)) => ~Better(p(i), p(j))
        BY <2>2, BetterOrder
      <3>2. /\ ~Better(p(j), p(k)) /\ ~Better(p(i), p(j)) => ~Better(p(i), p(k))
            /\ Better(p(k), p(j)) /\ ~Better(p(i), p(j)) => Better(p(k), p(i))
            /\ ~Better(p(j), p(k)) /\ Better(p(j), p(i)) => Better(p(k), p(i))
        BY <2>2, BetterOrder
      <3>3. QED
        BY <2>3, <2>4, <2>5, <3>1, <3>2
    <2>7. before[i] = {n \in D : Better(p(n), p(i)) \/ (n < i /\ ~Better(p(i), p(n)))}
      BY <1>4
    <2>8. QED
      BY <2>1, <2>6, <2>7
  <1>9. Ranks(D, before)
    <2> HIDE DEF D
    <2>1. QED
      BY <1>2, <1>5, <1>6, <1>7, <1>8, Ranking
  <1>10. r = Read(s, D, before)
    BY <1>1, <1>2 DEF BestFirst, Read, before
  <1>11. r \in Seq(T) /\ Len(r) = Len(s) /\ (IsInjective(s) => IsInjective(r))
         /\ ToSet(r) = {s[i] : i \in D}
    <2>1. D \subseteq DOMAIN s
      OBVIOUS
    <2> HIDE DEF r, D
    <2>2. LET x == Read(s, D, before) IN
          /\ x \in Seq(T) /\ Len(x) = Cardinality(D)
          /\ ToSet(x) = {s[i] : i \in D}
          /\ IsInjective(s) => IsInjective(x)
      BY <1>9, <2>1, ReadIs
    <2>3. QED
      BY <1>2, <1>10, <2>2
  <1>12. ToSet(r) = ToSet(s)
    BY <1>11 DEF ToSet
  <1>13. ASSUME NEW m \in DOMAIN r, NEW n \in DOMAIN r, m < n
         PROVE  ~Better(score[r[n]], score[r[m]])
    <2> DEFINE i == Nth(before, m)
               j == Nth(before, n)
    <2>1. m \in 1..Len(s) /\ n \in 1..Len(s)
      BY <1>11
    <2>2. i \in D /\ j \in D /\ Cardinality(before[i]) = m - 1 /\ Cardinality(before[j]) = n - 1
      BY <1>2, <1>9, <2>1 DEF Ranks
    <2>3. r[m] = s[i] /\ r[n] = s[j]
      BY <1>2, <1>10, <2>1 DEF Read
    <2>4. j \notin before[i]
      <3> SUFFICES ASSUME j \in before[i] PROVE FALSE
        OBVIOUS
      <3>1. Cardinality(before[j]) < Cardinality(before[i])
        BY <1>9, <2>2 DEF Ranks
      <3>2. QED
        BY <1>13, <2>1, <2>2, <3>1
    <2> HIDE DEF i, j, r
    <2>5. QED
      BY <1>4, <2>2, <2>3, <2>4
  <1>14. Ranks(DOMAIN s, Ahead(s, score)) /\ r = Read(s, DOMAIN s, Ahead(s, score))
    BY <1>9, <1>10 DEF before
  <1> HIDE DEF r
  <1>15. \A m, n \in DOMAIN r : m < n => ~Better(score[r[n]], score[r[m]])
    BY <1>13
  <1>16. QED
    BY <1>11, <1>12, <1>14, <1>15 DEF r

-----------------------------------------------------------------------------
(* Lists *)

LEMMA FirstIs ==
  ASSUME NEW T, NEW s \in Seq(T), NEW n \in Nat
  PROVE  LET r == First(s, n) IN
         /\ r \in Seq(T) /\ Len(r) = (IF n < Len(s) THEN n ELSE Len(s))
         /\ \A i \in DOMAIN r : i \in DOMAIN s /\ r[i] = s[i]
         /\ ToSet(r) \subseteq ToSet(s)
         /\ IsInjective(s) => IsInjective(r)
  <1> DEFINE k == IF n < Len(s) THEN n ELSE Len(s)
             r == First(s, n)
  <1>1. Len(s) \in Nat /\ DOMAIN s = 1..Len(s) /\ k \in Nat /\ k <= Len(s)
    OBVIOUS
  <1>2. r = SubSeq(s, 1, k)
    BY DEF First
  <1>3. \A i \in 1..k : s[i] \in T
    BY <1>1
  <1> HIDE DEF k, r
  <1>4. /\ r \in Seq(T) /\ Len(r) = (IF 1 <= k THEN k - 1 + 1 ELSE 0)
        /\ \A i \in 1..(k - 1 + 1) : r[i] = s[1 + i - 1]
    BY <1>1, <1>2, <1>3, SubSeqProperties
  <1>5. Len(r) = k /\ DOMAIN r = 1..k
    BY <1>1, <1>4
  <1>6. \A i \in DOMAIN r : i \in DOMAIN s /\ r[i] = s[i]
    BY <1>1, <1>4, <1>5
  <1>7. ToSet(r) \subseteq ToSet(s)
    BY <1>6 DEF ToSet
  <1>8. IsInjective(s) => IsInjective(r)
    BY <1>6 DEF IsInjective
  <1>9. QED
    BY <1>4, <1>5, <1>6, <1>7, <1>8 DEF k, r

LEMMA ConcatIs ==
  ASSUME NEW T, NEW a \in Seq(T), NEW b \in Seq(T)
  PROVE  /\ a \o b \in Seq(T) /\ Len(a \o b) = Len(a) + Len(b)
         /\ DOMAIN (a \o b) = 1..(Len(a) + Len(b)) /\ Len(a) \in Nat /\ Len(b) \in Nat
         /\ DOMAIN a = 1..Len(a) /\ DOMAIN b = 1..Len(b)
         /\ \A i \in 1..(Len(a) + Len(b)) :
              (a \o b)[i] = IF i <= Len(a) THEN a[i] ELSE b[i - Len(a)]
         /\ ToSet(a \o b) = ToSet(a) \cup ToSet(b)
  <1> DEFINE r == a \o b
  <1>1. /\ r \in Seq(T) /\ Len(r) = Len(a) + Len(b)
        /\ DOMAIN r = 1..(Len(a) + Len(b)) /\ Len(a) \in Nat /\ Len(b) \in Nat
        /\ DOMAIN a = 1..Len(a) /\ DOMAIN b = 1..Len(b)
        /\ \A i \in 1..(Len(a) + Len(b)) : r[i] = IF i <= Len(a) THEN a[i] ELSE b[i - Len(a)]
    OBVIOUS
  <1> HIDE DEF r
  <1>2. ASSUME NEW i \in DOMAIN r PROVE r[i] \in ToSet(a) \cup ToSet(b)
    <2>1. CASE i <= Len(a)
      BY <1>1, <2>1 DEF ToSet
    <2>2. CASE ~(i <= Len(a))
      <3>1. i - Len(a) \in DOMAIN b
        BY <1>1, <2>2
      <3>2. QED
        BY <1>1, <2>2, <3>1 DEF ToSet
    <2>3. QED
      BY <2>1, <2>2
  <1>3. ASSUME NEW i \in DOMAIN a PROVE a[i] \in ToSet(r)
    <2>1. i \in DOMAIN r /\ r[i] = a[i]
      BY <1>1
    <2>2. QED
      BY <2>1 DEF ToSet
  <1>4. ASSUME NEW i \in DOMAIN b PROVE b[i] \in ToSet(r)
    <2>1. i + Len(a) \in DOMAIN r /\ ~(i + Len(a) <= Len(a)) /\ (i + Len(a)) - Len(a) = i
      BY <1>1
    <2>2. r[i + Len(a)] = b[i]
      BY <1>1, <2>1
    <2>3. QED
      BY <2>1, <2>2 DEF ToSet
  <1>5. ToSet(r) \subseteq ToSet(a) \cup ToSet(b)
    BY <1>2 DEF ToSet
  <1>6. ToSet(a) \subseteq ToSet(r) /\ ToSet(b) \subseteq ToSet(r)
    BY <1>3, <1>4 DEF ToSet
  <1>7. QED
    BY <1>1, <1>5, <1>6 DEF r

LEMMA SetToSeqIs ==
  ASSUME NEW S, IsFiniteSet(S)
  PROVE  /\ SetToSeq(S) \in Seq(S) /\ Len(SetToSeq(S)) = Cardinality(S)
         /\ ToSet(SetToSeq(S)) = S /\ IsInjective(SetToSeq(S))
  <1> DEFINE n == Cardinality(S)
  <1>1. n \in Nat /\ ExistsBijection(1..n, S)
    BY FS_CardinalityType
  <1>2. \E f \in [1..n -> S] : IsInjective(f)
    BY <1>1 DEF ExistsBijection, Bijection, Injection
  <1>3. SetToSeq(S) \in [1..n -> S] /\ IsInjective(SetToSeq(S))
    BY <1>2 DEF SetToSeq
  <1> DEFINE f == SetToSeq(S)
  <1>4. f \in Injection(1..n, S)
    BY <1>3 DEF Injection
  <1>5. IsFiniteSet(1..n) /\ Cardinality(1..n) = n
    BY <1>1, FS_Interval
  <1>6. f \in Surjection(1..n, S)
    <2>1. Cardinality(1..n) = Cardinality(S)
      BY <1>5
    <2> HIDE DEF f, n
    <2>2. QED
      BY <1>4, <2>1, FS_Injection
  <1>7. DOMAIN f = 1..n /\ f \in Seq(S) /\ Len(f) = n
    BY <1>1, <1>3
  <1>8. ToSet(f) = S
    BY <1>3, <1>6, <1>7 DEF ToSet, Surjection
  <1>9. QED
    BY <1>3, <1>7, <1>8

LEMMA RankedIs ==
  ASSUME NEW T, NEW s \in Seq(T), \A x \in ToSet(s) : x.item \in Items,
         NEW score \in [Items -> Nat], NEW n \in Nat
  PROVE  LET r == Ranked(s, score, n) IN
         /\ r \in Seq(T) /\ ToSet(r) \subseteq ToSet(s) /\ Len(r) <= n
         /\ IsInjective(s) => IsInjective(r)
  <1> DEFINE m == Only(s, {x \in ToSet(s) : score[x.item] > 0})
             by == ByItem(m, score)
             b == BestFirst(m, by)
  <1>1. m \in Seq(T) /\ ToSet(m) \subseteq ToSet(s) /\ (IsInjective(s) => IsInjective(m))
    BY OnlyIs
  <1>2. \A x \in ToSet(m) : by[x] \in Score
    BY <1>1 DEF ByItem, Score
  <1>3. Ranked(s, score, n) = First(b, n)
    BY DEF Ranked
  <1> HIDE DEF m, by
  <1>4. b \in Seq(T) /\ ToSet(b) = ToSet(m) /\ (IsInjective(m) => IsInjective(b))
    BY <1>1, <1>2, BestFirstIs
  <1> HIDE DEF b
  <1>5. /\ First(b, n) \in Seq(T) /\ Len(First(b, n)) = (IF n < Len(b) THEN n ELSE Len(b))
        /\ ToSet(First(b, n)) \subseteq ToSet(b)
        /\ IsInjective(b) => IsInjective(First(b, n))
    BY <1>4, FirstIs
  <1>6. Len(b) \in Nat
    BY <1>4
  <1>7. Len(First(b, n)) <= n
    BY <1>5, <1>6
  <1>8. QED
    BY <1>1, <1>3, <1>4, <1>5, <1>7

-----------------------------------------------------------------------------
(* Reciprocal rank fusion *)

LEMMA RankInIs ==
  ASSUME NEW T, NEW s \in Seq(T), NEW x \in ToSet(s)
  PROVE  /\ RankIn(s, x) \in DOMAIN s /\ s[RankIn(s, x)] = x
         /\ RankIn(s, x) \in Nat \ {0} /\ RankIn(s, x) <= Len(s)
         /\ IsInjective(s) => \A i \in DOMAIN s : s[i] = x => RankIn(s, x) = i
  <1>1. \E i \in DOMAIN s : s[i] = x
    BY DEF ToSet
  <1>2. RankIn(s, x) \in DOMAIN s /\ s[RankIn(s, x)] = x
    BY <1>1 DEF RankIn
  <1>3. DOMAIN s = 1..Len(s) /\ Len(s) \in Nat
    OBVIOUS
  <1>4. RankIn(s, x) \in Nat \ {0} /\ RankIn(s, x) <= Len(s)
    BY <1>2, <1>3
  <1>5. IsInjective(s) => \A i \in DOMAIN s : s[i] = x => RankIn(s, x) = i
    BY <1>2 DEF IsInjective
  <1>6. QED
    BY <1>2, <1>4, <1>5

\* One over a is more than one over c.
LEMMA Sums ==
  ASSUME NEW a \in Nat \ {0}, NEW b \in Nat \ {0}, NEW c \in Nat \ {0}, NEW d \in Nat \ {0}
  PROVE  /\ a < c => Better(<<1, a>>, <<1, c>>)
         /\ a <= c => Better(<<a + b, a * b>>, <<1, c>>)
         /\ b <= d => Better(<<a + b, a * b>>, <<1, d>>)
         /\ a <= c /\ b <= d /\ (a < c \/ b < d) =>
              Better(<<a + b, a * b>>, <<c + d, c * d>>)
  <1>1. a < c => Better(<<1, a>>, <<1, c>>)
    BY DEF Better
  <1>2. ASSUME a <= c PROVE (a + b) * c > 1 * (a * b)
    <2>1. (a + b) * c >= (a + b) * a
      <3>1. a + b \in Nat
        OBVIOUS
      <3>2. c * (a + b) >= a * (a + b)
        BY <1>2, <3>1, Times
      <3>3. QED
        BY <3>2
    <2>2. (a + b) * a = a * a + a * b /\ a * a > 0
      OBVIOUS
    <2>3. a * b \in Nat /\ a * a \in Nat /\ (a + b) * c \in Nat
      OBVIOUS
    <2>4. QED
      BY <2>1, <2>2, <2>3
  <1>3. ASSUME b <= d PROVE (a + b) * d > 1 * (a * b)
    <2>1. (a + b) * d >= (a + b) * b
      <3>1. a + b \in Nat
        OBVIOUS
      <3>2. d * (a + b) >= b * (a + b)
        BY <1>3, <3>1, Times
      <3>3. QED
        BY <3>2
    <2>2. (a + b) * b = a * b + b * b /\ b * b > 0
      OBVIOUS
    <2>3. a * b \in Nat /\ b * b \in Nat /\ (a + b) * d \in Nat
      OBVIOUS
    <2>4. QED
      BY <2>1, <2>2, <2>3
  <1>4. ASSUME a <= c, b <= d, a < c \/ b < d PROVE (a + b) * (c * d) > (c + d) * (a * b)
    <2>1. a * c \in Nat \ {0} /\ b * d \in Nat \ {0}
      OBVIOUS
    <2>2. d * (a * c) >= b * (a * c) /\ c * (b * d) >= a * (b * d)
      BY <1>4, <2>1, Times
    <2>3. (b < d => d * (a * c) > b * (a * c)) /\ (a < c => c * (b * d) > a * (b * d))
      BY <2>1, Times
    <2>4. (a + b) * (c * d) = d * (a * c) + c * (b * d)
      OBVIOUS
    <2>5. (c + d) * (a * b) = b * (a * c) + a * (b * d)
      OBVIOUS
    <2>6. /\ d * (a * c) \in Nat /\ c * (b * d) \in Nat /\ b * (a * c) \in Nat
          /\ a * (b * d) \in Nat
      OBVIOUS
    <2>7. QED
      BY <1>4, <2>2, <2>3, <2>4, <2>5, <2>6
  <1>5. QED
    BY <1>1, <1>2, <1>3, <1>4 DEF Better

\* A chunk nowhere lower, and higher in one list, scores more.
LEMMA HigherScores ==
  ASSUME NEW T, NEW a \in Seq(T), NEW b \in Seq(T),
         NEW x \in ToSet(a) \cup ToSet(b), NEW y \in ToSet(a) \cup ToSet(b),
         Depth(a, x) <= Depth(a, y), Depth(b, x) <= Depth(b, y),
         <<Depth(a, x), Depth(b, x)>> # <<Depth(a, y), Depth(b, y)>>
  PROVE  Better(RankScore(a, b, x), RankScore(a, b, y))
  <1> DEFINE i == RankIn(a, x)  j == RankIn(b, x)  k == RankIn(a, y)  l == RankIn(b, y)
             A == 60 + i  B == 60 + j  C == 60 + k  D == 60 + l
  <1>0. Len(a) \in Nat /\ Len(b) \in Nat
    OBVIOUS
  <1>1. /\ x \in ToSet(a) => i \in Nat \ {0} /\ i <= Len(a)
        /\ x \in ToSet(b) => j \in Nat \ {0} /\ j <= Len(b)
        /\ y \in ToSet(a) => k \in Nat \ {0} /\ k <= Len(a)
        /\ y \in ToSet(b) => l \in Nat \ {0} /\ l <= Len(b)
    BY RankInIs
  <1>2. /\ Depth(a, x) = IF x \in ToSet(a) THEN i ELSE Len(a) + 1
        /\ Depth(b, x) = IF x \in ToSet(b) THEN j ELSE Len(b) + 1
        /\ Depth(a, y) = IF y \in ToSet(a) THEN k ELSE Len(a) + 1
        /\ Depth(b, y) = IF y \in ToSet(b) THEN l ELSE Len(b) + 1
    BY DEF Depth
  <1>3. RankScore(a, b, x) = (CASE x \notin ToSet(b) -> <<1, A>>
                                [] x \notin ToSet(a) -> <<1, B>>
                                [] OTHER -> <<A + B, A * B>>)
    BY DEF RankScore, K
  <1>4. RankScore(a, b, y) = (CASE y \notin ToSet(b) -> <<1, C>>
                                [] y \notin ToSet(a) -> <<1, D>>
                                [] OTHER -> <<C + D, C * D>>)
    BY DEF RankScore, K
  <1>5. \/ Depth(a, x) < Depth(a, y)
        \/ Depth(b, x) < Depth(b, y)
    <2>1. /\ Depth(a, x) \in Nat /\ Depth(a, y) \in Nat
          /\ Depth(b, x) \in Nat /\ Depth(b, y) \in Nat
      BY <1>0, <1>1, <1>2
    <2>2. Depth(a, x) # Depth(a, y) \/ Depth(b, x) # Depth(b, y)
      OBVIOUS
    <2>3. QED
      BY <2>1, <2>2
  <1>6. /\ y \in ToSet(a) => x \in ToSet(a) /\ i <= k
        /\ y \in ToSet(b) => x \in ToSet(b) /\ j <= l
    <2>1. ASSUME y \in ToSet(a) PROVE x \in ToSet(a) /\ i <= k
      BY <1>0, <1>1, <1>2, <2>1
    <2>2. ASSUME y \in ToSet(b) PROVE x \in ToSet(b) /\ j <= l
      BY <1>0, <1>1, <1>2, <2>2
    <2>3. QED
      BY <2>1, <2>2
  <1>11. /\ A = 60 + i /\ B = 60 + j /\ C = 60 + k /\ D = 60 + l
    OBVIOUS
  <1> HIDE DEF A, B, C, D
  <1>7. CASE y \notin ToSet(b)
    <2>1. y \in ToSet(a) /\ x \in ToSet(a) /\ i <= k
      BY <1>6, <1>7
    <2>2. RankScore(a, b, y) = <<1, C>>
      BY <1>4, <1>7
    <2>3. /\ A \in Nat \ {0} /\ C \in Nat \ {0} /\ A <= C
          /\ i < k => A < C
      BY <1>1, <2>1, <1>11
    <2>4. CASE x \notin ToSet(b)
      <3>1. i < k
        BY <1>2, <1>5, <1>7, <2>1, <2>4, <1>0
      <3>2. RankScore(a, b, x) = <<1, A>>
        BY <1>3, <2>4
      <3>3. QED
        BY <2>2, <2>3, <3>1, <3>2, Sums
    <2>5. CASE x \in ToSet(b)
      <3>1. B \in Nat \ {0}
        BY <1>1, <2>5, <1>11
      <3>2. RankScore(a, b, x) = <<A + B, A * B>>
        BY <1>3, <2>1, <2>5
      <3>3. QED
        BY <2>2, <2>3, <3>1, <3>2, Sums
    <2>6. QED
      BY <2>4, <2>5
  <1>8. CASE y \in ToSet(b) /\ y \notin ToSet(a)
    <2>1. x \in ToSet(b) /\ j <= l
      BY <1>6, <1>8
    <2>2. RankScore(a, b, y) = <<1, D>>
      BY <1>4, <1>8
    <2>3. /\ B \in Nat \ {0} /\ D \in Nat \ {0} /\ B <= D
          /\ j < l => B < D
      BY <1>1, <1>8, <2>1, <1>11
    <2>4. CASE x \notin ToSet(a)
      <3>1. j < l
        BY <1>2, <1>5, <1>8, <2>1, <2>4, <1>0
      <3>2. RankScore(a, b, x) = <<1, B>>
        BY <1>3, <2>1, <2>4
      <3>3. QED
        BY <2>2, <2>3, <3>1, <3>2, Sums
    <2>5. CASE x \in ToSet(a)
      <3>1. A \in Nat \ {0}
        BY <1>1, <2>5, <1>11
      <3>2. RankScore(a, b, x) = <<A + B, A * B>>
        BY <1>3, <2>1, <2>5
      <3>3. QED
        BY <2>2, <2>3, <3>1, <3>2, Sums
    <2>6. QED
      BY <2>4, <2>5
  <1>9. CASE y \in ToSet(b) /\ y \in ToSet(a)
    <2>1. x \in ToSet(a) /\ x \in ToSet(b) /\ i <= k /\ j <= l
      BY <1>6, <1>9
    <2>2. /\ RankScore(a, b, y) = <<C + D, C * D>>
          /\ RankScore(a, b, x) = <<A + B, A * B>>
      BY <1>3, <1>4, <1>9, <2>1
    <2>3. /\ A \in Nat \ {0} /\ C \in Nat \ {0} /\ A <= C
          /\ B \in Nat \ {0} /\ D \in Nat \ {0} /\ B <= D
      BY <1>1, <1>9, <2>1, <1>11
    <2>4. A < C \/ B < D
      <3>1. i < k \/ j < l
        BY <1>2, <1>5, <1>9, <2>1
      <3>2. QED
        BY <1>1, <1>9, <2>1, <3>1, <1>11
    <2>5. QED
      BY <2>2, <2>3, <2>4, Sums
  <1>10. QED
    BY <1>7, <1>8, <1>9

\* What two lists of different chunks are merged into.
LEMMA MergeIs ==
  ASSUME NEW T, NEW a \in Seq(T), NEW b \in Seq(T), IsInjective(a), IsInjective(b)
  PROVE  LET r == MergeWithRrf(a, b) IN
         /\ r \in Seq(T) /\ IsInjective(r) /\ ToSet(r) = ToSet(a) \cup ToSet(b)
         /\ \A m, n \in DOMAIN r :
              m < n => ~Better(RankScore(a, b, r[n]), RankScore(a, b, r[m]))
  <1> DEFINE o == Only(b, ToSet(b) \ ToSet(a))
             records == a \o o
             score == [x \in ToSet(records) |-> RankScore(a, b, x)]
             r == BestFirst(records, score)
  <1>1. o \in Seq(T) /\ IsInjective(o) /\ ToSet(o) = ToSet(b) \cap (ToSet(b) \ ToSet(a))
    BY OnlyIs
  <1>2. ToSet(o) = ToSet(b) \ ToSet(a)
    BY <1>1
  <1>3. MergeWithRrf(a, b) = r
    BY DEF MergeWithRrf
  <1> HIDE DEF o
  <1>4. /\ records \in Seq(T) /\ Len(records) = Len(a) + Len(o)
        /\ DOMAIN records = 1..(Len(a) + Len(o)) /\ Len(a) \in Nat /\ Len(o) \in Nat
        /\ DOMAIN a = 1..Len(a) /\ DOMAIN o = 1..Len(o)
        /\ \A i \in 1..(Len(a) + Len(o)) :
             records[i] = IF i <= Len(a) THEN a[i] ELSE o[i - Len(a)]
        /\ ToSet(records) = ToSet(a) \cup ToSet(o)
    BY <1>1, ConcatIs
  <1> HIDE DEF records
  <1>5. ToSet(records) = ToSet(a) \cup ToSet(b)
    BY <1>2, <1>4
  <1>6. IsInjective(records)
    <2> SUFFICES ASSUME NEW i \in DOMAIN records, NEW j \in DOMAIN records, records[i] = records[j]
                 PROVE  i = j
      BY DEF IsInjective
    <2>1. CASE i <= Len(a) /\ j <= Len(a)
      BY <1>4, <2>1 DEF IsInjective
    <2>2. ASSUME NEW m \in DOMAIN records, NEW n \in DOMAIN records, m <= Len(a), ~(n <= Len(a))
          PROVE  records[m] # records[n]
      <3>1. records[m] \in ToSet(a)
        BY <1>4, <2>2 DEF ToSet
      <3>2. n - Len(a) \in DOMAIN o
        BY <1>4, <2>2
      <3>3. records[n] \in ToSet(o)
        BY <1>4, <2>2, <3>2 DEF ToSet
      <3>4. QED
        BY <1>2, <3>1, <3>3
    <2>3. CASE ~(i <= Len(a)) /\ ~(j <= Len(a))
      <3>1. i - Len(a) \in DOMAIN o /\ j - Len(a) \in DOMAIN o
        BY <1>4, <2>3
      <3>2. o[i - Len(a)] = o[j - Len(a)]
        BY <1>4, <2>3
      <3>3. i - Len(a) = j - Len(a)
        BY <1>1, <3>1, <3>2 DEF IsInjective
      <3>4. QED
        BY <1>4, <3>3
    <2>4. QED
      BY <2>1, <2>2, <2>3
  <1>7. \A x \in ToSet(records) : score[x] \in Score
    <2> SUFFICES ASSUME NEW x \in ToSet(a) \cup ToSet(b) PROVE RankScore(a, b, x) \in Score
      BY <1>5
    <2>1. /\ x \in ToSet(a) => RankIn(a, x) \in Nat \ {0}
          /\ x \in ToSet(b) => RankIn(b, x) \in Nat \ {0}
      BY RankInIs
    <2>2. RankScore(a, b, x) =
            (CASE x \notin ToSet(b) -> <<1, 60 + RankIn(a, x)>>
               [] x \notin ToSet(a) -> <<1, 60 + RankIn(b, x)>>
               [] OTHER -> <<(60 + RankIn(a, x)) + (60 + RankIn(b, x)),
                             (60 + RankIn(a, x)) * (60 + RankIn(b, x))>>)
      BY DEF RankScore, K
    <2>3. CASE x \notin ToSet(b)
      BY <2>1, <2>2, <2>3 DEF Score
    <2>4. CASE x \notin ToSet(a)
      BY <2>1, <2>2, <2>4 DEF Score
    <2>5. CASE x \in ToSet(a) /\ x \in ToSet(b)
      <3>1. (60 + RankIn(a, x)) * (60 + RankIn(b, x)) \in Nat \ {0}
        BY <2>1, <2>5
      <3>2. QED
        BY <2>1, <2>2, <2>5, <3>1 DEF Score
    <2>6. QED
      BY <2>3, <2>4, <2>5
  <1>8. /\ r \in Seq(T) /\ ToSet(r) = ToSet(records)
        /\ IsInjective(records) => IsInjective(r)
        /\ \A m, n \in DOMAIN r : m < n => ~Better(score[r[n]], score[r[m]])
    <2> HIDE DEF score
    <2>1. QED
      BY <1>4, <1>7, BestFirstIs
  <1> HIDE DEF r
  <1>9. ASSUME NEW m \in DOMAIN r, NEW n \in DOMAIN r, m < n
        PROVE  ~Better(RankScore(a, b, r[n]), RankScore(a, b, r[m]))
    <2>1. r[m] \in ToSet(records) /\ r[n] \in ToSet(records)
      BY <1>8 DEF ToSet
    <2>2. score[r[m]] = RankScore(a, b, r[m]) /\ score[r[n]] = RankScore(a, b, r[n])
      BY <2>1
    <2>3. QED
      BY <1>8, <1>9, <2>2
  <1>10. QED
    BY <1>3, <1>5, <1>6, <1>8, <1>9

\* The fusion of a request is fair.
Fair(f) ==
  \A x, y \in ToSet(f.hits) :
    (/\ Depth(f.a, x) <= Depth(f.a, y) /\ Depth(f.b, x) <= Depth(f.b, y)
     /\ <<Depth(f.a, x), Depth(f.b, x)>> # <<Depth(f.a, y), Depth(f.b, y)>>)
    => RankIn(f.hits, x) < RankIn(f.hits, y)

LEMMA MergeIsFair ==
  ASSUME NEW T, NEW a \in Seq(T), NEW b \in Seq(T), IsInjective(a), IsInjective(b)
  PROVE  Fair([a |-> a, b |-> b, hits |-> MergeWithRrf(a, b)])
  <1> DEFINE r == MergeWithRrf(a, b)
  <1>1. /\ r \in Seq(T) /\ IsInjective(r) /\ ToSet(r) = ToSet(a) \cup ToSet(b)
        /\ \A m, n \in DOMAIN r :
             m < n => ~Better(RankScore(a, b, r[n]), RankScore(a, b, r[m]))
    BY MergeIs
  <1> HIDE DEF r
  <1>2. ASSUME NEW x \in ToSet(r), NEW y \in ToSet(r),
               Depth(a, x) <= Depth(a, y), Depth(b, x) <= Depth(b, y),
               <<Depth(a, x), Depth(b, x)>> # <<Depth(a, y), Depth(b, y)>>
        PROVE  RankIn(r, x) < RankIn(r, y)
    <2> DEFINE m == RankIn(r, x)
               n == RankIn(r, y)
    <2>1. m \in DOMAIN r /\ r[m] = x /\ m \in Nat /\ n \in DOMAIN r /\ r[n] = y /\ n \in Nat
      BY <1>1, RankInIs
    <2>2. Better(RankScore(a, b, x), RankScore(a, b, y))
      BY <1>1, <1>2, HigherScores
    <2>3. m # n
      BY <1>2, <2>1
    <2> HIDE DEF m, n
    <2>4. ~(n < m)
      BY <1>1, <2>1, <2>2
    <2>5. QED
      BY <2>1, <2>3, <2>4 DEF m, n
  <1>3. QED
    BY <1>2 DEF Fair, r

-----------------------------------------------------------------------------
(* Mixed search *)

\* A sort keeps how many there are of each side.
LEMMA SortKeepsSides ==
  ASSUME NEW T, NEW s \in Seq(T), NEW score, \A x \in ToSet(s) : score[x] \in Score,
         NEW side, NEW I \in SUBSET (DOMAIN s), \A i \in I : s[i].item \in side
  PROVE  Cardinality(I) <= OfSide(BestFirst(s, score), side)
  <1> DEFINE r == BestFirst(s, score)
             before == Ahead(s, score)
             There == {n \in DOMAIN r : r[n].item \in side}
             At == [i \in I |-> CHOOSE n \in DOMAIN s : Nth(before, n) = i]
  <1>0. DOMAIN s = 1..Len(s) /\ Len(s) \in Nat
    OBVIOUS
  <1>1. /\ r \in Seq(T) /\ Len(r) = Len(s)
        /\ Ranks(DOMAIN s, before) /\ r = Read(s, DOMAIN s, before)
    BY BestFirstIs
  <1>2. IsFiniteSet(DOMAIN s) /\ Cardinality(DOMAIN s) = Len(s) /\ DOMAIN r = DOMAIN s
    <2>1. IsFiniteSet(DOMAIN s) /\ Cardinality(DOMAIN s) = Len(s)
      BY <1>0, FS_Interval
    <2> HIDE DEF r
    <2>2. DOMAIN r = DOMAIN s
      BY <1>0, <1>1
    <2>3. QED
      BY <2>1, <2>2
  <1> HIDE DEF r, before
  <1>3. ASSUME NEW i \in I PROVE At[i] \in DOMAIN s /\ Nth(before, At[i]) = i
    <2>1. \E n \in DOMAIN s : Nth(before, n) = i
      BY <1>0, <1>1, <1>2 DEF Ranks
    <2>2. QED
      BY <2>1
  <1>4. ASSUME NEW i \in I PROVE At[i] \in There
    <2>1. r[At[i]] = s[i]
      BY <1>0, <1>1, <1>2, <1>3 DEF Read
    <2>2. QED
      BY <1>2, <1>3, <2>1
  <1>5. At \in [I -> There]
    BY <1>4
  <1>6. \A i, j \in I : At[i] = At[j] => i = j
    BY <1>3
  <1>7. There \in SUBSET (DOMAIN r)
    OBVIOUS
  <1>8. IsFiniteSet(There)
    BY <1>2, <1>7, FS_Subset
  <1> HIDE DEF At, There
  <1>9. At \in Injection(I, There)
    BY <1>5, <1>6, Fun_IsInj
  <1>10. Cardinality(I) <= Cardinality(There)
    BY <1>8, <1>9, FS_Injection
  <1>11. QED
    BY <1>10 DEF There, r, OfSide

LEMMA LeastIs ==
  ASSUME NEW l \in Nat, NEW p \in Nat, NEW m, m = IF p < l THEN p ELSE l
  PROVE  /\ m \in Nat /\ m <= p /\ Least(l, p) = m
         /\ l - m = (IF p < l THEN l - p ELSE 0)
  BY DEF Least

\* m of l and n of h places are filled, and r more from what is left.
Refilled(l, h, m, n, k, r) ==
  /\ l \in Nat /\ h \in Nat /\ m \in Nat /\ n \in Nat /\ k \in Nat
  /\ m <= l /\ n <= h /\ m + n <= k
  /\ r = IF k - (m + n) < (l - m) + (h - n) THEN k - (m + n) ELSE (l - m) + (h - n)

LEMMA RefillIs ==
  ASSUME NEW l, NEW h, NEW m, NEW n, NEW k, NEW r, Refilled(l, h, m, n, k, r)
  PROVE  r \in Nat /\ (m + n) + r = Least(k, l + h) /\ (m + n) + r <= k
  BY DEF Least, Refilled

LEMMA BalancedIs ==
  ASSUME NEW T, NEW a \in Seq(T), NEW b \in Seq(T), NEW k \in Nat,
         NEW score, \A x \in ToSet(a) \cup ToSet(b) : score[x] \in Score,
         NEW A, \A x \in ToSet(a) : x.item \in A,
         NEW B, \A x \in ToSet(b) : x.item \in B
  PROVE  LET r == Balanced(a, b, k, score) IN
         /\ r \in Seq(T) /\ Len(r) = Least(k, Len(a) + Len(b))
         /\ OfSide(r, A) >= Least(Len(a), PublicQuota(k))
         /\ OfSide(r, B) >= Least(Len(b), PrivateQuota(k))
  <1> DEFINE p == PublicQuota(k)
             q == PrivateQuota(k)
             m == IF p < Len(a) THEN p ELSE Len(a)
             n == IF q < Len(b) THEN q ELSE Len(b)
             a1 == First(a, p)
             b1 == First(b, q)
             a2 == Rest(a, p)
             b2 == Rest(b, q)
             chosen == a1 \o b1
             rest == a2 \o b2
             sorted == BestFirst(rest, score)
             refill == First(sorted, k - Len(chosen))
             all == chosen \o refill
             best == BestFirst(all, score)
  <1>1. p \in Nat /\ q \in Nat /\ p + q = k
    BY DEF PublicQuota, PrivateQuota
  <1>2. Balanced(a, b, k, score) = First(best, k)
    BY DEF Balanced
  <1>3. Len(a) \in Nat /\ Len(b) \in Nat /\ DOMAIN a = 1..Len(a) /\ DOMAIN b = 1..Len(b)
    OBVIOUS
  <1> HIDE DEF p, q
  <1>22. /\ m \in Nat /\ n \in Nat /\ m <= p /\ n <= q /\ m + n <= k
         /\ Least(Len(a), p) = m /\ Least(Len(b), q) = n
         /\ Len(a) - m = (IF p < Len(a) THEN Len(a) - p ELSE 0)
         /\ Len(b) - n = (IF q < Len(b) THEN Len(b) - q ELSE 0)
    <2>1. /\ m \in Nat /\ m <= p /\ Least(Len(a), p) = m
          /\ Len(a) - m = (IF p < Len(a) THEN Len(a) - p ELSE 0)
      BY <1>1, <1>3, LeastIs
    <2>2. /\ n \in Nat /\ n <= q /\ Least(Len(b), q) = n
          /\ Len(b) - n = (IF q < Len(b) THEN Len(b) - q ELSE 0)
      BY <1>1, <1>3, LeastIs
    <2> HIDE DEF m, n
    <2>3. m + n <= k
      BY <1>1, <2>1, <2>2
    <2>4. QED
      BY <2>1, <2>2, <2>3
  <1>23. m <= Len(a) /\ n <= Len(b)
    <2>1. m <= Len(a)
      BY <1>1, <1>3
    <2>2. n <= Len(b)
      BY <1>1, <1>3
    <2>3. QED
      BY <2>1, <2>2
  <1>4. /\ a1 \in Seq(T) /\ Len(a1) = m /\ ToSet(a1) \subseteq ToSet(a)
        /\ b1 \in Seq(T) /\ Len(b1) = n /\ ToSet(b1) \subseteq ToSet(b)
    BY <1>1, FirstIs
  <1>5. ASSUME NEW s \in Seq(T), NEW i \in Nat
        PROVE  /\ Rest(s, i) \in Seq(T) /\ ToSet(Rest(s, i)) \subseteq ToSet(s)
               /\ Len(Rest(s, i)) = IF i < Len(s) THEN Len(s) - i ELSE 0
    <2> DEFINE r == Rest(s, i)
    <2>1. Len(s) \in Nat /\ DOMAIN s = 1..Len(s) /\ i + 1 \in Int /\ Len(s) \in Int
      OBVIOUS
    <2>2. \A j \in (i + 1)..Len(s) : s[j] \in T
      BY <2>1
    <2>3. r = SubSeq(s, i + 1, Len(s))
      BY DEF Rest
    <2> HIDE DEF r
    <2>4. /\ r \in Seq(T) /\ Len(r) = (IF i + 1 <= Len(s) THEN Len(s) - (i + 1) + 1 ELSE 0)
          /\ \A j \in 1..(Len(s) - (i + 1) + 1) : r[j] = s[(i + 1) + j - 1]
      BY <2>1, <2>2, <2>3, SubSeqProperties
    <2>5. ASSUME NEW j \in DOMAIN r PROVE r[j] \in ToSet(s)
      <3>1. Len(r) \in Nat /\ DOMAIN r = 1..Len(r)
        BY <2>4
      <3>2. i + 1 <= Len(s)
        <4>1. ~(i + 1 <= Len(s)) => Len(r) = 0
          BY <2>4
        <4>2. Len(r) # 0
          BY <3>1
        <4>3. QED
          BY <4>1, <4>2
      <3>3. Len(r) = Len(s) - (i + 1) + 1
        BY <2>4, <3>2
      <3>4. j \in 1..(Len(s) - (i + 1) + 1)
        BY <3>1, <3>3
      <3>5. (i + 1) + j - 1 \in 1..Len(s)
        BY <2>1, <3>4
      <3>6. QED
        BY <2>1, <2>4, <3>4, <3>5 DEF ToSet
    <2>6. ToSet(r) \subseteq ToSet(s)
      BY <2>5 DEF ToSet
    <2>7. Len(r) = IF i < Len(s) THEN Len(s) - i ELSE 0
      <3>1. CASE i < Len(s)
        <4>1. i + 1 <= Len(s) /\ Len(s) - (i + 1) + 1 = Len(s) - i
          BY <2>1, <3>1
        <4>2. QED
          BY <2>4, <3>1, <4>1
      <3>2. CASE ~(i < Len(s))
        <4>1. ~(i + 1 <= Len(s))
          BY <2>1, <3>2
        <4>2. QED
          BY <2>4, <3>2, <4>1
      <3>3. QED
        BY <3>1, <3>2
    <2>8. QED
      BY <2>4, <2>6, <2>7 DEF r
  <1>6. /\ a2 \in Seq(T) /\ Len(a2) = (IF p < Len(a) THEN Len(a) - p ELSE 0)
        /\ b2 \in Seq(T) /\ Len(b2) = (IF q < Len(b) THEN Len(b) - q ELSE 0)
        /\ ToSet(a2) \subseteq ToSet(a) /\ ToSet(b2) \subseteq ToSet(b)
    BY <1>1, <1>5
  <1> HIDE DEF a1, b1, a2, b2, m, n
  <1>7. /\ chosen \in Seq(T) /\ Len(chosen) = Len(a1) + Len(b1)
        /\ DOMAIN chosen = 1..(Len(a1) + Len(b1)) /\ Len(a1) \in Nat /\ Len(b1) \in Nat
        /\ DOMAIN a1 = 1..Len(a1) /\ DOMAIN b1 = 1..Len(b1)
        /\ \A i \in 1..(Len(a1) + Len(b1)) :
             chosen[i] = IF i <= Len(a1) THEN a1[i] ELSE b1[i - Len(a1)]
        /\ ToSet(chosen) = ToSet(a1) \cup ToSet(b1)
    BY <1>4, ConcatIs, ZenonT(30)
  <1>8. /\ rest \in Seq(T) /\ Len(rest) = Len(a2) + Len(b2)
        /\ ToSet(rest) = ToSet(a2) \cup ToSet(b2)
    BY <1>6, ConcatIs, ZenonT(30)
  <1> HIDE DEF chosen, rest
  <1>9. sorted \in Seq(T) /\ Len(sorted) = Len(rest) /\ ToSet(sorted) = ToSet(rest)
    <2>1. \A x \in ToSet(rest) : score[x] \in Score
      BY <1>6, <1>8
    <2>2. QED
      BY <1>8, <2>1, BestFirstIs
  <1>10. Len(chosen) = m + n /\ m + n <= k /\ m \in Nat /\ n \in Nat /\ k - Len(chosen) \in Nat
    BY <1>4, <1>7, <1>22
  <1> HIDE DEF sorted
  <1>11. /\ refill \in Seq(T) /\ ToSet(refill) \subseteq ToSet(sorted)
         /\ Len(refill) = IF k - Len(chosen) < Len(sorted) THEN k - Len(chosen) ELSE Len(sorted)
    BY <1>9, <1>10, FirstIs
  <1> HIDE DEF refill
  <1>12. /\ all \in Seq(T) /\ Len(all) = Len(chosen) + Len(refill)
         /\ DOMAIN all = 1..(Len(chosen) + Len(refill))
         /\ Len(chosen) \in Nat /\ Len(refill) \in Nat
         /\ DOMAIN chosen = 1..Len(chosen) /\ DOMAIN refill = 1..Len(refill)
         /\ \A i \in 1..(Len(chosen) + Len(refill)) :
              all[i] = IF i <= Len(chosen) THEN chosen[i] ELSE refill[i - Len(chosen)]
         /\ ToSet(all) = ToSet(chosen) \cup ToSet(refill)
    <2>1. chosen \in Seq(T) /\ refill \in Seq(T)
      BY <1>7, <1>11
    <2>2. QED
      BY <2>1, ConcatIs
  <1> HIDE DEF all
  <1>13. Len(all) = Least(k, Len(a) + Len(b)) /\ Len(all) <= k /\ Len(all) \in Nat
    <2>1. Len(sorted) = (Len(a) - m) + (Len(b) - n)
      BY <1>6, <1>8, <1>9, <1>22
    <2>2. Len(refill) = IF k - (m + n) < (Len(a) - m) + (Len(b) - n)
                        THEN k - (m + n) ELSE (Len(a) - m) + (Len(b) - n)
      BY <1>10, <1>11, <2>1
    <2>3. m <= Len(a) /\ n <= Len(b)
      BY <1>23
    <2>4. /\ Len(refill) \in Nat /\ (m + n) + Len(refill) = Least(k, Len(a) + Len(b))
          /\ (m + n) + Len(refill) <= k
      <3>1. /\ Len(a) \in Nat /\ Len(b) \in Nat /\ m \in Nat /\ n \in Nat /\ k \in Nat
            /\ m + n <= k
        BY <1>3, <1>22
      <3> DEFINE r == Len(refill)
      <3>2. r = IF k - (m + n) < (Len(a) - m) + (Len(b) - n)
                THEN k - (m + n) ELSE (Len(a) - m) + (Len(b) - n)
        BY <2>2
      <3> HIDE DEF r
      <3>3. Refilled(Len(a), Len(b), m, n, k, r)
        BY <2>3, <3>1, <3>2 DEF Refilled
      <3>5. r \in Nat /\ (m + n) + r = Least(k, Len(a) + Len(b)) /\ (m + n) + r <= k
        BY <3>3, RefillIs
      <3>4. QED
        BY <3>5 DEF r
    <2>5. Len(all) = (m + n) + Len(refill)
      BY <1>10, <1>12
    <2>6. QED
      BY <1>22, <2>4, <2>5
  <1>24. DOMAIN all = 1..((m + n) + Len(refill)) /\ Len(refill) \in Nat
         /\ \A i \in 1..(m + n) : all[i] = IF i <= m THEN a1[i] ELSE b1[i - m]
    <2>1. Len(chosen) = m + n /\ Len(refill) \in Nat /\ m \in Nat /\ n \in Nat
      BY <1>10, <1>12
    <2>2. DOMAIN all = 1..((m + n) + Len(refill))
      BY <1>12, <2>1
    <2>3. ASSUME NEW i \in 1..(m + n) PROVE all[i] = chosen[i]
      <3>1. i \in 1..(Len(chosen) + Len(refill)) /\ i <= Len(chosen)
        BY <2>1
      <3>2. QED
        BY <1>12, <3>1
    <2>4. ASSUME NEW i \in 1..(m + n) PROVE chosen[i] = IF i <= m THEN a1[i] ELSE b1[i - m]
      <3>1. Len(a1) = m /\ Len(b1) = n
        BY <1>4
      <3>2. QED
        BY <1>7, <3>1
    <2>5. QED
      BY <2>1, <2>2, <2>3, <2>4
  <1>14. \A x \in ToSet(all) : score[x] \in Score
    BY <1>4, <1>6, <1>7, <1>8, <1>9, <1>11, <1>12
  <1>15. best \in Seq(T) /\ Len(best) = Len(all)
    BY <1>12, <1>14, BestFirstIs
  <1>16. First(best, k) = best
    <2>1. First(best, k) = SubSeq(best, 1, Len(best))
      BY <1>13, <1>15 DEF First
    <2> HIDE DEF best
    <2>2. QED
      BY <1>15, <2>1, SubSeqFull
  <1>17. Least(Len(a), p) <= OfSide(best, A)
    <2> DEFINE I == 1..m
    <2>1. I \in SUBSET (DOMAIN all)
      BY <1>10, <1>24
    <2>2. \A i \in I : all[i].item \in A
      <3> SUFFICES ASSUME NEW i \in I PROVE all[i].item \in A
        OBVIOUS
      <3>1. all[i] = a1[i] /\ i \in DOMAIN a1
        <4>1. i \in 1..(m + n) /\ i <= m
          BY <1>10
        <4>2. DOMAIN a1 = 1..m
          BY <1>4, <1>7
        <4>3. QED
          BY <1>24, <4>1, <4>2
      <3>2. a1[i] \in ToSet(a)
        BY <1>4, <3>1 DEF ToSet
      <3>3. QED
        BY <3>1, <3>2
    <2>3. Cardinality(I) = m
      BY <1>10, FS_Interval
    <2> HIDE DEF I, best
    <2>4. Cardinality(I) <= OfSide(BestFirst(all, score), A)
      BY <1>12, <1>14, <2>1, <2>2, SortKeepsSides
    <2>5. QED
      BY <1>22, <2>3, <2>4 DEF best
  <1>18. Least(Len(b), q) <= OfSide(best, B)
    <2> DEFINE I == (m + 1)..(m + n)
    <2>1. I \in SUBSET (DOMAIN all)
      BY <1>10, <1>24
    <2>2. \A i \in I : all[i].item \in B
      <3> SUFFICES ASSUME NEW i \in I PROVE all[i].item \in B
        OBVIOUS
      <3>1. all[i] = b1[i - m] /\ i - m \in DOMAIN b1
        <4>1. i \in 1..(m + n) /\ ~(i <= m) /\ i - m \in 1..n
          BY <1>10
        <4>2. DOMAIN b1 = 1..n
          BY <1>4, <1>7
        <4>3. QED
          BY <1>24, <4>1, <4>2
      <3>2. b1[i - m] \in ToSet(b)
        BY <1>4, <3>1 DEF ToSet
      <3>3. QED
        BY <3>1, <3>2
    <2>3. Cardinality(I) = n
      BY <1>10, FS_Interval
    <2> HIDE DEF I, best
    <2>4. Cardinality(I) <= OfSide(BestFirst(all, score), B)
      BY <1>12, <1>14, <2>1, <2>2, SortKeepsSides
    <2>5. QED
      BY <1>22, <2>3, <2>4 DEF best
  <1>19. OfSide(best, A) \in Nat /\ OfSide(best, B) \in Nat
    <2>1. IsFiniteSet(DOMAIN best)
      <3> HIDE DEF best
      <3>1. DOMAIN best = 1..Len(best) /\ Len(best) \in Nat
        BY <1>15
      <3>2. IsFiniteSet(1..Len(best))
        BY <3>1, FS_Interval
      <3>3. QED
        BY <3>1, <3>2
    <2>2. ASSUME NEW S PROVE OfSide(best, S) \in Nat
      <3>1. {i \in DOMAIN best : best[i].item \in S} \in SUBSET (DOMAIN best)
        OBVIOUS
      <3>2. IsFiniteSet({i \in DOMAIN best : best[i].item \in S})
        BY <2>1, <3>1, FS_Subset
      <3>3. QED
        BY <3>2, FS_CardinalityType DEF OfSide
    <2>3. QED
      BY <2>2
  <1>20. Least(Len(a), p) \in Nat /\ Least(Len(b), q) \in Nat
    BY <1>22
  <1> HIDE DEF best
  <1>21. QED
    BY <1>2, <1>13, <1>15, <1>16, <1>17, <1>18, <1>19, <1>20 DEF p, q

-----------------------------------------------------------------------------
(* What holds of the caches *)

\* The items a corpus in each place can hold, and a corpus, if there is one yet.
Of(s) == IF s \in {"public", "mpub"} THEN Policies ELSE Uploads
Corpus(s) == [text : [Of(s) -> Nat] \cup {None}, late : BOOLEAN]

\* The retrievers that take the corpora of each.
Above == [public |-> {"mixed", "engine"}, private |-> {"mixed", "engine"},
          mixed |-> {"engine"}, engine |-> {}]

Build == {d \in [do : {"get", "keep"}, c : Caches, as : Slot \cup Caches] :
            d.c \in LeafCaches => d.as \in Slot /\ Of(d.as) = Covers(d.c)}
Clearing == {Clear(c) : c \in Caches}
ItemRow == [on : BOOLEAN, ready : BOOLEAN, text : 1..MaxTexts]
Place == {"idle", "indexing", "indexed", "clearing",
          "tools", "sync", "create", "files", "overview", "prompt"}

CachesTypeOK ==
  /\ item \in [Items -> ItemRow]
  /\ cache = [c \in Caches |-> cache[c]]
  /\ \A c \in Caches : cache[c] # None => \A s \in Slots[c] : cache[c][s] \in Corpus(s)
  /\ todo \in [Threads -> Seq(Build \cup Clearing)]
  /\ held = [t \in Threads |-> [s \in Slot |-> held[t][s]]]
  /\ \A t \in Threads, s \in Slot : held[t][s] \in Corpus(s)
  /\ pc \in [Threads -> Place]
  /\ about \in [Threads -> Items \cup {Nobody}]
  /\ \A t \in Threads : pc[t] \in {"indexing", "indexed", "create"} => about[t] \in Items
  /\ spoiled \in [Threads -> SUBSET Caches]
  /\ unsaid \subseteq Items

\* A thread builds for a request or clears after a change.  Whatever it builds or takes
\* goes into what is to be kept later, and what is cleared goes before what has parts
\* of it.
Ordered(t) ==
  /\ pc[t] \notin {"tools", "clearing"} => todo[t] = <<>>
  /\ pc[t] = "tools" => \A n \in DOMAIN todo[t] : todo[t][n] \in Build
  /\ pc[t] = "clearing" => \A n \in DOMAIN todo[t] : todo[t][n] \in Clearing
  /\ \A m, n \in DOMAIN todo[t] :
       m < n /\ todo[t][n].do = "keep" => todo[t][n].c \in Above[todo[t][m].c]
  /\ \A n \in DOMAIN todo[t] : todo[t][n].do = "clear" =>
       \A c \in Above[todo[t][n].c] : \E m \in DOMAIN todo[t] : m > n /\ todo[t][m] = Clear(c)

\* What the retriever c may have in a corpus.
Good(leaf, c) ==
  leaf.late \/ \A i \in DOMAIN leaf.text \ unsaid : leaf.text[i] = Current(i) \/ Owed(i, c)

\* What a thread is about to keep is good, but for what it has yet to fetch, if the
\* cache was not cleared meanwhile.
Keeps(t) ==
  \A n \in DOMAIN todo[t] : todo[t][n].do = "keep" =>
    LET d == todo[t][n]
    IN  \/ d.c \in spoiled[t]
        \/ \A s \in Fills(d.c, d.as) :
             \/ \E m \in DOMAIN todo[t] : m < n /\ s \in Fills(todo[t][m].c, todo[t][m].as)
             \/ Good(held[t][s], d.c)

CachesInv ==
  /\ CachesTypeOK
  /\ \A t \in Threads : Ordered(t)
  /\ \A t \in Threads : Keeps(t)
  /\ CachesAreCurrent

-----------------------------------------------------------------------------
(* What holds of the requests *)

Request ==
  [tool : {"ask", "bm25_only", "vector_only", "bm25_vector_hybrid"},
   scope : {"public", "private_sample", "mixed"},
   picked : SUBSET Items, files : SUBSET Items,
   q : [sparse : [Items -> Nat], dense : [Items -> Nat]]]
Serving == {"tools", "sync", "create", "files", "overview", "prompt"}
Document == [item : Items, text : Nat, at : Nat]
Entry == [key : Nat \X Nat, chunks : Seq(Document)]

AskTypeOK ==
  /\ langchain \in BOOLEAN
  /\ ask = [t \in Threads |-> ask[t]]
  /\ rag \subseteq Document /\ IsFiniteSet(rag)
  /\ wanted \in [Threads -> SUBSET Items]
  /\ corpora \in Seq(Entry) /\ \A n \in DOMAIN corpora : IsInjective(corpora[n].chunks)
  /\ found = [t \in Threads |-> found[t]]
  /\ shown = [t \in Threads |-> shown[t]]
  /\ touched \in [Threads -> SUBSET Items]

Requested(t) ==
  /\ pc[t] \in Serving => ask[t] \in Request
  /\ pc[t] \notin Serving => ask[t] = NoAsk
  /\ pc[t] \notin {"files", "prompt"} => found[t] = NotYet
  /\ pc[t] \in {"sync", "create"} => langchain
  /\ pc[t] \in {"files", "overview"} => ask[t].tool = "ask"

\* A chosen file that nobody touched is still indexed, so that the search for files
\* finds one, and then their overviews are made.
Chosen(t) == {f \in ask[t].files \ touched[t] : item[f].on}
Uploaded(t) ==
  /\ pc[t] \in Serving => \A f \in ask[t].files \ touched[t] : item[f].ready
  /\ pc[t] # "prompt" => \A e \in shown[t] : e.as # "overview"
  /\ pc[t] = "overview" /\ Chosen(t) # {} =>
       \E e \in shown[t] : e.as = "upload" /\ e.item \in ask[t].files

AskInv ==
  /\ AskTypeOK
  /\ \A t \in Threads : Requested(t)
  /\ \A t \in Threads : Uploaded(t)
  /\ UploadsAreShown /\ FusionIsFair /\ MixedSharesPlaces

RetrievalInv == CachesInv /\ AskInv
-----------------------------------------------------------------------------
(* Tables *)

LEMMA Tables ==
  /\ Slots.public = {"public"} /\ Slots.private = {"private"}
  /\ Slots.mixed = {"mpub", "mpriv"} /\ Slots.engine = Slot
  /\ Slot = {"public", "private", "mpub", "mpriv"}
  /\ \A c \in Caches : Slots[c] \subseteq Slot
  /\ Above["public"] = {"mixed", "engine"} /\ Above["private"] = {"mixed", "engine"}
  /\ Above["mixed"] = {"engine"} /\ Above["engine"] = {}
  /\ \A c \in Caches : c \notin Above[c] /\ Above[c] \subseteq Caches
  /\ \A c \in Caches : \A d \in Above[c] : Above[d] \subseteq Above[c]
  BY DEF Slots, Slot, Above, Caches

\* The items a retriever has.
Reach(c) == IF c \in LeafCaches THEN Covers(c) ELSE Items

LEMMA Within ==
  ASSUME NEW s, NEW leaf \in Corpus(s)
  PROVE  DOMAIN leaf.text \subseteq Of(s) /\ Of(s) \subseteq Items
  <1>1. leaf.text \in [Of(s) -> Nat] \/ leaf.text = None
    BY DEF Corpus
  <1>2. DOMAIN None = {}
    BY DEF None
  <1>3. DOMAIN leaf.text \subseteq Of(s)
    BY <1>1, <1>2
  <1>4. QED
    BY <1>3 DEF Of, Items

LEMMA Reached ==
  ASSUME NEW d \in Build, NEW s \in Fills(d.c, d.as)
  PROVE  s \in Slot /\ Of(s) \subseteq Reach(d.c)
  <1>1. d.c \in Caches /\ (d.c \in LeafCaches => d.as \in Slot /\ Of(d.as) = Covers(d.c))
    BY DEF Build
  <1>2. CASE d.c \in LeafCaches
    BY <1>1, <1>2 DEF Fills, Reach
  <1>3. CASE d.c \notin LeafCaches
    <2>1. s \in Slot
      BY <1>1, <1>3, Tables DEF Fills
    <2>2. QED
      BY <1>3, <2>1 DEF Reach, Of, Items
  <1>4. QED
    BY <1>2, <1>3

LEMMA SlotReached ==
  ASSUME NEW c \in Caches, NEW s \in Slots[c]
  PROVE  s \in Slot /\ Of(s) \subseteq Reach(c)
  <1>1. s \in Slot
    BY Tables
  <1>2. CASE c \in LeafCaches
    <2>1. s = c
      BY <1>2, Tables DEF LeafCaches
    <2>2. QED
      BY <1>1, <1>2, <2>1 DEF Reach, Of, Covers, LeafCaches
  <1>3. CASE c \notin LeafCaches
    BY <1>1, <1>3 DEF Reach, Of, Items
  <1>4. QED
    BY <1>2, <1>3

LEMMA TailIs ==
  ASSUME NEW T, NEW s \in Seq(T), s # <<>>
  PROVE  /\ s[1] \in T /\ 1 \in DOMAIN s /\ Tail(s) \in Seq(T)
         /\ Len(s) \in Nat \ {0} /\ DOMAIN s = 1..Len(s) /\ DOMAIN Tail(s) = 1..(Len(s) - 1)
         /\ \A n \in DOMAIN Tail(s) : n + 1 \in DOMAIN s /\ Tail(s)[n] = s[n + 1]
  <1>1. Len(s) \in Nat \ {0} /\ DOMAIN s = 1..Len(s)
    BY EmptySeq
  <1>2. Tail(s) \in Seq(T) /\ Len(Tail(s)) = Len(s) - 1
        /\ \A n \in 1..(Len(s) - 1) : Tail(s)[n] = s[n + 1]
    BY HeadTailProperties
  <1>3. DOMAIN Tail(s) = 1..(Len(s) - 1)
    BY <1>2
  <1>4. QED
    BY <1>1, <1>2, <1>3

-----------------------------------------------------------------------------
(* What a step leaves good *)

CurrentNext(i) == IF item'[i].on /\ item'[i].ready THEN item'[i].text ELSE 0
OwedNext(i, c) ==
  \E t \in Threads : /\ about'[t] = i
                     /\ \/ pc'[t] \in {"indexing", "indexed"}
                        \/ \E n \in DOMAIN todo'[t] : todo'[t][n] = Clear(c)
GoodNext(leaf, c) ==
  leaf.late \/ \A i \in DOMAIN leaf.text \ unsaid' :
                  leaf.text[i] = CurrentNext(i) \/ OwedNext(i, c)
KeepsNext(t) ==
  \A n \in DOMAIN todo'[t] : todo'[t][n].do = "keep" =>
    \/ todo'[t][n].c \in spoiled'[t]
    \/ \A s \in Fills(todo'[t][n].c, todo'[t][n].as) :
         \/ \E m \in DOMAIN todo'[t] : m < n /\ s \in Fills(todo'[t][m].c, todo'[t][m].as)
         \/ GoodNext(held'[t][s], todo'[t][n].c)

LEMMA NextKeeps ==
  ASSUME NEW t, KeepsNext(t) PROVE Keeps(t)'
  BY DEF KeepsNext, Keeps, Good, GoodNext, Fills, Owed, OwedNext, Current, CurrentNext, Clear

LEMMA NextCurrent ==
  ASSUME \A c \in Caches : cache'[c] # None => \A s \in Slots[c] : GoodNext(cache'[c][s], c)
  PROVE  CachesAreCurrent'
  BY DEF CachesAreCurrent, GoodNext, Owed, OwedNext, Current, CurrentNext, Clear

\* What the retriever c has of the library does not change, or is not said to be told,
\* or is still to be told.
Told(c) ==
  \A i \in Reach(c) :
    \/ i \in unsaid'
    \/ OwedNext(i, c)
    \/ i \notin unsaid /\ ~Owed(i, c) /\ CurrentNext(i) = Current(i)

LEMMA ToldStaysGood ==
  ASSUME NEW c, NEW leaf, Told(c), DOMAIN leaf.text \subseteq Reach(c), Good(leaf, c)
  PROVE  GoodNext(leaf, c)
  BY DEF Told, Good, GoodNext

\* What is owed to a part is owed to what has it.
LEMMA OwedAbove ==
  ASSUME CachesInv, NEW i, NEW c \in Caches, Owed(i, c), NEW d \in Above[c]
  PROVE  Owed(i, d)
  <1>1. PICK t \in Threads : /\ about[t] = i
                             /\ \/ pc[t] \in {"indexing", "indexed"}
                                \/ \E n \in DOMAIN todo[t] : todo[t][n] = Clear(c)
    BY DEF Owed
  <1>2. CASE pc[t] \in {"indexing", "indexed"}
    BY <1>1, <1>2 DEF Owed
  <1>3. ASSUME NEW n \in DOMAIN todo[t], todo[t][n] = Clear(c) PROVE Owed(i, d)
    <2>1. todo[t][n].do = "clear" /\ todo[t][n].c = c
      BY <1>3 DEF Clear
    <2>2. \E m \in DOMAIN todo[t] : todo[t][m] = Clear(d)
      BY <2>1 DEF CachesInv, Ordered
    <2>3. QED
      BY <1>1, <2>2 DEF Owed
  <1>4. QED
    BY <1>1, <1>2, <1>3

LEMMA GoodAbove ==
  ASSUME CachesInv, NEW leaf, NEW c \in Caches, Good(leaf, c), NEW d \in Above[c]
  PROVE  Good(leaf, d)
  BY OwedAbove DEF Good

\* A step that builds nothing.
LEMMA CachesAside ==
  ASSUME CachesInv, CachesTypeOK', \A t \in Threads : Ordered(t)',
         \A c \in Caches : cache'[c] \in {cache[c], None},
         \A t \in Threads :
           \/ todo'[t] = todo[t] /\ held'[t] = held[t] /\ spoiled[t] \subseteq spoiled'[t]
           \/ \A n \in DOMAIN todo'[t] : todo'[t][n].do # "keep",
         \A c \in Caches :
           \/ Told(c)
           \/ cache'[c] = None /\ \A t \in Threads : Building(t, c) => c \in spoiled'[t]
  PROVE  CachesInv'
  <1>1. \A t \in Threads : KeepsNext(t)
    <2> SUFFICES ASSUME NEW t \in Threads, NEW n \in DOMAIN todo'[t], todo'[t][n].do = "keep",
                        todo'[t][n].c \notin spoiled'[t],
                        NEW s \in Fills(todo'[t][n].c, todo'[t][n].as),
                        \A m \in DOMAIN todo'[t] :
                          m < n => s \notin Fills(todo'[t][m].c, todo'[t][m].as)
                 PROVE  GoodNext(held'[t][s], todo'[t][n].c)
      BY DEF KeepsNext
    <2>1. todo'[t] = todo[t] /\ held'[t] = held[t] /\ spoiled[t] \subseteq spoiled'[t]
      OBVIOUS
    <2> DEFINE d == todo[t][n]
    <2>2. d \in Build
      <3>1. todo[t] \in Seq(Build \cup Clearing)
        BY DEF CachesInv, CachesTypeOK
      <3>2. d \in Build \cup Clearing
        BY <2>1, <3>1
      <3>3. QED
        BY <2>1, <3>2 DEF Clearing, Clear
    <2>3. s \in Slot /\ Of(s) \subseteq Reach(d.c) /\ d.c \in Caches
      BY <2>1, <2>2, Reached DEF Build
    <2>4. Good(held[t][s], d.c)
      BY <2>1 DEF CachesInv, Keeps
    <2>5. held[t][s] \in Corpus(s)
      BY <2>3 DEF CachesInv, CachesTypeOK
    <2>6. DOMAIN held[t][s].text \subseteq Reach(d.c)
      BY <2>3, <2>5, Within
    <2>7. Told(d.c)
      BY <2>1, <2>3 DEF Building
    <2>8. QED
      BY <2>1, <2>4, <2>6, <2>7, ToldStaysGood
  <1>2. \A c \in Caches : cache'[c] # None => \A s \in Slots[c] : GoodNext(cache'[c][s], c)
    <2> SUFFICES ASSUME NEW c \in Caches, cache'[c] # None, NEW s \in Slots[c]
                 PROVE  GoodNext(cache'[c][s], c)
      OBVIOUS
    <2>1. cache'[c] = cache[c] /\ Told(c)
      OBVIOUS
    <2>2. Good(cache[c][s], c) /\ cache[c][s] \in Corpus(s)
      BY <2>1 DEF CachesInv, CachesAreCurrent, Good, CachesTypeOK
    <2>3. DOMAIN cache[c][s].text \subseteq Reach(c)
      BY <2>2, SlotReached, Within
    <2>4. QED
      BY <2>1, <2>2, <2>3, ToldStaysGood
  <1>3. QED
    BY <1>1, <1>2, NextKeeps, NextCurrent DEF CachesInv

-----------------------------------------------------------------------------
(* Changes of the library *)

OwedBy(t, i, c) ==
  /\ about[t] = i
  /\ \/ pc[t] \in {"indexing", "indexed"}
     \/ \E n \in DOMAIN todo[t] : todo[t][n] = Clear(c)
\* Only what this thread does and has to do may change.
Others(t) ==
  \A u \in Threads \ {t} : about'[u] = about[u] /\ pc'[u] = pc[u] /\ todo'[u] = todo[u]

LEMMA OwedElsewhere ==
  ASSUME NEW t \in Threads, Others(t), NEW i, NEW c, Owed(i, c), ~OwedBy(t, i, c)
  PROVE  OwedNext(i, c)
  BY DEF Others, Owed, OwedBy, OwedNext

LEMMA ToldBy ==
  ASSUME NEW t \in Threads, Others(t), NEW c,
         \A i \in Reach(c) :
           \/ i \in unsaid' \/ OwedNext(i, c)
           \/ ~OwedBy(t, i, c) /\ i \notin unsaid /\ CurrentNext(i) = Current(i)
  PROVE  Told(c)
  BY OwedElsewhere DEF Told

\* A thread that is not clearing and does no task owes nothing.
LEMMA OwesNothing ==
  ASSUME CachesInv, NEW t \in Threads, pc[t] \notin {"indexing", "indexed", "clearing"}
  PROVE  \A i, c : ~OwedBy(t, i, c)
  <1>1. \A n \in DOMAIN todo[t] : todo[t][n] \in Build
    <2>1. DOMAIN todo[t] = {} \/ pc[t] = "tools"
      BY DEF CachesInv, Ordered
    <2>2. QED
      BY <2>1 DEF CachesInv, Ordered
  <1>2. \A n \in DOMAIN todo[t] : \A c : todo[t][n] # Clear(c)
    BY <1>1 DEF Build, Clear
  <1>3. QED
    BY <1>2 DEF OwedBy

LEMMA ReachItems == \A c \in Caches : Reach(c) \subseteq Items
  BY DEF Reach, Covers, Items

\* What the others have to do stays in order.
LEMMA OrderedBy ==
  ASSUME CachesInv, NEW t \in Threads, Others(t), Ordered(t)'
  PROVE  \A u \in Threads : Ordered(u)'
  <1> SUFFICES ASSUME NEW u \in Threads, u # t PROVE Ordered(u)'
    OBVIOUS
  <1>1. pc'[u] = pc[u] /\ todo'[u] = todo[u]
    BY DEF Others
  <1>2. Ordered(u)
    BY DEF CachesInv
  <1>3. QED
    BY <1>1, <1>2 DEF Ordered, Clear

LEMMA BeginStep ==
  ASSUME CachesInv, NEW t \in Threads, NEW i \in Items, BeginTask(t, i)
  PROVE  CachesInv'
  <1>1. CachesTypeOK'
    <2>1. item' \in [Items -> ItemRow]
      BY DEF BeginTask, CachesInv, CachesTypeOK, ItemRow
    <2>2. pc' \in [Threads -> Place] /\ about' \in [Threads -> Items \cup {Nobody}]
      BY DEF BeginTask, CachesInv, CachesTypeOK, Place
    <2>3. \A u \in Threads : pc'[u] \in {"indexing", "indexed", "create"} => about'[u] \in Items
      BY DEF BeginTask, CachesInv, CachesTypeOK
    <2>4. UNCHANGED <<cache, todo, held, spoiled, unsaid>>
      BY DEF BeginTask
    <2>5. QED
      BY <2>1, <2>2, <2>3, <2>4 DEF CachesInv, CachesTypeOK
  <1>2. Others(t) /\ about'[t] = i /\ pc'[t] = "indexing" /\ todo'[t] = todo[t]
    BY DEF BeginTask, Others, CachesInv, CachesTypeOK
  <1>3. \A u \in Threads : Ordered(u)'
    <2>1. todo[t] = <<>>
      BY DEF BeginTask, CachesInv, Ordered
    <2>2. Ordered(t)'
      BY <1>2, <2>1 DEF Ordered
    <2>3. QED
      BY <1>2, <2>2, OrderedBy
  <1>4. \A c \in Caches : Told(c)
    <2> TAKE c \in Caches
    <2>1. \A j : ~OwedBy(t, j, c)
      BY OwesNothing DEF BeginTask
    <2>2. OwedNext(i, c)
      BY <1>2 DEF OwedNext
    <2>3. \A j \in Items \ {i} : CurrentNext(j) = Current(j)
      BY DEF BeginTask, CachesInv, CachesTypeOK, Current, CurrentNext
    <2>4. unsaid' = unsaid
      BY DEF BeginTask
    <2>5. QED
      BY <1>2, <2>1, <2>2, <2>3, <2>4, ReachItems, ToldBy
  <1>5. UNCHANGED <<cache, todo, held, spoiled>>
    BY DEF BeginTask
  <1>6. QED
    BY <1>1, <1>3, <1>4, <1>5, CachesAside

LEMMA ReplaceStep ==
  ASSUME CachesInv, NEW t \in Threads, ReplaceChunks(t)
  PROVE  CachesInv'
  <1>0. about[t] \in Items /\ pc[t] = "indexing"
    BY DEF CachesInv, CachesTypeOK, ReplaceChunks
  <1>1. CachesTypeOK'
    <2>1. item' \in [Items -> ItemRow]
      <3>1. item[about[t]] \in ItemRow /\ MaxTexts \in Nat \ {0}
        BY <1>0, RetrievalCachesAssumption DEF CachesInv, CachesTypeOK
      <3>2. (item[about[t]].text % MaxTexts) + 1 \in 1..MaxTexts
        BY <3>1 DEF ItemRow
      <3>3. /\ DOMAIN item' = Items
            /\ \A j \in Items \ {about[t]} : item'[j] = item[j]
        BY <1>0 DEF ReplaceChunks, CachesInv, CachesTypeOK
      <3>4. item'[about[t]] = [item[about[t]] EXCEPT !.ready = TRUE, !.text = (@ % MaxTexts) + 1]
        BY <1>0, <3>1 DEF ReplaceChunks, CachesInv, CachesTypeOK, ItemRow
      <3>5. item'[about[t]] \in ItemRow
        BY <3>1, <3>2, <3>4 DEF ItemRow
      <3>6. \A j \in Items : item'[j] \in ItemRow
        BY <3>3, <3>5 DEF CachesInv, CachesTypeOK
      <3>7. item' = [j \in Items |-> item'[j]]
        BY <3>3 DEF ReplaceChunks
      <3>8. QED
        BY <3>6, <3>7
    <2>2. pc' \in [Threads -> Place]
      BY DEF ReplaceChunks, CachesInv, CachesTypeOK, Place
    <2>3. \A u \in Threads : pc'[u] \in {"indexing", "indexed", "create"} => about'[u] \in Items
      BY <1>0 DEF ReplaceChunks, CachesInv, CachesTypeOK
    <2>4. UNCHANGED <<cache, todo, held, about, spoiled, unsaid>>
      BY DEF ReplaceChunks
    <2>5. QED
      BY <2>1, <2>2, <2>3, <2>4 DEF CachesInv, CachesTypeOK
  <1>2. Others(t) /\ about'[t] = about[t] /\ pc'[t] = "indexed" /\ todo'[t] = todo[t]
    BY DEF ReplaceChunks, Others, CachesInv, CachesTypeOK
  <1>3. \A u \in Threads : Ordered(u)'
    <2>1. todo[t] = <<>>
      BY DEF ReplaceChunks, CachesInv, Ordered
    <2>2. Ordered(t)'
      BY <1>2, <2>1 DEF Ordered
    <2>3. QED
      BY <1>2, <2>2, OrderedBy
  <1>4. \A c \in Caches : Told(c)
    <2> TAKE c \in Caches
    <2>1. OwedNext(about[t], c)
      BY <1>2 DEF OwedNext
    <2>2. \A j \in Items \ {about[t]} : CurrentNext(j) = Current(j)
      BY DEF ReplaceChunks, CachesInv, CachesTypeOK, Current, CurrentNext
    <2>3. unsaid' = unsaid
      BY DEF ReplaceChunks
    <2>4. \A j : j # about[t] => ~OwedBy(t, j, c)
      BY DEF OwedBy
    <2>5. QED
      BY <1>2, <2>1, <2>2, <2>3, <2>4, ReachItems, ToldBy
  <1>5. UNCHANGED <<cache, todo, held, spoiled>>
    BY DEF ReplaceChunks
  <1>6. QED
    BY <1>1, <1>3, <1>4, <1>5, CachesAside

LEMMA FailStep ==
  ASSUME CachesInv, NEW t \in Threads, FailTask(t)
  PROVE  CachesInv'
  <1>0. about[t] \in Items
    BY DEF CachesInv, CachesTypeOK, FailTask
  <1>1. CachesTypeOK'
    <2>1. item' \in [Items -> ItemRow]
      BY <1>0 DEF FailTask, CachesInv, CachesTypeOK, ItemRow
    <2>2. pc' \in [Threads -> Place] /\ about' \in [Threads -> Items \cup {Nobody}]
      BY DEF FailTask, CachesInv, CachesTypeOK, Place
    <2>3. \A u \in Threads : pc'[u] \in {"indexing", "indexed", "create"} => about'[u] \in Items
      BY DEF FailTask, CachesInv, CachesTypeOK
    <2>4. UNCHANGED <<cache, todo, held, spoiled>> /\ unsaid' \subseteq Items
      BY <1>0 DEF FailTask, CachesInv, CachesTypeOK
    <2>5. QED
      BY <2>1, <2>2, <2>3, <2>4 DEF CachesInv, CachesTypeOK
  <1>2. Others(t) /\ pc'[t] = "idle" /\ todo'[t] = todo[t]
    BY DEF FailTask, Others, CachesInv, CachesTypeOK
  <1>3. \A u \in Threads : Ordered(u)'
    <2>1. todo[t] = <<>>
      BY DEF FailTask, CachesInv, Ordered
    <2>2. Ordered(t)'
      BY <1>2, <2>1 DEF Ordered
    <2>3. QED
      BY <1>2, <2>2, OrderedBy
  <1>4. \A c \in Caches : Told(c)
    <2> TAKE c \in Caches
    <2>1. \A j \in Items \ {about[t]} : CurrentNext(j) = Current(j)
      BY DEF FailTask, CachesInv, CachesTypeOK, Current, CurrentNext
    <2>2. unsaid' = unsaid \cup {about[t]}
      BY DEF FailTask
    <2>3. \A j : j # about[t] => ~OwedBy(t, j, c)
      BY DEF OwedBy
    <2>4. QED
      BY <1>2, <2>1, <2>2, <2>3, ReachItems, ToldBy
  <1>5. UNCHANGED <<cache, todo, held, spoiled>>
    BY DEF FailTask
  <1>6. QED
    BY <1>1, <1>3, <1>4, <1>5, CachesAside

\* What is to be cleared after a change.
LEMMA ClearsAre ==
  /\ ClearPrivateRetrievalCaches \in Seq(Clearing) /\ DOMAIN ClearPrivateRetrievalCaches = 1..4
  /\ ClearPrivateRetrievalCaches[1] = Clear("private")
  /\ ClearPrivateRetrievalCaches[2] = Clear("public")
  /\ ClearPrivateRetrievalCaches[3] = Clear("mixed")
  /\ ClearPrivateRetrievalCaches[4] = Clear("engine")
  /\ LET s == Clears(<<"private", "mixed", "engine">>)
     IN  /\ s \in Seq(Clearing) /\ DOMAIN s = 1..3
         /\ s[1] = Clear("private") /\ s[2] = Clear("mixed") /\ s[3] = Clear("engine")
  <1>1. \A c \in Caches : Clear(c) \in Clearing
    BY DEF Clearing
  <1> HIDE DEF Clearing
  <1>2. ClearPrivateRetrievalCaches =
          <<Clear("private"), Clear("public"), Clear("mixed"), Clear("engine")>>
    BY DEF ClearPrivateRetrievalCaches, Clears
  <1>3. Clears(<<"private", "mixed", "engine">>) =
          <<Clear("private"), Clear("mixed"), Clear("engine")>>
    BY DEF Clears
  <1>4. /\ Clear("private") \in Clearing /\ Clear("public") \in Clearing
        /\ Clear("mixed") \in Clearing /\ Clear("engine") \in Clearing
    BY <1>1 DEF Caches
  <1>5. LET s == ClearPrivateRetrievalCaches
        IN  s \in Seq(Clearing) /\ DOMAIN s = 1..4 /\ s[1] = Clear("private")
            /\ s[2] = Clear("public") /\ s[3] = Clear("mixed") /\ s[4] = Clear("engine")
    BY <1>2, <1>4
  <1>6. LET s == <<Clear("private"), Clear("mixed"), Clear("engine")>>
        IN  s \in Seq(Clearing) /\ DOMAIN s = 1..3 /\ s[1] = Clear("private")
            /\ s[2] = Clear("mixed") /\ s[3] = Clear("engine")
    BY <1>4
  <1>7. QED
    BY <1>3, <1>5, <1>6

LEMMA ClearsOrdered ==
  ASSUME NEW t, pc'[t] = "clearing",
         \/ todo'[t] = ClearPrivateRetrievalCaches
         \/ todo'[t] = Clears(<<"private", "mixed", "engine">>)
  PROVE  Ordered(t)'
  <1> DEFINE s == todo'[t]
  <1>1. \A n \in DOMAIN s : s[n] \in Clearing /\ s[n].do = "clear"
    <2>1. \A d \in Clearing : d.do = "clear"
      BY DEF Clearing, Clear
    <2>2. \A n \in DOMAIN s : s[n] \in Clearing
      BY ClearsAre
    <2>3. QED
      BY <2>1, <2>2
  <1>2. \A n \in DOMAIN s : \A c \in Above[s[n].c] : \E m \in DOMAIN s : m > n /\ s[m] = Clear(c)
    <2>1. \A c : Clear(c).c = c
      BY DEF Clear
    <2>2. CASE s = ClearPrivateRetrievalCaches
      <3>1. DOMAIN s = {1, 2, 3, 4}
        BY <2>2, ClearsAre
      <3>2. s[1].c = "private" /\ s[2].c = "public" /\ s[3].c = "mixed" /\ s[4].c = "engine"
        BY <2>1, <2>2, ClearsAre
      <3>3. QED
        BY <2>2, <3>1, <3>2, ClearsAre, Tables
    <2>3. CASE s = Clears(<<"private", "mixed", "engine">>)
      <3>1. DOMAIN s = {1, 2, 3}
        BY <2>3, ClearsAre
      <3>2. s[1].c = "private" /\ s[2].c = "mixed" /\ s[3].c = "engine"
        BY <2>1, <2>3, ClearsAre
      <3>3. QED
        BY <2>3, <3>1, <3>2, ClearsAre, Tables
    <2>4. QED
      BY <2>2, <2>3
  <1>3. QED
    BY <1>1, <1>2 DEF Ordered, Clear

LEMMA FinishStep ==
  ASSUME CachesInv, NEW t \in Threads, FinishTask(t)
  PROVE  CachesInv'
  <1>0. about[t] \in Items /\ pc[t] = "indexed"
    BY DEF CachesInv, CachesTypeOK, FinishTask
  <1>1. CachesTypeOK'
    <2>1. todo' \in [Threads -> Seq(Build \cup Clearing)]
      <3>1. ClearPrivateRetrievalCaches \in Seq(Build \cup Clearing)
        BY ClearsAre
      <3>2. QED
        BY <3>1 DEF FinishTask, CachesInv, CachesTypeOK
    <2>2. pc' \in [Threads -> Place]
      BY DEF FinishTask, CachesInv, CachesTypeOK, Place
    <2>3. \A u \in Threads : pc'[u] \in {"indexing", "indexed", "create"} => about'[u] \in Items
      BY DEF FinishTask, CachesInv, CachesTypeOK
    <2>4. UNCHANGED <<item, cache, held, about, spoiled>> /\ unsaid' \subseteq Items
      BY DEF FinishTask, CachesInv, CachesTypeOK
    <2>5. QED
      BY <2>1, <2>2, <2>3, <2>4 DEF CachesInv, CachesTypeOK
  <1>2. /\ Others(t) /\ about'[t] = about[t] /\ pc'[t] = "clearing"
        /\ todo'[t] = ClearPrivateRetrievalCaches
    BY DEF FinishTask, Others, CachesInv, CachesTypeOK
  <1>3. \A u \in Threads : Ordered(u)'
    BY <1>2, ClearsOrdered, OrderedBy
  <1>4. \A c \in Caches : Told(c)
    <2> TAKE c \in Caches
    <2>1. \E n \in DOMAIN todo'[t] : todo'[t][n] = Clear(c)
      BY <1>2, ClearsAre DEF Caches
    <2>2. OwedNext(about[t], c)
      BY <1>2, <2>1 DEF OwedNext
    <2>3. \A j \in Items : CurrentNext(j) = Current(j)
      BY DEF FinishTask, Current, CurrentNext
    <2>4. unsaid' = unsaid \ {about[t]}
      BY DEF FinishTask
    <2>5. \A j : j # about[t] => ~OwedBy(t, j, c)
      BY DEF OwedBy
    <2>6. QED
      BY <1>2, <2>2, <2>3, <2>4, <2>5, ReachItems, ToldBy
  <1>5. UNCHANGED <<cache, held, spoiled>> /\ \A u \in Threads \ {t} : todo'[u] = todo[u]
    BY <1>2 DEF FinishTask, Others
  <1>6. \A n \in DOMAIN todo'[t] : todo'[t][n].do # "keep"
    <2>1. \A d \in Clearing : d.do # "keep"
      BY DEF Clearing, Clear
    <2>2. QED
      BY <1>2, <2>1, ClearsAre
  <1>7. QED
    BY <1>1, <1>3, <1>4, <1>5, <1>6, CachesAside

LEMMA UpdateStep ==
  ASSUME CachesInv, NEW t \in Threads, NEW i \in Items, UpdateAdminKnowledgeItem(t, i)
  PROVE  CachesInv'
  <1>1. CachesTypeOK'
    <2>1. todo' \in [Threads -> Seq(Build \cup Clearing)]
      <3>1. Clears(<<"private", "mixed", "engine">>) \in Seq(Build \cup Clearing)
        BY ClearsAre
      <3>2. QED
        BY <3>1 DEF UpdateAdminKnowledgeItem, CachesInv, CachesTypeOK
    <2>2. pc' \in [Threads -> Place] /\ about' \in [Threads -> Items \cup {Nobody}]
      BY DEF UpdateAdminKnowledgeItem, CachesInv, CachesTypeOK, Place
    <2>3. \A u \in Threads : pc'[u] \in {"indexing", "indexed", "create"} => about'[u] \in Items
      BY DEF UpdateAdminKnowledgeItem, CachesInv, CachesTypeOK
    <2>4. item' \in [Items -> ItemRow]
      <3>1. item' = [item EXCEPT ![i].on = ~@] /\ item \in [Items -> ItemRow]
        BY DEF UpdateAdminKnowledgeItem, CachesInv, CachesTypeOK
      <3>2. [item[i] EXCEPT !.on = ~@] \in ItemRow
        BY <3>1 DEF ItemRow
      <3>3. QED
        BY <3>1, <3>2
    <2>5. UNCHANGED <<cache, held, spoiled>> /\ unsaid' \subseteq Items
      BY DEF UpdateAdminKnowledgeItem, CachesInv, CachesTypeOK
    <2>6. QED
      BY <2>1, <2>2, <2>3, <2>4, <2>5 DEF CachesInv, CachesTypeOK
  <1>2. /\ Others(t) /\ about'[t] = i /\ pc'[t] = "clearing"
        /\ todo'[t] = Clears(<<"private", "mixed", "engine">>)
    BY DEF UpdateAdminKnowledgeItem, Others, CachesInv, CachesTypeOK
  <1>3. \A u \in Threads : Ordered(u)'
    BY <1>2, ClearsOrdered, OrderedBy
  <1>4. \A c \in Caches : Told(c)
    <2> TAKE c \in Caches
    <2>1. \A j : ~OwedBy(t, j, c)
      BY OwesNothing DEF UpdateAdminKnowledgeItem
    <2>2. i \in Reach(c) => i \in unsaid' \/ OwedNext(i, c)
      <3>1. CASE i \in Policies
        BY <3>1 DEF UpdateAdminKnowledgeItem
      <3>2. CASE i \notin Policies
        <4>1. i \in Reach(c) => c # "public"
          BY <3>2 DEF Reach, Covers, LeafCaches
        <4>2. c # "public" => \E n \in DOMAIN todo'[t] : todo'[t][n] = Clear(c)
          BY <1>2, ClearsAre DEF Caches
        <4>3. QED
          BY <1>2, <4>1, <4>2 DEF OwedNext
      <3>3. QED
        BY <3>1, <3>2
    <2>3. \A j \in Items \ {i} : CurrentNext(j) = Current(j)
      BY DEF UpdateAdminKnowledgeItem, CachesInv, CachesTypeOK, Current, CurrentNext
    <2>4. \A j \in Items \ {i} : j \in unsaid' <=> j \in unsaid
      BY DEF UpdateAdminKnowledgeItem
    <2>5. QED
      BY <1>2, <2>1, <2>2, <2>3, <2>4, ReachItems, ToldBy
  <1>5. UNCHANGED <<cache, held, spoiled>> /\ \A u \in Threads \ {t} : todo'[u] = todo[u]
    BY <1>2 DEF UpdateAdminKnowledgeItem, Others
  <1>6. \A n \in DOMAIN todo'[t] : todo'[t][n].do # "keep"
    <2>1. \A d \in Clearing : d.do # "keep"
      BY DEF Clearing, Clear
    <2>2. QED
      BY <1>2, <2>1, ClearsAre
  <1>7. QED
    BY <1>1, <1>3, <1>4, <1>5, <1>6, CachesAside

\* What a thread does first.
LEMMA NextIs ==
  ASSUME CachesInv, NEW t \in Threads, todo[t] # <<>>
  PROVE  /\ todo[t] \in Seq(Build \cup Clearing) /\ todo[t][1] \in Build \cup Clearing
         /\ 1 \in DOMAIN todo[t]
         /\ todo[t][1].do = "clear" => pc[t] = "clearing" /\ todo[t][1] \in Clearing
         /\ todo[t][1].do # "clear" => pc[t] = "tools" /\ todo[t][1] \in Build
  <1>1. todo[t] \in Seq(Build \cup Clearing)
    BY DEF CachesInv, CachesTypeOK
  <1>2. todo[t][1] \in Build \cup Clearing /\ 1 \in DOMAIN todo[t]
    BY <1>1, TailIs
  <1>3. \/ pc[t] = "tools" /\ todo[t][1] \in Build
        \/ pc[t] = "clearing" /\ todo[t][1] \in Clearing
    <2>1. Ordered(t)
      BY DEF CachesInv
    <2>2. pc[t] \in {"tools", "clearing"}
      BY <2>1 DEF Ordered
    <2>3. /\ pc[t] = "tools" => todo[t][1] \in Build
          /\ pc[t] = "clearing" => todo[t][1] \in Clearing
      BY <1>2, <2>1 DEF Ordered
    <2>4. QED
      BY <2>2, <2>3
  <1>4. \A d \in Build : d.do # "clear"
    BY DEF Build
  <1>5. \A d \in Clearing : d.do = "clear"
    BY DEF Clearing, Clear
  <1>6. QED
    BY <1>1, <1>2, <1>3, <1>4, <1>5

LEMMA ClearStep ==
  ASSUME CachesInv, NEW t \in Threads, ClearCache(t)
  PROVE  CachesInv'
  <1> DEFINE s == todo[t]
             c == s[1].c
             over == Len(s) = 1
  <1>1. s # <<>> /\ s[1].do = "clear"
    BY DEF ClearCache, Next1
  <1>2. s[1] \in Clearing /\ pc[t] = "clearing" /\ s \in Seq(Build \cup Clearing)
    BY <1>1, NextIs
  <1>3. c \in Caches /\ s[1] = Clear(c)
    BY <1>2 DEF Clearing, Clear
  <1>4. /\ todo'[t] = Tail(s) /\ Tail(s) \in Seq(Build \cup Clearing)
        /\ Len(s) \in Nat \ {0} /\ DOMAIN s = 1..Len(s) /\ DOMAIN Tail(s) = 1..(Len(s) - 1)
        /\ \A n \in DOMAIN Tail(s) : n + 1 \in DOMAIN s /\ Tail(s)[n] = s[n + 1]
    <2>1. todo'[t] = Tail(s)
      BY DEF ClearCache, CachesInv, CachesTypeOK
    <2>2. QED
      BY <1>1, <1>2, <2>1, TailIs
  <1>5. /\ pc' = [pc EXCEPT ![t] = IF over THEN "idle" ELSE @]
        /\ about' = [about EXCEPT ![t] = IF over THEN Nobody ELSE @]
        /\ todo' = [todo EXCEPT ![t] = Tail(s)] /\ cache' = [cache EXCEPT ![c] = None]
    BY DEF ClearCache, Next1
  <1>6. spoiled' = [u \in Threads |-> IF Building(u, c) THEN spoiled[u] \cup {c} ELSE spoiled[u]]
    BY DEF ClearCache, Next1
  <1>7. UNCHANGED <<item, held, unsaid>>
    BY DEF ClearCache
  <1> HIDE DEF c, over, s
  <1>8. CachesTypeOK'
    <2>1. todo' \in [Threads -> Seq(Build \cup Clearing)]
      BY <1>4, <1>5 DEF CachesInv, CachesTypeOK
    <2>2. pc' \in [Threads -> Place] /\ about' \in [Threads -> Items \cup {Nobody}]
      BY <1>5 DEF CachesInv, CachesTypeOK, Place
    <2>3. \A u \in Threads : pc'[u] \in {"indexing", "indexed", "create"} => about'[u] \in Items
      BY <1>2, <1>5 DEF CachesInv, CachesTypeOK
    <2>4. spoiled' \in [Threads -> SUBSET Caches]
      BY <1>3, <1>6 DEF CachesInv, CachesTypeOK
    <2>5. cache' = [d \in Caches |-> cache'[d]]
      BY <1>5 DEF CachesInv, CachesTypeOK
    <2>6. \A d \in Caches : cache'[d] # None => \A p \in Slots[d] : cache'[d][p] \in Corpus(p)
      <3>1. \A d \in Caches : cache'[d] # None => cache'[d] = cache[d]
        BY <1>3, <1>5 DEF CachesInv, CachesTypeOK
      <3>2. QED
        BY <3>1 DEF CachesInv, CachesTypeOK
    <2>7. QED
      BY <1>7, <2>1, <2>2, <2>3, <2>4, <2>5, <2>6 DEF CachesInv, CachesTypeOK
  <1>9. Others(t)
    BY <1>5 DEF Others, CachesInv, CachesTypeOK
  <1>10. pc'[t] = IF over THEN "idle" ELSE "clearing"
    BY <1>2, <1>5 DEF CachesInv, CachesTypeOK
  <1>11. \A n \in DOMAIN s : s[n] \in Clearing /\ s[n].do = "clear"
    <2>1. \A d \in Clearing : d.do = "clear"
      BY DEF Clearing, Clear
    <2>2. QED
      BY <1>2, <2>1 DEF CachesInv, Ordered, s
  <1>12. \A u \in Threads : Ordered(u)'
    <2>1. \A n \in DOMAIN Tail(s) : Tail(s)[n] \in Clearing /\ Tail(s)[n].do = "clear"
      BY <1>4, <1>11
    <2>2. over => Tail(s) = <<>>
      BY <1>1, <1>4 DEF over
    <2>3. ASSUME NEW n \in DOMAIN Tail(s), NEW d \in Above[Tail(s)[n].c]
          PROVE  \E m \in DOMAIN Tail(s) : m > n /\ Tail(s)[m] = Clear(d)
      <3>1. n + 1 \in DOMAIN s /\ s[n + 1].do = "clear" /\ d \in Above[s[n + 1].c]
        BY <1>4, <1>11, <2>3
      <3>2. PICK m \in DOMAIN s : m > n + 1 /\ s[m] = Clear(d)
        BY <3>1 DEF CachesInv, Ordered, s
      <3>3. n \in Nat /\ m - 1 \in DOMAIN Tail(s) /\ m - 1 > n /\ Tail(s)[m - 1] = s[m]
        BY <1>4, <3>2
      <3>4. QED
        BY <3>2, <3>3
    <2>4. Ordered(t)'
      BY <1>4, <1>10, <2>1, <2>2, <2>3 DEF Ordered, Clear
    <2>5. QED
      BY <1>9, <2>4, OrderedBy
  <1>13. ASSUME NEW d \in Caches \ {c} PROVE Told(d)
    <2>1. ASSUME NEW i, OwedBy(t, i, d) PROVE OwedNext(i, d)
      <3>1. PICK n \in DOMAIN s : s[n] = Clear(d)
        BY <1>2, <2>1 DEF OwedBy, s
      <3>2. n # 1
        BY <1>3, <3>1 DEF Clear
      <3>3. ~over /\ n - 1 \in DOMAIN Tail(s) /\ Tail(s)[n - 1] = Clear(d)
        BY <1>4, <3>1, <3>2 DEF over
      <3>4. about'[t] = i
        BY <1>5, <2>1, <3>3 DEF OwedBy, CachesInv, CachesTypeOK
      <3>5. QED
        BY <1>4, <3>3, <3>4 DEF OwedNext
    <2>2. \A i : CurrentNext(i) = Current(i)
      BY <1>7 DEF CurrentNext, Current
    <2>3. QED
      BY <1>7, <1>9, <2>1, <2>2, ToldBy
  <1>14. cache'[c] = None /\ \A u \in Threads : Building(u, c) => c \in spoiled'[u]
    BY <1>3, <1>5, <1>6 DEF CachesInv, CachesTypeOK
  <1>15. \A d \in Caches : cache'[d] \in {cache[d], None}
    BY <1>3, <1>5 DEF CachesInv, CachesTypeOK
  <1>16. \A u \in Threads :
           \/ todo'[u] = todo[u] /\ held'[u] = held[u] /\ spoiled[u] \subseteq spoiled'[u]
           \/ \A n \in DOMAIN todo'[u] : todo'[u][n].do # "keep"
    BY <1>4, <1>6, <1>7, <1>9, <1>11 DEF Others
  <1>17. QED
    BY <1>8, <1>12, <1>13, <1>14, <1>15, <1>16, CachesAside

-----------------------------------------------------------------------------
(* Builds *)

LEMMA GoodStays ==
  ASSUME CachesInv, NEW t \in Threads, pc[t] = "tools", Others(t), UNCHANGED <<item, unsaid>>,
         NEW leaf, NEW c, Good(leaf, c)
  PROVE  GoodNext(leaf, c)
  <1>1. \A i : ~OwedBy(t, i, c)
    BY OwesNothing
  <1>2. \A i : Owed(i, c) => OwedNext(i, c)
    BY <1>1, OwedElsewhere
  <1>3. \A i : CurrentNext(i) = Current(i)
    BY DEF CurrentNext, Current
  <1>4. QED
    BY <1>2, <1>3 DEF Good, GoodNext

\* The others keep what they would have kept.
LEMMA OthersKeep ==
  ASSUME CachesInv, NEW t \in Threads, pc[t] = "tools", Others(t), UNCHANGED <<item, unsaid>>,
         NEW u \in Threads \ {t}, held'[u] = held[u], spoiled'[u] = spoiled[u]
  PROVE  KeepsNext(u)
  <1>1. Keeps(u) /\ todo'[u] = todo[u]
    BY DEF CachesInv, Others
  <1>2. \A leaf, c : Good(leaf, c) => GoodNext(leaf, c)
    BY GoodStays
  <1>3. QED
    BY <1>1, <1>2 DEF Keeps, KeepsNext

\* The first step is done: something good is taken.
LEMMA Took ==
  ASSUME CachesInv, NEW t \in Threads, todo[t] # <<>>, todo[t][1].do # "clear", NEW got,
         \A s \in Slots[todo[t][1].c] : Good(got[s], todo[t][1].c),
         \A s \in Slot : held'[t][s] = Taken(t, got, todo[t][1].c, todo[t][1].as)[s],
         todo' = [todo EXCEPT ![t] = Tail(@)], UNCHANGED <<item, unsaid, pc, about>>,
         \A u \in Threads \ {t} : held'[u] = held[u] /\ spoiled'[u] = spoiled[u],
         spoiled[t] \ {todo[t][1].c} \subseteq spoiled'[t]
  PROVE  \A u \in Threads : Ordered(u)' /\ KeepsNext(u)
  <1> DEFINE s == todo[t]
             d == s[1]
  <1>1. pc[t] = "tools" /\ s \in Seq(Build \cup Clearing) /\ d \in Build /\ 1 \in DOMAIN s
    BY NextIs
  <1>2. /\ todo'[t] = Tail(s) /\ Tail(s) \in Seq(Build \cup Clearing)
        /\ Len(s) \in Nat \ {0} /\ DOMAIN s = 1..Len(s) /\ DOMAIN Tail(s) = 1..(Len(s) - 1)
        /\ \A n \in DOMAIN Tail(s) : n + 1 \in DOMAIN s /\ Tail(s)[n] = s[n + 1]
    <2>1. todo'[t] = Tail(s)
      BY DEF CachesInv, CachesTypeOK
    <2>2. QED
      BY <1>1, <2>1, TailIs
  <1>3. Others(t)
    BY DEF Others, CachesInv, CachesTypeOK
  <1>4. Ordered(t) /\ Keeps(t)
    BY DEF CachesInv
  <1>5. \A n \in DOMAIN s : s[n] \in Build
    BY <1>1, <1>4 DEF Ordered
  <1>6. \A n \in DOMAIN s : s[n].do # "clear"
    BY <1>5 DEF Build
  <1>7. \A n \in DOMAIN Tail(s) : Tail(s)[n].do = "keep" => Tail(s)[n].c \in Above[d.c]
    <2> SUFFICES ASSUME NEW n \in DOMAIN Tail(s), s[n + 1].do = "keep"
                 PROVE  s[n + 1].c \in Above[d.c]
      BY <1>2
    <2>1. n + 1 \in DOMAIN s /\ 1 < n + 1
      BY <1>2
    <2>2. QED
      BY <1>1, <1>4, <2>1 DEF Ordered
  <1>8. Ordered(t)'
    <2>1. pc'[t] = "tools" /\ \A n \in DOMAIN Tail(s) : Tail(s)[n] \in Build
      BY <1>1, <1>2, <1>5
    <2>2. ASSUME NEW m \in DOMAIN Tail(s), NEW n \in DOMAIN Tail(s), m < n, Tail(s)[n].do = "keep"
          PROVE  Tail(s)[n].c \in Above[Tail(s)[m].c]
      <3>1. m + 1 \in DOMAIN s /\ n + 1 \in DOMAIN s /\ m + 1 < n + 1
        BY <1>2, <2>2
      <3>2. Tail(s)[m] = s[m + 1] /\ Tail(s)[n] = s[n + 1]
        BY <1>2
      <3>3. QED
        BY <1>4, <2>2, <3>1, <3>2 DEF Ordered
    <2>3. \A n \in DOMAIN Tail(s) : Tail(s)[n].do # "clear"
      BY <1>2, <1>6
    <2>4. todo'[t] = Tail(s)
      BY <1>2
    <2>5. \A m, n \in DOMAIN todo'[t] :
            m < n /\ todo'[t][n].do = "keep" => todo'[t][n].c \in Above[todo'[t][m].c]
      BY <2>2, <2>4
    <2>6. \A n \in DOMAIN todo'[t] : todo'[t][n] \in Build /\ todo'[t][n].do # "clear"
      BY <2>1, <2>3, <2>4
    <2> HIDE DEF s
    <2>7. QED
      BY <2>1, <2>5, <2>6 DEF Ordered
  <1>9. KeepsNext(t)
    <2> SUFFICES ASSUME NEW n \in DOMAIN Tail(s), Tail(s)[n].do = "keep",
                        Tail(s)[n].c \notin spoiled'[t],
                        NEW p \in Fills(Tail(s)[n].c, Tail(s)[n].as),
                        \A m \in DOMAIN Tail(s) :
                          m < n => p \notin Fills(Tail(s)[m].c, Tail(s)[m].as)
                 PROVE  GoodNext(held'[t][p], Tail(s)[n].c)
      BY <1>2 DEF KeepsNext
    <2> DEFINE e == s[n + 1]
    <2>1. n + 1 \in DOMAIN s /\ Tail(s)[n] = e /\ e.do = "keep" /\ e \in Build
      BY <1>2, <1>5
    <2>2. e.c \in Above[d.c] /\ d.c \in Caches
      BY <1>1, <1>7, <2>1 DEF Build
    <2>3. e.c \notin spoiled[t]
      BY <2>1, <2>2, Tables
    <2>4. p \in Slot
      BY <2>1, Reached
    <2>5. CASE p \in Fills(d.c, d.as)
      <3>1. \E q \in Slots[d.c] : held'[t][p] = got[q]
        <4>1. held'[t][p] = IF d.c \in LeafCaches THEN got[d.c] ELSE got[p]
          BY <2>4, <2>5 DEF Taken
        <4>2. d.c \in LeafCaches => d.c \in Slots[d.c]
          BY Tables DEF LeafCaches
        <4>3. d.c \notin LeafCaches => p \in Slots[d.c]
          BY <2>5 DEF Fills
        <4>4. QED
          BY <4>1, <4>2, <4>3
      <3>2. Good(held'[t][p], d.c)
        BY <3>1
      <3>3. Good(held'[t][p], e.c)
        BY <2>2, <3>2, GoodAbove
      <3>4. QED
        BY <1>1, <1>3, <2>1, <3>3, GoodStays
    <2>6. CASE p \notin Fills(d.c, d.as)
      <3>1. held'[t][p] = held[t][p]
        BY <2>4, <2>6 DEF Taken
      <3>2. \A m \in DOMAIN s : m < n + 1 => p \notin Fills(s[m].c, s[m].as)
        <4> SUFFICES ASSUME NEW m \in DOMAIN s, m < n + 1, m # 1
                     PROVE  p \notin Fills(s[m].c, s[m].as)
          BY <2>6
        <4>1. m \in Nat /\ m - 1 \in 1..(Len(s) - 1) /\ m - 1 < n /\ (m - 1) + 1 = m
          <5>1. DOMAIN s = 1..Len(s) /\ Len(s) \in Nat /\ n \in Nat
            BY <1>2
          <5>2. QED
            BY <5>1
        <4>2. m - 1 \in DOMAIN Tail(s) /\ Tail(s)[m - 1] = s[m]
          BY <1>2, <4>1
        <4>3. QED
          BY <4>1, <4>2
      <3>3. p \in Fills(e.c, e.as)
        BY <2>1
      <3>4. Good(held[t][p], e.c)
        BY <1>4, <2>1, <2>3, <3>2, <3>3 DEF Keeps
      <3>5. QED
        BY <1>1, <1>3, <2>1, <3>1, <3>4, GoodStays
    <2>7. QED
      BY <2>5, <2>6
  <1>10. QED
    BY <1>1, <1>3, <1>8, <1>9, OrderedBy, OthersKeep

LEMMA TakenTyped ==
  ASSUME CachesInv, NEW t \in Threads, NEW d \in Build, NEW got,
         \A p \in Slots[d.c] : got[p] \in Corpus(p)
  PROVE  \A p \in Slot : Taken(t, got, d.c, d.as)[p] \in Corpus(p)
  <1> TAKE p \in Slot
  <1>1. d.c \in Caches /\ (d.c \in LeafCaches => d.as \in Slot /\ Of(d.as) = Covers(d.c))
    BY DEF Build
  <1>2. CASE p \notin Fills(d.c, d.as)
    BY <1>2 DEF Taken, CachesInv, CachesTypeOK
  <1>3. CASE p \in Fills(d.c, d.as) /\ d.c \in LeafCaches
    <2>1. p = d.as /\ d.c \in Slots[d.c] /\ Of(d.c) = Covers(d.c)
      BY <1>1, <1>3, Tables DEF Fills, LeafCaches, Of, Covers
    <2>2. Corpus(d.c) = Corpus(p)
      BY <1>1, <1>3, <2>1 DEF Corpus
    <2>3. QED
      BY <1>3, <2>1, <2>2 DEF Taken
  <1>4. CASE p \in Fills(d.c, d.as) /\ d.c \notin LeafCaches
    BY <1>4 DEF Taken, Fills
  <1>5. QED
    BY <1>2, <1>3, <1>4

LEMMA GetStep ==
  ASSUME CachesInv, NEW t \in Threads, GetCached(t)
  PROVE  CachesInv'
  <1> DEFINE s == todo[t]
             d == s[1]
  <1>1. s # <<>> /\ d.do = "get" /\ cache[d.c] # None
    BY DEF GetCached, Next1
  <1>2. pc[t] = "tools" /\ d \in Build /\ s \in Seq(Build \cup Clearing)
    BY <1>1, NextIs
  <1>3. /\ held' = [held EXCEPT ![t] = Taken(t, cache[d.c], d.c, d.as)]
        /\ todo' = [todo EXCEPT ![t] = Tail(@)]
        /\ UNCHANGED <<item, cache, pc, about, spoiled, unsaid>>
    BY DEF GetCached, Next1
  <1>4. d.c \in Caches /\ (d.c \in LeafCaches => d.as \in Slot /\ Of(d.as) = Covers(d.c))
    BY <1>2 DEF Build
  <1>5. \A p \in Slots[d.c] : cache[d.c][p] \in Corpus(p) /\ Good(cache[d.c][p], d.c)
    BY <1>1, <1>4 DEF CachesInv, CachesTypeOK, CachesAreCurrent, Good
  <1>6. \A u \in Threads : Ordered(u)' /\ KeepsNext(u)
    <2>1. held'[t] = Taken(t, cache[d.c], d.c, d.as)
      BY <1>3 DEF CachesInv, CachesTypeOK
    <2>2. \A u \in Threads \ {t} : held'[u] = held[u] /\ spoiled'[u] = spoiled[u]
      BY <1>3 DEF CachesInv, CachesTypeOK
    <2>3. QED
      BY <1>1, <1>3, <1>5, <2>1, <2>2, Took
  <1> HIDE DEF d, s
  <1>7. CachesTypeOK'
    <2>1. todo' \in [Threads -> Seq(Build \cup Clearing)]
      <3>1. Tail(s) \in Seq(Build \cup Clearing)
        BY <1>1, <1>2, TailIs
      <3>2. QED
        BY <1>3, <3>1 DEF CachesInv, CachesTypeOK, s
    <2>2. \A u \in Threads, p \in Slot : held'[u][p] \in Corpus(p)
      <3>1. \A p \in Slot : Taken(t, cache[d.c], d.c, d.as)[p] \in Corpus(p)
        BY <1>2, <1>5, TakenTyped
      <3>2. QED
        BY <1>3, <3>1 DEF CachesInv, CachesTypeOK
    <2>3. held' = [u \in Threads |-> [p \in Slot |-> held'[u][p]]]
      BY <1>3 DEF CachesInv, CachesTypeOK, Taken
    <2>4. QED
      BY <1>3, <2>1, <2>2, <2>3 DEF CachesInv, CachesTypeOK
  <1>8. \A c \in Caches : cache'[c] # None => \A p \in Slots[c] : GoodNext(cache'[c][p], c)
    <2>1. Others(t)
      BY <1>3 DEF Others, CachesInv, CachesTypeOK
    <2>2. QED
      BY <1>2, <1>3, <2>1, GoodStays DEF CachesInv, CachesAreCurrent, Good
  <1>9. QED
    BY <1>6, <1>7, <1>8, NextKeeps, NextCurrent DEF CachesInv

\* A kept corpus is what was built, marked if the cache was cleared meanwhile.
LEMMA MarkedIs ==
  ASSUME NEW p, NEW leaf \in Corpus(p), NEW late \in BOOLEAN
  PROVE  /\ Marked(leaf, late) \in Corpus(p)
         /\ \A c : late \/ Good(leaf, c) => Good(Marked(leaf, late), c)
  <1>1. /\ Marked(leaf, late) = [text |-> leaf.text, late |-> leaf.late \/ late]
        /\ leaf.late \in BOOLEAN
    BY DEF Corpus, Marked
  <1>2. Marked(leaf, late) \in Corpus(p)
    BY <1>1 DEF Corpus
  <1>3. /\ Marked(leaf, late).text = leaf.text
        /\ Marked(leaf, late).late = (leaf.late \/ late)
    BY <1>1
  <1>4. \A c : late \/ Good(leaf, c) => Good(Marked(leaf, late), c)
    BY <1>3 DEF Good
  <1>5. QED
    BY <1>2, <1>4

LEMMA KeepStep ==
  ASSUME CachesInv, NEW t \in Threads, KeepBuilt(t)
  PROVE  CachesInv'
  <1> DEFINE s == todo[t]
             d == s[1]
             late == d.c \in spoiled[t]
             at(p) == IF d.c \in LeafCaches THEN d.as ELSE p
             built == [p \in Slots[d.c] |-> Marked(held[t][at(p)], late)]
  <1>1. s # <<>> /\ d.do = "keep"
    BY DEF KeepBuilt, Next1
  <1>2. pc[t] = "tools" /\ d \in Build /\ s \in Seq(Build \cup Clearing) /\ 1 \in DOMAIN s
    BY <1>1, NextIs
  <1>3. /\ held' = [held EXCEPT ![t] = Taken(t, built, d.c, d.as)]
        /\ cache' = [cache EXCEPT ![d.c] = IF @ = None THEN built ELSE @]
        /\ spoiled' = [spoiled EXCEPT ![t] = @ \ {d.c}]
        /\ todo' = [todo EXCEPT ![t] = Tail(@)]
        /\ UNCHANGED <<item, pc, about, unsaid>>
    BY DEF KeepBuilt, Next1
  <1>4. d.c \in Caches /\ (d.c \in LeafCaches => d.as \in Slot /\ Of(d.as) = Covers(d.c))
    BY <1>2 DEF Build
  <1>5. \A p \in Slots[d.c] :
          at(p) \in Fills(d.c, d.as) /\ at(p) \in Slot /\ Corpus(at(p)) = Corpus(p)
    <2> TAKE p \in Slots[d.c]
    <2>1. CASE d.c \in LeafCaches
      <3>1. p = d.c /\ Of(p) = Covers(d.c)
        BY <2>1, Tables DEF LeafCaches, Of, Covers
      <3>2. QED
        BY <1>4, <2>1, <3>1 DEF Fills, Corpus
    <2>2. CASE d.c \notin LeafCaches
      BY <1>4, <2>2, Tables DEF Fills
    <2>3. QED
      BY <2>1, <2>2
  <1>6. \A p \in Slots[d.c] : built[p] \in Corpus(p) /\ Good(built[p], d.c)
    <2> TAKE p \in Slots[d.c]
    <2>1. held[t][at(p)] \in Corpus(p)
      BY <1>5 DEF CachesInv, CachesTypeOK
    <2>2. late \/ Good(held[t][at(p)], d.c)
      <3>1. Keeps(t)
        BY DEF CachesInv
      <3>2. \A m \in DOMAIN s : ~(m < 1)
        BY <1>2
      <3>3. QED
        BY <1>1, <1>2, <1>5, <3>1, <3>2 DEF Keeps
    <2>3. built[p] = Marked(held[t][at(p)], late)
      OBVIOUS
    <2> HIDE DEF built, at, late, s, d
    <2>4. late \in BOOLEAN
      BY DEF late
    <2>5. QED
      BY <2>1, <2>2, <2>3, <2>4, MarkedIs
  <1> HIDE DEF built, at, late
  <1>7. \A u \in Threads : Ordered(u)' /\ KeepsNext(u)
    <2>1. held'[t] = Taken(t, built, d.c, d.as)
      BY <1>3 DEF CachesInv, CachesTypeOK
    <2>2. /\ \A u \in Threads \ {t} : held'[u] = held[u] /\ spoiled'[u] = spoiled[u]
          /\ spoiled'[t] = spoiled[t] \ {d.c}
      BY <1>3 DEF CachesInv, CachesTypeOK
    <2>3. QED
      BY <1>1, <1>3, <1>6, <2>1, <2>2, Took
  <1> HIDE DEF d, s
  <1>8. CachesTypeOK'
    <2>1. todo' \in [Threads -> Seq(Build \cup Clearing)]
      <3>1. Tail(s) \in Seq(Build \cup Clearing)
        BY <1>1, <1>2, TailIs
      <3>2. QED
        BY <1>3, <3>1 DEF CachesInv, CachesTypeOK, s
    <2>2. \A u \in Threads, p \in Slot : held'[u][p] \in Corpus(p)
      <3>1. \A p \in Slot : Taken(t, built, d.c, d.as)[p] \in Corpus(p)
        BY <1>2, <1>6, TakenTyped
      <3>2. QED
        BY <1>3, <3>1 DEF CachesInv, CachesTypeOK
    <2>3. held' = [u \in Threads |-> [p \in Slot |-> held'[u][p]]]
      BY <1>3 DEF CachesInv, CachesTypeOK, Taken
    <2>4. spoiled' \in [Threads -> SUBSET Caches]
      BY <1>3 DEF CachesInv, CachesTypeOK
    <2>5. cache' = [c \in Caches |-> cache'[c]]
      BY <1>3 DEF CachesInv, CachesTypeOK
    <2>6. \A c \in Caches : cache'[c] # None => \A p \in Slots[c] : cache'[c][p] \in Corpus(p)
      BY <1>3, <1>4, <1>6 DEF CachesInv, CachesTypeOK
    <2>7. QED
      BY <1>3, <2>1, <2>2, <2>3, <2>4, <2>5, <2>6 DEF CachesInv, CachesTypeOK
  <1>9. \A c \in Caches : cache'[c] # None => \A p \in Slots[c] : GoodNext(cache'[c][p], c)
    <2>1. Others(t)
      BY <1>3 DEF Others, CachesInv, CachesTypeOK
    <2>2. \A c \in Caches : cache'[c] # None => \A p \in Slots[c] : Good(cache'[c][p], c)
      BY <1>3, <1>4, <1>6 DEF CachesInv, CachesTypeOK, CachesAreCurrent, Good
    <2>3. QED
      BY <1>2, <1>3, <2>1, <2>2, GoodStays
  <1>10. QED
    BY <1>7, <1>8, <1>9, NextKeeps, NextCurrent DEF CachesInv

LEMMA PartsAre ==
  ASSUME NEW c \in Caches
  PROVE  /\ Parts(c) \in Seq(Build)
         /\ \A m \in DOMAIN Parts(c) : Parts(c)[m].do = "get" /\ c \in Above[Parts(c)[m].c]
         /\ c \notin LeafCaches => \A p \in Slots[c] : \E m \in DOMAIN Parts(c) :
              p \in Fills(Parts(c)[m].c, Parts(c)[m].as)
  <1>1. CASE c \in LeafCaches
    <2>1. Parts(c) = <<>>
      BY <1>1 DEF Parts, LeafCaches
    <2>2. <<>> \in Seq(Build) /\ DOMAIN <<>> = {}
      OBVIOUS
    <2>3. QED
      BY <1>1, <2>1, <2>2
  <1>2. CASE c = "mixed"
    <2>1. Parts(c) = <<Get("public", "mpub"), Get("private", "mpriv")>>
      BY <1>2 DEF Parts
    <2>2. Get("public", "mpub") \in Build /\ Get("private", "mpriv") \in Build
      BY Tables DEF Build, Get, Caches, LeafCaches, Of, Covers
    <2>3. DOMAIN Parts(c) = {1, 2}
      BY <2>1
    <2>4. /\ Parts(c)[1].do = "get" /\ Parts(c)[1].c = "public" /\ Parts(c)[1].as = "mpub"
          /\ Parts(c)[2].do = "get" /\ Parts(c)[2].c = "private" /\ Parts(c)[2].as = "mpriv"
      BY <2>1 DEF Get
    <2>5. Parts(c) \in Seq(Build)
      BY <2>1, <2>2
    <2>6. QED
      BY <1>2, <2>3, <2>4, <2>5, Tables DEF Fills, LeafCaches
  <1>3. CASE c = "engine"
    <2>1. Parts(c) = <<Get("public", "public"), Get("private", "private"), Get("mixed", "mixed")>>
      BY <1>3 DEF Parts
    <2>2. /\ Get("public", "public") \in Build /\ Get("private", "private") \in Build
          /\ Get("mixed", "mixed") \in Build
      BY Tables DEF Build, Get, Caches, LeafCaches, Of, Covers
    <2>3. DOMAIN Parts(c) = {1, 2, 3}
      BY <2>1
    <2>4. /\ Parts(c)[1].do = "get" /\ Parts(c)[1].c = "public" /\ Parts(c)[1].as = "public"
          /\ Parts(c)[2].do = "get" /\ Parts(c)[2].c = "private" /\ Parts(c)[2].as = "private"
          /\ Parts(c)[3].do = "get" /\ Parts(c)[3].c = "mixed" /\ Parts(c)[3].as = "mixed"
      BY <2>1 DEF Get
    <2>5. Parts(c) \in Seq(Build)
      BY <2>1, <2>2
    <2>6. QED
      BY <1>3, <2>3, <2>4, <2>5, Tables DEF Fills, LeafCaches
  <1>4. QED
    BY <1>1, <1>2, <1>3 DEF Caches, LeafCaches

\* What a build puts first, and where the rest is then.
LEMMA Begun ==
  ASSUME NEW T, NEW a \in Seq(T), NEW x \in T, NEW s \in Seq(T), s # <<>>
  PROVE  LET r == a \o <<x>> \o Tail(s)
             k == Len(a)
         IN  /\ r \in Seq(T) /\ k \in Nat
             /\ DOMAIN a = 1..k /\ DOMAIN s = 1..Len(s) /\ Len(s) \in Nat
             /\ DOMAIN r = 1..(k + Len(s))
             /\ \A n \in 1..k : r[n] = a[n]
             /\ r[k + 1] = x
             /\ \A n \in 2..Len(s) : r[n + k] = s[n]
             /\ \A n \in DOMAIN r : n \in 1..k \/ n = k + 1 \/ n - k \in 2..Len(s)
  <1> DEFINE b == a \o <<x>>
             r == b \o Tail(s)
             k == Len(a)
  <1>1. /\ Tail(s) \in Seq(T) /\ Len(Tail(s)) = Len(s) - 1 /\ Len(s) \in Nat \ {0}
        /\ DOMAIN s = 1..Len(s) /\ \A n \in 1..(Len(s) - 1) : Tail(s)[n] = s[n + 1]
    BY HeadTailProperties, EmptySeq
  <1>2. k \in Nat /\ DOMAIN a = 1..k
    OBVIOUS
  <1>3. <<x>> \in Seq(T) /\ Len(<<x>>) = 1 /\ <<x>>[1] = x
    OBVIOUS
  <1>4. /\ b \in Seq(T) /\ Len(b) = k + 1
        /\ \A n \in 1..(k + 1) : b[n] = IF n <= k THEN a[n] ELSE <<x>>[n - k]
    BY <1>3, ConcatProperties
  <1>5. /\ r \in Seq(T) /\ Len(r) = k + 1 + (Len(s) - 1)
        /\ \A n \in 1..(k + 1 + (Len(s) - 1)) :
             r[n] = IF n <= k + 1 THEN b[n] ELSE Tail(s)[n - (k + 1)]
    BY <1>1, <1>4, ConcatProperties
  <1>6. DOMAIN r = 1..(k + Len(s))
    BY <1>1, <1>2, <1>5
  <1> HIDE DEF b, r
  <1>7. \A n \in 1..k : r[n] = a[n]
    <2> TAKE n \in 1..k
    <2>1. n \in 1..(k + 1) /\ n <= k /\ n <= k + 1 /\ n \in 1..(k + 1 + (Len(s) - 1))
      BY <1>1, <1>2
    <2>2. QED
      BY <1>4, <1>5, <2>1
  <1>8. r[k + 1] = x
    BY <1>1, <1>2, <1>3, <1>4, <1>5
  <1>9. \A n \in 2..Len(s) : r[n + k] = s[n]
    <2> TAKE n \in 2..Len(s)
    <2>1. n + k \in 1..(k + 1 + (Len(s) - 1)) /\ ~(n + k <= k + 1) /\ n + k - (k + 1) = n - 1
      BY <1>1, <1>2
    <2>2. n - 1 \in 1..(Len(s) - 1) /\ n - 1 + 1 = n
      BY <1>1
    <2>3. r[n + k] = Tail(s)[n + k - (k + 1)]
      BY <1>5, <2>1
    <2>4. Tail(s)[n - 1] = s[n - 1 + 1]
      BY <1>1, <2>2
    <2>5. QED
      BY <2>1, <2>2, <2>3, <2>4
  <1>10. \A n \in DOMAIN r : n \in 1..k \/ n = k + 1 \/ n - k \in 2..Len(s)
    BY <1>1, <1>2, <1>6
  <1>11. QED
    BY <1>1, <1>2, <1>5, <1>6, <1>7, <1>8, <1>9, <1>10 DEF r, b

LEMMA StartStep ==
  ASSUME CachesInv, NEW t \in Threads, StartBuild(t)
  PROVE  CachesInv'
  <1> DEFINE s == todo[t]
             d == s[1]
             a == Parts(d.c)
             x == Keep(d.c, d.as)
             r == a \o <<x>> \o Tail(s)
             k == Len(a)
  <1>1. s # <<>> /\ d.do = "get"
    BY DEF StartBuild, Next1
  <1>2. pc[t] = "tools" /\ d \in Build /\ s \in Seq(Build \cup Clearing) /\ 1 \in DOMAIN s
    BY <1>1, NextIs
  <1>3. /\ todo' = [todo EXCEPT ![t] = r]
        /\ spoiled' = [spoiled EXCEPT ![t] = @ \ {d.c}]
        /\ d.c \in LeafCaches => held' = [held EXCEPT ![t][d.as] = RefreshCorpus(d.c)]
        /\ d.c \notin LeafCaches => held' = held
        /\ UNCHANGED <<item, cache, pc, about, unsaid>>
    BY DEF StartBuild, Next1
  <1>4. /\ d.c \in Caches /\ (d.c \in LeafCaches => d.as \in Slot /\ Of(d.as) = Covers(d.c))
        /\ x \in Build /\ x.do = "keep" /\ x.c = d.c /\ x.as = d.as
    BY <1>2 DEF Build, Keep
  <1>5. Ordered(t) /\ Keeps(t)
    BY DEF CachesInv
  <1>6. \A n \in DOMAIN s : s[n] \in Build
    BY <1>2, <1>5 DEF Ordered
  <1>7. /\ a \in Seq(Build)
        /\ \A m \in DOMAIN a : a[m].do = "get" /\ d.c \in Above[a[m].c]
        /\ d.c \notin LeafCaches =>
             \A p \in Slots[d.c] : \E m \in DOMAIN a : p \in Fills(a[m].c, a[m].as)
    BY <1>4, PartsAre
  <1>8. s \in Seq(Build)
    BY <1>2, <1>6
  <1>9. /\ r \in Seq(Build) /\ k \in Nat
        /\ DOMAIN a = 1..k /\ DOMAIN s = 1..Len(s) /\ Len(s) \in Nat
        /\ DOMAIN r = 1..(k + Len(s))
        /\ \A n \in 1..k : r[n] = a[n]
        /\ r[k + 1] = x
        /\ \A n \in 2..Len(s) : r[n + k] = s[n]
        /\ \A n \in DOMAIN r : n \in 1..k \/ n = k + 1 \/ n - k \in 2..Len(s)
    BY <1>1, <1>4, <1>7, <1>8, Begun, ZenonT(30)
  <1>10. Others(t) /\ todo'[t] = r /\ pc'[t] = "tools" /\ spoiled'[t] = spoiled[t] \ {d.c}
    BY <1>2, <1>3 DEF Others, CachesInv, CachesTypeOK
  <1>11. \A n \in 2..Len(s) : s[n].do = "keep" => s[n].c \in Above[d.c]
    <2> SUFFICES ASSUME NEW n \in 2..Len(s), s[n].do = "keep" PROVE s[n].c \in Above[d.c]
      OBVIOUS
    <2>1. n \in DOMAIN s /\ 1 < n
      BY <1>9
    <2>2. QED
      BY <1>2, <1>5, <2>1 DEF Ordered
  <1>12. \A p \in Slot : held'[t][p] = IF d.c \in LeafCaches /\ p = d.as THEN RefreshCorpus(d.c)
                                       ELSE held[t][p]
    BY <1>3, <1>4 DEF CachesInv, CachesTypeOK
  <1> HIDE DEF r, k, a, x, s, d
  <1>13. \A u \in Threads : Ordered(u)'
    <2>1. \A n \in DOMAIN r : r[n] \in Build /\ r[n].do # "clear"
      BY <1>9 DEF Build
    <2>2. ASSUME NEW m \in DOMAIN r, NEW n \in DOMAIN r, m < n, r[n].do = "keep"
          PROVE  r[n].c \in Above[r[m].c]
      <3>1. CASE n = k + 1
        <4>1. m \in 1..k /\ m \in DOMAIN a /\ r[m] = a[m] /\ r[n] = x
          BY <1>9, <2>2, <3>1
        <4>2. QED
          BY <1>4, <1>7, <4>1
      <3>2. CASE n - k \in 2..Len(s)
        <4>1. r[n] = s[n - k]
          <5>1. n - k + k = n
            BY <1>9, <3>2
          <5>2. r[n - k + k] = s[n - k]
            BY <1>9, <3>2
          <5>3. QED
            BY <5>1, <5>2
        <4>2. r[n].c \in Above[d.c]
          BY <1>11, <2>2, <3>2, <4>1
        <4>3. CASE m \in 1..k
          <5>1. r[m] = a[m] /\ m \in DOMAIN a
            BY <1>9, <4>3
          <5>2. d.c \in Above[r[m].c] /\ r[m].c \in Caches
            BY <1>7, <2>1, <5>1 DEF Build
          <5>3. QED
            BY <4>2, <5>2, Tables
        <4>4. CASE m = k + 1
          BY <1>4, <1>9, <4>2, <4>4
        <4>5. CASE m - k \in 2..Len(s)
          <5>1. r[m] = s[m - k] /\ m - k \in DOMAIN s /\ n - k \in DOMAIN s /\ m - k < n - k
            BY <1>9, <2>2, <3>2, <4>5
          <5>2. QED
            BY <1>5, <2>2, <4>1, <5>1 DEF Ordered, s
        <4>6. QED
          BY <1>9, <4>3, <4>4, <4>5
      <3>3. CASE n \in 1..k
        BY <1>7, <1>9, <2>2, <3>3
      <3>4. QED
        BY <1>9, <3>1, <3>2, <3>3
    <2>3. Ordered(t)'
      BY <1>10, <2>1, <2>2 DEF Ordered
    <2>4. QED
      BY <1>10, <2>3, OrderedBy
  <1>14. KeepsNext(t)
    <2> SUFFICES ASSUME NEW n \in DOMAIN r, r[n].do = "keep", r[n].c \notin spoiled'[t],
                        NEW p \in Fills(r[n].c, r[n].as),
                        \A m \in DOMAIN r : m < n => p \notin Fills(r[m].c, r[m].as)
                 PROVE  GoodNext(held'[t][p], r[n].c)
      BY <1>10 DEF KeepsNext
    <2>1. CASE n = k + 1
      <3>1. r[n] = x /\ p \in Fills(d.c, d.as)
        BY <1>4, <1>9, <2>1
      <3>2. d.c \in LeafCaches
        <4> SUFFICES ASSUME d.c \notin LeafCaches PROVE FALSE
          OBVIOUS
        <4>1. PICK m \in DOMAIN a : p \in Fills(a[m].c, a[m].as)
          BY <1>7, <3>1 DEF Fills
        <4>2. m \in DOMAIN r /\ m < n /\ r[m] = a[m]
          BY <1>9, <2>1, <4>1
        <4>3. QED
          BY <4>1, <4>2
      <3>3. p = d.as /\ held'[t][p] = RefreshCorpus(d.c)
        BY <1>4, <1>12, <3>1, <3>2 DEF Fills
      <3>4. \A i : CurrentNext(i) = Current(i)
        BY <1>3 DEF CurrentNext, Current
      <3>5. QED
        BY <3>3, <3>4 DEF GoodNext, RefreshCorpus
    <2>2. CASE n - k \in 2..Len(s)
      <3>1. r[n] = s[n - k] /\ n - k \in DOMAIN s /\ k + 1 \in DOMAIN r /\ k + 1 < n
        BY <1>9, <2>2
      <3>2. s[n - k].c \in Above[d.c] /\ s[n - k].c \notin spoiled[t]
        <4>1. s[n - k].c \in Above[d.c]
          BY <1>11, <2>2, <3>1
        <4>2. QED
          BY <1>4, <1>10, <3>1, <4>1, Tables
      <3>3. p \notin Fills(d.c, d.as)
        BY <1>4, <1>9, <3>1
      <3>4. \A m \in DOMAIN s : m < n - k => p \notin Fills(s[m].c, s[m].as)
        <4> SUFFICES ASSUME NEW m \in DOMAIN s, m < n - k, m # 1
                     PROVE  p \notin Fills(s[m].c, s[m].as)
          BY <3>3 DEF d
        <4>1. m \in 2..Len(s) /\ m + k \in DOMAIN r /\ m + k < n
          BY <1>9
        <4>2. r[m + k] = s[m]
          BY <1>9, <4>1
        <4>3. QED
          BY <4>1, <4>2
      <3>5. p \in Slot
        BY <1>6, <3>1, Reached
      <3>6. held'[t][p] = held[t][p]
        BY <1>12, <3>3, <3>5 DEF Fills
      <3>7. Good(held[t][p], s[n - k].c)
        BY <1>5, <3>1, <3>2, <3>4 DEF Keeps, s
      <3>8. QED
        BY <1>2, <1>3, <1>10, <3>1, <3>6, <3>7, GoodStays
    <2>3. CASE n \in 1..k
      BY <1>7, <1>9, <2>3
    <2>4. QED
      BY <1>9, <2>1, <2>2, <2>3
  <1>15. \A u \in Threads : KeepsNext(u)
    <2>1. \A u \in Threads \ {t} : held'[u] = held[u] /\ spoiled'[u] = spoiled[u]
      BY <1>3 DEF CachesInv, CachesTypeOK
    <2>2. QED
      BY <1>2, <1>3, <1>10, <1>14, <2>1, OthersKeep
  <1>16. CachesTypeOK'
    <2>1. todo' \in [Threads -> Seq(Build \cup Clearing)]
      <3>1. r \in Seq(Build \cup Clearing)
        BY <1>9
      <3>2. QED
        BY <1>3, <3>1 DEF CachesInv, CachesTypeOK
    <2>2. \A u \in Threads, p \in Slot : held'[u][p] \in Corpus(p)
      <3>1. d.c \in LeafCaches => RefreshCorpus(d.c) \in Corpus(d.as)
        <4>1. \A i \in Items : Current(i) \in Nat
          BY RetrievalCachesAssumption DEF Current, CachesInv, CachesTypeOK, ItemRow
        <4>2. Covers(d.c) \subseteq Items
          BY DEF Covers, Items
        <4>3. QED
          BY <1>4, <4>1, <4>2 DEF RefreshCorpus, Corpus
      <3>2. \A p \in Slot : held'[t][p] \in Corpus(p)
        BY <1>12, <3>1 DEF CachesInv, CachesTypeOK
      <3>3. \A u \in Threads \ {t} : held'[u] = held[u]
        BY <1>3 DEF CachesInv, CachesTypeOK
      <3>4. QED
        BY <3>2, <3>3 DEF CachesInv, CachesTypeOK
    <2>3. held' = [u \in Threads |-> [p \in Slot |-> held'[u][p]]]
      <3>1. CASE d.c \in LeafCaches
        <4>1. held' = [held EXCEPT ![t] = [held[t] EXCEPT ![d.as] = RefreshCorpus(d.c)]]
          BY <1>3, <3>1
        <4>2. held[t] = [p \in Slot |-> held[t][p]]
          BY DEF CachesInv, CachesTypeOK
        <4>3. QED
          BY <4>1, <4>2 DEF CachesInv, CachesTypeOK
      <3>2. CASE d.c \notin LeafCaches
        BY <1>3, <3>2 DEF CachesInv, CachesTypeOK
      <3>3. QED
        BY <3>1, <3>2
    <2>4. spoiled' \in [Threads -> SUBSET Caches]
      BY <1>3 DEF CachesInv, CachesTypeOK
    <2>5. QED
      BY <1>3, <2>1, <2>2, <2>3, <2>4 DEF CachesInv, CachesTypeOK
  <1>17. \A c \in Caches : cache'[c] # None => \A p \in Slots[c] : GoodNext(cache'[c][p], c)
    BY <1>2, <1>3, <1>10, GoodStays DEF CachesInv, CachesAreCurrent, Good
  <1>18. QED
    BY <1>13, <1>15, <1>16, <1>17, NextKeeps, NextCurrent DEF CachesInv

-----------------------------------------------------------------------------
(* Steps of others *)

\* What each thread keeps of the three properties.
Overviewed(t) == {e \in shown[t] : e.as = "overview"}
Prompted(t) ==
  pc[t] = "prompt" /\ ask[t].tool = "ask" =>
    /\ \/ Cardinality(Overviewed(t)) = MaxFiles
       \/ \A f \in Chosen(t) :
            [as |-> "overview", item |-> f, text |-> item[f].text] \in Overviewed(t)
    /\ Chosen(t) # {} => \E e \in shown[t] : e.as = "upload" /\ e.item \in ask[t].files
Fused(t) == ask[t].tool = "ask" /\ langchain => Fair(found[t])
Divided(f) ==
  /\ Len(f.hits) = Least(TopK, Len(f.a) + Len(f.b))
  /\ OfSide(f.hits, Policies) >= Least(Len(f.a), PublicQuota(TopK))
  /\ OfSide(f.hits, Uploads) >= Least(Len(f.b), PrivateQuota(TopK))
Shared(t) == ask[t].tool = "ask" /\ ask[t].scope = "mixed" /\ ~langchain => Divided(found[t])
Asked(t) == Requested(t) /\ Uploaded(t) /\ Prompted(t) /\ Fused(t) /\ Shared(t)

LEMMA AskedIs == AskInv <=> AskTypeOK /\ \A t \in Threads : Asked(t)
  BY DEF AskInv, Asked, UploadsAreShown, FusionIsFair, MixedSharesPlaces, Prompted, Fused, Shared,
         Fair, Divided, Chosen, Overviewed

LEMMA NextAsked ==
  ASSUME AskTypeOK', \A t \in Threads : Asked(t)'
  PROVE  AskInv'
  <1>1. \A t \in Threads : Requested(t)' /\ Uploaded(t)'
    BY DEF Asked
  <1>2. UploadsAreShown'
    BY DEF Asked, UploadsAreShown, Prompted, Chosen, Overviewed
  <1>3. FusionIsFair'
    BY DEF Asked, FusionIsFair, Fused, Fair
  <1>4. MixedSharesPlaces'
    BY DEF Asked, MixedSharesPlaces, Shared, Divided
  <1>5. QED
    BY <1>1, <1>2, <1>3, <1>4 DEF AskInv

\* A request stays what it is while others work, even on the library.
LEMMA AskedAside ==
  ASSUME NEW u, Asked(u), ask'[u] = ask[u], found'[u] = found[u], shown'[u] = shown[u],
         langchain' = langchain,
         pc'[u] = pc[u] \/ (pc[u] \notin Serving /\ pc'[u] \notin Serving),
         pc[u] \in Serving => /\ touched[u] \subseteq touched'[u]
                              /\ \A f \in Items : f \in touched'[u] \/ item'[f] = item[f]
  PROVE  Asked(u)'
  <1>1. Requested(u)'
    BY DEF Asked, Requested, Serving
  <1>2. pc[u] \in Serving => /\ ask[u].files \subseteq Items
                             /\ Chosen(u)' \subseteq Chosen(u)
                             /\ \A f \in ask[u].files \ touched'[u] :
                                  f \notin touched[u] /\ item'[f] = item[f]
    <2> SUFFICES ASSUME pc[u] \in Serving
                 PROVE  /\ ask[u].files \subseteq Items
                        /\ Chosen(u)' \subseteq Chosen(u)
                        /\ \A f \in ask[u].files \ touched'[u] :
                             f \notin touched[u] /\ item'[f] = item[f]
      OBVIOUS
    <2>1. ask[u].files \subseteq Items
      BY DEF Asked, Requested, Request
    <2>2. \A f \in ask[u].files \ touched'[u] : f \notin touched[u] /\ item'[f] = item[f]
      BY <2>1
    <2>3. QED
      BY <2>1, <2>2 DEF Chosen
  <1>3. Uploaded(u)'
    <2>1. pc'[u] \in Serving => pc'[u] = pc[u]
      OBVIOUS
    <2>2. pc'[u] \in Serving => \A f \in ask'[u].files \ touched'[u] : item'[f].ready
      BY <1>2, <2>1 DEF Asked, Uploaded
    <2>3. pc'[u] # "prompt" => \A e \in shown'[u] : e.as # "overview"
      BY DEF Asked, Uploaded, Serving
    <2>4. pc'[u] = "overview" /\ Chosen(u)' # {} =>
            \E e \in shown'[u] : e.as = "upload" /\ e.item \in ask'[u].files
      BY <1>2, <2>1 DEF Asked, Uploaded, Serving
    <2>5. QED
      BY <2>2, <2>3, <2>4 DEF Uploaded
  <1>4. Prompted(u)'
    <2> SUFFICES ASSUME pc[u] = "prompt", pc'[u] = pc[u], ask[u].tool = "ask" PROVE Prompted(u)'
      BY DEF Prompted, Serving
    <2>1. pc[u] \in Serving
      BY DEF Serving
    <2>2. Overviewed(u)' = Overviewed(u)
      BY DEF Overviewed
    <2>3. \A f \in Chosen(u)' : f \in Chosen(u) /\ item'[f] = item[f]
      BY <1>2, <2>1 DEF Chosen
    <2>4. \/ Cardinality(Overviewed(u)) = MaxFiles
          \/ \A f \in Chosen(u) :
               [as |-> "overview", item |-> f, text |-> item[f].text] \in Overviewed(u)
      BY DEF Asked, Prompted
    <2>5. Chosen(u) # {} => \E e \in shown[u] : e.as = "upload" /\ e.item \in ask[u].files
      BY DEF Asked, Prompted
    <2>6. \/ Cardinality(Overviewed(u)') = MaxFiles
          \/ \A f \in Chosen(u)' :
               [as |-> "overview", item |-> f, text |-> item'[f].text] \in Overviewed(u)'
      BY <2>2, <2>3, <2>4
    <2>7. Chosen(u)' # {} => \E e \in shown'[u] : e.as = "upload" /\ e.item \in ask'[u].files
      BY <2>3, <2>5
    <2>8. QED
      BY <2>6, <2>7 DEF Prompted
  <1>5. Fused(u)' /\ Shared(u)'
    BY DEF Asked, Fused, Shared, Fair, Divided
  <1>6. QED
    BY <1>1, <1>3, <1>4, <1>5 DEF Asked

LEMMA CachesKeepAsks ==
  ASSUME CachesInv, AskInv, NEW t \in Threads, CachesStep(t), UNCHANGED askVars
  PROVE  AskInv'
  <1>1. AskTypeOK'
    BY DEF AskInv, AskTypeOK, askVars
  <1>2. \A u \in Threads : Asked(u)
    BY AskedIs
  <1>3. item' = item
    BY DEF CachesStep, GetCached, StartBuild, KeepBuilt, ClearCache
  <1>4. ASSUME NEW u \in Threads
        PROVE  pc'[u] = pc[u] \/ (pc[u] \notin Serving /\ pc'[u] \notin Serving)
    <2>1. CASE pc' = pc
      BY <2>1
    <2>2. CASE ClearCache(t)
      <3>1. pc[t] = "clearing"
        BY <2>2, NextIs DEF ClearCache, Next1
      <3>2. pc' = [pc EXCEPT ![t] = IF Len(todo[t]) = 1 THEN "idle" ELSE @]
        BY <2>2 DEF ClearCache
      <3>3. QED
        BY <3>1, <3>2 DEF CachesInv, CachesTypeOK, Serving
    <2>3. QED
      BY <2>1, <2>2 DEF CachesStep, GetCached, StartBuild, KeepBuilt
  <1>5. ASSUME NEW u \in Threads PROVE Asked(u)'
    <2>1. Asked(u)
      BY <1>2
    <2>2. /\ ask'[u] = ask[u] /\ found'[u] = found[u] /\ shown'[u] = shown[u]
          /\ langchain' = langchain /\ touched'[u] = touched[u]
      BY DEF askVars
    <2>3. QED
      BY <1>3, <1>4, <2>1, <2>2, AskedAside
  <1>6. QED
    BY <1>1, <1>5, NextAsked

LEMMA ChangeKeepsAsks ==
  ASSUME CachesInv, AskInv, NEW t \in Threads, Change(t), Touch,
         UNCHANGED <<langchain, ask, rag, wanted, corpora, found, shown, asks>>
  PROVE  AskInv'
  <1>1. AskTypeOK'
    BY DEF AskInv, AskTypeOK, Touch
  <1>2. \A u \in Threads : Asked(u)
    BY AskedIs
  <1>3. \E p \in Place : pc[t] \notin Serving /\ p \notin Serving /\ pc' = [pc EXCEPT ![t] = p]
    <2>1. CASE \E i \in Changing : BeginTask(t, i)
      BY <2>1 DEF BeginTask, Place, Serving
    <2>2. CASE \E i \in Changing : UpdateAdminKnowledgeItem(t, i)
      BY <2>2 DEF UpdateAdminKnowledgeItem, Place, Serving
    <2>3. CASE ReplaceChunks(t)
      BY <2>3 DEF ReplaceChunks, Place, Serving
    <2>4. CASE FinishTask(t)
      BY <2>4 DEF FinishTask, Place, Serving
    <2>5. CASE FailTask(t)
      BY <2>5 DEF FailTask, Place, Serving
    <2>6. QED
      BY <2>1, <2>2, <2>3, <2>4, <2>5 DEF Change
  <1>4. ASSUME NEW u \in Threads
        PROVE  pc'[u] = pc[u] \/ (pc[u] \notin Serving /\ pc'[u] \notin Serving)
    BY <1>3 DEF CachesInv, CachesTypeOK
  <1>5. ASSUME NEW u \in Threads PROVE Asked(u)'
    <2>1. Asked(u)
      BY <1>2
    <2>2. /\ ask'[u] = ask[u] /\ found'[u] = found[u] /\ shown'[u] = shown[u]
          /\ langchain' = langchain
      OBVIOUS
    <2>3. pc[u] \in Serving => ask[u] # NoAsk
      <3>1. \A a \in Request : a.tool # "none"
        BY DEF Request
      <3>2. NoAsk.tool = "none"
        BY DEF NoAsk
      <3>3. QED
        BY <2>1, <3>1, <3>2 DEF Asked, Requested
    <2>4. ask[u] # NoAsk => /\ touched[u] \subseteq touched'[u]
                            /\ \A f \in Items : f \in touched'[u] \/ item'[f] = item[f]
      BY DEF Touch
    <2>5. QED
      BY <1>4, <2>1, <2>2, <2>3, <2>4, AskedAside
  <1>6. QED
    BY <1>1, <1>5, NextAsked

-----------------------------------------------------------------------------
(* Steps of a request *)

LEMMA ServeStep ==
  ASSUME CachesInv, NEW t \in Threads, UNCHANGED <<item, cache, spoiled, unsaid>>,
         pc[t] \in {"idle"} \cup Serving, NEW p \in {"idle"} \cup Serving,
         pc' = [pc EXCEPT ![t] = p],
         \/ about' = about /\ p # "create"
         \/ \E i \in Items : about' = [about EXCEPT ![t] = i]
         \/ about' = [about EXCEPT ![t] = Nobody] /\ p # "create",
         \/ p # "tools" /\ todo' = todo /\ todo[t] = <<>>
         \/ p = "tools" /\ todo' = [todo EXCEPT ![t] = <<Get("engine", "engine")>>],
         held' = held \/ held' = [held EXCEPT ![t] = Nothing]
  PROVE  CachesInv' /\ Others(t)
  <1>1. Others(t) /\ pc'[t] = p
    BY DEF Others, CachesInv, CachesTypeOK
  <1>2. /\ Get("engine", "engine") \in Build /\ Get("engine", "engine").do = "get"
        /\ <<Get("engine", "engine")>> \in Seq(Build \cup Clearing)
        /\ DOMAIN <<Get("engine", "engine")>> = {1}
        /\ <<Get("engine", "engine")>>[1] = Get("engine", "engine")
    <2>1. Get("engine", "engine") \in Build /\ Get("engine", "engine").do = "get"
      BY DEF Get, Build, Caches, LeafCaches
    <2> DEFINE g == Get("engine", "engine")
    <2> HIDE DEF g
    <2>2. /\ <<g>> \in Seq({g}) /\ DOMAIN <<g>> = {1} /\ <<g>>[1] = g
      OBVIOUS
    <2>3. <<g>> \in Seq(Build \cup Clearing)
      BY <2>1 DEF g
    <2>4. QED
      BY <2>1, <2>2, <2>3 DEF g
  <1>3. \/ p # "tools" /\ todo'[t] = <<>>
        \/ p = "tools" /\ todo'[t] = <<Get("engine", "engine")>>
    BY DEF CachesInv, CachesTypeOK
  <1>4. Ordered(t)'
    <2>1. p \notin {"tools", "clearing"} => todo'[t] = <<>>
      BY <1>3
    <2>2. p # "clearing"
      BY DEF Serving
    <2>3. \A n \in DOMAIN todo'[t] : todo'[t][n] \in Build /\ todo'[t][n].do = "get"
      BY <1>2, <1>3
    <2>4. QED
      BY <1>1, <2>1, <2>2, <2>3 DEF Ordered
  <1>5. CachesTypeOK'
    <2>1. pc' \in [Threads -> Place]
      BY DEF CachesInv, CachesTypeOK, Serving, Place
    <2>2. about' \in [Threads -> Items \cup {Nobody}]
      BY DEF CachesInv, CachesTypeOK
    <2>3. \A u \in Threads : pc'[u] \in {"indexing", "indexed", "create"} => about'[u] \in Items
      <3>1. p \in {"indexing", "indexed", "create"} => about'[t] \in Items
        BY DEF CachesInv, CachesTypeOK, Serving
      <3>2. QED
        BY <1>1, <3>1 DEF CachesInv, CachesTypeOK, Others
    <2>4. todo' \in [Threads -> Seq(Build \cup Clearing)]
      BY <1>2 DEF CachesInv, CachesTypeOK
    <2>5. /\ held' = [u \in Threads |-> [s \in Slot |-> held'[u][s]]]
          /\ \A u \in Threads, s \in Slot : held'[u][s] \in Corpus(s)
      <3>1. Nothing = [s \in Slot |-> Nothing[s]] /\ \A s \in Slot : Nothing[s] \in Corpus(s)
        BY DEF Nothing, Unread, Corpus
      <3>2. \A u \in Threads : held'[u] = held[u] \/ held'[u] = Nothing
        BY DEF CachesInv, CachesTypeOK
      <3>3. \A u \in Threads : held'[u] = [s \in Slot |-> held'[u][s]]
        BY <3>1, <3>2 DEF CachesInv, CachesTypeOK
      <3>4. held' = [u \in Threads |-> held'[u]]
        BY DEF CachesInv, CachesTypeOK
      <3>5. \A u \in Threads, s \in Slot : held'[u][s] \in Corpus(s)
        BY <3>1, <3>2 DEF CachesInv, CachesTypeOK
      <3>6. QED
        BY <3>3, <3>4, <3>5
    <2>6. QED
      BY <2>1, <2>2, <2>3, <2>4, <2>5 DEF CachesInv, CachesTypeOK
  <1>6. \A c \in Caches : Told(c)
    <2> TAKE c \in Caches
    <2>1. \A i : ~OwedBy(t, i, c)
      BY OwesNothing DEF Serving
    <2>2. \A i : CurrentNext(i) = Current(i)
      BY DEF CurrentNext, Current
    <2>3. QED
      BY <1>1, <2>1, <2>2, ToldBy
  <1>7. \A u \in Threads :
          \/ todo'[u] = todo[u] /\ held'[u] = held[u] /\ spoiled[u] \subseteq spoiled'[u]
          \/ \A n \in DOMAIN todo'[u] : todo'[u][n].do # "keep"
    <2>1. \A n \in DOMAIN todo'[t] : todo'[t][n].do # "keep"
      BY <1>2, <1>3
    <2>2. \A u \in Threads \ {t} : todo'[u] = todo[u] /\ held'[u] = held[u]
      BY <1>1 DEF Others, CachesInv, CachesTypeOK
    <2>3. QED
      BY <2>1, <2>2
  <1>8. QED
    BY <1>1, <1>4, <1>5, <1>6, <1>7, OrderedBy, CachesAside

\* The other requests stay what they are.
LEMMA OthersAsk ==
  ASSUME AskInv, NEW t \in Threads, Others(t), item' = item, langchain' = langchain,
         \A u \in Threads \ {t} : /\ ask'[u] = ask[u] /\ found'[u] = found[u]
                                  /\ shown'[u] = shown[u] /\ touched'[u] = touched[u],
         Asked(t)'
  PROVE  \A u \in Threads : Asked(u)'
  <1> SUFFICES ASSUME NEW u \in Threads \ {t} PROVE Asked(u)'
    OBVIOUS
  <1>1. Asked(u)
    BY AskedIs
  <1>2. QED
    BY <1>1, AskedAside DEF Others

LEMMA NotYetIs == Fair(NotYet) /\ Divided(NotYet)
  <1>1. NotYet.a = <<>> /\ NotYet.b = <<>> /\ NotYet.hits = <<>>
    BY DEF NotYet
  <1>2. ToSet(<<>>) = {} /\ Len(<<>>) = 0
    BY DEF ToSet
  <1>3. OfSide(<<>>, Policies) = 0 /\ OfSide(<<>>, Uploads) = 0
    BY FS_EmptySet DEF OfSide
  <1>4. /\ Least(TopK, 0 + 0) = 0 /\ Least(0, PublicQuota(TopK)) = 0
        /\ Least(0, PrivateQuota(TopK)) = 0
    BY RetrievalAssumption DEF Least, PublicQuota, PrivateQuota
  <1>5. QED
    BY <1>1, <1>2, <1>3, <1>4 DEF Fair, Divided

LEMMA RequestStep ==
  ASSUME CachesInv, AskInv, NEW t \in Threads, BuildChatRequest(t)
  PROVE  CachesInv' /\ AskInv'
  <1>1. pc[t] = "idle"
    BY DEF BuildChatRequest
  <1>2. CachesInv' /\ Others(t)
    BY <1>1, ServeStep DEF BuildChatRequest, Goes, Serving
  <1>3. PICK a \in Asks : ask' = [ask EXCEPT ![t] = [a EXCEPT !.files = {f \in @ : item[f].ready}]]
    BY DEF BuildChatRequest
  <1> DEFINE b == [a EXCEPT !.files = {f \in @ : item[f].ready}]
  <1>4. a \in Request
    BY RetrievalAssumption DEF Request
  <1>5. b \in Request /\ b.files = {f \in a.files : item[f].ready} /\ b.tool = a.tool
    BY <1>4 DEF Request
  <1> HIDE DEF b
  <1>6. /\ ask'[t] = b /\ touched'[t] = {} /\ pc'[t] = "tools" /\ found'[t] = NotYet
        /\ shown'[t] = shown[t] /\ UNCHANGED <<item, langchain>>
    BY <1>1, <1>3 DEF BuildChatRequest, AskInv, AskTypeOK, Goes, CachesInv, CachesTypeOK,
                  b, Requested
  <1>7. Asked(t)'
    <2>1. Requested(t)'
      BY <1>5, <1>6 DEF Requested, Serving
    <2>2. Uploaded(t)'
      <3>1. \A e \in shown[t] : e.as # "overview"
        BY <1>1 DEF AskInv, Uploaded
      <3>2. QED
        BY <1>5, <1>6, <3>1 DEF Uploaded, Serving
    <2>3. Prompted(t)'
      BY <1>6 DEF Prompted
    <2>4. Fused(t)' /\ Shared(t)'
      BY <1>6, NotYetIs DEF Fused, Shared, Fair, Divided
    <2>5. QED
      BY <2>1, <2>2, <2>3, <2>4 DEF Asked
  <1>8. AskTypeOK'
    <2>1. touched' \in [Threads -> SUBSET Items] /\ ask' = [u \in Threads |-> ask'[u]]
      BY <1>3 DEF BuildChatRequest, AskInv, AskTypeOK
    <2>2. UNCHANGED <<langchain, rag, wanted, corpora, found, shown>>
      BY DEF BuildChatRequest
    <2>3. QED
      BY <2>1, <2>2 DEF AskInv, AskTypeOK
  <1>9. \A u \in Threads \ {t} : /\ ask'[u] = ask[u] /\ found'[u] = found[u]
                                 /\ shown'[u] = shown[u] /\ touched'[u] = touched[u]
    BY <1>3 DEF BuildChatRequest, AskInv, AskTypeOK
  <1>10. QED
    BY <1>2, <1>6, <1>7, <1>8, <1>9, OthersAsk, NextAsked

LEMMA SyncKeeps ==
  ASSUME AskInv, NEW t \in Threads, pc[t] \in {"tools", "sync", "create"},
         pc[t] = "tools" => langchain, pc'[t] \in {"sync", "create"}, Others(t),
         UNCHANGED <<item, langchain, ask, found, shown, touched>>
  PROVE  \A u \in Threads : Asked(u)'
  <1>1. Asked(t)
    BY AskedIs
  <1>2. Asked(t)'
    BY <1>1 DEF Asked, Requested, Uploaded, Prompted, Fused, Shared, Fair, Divided, Serving
  <1>3. QED
    BY <1>2, OthersAsk

LEMMA SelectStep ==
  ASSUME CachesInv, AskInv, NEW t \in Threads, SyncVisibleKnowledge(t)
  PROVE  CachesInv' /\ AskInv'
  <1>1. /\ pc[t] = "tools" /\ langchain /\ todo[t] = <<>>
        /\ pc' = [pc EXCEPT ![t] = "sync"] /\ pc'[t] = "sync"
    BY DEF SyncVisibleKnowledge, Ready, Goes, CachesInv, CachesTypeOK
  <1>2. UNCHANGED <<item, cache, todo, held, about, spoiled, unsaid,
                    langchain, ask, rag, corpora, found, shown, touched>>
    BY DEF SyncVisibleKnowledge
  <1>3. CachesInv' /\ Others(t)
    BY <1>1, <1>2, ServeStep DEF Serving
  <1>4. \A u \in Threads : Asked(u)'
    BY <1>1, <1>2, <1>3, SyncKeeps
  <1>5. AskTypeOK'
    <2>1. wanted' \in [Threads -> SUBSET Items]
      BY DEF SyncVisibleKnowledge, AskInv, AskTypeOK
    <2>2. QED
      BY <1>2, <2>1 DEF AskInv, AskTypeOK
  <1>6. QED
    BY <1>3, <1>4, <1>5, NextAsked

LEMMA ItemStep ==
  ASSUME CachesInv, AskInv, NEW t \in Threads, SyncItem(t)
  PROVE  CachesInv' /\ AskInv'
  <1> DEFINE i == SetToSeq(Missing(t))[1]
  <1>1. /\ pc[t] = "sync" /\ Missing(t) # {} /\ pc' = [pc EXCEPT ![t] = "create"]
        /\ pc'[t] = "create" /\ about' = [about EXCEPT ![t] = i]
        /\ wanted' = [wanted EXCEPT ![t] = @ \ {i}]
    BY DEF SyncItem, Goes, CachesInv, CachesTypeOK
  <1>2. UNCHANGED <<item, cache, todo, held, spoiled, unsaid,
                    langchain, ask, rag, corpora, found, shown, touched>>
    BY DEF SyncItem
  <1>3. i \in Items
    <2>1. Missing(t) \subseteq Items
      BY DEF Missing, AskInv, AskTypeOK
    <2>2. IsFiniteSet(Missing(t))
      BY <2>1, RetrievalCachesAssumption, FS_Subset
    <2>3. SetToSeq(Missing(t)) \in Seq(Missing(t)) /\ ToSet(SetToSeq(Missing(t))) = Missing(t)
      BY <2>2, SetToSeqIs
    <2>4. SetToSeq(Missing(t)) # <<>>
      BY <1>1, <2>3 DEF ToSet
    <2>5. i \in Missing(t)
      BY <2>3, <2>4, TailIs
    <2>6. QED
      BY <2>1, <2>5
  <1>4. todo[t] = <<>>
    BY <1>1 DEF CachesInv, Ordered
  <1> HIDE DEF i
  <1>5. CachesInv' /\ Others(t)
    BY <1>1, <1>2, <1>3, <1>4, ServeStep DEF Serving
  <1>6. \A u \in Threads : Asked(u)'
    BY <1>1, <1>2, <1>5, SyncKeeps
  <1>7. AskTypeOK'
    <2>1. wanted' \in [Threads -> SUBSET Items]
      BY <1>1 DEF AskInv, AskTypeOK
    <2>2. QED
      BY <1>2, <2>1 DEF AskInv, AskTypeOK
  <1>8. QED
    BY <1>5, <1>6, <1>7, NextAsked

LEMMA CurrentIs ==
  ASSUME CachesInv, NEW i \in Items
  PROVE  /\ Current(i) \in Nat
         /\ item[i].on /\ item[i].ready => Current(i) = item[i].text /\ Current(i) # 0
  <1>1. item[i] \in ItemRow /\ MaxTexts \in Nat
    BY RetrievalCachesAssumption DEF CachesInv, CachesTypeOK
  <1>2. item[i].text \in Nat /\ item[i].text # 0
    BY <1>1 DEF ItemRow
  <1>3. QED
    BY <1>2 DEF Current

LEMMA CreateStep ==
  ASSUME CachesInv, AskInv, NEW t \in Threads, CreateDocument(t)
  PROVE  CachesInv' /\ AskInv'
  <1>1. /\ pc[t] = "create" /\ pc' = [pc EXCEPT ![t] = "sync"] /\ pc'[t] = "sync"
        /\ about' = [about EXCEPT ![t] = Nobody]
    BY DEF CreateDocument, Goes, CachesInv, CachesTypeOK
  <1>2. UNCHANGED <<item, cache, todo, held, spoiled, unsaid,
                    langchain, ask, wanted, corpora, found, shown, touched>>
    BY DEF CreateDocument
  <1>3. todo[t] = <<>>
    BY <1>1 DEF CachesInv, Ordered
  <1>4. CachesInv' /\ Others(t)
    BY <1>1, <1>2, <1>3, ServeStep DEF Serving
  <1>5. \A u \in Threads : Asked(u)'
    BY <1>1, <1>2, <1>4, SyncKeeps
  <1>6. AskTypeOK'
    <2> DEFINE d == [item |-> about[t], text |-> Current(about[t]), at |-> Cardinality(rag) + 1]
    <2>1. about[t] \in Items
      BY <1>1 DEF CachesInv, CachesTypeOK
    <2>2. Current(about[t]) \in Nat
      BY <2>1, CurrentIs
    <2>3. Cardinality(rag) + 1 \in Nat
      BY FS_CardinalityType DEF AskInv, AskTypeOK
    <2>4. d \in Document
      BY <2>1, <2>2, <2>3 DEF Document
    <2>5. rag' = rag \cup {d}
      BY DEF CreateDocument
    <2> HIDE DEF d
    <2>6. rag' \subseteq Document /\ IsFiniteSet(rag')
      BY <2>4, <2>5, FS_AddElement DEF AskInv, AskTypeOK
    <2>7. QED
      BY <1>2, <2>6 DEF AskInv, AskTypeOK
  <1>7. QED
    BY <1>4, <1>5, <1>6, NextAsked

LEMMA RerankKeeps ==
  ASSUME CachesInv, AskInv, NEW t \in Threads, NEW f, Rerank(t, f),
         pc[t] \in {"tools", "sync"}, todo[t] = <<>>,
         UNCHANGED <<item, cache, todo, held, about, spoiled, unsaid, langchain, ask, touched>>,
         ask[t].tool = "ask" /\ langchain => Fair(f),
         ask[t].tool = "ask" /\ ask[t].scope = "mixed" /\ ~langchain => Divided(f)
  PROVE  /\ CachesInv' /\ \A u \in Threads : Asked(u)'
         /\ found' = [u \in Threads |-> found'[u]] /\ shown' = [u \in Threads |-> shown'[u]]
  <1> DEFINE p == IF HasFileSearch(ask[t]) THEN "files" ELSE "prompt"
  <1>1. p \in {"files", "prompt"} /\ (p = "files" <=> HasFileSearch(ask[t]))
    OBVIOUS
  <1>2. pc' = [pc EXCEPT ![t] = p] /\ found' = [found EXCEPT ![t] = f]
    BY DEF Rerank, Goes
  <1>3. PICK chosen : shown' = [shown EXCEPT ![t] = Evidence("hit", chosen)]
    BY DEF Rerank
  <1> HIDE DEF p
  <1>4. pc'[t] = p /\ found'[t] = f /\ shown'[t] = Evidence("hit", chosen)
    BY <1>2, <1>3 DEF CachesInv, CachesTypeOK, AskInv, AskTypeOK
  <1>5. CachesInv' /\ Others(t)
    BY <1>1, <1>2, ServeStep DEF Serving
  <1>6. Asked(t)
    BY AskedIs
  <1>7. Asked(t)'
    <2>1. Requested(t)'
      BY <1>1, <1>4, <1>6 DEF Asked, Requested, Serving, HasFileSearch
    <2>2. Uploaded(t)'
      <3>1. \A e \in shown'[t] : e.as # "overview"
        BY <1>4 DEF Evidence
      <3>2. \A g \in ask[t].files \ touched[t] : item[g].ready
        BY <1>6 DEF Asked, Uploaded, Serving
      <3>3. QED
        BY <1>1, <1>4, <3>1, <3>2 DEF Uploaded
    <2>3. Prompted(t)'
      <3> SUFFICES ASSUME p = "prompt", ask[t].tool = "ask" PROVE Prompted(t)'
        BY <1>4 DEF Prompted
      <3>1. ask[t].files = {}
        BY <1>1 DEF HasFileSearch
      <3>2. Chosen(t)' = {}
        BY <3>1 DEF Chosen
      <3>3. QED
        BY <3>2 DEF Prompted
    <2>4. Fused(t)'
      BY <1>4 DEF Fused, Fair
    <2>5. Shared(t)'
      BY <1>4 DEF Shared, Divided
    <2>6. QED
      BY <2>1, <2>2, <2>3, <2>4, <2>5 DEF Asked
  <1>8. \A u \in Threads \ {t} : /\ ask'[u] = ask[u] /\ found'[u] = found[u]
                                 /\ shown'[u] = shown[u] /\ touched'[u] = touched[u]
    BY <1>2, <1>3 DEF AskInv, AskTypeOK
  <1>9. /\ found' = [u \in Threads |-> found'[u]] /\ shown' = [u \in Threads |-> shown'[u]]
    BY <1>2, <1>3 DEF AskInv, AskTypeOK
  <1>10. QED
    BY <1>5, <1>7, <1>8, <1>9, OthersAsk

LEMMA ListIs ==
  ASSUME AskInv, NEW a
  PROVE  /\ ListSearchableChunks(a) \in Seq(Document)
         /\ IsInjective(ListSearchableChunks(a))
  <1>1. PICK S \in SUBSET rag :
          ListSearchableChunks(a) = BestFirst(SetToSeq(S), [d \in S |-> <<d.at, 1>>])
    BY DEF ListSearchableChunks
  <1>2. IsFiniteSet(S) /\ S \subseteq Document
    BY FS_Subset DEF AskInv, AskTypeOK
  <1>3. SetToSeq(S) \in Seq(Document) /\ ToSet(SetToSeq(S)) = S /\ IsInjective(SetToSeq(S))
    BY <1>2, SetToSeqIs
  <1> DEFINE score == [d \in S |-> <<d.at, 1>>]
  <1>4. \A x \in ToSet(SetToSeq(S)) : score[x] \in Score
    BY <1>2, <1>3 DEF Document, Score
  <1> HIDE DEF score
  <1>5. /\ BestFirst(SetToSeq(S), score) \in Seq(Document)
        /\ IsInjective(BestFirst(SetToSeq(S), score))
    BY <1>3, <1>4, BestFirstIs
  <1>6. QED
    BY <1>1, <1>5 DEF score

LEMMA CorpusIs ==
  ASSUME AskInv, NEW chunks \in Seq(Document), IsInjective(chunks)
  PROVE  CorpusForChunks(chunks) \in Seq(Document) /\ IsInjective(CorpusForChunks(chunks))
  <1> DEFINE cached == CachedCorpus(CorpusKey(chunks))
  <1>1. CASE cached = {}
    BY <1>1 DEF CorpusForChunks
  <1>2. CASE cached # {}
    <2>1. PICK e \in cached : CorpusForChunks(chunks) = e.chunks
      BY <1>2 DEF CorpusForChunks
    <2>2. PICK n \in DOMAIN corpora : corpora[n] = e
      BY <2>1 DEF CachedCorpus, ToSet
    <2>3. e \in Entry /\ IsInjective(e.chunks)
      BY <2>2 DEF AskInv, AskTypeOK
    <2>4. QED
      BY <2>1, <2>3 DEF Entry
  <1>3. QED
    BY <1>1, <1>2

LEMMA RememberIs ==
  ASSUME AskInv, NEW chunks \in Seq(Document), IsInjective(chunks), RememberCorpus(chunks)
  PROVE  corpora' \in Seq(Entry) /\ \A n \in DOMAIN corpora' : IsInjective(corpora'[n].chunks)
  <1> DEFINE e == [key |-> CorpusKey(chunks), chunks |-> chunks]
             grown == Append(corpora, e)
  <1>1. CorpusKey(chunks) \in Nat \X Nat
    <2>1. CASE chunks = <<>>
      BY <2>1 DEF CorpusKey
    <2>2. CASE chunks # <<>>
      <3>1. chunks[1] \in Document /\ Len(chunks) \in Nat
        BY <2>2, TailIs
      <3>2. chunks[1].at \in Nat
        BY <3>1 DEF Document
      <3>3. QED
        BY <2>2, <3>1, <3>2 DEF CorpusKey
    <2>3. QED
      BY <2>1, <2>2
  <1>2. e \in Entry /\ e.chunks = chunks
    BY <1>1 DEF Entry
  <1>3. corpora \in Seq(Entry) /\ \A n \in DOMAIN corpora : IsInjective(corpora[n].chunks)
    BY DEF AskInv, AskTypeOK
  <1> HIDE DEF e
  <1>4. /\ grown \in Seq(Entry) /\ grown # <<>> /\ Len(grown) = Len(corpora) + 1
        /\ \A n \in DOMAIN grown : grown[n] = IF n <= Len(corpora) THEN corpora[n] ELSE e
    BY <1>2, <1>3, AppendProperties
  <1>5. \A n \in DOMAIN grown : IsInjective(grown[n].chunks)
    <2> TAKE n \in DOMAIN grown
    <2>1. n <= Len(corpora) => n \in DOMAIN corpora
      BY <1>3, <1>4
    <2>2. QED
      BY <1>2, <1>3, <1>4, <2>1
  <1>6. corpora' \in {corpora, grown, Tail(grown)}
    BY DEF RememberCorpus, e
  <1> HIDE DEF grown
  <1>7. /\ Tail(grown) \in Seq(Entry)
        /\ \A n \in DOMAIN Tail(grown) : n + 1 \in DOMAIN grown /\ Tail(grown)[n] = grown[n + 1]
    BY <1>4, TailIs
  <1>8. \A n \in DOMAIN Tail(grown) : IsInjective(Tail(grown)[n].chunks)
    BY <1>5, <1>7
  <1>9. QED
    BY <1>3, <1>4, <1>5, <1>6, <1>7, <1>8

LEMMA SearchStep ==
  ASSUME CachesInv, AskInv, NEW t \in Threads, Search(t)
  PROVE  CachesInv' /\ AskInv'
  <1> DEFINE q == ask[t].q
             chunks == ListSearchableChunks(ask[t])
             sparse == Ranked(CorpusForChunks(chunks), q.sparse, 4 * TopK)
  <1>1. /\ pc[t] = "sync" /\ RememberCorpus(chunks) /\ wanted' = [wanted EXCEPT ![t] = {}]
        /\ UNCHANGED <<item, cache, todo, held, about, spoiled, unsaid, langchain, ask, rag,
                        touched>>
    BY DEF Search
  <1>2. PICK dense \in {<<>>, Ranked(chunks, q.dense, 4 * TopK)} :
          Rerank(t, [a |-> sparse, b |-> dense, hits |-> MergeWithRrf(sparse, dense)])
    BY DEF Search
  <1>3. todo[t] = <<>> /\ langchain
    BY <1>1 DEF CachesInv, Ordered, AskInv, Requested
  <1>4. ask[t] \in Request
    BY <1>1 DEF AskInv, Requested, Serving
  <1>5. q.sparse \in [Items -> Nat] /\ q.dense \in [Items -> Nat]
    BY <1>4 DEF Request
  <1>6. 4 * TopK \in Nat
    BY RetrievalAssumption
  <1>7. chunks \in Seq(Document) /\ IsInjective(chunks)
    BY ListIs
  <1>8. CorpusForChunks(chunks) \in Seq(Document) /\ IsInjective(CorpusForChunks(chunks))
    BY <1>7, CorpusIs
  <1>9. \A s \in Seq(Document) : \A x \in ToSet(s) : x.item \in Items
    <2> SUFFICES ASSUME NEW s \in Seq(Document), NEW x \in ToSet(s) PROVE x.item \in Items
      OBVIOUS
    <2>1. x \in Document
      BY DEF ToSet
    <2>2. QED
      BY <2>1 DEF Document
  <1> HIDE DEF q, chunks
  <1>10. sparse \in Seq(Document) /\ IsInjective(sparse)
    BY <1>5, <1>6, <1>8, <1>9, RankedIs
  <1>11. /\ Ranked(chunks, q.dense, 4 * TopK) \in Seq(Document)
         /\ IsInjective(Ranked(chunks, q.dense, 4 * TopK))
    BY <1>5, <1>6, <1>7, <1>9, RankedIs
  <1>12. dense \in Seq(Document) /\ IsInjective(dense)
    <2>1. CASE dense = <<>>
      BY <2>1 DEF IsInjective
    <2>2. QED
      BY <1>11, <2>1
  <1> HIDE DEF sparse
  <1>13. Fair([a |-> sparse, b |-> dense, hits |-> MergeWithRrf(sparse, dense)])
    BY <1>10, <1>12, MergeIsFair
  <1> DEFINE f == [a |-> sparse, b |-> dense, hits |-> MergeWithRrf(sparse, dense)]
  <1> HIDE DEF f
  <1>14. /\ CachesInv' /\ \A u \in Threads : Asked(u)'
         /\ found' = [u \in Threads |-> found'[u]] /\ shown' = [u \in Threads |-> shown'[u]]
    <2>1. Rerank(t, f) /\ Fair(f)
      BY <1>2, <1>13 DEF f
    <2>2. QED
      BY <1>1, <1>3, <2>1, RerankKeeps
  <1>15. AskTypeOK'
    <2>1. corpora' \in Seq(Entry) /\ \A n \in DOMAIN corpora' : IsInjective(corpora'[n].chunks)
      BY <1>1, <1>7, RememberIs
    <2>2. wanted' \in [Threads -> SUBSET Items]
      BY <1>1 DEF AskInv, AskTypeOK
    <2>3. QED
      BY <1>1, <1>14, <2>1, <2>2 DEF AskInv, AskTypeOK
  <1>16. QED
    BY <1>14, <1>15, NextAsked

-----------------------------------------------------------------------------
(* Search of the corpora, and of the files *)

Chunk == [item : Items, text : Nat]

LEMMA ChunksAre ==
  ASSUME NEW s, NEW leaf \in Corpus(s), NEW allowed
  PROVE  /\ Chunks(leaf, allowed) \in Seq(Chunk)
         /\ \A x \in ToSet(Chunks(leaf, allowed)) : x.item \in Of(s) /\ x.item \in allowed
  <1> DEFINE here == {i \in DOMAIN leaf.text : leaf.text[i] # 0 /\ i \in allowed}
             r == SetToSeq(here)
             c == [n \in DOMAIN r |-> [item |-> r[n], text |-> leaf.text[r[n]]]]
  <1>1. DOMAIN leaf.text \subseteq Of(s) /\ Of(s) \subseteq Items
    BY Within
  <1>2. \A i \in DOMAIN leaf.text : leaf.text[i] \in Nat
    <2>1. leaf.text \in [Of(s) -> Nat] \/ leaf.text = None
      BY DEF Corpus
    <2>2. DOMAIN None = {}
      BY DEF None
    <2>3. QED
      BY <2>1, <2>2
  <1>3. IsFiniteSet(here)
    BY <1>1, RetrievalCachesAssumption, FS_Subset
  <1>4. r \in Seq(here)
    BY <1>3, SetToSeqIs
  <1>5. Chunks(leaf, allowed) = c
    BY DEF Chunks
  <1> HIDE DEF r
  <1>6. \A n \in DOMAIN r : r[n] \in here
    BY <1>4
  <1>7. \A n \in DOMAIN r : c[n] \in Chunk /\ c[n].item \in Of(s) /\ c[n].item \in allowed
    BY <1>1, <1>2, <1>6 DEF Chunk
  <1>8. Len(r) \in Nat /\ DOMAIN r = 1..Len(r)
    BY <1>4
  <1>9. c \in Seq(Chunk) /\ DOMAIN c = DOMAIN r
    BY <1>7, <1>8
  <1> HIDE DEF c
  <1>10. QED
    BY <1>5, <1>7, <1>9 DEF ToSet

LEMMA MixedIs ==
  ASSUME CachesInv, NEW t \in Threads, NEW a \in Request, a.scope = "mixed"
  PROVE  Divided(SearchCorpora(held[t], a))
  <1> DEFINE q == a.q
             pubs == Chunks(held[t]["mpub"], Policies)
             privs == Chunks(held[t]["mpriv"], a.picked)
             pub == Ranked(pubs, q.sparse, TopK)
             priv == Ranked(privs, q.sparse, TopK)
             score == ByItem(pub \o priv, q.sparse)
  <1>1. SearchCorpora(held[t], a) =
          [a |-> pub, b |-> priv, hits |-> Balanced(pub, priv, TopK, score)]
    BY DEF SearchCorpora, PublicSearch, PrivateSearch, MixedSearch
  <1>2. q.sparse \in [Items -> Nat] /\ TopK \in Nat
    BY RetrievalAssumption DEF Request
  <1>3. held[t]["mpub"] \in Corpus("mpub") /\ held[t]["mpriv"] \in Corpus("mpriv")
    BY Tables DEF CachesInv, CachesTypeOK
  <1>4. /\ pubs \in Seq(Chunk) /\ \A x \in ToSet(pubs) : x.item \in Policies
        /\ privs \in Seq(Chunk) /\ \A x \in ToSet(privs) : x.item \in Uploads
    BY <1>3, ChunksAre DEF Of
  <1>5. \A x \in ToSet(pubs) \cup ToSet(privs) : x.item \in Items
    BY <1>4 DEF Items
  <1> HIDE DEF q, pubs, privs
  <1>6. /\ pub \in Seq(Chunk) /\ ToSet(pub) \subseteq ToSet(pubs)
        /\ priv \in Seq(Chunk) /\ ToSet(priv) \subseteq ToSet(privs)
    BY <1>2, <1>4, <1>5, RankedIs
  <1> HIDE DEF pub, priv
  <1>7. \A x \in ToSet(pub) \cup ToSet(priv) : score[x] \in Score
    <2>1. ToSet(pub \o priv) = ToSet(pub) \cup ToSet(priv)
      BY <1>6, ConcatIs
    <2>2. QED
      BY <1>2, <1>5, <1>6, <2>1 DEF ByItem, Score
  <1> HIDE DEF score
  <1>8. /\ Len(Balanced(pub, priv, TopK, score)) = Least(TopK, Len(pub) + Len(priv))
        /\ OfSide(Balanced(pub, priv, TopK, score), Policies) >= Least(Len(pub), PublicQuota(TopK))
        /\ OfSide(Balanced(pub, priv, TopK, score), Uploads) >= Least(Len(priv), PrivateQuota(TopK))
    <2>1. \A x \in ToSet(pub) : x.item \in Policies
      BY <1>4, <1>6
    <2>2. \A x \in ToSet(priv) : x.item \in Uploads
      BY <1>4, <1>6
    <2>3. TopK \in Nat /\ pub \in Seq(Chunk) /\ priv \in Seq(Chunk)
      BY <1>2, <1>6
    <2>4. LET r == Balanced(pub, priv, TopK, score)
          IN  /\ r \in Seq(Chunk) /\ Len(r) = Least(TopK, Len(pub) + Len(priv))
              /\ OfSide(r, Policies) >= Least(Len(pub), PublicQuota(TopK))
              /\ OfSide(r, Uploads) >= Least(Len(priv), PrivateQuota(TopK))
      BY <1>7, <2>1, <2>2, <2>3, BalancedIs, Zenon
    <2>5. QED
      BY <2>4
  <1>9. QED
    BY <1>1, <1>8 DEF Divided

LEMMA CorporaStep ==
  ASSUME CachesInv, AskInv, NEW t \in Threads, RetrieveFromCorpora(t)
  PROVE  CachesInv' /\ AskInv'
  <1>1. /\ pc[t] = "tools" /\ todo[t] = <<>> /\ ~langchain
        /\ Rerank(t, SearchCorpora(held[t], ask[t]))
        /\ UNCHANGED <<item, cache, todo, held, about, spoiled, unsaid,
                       langchain, ask, rag, wanted, corpora, touched>>
    BY DEF RetrieveFromCorpora, Ready
  <1>2. ask[t] \in Request
    BY <1>1 DEF AskInv, Requested, Serving
  <1>3. ask[t].scope = "mixed" => Divided(SearchCorpora(held[t], ask[t]))
    BY <1>2, MixedIs
  <1>4. /\ CachesInv' /\ \A u \in Threads : Asked(u)'
        /\ found' = [u \in Threads |-> found'[u]] /\ shown' = [u \in Threads |-> shown'[u]]
    BY <1>1, <1>3, RerankKeeps
  <1>5. AskTypeOK'
    BY <1>1, <1>4 DEF AskInv, AskTypeOK
  <1>6. QED
    BY <1>4, <1>5, NextAsked

LEMMA StrategyStep ==
  ASSUME CachesInv, AskInv, NEW t \in Threads, RetrieveWithStrategy(t)
  PROVE  CachesInv' /\ AskInv'
  <1>1. /\ pc[t] = "tools" /\ todo[t] = <<>> /\ ask[t].tool # "ask"
        /\ \E f : Rerank(t, f)
        /\ UNCHANGED <<item, cache, todo, held, about, spoiled, unsaid,
                       langchain, ask, rag, wanted, corpora, touched>>
    BY DEF RetrieveWithStrategy, Ready
  <1>2. /\ CachesInv' /\ \A u \in Threads : Asked(u)'
        /\ found' = [u \in Threads |-> found'[u]] /\ shown' = [u \in Threads |-> shown'[u]]
    BY <1>1, RerankKeeps
  <1>3. AskTypeOK'
    BY <1>1, <1>2 DEF AskInv, AskTypeOK
  <1>4. QED
    BY <1>2, <1>3, NextAsked

\* The chunks of the chosen files.
LEMMA ListChunksAre ==
  ASSUME CachesInv, NEW files, files \subseteq Items
  PROVE  /\ IsFiniteSet(ListChunks(files))
         /\ \A c \in ListChunks(files) :
              c.item \in files /\ c = [item |-> c.item, text |-> Current(c.item)]
         /\ \A f \in files : item[f].on /\ item[f].ready =>
              [item |-> f, text |-> item[f].text] \in ListChunks(files)
  <1> DEFINE S == {g \in files : Current(g) # 0}
             g == [f \in S |-> [item |-> f, text |-> Current(f)]]
  <1>1. IsFiniteSet(S)
    BY RetrievalCachesAssumption, FS_Subset
  <1>2. ListChunks(files) = {g[f] : f \in S}
    BY DEF ListChunks
  <1>3. IsFiniteSet(ListChunks(files))
    <2>1. g \in Surjection(S, ListChunks(files))
      BY <1>2 DEF Surjection
    <2>2. QED
      BY <1>1, <2>1, FS_Surjection
  <1>4. \A f \in files : item[f].on /\ item[f].ready =>
          [item |-> f, text |-> item[f].text] \in ListChunks(files)
    BY CurrentIs DEF ListChunks
  <1>5. QED
    BY <1>3, <1>4 DEF ListChunks

LEMMA UploadHitsAre ==
  ASSUME CachesInv, NEW t \in Threads, NEW a \in Request
  PROVE  /\ \A x \in ToSet(UploadHits(held[t], a)) : x.item \in a.files
         /\ (\E f \in a.files : item[f].on /\ item[f].ready) => ToSet(UploadHits(held[t], a)) # {}
  <1> DEFINE chunks == Chunks(held[t]["private"], a.files)
             hits == Ranked(chunks, a.q.sparse, 12)
             L == ListChunks(a.files)
  <1>1. UploadHits(held[t], a) = IF hits # <<>> THEN hits ELSE SetToSeq(L)
    BY DEF UploadHits, PrivateSearch
  <1>2. held[t]["private"] \in Corpus("private")
    BY Tables DEF CachesInv, CachesTypeOK
  <1>3. /\ chunks \in Seq(Chunk)
        /\ \A x \in ToSet(chunks) : x.item \in Of("private") /\ x.item \in a.files
    BY <1>2, ChunksAre
  <1>4. a.q.sparse \in [Items -> Nat] /\ a.files \subseteq Items
    BY DEF Request
  <1>5. \A x \in ToSet(chunks) : x.item \in Items
    BY <1>3, <1>4
  <1> HIDE DEF chunks
  <1>6. hits \in Seq(Chunk) /\ ToSet(hits) \subseteq ToSet(chunks)
    BY <1>3, <1>4, <1>5, RankedIs
  <1>7. /\ IsFiniteSet(L) /\ \A c \in L : c.item \in a.files
        /\ (\E f \in a.files : item[f].on /\ item[f].ready) => L # {}
    BY <1>4, ListChunksAre
  <1> HIDE DEF hits, L
  <1>8. ToSet(SetToSeq(L)) = L
    BY <1>7, SetToSeqIs
  <1>9. hits # <<>> => ToSet(hits) # {}
    <2> SUFFICES ASSUME hits # <<>> PROVE ToSet(hits) # {}
      OBVIOUS
    <2>1. 1 \in DOMAIN hits
      BY <1>6, TailIs
    <2>2. QED
      BY <2>1 DEF ToSet
  <1>10. QED
    BY <1>1, <1>3, <1>6, <1>7, <1>8, <1>9

LEMMA FilesStep ==
  ASSUME CachesInv, AskInv, NEW t \in Threads, SessionFileSearch(t)
  PROVE  CachesInv' /\ AskInv'
  <1> DEFINE hits == UploadHits(held[t], ask[t])
             new == Evidence("upload", ToSet(hits))
  <1>1. /\ pc[t] = "files" /\ pc' = [pc EXCEPT ![t] = "overview"]
        /\ shown' = [shown EXCEPT ![t] = @ \cup new] /\ found' = [found EXCEPT ![t] = NotYet]
        /\ UNCHANGED <<item, cache, todo, held, about, spoiled, unsaid,
                       langchain, ask, rag, wanted, corpora, touched>>
    BY DEF SessionFileSearch, Goes
  <1>2. ask[t] \in Request /\ ask[t].tool = "ask"
    BY <1>1 DEF AskInv, Requested, Serving
  <1>3. todo[t] = <<>>
    BY <1>1 DEF CachesInv, Ordered
  <1>4. CachesInv' /\ Others(t)
    BY <1>1, <1>3, ServeStep DEF Serving
  <1>5. /\ \A x \in ToSet(hits) : x.item \in ask[t].files
        /\ (\E f \in ask[t].files : item[f].on /\ item[f].ready) => ToSet(hits) # {}
    BY <1>2, UploadHitsAre
  <1> HIDE DEF hits
  <1>6. /\ \A e \in new : e.as = "upload" /\ e.item \in ask[t].files
        /\ ToSet(hits) # {} => new # {}
    <2>1. new = {[as |-> "upload", item |-> c.item, text |-> c.text] : c \in ToSet(hits)}
      BY DEF Evidence
    <2> HIDE DEF new
    <2>2. \A e \in new : e.as = "upload" /\ e.item \in ask[t].files
      BY <1>5, <2>1
    <2>3. ToSet(hits) # {} => new # {}
      BY <2>1
    <2>4. QED
      BY <2>2, <2>3
  <1>7. /\ \A f \in ask[t].files \ touched[t] : item[f].ready
        /\ \A e \in shown[t] : e.as # "overview"
    BY <1>1 DEF AskInv, Uploaded, Serving
  <1> HIDE DEF new
  <1>8. pc'[t] = "overview" /\ shown'[t] = shown[t] \cup new /\ found'[t] = NotYet
    BY <1>1 DEF CachesInv, CachesTypeOK, AskInv, AskTypeOK
  <1>9. Asked(t)'
    <2>1. Requested(t)'
      BY <1>1, <1>2, <1>8 DEF Requested, Serving
    <2>2. Uploaded(t)'
      <3>1. \A e \in shown'[t] : e.as # "overview"
        BY <1>6, <1>7, <1>8
      <3>2. Chosen(t)' # {} => \E e \in shown'[t] : e.as = "upload" /\ e.item \in ask'[t].files
        <4> SUFFICES ASSUME Chosen(t)' # {} PROVE new # {}
          BY <1>1, <1>6, <1>8
        <4>1. \E f \in ask[t].files : item[f].on /\ item[f].ready
          BY <1>1, <1>7 DEF Chosen
        <4>2. QED
          BY <1>5, <1>6, <4>1
      <3>3. QED
        BY <1>1, <1>7, <1>8, <3>1, <3>2 DEF Uploaded
    <2>3. Prompted(t)'
      BY <1>8 DEF Prompted
    <2>4. Fused(t)' /\ Shared(t)'
      BY <1>8, NotYetIs DEF Fused, Shared, Fair, Divided
    <2>5. QED
      BY <2>1, <2>2, <2>3, <2>4 DEF Asked
  <1>10. AskTypeOK'
    BY <1>1 DEF AskInv, AskTypeOK
  <1>11. \A u \in Threads \ {t} : /\ ask'[u] = ask[u] /\ found'[u] = found[u]
                                  /\ shown'[u] = shown[u] /\ touched'[u] = touched[u]
    BY <1>1 DEF AskInv, AskTypeOK
  <1>12. QED
    BY <1>1, <1>4, <1>9, <1>10, <1>11, OthersAsk, NextAsked

\* There are as many overviews as places for them, or all there can be.
LEMMA OverviewsAre ==
  ASSUME CachesInv, NEW a \in Request
  PROVE  LET seen == Evidence("overview", Overviews(a))
         IN  \/ Cardinality(seen) = MaxFiles
             \/ \A f \in a.files : item[f].on /\ item[f].ready =>
                  [as |-> "overview", item |-> f, text |-> item[f].text] \in seen
  <1> DEFINE L == ListChunks(a.files)
             s == SetToSeq(L)
             r == First(s, MaxFiles)
             seen == Evidence("overview", ToSet(r))
  <1>1. a.files \subseteq Items
    BY DEF Request
  <1>2. /\ IsFiniteSet(L)
        /\ \A c \in L : c.item \in a.files /\ c = [item |-> c.item, text |-> Current(c.item)]
        /\ \A f \in a.files : item[f].on /\ item[f].ready =>
             [item |-> f, text |-> item[f].text] \in L
    BY <1>1, ListChunksAre
  <1> HIDE DEF L
  <1>3. s \in Seq(L) /\ Len(s) = Cardinality(L) /\ ToSet(s) = L /\ IsInjective(s)
    BY <1>2, SetToSeqIs
  <1> HIDE DEF s
  <1>4. MaxFiles \in Nat
    BY RetrievalAssumption
  <1>5. /\ r \in Seq(L) /\ Len(r) = (IF MaxFiles < Len(s) THEN MaxFiles ELSE Len(s))
        /\ \A i \in DOMAIN r : i \in DOMAIN s /\ r[i] = s[i]
        /\ IsInjective(s) => IsInjective(r)
    BY <1>3, <1>4, FirstIs
  <1>6. Overviews(a) = ToSet(r)
    BY DEF Overviews, L, s
  <1> HIDE DEF r
  <1>7. CASE MaxFiles < Len(s)
    <2> DEFINE g == [n \in 1..MaxFiles |->
                       [as |-> "overview", item |-> r[n].item, text |-> r[n].text]]
    <2>1. Len(r) = MaxFiles /\ DOMAIN r = 1..MaxFiles
      BY <1>4, <1>5, <1>7
    <2>2. seen = {g[n] : n \in 1..MaxFiles}
      BY <2>1 DEF Evidence, ToSet
    <2>3. ASSUME NEW m \in 1..MaxFiles, NEW n \in 1..MaxFiles, g[m] = g[n] PROVE m = n
      <3>1. r[m].item = r[n].item
        BY <2>3
      <3>2. r[m] \in L /\ r[n] \in L
        BY <1>5, <2>1
      <3>3. r[m] = r[n]
        BY <1>2, <3>1, <3>2
      <3>4. QED
        BY <1>3, <1>5, <2>1, <3>3 DEF IsInjective
    <2> HIDE DEF g
    <2>4. g \in [1..MaxFiles -> seen]
      BY <2>2 DEF g
    <2>5. g \in Bijection(1..MaxFiles, seen)
      BY <2>2, <2>3, <2>4 DEF Bijection, Injection, Surjection, IsInjective
    <2>6. IsFiniteSet(1..MaxFiles) /\ Cardinality(1..MaxFiles) = MaxFiles
      BY <1>4, FS_Interval
    <2>7. Cardinality(seen) = MaxFiles
      BY <2>5, <2>6, FS_Bijection DEF ExistsBijection
    <2>8. QED
      BY <1>6, <2>7
  <1>8. CASE ~(MaxFiles < Len(s))
    <2>1. Len(r) = Len(s) /\ DOMAIN r = DOMAIN s
      BY <1>3, <1>5, <1>8
    <2>2. ToSet(r) = L
      BY <1>3, <1>5, <2>1 DEF ToSet
    <2>3. ASSUME NEW f \in a.files, item[f].on /\ item[f].ready
          PROVE  [as |-> "overview", item |-> f, text |-> item[f].text] \in seen
      <3> DEFINE c == [item |-> f, text |-> item[f].text]
      <3>1. c \in ToSet(r) /\ c.item = f /\ c.text = item[f].text
        BY <1>2, <2>2, <2>3
      <3>2. QED
        BY <3>1 DEF Evidence
    <2>4. QED
      BY <1>6, <2>3
  <1>9. QED
    BY <1>7, <1>8

LEMMA OverviewStep ==
  ASSUME CachesInv, AskInv, NEW t \in Threads, BuildFileOverviews(t)
  PROVE  CachesInv' /\ AskInv'
  <1> DEFINE new == Evidence("overview", Overviews(ask[t]))
  <1>1. /\ pc[t] = "overview" /\ pc' = [pc EXCEPT ![t] = "prompt"]
        /\ shown' = [shown EXCEPT ![t] = @ \cup new]
        /\ UNCHANGED <<item, cache, todo, held, about, spoiled, unsaid,
                       langchain, ask, rag, wanted, corpora, found, touched>>
    BY DEF BuildFileOverviews, Goes
  <1>2. ask[t] \in Request /\ ask[t].tool = "ask" /\ found[t] = NotYet
    BY <1>1 DEF AskInv, Requested, Serving
  <1>3. todo[t] = <<>>
    BY <1>1 DEF CachesInv, Ordered
  <1>4. CachesInv' /\ Others(t)
    BY <1>1, <1>3, ServeStep DEF Serving
  <1>5. /\ \A f \in ask[t].files \ touched[t] : item[f].ready
        /\ \A e \in shown[t] : e.as # "overview"
        /\ Chosen(t) # {} => \E e \in shown[t] : e.as = "upload" /\ e.item \in ask[t].files
    BY <1>1 DEF AskInv, Uploaded, Serving
  <1>6. \A e \in new : e.as = "overview"
    BY DEF Evidence
  <1>7. \/ Cardinality(new) = MaxFiles
        \/ \A f \in ask[t].files : item[f].on /\ item[f].ready =>
             [as |-> "overview", item |-> f, text |-> item[f].text] \in new
    BY <1>2, OverviewsAre
  <1> HIDE DEF new
  <1>8. pc'[t] = "prompt" /\ shown'[t] = shown[t] \cup new
    BY <1>1 DEF CachesInv, CachesTypeOK, AskInv, AskTypeOK
  <1>9. Asked(t)'
    <2>1. Requested(t)'
      BY <1>1, <1>2, <1>8 DEF Requested, Serving
    <2>2. Uploaded(t)'
      BY <1>1, <1>5, <1>8 DEF Uploaded
    <2>3. Prompted(t)'
      <3>1. Overviewed(t)' = new
        BY <1>5, <1>6, <1>8 DEF Overviewed
      <3>2. /\ Chosen(t)' = Chosen(t)
            /\ \A f \in Chosen(t) : f \in ask[t].files /\ item[f].on /\ item[f].ready
        BY <1>1, <1>5 DEF Chosen
      <3>3. \/ Cardinality(Overviewed(t)') = MaxFiles
            \/ \A f \in Chosen(t)' :
                 [as |-> "overview", item |-> f, text |-> item'[f].text] \in Overviewed(t)'
        BY <1>1, <1>7, <3>1, <3>2
      <3>4. Chosen(t)' # {} => \E e \in shown'[t] : e.as = "upload" /\ e.item \in ask'[t].files
        BY <1>1, <1>5, <1>8, <3>2
      <3>5. QED
        BY <3>3, <3>4 DEF Prompted
    <2>4. Fused(t)' /\ Shared(t)'
      BY <1>1, <1>2, NotYetIs DEF Fused, Shared, Fair, Divided
    <2>5. QED
      BY <2>1, <2>2, <2>3, <2>4 DEF Asked
  <1>10. AskTypeOK'
    BY <1>1 DEF AskInv, AskTypeOK
  <1>11. \A u \in Threads \ {t} : /\ ask'[u] = ask[u] /\ found'[u] = found[u]
                                  /\ shown'[u] = shown[u] /\ touched'[u] = touched[u]
    BY <1>1 DEF AskInv, AskTypeOK
  <1>12. QED
    BY <1>1, <1>4, <1>9, <1>10, <1>11, OthersAsk, NextAsked

LEMMA AnswerStep ==
  ASSUME CachesInv, AskInv, NEW t \in Threads, Answer(t)
  PROVE  CachesInv' /\ AskInv'
  <1>1. /\ pc[t] = "prompt" /\ pc' = [pc EXCEPT ![t] = "idle"]
        /\ ask' = [ask EXCEPT ![t] = NoAsk] /\ held' = [held EXCEPT ![t] = Nothing]
        /\ found' = [found EXCEPT ![t] = NotYet]
        /\ shown' = [shown EXCEPT ![t] = {}] /\ touched' = [touched EXCEPT ![t] = {}]
        /\ UNCHANGED <<item, cache, todo, about, spoiled, unsaid, langchain, rag, wanted, corpora>>
    BY DEF Answer, Goes
  <1>2. todo[t] = <<>>
    BY <1>1 DEF CachesInv, Ordered
  <1>3. CachesInv' /\ Others(t)
    BY <1>1, <1>2, ServeStep DEF Serving
  <1>4. /\ pc'[t] = "idle" /\ ask'[t] = NoAsk /\ found'[t] = NotYet /\ shown'[t] = {}
        /\ touched'[t] = {}
    BY <1>1 DEF CachesInv, CachesTypeOK, AskInv, AskTypeOK
  <1>5. Asked(t)'
    <2>1. Requested(t)'
      BY <1>4 DEF Requested, Serving
    <2>2. Uploaded(t)'
      BY <1>4 DEF Uploaded, Serving
    <2>3. Prompted(t)'
      BY <1>4 DEF Prompted
    <2>4. Fused(t)' /\ Shared(t)'
      BY <1>4 DEF NoAsk, Fused, Shared
    <2>5. QED
      BY <2>1, <2>2, <2>3, <2>4 DEF Asked
  <1>6. AskTypeOK'
    BY <1>1 DEF AskInv, AskTypeOK
  <1>7. \A u \in Threads \ {t} : /\ ask'[u] = ask[u] /\ found'[u] = found[u]
                                 /\ shown'[u] = shown[u] /\ touched'[u] = touched[u]
    BY <1>1 DEF AskInv, AskTypeOK
  <1>8. QED
    BY <1>1, <1>3, <1>5, <1>6, <1>7, OthersAsk, NextAsked

-----------------------------------------------------------------------------
(* The theorems *)

LEMMA Starts == ASSUME Init PROVE RetrievalInv
  <1> USE DEF Init, CachesInit
  <1>1. CachesTypeOK
    <2>1. \A i \in Items : item[i] \in ItemRow
      BY RetrievalCachesAssumption DEF ItemRow
    <2>2. \A s \in Slot : Nothing[s] \in Corpus(s)
      BY DEF Nothing, Unread, Corpus
    <2>3. /\ item \in [Items -> ItemRow] /\ pc \in [Threads -> Place]
          /\ about \in [Threads -> Items \cup {Nobody}]
          /\ spoiled \in [Threads -> SUBSET Caches] /\ unsaid \subseteq Items
      BY <2>1 DEF Place
    <2>4. todo \in [Threads -> Seq(Build \cup Clearing)]
      OBVIOUS
    <2>5. held = [t \in Threads |-> [s \in Slot |-> held[t][s]]]
      BY DEF Nothing
    <2>6. \A t \in Threads, s \in Slot : held[t][s] \in Corpus(s)
      BY <2>2
    <2>7. QED
      BY <2>3, <2>4, <2>5, <2>6 DEF CachesTypeOK
  <1>2. \A t \in Threads : Ordered(t) /\ Keeps(t)
    BY DEF Ordered, Keeps
  <1>3. CachesAreCurrent
    BY DEF CachesAreCurrent
  <1>4. AskTypeOK
    BY FS_EmptySet DEF AskTypeOK
  <1>5. ASSUME NEW t \in Threads PROVE Asked(t)
    <2>1. Requested(t) /\ Uploaded(t)
      BY DEF Requested, Uploaded, Serving
    <2>2. Prompted(t) /\ Fused(t) /\ Shared(t)
      BY DEF Prompted, Fused, Shared, NoAsk
    <2>3. QED
      BY <2>1, <2>2 DEF Asked
  <1>6. QED
    BY <1>1, <1>2, <1>3, <1>4, <1>5, AskedIs DEF RetrievalInv, CachesInv

LEMMA Steps == ASSUME RetrievalInv, [Next]_vars PROVE RetrievalInv'
  <1> USE DEF RetrievalInv
  <1>1. CASE UNCHANGED vars
    <2>1. UNCHANGED cacheVars /\ UNCHANGED askVars
      BY <1>1 DEF vars
    <2>2. CachesInv'
      <3>1. CachesTypeOK' /\ \A t \in Threads : Ordered(t)'
        BY <2>1 DEF cacheVars, CachesInv, CachesTypeOK, Ordered, Clear
      <3>2. \A c \in Caches : Told(c)
        BY <2>1 DEF cacheVars, Told, Owed, OwedNext, Current, CurrentNext
      <3>3. UNCHANGED <<cache, todo, held, spoiled>>
        BY <2>1 DEF cacheVars
      <3>4. QED
        BY <3>1, <3>2, <3>3, CachesAside
    <2>3. AskTypeOK'
      BY <2>1 DEF askVars, AskInv, AskTypeOK
    <2>4. ASSUME NEW u \in Threads PROVE Asked(u)'
      BY <2>1, AskedIs, AskedAside DEF askVars, cacheVars
    <2>5. QED
      BY <2>2, <2>3, <2>4, NextAsked
  <1>2. ASSUME NEW t \in Threads, CachesStep(t), UNCHANGED askVars PROVE RetrievalInv'
    <2>1. CachesInv'
      BY <1>2, GetStep, StartStep, KeepStep, ClearStep DEF CachesStep
    <2>2. QED
      BY <1>2, <2>1, CachesKeepAsks
  <1>3. ASSUME NEW t \in Threads, Change(t), Touch,
               UNCHANGED <<langchain, ask, rag, wanted, corpora, found, shown, asks>>
        PROVE  RetrievalInv'
    <2>1. Changing \subseteq Items
      BY RetrievalCachesAssumption
    <2>2. CachesInv'
      BY <1>3, <2>1, BeginStep, UpdateStep, ReplaceStep, FinishStep, FailStep DEF Change
    <2>3. QED
      BY <1>3, <2>2, ChangeKeepsAsks
  <1>4. QED
    BY <1>1, <1>2, <1>3, RequestStep, SelectStep, ItemStep, CreateStep, SearchStep, CorporaStep,
       StrategyStep, FilesStep, OverviewStep, AnswerStep DEF Next

LEMMA Always == Spec => []RetrievalInv
  <1>1. Init => RetrievalInv
    BY Starts
  <1>2. RetrievalInv /\ [Next]_vars => RetrievalInv'
    BY Steps
  <1>3. QED
    BY <1>1, <1>2, PTL DEF Spec

\* Spec => []: every variable stays what the code can put into it, and a request is
\* there exactly while a thread serves one.
THEOREM RetrievalTyped == Spec => [](CachesTypeOK /\ AskTypeOK /\ \A t \in Threads : Requested(t))
  <1>1. RetrievalInv => CachesTypeOK /\ AskTypeOK /\ \A t \in Threads : Requested(t)
    BY DEF RetrievalInv, CachesInv, AskInv
  <1>2. QED
    BY <1>1, Always, PTL

\* A corpus that a retriever keeps agrees with the library on every item whose changes
\* the caches are told of, but for what is still to be cleared and for a build that a
\* clear fell into: private_retriever.py's lru_caches and the tasks that clear them.
THEOREM CachesCurrent == Spec => []CachesAreCurrent
  <1>1. RetrievalInv => CachesAreCurrent
    BY DEF RetrievalInv, CachesInv
  <1>2. QED
    BY <1>1, Always, PTL

\* A chosen upload that nobody touched since the request was built is in the prompt with
\* its text as it is, as far as there are places for overviews, however old the corpora.
THEOREM UploadsShown == Spec => []UploadsAreShown
  <1>1. RetrievalInv => UploadsAreShown
    BY DEF RetrievalInv, AskInv
  <1>2. QED
    BY <1>1, Always, PTL

\* Reciprocal rank fusion puts a chunk before another that is nowhere above it, whatever
\* corpora were cached and whatever the lists hold.
THEOREM FusionFair == Spec => []FusionIsFair
  <1>1. RetrievalInv => FusionIsFair
    BY DEF RetrievalInv, AskInv
  <1>2. QED
    BY <1>1, Always, PTL

\* A mixed search fills its places as far as there are hits, and neither side loses its
\* own to the other.
THEOREM MixedShares == Spec => []MixedSharesPlaces
  <1>1. RetrievalInv => MixedSharesPlaces
    BY DEF RetrievalInv, AskInv
  <1>2. QED
    BY <1>1, Always, PTL
================================================================================
