------------------------------ MODULE RankFusion ------------------------------
(* How lists of hits are put in order and merged: the sorts of the retrievers,  *)
(* reciprocal rank fusion of the sparse and the dense list, and the places a    *)
(* mixed search gives to public and to private hits.                            *)
EXTENDS Naturals, Sequences, FiniteSets, SequencesExt

First(s, n) == SubSeq(s, 1, IF n < Len(s) THEN n ELSE Len(s))

\* The n-th of those that a function ranks by who comes before each.
Nth(before, n) == CHOOSE i \in DOMAIN before : Cardinality(before[i]) = n - 1

\* Those of a list that are in a set, as they come.
Only(s, S) ==
  LET places == {i \in DOMAIN s : s[i] \in S}
      before == [i \in places |-> {j \in places : j < i}]
  IN  [n \in 1..Cardinality(places) |-> s[Nth(before, n)]]

(* Python's sort with reverse=True: best first, equal ones as they were.  A     *)
(* score is a fraction.                                                         *)
Better(p, q) == p[1] * q[2] > q[1] * p[2]
Ahead(s, score) ==
  LET p(i) == score[s[i]]
  IN  [i \in DOMAIN s |->
         {j \in DOMAIN s : Better(p(j), p(i)) \/ (j < i /\ ~Better(p(i), p(j)))}]
BestFirst(s, score) ==
  LET before == Ahead(s, score)
  IN  [n \in DOMAIN s |-> s[Nth(before, n)]]

RankIn(s, x) == CHOOSE i \in DOMAIN s : s[i] = x

(* One record per chunk, the sparse ones first; a list adds 1 / (60 + rank).    *)
K == 60
RankScore(sparse, dense, x) ==
  LET a == K + RankIn(sparse, x)
      b == K + RankIn(dense, x)
  IN  CASE x \notin ToSet(dense) -> <<1, a>>
        [] x \notin ToSet(sparse) -> <<1, b>>
        [] OTHER -> <<a + b, a * b>>
\* Mutant of MergeWithRrf: the sort is left ascending.
MergeWorstFirst(sparse, dense) ==
  LET records == sparse \o Only(dense, ToSet(dense) \ ToSet(sparse))
  IN  Reverse(BestFirst(records, [x \in ToSet(records) |-> RankScore(sparse, dense, x)]))
MergeWithRrf(sparse, dense) ==
  LET records == sparse \o Only(dense, ToSet(dense) \ ToSet(sparse))
  IN  BestFirst(records, [x \in ToSet(records) |-> RankScore(sparse, dense, x)])

(* A mixed search: the odd place is public, places one side cannot fill go to   *)
(* the best of what is left, and the hits are sorted again.                     *)
PublicQuota(k) == (k + 1) \div 2
PrivateQuota(k) == k \div 2
Rest(s, n) == SubSeq(s, n + 1, Len(s))
Balanced(public, private, k, score) ==
  LET chosen == First(public, PublicQuota(k)) \o First(private, PrivateQuota(k))
      rest == Rest(public, PublicQuota(k)) \o Rest(private, PrivateQuota(k))
      refill == First(BestFirst(rest, score), k - Len(chosen))
  IN  First(BestFirst(chosen \o refill, score), k)

(* The strategies of the engine: a chunk's score is the mean of its normalised  *)
(* scores over the retrievers that found it (the keyword one alone when there   *)
(* is no vector store).                                                         *)
Normalised(score, s) ==
  LET best == {score[x] : x \in ToSet(s)}
  IN  [x \in ToSet(s) |-> <<score[x], CHOOSE m \in best : \A n \in best : n <= m>>]
Mean(p, q) == <<p[1] * q[2] + q[1] * p[2], 2 * p[2] * q[2]>>
MergeChunks(bm25, vector, bm25Score, vectorScore, k) ==
  LET records == bm25 \o Only(vector, ToSet(vector) \ ToSet(bm25))
      a == Normalised(bm25Score, bm25)
      b == Normalised(vectorScore, vector)
      score == [x \in ToSet(records) |->
                  CASE x \notin ToSet(vector) -> a[x]
                    [] x \notin ToSet(bm25) -> b[x]
                    [] OTHER -> Mean(a[x], b[x])]
  IN  First(BestFirst(records, score), k)
================================================================================
