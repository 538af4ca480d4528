--------------------------- MODULE ReportsProofs ---------------------------
(* Theorems about Reports: an import of factors, and the calculations and     *)
(* reports made from them, for every number of sessions, threads and factors, *)
(* whatever the rows, the snapshots and the bounds.                           *)
(*                                                                            *)
(* TypeInv is inductive: the types, with what is left of an import (Writing)  *)
(* and what a request has gathered (Requests).  Each of the other theorems    *)
(* strengthens it by what its property needs of the earlier steps.            *)
EXTENDS Reports, SequenceTheorems, FiniteSetTheorems, NaturalsInduction, WellFoundedInduction, TLAPS
-----------------------------------------------------------------------------
(* Induction over the natural numbers, for a set of counterexamples *)

LEMMA NoCounterexample ==
  ASSUME NEW T, T \subseteq Nat, 0 \notin T, \A n \in Nat : n + 1 \in T => n \in T
  PROVE  T = {}
  <1> SUFFICES ASSUME T # {} PROVE FALSE
    OBVIOUS
  <1>1. PICK x \in T : \A y \in T : ~(<<y, x>> \in OpToRel(<, Nat))
    BY NatLessThanWellFounded, WFMin
  <1>2. x \in Nat /\ x # 0
    OBVIOUS
  <1>3. x - 1 \in Nat /\ (x - 1) + 1 = x /\ x - 1 < x
    BY <1>2
  <1>4. x - 1 \in T
    BY <1>3
  <1>5. <<x - 1, x>> \in OpToRel(<, Nat)
    BY <1>2, <1>3 DEF OpToRel
  <1>6. QED
    BY <1>1, <1>4, <1>5

-----------------------------------------------------------------------------
(* Loops *)

\* A loop whose turns stay in a set runs, and stays in it.
Turns(step, N, Acc) == \A i \in 1..N : \A a \in Acc : step[i][a] \in Acc
Runs(f, base, step, N) == f[0] = base /\ \A i \in 1..N : f[i] = step[i][f[i - 1]]

LEMMA LoopRuns ==
  ASSUME NEW N \in Nat, NEW Acc, NEW base \in Acc, NEW step, Turns(step, N, Acc)
  PROVE  \E f \in [0..N -> Acc] : Runs(f, base, step, N)
  <1> DEFINE Loop(f, n) == [i \in 0..n |-> IF i = 0 THEN base ELSE step[i][f[i - 1]]]
             T == {n \in Nat : n <= N /\ ~ \E f \in [0..n -> Acc] : f = Loop(f, n)}
  <1>1. 0 \notin T
    <2> DEFINE f == [i \in 0..0 |-> base]
    <2>1. f \in [0..0 -> Acc] /\ f = Loop(f, 0)
      OBVIOUS
    <2>2. QED
      BY <2>1
  <1>2. ASSUME NEW n \in Nat, n + 1 \in T
        PROVE  n \in T
    <2> SUFFICES ASSUME NEW f \in [0..n -> Acc], f = Loop(f, n) PROVE FALSE
      BY <1>2
    <2>0. n + 1 \in 1..N /\ n \in 0..n
      BY <1>2
    <2> DEFINE g == [i \in 0..(n + 1) |-> IF i <= n THEN f[i] ELSE step[n + 1][f[n]]]
    <2>1. g \in [0..(n + 1) -> Acc]
      <3>1. step[n + 1][f[n]] \in Acc
        BY <2>0 DEF Turns
      <3>2. ASSUME NEW i \in 0..(n + 1), i <= n PROVE f[i] \in Acc
        <4>1. i \in 0..n
          BY <3>2
        <4>2. QED
          BY <4>1
      <3>3. QED
        BY <3>1, <3>2
    <2>2. ASSUME NEW i \in 0..(n + 1)
          PROVE  g[i] = Loop(g, n + 1)[i]
      <3>1. CASE i = 0
        <4>1. 0 \in 0..n /\ f[0] = base
          OBVIOUS
        <4>2. QED
          BY <3>1, <4>1
      <3>2. CASE i # 0 /\ i <= n
        <4>1. i - 1 \in 0..(n + 1) /\ i - 1 <= n /\ i \in 0..n
          BY <3>2
        <4>2. g[i - 1] = f[i - 1] /\ g[i] = f[i]
          BY <3>2, <4>1
        <4>3. f[i] = step[i][f[i - 1]]
          BY <3>2, <4>1
        <4>4. QED
          BY <3>2, <4>2, <4>3
      <3>3. CASE i = n + 1
        BY <3>3
      <3>4. i = 0 \/ (i # 0 /\ i <= n) \/ i = n + 1
        OBVIOUS
      <3> HIDE DEF g, Loop
      <3>5. QED
        BY <3>1, <3>2, <3>3, <3>4
    <2>3. g = Loop(g, n + 1)
      <3>1. DOMAIN g = 0..(n + 1)
        OBVIOUS
      <3>2. g = [i \in 0..(n + 1) |-> g[i]]
        OBVIOUS
      <3> HIDE DEF g
      <3>3. QED
        BY <2>2, <3>1, <3>2
    <2>4. QED
      <3> HIDE DEF g
      <3>1. QED
        BY <1>2, <2>1, <2>3
  <1>3. T = {}
    <2>1. T \subseteq Nat
      OBVIOUS
    <2> HIDE DEF T
    <2>2. QED
      BY <1>1, <1>2, <2>1, NoCounterexample
  <1>4. PICK f \in [0..N -> Acc] : f = Loop(f, N)
    BY <1>3
  <1>5. f[0] = base
    BY <1>4
  <1>6. ASSUME NEW i \in 1..N PROVE f[i] = step[i][f[i - 1]]
    BY <1>4
  <1>7. QED
    BY <1>5, <1>6 DEF Runs

LEMMA LoopStays ==
  ASSUME NEW N \in Nat, NEW Acc, NEW g, g[0] \in Acc,
         \A i \in 1..N : g[i - 1] \in Acc => g[i] \in Acc
  PROVE  \A i \in 0..N : g[i] \in Acc
  <1> DEFINE T == {n \in Nat : n <= N /\ g[n] \notin Acc}
  <1>1. 0 \notin T
    OBVIOUS
  <1>2. ASSUME NEW n \in Nat, n + 1 \in T
        PROVE  n \in T
    <2>1. n + 1 \in 1..N /\ (n + 1) - 1 = n /\ n <= N
      BY <1>2
    <2>2. g[n] \notin Acc
      BY <1>2, <2>1
    <2>3. QED
      BY <2>1, <2>2
  <1>3. T = {}
    <2>1. T \subseteq Nat
      OBVIOUS
    <2> HIDE DEF T
    <2>2. QED
      BY <1>1, <1>2, <2>1, NoCounterexample
  <1>4. QED
    BY <1>3

\* A loop that keeps the values of some places of a sequence.
Kept(f, N, kept, value) ==
  f = [i \in 0..N |-> IF i = 0 THEN <<>>
                      ELSE IF i \in kept THEN Append(f[i - 1], value[i]) ELSE f[i - 1]]

LEMMA KeptRuns ==
  ASSUME NEW N \in Nat, NEW S, NEW kept, NEW value, \A i \in 1..N : value[i] \in S
  PROVE  \E f : Kept(f, N, kept, value)
  <1> DEFINE F == Seq(S)
             Turn(i, b) == IF i \in kept THEN Append(b, value[i]) ELSE b
             step == [i \in 1..N |-> [b \in F |-> Turn(i, b)]]
  <1>1. ASSUME NEW i \in 1..N, NEW b \in F
        PROVE  Turn(i, b) \in F
    BY AppendProperties
  <1>2. <<>> \in F
    OBVIOUS
  <1> HIDE DEF Turn, F
  <1>3. Turns(step, N, F)
    BY <1>1 DEF Turns
  <1>4. ASSUME NEW i \in 1..N, NEW b \in F
        PROVE  step[i][b] = Turn(i, b)
    OBVIOUS
  <1> HIDE DEF step
  <1>5. PICK f \in [0..N -> F] : Runs(f, <<>>, step, N)
    BY <1>2, <1>3, LoopRuns, Zenon
  <1>6. f[0] = <<>> /\ \A i \in 1..N : f[i] = step[i][f[i - 1]]
    BY <1>5 DEF Runs
  <1>7. ASSUME NEW i \in 0..N
        PROVE  f[i] = IF i = 0 THEN <<>> ELSE Turn(i, f[i - 1])
    <2>1. i = 0 \/ (i \in 1..N /\ i # 0 /\ i - 1 \in 0..N)
      OBVIOUS
    <2>2. i \in 1..N => f[i - 1] \in F
      BY <2>1
    <2>3. QED
      BY <1>4, <1>6, <2>1, <2>2
  <1>8. f = [i \in 0..N |-> IF i = 0 THEN <<>> ELSE Turn(i, f[i - 1])]
    BY <1>7
  <1>9. QED
    BY <1>8 DEF Turn, Kept

\* Such a loop, place by place.
LEMMA KeptIs ==
  ASSUME NEW N \in Nat, NEW kept, NEW value, NEW f, Kept(f, N, kept, value)
  PROVE  /\ f[0] = <<>>
         /\ \A i \in 0..(N - 1) : f[i + 1] = IF i + 1 \in kept THEN Append(f[i], value[i + 1]) ELSE f[i]
  <1>1. f[0] = <<>>
    BY DEF Kept
  <1>2. ASSUME NEW i \in 0..(N - 1)
        PROVE  f[i + 1] = IF i + 1 \in kept THEN Append(f[i], value[i + 1]) ELSE f[i]
    <2>1. i + 1 \in 0..N /\ i + 1 # 0 /\ (i + 1) - 1 = i
      OBVIOUS
    <2>2. QED
      BY <2>1 DEF Kept
  <1>3. QED
    BY <1>1, <1>2

-----------------------------------------------------------------------------
(* The plan of an import *)

\* The loop over the rows of a snapshot ends with the readable ones, each of them.
LEMMA NormalizedRowsAre ==
  ASSUME NEW S, NEW rows \in Seq(S)
  PROVE  /\ NormalizedRows(rows) \in Seq(S \cap Readable)
         /\ \A i \in 1..Len(rows) : rows[i] \in Readable =>
              \E k \in 1..Len(NormalizedRows(rows)) : NormalizedRows(rows)[k] = rows[i]
  <1> DEFINE N == Len(rows)
             ready == {i \in 1..N : rows[i] \in Readable}
             Loop(f) == [i \in 0..N |-> IF i = 0 THEN <<>>
                                        ELSE IF rows[i] \in Readable THEN Append(f[i - 1], rows[i])
                                        ELSE f[i - 1]]
             kept == CHOOSE f : f = Loop(f)
  <1>1. N \in Nat /\ \A i \in 1..N : rows[i] \in S
    OBVIOUS
  <1>2. \A i \in 1..N : i \in ready <=> rows[i] \in Readable
    OBVIOUS
  <1>3. NormalizedRows(rows) = kept[N]
    BY DEF NormalizedRows
  <1> HIDE DEF N, ready
  <1>4. ASSUME NEW f
        PROVE  Kept(f, N, ready, rows) <=> f = Loop(f)
    <2>1. ASSUME NEW i \in 0..N, i # 0
          PROVE  i \in ready <=> rows[i] \in Readable
      <3>1. i \in 1..N
        BY <1>1, <2>1
      <3>2. QED
        BY <1>2, <3>1
    <2>2. [i \in 0..N |-> IF i = 0 THEN <<>>
                          ELSE IF i \in ready THEN Append(f[i - 1], rows[i]) ELSE f[i - 1]] = Loop(f)
      BY <2>1
    <2>3. QED
      BY <2>2 DEF Kept
  <1> HIDE DEF Loop
  <1>5. \E f : f = Loop(f)
    <2>1. \E f : Kept(f, N, ready, rows)
      BY <1>1, KeptRuns
    <2>2. QED
      BY <1>4, <2>1
  <1>6. kept = Loop(kept)
    BY <1>5
  <1> HIDE DEF kept
  <1>7. Kept(kept, N, ready, rows)
    BY <1>4, <1>6
  <1>8. /\ kept[0] = <<>>
        /\ \A i \in 0..(N - 1) :
             kept[i + 1] = IF i + 1 \in ready THEN Append(kept[i], rows[i + 1]) ELSE kept[i]
    BY <1>1, <1>7, KeptIs
  <1>9. ASSUME NEW n \in Nat, n + 1 <= N
        PROVE  kept[n + 1] = IF rows[n + 1] \in Readable THEN Append(kept[n], rows[n + 1]) ELSE kept[n]
    <2>1. n \in 0..(N - 1) /\ n + 1 \in 1..N
      BY <1>1, <1>9
    <2>2. n + 1 \in ready <=> rows[n + 1] \in Readable
      BY <1>2, <2>1
    <2>3. QED
      BY <1>8, <2>1, <2>2
  <1> DEFINE Good(n) == /\ kept[n] \in Seq(S \cap Readable)
                        /\ \A i \in 1..n : rows[i] \in Readable =>
                             \E k \in 1..Len(kept[n]) : kept[n][k] = rows[i]
             B == {n \in Nat : n <= N /\ ~ Good(n)}
  <1>10. 0 \notin B
    <2>1. <<>> \in Seq(S \cap Readable) /\ \A i \in 1..0 : FALSE
      OBVIOUS
    <2>2. Good(0)
      BY <1>8, <2>1
    <2>3. QED
      BY <2>2
  <1>11. ASSUME NEW n \in Nat, n + 1 \in B
         PROVE  n \in B
    <2> SUFFICES ASSUME Good(n) PROVE Good(n + 1)
      BY <1>1, <1>11
    <2>1. n + 1 \in 1..N /\ rows[n + 1] \in S /\ \A i \in 1..(n + 1) : i \in 1..n \/ i = n + 1
      BY <1>1, <1>11
    <2>2. kept[n] \in Seq(S \cap Readable)
      OBVIOUS
    <2> HIDE DEF Good
    <2>0. kept[n + 1] = IF rows[n + 1] \in Readable THEN Append(kept[n], rows[n + 1]) ELSE kept[n]
      BY <1>9, <2>1
    <2> USE DEF Good
    <2>3. CASE rows[n + 1] \in Readable
      <3>1. kept[n + 1] = Append(kept[n], rows[n + 1])
        BY <2>0, <2>3, Zenon
      <3>2. rows[n + 1] \in S \cap Readable
        BY <2>1, <2>3
      <3>3. /\ kept[n + 1] \in Seq(S \cap Readable)
            /\ Len(kept[n]) \in Nat /\ Len(kept[n + 1]) = Len(kept[n]) + 1
            /\ \A k \in 1..Len(kept[n]) : kept[n + 1][k] = kept[n][k]
            /\ kept[n + 1][Len(kept[n]) + 1] = rows[n + 1]
        BY <2>2, <3>1, <3>2, AppendProperties
      <3>4. ASSUME NEW i \in 1..(n + 1), rows[i] \in Readable
            PROVE  \E k \in 1..Len(kept[n + 1]) : kept[n + 1][k] = rows[i]
        <4>1. CASE i = n + 1
          <5>1. Len(kept[n]) + 1 \in 1..Len(kept[n + 1])
            BY <3>3
          <5>2. QED
            BY <3>3, <4>1, <5>1
        <4>2. CASE i \in 1..n
          <5>1. PICK k \in 1..Len(kept[n]) : kept[n][k] = rows[i]
            BY <3>4, <4>2
          <5>2. k \in 1..Len(kept[n + 1]) /\ kept[n + 1][k] = rows[i]
            BY <3>3, <5>1
          <5>3. QED
            BY <5>2
        <4>3. QED
          BY <2>1, <4>1, <4>2
      <3>5. QED
        BY <3>3, <3>4
    <2>4. CASE rows[n + 1] \notin Readable
      <3>1. kept[n + 1] = kept[n]
        BY <2>0, <2>4
      <3>2. QED
        BY <2>1, <2>2, <2>4, <3>1
    <2>5. QED
      BY <2>3, <2>4
  <1>12. B = {}
    <2>1. B \subseteq Nat
      OBVIOUS
    <2> HIDE DEF B
    <2>2. QED
      BY <1>10, <1>11, <2>1, NoCounterexample
  <1>13. Good(N)
    BY <1>1, <1>12
  <1>14. QED
    BY <1>3, <1>13 DEF N

-----------------------------------------------------------------------------
JobName == {"seed", "live", "json", "files"}
Rev     == {"ccdb", "admin", "files"}
Row     == ToSet(Rows) \cup UNION {ToSet(rows) : rows \in LiveSnapshots}
Thing   == Row \cup Factors \cup Rev

\* The transactions of an import before its last, which logs the job.
RowTx  == [kind : {"catalog", "source"}, x : Thing, rev : {None}]
          \cup [kind : {"record", "alias"}, x : Thing, rev : Rev]
JobTx  == [kind : {"job"}, x : JobName, rev : {None}]
Transaction == RowTx \cup JobTx

Has(q, w) == \E k \in 1..Len(q) : q[k] = w

\* What is left of an import: rows, and its job as the last.
Plan(q, job) ==
  /\ q \in Seq(Transaction) /\ q # <<>>
  /\ q[Len(q)] = Tx("job", job, None)
  /\ \A i \in 1..Len(q) : i # Len(q) => q[i] \in RowTx

LEMMA ConcatHas ==
  ASSUME NEW S, NEW q \in Seq(S), NEW r \in Seq(S), NEW w
  PROVE  Has(q, w) \/ Has(r, w) <=> Has(q \o r, w)
  <1>1. /\ Len(q \o r) = Len(q) + Len(r) /\ Len(q) \in Nat /\ Len(r) \in Nat
        /\ \A i \in 1..(Len(q) + Len(r)) :
             (q \o r)[i] = IF i <= Len(q) THEN q[i] ELSE r[i - Len(q)]
    BY ConcatProperties, LenProperties
  <1>2. ASSUME NEW k \in 1..Len(q)
        PROVE  k \in 1..Len(q \o r) /\ (q \o r)[k] = q[k]
    BY <1>1
  <1>3. ASSUME NEW k \in 1..Len(r)
        PROVE  Len(q) + k \in 1..Len(q \o r) /\ (q \o r)[Len(q) + k] = r[k]
    <2>1. Len(q) + k \in 1..(Len(q) + Len(r)) /\ ~(Len(q) + k <= Len(q)) /\ (Len(q) + k) - Len(q) = k
      BY <1>1
    <2>2. QED
      BY <1>1, <2>1
  <1>4. ASSUME NEW k \in 1..Len(q \o r)
        PROVE  \/ k \in 1..Len(q) /\ (q \o r)[k] = q[k]
               \/ k - Len(q) \in 1..Len(r) /\ (q \o r)[k] = r[k - Len(q)]
    BY <1>1
  <1>5. QED
    BY <1>2, <1>3, <1>4 DEF Has

\* Rows and then the job.
LEMMA JobLast ==
  ASSUME NEW q \in Seq(RowTx), NEW job \in JobName
  PROVE  /\ Plan(q \o <<Tx("job", job, None)>>, job)
         /\ \A w : Has(q, w) => Has(q \o <<Tx("job", job, None)>>, w)
  <1> DEFINE last == Tx("job", job, None)
  <1>1. last \in JobTx
    BY DEF Tx, JobTx
  <1>2. q \in Seq(Transaction) /\ <<last>> \in Seq(Transaction) /\ Len(<<last>>) = 1 /\ <<last>>[1] = last
    BY <1>1, SeqMonotonic DEF Transaction
  <1> HIDE DEF last
  <1>3. /\ q \o <<last>> \in Seq(Transaction) /\ Len(q \o <<last>>) = Len(q) + 1 /\ Len(q) \in Nat
        /\ (q \o <<last>>)[Len(q) + 1] = last
        /\ \A i \in 1..Len(q) : (q \o <<last>>)[i] = q[i] /\ q[i] \in RowTx
    <2>1. q \o <<last>> \in Seq(Transaction) /\ Len(q) \in Nat /\ Len(q \o <<last>>) = Len(q) + 1
      BY <1>2, ConcatProperties, LenProperties
    <2>2. \A i \in 1..(Len(q) + 1) :
            (q \o <<last>>)[i] = IF i <= Len(q) THEN q[i] ELSE <<last>>[i - Len(q)]
      BY <1>2, ConcatProperties, LenProperties
    <2>3. (Len(q) + 1) - Len(q) = 1 /\ ~(Len(q) + 1 <= Len(q)) /\ Len(q) + 1 \in 1..(Len(q) + 1)
      BY <2>1
    <2>4. (q \o <<last>>)[Len(q) + 1] = last
      BY <1>2, <2>2, <2>3
    <2>5. \A i \in 1..Len(q) : (q \o <<last>>)[i] = q[i] /\ q[i] \in RowTx
      BY <2>1, <2>2
    <2>6. QED
      BY <2>1, <2>4, <2>5
  <1>4. \A w : Has(q, w) => Has(q \o <<last>>, w)
    BY <1>2, ConcatHas
  <1>5. QED
    BY <1>3, <1>4 DEF Plan, last

LEMMA RecordTxsAre ==
  ASSUME NEW S, S \subseteq Thing, NEW fs \in Seq(S), NEW rev \in Rev
  PROVE  /\ RecordTxs(fs, rev) \in Seq(RowTx)
         /\ \A i \in 1..Len(fs) : /\ Has(RecordTxs(fs, rev), Tx("record", fs[i], rev))
                                  /\ Has(RecordTxs(fs, rev), Tx("alias", fs[i], rev))
  <1> DEFINE n == 2 * Len(fs)
             q == RecordTxs(fs, rev)
  <1>1. Len(fs) \in Nat /\ n \in Nat
    OBVIOUS
  <1>2. ASSUME NEW k \in 1..n
        PROVE  Tx(IF k % 2 = 1 THEN "record" ELSE "alias", fs[(k + 1) \div 2], rev) \in RowTx
    <2>1. (k + 1) \div 2 \in 1..Len(fs)
      BY <1>1
    <2>2. fs[(k + 1) \div 2] \in Thing
      BY <2>1
    <2>3. QED
      BY <2>2 DEF Tx, RowTx
  <1>3. q = [k \in 1..n |-> Tx(IF k % 2 = 1 THEN "record" ELSE "alias", fs[(k + 1) \div 2], rev)]
    BY DEF RecordTxs
  <1>4. q \in [1..n -> RowTx]
    BY <1>2, <1>3
  <1>5. q \in Seq(RowTx) /\ Len(q) = n
    <2> HIDE DEF q
    <2>1. q = [k \in 1..n |-> q[k]] /\ \A k \in 1..n : q[k] \in RowTx
      BY <1>4
    <2>2. QED
      BY <1>1, <1>4, <2>1
  <1>6. ASSUME NEW i \in 1..Len(fs)
        PROVE  Has(q, Tx("record", fs[i], rev)) /\ Has(q, Tx("alias", fs[i], rev))
    <2>1. 2 * i - 1 \in 1..n /\ (2 * i - 1) % 2 = 1 /\ ((2 * i - 1) + 1) \div 2 = i
      BY <1>1
    <2>2. 2 * i \in 1..n /\ (2 * i) % 2 = 0 /\ (2 * i + 1) \div 2 = i
      BY <1>1
    <2>3. q[2 * i - 1] = Tx("record", fs[i], rev)
      BY <1>3, <2>1
    <2>4. q[2 * i] = Tx("alias", fs[i], rev)
      BY <1>3, <2>2
    <2> HIDE DEF q
    <2>5. QED
      BY <1>5, <2>1, <2>2, <2>3, <2>4 DEF Has
  <1>7. QED
    BY <1>5, <1>6

LEMMA CatalogTxs ==
  ASSUME NEW S, S \subseteq Thing, NEW rows \in Seq(S)
  PROVE  LET q == [i \in 1..Len(rows) |-> Tx("catalog", rows[i], None)]
         IN  q \in Seq(RowTx) /\ \A i \in 1..Len(rows) : Has(q, Tx("catalog", rows[i], None))
  <1> DEFINE q == [i \in 1..Len(rows) |-> Tx("catalog", rows[i], None)]
  <1>1. Len(rows) \in Nat
    OBVIOUS
  <1>2. q \in [1..Len(rows) -> RowTx]
    BY DEF Tx, RowTx
  <1>3. \A i \in 1..Len(rows) : q[i] = Tx("catalog", rows[i], None)
    OBVIOUS
  <1> HIDE DEF q
  <1>4. q \in Seq(RowTx) /\ Len(q) = Len(rows)
    BY <1>1, <1>2
  <1>5. \A i \in 1..Len(rows) : Has(q, Tx("catalog", rows[i], None))
    BY <1>3, <1>4 DEF Has
  <1>6. QED
    BY <1>4, <1>5 DEF q

-----------------------------------------------------------------------------
\* What an import of a snapshot has to write for one of its rows.
RowTxs(r) ==
  {Tx("catalog", r, None)}
  \cup (IF r \in Readable
        THEN {Tx("source", "ccdb", None), Tx("record", r, "ccdb"), Tx("alias", r, "ccdb")}
        ELSE {})

LEMMA CarbonStopImportIs ==
  ASSUME NEW rows \in Seq(Row), NEW job \in JobName
  PROVE  /\ Plan(CarbonStopImport(rows, job), job)
         /\ \A i \in 1..Len(rows) : \A w \in RowTxs(rows[i]) :
              Has(CarbonStopImport(rows, job), w)
  <1> DEFINE cat    == [i \in 1..Len(rows) |-> Tx("catalog", rows[i], None)]
             ready  == NormalizedRows(rows)
             source == IF ready = <<>> THEN <<>> ELSE <<Tx("source", "ccdb", None)>>
             recs   == RecordTxs(ready, "ccdb")
  <1>1. Row \subseteq Thing
    BY DEF Thing
  <1>2. /\ cat \in Seq(RowTx)
        /\ \A i \in 1..Len(rows) : Has(cat, Tx("catalog", rows[i], None))
    BY <1>1, CatalogTxs
  <1>3. /\ ready \in Seq(Row \cap Readable)
        /\ \A i \in 1..Len(rows) : rows[i] \in Readable =>
             \E k \in 1..Len(ready) : ready[k] = rows[i]
    BY NormalizedRowsAre
  <1>4. /\ recs \in Seq(RowTx)
        /\ \A i \in 1..Len(ready) : /\ Has(recs, Tx("record", ready[i], "ccdb"))
                                    /\ Has(recs, Tx("alias", ready[i], "ccdb"))
    <2> HIDE DEF ready
    <2>1. Row \cap Readable \subseteq Thing /\ "ccdb" \in Rev
      BY <1>1 DEF Rev
    <2>2. QED
      BY <1>3, <2>1, RecordTxsAre
  <1>5. Tx("source", "ccdb", None) \in RowTx
    BY DEF Tx, RowTx, Thing, Rev
  <1>6. source \in Seq(RowTx) /\ (ready # <<>> => Has(source, Tx("source", "ccdb", None)))
    <2> HIDE DEF ready
    <2>1. CASE ready = <<>>
      BY <2>1
    <2>2. CASE ready # <<>>
      <3>1. source = <<Tx("source", "ccdb", None)>>
        BY <2>2
      <3>2. source \in Seq(RowTx) /\ Len(source) = 1 /\ source[1] = Tx("source", "ccdb", None)
        BY <1>5, <3>1
      <3>3. QED
        BY <3>2 DEF Has
    <2>3. QED
      BY <2>1, <2>2
  <1>7. CarbonStopImport(rows, job) = ((cat \o source) \o recs) \o <<Tx("job", job, None)>>
    BY DEF CarbonStopImport
  <1> HIDE DEF cat, source, recs, ready
  <1>8. cat \o source \in Seq(RowTx) /\ (cat \o source) \o recs \in Seq(RowTx)
    BY <1>2, <1>4, <1>6
  <1>9. \A w : Has(cat, w) \/ Has(source, w) \/ Has(recs, w) => Has((cat \o source) \o recs, w)
    BY <1>2, <1>4, <1>6, <1>8, ConcatHas
  <1>10. /\ Plan(CarbonStopImport(rows, job), job)
         /\ \A w : Has((cat \o source) \o recs, w) => Has(CarbonStopImport(rows, job), w)
    BY <1>7, <1>8, JobLast
  <1>11. ASSUME NEW i \in 1..Len(rows), NEW w \in RowTxs(rows[i])
         PROVE  Has(CarbonStopImport(rows, job), w)
    <2>1. CASE w = Tx("catalog", rows[i], None)
      BY <1>2, <1>9, <1>10, <2>1
    <2>2. CASE /\ rows[i] \in Readable
               /\ w \in {Tx("source", "ccdb", None), Tx("record", rows[i], "ccdb"),
                         Tx("alias", rows[i], "ccdb")}
      <3>1. PICK k \in 1..Len(ready) : ready[k] = rows[i]
        BY <1>3, <2>2
      <3>2. ready # <<>>
        BY <3>1
      <3>3. Has(recs, Tx("record", rows[i], "ccdb")) /\ Has(recs, Tx("alias", rows[i], "ccdb"))
        BY <1>4, <3>1
      <3>4. QED
        BY <1>6, <1>9, <1>10, <2>2, <3>2, <3>3
    <2>3. QED
      BY <1>11, <2>1, <2>2 DEF RowTxs
  <1>12. QED
    BY <1>10, <1>11

LEMMA RecordsImportIs ==
  ASSUME NEW S, S \subseteq Thing, NEW fs \in Seq(S), NEW source \in Rev, NEW job \in JobName
  PROVE  Plan(RecordsImport(fs, source, job), job)
  <1>1. RecordTxs(fs, source) \in Seq(RowTx)
    BY RecordTxsAre
  <1>2. Tx("source", source, None) \in RowTx
    BY DEF Tx, RowTx, Thing
  <1>3. <<Tx("source", source, None)>> \o RecordTxs(fs, source) \in Seq(RowTx)
    BY <1>1, <1>2
  <1>4. RecordsImport(fs, source, job) =
          (<<Tx("source", source, None)>> \o RecordTxs(fs, source)) \o <<Tx("job", job, None)>>
    BY DEF RecordsImport
  <1>5. QED
    BY <1>3, <1>4, JobLast

\* The imports there are.
LEMMA PlansAre ==
  /\ Plan(CarbonStopImport(Rows, "seed"), "seed")
  /\ \A r \in ToSet(Rows) : \A w \in RowTxs(r) : Has(CarbonStopImport(Rows, "seed"), w)
  /\ \A rows \in LiveSnapshots : Plan(CarbonStopImport(rows, "live"), "live")
  /\ \A p \in Payloads : Plan(RecordsImport(p, "admin", "json"), "json")
  /\ Plan(RecordsImport(SetToSeq(FileFactors), "files", "files"), "files")
  <1> USE FactorsAssumption DEF JobName, Rev
  <1>1. /\ Plan(CarbonStopImport(Rows, "seed"), "seed")
        /\ \A r \in ToSet(Rows) : \A w \in RowTxs(r) : Has(CarbonStopImport(Rows, "seed"), w)
    <2>1. Rows \in Seq(Row)
      <3>1. ToSet(Rows) \subseteq Row
        BY DEF Row
      <3>2. QED
        BY <3>1, SeqMonotonic
    <2>2. DOMAIN Rows = 1..Len(Rows)
      OBVIOUS
    <2>3. QED
      BY <2>1, <2>2, CarbonStopImportIs DEF ToSet
  <1>2. ASSUME NEW rows \in LiveSnapshots
        PROVE  Plan(CarbonStopImport(rows, "live"), "live")
    <2>1. ToSet(rows) \subseteq Row
      BY DEF Row
    <2>2. rows \in Seq(Row)
      BY <2>1, SeqMonotonic
    <2>3. QED
      BY <2>2, CarbonStopImportIs
  <1>3. ASSUME NEW p \in Payloads
        PROVE  Plan(RecordsImport(p, "admin", "json"), "json")
    <2>1. ToSet(p) \subseteq Thing /\ p \in Seq(ToSet(p))
      BY DEF Thing, Factors
    <2>2. QED
      BY <2>1, RecordsImportIs
  <1>4. Plan(RecordsImport(SetToSeq(FileFactors), "files", "files"), "files")
    <2>1. PICK f : f \in [1..Cardinality(FileFactors) -> FileFactors] /\ IsInjective(f)
      <3>1. Injection(1..Cardinality(FileFactors), FileFactors) # {}
        BY FS_CardinalityType DEF ExistsBijection, Bijection
      <3>2. QED
        BY <3>1 DEF IsInjective, Injection
    <2>2. SetToSeq(FileFactors) \in [1..Cardinality(FileFactors) -> FileFactors]
      BY <2>1 DEF SetToSeq
    <2>3. Cardinality(FileFactors) \in Nat
      BY FS_CardinalityType
    <2>4. SetToSeq(FileFactors) \in Seq(FileFactors)
      BY <2>2, <2>3
    <2>5. FileFactors \subseteq Thing
      BY DEF Thing, Factors
    <2>6. QED
      BY <2>4, <2>5, RecordsImportIs
  <1>5. QED
    BY <1>1, <1>2, <1>3, <1>4

-----------------------------------------------------------------------------
(* Types *)

FactorPlace == {"idle", "seed", "count", "write", "done", "serve"}
ReportPlace == {"resolve", "provider", "store", "announce"}
Place == FactorPlace \cup {"compute"} \cup ReportPlace

FactorRow == [st : {"none", "on", "off"}, rev : Rev \cup {None}]
Message   == [role : {"assistant"}, cites : Citings] \cup [role : {"system"}, about : Nat]

PerThread(f)  == f = [t \in Threads |-> f[t]]
IsSequence(q) == \E S : q \in Seq(S)

FactorsTypeOK ==
  /\ catalog \subseteq Thing /\ sources \subseteq Thing
  /\ factor \in [Factors -> FactorRow]
  /\ alias \in [Factors -> Rev \cup {None}]
  /\ jobs \in Seq(JobName)
  /\ pc \in [Threads -> Place]
  /\ todo \in [Threads -> Seq(Transaction)]
  /\ PerThread(req)
  /\ asked \in Int /\ faults \in Int

InventoryTypeOK ==
  /\ live \subseteq Sessions
  /\ IsSequence(calcs)
  /\ reg \in [Threads -> [ids : SUBSET Factors, db : SUBSET Factors]]
  /\ PerThread(items)
  /\ offSince \in [Threads -> SUBSET Factors]

IsReport(r) ==
  /\ DOMAIN r = {"id", "s", "type", "picked", "calc", "text", "named", "newest", "late", "silent"}
  /\ r.id \in Nat /\ r.late \in BOOLEAN /\ r.silent \in BOOLEAN

ReportsTypeOK ==
  /\ FactorsTypeOK
  /\ InventoryTypeOK
  /\ messages \in [Sessions -> Seq(Message)]
  /\ \A r \in reports : IsReport(r)
  /\ PerThread(drafts) /\ \A t \in Threads : DOMAIN drafts[t] = {"picked", "calc"}
  /\ made \in Nat

\* A thread that writes has something left to write, the job of its import last.
Writing == \A t \in Threads : pc[t] = "write" => \E job \in JobName : Plan(todo[t], job)

LEMMA AppendSequence ==
  ASSUME NEW q, IsSequence(q), NEW x
  PROVE  /\ IsSequence(Append(q, x)) /\ Len(q) \in Nat /\ Len(Append(q, x)) = Len(q) + 1
         /\ \A i \in 1..Len(q) : Append(q, x)[i] = q[i]
         /\ Append(q, x)[Len(q) + 1] = x
  <1>1. PICK S : q \in Seq(S)
    BY DEF IsSequence
  <1>2. q \in Seq(S \cup {x})
    BY <1>1, SeqMonotonic
  <1>3. /\ Append(q, x) \in Seq(S \cup {x}) /\ Len(q) \in Nat /\ Len(Append(q, x)) = Len(q) + 1
        /\ \A i \in 1..Len(q) : Append(q, x)[i] = q[i]
        /\ Append(q, x)[Len(q) + 1] = x
    BY <1>2, AppendProperties
  <1>4. QED
    BY <1>3 DEF IsSequence

LEMMA Updated ==
  ASSUME NEW f, NEW g, PerThread(f), NEW t \in Threads, NEW x, g = [f EXCEPT ![t] = x]
  PROVE  PerThread(g) /\ g[t] = x /\ \A u \in Threads \ {t} : g[u] = f[u]
  BY DEF PerThread

\* A thread moves, and the others stay.
Moves(t) ==
  /\ PerThread(pc') /\ PerThread(req') /\ PerThread(todo')
  /\ \A u \in Threads \ {t} : pc'[u] = pc[u] /\ req'[u] = req[u] /\ todo'[u] = todo[u]

LEMMA ArriveMoves ==
  ASSUME ReportsTypeOK, NEW t \in Threads, NEW r, NEW where \in Place, Arrive(t, r, where)
  PROVE  /\ pc' \in [Threads -> Place] /\ PerThread(req') /\ asked' \in Int
         /\ pc[t] = "idle" /\ pc'[t] = where /\ req'[t] = r
         /\ \A u \in Threads \ {t} : pc'[u] = pc[u] /\ req'[u] = req[u]
  <1>1. PerThread(req) /\ req' = [req EXCEPT ![t] = r]
    BY DEF ReportsTypeOK, FactorsTypeOK, Arrive
  <1>2. /\ PerThread(req') /\ req'[t] = r
        /\ \A u \in Threads \ {t} : req'[u] = req[u]
    BY <1>1, Updated DEF PerThread
  <1>3. QED
    BY <1>2 DEF ReportsTypeOK, FactorsTypeOK, Arrive, Goto

LEMMA FinishMoves ==
  ASSUME ReportsTypeOK, NEW t \in Threads, Finish(t)
  PROVE  /\ pc' \in [Threads -> Place] /\ PerThread(req')
         /\ todo' \in [Threads -> Seq(Transaction)]
         /\ pc'[t] = "idle" /\ Moves(t)
  <1>1. /\ PerThread(req') /\ req'[t] = None
        /\ \A u \in Threads \ {t} : req'[u] = req[u]
    BY Updated DEF ReportsTypeOK, FactorsTypeOK, Finish, PerThread
  <1>2. /\ todo' \in [Threads -> Seq(Transaction)] /\ todo'[t] = <<>> /\ PerThread(todo')
        /\ \A u \in Threads \ {t} : todo'[u] = todo[u]
    <2>1. todo \in [Threads -> Seq(Transaction)] /\ todo' = [todo EXCEPT ![t] = <<>>]
      BY DEF ReportsTypeOK, FactorsTypeOK, Finish
    <2>2. <<>> \in Seq(Transaction)
      OBVIOUS
    <2>3. QED
      BY <2>1, <2>2 DEF PerThread
  <1>3. /\ pc' \in [Threads -> Place] /\ pc'[t] = "idle" /\ PerThread(pc')
        /\ \A u \in Threads \ {t} : pc'[u] = pc[u]
    BY DEF ReportsTypeOK, FactorsTypeOK, Finish, Goto, PerThread, Place, FactorPlace
  <1>4. QED
    BY <1>1, <1>2, <1>3 DEF Moves

LEMMA GotoMoves ==
  ASSUME ReportsTypeOK, NEW t \in Threads, NEW where \in Place, Goto(t, where)
  PROVE  /\ pc' \in [Threads -> Place] /\ pc'[t] = where
         /\ \A u \in Threads \ {t} : pc'[u] = pc[u]
  BY DEF ReportsTypeOK, FactorsTypeOK, Goto

\* A step of the factor database: what it does to the threads and to its tables.
LEMMA FactorMoves ==
  ASSUME ReportsTypeOK, Writing, NEW t \in Threads, FactorStep(t)
  PROVE  /\ Moves(t) /\ pc[t] \in FactorPlace /\ pc'[t] \in FactorPlace
         /\ FactorsTypeOK'
         /\ pc'[t] = "write" => \E job \in JobName : Plan(todo'[t], job)
  <1> USE DEF ReportsTypeOK
  <1>0. /\ FactorsTypeOK /\ FactorPlace \subseteq Place
        /\ \A q, job : Plan(q, job) => q \in Seq(Transaction)
    BY DEF Plan, Place
  <1>1. CASE Browse(t)
    BY <1>0, <1>1, ArriveMoves DEF Browse, stored, FactorsTypeOK, Moves, PerThread, FactorPlace
  <1>2. ASSUME NEW q, NEW job \in JobName, Plan(q, job), Arrive(t, [op |-> "import"], "write"),
               todo' = [todo EXCEPT ![t] = q], UNCHANGED <<stored, faults>>
        PROVE  /\ Moves(t) /\ pc[t] = "idle" /\ pc'[t] = "write"
               /\ FactorsTypeOK' /\ Plan(todo'[t], job)
    <2>1. /\ pc' \in [Threads -> Place] /\ PerThread(req') /\ asked' \in Int
          /\ pc[t] = "idle" /\ pc'[t] = "write"
          /\ \A u \in Threads \ {t} : pc'[u] = pc[u] /\ req'[u] = req[u]
      BY <1>2, ArriveMoves DEF Place, FactorPlace
    <2>2. todo' \in [Threads -> Seq(Transaction)] /\ todo'[t] = q
          /\ \A u \in Threads \ {t} : todo'[u] = todo[u]
      BY <1>0, <1>2 DEF FactorsTypeOK
    <2>3. QED
      BY <1>0, <1>2, <2>1, <2>2 DEF stored, FactorsTypeOK, Moves, PerThread
  <1>3. CASE AdminImport(t)
    <2>1. "json" \in JobName
      BY DEF JobName
    <2>2. QED
      BY <1>2, <1>3, <2>1, PlansAre DEF AdminImport, FactorPlace
  <1>4. CASE AdminSync(t)
    <2>1. PICK rows \in LiveSnapshots \cup {Rows} :
            /\ Arrive(t, [op |-> "import"], "write")
            /\ todo' = [todo EXCEPT ![t] =
                          CarbonStopImport(rows, IF rows = Rows THEN "seed" ELSE "live")]
            /\ UNCHANGED <<stored, faults>>
      BY <1>4 DEF AdminSync
    <2>2. \E job \in JobName :
            Plan(CarbonStopImport(rows, IF rows = Rows THEN "seed" ELSE "live"), job)
      BY <2>1, PlansAre DEF JobName
    <2>3. QED
      BY <1>2, <2>1, <2>2 DEF FactorPlace
  <1>5. CASE SwitchFactor(t)
    <2>1. factor' \in [Factors -> FactorRow]
      BY ZenonT(40), <1>0, <1>5 DEF SwitchFactor, FactorsTypeOK, FactorRow
    <2>2. QED
      BY <1>0, <1>5, <2>1, ArriveMoves
      DEF SwitchFactor, FactorsTypeOK, Moves, PerThread, FactorPlace
  <1>6. ASSUME NEW q, NEW job \in JobName, Plan(q, job), Goto(t, "write"),
               todo' = [todo EXCEPT ![t] = q], UNCHANGED <<stored, req, asked, faults>>
        PROVE  /\ Moves(t) /\ pc'[t] = "write" /\ FactorsTypeOK' /\ Plan(todo'[t], job)
    <2>1. /\ pc' \in [Threads -> Place] /\ pc'[t] = "write"
          /\ \A u \in Threads \ {t} : pc'[u] = pc[u]
      BY <1>6, GotoMoves DEF Place, FactorPlace
    <2>2. todo' \in [Threads -> Seq(Transaction)] /\ todo'[t] = q
          /\ \A u \in Threads \ {t} : todo'[u] = todo[u]
      BY <1>0, <1>6 DEF FactorsTypeOK
    <2>3. QED
      BY <1>0, <1>6, <2>1, <2>2 DEF stored, FactorsTypeOK, Moves, PerThread
  <1>7. ASSUME NEW where \in FactorPlace \ {"write"}, Goto(t, where),
               UNCHANGED <<stored, todo, req, asked, faults>>
        PROVE  Moves(t) /\ pc'[t] = where /\ FactorsTypeOK'
    <2>1. /\ pc' \in [Threads -> Place] /\ pc'[t] = where
          /\ \A u \in Threads \ {t} : pc'[u] = pc[u]
      BY <1>0, <1>7, GotoMoves
    <2>2. QED
      BY <1>0, <1>7, <2>1 DEF stored, FactorsTypeOK, Moves, PerThread
  <1>8. CASE CheckSeed(t)
    <2>1. "seed" \in JobName
      BY DEF JobName
    <2>2. QED
      BY <1>6, <1>7, <1>8, <2>1, PlansAre DEF CheckSeed, FactorPlace
  <1>9. CASE CountFactors(t)
    <2>1. "files" \in JobName
      BY DEF JobName
    <2>2. QED
      BY <1>6, <1>7, <1>9, <2>1, PlansAre DEF CountFactors, FactorPlace
  <1>10. CASE WriteRow(t)
    <2>1. PICK job \in JobName : Plan(todo[t], job)
      BY <1>10 DEF WriteRow, Writing
    <2> DEFINE q == todo[t]
               w == Head(q)
    <2>2. /\ q \in Seq(Transaction) /\ q # <<>> /\ Len(q) \in Nat \ {0}
          /\ w = q[1] /\ w \in Transaction /\ 1 \in 1..Len(q)
          /\ Tail(q) \in Seq(Transaction) /\ Len(Tail(q)) = Len(q) - 1
          /\ \A i \in 1..Len(Tail(q)) : Tail(q)[i] = q[i + 1]
      BY <2>1, HeadTailProperties, LenProperties DEF Plan
    <2>3. /\ w.x \in Thing \cup JobName
          /\ w.kind # "job" => w.x \in Thing
          /\ w.kind \in {"record", "alias"} => w.rev \in Rev
          /\ w.kind = "job" => w.x \in JobName
      BY <2>2 DEF Transaction, RowTx, JobTx
    <2> HIDE DEF w
    <2>4. /\ catalog' \subseteq Thing /\ sources' \subseteq Thing
          /\ factor' \in [Factors -> FactorRow] /\ alias' \in [Factors -> Rev \cup {None}]
          /\ jobs' \in Seq(JobName)
      <3>1. \/ w.kind = "catalog" /\ UpsertCatalogEntry(w.x)
            \/ w.kind = "source" /\ UpsertSource(w.x)
            \/ w.kind = "record" /\ UpsertFactorRecord(w.x, w.rev)
            \/ w.kind = "alias" /\ ReplaceAliases(w.x, w.rev)
            \/ w.kind = "job" /\ CreateImportJob(w.x)
        BY <1>10 DEF WriteRow, w
      <3>2. CASE w.kind = "catalog" /\ UpsertCatalogEntry(w.x)
        BY <1>0, <2>3, <3>2 DEF UpsertCatalogEntry, FactorsTypeOK
      <3>3. CASE w.kind = "source" /\ UpsertSource(w.x)
        BY <1>0, <2>3, <3>3 DEF UpsertSource, FactorsTypeOK
      <3>4. CASE w.kind = "record" /\ UpsertFactorRecord(w.x, w.rev)
        <4>1. [st |-> "on", rev |-> w.rev] \in FactorRow
          BY <2>3, <3>4 DEF FactorRow
        <4>2. QED
          BY <1>0, <3>4, <4>1 DEF UpsertFactorRecord, FactorsTypeOK
      <3>5. CASE w.kind = "alias" /\ ReplaceAliases(w.x, w.rev)
        BY <1>0, <2>3, <3>5 DEF ReplaceAliases, FactorsTypeOK
      <3>6. CASE w.kind = "job" /\ CreateImportJob(w.x)
        BY <1>0, <2>3, <3>6 DEF CreateImportJob, FactorsTypeOK
      <3>7. QED
        BY <3>1, <3>2, <3>3, <3>4, <3>5, <3>6
    <2>5. /\ todo' \in [Threads -> Seq(Transaction)] /\ todo'[t] = Tail(q)
          /\ \A u \in Threads \ {t} : todo'[u] = todo[u]
      BY <1>0, <1>10, <2>2 DEF WriteRow, FactorsTypeOK
    <2>6. /\ pc' \in [Threads -> Place] /\ pc'[t] \in FactorPlace
          /\ \A u \in Threads \ {t} : pc'[u] = pc[u]
          /\ pc'[t] = "write" => Len(q) # 1
      BY <1>0, <1>10 DEF WriteRow, AfterImport, Goto, FactorsTypeOK, FactorPlace, w
    <2>7. pc'[t] = "write" => Plan(todo'[t], job)
      <3> SUFFICES ASSUME pc'[t] = "write" PROVE Plan(Tail(q), job)
        BY <2>5
      <3>1. Len(q) # 1 /\ Len(Tail(q)) \in 1..Len(q)
        <4>1. \A n \in Nat \ {0} : n # 1 => n - 1 \in 1..n
          OBVIOUS
        <4>2. Len(q) # 1 /\ Len(q) \in Nat \ {0} /\ Len(Tail(q)) = Len(q) - 1
          BY <2>2, <2>6
        <4>3. QED
          BY <4>1, <4>2
      <3>2. Tail(q)[Len(Tail(q))] = q[Len(q)]
        BY <2>2, <3>1
      <3>3. \A i \in 1..Len(Tail(q)) : i # Len(Tail(q)) => i + 1 \in 1..Len(q) /\ i + 1 # Len(q)
        BY <2>2
      <3>4. QED
        BY <2>1, <2>2, <3>1, <3>2, <3>3 DEF Plan
    <2>8. /\ req' = req /\ UNCHANGED <<asked, faults>> /\ pc[t] = "write"
      BY <1>10 DEF WriteRow
    <2>9. QED
      BY <1>0, <2>4, <2>5, <2>6, <2>7, <2>8 DEF FactorsTypeOK, Moves, PerThread, FactorPlace
  <1>11. CASE Answer(t)
    BY <1>0, <1>11, FinishMoves DEF Answer, stored, FactorsTypeOK, FactorPlace
  <1>12. CASE WriteFails(t)
    <2>1. CASE req[t].op \in {"browse", "import"}
      BY <1>0, <1>12, <2>1, FinishMoves DEF WriteFails, stored, FactorsTypeOK, FactorPlace
    <2>2. CASE req[t].op \notin {"browse", "import"}
      <3>1. Goto(t, "serve") /\ todo' = [todo EXCEPT ![t] = <<>>] /\ req' = req
            /\ UNCHANGED <<stored, asked>> /\ faults' = faults + 1 /\ pc[t] = "write"
        BY <1>12, <2>2 DEF WriteFails
      <3>2. /\ pc' \in [Threads -> Place] /\ pc'[t] = "serve"
            /\ \A u \in Threads \ {t} : pc'[u] = pc[u]
        BY <3>1, GotoMoves DEF Place, FactorPlace
      <3>3. todo' \in [Threads -> Seq(Transaction)] /\ \A u \in Threads \ {t} : todo'[u] = todo[u]
        BY <1>0, <3>1 DEF FactorsTypeOK
      <3>4. Moves(t)
        BY <1>0, <3>1, <3>2, <3>3 DEF FactorsTypeOK, Moves, PerThread
      <3>5. FactorsTypeOK'
        BY <1>0, <3>1, <3>2, <3>3 DEF stored, FactorsTypeOK, PerThread
      <3>6. QED
        BY <3>1, <3>2, <3>4, <3>5 DEF FactorPlace
    <2>3. QED
      BY <2>1, <2>2
  <1>13. QED
    BY <1>1, <1>3, <1>4, <1>5, <1>8, <1>9, <1>10, <1>11, <1>12 DEF FactorStep

-----------------------------------------------------------------------------
\* A step of the calculations: where it takes its thread, and what it leaves alone.
LEMMA CalcMoves ==
  ASSUME ReportsTypeOK, NEW t \in Threads, CalcStep(t)
  PROVE  /\ Moves(t) /\ FactorsTypeOK'
         /\ pc[t] \in {"idle", "serve", "compute"} /\ pc'[t] \in {"idle", "seed", "compute"}
         /\ stored' = stored /\ live' = live
         /\ IsSequence(calcs')
         /\ reg' \in [Threads -> [ids : SUBSET Factors, db : SUBSET Factors]]
         /\ PerThread(items')
         /\ calcs' # calcs => /\ pc[t] = "compute" /\ pc'[t] = "idle"
                              /\ calcs' = Append(calcs, Inventory(t))
         /\ \A u \in Threads \ {t} : reg'[u] = reg[u]
         /\ pc'[t] = "compute" => reg'[t].db \subseteq On
  <1>0. /\ FactorsTypeOK /\ InventoryTypeOK /\ PerThread(items) /\ PerThread(pc) /\ PerThread(todo)
        /\ {"idle", "seed", "compute"} \subseteq Place
        /\ NoRegistry \in [ids : SUBSET Factors, db : SUBSET Factors]
    BY DEF ReportsTypeOK, FactorsTypeOK, InventoryTypeOK, PerThread, Place, FactorPlace, NoRegistry
  <1>1. ASSUME NEW r, Arrive(t, r, "seed"), UNCHANGED <<stored, todo, faults, live, calcs, reg>>,
               PerThread(items')
        PROVE  /\ Moves(t) /\ FactorsTypeOK' /\ pc[t] = "idle" /\ pc'[t] = "seed"
    <2>1. /\ pc' \in [Threads -> Place] /\ PerThread(req') /\ asked' \in Int
          /\ pc[t] = "idle" /\ pc'[t] = "seed"
          /\ \A u \in Threads \ {t} : pc'[u] = pc[u] /\ req'[u] = req[u]
      BY <1>0, <1>1, ArriveMoves
    <2>2. PerThread(pc') /\ PerThread(todo')
      BY <1>0, <1>1, <2>1 DEF PerThread
    <2>3. QED
      BY <1>0, <1>1, <2>1, <2>2 DEF Moves, FactorsTypeOK, stored
  <1>2. CASE PostCalculation(t)
    <2>1. PICK s \in live \cup {None}, batch \in Batches :
            /\ Arrive(t, [op |-> "calc", s |-> s], "seed")
            /\ items' = [items EXCEPT ![t] = batch]
            /\ UNCHANGED <<stored, todo, faults, live, calcs, reg>>
      BY <1>2 DEF PostCalculation
    <2>2. PerThread(items')
      BY <1>0, <2>1, Updated DEF PerThread
    <2>3. QED
      BY <1>0, <1>1, <2>1, <2>2 DEF InventoryTypeOK
  <1>3. CASE InvokeTool(t)
    <2>1. PICK s \in live, doc \in Documents :
            /\ Arrive(t, [op |-> "extract", s |-> s, doc |-> doc], "seed")
            /\ UNCHANGED <<stored, todo, faults, calcVars>>
      BY <1>3 DEF InvokeTool
    <2>2. UNCHANGED <<live, calcs, reg, items>>
      BY <2>1 DEF calcVars
    <2>3. PerThread(items')
      BY <1>0, <2>2 DEF PerThread
    <2>4. QED
      BY <1>0, <1>1, <2>1, <2>2, <2>3 DEF InventoryTypeOK
  <1>4. CASE LoadRegistry(t)
    <2>1. /\ pc[t] = "serve" /\ Goto(t, "compute")
          /\ UNCHANGED <<stored, todo, req, asked, live, calcs, items>>
          /\ faults' \in Int
          /\ \/ reg' = [reg EXCEPT ![t] = Registry(On)]
             \/ reg' = [reg EXCEPT ![t] = Registry({})]
      BY <1>0, <1>4 DEF LoadRegistry, FactorsTypeOK
    <2>2. PICK db \in SUBSET On : reg' = [reg EXCEPT ![t] = Registry(db)]
      <3>1. On \in SUBSET On /\ {} \in SUBSET On
        OBVIOUS
      <3>2. QED
        BY <2>1, <3>1
    <2>3. /\ Registry(db) \in [ids : SUBSET Factors, db : SUBSET Factors]
          /\ Registry(db).db = db
      BY DEF Registry, On, Factors
    <2>4. /\ reg' \in [Threads -> [ids : SUBSET Factors, db : SUBSET Factors]]
          /\ reg'[t].db \subseteq On /\ \A u \in Threads \ {t} : reg'[u] = reg[u]
      BY <1>0, <2>2, <2>3 DEF InventoryTypeOK
    <2>5. /\ pc' \in [Threads -> Place] /\ pc'[t] = "compute"
          /\ \A u \in Threads \ {t} : pc'[u] = pc[u]
      BY <1>0, <2>1, GotoMoves
    <2>6. PerThread(pc') /\ PerThread(req') /\ PerThread(todo') /\ PerThread(items')
      BY <1>0, <2>1, <2>5 DEF PerThread, FactorsTypeOK
    <2>7. FactorsTypeOK'
      BY <1>0, <2>1, <2>5, <2>6 DEF FactorsTypeOK, stored
    <2>8. QED
      BY <1>0, <2>1, <2>4, <2>5, <2>6, <2>7 DEF InventoryTypeOK, Moves
  <1>5. ASSUME reg' = [reg EXCEPT ![t] = NoRegistry]
        PROVE  /\ reg' \in [Threads -> [ids : SUBSET Factors, db : SUBSET Factors]]
               /\ \A u \in Threads \ {t} : reg'[u] = reg[u]
    BY <1>0, <1>5 DEF InventoryTypeOK
  <1>6. ASSUME Finish(t), UNCHANGED <<stored, asked, faults>>
        PROVE  Moves(t) /\ FactorsTypeOK' /\ pc'[t] = "idle"
    <2>1. /\ pc' \in [Threads -> Place] /\ PerThread(req')
          /\ todo' \in [Threads -> Seq(Transaction)]
          /\ pc'[t] = "idle" /\ Moves(t)
      BY <1>6, FinishMoves
    <2>2. QED
      BY <1>0, <1>6, <2>1 DEF FactorsTypeOK, stored
  <1>7. CASE ExtractActivities(t)
    <2>1. /\ pc[t] = "compute" /\ reg' = [reg EXCEPT ![t] = NoRegistry]
          /\ UNCHANGED <<stored, asked, faults, live, calcs>>
      BY <1>7 DEF ExtractActivities
    <2>2. CASE Finish(t) /\ UNCHANGED items
      <3>1. PerThread(items')
        BY <1>0, <2>2 DEF PerThread
      <3>2. QED
        BY <1>0, <1>5, <1>6, <2>1, <2>2, <3>1 DEF InventoryTypeOK
    <2>3. CASE \E found, r : /\ items' = [items EXCEPT ![t] = found]
                             /\ req' = [req EXCEPT ![t] = r]
                             /\ Goto(t, "seed") /\ UNCHANGED todo
      <3>1. /\ PerThread(items') /\ PerThread(req')
            /\ \A u \in Threads \ {t} : req'[u] = req[u]
        BY <1>0, <2>3, Updated DEF PerThread, FactorsTypeOK
      <3>2. /\ pc' \in [Threads -> Place] /\ pc'[t] = "seed"
            /\ \A u \in Threads \ {t} : pc'[u] = pc[u]
        BY <1>0, <2>3, GotoMoves
      <3>3. PerThread(pc') /\ PerThread(todo')
        BY <1>0, <2>3, <3>2 DEF PerThread
      <3>4. Moves(t) /\ FactorsTypeOK'
        BY <1>0, <2>1, <2>3, <3>1, <3>2, <3>3 DEF Moves, FactorsTypeOK, stored
      <3>5. QED
        BY <1>0, <1>5, <2>1, <3>1, <3>2, <3>4 DEF InventoryTypeOK
    <2>4. QED
      BY <1>7, <2>2, <2>3 DEF ExtractActivities
  <1>8. CASE Calculate(t)
    <2>1. /\ pc[t] = "compute" /\ reg' = [reg EXCEPT ![t] = NoRegistry]
          /\ items' = [items EXCEPT ![t] = <<>>]
          /\ UNCHANGED <<stored, asked, faults, live>> /\ Finish(t)
          /\ calcs' = calcs \/ calcs' = Append(calcs, Inventory(t))
      BY <1>8 DEF Calculate, Store
    <2>2. PerThread(items')
      BY <1>0, <2>1, Updated DEF PerThread
    <2>3. IsSequence(calcs')
      <3>1. IsSequence(calcs)
        BY <1>0 DEF InventoryTypeOK
      <3>2. IsSequence(Append(calcs, Inventory(t)))
        BY <3>1, AppendSequence
      <3>3. QED
        BY <2>1, <3>1, <3>2
    <2>4. Moves(t) /\ FactorsTypeOK' /\ pc'[t] = "idle"
      BY <1>6, <2>1
    <2>5. QED
      BY <1>5, <2>1, <2>2, <2>3, <2>4
  <1>9. QED
    BY <1>2, <1>3, <1>4, <1>7, <1>8 DEF CalcStep

-----------------------------------------------------------------------------
ReportStep(t) ==
  CreateReport(t) \/ ResolveSources(t) \/ Generate(t) \/ StoreReport(t) \/ RecordSystemMessage(t)

\* The request of a thread that writes a report, by where the thread is.
Requests ==
  \A t \in Threads :
    /\ pc[t] \in {"resolve", "provider", "store"} => req[t].s \in Sessions
    /\ pc[t] = "announce" => req[t].s \in Sessions /\ req[t].id \in Nat

LEMMA Drafted ==
  ASSUME NEW t \in Threads, PerThread(drafts), \A u \in Threads : DOMAIN drafts[u] = {"picked", "calc"}
  PROVE  /\ \A x : drafts' = [drafts EXCEPT ![t].picked = x] =>
              /\ PerThread(drafts') /\ (\A u \in Threads : DOMAIN drafts'[u] = {"picked", "calc"})
              /\ drafts'[t].picked = x /\ \A u \in Threads \ {t} : drafts'[u] = drafts[u]
         /\ \A x : drafts' = [drafts EXCEPT ![t].calc = x] =>
              /\ PerThread(drafts') /\ (\A u \in Threads : DOMAIN drafts'[u] = {"picked", "calc"})
              /\ drafts'[t].calc = x /\ drafts'[t].picked = drafts[t].picked
              /\ \A u \in Threads \ {t} : drafts'[u] = drafts[u]
         /\ drafts' = [drafts EXCEPT ![t] = NoDraft] =>
              /\ PerThread(drafts') /\ (\A u \in Threads : DOMAIN drafts'[u] = {"picked", "calc"})
              /\ \A u \in Threads \ {t} : drafts'[u] = drafts[u]
  <1>1. DOMAIN NoDraft = {"picked", "calc"}
    BY DEF NoDraft
  <1>2. QED
    BY <1>1 DEF PerThread

\* A step of a report request: where it takes its thread, and what it leaves alone.
LEMMA ReportMoves ==
  ASSUME ReportsTypeOK, Requests, NEW t \in Threads, ReportStep(t)
  PROVE  /\ Moves(t) /\ FactorsTypeOK'
         /\ pc[t] \in ReportPlace \cup {"idle"} /\ pc'[t] \in ReportPlace \cup {"idle"}
         /\ stored' = stored /\ calcVars' = calcVars
         /\ messages' \in [Sessions -> Seq(Message)]
         /\ \A r \in reports' : IsReport(r)
         /\ PerThread(drafts') /\ \A u \in Threads : DOMAIN drafts'[u] = {"picked", "calc"}
         /\ \A u \in Threads \ {t} : drafts'[u] = drafts[u]
         /\ made' \in Nat
  <1>0. /\ FactorsTypeOK /\ PerThread(pc) /\ PerThread(todo) /\ PerThread(req) /\ PerThread(drafts)
        /\ \A u \in Threads : DOMAIN drafts[u] = {"picked", "calc"}
        /\ ReportPlace \cup {"idle"} \subseteq Place
        /\ messages \in [Sessions -> Seq(Message)] /\ made \in Nat
        /\ \A r \in reports : IsReport(r)
    BY DEF ReportsTypeOK, FactorsTypeOK, PerThread, Place, FactorPlace, ReportPlace
  <1>1. ASSUME Finish(t), UNCHANGED <<stored, asked, faults>>
        PROVE  Moves(t) /\ FactorsTypeOK' /\ pc'[t] = "idle"
    <2>1. /\ pc' \in [Threads -> Place] /\ PerThread(req')
          /\ todo' \in [Threads -> Seq(Transaction)]
          /\ pc'[t] = "idle" /\ Moves(t)
      BY <1>1, FinishMoves
    <2>2. QED
      BY <1>0, <1>1, <2>1 DEF FactorsTypeOK, stored
  <1>2. ASSUME NEW where \in ReportPlace, Goto(t, where), UNCHANGED <<stored, todo, asked, faults>>,
               PerThread(req') /\ \A u \in Threads \ {t} : req'[u] = req[u]
        PROVE  Moves(t) /\ FactorsTypeOK' /\ pc'[t] = where
    <2>1. /\ pc' \in [Threads -> Place] /\ pc'[t] = where
          /\ \A u \in Threads \ {t} : pc'[u] = pc[u]
      BY <1>0, <1>2, GotoMoves
    <2>2. PerThread(pc') /\ PerThread(todo')
      BY <1>0, <1>2, <2>1 DEF PerThread
    <2>3. QED
      BY <1>0, <1>2, <2>1, <2>2 DEF Moves, FactorsTypeOK, stored
  <1>3. CASE CreateReport(t)
    <2>1. PICK r, x :
            /\ Arrive(t, r, "resolve")
            /\ drafts' = [drafts EXCEPT ![t].picked = x]
            /\ UNCHANGED <<stored, todo, faults, calcVars, messages, reports, made>>
      BY <1>3 DEF CreateReport
    <2>2. /\ pc' \in [Threads -> Place] /\ PerThread(req') /\ asked' \in Int
          /\ pc[t] = "idle" /\ pc'[t] = "resolve"
          /\ \A u \in Threads \ {t} : pc'[u] = pc[u] /\ req'[u] = req[u]
      BY <1>0, <2>1, ArriveMoves DEF Place, ReportPlace
    <2>3. PerThread(pc') /\ PerThread(todo')
      BY <1>0, <2>1, <2>2 DEF PerThread
    <2>4. Moves(t) /\ FactorsTypeOK'
      BY <1>0, <2>1, <2>2, <2>3 DEF Moves, FactorsTypeOK, stored
    <2>5. /\ PerThread(drafts') /\ \A u \in Threads : DOMAIN drafts'[u] = {"picked", "calc"}
          /\ \A u \in Threads \ {t} : drafts'[u] = drafts[u]
      BY <1>0, <2>1, Drafted
    <2>6. QED
      BY <1>0, <2>1, <2>2, <2>4, <2>5 DEF ReportPlace
  <1>4. CASE ResolveSources(t)
    <2>1. /\ pc[t] = "resolve"
          /\ UNCHANGED <<stored, asked, faults, calcVars, messages, reports, made>>
          /\ \/ /\ drafts' = [drafts EXCEPT ![t].calc = ResolvedCalculation(req[t])]
                /\ Goto(t, "provider") /\ UNCHANGED <<todo, req>>
             \/ drafts' = [drafts EXCEPT ![t] = NoDraft] /\ Finish(t)
      BY <1>4 DEF ResolveSources
    <2>2. /\ PerThread(drafts') /\ \A u \in Threads : DOMAIN drafts'[u] = {"picked", "calc"}
          /\ \A u \in Threads \ {t} : drafts'[u] = drafts[u]
      BY <1>0, <2>1, Drafted
    <2>3. Moves(t) /\ FactorsTypeOK' /\ pc'[t] \in {"provider", "idle"}
      <3>1. CASE Goto(t, "provider") /\ UNCHANGED <<todo, req>>
        BY <1>0, <1>2, <2>1, <3>1 DEF ReportPlace
      <3>2. CASE Finish(t)
        BY <1>1, <2>1, <3>2
      <3>3. QED
        BY <2>1, <3>1, <3>2
    <2>4. QED
      BY <1>0, <2>1, <2>2, <2>3 DEF ReportPlace
  <1>5. CASE Generate(t)
    <2>1. /\ pc[t] = "provider"
          /\ UNCHANGED <<stored, asked, faults, calcVars, messages, reports, made>>
          /\ \/ Goto(t, "store") /\ UNCHANGED <<todo, req, drafts>>
             \/ drafts' = [drafts EXCEPT ![t] = NoDraft] /\ Finish(t)
      BY <1>5 DEF Generate
    <2>2. /\ PerThread(drafts') /\ \A u \in Threads : DOMAIN drafts'[u] = {"picked", "calc"}
          /\ \A u \in Threads \ {t} : drafts'[u] = drafts[u]
      <3>1. CASE drafts' = drafts
        BY <1>0, <3>1 DEF PerThread
      <3>2. CASE drafts' = [drafts EXCEPT ![t] = NoDraft]
        BY <1>0, <3>2, Drafted
      <3>3. QED
        BY <2>1, <3>1, <3>2
    <2>3. Moves(t) /\ FactorsTypeOK' /\ pc'[t] \in {"store", "idle"}
      <3>1. CASE Goto(t, "store") /\ UNCHANGED <<todo, req>>
        BY <1>0, <1>2, <2>1, <3>1 DEF ReportPlace
      <3>2. CASE Finish(t)
        BY <1>1, <2>1, <3>2
      <3>3. QED
        BY <2>1, <3>1, <3>2
    <2>4. QED
      BY <1>0, <2>1, <2>2, <2>3 DEF ReportPlace
  <1>6. CASE StoreReport(t)
    <2> DEFINE new == [id |-> made', s |-> req[t].s, type |-> req[t].type, picked |-> drafts[t].picked,
                       calc |-> drafts[t].calc, text |-> "generated", named |-> req[t].calc # 0,
                       newest |-> req[t].newest, late |-> req[t].s \notin live, silent |-> FALSE]
    <2>1. /\ pc[t] = "store" /\ made' = made + 1 /\ reports' = reports \cup {new}
          /\ req' = [req EXCEPT ![t] = [op |-> "report", s |-> req[t].s, id |-> made']]
          /\ drafts' = [drafts EXCEPT ![t] = NoDraft] /\ Goto(t, "announce")
          /\ UNCHANGED <<stored, todo, asked, faults, calcVars, messages>>
      BY <1>6 DEF StoreReport
    <2>2. IsReport(new) /\ made' \in Nat
      BY <1>0, <2>1 DEF IsReport
    <2>3. PerThread(req') /\ \A u \in Threads \ {t} : req'[u] = req[u]
      BY <1>0, <2>1, Updated DEF PerThread
    <2>4. Moves(t) /\ FactorsTypeOK' /\ pc'[t] = "announce"
      BY <1>2, <2>1, <2>3 DEF ReportPlace
    <2>5. /\ PerThread(drafts') /\ \A u \in Threads : DOMAIN drafts'[u] = {"picked", "calc"}
          /\ \A u \in Threads \ {t} : drafts'[u] = drafts[u]
      BY <1>0, <2>1, Drafted
    <2> HIDE DEF new
    <2>6. QED
      BY <1>0, <2>1, <2>2, <2>4, <2>5 DEF ReportPlace
  <1>7. CASE RecordSystemMessage(t)
    <2>1. /\ pc[t] = "announce" /\ Finish(t)
          /\ UNCHANGED <<stored, asked, faults, calcVars, reports, drafts, made>>
          /\ \/ messages' = messages
             \/ messages' = [messages EXCEPT ![req[t].s] =
                               Append(@, [role |-> "system", about |-> req[t].id])]
      BY <1>7 DEF RecordSystemMessage
    <2>2. [role |-> "system", about |-> req[t].id] \in Message /\ req[t].s \in Sessions
      BY <2>1 DEF Requests, Message
    <2>3. messages' \in [Sessions -> Seq(Message)]
      <3>1. Append(messages[req[t].s], [role |-> "system", about |-> req[t].id]) \in Seq(Message)
        BY <1>0, <2>2, AppendProperties
      <3>2. QED
        BY <1>0, <2>1, <2>2, <3>1
    <2>4. Moves(t) /\ FactorsTypeOK' /\ pc'[t] = "idle"
      BY <1>1, <2>1
    <2>5. PerThread(drafts')
      BY <1>0, <2>1 DEF PerThread
    <2>6. QED
      BY <1>0, <2>1, <2>3, <2>4, <2>5 DEF ReportPlace
  <1>8. QED
    BY <1>3, <1>4, <1>5, <1>6, <1>7 DEF ReportStep

-----------------------------------------------------------------------------
(* The types are kept *)

\* The others' steps: an answered ask, a deleted session, an edited report, a crash.
LEMMA RestMoves ==
  ASSUME ReportsTypeOK, Requests,
         (\E s \in Sessions : AnswerAsk(s) \/ DeleteSession(s)) \/ UpdateReport \/ CrashAll
  PROVE  /\ FactorsTypeOK' /\ stored' = stored /\ calcs' = calcs /\ live' \subseteq live
         /\ reg' \in [Threads -> [ids : SUBSET Factors, db : SUBSET Factors]]
         /\ PerThread(items')
         /\ messages' \in [Sessions -> Seq(Message)]
         /\ \A r \in reports' : IsReport(r)
         /\ PerThread(drafts') /\ \A u \in Threads : DOMAIN drafts'[u] = {"picked", "calc"}
         /\ made' = made
         /\ \/ factorVars' = factorVars /\ reg' = reg /\ drafts' = drafts
            \/ \A t \in Threads : pc'[t] = "idle"
  <1>0. /\ FactorsTypeOK /\ InventoryTypeOK /\ PerThread(req) /\ PerThread(drafts)
        /\ \A u \in Threads : DOMAIN drafts[u] = {"picked", "calc"}
        /\ messages \in [Sessions -> Seq(Message)]
        /\ \A r \in reports : IsReport(r)
    BY DEF ReportsTypeOK, FactorsTypeOK
  <1>1. ASSUME UNCHANGED <<factorVars, calcs, reg, items, drafts>>
        PROVE  /\ FactorsTypeOK' /\ stored' = stored
               /\ reg' \in [Threads -> [ids : SUBSET Factors, db : SUBSET Factors]]
               /\ PerThread(items') /\ PerThread(drafts')
               /\ \A u \in Threads : DOMAIN drafts'[u] = {"picked", "calc"}
    <2>1. UNCHANGED <<catalog, sources, factor, alias, jobs, pc, todo, req, asked, faults>>
      BY <1>1 DEF factorVars
    <2>2. FactorsTypeOK' /\ stored' = stored
      BY <1>0, <2>1 DEF FactorsTypeOK, PerThread, stored
    <2>3. QED
      BY <1>0, <1>1, <2>2 DEF InventoryTypeOK, PerThread
  <1>2. ASSUME NEW s \in Sessions, AnswerAsk(s)
        PROVE  /\ UNCHANGED <<factorVars, calcs, reg, items, drafts>>
               /\ live' = live /\ reports' = reports /\ made' = made
               /\ messages' \in [Sessions -> Seq(Message)]
    <2>1. PICK cites \in Citings :
            /\ messages' = [messages EXCEPT ![s] = Append(@, [role |-> "assistant", cites |-> cites])]
            /\ UNCHANGED <<factorVars, calcVars, reports, drafts, made>>
      BY <1>2 DEF AnswerAsk
    <2>2. [role |-> "assistant", cites |-> cites] \in Message
      BY DEF Message
    <2>3. Append(messages[s], [role |-> "assistant", cites |-> cites]) \in Seq(Message)
      BY <1>0, <2>2, AppendProperties
    <2>4. QED
      BY <1>0, <2>1, <2>3 DEF calcVars
  <1>3. ASSUME NEW s \in Sessions, DeleteSession(s)
        PROVE  /\ UNCHANGED <<factorVars, calcs, reg, items, drafts>>
               /\ live' \subseteq live /\ reports' \subseteq reports /\ made' = made
               /\ messages' \in [Sessions -> Seq(Message)]
    BY <1>0, <1>3 DEF DeleteSession
  <1>4. CASE UpdateReport
    <2>1. PICK r \in reports :
            /\ reports' = (reports \ {r}) \cup {[r EXCEPT !.text = "edited"]}
            /\ UNCHANGED <<factorVars, calcVars, messages, drafts, made>>
      BY <1>4 DEF UpdateReport
    <2>2. IsReport([r EXCEPT !.text = "edited"])
      BY <1>0 DEF IsReport
    <2>3. \A x \in reports' : IsReport(x)
      BY <1>0, <2>1, <2>2
    <2>4. QED
      BY <1>0, <1>1, <2>1, <2>3 DEF calcVars
  <1>5. CASE CrashAll
    <2>1. /\ pc' = [t \in Threads |-> "idle"] /\ todo' = [t \in Threads |-> <<>>]
          /\ req' = [t \in Threads |-> None] /\ faults' = faults + 1
          /\ UNCHANGED <<stored, asked, live, calcs, messages, made>>
          /\ reports' = {[r EXCEPT !.silent = @ \/ r.id \in Announcing] : r \in reports}
          /\ reg' = [t \in Threads |-> NoRegistry] /\ items' = [t \in Threads |-> <<>>]
          /\ drafts' = [t \in Threads |-> NoDraft]
      BY <1>5 DEF CrashAll, Crash
    <2>2. /\ pc' \in [Threads -> Place] /\ todo' \in [Threads -> Seq(Transaction)]
          /\ PerThread(req')
      BY <2>1 DEF Place, FactorPlace, PerThread
    <2>3. FactorsTypeOK'
      <3>1. UNCHANGED <<catalog, sources, factor, alias, jobs, asked>>
        BY <2>1 DEF stored
      <3>2. faults' \in Int
        BY <1>0, <2>1 DEF FactorsTypeOK
      <3>3. QED
        BY <1>0, <2>2, <3>1, <3>2 DEF FactorsTypeOK
    <2>4. \A r \in reports : IsReport([r EXCEPT !.silent = @ \/ r.id \in Announcing])
      BY <1>0 DEF IsReport
    <2>5. NoRegistry \in [ids : SUBSET Factors, db : SUBSET Factors]
      BY DEF NoRegistry
    <2>6. PerThread(items') /\ PerThread(drafts')
      BY <2>1 DEF PerThread
    <2>7. \A u \in Threads : DOMAIN drafts'[u] = {"picked", "calc"}
      BY <2>1 DEF NoDraft
    <2>8. reg' \in [Threads -> [ids : SUBSET Factors, db : SUBSET Factors]]
      BY <2>1, <2>5
    <2>9. QED
      BY <1>0, <2>1, <2>3, <2>4, <2>6, <2>7, <2>8
  <1>6. QED
    BY <1>0, <1>1, <1>2, <1>3, <1>4, <1>5

LEMMA WatchIs ==
  ASSUME ReportsTypeOK, Watch
  PROVE  /\ offSince' \in [Threads -> SUBSET Factors]
         /\ \A t \in Threads : /\ offSince'[t] \subseteq Off'
                               /\ pc[t] # "idle" => offSince'[t] \subseteq offSince[t]
  <1>1. Off' \subseteq Factors
    BY DEF Off, Factors
  <1>2. QED
    BY <1>1 DEF Watch

\* Every step, by who takes it.
LEMMA NextIs ==
  ASSUME Next
  PROVE  /\ Watch
         /\ \/ \E t \in Threads : \/ FactorStep(t) /\ UNCHANGED <<calcVars, reportVars>>
                                  \/ CalcStep(t) /\ UNCHANGED reportVars
                                  \/ ReportStep(t)
            \/ (\E s \in Sessions : AnswerAsk(s) \/ DeleteSession(s)) \/ UpdateReport \/ CrashAll
  BY DEF Next, ReportStep

-----------------------------------------------------------------------------
TypeInv == ReportsTypeOK /\ Writing /\ Requests

LEMMA TypeInit == Init => TypeInv
  <1> SUFFICES ASSUME Init PROVE TypeInv
    OBVIOUS
  <1>1. /\ catalog = {} /\ sources = {} /\ jobs = <<>> /\ asked = 0 /\ faults = 0
        /\ factor = [f \in Factors |-> Absent] /\ alias = [f \in Factors |-> None]
        /\ pc = [t \in Threads |-> "idle"] /\ todo = [t \in Threads |-> <<>>]
        /\ req = [t \in Threads |-> None]
        /\ live = Sessions /\ calcs = <<>> /\ reg = [t \in Threads |-> NoRegistry]
        /\ items = [t \in Threads |-> <<>>] /\ offSince = [t \in Threads |-> {}]
        /\ messages = [s \in Sessions |-> <<>>] /\ reports = {} /\ made = 0
        /\ drafts = [t \in Threads |-> NoDraft]
    BY DEF Init, InventoryInit, FactorsInit
  <1>2. /\ Absent \in FactorRow
        /\ NoRegistry \in [ids : SUBSET Factors, db : SUBSET Factors]
        /\ DOMAIN NoDraft = {"picked", "calc"}
    BY DEF Absent, FactorRow, NoRegistry, NoDraft
  <1>3. /\ jobs \in Seq(JobName) /\ IsSequence(calcs)
        /\ messages \in [Sessions -> Seq(Message)]
        /\ todo \in [Threads -> Seq(Transaction)]
    BY <1>1 DEF IsSequence
  <1>4. FactorsTypeOK
    BY <1>1, <1>2, <1>3 DEF FactorsTypeOK, PerThread, Place, FactorPlace
  <1>5. InventoryTypeOK
    BY <1>1, <1>2, <1>3 DEF InventoryTypeOK, PerThread
  <1>6. ReportsTypeOK
    BY <1>1, <1>2, <1>3, <1>4, <1>5 DEF ReportsTypeOK, PerThread
  <1>7. Writing /\ Requests
    BY <1>1 DEF Writing, Requests
  <1>8. QED
    BY <1>6, <1>7 DEF TypeInv

LEMMA TypeStep == TypeInv /\ [Next]_vars => TypeInv'
  <1> SUFFICES ASSUME TypeInv, [Next]_vars PROVE TypeInv'
    OBVIOUS
  <1>0. /\ ReportsTypeOK /\ Writing /\ Requests
        /\ FactorsTypeOK /\ InventoryTypeOK /\ PerThread(drafts)
        /\ \A u \in Threads : DOMAIN drafts[u] = {"picked", "calc"}
        /\ messages \in [Sessions -> Seq(Message)] /\ made \in Nat
        /\ \A r \in reports : IsReport(r)
    BY DEF TypeInv, ReportsTypeOK
  <1>1. CASE UNCHANGED vars
    <2>1. UNCHANGED <<catalog, sources, factor, alias, jobs, pc, todo, req, asked, faults>>
      BY <1>1 DEF vars, factorVars
    <2>2. UNCHANGED <<live, calcs, reg, items, offSince, messages, reports, drafts, made>>
      BY <1>1 DEF vars, calcVars, reportVars
    <2>3. FactorsTypeOK'
      BY <1>0, <2>1 DEF FactorsTypeOK, PerThread
    <2>4. InventoryTypeOK'
      BY <1>0, <2>2 DEF InventoryTypeOK, PerThread
    <2>5. ReportsTypeOK'
      BY <1>0, <2>2, <2>3, <2>4 DEF ReportsTypeOK, PerThread
    <2>6. Writing' /\ Requests'
      BY <1>0, <2>1 DEF Writing, Requests
    <2>7. QED
      BY <2>5, <2>6 DEF TypeInv
  <1>2. ASSUME Watch, FactorsTypeOK', live' \subseteq live, IsSequence(calcs'),
               reg' \in [Threads -> [ids : SUBSET Factors, db : SUBSET Factors]],
               PerThread(items'), messages' \in [Sessions -> Seq(Message)],
               \A r \in reports' : IsReport(r), PerThread(drafts'),
               \A u \in Threads : DOMAIN drafts'[u] = {"picked", "calc"}, made' \in Nat
        PROVE  ReportsTypeOK'
    <2>1. InventoryTypeOK'
      BY <1>0, <1>2, WatchIs DEF InventoryTypeOK
    <2>2. QED
      BY <1>2, <2>1 DEF ReportsTypeOK
  <1>3. ASSUME UNCHANGED calcVars
        PROVE  /\ live' \subseteq live /\ IsSequence(calcs') /\ PerThread(items')
               /\ reg' \in [Threads -> [ids : SUBSET Factors, db : SUBSET Factors]]
    BY <1>0, <1>3 DEF InventoryTypeOK, calcVars, PerThread
  <1>4. ASSUME UNCHANGED reportVars
        PROVE  /\ messages' \in [Sessions -> Seq(Message)] /\ made' \in Nat
               /\ \A r \in reports' : IsReport(r) /\ PerThread(drafts')
               /\ PerThread(drafts') /\ \A u \in Threads : DOMAIN drafts'[u] = {"picked", "calc"}
    BY <1>0, <1>4 DEF reportVars, PerThread
  \* The other threads keep what they had to write and their requests.
  <1>5. ASSUME NEW t \in Threads, Moves(t),
               pc'[t] = "write" => \E job \in JobName : Plan(todo'[t], job),
               pc'[t] \in {"resolve", "provider", "store"} => req'[t].s \in Sessions,
               pc'[t] = "announce" => req'[t].s \in Sessions /\ req'[t].id \in Nat
        PROVE  Writing' /\ Requests'
    BY <1>0, <1>5 DEF Moves, Writing, Requests
  <1>6. CASE Next
    <2>0. Watch
      BY <1>6, NextIs
    <2>1. ASSUME NEW t \in Threads, FactorStep(t), UNCHANGED <<calcVars, reportVars>>
          PROVE  TypeInv'
      <3>1. /\ Moves(t) /\ pc'[t] \in FactorPlace /\ FactorsTypeOK'
            /\ pc'[t] = "write" => \E job \in JobName : Plan(todo'[t], job)
        BY <1>0, <2>1, FactorMoves
      <3>2. pc'[t] \notin {"resolve", "provider", "store", "announce"}
        BY <3>1 DEF FactorPlace
      <3>3. Writing' /\ Requests'
        BY <1>5, <3>1, <3>2
      <3>4. ReportsTypeOK'
        BY <1>2, <1>3, <1>4, <2>0, <2>1, <3>1
      <3>5. QED
        BY <3>3, <3>4 DEF TypeInv
    <2>2. ASSUME NEW t \in Threads, CalcStep(t), UNCHANGED reportVars
          PROVE  TypeInv'
      <3>1. /\ Moves(t) /\ FactorsTypeOK' /\ pc'[t] \in {"idle", "seed", "compute"}
            /\ live' \subseteq live /\ IsSequence(calcs') /\ PerThread(items')
            /\ reg' \in [Threads -> [ids : SUBSET Factors, db : SUBSET Factors]]
        BY <1>0, <2>2, CalcMoves
      <3>2. Writing' /\ Requests'
        BY <1>5, <3>1
      <3>3. ReportsTypeOK'
        BY <1>2, <1>4, <2>0, <2>2, <3>1
      <3>4. QED
        BY <3>2, <3>3 DEF TypeInv
    <2>3. ASSUME NEW t \in Threads, ReportStep(t)
          PROVE  TypeInv'
      <3>1. /\ Moves(t) /\ FactorsTypeOK' /\ pc'[t] \in ReportPlace \cup {"idle"}
            /\ calcVars' = calcVars /\ messages' \in [Sessions -> Seq(Message)]
            /\ \A r \in reports' : IsReport(r)
            /\ PerThread(drafts') /\ \A u \in Threads : DOMAIN drafts'[u] = {"picked", "calc"}
            /\ made' \in Nat
        BY <1>0, <2>3, ReportMoves
      <3>2. ReportsTypeOK'
        BY <1>2, <1>3, <2>0, <3>1
      <3>3. /\ pc'[t] \in {"resolve", "provider", "store"} => req'[t].s \in Sessions
            /\ pc'[t] = "announce" => req'[t].s \in Sessions /\ req'[t].id \in Nat
        <4>1. CASE CreateReport(t)
          <5>1. PICK r : r.s \in Sessions /\ Arrive(t, r, "resolve")
            BY <1>0, <4>1 DEF CreateReport, InventoryTypeOK
          <5>2. QED
            BY <1>0, <5>1, ArriveMoves DEF Place, ReportPlace
        <4>2. CASE ResolveSources(t) \/ Generate(t)
          <5>1. /\ pc[t] \in {"resolve", "provider"}
                /\ \/ Finish(t)
                   \/ req' = req /\ (Goto(t, "provider") \/ Goto(t, "store"))
            BY <4>2 DEF ResolveSources, Generate
          <5>2. CASE Finish(t)
            BY <1>0, <5>2, FinishMoves
          <5>3. CASE req' = req /\ (Goto(t, "provider") \/ Goto(t, "store"))
            BY <1>0, <5>1, <5>3, GotoMoves DEF Requests, Place, ReportPlace
          <5>4. QED
            BY <5>1, <5>2, <5>3
        <4>3. CASE StoreReport(t)
          <5>1. /\ pc[t] = "store" /\ Goto(t, "announce")
                /\ req' = [req EXCEPT ![t] = [op |-> "report", s |-> req[t].s, id |-> made']]
            BY <4>3 DEF StoreReport
          <5>2. req'[t] = [op |-> "report", s |-> req[t].s, id |-> made'] /\ pc'[t] = "announce"
            BY <1>0, <5>1, Updated, GotoMoves DEF FactorsTypeOK, Place, ReportPlace, PerThread
          <5>3. QED
            BY <1>0, <3>1, <5>1, <5>2 DEF Requests
        <4>4. CASE RecordSystemMessage(t)
          <5>1. pc'[t] = "idle"
            BY <1>0, <4>4, FinishMoves DEF RecordSystemMessage
          <5>2. QED
            BY <5>1
        <4>5. QED
          BY <2>3, <4>1, <4>2, <4>3, <4>4 DEF ReportStep
      <3>4. Writing' /\ Requests'
        <4>1. pc'[t] # "write"
          BY <3>1 DEF ReportPlace
        <4>2. QED
          BY <1>5, <3>1, <3>3, <4>1
      <3>5. QED
        BY <3>2, <3>4 DEF TypeInv
    <2>4. CASE (\E s \in Sessions : AnswerAsk(s) \/ DeleteSession(s)) \/ UpdateReport \/ CrashAll
      <3>1. /\ FactorsTypeOK' /\ calcs' = calcs /\ live' \subseteq live
            /\ reg' \in [Threads -> [ids : SUBSET Factors, db : SUBSET Factors]]
            /\ PerThread(items') /\ messages' \in [Sessions -> Seq(Message)]
            /\ \A r \in reports' : IsReport(r)
            /\ PerThread(drafts') /\ \A u \in Threads : DOMAIN drafts'[u] = {"picked", "calc"}
            /\ made' = made
            /\ factorVars' = factorVars \/ \A t \in Threads : pc'[t] = "idle"
        BY <1>0, <2>4, RestMoves
      <3>2. IsSequence(calcs') /\ made' \in Nat
        BY <1>0, <3>1 DEF InventoryTypeOK
      <3>3. ReportsTypeOK'
        BY <1>2, <2>0, <3>1, <3>2
      <3>4. Writing' /\ Requests'
        BY <1>0, <3>1 DEF Writing, Requests, factorVars
      <3>5. QED
        BY <3>3, <3>4 DEF TypeInv
    <2>5. QED
      BY <1>6, <2>1, <2>2, <2>3, <2>4, NextIs
  <1>7. QED
    BY <1>1, <1>6

\* The types of the factor database, the calculations and the reports, that a
\* thread at "write" has rows left and the job of its import last, and that a
\* report request names a session.
THEOREM ReportsTypeCorrect == Spec => []TypeInv
  BY TypeInit, TypeStep, PTL DEF Spec

-----------------------------------------------------------------------------
(* The seeding *)

\* What a transaction of an import leaves in the tables, for good.
Done(w) ==
  /\ w.kind = "catalog" => w.x \in catalog
  /\ w.kind = "source" => w.x \in sources
  /\ w.kind = "record" => factor[w.x].st # "none"
  /\ w.kind = "alias" => alias[w.x] # None

SeedTxs == UNION {RowTxs(r) : r \in ToSet(Rows)}

\* An import of the snapshot that is running has every row behind it or before
\* it, and its job comes after them.
Seeding ==
  /\ \A t \in Threads : pc[t] = "write" /\ Plan(todo[t], "seed") =>
       \A w \in SeedTxs : Done(w) \/ Has(todo[t], w)
  /\ "seed" \in ToSet(jobs) => \A w \in SeedTxs : Done(w)

LEMMA SeedTxsAre ==
  \A w \in SeedTxs : w \in RowTx /\ (w.kind \in {"record", "alias"} => w.x \in Factors)
  <1> SUFFICES ASSUME NEW r \in ToSet(Rows), NEW w \in RowTxs(r)
               PROVE  w \in RowTx /\ (w.kind \in {"record", "alias"} => w.x \in Factors)
    BY DEF SeedTxs
  <1>1. r \in Thing /\ "ccdb" \in Rev /\ "ccdb" \in Thing /\ (r \in Readable => r \in Factors)
    BY DEF Thing, Row, Rev, Factors
  <1>2. \/ w = Tx("catalog", r, None)
        \/ /\ r \in Readable
           /\ \/ w = Tx("source", "ccdb", None) \/ w = Tx("record", r, "ccdb")
              \/ w = Tx("alias", r, "ccdb")
    BY DEF RowTxs
  <1>3. QED
    BY <1>1, <1>2 DEF Tx, RowTx

\* What is done stays done.
LEMMA DoneStays ==
  ASSUME NEW w \in SeedTxs, Done(w), catalog \subseteq catalog', sources \subseteq sources',
         \A f \in Factors : factor[f].st # "none" => factor'[f].st # "none",
         \A f \in Factors : alias[f] # None => alias'[f] # None
  PROVE  Done(w)'
  BY SeedTxsAre DEF Done

\* The plan of an import has one job.
LEMMA OneJob ==
  ASSUME NEW q, NEW a \in JobName, NEW b \in JobName, Plan(q, a), Plan(q, b)
  PROVE  a = b
  BY DEF Plan, Tx

\* A thread that writes takes one transaction off its plan.
LEMMA WriteRowIs ==
  ASSUME TypeInv, NEW t \in Threads, WriteRow(t), NEW job \in JobName, Plan(todo[t], job)
  PROVE  LET q == todo[t] IN
         /\ pc[t] = "write" /\ q \in Seq(Transaction) /\ Len(q) \in Nat \ {0}
         /\ Head(q) \in Transaction
         /\ \A w : Has(q, w) => w = Head(q) \/ Has(Tail(q), w)
         /\ todo'[t] = Tail(q) /\ \A u \in Threads \ {t} : todo'[u] = todo[u]
         /\ Len(q) # 1 => Head(q) \in RowTx /\ pc' = pc /\ Plan(Tail(q), job)
         /\ Len(q) = 1 => Head(q) = Tx("job", job, None) /\ pc'[t] # "write"
  <1> DEFINE q == todo[t]
  <1>1. /\ q \in Seq(Transaction) /\ q # <<>> /\ Len(q) \in Nat \ {0}
        /\ Head(q) = q[1] /\ 1 \in 1..Len(q)
        /\ Tail(q) \in Seq(Transaction) /\ Len(Tail(q)) = Len(q) - 1
        /\ \A i \in 1..Len(Tail(q)) : Tail(q)[i] = q[i + 1]
    BY HeadTailProperties, LenProperties DEF Plan
  <1>2. ASSUME NEW w, Has(q, w), w # Head(q)
        PROVE  Has(Tail(q), w)
    <2>1. PICK k \in 1..Len(q) : q[k] = w
      BY <1>2 DEF Has
    <2>2. k # 1
      BY <1>1, <1>2, <2>1
    <2>3. \A n \in Nat \ {0} : \A i \in 1..n : i # 1 => i - 1 \in 1..(n - 1) /\ (i - 1) + 1 = i
      OBVIOUS
    <2>4. k - 1 \in 1..Len(Tail(q)) /\ (k - 1) + 1 = k
      BY <1>1, <2>1, <2>2, <2>3
    <2>5. Tail(q)[k - 1] = w
      BY <1>1, <2>1, <2>4
    <2>6. QED
      BY <2>4, <2>5 DEF Has
  <1>3. ASSUME Len(q) # 1 PROVE Head(q) \in RowTx /\ pc' = pc /\ Plan(Tail(q), job)
    <2>1. \A n \in Nat \ {0} : n # 1 => n - 1 \in 1..n /\ n - 1 # 0
      OBVIOUS
    <2>2. Len(Tail(q)) \in 1..Len(q) /\ Len(Tail(q)) # 0
      BY <1>1, <1>3, <2>1
    <2>3. Tail(q)[Len(Tail(q))] = q[Len(q)]
      BY <1>1, <2>2
    <2>4. \A i \in 1..Len(Tail(q)) : i # Len(Tail(q)) => i + 1 \in 1..Len(q) /\ i + 1 # Len(q)
      BY <1>1
    <2>5. Tail(q) # <<>>
      <3>1. Len(<<>>) = 0
        OBVIOUS
      <3>2. QED
        BY <2>2, <3>1
    <2>6. \A i \in 1..Len(Tail(q)) : i # Len(Tail(q)) => Tail(q)[i] \in RowTx
      BY <1>1, <2>4 DEF Plan
    <2>7. Plan(Tail(q), job)
      BY <1>1, <2>3, <2>5, <2>6 DEF Plan
    <2>8. QED
      BY <1>1, <1>3, <2>7 DEF WriteRow, Plan
  <1>4. /\ pc[t] = "write" /\ todo'[t] = Tail(q)
        /\ \A u \in Threads \ {t} : todo'[u] = todo[u]
    BY <1>1 DEF WriteRow, TypeInv, ReportsTypeOK, FactorsTypeOK
  <1>5. ASSUME Len(q) = 1 PROVE Head(q) = Tx("job", job, None) /\ pc'[t] # "write"
    BY <1>1, <1>5 DEF Plan, WriteRow, AfterImport, Goto, TypeInv, ReportsTypeOK, FactorsTypeOK
  <1>6. Head(q) \in Transaction
    BY <1>1
  <1> HIDE DEF q
  <1>7. QED
    BY <1>1, <1>2, <1>3, <1>4, <1>5, <1>6 DEF q

-----------------------------------------------------------------------------
\* The tables only grow.
Grows ==
  /\ catalog \subseteq catalog' /\ sources \subseteq sources'
  /\ \A f \in Factors : factor[f].st # "none" => factor'[f].st # "none"
  /\ \A f \in Factors : alias[f] # None => alias'[f] # None

LEMMA WriteDoes ==
  ASSUME TypeInv, NEW t \in Threads, WriteRow(t), Head(todo[t]) \in Transaction
  PROVE  LET w == Head(todo[t]) IN
         /\ Grows
         /\ \A v \in SeedTxs : v = w => Done(v)'
         /\ IF w.kind = "job" THEN jobs' = Append(jobs, w.x) ELSE jobs' = jobs
  <1> DEFINE w == Head(todo[t])
  <1>0. /\ factor \in [Factors -> FactorRow] /\ alias \in [Factors -> Rev \cup {None}]
        /\ w.kind \in {"record", "alias"} => w.rev \in Rev
        /\ w.kind \in {"catalog", "source", "record", "alias", "job"}
    BY DEF TypeInv, ReportsTypeOK, FactorsTypeOK, Transaction, RowTx, JobTx
  <1>1. None \notin Rev
    BY FactorsAssumption DEF Rev
  <1>2. \/ w.kind = "catalog" /\ UpsertCatalogEntry(w.x)
        \/ w.kind = "source" /\ UpsertSource(w.x)
        \/ w.kind = "record" /\ UpsertFactorRecord(w.x, w.rev)
        \/ w.kind = "alias" /\ ReplaceAliases(w.x, w.rev)
        \/ w.kind = "job" /\ CreateImportJob(w.x)
    BY DEF WriteRow
  <1>3. w \in SeedTxs => (w.kind \in {"record", "alias"} => w.x \in Factors)
    BY SeedTxsAre
  <1> HIDE DEF w
  <1>4. CASE w.kind = "catalog" /\ UpsertCatalogEntry(w.x)
    <2>1. \A v \in SeedTxs : v = w => Done(v)'
      BY <1>4 DEF UpsertCatalogEntry, Done
    <2>2. QED
      BY <1>4, <2>1 DEF UpsertCatalogEntry, Grows, w
  <1>5. CASE w.kind = "source" /\ UpsertSource(w.x)
    <2>1. \A v \in SeedTxs : v = w => Done(v)'
      BY <1>5 DEF UpsertSource, Done
    <2>2. QED
      BY <1>5, <2>1 DEF UpsertSource, Grows, w
  <1>6. CASE w.kind = "record" /\ UpsertFactorRecord(w.x, w.rev)
    <2>1. /\ factor' = [factor EXCEPT ![w.x] = [st |-> "on", rev |-> w.rev]]
          /\ UNCHANGED <<catalog, sources, alias, jobs>>
      BY <1>6 DEF UpsertFactorRecord
    <2>2. Grows
      BY <1>0, <2>1 DEF Grows
    <2>3. w \in SeedTxs => factor'[w.x].st # "none"
      BY <1>0, <1>3, <1>6, <2>1
    <2>4. \A v \in SeedTxs : v = w => Done(v)'
      BY <1>6, <2>3 DEF Done
    <2>5. QED
      BY <1>6, <2>1, <2>2, <2>4 DEF w
  <1>7. CASE w.kind = "alias" /\ ReplaceAliases(w.x, w.rev)
    <2>1. /\ alias' = [alias EXCEPT ![w.x] = w.rev]
          /\ UNCHANGED <<catalog, sources, factor, jobs>>
      BY <1>7 DEF ReplaceAliases
    <2>2. Grows
      BY <1>0, <1>1, <1>7, <2>1 DEF Grows
    <2>3. w \in SeedTxs => alias'[w.x] # None
      BY <1>0, <1>1, <1>3, <1>7, <2>1
    <2>4. \A v \in SeedTxs : v = w => Done(v)'
      BY <1>7, <2>3 DEF Done
    <2>5. QED
      BY <1>7, <2>1, <2>2, <2>4 DEF w
  <1>8. CASE w.kind = "job" /\ CreateImportJob(w.x)
    <2>1. \A v \in SeedTxs : v = w => Done(v)'
      BY <1>8 DEF CreateImportJob, Done
    <2>2. QED
      BY <1>8, <2>1 DEF CreateImportJob, Grows, w
  <1>9. QED
    BY <1>2, <1>4, <1>5, <1>6, <1>7, <1>8

\* The other steps of the factor database: an import of the snapshot starts with
\* all its rows, and nothing is taken out of the tables.
LEMMA FactorRest ==
  ASSUME TypeInv, NEW t \in Threads, FactorStep(t), ~WriteRow(t)
  PROVE  /\ Grows /\ jobs' = jobs
         /\ pc'[t] = "write" /\ Plan(todo'[t], "seed") => \A w \in SeedTxs : Has(todo'[t], w)
  <1>0. /\ factor \in [Factors -> FactorRow] /\ todo \in [Threads -> Seq(Transaction)]
        /\ pc \in [Threads -> Place] /\ {"seed", "live", "json", "files"} = JobName
        /\ ReportsTypeOK
    BY DEF TypeInv, ReportsTypeOK, FactorsTypeOK, JobName
  <1>1. stored' = stored => Grows /\ jobs' = jobs
    BY DEF stored, Grows
  <1>2. \A w \in SeedTxs : Has(CarbonStopImport(Rows, "seed"), w)
    BY PlansAre DEF SeedTxs
  <1>3. ASSUME NEW q, todo' = [todo EXCEPT ![t] = q]
        PROVE  todo'[t] = q
    BY <1>0, <1>3
  <1>4. CASE Browse(t)
    BY <1>0, <1>1, <1>4, ArriveMoves DEF Browse, Place, FactorPlace
  <1>5. CASE AdminImport(t)
    <2>1. PICK p \in Payloads : todo' = [todo EXCEPT ![t] = RecordsImport(p, "admin", "json")]
      BY <1>5 DEF AdminImport
    <2>2. Plan(todo'[t], "json")
      BY <1>3, <2>1, PlansAre
    <2>3. ~Plan(todo'[t], "seed")
      BY <1>0, <2>2, OneJob
    <2>4. QED
      BY <1>1, <1>5, <2>3 DEF AdminImport
  <1>6. CASE AdminSync(t)
    <2>1. PICK rows \in LiveSnapshots \cup {Rows} :
            todo' = [todo EXCEPT ![t] =
                       CarbonStopImport(rows, IF rows = Rows THEN "seed" ELSE "live")]
      BY <1>6 DEF AdminSync
    <2>2. rows # Rows => Plan(todo'[t], "live")
      BY <1>3, <2>1, PlansAre
    <2>3. rows # Rows => ~Plan(todo'[t], "seed")
      BY <1>0, <2>2, OneJob
    <2>4. rows = Rows => \A w \in SeedTxs : Has(todo'[t], w)
      BY <1>2, <1>3, <2>1
    <2>5. QED
      BY <1>1, <1>6, <2>3, <2>4 DEF AdminSync
  <1>7. CASE SwitchFactor(t)
    <2>1. PICK f \in Factors, st \in {"on", "off"} :
            /\ factor' = [factor EXCEPT ![f].st = st]
            /\ Arrive(t, [op |-> "browse"], "seed")
            /\ UNCHANGED <<catalog, sources, alias, jobs, todo, faults>>
      BY <1>7 DEF SwitchFactor
    <2>2. Grows
      BY <1>0, <2>1 DEF Grows
    <2>3. pc'[t] = "seed"
      BY <1>0, <2>1, ArriveMoves DEF Place, FactorPlace
    <2>4. QED
      BY <2>1, <2>2, <2>3
  <1>8. CASE CheckSeed(t)
    <2>1. \/ Goto(t, "count")
          \/ todo' = [todo EXCEPT ![t] = CarbonStopImport(Rows, "seed")]
      BY <1>8 DEF CheckSeed
    <2>2. CASE Goto(t, "count")
      BY <1>0, <1>1, <1>8, <2>2, GotoMoves DEF CheckSeed, Place, FactorPlace
    <2>3. CASE todo' = [todo EXCEPT ![t] = CarbonStopImport(Rows, "seed")]
      BY <1>1, <1>2, <1>3, <1>8, <2>3 DEF CheckSeed
    <2>4. QED
      BY <2>1, <2>2, <2>3
  <1>9. CASE CountFactors(t)
    <2>1. \/ Goto(t, "serve")
          \/ todo' = [todo EXCEPT ![t] = RecordsImport(SetToSeq(FileFactors), "files", "files")]
      BY <1>9 DEF CountFactors
    <2>2. CASE Goto(t, "serve")
      BY <1>0, <1>1, <1>9, <2>2, GotoMoves DEF CountFactors, Place, FactorPlace
    <2>3. CASE todo' = [todo EXCEPT ![t] = RecordsImport(SetToSeq(FileFactors), "files", "files")]
      <3>1. Plan(todo'[t], "files")
        BY <1>3, <2>3, PlansAre
      <3>2. ~Plan(todo'[t], "seed")
        BY <1>0, <3>1, OneJob
      <3>3. QED
        BY <1>1, <1>9, <3>2 DEF CountFactors
    <2>4. QED
      BY <2>1, <2>2, <2>3
  <1>10. CASE Answer(t)
    BY <1>0, <1>1, <1>10, FinishMoves DEF Answer
  <1>11. CASE WriteFails(t)
    <2>1. \/ Finish(t)
          \/ Goto(t, "serve")
      BY <1>11 DEF WriteFails
    <2>2. pc'[t] # "write"
      BY <1>0, <2>1, FinishMoves, GotoMoves DEF Place, FactorPlace
    <2>3. QED
      BY <1>1, <1>11, <2>2 DEF WriteFails
  <1>12. QED
    BY <1>4, <1>5, <1>6, <1>7, <1>8, <1>9, <1>10, <1>11 DEF FactorStep

\* The steps that are not of the factor database leave its tables alone and start
\* no import.
LEMMA Apart ==
  ASSUME TypeInv, Next, ~ \E t \in Threads : FactorStep(t)
  PROVE  /\ stored' = stored
         /\ \A u \in Threads : pc'[u] = "write" => pc[u] = "write" /\ todo'[u] = todo[u]
  <1>0. ReportsTypeOK /\ Requests
    BY DEF TypeInv
  <1>1. ASSUME NEW t \in Threads, CalcStep(t) \/ ReportStep(t)
        PROVE  Moves(t) /\ stored' = stored /\ pc'[t] # "write"
    BY <1>0, <1>1, CalcMoves, ReportMoves DEF ReportPlace
  <1>2. CASE \E t \in Threads : CalcStep(t) \/ ReportStep(t)
    BY <1>1, <1>2 DEF Moves
  <1>3. CASE (\E s \in Sessions : AnswerAsk(s) \/ DeleteSession(s)) \/ UpdateReport \/ CrashAll
    <2>1. stored' = stored /\ (factorVars' = factorVars \/ \A t \in Threads : pc'[t] = "idle")
      BY <1>0, <1>3, RestMoves
    <2>2. QED
      BY <2>1 DEF factorVars
  <1>4. QED
    BY <1>2, <1>3, NextIs

-----------------------------------------------------------------------------
LEMMA SeedInit == Init => Seeding
  BY DEF Init, InventoryInit, FactorsInit, Seeding, ToSet

LEMMA SeedStep == TypeInv /\ Seeding /\ [Next]_vars => Seeding'
  <1> SUFFICES ASSUME TypeInv, Seeding, [Next]_vars PROVE Seeding'
    OBVIOUS
  <1>0. /\ ReportsTypeOK /\ Writing /\ jobs \in Seq(JobName)
        /\ {"seed", "live", "json", "files"} = JobName
    BY DEF TypeInv, ReportsTypeOK, FactorsTypeOK, JobName
  \* Where nothing is written but rows stay done.
  <1>1. ASSUME Grows, jobs' = jobs,
               \A u \in Threads : \A w \in SeedTxs :
                 pc'[u] = "write" /\ Plan(todo'[u], "seed") =>
                   \/ Has(todo'[u], w) \/ Done(w)'
                   \/ pc[u] = "write" /\ todo'[u] = todo[u]
        PROVE  Seeding'
    <2>1. \A w \in SeedTxs : Done(w) => Done(w)'
      BY <1>1, DoneStays DEF Grows
    <2>2. "seed" \in ToSet(jobs') => \A w \in SeedTxs : Done(w)'
      BY <1>1, <2>1 DEF Seeding
    <2>3. ASSUME NEW u \in Threads, pc'[u] = "write", Plan(todo'[u], "seed"), NEW w \in SeedTxs
          PROVE  Done(w)' \/ Has(todo'[u], w)
      <3>1. CASE pc[u] = "write" /\ todo'[u] = todo[u]
        <4>1. Done(w) \/ Has(todo[u], w)
          BY <2>3, <3>1 DEF Seeding
        <4>2. QED
          BY <2>1, <3>1, <4>1
      <3>2. QED
        BY <1>1, <2>3, <3>1
    <2>4. QED
      BY <2>2, <2>3 DEF Seeding
  <1>2. CASE UNCHANGED vars
    <2>1. UNCHANGED <<catalog, sources, factor, alias, jobs, pc, todo>>
      BY <1>2 DEF vars, factorVars
    <2>2. QED
      BY <1>1, <2>1 DEF Grows
  <1>3. ASSUME NEW t \in Threads, FactorStep(t)
        PROVE  Seeding'
    <2>0. Moves(t)
      BY <1>0, <1>3, FactorMoves
    <2>1. CASE ~WriteRow(t)
      <3>1. /\ Grows /\ jobs' = jobs
            /\ pc'[t] = "write" /\ Plan(todo'[t], "seed") => \A w \in SeedTxs : Has(todo'[t], w)
        BY <1>3, <2>1, FactorRest
      <3>2. QED
        BY <1>1, <2>0, <3>1 DEF Moves
    <2>2. CASE WriteRow(t)
      <3> DEFINE q == todo[t]
      <3>1. PICK job \in JobName : Plan(q, job)
        BY <1>0, <2>2 DEF WriteRow, Writing
      <3>2. /\ pc[t] = "write" /\ q \in Seq(Transaction) /\ Len(q) \in Nat \ {0}
            /\ Head(q) \in Transaction
            /\ \A w : Has(q, w) => w = Head(q) \/ Has(Tail(q), w)
            /\ todo'[t] = Tail(q) /\ \A u \in Threads \ {t} : todo'[u] = todo[u]
            /\ Len(q) # 1 => Head(q) \in RowTx /\ pc' = pc /\ Plan(Tail(q), job)
            /\ Len(q) = 1 => Head(q) = Tx("job", job, None) /\ pc'[t] # "write"
        BY <2>2, <3>1, WriteRowIs
      <3>3. /\ Grows
            /\ \A v \in SeedTxs : v = Head(q) => Done(v)'
            /\ IF Head(q).kind = "job" THEN jobs' = Append(jobs, Head(q).x) ELSE jobs' = jobs
        BY <2>2, <3>2, WriteDoes
      <3>4. \A w \in SeedTxs : Done(w) => Done(w)'
        BY <3>3, DoneStays DEF Grows
      <3> HIDE DEF q
      \* Its own plan.
      <3>5. ASSUME job = "seed", NEW w \in SeedTxs
            PROVE  Done(w)' \/ Has(Tail(q), w)
        <4>1. Done(w) \/ Has(q, w)
          BY <3>1, <3>2, <3>5 DEF Seeding, q
        <4>2. QED
          BY <3>2, <3>3, <3>4, <4>1
      <3>6. ASSUME NEW u \in Threads, pc'[u] = "write", Plan(todo'[u], "seed"), NEW w \in SeedTxs
            PROVE  Done(w)' \/ Has(todo'[u], w)
        <4>1. CASE u = t
          <5>1. Plan(Tail(q), job) /\ todo'[u] = Tail(q)
            BY <3>2, <3>6, <4>1
          <5>2. job = "seed"
            BY <1>0, <3>6, <5>1, OneJob
          <5>3. QED
            BY <3>5, <5>1, <5>2
        <4>2. CASE u # t
          <5>1. pc[u] = "write" /\ todo'[u] = todo[u]
            BY <2>0, <3>6, <4>2 DEF Moves
          <5>2. Done(w) \/ Has(todo[u], w)
            BY <3>6, <5>1 DEF Seeding
          <5>3. QED
            BY <3>4, <5>1, <5>2
        <4>3. QED
          BY <4>1, <4>2
      \* The job it logs.
      <3>7. ASSUME "seed" \in ToSet(jobs'), NEW w \in SeedTxs
            PROVE  Done(w)'
        <4>1. CASE "seed" \in ToSet(jobs)
          BY <3>4, <4>1 DEF Seeding
        <4>2. CASE "seed" \notin ToSet(jobs)
          <5>1. Head(q).kind = "job" /\ jobs' = Append(jobs, Head(q).x)
            BY <3>3, <3>7, <4>2
          <5>2. Len(q) = 1 /\ Head(q) = Tx("job", job, None)
            BY <3>2, <5>1 DEF RowTx
          <5>3. job = "seed"
            <6>1. ToSet(Append(jobs, job)) \subseteq ToSet(jobs) \cup {job}
              <7>1. jobs \in Seq(JobName)
                BY <1>0
              <7>2. /\ DOMAIN Append(jobs, job) = 1..(Len(jobs) + 1) /\ DOMAIN jobs = 1..Len(jobs)
                    /\ \A i \in 1..Len(jobs) : Append(jobs, job)[i] = jobs[i]
                    /\ Append(jobs, job)[Len(jobs) + 1] = job /\ Len(jobs) \in Nat
                BY <7>1, AppendProperties, LenProperties
              <7>3. \A i \in 1..(Len(jobs) + 1) : i \in 1..Len(jobs) \/ i = Len(jobs) + 1
                BY <7>2
              <7>4. QED
                BY <7>2, <7>3 DEF ToSet
            <6>2. QED
              BY <3>7, <4>2, <5>1, <5>2, <6>1 DEF Tx
          <5>4. ~Has(Tail(q), w)
            <6>1. Len(Tail(q)) = 0
              BY <3>2, <5>2, HeadTailProperties
            <6>2. QED
              BY <6>1 DEF Has
          <5>5. QED
            BY <3>5, <5>3, <5>4
        <4>3. QED
          BY <4>1, <4>2
      <3>8. QED
        BY <3>6, <3>7 DEF Seeding
    <2>3. QED
      BY <2>1, <2>2
  <1>4. CASE Next /\ ~ \E t \in Threads : FactorStep(t)
    <2>1. /\ stored' = stored
          /\ \A u \in Threads : pc'[u] = "write" => pc[u] = "write" /\ todo'[u] = todo[u]
      BY <1>4, Apart
    <2>2. QED
      BY <1>1, <2>1 DEF stored, Grows
  <1>5. QED
    BY <1>2, <1>3, <1>4

LEMMA SeedTells == Seeding => SeedIsWhole
  <1> SUFFICES ASSUME Seeding, "seed" \in ToSet(jobs)
               PROVE  /\ ToSet(Rows) \subseteq catalog
                      /\ \A r \in Readable :
                           factor[r].st # "none" /\ alias[r] # None /\ "ccdb" \in sources
    BY DEF SeedIsWhole
  <1>1. \A w \in SeedTxs : Done(w)
    BY DEF Seeding
  <1>2. ASSUME NEW r \in ToSet(Rows)
        PROVE  /\ r \in catalog
               /\ r \in Readable => factor[r].st # "none" /\ alias[r] # None /\ "ccdb" \in sources
    <2>1. \A w \in RowTxs(r) : Done(w)
      BY <1>1, <1>2 DEF SeedTxs
    <2>2. Done(Tx("catalog", r, None))
      BY <2>1 DEF RowTxs
    <2>3. r \in Readable => /\ Done(Tx("source", "ccdb", None)) /\ Done(Tx("record", r, "ccdb"))
                            /\ Done(Tx("alias", r, "ccdb"))
      BY <2>1 DEF RowTxs
    <2>4. QED
      BY <2>2, <2>3 DEF Done, Tx
  <1>3. QED
    BY <1>2, FactorsAssumption

\* Once the job of the bundled snapshot is logged, every row of it is in the
\* catalogue and every readable one is a factor with its source and aliases:
\* whatever imports run at once, fail or are lost in a crash (service.py:61-99).
THEOREM SeedWhole == Spec => []SeedIsWhole
  <1>1. Init => TypeInv /\ Seeding
    BY TypeInit, SeedInit
  <1>2. TypeInv /\ Seeding /\ [Next]_vars => (TypeInv /\ Seeding)'
    BY TypeStep, SeedStep
  <1>3. TypeInv /\ Seeding => SeedIsWhole
    BY SeedTells
  <1>4. QED
    BY <1>1, <1>2, <1>3, PTL DEF Spec

-----------------------------------------------------------------------------
(* Fresh factors *)

\* The registry a thread computes with has no factor that was off all along.
Fresh ==
  /\ \A t \in Threads : pc[t] = "compute" => reg[t].db \cap offSince[t] = {}
  /\ \A i \in 1..Len(calcs) : calcs[i].db \cap calcs[i].off = {}

\* Stored calculations are only appended to, by a thread that computes.
LEMMA CalcsGrow ==
  ASSUME TypeInv, Next
  PROVE  /\ Len(calcs) \in Nat /\ IsSequence(calcs)
         /\ \/ calcs' = calcs
            \/ /\ Len(calcs') = Len(calcs) + 1
               /\ \A i \in 1..Len(calcs) : calcs'[i] = calcs[i]
               /\ \E t \in Threads : pc[t] = "compute" /\ calcs'[Len(calcs) + 1] = Inventory(t)
  <1>0. ReportsTypeOK /\ Requests /\ IsSequence(calcs)
    BY DEF TypeInv, ReportsTypeOK, InventoryTypeOK
  <1>1. CASE \E t \in Threads : CalcStep(t)
    <2>1. PICK t \in Threads : CalcStep(t)
      BY <1>1
    <2>2. calcs' # calcs => pc[t] = "compute" /\ calcs' = Append(calcs, Inventory(t))
      BY <1>0, <2>1, CalcMoves
    <2>3. QED
      BY <1>0, <2>2, AppendSequence
  <1>2. CASE ~ \E t \in Threads : CalcStep(t)
    <2>1. calcs' = calcs
      BY <1>0, <1>2, NextIs, ReportMoves, RestMoves DEF calcVars
    <2>2. QED
      BY <1>0, <2>1, AppendSequence
  <1>3. QED
    BY <1>1, <1>2

LEMMA FreshInit == Init => Fresh
  BY DEF Init, InventoryInit, FactorsInit, Fresh

LEMMA FreshStep == TypeInv /\ Fresh /\ [Next]_vars => Fresh'
  <1> SUFFICES ASSUME TypeInv, Fresh, [Next]_vars PROVE Fresh'
    OBVIOUS
  <1>0. ReportsTypeOK /\ Writing /\ Requests
    BY DEF TypeInv
  <1>1. CASE UNCHANGED vars
    BY <1>1 DEF vars, factorVars, calcVars, Fresh
  <1>2. CASE Next
    <2>0. /\ Watch
          /\ \A t \in Threads : /\ offSince'[t] \subseteq Off'
                                /\ pc[t] # "idle" => offSince'[t] \subseteq offSince[t]
      BY <1>0, <1>2, NextIs, WatchIs
    <2>1. \A i \in 1..Len(calcs') : calcs'[i].db \cap calcs'[i].off = {}
      <3>1. ASSUME NEW t \in Threads, pc[t] = "compute"
            PROVE  Inventory(t).db \cap Inventory(t).off = {}
        BY <3>1 DEF Inventory, Fresh
      <3>2. CASE calcs' = calcs
        BY <3>2 DEF Fresh
      <3>3. CASE calcs' # calcs
        <4>1. /\ Len(calcs) \in Nat /\ Len(calcs') = Len(calcs) + 1
              /\ \A i \in 1..Len(calcs) : calcs'[i] = calcs[i]
              /\ \E t \in Threads : pc[t] = "compute" /\ calcs'[Len(calcs) + 1] = Inventory(t)
          BY <1>2, <3>3, CalcsGrow
        <4>2. \A i \in 1..(Len(calcs) + 1) : i \in 1..Len(calcs) \/ i = Len(calcs) + 1
          BY <4>1
        <4>3. QED
          BY <3>1, <4>1, <4>2 DEF Fresh
      <3>4. QED
        BY <3>2, <3>3
    <2>2. ASSUME NEW u \in Threads, pc'[u] = "compute", pc[u] = "compute", reg'[u] = reg[u]
          PROVE  reg'[u].db \cap offSince'[u] = {}
      BY <2>0, <2>2 DEF Fresh
    <2>3. ASSUME NEW u \in Threads, pc'[u] = "compute"
          PROVE  reg'[u].db \cap offSince'[u] = {}
      <3>1. ASSUME NEW t \in Threads, FactorStep(t), UNCHANGED <<calcVars, reportVars>>
            PROVE  pc[u] = "compute" /\ reg'[u] = reg[u]
        <4>1. Moves(t) /\ pc'[t] \in FactorPlace
          BY <1>0, <3>1, FactorMoves
        <4>2. u # t
          BY <2>3, <4>1 DEF FactorPlace
        <4>3. QED
          BY <2>3, <3>1, <4>1, <4>2 DEF Moves, calcVars
      <3>2. ASSUME NEW t \in Threads, CalcStep(t)
            PROVE  reg'[u].db \cap offSince'[u] = {}
        <4>1. /\ Moves(t) /\ stored' = stored
              /\ \A v \in Threads \ {t} : reg'[v] = reg[v]
              /\ pc'[t] = "compute" => reg'[t].db \subseteq On
          BY <1>0, <3>2, CalcMoves
        <4>2. CASE u = t
          <5>1. On \cap Off' = {}
            BY <4>1 DEF On, Off, stored
          <5>2. QED
            BY <2>0, <2>3, <4>1, <4>2, <5>1
        <4>3. CASE u # t
          BY <2>2, <2>3, <4>1, <4>3 DEF Moves
        <4>4. QED
          BY <4>2, <4>3
      <3>3. ASSUME NEW t \in Threads, ReportStep(t)
            PROVE  pc[u] = "compute" /\ reg'[u] = reg[u]
        <4>1. Moves(t) /\ pc'[t] \in ReportPlace \cup {"idle"} /\ calcVars' = calcVars
          BY <1>0, <3>3, ReportMoves
        <4>2. u # t
          BY <2>3, <4>1 DEF ReportPlace
        <4>3. QED
          BY <2>3, <4>1, <4>2 DEF Moves, calcVars
      <3>4. CASE (\E s \in Sessions : AnswerAsk(s) \/ DeleteSession(s)) \/ UpdateReport \/ CrashAll
        <4>1. (factorVars' = factorVars /\ reg' = reg) \/ \A t \in Threads : pc'[t] = "idle"
          BY <1>0, <3>4, RestMoves
        <4>2. QED
          BY <2>2, <2>3, <4>1 DEF factorVars
      <3>5. QED
        BY <1>2, <2>2, <2>3, <3>1, <3>2, <3>3, <3>4, NextIs
    <2>4. QED
      BY <2>1, <2>3 DEF Fresh
  <1>3. QED
    BY <1>1, <1>2

\* A line of a stored calculation carries no factor of the database that was off
\* from the request on (factor_loader.py reads those that are on, once for each
\* calculation), whatever is switched, seeded or imported meanwhile.
THEOREM FactorsAreFresh == Spec => []FreshFactors
  <1>1. Init => TypeInv /\ Fresh
    BY TypeInit, FreshInit
  <1>2. TypeInv /\ Fresh /\ [Next]_vars => (TypeInv /\ Fresh)'
    BY TypeStep, FreshStep
  <1>3. Fresh => FreshFactors
    BY DEF Fresh, FreshFactors
  <1>4. QED
    BY <1>1, <1>2, <1>3, PTL DEF Spec

-----------------------------------------------------------------------------
(* The sources of a report *)

LEMMA NewestIs ==
  ASSUME NEW s, Len(calcs) \in Nat
  PROVE  /\ Newest(s) = 0 \/ Newest(s) \in SessionCalculations(s)
         /\ \A k \in SessionCalculations(s) : k <= Newest(s)
  <1> DEFINE own == SessionCalculations(s)
  <1>1. own \subseteq 1..Len(calcs)
    BY DEF SessionCalculations
  <1>2. CASE own = {}
    BY <1>2 DEF Newest
  <1>3. CASE own # {}
    <2>1. \E i \in own : \A k \in own : k <= i
      <3> DEFINE T == {n \in Nat : ~ \E k \in own : k >= n}
      <3>1. SUFFICES ASSUME \A i \in own : \E k \in own : ~(k <= i) PROVE FALSE
        OBVIOUS
      <3>2. 0 \notin T
        BY <1>1, <1>3
      <3>3. \A n \in Nat : n + 1 \in T => n \in T
        <4>1. ASSUME NEW n \in Nat, NEW k \in own, k >= n PROVE \E m \in own : m >= n + 1
          <5>1. PICK m \in own : ~(m <= k)
            BY <3>1
          <5>2. m \in Nat /\ k \in Nat
            BY <1>1
          <5>3. QED
            BY <4>1, <5>1, <5>2
        <4>2. QED
          BY <4>1
      <3>4. T = {}
        <4> HIDE DEF T
        <4>1. T \subseteq Nat
          BY DEF T
        <4>2. QED
          BY <3>2, <3>3, <4>1, NoCounterexample
      <3>5. Len(calcs) + 1 \in T
        BY <1>1
      <3>6. QED
        BY <3>4, <3>5
    <2>2. QED
      BY <1>3, <2>1 DEF Newest
  <1>4. QED
    BY <1>2, <1>3

-----------------------------------------------------------------------------
\* x is what became of the report r: its text may differ, and its silence grows.
SameReport(x, r) ==
  /\ x.id = r.id /\ x.s = r.s /\ x.type = r.type /\ x.picked = r.picked /\ x.calc = r.calc
  /\ x.named = r.named /\ x.newest = r.newest /\ x.late = r.late
  /\ r.silent => x.silent

\* A stored report was stored before, its session still there, or is stored now.
LEMMA ReportsFrom ==
  ASSUME TypeInv, Next
  PROVE  /\ \A x \in reports' :
              \/ \E r \in reports : SameReport(x, r) /\ (r.s \in live => r.s \in live')
              \/ \E t \in Threads :
                   /\ StoreReport(t) /\ x.id = made' /\ x.s = req[t].s /\ x.type = req[t].type
                   /\ x.picked = drafts[t].picked /\ x.calc = drafts[t].calc
                   /\ x.named = (req[t].calc # 0) /\ x.newest = req[t].newest
                   /\ x.late = (req[t].s \notin live) /\ live' = live
         /\ made' = made \/ made' = made + 1
         /\ (\E t \in Threads : StoreReport(t)) \/ made' = made
  <1>0. /\ ReportsTypeOK /\ Requests /\ made \in Nat
        /\ \A r \in reports : IsReport(r)
    BY DEF TypeInv, ReportsTypeOK
  <1>1. ASSUME reports' = reports, live' = live, made' = made
        PROVE  /\ \A x \in reports' : \E r \in reports :
                    SameReport(x, r) /\ (r.s \in live => r.s \in live')
               /\ made' = made
    BY <1>1 DEF SameReport
  <1>2. CASE \E t \in Threads : \/ FactorStep(t) /\ UNCHANGED <<calcVars, reportVars>>
                                \/ CalcStep(t) /\ UNCHANGED reportVars
    <2>1. reports' = reports /\ live' = live /\ made' = made
      BY <1>0, <1>2, CalcMoves DEF reportVars, calcVars
    <2>2. QED
      BY <1>1, <2>1
  <1>3. ASSUME NEW t \in Threads, ReportStep(t), ~StoreReport(t)
        PROVE  reports' = reports /\ live' = live /\ made' = made
    BY <1>3 DEF ReportStep, CreateReport, ResolveSources, Generate, RecordSystemMessage, calcVars
  <1>4. ASSUME NEW t \in Threads, StoreReport(t), NEW x \in reports'
        PROVE  /\ \/ \E r \in reports : SameReport(x, r) /\ (r.s \in live => r.s \in live')
                  \/ /\ x.id = made' /\ x.s = req[t].s /\ x.type = req[t].type
                     /\ x.picked = drafts[t].picked /\ x.calc = drafts[t].calc
                     /\ x.named = (req[t].calc # 0) /\ x.newest = req[t].newest
                     /\ x.late = (req[t].s \notin live) /\ live' = live
    <2> DEFINE new == [id |-> made', s |-> req[t].s, type |-> req[t].type, picked |-> drafts[t].picked,
                       calc |-> drafts[t].calc, text |-> "generated", named |-> req[t].calc # 0,
                       newest |-> req[t].newest, late |-> req[t].s \notin live, silent |-> FALSE]
    <2>1. reports' = reports \cup {new} /\ live' = live
      BY <1>4 DEF StoreReport, calcVars
    <2>2. /\ new.id = made' /\ new.s = req[t].s /\ new.type = req[t].type
          /\ new.picked = drafts[t].picked /\ new.calc = drafts[t].calc
          /\ new.named = (req[t].calc # 0) /\ new.newest = req[t].newest
          /\ new.late = (req[t].s \notin live)
      OBVIOUS
    <2> HIDE DEF new
    <2>3. QED
      BY <1>4, <2>1, <2>2 DEF SameReport
  <1>5. CASE \E s \in Sessions : AnswerAsk(s)
    BY <1>1, <1>5 DEF AnswerAsk, calcVars
  <1>6. ASSUME NEW s \in Sessions, DeleteSession(s), NEW x \in reports'
        PROVE  x \in reports /\ SameReport(x, x) /\ (x.s \in live => x.s \in live')
    BY <1>6 DEF DeleteSession, SameReport
  <1>7. CASE UpdateReport
    <2>1. PICK r \in reports :
            /\ reports' = (reports \ {r}) \cup {[r EXCEPT !.text = "edited"]}
            /\ UNCHANGED <<factorVars, calcVars, messages, drafts, made>>
      BY <1>7 DEF UpdateReport
    <2>2. SameReport([r EXCEPT !.text = "edited"], r)
      BY <1>0 DEF IsReport, SameReport
    <2>3. \A x : SameReport(x, x)
      BY DEF SameReport
    <2>4. QED
      BY <2>1, <2>2, <2>3 DEF calcVars
  <1>8. CASE CrashAll
    <2>1. /\ reports' = {[r EXCEPT !.silent = @ \/ r.id \in Announcing] : r \in reports}
          /\ live' = live /\ made' = made
      BY <1>8 DEF CrashAll
    <2>2. \A r \in reports : SameReport([r EXCEPT !.silent = @ \/ r.id \in Announcing], r)
      BY <1>0 DEF IsReport, SameReport
    <2>3. QED
      BY <2>1, <2>2
  <1>9. ASSUME NEW t \in Threads, StoreReport(t)
        PROVE  made' = made + 1
    BY <1>9 DEF StoreReport
  <1>10. CASE \E t \in Threads : ReportStep(t)
    <2>1. PICK t \in Threads : ReportStep(t)
      BY <1>10
    <2>2. CASE StoreReport(t)
      BY <1>4, <1>9, <2>2
    <2>3. CASE ~StoreReport(t)
      BY <1>1, <1>3, <2>1, <2>3
    <2>4. QED
      BY <2>2, <2>3
  <1>11. CASE \E s \in Sessions : DeleteSession(s)
    <2>1. made' = made
      BY <1>11 DEF DeleteSession
    <2>2. QED
      BY <1>6, <1>11, <2>1
  <1>12. QED
    BY <1>2, <1>5, <1>7, <1>8, <1>10, <1>11, NextIs

\* A report without a session was stored after its session was deleted; deleting
\* a session takes the reports it finds along, whatever stands in between.
THEOREM LateReports == Spec => []OnlyLateReportsDangle
  <1>1. Init => OnlyLateReportsDangle
    BY DEF Init, OnlyLateReportsDangle
  <1>2. TypeInv /\ OnlyLateReportsDangle /\ [Next]_vars => OnlyLateReportsDangle'
    <2> SUFFICES ASSUME TypeInv, OnlyLateReportsDangle, [Next]_vars
                 PROVE  OnlyLateReportsDangle'
      OBVIOUS
    <2>1. CASE Next
      <3> SUFFICES ASSUME NEW x \in reports' PROVE x.s \in live' \/ x.late
        BY DEF OnlyLateReportsDangle
      <3>1. CASE \E r \in reports : SameReport(x, r) /\ (r.s \in live => r.s \in live')
        BY <3>1 DEF OnlyLateReportsDangle, SameReport
      <3>2. CASE \E t \in Threads : /\ x.s = req[t].s /\ x.late = (req[t].s \notin live)
                                   /\ live' = live
        <4>1. PICK t \in Threads : /\ x.s = req[t].s /\ x.late = (req[t].s \notin live)
                                  /\ live' = live
          BY <3>2
        <4>2. CASE req[t].s \in live
          BY <4>1, <4>2
        <4>3. CASE req[t].s \notin live
          BY <4>1, <4>3
        <4>4. QED
          BY <4>2, <4>3
      <3>3. QED
        BY <2>1, <3>1, <3>2, ReportsFrom
    <2>2. CASE UNCHANGED vars
      BY <2>2 DEF OnlyLateReportsDangle, vars, calcVars, reportVars
    <2>3. QED
      BY <2>1, <2>2
  <1>3. QED
    BY <1>1, <1>2, ReportsTypeCorrect, PTL DEF Spec

-----------------------------------------------------------------------------
\* What a report of a type may rest on, as a draft and once it is stored.
Rests(type, picked, calc, s, named, newest) ==
  /\ type = "policy_summary" => "public" \in Cited(picked)
  /\ type = "mixed_analysis" => {"public", "private"} \subseteq Cited(picked)
  /\ type = "carbon_summary" => calc # 0 /\ (~named => calc >= newest)
  /\ calc \in 0..Len(calcs) /\ (calc # 0 => calcs[calc].s = s)

Known(calc, newest, s) ==
  /\ calc \in 0..Len(calcs)
  /\ newest = 0 \/ newest \in SessionCalculations(s)

Grounded ==
  /\ \A t \in Threads :
       /\ pc[t] \in {"resolve", "provider", "store"} => Known(req[t].calc, req[t].newest, req[t].s)
       /\ pc[t] \in {"provider", "store"} =>
            Rests(req[t].type, drafts[t].picked, drafts[t].calc, req[t].s,
                  req[t].calc # 0, req[t].newest)
  /\ \A r \in reports : Rests(r.type, r.picked, r.calc, r.s, r.named, r.newest)

\* Calculations are only added, so what rests on one goes on to.
LEMMA RestsStays ==
  ASSUME TypeInv, Next
  PROVE  /\ \A type, picked, calc, s, named, newest :
              Rests(type, picked, calc, s, named, newest) =>
                Rests(type, picked, calc, s, named, newest)'
         /\ \A calc, newest, s : Known(calc, newest, s) => Known(calc, newest, s)'
  <1>1. CASE calcs' = calcs
    BY <1>1 DEF Rests, Known, SessionCalculations
  <1>2. CASE calcs' # calcs
    <2>1. /\ Len(calcs) \in Nat /\ Len(calcs') = Len(calcs) + 1
          /\ \A i \in 1..Len(calcs) : calcs'[i] = calcs[i]
      BY <1>2, CalcsGrow
    <2>2. \A i : i \in 1..Len(calcs) => i \in 1..Len(calcs')
      BY <2>1
    <2>3. \A i : i \in 0..Len(calcs) => i \in 0..Len(calcs') /\ (i # 0 => i \in 1..Len(calcs))
      BY <2>1
    <2>4. \A s : SessionCalculations(s) \subseteq SessionCalculations(s)'
      BY <2>1, <2>2 DEF SessionCalculations
    <2>5. QED
      BY <2>1, <2>3, <2>4 DEF Rests, Known
  <1>3. QED
    BY <1>1, <1>2

\* What create_report looks up and resolve_sources checks.
LEMMA ResolvedRests ==
  ASSUME TypeInv, NEW r, NEW picked, Known(r.calc, r.newest, r.s),
         CanResolve(r), ValidateSources(r.type, picked, ResolvedCalculation(r))
  PROVE  Rests(r.type, picked, ResolvedCalculation(r), r.s, r.calc # 0, r.newest)
  <1> DEFINE calc == ResolvedCalculation(r)
  <1>0. Len(calcs) \in Nat
    BY AppendSequence DEF TypeInv, ReportsTypeOK, InventoryTypeOK
  <1>1. /\ Newest(r.s) = 0 \/ Newest(r.s) \in SessionCalculations(r.s)
        /\ \A k \in SessionCalculations(r.s) : k <= Newest(r.s)
    BY <1>0, NewestIs
  <1>2. /\ r.type = "policy_summary" => "public" \in Cited(picked)
        /\ r.type = "mixed_analysis" => {"public", "private"} \subseteq Cited(picked)
        /\ r.type = "carbon_summary" => calc # 0
    BY DEF ValidateSources
  <1>3. calc \in 0..Len(calcs) /\ (calc # 0 => calcs[calc].s = r.s)
    <2>1. CASE r.calc # 0
      BY <2>1 DEF ResolvedCalculation, CanResolve, Known
    <2>2. CASE r.calc = 0
      <3>1. calc = 0 \/ calc = Newest(r.s)
        BY <2>2 DEF ResolvedCalculation
      <3>2. \A i \in SessionCalculations(r.s) : i \in 1..Len(calcs) /\ calcs[i].s = r.s
        BY DEF SessionCalculations
      <3>3. 1..Len(calcs) \subseteq 0..Len(calcs) /\ 0 \in 0..Len(calcs)
        BY <1>0
      <3>4. QED
        BY <1>1, <3>1, <3>2, <3>3
    <2>3. QED
      BY <2>1, <2>2
  <1>4. r.type = "carbon_summary" /\ ~(r.calc # 0) => calc >= r.newest
    <2>1. SUFFICES ASSUME r.type = "carbon_summary", r.calc = 0 PROVE calc >= r.newest
      OBVIOUS
    <2>2. calc = Newest(r.s)
      BY <2>1 DEF ResolvedCalculation
    <2>3. SessionCalculations(r.s) \subseteq 1..Len(calcs) /\ calc \in 0..Len(calcs)
      BY <1>3 DEF SessionCalculations
    <2>4. CASE r.newest = 0
      BY <1>0, <2>3, <2>4
    <2>5. CASE r.newest \in SessionCalculations(r.s)
      <3>1. r.newest <= calc /\ r.newest \in 1..Len(calcs)
        BY <1>1, <2>2, <2>3, <2>5
      <3>2. QED
        BY <1>0, <2>3, <3>1
    <2>6. QED
      BY <2>4, <2>5 DEF Known
  <1> HIDE DEF calc
  <1>5. QED
    BY <1>2, <1>3, <1>4 DEF Rests, calc

LEMMA GroundedInit == Init => Grounded
  BY DEF Init, InventoryInit, FactorsInit, Grounded

LEMMA GroundedStep == TypeInv /\ Grounded /\ [Next]_vars => Grounded'
  <1> SUFFICES ASSUME TypeInv, Grounded, [Next]_vars PROVE Grounded'
    OBVIOUS
  <1>0. /\ ReportsTypeOK /\ Writing /\ Requests /\ PerThread(req) /\ PerThread(drafts)
        /\ \A u \in Threads : DOMAIN drafts[u] = {"picked", "calc"}
    BY DEF TypeInv, ReportsTypeOK, FactorsTypeOK
  <1>1. CASE UNCHANGED vars
    <2>1. UNCHANGED <<pc, req, calcs, reports, drafts>>
      BY <1>1 DEF vars, factorVars, calcVars, reportVars
    <2>2. QED
      BY <2>1 DEF Grounded, Rests, Known, SessionCalculations
  <1>2. CASE Next
    <2>1. /\ \A type, picked, calc, s, named, newest :
               Rests(type, picked, calc, s, named, newest) =>
                 Rests(type, picked, calc, s, named, newest)'
          /\ \A calc, newest, s : Known(calc, newest, s) => Known(calc, newest, s)'
      BY <1>2, RestsStays
    <2>2. \A x \in reports' : Rests(x.type, x.picked, x.calc, x.s, x.named, x.newest)'
      <3> SUFFICES ASSUME NEW x \in reports'
                   PROVE  Rests(x.type, x.picked, x.calc, x.s, x.named, x.newest)'
        OBVIOUS
      <3>1. CASE \E r \in reports : SameReport(x, r)
        BY <2>1, <3>1 DEF Grounded, SameReport
      <3>2. ASSUME NEW t \in Threads, StoreReport(t), x.s = req[t].s, x.type = req[t].type,
                   x.picked = drafts[t].picked, x.calc = drafts[t].calc,
                   x.named = (req[t].calc # 0), x.newest = req[t].newest
            PROVE  Rests(x.type, x.picked, x.calc, x.s, x.named, x.newest)'
        BY <2>1, <3>2 DEF Grounded, StoreReport
      <3>3. QED
        BY <1>2, <3>1, <3>2, ReportsFrom
    <2>3. ASSUME NEW u \in Threads, pc'[u] \in {"resolve", "provider", "store"}
          PROVE  /\ Known(req[u].calc, req[u].newest, req[u].s)'
                 /\ pc'[u] \in {"provider", "store"} =>
                      Rests(req[u].type, drafts[u].picked, drafts[u].calc, req[u].s,
                            req[u].calc # 0, req[u].newest)'
      <3>1. ASSUME pc'[u] = pc[u], req'[u] = req[u], drafts'[u] = drafts[u]
            PROVE  /\ Known(req[u].calc, req[u].newest, req[u].s)'
                   /\ pc'[u] \in {"provider", "store"} =>
                        Rests(req[u].type, drafts[u].picked, drafts[u].calc, req[u].s,
                              req[u].calc # 0, req[u].newest)'
        BY <2>1, <2>3, <3>1 DEF Grounded
      <3>2. ASSUME NEW t \in Threads, \/ FactorStep(t) /\ UNCHANGED <<calcVars, reportVars>>
                                      \/ CalcStep(t) /\ UNCHANGED reportVars
            PROVE  pc'[u] = pc[u] /\ req'[u] = req[u] /\ drafts'[u] = drafts[u]
        <4>1. Moves(t) /\ (pc'[t] \in FactorPlace \/ pc'[t] \in {"idle", "seed", "compute"})
          BY <1>0, <3>2, FactorMoves, CalcMoves
        <4>2. u # t
          BY <2>3, <4>1 DEF FactorPlace
        <4>3. QED
          BY <3>2, <4>1, <4>2 DEF Moves, reportVars
      <3>3. ASSUME NEW t \in Threads, ReportStep(t), u # t
            PROVE  pc'[u] = pc[u] /\ req'[u] = req[u] /\ drafts'[u] = drafts[u]
        <4>1. Moves(t) /\ \A v \in Threads \ {t} : drafts'[v] = drafts[v]
          BY <1>0, <3>3, ReportMoves
        <4>2. QED
          BY <3>3, <4>1 DEF Moves
      <3>4. CASE (\E s \in Sessions : AnswerAsk(s) \/ DeleteSession(s)) \/ UpdateReport \/ CrashAll
        <4>1. \/ factorVars' = factorVars /\ drafts' = drafts
              \/ \A t \in Threads : pc'[t] = "idle"
          BY <1>0, <3>4, RestMoves
        <4>2. QED
          BY <2>3, <3>1, <4>1 DEF factorVars
      <3>5. CASE CreateReport(u)
        <4>1. PICK s \in live, type \in Types, calc \in 0..Len(calcs) :
                /\ Arrive(u, [op |-> "report", s |-> s, type |-> type, calc |-> calc,
                              newest |-> Newest(s)], "resolve")
                /\ UNCHANGED calcVars
          BY <3>5 DEF CreateReport
        <4>2. /\ pc'[u] = "resolve"
              /\ req'[u] = [op |-> "report", s |-> s, type |-> type, calc |-> calc,
                            newest |-> Newest(s)]
          BY <1>0, <4>1, ArriveMoves DEF Place, ReportPlace
        <4>3. Len(calcs) \in Nat
          BY <1>2, CalcsGrow
        <4>4. Known(calc, Newest(s), s)
          BY <4>1, <4>3, NewestIs DEF Known
        <4>5. calcs' = calcs /\ \A k : SessionCalculations(k)' = SessionCalculations(k)
          BY <4>1 DEF calcVars, SessionCalculations
        <4>6. /\ req'[u].calc = calc /\ req'[u].s = s /\ req'[u].newest = Newest(s)
          BY <4>2
        <4>7. Known(req[u].calc, req[u].newest, req[u].s)'
          BY <4>4, <4>5, <4>6 DEF Known
        <4>8. QED
          BY <4>2, <4>7
      <3>6. CASE ResolveSources(u)
        <4>1. /\ pc[u] = "resolve" /\ UNCHANGED calcVars
              /\ \/ /\ CanResolve(req[u])
                    /\ ValidateSources(req[u].type, drafts[u].picked, ResolvedCalculation(req[u]))
                    /\ drafts' = [drafts EXCEPT ![u].calc = ResolvedCalculation(req[u])]
                    /\ req' = req
                 \/ Finish(u)
          BY <3>6 DEF ResolveSources
        <4>2. ~Finish(u)
          BY <1>0, <2>3, FinishMoves
        <4>3. /\ drafts'[u].calc = ResolvedCalculation(req[u])
              /\ drafts'[u].picked = drafts[u].picked
          BY <1>0, <4>1, <4>2, Drafted
        <4>4. Known(req[u].calc, req[u].newest, req[u].s)
          BY <4>1 DEF Grounded
        <4>5. Rests(req[u].type, drafts[u].picked, ResolvedCalculation(req[u]), req[u].s,
                    req[u].calc # 0, req[u].newest)
          BY <4>1, <4>2, <4>4, ResolvedRests
        <4>6. req' = req
          BY <4>1, <4>2
        <4>7. QED
          BY <2>1, <4>3, <4>4, <4>5, <4>6
      <3>7. CASE Generate(u)
        <4>1. /\ pc[u] = "provider" /\ ((req' = req /\ drafts' = drafts) \/ Finish(u))
          BY <3>7 DEF Generate
        <4>2. ~Finish(u)
          BY <1>0, <2>3, FinishMoves
        <4>3. req' = req /\ drafts' = drafts
          BY <4>1, <4>2
        <4>4. QED
          BY <2>1, <4>1, <4>3 DEF Grounded
      <3>8. CASE StoreReport(u) \/ RecordSystemMessage(u)
        <4>1. Goto(u, "announce") \/ Finish(u)
          BY <3>8 DEF StoreReport, RecordSystemMessage
        <4>2. pc'[u] \in {"announce", "idle"}
          BY <1>0, <4>1, FinishMoves, GotoMoves DEF Place, ReportPlace
        <4>3. QED
          BY <2>3, <4>2
      <3>9. QED
        BY <1>2, <3>1, <3>2, <3>3, <3>4, <3>5, <3>6, <3>7, <3>8, NextIs DEF ReportStep
    <2>4. QED
      BY <2>2, <2>3 DEF Grounded
  <1>3. QED
    BY <1>1, <1>2

\* A stored report rests on what its type asks for: the citations of the answers
\* it was made from, and a calculation of its own session that, if it was taken by
\* default, is at least as new as the newest there was when the report was asked
\* for; the session may be asked, calculated in or deleted while it is written.
THEOREM GroundedReports == Spec => []ReportsAreGrounded
  <1>1. Init => TypeInv /\ Grounded
    BY TypeInit, GroundedInit
  <1>2. TypeInv /\ Grounded /\ [Next]_vars => (TypeInv /\ Grounded)'
    BY TypeStep, GroundedStep
  <1>3. Grounded => ReportsAreGrounded
    BY DEF Grounded, Rests, ReportsAreGrounded
  <1>4. QED
    BY <1>1, <1>2, <1>3, PTL DEF Spec

-----------------------------------------------------------------------------
(* The messages about reports *)

AnnouncedIn(ms) == {ms[i].about : i \in {k \in 1..Len(ms) : ms[k].role = "system"}}

\* A report has one number and one session, and the thread that is about to
\* announce it names both; the report is there as long as its session is.
Numbered ==
  /\ \A r \in reports : r.id \in 1..made
  /\ \A r, q \in reports : r.id = q.id => r = q
  /\ \A t \in Threads : pc[t] = "announce" =>
       /\ req[t].id \in 1..made
       /\ \A r \in reports : r.id = req[t].id => r.s = req[t].s
       /\ req[t].s \in live => \E r \in reports : r.id = req[t].id /\ r.s = req[t].s

LEMMA AnnouncedAppend ==
  ASSUME NEW ms \in Seq(Message), NEW m \in Message
  PROVE  AnnouncedIn(Append(ms, m)) =
           AnnouncedIn(ms) \cup (IF m.role = "system" THEN {m.about} ELSE {})
  <1>1. /\ Len(ms) \in Nat /\ Len(Append(ms, m)) = Len(ms) + 1
        /\ \A i \in 1..Len(ms) : Append(ms, m)[i] = ms[i]
        /\ Append(ms, m)[Len(ms) + 1] = m
    BY AppendProperties, LenProperties
  <1>2. \A i : i \in 1..(Len(ms) + 1) <=> i \in 1..Len(ms) \/ i = Len(ms) + 1
    BY <1>1
  <1>3. QED
    BY <1>1, <1>2 DEF AnnouncedIn

\* What a step does to the messages of a session that stays.
LEMMA MessagesFrom ==
  ASSUME TypeInv, Next, NEW s \in live'
  PROVE  /\ s \in live /\ s \in Sessions
         /\ \/ AnnouncedIn(messages'[s]) = AnnouncedIn(messages[s])
            \/ \E t \in Threads :
                 /\ pc[t] = "announce" /\ RecordSystemMessage(t) /\ req[t].s = s
                 /\ AnnouncedIn(messages'[s]) = AnnouncedIn(messages[s]) \cup {req[t].id}
         /\ \A t \in Threads : RecordSystemMessage(t) /\ req[t].s = s =>
              AnnouncedIn(messages'[s]) = AnnouncedIn(messages[s]) \cup {req[t].id}
  <1>0. /\ ReportsTypeOK /\ Requests /\ messages \in [Sessions -> Seq(Message)]
        /\ live \subseteq Sessions
    BY DEF TypeInv, ReportsTypeOK, InventoryTypeOK
  <1>1. live' \subseteq live
    BY <1>0, NextIs, CalcMoves, ReportMoves, RestMoves DEF calcVars
  <1>2. s \in live /\ s \in Sessions /\ messages[s] \in Seq(Message)
    BY <1>0, <1>1
  <1>3. ASSUME NEW t \in Threads, RecordSystemMessage(t)
        PROVE  /\ pc[t] = "announce"
               /\ req[t].s = s =>
                    AnnouncedIn(messages'[s]) = AnnouncedIn(messages[s]) \cup {req[t].id}
               /\ req[t].s # s => AnnouncedIn(messages'[s]) = AnnouncedIn(messages[s])
    <2> DEFINE m == [role |-> "system", about |-> req[t].id]
    <2>1. /\ pc[t] = "announce"
          /\ messages' = IF req[t].s \notin live THEN messages
                         ELSE [messages EXCEPT ![req[t].s] = Append(@, m)]
      BY <1>3 DEF RecordSystemMessage
    <2>2. m \in Message /\ m.role = "system" /\ m.about = req[t].id
      BY <1>0, <2>1 DEF Requests, Message
    <2> HIDE DEF m
    <2>3. AnnouncedIn(Append(messages[s], m)) = AnnouncedIn(messages[s]) \cup {req[t].id}
      BY <1>2, <2>2, AnnouncedAppend
    <2>4. req[t].s = s => messages'[s] = Append(messages[s], m)
      BY <1>0, <1>2, <2>1
    <2>5. req[t].s # s => messages'[s] = messages[s]
      BY <1>0, <1>2, <2>1
    <2>6. QED
      BY <2>1, <2>3, <2>4, <2>5
  <1>4. CASE \E t \in Threads : RecordSystemMessage(t)
    BY <1>2, <1>3, <1>4
  <1>5. CASE ~ \E t \in Threads : RecordSystemMessage(t)
    <2>1. CASE \E z \in Sessions : AnswerAsk(z)
      <3>1. PICK z \in Sessions, cites \in Citings :
              messages' = [messages EXCEPT ![z] = Append(@, [role |-> "assistant", cites |-> cites])]
        BY <2>1 DEF AnswerAsk
      <3> DEFINE m == [role |-> "assistant", cites |-> cites]
      <3>2. m \in Message /\ m.role # "system"
        BY DEF Message
      <3> HIDE DEF m
      <3>3. AnnouncedIn(Append(messages[s], m)) = AnnouncedIn(messages[s])
        BY <1>2, <3>2, AnnouncedAppend
      <3>4. messages'[s] = messages[s] \/ messages'[s] = Append(messages[s], m)
        BY <1>0, <1>2, <3>1 DEF m
      <3>5. QED
        BY <1>2, <1>5, <3>3, <3>4
    <2>2. CASE \E z \in Sessions : DeleteSession(z)
      <3>1. PICK z \in Sessions : /\ live' = live \ {z}
                                  /\ messages' = [messages EXCEPT ![z] = <<>>]
        BY <2>2 DEF DeleteSession
      <3>2. messages'[s] = messages[s]
        BY <1>0, <1>2, <3>1
      <3>3. QED
        BY <1>2, <1>5, <3>2
    <2>3. CASE UpdateReport \/ CrashAll
      BY <1>2, <1>5, <2>3 DEF UpdateReport, CrashAll
    <2>4. CASE \E t \in Threads : \/ FactorStep(t) /\ UNCHANGED <<calcVars, reportVars>>
                                  \/ CalcStep(t) /\ UNCHANGED reportVars
      BY <1>2, <1>5, <2>4 DEF reportVars
    <2>5. CASE \E t \in Threads : ReportStep(t)
      BY <1>2, <1>5, <2>5
      DEF ReportStep, CreateReport, ResolveSources, Generate, StoreReport
    <2>6. QED
      BY <2>1, <2>2, <2>3, <2>4, <2>5, NextIs
  <1>6. QED
    BY <1>4, <1>5

-----------------------------------------------------------------------------
\* A report goes on as long as its session does.
LEMMA ReportsKept ==
  ASSUME TypeInv, Next, NEW r \in reports, r.s \in live'
  PROVE  \E x \in reports' : x.id = r.id /\ x.s = r.s
  <1>0. /\ ReportsTypeOK /\ Requests /\ IsReport(r)
    BY DEF TypeInv, ReportsTypeOK
  <1>1. CASE reports \subseteq reports'
    BY <1>1
  <1>2. CASE \E s \in Sessions : DeleteSession(s)
    BY <1>2 DEF DeleteSession
  <1>3. CASE UpdateReport
    <2>1. PICK q \in reports : reports' = (reports \ {q}) \cup {[q EXCEPT !.text = "edited"]}
      BY <1>3 DEF UpdateReport
    <2>2. CASE r = q
      <3>1. /\ [r EXCEPT !.text = "edited"].id = r.id /\ [r EXCEPT !.text = "edited"].s = r.s
        BY <1>0 DEF IsReport
      <3>2. QED
        BY <2>1, <2>2, <3>1
    <2>3. CASE r # q
      BY <2>1, <2>3
    <2>4. QED
      BY <2>2, <2>3
  <1>4. CASE CrashAll
    <2>1. [r EXCEPT !.silent = @ \/ r.id \in Announcing] \in reports'
      BY <1>4 DEF CrashAll
    <2>2. /\ [r EXCEPT !.silent = @ \/ r.id \in Announcing].id = r.id
          /\ [r EXCEPT !.silent = @ \/ r.id \in Announcing].s = r.s
      BY <1>0 DEF IsReport
    <2>3. QED
      BY <2>1, <2>2
  <1>5. CASE \E t \in Threads : ReportStep(t)
    BY <1>1, <1>5
    DEF ReportStep, CreateReport, ResolveSources, Generate, StoreReport, RecordSystemMessage
  <1>6. CASE \E s \in Sessions : AnswerAsk(s)
    BY <1>1, <1>6 DEF AnswerAsk
  <1>7. QED
    BY <1>1, <1>2, <1>3, <1>4, <1>5, <1>6, NextIs DEF reportVars

\* No two reports get one number.
LEMMA OneNumber ==
  ASSUME TypeInv, Next, Numbered
  PROVE  \A x, y \in reports' : x.id = y.id => x = y
  <1>0. /\ ReportsTypeOK /\ Requests /\ made \in Nat /\ \A r \in reports : IsReport(r)
    BY DEF TypeInv, ReportsTypeOK
  <1>1. CASE reports' \subseteq reports
    BY <1>1 DEF Numbered
  <1>2. CASE UpdateReport
    <2>1. PICK q \in reports : reports' = (reports \ {q}) \cup {[q EXCEPT !.text = "edited"]}
      BY <1>2 DEF UpdateReport
    <2>2. [q EXCEPT !.text = "edited"].id = q.id
      BY <1>0 DEF IsReport
    <2> DEFINE new == [q EXCEPT !.text = "edited"]
    <2> HIDE DEF new
    <2>3. ASSUME NEW x \in reports', NEW y \in reports', x.id = y.id PROVE x = y
      <3>1. (x \in reports \ {q} \/ x = new) /\ (y \in reports \ {q} \/ y = new) /\ new.id = q.id
        BY <2>1, <2>2 DEF new
      <3>2. QED
        BY <2>3, <3>1 DEF Numbered
    <2>4. QED
      BY <2>3
  <1>3. CASE CrashAll
    <2> DEFINE after(r) == [r EXCEPT !.silent = @ \/ r.id \in Announcing]
    <2>1. reports' = {after(r) : r \in reports}
      BY <1>3 DEF CrashAll
    <2>2. \A r \in reports : after(r).id = r.id
      BY <1>0 DEF IsReport
    <2> HIDE DEF after
    <2>3. ASSUME NEW x \in reports', NEW y \in reports', x.id = y.id PROVE x = y
      <3>1. PICK r \in reports, q \in reports : x = after(r) /\ y = after(q)
        BY <2>1
      <3>2. r = q
        BY <2>2, <2>3, <3>1 DEF Numbered
      <3>3. QED
        BY <3>1, <3>2
    <2>4. QED
      BY <2>3
  <1>4. ASSUME NEW t \in Threads, StoreReport(t)
        PROVE  \A x, y \in reports' : x.id = y.id => x = y
    <2>1. PICK new : reports' = reports \cup {new} /\ new.id = made' /\ made' = made + 1
      <3> DEFINE new == [id |-> made', s |-> req[t].s, type |-> req[t].type, picked |-> drafts[t].picked,
                         calc |-> drafts[t].calc, text |-> "generated", named |-> req[t].calc # 0,
                         newest |-> req[t].newest, late |-> req[t].s \notin live, silent |-> FALSE]
      <3>1. reports' = reports \cup {new} /\ made' = made + 1
        BY <1>4 DEF StoreReport
      <3>2. new.id = made'
        OBVIOUS
      <3> HIDE DEF new
      <3>3. QED
        BY <3>1, <3>2
    <2>2. made + 1 \notin 1..made
      BY <1>0
    <2>3. QED
      BY <2>1, <2>2 DEF Numbered
  <1>5. CASE \E t \in Threads : ReportStep(t)
    BY <1>1, <1>4, <1>5
    DEF ReportStep, CreateReport, ResolveSources, Generate, RecordSystemMessage
  <1>6. CASE \E s \in Sessions : AnswerAsk(s) \/ DeleteSession(s)
    BY <1>1, <1>6 DEF AnswerAsk, DeleteSession
  <1>7. QED
    BY <1>1, <1>2, <1>3, <1>5, <1>6, NextIs DEF reportVars

\* Who is about to announce a report, before and after a step.
LEMMA AnnouncersFrom ==
  ASSUME TypeInv, Next, NEW t \in Threads
  PROVE  /\ pc'[t] = "announce" =>
              \/ pc[t] = "announce" /\ req'[t] = req[t]
              \/ StoreReport(t) /\ req'[t].id = made' /\ req'[t].s = req[t].s
         /\ pc[t] = "announce" =>
              \/ pc'[t] = "announce" /\ req'[t] = req[t]
              \/ RecordSystemMessage(t)
              \/ CrashAll
  <1>0. /\ ReportsTypeOK /\ Writing /\ Requests /\ PerThread(req)
    BY DEF TypeInv, ReportsTypeOK, FactorsTypeOK
  <1>1. ASSUME NEW u \in Threads, Moves(u), u # t
        PROVE  pc'[t] = pc[t] /\ req'[t] = req[t]
    BY <1>1 DEF Moves
  <1>2. CASE \E u \in Threads : \/ FactorStep(u) /\ UNCHANGED <<calcVars, reportVars>>
                                \/ CalcStep(u) /\ UNCHANGED reportVars
    <2>1. PICK u \in Threads : \/ FactorStep(u) /\ UNCHANGED <<calcVars, reportVars>>
                               \/ CalcStep(u) /\ UNCHANGED reportVars
      BY <1>2
    <2>2. /\ Moves(u) /\ pc[u] # "announce" /\ pc'[u] # "announce"
      BY <1>0, <2>1, FactorMoves, CalcMoves DEF FactorPlace
    <2>3. QED
      BY <1>1, <2>2
  <1>3. ASSUME NEW u \in Threads, ReportStep(u)
        PROVE  /\ Moves(u)
               /\ pc[u] = "announce" => RecordSystemMessage(u)
               /\ pc'[u] = "announce" => StoreReport(u) /\ req'[u].id = made' /\ req'[u].s = req[u].s
    <2>1. Moves(u)
      BY <1>0, <1>3, ReportMoves
    <2>2. CASE StoreReport(u)
      <3>1. /\ pc[u] = "store"
            /\ req' = [req EXCEPT ![u] = [op |-> "report", s |-> req[u].s, id |-> made']]
        BY <2>2 DEF StoreReport
      <3>2. req'[u] = [op |-> "report", s |-> req[u].s, id |-> made']
        BY <1>0, <3>1, Updated DEF PerThread
      <3>3. QED
        BY <2>1, <2>2, <3>1, <3>2
    <2>3. CASE CreateReport(u)
      <3>1. PICK r : Arrive(u, r, "resolve")
        BY <2>3 DEF CreateReport
      <3>2. pc[u] = "idle" /\ pc'[u] = "resolve"
        BY <1>0, <3>1, ArriveMoves DEF Place, ReportPlace
      <3>3. QED
        BY <2>1, <3>2
    <2>4. CASE ResolveSources(u) \/ Generate(u)
      <3>1. /\ pc[u] \in {"resolve", "provider"}
            /\ Goto(u, "provider") \/ Goto(u, "store") \/ Finish(u)
        BY <2>4 DEF ResolveSources, Generate
      <3>2. pc'[u] # "announce"
        BY <1>0, <3>1, FinishMoves, GotoMoves DEF Place, ReportPlace
      <3>3. QED
        BY <2>1, <3>1, <3>2
    <2>5. CASE RecordSystemMessage(u)
      <3>1. pc'[u] = "idle"
        BY <1>0, <2>5, FinishMoves DEF RecordSystemMessage
      <3>2. QED
        BY <2>1, <2>5, <3>1
    <2>6. QED
      BY <1>3, <2>2, <2>3, <2>4, <2>5 DEF ReportStep
  <1>4. CASE \E u \in Threads : ReportStep(u)
    BY <1>1, <1>3, <1>4
  <1>5. CASE (\E s \in Sessions : AnswerAsk(s) \/ DeleteSession(s)) \/ UpdateReport
    <2>1. UNCHANGED factorVars
      BY <1>5 DEF AnswerAsk, DeleteSession, UpdateReport
    <2>2. QED
      BY <2>1 DEF factorVars
  <1>6. CASE CrashAll
    BY <1>6 DEF CrashAll, Crash
  <1>7. QED
    BY <1>2, <1>4, <1>5, <1>6, NextIs

-----------------------------------------------------------------------------
LEMMA NumberedInit == Init => Numbered /\ ReportsAreAnnounced
  <1> SUFFICES ASSUME Init PROVE Numbered /\ ReportsAreAnnounced
    OBVIOUS
  <1>1. /\ reports = {} /\ pc = [t \in Threads |-> "idle"] /\ live = Sessions
        /\ messages = [s \in Sessions |-> <<>>]
    BY DEF Init, InventoryInit, FactorsInit
  <1>2. Numbered
    BY <1>1 DEF Numbered
  <1>3. \A s \in live : Announced(s) = {}
    BY <1>1 DEF Announced
  <1>4. QED
    BY <1>1, <1>2, <1>3 DEF ReportsAreAnnounced

LEMMA NumberedStep ==
  ASSUME TypeInv, Numbered, Next
  PROVE  Numbered'
  <1>0. made \in Nat /\ made' \in Nat /\ 1..made \subseteq 1..made' /\ live' \subseteq live
    <2>1. made \in Nat /\ ReportsTypeOK /\ Requests
      BY DEF TypeInv, ReportsTypeOK
    <2>2. made' = made \/ made' = made + 1
      BY ReportsFrom
    <2>3. live' \subseteq live
      BY <2>1, NextIs, CalcMoves, ReportMoves, RestMoves DEF calcVars
    <2>4. QED
      BY <2>1, <2>2, <2>3
  <1>1. ASSUME NEW x \in reports'
        PROVE  \/ \E r \in reports : SameReport(x, r)
               \/ \E t \in Threads : StoreReport(t) /\ x.id = made' /\ x.s = req[t].s
    BY ReportsFrom
  <1>2. ASSUME NEW t \in Threads, StoreReport(t)
        PROVE  made' = made + 1 /\ made' \notin 1..made /\ made' \in 1..made'
    BY <1>0, <1>2 DEF StoreReport
  <1>3. \A x \in reports' : x.id \in 1..made'
    BY <1>0, <1>1, <1>2 DEF Numbered, SameReport
  <1>4. \A x, y \in reports' : x.id = y.id => x = y
    BY OneNumber
  <1>5. ASSUME NEW t \in Threads, pc'[t] = "announce"
        PROVE  /\ req'[t].id \in 1..made'
               /\ \A x \in reports' : x.id = req'[t].id => x.s = req'[t].s
               /\ req'[t].s \in live' => \E x \in reports' : x.id = req'[t].id /\ x.s = req'[t].s
    <2>1. CASE pc[t] = "announce" /\ req'[t] = req[t]
      <3>1. /\ req[t].id \in 1..made
            /\ \A r \in reports : r.id = req[t].id => r.s = req[t].s
            /\ req[t].s \in live => \E r \in reports : r.id = req[t].id /\ r.s = req[t].s
        BY <2>1 DEF Numbered
      <3>2. \A x \in reports' : x.id = req[t].id => x.s = req[t].s
        BY <1>1, <1>2, <3>1 DEF SameReport
      <3>3. req[t].s \in live' => \E x \in reports' : x.id = req[t].id /\ x.s = req[t].s
        <4>1. SUFFICES ASSUME req[t].s \in live'
                       PROVE  \E x \in reports' : x.id = req[t].id /\ x.s = req[t].s
          OBVIOUS
        <4>2. PICK r \in reports : r.id = req[t].id /\ r.s = req[t].s
          BY <1>0, <3>1, <4>1
        <4>3. \E x \in reports' : x.id = r.id /\ x.s = r.s
          BY <4>1, <4>2, ReportsKept
        <4>4. QED
          BY <4>2, <4>3
      <3>4. QED
        BY <1>0, <2>1, <3>1, <3>2, <3>3
    <2>2. CASE StoreReport(t) /\ req'[t].id = made' /\ req'[t].s = req[t].s
      <3> DEFINE new == [id |-> made', s |-> req[t].s, type |-> req[t].type, picked |-> drafts[t].picked,
                         calc |-> drafts[t].calc, text |-> "generated", named |-> req[t].calc # 0,
                         newest |-> req[t].newest, late |-> req[t].s \notin live, silent |-> FALSE]
      <3>1. new \in reports'
        BY <2>2 DEF StoreReport
      <3>2. new.id = made' /\ new.s = req[t].s
        OBVIOUS
      <3> HIDE DEF new
      <3>3. \A x \in reports' : x.id = made' => x.s = req[t].s
        BY <1>4, <3>1, <3>2
      <3>4. QED
        BY <1>2, <2>2, <3>1, <3>2, <3>3
    <2>3. QED
      BY <1>5, <2>1, <2>2, AnnouncersFrom
  <1>6. QED
    BY <1>3, <1>4, <1>5 DEF Numbered

\* ReportsAreAnnounced, report by report.
EachAnnounced ==
  \A s \in live :
    /\ \A n \in AnnouncedIn(messages[s]) : \E x \in reports : x.id = n /\ x.s = s
    /\ \A x \in reports : x.s = s =>
         \/ x.id \in AnnouncedIn(messages[s])
         \/ \E t \in Threads : pc[t] = "announce" /\ x.id = req[t].id
         \/ \E q \in reports : q.silent /\ q.id = x.id

LEMMA AnnouncedEach == ReportsAreAnnounced <=> EachAnnounced
  <1> DEFINE ids(s) == {r.id : r \in {q \in reports : q.s = s}}
             silent == {r.id : r \in {q \in reports : q.silent}}
  <1>1. \A s : Announced(s) = AnnouncedIn(messages[s])
    BY DEF Announced, AnnouncedIn
  <1>2. \A s, n : n \in ids(s) <=> \E x \in reports : x.id = n /\ x.s = s
    OBVIOUS
  <1>3. \A n : n \in silent <=> \E q \in reports : q.silent /\ q.id = n
    OBVIOUS
  <1>4. \A n : n \in Announcing <=> \E t \in Threads : pc[t] = "announce" /\ n = req[t].id
    BY DEF Announcing
  <1>5. ReportsAreAnnounced <=>
          \A s \in live : /\ Announced(s) \subseteq ids(s)
                         /\ ids(s) \subseteq Announced(s) \cup Announcing \cup silent
    BY DEF ReportsAreAnnounced
  <1> HIDE DEF ids, silent
  <1>6. QED
    BY <1>1, <1>2, <1>3, <1>4, <1>5 DEF EachAnnounced

LEMMA AnnouncedStep ==
  ASSUME TypeInv, Numbered, EachAnnounced, Next
  PROVE  EachAnnounced'
  <1> SUFFICES ASSUME NEW s \in live'
               PROVE  /\ \A n \in AnnouncedIn(messages'[s]) : \E x \in reports' : x.id = n /\ x.s = s
                      /\ \A x \in reports' : x.s = s =>
                           \/ x.id \in AnnouncedIn(messages'[s])
                           \/ \E t \in Threads : pc'[t] = "announce" /\ x.id = req'[t].id
                           \/ x.silent
    BY DEF EachAnnounced
  <1>1. /\ s \in live
        /\ \/ AnnouncedIn(messages'[s]) = AnnouncedIn(messages[s])
           \/ \E t \in Threads :
                /\ pc[t] = "announce" /\ RecordSystemMessage(t) /\ req[t].s = s
                /\ AnnouncedIn(messages'[s]) = AnnouncedIn(messages[s]) \cup {req[t].id}
        /\ \A t \in Threads : RecordSystemMessage(t) /\ req[t].s = s =>
             AnnouncedIn(messages'[s]) = AnnouncedIn(messages[s]) \cup {req[t].id}
    BY MessagesFrom
  <1>2. /\ \A n \in AnnouncedIn(messages[s]) : \E r \in reports : r.id = n /\ r.s = s
        /\ \A r \in reports : r.s = s =>
             \/ r.id \in AnnouncedIn(messages[s])
             \/ \E t \in Threads : pc[t] = "announce" /\ r.id = req[t].id
             \/ \E q \in reports : q.silent /\ q.id = r.id
    BY <1>1 DEF EachAnnounced
  <1>3. ASSUME NEW n \in AnnouncedIn(messages'[s])
        PROVE  \E x \in reports' : x.id = n /\ x.s = s
    <2>1. \E r \in reports : r.id = n /\ r.s = s
      <3>1. CASE n \in AnnouncedIn(messages[s])
        BY <1>2, <3>1
      <3>2. CASE \E t \in Threads : pc[t] = "announce" /\ req[t].s = s /\ n = req[t].id
        BY <1>1, <3>2 DEF Numbered
      <3>3. QED
        BY <1>1, <1>3, <3>1, <3>2
    <2>2. PICK r \in reports : r.id = n /\ r.s = s
      BY <2>1
    <2>3. \E x \in reports' : x.id = r.id /\ x.s = r.s
      BY <2>2, ReportsKept
    <2>4. QED
      BY <2>2, <2>3
  <1>4. ASSUME NEW x \in reports', x.s = s
        PROVE  \/ x.id \in AnnouncedIn(messages'[s])
               \/ \E t \in Threads : pc'[t] = "announce" /\ x.id = req'[t].id
               \/ x.silent
    <2>1. ASSUME NEW t \in Threads, StoreReport(t), x.id = made'
          PROVE  pc'[t] = "announce" /\ x.id = req'[t].id
      <3>1. /\ ReportsTypeOK /\ PerThread(req) /\ Goto(t, "announce")
            /\ req' = [req EXCEPT ![t] = [op |-> "report", s |-> req[t].s, id |-> made']]
        BY <2>1 DEF StoreReport, TypeInv, ReportsTypeOK, FactorsTypeOK
      <3>2. pc'[t] = "announce"
        BY <3>1, GotoMoves DEF Place, ReportPlace
      <3>3. req'[t] = [op |-> "report", s |-> req[t].s, id |-> made']
        BY <3>1, Updated DEF PerThread
      <3>4. QED
        BY <2>1, <3>2, <3>3
    <2>2. ASSUME NEW r \in reports, SameReport(x, r)
          PROVE  \/ x.id \in AnnouncedIn(messages'[s])
                 \/ \E t \in Threads : pc'[t] = "announce" /\ x.id = req'[t].id
                 \/ x.silent
      <3>0. r.id = x.id /\ r.s = s /\ (r.silent => x.silent)
        BY <1>4, <2>2 DEF SameReport
      <3>1. CASE r.id \in AnnouncedIn(messages[s])
        BY <1>1, <3>0, <3>1
      <3>2. ASSUME NEW t \in Threads, pc[t] = "announce", r.id = req[t].id
            PROVE  \/ x.id \in AnnouncedIn(messages'[s])
                   \/ \E u \in Threads : pc'[u] = "announce" /\ x.id = req'[u].id
                   \/ x.silent
        <4>1. CASE pc'[t] = "announce" /\ req'[t] = req[t]
          BY <3>0, <3>2, <4>1
        <4>2. CASE RecordSystemMessage(t)
          <5>1. req[t].s = s
            BY <3>0, <3>2 DEF Numbered
          <5>2. QED
            BY <1>1, <3>0, <3>2, <4>2, <5>1
        <4>3. CASE CrashAll
          <5>1. PICK q \in reports : x = [q EXCEPT !.silent = @ \/ q.id \in Announcing]
            BY <1>4, <4>3 DEF CrashAll
          <5>2. IsReport(q)
            BY DEF TypeInv, ReportsTypeOK
          <5>3. q.id = x.id /\ x.silent = (q.silent \/ q.id \in Announcing)
            BY <5>1, <5>2 DEF IsReport
          <5>4. q.id \in Announcing
            BY <3>0, <3>2, <5>3 DEF Announcing
          <5>5. x.silent
            BY <5>3, <5>4
          <5>6. QED
            BY <5>5
        <4>4. QED
          BY <3>2, <4>1, <4>2, <4>3, AnnouncersFrom
      <3>3. ASSUME NEW q \in reports, q.silent, q.id = r.id
            PROVE  x.silent
        <4>1. q = r
          BY <3>3 DEF Numbered
        <4>2. QED
          BY <3>0, <3>3, <4>1
      <3>4. QED
        BY <1>2, <3>0, <3>1, <3>2, <3>3
    <2>3. QED
      BY <2>1, <2>2, ReportsFrom
  <1>5. QED
    BY <1>3, <1>4

\* The messages of a session announce reports that are there, and every report of a
\* live session is announced, about to be, or was cut off by a crash: whichever
\* requests store reports and delete sessions between the two transactions.
THEOREM AnnouncedReports == Spec => []ReportsAreAnnounced
  <1> DEFINE Inv == TypeInv /\ Numbered /\ EachAnnounced
  <1>1. Init => Inv
    BY TypeInit, NumberedInit, AnnouncedEach
  <1>2. Inv /\ [Next]_vars => Inv'
    <2> SUFFICES ASSUME Inv, [Next]_vars PROVE Numbered' /\ EachAnnounced'
      BY TypeStep
    <2>1. CASE Next
      BY <2>1, NumberedStep, AnnouncedStep
    <2>2. CASE UNCHANGED vars
      <3>1. UNCHANGED <<pc, req, live, messages, reports, made>>
        BY <2>2 DEF vars, factorVars, calcVars, reportVars
      <3>2. QED
        BY <3>1 DEF Numbered, EachAnnounced
    <2>3. QED
      BY <2>1, <2>2
  <1>3. Inv => ReportsAreAnnounced
    BY AnnouncedEach
  <1>4. QED
    BY <1>1, <1>2, <1>3, PTL DEF Spec

-----------------------------------------------------------------------------
\* A finite set has a best one.
LEMMA BestIs ==
  ASSUME NEW C, IsFiniteSet(C), C # {}, NEW score \in [C -> Int]
  PROVE  BestOf(score) \in C
  <1> DEFINE Topped(D) == \E f \in D : \A g \in D : score[g] <= score[f]
             T == {n \in Nat : \E D \in SUBSET C : /\ IsFiniteSet(D) /\ D # {}
                                                   /\ Cardinality(D) = n /\ ~Topped(D)}
  <1>1. 0 \notin T
    BY FS_EmptySet
  <1>2. ASSUME NEW n \in Nat, n + 1 \in T
        PROVE  n \in T
    <2>1. PICK D \in SUBSET C : /\ IsFiniteSet(D) /\ D # {}
                                /\ Cardinality(D) = n + 1 /\ ~Topped(D)
      BY <1>2
    <2>2. PICK x \in D : TRUE
      BY <2>1
    <2> DEFINE E == D \ {x}
    <2>3. IsFiniteSet(E) /\ Cardinality(E) = (n + 1) - 1
      BY <2>1, <2>2, FS_RemoveElement
    <2>4. (n + 1) - 1 = n
      OBVIOUS
    <2>5. \A f \in D : score[f] \in Int
      BY <2>1
    <2>6. E # {} /\ ~Topped(E)
      <3>1. ASSUME E = {} PROVE FALSE
        <4>1. D = {x}
          BY <3>1, <2>2
        <4>2. Topped(D)
          BY <4>1, <2>5
        <4>3. QED
          BY <2>1, <4>2
      <3>2. ASSUME Topped(E) PROVE FALSE
        <4>1. PICK f \in E : \A g \in E : score[g] <= score[f]
          BY <3>2
        <4>2. f \in D /\ x \in D /\ score[f] \in Int /\ score[x] \in Int
          BY <2>2, <2>5, <4>1
        <4>3. CASE score[x] <= score[f]
          <5>1. \A g \in D : score[g] <= score[f]
            BY <4>1, <4>3
          <5>2. QED
            BY <2>1, <4>2, <5>1
        <4>4. CASE ~(score[x] <= score[f])
          <5>1. score[f] <= score[x] /\ score[x] <= score[x]
            BY <4>2, <4>4
          <5>2. ASSUME NEW g \in E PROVE score[g] <= score[x]
            <6>1. score[g] <= score[f] /\ score[g] \in Int
              BY <4>1, <2>5
            <6>2. QED
              BY <6>1, <5>1, <4>2
          <5>3. \A g \in D : score[g] <= score[x]
            BY <5>1, <5>2
          <5>4. QED
            BY <2>1, <4>2, <5>3
        <4>5. QED
          BY <4>3, <4>4
      <3>3. QED
        BY <3>1, <3>2
    <2>7. E \in SUBSET C
      OBVIOUS
    <2>8. QED
      <3> HIDE DEF E, Topped
      <3>1. QED
        BY <2>3, <2>4, <2>6, <2>7
  <1>3. T = {}
    <2>1. T \subseteq Nat
      OBVIOUS
    <2> HIDE DEF T
    <2>2. QED
      BY <1>1, <1>2, <2>1, NoCounterexample
  <1>4. Topped(C)
    <2>1. Cardinality(C) \in Nat
      BY FS_CardinalityType
    <2> HIDE DEF Topped
    <2>2. QED
      BY <1>3, <2>1
  <1>5. DOMAIN score = C
    OBVIOUS
  <1>6. QED
    BY <1>4, <1>5 DEF BestOf
-----------------------------------------------------------------------------
(* What a scan of a document finds *)

\* What scans have found so far: activities of A, keys of K and amounts of M.
Finds(A, K, M) == [out : Seq(A), taken : SUBSET K, amounts : SUBSET M]

\* There is room in these for whatever a segment holds.
Room(A, K, M, k, segment, registry) ==
  \A i \in 1..Len(segment.amounts) :
    LET a == segment.amounts[i]
        f == LocalFactor(registry, segment, a.unit)
    IN  /\ <<k, a>> \in M
        /\ \A p \in ToSet(Patterns) : /\ <<k, p.act, a, MatchedAlias(p, segment)>> \in K
                                      /\ Activity(k, p.act, p.region, a, f) \in A
        /\ f # NoFactor => Activity(k, ActivityOf(f), RegionOf(f), a, f) \in A

LEMMA FoundIs ==
  ASSUME NEW A, NEW K, NEW M, NEW found \in Finds(A, K, M), NEW x \in A,
         NEW key \in SUBSET K, NEW k, NEW a, <<k, a>> \in M
  PROVE  Found(found, x, key, k, a) \in Finds(A, K, M)
  <1>1. found.out \in Seq(A) /\ found.taken \subseteq K /\ found.amounts \subseteq M
    BY DEF Finds
  <1>2. Append(found.out, x) \in Seq(A)
    BY <1>1
  <1>3. found.taken \cup key \subseteq K /\ found.amounts \cup {<<k, a>>} \subseteq M
    BY <1>1
  <1>4. QED
    BY <1>2, <1>3 DEF Found, Finds

LEMMA TakesForPattern ==
  ASSUME NEW A, NEW K, NEW M, NEW found \in Finds(A, K, M),
         NEW k, NEW segment, NEW registry, Room(A, K, M, k, segment, registry),
         NEW i \in 1..Len(segment.amounts), NEW p \in ToSet(Patterns)
  PROVE  TakeForPattern(k, segment, registry, p, found, segment.amounts[i]) \in Finds(A, K, M)
  <1> DEFINE a == segment.amounts[i]
             key == <<k, p.act, a, MatchedAlias(p, segment)>>
             x == Activity(k, p.act, p.region, a, LocalFactor(registry, segment, a.unit))
  <1>1. <<k, a>> \in M /\ key \in K /\ x \in A
    BY DEF Room
  <1>2. TakeForPattern(k, segment, registry, p, found, a)
          = IF key \in found.taken THEN found ELSE Found(found, x, {key}, k, a)
    BY DEF TakeForPattern
  <1> HIDE DEF a, key, x
  <1>3. {key} \in SUBSET K
    BY <1>1
  <1>4. Found(found, x, {key}, k, a) \in Finds(A, K, M)
    BY <1>1, <1>3, FoundIs
  <1>5. TakeForPattern(k, segment, registry, p, found, a) \in Finds(A, K, M)
    BY <1>2, <1>4
  <1>6. QED
    BY <1>5 DEF a

LEMMA TakesForFactor ==
  ASSUME NEW A, NEW K, NEW M, NEW found \in Finds(A, K, M),
         NEW k, NEW segment, NEW registry, Room(A, K, M, k, segment, registry),
         NEW i \in 1..Len(segment.amounts)
  PROVE  TakeForFactor(k, segment, registry, found, segment.amounts[i]) \in Finds(A, K, M)
  <1> DEFINE a == segment.amounts[i]
             f == LocalFactor(registry, segment, a.unit)
             x == Activity(k, ActivityOf(f), RegionOf(f), a, f)
  <1>1. <<k, a>> \in M /\ (f # NoFactor => x \in A)
    BY DEF Room
  <1>2. TakeForFactor(k, segment, registry, found, a)
          = IF <<k, a>> \in found.amounts \/ f = NoFactor THEN found
            ELSE Found(found, x, {}, k, a)
    BY DEF TakeForFactor
  <1> HIDE DEF a, f, x
  <1>3. f # NoFactor => Found(found, x, {}, k, a) \in Finds(A, K, M)
    BY <1>1, FoundIs
  <1>4. TakeForFactor(k, segment, registry, found, a) \in Finds(A, K, M)
    BY <1>2, <1>3
  <1>5. QED
    BY <1>4 DEF a

LEMMA ScanPatternStays ==
  ASSUME NEW A, NEW K, NEW M, NEW found \in Finds(A, K, M),
         NEW k, NEW segment, NEW registry, Room(A, K, M, k, segment, registry),
         Len(segment.amounts) \in Nat, NEW p \in ToSet(Patterns)
  PROVE  ScanPattern(k, segment, registry, p, found) \in Finds(A, K, M)
  <1> DEFINE F == Finds(A, K, M)
             N == Len(segment.amounts)
             Turn(i, b) == IF i \notin FindQuantities(segment, p.unit) THEN b
                           ELSE TakeForPattern(k, segment, registry, p, b, segment.amounts[i])
             Loop(f) == [i \in 0..N |-> IF i = 0 THEN found ELSE Turn(i, f[i - 1])]
             after == CHOOSE f : f = Loop(f)
             step == [i \in 1..N |-> [b \in F |-> Turn(i, b)]]
  <1>0. N \in Nat /\ found \in F
    OBVIOUS
  <1>1. ASSUME NEW i \in 1..N, NEW b \in F
        PROVE  Turn(i, b) \in F
    BY TakesForPattern
  <1>2. ScanPattern(k, segment, registry, p, found) = (IF Named(p, segment) = {} THEN found ELSE after[N])
    BY DEF ScanPattern
  <1> HIDE DEF F, N, Turn
  <1>3. \E f : f = Loop(f)
    <2>1. PICK f \in [0..N -> F] :
            f[0] = found /\ \A i \in 1..N : f[i] = step[i][f[i - 1]]
      <3>1. Turns(step, N, F)
        BY <1>1 DEF Turns
      <3> HIDE DEF step, Loop, after
      <3>2. \E f \in [0..N -> F] : Runs(f, found, step, N)
        BY <1>0, <3>1, LoopRuns, Zenon
      <3>3. QED
        BY <3>2 DEF Runs
    <2>2. ASSUME NEW i \in 0..N, i # 0
          PROVE  step[i][f[i - 1]] = Turn(i, f[i - 1])
      <3>1. i \in 1..N /\ i - 1 \in 0..N
        BY <1>0, <2>2
      <3>2. QED
        BY <2>1, <3>1
    <2> HIDE DEF step
    <2>3. ASSUME NEW i \in 0..N
          PROVE  f[i] = IF i = 0 THEN found ELSE Turn(i, f[i - 1])
      <3>1. i = 0 \/ i \in 1..N
        BY <1>0
      <3>2. QED
        BY <2>1, <2>2, <3>1
    <2>4. f = Loop(f)
      BY <2>3
    <2>5. QED
      BY <2>4
  <1>4. after = Loop(after)
    BY <1>3
  <1> HIDE DEF after
  <1>5. after[0] = found /\ \A i \in 1..N : after[i] = Turn(i, after[i - 1])
    BY <1>0, <1>4
  <1>6. \A i \in 0..N : after[i] \in F
    <2>1. \A i \in 1..N : after[i - 1] \in F => after[i] \in F
      BY <1>1, <1>5
    <2>2. QED
      BY <1>0, <1>5, <2>1, LoopStays
  <1>7. after[N] \in F
    BY <1>0, <1>6
  <1>8. QED
    BY <1>0, <1>2, <1>7 DEF F

LEMMA ExtractLocalStays ==
  ASSUME NEW A, NEW K, NEW M, NEW found \in Finds(A, K, M),
         NEW k, NEW segment, NEW registry, Room(A, K, M, k, segment, registry),
         Len(segment.amounts) \in Nat
  PROVE  ExtractLocalFactorMatches(k, segment, registry, found) \in Finds(A, K, M)
  <1> DEFINE F == Finds(A, K, M)
             N == Len(segment.amounts)
             Turn(i, b) == IF i \notin FindAnyQuantities(segment) THEN b
                           ELSE TakeForFactor(k, segment, registry, b, segment.amounts[i])
             Loop(f) == [i \in 0..N |-> IF i = 0 THEN found ELSE Turn(i, f[i - 1])]
             after == CHOOSE f : f = Loop(f)
             step == [i \in 1..N |-> [b \in F |-> Turn(i, b)]]
  <1>0. N \in Nat /\ found \in F
    OBVIOUS
  <1>1. ASSUME NEW i \in 1..N, NEW b \in F
        PROVE  Turn(i, b) \in F
    BY TakesForFactor
  <1>2. ExtractLocalFactorMatches(k, segment, registry, found) = after[N]
    BY DEF ExtractLocalFactorMatches
  <1> HIDE DEF F, N, Turn
  <1>3. \E f : f = Loop(f)
    <2>1. PICK f \in [0..N -> F] :
            f[0] = found /\ \A i \in 1..N : f[i] = step[i][f[i - 1]]
      <3>1. Turns(step, N, F)
        BY <1>1 DEF Turns
      <3> HIDE DEF step, Loop, after
      <3>2. \E f \in [0..N -> F] : Runs(f, found, step, N)
        BY <1>0, <3>1, LoopRuns, Zenon
      <3>3. QED
        BY <3>2 DEF Runs
    <2>2. ASSUME NEW i \in 0..N, i # 0
          PROVE  step[i][f[i - 1]] = Turn(i, f[i - 1])
      <3>1. i \in 1..N /\ i - 1 \in 0..N
        BY <1>0, <2>2
      <3>2. QED
        BY <2>1, <3>1
    <2> HIDE DEF step
    <2>3. ASSUME NEW i \in 0..N
          PROVE  f[i] = IF i = 0 THEN found ELSE Turn(i, f[i - 1])
      <3>1. i = 0 \/ i \in 1..N
        BY <1>0
      <3>2. QED
        BY <2>1, <2>2, <3>1
    <2>4. f = Loop(f)
      BY <2>3
    <2>5. QED
      BY <2>4
  <1>4. after = Loop(after)
    BY <1>3
  <1> HIDE DEF after
  <1>5. after[0] = found /\ \A i \in 1..N : after[i] = Turn(i, after[i - 1])
    BY <1>0, <1>4
  <1>6. \A i \in 0..N : after[i] \in F
    <2>1. \A i \in 1..N : after[i - 1] \in F => after[i] \in F
      BY <1>1, <1>5
    <2>2. QED
      BY <1>0, <1>5, <2>1, LoopStays
  <1>7. after[N] \in F
    BY <1>0, <1>6
  <1>8. QED
    BY <1>0, <1>2, <1>7 DEF F

LEMMA ScanSegmentStays ==
  ASSUME NEW A, NEW K, NEW M, NEW found \in Finds(A, K, M),
         NEW k, NEW segment, NEW registry, Room(A, K, M, k, segment, registry),
         Len(segment.amounts) \in Nat
  PROVE  ScanSegment(k, segment, registry, found) \in Finds(A, K, M)
  <1> DEFINE F == Finds(A, K, M)
             N == Len(Patterns)
             Turn(i, b) == ScanPattern(k, segment, registry, Patterns[i], b)
             Loop(f) == [i \in 0..N |-> IF i = 0 THEN found ELSE Turn(i, f[i - 1])]
             after == CHOOSE f : f = Loop(f)
             step == [i \in 1..N |-> [b \in F |-> Turn(i, b)]]
  <1>0. N \in Nat /\ found \in F
    BY InventoryAssumption
  <1>1. ASSUME NEW i \in 1..N, NEW b \in F
        PROVE  Turn(i, b) \in F
    <2>1. Patterns[i] \in ToSet(Patterns)
      BY InventoryAssumption
    <2>2. QED
      BY <2>1, ScanPatternStays
  <1>2. ScanSegment(k, segment, registry, found) = ExtractLocalFactorMatches(k, segment, registry, after[N])
    BY DEF ScanSegment
  <1> HIDE DEF F, N, Turn
  <1>3. \E f : f = Loop(f)
    <2>1. PICK f \in [0..N -> F] :
            f[0] = found /\ \A i \in 1..N : f[i] = step[i][f[i - 1]]
      <3>1. Turns(step, N, F)
        BY <1>1 DEF Turns
      <3> HIDE DEF step, Loop, after
      <3>2. \E f \in [0..N -> F] : Runs(f, found, step, N)
        BY <1>0, <3>1, LoopRuns, Zenon
      <3>3. QED
        BY <3>2 DEF Runs
    <2>2. ASSUME NEW i \in 0..N, i # 0
          PROVE  step[i][f[i - 1]] = Turn(i, f[i - 1])
      <3>1. i \in 1..N /\ i - 1 \in 0..N
        BY <1>0, <2>2
      <3>2. QED
        BY <2>1, <3>1
    <2> HIDE DEF step
    <2>3. ASSUME NEW i \in 0..N
          PROVE  f[i] = IF i = 0 THEN found ELSE Turn(i, f[i - 1])
      <3>1. i = 0 \/ i \in 1..N
        BY <1>0
      <3>2. QED
        BY <2>1, <2>2, <3>1
    <2>4. f = Loop(f)
      BY <2>3
    <2>5. QED
      BY <2>4
  <1>4. after = Loop(after)
    BY <1>3
  <1> HIDE DEF after
  <1>5. after[0] = found /\ \A i \in 1..N : after[i] = Turn(i, after[i - 1])
    BY <1>0, <1>4
  <1>6. \A i \in 0..N : after[i] \in F
    <2>1. \A i \in 1..N : after[i - 1] \in F => after[i] \in F
      BY <1>1, <1>5
    <2>2. QED
      BY <1>0, <1>5, <2>1, LoopStays
  <1>7. after[N] \in F
    BY <1>0, <1>6
  <1>8. QED
    <2>1. ExtractLocalFactorMatches(k, segment, registry, after[N]) \in F
      BY <1>7, ExtractLocalStays DEF F
    <2>2. QED
      BY <1>2, <2>1 DEF F

LEMMA ScanChunkStays ==
  ASSUME NEW A, NEW K, NEW M, NEW found \in Finds(A, K, M),
         NEW k, NEW segments, segments \in Seq(ToSet(segments)), NEW registry,
         \A segment \in ToSet(segments) : /\ Room(A, K, M, k, segment, registry)
                                          /\ Len(segment.amounts) \in Nat
  PROVE  ScanChunk(k, segments, registry, found) \in Finds(A, K, M)
  <1> DEFINE F == Finds(A, K, M)
             N == Len(segments)
             Turn(i, b) == ScanSegment(k, segments[i], registry, b)
             Loop(f) == [i \in 0..N |-> IF i = 0 THEN found ELSE Turn(i, f[i - 1])]
             after == CHOOSE f : f = Loop(f)
             step == [i \in 1..N |-> [b \in F |-> Turn(i, b)]]
  <1>0. N \in Nat /\ found \in F
    OBVIOUS
  <1>1. ASSUME NEW i \in 1..N, NEW b \in F
        PROVE  Turn(i, b) \in F
    <2>1. segments[i] \in ToSet(segments)
      OBVIOUS
    <2>2. QED
      BY <2>1, ScanSegmentStays
  <1>2. ScanChunk(k, segments, registry, found) = after[N]
    BY DEF ScanChunk
  <1> HIDE DEF F, N, Turn
  <1>3. \E f : f = Loop(f)
    <2>1. PICK f \in [0..N -> F] :
            f[0] = found /\ \A i \in 1..N : f[i] = step[i][f[i - 1]]
      <3>1. Turns(step, N, F)
        BY <1>1 DEF Turns
      <3> HIDE DEF step, Loop, after
      <3>2. \E f \in [0..N -> F] : Runs(f, found, step, N)
        BY <1>0, <3>1, LoopRuns, Zenon
      <3>3. QED
        BY <3>2 DEF Runs
    <2>2. ASSUME NEW i \in 0..N, i # 0
          PROVE  step[i][f[i - 1]] = Turn(i, f[i - 1])
      <3>1. i \in 1..N /\ i - 1 \in 0..N
        BY <1>0, <2>2
      <3>2. QED
        BY <2>1, <3>1
    <2> HIDE DEF step
    <2>3. ASSUME NEW i \in 0..N
          PROVE  f[i] = IF i = 0 THEN found ELSE Turn(i, f[i - 1])
      <3>1. i = 0 \/ i \in 1..N
        BY <1>0
      <3>2. QED
        BY <2>1, <2>2, <3>1
    <2>4. f = Loop(f)
      BY <2>3
    <2>5. QED
      BY <2>4
  <1>4. after = Loop(after)
    BY <1>3
  <1> HIDE DEF after
  <1>5. after[0] = found /\ \A i \in 1..N : after[i] = Turn(i, after[i - 1])
    BY <1>0, <1>4
  <1>6. \A i \in 0..N : after[i] \in F
    <2>1. \A i \in 1..N : after[i - 1] \in F => after[i] \in F
      BY <1>1, <1>5
    <2>2. QED
      BY <1>0, <1>5, <2>1, LoopStays
  <1>7. after[N] \in F
    BY <1>0, <1>6
  <1>8. QED
    BY <1>0, <1>2, <1>7 DEF F

LEMMA ExtractStays ==
  ASSUME NEW A, NEW K, NEW M, NEW chunks, chunks \in Seq(ToSet(chunks)), NEW registry,
         \A k \in 1..Len(chunks) :
           /\ chunks[k] \in Seq(ToSet(chunks[k]))
           /\ \A segment \in ToSet(chunks[k]) : /\ Room(A, K, M, k, segment, registry)
                                                /\ Len(segment.amounts) \in Nat
  PROVE  Extract(chunks, registry) \in Seq(A)
  <1> DEFINE F == Finds(A, K, M)
             N == Len(chunks)
             Turn(i, b) == ScanChunk(i, chunks[i], registry, b)
             Loop(f) == [i \in 0..N |-> IF i = 0 THEN Nothing ELSE Turn(i, f[i - 1])]
             after == CHOOSE f : f = Loop(f)
             step == [i \in 1..N |-> [b \in F |-> Turn(i, b)]]
  <1>0. N \in Nat /\ Nothing \in F
    <2>1. <<>> \in Seq(A)
      OBVIOUS
    <2>2. QED
      BY <2>1 DEF F, Nothing, Finds
  <1>1. ASSUME NEW i \in 1..N, NEW b \in F
        PROVE  Turn(i, b) \in F
    BY ScanChunkStays
  <1>2. Extract(chunks, registry) = after[N].out
    BY DEF Extract
  <1> HIDE DEF F, N, Turn
  <1>3. \E f : f = Loop(f)
    <2>1. PICK f \in [0..N -> F] :
            f[0] = Nothing /\ \A i \in 1..N : f[i] = step[i][f[i - 1]]
      <3>1. Turns(step, N, F)
        BY <1>1 DEF Turns
      <3> HIDE DEF step, Loop, after
      <3>2. \E f \in [0..N -> F] : Runs(f, Nothing, step, N)
        BY <1>0, <3>1, LoopRuns, Zenon
      <3>3. QED
        BY <3>2 DEF Runs
    <2>2. ASSUME NEW i \in 0..N, i # 0
          PROVE  step[i][f[i - 1]] = Turn(i, f[i - 1])
      <3>1. i \in 1..N /\ i - 1 \in 0..N
        BY <1>0, <2>2
      <3>2. QED
        BY <2>1, <3>1
    <2> HIDE DEF step
    <2>3. ASSUME NEW i \in 0..N
          PROVE  f[i] = IF i = 0 THEN Nothing ELSE Turn(i, f[i - 1])
      <3>1. i = 0 \/ i \in 1..N
        BY <1>0
      <3>2. QED
        BY <2>1, <2>2, <3>1
    <2>4. f = Loop(f)
      BY <2>3
    <2>5. QED
      BY <2>4
  <1>4. after = Loop(after)
    BY <1>3
  <1> HIDE DEF after
  <1>5. after[0] = Nothing /\ \A i \in 1..N : after[i] = Turn(i, after[i - 1])
    BY <1>0, <1>4
  <1>6. \A i \in 0..N : after[i] \in F
    <2>1. \A i \in 1..N : after[i - 1] \in F => after[i] \in F
      BY <1>1, <1>5
    <2>2. QED
      BY <1>0, <1>5, <2>1, LoopStays
  <1>7. after[N] \in F
    BY <1>0, <1>6
  <1>8. QED
    BY <1>2, <1>7 DEF F, Finds

\* The factor recognized in a segment is one of the registry.
LEMMA LocalFactorIs ==
  ASSUME NEW registry \in SUBSET Factors, IsFiniteSet(registry), NEW segment, NEW unit,
         LocalFactor(registry, segment, unit) # NoFactor
  PROVE  LocalFactor(registry, segment, unit) \in registry
  <1> DEFINE C == FactorCandidates(registry, segment, unit)
             score == [f \in C |-> MatchScore(f)]
  <1>1. C \subseteq registry
    BY DEF FactorCandidates
  <1>2. C # {} /\ LocalFactor(registry, segment, unit) = BestOf(score)
    BY DEF LocalFactor
  <1> HIDE DEF C
  <1>3. IsFiniteSet(C)
    BY <1>1, FS_Subset
  <1>4. score \in [C -> Int]
    BY <1>1, InventoryAssumption
  <1> HIDE DEF score
  <1>5. BestOf(score) \in C
    BY <1>2, <1>3, <1>4, BestIs
  <1>6. QED
    BY <1>1, <1>2, <1>5

\* A sequence of items, each of which asks for one of the regions.
Listed(q) == \E S : q \in Seq(S) /\ \A x \in S : x.region \in Regions

LEMMA ExtractIs ==
  ASSUME NEW doc \in Documents, NEW registry \in SUBSET Factors, IsFiniteSet(registry)
  PROVE  Listed(Extract(doc, registry))
  <1> DEFINE Segs == UNION {ToSet(doc[k]) : k \in 1..Len(doc)}
             Amts == UNION {ToSet(s.amounts) : s \in Segs}
             P == ToSet(Patterns)
             ByPattern == {Activity(k, p.act, p.region, a, LocalFactor(registry, s, a.unit)) :
                             k \in Nat, p \in P, a \in Amts, s \in Segs}
             ByFactor == {Activity(k, ActivityOf(f), RegionOf(f), a, f) :
                            k \in Nat, f \in registry, a \in Amts}
             A == ByPattern \cup ByFactor
             K == {<<k, p.act, a, MatchedAlias(p, s)>> : k \in Nat, p \in P, a \in Amts, s \in Segs}
             M == {<<k, a>> : k \in Nat, a \in Amts}
  <1>1. /\ doc \in Seq(ToSet(doc)) /\ Len(doc) \in Nat
        /\ \A k \in 1..Len(doc) : doc[k] \in ToSet(doc)
    BY InventoryAssumption DEF ToSet
  <1>2. \A k \in 1..Len(doc) :
          /\ doc[k] \in Seq(ToSet(doc[k]))
          /\ \A s \in ToSet(doc[k]) : s.amounts \in Seq(ToSet(s.amounts)) /\ Len(s.amounts) \in Nat
    <2>1. SUFFICES ASSUME NEW k \in 1..Len(doc)
                   PROVE  /\ doc[k] \in Seq(ToSet(doc[k]))
                          /\ \A s \in ToSet(doc[k]) : s.amounts \in Seq(ToSet(s.amounts))
      BY LenProperties
    <2>2. QED
      BY <1>1, InventoryAssumption
  <1>3. ASSUME NEW k \in 1..Len(doc), NEW s \in ToSet(doc[k])
        PROVE  Room(A, K, M, k, s, registry)
    <2> DEFINE Amount(i) == s.amounts[i]
               Local(i) == LocalFactor(registry, s, Amount(i).unit)
    <2>1. ASSUME NEW i \in 1..Len(s.amounts)
          PROVE  /\ <<k, Amount(i)>> \in M
                 /\ \A p \in P : /\ <<k, p.act, Amount(i), MatchedAlias(p, s)>> \in K
                                 /\ Activity(k, p.act, p.region, Amount(i), Local(i)) \in A
                 /\ Local(i) # NoFactor =>
                      Activity(k, ActivityOf(Local(i)), RegionOf(Local(i)), Amount(i), Local(i)) \in A
      <3> DEFINE a == Amount(i)
                 f == Local(i)
      <3>1. k \in Nat /\ s \in Segs
        OBVIOUS
      <3>2. a \in ToSet(s.amounts)
        BY <1>2 DEF ToSet
      <3>3. a \in Amts
        BY <3>1, <3>2
      <3>4. f # NoFactor => f \in registry
        BY LocalFactorIs
      <3> HIDE DEF Segs, Amts, P, Amount
      <3>5. \A p \in P : Activity(k, p.act, p.region, a, f) \in ByPattern
        BY <3>1, <3>3
      <3>6. \A p \in P : <<k, p.act, a, MatchedAlias(p, s)>> \in K
        BY <3>1, <3>3
      <3>7. <<k, a>> \in M
        BY <3>1, <3>3
      <3> HIDE DEF Local
      <3>8. f # NoFactor => Activity(k, ActivityOf(f), RegionOf(f), a, f) \in ByFactor
        BY <3>1, <3>3, <3>4
      <3> HIDE DEF ByPattern, ByFactor, K, M
      <3>9. QED
        BY <3>5, <3>6, <3>7, <3>8
    <2> HIDE DEF A, K, M
    <2>2. QED
      BY <2>1 DEF Room
  <1>4. \A x \in A : x.region \in Regions
    <2>1. \A p \in P : p.region \in Regions
      BY InventoryAssumption
    <2>2. \A f \in registry : RegionOf(f) \in Regions
      BY InventoryAssumption
    <2> HIDE DEF P, Amts, Segs
    <2>3. \A x \in ByPattern : x.region \in Regions
      BY <2>1 DEF Activity
    <2>4. \A x \in ByFactor : x.region \in Regions
      BY <2>2 DEF Activity
    <2>5. QED
      BY <2>3, <2>4
  <1> HIDE DEF A, K, M
  <1>5. Extract(doc, registry) \in Seq(A)
    BY <1>1, <1>2, <1>3, ExtractStays
  <1>6. QED
    BY <1>4, <1>5 DEF Listed

-----------------------------------------------------------------------------
(* The lines of a calculation *)

LEMMA SelectIs ==
  ASSUME NEW registry \in SUBSET Factors, IsFiniteSet(registry), NEW item,
         item.region \in Regions, SelectFactor(registry, item) # NoFactor
  PROVE  ActivityOf(SelectFactor(registry, item)) = item.act
  <1> DEFINE C == {f \in registry : ActivityOf(f) = item.act}
             score == [f \in C |-> Rank(f, item.region)]
  <1>1. C # {} /\ SelectFactor(registry, item) \in ({item.wish} \cap C) \cup {BestOf(score)}
    BY DEF SelectFactor
  <1>2. C \subseteq Factors /\ IsFiniteSet(C)
    BY FS_Subset
  <1>3. score \in [C -> Int]
    BY <1>2, InventoryAssumption
  <1>4. BestOf(score) \in C
    <2> HIDE DEF C, score
    <2>1. QED
      BY <1>1, <1>2, <1>3, BestIs
  <1>5. QED
    BY <1>1, <1>4

-----------------------------------------------------------------------------
(* Active items *)

\* The active items among the first n, and the positions of the positive ones.
Upto(q, n, a, b) ==
  /\ Len(a) = Len(b) /\ Len(b) \in Nat
  /\ \A j \in 1..Len(b) : b[j] \in 1..n /\ q[b[j]].value > 0 /\ a[j] = q[b[j]]
  /\ \A i, j \in 1..Len(b) : i < j => b[i] < b[j]
  /\ \A i \in 1..n : q[i].value > 0 => \E j \in 1..Len(b) : b[j] = i

LEMMA MatchesNone ==
  ASSUME NEW q, NEW n, n = 0
  PROVE  Upto(q, n, <<>>, <<>>)
  BY DEF Upto

LEMMA UptoSkips ==
  ASSUME NEW q, NEW n \in Nat, NEW a, NEW b, Upto(q, n, a, b), ~(q[n + 1].value > 0)
  PROVE  Upto(q, n + 1, a, b)
  <1>1. \A i \in 1..(n + 1) : i \in 1..n \/ i = n + 1
    OBVIOUS
  <1>2. 1..n \subseteq 1..(n + 1)
    OBVIOUS
  <1>3. QED
    BY <1>1, <1>2 DEF Upto

LEMMA UptoTakes ==
  ASSUME NEW S, NEW q, NEW n \in Nat, NEW a \in Seq(S), NEW b \in Seq(Nat),
         Upto(q, n, a, b), q[n + 1] \in S, q[n + 1].value > 0
  PROVE  Upto(q, n + 1, Append(a, q[n + 1]), Append(b, n + 1))
  <1> DEFINE m == Len(b)
             c == Append(a, q[n + 1])
             d == Append(b, n + 1)
  <1>1. m \in Nat /\ Len(a) = m /\ Len(c) = m + 1 /\ Len(d) = m + 1
    BY AppendProperties DEF Upto
  <1>2. \A j \in 1..m : c[j] = a[j] /\ d[j] = b[j]
    BY <1>1, AppendProperties
  <1>3. c[m + 1] = q[n + 1] /\ d[m + 1] = n + 1
    BY <1>1, AppendProperties
  <1>4. \A j \in 1..m : b[j] \in 1..n /\ q[b[j]].value > 0 /\ a[j] = q[b[j]]
    BY DEF Upto
  <1>5. \A i, j \in 1..m : i < j => b[i] < b[j]
    BY DEF Upto
  <1>6. \A i \in 1..n : q[i].value > 0 => \E j \in 1..m : b[j] = i
    BY DEF Upto
  <1>7. /\ \A j \in 1..(m + 1) : j \in 1..m \/ j = m + 1
        /\ \A i \in 1..(n + 1) : i \in 1..n \/ i = n + 1
        /\ 1..m \subseteq 1..(m + 1) /\ m + 1 \in 1..(m + 1)
        /\ 1..n \subseteq 1..(n + 1) /\ n + 1 \in 1..(n + 1)
    BY <1>1
  <1> HIDE DEF m, c, d
  <1>8. \A j \in 1..(m + 1) : d[j] \in 1..(n + 1) /\ q[d[j]].value > 0 /\ c[j] = q[d[j]]
    BY <1>2, <1>3, <1>4, <1>7
  <1>9. ASSUME NEW i \in 1..(m + 1), NEW j \in 1..(m + 1), i < j
        PROVE  d[i] < d[j]
    <2>1. i \in 1..m
      BY <1>1, <1>9
    <2>2. d[i] = b[i] /\ b[i] \in 1..n
      BY <1>2, <1>4, <2>1
    <2>3. CASE j = m + 1
      <3>1. d[j] = n + 1
        BY <1>3, <2>3
      <3>2. b[i] < n + 1
        BY <2>2
      <3>3. QED
        BY <2>2, <3>1, <3>2
    <2>4. CASE j \in 1..m
      BY <1>2, <1>5, <1>9, <2>1, <2>4
    <2>5. QED
      BY <1>7, <2>3, <2>4
  <1>10. \A i \in 1..(n + 1) : q[i].value > 0 => \E j \in 1..(m + 1) : d[j] = i
    BY <1>2, <1>3, <1>6, <1>7
  <1>11. QED
    BY <1>1, <1>8, <1>9, <1>10 DEF Upto, c, d

LEMMA ActiveAre ==
  ASSUME NEW S, NEW q \in Seq(S)
  PROVE  Upto(q, Len(q), ActiveItems(q), PositiveIds(q))
  <1> DEFINE N == Len(q)
             kept == {i \in 1..N : q[i].value > 0}
             ids == [i \in 1..N |-> i]
             Active(f) == [i \in 0..N |-> IF i = 0 THEN <<>>
                                          ELSE IF q[i].value > 0 THEN Append(f[i - 1], q[i])
                                          ELSE f[i - 1]]
             Positive(f) == [i \in 0..N |-> IF i = 0 THEN <<>>
                                            ELSE IF q[i].value > 0 THEN Append(f[i - 1], i)
                                            ELSE f[i - 1]]
             a == CHOOSE f : f = Active(f)
             b == CHOOSE f : f = Positive(f)
  <1>1. N \in Nat /\ (\A i \in 1..N : q[i] \in S /\ ids[i] \in Nat)
    OBVIOUS
  <1>2. ASSUME NEW f
        PROVE  /\ Kept(f, N, kept, q) <=> f = Active(f)
               /\ Kept(f, N, kept, ids) <=> f = Positive(f)
    <2>1. ASSUME NEW i \in 0..N, i # 0
          PROVE  (i \in kept <=> q[i].value > 0) /\ ids[i] = i
      <3>1. i \in 1..N
        BY <1>1, <2>1
      <3>2. ids[i] = i
        BY <3>1
      <3>3. i \in kept <=> q[i].value > 0
        BY <3>1, Zenon
      <3>4. QED
        BY <3>2, <3>3
    <2> HIDE DEF kept, ids, N
    <2>2. [i \in 0..N |-> IF i = 0 THEN <<>>
                          ELSE IF i \in kept THEN Append(f[i - 1], q[i]) ELSE f[i - 1]] = Active(f)
      BY <2>1
    <2>3. [i \in 0..N |-> IF i = 0 THEN <<>>
                          ELSE IF i \in kept THEN Append(f[i - 1], ids[i]) ELSE f[i - 1]] = Positive(f)
      BY <2>1
    <2>4. QED
      BY <2>2, <2>3 DEF Kept
  <1>3. ActiveItems(q) = a[N] /\ PositiveIds(q) = b[N]
    BY DEF ActiveItems, PositiveIds
  <1>4. \A i \in 1..N : i \in kept <=> q[i].value > 0
    OBVIOUS
  <1>5. \A i \in 1..N : ids[i] = i
    OBVIOUS
  <1> HIDE DEF N, kept, ids, Active, Positive
  <1>6. (\E f : f = Active(f)) /\ \E f : f = Positive(f)
    <2>1. \E f : Kept(f, N, kept, q)
      BY <1>1, KeptRuns
    <2>2. \E f : Kept(f, N, kept, ids)
      BY <1>1, KeptRuns
    <2>3. QED
      BY <1>2, <2>1, <2>2
  <1>7. a = Active(a) /\ b = Positive(b)
    BY <1>6
  <1> HIDE DEF a, b
  <1>8. Kept(a, N, kept, q) /\ Kept(b, N, kept, ids)
    BY <1>2, <1>7
  <1>9. /\ a[0] = <<>> /\ b[0] = <<>>
        /\ \A i \in 0..(N - 1) : a[i + 1] = IF i + 1 \in kept THEN Append(a[i], q[i + 1]) ELSE a[i]
        /\ \A i \in 0..(N - 1) : b[i + 1] = IF i + 1 \in kept THEN Append(b[i], ids[i + 1]) ELSE b[i]
    BY <1>1, <1>8, KeptIs
  <1> DEFINE Good(n) == a[n] \in Seq(S) /\ b[n] \in Seq(Nat) /\ Upto(q, n, a[n], b[n])
             T == {n \in Nat : n <= N /\ ~Good(n)}
  <1>10. 0 \notin T
    <2>1. <<>> \in Seq(S) /\ <<>> \in Seq(Nat) /\ Upto(q, 0, <<>>, <<>>)
      BY MatchesNone
    <2>2. Good(0)
      BY <1>9, <2>1
    <2>3. QED
      BY <2>2
  <1>11. ASSUME NEW n \in Nat, n + 1 \in T
         PROVE  n \in T
    <2>0. n \in 0..(N - 1) /\ n + 1 \in 1..N /\ n <= N /\ ~Good(n + 1)
      BY <1>1, <1>11
    <2>1. SUFFICES ASSUME Good(n) PROVE Good(n + 1)
      BY <2>0
    <2>2. /\ a[n + 1] = IF n + 1 \in kept THEN Append(a[n], q[n + 1]) ELSE a[n]
          /\ b[n + 1] = IF n + 1 \in kept THEN Append(b[n], n + 1) ELSE b[n]
      BY <1>5, <1>9, <2>0
    <2>3. a[n] \in Seq(S) /\ b[n] \in Seq(Nat) /\ Upto(q, n, a[n], b[n])
      BY <2>1
    <2>4. q[n + 1] \in S /\ (n + 1 \in kept <=> q[n + 1].value > 0)
      BY <1>1, <1>4, <2>0
    <2> HIDE DEF Good
    <2>5. CASE n + 1 \in kept
      <3>1. a[n + 1] = Append(a[n], q[n + 1]) /\ b[n + 1] = Append(b[n], n + 1)
        BY <2>2, <2>5
      <3>2. Upto(q, n + 1, Append(a[n], q[n + 1]), Append(b[n], n + 1))
        BY <2>3, <2>4, <2>5, UptoTakes
      <3>3. Append(a[n], q[n + 1]) \in Seq(S) /\ Append(b[n], n + 1) \in Seq(Nat)
        BY <2>3, <2>4, AppendProperties
      <3>4. QED
        BY <3>1, <3>2, <3>3 DEF Good
    <2>6. CASE n + 1 \notin kept
      <3>1. a[n + 1] = a[n] /\ b[n + 1] = b[n]
        BY <2>2, <2>6
      <3>2. Upto(q, n + 1, a[n], b[n])
        BY <2>3, <2>4, <2>6, UptoSkips
      <3>3. QED
        BY <2>3, <3>1, <3>2 DEF Good
    <2>7. QED
      BY <2>5, <2>6
  <1>12. T = {}
    <2>1. T \subseteq Nat
      OBVIOUS
    <2> HIDE DEF T
    <2>2. QED
      BY <1>10, <1>11, <2>1, NoCounterexample
  <1>13. Good(N)
    BY <1>1, <1>12
  <1>14. QED
    BY <1>3, <1>13 DEF N

\* The lines of a calculation follow its items.
Lined(c) ==
  LET owner == [k \in 1..Len(c.lines) |-> c.lines[k].item]
  IN  /\ ToSet(owner) = {k \in 1..Len(c.items) : c.items[k].value > 0}
      /\ Cardinality(ToSet(owner)) = Len(c.lines)
      /\ \A k \in 1..Len(c.lines) :
           LET line == c.lines[k].line
           IN  /\ c.items[owner[k]].act = line.act
               /\ c.items[owner[k]].value = line.value
               /\ ActivityOf(line.factor) = line.act

\* Places in ascending order are as many as there are.
Ascending(b, m, n) ==
  /\ \A i \in 1..m : b[i] \in 1..n
  /\ \A i, j \in 1..m : i < j => b[i] < b[j]

LEMMA AscendingCount ==
  ASSUME NEW m \in Nat, NEW n \in Nat, NEW b, Ascending(b, m, n)
  PROVE  Cardinality({b[i] : i \in 1..m}) = m
  <1> DEFINE P == {b[i] : i \in 1..m}
             f == [i \in 1..m |-> b[i]]
  <1>1. \A i, j \in 1..m : i = j \/ i < j \/ j < i
    OBVIOUS
  <1>2. \A i, j \in 1..m : i < j => b[i] # b[j]
    <2>1. SUFFICES ASSUME NEW i \in 1..m, NEW j \in 1..m, i < j
                   PROVE  b[i] # b[j]
      OBVIOUS
    <2>2. b[i] \in 1..n /\ b[j] \in 1..n /\ b[i] < b[j]
      BY <2>1 DEF Ascending
    <2>3. QED
      BY <2>2
  <1>3. \A i, j \in 1..m : b[i] = b[j] => i = j
    BY <1>1, <1>2
  <1>4. f \in [1..m -> P] /\ (\A i, j \in 1..m : f[i] = f[j] => i = j)
        /\ \A x \in P : \E i \in 1..m : f[i] = x
    BY <1>3
  <1> HIDE DEF f, P
  <1>5. ExistsBijection(1..m, P)
    BY <1>4 DEF ExistsBijection, Bijection, Injection, Surjection, IsInjective
  <1>6. IsFiniteSet(1..m) /\ Cardinality(1..m) = m
    BY FS_Interval
  <1>7. Cardinality(P) = m
    BY <1>5, <1>6, FS_Bijection
  <1>8. QED
    BY <1>7 DEF P

LEMMA InventoryIs ==
  ASSUME NEW t \in Threads, Listed(items[t]), reg[t].ids \in SUBSET Factors,
         IsFiniteSet(reg[t].ids), CanCalculate(items[t], reg[t].ids)
  PROVE  Lined(Inventory(t))
  <1> DEFINE q == items[t]
             R == reg[t].ids
             a == ActiveItems(q)
             b == PositiveIds(q)
             m == Len(b)
             c == Inventory(t)
             lines == c.lines
             owner == [k \in 1..Len(lines) |-> lines[k].item]
             Line(k) == [act |-> a[k].act, value |-> a[k].value, factor |-> SelectFactor(R, a[k])]
  <1>1. PICK S : q \in Seq(S) /\ \A x \in S : x.region \in Regions
    BY DEF Listed
  <1>2. Len(q) \in Nat /\ \A i \in 1..Len(q) : q[i] \in S
    BY <1>1
  <1>3. Upto(q, Len(q), a, b)
    BY <1>1, ActiveAre
  <1>4. /\ Len(a) = m /\ m \in Nat
        /\ \A j \in 1..m : b[j] \in 1..Len(q) /\ q[b[j]].value > 0 /\ a[j] = q[b[j]]
        /\ \A i, j \in 1..m : i < j => b[i] < b[j]
        /\ \A i \in 1..Len(q) : q[i].value > 0 => \E j \in 1..m : b[j] = i
    BY <1>3 DEF Upto
  <1>5. \A k \in 1..m : SelectFactor(R, a[k]) # NoFactor
    BY <1>4 DEF CanCalculate
  <1>6. Breakdown(q, R) = [k \in 1..m |-> Line(k)]
    BY <1>4 DEF Breakdown
  <1>7. c.items = q /\ c.lines = StoredLines(t)
    BY DEF Inventory
  <1> HIDE DEF a, b, m, Line, c
  <1>8. Len(Breakdown(q, R)) = m
    BY <1>4, <1>6
  <1>9. lines = [k \in 1..m |-> [line |-> Line(k), item |-> b[k]]]
    <2>1. StoredLines(t) = [k \in 1..m |-> [line |-> Breakdown(q, R)[k],
                                            item |-> IF k <= m THEN b[k] ELSE 0]]
      BY <1>8 DEF StoredLines, b, m
    <2>2. \A k \in 1..m : k <= m /\ Breakdown(q, R)[k] = Line(k)
      BY <1>4, <1>6
    <2>3. QED
      BY <1>7, <2>1, <2>2
  <1> HIDE DEF q, R, lines
  <1>10. Len(lines) = m /\ \A k \in 1..m : lines[k].line = Line(k) /\ lines[k].item = b[k]
    BY <1>4, <1>9
  <1>11. owner = [k \in 1..m |-> b[k]]
    BY <1>10
  <1>12. ToSet(owner) = {b[k] : k \in 1..m}
    BY <1>11 DEF ToSet
  <1>13. {b[k] : k \in 1..m} = {k \in 1..Len(q) : q[k].value > 0}
    <2>1. \A k \in 1..m : b[k] \in {i \in 1..Len(q) : q[i].value > 0}
      BY <1>4, Zenon
    <2>2. \A i \in {k \in 1..Len(q) : q[k].value > 0} : i \in {b[k] : k \in 1..m}
      BY <1>4, Zenon
    <2>3. QED
      BY <2>1, <2>2, ZenonT(20)
  <1>14. Cardinality({b[k] : k \in 1..m}) = m
    <2>1. Ascending(b, m, Len(q))
      BY <1>4 DEF Ascending
    <2>2. Len(q) \in Nat /\ m \in Nat
      BY <1>2, <1>4
    <2>3. QED
      BY <2>1, <2>2, AscendingCount
  <1>15. ASSUME NEW k \in 1..m
         PROVE  /\ owner[k] = b[k] /\ q[b[k]].act = lines[k].line.act
                /\ q[b[k]].value = lines[k].line.value
                /\ ActivityOf(lines[k].line.factor) = lines[k].line.act
    <2>1. owner[k] = b[k] /\ lines[k].line = Line(k) /\ a[k] = q[b[k]] /\ a[k] \in S
      BY <1>2, <1>4, <1>10, <1>11
    <2>2. ActivityOf(SelectFactor(R, a[k])) = a[k].act
      <3>1. a[k].region \in Regions /\ SelectFactor(R, a[k]) # NoFactor
        BY <1>1, <1>5, <2>1
      <3>2. R \in SUBSET Factors /\ IsFiniteSet(R)
        BY DEF R
      <3>3. QED
        BY <3>1, <3>2, SelectIs
    <2>3. QED
      BY <2>1, <2>2 DEF Line
  <1>16. Lined(c)
    BY <1>7, <1>10, <1>12, <1>13, <1>14, <1>15 DEF Lined, lines
  <1>17. QED
    BY <1>16 DEF c

\* The factors the database has a record of, on or off.
Recorded == {f \in Factors : factor[f].st # "none"}

\* What stands behind the lines: finite registries, items that ask for a region,
\* documents that are some upload's.
Aligned ==
  /\ IsFiniteSet(Recorded)
  /\ \A t \in Threads : IsFiniteSet(reg[t].ids) /\ Listed(items[t])
  /\ \A t \in Threads : pc[t] \notin ReportPlace \cup {"idle"} /\ req[t].op = "extract" =>
       req[t].doc \in Documents
  /\ \A i \in 1..Len(calcs) : Lined(calcs[i])

LEMMA EmptyIs == Listed(<<>>) /\ IsFiniteSet(NoRegistry.ids)
  <1> DEFINE S == {r \in Regions : FALSE}
  <1>1. <<>> \in Seq(S) /\ \A x \in S : x.region \in Regions
    OBVIOUS
  <1> HIDE DEF S
  <1>2. Listed(<<>>)
    BY <1>1 DEF Listed
  <1>3. QED
    BY <1>2, FS_EmptySet DEF NoRegistry

LEMMA BatchIs == \A batch \in Batches : Listed(batch)
  BY InventoryAssumption DEF Listed

LEMMA AlignedInit == Init => Aligned
  <1> SUFFICES ASSUME Init PROVE Aligned
    OBVIOUS
  <1>1. /\ factor = [f \in Factors |-> Absent] /\ pc = [t \in Threads |-> "idle"]
        /\ calcs = <<>> /\ reg = [t \in Threads |-> NoRegistry] /\ items = [t \in Threads |-> <<>>]
    BY DEF Init, InventoryInit, FactorsInit
  <1>2. Recorded = {}
    BY <1>1 DEF Recorded, Absent
  <1>3. IsFiniteSet(Recorded)
    BY <1>2, FS_EmptySet
  <1>4. QED
    BY <1>1, <1>3, EmptyIs DEF Aligned

\* A step of the factor database records one factor more at most, and does not
\* change what a request is for.
LEMMA FactorKeeps ==
  ASSUME TypeInv, NEW t \in Threads, FactorStep(t)
  PROVE  /\ \E x : Recorded' \subseteq Recorded \cup {x}
         /\ pc'[t] = "idle" \/ req'[t].op # "extract" \/ (pc[t] # "idle" /\ req'[t] = req[t])
  <1>0. ReportsTypeOK /\ factor \in [Factors -> FactorRow]
    BY DEF TypeInv, ReportsTypeOK, FactorsTypeOK
  <1>1. \A x : (\A f \in Factors \ {x} : factor'[f].st = factor[f].st) => Recorded' \subseteq Recorded \cup {x}
    BY DEF Recorded
  <1>2. factor' = factor => \E x : Recorded' \subseteq Recorded \cup {x}
    BY <1>1
  <1>3. \A r, where : where \in Place /\ Arrive(t, r, where) => req'[t] = r
    BY <1>0, ArriveMoves
  <1>4. {"seed", "write"} \subseteq Place
    BY DEF Place, FactorPlace
  <1>5. CASE Browse(t)
    BY <1>2, <1>3, <1>4, <1>5 DEF Browse, stored
  <1>6. CASE AdminImport(t)
    BY <1>2, <1>3, <1>4, <1>6 DEF AdminImport, stored
  <1>7. CASE AdminSync(t)
    BY <1>2, <1>3, <1>4, <1>7 DEF AdminSync, stored
  <1>8. CASE SwitchFactor(t)
    <2>1. PICK f \in Factors, st \in {"on", "off"} :
            /\ factor' = [factor EXCEPT ![f].st = st]
            /\ Arrive(t, [op |-> "browse"], "seed")
      BY <1>8 DEF SwitchFactor
    <2>2. Recorded' \subseteq Recorded \cup {f}
      BY <1>0, <1>1, <2>1
    <2>3. QED
      BY <1>3, <1>4, <2>1, <2>2
  <1>9. CASE CheckSeed(t)
    BY <1>2, <1>9 DEF CheckSeed, stored
  <1>10. CASE CountFactors(t)
    BY <1>2, <1>10 DEF CountFactors, stored
  <1>11. CASE WriteRow(t)
    <2> DEFINE w == Head(todo[t])
    <2>1. \/ factor' = factor
          \/ factor' = [factor EXCEPT ![w.x] = [st |-> "on", rev |-> w.rev]]
      BY <1>11 DEF WriteRow, UpsertCatalogEntry, UpsertSource, UpsertFactorRecord, ReplaceAliases,
                   CreateImportJob
    <2> HIDE DEF w
    <2>2. \E x : Recorded' \subseteq Recorded \cup {x}
      BY <1>0, <1>1, <1>2, <2>1
    <2>3. pc[t] = "write" /\ req' = req
      BY <1>11 DEF WriteRow
    <2>4. QED
      BY <2>2, <2>3
  <1>12. CASE Answer(t)
    BY <1>0, <1>2, <1>12, FinishMoves DEF Answer, stored
  <1>13. CASE WriteFails(t)
    <2>1. factor' = factor /\ pc[t] = "write" /\ (Finish(t) \/ req' = req)
      BY <1>13 DEF WriteFails, stored
    <2>2. QED
      BY <1>0, <1>2, <2>1, FinishMoves
  <1>14. QED
    BY <1>5, <1>6, <1>7, <1>8, <1>9, <1>10, <1>11, <1>12, <1>13 DEF FactorStep

\* A step of a calculation takes a finite registry, items that ask for a region,
\* or a document that was uploaded; what it stores is lined up.
LEMMA CalcKeeps ==
  ASSUME TypeInv, Aligned, NEW t \in Threads, CalcStep(t)
  PROVE  /\ \A u \in Threads : IsFiniteSet(reg'[u].ids) /\ Listed(items'[u])
         /\ pc'[t] = "idle" \/ req'[t].op # "extract" \/ req'[t].doc \in Documents
         /\ calcs' = calcs \/ Lined(Inventory(t))
  <1>0. /\ ReportsTypeOK /\ PerThread(items) /\ PerThread(req)
        /\ reg \in [Threads -> [ids : SUBSET Factors, db : SUBSET Factors]]
        /\ {"seed", "compute"} \subseteq Place
        /\ \A u \in Threads : IsFiniteSet(reg[u].ids) /\ Listed(items[u])
    BY DEF TypeInv, ReportsTypeOK, FactorsTypeOK, InventoryTypeOK, Place, FactorPlace, Aligned
  <1>1. \A r : Arrive(t, r, "seed") => req'[t] = r
    BY <1>0, ArriveMoves
  <1>2. ASSUME NEW q, Listed(q), items' = [items EXCEPT ![t] = q]
        PROVE  \A u \in Threads : Listed(items'[u])
    BY <1>0, <1>2 DEF PerThread
  <1>3. ASSUME NEW r, IsFiniteSet(r.ids), reg' = [reg EXCEPT ![t] = r]
        PROVE  \A u \in Threads : IsFiniteSet(reg'[u].ids)
    BY <1>0, <1>3
  <1>4. CASE PostCalculation(t)
    <2>1. PICK s \in live \cup {None}, batch \in Batches :
            /\ Arrive(t, [op |-> "calc", s |-> s], "seed")
            /\ items' = [items EXCEPT ![t] = batch]
            /\ reg' = reg /\ calcs' = calcs
      BY <1>4 DEF PostCalculation
    <2>2. \A u \in Threads : Listed(items'[u])
      BY <1>2, <2>1, BatchIs
    <2>3. QED
      BY <1>0, <1>1, <2>1, <2>2
  <1>5. CASE InvokeTool(t)
    <2>1. PICK s \in live, doc \in Documents :
            /\ Arrive(t, [op |-> "extract", s |-> s, doc |-> doc], "seed")
            /\ UNCHANGED calcVars
      BY <1>5 DEF InvokeTool
    <2>2. req'[t].doc = doc
      BY <1>1, <2>1
    <2>3. QED
      BY <1>0, <2>1, <2>2 DEF calcVars
  <1>6. CASE LoadRegistry(t)
    <2>1. PICK db \in SUBSET Recorded : reg' = [reg EXCEPT ![t] = Registry(db)]
      <3>1. On \in SUBSET Recorded /\ {} \in SUBSET Recorded
        BY DEF On, Recorded
      <3>2. reg' = [reg EXCEPT ![t] = Registry(On)] \/ reg' = [reg EXCEPT ![t] = Registry({})]
        BY <1>6 DEF LoadRegistry
      <3>3. QED
        BY <3>1, <3>2
    <2>2. IsFiniteSet(db)
      BY <2>1, FS_Subset DEF Aligned
    <2>3. IsFiniteSet(Registry(db).ids)
      BY <2>2, FactorsAssumption, FS_Union DEF Registry
    <2>4. \A u \in Threads : IsFiniteSet(reg'[u].ids)
      BY <1>3, <2>1, <2>3
    <2>5. pc[t] = "serve" /\ req' = req /\ items' = items /\ calcs' = calcs
      BY <1>6 DEF LoadRegistry
    <2>6. req'[t].op = "extract" => req'[t].doc \in Documents
      BY <2>5 DEF Aligned, ReportPlace
    <2>7. QED
      BY <1>0, <2>4, <2>5, <2>6
  <1>7. CASE ExtractActivities(t)
    <2> DEFINE found == Extract(req[t].doc, reg[t].ids)
    <2>1. /\ pc[t] = "compute" /\ req[t].op = "extract"
          /\ reg' = [reg EXCEPT ![t] = NoRegistry] /\ calcs' = calcs
      BY <1>7 DEF ExtractActivities
    <2>2. \A u \in Threads : IsFiniteSet(reg'[u].ids)
      BY <1>3, <2>1, EmptyIs
    <2>3. Listed(found)
      <3>1. req[t].doc \in Documents
        BY <2>1 DEF Aligned, ReportPlace
      <3>2. reg[t].ids \in SUBSET Factors /\ IsFiniteSet(reg[t].ids)
        BY <1>0
      <3>3. QED
        BY <3>1, <3>2, ExtractIs
    <2>4. \/ Finish(t) /\ items' = items
          \/ /\ items' = [items EXCEPT ![t] = found]
             /\ req' = [req EXCEPT ![t] = [op |-> "calc", s |-> req[t].s]]
      BY <1>7 DEF ExtractActivities
    <2> HIDE DEF found
    <2>5. CASE Finish(t) /\ items' = items
      BY <1>0, <2>1, <2>2, <2>5, FinishMoves
    <2>6. CASE /\ items' = [items EXCEPT ![t] = found]
               /\ req' = [req EXCEPT ![t] = [op |-> "calc", s |-> req[t].s]]
      <3>1. req'[t].op = "calc"
        BY <1>0, <2>6 DEF PerThread
      <3>2. QED
        BY <1>2, <2>1, <2>2, <2>3, <2>6, <3>1
    <2>7. QED
      BY <2>4, <2>5, <2>6
  <1>8. CASE Calculate(t)
    <2>1. /\ pc[t] = "compute" /\ Finish(t)
          /\ reg' = [reg EXCEPT ![t] = NoRegistry] /\ items' = [items EXCEPT ![t] = <<>>]
          /\ CanCalculate(items[t], reg[t].ids) \/ calcs' = calcs
      BY <1>8 DEF Calculate
    <2>2. \A u \in Threads : IsFiniteSet(reg'[u].ids) /\ Listed(items'[u])
      BY <1>2, <1>3, <2>1, EmptyIs
    <2>3. CanCalculate(items[t], reg[t].ids) => Lined(Inventory(t))
      <3>1. reg[t].ids \in SUBSET Factors /\ IsFiniteSet(reg[t].ids) /\ Listed(items[t])
        BY <1>0
      <3>2. QED
        BY <3>1, InventoryIs
    <2>4. QED
      BY <1>0, <2>1, <2>2, <2>3, FinishMoves
  <1>9. QED
    BY <1>4, <1>5, <1>6, <1>7, <1>8 DEF CalcStep

LEMMA AlignedStep == TypeInv /\ Aligned /\ [Next]_vars => Aligned'
  <1> SUFFICES ASSUME TypeInv, Aligned, [Next]_vars PROVE Aligned'
    OBVIOUS
  <1>0. ReportsTypeOK /\ Writing /\ Requests
    BY DEF TypeInv
  <1>1. CASE UNCHANGED vars
    BY <1>1 DEF vars, factorVars, calcVars, Aligned, Recorded
  <1> DEFINE Asks(u) == pc[u] \notin ReportPlace \cup {"idle"} /\ req[u].op = "extract" =>
                        req[u].doc \in Documents
             Calm == /\ stored' = stored /\ calcs' = calcs
                     /\ \A u \in Threads : IsFiniteSet(reg'[u].ids) /\ Listed(items'[u])
  <1>2. ASSUME NEW t \in Threads, FactorStep(t), UNCHANGED <<calcVars, reportVars>>
        PROVE  Aligned'
    <2>1. PICK x : Recorded' \subseteq Recorded \cup {x}
      BY <1>2, FactorKeeps
    <2>2. IsFiniteSet(Recorded \cup {x})
      BY FS_AddElement DEF Aligned
    <2>3. IsFiniteSet(Recorded')
      BY <2>1, <2>2, FS_Subset
    <2>4. \A u \in Threads : Asks(u)'
      <3>1. /\ Moves(t) /\ pc[t] \notin ReportPlace
            /\ \/ pc'[t] = "idle" \/ req'[t].op # "extract"
               \/ pc[t] # "idle" /\ req'[t] = req[t]
        BY <1>0, <1>2, FactorMoves, FactorKeeps DEF FactorPlace, ReportPlace
      <3>2. QED
        BY <3>1 DEF Moves, Aligned
    <2>5. UNCHANGED <<calcs, reg, items>>
      BY <1>2 DEF calcVars
    <2>6. QED
      BY <2>3, <2>4, <2>5 DEF Aligned
  <1>3. ASSUME NEW t \in Threads, CalcStep(t)
        PROVE  Aligned'
    <2>1. Moves(t) /\ stored' = stored
      BY <1>0, <1>3, CalcMoves
    <2>2. /\ \A u \in Threads : IsFiniteSet(reg'[u].ids) /\ Listed(items'[u])
          /\ pc'[t] = "idle" \/ req'[t].op # "extract" \/ req'[t].doc \in Documents
          /\ calcs' = calcs \/ Lined(Inventory(t))
      BY <1>3, CalcKeeps
    <2>3. \A u \in Threads : Asks(u)'
      BY <2>1, <2>2 DEF Moves, Aligned
    <2>4. IsFiniteSet(Recorded')
      BY <2>1 DEF stored, Recorded, Aligned
    <2>5. \A i \in 1..Len(calcs') : Lined(calcs'[i])
      <3>1. CASE calcs' = calcs
        BY <3>1 DEF Aligned
      <3>2. CASE calcs' # calcs
        <4>1. calcs' = Append(calcs, Inventory(t))
          BY <1>0, <1>3, <3>2, CalcMoves
        <4>2. IsSequence(calcs)
          BY <1>0 DEF ReportsTypeOK, InventoryTypeOK
        <4>3. /\ Len(calcs) \in Nat /\ Len(calcs') = Len(calcs) + 1
              /\ \A i \in 1..Len(calcs) : calcs'[i] = calcs[i]
              /\ calcs'[Len(calcs) + 1] = Inventory(t)
          BY <4>1, <4>2, AppendSequence
        <4>4. \A i \in 1..(Len(calcs) + 1) : i \in 1..Len(calcs) \/ i = Len(calcs) + 1
          BY <4>3
        <4>5. QED
          BY <2>2, <3>2, <4>3, <4>4 DEF Aligned
      <3>3. QED
        BY <3>1, <3>2
    <2>6. QED
      BY <2>2, <2>3, <2>4, <2>5 DEF Aligned
  <1>4. ASSUME Calm, \A u \in Threads : Asks(u)'
        PROVE  Aligned'
    BY <1>4 DEF stored, Recorded, Aligned
  <1>5. ASSUME NEW t \in Threads, ReportStep(t)
        PROVE  Aligned'
    <2>1. /\ Moves(t) /\ stored' = stored /\ calcVars' = calcVars
          /\ pc'[t] \in ReportPlace \cup {"idle"}
      BY <1>0, <1>5, ReportMoves
    <2>2. \A u \in Threads : Asks(u)'
      BY <2>1 DEF Moves, Aligned
    <2>3. Calm
      BY <2>1 DEF calcVars, Aligned
    <2>4. QED
      BY <1>4, <2>2, <2>3
  <1>6. CASE (\E s \in Sessions : AnswerAsk(s) \/ DeleteSession(s)) \/ UpdateReport \/ CrashAll
    <2>1. stored' = stored /\ calcs' = calcs
      BY <1>0, <1>6, RestMoves
    <2>2. CASE CrashAll
      <3>1. /\ pc' = [t \in Threads |-> "idle"] /\ reg' = [t \in Threads |-> NoRegistry]
            /\ items' = [t \in Threads |-> <<>>]
        BY <2>2 DEF CrashAll, Crash
      <3>2. QED
        BY <1>4, <2>1, <3>1, EmptyIs
    <2>3. CASE ~CrashAll
      <3>1. UNCHANGED <<factorVars, reg, items>>
        BY <1>6, <2>3 DEF AnswerAsk, DeleteSession, UpdateReport, calcVars
      <3>2. QED
        BY <1>4, <2>1, <3>1 DEF factorVars, Aligned
    <2>4. QED
      BY <2>2, <2>3
  <1>7. QED
    BY <1>1, <1>2, <1>3, <1>5, <1>6, NextIs

\* The lines of every stored calculation stand beside the items they were computed
\* from, one for each item with an activity, whichever documents the items were
\* extracted from, and however factors are ranked, recognized and switched
\* (service.py matches lines and items by position only; engine.py leaves items
\* without an activity out).
THEOREM LinesFollow == Spec => []LinesFollowItems
  <1>1. Init => TypeInv /\ Aligned
    BY TypeInit, AlignedInit
  <1>2. TypeInv /\ Aligned /\ [Next]_vars => (TypeInv /\ Aligned)'
    BY TypeStep, AlignedStep
  <1>3. Aligned => LinesFollowItems
    BY DEF Aligned, Lined, LinesFollowItems
  <1>4. QED
    BY <1>1, <1>2, <1>3, PTL DEF Spec
=============================================================================
