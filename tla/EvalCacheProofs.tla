---------------------------- MODULE EvalCacheProofs ----------------------------
(***************************************************************************)
(* Proofs about EvalCache, for any evaluators, targets, paths, shards and  *)
(* limits: the types and the accumulation of candidates whatever happens,  *)
(* soundness of the stored candidates and of the answers when no file is   *)
(* edited while a call runs on its checkout.                               *)
(***************************************************************************)
EXTENDS EvalCache, FiniteSetTheorems, NaturalsInduction, TLAPS

--------------------------------------------------------------------------------
(* Sequences of stored candidates.                                         *)

(* A nonempty set of naturals has a least element.                         *)
LEMMA LeastNatural ==
  ASSUME NEW T \in SUBSET Nat, T # {}
  PROVE  \E n \in T : \A m \in T : n <= m
<1>1. IsWellFoundedOn(OpToRel(<, Nat), Nat)
  BY NatLessThanWellFounded
<1>2. PICK n \in T : \A m \in T : ~(<<m, n>> \in OpToRel(<, Nat))
  BY <1>1, WFMin
<1>3. \A m \in T : ~(m < n)
  BY <1>2 DEF OpToRel
<1> QED
  BY <1>3

(* A set of positions can be listed in increasing order.                   *)
Listable(n) ==
  \A K \in SUBSET (1..n) :
    IsFiniteSet(K) /\ \E f \in [1..Cardinality(K) -> K] : Enumerates(f, K)

LEMMA ListableStep ==
  ASSUME NEW n \in Nat, Listable(n)
  PROVE  Listable(n + 1)
<1> SUFFICES ASSUME NEW K \in SUBSET (1..(n + 1))
             PROVE  IsFiniteSet(K) /\ \E f \in [1..Cardinality(K) -> K] : Enumerates(f, K)
  BY DEF Listable
<1>1. CASE n + 1 \notin K
  <2>1. K \in SUBSET (1..n)
    BY <1>1
  <2> QED
    BY <2>1 DEF Listable
<1>2. CASE n + 1 \in K
  <2> DEFINE L == K \ {n + 1}
  <2>1. L \in SUBSET (1..n)
    OBVIOUS
  <2>2. IsFiniteSet(L) /\ \E f \in [1..Cardinality(L) -> L] : Enumerates(f, L)
    BY <2>1 DEF Listable
  <2>3. PICK f \in [1..Cardinality(L) -> L] : Enumerates(f, L)
    BY <2>2
  <2>4. K = L \cup {n + 1} /\ n + 1 \notin L
    BY <1>2
  <2>5. IsFiniteSet(K) /\ Cardinality(K) = Cardinality(L) + 1 /\ Cardinality(L) \in Nat
    <3>1. Cardinality(L) \in Nat
      BY <2>2, FS_CardinalityType
    <3>2. IsFiniteSet(L \cup {n + 1}) /\ Cardinality(L \cup {n + 1}) = Cardinality(L) + 1
      BY <2>2, <2>4, FS_AddElement
    <3> QED
      BY <3>1, <3>2, <2>4
  <2> HIDE DEF L
  <2> DEFINE g == [j \in 1..Cardinality(K) |-> IF j = Cardinality(K) THEN n + 1 ELSE f[j]]
  <2>6. g \in [1..Cardinality(K) -> K]
    <3>1. \A j \in 1..Cardinality(K) : j # Cardinality(K) => j \in 1..Cardinality(L)
      BY <2>5
    <3>2. \A j \in 1..Cardinality(L) : f[j] \in K
      BY <2>3, <2>4
    <3> QED
      BY <3>1, <3>2, <1>2
  <2>7. \A i, j \in 1..Cardinality(K) : i < j => g[i] < g[j]
    <3> SUFFICES ASSUME NEW i \in 1..Cardinality(K), NEW j \in 1..Cardinality(K), i < j
                 PROVE  g[i] < g[j]
      OBVIOUS
    <3>1. i \in 1..Cardinality(L) /\ g[i] = f[i] /\ f[i] \in 1..n
      <4>1. i \in 1..Cardinality(L) /\ i # Cardinality(K)
        BY <2>5
      <4>2. f[i] \in L
        BY <4>1, <2>3
      <4> QED
        BY <4>1, <4>2, <2>1
    <3>2. CASE j = Cardinality(K)
      BY <3>1, <3>2
    <3>3. CASE j # Cardinality(K)
      <4>1. j \in 1..Cardinality(L) /\ g[j] = f[j]
        BY <3>3, <2>5
      <4> QED
        BY <3>1, <4>1, <2>3 DEF Enumerates
    <3> QED
      BY <3>2, <3>3
  <2>8. \A k \in K : \E i \in 1..Cardinality(K) : g[i] = k
    <3> SUFFICES ASSUME NEW k \in K PROVE \E i \in 1..Cardinality(K) : g[i] = k
      OBVIOUS
    <3>1. CASE k = n + 1
      <4>1. Cardinality(K) \in 1..Cardinality(K)
        BY <2>5
      <4> QED
        BY <3>1, <4>1
    <3>2. CASE k # n + 1
      <4>1. PICK i \in 1..Cardinality(L) : f[i] = k
        BY <3>2, <2>3, <2>4 DEF Enumerates
      <4>2. i \in 1..Cardinality(K) /\ i # Cardinality(K)
        BY <2>5
      <4> QED
        BY <4>1, <4>2
    <3> QED
      BY <3>1, <3>2
  <2>9. Enumerates(g, K)
    BY <2>7, <2>8 DEF Enumerates
  <2> QED
    BY <2>5, <2>6, <2>9
<1> QED
  BY <1>1, <1>2

LEMMA AllListable == \A n \in Nat : Listable(n)
<1> DEFINE T == {n \in Nat : ~Listable(n)}
<1>1. Listable(0)
  <2> SUFFICES ASSUME NEW K \in SUBSET (1..0)
               PROVE  IsFiniteSet(K) /\ \E f \in [1..Cardinality(K) -> K] : Enumerates(f, K)
    BY DEF Listable
  <2>1. K = {} /\ IsFiniteSet(K) /\ Cardinality(K) = 0
    <3>1. K = {}
      OBVIOUS
    <3>2. IsFiniteSet({}) /\ Cardinality({}) = 0
      BY FS_EmptySet
    <3> QED
      BY <3>1, <3>2
  <2>2. [i \in {} |-> i] \in [1..Cardinality(K) -> K]
    <3>1. 1..Cardinality(K) = {}
      BY <2>1
    <3> QED
      BY <3>1
  <2> QED
    BY <2>1, <2>2 DEF Enumerates
<1>2. SUFFICES ASSUME T # {} PROVE FALSE
  OBVIOUS
<1>3. PICK n \in T : \A m \in T : n <= m
  BY <1>2, LeastNatural
<1>4. n - 1 \in Nat /\ n = (n - 1) + 1
  BY <1>1, <1>3
<1>5. Listable(n - 1)
  BY <1>3, <1>4
<1> QED
  BY <1>3, <1>4, <1>5, ListableStep

LEMMA KeepPositive == Keep \in Nat \ {0}
BY CacheAssumption DEF Keep

(* Trim keeps a prefix.                                                    *)
LEMMA TrimFacts ==
  ASSUME NEW S, NEW h \in Seq(S)
  PROVE  /\ Trim(h) \in Seq(S)
         /\ Len(Trim(h)) = IF Len(h) <= Keep THEN Len(h) ELSE Keep
         /\ \A i \in 1..Len(Trim(h)) : Trim(h)[i] = h[i]
         /\ Len(Trim(h)) <= Len(h)
<1> DEFINE n == IF Len(h) <= Keep THEN Len(h) ELSE Keep
<1>1. n \in Nat /\ n <= Len(h)
  BY KeepPositive
<1>2. Trim(h) = SubSeq(h, 1, n)
  BY DEF Trim
<1> HIDE DEF n
<1>3. SubSeq(h, 1, n) \in Seq(S) /\ Len(SubSeq(h, 1, n)) = n
  BY <1>1
<1>4. \A i \in 1..n : SubSeq(h, 1, n)[i] = h[i]
  BY <1>1
<1> QED
  BY <1>1, <1>2, <1>3, <1>4 DEF n

(* Displace keeps the other entries, in their order.                       *)
LEMMA DisplaceFacts ==
  ASSUME NEW S, NEW h \in Seq(S), NEW c
  PROVE  /\ Displace(h, c) \in Seq(S)
         /\ \E f \in [1..Len(Displace(h, c)) -> 1..Len(h)] :
              /\ \A j \in 1..Len(Displace(h, c)) :
                   Displace(h, c)[j] = h[f[j]] /\ h[f[j]] # c
              /\ \A i, j \in 1..Len(Displace(h, c)) : i < j => f[i] < f[j]
         /\ Len(h) > 0 /\ h[1] # c =>
              Len(Displace(h, c)) > 0 /\ Displace(h, c)[1] = h[1]
<1> DEFINE kept == {k \in DOMAIN h : h[k] # c}
           n == Cardinality(kept)
           f == InOrder(kept)
           d == [j \in 1..n |-> h[f[j]]]
<1>1. Displace(h, c) = d
  BY DEF Displace
<1>2. Len(h) \in Nat /\ DOMAIN h = 1..Len(h)
  OBVIOUS
<1>3. kept \in SUBSET (1..Len(h))
  BY <1>2
<1>4. IsFiniteSet(kept) /\ \E g \in [1..n -> kept] : Enumerates(g, kept)
  BY <1>2, <1>3, AllListable DEF Listable
<1>5. n \in Nat
  BY <1>4, FS_CardinalityType
<1>6. f \in [1..n -> kept] /\ Enumerates(f, kept)
  BY <1>4 DEF InOrder
<1>7. \A k \in kept : k \in 1..Len(h) /\ h[k] # c /\ h[k] \in S
  BY <1>2
<1>a. 1 \in 1..Len(h) /\ h[1] # c => 1 \in kept
  BY <1>2
<1> HIDE DEF kept, n, f
<1>8. \A j \in 1..n : f[j] \in kept
  BY <1>6
<1>9. d \in Seq(S) /\ Len(d) = n
  <2>1. d \in [1..n -> S]
    BY <1>7, <1>8
  <2> QED
    BY <2>1, <1>5
<1>10. \A j \in 1..n : d[j] = h[f[j]] /\ h[f[j]] # c
  BY <1>7, <1>8
<1>11. \A i, j \in 1..n : i < j => f[i] < f[j]
  BY <1>6 DEF Enumerates, n
<1>12. f \in [1..n -> 1..Len(h)]
  BY <1>6, <1>3
<1>13. ASSUME Len(h) > 0, h[1] # c PROVE n > 0 /\ d[1] = h[1]
  <2>1. 1 \in kept
    BY <1>13, <1>2, <1>a
  <2>2. PICK i \in 1..n : f[i] = 1
    BY <2>1, <1>6 DEF Enumerates, n
  <2>3. 1 \in 1..n /\ f[1] \in 1..Len(h)
    BY <2>2, <1>5, <1>12
  <2>4. i = 1
    BY <2>2, <2>3, <1>11, <1>5, <1>2
  <2> QED
    BY <2>2, <2>3, <2>4, <1>5
<1> QED
  BY <1>1, <1>9, <1>10, <1>11, <1>12, <1>13

(* Learn puts c first, and keeps other entries of h in their order.        *)
Survivors(l, h, c) ==
  \E g \in [2..Len(l) -> 1..Len(h)] :
    /\ \A j \in 2..Len(l) : l[j] = h[g[j]] /\ h[g[j]] # c
    /\ \A i, j \in 2..Len(l) : i < j => g[i] < g[j]

NewestSurvives(l, h) ==
  Keep > 1 /\ Len(h) > 0 => \E j \in 1..Len(l) : l[j] = h[1]

LEMMA LearnFacts ==
  ASSUME NEW h \in Seq(Candidate), NEW c \in Candidate
  PROVE  /\ Learn(h, c) \in Seq(Candidate) /\ Len(Learn(h, c)) \in 1..Keep
         /\ Learn(h, c)[1] = c
         /\ Survivors(Learn(h, c), h, c) /\ NewestSurvives(Learn(h, c), h)
<1> DEFINE t == Trim(h)
           d == Displace(t, c)
           s == <<c>> \o d
<1>1. Learn(h, c) = Trim(s)
  BY DEF Learn
<1>2. Len(h) \in Nat /\ Keep \in Nat \ {0}
  BY KeepPositive
<1>3. /\ t \in Seq(Candidate) /\ Len(t) \in Nat /\ Len(t) <= Len(h)
      /\ \A i \in 1..Len(t) : t[i] = h[i]
      /\ Len(h) > 0 => Len(t) > 0
  BY TrimFacts, <1>2
<1> HIDE DEF t
<1>4. d \in Seq(Candidate) /\ Len(d) \in Nat
  BY <1>3, DisplaceFacts
<1>5. PICK f \in [1..Len(d) -> 1..Len(t)] :
         /\ \A j \in 1..Len(d) : d[j] = t[f[j]] /\ t[f[j]] # c
         /\ \A i, j \in 1..Len(d) : i < j => f[i] < f[j]
  BY <1>3, DisplaceFacts
<1>6. Len(t) > 0 /\ t[1] # c => Len(d) > 0 /\ d[1] = t[1]
  BY <1>3, DisplaceFacts
<1> HIDE DEF d
<1>7. s \in Seq(Candidate) /\ Len(s) = Len(d) + 1 /\ s[1] = c
  BY <1>4
<1>8. \A j \in 2..Len(s) : s[j] = d[j - 1]
  BY <1>4
<1> HIDE DEF s
<1> DEFINE l == Trim(s)
<1>9. /\ l \in Seq(Candidate) /\ Len(l) = (IF Len(s) <= Keep THEN Len(s) ELSE Keep) /\ Len(l) <= Len(s)
      /\ \A i \in 1..Len(l) : l[i] = s[i]
  BY <1>7, TrimFacts
<1> HIDE DEF l
<1>10. Len(l) \in 1..Keep /\ l[1] = c
  BY <1>2, <1>4, <1>7, <1>9
<1> DEFINE g == [j \in 2..Len(l) |-> f[j - 1]]
<1>11. \A j \in 2..Len(l) : j - 1 \in 1..Len(d) /\ l[j] = d[j - 1]
  BY <1>2, <1>4, <1>7, <1>8, <1>9
<1>12. \A j \in 2..Len(l) : g[j] \in 1..Len(h) /\ l[j] = h[g[j]] /\ h[g[j]] # c
  <2> SUFFICES ASSUME NEW j \in 2..Len(l)
               PROVE  g[j] \in 1..Len(h) /\ l[j] = h[g[j]] /\ h[g[j]] # c
    OBVIOUS
  <2>1. j - 1 \in 1..Len(d) /\ l[j] = d[j - 1]
    BY <1>11
  <2>2. f[j - 1] \in 1..Len(t) /\ d[j - 1] = t[f[j - 1]] /\ t[f[j - 1]] # c
    BY <2>1, <1>5
  <2>3. t[f[j - 1]] = h[f[j - 1]] /\ f[j - 1] \in 1..Len(h)
    BY <2>2, <1>2, <1>3
  <2> QED
    BY <2>1, <2>2, <2>3
<1>13. \A i, j \in 2..Len(l) : i < j => g[i] < g[j]
  <2> SUFFICES ASSUME NEW i \in 2..Len(l), NEW j \in 2..Len(l), i < j
               PROVE  f[i - 1] < f[j - 1]
    OBVIOUS
  <2>1. i - 1 \in 1..Len(d) /\ j - 1 \in 1..Len(d) /\ i - 1 < j - 1
    BY <1>11
  <2> QED
    BY <2>1, <1>5
<1>14. g \in [2..Len(l) -> 1..Len(h)]
  BY <1>12
<1>15. ASSUME Keep > 1, Len(h) > 0 PROVE \E j \in 1..Len(l) : l[j] = h[1]
  <2>1. t[1] = h[1]
    BY <1>15, <1>2, <1>3
  <2>2. CASE h[1] = c
    BY <2>2, <1>10
  <2>3. CASE h[1] # c
    <3>1. Len(d) > 0 /\ d[1] = h[1]
      BY <2>1, <2>3, <1>15, <1>3, <1>6
    <3>2. 2 \in 1..Len(l) /\ l[2] = s[2] /\ s[2] = d[2 - 1]
      BY <3>1, <1>2, <1>4, <1>7, <1>8, <1>9, <1>15
    <3> QED
      BY <3>1, <3>2
  <2> QED
    BY <2>2, <2>3
<1>16. /\ \A j \in 2..Len(l) : l[j] = h[g[j]] /\ h[g[j]] # c
       /\ \A i, j \in 2..Len(l) : i < j => g[i] < g[j]
  BY <1>12, <1>13
<1> HIDE DEF g
<1>17. Learn(h, c) = l
  BY <1>1 DEF l
<1>18. Survivors(l, h, c) /\ NewestSurvives(l, h)
  BY <1>14, <1>15, <1>16 DEF Survivors, NewestSurvives
<1> QED
  BY <1>9, <1>10, <1>17, <1>18

--------------------------------------------------------------------------------
(* Trees, fingerprints and rows.                                           *)

(* The content a fingerprint stands for is that of the call's tree.        *)
LEMMA FingerprintFacts ==
  ASSUME TypeOK, NEW e \in Evaluator
  PROVE  /\ View(e) \in Tree
         /\ \A p \in Path : Fingerprint(e, p) \in Fingerprints /\ Known(e, p) \in Fingerprints
         /\ \A p \in Path : ContentOf(Fingerprint(e, p)) = View(e)[p]
<1>1. disk[e] \in Tree /\ pinned[e] \in Tree
  BY DEF TypeOK
<1>2. View(e) \in Tree
  BY <1>1 DEF View, Tree
<1>3. \A p \in Path : Fingerprint(e, p) \in Fingerprints
  BY <1>1, CacheAssumption DEF Fingerprint, Fp, Fingerprints, Tree
<1>4. \A p \in Path : Known(e, p) \in Fingerprints
  BY <1>3 DEF Known, TypeOK
<1>5. \A p \in Path : ContentOf(Fingerprint(e, p)) = View(e)[p]
  BY <1>1, CacheAssumption DEF Fingerprint, Fp, ContentOf, View, Tree
<1> QED
  BY <1>2, <1>3, <1>4, <1>5

(* Rows that hold well-formed histories within the limit.                  *)
Histories(row) ==
  /\ DOMAIN row \subseteq Target
  /\ \A t \in DOMAIN row : row[t] \in Seq(Candidate) /\ row[t] # <<>>

Learned(fresh) ==
  DOMAIN fresh \subseteq Target /\ \A t \in DOMAIN fresh : fresh[t] \in Candidate

LEMMA StoredHistories ==
  ASSUME NEW row
  PROVE  IsRow(row) <=> Histories(Stored(row))
BY DEF IsRow, Histories, Stored, Empty

LEMMA PlanFacts ==
  ASSUME NEW row, Histories(row), NEW fresh, Learned(fresh)
  PROVE  /\ Histories(PlanShardRow(row, fresh))
         /\ DOMAIN PlanShardRow(row, fresh) = DOMAIN row \cup DOMAIN fresh
         /\ \A t \in DOMAIN row \cup DOMAIN fresh :
              /\ Len(PlanShardRow(row, fresh)[t]) \in 1..Keep
              /\ t \notin DOMAIN fresh => PlanShardRow(row, fresh)[t] = Trim(row[t])
              /\ t \in DOMAIN fresh =>
                   PlanShardRow(row, fresh)[t] =
                     Learn(IF t \in DOMAIN row THEN row[t] ELSE <<>>, fresh[t])
<1> DEFINE plan == PlanShardRow(row, fresh)
<1>1. DOMAIN plan = DOMAIN row \cup DOMAIN fresh
  BY DEF PlanShardRow
<1>2. ASSUME NEW t \in DOMAIN row \cup DOMAIN fresh
      PROVE  /\ t \notin DOMAIN fresh => plan[t] = Trim(row[t])
             /\ t \in DOMAIN fresh =>
                  plan[t] = Learn(IF t \in DOMAIN row THEN row[t] ELSE <<>>, fresh[t])
  BY DEF PlanShardRow
<1> HIDE DEF plan
<1>3. ASSUME NEW t \in DOMAIN row \cup DOMAIN fresh
      PROVE  plan[t] \in Seq(Candidate) /\ Len(plan[t]) \in 1..Keep
  <2>1. CASE t \notin DOMAIN fresh
    <3>1. row[t] \in Seq(Candidate) /\ row[t] # <<>>
      BY <2>1 DEF Histories
    <3>2. Len(row[t]) \in Nat \ {0}
      BY <3>1
    <3> QED
      BY <2>1, <1>2, <3>1, <3>2, TrimFacts, KeepPositive
  <2>2. CASE t \in DOMAIN fresh
    <3> DEFINE h == IF t \in DOMAIN row THEN row[t] ELSE <<>>
    <3>1. h \in Seq(Candidate) /\ fresh[t] \in Candidate
      BY <2>2 DEF Histories, Learned
    <3> HIDE DEF h
    <3>2. Learn(h, fresh[t]) \in Seq(Candidate) /\ Len(Learn(h, fresh[t])) \in 1..Keep
      BY <3>1, LearnFacts
    <3> QED
      BY <3>2, <2>2, <1>2 DEF h
  <2> QED
    BY <2>1, <2>2
<1>4. \A t \in DOMAIN plan : plan[t] \in Seq(Candidate) /\ plan[t] # <<>>
  BY <1>1, <1>3, KeepPositive
<1>5. Histories(plan)
  BY <1>1, <1>4 DEF Histories, Learned
<1> QED
  BY <1>1, <1>2, <1>3, <1>5 DEF plan

(* What a commit writes: the merge with the row read, or without it.       *)
LEMMA MergedFacts ==
  ASSUME NEW row, NEW fresh
  PROVE  \/ /\ MergedShardRow(row, fresh) = PlanShardRow(Stored(row), fresh)
            /\ Fits(PlanShardRow(Stored(row), fresh))
         \/ /\ MergedShardRow(row, fresh) = PlanShardRow(Empty, fresh)
            /\ ~Fits(PlanShardRow(Stored(row), fresh))
BY DEF MergedShardRow

LEMMA EmptyHistories == Histories(Empty) /\ DOMAIN Empty = {}
BY DEF Histories, Empty

(* The fresh candidates of a transaction.                                  *)
LEMMA FreshFacts ==
  ASSUME TypeOK, CallInv, LockInv, NEW e \in Evaluator, txn[e] # NoTxn
  PROVE  /\ Learned(Fresh(e, txn[e].shard))
         /\ \A t \in DOMAIN Fresh(e, txn[e].shard) :
              t \in DOMAIN result[e] /\ Fresh(e, txn[e].shard)[t] = result[e][t]
<1> DEFINE S == {t \in DOMAIN snapshot[e] : ShardOf[t] = txn[e].shard}
<1>1. Fresh(e, txn[e].shard) = [t \in S |-> result[e][t]]
  BY DEF Fresh, Restrict
<1>2. S \subseteq DOMAIN result[e] /\ DOMAIN result[e] \subseteq Target
  BY DEF LockInv, CallInv, TypeOK, Call
<1> HIDE DEF S
<1> QED
  BY <1>1, <1>2 DEF Learned, TypeOK

(* The candidate a lookup serves is a stored one, and it matches.          *)
LEMMA FirstMatchFacts ==
  ASSUME NEW e, NEW S, NEW h \in Seq(S), Matching(e, h) # {}
  PROVE  \E k \in 1..Len(h) : FirstMatch(e, h) = h[k] /\ CandidateMatches(e, h[k])
<1>1. Matching(e, h) \subseteq Nat
  BY DEF Matching
<1>2. \E k \in Matching(e, h) : \A j \in Matching(e, h) : k <= j
  BY <1>1, LeastNatural
<1> DEFINE k == CHOOSE k \in Matching(e, h) : \A j \in Matching(e, h) : k <= j
<1>3. k \in Matching(e, h)
  BY <1>2
<1>4. FirstMatch(e, h) = h[k]
  BY DEF FirstMatch
<1> HIDE DEF k
<1> QED
  BY <1>3, <1>4 DEF Matching

--------------------------------------------------------------------------------
(***************************************************************************)
(* Types, the progress of a call and the write lock.                       *)
(***************************************************************************)
Base == TypeOK /\ CallInv /\ LockInv

LEMMA InitBase == Init => Base
<1> SUFFICES ASSUME Init PROVE Base
  OBVIOUS
<1>1. PICK tree \in Initial : head = [e \in Evaluator |-> tree]
  BY DEF Init
<1>2. tree \in Tree
  BY CacheAssumption
<1>3. NoMemo \in [Path -> Fingerprints \cup {NoFp}] /\ NoCall \in Call
  BY DEF NoMemo, NoCall, Call
<1>4. TypeOK
  BY <1>1, <1>2, <1>3 DEF Init, TypeOK, IsRow, Readable, Empty
<1>5. CallInv
  BY DEF Init, CallInv, Empty
<1>6. LockInv
  BY DEF Init, LockInv
<1> QED
  BY <1>4, <1>5, <1>6 DEF Base

LEMMA PinBase ==
  ASSUME Base, NEW e \in Evaluator, Pin(e) PROVE Base'
<1> USE DEF Base, Pin, worldVars
<1>1. PICK c \in Call : call' = [call EXCEPT ![e] = c]
  BY CacheAssumption
<1>2. TypeOK'
  BY <1>1 DEF TypeOK, CallInv, Empty
<1>3. CallInv'
  BY <1>1 DEF TypeOK, CallInv, Empty
<1>4. LockInv'
  BY DEF TypeOK, LockInv
<1> QED
  BY <1>2, <1>3, <1>4

LEMMA StatusBase ==
  ASSUME Base, NEW e \in Evaluator, Status(e) PROVE Base'
<1> USE DEF Base, Status, worldVars
<1>1. {ShardOf[t] : t \in call[e].targets} \subseteq Shard
  BY CacheAssumption DEF TypeOK, Call
<1>2. TypeOK'
  BY <1>1 DEF TypeOK
<1>3. CallInv'
  BY DEF TypeOK, CallInv, Empty
<1>4. LockInv'
  BY DEF TypeOK, LockInv
<1> QED
  BY <1>2, <1>3, <1>4

LEMMA RememberType ==
  ASSUME TypeOK, NEW e \in Evaluator, NEW ps, Remember(e, ps)
  PROVE  memo' \in [Evaluator -> [Path -> Fingerprints \cup {NoFp}]]
BY FingerprintFacts DEF Remember, TypeOK

LEMMA LookupShardBase ==
  ASSUME Base, NEW e \in Evaluator, LookupShard(e) PROVE Base'
<1> USE DEF Base, worldVars
<1>1. PICK s \in todo[e] : LookupShard(e)!(s)
  BY DEF LookupShard
<1> DEFINE row == Stored(rows[s])
           found == call[e].targets \cap DOMAIN row
           hits == {t \in found : Matching(e, row[t]) # {}}
           new == [t \in hits |-> FirstMatch(e, row[t])]
<1>2. /\ at[e] = "lookup"
      /\ todo' = [todo EXCEPT ![e] = @ \ {s}]
      /\ Remember(e, UNION {Examined(e, row[t]) : t \in found})
      /\ result' = [result EXCEPT ![e] = Override(new, @)]
      /\ UNCHANGED <<worldVars, rows, txn, at, call, pinned, dirty, snapshot, calls>>
  BY <1>1
<1>3. Histories(row)
  BY StoredHistories DEF TypeOK
<1>4. \A t \in hits : new[t] \in Candidate
  <2> TAKE t \in hits
  <2>1. row[t] \in Seq(Candidate) /\ Matching(e, row[t]) # {}
    BY <1>3 DEF Histories
  <2> QED
    BY <2>1, FirstMatchFacts
<1>5. /\ DOMAIN result'[e] = hits \cup DOMAIN result[e]
      /\ \A t \in DOMAIN result'[e] : result'[e][t] \in Candidate
  BY <1>2, <1>4 DEF Override, TypeOK
<1>6. memo' \in [Evaluator -> [Path -> Fingerprints \cup {NoFp}]]
  BY <1>2, RememberType
<1>7. TypeOK'
  BY <1>2, <1>5, <1>6 DEF TypeOK
<1>8. CallInv'
  BY <1>2, <1>5 DEF TypeOK, CallInv, Remember
<1>9. LockInv'
  BY <1>2 DEF TypeOK, LockInv
<1> QED
  BY <1>7, <1>8, <1>9

LEMMA LookupFailsBase ==
  ASSUME Base, NEW e \in Evaluator, LookupFails(e) PROVE Base'
<1> USE DEF Base, LookupFails, Fault
<1>1. TypeOK'
  BY CacheAssumption DEF TypeOK
<1>2. CallInv'
  BY DEF TypeOK, CallInv
<1>3. LockInv'
  BY DEF TypeOK, LockInv
<1> QED
  BY <1>1, <1>2, <1>3

LEMMA MaterializeBase ==
  ASSUME Base, NEW e \in Evaluator, Materialize(e) PROVE Base'
<1> USE DEF Base, worldVars
<1> DEFINE kept == {t \in DOMAIN result[e] : Servable(e, t)}
<1>1. /\ result' = [result EXCEPT ![e] = [t \in kept |-> result[e][t]]]
      /\ at[e] = "lookup" /\ at' = [at EXCEPT ![e] = "eval"]
      /\ UNCHANGED <<worldVars, rows, txn, call, pinned, dirty, memo, todo, snapshot, calls>>
  BY DEF Materialize, Restrict
<1>2. kept \subseteq DOMAIN result[e]
  OBVIOUS
<1> HIDE DEF kept
<1>3. TypeOK'
  BY <1>1, <1>2 DEF TypeOK
<1>4. CallInv'
  BY <1>1, <1>2 DEF TypeOK, CallInv
<1>5. LockInv'
  BY <1>1 DEF TypeOK, LockInv
<1> QED
  BY <1>3, <1>4, <1>5

(* What evaluating a target that does not fail gives.                      *)
LEMMA EvaluationFacts ==
  ASSUME TypeOK, NEW e \in Evaluator, NEW t \in Target
  PROVE  /\ DepsOf[t][View(e)] \in SUBSET Path
         /\ PayloadOf[t][View(e)] \in Payload \cup {Failure}
BY FingerprintFacts, EvaluationAssumption

LEMMA EvaluateMissesBase ==
  ASSUME Base, NEW e \in Evaluator, EvaluateMisses(e) PROVE Base'
<1> USE DEF Base
<1> DEFINE done == Misses(e) \ Failing(e)
           new == [t \in done |-> [paths |-> DepsOf[t][View(e)], payload |-> PayloadOf[t][View(e)]]]
<1>1. /\ snapshot' = [snapshot EXCEPT ![e] = new]
      /\ store' = store \cup ({PayloadOf[t][View(e)] : t \in done} \ {Plain})
      /\ at[e] = "eval" /\ at' = [at EXCEPT ![e] = "finalize"]
      /\ UNCHANGED <<head, disk, edits, faults, rows, txn, call, pinned, dirty, memo, todo, result, calls>>
  BY DEF EvaluateMisses
<1>2. done \subseteq call[e].targets /\ done \subseteq Target
  BY DEF Misses, TypeOK, Call
<1>3. \A t \in done : DepsOf[t][View(e)] \in SUBSET Path /\ PayloadOf[t][View(e)] \in Payload
  BY <1>2, EvaluationFacts DEF Failing
<1>4. store' \subseteq Recipe
  BY <1>1, <1>3 DEF TypeOK, Payload
<1>5. /\ DOMAIN new = done
      /\ \A t \in DOMAIN new : new[t].paths \in SUBSET Path /\ new[t].payload \in Payload
  BY <1>3
<1> HIDE DEF done, new
<1>6. TypeOK'
  BY <1>1, <1>2, <1>4, <1>5 DEF TypeOK
<1>7. CallInv'
  BY <1>1, <1>5 DEF TypeOK, CallInv
<1>8. LockInv'
  BY <1>1 DEF TypeOK, LockInv
<1> QED
  BY <1>6, <1>7, <1>8

LEMMA FinalizeBase ==
  ASSUME Base, NEW e \in Evaluator, Finalize(e) PROVE Base'
<1> USE DEF Base, worldVars
<1> DEFINE new == DOMAIN snapshot[e]
           learned == [t \in new |-> [deps |-> Closure(e, snapshot[e][t].paths),
                                      payload |-> snapshot[e][t].payload]]
<1>1. /\ at[e] = "finalize" /\ at' = [at EXCEPT ![e] = "upsert"]
      /\ result' = [result EXCEPT ![e] = Override(learned, @)]
      /\ Remember(e, UNION {snapshot[e][t].paths : t \in new})
      /\ todo' = [todo EXCEPT ![e] = {ShardOf[t] : t \in new}]
      /\ UNCHANGED <<worldVars, rows, txn, call, pinned, dirty, snapshot, calls>>
  BY DEF Finalize
<1>2. \A t \in new : learned[t] \in Candidate
  <2> TAKE t \in new
  <2>1. snapshot[e][t].paths \in SUBSET Path /\ snapshot[e][t].payload \in Payload
    BY DEF CallInv
  <2>2. Closure(e, snapshot[e][t].paths) \in [snapshot[e][t].paths -> Fingerprints]
    BY <2>1, FingerprintFacts DEF Closure
  <2> QED
    BY <2>1, <2>2 DEF Candidate
<1>3. /\ DOMAIN result'[e] = new \cup DOMAIN result[e]
      /\ \A t \in DOMAIN result'[e] : result'[e][t] \in Candidate
  BY <1>1, <1>2 DEF Override, TypeOK
<1>4. memo' \in [Evaluator -> [Path -> Fingerprints \cup {NoFp}]]
  BY <1>1, RememberType
<1>5. {ShardOf[t] : t \in new} \subseteq Shard
  BY CacheAssumption DEF TypeOK, Call
<1>6. TypeOK'
  BY <1>1, <1>3, <1>4, <1>5 DEF TypeOK
<1>7. CallInv'
  <2>1. DOMAIN result'[e] \subseteq call'[e].targets /\ DOMAIN snapshot'[e] \subseteq DOMAIN result'[e]
    BY <1>1, <1>3 DEF TypeOK, CallInv
  <2>2. \A d \in Evaluator : d # e => result'[d] = result[d] /\ memo'[d] = memo[d] /\ at'[d] = at[d]
    BY <1>1 DEF TypeOK, Remember
  <2>3. at'[e] = "upsert" /\ UNCHANGED <<call, snapshot>>
    BY <1>1 DEF TypeOK
  <2> HIDE DEF new, learned
  <2> QED
    BY <2>1, <2>2, <2>3 DEF CallInv
<1>8. LockInv'
  BY <1>1 DEF TypeOK, LockInv
<1> QED
  BY <1>6, <1>7, <1>8

LEMMA BeginUpsertBase ==
  ASSUME Base, NEW e \in Evaluator, BeginUpsert(e) PROVE Base'
<1> USE DEF Base, worldVars, BeginUpsert
<1>1. TypeOK'
  BY DEF TypeOK
<1>2. CallInv'
  BY DEF TypeOK, CallInv
<1>3. LockInv'
  BY DEF TypeOK, LockInv, Unlocked
<1> QED
  BY <1>1, <1>2, <1>3

(* What a commit writes is a row.                                          *)
LEMMA MergedIsRow ==
  ASSUME Base, NEW e \in Evaluator, txn[e] # NoTxn
  PROVE  IsRow(Merged(e)) /\ Histories(Stored(txn[e].row)) /\ Learned(Fresh(e, txn[e].shard))
<1> DEFINE row == txn[e].row
           fresh == Fresh(e, txn[e].shard)
<1>1. Histories(Stored(row))
  BY StoredHistories DEF TypeOK, Base
<1>2. Learned(fresh)
  BY FreshFacts DEF Base
<1> HIDE DEF row, fresh
<1>3. Histories(PlanShardRow(Stored(row), fresh)) /\ Histories(PlanShardRow(Empty, fresh))
  BY <1>1, <1>2, PlanFacts, EmptyHistories
<1>4. Merged(e) = MergedShardRow(row, fresh)
  BY DEF Merged, row, fresh
<1>5. Histories(Merged(e))
  BY <1>3, <1>4, MergedFacts
<1>6. IsRow(Merged(e))
  BY <1>5 DEF IsRow, Histories
<1> QED
  BY <1>1, <1>2, <1>6 DEF row, fresh

LEMMA CommitUpsertBase ==
  ASSUME Base, NEW e \in Evaluator, CommitUpsert(e) PROVE Base'
<1> USE DEF Base, worldVars, CommitUpsert
<1>1. IsRow(Merged(e))
  BY MergedIsRow
<1>2. TypeOK'
  BY <1>1 DEF TypeOK
<1>3. CallInv'
  BY DEF TypeOK, CallInv
<1>4. LockInv'
  BY DEF TypeOK, LockInv
<1> QED
  BY <1>2, <1>3, <1>4

LEMMA SkipShardBase ==
  ASSUME Base, NEW e \in Evaluator, SkipShard(e) PROVE Base'
<1> USE DEF Base, SkipShard, Fault
<1>1. TypeOK'
  BY CacheAssumption DEF TypeOK
<1>2. CallInv'
  BY DEF TypeOK, CallInv
<1>3. LockInv'
  BY DEF TypeOK, LockInv
<1> QED
  BY <1>1, <1>2, <1>3

LEMMA AnswerBase ==
  ASSUME Base, NEW e \in Evaluator, Answer(e) PROVE Base'
<1> USE DEF Base, Answer, worldVars
<1>1. TypeOK'
  BY DEF TypeOK
<1>2. CallInv'
  BY DEF TypeOK, CallInv
<1>3. LockInv'
  BY DEF TypeOK, LockInv
<1> QED
  BY <1>1, <1>2, <1>3

LEMMA LeaveBase ==
  ASSUME Base, NEW e \in Evaluator, Leave(e), UNCHANGED faults \/ Fault PROVE Base'
<1> USE DEF Base, Leave, Fault
<1>1. NoMemo \in [Path -> Fingerprints \cup {NoFp}] /\ NoCall \in Call
  BY DEF NoMemo, NoCall, Call
<1>2. TypeOK'
  BY <1>1, CacheAssumption DEF TypeOK, Empty
<1>3. CallInv'
  BY DEF TypeOK, CallInv, Empty
<1>4. LockInv'
  BY DEF TypeOK, LockInv
<1> QED
  BY <1>2, <1>3, <1>4

LEMMA EnvironmentBase ==
  ASSUME Base,
         \/ \E e \in Evaluator : GitCommit(e)
         \/ \E e \in Evaluator, p \in Path, c \in Content \cup {Absent} : Edit(e, p, c)
         \/ CollectGarbage
         \/ \E s \in Shard : DamageRow(s)
  PROVE  Base'
<1> USE DEF Base, procVars
<1>1. CASE \E e \in Evaluator : GitCommit(e)
  <2>1. TypeOK'
    BY <1>1 DEF TypeOK, GitCommit
  <2>2. CallInv' /\ LockInv'
    BY <1>1 DEF CallInv, LockInv, GitCommit
  <2> QED
    BY <2>1, <2>2
<1>2. CASE \E e \in Evaluator, p \in Path, c \in Content \cup {Absent} : Edit(e, p, c)
  <2>1. TypeOK'
    BY <1>2 DEF TypeOK, Edit, Tree
  <2>2. CallInv' /\ LockInv'
    BY <1>2 DEF CallInv, LockInv, Edit
  <2> QED
    BY <2>1, <2>2
<1>3. CASE CollectGarbage
  <2>1. TypeOK'
    BY <1>3 DEF TypeOK, CollectGarbage, Fault
  <2>2. CallInv' /\ LockInv'
    BY <1>3 DEF CallInv, LockInv, CollectGarbage
  <2> QED
    BY <2>1, <2>2
<1>4. CASE \E s \in Shard : DamageRow(s)
  <2>1. TypeOK'
    BY <1>4 DEF TypeOK, DamageRow, Fault, IsRow, Readable
  <2>2. CallInv' /\ LockInv'
    BY <1>4 DEF CallInv, LockInv, DamageRow, Unlocked
  <2> QED
    BY <2>1, <2>2
<1> QED
  BY <1>1, <1>2, <1>3, <1>4

LEMMA NextBase == Base /\ [Next]_vars => Base'
<1> SUFFICES ASSUME Base, [Next]_vars PROVE Base'
  OBVIOUS
<1>1. CASE UNCHANGED vars
  BY <1>1 DEF vars, worldVars, Base, TypeOK, CallInv, LockInv
<1>2. ASSUME NEW e \in Evaluator, Pin(e) PROVE Base'
  BY <1>2, PinBase
<1>3. ASSUME NEW e \in Evaluator, Status(e) PROVE Base'
  BY <1>3, StatusBase
<1>4. ASSUME NEW e \in Evaluator, LookupShard(e) PROVE Base'
  BY <1>4, LookupShardBase
<1>5. ASSUME NEW e \in Evaluator, LookupFails(e) PROVE Base'
  BY <1>5, LookupFailsBase
<1>6. ASSUME NEW e \in Evaluator, Materialize(e) PROVE Base'
  BY <1>6, MaterializeBase
<1>7. ASSUME NEW e \in Evaluator, EvaluateMisses(e) PROVE Base'
  BY <1>7, EvaluateMissesBase
<1>8. ASSUME NEW e \in Evaluator, Finalize(e) PROVE Base'
  BY <1>8, FinalizeBase
<1>9. ASSUME NEW e \in Evaluator, BeginUpsert(e) PROVE Base'
  BY <1>9, BeginUpsertBase
<1>10. ASSUME NEW e \in Evaluator, CommitUpsert(e) PROVE Base'
  BY <1>10, CommitUpsertBase
<1>11. ASSUME NEW e \in Evaluator, SkipShard(e) PROVE Base'
  BY <1>11, SkipShardBase
<1>12. ASSUME NEW e \in Evaluator, Answer(e) PROVE Base'
  BY <1>12, AnswerBase
<1>13. ASSUME NEW e \in Evaluator, Exit(e) \/ Crash(e) PROVE Base'
  BY <1>13, LeaveBase DEF Exit, Crash
<1> QED
  BY <1>1, <1>2, <1>3, <1>4, <1>5, <1>6, <1>7, <1>8, <1>9, <1>10, <1>11, <1>12, <1>13,
     EnvironmentBase DEF Next

LEMMA BaseAlways == Spec => []Base
<1>1. Init => Base
  BY InitBase
<1>2. Base /\ [Next]_vars => Base'
  BY NextBase
<1> QED
  BY <1>1, <1>2, PTL DEF Spec

(* Every variable keeps its type whatever evaluators, edits and faults do: *)
(* a failed target gets no result and never reaches a row, and a stored    *)
(* history is never empty (primops/tecnix.cc, evalMiss; eval-cache.cc).    *)
THEOREM TypeCorrect == Spec => []TypeOK
<1>1. Base => TypeOK
  BY DEF Base
<1> QED
  BY <1>1, BaseAlways, PTL

--------------------------------------------------------------------------------
(***************************************************************************)
(* Accumulation.                                                           *)
(***************************************************************************)

(* A merge into a row keeps the newest candidate of every target.          *)
LEMMA MergeKeepsNewest ==
  ASSUME NEW row, Histories(row), NEW fresh, Learned(fresh), Keep > 1, NEW t \in DOMAIN row
  PROVE  /\ t \in DOMAIN PlanShardRow(row, fresh)
         /\ row[t][1] \in Range(PlanShardRow(row, fresh)[t])
<1> DEFINE new == PlanShardRow(row, fresh)[t]
<1>1. row[t] \in Seq(Candidate) /\ Len(row[t]) \in Nat \ {0}
  BY DEF Histories
<1>2. t \in DOMAIN PlanShardRow(row, fresh) /\ new \in Seq(Candidate) /\ Len(new) \in 1..Keep
  BY PlanFacts DEF Histories
<1>3. CASE t \notin DOMAIN fresh
  <2>1. new = Trim(row[t])
    BY <1>3, PlanFacts
  <2>2. \A i \in 1..Len(Trim(row[t])) : Trim(row[t])[i] = row[t][i]
    BY <1>1, TrimFacts
  <2>3. 1 \in 1..Len(new)
    BY <1>2, KeepPositive
  <2> HIDE DEF new
  <2>4. new[1] = row[t][1]
    BY <2>1, <2>2, <2>3
  <2> QED
    BY <1>2, <2>3, <2>4 DEF Range, new
<1>4. CASE t \in DOMAIN fresh
  <2>1. new = Learn(row[t], fresh[t]) /\ fresh[t] \in Candidate
    BY <1>4, PlanFacts DEF Learned
  <2> DEFINE h == row[t]
  <2>2. h \in Seq(Candidate) /\ Len(h) > 0 /\ new = Learn(h, fresh[t])
    BY <1>1, <2>1
  <2> HIDE DEF new, h
  <2>3. NewestSurvives(new, h)
    BY <2>1, <2>2, LearnFacts
  <2>4. \E j \in 1..Len(new) : new[j] = h[1]
    BY <2>2, <2>3 DEF NewestSurvives
  <2> QED
    BY <1>2, <2>4 DEF Range, new, h
<1> QED
  BY <1>3, <1>4

Accumulating ==
  \A s \in Shard :
    Readable(rows[s]) /\ Readable(rows'[s]) /\ Keep > 1 /\ Forgets(s) =>
      \E e \in Evaluator :
        /\ txn[e] # NoTxn /\ txn[e].shard = s
        /\ Cardinality(DOMAIN rows[s] \cup DOMAIN Fresh(e, s)) > MaxTargets

LEMMA UnchangedAccumulates ==
  ASSUME Base, NEW s \in Shard, rows'[s] = rows[s] PROVE ~Forgets(s)
<1>1. Histories(Stored(rows[s]))
  BY StoredHistories DEF Base, TypeOK
<1> DEFINE row == Stored(rows[s])
<1>2. \A t \in DOMAIN row : row[t][1] \in Range(row[t])
  BY <1>1 DEF Histories, Range
<1>3. DOMAIN row # {} => row = rows[s]
  BY DEF Stored, Empty
<1> QED
  BY <1>2, <1>3 DEF Forgets

LEMMA CommitAccumulates ==
  ASSUME Base, NEW e \in Evaluator, CommitUpsert(e) PROVE Accumulating
<1> SUFFICES ASSUME NEW s \in Shard, Readable(rows[s]), Readable(rows'[s]), Keep > 1, Forgets(s)
             PROVE  /\ txn[e] # NoTxn /\ txn[e].shard = s
                    /\ Cardinality(DOMAIN rows[s] \cup DOMAIN Fresh(e, s)) > MaxTargets
  BY DEF Accumulating
<1>1. txn[e] # NoTxn /\ rows' = [rows EXCEPT ![txn[e].shard] = Merged(e)]
  BY DEF CommitUpsert
<1>2. txn[e].shard = s
  <2>1. txn[e].shard # s => rows'[s] = rows[s]
    BY <1>1 DEF Base, TypeOK
  <2> QED
    BY <2>1, UnchangedAccumulates
<1>3. txn[e].row = rows[s]
  BY <1>1, <1>2 DEF Base, LockInv
<1> DEFINE row == rows[s]
           fresh == Fresh(e, s)
           plan == PlanShardRow(row, fresh)
<1>4. Histories(row) /\ Stored(row) = row /\ Learned(fresh)
  BY <1>1, <1>2, <1>3, MergedIsRow DEF Stored
<1>5. rows'[s] = MergedShardRow(row, fresh) /\ Stored(rows'[s]) = rows'[s]
  BY <1>1, <1>2, <1>3 DEF Base, TypeOK, Merged, Stored
<1>6. \A t \in DOMAIN row : t \in DOMAIN plan /\ row[t][1] \in Range(plan[t])
  BY <1>4, MergeKeepsNewest
<1>7. rows'[s] # plan
  BY <1>4, <1>5, <1>6 DEF Forgets
<1>8. ~Fits(plan)
  BY <1>4, <1>5, <1>7, MergedFacts
<1>9. DOMAIN plan = DOMAIN row \cup DOMAIN fresh
  BY <1>4, PlanFacts
<1>10. IsFiniteSet(DOMAIN row \cup DOMAIN fresh)
  BY <1>4, CacheAssumption, FS_Subset DEF Histories, Learned
<1>11. Cardinality(DOMAIN row \cup DOMAIN fresh) \in Nat
  BY <1>10, FS_CardinalityType
<1> QED
  BY <1>1, <1>2, <1>8, <1>9, <1>11, CacheAssumption DEF Fits

LEMMA RowSteps ==
  ASSUME [Next]_vars
  PROVE  \/ UNCHANGED rows
         \/ \E e \in Evaluator : CommitUpsert(e)
         \/ \E s \in Shard : DamageRow(s)
<1>1. ASSUME NEW e \in Evaluator,
             \/ Pin(e) \/ Status(e) \/ LookupShard(e) \/ LookupFails(e) \/ Materialize(e)
             \/ EvaluateMisses(e) \/ Finalize(e)
      PROVE  UNCHANGED rows
  BY <1>1 DEF Pin, Status, LookupShard, LookupFails, Materialize, EvaluateMisses, Finalize
<1>2. ASSUME NEW e \in Evaluator,
             BeginUpsert(e) \/ SkipShard(e) \/ Answer(e) \/ Exit(e) \/ Crash(e) \/ GitCommit(e)
      PROVE  UNCHANGED rows
  BY <1>2 DEF BeginUpsert, SkipShard, Answer, Exit, Crash, Leave, GitCommit
<1>3. ASSUME NEW e \in Evaluator, NEW p \in Path, NEW c \in Content \cup {Absent}, Edit(e, p, c)
      PROVE  UNCHANGED rows
  BY <1>3 DEF Edit
<1>4. CollectGarbage \/ UNCHANGED vars => UNCHANGED rows
  BY DEF CollectGarbage, vars
<1> QED
  BY <1>1, <1>2, <1>3, <1>4 DEF Next

LEMMA NextAccumulates == Base /\ [Next]_vars => Accumulating \/ UNCHANGED vars
<1> SUFFICES ASSUME Base, Next PROVE Accumulating
  OBVIOUS
<1>1. ASSUME UNCHANGED rows PROVE Accumulating
  BY <1>1, UnchangedAccumulates DEF Accumulating
<1>2. ASSUME NEW s \in Shard, DamageRow(s) PROVE Accumulating
  <2>1. \A r \in Shard : Readable(rows'[r]) => rows'[r] = rows[r]
    BY <1>2 DEF DamageRow, Base, TypeOK, Readable
  <2> QED
    BY <2>1, UnchangedAccumulates DEF Accumulating
<1> QED
  BY <1>1, <1>2, RowSteps, CommitAccumulates

(* For any number of evaluators sharing the database, with crashes, faults *)
(* and edits at any moment: a write forgets the newest candidate of a      *)
(* target only when the histories hold one candidate or the shard is full  *)
(* (eval-cache.cc, upsertMany and planShardRow).                           *)
THEOREM CandidatesAccumulate == Spec => Accumulates
<1>1. Base /\ [Next]_vars => [Accumulating]_vars
  BY NextAccumulates
<1> QED
  BY <1>1, BaseAlways, PTL DEF Spec, Accumulates, Accumulating

--------------------------------------------------------------------------------
(***************************************************************************)
(* What a call knows is about the tree it evaluates, as long as no file is *)
(* edited while a call runs on its checkout (EditsRace = FALSE).           *)
(***************************************************************************)
ExactAt(e) ==
  /\ \A p \in Path : memo[e][p] # NoFp => memo[e][p] = Fingerprint(e, p)
  /\ \A t \in DOMAIN result[e] : result[e][t] = Exact(e, t)
  /\ \A t \in DOMAIN snapshot[e] :
       /\ snapshot[e][t].paths = DepsOf[t][View(e)]
       /\ snapshot[e][t].payload = PayloadOf[t][View(e)]

LEMMA ExactIsAt == ExactInv <=> \A e \in Evaluator : ExactAt(e)
BY DEF ExactInv, ExactAt

(* An evaluator that has neither memo nor results.                         *)
LEMMA ExactIdle ==
  ASSUME NEW e, memo[e] = NoMemo, result[e] = Empty, snapshot[e] = Empty PROVE ExactAt(e)
BY DEF ExactAt, NoMemo, Empty

LEMMA ExactIdleNext ==
  ASSUME NEW e, memo'[e] = NoMemo, result'[e] = Empty, snapshot'[e] = Empty PROVE ExactAt(e)'
BY DEF ExactAt, NoMemo, Empty

SameTree(e) == disk'[e] = disk[e] /\ pinned'[e] = pinned[e] /\ dirty'[e] = dirty[e]

LEMMA SameTreeFacts ==
  ASSUME NEW e, SameTree(e)
  PROVE  /\ View(e)' = View(e)
         /\ \A p : Fingerprint(e, p)' = Fingerprint(e, p)
         /\ \A t : Exact(e, t)' = Exact(e, t)
<1>1. View(e)' = View(e)
  BY DEF SameTree, View
<1>2. \A p : Fingerprint(e, p)' = Fingerprint(e, p)
  BY DEF SameTree, Fingerprint
<1>3. ASSUME NEW t PROVE Exact(e, t)' = Exact(e, t)
  <2>1. Exact(e, t)' = [deps |-> [p \in DepsOf[t][View(e)'] |-> Fingerprint(e, p)'],
                        payload |-> PayloadOf[t][View(e)']]
    BY DEF Exact
  <2> QED
    BY <2>1, <1>1, <1>2 DEF Exact
<1> QED
  BY <1>1, <1>2, <1>3

LEMMA ExactFrame ==
  ASSUME NEW e, ExactAt(e), SameTree(e),
         memo'[e] = memo[e], result'[e] = result[e], snapshot'[e] = snapshot[e]
  PROVE  ExactAt(e)'
<1>1. /\ View(e)' = View(e)
      /\ \A p : Fingerprint(e, p)' = Fingerprint(e, p)
      /\ \A t : Exact(e, t)' = Exact(e, t)
  BY SameTreeFacts
<1> QED
  BY <1>1 DEF ExactAt

(* A closure taken from the tree of a call proves its payload.             *)
LEMMA ExactProves ==
  ASSUME TypeOK, NEW e \in Evaluator, NEW t \in Target
  PROVE  Proves(t, Exact(e, t)) /\ Agrees(Exact(e, t), View(e))
<1> DEFINE c == Exact(e, t)
<1>1. DepsOf[t][View(e)] \subseteq Path
  BY EvaluationFacts
<1>2. /\ DOMAIN c.deps = DepsOf[t][View(e)] /\ c.payload = PayloadOf[t][View(e)]
      /\ \A p \in DOMAIN c.deps : c.deps[p] = Fingerprint(e, p)
  BY DEF Exact
<1> HIDE DEF c
<1>3. \A p \in DOMAIN c.deps : ContentOf(c.deps[p]) = View(e)[p]
  BY <1>1, <1>2, FingerprintFacts
<1>4. Agrees(c, View(e))
  BY <1>3 DEF Agrees
<1>5. ASSUME NEW tree \in Tree, Agrees(c, tree)
      PROVE  PayloadOf[t][tree] = c.payload /\ DepsOf[t][tree] = DOMAIN c.deps
  <2>1. \A p \in DepsOf[t][View(e)] : View(e)[p] = tree[p]
    BY <1>2, <1>3, <1>5 DEF Agrees
  <2> QED
    BY <2>1, <1>2, FingerprintFacts, EvaluationAssumption
<1>6. Proves(t, c)
  BY <1>5 DEF Proves
<1> QED
  BY <1>4, <1>6 DEF c

LEMMA KnownExact ==
  ASSUME NEW e, ExactAt(e), NEW p \in Path PROVE Known(e, p) = Fingerprint(e, p)
BY DEF ExactAt, Known

(* A sound candidate that matches is what evaluation would give.           *)
LEMMA MatchExact ==
  ASSUME TypeOK, NEW e \in Evaluator, ExactAt(e), NEW t \in Target,
         NEW c \in Candidate, Proves(t, c), CandidateMatches(e, c)
  PROVE  c = Exact(e, t)
<1>1. PICK D \in SUBSET Path : c.deps \in [D -> Fingerprints]
  BY DEF Candidate
<1>2. \A p \in D : c.deps[p] = Fingerprint(e, p)
  BY <1>1, KnownExact DEF CandidateMatches
<1>3. Agrees(c, View(e))
  BY <1>1, <1>2, FingerprintFacts DEF Agrees
<1>4. PayloadOf[t][View(e)] = c.payload /\ DepsOf[t][View(e)] = D
  BY <1>1, <1>3, FingerprintFacts DEF Proves
<1>5. c.deps = [p \in DepsOf[t][View(e)] |-> Fingerprint(e, p)]
  BY <1>1, <1>2, <1>4
<1>6. c = [deps |-> c.deps, payload |-> c.payload]
  BY DEF Candidate
<1> QED
  BY <1>4, <1>5, <1>6 DEF Exact

LEMMA RememberExact ==
  ASSUME TypeOK, NEW e \in Evaluator, ExactAt(e), NEW ps, Remember(e, ps)
  PROVE  /\ \A p \in Path : memo'[e][p] # NoFp => memo'[e][p] = Fingerprint(e, p)
         /\ \A d \in Evaluator : d # e => memo'[d] = memo[d]
<1>1. \A p \in Path : memo'[e][p] = IF p \in ps THEN Known(e, p) ELSE memo[e][p]
  BY DEF Remember, TypeOK
<1>2. \A d \in Evaluator : d # e => memo'[d] = memo[d]
  BY DEF Remember, TypeOK
<1> QED
  BY <1>1, <1>2, KnownExact DEF ExactAt

--------------------------------------------------------------------------------
(* The candidates of a merged row.                                         *)

SoundRow(row) ==
  \A t \in DOMAIN Stored(row) : \A k \in 1..Len(Stored(row)[t]) : Proves(t, Stored(row)[t][k])

LEMMA SoundRowIs ==
  ASSUME NEW row, IsRow(row)
  PROVE  SoundRow(row) <=>
           \A t \in DOMAIN Stored(row) : \A k \in DOMAIN row[t] : Proves(t, row[t][k])
<1> SUFFICES ASSUME NEW t \in DOMAIN Stored(row)
             PROVE  Stored(row) = row /\ DOMAIN row[t] = 1..Len(row[t])
  BY DEF SoundRow
<1>1. Stored(row) = row /\ Readable(row)
  BY DEF Stored, Empty
<1> QED
  BY <1>1 DEF IsRow

LEMMA SoundIsRow == TypeOK => (CandidatesSound <=> \A s \in Shard : SoundRow(rows[s]))
BY SoundRowIs DEF TypeOK, CandidatesSound

(* Every candidate of a plan is a fresh one, or a stored one.              *)
LEMMA PlanSources ==
  ASSUME NEW row, Histories(row), NEW fresh, Learned(fresh),
         NEW t \in DOMAIN PlanShardRow(row, fresh),
         NEW k \in 1..Len(PlanShardRow(row, fresh)[t])
  PROVE  \/ t \in DOMAIN fresh /\ PlanShardRow(row, fresh)[t][k] = fresh[t]
         \/ /\ t \in DOMAIN row
            /\ \E j \in 1..Len(row[t]) : PlanShardRow(row, fresh)[t][k] = row[t][j]
<1> DEFINE new == PlanShardRow(row, fresh)[t]
<1>1. t \in DOMAIN row \cup DOMAIN fresh
  BY PlanFacts
<1>2. CASE t \notin DOMAIN fresh
  <2>1. new = Trim(row[t]) /\ t \in DOMAIN row /\ row[t] \in Seq(Candidate)
    BY <1>1, <1>2, PlanFacts DEF Histories
  <2>2. /\ Len(Trim(row[t])) \in Nat /\ Len(Trim(row[t])) <= Len(row[t])
        /\ \A i \in 1..Len(Trim(row[t])) : Trim(row[t])[i] = row[t][i]
    BY <2>1, TrimFacts
  <2>3. k \in 1..Len(row[t]) /\ new[k] = row[t][k]
    BY <2>1, <2>2
  <2> QED
    BY <2>1, <2>3
<1>3. CASE t \in DOMAIN fresh
  <2> DEFINE h == IF t \in DOMAIN row THEN row[t] ELSE <<>>
  <2>1. new = Learn(IF t \in DOMAIN row THEN row[t] ELSE <<>>, fresh[t])
    BY <1>1, <1>3 DEF PlanShardRow
  <2>2. h \in Seq(Candidate) /\ fresh[t] \in Candidate /\ (t \notin DOMAIN row => Len(h) = 0)
    BY <1>3 DEF Histories, Learned
  <2>3. new = Learn(h, fresh[t])
    BY <2>1
  <2> HIDE DEF h, new
  <2>4. Survivors(new, h, fresh[t]) /\ new[1] = fresh[t]
    BY <2>2, <2>3, LearnFacts
  <2>5. CASE k = 1
    BY <2>4, <2>5, <1>3 DEF new
  <2>6. CASE k # 1
    <3>1. k \in 2..Len(new)
      BY <2>6 DEF new
    <3>2. PICK i \in 1..Len(h) : new[k] = h[i]
      BY <2>4, <3>1 DEF Survivors
    <3>3. t \in DOMAIN row /\ h = row[t]
      BY <3>2, <2>2 DEF h
    <3> QED
      BY <3>2, <3>3 DEF new
  <2> QED
    BY <2>5, <2>6
<1> QED
  BY <1>2, <1>3

SoundFresh(fresh) == \A t \in DOMAIN fresh : Proves(t, fresh[t])

LEMMA PlanSound ==
  ASSUME NEW row, Histories(row), NEW fresh, Learned(fresh), SoundFresh(fresh),
         \A t \in DOMAIN row : \A k \in 1..Len(row[t]) : Proves(t, row[t][k])
  PROVE  \A t \in DOMAIN PlanShardRow(row, fresh) :
           \A k \in 1..Len(PlanShardRow(row, fresh)[t]) : Proves(t, PlanShardRow(row, fresh)[t][k])
BY PlanSources DEF SoundFresh

LEMMA MergedSound ==
  ASSUME Base, NEW e \in Evaluator, ExactAt(e), txn[e] # NoTxn, SoundRow(txn[e].row)
  PROVE  SoundRow(Merged(e)) /\ SoundFresh(Fresh(e, txn[e].shard))
<1> DEFINE row == Stored(txn[e].row)
           fresh == Fresh(e, txn[e].shard)
<1>1. Histories(row) /\ Learned(fresh)
  BY MergedIsRow
<1>2. SoundFresh(fresh)
  <2> SUFFICES ASSUME NEW t \in DOMAIN fresh PROVE Proves(t, fresh[t])
    BY DEF SoundFresh
  <2>1. fresh[t] = Exact(e, t) /\ t \in Target
    BY <1>1, FreshFacts DEF ExactAt, Base, Learned
  <2> QED
    BY <2>1, ExactProves DEF Base
<1>3. \A t \in DOMAIN row : \A k \in 1..Len(row[t]) : Proves(t, row[t][k])
  BY DEF SoundRow
<1> HIDE DEF row, fresh
<1>4. /\ \A t \in DOMAIN PlanShardRow(row, fresh) :
           \A k \in 1..Len(PlanShardRow(row, fresh)[t]) : Proves(t, PlanShardRow(row, fresh)[t][k])
      /\ \A t \in DOMAIN PlanShardRow(Empty, fresh) :
           \A k \in 1..Len(PlanShardRow(Empty, fresh)[t]) : Proves(t, PlanShardRow(Empty, fresh)[t][k])
  BY <1>1, <1>2, <1>3, PlanSound, EmptyHistories
<1>5. Merged(e) \in {PlanShardRow(row, fresh), PlanShardRow(Empty, fresh)}
  BY MergedFacts DEF Merged, row, fresh
<1>6. \A t \in DOMAIN Merged(e) : \A k \in 1..Len(Merged(e)[t]) : Proves(t, Merged(e)[t][k])
  BY <1>4, <1>5
<1>7. SoundRow(Merged(e))
  BY <1>6 DEF SoundRow, Stored, Empty
<1> QED
  BY <1>2, <1>7 DEF fresh

--------------------------------------------------------------------------------
(***************************************************************************)
(* The inductive invariant, action by action.                              *)
(***************************************************************************)
Sound == Base /\ ExactInv /\ CandidatesSound

AnswerAt(e) ==
  LET succeeding == {t \in call[e].targets : PayloadOf[t][View(e)] # Failure} IN
    /\ at[e] = "finalize" => DOMAIN result[e] \cup DOMAIN snapshot[e] = succeeding
    /\ at[e] \in {"upsert", "done"} => DOMAIN result[e] = succeeding
    /\ at[e] \in {"finalize", "upsert", "done"} =>
         succeeding = call[e].targets \/ call[e].keepGoing

LEMMA AnswerIsAt == AnswerInv <=> \A e \in Evaluator : AnswerAt(e)
BY DEF AnswerInv, AnswerAt

LEMMA AnswerFrame ==
  ASSUME NEW e, AnswerAt(e), SameTree(e), at'[e] = at[e] \/ (at[e] = "upsert" /\ at'[e] = "done"),
         call'[e] = call[e], result'[e] = result[e], snapshot'[e] = snapshot[e]
  PROVE  AnswerAt(e)'
<1>1. View(e)' = View(e)
  BY SameTreeFacts
<1> QED
  BY <1>1 DEF AnswerAt

LEMMA AnswerEarly ==
  ASSUME NEW e, at'[e] \notin {"finalize", "upsert", "done"} PROVE AnswerAt(e)'
BY DEF AnswerAt

(* A step that changes nothing an evaluator knows or evaluates.            *)
Untouched(e) ==
  /\ SameTree(e)
  /\ memo'[e] = memo[e] /\ result'[e] = result[e] /\ snapshot'[e] = snapshot[e]
  /\ call'[e] = call[e] /\ (at'[e] = at[e] \/ (at[e] = "upsert" /\ at'[e] = "done"))

LEMMA UntouchedFrame ==
  ASSUME NEW e, Untouched(e), ExactAt(e), AnswerAt(e) PROVE ExactAt(e)' /\ AnswerAt(e)'
BY ExactFrame, AnswerFrame DEF Untouched

(* Every step but four leaves an evaluator's knowledge alone, or empty.    *)
Learning(d) == LookupShard(d) \/ Materialize(d) \/ EvaluateMisses(d) \/ Finalize(d)

Ignorant(d) ==
  /\ memo'[d] = NoMemo /\ result'[d] = Empty /\ snapshot'[d] = Empty
  /\ at'[d] \notin {"finalize", "upsert", "done"}

LEMMA LearningAlone ==
  ASSUME Base, NEW e \in Evaluator, Learning(e), NEW d \in Evaluator, d # e PROVE Untouched(d)
<1> USE DEF Base, TypeOK, Untouched, SameTree, worldVars
<1>1. CASE LookupShard(e)
  BY <1>1 DEF LookupShard, Remember
<1>2. CASE Materialize(e)
  BY <1>2 DEF Materialize
<1>3. CASE EvaluateMisses(e)
  BY <1>3 DEF EvaluateMisses
<1>4. CASE Finalize(e)
  BY <1>4 DEF Finalize, Remember
<1> QED
  BY <1>1, <1>2, <1>3, <1>4 DEF Learning

LEMMA StepKinds ==
  ASSUME EditsRace = FALSE, Base, [Next]_vars, NEW d \in Evaluator
  PROVE  Untouched(d) \/ Ignorant(d) \/ Learning(d)
<1> USE DEF Base, TypeOK, Untouched, SameTree, Ignorant
<1>1. CASE UNCHANGED vars
  BY <1>1 DEF vars, worldVars
<1>2. ASSUME NEW e \in Evaluator, Pin(e) \/ Status(e) PROVE Untouched(d) \/ Ignorant(d)
  BY <1>2 DEF Pin, Status, worldVars, CallInv
<1>3. ASSUME NEW e \in Evaluator, Learning(e) PROVE Untouched(d) \/ Learning(d)
  BY <1>3, LearningAlone
<1>4. ASSUME NEW e \in Evaluator,
             LookupFails(e) \/ BeginUpsert(e) \/ CommitUpsert(e) \/ SkipShard(e) \/ Answer(e)
      PROVE  Untouched(d)
  BY <1>4 DEF LookupFails, BeginUpsert, CommitUpsert, SkipShard, Answer, worldVars
<1>5. ASSUME NEW e \in Evaluator, Exit(e) \/ Crash(e) PROVE Untouched(d) \/ Ignorant(d)
  BY <1>5 DEF Exit, Crash, Leave
<1>6. ASSUME NEW e \in Evaluator, GitCommit(e) PROVE Untouched(d)
  BY <1>6 DEF GitCommit, procVars
<1>7. ASSUME NEW e \in Evaluator, NEW p, NEW c, Edit(e, p, c) PROVE Untouched(d) \/ Ignorant(d)
  BY <1>7 DEF Edit, procVars, CallInv
<1>8. ASSUME CollectGarbage \/ \E s \in Shard : DamageRow(s) PROVE Untouched(d)
  BY <1>8 DEF CollectGarbage, DamageRow, procVars
<1> QED
  BY <1>1, <1>2, <1>3, <1>4, <1>5, <1>6, <1>7, <1>8 DEF Next, Learning

(* The four: what they add is what evaluating the call's tree gives.       *)
LEMMA LookupShardExact ==
  ASSUME Sound, NEW e \in Evaluator, LookupShard(e)
  PROVE  ExactAt(e)' /\ AnswerAt(e)'
<1> USE DEF Sound, Base
<1>1. PICK s \in todo[e] : LookupShard(e)!(s)
  BY DEF LookupShard
<1> DEFINE row == Stored(rows[s])
           found == call[e].targets \cap DOMAIN row
           hits == {t \in found : Matching(e, row[t]) # {}}
           new == [t \in hits |-> FirstMatch(e, row[t])]
<1>2. /\ at[e] = "lookup"
      /\ Remember(e, UNION {Examined(e, row[t]) : t \in found})
      /\ result' = [result EXCEPT ![e] = Override(new, @)]
      /\ UNCHANGED <<worldVars, rows, txn, at, call, pinned, dirty, snapshot, calls>>
  BY <1>1
<1>3. Histories(row) /\ SoundRow(rows[s]) /\ ExactAt(e) /\ SameTree(e)
  BY <1>2, StoredHistories, SoundIsRow, ExactIsAt DEF TypeOK, SameTree, worldVars
<1>4. \A t \in hits : new[t] = Exact(e, t)
  <2> TAKE t \in hits
  <2>1. row[t] \in Seq(Candidate) /\ Matching(e, row[t]) # {} /\ t \in Target
    BY <1>3 DEF Histories
  <2>2. PICK k \in 1..Len(row[t]) : FirstMatch(e, row[t]) = row[t][k] /\ CandidateMatches(e, row[t][k])
    BY <2>1, FirstMatchFacts
  <2>3. row[t][k] \in Candidate /\ Proves(t, row[t][k])
    BY <1>3, <2>1 DEF SoundRow
  <2> QED
    BY <1>3, <2>1, <2>2, <2>3, MatchExact
<1>5. \A t \in DOMAIN result'[e] : result'[e][t] = Exact(e, t)
  BY <1>2, <1>3, <1>4 DEF Override, TypeOK, ExactAt
<1>6. \A p \in Path : memo'[e][p] # NoFp => memo'[e][p] = Fingerprint(e, p)
  BY <1>2, <1>3, RememberExact
<1>7. ExactAt(e)'
  BY <1>2, <1>3, <1>5, <1>6, SameTreeFacts DEF ExactAt
<1> QED
  BY <1>2, <1>7, AnswerEarly

LEMMA MaterializeExact ==
  ASSUME Sound, NEW e \in Evaluator, Materialize(e)
  PROVE  ExactAt(e)' /\ AnswerAt(e)'
<1> USE DEF Sound, Base
<1> DEFINE kept == {t \in DOMAIN result[e] : Servable(e, t)}
<1>1. /\ result'[e] = [t \in kept |-> result[e][t]] /\ kept \subseteq DOMAIN result[e]
      /\ at'[e] = "eval" /\ memo'[e] = memo[e] /\ snapshot'[e] = snapshot[e]
  BY DEF Materialize, Restrict, TypeOK
<1>2. ExactAt(e) /\ SameTree(e)
  BY ExactIsAt DEF Materialize, SameTree, worldVars
<1> HIDE DEF kept
<1>3. ExactAt(e)'
  BY <1>1, <1>2, SameTreeFacts DEF ExactAt
<1> QED
  BY <1>1, <1>3, AnswerEarly

LEMMA EvaluateMissesExact ==
  ASSUME Sound, NEW e \in Evaluator, EvaluateMisses(e)
  PROVE  ExactAt(e)' /\ AnswerAt(e)'
<1> USE DEF Sound, Base
<1> DEFINE done == Misses(e) \ Failing(e)
           new == [t \in done |-> [paths |-> DepsOf[t][View(e)], payload |-> PayloadOf[t][View(e)]]]
           succeeding == {t \in call[e].targets : PayloadOf[t][View(e)] # Failure}
<1>1. /\ snapshot'[e] = new /\ result'[e] = result[e] /\ memo'[e] = memo[e] /\ call'[e] = call[e]
      /\ at'[e] = "finalize" /\ (Failing(e) = {} \/ call[e].keepGoing)
  BY DEF EvaluateMisses, TypeOK
<1>2. ExactAt(e) /\ SameTree(e)
  BY ExactIsAt DEF EvaluateMisses, SameTree
<1>3. View(e)' = View(e)
  BY <1>2, SameTreeFacts
<1>4. ExactAt(e)'
  BY <1>1, <1>2, SameTreeFacts DEF ExactAt
<1>5. \A t \in DOMAIN result[e] : t \in call[e].targets /\ PayloadOf[t][View(e)] # Failure
  <2> TAKE t \in DOMAIN result[e]
  <2>1. result[e][t].payload \in Payload
    BY DEF TypeOK, Candidate
  <2>2. result[e][t] = Exact(e, t)
    BY <1>2 DEF ExactAt
  <2>3. Exact(e, t).payload = PayloadOf[t][View(e)]
    BY DEF Exact
  <2> QED
    BY <2>1, <2>2, <2>3, CacheAssumption DEF CallInv
<1>6. DOMAIN result[e] \cup done = succeeding
  BY <1>5 DEF Misses, Failing
<1>7. Failing(e) = {} => succeeding = call[e].targets
  BY <1>5 DEF Misses, Failing
<1>8. AnswerAt(e)'
  BY <1>1, <1>3, <1>6, <1>7 DEF AnswerAt
<1> QED
  BY <1>4, <1>8

LEMMA FinalizeExact ==
  ASSUME Sound, NEW e \in Evaluator, AnswerAt(e), Finalize(e)
  PROVE  ExactAt(e)' /\ AnswerAt(e)'
<1> USE DEF Sound, Base
<1> DEFINE new == DOMAIN snapshot[e]
           learned == [t \in new |-> [deps |-> Closure(e, snapshot[e][t].paths),
                                      payload |-> snapshot[e][t].payload]]
<1>1. /\ at[e] = "finalize" /\ at'[e] = "upsert"
      /\ result'[e] = Override(learned, result[e])
      /\ Remember(e, UNION {snapshot[e][t].paths : t \in new})
      /\ snapshot'[e] = snapshot[e] /\ call'[e] = call[e]
  BY DEF Finalize, TypeOK
<1>2. ExactAt(e) /\ SameTree(e)
  BY ExactIsAt DEF Finalize, SameTree, worldVars
<1>3. \A t \in new : learned[t] = Exact(e, t)
  <2> TAKE t \in new
  <2>1. /\ snapshot[e][t].paths = DepsOf[t][View(e)] /\ snapshot[e][t].payload = PayloadOf[t][View(e)]
        /\ snapshot[e][t].paths \in SUBSET Path
    BY <1>2 DEF ExactAt, CallInv
  <2>2. \A p \in snapshot[e][t].paths : Known(e, p) = Fingerprint(e, p)
    BY <1>2, <2>1, KnownExact
  <2> QED
    BY <2>1, <2>2 DEF Exact, Closure
<1>4. /\ DOMAIN result'[e] = DOMAIN result[e] \cup DOMAIN snapshot[e]
      /\ \A t \in DOMAIN result'[e] : result'[e][t] = Exact(e, t)
  BY <1>1, <1>2, <1>3 DEF Override, ExactAt
<1>5. \A p \in Path : memo'[e][p] # NoFp => memo'[e][p] = Fingerprint(e, p)
  BY <1>1, <1>2, RememberExact
<1>6. ExactAt(e)'
  BY <1>1, <1>2, <1>4, <1>5, SameTreeFacts DEF ExactAt
<1>7. AnswerAt(e)'
  BY <1>1, <1>2, <1>4, SameTreeFacts DEF AnswerAt
<1> QED
  BY <1>6, <1>7

LEMMA NextSound ==
  ASSUME EditsRace = FALSE, Sound, AnswerInv, [Next]_vars
  PROVE  Sound' /\ AnswerInv'
<1> USE DEF Sound
<1>1. Base'
  BY NextBase
<1>2. ASSUME NEW e \in Evaluator PROVE ExactAt(e)' /\ AnswerAt(e)'
  <2>1. ExactAt(e) /\ AnswerAt(e)
    BY ExactIsAt, AnswerIsAt
  <2>2. CASE Untouched(e)
    BY <2>1, <2>2, UntouchedFrame
  <2>3. CASE Ignorant(e)
    BY <2>3, ExactIdleNext, AnswerEarly DEF Ignorant
  <2>4. CASE Learning(e)
    BY <2>1, <2>4, LookupShardExact, MaterializeExact, EvaluateMissesExact, FinalizeExact DEF Learning
  <2> QED
    BY <2>2, <2>3, <2>4, StepKinds
<1>3. ExactInv' /\ AnswerInv'
  BY <1>2 DEF ExactInv, ExactAt, AnswerInv, AnswerAt
<1>4. \A s \in Shard : SoundRow(rows[s])
  BY SoundIsRow DEF Base
<1>5. \A s \in Shard : SoundRow(rows'[s])
  <2>1. CASE UNCHANGED rows
    BY <1>4, <2>1
  <2>2. ASSUME NEW e \in Evaluator, CommitUpsert(e) PROVE \A s \in Shard : SoundRow(rows'[s])
    <3>1. txn[e] # NoTxn /\ rows' = [rows EXCEPT ![txn[e].shard] = Merged(e)]
      BY <2>2 DEF CommitUpsert
    <3>2. txn[e].shard \in Shard /\ SoundRow(txn[e].row)
      BY <1>4, <3>1 DEF Base, LockInv
    <3>3. SoundRow(Merged(e))
      BY <3>1, <3>2, MergedSound, ExactIsAt
    <3> QED
      BY <1>4, <3>1, <3>2, <3>3 DEF Base, TypeOK
  <2>3. ASSUME NEW s \in Shard, DamageRow(s) PROVE \A r \in Shard : SoundRow(rows'[r])
    <3>1. SoundRow(Unreadable)
      BY DEF SoundRow, Stored, Readable, Empty
    <3> QED
      BY <1>4, <2>3, <3>1 DEF DamageRow, Base, TypeOK
  <2> QED
    BY <2>1, <2>2, <2>3, RowSteps
<1>6. CandidatesSound'
  BY <1>1, <1>5, SoundRowIs DEF Base, TypeOK, CandidatesSound
<1> QED
  BY <1>1, <1>3, <1>6

LEMMA InitSound == Init => Sound /\ AnswerInv
<1> SUFFICES ASSUME Init PROVE Sound /\ AnswerInv
  OBVIOUS
<1>1. Base
  BY InitBase
<1>2. \A e \in Evaluator : ExactAt(e)
  BY ExactIdle DEF Init
<1>3. CandidatesSound
  BY DEF Init, CandidatesSound, Stored, Readable, Empty
<1>4. AnswerInv
  BY DEF Init, AnswerInv
<1> QED
  BY <1>1, <1>2, <1>3, <1>4, ExactIsAt DEF Sound

LEMMA SoundAlways == ASSUME EditsRace = FALSE PROVE Spec => [](Sound /\ AnswerInv)
<1>1. Init => Sound /\ AnswerInv
  BY InitSound
<1>2. Sound /\ AnswerInv /\ [Next]_vars => (Sound /\ AnswerInv)'
  BY NextSound
<1> QED
  BY <1>1, <1>2, PTL DEF Spec

(* As long as no file is edited while a call runs on its checkout, every   *)
(* stored candidate is a proof of its payload, for any evaluators sharing  *)
(* the database, any histories, dirty files, crashes, collections and      *)
(* damaged rows (eval-cache.cc; primops/tecnix.cc, lookup and finalize).   *)
THEOREM StoredCandidatesSound == ASSUME EditsRace = FALSE PROVE Spec => []CandidatesSound
<1>1. Sound => CandidatesSound
  BY DEF Sound
<1> QED
  BY <1>1, SoundAlways, PTL

(* Under the same hypothesis every answer, served or evaluated, is what    *)
(* evaluating the call's tree from nothing gives, fingerprints included,   *)
(* and exactly the failing targets of a keepGoing call are missing         *)
(* (primops/tecnix.cc).                                                    *)
THEOREM AnswersCorrect == ASSUME EditsRace = FALSE PROVE Spec => []ServedCorrect
<1>1. ASSUME Sound, AnswerInv, NEW e \in Evaluator, at[e] = "done"
      PROVE  /\ DOMAIN result[e] = {t \in call[e].targets : PayloadOf[t][View(e)] # Failure}
             /\ DOMAIN result[e] = call[e].targets \/ call[e].keepGoing
  BY <1>1 DEF AnswerInv
<1>2. ASSUME Sound, NEW e \in Evaluator, NEW t \in DOMAIN result[e]
      PROVE  /\ result[e][t].payload = PayloadOf[t][View(e)]
             /\ result[e][t].deps = [p \in DepsOf[t][View(e)] |-> Fingerprint(e, p)]
  <2>1. result[e][t] = Exact(e, t)
    BY <1>2 DEF Sound, ExactInv
  <2>2. /\ Exact(e, t).payload = PayloadOf[t][View(e)]
        /\ Exact(e, t).deps = [p \in DepsOf[t][View(e)] |-> Fingerprint(e, p)]
    BY DEF Exact
  <2> QED
    BY <2>1, <2>2
<1>3. Sound /\ AnswerInv => ServedCorrect
  BY <1>1, <1>2 DEF ServedCorrect
<1> QED
  BY <1>3, SoundAlways, PTL

--------------------------------------------------------------------------------
(***************************************************************************)
(* The bound on histories.  That two candidates of a target never have one *)
(* closure rests on soundness: equal closures prove equal payloads, and a  *)
(* candidate equal to the fresh one is displaced.                          *)
(***************************************************************************)
Distinct(h) == \A i, j \in 1..Len(h) : h[i].deps = h[j].deps => i = j

BoundedRow(row) ==
  /\ Fits(Stored(row))
  /\ \A t \in DOMAIN Stored(row) : Len(Stored(row)[t]) \in 1..Keep /\ Distinct(Stored(row)[t])

LEMMA BoundedRowIs ==
  ASSUME NEW row, IsRow(row)
  PROVE  BoundedRow(row) <=>
           /\ Fits(Stored(row))
           /\ \A t \in DOMAIN Stored(row) :
                /\ Len(row[t]) \in 1..Keep
                /\ \A i, j \in DOMAIN row[t] : row[t][i].deps = row[t][j].deps => i = j
<1> SUFFICES ASSUME NEW t \in DOMAIN Stored(row)
             PROVE  Stored(row) = row /\ DOMAIN row[t] = 1..Len(row[t])
  BY DEF BoundedRow, Distinct
<1>1. Stored(row) = row /\ Readable(row)
  BY DEF Stored, Empty
<1> QED
  BY <1>1 DEF IsRow

LEMMA EqualClosures ==
  ASSUME NEW t, NEW c \in Candidate, NEW d \in Candidate, c.deps = d.deps,
         Proves(t, c), Proves(t, d), NEW tree \in Tree, Agrees(c, tree)
  PROVE  c = d
<1>1. Agrees(d, tree)
  BY DEF Agrees
<1>2. c.payload = d.payload
  BY <1>1 DEF Proves
<1>3. c = [deps |-> c.deps, payload |-> c.payload] /\ d = [deps |-> d.deps, payload |-> d.payload]
  BY DEF Candidate
<1> QED
  BY <1>2, <1>3

LEMMA TrimDistinct ==
  ASSUME NEW h \in Seq(Candidate), Distinct(h) PROVE Distinct(Trim(h))
<1>1. /\ Len(Trim(h)) \in Nat /\ Len(Trim(h)) <= Len(h)
      /\ \A i \in 1..Len(Trim(h)) : Trim(h)[i] = h[i]
  BY TrimFacts
<1> QED
  BY <1>1 DEF Distinct

LEMMA LearnDistinct ==
  ASSUME NEW h \in Seq(Candidate), NEW c \in Candidate, Distinct(h),
         \A k \in 1..Len(h) : h[k].deps = c.deps => h[k] = c
  PROVE  Distinct(Learn(h, c))
<1> DEFINE l == Learn(h, c)
<1>1. l \in Seq(Candidate) /\ Len(l) \in 1..Keep /\ l[1] = c /\ Survivors(l, h, c)
  BY LearnFacts
<1> HIDE DEF l
<1>2. PICK g \in [2..Len(l) -> 1..Len(h)] :
             /\ \A j \in 2..Len(l) : l[j] = h[g[j]] /\ h[g[j]] # c
             /\ \A i, j \in 2..Len(l) : i < j => g[i] < g[j]
  BY <1>1 DEF Survivors
<1>3. \A j \in 2..Len(l) : g[j] \in 1..Len(h) /\ l[j] = h[g[j]] /\ l[j].deps # c.deps
  BY <1>2
<1>4. \A i, j \in 2..Len(l) : l[i].deps = l[j].deps => i = j
  <2> SUFFICES ASSUME NEW i \in 2..Len(l), NEW j \in 2..Len(l), l[i].deps = l[j].deps
               PROVE  i = j
    OBVIOUS
  <2>1. g[i] = g[j]
    <3>1. /\ g[i] \in 1..Len(h) /\ l[i] = h[g[i]]
          /\ g[j] \in 1..Len(h) /\ l[j] = h[g[j]]
      BY <1>3
    <3>2. h[g[i]].deps = h[g[j]].deps
      BY <3>1
    <3>3. \A a, b \in 1..Len(h) : h[a].deps = h[b].deps => a = b
      BY DEF Distinct
    <3> QED
      BY <3>1, <3>2, <3>3
  <2>2. ~(i < j) /\ ~(j < i)
    BY <1>2, <1>3, <2>1
  <2> QED
    BY <2>2
<1>5. \A i \in 1..Len(l) : i = 1 \/ i \in 2..Len(l)
  BY <1>1, KeepPositive
<1>6. Distinct(l)
  BY <1>1, <1>3, <1>4, <1>5 DEF Distinct
<1> QED
  BY <1>6 DEF l

LEMMA PlanDistinct ==
  ASSUME NEW row, Histories(row), NEW fresh, Learned(fresh), SoundFresh(fresh),
         \A t \in DOMAIN fresh : \E tree \in Tree : Agrees(fresh[t], tree),
         \A t \in DOMAIN row : Distinct(row[t]),
         \A t \in DOMAIN row : \A k \in 1..Len(row[t]) : Proves(t, row[t][k]),
         NEW t \in DOMAIN PlanShardRow(row, fresh)
  PROVE  Distinct(PlanShardRow(row, fresh)[t])
<1>1. t \in DOMAIN row \cup DOMAIN fresh
  BY PlanFacts
<1>2. CASE t \notin DOMAIN fresh
  <2>1. PlanShardRow(row, fresh)[t] = Trim(row[t]) /\ row[t] \in Seq(Candidate) /\ Distinct(row[t])
    BY <1>1, <1>2, PlanFacts DEF Histories
  <2> QED
    BY <2>1, TrimDistinct
<1>3. CASE t \in DOMAIN fresh
  <2> DEFINE h == IF t \in DOMAIN row THEN row[t] ELSE <<>>
             c == fresh[t]
  <2>1. PlanShardRow(row, fresh)[t] = Learn(h, c)
    BY <1>1, <1>3 DEF PlanShardRow
  <2>2. h \in Seq(Candidate) /\ c \in Candidate /\ Distinct(h) /\ Proves(t, c)
    BY <1>3 DEF Histories, Learned, Distinct, SoundFresh
  <2>3. \A k \in 1..Len(h) : Proves(t, h[k]) /\ h[k] \in Candidate
    BY <2>2
  <2>4. PICK tree \in Tree : Agrees(c, tree)
    BY <1>3
  <2> HIDE DEF h, c
  <2>5. \A k \in 1..Len(h) : h[k].deps = c.deps => h[k] = c
    BY <2>2, <2>3, <2>4, EqualClosures
  <2> QED
    BY <2>1, <2>2, <2>5, LearnDistinct
<1> QED
  BY <1>2, <1>3

LEMMA CommitBounded ==
  ASSUME Sound, NEW e \in Evaluator, CommitUpsert(e), BoundedRow(txn[e].row)
  PROVE  BoundedRow(Merged(e))
<1> DEFINE row == Stored(txn[e].row)
           fresh == Fresh(e, txn[e].shard)
<1>1. txn[e] # NoTxn /\ Fits(Merged(e))
  BY DEF CommitUpsert
<1>2. Histories(row) /\ Learned(fresh)
  BY <1>1, MergedIsRow DEF Sound
<1>3. txn[e].row = rows[txn[e].shard] /\ txn[e].shard \in Shard /\ ExactAt(e)
  BY <1>1, ExactIsAt DEF Sound, Base, LockInv
<1>4. SoundRow(txn[e].row)
  BY <1>3, SoundIsRow DEF Sound, Base
<1>5. SoundFresh(fresh)
  BY <1>1, <1>3, <1>4, MergedSound DEF Sound
<1>6. \A t \in DOMAIN fresh : \E tree \in Tree : Agrees(fresh[t], tree)
  <2> TAKE t \in DOMAIN fresh
  <2>1. fresh[t] = Exact(e, t) /\ t \in Target
    BY <1>1, <1>2, <1>3, FreshFacts DEF ExactAt, Sound, Base, Learned
  <2> QED
    BY <2>1, ExactProves, FingerprintFacts DEF Sound, Base
<1>7. /\ \A t \in DOMAIN row : Distinct(row[t])
      /\ \A t \in DOMAIN row : \A k \in 1..Len(row[t]) : Proves(t, row[t][k])
  BY <1>4 DEF BoundedRow, SoundRow
<1> HIDE DEF row, fresh
<1>8. \A r \in {row, Empty} : \A t \in DOMAIN PlanShardRow(r, fresh) :
        Len(PlanShardRow(r, fresh)[t]) \in 1..Keep /\ Distinct(PlanShardRow(r, fresh)[t])
  <2> SUFFICES ASSUME NEW r \in {row, Empty}, NEW t \in DOMAIN PlanShardRow(r, fresh)
               PROVE  Len(PlanShardRow(r, fresh)[t]) \in 1..Keep /\ Distinct(PlanShardRow(r, fresh)[t])
    OBVIOUS
  <2>1. /\ Histories(r) /\ \A u \in DOMAIN r : Distinct(r[u])
        /\ \A u \in DOMAIN r : \A k \in 1..Len(r[u]) : Proves(u, r[u][k])
    <3>1. CASE r = row
      BY <1>2, <1>7, <3>1
    <3>2. CASE r = Empty
      BY <3>2, EmptyHistories DEF Empty
    <3> QED
      BY <3>1, <3>2
  <2>2. Len(PlanShardRow(r, fresh)[t]) \in 1..Keep
    BY <1>2, <2>1, PlanFacts
  <2>3. Distinct(PlanShardRow(r, fresh)[t])
    BY <1>2, <1>5, <1>6, <2>1, PlanDistinct
  <2> QED
    BY <2>2, <2>3
<1>9. Merged(e) \in {PlanShardRow(row, fresh), PlanShardRow(Empty, fresh)}
  BY MergedFacts DEF Merged, row, fresh
<1>10. \A t \in DOMAIN Merged(e) : Len(Merged(e)[t]) \in 1..Keep /\ Distinct(Merged(e)[t])
  BY <1>8, <1>9
<1>11. Fits(Empty)
  BY FS_EmptySet, EmptyHistories, CacheAssumption DEF Fits
<1>12. Stored(Merged(e)) \in {Merged(e), Empty}
  BY DEF Stored
<1> QED
  BY <1>1, <1>10, <1>11, <1>12, EmptyHistories DEF BoundedRow

LEMMA NextBounded ==
  ASSUME Sound, HistoryBounded, [Next]_vars, Base' PROVE HistoryBounded'
<1>1. \A s \in Shard : BoundedRow(rows[s])
  BY BoundedRowIs DEF Sound, Base, TypeOK, HistoryBounded
<1>2. \A s \in Shard : BoundedRow(rows'[s])
  <2>1. CASE UNCHANGED rows
    BY <1>1, <2>1
  <2>2. ASSUME NEW e \in Evaluator, CommitUpsert(e) PROVE \A s \in Shard : BoundedRow(rows'[s])
    <3>1. txn[e] # NoTxn /\ rows' = [rows EXCEPT ![txn[e].shard] = Merged(e)]
      BY <2>2 DEF CommitUpsert
    <3>2. txn[e].shard \in Shard /\ BoundedRow(txn[e].row)
      BY <1>1, <3>1 DEF Sound, Base, LockInv
    <3>3. BoundedRow(Merged(e))
      BY <2>2, <3>2, CommitBounded
    <3> QED
      BY <1>1, <3>1, <3>2, <3>3 DEF Sound, Base, TypeOK
  <2>3. ASSUME NEW s \in Shard, DamageRow(s) PROVE \A r \in Shard : BoundedRow(rows'[r])
    <3>1. Fits(Empty) /\ Stored(Unreadable) = Empty
      BY FS_EmptySet, EmptyHistories, CacheAssumption DEF Fits, Stored, Readable
    <3>2. BoundedRow(Unreadable)
      BY <3>1, EmptyHistories DEF BoundedRow
    <3> QED
      BY <1>1, <2>3, <3>2 DEF DamageRow, Sound, Base, TypeOK
  <2> QED
    BY <2>1, <2>2, <2>3, RowSteps
<1> QED
  BY <1>2, BoundedRowIs DEF Base, TypeOK, HistoryBounded

(* Under the same hypothesis a row never outgrows its limits, and a        *)
(* target's history never holds two candidates with one closure            *)
(* (eval-cache.cc, planShardRow and mergedShardRow).                       *)
THEOREM HistoriesBounded == ASSUME EditsRace = FALSE PROVE Spec => []HistoryBounded
<1>1. Init => HistoryBounded
  <2>1. Fits(Empty)
    BY FS_EmptySet, EmptyHistories, CacheAssumption DEF Fits
  <2> QED
    BY <2>1, EmptyHistories DEF Init, HistoryBounded, Stored, Readable
<1>2. Sound /\ HistoryBounded /\ [Next]_vars /\ Sound' => HistoryBounded'
  BY NextBounded DEF Sound
<1>3. Sound /\ AnswerInv => Sound
  OBVIOUS
<1> QED
  BY <1>1, <1>2, <1>3, SoundAlways, PTL DEF Spec
================================================================================
