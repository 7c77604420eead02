---------------------------- MODULE StageB_proofs ----------------------------
(***************************************************************************)
(* TypeOK and NoneOverstays for any finite set of symbols, any number of   *)
(* places and any retention.  The filters and the sort of update are all   *)
(* arrangements of positions: first what an arrangement holds, then what   *)
(* each step does to the pool.                                             *)
(***************************************************************************)
EXTENDS StageB, FiniteSetTheorems, TLAPS

Item == [symbol: Symbol, left: 0..Retention, rank: 1..Cardinality(Symbol)]

\* No two places of the pool hold one symbol.
Distinct(pool) ==
  \A j, k \in DOMAIN pool : pool[j].symbol = pool[k].symbol => j = k

\* What is left of a symbol's time and how long it was not selected are together
\* within the retention.
Owed(pool, since) ==
  \A k \in DOMAIN pool : pool[k].left + since[pool[k].symbol] <= Retention

\* The inductive invariant.
IInv ==
  /\ active \in Seq(Item) /\ Distinct(active) /\ Len(active) <= MaxCandidates
  /\ eligible \in Ranking
  /\ idle \in [Symbol -> 0..Retention]
  /\ changes \in 0..MaxChange
  /\ Owed(active, idle)

\* order relates any two positions of S one way.
Orders(order, S) ==
  /\ \A i \in S : <<i, i>> \in order
  /\ \A i, j \in S : <<i, j>> \in order \/ <<j, i>> \in order
  /\ \A i, j \in S : <<i, j>> \in order /\ <<j, i>> \in order => i = j
  /\ \A i, j, k \in S : <<i, j>> \in order /\ <<j, k>> \in order => <<i, k>> \in order

\* The positions up to i.
UpTo(i, S, order) == {j \in S : <<j, i>> \in order}

-----------------------------------------------------------------------------
(* Arrangements.                                                           *)

\* The number of positions up to i tells the positions apart.
LEMMA UpToGrows ==
  ASSUME NEW S, IsFiniteSet(S), NEW order, Orders(order, S), NEW i \in S, NEW k \in S
  PROVE  /\ Cardinality(UpTo(i, S, order)) \in 1..Cardinality(S)
         /\ Cardinality(UpTo(i, S, order)) <= Cardinality(UpTo(k, S, order))
              <=> <<i, k>> \in order
<1>1. ASSUME NEW a \in S
      PROVE  /\ IsFiniteSet(UpTo(a, S, order))
             /\ Cardinality(UpTo(a, S, order)) \in 1..Cardinality(S)
  <2>1. UpTo(a, S, order) \in SUBSET S /\ a \in UpTo(a, S, order)
    BY <1>1 DEF UpTo, Orders
  <2>2. /\ IsFiniteSet(UpTo(a, S, order))
        /\ Cardinality(UpTo(a, S, order)) <= Cardinality(S)
    BY <2>1, FS_Subset
  <2>3. Cardinality(UpTo(a, S, order)) # 0
    BY <2>1, <2>2, FS_EmptySet
  <2>4. Cardinality(UpTo(a, S, order)) \in Nat /\ Cardinality(S) \in Nat
    BY <2>2, FS_CardinalityType
  <2> QED BY <2>2, <2>3, <2>4
<1>2. ASSUME NEW a \in S, NEW b \in S, <<a, b>> \in order
      PROVE  /\ Cardinality(UpTo(a, S, order)) <= Cardinality(UpTo(b, S, order))
             /\ Cardinality(UpTo(a, S, order)) = Cardinality(UpTo(b, S, order)) => a = b
  <2>1. UpTo(a, S, order) \in SUBSET UpTo(b, S, order)
    BY <1>2 DEF UpTo, Orders
  <2>2. ASSUME UpTo(b, S, order) = UpTo(a, S, order) PROVE a = b
    BY <1>2, <2>2 DEF UpTo, Orders
  <2> QED BY <1>1, <2>1, <2>2, FS_Subset
<1>3. <<i, k>> \in order \/ <<k, i>> \in order
  BY DEF Orders
<1>4. <<i, i>> \in order
  BY DEF Orders
<1>5. /\ Cardinality(UpTo(i, S, order)) \in Int
      /\ Cardinality(UpTo(k, S, order)) \in Int
  BY <1>1
<1> QED BY <1>1, <1>2, <1>3, <1>4, <1>5

\* There is a listing of the positions in their order, and it lists none twice:
\* counting the positions up to each one lists them.
LEMMA Listing ==
  ASSUME NEW S, IsFiniteSet(S), NEW order, Orders(order, S)
  PROVE  /\ Cardinality(S) \in Nat
         /\ \E p \in [1..Cardinality(S) -> S] :
              \A m, n \in 1..Cardinality(S) : m < n => <<p[n], p[m]>> \notin order
<1> DEFINE place == 1..Cardinality(S)
           count == [i \in S |-> Cardinality(UpTo(i, S, order))]
<1>1. Cardinality(S) \in Nat
  BY FS_CardinalityType
<1>2. count \in Injection(S, place)
  <2>1. count \in [S -> place]
    BY UpToGrows
  <2>2. ASSUME NEW i \in S, NEW k \in S, count[i] = count[k] PROVE i = k
    <3>1. <<i, k>> \in order /\ <<k, i>> \in order
      BY <2>2, UpToGrows, <1>1
    <3> QED BY <3>1 DEF Orders
  <2> QED BY <2>1, <2>2 DEF Injection, IsInjective
<1>3. IsFiniteSet(place) /\ Cardinality(place) = Cardinality(S)
  BY <1>1, FS_Interval
<1>4. count \in Surjection(S, place)
  BY <1>2, <1>3, FS_Injection
<1> DEFINE p == [n \in place |-> CHOOSE i \in S : count[i] = n]
<1>5. ASSUME NEW n \in place PROVE p[n] \in S /\ count[p[n]] = n
  <2>1. \E i \in S : count[i] = n
    BY <1>4 DEF Surjection
  <2> QED BY <2>1
<1>6. p \in [place -> S]
  BY <1>5
<1>7. ASSUME NEW m \in place, NEW n \in place, m < n, <<p[n], p[m]>> \in order
      PROVE  FALSE
  <2>1. p[m] \in S /\ p[n] \in S /\ count[p[m]] = m /\ count[p[n]] = n
    BY <1>5
  <2>2. count[p[n]] <= count[p[m]]
    BY <1>7, <2>1, UpToGrows
  <2> QED BY <1>1, <1>7, <2>1, <2>2
<1> HIDE DEF p
<1> QED BY <1>1, <1>6, <1>7

\* What an arrangement holds: one element for each position, of different
\* positions in different places.
LEMMA ArrangedHolds ==
  ASSUME NEW T, NEW q \in Seq(T), NEW S \in SUBSET (DOMAIN q), NEW order, Orders(order, S)
  PROVE  /\ IsFiniteSet(S) /\ Cardinality(S) \in 0..Len(q)
         /\ Arranged(q, S, order) \in Seq(T)
         /\ Len(Arranged(q, S, order)) = Cardinality(S)
         /\ \E p \in [1..Cardinality(S) -> S] :
              /\ \A m, n \in 1..Cardinality(S) : p[m] = p[n] => m = n
              /\ \A n \in 1..Cardinality(S) : Arranged(q, S, order)[n] = q[p[n]]
<1>1. DOMAIN q = 1..Len(q) /\ Len(q) \in Nat
  OBVIOUS
<1>2. IsFiniteSet(DOMAIN q) /\ Cardinality(DOMAIN q) = Len(q)
  <2>1. \A n \in Nat : IsFiniteSet(1..n) /\ Cardinality(1..n) = n
    BY FS_Interval
  <2> QED BY <1>1, <2>1
<1>3. IsFiniteSet(S) /\ Cardinality(S) \in 0..Len(q)
  <2>1. IsFiniteSet(S) /\ Cardinality(S) <= Len(q)
    BY <1>2, FS_Subset
  <2> QED BY <1>1, <2>1, FS_CardinalityType
<1> DEFINE place == 1..Cardinality(S)
           listed(p) == \A m, n \in place : m < n => <<p[n], p[m]>> \notin order
           at == CHOOSE p \in [place -> S] : listed(p)
<1>4. at \in [place -> S] /\ listed(at)
  <2>1. \E p \in [place -> S] : listed(p)
    BY <1>3, Listing
  <2> QED BY <2>1
<1>5. Arranged(q, S, order) = [n \in place |-> q[at[n]]]
  BY DEF Arranged
<1> HIDE DEF at
<1>6. \A m, n \in place : at[m] = at[n] => m = n
  <2> SUFFICES ASSUME NEW m \in place, NEW n \in place, at[m] = at[n], m # n PROVE FALSE
    OBVIOUS
  <2>1. <<at[n], at[n]>> \in order
    BY <1>4 DEF Orders
  <2>2. m < n \/ n < m
    BY <1>3
  <2> QED BY <1>4, <2>1, <2>2
<1>7. \A n \in place : q[at[n]] \in T
  BY <1>4
<1>8. /\ Arranged(q, S, order) \in Seq(T)
      /\ Len(Arranged(q, S, order)) = Cardinality(S)
  BY <1>3, <1>5, <1>7
<1> QED BY <1>3, <1>4, <1>5, <1>6, <1>8

-----------------------------------------------------------------------------
(* One update.                                                             *)

\* Positions are ordered as they are stored.
LEMMA StoredOrders ==
  ASSUME NEW S \in SUBSET Nat
  PROVE  Orders(AsStored, S)
<1>1. \A i, j \in S : <<i, j>> \in AsStored <=> i <= j
  BY DEF AsStored
<1>2. \A i \in S : i \in Nat
  OBVIOUS
<1> QED BY <1>1, <1>2 DEF Orders

\* A selected symbol has a rank.
LEMMA RankOf ==
  ASSUME eligible \in Ranking, NEW s \in ToSet(eligible)
  PROVE  /\ Rank(s) \in DOMAIN eligible /\ eligible[Rank(s)] = s
         /\ Rank(s) \in 1..Cardinality(Symbol)
<1>1. \E k \in DOMAIN eligible : eligible[k] = s
  BY DEF ToSet
<1>2. Rank(s) \in DOMAIN eligible /\ eligible[Rank(s)] = s
  BY <1>1 DEF Rank
<1>3. PICK n \in 0..Cardinality(Symbol) : eligible \in [1..n -> Symbol]
  BY DEF Ranking, SeqOf
<1>4. Cardinality(Symbol) \in Nat
  BY PoolAssumption, FS_CardinalityType
<1> QED BY <1>2, <1>3, <1>4

\* The selection is a sequence of different symbols.
LEMMA Selection ==
  ASSUME eligible \in Ranking
  PROVE  /\ eligible \in Seq(Symbol)
         /\ \A j, k \in DOMAIN eligible : eligible[j] = eligible[k] => j = k
<1>1. PICK n \in 0..Cardinality(Symbol) : eligible \in [1..n -> Symbol]
  BY DEF Ranking, SeqOf
<1>2. Cardinality(Symbol) \in Nat
  BY PoolAssumption, FS_CardinalityType
<1>3. n \in Nat
  BY <1>2
<1>4. eligible \in Seq(Symbol)
  BY <1>1, <1>3
<1> QED BY <1>4 DEF Ranking, IsInjective

\* Two pools that share no symbol make one that holds each symbol once.
LEMMA Appending ==
  ASSUME NEW T, NEW a \in Seq(T), NEW b \in Seq(T),
         \A m, n \in DOMAIN a : a[m].symbol = a[n].symbol => m = n,
         \A m, n \in DOMAIN b : b[m].symbol = b[n].symbol => m = n,
         \A m \in DOMAIN a, n \in DOMAIN b : a[m].symbol # b[n].symbol
  PROVE  Distinct(a \o b)
<1>1. \A k \in DOMAIN (a \o b) :
        \/ k \in DOMAIN a /\ (a \o b)[k] = a[k]
        \/ k - Len(a) \in DOMAIN b /\ (a \o b)[k] = b[k - Len(a)]
  OBVIOUS
<1> SUFFICES ASSUME NEW j \in DOMAIN (a \o b), NEW k \in DOMAIN (a \o b),
                    (a \o b)[j].symbol = (a \o b)[k].symbol
             PROVE  j = k
  BY DEF Distinct
<1>2. j \in Nat /\ k \in Nat /\ Len(a) \in Nat
  OBVIOUS
<1>3. CASE j \in DOMAIN a /\ (a \o b)[j] = a[j]
  BY <1>1, <1>2, <1>3
<1>4. CASE j - Len(a) \in DOMAIN b /\ (a \o b)[j] = b[j - Len(a)]
  <2>1. k - Len(a) \in DOMAIN b /\ (a \o b)[k] = b[k - Len(a)]
    BY <1>1, <1>4
  <2>2. j - Len(a) = k - Len(a)
    BY <1>4, <2>1
  <2> QED BY <1>2, <2>2
<1> QED BY <1>1, <1>3, <1>4

\* A symbol that is selected again is as good as a new one.
LEMMA RefreshedIsNew ==
  ASSUME NEW x \in Item, Rank(x.symbol) \in Nat
  PROVE  Refreshed(x) = Candidate(x.symbol)
<1>1. ASSUME NEW t \in Nat, NEW n \in Nat
      PROVE  [x EXCEPT !.left = t, !.rank = n] = [symbol |-> x.symbol, left |-> t, rank |-> n]
  <2> DEFINE R == [symbol: Symbol, left: Nat, rank: Nat]
             y == [x EXCEPT !.left = t, !.rank = n]
             z == [symbol |-> x.symbol, left |-> t, rank |-> n]
  <2>1. x \in R
    BY PoolAssumption DEF Item
  <2>2. y \in R /\ y.symbol = x.symbol /\ y.left = t /\ y.rank = n
    BY <2>1
  <2>3. z \in R /\ z.symbol = x.symbol /\ z.left = t /\ z.rank = n
    BY <2>1
  <2>4. \A a, b \in R : a.symbol = b.symbol /\ a.left = b.left /\ a.rank = b.rank => a = b
    OBVIOUS
  <2> HIDE DEF R, y, z
  <2> QED BY <2>2, <2>3, <2>4 DEF y, z
<1> QED BY <1>1, PoolAssumption DEF Refreshed, Candidate

\* The times since the last selection after an update.
Since == [s \in Symbol |-> IF s \in ToSet(eligible) THEN 0 ELSE idle[s]]

\* What update may put in the pool: an entry with time left, no older than that.
Kept == {x \in Item : x.left > 0 /\ x.left + Since[x.symbol] <= Retention}

\* The promoted pool holds each symbol once, and only entries that may stay.
LEMMA PromotedHolds ==
  ASSUME IInv
  PROVE  Promoted \in Seq(Kept) /\ Distinct(Promoted)
<1> DEFINE seen == [k \in DOMAIN active |->
                      IF active[k].symbol \in ToSet(eligible)
                      THEN Refreshed(active[k]) ELSE active[k]]
           ranked == [k \in DOMAIN eligible |-> Candidate(eligible[k])]
           new == {k \in DOMAIN eligible :
                     \A j \in Unexpired : active[j].symbol # eligible[k]}
           stays == Arranged(seen, Unexpired, AsStored)
           joins == Arranged(ranked, new, AsStored)
<1>1. Promoted = stays \o joins
  BY DEF Promoted
<1>2. active \in Seq(Item) /\ DOMAIN active = 1..Len(active) /\ Len(active) \in Nat
  BY DEF IInv
<1>3. /\ eligible \in Seq(Symbol) /\ DOMAIN eligible = 1..Len(eligible)
      /\ Len(eligible) \in Nat
      /\ \A j, k \in DOMAIN eligible : eligible[j] = eligible[k] => j = k
  BY Selection DEF IInv
<1>4. Retention \in Nat /\ Retention > 0
  BY PoolAssumption
<1>5. Since \in [Symbol -> 0..Retention]
  BY <1>4 DEF IInv, Since
<1>6. ASSUME NEW s \in ToSet(eligible)
      PROVE  s \in Symbol /\ Candidate(s) \in Kept /\ Candidate(s).symbol = s
  <2>1. s \in Symbol
    BY <1>3, <1>6 DEF ToSet
  <2>2. Since[s] = 0
    BY <1>6, <2>1 DEF Since
  <2>3. Rank(s) \in 1..Cardinality(Symbol)
    BY <1>6, RankOf DEF IInv
  <2> QED BY <1>4, <2>1, <2>2, <2>3 DEF Candidate, Item, Kept
<1>7. ASSUME NEW k \in DOMAIN active
      PROVE  /\ seen[k] \in Item /\ seen[k].symbol = active[k].symbol
             /\ k \in Unexpired => seen[k] \in Kept
  <2>1. active[k] \in Item
    BY <1>2
  <2>2. active[k].left + idle[active[k].symbol] <= Retention
    BY DEF IInv, Owed
  <2>3. CASE active[k].symbol \in ToSet(eligible)
    <3>1. seen[k] = Refreshed(active[k])
      BY <2>3
    <3>2. Refreshed(active[k]) = Candidate(active[k].symbol)
      BY <2>1, <2>3, RankOf, RefreshedIsNew DEF IInv
    <3> QED BY <1>6, <2>3, <3>1, <3>2 DEF Kept
  <2>4. CASE active[k].symbol \notin ToSet(eligible)
    <3>1. seen[k] = active[k] /\ Since[active[k].symbol] = idle[active[k].symbol]
      BY <2>1, <2>4 DEF Since, Item
    <3> QED BY <2>1, <2>2, <3>1 DEF Kept, Unexpired
  <2> QED BY <2>3, <2>4
<1>8. seen \in Seq(Item)
  BY <1>2, <1>7
<1>9. ranked \in Seq(Kept) /\ DOMAIN ranked = DOMAIN eligible
  <2>1. \A k \in DOMAIN eligible : Candidate(eligible[k]) \in Kept
    BY <1>6 DEF ToSet
  <2> QED BY <1>3, <2>1
<1>10. Unexpired \in SUBSET (DOMAIN seen) /\ Orders(AsStored, Unexpired)
  <2>1. Unexpired \in SUBSET (DOMAIN active)
    BY DEF Unexpired
  <2> QED BY <1>2, <2>1, StoredOrders
<1>11. new \in SUBSET (DOMAIN ranked) /\ Orders(AsStored, new)
  BY <1>3, <1>9, StoredOrders
<1> HIDE DEF seen, ranked, new
<1>12. PICK p \in [1..Cardinality(Unexpired) -> Unexpired] :
         /\ \A m, n \in 1..Cardinality(Unexpired) : p[m] = p[n] => m = n
         /\ \A n \in 1..Cardinality(Unexpired) : stays[n] = seen[p[n]]
  BY <1>8, <1>10, ArrangedHolds
<1>13. /\ stays \in Seq(Item) /\ Len(stays) = Cardinality(Unexpired)
       /\ Cardinality(Unexpired) \in Nat
  BY <1>8, <1>10, ArrangedHolds
<1>14. PICK r \in [1..Cardinality(new) -> new] :
         /\ \A m, n \in 1..Cardinality(new) : r[m] = r[n] => m = n
         /\ \A n \in 1..Cardinality(new) : joins[n] = ranked[r[n]]
  BY <1>9, <1>11, ArrangedHolds
<1>15. /\ joins \in Seq(Kept) /\ Len(joins) = Cardinality(new)
       /\ Cardinality(new) \in Nat
  BY <1>9, <1>11, ArrangedHolds
<1> HIDE DEF stays, joins
<1>16. ASSUME NEW n \in DOMAIN stays
       PROVE  /\ p[n] \in Unexpired /\ p[n] \in DOMAIN active /\ stays[n] \in Kept
              /\ stays[n].symbol = active[p[n]].symbol
  <2>1. n \in 1..Cardinality(Unexpired)
    BY <1>13
  <2>2. p[n] \in Unexpired /\ p[n] \in DOMAIN active
    BY <1>12, <2>1 DEF Unexpired
  <2> QED BY <1>7, <1>12, <2>1, <2>2
<1>17. ASSUME NEW n \in DOMAIN joins
       PROVE  r[n] \in new /\ r[n] \in DOMAIN eligible /\ joins[n].symbol = eligible[r[n]]
  <2>1. n \in 1..Cardinality(new)
    BY <1>15
  <2>2. r[n] \in new /\ r[n] \in DOMAIN eligible
    BY <1>14, <2>1 DEF new
  <2>3. joins[n] = Candidate(eligible[r[n]])
    BY <1>14, <2>1, <2>2 DEF ranked
  <2> QED BY <2>2, <2>3 DEF Candidate
<1>18. stays \in Seq(Kept)
  BY <1>13, <1>16
<1>19. ASSUME NEW m \in DOMAIN stays, NEW n \in DOMAIN stays,
              stays[m].symbol = stays[n].symbol
       PROVE  m = n
  <2>1. p[m] = p[n]
    BY <1>16, <1>19 DEF IInv, Distinct
  <2> QED BY <1>12, <1>13, <2>1
<1>20. ASSUME NEW m \in DOMAIN joins, NEW n \in DOMAIN joins,
              joins[m].symbol = joins[n].symbol
       PROVE  m = n
  <2>1. r[m] = r[n]
    BY <1>3, <1>17, <1>20
  <2> QED BY <1>14, <1>15, <2>1
<1>21. ASSUME NEW m \in DOMAIN stays, NEW n \in DOMAIN joins
       PROVE  stays[m].symbol # joins[n].symbol
  BY <1>16, <1>17 DEF new
<1>22. Promoted \in Seq(Kept)
  BY <1>1, <1>15, <1>18
<1>23. Distinct(Promoted)
  BY ONLY <1>1, <1>15, <1>18, <1>19, <1>20, <1>21, Appending
<1> QED BY <1>22, <1>23

\* What the cap leaves is within the places there are, and was promoted: a cut
\* pool holds some of its entries, each once.
LEMMA CappedHolds ==
  ASSUME NEW T, NEW pool \in Seq(T), Distinct(pool),
         \A k \in DOMAIN pool : pool[k].rank \in Nat
  PROVE  /\ Capped(pool) \in Seq(T) /\ Distinct(Capped(pool))
         /\ Len(Capped(pool)) <= MaxCandidates
<1> DEFINE S == DOMAIN pool
           order == {o \in (DOMAIN pool) \X (DOMAIN pool) :
                       \/ pool[o[1]].rank < pool[o[2]].rank
                       \/ pool[o[1]].rank = pool[o[2]].rank /\ o[1] <= o[2]}
           cut == SubSeq(ByRank(pool), 1, MaxCandidates)
<1>1. MaxCandidates \in Nat /\ Len(pool) \in Nat /\ S = 1..Len(pool)
  BY PoolAssumption
<1>2. CASE Len(pool) <= MaxCandidates
  BY <1>2 DEF Capped
<1>3. CASE ~(Len(pool) <= MaxCandidates)
  <2>1. Orders(order, S)
    <3>1. \A i, j \in S : <<i, j>> \in order <=>
            \/ pool[i].rank < pool[j].rank
            \/ pool[i].rank = pool[j].rank /\ i <= j
      OBVIOUS
    <3>2. \A i \in S : i \in Nat /\ pool[i].rank \in Nat
      BY <1>1
    <3> HIDE DEF order, S
    <3> QED BY <3>1, <3>2 DEF Orders
  <2>2. ByRank(pool) = Arranged(pool, S, order)
    BY DEF ByRank
  <2>3. S \in SUBSET (DOMAIN pool)
    OBVIOUS
  <2>4. Cardinality(S) = Len(pool)
    <3>1. \A n \in Nat : Cardinality(1..n) = n
      BY FS_Interval
    <3> QED BY <1>1, <3>1
  <2> HIDE DEF order
  <2>5. PICK p \in [1..Cardinality(S) -> S] :
          /\ \A m, n \in 1..Cardinality(S) : p[m] = p[n] => m = n
          /\ \A n \in 1..Cardinality(S) : Arranged(pool, S, order)[n] = pool[p[n]]
    BY <2>1, <2>3, ArrangedHolds
  <2>6. /\ Arranged(pool, S, order) \in Seq(T)
        /\ Len(Arranged(pool, S, order)) = Cardinality(S)
    BY <2>1, <2>3, ArrangedHolds
  <2>7. ByRank(pool) \in Seq(T) /\ Len(ByRank(pool)) = Len(pool)
    BY <2>2, <2>4, <2>6
  <2>8. ASSUME NEW n \in 1..Len(pool)
        PROVE  p[n] \in DOMAIN pool /\ ByRank(pool)[n] = pool[p[n]]
    BY <2>2, <2>4, <2>5, <2>8
  <2>9. /\ cut \in Seq(T) /\ Len(cut) = MaxCandidates
        /\ \A n \in DOMAIN cut : n \in 1..Len(pool) /\ cut[n] = ByRank(pool)[n]
    BY <1>1, <1>3, <2>7
  <2>10. Distinct(cut)
    <3> SUFFICES ASSUME NEW m \in DOMAIN cut, NEW n \in DOMAIN cut,
                        cut[m].symbol = cut[n].symbol
                 PROVE  m = n
      BY DEF Distinct
    <3>1. m \in 1..Len(pool) /\ n \in 1..Len(pool)
      BY <2>9
    <3>2. cut[m] = pool[p[m]] /\ cut[n] = pool[p[n]]
      BY <2>8, <2>9, <3>1
    <3>3. p[m] = p[n]
      BY <2>8, <3>1, <3>2 DEF Distinct
    <3> QED BY <2>4, <2>5, <3>1, <3>3
  <2>11. Capped(pool) = cut
    BY <1>3 DEF Capped
  <2> QED BY <1>1, <2>9, <2>10, <2>11
<1> QED BY <1>2, <1>3

\* After an update the pool keeps the invariant, and whoever is in it was
\* selected within the retention.
LEMMA UpdateKeeps ==
  ASSUME IInv, Update
  PROVE  IInv' /\ \A k \in DOMAIN active' : idle'[active'[k].symbol] < Retention
<1>1. active' = Capped(Promoted) /\ idle' = Since
  BY DEF Update, Since
<1>2. Promoted \in Seq(Kept) /\ Distinct(Promoted)
  BY PromotedHolds
<1>3. \A x \in Kept : x.rank \in Nat
  BY DEF Kept, Item
<1>4. /\ active' \in Seq(Kept) /\ Distinct(active') /\ Len(active') <= MaxCandidates
  BY <1>1, <1>2, <1>3, CappedHolds
<1>5. Retention \in Nat
  BY PoolAssumption
<1>6. idle' \in [Symbol -> 0..Retention]
  BY <1>1, <1>5 DEF IInv, Since
<1>7. \A x \in Kept : /\ x \in Item
                      /\ x.left + idle'[x.symbol] <= Retention
                      /\ idle'[x.symbol] < Retention
  <2> SUFFICES ASSUME NEW x \in Kept
               PROVE  /\ x \in Item
                      /\ x.left + idle'[x.symbol] <= Retention
                      /\ idle'[x.symbol] < Retention
    OBVIOUS
  <2>1. x \in Item /\ x.left > 0 /\ x.left + idle'[x.symbol] <= Retention
    BY <1>1 DEF Kept
  <2>2. x.left \in Nat /\ idle'[x.symbol] \in Nat
    BY <1>5, <1>6, <2>1 DEF Item
  <2> QED BY <1>5, <2>1, <2>2
<1>8. \A k \in DOMAIN active' : active'[k] \in Kept
  BY <1>4
<1>9. active' \in Seq(Item) /\ Owed(active', idle')
  BY <1>4, <1>7, <1>8 DEF Owed
<1>10. eligible' = eligible /\ changes' = changes
  BY DEF Update
<1> QED BY <1>4, <1>6, <1>7, <1>8, <1>9, <1>10 DEF IInv, Ranking, Distinct, Owed

-----------------------------------------------------------------------------
(* The theorems.                                                           *)

\* The pool starts empty.
LEMMA InitHolds == Init => IInv
<1> SUFFICES ASSUME Init PROVE IInv
  OBVIOUS
<1>1. Retention \in Nat /\ MaxCandidates \in Nat /\ MaxChange \in Nat
  BY PoolAssumption, BoundAssumption
<1>2. <<>> \in Ranking
  <2>1. Cardinality(Symbol) \in Nat
    BY PoolAssumption, FS_CardinalityType
  <2>2. <<>> \in [1..0 -> Symbol] /\ 0 \in 0..Cardinality(Symbol)
    BY <2>1
  <2> QED BY <2>2 DEF Ranking, SeqOf, IsInjective
<1> QED BY <1>1, <1>2 DEF Init, IInv, Distinct, Owed

\* What time takes from an entry it adds to the time since its selection.
LEMMA TickKeeps ==
  ASSUME IInv, Tick
  PROVE  IInv'
<1>1. Retention \in Nat
  BY PoolAssumption
<1>2. ASSUME NEW k \in DOMAIN active
      PROVE  /\ active'[k] \in Item /\ active'[k].symbol = active[k].symbol
             /\ active'[k].left + idle'[active[k].symbol] <= Retention
  <2> DEFINE x == active[k]
             t == IF x.left > 0 THEN x.left - 1 ELSE 0
  <2>1. x \in Item /\ x.left + idle[x.symbol] <= Retention
    BY DEF IInv, Owed
  <2>2. active'[k] = [x EXCEPT !.left = t]
    BY DEF Tick
  <2>3. x.symbol \in Symbol /\ x.left \in 0..Retention /\ idle[x.symbol] \in 0..Retention
    BY <2>1 DEF IInv, Item
  <2>4. t \in 0..Retention
    BY <1>1, <2>3
  <2>5. idle'[x.symbol] = IF idle[x.symbol] < Retention THEN idle[x.symbol] + 1
                                                         ELSE Retention
    BY <2>3 DEF Tick
  <2>6. t + idle'[x.symbol] <= Retention
    BY <1>1, <2>1, <2>3, <2>5
  <2> HIDE DEF t, x
  <2>7. active'[k] \in Item /\ active'[k].symbol = x.symbol /\ active'[k].left = t
    BY <2>1, <2>2, <2>4 DEF Item
  <2> QED BY <2>6, <2>7 DEF x
<1>3. active \in Seq(Item) /\ DOMAIN active = 1..Len(active) /\ Len(active) \in Nat
  BY DEF IInv
<1>4. DOMAIN active' = DOMAIN active
  BY DEF Tick
<1>5. active' \in Seq(Item) /\ Len(active') = Len(active)
  <2>1. active' = [k \in 1..Len(active) |-> active'[k]]
    BY <1>3 DEF Tick
  <2> QED BY <1>2, <1>3, <2>1
<1>6. idle' \in [Symbol -> 0..Retention]
  BY <1>1 DEF IInv, Tick
<1>7. eligible' = eligible /\ changes' = changes
  BY DEF Tick
<1>8. Distinct(active') /\ Owed(active', idle')
  BY <1>2, <1>4 DEF IInv, Distinct, Owed
<1> QED BY <1>5, <1>6, <1>7, <1>8 DEF IInv, Ranking, Distinct, Owed

\* Every step keeps the invariant.
LEMMA NextKeeps == IInv /\ [Next]_vars => IInv'
<1> SUFFICES ASSUME IInv, [Next]_vars PROVE IInv'
  OBVIOUS
<1>1. CASE Update
  BY <1>1, UpdateKeeps
<1>2. CASE Tick
  BY <1>2, TickKeeps
<1>3. ASSUME NEW ranking \in Ranking, Select(ranking) PROVE IInv'
  <2>1. changes' \in 0..MaxChange
    BY <1>3, BoundAssumption DEF Select, IInv
  <2> QED BY <1>3, <2>1 DEF Select, IInv, Ranking, Distinct, Owed
<1>4. CASE UNCHANGED vars
  BY <1>4 DEF vars, IInv, Ranking, Distinct, Owed
<1> QED BY <1>1, <1>2, <1>3, <1>4 DEF Next

\* The invariant, whatever Stage A selects and however time passes.
THEOREM PoolInvariance == Spec => []IInv
<1> QED BY InitHolds, NextKeeps, PTL DEF Spec

\* The pool holds each symbol once and never more than max_deep_candidates, for
\* any numbers of symbols and places (StageBManager.update).
THEOREM TypeCorrect == Spec => []TypeOK
<1>1. ASSUME IInv PROVE TypeOK
  <2>1. active \in Seq(Item) /\ DOMAIN active = 1..Len(active) /\ Len(active) \in Nat
    BY <1>1 DEF IInv
  <2> DEFINE named == [k \in 1..Len(active) |-> active[k].symbol]
  <2>2. named \in Surjection(1..Len(active), Symbols(active))
    BY <2>1 DEF Symbols, Surjection
  <2>3. named \in Injection(1..Len(active), Symbols(active))
    BY <1>1, <2>1, <2>2 DEF IInv, Distinct, Injection, IsInjective, Surjection
  <2>4. \A n \in Nat : IsFiniteSet(1..n) /\ Cardinality(1..n) = n
    BY FS_Interval
  <2>5. Cardinality(Symbols(active)) = Len(active)
    <3>1. IsFiniteSet(1..Len(active)) /\ Cardinality(1..Len(active)) = Len(active)
      BY <2>1, <2>4
    <3> HIDE DEF named
    <3> QED BY <2>2, <2>3, <3>1, FS_Surjection
  <2> QED BY <1>1, <2>5 DEF IInv, TypeOK, Item
<1> QED BY <1>1, PoolInvariance, PTL

\* An update leaves nobody in the pool who was not selected for the whole
\* retention: the streams of a symbol are paid for that long and no longer.
THEOREM NobodyOverstays == Spec => NoneOverstays
<1> DEFINE Leaves == Update => \A s \in Symbols(active)' : idle'[s] < Retention
<1>1. IInv /\ [Next]_vars => [Leaves]_vars
  <2> SUFFICES ASSUME IInv, Update, NEW s \in Symbols(active)'
               PROVE  idle'[s] < Retention
    OBVIOUS
  <2>1. PICK k \in DOMAIN active' : s = active'[k].symbol
    BY DEF Symbols
  <2> QED BY <2>1, UpdateKeeps
<1>2. []IInv /\ [][Next]_vars => [][Leaves]_vars
  BY <1>1, PTL
<1>3. [][Leaves]_vars => NoneOverstays
  BY PTL DEF NoneOverstays
<1> QED BY <1>2, <1>3, PoolInvariance, PTL DEF Spec

=============================================================================
