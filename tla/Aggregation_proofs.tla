------------------------- MODULE Aggregation_proofs -------------------------
(***************************************************************************)
(* Proofs about Aggregation, for every set of records and every number of  *)
(* them.  Rank orders the offers of a column strictly (BeforeOrders), so   *)
(* that any of them have a best one (HasBest); one offer of each value is  *)
(* selected and the best of all is the best selected (SelectionsOfValues,  *)
(* BestIsSelected).  What a group yields follows; the invariant says that  *)
(* every row and its conflicts are what their group yields.                *)
(***************************************************************************)
EXTENDS Aggregation, FiniteSetTheorems, WellFoundedInduction, TLAPS

-----------------------------------------------------------------------------
(* Rank *)

\* A non-empty set of natural numbers has a least one.
LEMMA LeastNumber ==
    ASSUME NEW S, S \subseteq Nat, S # {} PROVE \E m \in S : \A k \in S : m <= k
<1>1. \E m \in S : \A k \in S : ~(<<k, m>> \in OpToRel(<, Nat))
  BY WFMin, NatLessThanWellFounded
<1>2. \A k, m \in S : k < m => <<k, m>> \in OpToRel(<, Nat)
  BY DEF OpToRel
<1>3. \A k, m \in S : k < m \/ m <= k
  OBVIOUS
<1> QED
  BY <1>1, <1>2, <1>3

\* The rows of a group, by their positions.
Rows(rows) ==
    /\ rows \in [DOMAIN rows -> Pool]
    /\ DOMAIN rows \subseteq Nat /\ IsFiniteSet(DOMAIN rows)

\* The quality of a row is a number.
LEMMA QualityTyped == ASSUME NEW row PROVE Quality(row) \in Nat
<1> DEFINE three == {"emails", "phones", "website"}
<1>1. IsFiniteSet({"emails"} \cup {"phones"} \cup {"website"})
  BY FS_EmptySet, FS_AddElement, FS_Singleton
<1>2. three = {"emails"} \cup {"phones"} \cup {"website"}
  OBVIOUS
<1>3. IsFiniteSet({c \in three : row[c] # <<>>})
  BY <1>1, <1>2, FS_Subset
<1> QED
  BY <1>3, FS_CardinalityType DEF Quality

\* What a record of the pool is.
LEMMA RecordTyped ==
    ASSUME NEW rows, Rows(rows), NEW i \in DOMAIN rows
    PROVE  /\ rows[i].priority \in Int /\ Quality(rows[i]) \in Int /\ rows[i].date \in Int
           /\ i \in Int
           /\ \A c \in Columns : rows[i][c] \in Seq(Texts)
<1>1. rows[i] \in Pool
  BY DEF Rows
<1>2. Quality(rows[i]) \in Nat
  BY QualityTyped
<1> QED
  BY <1>1, <1>2, AggregationAssumption DEF Rows

\* Rank is a strict order in which any two rows are comparable.
LEMMA BetterOrders ==
    ASSUME NEW rows, Rows(rows), NEW i \in DOMAIN rows, NEW j \in DOMAIN rows,
           NEW k \in DOMAIN rows
    PROVE  /\ ~Better(rows, i, i)
           /\ Better(rows, i, j) => ~Better(rows, j, i)
           /\ Better(rows, i, j) /\ Better(rows, j, k) => Better(rows, i, k)
           /\ i # j => Better(rows, i, j) \/ Better(rows, j, i)
<1> DEFINE p(n) == rows[n].priority
           q(n) == Quality(rows[n])
           d(n) == rows[n].date
<1>1. \A n \in {i, j, k} : p(n) \in Int /\ q(n) \in Int /\ d(n) \in Int /\ n \in Int
  BY RecordTyped
<1>2. \A m, n \in {i, j, k} :
          Better(rows, m, n) <=>
              \/ p(m) > p(n)
              \/ p(m) = p(n) /\ q(m) > q(n)
              \/ p(m) = p(n) /\ q(m) = q(n) /\ d(m) > d(n)
              \/ p(m) = p(n) /\ q(m) = q(n) /\ d(m) = d(n) /\ m < n
  BY DEF Better
<1> HIDE DEF p, q, d
<1>3. ~Better(rows, i, i)
  BY <1>1, <1>2
<1>4. Better(rows, i, j) => ~Better(rows, j, i)
  BY <1>1, <1>2
<1>5. Better(rows, i, j) /\ Better(rows, j, k) => Better(rows, i, k)
  BY <1>1, <1>2
<1>6. i # j => Better(rows, i, j) \/ Better(rows, j, i)
  BY <1>1, <1>2
<1> QED
  BY <1>3, <1>4, <1>5, <1>6

\* What an offer is: a value, where a row says it.
LEMMA OfferTyped ==
    ASSUME NEW rows, Rows(rows), NEW c \in Columns, NEW o \in Offers(rows, c)
    PROVE  /\ o.row \in DOMAIN rows /\ o.at \in 1..Len(rows[o.row][c])
           /\ Len(rows[o.row][c]) \in Nat
           /\ o.value = rows[o.row][c][o.at] /\ o.value \in Texts
           /\ o = [row |-> o.row, at |-> o.at, value |-> o.value]
<1>1. PICK i \in DOMAIN rows :
          o \in {[row |-> i, at |-> n, value |-> rows[i][c][n]] : n \in DOMAIN rows[i][c]}
  BY DEF Offers
<1>2. PICK n \in DOMAIN rows[i][c] : o = [row |-> i, at |-> n, value |-> rows[i][c][n]]
  BY <1>1
<1>3. rows[i][c] \in Seq(Texts)
  BY RecordTyped
<1>4. n \in 1..Len(rows[i][c]) /\ rows[i][c][n] \in Texts /\ Len(rows[i][c]) \in Nat
  BY <1>2, <1>3
<1>5. o.row = i /\ o.at = n /\ o.value = rows[i][c][n]
  BY <1>2
<1> QED
  BY <1>2, <1>4, <1>5

\* Every value a row says is offered.
LEMMA IsOffered ==
    ASSUME NEW rows, NEW c, NEW i \in DOMAIN rows, NEW n \in DOMAIN rows[i][c]
    PROVE  [row |-> i, at |-> n, value |-> rows[i][c][n]] \in Offers(rows, c)
  BY DEF Offers

\* The order of the offers is strict and any two are comparable.
LEMMA BeforeOrders ==
    ASSUME NEW rows, Rows(rows), NEW c \in Columns, NEW a \in Offers(rows, c),
           NEW b \in Offers(rows, c), NEW e \in Offers(rows, c)
    PROVE  /\ ~Before(rows, a, a)
           /\ Before(rows, a, b) => ~Before(rows, b, a)
           /\ Before(rows, a, b) /\ Before(rows, b, e) => Before(rows, a, e)
           /\ a # b => Before(rows, a, b) \/ Before(rows, b, a)
<1>1. /\ a.row \in DOMAIN rows /\ b.row \in DOMAIN rows /\ e.row \in DOMAIN rows
      /\ a.at \in Int /\ b.at \in Int /\ e.at \in Int
  BY OfferTyped
<1>2. a # b => a.row # b.row \/ a.at # b.at
  <2>1. a = [row |-> a.row, at |-> a.at, value |-> rows[a.row][c][a.at]]
    BY OfferTyped
  <2>2. b = [row |-> b.row, at |-> b.at, value |-> rows[b.row][c][b.at]]
    BY OfferTyped
  <2> QED
    BY <2>1, <2>2
<1>3. ~Before(rows, a, a)
  BY <1>1, BetterOrders DEF Before
<1>4. Before(rows, a, b) => ~Before(rows, b, a)
  BY <1>1, BetterOrders DEF Before
<1>5. Before(rows, a, b) /\ Before(rows, b, e) => Before(rows, a, e)
  BY <1>1, BetterOrders DEF Before
<1>6. a # b => Before(rows, a, b) \/ Before(rows, b, a)
  BY <1>1, <1>2, BetterOrders DEF Before
<1> QED
  BY <1>3, <1>4, <1>5, <1>6

\* Of some rows of a group one is the best: the one that fewest are better than.
LEMMA HasBestRow ==
    ASSUME NEW rows, Rows(rows), NEW R \in SUBSET DOMAIN rows, R # {}
    PROVE  \E i \in R : \A j \in R \ {i} : Better(rows, i, j)
<1> DEFINE Above(i) == {j \in R : Better(rows, j, i)}
           Counts == {Cardinality(Above(i)) : i \in R}
<1>1. IsFiniteSet(R)
  BY FS_Subset DEF Rows
<1>2. \A i \in R : IsFiniteSet(Above(i)) /\ Cardinality(Above(i)) \in Nat
  BY <1>1, FS_Subset, FS_CardinalityType
<1>3. Counts \subseteq Nat /\ Counts # {}
  BY <1>2
<1>4. \E m \in Counts : \A k \in Counts : m <= k
  <2> HIDE DEF Counts
  <2> QED
    BY <1>3, LeastNumber
<1>5. PICK i \in R : \A j \in R : Cardinality(Above(i)) <= Cardinality(Above(j))
  BY <1>4
<1>6. ASSUME NEW j \in R \ {i} PROVE Better(rows, i, j)
  <2>1. CASE Better(rows, j, i)
    <3>1. Above(j) \subseteq Above(i)
      BY <2>1, BetterOrders
    <3>2. j \in Above(i) /\ j \notin Above(j)
      BY <2>1, BetterOrders
    <3>3. Cardinality(Above(j)) <= Cardinality(Above(i)) /\ Cardinality(Above(j)) # Cardinality(Above(i))
      <4> HIDE DEF Above
      <4> QED
        BY <1>2, <3>1, <3>2, FS_Subset
    <3>4. Cardinality(Above(j)) \in Nat /\ Cardinality(Above(i)) \in Nat
      BY <1>2
    <3> HIDE DEF Above
    <3> QED
      BY <1>5, <3>3, <3>4
  <2> QED
    BY <2>1, BetterOrders
<1> QED
  BY <1>6

\* Some offers have a best one: the first of the best row.
LEMMA HasBest ==
    ASSUME NEW rows, Rows(rows), NEW c \in Columns, NEW S \in SUBSET Offers(rows, c), S # {}
    PROVE  \E s \in S : \A o \in S \ {s} : Before(rows, s, o)
<1> DEFINE R == {s.row : s \in S}
<1>1. R \in SUBSET DOMAIN rows /\ R # {}
  BY OfferTyped
<1>2. PICK i \in R : \A j \in R \ {i} : Better(rows, i, j)
  <2> HIDE DEF R
  <2> QED
    BY <1>1, HasBestRow
<1> DEFINE N == {n \in Nat : \E s \in S : s.row = i /\ s.at = n}
<1>3. N # {}
  <2>1. PICK s \in S : s.row = i
    BY <1>2
  <2>2. s.at \in Nat
    BY OfferTyped
  <2> QED
    BY <2>1, <2>2
<1>4. PICK n \in N : \A k \in N : n <= k
  <2>1. N \subseteq Nat
    OBVIOUS
  <2> HIDE DEF N
  <2> QED
    BY <1>3, <2>1, LeastNumber
<1>5. PICK s \in S : s.row = i /\ s.at = n
  BY <1>4
<1>6. ASSUME NEW o \in S \ {s} PROVE Before(rows, s, o)
  <2>1. CASE o.row # i
    BY <1>2, <1>5, <2>1 DEF Before
  <2>2. CASE o.row = i
    <3>1. o.at \in N /\ o.at \in Nat /\ s.at \in Nat
      BY <2>2, OfferTyped
    <3>2. ~(o.at < s.at)
      BY <1>4, <1>5, <3>1
    <3>3. ~Before(rows, o, s)
      BY <1>1, <1>5, <2>2, <3>2, BetterOrders DEF Before
    <3> QED
      BY <3>3, BeforeOrders
  <2> QED
    BY <2>1, <2>2
<1> QED
  BY <1>6

\* Best is that offer, and no other is.
LEMMA BestIsBest ==
    ASSUME NEW rows, Rows(rows), NEW c \in Columns, NEW S \in SUBSET Offers(rows, c), S # {}
    PROVE  /\ Best(rows, S) \in S
           /\ \A o \in S \ {Best(rows, S)} : Before(rows, Best(rows, S), o)
           /\ \A s \in S : (\A o \in S \ {s} : Before(rows, s, o)) => s = Best(rows, S)
<1>1. /\ Best(rows, S) \in S
      /\ \A o \in S \ {Best(rows, S)} : Before(rows, Best(rows, S), o)
  BY HasBest DEF Best
<1>2. ASSUME NEW s \in S, \A o \in S \ {s} : Before(rows, s, o) PROVE s = Best(rows, S)
  BY <1>1, <1>2, BeforeOrders
<1> QED
  BY <1>1, <1>2

-----------------------------------------------------------------------------
(* Selections *)

\* What the proofs need of a set of selections: offers, of each value one.
OneEach(rows, c, S) ==
    /\ S \in SUBSET Offers(rows, c)
    /\ \A s, t \in S : s.value = t.value => s = t

\* The selections of a column are offers, one of each value that is offered.
LEMMA SelectionsOfValues ==
    ASSUME NEW rows, Rows(rows), NEW c \in Columns
    PROVE  /\ OneEach(rows, c, Selections(rows, c))
           /\ \A o \in Offers(rows, c) : \E s \in Selections(rows, c) : s.value = o.value
<1>1. \A s \in Selections(rows, c) :
          /\ s \in Offers(rows, c)
          /\ \A o \in Offers(rows, c) : o.value = s.value => ~Before(rows, o, s)
  BY DEF Selections, Distinct
<1>2. \A s, t \in Selections(rows, c) : s.value = t.value => s = t
  BY <1>1, BeforeOrders
<1>3. ASSUME NEW o \in Offers(rows, c)
      PROVE  \E s \in Selections(rows, c) : s.value = o.value
  <2> DEFINE same == {p \in Offers(rows, c) : p.value = o.value}
  <2>1. same \in SUBSET Offers(rows, c) /\ o \in same
    OBVIOUS
  <2>2. PICK s \in same : \A p \in same \ {s} : Before(rows, s, p)
    <3> HIDE DEF same
    <3> QED
      BY <2>1, HasBest
  <2>3. \A p \in Offers(rows, c) : p.value = s.value => ~Before(rows, p, s)
    BY <2>2, BeforeOrders
  <2> QED
    BY <2>2, <2>3 DEF Selections, Distinct
<1> QED
  BY <1>1, <1>2, <1>3 DEF OneEach

\* The best selection is the best of all offers.
LEMMA BestIsSelected ==
    ASSUME NEW rows, Rows(rows), NEW c \in Columns, Offers(rows, c) # {}
    PROVE  /\ Selections(rows, c) # {}
           /\ Best(rows, Selections(rows, c)) = Best(rows, Offers(rows, c))
<1> DEFINE b == Best(rows, Offers(rows, c))
<1>1. b \in Offers(rows, c) /\ \A o \in Offers(rows, c) \ {b} : Before(rows, b, o)
  BY BestIsBest
<1>2. b \in Selections(rows, c)
  <2>1. \A o \in Offers(rows, c) : ~Before(rows, o, b)
    BY <1>1, BeforeOrders
  <2> QED
    BY <1>1, <2>1 DEF Selections, Distinct
<1>3. Selections(rows, c) \in SUBSET Offers(rows, c)
  BY DEF Selections, Distinct
<1>4. \A o \in Selections(rows, c) \ {b} : Before(rows, b, o)
  BY <1>1, <1>3
<1> HIDE DEF b
<1>5. b = Best(rows, Selections(rows, c))
  BY <1>2, <1>3, <1>4, BestIsBest
<1> QED
  BY <1>2, <1>5 DEF b

\* Nothing is selected only where no row says anything.
LEMMA OffersOfRows ==
    ASSUME NEW rows, Rows(rows), NEW c \in Columns
    PROVE  /\ \A i \in DOMAIN rows : rows[i][c] # <<>> =>
                  /\ 1 \in DOMAIN rows[i][c]
                  /\ [row |-> i, at |-> 1, value |-> rows[i][c][1]] \in Offers(rows, c)
           /\ (\A i \in DOMAIN rows : rows[i][c] = <<>>) => Offers(rows, c) = {}
<1>1. ASSUME NEW i \in DOMAIN rows, rows[i][c] # <<>>
      PROVE  /\ 1 \in DOMAIN rows[i][c]
             /\ [row |-> i, at |-> 1, value |-> rows[i][c][1]] \in Offers(rows, c)
  <2>1. rows[i][c] \in Seq(Texts)
    BY RecordTyped
  <2>2. 1 \in DOMAIN rows[i][c]
    BY <1>1, <2>1
  <2> QED
    BY <2>2, IsOffered
<1>2. ASSUME \A i \in DOMAIN rows : rows[i][c] = <<>> PROVE Offers(rows, c) = {}
  <2>1. ASSUME NEW o \in Offers(rows, c) PROVE FALSE
    <3>1. o.row \in DOMAIN rows /\ o.at \in 1..Len(rows[o.row][c])
      BY OfferTyped
    <3>2. rows[o.row][c] = <<>>
      BY <1>2, <3>1
    <3>3. o.at \in 1..Len(<<>>)
      BY <3>1, <3>2
    <3> QED
      BY <3>3
  <2> QED
    BY <2>1
<1> QED
  BY <1>1, <1>2

\* The best offer is what its row says first, and that row decides: it ranks
\* above every other row that says anything, and no other row does.
LEMMA BestDecides ==
    ASSUME NEW rows, Rows(rows), NEW c \in Columns, Offers(rows, c) # {}
    PROVE  LET b == Best(rows, Offers(rows, c)) IN
           /\ b.row \in DOMAIN rows
           /\ Decides(rows, b.row, c, b.value)
           /\ \A i \in DOMAIN rows : \A v : Decides(rows, i, c, v) => i = b.row
<1> DEFINE b == Best(rows, Offers(rows, c))
           one(i) == [row |-> i, at |-> 1, value |-> rows[i][c][1]]
<1>1. b \in Offers(rows, c) /\ \A o \in Offers(rows, c) \ {b} : Before(rows, b, o)
  BY BestIsBest
<1> HIDE DEF b
<1>2. /\ b.row \in DOMAIN rows /\ b.at \in 1..Len(rows[b.row][c])
      /\ Len(rows[b.row][c]) \in Nat /\ b.value = rows[b.row][c][b.at]
  BY <1>1, OfferTyped
<1>3. rows[b.row][c] # <<>>
  <2>1. Len(rows[b.row][c]) # 0
    BY <1>2
  <2> QED
    BY <2>1
<1>4. \A i \in DOMAIN rows : rows[i][c] # <<>> =>
          one(i) \in Offers(rows, c) /\ one(i).row = i /\ one(i).at = 1
  BY OffersOfRows
<1> HIDE DEF one
<1>5. b.at = 1
  <2>1. CASE one(b.row) = b
    BY <1>2, <1>3, <1>4, <2>1
  <2>2. CASE one(b.row) # b
    <3>1. Before(rows, b, one(b.row))
      BY <1>1, <1>2, <1>3, <1>4, <2>2
    <3>2. b.at < 1
      BY <1>2, <1>3, <1>4, <3>1, BetterOrders DEF Before
    <3> QED
      BY <1>2, <3>2
  <2> QED
    BY <2>1, <2>2
<1>6. ASSUME NEW k \in DOMAIN rows, k # b.row, rows[k][c] # <<>> PROVE Better(rows, b.row, k)
  BY <1>1, <1>4, <1>6 DEF Before
<1>7. Decides(rows, b.row, c, b.value)
  <2>1. ASSUME NEW k \in DOMAIN rows, k # b.row, rows[k][c] # <<>>
        PROVE  LET r == rows[b.row]  s == rows[k]  IN
               /\ r.priority >= s.priority
               /\ r.priority = s.priority => Quality(r) >= Quality(s)
               /\ r.priority = s.priority /\ Quality(r) = Quality(s) => r.date >= s.date
               /\ r.priority = s.priority /\ Quality(r) = Quality(s) /\ r.date = s.date => b.row < k
    <3>1. Better(rows, b.row, k)
      BY <1>6, <2>1
    <3>2. /\ rows[b.row].priority \in Int /\ Quality(rows[b.row]) \in Int /\ rows[b.row].date \in Int
          /\ rows[k].priority \in Int /\ Quality(rows[k]) \in Int /\ rows[k].date \in Int
          /\ b.row \in Int /\ k \in Int
      BY <1>2, RecordTyped
    <3> QED
      BY <3>1, <3>2 DEF Better
  <2> QED
    BY <1>2, <1>3, <1>5, <2>1 DEF Decides
<1>8. ASSUME NEW i \in DOMAIN rows, NEW v, Decides(rows, i, c, v) PROVE i = b.row
  <2> SUFFICES ASSUME i # b.row PROVE FALSE
    OBVIOUS
  <2>1. rows[i][c] # <<>>
    BY <1>8 DEF Decides
  <2>2. Better(rows, b.row, i)
    BY <1>6, <2>1
  <2>3. LET r == rows[i]  s == rows[b.row]  IN
        /\ r.priority >= s.priority
        /\ r.priority = s.priority => Quality(r) >= Quality(s)
        /\ r.priority = s.priority /\ Quality(r) = Quality(s) => r.date >= s.date
        /\ r.priority = s.priority /\ Quality(r) = Quality(s) /\ r.date = s.date => i < b.row
    BY <1>2, <1>3, <1>8 DEF Decides
  <2>4. /\ rows[b.row].priority \in Int /\ Quality(rows[b.row]) \in Int /\ rows[b.row].date \in Int
        /\ rows[i].priority \in Int /\ Quality(rows[i]) \in Int /\ rows[i].date \in Int
        /\ b.row \in Int /\ i \in Int
    BY <1>2, RecordTyped
  <2> QED
    BY <2>2, <2>3, <2>4 DEF Better
<1> QED
  BY <1>2, <1>7, <1>8 DEF b

-----------------------------------------------------------------------------
(* A group *)

\* What is recorded of selections is one of their values, if there are any.
Recorded(S, value) == S # {} => value \in ValuesOf(S)

\* The rest of the selections are offers of other values than the first.
LEMMA RestOfSelections ==
    ASSUME NEW rows, Rows(rows), NEW c \in Columns, NEW S, OneEach(rows, c, S)
    PROVE  /\ OneEach(rows, c, Rest(rows, S))
           /\ First(rows, S) \notin ValuesOf(Rest(rows, S))
           /\ \A s \in S : s.value = First(rows, S) \/ s \in Rest(rows, S)
           /\ Recorded(S, First(rows, S))
<1>1. CASE S = {}
  BY <1>1 DEF OneEach, Rest, First, ValuesOf, Recorded
<1>2. CASE S # {}
  <2> DEFINE b == Best(rows, S)
  <2>1. b \in S
    BY <1>2, BestIsBest DEF OneEach
  <2>2. Rest(rows, S) = S \ {b} /\ First(rows, S) = b.value
    BY <1>2 DEF Rest, First
  <2> HIDE DEF b
  <2> QED
    BY <2>1, <2>2 DEF OneEach, ValuesOf, Recorded
<1> QED
  BY <1>1, <1>2

\* A conflict of selections of which one value is kept names all their other
\* values, and not that one as an alternative to itself.
LEMMA ConflictsNameTheOthers ==
    ASSUME NEW rows, Rows(rows), NEW c \in Columns, NEW S, OneEach(rows, c, S),
           NEW field, NEW value, Recorded(S, value)
    PROVE  /\ \A k \in ConflictOf(rows, field, S, {value}) :
                  /\ k.field = field /\ k.value = {value} /\ value \notin k.alternatives
                  /\ k.value \in SUBSET Texts /\ k.alternatives \in (SUBSET Texts) \ {{}}
           /\ \A s \in S : \/ s.value = value
                           \/ \E k \in ConflictOf(rows, field, S, {value}) :
                                  k.field = field /\ s.value \in k.alternatives
<1>1. CASE S = {}
  BY <1>1 DEF ConflictOf, Contributors
<1>2. CASE S # {}
  <2> DEFINE holding == {s \in S : {s.value} = {value}}
             p == Best(rows, holding)
             others == S \ {p}
             conflict == [field |-> field, value |-> {value}, alternatives |-> ValuesOf(others)]
  <2>1. holding # {} /\ holding \in SUBSET Offers(rows, c)
    BY <1>2 DEF Recorded, ValuesOf, OneEach
  <2>2. p \in S /\ p.value = value
    <3>1. p \in holding
      <4> HIDE DEF holding
      <4> QED
        BY <2>1, BestIsBest
    <3>2. p \in S /\ {p.value} = {value}
      <4> HIDE DEF p
      <4> QED
        BY <3>1
    <3> HIDE DEF p
    <3> QED
      BY <3>2
  <2>3. Contributors(rows, S, {value}) = others
    BY <1>2, <2>1 DEF Contributors
  <2>4. ConflictOf(rows, field, S, {value}) = IF others = {} THEN {} ELSE {conflict}
    BY <2>3 DEF ConflictOf
  <2> HIDE DEF p
  <2>5. value \notin ValuesOf(others)
    BY <2>2 DEF ValuesOf, OneEach
  <2>6. \A s \in S : s.value = value \/ s \in others
    BY <2>2
  <2>7. {value} \in SUBSET Texts /\ ValuesOf(others) \in SUBSET Texts
    <3>1. \A s \in S : s.value \in Texts
      BY OfferTyped DEF OneEach
    <3> QED
      BY <2>2, <3>1 DEF ValuesOf
  <2>8. others # {} => ValuesOf(others) # {}
    BY DEF ValuesOf
  <2>9. \A s \in others : s.value \in ValuesOf(others)
    BY DEF ValuesOf
  <2>10. /\ conflict.field = field /\ conflict.value = {value}
         /\ conflict.alternatives = ValuesOf(others)
    OBVIOUS
  <2> HIDE DEF others, conflict
  <2>11. ASSUME NEW k \in ConflictOf(rows, field, S, {value})
         PROVE  /\ k.field = field /\ k.value = {value} /\ value \notin k.alternatives
                /\ k.value \in SUBSET Texts /\ k.alternatives \in (SUBSET Texts) \ {{}}
    <3>1. others # {} /\ k = conflict
      BY <2>4, <2>11
    <3>2. k.field = field /\ k.value = {value} /\ k.alternatives = ValuesOf(others)
      BY <2>10, <3>1
    <3>3. value \notin k.alternatives /\ k.value \in SUBSET Texts
      BY <2>5, <2>7, <3>2
    <3>4. k.alternatives \in (SUBSET Texts) \ {{}}
      BY <2>7, <2>8, <3>1, <3>2
    <3> QED
      BY <3>2, <3>3, <3>4
  <2>12. ASSUME NEW s \in S, s.value # value
         PROVE  \E k \in ConflictOf(rows, field, S, {value}) :
                    k.field = field /\ s.value \in k.alternatives
    <3>1. s \in others
      BY <2>6, <2>12
    <3>2. conflict \in ConflictOf(rows, field, S, {value})
      BY <2>4, <3>1
    <3>3. conflict.field = field /\ s.value \in conflict.alternatives
      BY <2>9, <2>10, <3>1
    <3> QED
      BY <3>2, <3>3
  <2> QED
    BY <2>11, <2>12
<1> QED
  BY <1>1, <1>2

\* A conflict of selections that are all joined sets aside some of what is joined.
LEMMA JoinedConflicts ==
    ASSUME NEW rows, Rows(rows), NEW c \in Columns, NEW S, OneEach(rows, c, S),
           NEW field, NEW k \in ConflictOf(rows, field, S, ValuesOf(S))
    PROVE  /\ k.field = field /\ k.value = ValuesOf(S) /\ k.alternatives \subseteq k.value
           /\ k.value \in SUBSET Texts /\ k.alternatives \in (SUBSET Texts) \ {{}}
<1> DEFINE others == Contributors(rows, S, ValuesOf(S))
           conflict == [field |-> field, value |-> ValuesOf(S), alternatives |-> ValuesOf(others)]
<1>1. others \subseteq S
  BY DEF Contributors
<1>2. others # {} /\ k = conflict
  BY DEF ConflictOf
<1>3. conflict.field = field /\ conflict.value = ValuesOf(S) /\ conflict.alternatives = ValuesOf(others)
  OBVIOUS
<1> HIDE DEF others, conflict
<1>4. ValuesOf(others) \subseteq ValuesOf(S) /\ ValuesOf(others) # {}
  BY <1>1, <1>2 DEF ValuesOf
<1>5. ValuesOf(S) \in SUBSET Texts
  BY OfferTyped DEF OneEach, ValuesOf
<1> QED
  BY <1>2, <1>3, <1>4, <1>5

\* What is kept of a column is a value some row of the group says.
LEMMA PrimaryIsSaid ==
    ASSUME NEW rows, Rows(rows), NEW c \in Columns
    PROVE  Recorded(Selections(rows, c), Primary(rows, c))
<1>1. OneEach(rows, c, Selections(rows, c))
  BY SelectionsOfValues
<1>2. Recorded(Selections(rows, c), First(rows, Selections(rows, c)))
  BY <1>1, RestOfSelections
<1>3. CASE c \notin Contacts
  BY <1>2, <1>3 DEF Primary
<1>4. CASE c \in Contacts
  <2> DEFINE emails == Selections(rows, "emails")
             contact == IF emails # {} THEN emails ELSE Selections(rows, "phones")
             i == Best(rows, contact).row
             said == rows[i][c]
  <2>1. "emails" \in Columns /\ "phones" \in Columns
    BY DEF Columns, Addresses
  <2>2. CASE contact # {} /\ said # <<>>
    <3>1. Primary(rows, c) = said[1]
      BY <1>4, <2>2 DEF Primary, OfContact
    <3>2. i \in DOMAIN rows
      <4>1. ASSUME NEW a \in {"emails", "phones"}, Selections(rows, a) # {}
            PROVE  Best(rows, Selections(rows, a)).row \in DOMAIN rows
        <5>1. OneEach(rows, a, Selections(rows, a)) /\ a \in Columns
          BY <2>1, SelectionsOfValues
        <5>2. Best(rows, Selections(rows, a)) \in Selections(rows, a)
          BY <4>1, <5>1, BestIsBest DEF OneEach
        <5>3. Best(rows, Selections(rows, a)) \in Offers(rows, a)
          BY <5>1, <5>2 DEF OneEach
        <5> QED
          BY <5>1, <5>3, OfferTyped
      <4>2. contact \in {Selections(rows, "emails"), Selections(rows, "phones")}
        OBVIOUS
      <4> QED
        BY <2>2, <4>1, <4>2
    <3> HIDE DEF i
    <3>3. [row |-> i, at |-> 1, value |-> rows[i][c][1]] \in Offers(rows, c)
      BY <2>2, <3>2, OffersOfRows
    <3>4. \E s \in Selections(rows, c) : s.value = rows[i][c][1]
      BY <3>3, SelectionsOfValues
    <3> QED
      BY <3>1, <3>4 DEF Recorded, ValuesOf
  <2>3. CASE ~(contact # {} /\ said # <<>>)
    <3>1. Primary(rows, c) = First(rows, Selections(rows, c))
      BY <1>4, <2>3 DEF Primary, OfContact
    <3> QED
      BY <1>2, <3>1
  <2> QED
    BY <2>2, <2>3
<1> QED
  BY <1>3, <1>4

\* The best row of a group decides.
LEMMA GroupBestDecides ==
    ASSUME NEW rows, Rows(rows), NEW slug, NEW c \in Scalars \cup Addresses
    PROVE  LET row == AggregatedRow(slug, rows) IN
           IF \E i \in DOMAIN rows : rows[i][c] # <<>>
           THEN \E i \in DOMAIN rows : Decides(rows, i, c, row.kept[c])
           ELSE row.kept[c] = None
<1> DEFINE S == Selections(rows, c)
           b == Best(rows, Offers(rows, c))
<1>1. c \in Columns /\ c \in Columns \ Joined /\ c \notin Contacts
  BY DEF Columns, Scalars, Joined, Addresses, Contacts
<1>2. AggregatedRow(slug, rows).kept[c] = First(rows, S)
  BY <1>1 DEF AggregatedRow, Primary
<1>3. CASE \E i \in DOMAIN rows : rows[i][c] # <<>>
  <2>1. Offers(rows, c) # {}
    BY <1>1, <1>3, OffersOfRows
  <2>2. First(rows, S) = b.value
    BY <1>1, <2>1, BestIsSelected DEF First
  <2>3. b.row \in DOMAIN rows /\ Decides(rows, b.row, c, b.value)
    BY <1>1, <2>1, BestDecides
  <2> HIDE DEF b, S
  <2> QED
    BY <1>2, <1>3, <2>2, <2>3
<1>4. CASE \A i \in DOMAIN rows : rows[i][c] = <<>>
  <2>1. S = {}
    BY <1>1, <1>4, OffersOfRows DEF Selections, Distinct
  <2> QED
    BY <1>2, <1>4, <2>1 DEF First
<1> QED
  BY <1>3, <1>4

\* Every conflict of a group is one of the selections of a column, and agrees
\* with the group's row.
LEMMA ConflictsOfColumns ==
    ASSUME NEW rows, Rows(rows), NEW slug
    PROVE  /\ \A c \in Columns \ Joined :
                  ConflictOf(rows, c, Selections(rows, c), {Primary(rows, c)}) \subseteq ConflictsOf(rows)
           /\ \A k \in ConflictsOf(rows) :
                  /\ Agrees(AggregatedRow(slug, rows), k)
                  /\ k.value \in SUBSET Texts /\ k.alternatives \in (SUBSET Texts) \ {{}}
<1> DEFINE row == AggregatedRow(slug, rows)
<1>1. ASSUME NEW c \in Columns \ Joined
      PROVE  ConflictOf(rows, c, Selections(rows, c), {Primary(rows, c)}) \subseteq ConflictsOf(rows)
  BY DEF ConflictsOf
<1>2. /\ \A c \in Columns \ Joined : row.kept[c] = Primary(rows, c)
      /\ \A c \in Joined : row.joined[c] = ValuesOf(Selections(rows, c))
      /\ \A c \in Addresses : row.secondary[c] = ValuesOf(Secondary(rows, c))
  BY DEF AggregatedRow
<1> HIDE DEF row
<1>3. ASSUME NEW k \in ConflictsOf(rows)
      PROVE  /\ Agrees(row, k)
             /\ k.value \in SUBSET Texts /\ k.alternatives \in (SUBSET Texts) \ {{}}
  <2>1. \/ \E c \in Columns \ Joined :
               k \in ConflictOf(rows, c, Selections(rows, c), {Primary(rows, c)})
        \/ \E c \in Joined :
               k \in ConflictOf(rows, c, Selections(rows, c), ValuesOf(Selections(rows, c)))
        \/ \E c \in Addresses :
               k \in ConflictOf(rows, SecondaryField[c], Secondary(rows, c),
                                ValuesOf(Secondary(rows, c)))
    BY <1>3 DEF ConflictsOf
  <2>2. ASSUME NEW c \in Columns \ Joined,
               k \in ConflictOf(rows, c, Selections(rows, c), {Primary(rows, c)})
        PROVE  /\ Agrees(row, k)
               /\ k.value \in SUBSET Texts /\ k.alternatives \in (SUBSET Texts) \ {{}}
    <3>1. OneEach(rows, c, Selections(rows, c)) /\ Recorded(Selections(rows, c), Primary(rows, c))
      BY SelectionsOfValues, PrimaryIsSaid
    <3>2. /\ k.field = c /\ k.value = {Primary(rows, c)} /\ Primary(rows, c) \notin k.alternatives
          /\ k.value \in SUBSET Texts /\ k.alternatives \in (SUBSET Texts) \ {{}}
      BY <2>2, <3>1, ConflictsNameTheOthers
    <3> QED
      BY <1>2, <3>2 DEF Agrees
  <2>3. ASSUME NEW c \in Joined,
               k \in ConflictOf(rows, c, Selections(rows, c), ValuesOf(Selections(rows, c)))
        PROVE  /\ Agrees(row, k)
               /\ k.value \in SUBSET Texts /\ k.alternatives \in (SUBSET Texts) \ {{}}
    <3>1. c \in Columns /\ OneEach(rows, c, Selections(rows, c))
      BY SelectionsOfValues DEF Columns
    <3>2. /\ k.field = c /\ k.value = ValuesOf(Selections(rows, c)) /\ k.alternatives \subseteq k.value
          /\ k.value \in SUBSET Texts /\ k.alternatives \in (SUBSET Texts) \ {{}}
      BY <2>3, <3>1, JoinedConflicts
    <3> QED
      BY <1>2, <3>2 DEF Agrees
  <2>4. ASSUME NEW c \in Addresses,
               k \in ConflictOf(rows, SecondaryField[c], Secondary(rows, c),
                                ValuesOf(Secondary(rows, c)))
        PROVE  /\ Agrees(row, k)
               /\ k.value \in SUBSET Texts /\ k.alternatives \in (SUBSET Texts) \ {{}}
    <3>1. c \in Columns
      BY DEF Columns
    <3>2. OneEach(rows, c, Secondary(rows, c))
      BY <3>1, SelectionsOfValues, RestOfSelections DEF Secondary
    <3>3. /\ k.field = SecondaryField[c] /\ k.value = ValuesOf(Secondary(rows, c))
          /\ k.alternatives \subseteq k.value
          /\ k.value \in SUBSET Texts /\ k.alternatives \in (SUBSET Texts) \ {{}}
      BY <2>4, <3>1, <3>2, JoinedConflicts
    <3> QED
      BY <1>2, <3>3 DEF Agrees
  <2> QED
    BY <2>1, <2>2, <2>3, <2>4
<1> QED
  BY <1>1, <1>3 DEF row

\* What a row of the group says is in its aggregated row or in a conflict.
LEMMA GroupAccountsForAll ==
    ASSUME NEW rows, Rows(rows), NEW slug, NEW c \in Columns,
           NEW i \in DOMAIN rows, NEW n \in DOMAIN rows[i][c]
    PROVE  Accounted(AggregatedRow(slug, rows), ConflictsOf(rows), c, rows[i][c][n])
<1> DEFINE S == Selections(rows, c)
           v == rows[i][c][n]
           o == [row |-> i, at |-> n, value |-> v]
           row == AggregatedRow(slug, rows)
<1>1. o \in Offers(rows, c) /\ o.value = v
  BY IsOffered
<1>2. PICK s \in S : s.value = v
  <2> HIDE DEF o, v
  <2> QED
    BY <1>1, SelectionsOfValues
<1> HIDE DEF v
<1>3. CASE c \in Joined
  <2>1. v \in row.joined[c]
    BY <1>2, <1>3 DEF AggregatedRow, ValuesOf
  <2> QED
    BY <1>3, <2>1 DEF Accounted, v
<1>4. CASE c \notin Joined /\ v = Primary(rows, c)
  <2>1. v = row.kept[c]
    BY <1>4 DEF AggregatedRow
  <2> QED
    BY <1>4, <2>1 DEF Accounted, v
<1>5. CASE c \notin Joined /\ v # Primary(rows, c)
  <2>1. OneEach(rows, c, S) /\ Recorded(S, Primary(rows, c))
    BY SelectionsOfValues, PrimaryIsSaid
  <2>2. \E k \in ConflictOf(rows, c, S, {Primary(rows, c)}) : k.field = c /\ v \in k.alternatives
    BY <1>2, <1>5, <2>1, ConflictsNameTheOthers
  <2>3. ConflictOf(rows, c, S, {Primary(rows, c)}) \subseteq ConflictsOf(rows)
    BY <1>5, ConflictsOfColumns
  <2> QED
    BY <2>2, <2>3 DEF Accounted, v
<1> QED
  BY <1>3, <1>4, <1>5

\* A record that names the organisation comes not before the one whose name is
\* kept.
LEMMA GroupHasFirstName ==
    ASSUME NEW rows, Rows(rows), NEW slug, NEW i \in DOMAIN rows, rows[i].organization # <<>>
    PROVE  \E k \in DOMAIN rows :
               k <= i /\ rows[k].organization = <<AggregatedRow(slug, rows).organization>>
<1> DEFINE naming == {k \in DOMAIN rows : rows[k].organization # <<>>}
           first == CHOOSE k \in naming : \A m \in naming : k <= m
<1>1. naming \subseteq Nat /\ i \in naming
  BY DEF Rows
<1>2. first \in naming /\ \A m \in naming : first <= m
  <2>1. \E k \in naming : \A m \in naming : k <= m
    <3> HIDE DEF naming
    <3> QED
      BY <1>1, LeastNumber
  <2> HIDE DEF naming
  <2> QED
    BY <2>1
<1>3. AggregatedRow(slug, rows).organization = rows[first].organization[1]
  <2>1. OrganizationName(rows) = IF naming = {} THEN None ELSE rows[first].organization[1]
    BY DEF OrganizationName
  <2>2. OrganizationName(rows) = rows[first].organization[1]
    <3> HIDE DEF naming, first
    <3> QED
      BY <1>1, <2>1
  <2> QED
    BY <2>2 DEF AggregatedRow
<1>4. first \in DOMAIN rows /\ first <= i /\ rows[first].organization # <<>>
  <2>1. first \in DOMAIN rows /\ rows[first].organization # <<>>
    <3> HIDE DEF first
    <3> QED
      BY <1>2
  <2> HIDE DEF naming, first
  <2> QED
    BY <1>1, <1>2, <2>1
<1> HIDE DEF first, naming
<1>5. rows[first].organization \in Seq(Texts) /\ Len(rows[first].organization) <= 1
  <2>1. rows[first] \in Pool
    BY <1>4 DEF Rows
  <2> QED
    BY <2>1, AggregationAssumption
<1>6. ASSUME NEW q \in Seq(Texts), q # <<>>, Len(q) <= 1 PROVE q = <<q[1]>>
  <2>1. Len(q) = 1
    <3>1. 1 \in DOMAIN q
      BY <1>6
    <3>2. Len(q) \in Nat /\ DOMAIN q = 1..Len(q)
      OBVIOUS
    <3> QED
      BY <1>6, <3>1, <3>2
  <2>2. Len(<<q[1]>>) = 1 /\ <<q[1]>>[1] = q[1]
    OBVIOUS
  <2>3. <<q[1]>> \in Seq(Texts)
    BY <2>1
  <2> QED
    BY <2>1, <2>2, <2>3
<1>7. rows[first].organization = <<rows[first].organization[1]>>
  BY <1>4, <1>5, <1>6
<1> QED
  BY <1>3, <1>4, <1>7

\* A contact's address is not its own secondary address.
LEMMA GroupSecondaryIsOther ==
    ASSUME NEW rows, Rows(rows), NEW slug, NEW c \in Addresses
    PROVE  AggregatedRow(slug, rows).kept[c] \notin AggregatedRow(slug, rows).secondary[c]
<1>1. c \in Columns /\ c \in Columns \ Joined /\ c \notin Contacts
  BY DEF Columns, Joined, Addresses, Contacts
<1>2. First(rows, Selections(rows, c)) \notin ValuesOf(Secondary(rows, c))
  BY <1>1, SelectionsOfValues, RestOfSelections DEF Secondary
<1>3. AggregatedRow(slug, rows).kept[c] = First(rows, Selections(rows, c))
  BY <1>1 DEF AggregatedRow, Primary
<1>4. AggregatedRow(slug, rows).secondary[c] = ValuesOf(Secondary(rows, c))
  BY DEF AggregatedRow
<1> QED
  BY <1>2, <1>3, <1>4

-----------------------------------------------------------------------------
(* All groups *)

Slugs == {combined[i].slug : i \in DOMAIN combined}

\* Every row so far and its conflicts are what their group yields.
RowsAreYielded ==
    \A g \in 1..Len(refined) :
        /\ refined[g].slug \in Slugs
        /\ refined[g] = AggregatedRow(refined[g].slug, RowsOf(refined[g].slug))
        /\ conflicts[g] = ConflictsOf(RowsOf(refined[g].slug))

YieldsTyped ==
    /\ refined \in Seq({AggregatedRow(slug, RowsOf(slug)) : slug \in Slugs})
    /\ conflicts \in Seq({ConflictsOf(RowsOf(slug)) : slug \in Slugs})
    /\ Len(conflicts) = Len(refined)

GroupsTyped ==
    /\ combined \in Seq(Pool)
    /\ pc \in {"grouping", "aggregating", "done"}
    /\ pc = "grouping" => groups = <<>> /\ refined = <<>> /\ conflicts = <<>>
    /\ pc # "grouping" => groups = [slug \in Slugs |-> Positions(slug)]

AggregationInv == GroupsTyped /\ YieldsTyped /\ RowsAreYielded

\* The rows of a group are records, finitely many.
LEMMA RowsOfGroup ==
    ASSUME AggregationInv, pc # "grouping", NEW slug \in Slugs PROVE Rows(RowsOf(slug))
<1>1. combined \in Seq(Pool) /\ groups[slug] = Positions(slug)
  BY DEF AggregationInv, GroupsTyped
<1>2. DOMAIN combined = 1..Len(combined) /\ Len(combined) \in Nat
  BY <1>1
<1>3. IsFiniteSet(1..Len(combined)) /\ Positions(slug) \subseteq 1..Len(combined)
  BY <1>2, FS_Interval DEF Positions
<1>4. IsFiniteSet(Positions(slug))
  BY <1>3, FS_Subset
<1>5. \A i \in Positions(slug) : combined[i] \in Pool /\ i \in Nat
  BY <1>1, <1>2, <1>3
<1>6. RowsOf(slug) = [i \in Positions(slug) |-> combined[i]]
  BY <1>1 DEF RowsOf
<1>7. RowsOf(slug) \in [Positions(slug) -> Pool] /\ DOMAIN RowsOf(slug) = Positions(slug)
  BY <1>5, <1>6
<1> QED
  BY <1>4, <1>5, <1>7 DEF Rows

\* No group and no row exist at the start.
LEMMA AggregationStarts ==
    ASSUME Init PROVE AggregationInv
<1>1. combined \in Seq(Pool)
  <2>1. PICK n \in 1..MaxRecords : combined \in [1..n -> Pool]
    BY DEF Init
  <2>2. n \in Nat
    BY <2>1, AggregationAssumption
  <2> QED
    BY <2>1, <2>2
<1>2. pc = "grouping" /\ groups = <<>> /\ refined = <<>> /\ conflicts = <<>>
  BY DEF Init
<1>3. \A S : refined \in Seq(S) /\ conflicts \in Seq(S) /\ Len(refined) = 0 /\ Len(conflicts) = 0
  BY <1>2
<1>4. \A g \in 1..Len(refined) : FALSE
  BY <1>3
<1> QED
  BY <1>1, <1>2, <1>3, <1>4 DEF AggregationInv, GroupsTyped, YieldsTyped, RowsAreYielded

\* Adding a record to a group and writing a group's row keep the invariant.
LEMMA AggregationGoesOn ==
    ASSUME AggregationInv, [Next]_vars PROVE AggregationInv'
<1>1. CASE Group
  <2>1. /\ pc = "grouping" /\ pc' = "aggregating" /\ UNCHANGED combined
        /\ refined' = <<>> /\ conflicts' = <<>>
    BY <1>1 DEF Group, AggregationInv, GroupsTyped
  <2>2. groups' = [slug \in Slugs' |-> Positions(slug)']
    BY <1>1, <2>1 DEF Group, Slugs, Positions
  <2>3. \A S : refined' \in Seq(S) /\ conflicts' \in Seq(S) /\ Len(refined') = 0 /\ Len(conflicts') = 0
    BY <2>1
  <2>4. \A g \in 1..Len(refined') : FALSE
    BY <2>3
  <2>5. combined' \in Seq(Pool)
    BY <2>1 DEF AggregationInv, GroupsTyped
  <2> QED
    BY <2>1, <2>2, <2>3, <2>4, <2>5 DEF AggregationInv, GroupsTyped, YieldsTyped, RowsAreYielded
<1>2. CASE AggregateGroup
  <2>1. pc = "aggregating" /\ UNCHANGED <<combined, pc, groups>>
    BY <1>2 DEF AggregateGroup
  <2>2. PICK i \in DOMAIN combined :
            /\ refined' = Append(refined, AggregatedRow(combined[i].slug, RowsOf(combined[i].slug)))
            /\ conflicts' = Append(conflicts, ConflictsOf(RowsOf(combined[i].slug)))
    BY <1>2 DEF AggregateGroup
  <2> DEFINE slug == combined[i].slug
             row == AggregatedRow(slug, RowsOf(slug))
             new == ConflictsOf(RowsOf(slug))
             RowSet == {AggregatedRow(s, RowsOf(s)) : s \in Slugs}
             ConflictSet == {ConflictsOf(RowsOf(s)) : s \in Slugs}
  <2>3. slug \in Slugs /\ row \in RowSet /\ new \in ConflictSet
    BY DEF Slugs
  <2>4. row.slug = slug
    BY DEF AggregatedRow
  <2>5. \A s : RowsOf(s)' = RowsOf(s)
    BY <2>1 DEF RowsOf
  <2>6. Slugs' = Slugs /\ RowSet' = RowSet /\ ConflictSet' = ConflictSet
    BY <2>1, <2>5 DEF Slugs
  <2>7. refined \in Seq(RowSet) /\ conflicts \in Seq(ConflictSet) /\ Len(conflicts) = Len(refined)
    BY DEF AggregationInv, YieldsTyped
  <2>8. refined' = Append(refined, row) /\ conflicts' = Append(conflicts, new)
    BY <2>2
  <2>9. \A g \in 1..Len(refined) :
            /\ refined[g].slug \in Slugs
            /\ refined[g] = AggregatedRow(refined[g].slug, RowsOf(refined[g].slug))
            /\ conflicts[g] = ConflictsOf(RowsOf(refined[g].slug))
    BY DEF AggregationInv, RowsAreYielded
  <2>10. row = AggregatedRow(slug, RowsOf(slug)) /\ new = ConflictsOf(RowsOf(slug))
    OBVIOUS
  <2> HIDE DEF slug, row, new, RowSet, ConflictSet
  <2>11. /\ refined' \in Seq(RowSet) /\ conflicts' \in Seq(ConflictSet)
         /\ Len(refined') = Len(refined) + 1 /\ Len(conflicts') = Len(refined')
         /\ Len(refined) \in Nat
         /\ refined'[Len(refined) + 1] = row /\ conflicts'[Len(refined) + 1] = new
         /\ \A g \in 1..Len(refined) : refined'[g] = refined[g] /\ conflicts'[g] = conflicts[g]
    BY <2>3, <2>7, <2>8
  <2>12. ASSUME NEW g \in 1..Len(refined')
         PROVE  /\ refined'[g].slug \in Slugs
                /\ refined'[g] = AggregatedRow(refined'[g].slug, RowsOf(refined'[g].slug))
                /\ conflicts'[g] = ConflictsOf(RowsOf(refined'[g].slug))
    <3>1. CASE g \in 1..Len(refined)
      BY <2>9, <2>11, <3>1
    <3>2. CASE g = Len(refined) + 1
      BY <2>3, <2>4, <2>10, <2>11, <3>2
    <3> QED
      BY <2>11, <3>1, <3>2
  <2>13. YieldsTyped'
    <3>1. /\ refined' \in Seq(RowSet') /\ conflicts' \in Seq(ConflictSet')
          /\ Len(conflicts') = Len(refined')
      BY <2>6, <2>11
    <3> QED
      BY <3>1 DEF YieldsTyped, RowSet, ConflictSet
  <2>14. GroupsTyped'
    <3>1. groups = [s \in Slugs |-> Positions(s)] /\ combined \in Seq(Pool)
      BY <2>1 DEF AggregationInv, GroupsTyped
    <3>2. \A s : Positions(s)' = Positions(s)
      BY <2>1 DEF Positions
    <3> QED
      BY <2>1, <2>6, <3>1, <3>2 DEF GroupsTyped
  <2>15. RowsAreYielded'
    <3>1. \A g \in 1..Len(refined') :
              LET rows == [j \in groups'[refined'[g].slug] |-> combined'[j]] IN
              /\ refined'[g].slug \in Slugs'
              /\ refined'[g] = AggregatedRow(refined'[g].slug, rows)
              /\ conflicts'[g] = ConflictsOf(rows)
      BY <2>1, <2>6, <2>12 DEF RowsOf
    <3> QED
      BY <3>1 DEF RowsAreYielded, RowsOf
  <2> QED
    BY <2>13, <2>14, <2>15 DEF AggregationInv
<1>3. CASE Finish \/ UNCHANGED vars
  <2>1. /\ UNCHANGED <<combined, groups, refined, conflicts>>
        /\ pc' \in {"grouping", "aggregating", "done"}
        /\ pc = "grouping" <=> pc' = "grouping"
    BY <1>3 DEF Finish, vars, AggregationInv, GroupsTyped
  <2>2. Slugs' = Slugs /\ \A s : RowsOf(s)' = RowsOf(s) /\ Positions(s)' = Positions(s)
    BY <2>1 DEF Slugs, RowsOf, Positions
  <2> QED
    BY <2>1, <2>2 DEF AggregationInv, GroupsTyped, YieldsTyped, RowsAreYielded
<1> QED
  BY <1>1, <1>2, <1>3 DEF Next

\* Groups and rows have their types, and a row is that of its group.
LEMMA AggregationInvariant == Spec => []AggregationInv
<1>1. Init => AggregationInv
  BY AggregationStarts
<1>2. AggregationInv /\ [Next]_vars => AggregationInv'
  BY AggregationGoesOn
<1> QED
  BY <1>1, <1>2, PTL DEF Spec

\* What the invariant says of one row.
LEMMA RowOfItsGroup ==
    ASSUME AggregationInv, NEW g \in Aggregated
    PROVE  /\ Rows(RowsBehind(g))
           /\ refined[g] = AggregatedRow(refined[g].slug, RowsBehind(g))
           /\ conflicts[g] = ConflictsOf(RowsBehind(g))
<1>1. pc # "grouping"
  <2> SUFFICES ASSUME pc = "grouping" PROVE FALSE
    OBVIOUS
  <2>1. refined = <<>>
    BY DEF AggregationInv, GroupsTyped
  <2> QED
    BY <2>1 DEF Aggregated
<1>2. /\ refined[g].slug \in Slugs
      /\ refined[g] = AggregatedRow(refined[g].slug, RowsOf(refined[g].slug))
      /\ conflicts[g] = ConflictsOf(RowsOf(refined[g].slug))
  BY DEF AggregationInv, RowsAreYielded, Aggregated
<1> QED
  BY <1>1, <1>2, RowsOfGroup DEF RowsBehind

\* The records, their groups, rows and conflicts keep their types: no group
\* is empty, and no conflict is without an alternative (aggregation.py:280-312).
THEOREM AggregationTypes == Spec => []AggregationTypeOK
<1>1. AggregationInv => AggregationTypeOK
  <2> SUFFICES ASSUME AggregationInv PROVE AggregationTypeOK
    OBVIOUS
  <2>1. combined \in Seq(Pool) /\ pc \in {"grouping", "aggregating", "done"}
        /\ Len(conflicts) = Len(refined)
    BY DEF AggregationInv, GroupsTyped, YieldsTyped
  <2>2. ASSUME NEW slug \in DOMAIN groups
        PROVE  groups[slug] \in (SUBSET DOMAIN combined) \ {{}}
    <3>1. CASE pc = "grouping"
      <4>1. groups = <<>>
        BY <3>1 DEF AggregationInv, GroupsTyped
      <4> QED
        BY <4>1
    <3>2. CASE pc # "grouping"
      <4>1. slug \in Slugs /\ groups[slug] = Positions(slug)
        BY <3>2 DEF AggregationInv, GroupsTyped
      <4> QED
        BY <4>1 DEF Slugs, Positions
    <3> QED
      BY <3>1, <3>2
  <2>3. ASSUME NEW g \in DOMAIN conflicts, NEW k \in conflicts[g]
        PROVE  k.value \in SUBSET Texts /\ k.alternatives \in (SUBSET Texts) \ {{}}
    <3>1. DOMAIN conflicts = 1..Len(conflicts) /\ Len(conflicts) = Len(refined)
      BY DEF AggregationInv, YieldsTyped
    <3>2. g \in Aggregated
      BY <3>1 DEF Aggregated
    <3> QED
      BY <3>2, RowOfItsGroup, ConflictsOfColumns
  <2> QED
    BY <2>1, <2>2, <2>3 DEF AggregationTypeOK
<1> QED
  BY <1>1, AggregationInvariant, PTL

\* A kept website, area, e-mail or phone is the one its best row says, and is
\* only missing when no row of the organisation says any (aggregation.py:206-258).
THEOREM TheBestRowDecides == Spec => []BestRowDecides
<1>1. AggregationInv => BestRowDecides
  <2> SUFFICES ASSUME AggregationInv, NEW g \in Aggregated, NEW c \in Scalars \cup Addresses
               PROVE  IF \E i \in DOMAIN RowsBehind(g) : RowsBehind(g)[i][c] # <<>>
                      THEN \E i \in DOMAIN RowsBehind(g) :
                               Decides(RowsBehind(g), i, c, refined[g].kept[c])
                      ELSE refined[g].kept[c] = None
    BY DEF BestRowDecides
  <2>1. Rows(RowsBehind(g)) /\ refined[g] = AggregatedRow(refined[g].slug, RowsBehind(g))
    BY RowOfItsGroup
  <2>2. LET row == AggregatedRow(refined[g].slug, RowsBehind(g)) IN
        IF \E i \in DOMAIN RowsBehind(g) : RowsBehind(g)[i][c] # <<>>
        THEN \E i \in DOMAIN RowsBehind(g) : Decides(RowsBehind(g), i, c, row.kept[c])
        ELSE row.kept[c] = None
    BY <2>1, GroupBestDecides
  <2> QED
    BY <2>1, <2>2
<1> QED
  BY <1>1, AggregationInvariant, PTL

\* What aggregation drops in silence is spellings of the organisation's name, and
\* of those only what comes after the one it keeps: every other value of every
\* record is in the row of its organisation or a conflict of that row names it
\* (aggregation.py:186, 280-436).
THEOREM NothingElseIsLost == Spec => []OnlySpellingsAreLost
<1>1. AggregationInv => OnlySpellingsAreLost
  <2> SUFFICES ASSUME AggregationInv, NEW g \in Aggregated, NEW i \in DOMAIN RowsBehind(g)
               PROVE  /\ \A c \in Columns : \A n \in DOMAIN RowsBehind(g)[i][c] :
                             Accounted(refined[g], conflicts[g], c, RowsBehind(g)[i][c][n])
                      /\ RowsBehind(g)[i].organization # <<>> =>
                             \E k \in DOMAIN RowsBehind(g) :
                                 /\ k <= i
                                 /\ RowsBehind(g)[k].organization = <<refined[g].organization>>
    BY DEF OnlySpellingsAreLost
  <2>1. /\ Rows(RowsBehind(g)) /\ refined[g] = AggregatedRow(refined[g].slug, RowsBehind(g))
        /\ conflicts[g] = ConflictsOf(RowsBehind(g))
    BY RowOfItsGroup
  <2>2. ASSUME NEW c \in Columns, NEW n \in DOMAIN RowsBehind(g)[i][c]
        PROVE  Accounted(refined[g], conflicts[g], c, RowsBehind(g)[i][c][n])
    <3>1. Accounted(AggregatedRow(refined[g].slug, RowsBehind(g)), ConflictsOf(RowsBehind(g)), c,
                    RowsBehind(g)[i][c][n])
      BY <2>1, GroupAccountsForAll
    <3> QED
      BY <2>1, <3>1
  <2>3. ASSUME RowsBehind(g)[i].organization # <<>>
        PROVE  \E k \in DOMAIN RowsBehind(g) :
                   /\ k <= i
                   /\ RowsBehind(g)[k].organization = <<refined[g].organization>>
    <3>1. \E k \in DOMAIN RowsBehind(g) :
              /\ k <= i
              /\ RowsBehind(g)[k].organization
                     = <<AggregatedRow(refined[g].slug, RowsBehind(g)).organization>>
      BY <2>1, <2>3, GroupHasFirstName
    <3> QED
      BY <2>1, <3>1
  <2> QED
    BY <2>2, <2>3
<1> QED
  BY <1>1, AggregationInvariant, PTL

\* The conflict of a column of which one value is kept sets only other values
\* against it, no contact is its own secondary contact, and the conflict of a
\* joined text sets aside what the text itself has (aggregation.py:254-312, 359-406).
THEOREM ConflictsAgree == Spec => []ConflictsAgreeWithRow
<1>1. AggregationInv => ConflictsAgreeWithRow
  <2> SUFFICES ASSUME AggregationInv, NEW g \in Aggregated
               PROVE  /\ \A k \in conflicts[g] : Agrees(refined[g], k)
                      /\ \A c \in Addresses : refined[g].kept[c] \notin refined[g].secondary[c]
    BY DEF ConflictsAgreeWithRow
  <2>1. /\ Rows(RowsBehind(g)) /\ refined[g] = AggregatedRow(refined[g].slug, RowsBehind(g))
        /\ conflicts[g] = ConflictsOf(RowsBehind(g))
    BY RowOfItsGroup
  <2>2. \A k \in conflicts[g] : Agrees(refined[g], k)
    <3>1. \A k \in ConflictsOf(RowsBehind(g)) :
              Agrees(AggregatedRow(refined[g].slug, RowsBehind(g)), k)
      BY <2>1, ConflictsOfColumns
    <3> QED
      BY <2>1, <3>1
  <2>3. \A c \in Addresses : refined[g].kept[c] \notin refined[g].secondary[c]
    <3>1. LET row == AggregatedRow(refined[g].slug, RowsBehind(g))
          IN  \A c \in Addresses : row.kept[c] \notin row.secondary[c]
      BY <2>1, GroupSecondaryIsOther
    <3> QED
      BY <2>1, <3>1
  <2> QED
    BY <2>2, <2>3
<1> QED
  BY <1>1, AggregationInvariant, PTL

=============================================================================
